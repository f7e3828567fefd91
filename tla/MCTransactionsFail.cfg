SPECIFICATION Spec
CONSTANTS
    Account = {"user", "dapp"}
    Trx = {"send", "resend", "later", "ping", "pong"}
    Input = {"send", "resend", "later"}
    Data <- Failing
    Allowance <- Allowances
    MaxTrxCpu = 3
    MinTrxCpu = 1
    MaxBlockCpu = 3
    Leeway = 1
    Window = 1
    Lifetime = 3
    PeerCpu = {1, 3}
    MaxSlot = 3
INVARIANT ValidatorsAgree
CHECK_DEADLOCK FALSE
