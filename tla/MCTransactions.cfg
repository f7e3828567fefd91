SPECIFICATION Spec
CONSTANTS
    Account = {"user", "dapp"}
    Trx = {"send", "resend", "later", "ping", "pong"}
    Input = {"send", "resend", "later"}
    Data <- Deferred
    Allowance <- Allowances
    MaxTrxCpu = 3
    MinTrxCpu = 1
    MaxBlockCpu = 3
    Leeway = 1
    Window = 1
    Lifetime = 3
    PeerCpu = {1, 3}
    MaxSlot = 3
INVARIANTS ValidatorsAgree NoneTwice RetiredByReceipt RamMatchesRows AcceptedKept
CHECK_DEADLOCK FALSE
