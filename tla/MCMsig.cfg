SPECIFICATION Spec
CONSTANTS
    Account = {1, 2, 3}
    Key = {1, 2}
    MaxDepth = 2
    Proposer = {1}
    Name = {"pay"}
    Initial <- MCInitial
    Updates <- MCUpdates
    Drafts <- MCDrafts
    Asked <- MCAsked
    Delays = {0, 1}
    Lifetime = 1
    MaxTime = 2
    MaxChanges = 3
INVARIANTS CheckerSound CheckerComplete
PROPERTIES SentConsented WaitsUntilDue
CHECK_DEADLOCK FALSE
