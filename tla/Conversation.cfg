SPECIFICATION ChatSpec
CONSTANTS
    MaxRequests = 3
    MaxBlocks = 3
    MaxPieces = 1
    Ids = {101, 102}
    Functions = {"f", "g"}
    Schemas <- ToolSchemas
    Extras = {{}, {"top_k", "forced"}}
    Budgets = {1, 5}
    Limits = {2, 4}
    MinBudget = 3
    DefaultTokens = 9
    Ceiling = 6
INVARIANTS
    RequestsAccepted
    EchoIsExact
    StreamIsWhole
CHECK_DEADLOCK FALSE
