SPECIFICATION Spec
CONSTANTS
    Accounts = {"wallet", "token", "other"}
    Sender = "wallet"
    Target = "token"
    Executions <- MCExecutions
    Required = 2
    MaxHead = 5
    MaxReorgs = 2
    MaxDepth = 2
    WordSize = 256
CHECK_DEADLOCK FALSE
INVARIANTS
    TransfersTrue
    NativeOfOneExecution
