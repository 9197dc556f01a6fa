SPECIFICATION UtxoSpec
CONSTANTS
    Nothing = Nothing
    Networks <- MCNetworks
    Wallets <- MCWallets
    Targets <- MCTargets
    Ingredients <- MCDrafts
    MaxCalls = 3
CHECK_DEADLOCK FALSE
INVARIANTS
    FeeIsFair
    RefusedOnlyWhenShort
