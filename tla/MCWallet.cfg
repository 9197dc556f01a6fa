SPECIFICATION WalletSpec
CONSTANTS
    Chains <- MCChains
    Facades <- MCFacades
    Drafts <- MCDrafts
    MaxBuilds = 2
    MaxHeld = 1
    None = None
    Nothing = Nothing
    Hash <- MCHash
    Own <- MCOwn
    Texts <- MCTexts
    Shapes <- MCShapes
    Shuffles <- MCShuffles
    Draws <- MCDraws
    Passwords <- MCPasswords
    ShortPasswords <- MCShort
    Keys <- MCKeys
INVARIANTS RecoveredIsBackedUp BuiltCompletes SignedIsBuilt RefusedIsNotSigned
