SPECIFICATION FairSpec
CONSTANTS
    t1 = t1
    t2 = t2
    c1 = c1
    c2 = c2
    c3 = c3
    c4 = c4
    c5 = c5
    c6 = c6
    Nil = Nil
    Callers = {t1, t2}
    ClientId = {c1, c2, c3, c4, c5, c6}
    Key <- MCKey
    Configs <- MCConfigs
    MaxInits = 3
INVARIANTS
    NoUseAfterClose
    NoLeak
    RegistryMatchesConfig
    LazyMatchesConfig
PROPERTIES
    CallsReturn
