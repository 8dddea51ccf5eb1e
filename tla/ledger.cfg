CONSTANTS
    c1 = c1
    c2 = c2
    c3 = c3
    c4 = c4
    c1Spelt = c1Spelt
    short = short
    none = none
    d1 = d1
    contract = contract
    Texts <- MCTexts
    Canon <- MCCanon
    Plausible <- MCPlausible
    Open = none
    MaxChainSteps = 3
    Docs = {d1}
    DocTypes = {contract}
    TypeOf <- MCTypeOf
    InitialChains <- MCInitialChains
    MaxInherited = 1
    NoCopy = NoCopy
SPECIFICATION Spec
INVARIANTS
    TypeOK
    StepsHonoured
    NamedSignersFree
    OwesAnApproval
    ApprovedIsComplete
    SomebodyCanSign
    TrailTellsTheChain
    BadgeTellsTheStatus
