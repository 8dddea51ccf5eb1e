CONSTANTS
    c1 = c1
    c2 = c2
    none = none
    d1 = d1
    contract = contract
    Nobody = Nobody
    Texts <- MCTexts
    Canon <- MCCanon
    Plausible = {c1, c2}
    Open = none
    MaxChainSteps = 2
    Docs = {d1}
    DocTypes = {contract}
    TypeOf <- MCTypeOf
    InitialChains <- MCInitialChains
    EditedChains <- MCEditedChains
    EditedPolicies = {}
    MaxInherited = 0
    Titles = {t1}
    Requests = {r1, r2}
    SessionIds = {s1}
    Operations = {"dan", "start", "poll", "rename", "reject", "submit"}
    Faults = TRUE
    MaxAge = 0
SPECIFICATION FairSpec
PROPERTIES
    EveryCallReturns
    Implements
    DecisionStands
