CONSTANTS
    c1 = c1
    c2 = c2
    none = none
    d1 = d1
    contract = contract
    Nobody = Nobody
    Texts <- MCTexts
    Canon <- MCCanon
    Plausible = {c1, c2}
    Open = none
    MaxChainSteps = 2
    Docs = {d1}
    DocTypes = {contract}
    TypeOf <- MCTypeOf
    InitialChains <- MCInitialChains
    EditedChains = {}
    EditedPolicies = {}
    MaxInherited = 0
    Titles = {t1}
    Requests = {r1, r2}
    SessionIds = {s1, s2}
    Operations = {"start", "submit"}
    Faults = FALSE
    MaxAge = 0
SPECIFICATION Spec
SYMMETRY Symmetry
INVARIANTS
    PromptRedeemable
