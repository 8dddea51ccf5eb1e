CONSTANTS
    c1 = c1
    c2 = c2
    none = none
    Nobody = Nobody
    Texts <- MCTexts
    Canon <- MCCanon
    Plausible = {c1, c2}
    Open = none
    MaxChainSteps = 2
    Admins = {a1, a2, a3}
SPECIFICATION Spec
SYMMETRY Symmetry
INVARIANTS
    TypeOK
    RequirementSatisfiable
PROPERTIES
    SavedIsStored
