SPECIFICATION Spec
SYMMETRY Symmetry
CONSTRAINT FewTokensOrUpsets
CONSTANTS
    MaxTokens = 3
    Families = {f1, f2}
    Calls = {c1, c2}
    Tabs = {t1, t2}
    Retries = 1
    MaxUpsets = 2
    KeepsCookies = TRUE
INVARIANTS
    TypeOK
    HeirKept
    RefusedForCause
PROPERTY SignedOutForCause
CHECK_DEADLOCK FALSE
