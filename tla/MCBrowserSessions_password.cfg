SPECIFICATION Spec
SYMMETRY Symmetry
CONSTANTS
    MaxTokens = 2
    Families = {f1, f2}
    Calls = {c1, c2}
    Tabs = {t1}
    Retries = 1
    MaxUpsets = 1
    KeepsCookies = TRUE
INVARIANT LogInAgainHelps
CHECK_DEADLOCK FALSE
