CONSTANTS
    Tokens = {t1, t2}
    Requests = {r1, r2}
    MaxJobs = 1
SYMMETRY Symmetric
SPECIFICATION Spec
PROPERTIES
    RefinesRevocation
CHECK_DEADLOCK FALSE
