SPECIFICATION Spec
\* The calls end and SetConfirmed is called no more.
CHECK_DEADLOCK FALSE
CONSTANTS
    Calls = {c1, c2, c3}
    None = None
    MaxRetries = 1
    MaxSettings = 3
SYMMETRY Symmetric
INVARIANTS
    ApprovalsHold
    AttemptsAreNumbered
    VerdictIsTold
