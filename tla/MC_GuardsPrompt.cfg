SPECIFICATION Spec
CHECK_DEADLOCK FALSE
CONSTANTS
    Calls = {c1}
    None = None
    MaxRetries = 1
    MaxSettings = 1
INVARIANTS
    PromptReachesModel
