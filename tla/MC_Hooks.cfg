SPECIFICATION FairSpec
\* A procedure stops when it returns.
CHECK_DEADLOCK FALSE
CONSTANTS
    Hooks = 2
    None = None
INVARIANTS
    OneAnswerWins
PROPERTIES
    EndsUnlessEmpty
