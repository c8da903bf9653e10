\* Flows that hand over to each other, a sequence within a sequence, and a loop, a
\* flow and a sequence side by side.
SPECIFICATION FairTreeSpec
CONSTANTS
    Agents = {"home", "desk", "billing", "support", "outer", "inner", "flow",
              "step", "last", "clerk", "courier", "fan", "again", "chat", "pair",
              "fix", "one", "two", "stranger"}
    NoAgent = NoAgent
    Root = "home"
    Entry = {"desk", "billing", "outer", "fan"}
    Kind <- HomeKind
    Subs <- HomeSubs
    Parent <- HomeParent
    NoParentTransfer = {"clerk"}
    NoPeerTransfer = {"clerk"}
    Executable = {"home", "desk", "billing", "support", "outer", "inner", "flow",
                  "step", "last", "clerk", "courier", "fan", "again", "chat", "pair",
                  "fix", "one", "two"}
    ToolSignals = {"ends"}
    ToolTargets = {}
    CustomMoves <- HomeMoves
    MaxTransferDepth = 2
    MaxIterations = 2
    MaxRounds = 2
    MaxActs = 8
CHECK_DEADLOCK FALSE
INVARIANTS
    TransfersDescend
    EventsAreHandedUp
    EndStopsFlow
PROPERTIES
    EndStopsSequences
    InvocationReturns
