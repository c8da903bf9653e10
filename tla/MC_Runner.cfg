\* Two calls on one session, scheduled fairly.
SPECIFICATION FairRunnerSpec
CONSTANTS
    n = n
    v = v
    Names = {n}
    Values = {v}
    Tombstone = Tombstone
    Absent = Absent
    Apps <- OneApp
    Users <- OneUser
    Sids <- OneSid
    Objects = {o1, o2}
    NoObject = NoObject
    NoAppend = NoAppend
    Tags <- AllTags
    Authors = {"user", "root", "gate", "leaf", "peer", "remoteagent"}
    Inputs <- NoStates
    InitialStates <- NoStates
    Writes <- OneWrite
    MaxEvents = 6
    Runs = {r1, r2}
    Agents = {"root", "gate", "leaf", "peer"}
    Root = "root"
    Parent <- ChainParent
    NoAgent = NoAgent
    DisallowParent = {"gate"}
    Executable = {"root", "gate", "leaf", "peer"}
    User = "user"
    ReplyAuthors = {"leaf", "peer"}
    Shapes <- AllShapes
INVARIANTS
    CallsPersistInOrder
    FailedCallLeavesNoReply
    OneSessionPerId
PROPERTIES
    FreshInvocation
    EveryCallReturns
