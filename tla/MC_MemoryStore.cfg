\* Sessions are appended to, deleted and created again while two ingestions overlap.
SPECIFICATION MemorySpec
CONSTANTS
    Names = {"n"}
    Values = {"v"}
    Tombstone = Tombstone
    Absent = Absent
    Apps <- OneApp
    Users <- TwoUsers
    Sids <- OneSid
    Objects = {o1, o2}
    NoObject = NoObject
    NoAppend = NoAppend
    Tags = {"both", "tea", "mute"}
    Authors = {"agent"}
    Inputs <- Spoken
    InitialStates <- Unwritten
    Writes = {}
    MaxEvents = 2
    Words = {"tea", "milk"}
    WordsOf <- Vocabulary
    Ingests = {c1, c2}
SYMMETRY Interchangeable
INVARIANTS
    SearchesFindThePast
PROPERTIES
    AloneForgetsNothing
