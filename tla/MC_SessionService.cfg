\* Two users and two session ids, some with a separator: shared state, write-throughs, appends, atomicity.
SPECIFICATION Spec
CONSTANTS
    n = n
    v = v
    w = w
    Names = {n}
    Values = {v, w}
    Tombstone = Tombstone
    Absent = Absent
    Apps <- OneApp
    Users <- SomeUsers
    Sids <- SomeSids
    Objects = {o1, o2}
    NoObject = NoObject
    NoAppend = NoAppend
    Tags = {"ev"}
    Authors = {"agent"}
    Inputs <- AllInputs
    InitialStates <- Initials
    Writes <- WriteThroughs
    MaxEvents = 2
SYMMETRY Symmetry
INVARIANTS
    PlainIdsArePrivate
PROPERTIES
    SharedViewsFollow
    AppendsAreAtomic
