\* Two batches of two calls that write one key, in one run or in two.
SPECIFICATION Spec
CONSTANTS
    a = a
    f = f
    g = g
    Keys = {"k"}
    Scalars = {a}
    Fields = {f, g}
    Literals <- OneFieldMaps
    MaxCalls = 2
    MaxWrites = 1
    MaxBatches = 2
    MaxMaps = 2
SYMMETRY Interchangeable
INVARIANTS
    EventsShowInState
    WritesRideOnEvents
    NoOlderValueReturns
