\* Parallel calls of two runs save, delete and read a plain and a user's file.
SPECIFICATION Spec
CONSTANTS
    Owners = {"ann", "bob"}
    Sessions = {"s", "user"}
    UserScoped = "user"
    Files = {"f", "user:f", "a/b"}
    UserFiles = {"user:f"}
    BadFiles = {"a/b"}
    Unset = ""
    Runs = {"r1", "r2"}
    OwnerOf <- RunOwners
    SessionOf <- RunSessions
    MaxCalls = 2
    MaxBatches = 1
    MaxSaves = 3
CHECK_DEADLOCK FALSE
INVARIANTS
    VersionsNameSaves
    ReadersFindTheFile
    RecordedVersionLoads
