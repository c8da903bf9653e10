---------------------------- MODULE ArtifactStore ----------------------------
(***************************************************************************)
(* artifact/inmemory.go under concurrent runs: the versions of each file,  *)
(* and what the runs record of their saves in ArtifactDelta.               *)
(*                                                                         *)
(* A run is an invocation over one session.  Its tool calls save in        *)
(* parallel through the decorated service (trackedArtifacts); its agent    *)
(* callbacks and the program around it save through the plain one.  The    *)
(* content of a version is the number of the save that brought it.         *)
(***************************************************************************)
EXTENDS Naturals, Sequences

CONSTANTS
    Owners,     \* pairs of an app and a user
    Sessions,   \* session ids
    UserScoped, \* userScopedSessionID, the session id "user"
    Files,      \* file names
    UserFiles,  \* those with the prefix "user:"
    BadFiles,   \* those with a path separator
    Unset,      \* a field that a request leaves empty
    Runs, OwnerOf, SessionOf, \* invocations, and whose they are
    MaxCalls,   \* bound: parallel calls of a batch
    MaxBatches, \* bound: batches of a run
    MaxSaves    \* bound: saves altogether

ASSUME ArtifactAssumption ==
    /\ UserFiles \subseteq Files
    /\ BadFiles \subseteq Files
    /\ Unset \notin Owners \cup Sessions \cup Files
    /\ OwnerOf \in [Runs -> Owners]
    /\ SessionOf \in [Runs -> Sessions]
    /\ MaxCalls \in Nat \ {0}
    /\ {MaxBatches, MaxSaves} \subseteq Nat

Identity == [owner: Owners, session: Sessions \cup {UserScoped}, file: Files]

VARIABLES
    store,  \* the versions stored for each identity, oldest first
    keys,   \* the identities that are keys of the map
    calls,  \* per run: the calls of the batch in progress
    events, \* per run: the ArtifactDelta of its events
    saves   \* auxiliary: all saves, in order

vars == <<store, keys, calls, events, saves>>

-----------------------------------------------------------------------------
(***************************************************************************)
(* Requests.  What Validate refuses changes nothing.                       *)
(***************************************************************************)

\* validateFileName
FileNameOK(file) == file \notin BadFiles

Given(r) == Unset \notin {r.owner, r.session}

SaveValid(r) ==
    /\ Given(r) /\ r.file # Unset
    /\ r.part = "content"   \* neither nil nor without text and data
    /\ FileNameOK(r.file)

DeleteValid(r) == Given(r) /\ r.file # Unset /\ FileNameOK(r.file)

LoadValid(r) == Given(r) /\ r.file # Unset /\ FileNameOK(r.file)

VersionsValid(r) == Given(r) /\ r.file # Unset /\ FileNameOK(r.file)

VersionInfoValid(r) == Given(r) /\ r.file # Unset /\ FileNameOK(r.file)

ListValid(r) == Given(r)

\* resolveIdentity
IdentityOf(r) ==
    [owner |-> r.owner,
     session |-> IF r.file \in UserFiles THEN UserScoped ELSE r.session,
     file |-> r.file]

-----------------------------------------------------------------------------
(***************************************************************************)
(* Reading                                                                 *)
(***************************************************************************)

NotFound == [version |-> 0, save |-> 0]

Last(versions) == versions[Len(versions)]

\* The entry that Load and GetArtifactVersion settle on: the version asked for, or
\* the latest if none is asked for.
Pick(versions, v) ==
    LET at == {i \in DOMAIN versions : versions[i].version = v}
    IN IF versions = <<>> THEN NotFound
       ELSE IF v = 0 THEN Last(versions)
       ELSE IF at = {} THEN NotFound
       ELSE versions[CHOOSE i \in at : \A j \in at : i <= j]

\* The content that Load returns, or 0
Load(r, v) == IF LoadValid(r) THEN Pick(store[IdentityOf(r)], v).save ELSE 0

Versions(r) ==
    IF VersionsValid(r)
    THEN [i \in DOMAIN store[IdentityOf(r)] |-> store[IdentityOf(r)][i].version]
    ELSE <<>>

VersionInfo(r, v) ==
    IF VersionInfoValid(r) THEN Pick(store[IdentityOf(r)], v).version ELSE 0

\* Mutant: List looks at the session's own files only.
ListOwn(r) ==
    IF ListValid(r)
    THEN {id.file : id \in {k \in keys : k.owner = r.owner /\ k.session = r.session}}
    ELSE {}

List(r) ==
    IF ListValid(r)
    THEN {id.file : id \in {k \in keys : /\ k.owner = r.owner
                                         /\ k.session \in {r.session, UserScoped}}}
    ELSE {}

-----------------------------------------------------------------------------
(***************************************************************************)
(* Saving.  saved is the save that a call has made and not yet recorded.   *)
(***************************************************************************)

Nothing == [file |-> Unset, version |-> 0]
NoDelta == [f \in Files |-> 0]
NewCall == [delta |-> NoDelta, saved |-> Nothing]

\* Mutant: the next version is one more than the number of those stored.
NextVersionByCount(versions) == Len(versions) + 1

NextVersion(versions) == IF versions = <<>> THEN 1 ELSE Last(versions).version + 1

\* append(versions[:i], versions[i+1:]...) at the version asked for
Without(versions, v) ==
    LET i == CHOOSE j \in DOMAIN versions : versions[j].version = v
    IN IF \E j \in DOMAIN versions : versions[j].version = v
       THEN SubSeq(versions, 1, i - 1) \o SubSeq(versions, i + 1, Len(versions))
       ELSE versions

Init ==
    /\ store = [id \in Identity |-> <<>>]
    /\ keys = {}
    /\ calls = [r \in Runs |-> <<>>]
    /\ events = [r \in Runs |-> <<>>]
    /\ saves = <<>>

Requests(r) ==
    [owner: {OwnerOf[r], Unset}, session: {SessionOf[r], Unset}, file: Files \cup {Unset},
     part: {"content", "empty", "nil"}]

\* inMemoryService.Save by call c of run r, or outside its calls (c = 0)
Stores(r, c, q) ==
    LET id == IdentityOf(q)
        version == NextVersion(store[id])
    IN /\ Len(saves) < MaxSaves
       /\ store' = [store EXCEPT ![id] =
                        Append(@, [version |-> version, save |-> Len(saves) + 1])]
       /\ keys' = keys \cup {id}
       /\ saves' = Append(saves, [id |-> id, version |-> version, stored |-> TRUE,
                                  run |-> r, event |-> Len(events[r]) + 1, call |-> c])

\* A batch of parallel calls, some of which may save nothing
Start(r) ==
    /\ calls[r] = <<>>
    /\ Len(events[r]) < MaxBatches
    /\ calls' = [calls EXCEPT ![r] = [c \in 1..MaxCalls |-> NewCall]]
    /\ UNCHANGED <<store, keys, events, saves>>

\* trackedArtifacts.Save up to the answer of the inner service
CallSaves(r, c, q) ==
    /\ SaveValid(q)
    /\ calls[r][c].saved = Nothing
    /\ Stores(r, c, q)
    /\ calls' = [calls EXCEPT ![r][c].saved =
                    [file |-> q.file, version |-> NextVersion(store[IdentityOf(q)])]]
    /\ UNCHANGED events

\* Mutant: the first version that a call saves of a file stays recorded.
RecordFirst(r, c) ==
    /\ calls[r][c].saved # Nothing
    /\ calls' = [calls EXCEPT
                    ![r][c].delta[calls[r][c].saved.file] =
                        IF @ = 0 THEN calls[r][c].saved.version ELSE @,
                    ![r][c].saved = Nothing]
    /\ UNCHANGED <<store, keys, events, saves>>

\* The rest of trackedArtifacts.Save
Record(r, c) ==
    /\ calls[r][c].saved # Nothing
    /\ calls' = [calls EXCEPT
                    ![r][c].delta[calls[r][c].saved.file] = calls[r][c].saved.version,
                    ![r][c].saved = Nothing]
    /\ UNCHANGED <<store, keys, events, saves>>

\* A save through the undecorated service: by an agent callback, whose context
\* RunWithCallbackContext makes without tracking, or by the program
PlainSave(r, q) ==
    /\ SaveValid(q)
    /\ Stores(r, 0, q)
    /\ UNCHANGED <<calls, events>>

\* The calls of a run that have recorded a version of f.
Recorders(r, f) == {c \in DOMAIN calls[r] : calls[r][c].delta[f] # 0}

\* mergeEventActions over the calls in order
MergedDelta(r) ==
    [f \in Files |->
        LET last == CHOOSE c \in Recorders(r, f) : \A d \in Recorders(r, f) : d <= c
        IN IF Recorders(r, f) = {} THEN 0 ELSE calls[r][last].delta[f]]

\* All calls have returned, and their actions are merged into the event.
Merge(r) ==
    /\ calls[r] # <<>>
    /\ \A c \in DOMAIN calls[r] : calls[r][c].saved = Nothing
    /\ events' = [events EXCEPT ![r] = Append(@, MergedDelta(r))]
    /\ calls' = [calls EXCEPT ![r] = <<>>]
    /\ UNCHANGED <<store, keys, saves>>

\* What a Delete of version v of id removes, for the auxiliary saves.
Removes(i, id, v) == saves[i].id = id /\ v \in {0, saves[i].version}

\* inMemoryService.Delete of one version, or of the file (v = 0)
Delete(q, v) ==
    LET id == IdentityOf(q)
    IN /\ DeleteValid(q)
       /\ store[id] # <<>>
       /\ store' = [store EXCEPT ![id] = IF v = 0 THEN <<>> ELSE Without(@, v)]
       /\ keys' = IF v = 0 THEN keys \ {id} ELSE keys
       /\ saves' = [i \in DOMAIN saves |->
                        IF Removes(i, id, v) THEN [saves[i] EXCEPT !.stored = FALSE]
                        ELSE saves[i]]
       /\ UNCHANGED <<calls, events>>

Next ==
    \E r \in Runs :
        \/ Start(r)
        \/ \E c \in DOMAIN calls[r], q \in Requests(r) : CallSaves(r, c, q)
        \/ \E c \in DOMAIN calls[r] : Record(r, c)
        \/ \E q \in Requests(r) : PlainSave(r, q)
        \/ Merge(r)
        \/ \E q \in Requests(r), v \in 0..MaxSaves : Delete(q, v)

Spec == Init /\ [][Next]_vars

-----------------------------------------------------------------------------
(***************************************************************************)
(* Types                                                                   *)
(***************************************************************************)

Entry == [version: Nat \ {0}, save: Nat \ {0}]

Delta == [Files -> Nat]

Call == [delta: Delta, saved: [file: Files, version: Nat \ {0}] \cup {Nothing}]

SaveOf == [id: Identity, version: Nat \ {0}, stored: BOOLEAN, run: Runs,
           event: Nat \ {0}, call: Nat]

\* Nothing is stored under a name that Validate refuses.
ArtifactTypeOK ==
    /\ store \in [Identity -> Seq(Entry)]
    /\ keys \subseteq {id \in Identity : id.file \notin BadFiles}
    /\ \A id \in Identity : store[id] # <<>> => id \in keys
    /\ calls \in [Runs -> Seq(Call)]
    /\ events \in [Runs -> Seq(Delta)]
    /\ saves \in Seq(SaveOf)

-----------------------------------------------------------------------------
(***************************************************************************)
(* Properties                                                              *)
(***************************************************************************)

\* The versions of a file are stored in increasing order, whatever was deleted
\* between the saves: a number finds one entry, and the last entry is the latest
\* (inmemory.go:61-68, 87-97, 116-121).
VersionsIncrease ==
    \A id \in Identity : \A i, j \in DOMAIN store[id] :
        i < j => store[id][i].version < store[id][j].version

\* Every save that no Delete has meant is still there, under its own version and with
\* its own content, and nothing else is: concurrent saves and deletes of single
\* versions lose and resurrect nothing (inmemory.go:58-69, 115-126).
StoredUntilDeleted ==
    \A id \in Identity : \A n \in DOMAIN saves :
        saves[n].id = id /\ saves[n].stored <=>
            \E i \in DOMAIN store[id] :
                store[id][i] = [version |-> saves[n].version, save |-> n]

\* Those who may load the file of an identity.
Readers(id) ==
    {s \in Sessions : s = id.session \/ (id.session = UserScoped /\ id.file \in UserFiles)}

RequestFor(id, s) == [owner |-> id.owner, session |-> s, file |-> id.file, part |-> "nil"]

\* Load without a version returns the newest save of the file that is not deleted, to all
\* sessions of the owner if the name has the prefix "user:" (inmemory.go:39-49, 96).
LatestIsNewestSave ==
    \A id \in keys : \A s \in Readers(id) :
        LET left == {n \in DOMAIN saves : saves[n].id = id /\ saves[n].stored}
            newest == Load(RequestFor(id, s), 0)
        IN IF left = {} THEN newest = 0
           ELSE newest \in left /\ \A n \in left : n <= newest

\* The saves of f by the calls behind event e of run r.
SavesBehind(r, e, f) ==
    {n \in DOMAIN saves : /\ saves[n].run = r /\ saves[n].event = e
                          /\ saves[n].id.file = f /\ saves[n].call > 0}

\* An event has a version of every file that its calls saved: the last one of the last call,
\* in the order of the response, that saved it.  That version loads what was saved
\* until it is deleted; afterwards its number may be used again
\* (callback_context.go:200-209, flow.go:655-662).
RecordedVersionLoads ==
    \A r \in Runs : \A e \in DOMAIN events[r] : \A f \in Files :
        LET mine == SavesBehind(r, e, f)
            last == CHOOSE n \in mine :
                        \A m \in mine : \/ saves[m].call < saves[n].call
                                        \/ saves[m].call = saves[n].call /\ m <= n
            q == [owner |-> OwnerOf[r], session |-> SessionOf[r], file |-> f, part |-> "nil"]
        IN IF mine = {} THEN events[r][e][f] = 0
           ELSE /\ events[r][e][f] = saves[last].version
                /\ saves[last].stored => Load(q, events[r][e][f]) = last

\* What a session can load it is shown (inmemory.go:129-154).
LoadableIsListed ==
    \A o \in Owners, s \in Sessions, f \in Files :
        Load([owner |-> o, session |-> s, file |-> f, part |-> "nil"], 0) # 0
            => f \in List([owner |-> o, session |-> s])

\* A list is of "session-scoped and user-scoped (user: prefix) artifacts": it shows a
\* session no file without the prefix that only others have saved.  Those of a session
\* called "user" are shown to all (inmemory.go:142): this does not hold.
ListShowsOwnFiles ==
    \A o \in Owners, s \in Sessions : \A f \in List([owner |-> o, session |-> s]) :
        \E n \in DOMAIN saves :
            /\ saves[n].id.owner = o /\ saves[n].id.file = f
            /\ f \in UserFiles \/ SessionOf[saves[n].run] = s

\* A list is of artifacts: of each file in it some version is stored.  Deleting the last
\* version leaves an empty file (inmemory.go:118): this does not hold.
ListedHaveVersions ==
    \A o \in Owners, s \in Sessions : \A f \in List([owner |-> o, session |-> s]) :
        \E id \in Identity : id.owner = o /\ id.file = f /\ store[id] # <<>>

\* A version names one save as long as it is stored, whatever was saved and deleted in
\* between, and what is stored is what was saved and not deleted (inmemory.go:55-126).
VersionsNameSaves == ArtifactTypeOK /\ VersionsIncrease /\ StoredUntilDeleted

\* Every session finds the files that are meant for it, the newest save of each, and in
\* the list all it can load (inmemory.go:35-49, 129-154).
ReadersFindTheFile == LatestIsNewestSave /\ LoadableIsListed

=============================================================================
