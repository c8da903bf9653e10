----------------------------- MODULE MemoryStore -----------------------------
(***************************************************************************)
(* memory/inmemory.go over the session service: sessions that are appended *)
(* to, deleted and created again while callers ingest and search them.     *)
(*                                                                         *)
(* AddSessionToMemory reads the session's events before it takes the lock  *)
(* of the store, so an ingestion is two steps.                             *)
(***************************************************************************)
EXTENDS SessionService, SequencesExt

CONSTANTS
    Words,    \* words of texts and queries, in lower case
    WordsOf,  \* the words of the content of an event, by its tag
    Ingests   \* concurrent calls of AddSessionToMemory

ASSUME MemoryAssumption == WordsOf \in [Tags -> SUBSET Words]

VARIABLES
    memory,   \* the entries stored for a session id, in the order of its history
    ingests,  \* the calls in progress: what each has read
    source    \* auxiliary: the session object whose entries are stored

memoryVars == <<memory, ingests, source>>
allVars == <<svcVars, memoryVars>>

-----------------------------------------------------------------------------

Entry == [id: Tags, author: Authors, words: SUBSET Words]

\* values of AddSessionToMemory for an event: partial events and events without
\* words, which those without content are too, are skipped.
Remembered(ev) == ~ev.partial /\ WordsOf[ev.tag] # {}

EntryOf(ev) == [id |-> ev.tag, author |-> ev.author, words |-> WordsOf[ev.tag]]

\* values of AddSessionToMemory behind each event of a history.
Gathered(h) ==
    LET values[n \in 0..Len(h)] ==
            IF n = 0 THEN <<>>
            ELSE IF Remembered(h[n]) THEN Append(values[n - 1], EntryOf(h[n]))
            ELSE values[n - 1]
    IN values

\* The entries of a history, in its order.
Entries(h) == Gathered(h)[Len(h)]

\* No ingestion in progress.
Idle == [obj |-> NoObject, values |-> <<>>, overtaken |-> FALSE]

-----------------------------------------------------------------------------
(***************************************************************************)
(* Searching                                                               *)
(***************************************************************************)

\* wordsIntersect
WordsIntersect(m1, m2) == m1 \cap m2 # {}

\* SearchMemory: what is found of the entries of all sessions of the app and user
SearchMemory(app, user, query) ==
    {e \in UNION {Range(memory[id]) : id \in {i \in SessionId : i.app = app /\ i.user = user}} :
        WordsIntersect(e.words, query)}

-----------------------------------------------------------------------------
(***************************************************************************)
(* Ingesting                                                               *)
(***************************************************************************)

MemoryInit ==
    /\ Init
    /\ memory = [id \in SessionId |-> <<>>]
    /\ ingests = [c \in Ingests |-> Idle]
    /\ source = [id \in SessionId |-> NoObject]

\* Mutant: only what is newer than the stored entries is read.
ReadNewer(c, o) ==
    /\ ingests[c] = Idle
    /\ o \in alloc
    /\ LET newer == SubSeq(events[o], Len(memory[owner[o]]) + 1, Len(events[o]))
       IN ingests' = [ingests EXCEPT ![c] =
                        [obj |-> o, values |-> Entries(newer), overtaken |-> FALSE]]
    /\ UNCHANGED <<svcVars, memory, source>>

\* AddSessionToMemory up to the lock, through a handle that may outlive its session
ReadSession(c, o) ==
    /\ ingests[c] = Idle
    /\ o \in alloc
    /\ ingests' = [ingests EXCEPT ![c] =
                    [obj |-> o, values |-> Entries(events[o]), overtaken |-> FALSE]]
    /\ UNCHANGED <<svcVars, memory, source>>

\* Another ingestion of the same session id stores while d is between its two steps.
Overtakes(c, d) ==
    /\ d # c /\ ingests[d] # Idle
    /\ owner[ingests[d].obj] = owner[ingests[c].obj]

\* Mutant: the entries are added to those stored before.
StoreAdding(c) ==
    /\ ingests[c] # Idle
    /\ LET id == owner[ingests[c].obj]
       IN /\ memory' = [memory EXCEPT ![id] = @ \o ingests[c].values]
          /\ source' = [source EXCEPT ![id] = ingests[c].obj]
    /\ ingests' = [d \in Ingests |->
                    IF d = c THEN Idle
                    ELSE [ingests[d] EXCEPT !.overtaken = @ \/ Overtakes(c, d)]]
    /\ UNCHANGED svcVars

\* The rest of AddSessionToMemory: all entries of the session id are replaced.
StoreEntries(c) ==
    /\ ingests[c] # Idle
    /\ LET id == owner[ingests[c].obj]
       IN /\ memory' = [memory EXCEPT ![id] = ingests[c].values]
          /\ source' = [source EXCEPT ![id] = ingests[c].obj]
    /\ ingests' = [d \in Ingests |->
                    IF d = c THEN Idle
                    ELSE [ingests[d] EXCEPT !.overtaken = @ \/ Overtakes(c, d)]]
    /\ UNCHANGED svcVars

MemoryNext ==
    \/ Next /\ UNCHANGED memoryVars
    \/ \E c \in Ingests, o \in Objects : ReadSession(c, o)
    \/ \E c \in Ingests : StoreEntries(c)

MemorySpec == MemoryInit /\ [][MemoryNext]_allVars

-----------------------------------------------------------------------------
(***************************************************************************)
(* Types and properties                                                    *)
(***************************************************************************)

Ingest == [obj: Objects, values: Seq(Entry), overtaken: BOOLEAN]

MemoryTypeOK ==
    /\ TypeOK
    /\ memory \in [SessionId -> Seq(Entry)]
    /\ ingests \in [Ingests -> Ingest \cup {Idle}]
    /\ source \in [SessionId -> Objects \cup {NoObject}]

\* What a history was when it had n events.
Past(o, n) == SubSeq(events[o], 1, n)

\* What is stored for a session id is what the history of one session of that very app,
\* user and id once was: no entry is taken from another session, lost from the
\* middle or stored twice, however ingestions and appends interleave
\* (inmemory.go:40-91).
MemoryIsAPast ==
    \A id \in SessionId :
        memory[id] # <<>> =>
            /\ source[id] \in alloc /\ owner[source[id]] = id
            /\ \E n \in 0..Len(events[source[id]]) : memory[id] = Entries(Past(source[id], n))

\* An ingestion that no other one overtook forgets nothing of the session it is of: only
\* when two overlap may an older snapshot replace a newer one
\* (inmemory.go:43, 80-89).
AloneForgetsNothing ==
    [][\A c \in Ingests :
        LET id == owner[ingests[c].obj]
        IN ingests[c] # Idle /\ ingests'[c] = Idle =>
            \/ ingests[c].overtaken
            \/ source[id] # ingests[c].obj
            \/ IsPrefix(memory[id], memory'[id])]_allVars

\* A search finds the events of the searching user's own sessions only, and of what is stored
\* every event that shares a word with the query (inmemory.go:93-143).
SearchesOwnPast ==
    \A a \in Apps, u \in Users, query \in SUBSET Words :
        LET found == SearchMemory(a, u, query)
        IN /\ \A e \in found : \E o \in alloc :
                /\ owner[o].app = a /\ owner[o].user = u
                /\ \E i \in DOMAIN events[o] : events[o][i].tag = e.id
           /\ \A id \in SessionId : id.app = a /\ id.user = u =>
                \A i \in DOMAIN memory[id] :
                    (\E w \in query : w \in memory[id][i].words) => memory[id][i] \in found

\* What a user finds is what was said in the user's own sessions, and what the memory holds
\* of a session is a whole past of it (inmemory.go:40-143).
SearchesFindThePast == MemoryTypeOK /\ MemoryIsAPast /\ SearchesOwnPast

=============================================================================
