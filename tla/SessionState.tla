---------------------------- MODULE SessionState ----------------------------
(***************************************************************************)
(* The scoped key-value state of session/session.go, as operators.         *)
(*                                                                         *)
(* A key is its prefix ("app:", "user:", "temp:" or none, called "session" *)
(* here) and the name that follows it.  A state map and a state delta are  *)
(* both total functions on keys in which Absent stands for a missing key;  *)
(* a shared map (appState[app], userState[app][user]) is such a function   *)
(* on names, because the code strips the prefix before it stores the key.  *)
(***************************************************************************)

CONSTANTS
    Names,      \* what follows the prefix of a key
    Values,     \* ordinary state values
    Tombstone,  \* TombstoneValue, the sentinel string written by a delete
    Absent      \* no entry for the key

ASSUME SentinelsDistinct ==
    /\ Tombstone \notin Values
    /\ Absent \notin Values \cup {Tombstone}

Scopes == {"app", "user", "temp", "session"}

StateKey == [scope: Scopes, name: Names]

Stored == Values \cup {Tombstone}

\* A Go map from keys to values: map[string]any with Absent for missing keys.
StateMap == [StateKey -> Stored \cup {Absent}]

SharedMap == [Names -> Stored \cup {Absent}]

EmptyState == [k \in StateKey |-> Absent]

EmptyShared == [n \in Names |-> Absent]

-----------------------------------------------------------------------------

\* maps.Copy and the copying loops of applyStateDelta, for local and shared
\* maps alike: every entry of the delta replaces the one below it.
Overlay(map, delta) ==
    [k \in DOMAIN map |-> IF delta[k] = Absent THEN map[k] ELSE delta[k]]

\* ExtractStateDeltas: the entries of one shared scope, prefix stripped.
ScopePart(delta, scope) ==
    [n \in Names |-> delta[[scope |-> scope, name |-> n]]]

\* trimTempDeltaState, removeTempKeysFromState and Create's skip of temp keys.
TrimTemp(map) ==
    [k \in StateKey |-> IF k.scope = "temp" THEN Absent ELSE map[k]]

\* Mutant: prefixed keys of the local map are not skipped and shadow the shared
\* layers.
MergedViewLocalFirst(app, user, local) ==
    [k \in StateKey |->
        IF k.scope = "temp" THEN Absent
        ELSE IF local[k] # Absent THEN local[k]
        ELSE IF k.scope = "app" THEN app[k.name]
        ELSE IF k.scope = "user" THEN user[k.name]
        ELSE Absent]

\* mergeStatesForSession and MergeStates: shared layers under their prefixes,
\* hidden by a tombstone of their own or of the session key of the same name;
\* prefixed and temp keys of the local map are skipped.
MergedView(app, user, local) ==
    LET hidden(n) == local[[scope |-> "session", name |-> n]] = Tombstone
        layer(map, n) == IF hidden(n) \/ map[n] = Tombstone THEN Absent
                                                            ELSE map[n]
    IN [k \in StateKey |->
            CASE k.scope = "app"     -> layer(app, k.name)
              [] k.scope = "user"    -> layer(user, k.name)
              [] k.scope = "temp"    -> Absent
              [] k.scope = "session" -> local[k]]

=============================================================================
