-------------------------- MODULE MC_SessionService --------------------------
(***************************************************************************)
(* An instance of the session service for TLC: two users, one of whose ids *)
(* holds a separator, two session ids, and one name under the four         *)
(* prefixes.                                                               *)
(***************************************************************************)
EXTENDS SessionRefinement, TLC

CONSTANTS n, v, w

KeyOf(scope) == [scope |-> scope, name |-> n]

Deltas(scopes, value) ==
    [k \in StateKey |-> IF k.scope \in scopes THEN value ELSE Absent]

\* Segments are numbered.  The user 10/20 with the session 21 and the user 10
\* with the session 20/21 have the same key.
OneApp == {<<0>>}
SomeUsers == {<<10>>, <<10, 20>>}
SomeSids == {<<21>>, <<20, 21>>}

EventOf(partial, delta) ==
    [tag |-> "ev", author |-> "agent", partial |-> partial, delta |-> delta]

\* A finished event with shared and temp keys, one that rewrites the shared
\* keys, one with a session tombstone, and a chunk.  Events without actions are
\* the user's, in the runner's instances.
AllInputs ==
    {EventOf(FALSE, Deltas({"app", "user", "temp"}, v)),
     EventOf(FALSE, Deltas({"app", "user"}, w)),
     EventOf(FALSE, Deltas({"session"}, Tombstone)),
     EventOf(TRUE, Deltas({"temp", "session"}, v))}

Initials == {Deltas({"app", "temp"}, w)}

WriteThroughs == {<<KeyOf("temp"), v>>, <<KeyOf("app"), w>>}

Symmetry == Permutations(Objects)

=============================================================================
