---------------------------- MODULE MC_MemoryStore ----------------------------
(***************************************************************************)
(* Two users with sessions of the same id, and events with two words, one, *)
(* none.                                                                   *)
(***************************************************************************)
EXTENDS MemoryStore, TLC

OneApp == {<<0>>}
TwoUsers == {<<10>>, <<11>>}
OneSid == {<<20>>}

Finished(t) ==
    [tag |-> t, author |-> "agent", partial |-> FALSE, delta |-> EmptyState]

Spoken == {Finished(t) : t \in Tags}

Vocabulary == [t \in Tags |-> CASE t = "both" -> {"tea", "milk"}
                                [] t = "tea" -> {"tea"}
                                [] t = "mute" -> {}]

Unwritten == {EmptyState}

Interchangeable == Permutations(Objects) \cup Permutations(Ingests)

=============================================================================
