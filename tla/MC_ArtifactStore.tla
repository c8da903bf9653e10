--------------------------- MODULE MC_ArtifactStore ---------------------------
(***************************************************************************)
(* Runs for TLC: of one user, in a session and in one called "user".       *)
(***************************************************************************)
EXTENDS ArtifactStore, TLC

RunOwners == ("r1" :> "ann") @@ ("r2" :> "ann")
RunSessions == ("r1" :> "s") @@ ("r2" :> "user")

=============================================================================
