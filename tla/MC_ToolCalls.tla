----------------------------- MODULE MC_ToolCalls -----------------------------
(***************************************************************************)
(* Maps for TLC: what a callback or a tool may create.                     *)
(***************************************************************************)
EXTENDS ToolCalls, TLC

OneField(f, x) == [g \in Fields |-> IF g = f THEN Scalar(x) ELSE Absent]

OneFieldMaps == {OneField(f, x) : f \in Fields, x \in Scalars}

Interchangeable == Permutations(Scalars) \cup Permutations(Fields)

=============================================================================
