----------------------------- MODULE MCUploadMany -----------------------------
(* Instances of UploadMany for TLC. *)
EXTENDS UploadMany, TLC

CONSTANTS r1, r2, key1, tag1, tag2

TwoRuns   == {r1, r2}
Persisted == [r \in TwoRuns |-> key1]
OneRun    == [r \in {r1} |-> key1]

NewProject == ByName

Symmetry == Permutations(TwoRuns)
===============================================================================
