------------------------------ MODULE BulkImport ------------------------------
(***************************************************************************)
(* What upload_many promises of an import (its docstring, and README,      *)
(* "Bulk imports"), however often it is interrupted and run again with its *)
(* key: a file becomes one document at most, has one fate, and a run tells *)
(* its caller that fate and no other.  UploadMany implements this          *)
(* specification.                                                          *)
(***************************************************************************)
CONSTANTS
  Runs,   \* runs of the import
  Files

VARIABLES
  fate,   \* new, or planned, or how each file ended
  told    \* what each run has told its caller of each file

vars == <<fate, told>>

Ends  == {"stored", "dropped", "refused"}
Fates == Ends \cup {"new", "planned"}

TypeOK ==
  /\ fate \in [Files -> Fates]
  /\ told \in [Runs -> [Files -> Ends \cup {"nothing"}]]

Init ==
  /\ fate = [f \in Files |-> "new"]
  /\ told = [r \in Runs |-> [f \in Files |-> "nothing"]]

\* How a file's fate may move on: the server plans or refuses it, and a planned
\* file's bytes arrive or its placeholder is removed.
Comes == [new |-> {"planned", "refused"}, planned |-> {"stored", "dropped"}]

Decide ==
  /\ UNCHANGED told
  /\ fate' \in [Files -> Fates]
  /\ \A f \in Files : fate'[f] # fate[f] =>
       fate[f] \in DOMAIN Comes /\ fate'[f] \in Comes[fate[f]]

\* A run tells the fates of some files it has said nothing of.
Tell(r) ==
  /\ UNCHANGED fate
  /\ told' \in [Runs -> [Files -> Ends \cup {"nothing"}]]
  /\ \A q \in Runs, f \in Files : told'[q][f] # told[q][f] =>
       q = r /\ told[q][f] = "nothing" /\ told'[q][f] = fate[f]

Next == Decide \/ (\E r \in Runs : Tell(r))

Spec == Init /\ [][Next]_vars
===============================================================================
