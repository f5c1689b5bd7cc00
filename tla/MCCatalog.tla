------------------------------- MODULE MCCatalog -------------------------------
(* Instances of ProjectCatalog and LibraryWrites for TLC.  The two share   *)
(* nothing, so a behaviour is of one or of the other.                      *)
EXTENDS ProjectCatalog, LibraryWrites, TLC

CONSTANTS c1, c2, u, v, d

VARIABLE part

TwoClients == {c1, c2}
TwoCallers == {u, v}

Symmetry == Permutations(TwoClients)

MCInit ==
  /\ Init /\ LibraryInit
  /\ part \in {"projects", "library"}
  /\ part = "projects" => place[1] = "unborn"

MCNext ==
  /\ \/ part = "projects" /\ Next /\ UNCHANGED libraryVars
     \/ part = "library" /\ LibraryNext /\ UNCHANGED vars
  /\ UNCHANGED part

MCSpec == MCInit /\ [][MCNext]_<<vars, libraryVars, part>>
===============================================================================
