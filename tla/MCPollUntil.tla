------------------------------ MODULE MCPollUntil ------------------------------
(* Instances of PollUntil for TLC. *)
EXTENDS PollUntil

CONSTANTS d1, d2

Documents == {d1, d2}

DocumentKnown == {"processing", "ready"}
DocumentDone  == {"ready"}

\* Statuses of a newer server: one on the way, one at the end.  A ready document
\* may be processed again, archived or deleted.
NewStatuses   == {"queued", "archived"}
DocumentFinal == {"archived", "gone"}
===============================================================================
