------------------------------ MODULE MCHttpSend ------------------------------
(* Instances of HttpSend for TLC. *)
EXTENDS HttpSend, TLC

CONSTANTS c1, c2, k1

\* A keyed write, and its re-run with the persisted key.
Rerun       == {c1, c2}
SharedKey   == [c \in Rerun |-> k1]
PostMethod  == [c \in Rerun |-> FALSE]
UnsetOption == [c \in Rerun |-> "unset"]

\* A write without a key (retries off) and a read-only POST (idempotent=True).
NoKeys      == [c \in Rerun |-> NoKey]
OneSearch   == [c \in Rerun |-> IF c = c2 THEN "yes" ELSE "unset"]

Symmetry == Permutations(Rerun)
===============================================================================
