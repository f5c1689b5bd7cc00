------------------------------ MODULE ExactlyOnce ------------------------------
(***************************************************************************)
(* What the SDK promises of a write (README, "Idempotency"), whatever the  *)
(* network does: the operation takes effect once or not at all, and a call *)
(* that reports a conclusive result reports the operation's one result.    *)
(* Calls with the same idempotency key are calls of the same operation.    *)
(* HttpSend implements this specification.                                 *)
(***************************************************************************)

CONSTANTS
  Calls,   \* calls of write methods
  Ops,     \* logical operations
  Op(_)    \* the operation a call performs

VARIABLES
  result,  \* what became of each operation
  answer   \* what each call reported

vars == <<result, answer>>

TypeOK ==
  /\ result \in [Ops -> {"none", "done", "refused"}]
  /\ answer \in [Calls -> {"none", "ok", "error", "unknown"}]

Init ==
  /\ result = [o \in Ops |-> "none"]
  /\ answer = [c \in Calls |-> "none"]

\* An operation comes to its result once.
Settle(o) ==
  /\ result[o] = "none"
  /\ \E res \in {"done", "refused"} : result' = [result EXCEPT ![o] = res]
  /\ UNCHANGED answer

Report(c, a) ==
  /\ answer[c] = "none"
  /\ answer' = [answer EXCEPT ![c] = a]
  /\ UNCHANGED result

Succeed(c) == result[Op(c)] = "done" /\ Report(c, "ok")
Fail(c)    == result[Op(c)] = "refused" /\ Report(c, "error")
GiveUp(c)  == Report(c, "unknown")

Next ==
  \/ \E o \in Ops : Settle(o)
  \/ \E c \in Calls : Succeed(c) \/ Fail(c) \/ GiveUp(c)

Spec == Init /\ [][Next]_vars
===============================================================================
