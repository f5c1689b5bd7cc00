----------------------------- MODULE TokenRenewal -----------------------------
(***************************************************************************)
(* What the auth flow promises to the requests that use it                 *)
(* (src/infersoft/_auth.py), with no lock, clock or token endpoint: the    *)
(* client holds one token, refreshed only while some request asks for it   *)
(* and only by a newer one; a request is granted the token of the moment,  *)
(* and after a 401 one that is newer than the token that was rejected.     *)
(* TokenCache implements this specification.                               *)
(***************************************************************************)
EXTENDS Integers

CONSTANT Threads

VARIABLES
  current,   \* the number of the token the client holds, 0 for none
  phase,     \* what each thread's request is doing
  held,      \* the number of the token the request was last granted
  renewing   \* the request has been answered 401

vars == <<current, phase, held, renewing>>

TypeOK ==
  /\ current \in Nat
  /\ phase \in [Threads -> {"idle", "asking", "sending"}]
  /\ held \in [Threads -> Nat]
  /\ renewing \in [Threads -> BOOLEAN]

Init ==
  /\ current = 0
  /\ phase = [t \in Threads |-> "idle"]
  /\ held = [t \in Threads |-> 0]
  /\ renewing = [t \in Threads |-> FALSE]

Ask(t) ==
  /\ phase[t] = "idle"
  /\ phase' = [phase EXCEPT ![t] = "asking"]
  /\ UNCHANGED <<current, held, renewing>>

\* A newer token replaces the current one, for a request that asks.
Refresh(t) ==
  /\ phase[t] = "asking"
  /\ current' \in Nat /\ current' > current
  /\ UNCHANGED <<phase, held, renewing>>

Grant(t) ==
  /\ phase[t] = "asking"
  /\ current # 0
  /\ renewing[t] => current > held[t]
  /\ held' = [held EXCEPT ![t] = current]
  /\ phase' = [phase EXCEPT ![t] = "sending"]
  /\ UNCHANGED <<current, renewing>>

\* One 401 per request is answered by a renewal.
Reject(t) ==
  /\ phase[t] = "sending" /\ ~renewing[t]
  /\ renewing' = [renewing EXCEPT ![t] = TRUE]
  /\ phase' = [phase EXCEPT ![t] = "asking"]
  /\ UNCHANGED <<current, held>>

\* The request's response, or the error that ends it.
End(t) ==
  /\ phase[t] # "idle"
  /\ phase' = [phase EXCEPT ![t] = "idle"]
  /\ held' = [held EXCEPT ![t] = 0]
  /\ renewing' = [renewing EXCEPT ![t] = FALSE]
  /\ UNCHANGED current

Next ==
  \E t \in Threads : Ask(t) \/ Refresh(t) \/ Grant(t) \/ Reject(t) \/ End(t)

Spec == Init /\ [][Next]_vars
===============================================================================
