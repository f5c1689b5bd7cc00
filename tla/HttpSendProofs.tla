----------------------------- MODULE HttpSendProofs -----------------------------
(***************************************************************************)
(* Theorems about HttpSend, for every set of calls and keys, every mix of  *)
(* methods and options, and every retry budget.                            *)
(***************************************************************************)
EXTENDS HttpSend, TLAPS

(***************************************************************************)
(* The inductive invariant.                                                *)
(***************************************************************************)

\* A connection is open only while the call waits on it, and an outcome is
\* the last thing that happens to a call.
CallInv ==
  \A c \in Calls :
    /\ pc[c] # "done" => outcome[c] = "none"
    /\ reply[c] # "none" => pc[c] = "waiting"

\* No request is both on its way and executing, and none is from the future.
RequestInv ==
  /\ network \cap running = {}
  /\ \A m \in network \cup running : m.try <= tries[m.call]

\* The API executes one request per key at a time and none after the record;
\* what a call was told is on record.
KeyedInv ==
  /\ \A k \in Keys : effects[k] = IF record[k] = "ok" THEN 1 ELSE 0
  /\ \A m \in running : Keyed(m) => record[KeyOf[m.call]] = "executing"
  /\ \A m, n \in running :
       Keyed(m) /\ KeyOf[m.call] = KeyOf[n.call] => m = n
  /\ \A c \in Calls : KeyOf[c] # NoKey =>
       /\ reply[c] \in Recorded => record[KeyOf[c]] = reply[c]
       /\ outcome[c] \in Recorded => record[KeyOf[c]] = outcome[c]

Conclusive == {"error", "unauthorized", "denied", "redirect"}

\* Nothing of the call is under way, nor was before.
Untouched(c) ==
  effects[c] = 0 /\ \A m \in network \cup running : m.call # c

\* A write without a key has one request under way at most, the last one, and
\* none after it had its effect or was turned away.
UnkeyedInv ==
  \A c \in Writes : KeyOf[c] = NoKey =>
    /\ effects[c] <= 1
    /\ \A m \in network \cup running :
         m.call = c => m.try = tries[c] /\ effects[c] = 0
    /\ pc[c] \in {"idle", "ready"} => Untouched(c)
    /\ reply[c] \in Conclusive \/ outcome[c] \in Conclusive => Untouched(c)
    /\ reply[c] = "ok" \/ outcome[c] = "ok" => effects[c] = 1

\* Every attempt is sent once, and once more if it is resent.
SentInv ==
  \A c \in Calls :
    /\ tries[c] <= 2 * attempt[c] + (IF resent[c] THEN 1 ELSE 0)
                     + (IF pc[c] \in {"idle", "ready"} THEN 0 ELSE 1)
    /\ ~MayRetry(c) => attempt[c] = 0

IInv ==
  /\ TypeOK
  /\ CallInv
  /\ RequestInv
  /\ KeyedInv
  /\ UnkeyedInv
  /\ GivesUpLast
  /\ SentInv

USE CallsAssumption, BudgetAssumption

(***************************************************************************)
(* The steps, by what they do.                                             *)
(***************************************************************************)

\* The call ends, and its connection with it.
Finishes(c, how) ==
  /\ \/ pc[c] = "ready" /\ how = "auth"
     \/ pc[c] = "waiting" /\ how = "unreachable"
     \/ pc[c] = "waiting" /\ how = reply[c]
  /\ MayRetry(c) /\ how \in {"transient", "in_progress", "unreachable"}
       => attempt[c] = MaxRetries
  /\ End(c, how)
  /\ reply' = [reply EXCEPT ![c] = "none"]
  /\ UNCHANGED <<tries, server>>

\* _send goes round its loop.
Retries(c) ==
  /\ pc[c] = "waiting" /\ MayRetry(c) /\ attempt[c] < MaxRetries
  /\ NextAttempt(c)
  /\ reply' = [reply EXCEPT ![c] = "none"]
  /\ UNCHANGED <<tries, server>>

\* The auth flow goes round its own.
Resends(c) ==
  /\ pc[c] = "waiting" /\ reply[c] = "unauthorized" /\ ~resent[c]
  /\ pc' = [pc EXCEPT ![c] = "ready"]
  /\ resent' = [resent EXCEPT ![c] = TRUE]
  /\ reply' = [reply EXCEPT ![c] = "none"]
  /\ UNCHANGED <<attempt, tries, outcome, server>>

\* The connection that waits for the request, if one does, has its response.
Told(m, s) ==
  /\ reply' \in [Calls -> Statuses \cup {"none"}]
  /\ \A c \in Calls :
       \/ reply'[c] = reply[c]
       \/ /\ c = m.call /\ reply'[c] = s
          /\ pc[c] = "waiting" /\ tries[c] = m.try /\ reply[c] = "none"

\* The API answers without executing: it turns the request away, or tells what
\* is on record.
Answers(m, s) ==
  /\ m \in network /\ network' = network \ {m}
  /\ \/ s \in {"unauthorized", "transient", "denied", "redirect"}
     \/ s = "in_progress" /\ Keyed(m)
     \/ s \in Recorded /\ Keyed(m) /\ record[Op(m.call)] = s
  /\ Told(m, s)
  /\ UNCHANGED <<client, running, record, effects>>

\* An execution ends: with an effect, with a refusal, or without a trace.
Completes(m, s) ==
  /\ m \in running /\ running' = running \ {m}
  /\ s \in {"ok", "error", "transient"}
  /\ record' = [record EXCEPT ![Op(m.call)] = IF s = "transient" THEN "absent" ELSE s]
  /\ effects' = IF s = "ok" THEN [effects EXCEPT ![Op(m.call)] = @ + 1] ELSE effects
  /\ Told(m, s)
  /\ UNCHANGED <<client, network>>

\* A gateway answers for an execution that goes on.
TimesOut(m) ==
  /\ m \in running
  /\ Told(m, "transient")
  /\ UNCHANGED <<client, server>>

ClientKind(c) ==
  \/ Start(c) \/ Send(c) \/ Retries(c) \/ Resends(c) \/ Crash(c)
  \/ \E how \in Outcomes : Finishes(c, how)

ServerKind(m) ==
  \/ Begin(m) \/ TimesOut(m)
  \/ \E s \in Statuses : Answers(m, s) \/ Completes(m, s)

LEMMA OpType == \A c \in Calls : Op(c) \in Ops
  BY DEF Op, Ops

LEMMA RequestFacts ==
  ASSUME TypeOK, NEW m \in network \cup running
  PROVE  /\ m \in Request /\ m.call \in Calls /\ m.try \in Nat
         /\ m = [call |-> m.call, try |-> m.try]
         /\ Op(m.call) \in Ops
  BY OpType DEF TypeOK, Request

LEMMA RespondTells ==
  ASSUME TypeOK, NEW m \in network \cup running, NEW s \in Statuses, Respond(m, s)
  PROVE  Told(m, s)
  BY RequestFacts DEF TypeOK, Respond, Told

\* The tail of _send retries, or ends the call.
LEMMA RetryOrKinds ==
  ASSUME TypeOK, NEW c \in Calls, NEW how \in Outcomes,
         pc[c] = "waiting", how \in {reply[c], "unreachable"},
         reply' = [reply EXCEPT ![c] = "none"], UNCHANGED <<tries, server>>,
         NEW b \in BOOLEAN, b => MayRetry(c),
         MayRetry(c) /\ how \in {"transient", "in_progress", "unreachable"} => b,
         RetryOr(c, b, how)
  PROVE  Retries(c) \/ Finishes(c, how)
<1>1. CASE b /\ attempt[c] < MaxRetries
  BY <1>1 DEF RetryOr, Retries
<1>2. CASE ~(b /\ attempt[c] < MaxRetries)
  <2>1. attempt[c] \in 0..MaxRetries
    BY DEF TypeOK
  <2> QED
    BY <1>2, <2>1 DEF RetryOr, Finishes
<1> QED
  BY <1>1, <1>2

LEMMA ClientKinds ==
  ASSUME TypeOK, CallInv, NEW c \in Calls, Start(c) \/ ClientStep(c) \/ Crash(c)
  PROVE  ClientKind(c)
<1>1. CASE AuthFails(c)
  <2>1. reply' = [reply EXCEPT ![c] = "none"]
    BY <1>1 DEF AuthFails, CallInv, TypeOK
  <2> QED
    BY <1>1, <2>1 DEF AuthFails, Finishes, ClientKind, Outcomes
<1>2. CASE Receive(c)
  <2>1. CASE reply[c] = "unauthorized" /\ ~resent[c]
    BY <1>2, <2>1 DEF Receive, Resends, ClientKind
  <2>2. CASE ~(reply[c] = "unauthorized" /\ ~resent[c])
    <3>1. /\ RetryOr(c, IsRetryable(c, reply[c]), reply[c])
          /\ reply[c] \in Statuses
      BY <1>2, <2>2 DEF Receive, TypeOK
    <3>2. /\ IsRetryable(c, reply[c]) \in BOOLEAN
          /\ IsRetryable(c, reply[c]) => MayRetry(c)
          /\ MayRetry(c) /\ reply[c] \in {"transient", "in_progress", "unreachable"}
               => IsRetryable(c, reply[c])
          /\ reply[c] \in Outcomes
      BY <3>1 DEF IsRetryable, Statuses, Recorded, Outcomes
    <3>3. Retries(c) \/ Finishes(c, reply[c])
      BY <1>2, <3>1, <3>2, RetryOrKinds DEF Receive
    <3> QED
      BY <3>2, <3>3 DEF ClientKind
  <2> QED
    BY <2>1, <2>2
<1>3. CASE TransportError(c)
  <2>1. MayRetry(c) \in BOOLEAN
    BY DEF MayRetry
  <2>2. Retries(c) \/ Finishes(c, "unreachable")
    BY <1>3, <2>1, RetryOrKinds DEF TransportError, Outcomes
  <2> QED
    BY <2>2 DEF ClientKind, Outcomes
<1> QED
  BY <1>1, <1>2, <1>3 DEF ClientStep, ClientKind

LEMMA ServerKinds ==
  ASSUME TypeOK, NEW m \in network \cup running, ServerStep(m)
  PROVE  ServerKind(m)
<1> USE DEF Statuses, Recorded, ServerKind
<1>1. CASE TurnAway(m)
  BY <1>1, RespondTells DEF TurnAway, Answers
<1>2. CASE AnswerInProgress(m)
  BY <1>2, RespondTells DEF AnswerInProgress, Answers
<1>3. CASE Replay(m)
  BY <1>3, RespondTells DEF Replay, Answers
<1>4. CASE Commit(m)
  BY <1>4, RespondTells DEF Commit, Settle, Completes
<1>5. CASE Refuse(m)
  BY <1>5, RespondTells DEF Refuse, Settle, Completes
<1>6. CASE Abort(m)
  BY <1>6, RespondTells DEF Abort, Settle, Completes
<1>7. CASE GatewayTimeout(m)
  BY <1>7, RespondTells DEF GatewayTimeout, TimesOut
<1> QED
  BY <1>1, <1>2, <1>3, <1>4, <1>5, <1>6, <1>7 DEF ServerStep

LEMMA Kinds ==
  ASSUME TypeOK, CallInv, [Next]_vars
  PROVE  \/ \E c \in Calls : ClientKind(c)
         \/ \E m \in network \cup running : ServerKind(m)
         \/ UNCHANGED vars
  BY ClientKinds, ServerKinds DEF Next, Finished

(***************************************************************************)
(* Every step keeps the invariant.                                         *)
(***************************************************************************)
LEMMA TypeInit == Init => TypeOK
  BY DEF Init, TypeOK, Request, Statuses, Outcomes, Recorded, Ops

LEMMA TypeNext ==
  ASSUME TypeOK, CallInv, [Next]_vars
  PROVE  TypeOK'
<1> USE DEF TypeOK, client, server
<1>1. ASSUME NEW c \in Calls, Start(c) \/ Crash(c) \/ Resends(c) PROVE TypeOK'
  BY <1>1 DEF Start, Crash, Resends
<1>2. ASSUME NEW c \in Calls, Send(c) PROVE TypeOK'
  BY <1>2 DEF Send, Request
<1>3. ASSUME NEW c \in Calls, Retries(c) PROVE TypeOK'
  BY <1>3 DEF Retries, NextAttempt
<1>4. ASSUME NEW c \in Calls, NEW how \in Outcomes, Finishes(c, how) PROVE TypeOK'
  BY <1>4 DEF Finishes, End
<1>5. ASSUME NEW m \in network \cup running, ServerKind(m) PROVE TypeOK'
  <2>1. m \in Request /\ Op(m.call) \in Ops
    BY RequestFacts
  <2>2. CASE Begin(m)
    BY <2>1, <2>2 DEF Begin
  <2>3. ASSUME NEW s, Answers(m, s) \/ TimesOut(m) PROVE TypeOK'
    BY <2>3 DEF Answers, TimesOut, Told
  <2>4. ASSUME NEW s, Completes(m, s) PROVE TypeOK'
    BY <2>1, <2>4 DEF Completes, Told, Recorded
  <2> QED
    BY <1>5, <2>2, <2>3, <2>4 DEF ServerKind
<1>6. CASE UNCHANGED vars
  BY <1>6 DEF vars
<1> QED
  BY <1>1, <1>2, <1>3, <1>4, <1>5, <1>6, Kinds DEF ClientKind

\* Connections and outcomes.
LEMMA CallNext ==
  ASSUME TypeOK, CallInv, [Next]_vars
  PROVE  CallInv'
<1> USE DEF TypeOK, CallInv, client, server
<1>1. ASSUME NEW c \in Calls, Start(c) \/ Send(c) \/ Crash(c) PROVE CallInv'
  BY <1>1 DEF Start, Send, Crash
<1>2. ASSUME NEW c \in Calls, Retries(c) \/ Resends(c) PROVE CallInv'
  BY <1>2 DEF Retries, Resends, NextAttempt
<1>3. ASSUME NEW c \in Calls, NEW how, Finishes(c, how) PROVE CallInv'
  BY <1>3 DEF Finishes, End
<1>4. ASSUME NEW m \in network \cup running, ServerKind(m) PROVE CallInv'
  BY <1>4 DEF ServerKind, Begin, TimesOut, Answers, Completes, Told
<1>5. CASE UNCHANGED vars
  BY <1>5 DEF vars
<1> QED
  BY <1>1, <1>2, <1>3, <1>4, <1>5, Kinds DEF ClientKind

\* Requests on the wire.
LEMMA RequestNext ==
  ASSUME TypeOK, CallInv, RequestInv, [Next]_vars
  PROVE  RequestInv'
<1> USE DEF TypeOK, RequestInv, Request, client, server
<1>1. ASSUME NEW c \in Calls, Send(c) PROVE RequestInv'
  BY <1>1 DEF Send
<1>2. ASSUME NEW c \in Calls, ClientKind(c), ~Send(c) PROVE UNCHANGED <<network, running, tries>>
  BY <1>2 DEF ClientKind, Start, Retries, Resends, Crash, Finishes
<1>3. ASSUME NEW m \in network \cup running, ServerKind(m) PROVE RequestInv'
  BY <1>3 DEF ServerKind, Begin, TimesOut, Answers, Completes
<1> QED
  BY <1>1, <1>2, <1>3, Kinds DEF vars

\* The record of the API and what calls were told.
LEMMA KeyedNext ==
  ASSUME TypeOK, CallInv, RequestInv, KeyedInv, [Next]_vars
  PROVE  KeyedInv'
<1> USE DEF KeyedInv, TypeOK, Keyed, Op, Ops, Recorded, client, server
<1>1. ASSUME NEW c \in Calls, Start(c) \/ Send(c) \/ Crash(c) \/ Retries(c) \/ Resends(c)
      PROVE  KeyedInv'
  BY <1>1 DEF Start, Send, Crash, Retries, Resends, NextAttempt
<1>2. ASSUME NEW c \in Calls, NEW how, Finishes(c, how) PROVE KeyedInv'
  BY <1>2 DEF Finishes, End
<1>3. ASSUME NEW m \in network \cup running, Begin(m) PROVE KeyedInv'
  BY <1>3, RequestFacts DEF Begin, CallInv
<1>4. ASSUME NEW m \in network \cup running, NEW s, Answers(m, s) PROVE KeyedInv'
  BY <1>4, RequestFacts DEF Answers, Told
<1>5. ASSUME NEW m \in network \cup running, TimesOut(m) PROVE KeyedInv'
  BY <1>5 DEF TimesOut, Told
<1>6. ASSUME NEW m \in network \cup running, NEW s, Completes(m, s) PROVE KeyedInv'
  BY <1>6, RequestFacts DEF Completes, Told
<1>7. CASE UNCHANGED vars
  BY <1>7 DEF vars
<1> QED
  BY <1>1, <1>2, <1>3, <1>4, <1>5, <1>6, <1>7, Kinds DEF ClientKind, ServerKind

\* A write without a key is never retried, and is its own operation.
LEMMA OneShot ==
  ASSUME NEW c \in Writes, KeyOf[c] = NoKey
  PROVE  c \in Calls /\ ~MayRetry(c) /\ Op(c) = c /\ c \in Ops
  BY DEF Writes, IsWrite, MayRetry, Op, Ops

\* Only a write without a key is its own operation.
LEMMA OpOf == \A c, d \in Calls : Op(d) = c => d = c /\ KeyOf[c] = NoKey
  BY DEF Op

\* What UnkeyedInv says of one write.
UnkeyedAt(c) ==
  /\ effects[c] <= 1
  /\ \A m \in network \cup running :
       m.call = c => m.try = tries[c] /\ effects[c] = 0
  /\ pc[c] \in {"idle", "ready"} => Untouched(c)
  /\ reply[c] \in Conclusive \/ outcome[c] \in Conclusive => Untouched(c)
  /\ reply[c] = "ok" \/ outcome[c] = "ok" => effects[c] = 1

LEMMA UnkeyedNext ==
  ASSUME TypeOK, CallInv, RequestInv, UnkeyedInv, [Next]_vars
  PROVE  UnkeyedInv'
<1> SUFFICES ASSUME NEW c \in Writes, KeyOf[c] = NoKey PROVE UnkeyedAt(c)'
  BY DEF UnkeyedInv, UnkeyedAt, Writes, IsWrite
<1>a. UnkeyedAt(c) /\ c \in Calls /\ ~MayRetry(c) /\ Op(c) = c /\ c \in Ops
  BY OneShot DEF UnkeyedInv, UnkeyedAt
<1> USE <1>a DEF TypeOK, UnkeyedAt, Untouched, Conclusive, client, server
<1>1. ASSUME NEW d \in Calls, Start(d) \/ Crash(d) \/ Retries(d) \/ Resends(d)
      PROVE  UnkeyedAt(c)'
  BY <1>1 DEF Start, Crash, Retries, Resends, NextAttempt
<1>2. ASSUME NEW d \in Calls, Send(d) PROVE UnkeyedAt(c)'
  BY <1>2 DEF Send, CallInv
<1>3. ASSUME NEW d \in Calls, NEW how, Finishes(d, how) PROVE UnkeyedAt(c)'
  BY <1>3 DEF Finishes, End, CallInv, Statuses, Recorded
<1>4. ASSUME NEW m \in network \cup running, ServerKind(m) PROVE UnkeyedAt(c)'
  <2>1. m \in Request /\ m.call \in Calls /\ Op(m.call) \in Ops /\ (Op(m.call) = c => m.call = c)
    BY RequestFacts, OpOf
  <2>2. UNCHANGED client /\ network' \cup running' \subseteq network \cup running
    BY <1>4 DEF ServerKind, Begin, TimesOut, Answers, Completes
  <2>3. CASE m.call # c
    <3>1. reply'[c] = reply[c] /\ effects'[c] = effects[c]
      BY <1>4, <2>1, <2>3 DEF ServerKind, Begin, TimesOut, Answers, Completes, Told
    <3> QED
      BY <2>2, <3>1
  <2>4. CASE m.call = c
    <3>1. /\ m.try = tries[c] /\ effects[c] = 0 /\ ~Untouched(c)
          /\ \A n \in network \cup running : n.call = c => n = m
      BY <2>1, <2>4 DEF Request
    <3>2. /\ pc[c] \notin {"idle", "ready"}
          /\ reply[c] \notin Conclusive \cup {"ok"} /\ outcome[c] \notin Conclusive \cup {"ok"}
      BY <3>1
    <3>3. CASE Begin(m) \/ TimesOut(m)
      BY <2>2, <3>1, <3>2, <3>3 DEF Begin, TimesOut, Told
    <3>4. ASSUME NEW s, Answers(m, s) PROVE UnkeyedAt(c)'
      <4>1. s # "ok" /\ m \notin network' \cup running'
        BY <2>4, <3>4 DEF Answers, RequestInv, Keyed, Recorded
      <4> QED
        BY <2>2, <3>1, <3>2, <3>4, <4>1 DEF Answers, Told
    <3>5. ASSUME NEW s, Completes(m, s) PROVE UnkeyedAt(c)'
      <4>1. m \notin network' \cup running'
        BY <3>5 DEF Completes, RequestInv
      <4>2. effects'[c] = IF s = "ok" THEN 1 ELSE 0
        BY <2>4, <3>1, <3>5 DEF Completes
      <4> QED
        BY <2>2, <3>1, <3>2, <3>5, <4>1, <4>2 DEF Completes, Told
    <3> QED
      BY <1>4, <3>3, <3>4, <3>5 DEF ServerKind
  <2> QED
    BY <2>3, <2>4
<1>5. CASE UNCHANGED vars
  BY <1>5 DEF vars
<1> QED
  BY <1>1, <1>2, <1>3, <1>4, <1>5, Kinds DEF ClientKind

\* The retry budget.
LEMMA GivesUpNext ==
  ASSUME TypeOK, CallInv, GivesUpLast, [Next]_vars
  PROVE  GivesUpLast'
<1> USE DEF GivesUpLast, TypeOK, client, server
<1>1. ASSUME NEW c \in Calls, Start(c) \/ Send(c) \/ Resends(c) \/ Crash(c)
      PROVE  UNCHANGED <<attempt, outcome>>
  BY <1>1 DEF Start, Send, Resends, Crash
<1>2. ASSUME NEW c \in Calls, Retries(c) PROVE GivesUpLast'
  BY <1>2 DEF Retries, NextAttempt, CallInv
<1>3. ASSUME NEW c \in Calls, NEW how, Finishes(c, how) PROVE GivesUpLast'
  BY <1>3 DEF Finishes, End
<1>4. ASSUME NEW m \in network \cup running, ServerKind(m) PROVE UNCHANGED <<attempt, outcome>>
  BY <1>4 DEF ServerKind, Begin, TimesOut, Answers, Completes
<1> QED
  BY <1>1, <1>2, <1>3, <1>4, Kinds DEF ClientKind, MayRetry, vars

\* The requests a call has sent.
LEMMA SentNext ==
  ASSUME TypeOK, CallInv, SentInv, [Next]_vars
  PROVE  SentInv'
<1> USE DEF SentInv, TypeOK, client, server
<1>1. ASSUME NEW c \in Calls, ClientKind(c) PROVE SentInv'
  <2>1. CASE Start(c) \/ Crash(c)
    BY <2>1 DEF Start, Crash, MayRetry
  <2>2. CASE Send(c)
    BY <2>2 DEF Send, MayRetry
  <2>3. CASE Resends(c)
    BY <2>3 DEF Resends, MayRetry
  <2>4. CASE Retries(c)
    <3>1. tries[c] <= 2 * attempt[c] + 2 /\ MayRetry(c)
      BY <2>4 DEF Retries
    <3>2. \A d \in Calls : MayRetry(d)' <=> MayRetry(d)
      BY DEF MayRetry
    <3>3. /\ pc'[c] = "ready" /\ attempt'[c] = attempt[c] + 1 /\ tries' = tries
          /\ \A d \in Calls \ {c} : UNCHANGED <<pc[d], attempt[d], resent[d]>>
      BY <2>4 DEF Retries, NextAttempt
    <3> QED
      BY <3>1, <3>2, <3>3
  <2>5. ASSUME NEW how, Finishes(c, how) PROVE SentInv'
    BY <2>5 DEF Finishes, End, MayRetry
  <2> QED
    BY <1>1, <2>1, <2>2, <2>3, <2>4, <2>5 DEF ClientKind
<1>2. ASSUME NEW m \in network \cup running, ServerKind(m) PROVE SentInv'
  <2>1. UNCHANGED client
    BY <1>2 DEF ServerKind, Begin, TimesOut, Answers, Completes
  <2> QED
    BY <2>1 DEF MayRetry
<1>3. CASE UNCHANGED vars
  BY <1>3 DEF vars, MayRetry
<1> QED
  BY <1>1, <1>2, <1>3, Kinds

LEMMA IInvInit == Init => IInv
<1> SUFFICES ASSUME Init PROVE IInv
  OBVIOUS
<1>1. TypeOK
  BY TypeInit
<1> QED
  BY <1>1 DEF Init, IInv, CallInv, RequestInv, KeyedInv, UnkeyedInv, Untouched,
              GivesUpLast, SentInv, Writes, Recorded, Conclusive, Ops

(***************************************************************************)
(* The theorems.                                                           *)
(***************************************************************************)
LEMMA Inductive == Spec => []IInv
<1>1. IInv /\ [Next]_vars => IInv'
  BY TypeNext, CallNext, RequestNext, KeyedNext, UnkeyedNext, GivesUpNext, SentNext
     DEF IInv
<1> QED
  BY <1>1, IInvInit, PTL DEF Spec

\* Every variable keeps its type (HttpClient._send and the model of the API).
THEOREM TypeCorrect == Spec => []TypeOK
<1>1. IInv => TypeOK
  BY DEF IInv
<1> QED
  BY <1>1, Inductive, PTL

\* Writes never double-execute: keyed ones by the API's record, whatever is
\* retried, resent, late or run again; those without a key because _send
\* never retries them and a 401 means that nothing was executed.
THEOREM AtMostOnceHolds == Spec => []AtMostOnce
<1>1. ASSUME IInv, NEW c \in Writes PROVE effects[Op(c)] <= 1
  <2>1. CASE KeyOf[c] = NoKey
    BY <1>1, <2>1 DEF IInv, UnkeyedInv, Op
  <2>2. CASE KeyOf[c] # NoKey
    BY <1>1, <2>2 DEF IInv, KeyedInv, Writes, Op
  <2> QED
    BY <2>1, <2>2
<1>2. IInv => AtMostOnce
  BY <1>1 DEF AtMostOnce
<1> QED
  BY <1>2, Inductive, PTL

\* What a call reports as the write's result is the write's result (request).
THEOREM OutcomeIsTrueHolds == Spec => []OutcomeIsTrue
<1>1. ASSUME IInv, NEW c \in Writes
      PROVE  /\ outcome[c] = "ok" => effects[Op(c)] = 1
             /\ outcome[c] = "error" => effects[Op(c)] = 0
  <2>1. CASE KeyOf[c] = NoKey
    BY <1>1, <2>1 DEF IInv, UnkeyedInv, Untouched, Conclusive, Op
  <2>2. CASE KeyOf[c] # NoKey
    BY <1>1, <2>2 DEF IInv, KeyedInv, Recorded, Writes, Op
  <2> QED
    BY <2>1, <2>2
<1>2. IInv => OutcomeIsTrue
  BY <1>1 DEF OutcomeIsTrue
<1> QED
  BY <1>2, Inductive, PTL

\* A write without a key that ends with a status of the API, and not a passing
\* one, is settled by it (_send, sync_auth_flow).
THEOREM OneShotIsConclusiveHolds == Spec => []OneShotIsConclusive
<1>1. IInv => OneShotIsConclusive
  BY DEF IInv, UnkeyedInv, Untouched, Conclusive, OneShotIsConclusive, Writes,
         Op
<1> QED
  BY <1>1, Inductive, PTL

\* Passing failures are reported only when the budget is spent (_send).
THEOREM GivesUpLastHolds == Spec => []GivesUpLast
<1>1. IInv => GivesUpLast
  BY DEF IInv
<1> QED
  BY <1>1, Inductive, PTL

\* Two calls with one key, of one process or of a run and its re-run, never
\* report different results of it (request, with a persisted key).
SameKeySameAnswer ==
  \A c, d \in Calls :
    KeyOf[c] = KeyOf[d] /\ KeyOf[c] # NoKey /\ {outcome[c], outcome[d]} \subseteq Recorded
      => outcome[c] = outcome[d]

\* For any number of calls, retries and late duplicates of a key.
THEOREM SameKeySameAnswerHolds == Spec => []SameKeySameAnswer
<1>1. IInv => SameKeySameAnswer
  BY DEF IInv, KeyedInv, SameKeySameAnswer
<1> QED
  BY <1>1, Inductive, PTL

\* The loop of _send and that of the auth flow inside it multiply: a call sends
\* two requests per attempt at most, and two at all if it may not be retried.
SendsAreBounded ==
  \A c \in Calls :
    /\ tries[c] <= 2 * (MaxRetries + 1)
    /\ ~MayRetry(c) => tries[c] <= 2

\* For any MaxRetries, and answers in any order (_send, sync_auth_flow).
THEOREM SendsAreBoundedHolds == Spec => []SendsAreBounded
<1>1. IInv => SendsAreBounded
  <2> SUFFICES ASSUME IInv, NEW c \in Calls
               PROVE  tries[c] <= 2 * (MaxRetries + 1) /\ (~MayRetry(c) => tries[c] <= 2)
    BY DEF SendsAreBounded
  <2>1. attempt[c] \in 0..MaxRetries /\ tries[c] \in Nat
    BY DEF IInv, TypeOK
  <2>2. tries[c] <= 2 * attempt[c] + 2 /\ (~MayRetry(c) => attempt[c] = 0)
    BY <2>1 DEF IInv, SentInv
  <2> QED
    BY <2>1, <2>2
<1> QED
  BY <1>1, Inductive, PTL

\* How many more moves a call can make: of an attempt it may be about to send,
\* or waiting, twice, and an idle call has one move more.
MovesLeft(c) ==
  IF pc[c] \in {"done", "crashed"} THEN 0
  ELSE 4 * (MaxRetries - attempt[c]) + (IF resent[c] THEN 0 ELSE 2)
       + (CASE pc[c] = "idle" -> 3 [] pc[c] = "ready" -> 2 [] OTHER -> 1)

\* Every move of a call uses up one of those, and nothing gives one back: no
\* call retries and resends for ever, whatever the API and the network answer.
\* (That a call does move is EveryCallEnds' fairness.)
EveryMoveCounts ==
  [][\A c \in Calls :
       \/ UNCHANGED <<pc[c], attempt[c], resent[c], tries[c], outcome[c]>>
       \/ MovesLeft(c)' \in 0..(MovesLeft(c) - 1)]_vars

LEMMA MoveCounts ==
  ASSUME TypeOK, TypeOK', NEW c \in Calls, ClientKind(c)
  PROVE  MovesLeft(c)' \in 0..(MovesLeft(c) - 1)
<1> USE DEF TypeOK
<1>1. attempt[c] \in 0..MaxRetries /\ attempt'[c] \in 0..MaxRetries
  OBVIOUS
<1>2. CASE Start(c)
  BY <1>1, <1>2 DEF Start, MovesLeft
<1>3. CASE Send(c)
  BY <1>1, <1>3 DEF Send, MovesLeft
<1>4. CASE Resends(c)
  BY <1>1, <1>4 DEF Resends, MovesLeft
<1>5. CASE Retries(c)
  <2>1. /\ pc[c] = "waiting" /\ pc'[c] = "ready"
        /\ attempt'[c] = attempt[c] + 1 /\ resent'[c] = FALSE
    BY <1>5 DEF Retries, NextAttempt
  <2> QED
    BY <1>1, <2>1 DEF MovesLeft
<1>6. CASE Crash(c) \/ \E how \in Outcomes : Finishes(c, how)
  <2>1. pc[c] \in {"ready", "waiting"} /\ pc'[c] \in {"done", "crashed"}
    BY <1>6 DEF Crash, Finishes, End
  <2> QED
    BY <1>1, <2>1 DEF MovesLeft
<1> QED
  BY <1>2, <1>3, <1>4, <1>5, <1>6 DEF ClientKind

\* The bounded part of EveryCallEnds, for any number of calls and any MaxRetries.
THEOREM EveryMoveCountsHolds == Spec => EveryMoveCounts
<1> DEFINE Counts ==
           \A c \in Calls :
             \/ UNCHANGED <<pc[c], attempt[c], resent[c], tries[c], outcome[c]>>
             \/ MovesLeft(c)' \in 0..(MovesLeft(c) - 1)
<1>1. IInv /\ IInv' /\ [Next]_vars => Counts
  <2> SUFFICES ASSUME IInv, IInv', [Next]_vars PROVE Counts
    OBVIOUS
  <2>1. ASSUME NEW c \in Calls, ClientKind(c) PROVE Counts
    <3>1. \A d \in Calls : d # c =>
             UNCHANGED <<pc[d], attempt[d], resent[d], tries[d], outcome[d]>>
      BY <2>1
      DEF IInv, TypeOK, ClientKind, Start, Send, Retries, Resends, Crash, Finishes, NextAttempt, End
    <3> QED
      BY <2>1, <3>1, MoveCounts DEF IInv
  <2>2. ASSUME NEW m \in network \cup running, ServerKind(m) PROVE Counts
    BY <2>2 DEF ServerKind, Begin, TimesOut, Answers, Completes, client
  <2>3. CASE UNCHANGED vars
    BY <2>3 DEF vars
  <2> QED
    BY <2>1, <2>2, <2>3, Kinds DEF IInv
<1> QED
  BY <1>1, Inductive, PTL DEF Spec, EveryMoveCounts

(***************************************************************************)
(* HttpSend implements ExactlyOnce.                                        *)
(***************************************************************************)

\* A write without a key that was refused is over, and it alone is told so.
RefusedAt(c) ==
  /\ record[c] = "error" =>
       Untouched(c) /\ pc[c] \notin {"idle", "ready"} /\ reply[c] # "unauthorized"
  /\ reply[c] = "error" \/ outcome[c] = "error" => record[c] = "error"

RefusedInv == \A c \in Writes : KeyOf[c] = NoKey => RefusedAt(c)

\* What the API does touches one operation and the connection of one call.
LEMMA ServerEffect ==
  ASSUME TypeOK, NEW m \in network \cup running, ServerKind(m)
  PROVE  /\ UNCHANGED client
         /\ network' \cup running' \subseteq network \cup running
         /\ \A d \in Calls : d # m.call => reply'[d] = reply[d]
         /\ \A o \in Ops : o # Op(m.call) => effects'[o] = effects[o] /\ record'[o] = record[o]
         /\ \A o \in Ops : effects'[o] >= effects[o]
<1> USE RequestFacts DEF TypeOK, client, server
<1>1. CASE Begin(m) \/ TimesOut(m)
  BY <1>1 DEF Begin, TimesOut, Told
<1>2. ASSUME NEW s, Answers(m, s) \/ Completes(m, s)
      PROVE  /\ UNCHANGED client
             /\ network' \cup running' \subseteq network \cup running
             /\ \A d \in Calls : d # m.call => reply'[d] = reply[d]
             /\ \A o \in Ops : o # Op(m.call) => effects'[o] = effects[o] /\ record'[o] = record[o]
             /\ \A o \in Ops : effects'[o] >= effects[o]
  BY <1>2 DEF Answers, Completes, Told
<1> QED
  BY <1>1, <1>2 DEF ServerKind

LEMMA RefusedNext ==
  ASSUME IInv, RefusedInv, [Next]_vars
  PROVE  RefusedInv'
<1> SUFFICES ASSUME NEW c \in Writes, KeyOf[c] = NoKey PROVE RefusedAt(c)'
  BY DEF RefusedInv, Writes, IsWrite
<1>a. /\ RefusedAt(c) /\ c \in Calls /\ ~MayRetry(c) /\ Op(c) = c /\ c \in Ops
      /\ TypeOK /\ CallInv /\ RequestInv /\ UnkeyedInv
  BY OneShot DEF RefusedInv, IInv
<1> USE <1>a DEF TypeOK, RefusedAt, Untouched
<1>1. ASSUME NEW d \in Calls, Start(d) \/ Crash(d) \/ Retries(d) \/ Resends(d)
      PROVE  RefusedAt(c)'
  BY <1>1 DEF Start, Crash, Retries, Resends, NextAttempt, server
<1>2. ASSUME NEW d \in Calls, Send(d) PROVE RefusedAt(c)'
  BY <1>2 DEF Send
<1>3. ASSUME NEW d \in Calls, NEW how, Finishes(d, how) PROVE RefusedAt(c)'
  BY <1>3 DEF Finishes, End, CallInv, server
<1>4. ASSUME NEW m \in network \cup running, ServerKind(m) PROVE RefusedAt(c)'
  <2>1. /\ m \in Request /\ m.call \in Calls
        /\ UNCHANGED client /\ network' \cup running' \subseteq network \cup running
    BY <1>4, RequestFacts, ServerEffect
  <2>2. CASE m.call # c
    <3>1. reply'[c] = reply[c] /\ effects'[c] = effects[c] /\ record'[c] = record[c]
      BY <1>4, <2>1, <2>2, ServerEffect, OpOf
    <3> QED
      BY <2>1, <3>1 DEF client
  <2>3. CASE m.call = c
    <3>1. /\ m.try = tries[c] /\ effects[c] = 0 /\ ~Untouched(c)
          /\ \A n \in network \cup running : n.call = c => n = m
      BY <2>1, <2>3 DEF UnkeyedInv, Request
    <3>2. /\ pc[c] \notin {"idle", "ready"} /\ record[c] # "error"
          /\ reply[c] \notin {"error", "unauthorized"} /\ outcome[c] # "error"
      BY <3>1 DEF UnkeyedInv, Conclusive
    <3>3. CASE Completes(m, "error")
      <4>1. /\ m \notin network' \cup running' /\ effects' = effects /\ record'[c] = "error"
            /\ reply'[c] \in {reply[c], "error"}
        BY <2>3, <3>3 DEF Completes, Told, RequestInv
      <4> QED
        BY <2>1, <3>1, <3>2, <4>1 DEF client
    <3>4. CASE Begin(m) \/ TimesOut(m)
      BY <2>1, <2>3, <3>2, <3>4 DEF Begin, TimesOut, Told, client, server
    <3>5. ASSUME NEW s, Answers(m, s) PROVE RefusedAt(c)'
      BY <2>1, <2>3, <3>2, <3>5 DEF Answers, Told, Keyed, Recorded, client
    <3>6. ASSUME NEW s, s # "error", Completes(m, s) PROVE RefusedAt(c)'
      BY <2>1, <2>3, <3>2, <3>6 DEF Completes, Told, client
    <3> QED
      BY <1>4, <3>3, <3>4, <3>5, <3>6 DEF ServerKind
  <2> QED
    BY <2>2, <2>3
<1>5. CASE UNCHANGED vars
  BY <1>5 DEF vars
<1> QED
  BY <1>1, <1>2, <1>3, <1>4, <1>5, Kinds DEF ClientKind

LEMMA RefusedInductive == Spec => [](IInv /\ RefusedInv)
<1>1. Init => RefusedInv
  BY DEF Init, RefusedInv, RefusedAt, Writes, Ops
<1> QED
  BY <1>1, RefusedNext, Inductive, PTL DEF Spec

WriteOps == {Op(c) : c \in Writes}

LEMMA ResultFacts ==
  ASSUME TypeOK, NEW o \in Ops
  PROVE  /\ effects[o] \in Nat
         /\ ResultOf(o) = "done" <=> effects[o] > 0
         /\ ResultOf(o) = "refused" <=> effects[o] = 0 /\ record[o] = "error"
         /\ ResultOf(o) \in {"none", "done", "refused"}
<1>1. effects[o] \in Nat
  BY DEF TypeOK
<1>2. CASE effects[o] > 0
  BY <1>1, <1>2 DEF ResultOf
<1>3. CASE effects[o] = 0 /\ record[o] = "error"
  BY <1>1, <1>3 DEF ResultOf
<1>4. CASE effects[o] = 0 /\ record[o] # "error"
  BY <1>1, <1>4 DEF ResultOf
<1> QED
  BY <1>1, <1>2, <1>3, <1>4

\* A conclusive report is the operation's result.
ReportIsResult ==
  IInv /\ RefusedInv =>
    \A c \in Writes :
      /\ outcome[c] = "ok" => ResultOf(Op(c)) = "done"
      /\ outcome[c] = "error" => ResultOf(Op(c)) = "refused"

LEMMA ReportsAgree == ReportIsResult /\ ReportIsResult'
<1>1. ReportIsResult
  <2> SUFFICES ASSUME IInv, RefusedInv, NEW c \in Writes
               PROVE  /\ outcome[c] = "ok" => ResultOf(Op(c)) = "done"
                      /\ outcome[c] = "error" => ResultOf(Op(c)) = "refused"
    BY DEF ReportIsResult
  <2>1. c \in Calls /\ Op(c) \in Ops /\ TypeOK
    BY OpType DEF Writes, IInv
  <2>2. CASE KeyOf[c] = NoKey
    <3>1. Op(c) = c
      BY <2>2 DEF Op
    <3> QED
      BY <2>1, <2>2, <3>1, ResultFacts
      DEF IInv, UnkeyedInv, RefusedInv, RefusedAt, Untouched
  <2>3. CASE KeyOf[c] # NoKey
    <3>1. Op(c) = KeyOf[c] /\ KeyOf[c] \in Keys
      BY <2>1, <2>3 DEF Op
    <3> QED
      BY <2>1, <2>3, <3>1, ResultFacts DEF IInv, KeyedInv, Recorded
  <2> QED
    BY <2>2, <2>3
<1> QED
  BY <1>1, PTL

\* A result is final, and a step of the API settles one operation at most.
LEMMA ResultStep ==
  ASSUME IInv, TypeOK', RefusedInv, NEW m \in network \cup running, ServerKind(m),
         NEW o \in WriteOps, ResultOf(o)' # ResultOf(o)
  PROVE  ResultOf(o) = "none" /\ o = Op(m.call)
<1>1. o \in Ops /\ TypeOK /\ m \in Request /\ m.call \in Calls
  BY OpType, RequestFacts DEF WriteOps, Writes, IInv
<1>2. o = Op(m.call)
  BY <1>1, ServerEffect DEF ResultOf
<1>3. ResultOf(o) # "done"
  <2>1. /\ effects[o] \in Nat /\ effects'[o] \in Nat
        /\ effects'[o] > 0 => ResultOf(o)' = "done"
        /\ ResultOf(o) = "done" <=> effects[o] > 0
    BY <1>1, ResultFacts DEF TypeOK, ResultOf
  <2>2. effects'[o] >= effects[o]
    BY <1>1, ServerEffect
  <2> QED
    BY <2>1, <2>2
<1>4. ResultOf(o) # "refused"
  <2> SUFFICES ASSUME effects[o] = 0, record[o] = "error" PROVE FALSE
    BY <1>1, ResultFacts
  <2>1. CASE Keyed(m)
    <3>1. o = KeyOf[m.call] /\ o \in Keys
      BY <1>1, <1>2, <2>1 DEF Op, Keyed
    <3>2. m \notin running
      BY <2>1, <3>1 DEF IInv, KeyedInv
    <3>3. UNCHANGED <<record, effects>>
      BY <1>2, <2>1, <3>2 DEF ServerKind, Begin, TimesOut, Answers, Completes
    <3> QED
      BY <3>3 DEF ResultOf
  <2>2. CASE ~Keyed(m)
    <3>1. o = m.call
      BY <1>2, <2>2 DEF Op, Keyed
    <3>2. PICK c \in Writes : o = Op(c)
      BY DEF WriteOps
    <3>3. c = o /\ KeyOf[c] = NoKey
      BY <1>1, <3>1, <3>2, OpOf DEF Writes
    <3> QED
      BY <3>1, <3>2, <3>3 DEF RefusedInv, RefusedAt, Untouched
  <2> QED
    BY <2>1, <2>2
<1> QED
  BY <1>1, <1>2, <1>3, <1>4, ResultFacts

\* A call ends once.
LEMMA EndsOnce ==
  ASSUME IInv, NEW c \in Calls, ClientKind(c)
  PROVE  /\ UNCHANGED <<record, effects>>
         /\ \A d \in Calls : outcome'[d] # outcome[d] => d = c /\ outcome[d] = "none"
<1>1. TypeOK /\ CallInv
  BY DEF IInv
<1>2. CASE \E how : Finishes(c, how)
  BY <1>1, <1>2 DEF Finishes, End, TypeOK, CallInv, server
<1>3. CASE ~\E how : Finishes(c, how)
  BY <1>3 DEF ClientKind, Start, Send, Retries, Resends, Crash, NextAttempt, server
<1> QED
  BY <1>2, <1>3

ResultMap == [o \in WriteOps |-> ResultOf(o)]
AnswerMap == [c \in Writes |-> AnswerOf(c)]

\* Retries, resends, late duplicates, crashes and re-runs are invisible: each
\* write is settled once, and its calls report that result or none.
THEOREM ImplementsOnceHolds == Spec => ImplementsOnce
<1>1. Init => Once!Init
  <2> SUFFICES ASSUME Init PROVE Once!Init
    OBVIOUS
  <2>1. \A c \in Writes : AnswerOf(c) = "none"
    BY DEF Init, Writes, AnswerOf
  <2>2. \A o \in WriteOps : ResultOf(o) = "none"
    <3>1. \A o \in WriteOps : o \in Ops /\ effects[o] = 0 /\ record[o] = "absent"
      BY OpType DEF Init, WriteOps, Writes
    <3> QED
      BY <3>1, TypeInit, ResultFacts
  <2> QED
    BY <2>1, <2>2 DEF Once!Init, WriteOps
<1>2. /\ IInv /\ RefusedInv
      /\ (IInv /\ RefusedInv)'
      /\ [Next]_vars
      => [Once!Next]_(Once!vars)
  <2> SUFFICES ASSUME IInv, RefusedInv, IInv', RefusedInv', [Next]_vars
               PROVE  [Once!Next]_(Once!vars)
    OBVIOUS
  <2>1. ASSUME NEW c \in Calls, ClientKind(c)
        PROVE  [Once!Next]_(Once!vars)
    <3>1. /\ UNCHANGED <<record, effects>>
          /\ \A d \in Calls : outcome'[d] # outcome[d] => d = c /\ outcome[d] = "none"
      BY <2>1, EndsOnce
    <3>2. \A o : ResultOf(o)' = ResultOf(o)
      BY <3>1 DEF ResultOf
    <3>3. ResultMap' = ResultMap
      BY <3>2 DEF ResultMap, WriteOps
    <3>4. CASE \A d \in Writes : outcome'[d] = outcome[d]
      <4>1. AnswerMap' = AnswerMap
        BY <3>4 DEF AnswerMap, AnswerOf
      <4> QED
        BY <3>3, <4>1 DEF Once!vars, ResultMap, AnswerMap, WriteOps
    <3>5. ASSUME NEW d \in Writes, outcome'[d] # outcome[d] PROVE Once!Next
      <4>1. d = c /\ outcome[c] = "none" /\ c \in Writes
        BY <3>1, <3>5 DEF Writes
      <4>2. AnswerMap' = [AnswerMap EXCEPT ![c] = AnswerOf(c)'] /\ AnswerMap[c] = "none"
        BY <3>1, <4>1 DEF AnswerMap, AnswerOf, Writes
      <4>3. ResultOf(Op(c)) = ResultMap[Op(c)]
        BY <4>1 DEF ResultMap, WriteOps
      <4>4. AnswerOf(c)' = "ok" => ResultMap[Op(c)] = "done"
        BY <3>2, <4>1, <4>3, ReportsAgree DEF ReportIsResult, AnswerOf, Recorded
      <4>5. AnswerOf(c)' = "error" => ResultMap[Op(c)] = "refused"
        BY <3>2, <4>1, <4>3, ReportsAgree DEF ReportIsResult, AnswerOf, Recorded
      <4>6. AnswerOf(c)' \in {"ok", "error", "unknown"}
        BY <3>5, <4>1 DEF AnswerOf, Recorded
      <4> QED
        BY <3>3, <4>1, <4>2, <4>4, <4>5, <4>6
        DEF Once!Next, Once!Succeed, Once!Fail, Once!GiveUp, Once!Report, ResultMap, AnswerMap,
            WriteOps
    <3> QED
      BY <3>4, <3>5
  <2>2. ASSUME NEW m \in network \cup running, ServerKind(m)
        PROVE  [Once!Next]_(Once!vars)
    <3>1. outcome' = outcome /\ TypeOK /\ TypeOK'
      BY <2>2, ServerEffect DEF IInv, client
    <3>2. AnswerMap' = AnswerMap
      BY <3>1 DEF AnswerMap, AnswerOf
    <3>3. \A o \in WriteOps :
            ResultOf(o)' # ResultOf(o) => ResultOf(o) = "none" /\ o = Op(m.call)
      BY <2>2, <3>1, ResultStep
    <3>4. CASE \A o \in WriteOps : ResultOf(o)' = ResultOf(o)
      <4>1. ResultMap' = ResultMap
        BY <3>4 DEF ResultMap, WriteOps
      <4> QED
        BY <3>2, <4>1 DEF Once!vars, ResultMap, AnswerMap, WriteOps
    <3>5. ASSUME NEW o \in WriteOps, ResultOf(o)' # ResultOf(o) PROVE Once!Next
      <4>1. ResultOf(o) = "none"
        BY <3>3, <3>5
      <4>2. ResultOf(o)' \in {"done", "refused"}
        BY <3>5, <4>1 DEF ResultOf
      <4>3. ResultMap' = [ResultMap EXCEPT ![o] = ResultOf(o)']
        BY <3>3, <3>5 DEF ResultMap, WriteOps
      <4>4. Once!Settle(o)
        BY <3>2, <4>1, <4>2, <4>3 DEF Once!Settle, ResultMap, AnswerMap, WriteOps
      <4> QED
        BY <4>4 DEF Once!Next, WriteOps
    <3> QED
      BY <3>4, <3>5
  <2>3. CASE UNCHANGED vars
    BY <2>3 DEF vars, Once!vars, ResultOf, AnswerOf
  <2> QED
    BY <2>1, <2>2, <2>3, Kinds DEF IInv
<1> QED
  BY <1>1, <1>2, RefusedInductive, PTL DEF Spec, ImplementsOnce, Once!Spec
===============================================================================
