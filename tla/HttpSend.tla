------------------------------- MODULE HttpSend -------------------------------
(***************************************************************************)
(* HttpClient.request and _send (src/infersoft/_http.py): a call sends its *)
(* request, retries it on transport errors and transient responses within  *)
(* the retry budget when that is safe, and lets the auth flow resend it    *)
(* once per attempt after a 401.                                           *)
(*                                                                         *)
(* The API is external: it is what the client's comments and README rely   *)
(* on.  It executes a keyed request once, records the response and replays *)
(* it, and answers "request in progress" meanwhile.  The network loses,    *)
(* delays and reorders: a request the client has given up may still arrive *)
(* and execute, and every response may be lost.                            *)
(***************************************************************************)
EXTENDS Integers

CONSTANTS
  Calls,        \* calls of request(), of one or several processes
  Keys,         \* idempotency keys
  NoKey,        \* idempotency_key=None
  KeyOf,        \* the idempotency key of each call
  SafeMethod,   \* calls whose method is in _IDEMPOTENT_METHODS
  Idempotent,   \* the argument `idempotent` of each call
  MaxRetries    \* _max_retries

ASSUME CallsAssumption ==
  /\ NoKey \notin Keys /\ Keys \cap Calls = {}
  /\ KeyOf \in [Calls -> Keys \cup {NoKey}]
  /\ SafeMethod \in [Calls -> BOOLEAN]
  /\ Idempotent \in [Calls -> {"unset", "yes", "no"}]

ASSUME BudgetAssumption == MaxRetries \in Nat

VARIABLES
  pc,        \* idle, ready (to send an attempt), waiting, done, crashed
  attempt,   \* the local `attempt` of _send
  resent,    \* the auth flow has resent this attempt
  tries,     \* requests the call has put on the wire
  reply,     \* the response on the connection the call waits on
  outcome,   \* how the call ended
  network,   \* requests that may still arrive
  running,   \* requests the API is executing
  record,    \* the API's idempotency record of each operation
  effects    \* how often each operation took effect

client == <<pc, attempt, resent, tries, outcome>>
server == <<network, running, record, effects>>
vars   == <<pc, attempt, resent, tries, reply, outcome, network, running,
            record, effects>>

\* Calls with one key perform one operation; a call without is its own.
Ops   == Keys \cup Calls
Op(c) == IF KeyOf[c] # NoKey THEN KeyOf[c] ELSE c
\* Mutant of Keyed: retries do not carry the key.
KeyedFirstTry(m) == KeyOf[m.call] # NoKey /\ m.try = 1
\* The request carries the Idempotency-Key header.
Keyed(m) == KeyOf[m.call] # NoKey

Request == [call : Calls, try : Nat]

\* Responses that record an execution, and those given without or before one.
\* "transient": _RETRY_STATUSES; "in_progress": the 409 of that problem type;
\* "denied": any other error status that does not come from the record; "redirect":
\* a 3xx, which is no error to request(): a caller that parses a body raises on it.
Recorded == {"ok", "error"}
Statuses == Recorded \cup {"transient", "in_progress", "unauthorized", "denied",
                         "redirect"}
\* "unreachable" and "auth" are the SDK's own errors.
Outcomes == Statuses \cup {"unreachable", "auth"}

TypeOK ==
  /\ pc \in [Calls -> {"idle", "ready", "waiting", "done", "crashed"}]
  /\ attempt \in [Calls -> 0..MaxRetries]
  /\ resent \in [Calls -> BOOLEAN]
  /\ tries \in [Calls -> Nat]
  /\ reply \in [Calls -> Statuses \cup {"none"}]
  /\ outcome \in [Calls -> Outcomes \cup {"none"}]
  /\ network \subseteq Request
  /\ running \subseteq Request
  /\ record \in [Ops -> Recorded \cup {"absent", "executing"}]
  /\ effects \in [Ops -> Nat]

Init ==
  /\ pc = [c \in Calls |-> "idle"]
  /\ attempt = [c \in Calls |-> 0]
  /\ resent = [c \in Calls |-> FALSE]
  /\ tries = [c \in Calls |-> 0]
  /\ reply = [c \in Calls |-> "none"]
  /\ outcome = [c \in Calls |-> "none"]
  /\ network = {} /\ running = {}
  /\ record = [o \in Ops |-> "absent"]
  /\ effects = [o \in Ops |-> 0]

(***************************************************************************)
(* The client.                                                             *)
(***************************************************************************)

\* Mutant of MayRetry: every request is retried.
MayRetryAll(c) == TRUE

\* request(): `idempotent` decides, else the method and the key do.
MayRetry(c) ==
  IF Idempotent[c] # "unset" THEN Idempotent[c] = "yes"
  ELSE SafeMethod[c] \/ KeyOf[c] # NoKey

\* _is_retryable_response.
IsRetryable(c, status) == MayRetry(c) /\ status \in {"transient", "in_progress"}

\* Mutant of End: a request in progress is reported like a conflict.
EndAsConflict(c, how) ==
  /\ pc' = [pc EXCEPT ![c] = "done"]
  /\ outcome' = [outcome EXCEPT ![c] = IF how = "in_progress" THEN "error" ELSE how]
  /\ UNCHANGED <<attempt, resent>>

End(c, how) ==
  /\ pc' = [pc EXCEPT ![c] = "done"]
  /\ outcome' = [outcome EXCEPT ![c] = how]
  /\ UNCHANGED <<attempt, resent>>

\* After the backoff, the loop of _send makes its next attempt.
NextAttempt(c) ==
  /\ pc' = [pc EXCEPT ![c] = "ready"]
  /\ attempt' = [attempt EXCEPT ![c] = @ + 1]
  /\ resent' = [resent EXCEPT ![c] = FALSE]
  /\ UNCHANGED outcome

\* Mutant of RetryOr: the budget is one too small.
RetryOrOneLess(c, retryable, how) ==
  \/ retryable /\ attempt[c] + 1 < MaxRetries /\ NextAttempt(c)
  \/ ~(retryable /\ attempt[c] + 1 < MaxRetries) /\ End(c, how)

\* The tail of both branches of _send: retry within the budget, or end.
RetryOr(c, retryable, how) ==
  \/ retryable /\ attempt[c] < MaxRetries /\ NextAttempt(c)
  \/ ~(retryable /\ attempt[c] < MaxRetries) /\ End(c, how)

Start(c) ==
  /\ pc[c] = "idle"
  /\ pc' = [pc EXCEPT ![c] = "ready"]
  /\ UNCHANGED <<attempt, resent, tries, outcome, reply, server>>

Send(c) ==
  /\ pc[c] = "ready"
  /\ pc' = [pc EXCEPT ![c] = "waiting"]
  /\ tries' = [tries EXCEPT ![c] = @ + 1]
  /\ network' = network \cup {[call |-> c, try |-> tries[c] + 1]}
  /\ UNCHANGED <<attempt, resent, reply, outcome, running, record, effects>>

\* The auth flow raises AuthenticationError instead of sending; it is no
\* TransportError, so _send does not retry it.
AuthFails(c) ==
  /\ pc[c] = "ready"
  /\ End(c, "auth")
  /\ UNCHANGED <<tries, reply, server>>

\* A response to the request the call waits on.
Receive(c) ==
  /\ pc[c] = "waiting" /\ reply[c] # "none"
  /\ \/ /\ reply[c] = "unauthorized" /\ ~resent[c]
        /\ pc' = [pc EXCEPT ![c] = "ready"]
        /\ resent' = [resent EXCEPT ![c] = TRUE]
        /\ UNCHANGED <<attempt, outcome>>
     \/ /\ reply[c] # "unauthorized" \/ resent[c]
        /\ RetryOr(c, IsRetryable(c, reply[c]), reply[c])
  /\ reply' = [reply EXCEPT ![c] = "none"]
  /\ UNCHANGED <<tries, server>>

\* Mutant of TransportError: no timeout, so a silent API is waited for.
TransportErrorNoTimeout(c) ==
  /\ pc[c] = "waiting" /\ reply[c] # "none"
  /\ RetryOr(c, MayRetry(c), "unreachable")
  /\ reply' = [reply EXCEPT ![c] = "none"]
  /\ UNCHANGED <<tries, server>>

\* httpx.TransportError: no response (timeout, reset), whatever became of the
\* request.  A response that was under way is lost with the connection.
TransportError(c) ==
  /\ pc[c] = "waiting"
  /\ RetryOr(c, MayRetry(c), "unreachable")
  /\ reply' = [reply EXCEPT ![c] = "none"]
  /\ UNCHANGED <<tries, server>>

\* The process dies.  Running it again with a persisted key is another call.
Crash(c) ==
  /\ pc[c] \in {"ready", "waiting"}
  /\ pc' = [pc EXCEPT ![c] = "crashed"]
  /\ reply' = [reply EXCEPT ![c] = "none"]
  /\ UNCHANGED <<attempt, resent, tries, outcome, server>>

(***************************************************************************)
(* The API (external).                                                     *)
(***************************************************************************)

\* The first response on the connection that still waits for m is the one.
Respond(m, status) ==
  LET c == m.call IN
    reply' = IF pc[c] = "waiting" /\ tries[c] = m.try /\ reply[c] = "none"
             THEN [reply EXCEPT ![c] = status] ELSE reply

Settle(m, res) ==
  /\ running' = running \ {m}
  /\ record' = [record EXCEPT ![Op(m.call)] = res]

\* Turned away before the record is consulted: 401, 429, 503, 403, 302, ...
TurnAway(m) ==
  /\ m \in network
  /\ network' = network \ {m}
  /\ \E s \in {"unauthorized", "transient", "denied", "redirect"} : Respond(m, s)
  /\ UNCHANGED <<client, running, record, effects>>

Begin(m) ==
  /\ m \in network
  /\ Keyed(m) => record[Op(m.call)] = "absent"
  /\ network' = network \ {m}
  /\ running' = running \cup {m}
  /\ record' = [record EXCEPT ![Op(m.call)] = "executing"]
  /\ UNCHANGED <<client, reply, effects>>

AnswerInProgress(m) ==
  /\ m \in network /\ Keyed(m) /\ record[Op(m.call)] = "executing"
  /\ network' = network \ {m}
  /\ Respond(m, "in_progress")
  /\ UNCHANGED <<client, running, record, effects>>

Replay(m) ==
  /\ m \in network /\ Keyed(m) /\ record[Op(m.call)] \in Recorded
  /\ network' = network \ {m}
  /\ Respond(m, record[Op(m.call)])
  /\ UNCHANGED <<client, running, record, effects>>

\* The write takes effect and its response is recorded, in one transaction.
Commit(m) ==
  /\ m \in running
  /\ Settle(m, "ok")
  /\ effects' = [effects EXCEPT ![Op(m.call)] = @ + 1]
  /\ Respond(m, "ok")
  /\ UNCHANGED <<client, network>>

\* A deterministic error (conflict, validation): recorded, without effect.
Refuse(m) ==
  /\ m \in running
  /\ Settle(m, "error")
  /\ Respond(m, "error")
  /\ UNCHANGED <<client, network, effects>>

\* The execution fails with a 5xx and leaves nothing behind.
Abort(m) ==
  /\ m \in running
  /\ Settle(m, "absent")
  /\ Respond(m, "transient")
  /\ UNCHANGED <<client, network, effects>>

\* A gateway answers 502/504 while the execution goes on.
GatewayTimeout(m) ==
  /\ m \in running
  /\ pc[m.call] = "waiting" /\ tries[m.call] = m.try /\ reply[m.call] = "none"
  /\ Respond(m, "transient")
  /\ UNCHANGED <<client, server>>

Finished ==
  /\ \A c \in Calls : pc[c] \in {"done", "crashed"}
  /\ network = {} /\ running = {}
  /\ UNCHANGED vars

ClientStep(c) == Send(c) \/ AuthFails(c) \/ Receive(c) \/ TransportError(c)

ServerStep(m) ==
  \/ TurnAway(m) \/ Begin(m) \/ AnswerInProgress(m) \/ Replay(m)
  \/ Commit(m) \/ Refuse(m) \/ Abort(m) \/ GatewayTimeout(m)

Next ==
  \/ \E c \in Calls : Start(c) \/ ClientStep(c) \/ Crash(c)
  \/ \E m \in network \cup running : ServerStep(m)
  \/ Finished

Spec == Init /\ [][Next]_vars

\* A call that waits is answered or times out; nothing is asked of the API.
FairSpec == Spec /\ \A c \in Calls : WF_vars(ClientStep(c))

(***************************************************************************)
(* Properties.                                                             *)
(***************************************************************************)

\* A write whose retries are left to request() to decide.
IsWrite(c) == ~SafeMethod[c] /\ Idempotent[c] # "yes"
Writes == {c \in Calls : IsWrite(c)}

\* "Retried writes never double-execute": not by retries, auth resends, late
\* duplicates or re-runs with the same key; and a write without a key is not
\* executed twice either (_send).
AtMostOnce == \A c \in Writes : effects[Op(c)] <= 1

\* A call that returns what the API recorded has had its effect, once; a call that
\* reports the API's recorded refusal has none, and no earlier attempt or other
\* call with its key has one later.  A redirect, which also returns, is no answer
\* of the API's (request).
OutcomeIsTrue ==
  \A c \in Writes :
    /\ outcome[c] = "ok" => effects[Op(c)] = 1
    /\ outcome[c] = "error" => effects[Op(c)] = 0

\* A write without a key is settled by whatever status it ends with, unless
\* that status is transient: nothing it sent earlier can have had an effect.
OneShotIsConclusive ==
  \A c \in Writes :
    KeyOf[c] = NoKey /\ outcome[c] \in {"unauthorized", "denied", "redirect"}
      => effects[Op(c)] = 0

\* A retryable call reports a passing failure only after its whole budget.
GivesUpLast ==
  \A c \in Calls :
    MayRetry(c) /\ outcome[c] \in {"transient", "in_progress", "unreachable"}
      => attempt[c] = MaxRetries

\* Each call ends although the API never answers.
EveryCallEnds ==
  \A c \in Calls : pc[c] \in {"ready", "waiting"} ~> pc[c] \in {"done", "crashed"}

\* An operation's result is the effect it had or the refusal on record.
ResultOf(o) == CASE effects[o] > 0 -> "done"
                 [] effects[o] = 0 /\ record[o] = "error" -> "refused"
                 [] OTHER -> "none"

AnswerOf(c) == IF outcome[c] \in Recorded \cup {"none"} THEN outcome[c]
               ELSE "unknown"

Once == INSTANCE ExactlyOnce WITH
  Calls  <- Writes,
  Ops    <- {Op(c) : c \in Writes},
  Op     <- Op,
  result <- [o \in {Op(c) : c \in Writes} |-> ResultOf(o)],
  answer <- [c \in Writes |-> AnswerOf(c)]

\* Retries, resends and crashes are invisible: each write is settled once and
\* its calls report that result or none (request, _send).
ImplementsOnce == Once!Spec
===============================================================================
