--------------------------- MODULE PresignedTransfer ---------------------------
(***************************************************************************)
(* put_presigned and get_presigned (src/infersoft/_http.py): move a file's *)
(* bytes over a presigned URL, without the API's authentication and        *)
(* without a key, retrying transport errors and transient statuses within  *)
(* a budget of their own.                                                  *)
(*                                                                         *)
(* The storage is external.  It answers a live URL, refuses a dead one     *)
(* (403), is busy, or redirects; a URL may expire at any time.  A request  *)
(* given up by the client may still arrive, also after the transfer ended. *)
(***************************************************************************)
EXTENDS ClientPool

CONSTANTS
  Transfers,    \* calls that transfer different files
  MayRedirect   \* the storage may answer 3xx, which httpx hands back

ASSUME RedirectAssumption == MayRedirect \in BOOLEAN

VARIABLES
  pc,       \* idle, ready (to send), waiting (for a response), done
  puts,     \* the transfers that are uploads; the others are downloads
  budget,   \* the local `budget`
  attempt,  \* the local `attempt`
  tries,    \* requests sent
  outcome,  \* how the transfer ended
  network,  \* requests that may still arrive
  stored,   \* the uploads' bytes that the storage has
  body,     \* the bytes that a download returned: the file's, or none
  most      \* history: the requests that the transfer's client asked for

transferVars ==
  <<pc, puts, budget, attempt, tries, outcome, network, stored, body, most>>

Request == [transfer : Transfers, try : Nat]

TransferTypeOK ==
  /\ pc \in [Transfers -> {"idle", "ready", "waiting", "done"}]
  /\ puts \subseteq Transfers
  /\ budget \in [Transfers -> Nat]
  /\ attempt \in [Transfers -> Nat]
  /\ tries \in [Transfers -> Nat]
  /\ \A t \in Transfers : attempt[t] <= budget[t] /\ tries[t] <= attempt[t] + 1
  /\ outcome \in [Transfers -> {"none", "returned", "transient", "denied",
                                "unreachable", "closed", "crashed"}]
  /\ network \subseteq Request
  /\ stored \subseteq puts
  /\ body \in [Transfers -> {"none", "file", "other"}]
  /\ most \in [Transfers -> Nat]

TransferInit ==
  /\ pc = [t \in Transfers |-> "idle"]
  /\ puts = {}
  /\ budget = [t \in Transfers |-> 0]
  /\ attempt = [t \in Transfers |-> 0]
  /\ tries = [t \in Transfers |-> 0]
  /\ outcome = [t \in Transfers |-> "none"]
  /\ network = {}
  /\ stored = {}
  /\ body = [t \in Transfers |-> "none"]
  /\ most = [t \in Transfers |-> 0]

(***************************************************************************)
(* The client.                                                             *)
(***************************************************************************)

\* The client object that a call goes through keeps its options, whatever
\* becomes of its name.
Bind(t, h) ==
  /\ client[h] # NoClient
  /\ budget' = [budget EXCEPT ![t] = UploadRetryBudget(client[h])]
  /\ most' = [most EXCEPT ![t] = BudgetAsked(h) + 1]

\* put_presigned or get_presigned is called with a signed URL.
Begin(t) ==
  /\ pc[t] = "idle"
  /\ pc' = [pc EXCEPT ![t] = "ready"]
  /\ UNCHANGED <<attempt, tries, outcome, network, stored, body>>

End(t, how) ==
  /\ pc' = [pc EXCEPT ![t] = "done"]
  /\ outcome' = [outcome EXCEPT ![t] = how]
  /\ UNCHANGED attempt

Again(t) ==
  /\ pc' = [pc EXCEPT ![t] = "ready"]
  /\ attempt' = [attempt EXCEPT ![t] = @ + 1]
  /\ UNCHANGED <<outcome, body>>

\* A closed pool raises RuntimeError, which no handler of the loop catches.
Send(t) ==
  /\ pc[t] = "ready"
  /\ \/ /\ "upload" \in open
        /\ pc' = [pc EXCEPT ![t] = "waiting"]
        /\ tries' = [tries EXCEPT ![t] = @ + 1]
        /\ network' = network \cup {[transfer |-> t, try |-> tries[t] + 1]}
        /\ UNCHANGED <<attempt, outcome>>
     \/ /\ "upload" \notin open
        /\ End(t, "closed")
        /\ UNCHANGED <<tries, network>>
  /\ UNCHANGED <<puts, budget, stored, body, most>>

\* Mutant of Retries: one retry too many.
RetriesMore(t, status) ==
  status \in {"transient", "unreachable"} /\ attempt[t] <= budget[t]

Retries(t, status) ==
  status \in {"transient", "unreachable"} /\ attempt[t] < budget[t]

\* Mutant of IsError: a budget spent on a busy storage is taken for success.
IsErrorIfDenied(status) == status = "denied"

\* resp.is_error: a 4xx or 5xx status.
IsError(status) == status \in {"transient", "denied"}

\* The response to the last request: retry, raise, or return.
Receive(t, status) ==
  /\ pc[t] = "waiting"
  /\ \/ Retries(t, status) /\ Again(t)
     \/ /\ ~Retries(t, status) /\ IsError(status)
        /\ End(t, status) /\ UNCHANGED body
     \/ /\ ~Retries(t, status) /\ ~IsError(status)
        /\ End(t, "returned")
        /\ body' = [body EXCEPT ![t] = IF t \in puts THEN "none"
                                       ELSE IF status = "ok" THEN "file"
                                       ELSE "other"]
  /\ UNCHANGED <<puts, budget, tries, most>>

\* A request that its client gave up.  A GET that arrives later changes nothing.
GivenUp(t) == network' = IF t \in puts THEN network
                         ELSE {m \in network : m.transfer # t}

\* httpx.TransportError: no response.
TransportError(t) ==
  /\ pc[t] = "waiting"
  /\ \/ Retries(t, "unreachable") /\ Again(t)
     \/ ~Retries(t, "unreachable") /\ End(t, "unreachable") /\ UNCHANGED body
  /\ GivenUp(t)
  /\ UNCHANGED <<puts, budget, tries, stored, most>>

\* Any other httpx.HTTPError: not retried.
OtherError(t) ==
  /\ pc[t] = "waiting"
  /\ End(t, "unreachable")
  /\ GivenUp(t)
  /\ UNCHANGED <<puts, budget, tries, stored, body, most>>

\* The process dies: what is under way is lost, except for requests that were
\* sent.
TransferCrash ==
  /\ pc' = [t \in Transfers |-> IF pc[t] = "idle" THEN "idle" ELSE "done"]
  /\ outcome' = [t \in Transfers |->
       IF pc[t] \in {"ready", "waiting"} THEN "crashed" ELSE outcome[t]]
  /\ network' = {m \in network : m.transfer \in puts}
  /\ UNCHANGED <<puts, budget, attempt, tries, stored, body, most>>

(***************************************************************************)
(* The storage (external).                                                 *)
(***************************************************************************)

\* A response reaches the transfer if it still waits for it.  It may be lost.
Respond(m, status) ==
  \/ tries[m.transfer] = m.try /\ Receive(m.transfer, status)
  \/ UNCHANGED <<pc, puts, budget, attempt, tries, outcome, body, most>>

\* A live URL: the bytes are stored, or sent.
Serve(m) ==
  /\ stored' = stored \cup ({m.transfer} \cap puts)
  /\ Respond(m, "ok")

\* The URL has expired, or the storage is busy or redirects.
Evade(m) ==
  /\ \/ Respond(m, "denied") \/ Respond(m, "transient")
     \/ MayRedirect /\ Respond(m, "redirect")
  /\ UNCHANGED stored

Arrive(m) == (Serve(m) \/ Evade(m)) /\ network' = network \ {m}

ClientStep(t) == Send(t) \/ TransportError(t) \/ OtherError(t)

TransferNext ==
  \/ \E t \in Transfers : ClientStep(t)
  \/ \E m \in network : Arrive(m)

(***************************************************************************)
(* Properties.                                                             *)
(***************************************************************************)

\* A transfer that returns has moved the file: its bytes are stored, or are
\* what the caller gets, whatever was lost, retried or came late.
ReturnMeansMoved ==
  \A t \in Transfers : outcome[t] = "returned" =>
    IF t \in puts THEN t \in stored ELSE body[t] = "file"

\* A transfer obeys the options its client was made with, through any chain of
\* with_options calls: it gives up on a busy storage exactly when the retries
\* asked for are spent, and never sends more.
BudgetIsAsked ==
  \A t \in Transfers :
    tries[t] <= most[t] /\ (outcome[t] = "transient" => tries[t] = most[t])

\* Either pool is shut, and a transfer fails for it, only when the original was
\* closed: "copies are safe to use as context managers" (with_options).
OnlyOriginalCloses ==
  open # Pools \/ (\E t \in Transfers : outcome[t] = "closed") => closed
===============================================================================
