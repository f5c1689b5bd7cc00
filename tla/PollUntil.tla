------------------------------- MODULE PollUntil -------------------------------
(***************************************************************************)
(* poll_until (src/infersoft/_wait.py) as jobs.wait and                    *)
(* documents.wait_until_ready use it: fetch the statuses of the awaited    *)
(* items, return when every one is done, raise WaitTimeoutError when the   *)
(* deadline has passed, else sleep and fetch again.                        *)
(*                                                                         *)
(* A fetch takes time, and reads items one after the other (documents come *)
(* in pages), while the server goes on changing them.  Time is kept in     *)
(* timers that count down, so no clock has to be bounded.                  *)
(***************************************************************************)
EXTENDS Integers

CONSTANTS
  Items,         \* what is awaited: a job, or some documents
  Done,          \* statuses that end the wait: terminal ones, or ready
  Known,         \* the values of the status enum of this SDK build
  Later,         \* statuses of newer servers, unknown to this build
  Final,         \* statuses the server leaves no more; Done may be left, as
                 \* ready documents are deleted and processed again
  MaxWait,       \* max_wait_seconds, of a caller that sets it
  PollInterval,  \* poll_interval
  MaxFetch       \* bound: the longest fetch, retries included

\* "gone" is the status of a document that searches return no more.
Statuses == Known \cup Later \cup {"gone"}

ASSUME StatusAssumption ==
  /\ Done \subseteq Known
  /\ "gone" \in Final /\ "gone" \notin Known \cup Later
  /\ Final \subseteq Statuses
  /\ Known \cap Later = {} /\ "unread" \notin Statuses
  /\ Items # {}

ASSUME TimeAssumption ==
  MaxWait \in Nat \ {0} /\ PollInterval \in Nat \ {0} /\ MaxFetch \in Nat \ {0}

VARIABLES
  status,    \* the items on the server
  deadline,  \* `deadline is not None`
  pc,        \* fetch, sleep, done
  value,     \* what the running or last fetch has read
  timer,     \* fetch: ticks it has taken; sleep: ticks that are left
  waitLeft,  \* ticks to the deadline, negative past it
  doneLeft,  \* waitLeft when all items were done, the last time they became so
  fresh,     \* items that were done at some time since the last fetch began
  seen,      \* unknown statuses warned about
  outcome    \* returned, timeout, error

loop == <<pc, value, timer, seen, outcome>>
vars == <<status, deadline, pc, value, timer, waitLeft, doneLeft, fresh, seen,
          outcome>>

TypeOK ==
  /\ status \in [Items -> Statuses]
  /\ deadline \in BOOLEAN
  /\ pc \in {"fetch", "sleep", "done"}
  /\ value \in [Items -> Statuses \cup {"unread"}]
  /\ timer \in Nat
  /\ waitLeft \in Int
  /\ doneLeft \in Int
  /\ fresh \subseteq Items
  /\ seen \subseteq Later
  /\ outcome \in {"none", "returned", "timeout", "error"}

Unread == [i \in Items |-> "unread"]

Init ==
  /\ status \in [Items -> Known \ Done]
  /\ pc = "fetch" /\ timer = 0 /\ value = Unread
  /\ deadline \in BOOLEAN  \* None, 0 and negative values set none
  /\ waitLeft = IF deadline THEN MaxWait ELSE 0
  /\ doneLeft = 0 /\ fresh = {}
  /\ seen = {} /\ outcome = "none"

AllDone(s) == \A i \in Items : s[i] \in Done

(***************************************************************************)
(* The server (external): an item changes until it is final.  What it does *)
(* after the wait does not concern it.                                     *)
(***************************************************************************)
Progress(i) ==
  /\ pc # "done" /\ status[i] \notin Final
  /\ \E s \in Statuses \ {status[i]} : status' = [status EXCEPT ![i] = s]
  /\ doneLeft' = IF AllDone(status') /\ ~AllDone(status) THEN waitLeft ELSE doneLeft
  /\ fresh' = IF status'[i] \in Done THEN fresh \cup {i} ELSE fresh
  /\ UNCHANGED <<loop, deadline, waitLeft>>

(***************************************************************************)
(* The loop.                                                               *)
(***************************************************************************)

\* The running fetch reads one more item, or misses it: pages are numbered,
\* and shift when a document before it disappears.
Read(i) ==
  /\ pc = "fetch" /\ value[i] = "unread"
  /\ \/ value' = [value EXCEPT ![i] = status[i]]
     \/ /\ \E j \in Items \ {i} : status[j] = "gone"
        /\ value' = [value EXCEPT ![i] = "gone"]
  /\ UNCHANGED <<status, pc, timer, deadline, waitLeft, doneLeft, fresh, seen,
                 outcome>>

FetchEnds == pc = "fetch" /\ \A i \in Items : value[i] # "unread"

\* Mutant of WarnOnce: only the first unknown status is warned about.
WarnOnceEver ==
  seen' = IF seen = {} THEN {s \in Later : \E i \in Items : value[i] = s} ELSE seen

\* warn_once_unknown_status, by the `done` predicate: once per value.
WarnOnce == seen' = seen \cup {s \in Later : \E i \in Items : value[i] = s}

Leave(how) ==
  /\ pc' = "done" /\ outcome' = how /\ timer' = 0

\* `if done(value): return value`.
Return ==
  /\ FetchEnds /\ WarnOnce
  /\ AllDone(value)
  /\ Leave("returned")
  /\ UNCHANGED <<status, value, deadline, waitLeft, doneLeft, fresh>>

\* Mutants of Expire: it anticipates the sleep, or misses a deadline that the
\* clock has jumped over.
ExpireBeforeSleep ==
  /\ FetchEnds /\ WarnOnce
  /\ ~AllDone(value)
  /\ deadline /\ waitLeft <= PollInterval
  /\ Leave("timeout")
  /\ UNCHANGED <<status, value, deadline, waitLeft, doneLeft, fresh>>
ExpireOnTheDot ==
  /\ FetchEnds /\ WarnOnce
  /\ ~AllDone(value)
  /\ deadline /\ waitLeft = 0
  /\ Leave("timeout")
  /\ UNCHANGED <<status, value, deadline, waitLeft, doneLeft, fresh>>

\* `if deadline is not None and _monotonic() >= deadline: raise`.
Expire ==
  /\ FetchEnds /\ WarnOnce
  /\ ~AllDone(value)
  /\ deadline /\ waitLeft <= 0
  /\ Leave("timeout")
  /\ UNCHANGED <<status, value, deadline, waitLeft, doneLeft, fresh>>

\* Mutant of Sleep: the interval grows.
SleepTwice ==
  /\ FetchEnds /\ WarnOnce
  /\ ~AllDone(value)
  /\ ~(deadline /\ waitLeft <= 0)
  /\ pc' = "sleep" /\ timer' = 2 * PollInterval
  /\ UNCHANGED <<status, value, deadline, waitLeft, doneLeft, fresh, outcome>>

\* `time.sleep(poll_interval)`, all of it, also when the deadline is nearer.
Sleep ==
  /\ FetchEnds /\ WarnOnce
  /\ ~AllDone(value)
  /\ ~(deadline /\ waitLeft <= 0)
  /\ pc' = "sleep" /\ timer' = PollInterval
  /\ UNCHANGED <<status, value, deadline, waitLeft, doneLeft, fresh, outcome>>

\* Mutant of Wake: what was done once is not fetched again.
WakeKeepsDone ==
  /\ pc = "sleep" /\ timer = 0
  /\ pc' = "fetch"
  /\ value' = [i \in Items |-> IF value[i] \in Done THEN value[i] ELSE "unread"]
  /\ fresh' = {i \in Items : status[i] \in Done}
  /\ UNCHANGED <<status, timer, deadline, waitLeft, doneLeft, seen, outcome>>

\* The loop fetches again, all of the items.
Wake ==
  /\ pc = "sleep" /\ timer = 0
  /\ pc' = "fetch" /\ value' = Unread
  /\ fresh' = {i \in Items : status[i] \in Done}
  /\ UNCHANGED <<status, timer, deadline, waitLeft, doneLeft, seen, outcome>>

\* fetch() raises: the error of the request ends the wait.
FetchFails ==
  /\ pc = "fetch"
  /\ Leave("error")
  /\ UNCHANGED <<status, value, deadline, waitLeft, doneLeft, fresh, seen>>

\* One tick.  What is due happens before it: a fetch ends within MaxFetch, a
\* sleeper wakes on time.
Tick ==
  /\ \/ pc = "fetch" /\ timer < MaxFetch /\ timer' = timer + 1
     \/ pc = "sleep" /\ timer > 0 /\ timer' = timer - 1
  /\ waitLeft' = IF deadline THEN waitLeft - 1 ELSE waitLeft
  /\ UNCHANGED <<status, deadline, pc, value, doneLeft, fresh, seen, outcome>>

Ended == pc = "done" /\ UNCHANGED vars

LoopStep == (\E i \in Items : Read(i)) \/ Return \/ Expire \/ Sleep \/ Wake

Next ==
  \/ \E i \in Items : Progress(i)
  \/ LoopStep \/ FetchFails \/ Tick \/ Ended

Spec == Init /\ [][Next]_vars

\* The loop runs and time passes; the server owes nothing.
FairSpec == Spec /\ WF_vars(LoopStep) /\ WF_vars(Tick)

(***************************************************************************)
(* Properties.                                                             *)
(***************************************************************************)

\* What the call returns is no older than its last fetch: since that began every
\* item has been done, though it may have been another at each moment, if some
\* were deleted or processed again while others were awaited.
ReturnsOnlyDone == outcome = "returned" => fresh = Items

\* WaitTimeoutError comes at or after the deadline, never without one, and not
\* when everything was done a whole fetch before it.
TimeoutIsDue ==
  outcome = "timeout" =>
    deadline /\ waitLeft <= 0 /\ (AllDone(status) => doneLeft <= MaxFetch)

\* The loop overruns its deadline by less than a sleep and a fetch.
OverrunIsBounded ==
  deadline => waitLeft > -(PollInterval + MaxFetch)

\* A wait that times out has warned about every status of its last fetch that only
\* newer servers have, however many fetches before showed others (wait).
UnknownIsDiagnosed ==
  outcome = "timeout" => \A i \in Items : value[i] \in Later => value[i] \in seen

\* With a deadline every wait ends, stuck or unknown statuses included;
\* without one it ends when the items are done.
WaitEnds == (deadline \/ [](AllDone(status))) ~> pc = "done"
===============================================================================
