---------------------------- MODULE PollUntilProofs ----------------------------
(***************************************************************************)
(* Theorems about PollUntil, for every set of items and statuses, every    *)
(* deadline and interval, and every bound on a fetch.                      *)
(***************************************************************************)
EXTENDS PollUntil, TLAPS

\* What was read as done was done when the fetch ran, as what is done now.
ReadInv == \A i \in Items : status[i] \in Done \/ value[i] \in Done => i \in fresh

\* The timers run within their bounds, and the distance to the deadline with
\* them.
TimeInv ==
  /\ pc = "fetch" => timer <= MaxFetch
  /\ pc = "sleep" => timer <= PollInterval
  /\ deadline =>
       /\ pc = "fetch" => waitLeft + PollInterval + timer > 0
       /\ pc = "sleep" => waitLeft + PollInterval - timer > 0
       /\ waitLeft + PollInterval + MaxFetch > 0
  /\ ~deadline => waitLeft = 0

\* An item that the running fetch read undone was so when the fetch ran.
LateInv ==
  pc = "fetch" /\ AllDone(status)
    /\ (\E i \in Items : value[i] \notin Done \cup {"unread"})
  => doneLeft <= waitLeft + timer

EndInv ==
  /\ pc # "done" <=> outcome = "none"
  /\ ReturnsOnlyDone
  /\ TimeoutIsDue

IInv == TypeOK /\ ReadInv /\ TimeInv /\ LateInv /\ EndInv

USE StatusAssumption, TimeAssumption DEF AllDone

LEMMA TypeInit == Init => TypeOK
  BY DEF Init, TypeOK, Unread, Statuses

LEMMA TypeNext == TypeOK /\ [Next]_vars => TypeOK'
<1> SUFFICES ASSUME TypeOK, [Next]_vars PROVE TypeOK'
  OBVIOUS
<1> USE DEF TypeOK, loop, Leave, WarnOnce, Unread, Statuses
<1>1. ASSUME NEW i \in Items, Progress(i) PROVE TypeOK'
  BY <1>1 DEF Progress
<1>2. ASSUME NEW i \in Items, Read(i) PROVE TypeOK'
  BY <1>2 DEF Read
<1>3. CASE Return
  BY <1>3 DEF Return
<1>4. CASE Expire
  BY <1>4 DEF Expire
<1>5. CASE Sleep
  BY <1>5 DEF Sleep
<1>6. CASE Wake
  BY <1>6 DEF Wake
<1>7. CASE FetchFails
  BY <1>7 DEF FetchFails
<1>8. CASE Tick
  BY <1>8 DEF Tick
<1>9. CASE UNCHANGED vars
  BY <1>9 DEF vars
<1> QED
  BY <1>1, <1>2, <1>3, <1>4, <1>5, <1>6, <1>7, <1>8, <1>9
     DEF Next, LoopStep, Ended

LEMMA IInvInit == Init => IInv
<1> SUFFICES ASSUME Init PROVE IInv
  OBVIOUS
<1>1. TypeOK
  BY TypeInit
<1> QED
  BY <1>1 DEF Init, IInv, ReadInv, TimeInv, LateInv, EndInv, ReturnsOnlyDone,
              TimeoutIsDue, Unread, Statuses

LEMMA IInvNext == IInv /\ [Next]_vars => IInv'
<1> SUFFICES ASSUME IInv, [Next]_vars PROVE IInv'
  OBVIOUS
<1> TypeOK'
  BY TypeNext DEF IInv
<1> USE DEF IInv, TypeOK, loop, Leave, Unread, ReturnsOnlyDone, TimeoutIsDue
<1>1. ASSUME NEW i \in Items, Progress(i) PROVE IInv'
  <2>1. ReadInv'
    BY <1>1 DEF Progress, ReadInv
  <2>2. TimeInv'
    BY <1>1 DEF Progress, TimeInv
  <2>3. LateInv'
    BY <1>1 DEF Progress, LateInv, TimeInv
  <2>4. EndInv'
    BY <1>1 DEF Progress, EndInv, ReadInv, TimeInv, LateInv
  <2> QED
    BY <2>1, <2>2, <2>3, <2>4
<1>2. ASSUME NEW i \in Items, Read(i) PROVE IInv'
  <2>1. ReadInv'
    BY <1>2 DEF Read, ReadInv
  <2>2. TimeInv'
    BY <1>2 DEF Read, TimeInv
  <2>3. LateInv'
    BY <1>2 DEF Read, LateInv, TimeInv
  <2>4. EndInv'
    BY <1>2 DEF Read, EndInv, ReadInv, TimeInv, LateInv
  <2> QED
    BY <2>1, <2>2, <2>3, <2>4
<1>3. ASSUME Return PROVE IInv'
  <2>1. ReadInv'
    BY <1>3 DEF Return, FetchEnds, ReadInv
  <2>2. TimeInv'
    BY <1>3 DEF Return, FetchEnds, TimeInv
  <2>3. LateInv'
    BY <1>3 DEF Return, FetchEnds, LateInv, TimeInv
  <2>4. EndInv'
    BY <1>3 DEF Return, FetchEnds, EndInv, ReadInv, TimeInv, LateInv
  <2> QED
    BY <2>1, <2>2, <2>3, <2>4
<1>4. ASSUME Expire PROVE IInv'
  <2>1. ReadInv'
    BY <1>4 DEF Expire, FetchEnds, ReadInv
  <2>2. TimeInv'
    BY <1>4 DEF Expire, FetchEnds, TimeInv
  <2>3. LateInv'
    BY <1>4 DEF Expire, FetchEnds, LateInv, TimeInv
  <2>4. EndInv'
    BY <1>4 DEF Expire, FetchEnds, EndInv, ReadInv, TimeInv, LateInv
  <2> QED
    BY <2>1, <2>2, <2>3, <2>4
<1>5. ASSUME Sleep PROVE IInv'
  <2>1. ReadInv'
    BY <1>5 DEF Sleep, FetchEnds, ReadInv
  <2>2. TimeInv'
    BY <1>5 DEF Sleep, FetchEnds, TimeInv
  <2>3. LateInv'
    BY <1>5 DEF Sleep, FetchEnds, LateInv, TimeInv
  <2>4. EndInv'
    BY <1>5 DEF Sleep, FetchEnds, EndInv, ReadInv, TimeInv, LateInv
  <2> QED
    BY <2>1, <2>2, <2>3, <2>4
<1>6. ASSUME Wake PROVE IInv'
  <2>1. ReadInv'
    BY <1>6 DEF Wake, ReadInv, Statuses
  <2>2. TimeInv'
    BY <1>6 DEF Wake, TimeInv
  <2>3. LateInv'
    BY <1>6 DEF Wake, LateInv, TimeInv
  <2>4. EndInv'
    BY <1>6 DEF Wake, EndInv, ReadInv, TimeInv, LateInv
  <2> QED
    BY <2>1, <2>2, <2>3, <2>4
<1>7. ASSUME FetchFails PROVE IInv'
  <2>1. ReadInv'
    BY <1>7 DEF FetchFails, ReadInv
  <2>2. TimeInv'
    BY <1>7 DEF FetchFails, TimeInv
  <2>3. LateInv'
    BY <1>7 DEF FetchFails, LateInv, TimeInv
  <2>4. EndInv'
    BY <1>7 DEF FetchFails, EndInv, ReadInv, TimeInv, LateInv
  <2> QED
    BY <2>1, <2>2, <2>3, <2>4
<1>8. ASSUME Tick PROVE IInv'
  <2>1. ReadInv'
    BY <1>8 DEF Tick, ReadInv
  <2>2. TimeInv'
    <3>1. CASE pc = "fetch"
      <4>1. timer < MaxFetch /\ timer' = timer + 1 /\ pc' = "fetch" /\ deadline' = deadline
        BY <1>8, <3>1 DEF Tick
      <4>2. CASE deadline
        <5>1. waitLeft' = waitLeft - 1
          BY <1>8, <4>2 DEF Tick
        <5> QED
          BY <4>1, <4>2, <5>1, <3>1 DEF TimeInv
      <4>3. CASE ~deadline
        <5>1. waitLeft' = waitLeft
          BY <1>8, <4>3 DEF Tick
        <5> QED
          BY <4>1, <4>3, <5>1, <3>1 DEF TimeInv
      <4> QED
        BY <4>2, <4>3
    <3>2. CASE pc = "sleep"
      <4>1. timer > 0 /\ timer' = timer - 1 /\ pc' = "sleep" /\ deadline' = deadline
        BY <1>8, <3>2 DEF Tick
      <4>2. CASE deadline
        <5>1. waitLeft' = waitLeft - 1
          BY <1>8, <4>2 DEF Tick
        <5> QED
          BY <4>1, <4>2, <5>1, <3>2 DEF TimeInv
      <4>3. CASE ~deadline
        <5>1. waitLeft' = waitLeft
          BY <1>8, <4>3 DEF Tick
        <5> QED
          BY <4>1, <4>3, <5>1, <3>2 DEF TimeInv
      <4> QED
        BY <4>2, <4>3
    <3> QED
      BY <1>8, <3>1, <3>2 DEF Tick
  <2>3. LateInv'
    BY <1>8 DEF Tick, LateInv, TimeInv
  <2>4. EndInv'
    BY <1>8 DEF Tick, EndInv, ReadInv, TimeInv, LateInv
  <2> QED
    BY <2>1, <2>2, <2>3, <2>4
<1>9. CASE UNCHANGED vars
  BY <1>9 DEF vars, ReadInv, TimeInv, LateInv, EndInv
<1> QED
  BY <1>1, <1>2, <1>3, <1>4, <1>5, <1>6, <1>7, <1>8, <1>9
     DEF Next, LoopStep, Ended

LEMMA Inductive == Spec => []IInv
  BY IInvInit, IInvNext, PTL DEF Spec

\* Variables keep their types (poll_until).
THEOREM TypeCorrect == Spec => []TypeOK
<1>1. IInv => TypeOK
  BY DEF IInv
<1> QED
  BY <1>1, Inductive, PTL

\* poll_until returns nothing older than its last fetch, although a fetch is no
\* snapshot of the server.
THEOREM ReturnsOnlyDoneHolds == Spec => []ReturnsOnlyDone
<1>1. IInv => ReturnsOnlyDone
  BY DEF IInv, EndInv
<1> QED
  BY <1>1, Inductive, PTL

\* What is done on the server is so when the wait returns.
ReturnedIsDone == outcome = "returned" => AllDone(status)

\* If the server leaves no done status, as it leaves no terminal status of a job,
\* then the items are all done when the wait returns (jobs.wait).
THEOREM TerminalIsReturned ==
  ASSUME Done \subseteq Final
  PROVE  Spec => []ReturnedIsDone
<1> DEFINE Stays == \A i \in fresh : status[i] \in Done
<1>1. Init => Stays
  BY DEF Init
<1>2. IInv /\ Stays /\ [Next]_vars => Stays'
  <2> SUFFICES ASSUME IInv, Stays, [Next]_vars PROVE Stays'
    OBVIOUS
  <2>1. ASSUME NEW i \in Items, Progress(i) PROVE Stays'
    BY <2>1 DEF Progress, IInv, TypeOK
  <2>2. CASE Wake
    BY <2>2 DEF Wake
  <2>3. CASE UNCHANGED <<status, fresh>>
    BY <2>3
  <2>4. ASSUME LoopStep \/ FetchFails \/ Tick \/ Ended \/ UNCHANGED vars, ~Wake
        PROVE  UNCHANGED <<status, fresh>>
    BY <2>4 DEF LoopStep, Read, Return, Expire, Sleep, FetchFails, Tick, Ended, vars
  <2> QED
    BY <2>1, <2>2, <2>3, <2>4 DEF Next
<1>3. IInv /\ Stays => ReturnedIsDone
  BY DEF IInv, EndInv, ReturnsOnlyDone, ReturnedIsDone
<1> QED
  BY <1>1, <1>2, <1>3, Inductive, PTL DEF Spec

\* WaitTimeoutError is raised with a deadline, past it, and over no result
\* older than the last fetch.
THEOREM TimeoutIsDueHolds == Spec => []TimeoutIsDue
<1>1. IInv => TimeoutIsDue
  BY DEF IInv, EndInv
<1> QED
  BY <1>1, Inductive, PTL

\* The deadline is overrun by less than one sleep and one fetch.
THEOREM OverrunIsBoundedHolds == Spec => []OverrunIsBounded
<1>1. IInv => OverrunIsBounded
  BY DEF IInv, TypeOK, TimeInv, OverrunIsBounded
<1> QED
  BY <1>1, Inductive, PTL

\* A timeout leaves no unknown status unmentioned, however many there were and
\* in whichever fetch they came up.
THEOREM UnknownIsDiagnosedHolds == Spec => []UnknownIsDiagnosed
<1>1. Init => UnknownIsDiagnosed
  BY DEF Init, UnknownIsDiagnosed
<1>2. IInv /\ UnknownIsDiagnosed /\ [Next]_vars => UnknownIsDiagnosed'
  <2> SUFFICES ASSUME IInv, UnknownIsDiagnosed, [Next]_vars PROVE UnknownIsDiagnosed'
    OBVIOUS
  <2>1. CASE Expire
    BY <2>1 DEF Expire, WarnOnce, UnknownIsDiagnosed
  <2>2. CASE outcome' = "timeout" /\ outcome = "timeout"
    <3>1. pc = "done"
      BY <2>2 DEF IInv, EndInv
    <3>2. UNCHANGED <<value, seen>>
      BY <3>1 DEF Next, LoopStep, Progress, Read, Return, Expire, Sleep, Wake, FetchEnds,
                  FetchFails, Tick, Ended, vars, loop
    <3> QED
      BY <2>2, <3>2 DEF UnknownIsDiagnosed
  <2>3. CASE ~Expire /\ outcome # "timeout"
    <3>1. outcome' # "timeout"
      BY <2>3 DEF Next, LoopStep, Progress, Read, Return, Sleep, Wake, Leave, FetchFails, Tick,
                  Ended, vars, loop
    <3> QED
      BY <3>1 DEF UnknownIsDiagnosed
  <2> QED
    BY <2>1, <2>2, <2>3 DEF UnknownIsDiagnosed
<1> QED
  BY <1>1, <1>2, Inductive, PTL DEF Spec

(***************************************************************************)
(* The length of a wait.                                                   *)
(***************************************************************************)

\* With a deadline the clock ticks at most this often before the wait is over.
TicksLeft == waitLeft + PollInterval + MaxFetch

\* Between two ticks the loop can wake up, fetch, and go to sleep.
Stage == CASE pc = "sleep" /\ timer = 0 -> 2
           [] pc = "fetch"              -> 1
           [] OTHER                     -> 0

ToRead == {i \in Items : value[i] = "unread"}

\* A wait with a deadline cannot go on for ever, whatever the server does to the
\* items: a step of it ends it, or takes one of a bounded number of ticks, or one
\* of the stages between two ticks, or reads one of the items of its fetch.  The
\* server's steps give none of these back, and what has ended stays so
\* (poll_until).
WaitIsBounded ==
  [][/\ pc = "done" => UNCHANGED <<loop, waitLeft>>
     /\ deadline /\ pc # "done" =>
          \/ UNCHANGED <<loop, waitLeft>>
          \/ pc' = "done"
          \/ TicksLeft' \in 0..(TicksLeft - 1)
          \/ TicksLeft' = TicksLeft /\ Stage' \in 0..(Stage - 1)
          \/ /\ TicksLeft' = TicksLeft /\ Stage' = Stage
             /\ ToRead' \subseteq ToRead /\ ToRead' # ToRead]_vars

\* The wait's own steps come to an end, for any items, deadline and interval.
\* (That it takes them is what WaitEnds needs fairness for.)
THEOREM WaitIsBoundedHolds == Spec => WaitIsBounded
<1> DEFINE Ends == pc = "done" => UNCHANGED <<loop, waitLeft>>
           Counts ==
             \/ UNCHANGED <<loop, waitLeft>>
             \/ pc' = "done"
             \/ TicksLeft' \in 0..(TicksLeft - 1)
             \/ TicksLeft' = TicksLeft /\ Stage' \in 0..(Stage - 1)
             \/ /\ TicksLeft' = TicksLeft /\ Stage' = Stage
                /\ ToRead' \subseteq ToRead /\ ToRead' # ToRead
<1>1. IInv /\ IInv' /\ [Next]_vars => Ends /\ (deadline /\ pc # "done" => Counts)
  <2> SUFFICES ASSUME IInv, IInv', [Next]_vars
               PROVE  Ends /\ (deadline /\ pc # "done" => Counts)
    OBVIOUS
  <2>1. Ends
    BY DEF Next, LoopStep, Progress, Read, Return, Expire, Sleep, Wake, FetchEnds,
           FetchFails, Tick, Ended, vars, loop
  <2> SUFFICES ASSUME deadline, pc # "done" PROVE Counts
    BY <2>1
  <2>2. ASSUME NEW i \in Items, Progress(i) PROVE Counts
    BY <2>2 DEF Progress
  <2>3. ASSUME NEW i \in Items, Read(i) PROVE Counts
    <3>1. TicksLeft' = TicksLeft /\ Stage' = Stage
      BY <2>3 DEF Read, TicksLeft, Stage
    <3>2. value[i] = "unread" /\ value'[i] # "unread"
          /\ \A j \in Items \ {i} : value'[j] = value[j]
      BY <2>3 DEF Read, IInv, TypeOK, Statuses
    <3> QED
      BY <3>1, <3>2 DEF ToRead
  <2>4. CASE Return \/ Expire \/ FetchFails
    BY <2>4 DEF Return, Expire, FetchFails, Leave
  <2>5. CASE Sleep
    <3>1. pc = "fetch" /\ pc' = "sleep" /\ timer' = PollInterval /\ waitLeft' = waitLeft
      BY <2>5 DEF Sleep, FetchEnds
    <3> QED
      BY <3>1 DEF TicksLeft, Stage
  <2>6. CASE Wake
    <3>1. pc = "sleep" /\ timer = 0 /\ pc' = "fetch" /\ waitLeft' = waitLeft
      BY <2>6 DEF Wake
    <3> QED
      BY <3>1 DEF TicksLeft, Stage
  <2>7. CASE Tick
    <3>1. waitLeft' = waitLeft - 1 /\ deadline'
      BY <2>7 DEF Tick
    <3>2. TicksLeft' > 0 /\ waitLeft \in Int
      BY <3>1 DEF IInv, TimeInv, TicksLeft, TypeOK
    <3> QED
      BY <3>1, <3>2 DEF TicksLeft
  <2>8. CASE UNCHANGED vars
    BY <2>8 DEF vars, loop
  <2> QED
    BY <2>2, <2>3, <2>4, <2>5, <2>6, <2>7, <2>8 DEF Next, LoopStep, Ended
<1> QED
  BY <1>1, Inductive, PTL DEF Spec, WaitIsBounded
===============================================================================
