----------------------------- MODULE DownloadProofs -----------------------------
(***************************************************************************)
(* Theorems about Download, and the transfers and clients it consists of,  *)
(* for every set of calls, documents and handles, and all budgets.         *)
(***************************************************************************)
EXTENDS Download, TLAPS

(***************************************************************************)
(* The inductive invariant.                                                *)
(***************************************************************************)

\* Only the original owns the pools, and a handle has the options asked for.
PoolInv ==
  /\ \A h \in Handles : client[h] # NoClient =>
       /\ client[h].owns => h = Original
       /\ client[h].max = asked[h].max /\ client[h].upload = asked[h].upload
  /\ open # Pools => closed

\* How far a transfer is in its budget, and what its outcome means.
TransferInv ==
  \A t \in Transfers :
    /\ pc[t] = "idle" => attempt[t] = 0 /\ tries[t] = 0 /\ t \notin puts
    /\ pc[t] = "ready" => tries[t] = attempt[t]
    /\ pc[t] = "waiting" => tries[t] = attempt[t] + 1
    /\ pc[t] # "done" => outcome[t] = "none"
    /\ phase[t] # "new" \/ pc[t] # "idle" => most[t] = budget[t] + 1
    /\ outcome[t] = "transient" => tries[t] = most[t]
    /\ outcome[t] = "closed" => closed
    /\ outcome[t] = "returned" /\ ~MayRedirect =>
         IF t \in puts THEN t \in stored ELSE body[t] = "file"

\* What a call has found out when it is at a place in the code.
Place(c) ==
  /\ phase[c] # "new" => c \notin puts
  /\ phase[c] \in {"sign", "fetch", "open"} => Target(c) \in Targets
  /\ phase[c] = "open" =>
       pc[c] = "done" /\ outcome[c] = "returned" /\ file[Target(c)] # "absent"
  /\ result[c] = "returned" =>
       phase[c] = "ended" /\ Target(c) \in Targets /\ file[Target(c)] # "absent"

PhaseInv == \A c \in Calls : Place(c)

\* Only calls that have begun have met.
MetInv ==
  \A c, d \in Calls : \A how \in {"looked", "after", "mixed"} :
    <<d, c, how>> \in met => phase[c] # "new" /\ phase[d] # "new"

\* A call that is going to write where another writes or has written was told to
\* overwrite or had looked before; one that writes there may spoil the other's file.
KeptInv ==
  \A c, d \in Calls :
    c # d /\ Target(d) = Target(c) /\ (phase[c] = "open" \/ result[c] = "returned") =>
      /\ phase[d] \in {"sign", "fetch"} => overwrite[d] \/ <<d, c, "looked">> \in met
      /\ phase[d] = "open" => MaySpoil(d, c)

IInv ==
  /\ TypeOK
  /\ PoolInv
  /\ TransferInv
  /\ PhaseInv
  /\ MetInv
  /\ KeptInv
  /\ ~MayRedirect => DownloadIsKept

USE HandlesAssumption, BudgetAssumption, NoClientAssumption, RedirectAssumption,
    NameAssumption

\* What TypeOK says of the calls of download.
CallTypeOK ==
  /\ phase \in [Calls -> {"new", "check", "sign", "fetch", "open", "ended"}]
  /\ document \in [Calls -> Documents]
  /\ overwrite \in [Calls -> BOOLEAN]
  /\ result \in [Calls -> {"none", "returned", "name", "exists", "failed",
                           "closed", "cancelled", "crashed"}]
  /\ file \in [Targets -> {"absent", "old", "torn", "other"} \cup Documents]
  /\ met \subseteq Meetings

LEMMA TypeParts == TypeOK <=> PoolTypeOK /\ TransferTypeOK /\ CallTypeOK
  BY DEF TypeOK, CallTypeOK

(***************************************************************************)
(* The client and its copies.                                              *)
(***************************************************************************)
LEMMA FreshPool ==
  /\ NewClient \in [Handles -> Client \cup {NoClient}]
  /\ FirstAsked \in [Handles -> [max : Nat, upload : Nat \cup {Unset}]]
  /\ \A h \in Handles : NewClient[h] # NoClient =>
       /\ NewClient[h].owns => h = Original
       /\ NewClient[h].max = FirstAsked[h].max
       /\ NewClient[h].upload = FirstAsked[h].upload
<1>1. Made \in Client
  BY DEF Made, Client
<1> QED
  BY <1>1 DEF NewClient, FirstAsked, Made

LEMMA CopyFacts ==
  ASSUME NEW c \in Client, NEW o \in Options
  PROVE  /\ CopyWith(c, o) \in Client
         /\ ~CopyWith(c, o).owns
         /\ CopyWith(c, o).max = Given(o.max, c.max)
         /\ CopyWith(c, o).upload = Given(o.upload, c.upload)
         /\ Given(o.max, c.max) \in Nat /\ Given(o.upload, c.upload) \in Nat \cup {Unset}
  BY DEF CopyWith, Client, Given, Unset

\* Copies and closes keep the invariant of the pools, and no close is undone.
LEMMA PoolStep ==
  ASSUME PoolTypeOK, PoolInv, PoolNext
  PROVE  PoolTypeOK' /\ PoolInv' /\ (closed => closed')
<1>1. ASSUME NEW h \in Handles, NEW n \in Handles, NEW o \in Options, WithOptions(h, n, o)
      PROVE  PoolTypeOK' /\ PoolInv' /\ (closed => closed')
  <2>1. client[h] \in Client
    BY <1>1 DEF PoolTypeOK, WithOptions
  <2> DEFINE copy == CopyWith(client[h], o)
             ask == [max |-> Given(o.max, asked[h].max),
                     upload |-> Given(o.upload, asked[h].upload)]
  <2>2. copy \in Client /\ ~copy.owns /\ copy.max = ask.max /\ copy.upload = ask.upload
        /\ ask \in [max : Nat, upload : Nat \cup {Unset}]
    BY <1>1, <2>1, CopyFacts DEF PoolInv, WithOptions
  <2>3. /\ client' = [client EXCEPT ![n] = copy] /\ asked' = [asked EXCEPT ![n] = ask]
        /\ UNCHANGED <<open, closed>>
    BY <1>1 DEF WithOptions
  <2> HIDE DEF copy, ask
  <2>4. PoolTypeOK'
    BY <2>2, <2>3 DEF PoolTypeOK
  <2>5. PoolInv'
    BY <2>2, <2>3 DEF PoolTypeOK, PoolInv
  <2> QED
    BY <2>3, <2>4, <2>5
<1>2. ASSUME NEW h \in Handles, Close(h)
      PROVE  PoolTypeOK' /\ PoolInv' /\ (closed => closed')
  BY <1>2 DEF Close, PoolTypeOK, PoolInv, Pools
<1>3. CASE CloseUploads
  BY <1>3 DEF CloseUploads, PoolTypeOK, PoolInv, Pools
<1> QED
  BY <1>1, <1>2, <1>3 DEF PoolNext

\* The budget of a handle's transfers is the one that was asked for.
LEMMA BudgetFacts ==
  ASSUME PoolTypeOK, PoolInv, NEW h \in Handles, client[h] # NoClient
  PROVE  UploadRetryBudget(client[h]) = BudgetAsked(h) /\ BudgetAsked(h) \in Nat
<1>1. client[h] \in Client /\ asked[h] \in [max : Nat, upload : Nat \cup {Unset}]
  BY DEF PoolTypeOK
<1> QED
  BY <1>1 DEF PoolInv, UploadRetryBudget, BudgetAsked, Client, Unset

(***************************************************************************)
(* Transfers.                                                              *)
(***************************************************************************)

\* A transfer that has ended stays as it ended.
Final ==
  /\ puts' = puts
  /\ \A t \in Transfers : pc[t] = "done" => pc'[t] = "done" /\ outcome'[t] = outcome[t]

TransferOK == TransferTypeOK /\ TransferInv

LEMMA SendInv ==
  ASSUME TransferOK, PoolInv, NEW t \in Transfers, Send(t), UNCHANGED <<poolVars, phase>>
  PROVE  TransferOK' /\ Final
<1>1. CASE "upload" \in open
  <2>1. [transfer |-> t, try |-> tries[t] + 1] \in Request
    BY DEF TransferOK, TransferTypeOK, Request
  <2>2. TransferTypeOK'
    BY <1>1, <2>1 DEF TransferOK, TransferTypeOK, TransferInv, Send, End
  <2>3. TransferInv' /\ Final
    BY <1>1 DEF TransferOK, TransferTypeOK, TransferInv, Send, End, Final, poolVars
  <2> QED
    BY <2>2, <2>3 DEF TransferOK
<1>2. CASE "upload" \notin open
  <2>1. closed
    BY <1>2 DEF PoolInv, Pools
  <2>2. TransferTypeOK'
    BY <1>2 DEF TransferOK, TransferTypeOK, TransferInv, Send, End
  <2>3. TransferInv' /\ Final
    BY <1>2, <2>1 DEF TransferOK, TransferTypeOK, TransferInv, Send, End, Final, poolVars
  <2> QED
    BY <2>2, <2>3 DEF TransferOK
<1> QED
  BY <1>1, <1>2

LEMMA ErrorInv ==
  ASSUME TransferOK, NEW t \in Transfers, TransportError(t) \/ OtherError(t),
         UNCHANGED <<poolVars, phase>>
  PROVE  TransferOK' /\ Final
<1>1. network' \subseteq network
  BY DEF TransportError, OtherError, GivenUp
<1>2. TransferTypeOK'
  BY <1>1 DEF TransferOK, TransferTypeOK, TransferInv, TransportError, OtherError, End, Again,
     Retries
<1>3. TransferInv' /\ Final
  BY DEF TransferOK, TransferTypeOK, TransferInv, TransportError, OtherError, End, Again,
     Retries, Final, poolVars
<1> QED
  BY <1>2, <1>3 DEF TransferOK

\* A response: bytes that are reported as moved have been.
LEMMA ReceiveInv ==
  ASSUME TransferOK, NEW t \in Transfers,
         NEW status \in {"ok", "denied", "transient", "redirect"}, Receive(t, status),
         status = "redirect" => MayRedirect, status = "ok" /\ t \in puts => t \in stored',
         stored \subseteq stored', stored' \subseteq puts, network' \subseteq network,
         UNCHANGED <<poolVars, phase>>
  PROVE  TransferOK' /\ Final
<1>1. TransferTypeOK'
  BY DEF TransferOK, TransferTypeOK, TransferInv, Receive, End, Again, Retries, IsError
<1>2. Final
  BY DEF TransferOK, TransferTypeOK, Receive, End, Again, Final
<1>3. TransferInv'
  <2>1. CASE Retries(t, status)
    BY <2>1 DEF TransferOK, TransferTypeOK, TransferInv, Receive, Again, Retries, poolVars
  <2>2. CASE ~Retries(t, status) /\ IsError(status)
    BY <2>2 DEF TransferOK, TransferTypeOK, TransferInv, Receive, End, Retries, IsError,
       poolVars
  <2>3. CASE ~Retries(t, status) /\ ~IsError(status)
    BY <2>3 DEF TransferOK, TransferTypeOK, TransferInv, Receive, End, Retries, IsError,
       poolVars
  <2> QED
    BY <2>1, <2>2, <2>3
<1> QED
  BY <1>1, <1>2, <1>3 DEF TransferOK

LEMMA ArriveInv ==
  ASSUME TransferOK, NEW m \in network, Arrive(m), UNCHANGED <<poolVars, phase>>
  PROVE  TransferOK' /\ Final
<1>1. m.transfer \in Transfers
  BY DEF TransferOK, TransferTypeOK, Request
<1>2. /\ stored \subseteq stored' /\ stored' \subseteq puts /\ network' \subseteq network
  BY DEF TransferOK, TransferTypeOK, Arrive, Serve, Evade
<1>3. ASSUME UNCHANGED <<pc, puts, budget, attempt, tries, outcome, body, most>>
      PROVE  TransferOK' /\ Final
  BY <1>2, <1>3 DEF TransferOK, TransferTypeOK, TransferInv, Final, poolVars
<1>4. CASE Serve(m)
  <2>1. m.transfer \in puts => m.transfer \in stored'
    BY <1>4 DEF Serve
  <2> QED
    BY <1>1, <1>2, <1>3, <1>4, <2>1, ReceiveInv DEF Serve, Respond
<1>5. CASE Evade(m)
  BY <1>1, <1>2, <1>3, <1>5, ReceiveInv DEF Evade, Respond
<1> QED
  BY <1>4, <1>5 DEF Arrive

LEMMA TransferStep ==
  ASSUME TransferOK, PoolInv, TransferNext, UNCHANGED <<poolVars, phase>>
  PROVE  TransferOK' /\ Final
  BY SendInv, ErrorInv, ArriveInv DEF TransferNext, ClientStep

(***************************************************************************)
(* Calls of download.                                                      *)
(***************************************************************************)

\* What the invariant says of the calls.
CallOK == CallTypeOK /\ PhaseInv /\ MetInv /\ KeptInv

Kept == ~MayRedirect => DownloadIsKept

LEMMA Parts ==
  IInv <=> PoolTypeOK /\ PoolInv /\ TransferOK /\ CallOK /\ Kept
  BY TypeParts DEF IInv, TransferOK, CallOK, Kept

\* The relations between calls change only when one begins.
LEMMA SameCalls ==
  ASSUME UNCHANGED <<document, overwrite, met>>
  PROVE  /\ \A c \in Calls : Target(c)' = Target(c)
         /\ \A c, d \in Calls : MaySpoil(d, c)' = MaySpoil(d, c)
  BY DEF Target, MaySpoil

LEMMA OtherStep ==
  ASSUME CallOK, Kept, Final, UNCHANGED <<callVars, file>>
  PROVE  CallOK' /\ Kept'
<1>1. CallTypeOK'
  BY DEF CallOK, CallTypeOK, callVars
<1>2. PhaseInv'
  BY SameCalls DEF CallOK, PhaseInv, Place, callVars, Final, Calls
<1>3. MetInv'
  BY SameCalls DEF CallOK, MetInv, callVars
<1>4. KeptInv'
  BY SameCalls DEF CallOK, KeptInv, callVars
<1>5. Kept'
  BY SameCalls DEF Kept, DownloadIsKept, callVars
<1> QED
  BY <1>1, <1>2, <1>3, <1>4, <1>5 DEF CallOK

LEMMA SameTransfers ==
  ASSUME TransferOK, UNCHANGED <<transferVars, closed>>,
         \A t \in Transfers : phase'[t] = "new" <=> phase[t] = "new"
  PROVE  TransferOK'
  BY DEF TransferOK, TransferTypeOK, TransferInv, transferVars

\* A call that is under way moves on, or ends.
LEMMA AdvanceMet ==
  ASSUME CallOK, NEW c \in Calls, phase[c] \notin {"new", "ended"}, NEW to,
         to # "new", phase' = [phase EXCEPT ![c] = to],
         UNCHANGED <<document, overwrite, met>>
  PROVE  MetInv'
  BY DEF CallOK, CallTypeOK, MetInv

\* It ends without having written, for its caller as `how`.
LEMMA EndInv ==
  ASSUME IInv, NEW c \in Calls, phase[c] \notin {"new", "ended"},
         NEW how \in {"name", "exists", "failed", "closed"}, EndCall(c, how),
         UNCHANGED <<poolVars, transferVars, file>>
  PROVE  IInv'
<1>1. /\ PoolTypeOK /\ PoolInv /\ TransferOK /\ CallOK /\ Kept
  BY Parts
<1>2. PoolTypeOK' /\ PoolInv'
  BY <1>1 DEF PoolTypeOK, PoolInv, poolVars
<1>3. TransferOK'
  BY <1>1, SameTransfers DEF EndCall, poolVars, CallOK, CallTypeOK, Calls
<1>4. /\ UNCHANGED <<document, overwrite, met>>
      /\ phase' = [phase EXCEPT ![c] = "ended"]
      /\ \A d \in Calls : result'[d] = "returned" => result[d] = "returned"
  BY <1>1 DEF EndCall, CallOK, CallTypeOK
<1>5. CallTypeOK'
  BY <1>1 DEF EndCall, CallOK, CallTypeOK
<1>6. PhaseInv'
  <2> SUFFICES ASSUME NEW d \in Calls PROVE Place(d)'
    BY DEF PhaseInv
  <2>1. Target(d)' = Target(d) /\ Place(d) /\ UNCHANGED <<file, pc, puts, outcome>>
    BY <1>1, <1>4, SameCalls DEF CallOK, PhaseInv, transferVars
  <2>2. phase'[d] = IF d = c THEN "ended" ELSE phase[d]
    BY <1>1, <1>4 DEF CallOK, CallTypeOK
  <2> QED
    BY <1>4, <2>1, <2>2 DEF Place
<1>7. MetInv'
  BY <1>1, <1>4, AdvanceMet
<1>8. KeptInv'
  BY <1>1, <1>4, SameCalls DEF CallOK, CallTypeOK, KeptInv
<1>9. Kept'
  BY <1>1, <1>4, SameCalls DEF Kept, DownloadIsKept
<1> QED
  BY <1>2, <1>3, <1>5, <1>6, <1>7, <1>8, <1>9 DEF IInv, TypeOK, CallTypeOK,
     CallOK, TransferOK, Kept

\* The file is free, or the call may overwrite it.  If another call has written
\* it, it may be spoilt.
LEMMA CheckInv ==
  ASSUME IInv, NEW c \in Calls, Check(c)
  PROVE  IInv'
<1>1. /\ PoolTypeOK /\ PoolInv /\ TransferOK /\ CallOK /\ Kept
  BY Parts
<1>2. CASE ~(Target(c) \notin Refused /\ ~Blocked(c))
  BY <1>2, EndInv DEF Check
<1>3. CASE Target(c) \notin Refused /\ ~Blocked(c)
  <2>1. /\ UNCHANGED <<document, overwrite, met, result, file, poolVars, transferVars>>
        /\ phase[c] = "check" /\ phase' = [phase EXCEPT ![c] = "sign"]
    BY <1>3 DEF Check, Move
  <2>2. PoolTypeOK' /\ PoolInv'
    BY <1>1, <2>1 DEF PoolTypeOK, PoolInv, poolVars
  <2>3. TransferOK'
    BY <1>1, <2>1, SameTransfers DEF poolVars, CallOK, CallTypeOK, Calls
  <2>4. CallTypeOK'
    BY <1>1, <2>1 DEF CallOK, CallTypeOK
  <2>5. PhaseInv'
    <3> SUFFICES ASSUME NEW d \in Calls PROVE Place(d)'
      BY DEF PhaseInv
    <3>1. Target(d)' = Target(d) /\ Place(d) /\ UNCHANGED <<file, pc, puts, outcome>>
      BY <1>1, <2>1, SameCalls DEF CallOK, PhaseInv, transferVars
    <3>2. phase'[d] = IF d = c THEN "sign" ELSE phase[d]
      BY <1>1, <2>1 DEF CallOK, CallTypeOK
    <3>3. Target(c) \in Targets
      BY <1>1, <1>3 DEF CallOK, CallTypeOK, Target, Targets
    <3> QED
      BY <1>3, <2>1, <3>1, <3>2, <3>3 DEF Place
  <2>6. MetInv'
    BY <1>1, <2>1, AdvanceMet
  <2>7. ASSUME NEW d \in Calls, phase[d] = "open" \/ result[d] = "returned",
               Target(c) = Target(d)
        PROVE  overwrite[c]
    <3>1. file[Target(c)] # "absent"
      BY <1>1, <2>7 DEF CallOK, PhaseInv, Place
    <3> QED
      BY <1>3, <3>1 DEF Blocked
  <2>8. KeptInv'
    BY <1>1, <2>1, <2>7, SameCalls DEF CallOK, CallTypeOK, KeptInv
  <2>9. Kept'
    BY <1>1, <2>1, SameCalls DEF Kept, DownloadIsKept
  <2> QED
    BY <2>2, <2>3, <2>4, <2>5, <2>6, <2>8, <2>9 DEF IInv, TypeOK, CallTypeOK,
     CallOK, TransferOK, Kept
<1> QED
  BY <1>2, <1>3

\* A transfer begins, and with it the call's fetch.
LEMMA BeginOK ==
  ASSUME TransferOK, NEW t \in Transfers, Begin(t), UNCHANGED <<puts, budget, most, closed>>,
         phase[t] # "new", \A u \in Transfers : phase'[u] = "new" <=> phase[u] = "new"
  PROVE  TransferOK'
  BY DEF Begin, TransferOK, TransferTypeOK, TransferInv

LEMMA SignedInv ==
  ASSUME IInv, NEW c \in Calls, Signed(c)
  PROVE  IInv'
<1>1. /\ PoolTypeOK /\ PoolInv /\ TransferOK /\ CallOK /\ Kept
  BY Parts
<1>2. /\ UNCHANGED <<document, overwrite, met, result, file, poolVars, puts, outcome>>
      /\ phase[c] = "sign" /\ phase' = [phase EXCEPT ![c] = "fetch"]
      /\ pc[c] = "idle" /\ pc' = [pc EXCEPT ![c] = "ready"]
  BY DEF Signed, Move, Begin
<1>3. PoolTypeOK' /\ PoolInv'
  BY <1>1, <1>2 DEF PoolTypeOK, PoolInv, poolVars
<1>4. TransferOK'
  BY <1>1, <1>2, BeginOK DEF Signed, poolVars, CallOK, CallTypeOK, Calls
<1>5. CallTypeOK'
  BY <1>1, <1>2 DEF CallOK, CallTypeOK
<1>6. PhaseInv'
  <2> SUFFICES ASSUME NEW d \in Calls PROVE Place(d)'
    BY DEF PhaseInv
  <2>1. Target(d)' = Target(d) /\ Place(d) /\ UNCHANGED <<file, puts, outcome>>
    BY <1>1, <1>2, SameCalls DEF CallOK, PhaseInv, transferVars
  <2>2. phase'[d] = IF d = c THEN "fetch" ELSE phase[d]
    BY <1>1, <1>2 DEF CallOK, CallTypeOK
  <2>3. d # c => pc'[d] = pc[d]
    BY <1>1, <1>2 DEF TransferOK, TransferTypeOK, Calls
  <2>4. Place(c)
    BY <1>1 DEF CallOK, PhaseInv
  <2> QED
    BY <1>2, <2>1, <2>2, <2>3, <2>4 DEF Place
<1>7. MetInv'
  BY <1>1, <1>2, AdvanceMet
<1>8. KeptInv'
  BY <1>1, <1>2, SameCalls DEF CallOK, CallTypeOK, KeptInv
<1>9. Kept'
  BY <1>1, <1>2, SameCalls DEF Kept, DownloadIsKept
<1> QED
  BY <1>3, <1>4, <1>5, <1>6, <1>7, <1>8, <1>9 DEF IInv, TypeOK, CallTypeOK,
     CallOK, TransferOK, Kept

\* What an opening adds to the history.
LEMMA MeetingFacts ==
  ASSUME NEW c \in Calls, phase[c] = "fetch", \A d \in Calls : result[d] = "returned" =>
           phase[d] = "ended"
  PROVE  /\ MeetingsOf(c) \subseteq Meetings
         /\ \A d, e \in Calls : \A how \in {"looked", "after", "mixed"} :
              <<d, e, how>> \in MeetingsOf(c) =>
                phase[d] # "new" /\ phase[e] # "new"
         /\ \A d \in Calls \ {c} : Target(d) = Target(c) =>
              /\ phase[d] \in {"sign", "fetch"} => <<d, c, "looked">> \in MeetingsOf(c)
              /\ phase[d] = "open" \/ result[d] = "returned" =>
                   <<c, d, "after">> \in MeetingsOf(c)
              /\ phase[d] = "open" => <<d, c, "mixed">> \in MeetingsOf(c)
<1> DEFINE others  == {d \in Calls \ {c} : Target(d) = Target(c)}
           looked  == {d \in others : phase[d] \in {"sign", "fetch"}}
           writing == {d \in others : phase[d] = "open"}
           written == {d \in others : result[d] = "returned"}
<1>1. MeetingsOf(c) =
        {<<d, c, "looked">> : d \in looked}
        \cup {<<c, d, "after">> : d \in writing \cup written}
        \cup {<<c, d, "mixed">> : d \in writing} \cup {<<d, c, "mixed">> : d \in writing}
  BY DEF MeetingsOf
<1>2. /\ looked \subseteq Calls /\ writing \subseteq Calls /\ written \subseteq Calls
      /\ \A d \in looked \cup writing \cup written : phase[d] # "new"
  OBVIOUS
<1>3. \A d \in Calls \ {c} : Target(d) = Target(c) =>
        /\ phase[d] \in {"sign", "fetch"} => d \in looked
        /\ phase[d] = "open" => d \in writing
        /\ result[d] = "returned" => d \in written
  OBVIOUS
<1> HIDE DEF looked, writing, written
<1>4. MeetingsOf(c) \subseteq Meetings
  BY <1>1, <1>2 DEF Meetings
<1>5. ASSUME NEW d \in Calls, NEW e \in Calls, NEW how \in {"looked", "after", "mixed"},
             <<d, e, how>> \in MeetingsOf(c)
      PROVE  phase[d] # "new" /\ phase[e] # "new"
  <2>1. {d, e} \subseteq {c} \cup looked \cup writing \cup written
    BY <1>1, <1>5
  <2> QED
    BY <1>2, <2>1
<1>6. ASSUME NEW d \in Calls \ {c}, Target(d) = Target(c)
      PROVE  /\ phase[d] \in {"sign", "fetch"} => <<d, c, "looked">> \in MeetingsOf(c)
             /\ phase[d] = "open" \/ result[d] = "returned" =>
                  <<c, d, "after">> \in MeetingsOf(c)
             /\ phase[d] = "open" => <<d, c, "mixed">> \in MeetingsOf(c)
  BY <1>1, <1>3, <1>6
<1> QED
  BY <1>4, <1>5, <1>6

\* The file is emptied: whoever has written it may be spoilt by this call.
LEMMA OpenInv ==
  ASSUME IInv, NEW c \in Calls, Open(c)
  PROVE  IInv'
<1>1. /\ PoolTypeOK /\ PoolInv /\ TransferOK /\ CallOK /\ Kept
  BY Parts
<1>2. /\ UNCHANGED <<document, overwrite, result, poolVars, transferVars>>
      /\ phase[c] = "fetch" /\ phase' = [phase EXCEPT ![c] = "open"]
      /\ pc[c] = "done" /\ outcome[c] = "returned"
      /\ file' = [file EXCEPT ![Target(c)] = "torn"]
      /\ met' = met \cup MeetingsOf(c)
  BY DEF Open
<1> DEFINE Written(d) == phase[d] = "open" \/ result[d] = "returned"
<1>20. /\ phase'[c] = "open" /\ Target(c) \in Targets
       /\ \A d \in Calls \ {c} : phase'[d] = phase[d]
       /\ \A d \in Calls : Target(d)' = Target(d)
  BY <1>1, <1>2 DEF CallOK, CallTypeOK, PhaseInv, Place, Target
<1>21. /\ MeetingsOf(c) \subseteq Meetings
       /\ \A d, e \in Calls : \A how \in {"looked", "after", "mixed"} :
            <<d, e, how>> \in MeetingsOf(c) => phase[d] # "new" /\ phase[e] # "new"
       /\ \A d \in Calls \ {c} : Target(d) = Target(c) =>
            /\ phase[d] \in {"sign", "fetch"} => <<d, c, "looked">> \in met'
            /\ Written(d) => <<c, d, "after">> \in met'
            /\ phase[d] = "open" => <<d, c, "mixed">> \in met'
  BY <1>1, <1>2, MeetingFacts DEF CallOK, PhaseInv, Place
<1>22. \A d, e \in Calls : MaySpoil(d, e) => MaySpoil(d, e)'
  BY <1>2 DEF MaySpoil
<1>23. \A d \in Calls \ {c} : Target(d) = Target(c) /\ Written(d) => MaySpoil(c, d)'
  <2> SUFFICES ASSUME NEW d \in Calls \ {c}, Target(d) = Target(c), Written(d)
               PROVE  MaySpoil(c, d)'
    OBVIOUS
  <2>1. overwrite[c] \/ <<c, d, "looked">> \in met
    BY <1>1, <1>2 DEF CallOK, KeptInv
  <2>2. <<c, d, "after">> \in met'
    BY <1>21
  <2> QED
    BY <1>2, <2>1, <2>2 DEF MaySpoil
<1>3. PoolTypeOK' /\ PoolInv'
  BY <1>1, <1>2 DEF PoolTypeOK, PoolInv, poolVars
<1>4. TransferOK'
  BY <1>1, <1>2, SameTransfers DEF poolVars, CallOK, CallTypeOK, Calls
<1>5. CallTypeOK'
  <2>1. file' \in [Targets -> {"absent", "old", "torn", "other"} \cup Documents]
    <3> DEFINE S == {"absent", "old", "torn", "other"} \cup Documents
    <3>1. file \in [Targets -> S] /\ "torn" \in S
      BY <1>1 DEF CallOK, CallTypeOK
    <3> HIDE DEF S
    <3>2. file' \in [Targets -> S]
      BY <1>2, <3>1
    <3> QED
      BY <3>2 DEF S
  <2>2. phase' \in [Calls -> {"new", "check", "sign", "fetch", "open", "ended"}]
    BY <1>1, <1>2 DEF CallOK, CallTypeOK
  <2>3. met' \subseteq Meetings
    BY <1>1, <1>2, <1>21 DEF CallOK, CallTypeOK
  <2> QED
    BY <1>1, <1>2, <2>1, <2>2, <2>3 DEF CallOK, CallTypeOK
<1>6. PhaseInv'
  <2> SUFFICES ASSUME NEW d \in Calls PROVE Place(d)'
    BY DEF PhaseInv
  <2>1. Place(d) /\ Place(c) /\ UNCHANGED <<pc, puts, outcome>>
    BY <1>1, <1>2 DEF CallOK, PhaseInv, transferVars
  <2>2. \A x \in Targets : file[x] # "absent" \/ x = Target(c) => file'[x] # "absent"
    BY <1>1, <1>2 DEF CallOK, CallTypeOK
  <2> QED
    BY <1>2, <1>20, <2>1, <2>2 DEF Place, Targets, Base
<1>7. MetInv'
  <2> SUFFICES ASSUME NEW d \in Calls, NEW e \in Calls,
                      NEW how \in {"looked", "after", "mixed"}, <<d, e, how>> \in met'
               PROVE  phase'[e] # "new" /\ phase'[d] # "new"
    BY DEF MetInv
  <2>1. phase[d] # "new" /\ phase[e] # "new"
    BY <1>1, <1>2, <1>21 DEF CallOK, MetInv
  <2> QED
    BY <1>20, <2>1
<1>8. KeptInv'
  <2> SUFFICES ASSUME NEW e \in Calls, NEW d \in Calls, e # d, Target(d) = Target(e),
                      Written(e)'
               PROVE  /\ phase'[d] \in {"sign", "fetch"} =>
                           overwrite[d] \/ <<d, e, "looked">> \in met'
                      /\ phase'[d] = "open" => MaySpoil(d, e)'
    BY <1>2, <1>20 DEF KeptInv
  <2>1. CASE e = c
    <3>1. phase'[d] = phase[d]
      BY <1>20, <2>1
    <3>2. phase[d] = "open" => MaySpoil(d, e)'
      BY <1>21, <2>1 DEF MaySpoil
    <3> QED
      BY <1>21, <2>1, <3>1, <3>2
  <2>2. CASE d = c
    BY <1>2, <1>20, <1>23, <2>2
  <2>3. CASE d # c /\ e # c
    BY <1>1, <1>2, <1>20, <1>22, <2>3 DEF CallOK, KeptInv
  <2> QED
    BY <2>1, <2>2, <2>3
<1>9. Kept'
  <2> SUFFICES ASSUME ~MayRedirect, NEW d \in Calls, result[d] = "returned"
               PROVE  \/ file'[Target(d)] = document[d]
                      \/ \E e \in Calls : MaySpoil(e, d)'
    BY <1>2, <1>20 DEF Kept, DownloadIsKept
  <2>1. d # c /\ Target(d) \in Targets
    BY <1>1, <1>2 DEF CallOK, PhaseInv, Place
  <2>2. CASE Target(d) = Target(c)
    BY <1>23, <2>1, <2>2
  <2>3. CASE Target(d) # Target(c)
    BY <1>1, <1>2, <1>22, <2>1, <2>3 DEF Kept, DownloadIsKept, CallOK, CallTypeOK
  <2> QED
    BY <2>2, <2>3
<1> QED
  BY <1>3, <1>4, <1>5, <1>6, <1>7, <1>8, <1>9 DEF IInv, TypeOK, CallTypeOK,
     CallOK, TransferOK, Kept

\* The bytes are the document's, unless they mix with those of a call that had the
\* file open with this one; and whoever has written it may be spoilt by this call.
LEMMA WriteInv ==
  ASSUME IInv, NEW c \in Calls, Write(c)
  PROVE  IInv'
<1>1. /\ PoolTypeOK /\ PoolInv /\ TransferOK /\ CallOK /\ Kept
  BY Parts
<1>2. PICK now \in {Bytes(c), "torn"} :
        /\ now = "torn" => \E d \in Calls : <<d, c, "mixed">> \in met
        /\ file' = [file EXCEPT ![Target(c)] = now]
  BY DEF Write
<1>3. /\ phase[c] = "open" /\ Place(c) /\ Target(c) \in Targets
      /\ phase' = [phase EXCEPT ![c] = "ended"]
      /\ result' = [result EXCEPT ![c] = IF @ = "none" THEN "returned" ELSE @]
      /\ UNCHANGED <<document, overwrite, met, poolVars, transferVars>>
  BY <1>1 DEF Write, EndCall, CallOK, CallTypeOK, PhaseInv, Place, Target, Targets
<1> DEFINE S == {"absent", "old", "torn", "other"} \cup Documents
<1>4. file \in [Targets -> S] /\ now \in S
  BY <1>1, <1>2 DEF CallOK, CallTypeOK, Bytes
<1>5. now # "absent"
  BY <1>1, <1>2, DocumentAssumption DEF CallOK, CallTypeOK, Bytes
<1>6. PoolTypeOK' /\ PoolInv'
  BY <1>1, <1>3 DEF PoolTypeOK, PoolInv, poolVars
<1>7. TransferOK'
  BY <1>1, <1>3, SameTransfers DEF poolVars, CallOK, CallTypeOK, Calls
<1>8. CallTypeOK'
  <2>1. file' \in [Targets -> S]
    <3> HIDE DEF S
    <3> QED BY <1>2, <1>4
  <2>2. phase' \in [Calls -> {"new", "check", "sign", "fetch", "open", "ended"}]
    BY <1>1, <1>3 DEF CallOK, CallTypeOK
  <2>3. result' \in [Calls -> {"none", "returned", "name", "exists", "failed",
                              "closed", "cancelled", "crashed"}]
    BY <1>1, <1>3 DEF CallOK, CallTypeOK
  <2> QED
    BY <1>1, <1>3, <2>1, <2>2, <2>3 DEF CallOK, CallTypeOK
<1>9. \A d \in Calls \ {c} : phase'[d] = phase[d] /\ result'[d] = result[d]
  BY <1>1, <1>3 DEF CallOK, CallTypeOK
<1>10. phase'[c] = "ended" /\ file'[Target(c)] = now
  BY <1>1, <1>2, <1>3, <1>4 DEF CallOK, CallTypeOK
<1>11. PhaseInv'
  <2> SUFFICES ASSUME NEW d \in Calls PROVE Place(d)'
    BY DEF PhaseInv
  <2>1. Target(d)' = Target(d) /\ Place(d) /\ UNCHANGED <<pc, puts, outcome>>
    BY <1>1, <1>3, SameCalls DEF CallOK, PhaseInv, transferVars
  <2>2. CASE d = c
    BY <1>3, <1>5, <1>10, <2>1, <2>2 DEF Place
  <2>3. CASE d # c
    <3>1. \A x \in Targets : file[x] # "absent" => file'[x] # "absent"
      BY <1>2, <1>4, <1>5
    <3> QED
      BY <1>9, <2>1, <2>3, <3>1 DEF Place
  <2> QED
    BY <2>2, <2>3
<1>12. MetInv'
  BY <1>1, <1>3, AdvanceMet
<1>13. KeptInv'
  <2> SUFFICES ASSUME NEW e \in Calls, NEW d \in Calls, e # d, Target(d) = Target(e),
                      phase'[e] = "open" \/ result'[e] = "returned"
               PROVE  /\ phase'[d] \in {"sign", "fetch"} =>
                           overwrite[d] \/ <<d, e, "looked">> \in met
                      /\ phase'[d] = "open" => MaySpoil(d, e)
    BY <1>3, SameCalls DEF KeptInv
  <2>1. phase[e] = "open" \/ result[e] = "returned"
    BY <1>3, <1>9
  <2>2. phase'[d] \in {"sign", "fetch", "open"} => phase[d] = phase'[d]
    BY <1>9, <1>10
  <2> QED
    BY <1>1, <2>1, <2>2 DEF CallOK, KeptInv
<1>14. Kept'
  <2> SUFFICES ASSUME ~MayRedirect, NEW d \in Calls, result'[d] = "returned"
               PROVE  file'[Target(d)] = document[d] \/ \E e \in Calls : MaySpoil(e, d)
    BY <1>3, SameCalls DEF Kept, DownloadIsKept
  <2>1. CASE d = c
    <3>1. body[c] = "file"
      BY <1>1, <1>3 DEF TransferOK, TransferInv, Place, Calls
    <3>2. CASE now = Bytes(c)
      BY <1>10, <2>1, <3>1, <3>2 DEF Bytes
    <3>3. CASE now # Bytes(c)
      <4>1. PICK e \in Calls : <<e, c, "mixed">> \in met
        BY <1>2, <3>3
      <4> QED
        BY <2>1, <4>1 DEF MaySpoil
    <3> QED
      BY <3>2, <3>3
  <2>2. CASE d # c /\ Target(d) = Target(c)
    BY <1>1, <1>3, <1>9, <2>2 DEF CallOK, KeptInv
  <2>3. CASE d # c /\ Target(d) # Target(c)
    BY <1>1, <1>2, <1>4, <1>9, <2>3 DEF Kept, DownloadIsKept
  <2> QED
    BY <2>1, <2>2, <2>3
<1> QED
  BY <1>6, <1>7, <1>8, <1>11, <1>12, <1>13, <1>14 DEF IInv, TypeOK, CallTypeOK, CallOK,
     TransferOK, Kept

LEMMA CancelInv ==
  ASSUME IInv, NEW c \in Calls, Cancel(c)
  PROVE  IInv'
<1>1. /\ PoolTypeOK /\ PoolInv /\ TransferOK /\ CallOK /\ Kept
  BY Parts
<1>2. /\ UNCHANGED <<poolVars, transferVars, phase, document, overwrite, met, file>>
      /\ \A d \in Calls : result'[d] = "returned" => result[d] = "returned"
  BY <1>1 DEF Cancel, CallOK, CallTypeOK
<1>3. PoolTypeOK' /\ PoolInv'
  BY <1>1, <1>2 DEF PoolTypeOK, PoolInv, poolVars
<1>4. TransferOK'
  BY <1>1, <1>2, SameTransfers DEF poolVars
<1>5. CallTypeOK'
  BY <1>1 DEF Cancel, CallOK, CallTypeOK
<1>6. PhaseInv'
  BY <1>1, <1>2, SameCalls DEF CallOK, PhaseInv, Place, transferVars
<1>7. MetInv'
  BY <1>1, <1>2, SameCalls DEF CallOK, MetInv
<1>8. KeptInv'
  BY <1>1, <1>2, SameCalls DEF CallOK, KeptInv
<1>9. Kept'
  BY <1>1, <1>2, SameCalls DEF Kept, DownloadIsKept
<1> QED
  BY <1>3, <1>4, <1>5, <1>6, <1>7, <1>8, <1>9 DEF IInv, TypeOK, CallTypeOK, CallOK,
     TransferOK, Kept

\* A call gets the budget that its client was asked for.
LEMMA BindOK ==
  ASSUME TransferOK, PoolTypeOK, PoolInv, NEW t \in Transfers, NEW h \in Handles,
         pc[t] = "idle", phase[t] = "new", Bind(t, h),
         \A u \in Transfers \ {t} : phase'[u] = phase[u],
         \/ /\ phase'[t] # "new"
            /\ UNCHANGED <<pc, puts, attempt, tries, outcome, network, stored, body>>
         \/ Begin(t) /\ puts' = puts \cup {t} /\ phase' = phase,
         closed' = closed
  PROVE  TransferOK'
<1>1. /\ UploadRetryBudget(client[h]) = BudgetAsked(h) /\ BudgetAsked(h) \in Nat
  BY BudgetFacts DEF Bind
<1>2. /\ budget' = [budget EXCEPT ![t] = BudgetAsked(h)]
      /\ most' = [most EXCEPT ![t] = BudgetAsked(h) + 1]
  BY <1>1 DEF Bind
<1>3. TransferTypeOK'
  BY <1>1, <1>2 DEF TransferOK, TransferTypeOK, TransferInv, Begin
<1>4. TransferInv'
  BY <1>1, <1>2 DEF TransferOK, TransferTypeOK, TransferInv, Begin
<1> QED
  BY <1>3, <1>4 DEF TransferOK

\* A call that begins has met nobody.
LEMMA DownloadInv ==
  ASSUME IInv, NEW c \in Calls, NEW h \in Handles, NEW doc \in Documents,
         NEW over \in BOOLEAN, Download(c, h, doc, over)
  PROVE  IInv'
<1>1. /\ PoolTypeOK /\ PoolInv /\ TransferOK /\ CallOK /\ Kept
  BY Parts
<1>2. /\ phase[c] = "new" /\ pc[c] = "idle" /\ Bind(c, h)
      /\ phase' = [phase EXCEPT ![c] = "check"]
      /\ document' = [document EXCEPT ![c] = doc]
      /\ overwrite' = [overwrite EXCEPT ![c] = over]
      /\ UNCHANGED <<poolVars, pc, puts, attempt, tries, outcome, network, stored, body,
                     result, met, file>>
  BY DEF Download
<1>3. PoolTypeOK' /\ PoolInv'
  BY <1>1, <1>2 DEF PoolTypeOK, PoolInv, poolVars
<1>4. phase'[c] = "check" /\ \A d \in Calls \ {c} : phase'[d] = phase[d]
  BY <1>1, <1>2 DEF CallOK, CallTypeOK
<1>5. TransferOK'
  BY <1>1, <1>2, <1>4, BindOK DEF poolVars, Calls
<1>7. CallTypeOK'
  <2>1. /\ phase' \in [Calls -> {"new", "check", "sign", "fetch", "open", "ended"}]
        /\ document' \in [Calls -> Documents] /\ overwrite' \in [Calls -> BOOLEAN]
    BY <1>1, <1>2 DEF CallOK, CallTypeOK
  <2>2. /\ result' \in [Calls -> {"none", "returned", "name", "exists", "failed",
                                 "closed", "cancelled", "crashed"}]
        /\ file' \in [Targets -> {"absent", "old", "torn", "other"} \cup Documents]
        /\ met' \subseteq Meetings
    BY <1>1, <1>2 DEF CallOK, CallTypeOK
  <2> QED
    BY <2>1, <2>2 DEF CallTypeOK
<1>11. \A d \in Calls \ {c} :
         Target(d)' = Target(d) /\ overwrite'[d] = overwrite[d] /\ document'[d] = document[d]
  BY <1>1, <1>2 DEF Target, CallOK, CallTypeOK
<1>12. \A d, e \in Calls : MaySpoil(d, e) => d # c /\ MaySpoil(d, e)'
  BY <1>1, <1>2, <1>11 DEF MaySpoil, CallOK, MetInv
<1>14. \A d \in Calls : result'[d] = "returned" => d # c /\ result[d] = "returned"
  BY <1>1, <1>2 DEF CallOK, PhaseInv, Place
<1>15. PhaseInv'
  <2> SUFFICES ASSUME NEW d \in Calls PROVE Place(d)'
    BY DEF PhaseInv
  <2>1. Place(d) /\ UNCHANGED <<pc, puts, outcome, file, result>>
    BY <1>1, <1>2 DEF CallOK, PhaseInv
  <2>2. c \notin puts
    BY <1>1, <1>2 DEF TransferOK, TransferInv, Calls
  <2> QED
    BY <1>4, <1>11, <1>14, <2>1, <2>2 DEF Place
<1>16. MetInv'
  BY <1>1, <1>2, <1>4 DEF CallOK, MetInv
<1>17. KeptInv'
  <2> SUFFICES ASSUME NEW e \in Calls, NEW d \in Calls, e # d, Target(d)' = Target(e)',
                      phase'[e] = "open" \/ result'[e] = "returned"
               PROVE  /\ phase'[d] \in {"sign", "fetch"} =>
                           overwrite'[d] \/ <<d, e, "looked">> \in met'
                      /\ phase'[d] = "open" => MaySpoil(d, e)'
    BY DEF KeptInv
  <2>1. e # c /\ (phase[e] = "open" \/ result[e] = "returned")
    BY <1>4, <1>14
  <2>2. phase'[d] \in {"sign", "fetch", "open"} => d # c /\ phase[d] = phase'[d]
    BY <1>4
  <2> QED
    BY <1>1, <1>2, <1>11, <1>12, <2>1, <2>2 DEF CallOK, KeptInv
<1>18. Kept'
  <2> SUFFICES ASSUME ~MayRedirect, NEW d \in Calls, result'[d] = "returned"
               PROVE  \/ file'[Target(d)'] = document'[d]
                      \/ \E e \in Calls : MaySpoil(e, d)'
    BY DEF Kept, DownloadIsKept
  <2>1. d # c /\ result[d] = "returned"
    BY <1>14
  <2>2. CASE file[Target(d)] = document[d]
    BY <1>2, <1>11, <2>1, <2>2
  <2>3. CASE \E e \in Calls : MaySpoil(e, d)
    BY <1>12, <2>3
  <2> QED
    BY <1>1, <2>1, <2>2, <2>3 DEF Kept, DownloadIsKept
<1> QED
  BY <1>3, <1>5, <1>7, <1>15, <1>16, <1>17, <1>18 DEF IInv, TypeOK, CallTypeOK, CallOK,
     TransferOK, Kept

LEMMA UploadInv ==
  ASSUME IInv, NEW t \in Calls, NEW h \in Handles, Upload(t, h)
  PROVE  IInv'
<1>1. /\ PoolTypeOK /\ PoolInv /\ TransferOK /\ CallOK /\ Kept
  BY Parts
<1>2. /\ phase[t] = "new" /\ pc[t] = "idle" /\ puts' = puts \cup {t}
      /\ pc' = [pc EXCEPT ![t] = "ready"]
      /\ UNCHANGED <<poolVars, callVars, file, outcome>>
  BY DEF Upload, Begin
<1>3. PoolTypeOK' /\ PoolInv'
  BY <1>1, <1>2 DEF PoolTypeOK, PoolInv, poolVars
<1>4. TransferOK'
  BY <1>1, <1>2, BindOK DEF Upload, poolVars, callVars, Calls
<1>5. PhaseInv'
  <2> SUFFICES ASSUME NEW d \in Calls PROVE Place(d)'
    BY DEF PhaseInv
  <2>1. Target(d)' = Target(d) /\ Place(d) /\ UNCHANGED <<phase, outcome, file, result>>
    BY <1>1, <1>2, SameCalls DEF CallOK, PhaseInv, callVars
  <2>2. d # t => pc'[d] = pc[d]
    BY <1>1, <1>2 DEF TransferOK, TransferTypeOK, Calls
  <2> QED
    BY <1>2, <2>1, <2>2 DEF Place
<1>6. CallTypeOK' /\ MetInv' /\ KeptInv' /\ Kept'
  BY <1>1, <1>2, SameCalls DEF CallOK, CallTypeOK, MetInv, KeptInv, Kept, DownloadIsKept,
     callVars
<1> QED
  BY <1>3, <1>4, <1>5, <1>6 DEF IInv, TypeOK, CallTypeOK, CallOK, TransferOK, Kept

\* What a crash leaves: ended calls, and their files.
LEMMA CrashInv ==
  ASSUME IInv, Crash
  PROVE  IInv'
<1>1. /\ PoolTypeOK /\ PoolInv /\ TransferOK /\ CallOK /\ Kept
  BY Parts
<1>2. PoolTypeOK' /\ PoolInv' /\ closed' = closed
  BY <1>1, FreshPool DEF Crash, PoolRestart, PoolTypeOK, PoolInv, Pools
<1>3. \A c \in Calls : /\ phase'[c] = IF phase[c] = "new" THEN "new" ELSE "ended"
                       /\ result'[c] = "returned" => result[c] = "returned"
  BY <1>1 DEF Crash, UnderWay, CallOK, CallTypeOK
<1>4. TransferOK' /\ Final
  <2>1. TransferCrash /\ \A t \in Transfers : phase'[t] = "new" <=> phase[t] = "new"
    BY <1>3 DEF Crash, Calls
  <2>2. TransferTypeOK'
    BY <1>1, <2>1 DEF TransferOK, TransferTypeOK, TransferCrash
  <2>3. TransferInv' /\ Final
    BY <1>1, <1>2, <2>1 DEF TransferOK, TransferTypeOK, TransferInv, TransferCrash, Final
  <2> QED
    BY <2>2, <2>3 DEF TransferOK
<1>5. UNCHANGED <<document, overwrite, met, file>>
  BY DEF Crash
<1>6. CallTypeOK'
  BY <1>1, <1>5 DEF Crash, CallOK, CallTypeOK
<1>7. PhaseInv'
  BY <1>1, <1>3, <1>4, <1>5, SameCalls DEF CallOK, PhaseInv, Place, Final
<1>8. MetInv'
  BY <1>1, <1>3, <1>5, SameCalls DEF CallOK, MetInv
<1>9. KeptInv'
  BY <1>1, <1>3, <1>5, SameCalls DEF CallOK, KeptInv
<1>10. Kept'
  BY <1>1, <1>3, <1>5, SameCalls DEF Kept, DownloadIsKept
<1> QED
  BY <1>2, <1>4, <1>6, <1>7, <1>8, <1>9, <1>10 DEF IInv, TypeOK, CallTypeOK, CallOK,
     TransferOK, Kept

(***************************************************************************)
(* All steps together.                                                     *)
(***************************************************************************)
LEMMA InitInv == Init => IInv
<1> SUFFICES ASSUME Init PROVE IInv
  OBVIOUS
<1>1. PoolTypeOK /\ PoolInv
  BY FreshPool DEF Init, PoolInit, PoolTypeOK, PoolInv, Pools
<1>2. TransferOK
  BY DEF Init, TransferInit, TransferOK, TransferTypeOK, TransferInv, Calls
<1>3. CallTypeOK
  BY DocumentAssumption DEF Init, CallTypeOK
<1>4. PhaseInv /\ MetInv /\ KeptInv /\ Kept
  BY DEF Init, TransferInit, PhaseInv, Place, MetInv, KeptInv, Kept, DownloadIsKept
<1> QED
  BY <1>1, <1>2, <1>3, <1>4, Parts DEF CallOK

LEMMA CallStepInv ==
  ASSUME IInv, NEW c \in Calls, DownloadStep(c)
  PROVE  IInv'
<1>1. CASE ApiFails(c)
  BY <1>1, EndInv DEF ApiFails
<1>2. CASE FetchFails(c)
  BY <1>2, EndInv DEF FetchFails
<1>3. CASE WriteFails(c)
  BY <1>3, EndInv DEF WriteFails
<1>4. CASE OpenFails(c)
  BY <1>4, EndInv DEF OpenFails
<1> QED
  BY <1>1, <1>2, <1>3, <1>4, DownloadInv, CheckInv, SignedInv, OpenInv, WriteInv, CancelInv
     DEF DownloadStep

LEMMA NextInv == IInv /\ [Next]_vars => IInv'
<1> SUFFICES ASSUME IInv, [Next]_vars PROVE IInv'
  OBVIOUS
<1>1. /\ PoolTypeOK /\ PoolInv /\ TransferOK /\ CallOK /\ Kept
  BY Parts
<1>2. CASE PoolNext /\ UNCHANGED <<transferVars, callVars, file>>
  <2>1. PoolTypeOK' /\ PoolInv' /\ (closed => closed')
    BY <1>1, <1>2, PoolStep
  <2>2. TransferOK' /\ Final
    BY <1>1, <1>2, <2>1 DEF TransferOK, TransferTypeOK, TransferInv, transferVars, callVars,
       Final
  <2>3. CallOK' /\ Kept'
    BY <1>1, <1>2, <2>2, OtherStep
  <2> QED
    BY <2>1, <2>2, <2>3 DEF IInv, TypeOK, CallTypeOK, CallOK, TransferOK, Kept
<1>3. CASE TransferNext /\ UNCHANGED <<poolVars, callVars, file>>
  <2>1. PoolTypeOK' /\ PoolInv'
    BY <1>1, <1>3 DEF PoolTypeOK, PoolInv, poolVars
  <2>2. TransferOK' /\ Final
    BY <1>1, <1>3, TransferStep DEF callVars
  <2>3. CallOK' /\ Kept'
    BY <1>1, <1>3, <2>2, OtherStep
  <2> QED
    BY <2>1, <2>2, <2>3 DEF IInv, TypeOK, CallTypeOK, CallOK, TransferOK, Kept
<1>4. CASE UNCHANGED vars
  <2>1. UNCHANGED <<poolVars, transferVars, callVars, file>>
    BY <1>4 DEF vars
  <2>2. PoolTypeOK' /\ PoolInv' /\ TransferOK' /\ Final
    BY <1>1, <2>1 DEF PoolTypeOK, PoolInv, poolVars, TransferOK, TransferTypeOK, TransferInv,
       transferVars, callVars, Final
  <2>3. CallOK' /\ Kept'
    BY <1>1, <2>1, <2>2, OtherStep
  <2> QED
    BY <2>2, <2>3 DEF IInv, TypeOK, CallTypeOK, CallOK, TransferOK, Kept
<1> QED
  BY <1>2, <1>3, <1>4, CallStepInv, UploadInv, CrashInv DEF Next, Finished

LEMMA Inductive == Spec => []IInv
  BY InitInv, NextInv, PTL DEF Spec

(***************************************************************************)
(* Theorems.                                                               *)
(***************************************************************************)

\* The model of downloads keeps its types.
THEOREM TypeCorrect == Spec => []TypeOK
<1>1. IInv => TypeOK
  BY DEF IInv
<1> QED
  BY <1>1, Inductive, PTL

\* put_presigned and get_presigned return only after the bytes have moved, if
\* the storage does not redirect.
THEOREM ReturnMeansMovedHolds ==
  ASSUME ~MayRedirect
  PROVE  Spec => []ReturnMeansMoved
<1>1. IInv => ReturnMeansMoved
  BY DEF IInv, TransferInv, ReturnMeansMoved
<1> QED
  BY <1>1, Inductive, PTL

\* A transfer spends the budget that the options ask for, through any chain of
\* copies.
THEOREM BudgetIsAskedHolds == Spec => []BudgetIsAsked
<1>1. IInv => BudgetIsAsked
  <2> SUFFICES ASSUME IInv, NEW t \in Transfers
               PROVE  tries[t] <= most[t] /\ (outcome[t] = "transient" => tries[t] = most[t])
    BY DEF BudgetIsAsked
  <2>1. /\ tries[t] \in Nat /\ most[t] \in Nat /\ budget[t] \in Nat /\ attempt[t] \in Nat
        /\ attempt[t] <= budget[t] /\ tries[t] <= attempt[t] + 1
    BY DEF IInv, TypeOK, TransferTypeOK
  <2>2. /\ pc[t] = "idle" => tries[t] = 0
        /\ pc[t] # "idle" => most[t] = budget[t] + 1
        /\ outcome[t] = "transient" => tries[t] = most[t]
    BY DEF IInv, TransferInv
  <2> QED
    BY <2>1, <2>2
<1> QED
  BY <1>1, Inductive, PTL

\* Closing a copy never fails a transfer.
THEOREM OnlyOriginalClosesHolds == Spec => []OnlyOriginalCloses
<1>1. IInv => OnlyOriginalCloses
  BY DEF IInv, PoolInv, TransferInv, OnlyOriginalCloses
<1> QED
  BY <1>1, Inductive, PTL

\* A download that returned stays in its file, unless a call wrote there at the
\* same time, or later after it was told to or had looked before; for any number of
\* calls and crashes.
THEOREM DownloadIsKeptHolds ==
  ASSUME ~MayRedirect
  PROVE  Spec => []DownloadIsKept
<1>1. IInv => DownloadIsKept
  BY DEF IInv
<1> QED
  BY <1>1, Inductive, PTL

(***************************************************************************)
(* The files.                                                              *)
(***************************************************************************)

\* A file that was there before all calls is overwritten only by one that was
\* told to: the others have looked and left it alone, whatever calls run beside
\* them or died before (download, overwrite=False).
OldIsProtected ==
  [][\A x \in Targets : file[x] = "old" /\ file'[x] # "old" =>
       \E c \in Calls : Target(c) = x /\ overwrite[c]]_vars

\* Somebody accounts for a torn file: a call that still writes it, one that has
\* failed, was cancelled or died over it, or two that wrote at the same time.
TornBy(c, x) ==
  /\ Target(c) = x
  /\ \/ phase[c] = "open"
     \/ phase[c] = "ended" /\ result[c] \in {"failed", "cancelled", "crashed"}
     \/ \E d \in Calls : <<d, c, "mixed">> \in met

TornIsExplained ==
  \A x \in Targets : file[x] = "torn" => \E c \in Calls : TornBy(c, x)

\* A call that was not told to overwrite has found no file.
OldInv ==
  \A c \in Calls : phase[c] \in {"sign", "fetch", "open"} /\ ~overwrite[c] =>
    file[Target(c)] # "old"

\* A call that has not ended has told its caller nothing, or was cancelled.
ToldInv == \A c \in Calls : phase[c] # "ended" => result[c] \in {"none", "cancelled"}

FileInv == ToldInv /\ OldInv /\ TornIsExplained

\* What a step must leave of the calls for FileInv to hold after it.
LEMMA SameFiles ==
  ASSUME IInv, FileInv, UNCHANGED <<document, overwrite, met, file>>,
         \A c \in Calls :
           /\ phase'[c] \in {"sign", "fetch", "open"} =>
                phase[c] \in {"sign", "fetch", "open"}
                  \/ overwrite[c] \/ file[Target(c)] = "absent"
           /\ phase[c] = "open" =>
                \/ phase'[c] = "open"
                \/ phase'[c] = "ended" /\ result'[c] \in {"failed", "cancelled", "crashed"}
           /\ phase[c] = "ended" => phase'[c] = "ended" /\ result'[c] = result[c]
           /\ phase'[c] # "ended" => result'[c] \in {result[c], "cancelled"}
  PROVE  FileInv'
<1>1. OldInv'
  BY SameCalls DEF FileInv, OldInv
<1>2. ASSUME NEW x \in Targets, file'[x] = "torn" PROVE \E c \in Calls : TornBy(c, x)'
  <2>1. PICK c \in Calls : TornBy(c, x)
    BY <1>2 DEF FileInv, TornIsExplained
  <2>2. TornBy(c, x)'
    BY <2>1, SameCalls DEF TornBy
  <2> QED
    BY <2>2
<1>3. TornIsExplained'
  BY <1>2 DEF TornIsExplained, Targets, Base
<1>4. ToldInv'
  BY DEF FileInv, ToldInv
<1> QED
  BY <1>1, <1>3, <1>4 DEF FileInv

LEMMA DownloadFiles ==
  ASSUME IInv, FileInv, NEW c \in Calls, NEW h \in Handles, NEW doc \in Documents,
         NEW over \in BOOLEAN, Download(c, h, doc, over)
  PROVE  FileInv'
<1>1. CallTypeOK /\ MetInv
  BY Parts DEF CallOK
<1>2. /\ phase[c] = "new" /\ phase'[c] = "check"
      /\ UNCHANGED <<result, met, file>>
      /\ \A d \in Calls \ {c} :
           /\ phase'[d] = phase[d] /\ overwrite'[d] = overwrite[d]
           /\ Target(d)' = Target(d)
  BY <1>1 DEF Download, CallTypeOK, Target
<1>3. OldInv'
  BY <1>2 DEF FileInv, OldInv
<1>4. ASSUME NEW x \in Targets, file'[x] = "torn" PROVE \E d \in Calls : TornBy(d, x)'
  <2>1. PICK d \in Calls : TornBy(d, x)
    BY <1>2, <1>4 DEF FileInv, TornIsExplained
  <2>2. d # c
    BY <1>1, <1>2, <2>1 DEF TornBy, MetInv
  <2> QED
    BY <1>2, <2>1, <2>2 DEF TornBy
<1>5. TornIsExplained'
  BY <1>4 DEF TornIsExplained, Targets, Base
<1>6. ToldInv'
  BY <1>2 DEF FileInv, ToldInv
<1> QED
  BY <1>3, <1>5, <1>6 DEF FileInv

LEMMA OpenFiles ==
  ASSUME IInv, FileInv, NEW c \in Calls, Open(c)
  PROVE  FileInv'
<1>1. CallTypeOK /\ PhaseInv
  BY Parts DEF CallOK
<1>2. /\ phase[c] = "fetch" /\ phase' = [phase EXCEPT ![c] = "open"]
      /\ file' = [file EXCEPT ![Target(c)] = "torn"]
      /\ UNCHANGED <<document, overwrite, result>> /\ met \subseteq met'
  BY DEF Open
<1>3. /\ phase'[c] = "open" /\ \A d \in Calls \ {c} : phase'[d] = phase[d]
      /\ \A d \in Calls : Target(d)' = Target(d)
  BY <1>1, <1>2 DEF CallTypeOK, Target
<1>4. Target(c) \in Targets
  BY <1>1, <1>2 DEF PhaseInv, Place, CallTypeOK, Target, Targets
<1>5. file'[Target(c)] = "torn" /\ \A x \in Targets \ {Target(c)} : file'[x] = file[x]
  BY <1>1, <1>2, <1>4 DEF CallTypeOK
<1>6. OldInv'
  <2> SUFFICES ASSUME NEW d \in Calls, phase'[d] \in {"sign", "fetch", "open"}, ~overwrite[d]
               PROVE  file'[Target(d)] # "old"
    BY <1>2, <1>3 DEF OldInv
  <2>1. Target(d) \in Targets
    BY <1>1, <1>3, <1>4 DEF PhaseInv, Place, CallTypeOK, Target, Targets
  <2> QED
    BY <1>2, <1>3, <1>5, <2>1 DEF FileInv, OldInv
<1>7. ASSUME NEW x \in Targets, file'[x] = "torn" PROVE \E d \in Calls : TornBy(d, x)'
  <2>1. CASE x = Target(c)
    BY <1>2, <1>3, <2>1 DEF TornBy
  <2>2. CASE x # Target(c)
    <3>1. PICK d \in Calls : TornBy(d, x)
      BY <1>5, <1>7, <2>2 DEF FileInv, TornIsExplained
    <3>2. d # c
      BY <2>2, <3>1 DEF TornBy
    <3> QED
      BY <1>2, <1>3, <3>1, <3>2 DEF TornBy
  <2> QED
    BY <2>1, <2>2
<1>8. TornIsExplained'
  BY <1>7 DEF TornIsExplained, Targets, Base
<1>9. ToldInv'
  BY <1>2, <1>3 DEF FileInv, ToldInv
<1> QED
  BY <1>6, <1>8, <1>9 DEF FileInv

LEMMA WriteFiles ==
  ASSUME IInv, FileInv, NEW c \in Calls, Write(c)
  PROVE  FileInv'
<1>1. CallTypeOK /\ PhaseInv
  BY Parts DEF CallOK
<1>2. PICK now : 
        /\ file' = [file EXCEPT ![Target(c)] = now]
        /\ now \in {Bytes(c), "torn"}
        /\ now = "torn" => \E d \in Calls : <<d, c, "mixed">> \in met
  BY DEF Write
<1>3. /\ phase[c] = "open" /\ phase' = [phase EXCEPT ![c] = "ended"]
      /\ UNCHANGED <<document, overwrite, met>>
      /\ \A d \in Calls \ {c} : result'[d] = result[d]
  BY <1>1 DEF Write, EndCall, CallTypeOK
<1>4. phase'[c] = "ended" /\ \A d \in Calls \ {c} : phase'[d] = phase[d]
  BY <1>1, <1>3 DEF CallTypeOK
<1>5. Target(c) \in Targets /\ Bytes(c) \notin {"old", "torn"}
  BY <1>1, <1>3, DocumentAssumption
     DEF PhaseInv, Place, CallTypeOK, Target, Targets, Bytes
<1>6. file'[Target(c)] = now /\ \A x \in Targets \ {Target(c)} : file'[x] = file[x]
  BY <1>1, <1>2, <1>5 DEF CallTypeOK
<1>7. OldInv'
  <2> SUFFICES ASSUME NEW d \in Calls, phase'[d] \in {"sign", "fetch", "open"}, ~overwrite[d]
               PROVE  file'[Target(d)] # "old"
    BY <1>3, SameCalls DEF OldInv
  <2>1. d # c /\ Target(d) \in Targets
    BY <1>1, <1>4 DEF PhaseInv, Place, CallTypeOK, Target, Targets
  <2> QED
    BY <1>2, <1>4, <1>5, <1>6, <2>1 DEF FileInv, OldInv
<1>8. ASSUME NEW x \in Targets, file'[x] = "torn" PROVE \E d \in Calls : TornBy(d, x)'
  <2>1. CASE x = Target(c)
    <3>1. \E d \in Calls : <<d, c, "mixed">> \in met
      BY <1>2, <1>5, <1>6, <1>8, <2>1
    <3> QED
      BY <1>3, <2>1, <3>1, SameCalls DEF TornBy
  <2>2. CASE x # Target(c)
    <3>1. PICK d \in Calls : TornBy(d, x)
      BY <1>6, <1>8, <2>2 DEF FileInv, TornIsExplained
    <3>2. d # c
      BY <2>2, <3>1 DEF TornBy
    <3> QED
      BY <1>3, <1>4, <3>1, <3>2, SameCalls DEF TornBy
  <2> QED
    BY <2>1, <2>2
<1>9. TornIsExplained'
  BY <1>8 DEF TornIsExplained, Targets, Base
<1>10. ToldInv'
  BY <1>3, <1>4 DEF FileInv, ToldInv
<1> QED
  BY <1>7, <1>9, <1>10 DEF FileInv

LEMMA FileNext == IInv /\ FileInv /\ [Next]_vars => FileInv'
<1> SUFFICES ASSUME IInv, FileInv, [Next]_vars PROVE FileInv'
  OBVIOUS
<1>1. CallTypeOK
  BY Parts DEF CallOK
<1>2. ASSUME UNCHANGED <<callVars, file>> PROVE FileInv'
  BY <1>2, SameFiles DEF callVars
<1>3. ASSUME NEW c \in Calls, ApiFails(c) \/ Check(c) \/ Signed(c) \/ FetchFails(c)
                                \/ OpenFails(c) \/ WriteFails(c) \/ Cancel(c)
      PROVE  FileInv'
  <2>1. UNCHANGED <<document, overwrite, met, file>>
    BY <1>3 DEF ApiFails, Check, Signed, FetchFails, OpenFails, WriteFails, Cancel, Move, EndCall
  <2>2. \A d \in Calls \ {c} : phase'[d] = phase[d] /\ result'[d] = result[d]
    BY <1>1, <1>3 DEF ApiFails, Check, Signed, FetchFails, OpenFails, WriteFails, Cancel, Move, EndCall,
       CallTypeOK
  <2>3. phase[c] \notin {"new", "ended"}
    BY <1>3 DEF ApiFails, Check, Signed, FetchFails, OpenFails, WriteFails, Cancel
  <2>4. phase'[c] \in {"sign", "fetch", "open"} =>
          phase[c] \in {"sign", "fetch", "open"} \/ overwrite[c] \/ file[Target(c)] = "absent"
    BY <1>1, <1>3 DEF ApiFails, Check, Signed, FetchFails, OpenFails, WriteFails, Cancel, Move, EndCall,
       Blocked, CallTypeOK
  <2>5. phase'[c] # "ended" => result'[c] \in {result[c], "cancelled"}
    BY <1>1, <1>3 DEF ApiFails, Check, Signed, FetchFails, OpenFails, WriteFails, Cancel, Move, EndCall,
       CallTypeOK
  <2>6. phase[c] = "open" =>
          \/ phase'[c] = "open"
          \/ phase'[c] = "ended" /\ result'[c] \in {"failed", "cancelled", "crashed"}
    <3>1. phase[c] # "ended" => result[c] \in {"none", "cancelled"}
      BY DEF FileInv, ToldInv
    <3> QED
      BY <1>1, <1>3, <3>1 DEF ApiFails, Check, Signed, FetchFails, OpenFails, WriteFails, Cancel, EndCall,
         CallTypeOK
  <2> QED
    BY <2>1, <2>2, <2>3, <2>4, <2>5, <2>6, SameFiles
<1>4. ASSUME NEW c \in Calls, DownloadStep(c) PROVE FileInv'
  BY <1>3, <1>4, DownloadFiles, OpenFiles, WriteFiles DEF DownloadStep
<1>5. CASE Crash
  <2>1. UNCHANGED <<document, overwrite, met, file>>
    BY <1>5 DEF Crash
  <2>2. \A c \in Calls : phase[c] # "ended" => result[c] \in {"none", "cancelled"}
    BY DEF FileInv, ToldInv
  <2>3. \A c \in Calls :
          IF phase[c] \in {"new", "ended"} THEN phase'[c] = phase[c] /\ result'[c] = result[c]
          ELSE phase'[c] = "ended" /\ result'[c] \in {"cancelled", "crashed"}
    BY <1>1, <1>5, <2>2 DEF Crash, UnderWay, CallTypeOK
  <2> QED
    BY <2>1, <2>3, SameFiles
<1>6. CASE UNCHANGED vars
  BY <1>2, <1>6 DEF vars
<1> QED
  BY <1>2, <1>4, <1>5, <1>6 DEF Next, Finished, Upload

LEMMA FilesInductive == Spec => []FileInv
<1>1. Init => FileInv
  BY DEF Init, FileInv, ToldInv, OldInv, TornIsExplained, Targets
<1> QED
  BY <1>1, FileNext, Inductive, PTL DEF Spec

\* Without overwrite=True no download destroys what was there before, for any
\* number of calls and crashes.
THEOREM OldIsProtectedHolds == Spec => OldIsProtected
<1> DEFINE Protected ==
             \A x \in Targets : file[x] = "old" /\ file'[x] # "old" =>
               \E c \in Calls : Target(c) = x /\ overwrite[c]
<1>1. IInv /\ FileInv /\ [Next]_vars => [Protected]_vars
  <2> SUFFICES ASSUME IInv, FileInv, [Next]_vars, NEW x \in Targets, file[x] = "old",
                      file'[x] # "old"
               PROVE  \E c \in Calls : Target(c) = x /\ overwrite[c]
    OBVIOUS
  <2>1. PICK c \in Calls : Open(c) \/ Write(c)
    BY DEF Next, vars, DownloadStep, Download, ApiFails, Check, Signed, FetchFails,
       OpenFails, WriteFails, Cancel, Crash, Upload, Finished
  <2>2. \A y \in Targets \ {Target(c)} : file'[y] = file[y]
    BY <2>1, Parts DEF CallOK, CallTypeOK, Open, Write
  <2>3. phase[c] \in {"fetch", "open"} /\ Target(c) = x
    BY <2>1, <2>2 DEF Open, Write
  <2> QED
    BY <2>3 DEF FileInv, OldInv
<1> QED
  BY <1>1, Inductive, FilesInductive, PTL DEF Spec, OldIsProtected

\* No file is left torn without a trace: if every call to it has returned, and
\* no two wrote at the same time, it is whole.
THEOREM TornIsExplainedHolds == Spec => []TornIsExplained
<1>1. FileInv => TornIsExplained
  BY DEF FileInv
<1> QED
  BY <1>1, FilesInductive, PTL
===============================================================================
