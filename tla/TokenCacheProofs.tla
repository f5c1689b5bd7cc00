--------------------------- MODULE TokenCacheProofs ---------------------------
(***************************************************************************)
(* Theorems about TokenCache, for every set of threads, leeway, retry      *)
(* budget and set of lifetimes.                                            *)
(***************************************************************************)
EXTENDS TokenCache, TLAPS

(***************************************************************************)
(* The inductive invariant.                                                *)
(***************************************************************************)

\* The threads inside the `with` block are the lock's holder.
LockInv == \A t \in Threads : pc[t] \in Critical <=> lock = t

\* Token numbers grow along the way endpoint -> response -> cache -> request.
OrderInv ==
  /\ token # NoToken => token.id > 0
  /\ token.id <= issued
  /\ \A t \in Threads :
       /\ bearer[t] <= token.id
       /\ stale[t] <= token.id
       /\ At(t, "response") => token.id < fetched[t].id /\ fetched[t].id <= issued
       /\ At(t, "store_expiry") => fetched[t] = token /\ bearer[t] < token.id
       /\ At(t, "return") => token # NoToken

\* A forced caller read `stale` after its request was rejected, and leaves
\* with a token newer than that.
ForceInv ==
  \A t \in Threads : force[t] =>
    /\ pc[t] \notin {"idle", "check", "stale"}
    /\ pc[t] \in {"lock", "recheck", "post", "response"} => bearer[t] <= stale[t]
    /\ At(t, "return") => bearer[t] < token.id

\* The stored expiry is late by at most MaxDelay.
DelayInv ==
  /\ \A t \in Threads :
       pc[t] \in {"response", "store_expiry"} => now <= fetched[t].at + MaxDelay
  /\ /\ token # NoToken /\ token.life # Malformed
     /\ \A t \in Threads : ~At(t, "store_expiry")
     => expiresAt <= token.at + token.life + MaxDelay

IInv ==
  /\ TypeOK
  /\ LockInv
  /\ OrderInv
  /\ ForceInv
  /\ FetchIsNeeded
  /\ DelayInv

USE ThreadsAssumption, DelayAssumption, BoundsAssumption

(***************************************************************************)
(* Type correctness.                                                       *)
(***************************************************************************)
LEMMA TypeInit == Init => TypeOK
  BY DEF Init, TypeOK, Token, NoToken, Malformed, Labels, Critical

LEMMA TypeNext == TypeOK /\ [Next]_vars => TypeOK'
<1> SUFFICES ASSUME TypeOK, [Next]_vars PROVE TypeOK'
  OBVIOUS
<1>0. NoToken \in Token
  BY DEF NoToken, Token
<1> USE <1>0 DEF TypeOK, Labels, Critical, Fetching, GoTo, At, cache, EndCall,
                 LeaveFetch
<1>1. ASSUME NEW t \in Threads, Call(t) PROVE TypeOK'
  BY <1>1 DEF Call
<1>2. ASSUME NEW t \in Threads, Check(t) PROVE TypeOK'
  BY <1>2 DEF Check
<1>3. ASSUME NEW t \in Threads, Acquire(t) PROVE TypeOK'
  BY <1>3 DEF Acquire
<1>4. ASSUME NEW t \in Threads, Recheck(t) PROVE TypeOK'
  <2>1. CASE GoTo(t, "post") /\ UNCHANGED <<lock, attempt, fetched>>
    BY <1>4, <2>1 DEF Recheck
  <2>2. CASE LeaveFetch(t) /\ GoTo(t, "return")
    BY <1>4, <2>2 DEF Recheck
  <2> QED
    BY <1>4, <2>1, <2>2 DEF Recheck
<1>5. ASSUME NEW t \in Threads, Return(t) PROVE TypeOK'
  BY <1>5 DEF Return, Token
<1>6. ASSUME NEW t \in Threads, Issue(t) PROVE TypeOK'
  <2>1. PICK life \in Lifetimes :
          fetched' = [fetched EXCEPT
                        ![t] = [id |-> issued + 1, at |-> now, life |-> life]]
    BY <1>6 DEF Issue
  <2>2. [id |-> issued + 1, at |-> now, life |-> life] \in Token
    BY DEF Token
  <2>3. fetched' \in [Threads -> Token]
    BY <2>1, <2>2
  <2> QED
    BY <1>6, <2>3 DEF Issue
<1>7. ASSUME NEW t \in Threads, Retry(t) PROVE TypeOK'
  BY <1>7 DEF Retry
<1>8. ASSUME NEW t \in Threads, Raise(t) PROVE TypeOK'
  BY <1>8 DEF Raise
<1>9. ASSUME NEW t \in Threads, StoreToken(t) PROVE TypeOK'
  BY <1>9 DEF StoreToken
<1>10. ASSUME NEW t \in Threads, StoreExpiry(t) PROVE TypeOK'
  <2>1. fetched[t] \in Token /\ fetched[t].life \in Nat \cup {Malformed}
    BY DEF Token
  <2>2. CASE fetched[t].life # Malformed
    <3>1. now + fetched[t].life \in Nat
      BY <2>1, <2>2
    <3> QED
      BY <1>10, <2>2, <3>1 DEF StoreExpiry
  <2>3. CASE fetched[t].life = Malformed
    <3>1. EndCall(t) /\ LeaveFetch(t) /\ UNCHANGED <<now, cache, calls, issued>>
      BY <1>10, <2>3 DEF StoreExpiry
    <3> QED
      BY <3>1
  <2> QED
    BY <2>2, <2>3 DEF Malformed
<1>11. ASSUME NEW t \in Threads, Answer(t) PROVE TypeOK'
  BY <1>11 DEF Answer
<1>12. ASSUME NEW t \in Threads, Reject(t) PROVE TypeOK'
  BY <1>12 DEF Reject
<1>13. ASSUME NEW t \in Threads, ReadStale(t) PROVE TypeOK'
  BY <1>13 DEF ReadStale, Token
<1>14. CASE Tick
  BY <1>14 DEF Tick
<1>16. ASSUME NEW t \in Threads, Cancel(t) PROVE TypeOK'
  BY <1>16 DEF Cancel
<1>15. CASE UNCHANGED vars
  BY <1>15 DEF vars
<1> QED
  BY <1>1, <1>2, <1>3, <1>4, <1>5, <1>6, <1>7, <1>8, <1>9, <1>10, <1>11,
     <1>12, <1>13, <1>14, <1>15, <1>16 DEF Next, Step, Finished

\* Every variable keeps its type, in every execution (class
\* ClientCredentialsAuth and the locals of its methods).
THEOREM TypeCorrect == Spec => []TypeOK
  BY TypeInit, TypeNext, PTL DEF Spec

(***************************************************************************)
(* The invariant is inductive.                                             *)
(***************************************************************************)
LEMMA IInvInit == Init => IInv
<1> SUFFICES ASSUME Init PROVE IInv
  OBVIOUS
<1>1. TypeOK
  BY TypeInit
<1> QED
  BY <1>1 DEF Init, IInv, LockInv, OrderInv, ForceInv, FetchIsNeeded, DelayInv,
              At, Critical, Fetching, NoToken

LEMMA IInvNext == IInv /\ [Next]_vars => IInv'
<1> SUFFICES ASSUME IInv, [Next]_vars PROVE IInv'
  OBVIOUS
<1> TypeOK'
  BY TypeNext DEF IInv
<1>a. \A tok \in Token :
        tok.id \in Nat /\ tok.at \in Nat /\ tok.life \in Nat \cup {Malformed}
  BY DEF Token
<1>b. NoToken \in Token /\ NoToken.id = 0
  BY DEF NoToken, Token
<1> USE <1>a, <1>b
<1> USE DEF IInv, TypeOK, LockInv, OrderInv, ForceInv, FetchIsNeeded, DelayInv,
            Critical, Fetching, GoTo, At, cache, EndCall, LeaveFetch, IsValid
<1>1. ASSUME NEW t \in Threads, Call(t) PROVE IInv'
  BY <1>1 DEF Call
<1>2. ASSUME NEW t \in Threads, Check(t) PROVE IInv'
  BY <1>2 DEF Check
<1>3. ASSUME NEW t \in Threads, Acquire(t) PROVE IInv'
  BY <1>3 DEF Acquire
<1>4. ASSUME NEW t \in Threads, Recheck(t) PROVE IInv'
  <2>1. LockInv'
    BY <1>4 DEF Recheck, ShouldFetch
  <2>2. OrderInv'
    BY <1>4 DEF Recheck, ShouldFetch
  <2>3. ForceInv'
    <3>1. CASE ShouldFetch(t)
      BY <1>4, <3>1 DEF Recheck
    <3>2. CASE ~ShouldFetch(t)
      <4>1. force[t] => bearer[t] < token.id
        <5> SUFFICES ASSUME force[t] PROVE bearer[t] < token.id
          OBVIOUS
        <5>1. token.id # stale[t] /\ stale[t] <= token.id /\ bearer[t] <= stale[t]
          BY <1>4, <3>2 DEF Recheck, ShouldFetch
        <5>2. token.id \in Nat /\ stale[t] \in Nat /\ bearer[t] \in Nat
          OBVIOUS
        <5> HIDE DEF IInv
        <5> QED
          BY ONLY <5>1, <5>2
      <4> QED
        BY <1>4, <3>2, <4>1 DEF Recheck
    <3> QED
      BY <3>1, <3>2
  <2>4. FetchIsNeeded'
    BY <1>4 DEF Recheck, ShouldFetch
  <2>5. DelayInv'
    BY <1>4 DEF Recheck, ShouldFetch
  <2> QED
    BY <2>1, <2>2, <2>3, <2>4, <2>5
<1>5. ASSUME NEW t \in Threads, Return(t) PROVE IInv'
  BY <1>5 DEF Return
<1>6. ASSUME NEW t \in Threads, Issue(t) PROVE IInv'
  BY <1>6 DEF Issue
<1>7. ASSUME NEW t \in Threads, Retry(t) PROVE IInv'
  BY <1>7 DEF Retry
<1>8. ASSUME NEW t \in Threads, Raise(t) PROVE IInv'
  BY <1>8 DEF Raise
<1>9. ASSUME NEW t \in Threads, StoreToken(t) PROVE IInv'
  <2>1. LockInv'
    BY <1>9 DEF StoreToken
  <2>2. OrderInv'
    BY <1>9 DEF StoreToken
  <2>3. ForceInv'
    BY <1>9 DEF StoreToken
  <2>4. FetchIsNeeded'
    BY <1>9 DEF StoreToken
  <2>5. DelayInv'
    BY <1>9 DEF StoreToken
  <2> QED
    BY <2>1, <2>2, <2>3, <2>4, <2>5
<1>10. ASSUME NEW t \in Threads, StoreExpiry(t) PROVE IInv'
  <2>1. LockInv'
    BY <1>10 DEF StoreExpiry
  <2>2. OrderInv'
    BY <1>10 DEF StoreExpiry
  <2>3. ForceInv'
    BY <1>10 DEF StoreExpiry
  <2>4. FetchIsNeeded'
    BY <1>10 DEF StoreExpiry
  <2>5. DelayInv'
    BY <1>10 DEF StoreExpiry
  <2> QED
    BY <2>1, <2>2, <2>3, <2>4, <2>5
<1>11. ASSUME NEW t \in Threads, Answer(t) PROVE IInv'
  BY <1>11 DEF Answer
<1>12. ASSUME NEW t \in Threads, Reject(t) PROVE IInv'
  BY <1>12 DEF Reject
<1>13. ASSUME NEW t \in Threads, ReadStale(t) PROVE IInv'
  BY <1>13 DEF ReadStale
<1>14. CASE Tick
  BY <1>14 DEF Tick
<1>16. ASSUME NEW t \in Threads, Cancel(t) PROVE IInv'
  BY <1>16 DEF Cancel
<1>15. CASE UNCHANGED vars
  BY <1>15 DEF vars
<1> QED
  BY <1>1, <1>2, <1>3, <1>4, <1>5, <1>6, <1>7, <1>8, <1>9, <1>10, <1>11,
     <1>12, <1>13, <1>14, <1>15, <1>16 DEF Next, Step, Finished

(***************************************************************************)
(* The theorems.                                                           *)
(***************************************************************************)
LEMMA Inductive == Spec => []IInv
  BY IInvInit, IInvNext, PTL DEF Spec

\* At most one thread at a time talks to the token endpoint or writes the
\* cached fields (_ensure_token's lock, with every exit that leaves it).
THEOREM SingleFlightHolds == Spec => []SingleFlight
<1>1. IInv => SingleFlight
  BY DEF IInv, LockInv, SingleFlight
<1> QED
  BY <1>1, Inductive, PTL

\* No thread keeps a fetch going over a token that another one refreshed
\* meanwhile (_should_fetch, _is_valid).
THEOREM FetchIsNeededHolds == Spec => []FetchIsNeeded
<1>1. IInv => FetchIsNeeded
  BY DEF IInv
<1> QED
  BY <1>1, Inductive, PTL

\* The assertion of _ensure_token holds wherever it is reached.
THEOREM NeverNoneHolds == Spec => []NeverNone
<1>1. IInv => NeverNone
  BY DEF IInv, OrderInv, NeverNone, At
<1> QED
  BY <1>1, Inductive, PTL

\* The leeway makes up for a lifetime that is counted from the response
\* instead of the issue (_is_valid, _store).
THEOREM CacheIsFreshHolds == Spec => []CacheIsFresh
<1>1. IInv => CacheIsFresh
  <2> SUFFICES ASSUME IInv, IsValid, token.life # Malformed,
                      Torn => token.life > MaxDelay
               PROVE  now < token.at + token.life
    BY DEF CacheIsFresh
  <2>1. token.at \in Nat /\ token.life \in Nat /\ now \in Nat /\ expiresAt \in Nat
    BY DEF IInv, TypeOK, Token
  <2>2. CASE Torn
    <3>1. PICK t \in Threads : At(t, "store_expiry")
      BY <2>2 DEF Torn
    <3>2. fetched[t] = token /\ now <= fetched[t].at + MaxDelay
      BY <3>1 DEF IInv, OrderInv, DelayInv, At
    <3> QED
      BY <2>1, <2>2, <3>2
  <2>3. CASE ~Torn
    <3>1. expiresAt <= token.at + token.life + MaxDelay
      BY <2>3 DEF IInv, DelayInv, IsValid, Torn
    <3>2. now < expiresAt - Leeway
      BY DEF IsValid
    <3> QED
      BY <2>1, <3>1, <3>2
  <2> QED
    BY <2>2, <2>3
<1> QED
  BY <1>1, Inductive, PTL

\* The cached token only gives way to one that was issued after it (_store
\* under the lock).
THEOREM CacheMovesForwardHolds == Spec => CacheMovesForward
<1>1. IInv /\ [Next]_vars => [token'.id >= token.id]_token
  <2> SUFFICES ASSUME IInv, [Next]_vars, token' # token
               PROVE  token'.id >= token.id
    OBVIOUS
  <2>1. PICK t \in Threads : StoreToken(t)
    BY DEF Next, vars, Step, cache, Call, Check, Acquire, Recheck, Return,
           Issue, Retry, Raise, StoreExpiry, Answer, Reject, ReadStale, Cancel, Tick,
           Finished
  <2>2. token.id < fetched[t].id
    BY <2>1 DEF StoreToken, IInv, OrderInv, At
  <2>3. token.id \in Nat /\ fetched[t].id \in Nat
    BY DEF IInv, TypeOK, Token
  <2> QED
    BY <2>1, <2>2, <2>3 DEF StoreToken
<1> QED
  BY <1>1, Inductive, PTL DEF Spec, CacheMovesForward

\* The second send of a request that was answered 401 carries a token issued
\* after the rejected one (sync_auth_flow).
THEOREM ResendCarriesNewerTokenHolds == Spec => ResendCarriesNewerToken
<1> DEFINE Newer == \A t \in Threads :
       At(t, "return") /\ force[t] /\ pc'[t] = "send" => bearer'[t] > bearer[t]
<1>1. IInv /\ [Next]_vars => [Newer]_vars
  <2> SUFFICES ASSUME IInv, [Next]_vars,
                      NEW t \in Threads, At(t, "return"), force[t],
                      pc'[t] = "send"
               PROVE  bearer'[t] > bearer[t]
    OBVIOUS
  <2>1. pc \in [Threads -> Labels] /\ bearer \in [Threads -> Nat]
    BY DEF IInv, TypeOK
  <2>2. Return(t)
    BY <2>1 DEF Next, vars, Step, At, GoTo, EndCall, Call, Check, Acquire,
           Recheck, Return, Issue, Retry, Raise, StoreToken, StoreExpiry,
           Answer, Reject, ReadStale, Cancel, Tick, Finished
  <2>3. bearer[t] < token.id /\ token.id \in Nat
    BY DEF IInv, ForceInv, TypeOK, Token
  <2> QED
    BY <2>1, <2>2, <2>3 DEF Return
<1> QED
  BY <1>1, Inductive, PTL DEF Spec, ResendCarriesNewerToken

(***************************************************************************)
(* TokenCache implements TokenRenewal.                                     *)
(***************************************************************************)
LEMMA RenewalInit == Init => Renewal!Init
<1> SUFFICES ASSUME Init PROVE Renewal!Init
  OBVIOUS
<1>1. token.id = 0 /\ bearer = [t \in Threads |-> 0]
  BY DEF Init, NoToken
<1>2. [t \in Threads |-> PhaseOf(t)] = [t \in Threads |-> "idle"]
  BY DEF Init, PhaseOf
<1>3. \A t \in Threads : (force[t] \/ pc[t] = "stale") = FALSE
  BY DEF Init
<1>4. [t \in Threads |-> force[t] \/ pc[t] = "stale"] = [t \in Threads |-> FALSE]
  BY <1>3
<1> QED
  BY <1>1, <1>2, <1>4 DEF Renewal!Init

LEMMA RenewalStep == IInv /\ [Next]_vars => [Renewal!Next]_(Renewal!vars)
<1> SUFFICES ASSUME IInv, [Next]_vars PROVE [Renewal!Next]_(Renewal!vars)
  OBVIOUS
<1> DEFINE phase == [t \in Threads |-> PhaseOf(t)]
           renewing == [t \in Threads |-> force[t] \/ pc[t] = "stale"]
<1>a. TypeOK
  BY DEF IInv
<1>1. ASSUME NEW t \in Threads, Call(t) PROVE [Renewal!Next]_(Renewal!vars)
  <2>1. Renewal!Ask(t)
    BY <1>a, <1>1 DEF Call, Renewal!Ask, TypeOK, At, GoTo, PhaseOf, cache, Labels, Critical,
             Fetching
  <2> QED
    BY <2>1 DEF Renewal!Next
<1>2. ASSUME NEW t \in Threads, Check(t) PROVE [Renewal!Next]_(Renewal!vars)
  <2>1. UNCHANGED <<token, bearer, phase, renewing>>
    BY <1>a, <1>2 DEF Check, TypeOK, At, GoTo, PhaseOf, cache, Labels, Critical,
             Fetching
  <2> QED
    BY <2>1 DEF Renewal!vars
<1>3. ASSUME NEW t \in Threads, Acquire(t) PROVE [Renewal!Next]_(Renewal!vars)
  <2>1. UNCHANGED <<token, bearer, phase, renewing>>
    BY <1>a, <1>3 DEF Acquire, TypeOK, At, GoTo, PhaseOf, cache, Labels, Critical,
             Fetching
  <2> QED
    BY <2>1 DEF Renewal!vars
<1>4. ASSUME NEW t \in Threads, Recheck(t) PROVE [Renewal!Next]_(Renewal!vars)
  <2>1. UNCHANGED <<token, bearer, phase, renewing>>
    BY <1>a, <1>4 DEF Recheck, TypeOK, At, GoTo, PhaseOf, cache, Labels, Critical,
             Fetching, ShouldFetch, LeaveFetch
  <2> QED
    BY <2>1 DEF Renewal!vars
<1>5. ASSUME NEW t \in Threads, Return(t) PROVE [Renewal!Next]_(Renewal!vars)
  <2>1. phase[t] = "asking" /\ phase' = [phase EXCEPT ![t] = "sending"]
    BY <1>a, <1>5 DEF Return, TypeOK, At, GoTo, PhaseOf
  <2>2. bearer' = [bearer EXCEPT ![t] = token.id] /\ UNCHANGED <<token, renewing>>
    BY <1>a, <1>5 DEF Return, TypeOK, At, GoTo, cache
  <2>3. token.id # 0
    <3>1. token \in Token /\ token # NoToken
      BY <1>a, <1>5 DEF Return, At, TypeOK, IInv, OrderInv
    <3> QED
      BY <3>1 DEF IInv, OrderInv
  <2>4. renewing[t] => token.id > bearer[t]
    <3>1. pc[t] = "return" /\ (force[t] => bearer[t] < token.id)
      BY <1>5 DEF Return, At, IInv, ForceInv
    <3>2. bearer[t] \in Nat /\ token.id \in Nat
      BY <1>a DEF TypeOK, Token
    <3> QED
      BY <3>1, <3>2
  <2>5. Renewal!Grant(t)
    BY <2>1, <2>2, <2>3, <2>4 DEF Renewal!Grant
  <2> QED
    BY <2>5 DEF Renewal!Next
<1>6. ASSUME NEW t \in Threads, Issue(t) PROVE [Renewal!Next]_(Renewal!vars)
  <2>1. UNCHANGED <<token, bearer, phase, renewing>>
    BY <1>a, <1>6 DEF Issue, TypeOK, At, GoTo, PhaseOf, cache, Labels, Critical,
             Fetching
  <2> QED
    BY <2>1 DEF Renewal!vars
<1>7. ASSUME NEW t \in Threads, Retry(t) PROVE [Renewal!Next]_(Renewal!vars)
  <2>1. UNCHANGED <<token, bearer, phase, renewing>>
    BY <1>a, <1>7 DEF Retry, TypeOK, At, GoTo, PhaseOf, cache, Labels, Critical,
             Fetching
  <2> QED
    BY <2>1 DEF Renewal!vars
<1>8. ASSUME NEW t \in Threads, Raise(t) PROVE [Renewal!Next]_(Renewal!vars)
  <2>1. Renewal!End(t)
    BY <1>a, <1>8 DEF Raise, Renewal!End, TypeOK, At, GoTo, PhaseOf, cache, Labels, Critical,
             Fetching, LeaveFetch, EndCall
  <2> QED
    BY <2>1 DEF Renewal!Next
<1>9. ASSUME NEW t \in Threads, StoreToken(t) PROVE [Renewal!Next]_(Renewal!vars)
  <2>1. Renewal!Refresh(t)
    BY <1>a, <1>9 DEF StoreToken, Renewal!Refresh, TypeOK, At, GoTo, PhaseOf, cache, Labels, Critical,
             Fetching, IInv, OrderInv, ForceInv, Token
  <2> QED
    BY <2>1 DEF Renewal!Next
<1>10. ASSUME NEW t \in Threads, StoreExpiry(t) PROVE [Renewal!Next]_(Renewal!vars)
  <2>1. CASE fetched[t].life # Malformed
    <3>1. UNCHANGED <<token, bearer, phase, renewing>>
      BY <1>a, <1>10, <2>1 DEF StoreExpiry, TypeOK, At, GoTo, PhaseOf, cache, Labels, Critical,
             Fetching, LeaveFetch, EndCall
    <3> QED
      BY <3>1 DEF Renewal!vars
  <2>2. CASE fetched[t].life = Malformed
    <3>1. Renewal!End(t)
      BY <1>a, <1>10, <2>2 DEF StoreExpiry, Renewal!End, TypeOK, At, GoTo, PhaseOf, cache, Labels, Critical,
             Fetching, LeaveFetch, EndCall
    <3> QED
      BY <3>1 DEF Renewal!Next
  <2> QED
    BY <2>1, <2>2
<1>11. ASSUME NEW t \in Threads, Answer(t) PROVE [Renewal!Next]_(Renewal!vars)
  <2>1. Renewal!End(t)
    BY <1>a, <1>11 DEF Answer, Renewal!End, TypeOK, At, GoTo, PhaseOf, cache, Labels, Critical,
             Fetching, EndCall
  <2> QED
    BY <2>1 DEF Renewal!Next
<1>12. ASSUME NEW t \in Threads, Reject(t) PROVE [Renewal!Next]_(Renewal!vars)
  <2>1. Renewal!Reject(t)
    BY <1>a, <1>12 DEF Reject, Renewal!Reject, TypeOK, At, GoTo, PhaseOf, cache, Labels, Critical,
             Fetching
  <2> QED
    BY <2>1 DEF Renewal!Next
<1>13. ASSUME NEW t \in Threads, ReadStale(t) PROVE [Renewal!Next]_(Renewal!vars)
  <2>1. UNCHANGED <<token, bearer, phase, renewing>>
    BY <1>a, <1>13 DEF ReadStale, TypeOK, At, GoTo, PhaseOf, cache, Labels, Critical,
             Fetching
  <2> QED
    BY <2>1 DEF Renewal!vars
<1>14. CASE Tick
  BY <1>14 DEF Tick, Renewal!vars, PhaseOf, cache
<1>16. ASSUME NEW t \in Threads, Cancel(t) PROVE [Renewal!Next]_(Renewal!vars)
  <2>1. Renewal!End(t)
    BY <1>a, <1>16 DEF Cancel, Renewal!End, TypeOK, At, GoTo, PhaseOf, cache, Labels, Critical,
             Fetching, EndCall
  <2> QED
    BY <2>1 DEF Renewal!Next
<1>15. CASE UNCHANGED vars
  BY <1>15 DEF vars, Renewal!vars, PhaseOf
<1> QED
  BY <1>1, <1>2, <1>3, <1>4, <1>5, <1>6, <1>7, <1>8, <1>9, <1>10, <1>11,
     <1>12, <1>13, <1>14, <1>15, <1>16 DEF Next, Step, Finished

\* For requests the shared cache behaves as one token that is renewed, however
\* threads interleave and whatever the endpoint answers (sync_auth_flow).
THEOREM RefinesRenewal == Spec => ImplementsRenewal
  BY RenewalInit, RenewalStep, Inductive, PTL
     DEF Spec, ImplementsRenewal, Renewal!Spec
(***************************************************************************)
(* The lock.                                                               *)
(***************************************************************************)

\* The lock passes from a thread to nobody and from nobody to a thread, which
\* takes it itself; whoever holds it is inside the `with` block, and gives it
\* up by leaving the block.  No thread is robbed of it, and none walks away
\* with it, by whichever return, exception or cancellation it leaves
\* (_ensure_token).
HandedOver ==
  /\ \A t \in Threads : lock = t => pc[t] \in Critical
  /\ lock' # lock =>
       \/ /\ lock \in Threads /\ lock' = NoThread
          /\ pc'[lock] \notin Critical
       \/ /\ lock = NoThread /\ lock' \in Threads
          /\ At(lock', "lock") /\ pc'[lock'] = "recheck"

LockIsHandedOver == [][HandedOver]_vars

\* The lock is only ever handed over so, whatever way a thread leaves the block.
THEOREM LockIsHandedOverHolds == Spec => LockIsHandedOver
<1>1. IInv /\ IInv' /\ [Next]_vars => [HandedOver]_vars
  <2> SUFFICES ASSUME IInv, IInv', [Next]_vars PROVE HandedOver
    OBVIOUS
  <2>1. \A t \in Threads : lock = t => pc[t] \in Critical
    BY DEF IInv, LockInv
  <2> SUFFICES ASSUME lock' # lock
      PROVE  \/ /\ lock \in Threads /\ lock' = NoThread
                /\ pc'[lock] \notin Critical
             \/ /\ lock = NoThread /\ lock' \in Threads
                /\ At(lock', "lock") /\ pc'[lock'] = "recheck"
    BY <2>1 DEF HandedOver
  <2>2. PICK t \in Threads : \/ Acquire(t)
                             \/ LeaveFetch(t) /\ (Recheck(t) \/ Raise(t) \/ StoreExpiry(t))
    BY DEF Next, vars, Step, Call, Check, Recheck, Return, Issue, Retry, Raise,
           StoreToken, StoreExpiry, Answer, Reject, ReadStale, Cancel, Tick,
           Finished
  <2>3. CASE Acquire(t)
    BY <2>3 DEF Acquire, GoTo, IInv, TypeOK
  <2>4. CASE LeaveFetch(t) /\ (Recheck(t) \/ Raise(t) \/ StoreExpiry(t))
    <3>1. pc[t] \in Critical
      BY <2>4 DEF Recheck, Raise, StoreExpiry, At, Critical, Fetching
    <3>2. lock = t /\ lock' = NoThread
      BY <2>4, <3>1 DEF LeaveFetch, IInv, LockInv
    <3>3. pc'[t] \notin Critical
      BY <3>2, ThreadsAssumption DEF IInv, LockInv
    <3> QED
      BY <3>2, <3>3
  <2> QED
    BY <2>2, <2>3, <2>4
<1> QED
  BY <1>1, Inductive, PTL DEF Spec, LockIsHandedOver

(***************************************************************************)
(* The length of a request.                                                *)
(***************************************************************************)

\* How many more steps a request takes before it is sent: of an attempt of
\* _fetch_token, the POST and its response.
StepsToSend(t) ==
  CASE pc[t] \in {"check", "stale"} -> 7 + 2 * MaxRetries
    [] pc[t] = "lock"               -> 6 + 2 * MaxRetries
    [] pc[t] = "recheck"            -> 5 + 2 * MaxRetries
    [] pc[t] = "post"               -> 4 + 2 * (MaxRetries - attempt[t])
    [] pc[t] = "response"           -> 3 + 2 * (MaxRetries - attempt[t])
    [] pc[t] = "store_expiry"       -> 2
    [] pc[t] = "return"             -> 1
    [] OTHER                        -> 0

\* How many more steps a request can take: to its send and the answer to it,
\* and through the renewal after a 401 if it has not had that.
StepsLeft(t) ==
  IF At(t, "idle") THEN 0
  ELSE 1 + StepsToSend(t)
         + IF force[t] \/ At(t, "stale") THEN 0 ELSE 8 + 2 * MaxRetries

\* A request takes at most 16 + 4 * MaxRetries steps, whatever the endpoint and
\* the API answer: every step of its own uses up one of those, and no step of
\* another thread gives one back.  Threads do not refresh the token past each
\* other for ever, and an API that rejects every token ends the request
\* (sync_auth_flow, _ensure_token, _fetch_token).
StepsAreBounded ==
  [][\A t \in Threads :
       \/ UNCHANGED <<pc[t], force[t], stale[t], attempt[t], fetched[t], bearer[t]>>
       \/ Call(t) /\ StepsLeft(t)' = 16 + 4 * MaxRetries
       \/ StepsLeft(t)' \in 0..(StepsLeft(t) - 1)]_vars

\* Every step of a request, and its cancellation, shortens it.
LEMMA StepShortens ==
  ASSUME TypeOK, TypeOK', NEW t \in Threads, Step(t) \/ Cancel(t)
  PROVE  StepsLeft(t)' \in 0..(StepsLeft(t) - 1)
<1>1. /\ attempt[t] \in 0..MaxRetries /\ attempt'[t] \in 0..MaxRetries
      /\ force[t] \in BOOLEAN /\ MaxRetries \in Nat /\ pc[t] \in Labels
      /\ pc \in [Threads -> Labels] /\ force \in [Threads -> BOOLEAN]
      /\ attempt \in [Threads -> 0..MaxRetries]
  BY BoundsAssumption DEF TypeOK
<1>2. StepsToSend(t) \in Nat
  BY <1>1 DEF StepsToSend
<1> USE DEF StepsLeft, StepsToSend, At, GoTo
<1>3. CASE Raise(t) \/ Answer(t) \/ Cancel(t)
  <2>1. pc[t] # "idle" /\ pc'[t] = "idle"
    BY <1>1, <1>3 DEF Raise, Answer, Cancel, EndCall, Fetching
  <2> QED
    BY <1>1, <1>2, <2>1
<1>4. CASE Check(t)
  <2>1. pc[t] = "check" /\ pc'[t] \in {"return", "lock"} /\ force' = force
    BY <1>1, <1>4 DEF Check
  <2> QED
    BY <1>1, <2>1
<1>5. CASE Acquire(t)
  BY <1>1, <1>5 DEF Acquire
<1>6. CASE Recheck(t)
  <2>1. pc[t] = "recheck" /\ pc'[t] \in {"post", "return"} /\ force' = force
    BY <1>1, <1>6 DEF Recheck
  <2> QED
    BY <1>1, <2>1
<1>7. CASE Return(t)
  BY <1>1, <1>7 DEF Return
<1>8. CASE Issue(t)
  BY <1>1, <1>8 DEF Issue
<1>9. CASE Retry(t)
  <2>1. /\ pc[t] \in {"post", "response"} /\ pc'[t] = "post" /\ force' = force
        /\ attempt'[t] = attempt[t] + 1
    BY <1>1, <1>9 DEF Retry, Fetching
  <2> QED
    BY <1>1, <2>1
<1>10. CASE StoreToken(t)
  BY <1>1, <1>10 DEF StoreToken
<1>11. CASE StoreExpiry(t)
  <2>1. /\ pc[t] = "store_expiry"
        /\ \/ pc'[t] = "idle"
           \/ pc'[t] = "return" /\ force' = force
    BY <1>1, <1>11 DEF StoreExpiry, EndCall
  <2>2. CASE pc'[t] = "idle"
    BY <1>1, <2>1, <2>2
  <2>3. CASE pc'[t] = "return" /\ force' = force
    BY <1>1, <2>1, <2>3
  <2> QED
    BY <2>1, <2>2, <2>3
<1>12. CASE Reject(t)
  BY <1>1, <1>12 DEF Reject
<1>13. CASE ReadStale(t)
  BY <1>1, <1>13 DEF ReadStale
<1> HIDE DEF StepsLeft, StepsToSend, At, GoTo
<1> QED
  BY <1>3, <1>4, <1>5, <1>6, <1>7, <1>8, <1>9, <1>10, <1>11, <1>12, <1>13
  DEF Step

\* Requests are of bounded length, for any number of threads.  (That a thread
\* takes its next step is what EveryCallEnds needs fairness for.)
THEOREM StepsAreBoundedHolds == Spec => StepsAreBounded
<1> DEFINE Same(t) ==
             UNCHANGED <<pc[t], force[t], stale[t], attempt[t], fetched[t], bearer[t]>>
           Bounded(t) == \/ Same(t)
                         \/ Call(t) /\ StepsLeft(t)' = 16 + 4 * MaxRetries
                         \/ StepsLeft(t)' \in 0..(StepsLeft(t) - 1)
<1>1. IInv /\ IInv' /\ [Next]_vars => \A t \in Threads : Bounded(t)
  <2> SUFFICES ASSUME IInv, IInv', [Next]_vars, NEW t \in Threads PROVE Bounded(t)
    OBVIOUS
  <2>1. CASE Call(t)
    <3>1. pc'[t] = "check" /\ force'[t] = force[t]
      BY <2>1 DEF Call, GoTo, IInv, TypeOK
    <3>2. ~force[t]
      BY <2>1 DEF Call, At, IInv, ForceInv
    <3>3. MaxRetries \in Nat
      BY BoundsAssumption
    <3> QED
      BY <2>1, <3>1, <3>2, <3>3 DEF StepsLeft, StepsToSend, At
  <2>2. CASE Step(t) \/ Cancel(t)
    BY <2>2, StepShortens DEF IInv
  <2>3. ASSUME NEW s \in Threads, s # t, Call(s) \/ Step(s) \/ Cancel(s)
        PROVE  Same(t)
    BY <2>3
    DEF IInv, TypeOK, Step, Call, Check, Acquire, Recheck, Return, Issue, Retry,
        Raise, StoreToken, StoreExpiry, Answer, Reject, ReadStale, Cancel,
        GoTo, EndCall, LeaveFetch
  <2>4. CASE Tick \/ UNCHANGED vars
    BY <2>4 DEF Tick, vars
  <2> QED
    BY <2>1, <2>2, <2>3, <2>4 DEF Next, Finished
<1> QED
  BY <1>1, Inductive, PTL DEF Spec, StepsAreBounded
===============================================================================
