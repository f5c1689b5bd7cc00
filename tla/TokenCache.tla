------------------------------ MODULE TokenCache ------------------------------
(***************************************************************************)
(* ClientCredentialsAuth (src/infersoft/_auth.py): the synchronous flow,   *)
(* and with Cancel the asynchronous one.                                   *)
(*                                                                         *)
(* Threads share one auth object.  Each request runs sync_auth_flow: take  *)
(* a token from the cache (refreshing it under the lock when it is close   *)
(* to its expiry), send, and on a 401 force one refresh and send again.    *)
(* Reads that the code makes outside the lock are steps of their own, and  *)
(* _store's two assignments are two steps, because other threads may read  *)
(* the fields between them.  Tasks run the same statements, interleaved    *)
(* only at awaits, so their behaviours are among the threads', but for     *)
(* those of a cancelled task.                                              *)
(*                                                                         *)
(* A token is named by the order in which the endpoint issued it, and      *)
(* carries the time of issue and the lifetime the endpoint gave it; 0 is   *)
(* None.  Locals are reset when their function returns.                    *)
(***************************************************************************)
EXTENDS Integers

CONSTANTS
  Threads,      \* threads that share the client
  NoThread,     \* "the lock is free"
  MaxRetries,   \* max_retries of the auth object
  Leeway,       \* leeway: a token is not used in its last Leeway ticks
  MaxDelay,     \* longest time from issuing a token to storing its expiry
  Lifetimes,    \* the values of expires_in the endpoint may answer
  MaxTime,      \* bound: the clock stops here
  MaxCalls      \* bound: requests made by each thread

Malformed == -1   \* an expires_in that float() rejects
Token     == [id : Nat, at : Nat, life : Nat \cup {Malformed}]
NoToken   == [id |-> 0, at |-> 0, life |-> 0]

\* The lock's free value is no thread, and there is somebody to model.
ASSUME ThreadsAssumption == Threads # {} /\ NoThread \notin Threads

\* _TOKEN_TIMEOUT (30 s) is shorter than the default leeway (60 s).
ASSUME DelayAssumption == Leeway \in Nat /\ MaxDelay \in Nat /\ MaxDelay <= Leeway

ASSUME BoundsAssumption ==
  /\ MaxRetries \in Nat /\ MaxTime \in Nat /\ MaxCalls \in Nat
  /\ Lifetimes # {} /\ Lifetimes \subseteq Nat \cup {Malformed}

VARIABLES
  now,        \* time.monotonic()
  token,      \* self._token
  expiresAt,  \* self._expires_at
  lock,       \* the thread that holds self._lock
  pc,         \* where each thread is in sync_auth_flow
  force,      \* the thread is in _ensure_token(force=True), or past it
  stale,      \* the id of the token in _ensure_token's local `stale`
  attempt,    \* the local `attempt` of _fetch_token
  fetched,    \* the token in the response the thread is handling
  bearer,     \* the id of the token in the request's Authorization header
  calls,      \* requests each thread has started
  issued      \* tokens the endpoint has issued, and billed

cache == <<token, expiresAt>>
vars  == <<now, token, expiresAt, lock, pc, force, stale, attempt, fetched,
           bearer, calls, issued>>

Critical == {"recheck", "post", "response", "store_expiry"}  \* with self._lock
Fetching == {"post", "response"}
Labels   == Critical \cup {"idle", "check", "lock", "return", "send", "stale"}

TypeOK ==
  /\ now \in Nat
  /\ token \in Token
  /\ expiresAt \in Nat
  /\ lock \in Threads \cup {NoThread}
  /\ pc \in [Threads -> Labels]
  /\ force \in [Threads -> BOOLEAN]
  /\ stale \in [Threads -> Nat]
  /\ attempt \in [Threads -> 0..MaxRetries]
  /\ fetched \in [Threads -> Token]
  /\ bearer \in [Threads -> Nat]
  /\ calls \in [Threads -> 0..MaxCalls]
  /\ issued \in Nat

Init ==
  /\ now = 0
  /\ token = NoToken /\ expiresAt = 0
  /\ lock = NoThread
  /\ pc = [t \in Threads |-> "idle"]
  /\ force = [t \in Threads |-> FALSE]
  /\ stale = [t \in Threads |-> 0]
  /\ attempt = [t \in Threads |-> 0]
  /\ fetched = [t \in Threads |-> NoToken]
  /\ bearer = [t \in Threads |-> 0]
  /\ calls = [t \in Threads |-> 0]
  /\ issued = 0

(***************************************************************************)
(* Helpers.                                                                *)
(***************************************************************************)
GoTo(t, label) == pc' = [pc EXCEPT ![t] = label]

At(t, label) == pc[t] = label

\* Mutant of IsValid: the leeway is forgotten.
IsValidNoLeeway == token # NoToken /\ now < expiresAt

\* _is_valid, outside the lock as well: its reads of _token and of the clock
\* with _expires_at are one step, because _token never goes back to None, so
\* the value of the whole test is its value when _expires_at is read.
IsValid == token # NoToken /\ now < expiresAt - Leeway

\* Mutants of ShouldFetch: every forced caller fetches, or none does.
ShouldFetchForced(t) == force[t] \/ ~IsValid
ShouldFetchInvalid(t) == ~IsValid

\* _should_fetch: only the lock's holder writes the fields it reads.
ShouldFetch(t) == (force[t] /\ token.id = stale[t]) \/ ~IsValid

\* Mutant of LeaveFetch: an acquire without its release.
LeaveFetchLocked(t) ==
  /\ UNCHANGED lock
  /\ attempt' = [attempt EXCEPT ![t] = 0]
  /\ fetched' = [fetched EXCEPT ![t] = NoToken]

\* The `with self._lock` block ends, by falling through or by an exception,
\* and with it _fetch_token.
LeaveFetch(t) ==
  /\ lock' = NoThread
  /\ attempt' = [attempt EXCEPT ![t] = 0]
  /\ fetched' = [fetched EXCEPT ![t] = NoToken]

\* The request's generator ends, by its last response or by an exception.
EndCall(t) ==
  /\ GoTo(t, "idle")
  /\ force' = [force EXCEPT ![t] = FALSE]
  /\ stale' = [stale EXCEPT ![t] = 0]
  /\ bearer' = [bearer EXCEPT ![t] = 0]

(***************************************************************************)
(* _ensure_token.                                                          *)
(***************************************************************************)

\* A request enters sync_auth_flow.
Call(t) ==
  /\ At(t, "idle") /\ calls[t] < MaxCalls
  /\ calls' = [calls EXCEPT ![t] = @ + 1]
  /\ GoTo(t, "check")
  /\ UNCHANGED <<now, cache, lock, force, stale, attempt, fetched, bearer, issued>>

\* The test outside the lock.
Check(t) ==
  /\ At(t, "check")
  /\ GoTo(t, IF IsValid THEN "return" ELSE "lock")
  /\ UNCHANGED <<now, cache, lock, force, stale, attempt, fetched, bearer,
                 calls, issued>>

\* Mutant of Acquire: no lock around the refresh.
AcquireUnlocked(t) ==
  /\ At(t, "lock")
  /\ lock' = t
  /\ GoTo(t, "recheck")
  /\ UNCHANGED <<now, cache, force, stale, attempt, fetched, bearer, calls,
                 issued>>

Acquire(t) ==
  /\ At(t, "lock") /\ lock = NoThread
  /\ lock' = t
  /\ GoTo(t, "recheck")
  /\ UNCHANGED <<now, cache, force, stale, attempt, fetched, bearer, calls,
                 issued>>

\* The test under the lock: fetch, or leave with the token that is there.
Recheck(t) ==
  /\ At(t, "recheck")
  /\ \/ /\ ShouldFetch(t)
        /\ GoTo(t, "post")
        /\ UNCHANGED <<lock, attempt, fetched>>
     \/ /\ ~ShouldFetch(t)
        /\ LeaveFetch(t)
        /\ GoTo(t, "return")
  /\ UNCHANGED <<now, cache, force, stale, bearer, calls, issued>>

\* `assert self._token is not None; return self._token`, after the lock: the
\* field is read again, and the header is set to what it holds by now.
Return(t) ==
  /\ At(t, "return")
  /\ bearer' = [bearer EXCEPT ![t] = token.id]
  /\ GoTo(t, "send")
  /\ UNCHANGED <<now, cache, lock, force, stale, attempt, fetched, calls,
                 issued>>

(***************************************************************************)
(* _fetch_token, _classify and _store.                                     *)
(***************************************************************************)

\* The endpoint issues a token for the POST, and bills it.
Issue(t) ==
  /\ At(t, "post")
  /\ issued' = issued + 1
  /\ \E life \in Lifetimes :
       fetched' = [fetched EXCEPT
                     ![t] = [id |-> issued + 1, at |-> now, life |-> life]]
  /\ GoTo(t, "response")
  /\ UNCHANGED <<now, cache, lock, force, stale, attempt, bearer, calls>>

\* A transport error or a transient status with retries left.  The error may
\* come before the endpoint issued a token, or lose the response with one.
Retry(t) ==
  /\ pc[t] \in Fetching /\ attempt[t] < MaxRetries
  /\ attempt' = [attempt EXCEPT ![t] = @ + 1]
  /\ fetched' = [fetched EXCEPT ![t] = NoToken]
  /\ GoTo(t, "post")
  /\ UNCHANGED <<now, cache, lock, force, stale, bearer, calls, issued>>

\* Mutant of Raise: the error is swallowed.
RaiseSwallowed(t) ==
  /\ pc[t] \in Fetching
  /\ LeaveFetch(t)
  /\ GoTo(t, "return")
  /\ UNCHANGED <<now, cache, force, stale, bearer, calls, issued>>

\* AuthenticationError: the last retry failed, a terminal status, a response
\* that is not JSON or has no access_token; in a task, cancellation.  The
\* request ends with it.
Raise(t) ==
  /\ pc[t] \in Fetching
  /\ LeaveFetch(t)
  /\ EndCall(t)
  /\ UNCHANGED <<now, cache, calls, issued>>

\* `self._token = token`.
StoreToken(t) ==
  /\ At(t, "response")
  /\ token' = fetched[t]
  /\ GoTo(t, "store_expiry")
  /\ UNCHANGED <<now, expiresAt, lock, force, stale, attempt, fetched, bearer,
                 calls, issued>>

\* `self._expires_at = time.monotonic() + float(expires_in)`.  A value that
\* float() rejects raises here, after the token was stored.
StoreExpiry(t) ==
  /\ At(t, "store_expiry")
  /\ \/ /\ fetched[t].life # Malformed
        /\ expiresAt' = now + fetched[t].life
        /\ GoTo(t, "return")
        /\ UNCHANGED <<force, stale, bearer>>
     \/ /\ fetched[t].life = Malformed
        /\ EndCall(t)
        /\ UNCHANGED expiresAt
  /\ LeaveFetch(t)
  /\ UNCHANGED <<now, token, calls, issued>>

(***************************************************************************)
(* The response to the request.                                            *)
(***************************************************************************)

\* Any response but a first 401 is the caller's: the second 401 too.  A
\* cancelled task ends here as well.
Answer(t) ==
  /\ At(t, "send")
  /\ EndCall(t)
  /\ UNCHANGED <<now, cache, lock, attempt, fetched, calls, issued>>

\* A first 401: the API may reject any token (revoked, expired, a new key).
Reject(t) ==
  /\ At(t, "send") /\ ~force[t]
  /\ GoTo(t, "stale")
  /\ UNCHANGED <<now, cache, lock, force, stale, attempt, fetched, bearer,
                 calls, issued>>

\* `stale = self._token if force`: read from the cache, not from the request.
ReadStale(t) ==
  /\ At(t, "stale")
  /\ stale' = [stale EXCEPT ![t] = token.id]
  /\ force' = [force EXCEPT ![t] = TRUE]
  /\ GoTo(t, "lock")
  /\ UNCHANGED <<now, cache, lock, attempt, fetched, bearer, calls, issued>>

\* A task is cancelled while it waits for the asyncio lock.  Cancelled at any
\* other await it ends as by Raise (the token request and its backoff, with
\* the lock released by `async with`) or by Answer (its own request).
Cancel(t) ==
  /\ At(t, "lock")
  /\ EndCall(t)
  /\ UNCHANGED <<now, cache, lock, attempt, fetched, calls, issued>>

\* Time passes, but not past a response that is due: within MaxDelay of the
\* token's issue it is stored, or the request has timed out.
Tick ==
  /\ now < MaxTime
  /\ \A t \in Threads :
       pc[t] \in {"response", "store_expiry"} =>
         now < fetched[t].at + MaxDelay
  /\ now' = now + 1
  /\ UNCHANGED <<cache, lock, pc, force, stale, attempt, fetched, bearer,
                 calls, issued>>

\* Every thread has made its requests.
Finished ==
  /\ \A t \in Threads : At(t, "idle") /\ calls[t] = MaxCalls
  /\ UNCHANGED vars

Step(t) ==
  \/ Check(t) \/ Acquire(t) \/ Recheck(t) \/ Return(t)
  \/ Issue(t) \/ Retry(t) \/ Raise(t) \/ StoreToken(t) \/ StoreExpiry(t)
  \/ Answer(t) \/ Reject(t) \/ ReadStale(t)

Next ==
  \/ Tick
  \/ \E t \in Threads : Call(t) \/ Step(t) \/ Cancel(t)
  \/ Finished

Spec == Init /\ [][Next]_vars

\* A thread inside a request keeps running; a network call it waits on is
\* answered, or fails by its timeout.
FairSpec == Spec /\ \A t \in Threads : WF_vars(Step(t))

(***************************************************************************)
(* Properties.                                                             *)
(***************************************************************************)

\* Single flight: at most one thread talks to the token endpoint or writes
\* the cached fields, whatever the threads' interleaving (_ensure_token).
SingleFlight ==
  \A s, t \in Threads :
    pc[s] \in Critical /\ pc[t] \in Critical => s = t

\* As long as a fetch runs, it is needed: the cached token is missing, in its
\* last Leeway ticks, or the very one that the forced caller read as stale, so
\* that no caller who waited for the lock fetches over what was stored while
\* it waited.  A caller that reads `stale` after a refresh still pays again.
FetchIsNeeded ==
  \A t \in Threads :
    pc[t] \in Fetching => ~IsValid \/ (force[t] /\ token.id = stale[t])

\* `assert self._token is not None` in _ensure_token never fails.
NeverNone == \A t \in Threads : At(t, "return") => token # NoToken

\* The cache never steps back to a token issued before the one it holds: no
\* late response overwrites a newer token (_store).
CacheMovesForward == [][token'.id >= token.id]_token

\* What the resend after a 401 carries was issued after the rejected token,
\* also when another thread did the refresh (sync_auth_flow).
ResendCarriesNewerToken ==
  [][\A t \in Threads :
       At(t, "return") /\ force[t] /\ pc'[t] = "send" => bearer'[t] > bearer[t]]_vars

\* _store is between its two assignments.
Torn == \E t \in Threads : At(t, "store_expiry")

\* A token the cache calls valid has not expired at the endpoint, although
\* _store starts the lifetime when the response is handled, not when the
\* token was issued: the leeway covers the difference.  It holds for the torn
\* pair too, the new token with the old one's expiry, that other threads read
\* between _store's two assignments, unless the new lifetime may end by then.
CacheIsFresh ==
  /\ IsValid
  /\ token.life # Malformed
  /\ Torn => token.life > MaxDelay
  => now < token.at + token.life

\* Every request ends, by a response or an error: no failed fetch leaves the
\* lock held.
EveryCallEnds == \A t \in Threads : ~At(t, "idle") ~> At(t, "idle")

\* A thread asks for a token wherever _ensure_token runs, and renews from the
\* first 401 on.
PhaseOf(t) == CASE pc[t] = "idle" -> "idle"
                [] pc[t] = "send" -> "sending"
                [] OTHER -> "asking"

Renewal == INSTANCE TokenRenewal WITH
  current  <- token.id,
  phase    <- [t \in Threads |-> PhaseOf(t)],
  held     <- bearer,
  renewing <- [t \in Threads |-> force[t] \/ pc[t] = "stale"]

\* Locks, torn stores and retries are invisible to requests: the flow renews
\* one current token, and grants it as TokenRenewal says (sync_auth_flow).
ImplementsRenewal == Renewal!Spec
===============================================================================
