------------------------------- MODULE ClientPool -------------------------------
(***************************************************************************)
(* A client and its copies (src/infersoft/_client.py, _http.py): all       *)
(* handles made by with_options share the two connection pools of the      *)
(* original, one for API requests and one for presigned transfers.  Each   *)
(* has retry budgets of its own, and only the original may close the       *)
(* pools.  The async client is the same.                                   *)
(***************************************************************************)
EXTENDS Integers

CONSTANTS
  Handles,           \* the names the program holds clients under
  Original,          \* the one that the constructor returned
  NoClient,          \* under a name that is not in use
  MaxRetries,        \* max_retries
  UploadMaxRetries,  \* upload_max_retries; Unset for None
  Options            \* arguments of with_options; Unset where left out

Unset == -1

ASSUME HandlesAssumption == Original \in Handles

ASSUME BudgetAssumption ==
  /\ MaxRetries \in Nat /\ UploadMaxRetries \in Nat \cup {Unset}
  /\ Options \subseteq [max : Nat \cup {Unset}, upload : Nat \cup {Unset}]

VARIABLES
  client,  \* the client under each name, or none
  open,    \* the pools that are open
  asked,   \* history: the last of each option asked for on the way to the client
  closed   \* history: close() was called on an original

poolVars == <<client, open, asked, closed>>

Pools == {"api", "upload"}

Client == [max : Nat, upload : Nat \cup {Unset}, owns : BOOLEAN]

ASSUME NoClientAssumption == NoClient \notin Client

PoolTypeOK ==
  /\ client \in [Handles -> Client \cup {NoClient}]
  /\ open \subseteq Pools
  /\ asked \in [Handles -> [max : Nat, upload : Nat \cup {Unset}]]
  /\ closed \in BOOLEAN

Made == [max |-> MaxRetries, upload |-> UploadMaxRetries, owns |-> TRUE]

NewClient == [h \in Handles |-> IF h = Original THEN Made ELSE NoClient]

FirstAsked == [h \in Handles |-> [max |-> MaxRetries, upload |-> UploadMaxRetries]]

PoolInit ==
  /\ client = NewClient
  /\ open = Pools
  /\ asked = FirstAsked
  /\ closed = FALSE

\* A later process makes its client anew.
PoolRestart ==
  /\ client' = NewClient
  /\ open' = Pools
  /\ asked' = FirstAsked
  /\ UNCHANGED closed

Given(n, old) == IF n # Unset THEN n ELSE old

\* Mutants of CopyWith: the copy keeps owning the pools, or an override of 0 is
\* taken for none.
CopyOwning(c, o) ==
  [max |-> Given(o.max, c.max), upload |-> Given(o.upload, c.upload),
   owns |-> c.owns]
CopyIfTrue(c, o) ==
  [max |-> IF o.max > 0 THEN o.max ELSE c.max,
   upload |-> IF o.upload > 0 THEN o.upload ELSE c.upload, owns |-> FALSE]

\* copy_with: the overrides that are given; never the owner of the pools.
CopyWith(c, o) ==
  [max |-> Given(o.max, c.max), upload |-> Given(o.upload, c.upload),
   owns |-> FALSE]

\* n = h.with_options(...), where n may be the name of an earlier copy.
WithOptions(h, n, o) ==
  /\ client[h] # NoClient /\ n # Original
  /\ client' = [client EXCEPT ![n] = CopyWith(client[h], o)]
  /\ asked' = [asked EXCEPT ![n] = [max |-> Given(o.max, asked[h].max),
                                   upload |-> Given(o.upload, asked[h].upload)]]
  /\ UNCHANGED <<open, closed>>

\* close: the owner closes the API's pool first.
Close(h) ==
  /\ client[h] # NoClient /\ "api" \in open
  /\ open' = IF client[h].owns THEN open \ {"api"} ELSE open
  /\ closed' = (closed \/ h = Original)
  /\ UNCHANGED <<client, asked>>

\* The second half of the owner's close.
CloseUploads ==
  /\ "api" \notin open /\ "upload" \in open
  /\ open' = {}
  /\ UNCHANGED <<client, asked, closed>>

PoolNext ==
  \/ \E h, n \in Handles, o \in Options : WithOptions(h, n, o)
  \/ \E h \in Handles : Close(h)
  \/ CloseUploads

\* _upload_retry_budget.
UploadRetryBudget(c) == IF c.upload # Unset THEN c.upload ELSE c.max

\* The retries that the options ask for: upload_max_retries wherever it was
\* given, else max_retries.
BudgetAsked(h) ==
  IF asked[h].upload = Unset THEN asked[h].max ELSE asked[h].upload
===============================================================================
