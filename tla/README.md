# A TLA+ model of infersoft-python

The repository is the Python SDK of the Infersoft API: a client (synchronous
and asynchronous) that authenticates with OAuth client credentials, retries its
requests, uploads documents over presigned URLs, runs extraction jobs and waits
for them. The server is not in the repository; where a module needs it, it is
modelled from what the SDK's code, comments and README rely on, and marked
external. Paths below are relative to the repository.

## 1. Inventory

| component | state | operations | what makes it correct |
|---|---|---|---|
| Token cache (`src/infersoft/_auth.py`), sync and async | `_token`, `_expires_at`, `_lock` / `_alock`; per request the generator's locals | `sync_auth_flow`, `_ensure_token`, `_fetch_token`, `_classify`, `_store` and their async twins | one fetch at a time, none by a waiter over what was fetched while it waited; no expired token is judged valid; the cache never moves back; a resend carries a newer token; the lock is released on every exit |
| HTTP engine (`src/infersoft/_http.py`) | per call `attempt`; `_max_retries`; the pool | `request`, `_send`, `_retry_delay`, error mapping | a write takes effect at most once; what a call reports is what happened; the budget is exact; the loop ends |
| Presigned transfers (same file) | `attempt`; a second pool without auth; `_upload_max_retries` | `put_presigned`, `get_presigned` | a transfer that returns has moved the bytes; a dead URL is not retried |
| Wait loops (`src/infersoft/_wait.py`, `jobs.wait`, `documents.wait_until_ready`) | deadline, last value, unknown statuses warned about | `poll_until`, `apoll_until`, `warn_once_unknown_status` | what is returned is so; timeouts are due; the overrun is bounded; the wait ends |
| Uploads (`resources/documents.py`, `models.py`) | per run: outcomes, pinned project and tags, batch number, base key | `upload`, `upload_many`, `_upload_batch`, `on_duplicate` | one document per file, also over crashes and re-runs; one project; what a run reports is so |
| Extraction pipeline (`_client.py`, `resources/jobs.py`) | upload result, estimate, job | `extract`, `jobs.run` with its credit gate, `jobs.results` | nothing is started above the budget; a job gets the ready documents; an error hands over what there is |
| Projects (`resources/projects.py`) | none | `create`, `get_or_create`, `assign_documents`, `get`, `search` | one project per name, also with two clients and with a creation that outlasts its call |
| Pagination (`iterate` of every resource) | page number | `iterate`, oldest first; `jobs.iterate`, newest first | no item twice, none skipped without a removal |
| Folders and document writes (`resources/folders.py`, `documents.py`) | none | `create`, `rename`, `move`, `bulk_delete`, `resolve_paths`, `move_to_folder`, `delete` | a retry does not stumble over its own first request; what was reported is final |
| Downloads (`documents.download`) | the directory | target name, existence test, signed URL, fetch, write | what a download reported stays until a call writes that may replace it |
| Client, copies (`_client.py`, `copy_with`) | the two pools, `_owns_client`, the budgets | `with_options`, `close`, context managers | a copy never closes what its original uses; a call obeys the options it was made with |
| Errors, models, selectors, prompts | none | tables, declarations, builders | status-to-exception table; argument rules |

How they interact. A resource method calls `HttpClient.request`; `_send` gives
the request to httpx, which runs `sync_auth_flow` around it. So one logical call
contains two loops that send: `_send`'s attempts and, inside each attempt, the
auth flow's one resend after a 401. All threads of a client share one auth object
and its lock, and the lock is held over the token request with its own retries.
Wait loops, pagination, uploads, downloads and the extraction pipeline are built of such
calls and hold no lock, so the server changes between any two of them. The copies of a
client (`with_options`) share its auth object and its two connection pools.

What is hard: threads and tasks interleaving at the token cache (reads outside the
lock, a pair of fields stored by two assignments); requests that are lost, delayed,
reordered or executed though they timed out; a process that dies and is re-run
with a persisted idempotency key, perhaps while the first one still runs; statuses
and lists read page by page while they change; deadlines met in the middle of a
fetch; a pipeline whose steps fail one after the other with documents and credits
already spent; writes without a key whose late duplicate meets what others did since;
files that are checked before a fetch and written after it. `PROJECT.json` lists these hazards at their lines.

## 2. Modules

How they compose. `HttpSend` implements `ExactlyOnce`, and the modules above it
take a request as `ExactlyOnce` promises it: one step that takes effect once and
reports, or one that fails with its effect or without. `ExtractPipeline` takes a
wait as what `PollUntil` establishes: it returns when everything is done, or times
out. `Download` is the other composition: it EXTENDS `PresignedTransfer`, which EXTENDS
`ClientPool`, and its calls, the transfers and the handles of the client run in one
next-state relation. Two more modules state what a component promises: `TokenRenewal` (implemented
by `TokenCache`) and `BulkImport` (implemented by `UploadMany`).

### TokenCache, TokenRenewal (`_auth.py`)

`TokenCache` has one process per thread. `pc[t]` is where the thread is in
`sync_auth_flow`:

    idle -Call-> check -Check-> return | lock
    lock -Acquire-> recheck -Recheck-> post | return
    post -Issue-> response -StoreToken-> store_expiry -StoreExpiry-> return | idle
    post, response -Retry-> post, -Raise-> idle
    return -Return-> send -Answer-> idle, -Reject-> stale -ReadStale-> lock
    lock -Cancel-> idle

Each action runs from one access of shared state to the next. `_store`'s two
assignments are two actions, because `_is_valid` and `return self._token` run
outside the lock in other threads. `_is_valid` reads `_token`, the clock and
`_expires_at`; it is one step at the read of `_expires_at`, because `_token` never
goes back to `None` and the clock read before it is at most a tick older. Tokens
are numbered in the order of issue and remember when they were issued and for how
long, so that `CacheIsFresh` can compare the client's judgement with the
endpoint's, also for the torn pair between the two assignments (as long as the new token
lives longer than its response was under way). A malformed `expires_in` (a value `float`
rejects) raises between the two assignments.

The module covers the asynchronous flow too. It consists of the same statements;
tasks interleave only at awaits, so every interleaving of tasks is one of threads,
and the one thing tasks add is `CancelledError`. Raised at the lock it is `Cancel`;
raised in the token request or its backoff it ends the request and leaves `async
with`, as `Raise` does; raised in the request itself it is `Answer`.

`TokenRenewal` is the promise to the requests: one current token, replaced only
by newer ones and only while somebody asks; after a 401 a request is granted a
newer token than the rejected one. The refinement reads `current` from
`_token`, `held` from the Authorization header and hides the lock, the retries
and the torn store.

### HttpSend, ExactlyOnce (`_http.py`, `request` and `_send`)

`HttpSend` has one process per call of `request` (`Send`, `Receive`,
`TransportError`, `AuthFails`, `Crash`), a network that is a set of requests on
their way, and an API. `Receive` is the whole of what follows a response: the
auth flow's resend if it is a first 401, else `_is_retryable_response`, the
budget, and the end. `TransportError` may come at any time while a call waits and
drops only the connection: the request stays in the network or in execution, so it
may take effect later. Responses go to the connection that waits for them, or are
lost. A crashed process that is run again with its key is another call with the
same key. `AsyncHttpClient` is the same code with awaits.

The API is external: a keyed request executes once, its response is recorded in
the transaction that has the effect and replayed from then on; a request that finds
the key executing is answered 409 `request_in_progress`; an execution that fails
with a 5xx leaves nothing behind. These are the facts the README's section on
idempotency and the comments in `_http.py` rely on. The record's retention window,
which the README calls server-defined, is taken as longer than the run. A 3xx is a status like
others that are turned away, but no error to `request`, which returns: callers that parse a body
raise on it, and `documents.delete`, which wants none, reports success. `OutcomeIsTrue` speaks of
answers of the API, not of those.

`ExactlyOnce` is the promise: each operation settles once, done or refused, and a
call that reports a conclusive result reports that one.

### ClientPool (`_client.py`, `copy_with`, `close`)

The names under which a program holds a client and its copies, and the two pools, one
for the API and one for presigned transfers, which all of them share. `WithOptions`
makes a copy of any handle, a copy included, and may reuse a copy's name; `CopyWith` is
the merge of the given overrides. `Close` is called on any handle, also by a context
manager that exits; on the original it closes the API's pool, and `CloseUploads`, a step
of its own, the other one. Closing an async client has an await in between, and other threads or
tasks see the half-closed client. `asked` is a history: the last value given for each
option on the way from the constructor to the handle.

### PresignedTransfer (`_http.py`, `put_presigned` and `get_presigned`)

One process per transfer, over a network as above, through a handle of `ClientPool`: a
call keeps the client object it was made on, so `Bind` reads the budget once. `Receive` tells apart
what the code does: a transient status within the budget, an error status, and everything
else, which is success; 3xx is "everything else" because the check is
`resp.is_error` and httpx follows no redirect unless asked. `MayRedirect` says whether the
storage ever redirects. A dead URL is a 403 at any time. A request whose response was
given up may still arrive and store its bytes. A closed pool raises out of the loop
(`Send`). The budget is `_upload_retry_budget`: `upload_max_retries` if it is set, zero
included, else `max_retries`.

### Download (`documents.download`)

One process per call: `Download` (the arguments), `Check` (the name is known:
resolve the target, look whether it exists), `Signed` (a URL of the call's own, and the
transfer begins), `FetchFails` or `Open` and `Write`, with `ApiFails`, `OpenFails` (nothing is
changed), `WriteFails` (the file stays torn), a `Crash` of the process and, for the asynchronous client, `Cancel` while the thread of
`asyncio.to_thread` writes: the thread goes on. `write_bytes` is two steps, because it
empties the file before it fills it. Other calls upload meanwhile. `Base` is the last component of
a name, given as a sequence of components; `Refused` are the names that `_resolve_download_target`
raises on: those that end in `..` or are empty, and those (`Outside`) under which `dest_dir` has a
link that leads out of it. `dest_dir` is taken to be a directory without links that lead to other
files in it; calls that pass `file_name` are those of documents with that name. What a crash leaves
is found by the calls that begin after it. `met` is a history of how calls met at their file when
one of them opened it: the other had looked and not yet opened, had opened before, or had it open
still. A file counts as spoilt only by a call that wrote at the same time, or that wrote later and
was told to overwrite or had looked too early.

### PollUntil (`_wait.py`)

One process, the loop: `Read` (one item of the running fetch), `Return`, `Expire`,
`Sleep`, `Wake`, `FetchFails`. The server's `Progress` changes statuses at any
time, `Tick` passes time; timers count down from the constants, so no clock is
bounded. Whether there is a deadline is chosen at the start (`None`, zero and negative
values set none). A fetch is no snapshot: items are read one by one, and when a document
disappears, a later page may skip one that is there. Done statuses may be left (a ready document is
deleted, or processed again), so that what was read as done on one page need not be done when the
last page is read; `fresh`, a history, holds the items that were done at some time since
the last fetch began, and `ReturnsOnlyDone` says that a wait returns over those. `warn_once_unknown_status` is
part of the step that ends the fetch, as `done` calls it. A fetch takes at most
`MaxFetch` ticks and a sleeper wakes on time. `apoll_until` is the same loop.

### UploadMany, BulkImport (`documents.upload_many`, `_upload_batch`)

Several runs of one import. A run goes through `Start`, then for each batch `Plan`
(the keyed POST) or `PlanFails`, one step per file in any order (`Put`, `PutFails`,
`Skip`, `SkipFails`, `Reject`), `BatchDone` (collect the outcomes, pin the project
and the tags, call `on_batch`, which may raise), and at the end `WaitEnds`. It may `Crash` at any
point, and another run with the same base key may begin before it has ended. The
server's record maps the derived key `<base>-<batch>` to the plan: what was asked,
each file's verdict, the project. A replay returns the same plan, with URLs that
`Expire` in between. A key reused with another request is refused. Each run has an `on_duplicate` mode of its own, which
is no part of the request: a known duplicate that runs with one key treat differently is `Contested`, and only
for such files `ReportIsTrue` and the refinement make no claim. External
assumptions: names are unique on the server, deleting a deleted document does no
harm, a tag's name resolves to its id, the record outlives the runs, the response names the
project that was asked for (the code's `result.project is not None` is for uploads without one),
and its items are the batch's files: an item of another name, which the code would report as neither
uploaded nor failed (`documents.py:321`), and a file without an item do not occur.

`BulkImport` is the promise of "Bulk imports" in the README: however often the
import is interrupted and run again, a file has one fate, and every run tells that one.

### ExtractPipeline (`Client.extract`, `jobs.run`)

One pipeline over local files, given ids or selectors (`source`): `Call`, `Plan`, `Put`,
`PutFails`, `Uploaded`, `Awaited` or
`TimeOut`, `Estimate`, `Gate`, `Start`, `JobEnds`, `Results` or `Flatten`; any request may fail
(`RequestFails`), with or without its effect, and `Raise` records which of `upload` and `job`
the error carries. `Refuse` is the check of the arguments. A program that gets an error may call again,
with the documents and the jobs of the first call still on the server. Other clients delete
documents, the jobs run. A document that
holds the name of a rejected file belongs to somebody else, and its id is in the
conflict's outcome.

### ProjectCatalog (`projects.get_or_create`, `assign_documents`, `iterate`)

Callers of `get_or_create` with one name, of `assign_documents(project_name=...)` and of `iterate`, over a
catalog that others insert into and remove from.
`Find`, `Miss` and `Read` are one page each (the request and the loop's body over its items);
`Create`, `LoseRace` and the second scan follow the code. A request that was given up may still
`Execute`: `Outlasted` is the creation whose retries are all answered 409 "in progress",
which `get_or_create` takes for a lost race; `RaceIsResolved` allows it to surface only if the scan
that follows had no winner to find. Page p is cut out of the
projects in the order of their ids, oldest first or, for `jobs.iterate`, newest first; ids grow.
The module stands for the `iterate` loops of documents, folders, projects and jobs, which are the
same. `prompts.iterate` orders by name, where an insert may land on any page; the properties are not
claimed for it.

### LibraryWrites (`folders`, and the writes of `documents`)

Each caller makes one call of `folders` or of `documents`, whose `Options` (method, key,
`idempotent`) are those that the code passes to `request`; `Retried` is `request`'s
decision. `TimeOut` sends again or gives up; requests that were given up stay on the wire
and `Arrive` at any time, or never. The API (external) executes a keyed request once and replays its
answer, and executes every request without a key. `ensure_path` is `resolve_paths` of one path.

### MC and proof modules

The `MC...` modules give the instances their sets. `MCCatalog` has `ProjectCatalog` and
`LibraryWrites`, which share nothing: a behaviour is of one or of the other. `MCDownload` has
`Download` with the modules it extends. The `...Proofs` modules hold the theorems. Definitions whose comment
begins "Mutant of" are the plausible bugs that `PROJECT.json` pairs with the
property that catches them; no specification uses them.

## 3. Runs

| run | instance | shows |
|---|---|---|
| `token_cache` | 2 threads, 1 retry, lifetimes 1, 3 and malformed, leeway 1, clock to 3, `FairSpec` | `CacheIsFresh`, `SingleFlight`, `FetchIsNeeded`, `ResendCarriesNewerToken`, `EveryCallEnds`, refinement of `TokenRenewal` |
| `http_keyed` | a keyed write and its re-run, 2 retries each | `OutcomeIsTrue`, `GivesUpLast`, refinement of `ExactlyOnce` |
| `http_unkeyed` | a write without a key beside a retried search, 2 retries, `FairSpec` | `AtMostOnce`, `OneShotIsConclusive`, `EveryCallEnds` |
| `poll` | 2 documents that may be deleted or processed again when ready, with a deadline of 4 or none, interval 2, fetch up to 2, `FairSpec` | `ReturnsOnlyDone`, `TimeoutIsDue`, `OverrunIsBounded`, `UnknownIsDiagnosed`, `WaitEnds` |
| `upload_resume` | 2 runs with one key, each `allow` or `block`, 3 files in batches of 2, project by name, a tag by id and one by name, `wait` | `NothingDuplicates`, `SameSettings`, `NeverMismatched`, `ReportIsTrue`, `ReportIsComplete`, refinement of `BulkImport` |
| `extract` | 3 files, each form of call, 2 calls, documents that cost 0 or 1, budget 0 or none | `JobWithinBudget`, `JobGetsReadyDocuments`, `ErrorHandsOver` |
| `catalog` | projects: 2 callers, pages of 2, 4 projects in all; library: 2 callers, one of them async, 2 paths, 1 document, 3 folders in all, 2 requests each | `OneProject`, `RaceIsResolved`, `YieldsOnce`, `SkipsNothing`; `ReportedIsFinal`, `RefusalIsTrue` |
| `download` | 2 calls of download or upload, 4 documents (two with one name, one with none, one whose name is a link out of the directory), a client and a copy, `max_retries` 1, options that set each budget, 0 included | `DownloadIsKept`, `ReturnMeansMoved`, `BudgetIsAsked`, `OnlyOriginalCloses` |
| `upload_await` | 1 run, 2 files | finding 1 |
| `upload_partial` | 1 run, 2 files | finding 2 |
| `presigned_redirect` | as `download`, the storage redirects | finding 3 |
| `extract_rejected` | as `extract` | finding 4 |

The type invariants of `UploadMany`, `ExtractPipeline`, `Download` (with those of the modules it
extends) and `ProjectCatalog` are checked in these runs too. Those of `TokenCache`, `HttpSend`,
`PollUntil` and `LibraryWrites`, and `AtMostOnce` for calls with keys, are not checked here but proved (section 5).

Why the bounds are enough. Two threads show every race on a pair of fields and a
waiter behind the lock's holder. Lifetimes on both sides of the leeway and a clock that
reaches past the leeway cover fresh, leeway and expired tokens in one run, and each request may
be answered 401. One retry in the token flow and two in `_send` have a first, a middle
and a last attempt. Two calls with one key are a first run and its re-run; a third would
meet the same record. For the wait loop the deadline falls into a fetch, a sleep and
onto their borders. Three files in batches of two are a full batch and a last, short one:
pinning needs a second batch, and a run can die between the two. Four projects on pages of two
are a page that is read and one ahead of it when the catalog changes, and leave room for the
winner of a race, for one made after it was removed, and for others. Two callers of the library
and two requests each are a call, its late duplicate, and the call that comes between; three
folders are one that was there, its successor, and one that should not be. Two downloads meet, or one comes
after the other, or after a crash; with more, only further pairs of the same kind arise. Two handles, whose
copy may be copied again, make chains of any length. A budget of zero is the budget that a truth test would overlook. The theorems remove the
bounds of their modules.

## 4. Fairness

`TokenCache!FairSpec` and `HttpSend!FairSpec` ask weak fairness of each thread or
call: a Python thread that can run does run, and a network call it waits on is
answered or fails by its timeout (30 s for the token, httpx's timeouts for the
rest). `threading.Lock` promises no order; weak fairness of a thread that waits at
the lock is still enough, because each thread makes a bounded number of requests,
so the lock is free for good in the end. With unbounded requests a thread may
starve, in the model as in Python. Cancellation is not among the fair steps. Nothing
is asked of the server. `PollUntil!FairSpec` asks that the loop runs and that time
passes; no progress of the documents is assumed, and `WaitEnds` states the condition
under which a wait without a deadline ends.

## 5. What is proved

All theorems hold for every value of the constants that satisfies the modules'
named assumptions.

`TokenCacheProofs`. The inductive invariant ties the lock to the program counters
(a thread in the critical section holds it), bounds the ids (cached, fetched and
carried tokens were issued; what is being fetched is newer than the cache, and a
thread between its 401 and its resend carries a token no newer than the one it read as
stale), and bounds time (a response is stored within `MaxDelay` of its issue, so
`expiresAt` is at most `MaxDelay` late). `SingleFlight` alone is not inductive, and
`CacheIsFresh` needs `MaxDelay <= Leeway`, the code's 30 s timeout against its 60 s
leeway (`DelayAssumption`). From it: `FetchIsNeeded`, `CacheIsFresh`,
`ResendCarriesNewerToken`, the refinement of `TokenRenewal`, and two properties that no
run lists because the refinement implies them: `NeverNone` (the code's
`assert self._token is not None` cannot fail) and `CacheMovesForward`. Two more are action
properties. `LockIsHandedOver`: the lock passes from a thread that leaves the `with` block to
nobody and from nobody to a waiter, whether the block ends, raises or is cancelled, so it is never
lost. `StepsAreBounded`: a request takes at most `16 + 4 * MaxRetries` steps; each uses up one of a
measure that no other thread gives back.

`HttpSendProofs`. The inductive invariant says what every request in the network or in
execution can still do: at most one request of an unkeyed write whose retries are off has
not been turned away, a keyed operation executes only while its record says so, a
recorded success is one effect and a recorded refusal none, and a response on a
connection agrees with the record. From it: `AtMostOnce`, `OutcomeIsTrue`,
`OneShotIsConclusive`, `GivesUpLast`. With one conjunct more, that a write without a key which
was refused has nothing under way and will not be sent again (`RefusedInv`), also the refinement
of `ExactlyOnce`. With a second, that counts the requests of a call by its attempts and resends
and holds the results of a key together: `SameKeySameAnswer` (two calls with one key, of one
process or of a run and its re-run, never report different recorded results) and `SendsAreBounded`
(the loops of `_send` and of the auth flow multiply, to two requests per attempt and no more).
`EveryMoveCounts` is an action property: every move of a call uses up a bounded measure.

`PollUntilProofs`. The invariant relates what a fetch has read to the server (what is done, and what it has read as done, is in `fresh`) and the timers to the
deadline (a sleep starts before the deadline, a fetch at most one interval after it). From it:
`ReturnsOnlyDone`, `TimeoutIsDue`, `OverrunIsBounded`, `UnknownIsDiagnosed`; and, where done statuses
are final, as those of jobs are, that everything still is done when the wait returns
(`TerminalIsReturned`). `WaitIsBounded` is an
action property: each step of a wait with a deadline ends it or goes down in a lexicographic
order of ticks, stages and items to read, which nothing the server does can raise.

`LibraryWritesProofs`. The inductive invariant has one conjunct for each way in which the code
makes a call safe to retry: a keyed call changes something only in the step that makes its record, and
answers what is recorded; what `delete` removed stays gone; `get` and `search` change nothing; and
a resolved path has a folder until one leaves it. `RefusalIsTrue` alone is not inductive: it needs
that an answer to a keyed call agrees with its record. From it: `RefusalIsTrue`, `ReportedIsFinal`,
for any number of callers, paths, documents and requests. With a count of a call's changes it
gives `ChangesOnce`: however many of a call's requests arrive, and however late, it changes the
library at most once, and `resolve_paths` again only after its folder has left the path.

`DownloadProofs`. The inductive invariant says who owns the pools and which options a
handle has; how many requests a transfer has made at each place of its loop; what a call has
found out when it is at a place in the code; and that, where one call writes or has written, another
that is on its way to the file was told to overwrite or had looked before, and one that has it open
may spoil it (`KeptInv`). From it: `OnlyOriginalCloses`, `BudgetIsAsked` for any chain of copies, and, for a
storage that does not redirect (finding 3), `ReturnMeansMoved` and `DownloadIsKept`. Two more
are about the files of calls that fail, are cancelled or die: `OldIsProtected` (an action property:
a file that was there before is overwritten only if some call was told to) and `TornIsExplained` (a
torn file is being written, or a call broke off over it, or two had it open at once).

`ExtractPipelineProofs`. The inductive invariant ties each job to the call that started it,
says what is known of the documents at each place on the way to the job, and that the gate has
passed on what is started. From it: `JobWithinBudget` and `JobGetsReadyDocuments`, for any number of
files and calls and any prices. A second invariant follows the call on its way to its own job:
`OneJobPerCall` (also when the start fails after it took effect) and `ResultIsOfOwnJob`. The two
together give `ErrorHandsOver`: an `ExtractError` has the call's one job or there is none, and an
error over arguments, a transfer or the budget comes before a job was started. A request that fails
or a wait that times out says nothing of the sort, and may leave a job behind.

`ProjectCatalogProofs`. The invariant of a scan relates items to pages by their rank: what was
yielded lies behind the scan, and what lies behind it was yielded, as long as nothing shifted
the pages; lemmas about division turn a rank that moves by one into a page that moves by one at
most. Names are unique, and the winner of a race lies ahead of the scan that looks for it. From
it: `YieldsOnce` and `SkipsNothing` for any page size, `OneProject` and `RaceIsResolved` for
any number of callers. `RequestsAreBounded` is an action property: `get_or_create` makes at most
two scans and one creation, whoever wins the races and however the catalog changes; a scan has as
many pages as all projects that are ever created fill.

`UploadManyProofs`. The plans of a key are a chain: each was asked with what the one before it
pinned, and a run that is about to ask asks what the chain says. That alone makes re-runs
repeat themselves, and no property of the runs is needed. Documents follow their plans and are
deleted only by a run that blocks duplicates, and an outcome agrees with the plan, the run's
mode and the document. From it: `NeverMismatched`, `ReportIsTrue`, `ReportIsComplete`, and, for
runs that all have one base key (`OneImport`), `NothingDuplicates`, `SameSettings` and the
refinement of `BulkImport`. Without `OneImport`, for any number of imports side by side:
`OneDocumentPerImport` and `SettingsPerImport` say the same of each import; `RunsAgree`, that two
of its runs never tell different outcomes of a file; `OneLiveDocument`, that imports with different
keys still make one live document of a file and project at most. Two are action
properties: `StoredIsKept` (no re-run deletes what an import has stored) and `ReportIsFinal`.
`RunsAgree` and `StoredIsKept` except files that runs of different modes contest.

The type invariants of all components are theorems too. Only model-checked: `EveryCallEnds` of `TokenCache` and
`HttpSend` and `WaitEnds` of `PollUntil`, since liveness is out of the prover's reach. What of
them is safety is proved: `StepsAreBounded`, `EveryMoveCounts` and `WaitIsBounded` say that a call
cannot go on for ever, and leave to TLC that, under fairness, it cannot stand still. `WaitIsBounded`
is about waits with a deadline; `WaitEnds` without one rests on the server as well.

The properties that are proved and listed in no run (`SameKeySameAnswer` and those after it above)
are defined in the proof modules, beside the invariants they follow from.

## 6. Findings

1. `upload_await`. `upload_many(wait=True)` waits for `total.document_ids`, which lists
   every outcome with an id: also the placeholders that `on_duplicate="block"` has just
   deleted, and the existing documents of name conflicts. A deleted document is never
   ready, so the wait ends in `WaitTimeoutError`. The docstring (`resources/documents.py:369-370`)
   says readiness is awaited "over all uploaded documents".
2. `upload_partial`. `UploadManyError.partial` "aggregates everything uploaded before the
   failure" (`errors.py:59-60`), but the outcomes of the failing batch are a local of
   `_upload_batch`; files of it that were already stored are missing.
3. `presigned_redirect`. `put_presigned` raises only on 4xx and 5xx. A 3xx answer is
   neither retried nor raised, and the caller reports the file as uploaded.
4. `extract_rejected`. The README (`README.md:115`) says that `extract` raises when the
   server rejects every file. The code aborts only if `document_ids` is empty; a name
   conflict's outcome has the id of the existing document, so a job is run on that.

Other divergences were met while modelling and have no run of their own. `_ensure_token(force=True)`
reads `stale` from the cache when it handles the 401 (`_auth.py:176`): if another thread
refreshed while the request was under way, the fresh token is taken for the rejected one and
fetched over, where the docstring of `_should_fetch` speaks of the token "the caller saw". And
`poll_until` reads the clock after the fetch: an item that became done after it was read and
before the deadline is lost to the timeout, although the docstring (`_wait.py:69-70`) says a
result that arrives right at the deadline still wins; `TimeoutIsDue` states by how much.
The docstring of `resolve_paths` calls it naturally idempotent (`folders.py:116`), and it is retried without a key;
a late duplicate makes a folder again that was moved or deleted since, which `ReportedIsFinal` has
to except. `documents.delete` reports `NotFoundError` for its own success when the first response was lost (`RefusalIsTrue` excepts it).
A file that a crash left torn makes the next `download` without `overwrite` raise `FileExistsError`, as if it
were the user's. Two downloads of documents with one name that both look before either writes both
return, and one file is lost, although neither was told to overwrite (`README.md:149-156` gathers
downloads into one directory; `MaySpoil` excepts them). `get_or_create` takes the 409 of its own creation, still in
progress, for a lost race and raises `ConflictError` when there is no winner yet; `RaceIsResolved` excepts
that and no more. An import that is
re-run with another `on_duplicate` mode uploads what the first run deleted (`Contested`). And `request` takes a
redirect for a success (`_http.py:205`), which only the callers of `documents.delete` would not notice.

## 7. Not modelled, and the plan

Left out for good: parsing and formatting of bodies, logging, the pydantic declarations, the
prompts' reads, the package's re-exports. Builders of selectors have no state, and
what a selector matches is the server's. The length of a delay (`_backoff`, `_retry_delay`) is time that passes,
nothing else depends on it. A local file that changes between the plan and its PUT, and what
a caller learns when its `on_batch` raises, are hazards without a property: nothing in the repository
says what should happen.

Next, in this order:

1. the token cache inside `HttpSend`'s attempts, in place of `AuthFails`: one specification
   composed of both, for the properties that each states with the other abstracted;
2. tasks of `AsyncHttpClient` that are cancelled and whose program goes on, where `Crash` ends it;
3. the pure definitions that are left (the table of status classes in `raise_for_problem`, the
   file names and content types of an upload), against reference definitions.
