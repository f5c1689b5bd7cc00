---------------------------- MODULE ExtractPipeline ----------------------------
(***************************************************************************)
(* Client.extract (src/infersoft/_client.py), with jobs.run and            *)
(* jobs.results (resources/jobs.py): upload and wait, price, compare with  *)
(* the budget, start the job, wait, read the results.  A program that gets *)
(* an error may call it again.                                             *)
(*                                                                         *)
(* Each request is one step: it takes effect or not, and reports or fails  *)
(* (HttpSend); a wait is one step that returns when everything is done, or *)
(* times out (PollUntil).  Between any two steps the server goes on and    *)
(* other clients delete documents.  A document is named by its file.       *)
(***************************************************************************)
EXTENDS Integers, FiniteSets, Sequences

CONSTANTS
  Files,     \* the files to extract from, and the documents that have their names
  Prices,    \* credits a document may cost
  Limits,    \* max_credits; NoLimit for None
  MaxCalls   \* bound: calls of extract that the program makes

NoLimit == -1

ASSUME PipelineAssumption ==
  /\ IsFiniteSet(Files) /\ Files # {}
  /\ Prices \subseteq Nat /\ Limits \subseteq Nat \cup {NoLimit}
  /\ MaxCalls \in Nat \ {0}

VARIABLES
  \* the server
  doc,       \* the document with each file's name; foreign: there before the calls
  jobs,      \* the jobs that were started, by all calls
  \* the arguments
  source,    \* files, document_ids or selectors
  limit,     \* max_credits
  raising,   \* raise_on_failure
  \* the pipeline
  calls,     \* calls that were made
  pc,
  verdict,   \* the plan's answer for each file
  uploaded,  \* outcomes with uploaded=True
  ids,       \* document_ids, or what the selectors match
  estimate,  \* the estimate's total_credits
  job,       \* the job the pipeline holds, 0 for none
  values,    \* the documents the result has values of
  error      \* what was raised, and whether it carries upload and job

server    == <<doc, jobs>>
arguments == <<source, limit, raising>>
locals    == <<verdict, uploaded, ids, estimate, job, values>>
vars      == <<server, arguments, calls, pc, locals, error>>

Terminal == {"completed", "partial_success", "failed"}
Verdicts == {"put", "conflict", "error"}
Errors   == {"arguments", "transfer", "request", "timeout", "extract", "credits",
             "value"}

NoError == [kind |-> "none", upload |-> FALSE, job |-> FALSE]

Job == [state : {"running"} \cup Terminal, docs : SUBSET Files, price : Nat, by : Nat]

TypeOK ==
  /\ doc \in [Files -> {"none", "placeholder", "stored", "ready", "foreign", "gone"}]
  /\ jobs \in Seq(Job) /\ Len(jobs) <= MaxCalls
  /\ source \in {"files", "document_ids", "selectors"}
  /\ limit \in Limits /\ raising \in BOOLEAN
  /\ calls \in 0..MaxCalls
  /\ pc \in {"idle", "plan", "put", "await", "estimate", "gate", "start", "job",
             "results", "returned", "raised"}
  /\ verdict \in [Files -> Verdicts \cup {"none"}]
  /\ uploaded \subseteq Files /\ values \subseteq Files
  /\ ids \subseteq Files
  /\ source = "files" => ids \subseteq {f \in Files : verdict[f] \in {"put", "conflict"}}
  /\ estimate \in Nat
  /\ job \in 0..Len(jobs)
  /\ error \in [kind : Errors \cup {"none"}, upload : BOOLEAN, job : BOOLEAN]

Init ==
  /\ doc \in [Files -> {"none", "foreign"}]
  /\ jobs = <<>>
  /\ source \in {"files", "document_ids", "selectors"}
  /\ limit \in Limits /\ raising \in BOOLEAN
  /\ calls = 0 /\ pc = "idle"
  /\ verdict = [f \in Files |-> "none"]
  /\ uploaded = {} /\ ids = {} /\ values = {}
  /\ estimate = 0 /\ job = 0
  /\ error = NoError

Live(f)  == doc[f] \in {"placeholder", "stored", "ready", "foreign"}
Ready(f) == doc[f] \in {"ready", "foreign"}

(***************************************************************************)
(* The server and its other clients (external).                            *)
(***************************************************************************)
Process(f) ==
  /\ doc[f] = "stored"
  /\ doc' = [doc EXCEPT ![f] = "ready"]
  /\ UNCHANGED <<jobs, arguments, calls, pc, locals, error>>

Delete(f) ==
  /\ Live(f) /\ pc \notin {"returned", "raised"}
  /\ doc' = [doc EXCEPT ![f] = "gone"]
  /\ UNCHANGED <<jobs, arguments, calls, pc, locals, error>>

Work(j) ==
  /\ jobs[j].state = "running"
  /\ \E end \in Terminal : jobs' = [jobs EXCEPT ![j].state = end]
  /\ UNCHANGED <<doc, arguments, calls, pc, locals, error>>

AddJob ==
  jobs' = Append(jobs, [state |-> "running", docs |-> ids, price |-> estimate,
                        by |-> calls])

(***************************************************************************)
(* The pipeline.                                                           *)
(***************************************************************************)
Raise(kind, withUpload, withJob) ==
  /\ pc' = "raised"
  /\ error' = [kind |-> kind, upload |-> withUpload, job |-> withJob]
  /\ UNCHANGED <<arguments, calls, locals>>

\* extract is called; again, with the same arguments, after an error.
Call ==
  /\ pc \in {"idle", "raised"} /\ calls < MaxCalls
  /\ error.kind # "arguments"
  /\ calls' = calls + 1
  /\ pc' = IF source = "files" THEN "plan" ELSE "estimate"
  /\ verdict' = [f \in Files |-> "none"]
  /\ ids' \in IF source = "document_ids" THEN (SUBSET Files) \ {{}} ELSE {{}}
  /\ uploaded' = {} /\ values' = {} /\ estimate' = 0 /\ job' = 0
  /\ error' = NoError
  /\ UNCHANGED <<server, arguments>>

\* None or several of files, document_ids and selectors, or project_name without
\* files.
Refuse ==
  /\ pc = "idle"
  /\ Raise("arguments", FALSE, FALSE)
  /\ UNCHANGED server

\* documents.upload plans the batch: a file whose name is taken is a conflict.
\* The placeholder that an earlier call left may be taken for one.
Plan ==
  /\ pc = "plan"
  /\ \E answer \in [Files -> Verdicts] :
       /\ \A f \in Files :
            /\ answer[f] = "conflict" => Live(f)
            /\ doc[f] \in {"foreign", "stored", "ready"} => answer[f] = "conflict"
       /\ verdict' = answer
       /\ doc' = [f \in Files |-> IF answer[f] = "put" THEN "placeholder" ELSE doc[f]]
  /\ pc' = "put"
  /\ UNCHANGED <<jobs, arguments, calls, uploaded, ids, estimate, job, values, error>>

Put(f) ==
  /\ pc = "put" /\ verdict[f] = "put" /\ f \notin uploaded
  /\ doc' = [doc EXCEPT ![f] = IF @ = "placeholder" THEN "stored" ELSE @]
  /\ uploaded' = uploaded \cup {f}
  /\ UNCHANGED <<jobs, arguments, calls, pc, verdict, ids, estimate, job, values,
                 error>>

\* A transfer that fails ends the pipeline.
PutFails(f) ==
  /\ pc = "put" /\ verdict[f] = "put" /\ f \notin uploaded
  /\ Raise("transfer", FALSE, FALSE)
  /\ UNCHANGED server

\* Mutant of DocumentIds: all files are taken for documents.
DocumentIdsOfAll == Files

\* upload.document_ids: of every outcome that has an id, conflicts included.
DocumentIds == {f \in Files : verdict[f] # "error"}

\* The upload is complete; without ids, extract raises before the wait begins.
Uploaded ==
  /\ pc = "put" /\ \A f \in Files : verdict[f] = "put" => f \in uploaded
  /\ \/ /\ DocumentIds # {}
        /\ ids' = DocumentIds
        /\ pc' = "await"
        /\ UNCHANGED <<arguments, calls, verdict, uploaded, estimate, job, values,
                       error>>
     \/ /\ DocumentIds = {}
        /\ Raise("extract", TRUE, FALSE)
  /\ UNCHANGED server

\* Mutant of Awaited: the wait returns with one document ready.
AwaitedOne ==
  /\ pc = "await" /\ \E f \in ids : Ready(f)
  /\ pc' = "estimate"
  /\ UNCHANGED <<server, arguments, calls, locals, error>>

\* wait_until_ready returns.
Awaited ==
  /\ pc = "await" /\ \A f \in ids : Ready(f)
  /\ pc' = "estimate"
  /\ UNCHANGED <<server, arguments, calls, locals, error>>

\* A wait's deadline: WaitTimeoutError has neither upload nor job.
TimeOut ==
  /\ pc \in {"await", "job"}
  /\ Raise("timeout", FALSE, FALSE)
  /\ UNCHANGED server

\* Any request may fail for good; start may have started the job.
RequestFails ==
  /\ pc \in {"plan", "await", "estimate", "start", "job", "results"}
  /\ Raise("request", FALSE, FALSE)
  /\ UNCHANGED doc
  /\ UNCHANGED jobs \/ (pc = "start" /\ AddJob)

\* The documents are reserved as they are now: selectors may match any.
Estimate ==
  /\ pc = "estimate"
  /\ ids' \in IF source = "selectors" THEN SUBSET {f \in Files : Live(f)} ELSE {ids}
  /\ \E price \in Prices : estimate' = Cardinality({f \in ids' : Live(f)}) * price
  /\ pc' = "gate"
  /\ UNCHANGED <<server, arguments, calls, verdict, uploaded, job, values, error>>

\* Mutant of OverBudget: a limit of zero is taken for none.
OverBudgetIfTrue == limit \notin {0, NoLimit} /\ estimate > limit

\* `max_credits is not None and estimate.total_credits > max_credits`.
OverBudget == limit # NoLimit /\ estimate > limit

Gate ==
  /\ pc = "gate"
  /\ \/ OverBudget /\ Raise("credits", FALSE, FALSE)
     \/ /\ ~OverBudget
        /\ pc' = "start"
        /\ UNCHANGED <<arguments, calls, locals, error>>
  /\ UNCHANGED server

Start ==
  /\ pc = "start"
  /\ AddJob
  /\ job' = Len(jobs')
  /\ pc' = "job"
  /\ UNCHANGED <<doc, arguments, calls, verdict, uploaded, ids, estimate, values, error>>

Failed == raising /\ jobs[job].state = "failed"

\* Mutant of JobEnds: the error comes without the job.
JobEndsBare ==
  /\ pc = "job" /\ jobs[job].state \in Terminal
  /\ \/ Failed /\ Raise("extract", source = "files", FALSE)
     \/ /\ ~Failed
        /\ pc' = "results"
        /\ UNCHANGED <<arguments, calls, locals, error>>
  /\ UNCHANGED server

\* jobs.wait returns the finished job.
JobEnds ==
  /\ pc = "job" /\ jobs[job].state \in Terminal
  /\ \/ Failed /\ Raise("extract", source = "files", TRUE)
     \/ /\ ~Failed
        /\ pc' = "results"
        /\ UNCHANGED <<arguments, calls, locals, error>>
  /\ UNCHANGED server

\* _flatten_extractions: two prompts have one name.  The job is not handed over.
Flatten ==
  /\ pc = "results" /\ \E f \in jobs[job].docs : Live(f)
  /\ Raise("value", FALSE, FALSE)
  /\ UNCHANGED server

\* jobs.results: the job's documents that are still there.
Results ==
  /\ pc = "results"
  /\ values' = {f \in jobs[job].docs : Live(f)}
  /\ pc' = "returned"
  /\ UNCHANGED <<server, arguments, calls, verdict, uploaded, ids, estimate, job, error>>

Ended == pc \in {"returned", "raised"} /\ UNCHANGED vars

Next ==
  \/ \E f \in Files : Process(f) \/ Delete(f) \/ Put(f) \/ PutFails(f)
  \/ \E j \in DOMAIN jobs : Work(j)
  \/ Call \/ Refuse \/ Plan \/ Uploaded \/ Awaited \/ TimeOut \/ RequestFails
  \/ Estimate \/ Gate \/ Start \/ JobEnds \/ Flatten \/ Results \/ Ended

Spec == Init /\ [][Next]_vars

(***************************************************************************)
(* Properties.                                                             *)
(***************************************************************************)

\* No job runs that was priced above the budget, whatever failed in between and
\* however often the program calls; a budget of zero is a budget (jobs.run).
JobWithinBudget ==
  limit # NoLimit => \A j \in DOMAIN jobs : jobs[j].price <= limit

\* A job over files is given documents that were ready, those that earlier calls
\* left included, and none of the call's own is left out: those that are not
\* ready now were deleted after the wait (documents.upload, wait=True).
JobGetsReadyDocuments ==
  \A j \in DOMAIN jobs : source = "files" /\ jobs[j].by = calls =>
    /\ \A f \in jobs[j].docs : doc[f] \in {"ready", "foreign", "gone"}
    /\ \A f \in Files : verdict[f] = "put" => f \in jobs[j].docs

\* An error tells which job there is.  ExtractError hands over the upload, and the
\* one job of this call, which failed, unless none was started; an error over the
\* arguments, a transfer or the budget comes before this call pays for a job,
\* whatever earlier calls left running (class ExtractError; README, "Budget gate").
ErrorHandsOver ==
  LET own == {j \in DOMAIN jobs : jobs[j].by = calls}
  IN /\ error.kind = "extract" =>
          /\ error.upload = (source = "files")
          /\ IF error.job THEN own = {job} /\ jobs[job].state = "failed" ELSE own = {}
     /\ error.kind \in {"arguments", "transfer", "credits"} => own = {}

\* README, "Failure semantics": "The server rejects every file | Raises
\* ExtractError (nothing to run)".
RejectedFilesStartNothing ==
  \A j \in DOMAIN jobs : source = "files" /\ jobs[j].by = calls =>
    \E f \in Files : verdict[f] = "put"
===============================================================================
