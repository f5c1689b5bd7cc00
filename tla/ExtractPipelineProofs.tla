------------------------- MODULE ExtractPipelineProofs -------------------------
(***************************************************************************)
(* Theorems about ExtractPipeline, for every set of files, prices and      *)
(* limits, and any number of calls.                                        *)
(***************************************************************************)
EXTENDS ExtractPipeline, FiniteSetTheorems, TLAPS

(***************************************************************************)
(* The inductive invariant.                                                *)
(***************************************************************************)

\* A call has not started its job yet.
Before == pc \in {"plan", "put", "await", "estimate", "gate", "start"}

\* How a job and its call are tied together.
JobInv ==
  /\ \A j \in DOMAIN jobs : jobs[j].by <= calls
  /\ Len(jobs) <= calls
  /\ Before => job = 0 /\ Len(jobs) < calls /\ \A j \in DOMAIN jobs : jobs[j].by < calls
  /\ pc = "idle" => job = 0 /\ ids = {}
  /\ pc \in {"job", "results"} => job \in DOMAIN jobs
  /\ pc \in {"plan", "put", "await"} => source = "files"
  /\ pc # "raised" => error = NoError

\* What has been found out about the documents on the way to the job.
DocumentInv ==
  source = "files" =>
    /\ pc \in {"plan", "put"} => ids = {}
    /\ pc = "put" => \A f \in Files : verdict[f] # "none"
    /\ pc \in {"await", "estimate", "gate", "start"} =>
         \A f \in Files : verdict[f] = "put" => f \in ids
    /\ pc \in {"estimate", "gate", "start"} =>
         \A f \in ids : doc[f] \in {"ready", "foreign", "gone"}

\* The gate has passed on what is started.
GateInv == pc = "start" /\ limit # NoLimit => estimate <= limit

\* ExtractError carries the upload, and the job once its start was answered.
HandlesInv ==
  error.kind = "extract" =>
    /\ error.upload = (source = "files")
    /\ job # 0 => error.job

IInv ==
  /\ TypeOK
  /\ JobInv
  /\ DocumentInv
  /\ GateInv
  /\ JobWithinBudget
  /\ JobGetsReadyDocuments
  /\ HandlesInv

USE PipelineAssumption

\* An error leaves the locals alone.
LEMMA RaiseTyped ==
  ASSUME TypeOK, NEW kind \in Errors, NEW withUpload \in BOOLEAN, NEW withJob \in BOOLEAN,
         Raise(kind, withUpload, withJob), doc' = doc,
         jobs' \in Seq(Job), Len(jobs') <= MaxCalls, Len(jobs) <= Len(jobs')
  PROVE  TypeOK'
  BY DEF TypeOK, Raise, arguments, locals

\* What the records of the started jobs hold.
LEMMA JobFields ==
  ASSUME TypeOK, NEW j \in DOMAIN jobs
  PROVE  jobs[j].by \in Nat /\ jobs[j].docs \subseteq Files /\ jobs[j] \in Job
<1>1. jobs[j] \in Job
  BY DEF TypeOK
<1> QED
  BY <1>1 DEF Job

\* What RaiseTyped needs of a step that leaves the server alone.
LEMMA SameJobs ==
  ASSUME TypeOK, UNCHANGED server
  PROVE  doc' = doc /\ jobs' \in Seq(Job) /\ Len(jobs') <= MaxCalls /\ Len(jobs) <= Len(jobs')
  BY DEF TypeOK, server

\* Starting a job adds one, of this call, and keeps the others.
LEMMA AddJobFacts ==
  ASSUME TypeOK, JobInv, pc = "start", AddJob
  PROVE  /\ jobs' \in Seq(Job) /\ Len(jobs) < Len(jobs') /\ Len(jobs') <= MaxCalls
         /\ Len(jobs') <= calls /\ Len(jobs') \in DOMAIN jobs'
         /\ \A j \in DOMAIN jobs' :
              \/ j \in DOMAIN jobs /\ jobs'[j] = jobs[j]
              \/ /\ j = Len(jobs')
                 /\ jobs'[j] = [state |-> "running", docs |-> ids, price |-> estimate,
                                by |-> calls]
  BY DEF TypeOK, JobInv, Before, AddJob, Job

(***************************************************************************)
(* Each action preserves the invariant.                                    *)
(***************************************************************************)

LEMMA ProcessInv ==
  ASSUME IInv, NEW f \in Files, Process(f)
  PROVE  IInv'
<1>1. TypeOK'
  BY DEF IInv, TypeOK, NoError, Errors, Process, locals, arguments
<1>2. JobInv'
  BY DEF IInv, TypeOK, JobInv, Before, Process, locals, arguments
<1>3. DocumentInv'
  BY DEF IInv, TypeOK, DocumentInv, Process, locals, arguments
<1>4. GateInv'
  BY DEF IInv, TypeOK, GateInv, Process, locals, arguments
<1>5. JobWithinBudget'
  BY DEF IInv, TypeOK, JobWithinBudget, GateInv, Process, locals, arguments
<1>6. JobGetsReadyDocuments'
  BY DEF IInv, TypeOK, JobGetsReadyDocuments, DocumentInv, JobInv, Before, Process, locals, arguments
<1>7. HandlesInv'
  BY DEF IInv, TypeOK, HandlesInv, JobInv, Before, NoError, Process, locals, arguments
<1> QED
  BY <1>1, <1>2, <1>3, <1>4, <1>5, <1>6, <1>7 DEF IInv

LEMMA DeleteInv ==
  ASSUME IInv, NEW f \in Files, Delete(f)
  PROVE  IInv'
<1>1. TypeOK'
  BY DEF IInv, TypeOK, NoError, Errors, Delete, locals, arguments, Live
<1>2. JobInv'
  BY DEF IInv, TypeOK, JobInv, Before, Delete, locals, arguments, Live
<1>3. DocumentInv'
  BY DEF IInv, TypeOK, DocumentInv, Delete, locals, arguments, Live
<1>4. GateInv'
  BY DEF IInv, TypeOK, GateInv, Delete, locals, arguments, Live
<1>5. JobWithinBudget'
  BY DEF IInv, TypeOK, JobWithinBudget, GateInv, Delete, locals, arguments, Live
<1>6. JobGetsReadyDocuments'
  BY DEF IInv, TypeOK, JobGetsReadyDocuments, DocumentInv, JobInv, Before, Delete, locals, arguments, Live
<1>7. HandlesInv'
  BY DEF IInv, TypeOK, HandlesInv, JobInv, Before, NoError, Delete, locals, arguments, Live
<1> QED
  BY <1>1, <1>2, <1>3, <1>4, <1>5, <1>6, <1>7 DEF IInv

LEMMA WorkInv ==
  ASSUME IInv, NEW j \in DOMAIN jobs, Work(j)
  PROVE  IInv'
<1>1. TypeOK'
  <2>1. PICK end \in Terminal : jobs' = [jobs EXCEPT ![j].state = end]
    BY DEF Work
  <2>2. jobs' \in Seq(Job) /\ Len(jobs') = Len(jobs)
    <3>1. jobs \in Seq(Job) /\ jobs[j] \in Job
      BY DEF IInv, TypeOK
    <3>2. [jobs[j] EXCEPT !.state = end] \in Job
      BY <3>1 DEF Job
    <3> QED
      BY <2>1, <3>1, <3>2
  <2> QED
    BY <2>2 DEF IInv, TypeOK, Work, locals, arguments
<1>2. JobInv'
  BY DEF IInv, TypeOK, JobInv, Before, Work, locals, arguments, Terminal
<1>3. DocumentInv'
  BY DEF IInv, TypeOK, DocumentInv, Work, locals, arguments, Terminal
<1>4. GateInv'
  BY DEF IInv, TypeOK, GateInv, Work, locals, arguments, Terminal
<1>5. JobWithinBudget'
  BY DEF IInv, TypeOK, JobWithinBudget, GateInv, Work, locals, arguments, Terminal
<1>6. JobGetsReadyDocuments'
  BY DEF IInv, TypeOK, JobGetsReadyDocuments, DocumentInv, JobInv, Before, Work, locals, arguments, Terminal
<1>7. HandlesInv'
  BY DEF IInv, TypeOK, HandlesInv, JobInv, Before, NoError, Work, locals, arguments, Terminal
<1> QED
  BY <1>1, <1>2, <1>3, <1>4, <1>5, <1>6, <1>7 DEF IInv

LEMMA CallInv ==
  ASSUME IInv, Call
  PROVE  IInv'
<1>1. TypeOK'
  BY DEF IInv, TypeOK, NoError, Errors, Call, server, arguments
<1>2. JobInv'
  <2>1. /\ jobs' = jobs /\ calls' = calls + 1 /\ job' = 0 /\ error' = NoError
        /\ source' = source /\ pc' = IF source = "files" THEN "plan" ELSE "estimate"
    BY DEF Call, server, arguments
  <2>2. calls \in Nat /\ Len(jobs) <= calls /\ \A j \in DOMAIN jobs : jobs[j].by <= calls
    BY DEF IInv, TypeOK, JobInv
  <2>3. \A j \in DOMAIN jobs : jobs[j].by \in Nat
    BY JobFields DEF IInv
  <2>4. Len(jobs) \in Nat
    BY DEF IInv, TypeOK
  <2> QED
    BY <2>1, <2>2, <2>3, <2>4 DEF JobInv, Before
<1>3. DocumentInv'
  BY DEF IInv, TypeOK, DocumentInv, Call, server, arguments
<1>4. GateInv'
  BY DEF IInv, TypeOK, GateInv, Call, server, arguments
<1>5. JobWithinBudget'
  BY DEF IInv, TypeOK, JobWithinBudget, GateInv, Call, server, arguments
<1>6. JobGetsReadyDocuments'
  BY DEF IInv, TypeOK, JobGetsReadyDocuments, DocumentInv, JobInv, Before, Call, server, arguments
<1>7. HandlesInv'
  BY DEF IInv, TypeOK, HandlesInv, JobInv, Before, NoError, Call, server, arguments
<1> QED
  BY <1>1, <1>2, <1>3, <1>4, <1>5, <1>6, <1>7 DEF IInv

LEMMA RefuseInv ==
  ASSUME IInv, Refuse
  PROVE  IInv'
<1>1. TypeOK'
  BY DEF IInv, TypeOK, NoError, Errors, Refuse, Raise, server, arguments, locals
<1>2. JobInv'
  BY DEF IInv, TypeOK, JobInv, Before, Refuse, Raise, server, arguments, locals
<1>3. DocumentInv'
  BY DEF IInv, TypeOK, DocumentInv, Refuse, Raise, server, arguments, locals
<1>4. GateInv'
  BY DEF IInv, TypeOK, GateInv, Refuse, Raise, server, arguments, locals
<1>5. JobWithinBudget'
  BY DEF IInv, TypeOK, JobWithinBudget, GateInv, Refuse, Raise, server, arguments, locals
<1>6. JobGetsReadyDocuments'
  BY DEF IInv, TypeOK, JobGetsReadyDocuments, DocumentInv, JobInv, Before, Refuse, Raise, server, arguments, locals
<1>7. HandlesInv'
  BY DEF IInv, TypeOK, HandlesInv, JobInv, Before, NoError, Refuse, Raise, server, arguments, locals
<1> QED
  BY <1>1, <1>2, <1>3, <1>4, <1>5, <1>6, <1>7 DEF IInv

LEMMA PlanInv ==
  ASSUME IInv, Plan
  PROVE  IInv'
<1>1. TypeOK'
  <2>1. PICK answer \in [Files -> Verdicts] :
          /\ verdict' = answer
          /\ doc' = [f \in Files |-> IF answer[f] = "put" THEN "placeholder" ELSE doc[f]]
    BY DEF Plan
  <2>2. doc' \in [Files -> {"none", "placeholder", "stored", "ready", "foreign", "gone"}]
    BY <2>1 DEF IInv, TypeOK
  <2>3. verdict' \in [Files -> Verdicts \cup {"none"}]
    BY <2>1
  <2>4. source = "files" => ids = {}
    BY DEF IInv, DocumentInv, Plan
  <2> QED
    BY <2>2, <2>3, <2>4 DEF IInv, TypeOK, Plan, arguments
<1>2. JobInv'
  BY DEF IInv, TypeOK, JobInv, Before, Plan, arguments, Live
<1>3. DocumentInv'
  <2>1. verdict' \in [Files -> Verdicts] /\ pc = "plan" /\ pc' = "put" /\ UNCHANGED <<ids, source>>
    BY DEF Plan, arguments
  <2>2. "none" \notin Verdicts
    BY DEF Verdicts
  <2> QED
    BY <2>1, <2>2 DEF IInv, DocumentInv
<1>4. GateInv'
  BY DEF IInv, TypeOK, GateInv, Plan, arguments, Live
<1>5. JobWithinBudget'
  BY DEF IInv, TypeOK, JobWithinBudget, GateInv, Plan, arguments, Live
<1>6. JobGetsReadyDocuments'
  BY DEF IInv, TypeOK, JobGetsReadyDocuments, DocumentInv, JobInv, Before, Plan, arguments, Live
<1>7. HandlesInv'
  BY DEF IInv, TypeOK, HandlesInv, JobInv, Before, NoError, Plan, arguments, Live
<1> QED
  BY <1>1, <1>2, <1>3, <1>4, <1>5, <1>6, <1>7 DEF IInv

LEMMA PutInv ==
  ASSUME IInv, NEW f \in Files, Put(f)
  PROVE  IInv'
<1>1. TypeOK'
  BY DEF IInv, TypeOK, NoError, Errors, Put, arguments
<1>2. JobInv'
  BY DEF IInv, TypeOK, JobInv, Before, Put, arguments
<1>3. DocumentInv'
  BY DEF IInv, TypeOK, DocumentInv, Put, arguments
<1>4. GateInv'
  BY DEF IInv, TypeOK, GateInv, Put, arguments
<1>5. JobWithinBudget'
  BY DEF IInv, TypeOK, JobWithinBudget, GateInv, Put, arguments
<1>6. JobGetsReadyDocuments'
  BY DEF IInv, TypeOK, JobGetsReadyDocuments, DocumentInv, JobInv, Before, Put, arguments
<1>7. HandlesInv'
  BY DEF IInv, TypeOK, HandlesInv, JobInv, Before, NoError, Put, arguments
<1> QED
  BY <1>1, <1>2, <1>3, <1>4, <1>5, <1>6, <1>7 DEF IInv

LEMMA PutFailsInv ==
  ASSUME IInv, NEW f \in Files, PutFails(f)
  PROVE  IInv'
<1>1. TypeOK'
  BY DEF IInv, TypeOK, NoError, Errors, PutFails, Raise, server, arguments, locals
<1>2. JobInv'
  BY DEF IInv, TypeOK, JobInv, Before, PutFails, Raise, server, arguments, locals
<1>3. DocumentInv'
  BY DEF IInv, TypeOK, DocumentInv, PutFails, Raise, server, arguments, locals
<1>4. GateInv'
  BY DEF IInv, TypeOK, GateInv, PutFails, Raise, server, arguments, locals
<1>5. JobWithinBudget'
  BY DEF IInv, TypeOK, JobWithinBudget, GateInv, PutFails, Raise, server, arguments, locals
<1>6. JobGetsReadyDocuments'
  BY DEF IInv, TypeOK, JobGetsReadyDocuments, DocumentInv, JobInv, Before, PutFails, Raise, server, arguments, locals
<1>7. HandlesInv'
  BY DEF IInv, TypeOK, HandlesInv, JobInv, Before, NoError, PutFails, Raise, server, arguments, locals
<1> QED
  BY <1>1, <1>2, <1>3, <1>4, <1>5, <1>6, <1>7 DEF IInv

LEMMA UploadedInv ==
  ASSUME IInv, Uploaded
  PROVE  IInv'
<1>1. TypeOK'
  <2>1. CASE DocumentIds # {}
    <3>1. /\ ids' = DocumentIds /\ pc' = "await"
          /\ UNCHANGED <<server, arguments, calls, verdict, uploaded, estimate, job, values,
                        error>>
      BY <2>1 DEF Uploaded
    <3>2. \A f \in Files : verdict[f] \in Verdicts
      BY DEF IInv, TypeOK, JobInv, DocumentInv, Uploaded
    <3>3. DocumentIds \subseteq {f \in Files : verdict[f] \in {"put", "conflict"}}
      BY <3>2 DEF DocumentIds, Verdicts
    <3> QED
      BY <3>1, <3>3 DEF IInv, TypeOK, server, arguments
  <2>2. CASE DocumentIds = {}
    <3>1. Raise("extract", TRUE, FALSE) /\ UNCHANGED server
      BY <2>2 DEF Uploaded
    <3>2. TypeOK
      BY DEF IInv
    <3> QED
      BY <3>1, <3>2, RaiseTyped, SameJobs DEF Errors
  <2> QED
    BY <2>1, <2>2
<1>2. JobInv'
  BY DEF IInv, TypeOK, JobInv, Before, Uploaded, Raise, server, arguments, locals, DocumentIds
<1>3. DocumentInv'
  BY DEF IInv, TypeOK, DocumentInv, Uploaded, Raise, server, arguments, locals, DocumentIds
<1>4. GateInv'
  BY DEF IInv, TypeOK, GateInv, Uploaded, Raise, server, arguments, locals, DocumentIds
<1>5. JobWithinBudget'
  BY DEF IInv, TypeOK, JobWithinBudget, GateInv, Uploaded, Raise, server, arguments, locals, DocumentIds
<1>6. JobGetsReadyDocuments'
  BY DEF IInv, TypeOK, JobGetsReadyDocuments, DocumentInv, JobInv, Before, Uploaded, Raise, server, arguments, locals, DocumentIds
<1>7. HandlesInv'
  <2>1. pc = "put" /\ source = "files" /\ job = 0 /\ error.kind = "none"
    BY DEF IInv, JobInv, Before, Uploaded, NoError
  <2>2. CASE DocumentIds # {}
    BY <2>1, <2>2 DEF Uploaded, HandlesInv
  <2>3. CASE DocumentIds = {}
    <3>1. Raise("extract", TRUE, FALSE)
      BY <2>3 DEF Uploaded
    <3>2. error'.upload = TRUE /\ job' = 0 /\ source' = "files"
      BY <2>1, <3>1 DEF Raise, arguments, locals
    <3> QED
      BY <3>2 DEF HandlesInv
  <2> QED
    BY <2>2, <2>3
<1> QED
  BY <1>1, <1>2, <1>3, <1>4, <1>5, <1>6, <1>7 DEF IInv

LEMMA AwaitedInv ==
  ASSUME IInv, Awaited
  PROVE  IInv'
<1>1. TypeOK'
  BY DEF IInv, TypeOK, NoError, Errors, Awaited, Ready, server, arguments, locals
<1>2. JobInv'
  BY DEF IInv, TypeOK, JobInv, Before, Awaited, Ready, server, arguments, locals
<1>3. DocumentInv'
  BY DEF IInv, TypeOK, DocumentInv, Awaited, Ready, server, arguments, locals
<1>4. GateInv'
  BY DEF IInv, TypeOK, GateInv, Awaited, Ready, server, arguments, locals
<1>5. JobWithinBudget'
  BY DEF IInv, TypeOK, JobWithinBudget, GateInv, Awaited, Ready, server, arguments, locals
<1>6. JobGetsReadyDocuments'
  BY DEF IInv, TypeOK, JobGetsReadyDocuments, DocumentInv, JobInv, Before, Awaited, Ready, server, arguments, locals
<1>7. HandlesInv'
  BY DEF IInv, TypeOK, HandlesInv, JobInv, Before, NoError, Awaited, Ready, server, arguments, locals
<1> QED
  BY <1>1, <1>2, <1>3, <1>4, <1>5, <1>6, <1>7 DEF IInv

LEMMA TimeOutInv ==
  ASSUME IInv, TimeOut
  PROVE  IInv'
<1>1. TypeOK'
  BY DEF IInv, TypeOK, NoError, Errors, TimeOut, Raise, server, arguments, locals
<1>2. JobInv'
  BY DEF IInv, TypeOK, JobInv, Before, TimeOut, Raise, server, arguments, locals
<1>3. DocumentInv'
  BY DEF IInv, TypeOK, DocumentInv, TimeOut, Raise, server, arguments, locals
<1>4. GateInv'
  BY DEF IInv, TypeOK, GateInv, TimeOut, Raise, server, arguments, locals
<1>5. JobWithinBudget'
  BY DEF IInv, TypeOK, JobWithinBudget, GateInv, TimeOut, Raise, server, arguments, locals
<1>6. JobGetsReadyDocuments'
  BY DEF IInv, TypeOK, JobGetsReadyDocuments, DocumentInv, JobInv, Before, TimeOut, Raise, server, arguments, locals
<1>7. HandlesInv'
  BY DEF IInv, TypeOK, HandlesInv, JobInv, Before, NoError, TimeOut, Raise, server, arguments, locals
<1> QED
  BY <1>1, <1>2, <1>3, <1>4, <1>5, <1>6, <1>7 DEF IInv

LEMMA RequestFailsInv ==
  ASSUME IInv, RequestFails
  PROVE  IInv'
<1>1. TypeOK'
  <2>1. Raise("request", FALSE, FALSE) /\ doc' = doc
    BY DEF RequestFails
  <2>2. jobs' \in Seq(Job) /\ Len(jobs') <= MaxCalls /\ Len(jobs) <= Len(jobs')
    BY AddJobFacts DEF IInv, TypeOK, RequestFails
  <2> QED
    BY <2>1, <2>2, RaiseTyped DEF IInv, Errors
<1>2. JobInv'
  BY DEF IInv, TypeOK, JobInv, Before, RequestFails, AddJob, Raise, server, arguments, locals
<1>3. DocumentInv'
  BY DEF IInv, TypeOK, DocumentInv, RequestFails, AddJob, Raise, server, arguments, locals
<1>4. GateInv'
  BY DEF IInv, TypeOK, GateInv, RequestFails, AddJob, Raise, server, arguments, locals
<1>5. JobWithinBudget'
  BY DEF IInv, TypeOK, JobWithinBudget, GateInv, RequestFails, AddJob, Raise, server, arguments, locals
<1>6. JobGetsReadyDocuments'
  <2>1. UNCHANGED <<doc, source, calls, verdict>>
    BY DEF RequestFails, Raise, arguments, locals
  <2>2. CASE jobs' = jobs
    BY <2>1, <2>2 DEF IInv, JobGetsReadyDocuments
  <2>3. CASE pc = "start" /\ AddJob
    BY <2>1, <2>3, AddJobFacts DEF IInv, JobGetsReadyDocuments, DocumentInv
  <2> QED
    BY <2>2, <2>3 DEF RequestFails
<1>7. HandlesInv'
  BY DEF IInv, TypeOK, HandlesInv, JobInv, Before, NoError, RequestFails, AddJob, Raise, server, arguments, locals
<1> QED
  BY <1>1, <1>2, <1>3, <1>4, <1>5, <1>6, <1>7 DEF IInv

LEMMA EstimateInv ==
  ASSUME IInv, Estimate
  PROVE  IInv'
<1>1. TypeOK'
  <2>1. ids' \subseteq Files /\ (source = "files" => ids' = ids)
    BY DEF IInv, TypeOK, Estimate
  <2>2. PICK price \in Prices : estimate' = Cardinality({f \in ids' : Live(f)}) * price
    BY DEF Estimate
  <2>3. Cardinality({f \in ids' : Live(f)}) \in Nat
    BY <2>1, FS_Subset, FS_CardinalityType
  <2>4. estimate' \in Nat
    BY <2>2, <2>3
  <2> QED
    BY <2>1, <2>4 DEF IInv, TypeOK, Estimate, server, arguments
<1>2. JobInv'
  BY DEF IInv, TypeOK, JobInv, Before, Estimate, Live, server, arguments
<1>3. DocumentInv'
  BY DEF IInv, TypeOK, DocumentInv, Estimate, Live, server, arguments
<1>4. GateInv'
  BY DEF IInv, TypeOK, GateInv, Estimate, Live, server, arguments
<1>5. JobWithinBudget'
  BY DEF IInv, TypeOK, JobWithinBudget, GateInv, Estimate, Live, server, arguments
<1>6. JobGetsReadyDocuments'
  BY DEF IInv, TypeOK, JobGetsReadyDocuments, DocumentInv, JobInv, Before, Estimate, Live, server, arguments
<1>7. HandlesInv'
  BY DEF IInv, TypeOK, HandlesInv, JobInv, Before, NoError, Estimate, Live, server, arguments
<1> QED
  BY <1>1, <1>2, <1>3, <1>4, <1>5, <1>6, <1>7 DEF IInv

LEMMA GateInvariant ==
  ASSUME IInv, Gate
  PROVE  IInv'
<1>1. TypeOK'
  <2>1. CASE OverBudget
    <3>1. Raise("credits", FALSE, FALSE) /\ UNCHANGED server
      BY <2>1 DEF Gate
    <3>2. TypeOK
      BY DEF IInv
    <3> QED
      BY <3>1, <3>2, RaiseTyped, SameJobs DEF Errors
  <2>2. CASE ~OverBudget
    BY <2>2 DEF IInv, TypeOK, Gate, server, arguments, locals
  <2> QED
    BY <2>1, <2>2
<1>2. JobInv'
  BY DEF IInv, TypeOK, JobInv, Before, Gate, OverBudget, Raise, server, arguments, locals
<1>3. DocumentInv'
  BY DEF IInv, TypeOK, DocumentInv, Gate, OverBudget, Raise, server, arguments, locals
<1>4. GateInv'
  BY DEF IInv, TypeOK, GateInv, Gate, OverBudget, Raise, server, arguments, locals
<1>5. JobWithinBudget'
  BY DEF IInv, TypeOK, JobWithinBudget, GateInv, Gate, OverBudget, Raise, server, arguments, locals
<1>6. JobGetsReadyDocuments'
  BY DEF IInv, TypeOK, JobGetsReadyDocuments, DocumentInv, JobInv, Before, Gate, OverBudget, Raise, server, arguments, locals
<1>7. HandlesInv'
  BY DEF IInv, TypeOK, HandlesInv, JobInv, Before, NoError, Gate, OverBudget, Raise, server, arguments, locals
<1> QED
  BY <1>1, <1>2, <1>3, <1>4, <1>5, <1>6, <1>7 DEF IInv

LEMMA StartInv ==
  ASSUME IInv, Start
  PROVE  IInv'
<1>1. TypeOK'
  <2>1. jobs' \in Seq(Job) /\ Len(jobs') <= MaxCalls /\ Len(jobs') \in Nat
    BY AddJobFacts DEF IInv, Start
  <2> QED
    BY <2>1 DEF IInv, TypeOK, Start, arguments
<1>2. JobInv'
  BY DEF IInv, TypeOK, JobInv, Before, Start, AddJob, arguments
<1>3. DocumentInv'
  BY DEF IInv, TypeOK, DocumentInv, Start, AddJob, arguments
<1>4. GateInv'
  BY DEF IInv, TypeOK, GateInv, Start, AddJob, arguments
<1>5. JobWithinBudget'
  BY DEF IInv, TypeOK, JobWithinBudget, GateInv, Start, AddJob, arguments
<1>6. JobGetsReadyDocuments'
  BY DEF IInv, TypeOK, JobGetsReadyDocuments, DocumentInv, JobInv, Before, Start, AddJob, arguments
<1>7. HandlesInv'
  BY DEF IInv, TypeOK, HandlesInv, JobInv, Before, NoError, Start, AddJob, arguments
<1> QED
  BY <1>1, <1>2, <1>3, <1>4, <1>5, <1>6, <1>7 DEF IInv

LEMMA JobEndsInv ==
  ASSUME IInv, JobEnds
  PROVE  IInv'
<1>1. TypeOK'
  <2>1. CASE Failed
    <3>1. Raise("extract", source = "files", TRUE) /\ UNCHANGED server
      BY <2>1 DEF JobEnds
    <3>2. TypeOK
      BY DEF IInv
    <3>3. CASE source = "files"
      <4>1. Raise("extract", TRUE, TRUE)
        BY <3>1, <3>3 DEF Raise
      <4> QED
        BY <3>1, <3>2, <4>1, RaiseTyped, SameJobs DEF Errors
    <3>4. CASE source # "files"
      <4>1. Raise("extract", FALSE, TRUE)
        BY <3>1, <3>4 DEF Raise
      <4> QED
        BY <3>1, <3>2, <4>1, RaiseTyped, SameJobs DEF Errors
    <3> QED
      BY <3>3, <3>4
  <2>2. CASE ~Failed
    BY <2>2 DEF IInv, TypeOK, JobEnds, server, arguments, locals
  <2> QED
    BY <2>1, <2>2
<1>2. JobInv'
  BY DEF IInv, TypeOK, JobInv, Before, JobEnds, Failed, Raise, server, arguments, locals, Terminal
<1>3. DocumentInv'
  BY DEF IInv, TypeOK, DocumentInv, JobEnds, Failed, Raise, server, arguments, locals, Terminal
<1>4. GateInv'
  BY DEF IInv, TypeOK, GateInv, JobEnds, Failed, Raise, server, arguments, locals, Terminal
<1>5. JobWithinBudget'
  BY DEF IInv, TypeOK, JobWithinBudget, GateInv, JobEnds, Failed, Raise, server, arguments, locals, Terminal
<1>6. JobGetsReadyDocuments'
  BY DEF IInv, TypeOK, JobGetsReadyDocuments, DocumentInv, JobInv, Before, JobEnds, Failed, Raise, server, arguments, locals, Terminal
<1>7. HandlesInv'
  BY DEF IInv, TypeOK, HandlesInv, JobInv, Before, NoError, JobEnds, Failed, Raise, server, arguments, locals, Terminal
<1> QED
  BY <1>1, <1>2, <1>3, <1>4, <1>5, <1>6, <1>7 DEF IInv

LEMMA FlattenInv ==
  ASSUME IInv, Flatten
  PROVE  IInv'
<1>1. TypeOK'
  BY DEF IInv, TypeOK, NoError, Errors, Flatten, Raise, server, arguments, locals, Live
<1>2. JobInv'
  BY DEF IInv, TypeOK, JobInv, Before, Flatten, Raise, server, arguments, locals, Live
<1>3. DocumentInv'
  BY DEF IInv, TypeOK, DocumentInv, Flatten, Raise, server, arguments, locals, Live
<1>4. GateInv'
  BY DEF IInv, TypeOK, GateInv, Flatten, Raise, server, arguments, locals, Live
<1>5. JobWithinBudget'
  BY DEF IInv, TypeOK, JobWithinBudget, GateInv, Flatten, Raise, server, arguments, locals, Live
<1>6. JobGetsReadyDocuments'
  BY DEF IInv, TypeOK, JobGetsReadyDocuments, DocumentInv, JobInv, Before, Flatten, Raise, server, arguments, locals, Live
<1>7. HandlesInv'
  BY DEF IInv, TypeOK, HandlesInv, JobInv, Before, NoError, Flatten, Raise, server, arguments, locals, Live
<1> QED
  BY <1>1, <1>2, <1>3, <1>4, <1>5, <1>6, <1>7 DEF IInv

LEMMA ResultsInv ==
  ASSUME IInv, Results
  PROVE  IInv'
<1>1. TypeOK'
  <2>1. jobs[job].docs \subseteq Files
    BY JobFields DEF IInv, JobInv, Results
  <2>2. values' \subseteq Files
    BY <2>1 DEF Results
  <2> QED
    BY <2>2 DEF IInv, TypeOK, Results, server, arguments
<1>2. JobInv'
  BY DEF IInv, TypeOK, JobInv, Before, Results, Live, server, arguments
<1>3. DocumentInv'
  BY DEF IInv, TypeOK, DocumentInv, Results, Live, server, arguments
<1>4. GateInv'
  BY DEF IInv, TypeOK, GateInv, Results, Live, server, arguments
<1>5. JobWithinBudget'
  BY DEF IInv, TypeOK, JobWithinBudget, GateInv, Results, Live, server, arguments
<1>6. JobGetsReadyDocuments'
  BY DEF IInv, TypeOK, JobGetsReadyDocuments, DocumentInv, JobInv, Before, Results, Live, server, arguments
<1>7. HandlesInv'
  BY DEF IInv, TypeOK, HandlesInv, JobInv, Before, NoError, Results, Live, server, arguments
<1> QED
  BY <1>1, <1>2, <1>3, <1>4, <1>5, <1>6, <1>7 DEF IInv

LEMMA InitInv == Init => IInv
<1> SUFFICES ASSUME Init PROVE IInv
  OBVIOUS
<1>1. TypeOK
  BY DEF Init, TypeOK, NoError, Errors
<1>2. JobInv /\ DocumentInv /\ GateInv
  BY DEF Init, JobInv, Before, DocumentInv, GateInv
<1>3. JobWithinBudget /\ JobGetsReadyDocuments /\ HandlesInv
  BY DEF Init, JobWithinBudget, JobGetsReadyDocuments, HandlesInv, NoError
<1> QED
  BY <1>1, <1>2, <1>3 DEF IInv

LEMMA StutterInv ==
  ASSUME IInv, UNCHANGED vars
  PROVE  IInv'
<1>1. TypeOK'
  BY DEF IInv, TypeOK, vars, server, arguments, locals
<1>2. JobInv' /\ DocumentInv' /\ GateInv'
  BY DEF IInv, JobInv, Before, DocumentInv, GateInv, vars, server, arguments, locals
<1>3. JobWithinBudget' /\ JobGetsReadyDocuments' /\ HandlesInv'
  BY DEF IInv, JobWithinBudget, JobGetsReadyDocuments, HandlesInv, vars, server,
     arguments, locals
<1> QED
  BY <1>1, <1>2, <1>3 DEF IInv

LEMMA NextInv == IInv /\ [Next]_vars => IInv'
<1> SUFFICES ASSUME IInv, [Next]_vars PROVE IInv'
  OBVIOUS
<1>1. ASSUME NEW f \in Files, Process(f) \/ Delete(f) \/ Put(f) \/ PutFails(f) PROVE IInv'
  BY <1>1, ProcessInv, DeleteInv, PutInv, PutFailsInv
<1>2. ASSUME NEW j \in DOMAIN jobs, Work(j) PROVE IInv'
  BY <1>2, WorkInv
<1>3. CASE Call \/ Refuse \/ Plan \/ Uploaded \/ Awaited \/ TimeOut \/ RequestFails
  BY <1>3, CallInv, RefuseInv, PlanInv, UploadedInv, AwaitedInv, TimeOutInv,
     RequestFailsInv
<1>4. CASE Estimate \/ Gate \/ Start \/ JobEnds \/ Flatten \/ Results
  BY <1>4, EstimateInv, GateInvariant, StartInv, JobEndsInv, FlattenInv, ResultsInv
<1>5. CASE Ended \/ UNCHANGED vars
  BY <1>5, StutterInv DEF Ended
<1> QED
  BY <1>1, <1>2, <1>3, <1>4, <1>5 DEF Next

LEMMA Inductive == Spec => []IInv
  BY InitInv, NextInv, PTL DEF Spec

(***************************************************************************)
(* Theorems.                                                               *)
(***************************************************************************)

\* The model of extract keeps its types.
THEOREM TypeCorrect == Spec => []TypeOK
<1>1. IInv => TypeOK
  BY DEF IInv
<1> QED
  BY <1>1, Inductive, PTL

\* No job runs that was priced above max_credits, for any prices and limits and
\* any number of calls that fail in between (jobs.run).
THEOREM JobWithinBudgetHolds == Spec => []JobWithinBudget
<1>1. IInv => JobWithinBudget
  BY DEF IInv
<1> QED
  BY <1>1, Inductive, PTL

\* A job over files has all of the call's own documents, and none that was not
\* ready, for any number of files (documents.upload, wait=True).
THEOREM JobGetsReadyDocumentsHolds == Spec => []JobGetsReadyDocuments
<1>1. IInv => JobGetsReadyDocuments
  BY DEF IInv
<1> QED
  BY <1>1, Inductive, PTL

(***************************************************************************)
(* A call and its job.                                                     *)
(***************************************************************************)

\* A call starts at most one job, also when the start fails after it took
\* effect: the program pays once for each time it calls (jobs.run).
OneJobPerCall ==
  \A i, j \in DOMAIN jobs : jobs[i].by = jobs[j].by => i = j

\* What extract returns is of the job that this very call started, which is
\* over, and has not failed if the call is to raise then; no document has
\* values that the job was not given (jobs.results).
ResultIsOfOwnJob ==
  pc = "returned" =>
    /\ job \in DOMAIN jobs /\ jobs[job].by = calls
    /\ jobs[job].state \in Terminal
    /\ raising => jobs[job].state # "failed"
    /\ values \subseteq jobs[job].docs

\* An error over the arguments, a transfer or the budget, and an ExtractError
\* without a job, comes before the call has started one: there is nothing to
\* pay for.  An ExtractError with a job hands over the one the call started.
ErrorTellsOfJob ==
  /\ error.kind \in {"arguments", "transfer", "credits"} =>
       \A j \in DOMAIN jobs : jobs[j].by # calls
  /\ error.kind = "extract" =>
       IF error.job
       THEN job \in DOMAIN jobs /\ jobs[job].by = calls /\ jobs[job].state = "failed"
       ELSE \A j \in DOMAIN jobs : jobs[j].by # calls

\* The three, with what is known on the way to them.
OwnInv ==
  /\ OneJobPerCall
  /\ pc = "idle" => jobs = <<>>
  /\ pc \in {"job", "results"} => job \in DOMAIN jobs /\ jobs[job].by = calls
  /\ pc = "results" => /\ jobs[job].state \in Terminal
                       /\ raising => jobs[job].state # "failed"
  /\ ResultIsOfOwnJob
  /\ ErrorTellsOfJob

\* A step that leaves the jobs alone and does not end the call keeps it.
LEMMA OnTheWay ==
  ASSUME OwnInv, UNCHANGED jobs, error' = NoError, pc' \in {"plan", "put", "await",
           "estimate", "gate", "start"}
  PROVE  OwnInv'
  BY DEF OwnInv, OneJobPerCall, ResultIsOfOwnJob, ErrorTellsOfJob, NoError

\* So does an error that comes before the job, or says nothing of it.
LEMMA RaisedEarly ==
  ASSUME IInv, OwnInv, NEW kind \in Errors, NEW withUpload \in BOOLEAN,
         Raise(kind, withUpload, FALSE), UNCHANGED jobs,
         kind \in {"request", "timeout", "value"} \/ Before \/ pc = "idle"
  PROVE  OwnInv'
<1>1. pc' = "raised" /\ error'.kind = kind /\ error'.job = FALSE
      /\ UNCHANGED <<calls, job, values, raising>>
  BY DEF Raise, arguments, locals
<1>2. Before \/ pc = "idle" => \A j \in DOMAIN jobs : jobs[j].by # calls
  <2>1. CASE Before
    <3>1. \A j \in DOMAIN jobs : jobs[j].by < calls /\ jobs[j].by \in Nat
      BY <2>1, JobFields DEF IInv, JobInv
    <3>2. calls \in Nat
      BY DEF IInv, TypeOK
    <3> QED
      BY <3>1, <3>2
  <2>2. CASE pc = "idle"
    BY <2>2 DEF OwnInv
  <2> QED
    BY <2>1, <2>2
<1> QED
  BY <1>1, <1>2 DEF OwnInv, OneJobPerCall, ResultIsOfOwnJob, ErrorTellsOfJob

\* Starting a job keeps it, whether the call learns of the job or not.
LEMMA Started ==
  ASSUME IInv, OwnInv, pc = "start", AddJob, UNCHANGED calls,
         \/ pc' = "job" /\ job' = Len(jobs') /\ error' = NoError
         \/ pc' = "raised" /\ error'.kind = "request"
  PROVE  OwnInv'
<1>1. /\ Len(jobs') \in DOMAIN jobs' /\ jobs'[Len(jobs')].by = calls
      /\ \A j \in DOMAIN jobs' :
           j = Len(jobs') \/ (j \in DOMAIN jobs /\ jobs'[j] = jobs[j])
  BY DEF IInv, TypeOK, JobInv, Before, AddJob, Job
<1>2. \A j \in DOMAIN jobs : jobs[j].by # calls
  <2>1. \A j \in DOMAIN jobs : jobs[j].by < calls /\ jobs[j].by \in Nat
    BY JobFields DEF IInv, JobInv, Before
  <2>2. calls \in Nat
    BY DEF IInv, TypeOK
  <2> QED
    BY <2>1, <2>2
<1>3. OneJobPerCall'
  BY <1>1, <1>2 DEF OwnInv, OneJobPerCall
<1> QED
  BY <1>1, <1>3 DEF OwnInv, ResultIsOfOwnJob, ErrorTellsOfJob, NoError

LEMMA OwnNext == IInv /\ OwnInv /\ [Next]_vars => OwnInv'
<1> SUFFICES ASSUME IInv, OwnInv, [Next]_vars PROVE OwnInv'
  OBVIOUS
<1>a. pc # "raised" => error = NoError
  BY DEF IInv, JobInv
<1>1. ASSUME UNCHANGED <<jobs, calls, raising, pc, job, values, error>> PROVE OwnInv'
  BY <1>1 DEF OwnInv, OneJobPerCall, ResultIsOfOwnJob, ErrorTellsOfJob
<1>2. ASSUME NEW f \in Files, Process(f) \/ Delete(f) \/ Put(f) PROVE OwnInv'
  BY <1>1, <1>2 DEF Process, Delete, Put, arguments, locals
<1>3. ASSUME NEW f \in Files, PutFails(f) PROVE OwnInv'
  BY <1>3, RaisedEarly DEF PutFails, server, Errors, Before
<1>4. ASSUME NEW j \in DOMAIN jobs, Work(j) PROVE OwnInv'
  <2>1. /\ DOMAIN jobs' = DOMAIN jobs
        /\ \A i \in DOMAIN jobs : /\ jobs'[i].by = jobs[i].by /\ jobs'[i].docs = jobs[i].docs
                                  /\ i # j => jobs'[i] = jobs[i]
        /\ jobs[j].state = "running"
    BY <1>4 DEF Work, IInv, TypeOK, Job
  <2>2. \A i \in DOMAIN jobs : jobs[i].state # "running" => jobs'[i].state = jobs[i].state
    BY <2>1
  <2>3. UNCHANGED <<calls, raising, pc, job, values, error>>
    BY <1>4 DEF Work, arguments, locals
  <2>4. OneJobPerCall' /\ (pc = "idle" => jobs' = <<>>)
    BY <1>4, <2>1, <2>3 DEF OwnInv, OneJobPerCall
  <2> QED
    BY <2>1, <2>2, <2>3, <2>4 DEF OwnInv, ResultIsOfOwnJob, ErrorTellsOfJob, Terminal
<1>5. CASE Call \/ Plan \/ Awaited \/ Estimate
  BY <1>5, <1>a, OnTheWay DEF Call, Plan, Awaited, Estimate, server
<1>6. CASE Refuse
  BY <1>6, RaisedEarly DEF Refuse, server, Errors
<1>7. CASE Uploaded
  BY <1>7, <1>a, OnTheWay, RaisedEarly DEF Uploaded, server, Errors, Before
<1>8. CASE Gate
  BY <1>8, <1>a, OnTheWay, RaisedEarly DEF Gate, server, Errors, Before
<1>9. CASE TimeOut \/ Flatten
  BY <1>9, RaisedEarly DEF TimeOut, Flatten, server, Errors
<1>10. CASE RequestFails
  <2>1. CASE UNCHANGED jobs
    BY <1>10, <2>1, RaisedEarly DEF RequestFails, Errors
  <2>2. CASE pc = "start" /\ AddJob
    BY <1>10, <2>2, Started DEF RequestFails, Raise
  <2> QED
    BY <1>10, <2>1, <2>2 DEF RequestFails
<1>11. CASE Start
  BY <1>11, <1>a, Started DEF Start
<1>12. CASE JobEnds
  BY <1>12, <1>a DEF JobEnds, Failed, Raise, server, arguments, locals, OwnInv,
     OneJobPerCall, ResultIsOfOwnJob, ErrorTellsOfJob, NoError
<1>13. CASE Results
  BY <1>13, <1>a DEF Results, server, arguments, OwnInv, OneJobPerCall,
     ResultIsOfOwnJob, ErrorTellsOfJob, NoError
<1>14. CASE Ended \/ UNCHANGED vars
  BY <1>1, <1>14 DEF Ended, vars, server, arguments, locals
<1> QED
  BY <1>2, <1>3, <1>4, <1>5, <1>6, <1>7, <1>8, <1>9, <1>10, <1>11, <1>12, <1>13, <1>14
  DEF Next

LEMMA OwnInductive == Spec => []OwnInv
<1>1. Init => OwnInv
  BY DEF Init, OwnInv, OneJobPerCall, ResultIsOfOwnJob, ErrorTellsOfJob, NoError
<1> QED
  BY <1>1, OwnNext, Inductive, PTL DEF Spec

\* One call, one job at most, for any number of calls and failures in between.
THEOREM OneJobPerCallHolds == Spec => []OneJobPerCall
<1>1. OwnInv => OneJobPerCall
  BY DEF OwnInv
<1> QED
  BY <1>1, OwnInductive, PTL

\* The result is of the finished job that the call started, whatever jobs the
\* calls before it left running (jobs.run, jobs.results).
THEOREM ResultIsOfOwnJobHolds == Spec => []ResultIsOfOwnJob
<1>1. OwnInv => ResultIsOfOwnJob
  BY DEF OwnInv
<1> QED
  BY <1>1, OwnInductive, PTL

\* Every error of extract tells of the call's job: which one an ExtractError hands
\* over, and which errors mean that none was started, for any number of calls and
\* of jobs that earlier calls left running (class ExtractError).
THEOREM ErrorHandsOverHolds == Spec => []ErrorHandsOver
<1>1. IInv /\ OwnInv => ErrorHandsOver
  <2> SUFFICES ASSUME IInv, OwnInv PROVE ErrorHandsOver
    OBVIOUS
  <2> DEFINE own == {j \in DOMAIN jobs : jobs[j].by = calls}
  <2>1. HandlesInv /\ ErrorTellsOfJob /\ OneJobPerCall
    BY DEF IInv, OwnInv
  <2>2. ASSUME error.kind = "extract", error.job PROVE own = {job} /\ jobs[job].state = "failed"
    BY <2>1, <2>2 DEF ErrorTellsOfJob, OneJobPerCall
  <2>3. ASSUME error.kind = "extract", ~error.job PROVE own = {}
    BY <2>1, <2>3 DEF ErrorTellsOfJob
  <2>4. ASSUME error.kind \in {"arguments", "transfer", "credits"} PROVE own = {}
    BY <2>1, <2>4 DEF ErrorTellsOfJob
  <2> QED
    BY <2>1, <2>2, <2>3, <2>4 DEF ErrorHandsOver, HandlesInv
<1> QED
  BY <1>1, Inductive, OwnInductive, PTL
===============================================================================
