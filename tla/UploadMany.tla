------------------------------ MODULE UploadMany ------------------------------
(***************************************************************************)
(* documents.upload_many and _upload_batch                                 *)
(* (src/infersoft/resources/documents.py): plan each batch with a keyed    *)
(* POST, then PUT each file's bytes to its presigned URL, or drop it.      *)
(*                                                                         *)
(* Several runs of the import work on the same files in the same order: a  *)
(* run may crash or fail at any point, and another may start before it has *)
(* ended.  Runs that were given the same idempotency key derive the same   *)
(* key for each batch.                                                     *)
(*                                                                         *)
(* The server is external.  A keyed POST is one step here, as ExactlyOnce  *)
(* promises: it is executed once and its response replayed, or it fails,   *)
(* with its effect or without.                                             *)
(***************************************************************************)
EXTENDS Integers

CONSTANTS
  Runs,         \* runs of upload_many
  BaseKeys,     \* base keys, persisted or made by new_idempotency_key
  BaseKey,      \* the base key of each run
  NumFiles,     \* how many files are imported
  BatchSize,    \* batch_size
  Modes,        \* arguments on_duplicate: allow, notify or block
  Project,      \* the project argument: NoProject, ByName or an id
  TagIds,       \* tag_ids
  TagNames,     \* tag_names
  Wait          \* wait

NoProject == 0
ByName    == -1   \* project_name: the server creates the project

ASSUME RunsAssumption ==
  /\ BaseKeys \cap Runs = {} /\ BaseKey \in [Runs -> BaseKeys]
  /\ Modes \subseteq {"allow", "notify", "block"} /\ Wait \in BOOLEAN

\* upload_many raises on no files and on a batch size below one.
ASSUME FilesAssumption == NumFiles \in Nat \ {0} /\ BatchSize \in Nat \ {0}

\* A name is its tag: the server resolves one to the other.
ASSUME SettingsAssumption ==
  Project \in Nat \cup {ByName} /\ TagIds \cap TagNames = {}

Files == 1..NumFiles
BatchOf(f) == (f - 1) \div BatchSize
Batches == {BatchOf(f) : f \in Files}
\* Mutant of FilesOf: a full batch loses its last file.
FilesOfShort(b) == {f \in Files : BatchOf(f) = b /\ f % BatchSize # 0}
\* paths[start : start + batch_size].
FilesOf(b) == {f \in Files : BatchOf(f) = b}
Keys == (BaseKeys \cup Runs) \X Batches

VARIABLES
  \* the server
  plans,     \* the recorded responses to POST /api/uploads, by key
  docs,      \* the state of the document that a plan made for a file
  projects,  \* how many projects there are
  \* each run
  mode,      \* on_duplicate
  pc,        \* idle, plan, items, waiting, returned, failed, raised, crashed
  batch,     \* batch_no
  eff,       \* the eff_... settings that the next plan is asked with
  current,   \* the outcomes of the running batch, or of the one that failed
  outcomes   \* the outcomes of completed batches

server == <<plans, docs, projects>>
vars   == <<plans, docs, projects, mode, pc, batch, eff, current, outcomes>>

\* A response's item: an URL, an URL for a known duplicate, a name conflict
\* (with the id of the document that has the name), or another error.
Verdicts == {"put", "duplicate", "conflict", "error"}
Outcomes == {"none", "uploaded", "skipped", "failed"}
AllTags  == TagIds \cup TagNames

Settings == [project : Nat \cup {ByName}, ids : SUBSET AllTags,
             names : SUBSET AllTags]

TypeOK ==
  /\ DOMAIN plans \subseteq Keys
  /\ \A k \in DOMAIN plans :
       LET p == plans[k] IN
         /\ p.batch \in Batches /\ p.asked \in Settings
         /\ p.verdict \in [FilesOf(p.batch) -> Verdicts]
         /\ p.project \in Nat /\ p.tags \subseteq AllTags
         /\ p.echo \subseteq p.tags /\ p.live \in BOOLEAN
  /\ docs \in [Keys -> [Files -> {"none", "placeholder", "stored", "deleted"}]]
  /\ projects \in Nat
  /\ mode \in [Runs -> Modes]
  /\ pc \in [Runs -> {"idle", "plan", "items", "waiting", "returned", "failed",
                      "raised", "crashed"}]
  /\ batch \in [Runs -> Batches]
  /\ eff \in [Runs -> Settings]
  /\ current \in [Runs -> [Files -> Outcomes]]
  /\ outcomes \in [Runs -> [Files -> Outcomes]]

NoOutcomes == [f \in Files |-> "none"]

Init ==
  /\ plans = [k \in {} |-> {}]
  /\ docs = [k \in Keys |-> [f \in Files |-> "none"]]
  /\ projects = IF Project = ByName THEN 0 ELSE Project
  /\ mode \in [Runs -> Modes]
  /\ pc = [r \in Runs |-> "idle"]
  /\ batch = [r \in Runs |-> 0]
  /\ eff = [r \in Runs |-> [project |-> Project, ids |-> TagIds, names |-> TagNames]]
  /\ current = [r \in Runs |-> NoOutcomes]
  /\ outcomes = [r \in Runs |-> NoOutcomes]

(***************************************************************************)
(* The plan.                                                               *)
(***************************************************************************)

\* Mutants of Key: each run makes a key of its own, or all batches share one.
KeyPerRun(r, b) == <<r, b>>
KeyOfImport(r, b) == <<BaseKey[r], 0>>

\* f"{base_key}-{batch_no:04d}".
Key(r, b) == <<BaseKey[r], b>>

KeyNow(r) == Key(r, batch[r])
PlanNow(r) == plans[KeyNow(r)]
Planned(r) == KeyNow(r) \in DOMAIN plans

\* The recorded request is the one that the run sends.
SameRequest(r) == PlanNow(r).batch = batch[r] /\ PlanNow(r).asked = eff[r]

\* A name is unique in its project (and folder): it belongs to one document.
Taken(f, project) ==
  \E k \in DOMAIN plans :
    plans[k].project = project /\ docs[k][f] \in {"placeholder", "stored"}

\* The server makes the plan, a placeholder document for each file it accepts,
\* and the project if it is asked for by name.  Its response may list the tags.
Execute(r) ==
  LET new     == eff[r].project = ByName
      project == IF new THEN projects + 1 ELSE eff[r].project
      tags    == eff[r].ids \cup eff[r].names
  IN  \E verdict \in [FilesOf(batch[r]) -> Verdicts], echo \in {{}, tags} :
        /\ \A f \in FilesOf(batch[r]) : Taken(f, project) => verdict[f] = "conflict"
        /\ plans' = [k \in DOMAIN plans \cup {KeyNow(r)} |->
             IF k = KeyNow(r)
             THEN [batch |-> batch[r], asked |-> eff[r], verdict |-> verdict,
                   project |-> project, tags |-> tags, echo |-> echo, live |-> TRUE]
             ELSE plans[k]]
        /\ docs' = [docs EXCEPT ![KeyNow(r)] = [f \in Files |->
             IF f \in FilesOf(batch[r]) /\ verdict[f] \in {"put", "duplicate"}
             THEN "placeholder" ELSE @[f]]]
        /\ projects' = IF new THEN projects + 1 ELSE projects

(***************************************************************************)
(* A run.                                                                  *)
(***************************************************************************)
Stop(r, how) == pc' = [pc EXCEPT ![r] = how]

\* A batch's exception becomes UploadManyError, with the completed batches'
\* outcomes as its .partial; `current` is lost (it is kept here to be told of).
Fail(r) ==
  /\ Stop(r, "failed")
  /\ UNCHANGED <<mode, batch, eff, current, outcomes>>

Start(r) ==
  /\ pc[r] = "idle"
  /\ pc' = [pc EXCEPT ![r] = "plan"]
  /\ UNCHANGED <<server, mode, batch, eff, current, outcomes>>

\* The POST is answered: executed now, or replayed.
Plan(r) ==
  /\ pc[r] = "plan"
  /\ \/ ~Planned(r) /\ Execute(r)
     \/ Planned(r) /\ SameRequest(r) /\ UNCHANGED server
  /\ pc' = [pc EXCEPT ![r] = "items"]
  /\ UNCHANGED <<mode, batch, eff, current, outcomes>>

\* The POST fails: refused (a key reused with another request, 422, too), or
\* its response is lost for good.
PlanFails(r) ==
  /\ pc[r] = "plan"
  /\ UNCHANGED server \/ (~Planned(r) /\ Execute(r))
  /\ Fail(r)

Todo(r) == {f \in FilesOf(batch[r]) : current[r][f] = "none"}

Note(r, f, outcome) ==
  /\ current' = [current EXCEPT ![r][f] = outcome]
  /\ UNCHANGED <<plans, projects, mode, pc, batch, eff, outcomes>>

\* The bytes arrive: the placeholder becomes a stored document.
Store(r, f) ==
  docs' = [docs EXCEPT ![KeyNow(r)][f] = IF @ = "placeholder" THEN "stored" ELSE @]

\* A known duplicate that on_duplicate="block" does not upload.
Blocked(r, f) == PlanNow(r).verdict[f] = "duplicate" /\ mode[r] = "block"

HasUrl(r, f) == PlanNow(r).verdict[f] \in {"put", "duplicate"}

\* put_presigned succeeds.
Put(r, f) ==
  /\ pc[r] = "items" /\ f \in Todo(r)
  /\ HasUrl(r, f) /\ ~Blocked(r, f) /\ PlanNow(r).live
  /\ Store(r, f)
  /\ Note(r, f, "uploaded")

\* Mutant of PutFails: the error is noted and the loop goes on.
PutFailsSwallowed(r, f) ==
  /\ pc[r] = "items" /\ f \in Todo(r)
  /\ HasUrl(r, f) /\ ~Blocked(r, f)
  /\ UNCHANGED docs
  /\ Note(r, f, "uploaded")

\* put_presigned raises, whether the bytes arrived or not.
PutFails(r, f) ==
  /\ pc[r] = "items" /\ f \in Todo(r)
  /\ HasUrl(r, f) /\ ~Blocked(r, f)
  /\ UNCHANGED docs \/ (PlanNow(r).live /\ Store(r, f))
  /\ UNCHANGED <<plans, projects>>
  /\ Fail(r)

Remove(r, f) == docs' = [docs EXCEPT ![KeyNow(r)][f] = "deleted"]

\* The placeholder of a blocked file is deleted; deleting again succeeds too
\* (README: documents.delete converges).
Skip(r, f) ==
  /\ pc[r] = "items" /\ f \in Todo(r)
  /\ Blocked(r, f)
  /\ Remove(r, f)
  /\ Note(r, f, "skipped")

SkipFails(r, f) ==
  /\ pc[r] = "items" /\ f \in Todo(r)
  /\ Blocked(r, f)
  /\ UNCHANGED docs \/ Remove(r, f)
  /\ UNCHANGED <<plans, projects>>
  /\ Fail(r)

\* No URL: the item's error is the outcome.
Reject(r, f) ==
  /\ pc[r] = "items" /\ f \in Todo(r)
  /\ ~HasUrl(r, f)
  /\ UNCHANGED docs
  /\ Note(r, f, "failed")

\* Mutant of Pinned: the settings are not pinned.
PinnedNever(r) == eff[r]

\* Later batches are asked with the response's project and tags, by id.
Pinned(r) ==
  LET p == PlanNow(r) IN
    [project |-> p.project,
     ids     |-> IF p.echo = {} THEN eff[r].ids ELSE p.echo,
     names   |-> IF p.echo = {} THEN eff[r].names ELSE {}]

\* Mutant of MoreBatches: one batch too many.
MoreBatchesOffByOne(r) == batch[r] \in Batches

MoreBatches(r) == batch[r] + 1 \in Batches

\* _upload_batch returns: its outcomes are added, its project and tags pinned,
\* and on_batch called, which may raise; that is no UploadManyError.
BatchDone(r) ==
  /\ pc[r] = "items" /\ Todo(r) = {}
  /\ outcomes' = [outcomes EXCEPT ![r] = [f \in Files |->
                    IF f \in FilesOf(batch[r]) THEN current[r][f] ELSE @[f]]]
  /\ current' = [current EXCEPT ![r] = NoOutcomes]
  /\ eff' = [eff EXCEPT ![r] = Pinned(r)]
  /\ \/ /\ MoreBatches(r)
        /\ batch' = [batch EXCEPT ![r] = @ + 1]
        /\ pc' = [pc EXCEPT ![r] = "plan"]
     \/ /\ ~MoreBatches(r)
        /\ Stop(r, IF Wait THEN "waiting" ELSE "returned")
        /\ UNCHANGED batch
     \/ Stop(r, "raised") /\ UNCHANGED batch
  /\ UNCHANGED <<server, mode>>

\* wait_until_ready returns, or raises (PollUntil).
WaitEnds(r) ==
  /\ pc[r] = "waiting"
  /\ \E how \in {"returned", "raised"} : Stop(r, how)
  /\ UNCHANGED <<server, mode, batch, eff, current, outcomes>>

\* The process dies, or is interrupted by what is no Exception.
Crash(r) ==
  /\ pc[r] \in {"plan", "items", "waiting"}
  /\ Stop(r, "crashed")
  /\ current' = [current EXCEPT ![r] = NoOutcomes]
  /\ UNCHANGED <<server, mode, batch, eff, outcomes>>

\* The presigned URLs of a plan expire (UploadItem.expires_at); a replay of the
\* plan gives the same URLs again.
Expire(k) ==
  /\ plans[k].live
  /\ plans' = [plans EXCEPT ![k].live = FALSE]
  /\ UNCHANGED <<docs, projects, mode, pc, batch, eff, current, outcomes>>

Ended ==
  /\ \A r \in Runs : pc[r] \in {"returned", "failed", "raised", "crashed"}
  /\ UNCHANGED vars

Item(r, f) ==
  Put(r, f) \/ PutFails(r, f) \/ Skip(r, f) \/ SkipFails(r, f) \/ Reject(r, f)

Next ==
  \/ \E r \in Runs :
       \/ Start(r) \/ Plan(r) \/ PlanFails(r) \/ BatchDone(r) \/ WaitEnds(r)
       \/ Crash(r)
       \/ \E f \in Files : Item(r, f)
  \/ \E k \in DOMAIN plans : Expire(k)
  \/ Ended

Spec == Init /\ [][Next]_vars

(***************************************************************************)
(* Properties.                                                             *)
(***************************************************************************)
Told(r, f) == IF outcomes[r][f] # "none" THEN outcomes[r][f] ELSE current[r][f]

\* "Crash anywhere, rerun, nothing duplicates": runs with one key make one
\* document of a file at most, in whatever order they die and overlap.
NothingDuplicates ==
  \A k, l \in DOMAIN plans, f \in Files :
    docs[k][f] # "none" /\ docs[l][f] # "none" => k = l

\* One import is one project and one set of tags, also when its batches were
\* planned by different runs (upload_many: "no duplicate projects").
SameSettings ==
  \A k, l \in DOMAIN plans :
    plans[k].project = plans[l].project /\ plans[k].tags = plans[l].tags

\* A re-run asks for each batch what the first run asked: it is never refused
\* for reusing a key with another request (422).
NeverMismatched ==
  \A r \in Runs : pc[r] = "plan" /\ Planned(r) => SameRequest(r)

\* on_duplicate is no part of the keyed request: runs with one key that were
\* given different modes each treat a known duplicate in their own way.
Contested(r, f) ==
  /\ \E q \in Runs : BaseKey[q] = BaseKey[r] /\ mode[q] # mode[r]
  /\ Key(r, BatchOf(f)) \in DOMAIN plans
  /\ plans[Key(r, BatchOf(f))].verdict[f] = "duplicate"

\* A file that a run calls uploaded is stored, one that it calls skipped is
\* gone, and stays so whatever the other runs do: unless it is a duplicate that
\* they were told to treat differently.
ReportIsTrue ==
  \A r \in Runs, f \in Files :
    LET doc == docs[Key(r, BatchOf(f))][f] IN
      \/ Contested(r, f)
      \/ /\ Told(r, f) = "uploaded" => doc = "stored"
         /\ Told(r, f) = "skipped" => doc = "deleted"
         /\ Told(r, f) = "failed" => doc = "none"

\* What a run returns or raises tells of every file of its completed batches,
\* and of no other (UploadManyError.partial and batches_completed).
ReportIsComplete ==
  \A r \in Runs :
    /\ pc[r] \in {"waiting", "returned"} => \A f \in Files : outcomes[r][f] # "none"
    /\ pc[r] = "failed" => \A f \in Files : outcomes[r][f] # "none" <=> BatchOf(f) < batch[r]

\* The fate a document shows, and the one an outcome tells.
Shown == [none |-> "refused", placeholder |-> "planned", stored |-> "stored",
          deleted |-> "dropped"]
Tells == [none |-> "nothing", uploaded |-> "stored", skipped |-> "dropped",
          failed |-> "refused"]

\* A file's fate is that of the one document made for it, and open while runs
\* contest it.
FateOf(f) ==
  LET K == {k \in DOMAIN plans : plans[k].batch = BatchOf(f)} IN
    IF K = {} THEN "new"
    ELSE IF \E r \in Runs : Contested(r, f) THEN "planned"
    ELSE Shown[docs[CHOOSE k \in K : \A l \in K : docs[l][f] # "none" => docs[k][f] # "none"][f]]

Import == INSTANCE BulkImport WITH
  fate <- [f \in Files |-> FateOf(f)],
  told <- [r \in Runs |-> [f \in Files |->
            IF Contested(r, f) THEN "nothing" ELSE Tells[outcomes[r][f]]]]

\* Batches, replays, crashes and overlapping runs are invisible: each file
\* comes to one fate, and every run tells that one.
ImplementsImport == Import!Spec

\* The documents the call waits for, by the property document_ids: those of
\* all outcomes that carry an id.
Awaited(r) == {f \in Files : plans[Key(r, BatchOf(f))].verdict[f] # "error"}

\* The docstring: "readiness is awaited once at the end, over all uploaded
\* documents".
AwaitsUploaded ==
  \A r \in Runs : pc[r] = "waiting" =>
    \A f \in Awaited(r) : outcomes[r][f] = "uploaded"

\* UploadManyError: ".partial aggregates everything uploaded before the
\* failure".
PartialIsEverything ==
  \A r \in Runs, f \in Files :
    pc[r] = "failed" /\ current[r][f] = "uploaded" => outcomes[r][f] = "uploaded"
===============================================================================
