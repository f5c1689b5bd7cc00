---------------------------- MODULE UploadManyProofs ----------------------------
(***************************************************************************)
(* Theorems about UploadMany, for any number of runs, files and batches    *)
(* and any settings.                                                       *)
(***************************************************************************)
EXTENDS UploadMany, TLAPS

(***************************************************************************)
(* The inductive invariant.                                                *)
(***************************************************************************)

\* What the first batch is asked with.
Base == [project |-> Project, ids |-> TagIds, names |-> TagNames]

\* What the batch after a plan is asked with.
PinnedBy(p) ==
  [project |-> p.project,
   ids     |-> IF p.echo = {} THEN p.asked.ids ELSE p.echo,
   names   |-> IF p.echo = {} THEN p.asked.names ELSE {}]

\* The keys of the batch before, and of the first batch.
Previous(k) == <<k[1], k[2] - 1>>
First(k)    == <<k[1], 0>>

\* The plans alone say what every later request asks for.
AskedFor(k) == IF k[2] = 0 THEN Base ELSE PinnedBy(plans[Previous(k)])

PlanFields == {"batch", "asked", "verdict", "project", "tags", "echo", "live"}

\* The plans of a key are a chain that pins the first one's project and tags.
PlanInv ==
  \A k \in DOMAIN plans :
    LET p == plans[k] IN
      /\ DOMAIN p = PlanFields
      /\ p.batch = k[2] /\ \E r \in Runs : k[1] = BaseKey[r]
      /\ k[2] # 0 => Previous(k) \in DOMAIN plans
      /\ p.asked = AskedFor(k)
      /\ p.asked.ids \cup p.asked.names = AllTags
      /\ p.tags = AllTags /\ p.echo \in {{}, AllTags}
      /\ First(k) \in DOMAIN plans /\ p.project = plans[First(k)].project

\* Some run uploads the file, if it was planned.
Uploads(k, f) ==
  \/ plans[k].verdict[f] = "put"
  \/ \E q \in Runs : BaseKey[q] = k[1] /\ mode[q] # "block"

\* A document is made by the plan of its file's batch, and deleted by a run that
\* blocks duplicates.
DocInv ==
  \A k \in Keys, f \in Files :
    /\ docs[k][f] # "none" <=>
         /\ k \in DOMAIN plans /\ f \in FilesOf(plans[k].batch)
         /\ plans[k].verdict[f] \in {"put", "duplicate"}
    /\ docs[k][f] = "deleted" =>
         /\ plans[k].verdict[f] = "duplicate"
         /\ \E q \in Runs : BaseKey[q] = k[1] /\ mode[q] = "block"
    /\ docs[k][f] = "stored" => Uploads(k, f)

\* A run asks what the plans before its batch make it ask.
RunInv ==
  \A r \in Runs :
    /\ pc[r] = "idle" => batch[r] = 0
    /\ pc[r] \in {"idle", "plan", "items"} =>
         /\ batch[r] # 0 => Previous(KeyNow(r)) \in DOMAIN plans
         /\ eff[r] = AskedFor(KeyNow(r))
    /\ pc[r] = "items" => Planned(r)

\* Which files a run has outcomes of.
ReachInv ==
  \A r \in Runs :
    /\ pc[r] \in {"idle", "plan", "items", "failed"} =>
         \A f \in Files : outcomes[r][f] # "none" <=> BatchOf(f) < batch[r]
    /\ pc[r] \in {"waiting", "returned"} => \A f \in Files : outcomes[r][f] # "none"

\* An outcome is what the plan and the run's mode make of the file, and the
\* document agrees, unless runs contest it.
Agrees(r, f, outcome) ==
  LET k == Key(r, BatchOf(f)) IN
    /\ outcome # "none" => k \in DOMAIN plans
    /\ outcome = "uploaded" =>
         /\ plans[k].verdict[f] \in {"put", "duplicate"}
         /\ plans[k].verdict[f] = "duplicate" => mode[r] # "block"
         /\ Contested(r, f) \/ docs[k][f] = "stored"
    /\ outcome = "skipped" =>
         /\ plans[k].verdict[f] = "duplicate" /\ mode[r] = "block"
         /\ Contested(r, f) \/ docs[k][f] = "deleted"
    /\ outcome = "failed" => plans[k].verdict[f] \in {"conflict", "error"}

OutcomeInv ==
  \A r \in Runs, f \in Files :
    Agrees(r, f, current[r][f]) /\ Agrees(r, f, outcomes[r][f])

IInv ==
  /\ TypeOK
  /\ PlanInv
  /\ DocInv
  /\ RunInv
  /\ ReachInv
  /\ OutcomeInv

USE RunsAssumption, FilesAssumption, SettingsAssumption

(***************************************************************************)
(* Files, batches and keys.                                                *)
(***************************************************************************)

LEMMA DivFacts ==
  ASSUME NEW a \in Nat
  PROVE  /\ a \div BatchSize \in Nat
         /\ (a \div BatchSize) * BatchSize <= a
         /\ a < (a \div BatchSize + 1) * BatchSize
  BY SMT

LEMMA DivExact ==
  ASSUME NEW b \in Nat
  PROVE  b * BatchSize \in Nat /\ (b * BatchSize) \div BatchSize = b
  BY SMT

\* The batches are numbered from zero, without gaps.
LEMMA BatchFacts ==
  /\ Batches \subseteq Nat /\ 0 \in Batches
  /\ \A f \in Files : BatchOf(f) \in Batches /\ BatchOf(f) \in Nat
  /\ \A f \in Files, b \in Nat : b < BatchOf(f) => b + 1 \in Batches
<1>1. \A f \in Files : BatchOf(f) \in Batches /\ BatchOf(f) \in Nat
  BY DivFacts DEF Files, BatchOf, Batches
<1>2. Batches \subseteq Nat
  BY <1>1 DEF Batches
<1>3. 1 \in Files
  BY DEF Files
<1>4. 0 \div BatchSize = 0
  BY SMT
<1>5. BatchOf(1) = 0
  BY <1>4 DEF BatchOf
<1>6. 0 \in Batches
  BY <1>3, <1>5 DEF Batches
<1>7. ASSUME NEW f \in Files, NEW b \in Nat, b < BatchOf(f) PROVE b + 1 \in Batches
  <2> DEFINE g == (b + 1) * BatchSize + 1
  <2>1. f \in Nat /\ f - 1 \in Nat /\ f <= NumFiles
    BY DEF Files
  <2>2. BatchOf(f) \in Nat /\ BatchOf(f) * BatchSize <= f - 1
    BY <2>1, DivFacts DEF BatchOf
  <2>3. (b + 1) * BatchSize <= BatchOf(f) * BatchSize
    BY <1>7, <2>2
  <2>4. (b + 1) * BatchSize \in Nat /\ ((b + 1) * BatchSize) \div BatchSize = b + 1
    BY DivExact
  <2>5. BatchOf(f) * BatchSize \in Nat
    BY <2>2
  <2>6. g \in Files /\ g - 1 = (b + 1) * BatchSize
    BY <2>1, <2>2, <2>3, <2>4, <2>5 DEF Files
  <2>7. BatchOf(g) = b + 1
    BY <2>4, <2>6 DEF BatchOf
  <2> QED
    BY <2>6, <2>7 DEF Batches
<1> QED
  BY <1>1, <1>2, <1>6, <1>7

\* A file belongs to one batch.
LEMMA FilesFacts ==
  ASSUME NEW b
  PROVE  /\ FilesOf(b) \subseteq Files
         /\ \A f \in Files : f \in FilesOf(b) <=> BatchOf(f) = b
  BY DEF FilesOf

LEMMA KeyFacts ==
  ASSUME NEW r \in Runs, NEW b \in Batches
  PROVE  /\ Key(r, b) \in Keys /\ Key(r, b)[1] = BaseKey[r] /\ Key(r, b)[2] = b
         /\ Previous(Key(r, b)) = <<BaseKey[r], b - 1>> /\ First(Key(r, b)) = <<BaseKey[r], 0>>
  BY DEF Key, Keys, Previous, First

LEMMA KeyParts ==
  ASSUME NEW k \in Keys
  PROVE  k = <<k[1], k[2]>> /\ k[2] \in Batches /\ k[2] \in Nat
<1>1. PICK x \in BaseKeys \cup Runs, b \in Batches : k = <<x, b>>
  BY DEF Keys
<1> QED
  BY <1>1, BatchFacts

\* A request is keyed by its run and its batch.
LEMMA KeyNowFacts ==
  ASSUME TypeOK, NEW r \in Runs
  PROVE  /\ batch[r] \in Batches /\ batch[r] \in Nat /\ KeyNow(r) \in Keys
         /\ KeyNow(r) = Key(r, batch[r])
         /\ KeyNow(r)[1] = BaseKey[r] /\ KeyNow(r)[2] = batch[r]
<1>1. batch[r] \in Batches
  BY DEF TypeOK
<1> QED
  BY <1>1, KeyFacts, BatchFacts DEF KeyNow

(***************************************************************************)
(* The plans only grow.                                                    *)
(***************************************************************************)

SamePlan(p, q) ==
  /\ p.batch = q.batch /\ p.asked = q.asked /\ p.verdict = q.verdict
  /\ p.project = q.project /\ p.tags = q.tags /\ p.echo = q.echo

PlansKept ==
  \A k \in DOMAIN plans : k \in DOMAIN plans' /\ SamePlan(plans[k], plans'[k])

\* What a new plan records.
NewPlan(r) ==
  LET k == KeyNow(r)
      p == plans'[KeyNow(r)]
  IN  /\ k \notin DOMAIN plans /\ DOMAIN plans' = DOMAIN plans \cup {k}
      /\ \A l \in DOMAIN plans : plans'[l] = plans[l]
      /\ DOMAIN p = PlanFields
      /\ p.batch = batch[r] /\ p.asked = eff[r]
      /\ p.verdict \in [FilesOf(batch[r]) -> Verdicts]
      /\ \A f \in FilesOf(batch[r]) : Taken(f, p.project) => p.verdict[f] = "conflict"
      /\ p.project = IF eff[r].project = ByName THEN projects + 1 ELSE eff[r].project
      /\ p.tags = eff[r].ids \cup eff[r].names /\ p.echo \in {{}, p.tags} /\ p.live \in BOOLEAN
      /\ projects' = IF eff[r].project = ByName THEN projects + 1 ELSE projects
      /\ docs' = [docs EXCEPT ![k] = [f \in Files |->
                    IF f \in FilesOf(batch[r]) /\ p.verdict[f] \in {"put", "duplicate"}
                    THEN "placeholder" ELSE @[f]]]

LEMMA ExecuteFacts ==
  ASSUME NEW r \in Runs, ~Planned(r), Execute(r)
  PROVE  NewPlan(r)
<1> DEFINE new     == eff[r].project = ByName
           project == IF new THEN projects + 1 ELSE eff[r].project
           tags    == eff[r].ids \cup eff[r].names
<1>1. PICK verdict \in [FilesOf(batch[r]) -> Verdicts], echo \in {{}, tags} :
        /\ \A f \in FilesOf(batch[r]) : Taken(f, project) => verdict[f] = "conflict"
        /\ plans' = [k \in DOMAIN plans \cup {KeyNow(r)} |->
             IF k = KeyNow(r)
             THEN [batch |-> batch[r], asked |-> eff[r], verdict |-> verdict,
                   project |-> project, tags |-> tags, echo |-> echo, live |-> TRUE]
             ELSE plans[k]]
        /\ docs' = [docs EXCEPT ![KeyNow(r)] = [f \in Files |->
             IF f \in FilesOf(batch[r]) /\ verdict[f] \in {"put", "duplicate"}
             THEN "placeholder" ELSE @[f]]]
        /\ projects' = IF new THEN projects + 1 ELSE projects
  BY DEF Execute
<1>2. plans'[KeyNow(r)] =
        [batch |-> batch[r], asked |-> eff[r], verdict |-> verdict,
         project |-> project, tags |-> tags, echo |-> echo, live |-> TRUE]
  BY <1>1
<1>3. /\ DOMAIN plans' = DOMAIN plans \cup {KeyNow(r)} /\ KeyNow(r) \notin DOMAIN plans
      /\ \A l \in DOMAIN plans : plans'[l] = plans[l]
  BY <1>1 DEF Planned
<1>4. /\ DOMAIN plans'[KeyNow(r)] = PlanFields
      /\ plans'[KeyNow(r)].verdict = verdict
  BY <1>2 DEF PlanFields
<1> QED
  BY <1>1, <1>2, <1>3, <1>4 DEF NewPlan

\* The presigned URLs expire, and nothing else of the plan.
LEMMA ExpireFacts ==
  ASSUME PlanInv, NEW k \in DOMAIN plans, Expire(k)
  PROVE  /\ DOMAIN plans' = DOMAIN plans
         /\ \A l \in DOMAIN plans : /\ SamePlan(plans[l], plans'[l])
                                    /\ DOMAIN plans'[l] = DOMAIN plans[l]
                                    /\ plans'[l].live \in {plans[l].live, FALSE}
<1>1. plans' = [plans EXCEPT ![k].live = FALSE]
  BY DEF Expire
<1>2. DOMAIN plans[k] = PlanFields
  BY DEF PlanInv
<1> QED
  BY <1>1, <1>2 DEF PlanFields, SamePlan

(***************************************************************************)
(* The steps, by what they do to the server.                               *)
(***************************************************************************)

\* The POST is answered with a recorded plan.
Replays(r) ==
  /\ pc[r] = "plan" /\ Planned(r) /\ SameRequest(r)
  /\ pc' = [pc EXCEPT ![r] = "items"]
  /\ UNCHANGED <<server, mode, batch, eff, current, outcomes>>

\* The POST makes a plan, and is answered or not.
Plans(r) ==
  /\ pc[r] = "plan" /\ NewPlan(r)
  /\ \E how \in {"items", "failed"} : pc' = [pc EXCEPT ![r] = how]
  /\ UNCHANGED <<mode, batch, eff, current, outcomes>>

\* A PUT or a DELETE fails, with its effect or without.
Breaks(r, f) ==
  /\ pc[r] = "items" /\ f \in FilesOf(batch[r])
  /\ pc' = [pc EXCEPT ![r] = "failed"]
  /\ \/ docs' = docs
     \/ HasUrl(r, f) /\ ~Blocked(r, f) /\ Store(r, f)
     \/ Blocked(r, f) /\ Remove(r, f)
  /\ UNCHANGED <<plans, projects, mode, batch, eff, current, outcomes>>

\* A run ends, and leaves the server alone.
Stops(r) ==
  /\ \/ pc[r] \in {"plan", "items"} /\ pc' = [pc EXCEPT ![r] = "failed"]
     \/ pc[r] = "waiting" /\ pc' = [pc EXCEPT ![r] = "returned"]
     \/ \E how \in {"raised", "crashed"} : pc' = [pc EXCEPT ![r] = how]
  /\ current' = current \/ current' = [current EXCEPT ![r] = NoOutcomes]
  /\ UNCHANGED <<server, mode, batch, eff, outcomes>>

\* An outcome of a file of the running batch is noted.
Notes(r, f, outcome) ==
  /\ pc[r] = "items" /\ f \in FilesOf(batch[r])
  /\ current' = [current EXCEPT ![r][f] = outcome]
  /\ \/ /\ outcome = "uploaded" /\ HasUrl(r, f) /\ ~Blocked(r, f) /\ Store(r, f)
     \/ /\ outcome = "skipped" /\ Blocked(r, f) /\ Remove(r, f)
     \/ /\ outcome = "failed" /\ ~HasUrl(r, f) /\ docs' = docs
  /\ UNCHANGED <<plans, projects, mode, pc, batch, eff, outcomes>>

\* What a step does to a document.
Moves(k, f) ==
  \/ docs'[k][f] = docs[k][f]
  \/ k \notin DOMAIN plans /\ k \in DOMAIN plans'
  \/ docs[k][f] = "placeholder" /\ docs'[k][f] = "stored" /\ Uploads(k, f)
  \/ /\ docs'[k][f] = "deleted" /\ k \in DOMAIN plans
     /\ f \in FilesOf(plans[k].batch) /\ plans[k].verdict[f] = "duplicate"
     /\ \E q \in Runs : BaseKey[q] = k[1] /\ mode[q] = "block"

\* Bytes that arrive, and placeholders that are removed.
LEMMA StoreFacts ==
  ASSUME TypeOK, NEW r \in Runs, NEW f \in Files, Store(r, f)
  PROVE  /\ docs' \in [Keys -> [Files -> {"none", "placeholder", "stored", "deleted"}]]
         /\ docs'[KeyNow(r)][f] = IF docs[KeyNow(r)][f] = "placeholder" THEN "stored"
                                  ELSE docs[KeyNow(r)][f]
         /\ \A k \in Keys, g \in Files : k # KeyNow(r) \/ g # f => docs'[k][g] = docs[k][g]
  BY KeyNowFacts DEF Store, TypeOK

LEMMA RemoveFacts ==
  ASSUME TypeOK, NEW r \in Runs, NEW f \in Files, Remove(r, f)
  PROVE  /\ docs' \in [Keys -> [Files -> {"none", "placeholder", "stored", "deleted"}]]
         /\ docs'[KeyNow(r)][f] = "deleted"
         /\ \A k \in Keys, g \in Files : k # KeyNow(r) \/ g # f => docs'[k][g] = docs[k][g]
  BY KeyNowFacts DEF Remove, TypeOK

\* A new plan's placeholders.
LEMMA PlaceFacts ==
  ASSUME TypeOK, NEW r \in Runs, NewPlan(r)
  PROVE  /\ docs' \in [Keys -> [Files -> {"none", "placeholder", "stored", "deleted"}]]
         /\ \A k \in Keys : k # KeyNow(r) => docs'[k] = docs[k]
         /\ \A f \in Files : docs'[KeyNow(r)][f] =
              IF f \in FilesOf(batch[r]) /\ plans'[KeyNow(r)].verdict[f] \in {"put", "duplicate"}
              THEN "placeholder" ELSE docs[KeyNow(r)][f]
<1>1. KeyNow(r) \in Keys
  BY KeyNowFacts
<1> QED
  BY <1>1 DEF NewPlan, TypeOK

LEMMA Kinds ==
  ASSUME TypeOK, [Next]_vars
  PROVE  \/ \E r \in Runs : Start(r) \/ Replays(r) \/ Plans(r) \/ BatchDone(r) \/ Stops(r)
         \/ \E r \in Runs, f \in Files : Breaks(r, f)
         \/ \E r \in Runs, f \in Files, o \in Outcomes : Notes(r, f, o)
         \/ \E k \in DOMAIN plans : Expire(k)
         \/ UNCHANGED vars
<1> USE DEF server
<1>1. ASSUME NEW r \in Runs, Plan(r) PROVE Replays(r) \/ Plans(r)
  BY <1>1, ExecuteFacts DEF Plan, Replays, Plans
<1>2. ASSUME NEW r \in Runs, PlanFails(r) PROVE Stops(r) \/ Plans(r)
  <2>1. CASE UNCHANGED server
    BY <1>2, <2>1 DEF PlanFails, Stops, Fail, Stop
  <2>2. CASE ~Planned(r) /\ Execute(r)
    BY <1>2, <2>2, ExecuteFacts DEF PlanFails, Plans, Fail, Stop
  <2> QED
    BY <1>2, <2>1, <2>2 DEF PlanFails
<1>3. ASSUME NEW r \in Runs, WaitEnds(r) \/ Crash(r) PROVE Stops(r)
  BY <1>3 DEF WaitEnds, Crash, Stops, Stop
<1>4. ASSUME NEW r \in Runs, NEW f \in Files, PutFails(r, f) \/ SkipFails(r, f)
      PROVE  Breaks(r, f)
  BY <1>4 DEF PutFails, SkipFails, Breaks, Fail, Stop, Todo
<1>5. ASSUME NEW r \in Runs, NEW f \in Files, Put(r, f) PROVE Notes(r, f, "uploaded")
  BY <1>5 DEF Put, Notes, Note, Todo
<1>6. ASSUME NEW r \in Runs, NEW f \in Files, Skip(r, f) PROVE Notes(r, f, "skipped")
  BY <1>6 DEF Skip, Notes, Note, Todo
<1>7. ASSUME NEW r \in Runs, NEW f \in Files, Reject(r, f) PROVE Notes(r, f, "failed")
  BY <1>7 DEF Reject, Notes, Note, Todo
<1>8. {"uploaded", "skipped", "failed"} \subseteq Outcomes
  BY DEF Outcomes
<1> QED
  BY <1>1, <1>2, <1>3, <1>4, <1>5, <1>6, <1>7, <1>8 DEF Next, Item, Ended

LEMMA KeptStep ==
  ASSUME TypeOK, PlanInv, [Next]_vars
  PROVE  PlansKept /\ mode' = mode
<1>1. plans' = plans => PlansKept
  BY DEF PlansKept, SamePlan
<1>2. ASSUME NEW r \in Runs, Start(r) \/ Replays(r) \/ BatchDone(r) \/ Stops(r)
      PROVE  plans' = plans /\ mode' = mode
  BY <1>2 DEF Start, Replays, BatchDone, Stops, server
<1>3. ASSUME NEW r \in Runs, Plans(r) PROVE PlansKept /\ mode' = mode
  BY <1>3 DEF Plans, NewPlan, PlansKept, SamePlan
<1>4. ASSUME NEW r \in Runs, NEW f \in Files, Breaks(r, f) PROVE plans' = plans /\ mode' = mode
  BY <1>4 DEF Breaks
<1>5. ASSUME NEW r \in Runs, NEW f \in Files, NEW o, Notes(r, f, o)
      PROVE  plans' = plans /\ mode' = mode
  BY <1>5 DEF Notes
<1>6. ASSUME NEW k \in DOMAIN plans, Expire(k) PROVE PlansKept /\ mode' = mode
  BY <1>6, ExpireFacts DEF PlansKept, Expire
<1>7. CASE UNCHANGED vars
  BY <1>1, <1>7 DEF vars
<1> QED
  BY <1>1, <1>2, <1>3, <1>4, <1>5, <1>6, <1>7, Kinds

LEMMA MovesStep ==
  ASSUME TypeOK, PlanInv, RunInv, [Next]_vars
  PROVE  \A k \in Keys, f \in Files : Moves(k, f)
<1>1. ASSUME docs' = docs PROVE \A k \in Keys, f \in Files : Moves(k, f)
  BY <1>1 DEF Moves
<1>2. ASSUME NEW r \in Runs, Start(r) \/ Replays(r) \/ BatchDone(r) \/ Stops(r) PROVE docs' = docs
  BY <1>2 DEF Start, Replays, BatchDone, Stops, server
<1>3. ASSUME NEW r \in Runs, Plans(r) PROVE \A k \in Keys, f \in Files : Moves(k, f)
  <2>1. NewPlan(r)
    BY <1>3 DEF Plans
  <2>2. KeyNow(r) \notin DOMAIN plans /\ KeyNow(r) \in DOMAIN plans'
    BY <2>1 DEF NewPlan
  <2> QED
    BY <2>1, <2>2, PlaceFacts DEF Moves
<1>4. ASSUME NEW r \in Runs, NEW f \in FilesOf(batch[r]), pc[r] = "items", HasUrl(r, f),
             ~Blocked(r, f), Store(r, f)
      PROVE  \A k \in Keys, g \in Files : Moves(k, g)
  <2>1. f \in Files
    BY FilesFacts
  <2>2. KeyNow(r)[1] = BaseKey[r]
    BY KeyNowFacts
  <2>3. Uploads(KeyNow(r), f)
    BY <1>4, <2>2 DEF HasUrl, Blocked, PlanNow, Uploads
  <2> QED
    BY <1>4, <2>1, <2>3, StoreFacts DEF Moves
<1>5. ASSUME NEW r \in Runs, NEW f \in FilesOf(batch[r]), pc[r] = "items", Blocked(r, f),
             Remove(r, f)
      PROVE  \A k \in Keys, g \in Files : Moves(k, g)
  <2>1. f \in Files
    BY FilesFacts
  <2>2. /\ KeyNow(r) \in DOMAIN plans /\ plans[KeyNow(r)].batch = batch[r]
        /\ KeyNow(r)[1] = BaseKey[r]
    BY <1>5, KeyNowFacts DEF RunInv, PlanInv, Planned
  <2>3. plans[KeyNow(r)].verdict[f] = "duplicate" /\ mode[r] = "block"
    BY <1>5 DEF Blocked, PlanNow
  <2> QED
    BY <1>5, <2>1, <2>2, <2>3, RemoveFacts DEF Moves
<1>6. ASSUME NEW r \in Runs, NEW f \in Files, Breaks(r, f)
      PROVE  \A k \in Keys, g \in Files : Moves(k, g)
  BY <1>1, <1>4, <1>5, <1>6 DEF Breaks
<1>7. ASSUME NEW r \in Runs, NEW f \in Files, NEW o, Notes(r, f, o)
      PROVE  \A k \in Keys, g \in Files : Moves(k, g)
  BY <1>1, <1>4, <1>5, <1>7 DEF Notes
<1>8. ASSUME NEW k \in DOMAIN plans, Expire(k) PROVE docs' = docs
  BY <1>8 DEF Expire
<1>9. CASE UNCHANGED vars
  BY <1>1, <1>9 DEF vars
<1> QED
  BY <1>1, <1>2, <1>3, <1>6, <1>7, <1>8, <1>9, Kinds

(***************************************************************************)
(* Types.                                                                  *)
(***************************************************************************)

\* The part of TypeOK that is about the plans.
PlansTyped ==
  /\ DOMAIN plans \subseteq Keys
  /\ \A k \in DOMAIN plans :
       LET p == plans[k] IN
         /\ p.batch \in Batches /\ p.asked \in Settings
         /\ p.verdict \in [FilesOf(p.batch) -> Verdicts]
         /\ p.project \in Nat /\ p.tags \subseteq AllTags
         /\ p.echo \subseteq p.tags /\ p.live \in BOOLEAN

LEMMA PinnedTyped ==
  ASSUME TypeOK, NEW r \in Runs, Planned(r)
  PROVE  Pinned(r) \in Settings
<1>1. /\ PlanNow(r).project \in Nat /\ PlanNow(r).echo \subseteq AllTags
  BY DEF TypeOK, Planned, PlanNow
<1>2. eff[r].ids \subseteq AllTags /\ eff[r].names \subseteq AllTags
  BY DEF TypeOK, Settings
<1> QED
  BY <1>1, <1>2 DEF Pinned, Settings

LEMMA PlansTypedStep ==
  ASSUME TypeOK, PlanInv, [Next]_vars
  PROVE  PlansTyped'
<1>1. PlansTyped
  BY DEF TypeOK, PlansTyped
<1>2. CASE plans' = plans
  BY <1>1, <1>2 DEF PlansTyped
<1>3. ASSUME NEW r \in Runs, Plans(r) PROVE PlansTyped'
  <2>1. NewPlan(r) /\ KeyNow(r) \in Keys /\ batch[r] \in Batches
    BY <1>3, KeyNowFacts DEF Plans
  <2>2. eff[r] \in Settings /\ projects \in Nat
    BY DEF TypeOK
  <2>3. /\ eff[r].project \in Nat \cup {ByName}
        /\ eff[r].ids \subseteq AllTags /\ eff[r].names \subseteq AllTags
    BY <2>2 DEF Settings
  <2>4. LET p == plans'[KeyNow(r)] IN
          /\ p.batch \in Batches /\ p.asked \in Settings
          /\ p.verdict \in [FilesOf(p.batch) -> Verdicts]
          /\ p.project \in Nat /\ p.tags \subseteq AllTags
          /\ p.echo \subseteq p.tags /\ p.live \in BOOLEAN
    BY <2>1, <2>2, <2>3 DEF NewPlan
  <2> QED
    BY <1>1, <2>1, <2>4 DEF NewPlan, PlansTyped
<1>4. ASSUME NEW k \in DOMAIN plans, Expire(k) PROVE PlansTyped'
  BY <1>1, <1>4, ExpireFacts DEF PlansTyped, SamePlan
<1> QED
  BY <1>2, <1>3, <1>4, Kinds
     DEF Start, Replays, BatchDone, Stops, Breaks, Notes, server, vars

LEMMA TypeStep ==
  ASSUME TypeOK, PlanInv, RunInv, [Next]_vars
  PROVE  TypeOK'
<1> DEFINE Rest == /\ docs \in [Keys -> [Files -> {"none", "placeholder", "stored", "deleted"}]]
                   /\ projects \in Nat
                   /\ mode \in [Runs -> Modes]
                   /\ pc \in [Runs -> {"idle", "plan", "items", "waiting", "returned", "failed",
                                       "raised", "crashed"}]
                   /\ batch \in [Runs -> Batches]
                   /\ eff \in [Runs -> Settings]
                   /\ current \in [Runs -> [Files -> Outcomes]]
                   /\ outcomes \in [Runs -> [Files -> Outcomes]]
<1> SUFFICES Rest'
  BY PlansTypedStep DEF TypeOK, PlansTyped
<1>1. Rest /\ NoOutcomes \in [Files -> Outcomes]
  BY DEF TypeOK, NoOutcomes, Outcomes
<1>2. ASSUME NEW r \in Runs, Start(r) PROVE Rest'
  BY <1>1, <1>2 DEF Start, server
<1>3. ASSUME NEW r \in Runs, Replays(r) PROVE Rest'
  BY <1>1, <1>3 DEF Replays, server
<1>4. ASSUME NEW r \in Runs, Plans(r) PROVE Rest'
  <2>1. NewPlan(r)
    BY <1>4 DEF Plans
  <2>2. docs' \in [Keys -> [Files -> {"none", "placeholder", "stored", "deleted"}]]
    BY <2>1, PlaceFacts
  <2>3. projects' \in Nat
    BY <1>1, <2>1 DEF NewPlan
  <2> QED
    BY <1>1, <1>4, <2>2, <2>3 DEF Plans
<1>5. ASSUME NEW r \in Runs, BatchDone(r) PROVE Rest'
  <2>1. Planned(r)
    BY <1>5 DEF BatchDone, RunInv
  <2>2. eff' \in [Runs -> Settings]
    BY <1>1, <1>5, <2>1, PinnedTyped DEF BatchDone
  <2>3. outcomes' \in [Runs -> [Files -> Outcomes]] /\ current' \in [Runs -> [Files -> Outcomes]]
    BY <1>1, <1>5 DEF BatchDone
  <2>4. batch' \in [Runs -> Batches]
    <3>1. batch' = batch \/ (MoreBatches(r) /\ batch' = [batch EXCEPT ![r] = @ + 1])
      BY <1>5 DEF BatchDone
    <3> QED
      BY <1>1, <3>1 DEF MoreBatches
  <2>5. pc' \in [Runs -> {"idle", "plan", "items", "waiting", "returned", "failed",
                          "raised", "crashed"}]
    BY <1>1, <1>5 DEF BatchDone, Stop
  <2>6. UNCHANGED <<docs, projects, mode>>
    BY <1>5 DEF BatchDone, server
  <2> QED
    BY <1>1, <2>2, <2>3, <2>4, <2>5, <2>6
<1>6. ASSUME NEW r \in Runs, Stops(r) PROVE Rest'
  <2>1. current' \in [Runs -> [Files -> Outcomes]]
    BY <1>1, <1>6 DEF Stops
  <2>2. \E how \in {"failed", "returned", "raised", "crashed"} : pc' = [pc EXCEPT ![r] = how]
    BY <1>6 DEF Stops
  <2>3. UNCHANGED <<docs, projects, mode, batch, eff, outcomes>>
    BY <1>6 DEF Stops, server
  <2> QED
    BY <1>1, <2>1, <2>2, <2>3
<1>7. ASSUME NEW r \in Runs, NEW f \in Files, Breaks(r, f) PROVE Rest'
  <2>1. docs' \in [Keys -> [Files -> {"none", "placeholder", "stored", "deleted"}]]
    BY <1>1, <1>7, StoreFacts, RemoveFacts DEF Breaks
  <2> QED
    BY <1>1, <1>7, <2>1 DEF Breaks
<1>8. ASSUME NEW r \in Runs, NEW f \in Files, NEW o \in Outcomes, Notes(r, f, o) PROVE Rest'
  <2>1. docs' \in [Keys -> [Files -> {"none", "placeholder", "stored", "deleted"}]]
    BY <1>1, <1>8, StoreFacts, RemoveFacts DEF Notes
  <2>2. current' \in [Runs -> [Files -> Outcomes]]
    BY <1>1, <1>8 DEF Notes
  <2> QED
    BY <1>1, <1>8, <2>1, <2>2 DEF Notes
<1>9. ASSUME NEW k \in DOMAIN plans, Expire(k) PROVE Rest'
  BY <1>1, <1>9 DEF Expire
<1>10. CASE UNCHANGED vars
  BY <1>1, <1>10 DEF vars
<1> QED
  BY <1>2, <1>3, <1>4, <1>5, <1>6, <1>7, <1>8, <1>9, <1>10, Kinds

(***************************************************************************)
(* Plans, documents and runs.                                              *)
(***************************************************************************)

\* A batch that was asked for is asked for the same again.
LEMMA AskedKept ==
  ASSUME PlansKept, NEW k, k[2] # 0 => Previous(k) \in DOMAIN plans
  PROVE  AskedFor(k)' = AskedFor(k)
  BY DEF PlansKept, SamePlan, AskedFor, PinnedBy

LEMMA PlanStep ==
  ASSUME TypeOK, PlanInv, RunInv, [Next]_vars
  PROVE  PlanInv'
<1> DEFINE Chain(k) ==
      LET p == plans[k] IN
        /\ DOMAIN p = PlanFields
        /\ p.batch = k[2] /\ \E r \in Runs : k[1] = BaseKey[r]
        /\ k[2] # 0 => Previous(k) \in DOMAIN plans
        /\ p.asked = AskedFor(k)
        /\ p.asked.ids \cup p.asked.names = AllTags
        /\ p.tags = AllTags /\ p.echo \in {{}, AllTags}
        /\ First(k) \in DOMAIN plans /\ p.project = plans[First(k)].project
<1>1. PlansKept
  BY KeptStep
<1>2. \A k \in DOMAIN plans : Chain(k)
  BY DEF PlanInv
<1>3. ASSUME NEW k \in DOMAIN plans, DOMAIN plans'[k] = DOMAIN plans[k] PROVE Chain(k)'
  <2>1. AskedFor(k)' = AskedFor(k)
    BY <1>1, <1>2, AskedKept
  <2> QED
    BY <1>1, <1>2, <1>3, <2>1 DEF PlansKept, SamePlan
<1>4. CASE plans' = plans
  BY <1>3, <1>4 DEF PlanInv
<1>5. ASSUME NEW k \in DOMAIN plans, Expire(k) PROVE PlanInv'
  BY <1>3, <1>5, ExpireFacts DEF PlanInv
<1>6. ASSUME NEW r \in Runs, Plans(r) PROVE PlanInv'
  <2>0. PICK k \in Keys : k = KeyNow(r)
    BY KeyNowFacts
  <2>1. NewPlan(r) /\ pc[r] = "plan"
    BY <1>6 DEF Plans
  <2>2. /\ k \in Keys /\ k[1] = BaseKey[r] /\ k[2] = batch[r] /\ k[2] \in Nat
        /\ k = <<k[1], k[2]>>
    BY <2>0, KeyNowFacts, KeyParts
  <2>3. (k[2] # 0 => Previous(k) \in DOMAIN plans) /\ eff[r] = AskedFor(k)
    BY <2>0, <2>1, <2>2 DEF RunInv
  <2>4. AskedFor(k)' = AskedFor(k)
    BY <1>1, <2>3, AskedKept
  <2>5. eff[r].ids \cup eff[r].names = AllTags
    <3>1. CASE k[2] = 0
      BY <2>3, <3>1 DEF AskedFor, Base, AllTags
    <3>2. CASE k[2] # 0
      <4>1. LET p == plans[Previous(k)] IN
              p.asked.ids \cup p.asked.names = AllTags /\ p.echo \in {{}, AllTags}
        BY <1>2, <2>3, <3>2
      <4>2. eff[r] = PinnedBy(plans[Previous(k)])
        BY <2>3, <3>2 DEF AskedFor
      <4> QED
        BY <4>1, <4>2 DEF PinnedBy
    <3> QED
      BY <3>1, <3>2
  <2>6. /\ DOMAIN plans' = DOMAIN plans \cup {k} /\ \A l \in DOMAIN plans : plans'[l] = plans[l]
        /\ DOMAIN plans'[k] = PlanFields
        /\ plans'[k].batch = k[2] /\ plans'[k].asked = eff[r]
        /\ plans'[k].tags = AllTags /\ plans'[k].echo \in {{}, AllTags}
        /\ plans'[k].project = IF eff[r].project = ByName THEN projects + 1 ELSE eff[r].project
    BY <2>0, <2>1, <2>2, <2>5 DEF NewPlan
  <2>7. First(k) \in DOMAIN plans' /\ plans'[k].project = plans'[First(k)].project
    <3>1. CASE k[2] = 0
      BY <2>2, <2>6, <3>1 DEF First
    <3>2. CASE k[2] # 0
      <4>1. First(Previous(k)) = First(k)
        BY DEF First, Previous
      <4>2. /\ First(k) \in DOMAIN plans
            /\ plans[Previous(k)].project = plans[First(k)].project
        BY <1>2, <2>3, <3>2, <4>1
      <4>3. plans[First(k)].project \in Nat
        BY <4>2 DEF TypeOK
      <4>4. eff[r].project = plans[First(k)].project
        BY <2>3, <3>2, <4>2 DEF AskedFor, PinnedBy
      <4> QED
        BY <2>6, <4>2, <4>3, <4>4 DEF ByName
    <3> QED
      BY <3>1, <3>2
  <2>8. Chain(k)'
    BY <2>2, <2>3, <2>4, <2>5, <2>6, <2>7
  <2> QED
    BY <1>3, <2>6, <2>8 DEF PlanInv
<1> QED
  BY <1>4, <1>5, <1>6, Kinds
     DEF Start, Replays, BatchDone, Stops, Breaks, Notes, server, vars

LEMMA DocStep ==
  ASSUME TypeOK, PlanInv, DocInv, RunInv, [Next]_vars
  PROVE  DocInv'
<1> SUFFICES ASSUME NEW k \in Keys, NEW f \in Files
             PROVE  /\ docs'[k][f] # "none" <=>
                         /\ k \in DOMAIN plans' /\ f \in FilesOf(plans'[k].batch)
                         /\ plans'[k].verdict[f] \in {"put", "duplicate"}
                    /\ docs'[k][f] = "deleted" =>
                         /\ plans'[k].verdict[f] = "duplicate"
                         /\ \E q \in Runs : BaseKey[q] = k[1] /\ mode'[q] = "block"
                    /\ docs'[k][f] = "stored" => Uploads(k, f)'
  BY DEF DocInv
<1>1. PlansKept /\ mode' = mode /\ Moves(k, f)
  BY KeptStep, MovesStep
<1>2. /\ docs[k][f] # "none" <=>
           /\ k \in DOMAIN plans /\ f \in FilesOf(plans[k].batch)
           /\ plans[k].verdict[f] \in {"put", "duplicate"}
      /\ docs[k][f] = "deleted" =>
           /\ plans[k].verdict[f] = "duplicate"
           /\ \E q \in Runs : BaseKey[q] = k[1] /\ mode[q] = "block"
      /\ docs[k][f] = "stored" => Uploads(k, f)
  BY DEF DocInv
<1>3. CASE k \in DOMAIN plans
  <2>1. k \in DOMAIN plans' /\ SamePlan(plans[k], plans'[k])
    BY <1>1, <1>3 DEF PlansKept
  <2>2. Uploads(k, f)' <=> Uploads(k, f)
    BY <1>1, <2>1 DEF Uploads, SamePlan
  <2> QED
    BY <1>1, <1>2, <1>3, <2>1, <2>2 DEF Moves, SamePlan
<1>4. CASE k \notin DOMAIN plans /\ k \notin DOMAIN plans'
  BY <1>1, <1>2, <1>4 DEF Moves
<1>5. CASE k \notin DOMAIN plans /\ k \in DOMAIN plans'
  <2>1. PICK r \in Runs : Plans(r)
    BY <1>5, Kinds, ExpireFacts
       DEF Start, Replays, BatchDone, Stops, Breaks, Notes, server, vars
  <2>2. NewPlan(r)
    BY <2>1 DEF Plans
  <2>3. k = KeyNow(r) /\ plans'[k].batch = batch[r]
    BY <1>5, <2>2 DEF NewPlan
  <2>4. docs'[k][f] = IF f \in FilesOf(batch[r]) /\ plans'[k].verdict[f] \in {"put", "duplicate"}
                      THEN "placeholder" ELSE "none"
    BY <1>2, <1>5, <2>2, <2>3, PlaceFacts
  <2> QED
    BY <1>5, <2>3, <2>4
<1> QED
  BY <1>3, <1>4, <1>5

\* What is known of one run.
RunAt(r) ==
  /\ pc[r] = "idle" => batch[r] = 0
  /\ pc[r] \in {"idle", "plan", "items"} =>
       /\ batch[r] # 0 => Previous(KeyNow(r)) \in DOMAIN plans
       /\ eff[r] = AskedFor(KeyNow(r))
  /\ pc[r] = "items" => Planned(r)

\* A run that does nothing but end or be answered keeps what is known of it.
LEMMA RunKept ==
  ASSUME TypeOK, PlansKept, NEW r \in Runs, RunAt(r), batch'[r] = batch[r], eff'[r] = eff[r],
         \/ pc'[r] = pc[r]
         \/ pc'[r] \notin {"idle", "plan", "items"}
         \/ pc[r] = "idle" /\ pc'[r] = "plan"
         \/ pc[r] = "plan" /\ pc'[r] = "items" /\ KeyNow(r) \in DOMAIN plans'
  PROVE  RunAt(r)'
<1>1. PICK k \in Keys : k = KeyNow(r)
  BY KeyNowFacts
<1>2. KeyNow(r)' = k /\ k[2] = batch[r]
  BY <1>1, KeyNowFacts DEF KeyNow, Key
<1>3. pc[r] \in {"idle", "plan", "items"} =>
        AskedFor(k)' = AskedFor(k) /\ (batch[r] # 0 => Previous(k) \in DOMAIN plans')
  BY <1>1, <1>2, AskedKept DEF RunAt, PlansKept
<1>4. AskedFor(KeyNow(r))' = AskedFor(k)' /\ AskedFor(KeyNow(r)) = AskedFor(k)
  BY <1>1, <1>2 DEF AskedFor
<1>5. pc[r] = "items" => k \in DOMAIN plans'
  BY <1>1 DEF RunAt, Planned, PlansKept
<1> QED
  BY <1>1, <1>2, <1>3, <1>4, <1>5 DEF RunAt, Planned

LEMMA RunStep ==
  ASSUME TypeOK, TypeOK', PlanInv, RunInv, [Next]_vars
  PROVE  RunInv'
<1> SUFFICES ASSUME NEW q \in Runs PROVE RunAt(q)'
  BY DEF RunInv, RunAt
<1>1. PlansKept /\ RunAt(q)
  BY KeptStep DEF RunInv, RunAt
<1>2. ASSUME NEW r \in Runs, Start(r) PROVE RunAt(q)'
  BY <1>1, <1>2, RunKept DEF Start, TypeOK
<1>3. ASSUME NEW r \in Runs, Replays(r) PROVE RunAt(q)'
  BY <1>1, <1>3, RunKept DEF Replays, Planned, server, TypeOK
<1>4. ASSUME NEW r \in Runs, Plans(r) PROVE RunAt(q)'
  <2>1. KeyNow(r) \in DOMAIN plans' /\ pc[r] = "plan" /\ batch' = batch /\ eff' = eff
    BY <1>4 DEF Plans, NewPlan
  <2>2. \A s \in Runs : s # r => pc'[s] = pc[s]
    BY <1>4 DEF Plans, TypeOK
  <2>3. pc'[r] \in {"items", "failed"}
    BY <1>4 DEF Plans, TypeOK
  <2> QED
    BY <1>1, <2>1, <2>2, <2>3, RunKept
<1>5. ASSUME NEW r \in Runs, BatchDone(r) PROVE RunAt(q)'
  <2>1. CASE q # r
    <3>1. batch'[q] = batch[q] /\ eff'[q] = eff[q] /\ pc'[q] = pc[q]
      BY <1>5, <2>1 DEF BatchDone, Stop, TypeOK
    <3> QED
      BY <1>1, <3>1, RunKept
  <2>2. CASE q = r /\ pc'[r] = "plan"
    <3>1. /\ batch'[r] = batch[r] + 1 /\ eff'[r] = Pinned(r) /\ plans' = plans
          /\ MoreBatches(r) /\ pc[r] = "items"
      BY <1>5, <2>2 DEF BatchDone, Stop, TypeOK, server
    <3>2. PICK k \in Keys : k = KeyNow(r)
      BY KeyNowFacts
    <3>3. k = <<BaseKey[r], batch[r]>> /\ batch[r] \in Nat
      BY <3>2, KeyNowFacts, KeyParts
    <3>4. KeyNow(r)' = <<BaseKey[r], batch[r] + 1>>
      BY <3>1 DEF KeyNow, Key
    <3>5. k \in DOMAIN plans /\ eff[r] = AskedFor(KeyNow(r)) /\ AskedFor(KeyNow(r)) = AskedFor(k)
      BY <1>1, <2>2, <3>1, <3>2 DEF RunAt, Planned, AskedFor
    <3>6. plans[k].asked = eff[r]
      BY <3>5 DEF PlanInv
    <3>7. Pinned(r) = PinnedBy(plans[k])
      BY <3>2, <3>6 DEF Pinned, PinnedBy, PlanNow
    <3>8. /\ KeyNow(r)'[2] = batch[r] + 1 /\ batch[r] + 1 # 0
          /\ <<KeyNow(r)'[1], KeyNow(r)'[2] - 1>> = k
      BY <3>3, <3>4
    <3>9. AskedFor(KeyNow(r))' = PinnedBy(plans[k]) /\ Previous(KeyNow(r))' = k
      BY <3>1, <3>8 DEF AskedFor, Previous, PinnedBy
    <3> QED
      BY <2>2, <3>1, <3>5, <3>7, <3>9 DEF RunAt
  <2>3. CASE q = r /\ pc'[r] # "plan"
    <3>1. pc'[r] \in {"waiting", "returned", "raised"}
      BY <1>5, <2>3 DEF BatchDone, Stop, TypeOK
    <3> QED
      BY <2>3, <3>1 DEF RunAt
  <2> QED
    BY <2>1, <2>2, <2>3
<1>6. ASSUME NEW r \in Runs, Stops(r) PROVE RunAt(q)'
  <2>1. batch' = batch /\ eff' = eff /\ (pc'[q] = pc[q] \/ pc'[q] \notin {"idle", "plan", "items"})
    BY <1>6 DEF Stops, TypeOK
  <2> QED
    BY <1>1, <2>1, RunKept
<1>7. ASSUME NEW r \in Runs, NEW f \in Files, Breaks(r, f) PROVE RunAt(q)'
  BY <1>1, <1>7, RunKept DEF Breaks, TypeOK
<1>8. ASSUME NEW r \in Runs, NEW f \in Files, NEW o, Notes(r, f, o) PROVE RunAt(q)'
  BY <1>1, <1>8, RunKept DEF Notes
<1>9. ASSUME NEW k \in DOMAIN plans, Expire(k) PROVE RunAt(q)'
  BY <1>1, <1>9, RunKept DEF Expire
<1>10. CASE UNCHANGED vars
  BY <1>1, <1>10, RunKept DEF vars
<1> QED
  BY <1>2, <1>3, <1>4, <1>5, <1>6, <1>7, <1>8, <1>9, <1>10, Kinds

(***************************************************************************)
(* Outcomes.                                                               *)
(***************************************************************************)

ReachAt(r) ==
  /\ pc[r] \in {"idle", "plan", "items", "failed"} =>
       \A f \in Files : outcomes[r][f] # "none" <=> BatchOf(f) < batch[r]
  /\ pc[r] \in {"waiting", "returned"} => \A f \in Files : outcomes[r][f] # "none"

LEMMA ReachKept ==
  ASSUME NEW r \in Runs, ReachAt(r), batch'[r] = batch[r], outcomes'[r] = outcomes[r],
         \/ pc'[r] = pc[r]
         \/ pc'[r] \in {"raised", "crashed"}
         \/ pc[r] \in {"idle", "plan", "items"} /\ pc'[r] \in {"plan", "items", "failed"}
         \/ pc[r] = "waiting" /\ pc'[r] = "returned"
  PROVE  ReachAt(r)'
  BY DEF ReachAt

LEMMA ReachStep ==
  ASSUME TypeOK, TypeOK', ReachInv, [Next]_vars
  PROVE  ReachInv'
<1> SUFFICES ASSUME NEW q \in Runs PROVE ReachAt(q)'
  BY DEF ReachInv, ReachAt
<1>1. ReachAt(q)
  BY DEF ReachInv, ReachAt
<1>2. ASSUME NEW r \in Runs, Start(r) \/ Replays(r) \/ Plans(r) PROVE ReachAt(q)'
  BY <1>1, <1>2, ReachKept DEF Start, Replays, Plans, TypeOK
<1>3. ASSUME NEW r \in Runs, BatchDone(r) PROVE ReachAt(q)'
  <2>1. CASE q # r
    <3>1. batch'[q] = batch[q] /\ outcomes'[q] = outcomes[q] /\ pc'[q] = pc[q]
      BY <1>3, <2>1 DEF BatchDone, Stop, TypeOK
    <3> QED
      BY <1>1, <3>1, ReachKept
  <2>2. CASE q = r
    <3>1. pc[r] = "items" /\ \A f \in FilesOf(batch[r]) : current[r][f] # "none"
      BY <1>3 DEF BatchDone, Todo
    <3>2. \A f \in Files : outcomes'[r][f] = IF f \in FilesOf(batch[r]) THEN current[r][f]
                                             ELSE outcomes[r][f]
      BY <1>3 DEF BatchDone, TypeOK
    <3>3. \A f \in Files : outcomes[r][f] # "none" <=> BatchOf(f) < batch[r]
      BY <1>1, <2>2, <3>1 DEF ReachAt
    <3>4. batch[r] \in Nat /\ \A f \in Files : BatchOf(f) \in Nat
      BY KeyNowFacts, BatchFacts
    <3>5. \A f \in Files : outcomes'[r][f] # "none" <=> BatchOf(f) < batch[r] + 1
      BY <3>1, <3>2, <3>3, <3>4, FilesFacts
    <3>6. \/ batch'[r] = batch[r] + 1 /\ pc'[r] = "plan"
          \/ ~MoreBatches(r) /\ pc'[r] \in {"waiting", "returned"}
          \/ pc'[r] = "raised"
      BY <1>3 DEF BatchDone, Stop, TypeOK
    <3>7. ~MoreBatches(r) => \A f \in Files : BatchOf(f) < batch[r] + 1
      BY <3>4, BatchFacts DEF MoreBatches
    <3> QED
      BY <2>2, <3>5, <3>6, <3>7 DEF ReachAt
  <2> QED
    BY <2>1, <2>2
<1>4. ASSUME NEW r \in Runs, Stops(r) PROVE ReachAt(q)'
  <2>1. batch' = batch /\ outcomes' = outcomes
    BY <1>4 DEF Stops
  <2>2. \/ pc'[q] = pc[q]
        \/ pc'[q] \in {"raised", "crashed"}
        \/ pc[q] \in {"idle", "plan", "items"} /\ pc'[q] \in {"plan", "items", "failed"}
        \/ pc[q] = "waiting" /\ pc'[q] = "returned"
    BY <1>4 DEF Stops, TypeOK
  <2> QED
    BY <1>1, <2>1, <2>2, ReachKept
<1>5. ASSUME NEW r \in Runs, NEW f \in Files, Breaks(r, f) PROVE ReachAt(q)'
  BY <1>1, <1>5, ReachKept DEF Breaks, TypeOK
<1>6. ASSUME NEW r \in Runs, NEW f \in Files, NEW o, Notes(r, f, o) PROVE ReachAt(q)'
  BY <1>1, <1>6, ReachKept DEF Notes
<1>7. ASSUME NEW k \in DOMAIN plans, Expire(k) PROVE ReachAt(q)'
  BY <1>1, <1>7, ReachKept DEF Expire
<1>8. CASE UNCHANGED vars
  BY <1>1, <1>8, ReachKept DEF vars
<1> QED
  BY <1>2, <1>3, <1>4, <1>5, <1>6, <1>7, <1>8, Kinds

\* Runs that contest a file contest it for good.
LEMMA ContestedKept ==
  ASSUME PlansKept, mode' = mode, NEW r \in Runs, NEW f \in Files, Contested(r, f)
  PROVE  Contested(r, f)'
  BY DEF Contested, PlansKept, SamePlan, Key

\* A duplicate that a run uploads is contested once another has deleted it.
LEMMA Contest ==
  ASSUME NEW r \in Runs, NEW f \in Files, Key(r, BatchOf(f)) \in DOMAIN plans,
         plans[Key(r, BatchOf(f))].verdict[f] = "duplicate", mode[r] # "block",
         \E q \in Runs : BaseKey[q] = BaseKey[r] /\ mode[q] = "block"
  PROVE  Contested(r, f)
  BY DEF Contested

\* An outcome that agrees goes on to agree, whatever happens.
LEMMA AgreesKept ==
  ASSUME TypeOK, PlanInv, DocInv, RunInv, [Next]_vars, NEW r \in Runs, NEW f \in Files,
         NEW o, Agrees(r, f, o)
  PROVE  Agrees(r, f, o)'
<1>1. PICK k \in Keys : k = Key(r, BatchOf(f)) /\ k[1] = BaseKey[r]
  BY BatchFacts, KeyFacts
<1>2. PlansKept /\ mode' = mode /\ Moves(k, f)
  BY KeptStep, MovesStep
<1>3. Key(r, BatchOf(f))' = k
  BY <1>1 DEF Key
<1>4. CASE k \notin DOMAIN plans
  BY <1>1, <1>3, <1>4 DEF Agrees
<1>5. CASE k \in DOMAIN plans
  <2>1. k \in DOMAIN plans' /\ plans'[k].verdict = plans[k].verdict
    BY <1>2, <1>5 DEF PlansKept, SamePlan
  <2>2. Contested(r, f) => Contested(r, f)'
    BY <1>2, ContestedKept
  <2>3. ASSUME o = "uploaded", docs[k][f] = "stored" PROVE Contested(r, f)' \/ docs'[k][f] = "stored"
    <3>1. CASE docs'[k][f] = docs[k][f]
      BY <2>3, <3>1
    <3>2. CASE docs'[k][f] # docs[k][f]
      <4>1. /\ plans[k].verdict[f] = "duplicate" /\ mode[r] # "block"
            /\ \E q \in Runs : BaseKey[q] = BaseKey[r] /\ mode[q] = "block"
        BY <1>1, <1>2, <1>5, <2>3, <3>2 DEF Moves, Agrees
      <4> QED
        BY <1>1, <1>5, <2>2, <4>1, Contest
    <3> QED
      BY <3>1, <3>2
  <2>4. docs[k][f] = "deleted" => docs'[k][f] = "deleted"
    BY <1>2, <1>5 DEF Moves
  <2> QED
    BY <1>1, <1>2, <1>3, <2>1, <2>2, <2>3, <2>4 DEF Agrees
<1> QED
  BY <1>4, <1>5

\* What a step notes of a file.
LEMMA Noted ==
  ASSUME TypeOK, [Next]_vars, NEW q \in Runs, NEW g \in Files
  PROVE  /\ outcomes'[q][g] \in {outcomes[q][g], current[q][g]}
         /\ \/ current'[q][g] \in {current[q][g], "none"}
            \/ \E o \in Outcomes : Notes(q, g, o) /\ current'[q][g] = o
<1> USE DEF TypeOK
<1>1. NoOutcomes[g] = "none"
  BY DEF NoOutcomes
<1>2. ASSUME NEW r \in Runs, Start(r) \/ Replays(r) \/ Plans(r)
      PROVE  UNCHANGED <<current, outcomes>>
  BY <1>2 DEF Start, Replays, Plans
<1>3. ASSUME NEW r \in Runs, BatchDone(r)
      PROVE  /\ outcomes'[q][g] \in {outcomes[q][g], current[q][g]}
             /\ current'[q][g] \in {current[q][g], "none"}
  BY <1>1, <1>3 DEF BatchDone
<1>4. ASSUME NEW r \in Runs, Stops(r)
      PROVE  outcomes' = outcomes /\ current'[q][g] \in {current[q][g], "none"}
  BY <1>1, <1>4 DEF Stops
<1>5. ASSUME NEW r \in Runs, NEW f \in Files, Breaks(r, f) PROVE UNCHANGED <<current, outcomes>>
  BY <1>5 DEF Breaks
<1>6. ASSUME NEW r \in Runs, NEW f \in Files, NEW o \in Outcomes, Notes(r, f, o)
      PROVE  /\ outcomes' = outcomes
             /\ \/ current'[q][g] = current[q][g]
                \/ Notes(q, g, o) /\ current'[q][g] = o
  <2>1. outcomes' = outcomes /\ current' = [current EXCEPT ![r][f] = o]
    BY <1>6 DEF Notes
  <2>2. CASE q = r /\ g = f
    BY <1>6, <2>1, <2>2
  <2>3. CASE ~(q = r /\ g = f)
    BY <2>1, <2>3
  <2> QED
    BY <2>1, <2>2, <2>3
<1>7. ASSUME NEW k \in DOMAIN plans, Expire(k) PROVE UNCHANGED <<current, outcomes>>
  BY <1>7 DEF Expire
<1>8. CASE UNCHANGED vars
  BY <1>8 DEF vars
<1> QED
  BY <1>2, <1>3, <1>4, <1>5, <1>6, <1>7, <1>8, Kinds

\* An outcome agrees when it is noted.
LEMMA NotedAgrees ==
  ASSUME TypeOK, PlanInv, DocInv, RunInv, [Next]_vars, NEW r \in Runs, NEW f \in Files,
         NEW o, Notes(r, f, o)
  PROVE  Agrees(r, f, o)'
<1>1. PICK k \in Keys : k = KeyNow(r)
  BY KeyNowFacts
<1>2. pc[r] = "items" /\ f \in FilesOf(batch[r]) /\ UNCHANGED <<plans, mode>>
  BY DEF Notes
<1>3. BatchOf(f) = batch[r] /\ k[1] = BaseKey[r]
  BY <1>1, <1>2, FilesFacts, KeyNowFacts
<1>4. Key(r, BatchOf(f)) = k /\ Key(r, BatchOf(f))' = k
  BY <1>1, <1>3 DEF KeyNow, Key
<1>5. k \in DOMAIN plans /\ plans[k].batch = batch[r] /\ PlanNow(r) = plans[k]
  BY <1>1, <1>2, KeyNowFacts DEF RunInv, PlanInv, Planned, PlanNow
<1>6. CASE o = "uploaded"
  <2>1. Store(r, f) /\ plans[k].verdict[f] \in {"put", "duplicate"}
        /\ (plans[k].verdict[f] = "duplicate" => mode[r] # "block")
    BY <1>5, <1>6 DEF Notes, HasUrl, Blocked
  <2>2. docs[k][f] \in {"placeholder", "stored", "deleted"}
    BY <1>2, <1>5, <2>1 DEF DocInv, TypeOK
  <2>3. docs'[k][f] = IF docs[k][f] = "placeholder" THEN "stored" ELSE docs[k][f]
    BY <1>1, <2>1, StoreFacts
  <2>4. docs[k][f] = "deleted" => Contested(r, f)
    BY <1>3, <1>4, <1>5, <2>1, Contest DEF DocInv
  <2>5. Contested(r, f) => Contested(r, f)'
    BY ContestedKept, KeptStep
  <2> QED
    BY <1>2, <1>4, <1>5, <1>6, <2>1, <2>2, <2>3, <2>4, <2>5 DEF Agrees
<1>7. CASE o = "skipped"
  <2>1. Remove(r, f) /\ plans[k].verdict[f] = "duplicate" /\ mode[r] = "block"
    BY <1>5, <1>7 DEF Notes, Blocked
  <2>2. docs'[k][f] = "deleted"
    BY <1>1, <2>1, RemoveFacts
  <2> QED
    BY <1>2, <1>4, <1>5, <1>7, <2>1, <2>2 DEF Agrees
<1>8. CASE o = "failed"
  <2>1. plans[k].verdict[f] \in Verdicts
    BY <1>2, <1>5 DEF TypeOK
  <2>2. plans[k].verdict[f] \in {"conflict", "error"}
    BY <1>5, <1>8, <2>1 DEF Notes, HasUrl, Verdicts
  <2> QED
    BY <1>2, <1>4, <1>5, <1>8, <2>2 DEF Agrees
<1> QED
  BY <1>6, <1>7, <1>8 DEF Notes

LEMMA OutcomeStep ==
  ASSUME TypeOK, PlanInv, DocInv, RunInv, OutcomeInv, [Next]_vars
  PROVE  OutcomeInv'
<1> SUFFICES ASSUME NEW q \in Runs, NEW g \in Files
             PROVE  Agrees(q, g, current[q][g])' /\ Agrees(q, g, outcomes[q][g])'
  BY DEF OutcomeInv
<1>1. Agrees(q, g, current[q][g]) /\ Agrees(q, g, outcomes[q][g]) /\ Agrees(q, g, "none")
  BY DEF OutcomeInv, Agrees
<1>2. ASSUME NEW o, o = outcomes'[q][g] PROVE Agrees(q, g, o)'
  <2>1. o = outcomes[q][g] \/ o = current[q][g]
    BY <1>2, Noted
  <2>2. Agrees(q, g, o)
    BY <1>1, <2>1 DEF Agrees
  <2> QED
    BY <2>2, AgreesKept
<1>3. ASSUME NEW o, o = current'[q][g] PROVE Agrees(q, g, o)'
  <2>1. CASE o = current[q][g] \/ o = "none"
    <3>1. Agrees(q, g, o)
      BY <1>1, <2>1 DEF Agrees
    <3> QED
      BY <3>1, AgreesKept
  <2>2. CASE Notes(q, g, o)
    BY <2>2, NotedAgrees
  <2> QED
    BY <1>3, <2>1, <2>2, Noted
<1> QED
  BY <1>2, <1>3 DEF Agrees

(***************************************************************************)
(* The invariant holds.                                                    *)
(***************************************************************************)

LEMMA InitInv == Init => IInv
<1> SUFFICES ASSUME Init PROVE IInv
  OBVIOUS
<1>1. DOMAIN plans = {}
  BY DEF Init
<1>2. Base \in Settings
  BY DEF Base, Settings, AllTags
<1>3. TypeOK
  BY <1>1, <1>2, BatchFacts DEF Init, TypeOK, NoOutcomes, Outcomes, Base
<1>4. PlanInv /\ DocInv
  BY <1>1 DEF Init, PlanInv, DocInv
<1>5. RunInv
  <2> SUFFICES ASSUME NEW r \in Runs PROVE RunAt(r)
    BY DEF RunInv, RunAt
  <2>1. batch[r] = 0 /\ pc[r] = "idle" /\ eff[r] = Base
    BY DEF Init, Base
  <2>2. KeyNow(r)[2] = 0
    BY <1>3, <2>1, KeyNowFacts
  <2> QED
    BY <2>1, <2>2 DEF RunAt, AskedFor
<1>6. ReachInv
  <2> SUFFICES ASSUME NEW r \in Runs PROVE ReachAt(r)
    BY DEF ReachInv, ReachAt
  <2>1. batch[r] = 0 /\ pc[r] = "idle" /\ \A f \in Files : outcomes[r][f] = "none"
    BY DEF Init, NoOutcomes
  <2>2. \A f \in Files : ~(BatchOf(f) < 0)
    BY BatchFacts
  <2> QED
    BY <2>1, <2>2 DEF ReachAt
<1>7. OutcomeInv
  BY DEF Init, OutcomeInv, Agrees, NoOutcomes
<1> QED
  BY <1>3, <1>4, <1>5, <1>6, <1>7 DEF IInv

LEMMA NextInv == IInv /\ [Next]_vars => IInv'
<1> SUFFICES ASSUME IInv, [Next]_vars PROVE IInv'
  OBVIOUS
<1> USE DEF IInv
<1>1. TypeOK'
  BY TypeStep
<1> QED
  BY <1>1, PlanStep, DocStep, RunStep, ReachStep, OutcomeStep

LEMMA Inductive == Spec => []IInv
  BY InitInv, NextInv, PTL DEF Spec

(***************************************************************************)
(* Theorems.                                                               *)
(***************************************************************************)

\* The plans that the runs of one import made differ in their batch.
LEMMA SameImport ==
  ASSUME IInv, NEW k \in DOMAIN plans, NEW l \in DOMAIN plans, k[1] = l[1]
  PROVE  First(k) = First(l) /\ (plans[k].batch = plans[l].batch => k = l)
<1>1. k \in Keys /\ l \in Keys
  BY DEF IInv, TypeOK
<1>2. plans[k].batch = k[2] /\ plans[l].batch = l[2]
  BY DEF IInv, PlanInv
<1>3. k = <<k[1], k[2]>> /\ l = <<l[1], l[2]>>
  BY <1>1, KeyParts
<1> QED
  BY <1>2, <1>3 DEF First

\* The model of upload_many keeps its types.
THEOREM TypeCorrect == Spec => []TypeOK
<1>1. IInv => TypeOK
  BY DEF IInv
<1> QED
  BY <1>1, Inductive, PTL

\* However often imports crash and run again with their keys, and however their
\* runs overlap, an import makes one document of a file at most; for any number
\* of imports, runs, files and batches.
OneDocumentPerImport ==
  \A k, l \in DOMAIN plans, f \in Files :
    k[1] = l[1] /\ docs[k][f] # "none" /\ docs[l][f] # "none" => k = l

\* Holds because every batch of an import asks what its plan pinned (upload_many).
THEOREM OneDocumentPerImportHolds == Spec => []OneDocumentPerImport
<1>1. IInv => OneDocumentPerImport
  <2> SUFFICES ASSUME IInv, NEW k \in DOMAIN plans, NEW l \in DOMAIN plans, NEW f \in Files,
                      k[1] = l[1], docs[k][f] # "none", docs[l][f] # "none"
               PROVE  k = l
    BY DEF OneDocumentPerImport
  <2>1. k \in Keys /\ l \in Keys
    BY DEF IInv, TypeOK
  <2>2. f \in FilesOf(plans[k].batch) /\ f \in FilesOf(plans[l].batch)
    BY <2>1 DEF IInv, DocInv
  <2> QED
    BY <2>2, SameImport DEF FilesOf
<1> QED
  BY <1>1, Inductive, PTL

\* An import is one project and one set of tags, whichever of its runs planned
\* which batch, and whatever other imports there are.
SettingsPerImport ==
  \A k, l \in DOMAIN plans :
    k[1] = l[1] => plans[k].project = plans[l].project /\ plans[k].tags = plans[l].tags

\* Holds because the first batch pins the ids that the later ones ask for (upload_many).
THEOREM SettingsPerImportHolds == Spec => []SettingsPerImport
<1>1. IInv => SettingsPerImport
  <2> SUFFICES ASSUME IInv, NEW k \in DOMAIN plans, NEW l \in DOMAIN plans, k[1] = l[1]
               PROVE  plans[k].project = plans[l].project /\ plans[k].tags = plans[l].tags
    BY DEF SettingsPerImport
  <2>1. First(k) = First(l)
    BY SameImport
  <2> QED
    BY <2>1 DEF IInv, PlanInv
<1> QED
  BY <1>1, Inductive, PTL

\* All runs were given one base key: they are one import.
OneImport == \A r, q \in Runs : BaseKey[r] = BaseKey[q]

LEMMA OneKey ==
  ASSUME OneImport, IInv, NEW k \in DOMAIN plans, NEW l \in DOMAIN plans
  PROVE  k[1] = l[1] /\ (plans[k].batch = plans[l].batch => k = l)
<1>1. k[1] = l[1]
  BY DEF IInv, PlanInv, OneImport
<1> QED
  BY <1>1, SameImport

\* The one import of runs with one key makes one document of a file at most.
THEOREM NothingDuplicatesHolds ==
  ASSUME OneImport
  PROVE  Spec => []NothingDuplicates
<1>1. IInv /\ OneDocumentPerImport => NothingDuplicates
  BY OneKey DEF OneDocumentPerImport, NothingDuplicates
<1> QED
  BY <1>1, Inductive, OneDocumentPerImportHolds, PTL

\* The one import of runs with one key has one project and one set of tags.
THEOREM SameSettingsHolds ==
  ASSUME OneImport
  PROVE  Spec => []SameSettings
<1>1. IInv /\ SettingsPerImport => SameSettings
  BY OneKey DEF SettingsPerImport, SameSettings
<1> QED
  BY <1>1, Inductive, SettingsPerImportHolds, PTL

\* No run is refused for reusing a key with another request, whatever the other
\* imports do.
THEOREM NeverMismatchedHolds == Spec => []NeverMismatched
<1>1. IInv => NeverMismatched
  <2> SUFFICES ASSUME IInv, NEW r \in Runs, pc[r] = "plan", Planned(r)
               PROVE  SameRequest(r)
    BY DEF NeverMismatched
  <2>1. PICK k \in Keys : k = KeyNow(r)
    BY KeyNowFacts DEF IInv
  <2>2. k \in DOMAIN plans /\ k[2] = batch[r]
    BY <2>1, KeyNowFacts DEF Planned, IInv
  <2>3. eff[r] = AskedFor(k)
    BY <2>1 DEF IInv, RunInv
  <2>4. plans[k].batch = batch[r] /\ plans[k].asked = eff[r]
    BY <2>2, <2>3 DEF IInv, PlanInv
  <2> QED
    BY <2>1, <2>4 DEF SameRequest, PlanNow
<1> QED
  BY <1>1, Inductive, PTL

\* What a run tells of a file is true and stays true, unless runs with one key
\* were told to treat a known duplicate differently.
THEOREM ReportIsTrueHolds == Spec => []ReportIsTrue
<1>1. IInv => ReportIsTrue
  <2> SUFFICES ASSUME IInv, NEW r \in Runs, NEW f \in Files, NEW o, o = Told(r, f)
               PROVE  LET doc == docs[Key(r, BatchOf(f))][f] IN
                        \/ Contested(r, f)
                        \/ /\ o = "uploaded" => doc = "stored"
                           /\ o = "skipped" => doc = "deleted"
                           /\ o = "failed" => doc = "none"
    BY DEF ReportIsTrue
  <2>1. Agrees(r, f, o)
    BY DEF IInv, OutcomeInv, Told
  <2>2. Key(r, BatchOf(f)) \in Keys
    BY BatchFacts, KeyFacts
  <2>3. o = "failed" => docs[Key(r, BatchOf(f))][f] = "none"
    BY <2>1, <2>2 DEF Agrees, IInv, DocInv
  <2> QED
    BY <2>1, <2>3 DEF Agrees
<1> QED
  BY <1>1, Inductive, PTL

\* A run tells of every file of its completed batches and of no other, for any
\* number of batches and a last one of any size.
THEOREM ReportIsCompleteHolds == Spec => []ReportIsComplete
<1>1. IInv => ReportIsComplete
  BY DEF IInv, ReachInv, ReportIsComplete
<1> QED
  BY <1>1, Inductive, PTL

\* Two runs of one import never tell their callers different outcomes of a file,
\* unless they were given different modes and the file is a known duplicate.
RunsAgree ==
  \A r, q \in Runs, f \in Files :
    BaseKey[r] = BaseKey[q] /\ Told(r, f) # "none" /\ Told(q, f) # "none" =>
      Contested(r, f) \/ Told(r, f) = Told(q, f)

\* Two reports of a file agree with its one plan and its one document (_upload_batch).
THEOREM RunsAgreeHolds == Spec => []RunsAgree
<1>1. IInv => RunsAgree
  <2> SUFFICES ASSUME IInv, NEW r \in Runs, NEW q \in Runs, NEW f \in Files,
                      BaseKey[r] = BaseKey[q], Told(r, f) # "none", Told(q, f) # "none",
                      ~Contested(r, f)
               PROVE  Told(r, f) = Told(q, f)
    BY DEF RunsAgree
  <2>1. Key(q, BatchOf(f)) = Key(r, BatchOf(f))
    BY DEF Key
  <2>2. ~Contested(q, f)
    BY <2>1 DEF Contested
  <2>3. Agrees(r, f, Told(r, f)) /\ Agrees(q, f, Told(q, f))
    BY DEF IInv, OutcomeInv, Told
  <2>4. {Told(r, f), Told(q, f)} \subseteq Outcomes
    BY DEF IInv, TypeOK, Told
  <2> QED
    BY <2>1, <2>2, <2>3, <2>4 DEF Agrees, Outcomes
<1> QED
  BY <1>1, Inductive, PTL

\* A document that is stored is never deleted again by a re-run of its import,
\* unless runs that were given different modes contest the file.
StoredIsKept ==
  [][\A k \in DOMAIN plans, f \in Files :
       docs[k][f] = "stored" /\ docs'[k][f] # "stored" =>
         \E r \in Runs : BaseKey[r] = k[1] /\ Contested(r, f)]_vars

\* Only on_duplicate="block" deletes, and only what its own plan made (_upload_batch).
THEOREM StoredIsKeptHolds == Spec => StoredIsKept
<1> DEFINE Kept == \A k \in DOMAIN plans, f \in Files :
                     docs[k][f] = "stored" /\ docs'[k][f] # "stored" =>
                       \E r \in Runs : BaseKey[r] = k[1] /\ Contested(r, f)
<1>1. IInv /\ [Next]_vars => Kept
  <2> SUFFICES ASSUME IInv, [Next]_vars, NEW k \in DOMAIN plans, NEW f \in Files,
                      docs[k][f] = "stored", docs'[k][f] # "stored"
               PROVE  \E r \in Runs : BaseKey[r] = k[1] /\ Contested(r, f)
    OBVIOUS
  <2>1. k \in Keys /\ Moves(k, f)
    BY MovesStep DEF IInv, TypeOK
  <2>2. /\ plans[k].verdict[f] = "duplicate" /\ f \in FilesOf(plans[k].batch)
        /\ \E q \in Runs : BaseKey[q] = k[1] /\ mode[q] = "block"
    BY <2>1 DEF Moves
  <2>3. PICK r \in Runs : BaseKey[r] = k[1] /\ mode[r] # "block"
    BY <2>1, <2>2 DEF IInv, DocInv, Uploads
  <2>4. k = <<k[1], k[2]>> /\ BatchOf(f) = k[2]
    BY <2>1, <2>2, KeyParts DEF IInv, PlanInv, FilesOf
  <2>5. Key(r, BatchOf(f)) = k
    BY <2>3, <2>4 DEF Key
  <2> QED
    BY <2>2, <2>3, <2>5, Contest
<1> QED
  BY <1>1, Inductive, PTL DEF Spec, StoredIsKept

\* What a run has reported of a completed batch it never takes back.
ReportIsFinal ==
  [][\A r \in Runs, f \in Files :
       outcomes[r][f] # "none" => outcomes'[r][f] = outcomes[r][f]]_vars

\* A batch is reported once, when it is complete (upload_many).
THEOREM ReportIsFinalHolds == Spec => ReportIsFinal
<1> DEFINE Kept == \A r \in Runs, f \in Files :
                     outcomes[r][f] # "none" => outcomes'[r][f] = outcomes[r][f]
<1>1. IInv /\ [Next]_vars => Kept
  <2> SUFFICES ASSUME IInv, [Next]_vars, NEW r \in Runs, NEW f \in Files,
                      outcomes[r][f] # "none"
               PROVE  outcomes'[r][f] = outcomes[r][f]
    OBVIOUS
  <2>1. ASSUME NEW q \in Runs, BatchDone(q) PROVE outcomes'[r][f] = outcomes[r][f]
    <3>1. outcomes' = [outcomes EXCEPT ![q] = [g \in Files |->
                        IF g \in FilesOf(batch[q]) THEN current[q][g] ELSE @[g]]]
      BY <2>1 DEF BatchDone
    <3>2. q = r => f \notin FilesOf(batch[q])
      <4>1. pc[q] = "items" /\ batch[q] \in Nat
        BY <2>1, KeyNowFacts DEF BatchDone, IInv
      <4> QED
        BY <4>1, FilesFacts DEF IInv, ReachInv
    <3> QED
      BY <3>1, <3>2 DEF IInv, TypeOK
  <2>2. outcomes' = outcomes \/ \E q \in Runs : BatchDone(q)
    BY Kinds DEF IInv, Start, Replays, Plans, Stops, Breaks, Notes, Expire, vars
  <2> QED
    BY <2>1, <2>2
<1> QED
  BY <1>1, Inductive, PTL DEF Spec, ReportIsFinal

\* The project shows the document.
Live(k, f) == docs[k][f] \in {"placeholder", "stored"}

\* Imports that have nothing in common but the project make one live document of
\* a file at most: what a run with a lost key uploads again is refused as a name
\* conflict, and no step brings a removed document back beside its successor.
OneLiveDocument ==
  \A k, l \in DOMAIN plans, f \in Files :
    plans[k].project = plans[l].project /\ Live(k, f) /\ Live(l, f) => k = l

\* A document that is live was live, or its plan is new.
LEMMA LiveBefore ==
  ASSUME TypeOK, PlanInv, RunInv, [Next]_vars, NEW k \in DOMAIN plans, NEW f \in Files, Live(k, f)'
  PROVE  Live(k, f)
<1>1. k \in Keys /\ Moves(k, f)
  BY MovesStep DEF TypeOK
<1> QED
  BY <1>1 DEF Moves, Live

\* A new plan makes no live document of a name that is taken in its project.
LEMMA NewIsAlone ==
  ASSUME TypeOK, PlanInv, DocInv, RunInv, [Next]_vars, NEW k \in Keys, k \notin DOMAIN plans,
         k \in DOMAIN plans', NEW l \in DOMAIN plans, NEW f \in Files, Live(k, f)', Live(l, f)'
  PROVE  plans'[k].project # plans'[l].project
<1>1. PICK r \in Runs : Plans(r)
  BY Kinds, ExpireFacts DEF Start, Replays, BatchDone, Stops, Breaks, Notes, server, vars
<1>2. NewPlan(r) /\ k = KeyNow(r) /\ plans'[l] = plans[l]
  BY <1>1 DEF Plans, NewPlan
<1>3. Live(l, f)
  BY LiveBefore
<1>4. f \in FilesOf(batch[r]) /\ plans'[k].verdict[f] \in {"put", "duplicate"}
  <2>1. docs[k][f] = "none"
    BY DEF DocInv
  <2> QED
    BY <1>2, <2>1, PlaceFacts DEF Live
<1>5. ~Taken(f, plans'[k].project)
  BY <1>2, <1>4 DEF NewPlan
<1> QED
  BY <1>2, <1>3, <1>5 DEF Taken, Live

\* For any number of imports, keys and runs: the unique names of a project keep
\* documents apart where the keys of two imports do not.
THEOREM OneLiveDocumentHolds == Spec => []OneLiveDocument
<1>1. Init => OneLiveDocument
  BY DEF Init, OneLiveDocument
<1>2. IInv /\ IInv' /\ OneLiveDocument /\ [Next]_vars => OneLiveDocument'
  <2> SUFFICES ASSUME IInv, IInv', OneLiveDocument, [Next]_vars,
                      NEW k \in DOMAIN plans', NEW l \in DOMAIN plans', NEW f \in Files,
                      plans'[k].project = plans'[l].project, Live(k, f)', Live(l, f)'
               PROVE  k = l
    BY DEF OneLiveDocument
  <2>1. k \in Keys /\ l \in Keys
    BY DEF IInv, TypeOK
  <2>2. CASE k \in DOMAIN plans /\ l \in DOMAIN plans
    <3>1. plans[k].project = plans[l].project
      BY <2>2, KeptStep DEF IInv, PlansKept, SamePlan
    <3> QED
      BY <2>2, <3>1, LiveBefore DEF IInv, OneLiveDocument
  <2>3. CASE k \notin DOMAIN plans /\ l \notin DOMAIN plans
    <3>1. PICK r \in Runs : Plans(r)
      BY <2>3, Kinds, ExpireFacts
         DEF IInv, Start, Replays, BatchDone, Stops, Breaks, Notes, server, vars
    <3> QED
      BY <2>3, <3>1 DEF Plans, NewPlan
  <2> QED
    BY <2>1, <2>2, <2>3, NewIsAlone DEF IInv
<1> QED
  BY <1>1, <1>2, Inductive, PTL DEF Spec

(***************************************************************************)
(* The import implements BulkImport.                                       *)
(***************************************************************************)

Open(f) == \E r \in Runs : Contested(r, f)

FateMap == [f \in Files |-> FateOf(f)]
ToldMap == [r \in Runs |-> [f \in Files |->
             IF Contested(r, f) THEN "nothing" ELSE Tells[outcomes[r][f]]]]

\* Runs of one import contest a file together, and only one that was planned.
LEMMA OpenFacts ==
  ASSUME OneImport, NEW f \in Files, NEW r \in Runs, Contested(r, f)
  PROVE  \A q \in Runs : Contested(q, f)
  BY DEF Contested, OneImport, Key

\* The fate of a file is read off its batch's plan.
FateFact ==
  OneImport /\ IInv =>
    \A f \in Files :
      /\ (\A k \in DOMAIN plans : plans[k].batch # BatchOf(f)) => FateOf(f) = "new"
      /\ \A k \in DOMAIN plans : plans[k].batch = BatchOf(f) =>
           FateOf(f) = IF Open(f) THEN "planned" ELSE Shown[docs[k][f]]

LEMMA FateIs == FateFact
<1> SUFFICES ASSUME OneImport, IInv, NEW f \in Files
             PROVE  /\ (\A k \in DOMAIN plans : plans[k].batch # BatchOf(f)) => FateOf(f) = "new"
                    /\ \A k \in DOMAIN plans : plans[k].batch = BatchOf(f) =>
                         FateOf(f) = IF Open(f) THEN "planned" ELSE Shown[docs[k][f]]
  BY DEF FateFact
<1> DEFINE K == {k \in DOMAIN plans : plans[k].batch = BatchOf(f)}
<1>1. ASSUME NEW k \in K PROVE K = {k}
  BY <1>1, OneKey
<1>2. ASSUME NEW k \in K
      PROVE  (CHOOSE j \in K : \A l \in K : docs[l][f] # "none" => docs[j][f] # "none") = k
  BY <1>1
<1>3. ASSUME \A k \in DOMAIN plans : plans[k].batch # BatchOf(f) PROVE FateOf(f) = "new"
  BY <1>3 DEF FateOf
<1>4. ASSUME NEW k \in K PROVE FateOf(f) = IF Open(f) THEN "planned" ELSE Shown[docs[k][f]]
  <2>1. K # {}
    BY <1>4
  <2>2. FateOf(f) =
          IF Open(f) THEN "planned"
          ELSE Shown[docs[CHOOSE j \in K : \A l \in K : docs[l][f] # "none" => docs[j][f] # "none"][f]]
    BY <2>1, Zenon DEF FateOf, Open
  <2> QED
    BY <1>2, <2>2, Zenon
<1> QED
  BY <1>3, <1>4

LEMMA FateIsNext == FateFact'
  BY FateIs, PTL

\* A new plan's documents are placeholders, or none.
LEMMA NewDocs ==
  ASSUME TypeOK, PlanInv, DocInv, [Next]_vars, NEW k \in Keys, NEW f \in Files,
         k \notin DOMAIN plans, k \in DOMAIN plans'
  PROVE  docs'[k][f] \in {"none", "placeholder"}
<1>1. PICK r \in Runs : Plans(r)
  BY Kinds, ExpireFacts DEF Start, Replays, BatchDone, Stops, Breaks, Notes, server, vars
<1>2. NewPlan(r) /\ k = KeyNow(r)
  BY <1>1 DEF Plans, NewPlan
<1>3. docs[k][f] = "none"
  BY DEF DocInv
<1> QED
  BY <1>2, <1>3, PlaceFacts

\* All runs key a planned file's batch alike.
LEMMA TheKey ==
  ASSUME OneImport, IInv, NEW k \in DOMAIN plans, NEW f \in Files,
         plans[k].batch = BatchOf(f), NEW r \in Runs
  PROVE  Key(r, BatchOf(f)) = k
<1>1. k \in Keys
  BY DEF IInv, TypeOK
<1>2. k = <<k[1], k[2]>>
  BY <1>1, KeyParts
<1>3. k[2] = BatchOf(f) /\ k[1] = BaseKey[r]
  BY DEF IInv, PlanInv, OneImport
<1> QED
  BY <1>2, <1>3 DEF Key

\* Whether a planned file is contested is settled.
LEMMA OpenKept ==
  ASSUME OneImport, IInv, PlansKept, mode' = mode, NEW k \in DOMAIN plans, NEW f \in Files,
         plans[k].batch = BatchOf(f), NEW r \in Runs
  PROVE  Contested(r, f)' <=> Contested(r, f)
<1>1. Key(r, BatchOf(f)) = k /\ Key(r, BatchOf(f))' = k
  BY TheKey DEF Key
<1>2. k \in DOMAIN plans' /\ plans'[k].verdict = plans[k].verdict
  BY DEF PlansKept, SamePlan
<1> QED
  BY <1>1, <1>2 DEF Contested

\* A file's fate moves as BulkImport lets it.
LEMMA FateStep ==
  ASSUME OneImport, IInv, IInv', [Next]_vars, NEW f \in Files
  PROVE  \/ FateOf(f)' = FateOf(f)
         \/ FateOf(f) = "new" /\ FateOf(f)' \in {"planned", "refused"}
         \/ FateOf(f) = "planned" /\ FateOf(f)' \in {"stored", "dropped"}
<1>1. /\ (\A k \in DOMAIN plans : plans[k].batch # BatchOf(f)) => FateOf(f) = "new"
      /\ \A k \in DOMAIN plans : plans[k].batch = BatchOf(f) =>
           FateOf(f) = IF Open(f) THEN "planned" ELSE Shown[docs[k][f]]
  BY FateIs DEF FateFact
<1>2. /\ (\A k \in DOMAIN plans' : plans'[k].batch # BatchOf(f)) => FateOf(f)' = "new"
      /\ \A k \in DOMAIN plans' : plans'[k].batch = BatchOf(f) =>
           FateOf(f)' = IF Open(f)' THEN "planned" ELSE Shown[docs'[k][f]]
  BY FateIsNext DEF FateFact, OneImport, BatchOf
<1>3. PlansKept /\ mode' = mode
  BY KeptStep DEF IInv
<1>4. CASE \A k \in DOMAIN plans : plans[k].batch # BatchOf(f)
  <2>1. CASE \A k \in DOMAIN plans' : plans'[k].batch # BatchOf(f)
    BY <1>1, <1>2, <1>4, <2>1
  <2>2. ASSUME NEW k \in DOMAIN plans', plans'[k].batch = BatchOf(f)
        PROVE  FateOf(f)' \in {"planned", "refused"}
    <3>1. k \notin DOMAIN plans
      BY <1>3, <1>4, <2>2 DEF PlansKept, SamePlan
    <3>2. k \in Keys
      BY DEF IInv, TypeOK
    <3>3. docs'[k][f] \in {"none", "placeholder"}
      BY <3>1, <3>2, NewDocs DEF IInv
    <3> QED
      BY <1>2, <2>2, <3>3 DEF Shown
  <2> QED
    BY <1>1, <1>4, <2>1, <2>2
<1>5. ASSUME NEW k \in DOMAIN plans, plans[k].batch = BatchOf(f)
      PROVE  \/ FateOf(f)' = FateOf(f)
             \/ FateOf(f) = "planned" /\ FateOf(f)' \in {"stored", "dropped"}
  <2>1. /\ k \in DOMAIN plans' /\ plans'[k].batch = BatchOf(f)
        /\ plans'[k].verdict = plans[k].verdict
    BY <1>3, <1>5 DEF PlansKept, SamePlan
  <2>2. \A r \in Runs : Contested(r, f)' <=> Contested(r, f)
    BY <1>3, <1>5, OpenKept
  <2>3. Open(f)' <=> Open(f)
    BY <2>2 DEF Open
  <2>4. /\ FateOf(f) = IF Open(f) THEN "planned" ELSE Shown[docs[k][f]]
        /\ FateOf(f)' = IF Open(f) THEN "planned" ELSE Shown[docs'[k][f]]
    BY <1>1, <1>2, <1>5, <2>1, <2>3
  <2>5. CASE Open(f)
    BY <2>4, <2>5
  <2>6. CASE ~Open(f)
    <3>1. k \in Keys /\ f \in FilesOf(plans[k].batch)
      BY <1>5 DEF IInv, TypeOK, FilesOf
    <3>2. Moves(k, f)
      BY <3>1, MovesStep DEF IInv
    <3>3. ASSUME docs'[k][f] = "deleted", docs'[k][f] # docs[k][f]
          PROVE  docs[k][f] = "placeholder"
      <4>1. /\ plans[k].verdict[f] = "duplicate"
            /\ \E q \in Runs : BaseKey[q] = k[1] /\ mode[q] = "block"
        BY <1>5, <3>2, <3>3 DEF Moves
      <4>2. docs[k][f] \in {"placeholder", "stored"}
        BY <3>1, <3>3, <4>1 DEF IInv, TypeOK, DocInv
      <4>3. ASSUME docs[k][f] = "stored" PROVE FALSE
        <5>1. \E q \in Runs : BaseKey[q] = k[1] /\ mode[q] # "block"
          BY <3>1, <4>1, <4>3 DEF IInv, DocInv, Uploads
        <5>2. PICK q \in Runs : BaseKey[q] = k[1] /\ mode[q] # "block"
          BY <5>1
        <5>3. Key(q, BatchOf(f)) = k
          BY <1>5, TheKey
        <5>4. Contested(q, f)
          BY <1>5, <4>1, <5>2, <5>3, Contest
        <5> QED
          BY <2>6, <5>4 DEF Open
      <4> QED
        BY <4>2, <4>3
    <3> QED
      BY <1>5, <2>4, <2>6, <3>2, <3>3 DEF Moves, Shown
  <2> QED
    BY <2>5, <2>6
<1> QED
  BY <1>4, <1>5

LEMMA FateTyped ==
  ASSUME OneImport, IInv, NEW f \in Files
  PROVE  FateOf(f) \in {"stored", "dropped", "refused", "new", "planned"}
<1>1. CASE \A k \in DOMAIN plans : plans[k].batch # BatchOf(f)
  BY <1>1, FateIs DEF FateFact
<1>2. ASSUME NEW k \in DOMAIN plans, plans[k].batch = BatchOf(f)
      PROVE  FateOf(f) \in {"stored", "dropped", "refused", "new", "planned"}
  <2>1. docs[k][f] \in {"none", "placeholder", "stored", "deleted"}
    BY DEF IInv, TypeOK
  <2>2. Shown[docs[k][f]] \in {"stored", "dropped", "refused", "new", "planned"}
    BY <2>1 DEF Shown
  <2> QED
    BY <1>2, <2>2, FateIs DEF FateFact
<1> QED
  BY <1>1, <1>2

\* What a run has told of a file that it has no outcome of.
LEMMA ToldTyped ==
  ASSUME IInv
  PROVE  ToldMap \in [Runs -> [Files -> {"stored", "dropped", "refused", "nothing"}]]
<1>1. ASSUME NEW r \in Runs, NEW f \in Files
      PROVE  Tells[outcomes[r][f]] \in {"stored", "dropped", "refused", "nothing"}
  <2>1. outcomes[r][f] \in Outcomes
    BY DEF IInv, TypeOK
  <2> QED
    BY <2>1 DEF Outcomes, Tells
<1> QED
  BY <1>1 DEF ToldMap

Telling(r, f) == IF Contested(r, f) THEN "nothing" ELSE Tells[outcomes[r][f]]

\* An outcome that is not contested is the fate of its file.
LEMMA AgreedFate ==
  ASSUME OneImport, IInv, NEW r \in Runs, NEW f \in Files, NEW o \in Outcomes \ {"none"},
         Agrees(r, f, o), ~Contested(r, f)
  PROVE  FateOf(f) = Tells[o]
<1>1. PICK k \in DOMAIN plans : k = Key(r, BatchOf(f))
  BY DEF Agrees
<1>2. k \in Keys /\ k[2] = BatchOf(f)
  BY <1>1, BatchFacts, KeyFacts
<1>3. plans[k].batch = BatchOf(f)
  BY <1>2 DEF IInv, PlanInv
<1>4. ~Open(f)
  BY OpenFacts DEF Open
<1>5. FateOf(f) = Shown[docs[k][f]]
  BY <1>3, <1>4, FateIs DEF FateFact
<1>6. CASE o = "uploaded"
  BY <1>1, <1>5, <1>6 DEF Agrees, Shown, Tells
<1>7. CASE o = "skipped"
  BY <1>1, <1>5, <1>7 DEF Agrees, Shown, Tells
<1>8. CASE o = "failed"
  <2>1. plans[k].verdict[f] \in {"conflict", "error"}
    BY <1>1, <1>8 DEF Agrees
  <2>2. docs[k][f] = "none"
    BY <1>2, <2>1 DEF IInv, DocInv
  <2> QED
    BY <1>5, <1>8, <2>2 DEF Shown, Tells
<1> QED
  BY <1>6, <1>7, <1>8 DEF Outcomes

\* A file becomes contested before anything is told of it.
LEMMA TellingKept ==
  ASSUME OneImport, IInv, [Next]_vars, NEW r \in Runs, NEW f \in Files,
         outcomes'[r][f] = outcomes[r][f]
  PROVE  Telling(r, f)' = Telling(r, f)
<1>1. PlansKept /\ mode' = mode
  BY KeptStep DEF IInv
<1>2. CASE Key(r, BatchOf(f)) \in DOMAIN plans
  <2>1. PICK k \in DOMAIN plans : k = Key(r, BatchOf(f))
    BY <1>2
  <2>2. plans[k].batch = BatchOf(f)
    BY <2>1, BatchFacts, KeyFacts DEF IInv, PlanInv
  <2>3. Contested(r, f)' <=> Contested(r, f)
    BY <1>1, <2>2, OpenKept
  <2> QED
    BY <2>3 DEF Telling
<1>3. CASE Key(r, BatchOf(f)) \notin DOMAIN plans
  <2>1. outcomes[r][f] = "none"
    BY <1>3 DEF IInv, OutcomeInv, Agrees
  <2> QED
    BY <2>1 DEF Telling, Tells
<1> QED
  BY <1>2, <1>3

\* A completed batch tells its files' fates, of which nothing was told.
LEMMA TellingDone ==
  ASSUME OneImport, IInv, [Next]_vars, NEW r \in Runs, BatchDone(r), NEW q \in Runs,
         NEW f \in Files, Telling(q, f)' # Telling(q, f)
  PROVE  q = r /\ Telling(q, f) = "nothing" /\ Telling(q, f)' = FateOf(f)
<1>1. outcomes'[q][f] # outcomes[q][f]
  BY TellingKept
<1>2. outcomes' = [outcomes EXCEPT ![r] = [g \in Files |->
                     IF g \in FilesOf(batch[r]) THEN current[r][g] ELSE @[g]]]
  BY DEF BatchDone
<1>3. q = r /\ f \in FilesOf(batch[r]) /\ outcomes'[q][f] = current[r][f]
  BY <1>1, <1>2 DEF IInv, TypeOK
<1>4. outcomes[r][f] = "none"
  <2>1. BatchOf(f) = batch[r] /\ batch[r] \in Nat
    BY <1>3, FilesFacts, KeyNowFacts DEF IInv
  <2>2. pc[r] = "items"
    BY DEF BatchDone
  <2> QED
    BY <2>1, <2>2 DEF IInv, ReachInv
<1>5. UNCHANGED <<plans, mode>>
  BY DEF BatchDone, server
<1>6. Contested(q, f)' <=> Contested(q, f)
  BY <1>5 DEF Contested, Key
<1>7. Telling(q, f) = "nothing" /\ ~Contested(q, f)
  BY <1>3, <1>4, <1>6 DEF Telling, Tells
<1>8. Telling(q, f)' = Tells[current[r][f]]
  BY <1>3, <1>6, <1>7 DEF Telling
<1>9. current[r][f] \in Outcomes \ {"none"} /\ Agrees(r, f, current[r][f])
  BY <1>1, <1>3, <1>4 DEF IInv, TypeOK, OutcomeInv
<1> QED
  BY <1>3, <1>7, <1>8, <1>9, AgreedFate

\* A completed batch changes no fate.
LEMMA FateDone ==
  ASSUME NEW r \in Runs, BatchDone(r)
  PROVE  FateMap' = FateMap
<1>1. UNCHANGED <<plans, docs, mode>>
  BY DEF BatchDone, server
<1>2. ASSUME NEW f \in Files PROVE FateOf(f)' = FateOf(f)
  BY <1>1 DEF FateOf, Contested, Key, BatchOf
<1> QED
  BY <1>2 DEF FateMap

MapsTyped ==
  OneImport /\ IInv =>
    /\ FateMap \in [Files -> {"stored", "dropped", "refused", "new", "planned"}]
    /\ ToldMap \in [Runs -> [Files -> {"stored", "dropped", "refused", "nothing"}]]

LEMMA MapsAreTyped == MapsTyped /\ MapsTyped'
<1>1. MapsTyped
  BY FateTyped, ToldTyped DEF MapsTyped, FateMap
<1> QED
  BY <1>1, PTL

\* Batches, replays, crashes and overlapping runs are invisible: every file of
\* an import comes to one fate, and every run of it tells that one.
THEOREM ImplementsImportHolds ==
  ASSUME OneImport
  PROVE  Spec => ImplementsImport
<1>1. Init => Import!Init
  <2> SUFFICES ASSUME Init PROVE Import!Init
    OBVIOUS
  <2>1. DOMAIN plans = {}
    BY DEF Init
  <2>2. \A f \in Files : FateOf(f) = "new"
    BY <2>1 DEF FateOf
  <2>3. \A r \in Runs, f \in Files : outcomes[r][f] = "none"
    BY DEF Init, NoOutcomes
  <2> QED
    BY <2>1, <2>2, <2>3 DEF Import!Init, Tells
<1>2. IInv /\ IInv' /\ [Next]_vars => [Import!Next]_(Import!vars)
  <2> SUFFICES ASSUME IInv, IInv', [Next]_vars PROVE [Import!Next]_(Import!vars)
    OBVIOUS
  <2>1. ToldMap' \in [Runs -> [Files -> {"stored", "dropped", "refused", "nothing"}]]
    BY MapsAreTyped DEF MapsTyped, OneImport
  <2>2. \A r \in Runs, f \in Files :
          ToldMap[r][f] = Telling(r, f) /\ ToldMap'[r][f] = Telling(r, f)'
    BY DEF ToldMap, Telling
  <2>3. ASSUME NEW r \in Runs, BatchDone(r) PROVE Import!Tell(r)
    BY <2>1, <2>2, <2>3, TellingDone, FateDone
    DEF Import!Tell, Import!Ends, ToldMap, FateMap
  <2>4. ASSUME outcomes' = outcomes PROVE Import!Decide
    <3>1. ToldMap' = ToldMap
      BY <2>4, TellingKept DEF ToldMap, Telling
    <3>2. FateMap' \in [Files -> {"stored", "dropped", "refused", "new", "planned"}]
      BY MapsAreTyped DEF MapsTyped, OneImport
    <3> QED
      BY <3>1, <3>2, FateStep
      DEF Import!Decide, Import!Comes, Import!Fates, Import!Ends, ToldMap, FateMap
  <2>5. outcomes' = outcomes \/ \E r \in Runs : BatchDone(r)
    BY Kinds DEF IInv, Start, Replays, Plans, Stops, Breaks, Notes, Expire, vars
  <2> QED
    BY <2>3, <2>4, <2>5 DEF Import!Next
<1> QED
  BY <1>1, <1>2, Inductive, PTL DEF Spec, ImplementsImport, Import!Spec
===============================================================================
