---------------------------- MODULE ProjectCatalog ----------------------------
(***************************************************************************)
(* projects.get_or_create and the iterate methods (src/infersoft/          *)
(* resources/projects.py and the other resources): look for a project by   *)
(* name on numbered pages of a fuzzy search, create it if it is not there, *)
(* and look again if somebody else was faster.  A caller of iterate reads  *)
(* the same pages to their end, oldest first or, the default of            *)
(* jobs.iterate, newest first.                                             *)
(*                                                                         *)
(* Each page is one request, and the catalog changes between any two: the  *)
(* API is external.  It gives new projects growing ids, keeps names        *)
(* unique, and its search finds at least the exact matches.  A request     *)
(* takes effect once or fails (HttpSend), perhaps later than its caller    *)
(* waits: its retries are then answered 409, in progress.                  *)
(***************************************************************************)
EXTENDS Integers, FiniteSets

CONSTANTS
  Clients,      \* callers of get_or_create(Name) or of iterate
  PageSize,     \* page_size
  MaxProjects   \* bound: projects that are ever created

ASSUME CatalogAssumption == PageSize \in Nat \ {0} /\ MaxProjects \in Nat

Ids   == 1..MaxProjects
Names == {"wanted", "similar"}   \* the argument, and other names the search finds

VARIABLES
  \* the API
  name,      \* the projects' names: unborn, or gone, when there is none
  next,      \* the next project's id
  \* each call
  pc,        \* idle, read (iterate), scan, create, rescan, returned, raised
  newest,    \* argument order_dir is "desc"
  page,      \* the page to request
  yields,    \* how often the running scan has yielded each project
  early,     \* projects that were there when the scan began
  shifted,   \* a project was removed since
  grown,     \* a project was added since
  own,       \* the API executes the call's own creation
  late,      \* history: the call gave up its creation while it executed
  result,    \* the returned project, 0 for none
  error      \* what was raised

api  == <<name, next>>
seen == <<yields, early, shifted, grown>>
vars == <<api, pc, newest, page, seen, own, late, result, error>>

TypeOK ==
  /\ name \in [Ids -> Names \cup {"unborn", "gone"}]
  /\ next \in 1..(MaxProjects + 1)
  /\ pc \in [Clients -> {"idle", "read", "scan", "create", "rescan", "returned",
                         "raised"}]
  /\ newest \in [Clients -> BOOLEAN]
  /\ page \in [Clients -> 1..(1 + MaxProjects \div PageSize)]
  /\ yields \in [Clients -> [Ids -> Nat]]
  /\ early \in [Clients -> SUBSET Ids]
  /\ {shifted, grown, own, late} \subseteq [Clients -> BOOLEAN]
  /\ result \in [Clients -> Ids \cup {0}]
  /\ error \in [Clients -> {"none", "conflict", "request"}]

Init ==
  /\ name = [i \in Ids |-> "unborn"] /\ next = 1
  /\ pc = [c \in Clients |-> "idle"]
  /\ page = [c \in Clients |-> 1]
  /\ yields = [c \in Clients |-> [i \in Ids |-> 0]]
  /\ early = [c \in Clients |-> {}]
  /\ newest = [c \in Clients |-> FALSE]
  /\ shifted = [c \in Clients |-> FALSE]
  /\ grown = [c \in Clients |-> FALSE]
  /\ own = [c \in Clients |-> FALSE]
  /\ late = [c \in Clients |-> FALSE]
  /\ result = [c \in Clients |-> 0]
  /\ error = [c \in Clients |-> "none"]

Live == {i \in Ids : name[i] \in Names}

(***************************************************************************)
(* The pages of a search.                                                  *)
(***************************************************************************)

\* Mutant of Rank: get_or_create and iterate read newest first by default.
RankNewest(c, i) == Cardinality({j \in Live : j > i})

\* order_by="id": the place of an item in the order that the call asks for.
Rank(c, i) ==
  IF newest[c] THEN Cardinality({j \in Live : j > i})
  ELSE Cardinality({j \in Live : j < i})

Items(c) == {i \in Live : Rank(c, i) \div PageSize = page[c] - 1}

\* Mutants of HasMore: the last page is missed, or never noticed.
HasMoreShort(p) == Cardinality(Live) > (p + 1) * PageSize
HasMoreAlways(p) == TRUE

HasMore(p) == Cardinality(Live) > p * PageSize

\* Mutant of Matches: the fuzzy search is trusted.
MatchesFuzzy(i) == TRUE

\* `p.name == name`.
Matches(i) == name[i] = "wanted"

(***************************************************************************)
(* A call.                                                                 *)
(***************************************************************************)
BeginScan(c, label) ==
  /\ pc' = [pc EXCEPT ![c] = label]
  /\ page' = [page EXCEPT ![c] = 1]
  /\ yields' = [yields EXCEPT ![c] = [i \in Ids |-> 0]]
  /\ early' = [early EXCEPT ![c] = Live]
  /\ shifted' = [shifted EXCEPT ![c] = FALSE]
  /\ grown' = [grown EXCEPT ![c] = FALSE]

\* get_or_create: its scan is in the default order of projects.iterate.
GetOrCreate(c) ==
  /\ pc[c] = "idle"
  /\ BeginScan(c, "scan")
  /\ UNCHANGED <<api, newest, own, late, result, error>>

\* iterate, in either order.
Iterate(c) ==
  /\ pc[c] = "idle"
  /\ BeginScan(c, "read")
  /\ \E desc \in BOOLEAN : newest' = [newest EXCEPT ![c] = desc]
  /\ UNCHANGED <<api, own, late, result, error>>

Give(c, i) ==
  /\ pc' = [pc EXCEPT ![c] = "returned"]
  /\ result' = [result EXCEPT ![c] = i]
  /\ UNCHANGED error

Raise(c, what) ==
  /\ pc' = [pc EXCEPT ![c] = "raised"]
  /\ error' = [error EXCEPT ![c] = what]
  /\ UNCHANGED result

Yield(c, S) ==
  yields' = [yields EXCEPT ![c] = [i \in Ids |-> IF i \in S THEN @[i] + 1 ELSE @[i]]]

\* The next page has a match: it is returned, and the rest never asked for.
Find(c) ==
  /\ pc[c] \in {"scan", "rescan"}
  /\ \E i \in Items(c) :
       /\ Matches(i)
       /\ \A j \in Items(c) : Matches(j) => i <= j
       /\ Yield(c, {j \in Items(c) : j <= i})
       /\ Give(c, i)
  /\ UNCHANGED <<api, newest, page, early, shifted, grown, own, late>>

\* The next page has none: go on, or create, or raise the ConflictError.
Miss(c) ==
  /\ pc[c] \in {"scan", "rescan"}
  /\ \A i \in Items(c) : ~Matches(i)
  /\ Yield(c, Items(c))
  /\ \/ /\ HasMore(page[c])
        /\ page' = [page EXCEPT ![c] = @ + 1]
        /\ UNCHANGED <<pc, result, error>>
     \/ /\ ~HasMore(page[c]) /\ pc[c] = "scan"
        /\ pc' = [pc EXCEPT ![c] = "create"]
        /\ UNCHANGED <<page, result, error>>
     \/ /\ ~HasMore(page[c]) /\ pc[c] = "rescan"
        /\ Raise(c, "conflict")
        /\ UNCHANGED page
  /\ UNCHANGED <<api, newest, early, shifted, grown, own, late>>

\* iterate: every item of the page, and the next page.
Read(c) ==
  /\ pc[c] = "read"
  /\ Yield(c, Items(c))
  /\ \/ /\ HasMore(page[c])
        /\ page' = [page EXCEPT ![c] = @ + 1]
        /\ UNCHANGED pc
     \/ /\ ~HasMore(page[c])
        /\ pc' = [pc EXCEPT ![c] = "returned"]
        /\ UNCHANGED page
  /\ UNCHANGED <<api, newest, early, shifted, grown, own, late, result, error>>

Add(n) ==
  /\ next \in Ids
  /\ name' = [name EXCEPT ![next] = n]
  /\ next' = next + 1
  /\ grown' = [c \in Clients |-> TRUE]

Taken == \E i \in Live : name[i] = "wanted"

Create(c) ==
  /\ pc[c] = "create" /\ ~Taken
  /\ Add("wanted")
  /\ Give(c, next)
  /\ UNCHANGED <<newest, page, yields, early, shifted, own, late>>

\* Mutant of LoseRace: the winner is looked for after the pages seen so far.
LoseRaceOnwards(c) ==
  /\ pc[c] = "create" /\ Taken
  /\ pc' = [pc EXCEPT ![c] = "rescan"]
  /\ page' = [page EXCEPT ![c] = @ + 1]
  /\ UNCHANGED <<api, newest, seen, own, late, result, error>>

\* ConflictError: look for the winner, from the first page.
LoseRace(c) ==
  /\ pc[c] = "create" /\ Taken
  /\ BeginScan(c, "rescan")
  /\ UNCHANGED <<api, newest, own, late, result, error>>

\* The same ConflictError, but the creation is still in progress when the
\* retries are spent.
Outlasted(c) ==
  /\ pc[c] = "create"
  /\ BeginScan(c, "rescan")
  /\ own' = [own EXCEPT ![c] = TRUE]
  /\ late' = [late EXCEPT ![c] = TRUE]
  /\ UNCHANGED <<api, newest, result, error>>

\* assign_documents(project_name=...): one keyed request that creates the project
\* itself.  It has no second look for a project that is there already.
Assign(c) ==
  /\ pc[c] = "idle"
  /\ \/ ~Taken /\ Add("wanted") /\ Give(c, next) /\ UNCHANGED own
     \/ /\ Raise(c, "request")
        /\ UNCHANGED <<api, grown>>
        /\ UNCHANGED own \/ own' = [own EXCEPT ![c] = TRUE]
  /\ UNCHANGED <<newest, page, yields, early, shifted, late>>

\* Any request may fail for good; the creation may still execute.
RequestFails(c) ==
  /\ pc[c] \in {"read", "scan", "create", "rescan"}
  /\ \/ UNCHANGED own
     \/ pc[c] = "create" /\ own' = [own EXCEPT ![c] = TRUE]
  /\ Raise(c, "request")
  /\ UNCHANGED <<api, newest, page, seen, late>>

(***************************************************************************)
(* The API and others (external).                                          *)
(***************************************************************************)

\* A creation that its caller gave up takes effect, or comes too late.
Execute(c) ==
  /\ own[c]
  /\ own' = [own EXCEPT ![c] = FALSE]
  /\ \/ ~Taken /\ Add("wanted")
     \/ Taken /\ UNCHANGED <<api, grown>>
  /\ UNCHANGED <<pc, newest, page, yields, early, shifted, late, result, error>>

Busy == \E c \in Clients : pc[c] \notin {"returned", "raised"}

Insert ==
  /\ Busy
  /\ Add("similar")
  /\ UNCHANGED <<pc, newest, page, yields, early, shifted, own, late, result, error>>

\* An item is removed, or leaves what the search filters for.
Remove(i) ==
  /\ Busy /\ i \in Live
  /\ name' = [name EXCEPT ![i] = "gone"]
  /\ shifted' = [c \in Clients |-> TRUE]
  /\ UNCHANGED <<next, pc, newest, page, yields, early, grown, own, late, result,
                 error>>

Ended ==
  /\ \A c \in Clients : pc[c] \in {"returned", "raised"}
  /\ UNCHANGED vars

Step(c) ==
  \/ GetOrCreate(c) \/ Iterate(c) \/ Find(c) \/ Miss(c) \/ Read(c)
  \/ Create(c) \/ LoseRace(c) \/ Outlasted(c) \/ RequestFails(c) \/ Assign(c)

Next ==
  \/ \E c \in Clients : Step(c) \/ Execute(c)
  \/ Insert \/ (\E i \in Ids : Remove(i))
  \/ Ended

Spec == Init /\ [][Next]_vars

(***************************************************************************)
(* Properties.                                                             *)
(***************************************************************************)

\* Callers with one name get one project, with exactly that name: two results
\* differ only if the first project was removed before the second was made.
OneProject ==
  \A c, d \in Clients :
    result[c] # 0 /\ result[d] # 0 =>
      /\ name[result[c]] \in {"wanted", "gone"}
      /\ result[c] < result[d] => name[result[c]] = "gone"

\* No project had the name when the scan began.
NoWinner(c) == \A i \in early[c] : name[i] # "wanted"

\* "A creation race that loses to a concurrent run is resolved by re-fetching
\* the winner": the conflict comes through only if projects were removed while
\* the winner was looked for, or if there was none to find: the 409 was about
\* the call's own creation, which outlasted its retries.  A winner that is there
\* is found also after such a 409.
RaceIsResolved ==
  \A c \in Clients :
    error[c] = "conflict" => shifted[c] \/ (late[c] /\ NoWinner(c))

\* No item is yielded twice, however the catalog changes between pages, unless
\* the newest come first and there are new ones.
YieldsOnce ==
  \A c \in Clients, i \in Ids : yields[c][i] > 1 => newest[c] /\ grown[c]

\* A scan that comes to its end, in either order, has yielded every item that
\* was there when it began, if nothing was removed meanwhile.
SkipsNothing ==
  \A c \in Clients :
    \/ pc[c] = "create" \/ error[c] = "conflict"
    \/ pc[c] = "returned" /\ result[c] = 0
    => shifted[c] \/ \A i \in early[c] : yields[c][i] > 0
===============================================================================
