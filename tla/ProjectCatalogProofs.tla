-------------------------- MODULE ProjectCatalogProofs --------------------------
(***************************************************************************)
(* Theorems about ProjectCatalog, for any number of callers and projects   *)
(* and any size of the pages.                                              *)
(***************************************************************************)
EXTENDS ProjectCatalog, FiniteSetTheorems, TLAPS

(***************************************************************************)
(* The inductive invariant.                                                *)
(***************************************************************************)

\* Names are unique among the projects that are there, and a project that was
\* made or found is the only one of its name, or gone with all before it.
NameInv ==
  /\ \A i \in Ids : i >= next => name[i] = "unborn"
  /\ \A i, j \in Ids : name[i] = "wanted" /\ name[j] = "wanted" => i = j
  /\ \A c \in Clients : result[c] # 0 => name[result[c]] \in {"wanted", "gone"}
  /\ \A c \in Clients : result[c] # 0 => pc[c] = "returned"
  /\ \A c \in Clients, i \in Ids : name[i] = "wanted" => result[c] <= i

\* What a scan knows is about projects that exist, or existed.
SeenInv ==
  \A c \in Clients :
    /\ \A i \in Ids : yields[c][i] > 0 \/ i \in early[c] => i < next
    /\ ~shifted[c] => early[c] \subseteq Live
    /\ error[c] = "conflict" => pc[c] = "raised"

Scanning(c) == pc[c] \in {"read", "scan", "rescan"}

\* The item's place is on a page that has been read.
Passed(c, i) == Rank(c, i) \div PageSize < page[c] - 1

\* What has been yielded lies behind the scan, and what lies behind it has been
\* yielded.
ScanInv ==
  \A c \in Clients, i \in Ids : Scanning(c) /\ i \in Live =>
    /\ yields[c][i] > 0 => Passed(c, i) \/ (newest[c] /\ grown[c])
    /\ i \in early[c] /\ Passed(c, i) => yields[c][i] > 0 \/ shifted[c]

\* The winner of a race is ahead of the scan that looks for it.
WinnerInv ==
  \A c \in Clients : pc[c] = "rescan" =>
    \/ shifted[c] \/ (late[c] /\ NoWinner(c))
    \/ \E i \in early[c] : name[i] = "wanted" /\ yields[c][i] = 0

IInv ==
  /\ TypeOK
  /\ NameInv
  /\ SeenInv
  /\ ScanInv
  /\ WinnerInv
  /\ RaceIsResolved
  /\ YieldsOnce
  /\ SkipsNothing

USE CatalogAssumption

(***************************************************************************)
(* Places and pages.                                                       *)
(***************************************************************************)

LEMMA DivMonotone ==
  ASSUME NEW a \in Nat, NEW b \in Nat, a <= b
  PROVE  a \div PageSize \in Nat /\ a \div PageSize <= b \div PageSize
  BY SMT

LEMMA DivLess ==
  ASSUME NEW a \in Nat, NEW q \in Nat, a < q * PageSize
  PROVE  a \div PageSize < q
  BY SMT

LEMMA DivAtLeast ==
  ASSUME NEW a \in Nat, NEW q \in Nat, q * PageSize <= a
  PROVE  q <= a \div PageSize
  BY SMT

\* What there is, is finitely much.
LEMMA LiveFinite ==
  ASSUME TypeOK
  PROVE  /\ Live \subseteq Ids /\ IsFiniteSet(Live)
         /\ Cardinality(Live) \in Nat /\ Cardinality(Live) <= MaxProjects
<1>1. IsFiniteSet(Ids) /\ Cardinality(Ids) = MaxProjects
  BY FS_Interval DEF Ids
<1>2. Live \subseteq Ids
  BY DEF Live
<1> QED
  BY <1>1, <1>2, FS_Subset, FS_CardinalityType

\* An item's place is one of as many as there are items.
LEMMA PlaceBound ==
  ASSUME NEW S \in SUBSET Ids, NEW i \in S
  PROVE  /\ Cardinality({j \in S : j > i}) \in 0..(Cardinality(S) - 1)
         /\ Cardinality({j \in S : j < i}) \in 0..(Cardinality(S) - 1)
<1>1. IsFiniteSet(S)
  <2>1. IsFiniteSet(Ids)
    BY FS_Interval DEF Ids
  <2> QED
    BY <2>1, FS_Subset
<1>2. ASSUME NEW T, T \subseteq S, i \notin T
      PROVE  Cardinality(T) \in 0..(Cardinality(S) - 1)
  BY <1>1, <1>2, FS_Subset, FS_CardinalityType
<1>3. i \in Int
  BY DEF Ids
<1>4. i \notin {j \in S : j > i} /\ i \notin {j \in S : j < i}
  BY <1>3
<1> QED
  BY <1>2, <1>4

LEMMA RankBound ==
  ASSUME TypeOK, NEW c \in Clients, NEW i \in Live
  PROVE  Rank(c, i) \in Nat /\ Rank(c, i) < Cardinality(Live)
<1>1. Cardinality(Live) \in Nat
  BY LiveFinite
<1>2. Rank(c, i) \in 0..(Cardinality(Live) - 1)
  BY PlaceBound DEF Rank, Live
<1> QED
  BY <1>1, <1>2

\* A removal moves what is left to the front, if anywhere.
LEMMA RankAfterRemove ==
  ASSUME TypeOK, NEW k \in Ids, name' = [name EXCEPT ![k] = "gone"], newest' = newest,
         NEW c \in Clients, NEW i \in Live'
  PROVE  i \in Live /\ Rank(c, i)' \in Nat /\ Rank(c, i)' <= Rank(c, i)
<1>1. Live' \subseteq Live
  BY DEF Live, TypeOK, Names
<1>2. ASSUME NEW S, NEW T, S \subseteq T, T \subseteq Live
      PROVE  Cardinality(S) \in Nat /\ Cardinality(S) <= Cardinality(T)
  BY <1>2, LiveFinite, FS_Subset, FS_CardinalityType
<1>3. /\ {j \in Live' : j > i} \subseteq {j \in Live : j > i}
      /\ {j \in Live' : j < i} \subseteq {j \in Live : j < i}
  BY <1>1
<1>4. /\ Cardinality({j \in Live' : j > i}) \in Nat
      /\ Cardinality({j \in Live' : j > i}) <= Cardinality({j \in Live : j > i})
  BY <1>2, <1>3
<1>5. /\ Cardinality({j \in Live' : j < i}) \in Nat
      /\ Cardinality({j \in Live' : j < i}) <= Cardinality({j \in Live : j < i})
  BY <1>2, <1>3
<1> QED
  BY <1>1, <1>4, <1>5 DEF Rank

\* A new project comes last, or first: it moves the others to the back.
LEMMA RankAfterAdd ==
  ASSUME TypeOK, TypeOK', NameInv, NEW n \in Names, Add(n), newest' = newest,
         NEW c \in Clients, NEW i \in Live
  PROVE  /\ i \in Live' /\ Rank(c, i)' \in Nat /\ Rank(c, i) <= Rank(c, i)'
         /\ ~newest[c] => Rank(c, i)' = Rank(c, i)
<1>1. Live' = Live \cup {next} /\ next \in Ids
  BY DEF Live, TypeOK, Names, Add
<1>2. \A j \in Live : j < next
  BY DEF Live, NameInv, Names, TypeOK, Ids
<1>3. i \in Ids /\ i < next
  BY <1>2 DEF Live
<1>4. {j \in Live' : j < i} = {j \in Live : j < i}
  BY <1>1, <1>3 DEF Ids
<1>5. {j \in Live : j > i} \subseteq {j \in Live' : j > i}
  BY <1>1
<1>6. {j \in Live' : j > i} \subseteq Live' /\ IsFiniteSet(Live')
  <2>1. IsFiniteSet(Live)
    BY LiveFinite
  <2> QED
    BY <2>1, <1>1, FS_AddElement
<1>7. /\ Cardinality({j \in Live' : j > i}) \in Nat
      /\ Cardinality({j \in Live : j > i}) <= Cardinality({j \in Live' : j > i})
  BY <1>5, <1>6, FS_Subset, FS_CardinalityType
<1>8. Rank(c, i) \in Nat
  BY RankBound
<1> QED
  BY <1>1, <1>4, <1>7, <1>8 DEF Rank

\* At the end of the pages, every item has been passed or is on the last.
LEMMA LastPage ==
  ASSUME TypeOK, NEW c \in Clients, NEW i \in Live, ~HasMore(page[c])
  PROVE  Passed(c, i) \/ i \in Items(c)
<1>1. page[c] \in Nat \ {0}
  BY DEF TypeOK
<1>2. Cardinality(Live) <= page[c] * PageSize
  BY <1>1, LiveFinite DEF HasMore
<1>3. Rank(c, i) \in Nat /\ Rank(c, i) < page[c] * PageSize
  BY <1>1, <1>2, RankBound, LiveFinite
<1>4. Rank(c, i) \div PageSize < page[c] /\ Rank(c, i) \div PageSize \in Nat
  BY <1>1, <1>3, DivLess, DivMonotone
<1> QED
  BY <1>1, <1>4 DEF Passed, Items

\* There is a page number for every page.
LEMMA NextPage ==
  ASSUME TypeOK, NEW c \in Clients, HasMore(page[c])
  PROVE  page[c] + 1 \in 1..(1 + MaxProjects \div PageSize)
<1>1. page[c] \in Nat /\ page[c] * PageSize < Cardinality(Live)
  BY LiveFinite DEF HasMore, TypeOK
<1>2. page[c] * PageSize \in Nat /\ page[c] * PageSize <= MaxProjects
  BY <1>1, LiveFinite
<1>3. page[c] <= MaxProjects \div PageSize /\ MaxProjects \div PageSize \in Nat
  BY <1>1, <1>2, DivAtLeast, DivMonotone
<1> QED
  BY <1>1, <1>3

(***************************************************************************)
(* Types.                                                                  *)
(***************************************************************************)

\* A scan that begins.
LEMMA BeginTyped ==
  ASSUME TypeOK, NEW c \in Clients, NEW label \in {"read", "scan", "rescan"},
         BeginScan(c, label), UNCHANGED <<api, result, error>>,
         newest' \in [Clients -> BOOLEAN],
         own' \in [Clients -> BOOLEAN], late' \in [Clients -> BOOLEAN]
  PROVE  TypeOK'
<1>1. yields' \in [Clients -> [Ids -> Nat]]
  BY DEF TypeOK, BeginScan
<1>2. page' \in [Clients -> 1..(1 + MaxProjects \div PageSize)]
  BY DEF TypeOK, BeginScan
<1>3. early' \in [Clients -> SUBSET Ids]
  BY DEF TypeOK, BeginScan, Live
<1>4. /\ shifted' \in [Clients -> BOOLEAN] /\ grown' \in [Clients -> BOOLEAN]
      /\ pc' \in [Clients -> {"idle", "read", "scan", "create", "rescan", "returned",
                              "raised"}]
  BY DEF TypeOK, BeginScan
<1> QED
  BY <1>1, <1>2, <1>3, <1>4 DEF TypeOK, api

\* A page that is yielded.
LEMMA YieldTyped ==
  ASSUME TypeOK, NEW c \in Clients, NEW S, Yield(c, S)
  PROVE  /\ yields' \in [Clients -> [Ids -> Nat]]
         /\ \A d \in Clients : d # c => yields'[d] = yields[d]
         /\ \A i \in Ids : yields'[c][i] = IF i \in S THEN yields[c][i] + 1 ELSE yields[c][i]
  BY DEF TypeOK, Yield

LEMMA AddTyped ==
  ASSUME TypeOK, NEW n \in Names, Add(n)
  PROVE  /\ name' \in [Ids -> Names \cup {"unborn", "gone"}]
         /\ next' \in 1..(MaxProjects + 1) /\ next \in Ids
         /\ grown' \in [Clients -> BOOLEAN]
  BY DEF TypeOK, Add, Ids

LEMMA TypeStep ==
  ASSUME TypeOK, [Next]_vars
  PROVE  TypeOK'
<1>1. ASSUME NEW c \in Clients, GetOrCreate(c) PROVE TypeOK'
  BY <1>1, BeginTyped DEF GetOrCreate, TypeOK
<1>2. ASSUME NEW c \in Clients, Iterate(c) PROVE TypeOK'
  <2>1. newest' \in [Clients -> BOOLEAN]
    BY <1>2 DEF Iterate, TypeOK
  <2> QED
    BY <1>2, <2>1, BeginTyped DEF Iterate, TypeOK
<1>3. ASSUME NEW c \in Clients, Find(c) PROVE TypeOK'
  <2>1. PICK i \in Items(c) : /\ Yield(c, {j \in Items(c) : j <= i})
                              /\ Give(c, i)
    BY <1>3 DEF Find
  <2>2. i \in Ids
    BY DEF Items, Live
  <2>3. yields' \in [Clients -> [Ids -> Nat]]
    BY <2>1, YieldTyped
  <2> QED
    BY <1>3, <2>1, <2>2, <2>3 DEF Find, Give, TypeOK, api
<1>4. ASSUME NEW c \in Clients, Miss(c) PROVE TypeOK'
  <2>1. yields' \in [Clients -> [Ids -> Nat]]
    BY <1>4, YieldTyped DEF Miss
  <2>2. CASE HasMore(page[c])
    <3>1. page' \in [Clients -> 1..(1 + MaxProjects \div PageSize)]
      BY <1>4, <2>2, NextPage DEF Miss, TypeOK
    <3> QED
      BY <1>4, <2>1, <2>2, <3>1 DEF Miss, TypeOK, api
  <2>3. CASE ~HasMore(page[c])
    BY <1>4, <2>1, <2>3 DEF Miss, Raise, TypeOK, api
  <2> QED
    BY <2>2, <2>3
<1>5. ASSUME NEW c \in Clients, Read(c) PROVE TypeOK'
  <2>1. yields' \in [Clients -> [Ids -> Nat]]
    BY <1>5, YieldTyped DEF Read
  <2>2. CASE HasMore(page[c])
    <3>1. page' \in [Clients -> 1..(1 + MaxProjects \div PageSize)]
      BY <1>5, <2>2, NextPage DEF Read, TypeOK
    <3> QED
      BY <1>5, <2>1, <2>2, <3>1 DEF Read, TypeOK, api
  <2>3. CASE ~HasMore(page[c])
    BY <1>5, <2>1, <2>3 DEF Read, TypeOK, api
  <2> QED
    BY <2>2, <2>3
<1>6. ASSUME NEW c \in Clients, Create(c) PROVE TypeOK'
  <2>1. Add("wanted") /\ "wanted" \in Names
    BY <1>6 DEF Create, Names
  <2> QED
    BY <1>6, <2>1, AddTyped DEF Create, Give, TypeOK
<1>7. ASSUME NEW c \in Clients, LoseRace(c) PROVE TypeOK'
  BY <1>7, BeginTyped DEF LoseRace, TypeOK
<1>8. ASSUME NEW c \in Clients, Outlasted(c) PROVE TypeOK'
  <2>1. own' \in [Clients -> BOOLEAN] /\ late' \in [Clients -> BOOLEAN]
    BY <1>8 DEF Outlasted, TypeOK
  <2> QED
    BY <1>8, <2>1, BeginTyped DEF Outlasted, TypeOK
<1>9. ASSUME NEW c \in Clients, RequestFails(c) PROVE TypeOK'
  <2>1. own' \in [Clients -> BOOLEAN]
    BY <1>9 DEF RequestFails, TypeOK
  <2> QED
    BY <1>9, <2>1 DEF RequestFails, Raise, TypeOK, api, seen
<1>10. ASSUME NEW c \in Clients, Assign(c) PROVE TypeOK'
  <2>1. CASE ~Taken /\ Add("wanted") /\ Give(c, next) /\ UNCHANGED own
    <3>1. "wanted" \in Names
      BY DEF Names
    <3>2. /\ name' \in [Ids -> Names \cup {"unborn", "gone"}]
          /\ next' \in 1..(MaxProjects + 1) /\ next \in Ids
          /\ grown' \in [Clients -> BOOLEAN]
      BY <2>1, <3>1, AddTyped
    <3>3. UNCHANGED <<newest, page, yields, early, shifted, late, own, error>>
      BY <1>10, <2>1 DEF Assign, Give
    <3>4. /\ pc' = [pc EXCEPT ![c] = "returned"]
          /\ result' = [result EXCEPT ![c] = next]
      BY <2>1 DEF Give
    <3> QED
      BY <3>2, <3>3, <3>4 DEF TypeOK
  <2>2. CASE Raise(c, "request") /\ UNCHANGED <<api, grown>>
             /\ (UNCHANGED own \/ own' = [own EXCEPT ![c] = TRUE])
    <3>1. own' \in [Clients -> BOOLEAN]
      BY <2>2 DEF TypeOK
    <3>2. UNCHANGED <<api, newest, page, yields, early, shifted, grown, late, result>>
      BY <1>10, <2>2 DEF Assign, Raise
    <3>3. /\ pc' = [pc EXCEPT ![c] = "raised"]
          /\ error' = [error EXCEPT ![c] = "request"]
      BY <2>2 DEF Raise
    <3> QED
      BY <3>1, <3>2, <3>3 DEF TypeOK, api
  <2> QED
    BY <1>10, <2>1, <2>2 DEF Assign
<1>11. ASSUME NEW c \in Clients, Execute(c) PROVE TypeOK'
  <2>1. CASE Add("wanted")
    <3>1. "wanted" \in Names
      BY DEF Names
    <3> QED
      BY <1>11, <2>1, <3>1, AddTyped DEF Execute, TypeOK
  <2>2. CASE UNCHANGED <<api, grown>>
    BY <1>11, <2>2 DEF Execute, TypeOK, api
  <2> QED
    BY <1>11, <2>1, <2>2 DEF Execute
<1>12. CASE Insert
  <2>1. "similar" \in Names
    BY DEF Names
  <2> QED
    BY <1>12, <2>1, AddTyped DEF Insert, TypeOK
<1>13. ASSUME NEW i \in Ids, Remove(i) PROVE TypeOK'
  BY <1>13 DEF Remove, TypeOK
<1>14. CASE UNCHANGED vars
  BY <1>14 DEF vars, api, seen, TypeOK
<1> QED
  BY <1>1, <1>2, <1>3, <1>4, <1>5, <1>6, <1>7, <1>8, <1>9, <1>10, <1>11, <1>12, <1>13, <1>14
     DEF Next, Step, Ended

(***************************************************************************)
(* The steps, by what they do to the catalog and to the scans.             *)
(***************************************************************************)

\* A step that begins a scan of c, and leaves the catalog alone.
Began(c) ==
  /\ pc[c] \in {"idle", "create"}
  /\ \E label \in {"read", "scan", "rescan"} :
       /\ BeginScan(c, label)
       /\ label = "rescan" => Taken \/ late'[c]
  /\ \A d \in Clients : d # c => newest'[d] = newest[d]
  /\ \A d \in Clients : late[d] => late'[d]
  /\ UNCHANGED <<api, result, error>>

\* A page of the scan of c yields S.
Paged(c, S) ==
  /\ Scanning(c) /\ S \subseteq Items(c) /\ Yield(c, S)
  /\ \A d \in Clients : d # c => pc'[d] = pc[d] /\ page'[d] = page[d]
  /\ UNCHANGED <<api, newest, early, shifted, grown, late>>

\* The scan goes on with the next page.
GoesOn(c, S) ==
  /\ Paged(c, S) /\ S = Items(c)
  /\ pc[c] = "rescan" => \A i \in S : ~Matches(i)
  /\ page'[c] = page[c] + 1
  /\ UNCHANGED <<pc, result, error>>

\* The scan found the project.
Found(c, S) == Paged(c, S) /\ \E i \in Items(c) : Matches(i) /\ Give(c, i)

\* The scan ends with the last page.
RunsOut(c, S) ==
  /\ Paged(c, S) /\ S = Items(c) /\ ~HasMore(page[c])
  /\ \/ pc[c] = "read" /\ pc'[c] = "returned" /\ UNCHANGED <<result, error>>
     \/ pc[c] = "scan" /\ pc'[c] = "create" /\ UNCHANGED <<result, error>>
     \/ pc[c] = "rescan" /\ Raise(c, "conflict") /\ \A i \in S : ~Matches(i)

\* A project is added; if it is the wanted one, its maker may return it.
Added ==
  /\ \E n \in Names :
       /\ Add(n)
       /\ n = "wanted" => ~Taken
       /\ \/ UNCHANGED <<pc, result>>
          \/ n = "wanted" /\ \E c \in Clients : pc[c] \in {"idle", "create"} /\ Give(c, next)
  /\ UNCHANGED <<newest, page, yields, early, shifted, late, error>>

\* A call ends, and nothing else changes.
Stopped ==
  /\ \/ UNCHANGED <<pc, error>>
     \/ \E c \in Clients : pc[c] \notin {"returned", "raised"} /\ Raise(c, "request")
  /\ UNCHANGED <<api, newest, page, seen, late, result>>

LEMMA Kinds ==
  ASSUME TypeOK, [Next]_vars
  PROVE  \/ \E c \in Clients : Began(c)
         \/ \E c \in Clients : \E S \in SUBSET Ids :
              GoesOn(c, S) \/ Found(c, S) \/ RunsOut(c, S)
         \/ Added \/ Stopped
         \/ \E i \in Ids : Remove(i)
<1> USE DEF TypeOK, api, seen
<1>1. ASSUME NEW c \in Clients, GetOrCreate(c) \/ Iterate(c) \/ LoseRace(c) \/ Outlasted(c)
      PROVE  Began(c)
  BY <1>1 DEF GetOrCreate, Iterate, LoseRace, Outlasted, Began
<1>2. ASSUME NEW c \in Clients PROVE Items(c) \subseteq Ids
  BY DEF Items, Live
<1>3. ASSUME NEW c \in Clients, Find(c) PROVE \E S \in SUBSET Ids : Found(c, S)
  <2>1. PICK i \in Items(c) : /\ Matches(i)
                              /\ Yield(c, {j \in Items(c) : j <= i})
                              /\ Give(c, i)
    BY <1>3 DEF Find
  <2>2. Found(c, {j \in Items(c) : j <= i})
    BY <1>3, <2>1 DEF Find, Found, Paged, Scanning, Give
  <2> QED
    BY <1>2, <2>2
<1>4. ASSUME NEW c \in Clients, Miss(c)
      PROVE  GoesOn(c, Items(c)) \/ RunsOut(c, Items(c))
  <2>1. CASE HasMore(page[c])
    BY <1>4, <2>1 DEF Miss, GoesOn, Paged, Scanning
  <2>2. CASE ~HasMore(page[c])
    BY <1>4, <2>2 DEF Miss, RunsOut, Paged, Scanning, Raise
  <2> QED
    BY <2>1, <2>2
<1>5. ASSUME NEW c \in Clients, Read(c)
      PROVE  GoesOn(c, Items(c)) \/ RunsOut(c, Items(c))
  <2>1. CASE HasMore(page[c])
    BY <1>5, <2>1 DEF Read, GoesOn, Paged, Scanning
  <2>2. CASE ~HasMore(page[c])
    BY <1>5, <2>2 DEF Read, RunsOut, Paged, Scanning
  <2> QED
    BY <2>1, <2>2
<1>6. ASSUME NEW c \in Clients, Create(c) PROVE Added
  BY <1>6 DEF Create, Added, Names, Give
<1>7. ASSUME NEW c \in Clients, Assign(c) PROVE Added \/ Stopped
  <2>1. CASE Raise(c, "request")
    BY <1>7, <2>1 DEF Assign, Stopped, Raise, Give
  <2>2. CASE ~Taken /\ Add("wanted") /\ Give(c, next)
    BY <1>7, <2>2 DEF Assign, Added, Names, Give
  <2> QED
    BY <1>7, <2>1, <2>2 DEF Assign
<1>8. ASSUME NEW c \in Clients, Execute(c) PROVE Added \/ Stopped
  <2>1. CASE ~Taken /\ Add("wanted")
    BY <1>8, <2>1 DEF Execute, Added, Names
  <2>2. CASE UNCHANGED <<api, grown>>
    BY <1>8, <2>2 DEF Execute, Stopped
  <2> QED
    BY <1>8, <2>1, <2>2 DEF Execute
<1>9. ASSUME NEW c \in Clients, RequestFails(c) PROVE Stopped
  BY <1>9 DEF RequestFails, Stopped, Raise
<1>10. CASE Insert
  BY <1>10 DEF Insert, Added, Names
<1>11. CASE UNCHANGED vars
  BY <1>11 DEF vars, Stopped
<1> QED
  BY <1>1, <1>2, <1>3, <1>4, <1>5, <1>6, <1>7, <1>8, <1>9, <1>10, <1>11
     DEF Next, Step, Ended

(***************************************************************************)
(* Names.                                                                  *)
(***************************************************************************)

\* Nothing is made, and nobody but c gets a result, which is the wanted one.
LEMMA NameSame ==
  ASSUME TypeOK, NameInv, UNCHANGED api,
         \A c \in Clients : result'[c] = result[c] \/
           (result'[c] \in Ids /\ name[result'[c]] = "wanted" /\ pc'[c] = "returned"),
         \A c \in Clients : pc[c] = "returned" => pc'[c] = "returned"
  PROVE  NameInv'
<1>1. name' = name /\ next' = next
  BY DEF api
<1>2. ASSUME NEW c \in Clients, NEW i \in Ids, name[i] = "wanted" PROVE result'[c] <= i
  BY <1>2 DEF NameInv, Ids
<1> QED
  BY <1>1, <1>2 DEF NameInv

LEMMA NameStep ==
  ASSUME TypeOK, TypeOK', NameInv, [Next]_vars
  PROVE  NameInv'
<1>1. ASSUME NEW c \in Clients, Began(c) PROVE NameInv'
  <2>1. UNCHANGED <<api, result>> /\ \A d \in Clients : pc[d] = "returned" => pc'[d] = "returned"
    BY <1>1 DEF Began, BeginScan, TypeOK
  <2> QED
    BY <2>1, NameSame
<1>2. ASSUME NEW c \in Clients, NEW S, GoesOn(c, S) \/ RunsOut(c, S) PROVE NameInv'
  <2>1. /\ UNCHANGED <<api, result>>
        /\ \A d \in Clients : pc[d] = "returned" => pc'[d] = "returned"
    BY <1>2 DEF GoesOn, RunsOut, Paged, Scanning, Raise
  <2> QED
    BY <2>1, NameSame
<1>3. ASSUME NEW c \in Clients, NEW S, Found(c, S) PROVE NameInv'
  <2>1. PICK i \in Items(c) : Matches(i) /\ Give(c, i)
    BY <1>3 DEF Found
  <2>2. i \in Ids /\ name[i] = "wanted"
    BY <2>1 DEF Items, Live, Matches
  <2>3. UNCHANGED api /\ \A d \in Clients : d # c => pc'[d] = pc[d]
    BY <1>3 DEF Found, Paged
  <2>4. /\ result'[c] = i /\ pc'[c] = "returned"
        /\ \A d \in Clients : d # c => result'[d] = result[d]
    BY <2>1 DEF Give, TypeOK
  <2> QED
    BY <2>2, <2>3, <2>4, NameSame
<1>4. CASE Added
  <2>1. PICK n \in Names :
          /\ Add(n)
          /\ n = "wanted" => ~Taken
          /\ \/ UNCHANGED <<pc, result>>
             \/ n = "wanted" /\ \E c \in Clients : pc[c] \in {"idle", "create"} /\ Give(c, next)
    BY <1>4 DEF Added
  <2>2. next \in Ids /\ next' = next + 1 /\ name'[next] = n
        /\ \A i \in Ids : i # next => name'[i] = name[i]
    BY <2>1 DEF Add, TypeOK
  <2>3. \A i \in Ids : i >= next => name[i] = "unborn"
    BY DEF NameInv
  <2>4. n # "unborn" /\ n # "gone"
    BY DEF Names
  <2>5. \A i \in Ids : name[i] = "wanted" => n # "wanted"
    BY <2>1 DEF Taken, Live, Names
  <2>6. \A c \in Clients : result[c] # 0 => result[c] \in Ids /\ result[c] < next
    <3>1. ASSUME NEW c \in Clients, result[c] # 0
          PROVE  result[c] \in Ids /\ name[result[c]] # "unborn"
      <4>1. result[c] \in Ids
        BY <3>1 DEF TypeOK
      <4>2. name[result[c]] \in {"wanted", "gone"}
        BY <3>1 DEF NameInv
      <4> QED
        BY <4>1, <4>2
    <3>2. next \in Int /\ \A i \in Ids : i \in Int
      BY DEF TypeOK, Ids
    <3>3. ASSUME NEW c \in Clients, result[c] # 0 PROVE result[c] < next
      <4>1. result[c] \in Ids /\ ~(result[c] >= next)
        BY <2>3, <3>1, <3>3
      <4> QED
        BY <3>2, <4>1
    <3> QED
      BY <3>1, <3>3
  <2>7. \A c \in Clients :
          \/ result'[c] = result[c] /\ pc'[c] = pc[c]
          \/ result'[c] = next /\ n = "wanted" /\ pc'[c] = "returned"
    <3>1. UNCHANGED <<pc, result>> => \A c \in Clients : result'[c] = result[c] /\ pc'[c] = pc[c]
      OBVIOUS
    <3>2. ASSUME NEW c \in Clients, Give(c, next), NEW d \in Clients
          PROVE  \/ result'[d] = result[d] /\ pc'[d] = pc[d]
                 \/ result'[d] = next /\ pc'[d] = "returned"
      BY <3>2 DEF Give, TypeOK
    <3> QED
      BY <2>1, <3>1, <3>2
  <2>8. \A i \in Ids : i >= next' => name'[i] = "unborn"
    BY <2>2, <2>3 DEF Ids
  <2>9. \A i, j \in Ids : name'[i] = "wanted" /\ name'[j] = "wanted" => i = j
    BY <2>2, <2>5 DEF NameInv
  <2>10. ASSUME NEW c \in Clients, result'[c] # 0
         PROVE  name'[result'[c]] \in {"wanted", "gone"} /\ pc'[c] = "returned"
    BY <2>2, <2>6, <2>7, <2>10 DEF NameInv, Ids
  <2>11. ASSUME NEW c \in Clients, NEW i \in Ids, name'[i] = "wanted" PROVE result'[c] <= i
    <3>1. CASE n = "wanted"
      <4>1. i = next
        BY <2>2, <2>5, <2>11, <3>1
      <4> QED
        <5>1. result'[c] = result[c] \/ result'[c] = next
          BY <2>7
        <5>2. result[c] = 0 \/ result[c] < next
          BY <2>6
        <5>3. result[c] \in Int /\ next \in Nat \ {0}
          BY DEF TypeOK, Ids
        <5> QED
          BY <4>1, <5>1, <5>2, <5>3
    <3>2. CASE n # "wanted"
      BY <2>2, <2>7, <2>11, <3>2 DEF NameInv
    <3> QED
      BY <3>1, <3>2
  <2> QED
    BY <2>8, <2>9, <2>10, <2>11 DEF NameInv
<1>5. CASE Stopped
  <2>1. /\ UNCHANGED <<api, result>>
        /\ \A d \in Clients : pc[d] = "returned" => pc'[d] = "returned"
    BY <1>5 DEF Stopped, Raise, TypeOK
  <2> QED
    BY <2>1, NameSame
<1>6. ASSUME NEW i \in Ids, Remove(i) PROVE NameInv'
  <2>1. /\ name' = [name EXCEPT ![i] = "gone"] /\ next' = next /\ result' = result
        /\ pc' = pc /\ name[i] # "unborn"
    BY <1>6 DEF Remove, Live, Names
  <2> QED
    BY <2>1 DEF NameInv, TypeOK
<1> QED
  BY <1>1, <1>2, <1>3, <1>4, <1>5, <1>6, Kinds

(***************************************************************************)
(* What the scans have seen.                                               *)
(***************************************************************************)

LEMMA SeenStep ==
  ASSUME TypeOK, TypeOK', NameInv, SeenInv, [Next]_vars
  PROVE  SeenInv'
<1>1. Live \subseteq {i \in Ids : i < next}
  BY DEF NameInv, Live, Names, TypeOK, Ids
<1>2. ASSUME NEW c \in Clients, Began(c) PROVE SeenInv'
  BY <1>1, <1>2 DEF Began, BeginScan, SeenInv, TypeOK, api, Live
<1>3. ASSUME NEW c \in Clients, NEW S, GoesOn(c, S) \/ Found(c, S) \/ RunsOut(c, S)
      PROVE  SeenInv'
  <2>1. Paged(c, S)
    BY <1>3 DEF GoesOn, Found, RunsOut
  <2>2. UNCHANGED <<api, early, shifted>> /\ Live' = Live /\ S \subseteq Live
    BY <2>1 DEF Paged, api, Live, Items
  <2>3. \A d \in Clients, i \in Ids : yields'[d][i] > 0 => yields[d][i] > 0 \/ i \in S
    BY <2>1, YieldTyped DEF Paged
  <2>4. \A d \in Clients : error'[d] = "conflict" => pc'[d] = "raised"
    BY <1>3, <2>1 DEF GoesOn, Found, RunsOut, Paged, Scanning, SeenInv, Give, Raise, TypeOK
  <2> QED
    BY <1>1, <2>2, <2>3, <2>4 DEF SeenInv, api
<1>4. CASE Added
  <2>1. /\ UNCHANGED <<yields, early, shifted, error>> /\ next' = next + 1 /\ Live \subseteq Live'
        /\ \A c \in Clients : pc[c] = "raised" => pc'[c] = "raised"
    BY <1>4 DEF Added, Add, Live, Names, Give, TypeOK
  <2>2. next \in Int /\ \A i \in Ids : i \in Int
    BY DEF TypeOK, Ids
  <2>3. ASSUME NEW c \in Clients, NEW i \in Ids, yields'[c][i] > 0 \/ i \in early'[c]
        PROVE  i < next'
    BY <2>1, <2>2, <2>3 DEF SeenInv
  <2>4. ASSUME NEW c \in Clients
        PROVE  /\ ~shifted'[c] => early'[c] \subseteq Live'
               /\ error'[c] = "conflict" => pc'[c] = "raised"
    BY <2>1 DEF SeenInv
  <2> QED
    BY <2>3, <2>4 DEF SeenInv
<1>5. CASE Stopped
  BY <1>5 DEF Stopped, Raise, SeenInv, TypeOK, api, seen, Live
<1>6. ASSUME NEW i \in Ids, Remove(i) PROVE SeenInv'
  BY <1>6 DEF Remove, SeenInv, TypeOK
<1> QED
  BY <1>2, <1>3, <1>4, <1>5, <1>6, Kinds

(***************************************************************************)
(* Places of the scans.                                                    *)
(***************************************************************************)

LEMMA SamePlace ==
  ASSUME name' = name, NEW c \in Clients, newest'[c] = newest[c], NEW i
  PROVE  /\ Live' = Live /\ Rank(c, i)' = Rank(c, i)
         /\ page'[c] = page[c] => (Passed(c, i)' <=> Passed(c, i))
<1>1. Live' = Live
  BY DEF Live
<1>2. Rank(c, i)' = Rank(c, i)
  BY <1>1 DEF Rank
<1> QED
  BY <1>1, <1>2 DEF Passed

\* One scan's part of the invariant.
ScanAt(c, i) ==
  Scanning(c) /\ i \in Live =>
    /\ yields[c][i] > 0 => Passed(c, i) \/ (newest[c] /\ grown[c])
    /\ i \in early[c] /\ Passed(c, i) => yields[c][i] > 0 \/ shifted[c]

LEMMA ScanSame ==
  ASSUME ScanInv, name' = name, NEW c \in Clients, newest'[c] = newest[c], pc'[c] = pc[c],
         page'[c] = page[c], yields'[c] = yields[c], early'[c] = early[c],
         shifted'[c] = shifted[c], grown'[c] = grown[c], NEW i \in Ids
  PROVE  ScanAt(c, i)'
  BY SamePlace DEF ScanInv, ScanAt, Scanning

LEMMA ScanStep ==
  ASSUME TypeOK, TypeOK', NameInv, SeenInv, ScanInv, [Next]_vars
  PROVE  ScanInv'
<1> SUFFICES ASSUME NEW d \in Clients, NEW i \in Ids PROVE ScanAt(d, i)'
  BY DEF ScanInv, ScanAt
<1>1. ASSUME NEW c \in Clients, Began(c) PROVE ScanAt(d, i)'
  <2>1. CASE d = c
    <3>1. page'[c] = 1 /\ yields'[c][i] = 0
      BY <1>1 DEF Began, BeginScan, TypeOK
    <3>2. ASSUME i \in Live' PROVE ~Passed(c, i)'
      <4>1. Live' \subseteq Ids
        BY DEF Live
      <4>2. Rank(c, i)' \in Nat
        BY <3>2, <4>1, PlaceBound DEF Rank
      <4>3. Rank(c, i)' \div PageSize \in Nat
        BY <4>2, DivMonotone
      <4> QED
        BY <3>1, <4>3 DEF Passed
    <3> QED
      BY <2>1, <3>1, <3>2 DEF ScanAt
  <2>2. CASE d # c
    <3>1. PICK label : BeginScan(c, label)
      BY <1>1 DEF Began
    <3>2. name' = name /\ newest'[d] = newest[d]
      BY <1>1, <2>2 DEF Began, api
    <3>3. /\ pc'[d] = pc[d] /\ page'[d] = page[d] /\ yields'[d] = yields[d]
          /\ early'[d] = early[d] /\ shifted'[d] = shifted[d]
      BY <2>2, <3>1 DEF BeginScan, TypeOK
    <3>4. grown'[d] = grown[d]
      BY <2>2, <3>1 DEF BeginScan, TypeOK
    <3> QED
      BY <3>2, <3>3, <3>4, ScanSame
  <2> QED
    BY <2>1, <2>2
<1>2. ASSUME NEW c \in Clients, NEW S, GoesOn(c, S) PROVE ScanAt(d, i)'
  <2>1. /\ Paged(c, S) /\ S = Items(c) /\ page'[c] = page[c] + 1 /\ pc' = pc
        /\ UNCHANGED <<api, newest, early, shifted, grown>>
    BY <1>2 DEF GoesOn, Paged
  <2>2. CASE d = c
    <3> SUFFICES ASSUME Scanning(c)', i \in Live' PROVE ScanAt(c, i)'
      BY <2>2 DEF ScanAt
    <3>1. name' = name /\ newest'[c] = newest[c] /\ i \in Live /\ Scanning(c)
      BY <2>1 DEF api, Live, Scanning
    <3>2. Rank(c, i)' = Rank(c, i) /\ Rank(c, i) \in Nat
      BY <3>1, SamePlace, RankBound
    <3>3. Rank(c, i) \div PageSize \in Nat
      BY <3>2, DivMonotone
    <3>4. page[c] \in Nat
      BY DEF TypeOK
    <3>5. Passed(c, i)' <=> Passed(c, i) \/ i \in Items(c)
      BY <2>1, <3>1, <3>2, <3>3, <3>4 DEF Passed, Items
    <3>6. yields'[c][i] = IF i \in Items(c) THEN yields[c][i] + 1 ELSE yields[c][i]
      BY <2>1, YieldTyped DEF Paged
    <3>7. yields[c][i] \in Nat
      BY DEF TypeOK
    <3>8. /\ yields[c][i] > 0 => Passed(c, i) \/ (newest[c] /\ grown[c])
          /\ i \in early[c] /\ Passed(c, i) => yields[c][i] > 0 \/ shifted[c]
      BY <3>1 DEF ScanInv
    <3> QED
      BY <2>1, <3>5, <3>6, <3>7, <3>8 DEF ScanAt
  <2>3. CASE d # c
    <3>1. page'[d] = page[d] /\ yields'[d] = yields[d]
      BY <2>1, <2>3, YieldTyped DEF Paged
    <3> QED
      BY <2>1, <3>1, ScanSame DEF api
  <2> QED
    BY <2>2, <2>3
<1>3. ASSUME NEW c \in Clients, NEW S, Found(c, S) \/ RunsOut(c, S) PROVE ScanAt(d, i)'
  <2>1. Paged(c, S)
    BY <1>3 DEF Found, RunsOut
  <2>2. CASE d = c
    BY <1>3, <2>2 DEF Found, RunsOut, Paged, Give, Raise, Scanning, ScanAt, TypeOK
  <2>3. CASE d # c
    <3>1. page'[d] = page[d] /\ pc'[d] = pc[d] /\ yields'[d] = yields[d]
      BY <2>1, <2>3, YieldTyped DEF Paged
    <3>2. UNCHANGED <<api, newest, early, shifted, grown>>
      BY <2>1 DEF Paged
    <3> QED
      BY <3>1, <3>2, ScanSame DEF api
  <2> QED
    BY <2>2, <2>3
<1>4. CASE Added
  <2> SUFFICES ASSUME Scanning(d)', i \in Live' PROVE ScanAt(d, i)'
    BY DEF ScanAt
  <2>1. PICK n \in Names : Add(n)
    BY <1>4 DEF Added
  <2>2. UNCHANGED <<newest, page, yields, early, shifted>> /\ grown'[d]
    BY <1>4, <2>1 DEF Added, Add
  <2>3. Scanning(d)
    BY <1>4 DEF Added, Give, Scanning, TypeOK
  <2>4. CASE i = next
    <3>1. ~(yields[d][i] > 0) /\ i \notin early[d]
      BY <2>4 DEF SeenInv, Ids
    <3> QED
      BY <2>2, <3>1 DEF ScanAt
  <2>5. CASE i # next
    <3>1. i \in Live
      BY <2>1, <2>5 DEF Live, Add, TypeOK
    <3>2. /\ Rank(d, i) \in Nat /\ Rank(d, i)' \in Nat /\ Rank(d, i) <= Rank(d, i)'
          /\ ~newest[d] => Rank(d, i)' = Rank(d, i)
      BY <2>1, <2>2, <3>1, RankAfterAdd, RankBound
    <3>3. /\ Rank(d, i) \div PageSize \in Nat /\ Rank(d, i)' \div PageSize \in Nat
          /\ Rank(d, i) \div PageSize <= Rank(d, i)' \div PageSize
      BY <3>2, DivMonotone
    <3>4. /\ Passed(d, i)' => Passed(d, i)
          /\ ~newest[d] /\ Passed(d, i) => Passed(d, i)'
      BY <2>2, <3>2, <3>3 DEF Passed, TypeOK
    <3> QED
      BY <2>2, <2>3, <3>1, <3>4 DEF ScanInv, ScanAt
  <2> QED
    BY <2>4, <2>5
<1>5. CASE Stopped
  <2>1. UNCHANGED <<api, newest, page, seen>> /\ (pc'[d] = pc[d] \/ pc'[d] = "raised")
    BY <1>5 DEF Stopped, Raise, TypeOK
  <2>2. CASE pc'[d] = pc[d]
    BY <2>1, <2>2, ScanSame DEF api, seen
  <2>3. CASE pc'[d] = "raised"
    BY <2>3 DEF ScanAt, Scanning
  <2> QED
    BY <2>1, <2>2, <2>3
<1>6. ASSUME NEW k \in Ids, Remove(k) PROVE ScanAt(d, i)'
  <2> SUFFICES ASSUME Scanning(d)', i \in Live' PROVE ScanAt(d, i)'
    BY DEF ScanAt
  <2>1. /\ name' = [name EXCEPT ![k] = "gone"] /\ shifted'[d]
        /\ UNCHANGED <<pc, newest, page, yields, early, grown>>
    BY <1>6 DEF Remove
  <2>2. i \in Live /\ Rank(d, i)' \in Nat /\ Rank(d, i)' <= Rank(d, i)
    BY <2>1, RankAfterRemove
  <2>3. Rank(d, i) \in Nat
    BY <2>2, RankBound
  <2>4. /\ Rank(d, i) \div PageSize \in Nat /\ Rank(d, i)' \div PageSize \in Nat
        /\ Rank(d, i)' \div PageSize <= Rank(d, i) \div PageSize
    BY <2>2, <2>3, DivMonotone
  <2>5. Passed(d, i) => Passed(d, i)'
    BY <2>1, <2>4 DEF Passed, TypeOK
  <2> QED
    BY <2>1, <2>2, <2>5 DEF ScanInv, ScanAt, Scanning
<1> QED
  BY <1>1, <1>2, <1>3, <1>4, <1>5, <1>6, Kinds

\* At the end of a scan that nothing disturbed, everything has been yielded.
LEMMA AllYielded ==
  ASSUME TypeOK, SeenInv, ScanInv, NEW c \in Clients, Scanning(c), ~HasMore(page[c]),
         ~shifted[c], NEW i \in early[c]
  PROVE  i \in Live /\ (yields[c][i] > 0 \/ i \in Items(c))
<1>1. i \in Live /\ i \in Ids
  BY DEF SeenInv, TypeOK
<1>2. Passed(c, i) \/ i \in Items(c)
  BY <1>1, LastPage
<1> QED
  BY <1>1, <1>2 DEF ScanInv

\* A scan is no call that has ended, or is about to create.
LEMMA NotEnded ==
  ASSUME SeenInv, NEW c \in Clients, pc[c] # "raised"
  PROVE  error[c] # "conflict"
  BY DEF SeenInv

\* What a page changes.
LEMMA PagedFacts ==
  ASSUME TypeOK, NEW c \in Clients, NEW S, Paged(c, S)
  PROVE  /\ name' = name
         /\ UNCHANGED <<newest, early, shifted, grown, late>>
         /\ \A d \in Clients : d # c => yields'[d] = yields[d] /\ pc'[d] = pc[d]
         /\ \A i \in Ids : yields'[c][i] = IF i \in S THEN yields[c][i] + 1 ELSE yields[c][i]
         /\ \A i \in Ids : yields[c][i] \in Nat
         /\ S \subseteq Items(c) /\ Items(c) \subseteq Live /\ Live \subseteq Ids
<1>1. \A i \in Ids : yields[c][i] \in Nat
  BY DEF TypeOK
<1> QED
  BY <1>1, YieldTyped DEF Paged, api, Items, Live

\* What the beginning of a scan leaves to the others, and what it resets.
LEMMA BeganFacts ==
  ASSUME TypeOK, NEW c \in Clients, Began(c)
  PROVE  /\ name' = name /\ error' = error /\ result' = result
         /\ \A d \in Clients : d # c =>
              /\ newest'[d] = newest[d] /\ pc'[d] = pc[d] /\ yields'[d] = yields[d]
              /\ early'[d] = early[d] /\ shifted'[d] = shifted[d] /\ grown'[d] = grown[d]
         /\ \A d \in Clients : late[d] => late'[d]
         /\ pc[c] \in {"idle", "create"} /\ pc'[c] \in {"read", "scan", "rescan"}
         /\ early'[c] = Live
         /\ \A i \in Ids : yields'[c][i] = 0
         /\ pc'[c] = "rescan" => Taken \/ late'[c]
<1>1. PICK label \in {"read", "scan", "rescan"} :
        BeginScan(c, label) /\ (label = "rescan" => Taken \/ late'[c])
  BY DEF Began
<1>2. \A d \in Clients : d # c =>
        /\ pc'[d] = pc[d] /\ yields'[d] = yields[d]
        /\ early'[d] = early[d] /\ shifted'[d] = shifted[d]
  BY <1>1 DEF BeginScan, TypeOK
<1>3. \A d \in Clients : d # c => grown'[d] = grown[d]
  BY <1>1 DEF BeginScan, TypeOK
<1>4. pc'[c] = label /\ early'[c] = Live /\ \A i \in Ids : yields'[c][i] = 0
  BY <1>1 DEF BeginScan, TypeOK
<1> QED
  BY <1>1, <1>2, <1>3, <1>4 DEF Began, api

LEMMA WinnerStep ==
  ASSUME TypeOK, TypeOK', NameInv, SeenInv, WinnerInv, [Next]_vars
  PROVE  WinnerInv'
<1> DEFINE At(d) == pc[d] = "rescan" =>
                      \/ shifted[d] \/ (late[d] /\ NoWinner(d))
                      \/ \E i \in early[d] : name[i] = "wanted" /\ yields[d][i] = 0
<1> SUFFICES ASSUME NEW d \in Clients PROVE At(d)'
  BY DEF WinnerInv
<1>1. At(d)
  BY DEF WinnerInv
<1>2. ASSUME NEW c \in Clients, Began(c) PROVE At(d)'
  <2>1. CASE d = c
    <3>1. Taken => \E i \in Live : i \in Ids /\ name[i] = "wanted"
      BY DEF Taken, Live
    <3>2. ~Taken => NoWinner(d)'
      BY <1>2, <2>1, BeganFacts DEF NoWinner, Taken
    <3> QED
      BY <1>2, <2>1, <3>1, <3>2, BeganFacts
  <2>2. CASE d # c
    BY <1>1, <1>2, <2>2, BeganFacts DEF NoWinner
  <2> QED
    BY <2>1, <2>2
<1>3. ASSUME NEW c \in Clients, NEW S, GoesOn(c, S) PROVE At(d)'
  <2>1. Paged(c, S) /\ pc' = pc /\ (pc[c] = "rescan" => \A i \in S : ~Matches(i))
    BY <1>3 DEF GoesOn
  <2>2. early[d] \subseteq Ids
    BY DEF TypeOK
  <2> QED
    BY <1>1, <2>1, <2>2, PagedFacts DEF Matches, NoWinner
<1>4. ASSUME NEW c \in Clients, NEW S, Found(c, S) \/ RunsOut(c, S) PROVE At(d)'
  <2>1. Paged(c, S) /\ pc'[c] # "rescan"
    BY <1>4 DEF Found, RunsOut, Give, Raise, TypeOK
  <2> QED
    BY <1>1, <2>1, PagedFacts DEF NoWinner
<1>5. CASE Added
  <2>1. \A i \in early[d] : i \in Ids /\ i # next
    BY DEF SeenInv, TypeOK, Ids
  <2>2. \A i \in Ids : i # next => name'[i] = name[i]
    BY <1>5 DEF Added, Add, TypeOK
  <2>3. UNCHANGED <<yields, early, shifted, late>> /\ (pc'[d] = pc[d] \/ pc'[d] = "returned")
    BY <1>5 DEF Added, Give, TypeOK
  <2> QED
    BY <1>1, <2>1, <2>2, <2>3 DEF NoWinner
<1>6. CASE Stopped
  <2>1. UNCHANGED <<api, seen, late>> /\ (pc'[d] = pc[d] \/ pc'[d] = "raised")
    BY <1>6 DEF Stopped, Raise, TypeOK
  <2> QED
    BY <1>1, <2>1 DEF api, seen, NoWinner
<1>7. ASSUME NEW k \in Ids, Remove(k) PROVE At(d)'
  BY <1>7 DEF Remove
<1> QED
  BY <1>2, <1>3, <1>4, <1>5, <1>6, <1>7, Kinds

(***************************************************************************)
(* The properties.                                                         *)
(***************************************************************************)

LEMMA RaceStep ==
  ASSUME TypeOK, TypeOK', NameInv, SeenInv, ScanInv, WinnerInv, RaceIsResolved, [Next]_vars
  PROVE  RaceIsResolved'
<1> DEFINE Excused(d) == shifted[d] \/ (late[d] /\ NoWinner(d))
<1> SUFFICES ASSUME NEW d \in Clients, error'[d] = "conflict" PROVE Excused(d)'
  BY DEF RaceIsResolved
<1>1. error[d] = "conflict" => Excused(d) /\ pc[d] = "raised"
  BY DEF RaceIsResolved, SeenInv
<1>2. ASSUME NEW c \in Clients, Began(c) PROVE Excused(d)'
  BY <1>1, <1>2, BeganFacts DEF NoWinner
<1>3. ASSUME NEW c \in Clients, NEW S, GoesOn(c, S) \/ Found(c, S)
      PROVE  Excused(d)'
  BY <1>1, <1>3 DEF GoesOn, Found, Paged, Give, NoWinner, api
<1>4. ASSUME NEW c \in Clients, NEW S, RunsOut(c, S) PROVE Excused(d)'
  <2>1. Paged(c, S) /\ UNCHANGED <<name, early, shifted, late>>
    BY <1>4 DEF RunsOut, Paged, api
  <2>2. CASE error[d] = "conflict"
    BY <1>1, <2>1, <2>2 DEF NoWinner
  <2>3. CASE error[d] # "conflict"
    <3>1. d = c /\ pc[c] = "rescan" /\ S = Items(c) /\ ~HasMore(page[c])
          /\ \A i \in S : ~Matches(i)
      BY <1>4, <2>3 DEF RunsOut, Raise, TypeOK
    <3> SUFFICES ASSUME ~Excused(c) PROVE FALSE
      BY <2>1, <3>1 DEF NoWinner
    <3>2. PICK i \in early[c] : name[i] = "wanted" /\ yields[c][i] = 0
      BY <3>1 DEF WinnerInv
    <3>3. i \in Items(c)
      BY <3>1, <3>2, AllYielded DEF Scanning
    <3> QED
      BY <3>1, <3>2, <3>3 DEF Matches
  <2> QED
    BY <2>2, <2>3
<1>5. CASE Added
  <2>1. \A i \in early[d] : i \in Ids /\ i # next
    BY DEF SeenInv, TypeOK, Ids
  <2>2. \A i \in Ids : i # next => name'[i] = name[i]
    BY <1>5 DEF Added, Add, TypeOK
  <2> QED
    BY <1>1, <1>5, <2>1, <2>2 DEF Added, NoWinner
<1>6. CASE Stopped
  BY <1>1, <1>6 DEF Stopped, Raise, seen, api, TypeOK, NoWinner
<1>7. ASSUME NEW k \in Ids, Remove(k) PROVE Excused(d)'
  BY <1>7 DEF Remove
<1> QED
  BY <1>2, <1>3, <1>4, <1>5, <1>6, <1>7, Kinds

LEMMA YieldsStep ==
  ASSUME TypeOK, TypeOK', ScanInv, YieldsOnce, [Next]_vars
  PROVE  YieldsOnce'
<1> SUFFICES ASSUME NEW d \in Clients, NEW i \in Ids, yields'[d][i] > 1
             PROVE  newest'[d] /\ grown'[d]
  BY DEF YieldsOnce
<1>1. yields[d][i] > 1 => newest[d] /\ grown[d]
  BY DEF YieldsOnce
<1>2. ASSUME NEW c \in Clients, Began(c) PROVE newest'[d] /\ grown'[d]
  BY <1>1, <1>2, BeganFacts
<1>3. ASSUME NEW c \in Clients, NEW S, Paged(c, S) PROVE newest'[d] /\ grown'[d]
  <2>1. CASE yields[d][i] > 1
    BY <1>1, <1>3, <2>1, PagedFacts
  <2>2. CASE ~(yields[d][i] > 1)
    <3>1. d = c /\ i \in S
      BY <1>3, <2>2, PagedFacts
    <3>2. yields[c][i] > 0 /\ i \in Items(c) /\ i \in Live
      BY <1>3, <3>1, PagedFacts
    <3>3. Rank(c, i) \div PageSize = page[c] - 1 /\ page[c] \in Nat
      BY <3>2 DEF Items, TypeOK
    <3>4. ~Passed(c, i)
      BY <3>3 DEF Passed
    <3>5. newest[c] /\ grown[c]
      BY <1>3, <3>2, <3>4 DEF ScanInv, Paged
    <3> QED
      BY <1>3, <3>1, <3>5, PagedFacts
  <2> QED
    BY <2>1, <2>2
<1>4. CASE Added
  BY <1>1, <1>4 DEF Added, Add
<1>5. CASE Stopped
  BY <1>1, <1>5 DEF Stopped, seen
<1>6. ASSUME NEW k \in Ids, Remove(k) PROVE newest'[d] /\ grown'[d]
  BY <1>1, <1>6 DEF Remove
<1> QED
  BY <1>2, <1>3, <1>4, <1>5, <1>6, Kinds DEF GoesOn, Found, RunsOut

\* The call's scan has come to its end.
Complete(c) ==
  \/ pc[c] = "create" \/ error[c] = "conflict"
  \/ pc[c] = "returned" /\ result[c] = 0

LEMMA SkipsStep ==
  ASSUME TypeOK, TypeOK', SeenInv, ScanInv, SkipsNothing, [Next]_vars
  PROVE  SkipsNothing'
<1> SUFFICES ASSUME NEW d \in Clients, Complete(d)', ~shifted'[d]
             PROVE  \A i \in early'[d] : yields'[d][i] > 0
  BY DEF SkipsNothing, Complete
<1> DEFINE Goal == \A i \in early'[d] : yields'[d][i] > 0
<1>1. Complete(d) => shifted[d] \/ \A i \in early[d] : yields[d][i] > 0
  BY DEF SkipsNothing, Complete
<1>2. ASSUME NEW c \in Clients, Began(c) PROVE Goal
  <2>1. CASE d = c
    <3>1. error[c] # "conflict"
      BY <1>2, BeganFacts, NotEnded
    <3> QED
      BY <1>2, <2>1, <3>1, BeganFacts DEF Complete
  <2>2. CASE d # c
    BY <1>1, <1>2, <2>2, BeganFacts DEF Complete
  <2> QED
    BY <2>1, <2>2
<1>3. ASSUME NEW c \in Clients, NEW S, GoesOn(c, S) PROVE Goal
  <2>1. Paged(c, S) /\ UNCHANGED <<pc, result, error>> /\ Scanning(c)
    BY <1>3 DEF GoesOn, Paged
  <2>2. d # c
    BY <2>1, NotEnded DEF Complete, Scanning
  <2> QED
    BY <1>1, <2>1, <2>2, PagedFacts DEF Complete
<1>4. ASSUME NEW c \in Clients, NEW S, Found(c, S) PROVE Goal
  <2>1. Paged(c, S) /\ error' = error /\ Scanning(c)
    BY <1>4 DEF Found, Paged, Give
  <2>2. pc'[c] = "returned" /\ result'[c] # 0 /\ \A e \in Clients : e # c => result'[e] = result[e]
    BY <1>4 DEF Found, Give, Items, Live, Ids, TypeOK
  <2>3. d # c
    BY <2>1, <2>2, NotEnded DEF Complete, Scanning
  <2> QED
    BY <1>1, <2>1, <2>2, <2>3, PagedFacts DEF Complete
<1>5. ASSUME NEW c \in Clients, NEW S, RunsOut(c, S) PROVE Goal
  <2>1. Paged(c, S) /\ Scanning(c) /\ S = Items(c) /\ ~HasMore(page[c]) /\ result' = result
    BY <1>5 DEF RunsOut, Paged, Raise
  <2>2. CASE d = c
    <3>1. \A i \in early[c] : i \in Ids /\ (yields[c][i] > 0 \/ i \in Items(c))
      BY <1>5, <2>1, <2>2, AllYielded, PagedFacts
    <3> QED
      BY <2>1, <2>2, <3>1, PagedFacts
  <2>3. CASE d # c
    <3>1. error'[d] = error[d]
      BY <1>5, <2>3 DEF RunsOut, Raise, TypeOK
    <3> QED
      BY <1>1, <2>1, <2>3, <3>1, PagedFacts DEF Complete
  <2> QED
    BY <2>2, <2>3
<1>6. CASE Added
  <2>1. UNCHANGED <<yields, early, shifted, error>>
    BY <1>6 DEF Added
  <2>2. \/ pc'[d] = pc[d] /\ result'[d] = result[d]
        \/ pc'[d] = "returned" /\ result'[d] = next /\ pc[d] # "raised"
    BY <1>6 DEF Added, Give, TypeOK
  <2>3. next # 0
    BY DEF TypeOK
  <2>4. Complete(d)
    BY <2>1, <2>2, <2>3, NotEnded DEF Complete
  <2> QED
    BY <1>1, <2>1, <2>4
<1>7. CASE Stopped
  <2>1. UNCHANGED <<yields, early, shifted, result>>
    BY <1>7 DEF Stopped, seen
  <2>2. \/ pc'[d] = pc[d] /\ error'[d] = error[d]
        \/ pc'[d] = "raised" /\ error'[d] = "request"
    BY <1>7 DEF Stopped, Raise, TypeOK
  <2> QED
    BY <1>1, <2>1, <2>2 DEF Complete
<1>8. ASSUME NEW k \in Ids, Remove(k) PROVE Goal
  BY <1>8 DEF Remove
<1> QED
  BY <1>2, <1>3, <1>4, <1>5, <1>6, <1>7, <1>8, Kinds

LEMMA InitInv == Init => IInv
<1> SUFFICES ASSUME Init PROVE IInv
  OBVIOUS
<1>1. TypeOK
  BY DivMonotone DEF Init, TypeOK, Ids
<1>2. NameInv /\ SeenInv
  BY <1>1 DEF Init, NameInv, SeenInv, Ids
<1>3. ScanInv /\ WinnerInv
  BY DEF Init, ScanInv, WinnerInv, Scanning
<1>4. RaceIsResolved /\ YieldsOnce /\ SkipsNothing
  BY DEF Init, RaceIsResolved, YieldsOnce, SkipsNothing
<1> QED
  BY <1>1, <1>2, <1>3, <1>4 DEF IInv

LEMMA NextInv == IInv /\ [Next]_vars => IInv'
<1> SUFFICES ASSUME IInv, [Next]_vars PROVE IInv'
  OBVIOUS
<1> USE DEF IInv
<1>1. TypeOK'
  BY TypeStep
<1> QED
  BY <1>1, NameStep, SeenStep, ScanStep, WinnerStep, RaceStep, YieldsStep, SkipsStep

LEMMA Inductive == Spec => []IInv
  BY InitInv, NextInv, PTL DEF Spec

(***************************************************************************)
(* Theorems.                                                               *)
(***************************************************************************)

\* The model of the catalog keeps its types; no page number is out of range.
THEOREM TypeCorrect == Spec => []TypeOK
<1>1. IInv => TypeOK
  BY DEF IInv
<1> QED
  BY <1>1, Inductive, PTL

\* Any number of callers of get_or_create with one name get one project.
THEOREM OneProjectHolds == Spec => []OneProject
<1>1. IInv => OneProject
  <2> SUFFICES ASSUME IInv, NEW c \in Clients, NEW d \in Clients,
                      result[c] # 0, result[d] # 0
               PROVE  /\ name[result[c]] \in {"wanted", "gone"}
                      /\ result[c] < result[d] => name[result[c]] = "gone"
    BY DEF OneProject
  <2>1. name[result[c]] \in {"wanted", "gone"}
    BY DEF IInv, NameInv
  <2>2. result[c] \in Ids /\ result[d] \in Ids /\ \A i \in Ids : i \in Int
    BY DEF IInv, TypeOK, Ids
  <2>3. name[result[c]] = "wanted" => result[d] <= result[c]
    BY <2>2 DEF IInv, NameInv
  <2> QED
    BY <2>1, <2>2, <2>3
<1> QED
  BY <1>1, Inductive, PTL

\* A lost race is resolved, however many pages there are to look through for
\* the winner, unless projects are removed or there is no winner.
THEOREM RaceIsResolvedHolds == Spec => []RaceIsResolved
<1>1. IInv => RaceIsResolved
  BY DEF IInv
<1> QED
  BY <1>1, Inductive, PTL

\* iterate yields nothing twice, for any page size and any changes between
\* pages, unless it reads newest first and something is added.
THEOREM YieldsOnceHolds == Spec => []YieldsOnce
<1>1. IInv => YieldsOnce
  BY DEF IInv
<1> QED
  BY <1>1, Inductive, PTL

\* A scan that ends has yielded all that was there when it began, for any page
\* size and in either order, unless something was removed.
THEOREM SkipsNothingHolds == Spec => []SkipsNothing
<1>1. IInv => SkipsNothing
  BY DEF IInv
<1> QED
  BY <1>1, Inductive, PTL

(***************************************************************************)
(* The length of a call.                                                   *)
(***************************************************************************)

\* The most pages that a search can have.
Pages == 1 + MaxProjects \div PageSize

\* How many more requests a call can make: a scan asks for the rest of its pages,
\* then there are the creation, and the pages of the second look.
RequestsLeft(c) ==
  CASE pc[c] = "scan"              -> 2 * Pages + 2 - page[c]
    [] pc[c] = "create"            -> Pages + 1
    [] pc[c] \in {"read", "rescan"} -> Pages + 1 - page[c]
    [] OTHER                       -> 0

\* get_or_create makes at most 2 * Pages + 1 requests, and iterate at most Pages,
\* however the catalog changes under them and whoever wins the races: every step
\* of the call uses up one, nobody else's gives one back, and a caller who loses
\* looks once more and does not create again (_get_or_create, iterate_offset).
RequestsAreBounded ==
  [][\A c \in Clients :
       \/ UNCHANGED <<pc[c], page[c], yields[c], result[c], error[c]>>
       \/ pc[c] = "idle" /\ RequestsLeft(c)' \in 0..(2 * Pages + 1)
       \/ RequestsLeft(c)' \in 0..(RequestsLeft(c) - 1)]_vars

Bystander(d) == UNCHANGED <<pc[d], page[d], yields[d], result[d], error[d]>>

LEMMA LeftTyped ==
  ASSUME TypeOK, NEW c \in Clients
  PROVE  /\ Pages \in Nat \ {0} /\ page[c] \in 1..Pages
         /\ RequestsLeft(c) \in 0..(2 * Pages + 1)
         /\ pc[c] \in {"read", "scan", "create", "rescan"} => RequestsLeft(c) > 0
<1>1. Pages \in Nat \ {0}
  BY DivMonotone DEF Pages
<1>2. page[c] \in 1..Pages
  BY DEF TypeOK, Pages
<1>3. pc[c] \in {"idle", "read", "scan", "create", "rescan", "returned", "raised"}
  BY DEF TypeOK
<1> QED
  BY <1>1, <1>2, <1>3 DEF RequestsLeft

\* A call is not moved by the steps of another.
LEMMA OthersKept ==
  ASSUME TypeOK, NEW c \in Clients, NEW d \in Clients, c # d, Step(c)
  PROVE  Bystander(d)
<1>1. ASSUME NEW label, BeginScan(c, label) PROVE UNCHANGED <<pc[d], page[d], yields[d]>>
  BY <1>1 DEF BeginScan, TypeOK
<1>2. ASSUME NEW S, Yield(c, S) PROVE UNCHANGED yields[d]
  BY <1>2, YieldTyped
<1>3. ASSUME NEW i, Give(c, i) PROVE UNCHANGED <<pc[d], result[d], error[d]>>
  BY <1>3 DEF Give, TypeOK
<1>4. ASSUME NEW what, Raise(c, what) PROVE UNCHANGED <<pc[d], result[d], error[d]>>
  BY <1>4 DEF Raise, TypeOK
<1>5. GetOrCreate(c) \/ Iterate(c) \/ LoseRace(c) \/ Outlasted(c) => Bystander(d)
  BY <1>1 DEF GetOrCreate, Iterate, LoseRace, Outlasted, Bystander
<1>6. Find(c) => Bystander(d)
  BY <1>2, <1>3 DEF Find, Bystander
<1>7. Miss(c) \/ Read(c) => Bystander(d)
  BY <1>2, <1>4 DEF Miss, Read, Bystander, TypeOK
<1>8. Create(c) \/ Assign(c) \/ RequestFails(c) => Bystander(d)
  BY <1>3, <1>4 DEF Create, Assign, RequestFails, Bystander, seen
<1> QED
  BY <1>5, <1>6, <1>7, <1>8 DEF Step

\* Every step of a call is one of the requests that it had left.
LEMMA RequestCounts ==
  ASSUME TypeOK, TypeOK', NEW c \in Clients, Step(c), pc[c] # "idle"
  PROVE  RequestsLeft(c)' \in 0..(RequestsLeft(c) - 1)
<1>1. Pages \in Nat \ {0} /\ page[c] \in 1..Pages /\ Pages' = Pages
  BY LeftTyped DEF Pages
<1>2. page'[c] \in 1..Pages
  BY DEF TypeOK, Pages
<1>3. pc'[c] \in {"returned", "raised"} => RequestsLeft(c)' = 0
  BY DEF RequestsLeft
<1>4. pc[c] \in {"read", "scan", "create", "rescan"} /\ pc'[c] \in {"returned", "raised"} =>
        RequestsLeft(c)' \in 0..(RequestsLeft(c) - 1)
  BY <1>3, LeftTyped
<1>5. CASE Find(c) \/ Create(c) \/ RequestFails(c)
  <2>1. pc[c] \in {"read", "scan", "create", "rescan"} /\ pc'[c] \in {"returned", "raised"}
    BY <1>5 DEF Find, Create, RequestFails, Give, Raise, TypeOK
  <2> QED
    BY <1>4, <2>1
<1>6. CASE Miss(c) \/ Read(c)
  <2>1. \/ pc[c] \in {"read", "scan", "rescan"} /\ pc'[c] = pc[c] /\ page'[c] = page[c] + 1
        \/ pc[c] = "scan" /\ pc'[c] = "create"
        \/ pc[c] \in {"read", "rescan"} /\ pc'[c] \in {"returned", "raised"}
    BY <1>6 DEF Miss, Read, Raise, TypeOK
  <2>2. CASE /\ pc[c] \in {"read", "scan", "rescan"} /\ pc'[c] = pc[c]
             /\ page'[c] = page[c] + 1
    BY <1>1, <1>2, <2>2 DEF RequestsLeft
  <2>3. CASE pc[c] = "scan" /\ pc'[c] = "create"
    BY <1>1, <2>3 DEF RequestsLeft
  <2> QED
    BY <1>4, <2>1, <2>2, <2>3
<1>7. CASE LoseRace(c) \/ Outlasted(c)
  <2>1. pc[c] = "create" /\ pc'[c] = "rescan" /\ page'[c] = 1
    BY <1>7 DEF LoseRace, Outlasted, BeginScan, TypeOK
  <2> QED
    BY <1>1, <2>1 DEF RequestsLeft
<1>8. ~GetOrCreate(c) /\ ~Iterate(c) /\ ~Assign(c)
  BY DEF GetOrCreate, Iterate, Assign
<1> QED
  BY <1>5, <1>6, <1>7, <1>8 DEF Step

\* A call makes boundedly many requests, for any page size and any number of
\* callers and projects: a lost race is lost once (_get_or_create).
THEOREM RequestsAreBoundedHolds == Spec => RequestsAreBounded
<1>1. ASSUME TypeOK, TypeOK', [Next]_vars, NEW c \in Clients
      PROVE  \/ Bystander(c)
             \/ pc[c] = "idle" /\ RequestsLeft(c)' \in 0..(2 * Pages + 1)
             \/ RequestsLeft(c)' \in 0..(RequestsLeft(c) - 1)
  <2>1. ASSUME NEW d \in Clients, Step(d)
        PROVE  \/ Bystander(c)
               \/ pc[c] = "idle" /\ RequestsLeft(c)' \in 0..(2 * Pages + 1)
               \/ RequestsLeft(c)' \in 0..(RequestsLeft(c) - 1)
    <3>1. CASE d # c
      BY <1>1, <2>1, <3>1, OthersKept
    <3>2. CASE d = c /\ pc[c] = "idle"
      <4>1. RequestsLeft(c)' \in 0..(2 * Pages' + 1)
        <5>1. Pages \in Nat \ {0} /\ Pages' = Pages
          BY <1>1, LeftTyped DEF Pages
        <5>2. page'[c] \in 1..Pages
          BY <1>1 DEF TypeOK, Pages
        <5>3. pc'[c] \in {"idle", "read", "scan", "create", "rescan", "returned", "raised"}
          BY <1>1 DEF TypeOK
        <5> QED
          BY <5>1, <5>2, <5>3 DEF RequestsLeft
      <4> QED
        BY <3>2, <4>1 DEF Pages
    <3>3. CASE d = c /\ pc[c] # "idle"
      BY <1>1, <2>1, <3>3, RequestCounts
    <3> QED
      BY <3>1, <3>2, <3>3
  <2>2. ASSUME NEW d \in Clients, Execute(d) PROVE Bystander(c)
    BY <2>2 DEF Execute, Bystander
  <2>3. ASSUME NEW i \in Ids, Remove(i) PROVE Bystander(c)
    BY <2>3 DEF Remove, Bystander
  <2>4. CASE Insert \/ UNCHANGED vars
    BY <2>4 DEF Insert, Bystander, vars, seen
  <2> QED
    BY <1>1, <2>1, <2>2, <2>3, <2>4 DEF Next, Ended
<1>2. TypeOK /\ TypeOK' /\ [Next]_vars =>
        [\A c \in Clients :
           \/ UNCHANGED <<pc[c], page[c], yields[c], result[c], error[c]>>
           \/ pc[c] = "idle" /\ RequestsLeft(c)' \in 0..(2 * Pages + 1)
           \/ RequestsLeft(c)' \in 0..(RequestsLeft(c) - 1)]_vars
  BY <1>1 DEF Bystander
<1> QED
  BY <1>2, TypeCorrect, PTL DEF Spec, RequestsAreBounded
===============================================================================
