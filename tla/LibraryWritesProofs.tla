-------------------------- MODULE LibraryWritesProofs --------------------------
(***************************************************************************)
(* Theorems about LibraryWrites, for every set of callers, paths and       *)
(* documents, and every budget of retries.                                 *)
(***************************************************************************)
EXTENDS LibraryWrites, TLAPS

(***************************************************************************)
(* The inductive invariant.                                                *)
(***************************************************************************)
Refusals == {"conflict", "missing"}

Unkeyed == {"resolve_paths", "get", "search", "delete"}

\* A call that is not made, or waits, has told its caller nothing.
CallInv ==
  \A c \in Callers :
    /\ waiting[c] => answer[c] = "none"
    /\ call[c] = NoCall =>
         /\ wire[c] = {} /\ ~waiting[c] /\ record[c] = "none" /\ answer[c] = "none"
         /\ changed[c] = 0 /\ ~after[c]

\* A keyed call has its effect with its record, and not after its answer.
KeyedInv ==
  \A c \in Callers : call[c] # NoCall /\ call[c].method \notin Unkeyed =>
    /\ record[c] = "none" => changed[c] = 0 /\ answer[c] \notin Answers
    /\ answer[c] \in Answers => answer[c] = record[c]
    /\ record[c] \in Refusals => changed[c] = 0
    /\ ~after[c]

\* What delete has deleted stays gone.
DeleteInv ==
  \A c \in Callers : call[c] # NoCall /\ call[c].method = "delete" =>
    /\ answer[c] \in Answers \/ changed[c] > 0 => place[call[c].item] = "gone"
    /\ ~after[c]

ReadInv ==
  \A c \in Callers : call[c] # NoCall /\ call[c].method \in {"get", "search"} =>
    changed[c] = 0 /\ ~after[c]

\* A resolved path has a folder, until one leaves it.
ResolveInv ==
  \A c \in Callers : call[c] # NoCall /\ call[c].method = "resolve_paths" =>
    /\ answer[c] \in Answers => There(call[c].path) \/ call[c].path \in vacated
    /\ after[c] => call[c].path \in vacated
    /\ answer[c] \notin Refusals

\* A call changes something once; resolve_paths, by making its folder, again
\* only when that has left the path.
ChangedInv ==
  \A c \in Callers : call[c] # NoCall =>
    /\ changed[c] > 1 => call[c].method = "resolve_paths" /\ call[c].path \in vacated
    /\ call[c].method = "resolve_paths" /\ changed[c] > 0 =>
         There(call[c].path) \/ call[c].path \in vacated

IInv ==
  /\ LibraryTypeOK
  /\ CallInv
  /\ KeyedInv
  /\ DeleteInv
  /\ ReadInv
  /\ ResolveInv
  /\ ChangedInv

USE LibraryAssumption

(***************************************************************************)
(* Calls and their effects.                                                *)
(***************************************************************************)
LEMMA NotACall == NoCall \notin LibraryCalls
  BY DEF NoCall, LibraryCalls, Call

\* Which calls have a key.
LEMMA KeyedCalls ==
  ASSUME NEW c \in Callers, call[c] \in LibraryCalls
  PROVE  Options(c).keyed <=> call[c].method \notin Unkeyed
  BY DEF Options, Unkeyed, LibraryCalls, Call, FoldersResource,
         AsyncFoldersResource, DocumentsResource, AsyncDocumentsResource, Keyed,
         Plain, Converging

\* What an effect may do to the places, by the kind of call.
LEMMA EffectFacts ==
  ASSUME LibraryTypeOK, NEW what \in LibraryCalls, NEW e \in Effect(what)
  PROVE  /\ e[1] \in [Entries -> Paths \cup {"unborn", "gone", "root"}]
         /\ e[2] \in Answers
         /\ \A i \in Entries : place[i] = "gone" => e[1][i] = "gone"
         /\ what.method # "delete" /\ e[2] \in Refusals => e[1] = place
         /\ what.method = "delete" =>
              e[1][what.item] = "gone" /\ (place[what.item] = "gone" => e[1] = place)
         /\ what.method \in {"get", "search"} => e[1] = place
         /\ what.method = "resolve_paths" =>
              /\ e[2] = "ok"
              /\ There(what.path) => e[1] = place
              /\ \E f \in Folders : e[1][f] = what.path
<1>1. CASE what.method \in {"create", "resolve_paths"}
  <2>1. what.path \in Paths
    BY <1>1 DEF LibraryCalls, Call
  <2>2. e \in Make(what)
    BY <1>1 DEF Effect
  <2>3. CASE There(what.path)
    <3>1. e = <<place, IF what.method = "create" THEN "conflict" ELSE "ok">>
      BY <2>2, <2>3 DEF Make
    <3> QED
      BY <1>1, <2>3, <3>1 DEF LibraryTypeOK, Answers, There, Refusals
  <2>4. CASE ~There(what.path)
    <3>1. PICK f \in Newest : e = <<[place EXCEPT ![f] = what.path], "ok">>
      BY <2>2, <2>4 DEF Make
    <3>2. f \in Folders /\ f \in Entries /\ place[f] = "unborn"
      BY DEF Newest, Unborn, Entries
    <3> QED
      BY <1>1, <2>1, <2>4, <3>1, <3>2 DEF LibraryTypeOK, Answers, Refusals
  <2> QED
    BY <2>3, <2>4
<1>2. CASE what.method \in {"rename", "move", "move_to_folder"}
  <2>1. what.path \in Paths /\ what.item \in Entries
    BY <1>2 DEF LibraryCalls, Call, Entries
  <2>2. e \in Relocate(what)
    BY <1>2 DEF Effect
  <2>3. \/ e = <<place, "missing">> \/ e = <<place, "conflict">>
        \/ /\ place[what.item] # "gone"
           /\ e = <<[place EXCEPT ![what.item] = what.path], "ok">>
    BY <2>2 DEF Relocate
  <2> QED
    BY <1>2, <2>1, <2>3 DEF LibraryTypeOK, Answers, Refusals
<1>3. CASE what.method \in {"get", "search"}
  <2>1. e = <<place, Unless("get", what)>>
    BY <1>3 DEF Effect, Look
  <2> QED
    BY <1>3, <2>1 DEF LibraryTypeOK, Answers, Unless
<1>4. CASE what.method \in {"bulk_delete", "delete"}
  <2>1. what.item \in Entries
    BY <1>4 DEF LibraryCalls, Call, Entries
  <2>2. e = <<[place EXCEPT ![what.item] = "gone"], Unless("delete", what)>>
    BY <1>4 DEF Effect, Discard
  <2> QED
    BY <1>4, <2>1, <2>2 DEF LibraryTypeOK, Answers, Refusals, Unless
<1>5. what.method \in {"create", "resolve_paths", "rename", "move", "bulk_delete",
                       "get", "search", "move_to_folder", "delete"}
  BY DEF LibraryCalls, Call
<1> QED
  BY <1>1, <1>2, <1>3, <1>4, <1>5

(***************************************************************************)
(* Every step keeps the invariant.                                         *)
(***************************************************************************)
LEMMA InitInv == LibraryInit => IInv
  BY NotACall DEF LibraryInit, IInv, LibraryTypeOK, CallInv, KeyedInv, DeleteInv, ReadInv,
     ResolveInv, ChangedInv, Answers, Entries, Folders

LEMMA BeginInv ==
  ASSUME IInv, NEW c \in Callers, NEW what \in LibraryCalls, Begin(c, what)
  PROVE  IInv'
<1>1. LibraryTypeOK'
  BY DEF IInv, LibraryTypeOK, Begin
<1>2. CallInv'
  BY NotACall DEF IInv, LibraryTypeOK, CallInv, Begin
<1>3. /\ answer[c] = "none" /\ changed[c] = 0 /\ record[c] = "none" /\ ~after[c]
      /\ call' = [call EXCEPT ![c] = what]
      /\ UNCHANGED <<place, record, answer, changed, after, vacated>>
  BY DEF IInv, CallInv, Begin
<1>4. KeyedInv'
  BY <1>3 DEF IInv, LibraryTypeOK, KeyedInv, Answers, Refusals
<1>5. DeleteInv'
  BY <1>3 DEF IInv, LibraryTypeOK, DeleteInv, Answers
<1>6. ReadInv'
  BY <1>3 DEF IInv, LibraryTypeOK, ReadInv
<1>7. ResolveInv'
  BY <1>3 DEF IInv, LibraryTypeOK, ResolveInv, Answers, Refusals, There
<1>8. ChangedInv'
  BY <1>3 DEF IInv, LibraryTypeOK, ChangedInv, There
<1> QED
  BY <1>1, <1>2, <1>4, <1>5, <1>6, <1>7, <1>8 DEF IInv

LEMMA TimeOutInv ==
  ASSUME IInv, NEW c \in Callers, TimeOut(c)
  PROVE  IInv'
<1>1. LibraryTypeOK'
  <2>1. CASE Retried(c) /\ sends[c] < MaxSends
    <3>1. sends[c] + 1 \in 1..MaxSends
      BY <2>1 DEF IInv, LibraryTypeOK
    <3>2. sends' \in [Callers -> 0..MaxSends]
      BY <2>1, <3>1 DEF IInv, LibraryTypeOK, TimeOut
    <3>3. wire' \in [Callers -> SUBSET (1..MaxSends)]
      BY <2>1, <3>1 DEF IInv, LibraryTypeOK, TimeOut
    <3> QED
      BY <2>1, <3>2, <3>3 DEF IInv, LibraryTypeOK, TimeOut
  <2>2. CASE ~(Retried(c) /\ sends[c] < MaxSends)
    BY <2>2 DEF IInv, LibraryTypeOK, TimeOut
  <2> QED
    BY <2>1, <2>2
<1>2. call[c] # NoCall
  BY DEF IInv, CallInv, TimeOut
<1>3. CallInv'
  BY <1>2 DEF IInv, LibraryTypeOK, CallInv, TimeOut
<1>4. /\ \A d \in Callers : answer'[d] \in {answer[d], "unreachable"}
      /\ UNCHANGED <<place, call, record, changed, after, vacated>>
  BY DEF IInv, LibraryTypeOK, TimeOut
<1>5. KeyedInv'
  BY <1>4 DEF IInv, KeyedInv, Answers, Refusals
<1>6. DeleteInv' /\ ReadInv'
  BY <1>4 DEF IInv, DeleteInv, ReadInv, Answers
<1>7. ResolveInv' /\ ChangedInv'
  BY <1>4 DEF IInv, ResolveInv, ChangedInv, Answers, Refusals, There
<1> QED
  BY <1>1, <1>3, <1>5, <1>6, <1>7 DEF IInv

\* What an answer may be after a response.
LEMMA RespondFacts ==
  ASSUME LibraryTypeOK, NEW c \in Callers, NEW try, NEW how \in Answers,
         Respond(c, try, how)
  PROVE  /\ answer' \in [Callers -> Answers \cup {"none", "unreachable"}]
         /\ waiting' \in [Callers -> BOOLEAN]
         /\ \A d \in Callers \ {c} : answer'[d] = answer[d] /\ waiting'[d] = waiting[d]
         /\ answer'[c] \in {answer[c], how}
         /\ waiting'[c] => waiting[c] /\ answer'[c] = answer[c]
<1>1. /\ answer \in [Callers -> Answers \cup {"none", "unreachable"}]
      /\ waiting \in [Callers -> BOOLEAN]
  BY DEF LibraryTypeOK
<1>2. CASE /\ waiting[c] /\ waiting' = [waiting EXCEPT ![c] = FALSE]
           /\ answer' = [answer EXCEPT ![c] = how]
  BY <1>1, <1>2
<1>3. CASE UNCHANGED <<waiting, answer>>
  BY <1>1, <1>3
<1> QED
  BY <1>2, <1>3 DEF Respond

LEMMA ReplayInv ==
  ASSUME IInv, NEW c \in Callers, NEW try \in wire[c], Replay(c, try),
         wire' = [wire EXCEPT ![c] = @ \ {try}], UNCHANGED <<call, sends>>
  PROVE  IInv'
<1> DEFINE how == record[c]
<1>1. call[c] # NoCall /\ call[c] \in LibraryCalls /\ how \in Answers
  BY DEF IInv, LibraryTypeOK, CallInv, Replay
<1>2. call[c].method \notin Unkeyed
  BY <1>1, KeyedCalls DEF Replay
<1>3. /\ answer' \in [Callers -> Answers \cup {"none", "unreachable"}]
      /\ waiting' \in [Callers -> BOOLEAN]
      /\ \A d \in Callers \ {c} : answer'[d] = answer[d] /\ waiting'[d] = waiting[d]
      /\ answer'[c] \in {answer[c], how}
      /\ waiting'[c] => waiting[c] /\ answer'[c] = answer[c]
  BY <1>1, RespondFacts DEF IInv, Replay
<1>4. LibraryTypeOK'
  BY <1>3 DEF IInv, LibraryTypeOK, Replay
<1>5. CallInv'
  BY <1>1, <1>3 DEF IInv, LibraryTypeOK, CallInv, Replay
<1>6. KeyedInv'
  BY <1>1, <1>3 DEF IInv, KeyedInv, Replay, Answers
<1>7. DeleteInv' /\ ReadInv'
  BY <1>2, <1>3 DEF IInv, DeleteInv, ReadInv, Replay, Unkeyed
<1>8. ResolveInv' /\ ChangedInv'
  BY <1>2, <1>3 DEF IInv, ResolveInv, ChangedInv, Replay, There, Unkeyed
<1> QED
  BY <1>4, <1>5, <1>6, <1>7, <1>8 DEF IInv

LEMMA LostInv ==
  ASSUME IInv, NEW c \in Callers, NEW try \in wire[c],
         wire' = [wire EXCEPT ![c] = @ \ {try}],
         UNCHANGED <<place, call, sends, record, changed, after, vacated, waiting, answer>>
  PROVE  IInv'
<1>1. LibraryTypeOK' /\ CallInv'
  BY DEF IInv, LibraryTypeOK, CallInv
<1>2. KeyedInv' /\ DeleteInv' /\ ReadInv'
  BY DEF IInv, KeyedInv, DeleteInv, ReadInv
<1>3. ResolveInv' /\ ChangedInv'
  BY DEF IInv, ResolveInv, ChangedInv, There
<1> QED
  BY <1>1, <1>2, <1>3 DEF IInv

LEMMA PerformInv ==
  ASSUME IInv, NEW c \in Callers, NEW try \in wire[c], Perform(c, try),
         wire' = [wire EXCEPT ![c] = @ \ {try}], UNCHANGED <<call, sends>>
  PROVE  IInv'
<1>1. call[c] # NoCall /\ call[c] \in LibraryCalls
  BY DEF IInv, LibraryTypeOK, CallInv
<1>2. PICK e \in Effect(call[c]) :
        /\ place' = e[1]
        /\ record' = [record EXCEPT ![c] = e[2]]
        /\ Respond(c, try, e[2])
  BY DEF Perform
<1> DEFINE method == call[c].method
           item == call[c].item
           path == call[c].path
           same == place' = place
<1>3. /\ place' \in [Entries -> Paths \cup {"unborn", "gone", "root"}]
      /\ e[2] \in Answers
      /\ \A i \in Entries : place[i] = "gone" => place'[i] = "gone"
      /\ method # "delete" /\ e[2] \in Refusals => same
      /\ method = "delete" => place'[item] = "gone" /\ (place[item] = "gone" => same)
      /\ method \in {"get", "search"} => same
      /\ method = "resolve_paths" =>
           /\ e[2] = "ok"
           /\ There(path) => same
           /\ \E f \in Folders : place'[f] = path
  BY <1>1, <1>2, EffectFacts DEF IInv
<1>4. /\ answer' \in [Callers -> Answers \cup {"none", "unreachable"}]
      /\ waiting' \in [Callers -> BOOLEAN]
      /\ \A d \in Callers \ {c} : answer'[d] = answer[d] /\ waiting'[d] = waiting[d]
      /\ answer'[c] \in {answer[c], e[2]}
      /\ waiting'[c] => waiting[c] /\ answer'[c] = answer[c]
  BY <1>2, <1>3, RespondFacts DEF IInv
<1>5. /\ vacated' = vacated \cup Left /\ Left \subseteq Paths
      /\ \A p \in Paths : There(p) => There(p)' \/ p \in vacated'
  BY DEF Perform, Left, There
<1>6. /\ changed' \in [Callers -> Nat] /\ after' \in [Callers -> BOOLEAN]
      /\ \A d \in Callers \ {c} : changed'[d] = changed[d] /\ after'[d] = after[d]
      /\ same => changed' = changed /\ after' = after
      /\ changed[c] \in Nat /\ changed'[c] <= changed[c] + 1
      /\ after'[c] => after[c] \/ (~same /\ answer[c] \in Answers)
  <2>1. CASE same
    BY <2>1 DEF IInv, LibraryTypeOK, Perform
  <2>2. CASE ~same
    <3>1. /\ changed' = [changed EXCEPT ![c] = @ + 1]
          /\ after' = [after EXCEPT ![c] = @ \/ answer[c] \in Answers]
      BY <2>2 DEF Perform
    <3>2. /\ changed' \in [Callers -> Nat] /\ changed[c] \in Nat
          /\ changed'[c] = changed[c] + 1
          /\ \A d \in Callers \ {c} : changed'[d] = changed[d]
      BY <3>1 DEF IInv, LibraryTypeOK
    <3>3. /\ after' \in [Callers -> BOOLEAN]
          /\ \A d \in Callers \ {c} : after'[d] = after[d]
          /\ after'[c] = (after[c] \/ answer[c] \in Answers)
      BY <3>1, Zenon DEF IInv, LibraryTypeOK
    <3> QED
      BY <2>2, <3>2, <3>3
  <2> QED
    BY <2>1, <2>2
<1>7. LibraryTypeOK'
  BY <1>2, <1>3, <1>4, <1>5, <1>6 DEF IInv, LibraryTypeOK
<1>8. CallInv'
  BY <1>1, <1>2, <1>4, <1>6 DEF IInv, LibraryTypeOK, CallInv
<1>9. KeyedInv'
  <2> SUFFICES ASSUME NEW d \in Callers, call[d] # NoCall, call[d].method \notin Unkeyed
               PROVE  /\ record'[d] = "none" => changed'[d] = 0 /\ answer'[d] \notin Answers
                      /\ answer'[d] \in Answers => answer'[d] = record'[d]
                      /\ record'[d] \in Refusals => changed'[d] = 0
                      /\ ~after'[d]
    BY DEF KeyedInv
  <2>1. CASE d # c
    BY <1>2, <1>4, <1>6, <2>1 DEF IInv, LibraryTypeOK, KeyedInv
  <2>2. CASE d = c
    <3>1. record[c] = "none" /\ method # "delete"
      BY <1>1, <2>2, KeyedCalls DEF Perform, Unkeyed
    <3>2. changed[c] = 0 /\ answer[c] \notin Answers /\ ~after[c]
      BY <1>1, <2>2, <3>1 DEF IInv, KeyedInv
    <3>3. record'[c] = e[2]
      BY <1>2 DEF IInv, LibraryTypeOK
    <3> QED
      BY <1>3, <1>4, <1>6, <2>2, <3>1, <3>2, <3>3 DEF Answers
  <2> QED
    BY <2>1, <2>2
<1>10. DeleteInv'
  <2> SUFFICES ASSUME NEW d \in Callers, call[d] # NoCall, call[d].method = "delete"
               PROVE  /\ answer'[d] \in Answers \/ changed'[d] > 0
                           => place'[call[d].item] = "gone"
                      /\ ~after'[d]
    BY DEF DeleteInv
  <2>1. CASE d # c
    <3>1. call[d].item \in Entries
      BY DEF IInv, LibraryTypeOK, LibraryCalls, Call, Entries
    <3> QED
      BY <1>3, <1>4, <1>6, <2>1, <3>1 DEF IInv, DeleteInv
  <2>2. CASE d = c
    BY <1>3, <1>6, <2>2 DEF IInv, DeleteInv
  <2> QED
    BY <2>1, <2>2
<1>11. ReadInv'
  BY <1>3, <1>6 DEF IInv, ReadInv
<1>12. ResolveInv'
  <2> SUFFICES ASSUME NEW d \in Callers, call[d] # NoCall,
                      call[d].method = "resolve_paths"
               PROVE  /\ answer'[d] \in Answers =>
                           There(call[d].path)' \/ call[d].path \in vacated'
                      /\ after'[d] => call[d].path \in vacated'
                      /\ answer'[d] \notin Refusals
    BY DEF ResolveInv, There
  <2>1. call[d].path \in Paths
    BY DEF IInv, LibraryTypeOK, LibraryCalls, Call
  <2>2. CASE d # c
    BY <1>4, <1>5, <1>6, <2>1, <2>2 DEF IInv, ResolveInv
  <2>3. CASE d = c
    <3>1. There(call[d].path)'
      BY <1>3, <2>3 DEF There
    <3>2. after'[d] => call[d].path \in vacated
      BY <1>3, <1>6, <2>3 DEF IInv, ResolveInv
    <3> QED
      BY <1>3, <1>4, <1>5, <2>3, <3>1, <3>2 DEF IInv, ResolveInv, Refusals
  <2> QED
    BY <2>2, <2>3
<1>13. ChangedInv'
  <2> SUFFICES ASSUME NEW d \in Callers, call[d] # NoCall
               PROVE  /\ changed'[d] > 1 =>
                           call[d].method = "resolve_paths" /\ call[d].path \in vacated'
                      /\ call[d].method = "resolve_paths" /\ changed'[d] > 0 =>
                           There(call[d].path)' \/ call[d].path \in vacated'
    BY DEF ChangedInv, There
  <2>1. call[d].method = "resolve_paths" => call[d].path \in Paths
    BY DEF IInv, LibraryTypeOK, LibraryCalls, Call
  <2>2. CASE d # c \/ same
    BY <1>5, <1>6, <2>1, <2>2 DEF IInv, ChangedInv
  <2>3. CASE d = c /\ ~same
    <3>1. CASE method = "resolve_paths"
      <4>1. ~There(path) /\ There(path)'
        BY <1>3, <2>3, <3>1 DEF There
      <4>2. changed'[c] > 1 => path \in vacated
        BY <1>1, <1>6, <3>1, <4>1 DEF IInv, ChangedInv
      <4> QED
        BY <1>5, <2>3, <3>1, <4>1, <4>2
    <3>2. CASE method # "resolve_paths"
      <4>1. changed[c] = 0
        <5>1. CASE method \notin Unkeyed
          BY <1>1, <5>1, KeyedCalls DEF IInv, KeyedInv, Perform
        <5>2. CASE method = "delete"
          BY <1>1, <1>3, <1>6, <2>3, <5>2 DEF IInv, DeleteInv
        <5> QED
          BY <1>3, <2>3, <3>2, <5>1, <5>2 DEF Unkeyed
      <4> QED
        BY <1>6, <2>3, <3>2, <4>1
    <3> QED
      BY <3>1, <3>2
  <2> QED
    BY <2>2, <2>3
<1> QED
  BY <1>7, <1>8, <1>9, <1>10, <1>11, <1>12, <1>13 DEF IInv

LEMMA NextInv == IInv /\ [LibraryNext]_libraryVars => IInv'
<1> SUFFICES ASSUME IInv, [LibraryNext]_libraryVars PROVE IInv'
  OBVIOUS
<1>1. ASSUME NEW c \in Callers, NEW try \in wire[c], Arrive(c, try) PROVE IInv'
  BY <1>1, PerformInv, ReplayInv, LostInv DEF Arrive
<1>2. CASE UNCHANGED libraryVars
  BY <1>2 DEF libraryVars, wireVars, IInv, LibraryTypeOK, CallInv, KeyedInv, DeleteInv,
     ReadInv, ResolveInv, ChangedInv, There
<1> QED
  BY <1>1, <1>2, BeginInv, TimeOutInv DEF LibraryNext, LibraryEnded

LEMMA Inductive == LibrarySpec => []IInv
  BY InitInv, NextInv, PTL DEF LibrarySpec

(***************************************************************************)
(* Theorems.                                                               *)
(***************************************************************************)

\* The model of the folders' and documents' calls keeps its types.
THEOREM LibraryTyped == LibrarySpec => []LibraryTypeOK
<1>1. IInv => LibraryTypeOK
  BY DEF IInv
<1> QED
  BY <1>1, Inductive, PTL

\* A call that reports a conflict or a missing item has changed nothing, unless
\* it is documents.delete: the key of every other write rules that out, and
\* resolve_paths refuses nothing.
THEOREM RefusalsAreTrue == LibrarySpec => []RefusalIsTrue
<1>1. IInv => RefusalIsTrue
  BY DEF IInv, LibraryTypeOK, CallInv, KeyedInv, ReadInv, ResolveInv, RefusalIsTrue, Answers,
     Refusals, Unkeyed
<1> QED
  BY <1>1, Inductive, PTL

\* What a call has reported is final, however late its requests arrive, except
\* for a resolved path that a folder has left since.
THEOREM ReportsAreFinal == LibrarySpec => []ReportedIsFinal
<1>1. IInv => ReportedIsFinal
  BY DEF IInv, CallInv, KeyedInv, DeleteInv, ReadInv, ResolveInv, ReportedIsFinal, Unkeyed
<1> QED
  BY <1>1, Inductive, PTL

\* However many requests of a call are sent, and however late and in whatever
\* order they arrive, it changes the library at most once.  Only resolve_paths
\* may do so again: it makes anew a folder that has left its path meanwhile.
ChangesOnce ==
  \A c \in Callers :
    changed[c] > 1 => call[c].method = "resolve_paths" /\ call[c].path \in vacated

\* For any number of callers and requests: the 201, 409 and 404 answers and the
\* records of keyed calls keep a retried call from changing the library again.
THEOREM ChangesOnceHolds == LibrarySpec => []ChangesOnce
<1>1. IInv => ChangesOnce
  BY DEF IInv, CallInv, ChangedInv, ChangesOnce
<1> QED
  BY <1>1, Inductive, PTL
===============================================================================
