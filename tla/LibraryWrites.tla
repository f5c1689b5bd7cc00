----------------------------- MODULE LibraryWrites -----------------------------
(***************************************************************************)
(* The calls of folders, and the writes on documents, that are one API     *)
(* call each (src/infersoft/resources/folders.py, documents.py).  They     *)
(* differ in what makes their retries safe: an idempotency key, or the     *)
(* promise that they converge on retry without one.  Callers, and          *)
(* requests that their callers gave up, meet at the API in any order.      *)
(*                                                                         *)
(* The API is external.  A folder has a path, a document the path of its   *)
(* folder; no two folders have one path.  It executes a keyed call once    *)
(* and replays the answer (HttpSend has the details), and executes every   *)
(* request without a key.                                                  *)
(***************************************************************************)
EXTENDS Integers

CONSTANTS
  Callers,       \* each makes one call
  AsyncCallers,  \* those that use the async client
  Paths,
  Docs,          \* documents, in no folder at first
  MaxFolders,    \* bound: folders that are ever made
  MaxSends       \* requests of a call that may be retried: 1 + max_retries

ASSUME LibraryAssumption ==
  /\ AsyncCallers \subseteq Callers
  /\ MaxFolders \in Nat \ {0} /\ MaxSends \in Nat \ {0}

Folders == 1..MaxFolders
Entries   == Folders \cup Docs

\* The arguments of HttpClient.request that decide on retries.
Keyed(method)      == [method |-> method, keyed |-> TRUE, idempotent |-> "unset"]
Plain(method)      == [method |-> method, keyed |-> FALSE, idempotent |-> "unset"]
Converging(method) == [method |-> method, keyed |-> FALSE, idempotent |-> "yes"]

\* Mutants of FoldersResource: folders are created, or renamed, without a key.
FoldersResourceCreate ==
  [create |-> Converging("POST"), rename |-> Keyed("PATCH"), move |-> Keyed("POST"),
   bulk_delete |-> Keyed("POST"), resolve_paths |-> Converging("POST"),
   get |-> Plain("GET"), search |-> Converging("POST")]
FoldersResourceRename ==
  [create |-> Keyed("POST"), rename |-> Converging("PATCH"), move |-> Keyed("POST"),
   bulk_delete |-> Keyed("POST"), resolve_paths |-> Converging("POST"),
   get |-> Plain("GET"), search |-> Converging("POST")]

FoldersResource ==
  [create |-> Keyed("POST"), rename |-> Keyed("PATCH"), move |-> Keyed("POST"),
   bulk_delete |-> Keyed("POST"), resolve_paths |-> Converging("POST"),
   get |-> Plain("GET"), search |-> Converging("POST")]

AsyncFoldersResource == FoldersResource

DocumentsResource ==
  [move_to_folder |-> Keyed("POST"), bulk_delete |-> Keyed("POST"),
   delete |-> Plain("DELETE")]

AsyncDocumentsResource == DocumentsResource

\* A call of resource r: its method, the item it is about and a path.
Call(r, methods, items, paths) ==
  [resource : {r}, method : methods, item : items, path : paths]

NoItem == 0
NoPath == "none"

LibraryCalls ==
  Call("folders", {"create", "resolve_paths"}, {NoItem}, Paths)
    \cup Call("folders", {"rename", "move"}, Folders, Paths)
    \cup Call("folders", {"bulk_delete", "get"}, Folders, {NoPath})
    \cup Call("folders", {"search"}, {NoItem}, {NoPath})
    \cup Call("documents", {"move_to_folder"}, Docs, Paths)
    \cup Call("documents", {"bulk_delete", "delete"}, Docs, {NoPath})

NoCall == [resource |-> "none", method |-> "none", item |-> NoItem, path |-> NoPath]

VARIABLES
  place,    \* each folder's path, and that of each document's folder
  call,     \* the call each caller makes
  sends,    \* requests it has sent
  waiting,  \* it waits for the response to the last of them
  wire,     \* those that may still arrive
  record,   \* the API's record of a keyed call's answer
  answer,   \* how the call ended for its caller
  changed,  \* history: how often the call has changed something
  after,    \* history: it has done so after its caller had the answer
  vacated   \* history: paths that a folder has left

wireVars    == <<sends, waiting, wire>>
libraryVars == <<place, call, wireVars, record, answer, changed, after, vacated>>

Answers == {"ok", "conflict", "missing"}

LibraryTypeOK ==
  /\ place \in [Entries -> Paths \cup {"unborn", "gone", "root"}]
  /\ call \in [Callers -> LibraryCalls \cup {NoCall}]
  /\ sends \in [Callers -> 0..MaxSends]
  /\ waiting \in [Callers -> BOOLEAN]
  /\ wire \in [Callers -> SUBSET (1..MaxSends)]
  /\ record \in [Callers -> Answers \cup {"none"}]
  /\ answer \in [Callers -> Answers \cup {"none", "unreachable"}]
  /\ changed \in [Callers -> Nat]
  /\ after \in [Callers -> BOOLEAN]
  /\ vacated \subseteq Paths

LibraryInit ==
  /\ \E first \in Paths \cup {"unborn"} :
       place = [i \in Entries |-> IF i \in Docs THEN "root"
                               ELSE IF i = 1 THEN first ELSE "unborn"]
  /\ call = [c \in Callers |-> NoCall]
  /\ sends = [c \in Callers |-> 0]
  /\ waiting = [c \in Callers |-> FALSE]
  /\ wire = [c \in Callers |-> {}]
  /\ record = [c \in Callers |-> "none"]
  /\ answer = [c \in Callers |-> "none"]
  /\ changed = [c \in Callers |-> 0]
  /\ after = [c \in Callers |-> FALSE]
  /\ vacated = {}

(***************************************************************************)
(* The callers.                                                            *)
(***************************************************************************)
Options(c) ==
  LET m == call[c].method IN
  IF call[c].resource = "folders"
  THEN IF c \in AsyncCallers THEN AsyncFoldersResource[m] ELSE FoldersResource[m]
  ELSE IF c \in AsyncCallers THEN AsyncDocumentsResource[m] ELSE DocumentsResource[m]

\* request(): idempotent decides, else the method and the key do.
Retried(c) ==
  LET o == Options(c)
  IN o.idempotent = "yes" \/ o.keyed \/ o.method \in {"GET", "DELETE"}

\* A caller knows the ids of items that there are.
Begin(c, what) ==
  /\ call[c] = NoCall
  /\ what.item \in Entries => place[what.item] \notin {"unborn", "gone"}
  /\ call' = [call EXCEPT ![c] = what]
  /\ sends' = [sends EXCEPT ![c] = 1]
  /\ waiting' = [waiting EXCEPT ![c] = TRUE]
  /\ wire' = [wire EXCEPT ![c] = {1}]
  /\ UNCHANGED <<place, record, answer, changed, after, vacated>>

\* No response: the request is sent again, or given up.
TimeOut(c) ==
  /\ waiting[c]
  /\ \/ /\ Retried(c) /\ sends[c] < MaxSends
        /\ sends' = [sends EXCEPT ![c] = @ + 1]
        /\ wire' = [wire EXCEPT ![c] = @ \cup {sends[c] + 1}]
        /\ UNCHANGED <<waiting, answer>>
     \/ /\ ~(Retried(c) /\ sends[c] < MaxSends)
        /\ waiting' = [waiting EXCEPT ![c] = FALSE]
        /\ answer' = [answer EXCEPT ![c] = "unreachable"]
        /\ UNCHANGED <<sends, wire>>
  /\ UNCHANGED <<place, call, record, changed, after, vacated>>

(***************************************************************************)
(* The API (external).                                                     *)
(***************************************************************************)
There(path) == \E f \in Folders : place[f] = path

\* The next new folder.
Unborn == {f \in Folders : place[f] = "unborn"}
Newest == {f \in Unborn : \A g \in Unborn : f <= g}

\* What a call does to the places, and its answer, by kinds of call.
Make(what) ==
  IF There(what.path)
  THEN {<<place, IF what.method = "create" THEN "conflict" ELSE "ok">>}
  ELSE {<<[place EXCEPT ![f] = what.path], "ok">> : f \in Newest}

Relocate(what) ==
  LET here == place[what.item] IN
  IF here = "gone" THEN {<<place, "missing">>}
  ELSE IF what.item \in Folders /\ here # what.path /\ There(what.path)
  THEN {<<place, "conflict">>}
  ELSE {<<[place EXCEPT ![what.item] = what.path], "ok">>}

\* A call that does not mind a missing item answers ok.
Unless(method, what) ==
  IF what.method = method /\ place[what.item] = "gone" THEN "missing" ELSE "ok"

Look(what) == {<<place, Unless("get", what)>>}

Discard(what) == {<<[place EXCEPT ![what.item] = "gone"], Unless("delete", what)>>}

Effect(what) ==
  IF what.method \in {"create", "resolve_paths"} THEN Make(what)
  ELSE IF what.method \in {"rename", "move", "move_to_folder"} THEN Relocate(what)
  ELSE IF what.method \in {"get", "search"} THEN Look(what)
  ELSE Discard(what)

\* A response reaches the caller if it waits for it.  It may be lost.
Respond(c, try, how) ==
  \/ /\ waiting[c] /\ try = sends[c]
     /\ waiting' = [waiting EXCEPT ![c] = FALSE]
     /\ answer' = [answer EXCEPT ![c] = how]
  \/ UNCHANGED <<waiting, answer>>

Left == {place[f] : f \in {g \in Folders : place'[g] # place[g]}} \cap Paths

Perform(c, try) ==
  /\ ~(Options(c).keyed /\ record[c] # "none")
  /\ \E e \in Effect(call[c]) :
       /\ place' = e[1]
       /\ record' = [record EXCEPT ![c] = e[2]]
       /\ Respond(c, try, e[2])
  /\ vacated' = vacated \cup Left
  /\ IF place' = place THEN UNCHANGED <<changed, after>>
     ELSE /\ changed' = [changed EXCEPT ![c] = @ + 1]
          /\ after' = [after EXCEPT ![c] = @ \/ answer[c] \in Answers]

Replay(c, try) ==
  /\ Options(c).keyed /\ record[c] # "none"
  /\ Respond(c, try, record[c])
  /\ UNCHANGED <<place, record, changed, after, vacated>>

\* A request arrives, or is lost.
Arrive(c, try) ==
  /\ try \in wire[c]
  /\ wire' = [wire EXCEPT ![c] = @ \ {try}]
  /\ \/ Perform(c, try) \/ Replay(c, try)
     \/ UNCHANGED <<place, record, changed, after, vacated, waiting, answer>>
  /\ UNCHANGED <<call, sends>>

LibraryEnded ==
  /\ \A c \in Callers : call[c] # NoCall /\ ~waiting[c] /\ wire[c] = {}
  /\ UNCHANGED libraryVars

LibraryNext ==
  \/ \E c \in Callers :
       \/ TimeOut(c)
       \/ \E what \in LibraryCalls : Begin(c, what)
       \/ \E try \in wire[c] : Arrive(c, try)
  \/ LibraryEnded

LibrarySpec == LibraryInit /\ [][LibraryNext]_libraryVars

(***************************************************************************)
(* Properties.                                                             *)
(***************************************************************************)

\* What a call has reported is final: none of its requests changes anything
\* later, when other calls have built on it.  A key ensures that, and deleting
\* what is gone changes nothing; but resolve_paths, retried without a key, makes
\* a folder again that was taken from its path after the call had returned.
ReportedIsFinal ==
  \A c \in Callers :
    after[c] => call[c].method = "resolve_paths" /\ call[c].path \in vacated

\* A call that reports a conflict or a missing item has changed nothing: it did
\* not stumble over its own first request.  Only documents.delete may, whose
\* retry finds the document gone.
RefusalIsTrue ==
  \A c \in Callers :
    answer[c] \in {"conflict", "missing"} /\ changed[c] > 0
      => call[c].method = "delete"
===============================================================================
