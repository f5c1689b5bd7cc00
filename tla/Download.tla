-------------------------------- MODULE Download --------------------------------
(***************************************************************************)
(* documents.download (src/infersoft/resources/documents.py), sync and     *)
(* async: derive the file's name, look whether it exists, sign a URL,      *)
(* fetch the bytes, write them.  Calls run beside each other, and beside   *)
(* uploads, in one process that may die; a later call finds the directory  *)
(* as the dead one left it.                                                *)
(***************************************************************************)
EXTENDS PresignedTransfer, Sequences

CONSTANTS
  Documents,
  NameOf,   \* [Documents -> the components of its name on the server]
  Outside   \* names under which dest_dir has a link that leads out of it

Calls == Transfers   \* of download, or of upload

ASSUME NameAssumption == DOMAIN NameOf = Documents

\* There is a document, and none is one of the other things a file may hold.
ASSUME DocumentAssumption ==
  Documents # {} /\ {"absent", "old", "torn", "other"} \cap Documents = {}

VARIABLES
  phase,      \* where the call is, in the order of the code
  document,   \* argument document_id
  overwrite,  \* argument overwrite
  result,     \* how the call ended, for its caller
  file,       \* the directory: absent, old, torn, other or a document's bytes
  met         \* history: how calls met at their file

callVars == <<phase, document, overwrite, result, met>>
vars     == <<poolVars, transferVars, callVars, file>>

NoName == ""

\* The name of a path is its last component, and empty for "..".
Base(doc) ==
  LET name == NameOf[doc]
  IN IF name = <<>> \/ name[Len(name)] = ".." THEN NoName ELSE name[Len(name)]

Target(c) == Base(document[c])

\* _resolve_download_target raises on these: no name is left, or the file would
\* be outside dest_dir.
Refused == Outside \cup {NoName}

Targets == {Base(doc) : doc \in Documents} \ Refused

UnderWay == {c \in Calls : phase[c] \notin {"new", "ended"}}

\* <<d, c, how>>: d had looked at the file, and not opened it, when c opened it;
\* d opened it after c had; or it was open for both at the same time.
Meetings == Calls \X Calls \X {"looked", "after", "mixed"}

TypeOK ==
  /\ PoolTypeOK
  /\ TransferTypeOK
  /\ phase \in [Calls ->
                 {"new", "check", "sign", "fetch", "open", "ended"}]
  /\ document \in [Calls -> Documents]
  /\ overwrite \in [Calls -> BOOLEAN]
  /\ result \in [Calls -> {"none", "returned", "name", "exists", "failed",
                               "closed", "cancelled", "crashed"}]
  /\ file \in [Targets -> {"absent", "old", "torn", "other"} \cup Documents]
  /\ met \subseteq Meetings

Init ==
  /\ PoolInit
  /\ TransferInit
  /\ phase = [c \in Calls |-> "new"]
  /\ document = [c \in Calls |-> CHOOSE doc \in Documents : TRUE]
  /\ overwrite = [c \in Calls |-> FALSE]
  /\ result = [c \in Calls |-> "none"]
  /\ file \in [Targets -> {"absent", "old"}]
  /\ met = {}

Move(c, to) ==
  /\ phase' = [phase EXCEPT ![c] = to]
  /\ UNCHANGED <<document, overwrite, result, met>>

\* The call ends.  A caller that cancelled it keeps what it was told.
EndCall(c, how) ==
  /\ phase' = [phase EXCEPT ![c] = "ended"]
  /\ result' = [result EXCEPT ![c] = IF @ = "none" THEN how ELSE @]
  /\ UNCHANGED <<document, overwrite, met>>

Download(c, h, doc, over) ==
  /\ phase[c] = "new" /\ pc[c] = "idle"
  /\ Bind(c, h)
  /\ phase' = [phase EXCEPT ![c] = "check"]
  /\ document' = [document EXCEPT ![c] = doc]
  /\ overwrite' = [overwrite EXCEPT ![c] = over]
  /\ UNCHANGED <<poolVars, pc, puts, attempt, tries, outcome, network,
                 stored, body, result, met, file>>

\* A call of the API does not get through: the pool is closed, or it failed.
ApiFails(c) ==
  /\ phase[c] \in {"check", "sign"}
  /\ EndCall(c, IF "api" \in open THEN "failed" ELSE "closed")
  /\ UNCHANGED <<poolVars, transferVars, file>>

\* Mutant of Blocked: an empty or partial file is taken for the rest of a crash,
\* to be fetched again.
BlockedIfWhole(c) == file[Target(c)] \notin {"absent", "torn"} /\ ~overwrite[c]

\* target.exists() and not overwrite.
Blocked(c) == file[Target(c)] # "absent" /\ ~overwrite[c]

\* self.get has answered, if the caller named no file (else this is the first
\* step): resolve the target and look at it.
Check(c) ==
  /\ phase[c] = "check"
  /\ IF Target(c) \in Refused THEN EndCall(c, "name")
     ELSE IF Blocked(c) THEN EndCall(c, "exists")
     ELSE Move(c, "sign")
  /\ UNCHANGED <<poolVars, transferVars, file>>

\* download_url has answered with a fresh URL: get_presigned is called.
Signed(c) ==
  /\ phase[c] = "sign" /\ "api" \in open
  /\ Move(c, "fetch")
  /\ Begin(c)
  /\ UNCHANGED <<poolVars, puts, budget, most, file>>

\* get_presigned has raised.
FetchFails(c) ==
  /\ phase[c] = "fetch" /\ pc[c] = "done" /\ outcome[c] # "returned"
  /\ EndCall(c, IF outcome[c] = "closed" THEN "closed" ELSE "failed")
  /\ UNCHANGED <<poolVars, transferVars, file>>

\* How c meets the others when it opens the file.
MeetingsOf(c) ==
  LET others  == {d \in Calls \ {c} : Target(d) = Target(c)}
      looked  == {d \in others : phase[d] \in {"sign", "fetch"}}
      writing == {d \in others : phase[d] = "open"}
      written == {d \in others : result[d] = "returned"}
  IN {<<d, c, "looked">> : d \in looked}
     \cup {<<c, d, "after">> : d \in writing \cup written}
     \cup {<<c, d, "mixed">> : d \in writing} \cup {<<d, c, "mixed">> : d \in writing}

\* It has returned, and write_bytes opens the file, which empties it.
Open(c) ==
  /\ phase[c] = "fetch" /\ pc[c] = "done" /\ outcome[c] = "returned"
  /\ file' = [file EXCEPT ![Target(c)] = "torn"]
  /\ phase' = [phase EXCEPT ![c] = "open"]
  /\ met' = met \cup MeetingsOf(c)
  /\ UNCHANGED <<poolVars, transferVars, document, overwrite, result>>

\* It has returned, but the file cannot be opened, and stays as it is.
OpenFails(c) ==
  /\ phase[c] = "fetch" /\ pc[c] = "done" /\ outcome[c] = "returned"
  /\ EndCall(c, "failed")
  /\ UNCHANGED <<poolVars, transferVars, file>>

Bytes(c) == IF body[c] = "file" THEN document[c] ELSE "other"

\* The bytes are written.  They may mix with those of a call that had the file
\* open at the same time.
Write(c) ==
  /\ phase[c] = "open"
  /\ \E now \in {Bytes(c), "torn"} :
       /\ now = "torn" => \E d \in Calls : <<d, c, "mixed">> \in met
       /\ file' = [file EXCEPT ![Target(c)] = now]
  /\ EndCall(c, "returned")
  /\ UNCHANGED <<poolVars, transferVars>>

\* The disk is full: what was written stays.
WriteFails(c) ==
  /\ phase[c] = "open"
  /\ EndCall(c, "failed")
  /\ UNCHANGED <<poolVars, transferVars, file>>

\* Async: the task is cancelled while asyncio.to_thread writes.  The thread
\* goes on.
Cancel(c) ==
  /\ phase[c] = "open" /\ result[c] = "none"
  /\ result' = [result EXCEPT ![c] = "cancelled"]
  /\ UNCHANGED <<poolVars, transferVars, phase, document, overwrite, met, file>>

\* The process dies with all its calls; a new one makes a client.
Crash ==
  /\ UnderWay # {} \/ \E t \in Transfers : pc[t] \in {"ready", "waiting"}
  /\ PoolRestart
  /\ TransferCrash
  /\ phase' = [c \in Calls |-> IF c \in UnderWay THEN "ended" ELSE phase[c]]
  /\ result' = [c \in Calls |->
       IF c \in UnderWay /\ result[c] = "none" THEN "crashed" ELSE result[c]]
  /\ UNCHANGED <<document, overwrite, met, file>>

\* Another call uploads a file.
Upload(t, h) ==
  /\ phase[t] = "new" /\ Bind(t, h) /\ Begin(t)
  /\ puts' = puts \cup {t}
  /\ UNCHANGED <<poolVars, callVars, file>>

DownloadStep(c) ==
  \/ \E h \in Handles, doc \in Documents, over \in BOOLEAN :
       Download(c, h, doc, over)
  \/ ApiFails(c) \/ Check(c) \/ Signed(c) \/ FetchFails(c)
  \/ Open(c) \/ OpenFails(c) \/ Write(c) \/ WriteFails(c) \/ Cancel(c)

Finished ==
  /\ \A c \in Calls : phase[c] = "ended" \/ pc[c] = "done"
  /\ UNCHANGED vars

Next ==
  \/ PoolNext /\ UNCHANGED <<transferVars, callVars, file>>
  \/ TransferNext /\ UNCHANGED <<poolVars, callVars, file>>
  \/ \E c \in Calls : DownloadStep(c)
  \/ \E t \in Calls, h \in Handles : Upload(t, h)
  \/ Crash
  \/ Finished

Spec == Init /\ [][Next]_vars

(***************************************************************************)
(* Properties.                                                             *)
(***************************************************************************)

\* What d wrote may have spoilt what c wrote: both wrote at the same time, or d
\* wrote later, and was told to overwrite or had looked before c's file was there.
MaySpoil(d, c) ==
  \/ <<d, c, "mixed">> \in met
  \/ <<d, c, "after">> \in met /\ (overwrite[d] \/ <<d, c, "looked">> \in met)

\* A download that returned is in its file, whole, and stays there.  Only a call
\* that was told to overwrite, or one whose look at the directory and whose write
\* lie on the two sides of this one's opening of the file, can have spoilt it:
\* however calls overlap, one that looks afterwards leaves it alone (download,
\* overwrite=False).
DownloadIsKept ==
  \A c \in Calls : result[c] = "returned" =>
    \/ file[Target(c)] = document[c]
    \/ \E d \in Calls : MaySpoil(d, c)
===============================================================================
