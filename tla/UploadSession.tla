---------------------------- MODULE UploadSession ----------------------------
(***************************************************************************)
(* The upload sessions of filefn:                                          *)
(* filefn/server/src/upload-sessions/service.ts.                           *)
(*                                                                         *)
(* Requests are served by workers that take no lock: every await of the    *)
(* service is a step, and what a request has read of a session it keeps    *)
(* (the local variable session, here snap) until it ends.  A session has   *)
(* one of three modes, which differ in what the storage does:              *)
(*   "multipart"  an S3-like upload, which is completed or aborted once;   *)
(*   "blocks"     Azure's block list, which can be committed again and is  *)
(*                not aborted (packages/storage-azure/src/adapter.ts);     *)
(*   "proxy"      the service stores each part as an object of its own and *)
(*                copies them into one when the session is completed.      *)
(*                                                                         *)
(* Every file has size 1, and a part is always sent with the same bytes    *)
(* and, by a signed URL, before it is reported.  The copy of the parts     *)
(* into one object is one step.  The loop of the clean-up over expired     *)
(* sessions is a request for each of them, which it may as well be: the    *)
(* requests share nothing but the rows read at the start.  Left out:       *)
(* idempotency keys, deduplication, access checks, sizes that do not       *)
(* match, and the deletion of files.                                       *)
(***************************************************************************)
EXTENDS Naturals, FiniteSets

CONSTANTS
  Session, File, Worker,
  Modes,        \* the modes sessions are created with
  TotalParts,
  Limit,        \* the quota
  MaxCalls,     \* bound: requests
  MaxFaults,    \* bound: requests that an error or a crash cuts short
  None

ASSUME UploadAssumption ==
  /\ Modes \subseteq {"multipart", "blocks", "proxy"}
  /\ TotalParts \in Nat /\ Limit \in Nat
  /\ MaxCalls \in Nat /\ MaxFaults \in Nat
  /\ IsFiniteSet(Worker) /\ Worker # {}
  /\ None \notin Nat

VARIABLES
  \* the database
  sessions,     \* uploadSessions
  recorded,     \* uploadParts, unique in session and number
  files,        \* files: the current version of each, None if there is no row
  versions,     \* fileVersions
  \* the storage
  upload,       \* the multipart upload of each session
  temp,         \* the objects of single parts
  object,       \* what is stored under the key of each session
  \* the quota provider
  used,
  \* time
  expired,      \* sessions with expiresAt in the past
  \* the requests, one for each worker
  pc,
  at,           \* the session it is about
  part,         \* the part it is about
  snap,         \* the row of the session it has read
  exists,       \* whether it has found a row of the file
  version,      \* versionId
  \* history and bounds
  raced,        \* sessions with two requests to complete them, or one cut short,
                \* or with a final status that was overwritten
  lost,         \* versions whose request ended before their use was recorded
  minted, calls, faults

db      == <<sessions, recorded, files, versions>>
storage == <<upload, temp, object>>
locals  == <<at, part, snap, exists, version>>
bounds  == <<minted, calls, faults>>
vars == <<db, storage, used, expired, pc, locals, raced, lost, bounds>>

Part   == 1 .. TotalParts
Number == 0 .. TotalParts + 1
Status == {"pending", "in_progress", "completed", "aborted"}
Final  == {"completed", "aborted"}

UploadRow == [mode : Modes, file : File, status : Status, version : Nat \cup {None}]

ASSUME NoneAssumption == None \notin UploadRow

Completing == {"count", "quota", "store", "clean", "stat", "find file", "save file",
               "save version", "close", "drop", "usage"}
Recording  == {"find part", "write part", "save part", "status"}
Ending     == {"abort upload", "abort temp", "abort rows", "abort",
               "clean upload", "clean temp", "clean rows", "delete"}
Phase      == {"idle"} \cup Completing \cup Recording \cup Ending

TypeOK ==
  /\ sessions \in [Session -> UploadRow \cup {None}]
  /\ recorded \subseteq Session \X Part
  /\ files \in [File -> Nat \cup {None}]
  /\ versions \subseteq [id : Nat, session : Session, file : File, mode : Modes]
  /\ upload \in [Session -> {"none", "open", "completed", "aborted"}]
  /\ temp \subseteq Session \X Part
  /\ object \in [Session -> {"none", "partial", "whole"}]
  /\ used \in Nat /\ expired \subseteq Session
  /\ pc \in [Worker -> Phase]
  /\ at \in [Worker -> Session \cup {None}]
  /\ part \in [Worker -> Part \cup {None}]
  /\ snap \in [Worker -> UploadRow \cup {None}]
  /\ exists \in [Worker -> BOOLEAN]
  /\ version \in [Worker -> Nat]
  /\ raced \subseteq Session
  /\ lost \in Nat /\ minted \in Nat
  /\ calls \in 0 .. MaxCalls /\ faults \in 0 .. MaxFaults

Init ==
  /\ sessions = [s \in Session |-> None] /\ recorded = {}
  /\ files = [f \in File |-> None] /\ versions = {}
  /\ upload = [s \in Session |-> "none"] /\ temp = {}
  /\ object = [s \in Session |-> "none"]
  /\ used = 0 /\ expired = {}
  /\ pc = [w \in Worker |-> "idle"]
  /\ at = [w \in Worker |-> None] /\ part = [w \in Worker |-> None]
  /\ snap = [w \in Worker |-> None]
  /\ exists = [w \in Worker |-> FALSE] /\ version = [w \in Worker |-> 0]
  /\ raced = {} /\ lost = 0
  /\ minted = 0 /\ calls = 0 /\ faults = 0

------------------------------------------------------------------------------
(* The steps of a request.                                                 *)

HasRow(s) == sessions[s] # None

\* Worker w takes a request about session s and reads its row.
Begin(w, s, phase) ==
  /\ calls < MaxCalls
  /\ pc[w] = "idle"
  /\ HasRow(s)
  /\ calls' = calls + 1
  /\ pc' = [pc EXCEPT ![w] = phase]
  /\ at' = [at EXCEPT ![w] = s]
  /\ snap' = [snap EXCEPT ![w] = sessions[s]]

\* Worker w goes from one await of its request to the next, or answers it and
\* forgets what it has read.
Go(w, from, to) ==
  /\ pc[w] = from
  /\ pc' = [pc EXCEPT ![w] = to]
  /\ part' = IF to = "idle" THEN [part EXCEPT ![w] = None] ELSE part
  /\ snap' = IF to = "idle" THEN [snap EXCEPT ![w] = None] ELSE snap
  /\ at' = IF to = "idle" THEN [at EXCEPT ![w] = None] ELSE at

Mode(w) == snap[w].mode

\* checkQuota: a file of size 1 fits.
Fits == used + 1 <= Limit

\* An update of the row of session s, which throws if there is none.
SetStatus(s, status) ==
  sessions' = IF HasRow(s) THEN [sessions EXCEPT ![s].status = status] ELSE sessions

------------------------------------------------------------------------------
(* createSession.                                                          *)

\* A new file, or one the client replaces.
MayUpload(f) ==
  \/ files[f] # None
  \/ \A s \in Session : HasRow(s) => sessions[s].file # f

\* An id is not used again: a session without a row that had one has expired.
NewId(s) == ~HasRow(s) /\ s \notin expired

CreateSession(s, f, mode) ==
  /\ calls < MaxCalls
  /\ NewId(s) /\ MayUpload(f) /\ Fits
  /\ calls' = calls + 1
  /\ upload' = [upload EXCEPT ![s] = IF mode = "proxy" THEN "none" ELSE "open"]
  /\ sessions' = [sessions EXCEPT
       ![s] = [mode |-> mode, file |-> f, status |-> "pending", version |-> None]]
  /\ UNCHANGED <<recorded, files, versions, temp, object, used, expired, pc, locals,
                 raced, lost, minted, faults>>

------------------------------------------------------------------------------
(* completePart, and uploadPartBytes for proxy sessions.                   *)

\* Mutant: Any part number is taken.
AnyPart(p) == TRUE

Valid(p) == p \in Part

PartStart(w, s, p) ==
  /\ Begin(w, s, "find part")
  /\ sessions[s].status \notin Final
  /\ s \notin expired
  /\ Valid(p)
  /\ part' = [part EXCEPT ![w] = p]
  /\ UNCHANGED <<db, storage, used, expired, exists, version, raced, lost, minted, faults>>

FindPart(w) ==
  /\ Go(w, "find part",
        IF <<at[w], part[w]>> \in recorded THEN "idle"
        ELSE IF Mode(w) = "proxy" THEN "write part" ELSE "save part")
  /\ UNCHANGED <<db, storage, used, expired, exists, version, raced, lost, bounds>>

WritePart(w) ==
  /\ Go(w, "write part", "save part")
  /\ temp' = temp \cup {<<at[w], part[w]>>}
  /\ UNCHANGED <<db, upload, object, used, expired, exists, version, raced, lost, bounds>>

\* The insert throws if the part has been recorded in the meantime.
SavePart(w) ==
  LET row == <<at[w], part[w]>> IN
  /\ Go(w, "save part",
        IF row \notin recorded /\ snap[w].status = "pending" THEN "status" ELSE "idle")
  /\ recorded' = recorded \cup {row}
  /\ UNCHANGED <<sessions, files, versions, storage, used, expired, exists, version,
                 raced, lost, bounds>>

\* The status was "pending" when the request began.
PartStatus(w) ==
  LET s == at[w] IN
  /\ Go(w, "status", "idle")
  /\ SetStatus(s, "in_progress")
  /\ raced' = IF HasRow(s) /\ sessions[s].status \in Final THEN raced \cup {s} ELSE raced
  /\ UNCHANGED <<recorded, files, versions, storage, used, expired, exists, version,
                 lost, bounds>>

------------------------------------------------------------------------------
(* completeSession.                                                        *)

\* A completed session is answered from its row.
CompleteStart(w, s) ==
  /\ Begin(w, s, "count")
  /\ sessions[s].status \notin Final
  /\ s \notin expired
  /\ raced' = IF \E v \in Worker : pc[v] \in Completing /\ at[v] = s
              THEN raced \cup {s} ELSE raced
  /\ UNCHANGED <<db, storage, used, expired, part, exists, version, lost, minted, faults>>

AllParts(s, set) == \A p \in Part : <<s, p>> \in set

CountParts(w) ==
  /\ Go(w, "count", IF AllParts(at[w], recorded) THEN "quota" ELSE "idle")
  /\ UNCHANGED <<db, storage, used, expired, exists, version, raced, lost, bounds>>

\* Mutant: The quota is not checked again.
QuotaUnchecked(w) ==
  /\ Go(w, "quota", "store")
  /\ UNCHANGED <<db, storage, used, expired, exists, version, raced, lost, bounds>>

CheckQuota(w) ==
  /\ Go(w, "quota", IF Fits THEN "store" ELSE "idle")
  /\ UNCHANGED <<db, storage, used, expired, exists, version, raced, lost, bounds>>

\* Mutant: The error of a storage that has already completed the upload is ignored.
StoreTwice(w) ==
  /\ Go(w, "store", "stat")
  /\ object' = [object EXCEPT ![at[w]] = "whole"]
  /\ upload' = [upload EXCEPT ![at[w]] = "completed"]
  /\ UNCHANGED <<db, temp, used, expired, exists, version, raced, lost, bounds>>

\* An S3-like upload that is not open any more is an error.
StoreMultipart(w) ==
  LET s == at[w]
      open == upload[s] = "open" IN
  /\ Go(w, "store", IF open THEN "stat" ELSE "idle")
  /\ Mode(w) = "multipart"
  /\ upload' = IF open THEN [upload EXCEPT ![s] = "completed"] ELSE upload
  /\ object' = IF open THEN [object EXCEPT ![s] = "whole"] ELSE object
  /\ UNCHANGED <<db, temp, used, expired, exists, version, raced, lost, bounds>>

StoreBlocks(w) ==
  /\ Go(w, "store", "stat")
  /\ Mode(w) = "blocks"
  /\ object' = [object EXCEPT ![at[w]] = "whole"]
  /\ UNCHANGED <<db, upload, temp, used, expired, exists, version, raced, lost, bounds>>

\* The parts are copied over what is stored under the key; a part that is not
\* there ends the request and leaves what was copied.
StoreProxy(w) ==
  LET s == at[w]
      all == AllParts(s, temp) IN
  /\ Go(w, "store", IF all THEN "clean" ELSE "idle")
  /\ Mode(w) = "proxy"
  /\ object' = [object EXCEPT ![s] = IF all THEN "whole" ELSE "partial"]
  /\ UNCHANGED <<db, upload, temp, used, expired, exists, version, raced, lost, bounds>>

Store(w) == StoreMultipart(w) \/ StoreBlocks(w) \/ StoreProxy(w)

CleanParts(w) ==
  /\ Go(w, "clean", "stat")
  /\ temp' = {t \in temp : t[1] # at[w]}
  /\ UNCHANGED <<db, upload, object, used, expired, exists, version, raced, lost, bounds>>

\* An object of another size ends the request; otherwise versionId is drawn.
Stat(w) ==
  LET whole == object[at[w]] = "whole" IN
  /\ Go(w, "stat", IF whole THEN "find file" ELSE "idle")
  /\ version' = IF whole THEN [version EXCEPT ![w] = minted] ELSE version
  /\ minted' = IF whole THEN minted + 1 ELSE minted
  /\ UNCHANGED <<db, storage, used, expired, exists, raced, lost, calls, faults>>

FindFile(w) ==
  /\ Go(w, "find file", "save file")
  /\ exists' = [exists EXCEPT ![w] = files[snap[w].file] # None]
  /\ UNCHANGED <<db, storage, used, expired, version, raced, lost, bounds>>

\* The insert throws if the file has been created in the meantime.
SaveFile(w) ==
  LET f == snap[w].file
      saved == exists[w] \/ files[f] = None IN
  /\ Go(w, "save file", IF saved THEN "save version" ELSE "idle")
  /\ files' = IF saved THEN [files EXCEPT ![f] = version[w]] ELSE files
  /\ UNCHANGED <<sessions, recorded, versions, storage, used, expired, exists, version,
                 raced, lost, bounds>>

SaveVersion(w) ==
  /\ Go(w, "save version", "close")
  /\ versions' = versions \cup
       {[id |-> version[w], session |-> at[w], file |-> snap[w].file, mode |-> Mode(w)]}
  /\ UNCHANGED <<sessions, recorded, files, storage, used, expired, exists, version,
                 raced, lost, bounds>>

\* The update throws if the session has been deleted.
Close(w) ==
  LET s == at[w] IN
  /\ Go(w, "close", IF HasRow(s) THEN "drop" ELSE "idle")
  /\ sessions' = IF HasRow(s)
                 THEN [sessions EXCEPT ![s].status = "completed", ![s].version = version[w]]
                 ELSE sessions
  /\ lost' = IF HasRow(s) THEN lost ELSE lost + 1
  /\ UNCHANGED <<recorded, files, versions, storage, used, expired, exists, version,
                 raced, bounds>>

DropParts(w) ==
  /\ Go(w, "drop", "usage")
  /\ recorded' = {r \in recorded : r[1] # at[w]}
  /\ UNCHANGED <<sessions, files, versions, storage, used, expired, exists, version,
                 raced, lost, bounds>>

RecordUsage(w) ==
  /\ Go(w, "usage", "idle")
  /\ used' = used + 1
  /\ UNCHANGED <<db, storage, expired, exists, version, raced, lost, bounds>>

------------------------------------------------------------------------------
(* abortSession and cleanupExpiredSessions.                                *)

AbortStart(w, s) ==
  /\ Begin(w, s, "abort upload")
  /\ sessions[s].status # "completed"
  /\ UNCHANGED <<db, storage, used, expired, part, exists, version, raced, lost, minted,
                 faults>>

CleanupStart(w, s) ==
  /\ Begin(w, s, "clean upload")
  /\ s \in expired
  /\ sessions[s].status # "completed"
  /\ UNCHANGED <<db, storage, used, expired, part, exists, version, raced, lost, minted,
                 faults>>

\* Mutant: Aborting deletes what is stored under the key of the session.
AbortObject(w) ==
  /\ Go(w, "abort upload", "abort temp") \/ Go(w, "clean upload", "clean temp")
  /\ upload' = upload
  /\ object' = [object EXCEPT ![at[w]] = "none"]
  /\ UNCHANGED <<db, temp, used, expired, exists, version, raced, lost, bounds>>

\* Errors are ignored.
AbortUpload(w) ==
  LET s == at[w] IN
  /\ Go(w, "abort upload", "abort temp") \/ Go(w, "clean upload", "clean temp")
  /\ upload' = IF Mode(w) = "multipart" /\ upload[s] = "open"
               THEN [upload EXCEPT ![s] = "aborted"] ELSE upload
  /\ UNCHANGED <<db, temp, object, used, expired, exists, version, raced, lost, bounds>>

\* deleteProxyTempPartObjects: only of parts that are recorded.
AbortTemp(w) ==
  /\ Go(w, "abort temp", "abort rows") \/ Go(w, "clean temp", "clean rows")
  /\ temp' = IF Mode(w) = "proxy"
             THEN {t \in temp : t[1] # at[w] \/ t \notin recorded} ELSE temp
  /\ UNCHANGED <<db, upload, object, used, expired, exists, version, raced, lost, bounds>>

AbortRows(w) ==
  /\ Go(w, "abort rows", "abort") \/ Go(w, "clean rows", "delete")
  /\ recorded' = {r \in recorded : r[1] # at[w]}
  /\ UNCHANGED <<sessions, files, versions, storage, used, expired, exists, version,
                 raced, lost, bounds>>

Abort(w) ==
  /\ Go(w, "abort", "idle")
  /\ SetStatus(at[w], "aborted")
  /\ UNCHANGED <<recorded, files, versions, storage, used, expired, exists, version,
                 raced, lost, bounds>>

Delete(w) ==
  /\ Go(w, "delete", "idle")
  /\ sessions' = [sessions EXCEPT ![at[w]] = None]
  /\ UNCHANGED <<recorded, files, versions, storage, used, expired, exists, version,
                 raced, lost, bounds>>

------------------------------------------------------------------------------
(* Time, and requests that end early.                                      *)

Expire(s) ==
  /\ HasRow(s) /\ s \notin expired
  /\ expired' = expired \cup {s}
  /\ UNCHANGED <<db, storage, used, pc, locals, raced, lost, bounds>>

\* An error that is not caught, or the process of the worker dies.
Cut(w) ==
  /\ faults < MaxFaults
  /\ pc[w] # "idle" /\ Go(w, pc[w], "idle")
  /\ faults' = faults + 1
  /\ raced' = IF pc[w] \in Completing THEN raced \cup {at[w]} ELSE raced
  /\ lost' = IF pc[w] \in {"close", "drop", "usage"} THEN lost + 1 ELSE lost
  /\ UNCHANGED <<db, storage, used, expired, exists, version, minted, calls>>

Next ==
  \/ \E s \in Session, f \in File, mode \in Modes : CreateSession(s, f, mode)
  \/ \E w \in Worker, s \in Session, p \in Number : PartStart(w, s, p)
  \/ \E w \in Worker : FindPart(w) \/ WritePart(w) \/ SavePart(w) \/ PartStatus(w)
  \/ \E w \in Worker, s \in Session : CompleteStart(w, s)
  \/ \E w \in Worker : CountParts(w) \/ CheckQuota(w) \/ Store(w) \/ CleanParts(w) \/ Stat(w)
  \/ \E w \in Worker : FindFile(w) \/ SaveFile(w) \/ SaveVersion(w) \/ Close(w)
  \/ \E w \in Worker : DropParts(w) \/ RecordUsage(w)
  \/ \E w \in Worker, s \in Session : AbortStart(w, s) \/ CleanupStart(w, s)
  \/ \E w \in Worker : AbortUpload(w) \/ AbortTemp(w) \/ AbortRows(w) \/ Abort(w) \/ Delete(w)
  \/ \E s \in Session : Expire(s)
  \/ \E w \in Worker : Cut(w)

Spec == Init /\ [][Next]_vars

------------------------------------------------------------------------------
(* Properties.                                                             *)

\* However requests to complete and to abort a session overlap, are repeated
\* after an error or come after a status that was set back to "in_progress"
\* (service.ts:685), a multipart session makes one version at most: its upload
\* is completed once (service.ts:764).  The sessions of the other modes have no
\* such guard and may make several.
OneVersion ==
  \A u, v \in versions :
    u.session = v.session /\ u.mode = "multipart" /\ v.mode = "multipart" => u = v

\* The object of every version is stored and whole, whatever is aborted, cleaned
\* up or completed again.  In proxy mode a second request to complete a session
\* copies parts that the first has deleted over the object (service.ts:773), so
\* there this is claimed of sessions that one request, not cut short, completed.
VersionHasObject ==
  \A v \in versions :
    v.mode # "proxy" \/ v.session \notin raced => object[v.session] = "whole"

\* The quota is checked before a version is made and charged after (service.ts:734
\* and 929): versions exceed it by the requests that overlap and by the versions
\* whose request ended in between, and by no more.
QuotaBounded ==
  /\ used + lost <= Cardinality(versions)
  /\ Cardinality(versions) <= Limit + lost + Cardinality(Worker) - 1
=============================================================================
