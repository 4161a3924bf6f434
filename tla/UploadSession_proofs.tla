------------------------ MODULE UploadSession_proofs ------------------------
(***************************************************************************)
(* Proofs about the upload sessions: for every number of sessions, workers *)
(* and parts, however requests interleave and end early, a multipart       *)
(* session makes one version at most, versions have their object, and they *)
(* exceed the quota by no more than the requests that overlap.             *)
(***************************************************************************)
EXTENDS UploadSession, TLAPS, FiniteSetTheorems

\* A request under way knows its session, its row and, if need be, its part.
Busy ==
  \A w \in Worker : pc[w] # "idle" =>
    /\ at[w] \in Session /\ snap[w] \in UploadRow
    /\ pc[w] \in Recording => part[w] \in Part

Types == TypeOK /\ Busy

\* A session that was ever created has a row or has expired.
Used(s) == HasRow(s) \/ s \in expired

Cleaning == {"clean upload", "clean temp", "clean rows", "delete"}

\* Nothing is known of a session before it is created.
UsedOnly ==
  /\ \A w \in Worker : pc[w] # "idle" => Used(at[w])
  /\ \A v \in versions : Used(v.session)
  /\ \A w \in Worker : pc[w] \in Cleaning => at[w] \in expired

\* Every copy of a session's mode is what the storage knows.
Proxy(s) == upload[s] = "none"

ModesAgree ==
  /\ \A s \in Session : HasRow(s) => (sessions[s].mode = "proxy" <=> Proxy(s))
  /\ \A w \in Worker : pc[w] # "idle" => (Mode(w) = "proxy" <=> Proxy(at[w]))
  /\ \A v \in versions : v.mode = "proxy" <=> Proxy(v.session)
  /\ \A w \in Worker : pc[w] = "clean" => Mode(w) = "proxy"

\* The phases that follow the look at the object, up to the version.
Late == {"find file", "save file", "save version"}

\* A multipart request that is past the storage and has saved no version.
Stored(w) ==
  /\ pc[w] = "stat" \/ pc[w] \in Late
  /\ Mode(w) = "multipart"

\* The upload was completed for one request, which makes the one version.
Guarded ==
  /\ \A w \in Worker : Stored(w) => upload[at[w]] = "completed"
  /\ \A v \in versions : v.mode = "multipart" => upload[v.session] = "completed"
  /\ \A w, x \in Worker : Stored(w) /\ Stored(x) /\ at[w] = at[x] => w = x
  /\ \A w \in Worker, v \in versions :
       Stored(w) /\ v.mode = "multipart" => v.session # at[w]

\* The phases of a request that has not saved its version.
Before == {"count", "quota", "store", "clean", "stat", "find file", "save file",
           "save version"}

\* A session that is not raced is completed by one request, and once.
Alone ==
  /\ \A w, x \in Worker :
       pc[w] \in Completing /\ pc[x] \in Completing /\ at[w] = at[x] /\ at[w] \notin raced
       => w = x
  /\ \A w \in Worker, v \in versions :
       pc[w] \in Before /\ v.session = at[w] => at[w] \in raced
  /\ \A v \in versions :
       \/ v.session \in raced
       \/ HasRow(v.session) => sessions[v.session].status \in Final
       \/ \E w \in Worker : pc[w] = "close" /\ at[w] = v.session

\* A request that has seen the size of the object finds it whole from then on.
Whole ==
  \A w \in Worker :
    /\ pc[w] \in Late
    /\ Mode(w) # "proxy" \/ at[w] \notin raced
    => object[at[w]] = "whole"

Facts == UsedOnly /\ ModesAgree /\ Guarded /\ Alone /\ Whole

IInv == Types /\ Facts /\ OneVersion /\ VersionHasObject

----------------------------------------------------------------------------
(* Types. *)

USE UploadAssumption, NoneAssumption

\* What beginning a request and going on with it do to the types.
LEMMA BeginType ==
  ASSUME Types, NEW w \in Worker, NEW s \in Session, NEW phase \in Phase \ {"idle"},
         Begin(w, s, phase), part' \in [Worker -> Part \cup {None}],
         phase \in Recording => part'[w] \in Part,
         \A x \in Worker \ {w} : part'[x] = part[x]
  PROVE  /\ pc' \in [Worker -> Phase] /\ at' \in [Worker -> Session \cup {None}]
         /\ snap' \in [Worker -> UploadRow \cup {None}]
         /\ calls' \in 0 .. MaxCalls
         /\ Busy'
BY DEF Types, TypeOK, Busy, Begin, HasRow

LEMMA GoType ==
  ASSUME Types, NEW w \in Worker, NEW from \in Phase, NEW to \in Phase, Go(w, from, to),
         from # "idle",
         to \in Recording => from \in Recording
  PROVE  /\ pc' \in [Worker -> Phase] /\ at' \in [Worker -> Session \cup {None}]
         /\ snap' \in [Worker -> UploadRow \cup {None}]
         /\ part' \in [Worker -> Part \cup {None}]
         /\ Busy'
BY DEF Types, TypeOK, Busy, Go

\* The part of the types that BeginType and GoType do not cover.
RestType ==
  /\ sessions \in [Session -> UploadRow \cup {None}]
  /\ recorded \subseteq Session \X Part
  /\ files \in [File -> Nat \cup {None}]
  /\ versions \subseteq [id : Nat, session : Session, file : File, mode : Modes]
  /\ upload \in [Session -> {"none", "open", "completed", "aborted"}]
  /\ temp \subseteq Session \X Part
  /\ object \in [Session -> {"none", "partial", "whole"}]
  /\ used \in Nat /\ expired \subseteq Session
  /\ exists \in [Worker -> BOOLEAN]
  /\ version \in [Worker -> Nat]
  /\ raced \subseteq Session
  /\ lost \in Nat /\ minted \in Nat
  /\ faults \in 0 .. MaxFaults

LEMMA TypeParts ==
  TypeOK <=> /\ RestType
             /\ pc \in [Worker -> Phase]
             /\ at \in [Worker -> Session \cup {None}]
             /\ part \in [Worker -> Part \cup {None}]
             /\ snap \in [Worker -> UploadRow \cup {None}]
             /\ calls \in 0 .. MaxCalls
BY DEF TypeOK, RestType

LEMMA NextNumber == \A n \in Nat : n + 1 \in Nat
OBVIOUS

LEMMA BusyAt ==
  ASSUME Types, NEW w \in Worker, pc[w] # "idle"
  PROVE  /\ at[w] \in Session /\ snap[w] \in UploadRow
         /\ pc[w] \in Recording => part[w] \in Part
BY DEF Types, Busy

LEMMA SetStatusType ==
  ASSUME RestType, NEW s \in Session, NEW status \in Status, SetStatus(s, status)
  PROVE  sessions' \in [Session -> UploadRow \cup {None}]
BY DEF RestType, SetStatus, HasRow, UploadRow

LEMMA TypePartsNext ==
  ASSUME RestType', Busy',
         pc' \in [Worker -> Phase],
         at' \in [Worker -> Session \cup {None}],
         part' \in [Worker -> Part \cup {None}],
         snap' \in [Worker -> UploadRow \cup {None}],
         calls' \in 0 .. MaxCalls
  PROVE  Types'
BY DEF Types, TypeOK, RestType

LEMMA TypeInit == Init => Types
<1> SUFFICES ASSUME Init PROVE Types
  OBVIOUS
<1>1. TypeOK
  BY DEF Init, TypeOK, Phase
<1>2. Busy
  BY DEF Init, Busy
<1> QED
  BY <1>1, <1>2 DEF Types

LEMMA TypeStep == Types /\ [Next]_vars => Types'
<1> SUFFICES ASSUME Types, [Next]_vars PROVE Types'
  OBVIOUS
<1> USE DEF vars, db, storage, locals, bounds
<1>0. RestType
  BY TypeParts DEF Types
<1>1. ASSUME NEW s \in Session, NEW f \in File, NEW mode \in Modes,
             CreateSession(s, f, mode)
      PROVE  Types'
  <2>1. RestType' /\ calls' \in 0 .. MaxCalls
    BY <1>0, <1>1, TypeParts DEF Types, RestType, CreateSession, UploadRow, Status
  <2>2. Busy'
    BY <1>1 DEF Types, Busy, CreateSession
  <2> QED
    BY <1>1, <2>1, <2>2, TypePartsNext DEF Types, TypeOK, CreateSession
<1>2. ASSUME NEW w \in Worker, NEW s \in Session, NEW p \in Number, PartStart(w, s, p)
      PROVE  Types'
  <2>1. part' \in [Worker -> Part \cup {None}] /\ part'[w] \in Part
    BY <1>2 DEF Types, TypeOK, PartStart, Valid
  <2>2. \A x \in Worker \ {w} : part'[x] = part[x]
    BY <1>2 DEF Types, TypeOK, PartStart
  <2>3. RestType'
    BY <1>0, <1>2 DEF RestType, PartStart
  <2> QED
    BY <1>2, <2>1, <2>2, <2>3, BeginType, TypePartsNext DEF Types, PartStart, Phase, Recording
<1>3. ASSUME NEW w \in Worker, NEW s \in Session, CompleteStart(w, s)
      PROVE  Types'
  <2>1. part' \in [Worker -> Part \cup {None}]
    BY <1>3 DEF Types, TypeOK, CompleteStart
  <2>2. RestType'
    BY <1>0, <1>3 DEF RestType, CompleteStart
  <2> QED
    BY <1>3, <2>1, <2>2, BeginType, TypePartsNext DEF Types, CompleteStart, Phase, Recording,
       Completing, Ending
<1>4. ASSUME NEW w \in Worker, NEW s \in Session, AbortStart(w, s)
      PROVE  Types'
  <2>1. part' \in [Worker -> Part \cup {None}]
    BY <1>4 DEF Types, TypeOK, AbortStart
  <2>2. RestType'
    BY <1>0, <1>4 DEF RestType, AbortStart
  <2> QED
    BY <1>4, <2>1, <2>2, BeginType, TypePartsNext DEF Types, AbortStart, Phase, Recording,
       Completing, Ending
<1>5. ASSUME NEW w \in Worker, NEW s \in Session, CleanupStart(w, s)
      PROVE  Types'
  <2>1. part' \in [Worker -> Part \cup {None}]
    BY <1>5 DEF Types, TypeOK, CleanupStart
  <2>2. RestType'
    BY <1>0, <1>5 DEF RestType, CleanupStart
  <2> QED
    BY <1>5, <2>1, <2>2, BeginType, TypePartsNext DEF Types, CleanupStart, Phase, Recording,
       Completing, Ending
<1>6. ASSUME NEW w \in Worker, FindPart(w)
      PROVE  Types'
  <2>1. PICK from \in {"find part"}, to \in {"idle", "write part", "save part"} :
          Go(w, from, to)
    BY <1>6 DEF FindPart
  <2>2. RestType'
    BY <1>0, <1>6, <2>1 DEF RestType, FindPart, Types, Go
  <2>3. calls' \in 0 .. MaxCalls
    BY <1>6 DEF FindPart, Types, TypeOK
  <2> QED
    BY <2>1, <2>2, <2>3, GoType, TypePartsNext DEF Types, Phase, Recording, Completing, Ending
<1>7. ASSUME NEW w \in Worker, WritePart(w)
      PROVE  Types'
  <2>1. PICK from \in {"write part"}, to \in {"save part"} :
          Go(w, from, to)
    BY <1>7 DEF WritePart
  <2>a. <<at[w], part[w]>> \in Session \X Part
    BY <1>0, <1>7, <2>1, BusyAt DEF Recording, Go
  <2>2. RestType'
    BY <1>0, <1>7, <2>1, <2>a DEF RestType, WritePart
  <2>3. calls' \in 0 .. MaxCalls
    BY <1>7 DEF WritePart, Types, TypeOK
  <2> QED
    BY <2>1, <2>2, <2>3, GoType, TypePartsNext DEF Types, Phase, Recording, Completing, Ending
<1>8. ASSUME NEW w \in Worker, SavePart(w)
      PROVE  Types'
  <2>1. PICK from \in {"save part"}, to \in {"status", "idle"} :
          Go(w, from, to)
    BY <1>8 DEF SavePart
  <2>a. <<at[w], part[w]>> \in Session \X Part
    BY <1>0, <1>8, <2>1, BusyAt DEF Recording, Go
  <2>2. RestType'
    BY <1>0, <1>8, <2>1, <2>a DEF RestType, SavePart
  <2>3. calls' \in 0 .. MaxCalls
    BY <1>8 DEF SavePart, Types, TypeOK
  <2> QED
    BY <2>1, <2>2, <2>3, GoType, TypePartsNext DEF Types, Phase, Recording, Completing, Ending
<1>9. ASSUME NEW w \in Worker, PartStatus(w)
      PROVE  Types'
  <2>1. PICK from \in {"status"}, to \in {"idle"} :
          Go(w, from, to)
    BY <1>9 DEF PartStatus
  <2>a. at[w] \in Session /\ sessions' \in [Session -> UploadRow \cup {None}]
    BY <1>0, <1>9, <2>1, BusyAt, SetStatusType DEF PartStatus, Go, Status
  <2>2. RestType'
    BY <1>0, <1>9, <2>1, <2>a DEF RestType, PartStatus
  <2>3. calls' \in 0 .. MaxCalls
    BY <1>9 DEF PartStatus, Types, TypeOK
  <2> QED
    BY <2>1, <2>2, <2>3, GoType, TypePartsNext DEF Types, Phase, Recording, Completing, Ending
<1>10. ASSUME NEW w \in Worker, CountParts(w)
      PROVE  Types'
  <2>1. PICK from \in {"count"}, to \in {"quota", "idle"} :
          Go(w, from, to)
    BY <1>10 DEF CountParts
  <2>2. RestType'
    BY <1>0, <1>10, <2>1 DEF RestType, CountParts, Types, Go
  <2>3. calls' \in 0 .. MaxCalls
    BY <1>10 DEF CountParts, Types, TypeOK
  <2> QED
    BY <2>1, <2>2, <2>3, GoType, TypePartsNext DEF Types, Phase, Recording, Completing, Ending
<1>11. ASSUME NEW w \in Worker, CheckQuota(w)
      PROVE  Types'
  <2>1. PICK from \in {"quota"}, to \in {"store", "idle"} :
          Go(w, from, to)
    BY <1>11 DEF CheckQuota
  <2>2. RestType'
    BY <1>0, <1>11, <2>1 DEF RestType, CheckQuota, Types, Go
  <2>3. calls' \in 0 .. MaxCalls
    BY <1>11 DEF CheckQuota, Types, TypeOK
  <2> QED
    BY <2>1, <2>2, <2>3, GoType, TypePartsNext DEF Types, Phase, Recording, Completing, Ending
<1>12. ASSUME NEW w \in Worker, StoreMultipart(w)
      PROVE  Types'
  <2>1. PICK from \in {"store"}, to \in {"stat", "idle"} :
          Go(w, from, to)
    BY <1>12 DEF StoreMultipart
  <2>2. RestType'
    BY <1>0, <1>12, <2>1 DEF RestType, StoreMultipart, Types, Go
  <2>3. calls' \in 0 .. MaxCalls
    BY <1>12 DEF StoreMultipart, Types, TypeOK
  <2> QED
    BY <2>1, <2>2, <2>3, GoType, TypePartsNext DEF Types, Phase, Recording, Completing, Ending
<1>13. ASSUME NEW w \in Worker, StoreBlocks(w)
      PROVE  Types'
  <2>1. PICK from \in {"store"}, to \in {"stat"} :
          Go(w, from, to)
    BY <1>13 DEF StoreBlocks
  <2>2. RestType'
    BY <1>0, <1>13, <2>1 DEF RestType, StoreBlocks, Types, Go
  <2>3. calls' \in 0 .. MaxCalls
    BY <1>13 DEF StoreBlocks, Types, TypeOK
  <2> QED
    BY <2>1, <2>2, <2>3, GoType, TypePartsNext DEF Types, Phase, Recording, Completing, Ending
<1>14. ASSUME NEW w \in Worker, StoreProxy(w)
      PROVE  Types'
  <2>1. PICK from \in {"store"}, to \in {"clean", "idle"} :
          Go(w, from, to)
    BY <1>14 DEF StoreProxy
  <2>2. RestType'
    BY <1>0, <1>14, <2>1 DEF RestType, StoreProxy, Types, Go
  <2>3. calls' \in 0 .. MaxCalls
    BY <1>14 DEF StoreProxy, Types, TypeOK
  <2> QED
    BY <2>1, <2>2, <2>3, GoType, TypePartsNext DEF Types, Phase, Recording, Completing, Ending
<1>15. ASSUME NEW w \in Worker, CleanParts(w)
      PROVE  Types'
  <2>1. PICK from \in {"clean"}, to \in {"stat"} :
          Go(w, from, to)
    BY <1>15 DEF CleanParts
  <2>2. RestType'
    BY <1>0, <1>15, <2>1 DEF RestType, CleanParts, Types, Go
  <2>3. calls' \in 0 .. MaxCalls
    BY <1>15 DEF CleanParts, Types, TypeOK
  <2> QED
    BY <2>1, <2>2, <2>3, GoType, TypePartsNext DEF Types, Phase, Recording, Completing, Ending
<1>16. ASSUME NEW w \in Worker, Stat(w)
      PROVE  Types'
  <2>1. PICK from \in {"stat"}, to \in {"find file", "idle"} :
          Go(w, from, to)
    BY <1>16 DEF Stat
  <2>2. RestType'
    <3>1. CASE object[at[w]] = "whole"
      <4>1. version' = [version EXCEPT ![w] = minted] /\ minted' = minted + 1
        BY <1>16, <3>1 DEF Stat
      <4>2. version' \in [Worker -> Nat] /\ minted' \in Nat
        BY <1>16, <1>0, <4>1, NextNumber DEF RestType
      <4>3. UNCHANGED <<sessions, recorded, files, versions, upload, temp, object, used,
                        expired, exists, raced, lost, faults>>
        BY <1>16 DEF Stat
      <4> QED
        BY <1>0, <4>2, <4>3 DEF RestType
    <3>2. CASE object[at[w]] # "whole"
      BY <1>16, <1>0, <3>2 DEF Stat, RestType
    <3> QED
      BY <3>1, <3>2
  <2>3. calls' \in 0 .. MaxCalls
    BY <1>16 DEF Stat, Types, TypeOK
  <2> QED
    BY <2>1, <2>2, <2>3, GoType, TypePartsNext DEF Types, Phase, Recording, Completing, Ending
<1>17. ASSUME NEW w \in Worker, FindFile(w)
      PROVE  Types'
  <2>1. PICK from \in {"find file"}, to \in {"save file"} :
          Go(w, from, to)
    BY <1>17 DEF FindFile
  <2>2. RestType'
    BY <1>0, <1>17, <2>1 DEF RestType, FindFile, Types, Go
  <2>3. calls' \in 0 .. MaxCalls
    BY <1>17 DEF FindFile, Types, TypeOK
  <2> QED
    BY <2>1, <2>2, <2>3, GoType, TypePartsNext DEF Types, Phase, Recording, Completing, Ending
<1>18. ASSUME NEW w \in Worker, SaveFile(w)
      PROVE  Types'
  <2>1. PICK from \in {"save file"}, to \in {"save version", "idle"} :
          Go(w, from, to)
    BY <1>18 DEF SaveFile
  <2>2. RestType'
    BY <1>0, <1>18, <2>1 DEF RestType, SaveFile, Types, Go, Mode, Busy, UploadRow
  <2>3. calls' \in 0 .. MaxCalls
    BY <1>18 DEF SaveFile, Types, TypeOK
  <2> QED
    BY <2>1, <2>2, <2>3, GoType, TypePartsNext DEF Types, Phase, Recording, Completing, Ending
<1>19. ASSUME NEW w \in Worker, SaveVersion(w)
      PROVE  Types'
  <2>1. PICK from \in {"save version"}, to \in {"close"} :
          Go(w, from, to)
    BY <1>19 DEF SaveVersion
  <2>a. /\ version[w] \in Nat /\ at[w] \in Session
        /\ snap[w].file \in File /\ snap[w].mode \in Modes
    BY <1>0, <2>1, BusyAt DEF RestType, Go, UploadRow
  <2> DEFINE new == [id |-> version[w], session |-> at[w], file |-> snap[w].file,
                     mode |-> snap[w].mode]
  <2>n. new \in [id : Nat, session : Session, file : File, mode : Modes]
    BY <2>a
  <2>v. versions' = versions \cup {new}
    BY <1>19 DEF SaveVersion, Mode
  <2> HIDE DEF new
  <2>b. versions' \subseteq [id : Nat, session : Session, file : File, mode : Modes]
    BY <1>0, <2>n, <2>v DEF RestType
  <2>2. RestType'
    BY <1>19, <1>0, <2>b DEF RestType, SaveVersion
  <2>3. calls' \in 0 .. MaxCalls
    BY <1>19 DEF SaveVersion, Types, TypeOK
  <2> QED
    BY <2>1, <2>2, <2>3, GoType, TypePartsNext DEF Types, Phase, Recording, Completing, Ending
<1>20. ASSUME NEW w \in Worker, Close(w)
      PROVE  Types'
  <2>1. PICK from \in {"close"}, to \in {"drop", "idle"} :
          Go(w, from, to)
    BY <1>20 DEF Close
  <2>a. sessions' \in [Session -> UploadRow \cup {None}]
    BY <1>0, <1>20, <2>1, BusyAt DEF Close, Go, RestType, HasRow, UploadRow, Status
  <2>2. RestType'
    BY <1>0, <1>20, <2>1, <2>a DEF RestType, Close
  <2>3. calls' \in 0 .. MaxCalls
    BY <1>20 DEF Close, Types, TypeOK
  <2> QED
    BY <2>1, <2>2, <2>3, GoType, TypePartsNext DEF Types, Phase, Recording, Completing, Ending
<1>21. ASSUME NEW w \in Worker, DropParts(w)
      PROVE  Types'
  <2>1. PICK from \in {"drop"}, to \in {"usage"} :
          Go(w, from, to)
    BY <1>21 DEF DropParts
  <2>2. RestType'
    BY <1>0, <1>21, <2>1 DEF RestType, DropParts, Types, Go
  <2>3. calls' \in 0 .. MaxCalls
    BY <1>21 DEF DropParts, Types, TypeOK
  <2> QED
    BY <2>1, <2>2, <2>3, GoType, TypePartsNext DEF Types, Phase, Recording, Completing, Ending
<1>22. ASSUME NEW w \in Worker, RecordUsage(w)
      PROVE  Types'
  <2>1. PICK from \in {"usage"}, to \in {"idle"} :
          Go(w, from, to)
    BY <1>22 DEF RecordUsage
  <2>2. RestType'
    BY <1>0, <1>22, <2>1 DEF RestType, RecordUsage, Types, Go
  <2>3. calls' \in 0 .. MaxCalls
    BY <1>22 DEF RecordUsage, Types, TypeOK
  <2> QED
    BY <2>1, <2>2, <2>3, GoType, TypePartsNext DEF Types, Phase, Recording, Completing, Ending
<1>23. ASSUME NEW w \in Worker, AbortUpload(w)
      PROVE  Types'
  <2>1. PICK from \in {"abort upload", "clean upload"}, to \in {"abort temp", "clean temp"} :
          Go(w, from, to)
    BY <1>23 DEF AbortUpload
  <2>2. RestType'
    BY <1>0, <1>23, <2>1 DEF RestType, AbortUpload, Types, Go
  <2>3. calls' \in 0 .. MaxCalls
    BY <1>23 DEF AbortUpload, Types, TypeOK
  <2> QED
    BY <2>1, <2>2, <2>3, GoType, TypePartsNext DEF Types, Phase, Recording, Completing, Ending
<1>24. ASSUME NEW w \in Worker, AbortTemp(w)
      PROVE  Types'
  <2>1. PICK from \in {"abort temp", "clean temp"}, to \in {"abort rows", "clean rows"} :
          Go(w, from, to)
    BY <1>24 DEF AbortTemp
  <2>2. RestType'
    BY <1>0, <1>24, <2>1 DEF RestType, AbortTemp, Types, Go
  <2>3. calls' \in 0 .. MaxCalls
    BY <1>24 DEF AbortTemp, Types, TypeOK
  <2> QED
    BY <2>1, <2>2, <2>3, GoType, TypePartsNext DEF Types, Phase, Recording, Completing, Ending
<1>25. ASSUME NEW w \in Worker, AbortRows(w)
      PROVE  Types'
  <2>1. PICK from \in {"abort rows", "clean rows"}, to \in {"abort", "delete"} :
          Go(w, from, to)
    BY <1>25 DEF AbortRows
  <2>2. RestType'
    BY <1>0, <1>25, <2>1 DEF RestType, AbortRows, Types, Go
  <2>3. calls' \in 0 .. MaxCalls
    BY <1>25 DEF AbortRows, Types, TypeOK
  <2> QED
    BY <2>1, <2>2, <2>3, GoType, TypePartsNext DEF Types, Phase, Recording, Completing, Ending
<1>26. ASSUME NEW w \in Worker, Abort(w)
      PROVE  Types'
  <2>1. PICK from \in {"abort"}, to \in {"idle"} :
          Go(w, from, to)
    BY <1>26 DEF Abort
  <2>a. sessions' \in [Session -> UploadRow \cup {None}]
    BY <1>0, <1>26, <2>1, BusyAt, SetStatusType DEF Abort, Go, Status
  <2>2. RestType'
    BY <1>0, <1>26, <2>1, <2>a DEF RestType, Abort
  <2>3. calls' \in 0 .. MaxCalls
    BY <1>26 DEF Abort, Types, TypeOK
  <2> QED
    BY <2>1, <2>2, <2>3, GoType, TypePartsNext DEF Types, Phase, Recording, Completing, Ending
<1>27. ASSUME NEW w \in Worker, Delete(w)
      PROVE  Types'
  <2>1. PICK from \in {"delete"}, to \in {"idle"} :
          Go(w, from, to)
    BY <1>27 DEF Delete
  <2>2. RestType'
    BY <1>0, <1>27, <2>1 DEF RestType, Delete, Types, Go
  <2>3. calls' \in 0 .. MaxCalls
    BY <1>27 DEF Delete, Types, TypeOK
  <2> QED
    BY <2>1, <2>2, <2>3, GoType, TypePartsNext DEF Types, Phase, Recording, Completing, Ending
<1>28. ASSUME NEW s \in Session, Expire(s)
      PROVE  Types'
  BY <1>28 DEF Types, TypeOK, Busy, Expire
<1>29. ASSUME NEW w \in Worker, Cut(w)
      PROVE  Types'
  <2>1. Go(w, pc[w], "idle") /\ pc[w] # "idle" /\ pc[w] \in Phase
    BY <1>29 DEF Cut, Types, TypeOK
  <2>2. Busy => at[w] \in Session
    BY <2>1 DEF Busy
  <2>3. RestType'
    BY <1>0, <1>29, <2>2 DEF RestType, Cut, Types
  <2>4. calls' \in 0 .. MaxCalls
    BY <1>29 DEF Cut, Types, TypeOK
  <2> QED
    BY <2>1, <2>3, <2>4, GoType, TypePartsNext DEF Types, Phase, Recording
<1>30. CASE UNCHANGED vars
  BY <1>30 DEF Types, TypeOK, Busy
<1> QED
  BY <1>1, <1>2, <1>3, <1>4, <1>5, <1>6, <1>7, <1>8, <1>9, <1>10, <1>11, <1>12, <1>13, <1>14, <1>15, <1>16, <1>17, <1>18, <1>19, <1>20, <1>21, <1>22, <1>23, <1>24, <1>25, <1>26, <1>27, <1>28, <1>29, <1>30
     DEF Next, Store

\* The types of the state, for every value of the constants.
THEOREM TypeCorrect == Spec => []TypeOK
<1>1. Types => TypeOK
  BY DEF Types
<1> QED
  BY TypeInit, TypeStep, <1>1, PTL DEF Spec

----------------------------------------------------------------------------
(* Steps. *)

\* What a step of worker w leaves of the requests.
Goes(w, from, to) ==
  /\ pc[w] = from /\ pc'[w] = to
  /\ \A x \in Worker \ {w} : pc'[x] = pc[x] /\ at'[x] = at[x] /\ snap'[x] = snap[x]
  /\ to # "idle" => at'[w] = at[w] /\ snap'[w] = snap[w]

Begins(w, s, phase) ==
  /\ pc[w] = "idle" /\ pc'[w] = phase /\ HasRow(s)
  /\ \A x \in Worker \ {w} : pc'[x] = pc[x] /\ at'[x] = at[x] /\ snap'[x] = snap[x]
  /\ at'[w] = s /\ snap'[w] = sessions[s]

LEMMA GoGoes ==
  ASSUME Types, NEW w \in Worker, NEW from, NEW to, Go(w, from, to)
  PROVE  Goes(w, from, to)
BY DEF Types, TypeOK, Go, Goes

LEMMA BeginBegins ==
  ASSUME Types, NEW w \in Worker, NEW s \in Session, NEW phase, Begin(w, s, phase)
  PROVE  Begins(w, s, phase)
BY DEF Types, TypeOK, Begin, Begins

\* The moves of a request that concern nothing but the request.
Onward ==
  {<<"count", "quota">>, <<"quota", "store">>, <<"clean", "stat">>,
   <<"find file", "save file">>, <<"save file", "save version">>, <<"drop", "usage">>,
   <<"find part", "write part">>, <<"find part", "save part">>,
   <<"write part", "save part">>, <<"save part", "status">>,
   <<"abort temp", "abort rows">>, <<"abort rows", "abort">>,
   <<"clean temp", "clean rows">>, <<"clean rows", "delete">>}

Still == UNCHANGED <<sessions, versions, upload, object, expired, raced>>

Quiet(w) ==
  /\ Still
  /\ \E from, to \in Phase :
       /\ Goes(w, from, to) /\ from \notin {"idle", "close"}
       /\ \/ to = "idle"
          \/ <<from, to>> \in Onward
          \/ from = "stat" /\ to = "find file" /\ object[at[w]] = "whole"

LEMMA QuietSteps ==
  ASSUME Types, NEW w \in Worker,
         \/ FindPart(w) \/ WritePart(w) \/ SavePart(w) \/ CountParts(w)
         \/ CheckQuota(w) \/ CleanParts(w) \/ Stat(w) \/ FindFile(w)
         \/ SaveFile(w) \/ DropParts(w) \/ RecordUsage(w) \/ AbortTemp(w)
         \/ AbortRows(w)
  PROVE  Quiet(w)
<1> USE DEF db, storage, locals, bounds, Quiet, Still, Phase, Completing, Recording, Ending,
            Onward
<1>1. CASE FindPart(w)
  BY <1>1, GoGoes DEF FindPart
<1>2. CASE WritePart(w)
  BY <1>2, GoGoes DEF WritePart
<1>3. CASE SavePart(w)
  BY <1>3, GoGoes DEF SavePart
<1>4. CASE CountParts(w)
  BY <1>4, GoGoes DEF CountParts
<1>5. CASE CheckQuota(w)
  BY <1>5, GoGoes DEF CheckQuota
<1>6. CASE CleanParts(w)
  BY <1>6, GoGoes DEF CleanParts
<1>7. CASE Stat(w)
  BY <1>7, GoGoes DEF Stat
<1>8. CASE FindFile(w)
  BY <1>8, GoGoes DEF FindFile
<1>9. CASE SaveFile(w)
  BY <1>9, GoGoes DEF SaveFile
<1>10. CASE DropParts(w)
  BY <1>10, GoGoes DEF DropParts
<1>11. CASE RecordUsage(w)
  BY <1>11, GoGoes DEF RecordUsage
<1>12. CASE AbortTemp(w)
  BY <1>12, GoGoes DEF AbortTemp
<1>13. CASE AbortRows(w)
  BY <1>13, GoGoes DEF AbortRows
<1> QED
  BY <1>1, <1>2, <1>3, <1>4, <1>5, <1>6, <1>7, <1>8, <1>9, <1>10, <1>11, <1>12, <1>13

----------------------------------------------------------------------------
(* Each kind of step keeps the facts. *)

\* What a request has after a step it had before, and its phase is no earlier.
Holds(w) ==
  /\ pc'[w] # "idle" => pc[w] # "idle" /\ at'[w] = at[w] /\ snap'[w] = snap[w]
  /\ pc'[w] \in Completing => pc[w] \in Completing
  /\ pc'[w] \in Before => pc[w] \in Before
  /\ pc'[w] \in Cleaning => pc[w] \in Cleaning
  /\ pc'[w] = "clean" => pc[w] = "clean"
  /\ pc'[w] = "stat" => pc[w] \in {"clean", "stat"}
  /\ pc'[w] \in Late => pc[w] \in Late \/ (pc[w] = "stat" /\ object[at[w]] = "whole")

\* What is named is a session.
LEMMA Named ==
  ASSUME Types
  PROVE  /\ \A w \in Worker : pc[w] # "idle" => at[w] \in Session
         /\ \A v \in versions : v.session \in Session
BY DEF Types, TypeOK, Busy

LEMMA PhaseFacts ==
  /\ "idle" \notin Completing \cup Before \cup Cleaning \cup Late
  /\ Late \subseteq Before /\ Before \subseteq Completing
  /\ "close" \in Completing \ Before
  /\ {"store", "stat", "clean"} \subseteq Before \ Late
  /\ Completing \cap Cleaning = {}
BY DEF Completing, Before, Cleaning, Late

LEMMA HoldsIdle ==
  ASSUME NEW w \in Worker, NEW from, from # "idle", Goes(w, from, "idle")
  PROVE  \A x \in Worker : Holds(x)
BY DEF Goes, Holds, Completing, Before, Cleaning, Late

LEMMA HoldsQuiet ==
  ASSUME NEW w \in Worker, Quiet(w)
  PROVE  \A x \in Worker : Holds(x) /\ (pc[x] = "close" => pc'[x] = "close" /\ at'[x] = at[x])
<1>1. PICK from \in Phase, to \in Phase :
       /\ Goes(w, from, to) /\ from \notin {"idle", "close"}
       /\ \/ to = "idle"
          \/ <<from, to>> \in Onward
          \/ from = "stat" /\ to = "find file" /\ object[at[w]] = "whole"
  BY DEF Quiet
<1>2. \A x \in Worker \ {w} : Holds(x) /\ (pc[x] = "close" => pc'[x] = "close" /\ at'[x] = at[x])
  BY <1>1 DEF Goes, Holds
<1>3. Holds(w) /\ pc[w] # "close"
  <2>1. CASE to = "idle"
    BY <1>1, <2>1 DEF Goes, Holds, Completing, Before, Cleaning, Late
  <2>2. CASE <<from, to>> \in Onward
    BY <1>1, <2>2 DEF Goes, Holds, Onward, Completing, Before, Cleaning, Late
  <2>3. CASE from = "stat" /\ to = "find file" /\ object[at[w]] = "whole"
    BY <1>1, <2>3 DEF Goes, Holds, Completing, Before, Cleaning, Late
  <2> QED
    BY <1>1, <2>1, <2>2, <2>3
<1> QED
  BY <1>2, <1>3

\* A row that is updated is still a row, of the same mode.
LEMMA RowKept ==
  ASSUME Types, NEW s \in Session, NEW row, HasRow(s),
         row \in UploadRow, row.mode = sessions[s].mode,
         sessions' = [sessions EXCEPT ![s] = row]
  PROVE  /\ \A t \in Session : sessions'[t] # None <=> sessions[t] # None
         /\ \A t \in Session : sessions[t] # None => sessions'[t].mode = sessions[t].mode
         /\ \A t \in Session : t # s => sessions'[t] = sessions[t]
         /\ sessions'[s] = row
<1>1. sessions \in [Session -> UploadRow \cup {None}]
  BY DEF Types, TypeOK
<1>2. row # None
  OBVIOUS
<1>3. sessions'[s] = row /\ \A t \in Session : t # s => sessions'[t] = sessions[t]
  BY <1>1
<1> QED
  BY <1>2, <1>3 DEF HasRow

LEMMA StatusKept ==
  ASSUME Types, NEW s \in Session, NEW status \in Status, SetStatus(s, status)
  PROVE  /\ \A t \in Session : sessions'[t] # None <=> sessions[t] # None
         /\ \A t \in Session : sessions[t] # None => sessions'[t].mode = sessions[t].mode
         /\ \A t \in Session : t # s => sessions'[t] = sessions[t]
         /\ HasRow(s) => sessions'[s].status = status
<1>1. CASE HasRow(s)
  <2> DEFINE row == [sessions[s] EXCEPT !.status = status]
  <2>1. sessions[s] \in UploadRow
    BY <1>1 DEF Types, TypeOK, HasRow
  <2>2. row \in UploadRow /\ row.mode = sessions[s].mode /\ row.status = status
    BY <2>1 DEF UploadRow
  <2>3. sessions' = [sessions EXCEPT ![s] = row]
    BY <1>1 DEF SetStatus
  <2> HIDE DEF row
  <2> QED
    BY <1>1, <2>2, <2>3, RowKept
<1>2. CASE ~HasRow(s)
  BY <1>2 DEF SetStatus
<1> QED
  BY <1>1, <1>2

Kept == Facts /\ OneVersion /\ VersionHasObject

LEMMA FactsInit == Init => Facts /\ OneVersion /\ VersionHasObject
BY DEF Init, Facts, UsedOnly, ModesAgree, Guarded, Alone, Whole, Stored, Late, Completing, Before,
       Cleaning, OneVersion, VersionHasObject, HasRow

\* A move that concerns only the request.
LEMMA QuietKeeps ==
  ASSUME IInv, Types', NEW w \in Worker, Quiet(w)
  PROVE  Kept'
<1>0. Types /\ UsedOnly /\ ModesAgree /\ Guarded /\ Alone /\ Whole
      /\ OneVersion /\ VersionHasObject
  BY DEF IInv, Facts
<1>n. /\ \A x \in Worker : pc[x] # "idle" => at[x] \in Session
      /\ \A v \in versions : v.session \in Session
  BY <1>0, Named
<1>a. Still
  BY DEF Quiet
<1>b. \A x \in Worker : Holds(x) /\ (pc[x] = "close" => pc'[x] = "close" /\ at'[x] = at[x])
  BY HoldsQuiet
<1>1. UsedOnly'
  BY <1>0, <1>n, PhaseFacts, <1>a, <1>b DEF UsedOnly, Used, HasRow, Still, Holds
<1>2. ModesAgree'
  BY <1>0, <1>n, PhaseFacts, <1>a, <1>b DEF ModesAgree, Proxy, HasRow, Mode, Still, Holds
<1>3. Guarded'
  BY <1>0, <1>n, PhaseFacts, <1>a, <1>b DEF Guarded, Stored, Mode, Still, Holds, ModesAgree, Mode
<1>4. Alone'
  BY <1>0, <1>n, PhaseFacts, <1>a, <1>b DEF Alone, HasRow, Final, Still, Holds
<1>5. Whole'
  BY <1>0, <1>n, PhaseFacts, <1>a, <1>b DEF Whole, Mode, Still, Holds, ModesAgree, Mode
<1>6. OneVersion'
  BY <1>0, <1>n, PhaseFacts, <1>a, <1>b DEF OneVersion, Still
<1>7. VersionHasObject'
  BY <1>0, <1>n, PhaseFacts, <1>a, <1>b DEF VersionHasObject, Still
<1> QED
  BY <1>1, <1>2, <1>3, <1>4, <1>5, <1>6, <1>7 DEF Kept, Facts

\* A session that was never used is created.
LEMMA CreateKeeps ==
  ASSUME IInv, Types', NEW s \in Session, NEW f \in File, NEW mode \in Modes,
         CreateSession(s, f, mode)
  PROVE  Kept'
<1>0. Types /\ UsedOnly /\ ModesAgree /\ Guarded /\ Alone /\ Whole
      /\ OneVersion /\ VersionHasObject
  BY DEF IInv, Facts
<1>n. /\ \A x \in Worker : pc[x] # "idle" => at[x] \in Session
      /\ \A v \in versions : v.session \in Session
  BY <1>0, Named
<1>a. ~Used(s)
  BY DEF CreateSession, NewId, Used
<1>b. /\ sessions'[s] # None /\ sessions'[s].mode = mode
      /\ \A t \in Session \ {s} : sessions'[t] = sessions[t] /\ upload'[t] = upload[t]
      /\ upload'[s] = "none" <=> mode = "proxy"
  <2> DEFINE row == [mode |-> mode, file |-> f, status |-> "pending", version |-> None]
  <2>1. row \in UploadRow
    BY DEF UploadRow, Status
  <2>2. sessions' = [sessions EXCEPT ![s] = row]
    BY DEF CreateSession
  <2>3. row # None /\ row.mode = mode
    BY <2>1
  <2>4. /\ sessions \in [Session -> UploadRow \cup {None}]
        /\ upload \in [Session -> {"none", "open", "completed", "aborted"}]
    BY <1>0 DEF Types, TypeOK
  <2> QED
    BY <2>2, <2>3, <2>4 DEF CreateSession
<1>c. UNCHANGED <<pc, at, snap, versions, object, expired, raced>>
  BY DEF CreateSession, locals
<1>d. /\ \A w \in Worker : pc[w] # "idle" => at[w] \in Session \ {s}
      /\ \A v \in versions : v.session \in Session \ {s}
  BY <1>0, <1>a, <1>n DEF UsedOnly
<1>1. UsedOnly'
  BY <1>0, <1>n, PhaseFacts, <1>a, <1>b, <1>c, <1>d DEF UsedOnly, Used, HasRow
<1>2. ModesAgree'
  BY <1>0, <1>n, PhaseFacts, <1>a, <1>b, <1>c, <1>d DEF ModesAgree, Proxy, HasRow, Mode
<1>3. Guarded'
  BY <1>0, <1>n, PhaseFacts, <1>a, <1>b, <1>c, <1>d DEF Guarded, Stored, Mode
<1>4. Alone'
  BY <1>0, <1>n, PhaseFacts, <1>a, <1>b, <1>c, <1>d DEF Alone, HasRow, Final
<1>5. Whole'
  BY <1>0, <1>n, PhaseFacts, <1>a, <1>b, <1>c, <1>d DEF Whole, Mode
<1>6. OneVersion'
  BY <1>0, <1>n, PhaseFacts, <1>a, <1>b, <1>c, <1>d DEF OneVersion
<1>7. VersionHasObject'
  BY <1>0, <1>n, PhaseFacts, <1>a, <1>b, <1>c, <1>d DEF VersionHasObject
<1> QED
  BY <1>1, <1>2, <1>3, <1>4, <1>5, <1>6, <1>7 DEF Kept, Facts

\* A request begins that is not to complete its session.
LEMMA BeginKeeps ==
  ASSUME IInv, Types', NEW w \in Worker, NEW s \in Session, NEW phase,
         Begins(w, s, phase), Still, phase \notin Completing \cup {"idle"},
         phase \in Cleaning => s \in expired
  PROVE  Kept'
<1>0. Types /\ UsedOnly /\ ModesAgree /\ Guarded /\ Alone /\ Whole
      /\ OneVersion /\ VersionHasObject
  BY DEF IInv, Facts
<1>n. /\ \A x \in Worker : pc[x] # "idle" => at[x] \in Session
      /\ \A v \in versions : v.session \in Session
  BY <1>0, Named
<1>1. UsedOnly'
  BY <1>0, <1>n, PhaseFacts DEF UsedOnly, Used, HasRow, Begins, Still, HasRow, Used
<1>2. ModesAgree'
  BY <1>0, <1>n, PhaseFacts DEF ModesAgree, Proxy, HasRow, Mode, Begins, Still, HasRow
<1>3. Guarded'
  BY <1>0, <1>n, PhaseFacts DEF Guarded, Stored, Mode, Begins, Still, HasRow
<1>4. Alone'
  BY <1>0, <1>n, PhaseFacts DEF Alone, HasRow, Final, Begins, Still, HasRow
<1>5. Whole'
  BY <1>0, <1>n, PhaseFacts DEF Whole, Mode, Begins, Still, HasRow
<1>6. OneVersion'
  BY <1>0, <1>n, PhaseFacts DEF OneVersion, Begins, Still, HasRow
<1>7. VersionHasObject'
  BY <1>0, <1>n, PhaseFacts DEF VersionHasObject, Begins, Still, HasRow
<1> QED
  BY <1>1, <1>2, <1>3, <1>4, <1>5, <1>6, <1>7 DEF Kept, Facts

\* A request to complete a session begins.
LEMMA CompleteKeeps ==
  ASSUME IInv, Types', NEW w \in Worker, NEW s \in Session, CompleteStart(w, s)
  PROVE  Kept'
<1>0. Types /\ UsedOnly /\ ModesAgree /\ Guarded /\ Alone /\ Whole
      /\ OneVersion /\ VersionHasObject
  BY DEF IInv, Facts
<1>n. /\ \A x \in Worker : pc[x] # "idle" => at[x] \in Session
      /\ \A v \in versions : v.session \in Session
  BY <1>0, Named
<1>a. Begins(w, s, "count")
  BY <1>0, BeginBegins DEF CompleteStart
<1>b. UNCHANGED <<sessions, versions, upload, object, expired>>
  BY DEF CompleteStart, db, storage
<1>c. /\ sessions[s].status \notin Final
      /\ raced \subseteq raced'
      /\ s \notin raced' => \A x \in Worker : pc[x] \in Completing => at[x] # s
  BY DEF CompleteStart
<1>d. "count" \in Before \ (Late \cup {"stat", "clean"})
  BY DEF Before, Late
<1>1. UsedOnly'
  BY <1>0, <1>n, PhaseFacts, <1>a, <1>b, <1>c, <1>d DEF UsedOnly, Used, HasRow, Begins, HasRow, Used
<1>2. ModesAgree'
  BY <1>0, <1>n, PhaseFacts, <1>a, <1>b, <1>c, <1>d DEF ModesAgree, Proxy, HasRow, Mode, Begins, HasRow
<1>3. Guarded'
  BY <1>0, <1>n, PhaseFacts, <1>a, <1>b, <1>c, <1>d DEF Guarded, Stored, Mode, Begins, HasRow
<1>4. Alone'
  BY <1>0, <1>n, PhaseFacts, <1>a, <1>b, <1>c, <1>d DEF Alone, HasRow, Final, Begins, HasRow
<1>5. Whole'
  BY <1>0, <1>n, PhaseFacts, <1>a, <1>b, <1>c, <1>d DEF Whole, Mode, Begins, HasRow
<1>6. OneVersion'
  BY <1>0, <1>n, PhaseFacts, <1>a, <1>b, <1>c, <1>d DEF OneVersion, Begins, HasRow
<1>7. VersionHasObject'
  BY <1>0, <1>n, PhaseFacts, <1>a, <1>b, <1>c, <1>d DEF VersionHasObject, Begins, HasRow
<1> QED
  BY <1>1, <1>2, <1>3, <1>4, <1>5, <1>6, <1>7 DEF Kept, Facts

\* The status is set by a request for a part.
LEMMA PartStatusKeeps ==
  ASSUME IInv, Types', NEW w \in Worker, PartStatus(w)
  PROVE  Kept'
<1>0. Types /\ UsedOnly /\ ModesAgree /\ Guarded /\ Alone /\ Whole
      /\ OneVersion /\ VersionHasObject
  BY DEF IInv, Facts
<1>n. /\ \A x \in Worker : pc[x] # "idle" => at[x] \in Session
      /\ \A v \in versions : v.session \in Session
  BY <1>0, Named
<1>a. Goes(w, "status", "idle") /\ \A x \in Worker : Holds(x)
  BY <1>0, GoGoes, HoldsIdle DEF PartStatus
<1>b. at[w] \in Session
  BY <1>0, <1>a, <1>n DEF Goes
<1>c. \A t \in Session :
         /\ sessions'[t] # None <=> sessions[t] # None
         /\ sessions[t] # None => sessions'[t].mode = sessions[t].mode
         /\ t # at[w] => sessions'[t] = sessions[t]
         /\ t = at[w] /\ sessions[t] # None => sessions'[t].status = "in_progress"
  BY <1>0, <1>b, StatusKept DEF PartStatus, Status, HasRow
<1>d. UNCHANGED <<versions, upload, object, expired>>
  BY DEF PartStatus, storage
<1>e. /\ raced \subseteq raced'
      /\ sessions[at[w]] # None /\ sessions[at[w]].status \in Final => at[w] \in raced'
  BY <1>b DEF PartStatus, HasRow
<1>1. UsedOnly'
  BY <1>0, <1>n, PhaseFacts, <1>a, <1>b, <1>c, <1>d, <1>e DEF UsedOnly, Used, HasRow, Holds, Goes
<1>2. ModesAgree'
  BY <1>0, <1>n, PhaseFacts, <1>a, <1>b, <1>c, <1>d, <1>e DEF ModesAgree, Proxy, HasRow, Mode, Holds, Goes
<1>3. Guarded'
  BY <1>0, <1>n, PhaseFacts, <1>a, <1>b, <1>c, <1>d, <1>e DEF Guarded, Stored, Mode, Holds, Goes, ModesAgree, Mode
<1>4. Alone'
  BY <1>0, <1>n, PhaseFacts, <1>a, <1>b, <1>c, <1>d, <1>e DEF Alone, HasRow, Final, Holds, Goes
<1>5. Whole'
  BY <1>0, <1>n, PhaseFacts, <1>a, <1>b, <1>c, <1>d, <1>e DEF Whole, Mode, Holds, Goes, ModesAgree, Mode
<1>6. OneVersion'
  BY <1>0, <1>n, PhaseFacts, <1>a, <1>b, <1>c, <1>d, <1>e DEF OneVersion, Goes
<1>7. VersionHasObject'
  BY <1>0, <1>n, PhaseFacts, <1>a, <1>b, <1>c, <1>d, <1>e DEF VersionHasObject, Goes
<1> QED
  BY <1>1, <1>2, <1>3, <1>4, <1>5, <1>6, <1>7 DEF Kept, Facts

\* The status is set at the end of an abort.
LEMMA AbortKeeps ==
  ASSUME IInv, Types', NEW w \in Worker, Abort(w)
  PROVE  Kept'
<1>0. Types /\ UsedOnly /\ ModesAgree /\ Guarded /\ Alone /\ Whole
      /\ OneVersion /\ VersionHasObject
  BY DEF IInv, Facts
<1>n. /\ \A x \in Worker : pc[x] # "idle" => at[x] \in Session
      /\ \A v \in versions : v.session \in Session
  BY <1>0, Named
<1>a. Goes(w, "abort", "idle") /\ \A x \in Worker : Holds(x)
  BY <1>0, GoGoes, HoldsIdle DEF Abort
<1>b. at[w] \in Session
  BY <1>0, <1>a, <1>n DEF Goes
<1>c. \A t \in Session :
         /\ sessions'[t] # None <=> sessions[t] # None
         /\ sessions[t] # None => sessions'[t].mode = sessions[t].mode
         /\ t # at[w] => sessions'[t] = sessions[t]
         /\ t = at[w] /\ sessions[t] # None => sessions'[t].status = "aborted"
  BY <1>0, <1>b, StatusKept DEF Abort, Status, HasRow
<1>d. UNCHANGED <<versions, upload, object, expired, raced>>
  BY DEF Abort, storage
<1>1. UsedOnly'
  BY <1>0, <1>n, PhaseFacts, <1>a, <1>b, <1>c, <1>d DEF UsedOnly, Used, HasRow, Holds, Goes
<1>2. ModesAgree'
  BY <1>0, <1>n, PhaseFacts, <1>a, <1>b, <1>c, <1>d DEF ModesAgree, Proxy, HasRow, Mode, Holds, Goes
<1>3. Guarded'
  BY <1>0, <1>n, PhaseFacts, <1>a, <1>b, <1>c, <1>d DEF Guarded, Stored, Mode, Holds, Goes, ModesAgree, Mode
<1>4. Alone'
  BY <1>0, <1>n, PhaseFacts, <1>a, <1>b, <1>c, <1>d DEF Alone, HasRow, Final, Holds, Goes
<1>5. Whole'
  BY <1>0, <1>n, PhaseFacts, <1>a, <1>b, <1>c, <1>d DEF Whole, Mode, Holds, Goes, ModesAgree, Mode
<1>6. OneVersion'
  BY <1>0, <1>n, PhaseFacts, <1>a, <1>b, <1>c, <1>d DEF OneVersion, Goes
<1>7. VersionHasObject'
  BY <1>0, <1>n, PhaseFacts, <1>a, <1>b, <1>c, <1>d DEF VersionHasObject, Goes
<1> QED
  BY <1>1, <1>2, <1>3, <1>4, <1>5, <1>6, <1>7 DEF Kept, Facts

\* A session is completed, or is found to be deleted.
LEMMA CloseKeeps ==
  ASSUME IInv, Types', NEW w \in Worker, Close(w)
  PROVE  Kept'
<1>0. Types /\ UsedOnly /\ ModesAgree /\ Guarded /\ Alone /\ Whole
      /\ OneVersion /\ VersionHasObject
  BY DEF IInv, Facts
<1>n. /\ \A x \in Worker : pc[x] # "idle" => at[x] \in Session
      /\ \A v \in versions : v.session \in Session
  BY <1>0, Named
<1>a. Goes(w, "close", IF HasRow(at[w]) THEN "drop" ELSE "idle")
  BY <1>0, GoGoes DEF Close
<1>b. \A x \in Worker : Holds(x)
  BY <1>a DEF Goes, Holds, Completing, Before, Cleaning, Late
<1>c. at[w] \in Session
  BY <1>0, <1>a, <1>n DEF Goes
<1>d. \A t \in Session :
         /\ sessions'[t] # None <=> sessions[t] # None
         /\ sessions[t] # None => sessions'[t].mode = sessions[t].mode
         /\ t # at[w] => sessions'[t] = sessions[t]
         /\ t = at[w] /\ sessions[t] # None => sessions'[t].status = "completed"
  <2>1. CASE HasRow(at[w])
    <3> DEFINE row == [sessions[at[w]] EXCEPT !.status = "completed", !.version = version[w]]
    <3>1. sessions[at[w]] \in UploadRow /\ version[w] \in Nat
      BY <1>0, <1>c, <2>1 DEF Types, TypeOK, HasRow
    <3>2. row \in UploadRow /\ row.mode = sessions[at[w]].mode /\ row.status = "completed"
      BY <3>1 DEF UploadRow, Status
    <3>3. sessions' = [sessions EXCEPT ![at[w]] = row]
      BY <2>1 DEF Close
    <3> HIDE DEF row
    <3>4. /\ \A t \in Session : sessions'[t] # None <=> sessions[t] # None
          /\ \A t \in Session : sessions[t] # None => sessions'[t].mode = sessions[t].mode
          /\ \A t \in Session : t # at[w] => sessions'[t] = sessions[t]
          /\ sessions'[at[w]] = row
      BY <1>0, <1>c, <2>1, <3>2, <3>3, RowKept
    <3> QED
      BY <3>2, <3>4
  <2>2. CASE ~HasRow(at[w])
    BY <2>2 DEF Close, HasRow
  <2> QED
    BY <2>1, <2>2
<1>e. UNCHANGED <<versions, upload, object, expired, raced>>
  BY DEF Close, storage
<1>1. UsedOnly'
  BY <1>0, <1>n, PhaseFacts, <1>a, <1>b, <1>c, <1>d, <1>e DEF UsedOnly, Used, HasRow, Holds, Goes
<1>2. ModesAgree'
  BY <1>0, <1>n, PhaseFacts, <1>a, <1>b, <1>c, <1>d, <1>e DEF ModesAgree, Proxy, HasRow, Mode, Holds, Goes
<1>3. Guarded'
  BY <1>0, <1>n, PhaseFacts, <1>a, <1>b, <1>c, <1>d, <1>e DEF Guarded, Stored, Mode, Holds, Goes, ModesAgree, Mode
<1>4. Alone'
  BY <1>0, <1>n, PhaseFacts, <1>a, <1>b, <1>c, <1>d, <1>e DEF Alone, HasRow, Final, Holds, Goes
<1>5. Whole'
  BY <1>0, <1>n, PhaseFacts, <1>a, <1>b, <1>c, <1>d, <1>e DEF Whole, Mode, Holds, Goes, ModesAgree, Mode
<1>6. OneVersion'
  BY <1>0, <1>n, PhaseFacts, <1>a, <1>b, <1>c, <1>d, <1>e DEF OneVersion, Goes
<1>7. VersionHasObject'
  BY <1>0, <1>n, PhaseFacts, <1>a, <1>b, <1>c, <1>d, <1>e DEF VersionHasObject, Goes
<1> QED
  BY <1>1, <1>2, <1>3, <1>4, <1>5, <1>6, <1>7 DEF Kept, Facts

\* The row of an expired session is deleted.
LEMMA DeleteKeeps ==
  ASSUME IInv, Types', NEW w \in Worker, Delete(w)
  PROVE  Kept'
<1>0. Types /\ UsedOnly /\ ModesAgree /\ Guarded /\ Alone /\ Whole
      /\ OneVersion /\ VersionHasObject
  BY DEF IInv, Facts
<1>n. /\ \A x \in Worker : pc[x] # "idle" => at[x] \in Session
      /\ \A v \in versions : v.session \in Session
  BY <1>0, Named
<1>a. Goes(w, "delete", "idle") /\ \A x \in Worker : Holds(x)
  BY <1>0, GoGoes, HoldsIdle DEF Delete
<1>b. at[w] \in Session /\ at[w] \in expired
  BY <1>0, <1>a, <1>n DEF Goes, UsedOnly, Cleaning
<1>c. \A t \in Session : IF t = at[w] THEN sessions'[t] = None ELSE sessions'[t] = sessions[t]
  BY <1>0, <1>b DEF Delete, Types, TypeOK
<1>d. UNCHANGED <<versions, upload, object, expired, raced>>
  BY DEF Delete, storage
<1>1. UsedOnly'
  BY <1>0, <1>n, PhaseFacts, <1>a, <1>b, <1>c, <1>d DEF UsedOnly, Used, HasRow, Holds, Goes
<1>2. ModesAgree'
  BY <1>0, <1>n, PhaseFacts, <1>a, <1>b, <1>c, <1>d DEF ModesAgree, Proxy, HasRow, Mode, Holds, Goes
<1>3. Guarded'
  BY <1>0, <1>n, PhaseFacts, <1>a, <1>b, <1>c, <1>d DEF Guarded, Stored, Mode, Holds, Goes, ModesAgree, Mode
<1>4. Alone'
  BY <1>0, <1>n, PhaseFacts, <1>a, <1>b, <1>c, <1>d DEF Alone, HasRow, Final, Holds, Goes
<1>5. Whole'
  BY <1>0, <1>n, PhaseFacts, <1>a, <1>b, <1>c, <1>d DEF Whole, Mode, Holds, Goes, ModesAgree, Mode
<1>6. OneVersion'
  BY <1>0, <1>n, PhaseFacts, <1>a, <1>b, <1>c, <1>d DEF OneVersion, Goes
<1>7. VersionHasObject'
  BY <1>0, <1>n, PhaseFacts, <1>a, <1>b, <1>c, <1>d DEF VersionHasObject, Goes
<1> QED
  BY <1>1, <1>2, <1>3, <1>4, <1>5, <1>6, <1>7 DEF Kept, Facts

\* A session expires.
LEMMA ExpireKeeps ==
  ASSUME IInv, Types', NEW s \in Session, Expire(s)
  PROVE  Kept'
<1>0. Types /\ UsedOnly /\ ModesAgree /\ Guarded /\ Alone /\ Whole
      /\ OneVersion /\ VersionHasObject
  BY DEF IInv, Facts
<1>n. /\ \A x \in Worker : pc[x] # "idle" => at[x] \in Session
      /\ \A v \in versions : v.session \in Session
  BY <1>0, Named
<1>a. UNCHANGED <<sessions, versions, upload, object, pc, at, snap, raced>> /\ expired \subseteq expired'
  BY DEF Expire, db, storage, locals
<1>1. UsedOnly'
  BY <1>0, <1>n, PhaseFacts, <1>a DEF UsedOnly, Used, HasRow
<1>2. ModesAgree'
  BY <1>0, <1>n, PhaseFacts, <1>a DEF ModesAgree, Proxy, HasRow, Mode
<1>3. Guarded'
  BY <1>0, <1>n, PhaseFacts, <1>a DEF Guarded, Stored, Mode
<1>4. Alone'
  BY <1>0, <1>n, PhaseFacts, <1>a DEF Alone, HasRow, Final
<1>5. Whole'
  BY <1>0, <1>n, PhaseFacts, <1>a DEF Whole, Mode
<1>6. OneVersion'
  BY <1>0, <1>n, PhaseFacts, <1>a DEF OneVersion
<1>7. VersionHasObject'
  BY <1>0, <1>n, PhaseFacts, <1>a DEF VersionHasObject
<1> QED
  BY <1>1, <1>2, <1>3, <1>4, <1>5, <1>6, <1>7 DEF Kept, Facts

\* A request is cut short.
LEMMA CutKeeps ==
  ASSUME IInv, Types', NEW w \in Worker, Cut(w)
  PROVE  Kept'
<1>0. Types /\ UsedOnly /\ ModesAgree /\ Guarded /\ Alone /\ Whole
      /\ OneVersion /\ VersionHasObject
  BY DEF IInv, Facts
<1>n. /\ \A x \in Worker : pc[x] # "idle" => at[x] \in Session
      /\ \A v \in versions : v.session \in Session
  BY <1>0, Named
<1>a. pc[w] # "idle" /\ Goes(w, pc[w], "idle") /\ \A x \in Worker : Holds(x)
  BY <1>0, GoGoes, HoldsIdle DEF Cut
<1>b. UNCHANGED <<sessions, versions, upload, object, expired>>
  BY DEF Cut, db, storage
<1>c. raced \subseteq raced' /\ (pc[w] \in Completing => at[w] \in raced')
  BY DEF Cut
<1>1. UsedOnly'
  BY <1>0, <1>n, PhaseFacts, <1>a, <1>b, <1>c DEF UsedOnly, Used, HasRow, Holds, Goes
<1>2. ModesAgree'
  BY <1>0, <1>n, PhaseFacts, <1>a, <1>b, <1>c DEF ModesAgree, Proxy, HasRow, Mode, Holds, Goes
<1>3. Guarded'
  BY <1>0, <1>n, PhaseFacts, <1>a, <1>b, <1>c DEF Guarded, Stored, Mode, Holds, Goes, ModesAgree, Mode
<1>4. Alone'
  BY <1>0, <1>n, PhaseFacts, <1>a, <1>b, <1>c DEF Alone, HasRow, Final, Holds, Goes
<1>5. Whole'
  BY <1>0, <1>n, PhaseFacts, <1>a, <1>b, <1>c DEF Whole, Mode, Holds, Goes, ModesAgree, Mode
<1>6. OneVersion'
  BY <1>0, <1>n, PhaseFacts, <1>a, <1>b, <1>c DEF OneVersion, Goes
<1>7. VersionHasObject'
  BY <1>0, <1>n, PhaseFacts, <1>a, <1>b, <1>c DEF VersionHasObject, Goes
<1> QED
  BY <1>1, <1>2, <1>3, <1>4, <1>5, <1>6, <1>7 DEF Kept, Facts

\* The upload of a session is aborted if it is open.
LEMMA AbortUploadKeeps ==
  ASSUME IInv, Types', NEW w \in Worker, AbortUpload(w)
  PROVE  Kept'
<1>0. Types /\ UsedOnly /\ ModesAgree /\ Guarded /\ Alone /\ Whole
      /\ OneVersion /\ VersionHasObject
  BY DEF IInv, Facts
<1>n. /\ \A x \in Worker : pc[x] # "idle" => at[x] \in Session
      /\ \A v \in versions : v.session \in Session
  BY <1>0, Named
<1>a. Goes(w, "abort upload", "abort temp") \/ Goes(w, "clean upload", "clean temp")
  BY <1>0, GoGoes DEF AbortUpload
<1>b. \A x \in Worker : Holds(x) /\ (pc[x] = "close" => pc'[x] = "close" /\ at'[x] = at[x])
  BY <1>a DEF Goes, Holds, Completing, Before, Cleaning, Late
<1>c. \A t \in Session : upload'[t] = upload[t] \/ (upload[t] = "open" /\ upload'[t] = "aborted")
  BY <1>0 DEF AbortUpload, Types, TypeOK
<1>d. \A t \in Session : /\ upload[t] = "none" <=> upload'[t] = "none"
                         /\ upload[t] = "completed" => upload'[t] = "completed"
  BY <1>c
<1>e. UNCHANGED <<sessions, versions, object, expired, raced>>
  BY DEF AbortUpload, db
<1>1. UsedOnly'
  BY <1>0, <1>n, PhaseFacts, <1>b, <1>d, <1>e DEF UsedOnly, Used, HasRow, Holds
<1>2. ModesAgree'
  BY <1>0, <1>n, PhaseFacts, <1>b, <1>d, <1>e DEF ModesAgree, Proxy, HasRow, Mode, Holds
<1>3. Guarded'
  BY <1>0, <1>n, PhaseFacts, <1>b, <1>d, <1>e DEF Guarded, Stored, Mode, Holds, ModesAgree, Mode
<1>4. Alone'
  BY <1>0, <1>n, PhaseFacts, <1>b, <1>d, <1>e DEF Alone, HasRow, Final, Holds
<1>5. Whole'
  BY <1>0, <1>n, PhaseFacts, <1>b, <1>d, <1>e DEF Whole, Mode, Holds, ModesAgree, Mode
<1>6. OneVersion'
  BY <1>0, <1>n, PhaseFacts, <1>b, <1>d, <1>e DEF OneVersion
<1>7. VersionHasObject'
  BY <1>0, <1>n, PhaseFacts, <1>b, <1>d, <1>e DEF VersionHasObject
<1> QED
  BY <1>1, <1>2, <1>3, <1>4, <1>5, <1>6, <1>7 DEF Kept, Facts

\* Nothing happens.
LEMMA StutterKeeps ==
  ASSUME IInv, Types', UNCHANGED vars
  PROVE  Kept'
<1>0. Types /\ UsedOnly /\ ModesAgree /\ Guarded /\ Alone /\ Whole
      /\ OneVersion /\ VersionHasObject
  BY DEF IInv, Facts
<1>n. /\ \A x \in Worker : pc[x] # "idle" => at[x] \in Session
      /\ \A v \in versions : v.session \in Session
  BY <1>0, Named
<1>a. Still /\ UNCHANGED <<pc, at, snap>>
  BY DEF vars, db, storage, locals, Still
<1>1. UsedOnly'
  BY <1>0, <1>n, PhaseFacts, <1>a DEF UsedOnly, Used, HasRow, Still
<1>2. ModesAgree'
  BY <1>0, <1>n, PhaseFacts, <1>a DEF ModesAgree, Proxy, HasRow, Mode, Still
<1>3. Guarded'
  BY <1>0, <1>n, PhaseFacts, <1>a DEF Guarded, Stored, Mode, Still
<1>4. Alone'
  BY <1>0, <1>n, PhaseFacts, <1>a DEF Alone, HasRow, Final, Still
<1>5. Whole'
  BY <1>0, <1>n, PhaseFacts, <1>a DEF Whole, Mode, Still
<1>6. OneVersion'
  BY <1>0, <1>n, PhaseFacts, <1>a DEF OneVersion, Still
<1>7. VersionHasObject'
  BY <1>0, <1>n, PhaseFacts, <1>a DEF VersionHasObject, Still
<1> QED
  BY <1>1, <1>2, <1>3, <1>4, <1>5, <1>6, <1>7 DEF Kept, Facts

\* The storage completes the upload of a session, or has done so.
LEMMA StoreMultipartKeeps ==
  ASSUME IInv, Types', NEW w \in Worker, StoreMultipart(w)
  PROVE  Kept'
<1>0. Types /\ UsedOnly /\ ModesAgree /\ Guarded /\ Alone /\ Whole
      /\ OneVersion /\ VersionHasObject
  BY DEF IInv, Facts
<1>n. /\ \A x \in Worker : pc[x] # "idle" => at[x] \in Session
      /\ \A v \in versions : v.session \in Session
  BY <1>0, Named
<1>a. \/ Goes(w, "store", "stat") /\ upload[at[w]] = "open"
      \/ Goes(w, "store", "idle") /\ upload[at[w]] # "open"
  BY <1>0, GoGoes DEF StoreMultipart
<1>b. /\ at[w] \in Session /\ Mode(w) = "multipart" /\ pc[w] = "store" /\ pc'[w] \in {"stat", "idle"}
      /\ pc'[w] = "stat" => at'[w] = at[w] /\ snap'[w] = snap[w]
  BY <1>0, <1>a, <1>n DEF Goes, StoreMultipart
<1>c. \A x \in Worker \ {w} : pc'[x] = pc[x] /\ at'[x] = at[x] /\ snap'[x] = snap[x]
  BY <1>a DEF Goes
<1>d. \A t \in Session :
         /\ t # at[w] => upload'[t] = upload[t] /\ object'[t] = object[t]
         /\ upload[t] = "none" <=> upload'[t] = "none"
         /\ upload[t] = "completed" => upload'[t] = "completed"
         /\ object'[t] = object[t] \/ object'[t] = "whole"
  BY <1>0, <1>b DEF StoreMultipart, Types, TypeOK
<1>e. pc'[w] = "stat" => upload[at[w]] = "open" /\ upload'[at[w]] = "completed"
  BY <1>0, <1>a, <1>b DEF Goes, StoreMultipart, Types, TypeOK
<1>f. UNCHANGED <<sessions, versions, expired, raced>>
  BY DEF StoreMultipart, db
<1>g. "stat" \notin Late \cup Cleaning
  BY DEF Late, Cleaning
<1>1. UsedOnly'
  BY <1>0, <1>n, PhaseFacts, <1>b, <1>c, <1>d, <1>e, <1>f, <1>g DEF UsedOnly, Used, HasRow
<1>2. ModesAgree'
  BY <1>0, <1>n, PhaseFacts, <1>b, <1>c, <1>d, <1>e, <1>f, <1>g DEF ModesAgree, Proxy, HasRow, Mode
<1>3. Guarded'
  BY <1>0, <1>n, PhaseFacts, <1>b, <1>c, <1>d, <1>e, <1>f, <1>g DEF Guarded, Stored, Mode
<1>4. Alone'
  BY <1>0, <1>n, PhaseFacts, <1>b, <1>c, <1>d, <1>e, <1>f, <1>g DEF Alone, HasRow, Final
<1>5. Whole'
  BY <1>0, <1>n, PhaseFacts, <1>b, <1>c, <1>d, <1>e, <1>f, <1>g DEF Whole, Mode
<1>6. OneVersion'
  BY <1>0, <1>n, PhaseFacts, <1>b, <1>c, <1>d, <1>e, <1>f, <1>g DEF OneVersion
<1>7. VersionHasObject'
  BY <1>0, <1>n, PhaseFacts, <1>b, <1>c, <1>d, <1>e, <1>f, <1>g DEF VersionHasObject
<1> QED
  BY <1>1, <1>2, <1>3, <1>4, <1>5, <1>6, <1>7 DEF Kept, Facts

\* The storage commits the blocks of a session.
LEMMA StoreBlocksKeeps ==
  ASSUME IInv, Types', NEW w \in Worker, StoreBlocks(w)
  PROVE  Kept'
<1>0. Types /\ UsedOnly /\ ModesAgree /\ Guarded /\ Alone /\ Whole
      /\ OneVersion /\ VersionHasObject
  BY DEF IInv, Facts
<1>n. /\ \A x \in Worker : pc[x] # "idle" => at[x] \in Session
      /\ \A v \in versions : v.session \in Session
  BY <1>0, Named
<1>a. Goes(w, "store", "stat") /\ Mode(w) = "blocks"
  BY <1>0, GoGoes DEF StoreBlocks
<1>b. /\ at[w] \in Session /\ Mode(w) = "blocks" /\ pc[w] = "store" /\ pc'[w] = "stat"
      /\ at'[w] = at[w] /\ snap'[w] = snap[w]
  BY <1>a, <1>n DEF Goes
<1>c. \A x \in Worker \ {w} : pc'[x] = pc[x] /\ at'[x] = at[x] /\ snap'[x] = snap[x]
  BY <1>a DEF Goes
<1>d. \A t \in Session : object'[t] = object[t] \/ object'[t] = "whole"
  BY <1>0, <1>b DEF StoreBlocks, Types, TypeOK
<1>e. UNCHANGED <<sessions, versions, upload, expired, raced>>
  BY DEF StoreBlocks, db
<1>f. "stat" \notin Late \cup Cleaning
  BY DEF Late, Cleaning
<1>1. UsedOnly'
  BY <1>0, <1>n, PhaseFacts, <1>b, <1>c, <1>d, <1>e, <1>f DEF UsedOnly, Used, HasRow
<1>2. ModesAgree'
  BY <1>0, <1>n, PhaseFacts, <1>b, <1>c, <1>d, <1>e, <1>f DEF ModesAgree, Proxy, HasRow, Mode
<1>3. Guarded'
  BY <1>0, <1>n, PhaseFacts, <1>b, <1>c, <1>d, <1>e, <1>f DEF Guarded, Stored, Mode
<1>4. Alone'
  BY <1>0, <1>n, PhaseFacts, <1>b, <1>c, <1>d, <1>e, <1>f DEF Alone, HasRow, Final
<1>5. Whole'
  BY <1>0, <1>n, PhaseFacts, <1>b, <1>c, <1>d, <1>e, <1>f DEF Whole, Mode
<1>6. OneVersion'
  BY <1>0, <1>n, PhaseFacts, <1>b, <1>c, <1>d, <1>e, <1>f DEF OneVersion
<1>7. VersionHasObject'
  BY <1>0, <1>n, PhaseFacts, <1>b, <1>c, <1>d, <1>e, <1>f DEF VersionHasObject
<1> QED
  BY <1>1, <1>2, <1>3, <1>4, <1>5, <1>6, <1>7 DEF Kept, Facts

\* The parts of a session are copied into its object.
LEMMA StoreProxyKeeps ==
  ASSUME IInv, Types', NEW w \in Worker, StoreProxy(w)
  PROVE  Kept'
<1>0. Types /\ UsedOnly /\ ModesAgree /\ Guarded /\ Alone /\ Whole
      /\ OneVersion /\ VersionHasObject
  BY DEF IInv, Facts
<1>n. /\ \A x \in Worker : pc[x] # "idle" => at[x] \in Session
      /\ \A v \in versions : v.session \in Session
  BY <1>0, Named
<1>a. Goes(w, "store", "clean") \/ Goes(w, "store", "idle")
  BY <1>0, GoGoes DEF StoreProxy
<1>b. /\ at[w] \in Session /\ Mode(w) = "proxy" /\ pc[w] = "store" /\ pc'[w] \in {"clean", "idle"}
      /\ pc'[w] = "clean" => at'[w] = at[w] /\ snap'[w] = snap[w]
  BY <1>0, <1>a, <1>n DEF Goes, StoreProxy
<1>c. \A x \in Worker \ {w} : pc'[x] = pc[x] /\ at'[x] = at[x] /\ snap'[x] = snap[x]
  BY <1>a DEF Goes
<1>d. \A t \in Session : t # at[w] => object'[t] = object[t]
  BY <1>0, <1>b DEF StoreProxy, Types, TypeOK
<1>e. UNCHANGED <<sessions, versions, upload, expired, raced>>
  BY DEF StoreProxy, db
<1>f. "clean" \notin Late \cup Cleaning
  BY DEF Late, Cleaning
<1>1. UsedOnly'
  BY <1>0, <1>n, PhaseFacts, <1>b, <1>c, <1>d, <1>e, <1>f DEF UsedOnly, Used, HasRow
<1>2. ModesAgree'
  BY <1>0, <1>n, PhaseFacts, <1>b, <1>c, <1>d, <1>e, <1>f DEF ModesAgree, Proxy, HasRow, Mode
<1>3. Guarded'
  BY <1>0, <1>n, PhaseFacts, <1>b, <1>c, <1>d, <1>e, <1>f DEF Guarded, Stored, Mode
<1>4. Alone'
  BY <1>0, <1>n, PhaseFacts, <1>b, <1>c, <1>d, <1>e, <1>f DEF Alone, HasRow, Final
<1>5. Whole'
  BY <1>0, <1>n, PhaseFacts, <1>b, <1>c, <1>d, <1>e, <1>f DEF Whole, Mode, ModesAgree, Alone, Proxy
<1>6. OneVersion'
  BY <1>0, <1>n, PhaseFacts, <1>b, <1>c, <1>d, <1>e, <1>f DEF OneVersion
<1>7. VersionHasObject'
  BY <1>0, <1>n, PhaseFacts, <1>b, <1>c, <1>d, <1>e, <1>f DEF VersionHasObject, ModesAgree, Alone, Proxy, Mode
<1> QED
  BY <1>1, <1>2, <1>3, <1>4, <1>5, <1>6, <1>7 DEF Kept, Facts

\* A request saves its version.
LEMMA SaveVersionKeeps ==
  ASSUME IInv, Types', NEW w \in Worker, SaveVersion(w)
  PROVE  Kept'
<1>0. Types /\ UsedOnly /\ ModesAgree /\ Guarded /\ Alone /\ Whole
      /\ OneVersion /\ VersionHasObject
  BY DEF IInv, Facts
<1>n. /\ \A x \in Worker : pc[x] # "idle" => at[x] \in Session
      /\ \A v \in versions : v.session \in Session
  BY <1>0, Named
<1>a. Goes(w, "save version", "close")
  BY <1>0, GoGoes DEF SaveVersion
<1>b. /\ at[w] \in Session /\ pc[w] = "save version" /\ pc'[w] = "close"
      /\ at'[w] = at[w] /\ snap'[w] = snap[w]
  BY <1>a, <1>n DEF Goes
<1>c. \A x \in Worker \ {w} : pc'[x] = pc[x] /\ at'[x] = at[x] /\ snap'[x] = snap[x]
  BY <1>a DEF Goes
<1>d. PICK new :
         /\ versions' = versions \cup {new}
         /\ new.session = at[w] /\ new.mode = Mode(w)
  <2> DEFINE row == [id |-> version[w], session |-> at[w], file |-> snap[w].file,
                     mode |-> Mode(w)]
  <2>1. row.session = at[w] /\ row.mode = Mode(w)
    OBVIOUS
  <2>2. versions' = versions \cup {row}
    BY DEF SaveVersion
  <2> HIDE DEF row
  <2> QED
    BY <2>1, <2>2
<1>e. \A v \in versions' : v \in versions \/ (v.session = at[w] /\ v.mode = Mode(w))
  BY <1>d
<1>f. UNCHANGED <<sessions, upload, object, expired, raced>>
  BY DEF SaveVersion, storage
<1>g. "close" \notin Late \cup Cleaning /\ "save version" \in Late
  BY DEF Late, Cleaning
<1>h. /\ \A x \in Worker : Holds(x)
      /\ \A x \in Worker : pc'[x] \in Before \cup Cleaning \cup {"clean"} => x # w
  BY <1>a DEF Goes, Holds, Completing, Before, Cleaning, Late
<1>1. UsedOnly'
  <2>1. \A x \in Worker : (pc[x] # "idle" => Used(at[x]))'
    BY <1>0, <1>n, <1>b, <1>c, <1>f DEF UsedOnly, Used, HasRow
  <2>2. \A v \in versions' : Used(v.session)'
    BY <1>0, <1>n, <1>b, <1>e, <1>f DEF UsedOnly, Used, HasRow
  <2>3. \A x \in Worker : (pc[x] \in Cleaning => at[x] \in expired)'
    BY <1>0, PhaseFacts, <1>b, <1>c, <1>f, <1>g DEF UsedOnly
  <2> QED
    BY <2>1, <2>2, <2>3 DEF UsedOnly
<1>2. ModesAgree'
  <2>1. \A s \in Session : (HasRow(s) => (sessions[s].mode = "proxy" <=> Proxy(s)))'
    BY <1>0, <1>f DEF ModesAgree, Proxy, HasRow
  <2>2. \A x \in Worker : (pc[x] # "idle" => (Mode(x) = "proxy" <=> Proxy(at[x])))'
    BY <1>0, <1>h, <1>f DEF ModesAgree, Proxy, Mode, Holds
  <2>3. \A v \in versions' : (v.mode = "proxy" <=> Proxy(v.session))'
    BY <1>0, <1>b, <1>e, <1>f DEF ModesAgree, Proxy, Mode
  <2>4. \A x \in Worker : (pc[x] = "clean" => Mode(x) = "proxy")'
    BY <1>0, <1>h, PhaseFacts DEF ModesAgree, Mode, Holds
  <2> QED
    BY <2>1, <2>2, <2>3, <2>4 DEF ModesAgree
<1>3. Guarded'
  <2>1. ~Stored(w)' /\ \A x \in Worker \ {w} : Stored(x)' => Stored(x)
    BY <1>b, <1>c, <1>g DEF Stored, Mode
  <2>2. pc[w] \in Late
    BY <1>b, <1>g
  <2>3. Mode(w) = "multipart" => Stored(w)
    BY <2>2 DEF Stored
  <2>4. \A x \in Worker : (Stored(x) => upload[at[x]] = "completed")'
    BY <1>0, <1>c, <1>f, <2>1 DEF Guarded
  <2>5. \A v \in versions' : (v.mode = "multipart" => upload[v.session] = "completed")'
    BY <1>0, <1>e, <1>f, <2>3 DEF Guarded
  <2>6. \A x, y \in Worker : (Stored(x) /\ Stored(y) /\ at[x] = at[y] => x = y)'
    BY <1>0, <1>c, <2>1 DEF Guarded
  <2>7. \A x \in Worker, v \in versions' : (Stored(x) /\ v.mode = "multipart" => v.session # at[x])'
    BY <1>0, <1>c, <1>e, <2>1, <2>3 DEF Guarded
  <2> QED
    BY <2>4, <2>5, <2>6, <2>7 DEF Guarded
<1>4. Alone'
  <2>1. \A x, y \in Worker : (pc[x] \in Completing /\ pc[y] \in Completing /\ at[x] = at[y]
                          /\ at[x] \notin raced => x = y)'
    BY <1>0, PhaseFacts, <1>h, <1>f DEF Alone, Holds
  <2>2. \A x \in Worker, v \in versions' : (pc[x] \in Before /\ v.session = at[x] => at[x] \in raced)'
    <3> SUFFICES ASSUME NEW x \in Worker, NEW v \in versions',
                        pc'[x] \in Before, v.session = at'[x]
                 PROVE  at'[x] \in raced'
      OBVIOUS
    <3>1. x # w /\ pc[x] \in Before /\ at'[x] = at[x]
      BY <1>h, PhaseFacts DEF Holds
    <3>2. CASE v \in versions
      BY <1>0, <1>f, <3>1, <3>2 DEF Alone
    <3>3. CASE v.session = at[w]
      BY <1>0, <1>b, <1>f, <1>g, PhaseFacts, <3>1, <3>3 DEF Alone
    <3> QED
      BY <1>e, <3>2, <3>3
  <2>3. \A v \in versions' : (\/ v.session \in raced
                              \/ HasRow(v.session) => sessions[v.session].status \in Final
                              \/ \E x \in Worker : pc[x] = "close" /\ at[x] = v.session)'
    <3> SUFFICES ASSUME NEW v \in versions'
                 PROVE  \/ v.session \in raced'
                        \/ HasRow(v.session)' => sessions'[v.session].status \in Final
                        \/ \E x \in Worker : pc'[x] = "close" /\ at'[x] = v.session
      OBVIOUS
    <3>1. \A x \in Worker : pc[x] = "close" => pc'[x] = "close" /\ at'[x] = at[x]
      BY <1>b, <1>c
    <3>2. CASE v \in versions
      BY <1>0, <1>f, <3>1, <3>2 DEF Alone, HasRow
    <3>3. CASE v.session = at[w]
      BY <1>b, <3>3
    <3> QED
      BY <1>e, <3>2, <3>3
  <2> QED
    BY <2>1, <2>2, <2>3 DEF Alone
<1>5. Whole'
  BY <1>0, <1>h, <1>f, <1>g, PhaseFacts DEF Whole, Mode, Holds
<1>6. OneVersion'
  <2>1. \A v \in versions : v.mode = "multipart" /\ v.session = at[w] => Mode(w) # "multipart"
    BY <1>0, <1>b, <1>g DEF Guarded, Stored
  <2> QED
    BY <1>0, <1>d, <2>1 DEF OneVersion
<1>7. VersionHasObject'
  <2>1. Mode(w) # "proxy" \/ at[w] \notin raced => object[at[w]] = "whole"
    BY <1>0, <1>b, <1>g DEF Whole
  <2> QED
    BY <1>0, <1>e, <1>f, <2>1 DEF VersionHasObject
<1> QED
  BY <1>1, <1>2, <1>3, <1>4, <1>5, <1>6, <1>7 DEF Kept, Facts

----------------------------------------------------------------------------
(* The invariant. *)

LEMMA IInvInit == Init => IInv
BY TypeInit, FactsInit DEF IInv

\* Every step keeps the facts.
LEMMA KeptNext ==
  ASSUME IInv, Types', [Next]_vars
  PROVE  Kept'
<1>0. Types
  BY DEF IInv
<1>1. ASSUME NEW s \in Session, NEW f \in File, NEW mode \in Modes, CreateSession(s, f, mode)
      PROVE  Kept'
  BY <1>1, CreateKeeps
<1>2. ASSUME NEW w \in Worker, NEW s \in Session, NEW p \in Number, PartStart(w, s, p)
      PROVE  Kept'
  <2>1. Begins(w, s, "find part") /\ Still
    BY <1>0, <1>2, BeginBegins DEF PartStart, Still, db, storage
  <2>2. "find part" \notin Completing \cup {"idle"} \cup Cleaning
    BY DEF Completing, Cleaning
  <2> QED
    BY <2>1, <2>2, BeginKeeps
<1>3. ASSUME NEW w \in Worker, NEW s \in Session, AbortStart(w, s)
      PROVE  Kept'
  <2>1. Begins(w, s, "abort upload") /\ Still
    BY <1>0, <1>3, BeginBegins DEF AbortStart, Still, db, storage
  <2>2. "abort upload" \notin Completing \cup {"idle"} \cup Cleaning
    BY DEF Completing, Cleaning
  <2> QED
    BY <2>1, <2>2, BeginKeeps
<1>4. ASSUME NEW w \in Worker, NEW s \in Session, CleanupStart(w, s)
      PROVE  Kept'
  <2>1. Begins(w, s, "clean upload") /\ Still /\ s \in expired
    BY <1>0, <1>4, BeginBegins DEF CleanupStart, Still, db, storage
  <2>2. "clean upload" \notin Completing \cup {"idle"}
    BY DEF Completing
  <2> QED
    BY <2>1, <2>2, BeginKeeps
<1>5. ASSUME NEW w \in Worker,
             \/ FindPart(w) \/ WritePart(w) \/ SavePart(w) \/ CountParts(w)
             \/ CheckQuota(w) \/ CleanParts(w) \/ Stat(w) \/ FindFile(w)
             \/ SaveFile(w) \/ DropParts(w) \/ RecordUsage(w) \/ AbortTemp(w)
             \/ AbortRows(w)
      PROVE  Kept'
  BY <1>0, <1>5, QuietSteps, QuietKeeps
<1>6. ASSUME NEW w \in Worker,
             \/ PartStatus(w) \/ Store(w) \/ SaveVersion(w) \/ Close(w)
             \/ AbortUpload(w) \/ Abort(w) \/ Delete(w) \/ Cut(w)
      PROVE  Kept'
  BY <1>6, PartStatusKeeps, StoreMultipartKeeps, StoreBlocksKeeps, StoreProxyKeeps,
     SaveVersionKeeps, CloseKeeps, AbortUploadKeeps, AbortKeeps, DeleteKeeps, CutKeeps
     DEF Store
<1>7. ASSUME NEW w \in Worker, NEW s \in Session, CompleteStart(w, s)
      PROVE  Kept'
  BY <1>7, CompleteKeeps
<1>8. ASSUME NEW s \in Session, Expire(s)
      PROVE  Kept'
  BY <1>8, ExpireKeeps
<1>9. CASE UNCHANGED vars
  BY <1>9, StutterKeeps
<1> QED
  BY <1>1, <1>2, <1>3, <1>4, <1>5, <1>6, <1>7, <1>8, <1>9 DEF Next

LEMMA IInvNext == IInv /\ [Next]_vars => IInv'
BY TypeStep, KeptNext DEF IInv, Kept

LEMMA IInvAlways == Spec => []IInv
BY IInvInit, IInvNext, PTL DEF Spec

\* For every number of sessions, workers and parts: the upload of a multipart
\* session is completed for one request only (service.ts:764), so it makes one
\* version at most, however requests overlap, are repeated or are cut short.
THEOREM OneVersionTheorem == Spec => []OneVersion
<1>1. IInv => OneVersion
  BY DEF IInv
<1> QED
  BY <1>1, IInvAlways, PTL

\* For every number of sessions, workers and parts: no abort, clean-up or second
\* request to complete takes the object of a version away; in proxy mode, where
\* a second copy may (service.ts:773), as far as one request completed the
\* session and was not cut short.
THEOREM VersionHasObjectTheorem == Spec => []VersionHasObject
<1>1. IInv => VersionHasObject
  BY DEF IInv
<1> QED
  BY <1>1, IInvAlways, PTL

----------------------------------------------------------------------------
(* The quota.                                                              *)

\* The requests in one of the phases of set.
In(set) == {w \in Worker : pc[w] \in set}

\* The phases after the version is saved and before its use is recorded.
Owing == {"close", "drop", "usage"}

\* The phases after the check of the quota and before the use is recorded.
Admitted == {"store", "clean", "stat"} \cup Late \cup Owing

\* A version is drawn for one request, which saves it once.
FreshIds ==
  /\ \A v \in versions : v.id < minted
  /\ \A w \in Worker : pc[w] \in Late =>
       /\ version[w] < minted
       /\ \A v \in versions : v.id # version[w]
  /\ \A w, x \in Worker :
       pc[w] \in Late /\ pc[x] \in Late /\ version[w] = version[x] => w = x

\* Every version was charged, is about to be, or was lost.
Accounted ==
  /\ IsFiniteSet(versions)
  /\ Cardinality(versions) = used + lost + Cardinality(In(Owing))

\* The requests that passed the check were one less when the last of them did.
WithinQuota == used + Cardinality(In(Admitted)) + 1 <= Limit + Cardinality(Worker)

QuotaInv == Types /\ FreshIds /\ Accounted /\ WithinQuota

LEMMA InFinite ==
  ASSUME NEW set
  PROVE  /\ IsFiniteSet(In(set)) /\ Cardinality(In(set)) \in Nat
         /\ Cardinality(In(set)) <= Cardinality(Worker) /\ Cardinality(Worker) \in Nat
         /\ IsFiniteSet(In(set)') /\ Cardinality(In(set)') \in Nat
         /\ Cardinality(In(set)') <= Cardinality(Worker)
<1>1. In(set) \in SUBSET Worker /\ In(set)' \in SUBSET Worker
  BY DEF In
<1> QED
  BY <1>1, FS_Subset, FS_CardinalityType

\* One request moves: it enters the phases of set, leaves them, or does neither.
LEMMA InMoves ==
  ASSUME NEW set, NEW w \in Worker, \A x \in Worker \ {w} : pc'[x] = pc[x]
  PROVE  /\ (pc[w] \in set <=> pc'[w] \in set)
              => Cardinality(In(set)') = Cardinality(In(set))
         /\ pc[w] \notin set /\ pc'[w] \in set
              => Cardinality(In(set)') = Cardinality(In(set)) + 1
         /\ pc[w] \in set /\ pc'[w] \notin set
              => Cardinality(In(set)') = Cardinality(In(set)) - 1
<1>0. IsFiniteSet(In(set))
  BY InFinite
<1>1. ASSUME pc[w] \in set <=> pc'[w] \in set
      PROVE  Cardinality(In(set)') = Cardinality(In(set))
  <2>1. In(set)' = In(set)
    BY <1>1 DEF In
  <2> QED
    BY <2>1
<1>2. ASSUME pc[w] \notin set, pc'[w] \in set
      PROVE  Cardinality(In(set)') = Cardinality(In(set)) + 1
  <2>1. In(set)' = In(set) \cup {w} /\ w \notin In(set)
    BY <1>2 DEF In
  <2> QED
    BY <1>0, <2>1, FS_AddElement
<1>3. ASSUME pc[w] \in set, pc'[w] \notin set
      PROVE  Cardinality(In(set)') = Cardinality(In(set)) - 1
  <2>1. In(set)' = In(set) \ {w} /\ w \in In(set)
    BY <1>3 DEF In
  <2> QED
    BY <1>0, <2>1, FS_RemoveElement
<1> QED
  BY <1>1, <1>2, <1>3

LEMMA QuotaInit == Init => QuotaInv
<1> SUFFICES ASSUME Init PROVE QuotaInv
  OBVIOUS
<1>1. In(Owing) = {} /\ In(Admitted) = {} /\ versions = {}
  BY DEF Init, In, Owing, Admitted, Late
<1>2. Cardinality(Worker) \in Nat /\ Cardinality(Worker) # 0
  BY FS_CardinalityType, FS_EmptySet
<1>3. FreshIds
  BY DEF Init, FreshIds, Late
<1>4. Accounted
  BY <1>1, FS_EmptySet DEF Init, Accounted
<1>5. WithinQuota
  BY <1>1, <1>2, FS_EmptySet DEF Init, WithinQuota
<1> QED
  BY <1>3, <1>4, <1>5, TypeInit DEF QuotaInv

\* A step of request w that draws and saves no version and charges nothing.
Calm(w) ==
  /\ UNCHANGED <<versions, used, lost, version, minted>>
  /\ \A x \in Worker \ {w} : pc'[x] = pc[x]
  /\ pc[w] \in Owing <=> pc'[w] \in Owing
  /\ pc'[w] \in Admitted => pc[w] \in Admitted
  /\ pc'[w] \in Late => pc[w] \in Late

LEMMA CalmKeeps ==
  ASSUME QuotaInv, Types', NEW w \in Worker, Calm(w)
  PROVE  QuotaInv'
<1> USE DEF Calm
<1>1. Cardinality(In(Owing)') = Cardinality(In(Owing))
  BY InMoves
<1>2. Cardinality(In(Admitted)') <= Cardinality(In(Admitted))
  BY InMoves, InFinite
<1>3. FreshIds'
  <2>1. \A x \in Worker : pc'[x] \in Late => pc[x] \in Late
    OBVIOUS
  <2> QED
    BY <2>1 DEF QuotaInv, FreshIds
<1>4. Accounted'
  BY <1>1 DEF QuotaInv, Accounted
<1>5. WithinQuota'
  BY <1>2, InFinite DEF QuotaInv, WithinQuota, Types, TypeOK
<1> QED
  BY <1>3, <1>4, <1>5 DEF QuotaInv

\* The quota is checked: with this request, at most the others are admitted.
LEMMA AdmitKeeps ==
  ASSUME QuotaInv, Types', NEW w \in Worker, CheckQuota(w)
  PROVE  QuotaInv'
<1>0. Types
  BY DEF QuotaInv
<1>1. /\ UNCHANGED <<versions, used, lost, version, minted>>
      /\ \A x \in Worker \ {w} : pc'[x] = pc[x]
      /\ pc[w] = "quota"
      /\ pc'[w] = IF Fits THEN "store" ELSE "idle"
  BY <1>0, GoGoes DEF CheckQuota, Goes, db, bounds
<1>2. CASE Fits
  <2>1. pc[w] \notin Owing /\ pc'[w] \notin Owing /\ pc'[w] \notin Late
    BY <1>1, <1>2 DEF Owing, Late
  <2>2. FreshIds'
    BY <1>1, <2>1 DEF QuotaInv, FreshIds
  <2>3. Cardinality(In(Owing)') = Cardinality(In(Owing))
    BY <1>1, <2>1, InMoves
  <2>4. Accounted'
    BY <1>1, <2>3 DEF QuotaInv, Accounted
  <2>5. WithinQuota'
    BY <1>0, <1>1, <1>2, InFinite DEF WithinQuota, Fits, Types, TypeOK
  <2> QED
    BY <2>2, <2>4, <2>5 DEF QuotaInv
<1>3. CASE ~Fits
  <2>1. pc[w] \notin Owing /\ pc'[w] \notin Owing \cup Late \cup Admitted
    BY <1>1, <1>3 DEF Owing, Late, Admitted
  <2> QED
    BY <1>1, <2>1, CalmKeeps DEF Calm
<1> QED
  BY <1>2, <1>3

\* The object is whole: a version is drawn.
LEMMA StatKeeps ==
  ASSUME QuotaInv, Types', NEW w \in Worker, Stat(w)
  PROVE  QuotaInv'
<1>0. Types
  BY DEF QuotaInv
<1>1. /\ UNCHANGED <<versions, used, lost>>
      /\ \A x \in Worker \ {w} : pc'[x] = pc[x]
      /\ pc[w] = "stat"
      /\ pc'[w] = IF object[at[w]] = "whole" THEN "find file" ELSE "idle"
  <2>1. Go(w, "stat", IF object[at[w]] = "whole" THEN "find file" ELSE "idle")
    BY DEF Stat
  <2>2. Goes(w, "stat", IF object[at[w]] = "whole" THEN "find file" ELSE "idle")
    BY <1>0, <2>1, GoGoes
  <2>3. UNCHANGED <<versions, used, lost>>
    BY DEF Stat, db
  <2> QED
    BY <2>2, <2>3 DEF Goes
<1>2. CASE object[at[w]] = "whole"
  <2>1. /\ pc[w] \notin Owing /\ pc'[w] \notin Owing
        /\ pc[w] \in Admitted /\ pc'[w] \in Admitted
    BY <1>1, <1>2 DEF Owing, Admitted, Late
  <2>2. /\ Cardinality(In(Owing)') = Cardinality(In(Owing))
        /\ Cardinality(In(Admitted)') = Cardinality(In(Admitted))
    BY <1>1, <2>1, InMoves
  <2>3. /\ minted \in Nat /\ minted' = minted + 1 /\ version'[w] = minted
        /\ \A x \in Worker \ {w} : version'[x] = version[x] /\ version[x] \in Nat
        /\ \A v \in versions : v.id \in Nat
    BY <1>0, <1>2 DEF Stat, Types, TypeOK
  <2>4. FreshIds'
    <3>0. FreshIds /\ versions' = versions
      BY <1>1 DEF QuotaInv
    <3>1. \A x \in Worker : pc'[x] \in Late => x = w \/ pc[x] \in Late
      BY <1>1
    <3>2. \A n \in Nat : n < minted => n < minted' /\ n # minted
      BY <2>3
    <3>3. \A v \in versions' : v.id < minted' /\ v.id # minted
      BY <2>3, <3>0, <3>2 DEF FreshIds
    <3>4. \A x \in Worker \ {w} : pc'[x] \in Late =>
            version'[x] < minted' /\ version'[x] # minted
      BY <2>3, <3>0, <3>1, <3>2 DEF FreshIds
    <3>5. minted < minted'
      BY <2>3
    <3>6. \A x \in Worker : pc'[x] \in Late =>
            version'[x] < minted' /\ \A v \in versions' : v.id # version'[x]
      BY <2>3, <3>0, <3>1, <3>3, <3>4, <3>5 DEF FreshIds
    <3>7. \A x, y \in Worker :
            pc'[x] \in Late /\ pc'[y] \in Late /\ version'[x] = version'[y] => x = y
      BY <2>3, <3>0, <3>1, <3>4 DEF FreshIds
    <3> QED
      BY <3>3, <3>6, <3>7 DEF FreshIds
  <2>5. Accounted' /\ WithinQuota'
    BY <1>1, <2>2 DEF QuotaInv, Accounted, WithinQuota
  <2> QED
    BY <2>4, <2>5 DEF QuotaInv
<1>3. CASE object[at[w]] # "whole"
  <2>1. /\ pc[w] \notin Owing /\ pc'[w] \notin Owing \cup Late \cup Admitted
        /\ UNCHANGED <<version, minted>>
    BY <1>1, <1>3 DEF Owing, Late, Admitted, Stat
  <2> QED
    BY <1>1, <2>1, CalmKeeps DEF Calm
<1> QED
  BY <1>2, <1>3

\* The version is saved, and is one that was not there.
LEMMA SavedKeeps ==
  ASSUME QuotaInv, Types', NEW w \in Worker, SaveVersion(w)
  PROVE  QuotaInv'
<1>0. Types
  BY DEF QuotaInv
<1>1. /\ UNCHANGED <<used, lost, version, minted>>
      /\ \A x \in Worker \ {w} : pc'[x] = pc[x]
      /\ pc[w] = "save version" /\ pc'[w] = "close"
  BY <1>0, GoGoes DEF SaveVersion, Goes, bounds
<1>2. PICK new : versions' = versions \cup {new} /\ new.id = version[w]
  <2> DEFINE row == [id |-> version[w], session |-> at[w], file |-> snap[w].file,
                     mode |-> Mode(w)]
  <2>1. row.id = version[w]
    OBVIOUS
  <2>2. versions' = versions \cup {row}
    BY DEF SaveVersion
  <2> HIDE DEF row
  <2> QED
    BY <2>1, <2>2
<1>3. /\ pc[w] \notin Owing /\ pc'[w] \in Owing
      /\ pc[w] \in Admitted /\ pc'[w] \in Admitted
      /\ pc[w] \in Late /\ pc'[w] \notin Late
  BY <1>1 DEF Owing, Admitted, Late
<1>4. /\ Cardinality(In(Owing)') = Cardinality(In(Owing)) + 1
      /\ Cardinality(In(Admitted)') = Cardinality(In(Admitted))
  BY <1>1, <1>3, InMoves
<1>5. FreshIds'
  <2>1. \A x \in Worker : pc'[x] \in Late => x # w /\ pc[x] \in Late
    BY <1>1, <1>3
  <2> QED
    BY <1>1, <1>2, <1>3, <2>1 DEF QuotaInv, FreshIds
<1>6. Accounted'
  <2>1. new \notin versions
    BY <1>2, <1>3 DEF QuotaInv, FreshIds
  <2>2. /\ IsFiniteSet(versions')
        /\ Cardinality(versions') = Cardinality(versions) + 1
    BY <1>2, <2>1, FS_AddElement DEF QuotaInv, Accounted
  <2>3. Cardinality(versions) = used + lost + Cardinality(In(Owing))
    BY DEF QuotaInv, Accounted
  <2>4. used \in Nat /\ lost \in Nat /\ Cardinality(In(Owing)) \in Nat
    BY <1>0, InFinite DEF Types, TypeOK
  <2>a. used' = used /\ lost' = lost
    BY <1>1
  <2>5. Cardinality(versions') = used' + lost' + Cardinality(In(Owing)')
    BY ONLY <1>4, <2>2, <2>3, <2>4, <2>a
  <2> QED
    BY <2>2, <2>5 DEF Accounted
<1>7. WithinQuota'
  BY <1>1, <1>4 DEF QuotaInv, WithinQuota
<1> QED
  BY <1>5, <1>6, <1>7 DEF QuotaInv

\* The use of a version is recorded, or its request ends before.
LEMMA SettledKeeps ==
  ASSUME QuotaInv, Types', NEW w \in Worker,
         Goes(w, pc[w], "idle"), pc[w] \in Owing,
         UNCHANGED <<versions, version, minted>>,
         \/ used' = used + 1 /\ lost' = lost
         \/ used' = used /\ lost' = lost + 1
  PROVE  QuotaInv'
<1>0. Types
  BY DEF QuotaInv
<1>1. /\ \A x \in Worker \ {w} : pc'[x] = pc[x]
      /\ pc[w] \in Admitted /\ pc'[w] \notin Owing \cup Admitted \cup Late
  BY DEF Goes, Owing, Admitted, Late
<1>2. /\ Cardinality(In(Owing)') = Cardinality(In(Owing)) - 1
      /\ Cardinality(In(Admitted)') = Cardinality(In(Admitted)) - 1
  BY <1>1, InMoves
<1>3. FreshIds'
  <2>1. \A x \in Worker : pc'[x] \in Late => pc[x] \in Late
    BY <1>1
  <2> QED
    BY <2>1 DEF QuotaInv, FreshIds
<1>4. Accounted'
  BY <1>0, <1>2, InFinite DEF QuotaInv, Accounted, Types, TypeOK
<1>5. WithinQuota'
  BY <1>0, <1>2, InFinite DEF QuotaInv, WithinQuota, Types, TypeOK
<1> QED
  BY <1>3, <1>4, <1>5 DEF QuotaInv

LEMMA GoCalm ==
  ASSUME Types, NEW w \in Worker, NEW from, NEW to, Go(w, from, to),
         from \in Owing <=> to \in Owing,
         to \in Admitted => from \in Admitted,
         to \in Late => from \in Late,
         UNCHANGED <<versions, used, lost, version, minted>>
  PROVE  Calm(w)
<1>1. Goes(w, from, to)
  BY GoGoes
<1> QED
  BY <1>1 DEF Calm, Goes

\* The steps of a request that are calm.
LEMMA CalmSteps ==
  ASSUME Types, NEW w \in Worker,
         \/ FindPart(w) \/ WritePart(w) \/ SavePart(w) \/ PartStatus(w)
         \/ CountParts(w) \/ StoreMultipart(w) \/ StoreBlocks(w) \/ StoreProxy(w)
         \/ CleanParts(w) \/ FindFile(w) \/ SaveFile(w) \/ DropParts(w)
         \/ AbortUpload(w) \/ AbortTemp(w) \/ AbortRows(w) \/ Abort(w) \/ Delete(w)
  PROVE  Calm(w)
<1> USE DEF Owing, Admitted, Late, db, storage, locals, bounds
<1>1. CASE FindPart(w)
  BY <1>1, GoCalm DEF FindPart
<1>2. CASE WritePart(w)
  BY <1>2, GoCalm DEF WritePart
<1>3. CASE SavePart(w)
  BY <1>3, GoCalm DEF SavePart
<1>4. CASE PartStatus(w)
  BY <1>4, GoCalm DEF PartStatus
<1>5. CASE CountParts(w)
  BY <1>5, GoCalm DEF CountParts
<1>6. CASE StoreMultipart(w)
  BY <1>6, GoCalm DEF StoreMultipart
<1>7. CASE StoreBlocks(w)
  BY <1>7, GoCalm DEF StoreBlocks
<1>8. CASE StoreProxy(w)
  BY <1>8, GoCalm DEF StoreProxy
<1>9. CASE CleanParts(w)
  BY <1>9, GoCalm DEF CleanParts
<1>10. CASE FindFile(w)
  BY <1>10, GoCalm DEF FindFile
<1>11. CASE SaveFile(w)
  BY <1>11, GoCalm DEF SaveFile
<1>12. CASE DropParts(w)
  BY <1>12, GoCalm DEF DropParts
<1>13. CASE AbortUpload(w)
  BY <1>13, GoCalm DEF AbortUpload
<1>14. CASE AbortTemp(w)
  BY <1>14, GoCalm DEF AbortTemp
<1>15. CASE AbortRows(w)
  BY <1>15, GoCalm DEF AbortRows
<1>16. CASE Abort(w)
  BY <1>16, GoCalm DEF Abort
<1>17. CASE Delete(w)
  BY <1>17, GoCalm DEF Delete
<1> QED
  BY <1>1, <1>2, <1>3, <1>4, <1>5, <1>6, <1>7, <1>8, <1>9, <1>10, <1>11, <1>12, <1>13, <1>14, <1>15, <1>16, <1>17

LEMMA CalmBegins ==
  ASSUME Types, NEW w \in Worker, NEW s \in Session,
         NEW phase \in {"find part", "count", "abort upload", "clean upload"},
         Begin(w, s, phase), UNCHANGED <<versions, used, lost, version, minted>>
  PROVE  Calm(w)
BY BeginBegins DEF Calm, Begins, Owing, Admitted, Late

LEMMA QuotaNext ==
  ASSUME QuotaInv, [Next]_vars
  PROVE  QuotaInv'
<1>0. Types /\ Types'
  BY TypeStep DEF QuotaInv
<1>1. ASSUME pc' = pc, UNCHANGED <<versions, used, lost, version, minted>>
      PROVE  QuotaInv'
  <2>1. PICK w \in Worker : TRUE
    OBVIOUS
  <2>2. Calm(w)
    BY <1>1 DEF Calm
  <2> QED
    BY <1>0, <2>2, CalmKeeps
<1>2. ASSUME NEW w \in Worker, NEW s \in Session,
             \/ \E p \in Number : PartStart(w, s, p)
             \/ CompleteStart(w, s) \/ AbortStart(w, s) \/ CleanupStart(w, s)
      PROVE  QuotaInv'
  <2>1. PICK phase \in {"find part", "count", "abort upload", "clean upload"} :
          /\ Begin(w, s, phase)
          /\ UNCHANGED <<versions, used, lost, version, minted>>
    BY <1>2 DEF PartStart, CompleteStart, AbortStart, CleanupStart, db
  <2> QED
    BY <1>0, <2>1, CalmBegins, CalmKeeps
<1>3. ASSUME NEW w \in Worker,
             \/ FindPart(w) \/ WritePart(w) \/ SavePart(w) \/ PartStatus(w)
             \/ CountParts(w) \/ Store(w) \/ CleanParts(w) \/ FindFile(w) \/ SaveFile(w)
             \/ DropParts(w)
             \/ AbortUpload(w) \/ AbortTemp(w) \/ AbortRows(w) \/ Abort(w) \/ Delete(w)
      PROVE  QuotaInv'
  BY <1>0, <1>3, CalmSteps, CalmKeeps DEF Store
<1>4. ASSUME NEW w \in Worker, CheckQuota(w) \/ Stat(w) \/ SaveVersion(w)
      PROVE  QuotaInv'
  BY <1>0, <1>4, AdmitKeeps, StatKeeps, SavedKeeps
<1>5. ASSUME NEW w \in Worker, RecordUsage(w)
      PROVE  QuotaInv'
  <2>1. Goes(w, pc[w], "idle") /\ pc[w] \in Owing
    BY <1>0, <1>5, GoGoes DEF RecordUsage, Goes, Owing
  <2>2. UNCHANGED <<versions, version, minted, lost>> /\ used' = used + 1
    BY <1>5 DEF RecordUsage, db, bounds
  <2> QED
    BY <1>0, <2>1, <2>2, SettledKeeps
<1>6. ASSUME NEW w \in Worker, Close(w)
      PROVE  QuotaInv'
  <2>1. UNCHANGED <<versions, version, minted, used>>
    BY <1>6 DEF Close, bounds
  <2>2. CASE HasRow(at[w])
    <3>1. Goes(w, "close", "drop") /\ lost' = lost
      BY <1>0, <1>6, <2>2, GoGoes DEF Close
    <3>2. Calm(w)
      BY <2>1, <3>1 DEF Calm, Goes, Owing, Admitted, Late
    <3> QED
      BY <1>0, <3>2, CalmKeeps
  <2>3. CASE ~HasRow(at[w])
    <3>1. Goes(w, "close", "idle") /\ lost' = lost + 1
      BY <1>0, <1>6, <2>3, GoGoes DEF Close
    <3>2. Goes(w, pc[w], "idle") /\ pc[w] \in Owing
      BY <3>1 DEF Goes, Owing
    <3> QED
      BY <1>0, <2>1, <3>1, <3>2, SettledKeeps
  <2> QED
    BY <2>2, <2>3
<1>7. ASSUME NEW w \in Worker, Cut(w)
      PROVE  QuotaInv'
  <2>1. Goes(w, pc[w], "idle") /\ UNCHANGED <<versions, version, minted, used>>
    BY <1>0, <1>7, GoGoes DEF Cut, db
  <2>2. CASE pc[w] \in Owing
    <3>1. lost' = lost + 1
      BY <1>7, <2>2 DEF Cut, Owing
    <3> QED
      BY <1>0, <2>1, <2>2, <3>1, SettledKeeps
  <2>3. CASE pc[w] \notin Owing
    <3>1. lost' = lost
      BY <1>7, <2>3 DEF Cut, Owing
    <3>2. Calm(w)
      BY <2>1, <2>3, <3>1 DEF Calm, Goes, Owing, Admitted, Late
    <3> QED
      BY <1>0, <3>2, CalmKeeps
  <2> QED
    BY <2>2, <2>3
<1>8. ASSUME NEW s \in Session,
             Expire(s) \/ \E f \in File, mode \in Modes : CreateSession(s, f, mode)
      PROVE  QuotaInv'
  BY <1>1, <1>8 DEF Expire, CreateSession, db, locals, bounds
<1>9. CASE UNCHANGED vars
  BY <1>1, <1>9 DEF vars, db, locals, bounds
<1> QED
  BY <1>2, <1>3, <1>4, <1>5, <1>6, <1>7, <1>8, <1>9 DEF Next

\* For every quota and number of workers: the check before a version is made and
\* the charge after it (service.ts:734 and 929) let the versions exceed the quota
\* by the requests that overlap, less the one that fitted, and by the versions
\* whose request was cut short or found its session deleted, and by no more.
THEOREM QuotaBoundedTheorem == Spec => []QuotaBounded
<1>1. Init => QuotaInv
  BY QuotaInit
<1>2. QuotaInv /\ [Next]_vars => QuotaInv'
  BY QuotaNext
<1>3. QuotaInv => QuotaBounded
  <2> SUFFICES ASSUME QuotaInv PROVE QuotaBounded
    OBVIOUS
  <2>1. In(Owing) \subseteq In(Admitted)
    BY DEF In, Admitted
  <2>2. Cardinality(In(Owing)) <= Cardinality(In(Admitted))
    BY <2>1, InFinite, FS_Subset
  <2>3. /\ Cardinality(versions) = used + lost + Cardinality(In(Owing))
        /\ used + Cardinality(In(Admitted)) + 1 <= Limit + Cardinality(Worker)
        /\ used \in Nat /\ lost \in Nat
    BY DEF QuotaInv, Accounted, WithinQuota, Types, TypeOK
  <2>4. /\ Cardinality(In(Owing)) \in Nat /\ Cardinality(In(Admitted)) \in Nat
        /\ Cardinality(Worker) \in Nat
    BY InFinite
  <2> QED
    BY ONLY UploadAssumption, <2>2, <2>3, <2>4 DEF QuotaBounded
<1> QED
  BY <1>1, <1>2, <1>3, PTL DEF Spec
=============================================================================
