----------------------------- MODULE ClientSync -----------------------------
(***************************************************************************)
(* One datafn client that reads and writes: its local writes               *)
(* (client/src/mutate.ts, offline/mutate.ts), and the push, the pull and   *)
(* the clone that move the same records and cursors                        *)
(* (client/src/sync/engine.ts, sync/apply.ts, and on the server            *)
(* execution/sync/clone.ts).                                               *)
(*                                                                         *)
(* Modules PushServer and Pull look into one push and one pull; here each  *)
(* is answered in one step, and what matters is how they meet.  A table    *)
(* has one record.  A change is named by the write it comes from: the      *)
(* client's own are 1, 2, ... in the order they were made, those of other  *)
(* clients follow MaxWrites.  A record's value is the write that made it,  *)
(* 0 if there is no record.                                                *)
(*                                                                         *)
(* Left out: the global cursor (all a push does with it is to ask for a    *)
(* pull, which may start here at any time), deletes by this client,        *)
(* debounced mutations, and clones that overlap each other.  The cursors a *)
(* pull asks for are read in one step, and so is its answer made.          *)
(***************************************************************************)
EXTENDS Naturals, FiniteSets, Sequences, FiniteSetsExt, Functions

CONSTANTS
  Table,
  Mine,         \* the tables this client writes
  Theirs,       \* the tables other clients write
  None,         \* nothing is under way
  Batch,        \* pushBatchSize
  MaxWrites,    \* bound: writes of this client
  MaxForeign,   \* bound: changes of other clients
  MaxChanges,   \* bound: both together
  MaxFaults,    \* bound: lost requests and answers, failed reads, refusals
  MaxCrashes,   \* bound: times the page is closed
  MaxClones     \* bound: clones, besides one for each time the page is closed

ASSUME ClientSyncAssumption ==
  /\ Mine \subseteq Table /\ Theirs \subseteq Table
  /\ Batch \in Nat \ {0}
  /\ MaxWrites \in Nat /\ MaxForeign \in Nat /\ MaxChanges \in Nat
  /\ MaxFaults \in Nat /\ MaxCrashes \in Nat /\ MaxClones \in Nat

VARIABLES
  \* the server
  log,          \* the changes, a number is a position
  rejected,     \* own writes whose verdict is a stored failure
  \* the client's storage
  local, cursor, hydration,
  chlog,        \* the change log, also what was acknowledged
  acked,        \* so many entries of it are gone
  \* a write
  tableOf,      \* the tables of the own writes
  applied,      \* so many entries of chlog were applied, or never will be
  direct,       \* the remote mutation in flight
  \* push, pull and clone
  push, pull, clone,
  jobs,         \* cursors that the push and the pull have yet to store
  held,         \* the cursor read by setCursorMonotonically, not yet stored
  \* history and bounds
  seen,         \* positions whose change has reached the local store
  done,         \* own writes applied locally
  torn,         \* tables whose clone read the rows before later changes
  muddled,      \* tables where an older value replaced a newer one
  lost,         \* tables with an own write that was logged and never applied
  faults, crashes, clones

server  == <<log, rejected>>
storage == <<local, cursor, hydration>>
writing == <<chlog, tableOf, applied, direct>>
cursors == <<jobs, held>>
past    == <<seen, done, torn, muddled, lost>>
bounds  == <<faults, crashes, clones>>
vars == <<server, storage, writing, acked, push, pull, clone, cursors, past, bounds>>

Own  == 1 .. MaxWrites
Id   == 1 .. MaxWrites + MaxForeign
Seq0 == 0 .. MaxWrites + MaxForeign
Actor == {"push", "pull"}

Entry == [table : Table, id : Id, gone : BOOLEAN]

TypeOK ==
  /\ log \in Seq(Entry) /\ rejected \subseteq Own
  /\ local \in [Table -> {0} \cup Id]
  /\ cursor \in [Table -> Seq0]
  /\ hydration \in [Table -> {"notStarted", "hydrating", "ready"}]
  /\ chlog \in Seq(Own) /\ acked \in 0 .. Len(chlog)
  /\ tableOf \in Seq(Table) /\ applied \in 0 .. Len(chlog)
  /\ direct = None \/ direct.id \in Own
  /\ push.pc \in {"idle", "sent", "replied", "cursors"}
  /\ pull.pc \in {"idle", "sent", "replied", "checked", "cursors"}
  /\ clone.pc \in {"idle", "under way"}
  /\ \A a \in Actor : jobs[a] \subseteq Table \X Seq0
  /\ seen \subseteq Id /\ done \subseteq Own
  /\ torn \cup muddled \cup lost \subseteq Table
  /\ faults \in 0 .. MaxFaults /\ crashes \in 0 .. MaxCrashes /\ clones \in 0 .. MaxClones + MaxCrashes

Idle == [pc |-> "idle"]

Init ==
  /\ log = <<>> /\ rejected = {}
  /\ local = [t \in Table |-> 0]
  /\ cursor = [x \in Table |-> 0]
  /\ hydration = [t \in Table |-> "notStarted"]
  /\ chlog = <<>> /\ acked = 0 /\ tableOf = <<>> /\ applied = 0 /\ direct = None
  /\ push = Idle /\ pull = Idle /\ clone = Idle
  /\ jobs = [a \in Actor |-> {}] /\ held = [a \in Actor |-> None]
  /\ seen = {} /\ done = {} /\ torn = {} /\ muddled = {} /\ lost = {}
  /\ faults = 0 /\ crashes = 0 /\ clones = 0

----------------------------------------------------------------------------
(* The server's log. *)

\* The changes of a table among the first n.
Changes(t, n) == {s \in 1 .. n : log[s].table = t}

\* getLatestServerSeq of a resource, up to number n.
Latest(t, n) == Max({0} \cup Changes(t, n))

\* The row of a table after the first n changes.
RowAt(t, n) ==
  LET s == Latest(t, n) IN IF s = 0 \/ log[s].gone THEN 0 ELSE log[s].id

Ids(n) == {log[s].id : s \in 1 .. n}

\* A fault comes before the page is closed, a bound as well.
Fault == faults < MaxFaults /\ crashes = 0 /\ faults' = faults + 1

Top == Len(log)

\* A value made in the knowledge of the changes in K is stored: it is older
\* than a change that has reached the store before.
Muddle(t, K) ==
  IF \/ \E n \in done \ K : tableOf[n] = t
     \/ \E s \in seen : log[s].table = t /\ log[s].id \notin K
  THEN muddled \cup {t} ELSE muddled

\* What own write n was made in the knowledge of: the own writes before it,
\* and all that was logged before it, if it was logged itself.
Known(n) ==
  LET own == 1 .. n
  IN IF n \in Ids(Top) THEN own \cup Ids(Min({s \in 1 .. Top : log[s].id = n}))
     ELSE own \cup (Id \ Own)

\* So many writes have been made.
Made == Len(tableOf) + Cardinality(Ids(Top) \ Own)

MayWrite == Len(tableOf) < MaxWrites /\ Made < MaxChanges

\* Another client changes the record.
Foreign(t, gone) ==
  /\ Made < MaxChanges
  /\ Cardinality(Ids(Top) \ Own) < MaxForeign
  /\ gone => RowAt(t, Top) # 0
  /\ log' = Append(log, [table |-> t, gone |-> gone,
                         id |-> MaxWrites + 1 + Cardinality(Ids(Top) \ Own)])
  /\ UNCHANGED <<rejected, storage, writing, acked, push, pull, clone, cursors, past, bounds>>

----------------------------------------------------------------------------
(* Local writes. *)

\* Local-first, for a table that is ready: the entry is appended ...
Mutate(t) ==
  /\ hydration[t] = "ready"
  /\ MayWrite
  /\ tableOf' = Append(tableOf, t)
  /\ chlog' = Append(chlog, Len(tableOf'))
  /\ UNCHANGED <<server, storage, acked, applied, direct, push, pull, clone, cursors,
                 past, bounds>>

\* ... and then applied.
Apply ==
  /\ applied < Len(chlog)
  /\ LET n == chlog[applied + 1]
         t == tableOf[n]
     IN /\ local' = [local EXCEPT ![t] = n]
        /\ muddled' = Muddle(t, Known(n))
        /\ done' = done \cup {n}
  /\ applied' = applied + 1
  /\ UNCHANGED <<server, cursor, hydration, chlog, tableOf, direct, acked, push, pull, clone,
                 cursors, seen, torn, lost, bounds>>

\* A table that is not ready: the mutation goes to the server.
Direct(t) ==
  /\ hydration[t] # "ready"
  /\ direct = None
  /\ MayWrite
  /\ tableOf' = Append(tableOf, t)
  /\ direct' = [id |-> Len(tableOf'), executed |-> FALSE]
  /\ UNCHANGED <<server, storage, chlog, applied, acked, push, pull, clone, cursors,
                 past, bounds>>

DirectServe ==
  /\ direct # None /\ ~direct.executed
  /\ direct' = [direct EXCEPT !.executed = TRUE]
  /\ log' = Append(log, [table |-> tableOf[direct.id], id |-> direct.id, gone |-> FALSE])
  /\ UNCHANGED <<rejected, storage, chlog, tableOf, applied, acked, push, pull, clone,
                 cursors, past, bounds>>

\* applyRemoteSuccessToLocalStorage.
DirectDone ==
  /\ direct # None /\ direct.executed
  /\ LET t == tableOf[direct.id]
     IN /\ local' = [local EXCEPT ![t] = direct.id]
        /\ muddled' = Muddle(t, Known(direct.id))
        /\ done' = done \cup {direct.id}
  /\ direct' = None
  /\ UNCHANGED <<server, cursor, hydration, chlog, tableOf, applied, acked, push, pull, clone,
                 cursors, seen, torn, lost, bounds>>

\* The server refuses it: the caller is told, nothing is stored.
DirectRefused ==
  /\ direct # None /\ ~direct.executed
  /\ Fault
  /\ direct' = None
  /\ UNCHANGED <<server, storage, chlog, tableOf, applied, acked, push, pull, clone, cursors,
                 past, crashes, clones>>

\* A transport error: the same mutation goes to the change log.
DirectLost ==
  /\ direct # None
  /\ Fault
  /\ chlog' = Append(chlog, direct.id)
  /\ direct' = None
  /\ UNCHANGED <<server, storage, tableOf, applied, acked, push, pull, clone, cursors,
                 past, crashes, clones>>

----------------------------------------------------------------------------
(* setCursorMonotonically: read the stored cursor, then store the larger. *)

CursorRead(a) ==
  /\ held[a] = None
  /\ \E job \in jobs[a] :
       /\ held' = [held EXCEPT ![a] = [name |-> job[1], to |-> job[2], from |-> cursor[job[1]]]]
       /\ jobs' = [jobs EXCEPT ![a] = @ \ {job}]
  /\ UNCHANGED <<server, storage, writing, acked, push, pull, clone, past, bounds>>

CursorWrite(a) ==
  /\ held[a] # None
  /\ LET h == held[a]
     IN cursor' = [cursor EXCEPT ![h.name] = IF h.to > h.from THEN h.to ELSE @]
  /\ held' = [held EXCEPT ![a] = None]
  /\ UNCHANGED <<server, local, hydration, writing, acked, push, pull, clone, jobs,
                 past, bounds>>

Stored(a) == jobs[a] = {} /\ held[a] = None

Store(a, J) == jobs' = [jobs EXCEPT ![a] = J] /\ UNCHANGED held

----------------------------------------------------------------------------
(* Push. *)

PushStart ==
  /\ push.pc = "idle" /\ acked < Len(chlog)
  /\ push' = [pc |-> "sent",
              batch |-> SubSeq(chlog, acked + 1, Min({acked + Batch, Len(chlog)}))]
  /\ UNCHANGED <<server, storage, writing, acked, pull, clone, cursors, past, bounds>>

\* The writes of a batch that are not in S, in their order.
Without(b, S) ==
  LET first[i \in 0 .. Len(b)] ==   \* of the first i
        IF i = 0 THEN <<>>
        ELSE IF b[i] \in S THEN first[i - 1] ELSE Append(first[i - 1], b[i])
  IN first[Len(b)]

\* Mutant: writes that were executed before are executed again.
FreshAgain(b, R) == Without(b, R)

\* The writes of a batch the server executes: not the ones it has a verdict on.
Fresh(b, R) == Without(b, R \cup rejected \cup Ids(Top))

Logged(b) == [i \in DOMAIN b |-> [table |-> tableOf[b[i]], id |-> b[i], gone |-> FALSE]]

\* Mutant: a reply that refuses some is taken for a success.
ThroughAll(b, good) == Len(b)

\* Mutant: the entry behind the batch is acknowledged with it.
ThroughBehind(b, good) == Len(b) + 1

\* computeAckThroughSeq: the entries before the first one to be tried again.
Through(b, good) ==
  Cardinality({i \in DOMAIN b : \A j \in 1 .. i : b[j] \in good})

\* The number of the last change of a table among the executed.
LastIn(new, last, t) ==
  Max({last - Len(new) + i : i \in {j \in DOMAIN new : tableOf[new[j]] = t}})

\* The answer's cursors: one for each table among the executed.
PushCursors(new, last) ==
  {<<t, LastIn(new, last, t)>> : t \in {tableOf[new[i]] : i \in DOMAIN new}}

\* executePush: T is refused for good, R for now.
PushServe ==
  /\ push.pc = "sent"
  /\ \E T, R \in SUBSET (Range(push.batch) \ (rejected \cup Ids(Top))) :
       LET b   == push.batch
           new == Fresh(b, T \cup R)
           good == Range(b) \ R
       IN /\ T \cap R = {}
          /\ IF T \cup R = {} THEN UNCHANGED faults ELSE Fault
          /\ rejected' = rejected \cup T
          /\ log' = log \o Logged(new)
          /\ push' = [pc |-> "replied", batch |-> b,
                      answered |-> R = {} \/ Range(b) \cap rejected' # {},
                      through |-> Through(b, good),
                      cursors |-> PushCursors(new, Top + Len(new))]
  /\ UNCHANGED <<storage, writing, acked, pull, clone, cursors, past, crashes, clones>>

\* The request or its answer is lost, or asks for a retry of everything: the
\* next attempt sends the same batch.
PushRetry ==
  /\ \/ push.pc = "replied" /\ ~push.answered /\ UNCHANGED faults
     \/ push.pc = "replied" /\ push.answered /\ Fault
  /\ push' = [pc |-> "sent", batch |-> push.batch]
  /\ UNCHANGED <<server, storage, writing, acked, pull, clone, cursors, past, crashes,
                 clones>>

\* The attempts are used up, or nothing can be acknowledged.
PushGiveUp ==
  /\ \/ push.pc \in {"sent", "replied"} /\ Fault
     \/ /\ push.pc = "replied" /\ ~(push.answered /\ push.through > 0)
        /\ UNCHANGED faults
  /\ push' = Idle
  /\ UNCHANGED <<server, storage, writing, acked, pull, clone, cursors, past, crashes,
                 clones>>

\* changelogAck, then the answer's cursors are stored (FIX-B).
PushAck ==
  /\ push.pc = "replied" /\ push.answered /\ push.through > 0
  /\ acked' = acked + push.through
  /\ push' = [pc |-> "cursors"]
  /\ Store("push", push.cursors)
  /\ UNCHANGED <<server, storage, writing, pull, clone, past, bounds>>

PushEnd ==
  /\ push.pc = "cursors" /\ Stored("push")
  /\ push' = Idle
  /\ UNCHANGED <<server, storage, writing, acked, pull, clone, cursors, past, bounds>>

----------------------------------------------------------------------------
(* Pull. *)

\* buildPullCursors.
PullBegins == pull' = [pc |-> "sent", asked |-> [t \in Table |-> cursor[t]]]

\* pullNow, called from outside.
PullStart ==
  /\ pull.pc = "idle"
  /\ PullBegins
  /\ UNCHANGED <<server, storage, writing, acked, push, clone, cursors, past, bounds>>

PullServe ==
  /\ pull.pc = "sent"
  /\ pull' = [pc |-> "replied", asked |-> pull.asked, upto |-> Top]
  /\ UNCHANGED <<server, storage, writing, acked, push, clone, cursors, past, bounds>>

PullFail ==
  /\ pull.pc = "sent"
  /\ Fault
  /\ pull' = Idle
  /\ UNCHANGED <<server, storage, writing, acked, push, clone, cursors, past, crashes,
                 clones>>

\* The cursor the answer gives to a table.
Answered(t) == Max({pull.asked[t], Latest(t, pull.upto)})

\* assertCursorNonRegressing.
NoRegression == \A t \in Table : cursor[t] <= Answered(t)

PullCheck ==
  /\ pull.pc = "replied"
  /\ pull' = IF NoRegression THEN [pull EXCEPT !.pc = "checked"] ELSE Idle
  /\ UNCHANGED <<server, storage, writing, acked, push, clone, cursors, past, bounds>>

\* The tables the answer has changes of.
Brought == {t \in Table : Latest(t, pull.upto) > pull.asked[t]}

\* The records of the answer, then the jobs of its cursors.
PullApply ==
  /\ pull.pc = "checked"
  /\ local' = [t \in Table |-> IF t \in Brought THEN RowAt(t, pull.upto) ELSE local[t]]
  /\ muddled' = muddled \cup UNION {Muddle(t, Ids(pull.upto)) : t \in Brought}
  /\ seen' = seen \cup UNION {{s \in Changes(t, pull.upto) : s > pull.asked[t]} : t \in Table}
  /\ pull' = [pc |-> "cursors"]
  /\ Store("pull", {<<t, Answered(t)>> : t \in Table})
  /\ UNCHANGED <<server, cursor, hydration, writing, acked, push, clone, done, torn,
                 lost, bounds>>

PullEnd ==
  /\ pull.pc = "cursors" /\ Stored("pull")
  /\ pull' = Idle
  /\ UNCHANGED <<server, storage, writing, acked, push, clone, cursors, past, bounds>>

----------------------------------------------------------------------------
(* Clone. *)

\* cloneResources marks the tables, then asks.
CloneStart ==
  /\ clone.pc = "idle" /\ clones < MaxClones + crashes
  /\ clones' = clones + 1
  /\ hydration' = [t \in Table |-> "hydrating"]
  /\ clone' = [pc |-> "under way", rows |-> [t \in Table |-> None],
               cursors |-> [t \in Table |-> None], done |-> {}]
  /\ UNCHANGED <<server, local, cursor, writing, acked, push, pull, cursors, past,
                 faults, crashes>>

\* executeClone: the rows of a table are read ...
CloneRows(t) ==
  /\ clone.pc = "under way" /\ clone.rows[t] = None
  /\ \A u \in Table : clone.rows[u] # None => clone.cursors[u] # None
  /\ clone' = [clone EXCEPT !.rows[t] = [row |-> RowAt(t, Top), at |-> Top]]
  /\ UNCHANGED <<server, storage, writing, acked, push, pull, cursors, past, bounds>>

\* ... and then its cursor.
CloneCursor(t) ==
  /\ clone.pc = "under way" /\ clone.rows[t] # None /\ clone.cursors[t] = None
  /\ clone' = [clone EXCEPT !.cursors[t] = Latest(t, Top)]
  /\ torn' = IF Latest(t, Top) > clone.rows[t].at THEN torn \cup {t} ELSE torn
  /\ UNCHANGED <<server, storage, writing, acked, push, pull, cursors, seen, done,
                 muddled, lost, bounds>>

\* Mutant: the table whose rows could not be read keeps its cursor.
FailedCursorLatest(t) == Latest(t, Top)

\* The cursor of a table whose rows could not be read.
FailedCursor(t) == 0

\* A read fails: the answer has no rows of the table.
CloneReadFails(t) ==
  /\ clone.pc = "under way" /\ clone.cursors[t] = None
  /\ Fault
  /\ clone' = [clone EXCEPT !.rows[t] = [row |-> 0, at |-> 0],
                            !.cursors[t] = FailedCursor(t)]
  /\ UNCHANGED <<server, storage, writing, acked, push, pull, cursors, past, crashes,
                 clones>>

CloneAnswered == \A t \in Table : clone.cursors[t] # None

\* The request fails; the tables stay "hydrating".
CloneFail ==
  /\ clone.pc = "under way" /\ clone.done = {}
  /\ Fault
  /\ clone' = Idle
  /\ UNCHANGED <<server, storage, writing, acked, push, pull, cursors, past, crashes,
                 clones>>

\* Mutant: a record that is there already is not replaced.
CloneUpsertKeeps(t) ==
  /\ clone.pc = "under way" /\ CloneAnswered /\ t \notin clone.done
  /\ \A u \in clone.done : hydration[u] = "ready"
  /\ local' = [local EXCEPT ![t] = IF @ = 0 THEN clone.rows[t].row ELSE @]
  /\ seen' = seen \cup Changes(t, clone.rows[t].at)
  /\ clone' = [clone EXCEPT !.done = @ \cup {t}]
  /\ hydration' = [hydration EXCEPT ![t] = "hydrating"]
  /\ UNCHANGED <<server, cursor, writing, acked, push, pull, cursors, done,
                 torn, muddled, lost, bounds>>

\* applyCloneResult: the rows of a table are upserted, no row is removed ...
CloneUpsert(t) ==
  /\ clone.pc = "under way" /\ CloneAnswered /\ t \notin clone.done
  /\ \A u \in clone.done : hydration[u] = "ready"
  /\ LET snap == clone.rows[t]
     IN /\ local' = IF snap.row = 0 THEN local ELSE [local EXCEPT ![t] = snap.row]
        /\ muddled' = IF snap.row = 0 THEN muddled ELSE Muddle(t, Ids(snap.at))
        /\ seen' = seen \cup Changes(t, snap.at)
  /\ clone' = [clone EXCEPT !.done = @ \cup {t}]
  /\ hydration' = [hydration EXCEPT ![t] = "hydrating"]
  /\ UNCHANGED <<server, cursor, writing, acked, push, pull, cursors, done,
                 torn, lost, bounds>>

\* ... then its cursor is stored as it is, and the table is ready.
CloneReady(t) ==
  /\ clone.pc = "under way" /\ t \in clone.done /\ hydration[t] = "hydrating"
  /\ cursor' = [cursor EXCEPT ![t] = clone.cursors[t]]
  /\ hydration' = [hydration EXCEPT ![t] = "ready"]
  /\ UNCHANGED <<server, local, writing, acked, push, pull, clone, cursors, past, bounds>>

CloneEnd ==
  /\ clone.pc = "under way" /\ clone.done = Table
  /\ \A t \in Table : hydration[t] = "ready"
  /\ clone' = Idle
  /\ UNCHANGED <<server, storage, writing, acked, push, pull, cursors, past, bounds>>

----------------------------------------------------------------------------
\* The page is closed: what was stored stays, what was under way is gone, and
\* an entry that was appended and not applied is never applied.
Crash ==
  /\ crashes < MaxCrashes
  /\ crashes' = crashes + 1
  /\ push' = Idle /\ pull' = Idle /\ clone' = Idle /\ direct' = None
  /\ jobs' = [a \in Actor |-> {}] /\ held' = [a \in Actor |-> None]
  /\ applied' = Len(chlog)
  /\ lost' = lost \cup {tableOf[chlog[i]] : i \in applied + 1 .. Len(chlog)}
  /\ UNCHANGED <<server, storage, chlog, tableOf, acked, seen, done, torn, muddled, faults,
                 clones>>

Next ==
  \/ \E t \in Theirs : \E gone \in BOOLEAN : Foreign(t, gone)
  \/ \E t \in Mine : Mutate(t) \/ Direct(t)
  \/ \E t \in Table :
       \/ CloneRows(t) \/ CloneCursor(t) \/ CloneReadFails(t)
       \/ CloneUpsert(t) \/ CloneReady(t)
  \/ Apply \/ DirectServe \/ DirectDone \/ DirectRefused \/ DirectLost
  \/ \E a \in Actor : CursorRead(a) \/ CursorWrite(a)
  \/ PushStart \/ PushServe \/ PushRetry \/ PushGiveUp \/ PushAck \/ PushEnd
  \/ PullStart \/ PullServe \/ PullFail \/ PullCheck \/ PullApply \/ PullEnd
  \/ CloneStart \/ CloneFail \/ CloneEnd
  \/ Crash

Spec == Init /\ [][Next]_vars

----------------------------------------------------------------------------
Writes(t)  == {n \in 1 .. Len(tableOf) : tableOf[n] = t}
Foreigns(t) == {s \in 1 .. Top : log[s].table = t /\ log[s].id \notin Own}
OwnIn(t)   == {s \in 1 .. Top : log[s].table = t /\ log[s].id \in Own}

\* No cursor passes a change of another client that has not reached the store,
\* whatever pushes, pulls and clones overlap and wherever the page is closed.
\* The code has two exceptions, and no other: the cursor of a push answer is
\* the number of an own change and passes what others did before it
\* (engine.ts:1751), and a clone that reads a cursor later than the rows is set
\* apart as torn (clone.ts:283).
NothingSkipped ==
  \A t \in Table \ torn : \A s \in Foreigns(t) :
    s <= cursor[t] => s \in seen \/ \E o \in OwnIn(t) : s < o /\ o <= cursor[t]

\* Push, pull and clone are at rest and all that was written is pushed.
AtRest ==
  /\ push.pc = "idle" /\ pull.pc = "idle" /\ clone.pc = "idle"
  /\ acked = Len(chlog) /\ applied = Len(chlog) /\ direct = None

CaughtUp(t) == hydration[t] = "ready" /\ cursor[t] >= Latest(t, Top)

\* The client's own writes of a table are logged in the order they were made.
InOrder(t) ==
  \A i, j \in OwnIn(t) : i < j => log[i].id < log[j].id

\* Once all is pushed and the cursor is at the end, the client has the
\* server's row: whatever answer was lost, whenever the page was closed during
\* a push, a pull or a clone (a table that is not ready is cloned again).
\* Apart from the ways the code has to come apart, each of which is named:
\* a torn clone, an older value stored over a newer one, an entry that was
\* appended and never applied, a write refused, and writes logged out of order.
\* (A row the server has deleted may also stay, as a clone removes none.  What
\* the push answer's cursor went past does not show here: it is older than the
\* own change that replaced it, as the fields of a record are not told apart.)
CaughtUpIsCurrent ==
  AtRest =>
    \A t \in Table \ (torn \cup muddled \cup lost) :
      /\ CaughtUp(t) /\ RowAt(t, Top) # 0
      /\ InOrder(t) /\ Writes(t) \cap rejected = {}
      => local[t] = RowAt(t, Top)

\* An own write is logged at most once, on whichever ways it went to the
\* server: the remote mutation whose answer was lost, and every push attempt.
LoggedOnce ==
  \A i, j \in 1 .. Top : log[i].id = log[j].id => i = j

\* An entry leaves the change log only when the server has logged or rejected
\* it: no crash and no refusal of a part of the batch loses it.
AckedIsSettled ==
  \A i \in 1 .. acked : chlog[i] \in Ids(Top) \cup rejected

=============================================================================
