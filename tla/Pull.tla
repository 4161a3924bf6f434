-------------------------------- MODULE Pull --------------------------------
(***************************************************************************)
(* The incremental pull: executePullCanonical of                           *)
(* datafn/server/src/execution/sync/pull.ts on the server, pullNow and     *)
(* pullWithPerTableCursors of datafn/client/src/sync/engine.ts and         *)
(* applyPullResultCanonical of datafn/client/src/sync/apply.ts on the      *)
(* client.                                                                 *)
(*                                                                         *)
(* Push requests (module PushServer) are writers that commit one change at *)
(* a time under a number of their reservation; each entry of the change    *)
(* log is marked with its number, so a field holds the number of the       *)
(* change that wrote it.  The client pulls and writes nothing itself.      *)
(***************************************************************************)
EXTENDS Naturals, FiniteSets, FiniteSetsExt

CONSTANTS
  Resource,
  Key,            \* records
  resourceOf,     \* [Key -> Resource]
  Field,          \* fields of a record
  Ops,            \* the operations writers use
  Reuse,          \* TRUE: a deleted record may be created again
  Writer,         \* push requests
  Reservation,    \* how many numbers a push request may reserve at first
  Limit,          \* pullBatchSize
  MaxIterations,  \* maxPullIterations
  MaxSeq,         \* bound: sequence numbers
  MaxUpsets,      \* bound: failed requests and restarts
  None            \* no record, nothing fetched

ASSUME PullAssumption ==
  /\ resourceOf \in [Key -> Resource]
  /\ Ops \subseteq {"insert", "merge", "replace", "delete"}
  /\ Reuse \in BOOLEAN
  /\ Reservation \subseteq Nat \ {0}
  /\ Limit \in Nat \ {0} /\ MaxIterations \in Nat \ {0}
  /\ MaxSeq \in Nat
  /\ MaxUpsets \in Nat
  /\ None \notin [Field -> Nat]

VARIABLES
  \* the server
  rows,           \* the user tables
  changes,        \* __datafn_changes, a set: each entry has its number
  nextSeq,
  stock,          \* the numbers each writer has reserved and not used
  \* the client's storage
  local, cursor, globalCursor,
  \* the pull in flight
  pc,
  asked,          \* iterationCursors
  fetched,        \* what getChangesSince returned, per resource
  reply,          \* limitedChanges
  more,           \* hasMore
  iterations,
  advanced,       \* resources whose cursor this iteration has set
  failures, crashes,
  \* history
  delivered       \* numbers of the changes the client has applied

server   == <<rows, changes, nextSeq, stock>>
storage  == <<local, cursor, globalCursor>>
request  == <<asked, fetched, iterations>>
response == <<reply, more, advanced>>
bounds   == <<failures, crashes>>
vars == <<server, storage, pc, request, response, bounds, delivered>>

Row   == [Field -> Nat] \cup {None}
Entry == [seq : Nat \ {0}, key : Key, op : Ops, fields : SUBSET Field, after : Row]
Phase == {"idle", "fetch", "records", "merged", "deleted", "cursors"}

TypeOK ==
  /\ rows \in [Key -> Row]
  /\ changes \subseteq Entry
  /\ nextSeq \in 1 .. MaxSeq + 1
  /\ stock \in [Writer -> SUBSET (1 .. MaxSeq)]
  /\ local \in [Key -> Row]
  /\ cursor \in [Resource -> Nat]
  /\ globalCursor \in Nat
  /\ pc \in Phase
  /\ asked \in [Resource -> Nat]
  /\ \A r \in Resource : fetched[r] = None \/ fetched[r] \subseteq changes
  /\ reply \subseteq changes /\ Cardinality(reply) <= Limit
  /\ more \in BOOLEAN
  /\ iterations \in 0 .. MaxIterations
  /\ advanced \subseteq Resource
  /\ failures \in Nat /\ crashes \in Nat
  /\ failures + crashes <= MaxUpsets
  /\ delivered \subseteq 1 .. MaxSeq

Init ==
  /\ rows = [k \in Key |-> None]
  /\ changes = {}
  /\ nextSeq = 1
  /\ stock = [w \in Writer |-> {}]
  /\ local = [k \in Key |-> None]
  /\ cursor = [r \in Resource |-> 0]
  /\ globalCursor = 0
  /\ pc = "idle"
  /\ asked = [r \in Resource |-> 0]
  /\ fetched = [r \in Resource |-> None]
  /\ reply = {}
  /\ more = FALSE
  /\ iterations = 0
  /\ advanced = {}
  /\ failures = 0 /\ crashes = 0
  /\ delivered = {}

----------------------------------------------------------------------------
(* Push requests. *)

\* A row in which the given fields were written by change s.
Written(row, F, s) ==
  [f \in Field |-> IF f \in F THEN s ELSE IF row = None THEN 0 ELSE row[f]]

After(row, op, F, s) == IF op = "delete" THEN None ELSE Written(row, F, s)

\* executeMutationOp accepts the operation and changes something.
Accepted(k, op) ==
  /\ rows[k] = None => op # "delete" /\ (Reuse \/ \A e \in changes : e.key # k)
  /\ rows[k] # None => op # "insert"

\* One mutation of a request commits: the first one reserves the numbers of
\* the request, the later ones use what is left of them.
Commit(w) ==
  \E op \in Ops, k \in Key, F \in (SUBSET Field) \ {{}},
     n \in IF stock[w] = {} THEN Reservation ELSE {0} :
    LET numbers == stock[w] \cup nextSeq .. nextSeq + n - 1
        s       == Min(numbers)
    IN /\ nextSeq + n - 1 <= MaxSeq
       /\ Accepted(k, op)
       /\ op = "delete" => F = Field
       /\ rows' = [rows EXCEPT ![k] = After(@, op, F, s)]
       /\ changes' = changes \cup
            {[seq |-> s, key |-> k, op |-> op, fields |-> F, after |-> rows'[k]]}
       /\ nextSeq' = nextSeq + n
       /\ stock' = [stock EXCEPT ![w] = numbers \ {s}]
       /\ UNCHANGED <<storage, pc, request, response, bounds, delivered>>

----------------------------------------------------------------------------
(* The client starts a pull. *)

Nothing == [r \in Resource |-> None]

\* The locals of a pull that is over.
Forget ==
  /\ asked' = [r \in Resource |-> 0]
  /\ fetched' = Nothing
  /\ reply' = {} /\ more' = FALSE /\ iterations' = 0 /\ advanced' = {}

\* pullNow (focus, visibility, online, start, the socket) with the cursors as
\* they are stored now, buildPullCursors.
PullNow ==
  /\ pc = "idle"
  /\ pc' = "fetch"
  /\ asked' = cursor
  /\ fetched' = Nothing
  /\ reply' = {} /\ more' = FALSE /\ iterations' = 1 /\ advanced' = {}
  /\ UNCHANGED <<server, storage, bounds, delivered>>

Upset == failures + crashes < MaxUpsets

\* pullNow ends.
EndPull == pc' = "idle" /\ Forget

----------------------------------------------------------------------------
(* The server answers. *)

\* The n entries of S with the lowest numbers.
Lowest(S, n) == {e \in S : Cardinality({d \in S : d.seq < e.seq}) < n}

\* getChangesSince reads each resource on its own.
Fetch(r) ==
  /\ pc = "fetch"
  /\ fetched[r] = None
  /\ fetched' = [fetched EXCEPT ![r] =
       Lowest({e \in changes : resourceOf[e.key] = r /\ e.seq > asked[r]}, Limit + 1)]
  /\ UNCHANGED <<server, storage, pc, asked, iterations, response, bounds, delivered>>

Found == UNION {fetched[r] : r \in Resource}

\* Mutant: one entry too many.
LimitedOneMore(S) == Lowest(S, Limit + 1)

\* mergeCanonicalChangeStreamsBounded.
Limited(S) == Lowest(S, Limit)

\* The answer arrives.
Answer ==
  /\ pc = "fetch"
  /\ \A r \in Resource : fetched[r] # None
  /\ reply' = Limited(Found)
  /\ more' = (reply' # Found)
  /\ fetched' = Nothing
  /\ pc' = "records"
  /\ UNCHANGED <<server, storage, asked, iterations, advanced, bounds, delivered>>

----------------------------------------------------------------------------
(* applyPullResultCanonical. *)

Of(k, ops) == {e \in reply : e.key = k /\ e.op \in ops}
Newest(S)  == CHOOSE e \in S : \A d \in S : d.seq <= e.seq

\* records: the newest full record of each id replaces the local one.
ApplyRecords ==
  /\ pc = "records"
  /\ local' = [k \in Key |->
       LET full == Of(k, {"insert", "replace"})
       IN IF full = {} THEN local[k] ELSE Newest(full).after]
  /\ pc' = "merged"
  /\ UNCHANGED <<server, cursor, globalCursor, request, response, bounds, delivered>>

\* Mutant: a delta is stored as if it were the whole record.
ApplyMergedReplace ==
  /\ pc = "merged"
  /\ local' = [k \in Key |->
       LET writing(f) == {e \in Of(k, {"merge"}) : f \in e.fields}
       IN IF Of(k, {"merge"}) = {} THEN local[k]
          ELSE [f \in Field |-> IF writing(f) = {} THEN 0 ELSE Newest(writing(f)).seq]]
  /\ pc' = "deleted"
  /\ UNCHANGED <<server, cursor, globalCursor, request, response, bounds, delivered>>

\* merged: the deltas of each id, combined, are merged into the local record.
ApplyMerged ==
  /\ pc = "merged"
  /\ local' = [k \in Key |->
       LET deltas == Of(k, {"merge"})
           writing(f) == {e \in deltas : f \in e.fields}
       IN IF deltas = {} THEN local[k]
          ELSE [f \in Field |->
                  IF writing(f) # {} THEN Newest(writing(f)).seq
                  ELSE IF local[k] = None THEN 0 ELSE local[k][f]]]
  /\ pc' = "deleted"
  /\ UNCHANGED <<server, cursor, globalCursor, request, response, bounds, delivered>>

\* Mutant: an id that was also upserted is not deleted.
ApplyDeletedSome ==
  /\ pc = "deleted"
  /\ local' = [k \in Key |-> IF Of(k, {"delete"}) = {} \/ Of(k, {"insert"}) # {}
                             THEN local[k] ELSE None]
  /\ delivered' = delivered \cup {e.seq : e \in reply}
  /\ pc' = "cursors"
  /\ UNCHANGED <<server, cursor, globalCursor, request, response, bounds>>

\* deleted: the ids are deleted.
ApplyDeleted ==
  /\ pc = "deleted"
  /\ local' = [k \in Key |-> IF Of(k, {"delete"}) = {} THEN local[k] ELSE None]
  /\ delivered' = delivered \cup {e.seq : e \in reply}
  /\ pc' = "cursors"
  /\ UNCHANGED <<server, cursor, globalCursor, request, response, bounds>>

\* Mutant: all resources move to the last change of the window.
AnsweredGlobally(r) == IF reply = {} THEN asked[r] ELSE Newest(reply).seq

\* The answer's cursor of a resource: its last change in the window.
Answered(r) ==
  LET mine == {e \in reply : resourceOf[e.key] = r}
  IN IF mine = {} THEN asked[r] ELSE Newest(mine).seq

\* setCursorMonotonically, one resource at a time.
AdvanceCursor(r) ==
  /\ pc = "cursors"
  /\ r \notin advanced
  /\ cursor' = [cursor EXCEPT ![r] = IF @ < Answered(r) THEN Answered(r) ELSE @]
  /\ advanced' = advanced \cup {r}
  /\ UNCHANGED <<server, local, globalCursor, pc, request, reply, more, bounds, delivered>>

\* The global cursor follows; then the loop goes on while the server has more.
Finish ==
  /\ pc = "cursors"
  /\ advanced = Resource
  /\ globalCursor' = Max({globalCursor} \cup {Answered(r) : r \in Resource})
  /\ \/ /\ more /\ iterations < MaxIterations
        /\ asked' = [r \in Resource |-> Answered(r)]
        /\ iterations' = iterations + 1
        /\ reply' = {} /\ more' = FALSE /\ advanced' = {}
        /\ pc' = "fetch"
        /\ UNCHANGED fetched
     \/ /\ ~more \/ iterations = MaxIterations
        /\ EndPull
  /\ UNCHANGED <<server, local, cursor, bounds, delivered>>

\* The request fails: no network, or the server rejects it.
Fail ==
  /\ pc = "fetch" /\ Upset
  /\ failures' = failures + 1
  /\ EndPull
  /\ UNCHANGED <<server, storage, crashes, delivered>>

\* The client is closed and opened again; what it stored stays.
Crash ==
  /\ pc # "idle" /\ Upset
  /\ crashes' = crashes + 1
  /\ pc' = "idle"
  /\ Forget
  /\ UNCHANGED <<server, storage, failures, delivered>>

Step ==
  \/ \E r \in Resource : Fetch(r) \/ AdvanceCursor(r)
  \/ Answer \/ ApplyRecords \/ ApplyMerged \/ ApplyDeleted \/ Finish

Next ==
  \/ \E w \in Writer : Commit(w)
  \/ PullNow \/ Step \/ Fail \/ Crash

Spec == Init /\ [][Next]_vars

----------------------------------------------------------------------------
\* No change is skipped: a cursor never covers a change the client has not
\* applied (asked, the limit, the loop, and a crash between any two writes).
NothingSkipped ==
  \A e \in changes : e.seq <= cursor[resourceOf[e.key]] => e.seq \in delivered

\* What the changes up to cursor c made of a record.
Replayed(k, c) ==
  LET past == {e \in changes : e.key = k /\ e.seq <= c}
  IN IF past = {} THEN None ELSE Newest(past).after

\* After an apply the local store is the server's at the returned cursor,
\* although changes are applied by kind and not by number.
ConsistentAtCursor ==
  pc \in {"idle", "fetch"} /\ crashes = 0 =>
    \A k \in Key : local[k] = Replayed(k, cursor[resourceOf[k]])

\* A client whose cursors are at the end of the log holds the server's rows,
\* also if some apply was interrupted half-way on the way there.
CaughtUpIsEqual ==
  /\ pc \in {"idle", "fetch"}
  /\ \A e \in changes : e.seq <= cursor[resourceOf[e.key]]
  => local = rows

=============================================================================
