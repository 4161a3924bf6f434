---------------------------- MODULE PushServer ----------------------------
(***************************************************************************)
(* POST /datafn/push on the server: executePush of                         *)
(* datafn/server/src/execution/sync/push.ts with the database-backed       *)
(* idempotency store (idempotency-db.ts), the database sequence of         *)
(* change-tracking.ts and the change log __datafn_changes.                 *)
(*                                                                         *)
(* Requests run concurrently; each is a process that gives way at every    *)
(* await of the code.  A mutation stands for its (clientId, mutationId)    *)
(* pair, so the same mutation may travel in several requests: that is what *)
(* a retry is.  A row is identified with the mutation that wrote it last.  *)
(*                                                                         *)
(* A database transaction takes effect at one point, its commit, with the  *)
(* reservation of sequence numbers that it makes (the meta row is locked   *)
(* from the compare-and-swap to the commit).                               *)
(***************************************************************************)
EXTENDS Naturals, Sequences, FiniteSets

CONSTANTS
  Request,        \* push requests
  Mutation,       \* mutations, each the payload of one changelog entry
  Key,            \* rows: a resource and an id
  Resource,
  resourceOf,     \* [Key -> Resource]
  operation,      \* [Mutation -> Operation]
  key,            \* [Mutation -> Key]
  Propagated,     \* [Mutation -> Key \cup {None}]: a second row that relation
                  \* policies or inactive propagation rewrite, if it exists
  Creating,       \* merges complete enough to create their record
  Invalid,        \* mutations the operation rejects as DFQL_INVALID
  Forbidden,      \* mutations validateShareableOperationAccess rejects
  Batches,        \* the mutation lists requests may carry
  MaxFaults,      \* bound: database failures
  MaxCrashes,     \* bound: crashes of the server process
  None            \* no row

Operation == {"insert", "merge", "replace", "delete"}

ASSUME InputAssumption ==
  /\ resourceOf \in [Key -> Resource]
  /\ operation \in [Mutation -> Operation]
  /\ key \in [Mutation -> Key]
  /\ Propagated \in [Mutation -> Key \cup {None}]
  /\ Batches \subseteq Seq(Mutation)
  /\ MaxFaults \in Nat /\ MaxCrashes \in Nat
  /\ None \notin Mutation /\ None \notin Key

VARIABLES
  \* the database
  rows,           \* the user tables
  changes,        \* __datafn_changes, in the order of the commits
  nextSeq,        \* __datafn_meta.next_server_seq
  idempotency,    \* __datafn_idempotency: the stored verdict of a mutation
  \* the locals of executePush, per request
  pc, batch, index,
  pool,           \* sequenceAllocation.pool
  allocated,      \* sequenceAllocation.initialBatchAllocated
  pending,        \* changes of the current mutation still to be recorded
  verdict,        \* what recordMutationSuccess/Failure is given
  existing,       \* what idempotencyStore.set read
  applied, errors, seen,
  cursorBefore, latestSeq, resourceSeqs,
  \* the environment
  atomic,         \* the adapter supports asynchronous transactions
  faults, crashes,
  executed        \* history: mutations whose operation returned ok

database == <<rows, changes, nextSeq>>
sequence == <<pool, allocated>>
answer   == <<applied, errors, seen>>
cursors  == <<latestSeq, resourceSeqs>>
bounds   == <<atomic, faults, crashes>>
vars == <<database, idempotency, pc, batch, index, sequence, pending, verdict,
          existing, answer, cursorBefore, cursors, bounds, executed>>

Phase == {"idle", "next", "execute", "take", "record", "setRead", "setWrite",
          "done", "dead"}

\* Results of a mutation.  "retry" is every code a client is told to retry
\* (INTERNAL, MUTATION_FAILED, NOT_FOUND, insert CONFLICT on id).
Verdict == {"ok", "invalid", "forbidden", "retry"}

\* isRetryableMutationResult: FORBIDDEN is reported as final to the client but
\* does not stop a later execution.
isRetryableMutationResult(v) == v \in {"retry", "forbidden"}

Entry == [seq : Nat, key : Key, op : Operation, by : Mutation, req : Request]

TypeOK ==
  /\ rows \in [Key -> Mutation \cup {None}]
  /\ changes \in Seq(Entry)
  /\ nextSeq \in Nat
  /\ idempotency \in [Mutation -> Verdict \cup {"none"}]
  /\ pc \in [Request -> Phase]
  /\ batch \in [Request -> Seq(Mutation)]
  /\ index \in [Request -> Nat]
  /\ pool \in [Request -> Seq(Nat)]
  /\ allocated \in [Request -> BOOLEAN]
  /\ pending \in [Request -> Seq(Key)]
  /\ verdict \in [Request -> Verdict]
  /\ existing \in [Request -> Verdict \cup {"none"}]
  /\ applied \in [Request -> SUBSET Mutation]
  /\ errors \in [Request -> SUBSET (Mutation \X (Verdict \ {"ok"}))]
  /\ seen \in [Request -> SUBSET Mutation]
  /\ cursorBefore \in [Request -> Nat]
  /\ latestSeq \in [Request -> Nat]
  /\ resourceSeqs \in [Request -> [Resource -> Nat]]
  /\ atomic \in BOOLEAN
  /\ faults \in 0 .. MaxFaults
  /\ crashes \in 0 .. MaxCrashes
  /\ executed \subseteq Mutation

----------------------------------------------------------------------------
Init ==
  /\ rows = [k \in Key |-> None]
  /\ changes = <<>>
  /\ nextSeq = 1
  /\ idempotency = [m \in Mutation |-> "none"]
  /\ pc = [r \in Request |-> "idle"]
  /\ batch = [r \in Request |-> <<>>]
  /\ index = [r \in Request |-> 1]
  /\ pool = [r \in Request |-> <<>>]
  /\ allocated = [r \in Request |-> FALSE]
  /\ pending = [r \in Request |-> <<>>]
  /\ verdict = [r \in Request |-> "ok"]
  /\ existing = [r \in Request |-> "none"]
  /\ applied = [r \in Request |-> {}]
  /\ errors = [r \in Request |-> {}]
  /\ seen = [r \in Request |-> {}]
  /\ cursorBefore = [r \in Request |-> 0]
  /\ latestSeq = [r \in Request |-> 0]
  /\ resourceSeqs = [r \in Request |-> [x \in Resource |-> 0]]
  /\ atomic \in BOOLEAN
  /\ faults = 0
  /\ crashes = 0
  /\ executed = {}

\* Mutant: the next number instead of the last one.
nextServerSeq == nextSeq

getCurrentServerSeq == nextSeq - 1

AtMutation(r) == index[r] <= Len(batch[r])
Current(r)    == batch[r][index[r]]

(* The operation of a mutation, executeMutationOp. *)

Missing(m) == rows[key[m]] = None

\* providedFieldsMatchExisting: the row holds what this insert provides.
MatchesExisting(m) == rows[key[m]] = m

OpResult(m) ==
  CASE m \in Invalid -> "invalid"
    [] m \notin Invalid /\ operation[m] = "insert" /\ ~Missing(m) /\ ~MatchesExisting(m)
         -> "retry"
    [] m \notin Invalid /\ operation[m] = "merge" /\ Missing(m) /\ m \notin Creating
         -> "retry"
    [] OTHER -> "ok"

\* An insert that finds its own record, a delete that finds none.
NoEffect(m) == \/ operation[m] = "insert" /\ MatchesExisting(m)
               \/ operation[m] = "delete" /\ Missing(m)

\* The row that relation policies and inactive propagation rewrite as well.
PropagatedKey(m) ==
  {k \in {Propagated[m]} : k \in Key /\ k # key[m] /\ rows[k] # None}

\* Mutant: the propagated row is rewritten but not logged.
ChangedKeysOwn(m) == IF NoEffect(m) THEN <<>> ELSE <<key[m]>>

ChangedKeys(m) ==
  IF NoEffect(m) THEN <<>>
  ELSE IF PropagatedKey(m) = {} THEN <<key[m]>> ELSE <<key[m], Propagated[m]>>

RowsAfter(m) ==
  IF NoEffect(m) THEN rows
  ELSE [k \in Key |->
          IF k = key[m] THEN IF operation[m] = "delete" THEN None ELSE m
          ELSE IF k \in PropagatedKey(m) THEN m ELSE rows[k]]

\* Mutant: a propagated change is logged without an operation.
ChangeOfNoOp(r, m, k, s) ==
  [seq |-> s, key |-> k, op |-> IF k = key[m] THEN operation[m] ELSE "",
   by |-> m, req |-> r]

ChangeOf(r, m, k, s) ==
  [seq |-> s, key |-> k, op |-> IF k = key[m] THEN operation[m] ELSE "merge",
   by |-> m, req |-> r]

(* Sequence numbers, takeNextServerSeq: the first reservation of a request is
   a batch as long as the request, the later ones are made one at a time. *)

\* Mutants: the numbers are handed out from the end; a later reservation
\* begins with the last number that was issued.
ReservedBackwards(r, n) == [i \in 1 .. n |-> nextSeq + n - i]
ReservedAgain(r, n)     == [i \in 1 .. n |-> nextSeq + i - IF allocated[r] THEN 2 ELSE 1]

Reserved(r, n) == [i \in 1 .. n |-> nextSeq + i - 1]

BatchLength(r) == IF Len(batch[r]) = 0 THEN 1 ELSE Len(batch[r])

\* How many numbers are reserved before n can be taken from the pool.
Fresh(r, n) ==
  IF n <= Len(pool[r]) THEN 0
  ELSE IF ~allocated[r] /\ n <= BatchLength(r) THEN BatchLength(r)
  ELSE n - Len(pool[r])

Stock(r, n) == pool[r] \o Reserved(r, Fresh(r, n))

\* Mutant: the first number of a resource is kept.
BumpFirst(seqs, k, s) == [seqs EXCEPT ![resourceOf[k]] = IF @ = 0 THEN s ELSE @]

\* Per resource and overall maxima of the numbers this request used.
Bump(seqs, k, s) == [seqs EXCEPT ![resourceOf[k]] = IF @ < s THEN s ELSE @]
Later(a, b)      == IF a < b THEN b ELSE a

----------------------------------------------------------------------------
(* One request. *)

\* executePush starts: the sequence is read before anything else.
Begin(r) ==
  /\ pc[r] = "idle"
  /\ \E b \in Batches : batch' = [batch EXCEPT ![r] = b]
  /\ cursorBefore' = [cursorBefore EXCEPT ![r] = getCurrentServerSeq]
  /\ pc' = [pc EXCEPT ![r] = "next"]
  /\ UNCHANGED <<database, idempotency, index, sequence, pending, verdict,
                 existing, answer, cursors, bounds, executed>>

\* Mutant: the loop does not move on.
AdvanceStuck(r) ==
  /\ seen' = [seen EXCEPT ![r] = @ \cup {Current(r)}]
  /\ pc' = [pc EXCEPT ![r] = "next"]
  /\ UNCHANGED index

\* The loop goes on with the next mutation.
Advance(r) ==
  /\ seen' = [seen EXCEPT ![r] = @ \cup {Current(r)}]
  /\ index' = [index EXCEPT ![r] = @ + 1]
  /\ pc' = [pc EXCEPT ![r] = "next"]

\* A verdict: the lists of the response are extended at once, the verdict is
\* stored in the steps that follow (recordMutationSuccess/Failure).
Settle(r, v) ==
  /\ verdict' = [verdict EXCEPT ![r] = v]
  /\ applied' = IF v = "ok" THEN [applied EXCEPT ![r] = @ \cup {Current(r)}] ELSE applied
  /\ errors' = IF v = "ok" THEN errors
               ELSE [errors EXCEPT ![r] = @ \cup {<<Current(r), v>>}]
  /\ pc' = [pc EXCEPT ![r] = "setRead"]
  /\ UNCHANGED seen

\* The mutation was met before in this request.
DedupInBatch(r) ==
  /\ pc[r] = "next" /\ AtMutation(r)
  /\ Current(r) \in seen[r]
  /\ Advance(r)
  /\ UNCHANGED <<database, idempotency, batch, sequence, pending, verdict, existing,
                 applied, errors, cursorBefore, cursors, bounds, executed>>

\* Mutant: every stored verdict counts as applied.
DedupStoredAny(r) ==
  /\ pc[r] = "next" /\ AtMutation(r)
  /\ Current(r) \notin seen[r]
  /\ idempotency[Current(r)] # "none"
  /\ applied' = [applied EXCEPT ![r] = @ \cup {Current(r)}]
  /\ Advance(r)
  /\ UNCHANGED <<database, idempotency, batch, sequence, pending, verdict, existing,
                 errors, cursorBefore, cursors, bounds, executed>>

\* The mutation has a stored verdict that no execution may change.
DedupStored(r) ==
  /\ pc[r] = "next" /\ AtMutation(r)
  /\ Current(r) \notin seen[r]
  /\ \/ /\ idempotency[Current(r)] = "ok"
        /\ applied' = [applied EXCEPT ![r] = @ \cup {Current(r)}]
        /\ UNCHANGED errors
     \/ /\ idempotency[Current(r)] \notin {"none", "ok"}
        /\ ~isRetryableMutationResult(idempotency[Current(r)])
        /\ errors' = [errors EXCEPT ![r] = @ \cup {<<Current(r), idempotency[Current(r)]>>}]
        /\ UNCHANGED applied
  /\ Advance(r)
  /\ UNCHANGED <<database, idempotency, batch, sequence, pending, verdict, existing,
                 cursorBefore, cursors, bounds, executed>>

\* No verdict, or one that allows another try; then the access check.
Admit(r) ==
  /\ pc[r] = "next" /\ AtMutation(r)
  /\ Current(r) \notin seen[r]
  /\ idempotency[Current(r)] = "none" \/ isRetryableMutationResult(idempotency[Current(r)])
  /\ \/ /\ Current(r) \in Forbidden
        /\ Settle(r, "forbidden")
     \/ /\ Current(r) \notin Forbidden
        /\ pc' = [pc EXCEPT ![r] = "execute"]
        /\ UNCHANGED <<answer, verdict>>
  /\ UNCHANGED <<database, idempotency, batch, index, sequence, pending, existing,
                 cursorBefore, cursors, bounds, executed>>

\* The operation refuses the mutation; a transaction rolls back.
Refuse(r) ==
  /\ pc[r] = "execute"
  /\ OpResult(Current(r)) # "ok"
  /\ Settle(r, OpResult(Current(r)))
  /\ UNCHANGED <<database, idempotency, batch, index, sequence, pending, existing,
                 cursorBefore, cursors, bounds, executed>>

\* With transactions: the operation, the numbers it takes and its change log
\* entries commit together; then the pool and the maxima are published.
Commit(r) ==
  LET m     == Current(r)
      ks    == ChangedKeys(m)
      n     == Len(ks)
      stock == Stock(r, n)
  IN /\ atomic
     /\ pc[r] = "execute"
     /\ OpResult(m) = "ok"
     /\ rows' = RowsAfter(m)
     /\ changes' = changes \o [i \in 1 .. n |-> ChangeOf(r, m, ks[i], stock[i])]
     /\ nextSeq' = nextSeq + Fresh(r, n)
     /\ pool' = [pool EXCEPT ![r] = SubSeq(stock, n + 1, Len(stock))]
     /\ allocated' = [allocated EXCEPT ![r] = @ \/ n > 0]
     /\ latestSeq' = [latestSeq EXCEPT ![r] =
                        IF n = 0 THEN @
                        ELSE IF n = 1 THEN Later(@, stock[1])
                        ELSE Later(Later(@, stock[1]), stock[2])]
     /\ resourceSeqs' = [resourceSeqs EXCEPT ![r] =
                           IF n = 0 THEN @
                           ELSE IF n = 1 THEN Bump(@, ks[1], stock[1])
                           ELSE Bump(Bump(@, ks[1], stock[1]), ks[2], stock[2])]
     /\ executed' = executed \cup {m}
     /\ Settle(r, "ok")
     /\ UNCHANGED <<idempotency, batch, index, pending, existing, cursorBefore, bounds>>

\* Without transactions: the operation alone; its changes are recorded after.
Operate(r) ==
  LET m == Current(r)
  IN /\ ~atomic
     /\ pc[r] = "execute"
     /\ OpResult(m) = "ok"
     /\ rows' = RowsAfter(m)
     /\ executed' = executed \cup {m}
     /\ \/ /\ ChangedKeys(m) = <<>>
           /\ Settle(r, "ok")
           /\ UNCHANGED pending
        \/ /\ ChangedKeys(m) # <<>>
           /\ pending' = [pending EXCEPT ![r] = ChangedKeys(m)]
           /\ pc' = [pc EXCEPT ![r] = "take"]
           /\ UNCHANGED <<answer, verdict>>
     /\ UNCHANGED <<changes, nextSeq, idempotency, batch, index, sequence, existing,
                    cursorBefore, cursors, bounds>>

\* takeNextServerSeq for the next change; the number is the pool's head until
\* the change is recorded.
TakeSeq(r) ==
  LET stock == Stock(r, 1)
      k     == Head(pending[r])
  IN /\ pc[r] = "take"
     /\ nextSeq' = nextSeq + Fresh(r, 1)
     /\ pool' = [pool EXCEPT ![r] = stock]
     /\ allocated' = [allocated EXCEPT ![r] = TRUE]
     /\ latestSeq' = [latestSeq EXCEPT ![r] = Later(@, stock[1])]
     /\ resourceSeqs' = [resourceSeqs EXCEPT ![r] = Bump(@, k, stock[1])]
     /\ pc' = [pc EXCEPT ![r] = "record"]
     /\ UNCHANGED <<rows, changes, idempotency, batch, index, pending, verdict, existing,
                    answer, cursorBefore, bounds, executed>>

\* recordChangeWithRetry.
RecordChange(r) ==
  /\ pc[r] = "record"
  /\ changes' = Append(changes,
                  ChangeOf(r, Current(r), Head(pending[r]), Head(pool[r])))
  /\ pool' = [pool EXCEPT ![r] = Tail(@)]
  /\ pending' = [pending EXCEPT ![r] = Tail(@)]
  /\ \/ /\ Len(pending[r]) = 1
        /\ Settle(r, "ok")
     \/ /\ Len(pending[r]) > 1
        /\ pc' = [pc EXCEPT ![r] = "take"]
        /\ UNCHANGED <<answer, verdict>>
  /\ UNCHANGED <<rows, nextSeq, idempotency, batch, index, allocated, existing,
                 cursorBefore, cursors, bounds, executed>>

\* A database failure that outlasts the retries: while the mutation executes
\* (MUTATION_FAILED, nothing changed) or while its changes are recorded
\* (INTERNAL; the number taken is lost, and so are the changes not recorded).
Fault(r) ==
  /\ faults < MaxFaults
  /\ faults' = faults + 1
  /\ pc[r] \in {"execute", "take", "record"}
  /\ Settle(r, "retry")
  /\ pending' = [pending EXCEPT ![r] = <<>>]
  /\ pool' = IF pc[r] = "record" THEN [pool EXCEPT ![r] = Tail(@)] ELSE pool
  /\ allocated' = IF pc[r] = "take" THEN [allocated EXCEPT ![r] = TRUE] ELSE allocated
  /\ UNCHANGED <<database, idempotency, batch, index, existing, cursorBefore, cursors,
                 atomic, crashes, executed>>

\* idempotencyStore.set looks the stored verdict up ...
SetRead(r) ==
  /\ pc[r] = "setRead"
  /\ existing' = [existing EXCEPT ![r] = idempotency[Current(r)]]
  /\ pc' = [pc EXCEPT ![r] = "setWrite"]
  /\ UNCHANGED <<database, idempotency, batch, index, sequence, pending, verdict,
                 answer, cursorBefore, cursors, bounds, executed>>

\* ... and writes: it keeps a final verdict, updates a retryable one, and
\* creates the row otherwise; a duplicate key on create is ignored.
Stored(r) ==
  LET m == Current(r)
  IN IF existing[r] = "none"
     THEN IF idempotency[m] = "none" THEN verdict[r] ELSE idempotency[m]
     ELSE IF isRetryableMutationResult(existing[r]) THEN verdict[r] ELSE idempotency[m]

SetWrite(r) ==
  /\ pc[r] = "setWrite"
  /\ idempotency' = [idempotency EXCEPT ![Current(r)] = Stored(r)]
  /\ Advance(r)
  /\ UNCHANGED <<database, batch, sequence, pending, verdict, existing, applied, errors,
                 cursorBefore, cursors, bounds, executed>>

\* The store swallows every other database error: the verdict is not stored.
SetFails(r) ==
  /\ pc[r] \in {"setRead", "setWrite"}
  /\ faults < MaxFaults
  /\ faults' = faults + 1
  /\ Advance(r)
  /\ UNCHANGED <<database, idempotency, batch, sequence, pending, verdict, existing,
                 applied, errors, cursorBefore, cursors, atomic, crashes, executed>>

\* The response: a request that took no number reports the current sequence.
Respond(r) ==
  /\ pc[r] = "next" /\ ~AtMutation(r)
  /\ latestSeq' = IF latestSeq[r] = 0
                  THEN [latestSeq EXCEPT ![r] = getCurrentServerSeq] ELSE latestSeq
  /\ pc' = [pc EXCEPT ![r] = "done"]
  /\ UNCHANGED <<database, idempotency, batch, index, sequence, pending, verdict, existing,
                 answer, cursorBefore, resourceSeqs, bounds, executed>>

InFlight(r) == pc[r] \notin {"idle", "done", "dead"}

\* The process dies: the requests it worked on are never answered.
Crash ==
  /\ crashes < MaxCrashes
  /\ \E r \in Request : InFlight(r)
  /\ crashes' = crashes + 1
  /\ pc' = [r \in Request |-> IF InFlight(r) THEN "dead" ELSE pc[r]]
  /\ UNCHANGED <<database, idempotency, batch, index, sequence, pending, verdict, existing,
                 answer, cursorBefore, cursors, atomic, faults, executed>>

Step(r) ==
  \/ DedupInBatch(r) \/ DedupStored(r) \/ Admit(r) \/ Refuse(r) \/ Commit(r)
  \/ Operate(r) \/ TakeSeq(r) \/ RecordChange(r) \/ SetRead(r) \/ SetWrite(r)
  \/ Respond(r)

Next ==
  \/ \E r \in Request : Begin(r) \/ Step(r) \/ Fault(r) \/ SetFails(r)
  \/ Crash

Spec     == Init /\ [][Next]_vars
\* A request that was accepted keeps being served.
FairSpec == Spec /\ \A r \in Request : WF_vars(Step(r))

----------------------------------------------------------------------------
(* Safety. *)

\* No two changes share a serverSeq, whatever is retried, rolled back or lost
\* (takeNextServerSeq and its per-transaction copy of the pool).
SeqUnique ==
  \A i, j \in 1 .. Len(changes) : i # j => changes[i].seq # changes[j].seq

\* A request's changes are numbered in the order of its mutations, although
\* they come from a batch reserved early and from single numbers reserved
\* later (push ordering).
PushOrder ==
  \A i, j \in 1 .. Len(changes) :
    i < j /\ changes[i].req = changes[j].req => changes[i].seq < changes[j].seq

Logged(m) == \E i \in 1 .. Len(changes) : changes[i].by = m /\ changes[i].key = key[m]

\* A mutation reported as applied was executed, and with transactions, if it is
\* what the row holds, pulls can see it: it is in the change log.
AppliedIsLogged ==
  \A r \in Request : \A m \in applied[r] :
    /\ m \in executed
    /\ atomic /\ rows[key[m]] = m => Logged(m)

\* The cursors of a response cover every change its request made, and neither
\* they nor cursorBefore run ahead of the sequence.
ResponseCoversOwnChanges ==
  \A r \in Request : pc[r] = "done" =>
    /\ \A i \in 1 .. Len(changes) : changes[i].req = r =>
         changes[i].seq <= resourceSeqs[r][resourceOf[changes[i].key]]
    /\ \A x \in Resource : resourceSeqs[r][x] <= latestSeq[r]
    /\ cursorBefore[r] < nextSeq /\ latestSeq[r] < nextSeq

\* With transactions the row holds what the last change committed for it says.
RowsFollowChanges ==
  atomic => \A k \in Key :
    LET about == {i \in 1 .. Len(changes) : changes[i].key = k}
    IN IF about = {} THEN rows[k] = None
       ELSE LET last == CHOOSE i \in about : \A j \in about : j <= i
            IN rows[k] = IF changes[last].op = "delete" THEN None ELSE changes[last].by

\* A request that was accepted is answered unless the process dies.
EveryRequestAnswered ==
  \A r \in Request : pc[r] = "next" ~> pc[r] \in {"done", "dead"}

\* Retried pushes cause no double write (the (clientId, mutationId) pair;
\* idempotency is looked up before the transaction and stored after it).
NoDoubleWrite ==
  \A i, j \in 1 .. Len(changes) :
    i # j => ~(changes[i].by = changes[j].by /\ changes[i].key = changes[j].key)

=============================================================================
