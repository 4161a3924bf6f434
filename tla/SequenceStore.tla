--------------------------- MODULE SequenceStore ---------------------------
(***************************************************************************)
(* getNextN of datafn/server/src/execution/sync/sequence-store.ts, in the  *)
(* two configurations createSequenceStore makes:                           *)
(*   "db"      DatabaseSequenceStore, a compare-and-swap on the meta row   *)
(*   "strict"  ChainedSequenceStore: an atomic key-value store first, the  *)
(*             database when that store is unhealthy or fails              *)
(* (the loop of ChangeTrackingService.getNextServerSeqBatchFromDb is that  *)
(* of DatabaseSequenceStore.)                                              *)
(*                                                                         *)
(* Several server processes share the two stores.  Every await is a point  *)
(* where calls interleave.  The namespace lock (module NamespaceLock)      *)
(* keeps the calls of one adapter object apart while they work on the      *)
(* database; a push in a transaction brings an adapter object of its own.  *)
(***************************************************************************)
EXTENDS Naturals, FiniteSets

CONSTANTS
  Call,           \* calls of getNextN
  Process,        \* server processes
  processOf,      \* [Call -> Process]
  Adapter,        \* database adapter objects
  adapterOf,      \* [Call -> Adapter]: in a transaction, one of its own
  Mode,           \* "db" or "strict"
  Counts,         \* the counts a call may ask for
  OneAtATime,     \* TRUE: callers never overlap
  MaxAttempts,    \* MAX_RETRIES
  MaxFlips,       \* bound: changes of the atomic store's health
  MaxFaults,      \* bound: failed operations of either store
  MaxRestarts,    \* bound: restarts of a server process
  None

ASSUME StoreAssumption ==
  /\ processOf \in [Call -> Process]
  /\ adapterOf \in [Call -> Adapter]
  /\ Mode \in {"db", "strict"}
  /\ Counts \subseteq Nat \ {0}
  /\ OneAtATime \in BOOLEAN
  /\ MaxAttempts \in Nat \ {0}
  /\ MaxFlips \in Nat /\ MaxFaults \in Nat /\ MaxRestarts \in Nat
  /\ None \notin Call

VARIABLES
  atomicValue,    \* the counter of the atomic store
  up,             \* what its isHealthy says
  metaNext,       \* next_server_seq of the meta row, 0 while there is no row
  lastKnown,      \* lastKnownPrimarySeq of each process, 0 if not set
  lock,           \* the call that holds the namespace lock of each adapter object
  pc, count,
  primaryRead,    \* primaryCurrent, None while not read
  secondaryRead,  \* secondaryCurrent, None while not read
  seen,           \* the next_server_seq the call read
  target,         \* minSeq of ensureMinSeq
  persisting,     \* TRUE: ensureMinSeq records an allocation; FALSE: failover
  caught,         \* the call is in the catch block of ChainedSequenceStore.getNextN
  attempt,
  result,         \* the numbers the call allocated
  flips, faults, restarts,
  earlier         \* history: the calls that had returned when this one began

stores   == <<atomicValue, up, metaNext>>
compare  == <<primaryRead, secondaryRead>>
minimum  == <<target, persisting>>
retrying == <<caught, attempt>>
bounds   == <<flips, faults, restarts>>
vars == <<stores, lastKnown, lock, pc, count, compare, seen, minimum, retrying,
          result, bounds, earlier>>

Stage == {"idle", "health", "compare", "raiseRead", "raise", "incr", "track",
          "minRead", "minCreate", "minReread", "minSwap", "takeRead", "takeWrite",
          "returned", "failed"}

TypeOK ==
  /\ atomicValue \in Nat
  /\ up \in BOOLEAN
  /\ metaNext \in Nat
  /\ lastKnown \in [Process -> Nat]
  /\ lock \in [Adapter -> Call \cup {None}]
  /\ pc \in [Call -> Stage]
  /\ count \in [Call -> Nat]
  /\ primaryRead \in [Call -> Nat \cup {None}]
  /\ secondaryRead \in [Call -> Nat \cup {None}]
  /\ seen \in [Call -> Nat]
  /\ target \in [Call -> Nat]
  /\ persisting \in [Call -> BOOLEAN]
  /\ caught \in [Call -> BOOLEAN]
  /\ attempt \in [Call -> 0 .. MaxAttempts - 1]
  /\ result \in [Call -> SUBSET Nat]
  /\ flips \in 0 .. MaxFlips /\ faults \in 0 .. MaxFaults
  /\ restarts \in 0 .. MaxRestarts
  /\ earlier \in [Call -> SUBSET Call]

Init ==
  /\ atomicValue = 0
  /\ up = TRUE
  /\ metaNext = 0
  /\ lastKnown = [p \in Process |-> 0]
  /\ lock = [a \in Adapter |-> None]
  /\ pc = [c \in Call |-> "idle"]
  /\ count = [c \in Call |-> 0]
  /\ primaryRead = [c \in Call |-> None]
  /\ secondaryRead = [c \in Call |-> None]
  /\ seen = [c \in Call |-> 0]
  /\ target = [c \in Call |-> 0]
  /\ persisting = [c \in Call |-> FALSE]
  /\ caught = [c \in Call |-> FALSE]
  /\ attempt = [c \in Call |-> 0]
  /\ result = [c \in Call |-> {}]
  /\ flips = 0 /\ faults = 0 /\ restarts = 0
  /\ earlier = [c \in Call |-> {}]

InFlight(c) == pc[c] \notin {"idle", "returned", "failed"}
Goto(c, s)  == pc' = [pc EXCEPT ![c] = s]

\* DatabaseSequenceStore.getCurrent.
metaCurrent == IF metaNext = 0 THEN 0 ELSE metaNext - 1

Acquire(c) == /\ lock[adapterOf[c]] \in {None, c}
              /\ lock' = [lock EXCEPT ![adapterOf[c]] = c]
Release(c) == lock' = [lock EXCEPT ![adapterOf[c]] = None]

Break == faults < MaxFaults /\ faults' = faults + 1

----------------------------------------------------------------------------
Begin(c) ==
  /\ pc[c] = "idle"
  /\ OneAtATime => \A d \in Call : ~InFlight(d)
  /\ \E n \in Counts : count' = [count EXCEPT ![c] = n]
  /\ earlier' = [earlier EXCEPT ![c] = {d \in Call : pc[d] = "returned"}]
  /\ Goto(c, IF Mode = "db" THEN "takeRead" ELSE "health")
  /\ UNCHANGED <<stores, lastKnown, lock, compare, seen, minimum, retrying, result, bounds>>

\* The way to the database: first syncSecondaryOnFailover with what this
\* process knows, if it knows anything, then the database's getNextN.
Failover(c) ==
  /\ attempt' = [attempt EXCEPT ![c] = 0]
  /\ persisting' = [persisting EXCEPT ![c] = FALSE]
  /\ target' = [target EXCEPT ![c] = lastKnown[processOf[c]]]
  /\ Goto(c, IF lastKnown[processOf[c]] > 0 THEN "minRead" ELSE "takeRead")

\* An error of the database.  In the try block of ChainedSequenceStore.getNextN
\* it leads to the catch block, which takes the way to the database (again); in
\* the catch block, and in a DatabaseSequenceStore of its own, it is thrown.
GiveUp(c) ==
  \/ /\ Mode = "strict" /\ ~caught[c]
     /\ caught' = [caught EXCEPT ![c] = TRUE]
     /\ Failover(c)
  \/ /\ Mode = "db" \/ caught[c]
     /\ Goto(c, "failed")
     /\ UNCHANGED <<minimum, retrying>>

Health(c) ==
  /\ pc[c] = "health"
  /\ \/ up /\ Goto(c, "compare") /\ UNCHANGED <<minimum, attempt>>
     \/ ~up /\ Failover(c)
  /\ UNCHANGED <<stores, lastKnown, lock, count, compare, seen, caught, result, bounds,
                 earlier>>

\* syncPrimaryIfBehindSecondary reads both stores at the same time.
ReadPrimary(c) ==
  /\ pc[c] = "compare" /\ up /\ primaryRead[c] = None
  /\ primaryRead' = [primaryRead EXCEPT ![c] = atomicValue]
  /\ UNCHANGED <<stores, lastKnown, lock, pc, count, secondaryRead, seen, minimum, retrying,
                 result, bounds, earlier>>

ReadSecondary(c) ==
  /\ pc[c] = "compare" /\ secondaryRead[c] = None
  /\ secondaryRead' = [secondaryRead EXCEPT ![c] = metaCurrent]
  /\ UNCHANGED <<stores, lastKnown, lock, pc, count, primaryRead, seen, minimum, retrying,
                 result, bounds, earlier>>

Compare(c) ==
  /\ pc[c] = "compare" /\ primaryRead[c] # None /\ secondaryRead[c] # None
  /\ Goto(c, IF primaryRead[c] < secondaryRead[c] THEN "raiseRead" ELSE "incr")
  /\ UNCHANGED <<stores, lastKnown, lock, count, compare, seen, minimum, retrying, result,
                 bounds, earlier>>

\* AtomicSequenceStore.ensureMinSeq: read, then add what is missing until the
\* counter is there.
RaiseRead(c) ==
  /\ pc[c] = "raiseRead" /\ up
  /\ primaryRead' = [primaryRead EXCEPT ![c] = atomicValue]
  /\ Goto(c, IF atomicValue < secondaryRead[c] THEN "raise" ELSE "incr")
  /\ UNCHANGED <<stores, lastKnown, lock, count, secondaryRead, seen, minimum, retrying,
                 result, bounds, earlier>>

Raise(c) ==
  /\ pc[c] = "raise" /\ up
  /\ atomicValue' = atomicValue + (secondaryRead[c] - primaryRead[c])
  /\ primaryRead' = [primaryRead EXCEPT ![c] = atomicValue']
  /\ Goto(c, IF atomicValue' < secondaryRead[c] THEN "raise" ELSE "incr")
  /\ UNCHANGED <<up, metaNext, lastKnown, lock, count, secondaryRead, seen, minimum,
                 retrying, result, bounds, earlier>>

Incr(c) ==
  /\ pc[c] = "incr" /\ up
  /\ atomicValue' = atomicValue + count[c]
  /\ target' = [target EXCEPT ![c] = atomicValue']
  /\ Goto(c, "track")
  /\ UNCHANGED <<up, metaNext, lastKnown, lock, count, compare, seen, persisting, retrying,
                 result, bounds, earlier>>

\* Mutant: the allocation is not persisted.
TrackOnly(c) ==
  /\ pc[c] = "track"
  /\ lastKnown' = [lastKnown EXCEPT ![processOf[c]] = target[c]]
  /\ result' = [result EXCEPT ![c] = target[c] - count[c] + 1 .. target[c]]
  /\ Goto(c, "returned")
  /\ UNCHANGED <<stores, lock, count, compare, seen, minimum, retrying, bounds, earlier>>

\* The reply arrives: remember it, then persist it in the database.
Track(c) ==
  /\ pc[c] = "track"
  /\ lastKnown' = [lastKnown EXCEPT ![processOf[c]] = target[c]]
  /\ persisting' = [persisting EXCEPT ![c] = TRUE]
  /\ Goto(c, "minRead")
  /\ UNCHANGED <<stores, lock, count, compare, seen, target, retrying, result, bounds,
                 earlier>>

\* The atomic store is down or fails: the catch of getNextN.  A lost reply
\* leaves the counter advanced.
PrimaryFails(c) ==
  /\ pc[c] \in {"health", "compare", "raiseRead", "raise", "incr", "track"}
  /\ \/ /\ ~up /\ pc[c] \notin {"health", "track"}
        /\ pc[c] = "compare" => primaryRead[c] = None
        /\ UNCHANGED faults
     \/ Break
  /\ GiveUp(c)
  /\ UNCHANGED <<stores, lastKnown, lock, count, compare, seen, result, flips, restarts,
                 earlier>>

\* Mutant: the high water is the number itself instead of its successor.
NeededSame(c) == target[c]

\* ensureMinSeq: the meta row's next number must be above the target.
Needed(c) == target[c] + 1

\* Mutant: the namespace lock is kept.
MinDoneLocked(c) ==
  /\ lock' = [lock EXCEPT ![adapterOf[c]] = c]
  /\ \/ /\ persisting[c]
        /\ result' = [result EXCEPT ![c] = target[c] - count[c] + 1 .. target[c]]
        /\ Goto(c, "returned")
     \/ /\ ~persisting[c]
        /\ Goto(c, "takeRead")
        /\ UNCHANGED result

\* After ensureMinSeq: the allocation is returned, or the failover goes on.
MinDone(c) ==
  /\ Release(c)
  /\ \/ /\ persisting[c]
        /\ result' = [result EXCEPT ![c] = target[c] - count[c] + 1 .. target[c]]
        /\ Goto(c, "returned")
     \/ /\ ~persisting[c]
        /\ Goto(c, "takeRead")
        /\ UNCHANGED result

MinRead(c) ==
  /\ pc[c] = "minRead"
  /\ lock[adapterOf[c]] \in {None, c}
  /\ seen' = [seen EXCEPT ![c] = metaNext]
  /\ \/ /\ metaNext >= Needed(c)
        /\ MinDone(c)
     \/ /\ metaNext < Needed(c)
        /\ Acquire(c)
        /\ Goto(c, IF metaNext = 0 THEN "minCreate" ELSE "minSwap")
        /\ UNCHANGED result
  /\ UNCHANGED <<stores, lastKnown, count, compare, minimum, retrying, bounds, earlier>>

\* A create that fails, because another process was faster or because the
\* database did, is followed by a second look at the row.
MinCreate(c) ==
  /\ pc[c] = "minCreate"
  /\ \/ /\ metaNext = 0
        /\ metaNext' = Needed(c)
        /\ MinDone(c)
        /\ UNCHANGED faults
     \/ /\ (metaNext # 0 /\ UNCHANGED faults) \/ Break
        /\ Goto(c, "minReread")
        /\ UNCHANGED <<metaNext, lock, result>>
  /\ UNCHANGED <<atomicValue, up, lastKnown, count, compare, seen, minimum, retrying, flips,
                 restarts, earlier>>

\* The first number an absent row stands for is 1.
CurrentOf(next) == IF next = 0 THEN 1 ELSE next

MinReread(c) ==
  /\ pc[c] = "minReread"
  /\ seen' = [seen EXCEPT ![c] = CurrentOf(metaNext)]
  /\ \/ /\ CurrentOf(metaNext) >= Needed(c)
        /\ MinDone(c)
     \/ /\ CurrentOf(metaNext) < Needed(c)
        /\ Goto(c, "minSwap")
        /\ UNCHANGED <<lock, result>>
  /\ UNCHANGED <<stores, lastKnown, count, compare, minimum, retrying, bounds, earlier>>

\* A compare-and-swap that lost the race is not repeated.
MinSwap(c) ==
  /\ pc[c] = "minSwap"
  /\ metaNext' = IF metaNext = seen[c] THEN Needed(c) ELSE metaNext
  /\ MinDone(c)
  /\ UNCHANGED <<atomicValue, up, lastKnown, count, compare, seen, minimum, retrying, bounds,
                 earlier>>

\* The database fails in ensureMinSeq, which lets the error through.
MinFails(c) ==
  /\ pc[c] \in {"minRead", "minReread", "minSwap"}
  /\ lock[adapterOf[c]] \in {None, c}
  /\ Break
  /\ Release(c)
  /\ GiveUp(c)
  /\ UNCHANGED <<stores, lastKnown, count, compare, seen, result, flips, restarts, earlier>>

\* DatabaseSequenceStore.getNextN, one attempt: read the row ...
TakeRead(c) ==
  /\ pc[c] = "takeRead"
  /\ Acquire(c)
  /\ seen' = [seen EXCEPT ![c] = metaNext]
  /\ Goto(c, "takeWrite")
  /\ UNCHANGED <<stores, lastKnown, count, compare, minimum, retrying, result, bounds, earlier>>

\* Mutants: one attempt too many; the lock is kept on the way out.
RetryOnceMore(c) ==
  \/ /\ attempt[c] < MaxAttempts
     /\ attempt' = [attempt EXCEPT ![c] = @ + 1]
     /\ Goto(c, "takeRead")
     /\ Acquire(c)
     /\ UNCHANGED <<minimum, caught>>
  \/ /\ attempt[c] >= MaxAttempts
     /\ Release(c)
     /\ GiveUp(c)

\* The attempt failed: try again, or give up after MAX_RETRIES.
Retry(c) ==
  \/ /\ attempt[c] + 1 < MaxAttempts
     /\ attempt' = [attempt EXCEPT ![c] = @ + 1]
     /\ Goto(c, "takeRead")
     /\ Acquire(c)
     /\ UNCHANGED <<minimum, caught>>
  \/ /\ attempt[c] + 1 >= MaxAttempts
     /\ Release(c)
     /\ GiveUp(c)

First(c) == CurrentOf(seen[c])

\* Mutant: the row is written without comparing.
TakeWriteBlind(c) ==
  /\ pc[c] = "takeWrite"
  /\ metaNext' = First(c) + count[c]
  /\ result' = [result EXCEPT ![c] = First(c) .. First(c) + count[c] - 1]
  /\ Goto(c, "returned")
  /\ Release(c)
  /\ UNCHANGED <<atomicValue, up, lastKnown, count, compare, seen, minimum, retrying, bounds,
                 earlier>>

\* ... and create it or swap it.
TakeWrite(c) ==
  /\ pc[c] = "takeWrite"
  /\ \/ /\ metaNext = seen[c]
        /\ metaNext' = First(c) + count[c]
        /\ result' = [result EXCEPT ![c] = First(c) .. First(c) + count[c] - 1]
        /\ Goto(c, "returned")
        /\ Release(c)
        /\ UNCHANGED <<minimum, retrying>>
     \/ /\ metaNext # seen[c]
        /\ Retry(c)
        /\ UNCHANGED <<metaNext, result>>
  /\ UNCHANGED <<atomicValue, up, lastKnown, count, compare, seen, bounds, earlier>>

\* The database fails: without effect, or with its reply lost.
TakeFails(c) ==
  /\ pc[c] \in {"takeRead", "takeWrite"}
  /\ lock[adapterOf[c]] \in {None, c}
  /\ Break
  /\ \/ UNCHANGED metaNext
     \/ /\ pc[c] = "takeWrite" /\ metaNext = seen[c]
        /\ metaNext' = First(c) + count[c]
  /\ Retry(c)
  /\ UNCHANGED <<atomicValue, up, lastKnown, count, compare, seen, result, flips, restarts,
                 earlier>>

----------------------------------------------------------------------------
(* The environment. *)

\* The atomic store becomes unhealthy or healthy again; its counter survives.
Flip ==
  /\ Mode = "strict" /\ flips < MaxFlips
  /\ flips' = flips + 1
  /\ up' = ~up
  /\ UNCHANGED <<atomicValue, metaNext, lastKnown, lock, pc, count, compare, seen, minimum,
                 retrying, result, faults, restarts, earlier>>

\* A process restarts: its calls are gone and it knows nothing any more.
Restart(p) ==
  /\ restarts < MaxRestarts
  /\ restarts' = restarts + 1
  /\ lastKnown' = [lastKnown EXCEPT ![p] = 0]
  /\ lock' = [a \in Adapter |-> IF lock[a] # None /\ processOf[lock[a]] = p
                             THEN None ELSE lock[a]]
  /\ pc' = [c \in Call |-> IF processOf[c] = p /\ InFlight(c) THEN "failed" ELSE pc[c]]
  /\ UNCHANGED <<stores, count, compare, seen, minimum, retrying, result, flips, faults,
                 earlier>>

Step(c) ==
  \/ Health(c) \/ ReadPrimary(c) \/ ReadSecondary(c) \/ Compare(c) \/ RaiseRead(c)
  \/ Raise(c) \/ Incr(c) \/ Track(c) \/ PrimaryFails(c) \/ MinRead(c) \/ MinCreate(c)
  \/ MinReread(c) \/ MinSwap(c) \/ TakeRead(c) \/ TakeWrite(c)

Next ==
  \/ \E c \in Call : Begin(c) \/ Step(c) \/ MinFails(c) \/ TakeFails(c)
  \/ Flip
  \/ \E p \in Process : Restart(p)

Spec     == Init /\ [][Next]_vars
FairSpec == Spec /\ \A c \in Call : WF_vars(Step(c))

----------------------------------------------------------------------------
(* What sync relies on. *)

\* Two calls are never given the same number, in whatever process they run
\* and wherever their numbers came from (DI-003 of ChainedSequenceStore).
UniqueSeq ==
  \A c, d \in Call :
    c # d /\ pc[c] = "returned" /\ pc[d] = "returned" => result[c] \cap result[d] = {}

\* No call of a store has failed.  (After a failed create, ensureMinSeq swaps
\* once and does not look whether it did: numbers it promises are not persisted.)
StoresAnswer == faults = 0

\* A call that starts when another has returned gets higher numbers: changes
\* of later pushes sort after those of earlier ones, also across a failover.
NumbersFollowTime ==
  StoresAnswer =>
    \A c, d \in Call :
      pc[c] = "returned" /\ d \in earlier[c] =>
        \A x \in result[c], y \in result[d] : y < x

\* The high water of every number returned is in the database, so that a
\* process without memory can take over (persistPrimaryHighWater).
HighWaterPersisted ==
  StoresAnswer =>
    \A c \in Call : pc[c] = "returned" => \A x \in result[c] : x < metaNext

\* Every call ends, with numbers or with an error.
EveryCallEnds ==
  \A c \in Call : pc[c] # "idle" ~> pc[c] \in {"returned", "failed"}

\* The database store implements the sequence that PushServer assumes.
S == INSTANCE Sequence WITH next <- CurrentOf(metaNext),
                            taken <- result
ImplementsSequence == S!Spec

=============================================================================
