----------------------- MODULE SequenceStore_proofs -----------------------
(***************************************************************************)
(* Proofs about the sequence stores, for every number of calls and         *)
(* processes.  The database sequence (Mode = "db") gives no number out     *)
(* twice, whatever fails or restarts, and implements module Sequence.  In  *)
(* both modes, callers that wait for each other get numbers that rise with *)
(* time and that the database knows of, as long as no operation fails.     *)
(***************************************************************************)
EXTENDS SequenceStore, TLAPS

DbStage == {"idle", "takeRead", "takeWrite", "returned", "failed"}

\* The part of the state the database path uses.
DbType ==
  /\ metaNext \in Nat
  /\ pc \in [Call -> DbStage]
  /\ count \in [Call -> Nat]
  /\ seen \in [Call -> Nat]
  /\ result \in [Call -> SUBSET Nat]

\* A call that works asks for at least one number.
DbCounts == \A c \in Call : pc[c] # "idle" => count[c] # 0

\* What was given out lies below the next number; nothing else was given out.
DbGiven ==
  \A c \in Call : /\ pc[c] # "returned" => result[c] = {}
                  /\ \A x \in result[c] : x < metaNext

DbInv == DbType /\ DbCounts /\ DbGiven /\ UniqueSeq

----------------------------------------------------------------------------
\* The steps of the system that the database path has: a call begins, an
\* attempt reads, takes numbers, loses them or changes nothing of note.
Quiet ==
  /\ UNCHANGED <<metaNext, result, count>>
  /\ pc' \in [Call -> DbStage] /\ seen' \in [Call -> Nat]
  /\ \A c \in Call : pc'[c] = "returned" <=> pc[c] = "returned"
  /\ \A c \in Call : pc[c] = "idle" <=> pc'[c] = "idle"

Starting(c) ==
  /\ pc[c] = "idle" /\ pc' = [pc EXCEPT ![c] = "takeRead"]
  /\ \E n \in Counts : count' = [count EXCEPT ![c] = n]
  /\ UNCHANGED <<metaNext, result, seen>>

Taking(c) ==
  /\ pc[c] = "takeWrite" /\ metaNext = seen[c]
  /\ metaNext' = First(c) + count[c]
  /\ result' = [result EXCEPT ![c] = First(c) .. First(c) + count[c] - 1]
  /\ pc' = [pc EXCEPT ![c] = "returned"]
  /\ UNCHANGED <<seen, count>>

Losing(c) ==
  /\ pc[c] = "takeWrite" /\ metaNext = seen[c]
  /\ metaNext' = First(c) + count[c]
  /\ pc' \in {[pc EXCEPT ![c] = "takeRead"], [pc EXCEPT ![c] = "failed"]}
  /\ UNCHANGED <<result, seen, count>>

DbNext == Quiet \/ \E c \in Call : Starting(c) \/ Taking(c) \/ Losing(c)

\* An attempt that fails goes back to the read or gives up.
LEMMA RetryLemma ==
  ASSUME Mode = "db", NEW c \in Call, Retry(c)
  PROVE  pc' \in {[pc EXCEPT ![c] = "takeRead"], [pc EXCEPT ![c] = "failed"]}
BY DEF Retry, GiveUp, Goto

\* Moving a call between two stages other than idle and returned is quiet.
LEMMA QuietLemma ==
  ASSUME DbType, NEW c \in Call, NEW s \in {"takeRead", "takeWrite", "failed"},
         pc[c] \in {"takeRead", "takeWrite"},
         pc' = [pc EXCEPT ![c] = s],
         seen' \in [Call -> Nat],
         UNCHANGED <<metaNext, result, count>>
  PROVE  Quiet
BY DEF Quiet, DbType, DbStage

\* In db mode every step is one of the steps above.
LEMMA StepLemma ==
  ASSUME Mode = "db", DbType, [Next]_vars
  PROVE  DbNext
<1>1. CASE UNCHANGED vars
  BY <1>1 DEF DbNext, Quiet, DbType, vars, stores
<1>2. ASSUME NEW c \in Call, Begin(c) PROVE DbNext
  BY <1>2 DEF DbNext, Starting, Begin, Goto, stores
<1>3. ASSUME NEW c \in Call, Step(c) PROVE DbNext
  <2>1. pc[c] \in DbStage
    BY DEF DbType
  <2>2. ~(Health(c) \/ ReadPrimary(c) \/ ReadSecondary(c) \/ Compare(c) \/ RaiseRead(c)
          \/ Raise(c) \/ Incr(c) \/ Track(c) \/ PrimaryFails(c) \/ MinRead(c)
          \/ MinCreate(c) \/ MinReread(c) \/ MinSwap(c))
    BY <2>1 DEF DbStage, Health, ReadPrimary, ReadSecondary, Compare, RaiseRead, Raise,
                Incr, Track, PrimaryFails, MinRead, MinCreate, MinReread, MinSwap
  <2>3. CASE TakeRead(c)
    <3>1. seen' \in [Call -> Nat]
      BY <2>3 DEF TakeRead, DbType
    <3>2. Quiet
      BY <2>3, <3>1, QuietLemma DEF TakeRead, Goto, stores
    <3> QED BY <3>2 DEF DbNext
  <2>4. CASE TakeWrite(c)
    <3>1. CASE metaNext = seen[c]
      BY <2>4, <3>1 DEF TakeWrite, Taking, DbNext, Goto
    <3>2. CASE metaNext # seen[c]
      <4>1. Retry(c) /\ UNCHANGED <<metaNext, result, count, seen>> /\ pc[c] = "takeWrite"
        BY <2>4, <3>2 DEF TakeWrite
      <4>2. seen' \in [Call -> Nat]
        BY <4>1 DEF DbType
      <4>3. Quiet
        BY <4>1, <4>2, RetryLemma, QuietLemma
      <4> QED BY <4>3 DEF DbNext
    <3> QED BY <3>1, <3>2
  <2> QED BY <1>3, <2>2, <2>3, <2>4 DEF Step
<1>4. ASSUME NEW c \in Call, MinFails(c) PROVE DbNext
  <2>1. pc[c] \in DbStage
    BY DEF DbType
  <2> QED BY <1>4, <2>1 DEF MinFails, DbStage
<1>5. ASSUME NEW c \in Call, TakeFails(c) PROVE DbNext
  <2>1. /\ Retry(c) /\ UNCHANGED <<result, count, seen>>
        /\ pc[c] \in {"takeRead", "takeWrite"}
    BY <1>5 DEF TakeFails
  <2>2. seen' \in [Call -> Nat]
    BY <2>1 DEF DbType
  <2>3. CASE UNCHANGED metaNext
    <3>1. Quiet
      BY <2>1, <2>2, <2>3, RetryLemma, QuietLemma
    <3> QED BY <3>1 DEF DbNext
  <2>4. CASE /\ pc[c] = "takeWrite" /\ metaNext = seen[c]
             /\ metaNext' = First(c) + count[c]
    BY <2>1, <2>4, RetryLemma DEF DbNext, Losing
  <2> QED BY <1>5, <2>3, <2>4 DEF TakeFails
<1>6. CASE Flip
  BY <1>6 DEF Flip
<1>7. ASSUME NEW p \in Process, Restart(p) PROVE DbNext
  <2>1. Quiet
    BY <1>7 DEF Restart, Quiet, DbType, DbStage, InFlight, stores
  <2> QED BY <2>1 DEF DbNext
<1> QED BY <1>1, <1>2, <1>3, <1>4, <1>5, <1>6, <1>7 DEF Next

----------------------------------------------------------------------------
\* The invariant holds initially and is kept by each kind of step.
LEMMA InitLemma == Init => DbInv
BY DEF Init, DbInv, DbType, DbStage, DbCounts, DbGiven, UniqueSeq

\* A step that leaves the meta row, the results and the counts alone keeps
\* the invariant.
LEMMA QuietStep == DbInv /\ Quiet => DbInv'
BY DEF Quiet, DbInv, DbType, DbCounts, DbGiven, UniqueSeq

\* A call that begins keeps the invariant.
LEMMA StartingStep ==
  ASSUME DbInv, NEW c \in Call, Starting(c) PROVE DbInv'
<1>1. PICK n \in Counts : count' = [count EXCEPT ![c] = n]
  BY DEF Starting
<1>2. n \in Nat \ {0}
  BY StoreAssumption DEF StoreAssumption
<1>3. DbType'
  BY <1>1, <1>2 DEF DbInv, DbType, Starting, DbStage
<1>4. DbCounts'
  BY <1>1, <1>2 DEF DbInv, DbType, DbCounts, Starting
<1>5. DbGiven'
  BY DEF DbInv, DbType, DbGiven, Starting
<1>6. UniqueSeq'
  BY DEF DbInv, DbType, UniqueSeq, Starting
<1> QED BY <1>3, <1>4, <1>5, <1>6 DEF DbInv

\* The first number is the next one that was never given out.
LEMMA FirstLemma ==
  ASSUME DbInv, NEW c \in Call, metaNext = seen[c], pc[c] = "takeWrite",
         metaNext' = First(c) + count[c]
  PROVE  /\ First(c) = CurrentOf(metaNext) /\ First(c) \in Nat /\ First(c) # 0
         /\ metaNext <= First(c) /\ metaNext' \in Nat /\ First(c) < metaNext'
         /\ metaNext' - 1 = First(c) + count[c] - 1
<1>1. metaNext \in Nat /\ count[c] \in Nat /\ count[c] # 0
  BY DEF DbInv, DbType, DbCounts
<1> QED BY <1>1 DEF First, CurrentOf

\* A compare-and-swap that wins keeps the invariant: its numbers are all new.
LEMMA TakingStep ==
  ASSUME DbInv, NEW c \in Call, Taking(c) PROVE DbInv'
<1> DEFINE f == First(c)
<1>1. /\ f \in Nat /\ metaNext \in Nat /\ metaNext <= f /\ metaNext' \in Nat
      /\ f < metaNext' /\ metaNext' - 1 = f + count[c] - 1
  BY FirstLemma DEF Taking, DbInv, DbType
<1>2. result' = [result EXCEPT ![c] = f .. metaNext' - 1]
  BY <1>1 DEF Taking
<1> HIDE DEF f
<1>3. f .. metaNext' - 1 \in SUBSET Nat
  <2> SUFFICES ASSUME NEW x \in f .. metaNext' - 1 PROVE x \in Nat
    OBVIOUS
  <2> QED BY <1>1
<1>4. DbType'
  BY <1>1, <1>2, <1>3 DEF DbInv, DbType, Taking, DbStage
<1>5. DbCounts'
  BY DEF DbInv, DbType, DbCounts, Taking
<1>6. \A d \in Call : d # c => result'[d] = result[d] /\ pc'[d] = pc[d]
  BY DEF Taking, DbInv, DbType
<1>7. result'[c] = f .. metaNext' - 1 /\ pc'[c] = "returned"
  BY <1>2 DEF Taking, DbInv, DbType
<1>8. \A d \in Call : \A x \in result[d] : x \in Nat /\ x < metaNext
  BY DEF DbInv, DbType, DbGiven
<1>9. DbGiven'
  <2> SUFFICES ASSUME NEW d \in Call
               PROVE  /\ pc'[d] # "returned" => result'[d] = {}
                      /\ \A x \in result'[d] : x < metaNext'
    BY DEF DbGiven
  <2>1. CASE d = c
    BY <1>1, <1>7, <2>1
  <2>2. CASE d # c
    <3>1. pc[d] # "returned" => result[d] = {}
      BY DEF DbInv, DbGiven
    <3>2. \A x \in result[d] : x < metaNext'
      BY <1>1, <1>8
    <3> QED BY <3>1, <3>2, <2>2, <1>6
  <2> QED BY <2>1, <2>2
<1>10. \A d \in Call : d # c => result[d] \cap (f .. metaNext' - 1) = {}
  <2> SUFFICES ASSUME NEW d \in Call, d # c, NEW x \in result[d], x \in f .. metaNext' - 1
               PROVE  FALSE
    OBVIOUS
  <2> QED BY <1>1, <1>8
<1>11. UniqueSeq'
  <2> SUFFICES ASSUME NEW a \in Call, NEW b \in Call, a # b,
                      pc'[a] = "returned", pc'[b] = "returned"
               PROVE  result'[a] \cap result'[b] = {}
    BY DEF UniqueSeq
  <2>1. CASE a # c /\ b # c
    BY <2>1, <1>6 DEF DbInv, UniqueSeq
  <2>2. CASE a = c
    BY <2>2, <1>6, <1>7, <1>10
  <2>3. CASE b = c
    BY <2>3, <1>6, <1>7, <1>10
  <2> QED BY <2>1, <2>2, <2>3
<1> QED BY <1>4, <1>5, <1>9, <1>11 DEF DbInv

\* A compare-and-swap whose reply is lost keeps the invariant: its numbers
\* are skipped.
LEMMA LosingStep ==
  ASSUME DbInv, NEW c \in Call, Losing(c) PROVE DbInv'
<1>1. metaNext \in Nat /\ metaNext' \in Nat /\ metaNext < metaNext'
  <2>1. /\ First(c) \in Nat /\ metaNext <= First(c)
        /\ metaNext' \in Nat /\ First(c) < metaNext'
    BY FirstLemma DEF Losing
  <2> QED BY <2>1 DEF DbInv, DbType
<1>2. PICK s \in {"takeRead", "failed"} : pc' = [pc EXCEPT ![c] = s]
  BY DEF Losing
<1>3. DbType'
  BY <1>1, <1>2 DEF DbInv, DbType, Losing, DbStage
<1>4. DbCounts'
  BY <1>2 DEF DbInv, DbType, DbCounts, Losing
<1>5. \A d \in Call : (pc'[d] = "returned" <=> pc[d] = "returned") /\ result'[d] = result[d]
  BY <1>2 DEF DbInv, DbType, Losing
<1>6. \A d \in Call : \A x \in result[d] : x \in Nat /\ x < metaNext
  BY DEF DbInv, DbType, DbGiven
<1>7. \A d \in Call : \A x \in result[d] : x < metaNext'
  BY <1>1, <1>6
<1>8. DbGiven'
  BY <1>5, <1>7 DEF DbInv, DbGiven
<1>9. UniqueSeq'
  BY <1>5 DEF DbInv, UniqueSeq
<1> QED BY <1>3, <1>4, <1>8, <1>9 DEF DbInv

\* The numbers of the database sequence are unique: two calls of getNextN never
\* share one, in any number of processes, with failures, lost replies and
\* restarts (the compare-and-swap of DatabaseSequenceStore.getNextN).
THEOREM UniqueSeqTheorem ==
  ASSUME Mode = "db" PROVE Spec => []UniqueSeq
<1>1. Init => DbInv
  BY InitLemma
<1>2. DbInv /\ [Next]_vars => DbInv'
  BY StepLemma, QuietStep, StartingStep, TakingStep, LosingStep DEF DbInv, DbNext
<1>3. DbInv => UniqueSeq
  BY DEF DbInv
<1> QED BY <1>1, <1>2, <1>3, PTL DEF Spec

----------------------------------------------------------------------------
\* A step of the store is a step of Sequence or changes nothing it shows.
LEMMA RefinementStep ==
  ASSUME DbInv, DbNext
  PROVE  [S!Next]_<<CurrentOf(metaNext), result>>
<1>1. ASSUME Quiet PROVE UNCHANGED <<CurrentOf(metaNext), result>>
  BY <1>1 DEF Quiet, CurrentOf
<1>2. ASSUME NEW c \in Call, Starting(c) PROVE UNCHANGED <<CurrentOf(metaNext), result>>
  BY <1>2 DEF Starting, CurrentOf
<1>3. ASSUME NEW c \in Call, Taking(c) PROVE S!Take(c)
  <2> DEFINE f == First(c)
  <2>1. /\ f = CurrentOf(metaNext) /\ f \in Nat /\ f # 0 /\ metaNext' \in Nat
        /\ f < metaNext' /\ metaNext' - 1 = f + count[c] - 1
    BY <1>3, FirstLemma DEF Taking
  <2>2. result' = [result EXCEPT ![c] = f .. metaNext' - 1]
    BY <1>3, <2>1 DEF Taking
  <2>3. result[c] = {}
    BY <1>3 DEF Taking, DbInv, DbGiven
  <2> HIDE DEF f
  <2>4. CurrentOf(metaNext)' = metaNext'
    BY <2>1 DEF CurrentOf
  <2>5. CurrentOf(metaNext)' > CurrentOf(metaNext)
    BY <2>1, <2>4
  <2> QED BY <2>1, <2>2, <2>3, <2>4, <2>5 DEF S!Take
<1>4. ASSUME NEW c \in Call, Losing(c) PROVE S!Lose
  <2>1. /\ First(c) = CurrentOf(metaNext) /\ First(c) \in Nat /\ metaNext' \in Nat
        /\ First(c) < metaNext' /\ First(c) # 0
    BY <1>4, FirstLemma DEF Losing
  <2>2. CurrentOf(metaNext)' = metaNext'
    BY <2>1 DEF CurrentOf
  <2>3. CurrentOf(metaNext)' > CurrentOf(metaNext)
    BY <2>1, <2>2
  <2> QED BY <1>4, <2>3 DEF Losing, S!Lose
<1> QED BY <1>1, <1>2, <1>3, <1>4 DEF DbNext, S!Next

\* The database store is a sequence as PushServer uses it: every answered call
\* owns a run of numbers above all numbers given out before.
THEOREM ImplementsSequenceTheorem ==
  ASSUME Mode = "db" PROVE Spec => ImplementsSequence
<1>1. Init => S!Init
  BY DEF Init, S!Init, CurrentOf
<1>2. Init => DbInv
  BY InitLemma
<1>3. DbInv /\ [Next]_vars => DbInv'
  BY StepLemma, QuietStep, StartingStep, TakingStep, LosingStep DEF DbInv, DbNext
<1>4. DbInv /\ [Next]_vars => [S!Next]_<<CurrentOf(metaNext), result>>
  BY StepLemma, RefinementStep DEF DbInv
<1> QED BY <1>1, <1>2, <1>3, <1>4, PTL DEF Spec, ImplementsSequence, S!Spec

----------------------------------------------------------------------------
(* Types, in both modes.                                                   *)

Raising == {"minRead", "minCreate", "minReread", "minSwap"}

\* What a call has read and asks for in each of its stages.
Known(c) ==
  /\ pc[c] = "raiseRead" => secondaryRead[c] \in Nat
  /\ pc[c] = "raise" => /\ primaryRead[c] \in Nat /\ secondaryRead[c] \in Nat
                        /\ primaryRead[c] < secondaryRead[c]
  /\ pc[c] # "idle" => count[c] # 0
  /\ pc[c] = "track" \/ (pc[c] \in Raising /\ persisting[c]) => count[c] <= target[c]
  /\ pc[c] = "minSwap" => seen[c] <= target[c]

Types == TypeOK /\ \A c \in Call : Known(c)

\* What the ways to the database set.
Routed ==
  /\ pc' \in [Call -> Stage]
  /\ target' \in [Call -> Nat] /\ persisting' \in [Call -> BOOLEAN]
  /\ caught' \in [Call -> BOOLEAN] /\ attempt' \in [Call -> 0 .. MaxAttempts - 1]

LEMMA FailoverTypes ==
  ASSUME TypeOK, NEW c \in Call, Failover(c)
  PROVE  /\ pc' \in [Call -> Stage]
         /\ target' \in [Call -> Nat] /\ persisting' \in [Call -> BOOLEAN]
         /\ attempt' \in [Call -> 0 .. MaxAttempts - 1]
<1>1. 0 \in 0 .. MaxAttempts - 1
  BY StoreAssumption DEF StoreAssumption
<1>2. lastKnown[processOf[c]] \in Nat
  BY StoreAssumption DEF StoreAssumption, TypeOK
<1> QED
  BY <1>1, <1>2 DEF TypeOK, Failover, Goto, Stage

LEMMA GiveUpTypes ==
  ASSUME TypeOK, NEW c \in Call, GiveUp(c)
  PROVE  Routed
<1>1. CASE Failover(c) /\ caught' = [caught EXCEPT ![c] = TRUE]
  BY <1>1, FailoverTypes DEF TypeOK, Routed
<1>2. CASE Goto(c, "failed") /\ UNCHANGED <<minimum, retrying>>
  BY <1>2 DEF TypeOK, Routed, Goto, minimum, retrying, Stage
<1> QED
  BY <1>1, <1>2 DEF GiveUp

LEMMA RetryTypes ==
  ASSUME TypeOK, NEW c \in Call, Retry(c)
  PROVE  Routed /\ lock' \in [Adapter -> Call \cup {None}]
<1>1. CASE /\ attempt[c] + 1 < MaxAttempts
           /\ attempt' = [attempt EXCEPT ![c] = @ + 1]
           /\ Goto(c, "takeRead")
           /\ Acquire(c)
           /\ UNCHANGED <<minimum, caught>>
  <2>1. attempt[c] + 1 \in 0 .. MaxAttempts - 1
    BY <1>1, StoreAssumption DEF StoreAssumption, TypeOK
  <2> QED
    BY <1>1, <2>1 DEF TypeOK, Routed, Goto, minimum, Stage, Acquire
<1>2. CASE Release(c) /\ GiveUp(c)
  BY <1>2, GiveUpTypes DEF TypeOK, Release
<1> QED
  BY <1>1, <1>2 DEF Retry

\* The numbers a call asked for, up to target.
LEMMA RunTypes ==
  ASSUME NEW n \in Nat, NEW t \in Nat, n <= t
  PROVE  t - n + 1 .. t \in SUBSET Nat
OBVIOUS

LEMMA MinDoneTypes ==
  ASSUME Types, NEW c \in Call, pc[c] \in Raising, MinDone(c)
  PROVE  /\ pc' \in [Call -> Stage] /\ lock' \in [Adapter -> Call \cup {None}]
         /\ result' \in [Call -> SUBSET Nat]
<1>1. persisting[c] => target[c] - count[c] + 1 .. target[c] \in SUBSET Nat
  BY RunTypes DEF Types, TypeOK, Known
<1>2. CASE /\ persisting[c]
           /\ result' = [result EXCEPT ![c] = target[c] - count[c] + 1 .. target[c]]
           /\ Goto(c, "returned")
  <2>1. PICK run \in SUBSET Nat : result' = [result EXCEPT ![c] = run]
    BY <1>1, <1>2
  <2>2. result' \in [Call -> SUBSET Nat]
    BY <2>1 DEF Types, TypeOK
  <2> QED
    BY <1>2, <2>2 DEF MinDone, Types, TypeOK, Goto, Stage, Release
<1>3. CASE Goto(c, "takeRead") /\ UNCHANGED result
  BY <1>3 DEF MinDone, Types, TypeOK, Goto, Stage, Release
<1> QED
  BY <1>2, <1>3 DEF MinDone


LEMMA BeginTypes ==
  ASSUME Types, NEW c \in Call, Begin(c)
  PROVE  Types'
<1> USE StoreAssumption DEF StoreAssumption, Goto, stores, compare, minimum, retrying, bounds
<1>1. TypeOK'
  BY DEF Types, TypeOK, Stage, Known, Raising, Begin
<1>2. \A d \in Call : Known(d)'
  BY DEF Types, TypeOK, Stage, Known, Raising, Begin
<1> QED
  BY <1>1, <1>2 DEF Types

LEMMA HealthTypes ==
  ASSUME Types, NEW c \in Call, Health(c)
  PROVE  Types'
<1> USE StoreAssumption DEF StoreAssumption, Goto, stores, compare, minimum, retrying, bounds
<1>1. TypeOK'
  BY FailoverTypes DEF Types, TypeOK, Stage, Health
<1>2. \A d \in Call : Known(d)'
  BY DEF Types, TypeOK, Stage, Known, Raising, Health, Failover
<1> QED
  BY <1>1, <1>2 DEF Types

LEMMA ReadPrimaryTypes ==
  ASSUME Types, NEW c \in Call, ReadPrimary(c)
  PROVE  Types'
<1> USE StoreAssumption DEF StoreAssumption, Goto, stores, compare, minimum, retrying, bounds
<1>1. TypeOK'
  BY DEF Types, TypeOK, Stage, Known, Raising, ReadPrimary
<1>2. \A d \in Call : Known(d)'
  BY DEF Types, TypeOK, Stage, Known, Raising, ReadPrimary
<1> QED
  BY <1>1, <1>2 DEF Types

LEMMA ReadSecondaryTypes ==
  ASSUME Types, NEW c \in Call, ReadSecondary(c)
  PROVE  Types'
<1> USE StoreAssumption DEF StoreAssumption, Goto, stores, compare, minimum, retrying, bounds
<1>1. TypeOK'
  BY DEF Types, TypeOK, Stage, Known, Raising, ReadSecondary, metaCurrent
<1>2. \A d \in Call : Known(d)'
  BY DEF Types, TypeOK, Stage, Known, Raising, ReadSecondary, metaCurrent
<1> QED
  BY <1>1, <1>2 DEF Types

LEMMA CompareTypes ==
  ASSUME Types, NEW c \in Call, Compare(c)
  PROVE  Types'
<1> USE StoreAssumption DEF StoreAssumption, Goto, stores, compare, minimum, retrying, bounds
<1>1. TypeOK'
  BY DEF Types, TypeOK, Stage, Known, Raising, Compare
<1>2. \A d \in Call : Known(d)'
  BY DEF Types, TypeOK, Stage, Known, Raising, Compare
<1> QED
  BY <1>1, <1>2 DEF Types

LEMMA RaiseReadTypes ==
  ASSUME Types, NEW c \in Call, RaiseRead(c)
  PROVE  Types'
<1> USE StoreAssumption DEF StoreAssumption, Goto, stores, compare, minimum, retrying, bounds
<1>1. TypeOK'
  BY DEF Types, TypeOK, Stage, Known, Raising, RaiseRead
<1>2. \A d \in Call : Known(d)'
  BY DEF Types, TypeOK, Stage, Known, Raising, RaiseRead
<1> QED
  BY <1>1, <1>2 DEF Types

LEMMA RaiseTypes ==
  ASSUME Types, NEW c \in Call, Raise(c)
  PROVE  Types'
<1> USE StoreAssumption DEF StoreAssumption, Goto, stores, compare, minimum, retrying, bounds
<1>1. TypeOK'
  BY DEF Types, TypeOK, Stage, Known, Raising, Raise
<1>2. \A d \in Call : Known(d)'
  BY DEF Types, TypeOK, Stage, Known, Raising, Raise
<1> QED
  BY <1>1, <1>2 DEF Types

LEMMA IncrTypes ==
  ASSUME Types, NEW c \in Call, Incr(c)
  PROVE  Types'
<1> USE StoreAssumption DEF StoreAssumption, Goto, stores, compare, minimum, retrying, bounds
<1>1. TypeOK'
  BY DEF Types, TypeOK, Stage, Known, Raising, Incr
<1>2. \A d \in Call : Known(d)'
  BY DEF Types, TypeOK, Stage, Known, Raising, Incr
<1> QED
  BY <1>1, <1>2 DEF Types

LEMMA TrackTypes ==
  ASSUME Types, NEW c \in Call, Track(c)
  PROVE  Types'
<1> USE StoreAssumption DEF StoreAssumption, Goto, stores, compare, minimum, retrying, bounds
<1>1. TypeOK'
  BY DEF Types, TypeOK, Stage, Known, Raising, Track
<1>2. \A d \in Call : Known(d)'
  BY DEF Types, TypeOK, Stage, Known, Raising, Track
<1> QED
  BY <1>1, <1>2 DEF Types

LEMMA PrimaryFailsTypes ==
  ASSUME Types, NEW c \in Call, PrimaryFails(c)
  PROVE  Types'
<1> USE StoreAssumption DEF StoreAssumption, Goto, stores, compare, minimum, retrying, bounds
<1>1. TypeOK'
  BY GiveUpTypes DEF Types, TypeOK, Stage, PrimaryFails, Break, Routed
<1>2. \A d \in Call : Known(d)'
  BY DEF Types, TypeOK, Stage, Known, Raising, PrimaryFails, GiveUp, Failover, Break
<1> QED
  BY <1>1, <1>2 DEF Types

LEMMA MinReadTypes ==
  ASSUME Types, NEW c \in Call, MinRead(c)
  PROVE  Types'
<1> USE StoreAssumption DEF StoreAssumption, Goto, stores, compare, minimum, retrying, bounds
<1>1. TypeOK'
  BY MinDoneTypes DEF Types, TypeOK, Stage, Raising, MinRead, Needed, Acquire
<1>2. \A d \in Call : Known(d)'
  BY DEF Types, TypeOK, Stage, Known, Raising, MinRead, MinDone, Needed, Release, Acquire
<1> QED
  BY <1>1, <1>2 DEF Types

LEMMA MinCreateTypes ==
  ASSUME Types, NEW c \in Call, MinCreate(c)
  PROVE  Types'
<1> USE StoreAssumption DEF StoreAssumption, Goto, stores, compare, minimum, retrying, bounds
<1>1. TypeOK'
  BY MinDoneTypes DEF Types, TypeOK, Stage, Raising, MinCreate, Needed, Break
<1>2. \A d \in Call : Known(d)'
  BY DEF Types, TypeOK, Stage, Known, Raising, MinCreate, MinDone, Needed, Release, Break
<1> QED
  BY <1>1, <1>2 DEF Types

LEMMA MinRereadTypes ==
  ASSUME Types, NEW c \in Call, MinReread(c)
  PROVE  Types'
<1> USE StoreAssumption DEF StoreAssumption, Goto, stores, compare, minimum, retrying, bounds
<1>1. TypeOK'
  BY MinDoneTypes DEF Types, TypeOK, Stage, Raising, MinReread, Needed, CurrentOf
<1>2. \A d \in Call : Known(d)'
  BY DEF Types, TypeOK, Stage, Known, Raising, MinReread, MinDone, Needed, Release, CurrentOf
<1> QED
  BY <1>1, <1>2 DEF Types

LEMMA MinSwapTypes ==
  ASSUME Types, NEW c \in Call, MinSwap(c)
  PROVE  Types'
<1> USE StoreAssumption DEF StoreAssumption, Goto, stores, compare, minimum, retrying, bounds
<1>1. TypeOK'
  BY MinDoneTypes DEF Types, TypeOK, Stage, Raising, MinSwap, Needed
<1>2. \A d \in Call : Known(d)'
  BY DEF Types, TypeOK, Stage, Known, Raising, MinSwap, MinDone, Needed, Release
<1> QED
  BY <1>1, <1>2 DEF Types

LEMMA MinFailsTypes ==
  ASSUME Types, NEW c \in Call, MinFails(c)
  PROVE  Types'
<1> USE StoreAssumption DEF StoreAssumption, Goto, stores, compare, minimum, retrying, bounds
<1>1. TypeOK'
  BY GiveUpTypes DEF Types, TypeOK, Stage, MinFails, Break, Release, Routed
<1>2. \A d \in Call : Known(d)'
  BY DEF Types, TypeOK, Stage, Known, Raising, MinFails, Break, Release, GiveUp, Failover
<1> QED
  BY <1>1, <1>2 DEF Types

LEMMA TakeReadTypes ==
  ASSUME Types, NEW c \in Call, TakeRead(c)
  PROVE  Types'
<1> USE StoreAssumption DEF StoreAssumption, Goto, stores, compare, minimum, retrying, bounds
<1>1. TypeOK'
  BY DEF Types, TypeOK, Stage, Known, Raising, TakeRead, Acquire
<1>2. \A d \in Call : Known(d)'
  BY DEF Types, TypeOK, Stage, Known, Raising, TakeRead, Acquire
<1> QED
  BY <1>1, <1>2 DEF Types

LEMMA TakeWriteTypes ==
  ASSUME Types, NEW c \in Call, TakeWrite(c)
  PROVE  Types'
<1> USE DEF Goto, stores, compare, minimum, retrying, bounds
<1>1. CASE /\ metaNext' = First(c) + count[c]
           /\ result' = [result EXCEPT ![c] = First(c) .. First(c) + count[c] - 1]
           /\ Goto(c, "returned")
           /\ Release(c)
           /\ UNCHANGED <<minimum, retrying>>
  <2>1. First(c) \in Nat /\ count[c] \in Nat
    BY DEF Types, TypeOK, First, CurrentOf
  <2>2. First(c) .. First(c) + count[c] - 1 \in SUBSET Nat
    BY <2>1
  <2>3. PICK run \in SUBSET Nat : result' = [result EXCEPT ![c] = run]
    BY <1>1, <2>2
  <2>4. result' \in [Call -> SUBSET Nat] /\ metaNext' \in Nat
    BY <1>1, <2>1, <2>3 DEF Types, TypeOK
  <2>5. TypeOK'
    BY <1>1, <2>4 DEF Types, TypeOK, Stage, TakeWrite, Release
  <2>6. \A d \in Call : Known(d)'
    BY <1>1 DEF Types, TypeOK, Stage, Known, Raising, TakeWrite
  <2> QED
    BY <2>5, <2>6 DEF Types
<1>2. CASE Retry(c) /\ UNCHANGED <<metaNext, result>>
  <2>1. TypeOK'
    BY <1>2, RetryTypes DEF Types, TypeOK, TakeWrite, Routed
  <2>2. pc[c] = "takeWrite"
    BY DEF TakeWrite
  <2>3. \A d \in Call : Known(d)'
    BY <1>2, <2>2 DEF Types, TypeOK, Stage, Known, Raising, TakeWrite, Retry, GiveUp, Failover
  <2> QED
    BY <2>1, <2>3 DEF Types
<1> QED
  BY <1>1, <1>2 DEF TakeWrite

LEMMA TakeFailsTypes ==
  ASSUME Types, NEW c \in Call, TakeFails(c)
  PROVE  Types'
<1> USE StoreAssumption DEF StoreAssumption, Goto, stores, compare, minimum, retrying, bounds
<1>1. TypeOK'
  BY RetryTypes DEF Types, TypeOK, Stage, TakeFails, Break, First, CurrentOf, Routed
<1>2. \A d \in Call : Known(d)'
  BY DEF Types, TypeOK, Stage, Known, Raising, TakeFails, Break, First, CurrentOf, Release, Retry, Acquire, GiveUp, Failover
<1> QED
  BY <1>1, <1>2 DEF Types

LEMMA FlipTypes ==
  ASSUME Types, Flip
  PROVE  Types'
<1> USE StoreAssumption DEF StoreAssumption, stores, compare, minimum, retrying, bounds
<1>1. TypeOK'
  BY DEF Types, TypeOK, Flip
<1>2. \A d \in Call : Known(d)'
  BY DEF Types, Known, Flip
<1> QED
  BY <1>1, <1>2 DEF Types

LEMMA RestartTypes ==
  ASSUME Types, NEW p \in Process, Restart(p)
  PROVE  Types'
<1> USE StoreAssumption DEF StoreAssumption, stores, compare, minimum, retrying, bounds
<1>1. pc' \in [Call -> Stage]
  BY DEF Types, TypeOK, Stage, Restart
<1>2. lock' \in [Adapter -> Call \cup {None}]
  BY DEF Types, TypeOK, Restart
<1>3. TypeOK'
  BY <1>1, <1>2 DEF Types, TypeOK, Restart
<1>4. \A d \in Call : pc'[d] = pc[d] \/ (pc'[d] = "failed" /\ pc[d] # "idle")
  BY DEF Restart, InFlight, Types, TypeOK
<1>5. \A d \in Call : Known(d)'
  BY <1>4 DEF Types, Known, Restart, Raising
<1> QED
  BY <1>3, <1>5 DEF Types

LEMMA TypesInit == Init => Types
<1> SUFFICES ASSUME Init PROVE Types
  OBVIOUS
<1>1. TypeOK
  BY StoreAssumption DEF StoreAssumption, Init, TypeOK, Stage
<1>2. \A d \in Call : Known(d)
  BY DEF Init, Known, Raising
<1> QED
  BY <1>1, <1>2 DEF Types

LEMMA TypesNext == Types /\ [Next]_vars => Types'
<1> SUFFICES ASSUME Types, [Next]_vars PROVE Types'
  OBVIOUS
<1>1. ASSUME NEW c \in Call, Begin(c) \/ Step(c) \/ MinFails(c) \/ TakeFails(c)
      PROVE  Types'
  BY <1>1, BeginTypes, HealthTypes, ReadPrimaryTypes, ReadSecondaryTypes, CompareTypes,
     RaiseReadTypes, RaiseTypes, IncrTypes, TrackTypes, PrimaryFailsTypes, MinReadTypes,
     MinCreateTypes, MinRereadTypes, MinSwapTypes, MinFailsTypes, TakeReadTypes,
     TakeWriteTypes, TakeFailsTypes DEF Step
<1>2. CASE UNCHANGED vars
  BY <1>2 DEF Types, TypeOK, Known, vars, stores, compare, minimum, retrying, bounds
<1> QED
  BY <1>1, <1>2, FlipTypes, RestartTypes DEF Next

\* The two stores and every call of getNextN keep their types, in both modes and
\* for every number of processes, faults and restarts; a call that raises a store
\* knows by how much, and one that gives numbers out knows at least as many.
THEOREM StoreTypeOK == Spec => []TypeOK
<1>1. Types => TypeOK
  BY DEF Types
<1> QED
  BY <1>1, TypesInit, TypesNext, PTL DEF Spec

----------------------------------------------------------------------------
(* Callers that wait for each other, in both modes, whatever the atomic    *)
(* store's health and whichever processes restart, as long as no operation *)
(* of a store fails.                                                       *)

Alone == \A c, d \in Call : InFlight(c) /\ InFlight(d) => c = d

\* What a call saw when it began has happened.
Past == \A c \in Call : \A d \in earlier[c] : pc[d] = "returned"

\* What a call that is alone has read still holds, and the atomic store has
\* caught up with the database before it is asked for numbers.
Ready(c) ==
  /\ pc[c] \in {"idle", "health"} => primaryRead[c] = None /\ secondaryRead[c] = None
  /\ pc[c] = "compare" => /\ primaryRead[c] \in {None, atomicValue}
                          /\ secondaryRead[c] \in {None, metaCurrent}
  /\ pc[c] \in {"raiseRead", "raise"} => secondaryRead[c] = metaCurrent
  /\ pc[c] = "raise" => primaryRead[c] = atomicValue
  /\ pc[c] = "incr" => metaCurrent <= atomicValue
  /\ pc[c] = "track" \/ (pc[c] \in Raising /\ persisting[c])
       => metaCurrent + count[c] <= target[c]
  /\ pc[c] = "minCreate" => metaNext = 0
  /\ pc[c] # "minReread"
  /\ pc[c] = "minSwap" => seen[c] = metaNext

\* Numbers given out are persisted, in the order of time, and to one call each.
Persisted == \A c \in Call : pc[c] = "returned" => \A x \in result[c] : x < metaNext

InTime ==
  \A c, d \in Call :
    pc[c] = "returned" /\ d \in earlier[c] => \A x \in result[c], y \in result[d] : y < x

Given == Persisted /\ InTime /\ UniqueSeq

Sound == Given /\ \A c \in Call : Ready(c)

AloneInv == Types /\ Alone /\ Past /\ (StoresAnswer => Sound)

\* Call c goes on: the others stand still.
Goes(c) ==
  /\ InFlight(c)
  /\ \A d \in Call \ {c} :
       /\ pc'[d] = pc[d] /\ result'[d] = result[d]
       /\ primaryRead'[d] = primaryRead[d] /\ secondaryRead'[d] = secondaryRead[d]
  /\ earlier' = earlier
  /\ metaNext <= metaNext'

\* The numbers call c returns with are new and persisted.
Returns(c) ==
  pc'[c] = "returned" => \A x \in result'[c] : metaCurrent < x /\ x < metaNext'

LEMMA GoesAlone ==
  ASSUME Types, Alone, Past, NEW c \in Call, Goes(c)
  PROVE  Alone' /\ Past'
<1>1. \A d \in Call : InFlight(d)' => d = c
  BY DEF Alone, Goes, InFlight
<1>2. Past'
  BY DEF Past, Goes, InFlight, Types, TypeOK
<1> QED
  BY <1>1, <1>2 DEF Alone

LEMMA GoesGiven ==
  ASSUME Types, Types', Past, NEW c \in Call, Goes(c), Given, Returns(c)
  PROVE  Given'
<1>1. pc[c] # "returned"
  BY DEF Goes, InFlight
<1>2. metaNext \in Nat /\ metaNext' \in Nat /\ metaNext <= metaNext'
  BY DEF Types, TypeOK, Goes
<1>3. \A d \in Call : \A x \in result[d] \cup result'[d] : x \in Nat
  BY DEF Types, TypeOK
<1>4. \A d \in Call \ {c} : pc'[d] = pc[d] /\ result'[d] = result[d] /\ earlier'[d] = earlier[d]
  BY DEF Goes
<1>5. \A d \in Call \ {c} : pc[d] = "returned" => \A x \in result[d] :
        x < metaNext /\ x < metaNext' /\ x <= metaCurrent
  BY <1>2, <1>3 DEF Given, Persisted, metaCurrent
<1>6. pc'[c] = "returned" => \A d \in Call \ {c} : pc[d] = "returned" =>
        \A x \in result'[c], y \in result[d] : y < x
  BY <1>2, <1>3, <1>5 DEF Returns, metaCurrent
<1>7. Persisted'
  BY <1>4, <1>5 DEF Persisted, Returns
<1>8. InTime'
  <2> SUFFICES ASSUME NEW a \in Call, NEW d \in Call, pc'[a] = "returned", d \in earlier'[a],
                      NEW x \in result'[a], NEW y \in result'[d]
               PROVE  y < x
    BY DEF InTime
  <2>1. d \in earlier[a] /\ pc[d] = "returned" /\ d # c
    BY <1>1 DEF Goes, Past
  <2>2. CASE a = c
    BY <1>4, <1>6, <2>1, <2>2
  <2>3. CASE a # c
    BY <1>4, <2>1, <2>3 DEF Given, InTime
  <2> QED
    BY <2>2, <2>3
<1>9. UniqueSeq'
  <2> SUFFICES ASSUME NEW a \in Call, NEW b \in Call, a # b,
                      pc'[a] = "returned", pc'[b] = "returned",
                      NEW x \in result'[a], x \in result'[b]
               PROVE  FALSE
    BY DEF UniqueSeq
  <2>0. x \in Nat /\ ~(x < x)
    BY <1>3
  <2>1. CASE a = c
    BY <1>4, <1>6, <2>0, <2>1
  <2>2. CASE b = c
    BY <1>4, <1>6, <2>0, <2>2
  <2>3. CASE a # c /\ b # c
    BY <1>4, <2>3 DEF Given, UniqueSeq
  <2> QED
    BY <2>1, <2>2, <2>3
<1> QED
  BY <1>7, <1>8, <1>9 DEF Given

LEMMA GoesReady ==
  ASSUME Alone, NEW c \in Call, Goes(c), \A d \in Call : Ready(d), Ready(c)'
  PROVE  \A d \in Call : Ready(d)'
<1> SUFFICES ASSUME NEW d \in Call, d # c PROVE Ready(d)'
  OBVIOUS
<1>1. pc'[d] = pc[d] /\ pc[d] \in {"idle", "returned", "failed"}
  BY DEF Alone, Goes, InFlight
<1>2. primaryRead'[d] = primaryRead[d] /\ secondaryRead'[d] = secondaryRead[d]
  BY DEF Goes
<1>3. pc[d] = "idle" => primaryRead[d] = None /\ secondaryRead[d] = None
  BY DEF Ready
<1> QED
  BY <1>1, <1>2, <1>3 DEF Ready, Raising

LEMMA GoesSound ==
  ASSUME AloneInv, Types', NEW c \in Call, Goes(c),
         faults' = 0 => faults = 0 /\ (Sound => Returns(c) /\ Ready(c)')
  PROVE  AloneInv'
<1>1. Alone' /\ Past'
  BY GoesAlone DEF AloneInv
<1>2. ASSUME StoresAnswer' PROVE Sound'
  <2>1. faults = 0 /\ Sound /\ Returns(c) /\ Ready(c)'
    BY <1>2 DEF StoresAnswer, AloneInv
  <2>2. Given'
    BY <2>1, GoesGiven DEF AloneInv, Sound
  <2>3. \A d \in Call : Ready(d)'
    BY <2>1, GoesReady DEF AloneInv, Sound
  <2> QED
    BY <2>2, <2>3 DEF Sound
<1> QED
  BY <1>1, <1>2 DEF AloneInv

LEMMA HealthSound ==
  ASSUME AloneInv, Types', NEW c \in Call, Health(c)
  PROVE  AloneInv'
<1> USE DEF Goto, stores, compare, minimum, retrying, bounds
<1>0. Types
  BY DEF AloneInv
<1>1. Goes(c)
  BY <1>0 DEF Types, TypeOK, Goes, InFlight, Health, Failover
<1>2. faults' = 0 => faults = 0
  BY <1>0 DEF Types, TypeOK, Health, Failover
<1>3. ASSUME faults' = 0, faults = 0, Sound
      PROVE  Returns(c) /\ Ready(c)'
  <2>1. Ready(c)
    BY <1>3 DEF Sound
  <2>2. Returns(c)
    BY <1>0, <1>3, <2>1 DEF Types, TypeOK, Known, Ready, Returns, Raising, metaCurrent, Health, Failover
  <2>3. Ready(c)'
    BY <1>0, <1>3, <2>1 DEF Types, TypeOK, Known, Ready, Raising, metaCurrent, Health, Failover
  <2> QED
    BY <2>2, <2>3
<1> QED
  BY <1>1, <1>2, <1>3, GoesSound

LEMMA ReadPrimarySound ==
  ASSUME AloneInv, Types', NEW c \in Call, ReadPrimary(c)
  PROVE  AloneInv'
<1> USE DEF Goto, stores, compare, minimum, retrying, bounds
<1>0. Types
  BY DEF AloneInv
<1>1. Goes(c)
  BY <1>0 DEF Types, TypeOK, Goes, InFlight, ReadPrimary
<1>2. faults' = 0 => faults = 0
  BY <1>0 DEF Types, TypeOK, ReadPrimary
<1>3. ASSUME faults' = 0, faults = 0, Sound
      PROVE  Returns(c) /\ Ready(c)'
  <2>1. Ready(c)
    BY <1>3 DEF Sound
  <2>2. Returns(c)
    BY <1>0, <1>3, <2>1 DEF Types, TypeOK, Known, Ready, Returns, Raising, metaCurrent, ReadPrimary
  <2>3. Ready(c)'
    BY <1>0, <1>3, <2>1 DEF Types, TypeOK, Known, Ready, Raising, metaCurrent, ReadPrimary
  <2> QED
    BY <2>2, <2>3
<1> QED
  BY <1>1, <1>2, <1>3, GoesSound

LEMMA ReadSecondarySound ==
  ASSUME AloneInv, Types', NEW c \in Call, ReadSecondary(c)
  PROVE  AloneInv'
<1> USE DEF Goto, stores, compare, minimum, retrying, bounds
<1>0. Types
  BY DEF AloneInv
<1>1. Goes(c)
  BY <1>0 DEF Types, TypeOK, Goes, InFlight, ReadSecondary
<1>2. faults' = 0 => faults = 0
  BY <1>0 DEF Types, TypeOK, ReadSecondary
<1>3. ASSUME faults' = 0, faults = 0, Sound
      PROVE  Returns(c) /\ Ready(c)'
  <2>1. Ready(c)
    BY <1>3 DEF Sound
  <2>2. Returns(c)
    BY <1>0, <1>3, <2>1 DEF Types, TypeOK, Known, Ready, Returns, Raising, metaCurrent, ReadSecondary
  <2>3. Ready(c)'
    BY <1>0, <1>3, <2>1 DEF Types, TypeOK, Known, Ready, Raising, metaCurrent, ReadSecondary
  <2> QED
    BY <2>2, <2>3
<1> QED
  BY <1>1, <1>2, <1>3, GoesSound

LEMMA CompareSound ==
  ASSUME AloneInv, Types', NEW c \in Call, Compare(c)
  PROVE  AloneInv'
<1> USE DEF Goto, stores, compare, minimum, retrying, bounds
<1>0. Types
  BY DEF AloneInv
<1>1. Goes(c)
  BY <1>0 DEF Types, TypeOK, Goes, InFlight, Compare
<1>2. faults' = 0 => faults = 0
  BY <1>0 DEF Types, TypeOK, Compare
<1>3. ASSUME faults' = 0, faults = 0, Sound
      PROVE  Returns(c) /\ Ready(c)'
  <2>1. Ready(c)
    BY <1>3 DEF Sound
  <2>2. Returns(c)
    BY <1>0, <1>3, <2>1 DEF Types, TypeOK, Known, Ready, Returns, Raising, metaCurrent, Compare
  <2>3. Ready(c)'
    BY <1>0, <1>3, <2>1 DEF Types, TypeOK, Known, Ready, Raising, metaCurrent, Compare
  <2> QED
    BY <2>2, <2>3
<1> QED
  BY <1>1, <1>2, <1>3, GoesSound

LEMMA RaiseReadSound ==
  ASSUME AloneInv, Types', NEW c \in Call, RaiseRead(c)
  PROVE  AloneInv'
<1> USE DEF Goto, stores, compare, minimum, retrying, bounds
<1>0. Types
  BY DEF AloneInv
<1>1. Goes(c)
  BY <1>0 DEF Types, TypeOK, Goes, InFlight, RaiseRead
<1>2. faults' = 0 => faults = 0
  BY <1>0 DEF Types, TypeOK, RaiseRead
<1>3. ASSUME faults' = 0, faults = 0, Sound
      PROVE  Returns(c) /\ Ready(c)'
  <2>1. Ready(c)
    BY <1>3 DEF Sound
  <2>2. Returns(c)
    BY <1>0, <1>3, <2>1 DEF Types, TypeOK, Known, Ready, Returns, Raising, metaCurrent, RaiseRead
  <2>3. Ready(c)'
    BY <1>0, <1>3, <2>1 DEF Types, TypeOK, Known, Ready, Raising, metaCurrent, RaiseRead
  <2> QED
    BY <2>2, <2>3
<1> QED
  BY <1>1, <1>2, <1>3, GoesSound

LEMMA RaiseSound ==
  ASSUME AloneInv, Types', NEW c \in Call, Raise(c)
  PROVE  AloneInv'
<1> USE DEF Goto, stores, compare, minimum, retrying, bounds
<1>0. Types
  BY DEF AloneInv
<1>1. Goes(c)
  BY <1>0 DEF Types, TypeOK, Goes, InFlight, Raise
<1>2. faults' = 0 => faults = 0
  BY <1>0 DEF Types, TypeOK, Raise
<1>3. ASSUME faults' = 0, faults = 0, Sound
      PROVE  Returns(c) /\ Ready(c)'
  <2>1. Ready(c)
    BY <1>3 DEF Sound
  <2>2. Returns(c)
    BY <1>0, <1>3, <2>1 DEF Types, TypeOK, Known, Ready, Returns, Raising, metaCurrent, Raise
  <2>3. Ready(c)'
    BY <1>0, <1>3, <2>1 DEF Types, TypeOK, Known, Ready, Raising, metaCurrent, Raise
  <2> QED
    BY <2>2, <2>3
<1> QED
  BY <1>1, <1>2, <1>3, GoesSound

LEMMA IncrSound ==
  ASSUME AloneInv, Types', NEW c \in Call, Incr(c)
  PROVE  AloneInv'
<1> USE DEF Goto, stores, compare, minimum, retrying, bounds
<1>0. Types
  BY DEF AloneInv
<1>1. Goes(c)
  BY <1>0 DEF Types, TypeOK, Goes, InFlight, Incr
<1>2. faults' = 0 => faults = 0
  BY <1>0 DEF Types, TypeOK, Incr
<1>3. ASSUME faults' = 0, faults = 0, Sound
      PROVE  Returns(c) /\ Ready(c)'
  <2>1. Ready(c)
    BY <1>3 DEF Sound
  <2>2. Returns(c)
    BY <1>0, <1>3, <2>1 DEF Types, TypeOK, Known, Ready, Returns, Raising, metaCurrent, Incr
  <2>3. Ready(c)'
    BY <1>0, <1>3, <2>1 DEF Types, TypeOK, Known, Ready, Raising, metaCurrent, Incr
  <2> QED
    BY <2>2, <2>3
<1> QED
  BY <1>1, <1>2, <1>3, GoesSound

LEMMA TrackSound ==
  ASSUME AloneInv, Types', NEW c \in Call, Track(c)
  PROVE  AloneInv'
<1> USE DEF Goto, stores, compare, minimum, retrying, bounds
<1>0. Types
  BY DEF AloneInv
<1>1. Goes(c)
  BY <1>0 DEF Types, TypeOK, Goes, InFlight, Track
<1>2. faults' = 0 => faults = 0
  BY <1>0 DEF Types, TypeOK, Track
<1>3. ASSUME faults' = 0, faults = 0, Sound
      PROVE  Returns(c) /\ Ready(c)'
  <2>1. Ready(c)
    BY <1>3 DEF Sound
  <2>2. Returns(c)
    BY <1>0, <1>3, <2>1 DEF Types, TypeOK, Known, Ready, Returns, Raising, metaCurrent, Track
  <2>3. Ready(c)'
    BY <1>0, <1>3, <2>1 DEF Types, TypeOK, Known, Ready, Raising, metaCurrent, Track
  <2> QED
    BY <2>2, <2>3
<1> QED
  BY <1>1, <1>2, <1>3, GoesSound

LEMMA PrimaryFailsSound ==
  ASSUME AloneInv, Types', NEW c \in Call, PrimaryFails(c)
  PROVE  AloneInv'
<1> USE DEF Goto, stores, compare, minimum, retrying, bounds
<1>0. Types
  BY DEF AloneInv
<1>1. Goes(c)
  BY <1>0 DEF Types, TypeOK, Goes, InFlight, PrimaryFails, Break, GiveUp, Failover
<1>2. faults' = 0 => faults = 0
  BY <1>0 DEF Types, TypeOK, PrimaryFails, Break, GiveUp, Failover
<1>3. ASSUME faults' = 0, faults = 0, Sound
      PROVE  Returns(c) /\ Ready(c)'
  <2>1. Ready(c)
    BY <1>3 DEF Sound
  <2>2. Returns(c)
    BY <1>0, <1>3, <2>1 DEF Types, TypeOK, Known, Ready, Returns, Raising, metaCurrent, PrimaryFails, Break, GiveUp, Failover
  <2>3. Ready(c)'
    BY <1>0, <1>3, <2>1 DEF Types, TypeOK, Known, Ready, Raising, metaCurrent, PrimaryFails, Break, GiveUp, Failover
  <2> QED
    BY <2>2, <2>3
<1> QED
  BY <1>1, <1>2, <1>3, GoesSound

LEMMA MinReadSound ==
  ASSUME AloneInv, Types', NEW c \in Call, MinRead(c)
  PROVE  AloneInv'
<1> USE DEF Goto, stores, compare, minimum, retrying, bounds
<1>0. Types
  BY DEF AloneInv
<1>1. Goes(c)
  BY <1>0 DEF Types, TypeOK, Goes, InFlight, MinRead, MinDone, Needed
<1>2. faults' = 0 => faults = 0
  BY <1>0 DEF Types, TypeOK, MinRead, MinDone, Needed
<1>3. ASSUME faults' = 0, faults = 0, Sound
      PROVE  Returns(c) /\ Ready(c)'
  <2>1. Ready(c)
    BY <1>3 DEF Sound
  <2>2. Returns(c)
    BY <1>0, <1>3, <2>1 DEF Types, TypeOK, Known, Ready, Returns, Raising, metaCurrent, MinRead, MinDone, Needed
  <2>3. Ready(c)'
    BY <1>0, <1>3, <2>1 DEF Types, TypeOK, Known, Ready, Raising, metaCurrent, MinRead, MinDone, Needed
  <2> QED
    BY <2>2, <2>3
<1> QED
  BY <1>1, <1>2, <1>3, GoesSound

LEMMA MinCreateSound ==
  ASSUME AloneInv, Types', NEW c \in Call, MinCreate(c)
  PROVE  AloneInv'
<1> USE DEF Goto, stores, compare, minimum, retrying, bounds
<1>0. Types
  BY DEF AloneInv
<1>1. Goes(c)
  BY <1>0 DEF Types, TypeOK, Goes, InFlight, MinCreate, MinDone, Needed, Break
<1>2. faults' = 0 => faults = 0
  BY <1>0 DEF Types, TypeOK, MinCreate, MinDone, Needed, Break
<1>3. ASSUME faults' = 0, faults = 0, Sound
      PROVE  Returns(c) /\ Ready(c)'
  <2>1. Ready(c)
    BY <1>3 DEF Sound
  <2>2. Returns(c)
    BY <1>0, <1>3, <2>1 DEF Types, TypeOK, Known, Ready, Returns, Raising, metaCurrent, MinCreate, MinDone, Needed, Break
  <2>3. Ready(c)'
    BY <1>0, <1>3, <2>1 DEF Types, TypeOK, Known, Ready, Raising, metaCurrent, MinCreate, MinDone, Needed, Break
  <2> QED
    BY <2>2, <2>3
<1> QED
  BY <1>1, <1>2, <1>3, GoesSound

LEMMA MinRereadSound ==
  ASSUME AloneInv, Types', NEW c \in Call, MinReread(c)
  PROVE  AloneInv'
<1> USE DEF Goto, stores, compare, minimum, retrying, bounds
<1>0. Types
  BY DEF AloneInv
<1>1. Goes(c)
  BY <1>0 DEF Types, TypeOK, Goes, InFlight, MinReread, MinDone, Needed
<1>2. faults' = 0 => faults = 0
  BY <1>0 DEF Types, TypeOK, MinReread, MinDone, Needed
<1>3. ASSUME faults' = 0, faults = 0, Sound
      PROVE  Returns(c) /\ Ready(c)'
  <2>1. Ready(c)
    BY <1>3 DEF Sound
  <2>2. Returns(c)
    BY <1>0, <1>3, <2>1 DEF Types, TypeOK, Known, Ready, Returns, Raising, metaCurrent, MinReread, MinDone, Needed
  <2>3. Ready(c)'
    BY <1>0, <1>3, <2>1 DEF Types, TypeOK, Known, Ready, Raising, metaCurrent, MinReread, MinDone, Needed
  <2> QED
    BY <2>2, <2>3
<1> QED
  BY <1>1, <1>2, <1>3, GoesSound

LEMMA MinSwapSound ==
  ASSUME AloneInv, Types', NEW c \in Call, MinSwap(c)
  PROVE  AloneInv'
<1> USE DEF Goto, stores, compare, minimum, retrying, bounds
<1>0. Types
  BY DEF AloneInv
<1>1. Goes(c)
  BY <1>0 DEF Types, TypeOK, Known, Goes, InFlight, MinSwap, MinDone, Needed
<1>2. faults' = 0 => faults = 0
  BY <1>0 DEF Types, TypeOK, MinSwap, MinDone, Needed
<1>3. ASSUME faults' = 0, faults = 0, Sound
      PROVE  Returns(c) /\ Ready(c)'
  <2>1. Ready(c)
    BY <1>3 DEF Sound
  <2>2. Returns(c)
    BY <1>0, <1>3, <2>1 DEF Types, TypeOK, Known, Ready, Returns, Raising, metaCurrent, MinSwap, MinDone, Needed
  <2>3. Ready(c)'
    BY <1>0, <1>3, <2>1 DEF Types, TypeOK, Known, Ready, Raising, metaCurrent, MinSwap, MinDone, Needed
  <2> QED
    BY <2>2, <2>3
<1> QED
  BY <1>1, <1>2, <1>3, GoesSound

LEMMA MinFailsSound ==
  ASSUME AloneInv, Types', NEW c \in Call, MinFails(c)
  PROVE  AloneInv'
<1> USE DEF Goto, stores, compare, minimum, retrying, bounds
<1>0. Types
  BY DEF AloneInv
<1>1. Goes(c)
  BY <1>0 DEF Types, TypeOK, Goes, InFlight, MinFails, Break, GiveUp, Failover
<1>2. faults' = 0 => faults = 0
  BY <1>0 DEF Types, TypeOK, MinFails, Break, GiveUp, Failover
<1>3. ASSUME faults' = 0, faults = 0, Sound
      PROVE  Returns(c) /\ Ready(c)'
  <2>1. Ready(c)
    BY <1>3 DEF Sound
  <2>2. Returns(c)
    BY <1>0, <1>3, <2>1 DEF Types, TypeOK, Known, Ready, Returns, Raising, metaCurrent, MinFails, Break, GiveUp, Failover
  <2>3. Ready(c)'
    BY <1>0, <1>3, <2>1 DEF Types, TypeOK, Known, Ready, Raising, metaCurrent, MinFails, Break, GiveUp, Failover
  <2> QED
    BY <2>2, <2>3
<1> QED
  BY <1>1, <1>2, <1>3, GoesSound

LEMMA TakeReadSound ==
  ASSUME AloneInv, Types', NEW c \in Call, TakeRead(c)
  PROVE  AloneInv'
<1> USE DEF Goto, stores, compare, minimum, retrying, bounds
<1>0. Types
  BY DEF AloneInv
<1>1. Goes(c)
  BY <1>0 DEF Types, TypeOK, Goes, InFlight, TakeRead
<1>2. faults' = 0 => faults = 0
  BY <1>0 DEF Types, TypeOK, TakeRead
<1>3. ASSUME faults' = 0, faults = 0, Sound
      PROVE  Returns(c) /\ Ready(c)'
  <2>1. Ready(c)
    BY <1>3 DEF Sound
  <2>2. Returns(c)
    BY <1>0, <1>3, <2>1 DEF Types, TypeOK, Known, Ready, Returns, Raising, metaCurrent, TakeRead
  <2>3. Ready(c)'
    BY <1>0, <1>3, <2>1 DEF Types, TypeOK, Known, Ready, Raising, metaCurrent, TakeRead
  <2> QED
    BY <2>2, <2>3
<1> QED
  BY <1>1, <1>2, <1>3, GoesSound

LEMMA TakeWriteSound ==
  ASSUME AloneInv, Types', NEW c \in Call, TakeWrite(c)
  PROVE  AloneInv'
<1> USE DEF Goto, stores, compare, minimum, retrying, bounds
<1>0. Types /\ pc[c] = "takeWrite"
  BY DEF AloneInv, TakeWrite
<1>2. faults' = 0 => faults = 0
  BY DEF TakeWrite
<1>3. CASE /\ metaNext = seen[c]
           /\ metaNext' = First(c) + count[c]
           /\ result' = [result EXCEPT ![c] = First(c) .. First(c) + count[c] - 1]
           /\ pc' = [pc EXCEPT ![c] = "returned"]
  <2>1. /\ First(c) \in Nat /\ count[c] \in Nat /\ metaNext \in Nat
        /\ metaNext <= First(c) /\ metaCurrent < First(c) /\ metaCurrent \in Nat
    <3>1. metaNext \in Nat /\ count[c] \in Nat /\ First(c) = CurrentOf(metaNext)
      BY <1>0, <1>3 DEF Types, TypeOK, First
    <3>2. CASE metaNext = 0
      BY <3>1, <3>2 DEF CurrentOf, metaCurrent
    <3>3. CASE metaNext # 0
      BY <3>1, <3>3 DEF CurrentOf, metaCurrent
    <3> QED
      BY <3>2, <3>3
  <2>2. metaNext <= metaNext'
    BY <1>3, <2>1
  <2>3. pc'[c] = "returned" /\ \A d \in Call \ {c} : pc'[d] = pc[d] /\ result'[d] = result[d]
    BY <1>0, <1>3 DEF Types, TypeOK
  <2>4. Goes(c)
    BY <1>0, <2>2, <2>3 DEF Goes, InFlight, TakeWrite
  <2>5. \A x \in First(c) .. First(c) + count[c] - 1 : metaCurrent < x /\ x < metaNext'
    BY <1>3, <2>1
  <2>6. result'[c] = First(c) .. First(c) + count[c] - 1
    BY <1>0, <1>3 DEF Types, TypeOK
  <2>7. Returns(c)
    BY <2>5, <2>6 DEF Returns
  <2>8. Ready(c)'
    BY <2>3 DEF Ready, Raising
  <2> QED
    BY <1>2, <2>4, <2>7, <2>8, GoesSound
<1>4. CASE Retry(c) /\ UNCHANGED <<metaNext, result>>
  <2>1. PICK s \in {"takeRead", "minRead", "failed"} : pc' = [pc EXCEPT ![c] = s]
    BY <1>4 DEF Retry, GiveUp, Failover
  <2>2. pc'[c] = s /\ \A d \in Call \ {c} : pc'[d] = pc[d]
    BY <1>0, <2>1 DEF Types, TypeOK
  <2>3. Goes(c)
    BY <1>0, <1>4, <2>2 DEF Goes, InFlight, TakeWrite, Types, TypeOK
  <2>4. s = "minRead" => ~persisting'[c]
    BY <1>0, <1>4, <2>2 DEF Retry, GiveUp, Failover, Types, TypeOK
  <2>5. Returns(c) /\ Ready(c)'
    BY <2>2, <2>4 DEF Returns, Ready, Raising
  <2> QED
    BY <1>2, <2>3, <2>5, GoesSound
<1> QED
  BY <1>3, <1>4 DEF TakeWrite

LEMMA TakeFailsSound ==
  ASSUME AloneInv, Types', NEW c \in Call, TakeFails(c)
  PROVE  AloneInv'
<1> USE DEF Goto, stores, compare, minimum, retrying, bounds
<1>0. Types
  BY DEF AloneInv
<1>1. Goes(c)
  BY <1>0 DEF Types, TypeOK, Goes, InFlight, TakeFails, Break, First, CurrentOf, Retry, GiveUp, Failover
<1>2. faults' = 0 => faults = 0
  BY <1>0 DEF Types, TypeOK, TakeFails, Break, First, CurrentOf, Retry, GiveUp, Failover
<1>3. ASSUME faults' = 0, faults = 0, Sound
      PROVE  Returns(c) /\ Ready(c)'
  <2>1. Ready(c)
    BY <1>3 DEF Sound
  <2>2. Returns(c)
    BY <1>0, <1>3, <2>1 DEF Types, TypeOK, Known, Ready, Returns, Raising, metaCurrent, TakeFails, Break, First, CurrentOf, Retry, GiveUp, Failover
  <2>3. Ready(c)'
    BY <1>0, <1>3, <2>1 DEF Types, TypeOK, Known, Ready, Raising, metaCurrent, TakeFails, Break, First, CurrentOf, Retry, GiveUp, Failover
  <2> QED
    BY <2>2, <2>3
<1> QED
  BY <1>1, <1>2, <1>3, GoesSound

\* A call begins: no other is in flight.
LEMMA BeginSound ==
  ASSUME AloneInv, Types', OneAtATime, NEW c \in Call, Begin(c)
  PROVE  AloneInv'
<1>0. Types
  BY DEF AloneInv
<1>1. /\ \A d \in Call : ~InFlight(d)
      /\ pc[c] = "idle" /\ pc'[c] \in {"takeRead", "health"}
      /\ \A d \in Call \ {c} : pc'[d] = pc[d] /\ earlier'[d] = earlier[d]
      /\ earlier'[c] = {d \in Call : pc[d] = "returned"}
  BY <1>0 DEF Begin, Goto, Types, TypeOK
<1>2. UNCHANGED <<atomicValue, metaNext, primaryRead, secondaryRead, result, faults>>
  BY DEF Begin, stores, compare, bounds
<1>3. Alone'
  BY <1>1 DEF Alone, InFlight
<1>4. Past'
  BY <1>0, <1>1 DEF AloneInv, Past, Types, TypeOK
<1>5. ASSUME StoresAnswer' PROVE Sound'
  <2>1. Sound
    BY <1>2, <1>5 DEF StoresAnswer, AloneInv
  <2>2. Given'
    BY <1>1, <1>2, <2>1 DEF Sound, Given, Persisted, InTime, UniqueSeq
  <2>3. \A d \in Call : Ready(d)'
    BY <1>1, <1>2, <2>1 DEF Sound, Ready, Raising, InFlight, metaCurrent
  <2> QED
    BY <2>2, <2>3 DEF Sound
<1> QED
  BY <1>3, <1>4, <1>5 DEF AloneInv

\* The environment and stuttering: calls end, or nothing of theirs changes.
LEMMA EndsSound ==
  ASSUME AloneInv, Types',
         \A d \in Call : pc'[d] = pc[d] \/ (InFlight(d) /\ pc'[d] = "failed"),
         UNCHANGED <<atomicValue, metaNext, count, primaryRead, secondaryRead, seen, target,
                     persisting, result, faults, earlier>>
  PROVE  AloneInv'
<1>0. Types
  BY DEF AloneInv
<1>1. Alone'
  BY DEF AloneInv, Alone, InFlight
<1>2. Past'
  BY <1>0 DEF AloneInv, Past, InFlight, Types, TypeOK
<1>3. ASSUME StoresAnswer' PROVE Sound'
  <2>1. Sound
    BY <1>3 DEF StoresAnswer, AloneInv
  <2>2. Given'
    BY <1>0, <2>1 DEF Sound, Given, Persisted, InTime, UniqueSeq, InFlight, Types, TypeOK
  <2>3. \A d \in Call : Ready(d)'
    BY <2>1 DEF Sound, Ready, Raising, metaCurrent
  <2> QED
    BY <2>2, <2>3 DEF Sound
<1> QED
  BY <1>1, <1>2, <1>3 DEF AloneInv

LEMMA AloneInit == Init => AloneInv
<1> SUFFICES ASSUME Init PROVE AloneInv
  OBVIOUS
<1>1. Types
  BY TypesInit
<1>2. Alone /\ Past /\ Given
  BY DEF Init, Alone, InFlight, Past, Given, Persisted, InTime, UniqueSeq
<1>3. \A c \in Call : Ready(c)
  BY DEF Init, Ready, Raising
<1> QED
  BY <1>1, <1>2, <1>3 DEF AloneInv, Sound

LEMMA AloneNext ==
  ASSUME OneAtATime, AloneInv, [Next]_vars
  PROVE  AloneInv'
<1>0. Types /\ Types'
  BY TypesNext DEF AloneInv
<1>1. ASSUME NEW c \in Call, Begin(c)
      PROVE  AloneInv'
  BY <1>0, <1>1, BeginSound
<1>2. ASSUME NEW c \in Call, Step(c) \/ MinFails(c) \/ TakeFails(c)
      PROVE  AloneInv'
  BY <1>0, <1>2, HealthSound, ReadPrimarySound, ReadSecondarySound, CompareSound,
     RaiseReadSound, RaiseSound, IncrSound, TrackSound, PrimaryFailsSound, MinReadSound,
     MinCreateSound, MinRereadSound, MinSwapSound, MinFailsSound, TakeReadSound,
     TakeWriteSound, TakeFailsSound DEF Step
<1>3. CASE Flip
  BY <1>0, <1>3, EndsSound DEF Flip, compare, minimum
<1>4. ASSUME NEW p \in Process, Restart(p)
      PROVE  AloneInv'
  <2>1. \A d \in Call : pc'[d] = pc[d] \/ (InFlight(d) /\ pc'[d] = "failed")
    BY <1>4 DEF Restart
  <2> QED
    BY <1>0, <1>4, <2>1, EndsSound DEF Restart, stores, compare, minimum
<1>5. CASE UNCHANGED vars
  BY <1>0, <1>5, EndsSound DEF vars, stores, compare, minimum, bounds
<1> QED
  BY <1>1, <1>2, <1>3, <1>4, <1>5 DEF Next

\* Callers that wait for each other get numbers that rise with time, also when the
\* atomic store goes away and comes back and processes restart, for every number
\* of them: getNextN first brings the atomic store up to the database
\* (syncPrimaryIfBehindSecondary), and the database up to what it knows.
THEOREM NumbersFollowTimeTheorem ==
  ASSUME OneAtATime PROVE Spec => []NumbersFollowTime
<1>1. AloneInv => NumbersFollowTime
  BY DEF AloneInv, Sound, Given, InTime, NumbersFollowTime
<1> QED
  BY <1>1, AloneInit, AloneNext, PTL DEF Spec

\* Under the same conditions every number returned is below the next number of
\* the database (persistPrimaryHighWater): its compare-and-swap, which is not
\* repeated when it loses, does not lose.
THEOREM HighWaterTheorem ==
  ASSUME OneAtATime PROVE Spec => []HighWaterPersisted
<1>1. AloneInv => HighWaterPersisted
  BY DEF AloneInv, Sound, Given, Persisted, HighWaterPersisted
<1> QED
  BY <1>1, AloneInit, AloneNext, PTL DEF Spec

\* Under the same conditions the chained store gives no number twice: with
\* callers that overlap it may (a run shows it).
THEOREM UniqueInTurn ==
  ASSUME OneAtATime PROVE Spec => [](StoresAnswer => UniqueSeq)
<1>1. AloneInv => (StoresAnswer => UniqueSeq)
  BY DEF AloneInv, Sound, Given
<1> QED
  BY <1>1, AloneInit, AloneNext, PTL DEF Spec
=============================================================================
