--------------------------- MODULE PushLoop_proofs ---------------------------
(***************************************************************************)
(* Proofs about the push loop of the sync engine, for every number of      *)
(* writes, starts, stops, refused pushes and storage errors.               *)
(***************************************************************************)
EXTENDS PushLoop, FiniteSetTheorems, WellFoundedInduction, TLAPS

----------------------------------------------------------------------------
(* The inductive invariants. *)

\* The bounds count what they bound; a start saw a generation there has been.
LifeType ==
  /\ interval \in Intervals
  /\ started \in BOOLEAN /\ generation = stops
  /\ starts \in 0 .. MaxStarts /\ stops \in 0 .. MaxStops
  /\ starting \subseteq (1 .. MaxStarts) \X (0 .. generation)

NetType ==
  /\ browser \in BOOLEAN /\ listening \in BOOLEAN
  /\ isOnline \in BOOLEAN /\ paused \in BOOLEAN

TimerType ==
  /\ timer \in {"none", "interval", "timeout", "fired"}
  /\ stray \in [{"interval", "timeout"} -> Nat]
  /\ backoff \in BOOLEAN

LogType ==
  /\ last \in 0 .. MaxWrites /\ acked \in 0 .. last
  /\ settled \subseteq 1 .. last
  /\ uploading \in 0 .. last \cup {None}

PushType ==
  /\ soon \in 0 .. MaxSoon
  /\ pc \in {"idle", "list", "push", "ack", "cursors"}
  /\ batch \subseteq 1 .. last /\ Cardinality(batch) <= Batch
  /\ through \in 0 .. last
  /\ more \in BOOLEAN /\ rerun \in BOOLEAN
  /\ rerun => pc # "idle"

CountType ==
  /\ flips \in Nat /\ faults \in Nat /\ io \in Nat /\ cloneUps \in Nat

TypeInv == LifeType /\ NetType /\ TimerType /\ LogType /\ PushType /\ CountType

\* A batch begins behind what is acknowledged and has no gaps; what is about to
\* be acknowledged is settled.
AckInv ==
  cloneUps = 0 =>
    /\ 1 .. acked \subseteq settled
    /\ uploading = None
    /\ pc = "push" => \A n \in 1 .. last, b \in batch : acked < n /\ n <= b => n \in batch
    /\ pc = "ack" => 1 .. through \subseteq settled

\* A call of start that will go on when its initial sync is over.
Newest(c) == c[2] = generation

\* Undisturbed, there is an interval or a start that will set one, not both;
\* neither when the client is stopped.
TimerInv ==
  Undisturbed =>
    /\ stray["interval"] = 0 /\ stray["timeout"] = 0
    /\ backoff = FALSE /\ paused = FALSE
    /\ timer \in {"none", "interval"}
    /\ ~started => timer = "none"
    /\ ~started \/ timer = "interval" => \A c \in starting : ~Newest(c)
    /\ \A c, d \in starting : Newest(c) /\ Newest(d) => c = d

----------------------------------------------------------------------------
(* Numbers. *)

\* A nonempty set of naturals has a least element.
LEMMA Least ==
  ASSUME NEW S, S \subseteq Nat, S # {}
  PROVE  \E x \in S : \A y \in S : x <= y
<1>1. \E x \in S : \A y \in S : ~ (<<y, x>> \in OpToRel(<, Nat))
  BY NatLessThanWellFounded, WFMin
<1>2. ASSUME NEW x \in S, NEW y \in S, ~ (<<y, x>> \in OpToRel(<, Nat))
      PROVE  x <= y
  BY <1>2 DEF OpToRel
<1> QED  BY <1>1, <1>2

\* Max is the greatest element of a nonempty set of naturals with a bound.
LEMMA MaxIsGreatest ==
  ASSUME NEW S, S \subseteq Nat, S # {}, NEW b \in Nat, \A x \in S : x <= b
  PROVE  Max(S) \in S /\ \A y \in S : y <= Max(S)
<1> DEFINE Above == {n \in Nat : \A x \in S : x <= n}
<1>1. Above \subseteq Nat /\ b \in Above
  OBVIOUS
<1>2. PICK n \in Above : \A m \in Above : n <= m
  <2> HIDE DEF Above
  <2> QED BY <1>1, Least
<1>3. n \in S
  <2> SUFFICES ASSUME n \notin S PROVE FALSE
    OBVIOUS
  <2>1. PICK x \in S : TRUE
    OBVIOUS
  <2>2. \A y \in S : y <= n - 1 /\ n - 1 \in Nat
    BY <2>1
  <2>3. n - 1 \in Above
    BY <2>1, <2>2
  <2> QED BY <1>2, <2>3
<1> QED BY <1>3 DEF Max

\* What is acknowledged after a push lies in the batch, and so does all of the
\* batch before it, among the settled entries.
LEMMA AckThroughLemma ==
  ASSUME TypeInv, NEW S, S \subseteq batch
  PROVE  /\ AckThrough(S) \in 0 .. last
         /\ AckThrough(S) > 0 =>
              /\ AckThrough(S) \in S
              /\ \A m \in batch : m <= AckThrough(S) => m \in S
<1> DEFINE X == {n \in S : \A m \in batch : m <= n => m \in S}
           M == {0} \cup X
<1>0. last \in Nat /\ S \subseteq 1 .. last
  BY PushLoopAssumption DEF TypeInv, LogType, PushType
<1>1. M \subseteq 0 .. last /\ M # {}
  <2>1. X \subseteq S
    OBVIOUS
  <2>2. 0 \in 0 .. last /\ 1 .. last \subseteq 0 .. last
    BY <1>0
  <2> QED BY <1>0, <2>1, <2>2
<1>2. Max(M) \in M
  <2> HIDE DEF M
  <2>1. M \subseteq Nat /\ \A x \in M : x <= last
    BY <1>0, <1>1
  <2> QED BY <1>0, <1>1, <2>1, MaxIsGreatest
<1>3. AckThrough(S) = Max(M)
  BY DEF AckThrough
<1>4. AckThrough(S) \in 0 .. last
  <2> HIDE DEF M
  <2> QED BY <1>1, <1>2, <1>3
<1>5. ASSUME AckThrough(S) > 0 PROVE AckThrough(S) \in X
  BY <1>2, <1>3, <1>5
<1> QED BY <1>4, <1>5

\* The next batch: at most Batch entries, from the first pending one on.
LEMMA PendingLemma ==
  ASSUME TypeInv
  PROVE  LET pending == acked + 1 .. (IF acked + Batch < last THEN acked + Batch ELSE last)
         IN /\ pending \subseteq 1 .. last /\ Cardinality(pending) <= Batch
            /\ \A n \in 1 .. last, b \in pending : acked < n /\ n <= b => n \in pending
<1> DEFINE top == IF acked + Batch < last THEN acked + Batch ELSE last
<1>1. /\ acked \in Nat /\ last \in Nat /\ acked <= last /\ Batch \in Nat \ {0}
      /\ top \in Nat /\ top <= last /\ top <= acked + Batch
  BY PushLoopAssumption DEF TypeInv, LogType
<1> HIDE DEF top
<1>2. Cardinality(acked + 1 .. top) = IF acked + 1 > top THEN 0 ELSE top - (acked + 1) + 1
  BY <1>1, FS_Interval
<1>3. Cardinality(acked + 1 .. top) <= Batch
  BY <1>1, <1>2
<1>4. /\ acked + 1 .. top \subseteq 1 .. last
      /\ \A n \in 1 .. last, b \in acked + 1 .. top : acked < n /\ n <= b => n \in acked + 1 .. top
  BY <1>1
<1> QED BY <1>3, <1>4 DEF top

----------------------------------------------------------------------------
(* Every step keeps the types. *)

LEMMA Quiet ==
  ASSUME TypeInv
  PROVE  /\ UNCHANGED lifecycle /\ UNCHANGED <<starts, stops>> => LifeType'
         /\ UNCHANGED network => NetType'
         /\ UNCHANGED timers => TimerType'
         /\ UNCHANGED <<log, settled, uploading>> => LogType'
         /\ UNCHANGED <<push, soon>> /\ last' = last => PushType'
         /\ UNCHANGED <<flips, faults, io, cloneUps>> => CountType'
<1>1. UNCHANGED lifecycle /\ UNCHANGED <<starts, stops>> => LifeType'
  BY DEF TypeInv, LifeType, lifecycle
<1>2. UNCHANGED network => NetType'
  BY DEF TypeInv, NetType, network
<1>3. UNCHANGED timers => TimerType'
  BY DEF TypeInv, TimerType, timers
<1>4. UNCHANGED <<log, settled, uploading>> => LogType'
  BY DEF TypeInv, LogType, log
<1>5. UNCHANGED <<push, soon>> /\ last' = last => PushType'
  BY DEF TypeInv, PushType, push
<1>6. UNCHANGED <<flips, faults, io, cloneUps>> => CountType'
  BY DEF TypeInv, CountType
<1> QED BY <1>1, <1>2, <1>3, <1>4, <1>5, <1>6

LEMMA QueuedLemma ==
  ASSUME TypeInv, NEW n \in Nat
  PROVE  Queued(n) \in 0 .. MaxSoon
BY PushLoopAssumption DEF Queued, TypeInv, PushType

LEMMA OverwriteLemma ==
  ASSUME TypeInv, NEW t \in {"none", "interval", "timeout", "fired"}, Overwrite(t), backoff' \in BOOLEAN
  PROVE  TimerType'
<1>1. Live(timer) => [stray EXCEPT ![timer] = @ + 1] \in [{"interval", "timeout"} -> Nat]
  BY DEF Live, TypeInv, TimerType
<1> QED BY <1>1 DEF Overwrite, TypeInv, TimerType

\* A call of processPush begins a push, or asks the one in flight to repeat.
LEMMA CalledLemma ==
  ASSUME TypeInv, Called, soon' \in 0 .. MaxSoon, last' = last
  PROVE  PushType'
<1>1. UNCHANGED <<batch, through, more>>
  BY DEF Called, push
<1>2. \/ pc' = pc /\ rerun' = rerun
      \/ pc' = pc /\ pc # "idle" /\ rerun' = TRUE
      \/ pc' = "list" /\ rerun' = rerun
  BY DEF Called, push
<1>3. pc' \in {"idle", "list", "push", "ack", "cursors"}
  BY <1>2 DEF TypeInv, PushType
<1>4. rerun' \in BOOLEAN
  BY <1>2 DEF TypeInv, PushType
<1>5. rerun' => pc' # "idle"
  BY <1>2 DEF TypeInv, PushType
<1> QED BY <1>1, <1>3, <1>4, <1>5 DEF TypeInv, PushType

\* A push that is over leaves nothing behind but the calls it queues.
LEMMA EndLemma ==
  ASSUME TypeInv, NEW n \in Nat, End(n), last' = last
  PROVE  PushType'
<1>1. last \in Nat /\ Batch \in Nat
  BY PushLoopAssumption DEF TypeInv, LogType
<1>2. soon' \in 0 .. MaxSoon
  <2>1. soon' = Queued(n) \/ soon' = Queued(n + 1)
    BY DEF End
  <2> QED BY <2>1, QueuedLemma
<1>3. batch' \subseteq 1 .. last' /\ Cardinality(batch') <= Batch
  BY <1>1, FS_EmptySet DEF End
<1>4. through' \in 0 .. last'
  BY <1>1 DEF End
<1> QED BY <1>2, <1>3, <1>4 DEF End, PushType

LEMMA FiresKeepType ==
  ASSUME TypeInv, FireInterval \/ FireTimeout \/ FireSoon
  PROVE  TypeInv'
<1>1. /\ UNCHANGED <<lifecycle, network, log, settled, uploading, bounds>> /\ Called
  BY DEF FireInterval, FireTimeout, FireSoon
<1>2. UNCHANGED <<starts, stops, flips, faults, io, cloneUps, last>> /\ UNCHANGED lifecycle
  BY <1>1 DEF bounds, log
<1>3. soon' \in 0 .. MaxSoon
  BY PushLoopAssumption DEF FireInterval, FireTimeout, FireSoon, TypeInv, PushType
<1>4. TimerType'
  <2>1. CASE FireInterval \/ FireSoon
    <3>1. UNCHANGED timers
      BY <2>1 DEF FireInterval, FireSoon
    <3> QED BY <3>1, Quiet
  <2>2. CASE FireTimeout
    BY <2>2 DEF FireTimeout, TypeInv, TimerType
  <2> QED BY <2>1, <2>2
<1>5. PushType'
  BY <1>1, <1>2, <1>3, CalledLemma
<1>6. LifeType' /\ NetType' /\ LogType' /\ CountType'
  BY <1>1, <1>2, Quiet
<1> QED BY <1>4, <1>5, <1>6 DEF TypeInv

LEMMA LifeKeepsType ==
  ASSUME TypeInv, Start \/ Stop \/ \E c \in starting : StartEnd(c) \/ StartFails(c)
  PROVE  TypeInv'
<1>1. UNCHANGED <<soon, push, log, settled, uploading>> /\ UNCHANGED last
  BY DEF Start, Stop, StartEnd, StartFails, log
<1>2. LifeType'
  <2>1. CASE Start
    <3>1. /\ starts < MaxStarts /\ starts' = starts + 1 /\ started' = TRUE
          /\ starting' = starting \cup {<<starts', generation>>}
          /\ UNCHANGED <<interval, generation, stops>>
      BY <2>1 DEF Start
    <3>2. starts' \in 1 .. MaxStarts /\ generation \in 0 .. generation
      BY <3>1, PushLoopAssumption DEF TypeInv, LifeType
    <3>3. starting' \subseteq (1 .. MaxStarts) \X (0 .. generation')
      BY <3>1, <3>2 DEF TypeInv, LifeType
    <3>4. starts' \in 0 .. MaxStarts
      BY <3>2, PushLoopAssumption
    <3>5. /\ interval' \in Intervals /\ started' \in BOOLEAN
      BY <3>1 DEF TypeInv, LifeType
    <3>6. generation' = stops' /\ stops' \in 0 .. MaxStops
      BY <3>1 DEF TypeInv, LifeType
    <3> QED BY <3>3, <3>4, <3>5, <3>6 DEF LifeType
  <2>2. CASE Stop
    <3>1. /\ stops < MaxStops /\ stops' = stops + 1 /\ started' = FALSE
          /\ generation' = generation + 1 /\ UNCHANGED <<interval, starting, starts>>
      BY <2>2 DEF Stop
    <3>2. (1 .. MaxStarts) \X (0 .. generation) \subseteq (1 .. MaxStarts) \X (0 .. generation + 1)
      BY PushLoopAssumption DEF TypeInv, LifeType
    <3>3. starting' \subseteq (1 .. MaxStarts) \X (0 .. generation')
      BY <3>1, <3>2 DEF TypeInv, LifeType
    <3>4. generation' = stops' /\ stops' \in 0 .. MaxStops
      BY <3>1, PushLoopAssumption DEF TypeInv, LifeType
    <3>5. interval' \in Intervals /\ started' \in BOOLEAN /\ starts' \in 0 .. MaxStarts
      BY <3>1 DEF TypeInv, LifeType
    <3> QED BY <3>3, <3>4, <3>5 DEF LifeType
  <2>3. CASE \E c \in starting : StartEnd(c) \/ StartFails(c)
    <3>1. /\ UNCHANGED <<interval, generation, starts, stops>> /\ starting' \subseteq starting
          /\ started' = started \/ started' = FALSE
      BY <2>3 DEF StartEnd, StartFails, bounds
    <3> QED BY <3>1 DEF TypeInv, LifeType
  <2> QED BY <2>1, <2>2, <2>3
<1>3. NetType'
  BY DEF Start, Stop, StartEnd, StartFails, TypeInv, NetType, network
<1>4. TimerType'
  <2>1. CASE UNCHANGED timers
    BY <2>1, Quiet
  <2>2. CASE Stop
    BY <2>2 DEF Stop, TypeInv, TimerType
  <2>3. ASSUME NEW c \in starting, StartEnd(c) PROVE TimerType'
    <3>1. CASE interval /\ Current(c)
      BY <2>3, <3>1, OverwriteLemma DEF StartEnd, TypeInv, TimerType
    <3>2. CASE ~(interval /\ Current(c))
      <4>1. UNCHANGED timers
        BY <2>3, <3>2 DEF StartEnd, timers
      <4> QED BY <4>1, Quiet
    <3> QED BY <3>1, <3>2
  <2> QED BY <2>1, <2>2, <2>3 DEF Start, StartFails
<1>5. CountType'
  BY DEF Start, Stop, StartEnd, StartFails, TypeInv, CountType, bounds
<1>6. LogType' /\ PushType'
  BY <1>1, Quiet
<1> QED BY <1>2, <1>3, <1>4, <1>5, <1>6 DEF TypeInv

LEMMA NetKeepsType ==
  ASSUME TypeInv, GoOffline \/ GoOnline
  PROVE  TypeInv'
<1>1. /\ UNCHANGED <<lifecycle, push, log, settled, uploading>> /\ UNCHANGED <<last, starts, stops>>
      /\ UNCHANGED <<faults, io, cloneUps, backoff>> /\ (flips' = flips \/ flips' = flips + 1)
  BY DEF GoOffline, GoOnline, bounds, log
<1>2. NetType'
  BY DEF GoOffline, GoOnline, TypeInv, NetType
<1>3. TimerType'
  <2>1. CASE Overwrite("interval")
    BY <1>1, <2>1, OverwriteLemma DEF TypeInv, TimerType
  <2>2. CASE (timer' = timer \/ timer' = "none") /\ stray' = stray
    BY <1>1, <2>2 DEF TypeInv, TimerType
  <2> QED BY <2>1, <2>2 DEF GoOffline, GoOnline
<1>4. soon' \in 0 .. MaxSoon
  <2>1. soon' = soon \/ soon' = Queued(1)
    BY DEF GoOffline, GoOnline
  <2> QED BY <2>1, QueuedLemma DEF TypeInv, PushType
<1>5. PushType'
  BY <1>1, <1>4 DEF TypeInv, PushType, push
<1>6. CountType'
  BY <1>1 DEF TypeInv, CountType
<1>7. LifeType' /\ LogType'
  BY <1>1, Quiet
<1> QED BY <1>2, <1>3, <1>5, <1>6, <1>7 DEF TypeInv

LEMMA WritesKeepType ==
  ASSUME TypeInv, Write \/ CloneUp \/ CloneUpDone
  PROVE  TypeInv'
<1>1. /\ UNCHANGED <<lifecycle, network, timers, push>>
      /\ UNCHANGED <<starts, stops, flips, faults, io>>
  BY DEF Write, CloneUp, CloneUpDone, bounds
<1>2. last \in Nat /\ acked \in 0 .. last /\ settled \subseteq 1 .. last /\ MaxWrites \in Nat
      /\ last <= MaxWrites /\ uploading \in 0 .. last \cup {None}
  BY PushLoopAssumption DEF TypeInv, LogType
<1>3. LogType' /\ last <= last' /\ last' \in Nat
  <2>1. CASE Write
    <3>1. last' = last + 1 /\ last < MaxWrites /\ UNCHANGED <<acked, settled, uploading>>
      BY <2>1 DEF Write
    <3> QED BY <1>2, <3>1 DEF LogType
  <2>2. CASE CloneUp
    BY <1>2, <2>2 DEF CloneUp, LogType, log
  <2>3. CASE CloneUpDone
    BY <1>2, <2>3 DEF CloneUpDone, LogType
  <2> QED BY <2>1, <2>2, <2>3
<1>4. PushType'
  <2>1. soon' \in 0 .. MaxSoon
    <3>1. soon' = soon \/ soon' = Queued(1)
      BY DEF Write, CloneUp, CloneUpDone
    <3> QED BY <3>1, QueuedLemma DEF TypeInv, PushType
  <2>2. batch \subseteq 1 .. last' /\ through \in 0 .. last'
    BY <1>2, <1>3 DEF TypeInv, PushType
  <2> QED BY <1>1, <2>1, <2>2 DEF TypeInv, PushType, push
<1>5. CountType'
  BY <1>1 DEF Write, CloneUp, CloneUpDone, bounds, TypeInv, CountType
<1>6. LifeType' /\ NetType' /\ TimerType'
  BY <1>1, Quiet
<1> QED BY <1>3, <1>4, <1>5, <1>6 DEF TypeInv

LEMMA PushKeepsType ==
  ASSUME TypeInv, ProcessPush \/ StorageFails
  PROVE  TypeInv'
<1>0. /\ last \in Nat /\ acked \in 0 .. last /\ through \in 0 .. last
      /\ settled \subseteq 1 .. last /\ batch \subseteq 1 .. last /\ faults \in Nat /\ io \in Nat
  BY PushLoopAssumption DEF TypeInv, LogType, PushType, CountType
<1>1. ASSUME List \/ Finish \/ StorageFails PROVE TypeInv'
  <2>1. /\ UNCHANGED <<lifecycle, network, timers, log, settled, uploading>>
        /\ UNCHANGED <<last, starts, stops, flips, faults, cloneUps>> /\ (io' = io \/ io' = io + 1)
    BY <1>1 DEF List, Finish, StorageFails, bounds, log
  <2>2. PushType'
    <3>1. CASE End(0) \/ End(1)
      BY <2>1, <3>1, EndLemma
    <3>2. CASE List /\ ~End(0)
      <4> DEFINE pending == acked + 1 .. (IF acked + Batch < last THEN acked + Batch ELSE last)
      <4>1. pc' = "push" /\ batch' = pending /\ UNCHANGED <<through, more, rerun, soon>>
        BY <3>2 DEF List
      <4>2. pending \subseteq 1 .. last /\ Cardinality(pending) <= Batch
        BY PendingLemma
      <4> HIDE DEF pending
      <4> QED BY <2>1, <4>1, <4>2 DEF TypeInv, PushType
    <3> QED BY <1>1, <3>1, <3>2 DEF Finish, StorageFails
  <2>3. CountType'
    BY <1>0, <2>1 DEF TypeInv, CountType
  <2>4. LifeType' /\ NetType' /\ TimerType' /\ LogType'
    BY <2>1, Quiet
  <2> QED BY <2>2, <2>3, <2>4 DEF TypeInv
<1>2. ASSUME NEW S \in SUBSET batch, Answered(S) PROVE TypeInv'
  <2>1. /\ UNCHANGED <<lifecycle, network, soon, batch, rerun, log, uploading>>
        /\ UNCHANGED <<last, acked, starts, stops, flips, io, cloneUps>>
        /\ settled' = settled \cup S /\ through' = AckThrough(S) /\ pc' = "ack"
        /\ more' = (S # batch \/ Cardinality(batch) = Batch)
        /\ (faults' = faults \/ faults' = faults + 1)
    BY <1>2 DEF Answered, log
  <2>2. TimerType'
    BY <1>2 DEF Answered, Reestablish, TypeInv, TimerType
  <2>3. LogType'
    BY <1>0, <2>1 DEF TypeInv, LogType
  <2>4. PushType'
    <3>1. through' \in 0 .. last
      BY <2>1, AckThroughLemma
    <3> QED BY <2>1, <3>1 DEF TypeInv, PushType
  <2>5. CountType'
    BY <1>0, <2>1 DEF TypeInv, CountType
  <2>6. LifeType' /\ NetType'
    BY <2>1, Quiet
  <2> QED BY <2>2, <2>3, <2>4, <2>5, <2>6 DEF TypeInv
<1>3. ASSUME NEW S \in SUBSET batch, NotAnswered(S) PROVE TypeInv'
  <2>1. /\ UNCHANGED <<lifecycle, network, log, uploading>>
        /\ UNCHANGED <<last, acked, starts, stops, flips, io, cloneUps>>
        /\ settled' = settled \cup S /\ faults' = faults + 1 /\ Backoff /\ End(0)
    BY <1>3 DEF NotAnswered, log
  <2>2. TimerType'
    <3>1. backoff' \in BOOLEAN
      BY <2>1 DEF Backoff, TypeInv, TimerType, LifeType
    <3>2. CASE Overwrite("timeout")
      BY <3>1, <3>2, OverwriteLemma
    <3>3. CASE timer' \in {timer, "timeout"} /\ stray' = stray
      BY <3>1, <3>3 DEF TypeInv, TimerType
    <3> QED BY <2>1, <3>2, <3>3 DEF Backoff
  <2>3. LogType'
    BY <1>0, <2>1 DEF TypeInv, LogType
  <2>4. PushType'
    BY <2>1, EndLemma
  <2>5. CountType'
    BY <1>0, <2>1 DEF TypeInv, CountType
  <2>6. LifeType' /\ NetType'
    BY <2>1, Quiet
  <2> QED BY <2>2, <2>3, <2>4, <2>5, <2>6 DEF TypeInv
<1>4. ASSUME Ack PROVE TypeInv'
  <2>1. /\ UNCHANGED <<lifecycle, network, timers, soon, batch, through, more, rerun, last,
                       settled, uploading, starts, stops, flips, faults, io, cloneUps>>
        /\ acked' = Max({acked, through}) /\ pc' = "cursors"
    BY <1>4 DEF Ack, bounds
  <2>2. acked' \in {acked, through}
    <3>1. {acked, through} \subseteq Nat /\ {acked, through} # {}
          /\ \A x \in {acked, through} : x <= last
      BY <1>0
    <3> QED BY <1>0, <2>1, <3>1, MaxIsGreatest
  <2>3. LogType'
    BY <1>0, <2>1, <2>2 DEF TypeInv, LogType
  <2>4. PushType'
    BY <2>1 DEF TypeInv, PushType
  <2>5. LifeType' /\ NetType' /\ TimerType' /\ CountType'
    BY <2>1, Quiet
  <2> QED BY <2>3, <2>4, <2>5 DEF TypeInv
<1> QED BY <1>1, <1>2, <1>3, <1>4 DEF ProcessPush, Reply

LEMMA TypeStep ==
  ASSUME TypeInv, [Next]_vars
  PROVE  TypeInv'
<1>1. CASE UNCHANGED vars
  BY <1>1, Quiet DEF vars, bounds, log, TypeInv
<1>2. CASE Next
  BY <1>2, LifeKeepsType, NetKeepsType, WritesKeepType, FiresKeepType, PushKeepsType DEF Next
<1> QED BY <1>1, <1>2

LEMMA InitType ==
  ASSUME Init
  PROVE  TypeInv
<1>1. LifeType
  <2>1. interval \in Intervals /\ started \in BOOLEAN
    BY DEF Init
  <2>2. /\ generation = stops /\ starts \in 0 .. MaxStarts /\ stops \in 0 .. MaxStops
        /\ starting \subseteq (1 .. MaxStarts) \X (0 .. generation)
    BY PushLoopAssumption DEF Init
  <2> QED BY <2>1, <2>2 DEF LifeType
<1>2. NetType
  BY PushLoopAssumption DEF Init, NetType
<1>3. TimerType
  BY DEF Init, TimerType
<1>4. LogType
  BY PushLoopAssumption DEF Init, LogType
<1>5. PushType
  <2>1. last \in Nat /\ soon \in 0 .. MaxSoon /\ through \in 0 .. last
    BY PushLoopAssumption DEF Init
  <2>2. batch \subseteq 1 .. last /\ Cardinality(batch) <= Batch
    BY PushLoopAssumption, FS_EmptySet DEF Init
  <2>3. /\ pc \in {"idle", "list", "push", "ack", "cursors"}
        /\ more \in BOOLEAN /\ rerun \in BOOLEAN /\ (rerun => pc # "idle")
    BY DEF Init
  <2> QED BY <2>1, <2>2, <2>3 DEF PushType
<1>6. CountType
  BY DEF Init, CountType
<1> QED BY <1>1, <1>2, <1>3, <1>4, <1>5, <1>6 DEF TypeInv

LEMMA TypeImplies ==
  ASSUME TypeInv
  PROVE  TypeOK
<1>1. generation \in 0 .. MaxStops /\ starting \subseteq (1 .. MaxStarts) \X (0 .. MaxStops)
  BY PushLoopAssumption DEF TypeInv, LifeType
<1> QED BY <1>1 DEF TypeInv, LifeType, NetType, TimerType, LogType, PushType, TypeOK

\* Every reachable state of the push loop is well formed: the batch and what is
\* about to be acknowledged lie in the change log, a batch is no larger than
\* pushBatchSize, and a rerun is only asked for while a push is in flight.
THEOREM PushLoopTypeOK == Spec => []TypeOK
<1>1. Init => TypeInv
  BY InitType
<1>2. TypeInv /\ [Next]_vars => TypeInv'
  BY TypeStep
<1>3. TypeInv => TypeOK
  BY TypeImplies
<1> QED BY <1>1, <1>2, <1>3, PTL DEF Spec

----------------------------------------------------------------------------
(* Nothing unsettled is acknowledged. *)

\* AckInv is kept by what leaves the log, the batch and the settled entries alone.
LEMMA AckKept ==
  ASSUME TypeInv, AckInv, settled \subseteq settled',
         UNCHANGED <<last, acked, uploading, cloneUps, pc, batch, through>>
  PROVE  AckInv'
BY DEF AckInv

LEMMA AckStep ==
  ASSUME TypeInv, AckInv, [Next]_vars
  PROVE  AckInv'
<1>0. /\ last \in Nat /\ acked \in 0 .. last /\ through \in 0 .. last
      /\ settled \subseteq 1 .. last /\ batch \subseteq 1 .. last
      /\ cloneUps \in Nat
  BY PushLoopAssumption DEF TypeInv, LogType, PushType, CountType
<1>1. CASE UNCHANGED vars
  BY <1>1, AckKept DEF vars, log, push, bounds
<1>2. CASE Start \/ Stop \/ GoOffline \/ GoOnline \/ \E c \in starting : StartEnd(c) \/ StartFails(c)
  <2>1. UNCHANGED <<push, log, settled, uploading, cloneUps>>
    BY <1>2 DEF Start, Stop, GoOffline, GoOnline, StartEnd, StartFails, bounds
  <2> QED BY <2>1, AckKept DEF log, push
<1>3. CASE FireInterval \/ FireTimeout \/ FireSoon
  <2>1. UNCHANGED <<log, settled, uploading, cloneUps, batch, through>> /\ pc' \in {pc, "list"}
    BY <1>3 DEF FireInterval, FireTimeout, FireSoon, Called, bounds, push
  <2> QED BY <2>1 DEF AckInv, log
<1>4. CASE Write
  <2>1. last' = last + 1 /\ UNCHANGED <<push, acked, settled, uploading, cloneUps>>
    BY <1>4 DEF Write, bounds
  <2>2. \A n \in 1 .. last', b \in batch : n <= b => n \in 1 .. last
    BY <1>0, <2>1
  <2> QED BY <2>1, <2>2 DEF AckInv, push
<1>5. CASE CloneUp
  BY <1>0, <1>5 DEF CloneUp, AckInv
<1>6. CASE CloneUpDone
  BY <1>6 DEF CloneUpDone, AckInv, bounds
<1>7. CASE List
  <2>1. UNCHANGED <<log, settled, uploading, cloneUps>>
    BY <1>7 DEF List, bounds
  <2>2. CASE End(0)
    BY <2>1, <2>2 DEF AckInv, log, End
  <2>3. CASE ~End(0)
    <3> DEFINE pending == acked + 1 .. (IF acked + Batch < last THEN acked + Batch ELSE last)
    <3>1. pc' = "push" /\ batch' = pending
      BY <1>7, <2>3 DEF List
    <3>2. \A n \in 1 .. last, b \in pending : acked < n /\ n <= b => n \in pending
      BY PendingLemma
    <3> HIDE DEF pending
    <3> QED BY <2>1, <3>1, <3>2 DEF AckInv, log
  <2> QED BY <2>2, <2>3
<1>8. CASE Finish \/ StorageFails
  <2>1. UNCHANGED <<log, settled, uploading, cloneUps>> /\ pc' = "idle"
    BY <1>8 DEF Finish, StorageFails, bounds, End
  <2> QED BY <2>1 DEF AckInv, log
<1>9. ASSUME NEW S \in SUBSET batch, Answered(S) PROVE AckInv'
  <2>1. /\ UNCHANGED <<log, uploading, cloneUps, batch>> /\ pc = "push" /\ pc' = "ack"
        /\ settled' = settled \cup S /\ through' = AckThrough(S) /\ AckThrough(S) > 0
    BY <1>9 DEF Answered
  <2>2. /\ AckThrough(S) \in 0 .. last /\ AckThrough(S) \in batch
        /\ \A m \in batch : m <= AckThrough(S) => m \in S
    BY <2>1, AckThroughLemma
  <2>3. ASSUME cloneUps = 0, NEW m \in 1 .. AckThrough(S) PROVE m \in settled \cup S
    <3>1. CASE m <= acked
      <4>1. m \in 1 .. acked
        BY <1>0, <2>2, <3>1
      <4> QED BY <2>3, <4>1 DEF AckInv
    <3>2. CASE acked < m
      <4>1. m \in 1 .. last /\ m <= AckThrough(S)
        BY <1>0, <2>2
      <4> QED BY <2>1, <2>2, <2>3, <3>2, <4>1 DEF AckInv
    <3> QED BY <1>0, <3>1, <3>2
  <2> HIDE DEF AckThrough
  <2> QED BY <2>1, <2>3 DEF AckInv, log
<1>10. ASSUME NEW S \in SUBSET batch, NotAnswered(S) PROVE AckInv'
  <2>1. UNCHANGED <<log, uploading, cloneUps>> /\ pc' = "idle" /\ settled' = settled \cup S
    BY <1>10 DEF NotAnswered, End
  <2> QED BY <2>1 DEF AckInv, log
<1>11. CASE Ack
  <2>1. /\ UNCHANGED <<settled, uploading, last, cloneUps>> /\ pc = "ack" /\ pc' = "cursors"
        /\ acked' = Max({acked, through})
    BY <1>11 DEF Ack, bounds
  <2>2. acked' \in {acked, through}
    <3>1. {acked, through} \subseteq Nat /\ {acked, through} # {}
          /\ \A x \in {acked, through} : x <= last
      BY <1>0
    <3> QED BY <1>0, <2>1, <3>1, MaxIsGreatest
  <2> QED BY <2>1, <2>2 DEF AckInv
<1> QED
  BY <1>1, <1>2, <1>3, <1>4, <1>5, <1>6, <1>7, <1>8, <1>9, <1>10, <1>11
  DEF Next, ProcessPush, Reply

\* Without cloneUp only entries the server has applied or rejected for good
\* leave the change log, whatever is answered in part, appended behind the
\* batch, retried or stored in vain.
THEOREM PushLoopNoUnsentAck == Spec => []NoUnsentAck
<1>1. Init => TypeInv /\ AckInv
  <2>1. Init => AckInv
    BY DEF Init, AckInv
  <2> QED BY <2>1, InitType
<1>2. TypeInv /\ AckInv /\ [Next]_vars => TypeInv' /\ AckInv'
  BY TypeStep, AckStep
<1>3. TypeInv /\ AckInv => NoUnsentAck
  BY DEF AckInv, NoUnsentAck
<1> QED BY <1>1, <1>2, <1>3, PTL DEF Spec

----------------------------------------------------------------------------
(* At most one timer pushes. *)

\* A step that leaves the client undisturbed keeps the interval single.
LEMMA TimerStep ==
  ASSUME TypeInv, TimerInv, [Next]_vars
  PROVE  TimerInv'
<1>0. /\ flips \in Nat /\ faults \in Nat /\ generation \in Nat
      /\ \A c \in starting : c[2] \in Nat /\ c[2] <= generation
  BY PushLoopAssumption DEF TypeInv, CountType, LifeType
<1>1. CASE UNCHANGED <<lifecycle, timers, flips, faults>> /\ paused' \in {paused, FALSE}
  BY <1>1 DEF TimerInv, Undisturbed, Newest, lifecycle, timers
<1>2. CASE Start
  <2>1. /\ ~started /\ started' = TRUE /\ starting' = starting \cup {<<starts', generation>>}
        /\ UNCHANGED <<generation, timer, stray, backoff, paused, flips, faults>>
    BY <1>2 DEF Start, network, timers
  <2> SUFFICES ASSUME Undisturbed' PROVE TimerInv'
    BY DEF TimerInv
  <2>2. Undisturbed
    BY <2>1 DEF Undisturbed
  <2>3. timer = "none" /\ \A c \in starting : ~Newest(c)
    BY <2>1, <2>2 DEF TimerInv
  <2>4. \A c \in starting' : Newest(c)' => c = <<starts', generation>>
    BY <2>1, <2>3 DEF Newest
  <2> QED BY <2>1, <2>2, <2>3, <2>4 DEF TimerInv
<1>3. CASE Stop
  <2>1. /\ timer' = "none" /\ generation' = generation + 1 /\ started' = FALSE
        /\ UNCHANGED <<starting, stray, backoff, paused, flips, faults>>
    BY <1>3 DEF Stop
  <2>2. \A c \in starting' : ~Newest(c)'
    BY <1>0, <2>1 DEF Newest
  <2> QED BY <2>1, <2>2 DEF TimerInv, Undisturbed
<1>4. ASSUME NEW c \in starting, StartEnd(c) PROVE TimerInv'
  <2>1. /\ starting' = starting \ {c} /\ UNCHANGED <<started, generation, flips, faults>>
        /\ UNCHANGED <<backoff, paused>>
    BY <1>4 DEF StartEnd, bounds, network, timers
  <2> SUFFICES ASSUME Undisturbed' PROVE TimerInv'
    BY DEF TimerInv
  <2>2. Undisturbed
    BY <2>1 DEF Undisturbed
  <2>3. CASE UNCHANGED <<timer, stray>>
    BY <2>1, <2>2, <2>3 DEF TimerInv, Newest
  <2>4. CASE Current(c) /\ Overwrite("interval")
    <3>1. Newest(c) /\ started
      BY <2>4 DEF Current, Newest
    <3>2. timer = "none"
      BY <2>2, <3>1 DEF TimerInv
    <3>3. timer' = "interval" /\ stray' = stray
      BY <2>4, <3>2 DEF Overwrite, Live
    <3>4. \A d \in starting' : ~Newest(d)'
      BY <2>1, <2>2, <3>1 DEF TimerInv, Newest
    <3> QED BY <2>1, <2>2, <3>1, <3>3, <3>4 DEF TimerInv
  <2> QED BY <1>4, <2>3, <2>4 DEF StartEnd, timers
<1>5. ASSUME NEW c \in starting, StartFails(c) PROVE TimerInv'
  BY <1>0, <1>5 DEF StartFails, TimerInv, Undisturbed
<1>6. CASE GoOffline
  BY <1>0, <1>6 DEF GoOffline, TimerInv, Undisturbed
<1>7. CASE GoOnline
  <2>1. UNCHANGED <<lifecycle, backoff, flips, faults>>
    BY <1>7 DEF GoOnline, bounds
  <2>2. CASE UNCHANGED <<timer, stray, paused>>
    BY <1>1, <2>1, <2>2 DEF timers
  <2>3. CASE paused
    BY <2>1, <2>3 DEF TimerInv, Undisturbed
  <2> QED BY <1>7, <2>2, <2>3 DEF GoOnline
<1>8. CASE Write \/ CloneUp \/ CloneUpDone \/ FireInterval \/ FireSoon \/ List \/ Ack \/ Finish \/ StorageFails
  <2>1. UNCHANGED <<lifecycle, network, timers, flips, faults>>
    BY <1>8 DEF Write, CloneUp, CloneUpDone, FireInterval, FireSoon, List, Ack, Finish, StorageFails, bounds
  <2> QED BY <1>1, <2>1 DEF network
<1>9. CASE FireTimeout
  <2>1. UNCHANGED <<lifecycle, network, flips, faults, backoff>>
    BY <1>9 DEF FireTimeout, bounds
  <2>2. timer = "timeout" \/ stray["timeout"] > 0
    BY <1>9 DEF FireTimeout
  <2> QED BY <2>1, <2>2 DEF TimerInv, Undisturbed
<1>10. ASSUME NEW S \in SUBSET batch, Answered(S) PROVE TimerInv'
  <2>1. /\ UNCHANGED <<lifecycle, network, flips, stray>> /\ faults' \in {faults, faults + 1}
        /\ backoff' = FALSE /\ timer' = IF backoff THEN "interval" ELSE timer
    BY <1>10 DEF Answered, Reestablish
  <2> SUFFICES ASSUME Undisturbed' PROVE TimerInv'
    BY DEF TimerInv
  <2>2. Undisturbed
    BY <1>0, <2>1 DEF Undisturbed
  <2>3. backoff = FALSE
    BY <2>2 DEF TimerInv
  <2>4. UNCHANGED <<timer, stray, backoff, paused, started, generation, starting>>
    BY <2>1, <2>3 DEF lifecycle, network
  <2> QED BY <2>2, <2>4 DEF TimerInv, Newest
<1>11. ASSUME NEW S \in SUBSET batch, NotAnswered(S) PROVE TimerInv'
  BY <1>0, <1>11 DEF NotAnswered, TimerInv, Undisturbed
<1>12. CASE UNCHANGED vars
  BY <1>1, <1>12 DEF vars, network, bounds
<1> QED
  BY <1>2, <1>3, <1>4, <1>5, <1>6, <1>7, <1>8, <1>9, <1>10, <1>11, <1>12
  DEF Next, ProcessPush, Reply

\* Whichever calls of start and stop overtake each other during the initial
\* sync, at most one timer pushes, and none once stop was called and no start
\* waits: the check of wsGeneration after the await lets only the newest start
\* go on, and it finds no timer.
THEOREM PushLoopOneTimer == Spec => []OneTimer
<1>1. Init => TypeInv /\ TimerInv
  <2>1. Init => TimerInv
    BY DEF Init, TimerInv
  <2> QED BY <2>1, InitType
<1>2. TypeInv /\ TimerInv /\ [Next]_vars => TypeInv' /\ TimerInv'
  BY TypeStep, TimerStep
<1>3. TypeInv /\ TimerInv => OneTimer
  <2> SUFFICES ASSUME TypeInv, TimerInv, Undisturbed
               PROVE  LiveCount("interval") + LiveCount("timeout") <=
                        (IF started \/ starting # {} THEN 1 ELSE 0)
    BY DEF OneTimer
  <2>1. LiveCount("interval") = (IF timer = "interval" THEN 1 ELSE 0) /\ LiveCount("timeout") = 0
    BY DEF LiveCount, TimerInv
  <2>2. timer = "interval" => started
    BY DEF TimerInv, TypeInv, LifeType
  <2>3. CASE timer = "interval"
    BY <2>1, <2>2, <2>3
  <2>4. CASE timer # "interval"
    BY <2>1, <2>4
  <2> QED BY <2>3, <2>4
<1> QED BY <1>1, <1>2, <1>3, PTL DEF Spec

=============================================================================
