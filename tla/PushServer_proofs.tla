------------------------- MODULE PushServer_proofs -------------------------
(***************************************************************************)
(* Proofs about PushServer, for any number of requests, mutations, rows,   *)
(* failures and crashes, and for adapters with and without transactions.   *)
(*                                                                         *)
(* SeqInv is the argument for the numbering: the numbers a request holds   *)
(* in its pool are its own, lie below the next number of the database and  *)
(* above every number the request has used.  RowsFollow says, for adapters *)
(* with transactions, that every row is what the last change of its key    *)
(* says, and CoverInv that the maxima a request keeps cover its changes.   *)
(***************************************************************************)
EXTENDS PushServer, TLAPS, SequenceTheorems

\* Where a request is tells what it holds.
Control ==
  \A r \in Request :
    /\ index[r] >= 1
    /\ pc[r] \in {"execute", "take", "record", "setRead", "setWrite"} => AtMutation(r)
    /\ pc[r] \in {"take", "record"} => pending[r] # <<>> /\ ~atomic
    /\ pc[r] = "record" => pool[r] # <<>>

\* The numbers reserved and those used.
ReservedBelowNext ==
  \A r \in Request : \A i \in 1 .. Len(pool[r]) : pool[r][i] < nextSeq
UsedBelowNext ==
  \A i \in 1 .. Len(changes) : changes[i].seq < nextSeq
PoolIncreasing ==
  \A r \in Request : \A i, j \in 1 .. Len(pool[r]) : i < j => pool[r][i] < pool[r][j]
PoolsDisjoint ==
  \A r, q \in Request : \A i \in 1 .. Len(pool[r]), j \in 1 .. Len(pool[q]) :
    r # q => pool[r][i] # pool[q][j]
PoolUnused ==
  \A i \in 1 .. Len(changes) : \A r \in Request : \A j \in 1 .. Len(pool[r]) :
    changes[i].seq # pool[r][j]
PoolAboveOwn ==
  \A i \in 1 .. Len(changes) : \A r \in Request : \A j \in 1 .. Len(pool[r]) :
    changes[i].req = r => changes[i].seq < pool[r][j]

SeqInv ==
  /\ nextSeq >= 1
  /\ ReservedBelowNext /\ UsedBelowNext
  /\ PoolIncreasing /\ PoolsDisjoint /\ PoolUnused /\ PoolAboveOwn
  /\ SeqUnique /\ PushOrder

----------------------------------------------------------------------------
(* The operators of the operation and of the reservation. *)

\* executeMutationOp returns one of the verdicts.
LEMMA OpResultType ==
  ASSUME NEW m \in Mutation
  PROVE  OpResult(m) \in Verdict
BY DEF OpResult, Verdict

\* An operation of executeMutationOp changes at most two rows, each of them a
\* key.
LEMMA ChangedKeysType ==
  ASSUME NEW m \in Mutation
  PROVE  /\ ChangedKeys(m) \in Seq(Key)
         /\ Len(ChangedKeys(m)) \in 0 .. 2
         /\ \A k \in PropagatedKey(m) : k = Propagated[m] /\ k \in Key
<1>1. key[m] \in Key  BY InputAssumption
<1>2. \A k \in PropagatedKey(m) : k = Propagated[m] /\ k \in Key
  BY DEF PropagatedKey
<1>3. CASE NoEffect(m)
  BY <1>2, <1>3 DEF ChangedKeys
<1>4. CASE ~NoEffect(m) /\ PropagatedKey(m) = {}
  BY <1>1, <1>2, <1>4 DEF ChangedKeys
<1>5. CASE ~NoEffect(m) /\ PropagatedKey(m) # {}
  <2>1. Propagated[m] \in Key  BY <1>2, <1>5
  <2>2. ChangedKeys(m) = <<key[m], Propagated[m]>>  BY <1>5 DEF ChangedKeys
  <2>. QED  BY <1>1, <1>2, <2>1, <2>2
<1>. QED  BY <1>3, <1>4, <1>5

\* The user tables hold mutations or nothing after an operation.
LEMMA RowsAfterType ==
  ASSUME TypeOK, NEW m \in Mutation
  PROVE  RowsAfter(m) \in [Key -> Mutation \cup {None}]
BY DEF RowsAfter, TypeOK

\* What recordChange writes is a change log entry.
LEMMA ChangeOfType ==
  ASSUME NEW r \in Request, NEW m \in Mutation, NEW k \in Key, NEW s \in Nat
  PROVE  ChangeOf(r, m, k, s) \in Entry
BY InputAssumption DEF ChangeOf, Entry, Operation

\* Where the elements of a concatenation come from.
LEMMA ConcatLemma ==
  ASSUME NEW s \in Seq(Nat), NEW t \in Seq(Nat)
  PROVE  /\ s \o t \in Seq(Nat)
         /\ Len(s \o t) = Len(s) + Len(t)
         /\ \A i \in 1 .. Len(s) : (s \o t)[i] = s[i]
         /\ \A j \in 1 .. Len(t) : (s \o t)[Len(s) + j] = t[j]
<1>1. Len(s) \in Nat /\ Len(t) \in Nat  OBVIOUS
<1>2. \A i \in 1 .. Len(s) + Len(t) :
        (s \o t)[i] = IF i <= Len(s) THEN s[i] ELSE t[i - Len(s)]
  BY ConcatProperties
<1>3. ASSUME NEW j \in 1 .. Len(t) PROVE (s \o t)[Len(s) + j] = t[j]
  <2>1. Len(s) + j \in 1 .. Len(s) + Len(t) /\ ~(Len(s) + j <= Len(s))
        /\ Len(s) + j - Len(s) = j
    BY <1>1
  <2>. QED  BY <1>2, <2>1
<1>4. ASSUME NEW i \in 1 .. Len(s) PROVE (s \o t)[i] = s[i]
  BY <1>1, <1>2
<1>. QED  BY <1>3, <1>4, ConcatProperties

\* Appending changes keeps the entries of the log at their places.
LEMMA EntryConcatLemma ==
  ASSUME NEW s \in Seq(Entry), NEW t \in Seq(Entry)
  PROVE  /\ s \o t \in Seq(Entry)
         /\ Len(s \o t) = Len(s) + Len(t)
         /\ \A i \in 1 .. Len(s) : (s \o t)[i] = s[i]
         /\ \A j \in 1 .. Len(t) : (s \o t)[Len(s) + j] = t[j]
<1>1. Len(s) \in Nat /\ Len(t) \in Nat  OBVIOUS
<1>2. \A i \in 1 .. Len(s) + Len(t) :
        (s \o t)[i] = IF i <= Len(s) THEN s[i] ELSE t[i - Len(s)]
  BY ConcatProperties
<1>3. ASSUME NEW j \in 1 .. Len(t) PROVE (s \o t)[Len(s) + j] = t[j]
  <2>1. Len(s) + j \in 1 .. Len(s) + Len(t) /\ ~(Len(s) + j <= Len(s))
        /\ Len(s) + j - Len(s) = j
    BY <1>1
  <2>. QED  BY <1>2, <2>1
<1>4. ASSUME NEW i \in 1 .. Len(s) PROVE (s \o t)[i] = s[i]
  BY <1>1, <1>2
<1>. QED  BY <1>3, <1>4, ConcatProperties

\* A pool extended by the numbers from b on.
LEMMA ExtendLemma ==
  ASSUME NEW p \in Seq(Nat), NEW t \in Seq(Nat), NEW b \in Nat,
         \A i \in 1 .. Len(t) : t[i] = b + i - 1
  PROVE  \A i \in Len(p) + 1 .. Len(p \o t) : (p \o t)[i] = b + i - Len(p) - 1
<1>1. /\ Len(p \o t) = Len(p) + Len(t)
      /\ \A j \in 1 .. Len(t) : (p \o t)[Len(p) + j] = t[j]
  BY ConcatLemma
<1>2. TAKE i \in Len(p) + 1 .. Len(p \o t)
<1>3. Len(p) \in Nat /\ Len(t) \in Nat
  OBVIOUS
<1>4. PICK j : j = i - Len(p)
  OBVIOUS
<1>5. j \in 1 .. Len(t) /\ i = Len(p) + j
  BY <1>1, <1>2, <1>3, <1>4
<1>. QED  BY <1>1, <1>3, <1>5

\* What takeNextServerSeq has to give to a request that needs n numbers:
\* enough of them, its own pool first, then numbers nobody else has.
LEMMA StockLemma ==
  ASSUME TypeOK, nextSeq >= 1, NEW r \in Request, NEW n \in Nat
  PROVE  /\ Fresh(r, n) \in Nat
         /\ Stock(r, n) \in Seq(Nat)
         /\ Len(Stock(r, n)) = Len(pool[r]) + Fresh(r, n)
         /\ Len(Stock(r, n)) >= n
         /\ \A i \in 1 .. Len(pool[r]) : Stock(r, n)[i] = pool[r][i]
         /\ \A i \in Len(pool[r]) + 1 .. Len(Stock(r, n)) :
              Stock(r, n)[i] = nextSeq + i - Len(pool[r]) - 1
<1>1. pool[r] \in Seq(Nat) /\ Len(pool[r]) \in Nat /\ nextSeq \in Nat
      /\ batch[r] \in Seq(Mutation) /\ Len(batch[r]) \in Nat
  BY DEF TypeOK
<1>2. BatchLength(r) \in Nat
  BY <1>1 DEF BatchLength
<1>3. Fresh(r, n) \in Nat /\ Len(pool[r]) + Fresh(r, n) >= n
  BY <1>1, <1>2 DEF Fresh
<1>4. PICK F \in Nat : F = Fresh(r, n)
  BY <1>3
<1>5. PICK t : t = [i \in 1 .. F |-> nextSeq + i - 1]
  OBVIOUS
<1>6. \A i \in 1 .. F : nextSeq + i - 1 \in Nat
  BY <1>1
<1>7. t \in Seq(Nat) /\ Len(t) = F /\ \A i \in 1 .. F : t[i] = nextSeq + i - 1
  BY <1>5, <1>6
<1>8. PICK p \in Seq(Nat) : p = pool[r]
  BY <1>1
<1>9. Stock(r, n) = p \o t
  BY <1>4, <1>5, <1>8 DEF Stock, Reserved
<1>10. /\ p \o t \in Seq(Nat)
       /\ Len(p \o t) = Len(p) + F
       /\ \A i \in 1 .. Len(p) : (p \o t)[i] = p[i]
  BY <1>7, ConcatLemma
<1>11. \A i \in Len(p) + 1 .. Len(p \o t) : (p \o t)[i] = nextSeq + i - Len(p) - 1
  <2>1. \A i \in 1 .. Len(t) : t[i] = nextSeq + i - 1
    BY <1>7
  <2>. QED  BY <1>1, <1>7, <2>1, ExtendLemma
<1>. QED  BY <1>3, <1>4, <1>8, <1>9, <1>10, <1>11

----------------------------------------------------------------------------
(* Types and control. *)

Basic == TypeOK /\ nextSeq >= 1 /\ Control

\* Inside its loop a request is at one of its mutations.
LEMMA CurrentType ==
  ASSUME TypeOK, Control, NEW r \in Request, AtMutation(r)
  PROVE  Current(r) \in Mutation
BY DEF TypeOK, Control, AtMutation, Current

\* recordMutationSuccess and recordMutationFailure keep the types of the
\* response.
LEMMA SettleType ==
  ASSUME TypeOK, Control, NEW r \in Request, AtMutation(r),
         NEW v \in Verdict, Settle(r, v)
  PROVE  /\ verdict' \in [Request -> Verdict]
         /\ applied' \in [Request -> SUBSET Mutation]
         /\ errors' \in [Request -> SUBSET (Mutation \X (Verdict \ {"ok"}))]
         /\ seen' \in [Request -> SUBSET Mutation]
         /\ pc' \in [Request -> Phase]
<1>1. PICK m \in Mutation : m = Current(r)
  BY CurrentType
<1>2. verdict' \in [Request -> Verdict] /\ pc' \in [Request -> Phase]
      /\ seen' \in [Request -> SUBSET Mutation]
  BY DEF Settle, TypeOK, Phase
<1>3. applied' \in [Request -> SUBSET Mutation]
  BY <1>1 DEF Settle, TypeOK
<1>4. CASE v = "ok"
  BY <1>2, <1>3, <1>4 DEF Settle, TypeOK
<1>5. CASE v # "ok"
  <2>1. <<m, v>> \in Mutation \X (Verdict \ {"ok"})
    BY <1>5
  <2>2. errors' = [errors EXCEPT ![r] = @ \cup {<<m, v>>}]
    BY <1>1, <1>5 DEF Settle
  <2>3. errors \in [Request -> SUBSET (Mutation \X (Verdict \ {"ok"}))]
    BY DEF TypeOK
  <2>. QED  BY <1>2, <1>3, <2>1, <2>2, <2>3
<1>. QED  BY <1>4, <1>5

\* Going on with the next mutation keeps the types of the loop.
LEMMA AdvanceType ==
  ASSUME TypeOK, Control, NEW r \in Request, AtMutation(r), Advance(r)
  PROVE  /\ seen' \in [Request -> SUBSET Mutation]
         /\ index' \in [Request -> Nat]
         /\ pc' \in [Request -> Phase]
<1>1. Current(r) \in Mutation
  BY CurrentType
<1>. QED  BY <1>1 DEF Advance, TypeOK, Phase

\* What is left of a sequence when its first n elements are used.
LEMMA RestLemma ==
  ASSUME NEW s \in Seq(Nat), NEW n \in Nat, n <= Len(s)
  PROVE  /\ SubSeq(s, n + 1, Len(s)) \in Seq(Nat)
         /\ Len(SubSeq(s, n + 1, Len(s))) = Len(s) - n
         /\ \A i \in 1 .. Len(s) - n : SubSeq(s, n + 1, Len(s))[i] = s[n + i]
<1>1. Len(s) \in Nat /\ n + 1 \in Int /\ Len(s) \in Int
  OBVIOUS
<1>2. \A i \in n + 1 .. Len(s) : s[i] \in Nat
  BY <1>1
<1>3. /\ SubSeq(s, n + 1, Len(s)) \in Seq(Nat)
      /\ Len(SubSeq(s, n + 1, Len(s)))
           = IF n + 1 <= Len(s) THEN Len(s) - (n + 1) + 1 ELSE 0
      /\ \A i \in 1 .. Len(s) - (n + 1) + 1 :
           SubSeq(s, n + 1, Len(s))[i] = s[(n + 1) + i - 1]
  BY <1>1, <1>2, SubSeqProperties
<1>4. (IF n + 1 <= Len(s) THEN Len(s) - (n + 1) + 1 ELSE 0) = Len(s) - n
  BY <1>1
<1>5. ASSUME NEW i \in 1 .. Len(s) - n
      PROVE  SubSeq(s, n + 1, Len(s))[i] = s[n + i]
  <2>1. i \in 1 .. Len(s) - (n + 1) + 1  BY <1>1
  <2>2. (n + 1) + i - 1 = n + i  BY <1>1
  <2>. QED  BY <1>3, <2>1, <2>2
<1>. QED  BY <1>3, <1>4, <1>5

\* A mutation with more than one pending change has one left after recording
\* one.
LEMMA TailLemma ==
  ASSUME NEW s \in Seq(Key), Len(s) > 1
  PROVE  Tail(s) # <<>>
<1>1. PICK t : t = Tail(s)
  OBVIOUS
<1>2. Len(t) = Len(s) - 1 /\ Len(s) \in Nat
  BY <1>1
<1>3. t # <<>>
  BY <1>2
<1>. QED  BY <1>1, <1>3

\* The per-resource maxima of a response stay numbers.
LEMMA BumpType ==
  ASSUME NEW seqs \in [Resource -> Nat], NEW k \in Key, NEW s \in Nat
  PROVE  Bump(seqs, k, s) \in [Resource -> Nat]
BY InputAssumption DEF Bump

\* The types and the control facts hold at first.
LEMMA TypeInit == Init => Basic
<1>. SUFFICES ASSUME Init PROVE Basic
  OBVIOUS
<1>1. TypeOK
  BY InputAssumption DEF Init, TypeOK, Phase, Verdict
<1>. QED  BY <1>1 DEF Init, Basic, Control

\* Every step of a push request keeps the types.
LEMMA TypeStep == Basic /\ [Next]_vars => TypeOK'
<1>. SUFFICES ASSUME Basic, [Next]_vars PROVE TypeOK'
  OBVIOUS
<1>. USE DEF Basic
<1>1. ASSUME NEW r \in Request, Begin(r) PROVE TypeOK'
  <2>1. getCurrentServerSeq \in Nat
    BY DEF getCurrentServerSeq, TypeOK
  <2>. QED  BY <1>1, <2>1, InputAssumption DEF Begin, TypeOK, Phase, database, sequence,
         answer, cursors, bounds
<1>2. ASSUME NEW r \in Request, DedupInBatch(r) PROVE TypeOK'
  BY <1>2, AdvanceType DEF DedupInBatch, TypeOK, database, sequence, cursors, bounds
<1>3. ASSUME NEW r \in Request, DedupStored(r) PROVE TypeOK'
  <2>1. PICK m \in Mutation : m = Current(r)
    BY <1>3, CurrentType DEF DedupStored
  <2>2. applied' \in [Request -> SUBSET Mutation]
    <3>1. applied' = applied \/ applied' = [applied EXCEPT ![r] = @ \cup {m}]
      BY <1>3, <2>1 DEF DedupStored
    <3>2. applied \in [Request -> SUBSET Mutation]
      BY DEF TypeOK
    <3>3. CASE applied' = [applied EXCEPT ![r] = @ \cup {m}]
      <4>1. applied[r] \cup {m} \in SUBSET Mutation
        BY <3>2
      <4>. QED  BY <3>2, <3>3, <4>1
    <3>. QED  BY <3>1, <3>2, <3>3
  <2>3. errors' \in [Request -> SUBSET (Mutation \X (Verdict \ {"ok"}))]
    <3>1. CASE UNCHANGED errors
      BY <3>1 DEF TypeOK
    <3>2. CASE /\ idempotency[m] \notin {"none", "ok"}
               /\ errors' = [errors EXCEPT ![r] = @ \cup {<<m, idempotency[m]>>}]
      <4>1. <<m, idempotency[m]>> \in Mutation \X (Verdict \ {"ok"})
        BY <3>2 DEF TypeOK
      <4>2. errors \in [Request -> SUBSET (Mutation \X (Verdict \ {"ok"}))]
        BY DEF TypeOK
      <4>. QED  BY <3>2, <4>1, <4>2
    <3>. QED  BY <1>3, <2>1, <3>1, <3>2 DEF DedupStored
  <2>4. /\ seen' \in [Request -> SUBSET Mutation]
        /\ index' \in [Request -> Nat]
        /\ pc' \in [Request -> Phase]
    BY <1>3, AdvanceType DEF DedupStored
  <2>. QED  BY <1>3, <2>2, <2>3, <2>4 DEF DedupStored, TypeOK, database, sequence, cursors,
         bounds
<1>4. ASSUME NEW r \in Request, Admit(r) PROVE TypeOK'
  <2>1. "forbidden" \in Verdict  BY DEF Verdict
  <2>2. CASE Settle(r, "forbidden")
    BY <1>4, <2>1, <2>2, SettleType DEF Admit, TypeOK, database, sequence, cursors, bounds
  <2>3. CASE /\ pc' = [pc EXCEPT ![r] = "execute"]
             /\ UNCHANGED <<answer, verdict>>
    BY <1>4, <2>3 DEF Admit, TypeOK, Phase, database, sequence, answer, cursors, bounds
  <2>. QED  BY <1>4, <2>2, <2>3 DEF Admit
<1>5. ASSUME NEW r \in Request, Refuse(r) PROVE TypeOK'
  <2>1. AtMutation(r)  BY <1>5 DEF Refuse, Control
  <2>2. OpResult(Current(r)) \in Verdict  BY <2>1, CurrentType, OpResultType
  <2>. QED  BY <1>5, <2>1, <2>2, SettleType DEF Refuse, TypeOK, database, sequence, cursors,
         bounds
<1>6. ASSUME NEW r \in Request, Commit(r) PROVE TypeOK'
  <2>1. AtMutation(r) /\ "ok" \in Verdict  BY <1>6 DEF Commit, Control, Verdict
  <2>2. PICK m \in Mutation : m = Current(r)  BY <2>1, CurrentType
  <2>3. PICK ks \in Seq(Key) : ks = ChangedKeys(m)  BY ChangedKeysType
  <2>4. PICK n \in 0 .. 2 : n = Len(ks)  BY <2>3, ChangedKeysType
  <2>5. n \in Nat  OBVIOUS
  <2>6. PICK st \in Seq(Nat) : st = Stock(r, n) /\ Len(st) >= n
    BY <2>5, StockLemma
  <2>7. Fresh(r, n) \in Nat  BY <2>5, StockLemma
  <2>8. \A i \in 1 .. n : st[i] \in Nat /\ ks[i] \in Key
    BY <2>4, <2>6
  <2>9. rows' \in [Key -> Mutation \cup {None}]
    BY <1>6, <2>2, RowsAfterType DEF Commit
  <2>10. changes' \in Seq(Entry)
    <3>1. PICK e : e = [i \in 1 .. n |-> ChangeOf(r, m, ks[i], st[i])]
      OBVIOUS
    <3>2. \A i \in 1 .. n : ChangeOf(r, m, ks[i], st[i]) \in Entry
      BY <2>8, ChangeOfType
    <3>3. e \in Seq(Entry)
      BY <2>5, <3>1, <3>2
    <3>4. changes' = changes \o e
      BY <1>6, <2>2, <2>3, <2>4, <2>6, <3>1 DEF Commit
    <3>5. changes \in Seq(Entry)
      BY DEF TypeOK
    <3>. QED  BY <3>3, <3>4, <3>5
  <2>11. nextSeq' \in Nat
    <3>1. PICK f \in Nat : f = Fresh(r, n)
      BY <2>7
    <3>2. nextSeq' = nextSeq + f
      BY <1>6, <2>2, <2>3, <2>4, <3>1 DEF Commit
    <3>3. nextSeq \in Nat
      BY DEF TypeOK
    <3>. QED  BY <3>2, <3>3
  <2>12. pool' \in [Request -> Seq(Nat)]
    <3>1. PICK rest \in Seq(Nat) : rest = SubSeq(st, n + 1, Len(st))
      <4>1. n <= Len(st)  BY <2>5, <2>6
      <4>. QED  BY <2>5, <4>1, RestLemma
    <3>2. pool' = [pool EXCEPT ![r] = rest]
      BY <1>6, <2>2, <2>3, <2>4, <2>6, <3>1 DEF Commit
    <3>. QED  BY <3>2 DEF TypeOK
  <2>13. allocated' \in [Request -> BOOLEAN]
    BY <1>6 DEF Commit, TypeOK
  <2>14. \A a, b \in Nat : Later(a, b) \in Nat
    BY DEF Later
  <2>15. latestSeq' \in [Request -> Nat]
    <3>1. PICK v : v = IF n = 0 THEN latestSeq[r]
                       ELSE IF n = 1 THEN Later(latestSeq[r], st[1])
                       ELSE Later(Later(latestSeq[r], st[1]), st[2])
      OBVIOUS
    <3>2. latestSeq' = [latestSeq EXCEPT ![r] = v]
      BY <1>6, <2>2, <2>3, <2>4, <2>6, <3>1 DEF Commit
    <3>3. latestSeq[r] \in Nat /\ (n = 1 => st[1] \in Nat)
          /\ (n = 2 => st[1] \in Nat /\ st[2] \in Nat)
      BY <2>8 DEF TypeOK
    <3>4. v \in Nat
      <4>1. CASE n = 0  BY <3>1, <3>3, <4>1
      <4>2. CASE n = 1  BY <2>14, <3>1, <3>3, <4>2
      <4>3. CASE n = 2  BY <2>14, <3>1, <3>3, <4>3
      <4>. QED  BY <4>1, <4>2, <4>3
    <3>. QED  BY <3>2, <3>4 DEF TypeOK
  <2>16. resourceSeqs' \in [Request -> [Resource -> Nat]]
    <3>1. PICK v : v = IF n = 0 THEN resourceSeqs[r]
                       ELSE IF n = 1 THEN Bump(resourceSeqs[r], ks[1], st[1])
                       ELSE Bump(Bump(resourceSeqs[r], ks[1], st[1]), ks[2], st[2])
      OBVIOUS
    <3>2. resourceSeqs' = [resourceSeqs EXCEPT ![r] = v]
      BY <1>6, <2>2, <2>3, <2>4, <2>6, <3>1 DEF Commit
    <3>3. resourceSeqs[r] \in [Resource -> Nat]
          /\ (n = 1 => st[1] \in Nat /\ ks[1] \in Key)
          /\ (n = 2 => st[1] \in Nat /\ st[2] \in Nat /\ ks[1] \in Key /\ ks[2] \in Key)
      BY <2>8 DEF TypeOK
    <3>4. v \in [Resource -> Nat]
      <4>1. CASE n = 0  BY <3>1, <3>3, <4>1
      <4>2. CASE n = 1  BY <3>1, <3>3, <4>2, BumpType
      <4>3. CASE n = 2
        <5>1. Bump(resourceSeqs[r], ks[1], st[1]) \in [Resource -> Nat]
          BY <3>3, <4>3, BumpType
        <5>. QED  BY <3>1, <3>3, <4>3, <5>1, BumpType
      <4>. QED  BY <4>1, <4>2, <4>3
    <3>. QED  BY <3>2, <3>4 DEF TypeOK
  <2>17. executed' \subseteq Mutation
    BY <1>6, <2>2 DEF Commit, TypeOK
  <2>18. Settle(r, "ok")
    BY <1>6 DEF Commit
  <2>19. UNCHANGED <<idempotency, batch, index, pending, existing, cursorBefore, bounds>>
    BY <1>6 DEF Commit
  <2>. QED  BY <2>1, <2>9, <2>10, <2>11, <2>12, <2>13, <2>15, <2>16, <2>17, <2>18, <2>19,
         SettleType DEF TypeOK, bounds
<1>7. ASSUME NEW r \in Request, Operate(r) PROVE TypeOK'
  <2>1. AtMutation(r) /\ "ok" \in Verdict  BY <1>7 DEF Operate, Control, Verdict
  <2>2. PICK m \in Mutation : m = Current(r)  BY <2>1, CurrentType
  <2>3. rows' \in [Key -> Mutation \cup {None}]
    BY <1>7, <2>2, RowsAfterType DEF Operate
  <2>4. executed' \subseteq Mutation
    BY <1>7, <2>2 DEF Operate, TypeOK
  <2>5. UNCHANGED <<changes, nextSeq, idempotency, batch, index, sequence, existing,
                    cursorBefore, cursors, bounds>>
    BY <1>7 DEF Operate
  <2>6. CASE Settle(r, "ok") /\ UNCHANGED pending
    BY <2>1, <2>3, <2>4, <2>5, <2>6, SettleType DEF TypeOK, sequence, cursors, bounds
  <2>7. CASE /\ pending' = [pending EXCEPT ![r] = ChangedKeys(m)]
             /\ pc' = [pc EXCEPT ![r] = "take"]
             /\ UNCHANGED <<answer, verdict>>
    <3>1. pending' \in [Request -> Seq(Key)]
      BY <2>7, ChangedKeysType DEF TypeOK
    <3>. QED  BY <2>3, <2>4, <2>5, <2>7, <3>1 DEF TypeOK, Phase, sequence, answer, cursors,
           bounds
  <2>. QED  BY <1>7, <2>2, <2>6, <2>7 DEF Operate
<1>8. ASSUME NEW r \in Request, TakeSeq(r) PROVE TypeOK'
  <2>1. PICK st \in Seq(Nat) : st = Stock(r, 1) /\ Len(st) >= 1
    BY StockLemma
  <2>2. Fresh(r, 1) \in Nat  BY StockLemma
  <2>3. PICK k \in Key : k = Head(pending[r])
    BY <1>8 DEF TypeOK, Control, TakeSeq
  <2>4. st[1] \in Nat  BY <2>1
  <2>5. latestSeq' \in [Request -> Nat]
    BY <1>8, <2>1, <2>4 DEF TakeSeq, TypeOK, Later
  <2>6. resourceSeqs' \in [Request -> [Resource -> Nat]]
    BY <1>8, <2>1, <2>3, <2>4, BumpType DEF TakeSeq, TypeOK
  <2>7. pool' \in [Request -> Seq(Nat)]
    BY <1>8, <2>1 DEF TakeSeq, TypeOK
  <2>8. nextSeq' \in Nat
    BY <1>8, <2>2 DEF TakeSeq, TypeOK
  <2>. QED  BY <1>8, <2>5, <2>6, <2>7, <2>8 DEF TakeSeq, TypeOK, Phase, answer, bounds
<1>9. ASSUME NEW r \in Request, RecordChange(r) PROVE TypeOK'
  <2>1. AtMutation(r) /\ "ok" \in Verdict /\ pending[r] # <<>> /\ pool[r] # <<>>
    BY <1>9 DEF RecordChange, Control, Verdict
  <2>2. PICK m \in Mutation : m = Current(r)  BY <2>1, CurrentType
  <2>3. PICK k \in Key : k = Head(pending[r])
    BY <2>1 DEF TypeOK
  <2>4. PICK s \in Nat : s = Head(pool[r])
    BY <2>1 DEF TypeOK
  <2>5. changes' \in Seq(Entry)
    <3>1. changes' = Append(changes, ChangeOf(r, m, k, s))
      BY <1>9, <2>2, <2>3, <2>4 DEF RecordChange
    <3>. QED  BY <3>1, ChangeOfType DEF TypeOK
  <2>6. pool' \in [Request -> Seq(Nat)] /\ pending' \in [Request -> Seq(Key)]
    BY <1>9, <2>1 DEF RecordChange, TypeOK
  <2>7. CASE Settle(r, "ok")
    BY <1>9, <2>1, <2>5, <2>6, <2>7, SettleType DEF RecordChange, TypeOK, cursors, bounds
  <2>8. CASE /\ pc' = [pc EXCEPT ![r] = "take"]
             /\ UNCHANGED <<answer, verdict>>
    BY <1>9, <2>5, <2>6, <2>8 DEF RecordChange, TypeOK, Phase, answer, cursors, bounds
  <2>. QED  BY <1>9, <2>7, <2>8 DEF RecordChange
<1>10. ASSUME NEW r \in Request, Fault(r) PROVE TypeOK'
  <2>1. AtMutation(r) /\ "retry" \in Verdict  BY <1>10 DEF Fault, Control, Verdict
  <2>2. pool' \in [Request -> Seq(Nat)]
    BY <1>10 DEF Fault, TypeOK, Control
  <2>3. faults' \in 0 .. MaxFaults /\ crashes' \in 0 .. MaxCrashes
    BY <1>10, InputAssumption DEF Fault, TypeOK
  <2>4. pending' \in [Request -> Seq(Key)] /\ allocated' \in [Request -> BOOLEAN]
    BY <1>10 DEF Fault, TypeOK
  <2>5. Settle(r, "retry")  BY <1>10 DEF Fault
  <2>. QED  BY <1>10, <2>1, <2>2, <2>3, <2>4, <2>5, SettleType DEF Fault, TypeOK, database,
         cursors
<1>11. ASSUME NEW r \in Request, SetRead(r) PROVE TypeOK'
  <2>1. Current(r) \in Mutation
    BY <1>11, CurrentType DEF SetRead, Control
  <2>. QED  BY <1>11, <2>1 DEF SetRead, TypeOK, Phase, database, sequence, answer, cursors,
         bounds
<1>12. ASSUME NEW r \in Request, SetWrite(r) PROVE TypeOK'
  <2>1. AtMutation(r) /\ Advance(r)
    BY <1>12 DEF SetWrite, Control
  <2>2. PICK m \in Mutation : m = Current(r)
    BY <2>1, CurrentType
  <2>3. Stored(r) \in Verdict \cup {"none"}
    BY <2>2 DEF Stored, TypeOK
  <2>4. idempotency' \in [Mutation -> Verdict \cup {"none"}]
    BY <1>12, <2>3 DEF SetWrite, TypeOK
  <2>. QED  BY <1>12, <2>1, <2>4, AdvanceType DEF SetWrite, TypeOK, database, sequence,
         cursors, bounds
<1>13. ASSUME NEW r \in Request, SetFails(r) PROVE TypeOK'
  <2>1. AtMutation(r) /\ Advance(r)
    BY <1>13 DEF SetFails, Control
  <2>2. faults' \in 0 .. MaxFaults
    BY <1>13, InputAssumption DEF SetFails, TypeOK
  <2>. QED  BY <1>13, <2>1, <2>2, AdvanceType DEF SetFails, TypeOK, database, sequence,
         cursors, bounds
<1>14. ASSUME NEW r \in Request, Respond(r) PROVE TypeOK'
  <2>1. getCurrentServerSeq \in Nat
    BY DEF getCurrentServerSeq, TypeOK
  <2>. QED  BY <1>14, <2>1 DEF Respond, TypeOK, Phase, database, sequence, answer, bounds
<1>15. ASSUME Crash PROVE TypeOK'
  <2>1. crashes' \in 0 .. MaxCrashes
    BY <1>15, InputAssumption DEF Crash, TypeOK
  <2>2. pc' \in [Request -> Phase]
    BY <1>15 DEF Crash, TypeOK, Phase
  <2>. QED  BY <1>15, <2>1, <2>2 DEF Crash, TypeOK, database, sequence, answer, cursors
<1>16. CASE UNCHANGED vars
  BY <1>16 DEF vars, TypeOK, database, sequence, answer, cursors, bounds
<1>. QED  BY <1>1, <1>2, <1>3, <1>4, <1>5, <1>6, <1>7, <1>8, <1>9, <1>10, <1>11, <1>12,
       <1>13, <1>14, <1>15, <1>16 DEF Next, Step

\* Whether the adapter has transactions never changes.
LEMMA AdapterFixed == [Next]_vars => atomic' = atomic
BY DEF Next, Step, Begin, DedupInBatch, DedupStored, Admit, Refuse, Commit, Operate,
   TakeSeq, RecordChange, SetRead, SetWrite, Respond, Fault, SetFails, Crash, vars, bounds

\* Every step keeps the control facts: where a request is in its batch.
LEMMA ControlStep == Basic /\ [Next]_vars => nextSeq' >= 1 /\ Control'
<1>. SUFFICES ASSUME Basic, [Next]_vars PROVE nextSeq' >= 1 /\ Control'
  OBVIOUS
<1>. USE DEF Basic
<1>1. nextSeq' >= 1
  <2>1. nextSeq \in Nat  BY DEF TypeOK
  <2>2. ASSUME NEW r \in Request, NEW n \in Nat, nextSeq' = nextSeq + Fresh(r, n)
        PROVE  nextSeq' >= 1
    <3>1. PICK f \in Nat : f = Fresh(r, n)  BY StockLemma
    <3>. QED  BY <2>1, <2>2, <3>1
  <2>3. ASSUME NEW r \in Request, Commit(r) PROVE nextSeq' >= 1
    <3>1. AtMutation(r)  BY <2>3 DEF Commit, Control
    <3>2. Len(ChangedKeys(Current(r))) \in Nat
      BY <3>1, CurrentType, ChangedKeysType
    <3>. QED  BY <2>2, <2>3, <3>2 DEF Commit
  <2>4. ASSUME NEW r \in Request, TakeSeq(r) PROVE nextSeq' >= 1
    BY <2>2, <2>4 DEF TakeSeq
  <2>. QED  BY <2>3, <2>4 DEF Next, Step, Begin, DedupInBatch, DedupStored, Admit, Refuse,
         Operate, RecordChange, SetRead, SetWrite, Respond, Fault, SetFails, Crash,
         vars, database
<1> DEFINE C(q) == /\ index[q] >= 1
                   /\ pc[q] \in {"execute", "take", "record", "setRead", "setWrite"}
                        => AtMutation(q)
                   /\ pc[q] \in {"take", "record"} => pending[q] # <<>> /\ ~atomic
                   /\ pc[q] = "record" => pool[q] # <<>>
<1>2. \A q \in Request : C(q)
  BY DEF Control
<1>3. SUFFICES ASSUME NEW q \in Request PROVE C(q)'
  BY <1>1 DEF Control
<1>. USE AdapterFixed
\* An action of one request leaves the others alone.
<1>4. ASSUME pc'[q] = pc[q], index'[q] = index[q], batch'[q] = batch[q],
             pending'[q] = pending[q], pool'[q] = pool[q]
      PROVE  C(q)'
  BY <1>2, <1>4 DEF AtMutation
<1>. USE DEF TypeOK
<1>5. ASSUME NEW r \in Request, Begin(r) PROVE C(q)'
  <2>1. CASE q = r  BY <1>2, <1>5, <2>1 DEF Begin, sequence
  <2>2. CASE q # r  BY <1>4, <1>5, <2>2 DEF Begin, sequence
  <2>. QED  BY <2>1, <2>2
<1>6. ASSUME NEW r \in Request, DedupInBatch(r) \/ DedupStored(r) PROVE C(q)'
  <2>1. CASE q = r  BY <1>2, <1>6, <2>1 DEF DedupInBatch, DedupStored, Advance, sequence
  <2>2. CASE q # r  BY <1>4, <1>6, <2>2 DEF DedupInBatch, DedupStored, Advance, sequence
  <2>. QED  BY <2>1, <2>2
<1>7. ASSUME NEW r \in Request, Admit(r) \/ Refuse(r) PROVE C(q)'
  <2>1. CASE q = r
    BY <1>2, <1>7, <2>1 DEF Admit, Refuse, Settle, AtMutation, sequence
  <2>2. CASE q # r
    BY <1>4, <1>7, <2>2 DEF Admit, Refuse, Settle, sequence
  <2>. QED  BY <2>1, <2>2
<1>8. ASSUME NEW r \in Request, Commit(r) PROVE C(q)'
  <2>1. CASE q = r
    <3>1. pc'[r] = "setRead" /\ index' = index /\ batch' = batch
      BY <1>8 DEF Commit, Settle
    <3>2. AtMutation(r)
      BY <1>2, <1>8 DEF Commit
    <3>. QED  BY <1>2, <2>1, <3>1, <3>2 DEF AtMutation
  <2>2. CASE q # r
    BY <1>4, <1>8, <2>2 DEF Commit, Settle
  <2>. QED  BY <2>1, <2>2
<1>9. ASSUME NEW r \in Request, Operate(r) PROVE C(q)'
  <2>1. CASE q = r
    BY <1>2, <1>9, <2>1 DEF Operate, Settle, AtMutation, sequence
  <2>2. CASE q # r
    BY <1>4, <1>9, <2>2 DEF Operate, Settle, sequence
  <2>. QED  BY <2>1, <2>2
<1>10. ASSUME NEW r \in Request, TakeSeq(r) PROVE C(q)'
  <2>1. CASE q = r
    <3>1. PICK st \in Seq(Nat) : st = Stock(r, 1) /\ Len(st) >= 1
      BY StockLemma
    <3>2. pool'[r] = st /\ st # <<>>
      BY <1>10, <3>1 DEF TakeSeq
    <3>. QED  BY <1>2, <1>10, <2>1, <3>2 DEF TakeSeq, AtMutation
  <2>2. CASE q # r
    BY <1>4, <1>10, <2>2 DEF TakeSeq
  <2>. QED  BY <2>1, <2>2
<1>11. ASSUME NEW r \in Request, RecordChange(r) PROVE C(q)'
  <2>1. CASE q = r
    <3>1. AtMutation(r) /\ index' = index /\ batch' = batch /\ index[r] >= 1
          /\ ~atomic
      BY <1>2, <1>11 DEF RecordChange
    <3>2. CASE pc'[r] = "setRead"
      BY <2>1, <3>1, <3>2 DEF AtMutation
    <3>3. CASE Len(pending[r]) > 1 /\ pc'[r] = "take"
      <4>1. pending'[r] = Tail(pending[r])  BY <1>11 DEF RecordChange
      <4>2. Tail(pending[r]) # <<>>
        <5>1. PICK p \in Seq(Key) : p = pending[r]
          OBVIOUS
        <5>. QED  BY ONLY <3>3, <5>1, TailLemma, p \in Seq(Key)
      <4>. QED  BY <2>1, <3>1, <3>3, <4>1, <4>2 DEF AtMutation
    <3>. QED  BY <1>11, <3>2, <3>3 DEF RecordChange, Settle
  <2>2. CASE q # r
    BY <1>4, <1>11, <2>2 DEF RecordChange, Settle
  <2>. QED  BY <2>1, <2>2
<1>12. ASSUME NEW r \in Request, Fault(r) PROVE C(q)'
  <2>1. CASE q = r
    BY <1>2, <1>12, <2>1 DEF Fault, Settle, AtMutation
  <2>2. CASE q # r
    BY <1>4, <1>12, <2>2 DEF Fault, Settle
  <2>. QED  BY <2>1, <2>2
<1>13. ASSUME NEW r \in Request, SetRead(r) PROVE C(q)'
  <2>1. CASE q = r
    BY <1>2, <1>13, <2>1 DEF SetRead, sequence, AtMutation
  <2>2. CASE q # r
    BY <1>4, <1>13, <2>2 DEF SetRead, sequence
  <2>. QED  BY <2>1, <2>2
<1>14. ASSUME NEW r \in Request, SetWrite(r) \/ SetFails(r) PROVE C(q)'
  <2>1. CASE q = r
    BY <1>2, <1>14, <2>1 DEF SetWrite, SetFails, Advance, sequence
  <2>2. CASE q # r
    BY <1>4, <1>14, <2>2 DEF SetWrite, SetFails, Advance, sequence
  <2>. QED  BY <2>1, <2>2
<1>15. ASSUME NEW r \in Request, Respond(r) PROVE C(q)'
  <2>1. CASE q = r
    BY <1>2, <1>15, <2>1 DEF Respond, sequence
  <2>2. CASE q # r
    BY <1>4, <1>15, <2>2 DEF Respond, sequence
  <2>. QED  BY <2>1, <2>2
<1>16. ASSUME Crash PROVE C(q)'
  BY <1>2, <1>16 DEF Crash, sequence, InFlight, AtMutation
<1>17. CASE UNCHANGED vars
  BY <1>4, <1>17 DEF vars, sequence
<1>. QED  BY <1>5, <1>6, <1>7, <1>8, <1>9, <1>10, <1>11, <1>12, <1>13, <1>14, <1>15,
       <1>16, <1>17 DEF Next, Step

----------------------------------------------------------------------------
(* The numbering. *)

\* st is the pool of r and F numbers reserved after it.
IsStock(r, F, st) ==
  /\ Len(st) = Len(pool[r]) + F
  /\ \A i \in 1 .. Len(pool[r]) : st[i] = pool[r][i]
  /\ \A i \in Len(pool[r]) + 1 .. Len(st) : st[i] = nextSeq + i - Len(pool[r]) - 1

\* The stock of a request can be used like its pool.
LEMMA StockInv ==
  ASSUME TypeOK, SeqInv, NEW r \in Request, NEW F \in Nat, NEW st \in Seq(Nat),
         IsStock(r, F, st)
  PROVE  /\ \A i \in 1 .. Len(st) : st[i] < nextSeq + F
         /\ \A i, j \in 1 .. Len(st) : i < j => st[i] < st[j]
         /\ \A q \in Request : \A i \in 1 .. Len(st), j \in 1 .. Len(pool[q]) :
              q # r => st[i] # pool[q][j]
         /\ \A c \in 1 .. Len(changes) : \A i \in 1 .. Len(st) :
              /\ changes[c].seq # st[i]
              /\ changes[c].req = r => changes[c].seq < st[i]
<1>1. PICK p \in Seq(Nat) : p = pool[r]
  BY DEF TypeOK
<1>2. PICK L \in Nat : L = Len(p)
  OBVIOUS
<1>3. nextSeq \in Nat /\ Len(st) \in Nat /\ Len(st) = L + F
  BY <1>1, <1>2 DEF TypeOK, IsStock
<1>4. \A i \in 1 .. Len(st) : /\ st[i] \in Nat
                              /\ i \in 1 .. L \/ i \in L + 1 .. Len(st)
  BY <1>3
<1>5. \A i \in 1 .. L : st[i] = p[i] /\ p[i] < nextSeq
  BY <1>1, <1>2 DEF SeqInv, ReservedBelowNext, IsStock
<1>6. \A i \in L + 1 .. Len(st) : st[i] = nextSeq + i - L - 1 /\ st[i] >= nextSeq
  <2>1. TAKE i \in L + 1 .. Len(st)
  <2>2. st[i] = nextSeq + i - L - 1
    BY <1>1, <1>2 DEF IsStock
  <2>3. i \in Nat /\ i >= L + 1 /\ L \in Nat
    BY <1>2, <1>3
  <2>. QED  BY <1>3, <2>2, <2>3
<1>7. ASSUME NEW i \in 1 .. Len(st) PROVE st[i] < nextSeq + F
  <2>1. CASE i \in 1 .. L
    <3>1. st[i] < nextSeq /\ st[i] \in Nat  BY <1>4, <1>5, <2>1
    <3>. QED  BY <1>3, <3>1
  <2>2. CASE i \in L + 1 .. Len(st)
    <3>1. st[i] = nextSeq + i - L - 1  BY <1>6, <2>2
    <3>2. i \in Nat /\ i <= L + F /\ L \in Nat  BY <1>2, <1>3, <2>2
    <3>. QED  BY <1>3, <3>1, <3>2
  <2>. QED  BY <1>4, <2>1, <2>2
<1>8. ASSUME NEW i \in 1 .. Len(st), NEW j \in 1 .. Len(st), i < j
      PROVE  st[i] < st[j]
  <2>1. CASE i \in 1 .. L /\ j \in 1 .. L
    <3>1. p[i] < p[j]  BY <1>1, <1>2, <1>8, <2>1 DEF SeqInv, PoolIncreasing
    <3>. QED  BY <1>5, <2>1, <3>1
  <2>2. CASE i \in 1 .. L /\ j \in L + 1 .. Len(st)
    <3>1. st[i] < nextSeq /\ st[j] >= nextSeq /\ st[i] \in Nat /\ st[j] \in Nat
      BY <1>4, <1>5, <1>6, <2>2
    <3>. QED  BY <1>3, <3>1
  <2>3. CASE i \in L + 1 .. Len(st) /\ j \in L + 1 .. Len(st)
    <3>1. st[i] = nextSeq + i - L - 1 /\ st[j] = nextSeq + j - L - 1
      BY <1>6, <2>3
    <3>2. i \in Nat /\ j \in Nat /\ L \in Nat
      BY <1>2, <1>3
    <3>. QED  BY <1>3, <1>8, <3>1, <3>2
  <2>. QED  BY <1>2, <1>3, <1>4, <1>8, <2>1, <2>2, <2>3
<1>9. ASSUME NEW q \in Request, NEW i \in 1 .. Len(st), NEW j \in 1 .. Len(pool[q]), q # r
      PROVE  st[i] # pool[q][j]
  <2>1. pool[q][j] < nextSeq /\ pool[q][j] \in Nat
    <3>1. pool[q] \in Seq(Nat)  BY DEF TypeOK
    <3>. QED  BY <3>1 DEF SeqInv, ReservedBelowNext
  <2>2. CASE i \in 1 .. L
    <3>1. pool[r][i] # pool[q][j]
      BY <1>1, <1>2, <1>9, <2>2 DEF SeqInv, PoolsDisjoint
    <3>. QED  BY <1>1, <1>5, <2>2, <3>1
  <2>3. CASE i \in L + 1 .. Len(st)
    <3>1. st[i] >= nextSeq /\ st[i] \in Nat  BY <1>4, <1>6, <2>3
    <3>. QED  BY <1>3, <2>1, <3>1
  <2>. QED  BY <1>4, <2>2, <2>3
<1>10. ASSUME NEW c \in 1 .. Len(changes), NEW i \in 1 .. Len(st)
       PROVE  /\ changes[c].seq # st[i]
              /\ changes[c].req = r => changes[c].seq < st[i]
  <2>1. changes[c].seq < nextSeq /\ changes[c].seq \in Nat
    <3>1. changes[c] \in Entry  BY DEF TypeOK
    <3>. QED  BY <3>1 DEF SeqInv, UsedBelowNext, Entry
  <2>2. CASE i \in 1 .. L
    <3>1. changes[c].seq # pool[r][i]
      BY <1>1, <1>2, <2>2 DEF SeqInv, PoolUnused
    <3>2. changes[c].req = r => changes[c].seq < pool[r][i]
      BY <1>1, <1>2, <2>2 DEF SeqInv, PoolAboveOwn
    <3>3. st[i] = pool[r][i]  BY <1>1, <1>5, <2>2
    <3>. QED  BY ONLY <3>1, <3>2, <3>3
  <2>3. CASE i \in L + 1 .. Len(st)
    <3>1. st[i] >= nextSeq /\ st[i] \in Nat  BY <1>4, <1>6, <2>3
    <3>. QED  BY <1>3, <2>1, <3>1
  <2>. QED  BY <1>4, <2>2, <2>3
<1>. QED  BY <1>7, <1>8, <1>9, <1>10

\* A request uses the first n numbers of its stock, some of them for changes.
LEMMA SeqTransition ==
  ASSUME TypeOK, TypeOK', SeqInv, nextSeq' >= 1, NEW r \in Request,
         NEW F \in Nat, NEW n \in Nat, NEW st \in Seq(Nat), NEW e \in Seq(Entry),
         IsStock(r, F, st), n <= Len(st), Len(e) <= n,
         \A i \in 1 .. Len(e) : e[i].seq = st[i] /\ e[i].req = r,
         nextSeq' = nextSeq + F,
         changes' = changes \o e,
         pool' = [pool EXCEPT ![r] = SubSeq(st, n + 1, Len(st))]
  PROVE  SeqInv'
<1>0. /\ \A i \in 1 .. Len(st) : st[i] < nextSeq + F
      /\ \A i, j \in 1 .. Len(st) : i < j => st[i] < st[j]
      /\ \A q \in Request : \A i \in 1 .. Len(st), j \in 1 .. Len(pool[q]) :
           q # r => st[i] # pool[q][j]
      /\ \A c \in 1 .. Len(changes) : \A i \in 1 .. Len(st) :
           /\ changes[c].seq # st[i]
           /\ changes[c].req = r => changes[c].seq < st[i]
  BY StockInv, Zenon
<1>1. \A i \in 1 .. Len(st) : st[i] \in Nat /\ st[i] < nextSeq'
  BY <1>0
<1>2. \A i, j \in 1 .. Len(st) : i < j => st[i] < st[j]
  BY <1>0, Zenon
<1>3. \A q \in Request : \A i \in 1 .. Len(st), j \in 1 .. Len(pool[q]) :
        q # r => st[i] # pool[q][j]
  BY <1>0, Zenon
<1>4. \A c \in 1 .. Len(changes) : \A i \in 1 .. Len(st) :
        /\ changes[c].seq # st[i]
        /\ changes[c].req = r => changes[c].seq < st[i]
  BY <1>0, Zenon
<1>5. /\ nextSeq \in Nat /\ nextSeq' \in Nat /\ nextSeq <= nextSeq'
      /\ changes \in Seq(Entry) /\ changes' \in Seq(Entry)
      /\ Len(changes) \in Nat /\ Len(e) \in Nat /\ Len(st) \in Nat
  <2>1. nextSeq \in Nat /\ nextSeq' \in Nat  BY DEF TypeOK
  <2>2. nextSeq <= nextSeq'  BY <2>1
  <2>3. changes \in Seq(Entry) /\ changes' \in Seq(Entry)  BY DEF TypeOK
  <2>4. Len(changes) \in Nat /\ Len(e) \in Nat /\ Len(st) \in Nat  BY <2>3
  <2>. QED  BY <2>1, <2>2, <2>3, <2>4
<1>6. \A q \in Request : q # r => pool'[q] = pool[q]
  BY DEF TypeOK
<1>7. PICK rest \in Seq(Nat) : rest = SubSeq(st, n + 1, Len(st))
  BY RestLemma
<1>8. pool'[r] = rest
  BY <1>7 DEF TypeOK
<1>9. Len(rest) = Len(st) - n /\ \A i \in 1 .. Len(st) - n : rest[i] = st[n + i]
  BY <1>7, RestLemma
<1>10. \A j \in 1 .. Len(pool'[r]) : n + j \in 1 .. Len(st) /\ pool'[r][j] = st[n + j]
  <2>1. TAKE j \in 1 .. Len(pool'[r])
  <2>2. j \in 1 .. Len(st) - n  BY <1>8, <1>9
  <2>3. n + j \in 1 .. Len(st)  BY <1>5, <2>2
  <2>4. rest[j] = st[n + j]  BY <1>9, <2>2
  <2>. QED  BY <1>8, <2>3, <2>4
<1>11. /\ Len(changes') = Len(changes) + Len(e)
       /\ \A i \in 1 .. Len(changes) : changes'[i] = changes[i]
       /\ \A j \in 1 .. Len(e) : changes'[Len(changes) + j] = e[j]
  BY <1>5, EntryConcatLemma
\* The change at position i is old, or the j-th new one.
<1>12. \A i \in 1 .. Len(changes') :
         \/ i \in 1 .. Len(changes) /\ changes'[i] = changes[i]
         \/ \E j \in 1 .. Len(e) : /\ i = Len(changes) + j /\ j \in 1 .. Len(st)
                                   /\ changes'[i].seq = st[j] /\ changes'[i].req = r
  <2>1. TAKE i \in 1 .. Len(changes')
  <2>2. CASE i \in 1 .. Len(changes)  BY <1>11, <2>2
  <2>3. CASE i \notin 1 .. Len(changes)
    <3>1. PICK j : j = i - Len(changes)  OBVIOUS
    <3>2. j \in 1 .. Len(e) /\ i = Len(changes) + j /\ j \in 1 .. Len(st)
      BY <1>5, <1>11, <2>3, <3>1
    <3>. QED  BY <1>11, <3>2
  <2>. QED  BY <2>2, <2>3
<1>13. \A i \in 1 .. Len(changes) : changes[i].seq \in Nat /\ changes[i].seq < nextSeq
                                    /\ changes[i].req \in Request
  <2>1. TAKE i \in 1 .. Len(changes)
  <2>2. changes[i] \in Entry  BY <1>5
  <2>. QED  BY <2>2 DEF Entry, SeqInv, UsedBelowNext
<1>14. ReservedBelowNext'
  <2>1. SUFFICES ASSUME NEW q \in Request, NEW i \in 1 .. Len(pool'[q])
                 PROVE  pool'[q][i] < nextSeq'
    BY DEF ReservedBelowNext
  <2>2. CASE q = r  BY <1>1, <1>10, <2>2
  <2>3. CASE q # r
    <3>1. pool'[q] = pool[q] /\ pool[q] \in Seq(Nat)  BY <1>6, <2>3 DEF TypeOK
    <3>2. i \in 1 .. Len(pool[q])  BY <3>1
    <3>3. pool[q][i] \in Nat  BY <3>1, <3>2
    <3>4. pool[q][i] < nextSeq  BY <3>2 DEF SeqInv, ReservedBelowNext
    <3>5. pool'[q][i] = pool[q][i]  BY <3>1
    <3>6. pool[q][i] < nextSeq'  BY ONLY <1>5, <3>3, <3>4
    <3>. QED  BY <3>5, <3>6
  <2>. QED  BY <2>2, <2>3
<1>15. UsedBelowNext'
  <2>1. SUFFICES ASSUME NEW i \in 1 .. Len(changes') PROVE changes'[i].seq < nextSeq'
    BY DEF UsedBelowNext
  <2>2. CASE i \in 1 .. Len(changes) /\ changes'[i] = changes[i]
    BY <1>5, <1>13, <2>2
  <2>3. CASE \E j \in 1 .. Len(st) : changes'[i].seq = st[j]
    BY <1>1, <2>3
  <2>. QED  BY <1>12, <2>2, <2>3
<1>16. PoolIncreasing'
  <2>1. SUFFICES ASSUME NEW q \in Request, NEW i \in 1 .. Len(pool'[q]),
                        NEW j \in 1 .. Len(pool'[q]), i < j
                 PROVE  pool'[q][i] < pool'[q][j]
    BY DEF PoolIncreasing
  <2>2. CASE q = r
    <3>1. n + i < n + j  BY <2>1
    <3>. QED  BY <1>2, <1>10, <2>2, <3>1
  <2>3. CASE q # r  BY <1>6, <2>1, <2>3 DEF SeqInv, PoolIncreasing
  <2>. QED  BY <2>2, <2>3
<1>17. PoolsDisjoint'
  <2>1. SUFFICES ASSUME NEW p \in Request, NEW q \in Request, NEW i \in 1 .. Len(pool'[p]),
                        NEW j \in 1 .. Len(pool'[q]), p # q
                 PROVE  pool'[p][i] # pool'[q][j]
    BY DEF PoolsDisjoint
  <2>2. CASE p = r
    <3>1. pool'[q] = pool[q]  BY <1>6, <2>1, <2>2
    <3>2. n + i \in 1 .. Len(st) /\ pool'[p][i] = st[n + i]  BY <1>10, <2>2
    <3>3. st[n + i] # pool[q][j]  BY <1>3, <2>1, <2>2, <3>1, <3>2
    <3>. QED  BY <3>1, <3>2, <3>3
  <2>3. CASE q = r
    <3>1. pool'[p] = pool[p]  BY <1>6, <2>1, <2>3
    <3>2. n + j \in 1 .. Len(st) /\ pool'[q][j] = st[n + j]  BY <1>10, <2>3
    <3>3. st[n + j] # pool[p][i]  BY <1>3, <2>1, <2>3, <3>1, <3>2
    <3>. QED  BY <3>1, <3>2, <3>3
  <2>4. CASE p # r /\ q # r  BY <1>6, <2>1, <2>4 DEF SeqInv, PoolsDisjoint
  <2>. QED  BY <2>2, <2>3, <2>4
<1>18. PoolUnused'
  <2>1. SUFFICES ASSUME NEW i \in 1 .. Len(changes'), NEW q \in Request,
                        NEW j \in 1 .. Len(pool'[q])
                 PROVE  changes'[i].seq # pool'[q][j]
    BY DEF PoolUnused
  <2>2. CASE i \in 1 .. Len(changes) /\ changes'[i] = changes[i] /\ q = r
    BY <1>4, <1>10, <2>2
  <2>3. CASE i \in 1 .. Len(changes) /\ changes'[i] = changes[i] /\ q # r
    BY <1>6, <2>3 DEF SeqInv, PoolUnused
  <2>4. ASSUME NEW k \in 1 .. Len(e), k \in 1 .. Len(st), changes'[i].seq = st[k]
        PROVE  changes'[i].seq # pool'[q][j]
    <3>1. CASE q = r
      <4>1. k < n + j /\ n + j \in 1 .. Len(st)  BY <1>5, <1>10, <3>1
      <4>2. st[k] < st[n + j] /\ st[k] \in Nat /\ st[n + j] \in Nat
        BY <1>1, <1>2, <2>4, <4>1
      <4>3. st[k] # st[n + j]  BY <4>2
      <4>4. pool'[q][j] = st[n + j]  BY <1>10, <3>1
      <4>. QED  BY <2>4, <4>3, <4>4
    <3>2. CASE q # r
      <4>1. pool'[q] = pool[q]  BY <1>6, <3>2
      <4>2. st[k] # pool[q][j]  BY <1>3, <2>4, <3>2, <4>1
      <4>. QED  BY <2>4, <4>1, <4>2
    <3>. QED  BY <3>1, <3>2
  <2>. QED  BY <1>12, <2>2, <2>3, <2>4
<1>19. PoolAboveOwn'
  <2>1. SUFFICES ASSUME NEW i \in 1 .. Len(changes'), NEW q \in Request,
                        NEW j \in 1 .. Len(pool'[q]), changes'[i].req = q
                 PROVE  changes'[i].seq < pool'[q][j]
    BY DEF PoolAboveOwn
  <2>2. CASE i \in 1 .. Len(changes) /\ changes'[i] = changes[i] /\ q = r
    <3>1. n + j \in 1 .. Len(st) /\ pool'[q][j] = st[n + j]  BY <1>10, <2>2
    <3>2. changes[i].req = r  BY <2>1, <2>2
    <3>3. changes[i].seq < st[n + j]  BY <1>4, <2>2, <3>1, <3>2
    <3>. QED  BY <2>2, <3>1, <3>3
  <2>3. CASE i \in 1 .. Len(changes) /\ changes'[i] = changes[i] /\ q # r
    <3>1. pool'[q] = pool[q]  BY <1>6, <1>13, <2>1, <2>3
    <3>. QED  BY <2>1, <2>3, <3>1 DEF SeqInv, PoolAboveOwn
  <2>4. ASSUME NEW k \in 1 .. Len(e), k \in 1 .. Len(st), changes'[i].seq = st[k],
               changes'[i].req = r
        PROVE  changes'[i].seq < pool'[q][j]
    <3>1. q = r  BY <2>1, <2>4
    <3>2. n + j \in 1 .. Len(st) /\ pool'[q][j] = st[n + j]  BY <1>10, <2>1, <3>1
    <3>3. k < n + j  BY <1>5
    <3>4. st[k] < st[n + j]  BY <1>2, <2>4, <3>2, <3>3
    <3>. QED  BY <2>4, <3>2, <3>4
  <2>5. CASE i \in 1 .. Len(changes) /\ changes'[i] = changes[i]
    BY <2>2, <2>3, <2>5
  <2>6. CASE \E k \in 1 .. Len(e) : /\ i = Len(changes) + k /\ k \in 1 .. Len(st)
                                    /\ changes'[i].seq = st[k] /\ changes'[i].req = r
    BY <2>4, <2>6
  <2>. QED  BY <1>12, <2>5, <2>6
<1>20. SeqUnique'
  <2>0. SUFFICES \A i, j \in 1 .. Len(changes') : i < j => changes'[i].seq # changes'[j].seq
    <3>1. \A i, j \in 1 .. Len(changes') : i # j => i < j \/ j < i
      BY <1>5
    <3>. QED  BY <3>1 DEF SeqUnique
  <2>1. SUFFICES ASSUME NEW i \in 1 .. Len(changes'), NEW j \in 1 .. Len(changes'), i < j
                 PROVE  changes'[i].seq # changes'[j].seq
    OBVIOUS
  <2>2. CASE i \in 1 .. Len(changes) /\ j \in 1 .. Len(changes)
    <3>1. changes[i].seq # changes[j].seq  BY <2>1, <2>2 DEF SeqInv, SeqUnique
    <3>. QED  BY <1>11, <2>2, <3>1
  <2>3. ASSUME i \in 1 .. Len(changes), NEW k \in 1 .. Len(e), k \in 1 .. Len(st),
               changes'[j].seq = st[k]
        PROVE  changes'[i].seq # changes'[j].seq
    <3>1. changes[i].seq # st[k]  BY <1>4, <2>3
    <3>2. changes'[i] = changes[i]  BY <1>11, <2>3
    <3>. QED  BY <2>3, <3>1, <3>2
  <2>4. ASSUME NEW h \in 1 .. Len(e), h \in 1 .. Len(st), changes'[i].seq = st[h],
               NEW k \in 1 .. Len(e), k \in 1 .. Len(st), changes'[j].seq = st[k],
               h < k
        PROVE  changes'[i].seq # changes'[j].seq
    <3>1. st[h] < st[k] /\ st[h] \in Nat /\ st[k] \in Nat  BY <1>1, <1>2, <2>4
    <3>2. st[h] # st[k]  BY ONLY <3>1
    <3>. QED  BY <2>4, <3>2
  <2>5. ASSUME NEW h \in 1 .. Len(e), i = Len(changes) + h, j \in 1 .. Len(changes)
        PROVE  FALSE
    <3>1. h \in Nat /\ h >= 1 /\ j \in Nat /\ j <= Len(changes)  BY <1>5, <2>5
    <3>. QED  BY <1>5, <2>1, <2>5, <3>1
  <2>6. ASSUME NEW h \in 1 .. Len(e), i = Len(changes) + h,
               NEW k \in 1 .. Len(e), j = Len(changes) + k
        PROVE  h < k
    <3>1. h \in Nat /\ k \in Nat  BY <1>5
    <3>. QED  BY <1>5, <2>1, <2>6, <3>1
  <2>7. CASE i \in 1 .. Len(changes)
    BY <1>12, <2>2, <2>3, <2>7
  <2>8. CASE i \notin 1 .. Len(changes)
    <3>1. PICK h \in 1 .. Len(e) : /\ i = Len(changes) + h /\ h \in 1 .. Len(st)
                                   /\ changes'[i].seq = st[h] /\ changes'[i].req = r
      BY <1>12, <2>8
    <3>2. j \notin 1 .. Len(changes)  BY <2>5, <3>1
    <3>3. PICK k \in 1 .. Len(e) : /\ j = Len(changes) + k /\ k \in 1 .. Len(st)
                                   /\ changes'[j].seq = st[k] /\ changes'[j].req = r
      BY <1>12, <3>2
    <3>. QED  BY <2>4, <2>6, <3>1, <3>3
  <2>. QED  BY <2>7, <2>8
<1>21. PushOrder'
  <2>1. SUFFICES ASSUME NEW i \in 1 .. Len(changes'), NEW j \in 1 .. Len(changes'), i < j,
                        changes'[i].req = changes'[j].req
                 PROVE  changes'[i].seq < changes'[j].seq
    BY DEF PushOrder
  <2>2. CASE i \in 1 .. Len(changes) /\ j \in 1 .. Len(changes)
    <3>1. changes'[i] = changes[i] /\ changes'[j] = changes[j]  BY <1>11, <2>2
    <3>2. changes[i].req = changes[j].req  BY <2>1, <3>1
    <3>3. changes[i].seq < changes[j].seq
      BY <2>1, <2>2, <3>2 DEF SeqInv, PushOrder
    <3>. QED  BY <3>1, <3>3
  <2>3. ASSUME i \in 1 .. Len(changes), NEW k \in 1 .. Len(e), k \in 1 .. Len(st),
               changes'[j].seq = st[k], changes'[j].req = r
        PROVE  changes'[i].seq < changes'[j].seq
    <3>1. changes'[i] = changes[i] /\ changes[i].req = r  BY <1>11, <2>1, <2>3
    <3>2. changes[i].seq < st[k]  BY <1>4, <2>3, <3>1
    <3>. QED  BY <2>3, <3>1, <3>2
  <2>4. ASSUME NEW h \in 1 .. Len(e), h \in 1 .. Len(st), changes'[i].seq = st[h],
               NEW k \in 1 .. Len(e), k \in 1 .. Len(st), changes'[j].seq = st[k],
               h < k
        PROVE  changes'[i].seq < changes'[j].seq
    BY <1>2, <2>4
  <2>5. ASSUME NEW h \in 1 .. Len(e), i = Len(changes) + h, j \in 1 .. Len(changes)
        PROVE  FALSE
    <3>1. h \in Nat /\ h >= 1 /\ j \in Nat /\ j <= Len(changes)  BY <1>5, <2>5
    <3>. QED  BY <1>5, <2>1, <2>5, <3>1
  <2>6. ASSUME NEW h \in 1 .. Len(e), i = Len(changes) + h,
               NEW k \in 1 .. Len(e), j = Len(changes) + k
        PROVE  h < k
    <3>1. h \in Nat /\ k \in Nat  BY <1>5
    <3>. QED  BY <1>5, <2>1, <2>6, <3>1
  <2>7. CASE i \in 1 .. Len(changes)
    BY <1>12, <2>2, <2>3, <2>7
  <2>8. CASE i \notin 1 .. Len(changes)
    <3>1. PICK h \in 1 .. Len(e) : /\ i = Len(changes) + h /\ h \in 1 .. Len(st)
                                   /\ changes'[i].seq = st[h] /\ changes'[i].req = r
      BY <1>12, <2>8
    <3>2. j \notin 1 .. Len(changes)  BY <2>5, <3>1
    <3>3. PICK k \in 1 .. Len(e) : /\ j = Len(changes) + k /\ k \in 1 .. Len(st)
                                   /\ changes'[j].seq = st[k] /\ changes'[j].req = r
      BY <1>12, <3>2
    <3>. QED  BY <2>4, <2>6, <3>1, <3>3
  <2>. QED  BY <2>7, <2>8
<1>. QED  BY <1>14, <1>15, <1>16, <1>17, <1>18, <1>19, <1>20, <1>21 DEF SeqInv

\* Pool and reservation together are a stock of increasing numbers.
LEMMA StockIsStock ==
  ASSUME TypeOK, nextSeq >= 1, NEW r \in Request, NEW n \in Nat
  PROVE  IsStock(r, Fresh(r, n), Stock(r, n))
BY StockLemma DEF IsStock

\* A pool alone is a stock, with nothing reserved.
LEMMA PoolIsStock ==
  ASSUME TypeOK, NEW r \in Request
  PROVE  IsStock(r, 0, pool[r]) /\ pool[r] \in Seq(Nat)
<1>1. pool[r] \in Seq(Nat) /\ Len(pool[r]) \in Nat
  BY DEF TypeOK
<1>. QED  BY <1>1 DEF IsStock

\* The sequence invariant holds at first.
LEMMA SeqInit == Init => SeqInv
BY DEF Init, SeqInv, ReservedBelowNext, UsedBelowNext, PoolIncreasing, PoolsDisjoint,
       PoolUnused, PoolAboveOwn, SeqUnique, PushOrder

\* A step that neither reserves, uses nor records a number.
LEMMA SeqUntouched ==
  ASSUME SeqInv, UNCHANGED <<changes, nextSeq, pool>>
  PROVE  SeqInv'
BY DEF SeqInv, ReservedBelowNext, UsedBelowNext, PoolIncreasing, PoolsDisjoint,
       PoolUnused, PoolAboveOwn, SeqUnique, PushOrder

\* Every step keeps the sequence invariant: one case per action.
LEMMA SeqStep == Basic /\ SeqInv /\ [Next]_vars => SeqInv'
<1>. SUFFICES ASSUME Basic, SeqInv, [Next]_vars PROVE SeqInv'
  OBVIOUS
<1>1. TypeOK /\ TypeOK' /\ Control /\ nextSeq >= 1 /\ nextSeq' >= 1
  BY TypeStep, ControlStep DEF Basic
<1>a. TypeOK  BY <1>1
<1>2. <<>> \in Seq(Entry) /\ Len(<<>>) = 0 /\ changes \in Seq(Entry)
      /\ changes \o <<>> = changes
  BY <1>1 DEF TypeOK
<1>3. ASSUME NEW r \in Request, Commit(r) PROVE SeqInv'
  <2>1. AtMutation(r)  BY <1>1, <1>3 DEF Commit, Control
  <2>2. PICK m \in Mutation : m = Current(r)  BY <1>1, <2>1, CurrentType
  <2>3. PICK ks \in Seq(Key) : ks = ChangedKeys(m)  BY ChangedKeysType
  <2>4. PICK n \in Nat : n = Len(ks)  BY <2>3
  <2>5. PICK st \in Seq(Nat) : st = Stock(r, n) /\ Len(st) >= n
    BY <1>1, StockLemma
  <2>6. PICK F \in Nat : F = Fresh(r, n)
    BY <1>1, StockLemma
  <2>7. IsStock(r, F, st)
    BY <1>1, <2>5, <2>6, StockIsStock
  <2>8. \A i \in 1 .. n : st[i] \in Nat /\ ks[i] \in Key
    BY <2>4, <2>5
  <2>9. PICK e : e = [i \in 1 .. n |-> ChangeOf(r, m, ks[i], st[i])]
    OBVIOUS
  <2>10. e \in Seq(Entry) /\ Len(e) = n
    <3>1. \A i \in 1 .. n : ChangeOf(r, m, ks[i], st[i]) \in Entry
      BY <2>8, ChangeOfType
    <3>. QED  BY <2>9, <3>1
  <2>11. \A i \in 1 .. Len(e) : e[i].seq = st[i] /\ e[i].req = r
    BY <2>9, <2>10 DEF ChangeOf
  <2>12. nextSeq' = nextSeq + F /\ changes' = changes \o e
         /\ pool' = [pool EXCEPT ![r] = SubSeq(st, n + 1, Len(st))]
    BY <1>3, <2>2, <2>3, <2>4, <2>5, <2>6, <2>9 DEF Commit
  <2>13. n <= Len(st) /\ Len(e) <= n
    BY <2>5, <2>10
  <2>. QED  BY <1>1, <2>7, <2>10, <2>11, <2>12, <2>13, SeqTransition
<1>4. ASSUME NEW r \in Request, TakeSeq(r) PROVE SeqInv'
  <2>1. PICK st \in Seq(Nat) : st = Stock(r, 1)
    BY <1>1, StockLemma
  <2>2. PICK F \in Nat : F = Fresh(r, 1)
    BY <1>1, StockLemma
  <2>3. IsStock(r, F, st)
    BY <1>1, <2>1, <2>2, StockIsStock
  <2>4. PICK e : e = <<>> /\ e \in Seq(Entry)
    BY <1>2
  <2>5. Len(e) = 0 /\ changes' = changes \o e
    BY <1>2, <1>4, <2>4 DEF TakeSeq
  <2>a. PICK n \in Nat : n = 0
    OBVIOUS
  <2>6. pool' = [pool EXCEPT ![r] = SubSeq(st, n + 1, Len(st))]
    <3>1. SubSeq(st, 1, Len(st)) = st  BY SubSeqFull
    <3>2. n + 1 = 1  BY <2>a
    <3>3. pool' = [pool EXCEPT ![r] = st]  BY <1>4, <2>1 DEF TakeSeq
    <3>. QED  BY ONLY <3>1, <3>2, <3>3
  <2>7. nextSeq' = nextSeq + F  BY <1>4, <2>2 DEF TakeSeq
  <2>8. n <= Len(st) /\ Len(e) <= n /\ \A i \in 1 .. Len(e) : e[i].seq = st[i] /\ e[i].req = r
    BY <2>5, <2>a
  <2>9. e \in Seq(Entry)  BY <2>4
  <2>. QED  BY <1>1, <2>3, <2>5, <2>6, <2>7, <2>8, <2>9, SeqTransition
\* The pool's first number is used.
<1>5. ASSUME NEW r \in Request, pool[r] # <<>>, NEW e \in Seq(Entry), Len(e) <= 1,
             Len(e) = 1 => e[1].seq = Head(pool[r]) /\ e[1].req = r,
             nextSeq' = nextSeq, changes' = changes \o e,
             pool' = [pool EXCEPT ![r] = Tail(@)]
      PROVE  SeqInv'
  <2>1. PICK p \in Seq(Nat) : p = pool[r]  BY <1>1, PoolIsStock
  <2>2. p # <<>> /\ Len(p) >= 1  BY <1>5, <2>1
  <2>3. IsStock(r, 0, p)  BY <1>1, <2>1, PoolIsStock
  <2>4. Tail(p) = SubSeq(p, 1 + 1, Len(p)) /\ Head(p) = p[1]
    BY <2>2, TailIsSubSeq
  <2>5. pool' = [pool EXCEPT ![r] = SubSeq(p, 1 + 1, Len(p))]
    BY <1>5, <2>1, <2>4
  <2>6. nextSeq' = nextSeq + 0
    BY <1>1, <1>5 DEF TypeOK
  <2>7. \A i \in 1 .. Len(e) : e[i].seq = p[i] /\ e[i].req = r
    <3>1. Len(e) \in Nat  OBVIOUS
    <3>a. PICK l \in Nat : l = Len(e) /\ l <= 1  BY <1>5, <3>1
    <3>b. \A i \in 1 .. l : i = 1 /\ l = 1  BY ONLY <3>a, l \in Nat
    <3>2. \A i \in 1 .. Len(e) : i = 1 /\ Len(e) = 1  BY <3>a, <3>b
    <3>. QED  BY <1>5, <2>1, <2>4, <3>2
  <2>8. 1 <= Len(p)  BY <2>2
  <2>. QED  BY <1>1, <1>5, <2>3, <2>5, <2>6, <2>7, <2>8, SeqTransition
<1>6. ASSUME NEW r \in Request, RecordChange(r) PROVE SeqInv'
  <2>1. AtMutation(r) /\ pending[r] # <<>> /\ pool[r] # <<>>
    BY <1>1, <1>6 DEF RecordChange, Control
  <2>2. PICK m \in Mutation : m = Current(r)  BY <1>1, <2>1, CurrentType
  <2>a. pending[r] \in Seq(Key) /\ pool[r] \in Seq(Nat)
    BY <1>a DEF TypeOK
  <2>3. PICK k \in Key : k = Head(pending[r])
    BY <2>1, <2>a
  <2>4. PICK s \in Nat : s = Head(pool[r])
    BY <2>1, <2>a
  <2>5. PICK x \in Entry : x = ChangeOf(r, m, k, s)
    BY ChangeOfType
  <2>6. x.seq = s /\ x.req = r
    BY <2>5 DEF ChangeOf
  <2>7. changes' = changes \o <<x>>
    <3>1. changes' = Append(changes, x)
      BY <1>6, <2>2, <2>3, <2>4, <2>5 DEF RecordChange
    <3>. QED  BY <1>2, <3>1
  <2>8. nextSeq' = nextSeq /\ pool' = [pool EXCEPT ![r] = Tail(@)]
    BY <1>6 DEF RecordChange
  <2>9. PICK e : e = <<x>>
    OBVIOUS
  <2>10. e \in Seq(Entry) /\ Len(e) = 1 /\ Len(e) <= 1 /\ e[1] = x
    BY <2>9
  <2>. QED  BY <1>5, <2>1, <2>4, <2>6, <2>7, <2>8, <2>9, <2>10
<1>7. ASSUME NEW r \in Request, Fault(r) PROVE SeqInv'
  <2>1. nextSeq' = nextSeq /\ changes' = changes
    BY <1>7 DEF Fault, database
  <2>2. CASE pc[r] = "record"
    <3>1. pool[r] # <<>>  BY <1>1, <2>2 DEF Control
    <3>2. pool' = [pool EXCEPT ![r] = Tail(@)]  BY <1>7, <2>2 DEF Fault
    <3>3. PICK e : e = <<>> /\ e \in Seq(Entry)  BY <1>2
    <3>4. Len(e) = 0 /\ Len(e) <= 1 /\ changes' = changes \o e  BY <1>2, <2>1, <3>3
    <3>5. Len(e) = 1 => e[1].seq = Head(pool[r]) /\ e[1].req = r  BY <3>4
    <3>6. e \in Seq(Entry)  BY <3>3
    <3>. QED  BY <1>5, <2>1, <3>1, <3>2, <3>4, <3>5, <3>6
  <2>3. CASE pc[r] # "record"
    BY <1>7, <2>1, <2>3, SeqUntouched DEF Fault
  <2>. QED  BY <2>2, <2>3
<1>8. CASE UNCHANGED <<changes, nextSeq, pool>>
  BY <1>8, SeqUntouched
<1>. QED  BY <1>3, <1>4, <1>6, <1>7, <1>8 DEF Next, Step, Begin, DedupInBatch, DedupStored,
       Admit, Refuse, Operate, SetRead, SetWrite, Respond, SetFails, Crash, vars, database,
       sequence

----------------------------------------------------------------------------
(* What is reported as applied. *)

\* A verdict "ok" is given only after the execution.
ExecutedInv ==
  /\ \A r \in Request : applied[r] \subseteq executed
  /\ \A m \in Mutation : idempotency[m] = "ok" => m \in executed
  /\ \A r \in Request : pc[r] \in {"take", "record"} => Current(r) \in executed
  /\ \A r \in Request :
       pc[r] \in {"setRead", "setWrite"} /\ verdict[r] = "ok" => Current(r) \in executed

\* Every step keeps: what is reported as applied was executed.
LEMMA ExecutedStep == Basic /\ ExecutedInv /\ [Next]_vars => ExecutedInv'
<1>. SUFFICES ASSUME Basic, ExecutedInv, [Next]_vars PROVE ExecutedInv'
  OBVIOUS
<1>1. TypeOK /\ Control
  BY DEF Basic
<1>2. executed \subseteq executed'
  BY DEF Next, Step, Begin, DedupInBatch, DedupStored, Admit, Refuse, Commit, Operate,
     TakeSeq, RecordChange, SetRead, SetWrite, Respond, Fault, SetFails, Crash, vars
<1> DEFINE E(q) == /\ applied[q] \subseteq executed
                   /\ pc[q] \in {"take", "record"} => Current(q) \in executed
                   /\ pc[q] \in {"setRead", "setWrite"} /\ verdict[q] = "ok"
                        => Current(q) \in executed
           I == \A m \in Mutation : idempotency[m] = "ok" => m \in executed
<1>3. I /\ \A q \in Request : E(q)
  BY DEF ExecutedInv
<1>4. I' /\ (\A q \in Request : E(q)') => ExecutedInv'
  BY DEF ExecutedInv
<1>5. UNCHANGED idempotency => I'
  BY <1>2, <1>3
<1>6. ASSUME NEW q \in Request, applied'[q] = applied[q], pc'[q] = pc[q],
             verdict'[q] = verdict[q], batch'[q] = batch[q], index'[q] = index[q]
      PROVE  E(q)'
  BY <1>2, <1>3, <1>6 DEF Current
<1>. USE <1>1 DEF TypeOK
<1>7. ASSUME NEW r \in Request, Begin(r) PROVE ExecutedInv'
  <2>1. ASSUME NEW q \in Request, q = r PROVE E(q)'
    BY <1>2, <1>3, <1>7, <2>1 DEF Begin, answer
  <2>2. ASSUME NEW q \in Request, q # r PROVE E(q)'
    BY <1>6, <1>7, <2>2 DEF Begin, answer
  <2>. QED  BY <1>4, <1>5, <1>7, <2>1, <2>2 DEF Begin
<1>8. ASSUME NEW r \in Request, DedupInBatch(r) \/ DedupStored(r) \/ SetFails(r)
      PROVE  ExecutedInv'
  <2>0. AtMutation(r)
    BY <1>8 DEF DedupInBatch, DedupStored, SetFails, Control
  <2>a. Current(r) \in Mutation
    BY <2>0, CurrentType
  <2>b. applied' = applied
        \/ (applied' = [applied EXCEPT ![r] = @ \cup {Current(r)}] /\ Current(r) \in executed)
    BY <1>3, <1>8, <2>a DEF DedupInBatch, DedupStored, SetFails
  <2>c. /\ pc' = [pc EXCEPT ![r] = "next"] /\ verdict' = verdict /\ batch' = batch
        /\ \A q \in Request : q # r => index'[q] = index[q]
        /\ UNCHANGED idempotency
    BY <1>8 DEF DedupInBatch, DedupStored, SetFails, Advance
  <2>1. ASSUME NEW q \in Request, q = r PROVE E(q)'
    BY <1>2, <1>3, <2>1, <2>b, <2>c
  <2>2. ASSUME NEW q \in Request, q # r PROVE E(q)'
    BY <1>6, <2>2, <2>b, <2>c
  <2>. QED  BY <1>4, <1>5, <2>1, <2>2, <2>c
\* A verdict is given: if it is "ok", the mutation has been executed.
<1>9. ASSUME NEW r \in Request, NEW v, Settle(r, v), UNCHANGED <<batch, index>>,
             UNCHANGED idempotency, AtMutation(r), v = "ok" => Current(r) \in executed'
      PROVE  ExecutedInv'
  <2>a. Current(r) \in Mutation /\ Current(r)' = Current(r)
    BY <1>9, CurrentType DEF Current
  <2>b. applied' = applied
        \/ (applied' = [applied EXCEPT ![r] = @ \cup {Current(r)}] /\ v = "ok")
    BY <1>9 DEF Settle
  <2>c. pc' = [pc EXCEPT ![r] = "setRead"] /\ verdict' = [verdict EXCEPT ![r] = v]
    BY <1>9 DEF Settle
  <2>1. ASSUME NEW q \in Request, q = r PROVE E(q)'
    BY <1>2, <1>3, <1>9, <2>1, <2>a, <2>b, <2>c
  <2>2. ASSUME NEW q \in Request, q # r PROVE E(q)'
    BY <1>6, <1>9, <2>2, <2>b, <2>c
  <2>. QED  BY <1>4, <1>5, <1>9, <2>1, <2>2
\* A request goes on from one phase to another that promises nothing more.
<1>10. ASSUME NEW r \in Request, NEW p \in {"execute", "take", "record", "setRead", "setWrite",
                                             "done"},
              pc' = [pc EXCEPT ![r] = p], UNCHANGED <<batch, index, applied, verdict>>,
              UNCHANGED idempotency,
              p \in {"take", "record"} => Current(r) \in executed',
              p \in {"setRead", "setWrite"} => pc[r] \in {"setRead", "setWrite"}
       PROVE  ExecutedInv'
  <2>1. ASSUME NEW q \in Request, q = r PROVE E(q)'
    BY <1>2, <1>3, <1>10, <2>1 DEF Current
  <2>2. ASSUME NEW q \in Request, q # r PROVE E(q)'
    BY <1>6, <1>10, <2>2
  <2>. QED  BY <1>4, <1>5, <1>10, <2>1, <2>2
<1>11. ASSUME NEW r \in Request, Admit(r) \/ Refuse(r) PROVE ExecutedInv'
  <2>1. AtMutation(r) /\ UNCHANGED <<batch, index>> /\ UNCHANGED idempotency
    BY <1>11 DEF Admit, Refuse, Control
  <2>2. CASE \E v : Settle(r, v) /\ v # "ok"
    BY <1>9, <2>1, <2>2
  <2>3. CASE pc' = [pc EXCEPT ![r] = "execute"] /\ UNCHANGED <<answer, verdict>>
    BY <1>10, <2>1, <2>3 DEF answer
  <2>. QED  BY <1>11, <2>2, <2>3 DEF Admit, Refuse
<1>12. ASSUME NEW r \in Request, Commit(r) PROVE ExecutedInv'
  <2>1. AtMutation(r) /\ Current(r) \in executed'
    BY <1>12 DEF Commit, Control
  <2>. QED  BY <1>9, <1>12, <2>1 DEF Commit
<1>13. ASSUME NEW r \in Request, Operate(r) PROVE ExecutedInv'
  <2>1. AtMutation(r) /\ Current(r) \in executed' /\ UNCHANGED <<batch, index>>
        /\ UNCHANGED idempotency
    BY <1>13 DEF Operate, Control
  <2>2. CASE Settle(r, "ok")  BY <1>9, <2>1, <2>2
  <2>3. CASE pc' = [pc EXCEPT ![r] = "take"] /\ UNCHANGED <<answer, verdict>>
    BY <1>10, <2>1, <2>3 DEF answer
  <2>. QED  BY <1>13, <2>2, <2>3 DEF Operate
<1>14. ASSUME NEW r \in Request, TakeSeq(r) PROVE ExecutedInv'
  <2>1. Current(r) \in executed'
    BY <1>2, <1>3, <1>14 DEF TakeSeq
  <2>. QED  BY <1>10, <1>14, <2>1 DEF TakeSeq, answer
<1>15. ASSUME NEW r \in Request, RecordChange(r) PROVE ExecutedInv'
  <2>1. AtMutation(r) /\ Current(r) \in executed' /\ UNCHANGED <<batch, index>>
        /\ UNCHANGED idempotency
    BY <1>2, <1>3, <1>15 DEF RecordChange, Control
  <2>2. CASE Settle(r, "ok")  BY <1>9, <2>1, <2>2
  <2>3. CASE pc' = [pc EXCEPT ![r] = "take"] /\ UNCHANGED <<answer, verdict>>
    BY <1>10, <2>1, <2>3 DEF answer
  <2>. QED  BY <1>15, <2>2, <2>3 DEF RecordChange
<1>16. ASSUME NEW r \in Request, Fault(r) PROVE ExecutedInv'
  <2>1. AtMutation(r)  BY <1>16 DEF Fault, Control
  <2>. QED  BY <1>9, <1>16, <2>1 DEF Fault
<1>17. ASSUME NEW r \in Request, SetRead(r) \/ Respond(r) PROVE ExecutedInv'
  BY <1>10, <1>17 DEF SetRead, Respond, answer
<1>18. ASSUME NEW r \in Request, SetWrite(r) PROVE ExecutedInv'
  <2>0. AtMutation(r)
    BY <1>18 DEF SetWrite, Control
  <2>a. Current(r) \in Mutation
    BY <2>0, CurrentType
  <2>b. I'
    <3>1. SUFFICES ASSUME NEW m \in Mutation, idempotency'[m] = "ok" PROVE m \in executed'
      OBVIOUS
    <3>2. CASE idempotency[m] = "ok"  BY <1>2, <1>3, <3>2
    <3>3. CASE idempotency[m] # "ok"
      <4>1. m = Current(r) /\ Stored(r) = "ok"
        BY <1>18, <2>a, <3>1, <3>3 DEF SetWrite
      <4>2. verdict[r] = "ok"
        BY <3>3, <4>1 DEF Stored
      <4>. QED  BY <1>2, <1>3, <1>18, <4>1, <4>2 DEF SetWrite
    <3>. QED  BY <3>2, <3>3
  <2>1. ASSUME NEW q \in Request, q = r PROVE E(q)'
    BY <1>2, <1>3, <1>18, <2>1 DEF SetWrite, Advance
  <2>2. ASSUME NEW q \in Request, q # r PROVE E(q)'
    BY <1>6, <1>18, <2>2 DEF SetWrite, Advance
  <2>. QED  BY <1>4, <2>1, <2>2, <2>b
<1>19. ASSUME Crash PROVE ExecutedInv'
  <2>1. ASSUME NEW q \in Request PROVE E(q)'
    <3>1. pc'[q] = "dead" \/ pc'[q] = pc[q]  BY <1>19 DEF Crash
    <3>. QED  BY <1>2, <1>3, <1>19, <3>1 DEF Crash, answer, Current
  <2>. QED  BY <1>4, <1>5, <1>19, <2>1 DEF Crash
<1>20. CASE UNCHANGED vars
  <2>1. ASSUME NEW q \in Request PROVE E(q)'
    BY <1>6, <1>20 DEF vars, answer
  <2>. QED  BY <1>4, <1>5, <1>20, <2>1 DEF vars
<1>. QED  BY <1>7, <1>8, <1>11, <1>12, <1>13, <1>14, <1>15, <1>16, <1>17, <1>18, <1>19,
       <1>20 DEF Next, Step

----------------------------------------------------------------------------
(* What the rows and the cursors of a response say of the change log. *)

\* What a commit adds to the change log, and the numbers it uses for it.
LEMMA CommitFacts ==
  ASSUME Basic, SeqInv, NEW r \in Request, Commit(r)
  PROVE  \E m \in Mutation, ks \in Seq(Key), n \in 0 .. 2, st \in Seq(Nat) :
           /\ m = Current(r) /\ ks = ChangedKeys(m) /\ n = Len(ks) /\ st = Stock(r, n)
           /\ \A i \in 1 .. n : st[i] \in Nat /\ st[i] < nextSeq' /\ ks[i] \in Key
           /\ Len(changes') = Len(changes) + n
           /\ \A i \in 1 .. Len(changes) : changes'[i] = changes[i]
           /\ \A j \in 1 .. n : changes'[Len(changes) + j] = ChangeOf(r, m, ks[j], st[j])
           /\ rows' = RowsAfter(m) /\ nextSeq <= nextSeq'
<1>1. TypeOK /\ Control /\ nextSeq >= 1
  BY DEF Basic
<1>2. AtMutation(r)  BY <1>1 DEF Commit, Control
<1>3. PICK m \in Mutation : m = Current(r)  BY <1>1, <1>2, CurrentType
<1>4. PICK ks \in Seq(Key) : ks = ChangedKeys(m) /\ Len(ks) \in 0 .. 2  BY ChangedKeysType
<1>5. PICK n \in 0 .. 2 : n = Len(ks)  BY <1>4
<1>6. n \in Nat  BY <1>5
<1>7. PICK st \in Seq(Nat) : st = Stock(r, n) /\ Len(st) >= n
  BY <1>1, <1>6, StockLemma
<1>8. PICK F \in Nat : F = Fresh(r, n)  BY <1>1, <1>6, StockLemma
<1>9. \A i \in 1 .. Len(st) : st[i] < nextSeq + F
  <2>1. IsStock(r, F, st)  BY <1>1, <1>6, <1>7, <1>8, StockIsStock
  <2>. QED  BY <1>1, <2>1, StockInv
<1>10. nextSeq' = nextSeq + F
  BY <1>3, <1>4, <1>5, <1>8 DEF Commit
<1>11. \A i \in 1 .. n : st[i] \in Nat /\ st[i] < nextSeq' /\ ks[i] \in Key
  BY <1>5, <1>6, <1>7, <1>9, <1>10
<1>12. PICK e : e = [i \in 1 .. n |-> ChangeOf(r, m, ks[i], st[i])]
  OBVIOUS
<1>13. e \in Seq(Entry) /\ Len(e) = n
  <2>1. \A i \in 1 .. n : ChangeOf(r, m, ks[i], st[i]) \in Entry
    BY <1>11, ChangeOfType
  <2>. QED  BY <1>6, <1>12, <2>1
<1>14. changes' = changes \o e /\ rows' = RowsAfter(m)
  BY <1>3, <1>4, <1>5, <1>7, <1>12 DEF Commit
<1>15. changes \in Seq(Entry)  BY <1>1 DEF TypeOK
<1>16. /\ Len(changes') = Len(changes) + n
       /\ \A i \in 1 .. Len(changes) : changes'[i] = changes[i]
       /\ \A j \in 1 .. n : changes'[Len(changes) + j] = e[j]
  BY <1>13, <1>14, <1>15, EntryConcatLemma
<1>17. \A j \in 1 .. n : e[j] = ChangeOf(r, m, ks[j], st[j])
  BY <1>12
<1>18. nextSeq <= nextSeq'
  BY <1>1, <1>10 DEF TypeOK
<1>19. \A j \in 1 .. n : changes'[Len(changes) + j] = ChangeOf(r, m, ks[j], st[j])
  BY <1>16, <1>17
<1>20. WITNESS m \in Mutation, ks \in Seq(Key), n \in 0 .. 2, st \in Seq(Nat)
<1>. QED  BY <1>3, <1>4, <1>5, <1>7, <1>11, <1>14, <1>16, <1>18, <1>19

\* A row is what the last change of its key says, and there is none if no
\* change has been made to it.
Follows(k) ==
  \/ /\ rows[k] = None
     /\ \A i \in 1 .. Len(changes) : changes[i].key # k
  \/ \E last \in 1 .. Len(changes) :
       /\ changes[last].key = k
       /\ \A i \in 1 .. Len(changes) : changes[i].key = k => i <= last
       /\ rows[k] = IF changes[last].op = "delete" THEN None ELSE changes[last].by

RowsFollow == atomic => \A k \in Key : Follows(k)

\* A row that is left as it is follows the changes, if none is added for it.
LEMMA FollowsKept ==
  ASSUME Basic, NEW k \in Key, Follows(k), NEW n \in Nat,
         Len(changes') = Len(changes) + n,
         \A i \in 1 .. Len(changes) : changes'[i] = changes[i],
         \A j \in 1 .. n : changes'[Len(changes) + j].key # k,
         rows'[k] = rows[k]
  PROVE  Follows(k)'
<1>1. Len(changes) \in Nat
  BY DEF Basic, TypeOK
<1>2. ASSUME NEW i \in 1 .. Len(changes'), changes'[i].key = k
      PROVE  i \in 1 .. Len(changes)
  <2>1. CASE i > Len(changes)
    <3>1. i - Len(changes) \in 1 .. n /\ i = Len(changes) + (i - Len(changes))
      BY <1>1, <2>1
    <3>. QED  BY <1>2, <3>1
  <2>. QED  BY <1>1, <2>1
<1>3. 1 .. Len(changes) \subseteq 1 .. Len(changes')
  BY <1>1
<1>4. CASE rows[k] = None /\ \A i \in 1 .. Len(changes) : changes[i].key # k
  BY <1>2, <1>4 DEF Follows
<1>5. ASSUME NEW last \in 1 .. Len(changes), changes[last].key = k,
             \A i \in 1 .. Len(changes) : changes[i].key = k => i <= last,
             rows[k] = IF changes[last].op = "delete" THEN None ELSE changes[last].by
      PROVE  Follows(k)'
  <2>1. last \in 1 .. Len(changes') /\ changes'[last] = changes[last]
    BY <1>3, <1>5
  <2>2. \A i \in 1 .. Len(changes') : changes'[i].key = k => i <= last
    BY <1>2, <1>5
  <2>. QED  BY <1>5, <2>1, <2>2 DEF Follows
<1>. QED  BY <1>4, <1>5 DEF Follows

\* A row that is written follows the change that is added for it.
LEMMA FollowsWritten ==
  ASSUME Basic, NEW k \in Key, NEW n \in Nat, NEW j \in 1 .. n,
         Len(changes') = Len(changes) + n,
         changes'[Len(changes) + j].key = k,
         \A i \in j + 1 .. n : changes'[Len(changes) + i].key # k,
         rows'[k] = IF changes'[Len(changes) + j].op = "delete" THEN None
                    ELSE changes'[Len(changes) + j].by
  PROVE  Follows(k)'
<1>1. Len(changes) \in Nat
  BY DEF Basic, TypeOK
<1>2. PICK last : last = Len(changes) + j
  OBVIOUS
<1>3. last \in 1 .. Len(changes')
  BY <1>1, <1>2
<1>4. ASSUME NEW i \in 1 .. Len(changes'), changes'[i].key = k PROVE i <= last
  <2>1. CASE i > last
    <3>1. i - Len(changes) \in j + 1 .. n /\ i = Len(changes) + (i - Len(changes))
      BY <1>1, <1>2, <2>1
    <3>. QED  BY <1>4, <3>1
  <2>. QED  BY <1>1, <1>2, <2>1
<1>. QED  BY <1>2, <1>3, <1>4 DEF Follows

\* With transactions every step keeps the rows what the changes say.
LEMMA RowsFollowStep == Basic /\ SeqInv /\ RowsFollow /\ [Next]_vars => RowsFollow'
<1>. SUFFICES ASSUME Basic, SeqInv, RowsFollow, [Next]_vars, atomic, NEW k \in Key
              PROVE  Follows(k)'
  BY AdapterFixed DEF RowsFollow
<1>1. TypeOK /\ Control /\ Follows(k)
  BY DEF Basic, RowsFollow
<1>2. ASSUME NEW r \in Request, Commit(r) PROVE Follows(k)'
  <2>1. PICK m \in Mutation, ks \in Seq(Key), n \in 0 .. 2, st \in Seq(Nat) :
          /\ ks = ChangedKeys(m) /\ n = Len(ks)
          /\ Len(changes') = Len(changes) + n
          /\ \A i \in 1 .. Len(changes) : changes'[i] = changes[i]
          /\ \A j \in 1 .. n : changes'[Len(changes) + j] = ChangeOf(r, m, ks[j], st[j])
          /\ rows' = RowsAfter(m)
    BY <1>2, CommitFacts
  <2>2. \A j \in 1 .. n :
          /\ changes'[Len(changes) + j].key = ks[j] /\ changes'[Len(changes) + j].by = m
          /\ changes'[Len(changes) + j].op = IF ks[j] = key[m] THEN operation[m] ELSE "merge"
    <3>1. TAKE j \in 1 .. n
    <3>2. changes'[Len(changes) + j] = ChangeOf(r, m, ks[j], st[j])
      BY <2>1
    <3>. QED  BY <3>2 DEF ChangeOf
  <2>3. n \in Nat  OBVIOUS
  <2>4. ASSUME rows'[k] = rows[k], \A j \in 1 .. n : ks[j] # k PROVE Follows(k)'
    <3>1. \A j \in 1 .. n : changes'[Len(changes) + j].key # k
      BY <2>2, <2>4
    <3>. QED  BY <1>1, <2>1, <2>3, <2>4, <3>1, FollowsKept
  <2>5. CASE NoEffect(m)
    <3>1. ks = <<>>  BY <2>1, <2>5 DEF ChangedKeys
    <3>2. n = 0  BY <2>1, <3>1
    <3>3. rows'[k] = rows[k]  BY <2>1, <2>5 DEF RowsAfter
    <3>. QED  BY <2>4, <3>2, <3>3
  <2>6. CASE ~NoEffect(m)
    <3>1. rows'[k] = IF k = key[m] THEN IF operation[m] = "delete" THEN None ELSE m
                     ELSE IF k \in PropagatedKey(m) THEN m ELSE rows[k]
      BY <2>1, <2>6 DEF RowsAfter
    <3>2. /\ PropagatedKey(m) = {} => n = 1 /\ ks[1] = key[m]
          /\ PropagatedKey(m) # {} => n = 2 /\ ks[1] = key[m] /\ ks[2] = Propagated[m]
      <4>1. CASE PropagatedKey(m) = {}
        <5>1. ks = <<key[m]>>  BY <2>1, <2>6, <4>1 DEF ChangedKeys
        <5>. QED  BY <2>1, <4>1, <5>1
      <4>2. CASE PropagatedKey(m) # {}
        <5>1. ks = <<key[m], Propagated[m]>>  BY <2>1, <2>6, <4>2 DEF ChangedKeys
        <5>. QED  BY <2>1, <4>2, <5>1
      <4>. QED  BY <4>1, <4>2
    <3>3. \A p \in PropagatedKey(m) : p = Propagated[m] /\ p # key[m]
      BY DEF PropagatedKey
    <3>4. CASE k = key[m]
      <4>1. 1 \in 1 .. n /\ ks[1] = k  BY <2>3, <3>2, <3>4
      <4>2. \A i \in 2 .. n : ks[i] # k
        BY <3>2, <3>3, <3>4
      <4>3. /\ changes'[Len(changes) + 1].key = k
            /\ \A i \in 1 + 1 .. n : changes'[Len(changes) + i].key # k
            /\ rows'[k] = IF changes'[Len(changes) + 1].op = "delete" THEN None
                          ELSE changes'[Len(changes) + 1].by
        BY <2>2, <2>3, <3>1, <3>4, <4>1, <4>2
      <4>. QED  BY <2>1, <2>3, <4>1, <4>3, FollowsWritten
    <3>5. CASE k # key[m] /\ k \in PropagatedKey(m)
      <4>1. n = 2 /\ ks[2] = k  BY <3>2, <3>3, <3>5
      <4>2. /\ changes'[Len(changes) + 2].key = k
            /\ \A i \in 2 + 1 .. n : changes'[Len(changes) + i].key # k
            /\ rows'[k] = IF changes'[Len(changes) + 2].op = "delete" THEN None
                          ELSE changes'[Len(changes) + 2].by
        BY <2>2, <3>1, <3>5, <4>1
      <4>3. 2 \in 1 .. n  BY <4>1
      <4>. QED  BY <2>1, <2>3, <4>2, <4>3, FollowsWritten
    <3>6. CASE k # key[m] /\ k \notin PropagatedKey(m)
      <4>1. \A j \in 1 .. n : ks[j] # k
        <5>1. PropagatedKey(m) # {} => Propagated[m] \in PropagatedKey(m)
          BY <3>3
        <5>. QED  BY <3>2, <3>6, <5>1
      <4>. QED  BY <2>4, <3>1, <3>6, <4>1
    <3>. QED  BY <3>4, <3>5, <3>6
  <2>. QED  BY <2>5, <2>6
\* Only the branch without transactions writes rows and changes apart.
<1>3. ASSUME NEW r \in Request PROVE ~Operate(r) /\ ~RecordChange(r)
  BY <1>1 DEF Operate, RecordChange, Control
<1>4. CASE UNCHANGED <<rows, changes>>
  BY <1>1, <1>4 DEF Follows
<1>. QED  BY <1>2, <1>3, <1>4 DEF Next, Step, Begin, DedupInBatch, DedupStored, Admit, Refuse,
       TakeSeq, SetRead, SetWrite, Respond, Fault, SetFails, Crash, vars, database

----------------------------------------------------------------------------
(* The cursors of a response. *)

\* The maxima a request keeps cover its changes, one it is about to record as
\* well, and nothing it reports is ahead of the sequence.
Covered(r) ==
  /\ \A i \in 1 .. Len(changes) : changes[i].req = r =>
       changes[i].seq <= resourceSeqs[r][resourceOf[changes[i].key]]
  /\ \A x \in Resource : resourceSeqs[r][x] <= latestSeq[r]
  /\ cursorBefore[r] < nextSeq /\ latestSeq[r] < nextSeq
  /\ pc[r] = "record" => pool[r][1] <= resourceSeqs[r][resourceOf[Head(pending[r])]]

CoverInv == \A r \in Request : Covered(r)

\* A number that is bumped into the maxima of a request.
LEMMA BumpCovers ==
  ASSUME NEW seqs \in [Resource -> Nat], NEW top \in Nat, NEW k \in Key, NEW s \in Nat,
         \A x \in Resource : seqs[x] <= top
  PROVE  /\ Bump(seqs, k, s) \in [Resource -> Nat] /\ Later(top, s) \in Nat
         /\ s <= Bump(seqs, k, s)[resourceOf[k]]
         /\ \A x \in Resource : /\ seqs[x] <= Bump(seqs, k, s)[x]
                               /\ Bump(seqs, k, s)[x] <= Later(top, s)
         /\ Later(top, s) \in {top, s}
<1>1. resourceOf[k] \in Resource
  BY InputAssumption
<1>. QED  BY <1>1 DEF Bump, Later

\* What a step leaves alone stays covered: the sequence only grows.
LEMMA CoveredKept ==
  ASSUME TypeOK, TypeOK', NEW q \in Request, Covered(q), nextSeq <= nextSeq',
         \A i \in 1 .. Len(changes') : changes'[i].req = q =>
           i <= Len(changes) /\ changes'[i] = changes[i],
         resourceSeqs'[q] = resourceSeqs[q], latestSeq'[q] = latestSeq[q],
         cursorBefore'[q] = cursorBefore[q],
         pc'[q] = "record" => pc[q] = "record" /\ pool'[q] = pool[q] /\ pending'[q] = pending[q]
  PROVE  Covered(q)'
<1>1. /\ Len(changes) \in Nat /\ Len(changes') \in Nat /\ nextSeq \in Nat /\ nextSeq' \in Nat
      /\ cursorBefore[q] \in Nat /\ latestSeq[q] \in Nat
  BY DEF TypeOK
<1>2. \A i \in 1 .. Len(changes') : changes'[i].req = q =>
        changes'[i].seq <= resourceSeqs'[q][resourceOf[changes'[i].key]]
  <2>1. TAKE i \in 1 .. Len(changes')
  <2>2. HAVE changes'[i].req = q
  <2>3. i \in 1 .. Len(changes) /\ changes'[i] = changes[i]
    BY <1>1, <2>2
  <2>. QED  BY <2>2, <2>3 DEF Covered
<1>3. cursorBefore'[q] < nextSeq' /\ latestSeq'[q] < nextSeq'
  BY <1>1 DEF Covered
<1>4. \A x \in Resource : resourceSeqs'[q][x] <= latestSeq'[q]
  BY DEF Covered
<1>5. pc'[q] = "record" => pool'[q][1] <= resourceSeqs'[q][resourceOf[Head(pending'[q])]]
  BY DEF Covered
<1>. QED  BY <1>2, <1>3, <1>4, <1>5 DEF Covered

\* Every step keeps the responses covered.
LEMMA CoverStep == Basic /\ SeqInv /\ CoverInv /\ [Next]_vars => CoverInv'
<1>. SUFFICES ASSUME Basic, SeqInv, CoverInv, [Next]_vars, NEW q \in Request
              PROVE  Covered(q)'
  BY DEF CoverInv
<1>1. TypeOK /\ TypeOK' /\ Control /\ nextSeq \in Nat /\ nextSeq >= 1
  BY TypeStep DEF Basic, TypeOK
<1>2. /\ Covered(q) /\ changes \in Seq(Entry) /\ Len(changes) \in Nat
      /\ resourceSeqs[q] \in [Resource -> Nat] /\ latestSeq[q] \in Nat /\ cursorBefore[q] \in Nat
  <2>1. Covered(q)
    BY DEF CoverInv
  <2>2. /\ changes \in Seq(Entry) /\ resourceSeqs[q] \in [Resource -> Nat]
        /\ latestSeq[q] \in Nat /\ cursorBefore[q] \in Nat
    BY <1>1 DEF TypeOK
  <2>3. Len(changes) \in Nat
    BY <2>2
  <2>. QED  BY <2>1, <2>2, <2>3
\* The numbers of a mutation are used when its transaction commits.
<1>3. ASSUME NEW r \in Request, Commit(r) PROVE Covered(q)'
  <2>1. PICK m \in Mutation, ks \in Seq(Key), n \in 0 .. 2, st \in Seq(Nat) :
          /\ m = Current(r) /\ ks = ChangedKeys(m) /\ n = Len(ks) /\ st = Stock(r, n)
          /\ \A i \in 1 .. n : st[i] \in Nat /\ st[i] < nextSeq' /\ ks[i] \in Key
          /\ Len(changes') = Len(changes) + n
          /\ \A i \in 1 .. Len(changes) : changes'[i] = changes[i]
          /\ \A j \in 1 .. n : changes'[Len(changes) + j] = ChangeOf(r, m, ks[j], st[j])
          /\ nextSeq <= nextSeq'
    BY <1>3, CommitFacts
  <2>2. \A j \in 1 .. n : /\ changes'[Len(changes) + j].req = r
                         /\ changes'[Len(changes) + j].seq = st[j]
                         /\ changes'[Len(changes) + j].key = ks[j]
    <3>1. TAKE j \in 1 .. n
    <3>2. changes'[Len(changes) + j] = ChangeOf(r, m, ks[j], st[j])
      BY <2>1
    <3>. QED  BY <3>2 DEF ChangeOf
  <2>3. \A i \in 1 .. Len(changes') :
          \/ i \in 1 .. Len(changes) /\ changes'[i] = changes[i]
          \/ \E j \in 1 .. n : i = Len(changes) + j
    <3>1. TAKE i \in 1 .. Len(changes')
    <3>2. CASE i > Len(changes)
      <4>1. i - Len(changes) \in 1 .. n /\ i = Len(changes) + (i - Len(changes))
        BY <1>2, <2>1, <3>2
      <4>. QED  BY <4>1
    <3>. QED  BY <1>2, <2>1, <3>2
  <2>4. /\ latestSeq' = [latestSeq EXCEPT ![r] =
                          IF n = 0 THEN @
                          ELSE IF n = 1 THEN Later(@, st[1])
                          ELSE Later(Later(@, st[1]), st[2])]
        /\ resourceSeqs' = [resourceSeqs EXCEPT ![r] =
                             IF n = 0 THEN @
                             ELSE IF n = 1 THEN Bump(@, ks[1], st[1])
                             ELSE Bump(Bump(@, ks[1], st[1]), ks[2], st[2])]
        /\ cursorBefore' = cursorBefore /\ pc'[r] = "setRead"
        /\ pool' = [pool EXCEPT ![r] = SubSeq(st, n + 1, Len(st))] /\ pending' = pending
        /\ \A p \in Request \ {r} : pc'[p] = pc[p]
    BY <1>1, <1>3, <2>1 DEF Commit, Settle, TypeOK
  <2>5. CASE q # r
    <3>1. \A i \in 1 .. Len(changes') : changes'[i].req = q =>
            i <= Len(changes) /\ changes'[i] = changes[i]
      BY <1>2, <2>2, <2>3, <2>5
    <3>2. /\ resourceSeqs'[q] = resourceSeqs[q] /\ latestSeq'[q] = latestSeq[q]
          /\ pool'[q] = pool[q] /\ pc'[q] = pc[q]
      BY <1>1, <2>4, <2>5 DEF TypeOK
    <3>. QED  BY <1>1, <1>2, <2>1, <2>4, <3>1, <3>2, CoveredKept
  <2>6. CASE q = r
    <3>1. PICK old, top : old = resourceSeqs[q] /\ top = latestSeq[q]
      OBVIOUS
    <3>2. PICK new, last : new = resourceSeqs'[q] /\ last = latestSeq'[q]
      OBVIOUS
    <3>3. /\ new = IF n = 0 THEN old ELSE IF n = 1 THEN Bump(old, ks[1], st[1])
                   ELSE Bump(Bump(old, ks[1], st[1]), ks[2], st[2])
          /\ last = IF n = 0 THEN top ELSE IF n = 1 THEN Later(top, st[1])
                    ELSE Later(Later(top, st[1]), st[2])
      BY <1>1, <2>4, <2>6, <3>1, <3>2 DEF TypeOK
    <3>4. /\ old \in [Resource -> Nat] /\ top \in Nat /\ top < nextSeq /\ nextSeq' \in Nat
          /\ \A x \in Resource : old[x] <= top
      BY <1>1, <1>2, <3>1 DEF Covered, TypeOK
    <3>5. /\ new \in [Resource -> Nat] /\ last \in Nat /\ last < nextSeq'
          /\ \A x \in Resource : old[x] <= new[x] /\ new[x] <= last
          /\ \A j \in 1 .. n : st[j] <= new[resourceOf[ks[j]]]
      <4>1. CASE n = 0
        BY <1>1, <2>1, <3>3, <3>4, <4>1
      <4>2. CASE n = 1
        <5>1. st[1] \in Nat /\ st[1] < nextSeq' /\ ks[1] \in Key
          BY <2>1, <4>2
        <5>2. /\ new \in [Resource -> Nat] /\ last \in Nat /\ last \in {top, st[1]}
              /\ \A x \in Resource : old[x] <= new[x] /\ new[x] <= last
              /\ st[1] <= new[resourceOf[ks[1]]]
          <6>1. new = Bump(old, ks[1], st[1]) /\ last = Later(top, st[1])
            BY <3>3, <4>2
          <6>2. old \in [Resource -> Nat] /\ top \in Nat /\ \A x \in Resource : old[x] <= top
            BY <3>4
          <6>. QED  BY ONLY <5>1, <6>1, <6>2, BumpCovers
        <5>. QED  BY <1>1, <2>1, <3>4, <4>2, <5>1, <5>2
      <4>3. CASE n = 2
        <5>1. /\ st[1] \in Nat /\ st[1] < nextSeq' /\ ks[1] \in Key
              /\ st[2] \in Nat /\ st[2] < nextSeq' /\ ks[2] \in Key
          BY <2>1, <4>3
        <5>2. PICK mid, t : mid = Bump(old, ks[1], st[1]) /\ t = Later(top, st[1])
          OBVIOUS
        <5>3. /\ mid \in [Resource -> Nat] /\ t \in Nat /\ t \in {top, st[1]}
              /\ \A x \in Resource : old[x] <= mid[x] /\ mid[x] <= t
              /\ st[1] <= mid[resourceOf[ks[1]]]
          BY <3>4, <5>1, <5>2, BumpCovers
        <5>4. new = Bump(mid, ks[2], st[2]) /\ last = Later(t, st[2])
          BY <3>3, <4>3, <5>2
        <5>5. /\ new \in [Resource -> Nat] /\ last \in Nat /\ last \in {t, st[2]}
              /\ \A x \in Resource : mid[x] <= new[x] /\ new[x] <= last
              /\ st[2] <= new[resourceOf[ks[2]]]
          BY <5>1, <5>3, <5>4, BumpCovers
        <5>6. last < nextSeq'
          <6>1. nextSeq' \in Nat /\ nextSeq \in Nat /\ top \in Nat /\ top < nextSeq'
            BY <1>1, <2>1, <3>4
          <6>2. t < nextSeq'
            BY <5>1, <5>3, <6>1
          <6>. QED  BY <5>1, <5>5, <6>2
        <5>7. \A x \in Resource : old[x] <= new[x]
          BY <3>4, <5>3, <5>5
        <5>8. resourceOf[ks[1]] \in Resource
          BY <5>1, InputAssumption
        <5>9. st[1] <= new[resourceOf[ks[1]]]
          BY <5>1, <5>3, <5>5, <5>8
        <5>10. \A j \in 1 .. n : j = 1 \/ j = 2
          BY <4>3
        <5>. QED  BY <5>5, <5>6, <5>7, <5>9, <5>10
      <4>. QED  BY <4>1, <4>2, <4>3
    <3>6. ASSUME NEW i \in 1 .. Len(changes'), changes'[i].req = q
          PROVE  changes'[i].seq <= new[resourceOf[changes'[i].key]]
      <4>1. CASE i \in 1 .. Len(changes) /\ changes'[i] = changes[i]
        <5>1. changes[i] \in Entry
          BY <1>2, <4>1
        <5>2. changes[i].seq \in Nat /\ resourceOf[changes[i].key] \in Resource
          BY <5>1, InputAssumption DEF Entry
        <5>3. changes[i].seq <= old[resourceOf[changes[i].key]]
          BY <1>2, <3>1, <3>6, <4>1 DEF Covered
        <5>. QED  BY <3>4, <3>5, <4>1, <5>2, <5>3
      <4>2. ASSUME NEW j \in 1 .. n, i = Len(changes) + j
            PROVE  changes'[i].seq <= new[resourceOf[changes'[i].key]]
        BY <2>2, <3>5, <4>2
      <4>. QED  BY <2>3, <4>1, <4>2
    <3>7. cursorBefore'[q] < nextSeq'
      BY <1>1, <1>2, <2>1, <2>4, <3>4 DEF Covered
    <3>. QED  BY <2>4, <2>6, <3>2, <3>5, <3>6, <3>7 DEF Covered
  <2>. QED  BY <2>5, <2>6
\* Without transactions a number is bumped when it is taken ...
<1>4. ASSUME NEW r \in Request, TakeSeq(r) PROVE Covered(q)'
  <2>1. PICK k, st : k = Head(pending[r]) /\ st = Stock(r, 1)
    OBVIOUS
  <2>2. /\ changes' = changes /\ cursorBefore' = cursorBefore /\ pending' = pending
        /\ nextSeq' = nextSeq + Fresh(r, 1)
        /\ pool' = [pool EXCEPT ![r] = st] /\ pc' = [pc EXCEPT ![r] = "record"]
        /\ latestSeq' = [latestSeq EXCEPT ![r] = Later(@, st[1])]
        /\ resourceSeqs' = [resourceSeqs EXCEPT ![r] = Bump(@, k, st[1])]
    BY <1>4, <2>1 DEF TakeSeq
  <2>3. Fresh(r, 1) \in Nat /\ st \in Seq(Nat) /\ Len(st) >= 1
    BY <1>1, <2>1, StockLemma
  <2>4. nextSeq <= nextSeq' /\ nextSeq' \in Nat
    BY <1>1, <2>2, <2>3
  <2>5. CASE q # r
    <3>1. /\ resourceSeqs'[q] = resourceSeqs[q] /\ latestSeq'[q] = latestSeq[q]
          /\ pool'[q] = pool[q] /\ pc'[q] = pc[q]
      BY <1>1, <2>2, <2>5 DEF TypeOK
    <3>. QED  BY <1>1, <1>2, <2>2, <2>4, <3>1, CoveredKept
  <2>6. CASE q = r
    <3>1. IsStock(r, Fresh(r, 1), st)
      BY <1>1, <2>1, StockIsStock
    <3>2. \A i \in 1 .. Len(st) : st[i] < nextSeq + Fresh(r, 1)
      BY <1>1, <2>3, <3>1, StockInv
    <3>3. st[1] \in Nat /\ st[1] < nextSeq'
      BY <2>2, <2>3, <3>2
    <3>4. k \in Key
      <4>1. pending[r] \in Seq(Key) /\ pending[r] # <<>>
        BY <1>1, <1>4 DEF TypeOK, Control, TakeSeq
      <4>. QED  BY <2>1, <4>1
    <3>5. \A x \in Resource : resourceSeqs[q][x] <= latestSeq[q]
      BY <1>2 DEF Covered
    <3>6. resourceSeqs'[q] = Bump(resourceSeqs[q], k, st[1])
          /\ latestSeq'[q] = Later(latestSeq[q], st[1]) /\ pool'[q] = st
      BY <1>1, <2>2, <2>6 DEF TypeOK
    <3>7. /\ resourceSeqs'[q] \in [Resource -> Nat] /\ latestSeq'[q] \in Nat
          /\ st[1] <= resourceSeqs'[q][resourceOf[k]]
          /\ \A x \in Resource : /\ resourceSeqs[q][x] <= resourceSeqs'[q][x]
                                /\ resourceSeqs'[q][x] <= latestSeq'[q]
          /\ latestSeq'[q] \in {latestSeq[q], st[1]}
      <4>1. resourceSeqs[q] \in [Resource -> Nat] /\ latestSeq[q] \in Nat /\ st[1] \in Nat
        BY <1>2, <3>3
      <4>. QED  BY ONLY <3>4, <3>5, <3>6, <4>1, BumpCovers
    <3>8. ASSUME NEW i \in 1 .. Len(changes), changes[i].req = q
          PROVE  changes[i].seq <= resourceSeqs'[q][resourceOf[changes[i].key]]
      <4>1. changes[i] \in Entry
        BY <1>2
      <4>2. changes[i].seq \in Nat /\ resourceOf[changes[i].key] \in Resource
        BY <4>1, InputAssumption DEF Entry
      <4>3. changes[i].seq <= resourceSeqs[q][resourceOf[changes[i].key]]
        BY <1>2, <3>8 DEF Covered
      <4>. QED  BY <1>2, <3>7, <4>2, <4>3
    <3>9. latestSeq'[q] < nextSeq' /\ cursorBefore'[q] < nextSeq'
      BY <1>1, <1>2, <2>2, <2>4, <3>3, <3>7 DEF Covered
    <3>10. pool'[q][1] <= resourceSeqs'[q][resourceOf[Head(pending'[q])]]
      BY <2>1, <2>2, <2>6, <3>6, <3>7
    <3>. QED  BY <2>2, <3>7, <3>8, <3>9, <3>10 DEF Covered
  <2>. QED  BY <2>5, <2>6
\* ... and covers the change when it is recorded.
<1>5. ASSUME NEW r \in Request, RecordChange(r) PROVE Covered(q)'
  <2>1. PICK e : e = ChangeOf(r, Current(r), Head(pending[r]), Head(pool[r]))
    OBVIOUS
  <2>2. /\ changes' = Append(changes, e) /\ pc[r] = "record" /\ pc'[r] # "record"
        /\ \A p \in Request \ {r} : pc'[p] = pc[p] /\ pool'[p] = pool[p] /\ pending'[p] = pending[p]
        /\ UNCHANGED <<nextSeq, resourceSeqs, latestSeq, cursorBefore>>
    BY <1>1, <1>5, <2>1 DEF RecordChange, Settle, TypeOK, cursors
  <2>3. e.req = r /\ e.key = Head(pending[r]) /\ e.seq = Head(pool[r])
    BY <2>1 DEF ChangeOf
  <2>4. /\ Len(changes') = Len(changes) + 1 /\ changes'[Len(changes) + 1] = e
        /\ \A i \in 1 .. Len(changes) : changes'[i] = changes[i]
    BY <1>2, <2>2
  <2>5. \A i \in 1 .. Len(changes') :
          \/ i \in 1 .. Len(changes) /\ changes'[i] = changes[i]
          \/ i = Len(changes) + 1 /\ changes'[i] = e
    BY <1>2, <2>4
  <2>6. CASE q # r
    <3>1. \A i \in 1 .. Len(changes') : changes'[i].req = q =>
            i <= Len(changes) /\ changes'[i] = changes[i]
      BY <1>2, <2>3, <2>5, <2>6
    <3>. QED  BY <1>1, <1>2, <2>2, <2>6, <3>1, CoveredKept
  <2>7. CASE q = r
    <3>1. e.seq <= resourceSeqs[q][resourceOf[e.key]]
      <4>1. Head(pool[r]) = pool[r][1]
        BY <1>1, <2>2 DEF TypeOK, Control
      <4>. QED  BY <1>2, <2>2, <2>3, <2>7, <4>1 DEF Covered
    <3>2. \A i \in 1 .. Len(changes') : changes'[i].req = q =>
            changes'[i].seq <= resourceSeqs'[q][resourceOf[changes'[i].key]]
      BY <1>2, <2>2, <2>5, <3>1 DEF Covered
    <3>. QED  BY <1>2, <2>2, <2>7, <3>2 DEF Covered
  <2>. QED  BY <2>6, <2>7
<1>6. ASSUME NEW r \in Request, Begin(r) PROVE Covered(q)'
  <2>1. /\ UNCHANGED <<changes, nextSeq, resourceSeqs, latestSeq, pool, pending>>
        /\ cursorBefore' = [cursorBefore EXCEPT ![r] = nextSeq - 1]
        /\ pc' = [pc EXCEPT ![r] = "next"]
    BY <1>6 DEF Begin, database, cursors, sequence, getCurrentServerSeq
  <2>2. cursorBefore'[q] < nextSeq
    BY <1>1, <1>2, <2>1 DEF TypeOK, Covered
  <2>3. pc'[q] = "record" => pc[q] = "record"
    BY <1>1, <2>1 DEF TypeOK
  <2>. QED  BY <1>2, <2>1, <2>2, <2>3 DEF Covered
<1>7. ASSUME NEW r \in Request, Respond(r) PROVE Covered(q)'
  <2>1. /\ UNCHANGED <<changes, nextSeq, resourceSeqs, cursorBefore, pool, pending>>
        /\ latestSeq' = IF latestSeq[r] = 0 THEN [latestSeq EXCEPT ![r] = nextSeq - 1] ELSE latestSeq
        /\ pc' = [pc EXCEPT ![r] = "done"]
    BY <1>7 DEF Respond, database, sequence, getCurrentServerSeq
  <2>2. pc'[q] = "record" => pc[q] = "record"
    BY <1>1, <2>1 DEF TypeOK
  <2>3. CASE latestSeq' = latestSeq
    BY <1>2, <2>1, <2>2, <2>3 DEF Covered
  <2>4. CASE latestSeq' # latestSeq
    <3>1. latestSeq[r] = 0 /\ latestSeq' = [latestSeq EXCEPT ![r] = nextSeq - 1]
      BY <2>1, <2>4
    <3>2. latestSeq'[q] \in Nat /\ latestSeq[q] <= latestSeq'[q] /\ latestSeq'[q] < nextSeq
      <4>1. latestSeq'[q] = IF q = r THEN nextSeq - 1 ELSE latestSeq[q]
        BY <1>1, <3>1 DEF TypeOK
      <4>2. latestSeq[q] < nextSeq
        BY <1>2 DEF Covered
      <4>. QED  BY <1>1, <1>2, <3>1, <4>1, <4>2
    <3>3. \A x \in Resource : resourceSeqs[q][x] <= latestSeq'[q]
      BY <1>2, <3>2 DEF Covered
    <3>. QED  BY <1>2, <2>1, <2>2, <3>2, <3>3 DEF Covered
  <2>. QED  BY <2>3, <2>4
\* All other steps take and record nothing.
<1>8. ASSUME UNCHANGED <<changes, nextSeq, resourceSeqs, latestSeq, cursorBefore>>,
             pc'[q] = "record" => pc[q] = "record" /\ pool'[q] = pool[q] /\ pending'[q] = pending[q]
      PROVE  Covered(q)'
  BY <1>2, <1>8 DEF Covered
<1>9. ASSUME NEW r \in Request,
             DedupInBatch(r) \/ DedupStored(r) \/ Admit(r) \/ Refuse(r) \/ Operate(r)
               \/ SetRead(r) \/ SetWrite(r) \/ Fault(r) \/ SetFails(r)
      PROVE  Covered(q)'
  <2>1. UNCHANGED <<changes, nextSeq, resourceSeqs, latestSeq, cursorBefore>>
    BY <1>9 DEF DedupInBatch, DedupStored, Admit, Refuse, Operate, SetRead, SetWrite, Fault,
       SetFails, database, cursors
  <2>2. \E x \in Phase \ {"record"} : pc' = [pc EXCEPT ![r] = x]
    BY <1>9 DEF DedupInBatch, DedupStored, Admit, Refuse, Operate, SetRead, SetWrite, Fault,
       SetFails, Advance, Settle, Phase
  <2>3. pc'[q] = "record" => q # r /\ pc[q] = "record"
    BY <1>1, <2>2 DEF TypeOK
  <2>4. q # r => pool'[q] = pool[q] /\ pending'[q] = pending[q]
    BY <1>1, <1>9 DEF DedupInBatch, DedupStored, Admit, Refuse, Operate, SetRead, SetWrite,
       Fault, SetFails, sequence, TypeOK
  <2>. QED  BY <1>8, <2>1, <2>3, <2>4
<1>10. CASE Crash
  <2>1. UNCHANGED <<changes, nextSeq, resourceSeqs, latestSeq, cursorBefore, pool, pending>>
    BY <1>10 DEF Crash, database, cursors, sequence
  <2>2. pc'[q] = "record" => pc[q] = "record"
    BY <1>1, <1>10 DEF Crash, TypeOK
  <2>. QED  BY <1>8, <2>1, <2>2
<1>11. CASE UNCHANGED vars
  BY <1>8, <1>11 DEF vars, database, cursors, sequence
<1>. QED  BY <1>3, <1>4, <1>5, <1>6, <1>7, <1>9, <1>10, <1>11 DEF Next, Step

----------------------------------------------------------------------------
(* The theorems. *)

IInv == Basic /\ SeqInv /\ ExecutedInv /\ RowsFollow /\ CoverInv

\* The inductive invariant holds of executePush under any interleaving of
\* requests, failures and crashes.
THEOREM Invariance == Spec => []IInv
<1>1. Init => IInv
  <2>1. Init => ExecutedInv /\ RowsFollow /\ CoverInv
    BY DEF Init, ExecutedInv, RowsFollow, Follows, CoverInv, Covered
  <2>. QED  BY <2>1, TypeInit, SeqInit DEF IInv
<1>2. IInv /\ [Next]_vars => IInv'
  BY TypeStep, ControlStep, SeqStep, ExecutedStep, RowsFollowStep, CoverStep DEF IInv, Basic
<1>. QED  BY <1>1, <1>2, PTL DEF Spec

\* The state of executePush and of its tables keeps its types; with it, no
\* reservation runs into the numbers handed out before.
THEOREM TypeCorrect == Spec => []TypeOK
<1>1. IInv => TypeOK
  BY DEF IInv, Basic
<1>. QED  BY <1>1, Invariance, PTL

\* takeNextServerSeq and its per-request pool never hand the same serverSeq
\* to two changes, whatever fails or is rolled back.
THEOREM SeqUniqueTheorem == Spec => []SeqUnique
<1>1. IInv => SeqUnique
  BY DEF IInv, SeqInv
<1>. QED  BY <1>1, Invariance, PTL

\* The changes of one push carry serverSeqs in the order of its mutations.
THEOREM PushOrderTheorem == Spec => []PushOrder
<1>1. IInv => PushOrder
  BY DEF IInv, SeqInv
<1>. QED  BY <1>1, Invariance, PTL

\* On an adapter with transactions a mutation reported as applied was executed
\* and, while its row holds it, is in the change log.
THEOREM AppliedIsLoggedTheorem == Spec => []AppliedIsLogged
<1>1. IInv => AppliedIsLogged
  <2>. SUFFICES ASSUME IInv, NEW r \in Request, NEW m \in applied[r]
                PROVE  m \in executed /\ (atomic /\ rows[key[m]] = m => Logged(m))
    BY DEF AppliedIsLogged
  <2>1. m \in Mutation /\ key[m] \in Key /\ m # None
    BY InputAssumption DEF IInv, Basic, TypeOK
  <2>2. m \in executed
    BY DEF IInv, ExecutedInv
  <2>3. ASSUME atomic, rows[key[m]] = m PROVE Logged(m)
    <3>1. Follows(key[m]) /\ rows[key[m]] # None
      BY <2>1, <2>3 DEF IInv, RowsFollow
    <3>2. PICK last \in 1 .. Len(changes) :
            /\ changes[last].key = key[m]
            /\ rows[key[m]] = IF changes[last].op = "delete" THEN None ELSE changes[last].by
      BY <3>1 DEF Follows
    <3>3. changes[last].by = m
      BY <2>1, <2>3, <3>2
    <3>. QED  BY <3>2, <3>3 DEF Logged
  <2>. QED  BY <2>2, <2>3
<1>. QED  BY <1>1, Invariance, PTL

\* The cursors executePush answers with cover every change the request made,
\* with and without transactions and whatever failed on the way, so a client
\* that stores them does not pull its own changes; and no cursor runs ahead of
\* the sequence, so that no later change hides behind it.
THEOREM ResponseCoversTheorem == Spec => []ResponseCoversOwnChanges
<1>1. IInv => ResponseCoversOwnChanges
  BY DEF IInv, CoverInv, Covered, ResponseCoversOwnChanges
<1>. QED  BY <1>1, Invariance, PTL

\* On an adapter with transactions the user tables are what the change log
\* says: the row a mutation writes and the change it records commit together,
\* so that a client that replays the changes has the row.
THEOREM RowsFollowChangesTheorem == Spec => []RowsFollowChanges
<1>1. IInv => RowsFollowChanges
  <2>. SUFFICES ASSUME IInv, atomic, NEW k \in Key
                PROVE  LET about == {i \in 1 .. Len(changes) : changes[i].key = k}
                       IN  IF about = {} THEN rows[k] = None
                           ELSE LET last == CHOOSE i \in about : \A j \in about : j <= i
                                IN  rows[k] = IF changes[last].op = "delete" THEN None
                                              ELSE changes[last].by
    BY DEF RowsFollowChanges
  <2>. DEFINE about == {i \in 1 .. Len(changes) : changes[i].key = k}
              final == CHOOSE i \in about : \A j \in about : j <= i
  <2>1. Follows(k)
    BY DEF IInv, RowsFollow
  <2>2. CASE about = {}
    BY <2>1, <2>2 DEF Follows
  <2>3. CASE about # {}
    <3>1. PICK last \in about :
            /\ \A i \in about : i <= last
            /\ rows[k] = IF changes[last].op = "delete" THEN None ELSE changes[last].by
      BY <2>1, <2>3 DEF Follows
    <3>2. final \in about /\ \A j \in about : j <= final
      BY <3>1
    <3>3. about \subseteq Int
      OBVIOUS
    <3>4. final = last
      BY <3>1, <3>2, <3>3
    <3>. QED  BY <2>3, <3>1, <3>4
  <2>. QED  BY <2>2, <2>3
<1>. QED  BY <1>1, Invariance, PTL

=============================================================================
