-------------------------- MODULE ClientSync_proofs --------------------------
(***************************************************************************)
(* Proofs about a client that writes, pushes, pulls and clones, for every  *)
(* number of tables, writes, changes of other clients, faults, crashes and *)
(* clones.                                                                 *)
(***************************************************************************)
EXTENDS ClientSync, SequenceTheorems, FiniteSetTheorems, WellFoundedInduction, TLAPS

----------------------------------------------------------------------------
(* The inductive invariants of the change log. *)

WriteType ==
  /\ log \in Seq(Entry) /\ rejected \subseteq Own
  /\ tableOf \in Seq(Table) /\ Len(tableOf) <= MaxWrites
  /\ chlog \in Seq(Own) /\ acked \in 0 .. Len(chlog) /\ applied \in 0 .. Len(chlog)
  /\ direct \in {None} \cup [id : Own, executed : BOOLEAN]

\* What was logged or waits to be pushed was made before; no write is in the
\* change log twice, and none is there while it is on its way as a mutation.
OnceInv ==
  /\ LoggedOnce
  /\ \A s \in 1 .. Top : log[s].id \in Own => log[s].id <= Len(tableOf)
  /\ \E k \in 0 .. MaxForeign : Ids(Top) \ Own = MaxWrites + 1 .. MaxWrites + k
  /\ \A i, j \in 1 .. Len(chlog) : chlog[i] = chlog[j] => i = j
  /\ \A i \in 1 .. Len(chlog) : chlog[i] <= Len(tableOf)
  /\ direct # None =>
       /\ direct.id <= Len(tableOf)
       /\ \A i \in 1 .. Len(chlog) : chlog[i] # direct.id
       /\ ~direct.executed => direct.id \notin Ids(Top)

\* The batch in flight is what follows the acknowledged entries, and what its
\* answer lets the client acknowledge is settled.
BatchInv ==
  /\ push.pc \in {"idle", "sent", "replied", "cursors"}
  /\ push.pc \in {"sent", "replied"} =>
       /\ push.batch \in Seq(Own) /\ acked + Len(push.batch) <= Len(chlog)
       /\ \A i \in 1 .. Len(push.batch) : push.batch[i] = chlog[acked + i]
  /\ push.pc = "replied" =>
       /\ push.through \in 0 .. Len(push.batch)
       /\ \A i \in 1 .. push.through : push.batch[i] \in Ids(Top) \cup rejected
  /\ AckedIsSettled

LogInv == WriteType /\ OnceInv /\ BatchInv

----------------------------------------------------------------------------
(* Numbers and loops. *)

\* A nonempty set of naturals has a least element.
LEMMA Least ==
  ASSUME NEW S, S \subseteq Nat, S # {}
  PROVE  \E x \in S : \A y \in S : x <= y
<1>1. \E x \in S : \A y \in S : ~ (<<y, x>> \in OpToRel(<, Nat))
  BY NatLessThanWellFounded, WFMin
<1>2. ASSUME NEW x \in S, NEW y \in S, ~ (<<y, x>> \in OpToRel(<, Nat))
      PROVE  x <= y
  BY <1>2 DEF OpToRel
<1> QED  BY <1>1, <1>2

\* Induction on the members of a set of naturals.
LEMMA SetInduction ==
  ASSUME NEW P, 0 \in P, \A n \in Nat : n \in P => n + 1 \in P
  PROVE  Nat \subseteq P
<1> DEFINE S == Nat \ P
<1>1. SUFFICES ASSUME S # {} PROVE FALSE
  OBVIOUS
<1>2. PICK x \in S : \A y \in S : x <= y
  <2> HIDE DEF S
  <2>1. S \subseteq Nat
    BY DEF S
  <2> QED BY <1>1, <2>1, Least
<1>3. x - 1 \in Nat /\ x - 1 \notin S
  BY <1>2
<1> QED BY <1>3

\* Max is the greatest element of a nonempty set of naturals with a bound.
LEMMA MaxIsGreatest ==
  ASSUME NEW S, S \subseteq Nat, S # {}, NEW b \in Nat, \A x \in S : x <= b
  PROVE  Max(S) \in S /\ \A y \in S : y <= Max(S)
<1> DEFINE Above == {n \in Nat : \A x \in S : x <= n}
<1>1. Above \subseteq Nat /\ b \in Above
  OBVIOUS
<1>2. PICK n \in Above : \A m \in Above : n <= m
  <2> HIDE DEF Above
  <2> QED BY <1>1, Least
<1>3. n \in S
  <2> SUFFICES ASSUME n \notin S PROVE FALSE
    OBVIOUS
  <2>1. PICK x \in S : TRUE
    OBVIOUS
  <2>2. \A y \in S : y <= n - 1 /\ n - 1 \in Nat
    BY <2>1
  <2>3. n - 1 \in Above
    BY <2>1, <2>2
  <2> QED BY <1>2, <2>3
<1> QED BY <1>3 DEF Max

\* Min is the least element of a nonempty set of naturals.
LEMMA MinIsLeast ==
  ASSUME NEW S, S \subseteq Nat, S # {}
  PROVE  Min(S) \in S /\ \A y \in S : Min(S) <= y
BY Least DEF Min

\* A set that has all numbers before each of its numbers is an interval.
LEMMA DownwardClosed ==
  ASSUME NEW n \in Nat, NEW D, D \subseteq 1 .. n,
         \A i \in D : \A j \in 1 .. i : j \in D
  PROVE  Cardinality(D) \in 0 .. n /\ D = 1 .. Cardinality(D)
<1>1. PICK top \in 0 .. n : D = 1 .. top
  <2>1. CASE D = {}
    BY <2>1
  <2>2. CASE D # {}
    <3>1. D \subseteq Nat /\ \A x \in D : x <= n
      OBVIOUS
    <3>2. Max(D) \in D /\ \A y \in D : y <= Max(D)
      BY <2>2, <3>1, MaxIsGreatest
    <3> DEFINE top == Max(D)
    <3>3. top \in D /\ \A y \in D : y <= top
      BY <3>2
    <3> HIDE DEF top
    <3>4. D \subseteq 1 .. top
      BY <3>3
    <3>5. 1 .. top \subseteq D
      BY <3>3
    <3>6. D = 1 .. top
      BY <3>4, <3>5
    <3>7. top \in 0 .. n
      BY <3>3
    <3> QED BY <3>6, <3>7
  <2> QED BY <2>1, <2>2
<1>2. Cardinality(1 .. top) = IF 1 > top THEN 0 ELSE top - 1 + 1
  BY FS_Interval
<1> QED BY <1>1, <1>2

\* What the loop of Without computes, step by step.
Loop(b, S, f, n) ==
  f = [i \in 0 .. n |->
         IF i = 0 THEN <<>>
         ELSE IF b[i] \in S THEN f[i - 1] ELSE Append(f[i - 1], b[i])]

LEMMA LoopExists ==
  ASSUME NEW b, NEW S, NEW m \in Nat
  PROVE  \E f : Loop(b, S, f, m)
<1> DEFINE P == {n \in Nat : \E f : Loop(b, S, f, n)}
<1>1. 0 \in P
  <2> DEFINE f == [i \in 0 .. 0 |-> <<>>]
  <2>1. Loop(b, S, f, 0)
    BY DEF Loop
  <2> QED BY <2>1
<1>2. ASSUME NEW n \in Nat, n \in P PROVE n + 1 \in P
  <2>1. PICK f : Loop(b, S, f, n)
    BY <1>2
  <2> DEFINE g == [i \in 0 .. n + 1 |->
                     IF i = n + 1
                       THEN IF b[n + 1] \in S THEN f[n] ELSE Append(f[n], b[n + 1])
                       ELSE f[i]]
             Next1(i) == IF i = 0 THEN <<>>
                         ELSE IF b[i] \in S THEN g[i - 1] ELSE Append(g[i - 1], b[i])
  <2>2. g[0] = <<>>
    BY <2>1 DEF Loop
  <2>3. ASSUME NEW i \in 1 .. n + 1
        PROVE  g[i] = IF b[i] \in S THEN g[i - 1] ELSE Append(g[i - 1], b[i])
    <3>1. g[i - 1] = f[i - 1] /\ i - 1 \in 0 .. n
      OBVIOUS
    <3>2. CASE i = n + 1
      BY <3>1, <3>2
    <3>3. CASE i # n + 1
      <4>1. g[i] = f[i] /\ i \in 0 .. n /\ i # 0
        BY <3>3
      <4> QED BY <2>1, <3>1, <4>1 DEF Loop
    <3> QED BY <3>2, <3>3
  <2>4. g = [i \in 0 .. n + 1 |-> g[i]]
    OBVIOUS
  <2> HIDE DEF g
  <2>5. ASSUME NEW i \in 0 .. n + 1 PROVE g[i] = Next1(i)
    <3>1. i = 0 \/ i \in 1 .. n + 1
      OBVIOUS
    <3> QED BY <2>2, <2>3, <3>1
  <2>6. Loop(b, S, g, n + 1)
    BY <2>4, <2>5, Zenon DEF Loop
  <2> QED BY <2>6
<1> HIDE DEF P
<1>3. Nat \subseteq P
  BY <1>1, <1>2, SetInduction
<1> QED BY <1>3 DEF P

\* Without keeps the entries that are not in S, each once.
LEMMA WithoutLemma ==
  ASSUME NEW T, NEW b \in Seq(T), NEW S
  PROVE  LET w == Without(b, S)
         IN /\ w \in Seq(T)
            /\ \A i \in 1 .. Len(b) : b[i] \notin S => \E j \in 1 .. Len(w) : w[j] = b[i]
            /\ \A j \in 1 .. Len(w) : w[j] \notin S /\ \E i \in 1 .. Len(b) : w[j] = b[i]
            /\ (\A i, j \in 1 .. Len(b) : b[i] = b[j] => i = j)
                 => \A i, j \in 1 .. Len(w) : w[i] = w[j] => i = j
<1>0. Len(b) \in Nat /\ \A i \in 1 .. Len(b) : b[i] \in T
  OBVIOUS
<1>1. PICK f : Without(b, S) = f[Len(b)] /\ Loop(b, S, f, Len(b))
  <2>1. \E f : Loop(b, S, f, Len(b))
    BY <1>0, LoopExists
  <2> QED BY <2>1, Zenon DEF Without, Loop
<1> DEFINE Kept(w, n) ==
             /\ w \in Seq(T)
             /\ \A i \in 1 .. n : b[i] \notin S => \E j \in 1 .. Len(w) : w[j] = b[i]
             /\ \A j \in 1 .. Len(w) : w[j] \notin S /\ \E i \in 1 .. n : w[j] = b[i]
             /\ (\A i, j \in 1 .. Len(b) : b[i] = b[j] => i = j)
                  => \A i, j \in 1 .. Len(w) : w[i] = w[j] => i = j
           P == {n \in Nat : n <= Len(b) => Kept(f[n], n)}
<1>2. 0 \in P
  <2>1. f[0] = <<>>
    BY <1>0, <1>1 DEF Loop
  <2>2. f[0] \in Seq(T) /\ Len(f[0]) = 0
    BY <2>1, EmptySeq
  <2>3. 1 .. 0 = {}
    OBVIOUS
  <2>4. Kept(f[0], 0)
    BY <2>2, <2>3
  <2> QED BY <2>4
<1>3. ASSUME NEW n \in Nat, n \in P PROVE n + 1 \in P
  <2> SUFFICES ASSUME n + 1 <= Len(b) PROVE Kept(f[n + 1], n + 1)
    OBVIOUS
  <2>1. Kept(f[n], n)
    BY <1>0, <1>3
  <2>2. f[n + 1] = IF b[n + 1] \in S THEN f[n] ELSE Append(f[n], b[n + 1])
    <3>1. n + 1 \in 0 .. Len(b) /\ n + 1 # 0 /\ (n + 1) - 1 = n
      BY <1>0
    <3>2. \A i \in 0 .. Len(b) : i # 0 =>
            f[i] = IF b[i] \in S THEN f[i - 1] ELSE Append(f[i - 1], b[i])
      BY <1>1 DEF Loop
    <3>3. f[n + 1] = IF b[n + 1] \in S THEN f[(n + 1) - 1] ELSE Append(f[(n + 1) - 1], b[n + 1])
      BY <3>1, <3>2, Zenon
    <3> QED BY <3>1, <3>3, Zenon
  <2>3. \A i \in 1 .. n + 1 : i \in 1 .. n \/ i = n + 1
    OBVIOUS
  <2>4. CASE b[n + 1] \in S
    <3>1. f[n + 1] = f[n]
      BY <2>2, <2>4
    <3> DEFINE v == f[n]
    <3>2. Kept(v, n)
      BY <2>1
    <3> HIDE DEF v
    <3>3. \A i \in 1 .. n + 1 : b[i] \notin S => \E j \in 1 .. Len(v) : v[j] = b[i]
      BY <2>3, <2>4, <3>2
    <3>4. 1 .. n \subseteq 1 .. n + 1
      OBVIOUS
    <3>5. \A j \in 1 .. Len(v) : v[j] \notin S /\ \E i \in 1 .. n + 1 : v[j] = b[i]
      BY <3>2, <3>4, Zenon
    <3>6. Kept(v, n + 1)
      BY <3>2, <3>3, <3>5, Zenon
    <3> QED BY <3>1, <3>6 DEF v
  <2>5. CASE b[n + 1] \notin S
    <3> DEFINE v == f[n]
               w == f[n + 1]
               e == b[n + 1]
    <3>1. v \in Seq(T) /\ e \in T /\ w = Append(v, e)
      BY <1>0, <2>1, <2>2, <2>5
    <3>2. Kept(v, n)
      BY <2>1
    <3> HIDE DEF v, w
    <3>3. /\ w \in Seq(T) /\ Len(w) = Len(v) + 1 /\ Len(v) \in Nat
          /\ \A j \in 1 .. Len(v) : w[j] = v[j]
          /\ w[Len(v) + 1] = e
      BY <3>1, AppendProperties, LenProperties
    <3>4. ASSUME NEW i \in 1 .. n + 1, b[i] \notin S PROVE \E j \in 1 .. Len(w) : w[j] = b[i]
      <4>1. CASE i = n + 1
        BY <3>3, <4>1
      <4>2. CASE i \in 1 .. n
        <5>1. PICK j \in 1 .. Len(v) : v[j] = b[i]
          BY <3>2, <3>4, <4>2
        <5> QED BY <3>3, <5>1
      <4> QED BY <2>3, <4>1, <4>2
    <3>5. ASSUME NEW j \in 1 .. Len(w) PROVE w[j] \notin S /\ \E i \in 1 .. n + 1 : w[j] = b[i]
      <4>1. CASE j = Len(v) + 1
        BY <2>5, <3>3, <4>1
      <4>2. CASE j \in 1 .. Len(v)
        <5>1. w[j] = v[j] /\ v[j] \notin S /\ \E i \in 1 .. n : v[j] = b[i]
          BY <3>2, <3>3, <4>2
        <5> QED BY <5>1
      <4> QED BY <3>3, <4>1, <4>2
    <3>6. ASSUME \A i, j \in 1 .. Len(b) : b[i] = b[j] => i = j,
                 NEW i \in 1 .. Len(w), NEW j \in 1 .. Len(w), w[i] = w[j]
          PROVE  i = j
      <4>1. \A k \in 1 .. Len(v) : v[k] # e
        <5> TAKE k \in 1 .. Len(v)
        <5>1. PICK m \in 1 .. n : v[k] = b[m]
          BY <3>2
        <5>2. m \in 1 .. Len(b) /\ n + 1 \in 1 .. Len(b) /\ m # n + 1
          BY <1>0
        <5> QED BY <3>6, <5>1, <5>2
      <4>2. \A k, l \in 1 .. Len(v) : v[k] = v[l] => k = l
        BY <3>2, <3>6
      <4>3. (i \in 1 .. Len(v) \/ i = Len(v) + 1) /\ (j \in 1 .. Len(v) \/ j = Len(v) + 1)
        BY <3>3
      <4> QED BY <3>3, <3>6, <4>1, <4>2, <4>3
    <3>7. Kept(w, n + 1)
      BY <3>3, <3>4, <3>5, <3>6
    <3> QED BY <3>7 DEF w
  <2> QED BY <2>4, <2>5
<1> HIDE DEF P
<1>4. Nat \subseteq P
  BY <1>2, <1>3, SetInduction
<1>5. Kept(f[Len(b)], Len(b))
  BY <1>0, <1>4 DEF P
<1> QED BY <1>1, <1>5

----------------------------------------------------------------------------
(* How the log grows. *)

\* The changes in new are appended to the log.
Grows(new) ==
  /\ log' \in Seq(Entry) /\ Top' = Top + Len(new)
  /\ \A s \in 1 .. Top : log'[s] = log[s]
  /\ \A j \in 1 .. Len(new) : log'[Top + j] = new[j]

LEMMA ConcatGrows ==
  ASSUME log \in Seq(Entry), NEW new \in Seq(Entry), log' = log \o new
  PROVE  Grows(new)
<1>1. /\ log \o new \in Seq(Entry) /\ Len(log \o new) = Len(log) + Len(new)
      /\ \A i \in 1 .. Len(log) + Len(new) : (log \o new)[i] =
            IF i <= Len(log) THEN log[i] ELSE new[i - Len(log)]
  BY ConcatProperties
<1>2. Len(log) \in Nat /\ Len(new) \in Nat
  OBVIOUS
<1>3. \A s \in 1 .. Len(log) : (log \o new)[s] = log[s]
  BY <1>1, <1>2
<1>4. ASSUME NEW j \in 1 .. Len(new) PROVE (log \o new)[Len(log) + j] = new[j]
  <2>1. /\ Len(log) + j \in 1 .. Len(log) + Len(new) /\ ~(Len(log) + j <= Len(log))
        /\ Len(log) + j - Len(log) = j
    BY <1>2
  <2> QED BY <1>1, <2>1
<1> QED BY <1>1, <1>3, <1>4 DEF Grows, Top

\* The ids of a log that has grown.
LEMMA GrownIds ==
  ASSUME log \in Seq(Entry), NEW new \in Seq(Entry), Grows(new)
  PROVE  Ids(Top)' = Ids(Top) \cup {new[j].id : j \in 1 .. Len(new)}
<1>0. Top \in Nat /\ Len(new) \in Nat
  BY DEF Top
<1>1. Ids(Top)' = {log'[s].id : s \in 1 .. Top'}
  BY DEF Ids
<1>2. ASSUME NEW x \in Ids(Top)' PROVE x \in Ids(Top) \cup {new[j].id : j \in 1 .. Len(new)}
  <2>1. PICK s \in 1 .. Top + Len(new) : x = log'[s].id
    BY <1>1 DEF Grows
  <2>2. CASE s \in 1 .. Top
    BY <2>1, <2>2 DEF Grows, Ids
  <2>3. CASE s \notin 1 .. Top
    <3>1. s - Top \in 1 .. Len(new) /\ s = Top + (s - Top)
      BY <1>0, <2>3
    <3> QED BY <2>1, <3>1 DEF Grows
  <2> QED BY <2>2, <2>3
<1>3. ASSUME NEW x \in Ids(Top) PROVE x \in Ids(Top)'
  <2>1. PICK s \in 1 .. Top : x = log[s].id
    BY DEF Ids
  <2> QED BY <1>0, <1>1, <2>1 DEF Grows
<1>4. ASSUME NEW j \in 1 .. Len(new) PROVE new[j].id \in Ids(Top)'
  BY <1>0, <1>1 DEF Grows
<1> QED BY <1>2, <1>3, <1>4

\* A log stays without duplicates when the changes appended to it are new.
LEMMA GrownOnce ==
  ASSUME log \in Seq(Entry), NEW new \in Seq(Entry), Grows(new), LoggedOnce,
         \A i, j \in 1 .. Len(new) : new[i].id = new[j].id => i = j,
         \A j \in 1 .. Len(new) : new[j].id \notin Ids(Top)
  PROVE  LoggedOnce'
<1>0. Top \in Nat /\ Len(new) \in Nat
  BY DEF Top
<1> SUFFICES ASSUME NEW i \in 1 .. Top', NEW j \in 1 .. Top', log'[i].id = log'[j].id
             PROVE  i = j
  BY DEF LoggedOnce
<1>1. \A s \in 1 .. Top' : \/ s \in 1 .. Top /\ log'[s] = log[s] /\ log[s].id \in Ids(Top)
                          \/ /\ s - Top \in 1 .. Len(new) /\ log'[s] = new[s - Top]
                             /\ new[s - Top].id \notin Ids(Top)
  <2> TAKE s \in 1 .. Top'
  <2>1. CASE s \in 1 .. Top
    BY <2>1 DEF Grows, Ids
  <2>2. CASE s \notin 1 .. Top
    <3>1. s - Top \in 1 .. Len(new) /\ s = Top + (s - Top)
      BY <1>0, <2>2 DEF Grows
    <3> QED BY <3>1 DEF Grows
  <2> QED BY <2>1, <2>2
<1>2. CASE i \in 1 .. Top /\ log'[i] = log[i]
  <2>1. log'[i].id \in Ids(Top)
    BY <1>2 DEF Ids
  <2>2. j \in 1 .. Top /\ log'[j] = log[j]
    BY <1>1, <2>1
  <2> QED BY <1>2, <2>2 DEF LoggedOnce
<1>3. CASE /\ i - Top \in 1 .. Len(new) /\ log'[i] = new[i - Top]
           /\ new[i - Top].id \notin Ids(Top)
  <2>1. j - Top \in 1 .. Len(new) /\ log'[j] = new[j - Top]
    BY <1>1, <1>3
  <2>2. i - Top = j - Top
    BY <1>3, <2>1
  <2> QED BY <1>0, <2>2 DEF Grows
<1> QED BY <1>1, <1>2, <1>3

\* One change is appended.
LEMMA OneGrows ==
  ASSUME log \in Seq(Entry), NEW e \in Entry, log' = Append(log, e)
  PROVE  /\ log' \in Seq(Entry) /\ Top' = Top + 1 /\ log'[Top + 1] = e
         /\ \A s \in 1 .. Top : log'[s] = log[s]
         /\ Ids(Top)' = Ids(Top) \cup {e.id}
         /\ LoggedOnce /\ e.id \notin Ids(Top) => LoggedOnce'
<1> DEFINE new == <<e>>
<1>1. new \in Seq(Entry) /\ Len(new) = 1 /\ new[1] = e
  OBVIOUS
<1>2. log' = log \o new
  BY AppendIsConcat
<1> HIDE DEF new
<1>3. Grows(new)
  BY <1>1, <1>2, ConcatGrows
<1>4. \A j \in 1 .. Len(new) : j = 1
  BY <1>1
<1>5. Ids(Top)' = Ids(Top) \cup {new[j].id : j \in 1 .. Len(new)}
  BY <1>1, <1>3, GrownIds
<1>6. {new[j].id : j \in 1 .. Len(new)} = {e.id}
  BY <1>1, <1>4
<1>7. LoggedOnce /\ e.id \notin Ids(Top) => LoggedOnce'
  BY <1>1, <1>3, <1>4, GrownOnce
<1>8. log'[Top + 1] = new[1]
  <2>1. 1 \in 1 .. Len(new)
    BY <1>1
  <2> QED BY <1>3, <2>1 DEF Grows
<1> QED BY <1>1, <1>3, <1>5, <1>6, <1>7, <1>8 DEF Grows

----------------------------------------------------------------------------
(* Every step keeps the invariants of the change log. *)

LEMMA LogKept ==
  ASSUME LogInv, UNCHANGED <<server, writing, acked, push>>
  PROVE  LogInv'
<1>1. WriteType'
  BY DEF LogInv, WriteType, server, writing
<1>2. OnceInv'
  BY DEF LogInv, OnceInv, LoggedOnce, Ids, Top, server, writing
<1>3. BatchInv'
  BY DEF LogInv, BatchInv, AckedIsSettled, Ids, Top, server, writing
<1> QED BY <1>1, <1>2, <1>3 DEF LogInv

\* Entries are only ever added behind the others.
ChlogGrows ==
  /\ chlog' \in Seq(Own) /\ Len(chlog) <= Len(chlog')
  /\ \A i \in 1 .. Len(chlog) : chlog'[i] = chlog[i]

\* What the batch and the acknowledged entries rest on only grows.
LEMMA BatchKept ==
  ASSUME LogInv, ChlogGrows, Ids(Top) \subseteq Ids(Top)', rejected \subseteq rejected',
         UNCHANGED acked, push' = push \/ push' \in {[pc |-> "idle"], [pc |-> "cursors"]}
  PROVE  BatchInv'
<1>0. acked \in Nat /\ Len(chlog) \in Nat /\ acked <= Len(chlog)
  BY DEF LogInv, WriteType
<1>1. AckedIsSettled'
  BY <1>0 DEF LogInv, BatchInv, AckedIsSettled, ChlogGrows
<1>2. CASE push' \in {[pc |-> "idle"], [pc |-> "cursors"]}
  BY <1>1, <1>2 DEF BatchInv
<1>3. CASE push' = push
  <2>1. ASSUME push.pc \in {"sent", "replied"}
        PROVE  /\ push.batch \in Seq(Own) /\ acked + Len(push.batch) <= Len(chlog')
               /\ \A i \in 1 .. Len(push.batch) : push.batch[i] = chlog'[acked + i]
    <3>1. /\ push.batch \in Seq(Own) /\ acked + Len(push.batch) <= Len(chlog)
          /\ \A i \in 1 .. Len(push.batch) : push.batch[i] = chlog[acked + i]
      BY <2>1 DEF LogInv, BatchInv
    <3>2. Len(push.batch) \in Nat /\ Len(chlog') \in Nat
      BY <3>1 DEF ChlogGrows
    <3>3. \A i \in 1 .. Len(push.batch) : acked + i \in 1 .. Len(chlog)
      BY <1>0, <3>1, <3>2
    <3> QED BY <1>0, <3>1, <3>2, <3>3 DEF ChlogGrows
  <2>2. ASSUME push.pc = "replied"
        PROVE  /\ push.through \in 0 .. Len(push.batch)
               /\ \A i \in 1 .. push.through : push.batch[i] \in Ids(Top)' \cup rejected'
    BY <2>2 DEF LogInv, BatchInv
  <2>3. push.pc \in {"idle", "sent", "replied", "cursors"}
    BY DEF LogInv, BatchInv
  <2> QED BY <1>1, <1>3, <2>1, <2>2, <2>3 DEF BatchInv
<1> QED BY <1>2, <1>3

\* The changes of other clients have the ids that follow MaxWrites.
LEMMA ForeignCount ==
  ASSUME ClientSyncAssumption, LogInv
  PROVE  \E k \in 0 .. MaxForeign :
           /\ Ids(Top) \ Own = MaxWrites + 1 .. MaxWrites + k
           /\ Cardinality(Ids(Top) \ Own) = k
<1>0. MaxWrites \in Nat /\ MaxForeign \in Nat
  BY DEF ClientSyncAssumption
<1>1. PICK k \in 0 .. MaxForeign : Ids(Top) \ Own = MaxWrites + 1 .. MaxWrites + k
  BY DEF LogInv, OnceInv
<1>2. MaxWrites + 1 \in Int /\ MaxWrites + k \in Int /\ k \in Nat
  BY <1>0
<1>3. Cardinality(MaxWrites + 1 .. MaxWrites + k) =
        IF MaxWrites + 1 > MaxWrites + k THEN 0 ELSE MaxWrites + k - (MaxWrites + 1) + 1
  BY <1>2, FS_Interval
<1>4. (IF MaxWrites + 1 > MaxWrites + k THEN 0 ELSE MaxWrites + k - (MaxWrites + 1) + 1) = k
  BY <1>0
<1> QED BY <1>1, <1>3, <1>4

LEMMA ForeignKeepsLog ==
  ASSUME ClientSyncAssumption, LogInv, NEW t \in Theirs, NEW gone \in BOOLEAN, Foreign(t, gone)
  PROVE  LogInv'
<1> DEFINE e == [table |-> t, gone |-> gone, id |-> MaxWrites + 1 + Cardinality(Ids(Top) \ Own)]
<1>0. MaxWrites \in Nat /\ MaxForeign \in Nat /\ t \in Table
  BY DEF ClientSyncAssumption
<1>1. PICK k \in 0 .. MaxForeign : /\ Ids(Top) \ Own = MaxWrites + 1 .. MaxWrites + k
                                   /\ Cardinality(Ids(Top) \ Own) = k
  BY ForeignCount
<1>3. /\ k < MaxForeign /\ log' = Append(log, e) /\ e.id = MaxWrites + k + 1
      /\ UNCHANGED <<rejected, writing, acked, push>>
  BY <1>0, <1>1 DEF Foreign
<1>4. e \in Entry /\ e.id \notin Ids(Top) /\ e.id \notin Own
  BY <1>0, <1>1, <1>3 DEF Entry, Id, Own
<1> HIDE DEF e
<1>5. log \in Seq(Entry)
  BY DEF LogInv, WriteType
<1>6. /\ log' \in Seq(Entry) /\ Top' = Top + 1 /\ log'[Top + 1] = e
      /\ \A s \in 1 .. Top : log'[s] = log[s]
      /\ LoggedOnce /\ e.id \notin Ids(Top) => LoggedOnce'
  BY <1>3, <1>4, <1>5, OneGrows
<1>7. Ids(Top)' = Ids(Top) \cup {e.id}
  BY <1>3, <1>4, <1>5, OneGrows
<1>8. WriteType'
  BY <1>3, <1>6 DEF LogInv, WriteType, writing
<1>9. OnceInv'
  <2>1. LoggedOnce'
    BY <1>4, <1>6 DEF LogInv, OnceInv
  <2>2. \A s \in 1 .. Top' : log'[s].id \in Own => log'[s].id <= Len(tableOf)
    <3>1. \A s \in 1 .. Top' : s \in 1 .. Top \/ s = Top + 1
      BY <1>5, <1>6 DEF Top
    <3> QED BY <1>4, <1>6, <3>1 DEF LogInv, OnceInv
  <2>3. Ids(Top)' \ Own = MaxWrites + 1 .. MaxWrites + (k + 1)
    <3>1. Ids(Top)' \ Own = (Ids(Top) \ Own) \cup {e.id}
      BY <1>4, <1>7
    <3> QED BY <1>0, <1>1, <1>3, <3>1
  <2>4. k + 1 \in 0 .. MaxForeign
    BY <1>0, <1>3
  <2>5. direct # None /\ ~direct.executed => direct.id \notin Ids(Top)'
    BY <1>4, <1>7 DEF LogInv, OnceInv, WriteType
  <2> QED BY <1>3, <2>1, <2>2, <2>3, <2>4, <2>5 DEF LogInv, OnceInv, writing
<1>10. BatchInv'
  <2>1. ChlogGrows
    BY <1>3 DEF ChlogGrows, LogInv, WriteType, writing
  <2> QED BY <1>3, <1>7, <2>1, BatchKept
<1> QED BY <1>8, <1>9, <1>10 DEF LogInv

LEMMA MutateKeepsLog ==
  ASSUME ClientSyncAssumption, LogInv, NEW t \in Mine, Mutate(t)
  PROVE  LogInv'
<1>0. /\ MaxWrites \in Nat /\ t \in Table /\ tableOf \in Seq(Table) /\ chlog \in Seq(Own)
      /\ Len(tableOf) \in Nat /\ Len(chlog) \in Nat
  BY DEF ClientSyncAssumption, LogInv, WriteType
<1>1. /\ Len(tableOf) < MaxWrites /\ tableOf' = Append(tableOf, t)
      /\ chlog' = Append(chlog, Len(tableOf'))
      /\ UNCHANGED <<server, acked, applied, direct, push>>
  BY DEF Mutate, MayWrite
<1>2. tableOf' \in Seq(Table) /\ Len(tableOf') = Len(tableOf) + 1
  BY <1>0, <1>1, AppendProperties
<1>3. Len(tableOf') \in Own
  BY <1>0, <1>1, <1>2 DEF Own
<1>4. /\ chlog' \in Seq(Own) /\ Len(chlog') = Len(chlog) + 1
      /\ \A i \in 1 .. Len(chlog) : chlog'[i] = chlog[i]
      /\ chlog'[Len(chlog) + 1] = Len(tableOf')
  BY <1>0, <1>1, <1>3, AppendProperties
<1>5. UNCHANGED <<Top, Ids(Top), log, rejected>>
  BY <1>1 DEF server, Top, Ids
<1>6. WriteType'
  <2>1. acked \in 0 .. Len(chlog') /\ applied \in 0 .. Len(chlog')
    BY <1>0, <1>4 DEF LogInv, WriteType
  <2>2. Len(tableOf') <= MaxWrites
    BY <1>0, <1>1, <1>2
  <2> QED BY <1>1, <1>2, <1>4, <1>5, <2>1, <2>2 DEF LogInv, WriteType
<1>7. OnceInv'
  <2>1. LoggedOnce'
    BY <1>5 DEF LogInv, OnceInv, LoggedOnce
  <2>2. \A s \in 1 .. Top' : log'[s].id \in Own => log'[s].id <= Len(tableOf')
    BY <1>0, <1>2, <1>5 DEF LogInv, OnceInv, Own
  <2>3. \A i \in 1 .. Len(chlog') :
          \/ /\ i \in 1 .. Len(chlog) /\ chlog'[i] = chlog[i]
             /\ chlog[i] \in Own /\ chlog[i] <= Len(tableOf)
          \/ i = Len(chlog) + 1 /\ chlog'[i] = Len(tableOf) + 1
    <3>1. \A i \in 1 .. Len(chlog) : chlog[i] \in Own /\ chlog[i] <= Len(tableOf)
      BY <1>0 DEF LogInv, OnceInv
    <3>2. \A i \in 1 .. Len(chlog') : i \in 1 .. Len(chlog) \/ i = Len(chlog) + 1
      BY <1>0, <1>4
    <3> QED BY <1>2, <1>4, <3>1, <3>2
  <2>4. ASSUME NEW i \in 1 .. Len(chlog'), NEW j \in 1 .. Len(chlog'), chlog'[i] = chlog'[j]
        PROVE  i = j
    <3>1. CASE i \in 1 .. Len(chlog) /\ j \in 1 .. Len(chlog)
      BY <1>4, <2>4, <3>1 DEF LogInv, OnceInv
    <3>2. \A n \in Own : n <= Len(tableOf) => n # Len(tableOf) + 1
      BY <1>0 DEF Own
    <3>3. CASE i = Len(chlog) + 1 \/ j = Len(chlog) + 1
      BY <1>0, <2>3, <2>4, <3>2, <3>3
    <3> QED BY <2>3, <3>1, <3>3
  <2>5. \A i \in 1 .. Len(chlog') : chlog'[i] <= Len(tableOf')
    BY <1>0, <1>2, <2>3 DEF Own
  <2>6. ASSUME direct # None
        PROVE  /\ direct.id <= Len(tableOf')
               /\ \A i \in 1 .. Len(chlog') : chlog'[i] # direct.id
               /\ ~direct.executed => direct.id \notin Ids(Top)'
    <3>1. direct.id \in Own /\ direct.id <= Len(tableOf)
      BY <2>6 DEF LogInv, OnceInv, WriteType
    <3> QED BY <1>0, <1>2, <1>5, <2>3, <2>6, <3>1 DEF LogInv, OnceInv, Own
  <2>7. \E k \in 0 .. MaxForeign : Ids(Top)' \ Own = MaxWrites + 1 .. MaxWrites + k
    BY <1>5 DEF LogInv, OnceInv
  <2> QED BY <1>1, <2>1, <2>2, <2>4, <2>5, <2>6, <2>7 DEF OnceInv
<1>8. BatchInv'
  <2>1. ChlogGrows
    BY <1>0, <1>4 DEF ChlogGrows
  <2> QED BY <1>1, <1>5, <2>1, BatchKept
<1> QED BY <1>6, <1>7, <1>8 DEF LogInv

LEMMA DirectKeepsLog ==
  ASSUME ClientSyncAssumption, LogInv, NEW t \in Mine, Direct(t)
  PROVE  LogInv'
<1>0. /\ MaxWrites \in Nat /\ t \in Table /\ tableOf \in Seq(Table) /\ chlog \in Seq(Own)
      /\ Len(tableOf) \in Nat /\ Len(chlog) \in Nat
  BY DEF ClientSyncAssumption, LogInv, WriteType
<1>1. /\ Len(tableOf) < MaxWrites /\ tableOf' = Append(tableOf, t)
      /\ direct' = [id |-> Len(tableOf'), executed |-> FALSE]
      /\ UNCHANGED <<server, chlog, acked, applied, push>>
  BY DEF Direct, MayWrite
<1>2. tableOf' \in Seq(Table) /\ Len(tableOf') = Len(tableOf) + 1
  BY <1>0, <1>1, AppendProperties
<1>3. Len(tableOf') \in Own
  BY <1>0, <1>1, <1>2 DEF Own
<1>4. UNCHANGED <<Top, Ids(Top), log, rejected>>
  BY <1>1 DEF server, Top, Ids
<1>5. WriteType'
  <2>1. Len(tableOf') <= MaxWrites
    BY <1>0, <1>1, <1>2
  <2> QED BY <1>1, <1>2, <1>3, <1>4, <2>1 DEF LogInv, WriteType
<1>6. OnceInv'
  <2>1. LoggedOnce'
    BY <1>4 DEF LogInv, OnceInv, LoggedOnce
  <2>2. \A s \in 1 .. Top' : log'[s].id \in Own => log'[s].id <= Len(tableOf')
    BY <1>0, <1>2, <1>4 DEF LogInv, OnceInv, Own
  <2>3. \A i \in 1 .. Len(chlog) : chlog[i] \in Own /\ chlog[i] <= Len(tableOf)
    BY <1>0 DEF LogInv, OnceInv
  <2>4. \A i \in 1 .. Len(chlog) : chlog[i] <= Len(tableOf') /\ chlog[i] # direct'.id
    BY <1>0, <1>1, <1>2, <2>3 DEF Own
  <2>5. direct'.id = Len(tableOf) + 1 /\ direct'.id \notin Ids(Top)
    BY <1>0, <1>1, <1>2, <1>3 DEF LogInv, OnceInv, Ids
  <2>6. \E k \in 0 .. MaxForeign : Ids(Top)' \ Own = MaxWrites + 1 .. MaxWrites + k
    BY <1>4 DEF LogInv, OnceInv
  <2>7. \A i, j \in 1 .. Len(chlog') : chlog'[i] = chlog'[j] => i = j
    BY <1>1 DEF LogInv, OnceInv
  <2>8. direct'.id <= Len(tableOf')
    BY <1>0, <1>2, <2>5
  <2> QED BY <1>1, <1>4, <2>1, <2>2, <2>4, <2>5, <2>6, <2>7, <2>8 DEF OnceInv
<1>7. BatchInv'
  <2>1. ChlogGrows
    BY <1>0, <1>1 DEF ChlogGrows
  <2> QED BY <1>1, <1>4, <2>1, BatchKept
<1> QED BY <1>5, <1>6, <1>7 DEF LogInv

LEMMA DirectServeKeepsLog ==
  ASSUME ClientSyncAssumption, LogInv, DirectServe
  PROVE  LogInv'
<1> DEFINE e == [table |-> tableOf[direct.id], id |-> direct.id, gone |-> FALSE]
<1>0. /\ MaxWrites \in Nat /\ MaxForeign \in Nat /\ log \in Seq(Entry) /\ tableOf \in Seq(Table)
  BY DEF ClientSyncAssumption, LogInv, WriteType
<1>1. /\ direct # None /\ ~direct.executed /\ direct' = [direct EXCEPT !.executed = TRUE]
      /\ log' = Append(log, e)
      /\ UNCHANGED <<rejected, chlog, tableOf, applied, acked, push>>
  BY DEF DirectServe
<1>2. /\ direct.id \in Own /\ direct.id <= Len(tableOf) /\ direct.id \notin Ids(Top)
      /\ direct' \in [id : Own, executed : BOOLEAN] /\ direct'.id = direct.id /\ direct'.executed
  BY <1>1 DEF LogInv, WriteType, OnceInv
<1>3. e \in Entry /\ e.id = direct.id
  <2>1. tableOf[direct.id] \in Table
    BY <1>0, <1>2 DEF Own
  <2>2. direct.id \in Id
    BY <1>0, <1>2 DEF Own, Id
  <2> QED BY <2>1, <2>2 DEF Entry
<1> HIDE DEF e
<1>4. /\ log' \in Seq(Entry) /\ Top' = Top + 1 /\ log'[Top + 1] = e
      /\ \A s \in 1 .. Top : log'[s] = log[s]
      /\ LoggedOnce /\ e.id \notin Ids(Top) => LoggedOnce'
  BY <1>0, <1>1, <1>3, OneGrows
<1>5. Ids(Top)' = Ids(Top) \cup {direct.id}
  BY <1>0, <1>1, <1>3, OneGrows
<1>6. WriteType'
  BY <1>1, <1>2, <1>4 DEF LogInv, WriteType
<1>7. OnceInv'
  <2>1. LoggedOnce'
    BY <1>2, <1>3, <1>4 DEF LogInv, OnceInv
  <2>2. \A s \in 1 .. Top' : log'[s].id \in Own => log'[s].id <= Len(tableOf)
    <3>1. \A s \in 1 .. Top' : s \in 1 .. Top \/ s = Top + 1
      BY <1>0, <1>4 DEF Top
    <3> QED BY <1>2, <1>3, <1>4, <3>1 DEF LogInv, OnceInv
  <2>3. Ids(Top)' \ Own = Ids(Top) \ Own
    BY <1>2, <1>5
  <2> QED BY <1>1, <1>2, <2>1, <2>2, <2>3 DEF LogInv, OnceInv
<1>8. BatchInv'
  <2>1. ChlogGrows
    BY <1>1 DEF ChlogGrows, LogInv, WriteType
  <2> QED BY <1>1, <1>5, <2>1, BatchKept
<1> QED BY <1>6, <1>7, <1>8 DEF LogInv

\* A mutation ends, well or refused; a push ends; the page is closed.
LEMMA EndsKeepLog ==
  ASSUME LogInv, UNCHANGED <<server, chlog, tableOf, acked>>,
         direct' = direct \/ direct' = None,
         push' = push \/ push' \in {[pc |-> "idle"], [pc |-> "cursors"]},
         applied' \in 0 .. Len(chlog)
  PROVE  LogInv'
<1>1. UNCHANGED <<log, rejected, Top, Ids(Top)>>
  BY DEF server, Top, Ids
<1>2. WriteType'
  BY <1>1 DEF LogInv, WriteType
<1>3. OnceInv'
  <2>1. LoggedOnce'
    BY <1>1 DEF LogInv, OnceInv, LoggedOnce
  <2> QED BY <1>1, <2>1 DEF LogInv, OnceInv
<1>4. BatchInv'
  <2>1. ChlogGrows
    BY DEF ChlogGrows, LogInv, WriteType
  <2> QED BY <1>1, <2>1, BatchKept
<1> QED BY <1>2, <1>3, <1>4 DEF LogInv

LEMMA DirectLostKeepsLog ==
  ASSUME LogInv, DirectLost
  PROVE  LogInv'
<1>0. chlog \in Seq(Own) /\ Len(chlog) \in Nat
  BY DEF LogInv, WriteType
<1>1. /\ direct # None /\ chlog' = Append(chlog, direct.id) /\ direct' = None
      /\ UNCHANGED <<server, tableOf, applied, acked, push>>
  BY DEF DirectLost
<1>2. /\ direct.id \in Own /\ direct.id <= Len(tableOf)
      /\ \A i \in 1 .. Len(chlog) : chlog[i] # direct.id
  BY <1>1 DEF LogInv, WriteType, OnceInv
<1>3. /\ chlog' \in Seq(Own) /\ Len(chlog') = Len(chlog) + 1
      /\ \A i \in 1 .. Len(chlog) : chlog'[i] = chlog[i]
      /\ chlog'[Len(chlog) + 1] = direct.id
  BY <1>0, <1>1, <1>2, AppendProperties
<1>4. UNCHANGED <<log, rejected, Top, Ids(Top)>>
  BY <1>1 DEF server, Top, Ids
<1>5. WriteType'
  <2>1. acked \in 0 .. Len(chlog') /\ applied \in 0 .. Len(chlog')
    BY <1>0, <1>3 DEF LogInv, WriteType
  <2> QED BY <1>1, <1>3, <1>4, <2>1 DEF LogInv, WriteType
<1>6. OnceInv'
  <2>1. LoggedOnce'
    BY <1>4 DEF LogInv, OnceInv, LoggedOnce
  <2>2. \A i \in 1 .. Len(chlog') : i \in 1 .. Len(chlog) \/ i = Len(chlog) + 1
    BY <1>0, <1>3
  <2>3. \A i, j \in 1 .. Len(chlog') : chlog'[i] = chlog'[j] => i = j
    BY <1>2, <1>3, <2>2 DEF LogInv, OnceInv
  <2>4. \A i \in 1 .. Len(chlog') : chlog'[i] <= Len(tableOf)
    BY <1>2, <1>3, <2>2 DEF LogInv, OnceInv
  <2> QED BY <1>1, <1>4, <2>1, <2>3, <2>4 DEF LogInv, OnceInv
<1>7. BatchInv'
  <2>1. ChlogGrows
    BY <1>0, <1>3 DEF ChlogGrows
  <2> QED BY <1>1, <1>4, <2>1, BatchKept
<1> QED BY <1>5, <1>6, <1>7 DEF LogInv

LEMMA PushStartKeepsLog ==
  ASSUME ClientSyncAssumption, LogInv, PushStart
  PROVE  LogInv'
<1> DEFINE to == Min({acked + Batch, Len(chlog)})
<1>0. /\ chlog \in Seq(Own) /\ Len(chlog) \in Nat /\ acked \in Nat /\ Batch \in Nat \ {0}
  BY DEF ClientSyncAssumption, LogInv, WriteType
<1>1. /\ acked < Len(chlog) /\ push' = [pc |-> "sent", batch |-> SubSeq(chlog, acked + 1, to)]
      /\ UNCHANGED <<server, writing, acked>>
  BY DEF PushStart
<1>2. to \in Nat /\ acked < to /\ to <= Len(chlog)
  <2> DEFINE M == {acked + Batch, Len(chlog)}
  <2>1. M \subseteq Nat /\ M # {}
    BY <1>0
  <2>2. Min(M) \in M /\ \A y \in M : Min(M) <= y
    BY <2>1, MinIsLeast
  <2> QED BY <1>0, <1>1, <2>2
<1> HIDE DEF to
<1>3. LET b == SubSeq(chlog, acked + 1, to)
      IN b \in Seq(Own) /\ Len(b) = to - acked /\ \A i \in 1 .. to - acked : b[i] = chlog[acked + i]
  <2>1. \A i \in acked + 1 .. to : chlog[i] \in Own
    BY <1>0, <1>2
  <2>2. acked + 1 \in Int /\ to \in Int /\ acked + 1 <= to /\ to - (acked + 1) + 1 = to - acked
    BY <1>0, <1>2
  <2>3. \A i \in 1 .. to - acked : acked + 1 + i - 1 = acked + i
    BY <1>0, <1>2
  <2> QED BY <2>1, <2>2, <2>3, SubSeqProperties
<1>4. UNCHANGED <<log, rejected, Top, Ids(Top), chlog, tableOf, applied, direct>>
  BY <1>1 DEF server, writing, Top, Ids
<1>5. BatchInv'
  <2>1. AckedIsSettled'
    BY <1>1, <1>4 DEF LogInv, BatchInv, AckedIsSettled
  <2>2. /\ push'.batch \in Seq(Own) /\ acked + Len(push'.batch) <= Len(chlog)
        /\ \A i \in 1 .. Len(push'.batch) : push'.batch[i] = chlog[acked + i]
    BY <1>0, <1>1, <1>2, <1>3
  <2> QED BY <1>1, <1>4, <2>1, <2>2 DEF BatchInv
<1>6. WriteType'
  BY <1>1, <1>4 DEF LogInv, WriteType
<1>7. OnceInv'
  <2>1. LoggedOnce'
    BY <1>4 DEF LogInv, OnceInv, LoggedOnce
  <2> QED BY <1>1, <1>4, <2>1 DEF LogInv, OnceInv
<1> QED BY <1>5, <1>6, <1>7 DEF LogInv

LEMMA PushRetryKeepsLog ==
  ASSUME LogInv, PushRetry
  PROVE  LogInv'
<1>1. /\ push.pc = "replied" /\ push' = [pc |-> "sent", batch |-> push.batch]
      /\ UNCHANGED <<server, writing, acked>>
  BY DEF PushRetry
<1>2. UNCHANGED <<log, rejected, Top, Ids(Top), chlog, tableOf, applied, direct>>
  BY <1>1 DEF server, writing, Top, Ids
<1>3. BatchInv'
  <2>1. AckedIsSettled'
    BY <1>1, <1>2 DEF LogInv, BatchInv, AckedIsSettled
  <2> QED BY <1>1, <1>2, <2>1 DEF LogInv, BatchInv
<1>4. WriteType'
  BY <1>1, <1>2 DEF LogInv, WriteType
<1>5. OnceInv'
  <2>1. LoggedOnce'
    BY <1>2 DEF LogInv, OnceInv, LoggedOnce
  <2> QED BY <1>1, <1>2, <2>1 DEF LogInv, OnceInv
<1> QED BY <1>3, <1>4, <1>5 DEF LogInv

\* What the answer has let the client acknowledge is behind what it had.
LEMMA PushAckKeepsLog ==
  ASSUME LogInv, PushAck
  PROVE  LogInv'
<1>1. /\ push.pc = "replied" /\ acked' = acked + push.through /\ push' = [pc |-> "cursors"]
      /\ UNCHANGED <<server, writing>>
  BY DEF PushAck
<1>2. UNCHANGED <<log, rejected, Top, Ids(Top), chlog, tableOf, applied, direct>>
  BY <1>1 DEF server, writing, Top, Ids
<1>3. /\ acked \in Nat /\ Len(chlog) \in Nat /\ push.batch \in Seq(Own)
      /\ push.through \in 0 .. Len(push.batch) /\ acked + Len(push.batch) <= Len(chlog)
      /\ \A i \in 1 .. push.through : push.batch[i] \in Ids(Top) \cup rejected
      /\ \A i \in 1 .. Len(push.batch) : push.batch[i] = chlog[acked + i]
  BY <1>1 DEF LogInv, WriteType, BatchInv
<1>4. Len(push.batch) \in Nat
  BY <1>3
<1>5. AckedIsSettled'
  <2> SUFFICES ASSUME NEW i \in 1 .. acked + push.through PROVE chlog[i] \in Ids(Top) \cup rejected
    BY <1>1, <1>2 DEF AckedIsSettled
  <2>1. CASE i \in 1 .. acked
    BY <2>1 DEF LogInv, BatchInv, AckedIsSettled
  <2>2. CASE i \notin 1 .. acked
    <3>1. /\ i - acked \in 1 .. push.through /\ i - acked \in 1 .. Len(push.batch)
          /\ acked + (i - acked) = i
      BY <1>3, <1>4, <2>2
    <3>2. push.batch[i - acked] = chlog[i] /\ push.batch[i - acked] \in Ids(Top) \cup rejected
      BY <1>3, <3>1
    <3> QED BY <3>2
  <2> QED BY <2>1, <2>2
<1>6. BatchInv'
  BY <1>1, <1>5 DEF BatchInv
<1>7. WriteType'
  <2>1. acked' \in 0 .. Len(chlog)
    BY <1>1, <1>3, <1>4
  <2> QED BY <1>2, <2>1 DEF LogInv, WriteType
<1>8. OnceInv'
  <2>1. LoggedOnce'
    BY <1>2 DEF LogInv, OnceInv, LoggedOnce
  <2> QED BY <1>2, <2>1 DEF LogInv, OnceInv
<1> QED BY <1>6, <1>7, <1>8 DEF LogInv

\* The entries before the first one that is to be tried again.
LEMMA ThroughLemma ==
  ASSUME NEW b \in Seq(Own), NEW good
  PROVE  /\ Through(b, good) \in 0 .. Len(b)
         /\ \A i \in 1 .. Through(b, good) : i \in 1 .. Len(b) /\ b[i] \in good
<1> DEFINE D == {i \in DOMAIN b : \A j \in 1 .. i : b[j] \in good}
<1>1. Len(b) \in Nat /\ DOMAIN b = 1 .. Len(b)
  OBVIOUS
<1>2. D \subseteq 1 .. Len(b) /\ \A i \in D : b[i] \in good
  BY <1>1
<1>3. \A i \in D : \A j \in 1 .. i : j \in D
  BY <1>1
<1>4. Through(b, good) = Cardinality(D)
  BY DEF Through
<1> HIDE DEF D
<1>5. Cardinality(D) \in 0 .. Len(b) /\ D = 1 .. Cardinality(D)
  BY <1>1, <1>2, <1>3, DownwardClosed
<1> QED BY <1>2, <1>4, <1>5

\* The changes a push logs: those of the batch that have no verdict yet.
LEMMA LoggedLemma ==
  ASSUME ClientSyncAssumption, LogInv, push.pc = "sent", NEW R
  PROVE  LET new == Fresh(push.batch, R)
             more == Logged(new)
         IN /\ new \in Seq(Own) /\ more \in Seq(Entry) /\ Len(more) = Len(new) /\ Len(new) \in Nat
            /\ \A j \in 1 .. Len(new) :
                 /\ more[j].id = new[j] /\ more[j].table = tableOf[new[j]]
                 /\ new[j] \in Own /\ new[j] <= Len(tableOf) /\ new[j] \notin Ids(Top)
                 /\ \E i \in 1 .. Len(chlog) : new[j] = chlog[i]
            /\ \A i, j \in 1 .. Len(new) : new[i] = new[j] => i = j
            /\ \A i \in 1 .. Len(push.batch) :
                 push.batch[i] \notin R \cup rejected \cup Ids(Top) =>
                   \E j \in 1 .. Len(new) : new[j] = push.batch[i]
<1> DEFINE b == push.batch
           S == R \cup rejected \cup Ids(Top)
           new == Without(b, S)
           more == Logged(new)
<1>0. /\ MaxWrites \in Nat /\ MaxForeign \in Nat /\ chlog \in Seq(Own) /\ tableOf \in Seq(Table)
      /\ acked \in Nat /\ Len(chlog) \in Nat
      /\ b \in Seq(Own) /\ acked + Len(b) <= Len(chlog)
      /\ \A i \in 1 .. Len(b) : b[i] = chlog[acked + i]
  BY DEF ClientSyncAssumption, LogInv, WriteType, BatchInv
<1>1. Len(b) \in Nat
  BY <1>0
<1>2. \A i \in 1 .. Len(b) : acked + i \in 1 .. Len(chlog)
  BY <1>0, <1>1
<1>3. \A i, j \in 1 .. Len(b) : b[i] = b[j] => i = j
  <2> TAKE i, j \in 1 .. Len(b)
  <2>1. b[i] = b[j] => acked + i = acked + j
    BY <1>0, <1>2 DEF LogInv, OnceInv
  <2> QED BY <1>0, <1>1, <2>1
<1> HIDE DEF b, S
<1>4. /\ new \in Seq(Own)
      /\ \A i \in 1 .. Len(b) : b[i] \notin S => \E j \in 1 .. Len(new) : new[j] = b[i]
      /\ \A j \in 1 .. Len(new) : new[j] \notin S /\ \E i \in 1 .. Len(b) : new[j] = b[i]
      /\ \A i, j \in 1 .. Len(new) : new[i] = new[j] => i = j
  <2>1. b \in Seq(Own)
    BY <1>0
  <2>2. LET w == Without(b, S)
        IN /\ w \in Seq(Own)
           /\ \A i \in 1 .. Len(b) : b[i] \notin S => \E j \in 1 .. Len(w) : w[j] = b[i]
           /\ \A j \in 1 .. Len(w) : w[j] \notin S /\ \E i \in 1 .. Len(b) : w[j] = b[i]
           /\ (\A i, j \in 1 .. Len(b) : b[i] = b[j] => i = j)
                => \A i, j \in 1 .. Len(w) : w[i] = w[j] => i = j
    BY <2>1, WithoutLemma
  <2> QED BY <1>3, <2>2
<1>5. Fresh(push.batch, R) = new
  BY DEF Fresh, S, b
<1> HIDE DEF new
<1>6. Len(new) \in Nat /\ DOMAIN new = 1 .. Len(new)
  BY <1>4
<1>7. ASSUME NEW j \in 1 .. Len(new)
      PROVE  /\ new[j] \in Own /\ new[j] <= Len(tableOf) /\ new[j] \notin Ids(Top)
             /\ \E i \in 1 .. Len(chlog) : new[j] = chlog[i]
  <2>1. PICK i \in 1 .. Len(b) : new[j] = b[i]
    BY <1>4
  <2>2. new[j] = chlog[acked + i] /\ acked + i \in 1 .. Len(chlog)
    BY <1>0, <1>2, <2>1
  <2>3. new[j] <= Len(tableOf)
    BY <2>2 DEF LogInv, OnceInv
  <2> QED BY <1>4, <2>2, <2>3 DEF S
<1>8. ASSUME NEW j \in 1 .. Len(new)
      PROVE  [table |-> tableOf[new[j]], id |-> new[j], gone |-> FALSE] \in Entry
  <2>1. new[j] \in 1 .. Len(tableOf) /\ new[j] \in Id
    BY <1>0, <1>7 DEF Own, Id
  <2> QED BY <1>0, <2>1 DEF Entry
<1>9. more = [j \in 1 .. Len(new) |-> [table |-> tableOf[new[j]], id |-> new[j], gone |-> FALSE]]
  BY <1>6 DEF Logged
<1>10. more \in Seq(Entry) /\ Len(more) = Len(new)
  BY <1>6, <1>8, <1>9
<1> HIDE DEF more
<1>11. \A j \in 1 .. Len(new) : more[j].id = new[j] /\ more[j].table = tableOf[new[j]]
  BY <1>9
<1> QED BY <1>4, <1>5, <1>6, <1>7, <1>10, <1>11 DEF more, b, S

LEMMA PushServeKeepsLog ==
  ASSUME ClientSyncAssumption, LogInv, PushServe
  PROVE  LogInv'
<1> DEFINE b == push.batch
<1>0. /\ push.pc = "sent" /\ MaxWrites \in Nat /\ MaxForeign \in Nat /\ b \in Seq(Own)
      /\ log \in Seq(Entry) /\ Top \in Nat /\ rejected \subseteq Own
  BY DEF PushServe, ClientSyncAssumption, LogInv, WriteType, BatchInv, Top
<1>1. PICK T \in SUBSET (Range(b) \ (rejected \cup Ids(Top))),
           R \in SUBSET (Range(b) \ (rejected \cup Ids(Top))) :
        /\ rejected' = rejected \cup T
        /\ log' = log \o Logged(Fresh(b, T \cup R))
        /\ push' = [pc |-> "replied", batch |-> b,
                    answered |-> R = {} \/ Range(b) \cap rejected' # {},
                    through |-> Through(b, Range(b) \ R),
                    cursors |-> PushCursors(Fresh(b, T \cup R), Top + Len(Fresh(b, T \cup R)))]
  BY Zenon DEF PushServe
<1>2. UNCHANGED <<storage, writing, acked, pull, clone, cursors, past, crashes, clones>>
  BY DEF PushServe
<1> DEFINE new == Fresh(b, T \cup R)
           more == Logged(new)
<1>3. /\ new \in Seq(Own) /\ more \in Seq(Entry) /\ Len(more) = Len(new) /\ Len(new) \in Nat
      /\ \A j \in 1 .. Len(new) :
           /\ more[j].id = new[j] /\ more[j].table = tableOf[new[j]]
           /\ new[j] \in Own /\ new[j] <= Len(tableOf) /\ new[j] \notin Ids(Top)
           /\ \E i \in 1 .. Len(chlog) : new[j] = chlog[i]
      /\ \A i, j \in 1 .. Len(new) : new[i] = new[j] => i = j
      /\ \A i \in 1 .. Len(b) :
           b[i] \notin (T \cup R) \cup rejected \cup Ids(Top) => \E j \in 1 .. Len(new) : new[j] = b[i]
  BY <1>0, LoggedLemma
<1>4. log' = log \o more
  BY <1>1
<1> HIDE DEF new, more
<1>5. \A j \in 1 .. Len(more) : more[j].id = new[j] /\ new[j] \notin Ids(Top) /\ new[j] \in Own
  BY <1>3
<1>6. Grows(more)
  BY <1>0, <1>3, <1>4, ConcatGrows
<1>7. Ids(Top)' = Ids(Top) \cup {more[j].id : j \in 1 .. Len(more)}
  BY <1>0, <1>3, <1>6, GrownIds
<1>8. rejected' \subseteq Own /\ rejected \subseteq rejected'
  BY <1>0, <1>1 DEF Range
<1>9. UNCHANGED <<chlog, tableOf, applied, direct>>
  BY <1>2 DEF writing
<1>10. WriteType'
  BY <1>2, <1>6, <1>8, <1>9 DEF LogInv, WriteType, Grows
<1>11. OnceInv'
  <2>1. LoggedOnce'
    <3>1. \A i, j \in 1 .. Len(more) : more[i].id = more[j].id => i = j
      BY <1>3
    <3> QED BY <1>0, <1>3, <1>5, <1>6, <3>1, GrownOnce DEF LogInv, OnceInv
  <2>2. \A s \in 1 .. Top' : log'[s].id \in Own => log'[s].id <= Len(tableOf)
    <3> TAKE s \in 1 .. Top'
    <3>1. CASE s \in 1 .. Top
      BY <1>6, <3>1 DEF Grows, LogInv, OnceInv
    <3>2. CASE s \notin 1 .. Top
      <4>1. s - Top \in 1 .. Len(more) /\ s = Top + (s - Top)
        BY <1>0, <1>3, <1>6, <3>2 DEF Grows
      <4>2. log'[s] = more[s - Top]
        BY <1>6, <4>1 DEF Grows
      <4> QED BY <1>3, <4>1, <4>2
    <3> QED BY <3>1, <3>2
  <2>3. Ids(Top)' \ Own = Ids(Top) \ Own
    BY <1>5, <1>7
  <2>4. direct # None /\ ~direct.executed => direct.id \notin Ids(Top)'
    <3> SUFFICES ASSUME direct # None, ~direct.executed, direct.id \in Ids(Top)' PROVE FALSE
      OBVIOUS
    <3>1. direct.id \notin Ids(Top) /\ \A i \in 1 .. Len(chlog) : chlog[i] # direct.id
      BY DEF LogInv, OnceInv
    <3>2. PICK j \in 1 .. Len(more) : direct.id = more[j].id
      BY <1>7, <3>1
    <3> QED BY <1>3, <3>1, <3>2
  <2> QED BY <1>9, <2>1, <2>2, <2>3, <2>4 DEF LogInv, OnceInv
<1>12. BatchInv'
  <2>1. AckedIsSettled'
    BY <1>2, <1>7, <1>8, <1>9 DEF LogInv, BatchInv, AckedIsSettled
  <2>2. /\ Through(b, Range(b) \ R) \in 0 .. Len(b)
        /\ \A i \in 1 .. Through(b, Range(b) \ R) : i \in 1 .. Len(b) /\ b[i] \in Range(b) \ R
    BY <1>0, ThroughLemma
  <2>3. ASSUME NEW i \in 1 .. Len(b), b[i] \notin R PROVE b[i] \in Ids(Top)' \cup rejected'
    <3>1. CASE b[i] \in T \cup rejected \cup Ids(Top)
      BY <1>1, <1>7, <3>1
    <3>2. CASE b[i] \notin T \cup rejected \cup Ids(Top)
      <4>1. PICK j \in 1 .. Len(new) : new[j] = b[i]
        BY <1>3, <2>3, <3>2
      <4>2. more[j].id = b[i] /\ j \in 1 .. Len(more)
        BY <1>3, <1>5, <4>1
      <4> QED BY <1>7, <4>2
    <3> QED BY <3>1, <3>2
  <2>4. /\ push'.pc = "replied" /\ push'.batch = b /\ push'.through = Through(b, Range(b) \ R)
    BY <1>1
  <2>5. /\ acked + Len(b) <= Len(chlog) /\ \A i \in 1 .. Len(b) : b[i] = chlog[acked + i]
    BY <1>0 DEF LogInv, BatchInv
  <2>6. \A i \in 1 .. Through(b, Range(b) \ R) : b[i] \in Ids(Top)' \cup rejected'
    BY <2>2, <2>3
  <2> HIDE DEF b
  <2> QED BY <1>0, <1>2, <1>9, <2>1, <2>2, <2>4, <2>5, <2>6 DEF BatchInv
<1> QED BY <1>10, <1>11, <1>12 DEF LogInv

\* The steps that touch nothing the change log rests on.
Elsewhere ==
  \/ \E t \in Table :
       \/ CloneRows(t) \/ CloneCursor(t) \/ CloneReadFails(t)
       \/ CloneUpsert(t) \/ CloneReady(t)
  \/ \E a \in Actor : CursorRead(a) \/ CursorWrite(a)
  \/ PullStart \/ PullServe \/ PullFail \/ PullCheck \/ PullApply \/ PullEnd
  \/ CloneStart \/ CloneFail \/ CloneEnd

LEMMA ElsewhereKeepsLog ==
  ASSUME Elsewhere
  PROVE  UNCHANGED <<server, writing, acked, push>>
BY DEF Elsewhere, CloneRows, CloneCursor, CloneReadFails, CloneUpsert, CloneReady, CursorRead,
       CursorWrite, PullStart, PullServe, PullFail, PullCheck, PullApply, PullEnd, CloneStart,
       CloneFail, CloneEnd

LEMMA LogStep ==
  ASSUME ClientSyncAssumption, LogInv, [Next]_vars
  PROVE  LogInv'
<1>0. applied \in 0 .. Len(chlog) /\ Len(chlog) \in Nat
  BY DEF LogInv, WriteType
<1>1. CASE UNCHANGED vars
  BY <1>1, LogKept DEF vars
<1>2. CASE Elsewhere
  BY <1>2, ElsewhereKeepsLog, LogKept
<1>3. CASE \E t \in Theirs : \E gone \in BOOLEAN : Foreign(t, gone)
  BY <1>3, ForeignKeepsLog
<1>4. CASE \E t \in Mine : Mutate(t) \/ Direct(t)
  BY <1>4, MutateKeepsLog, DirectKeepsLog
<1>5. CASE Apply
  <2>1. /\ UNCHANGED <<server, chlog, tableOf, acked, direct, push>>
        /\ applied < Len(chlog) /\ applied' = applied + 1
    BY <1>5 DEF Apply
  <2>2. applied' \in 0 .. Len(chlog)
    BY <1>0, <2>1
  <2> QED BY <2>1, <2>2, EndsKeepLog
<1>6. CASE DirectServe
  BY <1>6, DirectServeKeepsLog
<1>7. CASE DirectDone \/ DirectRefused
  <2>1. /\ UNCHANGED <<server, chlog, tableOf, acked, applied, push>> /\ direct' = None
    BY <1>7 DEF DirectDone, DirectRefused
  <2> QED BY <1>0, <2>1, EndsKeepLog
<1>8. CASE DirectLost
  BY <1>8, DirectLostKeepsLog
<1>9. CASE PushStart
  BY <1>9, PushStartKeepsLog
<1>10. CASE PushServe
  BY <1>10, PushServeKeepsLog
<1>11. CASE PushRetry
  BY <1>11, PushRetryKeepsLog
<1>12. CASE PushAck
  BY <1>12, PushAckKeepsLog
<1>13. CASE PushGiveUp \/ PushEnd
  <2>1. UNCHANGED <<server, writing, acked>> /\ push' = [pc |-> "idle"]
    BY <1>13 DEF PushGiveUp, PushEnd, Idle
  <2> QED BY <1>0, <2>1, EndsKeepLog DEF writing
<1>14. CASE Crash
  <2>1. /\ UNCHANGED <<server, chlog, tableOf, acked>> /\ applied' = Len(chlog) /\ direct' = None
        /\ push' = [pc |-> "idle"]
    BY <1>14 DEF Crash, Idle
  <2> QED BY <1>0, <2>1, EndsKeepLog
<1> QED
  BY <1>1, <1>2, <1>3, <1>4, <1>5, <1>6, <1>7, <1>8, <1>9, <1>10, <1>11, <1>12, <1>13, <1>14
  DEF Next, Elsewhere

LEMMA InitLog ==
  ASSUME ClientSyncAssumption, Init
  PROVE  LogInv
<1>0. MaxWrites \in Nat /\ MaxForeign \in Nat /\ Top = 0 /\ Ids(Top) = {} /\ Len(chlog) = 0
  BY DEF ClientSyncAssumption, Init, Top, Ids
<1>1. WriteType
  BY <1>0, EmptySeq DEF Init, WriteType
<1>2. OnceInv
  <2>1. \E k \in 0 .. MaxForeign : Ids(Top) \ Own = MaxWrites + 1 .. MaxWrites + k
    <3>1. 0 \in 0 .. MaxForeign /\ Ids(Top) \ Own = MaxWrites + 1 .. MaxWrites + 0
      BY <1>0
    <3> QED BY <3>1
  <2>2. 1 .. Top = {} /\ 1 .. Len(chlog) = {}
    BY <1>0
  <2>3. direct = None
    BY DEF Init
  <2> QED BY <2>1, <2>2, <2>3 DEF OnceInv, LoggedOnce
<1>3. BatchInv
  BY <1>0 DEF Init, Idle, BatchInv, AckedIsSettled
<1> QED BY <1>1, <1>2, <1>3 DEF LogInv

\* An own write is logged at most once, on whichever ways it went to the
\* server: what executePush has a verdict on is not executed again, and a
\* mutation goes to the change log only once its request is over.
THEOREM ClientLoggedOnce == Spec => []LoggedOnce
<1>1. Init => LogInv
  BY ClientSyncAssumption, InitLog
<1>2. LogInv /\ [Next]_vars => LogInv'
  BY ClientSyncAssumption, LogStep
<1>3. LogInv => LoggedOnce
  BY DEF LogInv, OnceInv
<1> QED BY <1>1, <1>2, <1>3, PTL DEF Spec

\* An entry leaves the change log only when the server has logged or rejected
\* it: changelogAck goes no further than computeAckThroughSeq says, whichever
\* attempts were lost and wherever the page was closed.
THEOREM ClientAckedIsSettled == Spec => []AckedIsSettled
<1>1. Init => LogInv
  BY ClientSyncAssumption, InitLog
<1>2. LogInv /\ [Next]_vars => LogInv'
  BY ClientSyncAssumption, LogStep
<1>3. LogInv => AckedIsSettled
  BY DEF LogInv, BatchInv
<1> QED BY <1>1, <1>2, <1>3, PTL DEF Spec

----------------------------------------------------------------------------
(* The inductive invariants of the cursors. *)

\* The writes that were put into the change log.
Queued == {chlog[i] : i \in 1 .. Len(chlog)}

\* A number of a table's cursor, wherever it is held: it is no later than the
\* log, and passes no change that has not reached the store, but for those up to
\* an own one that was pushed.
Passed(t, c) ==
  /\ c \in 0 .. Top
  /\ t \notin torn =>
       \A s \in Changes(t, Top) : s <= c =>
         s \in seen \/ \E o \in OwnIn(t) : s <= o /\ o <= c /\ log[o].id \in Queued

Passable == {job \in Table \X Nat : Passed(job[1], job[2])}

CursorInv ==
  /\ cursor \in [Table -> Nat]
  /\ \A t \in Table : <<t, cursor[t]>> \in Passable

JobInv ==
  /\ jobs \in [Actor -> SUBSET Passable]
  /\ held \in [Actor -> {None} \cup [name : Table, to : Nat, from : Nat]]
  /\ \A a \in Actor : held[a] # None => <<held[a].name, held[a].to>> \in Passable

SentInv == push.pc = "replied" => push.cursors \subseteq Passable

PullInv ==
  /\ pull.pc \in {"idle", "sent", "replied", "checked", "cursors"}
  /\ pull.pc = "replied" => pull \in [pc : {"replied"}, asked : [Table -> Nat], upto : Nat]
  /\ pull.pc \in {"sent", "replied", "checked"} =>
       /\ pull.asked \in [Table -> Nat]
       /\ \A t \in Table : <<t, pull.asked[t]>> \in Passable
  /\ pull.pc \in {"replied", "checked"} => pull.upto \in 0 .. Top

Snapshot == [row : {0} \cup Id, at : Nat]

CloneRecord ==
  [pc : {"under way"}, rows : [Table -> {None} \cup Snapshot],
   cursors : [Table -> {None} \cup Nat], done : SUBSET Table]

\* A clone reads no cursor that is later than the rows, unless it is torn.
Cloned(t) ==
  /\ clone.rows[t] # None => clone.rows[t].at <= Top
  /\ clone.cursors[t] # None =>
       /\ clone.rows[t] \in Snapshot /\ clone.rows[t].at <= Top /\ clone.cursors[t] <= Top
       /\ t \notin torn => clone.cursors[t] <= clone.rows[t].at
  /\ t \in clone.done => clone.cursors[t] # None /\ <<t, clone.cursors[t]>> \in Passable

CloneInv ==
  /\ clone.pc \in {"idle", "under way"}
  /\ clone.pc = "under way" => clone \in CloneRecord /\ \A t \in Table : Cloned(t)

DataInv ==
  /\ local \in [Table -> {0} \cup Id]
  /\ hydration \in [Table -> {"notStarted", "hydrating", "ready"}]
  /\ seen \subseteq 1 .. Top /\ done \subseteq Own
  /\ torn \subseteq Table /\ muddled \subseteq Table /\ lost \subseteq Table
  /\ faults \in 0 .. MaxFaults /\ crashes \in 0 .. MaxCrashes
  /\ clones \in 0 .. MaxClones + MaxCrashes

StoreInv == CursorInv /\ JobInv /\ SentInv /\ PullInv /\ CloneInv /\ DataInv

\* What is logged, put into the change log, seen or torn stays so.
Advance ==
  /\ Top <= Top' /\ \A s \in 1 .. Top : log'[s] = log[s]
  /\ Queued \subseteq Queued'
  /\ seen \subseteq seen' /\ torn \subseteq torn'

----------------------------------------------------------------------------
(* Cursors stay passed. *)

LEMMA LogFacts ==
  ASSUME ClientSyncAssumption, LogInv
  PROVE  /\ Top \in Nat
         /\ \A s \in 1 .. Top : log[s].table \in Table /\ log[s].id \in Id
         /\ MaxWrites \in Nat /\ MaxForeign \in Nat
<1>1. log \in Seq(Entry) /\ MaxWrites \in Nat /\ MaxForeign \in Nat
  BY DEF ClientSyncAssumption, LogInv, WriteType
<1>2. \A s \in 1 .. Top : log[s] \in Entry
  BY <1>1 DEF Top
<1> QED BY <1>1, <1>2 DEF Entry, Top

LEMMA PassedKept ==
  ASSUME ClientSyncAssumption, LogInv, LogInv', Advance, NEW t \in Table, NEW c, Passed(t, c)
  PROVE  Passed(t, c)'
<1>0. Top \in Nat /\ Top' \in Nat /\ c \in Nat /\ c <= Top
  BY LogFacts DEF Passed, LogInv, WriteType, Top
<1>1. c \in 0 .. Top'
  BY <1>0 DEF Advance
<1>2. ASSUME t \notin torn', NEW s \in Changes(t, Top)', s <= c
      PROVE  s \in seen' \/ \E o \in OwnIn(t)' : s <= o /\ o <= c /\ log'[o].id \in Queued'
  <2>1. s \in 1 .. Top' /\ log'[s].table = t
    BY <1>2 DEF Changes
  <2>2. s \in 1 .. Top
    BY <1>0, <1>2, <2>1
  <2>3. s \in Changes(t, Top)
    BY <2>1, <2>2 DEF Changes, Advance
  <2>4. CASE s \in seen
    BY <2>4 DEF Advance
  <2>5. CASE \E o \in OwnIn(t) : s <= o /\ o <= c /\ log[o].id \in Queued
    <3>1. PICK o \in OwnIn(t) : s <= o /\ o <= c /\ log[o].id \in Queued
      BY <2>5
    <3>2. o \in 1 .. Top /\ log[o].table = t /\ log[o].id \in Own
      BY DEF OwnIn
    <3>3. o \in OwnIn(t)' /\ log'[o].id \in Queued'
      BY <1>0, <3>1, <3>2 DEF OwnIn, Advance
    <3> QED BY <3>1, <3>3
  <2>6. t \notin torn
    BY <1>2 DEF Advance
  <2> QED BY <1>2, <2>3, <2>4, <2>5, <2>6 DEF Passed
<1> QED BY <1>1, <1>2 DEF Passed

LEMMA PassableGrows ==
  ASSUME ClientSyncAssumption, LogInv, LogInv', Advance
  PROVE  Passable \subseteq Passable'
<1> SUFFICES ASSUME NEW t \in Table, NEW c \in Nat, Passed(t, c) PROVE Passed(t, c)'
  BY DEF Passable
<1> QED BY PassedKept

LEMMA PassableStays ==
  ASSUME UNCHANGED <<log, seen, torn, chlog>>
  PROVE  Passable' = Passable
BY DEF Passable, Passed, Changes, OwnIn, Queued, Top

\* A table a step of the clone leaves alone.
LEMMA ClonedKept ==
  ASSUME ClientSyncAssumption, LogInv, LogInv', Advance, clone \in CloneRecord,
         NEW t \in Table, Cloned(t),
         clone'.rows[t] = clone.rows[t], clone'.cursors[t] = clone.cursors[t],
         t \in clone'.done => t \in clone.done
  PROVE  Cloned(t)'
<1>g. Passable \subseteq Passable'
  BY PassableGrows
<1>0. Top \in Nat /\ Top' \in Nat /\ Top <= Top' /\ Passable \subseteq Passable'
  BY <1>g, LogFacts DEF Advance, LogInv, WriteType, Top
<1>1. clone.rows[t] \in {None} \cup Snapshot /\ clone.cursors[t] \in {None} \cup Nat
  BY DEF CloneRecord
<1>2. clone'.rows[t] # None => clone'.rows[t].at <= Top'
  <2>1. clone.rows[t] # None => clone.rows[t].at <= Top /\ clone.rows[t].at \in Nat
    BY <1>1 DEF Cloned, Snapshot
  <2> QED BY <1>0, <2>1
<1>3. clone'.cursors[t] # None =>
        /\ clone'.rows[t] \in Snapshot /\ clone'.rows[t].at <= Top' /\ clone'.cursors[t] <= Top'
        /\ t \notin torn' => clone'.cursors[t] <= clone'.rows[t].at
  <2>1. clone.cursors[t] # None =>
          /\ clone.rows[t] \in Snapshot /\ clone.rows[t].at \in Nat /\ clone.rows[t].at <= Top
          /\ clone.cursors[t] <= Top /\ clone.cursors[t] \in Nat
          /\ t \notin torn => clone.cursors[t] <= clone.rows[t].at
    BY <1>1 DEF Cloned, Snapshot
  <2> QED BY <1>0, <2>1 DEF Advance
<1>4. t \in clone'.done =>
        clone'.cursors[t] # None /\ <<t, clone'.cursors[t]>> \in Passable'
  BY <1>0 DEF Cloned
<1> QED BY <1>2, <1>3, <1>4 DEF Cloned

\* What a step leaves alone stays as it should be.
LEMMA StoreKept ==
  ASSUME ClientSyncAssumption, LogInv, LogInv', StoreInv, Advance
  PROVE  /\ cursor' = cursor => CursorInv'
         /\ UNCHANGED cursors => JobInv'
         /\ push' = push \/ push'.pc # "replied" => SentInv'
         /\ pull' = pull \/ pull' = Idle => PullInv'
         /\ clone' = clone \/ clone' = Idle => CloneInv'
         /\ UNCHANGED <<local, hydration, seen, done, torn, muddled, lost, bounds>> => DataInv'
<1>g. Passable \subseteq Passable'
  BY PassableGrows
<1>0. Top \in Nat /\ Top' \in Nat /\ Top <= Top' /\ Passable \subseteq Passable'
  BY <1>g, LogFacts DEF Advance, LogInv, WriteType, Top
<1>1. ASSUME cursor' = cursor PROVE CursorInv'
  BY <1>0, <1>1 DEF StoreInv, CursorInv
<1>2. ASSUME UNCHANGED cursors PROVE JobInv'
  <2>1. jobs' = jobs /\ held' = held
    BY <1>2 DEF cursors
  <2> QED BY <1>0, <2>1 DEF StoreInv, JobInv
<1>3. ASSUME push' = push \/ push'.pc # "replied" PROVE SentInv'
  BY <1>0, <1>3 DEF StoreInv, SentInv
<1>4. ASSUME pull' = pull \/ pull' = Idle PROVE PullInv'
  <2>1. CASE pull' = pull
    <3>1. pull.pc \in {"replied", "checked"} => pull.upto \in 0 .. Top'
      BY <1>0 DEF StoreInv, PullInv
    <3> QED BY <1>0, <2>1, <3>1 DEF StoreInv, PullInv
  <2>2. CASE pull' = Idle
    BY <2>2 DEF PullInv, Idle
  <2> QED BY <1>4, <2>1, <2>2
<1>5. ASSUME clone' = clone \/ clone' = Idle PROVE CloneInv'
  <2>1. CASE clone' = clone /\ clone.pc = "under way"
    <3>1. clone \in CloneRecord /\ \A t \in Table : Cloned(t)
      BY <2>1 DEF StoreInv, CloneInv
    <3>2. \A t \in Table : Cloned(t)'
      BY <2>1, <3>1, ClonedKept
    <3> QED BY <2>1, <3>1, <3>2 DEF CloneInv, CloneRecord
  <2>2. CASE clone' = Idle
    BY <2>2 DEF CloneInv, Idle
  <2>3. CASE clone' = clone /\ clone.pc # "under way"
    <3>1. clone'.pc # "under way" /\ clone'.pc \in {"idle", "under way"}
      BY <2>3 DEF StoreInv, CloneInv
    <3> QED BY <3>1 DEF CloneInv
  <2> QED BY <1>5, <2>1, <2>2, <2>3
<1>6. ASSUME UNCHANGED <<local, hydration, seen, done, torn, muddled, lost, bounds>> PROVE DataInv'
  <2>1. seen \subseteq 1 .. Top'
    BY <1>0 DEF StoreInv, DataInv
  <2> QED BY <1>6, <2>1 DEF StoreInv, DataInv, bounds
<1> QED BY <1>1, <1>2, <1>3, <1>4, <1>5, <1>6

----------------------------------------------------------------------------
(* What the model's helpers return. *)

\* The last change of a table among the first n.
LEMMA LatestLemma ==
  ASSUME ClientSyncAssumption, LogInv, NEW t \in Table, NEW n \in 0 .. Top
  PROVE  /\ Latest(t, n) \in 0 .. n
         /\ \A s \in Changes(t, n) : s <= Latest(t, n)
         /\ Latest(t, n) # 0 => Latest(t, n) \in Changes(t, n)
<1> DEFINE M == {0} \cup Changes(t, n)
<1>0. n \in Nat
  BY LogFacts
<1>1. M \subseteq 0 .. n /\ M # {}
  BY <1>0 DEF Changes
<1>2. Latest(t, n) = Max(M)
  BY DEF Latest
<1>3. Changes(t, n) \subseteq M /\ (\A s \in M : s # 0 => s \in Changes(t, n))
  OBVIOUS
<1> HIDE DEF M
<1>4. M \subseteq Nat /\ \A x \in M : x <= n
  BY <1>0, <1>1
<1>5. Max(M) \in M /\ \A y \in M : y <= Max(M)
  BY <1>0, <1>1, <1>4, MaxIsGreatest
<1> QED BY <1>1, <1>2, <1>3, <1>5

LEMMA RowLemma ==
  ASSUME ClientSyncAssumption, LogInv, NEW t \in Table, NEW n \in 0 .. Top
  PROVE  RowAt(t, n) \in {0} \cup Id
<1>1. Latest(t, n) \in 0 .. n
  BY LatestLemma
<1>2. Latest(t, n) # 0 => log[Latest(t, n)].id \in Id
  BY <1>1, LogFacts
<1> QED BY <1>2 DEF RowAt

LEMMA MuddleLemma ==
  ASSUME StoreInv, NEW t \in Table, NEW K
  PROVE  Muddle(t, K) \subseteq Table
BY DEF StoreInv, DataInv, Muddle

----------------------------------------------------------------------------
(* Every step keeps the invariants of the cursors. *)

LEMMA FaultLemma ==
  ASSUME ClientSyncAssumption, StoreInv, Fault
  PROVE  faults' \in 0 .. MaxFaults
BY DEF ClientSyncAssumption, StoreInv, DataInv, Fault

\* The log grows by own or foreign changes, or stays.
LEMMA LogAdvances ==
  ASSUME ClientSyncAssumption, LogInv, [Next]_vars
  PROVE  Top <= Top' /\ \A s \in 1 .. Top : log'[s] = log[s]
<1>0. log \in Seq(Entry) /\ Top \in Nat
  BY DEF LogInv, WriteType, Top
<1>1. CASE log' = log
  BY <1>0, <1>1 DEF Top
<1>2. ASSUME NEW t \in Theirs, NEW gone \in BOOLEAN, Foreign(t, gone)
      PROVE  Top <= Top' /\ \A s \in 1 .. Top : log'[s] = log[s]
  <2>1. \E e : log' = Append(log, e)
    BY <1>2 DEF Foreign
  <2> QED BY <1>0, <2>1 DEF Top
<1>3. CASE DirectServe
  <2>1. \E e : log' = Append(log, e)
    BY <1>3 DEF DirectServe
  <2> QED BY <1>0, <2>1 DEF Top
<1>4. CASE PushServe
  <2>1. PICK R : log' = log \o Logged(Fresh(push.batch, R))
    BY <1>4, Zenon DEF PushServe
  <2>2. push.pc = "sent"
    BY <1>4 DEF PushServe
  <2> DEFINE more == Logged(Fresh(push.batch, R))
  <2>3. more \in Seq(Entry) /\ Len(more) \in Nat
    BY <2>2, LoggedLemma
  <2>4. log' = log \o more
    BY <2>1
  <2> HIDE DEF more
  <2>5. Grows(more)
    BY <1>0, <2>3, <2>4, ConcatGrows
  <2> QED BY <1>0, <2>3, <2>5 DEF Grows
<1>5. CASE UNCHANGED server
  BY <1>1, <1>5 DEF server
<1>6. CASE UNCHANGED vars
  BY <1>5, <1>6 DEF vars
<1>7. CASE Elsewhere
  BY <1>5, <1>7, ElsewhereKeepsLog
<1>8. CASE \/ \E t \in Mine : Mutate(t) \/ Direct(t)
           \/ Apply \/ DirectDone \/ DirectRefused \/ DirectLost
           \/ PushStart \/ PushRetry \/ PushGiveUp \/ PushAck \/ PushEnd \/ Crash
  BY <1>5, <1>8 DEF Mutate, Direct, Apply, DirectDone, DirectRefused, DirectLost, PushStart,
     PushRetry, PushGiveUp, PushAck, PushEnd, Crash
<1> QED BY <1>2, <1>3, <1>4, <1>6, <1>7, <1>8 DEF Next, Elsewhere

\* Nothing is taken out of the change log: what was acknowledged is remembered.
LEMMA QueuedGrows ==
  ASSUME LogInv, [Next]_vars
  PROVE  Queued \subseteq Queued' /\ \A i \in 1 .. Len(chlog) : chlog'[i] = chlog[i]
<1>0. chlog \in Seq(Own) /\ Len(chlog) \in Nat
  BY DEF LogInv, WriteType
<1>1. CASE UNCHANGED chlog
  BY <1>1 DEF Queued
<1>2. ASSUME NEW x, chlog' = Append(chlog, x)
      PROVE  Queued \subseteq Queued' /\ \A i \in 1 .. Len(chlog) : chlog'[i] = chlog[i]
  <2>1. Len(chlog') = Len(chlog) + 1 /\ \A i \in 1 .. Len(chlog) : chlog'[i] = chlog[i]
    BY <1>0, <1>2
  <2>2. \A i \in 1 .. Len(chlog) : i \in 1 .. Len(chlog')
    BY <1>0, <2>1
  <2> QED BY <2>1, <2>2 DEF Queued
<1>3. CASE UNCHANGED writing \/ UNCHANGED vars
  BY <1>1, <1>3 DEF writing, vars
<1>4. CASE \/ \E t \in Mine : Mutate(t)
           \/ DirectLost
  BY <1>2, <1>4 DEF Mutate, DirectLost
<1>5. CASE Elsewhere
  BY <1>3, <1>5, ElsewhereKeepsLog
<1>6. CASE \/ \E t \in Theirs : \E gone \in BOOLEAN : Foreign(t, gone)
           \/ \E t \in Mine : Direct(t)
           \/ Apply \/ DirectServe \/ DirectDone \/ DirectRefused \/ Crash
           \/ PushStart \/ PushServe \/ PushRetry \/ PushGiveUp \/ PushAck \/ PushEnd
  BY <1>1, <1>6 DEF Foreign, Direct, Apply, DirectServe, DirectDone, DirectRefused, Crash,
     PushStart, PushServe, PushRetry, PushGiveUp, PushAck, PushEnd, writing
<1> QED BY <1>1, <1>3, <1>4, <1>5, <1>6 DEF Next, Elsewhere

LEMMA WritesKeepStore ==
  ASSUME ClientSyncAssumption, LogInv, LogInv', StoreInv,
         Queued \subseteq Queued', Top <= Top', \A s \in 1 .. Top : log'[s] = log[s],
         \/ \E t \in Theirs : \E gone \in BOOLEAN : Foreign(t, gone)
         \/ \E t \in Mine : Mutate(t) \/ Direct(t)
         \/ Apply \/ DirectServe \/ DirectDone \/ DirectRefused \/ DirectLost
  PROVE  StoreInv'
<1>1. /\ UNCHANGED <<cursor, hydration, seen, torn, lost, push, pull, clone, crashes, clones>>
      /\ UNCHANGED cursors
  BY DEF Foreign, Mutate, Direct, Apply, DirectServe, DirectDone, DirectRefused, DirectLost,
     storage, past, bounds
<1>2. Advance
  BY <1>1 DEF Advance
<1>3. faults' \in 0 .. MaxFaults
  <2>1. faults' = faults \/ Fault
    BY DEF Foreign, Mutate, Direct, Apply, DirectServe, DirectDone, DirectRefused, DirectLost, bounds
  <2> QED BY <2>1, FaultLemma DEF StoreInv, DataInv
<1>4. ASSUME NEW n \in Own, NEW t, local' = [local EXCEPT ![t] = n], t \in Table,
             muddled' = Muddle(t, Known(n)), done' = done \cup {n}
      PROVE  local' \in [Table -> {0} \cup Id] /\ muddled' \subseteq Table /\ done' \subseteq Own
  <2>1. n \in Id
    BY LogFacts DEF Own, Id
  <2> QED BY <1>4, <2>1, MuddleLemma DEF StoreInv, DataInv
<1>5. local' \in [Table -> {0} \cup Id] /\ muddled' \subseteq Table /\ done' \subseteq Own
  <2>1. CASE UNCHANGED <<local, muddled, done>>
    BY <2>1 DEF StoreInv, DataInv
  <2>2. CASE Apply
    <3> DEFINE n == chlog[applied + 1]
               t == tableOf[n]
    <3>1. /\ applied < Len(chlog) /\ local' = [local EXCEPT ![t] = n]
          /\ muddled' = Muddle(t, Known(n)) /\ done' = done \cup {n}
      BY <2>2 DEF Apply
    <3>2. applied + 1 \in 1 .. Len(chlog) /\ chlog \in Seq(Own) /\ tableOf \in Seq(Table)
      BY <3>1 DEF LogInv, WriteType
    <3>3. n \in Own /\ n <= Len(tableOf)
      BY <3>2 DEF LogInv, OnceInv
    <3>4. t \in Table
      BY <3>2, <3>3 DEF Own
    <3> HIDE DEF n, t
    <3> QED BY <1>4, <3>1, <3>3, <3>4
  <2>3. CASE DirectDone
    <3> DEFINE n == direct.id
               t == tableOf[n]
    <3>1. /\ direct # None /\ local' = [local EXCEPT ![t] = n]
          /\ muddled' = Muddle(t, Known(n)) /\ done' = done \cup {n}
      BY <2>3 DEF DirectDone
    <3>2. n \in Own /\ n <= Len(tableOf) /\ tableOf \in Seq(Table)
      BY <3>1 DEF LogInv, WriteType, OnceInv
    <3>3. t \in Table
      BY <3>2 DEF Own
    <3> HIDE DEF n, t
    <3> QED BY <1>4, <3>1, <3>2, <3>3
  <2> QED
    BY <2>1, <2>2, <2>3 DEF Foreign, Mutate, Direct, DirectServe, DirectRefused, DirectLost,
       storage, past
<1>6. DataInv'
  <2>1. seen' \subseteq 1 .. Top'
    <3>1. Top \in Nat /\ Top' \in Nat
      BY DEF LogInv, WriteType, Top
    <3> QED BY <1>1, <3>1 DEF StoreInv, DataInv
  <2> QED BY <1>1, <1>3, <1>5, <2>1 DEF StoreInv, DataInv
<1>7. CursorInv' /\ JobInv' /\ SentInv' /\ PullInv' /\ CloneInv'
  BY <1>1, <1>2, StoreKept
<1> QED BY <1>6, <1>7 DEF StoreInv

\* A push that answers nothing new, or ends.
LEMMA PushesKeepStore ==
  ASSUME ClientSyncAssumption, LogInv, LogInv', StoreInv, Queued \subseteq Queued',
        
         PushStart \/ PushRetry \/ PushGiveUp \/ PushEnd
  PROVE  StoreInv'
<1>1. /\ UNCHANGED <<server, storage, pull, clone, past, crashes, clones>> /\ UNCHANGED cursors
      /\ push'.pc # "replied"
  BY DEF PushStart, PushRetry, PushGiveUp, PushEnd, Idle, bounds
<1>2. UNCHANGED <<log, Top, cursor, local, hydration, seen, done, torn, muddled, lost>>
  BY <1>1 DEF server, storage, past, Top
<1>3. Advance
  BY <1>2, LogFacts DEF Advance
<1>4. faults' \in 0 .. MaxFaults
  <2>1. faults' = faults \/ Fault
    BY DEF PushStart, PushRetry, PushGiveUp, PushEnd, bounds
  <2> QED BY <2>1, FaultLemma DEF StoreInv, DataInv
<1>5. DataInv'
  BY <1>1, <1>2, <1>4 DEF StoreInv, DataInv
<1>6. CursorInv' /\ JobInv' /\ SentInv' /\ PullInv' /\ CloneInv'
  BY <1>1, <1>2, <1>3, StoreKept
<1> QED BY <1>5, <1>6 DEF StoreInv

\* A push answers with numbers of own changes.
LEMMA PushCursorsLemma ==
  ASSUME ClientSyncAssumption, LogInv, push.pc = "sent", NEW R,
         log' = log \o Logged(Fresh(push.batch, R)), Queued' = Queued,
         NEW job \in PushCursors(Fresh(push.batch, R), Top + Len(Fresh(push.batch, R)))
  PROVE  job \in Passable'
<1> DEFINE new == Fresh(push.batch, R)
           more == Logged(new)
<1>0. log \in Seq(Entry) /\ Top \in Nat /\ tableOf \in Seq(Table)
  BY DEF LogInv, WriteType, Top
<1>1. /\ new \in Seq(Own) /\ more \in Seq(Entry) /\ Len(more) = Len(new) /\ Len(new) \in Nat
      /\ \A j \in 1 .. Len(new) :
           /\ more[j].id = new[j] /\ more[j].table = tableOf[new[j]]
           /\ new[j] \in Own /\ new[j] <= Len(tableOf) /\ new[j] \in Queued
  BY LoggedLemma DEF Queued
<1>2. log' = log \o more /\ job \in PushCursors(new, Top + Len(new))
  OBVIOUS
<1> HIDE DEF new, more
<1>3. Grows(more)
  BY <1>0, <1>1, <1>2, ConcatGrows
<1>4. PICK t \in {tableOf[new[i]] : i \in DOMAIN new} :
            job = <<t, LastIn(new, Top + Len(new), t)>>
  BY <1>2 DEF PushCursors
<1> DEFINE last == Top + Len(new)
           M == {last - Len(new) + i : i \in {j \in DOMAIN new : tableOf[new[j]] = t}}
<1>5. DOMAIN new = 1 .. Len(new)
  BY <1>1
<1>6. PICK j \in 1 .. Len(new) : t = tableOf[new[j]]
  BY <1>5
<1>7. t \in Table
  BY <1>0, <1>1, <1>6 DEF Own
<1>8. \A m \in M : \E i \in 1 .. Len(new) : tableOf[new[i]] = t /\ m = Top + i
  BY <1>0, <1>1, <1>5
<1>9. M # {}
  BY <1>5, <1>6
<1>10. job = <<t, Max(M)>>
  <2>1. job = <<t, LastIn(new, last, t)>>
    BY <1>4
  <2> HIDE DEF last
  <2>2. LastIn(new, last, t) = Max(M)
    BY DEF LastIn
  <2> QED BY <2>1, <2>2
<1> HIDE DEF M
<1>11. M # {} /\ M \subseteq Nat /\ Top + Len(new) \in Nat /\ \A m \in M : m <= Top + Len(new)
  BY <1>0, <1>1, <1>8, <1>9
<1>12. Max(M) \in M
  BY <1>11, MaxIsGreatest
<1>13. PICK i \in 1 .. Len(new) : tableOf[new[i]] = t /\ Max(M) = Top + i
  BY <1>8, <1>12
<1>20. PICK c : c = Top + i
  OBVIOUS
<1>14. c \in 0 .. Top' /\ c \in Nat /\ c \in 1 .. Top' /\ Top' \in Nat
  BY <1>0, <1>1, <1>3, <1>20 DEF Grows
<1>15. log'[c].table = t /\ log'[c].id \in Own /\ log'[c].id \in Queued'
  <2>1. log'[c] = more[i] /\ i \in 1 .. Len(more)
    BY <1>1, <1>3, <1>20 DEF Grows
  <2> QED BY <1>1, <1>13, <2>1
<1>16. job = <<t, c>>
  BY <1>10, <1>13, <1>20
<1>17. c \in OwnIn(t)'
  BY <1>14, <1>15 DEF OwnIn
<1>18. ASSUME NEW s \in Changes(t, Top)', s <= c
       PROVE  \E o \in OwnIn(t)' : s <= o /\ o <= c /\ log'[o].id \in Queued'
  <2>1. s \in Nat /\ c <= c
    BY <1>14 DEF Changes
  <2> QED BY <1>15, <1>17, <1>18, <2>1
<1>19. Passed(t, c)'
  BY <1>14, <1>18 DEF Passed
<1> QED BY <1>7, <1>14, <1>16, <1>19 DEF Passable

LEMMA PushServeKeepsStore ==
  ASSUME ClientSyncAssumption, LogInv, LogInv', StoreInv, PushServe,
         Queued \subseteq Queued', Top <= Top', \A s \in 1 .. Top : log'[s] = log[s]
  PROVE  StoreInv'
<1>1. push.pc = "sent"
  BY DEF PushServe
<1>2. PICK R : /\ log' = log \o Logged(Fresh(push.batch, R))
               /\ push'.cursors =
                    PushCursors(Fresh(push.batch, R), Top + Len(Fresh(push.batch, R)))
               /\ faults' = faults \/ Fault
  <2> DEFINE b == push.batch
  <2>1. PICK T \in SUBSET (Range(b) \ (rejected \cup Ids(Top))),
             U \in SUBSET (Range(b) \ (rejected \cup Ids(Top))) :
          /\ IF T \cup U = {} THEN UNCHANGED faults ELSE Fault
          /\ log' = log \o Logged(Fresh(b, T \cup U))
          /\ push' = [pc |-> "replied", batch |-> b,
                      answered |-> U = {} \/ Range(b) \cap rejected' # {},
                      through |-> Through(b, Range(b) \ U),
                      cursors |-> PushCursors(Fresh(b, T \cup U), Top + Len(Fresh(b, T \cup U)))]
    BY Zenon DEF PushServe
  <2>2. push'.cursors = PushCursors(Fresh(b, T \cup U), Top + Len(Fresh(b, T \cup U)))
    BY <2>1
  <2>3. faults' = faults \/ Fault
    BY <2>1
  <2> QED BY <2>1, <2>2, <2>3
<1>3. UNCHANGED <<storage, pull, clone, past, crashes, clones>> /\ UNCHANGED cursors
  BY DEF PushServe
<1>4. UNCHANGED <<cursor, local, hydration, seen, done, torn, muddled, lost>>
  BY <1>3 DEF storage, past
<1>5. Advance
  BY <1>4 DEF Advance
<1>6. CursorInv' /\ JobInv' /\ PullInv' /\ CloneInv'
  BY <1>3, <1>4, <1>5, StoreKept
<1>7. DataInv'
  <2>1. faults' \in 0 .. MaxFaults
    BY <1>2, FaultLemma DEF StoreInv, DataInv
  <2>2. Top \in Nat /\ Top' \in Nat
    BY DEF LogInv, WriteType, Top
  <2>3. seen \subseteq 1 .. Top'
    BY <2>2 DEF StoreInv, DataInv
  <2> QED BY <1>3, <1>4, <2>1, <2>3 DEF StoreInv, DataInv
<1>8. SentInv'
  <2>0. Queued' = Queued
    BY DEF PushServe, writing, Queued
  <2>1. \A job \in push'.cursors : job \in Passable'
    BY <1>1, <1>2, <2>0, PushCursorsLemma
  <2> QED BY <2>1 DEF SentInv
<1> QED BY <1>6, <1>7, <1>8 DEF StoreInv

LEMMA PushAckKeepsStore ==
  ASSUME ClientSyncAssumption, LogInv, LogInv', StoreInv, Queued \subseteq Queued',
         PushAck
  PROVE  StoreInv'
<1>1. /\ push.pc = "replied" /\ push'.pc = "cursors" /\ Store("push", push.cursors)
      /\ UNCHANGED <<server, storage, writing, pull, clone, past, bounds>>
  BY DEF PushAck
<1>2. UNCHANGED <<log, Top, cursor, local, hydration, seen, done, torn, muddled, lost>>
  BY <1>1 DEF server, storage, past, Top
<1>3. Advance
  BY <1>2, LogFacts DEF Advance
<1>4. CursorInv' /\ SentInv' /\ PullInv' /\ CloneInv' /\ DataInv'
  BY <1>1, <1>2, <1>3, StoreKept
<1>5. JobInv'
  <2>1. jobs' = [jobs EXCEPT !["push"] = push.cursors] /\ held' = held
    BY <1>1 DEF Store
  <2>2. push.cursors \subseteq Passable /\ Passable' = Passable
    BY <1>1, <1>2, PassableStays DEF StoreInv, SentInv, writing
  <2> QED BY <2>1, <2>2 DEF StoreInv, JobInv
<1> QED BY <1>4, <1>5 DEF StoreInv

\* setCursorMonotonically takes a job and stores it, whatever was stored between.
LEMMA CursorsKeepStore ==
  ASSUME ClientSyncAssumption, LogInv, LogInv', StoreInv, Queued \subseteq Queued',
         NEW a \in Actor,
         CursorRead(a) \/ CursorWrite(a)
  PROVE  StoreInv'
<1>1. UNCHANGED <<server, local, hydration, writing, push, pull, clone, past, bounds>>
  BY DEF CursorRead, CursorWrite, storage
<1>2. UNCHANGED <<log, Top, seen, done, torn, muddled, lost>>
  BY <1>1 DEF server, past, Top
<1>3. Advance
  BY <1>2, LogFacts DEF Advance
<1>4. SentInv' /\ PullInv' /\ CloneInv' /\ DataInv'
  BY <1>1, <1>2, <1>3, StoreKept
<1>5. Passable' = Passable
  BY <1>1, <1>2, PassableStays DEF writing
<1>6. CASE CursorRead(a)
  <2>1. UNCHANGED cursor
    BY <1>6 DEF CursorRead, storage
  <2>2. CursorInv'
    BY <1>3, <2>1, StoreKept
  <2>3. PICK job \in jobs[a] :
          /\ held' = [held EXCEPT ![a] = [name |-> job[1], to |-> job[2], from |-> cursor[job[1]]]]
          /\ jobs' = [jobs EXCEPT ![a] = @ \ {job}]
    BY <1>6 DEF CursorRead
  <2>4. job \in Passable /\ job \in Table \X Nat
    BY DEF StoreInv, JobInv, Passable
  <2> DEFINE h == [name |-> job[1], to |-> job[2], from |-> cursor[job[1]]]
  <2>5. h \in [name : Table, to : Nat, from : Nat] /\ <<h.name, h.to>> \in Passable
    BY <2>4 DEF StoreInv, CursorInv
  <2>6. held' = [held EXCEPT ![a] = h]
    BY <2>3
  <2> HIDE DEF h
  <2>7. jobs' \in [Actor -> SUBSET Passable]
    BY <2>3 DEF StoreInv, JobInv
  <2>8. held' \in [Actor -> {None} \cup [name : Table, to : Nat, from : Nat]]
    BY <2>5, <2>6 DEF StoreInv, JobInv
  <2>9. \A x \in Actor : held'[x] # None => <<held'[x].name, held'[x].to>> \in Passable
    BY <2>5, <2>6 DEF StoreInv, JobInv
  <2>10. JobInv'
    BY <1>5, <2>7, <2>8, <2>9 DEF JobInv
  <2> QED BY <1>4, <2>2, <2>10 DEF StoreInv
<1>7. CASE CursorWrite(a)
  <2> DEFINE h == held[a]
  <2>1. /\ h # None /\ cursor' = [cursor EXCEPT ![h.name] = IF h.to > h.from THEN h.to ELSE @]
        /\ held' = [held EXCEPT ![a] = None] /\ jobs' = jobs
    BY <1>7 DEF CursorWrite
  <2>2. h \in [name : Table, to : Nat, from : Nat] /\ <<h.name, h.to>> \in Passable
    BY <2>1 DEF StoreInv, JobInv
  <2> HIDE DEF h
  <2>3. \A t \in Table : \/ cursor'[t] = cursor[t]
                         \/ t = h.name /\ cursor'[t] = h.to
    BY <2>1, <2>2 DEF StoreInv, CursorInv
  <2>4. cursor' \in [Table -> Nat]
    BY <2>1, <2>2 DEF StoreInv, CursorInv
  <2>5. CursorInv'
    BY <1>5, <2>2, <2>3, <2>4 DEF StoreInv, CursorInv
  <2>6. JobInv'
    BY <1>5, <2>1 DEF StoreInv, JobInv
  <2> QED BY <1>4, <2>5, <2>6 DEF StoreInv
<1> QED BY <1>6, <1>7

----------------------------------------------------------------------------
(* Pull. *)

\* A pull that is asked, answered, refused or over.
LEMMA PullsKeepStore ==
  ASSUME ClientSyncAssumption, LogInv, LogInv', StoreInv, Queued \subseteq Queued',
        
         PullStart \/ PullServe \/ PullFail \/ PullCheck \/ PullEnd
  PROVE  StoreInv'
<1>1. UNCHANGED <<server, storage, writing, push, clone, past, crashes, clones>> /\ UNCHANGED cursors
  BY DEF PullStart, PullServe, PullFail, PullCheck, PullEnd, bounds
<1>2. UNCHANGED <<log, Top, cursor, local, hydration, seen, done, torn, muddled, lost>>
  BY <1>1 DEF server, storage, past, Top
<1>3. Advance
  BY <1>2, LogFacts DEF Advance
<1>4. CursorInv' /\ JobInv' /\ SentInv' /\ CloneInv'
  BY <1>1, <1>2, <1>3, StoreKept
<1>5. faults' \in 0 .. MaxFaults
  <2>1. faults' = faults \/ Fault
    BY DEF PullStart, PullServe, PullFail, PullCheck, PullEnd, bounds
  <2> QED BY <2>1, FaultLemma DEF StoreInv, DataInv
<1>6. DataInv'
  BY <1>1, <1>2, <1>5 DEF StoreInv, DataInv
<1>7. Passable' = Passable
  BY <1>1, <1>2, PassableStays DEF writing
<1>8. Top \in Nat /\ Top' = Top
  BY <1>2, LogFacts
<1>9. PullInv'
  <2>1. CASE PullStart
    <3>1. pull' = [pc |-> "sent", asked |-> [t \in Table |-> cursor[t]]]
      BY <2>1 DEF PullStart, PullBegins
    <3>2. pull'.pc = "sent" /\ pull'.asked = [t \in Table |-> cursor[t]]
      BY <3>1
    <3>3. pull'.asked \in [Table -> Nat] /\ \A t \in Table : <<t, pull'.asked[t]>> \in Passable
      BY <3>2 DEF StoreInv, CursorInv
    <3> QED BY <1>7, <3>2, <3>3 DEF PullInv
  <2>2. CASE PullServe
    <3>1. /\ pull.pc = "sent" /\ pull'.pc = "replied"
          /\ pull'.asked = pull.asked /\ pull'.upto = Top
      BY <2>2 DEF PullServe
    <3>2. pull' = [pc |-> "replied", asked |-> pull.asked, upto |-> Top]
      BY <2>2 DEF PullServe
    <3> QED BY <1>7, <1>8, <3>1, <3>2 DEF StoreInv, PullInv
  <2>3. CASE PullFail \/ PullEnd
    <3>1. pull'.pc = "idle"
      BY <2>3 DEF PullFail, PullEnd, Idle
    <3> QED BY <3>1 DEF PullInv
  <2>4. CASE PullCheck
    <3>1. pull.pc = "replied" /\ pull' = IF NoRegression THEN [pull EXCEPT !.pc = "checked"] ELSE Idle
      BY <2>4 DEF PullCheck
    <3>2. CASE pull' = Idle
      BY <3>2 DEF PullInv, Idle
    <3>3. CASE pull' = [pull EXCEPT !.pc = "checked"]
      <4>1. pull \in [pc : {"replied"}, asked : [Table -> Nat], upto : Nat]
        BY <3>1 DEF StoreInv, PullInv
      <4>2. /\ pull'.pc = "checked" /\ pull'.asked = pull.asked /\ pull'.upto = pull.upto
        BY <3>3, <4>1
      <4> QED BY <1>7, <1>8, <3>1, <4>1, <4>2 DEF StoreInv, PullInv
    <3> QED BY <3>1, <3>2, <3>3
  <2> QED BY <2>1, <2>2, <2>3, <2>4
<1> QED BY <1>4, <1>6, <1>9 DEF StoreInv

\* What a pull brings reaches the store before any of its cursors is stored.
LEMMA PullApplyKeepsStore ==
  ASSUME ClientSyncAssumption, LogInv, LogInv', StoreInv, Queued \subseteq Queued',
         PullApply
  PROVE  StoreInv'
<1>1. /\ pull.pc = "checked" /\ pull' = [pc |-> "cursors"]
      /\ seen' = seen \cup UNION {{s \in Changes(t, pull.upto) : s > pull.asked[t]} : t \in Table}
      /\ jobs' = [jobs EXCEPT !["pull"] = {<<t, Answered(t)>> : t \in Table}] /\ held' = held
      /\ UNCHANGED <<server, cursor, hydration, push, clone, done, torn, lost, bounds>>
  BY DEF PullApply, Store
<1>2. UNCHANGED <<log, Top, cursor, torn, done, lost, hydration>> /\ seen \subseteq seen'
  BY <1>1 DEF server, Top
<1>3. Advance
  BY <1>2, LogFacts DEF Advance
<1>4. CursorInv' /\ SentInv' /\ CloneInv'
  BY <1>1, <1>2, <1>3, StoreKept
<1>5. PullInv'
  BY <1>1 DEF PullInv
<1>6. /\ pull.asked \in [Table -> Nat] /\ pull.upto \in 0 .. Top
      /\ \A t \in Table : <<t, pull.asked[t]>> \in Passable
  BY <1>1 DEF StoreInv, PullInv
<1>7. Top \in Nat /\ Top' = Top /\ Passable \subseteq Passable'
  BY <1>2, <1>3, LogFacts, PassableGrows
<1>8. DataInv'
  <2>1. local' = [t \in Table |-> IF t \in Brought THEN RowAt(t, pull.upto) ELSE local[t]]
    BY DEF PullApply
  <2>2. \A t \in Table : RowAt(t, pull.upto) \in {0} \cup Id
    BY <1>6, RowLemma
  <2>3. local' \in [Table -> {0} \cup Id]
    BY <2>1, <2>2 DEF StoreInv, DataInv
  <2>4. muddled' = muddled \cup UNION {Muddle(t, Ids(pull.upto)) : t \in Brought}
    BY DEF PullApply
  <2>5. \A t \in Brought : Muddle(t, Ids(pull.upto)) \subseteq Table
    BY MuddleLemma DEF Brought
  <2>6. muddled' \subseteq Table
    BY <2>4, <2>5 DEF StoreInv, DataInv
  <2>7. \A t \in Table : Changes(t, pull.upto) \subseteq 1 .. Top
    BY <1>6, <1>7 DEF Changes
  <2>8. seen' \subseteq 1 .. Top
    BY <1>1, <2>7 DEF StoreInv, DataInv
  <2> QED BY <1>1, <1>2, <1>7, <2>3, <2>6, <2>8 DEF StoreInv, DataInv, bounds
<1>9. ASSUME NEW t \in Table PROVE <<t, Answered(t)>> \in Passable'
  <2>0. PICK asked, upto, last :
          asked = pull.asked[t] /\ upto = pull.upto /\ last = Latest(t, pull.upto)
    OBVIOUS
  <2>1. /\ upto \in 0 .. Top /\ upto \in Nat /\ asked \in Nat /\ asked <= Top
        /\ <<t, asked>> \in Passable'
    BY <1>6, <1>7, <2>0 DEF Passable, Passed
  <2>2. last \in 0 .. upto /\ \A s \in Changes(t, upto) : s <= last
    BY <2>0, <2>1, LatestLemma
  <2>3. Answered(t) = Max({asked, last})
    BY <2>0 DEF Answered
  <2>4. \A s \in Changes(t, upto) : s > asked => s \in seen'
    BY <1>1, <2>0
  <2>5. Changes(t, upto) = {s \in 1 .. upto : log[s].table = t}
    BY DEF Changes
  <2>6. /\ {asked, last} \subseteq Nat /\ {asked, last} # {} /\ last \in Nat /\ last <= upto
        /\ \A y \in {asked, last} : y <= Top
    BY <1>7, <2>1, <2>2
  <2>7. /\ Max({asked, last}) \in {asked, last}
        /\ \A y \in {asked, last} : y <= Max({asked, last})
    BY <1>7, <2>6, MaxIsGreatest
  <2>8. CASE Answered(t) = asked
    BY <2>1, <2>8
  <2>9. CASE Answered(t) # asked
    <3>1. Answered(t) = last /\ asked <= last
      BY <2>3, <2>7, <2>9
    <3>2. last \in 0 .. Top'
      BY <1>7, <2>1, <2>6
    <3>3. ASSUME t \notin torn', NEW s \in Changes(t, Top)', s <= last
          PROVE  s \in seen' \/ \E o \in OwnIn(t)' : s <= o /\ o <= last /\ log'[o].id \in Queued'
      <4>1. s \in 1 .. Top /\ log[s].table = t /\ s \in Nat
        BY <1>2, <1>7, <3>3 DEF Changes
      <4>2. CASE s > asked
        <5>1. s \in Changes(t, upto)
          BY <2>1, <2>5, <2>6, <3>3, <4>1
        <5> QED BY <2>4, <4>2, <5>1
      <4>3. CASE s <= asked
        <5>1. s \in seen' \/ \E o \in OwnIn(t)' : s <= o /\ o <= asked /\ log'[o].id \in Queued'
          BY <2>1, <3>3, <4>3 DEF Passable, Passed
        <5>2. ASSUME NEW o \in OwnIn(t)', o <= asked
              PROVE  o <= last
          <6>1. o \in Nat
            BY <1>7 DEF OwnIn
          <6> QED BY <2>1, <2>6, <3>1, <5>2, <6>1
        <5> QED BY <5>1, <5>2
      <4> QED BY <2>1, <4>1, <4>2, <4>3
    <3>4. Passed(t, last)'
      BY <3>2, <3>3 DEF Passed
    <3> QED BY <2>6, <3>1, <3>4 DEF Passable
  <2> QED BY <2>8, <2>9
<1>10. JobInv'
  <2>1. jobs \in [Actor -> SUBSET Passable']
    BY <1>7 DEF StoreInv, JobInv
  <2> DEFINE J == {<<t, Answered(t)>> : t \in Table}
  <2>2. J \subseteq Passable'
    BY <1>9
  <2>3. jobs' = [jobs EXCEPT !["pull"] = J]
    BY <1>1
  <2> HIDE DEF J
  <2>4. jobs' \in [Actor -> SUBSET Passable']
    BY <2>1, <2>2, <2>3
  <2> QED BY <1>1, <1>7, <2>4 DEF StoreInv, JobInv
<1> QED BY <1>4, <1>5, <1>8, <1>10 DEF StoreInv

----------------------------------------------------------------------------
(* Clone. *)

\* A clone that starts, fails or is over.
LEMMA ClonesKeepStore ==
  ASSUME ClientSyncAssumption, LogInv, LogInv', StoreInv, Queued \subseteq Queued',
         CloneStart \/ CloneFail \/ CloneEnd
  PROVE  StoreInv'
<1>1. UNCHANGED <<server, local, cursor, push, pull, past, crashes>> /\ UNCHANGED cursors
  BY DEF CloneStart, CloneFail, CloneEnd, storage, bounds
<1>2. UNCHANGED <<log, Top, seen, done, torn, muddled, lost>>
  BY <1>1 DEF server, past, Top
<1>3. Advance
  BY <1>2, LogFacts DEF Advance
<1>4. CursorInv' /\ JobInv' /\ SentInv' /\ PullInv'
  BY <1>1, <1>2, <1>3, StoreKept
<1>5. CASE CloneStart
  <2> DEFINE c == [pc |-> "under way", rows |-> [t \in Table |-> None],
                   cursors |-> [t \in Table |-> None], done |-> {}]
  <2>1. /\ clone' = c /\ hydration' = [t \in Table |-> "hydrating"]
        /\ clones < MaxClones + crashes /\ clones' = clones + 1 /\ faults' = faults
    BY <1>5 DEF CloneStart
  <2>2. c \in CloneRecord
    BY DEF CloneRecord
  <2>3. c.pc = "under way" /\ \A t \in Table : c.rows[t] = None /\ c.cursors[t] = None
                              /\ t \notin c.done
    OBVIOUS
  <2> HIDE DEF c
  <2>4. \A t \in Table : Cloned(t)'
    BY <2>1, <2>3 DEF Cloned
  <2>5. clone'.pc = "under way" /\ clone' \in CloneRecord
    BY <2>1, <2>2, <2>3
  <2>6. CloneInv'
    BY <2>4, <2>5 DEF CloneInv, CloneRecord
  <2>7. clones' \in 0 .. MaxClones + MaxCrashes
    BY <2>1 DEF StoreInv, DataInv, ClientSyncAssumption
  <2>8. hydration' \in [Table -> {"notStarted", "hydrating", "ready"}]
    BY <2>1
  <2>9. DataInv'
    BY <1>1, <1>2, <2>1, <2>7, <2>8 DEF StoreInv, DataInv
  <2> QED BY <1>4, <2>6, <2>9 DEF StoreInv
<1>6. CASE CloneFail \/ CloneEnd
  <2>1. /\ clone' = Idle /\ hydration' = hydration /\ clones' = clones
        /\ faults' = faults \/ Fault
    BY <1>6 DEF CloneFail, CloneEnd, storage, bounds
  <2>2. faults' \in 0 .. MaxFaults
    BY <2>1, FaultLemma DEF StoreInv, DataInv
  <2>3. DataInv'
    BY <1>1, <1>2, <2>1, <2>2 DEF StoreInv, DataInv
  <2>4. CloneInv'
    BY <1>3, <2>1, StoreKept
  <2> QED BY <1>4, <2>3, <2>4 DEF StoreInv
<1> QED BY <1>5, <1>6

\* The server reads the rows of a table, then its cursor.
LEMMA CloneReadsKeepStore ==
  ASSUME ClientSyncAssumption, LogInv, LogInv', StoreInv, Queued \subseteq Queued',
         NEW t \in Table,
         CloneRows(t) \/ CloneCursor(t) \/ CloneReadFails(t)
  PROVE  StoreInv'
<1>1. /\ UNCHANGED <<server, storage, push, pull, seen, done, muddled, lost, crashes, clones>>
      /\ UNCHANGED cursors /\ clone.pc = "under way"
  BY DEF CloneRows, CloneCursor, CloneReadFails, past, bounds
<1>2. /\ UNCHANGED <<log, Top, cursor, local, hydration>>
      /\ Top \in Nat /\ Top' = Top
  BY <1>1, LogFacts DEF server, storage, Top
<1>3. torn' = torn \/ torn' = torn \cup {t}
  BY DEF CloneRows, CloneCursor, CloneReadFails, past
<1>4. Advance
  <2>1. seen' = seen
    BY <1>1
  <2>2. torn \subseteq torn'
    BY <1>3
  <2>3. log' = log
    BY <1>2
  <2>4. Top <= Top'
    BY <1>2
  <2> QED BY <2>1, <2>2, <2>3, <2>4 DEF Advance
<1>5. CursorInv' /\ JobInv' /\ SentInv' /\ PullInv'
  BY <1>1, <1>2, <1>4, StoreKept
<1>6. DataInv'
  <2>1. faults' = faults \/ Fault
    BY DEF CloneRows, CloneCursor, CloneReadFails, bounds
  <2>2. faults' \in 0 .. MaxFaults
    BY <2>1, FaultLemma DEF StoreInv, DataInv
  <2> QED BY <1>1, <1>2, <1>3, <2>2 DEF StoreInv, DataInv
<1>7. clone \in CloneRecord /\ \A u \in Table : Cloned(u)
  BY <1>1 DEF StoreInv, CloneInv
<1>8. ASSUME clone' \in CloneRecord, clone'.done = clone.done,
             \A u \in Table \ {t} : clone'.rows[u] = clone.rows[u] /\ clone'.cursors[u] = clone.cursors[u],
             Cloned(t)'
      PROVE  StoreInv'
  <2>1. \A u \in Table \ {t} : Cloned(u)'
    BY <1>4, <1>7, <1>8, ClonedKept
  <2>2. CloneInv'
    BY <1>8, <2>1 DEF CloneInv, CloneRecord
  <2> QED BY <1>5, <1>6, <2>2 DEF StoreInv
<1>9. CASE CloneRows(t)
  <2> DEFINE snap == [row |-> RowAt(t, Top), at |-> Top]
  <2>1. clone' = [clone EXCEPT !.rows[t] = snap]
    BY <1>9 DEF CloneRows
  <2>2. snap \in Snapshot /\ snap.at = Top
    <3>1. Top \in 0 .. Top
      BY <1>2
    <3> QED BY <1>2, <3>1, RowLemma DEF Snapshot
  <2> HIDE DEF snap
  <2>3. /\ clone' \in CloneRecord /\ clone'.done = clone.done /\ clone'.rows[t] = snap
        /\ clone'.cursors = clone.cursors /\ \A u \in Table \ {t} : clone'.rows[u] = clone.rows[u]
    BY <1>7, <2>1, <2>2 DEF CloneRecord
  <2>4. Cloned(t)'
    <3>1. clone.cursors[t] # None => clone.cursors[t] <= Top /\ clone.cursors[t] \in Nat
      BY <1>7 DEF Cloned, CloneRecord
    <3>2. t \in clone.done => clone.cursors[t] # None /\ <<t, clone.cursors[t]>> \in Passable
      BY <1>7 DEF Cloned
    <3>3. Passable \subseteq Passable'
      BY <1>4, PassableGrows
    <3>4. Top <= Top
      BY <1>2
    <3> QED BY <1>2, <2>2, <2>3, <3>1, <3>2, <3>3, <3>4 DEF Cloned
  <2> QED BY <1>8, <2>3, <2>4
<1>10. CASE CloneCursor(t)
  <2> DEFINE c == Latest(t, Top)
  <2>1. /\ clone.rows[t] # None /\ clone.cursors[t] = None
        /\ clone' = [clone EXCEPT !.cursors[t] = c]
        /\ torn' = IF c > clone.rows[t].at THEN torn \cup {t} ELSE torn
    BY <1>10 DEF CloneCursor
  <2>2. c \in Nat /\ c <= Top
    <3>1. Top \in 0 .. Top
      BY <1>2
    <3> QED BY <1>2, <3>1, LatestLemma
  <2> HIDE DEF c
  <2>3. /\ clone' \in CloneRecord /\ clone'.done = clone.done /\ clone'.rows = clone.rows
        /\ clone'.cursors[t] = c
        /\ \A u \in Table \ {t} : clone'.cursors[u] = clone.cursors[u]
    BY <1>7, <2>1, <2>2 DEF CloneRecord
  <2>4. clone.rows[t] \in Snapshot /\ clone.rows[t].at \in Nat /\ clone.rows[t].at <= Top
    BY <1>7, <2>1 DEF Cloned, CloneRecord, Snapshot
  <2>5. t \notin clone.done
    BY <1>7, <2>1 DEF Cloned
  <2>6. t \notin torn' => c <= clone.rows[t].at
    BY <2>1, <2>2, <2>4
  <2>7. Cloned(t)'
    BY <1>2, <2>2, <2>3, <2>4, <2>5, <2>6 DEF Cloned
  <2> QED BY <1>8, <2>3, <2>7
<1>11. CASE CloneReadFails(t)
  <2> DEFINE snap == [row |-> 0, at |-> 0]
  <2>1. /\ clone.cursors[t] = None
        /\ clone' = [clone EXCEPT !.rows[t] = snap, !.cursors[t] = 0]
    BY <1>11 DEF CloneReadFails, FailedCursor
  <2>2. snap \in Snapshot /\ snap.at = 0
    BY DEF Snapshot
  <2> HIDE DEF snap
  <2>3. /\ clone' \in CloneRecord /\ clone'.done = clone.done
        /\ clone'.rows[t] = snap /\ clone'.cursors[t] = 0
        /\ \A u \in Table \ {t} : clone'.rows[u] = clone.rows[u] /\ clone'.cursors[u] = clone.cursors[u]
    BY <1>7, <2>1, <2>2 DEF CloneRecord
  <2>4. t \notin clone.done
    BY <1>7, <2>1 DEF Cloned
  <2>5. Cloned(t)'
    BY <1>2, <2>2, <2>3, <2>4 DEF Cloned
  <2> QED BY <1>8, <2>3, <2>5
<1> QED BY <1>9, <1>10, <1>11

\* A table of the clone is stored: first its rows, then its cursor.
LEMMA CloneStoresKeepStore ==
  ASSUME ClientSyncAssumption, LogInv, LogInv', StoreInv, Queued \subseteq Queued',
         NEW t \in Table,
         CloneUpsert(t) \/ CloneReady(t)
  PROVE  StoreInv'
<1>1. UNCHANGED <<server, push, pull, done, torn, lost, bounds>> /\ UNCHANGED cursors
  BY DEF CloneUpsert, CloneReady, past
<1>2. UNCHANGED <<log, Top>> /\ Top \in Nat /\ Top' = Top
  BY <1>1, LogFacts DEF server, Top
<1>3. clone.pc = "under way" /\ clone \in CloneRecord /\ \A u \in Table : Cloned(u)
  BY DEF StoreInv, CloneInv, CloneUpsert, CloneReady
<1>4. CASE CloneUpsert(t)
  <2> DEFINE snap == clone.rows[t]
             c    == clone.cursors[t]
  <2>1. /\ c # None /\ cursor' = cursor
        /\ local' = IF snap.row = 0 THEN local ELSE [local EXCEPT ![t] = snap.row]
        /\ muddled' = IF snap.row = 0 THEN muddled ELSE Muddle(t, Ids(snap.at))
        /\ seen' = seen \cup Changes(t, snap.at)
        /\ clone' = [clone EXCEPT !.done = @ \cup {t}]
        /\ hydration' = [hydration EXCEPT ![t] = "hydrating"]
    BY <1>4 DEF CloneUpsert, CloneAnswered
  <2>2. /\ snap \in Snapshot /\ c \in Nat /\ c <= Top
        /\ t \notin torn => c <= snap.at
    BY <1>3, <2>1 DEF Cloned, CloneRecord
  <2>3. snap.at \in Nat /\ snap.row \in {0} \cup Id
    BY <2>2 DEF Snapshot
  <2>4. clone'.pc = "under way" /\ clone' \in CloneRecord /\ clone'.rows = clone.rows
        /\ clone'.cursors = clone.cursors /\ clone'.done = clone.done \cup {t}
    BY <1>3, <2>1 DEF CloneRecord
  <2> HIDE DEF snap, c
  <2>5. Changes(t, snap.at) \subseteq 1 .. Top
    <3>1. snap.at <= Top
      BY <1>3, <2>1, <2>2 DEF Cloned, snap, c
    <3> QED BY <1>2, <2>3, <3>1 DEF Changes
  <2>6. UNCHANGED <<log, Top, torn, done, lost>> /\ seen \subseteq seen'
    BY <1>1, <1>2, <2>1
  <2>7. Advance
    BY <1>2, <2>6 DEF Advance
  <2>8. CursorInv' /\ JobInv' /\ SentInv' /\ PullInv'
    BY <1>1, <2>1, <2>7, StoreKept
  <2>9. DataInv'
    <3>1. local' \in [Table -> {0} \cup Id]
      BY <2>1, <2>3 DEF StoreInv, DataInv
    <3>2. muddled' \subseteq Table
      BY <2>1, MuddleLemma DEF StoreInv, DataInv
    <3>3. hydration' \in [Table -> {"notStarted", "hydrating", "ready"}]
      BY <2>1 DEF StoreInv, DataInv
    <3>4. seen' \subseteq 1 .. Top
      BY <2>1, <2>5 DEF StoreInv, DataInv
    <3> QED BY <1>1, <1>2, <3>1, <3>2, <3>3, <3>4 DEF StoreInv, DataInv, bounds
  <2>10. <<t, c>> \in Passable'
    <3>1. ASSUME t \notin torn', NEW s \in Changes(t, Top)', s <= c PROVE s \in seen'
      <4>1. s \in 1 .. Top /\ log[s].table = t /\ s \in Nat
        BY <1>2, <2>6, <3>1 DEF Changes
      <4>2. s <= snap.at
        BY <2>2, <2>3, <2>6, <3>1, <4>1
      <4> QED BY <2>1, <2>3, <4>1, <4>2 DEF Changes
    <3>2. PICK d : d = c
      OBVIOUS
    <3>3. Passed(t, d)'
      BY <1>2, <2>2, <3>1, <3>2 DEF Passed
    <3> QED BY <2>2, <3>2, <3>3 DEF Passable
  <2>11. \A u \in Table : Cloned(u)'
    <3>1. \A u \in Table \ {t} : Cloned(u)'
      BY <1>3, <2>4, <2>7, ClonedKept
    <3>2. clone'.rows[t] = snap /\ clone'.cursors[t] = c
      BY <2>4 DEF snap, c
    <3>3. snap.at <= Top
      BY <1>3, <2>1, <2>2 DEF Cloned, snap, c
    <3>4. Cloned(t)'
      BY <1>2, <2>1, <2>2, <2>3, <2>6, <2>10, <3>2, <3>3 DEF Cloned
    <3> QED BY <3>1, <3>4
  <2>12. CloneInv'
    BY <2>4, <2>11 DEF CloneInv
  <2> QED BY <2>8, <2>9, <2>12 DEF StoreInv
<1>5. CASE CloneReady(t)
  <2>1. /\ t \in clone.done /\ clone' = clone
        /\ cursor' = [cursor EXCEPT ![t] = clone.cursors[t]]
        /\ hydration' = [hydration EXCEPT ![t] = "ready"]
        /\ UNCHANGED <<local, seen, muddled, done, torn, lost>>
    BY <1>5 DEF CloneReady, past
  <2>2. Advance
    BY <1>2, <2>1 DEF Advance
  <2>3. JobInv' /\ SentInv' /\ PullInv' /\ CloneInv'
    BY <1>1, <2>1, <2>2, StoreKept
  <2>4. DataInv'
    BY <1>1, <1>2, <2>1 DEF StoreInv, DataInv, bounds
  <2>5. Passable \subseteq Passable'
    BY <2>2, PassableGrows
  <2>6. <<t, clone.cursors[t]>> \in Passable
    BY <1>3, <2>1 DEF Cloned
  <2>7. clone.cursors[t] \in Nat
    BY <2>6 DEF Passable
  <2>8. cursor' \in [Table -> Nat] /\ \A u \in Table : <<u, cursor'[u]>> \in Passable
    BY <2>1, <2>6, <2>7 DEF StoreInv, CursorInv
  <2>9. CursorInv'
    BY <2>5, <2>8 DEF CursorInv
  <2> QED BY <2>3, <2>4, <2>9 DEF StoreInv
<1> QED BY <1>4, <1>5

----------------------------------------------------------------------------
(* The page is closed, and all the steps together. *)

LEMMA CrashKeepsStore ==
  ASSUME ClientSyncAssumption, LogInv, LogInv', StoreInv, Queued \subseteq Queued',
         Crash
  PROVE  StoreInv'
<1>1. /\ UNCHANGED <<server, storage, seen, done, torn, muddled, faults, clones>>
      /\ push' = Idle /\ pull' = Idle /\ clone' = Idle
      /\ jobs' = [a \in Actor |-> {}] /\ held' = [a \in Actor |-> None]
      /\ crashes < MaxCrashes /\ crashes' = crashes + 1
      /\ lost' = lost \cup {tableOf[chlog[i]] : i \in applied + 1 .. Len(chlog)}
  BY DEF Crash
<1>2. UNCHANGED <<log, Top, cursor, local, hydration, torn, seen, done, muddled>>
  BY <1>1 DEF server, storage, Top
<1>3. Advance
  BY <1>2, LogFacts DEF Advance
<1>4. CursorInv' /\ SentInv' /\ PullInv' /\ CloneInv'
  <2>1. push'.pc # "replied"
    BY <1>1 DEF Idle
  <2> QED BY <1>1, <1>2, <1>3, <2>1, StoreKept
<1>5. JobInv'
  BY <1>1 DEF JobInv
<1>6. lost' \subseteq Table
  <2>1. ASSUME NEW i \in applied + 1 .. Len(chlog) PROVE tableOf[chlog[i]] \in Table
    <3>1. i \in 1 .. Len(chlog) /\ chlog \in Seq(Own) /\ tableOf \in Seq(Table)
      BY <2>1 DEF LogInv, WriteType
    <3>2. chlog[i] \in Own /\ chlog[i] <= Len(tableOf)
      BY <3>1 DEF LogInv, OnceInv
    <3>3. chlog[i] \in 1 .. Len(tableOf)
      BY <3>1, <3>2 DEF Own
    <3> QED BY <3>1, <3>3
  <2> QED BY <1>1, <2>1 DEF StoreInv, DataInv
<1>7. crashes' \in 0 .. MaxCrashes
  BY <1>1 DEF StoreInv, DataInv, ClientSyncAssumption
<1>8. DataInv'
  BY <1>1, <1>2, <1>6, <1>7 DEF StoreInv, DataInv
<1> QED BY <1>4, <1>5, <1>8 DEF StoreInv

LEMMA StoreStep ==
  ASSUME ClientSyncAssumption, LogInv, StoreInv, [Next]_vars
  PROVE  StoreInv'
<1>1. LogInv'
  BY LogStep
<1>2. Top <= Top' /\ \A s \in 1 .. Top : log'[s] = log[s]
  BY LogAdvances
<1>q. Queued \subseteq Queued'
  BY QueuedGrows
<1>3. CASE UNCHANGED vars
  <2>1. UNCHANGED <<storage, push, pull, clone, past, bounds, torn, seen>> /\ UNCHANGED cursors
    BY <1>3 DEF vars, past
  <2>2. Advance
    BY <1>2, <1>q, <2>1 DEF Advance
  <2>3. UNCHANGED <<cursor, local, hydration, seen, done, torn, muddled, lost, bounds>>
    BY <2>1 DEF storage, past
  <2> QED BY <1>1, <2>1, <2>2, <2>3, StoreKept DEF StoreInv
<1>4. CASE \/ \E t \in Theirs : \E gone \in BOOLEAN : Foreign(t, gone)
           \/ \E t \in Mine : Mutate(t) \/ Direct(t)
           \/ Apply \/ DirectServe \/ DirectDone \/ DirectRefused \/ DirectLost
  BY <1>1, <1>2, <1>q, <1>4, WritesKeepStore
<1>5. CASE PushStart \/ PushRetry \/ PushGiveUp \/ PushEnd
  BY <1>1, <1>q, <1>5, PushesKeepStore
<1>6. CASE PushServe
  BY <1>1, <1>2, <1>q, <1>6, PushServeKeepsStore
<1>7. CASE PushAck
  BY <1>1, <1>q, <1>7, PushAckKeepsStore
<1>8. CASE \E a \in Actor : CursorRead(a) \/ CursorWrite(a)
  BY <1>1, <1>q, <1>8, CursorsKeepStore
<1>9. CASE PullStart \/ PullServe \/ PullFail \/ PullCheck \/ PullEnd
  BY <1>1, <1>q, <1>9, PullsKeepStore
<1>10. CASE PullApply
  BY <1>1, <1>q, <1>10, PullApplyKeepsStore
<1>11. CASE CloneStart \/ CloneFail \/ CloneEnd
  BY <1>1, <1>q, <1>11, ClonesKeepStore
<1>12. CASE \E t \in Table : CloneRows(t) \/ CloneCursor(t) \/ CloneReadFails(t)
  BY <1>1, <1>q, <1>12, CloneReadsKeepStore
<1>13. CASE \E t \in Table : CloneUpsert(t) \/ CloneReady(t)
  BY <1>1, <1>q, <1>13, CloneStoresKeepStore
<1>14. CASE Crash
  BY <1>1, <1>q, <1>14, CrashKeepsStore
<1> QED
  BY <1>3, <1>4, <1>5, <1>6, <1>7, <1>8, <1>9, <1>10, <1>11, <1>12, <1>13, <1>14 DEF Next

LEMMA InitStore ==
  ASSUME ClientSyncAssumption, Init
  PROVE  StoreInv
<1>1. Top = 0
  BY DEF Init, Top
<1>2. CursorInv
  <2>1. ASSUME NEW t \in Table PROVE <<t, 0>> \in Passable
    <3>1. Passed(t, 0)
      BY <1>1 DEF Passed, Changes
    <3> QED BY <3>1 DEF Passable
  <2> QED BY <2>1 DEF Init, CursorInv
<1>3. JobInv
  BY DEF Init, JobInv
<1>4. SentInv /\ PullInv /\ CloneInv
  BY DEF Init, Idle, SentInv, PullInv, CloneInv
<1>5. DataInv
  BY DEF Init, DataInv, ClientSyncAssumption
<1> QED BY <1>2, <1>3, <1>4, <1>5 DEF StoreInv

\* No cursor passes a change of another client that has not reached the store,
\* apart from those before an own change the push answer's cursor stands for
\* (engine.ts:1751) and from torn clones: whatever pushes, pulls and clones
\* overlap in setCursorMonotonically, applyPullResult and applyCloneResult, and
\* wherever the page is closed.
THEOREM ClientNothingSkipped == Spec => []NothingSkipped
<1>1. Init => LogInv /\ StoreInv
  BY ClientSyncAssumption, InitLog, InitStore
<1>2. LogInv /\ StoreInv /\ [Next]_vars => (LogInv /\ StoreInv)'
  BY ClientSyncAssumption, LogStep, StoreStep
<1>3. StoreInv => NothingSkipped
  <2> SUFFICES ASSUME StoreInv PROVE NothingSkipped
    OBVIOUS
  <2>1. \A t \in Table : <<t, cursor[t]>> \in Passable
    BY DEF StoreInv, CursorInv
  <2>2. \A t \in Table : Passed(t, cursor[t])
    BY <2>1 DEF Passable
  <2>3. ASSUME NEW t \in Table \ torn, NEW s \in Foreigns(t), s <= cursor[t]
        PROVE  s \in seen \/ \E o \in OwnIn(t) : s < o /\ o <= cursor[t]
    <3>1. s \in Changes(t, Top) /\ log[s].id \notin Own /\ \A o \in OwnIn(t) : o # s
      BY DEF Foreigns, Changes, OwnIn
    <3>2. \A o \in OwnIn(t) : s <= o => s < o
      BY <3>1 DEF Foreigns, OwnIn
    <3> QED BY <2>2, <2>3, <3>1, <3>2 DEF Passed
  <2> QED BY <2>3 DEF NothingSkipped
<1> QED BY <1>1, <1>2, <1>3, PTL DEF Spec

----------------------------------------------------------------------------
(* Type correctness. *)

\* The log has room for the writes there may be, as each is logged once.
LEMMA LogBound ==
  ASSUME ClientSyncAssumption, LogInv
  PROVE  Top <= MaxWrites + MaxForeign
<1>0. MaxWrites + MaxForeign \in Nat /\ Top \in Nat /\ \A s \in 1 .. Top : log[s].id \in Id
  BY LogFacts
<1> DEFINE f == [s \in 1 .. Top |-> log[s].id]
<1>1. f \in [1 .. Top -> Id]
  BY <1>0
<1>2. \A i, j \in 1 .. Top : f[i] = f[j] => i = j
  BY DEF LogInv, OnceInv, LoggedOnce
<1> HIDE DEF f
<1>3. /\ IsFiniteSet(1 .. Top) /\ Cardinality(1 .. Top) = Top
      /\ IsFiniteSet(Id) /\ Cardinality(Id) = MaxWrites + MaxForeign
  <2>1. 1 \in Int /\ Top \in Int /\ MaxWrites + MaxForeign \in Int
    BY <1>0
  <2>2. /\ IsFiniteSet(1 .. Top) /\ Cardinality(1 .. Top) = IF 1 > Top THEN 0 ELSE Top - 1 + 1
    BY <2>1, FS_Interval
  <2>3. /\ IsFiniteSet(Id)
        /\ Cardinality(Id) = IF 1 > MaxWrites + MaxForeign THEN 0 ELSE MaxWrites + MaxForeign - 1 + 1
    BY <2>1, FS_Interval DEF Id
  <2> QED BY <1>0, <2>2, <2>3
<1>4. ~(Cardinality(Id) < Cardinality(1 .. Top))
  <2> DEFINE S == 1 .. Top
  <2>1. /\ f \in [S -> Id] /\ IsFiniteSet(S) /\ IsFiniteSet(Id)
        /\ \A i, j \in S : f[i] = f[j] => i = j
    BY <1>1, <1>2, <1>3
  <2> HIDE DEF S
  <2>2. Cardinality(Id) < Cardinality(S) => \E x, y \in S : x # y /\ f[x] = f[y]
    BY ONLY <2>1, FS_PigeonHole, Zenon
  <2>3. ~(Cardinality(Id) < Cardinality(S))
    BY <2>1, <2>2
  <2> QED BY <2>3 DEF S
<1> QED BY <1>0, <1>3, <1>4

\* Every variable keeps its type: no number is taken twice and none is made up,
\* whether a push, a pull or a clone stores it.
THEOREM ClientTypeOK == Spec => []TypeOK
<1>1. Init => LogInv /\ StoreInv
  BY ClientSyncAssumption, InitLog, InitStore
<1>2. LogInv /\ StoreInv /\ [Next]_vars => (LogInv /\ StoreInv)'
  BY ClientSyncAssumption, LogStep, StoreStep
<1>3. LogInv /\ StoreInv => TypeOK
  <2> SUFFICES ASSUME LogInv, StoreInv PROVE TypeOK
    OBVIOUS
  <2>1. /\ Top \in Nat /\ MaxWrites + MaxForeign \in Nat /\ Top <= MaxWrites + MaxForeign
    BY ClientSyncAssumption, LogFacts, LogBound
  <2>2. 0 .. Top \subseteq Seq0 /\ 1 .. Top \subseteq Id
    BY <2>1 DEF Seq0, Id
  <2>3. Passable \subseteq Table \X Seq0
    BY <2>2 DEF Passable, Passed
  <2>4. cursor \in [Table -> Seq0]
    <3>1. \A t \in Table : <<t, cursor[t]>> \in Table \X Seq0
      BY <2>3 DEF StoreInv, CursorInv
    <3> QED BY <3>1 DEF StoreInv, CursorInv
  <2>5. \A a \in Actor : jobs[a] \subseteq Table \X Seq0
    BY <2>3 DEF StoreInv, JobInv
  <2>6. /\ log \in Seq(Entry) /\ rejected \subseteq Own
        /\ chlog \in Seq(Own) /\ acked \in 0 .. Len(chlog)
        /\ tableOf \in Seq(Table) /\ applied \in 0 .. Len(chlog)
        /\ direct = None \/ direct.id \in Own
    BY DEF LogInv, WriteType
  <2>7. /\ local \in [Table -> {0} \cup Id]
        /\ hydration \in [Table -> {"notStarted", "hydrating", "ready"}]
        /\ seen \subseteq Id /\ done \subseteq Own /\ torn \cup muddled \cup lost \subseteq Table
        /\ faults \in 0 .. MaxFaults /\ crashes \in 0 .. MaxCrashes
        /\ clones \in 0 .. MaxClones + MaxCrashes
    BY <2>2 DEF StoreInv, DataInv
  <2>8. /\ push.pc \in {"idle", "sent", "replied", "cursors"}
        /\ pull.pc \in {"idle", "sent", "replied", "checked", "cursors"}
        /\ clone.pc \in {"idle", "under way"}
    BY DEF LogInv, BatchInv, StoreInv, PullInv, CloneInv
  <2> QED BY <2>4, <2>5, <2>6, <2>7, <2>8 DEF TypeOK
<1> QED BY <1>1, <1>2, <1>3, PTL DEF Spec

----------------------------------------------------------------------------
(* What the local record is. *)

\* A change is in the table its write was made for, and a mutation that was
\* executed is logged.
TablesInv ==
  /\ \A s \in 1 .. Top : log[s].id \in Own => log[s].table = tableOf[log[s].id]
  /\ direct # None => (direct.executed => direct.id \in Ids(Top))

\* An entry whose turn has passed was applied, or its table is marked.
AppliedInv ==
  /\ \A i \in 1 .. applied : chlog[i] \in done \/ tableOf[chlog[i]] \in lost
  /\ \A n \in done : n <= Len(tableOf)

\* A clone holds the rows as the server had them at the number it has with them.
SnapInv ==
  clone.pc = "under way" =>
    \A t \in Table : clone.rows[t] # None \/ clone.cursors[t] # None =>
      /\ clone.rows[t].at \in 0 .. Top
      /\ clone.rows[t].row = RowAt(t, clone.rows[t].at)

\* The writes to a table that have reached the local store.
Reached(t) ==
  {n \in done : tableOf[n] = t} \cup {log[s].id : s \in {r \in seen : log[r].table = t}}

\* A write that a deletion came after.
Gone(t, x) == \E q \in Changes(t, Top) : log[q].gone /\ x \in Ids(q)

\* Write v is not older than x: this client made it after x, the server logged
\* it after x, or it is yet to be logged and x was.
AtOrAbove(v, x) ==
  \/ v \in Own /\ x \in Own /\ x <= v
  \/ \E p \in 1 .. Top : log[p].id = v /\ x \in Ids(p)
  \/ v \in Own \ Ids(Top) /\ x \in Ids(Top) \ Own

\* A record's value is a write to its table that was logged or is to be pushed.
Placed(t, v) ==
  /\ v \in Own => v <= Len(tableOf) /\ tableOf[v] = t /\ v \in Ids(Top) \cup Queued
  /\ v \notin Own \cup {0} => \E p \in Changes(t, Top) : log[p].id = v

\* It is the newest of those that have reached the store, but where an older one
\* was stored over it, and those that a deletion came after.
Newer(t, v) == t \notin muddled => \A x \in Reached(t) : Gone(t, x) \/ AtOrAbove(v, x)

Shown(t, v) == Placed(t, v) /\ Newer(t, v)

ShownInv == TablesInv /\ AppliedInv /\ SnapInv /\ \A t \in Table : Shown(t, local[t])

\* The log, the change log and the tables of the writes only grow.
Grow ==
  /\ Top <= Top' /\ \A s \in 1 .. Top : log'[s] = log[s]
  /\ Queued \subseteq Queued' /\ \A i \in 1 .. Len(chlog) : chlog'[i] = chlog[i]
  /\ Len(tableOf) <= Len(tableOf') /\ \A n \in 1 .. Len(tableOf) : tableOf'[n] = tableOf[n]

LEMMA GrowStep ==
  ASSUME ClientSyncAssumption, LogInv, [Next]_vars
  PROVE  Grow
<1>0. tableOf \in Seq(Table) /\ Len(tableOf) \in Nat
  BY DEF LogInv, WriteType
<1>1. Len(tableOf) <= Len(tableOf') /\ \A n \in 1 .. Len(tableOf) : tableOf'[n] = tableOf[n]
  <2>1. CASE UNCHANGED tableOf
    BY <1>0, <2>1
  <2>2. CASE UNCHANGED writing \/ UNCHANGED vars
    BY <2>1, <2>2 DEF writing, vars
  <2>3. CASE \E t \in Mine : Mutate(t) \/ Direct(t)
    <3>1. PICK t : tableOf' = Append(tableOf, t)
      BY <2>3 DEF Mutate, Direct
    <3> QED BY <1>0, <3>1
  <2>4. CASE Elsewhere
    BY <2>2, <2>4, ElsewhereKeepsLog
  <2>5. CASE \/ \E t \in Theirs : \E gone \in BOOLEAN : Foreign(t, gone)
             \/ Apply \/ DirectServe \/ DirectDone \/ DirectRefused \/ DirectLost \/ Crash
             \/ PushStart \/ PushServe \/ PushRetry \/ PushGiveUp \/ PushAck \/ PushEnd
    BY <2>1, <2>5 DEF Foreign, Apply, DirectServe, DirectDone, DirectRefused, DirectLost, Crash,
       PushStart, PushServe, PushRetry, PushGiveUp, PushAck, PushEnd, writing
  <2> QED BY <2>2, <2>3, <2>4, <2>5 DEF Next, Elsewhere
<1> QED BY <1>1, LogAdvances, QueuedGrows DEF Grow

\* What the log says up to a number it has reached is said for good.
LEMMA PrefixStays ==
  ASSUME ClientSyncAssumption, LogInv, LogInv', Grow, NEW n \in 0 .. Top
  PROVE  /\ n \in 0 .. Top'
         /\ Ids(n)' = Ids(n)
         /\ \A t : Changes(t, n)' = Changes(t, n)
         /\ \A t \in Table : RowAt(t, n)' = RowAt(t, n)
<1>0. Top \in Nat /\ Top' \in Nat /\ Top <= Top' /\ n \in Nat
      /\ \A s \in 1 .. n : s \in 1 .. Top /\ log'[s] = log[s]
  BY LogFacts DEF Grow, LogInv, WriteType, Top
<1>1. Ids(n)' = Ids(n)
  BY <1>0 DEF Ids
<1>2. ASSUME NEW t PROVE Changes(t, n)' = Changes(t, n)
  BY <1>0 DEF Changes
<1>3. ASSUME NEW t \in Table PROVE RowAt(t, n)' = RowAt(t, n)
  <2>1. Latest(t, n)' = Latest(t, n)
    BY <1>2 DEF Latest
  <2>2. Latest(t, n) \in 0 .. n
    BY LatestLemma
  <2>3. Latest(t, n) # 0 => log'[Latest(t, n)] = log[Latest(t, n)]
    BY <1>0, <2>2
  <2> QED BY <2>1, <2>3 DEF RowAt
<1> QED BY <1>0, <1>1, <1>2, <1>3

LEMMA IdsGrow ==
  ASSUME ClientSyncAssumption, LogInv, LogInv', Grow
  PROVE  Ids(Top) \subseteq Ids(Top)'
<1>0. Top \in Nat /\ Top' \in Nat /\ Top <= Top'
      /\ \A s \in 1 .. Top : s \in 1 .. Top' /\ log'[s] = log[s]
  BY LogFacts DEF Grow, LogInv, WriteType, Top
<1> QED BY <1>0 DEF Ids

LEMMA GoneStays ==
  ASSUME ClientSyncAssumption, LogInv, LogInv', Grow, NEW t, NEW x, Gone(t, x)
  PROVE  Gone(t, x)'
<1>1. PICK q \in Changes(t, Top) : log[q].gone /\ x \in Ids(q)
  BY DEF Gone
<1>2. q \in 1 .. Top /\ q \in 0 .. Top /\ q \in 1 .. Top' /\ log'[q] = log[q] /\ log[q].table = t
  BY LogFacts DEF Grow, LogInv, WriteType, Top, Changes
<1>3. Ids(q)' = Ids(q)
  BY <1>2, PrefixStays
<1>4. q \in Changes(t, Top)'
  BY <1>2 DEF Changes
<1> QED BY <1>1, <1>2, <1>3, <1>4 DEF Gone

\* A write that is logged later is logged after all that was logged before.
LEMMA AtOrAboveStays ==
  ASSUME ClientSyncAssumption, LogInv, LogInv', Grow, NEW v, NEW x, AtOrAbove(v, x)
  PROVE  AtOrAbove(v, x)'
<1>0. Top \in Nat /\ Top' \in Nat /\ Top <= Top'
      /\ \A s \in 1 .. Top : s \in 1 .. Top' /\ s \in 0 .. Top /\ log'[s] = log[s]
  <2>1. Top \in Nat /\ Top' \in Nat
    BY DEF LogInv, WriteType, Top
  <2>2. Top <= Top' /\ \A s \in 1 .. Top : log'[s] = log[s]
    BY DEF Grow
  <2>3. \A s \in 1 .. Top : s \in 1 .. Top' /\ s \in 0 .. Top
    BY <2>1, <2>2
  <2> QED BY <2>1, <2>2, <2>3
<1>1. CASE v \in Own /\ x \in Own /\ x <= v
  BY <1>1 DEF AtOrAbove
<1>2. CASE \E p \in 1 .. Top : log[p].id = v /\ x \in Ids(p)
  <2>1. PICK p \in 1 .. Top : log[p].id = v /\ x \in Ids(p)
    BY <1>2
  <2>2. Ids(p)' = Ids(p)
    BY <1>0, PrefixStays
  <2> QED BY <1>0, <2>1, <2>2 DEF AtOrAbove
<1>3. CASE v \in Own \ Ids(Top) /\ x \in Ids(Top) \ Own
  <2>1. x \in Ids(Top)'
    BY <1>3, IdsGrow
  <2>2. CASE v \in Ids(Top)'
    <3>1. PICK p \in 1 .. Top' : log'[p].id = v
      BY <2>2 DEF Ids
    <3>2. PICK q \in 1 .. Top : log[q].id = x
      BY <1>3 DEF Ids
    <3>3. p \notin 1 .. Top
      BY <1>0, <1>3, <3>1 DEF Ids
    <3>4. q \in 1 .. p /\ log'[q].id = x
      BY <1>0, <3>2, <3>3
    <3>5. x \in Ids(p)'
      BY <3>4 DEF Ids
    <3> QED BY <3>1, <3>5 DEF AtOrAbove
  <2>3. CASE v \notin Ids(Top)'
    BY <1>3, <2>1, <2>3 DEF AtOrAbove
  <2> QED BY <2>2, <2>3
<1> QED BY <1>1, <1>2, <1>3 DEF AtOrAbove

LEMMA PlacedStays ==
  ASSUME ClientSyncAssumption, LogInv, LogInv', Grow, NEW t, NEW v, Placed(t, v)
  PROVE  Placed(t, v)'
<1>0. Top \in Nat /\ Top' \in Nat /\ Top <= Top'
      /\ \A s \in 1 .. Top : s \in 1 .. Top' /\ log'[s] = log[s]
      /\ Len(tableOf) \in Nat /\ Len(tableOf') \in Nat /\ Own \subseteq Nat \ {0}
  BY LogFacts DEF Grow, LogInv, WriteType, Top, Own
<1>1. ASSUME v \in Own
      PROVE  v <= Len(tableOf') /\ tableOf'[v] = t /\ v \in Ids(Top)' \cup Queued'
  <2>1. v <= Len(tableOf) /\ tableOf[v] = t /\ v \in Ids(Top) \cup Queued
    BY <1>1 DEF Placed
  <2>0. v \in 1 .. MaxWrites /\ MaxWrites \in Nat
    BY <1>1, LogFacts DEF Own
  <2>2. v \in 1 .. Len(tableOf)
    BY <1>0, <2>0, <2>1
  <2>3. tableOf'[v] = tableOf[v] /\ Len(tableOf) <= Len(tableOf')
    BY <2>2 DEF Grow
  <2>4. v <= Len(tableOf')
    BY <1>0, <2>2, <2>3
  <2>5. Queued \subseteq Queued'
    BY DEF Grow
  <2>6. Ids(Top) \subseteq Ids(Top)'
    BY IdsGrow
  <2> QED BY <2>1, <2>3, <2>4, <2>5, <2>6
<1>2. ASSUME v \notin Own \cup {0} PROVE \E p \in Changes(t, Top)' : log'[p].id = v
  <2>1. PICK p \in Changes(t, Top) : log[p].id = v
    BY <1>2 DEF Placed
  <2>2. p \in Changes(t, Top)' /\ log'[p].id = v
    BY <1>0, <2>1 DEF Changes
  <2> QED BY <2>2
<1> QED BY <1>1, <1>2 DEF Placed

\* What reached the store before is still that, and of the same tables.
LEMMA ReachedStays ==
  ASSUME ClientSyncAssumption, LogInv, LogInv', StoreInv, AppliedInv, Grow, NEW t
  PROVE  /\ {n \in done : tableOf'[n] = t} = {n \in done : tableOf[n] = t}
         /\ {r \in seen : log'[r].table = t} = {r \in seen : log[r].table = t}
         /\ \A r \in seen : log'[r] = log[r]
<1>1. \A n \in done : n \in 1 .. Len(tableOf) /\ tableOf'[n] = tableOf[n]
  BY DEF StoreInv, DataInv, AppliedInv, Grow, LogInv, WriteType, Own
<1>2. \A r \in seen : log'[r] = log[r]
  BY DEF StoreInv, DataInv, Grow
<1> QED BY <1>1, <1>2

\* A record that a step leaves alone.
LEMMA ShownStays ==
  ASSUME ClientSyncAssumption, LogInv, LogInv', StoreInv, AppliedInv, Grow,
         NEW t \in Table, NEW v, Shown(t, v), muddled \subseteq muddled',
         t \notin muddled' => \A x \in Reached(t)' : x \in Reached(t) \/ Gone(t, x)'
  PROVE  Shown(t, v)'
<1>1. Placed(t, v)'
  BY PlacedStays DEF Shown
<1>2. ASSUME t \notin muddled', NEW x \in Reached(t)'
      PROVE  Gone(t, x)' \/ AtOrAbove(v, x)'
  <2>1. x \in Reached(t) => Gone(t, x) \/ AtOrAbove(v, x)
    BY <1>2 DEF Shown, Newer
  <2> QED BY <1>2, <2>1, GoneStays, AtOrAboveStays
<1> QED BY <1>1, <1>2 DEF Shown, Newer

----------------------------------------------------------------------------
(* What a stored row covers. *)

\* A row of the server is not older than the changes it was made of, and there is
\* none only if a deletion came after them.
LEMMA ChangeCovered ==
  ASSUME ClientSyncAssumption, LogInv, NEW t \in Table, NEW n \in 0 .. Top, NEW q \in Changes(t, n)
  PROVE  \/ Gone(t, log[q].id)
         \/ RowAt(t, n) # 0 /\ AtOrAbove(RowAt(t, n), log[q].id)
<1> DEFINE last == Latest(t, n)
<1>0. Top \in Nat /\ n \in Nat /\ q \in Nat /\ q # 0 /\ MaxWrites \in Nat /\ MaxForeign \in Nat
  BY LogFacts DEF Changes
<1>1. last \in 0 .. n /\ q <= last /\ (last # 0 => last \in Changes(t, n))
  BY LatestLemma
<1> HIDE DEF last
<1>2. last \in 1 .. Top /\ last # 0 /\ q \in 1 .. last /\ last \in Changes(t, n)
  BY <1>0, <1>1
<1>3. log[q].id \in Ids(last)
  BY <1>2 DEF Ids
<1>4. last \in Changes(t, Top)
  BY <1>2 DEF Changes
<1>5. CASE log[last].gone
  BY <1>3, <1>4, <1>5 DEF Gone
<1>6. CASE ~log[last].gone
  <2>1. RowAt(t, n) = log[last].id
    BY <1>2, <1>6 DEF RowAt, last
  <2>2. log[last].id # 0
    BY <1>0, <1>2, LogFacts DEF Id
  <2>3. AtOrAbove(log[last].id, log[q].id)
    BY <1>2, <1>3 DEF AtOrAbove
  <2> QED BY <2>1, <2>2, <2>3
<1> QED BY <1>5, <1>6

\* A write that has reached the store and is among the first changes of the log is
\* a change of the table there.
LEMMA ReachedAt ==
  ASSUME ClientSyncAssumption, LogInv, StoreInv, TablesInv, NEW t \in Table, NEW n \in 0 .. Top,
         NEW x \in Reached(t), x \in Ids(n)
  PROVE  \E q \in Changes(t, n) : log[q].id = x
<1>0. Top \in Nat /\ n \in Nat /\ n <= Top
  BY LogFacts
<1>1. PICK q \in 1 .. n : log[q].id = x
  BY DEF Ids
<1>2. q \in 1 .. Top
  BY <1>0
<1>3. CASE x \in done /\ tableOf[x] = t
  <2>1. x \in Own
    BY <1>3 DEF StoreInv, DataInv
  <2>2. log[q].table = t
    BY <1>1, <1>2, <1>3, <2>1 DEF TablesInv
  <2> QED BY <1>1, <2>2 DEF Changes
<1>4. ASSUME NEW r \in seen, log[r].table = t, log[r].id = x PROVE \E p \in Changes(t, n) : log[p].id = x
  <2>1. r \in 1 .. Top
    BY DEF StoreInv, DataInv
  <2>2. r = q
    BY <1>1, <1>2, <1>4, <2>1 DEF LogInv, OnceInv, LoggedOnce
  <2> QED BY <1>1, <1>4, <2>2 DEF Changes
<1> QED BY <1>3, <1>4 DEF Reached

\* A table that is not marked: all that had reached the store was known.
LEMMA MuddleCovers ==
  ASSUME NEW t, NEW K, t \notin Muddle(t, K)
  PROVE  t \notin muddled /\ Reached(t) \subseteq K
<1>1. /\ t \notin muddled
      /\ ~ \E n \in done \ K : tableOf[n] = t
      /\ ~ \E s \in seen : log[s].table = t /\ log[s].id \notin K
  BY DEF Muddle
<1> QED BY <1>1 DEF Reached

LEMMA MuddleGrows ==
  ASSUME NEW t, NEW K
  PROVE  muddled \subseteq Muddle(t, K) /\ Muddle(t, K) \subseteq muddled \cup {t}
BY DEF Muddle

\* A row of the server is placed.
LEMMA RowPlaced ==
  ASSUME ClientSyncAssumption, LogInv, TablesInv, NEW t \in Table, NEW n \in 0 .. Top
  PROVE  Placed(t, RowAt(t, n))
<1> DEFINE last == Latest(t, n)
<1>0. Top \in Nat /\ n \in Nat /\ n <= Top /\ Own \subseteq Nat \ {0}
  BY LogFacts DEF Own
<1>1. last \in 0 .. n /\ (last # 0 => last \in Changes(t, n))
  BY LatestLemma
<1>2. CASE RowAt(t, n) = 0
  BY <1>0, <1>2 DEF Placed
<1>3. CASE RowAt(t, n) # 0
  <2>1. last # 0 /\ RowAt(t, n) = log[last].id
    BY <1>3 DEF RowAt
  <2> HIDE DEF last
  <2>2. last \in 1 .. Top /\ last \in Changes(t, Top) /\ log[last].table = t
    BY <1>0, <1>1, <2>1 DEF Changes
  <2>3. log[last].id \in Ids(Top)
    BY <2>2 DEF Ids
  <2>4. log[last].id \in Own => log[last].id <= Len(tableOf) /\ tableOf[log[last].id] = t
    BY <2>2 DEF LogInv, OnceInv, TablesInv
  <2> QED BY <2>1, <2>2, <2>3, <2>4 DEF Placed
<1> QED BY <1>2, <1>3

\* What a write was made in the knowledge of is not newer.
LEMMA KnownIsOlder ==
  ASSUME ClientSyncAssumption, LogInv, NEW n \in Own, NEW x \in Known(n), x \in Own \cup Ids(Top)
  PROVE  AtOrAbove(n, x)
<1>0. MaxWrites \in Nat /\ n \in 1 .. MaxWrites /\ Top \in Nat
  BY LogFacts DEF Own
<1>1. CASE x \in 1 .. n
  <2>1. x \in Own /\ x <= n
    BY <1>0, <1>1 DEF Own
  <2> QED BY <2>1 DEF AtOrAbove
<1>2. CASE n \in Ids(Top) /\ x \notin 1 .. n
  <2> DEFINE S == {s \in 1 .. Top : log[s].id = n}
             p == Min(S)
  <2>1. S \subseteq Nat /\ S # {}
    BY <1>2 DEF Ids
  <2>2. x \in Ids(p)
    BY <1>2 DEF Known
  <2>3. p \in S
    <3> HIDE DEF S
    <3> QED BY <2>1, MinIsLeast
  <2>4. p \in 1 .. Top /\ log[p].id = n
    BY <2>3
  <2> HIDE DEF p, S
  <2> QED BY <2>2, <2>4 DEF AtOrAbove
<1>3. CASE n \notin Ids(Top) /\ x \notin 1 .. n
  <2>1. x \in Id \ Own
    BY <1>3 DEF Known
  <2> QED BY <1>3, <2>1 DEF AtOrAbove
<1> QED BY <1>1, <1>2, <1>3

----------------------------------------------------------------------------
(* Every step keeps the tables of the writes. *)

\* What is appended to the log is in the table its write was made for.
LEMMA AddedTables ==
  ASSUME ClientSyncAssumption, LogInv, LogInv', [Next]_vars
  PROVE  \A s \in 1 .. Top' : s \notin 1 .. Top /\ log'[s].id \in Own =>
           log'[s].table = tableOf'[log'[s].id]
<1>0. log \in Seq(Entry) /\ Top \in Nat /\ Top' \in Nat
  BY DEF LogInv, WriteType, Top
<1>1. CASE log' = log
  BY <1>1 DEF Top
<1>2. ASSUME NEW t \in Theirs, NEW gone \in BOOLEAN, Foreign(t, gone),
             NEW s \in 1 .. Top', s \notin 1 .. Top
      PROVE  log'[s].id \notin Own
  <2> DEFINE e == [table |-> t, gone |-> gone, id |-> MaxWrites + 1 + Cardinality(Ids(Top) \ Own)]
  <2>1. PICK k \in 0 .. MaxForeign : Cardinality(Ids(Top) \ Own) = k
    BY ForeignCount
  <2>2. MaxWrites \in Nat /\ MaxForeign \in Nat /\ e.id = MaxWrites + 1 + k
    BY <2>1, LogFacts
  <2>3. e.id \notin Own
    BY <2>2 DEF Own
  <2>4. log' = Append(log, e)
    BY <1>2 DEF Foreign
  <2> HIDE DEF e
  <2>5. s = Top + 1 /\ log'[Top + 1] = e
    BY <1>0, <1>2, <2>4 DEF Top
  <2> QED BY <2>3, <2>5
<1>3. ASSUME DirectServe, NEW s \in 1 .. Top', s \notin 1 .. Top
      PROVE  log'[s].table = tableOf'[log'[s].id]
  <2> DEFINE e == [table |-> tableOf[direct.id], id |-> direct.id, gone |-> FALSE]
  <2>1. log' = Append(log, e) /\ tableOf' = tableOf /\ e.table = tableOf[e.id]
    BY <1>3 DEF DirectServe
  <2> HIDE DEF e
  <2>2. s = Top + 1 /\ log'[Top + 1] = e
    BY <1>0, <1>3, <2>1 DEF Top
  <2> QED BY <2>1, <2>2
<1>4. ASSUME PushServe, NEW s \in 1 .. Top', s \notin 1 .. Top
      PROVE  log'[s].table = tableOf'[log'[s].id]
  <2>1. PICK R : log' = log \o Logged(Fresh(push.batch, R))
    BY <1>4, Zenon DEF PushServe
  <2>2. push.pc = "sent" /\ tableOf' = tableOf
    BY <1>4 DEF PushServe, writing
  <2> DEFINE new == Fresh(push.batch, R)
             more == Logged(new)
  <2>3. /\ more \in Seq(Entry) /\ Len(more) = Len(new) /\ Len(new) \in Nat
        /\ \A j \in 1 .. Len(new) : more[j].id = new[j] /\ more[j].table = tableOf[new[j]]
    BY <2>2, LoggedLemma
  <2>4. log' = log \o more
    BY <2>1
  <2> HIDE DEF more, new
  <2>5. Grows(more)
    BY <1>0, <2>3, <2>4, ConcatGrows
  <2> DEFINE j == s - Top
  <2>6. j \in 1 .. Len(more) /\ s = Top + j
    BY <1>0, <1>4, <2>3, <2>5 DEF Grows
  <2> HIDE DEF j
  <2>7. log'[s] = more[j]
    BY <2>5, <2>6 DEF Grows
  <2> QED BY <2>2, <2>3, <2>6, <2>7
<1>5. CASE UNCHANGED server
  BY <1>1, <1>5 DEF server
<1>6. CASE UNCHANGED vars
  BY <1>5, <1>6 DEF vars
<1>7. CASE Elsewhere
  BY <1>5, <1>7, ElsewhereKeepsLog
<1>8. CASE \/ \E t \in Mine : Mutate(t) \/ Direct(t)
           \/ Apply \/ DirectDone \/ DirectRefused \/ DirectLost
           \/ PushStart \/ PushRetry \/ PushGiveUp \/ PushAck \/ PushEnd \/ Crash
  BY <1>5, <1>8 DEF Mutate, Direct, Apply, DirectDone, DirectRefused, DirectLost, PushStart,
     PushRetry, PushGiveUp, PushAck, PushEnd, Crash
<1> QED BY <1>2, <1>3, <1>4, <1>6, <1>7, <1>8 DEF Next, Elsewhere

LEMMA InTables ==
  ASSUME ClientSyncAssumption, LogInv, NEW n \in Own, n <= Len(tableOf)
  PROVE  n \in 1 .. Len(tableOf)
<1>1. Len(tableOf) \in Nat
  BY DEF LogInv, WriteType
<1>2. n \in 1 .. MaxWrites /\ MaxWrites \in Nat
  BY LogFacts DEF Own
<1> QED BY <1>1, <1>2

LEMMA TablesStep ==
  ASSUME ClientSyncAssumption, LogInv, LogInv', TablesInv, Grow, [Next]_vars
  PROVE  TablesInv'
<1>0. Top \in Nat /\ Top' \in Nat
  BY DEF LogInv, WriteType, Top
<1>1. ASSUME NEW s \in 1 .. Top', log'[s].id \in Own
      PROVE  log'[s].table = tableOf'[log'[s].id]
  <2>1. CASE s \in 1 .. Top
    <3>1. log'[s] = log[s]
      BY <2>1 DEF Grow
    <3>2. log[s].id \in Own /\ log[s].id <= Len(tableOf) /\ log[s].table = tableOf[log[s].id]
      BY <1>1, <2>1, <3>1 DEF TablesInv, LogInv, OnceInv
    <3>3. log[s].id \in 1 .. Len(tableOf)
      BY <3>2, InTables
    <3>4. tableOf'[log[s].id] = tableOf[log[s].id]
      BY <3>3 DEF Grow
    <3> QED BY <3>1, <3>2, <3>4
  <2>2. CASE s \notin 1 .. Top
    BY <1>1, <2>2, AddedTables
  <2> QED BY <2>1, <2>2
<1>2. ASSUME direct' # None, direct'.executed PROVE direct'.id \in Ids(Top)'
  <2>0. Ids(Top) \subseteq Ids(Top)'
    BY IdsGrow
  <2>1. CASE direct' = direct
    BY <1>2, <2>0, <2>1 DEF TablesInv
  <2>2. CASE \E t \in Mine : Direct(t)
    <3>1. direct'.executed = FALSE
      BY <2>2 DEF Direct
    <3> QED BY <1>2, <3>1
  <2>3. CASE DirectServe
    <3> DEFINE e == [table |-> tableOf[direct.id], id |-> direct.id, gone |-> FALSE]
    <3>1. direct # None /\ direct' = [direct EXCEPT !.executed = TRUE] /\ log' = Append(log, e)
      BY <2>3 DEF DirectServe
    <3>2. direct \in [id : Own, executed : BOOLEAN] /\ log \in Seq(Entry)
      BY <3>1 DEF LogInv, WriteType
    <3>3. direct'.id = direct.id
      BY <3>1, <3>2
    <3>5. e.id = direct.id
      OBVIOUS
    <3> HIDE DEF e
    <3>6. Top' = Top + 1 /\ log'[Top + 1] = e
      BY <3>1, <3>2 DEF Top
    <3>7. Top + 1 \in 1 .. Top'
      BY <1>0, <3>6
    <3> QED BY <3>3, <3>5, <3>6, <3>7 DEF Ids
  <2>4. CASE direct' = None
    BY <1>2, <2>4
  <2>5. CASE UNCHANGED writing \/ UNCHANGED vars
    BY <2>1, <2>5 DEF writing, vars
  <2>6. CASE Elsewhere
    BY <2>5, <2>6, ElsewhereKeepsLog
  <2>7. CASE \/ \E t \in Theirs : \E gone \in BOOLEAN : Foreign(t, gone)
             \/ \E t \in Mine : Mutate(t)
             \/ Apply \/ DirectDone \/ DirectRefused \/ DirectLost \/ Crash
             \/ PushStart \/ PushServe \/ PushRetry \/ PushGiveUp \/ PushAck \/ PushEnd
    BY <2>1, <2>4, <2>7 DEF Foreign, Mutate, Apply, DirectDone, DirectRefused, DirectLost, Crash,
       PushStart, PushServe, PushRetry, PushGiveUp, PushAck, PushEnd, writing
  <2> QED BY <2>2, <2>3, <2>5, <2>6, <2>7 DEF Next, Elsewhere
<1> QED BY <1>1, <1>2 DEF TablesInv

\* An entry's turn passes when it is applied, or when the page is closed.
LEMMA AppliedStep ==
  ASSUME ClientSyncAssumption, LogInv, LogInv', StoreInv, AppliedInv, Grow, [Next]_vars
  PROVE  AppliedInv'
<1>0. /\ Len(tableOf) \in Nat /\ Len(tableOf') \in Nat /\ Len(tableOf) <= Len(tableOf')
      /\ chlog \in Seq(Own) /\ Len(chlog) \in Nat
      /\ applied \in Nat /\ applied <= Len(chlog)
  BY DEF LogInv, WriteType, Grow
<1>1. ASSUME NEW i \in 1 .. Len(chlog)
      PROVE  /\ chlog'[i] = chlog[i] /\ chlog[i] \in Own /\ chlog[i] <= Len(tableOf)
             /\ tableOf'[chlog[i]] = tableOf[chlog[i]]
  <2>1. chlog[i] \in Own /\ chlog[i] <= Len(tableOf)
    BY <1>0 DEF LogInv, OnceInv
  <2>2. chlog[i] \in 1 .. Len(tableOf)
    BY <2>1, InTables
  <2> QED BY <2>1, <2>2 DEF Grow
<1>2. ASSUME NEW n \in Own, n <= Len(tableOf) PROVE n <= Len(tableOf')
  <2>1. n \in 1 .. Len(tableOf)
    BY <1>2, InTables
  <2> QED BY <1>0, <2>1
<1>3. ASSUME done \subseteq done', lost \subseteq lost', NEW i \in 1 .. applied
      PROVE  chlog'[i] \in done' \/ tableOf'[chlog'[i]] \in lost'
  <2>1. i \in 1 .. Len(chlog)
    BY <1>0
  <2> QED BY <1>1, <1>3, <2>1 DEF AppliedInv
<1>4. ASSUME NEW n \in done PROVE n <= Len(tableOf')
  <2>1. n \in Own /\ n <= Len(tableOf)
    BY DEF AppliedInv, StoreInv, DataInv
  <2> QED BY <1>2, <2>1
<1>5. CASE UNCHANGED <<applied, done, lost>>
  BY <1>3, <1>4, <1>5 DEF AppliedInv
<1>6. CASE Apply
  <2>1. /\ applied < Len(chlog) /\ applied' = applied + 1
        /\ done' = done \cup {chlog[applied + 1]} /\ UNCHANGED <<chlog, tableOf, lost>>
    BY <1>6 DEF Apply
  <2>2. applied + 1 \in 1 .. Len(chlog)
    BY <1>0, <2>1
  <2>3. \A i \in 1 .. applied' : i \in 1 .. applied \/ i = applied + 1
    BY <1>0, <2>1
  <2>4. \A i \in 1 .. applied' : chlog'[i] \in done' \/ tableOf'[chlog'[i]] \in lost'
    BY <1>3, <2>1, <2>3
  <2>5. chlog[applied + 1] <= Len(tableOf)
    BY <1>1, <2>2
  <2> QED BY <1>4, <2>1, <2>4, <2>5 DEF AppliedInv
<1>7. CASE DirectDone
  <2>1. direct # None /\ done' = done \cup {direct.id} /\ UNCHANGED <<applied, tableOf, lost>>
    BY <1>7 DEF DirectDone
  <2>2. direct.id <= Len(tableOf)
    BY <2>1 DEF LogInv, OnceInv
  <2> QED BY <1>3, <1>4, <2>1, <2>2 DEF AppliedInv
<1>8. CASE Crash
  <2>1. /\ applied' = Len(chlog) /\ UNCHANGED <<chlog, tableOf, done>>
        /\ lost' = lost \cup {tableOf[chlog[i]] : i \in applied + 1 .. Len(chlog)}
    BY <1>8 DEF Crash
  <2>2. ASSUME NEW i \in 1 .. applied' PROVE chlog'[i] \in done' \/ tableOf'[chlog'[i]] \in lost'
    <3>1. i \in 1 .. applied \/ i \in applied + 1 .. Len(chlog)
      BY <1>0, <2>1
    <3> QED BY <1>3, <2>1, <3>1
  <2> QED BY <1>4, <2>1, <2>2 DEF AppliedInv
<1>9. CASE UNCHANGED vars
  BY <1>5, <1>9 DEF vars, writing, past
<1>10. CASE \/ \E t \in Theirs : \E gone \in BOOLEAN : Foreign(t, gone)
            \/ \E t \in Mine : Mutate(t) \/ Direct(t)
            \/ DirectServe \/ DirectRefused \/ DirectLost
            \/ PushStart \/ PushServe \/ PushRetry \/ PushGiveUp \/ PushAck \/ PushEnd
  BY <1>5, <1>10 DEF Foreign, Mutate, Direct, DirectServe, DirectRefused, DirectLost,
     PushStart, PushServe, PushRetry, PushGiveUp, PushAck, PushEnd, writing, past
<1>11. CASE Elsewhere
  <2>1. UNCHANGED <<done, lost>>
    BY <1>11 DEF Elsewhere, CloneRows, CloneCursor, CloneReadFails, CloneUpsert, CloneReady,
       CursorRead, CursorWrite, PullStart, PullServe, PullFail, PullCheck, PullApply, PullEnd,
       CloneStart, CloneFail, CloneEnd, past
  <2>2. UNCHANGED applied
    BY <1>11, ElsewhereKeepsLog DEF writing
  <2> QED BY <1>5, <2>1, <2>2
<1> QED BY <1>6, <1>7, <1>8, <1>9, <1>10, <1>11 DEF Next, Elsewhere

LEMMA Ends ==
  ASSUME ClientSyncAssumption, LogInv
  PROVE  0 \in 0 .. Top /\ Top \in 0 .. Top /\ \A t \in Table : RowAt(t, 0) = 0
<1>1. 0 \in 0 .. Top /\ Top \in 0 .. Top
  BY LogFacts
<1>2. ASSUME NEW t \in Table PROVE RowAt(t, 0) = 0
  <2>1. Latest(t, 0) = 0
    BY <1>1, LatestLemma
  <2> QED BY <2>1 DEF RowAt
<1> QED BY <1>1, <1>2

\* The rows a clone holds are those of their number: what the log says up to there
\* does not change.
LEMMA SnapStep ==
  ASSUME ClientSyncAssumption, LogInv, LogInv', StoreInv, SnapInv, Grow, [Next]_vars
  PROVE  SnapInv'
<1> DEFINE Had(t) == clone.rows[t] # None \/ clone.cursors[t] # None
<1> SUFFICES ASSUME clone'.pc = "under way", NEW t \in Table,
                    clone'.rows[t] # None \/ clone'.cursors[t] # None
             PROVE  /\ clone'.rows[t].at \in 0 .. Top'
                    /\ clone'.rows[t].row = RowAt(t, clone.rows[t].at)'
  BY DEF SnapInv
<1>1. ASSUME NEW n \in 0 .. Top, clone'.rows[t].at = n, clone'.rows[t].row = RowAt(t, n)
      PROVE  /\ clone'.rows[t].at \in 0 .. Top'
             /\ clone'.rows[t].row = RowAt(t, clone.rows[t].at)'
  <2>1. n \in 0 .. Top' /\ RowAt(t, n)' = RowAt(t, n)
    BY PrefixStays
  <2> QED BY <1>1, <2>1
<1>2. ASSUME clone.pc = "under way", Had(t), clone'.rows[t] = clone.rows[t]
      PROVE  /\ clone'.rows[t].at \in 0 .. Top'
             /\ clone'.rows[t].row = RowAt(t, clone.rows[t].at)'
  <2> DEFINE n == clone.rows[t].at
  <2>1. n \in 0 .. Top /\ clone.rows[t].row = RowAt(t, n)
    BY <1>2 DEF SnapInv
  <2> QED BY <1>1, <1>2, <2>1
<1>3. CASE clone' = clone
  BY <1>2, <1>3
<1>4. CASE clone' = Idle
  BY <1>4 DEF Idle
<1>5. CASE CloneStart
  BY <1>5 DEF CloneStart
<1>6. ASSUME clone.pc = "under way" PROVE clone \in CloneRecord
  BY <1>6 DEF StoreInv, CloneInv
<1>7. ASSUME NEW u \in Table, CloneRows(u) \/ CloneReadFails(u)
      PROVE  /\ clone'.rows[t].at \in 0 .. Top'
             /\ clone'.rows[t].row = RowAt(t, clone.rows[t].at)'
  <2>1. clone.pc = "under way" /\ clone \in CloneRecord
    BY <1>6, <1>7 DEF CloneRows, CloneReadFails
  <2>2. CASE t # u
    <3>1. clone'.rows[t] = clone.rows[t] /\ clone'.cursors[t] = clone.cursors[t]
      BY <1>7, <2>1, <2>2 DEF CloneRows, CloneReadFails, CloneRecord
    <3> QED BY <1>2, <2>1, <3>1
  <2>3. CASE t = u /\ CloneRows(u)
    <3>1. clone'.rows[t] = [row |-> RowAt(t, Top), at |-> Top]
      BY <2>1, <2>3 DEF CloneRows, CloneRecord
    <3>2. Top \in 0 .. Top
      BY Ends
    <3>3. clone'.rows[t].at = Top /\ clone'.rows[t].row = RowAt(t, Top)
      BY ONLY <3>1
    <3> QED BY <1>1, <3>2, <3>3
  <2>4. CASE t = u /\ CloneReadFails(u)
    <3>1. clone'.rows[t] = [row |-> 0, at |-> 0]
      BY <2>1, <2>4 DEF CloneReadFails, CloneRecord
    <3>2. 0 \in 0 .. Top /\ RowAt(t, 0) = 0
      BY Ends
    <3>3. clone'.rows[t].at = 0 /\ clone'.rows[t].row = RowAt(t, 0)
      BY ONLY <3>1, <3>2
    <3> QED BY <1>1, <3>2, <3>3
  <2> QED BY <1>7, <2>2, <2>3, <2>4
<1>8. ASSUME NEW u \in Table, CloneCursor(u)
      PROVE  /\ clone'.rows[t].at \in 0 .. Top'
             /\ clone'.rows[t].row = RowAt(t, clone.rows[t].at)'
  <2>1. clone.pc = "under way" /\ clone \in CloneRecord /\ clone.rows[u] # None
    BY <1>6, <1>8 DEF CloneCursor
  <2>2. /\ clone'.rows[t] = clone.rows[t]
        /\ t # u => clone'.cursors[t] = clone.cursors[t]
    BY <1>8, <2>1 DEF CloneCursor, CloneRecord
  <2> QED BY <1>2, <2>1, <2>2
<1>9. ASSUME NEW u \in Table, CloneUpsert(u)
      PROVE  /\ clone'.rows[t].at \in 0 .. Top'
             /\ clone'.rows[t].row = RowAt(t, clone.rows[t].at)'
  <2>1. clone.pc = "under way" /\ clone \in CloneRecord
    BY <1>6, <1>9 DEF CloneUpsert
  <2>2. clone'.rows[t] = clone.rows[t] /\ clone'.cursors[t] = clone.cursors[t]
    BY <1>9, <2>1 DEF CloneUpsert, CloneRecord
  <2> QED BY <1>2, <2>1, <2>2
<1>10. CASE \/ \E u \in Table : CloneReady(u)
            \/ \E a \in Actor : CursorRead(a) \/ CursorWrite(a)
            \/ PullStart \/ PullServe \/ PullFail \/ PullCheck \/ PullApply \/ PullEnd
            \/ CloneFail \/ CloneEnd \/ Crash
            \/ UNCHANGED vars
  BY <1>3, <1>4, <1>10 DEF CloneReady, CursorRead, CursorWrite, PullStart, PullServe, PullFail,
     PullCheck, PullApply, PullEnd, CloneFail, CloneEnd, Crash, vars
<1>11. CASE \/ \E u \in Theirs : \E gone \in BOOLEAN : Foreign(u, gone)
            \/ \E u \in Mine : Mutate(u) \/ Direct(u)
            \/ Apply \/ DirectServe \/ DirectDone \/ DirectRefused \/ DirectLost
            \/ PushStart \/ PushServe \/ PushRetry \/ PushGiveUp \/ PushAck \/ PushEnd
  BY <1>3, <1>11 DEF Foreign, Mutate, Direct, Apply, DirectServe, DirectDone, DirectRefused,
     DirectLost, PushStart, PushServe, PushRetry, PushGiveUp, PushAck, PushEnd
<1> QED BY <1>5, <1>7, <1>8, <1>9, <1>10, <1>11 DEF Next

----------------------------------------------------------------------------
(* Every step keeps the records as they should be. *)

\* A record is replaced by a row of the server.
LEMMA RowShown ==
  ASSUME ClientSyncAssumption, LogInv, LogInv', StoreInv, TablesInv, Grow,
         UNCHANGED <<log, chlog, tableOf, done>>,
         NEW t \in Table, NEW n \in 0 .. Top, NEW v, v = RowAt(t, n),
         t \notin muddled' => t \notin Muddle(t, Ids(n)),
         \A r \in seen' : log[r].table = t => r \in seen \/ r \in Changes(t, n)
  PROVE  Shown(t, v)'
<1>1. Placed(t, v)'
  <2>1. Placed(t, v)
    BY RowPlaced
  <2> QED BY <2>1, PlacedStays
<1>2. ASSUME t \notin muddled', NEW x \in Reached(t)'
      PROVE  Gone(t, x)' \/ AtOrAbove(v, x)'
  <2>1. Reached(t) \subseteq Ids(n)
    BY <1>2, MuddleCovers
  <2>2. x \in Reached(t) \/ \E q \in Changes(t, n) : x = log[q].id
    BY DEF Reached
  <2>3. \E q \in Changes(t, n) : x = log[q].id
    BY <2>1, <2>2, ReachedAt
  <2>4. Gone(t, x) \/ AtOrAbove(v, x)
    BY <2>3, ChangeCovered
  <2> QED BY <2>4, GoneStays, AtOrAboveStays
<1> QED BY <1>1, <1>2 DEF Shown, Newer

\* A record is replaced by an own write.
LEMMA OwnShown ==
  ASSUME ClientSyncAssumption, LogInv, LogInv', StoreInv, Grow,
         UNCHANGED <<log, tableOf, seen>>,
         NEW t \in Table, NEW n \in Own, n <= Len(tableOf), tableOf[n] = t,
         n \in Ids(Top) \cup Queued,
         muddled' = Muddle(t, Known(n)), done' = done \cup {n}
  PROVE  Shown(t, n)'
<1>1. Placed(t, n)'
  <2>1. Placed(t, n)
    BY DEF Placed
  <2> QED BY <2>1, PlacedStays
<1>2. ASSUME t \notin muddled', NEW x \in Reached(t)'
      PROVE  Gone(t, x)' \/ AtOrAbove(n, x)'
  <2>1. Reached(t) \subseteq Known(n)
    BY <1>2, MuddleCovers
  <2>2. x \in Reached(t) \/ x = n
    BY DEF Reached
  <2>3. CASE x = n
    <3>1. n \in 1 .. MaxWrites /\ MaxWrites \in Nat
      BY LogFacts DEF Own
    <3>2. n <= n
      BY <3>1
    <3> QED BY <2>3, <3>2 DEF AtOrAbove
  <2>4. CASE x \in Reached(t)
    <3>1. x \in done \/ \E r \in seen : x = log[r].id
      BY <2>4 DEF Reached
    <3>2. x \in Own \cup Ids(Top)
      BY <3>1 DEF StoreInv, DataInv, Ids
    <3>3. AtOrAbove(n, x)
      BY <2>1, <2>4, <3>2, KnownIsOlder
    <3> QED BY <3>3, AtOrAboveStays
  <2> QED BY <2>2, <2>3, <2>4
<1> QED BY <1>1, <1>2 DEF Shown, Newer

\* A step that moves no record, but tells of changes a deletion came after.
LEMMA ShownStill ==
  ASSUME ClientSyncAssumption, LogInv, LogInv', StoreInv, AppliedInv, Grow,
         NEW t \in Table, NEW v, Shown(t, v), muddled \subseteq muddled',
         \A n \in done' : n \in done \/ tableOf'[n] # t,
         \A r \in seen' : \A x : log'[r].table = t /\ log'[r].id = x => r \in seen \/ Gone(t, x)'
  PROVE  Shown(t, v)'
<1>1. /\ {n \in done : tableOf'[n] = t} = {n \in done : tableOf[n] = t}
      /\ {r \in seen : log'[r].table = t} = {r \in seen : log[r].table = t}
      /\ \A r \in seen : log'[r] = log[r]
  BY ReachedStays
<1>2. ASSUME NEW x \in Reached(t)' PROVE x \in Reached(t) \/ Gone(t, x)'
  <2>1. CASE x \in done' /\ tableOf'[x] = t
    BY <1>1, <2>1 DEF Reached
  <2>2. ASSUME NEW r \in seen', log'[r].table = t, x = log'[r].id
        PROVE  x \in Reached(t) \/ Gone(t, x)'
    <3>1. r \in seen \/ Gone(t, x)'
      BY <2>2
    <3>2. r \in seen => x \in Reached(t)
      BY <1>1, <2>2 DEF Reached
    <3> QED BY <3>1, <3>2
  <2> QED BY <2>1, <2>2 DEF Reached
<1> QED BY <1>2, ShownStays

\* The local writes that are stored.
LEMMA OwnStepShown ==
  ASSUME ClientSyncAssumption, LogInv, LogInv', StoreInv, TablesInv, AppliedInv, Grow,
         \A t \in Table : Shown(t, local[t]), Apply \/ DirectDone
  PROVE  \A t \in Table : Shown(t, local[t])'
<1>1. ASSUME NEW n \in Own, n <= Len(tableOf), n \in Ids(Top) \cup Queued,
             NEW u \in Table, tableOf[n] = u,
             local' = [local EXCEPT ![u] = n], muddled' = Muddle(u, Known(n)),
             done' = done \cup {n}, UNCHANGED <<log, tableOf, seen>>,
             NEW t \in Table
      PROVE  Shown(t, local[t])'
  <2>1. CASE t = u
    <3>1. Shown(t, n)'
      BY <1>1, <2>1, OwnShown
    <3>2. local'[t] = n
      BY <1>1, <2>1 DEF StoreInv, DataInv
    <3> QED BY <3>1, <3>2
  <2>2. CASE t # u
    <3> DEFINE v == local[t]
    <3>1. Shown(t, v) /\ local'[t] = v
      BY <1>1, <2>2 DEF StoreInv, DataInv
    <3>2. muddled \subseteq muddled'
      BY <1>1, MuddleGrows
    <3>3. PICK w : w = v
      OBVIOUS
    <3> HIDE DEF v
    <3>4. Shown(t, w)'
      BY <1>1, <2>2, <3>1, <3>2, <3>3, ShownStill
    <3> QED BY <3>1, <3>3, <3>4
  <2> QED BY <2>1, <2>2
<1>2. CASE Apply
  <2> DEFINE n == chlog[applied + 1]
             u == tableOf[n]
  <2>1. /\ applied < Len(chlog) /\ local' = [local EXCEPT ![u] = n]
        /\ muddled' = Muddle(u, Known(n)) /\ done' = done \cup {n}
        /\ UNCHANGED <<log, tableOf, seen>>
    BY <1>2 DEF Apply, server
  <2>2. applied + 1 \in 1 .. Len(chlog) /\ chlog \in Seq(Own) /\ tableOf \in Seq(Table)
    BY <2>1 DEF LogInv, WriteType
  <2>3. n \in Own /\ n <= Len(tableOf) /\ n \in Queued
    BY <2>2 DEF LogInv, OnceInv, Queued
  <2>4. n \in 1 .. Len(tableOf)
    BY <2>3, InTables
  <2>5. u \in Table
    BY <2>2, <2>4
  <2> HIDE DEF n
  <2>6. tableOf[n] = u
    OBVIOUS
  <2> HIDE DEF u
  <2> QED BY <1>1, <2>1, <2>3, <2>5, <2>6
<1>3. CASE DirectDone
  <2> DEFINE n == direct.id
             u == tableOf[n]
  <2>1. /\ direct # None /\ direct.executed /\ local' = [local EXCEPT ![u] = n]
        /\ muddled' = Muddle(u, Known(n)) /\ done' = done \cup {n}
        /\ UNCHANGED <<log, tableOf, seen>>
    BY <1>3 DEF DirectDone, server
  <2>2. n \in Own /\ n <= Len(tableOf) /\ tableOf \in Seq(Table)
    BY <2>1 DEF LogInv, WriteType, OnceInv
  <2>3. n \in Ids(Top)
    BY <2>1 DEF TablesInv
  <2>4. n \in 1 .. Len(tableOf)
    BY <2>2, InTables
  <2>5. u \in Table
    BY <2>2, <2>4
  <2> HIDE DEF n
  <2>6. tableOf[n] = u
    OBVIOUS
  <2> HIDE DEF u
  <2> QED BY <1>1, <2>1, <2>2, <2>3, <2>5, <2>6
<1> QED BY <1>2, <1>3

\* The records of a pull.
LEMMA PullApplyShown ==
  ASSUME ClientSyncAssumption, LogInv, LogInv', StoreInv, TablesInv, AppliedInv, Grow,
         \A t \in Table : Shown(t, local[t]), PullApply
  PROVE  \A t \in Table : Shown(t, local[t])'
<1> DEFINE upto == pull.upto
<1>1. /\ local' = [t \in Table |-> IF t \in Brought THEN RowAt(t, upto) ELSE local[t]]
      /\ muddled' = muddled \cup UNION {Muddle(t, Ids(upto)) : t \in Brought}
      /\ seen' = seen \cup UNION {{s \in Changes(t, upto) : s > pull.asked[t]} : t \in Table}
      /\ UNCHANGED <<log, chlog, tableOf, done>>
  BY DEF PullApply, server, writing
<1>2. pull.asked \in [Table -> Nat] /\ upto \in 0 .. Top
  BY DEF PullApply, StoreInv, PullInv
<1>3. Top \in Nat
  BY LogFacts
<1>4. ASSUME NEW t \in Table, NEW r \in seen', log[r].table = t
      PROVE  r \in seen \/ (r \in Changes(t, upto) /\ r > pull.asked[t])
  <2>1. r \in seen \/ \E u \in Table : r \in Changes(u, upto) /\ r > pull.asked[u]
    BY <1>1
  <2>2. \A u \in Table : r \in Changes(u, upto) => u = t
    BY <1>4 DEF Changes
  <2> QED BY <2>1, <2>2
<1>5. ASSUME NEW t \in Brought PROVE Shown(t, local[t])'
  <2>0. t \in Table
    BY DEF Brought
  <2>1. PICK v : v = RowAt(t, upto)
    OBVIOUS
  <2>2. PICK n \in 0 .. Top : n = upto
    BY <1>2
  <2>3. v = RowAt(t, n) /\ Muddle(t, Ids(n)) \subseteq muddled'
    BY <1>1, <2>1, <2>2
  <2>4. \A r \in seen' : log[r].table = t => r \in seen \/ r \in Changes(t, n)
    BY <1>4, <2>0, <2>2
  <2>5. Shown(t, v)'
    BY <1>1, <2>0, <2>3, <2>4, RowShown
  <2>6. local'[t] = v
    BY <1>1, <2>0, <2>1
  <2> QED BY <2>5, <2>6
<1>6. ASSUME NEW t \in Table \ Brought PROVE Shown(t, local[t])'
  <2>1. PICK v : v = local[t]
    OBVIOUS
  <2>2. PICK n \in 0 .. Top : n = upto
    BY <1>2
  <2>3. Shown(t, v) /\ local'[t] = v /\ muddled \subseteq muddled'
    BY <1>1, <2>1
  <2>4. ASSUME NEW r \in Changes(t, n) PROVE ~(r > pull.asked[t])
    <3>1. ~(Latest(t, n) > pull.asked[t]) /\ pull.asked[t] \in Nat
      BY <1>2, <2>2 DEF Brought
    <3>2. Latest(t, n) \in 0 .. n /\ r <= Latest(t, n) /\ n \in Nat /\ r \in Nat
      BY <1>3, LatestLemma DEF Changes
    <3> QED BY <3>1, <3>2
  <2>5. \A r \in seen' : r \in seen \/ log'[r].table # t
    BY <1>1, <1>4, <2>2, <2>4
  <2>6. Shown(t, v)'
    BY <1>1, <2>3, <2>5, ShownStill
  <2> QED BY <2>3, <2>6
<1> QED BY <1>5, <1>6

\* The rows of a clone: no record is removed.
LEMMA CloneUpsertShown ==
  ASSUME ClientSyncAssumption, LogInv, LogInv', StoreInv, TablesInv, AppliedInv, SnapInv, Grow,
         \A t \in Table : Shown(t, local[t]), NEW u \in Table, CloneUpsert(u)
  PROVE  \A t \in Table : Shown(t, local[t])'
<1>1. clone.pc = "under way" /\ clone.cursors[u] # None
  BY DEF CloneUpsert, CloneAnswered
<1>r. PICK row : row = clone.rows[u].row
  OBVIOUS
<1>2. PICK n \in 0 .. Top : n = clone.rows[u].at /\ row = clone.rows[u].row /\ row = RowAt(u, n)
  BY <1>1, <1>r DEF SnapInv
<1>3. /\ local' = IF row = 0 THEN local ELSE [local EXCEPT ![u] = row]
      /\ muddled' = IF row = 0 THEN muddled ELSE Muddle(u, Ids(n))
      /\ seen' = seen \cup Changes(u, n)
      /\ UNCHANGED <<log, chlog, tableOf, done>>
  BY <1>2 DEF CloneUpsert, server, writing
<1>4. muddled \subseteq muddled'
  BY <1>3, MuddleGrows
<1>5. ASSUME NEW t \in Table, t # u \/ row = 0 PROVE Shown(t, local[t])'
  <2>1. PICK v : v = local[t]
    OBVIOUS
  <2>2. Shown(t, v) /\ local'[t] = v
    BY <1>3, <1>5, <2>1 DEF StoreInv, DataInv
  <2>3. ASSUME NEW r \in Changes(u, n), NEW x, log'[r].table = t, log'[r].id = x
        PROVE  Gone(t, x)'
    <3>1. t = u /\ x = log[r].id
      BY <1>3, <2>3 DEF Changes
    <3>2. row = 0
      BY <1>5, <3>1
    <3>3. Gone(t, x)
      BY <1>2, <3>1, <3>2, ChangeCovered
    <3> QED BY <3>3, GoneStays
  <2>4. \A r \in seen' : \A x : log'[r].table = t /\ log'[r].id = x => r \in seen \/ Gone(t, x)'
    BY <1>3, <2>3
  <2>5. Shown(t, v)'
    BY <1>3, <1>4, <2>2, <2>4, ShownStill
  <2> QED BY <2>2, <2>5
<1>6. ASSUME row # 0 PROVE Shown(u, local[u])'
  <2>1. \A r \in seen' : log[r].table = u => r \in seen \/ r \in Changes(u, n)
    BY <1>3
  <2>2. Shown(u, row)'
    BY <1>2, <1>3, <1>6, <2>1, RowShown
  <2>3. local'[u] = row
    BY <1>3, <1>6 DEF StoreInv, DataInv
  <2> QED BY <2>2, <2>3
<1> QED BY <1>5, <1>6

LEMMA ShownStep ==
  ASSUME ClientSyncAssumption, LogInv, LogInv', StoreInv, ShownInv, [Next]_vars
  PROVE  ShownInv'
<1>0. Grow
  BY GrowStep
<1>1. TablesInv /\ AppliedInv /\ SnapInv /\ \A t \in Table : Shown(t, local[t])
  BY DEF ShownInv
<1>2. TablesInv' /\ AppliedInv' /\ SnapInv'
  BY <1>0, <1>1, TablesStep, AppliedStep, SnapStep
<1>3. ASSUME UNCHANGED <<local, muddled, seen, done>>, NEW t \in Table PROVE Shown(t, local[t])'
  <2>1. PICK v : v = local[t]
    OBVIOUS
  <2>2. Shown(t, v) /\ local'[t] = v
    BY <1>1, <1>3, <2>1
  <2>3. Shown(t, v)'
    BY <1>0, <1>1, <1>3, <2>2, ShownStill
  <2> QED BY <2>2, <2>3
<1>4. CASE Apply \/ DirectDone
  BY <1>0, <1>1, <1>2, <1>4, OwnStepShown DEF ShownInv
<1>5. CASE PullApply
  BY <1>0, <1>1, <1>2, <1>5, PullApplyShown DEF ShownInv
<1>6. CASE \E t \in Table : CloneUpsert(t)
  BY <1>0, <1>1, <1>2, <1>6, CloneUpsertShown DEF ShownInv
<1>7. CASE \/ \E t \in Theirs : \E gone \in BOOLEAN : Foreign(t, gone)
           \/ \E t \in Mine : Mutate(t) \/ Direct(t)
           \/ DirectServe \/ DirectRefused \/ DirectLost \/ Crash
           \/ PushStart \/ PushServe \/ PushRetry \/ PushGiveUp \/ PushAck \/ PushEnd
  <2>1. UNCHANGED <<local, muddled, seen, done>>
    BY <1>7 DEF Foreign, Mutate, Direct, DirectServe, DirectRefused, DirectLost, Crash,
       PushStart, PushServe, PushRetry, PushGiveUp, PushAck, PushEnd, storage, past
  <2> QED BY <1>2, <1>3, <2>1 DEF ShownInv
<1>8. CASE \/ \E t \in Table : CloneRows(t) \/ CloneCursor(t) \/ CloneReadFails(t) \/ CloneReady(t)
           \/ \E a \in Actor : CursorRead(a) \/ CursorWrite(a)
           \/ PullStart \/ PullServe \/ PullFail \/ PullCheck \/ PullEnd
           \/ CloneStart \/ CloneFail \/ CloneEnd
           \/ UNCHANGED vars
  <2>1. UNCHANGED <<local, muddled, seen, done>>
    BY <1>8 DEF CloneRows, CloneCursor, CloneReadFails, CloneReady, CursorRead, CursorWrite,
       PullStart, PullServe, PullFail, PullCheck, PullEnd, CloneStart, CloneFail, CloneEnd,
       storage, past, vars
  <2> QED BY <1>2, <1>3, <2>1 DEF ShownInv
<1> QED BY <1>4, <1>5, <1>6, <1>7, <1>8 DEF Next

LEMMA InitShown ==
  ASSUME ClientSyncAssumption, Init
  PROVE  ShownInv
<1>1. Top = 0 /\ 1 .. Top = {}
  BY DEF Init, Top
<1>2. TablesInv
  BY <1>1 DEF Init, TablesInv
<1>3. AppliedInv
  BY DEF Init, AppliedInv
<1>4. SnapInv
  BY DEF Init, SnapInv, Idle
<1>5. ASSUME NEW t \in Table PROVE Shown(t, local[t])
  <2>1. local[t] = 0 /\ seen = {} /\ done = {}
    BY DEF Init
  <2>2. 0 \notin Own
    BY DEF Own, ClientSyncAssumption
  <2> QED BY <2>1, <2>2 DEF Shown, Placed, Newer, Reached
<1> QED BY <1>2, <1>3, <1>4, <1>5 DEF ShownInv

\* The server's row of a table at rest is the client's.
LEMMA AtRestCurrent ==
  ASSUME ClientSyncAssumption, LogInv, StoreInv, ShownInv, AtRest,
         NEW t \in Table \ (torn \cup muddled \cup lost),
         CaughtUp(t), RowAt(t, Top) # 0, InOrder(t), Writes(t) \cap rejected = {}
  PROVE  local[t] = RowAt(t, Top)
<1> DEFINE last == Latest(t, Top)
           v == local[t]
<1>0. Top \in Nat /\ Top \in 0 .. Top
  BY LogFacts, Ends
<1>1. last \in 0 .. Top /\ (\A s \in Changes(t, Top) : s <= last)
      /\ (last # 0 => last \in Changes(t, Top))
  BY <1>0, LatestLemma
<1>2. last # 0 /\ ~log[last].gone /\ RowAt(t, Top) = log[last].id
  BY DEF RowAt
<1>3. last <= cursor[t]
  BY <1>0, <1>1 DEF CaughtUp, StoreInv, CursorInv
<1>4. Shown(t, v) /\ v \in {0} \cup Id
  BY DEF ShownInv, StoreInv, DataInv
<1> HIDE DEF last
<1>5. PICK x : x = log[last].id
  OBVIOUS
<1>6. last \in 1 .. Top /\ last \in Changes(t, Top) /\ log[last].table = t
  BY <1>0, <1>1, <1>2 DEF Changes
<1>7. \A i \in 1 .. Top : log[i].id = x => i = last
  BY <1>5, <1>6 DEF LogInv, OnceInv, LoggedOnce
<1>8. x \in Reached(t)
  <2>1. CASE last \in seen
    BY <1>5, <1>6, <2>1 DEF Reached
  <2>2. CASE last \notin seen
    <3>1. <<t, cursor[t]>> \in Passable
      BY DEF StoreInv, CursorInv
    <3>2. PICK o \in OwnIn(t) : last <= o /\ o <= cursor[t] /\ log[o].id \in Queued
      BY <1>3, <1>6, <2>2, <3>1 DEF Passable, Passed
    <3>3. o \in 1 .. Top /\ o \in Changes(t, Top) /\ log[o].id \in Own
      BY DEF OwnIn, Changes
    <3>4. o = last
      BY <1>0, <1>1, <1>6, <3>2, <3>3
    <3>5. x \in Own /\ x \in Queued /\ tableOf[x] = t
      BY <1>5, <1>6, <3>2, <3>3, <3>4 DEF ShownInv, TablesInv
    <3>6. PICK i \in 1 .. Len(chlog) : x = chlog[i]
      BY <3>5 DEF Queued
    <3>7. x \in done
      BY <3>5, <3>6 DEF AtRest, ShownInv, AppliedInv
    <3> QED BY <3>5, <3>7 DEF Reached
  <2> QED BY <2>1, <2>2
<1>9. ~Gone(t, x)
  <2>1. ASSUME NEW q \in Changes(t, Top), log[q].gone, x \in Ids(q) PROVE FALSE
    <3>1. PICK p \in 1 .. q : log[p].id = x
      BY <2>1 DEF Ids
    <3>2. q \in 1 .. Top /\ q <= last
      BY <1>1 DEF Changes
    <3>3. p = last
      BY <1>0, <1>7, <3>1, <3>2
    <3>4. q = last
      BY <1>0, <1>6, <3>1, <3>2, <3>3
    <3> QED BY <1>2, <2>1, <3>4
  <2> QED BY <2>1 DEF Gone
<1>10. AtOrAbove(v, x)
  BY <1>4, <1>8, <1>9 DEF Shown, Newer
<1> HIDE DEF v
<1>11. v \in Own => v <= Len(tableOf) /\ tableOf[v] = t /\ v \in Ids(Top)
  <2> SUFFICES ASSUME v \in Own PROVE v <= Len(tableOf) /\ tableOf[v] = t /\ v \in Ids(Top)
    OBVIOUS
  <2>1. v <= Len(tableOf) /\ tableOf[v] = t /\ v \in Ids(Top) \cup Queued
    BY <1>4 DEF Shown, Placed
  <2>2. v \in 1 .. Len(tableOf)
    BY <2>1, InTables
  <2>3. v \notin rejected
    BY <2>1, <2>2 DEF Writes
  <2>4. v \in Queued => v \in Ids(Top) \cup rejected
    BY DEF Queued, AtRest, LogInv, BatchInv, AckedIsSettled
  <2> QED BY <2>1, <2>3, <2>4
<1>12. ASSUME NEW p \in 1 .. Top, log[p].id = v, last <= p PROVE v = x
  <2>1. log[p].table = t
    <3>1. CASE v \in Own
      BY <1>11, <1>12, <3>1 DEF ShownInv, TablesInv
    <3>2. CASE v \notin Own
      <4>1. v # 0
        BY <1>12, LogFacts DEF Id
      <4>2. PICK r \in Changes(t, Top) : log[r].id = v
        BY <1>4, <3>2, <4>1 DEF Shown, Placed
      <4>3. r \in 1 .. Top /\ log[r].table = t
        BY DEF Changes
      <4>4. r = p
        BY <1>12, <4>2, <4>3 DEF LogInv, OnceInv, LoggedOnce
      <4> QED BY <4>3, <4>4
    <3> QED BY <3>1, <3>2
  <2>2. p \in Changes(t, Top)
    BY <2>1 DEF Changes
  <2>3. p = last
    BY <1>0, <1>1, <1>6, <1>12, <2>2
  <2> QED BY <1>5, <1>12, <2>3
<1>13. CASE v \in Own /\ x \in Own /\ x <= v
  <2>1. PICK p \in 1 .. Top : log[p].id = v
    BY <1>11, <1>13 DEF Ids
  <2>2. log[p].table = t
    BY <1>11, <1>13, <2>1 DEF ShownInv, TablesInv
  <2>3. p \in OwnIn(t) /\ last \in OwnIn(t) /\ p \in Changes(t, Top)
    BY <1>5, <1>6, <1>13, <2>1, <2>2 DEF OwnIn, Changes
  <2>4. CASE p < last
    <3>1. v < x
      BY <1>5, <2>1, <2>3, <2>4 DEF InOrder
    <3>2. v \in Nat /\ x \in Nat
      BY <1>13 DEF Own
    <3> QED BY <1>13, <3>1, <3>2
  <2>5. CASE ~(p < last)
    <3>1. last <= p
      BY <1>0, <1>6, <2>5
    <3> QED BY <1>2, <1>5, <1>12, <2>1, <3>1 DEF v
  <2> QED BY <2>4, <2>5
<1>14. CASE \E p \in 1 .. Top : log[p].id = v /\ x \in Ids(p)
  <2>1. PICK p \in 1 .. Top : log[p].id = v /\ x \in Ids(p)
    BY <1>14
  <2>2. PICK i \in 1 .. p : log[i].id = x
    BY <2>1 DEF Ids
  <2>3. last <= p
    BY <1>0, <1>7, <2>2
  <2> QED BY <1>2, <1>5, <1>12, <2>1, <2>3 DEF v
<1>15. CASE v \in Own \ Ids(Top) /\ x \in Ids(Top) \ Own
  BY <1>11, <1>15
<1> QED BY <1>10, <1>13, <1>14, <1>15 DEF AtOrAbove

\* When all is pushed and the cursor is at the end, the client has the server's row,
\* but for the ways the code has to come apart that the property names.
THEOREM ClientCaughtUpIsCurrent == Spec => []CaughtUpIsCurrent
<1>1. Init => LogInv /\ StoreInv /\ ShownInv
  BY InitLog, InitStore, InitShown, ClientSyncAssumption
<1>2. LogInv /\ StoreInv /\ ShownInv /\ [Next]_vars => LogInv' /\ StoreInv' /\ ShownInv'
  BY LogStep, StoreStep, ShownStep, ClientSyncAssumption
<1>3. LogInv /\ StoreInv /\ ShownInv => CaughtUpIsCurrent
  BY AtRestCurrent, ClientSyncAssumption DEF CaughtUpIsCurrent
<1> QED BY <1>1, <1>2, <1>3, PTL DEF Spec

=============================================================================
