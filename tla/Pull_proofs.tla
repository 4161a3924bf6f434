----------------------------- MODULE Pull_proofs -----------------------------
(***************************************************************************)
(* Proofs about the incremental pull.                                      *)
(***************************************************************************)
EXTENDS Pull, FiniteSetTheorems, WellFoundedInduction, TLAPS

----------------------------------------------------------------------------
(* Sets of numbers and of log entries. *)

\* A nonempty set of naturals has a least element.
LEMMA Least ==
  ASSUME NEW S, S \subseteq Nat, S # {}
  PROVE  \E x \in S : \A y \in S : x <= y
<1>1. \E x \in S : \A y \in S : ~ (<<y, x>> \in OpToRel(<, Nat))
  BY NatLessThanWellFounded, WFMin
<1>2. ASSUME NEW x \in S, NEW y \in S, ~ (<<y, x>> \in OpToRel(<, Nat))
      PROVE  x <= y
  BY <1>2 DEF OpToRel
<1> QED  BY <1>1, <1>2

\* A nonempty set of naturals that is bounded has a greatest element.
LEMMA Greatest ==
  ASSUME NEW S, S \subseteq Nat, S # {}, NEW b \in Nat, \A x \in S : x <= b
  PROVE  \E x \in S : \A y \in S : y <= x
<1> DEFINE Above == {n \in Nat : \A x \in S : x <= n}
<1>1. Above \subseteq Nat /\ b \in Above
  OBVIOUS
<1>2. PICK n \in Above : \A m \in Above : n <= m
  <2> HIDE DEF Above
  <2> QED BY <1>1, Least
<1>3. n \in S
  <2> SUFFICES ASSUME n \notin S PROVE FALSE
    OBVIOUS
  <2>1. PICK x \in S : TRUE
    OBVIOUS
  <2>2. \A y \in S : y <= n - 1 /\ n - 1 \in Nat
    BY <2>1
  <2>3. n - 1 \in Above
    BY <2>1, <2>2
  <2> QED BY <1>2, <2>3
<1> QED BY <1>3

\* Min and Max are the least and the greatest element.
LEMMA MinIsLeast ==
  ASSUME NEW S, S \subseteq Nat, S # {}
  PROVE  Min(S) \in S /\ \A y \in S : Min(S) <= y
BY Least DEF Min

LEMMA MaxIsGreatest ==
  ASSUME NEW S, S \subseteq Nat, S # {}, NEW b \in Nat, \A x \in S : x <= b
  PROVE  Max(S) \in S /\ \A y \in S : y <= Max(S)
BY Greatest DEF Max

\* Entries with numbers below a bound, no two with the same number.
Log(S) ==
  /\ IsFiniteSet(S)
  /\ \A e \in S : e.seq \in Nat
  /\ \A d, e \in S : d.seq = e.seq => d = e
  /\ \E b \in Nat : \A e \in S : e.seq <= b

\* Newest picks the entry with the highest number.
LEMMA NewestLemma ==
  ASSUME NEW S, S # {}, NEW b \in Nat, \A e \in S : e.seq \in Nat /\ e.seq <= b
  PROVE  Newest(S) \in S /\ \A d \in S : d.seq <= Newest(S).seq
<1> DEFINE N == {e.seq : e \in S}
<1>1. N \subseteq Nat /\ N # {} /\ \A x \in N : x <= b
  OBVIOUS
<1>2. \E x \in N : \A y \in N : y <= x
  <2> HIDE DEF N
  <2> QED BY <1>1, Greatest
<1>3. \E e \in S : \A d \in S : d.seq <= e.seq
  BY <1>2
<1> QED BY <1>3 DEF Newest

\* The n lowest entries are at most n, and an entry below one of them is one.
LEMMA LowestLemma ==
  ASSUME NEW S, Log(S), NEW n \in Nat
  PROVE  /\ Lowest(S, n) \subseteq S
         /\ IsFiniteSet(Lowest(S, n))
         /\ \A d \in S, e \in Lowest(S, n) : d.seq <= e.seq => d \in Lowest(S, n)
         /\ Cardinality(Lowest(S, n)) <= n
<1> DEFINE Low == Lowest(S, n)
           Under(e) == {d \in S : d.seq < e.seq}
<1>1. Low \subseteq S /\ IsFiniteSet(Low)
  BY FS_Subset DEF Lowest, Log
<1>2. \A e \in S : IsFiniteSet(Under(e)) /\ Cardinality(Under(e)) \in Nat
  BY FS_Subset, FS_CardinalityType DEF Log
<1>3. ASSUME NEW d \in S, NEW e \in Low, d.seq <= e.seq
      PROVE  d \in Low
  <2>1. e \in S /\ Under(d) \subseteq Under(e)
    BY <1>1, <1>3 DEF Log
  <2>2. Cardinality(Under(d)) <= Cardinality(Under(e))
    BY <1>2, <2>1, FS_Subset
  <2>3. Cardinality(Under(e)) < n
    BY DEF Lowest
  <2>4. Cardinality(Under(d)) < n
    <3>1. Cardinality(Under(d)) \in Nat /\ Cardinality(Under(e)) \in Nat
      BY <1>2, <2>1
    <3> HIDE DEF Under
    <3> QED BY <3>1, <2>2, <2>3
  <2> QED BY <2>4 DEF Lowest
<1>4. Cardinality(Low) <= n
  <2>1. CASE Low = {}
    BY <2>1, FS_EmptySet
  <2>2. CASE Low # {}
    <3>1. PICK e \in Low : \A d \in Low : d.seq <= e.seq
      <4>1. PICK b \in Nat : \A d \in S : d.seq <= b
        BY DEF Log
      <4>2. \A d \in Low : d.seq \in Nat /\ d.seq <= b
        BY <4>1, <1>1 DEF Log
      <4> HIDE DEF Low
      <4> QED BY <2>2, <4>1, <4>2, NewestLemma
    <3>2. e \in S /\ Low \ {e} \subseteq Under(e)
      BY <1>1, <3>1 DEF Log
    <3>3. Cardinality(Low \ {e}) <= Cardinality(Under(e))
      BY <3>2, <1>2, FS_Subset
    <3>4. Cardinality(Under(e)) < n
      BY DEF Lowest
    <3>5. Cardinality(Low \ {e}) = Cardinality(Low) - 1 /\ Cardinality(Low) \in Nat
      BY <1>1, FS_RemoveElement, FS_CardinalityType
    <3>6. Cardinality(Low \ {e}) \in Nat /\ Cardinality(Under(e)) \in Nat
      BY <1>1, <1>2, <3>2, FS_RemoveElement, FS_CardinalityType
    <3> HIDE DEF Low, Under
    <3> QED BY <3>3, <3>4, <3>5, <3>6
  <2> QED BY <2>1, <2>2
<1> QED BY <1>1, <1>3, <1>4

----------------------------------------------------------------------------
(* The inductive invariants. *)

\* The numbers in the log and those in reserve lie below the next one and are
\* all different; a change is found under one number only.
Numbered ==
  /\ Log(changes)
  /\ \A e \in changes : e.seq < nextSeq
  /\ \A w \in Writer : /\ \A e \in changes : e.seq \notin stock[w]
                       /\ \A n \in stock[w] : n < nextSeq
  /\ \A v, w \in Writer : v # w => stock[v] \cap stock[w] = {}

\* A cursor is 0 or covered by the log.
InLog(n) == n = 0 \/ \E e \in changes : n <= e.seq

Behind ==
  \A r \in Resource : InLog(cursor[r]) /\ InLog(asked[r])

TypeInv == TypeOK /\ Numbered /\ Behind

\* The number of a change is below every number still in reserve: no request
\* commits while another one holds lower numbers it has not used.
Ordered ==
  \A w \in Writer : \A e \in changes, n \in stock[w] : e.seq < n

\* The changes of a resource up to n have been applied.
Applied(r, n) ==
  \A e \in changes : resourceOf[e.key] = r /\ e.seq <= n => e.seq \in delivered

\* S has every change of r that lies above what was asked for and not above one
\* of its own changes of r.
Closed(S, r) ==
  \A d \in changes, e \in S :
    /\ resourceOf[d.key] = r /\ resourceOf[e.key] = r
    /\ asked[r] < d.seq /\ d.seq <= e.seq
    => d \in S

SafeInv ==
  /\ \A r \in Resource : Applied(r, cursor[r]) /\ Applied(r, asked[r])
  /\ \A r \in Resource : fetched[r] # None =>
       /\ \A e \in fetched[r] : resourceOf[e.key] = r
       /\ Closed(fetched[r], r)
  /\ pc # "fetch" => \A r \in Resource : fetched[r] = None
  /\ \A r \in Resource : Closed(reply, r)
  /\ pc = "cursors" => \A e \in reply : e.seq \in delivered

----------------------------------------------------------------------------
(* The log and the answer. *)

LEMMA LogSubset ==
  ASSUME NEW S, Log(S), NEW T, T \subseteq S
  PROVE  Log(T)
BY FS_Subset DEF Log

\* What the server found is part of the log.
LEMMA FoundLemma ==
  ASSUME TypeInv, \A r \in Resource : fetched[r] # None
  PROVE  Found \subseteq changes /\ Log(Found)
<1>1. Found \subseteq changes
  BY DEF Found, TypeInv, TypeOK
<1> QED BY <1>1, LogSubset DEF TypeInv, Numbered

\* The cursor of an answer is the cursor asked with or the number of the last
\* change of the resource in the answer.
LEMMA AnsweredLemma ==
  ASSUME TypeInv, NEW r \in Resource
  PROVE  /\ Answered(r) \in Nat /\ InLog(Answered(r)) /\ Answered(r) < nextSeq
         /\ \/ /\ Answered(r) = asked[r]
               /\ \A e \in reply : resourceOf[e.key] # r
            \/ \E e \in reply : resourceOf[e.key] = r /\ Answered(r) = e.seq
<1> DEFINE mine == {e \in reply : resourceOf[e.key] = r}
<1>1. /\ nextSeq \in Nat /\ nextSeq >= 1
      /\ \A e \in changes : e.seq \in Nat /\ e.seq < nextSeq
      /\ mine \subseteq changes
      /\ asked[r] \in Nat /\ InLog(asked[r])
  BY DEF TypeInv, TypeOK, Numbered, Log, Behind
<1>2. CASE mine = {}
  <2>1. Answered(r) = asked[r]
    BY <1>2 DEF Answered
  <2>2. asked[r] < nextSeq
    BY <1>1 DEF InLog
  <2>3. \A e \in reply : resourceOf[e.key] # r
    BY <1>2
  <2> QED BY <1>1, <2>1, <2>2, <2>3
<1>3. CASE mine # {}
  <2>1. Answered(r) = Newest(mine).seq
    BY <1>3 DEF Answered
  <2>2. Newest(mine) \in mine
    <3>1. \A e \in mine : e.seq \in Nat /\ e.seq <= nextSeq
      BY <1>1
    <3> HIDE DEF mine
    <3> QED BY <1>1, <1>3, <3>1, NewestLemma
  <2>3. Newest(mine) \in changes /\ Newest(mine) \in reply
        /\ resourceOf[Newest(mine).key] = r
    BY <1>1, <2>2
  <2> HIDE DEF mine
  <2>4. InLog(Newest(mine).seq)
    BY <1>1, <2>3 DEF InLog
  <2> QED BY <1>1, <2>1, <2>3, <2>4
<1> QED BY <1>2, <1>3

\* No change of a resource in an answer is above the answer's cursor.
LEMMA AnsweredIsLast ==
  ASSUME TypeInv, NEW r \in Resource, NEW e \in reply, resourceOf[e.key] = r
  PROVE  e.seq <= Answered(r)
<1> DEFINE mine == {d \in reply : resourceOf[d.key] = r}
<1>1. /\ nextSeq \in Nat /\ e \in mine
      /\ \A d \in mine : d.seq \in Nat /\ d.seq <= nextSeq
  BY DEF TypeInv, TypeOK, Numbered, Log
<1>2. Answered(r) = Newest(mine).seq
  BY <1>1 DEF Answered
<1>3. \A d \in mine : d.seq <= Newest(mine).seq
  <2> HIDE DEF mine
  <2> QED BY <1>1, NewestLemma
<1> QED BY <1>1, <1>2, <1>3

----------------------------------------------------------------------------
(* One step of each kind preserves TypeInv. *)

\* A mutation takes a number that is in reserve or new.
LEMMA CommitNumber ==
  ASSUME TypeInv, NEW w \in Writer, NEW n \in Nat,
         NEW numbers, numbers = stock[w] \cup nextSeq .. nextSeq + n - 1,
         stock[w] = {} => n # 0,
         NEW s, s = Min(numbers)
  PROVE  /\ s \in numbers /\ s \in Nat \ {0}
         /\ s \in stock[w] \/ s >= nextSeq
         /\ s < nextSeq + n
         /\ \A e \in changes : e.seq # s
         /\ \A x \in numbers : x < nextSeq + n /\ s <= x
<1>1. /\ nextSeq \in Nat \ {0} /\ stock[w] \subseteq Nat \ {0}
      /\ \A x \in stock[w] : x < nextSeq
      /\ \A e \in changes : e.seq \notin stock[w] /\ e.seq \in Nat /\ e.seq < nextSeq
  BY PullAssumption DEF TypeInv, TypeOK, Numbered, Log
<1>2. numbers \subseteq Nat \ {0} /\ numbers # {} /\ \A x \in numbers : x < nextSeq + n
  <2>1. CASE stock[w] = {}
    BY <1>1, <2>1
  <2>2. CASE stock[w] # {}
    BY <1>1, <2>2
  <2> QED BY <2>1, <2>2
<1>3. s \in numbers /\ \A x \in numbers : s <= x
  BY <1>2, MinIsLeast
<1>4. s \in stock[w] \/ s >= nextSeq
  BY <1>1, <1>3
<1> QED BY <1>1, <1>2, <1>3, <1>4

\* A row with a change written into it is a row.
LEMMA AfterLemma ==
  ASSUME NEW row \in Row, NEW op, NEW F, NEW s \in Nat
  PROVE  After(row, op, F, s) \in Row
BY DEF After, Written, Row

\* What a commit does to the log and the numbers.
CommitOf(w, n, e) ==
  /\ e \in Entry
  /\ LET numbers == stock[w] \cup nextSeq .. nextSeq + n - 1
     IN /\ e.seq \in numbers
        /\ \A x \in numbers : e.seq <= x
        /\ stock' = [stock EXCEPT ![w] = numbers \ {e.seq}]
  /\ e.seq \in stock[w] \/ e.seq >= nextSeq
  /\ n \in Nat
  /\ changes' = changes \cup {e}
  /\ nextSeq' = nextSeq + n
  /\ nextSeq + n - 1 <= MaxSeq
  /\ \A d \in changes : d.seq # e.seq
  /\ e.seq < nextSeq + n
  /\ rows' \in [Key -> Row]
  /\ Accepted(e.key, e.op)
  /\ e.after = After(rows[e.key], e.op, e.fields, e.seq)
  /\ rows' = [rows EXCEPT ![e.key] = e.after]
  /\ UNCHANGED <<storage, pc, request, response, bounds, delivered>>

LEMMA CommitLemma ==
  ASSUME TypeInv, NEW w \in Writer, Commit(w)
  PROVE  \E n \in Nat, e \in Entry : CommitOf(w, n, e)
<1>1. PICK op \in Ops, k \in Key, F \in (SUBSET Field) \ {{}},
           n \in IF stock[w] = {} THEN Reservation ELSE {0} :
        LET numbers == stock[w] \cup nextSeq .. nextSeq + n - 1
            s       == Min(numbers)
        IN /\ nextSeq + n - 1 <= MaxSeq
           /\ Accepted(k, op)
           /\ op = "delete" => F = Field
           /\ rows' = [rows EXCEPT ![k] = After(@, op, F, s)]
           /\ changes' = changes \cup
                {[seq |-> s, key |-> k, op |-> op, fields |-> F, after |-> rows'[k]]}
           /\ nextSeq' = nextSeq + n
           /\ stock' = [stock EXCEPT ![w] = numbers \ {s}]
           /\ UNCHANGED <<storage, pc, request, response, bounds, delivered>>
  BY DEF Commit
<1> DEFINE numbers == stock[w] \cup nextSeq .. nextSeq + n - 1
           s == Min(numbers)
           e == [seq |-> s, key |-> k, op |-> op, fields |-> F, after |-> rows'[k]]
<1>2. n \in Nat /\ (stock[w] = {} => n # 0)
  <2>1. n \in Reservation \/ (stock[w] # {} /\ n = 0)
    OBVIOUS
  <2> QED BY <2>1, PullAssumption
<1>3. /\ s \in numbers /\ s \in Nat \ {0}
      /\ s \in stock[w] \/ s >= nextSeq
      /\ s < nextSeq + n
      /\ \A d \in changes : d.seq # s
      /\ \A x \in numbers : x < nextSeq + n /\ s <= x
  <2> HIDE DEF numbers
  <2>1. numbers = stock[w] \cup nextSeq .. nextSeq + n - 1
    BY DEF numbers
  <2> QED BY <1>2, <2>1, CommitNumber
<1> HIDE DEF s
<1>4. rows' \in [Key -> Row] /\ rows'[k] \in Row
  <2>1. rows \in [Key -> Row] /\ rows[k] \in Row
    BY DEF TypeInv, TypeOK
  <2>2. After(rows[k], op, F, s) \in Row
    BY <1>3, <2>1, AfterLemma
  <2>3. rows' = [rows EXCEPT ![k] = After(rows[k], op, F, s)]
    BY <1>1 DEF s
  <2> QED BY <2>1, <2>2, <2>3
<1>5. e \in Entry
  BY <1>3, <1>4 DEF Entry
<1>6. e.seq = s /\ e.key = k /\ e.op = op /\ e.fields = F /\ e.after = rows'[k]
  OBVIOUS
<1>a. /\ Accepted(k, op) /\ rows'[k] = After(rows[k], op, F, s)
      /\ rows' = [rows EXCEPT ![k] = rows'[k]]
  <2>1. rows \in [Key -> Row] /\ rows' = [rows EXCEPT ![k] = After(rows[k], op, F, s)]
    BY <1>1 DEF s, TypeInv, TypeOK
  <2> QED BY <1>1, <2>1
<1>7. /\ changes' = changes \cup {e}
      /\ nextSeq' = nextSeq + n
      /\ nextSeq + n - 1 <= MaxSeq
      /\ stock' = [stock EXCEPT ![w] = numbers \ {s}]
      /\ UNCHANGED <<storage, pc, request, response, bounds, delivered>>
  BY <1>1 DEF s
<1>8. CommitOf(w, n, e)
  <2> HIDE DEF e
  <2> QED BY <1>2, <1>3, <1>4, <1>5, <1>6, <1>7, <1>a DEF CommitOf
<1> QED BY <1>2, <1>5, <1>8

LEMMA CommitKeepsType ==
  ASSUME TypeInv, NEW w \in Writer, NEW n \in Nat, NEW e \in Entry, CommitOf(w, n, e)
  PROVE  TypeInv'
<1> DEFINE numbers == stock[w] \cup nextSeq .. nextSeq + n - 1
<1>1. /\ e.seq \in Nat \ {0} /\ e.seq \in numbers
      /\ stock' = [stock EXCEPT ![w] = numbers \ {e.seq}]
      /\ changes' = changes \cup {e}
      /\ nextSeq' = nextSeq + n /\ nextSeq + n - 1 <= MaxSeq
      /\ \A d \in changes : d.seq # e.seq
      /\ e.seq < nextSeq + n
      /\ rows' \in [Key -> Row]
      /\ e.seq \in stock[w] \/ e.seq >= nextSeq
      /\ UNCHANGED <<local, cursor, globalCursor, pc, asked, fetched, iterations,
                     reply, more, advanced, failures, crashes, delivered>>
  BY DEF CommitOf, Entry, storage, request, response, bounds
<1>2. /\ nextSeq \in 1 .. MaxSeq + 1 /\ MaxSeq \in Nat
      /\ changes \subseteq Entry
      /\ stock \in [Writer -> SUBSET (1 .. MaxSeq)]
      /\ \A x \in Writer : \A y \in stock[x] : y < nextSeq
  BY PullAssumption DEF TypeInv, TypeOK, Numbered
<1>3. numbers \subseteq 1 .. MaxSeq /\ \A x \in numbers : x < nextSeq + n
  BY <1>1, <1>2
<1>4. TypeOK'
  <2>1. stock' \in [Writer -> SUBSET (1 .. MaxSeq)]
    BY <1>1, <1>2, <1>3
  <2>2. nextSeq' \in 1 .. MaxSeq + 1
    BY <1>1, <1>2
  <2>3. changes' \subseteq Entry
    BY <1>1, <1>2
  <2>4. /\ \A r \in Resource : fetched[r] = None \/ fetched[r] \subseteq changes'
        /\ reply \subseteq changes'
    BY <1>1 DEF TypeInv, TypeOK
  <2> QED BY <1>1, <2>1, <2>2, <2>3, <2>4 DEF TypeInv, TypeOK
<1>5. Numbered'
  <2>1. Log(changes')
    <3>1. Log(changes) /\ \A d \in changes : d.seq < nextSeq
      BY DEF TypeInv, Numbered
    <3>2. IsFiniteSet(changes')
      BY <1>1, <3>1, FS_AddElement DEF Log
    <3>3. \A d \in changes' : d.seq \in Nat /\ d.seq <= nextSeq + n
      BY <1>1, <1>2, <3>1 DEF Log
    <3>4. \A c, d \in changes' : c.seq = d.seq => c = d
      BY <1>1, <3>1 DEF Log
    <3>5. \E b \in Nat : \A d \in changes' : d.seq <= b
      BY <3>3, <1>2
    <3> QED BY <3>2, <3>3, <3>4, <3>5 DEF Log
  <2>2. \A d \in changes' : d.seq < nextSeq'
    BY <1>1, <1>2 DEF TypeInv, Numbered, Log
  <2>3. ASSUME NEW v \in Writer
        PROVE  /\ \A d \in changes' : d.seq \notin stock'[v]
               /\ \A x \in stock'[v] : x < nextSeq'
    <3>1. /\ \A d \in changes : d.seq \notin stock[v] /\ d.seq < nextSeq /\ d.seq \in Nat
          /\ v # w => stock[v] \cap stock[w] = {}
      BY DEF TypeInv, Numbered, Log
    <3>2. CASE v = w
      <4>1. stock'[v] = numbers \ {e.seq}
        BY <1>1, <1>2, <3>2
      <4>2. \A d \in changes : d.seq \notin numbers
        BY <3>1, <3>2, <1>2
      <4> QED BY <1>1, <1>3, <4>1, <4>2
    <3>3. CASE v # w
      <4>1. stock'[v] = stock[v]
        BY <1>1, <1>2, <3>3
      <4>2. e.seq \notin stock[v]
        BY <1>1, <1>2, <3>1, <3>3
      <4> QED BY <1>1, <1>2, <3>1, <4>1, <4>2
    <3> QED BY <3>2, <3>3
  <2>4. ASSUME NEW u \in Writer, NEW v \in Writer, u # v
        PROVE  stock'[u] \cap stock'[v] = {}
    <3>1. /\ stock[u] \cap stock[v] = {}
          /\ \A x \in Writer : x # w => stock'[x] = stock[x]
          /\ stock'[w] \subseteq numbers
      BY <1>1, <1>2, <2>4 DEF TypeInv, Numbered
    <3>2. \A x \in stock[u] \cup stock[v] : x < nextSeq /\ x \in Nat
      BY <1>2
    <3>3. ASSUME NEW x, x \in stock'[u], x \in stock'[v] PROVE FALSE
      <4>1. CASE u = w
        BY <4>1, <2>4, <3>1, <3>2, <3>3, <1>2
      <4>2. CASE v = w
        BY <4>2, <2>4, <3>1, <3>2, <3>3, <1>2
      <4>3. CASE u # w /\ v # w
        BY <4>3, <3>1, <3>3
      <4> QED BY <4>1, <4>2, <4>3
    <3> QED BY <3>3
  <2> QED BY <2>1, <2>2, <2>3, <2>4 DEF Numbered
<1>6. Behind'
  <2>1. /\ changes \subseteq changes' /\ cursor' = cursor /\ asked' = asked
    BY <1>1
  <2> QED BY <2>1 DEF TypeInv, Behind, InLog
<1> QED BY <1>4, <1>5, <1>6 DEF TypeInv

\* The steps of the client leave the log alone.
LEMMA LogStays ==
  ASSUME TypeInv, UNCHANGED server
  PROVE  Numbered' /\ \A n : InLog(n)' <=> InLog(n)
BY DEF TypeInv, Numbered, InLog, server, Log

\* A pull that is over, or begins, leaves TypeInv true.
LEMMA ForgetKeepsType ==
  ASSUME TypeInv, UNCHANGED <<server, local, cursor, delivered>>,
         globalCursor' \in Nat,
         failures' \in Nat, crashes' \in Nat, failures' + crashes' <= MaxUpsets,
         pc' \in Phase, asked' \in [Resource -> Nat],
         \A r \in Resource : InLog(asked'[r]),
         fetched' = Nothing, reply' = {}, more' = FALSE, advanced' = {},
         iterations' \in 0 .. MaxIterations
  PROVE  TypeInv'
<1>1. Cardinality({}) = 0 /\ Limit \in Nat
  BY FS_EmptySet, PullAssumption
<1>2. TypeOK'
  <2>1. \A r \in Resource : fetched'[r] = None
    BY DEF Nothing
  <2>2. reply' \subseteq changes' /\ Cardinality(reply') <= Limit
    BY <1>1
  <2> QED BY <2>1, <2>2 DEF TypeInv, TypeOK, server
<1>3. Behind'
  BY LogStays DEF TypeInv, Behind, InLog, server
<1> QED BY <1>2, <1>3, LogStays DEF TypeInv

LEMMA ClientKeepsType ==
  ASSUME TypeInv, PullNow \/ Fail \/ Crash
  PROVE  TypeInv'
<1>1. /\ pc \in Phase /\ cursor \in [Resource -> Nat] /\ asked \in [Resource -> Nat]
      /\ globalCursor \in Nat /\ failures \in Nat /\ crashes \in Nat
      /\ failures + crashes <= MaxUpsets /\ MaxUpsets \in Nat
      /\ MaxIterations \in Nat \ {0}
  BY PullAssumption DEF TypeInv, TypeOK
<1>2. \A r \in Resource : InLog(cursor[r])
  BY DEF TypeInv, Behind
<1>3. CASE PullNow
  <2>1. /\ UNCHANGED <<server, local, cursor, delivered, globalCursor, failures, crashes>>
        /\ pc' = "fetch" /\ asked' = cursor /\ fetched' = Nothing
        /\ reply' = {} /\ more' = FALSE /\ advanced' = {} /\ iterations' = 1
    BY <1>3 DEF PullNow, storage, bounds
  <2>2. /\ pc' \in Phase /\ asked' \in [Resource -> Nat] /\ iterations' \in 0 .. MaxIterations
        /\ failures' + crashes' <= MaxUpsets
        /\ \A r \in Resource : InLog(asked'[r])
    BY <1>1, <1>2, <2>1 DEF Phase
  <2> QED BY <1>1, <2>1, <2>2, ForgetKeepsType
<1>4. CASE Fail \/ Crash
  <2>1. /\ UNCHANGED <<server, local, cursor, delivered, globalCursor>>
        /\ pc' = "idle" /\ asked' = [r \in Resource |-> 0] /\ fetched' = Nothing
        /\ reply' = {} /\ more' = FALSE /\ advanced' = {} /\ iterations' = 0
        /\ failures + crashes < MaxUpsets
        /\ \/ failures' = failures + 1 /\ crashes' = crashes
           \/ failures' = failures /\ crashes' = crashes + 1
    BY <1>4 DEF Fail, Crash, EndPull, Forget, Upset, storage
  <2>2. /\ failures' \in Nat /\ crashes' \in Nat /\ failures' + crashes' <= MaxUpsets
        /\ pc' \in Phase /\ asked' \in [Resource -> Nat] /\ iterations' \in 0 .. MaxIterations
        /\ \A r \in Resource : InLog(asked'[r])
    BY <1>1, <2>1 DEF Phase, InLog
  <2> QED BY <1>1, <2>1, <2>2, ForgetKeepsType
<1> QED BY <1>3, <1>4

LEMMA FetchKeepsType ==
  ASSUME TypeInv, NEW r \in Resource, Fetch(r)
  PROVE  TypeInv'
<1> DEFINE after == {e \in changes : resourceOf[e.key] = r /\ e.seq > asked[r]}
<1>1. /\ fetched' = [fetched EXCEPT ![r] = Lowest(after, Limit + 1)]
      /\ UNCHANGED <<server, local, cursor, globalCursor, pc, asked, iterations,
                     reply, more, advanced, failures, crashes, delivered>>
  BY DEF Fetch, storage, response, bounds
<1>2. Lowest(after, Limit + 1) \subseteq changes
  BY DEF Lowest
<1>3. \A q \in Resource : fetched'[q] = None \/ fetched'[q] \subseteq changes
  BY <1>1, <1>2 DEF TypeInv, TypeOK
<1>4. TypeOK'
  BY <1>1, <1>3 DEF TypeInv, TypeOK, server
<1>5. Behind'
  BY <1>1, LogStays DEF TypeInv, Behind
<1> QED BY <1>1, <1>4, <1>5, LogStays DEF TypeInv

LEMMA AnswerKeepsType ==
  ASSUME TypeInv, Answer
  PROVE  TypeInv'
<1>1. /\ \A r \in Resource : fetched[r] # None
      /\ reply' = Lowest(Found, Limit)
      /\ more' = (reply' # Found)
      /\ fetched' = Nothing
      /\ pc' = "records"
      /\ UNCHANGED <<server, local, cursor, globalCursor, asked, iterations, advanced,
                     failures, crashes, delivered>>
  BY DEF Answer, Limited, storage, bounds
<1>2. reply' \subseteq changes /\ Cardinality(reply') <= Limit
  <2>1. Found \subseteq changes /\ Log(Found) /\ Limit \in Nat
    BY <1>1, FoundLemma, PullAssumption
  <2> QED BY <1>1, <2>1, LowestLemma
<1>3. /\ \A r \in Resource : fetched'[r] = None
      /\ more' \in BOOLEAN /\ pc' \in Phase
  BY <1>1 DEF Nothing, Phase
<1>4. TypeOK'
  BY <1>1, <1>2, <1>3 DEF TypeInv, TypeOK, server
<1>5. Behind'
  BY <1>1, LogStays DEF TypeInv, Behind
<1> QED BY <1>1, <1>4, <1>5, LogStays DEF TypeInv

\* The newest of some entries of the answer is a change of the log.
LEMMA NewestOfReply ==
  ASSUME TypeInv, NEW S, S \subseteq reply, S # {}
  PROVE  Newest(S) \in S /\ Newest(S) \in Entry /\ \A e \in S : e.seq <= Newest(S).seq
<1>1. nextSeq \in Nat /\ \A e \in S : e \in Entry /\ e.seq \in Nat /\ e.seq <= nextSeq
  BY DEF TypeInv, TypeOK, Numbered, Log
<1> QED BY <1>1, NewestLemma

\* The three writes of an apply put rows where rows were.
LEMMA ApplyKeepsType ==
  ASSUME TypeInv, ApplyRecords \/ ApplyMerged \/ ApplyDeleted
  PROVE  TypeInv'
<1>1. local \in [Key -> Row] /\ None \in Row
  BY DEF TypeInv, TypeOK, Row
<1>2. /\ UNCHANGED <<server, cursor, globalCursor, asked, fetched, iterations, reply,
                     more, advanced, failures, crashes>>
      /\ pc' \in Phase
  BY DEF ApplyRecords, ApplyMerged, ApplyDeleted, request, response, bounds, Phase
<1>3. \A k, ops : Of(k, ops) \subseteq reply
  BY DEF Of
<1>4. local' \in [Key -> Row]
  <2>1. CASE ApplyRecords
    <3>1. \A k \in Key : LET full == Of(k, {"insert", "replace"})
                         IN full # {} => Newest(full).after \in Row
      BY <1>3, NewestOfReply DEF Entry
    <3> QED BY <1>1, <2>1, <3>1 DEF ApplyRecords
  <2>2. CASE ApplyMerged
    <3> DEFINE writing(k, f) == {e \in Of(k, {"merge"}) : f \in e.fields}
               Merged(k) == [f \in Field |->
                  IF writing(k, f) # {} THEN Newest(writing(k, f)).seq
                  ELSE IF local[k] = None THEN 0 ELSE local[k][f]]
    <3>1. ASSUME NEW k \in Key PROVE Merged(k) \in Row
      <4>1. \A f \in Field : writing(k, f) # {} => Newest(writing(k, f)).seq \in Nat
        <5>1. \A f : writing(k, f) \subseteq reply
          BY <1>3
        <5> HIDE DEF writing
        <5> QED BY <5>1, NewestOfReply DEF Entry
      <4>2. local[k] = None \/ local[k] \in [Field -> Nat]
        BY <1>1 DEF Row
      <4> HIDE DEF writing
      <4> QED BY <4>1, <4>2 DEF Row
    <3>2. local' = [k \in Key |-> IF Of(k, {"merge"}) = {} THEN local[k] ELSE Merged(k)]
      BY <2>2 DEF ApplyMerged
    <3> HIDE DEF Merged
    <3> QED BY <1>1, <3>1, <3>2
  <2>3. CASE ApplyDeleted
    BY <1>1, <2>3 DEF ApplyDeleted
  <2> QED BY <2>1, <2>2, <2>3
<1>5. delivered' \subseteq 1 .. MaxSeq
  <2>1. \A e \in reply : e.seq \in 1 .. MaxSeq
    <3>1. /\ nextSeq \in 1 .. MaxSeq + 1 /\ MaxSeq \in Nat
          /\ \A e \in reply : e \in Entry /\ e.seq < nextSeq
      BY PullAssumption DEF TypeInv, TypeOK, Numbered
    <3> QED BY <3>1 DEF Entry
  <2>2. delivered \subseteq 1 .. MaxSeq
    BY DEF TypeInv, TypeOK
  <2>3. delivered' = delivered \/ delivered' = delivered \cup {e.seq : e \in reply}
    BY DEF ApplyRecords, ApplyMerged, ApplyDeleted
  <2> QED BY <2>1, <2>2, <2>3
<1>6. TypeOK'
  BY <1>2, <1>4, <1>5 DEF TypeInv, TypeOK, server
<1>7. Behind'
  BY <1>2, LogStays DEF TypeInv, Behind
<1> QED BY <1>2, <1>6, <1>7, LogStays DEF TypeInv

LEMMA AdvanceKeepsType ==
  ASSUME TypeInv, NEW r \in Resource, AdvanceCursor(r)
  PROVE  TypeInv'
<1>1. /\ cursor' = [cursor EXCEPT ![r] = IF @ < Answered(r) THEN Answered(r) ELSE @]
      /\ advanced' = advanced \cup {r}
      /\ UNCHANGED <<server, local, globalCursor, pc, asked, fetched, iterations,
                     reply, more, failures, crashes, delivered>>
  BY DEF AdvanceCursor, request, bounds
<1>2. Answered(r) \in Nat /\ InLog(Answered(r))
  BY AnsweredLemma
<1>3. cursor' \in [Resource -> Nat] /\ \A q \in Resource : InLog(cursor'[q])
  BY <1>1, <1>2 DEF TypeInv, TypeOK, Behind
<1>4. TypeOK'
  BY <1>1, <1>3 DEF TypeInv, TypeOK, server
<1>5. Behind'
  BY <1>1, <1>3, LogStays DEF TypeInv, Behind
<1> QED BY <1>1, <1>4, <1>5, LogStays DEF TypeInv

LEMMA FinishKeepsType ==
  ASSUME TypeInv, Finish
  PROVE  TypeInv'
<1>1. \A r \in Resource : Answered(r) \in Nat /\ Answered(r) < nextSeq /\ InLog(Answered(r))
  BY AnsweredLemma
<1>2. /\ pc \in Phase /\ cursor \in [Resource -> Nat]
      /\ globalCursor \in Nat /\ failures \in Nat /\ crashes \in Nat
      /\ failures + crashes <= MaxUpsets /\ MaxUpsets \in Nat
      /\ MaxIterations \in Nat \ {0} /\ iterations \in 0 .. MaxIterations
      /\ nextSeq \in Nat
  BY PullAssumption DEF TypeInv, TypeOK
<1>3. globalCursor' \in Nat
  <2> DEFINE ends == {globalCursor} \cup {Answered(r) : r \in Resource}
  <2>1. ends \subseteq Nat /\ ends # {} /\ \A x \in ends : x <= globalCursor + nextSeq
    BY <1>1, <1>2
  <2>2. globalCursor' = Max(ends)
    BY DEF Finish
  <2>3. globalCursor + nextSeq \in Nat
    BY <1>2
  <2> HIDE DEF ends
  <2> QED BY <2>1, <2>2, <2>3, MaxIsGreatest
<1>4. UNCHANGED <<server, local, cursor, delivered, failures, crashes>>
  BY DEF Finish, bounds
<1>5. CASE more /\ iterations < MaxIterations
  <2>1. /\ asked' = [r \in Resource |-> Answered(r)]
        /\ iterations' = iterations + 1
        /\ reply' = {} /\ more' = FALSE /\ advanced' = {}
        /\ pc' = "fetch" /\ UNCHANGED fetched
    BY <1>5, <1>2 DEF Finish
  <2>2. /\ reply' \subseteq changes' /\ Cardinality(reply') <= Limit
        /\ pc' \in Phase /\ iterations' \in 0 .. MaxIterations
        /\ asked' \in [Resource -> Nat]
    <3>1. Cardinality({}) = 0 /\ Limit \in Nat
      BY FS_EmptySet, PullAssumption
    <3>2. pc' \in Phase /\ reply' = {} /\ asked' \in [Resource -> Nat]
      BY <1>1, <2>1 DEF Phase
    <3>3. iterations' \in 0 .. MaxIterations
      BY <1>2, <1>5, <2>1
    <3> QED BY <3>1, <3>2, <3>3
  <2>3. TypeOK'
    BY <1>3, <1>4, <2>1, <2>2 DEF TypeInv, TypeOK, server
  <2>4. Behind'
    BY <1>1, <1>4, <2>1, LogStays DEF TypeInv, Behind
  <2> QED BY <1>4, <2>3, <2>4, LogStays DEF TypeInv
<1>6. CASE ~(more /\ iterations < MaxIterations)
  <2>1. /\ pc' = "idle" /\ asked' = [r \in Resource |-> 0] /\ fetched' = Nothing
        /\ reply' = {} /\ more' = FALSE /\ advanced' = {} /\ iterations' = 0
    BY <1>6 DEF Finish, EndPull, Forget
  <2>2. /\ pc' \in Phase /\ asked' \in [Resource -> Nat] /\ iterations' \in 0 .. MaxIterations
        /\ \A r \in Resource : InLog(asked'[r])
    BY <1>2, <2>1 DEF Phase, InLog
  <2> QED BY <1>2, <1>3, <1>4, <2>1, <2>2, ForgetKeepsType
<1> QED BY <1>5, <1>6

LEMMA TypeStep ==
  ASSUME TypeInv, [Next]_vars
  PROVE  TypeInv'
<1>1. CASE UNCHANGED vars
  <2>1. /\ UNCHANGED <<server, local, cursor, globalCursor, pc, asked, fetched, reply, more,
                       iterations, advanced, failures, crashes, delivered>>
    BY <1>1 DEF vars, server, storage, request, response, bounds
  <2>2. TypeOK'
    BY <2>1 DEF TypeInv, TypeOK, server
  <2>3. Behind'
    BY <2>1, LogStays DEF TypeInv, Behind
  <2> QED BY <2>1, <2>2, <2>3, LogStays DEF TypeInv
<1>2. ASSUME NEW w \in Writer, Commit(w) PROVE TypeInv'
  <2>1. PICK n \in Nat, e \in Entry : CommitOf(w, n, e)
    BY <1>2, CommitLemma
  <2> QED BY <2>1, CommitKeepsType
<1>3. CASE Step
  BY <1>3, FetchKeepsType, AdvanceKeepsType, AnswerKeepsType, ApplyKeepsType,
     FinishKeepsType DEF Step
<1>4. CASE PullNow \/ Fail \/ Crash
  BY <1>4, ClientKeepsType
<1> QED BY <1>1, <1>2, <1>3, <1>4 DEF Next

LEMMA InitType == Init => TypeInv
<1> SUFFICES ASSUME Init PROVE TypeInv
  OBVIOUS
<1>1. IsFiniteSet({}) /\ Cardinality({}) = 0
  BY FS_EmptySet
<1>2. TypeOK
  <2>1. None \in Row
    BY DEF Row
  <2>2. /\ 0 <= Limit /\ 1 \in 1 .. MaxSeq + 1 /\ 0 \in 0 .. MaxIterations /\ 0 + 0 <= MaxUpsets
    BY PullAssumption
  <2>3. /\ rows \in [Key -> Row] /\ local \in [Key -> Row]
        /\ stock \in [Writer -> SUBSET (1 .. MaxSeq)]
        /\ pc \in Phase
        /\ \A r \in Resource : fetched[r] = None
    BY <2>1 DEF Init, Phase
  <2> QED BY <1>1, <2>2, <2>3 DEF Init, TypeOK
<1>3. Numbered
  <2>1. Log(changes)
    BY <1>1 DEF Init, Log
  <2> QED BY <2>1 DEF Init, Numbered
<1>4. Behind
  BY DEF Init, Behind, InLog
<1> QED BY <1>2, <1>3, <1>4 DEF TypeInv

\* The pull keeps its types: an answer never exceeds the batch size, the loop
\* never exceeds its iterations, and what was fetched and answered is in the
\* log (pullWithPerTableCursors, mergeCanonicalChangeStreamsBounded).
THEOREM PullTypeOK == Spec => []TypeOK
<1>1. TypeInv => TypeOK
  BY DEF TypeInv
<1> QED BY InitType, TypeStep, <1>1, PTL DEF Spec

----------------------------------------------------------------------------
(* One step of each kind preserves SafeInv. *)

\* In a log without overtaken numbers a new change is above all others, and so
\* above every cursor.
LEMMA CommitIsLast ==
  ASSUME TypeInv, Ordered, NEW w \in Writer, NEW n \in Nat, NEW e \in Entry, CommitOf(w, n, e)
  PROVE  /\ \A d \in changes : d.seq < e.seq
         /\ \A r \in Resource : cursor[r] < e.seq /\ asked[r] < e.seq
<1>1. /\ e.seq \in Nat \ {0} /\ nextSeq \in Nat
      /\ e.seq \in stock[w] \/ e.seq >= nextSeq
      /\ \A d \in changes : d.seq \in Nat /\ d.seq < nextSeq
  BY DEF CommitOf, Entry, TypeInv, TypeOK, Numbered, Log
<1>2. \A d \in changes : d.seq < e.seq
  BY <1>1 DEF Ordered
<1>3. ASSUME NEW c \in Nat, InLog(c) PROVE c < e.seq
  BY <1>1, <1>2, <1>3 DEF InLog
<1> QED BY <1>2, <1>3 DEF TypeInv, TypeOK, Behind

LEMMA CommitKeepsSafe ==
  ASSUME TypeInv, SafeInv, Ordered,
         NEW w \in Writer, NEW n \in Nat, NEW e \in Entry, CommitOf(w, n, e)
  PROVE  SafeInv'
<1>1. /\ changes' = changes \cup {e}
      /\ UNCHANGED <<cursor, asked, fetched, reply, delivered, pc>>
  BY DEF CommitOf, storage, request, response
<1>2. /\ e.seq \in Nat
      /\ \A d \in changes : d.seq \in Nat /\ d.seq < e.seq
      /\ \A r \in Resource : /\ cursor[r] < e.seq /\ asked[r] < e.seq
                             /\ cursor[r] \in Nat /\ asked[r] \in Nat
  BY CommitIsLast DEF Entry, TypeInv, TypeOK, Numbered, Log
<1>3. \A r \in Resource : Applied(r, cursor[r])' /\ Applied(r, asked[r])'
  BY <1>1, <1>2 DEF SafeInv, Applied
<1>4. ASSUME NEW S, S \subseteq changes, NEW r \in Resource, Closed(S, r)
      PROVE  Closed(S, r)'
  BY <1>1, <1>2, <1>4 DEF Closed
<1>5. \A r \in Resource : fetched'[r] # None =>
         /\ \A d \in fetched'[r] : resourceOf[d.key] = r
         /\ Closed(fetched[r], r)'
  BY <1>1, <1>4 DEF SafeInv, TypeInv, TypeOK
<1>6. \A r \in Resource : Closed(reply, r)'
  BY <1>1, <1>4 DEF SafeInv, TypeInv, TypeOK, Closed
<1> QED BY <1>1, <1>3, <1>5, <1>6 DEF SafeInv, Closed

\* A pull that begins or is over has asked up to cursors that are safe.
LEMMA ForgetKeepsSafe ==
  ASSUME SafeInv, UNCHANGED <<changes, cursor, delivered>>,
         asked' = cursor \/ asked' = [r \in Resource |-> 0] \/ UNCHANGED asked,
         fetched' = Nothing, reply' = {}, pc' # "cursors", TypeInv
  PROVE  SafeInv'
<1>1. \A r \in Resource : Applied(r, cursor[r])' /\ Applied(r, asked[r])'
  <2>1. \A e \in changes : e.seq \in Nat \ {0}
    BY DEF TypeInv, TypeOK, Entry
  <2> QED BY <2>1 DEF SafeInv, Applied
<1>2. \A r \in Resource : fetched'[r] = None /\ Closed(reply, r)'
  BY DEF Nothing, Closed
<1> QED BY <1>1, <1>2 DEF SafeInv

LEMMA ClientKeepsSafe ==
  ASSUME TypeInv, SafeInv, PullNow \/ Fail \/ Crash
  PROVE  SafeInv'
<1>1. /\ UNCHANGED <<changes, cursor, delivered>>
      /\ asked' = cursor \/ asked' = [r \in Resource |-> 0]
      /\ fetched' = Nothing /\ reply' = {} /\ pc' # "cursors"
  BY DEF PullNow, Fail, Crash, EndPull, Forget, storage, server
<1> QED BY <1>1, ForgetKeepsSafe

\* One resource's changes are read in order.
LEMMA FetchKeepsSafe ==
  ASSUME TypeInv, SafeInv, NEW r \in Resource, Fetch(r)
  PROVE  SafeInv'
<1> DEFINE after == {e \in changes : resourceOf[e.key] = r /\ e.seq > asked[r]}
           low == Lowest(after, Limit + 1)
<1>1. /\ fetched' = [fetched EXCEPT ![r] = low]
      /\ UNCHANGED <<changes, cursor, asked, reply, delivered, pc>>
      /\ pc = "fetch"
  BY DEF Fetch, storage, response, server
<1>2. Log(after) /\ Limit + 1 \in Nat
  BY LogSubset, PullAssumption DEF TypeInv, Numbered
<1>3. low \subseteq after /\ \A d \in after, e \in low : d.seq <= e.seq => d \in low
  <2> HIDE DEF after
  <2> QED BY <1>2, LowestLemma
<1> HIDE DEF low
<1>4. Closed(low, r) /\ \A e \in low : resourceOf[e.key] = r
  <2>1. asked[r] \in Nat /\ \A d \in changes : d.seq \in Nat
    BY DEF TypeInv, TypeOK, Numbered, Log
  <2>2. \A d \in changes : resourceOf[d.key] = r /\ asked[r] < d.seq => d \in after
    BY <2>1
  <2>3. low \subseteq changes /\ \A e \in low : resourceOf[e.key] = r
    BY <1>3
  <2> HIDE DEF after
  <2> QED BY <1>3, <2>2, <2>3 DEF Closed
<1>5. ASSUME NEW q \in Resource, fetched'[q] # None
      PROVE  /\ \A e \in fetched'[q] : resourceOf[e.key] = q
             /\ Closed(fetched'[q], q)
  <2>1. CASE q = r
    <3>1. CASE r \in DOMAIN fetched
      BY <1>1, <1>4, <2>1, <3>1
    <3>2. CASE r \notin DOMAIN fetched
      BY <1>1, <1>5, <2>1, <3>2 DEF SafeInv, Closed
    <3> QED BY <3>1, <3>2
  <2>2. CASE q # r
    BY <1>1, <1>5, <2>2 DEF SafeInv
  <2> QED BY <2>1, <2>2
<1> QED BY <1>1, <1>5 DEF SafeInv, Applied, Closed

\* The answer is the bottom of all that was read, so it is in order for each
\* resource.
LEMMA AnswerKeepsSafe ==
  ASSUME TypeInv, SafeInv, Answer
  PROVE  SafeInv'
<1>1. /\ \A r \in Resource : fetched[r] # None
      /\ reply' = Lowest(Found, Limit)
      /\ fetched' = Nothing
      /\ pc' = "records"
      /\ UNCHANGED <<changes, cursor, asked, delivered>>
  BY DEF Answer, Limited, storage, server
<1>2. Found \subseteq changes /\ Log(Found) /\ Limit \in Nat
  BY <1>1, FoundLemma, PullAssumption
<1>3. reply' \subseteq Found /\ \A d \in Found, e \in reply' : d.seq <= e.seq => d \in reply'
  BY <1>1, <1>2, LowestLemma
<1>4. ASSUME NEW r \in Resource, NEW d \in changes, NEW e \in reply',
             resourceOf[d.key] = r, resourceOf[e.key] = r,
             asked[r] < d.seq, d.seq <= e.seq
      PROVE  d \in reply'
  <2>1. PICK q \in Resource : e \in fetched[q]
    BY <1>3 DEF Found
  <2>2. q = r /\ Closed(fetched[r], r)
    BY <1>1, <1>4, <2>1 DEF SafeInv
  <2>3. d \in fetched[r]
    BY <1>4, <2>1, <2>2 DEF Closed
  <2>4. d \in Found
    BY <2>3 DEF Found
  <2> QED BY <1>3, <1>4, <2>4
<1>5. \A r \in Resource : Closed(reply, r)'
  BY <1>1, <1>4 DEF Closed
<1> QED BY <1>1, <1>5 DEF SafeInv, Applied, Nothing

LEMMA ApplyKeepsSafe ==
  ASSUME SafeInv, ApplyRecords \/ ApplyMerged \/ ApplyDeleted
  PROVE  SafeInv'
<1>1. /\ UNCHANGED <<changes, cursor, asked, fetched, reply>>
      /\ delivered \subseteq delivered' /\ pc # "fetch"
      /\ pc' = "cursors" => delivered' = delivered \cup {e.seq : e \in reply}
  BY DEF ApplyRecords, ApplyMerged, ApplyDeleted, server, request, response
<1> QED BY <1>1 DEF SafeInv, Applied, Closed

\* Once the answer has been applied its cursors are safe.
LEMMA AnsweredIsSafe ==
  ASSUME TypeInv, SafeInv, pc = "cursors", NEW r \in Resource
  PROVE  Applied(r, Answered(r))
<1> SUFFICES ASSUME NEW d \in changes, resourceOf[d.key] = r, d.seq <= Answered(r)
             PROVE  d.seq \in delivered
  BY DEF Applied
<1>1. asked[r] \in Nat /\ d.seq \in Nat /\ Applied(r, asked[r]) /\ Closed(reply, r)
  BY DEF SafeInv, TypeInv, TypeOK, Numbered, Log
<1>2. CASE d.seq <= asked[r]
  BY <1>1, <1>2 DEF Applied
<1>3. CASE asked[r] < d.seq
  <2>1. PICK e \in reply : resourceOf[e.key] = r /\ Answered(r) = e.seq
    BY <1>1, <1>3, AnsweredLemma
  <2>2. d \in reply
    BY <1>1, <1>3, <2>1 DEF Closed
  <2> QED BY <2>2 DEF SafeInv
<1> QED BY <1>1, <1>2, <1>3

LEMMA AdvanceKeepsSafe ==
  ASSUME TypeInv, SafeInv, NEW r \in Resource, AdvanceCursor(r)
  PROVE  SafeInv'
<1>1. /\ cursor' = [cursor EXCEPT ![r] = IF @ < Answered(r) THEN Answered(r) ELSE @]
      /\ UNCHANGED <<changes, asked, fetched, reply, delivered, pc>>
      /\ pc = "cursors"
  BY DEF AdvanceCursor, request, server
<1>2. Applied(r, Answered(r))
  BY <1>1, AnsweredIsSafe
<1>3. \A q \in Resource : Applied(q, cursor'[q])
  BY <1>1, <1>2 DEF SafeInv, TypeInv, TypeOK
<1> QED BY <1>1, <1>3 DEF SafeInv, Applied, Closed

LEMMA FinishKeepsSafe ==
  ASSUME TypeInv, SafeInv, Finish
  PROVE  SafeInv'
<1>1. UNCHANGED <<changes, cursor, delivered>> /\ pc = "cursors"
  BY DEF Finish, server
<1>2. CASE more /\ iterations < MaxIterations
  <2>1. /\ asked' = [r \in Resource |-> Answered(r)]
        /\ reply' = {} /\ pc' = "fetch" /\ UNCHANGED fetched
    BY <1>2 DEF Finish, TypeInv, TypeOK
  <2>2. \A r \in Resource : Answered(r) \in Nat /\ Applied(r, Answered(r))
    BY <1>1, AnsweredIsSafe, AnsweredLemma
  <2>3. \A r \in Resource : Applied(r, cursor[r])' /\ Applied(r, asked[r])'
    BY <1>1, <2>1, <2>2 DEF SafeInv, Applied
  <2>4. \A r \in Resource : fetched'[r] = None /\ Closed(reply, r)'
    BY <1>1, <2>1 DEF SafeInv, Closed
  <2> QED BY <2>1, <2>3, <2>4 DEF SafeInv
<1>3. CASE ~(more /\ iterations < MaxIterations)
  <2>1. /\ asked' = [r \in Resource |-> 0]
        /\ fetched' = Nothing /\ reply' = {} /\ pc' = "idle"
    BY <1>3 DEF Finish, EndPull, Forget
  <2> QED BY <1>1, <2>1, ForgetKeepsSafe
<1> QED BY <1>2, <1>3

LEMMA SafeStep ==
  ASSUME TypeInv, SafeInv, Ordered, [Next]_vars
  PROVE  SafeInv'
<1>1. CASE UNCHANGED vars
  <2>1. UNCHANGED <<changes, cursor, asked, fetched, reply, delivered, pc>>
    BY <1>1 DEF vars, server, storage, request, response
  <2> QED BY <2>1 DEF SafeInv, Applied, Closed
<1>2. ASSUME NEW w \in Writer, Commit(w) PROVE SafeInv'
  <2>1. PICK n \in Nat, e \in Entry : CommitOf(w, n, e)
    BY <1>2, CommitLemma
  <2> QED BY <2>1, CommitKeepsSafe
<1>3. CASE Step
  BY <1>3, FetchKeepsSafe, AdvanceKeepsSafe, AnswerKeepsSafe, ApplyKeepsSafe,
     FinishKeepsSafe DEF Step
<1>4. CASE PullNow \/ Fail \/ Crash
  BY <1>4, ClientKeepsSafe
<1> QED BY <1>1, <1>2, <1>3, <1>4 DEF Next

LEMMA InitSafe == Init => SafeInv
BY DEF Init, SafeInv, Applied, Closed

LEMMA SafeImplies == TypeInv /\ SafeInv => NothingSkipped
<1> SUFFICES ASSUME TypeInv, SafeInv, NEW e \in changes, e.seq <= cursor[resourceOf[e.key]]
             PROVE  e.seq \in delivered
  BY DEF NothingSkipped
<1>1. resourceOf[e.key] \in Resource
  BY PullAssumption DEF TypeInv, TypeOK, Entry
<1> QED BY <1>1 DEF SafeInv, Applied

\* While no request commits past numbers another one holds in reserve, a cursor
\* never covers a change the client has not applied: for every limit, number
\* of iterations, resource and writer, and for every failed request and
\* crash between two writes (getChangesSince, setCursorMonotonically).
THEOREM PullNothingSkipped == Spec /\ []Ordered => []NothingSkipped
BY InitType, TypeStep, InitSafe, SafeStep, SafeImplies, PTL DEF Spec

\* Requests that reserve one number at a time leave nothing in reserve.
LEMMA SingleStep ==
  ASSUME TypeInv, Reservation = {1}, \A w \in Writer : stock[w] = {}, [Next]_vars
  PROVE  \A w \in Writer : stock'[w] = {}
<1>1. CASE UNCHANGED server
  BY <1>1 DEF server
<1>2. ASSUME NEW w \in Writer, Commit(w) PROVE \A v \in Writer : stock'[v] = {}
  <2>1. /\ stock \in [Writer -> SUBSET (1 .. MaxSeq)] /\ nextSeq \in Nat
        /\ nextSeq .. nextSeq + 1 - 1 = {nextSeq}
    BY PullAssumption DEF TypeInv, TypeOK
  <2>2. PICK numbers : /\ numbers = {nextSeq}
                       /\ stock' = [stock EXCEPT ![w] = numbers \ {Min(numbers)}]
    BY <1>2, <2>1 DEF Commit
  <2>3. Min(numbers) = nextSeq
    BY <2>1, <2>2, MinIsLeast
  <2> QED BY <2>1, <2>2, <2>3
<1>3. CASE Step \/ PullNow \/ Fail \/ Crash
  <2>1. UNCHANGED server
    BY <1>3 DEF Step, PullNow, Fail, Crash, Fetch, AdvanceCursor, Answer, ApplyRecords,
                ApplyMerged, ApplyDeleted, Finish
  <2> QED BY <1>1, <2>1
<1> QED BY <1>1, <1>2, <1>3 DEF Next, vars

\* When every request writes one record, numbers commit in their order: the
\* hypothesis of PullNothingSkipped, PullConsistentAtCursor and
\* PullCaughtUpIsEqual is then a fact (takeNextServerSeq of a request of one change).
THEOREM PullSingleIsOrdered ==
  ASSUME Reservation = {1}
  PROVE  Spec => []Ordered
<1> DEFINE Spent == \A w \in Writer : stock[w] = {}
<1>1. Init => Spent
  BY DEF Init
<1>2. TypeInv /\ Spent /\ [Next]_vars => Spent'
  BY SingleStep
<1>3. Spent => Ordered
  BY DEF Ordered
<1> HIDE DEF Spent
<1> QED BY <1>1, <1>2, <1>3, InitType, TypeStep, PTL DEF Spec

\* So nothing is ever skipped then.
THEOREM PullSingleWrites ==
  ASSUME Reservation = {1}
  PROVE  Spec => []NothingSkipped
<1>1. Spec => []Ordered
  BY PullSingleIsOrdered
<1>2. Spec /\ []Ordered => []NothingSkipped
  BY PullNothingSkipped
<1> QED BY <1>1, <1>2, PTL

----------------------------------------------------------------------------
(* What the client holds. *)

About(k)     == {e \in changes : e.key = k}
Past(k, n)   == {e \in changes : e.key = k /\ e.seq <= n}
HasDelete(S) == \E e \in S : e.op = "delete"

\* A row that has every field as new as the changes in L left it, and no field
\* newer than the changes in H.
Between(row, L, H) ==
  IF row = None THEN L = {}
  ELSE /\ H # {}
       /\ \A f \in Field :
            /\ row[f] = 0 \/ \E e \in H : f \in e.fields /\ row[f] = e.seq
            /\ \A e \in L : f \in e.fields => e.seq <= row[f]

\* A record in which the changes in L are done and no others than those in H:
\* one that is deleted in H may hold anything until its deletion is done.
Holds(row, L, H) ==
  /\ HasDelete(L) => row = None
  /\ ~HasDelete(H) => Between(row, L, H)

\* A record is inserted first and deleted last, and its row and the row kept
\* with each of its changes are what the changes made of it.
Recorded ==
  /\ \A d, e \in changes : d.key = e.key =>
       /\ e.op = "insert" => e.seq <= d.seq
       /\ e.op = "delete" => d.seq <= e.seq
  /\ \A k \in Key : Holds(rows[k], About(k), About(k))
  /\ \A e \in changes : Holds(e.after, Past(e.key, e.seq), Past(e.key, e.seq))

\* What is under way lies above the cursor asked with, which is the stored one
\* until the answer's is stored.
Windowed ==
  /\ \A r \in Resource : fetched[r] # None => \A e \in fetched[r] : asked[r] < e.seq
  /\ \A e \in reply : asked[resourceOf[e.key]] < e.seq
  /\ pc \in {"fetch", "records", "merged", "deleted"} => asked = cursor
  /\ pc # "cursors" => advanced = {}
  /\ pc = "cursors" =>
       \A r \in Resource : cursor[r] = IF r \in advanced THEN Answered(r) ELSE asked[r]

\* The changes of a record that the client has applied, by cursor and, within an
\* apply, by kind.
Base(k) == Past(k, IF pc = "idle" THEN cursor[resourceOf[k]] ELSE asked[resourceOf[k]])

DoneKinds ==
  IF pc = "merged" THEN {"insert", "replace"}
  ELSE IF pc = "deleted" THEN {"insert", "replace", "merge"}
  ELSE IF pc = "cursors" THEN {"insert", "replace", "merge", "delete"}
  ELSE {}

Low(k) == Base(k) \cup Of(k, DoneKinds)

\* After a crash the local record may be ahead of the cursor.
High(k) == IF crashes = 0 THEN Low(k) ELSE About(k)

Mirrored == \A k \in Key : Holds(local[k], Low(k), High(k))

EqualInv == Recorded /\ Windowed /\ Mirrored

\* Fewer changes that must be done and more that may be.
LEMMA HoldsWeaker ==
  ASSUME NEW row, NEW L, NEW H, Holds(row, L, H), NEW K, NEW G, K \subseteq L, H \subseteq G
  PROVE  Holds(row, K, G)
BY DEF Holds, Between, HasDelete

\* The changes determine the row.
LEMMA HoldsUnique ==
  ASSUME NEW a \in Row, NEW b \in Row, NEW P, \A e \in P : e.seq \in Nat,
         Holds(a, P, P), Holds(b, P, P)
  PROVE  a = b
<1>1. CASE HasDelete(P)
  BY <1>1 DEF Holds
<1>2. CASE ~HasDelete(P)
  <2>1. Between(a, P, P) /\ Between(b, P, P)
    BY <1>2 DEF Holds
  <2>2. CASE a = None \/ b = None
    BY <2>1, <2>2 DEF Between
  <2>3. CASE a # None /\ b # None
    <3>1. a \in [Field -> Nat] /\ b \in [Field -> Nat]
      BY <2>3 DEF Row
    <3>2. ASSUME NEW f \in Field PROVE a[f] = b[f]
      <4>1. /\ a[f] \in Nat /\ b[f] \in Nat
            /\ a[f] = 0 \/ \E e \in P : f \in e.fields /\ a[f] = e.seq
            /\ b[f] = 0 \/ \E e \in P : f \in e.fields /\ b[f] = e.seq
            /\ \A e \in P : f \in e.fields => e.seq <= a[f] /\ e.seq <= b[f]
        BY <2>1, <2>3, <3>1 DEF Between
      <4>2. b[f] <= a[f]
        BY <4>1
      <4>3. a[f] <= b[f]
        BY <4>1
      <4> QED BY <4>1, <4>2, <4>3
    <3> QED BY <3>1, <3>2
  <2> QED BY <2>2, <2>3
<1> QED BY <1>1, <1>2

\* Up to the answer's cursor lies what was done before and what the answer has.
LEMMA WindowLemma ==
  ASSUME TypeInv, SafeInv, Windowed, Ops \subseteq {"insert", "merge", "delete"}, NEW k \in Key
  PROVE  /\ Past(k, Answered(resourceOf[k])) =
              Past(k, asked[resourceOf[k]])
                \cup Of(k, {"insert", "replace", "merge", "delete"})
         /\ asked[resourceOf[k]] <= Answered(resourceOf[k])
<1>r. PICK r \in Resource : r = resourceOf[k]
  BY PullAssumption
<1>1. /\ asked[r] \in Nat /\ Answered(r) \in Nat /\ reply \subseteq changes
      /\ \A e \in changes : e.seq \in Nat /\ e.op \in Ops
  BY AnsweredLemma DEF TypeInv, TypeOK, Entry
<1>2. asked[r] <= Answered(r)
  <2>1. CASE Answered(r) = asked[r]
    BY <1>1, <2>1
  <2>2. CASE \E e \in reply : resourceOf[e.key] = r /\ Answered(r) = e.seq
    BY <1>1, <2>2 DEF Windowed
  <2> QED BY <2>1, <2>2, AnsweredLemma
<1>3. ASSUME NEW d \in Past(k, Answered(r))
      PROVE  d \in Past(k, asked[r]) \/ d \in reply
  <2>1. d \in changes /\ d.key = k /\ d.seq <= Answered(r)
    BY DEF Past
  <2>2. CASE d.seq <= asked[r]
    BY <2>1, <2>2 DEF Past
  <2>3. CASE asked[r] < d.seq
    <3>1. PICK e \in reply : resourceOf[e.key] = r /\ Answered(r) = e.seq
      BY <1>1, <2>1, <2>3, AnsweredLemma
    <3> QED BY <1>r, <2>1, <2>3, <3>1 DEF SafeInv, Closed
  <2> QED BY <1>1, <2>1, <2>2, <2>3
<1>4. ASSUME NEW d \in reply, d.key = k
      PROVE  d \in Past(k, Answered(r))
  BY <1>r, <1>1, <1>4, AnsweredIsLast DEF Past
<1>5. \A d \in Past(k, asked[r]) : d \in Past(k, Answered(r))
  BY <1>1, <1>2 DEF Past
<1>6. \A d \in Past(k, Answered(r)) : d.key = k /\ d.op \in {"insert", "replace", "merge", "delete"}
  BY <1>1 DEF Past
<1>7. Past(k, Answered(r)) =
        Past(k, asked[r]) \cup Of(k, {"insert", "replace", "merge", "delete"})
  BY <1>3, <1>4, <1>5, <1>6 DEF Of
<1> QED BY <1>r, <1>2, <1>7

\* An answer's cursor is not below the cursor asked with.
LEMMA AskedBelow ==
  ASSUME TypeInv, Windowed, NEW r \in Resource
  PROVE  asked[r] <= Answered(r) /\ asked[r] \in Nat /\ Answered(r) \in Nat
<1>1. /\ asked[r] \in Nat /\ Answered(r) \in Nat /\ reply \subseteq changes
      /\ \A e \in changes : e.seq \in Nat
  BY AnsweredLemma DEF TypeInv, TypeOK, Entry
<1>2. CASE Answered(r) = asked[r]
  BY <1>1, <1>2
<1>3. CASE \E e \in reply : resourceOf[e.key] = r /\ Answered(r) = e.seq
  BY <1>1, <1>3 DEF Windowed
<1> QED BY <1>1, <1>2, <1>3, AnsweredLemma

----------------------------------------------------------------------------
(* One step of each kind preserves EqualInv. *)

\* A change above all earlier ones makes the next row.
LEMMA AfterHolds ==
  ASSUME NEW row \in Row, NEW P, Holds(row, P, P), ~HasDelete(P),
         NEW e, e.seq \in Nat, \A d \in P : d.seq \in Nat /\ d.seq < e.seq
  PROVE  Holds(After(row, e.op, e.fields, e.seq), P \cup {e}, P \cup {e})
<1> DEFINE new == After(row, e.op, e.fields, e.seq)
<1>1. Between(row, P, P)
  BY DEF Holds
<1>2. CASE e.op = "delete"
  BY <1>2 DEF Holds, HasDelete, After
<1>3. CASE e.op # "delete"
  <2>1. new = Written(row, e.fields, e.seq) /\ ~HasDelete(P \cup {e})
    BY <1>3 DEF After, HasDelete
  <2>2. row = None \/ row \in [Field -> Nat]
    BY DEF Row
  <2>3. new \in [Field -> Nat]
    BY <2>1, <2>2 DEF Written
  <2>4. new # None
    BY <2>3, PullAssumption
  <2>5. ASSUME NEW f \in Field
        PROVE  /\ new[f] = 0 \/ \E d \in P \cup {e} : f \in d.fields /\ new[f] = d.seq
               /\ \A d \in P \cup {e} : f \in d.fields => d.seq <= new[f]
    <3>1. CASE f \in e.fields
      <4>1. new[f] = e.seq
        BY <2>1, <3>1 DEF Written
      <4> HIDE DEF new
      <4> QED BY <3>1, <4>1
    <3>2. CASE f \notin e.fields /\ row = None
      <4>1. new[f] = 0 /\ P = {}
        BY <2>1, <3>2, <1>1 DEF Written, Between
      <4> HIDE DEF new
      <4> QED BY <3>2, <4>1
    <3>3. CASE f \notin e.fields /\ row # None
      <4>1. new[f] = row[f]
        BY <2>1, <3>3 DEF Written
      <4>2. /\ row[f] = 0 \/ \E d \in P : f \in d.fields /\ row[f] = d.seq
            /\ \A d \in P : f \in d.fields => d.seq <= row[f]
        BY <1>1, <3>3 DEF Between
      <4> HIDE DEF new
      <4> QED BY <3>3, <4>1, <4>2
    <3> QED BY <3>1, <3>2, <3>3
  <2> HIDE DEF new
  <2>6. Between(new, P \cup {e}, P \cup {e})
    BY <2>4, <2>5 DEF Between
  <2> QED BY <2>1, <2>6 DEF Holds, new
<1> QED BY <1>2, <1>3

\* A deleted record is not written again, and only a new one is inserted.
LEMMA AcceptedLemma ==
  ASSUME ~Reuse, Recorded, NEW e \in Entry, Accepted(e.key, e.op)
  PROVE  /\ ~HasDelete(About(e.key))
         /\ e.op = "insert" => About(e.key) = {}
<1>1. e.key \in Key /\ Holds(rows[e.key], About(e.key), About(e.key))
  BY DEF Entry, Recorded
<1>2. CASE rows[e.key] = None
  <2>1. About(e.key) = {}
    BY <1>2 DEF Accepted, About
  <2> QED BY <2>1 DEF HasDelete
<1>3. CASE rows[e.key] # None
  BY <1>1, <1>3 DEF Accepted, Holds
<1> QED BY <1>2, <1>3

\* A commit records its change and the row it makes (executeMutationOp).
LEMMA CommitKeepsRecorded ==
  ASSUME TypeInv, Ordered, ~Reuse, Recorded,
         NEW w \in Writer, NEW n \in Nat, NEW e \in Entry, CommitOf(w, n, e)
  PROVE  Recorded'
<1> DEFINE k == e.key
           P == About(k)
           row == After(rows[k], e.op, e.fields, e.seq)
<1>1. /\ changes' = changes \cup {e} /\ e.after = row
      /\ rows' = [rows EXCEPT ![k] = row]
      /\ Accepted(k, e.op)
  BY DEF CommitOf
<1>2. /\ e.seq \in Nat /\ k \in Key
      /\ rows \in [Key -> Row] /\ rows[k] \in Row
      /\ \A d \in changes : d.seq \in Nat /\ d.seq < e.seq /\ d.key \in Key
  BY CommitIsLast DEF Entry, TypeInv, TypeOK, Numbered, Log
<1>3. ~HasDelete(P) /\ (e.op = "insert" => P = {})
  BY <1>1, AcceptedLemma
<1>4. Holds(row, P \cup {e}, P \cup {e})
  <2>1. Holds(rows[k], P, P)
    BY <1>2 DEF Recorded
  <2>2. \A d \in P : d.seq \in Nat /\ d.seq < e.seq
    BY <1>2 DEF About
  <2> QED BY <1>2, <1>3, <2>1, <2>2, AfterHolds
<1>5. /\ \A j \in Key : j # k => About(j)' = About(j)
      /\ About(k)' = P \cup {e}
      /\ Past(k, e.seq)' = P \cup {e}
      /\ \A d \in changes : Past(d.key, d.seq)' = Past(d.key, d.seq)
  BY <1>1, <1>2 DEF About, Past
<1>6. ASSUME NEW c \in changes', NEW d \in changes', c.key = d.key
      PROVE  /\ d.op = "insert" => d.seq <= c.seq
             /\ d.op = "delete" => c.seq <= d.seq
  <2>1. CASE c \in changes /\ d \in changes
    BY <1>6, <2>1 DEF Recorded
  <2>2. CASE c = e /\ d \in changes
    <3>1. d \in P /\ d.seq < e.seq
      BY <1>2, <1>6, <2>2 DEF About
    <3>2. d.op # "delete"
      BY <1>3, <3>1 DEF HasDelete
    <3> QED BY <1>2, <2>2, <3>1, <3>2
  <2>3. CASE c \in changes /\ d = e
    <3>1. c \in P /\ c.seq < e.seq
      BY <1>2, <1>6, <2>3 DEF About
    <3> QED BY <1>2, <1>3, <2>3, <3>1
  <2>4. CASE c = e /\ d = e
    BY <1>2, <2>4
  <2> QED BY <1>1, <1>6, <2>1, <2>2, <2>3, <2>4
<1> HIDE DEF row, P
<1>7. ASSUME NEW j \in Key PROVE Holds(rows'[j], About(j)', About(j)')
  <2>1. CASE j = k
    BY <1>1, <1>2, <1>4, <1>5, <2>1
  <2>2. CASE j # k
    BY <1>1, <1>2, <1>5, <2>2 DEF Recorded
  <2> QED BY <2>1, <2>2
<1>8. ASSUME NEW d \in changes'
      PROVE  Holds(d.after, Past(d.key, d.seq)', Past(d.key, d.seq)')
  <2>1. CASE d = e
    BY <1>1, <1>4, <1>5, <2>1
  <2>2. CASE d \in changes
    BY <1>5, <2>2 DEF Recorded
  <2> QED BY <1>1, <2>1, <2>2
<1> QED BY <1>6, <1>7, <1>8 DEF Recorded

\* Nothing that the client is at is touched by a commit: it is above the cursors.
LEMMA CommitKeepsEqual ==
  ASSUME TypeInv, Ordered, ~Reuse, EqualInv,
         NEW w \in Writer, NEW n \in Nat, NEW e \in Entry, CommitOf(w, n, e)
  PROVE  EqualInv'
<1>1. /\ changes' = changes \cup {e}
      /\ UNCHANGED <<local, cursor, asked, fetched, reply, pc, advanced, crashes>>
  BY DEF CommitOf, storage, request, response, bounds
<1>2. /\ e.seq \in Nat
      /\ \A r \in Resource : /\ cursor[r] < e.seq /\ asked[r] < e.seq
                             /\ cursor[r] \in Nat /\ asked[r] \in Nat
  BY CommitIsLast DEF Entry, TypeInv, TypeOK
<1>3. Recorded'
  BY CommitKeepsRecorded DEF EqualInv
<1>4. Windowed'
  <2>1. \A r \in Resource : Answered(r)' = Answered(r)
    BY <1>1 DEF Answered, Newest
  <2> QED BY <1>1, <2>1 DEF EqualInv, Windowed
<1>5. Mirrored'
  <2>1. ASSUME NEW k \in Key
        PROVE  Low(k)' = Low(k) /\ High(k) \subseteq High(k)'
    <3>1. resourceOf[k] \in Resource
      BY PullAssumption
    <3>2. /\ Past(k, cursor[resourceOf[k]])' = Past(k, cursor[resourceOf[k]])
          /\ Past(k, asked[resourceOf[k]])' = Past(k, asked[resourceOf[k]])
      BY <1>1, <1>2, <3>1 DEF Past
    <3>3. Base(k)' = Base(k) /\ Of(k, DoneKinds)' = Of(k, DoneKinds)
      BY <1>1, <3>2 DEF Base, Of, DoneKinds
    <3>4. Low(k)' = Low(k)
      BY <3>3 DEF Low
    <3>5. About(k) \subseteq About(k)'
      BY <1>1 DEF About
    <3> QED BY <1>1, <3>4, <3>5 DEF High
  <2>2. ASSUME NEW k \in Key PROVE Holds(local'[k], Low(k)', High(k)')
    <3>1. Holds(local[k], Low(k), High(k))
      BY DEF EqualInv, Mirrored
    <3> QED BY <1>1, <2>1, <3>1, HoldsWeaker
  <2> QED BY <2>2 DEF Mirrored
<1> QED BY <1>3, <1>4, <1>5 DEF EqualInv

\* Steps that leave the log alone leave Recorded alone.
LEMMA RecordedStays ==
  ASSUME Recorded, UNCHANGED <<changes, rows>>
  PROVE  Recorded'
BY DEF Recorded, Holds, Between, HasDelete, About, Past

\* A step that moves neither the local records nor what is done.
LEMMA MirroredStays ==
  ASSUME Mirrored, UNCHANGED <<changes, local, crashes>>, \A k \in Key : Low(k)' = Low(k)
  PROVE  Mirrored'
<1>1. ASSUME NEW k \in Key PROVE Holds(local'[k], Low(k)', High(k)')
  <2>1. Low(k)' = Low(k) /\ High(k)' = High(k)
    BY DEF High, About
  <2>2. Holds(local[k], Low(k), High(k))
    BY DEF Mirrored
  <2> QED BY <2>1, <2>2
<1> QED BY <1>1 DEF Mirrored

\* What is done is part of the log.
LEMMA LowIsAbout ==
  ASSUME TypeInv, NEW k \in Key
  PROVE  Low(k) \subseteq About(k) /\ High(k) \subseteq About(k)
BY DEF TypeInv, TypeOK, Low, High, Base, Past, Of, About

\* Between applies everything up to the cursor is done and nothing else.
LEMMA LowBetween ==
  ASSUME Windowed, pc \in {"idle", "fetch"}, NEW k \in Key
  PROVE  Low(k) = Past(k, cursor[resourceOf[k]])
BY DEF Windowed, Low, Base, Of, DoneKinds

LEMMA PullNowKeepsEqual ==
  ASSUME TypeInv, EqualInv, PullNow
  PROVE  EqualInv'
<1>1. /\ UNCHANGED <<changes, rows, local, cursor, crashes>>
      /\ pc = "idle" /\ pc' = "fetch" /\ asked' = cursor
      /\ fetched' = Nothing /\ reply' = {} /\ advanced' = {}
  BY DEF PullNow, server, storage, bounds
<1>2. Windowed'
  BY <1>1 DEF Windowed, Nothing
<1>3. ASSUME NEW k \in Key PROVE Low(k)' = Low(k)
  BY <1>1 DEF Low, Base, Past, Of, DoneKinds
<1> QED BY <1>1, <1>2, <1>3, RecordedStays, MirroredStays DEF EqualInv

LEMMA FailKeepsEqual ==
  ASSUME TypeInv, EqualInv, Fail
  PROVE  EqualInv'
<1>1. /\ UNCHANGED <<changes, rows, local, cursor, crashes>>
      /\ pc = "fetch" /\ pc' = "idle"
      /\ fetched' = Nothing /\ reply' = {} /\ advanced' = {}
  BY DEF Fail, EndPull, Forget, server, storage
<1>2. Windowed'
  BY <1>1 DEF Windowed, Nothing
<1>3. ASSUME NEW k \in Key PROVE Low(k)' = Low(k)
  <2>1. Low(k) = Past(k, cursor[resourceOf[k]])
    BY <1>1, LowBetween DEF EqualInv
  <2>2. Low(k)' = Past(k, cursor[resourceOf[k]])
    BY <1>1 DEF Low, Base, Past, Of, DoneKinds
  <2> QED BY <2>1, <2>2
<1> QED BY <1>1, <1>2, <1>3, RecordedStays, MirroredStays DEF EqualInv

LEMMA FetchKeepsEqual ==
  ASSUME TypeInv, EqualInv, NEW r \in Resource, Fetch(r)
  PROVE  EqualInv'
<1> DEFINE after == {e \in changes : resourceOf[e.key] = r /\ e.seq > asked[r]}
           low == Lowest(after, Limit + 1)
<1>1. /\ fetched' = [fetched EXCEPT ![r] = low]
      /\ UNCHANGED <<changes, rows, local, cursor, crashes, asked, reply, advanced, pc>>
      /\ pc = "fetch"
  BY DEF Fetch, storage, response, server, bounds
<1>2. low \subseteq after
  BY DEF Lowest
<1>3. asked[r] \in Nat /\ \A e \in changes : e.seq \in Nat
  BY DEF TypeInv, TypeOK, Entry
<1>4. \A e \in low : asked[r] < e.seq
  BY <1>2, <1>3
<1> HIDE DEF low
<1>5. ASSUME NEW q \in Resource, fetched'[q] # None, NEW e \in fetched'[q]
      PROVE  asked[q] < e.seq
  <2>1. CASE q = r /\ r \in DOMAIN fetched
    BY <1>1, <1>4, <1>5, <2>1
  <2>2. CASE q # r \/ r \notin DOMAIN fetched
    <3>1. fetched'[q] = fetched[q]
      BY <1>1, <2>2
    <3> QED BY <1>5, <3>1 DEF EqualInv, Windowed
  <2> QED BY <2>1, <2>2
<1>6. Windowed'
  BY <1>1, <1>5 DEF EqualInv, Windowed
<1>7. ASSUME NEW k \in Key PROVE Low(k)' = Low(k)
  BY <1>1 DEF Low, Base, Past, Of, DoneKinds
<1> QED BY <1>1, <1>6, <1>7, RecordedStays, MirroredStays DEF EqualInv

LEMMA AnswerKeepsEqual ==
  ASSUME TypeInv, SafeInv, EqualInv, Answer
  PROVE  EqualInv'
<1>1. /\ UNCHANGED <<changes, rows, local, cursor, crashes, asked, advanced>>
      /\ pc = "fetch" /\ pc' = "records" /\ fetched' = Nothing
      /\ reply' = Lowest(Found, Limit)
      /\ \A r \in Resource : fetched[r] # None
  BY DEF Answer, Limited, storage, server, bounds
<1>2. ASSUME NEW e \in reply' PROVE asked[resourceOf[e.key]] < e.seq
  <2>1. e \in Found
    BY <1>1 DEF Lowest
  <2>2. PICK q \in Resource : e \in fetched[q]
    BY <2>1 DEF Found
  <2>3. resourceOf[e.key] = q /\ asked[q] < e.seq
    BY <1>1, <2>2 DEF SafeInv, EqualInv, Windowed
  <2> QED BY <2>3
<1>3. Windowed'
  BY <1>1, <1>2 DEF EqualInv, Windowed, Nothing
<1>4. ASSUME NEW k \in Key PROVE Low(k)' = Low(k)
  BY <1>1 DEF Low, Base, Past, Of, DoneKinds
<1> QED BY <1>1, <1>3, <1>4, RecordedStays, MirroredStays DEF EqualInv

\* The three writes of an apply leave all else alone.
LEMMA ApplyFrame ==
  ASSUME EqualInv, ApplyRecords \/ ApplyMerged \/ ApplyDeleted
  PROVE  /\ UNCHANGED <<changes, rows, cursor, asked, fetched, reply, advanced, crashes>>
         /\ asked = cursor /\ advanced = {}
         /\ \A k \in Key : /\ Base(k)' = Base(k)
                           /\ Base(k) = Past(k, asked[resourceOf[k]])
         /\ Recorded' /\ Windowed'
<1>1. /\ UNCHANGED <<changes, rows, cursor, asked, fetched, reply, advanced, crashes>>
      /\ pc \in {"records", "merged", "deleted"} /\ pc' \in {"merged", "deleted", "cursors"}
  BY DEF ApplyRecords, ApplyMerged, ApplyDeleted, server, request, response, bounds
<1>2. asked = cursor /\ advanced = {}
  BY <1>1 DEF EqualInv, Windowed
<1>3. \A k \in Key : Base(k)' = Base(k) /\ Base(k) = Past(k, asked[resourceOf[k]])
  BY <1>1 DEF Base, Past
<1>4. Windowed'
  BY <1>1, <1>2 DEF EqualInv, Windowed
<1> QED BY <1>1, <1>2, <1>3, <1>4, RecordedStays DEF EqualInv

\* What an answer has of a record lies above what was done before.
LEMMA AboveBase ==
  ASSUME TypeInv, Windowed, NEW k \in Key, NEW e \in reply, e.key = k,
         NEW d \in Past(k, asked[resourceOf[k]])
  PROVE  d.seq < e.seq /\ d \in changes /\ d.key = k
<1>1. /\ resourceOf[k] \in Resource /\ asked[resourceOf[k]] \in Nat
      /\ reply \subseteq changes /\ \A c \in changes : c.seq \in Nat
  BY PullAssumption DEF TypeInv, TypeOK, Entry
<1>2. asked[resourceOf[k]] < e.seq
  BY DEF Windowed
<1> QED BY <1>1, <1>2 DEF Past

\* A record that was inserted since the client asked was not there before.
LEMMA RecordsKeepsEqual ==
  ASSUME TypeInv, EqualInv, Ops \subseteq {"insert", "merge", "delete"}, ApplyRecords
  PROVE  EqualInv'
<1>1. /\ pc = "records" /\ pc' = "merged"
      /\ local' = [k \in Key |->
            LET full == Of(k, {"insert", "replace"})
            IN IF full = {} THEN local[k] ELSE Newest(full).after]
      /\ UNCHANGED <<changes, rows, cursor, asked, fetched, reply, advanced, crashes>>
      /\ Recorded' /\ Windowed'
  BY ApplyFrame DEF ApplyRecords
<1>2. ASSUME NEW k \in Key PROVE Holds(local'[k], Low(k)', High(k)')
  <2> DEFINE full == Of(k, {"insert", "replace"})
  <2>1. /\ Low(k) = Base(k) /\ Low(k)' = Base(k) \cup full
        /\ Base(k) = Past(k, asked[resourceOf[k]])
    BY <1>1, ApplyFrame DEF Low, Of, DoneKinds
  <2>2. CASE full = {}
    <3>1. Low(k)' = Low(k) /\ High(k)' = High(k) /\ local'[k] = local[k]
      BY <1>1, <2>1, <2>2 DEF High, About
    <3>2. Holds(local[k], Low(k), High(k))
      BY DEF EqualInv, Mirrored
    <3> QED BY <3>1, <3>2
  <2>3. CASE full # {}
    <3> DEFINE new == Newest(full)
    <3>1. \A e \in full : /\ e \in reply /\ e \in changes /\ e.key = k
                          /\ e.op = "insert" /\ e.seq \in Nat /\ e.seq <= nextSeq
      BY DEF Of, TypeInv, TypeOK, Entry, Numbered
    <3>2. new \in full
      <4>1. nextSeq \in Nat
        BY DEF TypeInv, TypeOK
      <4> HIDE DEF full
      <4> QED BY <2>3, <3>1, <4>1, NewestLemma
    <3> HIDE DEF new
    <3>3. \A d \in About(k) : new.seq <= d.seq
      BY <3>1, <3>2 DEF EqualInv, Recorded, About
    <3>4. Base(k) = {}
      <4> SUFFICES ASSUME NEW d \in Base(k) PROVE FALSE
        OBVIOUS
      <4>1. d.seq < new.seq /\ d \in About(k)
        BY <2>1, <3>1, <3>2, AboveBase DEF EqualInv, About
      <4>2. d.seq \in Nat /\ new.seq \in Nat
        BY <3>1, <3>2, <4>1 DEF About, TypeInv, TypeOK, Entry
      <4> QED BY <3>3, <4>1, <4>2
    <3>5. full = Past(k, new.seq)
      <4>1. ASSUME NEW d \in full PROVE d \in Past(k, new.seq)
        BY <3>1, <3>2, <4>1 DEF EqualInv, Recorded, Past
      <4>2. ASSUME NEW d \in Past(k, new.seq) PROVE d \in full
        <5>1. d \in changes /\ d.seq \in Nat /\ d.seq <= new.seq /\ new.seq <= d.seq
          BY <3>3 DEF Past, About, TypeInv, TypeOK, Entry
        <5>2. d = new
          BY <3>1, <3>2, <5>1 DEF TypeInv, Numbered, Log
        <5> QED BY <3>2, <5>2
      <4> QED BY <4>1, <4>2
    <3>6. Holds(new.after, full, full)
      BY <3>1, <3>2, <3>5 DEF EqualInv, Recorded
    <3>7. Low(k)' = full /\ full \subseteq High(k)'
      <4>1. Low(k)' = full
        BY <2>1, <3>4
      <4>2. full \subseteq About(k)'
        BY <1>1, <3>1 DEF About
      <4> HIDE DEF full
      <4> QED BY <4>1, <4>2 DEF High
    <3>8. local'[k] = new.after
      BY <1>1, <2>3 DEF new
    <3> HIDE DEF full
    <3> QED BY <3>6, <3>7, <3>8, HoldsWeaker
  <2> QED BY <2>2, <2>3
<1>3. Mirrored'
  BY <1>2 DEF Mirrored
<1> QED BY <1>1, <1>3 DEF EqualInv

\* The deltas since the client asked, combined, are what they made of the record.
LEMMA MergedKeepsEqual ==
  ASSUME TypeInv, EqualInv, Ops \subseteq {"insert", "merge", "delete"}, ApplyMerged
  PROVE  EqualInv'
<1>1. /\ pc = "merged" /\ pc' = "deleted"
      /\ local' = [k \in Key |->
            LET deltas == Of(k, {"merge"})
                writing(f) == {e \in deltas : f \in e.fields}
            IN IF deltas = {} THEN local[k]
               ELSE [f \in Field |->
                       IF writing(f) # {} THEN Newest(writing(f)).seq
                       ELSE IF local[k] = None THEN 0 ELSE local[k][f]]]
      /\ UNCHANGED <<changes, rows, cursor, asked, fetched, reply, advanced, crashes>>
      /\ Recorded' /\ Windowed'
  BY ApplyFrame DEF ApplyMerged
<1>2. ASSUME NEW k \in Key PROVE Holds(local'[k], Low(k)', High(k)')
  <2> DEFINE full == Of(k, {"insert", "replace"})
             deltas == Of(k, {"merge"})
             writing(f) == {e \in deltas : f \in e.fields}
  <2>1. /\ Low(k) = Base(k) \cup full /\ Low(k)' = Low(k) \cup deltas
        /\ Base(k) = Past(k, asked[resourceOf[k]])
    BY <1>1, ApplyFrame DEF Low, Of, DoneKinds
  <2>o. Holds(local[k], Low(k), High(k)) /\ local[k] \in Row
    BY DEF EqualInv, Mirrored, TypeInv, TypeOK
  <2>2. CASE deltas = {}
    <3>1. Low(k)' = Low(k) /\ High(k)' = High(k) /\ local'[k] = local[k]
      BY <1>1, <2>1, <2>2 DEF High, About
    <3> QED BY <2>o, <3>1
  <2>3. CASE deltas # {}
    <3>1. /\ \A e \in deltas : /\ e \in reply /\ e \in changes /\ e.key = k
                               /\ e.op = "merge" /\ e.seq \in Nat /\ e.seq <= nextSeq
          /\ \A e \in full : /\ e \in reply /\ e \in changes /\ e.key = k
                             /\ e.op = "insert" /\ e.seq \in Nat
          /\ nextSeq \in Nat
      BY DEF Of, TypeInv, TypeOK, Entry, Numbered
    <3>2. \A d \in Low(k), e \in deltas : d.seq < e.seq /\ d.op # "delete"
      <4> SUFFICES ASSUME NEW d \in Low(k), NEW e \in deltas
                   PROVE  d.seq < e.seq /\ d.op # "delete"
        OBVIOUS
      <4>1. CASE d \in Base(k)
        <5>1. d.seq < e.seq /\ d \in changes /\ d.key = k
          BY <2>1, <3>1, <4>1, AboveBase DEF EqualInv
        <5>2. d.op = "delete" => e.seq <= d.seq
          BY <3>1, <5>1 DEF EqualInv, Recorded
        <5>3. d.seq \in Nat
          BY <5>1 DEF TypeInv, TypeOK, Entry
        <5> QED BY <3>1, <5>1, <5>2, <5>3
      <4>2. CASE d \in full
        <5>1. d.seq <= e.seq /\ d.op = "insert" /\ d # e
          BY <3>1, <4>2 DEF EqualInv, Recorded
        <5>2. d.seq # e.seq
          BY <3>1, <4>2, <5>1 DEF TypeInv, Numbered, Log
        <5> QED BY <3>1, <4>2, <5>1, <5>2
      <4> QED BY <2>1, <4>1, <4>2
    <3>3. /\ High(k) \subseteq High(k)' /\ deltas \subseteq High(k)'
      <4>1. deltas \subseteq About(k)' /\ About(k)' = About(k)
        BY <1>1, <3>1 DEF About
      <4> HIDE DEF deltas
      <4> QED BY <1>1, <2>1, <4>1 DEF High
    <3> DEFINE new == [f \in Field |->
                         IF writing(f) # {} THEN Newest(writing(f)).seq
                         ELSE IF local[k] = None THEN 0 ELSE local[k][f]]
    <3>4. local'[k] = new
      BY <1>1, <2>3
    <3>5. ~HasDelete(Low(k)')
      BY <2>1, <2>3, <3>1, <3>2 DEF HasDelete
    <3> HIDE DEF deltas, full
    <3>6. ASSUME NEW f \in Field, writing(f) # {}
          PROVE  /\ Newest(writing(f)) \in writing(f)
                 /\ \A d \in writing(f) : d.seq <= Newest(writing(f)).seq
      <4>1. \A e \in writing(f) : e.seq \in Nat /\ e.seq <= nextSeq
        BY <3>1
      <4> HIDE DEF writing
      <4> QED BY <3>1, <3>6, <4>1, NewestLemma
    <3>7. new # None
      <4>1. ASSUME NEW f \in Field PROVE new[f] \in Nat
        <5>1. CASE writing(f) # {}
          BY <3>1, <3>6, <5>1
        <5>2. CASE writing(f) = {}
          BY <2>o, <5>2 DEF Row
        <5> QED BY <5>1, <5>2
      <4>2. new \in [Field -> Nat]
        BY <4>1
      <4> HIDE DEF new
      <4> QED BY <4>2, PullAssumption
    <3>8. ASSUME ~HasDelete(High(k)'), NEW f \in Field
          PROVE  /\ new[f] = 0 \/ \E e \in High(k)' : f \in e.fields /\ new[f] = e.seq
                 /\ \A e \in Low(k)' : f \in e.fields => e.seq <= new[f]
      <4>1. Between(local[k], Low(k), High(k))
        <5>1. ~HasDelete(High(k))
          BY <3>3, <3>8 DEF HasDelete
        <5> QED BY <2>o, <5>1 DEF Holds
      <4>2. CASE writing(f) # {}
        <5>1. PICK w \in writing(f) : /\ \A d \in writing(f) : d.seq <= w.seq
                                      /\ new[f] = w.seq
          BY <3>6, <4>2
        <5> HIDE DEF new
        <5>2. w \in High(k)' /\ f \in w.fields /\ w.seq \in Nat
          BY <3>1, <3>3
        <5>3. ASSUME NEW e \in Low(k)', f \in e.fields PROVE e.seq <= w.seq
          <6>1. CASE e \in deltas
            BY <5>1, <5>3, <6>1
          <6>2. CASE e \in Low(k)
            <7>1. e.seq < w.seq
              BY <3>2, <6>2
            <7>2. e.seq \in Nat
              BY <6>2, LowIsAbout DEF About, TypeInv, TypeOK, Entry
            <7> QED BY <5>2, <7>1, <7>2
          <6> QED BY <2>1, <5>3, <6>1, <6>2
        <5> QED BY <5>1, <5>2, <5>3
      <4>3. CASE writing(f) = {}
        <5>1. \A e \in Low(k)' : f \in e.fields => e \in Low(k)
          BY <2>1, <4>3
        <5>2. CASE local[k] = None
          <6>1. new[f] = 0 /\ Low(k) = {}
            BY <4>1, <4>3, <5>2 DEF Between
          <6> HIDE DEF new
          <6> QED BY <5>1, <6>1
        <5>3. CASE local[k] # None
          <6>1. new[f] = local[k][f]
            BY <4>3, <5>3
          <6>2. /\ local[k][f] = 0 \/ \E e \in High(k) : f \in e.fields /\ local[k][f] = e.seq
                /\ \A e \in Low(k) : f \in e.fields => e.seq <= local[k][f]
            BY <4>1, <5>3 DEF Between
          <6> HIDE DEF new
          <6> QED BY <3>3, <5>1, <6>1, <6>2
        <5> QED BY <5>2, <5>3
      <4> QED BY <4>2, <4>3
    <3> HIDE DEF new
    <3>9. ~HasDelete(High(k)') => Between(new, Low(k)', High(k)')
      BY <2>3, <3>3, <3>7, <3>8 DEF Between
    <3> QED BY <3>4, <3>5, <3>9 DEF Holds
  <2> QED BY <2>2, <2>3
<1>3. Mirrored'
  BY <1>2 DEF Mirrored
<1> QED BY <1>1, <1>3 DEF EqualInv

\* A deletion in the answer is the last change of its record.
LEMMA DeletedKeepsEqual ==
  ASSUME TypeInv, EqualInv, ApplyDeleted
  PROVE  EqualInv'
<1>1. /\ pc = "deleted" /\ pc' = "cursors"
      /\ local' = [k \in Key |-> IF Of(k, {"delete"}) = {} THEN local[k] ELSE None]
      /\ UNCHANGED <<changes, rows, cursor, asked, fetched, reply, advanced, crashes>>
      /\ Recorded' /\ Windowed'
  BY ApplyFrame DEF ApplyDeleted
<1>2. ASSUME NEW k \in Key PROVE Holds(local'[k], Low(k)', High(k)')
  <2> DEFINE gone == Of(k, {"delete"})
  <2>1. Low(k)' = Low(k) \cup gone
    BY <1>1, ApplyFrame DEF Low, Of, DoneKinds
  <2>2. CASE gone = {}
    <3>1. Low(k)' = Low(k) /\ High(k)' = High(k) /\ local'[k] = local[k]
      BY <1>1, <2>1, <2>2 DEF High, About
    <3>2. Holds(local[k], Low(k), High(k))
      BY DEF EqualInv, Mirrored
    <3> QED BY <3>1, <3>2
  <2>3. CASE gone # {}
    <3>1. local'[k] = None /\ HasDelete(Low(k)')
      BY <1>1, <2>1, <2>3 DEF HasDelete, Of
    <3>2. gone \subseteq High(k)'
      BY <1>1, <2>1 DEF High, Of, About, TypeInv, TypeOK
    <3>3. HasDelete(High(k)')
      BY <2>3, <3>2 DEF HasDelete, Of
    <3> QED BY <3>1, <3>3 DEF Holds
  <2> QED BY <2>2, <2>3
<1>3. Mirrored'
  BY <1>2 DEF Mirrored
<1> QED BY <1>1, <1>3 DEF EqualInv

LEMMA AdvanceKeepsEqual ==
  ASSUME TypeInv, EqualInv, NEW r \in Resource, AdvanceCursor(r)
  PROVE  EqualInv'
<1>1. /\ pc = "cursors" /\ r \notin advanced
      /\ cursor' = [cursor EXCEPT ![r] = IF @ < Answered(r) THEN Answered(r) ELSE @]
      /\ advanced' = advanced \cup {r}
      /\ UNCHANGED <<changes, rows, local, asked, fetched, reply, pc, crashes>>
  BY DEF AdvanceCursor, request, server, bounds
<1>2. /\ asked[r] <= Answered(r) /\ asked[r] \in Nat /\ Answered(r) \in Nat
      /\ cursor[r] = asked[r] /\ cursor \in [Resource -> Nat]
  BY <1>1, AskedBelow DEF EqualInv, Windowed, TypeInv, TypeOK
<1>3. cursor'[r] = Answered(r)
  BY <1>1, <1>2
<1>4. \A q \in Resource : cursor'[q] = IF q \in advanced' THEN Answered(q) ELSE asked[q]
  <2> SUFFICES ASSUME NEW q \in Resource
               PROVE  cursor'[q] = IF q \in advanced' THEN Answered(q) ELSE asked[q]
    OBVIOUS
  <2>1. CASE q = r
    BY <1>1, <1>3, <2>1
  <2>2. CASE q # r
    <3>1. cursor'[q] = cursor[q]
      BY <1>1, <1>2, <2>2
    <3> QED BY <1>1, <2>2, <3>1 DEF EqualInv, Windowed
  <2> QED BY <2>1, <2>2
<1>5. \A q \in Resource : Answered(q)' = Answered(q)
  BY <1>1 DEF Answered, Newest
<1>6. Windowed'
  BY <1>1, <1>4, <1>5 DEF EqualInv, Windowed
<1>7. ASSUME NEW k \in Key PROVE Low(k)' = Low(k)
  BY <1>1 DEF Low, Base, Past, Of, DoneKinds
<1> QED BY <1>1, <1>6, <1>7, RecordedStays, MirroredStays DEF EqualInv

\* What was done, at the end of an apply, is all up to the answer's cursor.
LEMMA LowAtCursors ==
  ASSUME TypeInv, SafeInv, Windowed, Ops \subseteq {"insert", "merge", "delete"},
         pc = "cursors", NEW k \in Key
  PROVE  Low(k) = Past(k, Answered(resourceOf[k]))
BY WindowLemma DEF Low, Base, DoneKinds

LEMMA FinishKeepsEqual ==
  ASSUME TypeInv, SafeInv, EqualInv, Ops \subseteq {"insert", "merge", "delete"}, Finish
  PROVE  EqualInv'
<1>1. /\ pc = "cursors" /\ advanced = Resource
      /\ UNCHANGED <<changes, rows, local, cursor, crashes>>
      /\ reply' = {} /\ advanced' = {}
      /\ pc' \in {"fetch", "idle"}
  BY DEF Finish, EndPull, Forget, server, bounds
<1>2. cursor = [r \in Resource |-> Answered(r)]
  BY <1>1 DEF EqualInv, Windowed, TypeInv, TypeOK
<1>3. /\ pc' = "fetch" => asked' = cursor
      /\ \A r \in Resource : fetched'[r] = None
  <2>1. CASE more /\ iterations < MaxIterations
    <3>1. asked' = [r \in Resource |-> Answered(r)] /\ UNCHANGED fetched
      BY <2>1 DEF Finish, TypeInv, TypeOK
    <3> QED BY <1>1, <1>2, <3>1 DEF SafeInv
  <2>2. CASE ~(more /\ iterations < MaxIterations)
    BY <2>2 DEF Finish, EndPull, Forget, Nothing
  <2> QED BY <2>1, <2>2
<1>4. Windowed'
  BY <1>1, <1>3 DEF Windowed
<1>5. ASSUME NEW k \in Key PROVE Low(k)' = Low(k)
  <2>1. Low(k) = Past(k, cursor[resourceOf[k]])
    <3>1. resourceOf[k] \in Resource
      BY PullAssumption
    <3>2. cursor[resourceOf[k]] = Answered(resourceOf[k])
      BY <1>2, <3>1
    <3> QED BY <1>1, <3>2, LowAtCursors DEF EqualInv
  <2>2. Low(k)' = Past(k, cursor[resourceOf[k]])
    BY <1>1, <1>3 DEF Low, Base, Past, Of, DoneKinds
  <2> QED BY <2>1, <2>2
<1> QED BY <1>1, <1>4, <1>5, RecordedStays, MirroredStays DEF EqualInv

\* A crash loses the pull; what it had written stays, ahead of the cursor.
LEMMA CrashKeepsEqual ==
  ASSUME TypeInv, SafeInv, EqualInv, Ops \subseteq {"insert", "merge", "delete"}, Crash
  PROVE  EqualInv'
<1>1. /\ pc # "idle" /\ pc' = "idle"
      /\ UNCHANGED <<changes, rows, local, cursor>>
      /\ crashes' = crashes + 1 /\ crashes \in Nat
      /\ fetched' = Nothing /\ reply' = {} /\ advanced' = {}
  BY DEF Crash, Forget, server, storage, TypeInv, TypeOK
<1>2. Windowed'
  BY <1>1 DEF Windowed, Nothing
<1>3. ASSUME NEW k \in Key PROVE Holds(local'[k], Low(k)', High(k)')
  <2>1. PICK r \in Resource : r = resourceOf[k]
    BY PullAssumption
  <2>2. Low(k)' = Past(k, cursor[r]) /\ High(k)' = About(k)
    BY <1>1, <2>1 DEF Low, High, About, Base, Past, Of, DoneKinds
  <2>3. Past(k, asked[r]) \subseteq Low(k)
    BY <1>1, <2>1 DEF Low, Base
  <2>4. Past(k, cursor[r]) \subseteq Low(k)
    <3>1. CASE pc = "cursors"
      <4>1. cursor[r] = Answered(r) \/ cursor[r] = asked[r]
        BY <3>1 DEF EqualInv, Windowed
      <4>2. Low(k) = Past(k, Answered(r))
        BY <2>1, <3>1, LowAtCursors DEF EqualInv
      <4> QED BY <2>3, <4>1, <4>2
    <3>2. CASE pc # "cursors"
      <4>1. asked = cursor
        BY <1>1, <3>2 DEF EqualInv, Windowed, TypeInv, TypeOK, Phase
      <4> QED BY <2>3, <4>1
    <3> QED BY <3>1, <3>2
  <2>5. Holds(local[k], Low(k), High(k)) /\ High(k) \subseteq About(k)
    BY LowIsAbout DEF EqualInv, Mirrored
  <2> QED BY <1>1, <2>2, <2>4, <2>5, HoldsWeaker
<1>4. Mirrored'
  BY <1>3 DEF Mirrored
<1> QED BY <1>1, <1>2, <1>4, RecordedStays DEF EqualInv

LEMMA EqualStep ==
  ASSUME TypeInv, SafeInv, EqualInv, Ordered, ~Reuse,
         Ops \subseteq {"insert", "merge", "delete"}, [Next]_vars
  PROVE  EqualInv'
<1>1. CASE UNCHANGED vars
  <2>1. UNCHANGED <<rows, changes, local, cursor, asked, fetched, reply, advanced, pc, crashes>>
    BY <1>1 DEF vars, server, storage, request, response, bounds
  <2>2. Windowed'
    BY <2>1 DEF EqualInv, Windowed, Answered, Newest
  <2>3. ASSUME NEW k \in Key PROVE Low(k)' = Low(k)
    BY <2>1 DEF Low, Base, Past, Of, DoneKinds
  <2> QED BY <2>1, <2>2, <2>3, RecordedStays, MirroredStays DEF EqualInv
<1>2. ASSUME NEW w \in Writer, Commit(w) PROVE EqualInv'
  <2>1. PICK n \in Nat, e \in Entry : CommitOf(w, n, e)
    BY <1>2, CommitLemma
  <2> QED BY <2>1, CommitKeepsEqual
<1>3. CASE Step
  BY <1>3, FetchKeepsEqual, AdvanceKeepsEqual, AnswerKeepsEqual, RecordsKeepsEqual,
     MergedKeepsEqual, DeletedKeepsEqual, FinishKeepsEqual DEF Step
<1>4. CASE PullNow \/ Fail \/ Crash
  BY <1>4, PullNowKeepsEqual, FailKeepsEqual, CrashKeepsEqual
<1> QED BY <1>1, <1>2, <1>3, <1>4 DEF Next

LEMMA InitEqual == Init => EqualInv
<1> SUFFICES ASSUME Init PROVE EqualInv
  OBVIOUS
<1>1. /\ changes = {} /\ reply = {} /\ advanced = {} /\ pc = "idle" /\ crashes = 0
      /\ \A k \in Key : rows[k] = None /\ local[k] = None
      /\ \A r \in Resource : fetched[r] = None
  BY DEF Init
<1>2. \A k \in Key : About(k) = {} /\ Low(k) = {} /\ High(k) = {}
  BY <1>1 DEF About, Low, High, Base, Past, Of
<1>3. Holds(None, {}, {})
  BY DEF Holds, Between, HasDelete
<1>4. Recorded
  BY <1>1, <1>2, <1>3 DEF Recorded
<1>5. Windowed
  BY <1>1 DEF Windowed
<1>6. Mirrored
  BY <1>1, <1>2, <1>3 DEF Mirrored
<1> QED BY <1>4, <1>5, <1>6 DEF EqualInv

LEMMA EqualImpliesConsistent ==
  ASSUME TypeInv, EqualInv
  PROVE  ConsistentAtCursor
<1> SUFFICES ASSUME pc \in {"idle", "fetch"}, crashes = 0, NEW k \in Key
             PROVE  local[k] = Replayed(k, cursor[resourceOf[k]])
  BY DEF ConsistentAtCursor
<1> DEFINE past == Past(k, cursor[resourceOf[k]])
<1>1. /\ resourceOf[k] \in Resource /\ cursor[resourceOf[k]] \in Nat
      /\ local[k] \in Row /\ nextSeq \in Nat
      /\ \A e \in past : /\ e \in changes /\ e.key = k /\ e.seq \in Nat
                         /\ e.seq <= nextSeq /\ e.after \in Row
                         /\ e.seq <= cursor[resourceOf[k]]
  BY PullAssumption DEF TypeInv, TypeOK, Numbered, Past, Entry
<1>2. Holds(local[k], past, past)
  BY LowBetween DEF EqualInv, Mirrored, High
<1>3. CASE past = {}
  <2>1. local[k] = None
    <3>1. Holds(None, past, past) /\ None \in Row
      BY <1>3 DEF Holds, Between, HasDelete, Row
    <3> HIDE DEF past
    <3> QED BY <1>1, <1>2, <3>1, HoldsUnique
  <2>2. Replayed(k, cursor[resourceOf[k]]) = None
    BY <1>3 DEF Replayed, Past
  <2> QED BY <2>1, <2>2
<1>4. CASE past # {}
  <2> DEFINE last == Newest(past)
  <2>1. last \in past /\ \A d \in past : d.seq <= last.seq
    <3> HIDE DEF past
    <3> QED BY <1>1, <1>4, NewestLemma
  <2>2. Replayed(k, cursor[resourceOf[k]]) = last.after
    BY <1>4 DEF Replayed, Past
  <2> HIDE DEF last
  <2>3. Past(k, last.seq) = past
    BY <1>1, <2>1 DEF Past, TypeInv, TypeOK, Entry
  <2>4. Holds(last.after, past, past)
    BY <1>1, <2>1, <2>3 DEF EqualInv, Recorded
  <2> HIDE DEF past
  <2>5. local[k] = last.after
    BY <1>1, <1>2, <2>1, <2>4, HoldsUnique
  <2> QED BY <2>2, <2>5
<1> QED BY <1>3, <1>4

LEMMA EqualImpliesEqual ==
  ASSUME TypeInv, EqualInv
  PROVE  CaughtUpIsEqual
<1> SUFFICES ASSUME pc \in {"idle", "fetch"},
                    \A e \in changes : e.seq <= cursor[resourceOf[e.key]]
             PROVE  local = rows
  BY DEF CaughtUpIsEqual
<1>1. local \in [Key -> Row] /\ rows \in [Key -> Row]
  BY DEF TypeInv, TypeOK
<1>2. ASSUME NEW k \in Key PROVE local[k] = rows[k]
  <2>1. Past(k, cursor[resourceOf[k]]) = About(k)
    BY DEF Past, About
  <2>2. Low(k) = About(k) /\ High(k) = About(k)
    BY <2>1, LowBetween DEF EqualInv, High
  <2>3. Holds(local[k], About(k), About(k)) /\ Holds(rows[k], About(k), About(k))
    BY <2>2 DEF EqualInv, Mirrored, Recorded
  <2>4. \A e \in About(k) : e.seq \in Nat
    BY DEF About, TypeInv, TypeOK, Entry
  <2> QED BY <1>1, <2>3, <2>4, HoldsUnique
<1> QED BY <1>1, <1>2

\* When records are inserted, merged and deleted for good and no request
\* commits past numbers another one holds in reserve, the local store is the
\* server's at the stored cursor after every apply: the order by kind of
\* applyPullResultCanonical gives what the order by number would.
THEOREM PullConsistentAtCursor ==
  ASSUME ~Reuse, Ops \subseteq {"insert", "merge", "delete"}
  PROVE  Spec /\ []Ordered => []ConsistentAtCursor
<1>1. TypeInv /\ SafeInv /\ EqualInv /\ Ordered /\ [Next]_vars => EqualInv'
  BY EqualStep
<1>2. TypeInv /\ EqualInv => ConsistentAtCursor
  BY EqualImpliesConsistent
<1> QED BY <1>1, <1>2, InitType, TypeStep, InitSafe, SafeStep, InitEqual, PTL DEF Spec

\* And a client whose cursors cover the log holds the server's rows, also when
\* applies were cut off between any two of their writes on the way there.
THEOREM PullCaughtUpIsEqual ==
  ASSUME ~Reuse, Ops \subseteq {"insert", "merge", "delete"}
  PROVE  Spec /\ []Ordered => []CaughtUpIsEqual
<1>1. TypeInv /\ SafeInv /\ EqualInv /\ Ordered /\ [Next]_vars => EqualInv'
  BY EqualStep
<1>2. TypeInv /\ EqualInv => CaughtUpIsEqual
  BY EqualImpliesEqual
<1> QED BY <1>1, <1>2, InitType, TypeStep, InitSafe, SafeStep, InitEqual, PTL DEF Spec
=============================================================================
