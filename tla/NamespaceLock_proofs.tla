------------------------ MODULE NamespaceLock_proofs ------------------------
(***************************************************************************)
(* For any set of calls and of namespaces, tasks of one namespace exclude  *)
(* each other and run in the order of the calls, and the registry of       *)
(* mutexes does not leak.                                                  *)
(*                                                                         *)
(* The argument.  A pending call finds its mutex registered (Registered):  *)
(* a mutex is unregistered only when it is idle, and pendingCount counts   *)
(* the pending calls exactly (Counted).  So two pending calls of one       *)
(* namespace share a mutex, and the chain of promises of one mutex orders  *)
(* them (Chained).                                                         *)
(***************************************************************************)
EXTENDS NamespaceLock, FiniteSetTheorems, TLAPS

Active(m) == {c \in Call : mutexOf[c] = m /\ Pending(c)}

\* No object is named after a call that was not made.
Fresh ==
  \A c \in Call : pc[c] = "idle" =>
    /\ adapterMap # c /\ mapOf[c] = None /\ mutexOf[c] = None
    /\ \A n \in Namespace : mutexIn[c][n] = None
    /\ pendingCount[c] = 0 /\ tail[c] = None
    /\ \A d \in Call : /\ mapOf[d] # c /\ mutexOf[d] # c /\ previous[d] # c
                       /\ tail[d] # c
                       /\ \A n \in Namespace : mutexIn[d][n] # c

\* A call that was made has its Map, its mutex and its rank.
Made ==
  /\ \A c \in Call : pc[c] # "idle" =>
       /\ mapOf[c] \in Call /\ mutexOf[c] \in Call
       /\ ns[mutexOf[c]] = ns[c]
       /\ arrival[c] < arrived
  /\ \A c, d \in Call : (c # d /\ pc[c] # "idle" /\ pc[d] # "idle")
                          => arrival[c] # arrival[d]

\* Only the Map of the adapter holds mutexes, each under its own namespace;
\* the mutex of a pending call is among them.
Registered ==
  /\ \A h \in Call, n \in Namespace : mutexIn[h][n] # None =>
       h = adapterMap /\ ns[mutexIn[h][n]] = n
  /\ \A c \in Call : Pending(c) =>
       mapOf[c] = adapterMap /\ mutexIn[mapOf[c]][ns[c]] = mutexOf[c]
  /\ \A h \in Call, n \in Namespace, c \in Call :
       mutexIn[h][n] # None /\ mutexOf[c] = mutexIn[h][n] => mapOf[c] = h

Counted ==
  \A m \in Call : IsFiniteSet(Active(m)) /\ pendingCount[m] = Cardinality(Active(m))

\* The promises of one mutex form a chain in the order of the calls.
Chained ==
  /\ \A c \in Call : pc[c] # "idle" =>
       /\ tail[mutexOf[c]] \in Call
       /\ pc[tail[mutexOf[c]]] # "idle"
       /\ mutexOf[tail[mutexOf[c]]] = mutexOf[c]
       /\ arrival[c] <= arrival[tail[mutexOf[c]]]
  /\ \A c, d \in Call :
       (pc[c] # "idle" /\ pc[d] # "idle" /\ mutexOf[c] = mutexOf[d]
          /\ arrival[d] < arrival[c])
       => /\ previous[c] \in Call
          /\ pc[previous[c]] # "idle"
          /\ mutexOf[previous[c]] = mutexOf[c]
          /\ arrival[d] <= arrival[previous[c]]
  /\ \A c \in Call : pc[c] # "idle" /\ previous[c] # None =>
       /\ pc[previous[c]] # "idle"
       /\ ns[previous[c]] = ns[c]

IInv == TypeOK /\ Fresh /\ Made /\ Registered /\ Counted /\ Chained /\ Fifo /\ NoLeak

----------------------------------------------------------------------------
\* Before the first call the inductive invariant holds.
LEMMA InitIInv == Init => IInv
<1> SUFFICES ASSUME Init PROVE IInv
  OBVIOUS
<1> USE NoneAssumption DEF Init
<1>1. TypeOK
  BY DEF TypeOK, Handle, Stage
<1>2. Fresh /\ Made /\ Registered /\ Chained /\ Fifo /\ NoLeak
  BY DEF Fresh, Made, Registered, Chained, Fifo, NoLeak, Pending, Resolved
<1>3. ASSUME NEW m \in Call PROVE Active(m) = {}
  BY DEF Active, Pending
<1>4. Counted
  BY <1>3, FS_EmptySet DEF Counted
<1> QED
  BY <1>1, <1>2, <1>4 DEF IInv

\* A new call: it joins the registered mutex of its namespace, or makes one.
LEMMA EnterIInv == ASSUME IInv, NEW c \in Call, Enter(c) PROVE IInv'
<1> USE NoneAssumption
<1>a. PICK h \in Call : h = getNamespaceMutexes(c)
  BY DEF IInv, TypeOK, Handle, getNamespaceMutexes
<1>b. PICK m \in Call : m = getMutex(c, h, ns[c])
  BY DEF IInv, TypeOK, Handle, getMutex
<1>1. /\ h \in Call /\ m \in Call /\ pc[c] = "idle" /\ ns[c] \in Namespace
      /\ h # None /\ m # None
  BY DEF IInv, TypeOK, Enter
<1>2. /\ adapterMap' = h
      /\ mutexIn' = [mutexIn EXCEPT ![h][ns[c]] = m]
      /\ mapOf' = [mapOf EXCEPT ![c] = h]
      /\ mutexOf' = [mutexOf EXCEPT ![c] = m]
      /\ pendingCount' = [pendingCount EXCEPT ![m] = @ + 1]
      /\ previous' = [previous EXCEPT ![c] = tail[m]]
      /\ tail' = [tail EXCEPT ![m] = c]
      /\ pc' = [pc EXCEPT ![c] = "waiting"]
      /\ arrival' = [arrival EXCEPT ![c] = arrived]
      /\ arrived' = arrived + 1
      /\ ns' = ns
  BY <1>a, <1>b DEF Enter
\* The mutex found is the one of the namespace, or one nobody uses yet.
<1>3. /\ m = c \/ (m = mutexIn[h][ns[c]] /\ h = adapterMap)
      /\ h = adapterMap \/ (h = c /\ adapterMap = None)
      /\ ns[m] = ns[c]
      /\ \A n \in Namespace : mutexIn[h][n] # None => h = adapterMap
  BY <1>1, <1>a, <1>b
  DEF IInv, TypeOK, Handle, getNamespaceMutexes, getMutex, Registered, Fresh
<1>4. TypeOK'
  BY <1>1, <1>2 DEF IInv, TypeOK, Handle, Stage
<1>5. Fresh'
  BY <1>1, <1>2, <1>3 DEF IInv, TypeOK, Handle, Fresh
<1>6. Made'
  BY <1>1, <1>2, <1>3 DEF IInv, TypeOK, Handle, Made
<1>7. Registered'
  <2>1. ASSUME NEW g \in Call, NEW n \in Namespace, mutexIn'[g][n] # None
        PROVE  g = adapterMap' /\ ns'[mutexIn'[g][n]] = n
    BY <1>1, <1>2, <1>3, <2>1 DEF IInv, TypeOK, Handle, Registered
  <2>2. ASSUME NEW d \in Call, Pending(d)'
        PROVE  mapOf'[d] = adapterMap' /\ mutexIn'[mapOf'[d]][ns'[d]] = mutexOf'[d]
    <3>1. CASE d = c
      BY <1>1, <1>2, <1>3, <3>1 DEF IInv, TypeOK, Handle
    <3>2. CASE d # c
      <4>1. Pending(d) /\ mapOf[d] = adapterMap /\ adapterMap \in Call
            /\ mutexIn[adapterMap][ns[d]] = mutexOf[d] /\ mutexOf[d] \in Call
        BY <1>1, <1>2, <2>2, <3>2 DEF IInv, TypeOK, Handle, Registered, Pending, Made
      <4>2. h = adapterMap
        BY <4>1, <1>3
      <4>3. ns[d] = ns[c] => m = mutexOf[d]
        BY <4>1, <4>2, <1>1, <1>b DEF getMutex
      <4> QED
        BY <4>1, <4>2, <4>3, <1>1, <1>2, <3>2 DEF IInv, TypeOK
    <3> QED
      BY <3>1, <3>2
  <2>3. ASSUME NEW g \in Call, NEW n \in Namespace, NEW d \in Call,
               mutexIn'[g][n] # None, mutexOf'[d] = mutexIn'[g][n]
        PROVE  mapOf'[d] = g
    <3>1. CASE d = c
      BY <1>1, <1>2, <1>3, <2>1, <2>3, <3>1 DEF IInv, TypeOK
    <3>2. CASE d # c /\ g = h /\ n = ns[c]
      BY <1>1, <1>2, <1>3, <2>3, <3>2 DEF IInv, TypeOK, Registered, Fresh
    <3>3. CASE d # c /\ ~(g = h /\ n = ns[c])
      BY <1>1, <1>2, <2>3, <3>3 DEF IInv, TypeOK, Registered
    <3> QED
      BY <3>1, <3>2, <3>3
  <2> QED
    BY <2>1, <2>2, <2>3 DEF Registered
<1>8. Counted'
  <2>1. Active(m)' = Active(m) \cup {c} /\ c \notin Active(m)
    BY <1>1, <1>2 DEF IInv, TypeOK, Fresh, Active, Pending
  <2>2. ASSUME NEW k \in Call, k # m PROVE Active(k)' = Active(k)
    BY <1>1, <1>2, <2>2 DEF IInv, TypeOK, Fresh, Active, Pending
  <2>3. ASSUME NEW k \in Call
        PROVE  IsFiniteSet(Active(k)') /\ pendingCount'[k] = Cardinality(Active(k)')
    <3>1. IsFiniteSet(Active(k)) /\ pendingCount[k] = Cardinality(Active(k))
      BY DEF IInv, Counted
    <3>2. CASE k = m
      <4>1. /\ IsFiniteSet(Active(m) \cup {c})
            /\ Cardinality(Active(m) \cup {c}) = Cardinality(Active(m)) + 1
        BY <3>1, <3>2, <2>1, FS_AddElement
      <4>2. pendingCount'[m] = pendingCount[m] + 1
        BY <1>1, <1>2 DEF IInv, TypeOK
      <4> QED
        BY <4>1, <4>2, <3>1, <3>2, <2>1
    <3>3. CASE k # m
      BY <3>1, <3>3, <2>2, <1>1, <1>2 DEF IInv, TypeOK
    <3> QED
      BY <3>2, <3>3
  <2> QED
    BY <2>3 DEF Counted
<1>9. Chained'
  <2>1. ASSUME NEW d \in Call, pc'[d] # "idle"
        PROVE  /\ tail'[mutexOf'[d]] \in Call
               /\ pc'[tail'[mutexOf'[d]]] # "idle"
               /\ mutexOf'[tail'[mutexOf'[d]]] = mutexOf'[d]
               /\ arrival'[d] <= arrival'[tail'[mutexOf'[d]]]
    BY <1>1, <1>2, <2>1 DEF IInv, TypeOK, Handle, Chained, Made, Fresh
  <2>2. ASSUME NEW a \in Call, NEW d \in Call, pc'[a] # "idle", pc'[d] # "idle",
               mutexOf'[a] = mutexOf'[d], arrival'[d] < arrival'[a]
        PROVE  /\ previous'[a] \in Call
               /\ pc'[previous'[a]] # "idle"
               /\ mutexOf'[previous'[a]] = mutexOf'[a]
               /\ arrival'[d] <= arrival'[previous'[a]]
    BY <1>1, <1>2, <2>2 DEF IInv, TypeOK, Handle, Chained, Made, Fresh
  <2>3. tail[m] # None => pc[tail[m]] # "idle" /\ ns[tail[m]] = ns[c]
    <3>1. CASE m = c
      BY <1>1, <3>1 DEF IInv, Fresh
    <3>2. CASE m # c
      <4>1. m = mutexIn[h][ns[c]]
        BY <1>3, <3>2
      <4>2. PICK d \in Call : mutexOf[d] = m /\ ns[d] = ns[c] /\ pc[d] # "idle"
        BY <4>1, <1>1 DEF IInv, NoLeak
      <4>3. /\ tail[m] \in Call /\ pc[tail[m]] # "idle" /\ mutexOf[tail[m]] = m
        BY <4>2 DEF IInv, Chained
      <4> QED
        BY <4>3, <1>3 DEF IInv, Made
    <3> QED
      BY <3>1, <3>2
  <2>4. ASSUME NEW d \in Call, pc'[d] # "idle", previous'[d] # None
        PROVE  pc'[previous'[d]] # "idle" /\ ns'[previous'[d]] = ns'[d]
    <3>1. CASE d = c
      BY <1>1, <1>2, <2>3, <2>4, <3>1 DEF IInv, TypeOK, Handle
    <3>2. CASE d # c
      BY <1>1, <1>2, <2>4, <3>2 DEF IInv, TypeOK, Handle, Chained
    <3> QED
      BY <3>1, <3>2
  <2> QED
    BY <2>1, <2>2, <2>4 DEF Chained
<1>10. Fifo'
  BY <1>1, <1>2 DEF IInv, TypeOK, Made, Fifo, Resolved
<1>11. NoLeak'
  <2>1. ASSUME NEW g \in Call, NEW n \in Namespace, mutexIn'[g][n] # None
        PROVE  \E d \in Call : /\ mutexOf'[d] = mutexIn'[g][n]
                               /\ ns'[d] = n
                               /\ pc'[d] \notin {"idle", "done"}
    <3>1. CASE g = h /\ n = ns[c]
      BY <1>1, <1>2, <3>1 DEF IInv, TypeOK
    <3>2. CASE ~(g = h /\ n = ns[c])
      <4>1. mutexIn'[g][n] = mutexIn[g][n]
        BY <1>1, <1>2, <3>2 DEF IInv, TypeOK
      <4>2. PICK d \in Call : /\ mutexOf[d] = mutexIn[g][n] /\ ns[d] = n
                              /\ pc[d] \notin {"idle", "done"}
        BY <4>1, <2>1 DEF IInv, NoLeak
      <4>3. d # c
        BY <4>2, <1>1
      <4> QED
        BY <4>1, <4>2, <4>3, <1>2 DEF IInv, TypeOK
    <3> QED
      BY <3>1, <3>2
  <2>2. \E n \in Namespace : mutexIn'[adapterMap'][n] # None
    BY <1>1, <1>2 DEF IInv, TypeOK
  <2> QED
    BY <2>1, <2>2 DEF NoLeak
<1> QED
  BY <1>4, <1>5, <1>6, <1>7, <1>8, <1>9, <1>10, <1>11 DEF IInv

\* The task starts: every earlier call of its namespace has ended its task.
LEMMA StartIInv == ASSUME IInv, NEW c \in Call, Start(c) PROVE IInv'
<1>1. /\ pc[c] = "waiting" /\ pc' = [pc EXCEPT ![c] = "running"]
      /\ previous[c] # None => Resolved(previous[c])
      /\ UNCHANGED <<registry, mutexes, locals, history>>
  BY DEF Start
<1> USE <1>1, NoneAssumption DEF IInv, registry, mutexes, locals, history
<1>2. TypeOK' /\ Fresh' /\ Made' /\ NoLeak'
  BY DEF TypeOK, Stage, Fresh, Made, NoLeak
<1>3. Registered' /\ Chained'
  BY DEF TypeOK, Registered, Chained, Pending
<1>4. ASSUME NEW m \in Call PROVE Active(m)' = Active(m)
  BY DEF TypeOK, Active, Pending
<1>5. Counted'
  BY <1>4 DEF Counted
<1>6. Fifo'
  <2>1. SUFFICES ASSUME NEW a \in Call, NEW d \in Call, ns[a] = ns[d],
                        pc[a] # "idle", arrival[a] < arrival[d],
                        pc'[d] = "running" \/ Resolved(d)'
                 PROVE  Resolved(a)'
    BY DEF Fifo, TypeOK
  <2>2. CASE d # c
    BY <2>1, <2>2 DEF Fifo, TypeOK, Resolved
  <2>3. CASE d = c
    <3>1. a # c
      BY <2>1, <2>3 DEF TypeOK
    <3>2. SUFFICES ASSUME Pending(a) PROVE FALSE
      BY <2>1, <3>1 DEF TypeOK, Stage, Resolved, Pending
    <3>3. mutexOf[a] = mutexOf[c] /\ Pending(c)
      BY <2>1, <2>3, <3>2 DEF Registered, Pending
    <3>4. /\ previous[c] \in Call /\ pc[previous[c]] # "idle"
          /\ arrival[a] <= arrival[previous[c]]
      BY <2>1, <2>3, <3>3 DEF Chained, Pending
    <3>5. Resolved(previous[c]) /\ ns[previous[c]] = ns[c]
      BY <3>4, <3>3 DEF Chained, Pending
    <3>6. a # previous[c]
      BY <3>2, <3>5 DEF Pending, Resolved
    <3>7. arrival[a] # arrival[previous[c]]
      BY <2>1, <3>4, <3>6 DEF Made
    <3>8. arrival[a] \in Nat /\ arrival[previous[c]] \in Nat
      BY <3>4 DEF TypeOK
    <3>9. arrival[a] < arrival[previous[c]]
      BY <3>4, <3>7, <3>8
    <3>10. Resolved(a)
      BY <2>1, <2>3, <3>4, <3>5, <3>9 DEF Fifo
    <3> QED
      BY <3>2, <3>10 DEF Pending, Resolved
  <2> QED
    BY <2>2, <2>3
<1> QED
  BY <1>2, <1>3, <1>5, <1>6

\* The task ends: one pending call less, and its promise is resolved.
LEMMA ReleaseIInv == ASSUME IInv, NEW c \in Call, Release(c) PROVE IInv'
<1>m. PICK m \in Call : m = mutexOf[c]
  BY DEF Release, IInv, Made
<1>1. /\ pc[c] = "running" /\ pc' = [pc EXCEPT ![c] = "released"]
      /\ pendingCount' = [pendingCount EXCEPT ![m] = @ - 1]
      /\ UNCHANGED <<registry, tail, locals, history>>
  BY <1>m DEF Release
<1> USE <1>1, NoneAssumption DEF IInv, registry, locals, history
<1>2. Active(m)' = Active(m) \ {c} /\ c \in Active(m)
  BY <1>m DEF TypeOK, Active, Pending
<1>3. ASSUME NEW k \in Call, k # m PROVE Active(k)' = Active(k)
  BY <1>m, <1>3 DEF TypeOK, Active, Pending
<1>4. /\ IsFiniteSet(Active(m)) /\ pendingCount[m] = Cardinality(Active(m))
      /\ IsFiniteSet(Active(m)') /\ Cardinality(Active(m)') = pendingCount[m] - 1
      /\ Cardinality(Active(m)') \in Nat
  BY <1>2, FS_RemoveElement, FS_CardinalityType DEF Counted
<1>5. TypeOK'
  BY <1>4 DEF TypeOK, Stage
<1>6. Fresh' /\ Made' /\ NoLeak'
  <2>1. Fresh'
    BY <1>m DEF TypeOK, Fresh
  <2>2. Made'
    BY DEF TypeOK, Made
  <2>3. NoLeak'
    BY DEF TypeOK, NoLeak
  <2> QED
    BY <2>1, <2>2, <2>3
<1>7. Registered' /\ Chained'
  BY DEF TypeOK, Registered, Chained, Pending
<1>8. Counted'
  BY <1>3, <1>4 DEF Counted, TypeOK
<1>9. Fifo'
  BY DEF TypeOK, Fifo, Resolved
<1> QED
  BY <1>5, <1>6, <1>7, <1>8, <1>9

\* The finally callback: a mutex is unregistered only when no call is
\* pending on it.
LEMMA FinallyIInv == ASSUME IInv, NEW c \in Call, Finally(c) PROVE IInv'
<1> DEFINE m == mutexOf[c]
           h == mapOf[c]
<1>1. /\ pc[c] = "released" /\ pc' = [pc EXCEPT ![c] = "done"]
      /\ UNCHANGED <<mutexes, locals, history>>
      /\ m \in Call /\ h \in Call /\ ns[c] \in Namespace
  BY DEF Finally, IInv, Made, TypeOK
<1>2. \/ ~MayUnregister(c) /\ UNCHANGED registry
      \/ /\ MayUnregister(c)
         /\ mutexIn' = [mutexIn EXCEPT ![h][ns[c]] = None]
         /\ adapterMap' = IF \A n \in Namespace : mutexIn'[h][n] = None
                          THEN None ELSE adapterMap
  BY DEF Finally
<1>3. TypeOK'
  <2>1. mutexIn' \in [Call -> [Namespace -> Handle]] /\ adapterMap' \in Handle
    <3>1. CASE ~MayUnregister(c)
      BY <1>2, <3>1 DEF IInv, TypeOK, registry
    <3>2. CASE MayUnregister(c)
      <4>1. mutexIn' = [mutexIn EXCEPT ![h][ns[c]] = None]
        BY <1>2, <3>2
      <4>2. mutexIn' \in [Call -> [Namespace -> Handle]]
        BY <1>1, <4>1 DEF IInv, TypeOK, Handle
      <4>3. adapterMap' = None \/ adapterMap' = adapterMap
        BY <1>2, <3>2
      <4> QED
        BY <4>2, <4>3 DEF IInv, TypeOK, Handle
    <3> QED
      BY <3>1, <3>2
  <2>2. pc' \in [Call -> Stage]
    BY <1>1 DEF IInv, TypeOK, Stage
  <2> QED
    BY <1>1, <2>1, <2>2 DEF IInv, TypeOK, mutexes, locals, history
<1>4. ASSUME NEW k \in Call PROVE Active(k)' = Active(k)
  BY <1>1 DEF IInv, TypeOK, Active, Pending, locals
<1>5. Counted'
  BY <1>1, <1>4 DEF IInv, Counted, mutexes
<1>6. Made' /\ Chained'
  BY <1>1 DEF IInv, TypeOK, Made, Chained, mutexes, locals, history
<1>7. Fifo'
  BY <1>1 DEF IInv, TypeOK, Fifo, Resolved, locals, history
<1>8. CASE ~MayUnregister(c)
  <2>1. adapterMap' = adapterMap /\ mutexIn' = mutexIn
    BY <1>2, <1>8 DEF registry
  <2>2. Fresh' /\ Registered'
    BY <1>1, <2>1 DEF IInv, TypeOK, Fresh, Registered, Pending, mutexes, locals
  <2>3. ASSUME NEW g \in Call, NEW n \in Namespace, mutexIn[g][n] # None
        PROVE  \E d \in Call : /\ mutexOf[d] = mutexIn[g][n]
                               /\ ns[d] = n
                               /\ pc'[d] \notin {"idle", "done"}
    <3>1. PICK d \in Call : /\ mutexOf[d] = mutexIn[g][n] /\ ns[d] = n
                            /\ pc[d] \notin {"idle", "done"}
      BY <2>3 DEF IInv, NoLeak
    <3>2. CASE d # c
      BY <1>1, <3>1, <3>2 DEF IInv, TypeOK
    <3>3. CASE d = c
      <4>1. \E k \in Call : Pending(k) /\ mutexOf[k] = m
        <5>1. mutexIn[g][n] = m /\ ns[m] = n /\ g = adapterMap
          BY <2>3, <3>1, <3>3 DEF IInv, Registered, m
        <5>2. CASE h = adapterMap
          <6>1. pendingCount[m] # 0
            BY <1>8, <5>1, <5>2, <3>1, <3>3 DEF MayUnregister, isIdle, m, h
          <6>2. Active(m) # {}
            BY <6>1, <1>1, FS_EmptySet DEF IInv, Counted
          <6> QED
            BY <6>2 DEF Active
        <5>3. CASE h # adapterMap
          BY <5>1, <5>3, <1>1, <2>3, <3>1, <3>3 DEF IInv, Registered, m, h
        <5> QED
          BY <5>2, <5>3
      <4>2. PICK k \in Call : Pending(k) /\ mutexOf[k] = m
        BY <4>1
      <4>3. ns[k] = n /\ k # c
        BY <4>2, <3>1, <3>3, <1>1 DEF IInv, Made, Pending, m
      <4> QED
        BY <4>2, <4>3, <3>1, <3>3, <1>1 DEF IInv, TypeOK, Pending, m
    <3> QED
      BY <3>2, <3>3
  <2>4. NoLeak'
    BY <1>1, <2>1, <2>3 DEF IInv, NoLeak, locals
  <2> QED
    BY <1>3, <1>5, <1>6, <1>7, <2>2, <2>4 DEF IInv
<1>9. CASE MayUnregister(c)
  <2>1. /\ mutexIn[h][ns[c]] = m /\ pendingCount[m] = 0
        /\ mutexIn' = [mutexIn EXCEPT ![h][ns[c]] = None]
        /\ adapterMap' = IF \A n \in Namespace : mutexIn'[h][n] = None
                         THEN None ELSE adapterMap
        /\ h = adapterMap
    BY <1>1, <1>2, <1>9, NoneAssumption DEF MayUnregister, isIdle, IInv, Registered
  <2>2. \A d \in Call : Pending(d) => mutexOf[d] # m /\ ns[d] # ns[c]
    <3>1. Active(m) = {}
      BY <2>1, <1>1, FS_EmptySet DEF IInv, Counted
    <3> QED
      BY <3>1, <2>1, <1>1 DEF Active, IInv, Registered
  <2>3. Fresh'
    BY <1>1, <2>1, NoneAssumption DEF IInv, TypeOK, Handle, Fresh, mutexes, locals
  <2>4. Registered'
    <3>1. ASSUME NEW g \in Call, NEW n \in Namespace, mutexIn'[g][n] # None
          PROVE  g = adapterMap' /\ ns'[mutexIn'[g][n]] = n
      BY <1>1, <2>1, <3>1 DEF IInv, TypeOK, Registered, locals
    <3>2. ASSUME NEW d \in Call, Pending(d)'
          PROVE  mapOf'[d] = adapterMap' /\ mutexIn'[mapOf'[d]][ns'[d]] = mutexOf'[d]
      <4>1. /\ Pending(d) /\ mapOf[d] = h /\ mutexIn[h][ns[d]] = mutexOf[d]
            /\ mutexOf[d] \in Call /\ ns[d] \in Namespace /\ ns[d] # ns[c]
        BY <1>1, <2>1, <2>2, <3>2 DEF IInv, TypeOK, Registered, Made, Pending
      <4>2. mutexIn'[h][ns[d]] = mutexOf[d] /\ mutexOf[d] # None
        BY <4>1, <2>1, <1>1, NoneAssumption DEF IInv, TypeOK
      <4> QED
        BY <4>1, <4>2, <2>1, <1>1 DEF locals
    <3>3. ASSUME NEW g \in Call, NEW n \in Namespace, NEW d \in Call,
                 mutexIn'[g][n] # None, mutexOf'[d] = mutexIn'[g][n]
          PROVE  mapOf'[d] = g
      BY <1>1, <2>1, <3>3 DEF IInv, TypeOK, Registered, locals
    <3> QED
      BY <3>1, <3>2, <3>3 DEF Registered
  <2>5. NoLeak'
    <3>1. ASSUME NEW g \in Call, NEW n \in Namespace, mutexIn'[g][n] # None
          PROVE  \E d \in Call : /\ mutexOf[d] = mutexIn'[g][n]
                                 /\ ns[d] = n
                                 /\ pc'[d] \notin {"idle", "done"}
      <4>1. mutexIn'[g][n] = mutexIn[g][n] /\ g = h /\ n # ns[c]
        BY <3>1, <2>1, <1>1 DEF IInv, TypeOK, Registered
      <4>2. PICK d \in Call : /\ mutexOf[d] = mutexIn[g][n] /\ ns[d] = n
                              /\ pc[d] \notin {"idle", "done"}
        BY <3>1, <4>1 DEF IInv, NoLeak
      <4> QED
        BY <4>1, <4>2, <1>1 DEF IInv, TypeOK
    <3>2. adapterMap' # None => \E n \in Namespace : mutexIn'[adapterMap'][n] # None
      BY <2>1
    <3> QED
      BY <3>1, <3>2, <1>1 DEF NoLeak, locals
  <2> QED
    BY <1>3, <1>5, <1>6, <1>7, <2>3, <2>4, <2>5 DEF IInv
<1> QED
  BY <1>8, <1>9

\* The inductive invariant is a matter of the variables of NamespaceLock
\* only.
LEMMA StutterIInv == ASSUME IInv, UNCHANGED vars PROVE IInv'
<1>1. UNCHANGED <<adapterMap, mutexIn, pendingCount, tail, pc, ns, mapOf, mutexOf,
                  previous, arrival, arrived>>
  BY DEF vars, registry, mutexes, locals, history
<1>2. ASSUME NEW m \in Call PROVE Active(m)' = Active(m)
  BY <1>1 DEF Active, Pending
<1>3. Counted'
  BY <1>1, <1>2 DEF IInv, Counted
<1>4. TypeOK' /\ Fresh' /\ Made' /\ Registered' /\ Chained' /\ Fifo' /\ NoLeak'
  BY <1>1 DEF IInv, TypeOK, Fresh, Made, Registered, Chained, Fifo, NoLeak, Pending, Resolved
<1> QED
  BY <1>3, <1>4 DEF IInv

\* The inductive invariant holds in every reachable state.
THEOREM Invariance == Spec => []IInv
<1>1. IInv /\ [Next]_vars => IInv'
  BY EnterIInv, StartIInv, ReleaseIInv, FinallyIInv, StutterIInv DEF Next
<1> QED
  BY InitIInv, <1>1, PTL DEF Spec

\* The registry, the mutexes and the calls keep their types; pendingCount, which
\* the finally block counts down, is never negative.
THEOREM LockTypeOK == Spec => []TypeOK
<1>1. IInv => TypeOK
  BY DEF IInv
<1> QED
  BY Invariance, <1>1, PTL

\* withAdapterNamespaceLock starts the tasks of one namespace in the order
\* of the calls, each after the end of the ones before it.
THEOREM FifoTheorem == Spec => []Fifo
<1>1. IInv => Fifo
  BY DEF IInv
<1> QED
  BY Invariance, <1>1, PTL

\* withAdapterNamespaceLock never runs two tasks of one namespace at once.
THEOREM MutualExclusionTheorem == Spec => []MutualExclusion
<1>1. ASSUME IInv PROVE MutualExclusion
  <2>1. SUFFICES ASSUME NEW c \in Call, NEW d \in Call, c # d, ns[c] = ns[d],
                        pc[c] = "running", pc[d] = "running"
                 PROVE  FALSE
    BY DEF MutualExclusion
  <2>2. arrival[c] \in Nat /\ arrival[d] \in Nat /\ arrival[c] # arrival[d]
    BY <1>1, <2>1 DEF IInv, Made, TypeOK
  <2>3. arrival[c] < arrival[d] \/ arrival[d] < arrival[c]
    BY <2>2
  <2> QED
    BY <1>1, <2>1, <2>3 DEF IInv, Fifo, Resolved
<1> QED
  BY Invariance, <1>1, PTL

\* The finally callback leaves no mutex behind that no call uses.
THEOREM NoLeakTheorem == Spec => []NoLeak
<1>1. IInv => NoLeak
  BY DEF IInv
<1> QED
  BY Invariance, <1>1, PTL
=============================================================================
