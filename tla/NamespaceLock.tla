--------------------------- MODULE NamespaceLock ---------------------------
(***************************************************************************)
(* The in-process lock that serialises sequence allocation:                *)
(* datafn/server/src/execution/sync/namespace-lock.ts.                     *)
(*                                                                         *)
(* withAdapterNamespaceLock looks a mutex up in two levels of maps, both   *)
(* created on demand and both removed again by a callback that runs some   *)
(* time after the mutex was released.  An AsyncMutex is a chain of         *)
(* promises: each caller waits for the promise of the caller before it.    *)
(*                                                                         *)
(* JavaScript runs to completion between two awaits, so the code between   *)
(* two awaits is one action.  Objects are named after the call that made   *)
(* them: a call makes at most one Map and at most one AsyncMutex, and the  *)
(* promise a caller resolves on release is named after the caller.         *)
(* One adapter is modelled; adapters share no state.                       *)
(***************************************************************************)
EXTENDS Naturals, FiniteSets

CONSTANTS Call,       \* calls of withAdapterNamespaceLock
          Namespace,  \* the namespaces they lock
          None        \* absent map entry, and the already resolved promise

ASSUME NoneAssumption == None \notin Call

VARIABLES
  adapterMap,    \* adapterNamespaceMutexes.get(adapter)
  mutexIn,       \* mutexIn[h][n]: what Map object h holds for namespace n
  pendingCount,  \* AsyncMutex.pendingCount, of each mutex object
  tail,          \* AsyncMutex.tail, of each mutex object
  pc,            \* where each call is
  ns,            \* the namespace argument of each call
  mapOf,         \* the call's local namespaceMutexes
  mutexOf,       \* the call's local mutex
  previous,      \* the call's local previous
  arrival,       \* history: the rank of each call in the order of the calls
  arrived        \* history: how many calls were made

registry == <<adapterMap, mutexIn>>
mutexes  == <<pendingCount, tail>>
locals   == <<ns, mapOf, mutexOf, previous>>
history  == <<arrival, arrived>>
vars     == <<registry, mutexes, pc, locals, history>>

Handle == Call \cup {None}
Stage  == {"idle", "waiting", "running", "released", "done"}

\* A call that counts in pendingCount.
Pending(c)  == pc[c] \in {"waiting", "running"}
\* A call whose promise is resolved.
Resolved(c) == pc[c] \in {"released", "done"}

TypeOK ==
  /\ adapterMap \in Handle
  /\ mutexIn \in [Call -> [Namespace -> Handle]]
  /\ pendingCount \in [Call -> Nat]
  /\ tail \in [Call -> Handle]
  /\ pc \in [Call -> Stage]
  /\ ns \in [Call -> Namespace]
  /\ mapOf \in [Call -> Handle]
  /\ mutexOf \in [Call -> Handle]
  /\ previous \in [Call -> Handle]
  /\ arrival \in [Call -> Nat]
  /\ arrived \in Nat

----------------------------------------------------------------------------
Init ==
  /\ adapterMap = None
  /\ mutexIn = [h \in Call |-> [n \in Namespace |-> None]]
  /\ pendingCount = [m \in Call |-> 0]
  /\ tail = [m \in Call |-> None]
  /\ pc = [c \in Call |-> "idle"]
  /\ ns \in [Call -> Namespace]
  /\ mapOf = [c \in Call |-> None]
  /\ mutexOf = [c \in Call |-> None]
  /\ previous = [c \in Call |-> None]
  /\ arrival = [c \in Call |-> 0]
  /\ arrived = 0

\* The Map of the adapter, made on demand.
getNamespaceMutexes(c) == IF adapterMap = None THEN c ELSE adapterMap

\* The mutex of namespace n in Map h, made on demand.
getMutex(c, h, n) == IF mutexIn[h][n] = None THEN c ELSE mutexIn[h][n]

\* Mutant: the tail is replaced before it is read.
EnterOwnTail(c) ==
  LET h == getNamespaceMutexes(c)
      m == getMutex(c, h, ns[c])
  IN /\ pc[c] = "idle"
     /\ adapterMap' = h
     /\ mutexIn' = [mutexIn EXCEPT ![h][ns[c]] = m]
     /\ mapOf' = [mapOf EXCEPT ![c] = h]
     /\ mutexOf' = [mutexOf EXCEPT ![c] = m]
     /\ pendingCount' = [pendingCount EXCEPT ![m] = @ + 1]
     /\ previous' = [previous EXCEPT ![c] = c]
     /\ tail' = [tail EXCEPT ![m] = c]
     /\ pc' = [pc EXCEPT ![c] = "waiting"]
     /\ arrival' = [arrival EXCEPT ![c] = arrived]
     /\ arrived' = arrived + 1
     /\ UNCHANGED ns

\* The synchronous part of a call: look up or make the mutex, count, and
\* join the chain of promises; then await the previous caller's promise.
Enter(c) ==
  LET h == getNamespaceMutexes(c)
      m == getMutex(c, h, ns[c])
  IN /\ pc[c] = "idle"
     /\ adapterMap' = h
     /\ mutexIn' = [mutexIn EXCEPT ![h][ns[c]] = m]
     /\ mapOf' = [mapOf EXCEPT ![c] = h]
     /\ mutexOf' = [mutexOf EXCEPT ![c] = m]
     /\ pendingCount' = [pendingCount EXCEPT ![m] = @ + 1]
     /\ previous' = [previous EXCEPT ![c] = tail[m]]
     /\ tail' = [tail EXCEPT ![m] = c]
     /\ pc' = [pc EXCEPT ![c] = "waiting"]
     /\ arrival' = [arrival EXCEPT ![c] = arrived]
     /\ arrived' = arrived + 1
     /\ UNCHANGED ns

\* await previous returns: the task starts.
Start(c) ==
  /\ pc[c] = "waiting"
  /\ previous[c] # None => Resolved(previous[c])
  /\ pc' = [pc EXCEPT ![c] = "running"]
  /\ UNCHANGED <<registry, mutexes, locals, history>>

\* Mutant: the count is taken down on the error path and again in finally.
ReleaseTwice(c) ==
  /\ pc[c] = "running"
  /\ pendingCount' = [pendingCount EXCEPT ![mutexOf[c]] = @ - 2]
  /\ pc' = [pc EXCEPT ![c] = "released"]
  /\ UNCHANGED <<registry, tail, locals, history>>

\* The task settled, by returning or by throwing: the finally block of
\* runExclusive counts down and resolves the caller's promise.
Release(c) ==
  /\ pc[c] = "running"
  /\ pendingCount' = [pendingCount EXCEPT ![mutexOf[c]] = @ - 1]
  /\ pc' = [pc EXCEPT ![c] = "released"]
  /\ UNCHANGED <<registry, tail, locals, history>>

isIdle(m) == pendingCount[m] = 0

\* Mutants of the cleanup: no test that the registered mutex is this one; no
\* test that it is idle; the count taken one too high.
UnregisterUnchecked(c) == isIdle(mutexOf[c])
UnregisterBusy(c)      == mutexIn[mapOf[c]][ns[c]] = mutexOf[c]
UnregisterNever(c)     == /\ pendingCount[mutexOf[c]] = 1
                          /\ mutexIn[mapOf[c]][ns[c]] = mutexOf[c]

\* The condition under which the finally callback unregisters its mutex.
MayUnregister(c) ==
  /\ isIdle(mutexOf[c])
  /\ mutexIn[mapOf[c]][ns[c]] = mutexOf[c]

\* The callback given to runExclusive(task).finally, some microtasks later.
Finally(c) ==
  /\ pc[c] = "released"
  /\ pc' = [pc EXCEPT ![c] = "done"]
  /\ \/ /\ ~MayUnregister(c)
        /\ UNCHANGED registry
     \/ /\ MayUnregister(c)
        /\ mutexIn' = [mutexIn EXCEPT ![mapOf[c]][ns[c]] = None]
        /\ adapterMap' = IF \A n \in Namespace : mutexIn'[mapOf[c]][n] = None
                         THEN None ELSE adapterMap
  /\ UNCHANGED <<mutexes, locals, history>>

Next == \E c \in Call : Enter(c) \/ Start(c) \/ Release(c) \/ Finally(c)

\* The event loop runs every continuation that is ready, and a task settles.
Fairness == \A c \in Call : WF_vars(Start(c) \/ Release(c) \/ Finally(c))

Spec     == Init /\ [][Next]_vars
FairSpec == Spec /\ Fairness

----------------------------------------------------------------------------
(* What the callers rely on. *)

\* Two tasks of one namespace never run at the same time, although the
\* mutex they find may have been unregistered and made anew in between
\* (withAdapterNamespaceLock's finally callback against a new call).
MutualExclusion ==
  \A c, d \in Call :
    (c # d /\ ns[c] = ns[d]) => ~(pc[c] = "running" /\ pc[d] = "running")

\* Tasks of one namespace run in the order of the calls, also across two
\* mutex objects: when a task has started, the tasks of all earlier calls
\* have ended (the chain of promises of AsyncMutex.runExclusive).
Fifo ==
  \A c, d \in Call :
    /\ ns[c] = ns[d]
    /\ pc[c] # "idle"
    /\ arrival[c] < arrival[d]
    /\ pc[d] = "running" \/ Resolved(d)
    => Resolved(c)

\* The registry does not leak: a mutex stays registered only while some
\* call that uses it has not run its finally callback, and the Map of the
\* adapter only while it holds a mutex.
NoLeak ==
  /\ \A h \in Call, n \in Namespace :
       mutexIn[h][n] # None =>
         \E c \in Call : /\ mutexOf[c] = mutexIn[h][n]
                         /\ ns[c] = n
                         /\ pc[c] \notin {"idle", "done"}
  /\ adapterMap # None => \E n \in Namespace : mutexIn[adapterMap][n] # None

\* Every call made is eventually served: no promise of the chain is lost.
EveryCallServed == \A c \in Call : pc[c] = "waiting" ~> pc[c] = "done"

=============================================================================
