---------------------------- MODULE Socket_proofs ----------------------------
(***************************************************************************)
(* Proofs about live updates.                                              *)
(***************************************************************************)
EXTENDS Socket, SequenceTheorems, FiniteSetTheorems, WellFoundedInduction, TLAPS

----------------------------------------------------------------------------
(* Types. *)

HubState == {"out", "waiting", "validating", "validated", "in"}
EndState == {"free", "opening", "opened", "greeted", "closing"}
Grants   == [generation : 0 .. fences, epoch : 0 .. epoch]

\* What the server keeps of a connection.
HubType ==
  /\ hub \in [Conn -> HubState]
  /\ grant \in [Conn -> Grants]
  /\ pendingPong \subseteq {s \in Conn : hub[s] = "in"}
  /\ deaf \subseteq Conn /\ cut \subseteq Conn

\* A message names a change that was committed and is not told again.
WireType ==
  /\ top \in Change /\ untold \subseteq 1 .. top
  /\ inbox \in [Conn -> Seq(0 .. top)]
  /\ \A s \in Conn : Len(inbox[s]) + Cardinality(untold) <= top

PlaceType ==
  /\ routed \in BOOLEAN /\ here \in BOOLEAN
  /\ epoch \in 1 .. upsets + 1 /\ fences \in 0 .. MaxUpsets /\ fenced \in 0 .. epoch
  /\ upsets \in 0 .. MaxUpsets

EngineType ==
  /\ revoked \subseteq Conn
  /\ started \in BOOLEAN /\ enabled \in BOOLEAN
  /\ starting \in {"no", "syncing", "connect"}
  /\ ws \in Conn \cup {None}
  /\ end \in [Conn -> EndState]
  /\ attempt \in BOOLEAN /\ stale \in 0 .. 2 /\ timer \in BOOLEAN /\ strayed \in BOOLEAN

PullType ==
  /\ pull \in {"idle", "asked", "read"} /\ again \in BOOLEAN
  /\ reply \in 0 .. top /\ cursor \in 0 .. top /\ missed \in 0 .. top

TypeInv == HubType /\ WireType /\ PlaceType /\ EngineType /\ PullType

\* The members the namespace keeps after its last fence, and those it will
\* keep when their handshake goes on, were admitted under a later placement.
FenceInv ==
  routed => \A s \in Conn :
    \/ grant[s].epoch >= fenced
    \/ hub[s] \notin {"in", "validated"}
    \/ hub[s] = "validated" /\ grant[s].generation < fences

\* Whoever is stopped has nothing under way, and of a timer, an attempt, a
\* start and a socket there is one at a time; an open connection is the socket.
StrayInv ==
  /\ ~started => ~enabled /\ ws = None /\ ~attempt /\ ~timer /\ starting = "no"
  /\ ~strayed =>
       /\ attempt => ws = None
       /\ timer => ws = None /\ ~attempt
       /\ starting # "no" => ws = None /\ ~attempt /\ ~timer
       /\ \A s \in Conn : Live(s) => ws = s

\* The client has change n, will be told of it, or will pull it.
Known(s, n) ==
  \/ n <= cursor \/ n <= missed \/ n \in untold
  \/ pull = "asked" \/ (pull = "read" /\ (again \/ n <= reply))
  \/ \E i \in 1 .. Len(inbox[s]) : inbox[s][i] = n

CurrentInv ==
  \A s \in Conn :
    /\ end[s] \in {"opened", "greeted"} => hub[s] # "waiting"
    /\ ws = s /\ end[s] = "greeted" /\ hub[s] # "out" /\ s \notin cut
       => \A n \in 1 .. top : Known(s, n)

----------------------------------------------------------------------------
(* Numbers and sets. *)

\* A nonempty set of naturals has a least element.
LEMMA Least ==
  ASSUME NEW S, S \subseteq Nat, S # {}
  PROVE  \E x \in S : \A y \in S : x <= y
<1>1. \E x \in S : \A y \in S : ~ (<<y, x>> \in OpToRel(<, Nat))
  BY NatLessThanWellFounded, WFMin
<1>2. ASSUME NEW x \in S, NEW y \in S, ~ (<<y, x>> \in OpToRel(<, Nat))
      PROVE  x <= y
  BY <1>2 DEF OpToRel
<1> QED  BY <1>1, <1>2

\* Max is the greatest element of a nonempty set of naturals with a bound.
LEMMA MaxIsGreatest ==
  ASSUME NEW S, S \subseteq Nat, S # {}, NEW b \in Nat, \A x \in S : x <= b
  PROVE  Max(S) \in S /\ \A y \in S : y <= Max(S)
<1> DEFINE Above == {n \in Nat : \A x \in S : x <= n}
<1>1. Above \subseteq Nat /\ b \in Above
  OBVIOUS
<1>2. PICK n \in Above : \A m \in Above : n <= m
  <2> HIDE DEF Above
  <2> QED BY <1>1, Least
<1>3. n \in S
  <2> SUFFICES ASSUME n \notin S PROVE FALSE
    OBVIOUS
  <2>1. PICK x \in S : TRUE
    OBVIOUS
  <2>2. \A y \in S : y <= n - 1 /\ n - 1 \in Nat
    BY <2>1
  <2>3. n - 1 \in Above
    BY <2>1, <2>2
  <2> QED BY <1>2, <2>3
<1> QED BY <1>3 DEF Max

LEMMA LaterType ==
  ASSUME NEW b \in Nat, NEW m \in 0 .. b, NEW n \in 0 .. b
  PROVE  Later(m, n) \in 0 .. b /\ m <= Later(m, n) /\ n <= Later(m, n)
BY DEF Later

\* Telling a change leaves one change less to be told.
LEMMA UntoldLemma ==
  ASSUME WireType
  PROVE  /\ IsFiniteSet(untold) /\ Cardinality(untold) \in Nat
         /\ \A n \in untold : Cardinality(untold \ {n}) = Cardinality(untold) - 1
         /\ Cardinality(untold \cup {top + 1}) = Cardinality(untold) + 1
<1>1. top \in Nat /\ untold \subseteq 1 .. top /\ top + 1 \notin untold
  BY SocketAssumption DEF WireType, Change
<1>2. IsFiniteSet(untold)
  <2>1. IsFiniteSet(1 .. top)
    BY <1>1, FS_Interval
  <2> QED BY <1>1, <2>1, FS_Subset
<1> QED BY <1>1, <1>2, FS_CardinalityType, FS_RemoveElement, FS_AddElement

----------------------------------------------------------------------------
(* Every step keeps the types. *)

\* Grants stay grants while the fence generation and the epoch grow.
LEMMA GrantsGrow ==
  ASSUME fences \in Nat, epoch \in Nat, fences' \in Nat, epoch' \in Nat,
         fences <= fences', epoch <= epoch'
  PROVE  Grants \subseteq Grants'
BY DEF Grants

\* Connections that are removed keep nothing.
LEMMA OutKeepsHub ==
  ASSUME HubType, PlaceType, NEW S \in SUBSET Conn, Out(S),
         fences' \in Nat, epoch' = epoch, fences <= fences' \/ S = Conn
  PROVE  HubType'
<1>1. NoGrant \in Grants' /\ fences \in Nat /\ epoch \in Nat
  BY DEF NoGrant, Grants, PlaceType
<1>2. \A s \in Conn \ S : grant[s] \in Grants'
  <2>1. CASE fences <= fences'
    BY <1>1, <2>1, GrantsGrow DEF HubType
  <2>2. CASE S = Conn
    BY <2>2
  <2> QED BY <2>1, <2>2
<1>3. grant' \in [Conn -> Grants']
  BY <1>1, <1>2 DEF Out
<1>4. /\ hub' \in [Conn -> HubState]
      /\ pendingPong' \subseteq {s \in Conn : hub'[s] = "in"}
      /\ deaf' \subseteq Conn /\ cut' \subseteq Conn
  BY DEF Out, HubType, HubState
<1> QED BY <1>3, <1>4 DEF HubType

\* A connection outside the hub moves on in its handshake.
LEMMA HubMoves ==
  ASSUME HubType, NEW s \in Conn, hub[s] # "in", NEW h \in HubState,
         hub' = [hub EXCEPT ![s] = h],
         grant' \in [Conn -> Grants], UNCHANGED <<fences, epoch, pendingPong>>,
         deaf' \subseteq Conn, cut' \subseteq Conn
  PROVE  HubType'
<1>1. Grants' = Grants
  BY DEF Grants
<1> QED BY <1>1 DEF HubType

LEMMA EnterKeepsHub ==
  ASSUME HubType, PlaceType, NEW s \in Conn, hub[s] # "in", NEW welcome \in BOOLEAN,
         Enter(s, welcome), UNCHANGED <<fences, epoch>>
  PROVE  HubType'
<1>1. fences \in Nat
  BY DEF PlaceType
<1>2. CASE welcome
  BY <1>2, HubMoves DEF Enter, HubType, HubState
<1>3. CASE ~welcome
  BY <1>1, <1>3, OutKeepsHub DEF Enter
<1> QED BY <1>2, <1>3

LEMMA HubStays ==
  ASSUME HubType, UNCHANGED <<serving, cut, fences, epoch>>
  PROVE  HubType'
BY DEF HubType, serving, Grants

LEMMA WireStays ==
  ASSUME WireType, UNCHANGED <<log, inbox>>
  PROVE  WireType'
BY DEF WireType, log

LEMMA PlaceStays ==
  ASSUME PlaceType, UNCHANGED <<place, fences, fenced, upsets>>
  PROVE  PlaceType'
BY DEF PlaceType, place

LEMMA EngineStays ==
  ASSUME EngineType, UNCHANGED <<revoked, engine, end, connecting>>
  PROVE  EngineType'
BY DEF EngineType, engine, connecting

LEMMA PullStays ==
  ASSUME PullType, UNCHANGED <<top, pulling>>
  PROVE  PullType'
BY DEF PullType, pulling

\* An inbox that loses messages.
LEMMA WireShrinks ==
  ASSUME WireType, NEW s \in Conn, NEW q \in Seq(0 .. top), Len(q) <= Len(inbox[s]),
         inbox' = [inbox EXCEPT ![s] = q], UNCHANGED log
  PROVE  WireType'
<1>1. Cardinality(untold) \in Nat /\ top \in Nat
  BY UntoldLemma DEF WireType, Change
<1>2. \A r \in Conn : Len(inbox'[r]) + Cardinality(untold') <= top'
  BY <1>1 DEF WireType, log
<1> QED BY <1>2 DEF WireType, log

\* The steps of the hub and the handshake.
LEMMA ServeKeepsType ==
  ASSUME TypeInv, NEW s \in Conn, Serve(s)
  PROVE  TypeInv'
<1>1. WireType' /\ PlaceType' /\ EngineType' /\ PullType'
  <2>1. UNCHANGED <<log, place, fences, fenced, inbox, revoked, engine, end, connecting,
                    pulling, upsets>>
    BY DEF Serve, Handshake, Validate, Admit, Gone, Deadline
  <2> QED BY <2>1, WireStays, PlaceStays, EngineStays, PullStays DEF TypeInv, log
<1>2. /\ UNCHANGED <<fences, epoch>> /\ fences \in Nat /\ epoch \in Nat
      /\ HubType /\ PlaceType
  BY DEF Serve, Handshake, Validate, Admit, Gone, Deadline, place, TypeInv, PlaceType
<1>3. CASE Handshake(s)
  <2>1. CASE ~routed
    <3>1. hub[s] # "in" /\ Room \in BOOLEAN /\ Enter(s, Room)
      BY <1>3, <2>1 DEF Handshake, Room
    <3> QED BY <1>1, <1>2, <3>1, EnterKeepsHub DEF TypeInv
  <2>2. CASE routed
    <3>1. /\ hub[s] # "in" /\ hub' = [hub EXCEPT ![s] = "validating"]
          /\ grant' = [grant EXCEPT ![s].generation = fences]
          /\ UNCHANGED <<pendingPong, deaf, cut>>
      BY <1>3, <2>2 DEF Handshake
    <3>2. grant' \in [Conn -> Grants]
      BY <1>2, <3>1 DEF HubType, Grants
    <3>3. HubType'
      BY <1>2, <3>1, <3>2, HubMoves DEF HubType, HubState
    <3> QED BY <1>1, <3>3 DEF TypeInv
  <2> QED BY <2>1, <2>2
<1>4. CASE Validate(s)
  <2>1. CASE here
    <3>1. /\ hub[s] # "in" /\ hub' = [hub EXCEPT ![s] = "validated"]
          /\ grant' = [grant EXCEPT ![s].epoch = epoch]
          /\ UNCHANGED <<pendingPong, deaf, cut>>
      BY <1>4, <2>1 DEF Validate
    <3>2. grant' \in [Conn -> Grants]
      BY <1>2, <3>1 DEF HubType, Grants
    <3>3. HubType'
      BY <1>2, <3>1, <3>2, HubMoves DEF HubType, HubState
    <3> QED BY <1>1, <3>3 DEF TypeInv
  <2>2. CASE ~here
    <3>1. Out({s})
      BY <1>4, <2>2 DEF Validate
    <3> QED BY <1>1, <1>2, <3>1, OutKeepsHub DEF TypeInv
  <2> QED BY <2>1, <2>2
<1>5. CASE Admit(s)
  <2>1. hub[s] # "in" /\ Welcome(s) \in BOOLEAN /\ Enter(s, Welcome(s))
    BY <1>5 DEF Admit, Welcome, Room
  <2> QED BY <1>1, <1>2, <2>1, EnterKeepsHub DEF TypeInv
<1>6. CASE Gone(s)
  <2>1. CASE Out({s})
    BY <1>1, <1>2, <2>1, OutKeepsHub DEF TypeInv
  <2>2. CASE deaf' = deaf \cup {s} /\ UNCHANGED <<hub, grant, pendingPong, cut>>
    <3>1. HubType'
      BY <1>2, <2>2 DEF HubType, Grants
    <3> QED BY <1>1, <3>1 DEF TypeInv
  <2> QED BY <1>6, <2>1, <2>2 DEF Gone
<1>7. CASE Deadline(s)
  <2>1. Out({s})
    BY <1>7 DEF Deadline
  <2> QED BY <1>1, <1>2, <2>1, OutKeepsHub DEF TypeInv
<1> QED BY <1>3, <1>4, <1>5, <1>6, <1>7 DEF Serve

LEMMA CommitKeepsType ==
  ASSUME TypeInv, Commit
  PROVE  TypeInv'
<1>1. /\ top \in Nat /\ MaxChanges \in Nat /\ untold \subseteq 1 .. top
      /\ inbox \in [Conn -> Seq(0 .. top)]
      /\ \A s \in Conn : Len(inbox[s]) + Cardinality(untold) <= top
      /\ top < MaxChanges /\ top' = top + 1 /\ untold' = untold \cup {top + 1}
      /\ UNCHANGED <<place, fences, fenced, serving, inbox, cut, revoked, engine, end,
                     connecting, pulling, upsets>>
  BY SocketAssumption DEF Commit, TypeInv, WireType, Change
<1>2. WireType'
  <2>1. top' \in Change /\ untold' \subseteq 1 .. top'
    BY <1>1 DEF Change
  <2>2. inbox' \in [Conn -> Seq(0 .. top')]
    <3>1. 0 .. top \subseteq 0 .. top + 1
      BY <1>1
    <3>2. \A s \in Conn : inbox[s] \in Seq(0 .. top + 1)
      BY <1>1, <3>1
    <3> QED BY <1>1, <3>2
  <2>3. \A s \in Conn : Len(inbox'[s]) + Cardinality(untold') <= top'
    <3>1. Cardinality(untold') = Cardinality(untold) + 1 /\ Cardinality(untold) \in Nat
      BY <1>1, UntoldLemma DEF TypeInv
    <3>2. \A s \in Conn : Len(inbox[s]) \in Nat
      BY <1>1
    <3> QED BY <1>1, <3>1, <3>2
  <2> QED BY <2>1, <2>2, <2>3 DEF WireType
<1>3. PullType'
  BY <1>1 DEF TypeInv, PullType, pulling
<1>4. HubType' /\ PlaceType' /\ EngineType'
  BY <1>1, HubStays, PlaceStays, EngineStays DEF TypeInv, place
<1> QED BY <1>2, <1>3, <1>4 DEF TypeInv

\* A message that is delivered was to be told; it is told no more.
LEMMA TellKeepsType ==
  ASSUME TypeInv, NEW n \in untold, Tell(n)
  PROVE  TypeInv'
<1>1. /\ untold' = untold \ {n}
      /\ inbox' = [s \in Conn |-> IF s \in Members \ cut /\ Live(s) THEN Append(inbox[s], n)
                                  ELSE inbox[s]]
      /\ missed' = Later(missed, n) \/ missed' = missed
      /\ UNCHANGED <<top, place, fences, fenced, revoked, engine, end, connecting,
                     pull, reply, again, cursor, upsets>>
  BY DEF Tell
<1>2. PICK failing \in SUBSET (Members \cap cut) : Out(failing)
  BY DEF Tell
<1>3. top \in Nat /\ n \in 1 .. top /\ untold \subseteq 1 .. top
  BY SocketAssumption DEF TypeInv, WireType, Change
<1>4. WireType'
  <2>1. /\ Cardinality(untold') = Cardinality(untold) - 1 /\ Cardinality(untold) \in Nat
    BY <1>1, UntoldLemma DEF TypeInv
  <2>2. ASSUME NEW s \in Conn
        PROVE  inbox'[s] \in Seq(0 .. top) /\ Len(inbox'[s]) <= Len(inbox[s]) + 1
    <3>1. inbox[s] \in Seq(0 .. top) /\ n \in 0 .. top
      BY <1>3 DEF TypeInv, WireType
    <3>2. /\ Append(inbox[s], n) \in Seq(0 .. top)
          /\ Len(Append(inbox[s], n)) = Len(inbox[s]) + 1
          /\ Len(inbox[s]) \in Nat
      BY <3>1
    <3>3. inbox'[s] = Append(inbox[s], n) \/ inbox'[s] = inbox[s]
      BY <1>1
    <3>4. CASE inbox'[s] = Append(inbox[s], n)
      BY <3>2, <3>4
    <3>5. CASE inbox'[s] = inbox[s]
      BY <3>1, <3>2, <3>5
    <3> QED BY <3>3, <3>4, <3>5
  <2>3. \A s \in Conn : Len(inbox'[s]) + Cardinality(untold') <= top
    <3>1. \A s \in Conn : /\ Len(inbox[s]) \in Nat /\ Len(inbox'[s]) \in Nat
                          /\ Len(inbox[s]) + Cardinality(untold) <= top
      BY <2>2 DEF TypeInv, WireType
    <3> QED BY <1>3, <2>1, <2>2, <3>1
  <2>4. inbox' \in [Conn -> Seq(0 .. top)]
    BY <1>1, <2>2
  <2> QED BY <1>1, <1>3, <2>3, <2>4 DEF TypeInv, WireType
<1>5. PullType'
  BY <1>1, <1>3, LaterType DEF TypeInv, PullType
<1>6. HubType'
  <2>1. failing \in SUBSET Conn /\ fences' = fences /\ epoch' = epoch /\ fences \in Nat
    BY <1>1 DEF Members, place, TypeInv, PlaceType
  <2> QED BY <1>2, <2>1, OutKeepsHub DEF TypeInv
<1>7. PlaceType' /\ EngineType'
  BY <1>1, PlaceStays, EngineStays DEF TypeInv
<1> QED BY <1>4, <1>5, <1>6, <1>7 DEF TypeInv

\* Moves, fences, revocations and restarts.
LEMMA MoveKeepsType ==
  ASSUME TypeInv, Move
  PROVE  TypeInv'
<1>1. /\ epoch' = epoch + 1 /\ here' = ~here /\ upsets' = upsets + 1 /\ upsets < MaxUpsets
      /\ UNCHANGED <<log, routed, fences, fenced, serving, inbox, cut, revoked, engine, end,
                     connecting, pulling>>
  BY DEF Move, Upset
<1>2. PlaceType'
  BY <1>1, SocketAssumption DEF TypeInv, PlaceType
<1>3. HubType'
  <2>1. Grants \subseteq Grants'
    BY <1>1, GrantsGrow DEF TypeInv, PlaceType
  <2> QED BY <1>1, <2>1 DEF TypeInv, HubType, serving
<1>4. WireType' /\ EngineType' /\ PullType'
  BY <1>1, WireStays, EngineStays, PullStays DEF TypeInv, log
<1> QED BY <1>2, <1>3, <1>4 DEF TypeInv

LEMMA FenceKeepsType ==
  ASSUME TypeInv, Fence
  PROVE  TypeInv'
<1>1. /\ fences < MaxUpsets /\ fences' = fences + 1 /\ fenced' = epoch
      /\ Out({s \in Members : ~here \/ grant[s].epoch < epoch})
      /\ UNCHANGED <<log, place, inbox, revoked, engine, end, connecting, pulling, upsets>>
  BY DEF Fence
<1>2. PlaceType'
  BY <1>1, SocketAssumption DEF TypeInv, PlaceType, place
<1>3. HubType'
  <2>1. {s \in Members : ~here \/ grant[s].epoch < epoch} \in SUBSET Conn
    BY DEF Members
  <2>2. fences' \in Nat /\ fences <= fences' /\ epoch' = epoch
    BY <1>1 DEF TypeInv, PlaceType, place
  <2> QED BY <1>1, <2>1, <2>2, OutKeepsHub DEF TypeInv
<1>4. WireType' /\ EngineType' /\ PullType'
  BY <1>1, WireStays, EngineStays, PullStays DEF TypeInv, log
<1> QED BY <1>2, <1>3, <1>4 DEF TypeInv

LEMMA RevokeKeepsType ==
  ASSUME TypeInv, NEW s \in Conn, Revoke(s)
  PROVE  TypeInv'
<1>1. /\ Out({s}) /\ upsets' = upsets + 1 /\ upsets < MaxUpsets
      /\ revoked' = revoked \cup {s} \/ revoked' = revoked
      /\ UNCHANGED <<log, place, fences, fenced, inbox, engine, end, connecting, pulling>>
  BY DEF Revoke, Upset
<1>2. PlaceType'
  BY <1>1, SocketAssumption DEF TypeInv, PlaceType, place
<1>3. HubType'
  BY <1>1, OutKeepsHub DEF TypeInv, PlaceType, place
<1>4. EngineType'
  BY <1>1 DEF TypeInv, EngineType, engine, connecting
<1>5. WireType' /\ PullType'
  BY <1>1, WireStays, PullStays DEF TypeInv, log
<1> QED BY <1>2, <1>3, <1>4, <1>5 DEF TypeInv

LEMMA RestartKeepsType ==
  ASSUME TypeInv, Restart
  PROVE  TypeInv'
<1>1. /\ Out(Conn) /\ untold' = {} /\ fences' = 0 /\ upsets' = upsets + 1 /\ upsets < MaxUpsets
      /\ UNCHANGED <<top, place, fenced, inbox, revoked, engine, end, connecting, pulling>>
  BY DEF Restart, Upset
<1>2. PlaceType'
  BY <1>1, SocketAssumption DEF TypeInv, PlaceType, place
<1>3. HubType'
  BY <1>1, OutKeepsHub DEF TypeInv, PlaceType, place
<1>4. WireType'
  <2>1. \A s \in Conn : Len(inbox[s]) \in Nat /\ Len(inbox[s]) + Cardinality(untold) <= top
    BY DEF TypeInv, WireType
  <2>2. Cardinality(untold) \in Nat /\ Cardinality({}) = 0 /\ top \in Nat
    BY UntoldLemma, FS_EmptySet, SocketAssumption DEF TypeInv, WireType, Change
  <2>3. \A s \in Conn : Len(inbox[s]) + 0 <= top
    BY <2>1, <2>2
  <2> QED BY <1>1, <2>2, <2>3 DEF TypeInv, WireType
<1>5. EngineType' /\ PullType'
  BY <1>1, EngineStays, PullStays DEF TypeInv
<1> QED BY <1>2, <1>3, <1>4, <1>5 DEF TypeInv

\* The steps of the client that leave the server and the wire alone.
ClientStep ==
  \/ Focus \/ PullServe \/ PullDone \/ PullFails
  \/ Start \/ StartConnects \/ Stop \/ TimerFires \/ StaleEnds \/ AttemptFails
  \/ \E s \in Conn : OnOpen(s) \/ Greet(s) \/ Closes(s)

\* What a pull that fails leaves open is missed.
LEMMA FailsMisses ==
  ASSUME TypeInv
  PROVE  LET m == Max({missed} \cup (1 .. top \ untold))
         IN /\ m \in 0 .. top /\ missed <= m
            /\ \A n \in 1 .. top : n \in untold \/ n <= m
<1> DEFINE M == {missed} \cup (1 .. top \ untold)
<1>1. M \subseteq Nat /\ M # {} /\ top \in Nat /\ \A x \in M : x <= top
  BY SocketAssumption DEF TypeInv, WireType, PullType, Change
<1>2. Max(M) \in M /\ \A x \in M : x <= Max(M)
  <2> HIDE DEF M
  <2> QED BY <1>1, MaxIsGreatest
<1>3. missed \in M /\ \A n \in 1 .. top : n \in untold \/ n \in M
  OBVIOUS
<1> QED BY <1>1, <1>2, <1>3

LEMMA ClientKeepsType ==
  ASSUME TypeInv, ClientStep
  PROVE  TypeInv'
<1>1. UNCHANGED <<server, inbox, cut, revoked>>
  BY DEF ClientStep, Focus, PullServe, PullDone, PullFails, Start, StartConnects, Stop,
         TimerFires, StaleEnds, AttemptFails, OnOpen, Greet, Closes
<1>2. HubType' /\ WireType'
  <2>1. UNCHANGED <<serving, cut, fences, epoch>> /\ UNCHANGED <<log, inbox>>
    BY <1>1 DEF server, serving, place
  <2> QED BY <2>1, HubStays, WireStays DEF TypeInv
<1>3. PlaceType'
  <2>1. upsets' = upsets \/ (upsets' = upsets + 1 /\ upsets < MaxUpsets)
    BY DEF ClientStep, Focus, PullServe, PullDone, PullFails, Start, StartConnects, Stop,
           TimerFires, StaleEnds, AttemptFails, OnOpen, Greet, Closes, Upset
  <2> QED BY <1>1, <2>1, SocketAssumption DEF TypeInv, PlaceType, server, place
<1>4. EngineType'
  <2>1. /\ started' \in BOOLEAN /\ enabled' \in BOOLEAN
        /\ starting' \in {"no", "syncing", "connect"} /\ ws' \in Conn \cup {None}
    BY DEF ClientStep, Focus, PullServe, PullDone, PullFails, Start, StartConnects, Stop,
           TimerFires, StaleEnds, AttemptFails, OnOpen, Greet, Closes,
           PullOver, CloseOwn, TypeInv, EngineType, engine
  <2>2. end' \in [Conn -> EndState]
    BY DEF ClientStep, Focus, PullServe, PullDone, PullFails, Start, StartConnects, Stop,
           TimerFires, StaleEnds, AttemptFails, OnOpen, Greet, Closes,
           CloseOwn, TypeInv, EngineType, EndState
  <2>3. attempt' \in BOOLEAN /\ timer' \in BOOLEAN /\ strayed' \in BOOLEAN
    BY DEF ClientStep, Focus, PullServe, PullDone, PullFails, Start, StartConnects, Stop,
           TimerFires, StaleEnds, AttemptFails, OnOpen, Greet, Closes,
           ConnectWs, TypeInv, EngineType, connecting
  <2>4. stale' \in 0 .. 2
    <3>1. \/ stale' = stale \/ (stale' = stale + 1 /\ stale <= 1)
          \/ stale' = stale - 1 /\ stale > 0
      BY DEF ClientStep, Focus, PullServe, PullDone, PullFails, Start, StartConnects, Stop,
             TimerFires, StaleEnds, AttemptFails, OnOpen, Greet, Closes,
             ConnectWs, connecting
    <3> QED BY <3>1 DEF TypeInv, EngineType
  <2> QED BY <1>1, <2>1, <2>2, <2>3, <2>4 DEF TypeInv, EngineType
<1>5. PullType'
  <2>1. top \in Nat /\ top' = top
    BY <1>1, SocketAssumption DEF TypeInv, WireType, Change, server, log
  <2>2. CASE PullServe \/ PullDone \/ PullFails
    <3>1. /\ pull' \in {"idle", "asked", "read"} /\ again' \in BOOLEAN
      BY <2>2 DEF PullServe, PullDone, PullFails, PullOver, TypeInv, PullType
    <3>4. reply' \in 0 .. top
      BY <2>1, <2>2 DEF PullServe, PullDone, PullFails, PullOver, TypeInv, PullType
    <3>2. cursor' \in 0 .. top
      BY <2>1, <2>2, LaterType DEF PullServe, PullDone, PullFails, TypeInv, PullType
    <3>3. missed' \in 0 .. top
      BY <2>1, <2>2, FailsMisses DEF PullServe, PullDone, PullFails, TypeInv, PullType
    <3> QED BY <2>1, <3>1, <3>2, <3>3, <3>4 DEF PullType
  <2>3. CASE ~(PullServe \/ PullDone \/ PullFails)
    <3>1. UNCHANGED <<reply, cursor, missed>>
      BY <2>3 DEF ClientStep, Focus, Start, StartConnects, Stop,
           TimerFires, StaleEnds, AttemptFails, OnOpen, Greet, Closes, pulling
    <3>2. /\ pull' \in {"idle", "asked", "read"} /\ again' \in BOOLEAN
      BY <2>3 DEF ClientStep, Focus, Start, StartConnects, Stop, TimerFires, StaleEnds,
           AttemptFails, OnOpen, Greet, Closes, PullNow, CatchUp, pulling, TypeInv, PullType
    <3> QED BY <2>1, <3>1, <3>2 DEF TypeInv, PullType
  <2> QED BY <2>2, <2>3
<1> QED BY <1>2, <1>3, <1>4, <1>5 DEF TypeInv

LEMMA CutKeepsType ==
  ASSUME TypeInv, NEW s \in Conn, Cut(s)
  PROVE  TypeInv'
<1>1. /\ cut' = cut \cup {s} /\ inbox' = [inbox EXCEPT ![s] = <<>>]
      /\ upsets' = upsets + 1 /\ upsets < MaxUpsets
      /\ UNCHANGED <<log, place, fences, fenced, serving, revoked, engine, end, connecting,
                     pulling>>
  BY DEF Cut, Upset
<1>2. PlaceType'
  BY <1>1, SocketAssumption DEF TypeInv, PlaceType, place
<1>3. WireType'
  <2>1. <<>> \in Seq(0 .. top) /\ Len(<<>>) <= Len(inbox[s])
    BY DEF TypeInv, WireType
  <2> QED BY <1>1, <2>1, WireShrinks DEF TypeInv
<1>4. HubType'
  BY <1>1 DEF TypeInv, HubType, serving, Grants, place
<1>5. EngineType' /\ PullType'
  BY <1>1, EngineStays, PullStays DEF TypeInv, log
<1> QED BY <1>2, <1>3, <1>4, <1>5 DEF TypeInv

LEMMA ReceiveKeepsType ==
  ASSUME TypeInv, NEW s \in Conn, Receive(s)
  PROVE  TypeInv'
<1>1. /\ inbox[s] # <<>> /\ inbox' = [inbox EXCEPT ![s] = Tail(@)]
      /\ UNCHANGED <<server, cut, revoked, engine, end, connecting, reply, again, cursor,
                     upsets>>
      /\ pull' = "asked" \/ pull' = pull
      /\ missed' = missed \/ missed' = Later(missed, Head(inbox[s]))
  BY DEF Receive, PullNow
<1>2. inbox[s] \in Seq(0 .. top) /\ top \in Nat
  BY SocketAssumption DEF TypeInv, WireType, Change
<1>3. /\ Head(inbox[s]) \in 0 .. top /\ Tail(inbox[s]) \in Seq(0 .. top)
      /\ Len(Tail(inbox[s])) <= Len(inbox[s])
  <2>1. Len(Tail(inbox[s])) = Len(inbox[s]) - 1 /\ Len(inbox[s]) \in Nat
    BY <1>1, <1>2, HeadTailProperties, LenProperties
  <2>2. Head(inbox[s]) \in 0 .. top /\ Tail(inbox[s]) \in Seq(0 .. top)
    BY <1>1, <1>2, HeadTailProperties
  <2>3. Len(Tail(inbox[s])) <= Len(inbox[s])
    BY <2>1
  <2> QED BY <2>2, <2>3
<1>4. WireType'
  BY <1>1, <1>3, WireShrinks DEF TypeInv, server
<1>5. PullType'
  BY <1>1, <1>2, <1>3, LaterType DEF TypeInv, PullType, server, log
<1>6. HubType' /\ PlaceType' /\ EngineType'
  <2>1. UNCHANGED <<serving, cut, fences, epoch>>
    BY <1>1 DEF server, serving, place
  <2> QED BY <1>1, <2>1, HubStays, PlaceStays, EngineStays DEF TypeInv, server
<1> QED BY <1>4, <1>5, <1>6 DEF TypeInv

LEMMA PingKeepsType ==
  ASSUME TypeInv, Ping \/ \E s \in Conn : Pong(s)
  PROVE  TypeInv'
<1>1. /\ UNCHANGED <<log, place, fences, fenced, hub, grant, deaf, inbox, cut, revoked, engine,
                     end, connecting, pulling, upsets>>
      /\ pendingPong' \subseteq Members \cup pendingPong
  BY DEF Ping, Pong
<1>2. HubType'
  BY <1>1 DEF TypeInv, HubType, Grants, Members, place
<1>3. WireType' /\ PlaceType' /\ EngineType' /\ PullType'
  BY <1>1, WireStays, PlaceStays, EngineStays, PullStays DEF TypeInv, log
<1> QED BY <1>2, <1>3 DEF TypeInv

\* The connection that is opened is one both ends are done with.
LEMMA OpensLemma ==
  ASSUME Opens
  PROVE  \E s \in Conn :
           /\ hub[s] = "out" /\ end[s] = "free" /\ attempt
           /\ ws' = s /\ attempt' = FALSE
           /\ end' = [end EXCEPT ![s] = "opening"]
           /\ hub' = [hub EXCEPT ![s] = "waiting"]
           /\ UNCHANGED <<log, place, fences, fenced, grant, pendingPong, deaf, inbox, cut,
                          revoked, started, enabled, starting, stale, timer, strayed, pulling,
                          upsets>>
<1> DEFINE s == CHOOSE s \in Conn : hub[s] = "out" /\ end[s] = "free"
<1>1. s \in Conn /\ hub[s] = "out" /\ end[s] = "free"
  BY DEF Opens
<1> QED BY <1>1 DEF Opens

LEMMA OpensKeepsType ==
  ASSUME TypeInv, Opens
  PROVE  TypeInv'
<1>1. PICK s \in Conn :
           /\ hub[s] = "out" /\ end[s] = "free" /\ attempt
           /\ ws' = s /\ attempt' = FALSE
           /\ end' = [end EXCEPT ![s] = "opening"]
           /\ hub' = [hub EXCEPT ![s] = "waiting"]
           /\ UNCHANGED <<log, place, fences, fenced, grant, pendingPong, deaf, inbox, cut,
                          revoked, started, enabled, starting, stale, timer, strayed, pulling,
                          upsets>>
  BY OpensLemma
<1>2. HubType'
  <2>1. hub[s] # "in" /\ grant' \in [Conn -> Grants] /\ deaf' \subseteq Conn /\ cut' \subseteq Conn
    BY <1>1 DEF TypeInv, HubType
  <2>2. "waiting" \in HubState /\ UNCHANGED <<fences, epoch, pendingPong>>
    BY <1>1 DEF HubState, place
  <2> QED BY <1>1, <2>1, <2>2, HubMoves DEF TypeInv
<1>3. EngineType'
  BY <1>1 DEF TypeInv, EngineType, EndState
<1>4. WireType' /\ PlaceType' /\ PullType'
  BY <1>1, WireStays, PlaceStays, PullStays DEF TypeInv, log
<1> QED BY <1>2, <1>3, <1>4 DEF TypeInv

LEMMA OnCloseKeepsType ==
  ASSUME TypeInv, NEW s \in Conn, OnClose(s)
  PROVE  TypeInv'
<1>1. /\ end' = [end EXCEPT ![s] = "free"]
      /\ inbox' = [inbox EXCEPT ![s] = <<>>]
      /\ hub' = IF hub[s] = "waiting" THEN [hub EXCEPT ![s] = "out"] ELSE hub
      /\ cut' \subseteq cut
      /\ revoked' = revoked \ {s}
      /\ IF ws = s
         THEN /\ ws' = None
              /\ enabled' = (enabled /\ s \notin revoked)
              /\ timer' = (timer \/ enabled')
         ELSE UNCHANGED <<ws, enabled, timer>>
      /\ UNCHANGED <<log, place, fences, fenced, grant, pendingPong, deaf, started, starting,
                     attempt, stale, strayed, pulling, upsets>>
  BY DEF OnClose
<1>2. HubType'
  <2>1. Grants' = Grants
    BY <1>1 DEF Grants, place
  <2>2. CASE hub[s] = "waiting"
    <3>1. hub' = [hub EXCEPT ![s] = "out"]
      BY <1>1, <2>2
    <3> QED BY <1>1, <2>1, <2>2, <3>1 DEF TypeInv, HubType, HubState
  <2>3. CASE hub[s] # "waiting"
    <3>1. hub' = hub
      BY <1>1, <2>3
    <3> QED BY <1>1, <2>1, <3>1 DEF TypeInv, HubType
  <2> QED BY <2>2, <2>3
<1>3. WireType'
  <2>1. <<>> \in Seq(0 .. top) /\ Len(<<>>) <= Len(inbox[s])
    BY DEF TypeInv, WireType
  <2> QED BY <1>1, <2>1, WireShrinks DEF TypeInv
<1>4. EngineType'
  <2>1. /\ revoked' \subseteq Conn /\ end' \in [Conn -> EndState] /\ ws' \in Conn \cup {None}
        /\ UNCHANGED <<started, starting, attempt, stale, strayed>>
    BY <1>1 DEF TypeInv, EngineType, EndState
  <2>2. enabled' \in BOOLEAN /\ timer' \in BOOLEAN
    BY <1>1 DEF TypeInv, EngineType
  <2> QED BY <2>1, <2>2 DEF TypeInv, EngineType
<1>5. PlaceType' /\ PullType'
  BY <1>1, PlaceStays, PullStays DEF TypeInv, log
<1> QED BY <1>2, <1>3, <1>4, <1>5 DEF TypeInv

LEMMA TypeStutter ==
  ASSUME TypeInv, UNCHANGED vars
  PROVE  TypeInv'
<1>1. UNCHANGED <<serving, cut, fences, epoch>> /\ UNCHANGED <<log, inbox>> /\ UNCHANGED top
      /\ UNCHANGED <<place, fences, fenced, upsets>>
      /\ UNCHANGED <<revoked, engine, end, connecting>> /\ UNCHANGED pulling
  BY DEF vars, place, log
<1> QED BY <1>1, HubStays, WireStays, PlaceStays, EngineStays, PullStays DEF TypeInv

LEMMA TypeStep ==
  ASSUME TypeInv, [Next]_vars
  PROVE  TypeInv'
<1>1. CASE Commit \/ Move \/ Fence \/ Ping
  BY <1>1, CommitKeepsType, MoveKeepsType, FenceKeepsType, PingKeepsType
<1>2. ASSUME NEW n \in untold, Tell(n) PROVE TypeInv'
  BY <1>2, TellKeepsType
<1>3. ASSUME NEW s \in Conn, Serve(s) \/ Pong(s) \/ Handle(s) PROVE TypeInv'
  <2>1. CASE Serve(s) \/ Pong(s)
    BY <2>1, ServeKeepsType, PingKeepsType
  <2>2. CASE OnOpen(s) \/ Greet(s)
    BY <2>2, ClientKeepsType DEF ClientStep
  <2> QED BY <1>3, <2>1, <2>2, ReceiveKeepsType, OnCloseKeepsType DEF Handle
<1>4. CASE Start \/ Stop \/ Focus \/ PullStep \/ Reconnect
  <2>1. CASE Opens
    BY <2>1, OpensKeepsType
  <2> QED BY <1>4, <2>1, ClientKeepsType DEF ClientStep, PullStep, Reconnect
<1>5. CASE Fault
  <2>1. ASSUME NEW s \in Conn, Cut(s) \/ Revoke(s) \/ Closes(s) PROVE TypeInv'
    BY <2>1, CutKeepsType, RevokeKeepsType, ClientKeepsType DEF ClientStep
  <2> QED BY <1>5, <2>1, RestartKeepsType, ClientKeepsType DEF Fault, ClientStep
<1> QED BY <1>1, <1>2, <1>3, <1>4, <1>5, TypeStutter DEF Next

LEMMA InitType == Init => TypeInv
<1> SUFFICES ASSUME Init PROVE TypeInv
  OBVIOUS
<1>1. HubType
  BY DEF Init, HubType, HubState, Grants, NoGrant
<1>2. WireType
  <2>1. \A s \in Conn : Len(inbox[s]) = 0
    BY DEF Init
  <2>2. Cardinality(untold) = 0 /\ top = 0
    BY FS_EmptySet DEF Init
  <2>3. inbox \in [Conn -> Seq(0 .. top)]
    BY DEF Init
  <2> QED BY <2>1, <2>2, <2>3, SocketAssumption DEF Init, WireType, Change
<1>3. PlaceType
  BY SocketAssumption DEF Init, PlaceType
<1>4. EngineType
  <2>1. stale \in 0 .. 2
    BY DEF Init
  <2>2. /\ started \in BOOLEAN /\ enabled \in BOOLEAN
        /\ attempt \in BOOLEAN /\ timer \in BOOLEAN /\ strayed \in BOOLEAN
    BY DEF Init
  <2> QED BY <2>1, <2>2 DEF Init, EngineType, EndState
<1>5. PullType
  <2>1. reply \in 0 .. top /\ cursor \in 0 .. top /\ missed \in 0 .. top
    BY DEF Init
  <2>2. again \in BOOLEAN
    BY DEF Init
  <2> QED BY <2>1, <2>2 DEF Init, PullType
<1> QED BY <1>1, <1>2, <1>3, <1>4, <1>5 DEF TypeInv

LEMMA TypeImplies == TypeInv => TypeOK
<1> SUFFICES ASSUME TypeInv PROVE TypeOK
  OBVIOUS
<1>1. top \in Nat /\ MaxChanges \in Nat /\ top <= MaxChanges
  BY SocketAssumption DEF TypeInv, WireType, Change
<1>2. \A s \in Conn : inbox[s] \in Seq(Change) /\ Len(inbox[s]) <= MaxChanges
  <2>1. 0 .. top \subseteq Change
    BY <1>1 DEF Change
  <2>2. \A s \in Conn : inbox[s] \in Seq(Change)
    BY <2>1, SeqMonotonic DEF TypeInv, WireType
  <2>3. \A s \in Conn : Len(inbox[s]) \in Nat /\ Len(inbox[s]) + Cardinality(untold) <= top
    BY DEF TypeInv, WireType
  <2>4. Cardinality(untold) \in Nat
    BY UntoldLemma DEF TypeInv
  <2> QED BY <1>1, <2>2, <2>3, <2>4
<1>3. epoch \in 1 .. MaxUpsets + 1
  BY SocketAssumption DEF TypeInv, PlaceType
<1>4. /\ hub \in [Conn -> {"out", "waiting", "validating", "validated", "in"}]
      /\ grant \in [Conn -> [generation : 0 .. fences, epoch : 0 .. epoch]]
      /\ end \in [Conn -> {"free", "opening", "opened", "greeted", "closing"}]
  BY DEF TypeInv, HubType, HubState, Grants, EngineType, EndState
<1>5. /\ top \in Change /\ untold \subseteq 1 .. top
      /\ pendingPong \subseteq {s \in Conn : hub[s] = "in"}
      /\ deaf \cup cut \cup revoked \subseteq Conn
  BY DEF TypeInv, WireType, HubType, EngineType
<1> QED BY <1>2, <1>3, <1>4, <1>5 DEF TypeOK, TypeInv, PlaceType, EngineType, PullType

\* Types of the hub, the wire and the client: whoever owes a pong is a member
\* (removeClient clears pendingPong), a grant is never ahead of the fences and
\* the placement, and no inbox outgrows the changes.
THEOREM SocketTypeOK == Spec => []TypeOK
BY InitType, TypeStep, TypeImplies, PTL DEF Spec

----------------------------------------------------------------------------
(* What every step does to the server's side of a connection. *)

\* A step that only removes connections, or begins handshakes, for the rest
\* leaving grants, fences and placements' fence alone.
OnlyLess ==
  /\ UNCHANGED <<routed, fences, fenced>>
  /\ \A s \in Conn : \/ hub'[s] = hub[s] /\ grant'[s] = grant[s]
                     \/ hub'[s] \notin {"in", "validated"}

LEMMA OutLemma ==
  ASSUME HubType, NEW S, Out(S)
  PROVE  /\ \A s \in Conn : \/ hub'[s] = hub[s] /\ grant'[s] = grant[s] /\ s \notin S
                            \/ hub'[s] = "out" /\ s \in S
         /\ \A s \in Conn : s \in cut' <=> s \in cut /\ ~(s \in S /\ end[s] = "free")
<1>1. hub \in [Conn -> HubState] /\ cut \subseteq Conn
  BY DEF HubType
<1> QED BY <1>1 DEF Out

LEMMA LessKeepsFence ==
  ASSUME FenceInv, OnlyLess
  PROVE  FenceInv'
BY DEF FenceInv, OnlyLess

LEMMA EnterIsLess ==
  ASSUME HubType, NEW s \in Conn, NEW welcome \in BOOLEAN, ~welcome, Enter(s, welcome),
         UNCHANGED <<routed, fences, fenced>>
  PROVE  OnlyLess
BY OutLemma DEF Enter, OnlyLess

\* The steps of a handshake: the fence generation it read is compared when it
\* is admitted, so a directory read before the last fence does not count.
LEMMA ServeKeepsFence ==
  ASSUME TypeInv, FenceInv, NEW s \in Conn, Serve(s)
  PROVE  FenceInv'
<1>1. UNCHANGED <<routed, epoch, here, fences, fenced>>
  BY DEF Serve, Handshake, Validate, Admit, Gone, Deadline, place
<1>2. /\ HubType /\ fenced <= epoch /\ fenced \in Nat /\ epoch \in Nat /\ fences \in Nat
      /\ hub \in [Conn -> HubState] /\ grant \in [Conn -> Grants]
  BY DEF TypeInv, PlaceType, HubType
<1>3. CASE Handshake(s)
  <2>1. CASE ~routed
    BY <1>1, <2>1 DEF FenceInv
  <2>2. CASE routed
    <3>1. /\ hub' = [hub EXCEPT ![s] = "validating"]
          /\ grant' = [grant EXCEPT ![s].generation = fences]
      BY <1>3, <2>2 DEF Handshake
    <3>2. \A r \in Conn : \/ hub'[r] = hub[r] /\ grant'[r] = grant[r]
                          \/ hub'[r] \notin {"in", "validated"}
      BY <1>2, <3>1
    <3> QED BY <1>1, <3>2, LessKeepsFence DEF OnlyLess
  <2> QED BY <2>1, <2>2
<1>4. CASE Validate(s)
  <2>1. CASE here
    <3>1. /\ hub' = [hub EXCEPT ![s] = "validated"]
          /\ grant' = [grant EXCEPT ![s].epoch = epoch]
      BY <1>4, <2>1 DEF Validate
    <3>2. grant'[s].epoch = epoch /\ \A r \in Conn : r # s => hub'[r] = hub[r] /\ grant'[r] = grant[r]
      BY <1>2, <3>1 DEF Grants
    <3> QED BY <1>1, <1>2, <3>2 DEF FenceInv
  <2>2. CASE ~here
    <3>1. Out({s})
      BY <1>4, <2>2 DEF Validate
    <3> QED BY <1>1, <1>2, <3>1, OutLemma, LessKeepsFence DEF OnlyLess
  <2> QED BY <2>1, <2>2
<1>5. CASE Admit(s)
  <2>1. hub[s] = "validated" /\ Enter(s, Welcome(s))
    BY <1>5 DEF Admit
  <2>2. CASE Welcome(s)
    <3>1. hub' = [hub EXCEPT ![s] = "in"] /\ grant' = grant /\ grant[s].generation = fences
      BY <2>1, <2>2 DEF Enter, Welcome
    <3>2. routed => grant[s].epoch >= fenced
      BY <1>2, <2>1, <3>1 DEF FenceInv
    <3> QED BY <1>1, <1>2, <3>1, <3>2 DEF FenceInv
  <2>3. CASE ~Welcome(s)
    <3>1. Out({s})
      BY <2>1, <2>3 DEF Enter
    <3> QED BY <1>1, <1>2, <3>1, OutLemma, LessKeepsFence DEF OnlyLess
  <2> QED BY <2>2, <2>3
<1>6. CASE Gone(s) \/ Deadline(s)
  <2>1. CASE Out({s})
    BY <1>1, <1>2, <2>1, OutLemma, LessKeepsFence DEF OnlyLess
  <2>2. CASE UNCHANGED <<hub, grant>>
    BY <1>1, <2>2, LessKeepsFence DEF OnlyLess
  <2> QED BY <1>6, <2>1, <2>2 DEF Gone, Deadline
<1> QED BY <1>3, <1>4, <1>5, <1>6 DEF Serve

\* A fence leaves members of the present placement and handshakes that have
\* read an older generation.
LEMMA FenceKeepsFence ==
  ASSUME TypeInv, FenceInv, Fence
  PROVE  FenceInv'
<1> DEFINE S == {s \in Members : ~here \/ grant[s].epoch < epoch}
<1>1. routed' = routed /\ fences' = fences + 1 /\ fenced' = epoch /\ Out(S)
  BY DEF Fence, place
<1>2. /\ HubType /\ epoch \in Nat /\ fences \in Nat
      /\ \A s \in Conn : grant[s].generation <= fences /\ grant[s].generation \in Nat
                         /\ grant[s].epoch \in Nat
  BY DEF TypeInv, PlaceType, HubType, Grants
<1>3. ASSUME NEW s \in Conn, s \notin S, hub[s] = "in" PROVE grant[s].epoch >= epoch
  BY <1>2, <1>3 DEF Members
<1>4. ASSUME NEW s \in Conn
      PROVE  \/ grant'[s].epoch >= fenced'
             \/ hub'[s] \notin {"in", "validated"}
             \/ hub'[s] = "validated" /\ grant'[s].generation < fences'
  <2>1. \/ hub'[s] = hub[s] /\ grant'[s] = grant[s] /\ s \notin S
        \/ hub'[s] = "out" /\ s \in S
    <3> HIDE DEF S
    <3> QED BY <1>1, <1>2, OutLemma
  <2> HIDE DEF S
  <2>2. CASE hub[s] = "in"
    BY <1>1, <1>3, <2>1, <2>2
  <2>3. CASE hub[s] # "in"
    <3>1. grant[s].generation < fences + 1
      BY <1>2
    <3> QED BY <1>1, <2>1, <2>3, <3>1
  <2> QED BY <2>2, <2>3
<1> QED BY <1>4 DEF FenceInv

LEMMA RestartKeepsFence ==
  ASSUME TypeInv, Restart
  PROVE  FenceInv'
BY OutLemma DEF TypeInv, Restart, FenceInv

\* All other steps only remove connections.
LEMMA OthersAreLess ==
  ASSUME TypeInv, [Next]_vars, ~(\E s \in Conn : Serve(s)), ~Fence, ~Restart
  PROVE  OnlyLess
<1>1. HubType /\ hub \in [Conn -> HubState]
  BY DEF TypeInv, HubType
<1>2. CASE Commit \/ Move \/ Ping \/ UNCHANGED vars
  BY <1>2 DEF Commit, Move, Ping, OnlyLess, place, serving, vars
<1>3. ASSUME NEW n \in untold, Tell(n) PROVE OnlyLess
  BY <1>1, <1>3, OutLemma DEF Tell, OnlyLess, place
<1>4. ASSUME NEW s \in Conn, Pong(s) \/ Cut(s) PROVE OnlyLess
  BY <1>4 DEF Pong, Cut, OnlyLess, place, serving
<1>5. ASSUME NEW s \in Conn, Revoke(s) PROVE OnlyLess
  BY <1>1, <1>5, OutLemma DEF Revoke, OnlyLess, place
<1>6. ASSUME NEW s \in Conn, OnClose(s) PROVE OnlyLess
  BY <1>1, <1>6 DEF OnClose, OnlyLess, place
<1>7. ASSUME NEW s \in Conn, Receive(s) PROVE OnlyLess
  BY <1>7 DEF Receive, OnlyLess, server, place
<1>8. CASE Opens
  BY <1>1, <1>8, OpensLemma DEF OnlyLess, place
<1>9. CASE ClientStep
  BY <1>9 DEF ClientStep, Focus, PullServe, PullDone, PullFails, Start, StartConnects, Stop,
       TimerFires, StaleEnds, AttemptFails, OnOpen, Greet, Closes, server, place, OnlyLess
<1> QED BY <1>2, <1>3, <1>4, <1>5, <1>6, <1>7, <1>8, <1>9
        DEF Next, Handle, PullStep, Reconnect, Fault, ClientStep

LEMMA FenceStep ==
  ASSUME TypeInv, FenceInv, [Next]_vars
  PROVE  FenceInv'
BY ServeKeepsFence, FenceKeepsFence, RestartKeepsFence, OthersAreLess, LessKeepsFence

LEMMA InitFence == Init => FenceInv
BY DEF Init, FenceInv

LEMMA FenceImplies == TypeInv /\ FenceInv => FencedStaysOut
BY DEF FenceInv, FencedStaysOut, Members, TypeInv, HubType, PlaceType

\* After a fence no connection is a member that was admitted on an older
\* placement, for any number of connections, moves, fences and restarts:
\* a handshake that read the directory before the move is refused by the
\* generation it read before (addRoutedClient, fenceNamespace).
THEOREM SocketFencedStaysOut == Spec => []FencedStaysOut
BY InitType, TypeStep, InitFence, FenceStep, FenceImplies, PTL DEF Spec

----------------------------------------------------------------------------
(* One socket at a time. *)

LEMMA EngineKeepsStray ==
  ASSUME StrayInv, UNCHANGED <<engine, end, connecting>>
  PROVE  StrayInv'
BY DEF StrayInv, Live, engine, connecting

\* A pull that is over lets a start go on; handlers only end connections.
LEMMA HandlersKeepStray ==
  ASSUME StrayInv, UNCHANGED <<started, enabled, ws, connecting>>,
         (starting' = "no") <=> (starting = "no"),
         \A s \in Conn : end'[s] \in {"opening", "opened", "greeted"} => Live(s)
  PROVE  StrayInv'
BY DEF StrayInv, Live, connecting

LEMMA CloseKeepsStray ==
  ASSUME TypeInv, StrayInv, NEW s \in Conn, OnClose(s)
  PROVE  StrayInv'
<1>1. /\ end \in [Conn -> EndState] /\ end' = [end EXCEPT ![s] = "free"]
      /\ UNCHANGED <<started, starting, attempt, strayed>>
  BY DEF OnClose, TypeInv, EngineType
<1>2. ~Live(s)' /\ \A r \in Conn : r # s => (Live(r)' <=> Live(r))
  BY <1>1 DEF Live
<1>3. CASE ws = s
  <2>1. /\ ws' = None /\ enabled' = (enabled /\ s \notin revoked) /\ timer' = (timer \/ enabled')
        /\ ws # None
    BY <1>3, SocketAssumption DEF OnClose
  <2>2. started /\ (~strayed => starting = "no" /\ ~attempt /\ ~timer)
    BY <2>1 DEF StrayInv
  <2>3. \A r \in Conn : ~strayed => ~Live(r)'
    BY <1>2, <1>3 DEF StrayInv
  <2> QED BY <1>1, <2>1, <2>2, <2>3 DEF StrayInv
<1>4. CASE ws # s
  <2>1. UNCHANGED <<ws, enabled, timer>>
    BY <1>4 DEF OnClose
  <2> QED BY <1>1, <1>2, <2>1 DEF StrayInv
<1> QED BY <1>3, <1>4

LEMMA OpensKeepsStray ==
  ASSUME TypeInv, StrayInv, Opens
  PROVE  StrayInv'
<1>1. PICK s \in Conn :
           /\ attempt /\ ws' = s /\ attempt' = FALSE
           /\ end' = [end EXCEPT ![s] = "opening"]
           /\ UNCHANGED <<started, enabled, starting, timer, strayed>>
  BY OpensLemma
<1>2. started /\ (~strayed => ws = None /\ ~timer /\ starting = "no")
  BY <1>1 DEF StrayInv
<1>3. ~strayed => \A r \in Conn : ~Live(r)
  BY <1>2, SocketAssumption DEF StrayInv
<1>4. ~strayed => \A r \in Conn : Live(r)' => r = s
  BY <1>1, <1>3 DEF Live, TypeInv, EngineType
<1> QED BY <1>1, <1>2, <1>4 DEF StrayInv

LEMMA StartsKeepStray ==
  ASSUME TypeInv, StrayInv,
         Start \/ StartConnects \/ Stop \/ TimerFires \/ StaleEnds \/ AttemptFails
  PROVE  StrayInv'
<1>1. CASE Start
  <2>1. /\ ~started /\ started' = TRUE /\ enabled' = TRUE /\ starting' # "no"
        /\ UNCHANGED <<ws, end, attempt, timer, strayed>>
    BY <1>1 DEF Start, connecting
  <2> QED BY <2>1 DEF StrayInv, Live
<1>2. CASE StartConnects
  <2>1. /\ starting = "connect" /\ starting' = "no" /\ attempt' = enabled
        /\ UNCHANGED <<started, enabled, ws, end, timer, strayed>>
    BY <1>2 DEF StartConnects, ConnectWs
  <2> QED BY <2>1 DEF StrayInv, Live
<1>3. CASE Stop
  <2>1. /\ started' = FALSE /\ enabled' = FALSE /\ starting' = "no" /\ attempt' = FALSE
        /\ timer' = FALSE /\ ws' = None /\ strayed' = strayed
        /\ end' = IF ws = None THEN end ELSE [end EXCEPT ![ws] = "closing"]
    BY <1>3 DEF Stop, CloseOwn
  <2>2. ASSUME ~strayed, NEW s \in Conn PROVE ~Live(s)'
    <3>1. Live(s) => s = ws /\ ws # None
      BY <2>2, SocketAssumption DEF StrayInv
    <3>2. end \in [Conn -> EndState]
      BY DEF TypeInv, EngineType
    <3> QED BY <2>1, <3>1, <3>2 DEF Live
  <2> QED BY <2>1, <2>2 DEF StrayInv
<1>4. CASE TimerFires
  <2>1. /\ timer /\ timer' = FALSE /\ attempt' = enabled
        /\ UNCHANGED <<started, enabled, starting, ws, end, strayed>>
    BY <1>4 DEF TimerFires, ConnectWs, engine
  <2> QED BY <2>1 DEF StrayInv, Live
<1>5. CASE StaleEnds
  BY <1>5 DEF StaleEnds, StrayInv, Live, engine
<1>6. CASE AttemptFails
  <2>1. timer' = (timer \/ enabled) /\ UNCHANGED <<started, enabled, starting, ws, end>>
    BY <1>6 DEF AttemptFails, engine
  <2>2. \A s \in Conn : Live(s)' <=> Live(s)
    BY <2>1 DEF Live
  <2>3. CASE attempt /\ attempt' = FALSE /\ strayed' = strayed
    BY <2>1, <2>2, <2>3 DEF StrayInv
  <2>4. CASE attempt' = attempt /\ strayed' = (strayed \/ enabled)
    <3>1. CASE enabled
      BY <2>1, <2>4, <3>1 DEF StrayInv
    <3>2. CASE ~enabled
      <4>1. timer' = timer /\ strayed' = strayed
        BY <2>1, <2>4, <3>2 DEF TypeInv, EngineType
      <4> QED BY <2>1, <2>2, <2>4, <4>1 DEF StrayInv
    <3> QED BY <3>1, <3>2
  <2> QED BY <1>6, <2>3, <2>4 DEF AttemptFails
<1> QED BY <1>1, <1>2, <1>3, <1>4, <1>5, <1>6

LEMMA StrayStep ==
  ASSUME TypeInv, StrayInv, [Next]_vars
  PROVE  StrayInv'
<1>1. CASE Commit \/ Move \/ Fence \/ Ping \/ Focus \/ PullServe \/ Restart \/ UNCHANGED vars
  <2>1. UNCHANGED <<engine, end, connecting>>
    BY <1>1 DEF Commit, Move, Fence, Ping, Focus, PullServe, Restart, vars
  <2> QED BY <2>1, EngineKeepsStray
<1>2. ASSUME NEW n \in untold, Tell(n) PROVE StrayInv'
  BY <1>2, EngineKeepsStray DEF Tell
<1>3. ASSUME NEW s \in Conn, Serve(s) \/ Pong(s) \/ Cut(s) \/ Revoke(s) \/ Receive(s)
      PROVE  StrayInv'
  <2>1. UNCHANGED <<engine, end, connecting>>
    BY <1>3 DEF Serve, Handshake, Validate, Admit, Gone, Deadline, Pong, Cut, Revoke, Receive
  <2> QED BY <2>1, EngineKeepsStray
<1>4. CASE PullDone \/ PullFails
  <2>1. UNCHANGED <<started, enabled, ws, connecting, end>>
        /\ ((starting' = "no") <=> (starting = "no"))
    BY <1>4 DEF PullDone, PullFails, PullOver
  <2> QED BY <2>1, HandlersKeepStray DEF Live
<1>5. ASSUME NEW s \in Conn, OnOpen(s) \/ Greet(s) \/ Closes(s)
      PROVE  StrayInv'
  <2>1. UNCHANGED <<engine, connecting>>
        /\ \A r \in Conn : end'[r] \in {"opening", "opened", "greeted"} => Live(r)
    BY <1>5 DEF OnOpen, Greet, Closes, Live, TypeInv, EngineType
  <2> QED BY <2>1, HandlersKeepStray DEF engine
<1> QED BY <1>1, <1>2, <1>3, <1>4, <1>5, CloseKeepsStray, OpensKeepsStray, StartsKeepStray
        DEF Next, Handle, PullStep, Reconnect, Fault

LEMMA InitStray == Init => StrayInv
BY DEF Init, StrayInv, Live

\* Unless an attempt to connect that stop() and start() overtook failed, every
\* open connection is the engine's own: whatever starts, stops, timers and
\* attempts of older generations overlap (connectWs, scheduleReconnect, stop).
THEOREM SocketNoStray == Spec => []NoStraySocket
<1>1. StrayInv => NoStraySocket
  BY DEF StrayInv, NoStraySocket
<1> QED BY InitType, TypeStep, InitStray, StrayStep, <1>1, PTL DEF Spec

----------------------------------------------------------------------------
(* A connected client is current. *)

\* The engine's socket has been greeted and the server has it, or will.
Joined(s) == ws = s /\ end[s] = "greeted" /\ hub[s] # "out" /\ s \notin cut

\* A step that joins no connection and forgets nothing.
JoinsNone ==
  \A s \in Conn : /\ end'[s] \in {"opened", "greeted"} => hub'[s] # "waiting"
                  /\ Joined(s)' => Joined(s) /\ inbox'[s] = inbox[s]

LEMMA JoinsNoneLemma ==
  ASSUME CurrentInv, JoinsNone, UNCHANGED <<log, pulling>>
  PROVE  CurrentInv'
BY DEF CurrentInv, JoinsNone, Joined, Known, log, pulling

\* A step of the server moves connections forward or out.
ServerSide ==
  /\ UNCHANGED <<end, ws>>
  /\ \A s \in Conn : /\ hub'[s] = "waiting" => hub[s] = "waiting"
                     /\ hub'[s] # "out" => hub[s] # "out"
                     /\ s \notin cut' => s \notin cut \/ end[s] = "free"

LEMMA ServerJoinsNone ==
  ASSUME CurrentInv, ServerSide, UNCHANGED <<log, pulling>>,
         \A s \in Conn : s \notin cut' => inbox'[s] = inbox[s]
  PROVE  CurrentInv'
<1>1. JoinsNone
  BY DEF CurrentInv, JoinsNone, ServerSide, Joined
<1> QED BY <1>1, JoinsNoneLemma

LEMMA OutIsServerSide ==
  ASSUME HubType, NEW S, Out(S), UNCHANGED <<end, ws>>
  PROVE  ServerSide
BY OutLemma DEF ServerSide

LEMMA EnterIsServerSide ==
  ASSUME HubType, NEW s \in Conn, hub[s] # "out", NEW welcome \in BOOLEAN, Enter(s, welcome),
         UNCHANGED <<end, ws>>
  PROVE  ServerSide
<1>1. CASE welcome
  BY <1>1 DEF Enter, ServerSide, HubType
<1>2. CASE ~welcome
  BY <1>2, OutIsServerSide DEF Enter
<1> QED BY <1>1, <1>2

LEMMA ServeKeepsCurrent ==
  ASSUME TypeInv, CurrentInv, NEW s \in Conn, Serve(s)
  PROVE  CurrentInv'
<1>1. /\ UNCHANGED <<log, inbox, engine, end, pulling>> /\ UNCHANGED <<end, ws>>
      /\ HubType /\ hub \in [Conn -> HubState]
  BY DEF Serve, Handshake, Validate, Admit, Gone, Deadline, TypeInv, HubType, engine
<1>2. ASSUME ServerSide PROVE CurrentInv'
  BY <1>1, <1>2, ServerJoinsNone
<1>3. CASE Handshake(s)
  <2>1. CASE ~routed
    <3>1. hub[s] # "out" /\ Room \in BOOLEAN /\ Enter(s, Room)
      BY <1>3, <2>1 DEF Handshake, Room
    <3> QED BY <1>1, <1>2, <3>1, EnterIsServerSide
  <2>2. CASE routed
    <3>1. hub[s] = "waiting" /\ hub' = [hub EXCEPT ![s] = "validating"] /\ cut' = cut
      BY <1>3, <2>2 DEF Handshake
    <3> QED BY <1>1, <1>2, <3>1 DEF ServerSide
  <2> QED BY <2>1, <2>2
<1>4. CASE Validate(s)
  <2>1. CASE here
    <3>1. hub[s] = "validating" /\ hub' = [hub EXCEPT ![s] = "validated"] /\ cut' = cut
      BY <1>4, <2>1 DEF Validate
    <3> QED BY <1>1, <1>2, <3>1 DEF ServerSide
  <2>2. CASE ~here
    BY <1>1, <1>2, <1>4, <2>2, OutIsServerSide DEF Validate
  <2> QED BY <2>1, <2>2
<1>5. CASE Admit(s)
  <2>1. hub[s] # "out" /\ Welcome(s) \in BOOLEAN /\ Enter(s, Welcome(s))
    BY <1>5 DEF Admit, Welcome, Room
  <2> QED BY <1>1, <1>2, <2>1, EnterIsServerSide
<1>6. CASE Gone(s) \/ Deadline(s)
  <2>1. CASE Out({s})
    BY <1>1, <1>2, <2>1, OutIsServerSide
  <2>2. CASE UNCHANGED <<hub, cut>>
    BY <1>1, <1>2, <2>2 DEF ServerSide
  <2> QED BY <1>6, <2>1, <2>2 DEF Gone, Deadline
<1> QED BY <1>3, <1>4, <1>5, <1>6 DEF Serve

LEMMA HubKeepsCurrent ==
  ASSUME TypeInv, CurrentInv,
         \/ Move \/ Fence \/ Ping \/ UNCHANGED vars
         \/ \E s \in Conn : Pong(s) \/ Cut(s) \/ Revoke(s)
  PROVE  CurrentInv'
<1>1. /\ UNCHANGED <<log, pulling>> /\ UNCHANGED <<end, ws>>
      /\ HubType /\ cut \subseteq Conn /\ inbox \in [Conn -> Seq(0 .. top)]
  BY DEF Move, Fence, Ping, Pong, Cut, Revoke, vars, engine, TypeInv, HubType, WireType
<1>2. CASE Move \/ Ping \/ UNCHANGED vars
  <2>1. UNCHANGED <<hub, cut, inbox>>
    BY <1>2 DEF Move, Ping, vars, serving
  <2> QED BY <1>1, <2>1, ServerJoinsNone DEF ServerSide
<1>3. CASE Fence
  <2>1. PICK S : Out(S)
    BY <1>3 DEF Fence
  <2> QED BY <1>1, <1>3, <2>1, OutIsServerSide, ServerJoinsNone DEF Fence
<1>4. ASSUME NEW s \in Conn, Pong(s) \/ Revoke(s) PROVE CurrentInv'
  <2>1. inbox' = inbox
    BY <1>4 DEF Pong, Revoke
  <2>2. CASE Pong(s)
    BY <1>1, <2>1, <2>2, ServerJoinsNone DEF ServerSide, Pong
  <2>3. CASE Revoke(s)
    BY <1>1, <2>1, <2>3, OutIsServerSide, ServerJoinsNone DEF Revoke
  <2> QED BY <1>4, <2>2, <2>3
<1>5. ASSUME NEW s \in Conn, Cut(s) PROVE CurrentInv'
  <2>1. /\ hub' = hub /\ cut' = cut \cup {s} /\ inbox' = [inbox EXCEPT ![s] = <<>>]
    BY <1>5 DEF Cut, serving
  <2> QED BY <1>1, <2>1, ServerJoinsNone DEF ServerSide
<1> QED BY <1>2, <1>3, <1>4, <1>5

\* A restart removes every connection.
LEMMA RestartKeepsCurrent ==
  ASSUME TypeInv, CurrentInv, Restart
  PROVE  CurrentInv'
<1>1. \A s \in Conn : hub'[s] = "out"
  BY DEF Restart, Out
<1> QED BY <1>1 DEF CurrentInv

LEMMA CommitKeepsCurrent ==
  ASSUME TypeInv, CurrentInv, Commit
  PROVE  CurrentInv'
<1>1. /\ top' = top + 1 /\ untold' = untold \cup {top + 1} /\ top \in Nat
      /\ UNCHANGED <<hub, inbox, cut, ws, end, pull, reply, again, cursor, missed>>
  BY SocketAssumption DEF Commit, serving, engine, pulling, TypeInv, WireType, Change
<1>2. ASSUME NEW s \in Conn, NEW n \in 1 .. top', n \in 1 .. top => Known(s, n)
      PROVE  Known(s, n)'
  <2>1. n \in untold' \/ n \in 1 .. top
    BY <1>1
  <2> QED BY <1>1, <1>2, <2>1 DEF Known
<1> QED BY <1>1, <1>2 DEF CurrentInv

\* A change that is told reaches the inbox of a member whose line is alive; a
\* socket that is still in its handshake misses it.
LEMMA TellKeepsCurrent ==
  ASSUME TypeInv, CurrentInv, NEW n \in untold, Tell(n)
  PROVE  CurrentInv'
<1>1. /\ untold' = untold \ {n}
      /\ inbox' = [s \in Conn |-> IF s \in Members \ cut /\ Live(s) THEN Append(inbox[s], n)
                                  ELSE inbox[s]]
      /\ missed' = IF ws # None /\ hub[ws] \in {"validating", "validated"}
                   THEN Later(missed, n) ELSE missed
      /\ UNCHANGED <<top, pull, reply, again, cursor>> /\ UNCHANGED <<end, ws>>
  BY DEF Tell, engine
<1>2. PICK failing \in SUBSET (Members \cap cut) : Out(failing)
  BY DEF Tell
<1>3. /\ top \in Nat /\ n \in 1 .. top /\ missed \in 0 .. top /\ HubType
      /\ hub \in [Conn -> HubState] /\ inbox \in [Conn -> Seq(0 .. top)]
      /\ cursor \in 0 .. top /\ reply \in 0 .. top
  BY SocketAssumption DEF TypeInv, WireType, Change, PullType, HubType
<1>4. ServerSide
  BY <1>1, <1>2, <1>3, OutIsServerSide
<1>5. missed' \in Nat /\ missed <= missed'
  BY <1>1, <1>3, LaterType
<1>6. ASSUME NEW s \in Conn, Joined(s)' PROVE Joined(s)
  BY <1>4, <1>6 DEF ServerSide, Joined
<1>7. ASSUME NEW s \in Conn, Joined(s)', NEW m \in 1 .. top
      PROVE  Known(s, m)'
  <2>1. Joined(s) /\ Known(s, m) /\ s # None
    BY <1>6, <1>7, SocketAssumption DEF CurrentInv, Joined
  <2>2. /\ Append(inbox[s], n) \in Seq(0 .. top)
        /\ Len(Append(inbox[s], n)) = Len(inbox[s]) + 1 /\ Len(inbox[s]) \in Nat
        /\ \A i \in 1 .. Len(inbox[s]) : Append(inbox[s], n)[i] = inbox[s][i]
        /\ Append(inbox[s], n)[Len(inbox[s]) + 1] = n
    BY <1>3, AppendProperties, LenProperties
  <2>3. inbox'[s] = Append(inbox[s], n) \/ inbox'[s] = inbox[s]
    BY <1>1
  <2>4. ASSUME NEW i \in 1 .. Len(inbox[s]), inbox[s][i] = m
        PROVE  \E j \in 1 .. Len(inbox'[s]) : inbox'[s][j] = m
    BY <2>2, <2>3, <2>4
  <2>5. CASE m # n
    <3>1. m \in untold => m \in untold'
      BY <1>1, <2>5
    <3>2. m <= missed => m <= missed'
      BY <1>3, <1>5
    <3> QED BY <1>1, <2>1, <2>4, <3>1, <3>2 DEF Known
  <2>6. CASE m = n
    <3>1. hub[s] \in HubState /\ hub[s] # "out" /\ hub[s] # "waiting"
      BY <1>3, <2>1 DEF CurrentInv, Joined
    <3>2. CASE hub[s] = "in"
      <4>1. inbox'[s] = Append(inbox[s], n)
        BY <1>1, <2>1, <3>2 DEF Joined, Members, Live
      <4>2. Len(inbox'[s]) \in 1 .. Len(inbox'[s]) /\ inbox'[s][Len(inbox'[s])] = n
        BY <2>2, <4>1
      <4> QED BY <2>6, <4>2 DEF Known
    <3>3. CASE hub[s] # "in"
      <4>1. missed' = Later(missed, n)
        BY <1>1, <2>1, <3>1, <3>3 DEF Joined, HubState
      <4>2. m <= missed'
        BY <1>3, <2>6, <4>1, LaterType
      <4> QED BY <4>2 DEF Known
    <3> QED BY <3>2, <3>3
  <2> QED BY <2>5, <2>6
<1>8. \A s \in Conn : end'[s] \in {"opened", "greeted"} => hub'[s] # "waiting"
  BY <1>4 DEF ServerSide, CurrentInv
<1> QED BY <1>1, <1>7, <1>8 DEF CurrentInv, Joined

\* Starting a pull, or letting one in flight be good enough, forgets nothing.
LEMMA PullNowKnows ==
  ASSUME NEW s, NEW n, Known(s, n), PullNow, UNCHANGED <<log, inbox, reply, cursor, missed>>,
         again => again'
  PROVE  Known(s, n)'
BY DEF Known, PullNow, log

\* The pull's own steps: what it has read ends up in the cursor, and what a
\* failed pull would have brought is missed.
LEMMA PullKnows ==
  ASSUME TypeInv, PullServe \/ PullDone \/ PullFails, NEW s \in Conn, NEW n \in 1 .. top,
         Known(s, n)
  PROVE  Known(s, n)'
<1>1. /\ UNCHANGED <<top, untold, inbox>> /\ top \in Nat
      /\ cursor \in 0 .. top /\ reply \in 0 .. top /\ missed \in 0 .. top
  BY SocketAssumption DEF PullServe, PullDone, PullFails, server, log, TypeInv, WireType,
                          Change, PullType
<1>2. CASE PullServe
  BY <1>1, <1>2 DEF PullServe, Known
<1>3. CASE PullDone
  <2>1. /\ pull = "read" /\ cursor' = Later(cursor, reply) /\ missed' = missed
        /\ pull' = IF again THEN "asked" ELSE "idle"
    BY <1>3 DEF PullDone, PullOver
  <2>2. cursor <= cursor' /\ reply <= cursor' /\ cursor' \in 0 .. top
    BY <1>1, <2>1, LaterType
  <2>3. n <= cursor \/ n <= reply => n <= cursor'
    BY <1>1, <2>2
  <2> QED BY <1>1, <2>1, <2>3 DEF Known
<1>4. CASE PullFails
  <2>1. n \in untold \/ n <= missed'
    BY <1>4, FailsMisses DEF PullFails
  <2> QED BY <1>1, <2>1 DEF Known
<1> QED BY <1>2, <1>3, <1>4

\* No connection joins while the engine's socket, its ends and the hub stay.
LEMMA KnowsKeepsCurrent ==
  ASSUME CurrentInv, UNCHANGED <<top, hub, cut, ws, end>>,
         \A s \in Conn : \A n \in 1 .. top : Joined(s) /\ Known(s, n) => Known(s, n)'
  PROVE  CurrentInv'
BY DEF CurrentInv, Joined

LEMMA PullsKeepCurrent ==
  ASSUME TypeInv, CurrentInv, PullServe \/ PullDone \/ PullFails \/ Focus \/ Start
  PROVE  CurrentInv'
<1>1. UNCHANGED <<top, hub, cut, ws, end>>
  BY DEF PullServe, PullDone, PullFails, Focus, Start, server, engine, log
<1>2. CASE PullServe \/ PullDone \/ PullFails
  BY <1>1, <1>2, PullKnows, KnowsKeepsCurrent
<1>3. CASE Focus \/ Start
  <2>1. PullNow /\ UNCHANGED <<log, inbox, reply, cursor, missed>> /\ again' = again
    BY <1>3 DEF Focus, Start, server
  <2> QED BY <1>1, <2>1, PullNowKnows, KnowsKeepsCurrent
<1> QED BY <1>2, <1>3

LEMMA EngineKeepsCurrent ==
  ASSUME TypeInv, CurrentInv, StartConnects \/ TimerFires \/ StaleEnds \/ AttemptFails \/ Stop
  PROVE  CurrentInv'
<1>1. CASE Stop
  <2>1. ws' = None /\ UNCHANGED <<hub, top>>
        /\ \A s \in Conn : end'[s] \in {"opened", "greeted"} => end[s] = end'[s]
    BY <1>1 DEF Stop, CloseOwn, server, log, TypeInv, EngineType
  <2> QED BY <2>1, SocketAssumption DEF CurrentInv
<1>2. CASE StartConnects \/ TimerFires \/ StaleEnds \/ AttemptFails
  <2>1. UNCHANGED <<log, hub, cut, ws, end, inbox, pulling>>
    BY <1>2 DEF StartConnects, TimerFires, StaleEnds, AttemptFails, server, engine
  <2> QED BY <2>1, JoinsNoneLemma DEF JoinsNone, CurrentInv, Joined
<1> QED BY <1>1, <1>2

\* A socket that is opened, closed or answered joins nothing yet.
LEMMA EndsKeepCurrent ==
  ASSUME TypeInv, CurrentInv, Opens \/ \E s \in Conn : OnOpen(s) \/ Closes(s) \/ OnClose(s)
  PROVE  CurrentInv'
<1>1. hub \in [Conn -> HubState] /\ end \in [Conn -> EndState] /\ inbox \in [Conn -> Seq(0 .. top)]
      /\ None \notin Conn
  BY SocketAssumption DEF TypeInv, HubType, EngineType, WireType
<1>2. CASE Opens
  <2>1. PICK s \in Conn :
          /\ ws' = s /\ end' = [end EXCEPT ![s] = "opening"] /\ hub' = [hub EXCEPT ![s] = "waiting"]
          /\ UNCHANGED <<log, pulling, inbox, cut>>
    BY <1>2, OpensLemma
  <2> QED BY <1>1, <2>1, JoinsNoneLemma DEF JoinsNone, Joined, CurrentInv
<1>3. ASSUME NEW s \in Conn, OnOpen(s) PROVE CurrentInv'
  <2>1. /\ hub[s] # "waiting" /\ end' = [end EXCEPT ![s] = "opened"]
        /\ UNCHANGED <<log, pulling, inbox, cut, hub, ws>>
    BY <1>3 DEF OnOpen, server, engine
  <2> QED BY <1>1, <2>1, JoinsNoneLemma DEF JoinsNone, Joined, CurrentInv
<1>4. ASSUME NEW s \in Conn, Closes(s) PROVE CurrentInv'
  <2>1. /\ end' = [end EXCEPT ![s] = "closing"]
        /\ UNCHANGED <<log, pulling, inbox, cut, hub, ws>>
    BY <1>4 DEF Closes, server, engine
  <2> QED BY <1>1, <2>1, JoinsNoneLemma DEF JoinsNone, Joined, CurrentInv
<1>5. ASSUME NEW s \in Conn, OnClose(s) PROVE CurrentInv'
  <2>1. /\ end' = [end EXCEPT ![s] = "free"] /\ inbox' = [inbox EXCEPT ![s] = <<>>]
        /\ hub' = IF hub[s] = "waiting" THEN [hub EXCEPT ![s] = "out"] ELSE hub
        /\ cut' = IF hub'[s] = "out" THEN cut \ {s} ELSE cut
        /\ ws' = ws \/ ws' = None
        /\ UNCHANGED <<log, pulling>>
    BY <1>5 DEF OnClose
  <2>2. ASSUME NEW r \in Conn
        PROVE  /\ end'[r] \in {"opened", "greeted"} => hub'[r] # "waiting"
               /\ Joined(r)' => Joined(r) /\ inbox'[r] = inbox[r]
    <3>1. CASE r = s
      BY <1>1, <2>1, <3>1 DEF Joined
    <3>2. CASE r # s
      <4>1. end'[r] = end[r] /\ inbox'[r] = inbox[r] /\ hub'[r] = hub[r]
            /\ (r \in cut' <=> r \in cut)
        BY <1>1, <2>1, <3>2
      <4> QED BY <1>1, <2>1, <4>1 DEF Joined, CurrentInv
    <3> QED BY <3>1, <3>2
  <2> QED BY <2>1, <2>2, JoinsNoneLemma DEF JoinsNone
<1> QED BY <1>2, <1>3, <1>4, <1>5

\* onopen: the pull that follows the hello reads all that is committed, or
\* again makes sure that another one does.
LEMMA GreetKeepsCurrent ==
  ASSUME TypeInv, CurrentInv, NEW s \in Conn, Greet(s)
  PROVE  CurrentInv'
<1>1. /\ end[s] = "opened" /\ end' = [end EXCEPT ![s] = "greeted"] /\ end \in [Conn -> EndState]
      /\ IF ws = s THEN CatchUp ELSE UNCHANGED <<pull, again>>
      /\ UNCHANGED <<log, hub, cut, ws, inbox, reply, cursor, missed>>
      /\ pull \in {"idle", "asked", "read"}
  BY DEF Greet, server, engine, TypeInv, EngineType, PullType
<1>2. CASE ws = s
  <2>1. pull' = "asked" \/ (pull' = "read" /\ again')
    BY <1>1, <1>2 DEF CatchUp, PullNow
  <2>2. \A r \in Conn, n \in 1 .. top' : Known(r, n)'
    BY <2>1 DEF Known
  <2> QED BY <1>1, <2>2 DEF CurrentInv
<1>3. CASE ws # s
  BY <1>1, <1>3, JoinsNoneLemma DEF JoinsNone, Joined, CurrentInv, pulling
<1> QED BY <1>2, <1>3

\* onmessage: the number is pulled for, is already here, or is missed.
LEMMA ReceiveKeepsCurrent ==
  ASSUME TypeInv, CurrentInv, NEW s \in Conn, Receive(s)
  PROVE  CurrentInv'
<1>1. /\ inbox[s] # <<>> /\ inbox' = [inbox EXCEPT ![s] = Tail(@)]
      /\ IF Head(inbox[s]) > cursor
         THEN PullNow /\ missed' = IF pull = "idle" THEN missed ELSE Later(missed, Head(inbox[s]))
         ELSE UNCHANGED <<pull, missed>>
      /\ UNCHANGED <<log, hub, cut, ws, end, reply, again, cursor>>
      /\ inbox \in [Conn -> Seq(0 .. top)] /\ top \in Nat
      /\ missed \in 0 .. top /\ cursor \in 0 .. top
      /\ pull \in {"idle", "asked", "read"}
  BY SocketAssumption DEF Receive, server, engine, TypeInv, WireType, Change, PullType
<1> DEFINE q == inbox[s]
           h == Head(q)
<1>2. /\ h \in 0 .. top /\ h = q[1] /\ Len(q) \in Nat \ {0} /\ Len(Tail(q)) = Len(q) - 1
      /\ \A i \in 1 .. Len(Tail(q)) : Tail(q)[i] = q[i + 1]
  BY <1>1, HeadTailProperties, EmptySeq
<1>3. /\ missed' \in Nat /\ missed <= missed'
      /\ (pull = "asked" => pull' = "asked") /\ (pull = "read" => pull' = "read")
      /\ h <= cursor \/ h <= missed' \/ pull' = "asked"
  <2>1. CASE h > cursor /\ pull = "idle"
    <3>1. pull' = "asked" /\ missed' = missed
      BY <1>1, <2>1 DEF PullNow
    <3> QED BY <1>1, <2>1, <3>1
  <2>2. CASE h > cursor /\ pull # "idle"
    <3>1. pull' = pull /\ missed' = Later(missed, h)
      BY <1>1, <2>2 DEF PullNow
    <3>2. Later(missed, h) \in 0 .. top /\ missed <= Later(missed, h) /\ h <= Later(missed, h)
      BY <1>1, <1>2, LaterType
    <3> QED BY <1>1, <3>1, <3>2
  <2>3. CASE ~(h > cursor)
    <3>1. pull' = pull /\ missed' = missed
      BY <1>1, <2>3
    <3> HIDE DEF h
    <3> QED BY <1>1, <1>2, <2>3, <3>1
  <2> QED BY <2>1, <2>2, <2>3
<1>5. ASSUME NEW r \in Conn, NEW n \in 1 .. top, Known(r, n)
      PROVE  Known(r, n)'
  <2>1. CASE \E i \in 1 .. Len(inbox[r]) : inbox[r][i] = n
    <3>1. CASE r = s
      <4>1. PICK i \in 1 .. Len(q) : q[i] = n
        BY <2>1, <3>1
      <4>2. CASE i = 1
        BY <1>1, <1>2, <1>3, <4>1, <4>2 DEF Known
      <4>3. CASE i # 1
        <5>1. i - 1 \in 1 .. Len(Tail(q)) /\ Tail(q)[i - 1] = n
          BY <1>2, <4>1, <4>3
        <5>2. inbox'[s] = Tail(q)
          BY <1>1
        <5> QED BY <3>1, <5>1, <5>2 DEF Known
      <4> QED BY <4>2, <4>3
    <3>2. CASE r # s
      <4>1. inbox'[r] = inbox[r]
        BY <1>1, <3>2
      <4> QED BY <2>1, <4>1 DEF Known
    <3> QED BY <3>1, <3>2
  <2>2. CASE ~ \E i \in 1 .. Len(inbox[r]) : inbox[r][i] = n
    <3>1. n <= missed => n <= missed'
      BY <1>1, <1>3
    <3> QED BY <1>1, <1>3, <1>5, <2>2, <3>1 DEF Known, log
  <2> QED BY <2>1, <2>2
<1> QED BY <1>1, <1>5, KnowsKeepsCurrent DEF log

LEMMA CurrentStep ==
  ASSUME TypeInv, CurrentInv, [Next]_vars
  PROVE  CurrentInv'
<1>1. CASE Commit \/ Move \/ Fence \/ Ping \/ UNCHANGED vars
  BY <1>1, CommitKeepsCurrent, HubKeepsCurrent
<1>2. ASSUME NEW n \in untold, Tell(n) PROVE CurrentInv'
  BY <1>2, TellKeepsCurrent
<1>3. ASSUME NEW s \in Conn, Serve(s) \/ Pong(s) \/ Handle(s) PROVE CurrentInv'
  BY <1>3, ServeKeepsCurrent, HubKeepsCurrent, EndsKeepCurrent, GreetKeepsCurrent,
     ReceiveKeepsCurrent DEF Handle
<1>4. CASE Start \/ Stop \/ Focus \/ PullStep \/ Reconnect
  BY <1>4, PullsKeepCurrent, EngineKeepsCurrent, EndsKeepCurrent DEF PullStep, Reconnect
<1>5. CASE Fault
  <2>1. ASSUME NEW s \in Conn, Cut(s) \/ Revoke(s) \/ Closes(s) PROVE CurrentInv'
    BY <2>1, HubKeepsCurrent, EndsKeepCurrent
  <2> QED BY <1>5, <2>1, RestartKeepsCurrent, PullsKeepCurrent, EngineKeepsCurrent DEF Fault
<1> QED BY <1>1, <1>2, <1>3, <1>4, <1>5 DEF Next

LEMMA InitCurrent == Init => CurrentInv
BY DEF Init, CurrentInv

LEMMA CurrentImplies == TypeInv /\ CurrentInv => ConnectedIsCurrent
<1> SUFFICES ASSUME TypeInv, CurrentInv, NEW s \in Conn, Connected(s),
                    inbox[s] = <<>>, pull = "idle", untold = {}
             PROVE  cursor = top \/ missed > cursor
  BY DEF ConnectedIsCurrent
<1>1. top \in Nat /\ cursor \in 0 .. top /\ missed \in 0 .. top
  BY SocketAssumption DEF TypeInv, WireType, Change, PullType
<1>2. CASE top = 0
  BY <1>1, <1>2
<1>3. CASE top # 0
  <2>1. top \in 1 .. top
    BY <1>1, <1>3
  <2>2. Known(s, top)
    BY <2>1 DEF CurrentInv, Connected
  <2>3. top <= cursor \/ top <= missed
    BY <2>2 DEF Known
  <2> QED BY <1>1, <2>3
<1> QED BY <1>2, <1>3

\* A client whose socket is open and greeted, with nothing under way, has all
\* that was committed, but for what is counted in missed: for any number of
\* connections and changes and any order of broadcasts, cuts, restarts, pulls
\* and reconnects (broadcastCursor, onopen, onmessage, pullNow).
THEOREM SocketConnectedIsCurrent == Spec => []ConnectedIsCurrent
BY InitType, TypeStep, InitCurrent, CurrentStep, CurrentImplies, PTL DEF Spec

=============================================================================
