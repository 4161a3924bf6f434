------------------------------- MODULE PushLoop -------------------------------
(***************************************************************************)
(* When the client pushes: the start, stop, timers, connectivity events    *)
(* and push attempts of datafn/client/src/sync/engine.ts.                  *)
(*                                                                         *)
(* Every setTimeout and setInterval is a live timer until it is cleared or *)
(* fires.  The engine remembers one of them in this.timer; the others are  *)
(* stray, nothing can clear them any more.  The change log of the client   *)
(* is its numbers: acked .. last are pending.  All entries have the same   *)
(* clientId.                                                               *)
(***************************************************************************)
EXTENDS Naturals, FiniteSets, FiniteSetsExt

CONSTANTS
  Intervals,    \* whether pushInterval is set: TRUE, FALSE, or both tried
  Batch,        \* pushBatchSize
  OnlineAtLoad, \* values of navigator.onLine when the page is loaded
  MaxWrites,    \* bound: local mutations
  MaxPending,   \* bound: entries in the change log when the page is loaded
  MaxStarts,    \* bound: calls of start
  MaxStops,     \* bound: calls of stop
  MaxFlips,     \* bound: times the browser goes offline
  MaxFaults,    \* bound: pushes not answered, refused, or answered in part
  MaxUpsets,    \* bound: failed accesses to the local storage and calls of cloneUp
  MaxSoon,      \* bound: setTimeout(processPush, 0) queued at a time
  None

ASSUME PushLoopAssumption ==
  /\ Intervals \subseteq BOOLEAN /\ OnlineAtLoad \subseteq BOOLEAN
  /\ Batch \in Nat \ {0} /\ MaxSoon \in Nat \ {0}
  /\ MaxWrites \in Nat /\ MaxPending \in 0 .. MaxWrites
  /\ MaxStarts \in Nat /\ MaxStops \in Nat /\ MaxFlips \in Nat
  /\ MaxFaults \in Nat /\ MaxUpsets \in Nat

VARIABLES
  interval,     \* pushInterval is set; it never changes
  \* start and stop
  started,
  generation,   \* wsGeneration
  starting,     \* calls of start that wait: <<call, generation it saw>>
  \* connectivity
  browser,      \* navigator.onLine
  listening,    \* the online and offline listeners are attached
  isOnline,
  paused,       \* pushPausedForOffline
  \* timers
  timer,        \* what this.timer refers to; "fired" is a timeout that is over
  stray,        \* live timers that this.timer does not refer to
  backoff,      \* pushIntervalBackoffActive
  soon,         \* queued setTimeout(processPush, 0)
  \* the push in flight
  pc,
  batch,        \* batchPending
  through,      \* throughSeq
  more,         \* another batch follows
  rerun,        \* pushRerunRequested
  \* the change log
  last, acked,
  \* history and bounds
  settled,      \* entries the server has applied or rejected for good
  uploading,    \* cloneUp: the last entry when it read the records, or None
  starts, stops, flips, faults, io, cloneUps

lifecycle == <<interval, started, generation, starting>>
network   == <<browser, listening, isOnline, paused>>
timers    == <<timer, stray, backoff>>
push      == <<pc, batch, through, more, rerun>>
log       == <<last, acked>>
bounds    == <<starts, stops, flips, faults, io, cloneUps>>
vars == <<lifecycle, network, timers, soon, push, log, settled, uploading, bounds>>

TypeOK ==
  /\ interval \in Intervals
  /\ started \in BOOLEAN /\ generation \in 0 .. MaxStops
  /\ starting \subseteq (1 .. MaxStarts) \X (0 .. MaxStops)
  /\ browser \in BOOLEAN /\ listening \in BOOLEAN
  /\ isOnline \in BOOLEAN /\ paused \in BOOLEAN
  /\ timer \in {"none", "interval", "timeout", "fired"}
  /\ stray \in [{"interval", "timeout"} -> Nat]
  /\ backoff \in BOOLEAN /\ soon \in 0 .. MaxSoon
  /\ pc \in {"idle", "list", "push", "ack", "cursors"}
  /\ batch \subseteq 1 .. last /\ Cardinality(batch) <= Batch
  /\ through \in 0 .. last
  /\ more \in BOOLEAN /\ rerun \in BOOLEAN
  /\ last \in 0 .. MaxWrites /\ acked \in 0 .. last
  /\ settled \subseteq 1 .. last
  /\ uploading \in 0 .. last \cup {None}
  /\ rerun => pc # "idle"

Init ==
  /\ interval \in Intervals
  /\ started = FALSE /\ generation = 0 /\ starting = {}
  /\ browser \in OnlineAtLoad
  /\ listening = FALSE /\ isOnline = browser /\ paused = FALSE
  /\ timer = "none"
  /\ stray = [kind \in {"interval", "timeout"} |-> 0]
  /\ backoff = FALSE /\ soon = 0
  /\ pc = "idle" /\ batch = {} /\ through = 0 /\ more = FALSE /\ rerun = FALSE
  /\ last \in 0 .. MaxPending /\ acked = 0
  /\ settled = {} /\ uploading = None
  /\ starts = 0 /\ stops = 0 /\ flips = 0 /\ faults = 0 /\ io = 0 /\ cloneUps = 0

----------------------------------------------------------------------------
(* Timers. *)

Live(t) == t \in {"interval", "timeout"}

\* this.timer is overwritten: what it referred to, if live, is stray.
Overwrite(t) ==
  /\ timer' = t
  /\ stray' = IF Live(timer) THEN [stray EXCEPT ![timer] = @ + 1] ELSE stray

\* The live timers of a kind.
LiveCount(kind) == stray[kind] + (IF timer = kind THEN 1 ELSE 0)

Queued(n) == IF soon + n > MaxSoon THEN MaxSoon ELSE soon + n

\* The first lines of processPush: a push in flight is asked to run again.
Called ==
  \/ pc # "idle" /\ rerun' = TRUE /\ UNCHANGED <<pc, batch, through, more>>
  \/ pc = "idle" /\ ~isOnline /\ UNCHANGED push
  \/ pc = "idle" /\ isOnline /\ pc' = "list" /\ UNCHANGED <<batch, through, more, rerun>>

FireInterval ==
  /\ LiveCount("interval") > 0
  /\ Called
  /\ UNCHANGED <<lifecycle, network, timers, soon, log, settled, uploading, bounds>>

FireTimeout ==
  /\ \/ timer = "timeout" /\ timer' = "fired" /\ UNCHANGED stray
     \/ stray["timeout"] > 0 /\ stray' = [stray EXCEPT !["timeout"] = @ - 1] /\ UNCHANGED timer
  /\ Called
  /\ UNCHANGED <<lifecycle, network, backoff, soon, log, settled, uploading, bounds>>

FireSoon ==
  /\ soon > 0
  /\ soon' = soon - 1
  /\ Called
  /\ UNCHANGED <<lifecycle, network, timers, log, settled, uploading, bounds>>

----------------------------------------------------------------------------
(* start and stop. *)

Start ==
  /\ ~started /\ starts < MaxStarts
  /\ started' = TRUE
  /\ starts' = starts + 1
  /\ starting' = starting \cup {<<starts', generation>>}
  /\ UNCHANGED <<interval, generation, network, timers, soon, push, log, settled, uploading,
                 stops, flips, faults, io, cloneUps>>

\* Mutant: a start that was overtaken by stop and start goes on as well.
CurrentAny(c) == started

\* Mutant: nothing is checked after the initial sync.
CurrentUnchecked(c) == TRUE

\* The check after the initial sync.
Current(c) == started /\ c[2] = generation

\* initializeSync is over: the loop and the listeners start.
StartEnd(c) ==
  /\ starting' = starting \ {c}
  /\ \/ ~Current(c) /\ UNCHANGED <<network, timers>>
     \/ /\ Current(c)
        /\ IF interval THEN Overwrite("interval") ELSE UNCHANGED <<timer, stray>>
        /\ isOnline' = browser
        /\ listening' = TRUE
        /\ UNCHANGED <<browser, paused, backoff>>
  /\ UNCHANGED <<interval, started, generation, soon, push, log, settled, uploading, bounds>>

\* initializeSync throws.
StartFails(c) ==
  /\ faults < MaxFaults
  /\ faults' = faults + 1
  /\ starting' = starting \ {c}
  /\ started' = FALSE
  /\ UNCHANGED <<interval, generation, network, timers, soon, push, log, settled, uploading,
                 starts, stops, flips, io, cloneUps>>

Stop ==
  /\ stops < MaxStops
  /\ stops' = stops + 1
  /\ started' = FALSE
  /\ generation' = generation + 1
  /\ timer' = "none"
  /\ listening' = FALSE
  /\ UNCHANGED <<interval, starting, browser, isOnline, paused, stray, backoff, soon, push, log,
                 settled, uploading, starts, flips, faults, io, cloneUps>>

----------------------------------------------------------------------------
(* The browser's events. *)

GoOffline ==
  /\ browser /\ flips < MaxFlips
  /\ flips' = flips + 1
  /\ browser' = FALSE
  /\ \/ ~listening /\ UNCHANGED <<isOnline, paused, timer>>
     \/ /\ listening
        /\ isOnline' = FALSE
        /\ IF timer # "none" /\ interval /\ ~backoff
             THEN timer' = "none" /\ paused' = TRUE
             ELSE UNCHANGED <<timer, paused>>
  /\ UNCHANGED <<lifecycle, listening, stray, backoff, soon, push, log, settled,
                 uploading, starts, stops, faults, io, cloneUps>>

GoOnline ==
  /\ ~browser
  /\ browser' = TRUE
  /\ \/ ~listening /\ UNCHANGED <<isOnline, paused, timer, stray, soon>>
     \/ /\ listening
        /\ isOnline' = TRUE
        /\ IF paused /\ interval
             THEN paused' = FALSE /\ Overwrite("interval")
             ELSE UNCHANGED <<paused, timer, stray>>
        /\ soon' = Queued(1)
  /\ UNCHANGED <<lifecycle, listening, backoff, push, log, settled, uploading, bounds>>

----------------------------------------------------------------------------
(* The change log. *)

\* A local mutation is appended; schedulePush, when there is no interval.
Write ==
  /\ last < MaxWrites
  /\ last' = last + 1
  /\ soon' = IF interval THEN soon ELSE Queued(1)
  /\ UNCHANGED <<lifecycle, network, timers, push, acked, settled, uploading, bounds>>

\* cloneUp reads the records and pushes them.
CloneUp ==
  /\ uploading = None /\ io + cloneUps < MaxUpsets
  /\ cloneUps' = cloneUps + 1
  /\ uploading' = last
  /\ UNCHANGED <<lifecycle, network, timers, soon, push, log, settled,
                 starts, stops, flips, faults, io>>

\* They are all accepted; then the change log is listed and acknowledged until
\* it is empty.
CloneUpDone ==
  /\ uploading # None
  /\ settled' = settled \cup 1 .. uploading
  /\ acked' = last
  /\ uploading' = None
  /\ UNCHANGED <<lifecycle, network, timers, soon, push, last, bounds>>

----------------------------------------------------------------------------
(* processPush. *)

\* Mutant: a call that came while the push was in flight is forgotten.
EndForgets(n) ==
  /\ pc' = "idle" /\ batch' = {} /\ through' = 0 /\ more' = FALSE /\ rerun' = FALSE
  /\ soon' = Queued(n)

\* Mutant: the request to run again is answered and not withdrawn.
EndKeepsRerun(n) ==
  /\ pc' = "idle" /\ batch' = {} /\ through' = 0 /\ more' = FALSE /\ rerun' = rerun
  /\ soon' = Queued(n + IF rerun THEN 1 ELSE 0)

\* The finally block; n calls were queued before.
End(n) ==
  /\ pc' = "idle" /\ batch' = {} /\ through' = 0 /\ more' = FALSE /\ rerun' = FALSE
  /\ soon' = Queued(n + IF rerun THEN 1 ELSE 0)

\* changelogList.
List ==
  /\ pc = "list"
  /\ LET pending == acked + 1 .. (IF acked + Batch < last THEN acked + Batch ELSE last)
     IN \/ pending = {} /\ End(0)
        \/ /\ pending # {}
           /\ pc' = "push"
           /\ batch' = pending
           /\ UNCHANGED <<through, more, rerun, soon>>
  /\ UNCHANGED <<lifecycle, network, timers, log, settled, uploading, bounds>>

\* applyPushIntervalBackoff.
Backoff ==
  /\ backoff' = (backoff \/ interval)
  /\ IF ~interval THEN UNCHANGED <<timer, stray>>
     ELSE IF backoff THEN Overwrite("timeout")
     ELSE timer' = "timeout" /\ UNCHANGED stray

\* Mutant: entries behind a gap are acknowledged too.
AckThroughLast(S) == Max({0} \cup S)

\* computeAckThroughSeq: the entries before the first one that is not settled.
AckThrough(S) == Max({0} \cup {n \in S : \A m \in batch : m <= n => m \in S})

\* Mutant: the interval that backoff has replaced is not established again.
ReestablishNot ==
  /\ backoff' = FALSE
  /\ UNCHANGED <<timer, stray>>

\* A success after a failure: the interval is established again.
Reestablish ==
  /\ backoff' = FALSE
  /\ timer' = IF backoff THEN "interval" ELSE timer
  /\ UNCHANGED stray

\* pushWithRetries returns a result; S is applied or rejected for good.
Answered(S) ==
  /\ pc = "push"
  /\ AckThrough(S) > 0
  /\ IF S = batch THEN UNCHANGED faults ELSE faults < MaxFaults /\ faults' = faults + 1
  /\ settled' = settled \cup S
  /\ through' = AckThrough(S)
  /\ more' = (S # batch \/ Cardinality(batch) = Batch)
  /\ Reestablish
  /\ pc' = "ack"
  /\ UNCHANGED <<lifecycle, network, soon, batch, rerun, log, uploading,
                 starts, stops, flips, io, cloneUps>>

\* pushWithRetries gives up, or the first entry is not settled.
NotAnswered(S) ==
  /\ pc = "push"
  /\ faults < MaxFaults
  /\ faults' = faults + 1
  /\ settled' = settled \cup S
  /\ Backoff
  /\ End(0)
  /\ UNCHANGED <<lifecycle, network, log, uploading, starts, stops, flips, io, cloneUps>>

\* changelogAck.
Ack ==
  /\ pc = "ack"
  /\ acked' = Max({acked, through})
  /\ pc' = "cursors"
  /\ UNCHANGED <<lifecycle, network, timers, soon, batch, through, more, rerun, last,
                 settled, uploading, bounds>>

\* The cursors are stored, and the next batch is scheduled.
Finish ==
  /\ pc = "cursors"
  /\ End(IF more THEN 1 ELSE 0)
  /\ UNCHANGED <<lifecycle, network, timers, log, settled, uploading, bounds>>

\* The local storage throws: the catch block only logs it.
StorageFails ==
  /\ pc \in {"list", "ack", "cursors"} /\ io + cloneUps < MaxUpsets
  /\ io' = io + 1
  /\ End(0)
  /\ UNCHANGED <<lifecycle, network, timers, log, settled, uploading,
                 starts, stops, flips, faults, cloneUps>>

Reply == \E S \in SUBSET batch : Answered(S) \/ NotAnswered(S)
ProcessPush == List \/ Reply \/ Ack \/ Finish

Next ==
  \/ Start \/ Stop \/ \E c \in starting : StartEnd(c) \/ StartFails(c)
  \/ GoOffline \/ GoOnline \/ Write \/ CloneUp \/ CloneUpDone
  \/ FireInterval \/ FireTimeout \/ FireSoon
  \/ ProcessPush \/ StorageFails

Spec == Init /\ [][Next]_vars
\* Timers fire, a push in flight ends, a start that waits ends.
FairSpec ==
  /\ Spec
  /\ WF_vars(FireInterval) /\ WF_vars(FireTimeout) /\ WF_vars(FireSoon)
  /\ WF_vars(ProcessPush)
  /\ WF_vars(\E c \in starting : StartEnd(c))

----------------------------------------------------------------------------
\* Without cloneUp, only entries the server has settled leave the change log:
\* computeAckThroughSeq stops at the first entry that is not settled, while
\* entries are appended behind the batch and other pushes are refused in part.
\* (cloneUp acknowledges entries that nothing has sent.)
NoUnsentAck == cloneUps = 0 => 1 .. acked \subseteq settled

\* Nothing but a retry brings a push that failed, or that was asked for while
\* the client was stopped, back; without an interval there is no such retry.
Retried == interval \/ (faults = 0 /\ stops = 0)

\* Without an interval nothing pushes what a page finds when it is loaded.
PushedAtLoad == interval \/ (browser /\ last = 0)

\* A client that stays started and online pushes every entry, whatever push
\* failed, whatever went offline and whoever called stop and start before, as
\* long as the local storage works and cloneUp is not called.  (In backoff, a push
\* that a storage error ends, or that cloneUp left nothing to do, arms no timer.)
EveryEntryPushed ==
  PushedAtLoad /\ <>[](started /\ browser) /\ [](io = 0 /\ cloneUps = 0 /\ Retried) =>
    \A n \in 1 .. MaxWrites : n <= last ~> n <= acked

\* No push has failed and the browser never went offline.
Undisturbed == faults = 0 /\ flips = 0

\* Whichever calls of start and stop overtake each other during the initial
\* sync, at most one timer pushes, and none once stop was called and no start
\* waits.  (A push that fails while the browser goes offline and online arms a
\* second one, and one that fails after stop arms one.)
OneTimer ==
  Undisturbed =>
    LiveCount("interval") + LiveCount("timeout") <=
      (IF started \/ starting # {} THEN 1 ELSE 0)

=============================================================================
