----------------------------- MODULE DeliveryLoop -----------------------------
(***************************************************************************)
(* How an agent process moves telemetry from its collectors to Pulse       *)
(* (internal/agent/agent.go): serve() with its fast lane, slow lane,       *)
(* delivery loop and watchdog, and once(), the single run.                 *)
(*                                                                         *)
(* The spool is a count of queued parts here; what it does to each of them *)
(* is in Spool.tla.  Batches arrive without end; a part that Pulse refuses *)
(* is split until what it refuses stands alone.  Time is counted in units  *)
(* of the initial backoff.                                                 *)
(***************************************************************************)
EXTENDS Integers, FiniteSets

CONSTANTS
  InitialBackoff,  \* Client.InitialBackoff
  ProbeBackoff,    \* the minute between probes of a pausing Pulse
  BackoffCap,      \* maxBackoff
  MaxRetries,      \* Config.HTTP.MaxRetries, for the single run
  MaxParts,        \* parts the spool holds before it evicts the oldest
  MaxHalves,       \* bound: how often what is left of a part is split
  MaxHold,         \* bound: the longest Retry-After
  MaxNotices       \* bound: pending notices that are counted

ASSUME BackoffAssumption ==
  /\ InitialBackoff \in Nat \ {0} /\ ProbeBackoff \in Nat /\ BackoffCap \in Nat
  /\ InitialBackoff <= ProbeBackoff /\ ProbeBackoff <= BackoffCap
ASSUME LoopBoundsAssumption ==
  /\ MaxRetries \in Nat /\ MaxHold \in Nat /\ MaxHalves \in Nat
  /\ MaxParts \in Nat \ {0} /\ MaxNotices \in Nat \ {0}

VARIABLES
  ctx,      \* "live", or "done" after a signal or the end of a single run's time
  fast,     \* where the service's main goroutine is
  slow,     \* where the goroutine of the slow lane is
  watch,    \* where the watchdog goroutine is
  wake,     \* whether the channel wake, of capacity one, holds a value
  deliver,  \* where the delivery loop is
  once,     \* where a single run is; "no" in a service
  queued,   \* parts in the spool; the halves of one count as that part
  halves,   \* how many parts the splits of the oldest one added
  wire,     \* the part being sent: "none", the "head", or one evicted meanwhile
  attempt,  \* the counter of deliverLoop or drainWithRetries
  timer,    \* what is left of the current wait
  pulse,    \* what Pulse answers: "up", "retry" or "pause"
  disk,     \* whether reads, writes and removals of files succeed
  hold,     \* what is left of the wait announced last, by Pulse or the spool
  notices,  \* pending rejections in Stats
  dropped   \* history: whether rejections were taken from Stats in vain

vars == <<ctx, fast, slow, watch, wake, deliver, once, queued, halves, wire,
          attempt, timer, pulse, disk, hold, notices, dropped>>
spooled == <<queued, halves>>
world == <<pulse, disk>>
lanes == <<fast, slow, watch, wake>>
link == <<deliver, wire, attempt, timer, hold>>
-----------------------------------------------------------------------------
Lower(a, b) == IF a < b THEN a ELSE b
Higher(a, b) == IF a > b THEN a ELSE b

(* Backoff doubles the first delay per attempt, up to the cap.  attempt is *)
(* not counted further once that is reached.  Mutant: there is no cap.     *)
Backoff_Uncapped(first, n) == first * 2 ^ n
Backoff(first, n) == Lower(first * 2 ^ n, BackoffCap)
Counted(n) == IF Backoff(InitialBackoff, n) < BackoffCap \/ n < MaxRetries THEN n + 1 ELSE n

(* How long the loop waits after an attempt that Pulse did not accept.     *)
(* Mutant: Retry-After is ignored.                                         *)
Wait_NoRetryAfter(answer, after, n) ==
  Backoff(IF answer = "pause" THEN ProbeBackoff ELSE InitialBackoff, n)
Wait(answer, after, n) ==
  Higher(after, Backoff(IF answer = "pause" THEN ProbeBackoff ELSE InitialBackoff, n))

(* newAgent has opened the spool, which holds what an earlier run left.    *)
Init ==
  /\ ctx = "live" /\ wake = FALSE /\ queued \in 0 .. MaxParts /\ wire = "none"
  /\ halves = 0 /\ attempt = 0 /\ timer = 0 /\ pulse = "up" /\ disk = TRUE
  /\ hold = 0 /\ notices = 0 /\ dropped = FALSE
  /\ \/ /\ once = "no" /\ fast = "collect" /\ slow = "next"
        /\ watch \in {"ticking", "returned"} /\ deliver = "drain"
     \/ /\ once = "collect" /\ fast = "none" /\ slow = "none"
        /\ watch = "none" /\ deliver = "none"

(* The signal ends the context; so does, in once(), the interval.          *)
Cancel ==
  /\ ctx = "live" /\ ctx' = "done"
  /\ UNCHANGED <<lanes, link, once, spooled, world, notices, dropped>>

Pulse(answer) ==
  /\ pulse # answer /\ pulse' = answer
  /\ UNCHANGED <<ctx, lanes, link, once, spooled, disk, notices, dropped>>

DiskChanges ==
  /\ disk' = ~disk
  /\ UNCHANGED <<ctx, lanes, link, once, spooled, pulse, notices, dropped>>

Tick ==
  /\ timer > 0 \/ hold > 0
  /\ timer' = Higher(timer - 1, 0) /\ hold' = Higher(hold - 1, 0)
  /\ UNCHANGED <<ctx, lanes, deliver, wire, attempt, once, spooled, world,
                 notices, dropped>>
-----------------------------------------------------------------------------
(* Enqueue of one batch.  The spool evicts its oldest parts to make room,  *)
(* which may be the one on the wire.                                       *)
Enqueue ==
  \/ queued < MaxParts /\ queued' = queued + 1 /\ UNCHANGED <<halves, wire>>
  \/ /\ queued = MaxParts /\ UNCHANGED queued /\ halves' = 0
     /\ wire' = IF wire = "head" THEN "gone" ELSE wire

(* It fails before the first part of the batch is in the queue or later. *)
EnqueueFails ==
  \/ Enqueue
  \/ UNCHANGED <<spooled, wire>>

(* Notices leave Stats when their events are built, before these are queued. *)
TakeNotices(queuedToo) ==
  notices' = 0 /\ dropped' = (dropped \/ (notices > 0 /\ ~queuedToo))

(* The fast lane: collect and queue; then a value for wake unless it holds *)
(* one; then the ticker or the end of the context.                         *)
FastCollect ==
  /\ fast = "collect" /\ fast' = "signal"
  /\ \/ Enqueue /\ TakeNotices(TRUE)
     \/ EnqueueFails /\ TakeNotices(FALSE)
  /\ UNCHANGED <<ctx, slow, watch, wake, deliver, once, attempt, timer, world, hold>>

(* Mutant: the lane signals only when the delivery loop already waits. *)
FastSignal_IfWaiting ==
  /\ fast = "signal" /\ fast' = "select" /\ wake' = (wake \/ deliver = "idle")
  /\ UNCHANGED <<ctx, slow, watch, link, once, spooled, world, notices, dropped>>
FastSignal ==
  /\ fast = "signal" /\ fast' = "select" /\ wake' = TRUE
  /\ UNCHANGED <<ctx, slow, watch, link, once, spooled, world, notices, dropped>>

FastTick ==
  /\ fast = "select" /\ fast' = "collect"
  /\ UNCHANGED <<ctx, slow, watch, wake, link, once, spooled, world, notices, dropped>>

FastEnds ==
  /\ fast = "select" /\ ctx = "done" /\ fast' = "join"
  /\ UNCHANGED <<ctx, slow, watch, wake, link, once, spooled, world, notices, dropped>>

(* serve() returns when the three goroutines have, and close() follows.    *)
(* Mutant: it does not wait for the slow lane.                             *)
Joined_NotSlow == deliver = "returned" /\ watch = "returned"
Joined == deliver = "returned" /\ slow = "returned" /\ watch = "returned"
Close ==
  /\ fast = "join" /\ Joined /\ fast' = "closed"
  /\ UNCHANGED <<ctx, slow, watch, wake, link, once, spooled, world, notices, dropped>>

(* The slow lane: CollectSlow emits the batch of each collector that is    *)
(* due, and looks at the context only before the next one.                 *)
SlowStart ==
  /\ slow = "next" /\ ctx = "live" /\ slow' = "collect"
  /\ UNCHANGED <<ctx, fast, watch, wake, link, once, spooled, world, notices, dropped>>

SlowEmit ==
  /\ slow = "collect" /\ slow' = "signal"
  /\ EnqueueFails
  /\ UNCHANGED <<ctx, fast, watch, wake, deliver, once, attempt, timer, world,
                 hold, notices, dropped>>

SlowSignal ==
  /\ slow = "signal" /\ slow' = "next" /\ wake' = TRUE
  /\ UNCHANGED <<ctx, fast, watch, link, once, spooled, world, notices, dropped>>

SlowPassEnds ==
  /\ slow = "next" /\ slow' = "select"
  /\ UNCHANGED <<ctx, fast, watch, wake, link, once, spooled, world, notices, dropped>>

SlowTick ==
  /\ slow = "select" /\ slow' = "next"
  /\ UNCHANGED <<ctx, fast, watch, wake, link, once, spooled, world, notices, dropped>>

SlowEnds ==
  /\ slow = "select" /\ ctx = "done" /\ slow' = "returned"
  /\ UNCHANGED <<ctx, fast, watch, wake, link, once, spooled, world, notices, dropped>>

WatchdogReturns ==
  /\ watch = "ticking" /\ ctx = "done" /\ watch' = "returned"
  /\ UNCHANGED <<ctx, fast, slow, wake, link, once, spooled, world, notices, dropped>>
-----------------------------------------------------------------------------
(* Drain, for the delivery loop and for a single run. *)
Draining == deliver = "drain" \/ once \in {"drain", "again"}

SendHead ==
  /\ Draining /\ ctx = "live" /\ wire = "none" /\ queued > 0
  /\ wire' = "head"
  /\ UNCHANGED <<ctx, lanes, deliver, attempt, timer, hold, once, spooled, world,
                 notices, dropped>>

(* remove: a part evicted while it was on the wire is already gone.        *)
(* Mutant: a delivered part is not taken out.                              *)
Removed_Kept == UNCHANGED spooled
Removed ==
  \/ wire = "gone" /\ UNCHANGED spooled
  \/ wire = "head" /\ halves > 0 /\ halves' = halves - 1 /\ UNCHANGED queued
  \/ wire = "head" /\ halves = 0 /\ queued' = queued - 1 /\ UNCHANGED halves

Delivered ==
  /\ wire # "none" /\ pulse = "up"
  /\ wire' = "none" /\ Removed
  /\ UNCHANGED <<ctx, lanes, deliver, attempt, timer, hold, once, world,
                 notices, dropped>>

(* reject puts an item that stands alone in quarantine, with a notice. *)
Rejected ==
  /\ wire # "none" /\ pulse = "up"
  /\ wire' = "none" /\ Removed
  /\ notices' = Lower(notices + 1, MaxNotices)
  /\ UNCHANGED <<ctx, lanes, deliver, attempt, timer, hold, once, world, dropped>>

(* reject splits what has several items; the drain goes on with the first  *)
(* half.                                                                   *)
Split ==
  /\ wire = "head" /\ pulse = "up" /\ halves < MaxHalves
  /\ wire' = "none" /\ halves' = halves + 1
  /\ UNCHANGED <<ctx, lanes, deliver, attempt, timer, hold, once, queued, world,
                 notices, dropped>>

(* The results Drain returns when it does not deliver.  Pulse's answer     *)
(* with its Retry-After; *)
Announced(answer, after) ==
  wire # "none" /\ pulse = answer /\ answer # "up" /\ hold' = after /\ UNCHANGED notices

(* the end of the window in which no more splits are allowed;              *)
SplitsSpent(answer, after) ==
  wire # "none" /\ pulse = "up" /\ answer = "retry" /\ hold' = after /\ UNCHANGED notices

(* a transport error, the end of the context, or a file that cannot be     *)
(* read, written or removed, which may leave a part that has its notice.   *)
Failed(answer, after) ==
  /\ answer = "retry" /\ after = 0 /\ UNCHANGED hold
  /\ \/ wire # "none" /\ pulse = "retry" /\ UNCHANGED notices
     \/ ctx = "done" /\ UNCHANGED notices
     \/ ~disk /\ wire = "none" /\ queued > 0 /\ UNCHANGED notices
     \/ /\ ~disk /\ wire # "none" /\ pulse = "up"
        /\ notices' \in {notices, Lower(notices + 1, MaxNotices)}

Refusal(answer, after) ==
  Announced(answer, after) \/ SplitsSpent(answer, after) \/ Failed(answer, after)

(* deliverLoop *)
DrainBlocked(answer, after) ==
  /\ deliver = "drain" /\ Refusal(answer, after) /\ wire' = "none"
  /\ IF ctx = "done"
     THEN deliver' = "returned" /\ UNCHANGED <<attempt, timer>>
     ELSE /\ deliver' = "backoff"
          /\ timer' = Wait(answer, after, attempt) /\ attempt' = Counted(attempt)
  /\ UNCHANGED <<ctx, lanes, once, spooled, world, dropped>>

(* The queue is found empty; by the time the loop waits it may not be. *)
DrainDone ==
  /\ deliver = "drain" /\ ctx = "live" /\ wire = "none" /\ queued = 0
  /\ deliver' = "drained" /\ attempt' = 0
  /\ UNCHANGED <<ctx, lanes, wire, timer, hold, once, spooled, world, notices, dropped>>

WaitForParts ==
  /\ deliver = "drained" /\ deliver' = "idle"
  /\ UNCHANGED <<ctx, lanes, wire, attempt, timer, hold, once, spooled, world,
                 notices, dropped>>

WakeUp ==
  /\ deliver = "idle" /\ wake /\ wake' = FALSE /\ deliver' = "drain"
  /\ UNCHANGED <<ctx, fast, slow, watch, wire, attempt, timer, hold, once, spooled,
                 world, notices, dropped>>

WaitOver == timer = 0
TimerFires ==
  /\ deliver = "backoff" /\ WaitOver /\ deliver' = "drain"
  /\ timer' = 0
  /\ UNCHANGED <<ctx, lanes, wire, attempt, hold, once, spooled, world, notices, dropped>>

(* Mutant: only the wait of a blocked delivery watches the context. *)
DeliverReturns_Blocked ==
  /\ deliver = "backoff" /\ ctx = "done" /\ deliver' = "returned"
  /\ UNCHANGED <<ctx, lanes, wire, attempt, timer, hold, once, spooled, world,
                 notices, dropped>>
DeliverReturns ==
  /\ deliver \in {"idle", "backoff"} /\ ctx = "done" /\ deliver' = "returned"
  /\ UNCHANGED <<ctx, lanes, wire, attempt, timer, hold, once, spooled, world,
                 notices, dropped>>
-----------------------------------------------------------------------------
(* once(): collect and queue everything, drain with bounded retries, queue *)
(* the notices as events and drain those.                                  *)
OnceCollect ==
  /\ once = "collect"
  /\ \/ Enqueue /\ once' = "drain"
     \/ EnqueueFails /\ once' = "failed"
  /\ UNCHANGED <<ctx, lanes, deliver, attempt, timer, hold, world, notices, dropped>>

OnceBlocked(answer, after) ==
  /\ once = "drain" /\ Refusal(answer, after) /\ wire' = "none"
  /\ IF answer = "retry" /\ attempt < MaxRetries /\ ctx = "live"
     THEN /\ once' = "wait" /\ attempt' = Counted(attempt)
          /\ timer' = Wait(answer, after, attempt)
     ELSE once' = "notices" /\ UNCHANGED <<attempt, timer>>
  /\ UNCHANGED <<ctx, lanes, deliver, spooled, world, dropped>>

OnceWaited ==
  /\ once = "wait"
  /\ \/ WaitOver /\ once' = "drain"
     \/ ctx = "done" /\ once' = "notices"
  /\ timer' = 0
  /\ UNCHANGED <<ctx, lanes, deliver, wire, attempt, hold, spooled, world,
                 notices, dropped>>

(* The queue is empty.  Without notices the run has succeeded; with some   *)
(* it goes on if their events can be queued, and succeeds if not.          *)
OnceDrained ==
  /\ once = "drain" /\ ctx = "live" /\ wire = "none" /\ queued = 0
  /\ \/ notices = 0 /\ once' = "ok" /\ TakeNotices(TRUE) /\ UNCHANGED queued
     \/ notices > 0 /\ once' = "again" /\ TakeNotices(TRUE) /\ queued' = 1
     \/ notices > 0 /\ once' = "ok" /\ TakeNotices(FALSE) /\ UNCHANGED queued
  /\ UNCHANGED <<ctx, lanes, link, halves, world>>

(* The queue is not empty: the notices are taken, but not queued. *)
OnceGivesUp ==
  /\ once = "notices" /\ once' = "failed" /\ TakeNotices(FALSE)
  /\ UNCHANGED <<ctx, lanes, link, spooled, world>>

(* Mutant: the result of the second drain is not looked at. *)
Exit_Ignored(delivered) == "ok"
Exit(delivered) == IF delivered THEN "ok" ELSE "failed"

OnceReported ==
  /\ once = "again" /\ ctx = "live" /\ wire = "none" /\ queued = 0
  /\ once' = Exit(TRUE)
  /\ UNCHANGED <<ctx, lanes, link, spooled, world, notices, dropped>>

OnceNotReported(answer, after) ==
  /\ once = "again" /\ Refusal(answer, after) /\ wire' = "none"
  /\ once' = Exit(FALSE)
  /\ UNCHANGED <<ctx, lanes, deliver, attempt, timer, spooled, world, dropped>>
-----------------------------------------------------------------------------
FastLane == FastCollect \/ FastSignal \/ FastTick \/ FastEnds \/ Close
SlowLane == SlowStart \/ SlowEmit \/ SlowSignal \/ SlowPassEnds \/ SlowTick \/ SlowEnds
Blocked ==
  \E answer \in {"retry", "pause"}, after \in 0 .. MaxHold :
    DrainBlocked(answer, after) \/ OnceBlocked(answer, after) \/ OnceNotReported(answer, after)
Drain == SendHead \/ Delivered \/ Rejected \/ Split \/ DrainDone \/ Blocked
Loop == WaitForParts \/ WakeUp \/ TimerFires \/ DeliverReturns
Once == OnceCollect \/ OnceWaited \/ OnceDrained \/ OnceGivesUp \/ OnceReported

Next ==
  \/ Cancel \/ Tick \/ (\E answer \in {"up", "retry", "pause"} : Pulse(answer)) \/ DiskChanges
  \/ FastLane \/ SlowLane \/ WatchdogReturns \/ Drain \/ Loop \/ Once

(* Time passes, goroutines that can go on do, every request is answered or *)
(* cut off by its timeout.  A select whose channels are both ready picks   *)
(* either, so a lane that is asked again and again does see the context.   *)
(* A new window allows splits again, so a part that is refused again and   *)
(* again is not held up by the limit of splits for ever.                   *)
Fairness ==
  /\ WF_vars(Tick) /\ WF_vars(FastLane) /\ WF_vars(SlowLane)
  /\ WF_vars(WatchdogReturns) /\ WF_vars(Drain) /\ WF_vars(Loop) /\ WF_vars(Once)
  /\ SF_vars(FastEnds) /\ SF_vars(SlowEnds) /\ SF_vars(Delivered \/ Rejected \/ Split)
Spec == Init /\ [][Next]_vars /\ Fairness
-----------------------------------------------------------------------------
(* Only known values; a wait has an end. *)
TypeOK ==
  /\ ctx \in {"live", "done"} /\ wake \in BOOLEAN /\ dropped \in BOOLEAN
  /\ fast \in {"none", "collect", "signal", "select", "join", "closed"}
  /\ slow \in {"none", "next", "collect", "signal", "select", "returned"}
  /\ watch \in {"none", "ticking", "returned"}
  /\ deliver \in {"none", "drain", "drained", "idle", "backoff", "returned"}
  /\ once \in {"no", "collect", "drain", "wait", "notices", "again", "ok", "failed"}
  /\ queued \in 0 .. MaxParts /\ halves \in 0 .. MaxHalves
  /\ wire \in {"none", "head", "gone"} /\ disk \in BOOLEAN
  /\ attempt \in Nat /\ timer \in 0 .. Higher(BackoffCap, MaxHold)
  /\ pulse \in {"up", "retry", "pause"} /\ hold \in 0 .. MaxHold
  /\ notices \in 0 .. MaxNotices

(* When the delivery loop waits for new parts while the queue holds some,  *)
(* it is about to be woken: by the value in the channel or by the lane     *)
(* that queued them (deliverLoop, and the two selects on wake in serve).   *)
NoLostWakeup ==
  deliver = "idle" /\ queued > 0 => wake \/ fast = "signal" \/ slow = "signal"

(* A Retry-After, and the pause of a spool that may split no more, are     *)
(* honoured: no request starts before they are over, be it the loop's, a   *)
(* retry's or one for parts that arrived meanwhile.                        *)
RetryAfterHonoured == [][wire = "none" /\ wire' # "none" => hold = 0]_vars

(* The state cache is saved and the spool unlocked, close(), only when no  *)
(* goroutine can queue, send or remove anything any more.                  *)
ClosedLast ==
  [][fast = "closed" => UNCHANGED <<queued, wire, slow, deliver, watch>>]_vars

(* A single run exits successfully only when nothing stays queued: all it  *)
(* collected, and the events it queued last, reached Pulse or quarantine.  *)
SuccessIsComplete == once = "ok" => queued = 0 /\ wire = "none"

(* "Rejections found while draining are reported now; a short run has no   *)
(* next cycle" (once): a run that ends has reported them.                  *)
RejectionsReported == once = "failed" => ~dropped

(* Once Pulse takes requests and the disk works for good, the service      *)
(* empties its queue again and again or, while batches keep coming, parts  *)
(* keep leaving it: however far the backoff had grown, whatever the lanes  *)
(* queue meanwhile and however often splits have to wait for their window. *)
PartLeaves ==
  \/ wire = "gone" /\ wire' = "none"
  \/ queued' + halves' < queued + halves
RecoveryDrains ==
  once = "no" /\ <>[](pulse = "up" /\ disk /\ ctx = "live") =>
    []<>(queued = 0) \/ []<><<PartLeaves>>_vars

(* A signal ends the process, whatever each goroutine is doing. *)
ShutdownEnds == ctx = "done" ~> fast = "closed" \/ once \in {"ok", "failed"}
=============================================================================
