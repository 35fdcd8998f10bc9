------------------------- MODULE DeliveryLoopProofs -------------------------
(***************************************************************************)
(* Proofs about the service's delivery loop and the single run for every   *)
(* value of the constants: any backoff, any Retry-After, any queue.        *)
(***************************************************************************)
EXTENDS DeliveryLoop, TLAPS
-----------------------------------------------------------------------------
(* The inductive invariant *)

(* A process is a service or a single run, and runs nothing of the other. *)
OneMode ==
  \/ once = "no" /\ fast # "none" /\ slow # "none" /\ watch # "none" /\ deliver # "none"
  \/ once # "no" /\ fast = "none" /\ slow = "none" /\ watch = "none" /\ deliver = "none"

(* A request is on the wire only during a drain, and a part that is on the *)
(* wire and still in the queue is in the queue.                            *)
OnWire ==
  /\ wire # "none" => Draining
  /\ wire = "head" => queued > 0

(* Whoever is about to wait for parts will be woken for those there are. *)
WokenLater ==
  deliver \in {"drained", "idle"} /\ queued > 0 => wake \/ fast = "signal" \/ slow = "signal"

(* Where a request may start nothing is left of the Retry-After, and a     *)
(* wait lasts at least as long as what is left of it.                      *)
HoldCovered ==
  /\ deliver \in {"drain", "drained", "idle"} \/ once \in {"collect", "drain", "again"}
       => hold = 0
  /\ deliver = "backoff" \/ once = "wait" => hold <= timer

(* The process closes after its goroutines, and succeeds with an empty queue. *)
ClosedAfter == fast = "closed" => slow = "returned" /\ deliver = "returned" /\ watch = "returned"

IInv ==
  TypeOK /\ OneMode /\ OnWire /\ WokenLater /\ HoldCovered /\ ClosedAfter /\ SuccessIsComplete
-----------------------------------------------------------------------------
(* The waits *)

(* A wait is bounded, and no shorter than the Retry-After. *)
LEMMA WaitBounds ==
  ASSUME NEW n \in Nat, NEW after \in 0 .. MaxHold, NEW answer \in {"retry", "pause"}
  PROVE  /\ Wait(answer, after, n) \in 0 .. Higher(BackoffCap, MaxHold)
         /\ after <= Wait(answer, after, n)
<1> DEFINE first == IF answer = "pause" THEN ProbeBackoff ELSE InitialBackoff
<1>1. /\ BackoffCap \in Nat /\ MaxHold \in Nat /\ first \in Nat
  BY BackoffAssumption, LoopBoundsAssumption
<1>2. 2 ^ n \in Int
  OBVIOUS
<1>3. first * 2 ^ n \in Int
  BY <1>1, <1>2
<1>4. Backoff(first, n) \in Int /\ Backoff(first, n) <= BackoffCap
  BY <1>1, <1>3 DEF Backoff, Lower
<1>5. Wait(answer, after, n) = Higher(after, Backoff(first, n))
  BY DEF Wait
<1> HIDE DEF first
<1> QED BY <1>1, <1>4, <1>5 DEF Higher

(* The counter of attempts stays a number. *)
LEMMA CountedIsNat == ASSUME NEW n \in Nat PROVE Counted(n) \in Nat
BY DEF Counted

(* What a tick leaves of a wait and of the Retry-After. *)
LEMMA TickBounds ==
  ASSUME NEW t \in Nat, NEW h \in Nat, h <= t
  PROVE  /\ Higher(t - 1, 0) \in 0 .. t /\ Higher(h - 1, 0) \in 0 .. h
         /\ Higher(h - 1, 0) <= Higher(t - 1, 0)
BY DEF Higher
-----------------------------------------------------------------------------
(* Initially *)
LEMMA InitInv == Init => IInv
<1> SUFFICES ASSUME Init PROVE IInv
  OBVIOUS
<1>1. /\ MaxParts \in Nat /\ MaxNotices \in Nat /\ MaxHold \in Nat /\ MaxHalves \in Nat
      /\ BackoffCap \in Nat
  BY BackoffAssumption, LoopBoundsAssumption
<1>2. TypeOK
  <2>1. timer \in 0 .. Higher(BackoffCap, MaxHold) /\ timer = 0
    BY <1>1 DEF Init, Higher
  <2>2. wake \in BOOLEAN /\ dropped \in BOOLEAN /\ disk \in BOOLEAN
    BY DEF Init
  <2>3. /\ queued \in 0 .. MaxParts /\ attempt \in Nat /\ hold \in 0 .. MaxHold
        /\ notices \in 0 .. MaxNotices /\ halves \in 0 .. MaxHalves
    BY <1>1 DEF Init
  <2> QED BY <2>1, <2>2, <2>3 DEF Init, TypeOK
<1>3. OneMode /\ OnWire /\ WokenLater /\ HoldCovered /\ ClosedAfter /\ SuccessIsComplete
  BY <1>1 DEF Init, OneMode, OnWire, WokenLater, HoldCovered, ClosedAfter, SuccessIsComplete
<1> QED BY <1>2, <1>3 DEF IInv
-----------------------------------------------------------------------------
(* The steps *)

(* What the constants are, for the steps. *)
LEMMA Bounds ==
  /\ MaxParts \in Nat \ {0} /\ MaxNotices \in Nat \ {0} /\ MaxHold \in Nat
  /\ MaxHalves \in Nat /\ BackoffCap \in Nat
BY BackoffAssumption, LoopBoundsAssumption

(* Zero is a wait. *)
LEMMA ZeroWait == 0 \in 0 .. Higher(BackoffCap, MaxHold)
BY Bounds DEF Higher

(* What is left once a part, or the first half of one, is taken out. *)
LEMMA RemovedBounds ==
  ASSUME queued \in 0 .. MaxParts, halves \in 0 .. MaxHalves, wire = "head" => queued > 0,
         Removed
  PROVE  /\ queued' \in 0 .. MaxParts /\ halves' \in 0 .. MaxHalves
         /\ queued' > 0 => queued > 0
<1>1. CASE UNCHANGED spooled
  BY <1>1 DEF spooled
<1>2. CASE wire = "head" /\ halves > 0 /\ halves' = halves - 1 /\ UNCHANGED queued
  BY <1>2, Bounds
<1>3. CASE wire = "head" /\ halves = 0 /\ queued' = queued - 1 /\ UNCHANGED halves
  BY <1>3, Bounds
<1> QED BY <1>1, <1>2, <1>3 DEF Removed

(* A blocked drain: the loop waits, a single run waits or gives up.        *)
LEMMA BlockedInv ==
  ASSUME IInv, NEW answer \in {"retry", "pause"}, NEW after \in 0 .. MaxHold,
         \/ DrainBlocked(answer, after) \/ OnceBlocked(answer, after)
         \/ OnceNotReported(answer, after)
  PROVE  IInv'
<1> USE Bounds DEF IInv, TypeOK, OneMode, OnWire, WokenLater, HoldCovered, ClosedAfter,
                   SuccessIsComplete, Draining, lanes, spooled, world
<1>1. hold = 0
  BY DEF DrainBlocked, OnceBlocked, OnceNotReported
<1>2. hold' \in 0 .. MaxHold /\ hold' <= after
  <2>1. Refusal(answer, after)
    BY DEF DrainBlocked, OnceBlocked, OnceNotReported
  <2>2. hold' = after \/ hold' = hold
    BY <2>1 DEF Refusal, Announced, SplitsSpent, Failed
  <2> QED BY <1>1, <2>2
<1>8. notices' \in 0 .. MaxNotices
  <2>1. Refusal(answer, after)
    BY DEF DrainBlocked, OnceBlocked, OnceNotReported
  <2> QED BY <2>1 DEF Refusal, Announced, SplitsSpent, Failed, Lower
<1>3. Counted(attempt) \in Nat
  BY CountedIsNat
<1>4. /\ Wait(answer, after, attempt) \in 0 .. Higher(BackoffCap, MaxHold)
      /\ after <= Wait(answer, after, attempt)
  BY WaitBounds
<1>5. CASE DrainBlocked(answer, after)
  BY <1>1, <1>2, <1>3, <1>4, <1>8, <1>5 DEF DrainBlocked
<1>6. CASE OnceBlocked(answer, after)
  BY <1>1, <1>2, <1>3, <1>4, <1>8, <1>6 DEF OnceBlocked
<1>7. CASE OnceNotReported(answer, after)
  BY <1>1, <1>2, <1>8, <1>7 DEF OnceNotReported, Exit
<1> QED BY <1>5, <1>6, <1>7

LEMMA StepInv == ASSUME IInv, [Next]_vars PROVE IInv'
<1> USE Bounds, ZeroWait
        DEF IInv, TypeOK, OneMode, OnWire, WokenLater, HoldCovered, ClosedAfter,
            SuccessIsComplete, Draining, lanes, link, spooled, world
<1>1. CASE Cancel
  BY <1>1 DEF Cancel
<1>2. CASE Tick
  BY <1>2 DEF Tick, Higher
<1>3. CASE FastSignal
  BY <1>3 DEF FastSignal
<1>4. CASE FastTick
  BY <1>4 DEF FastTick
<1>5. CASE FastEnds
  BY <1>5 DEF FastEnds
<1>6. CASE Close
  BY <1>6 DEF Close, Joined
<1>7. CASE SlowStart
  BY <1>7 DEF SlowStart
<1>8. CASE SlowEmit
  BY <1>8 DEF SlowEmit, Enqueue, EnqueueFails
<1>9. CASE SlowSignal
  BY <1>9 DEF SlowSignal
<1>10. CASE SlowPassEnds
  BY <1>10 DEF SlowPassEnds
<1>11. CASE SlowTick
  BY <1>11 DEF SlowTick
<1>12. CASE SlowEnds
  BY <1>12 DEF SlowEnds
<1>13. CASE WatchdogReturns
  BY <1>13 DEF WatchdogReturns
<1>14. CASE SendHead
  BY <1>14 DEF SendHead
<1>15. CASE Delivered
  BY <1>15, RemovedBounds DEF Delivered
<1>16. CASE Rejected
  BY <1>16, RemovedBounds DEF Rejected, Lower
<1>17. CASE DrainDone
  BY <1>17 DEF DrainDone
<1>18. CASE WaitForParts
  BY <1>18 DEF WaitForParts
<1>19. CASE WakeUp
  <2>1. /\ deliver = "idle" /\ wake' = FALSE /\ deliver' = "drain"
        /\ UNCHANGED <<ctx, fast, slow, watch, wire, attempt, timer, hold, once, queued,
                       halves, pulse, disk, notices, dropped>>
    BY <1>19 DEF WakeUp
  <2>2. wake' \in BOOLEAN /\ disk' \in BOOLEAN /\ dropped' \in BOOLEAN
    BY <2>1, Zenon
  <2>3. hold' = 0 /\ ~(deliver' \in {"drained", "idle"})
    BY <2>1
  <2> QED BY <2>1, <2>2, <2>3
<1>20. CASE TimerFires
  BY <1>20 DEF TimerFires, WaitOver
<1>21. CASE DeliverReturns
  BY <1>21 DEF DeliverReturns
<1>22. CASE OnceCollect
  BY <1>22 DEF OnceCollect, Enqueue, EnqueueFails
<1>23. CASE OnceGivesUp
  BY <1>23 DEF OnceGivesUp, TakeNotices
<1>24. CASE OnceReported
  BY <1>24 DEF OnceReported, Exit
<1>25. CASE FastCollect
  <2>1. dropped' \in BOOLEAN /\ notices' = 0
    BY <1>25 DEF FastCollect, TakeNotices
  <2>2. fast = "collect" /\ fast' = "signal" /\ EnqueueFails
    BY <1>25 DEF FastCollect, EnqueueFails
  <2>3. UNCHANGED <<ctx, slow, watch, wake, deliver, once, attempt, timer, pulse, disk, hold>>
    BY <1>25 DEF FastCollect
  <2> QED BY <2>1, <2>2, <2>3 DEF EnqueueFails, Enqueue
<1>26. CASE OnceWaited
  <2>1. timer' = 0 /\ timer' \in 0 .. Higher(BackoffCap, MaxHold)
    BY <1>26 DEF OnceWaited
  <2> QED BY <1>26, <2>1 DEF OnceWaited, WaitOver
<1>27. CASE OnceDrained
  <2>1. dropped' \in BOOLEAN /\ notices' = 0
    BY <1>27 DEF OnceDrained, TakeNotices
  <2>2. /\ once = "drain" /\ wire = "none" /\ queued = 0
        /\ \/ once' = "ok" /\ UNCHANGED queued
           \/ once' = "again" /\ queued' = 1
    BY <1>27, Zenon DEF OnceDrained
  <2>3. UNCHANGED <<ctx, fast, slow, watch, wake, deliver, wire, attempt, timer, hold, pulse, disk, halves>>
    BY <1>27 DEF OnceDrained
  <2> QED BY <2>1, <2>2, <2>3
<1>28. CASE \E answer \in {"up", "retry", "pause"} : Pulse(answer)
  BY <1>28 DEF Pulse
<1>29. CASE Blocked
  BY <1>29, BlockedInv DEF Blocked
<1>30. CASE UNCHANGED vars
  BY <1>30 DEF vars
<1>31. CASE DiskChanges
  BY <1>31 DEF DiskChanges
<1>32. CASE Split
  BY <1>32 DEF Split
<1> QED
  BY <1>1, <1>2, <1>3, <1>4, <1>5, <1>6, <1>7, <1>8, <1>9, <1>10,
     <1>11, <1>12, <1>13, <1>14, <1>15, <1>16, <1>17, <1>18, <1>19, <1>20,
     <1>21, <1>22, <1>23, <1>24, <1>25, <1>26, <1>27, <1>28, <1>29, <1>30,
     <1>31, <1>32
     DEF Next, FastLane, SlowLane, Drain, Loop, Once

(* The inductive invariant holds in every reachable state. *)
THEOREM Invariant == Spec => []IInv
<1>1. Init => IInv
  BY InitInv
<1>2. IInv /\ [Next]_vars => IInv'
  BY StepInv
<1> QED BY <1>1, <1>2, PTL DEF Spec
-----------------------------------------------------------------------------
(* The properties *)

(* Every variable keeps its type: no backoff, however many attempts and    *)
(* whatever Pulse asks for, exceeds the longer of the cap and Retry-After. *)
THEOREM TypeCorrect == Spec => []TypeOK
<1>1. IInv => TypeOK
  BY DEF IInv
<1> QED BY <1>1, Invariant, PTL

(* The loop never sleeps on a queue that holds parts, unless it is about   *)
(* to be woken.                                                            *)
THEOREM PartsAreNoticed == Spec => []NoLostWakeup
<1>1. IInv => NoLostWakeup
  BY DEF IInv, WokenLater, NoLostWakeup
<1> QED BY <1>1, Invariant, PTL

(* A single run that exits successfully leaves nothing in the queue. *)
THEOREM SuccessLeavesNothing == Spec => []SuccessIsComplete
<1>1. IInv => SuccessIsComplete
  BY DEF IInv
<1> QED BY <1>1, Invariant, PTL

(* No request starts before the Retry-After is over. *)
THEOREM HoldsAreKept == Spec => RetryAfterHonoured
<1>1. IInv /\ [Next]_vars => [wire = "none" /\ wire' # "none" => hold = 0]_vars
  <2> SUFFICES ASSUME IInv, Next, wire = "none", wire' # "none" PROVE hold = 0
    BY DEF vars
  <2>1. SendHead
    BY DEF Next, Cancel, Pulse, DiskChanges, Tick, FastLane, FastCollect, FastSignal, FastTick, FastEnds,
           Close, SlowLane, SlowStart, SlowEmit, SlowSignal, SlowPassEnds, SlowTick, SlowEnds,
           WatchdogReturns, Drain, Delivered, Rejected, Split, DrainDone, Blocked, DrainBlocked,
           OnceBlocked, OnceNotReported, Loop, WaitForParts, WakeUp, TimerFires, DeliverReturns,
           Once, OnceCollect, OnceWaited, OnceDrained, OnceGivesUp, OnceReported,
           Enqueue, EnqueueFails, lanes, link, spooled, world
  <2> QED BY <2>1 DEF SendHead, Draining, IInv, HoldCovered
<1> QED BY <1>1, Invariant, PTL DEF Spec, RetryAfterHonoured

(* After close() no goroutine queues, sends or removes anything. *)
THEOREM CloseIsLast == Spec => ClosedLast
<1>1. IInv /\ [Next]_vars => [fast = "closed" => UNCHANGED <<queued, wire, slow, deliver, watch>>]_vars
  <2> SUFFICES ASSUME IInv, Next, fast = "closed"
               PROVE  UNCHANGED <<queued, wire, slow, deliver, watch>>
    BY DEF vars
  <2>1. /\ slow = "returned" /\ deliver = "returned" /\ watch = "returned"
        /\ once = "no" /\ wire = "none"
    BY DEF IInv, ClosedAfter, OneMode, OnWire, Draining, TypeOK
  <2> QED
    BY <2>1 DEF Next, Cancel, Pulse, DiskChanges, Tick, FastLane, FastCollect, FastSignal, FastTick, FastEnds,
           Close, SlowLane, SlowStart, SlowEmit, SlowSignal, SlowPassEnds, SlowTick, SlowEnds,
           WatchdogReturns, Drain, SendHead, Draining, Delivered, Rejected, Split, DrainDone, Blocked,
           DrainBlocked, Refusal, Announced, SplitsSpent, Failed, OnceBlocked, OnceNotReported, Loop, WaitForParts, WakeUp, TimerFires,
           DeliverReturns, Once, OnceCollect, OnceWaited, OnceDrained, OnceGivesUp, OnceReported,
           lanes, link, spooled, world
<1> QED BY <1>1, Invariant, PTL DEF Spec, ClosedLast
=============================================================================
