------------------------------- MODULE Runner -------------------------------
(***************************************************************************)
(* When collectors run (internal/monitoring/runner.go): the fast and the   *)
(* slow lane of a service on their tickers, cadences, timeouts and cycle   *)
(* budgets, the single run of all collectors, and the systemd watchdog     *)
(* that watches the fast lane (internal/agent/notify.go).                  *)
(*                                                                         *)
(* Time is discrete and the state holds ages rather than instants, so that *)
(* behaviours of any length have finitely many states.  What collectors    *)
(* and lanes do without waiting takes no time; a collector returns when    *)
(* its context ends.                                                       *)
(***************************************************************************)
EXTENDS Integers, Sequences, SequencesExt

CONSTANTS
  Fast, Slow,  \* the collectors of either lane, in the configured order
  Cadence,     \* of each slow collector, more than Interval
  Timeout,     \* of each collector
  Interval,    \* Runner.Interval
  Grace,       \* the 60 seconds of watchdogAlive
  MaxQueueing  \* bound: the time the fast lane takes to queue a batch

VARIABLES
  at,            \* per lane: where it is
  todo,          \* per lane: the collectors its pass has still to run
  spent,         \* per lane: time the running collector has taken
  passAge,       \* per lane: time since scope.Timestamp of its pass
  tick,          \* per lane: whether its ticker's channel holds a tick
  phase,         \* time since the tickers' last tick
  sinceRun,      \* age of lastRun[c], or Never
  sinceTimeout,  \* age of lastTimeout[c], or Never
  sinceStart,    \* history: time since c was last started, or Never
  outcome,       \* history: how c ended last
  sinceDone,     \* age of lastCompleted
  stopped        \* whether the context has ended

vars == <<at, todo, spent, passAge, tick, phase, sinceRun, sinceTimeout,
          sinceStart, outcome, sinceDone, stopped>>
records == <<sinceRun, sinceTimeout, outcome>>
-----------------------------------------------------------------------------
Never == -1
Lanes == {"fast", "slow", "all"}
SlowSet == ToSet(Slow)
All == Fast \o Slow
AllSet == ToSet(All)

Total(cs) == SumFunctionOnSet(Timeout, cs)  \* what some collectors may take
Lower(a, b) == IF a < b THEN a ELSE b
Higher(a, b) == IF a > b THEN a ELSE b

(* How long a slow collector may have to wait from one start to the next:  *)
(* for the pass it ran in, or until it is due and for a pass that has just *)
(* begun without it; and for the others in its own pass.                   *)
Others(c) == Total(SlowSet \ {c})
Patience(c) ==
  Others(c) + Higher(Higher(Interval, Total(SlowSet)),
                     IF outcome[c] = "failed" THEN 0
                     ELSE Cadence[c] - Interval \div 2 + Higher(Interval, Others(c)))
Eldest(c) == Cadence[c] + Interval + 2 * Total(SlowSet)

(* Whether the pass has used its time: the fast lane has one interval, a   *)
(* single run what all its collectors may take, the slow lane no limit.    *)
(* Mutant: a single run has no more than an interval.                      *)
PassOver_Interval(lane) == lane # "slow" /\ passAge[lane] >= Interval
PassOver(lane) ==
  CASE lane = "fast" -> passAge[lane] >= Interval
    [] lane = "slow" -> FALSE
    [] lane = "all" -> passAge[lane] >= Higher(Interval, Total(AllSet))

(* The age from which a slow collector is due, with half an interval of    *)
(* jitter; a timeout counts like a run if it is the later of the two.      *)
(* Mutant: timeouts are forgotten.                                         *)
LastAge_NoTimeouts(c) == sinceRun[c]
LastAge(c) ==
  IF sinceTimeout[c] # Never /\ (sinceRun[c] = Never \/ sinceTimeout[c] < sinceRun[c])
  THEN sinceTimeout[c] ELSE sinceRun[c]
Due(c) ==
  \/ c \notin SlowSet
  \/ LastAge(c) = Never
  \/ LastAge(c) >= Cadence[c] - Interval \div 2

(* The collectors of a pass run in their order, the fast ones first; Once  *)
(* includes those that are not due.                                        *)
Turn(lane) ==
  CASE lane = "fast" -> ToSet(Fast)
    [] lane = "slow" -> {c \in SlowSet : Due(c)}
    [] lane = "all" -> AllSet
Precedes(c, d) == \E i, j \in DOMAIN All : i < j /\ All[i] = c /\ All[j] = d
First(cs) == CHOOSE c \in cs : \A d \in cs \ {c} : Precedes(c, d)

Init ==
  /\ at \in {[fast |-> "waiting", slow |-> "waiting", all |-> "off"],
             [fast |-> "off", slow |-> "off", all |-> "waiting"]}
  /\ todo = [l \in Lanes |-> {}] /\ spent = [l \in Lanes |-> 0]
  /\ passAge = [l \in Lanes |-> 0] /\ tick = [l \in Lanes |-> TRUE] /\ phase = 0
  /\ sinceRun = [c \in SlowSet |-> Never] /\ sinceTimeout = [c \in SlowSet |-> Never]
  /\ sinceStart = [c \in SlowSet |-> Never] /\ outcome = [c \in SlowSet |-> "ok"]
  /\ sinceDone = 0 /\ stopped = FALSE

Enter(lane, where) == at' = [at EXCEPT ![lane] = where]

(* A tick starts a pass; the first pass needs none. *)
Begin(lane) ==
  /\ at[lane] = "waiting" /\ tick[lane] /\ Enter(lane, "pass")
  /\ tick' = [tick EXCEPT ![lane] = FALSE]
  /\ passAge' = [passAge EXCEPT ![lane] = 0]
  /\ todo' = [todo EXCEPT ![lane] = Turn(lane)]
  /\ UNCHANGED <<spent, phase, records, sinceStart, sinceDone, stopped>>

Ended(lane) == stopped \/ PassOver(lane)

Start(lane) ==
  /\ at[lane] = "pass" /\ todo[lane] # {} /\ ~Ended(lane)
  /\ Enter(lane, "running") /\ spent' = [spent EXCEPT ![lane] = 0]
  /\ LET c == First(todo[lane]) IN
       sinceStart' = IF c \in SlowSet THEN [sinceStart EXCEPT ![c] = 0] ELSE sinceStart
  /\ UNCHANGED <<todo, passAge, tick, phase, records, sinceDone, stopped>>

(* The collector's context has ended: by its own timeout or by the pass's. *)
Deadline(lane) ==
  \/ spent[lane] >= Timeout[First(todo[lane])]
  \/ PassOver(lane)

(* Which results keep a slow collector from running at the next tick.  An  *)
(* error counts as a timeout, too, when it comes from a request with its   *)
(* own.  Mutant: every error does.                                         *)
KeepsCadence_AnyError(result) == result # "ok"
KeepsCadence(result) == result = "timeout"

(* What collect() records of a slow collector, under scope.Timestamp. *)
Record(lane, c, result) ==
  LET age == Lower(passAge[lane], Cadence[c])
  IN /\ outcome' = [outcome EXCEPT ![c] = result]
     /\ sinceRun' = IF result = "ok" THEN [sinceRun EXCEPT ![c] = age] ELSE sinceRun
     /\ sinceTimeout' = IF result = "ok" THEN [sinceTimeout EXCEPT ![c] = Never]
                        ELSE IF KeepsCadence(result) THEN [sinceTimeout EXCEPT ![c] = age]
                        ELSE sinceTimeout

Return(lane, result) ==
  /\ at[lane] = "running" /\ Enter(lane, "pass")
  /\ stopped => result = "failed"
  /\ ~stopped /\ Deadline(lane) => result = "timeout"
  /\ todo' = [todo EXCEPT ![lane] = @ \ {First(@)}]
  /\ LET c == First(todo[lane]) IN
       IF c \in SlowSet THEN Record(lane, c, result) ELSE UNCHANGED records
  /\ UNCHANGED <<spent, passAge, tick, phase, sinceStart, sinceDone, stopped>>

(* The pass ends early when its context has ended. *)
EndPass(lane) ==
  /\ at[lane] = "pass" /\ (todo[lane] = {} \/ Ended(lane))
  /\ Enter(lane, CASE lane = "fast" -> "queueing"
                   [] lane = "slow" -> IF stopped THEN "stopped" ELSE "waiting"
                   [] lane = "all" -> "stopped")
  /\ spent' = [spent EXCEPT ![lane] = 0]
  /\ passAge' = [passAge EXCEPT ![lane] = 0]
  /\ UNCHANGED <<todo, tick, phase, records, sinceStart, sinceDone, stopped>>

(* serve: the batch is queued, lastCompleted is stored. *)
Completed ==
  /\ at["fast"] = "queueing" /\ Enter("fast", IF stopped THEN "stopped" ELSE "waiting")
  /\ sinceDone' = 0 /\ spent' = [spent EXCEPT !["fast"] = 0]
  /\ UNCHANGED <<todo, passAge, tick, phase, records, sinceStart, stopped>>

Stop ==
  /\ ~stopped /\ stopped' = TRUE
  /\ at' = [l \in Lanes |-> IF at[l] = "waiting" THEN "stopped" ELSE at[l]]
  /\ UNCHANGED <<todo, spent, passAge, tick, phase, records, sinceStart, sinceDone>>

(* Time cannot pass a deadline or a step that waits for nothing. *)
MayWait(lane) ==
  \/ at[lane] \in {"off", "stopped"}
  \/ at[lane] = "waiting" /\ ~tick[lane]
  \/ at[lane] = "running" /\ ~stopped /\ ~Deadline(lane)
  \/ at[lane] = "queueing" /\ spent[lane] < MaxQueueing

Older(age, limit) == IF age = Never THEN Never ELSE Lower(age + 1, limit)
Active(lane) == at[lane] \in {"running", "queueing"}
Tick ==
  /\ \A l \in Lanes : MayWait(l)
  /\ \E l \in Lanes : at[l] \notin {"off", "stopped"}
  /\ phase' = (phase + 1) % Interval
  /\ tick' = [l \in Lanes |-> tick[l] \/ phase' = 0]
  /\ spent' = [l \in Lanes |-> IF Active(l) THEN spent[l] + 1 ELSE 0]
  /\ passAge' = [l \in Lanes |-> IF at[l] = "running" THEN passAge[l] + 1 ELSE passAge[l]]
  /\ sinceRun' = [c \in SlowSet |-> Older(sinceRun[c], Cadence[c])]
  /\ sinceTimeout' = [c \in SlowSet |-> Older(sinceTimeout[c], Cadence[c])]
  /\ sinceStart' = [c \in SlowSet |-> Older(sinceStart[c], Eldest(c))]
  /\ sinceDone' = Lower(sinceDone + 1, 4 * Interval + Grace)
  /\ UNCHANGED <<at, todo, outcome, stopped>>

Next ==
  \/ Stop \/ Tick \/ Completed
  \/ \E l \in Lanes :
       \/ Begin(l) \/ Start(l) \/ EndPass(l)
       \/ \E result \in {"ok", "failed", "timeout"} : Return(l, result)
Spec == Init /\ [][Next]_vars
-----------------------------------------------------------------------------
(* Every lane and every record has a known value; a lane that runs has     *)
(* a collector to run.                                                     *)
TypeOK ==
  /\ at \in [Lanes -> {"off", "waiting", "pass", "running", "queueing", "stopped"}]
  /\ todo \in [Lanes -> SUBSET AllSet]
  /\ \A l \in Lanes : at[l] = "running" => todo[l] # {}
  /\ spent \in [Lanes -> Nat] /\ passAge \in [Lanes -> Nat] /\ tick \in [Lanes -> BOOLEAN]
  /\ phase \in 0 .. Interval - 1 /\ sinceDone \in Nat /\ stopped \in BOOLEAN
  /\ \A c \in SlowSet :
       /\ sinceRun[c] \in Never .. Cadence[c] /\ sinceTimeout[c] \in Never .. Cadence[c]
       /\ sinceStart[c] \in Never .. Eldest(c) /\ outcome[c] \in {"ok", "failed", "timeout"}

(* No slow collector starves: after a success or a timeout it starts again *)
(* once its cadence is over, and after another failure at the next tick,   *)
(* but for the time the other slow collectors take.                        *)
NoStarvation ==
  \A c \in SlowSet : ~stopped => sinceStart[c] <= Patience(c)

(* A collector that succeeded or timed out keeps its cadence: it does not  *)
(* start again earlier, but for half an interval and the time it waited in *)
(* its last pass for the collectors before it.                             *)
Before(c) == Total({d \in SlowSet : Precedes(d, c)})
NotEarly ==
  at["slow"] = "pass" /\ at'["slow"] = "running" =>
    LET c == First(todo["slow"]) IN
      sinceStart[c] # Never /\ outcome[c] # "failed" =>
        sinceStart[c] >= Cadence[c] - Interval \div 2 - Before(c)
CadenceKept == [][NotEarly]_vars

(* watchdogAlive; the mutant allows for the intervals alone. *)
Alive_Intervals == sinceDone <= 2 * Interval
Alive == sinceDone <= 2 * Interval + Interval + Grace

(* The watchdog never lets systemd kill an agent whose fast lane keeps to  *)
(* its budget, whatever the slow lane does.                                *)
NoFalseAlarm == at["fast"] \notin {"off", "stopped"} => Alive

(* A single run starts every collector: earlier ones that use all of their *)
(* time leave the later ones theirs (MaxCycleTimeout, collect).            *)
OnceRunsAll ==
  at["all"] = "pass" /\ Ended("all") /\ ~stopped => todo["all"] = {}
-----------------------------------------------------------------------------
(* The inductive invariant of the four properties, see HostProofs.         *)

Members(l) == CASE l = "fast" -> ToSet(Fast) [] l = "slow" -> SlowSet [] l = "all" -> AllSet
InPass(l) == at[l] \in {"pass", "running"}
Runs(l, c) == at[l] = "running" /\ c = First(todo[l])
(* What the collectors of a pass have used that have returned. *)
Used(l) == IF at[l] = "running" THEN passAge[l] - spent[l] ELSE passAge[l]
Service == at["all"] = "off"

Modes ==
  /\ at["slow"] # "queueing" /\ at["all"] # "queueing"
  /\ Service <=> at["fast"] # "off"
  /\ Service <=> at["slow"] # "off"
  /\ \A l \in Lanes : todo[l] \subseteq Members(l)
  /\ ~stopped => at["fast"] # "stopped" /\ at["slow"] # "stopped"
  /\ sinceRun \in [SlowSet -> Int] /\ sinceTimeout \in [SlowSet -> Int]
  /\ sinceStart \in [SlowSet -> Int] /\ outcome \in [SlowSet -> {"ok", "failed", "timeout"}]

(* The collectors of a pass take no more than their timeouts. *)
Timed ==
  \A l \in Lanes :
    /\ InPass(l) => Used(l) >= 0 /\ Used(l) + Total(todo[l]) <= Total(Members(l))
    /\ at[l] = "running" => spent[l] <= Timeout[First(todo[l])]

(* The age of the last completed pass, wherever the fast lane is. *)
Watched ==
  /\ at["fast"] = "waiting" => sinceDone <= IF tick["fast"] THEN Interval ELSE phase
  /\ InPass("fast") => sinceDone <= Interval + passAge["fast"] /\ passAge["fast"] <= Interval
  /\ at["fast"] = "queueing" => sinceDone <= 2 * Interval + spent["fast"]
                               /\ spent["fast"] <= MaxQueueing

(* What the records of a slow collector tell of its last start. *)
Recorded(c) ==
  /\ outcome[c] = "failed" \/ c \in todo["slow"] => Due(c)
  /\ InPass("slow") /\ c \in todo["slow"] /\ sinceRun[c] # Never =>
       sinceRun[c] >= Lower(passAge["slow"], Cadence[c])
  /\ InPass("slow") /\ c \in todo["slow"] =>
       Used("slow") + Total({d \in todo["slow"] : Precedes(d, c)}) <= Before(c)
  /\ Runs("slow", c) => sinceStart[c] = spent["slow"]
  /\ ~Runs("slow", c) /\ sinceStart[c] # Never /\ outcome[c] # "failed" =>
       /\ LastAge(c) # Never /\ (sinceStart[c] <= LastAge(c) \/ LastAge(c) = Cadence[c])
       /\ LastAge(c) <= sinceStart[c] + Before(c)

(* How long a slow collector has waited that was not due when the pass     *)
(* began.                                                                  *)
Undue(c, age) == outcome[c] # "failed" /\ sinceStart[c] < Cadence[c] - Interval \div 2 + age

Fed(c) ==
  /\ at["slow"] = "waiting" =>
       /\ sinceStart[c] + Others(c) <= Patience(c)
       /\ ~tick["slow"] => sinceStart[c] <= phase \/ Undue(c, phase)
  /\ InPass("slow") =>
       /\ ~tick["slow"] => passAge["slow"] <= phase
       /\ c \in todo["slow"] /\ ~Runs("slow", c) =>
            sinceStart[c] + Others(c) <= Patience(c) + passAge["slow"]
       /\ c \notin todo["slow"] =>
            \/ sinceStart[c] <= passAge["slow"]
            \/ Undue(c, passAge["slow"]) /\ Used("slow") + Total(todo["slow"]) <= Others(c)

(* In a single run a collector is started once, before the slower ones. *)
FedOnce(c) ==
  /\ at["all"] = "waiting" => sinceStart[c] = Never
  /\ InPass("all") /\ sinceStart[c] # Never =>
       sinceStart[c] + Total(todo["all"])
         <= Total(SlowSet) + (IF at["all"] = "running" THEN spent["all"] ELSE 0)
  /\ at["all"] = "stopped" => sinceStart[c] <= Total(SlowSet)

Inductive ==
  /\ TypeOK /\ Modes /\ Timed /\ Watched
  /\ Service => \A c \in SlowSet : Recorded(c) /\ (~stopped => Fed(c))
  /\ ~Service => \A c \in SlowSet : FedOnce(c)
=============================================================================
