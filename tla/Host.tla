-------------------------------- MODULE Host --------------------------------
(***************************************************************************)
(* The runner, the collectors of the host, the batches and the             *)
(* configuration.                                                          *)
(*                                                                         *)
(* Their programs share no state, so that one model takes them in turn: a  *)
(* behaviour is of one program, chosen at its start.  Variables of the     *)
(* same name are the same variable; those a program does not use stay      *)
(* "off".                                                                  *)
(***************************************************************************)
EXTENDS Integers, Sequences, FiniteSets

CONSTANTS
  Fast, Slow, Cadence, Timeouts, Interval, Grace, MaxQueueing,  \* of Runner
  Concurrency, Ports, Expected, Scanners, Lists, Probes,        \* of Uptime
  Names, Addresses, Wanted, MaxAnswers, TargetSets,
  MaxTime, MaxKills, MaxEntries, Lookback, Recent, Limit,       \* of Kernel
  Scripts, Outputs, SelfSignals,                                \* of Batches
  CollectionMax, ItemMax, ByteMax, Overhead,
  Files, Overlays, BuiltIn, Script, Default                     \* of Config

(* A name is of one collector, every collector has time of its own, a slow *)
(* one a cadence above the interval, and a batch is queued before the      *)
(* watchdog gives up.                                                      *)
ASSUME RunnerAssumption ==
  /\ Timeouts \in [DOMAIN Timeouts -> Nat \ {0}] /\ IsFiniteSet(DOMAIN Timeouts)
  /\ Fast \in Seq(DOMAIN Timeouts) /\ Slow \in Seq(DOMAIN Timeouts)
  /\ \A i, j \in DOMAIN (Fast \o Slow) : (Fast \o Slow)[i] = (Fast \o Slow)[j] => i = j
  /\ \A i \in DOMAIN Slow : Cadence[Slow[i]] \in Nat /\ Cadence[Slow[i]] > Interval
  /\ Interval \in Nat \ {0} /\ Grace \in Nat
  /\ MaxQueueing \in Nat /\ MaxQueueing <= Interval + Grace
ASSUME UptimeAssumption ==
  /\ Concurrency \in Nat /\ Ports \subseteq Nat \ {0} /\ \E p, q \in Ports : Ports = p .. q
  /\ Expected \subseteq Ports
  /\ Lists \in Seq(STRING) /\ \A i, j \in DOMAIN Lists : Lists[i] = Lists[j] => i = j
  /\ IsFiniteSet(Probes) /\ Names \subseteq Nat /\ Names # {} /\ MaxAnswers \in Nat
  /\ TargetSets \subseteq SUBSET {"dns", "tcp", "http", "tls", "ports", "dnsbl", "icmp", "records"}
ASSUME KernelAssumption ==
  /\ MaxTime \in Nat /\ MaxKills \in Nat /\ MaxEntries \in Nat
  /\ Lookback \in Nat /\ Recent \in Nat /\ Limit \in Nat
ASSUME BatchesAssumption ==
  LET Items == Seq([name : STRING, definition : STRING, series : STRING,
                    script : STRING, size : Nat, sane : BOOLEAN])
  IN
  /\ \A output \in Outputs \cup SelfSignals : \A kind \in {"metric", "event", "state"} :
       output[kind] \in Items
  /\ \A signals \in SelfSignals : \A kind \in {"metric", "event", "state"} :
       \A i \in DOMAIN signals[kind] : signals[kind][i].sane
  /\ Scripts \in Seq(STRING) /\ ByteMax \in Nat /\ Overhead \in Nat
  /\ CollectionMax \in Nat \ {0} /\ ItemMax \in Nat \ {0}
ASSUME ConfigAssumption ==
  LET Collectors == DOMAIN BuiltIn \cup {Script}
      Sources == {"none", "token", "path", "both"}
  IN /\ BuiltIn \in [DOMAIN BuiltIn -> Nat] /\ Default \in Nat
     /\ \A f \in Files : /\ f.interval \in Int /\ f.source \in Sources /\ f.spool \in BOOLEAN
                         /\ f.bytes \in Int /\ f.script \in Nat
                         /\ f.cadence \in [Collectors \cup {"unknown"} -> {-1} \cup Nat]
     /\ \A o \in Overlays : /\ o.interval \in Int /\ o.source \in Sources
                            /\ o.switchedOff \in BOOLEAN /\ o.local \in BOOLEAN

VARIABLES
  program,
  at, todo, spent, passAge, tick, phase, sinceRun, sinceTimeout,   \* Runner
  sinceStart, outcome, sinceDone, stopped,
  targets, cancelled, over, stage, result, truth, dispatched,      \* Uptime
  closed, scanner, port, left, reference, listed, returned,
  now, kills, journal, durable, cursor, pc, scope, output, last,   \* Kernel
  base, oomEvents, boots, reported, from,
  script, batch, rest, current, size, parts,                       \* Batches
  file, overlay, credential, cfg, every,                           \* Config
  step                                                             \* of both

ofRunner == <<at, todo, spent, passAge, tick, phase, sinceRun, sinceTimeout, sinceStart, outcome,
              sinceDone, stopped>>
ofUptime == <<targets, cancelled, over, stage, result, truth, dispatched, closed, scanner, port,
              left, reference, listed, returned>>
ofKernel == <<now, kills, journal, durable, cursor, pc, scope, output, last, base, oomEvents,
              boots, reported, from>>
ofBatches == <<script, batch, rest, current, size, parts>>
ofConfig == <<file, overlay, credential, cfg, every>>
vars == <<program, ofRunner, ofUptime, ofKernel, ofBatches, ofConfig, step>>
-----------------------------------------------------------------------------
RN == INSTANCE Runner WITH Timeout <- Timeouts
UP == INSTANCE Uptime
KE == INSTANCE Kernel
BA == INSTANCE Batches
CF == INSTANCE Config
-----------------------------------------------------------------------------
Off(v) == v = "off"
OffRunner ==
  /\ Off(at) /\ Off(todo) /\ Off(spent) /\ Off(passAge) /\ Off(tick) /\ Off(phase)
  /\ Off(sinceRun) /\ Off(sinceTimeout) /\ Off(sinceStart) /\ Off(outcome) /\ Off(sinceDone)
  /\ Off(stopped)
OffUptime ==
  /\ Off(targets) /\ Off(cancelled) /\ Off(over) /\ Off(stage) /\ Off(result) /\ Off(truth)
  /\ Off(dispatched) /\ Off(closed) /\ Off(scanner) /\ Off(port) /\ Off(left) /\ Off(reference)
  /\ Off(listed) /\ Off(returned)
OffKernel ==
  /\ Off(now) /\ Off(kills) /\ Off(journal) /\ Off(durable) /\ Off(cursor) /\ Off(pc) /\ Off(scope)
  /\ Off(output) /\ Off(last) /\ Off(base) /\ Off(oomEvents) /\ Off(boots) /\ Off(reported)
  /\ Off(from)
OffBatches ==
  Off(script) /\ Off(batch) /\ Off(rest) /\ Off(current) /\ Off(size) /\ Off(parts)
OffConfig == Off(file) /\ Off(overlay) /\ Off(credential) /\ Off(cfg) /\ Off(every)

Init ==
  \/ /\ program = "Runner" /\ RN!Init
     /\ OffUptime /\ OffKernel /\ OffBatches /\ OffConfig /\ Off(step)
  \/ /\ program = "Uptime" /\ UP!Init
     /\ OffRunner /\ OffKernel /\ OffBatches /\ OffConfig /\ Off(step)
  \/ /\ program = "Kernel" /\ KE!Init
     /\ OffRunner /\ OffUptime /\ OffBatches /\ OffConfig /\ Off(step)
  \/ /\ program = "Batches" /\ BA!Init
     /\ OffRunner /\ OffUptime /\ OffKernel /\ OffConfig
  \/ /\ program = "Config" /\ CF!Init
     /\ OffRunner /\ OffUptime /\ OffKernel /\ OffBatches

(* A step of a program leaves alone what only others use. *)
Next ==
  \/ /\ program = "Runner" /\ RN!Next
     /\ UNCHANGED <<program, ofUptime, ofKernel, ofBatches, ofConfig, step>>
  \/ /\ program = "Uptime" /\ UP!Next
     /\ UNCHANGED <<program, ofRunner, ofKernel, ofBatches, ofConfig, step>>
  \/ /\ program = "Kernel" /\ KE!Next
     /\ UNCHANGED <<program, ofRunner, ofUptime, ofBatches, ofConfig, step>>
  \/ /\ program = "Batches" /\ BA!Next
     /\ UNCHANGED <<program, ofRunner, ofUptime, ofKernel, ofConfig>>
  \/ /\ program = "Config" /\ CF!Next
     /\ UNCHANGED <<program, ofRunner, ofUptime, ofKernel, ofBatches>>

Spec == Init /\ [][Next]_vars
-----------------------------------------------------------------------------
(* With the first property of a program, its types.                        *)

(* No slow collector starves (Runner). *)
NoStarvation == program = "Runner" => RN!TypeOK /\ RN!NoStarvation

(* A collector that succeeded or timed out keeps its cadence (Runner). *)
CadenceKept == [][program = "Runner" => RN!NotEarly]_vars

(* The watchdog never lets systemd kill an agent whose fast lane keeps to  *)
(* its budget (Runner).                                                    *)
NoFalseAlarm == program = "Runner" => RN!NoFalseAlarm

(* A single run starts every collector (Runner). *)
OnceRunsAll == program = "Runner" => RN!OnceRunsAll

(* What a check claims was measured (Uptime). *)
ResultsHonest == program = "Uptime" => UP!TypeOK /\ UP!ResultsHonest

(* No kill, kernel error or boot falls between two collections, nor counts *)
(* twice (Kernel).                                                         *)
KernelCovered == program = "Kernel" => KE!TypeOK /\ KE!KernelCovered

(* The parts of a batch are what was collected, within every limit         *)
(* (Batches).                                                              *)
PartsSound == program = "Batches" => BA!TypeOK /\ BA!PartsSound

(* A process that runs follows what it was told (Config). *)
ConfigSound == program = "Config" => CF!TypeOK /\ CF!ConfigSound
=============================================================================
