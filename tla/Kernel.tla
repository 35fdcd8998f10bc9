------------------------------- MODULE Kernel -------------------------------
(***************************************************************************)
(* The kernel collector (internal/modules/kernel/kernel.go): OOM kills,    *)
(* recent boots and the errors of the kernel journal, counted between one  *)
(* collection and the next while both go on growing, with or without a     *)
(* cursor file that survives a restart.                                    *)
(*                                                                         *)
(* journalctl is external: it is taken to save its cursor only with output *)
(* that the collector receives whole, and not to save one without output.  *)
(***************************************************************************)
EXTENDS Integers, Sequences, FiniteSets

CONSTANTS
  MaxTime,     \* bound of the clock
  MaxKills,    \* bound on the OOM kills
  MaxEntries,  \* bound on the journal
  Lookback,    \* how far the first query goes back (10 min)
  Recent,      \* the age up to which a boot is reported (15 min)
  Limit        \* the entries one query may return (8 MiB of output)

VARIABLES
  now,       \* the time since boot
  kills,     \* the kernel's counter
  journal,   \* the times of the journal's entries, in order
  durable,   \* whether there is a directory for the cursor (StateDir)
  cursor,    \* how many entries the saved cursor covers, None without a file
  pc,        \* where the collection is: "idle", "procfs", "stat",
             \* "journal", "output"
  scope,     \* the timestamp of the collection
  output,    \* the entries the query returned
  last,      \* the process: [oom, checked, journal], as the collector keeps it
  base,      \* the first counter of this process, None before
  oomEvents, \* the sum of the counts of its system.oom_kill events
  boots,     \* its system.boot events
  reported,  \* per entry of the journal: how often it was counted, 2 for more than once
  from       \* where this process has begun to listen, None before: the time or,
             \* with a cursor, the entry

process == <<last, base, oomEvents, boots>>
vars == <<now, kills, journal, durable, cursor, pc, scope, output, process, reported, from>>
-----------------------------------------------------------------------------
None == -1
Fresh == [oom |-> None, checked |-> FALSE, journal |-> None]
Entries == 1 .. MaxEntries

Init ==
  /\ now = 0 /\ kills = 0 /\ journal = <<>> /\ durable \in BOOLEAN /\ cursor = None
  /\ pc = "idle" /\ scope = 0 /\ output = {} /\ last = Fresh
  /\ base = None /\ oomEvents = 0 /\ boots = 0
  /\ reported = [i \in Entries |-> 0] /\ from = None

Tick ==
  /\ now < MaxTime /\ now' = now + 1
  /\ UNCHANGED <<kills, journal, durable, cursor, pc, scope, output, process, reported, from>>
Kill ==
  /\ kills < MaxKills /\ kills' = kills + 1
  /\ UNCHANGED <<now, journal, durable, cursor, pc, scope, output, process, reported, from>>
Log ==
  /\ Len(journal) < MaxEntries /\ journal' = Append(journal, now)
  /\ UNCHANGED <<now, kills, durable, cursor, pc, scope, output, process, reported, from>>

(* A new process: only the cursor file is left. *)
Restart ==
  /\ last # Fresh \/ pc # "idle"
  /\ pc' = "idle" /\ output' = {} /\ last' = Fresh /\ base' = None /\ oomEvents' = 0 /\ boots' = 0
  /\ from' = None
  /\ UNCHANGED <<now, kills, journal, durable, cursor, scope, reported>>

Begin ==
  /\ pc = "idle" /\ pc' = "procfs" /\ scope' = now
  /\ UNCHANGED <<now, kills, journal, durable, cursor, output, process, reported, from>>

(* vmstat, stat and uptime: what cannot be read is left for the next       *)
(* collection.                                                             *)
SampleOOM ==
  /\ oomEvents' = oomEvents + (IF last.oom # None /\ kills > last.oom THEN kills - last.oom ELSE 0)
  /\ base' = IF base = None THEN kills ELSE base
  /\ last' = [last EXCEPT !.oom = kills]
ReadOOM ==
  /\ pc = "procfs"
  /\ SampleOOM \/ UNCHANGED <<oomEvents, base, last>>
  /\ pc' = "stat"
  /\ UNCHANGED <<now, kills, journal, durable, cursor, scope, output, boots, reported, from>>
ReadBoot ==
  /\ pc = "stat"
  /\ \/ UNCHANGED <<last, boots>>
     \/ /\ ~last.checked /\ last' = [last EXCEPT !.checked = TRUE]
        /\ boots' = IF now < Recent THEN boots + 1 ELSE boots
  /\ pc' = "journal"
  /\ UNCHANGED <<now, kills, journal, durable, cursor, scope, output, base, oomEvents, reported, from>>

(* What journalctl is asked for: the entries behind the cursor or, without *)
(* one, since the timestamp of the last query that succeeded.              *)
Earliest == IF now > Lookback THEN now - Lookback ELSE 0
Since(t) == {i \in DOMAIN journal : journal[i] >= t}
Requested ==
  CASE durable /\ cursor # None -> {i \in DOMAIN journal : i > cursor}
    [] ~durable /\ last.journal # None -> Since(last.journal)
    [] OTHER -> Since(Earliest)
Query ==
  /\ pc = "journal" /\ Cardinality(Requested) <= Limit
  /\ pc' = "output" /\ output' = Requested
  /\ cursor' = IF durable /\ Requested # {} THEN Len(journal) ELSE cursor
  /\ from' = IF from # None THEN from
             ELSE IF ~durable THEN Earliest
             ELSE cursor
  /\ UNCHANGED <<now, kills, journal, durable, scope, process, reported>>
(* No journalctl, an error of it, its ten seconds or more output than the  *)
(* limit: the boundary stays.                                              *)
QueryFails ==
  /\ pc = "journal" /\ pc' = "idle"
  /\ UNCHANGED <<now, kills, journal, durable, cursor, scope, output, process, reported, from>>

(* The boundary of the next query is the start of this collection, so that *)
(* nothing falls between two.  Mutant: the time at which it ends.          *)
Boundary_Now == now
Boundary == scope
Report ==
  /\ pc = "output" /\ pc' = "idle" /\ output' = {}
  /\ last' = [last EXCEPT !.journal = Boundary]
  /\ reported' = [i \in Entries |-> IF i \in output /\ reported[i] < 2 THEN reported[i] + 1 ELSE reported[i]]
  /\ UNCHANGED <<now, kills, journal, durable, cursor, scope, base, oomEvents, boots, from>>

Next ==
  Tick \/ Kill \/ Log \/ Restart \/ Begin \/ ReadOOM \/ ReadBoot \/ Query \/ QueryFails \/ Report
Spec == Init /\ [][Next]_vars
-----------------------------------------------------------------------------
(* Only known values; what was sampled is no more than was counted. *)
TypeOK ==
  /\ now \in 0 .. MaxTime /\ kills \in 0 .. MaxKills /\ journal \in Seq(0 .. MaxTime)
  /\ durable \in BOOLEAN /\ cursor \in {None} \cup DOMAIN journal
  /\ pc \in {"idle", "procfs", "stat", "journal", "output"} /\ scope \in 0 .. MaxTime
  /\ output \subseteq DOMAIN journal /\ last.oom \in {None} \cup 0 .. kills

(* Nothing falls between two collections, although kills and errors go on  *)
(* while one is under way and any part of it may fail: the kills this      *)
(* process has told of add up to what the counter has gained, and every    *)
(* error since its first query, up to the boundary it has reached, was     *)
(* counted.  With a cursor none is counted twice, across restarts too.  A  *)
(* process tells of one boot at most.                                      *)
KernelCovered ==
  /\ last.oom # None => base + oomEvents = last.oom
  /\ boots <= 1
  /\ durable => \A i \in DOMAIN journal : reported[i] <= 1
  /\ pc = "idle" /\ from # None =>
       \A i \in DOMAIN journal :
         (IF durable THEN from < i /\ i <= cursor
          ELSE from <= journal[i] /\ journal[i] < last.journal)
           => reported[i] >= 1
-----------------------------------------------------------------------------
(* The inductive invariant of KernelCovered, see HostProofs.               *)

Kept ==
  /\ last \in [oom : {None} \cup Nat, checked : BOOLEAN, journal : {None} \cup 0 .. now]
  /\ scope <= now /\ base \in {None} \cup Nat /\ oomEvents \in Nat /\ boots \in 0 .. 1
  /\ Len(journal) <= MaxEntries /\ reported \in [Entries -> 0 .. 2] /\ from \in {None} \cup Nat

(* What a process has told of follows from what it remembers. *)
Told ==
  /\ last.oom = None => base = None /\ oomEvents = 0
  /\ last.oom # None => base # None /\ base + oomEvents = last.oom
  /\ boots = 1 => last.checked

(* With a cursor, what lies behind it is reported or on its way, and what  *)
(* lies before it is neither.                                              *)
Followed ==
  /\ \A i \in Entries : reported[i] <= 1 /\ (i \in output => reported[i] = 0)
  /\ \A i \in Entries : i > cursor => reported[i] = 0 /\ i \notin output
  /\ cursor = None => from = None
  /\ from # None => \A i \in DOMAIN journal : from < i /\ i <= cursor =>
                      reported[i] >= 1 \/ i \in output

(* Without one, what lies between the beginning and the boundary.          *)
Bounded ==
  /\ pc # "output" => (from # None <=> last.journal # None)
  /\ pc = "output" => from # None
  /\ \A i \in DOMAIN journal :
       from <= journal[i] /\ journal[i] < (IF pc = "output" THEN scope ELSE last.journal) =>
         reported[i] >= 1 \/ i \in output

Inductive ==
  /\ TypeOK /\ Kept /\ Told
  /\ pc # "output" => output = {}
  /\ IF durable THEN Followed ELSE Bounded
=============================================================================
