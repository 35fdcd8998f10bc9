---------------------------- MODULE StateDelivery ----------------------------
(***************************************************************************)
(* How states reach Pulse: the state cache (internal/monitoring/           *)
(* statecache.go) suppresses what was sent before, queue() of the agent    *)
(* filters, queues and commits for both collection lanes, and the notices  *)
(* the spool raises when it loses telemetry clear the cache again.         *)
(*                                                                         *)
(* The spool is abstract here: a FIFO of parts, of which only the states   *)
(* are kept.  The program has a spool directory, so the queue and the      *)
(* cache survive restarts; notices live in memory only.                    *)
(***************************************************************************)
EXTENDS Integers, Sequences, FiniteSets

CONSTANTS
  Fast, Slow,   \* the state identities either lane observes
  Values,       \* the values of a state
  First,        \* the value every state has in the beginning
  MaxParts,     \* bound: parts with states in the queue
  MaxChanges,   \* bound: changes of observed values
  Kinds,        \* what may happen: "loss", "fault", "clean" stop, "crash"
  MaxIncidents  \* bound: how often

ASSUME LanesAssumption == Fast \cap Slow = {} /\ First \in Values
ASSUME StateBoundsAssumption ==
  /\ MaxParts \in Nat \ {0} /\ MaxChanges \in Nat /\ MaxIncidents \in Nat
  /\ Kinds \subseteq {"loss", "fault", "clean", "crash"}

VARIABLES
  up,        \* whether a process runs
  observed,  \* the value a collector sees for each identity
  cache,     \* StateCache.entries: value last sent, and if Refresh is over
  saved,     \* the .states file
  stage,     \* per lane: where it is in collect() and queue()
  batch,     \* per lane: the states it collected
  send,      \* per lane: the states Filter let through
  queue,     \* the parts in the spool, oldest first
  noticed,   \* whether notices are pending in Stats
  pulse,     \* the value Pulse holds for each identity, once it has one
  exposed,   \* history: a stop or a fault fell where states may be lost
  changes,   \* changes so far
  incidents  \* incidents so far

vars == <<up, observed, cache, saved, stage, batch, send, queue, noticed,
          pulse, exposed, changes, incidents>>

Incident(kind) ==
  /\ kind \in Kinds /\ incidents < MaxIncidents
  /\ incidents' = incidents + 1
-----------------------------------------------------------------------------
Ids == Fast \cup Slow
Lanes == {"fast", "slow"}
IdsOf(lane) == IF lane = "fast" THEN Fast ELSE Slow
Empty == <<>>  \* the function with no identity in its domain

Only(f, S) == [id \in DOMAIN f \cap S |-> f[id]]
Without(f, S) == [id \in DOMAIN f \ S |-> f[id]]
Over(f, g) == [id \in DOMAIN f \cup DOMAIN g |->
                 IF id \in DOMAIN g THEN g[id] ELSE f[id]]
AsSent(f) == [id \in DOMAIN f |-> [value |-> f[id], due |-> FALSE]]
Partial(S, T) == UNION {[D -> T] : D \in SUBSET S}

Init ==
  /\ up = TRUE /\ observed = [id \in Ids |-> First]
  /\ cache = Empty /\ saved = Empty
  /\ stage = [l \in Lanes |-> "idle"]
  /\ batch = [l \in Lanes |-> Empty] /\ send = [l \in Lanes |-> Empty]
  /\ queue = <<>> /\ noticed = FALSE /\ pulse = Empty /\ exposed = FALSE
  /\ changes = 0 /\ incidents = 0

Change ==
  /\ changes < MaxChanges /\ changes' = changes + 1
  /\ \E id \in Ids : \E v \in Values \ {observed[id]} :
       observed' = [observed EXCEPT ![id] = v]
  /\ UNCHANGED <<up, cache, saved, stage, batch, send, queue, noticed, pulse,
                 exposed, incidents>>

(* Time passes: the entry of id is no longer fresh, neither in memory nor  *)
(* in the file; the file may hold an older entry that is due first.        *)
Due(f, id) == [f EXCEPT ![id].due = TRUE]
Age(id) ==
  /\ \/ /\ id \in DOMAIN cache /\ ~cache[id].due
        /\ cache' = Due(cache, id)
        /\ saved' = IF id \in DOMAIN saved THEN Due(saved, id) ELSE saved
     \/ /\ id \in DOMAIN saved /\ ~saved[id].due
        /\ id \in DOMAIN cache => cache[id] # saved[id]
        /\ saved' = Due(saved, id)
        /\ UNCHANGED cache
  /\ UNCHANGED <<up, observed, stage, batch, send, queue, noticed, pulse,
                 exposed, changes, incidents>>
-----------------------------------------------------------------------------
(* The lanes: Runner.Collect or CollectSlow, then queue() under queueMu *)

Enter(lane, next) == stage' = [stage EXCEPT ![lane] = next]
Finish(lane) ==
  /\ Enter(lane, "idle")
  /\ batch' = [batch EXCEPT ![lane] = Empty]
  /\ send' = [send EXCEPT ![lane] = Empty]

(* A lane observes some of its states; a collector that is not due or that *)
(* fails contributes none.                                                 *)
Collect(lane, S) ==
  /\ up /\ stage[lane] = "idle"
  /\ batch' = [batch EXCEPT ![lane] = Only(observed, S)]
  /\ Enter(lane, "collected")
  /\ UNCHANGED <<up, observed, cache, saved, send, queue, noticed, pulse,
                 exposed, changes, incidents>>

(* Nobody holds queueMu.  Mutant: there is no such lock. *)
Free_Always == TRUE
Free == \A l \in Lanes : stage[l] \in {"idle", "collected"}

(* noticeEvents, fast lane only: pending notices clear the cache.  Mutant: *)
(* they are only reported.                                                 *)
AfterNotices_Kept(lane) == cache
AfterNotices(lane) == IF lane = "fast" /\ noticed THEN Empty ELSE cache

(* Filter lets a state through when it is unknown, changed or due.         *)
(* Mutants: a state is never refreshed; a changed value is not noticed.    *)
Passes_NotDue(entries, id, v) == id \notin DOMAIN entries \/ entries[id].value # v
Passes(entries, id, v) ==
  \/ id \notin DOMAIN entries
  \/ entries[id].value # v
  \/ entries[id].due

FilterStates(lane) ==
  LET entries == AfterNotices(lane)
      seen == batch[lane]
  IN /\ up /\ stage[lane] = "collected" /\ Free
     /\ cache' = entries
     /\ noticed' = (noticed /\ lane # "fast")
     /\ send' = [send EXCEPT ![lane] =
                   Only(seen, {id \in DOMAIN seen : Passes(entries, id, seen[id])})]
     /\ Enter(lane, "filtered")
     /\ UNCHANGED <<up, observed, saved, batch, queue, pulse, exposed, changes, incidents>>

(* The spool drops its k oldest parts, with a notice. *)
Rest(k) == SubSeq(queue, k + 1, Len(queue))
DropOldest(k) ==
  \/ k = 0 /\ UNCHANGED <<noticed, incidents>>
  \/ k > 0 /\ Incident("loss") /\ noticed' = TRUE

With(q, states) == IF states = Empty THEN q ELSE Append(q, states)

(* Enqueue makes room for the new part and writes it. *)
Enqueue(lane) ==
  /\ up /\ stage[lane] = "filtered"
  /\ \E k \in 0 .. Len(queue) :
       /\ DropOldest(k)
       /\ Len(Rest(k)) < MaxParts
       /\ queue' = With(Rest(k), send[lane])
  /\ Enter(lane, "queued")
  /\ UNCHANGED <<up, observed, cache, saved, batch, send, pulse, exposed,
                 changes>>

(* A batch larger than the budget is refused with a notice: queue() leaves *)
(* before commit.                                                          *)
EnqueueRefuses(lane) ==
  /\ up /\ stage[lane] = "filtered"
  /\ Incident("loss") /\ noticed' = TRUE
  /\ Finish(lane)
  /\ UNCHANGED <<up, observed, cache, saved, queue, pulse, exposed, changes>>

(* A write fails.  The parts before the failing one stay queued, but none  *)
(* of their states is committed.                                           *)
EnqueueFails(lane) ==
  /\ up /\ stage[lane] = "filtered"
  /\ Incident("fault")
  /\ \E k \in 0 .. Len(queue), S \in SUBSET DOMAIN send[lane] :
       /\ k > 0 => "loss" \in Kinds
       /\ noticed' = (noticed \/ k > 0)
       /\ Len(Rest(k)) < MaxParts
       /\ queue' = With(Rest(k), Only(send[lane], S))
       /\ exposed' = (exposed \/ S # {})
  /\ Finish(lane)
  /\ UNCHANGED <<up, observed, cache, saved, pulse, changes>>

(* commit, then Save: identities not seen for long are forgotten, and a    *)
(* file that cannot be written is only logged.                             *)
Commit(lane) ==
  /\ up /\ stage[lane] = "queued"
  /\ \E F \in SUBSET (DOMAIN cache \ DOMAIN batch[lane]) :
       cache' = Without(Over(cache, AsSent(send[lane])), F)
  /\ \/ saved' = cache' /\ UNCHANGED incidents
     \/ Incident("fault") /\ UNCHANGED saved
  /\ Finish(lane)
  /\ UNCHANGED <<up, observed, queue, noticed, pulse, exposed, changes>>
-----------------------------------------------------------------------------
(* The drain and Pulse *)

(* Pulse stores the head.  Its part leaves the queue, or the answer is lost *)
(* and it is sent again with the same key.                                 *)
Deliver(answered) ==
  /\ up /\ queue # <<>>
  /\ pulse' = Over(pulse, Head(queue))
  /\ queue' = IF answered THEN Tail(queue) ELSE queue
  /\ UNCHANGED <<up, observed, cache, saved, stage, batch, send, noticed,
                 exposed, changes, incidents>>

(* The head expires. *)
Expire ==
  /\ up /\ queue # <<>> /\ DropOldest(1)
  /\ queue' = Rest(1)
  /\ UNCHANGED <<up, observed, cache, saved, stage, batch, send, pulse, exposed,
                 changes>>

(* Pulse refuses one state of the head; the others stay queued. *)
Reject ==
  /\ up /\ queue # <<>>
  /\ Incident("loss") /\ noticed' = TRUE
  /\ \E id \in DOMAIN Head(queue) :
       LET others == Without(Head(queue), {id})
       IN queue' = IF others = Empty THEN Tail(queue) ELSE [queue EXCEPT ![1] = others]
  /\ UNCHANGED <<up, observed, cache, saved, stage, batch, send, pulse, exposed,
                 changes>>
-----------------------------------------------------------------------------
(* Ends and starts of the process *)

(* Where an end of the process that does not save the cache may lose track *)
(* of states: a notice or a cleared cache that is not on disk, or a batch  *)
(* queued and not committed.                                               *)
Exposed == noticed \/ saved # cache \/ ~Free

Ends(how) ==
  /\ up /\ Incident(how)
  /\ up' = FALSE /\ noticed' = FALSE /\ cache' = Empty
  /\ stage' = [l \in Lanes |-> "idle"]
  /\ batch' = [l \in Lanes |-> Empty] /\ send' = [l \in Lanes |-> Empty]
  /\ UNCHANGED <<observed, queue, pulse, changes>>

(* serve returns once both lanes are done, and close saves the cache.  A    *)
(* Save that fails is only logged: the file stays what it was, as after a  *)
(* crash.                                                                  *)
Stop ==
  /\ \A l \in Lanes : stage[l] = "idle"
  /\ Ends("clean")
  /\ \/ /\ \E F \in SUBSET DOMAIN cache : saved' = Without(cache, F)
        /\ exposed' = (exposed \/ noticed)
     \/ /\ "fault" \in Kinds
        /\ UNCHANGED saved
        /\ exposed' = (exposed \/ Exposed)

Crash ==
  /\ Ends("crash")
  /\ exposed' = (exposed \/ Exposed)
  /\ UNCHANGED saved

(* newAgent: the spool is opened, which may drop old parts, and the cache  *)
(* is loaded.                                                              *)
Start ==
  /\ ~up /\ up' = TRUE
  /\ \E k \in 0 .. Len(queue) : DropOldest(k) /\ queue' = Rest(k)
  /\ cache' = saved
  /\ UNCHANGED <<observed, saved, stage, batch, send, pulse, exposed, changes>>
-----------------------------------------------------------------------------
LaneStep(lane) ==
  \/ FilterStates(lane) \/ Enqueue(lane) \/ EnqueueRefuses(lane)
  \/ EnqueueFails(lane) \/ Commit(lane)

Next ==
  \/ \E lane \in Lanes :
       \/ \E S \in SUBSET IdsOf(lane) : Collect(lane, S)
       \/ LaneStep(lane)
  \/ \E answered \in BOOLEAN : Deliver(answered)
  \/ Expire \/ Reject \/ Change \/ Stop \/ Crash \/ Start
  \/ \E id \in Ids : Age(id)

(* The ticker and the scheduler give every lane its turns, the mutex does  *)
(* not starve a lane, Pulse answers in the end, a service is started       *)
(* again, time passes, and every state is observed again and again.        *)
Fairness ==
  /\ \A lane \in Lanes : /\ SF_vars(Collect(lane, IdsOf(lane)))
                         /\ SF_vars(FilterStates(lane))
                         /\ WF_vars(LaneStep(lane))
  /\ WF_vars(Deliver(TRUE))
  /\ WF_vars(Start)
  /\ \A id \in Ids : WF_vars(Age(id))

Spec == Init /\ [][Next]_vars
FairSpec == Spec /\ Fairness
-----------------------------------------------------------------------------
(* The types of the variables, and that queueMu admits one lane at a time. *)
Entries == [value : Values, due : BOOLEAN]
TypeOK ==
  /\ up \in BOOLEAN /\ noticed \in BOOLEAN /\ exposed \in BOOLEAN
  /\ observed \in [Ids -> Values]
  /\ cache \in Partial(Ids, Entries) /\ saved \in Partial(Ids, Entries)
  /\ pulse \in Partial(Ids, Values)
  /\ stage \in [Lanes -> {"idle", "collected", "filtered", "queued"}]
  /\ Cardinality({l \in Lanes : stage[l] \in {"filtered", "queued"}}) <= 1
  /\ batch \in [Lanes -> Partial(Ids, Values)]
  /\ send \in [Lanes -> Partial(Ids, Values)]
  /\ \A i \in DOMAIN queue : queue[i] \in Partial(Ids, Values)
  /\ Len(queue) <= MaxParts
  /\ changes \in Nat /\ incidents \in Nat

(* The value Pulse will hold for id when the queue is delivered. *)
Holders(id) == {i \in DOMAIN queue : id \in DOMAIN queue[i]}
Latest(id, v) ==
  \/ /\ Holders(id) = {} /\ id \in DOMAIN pulse /\ pulse[id] = v
  \/ \E i \in Holders(id) : /\ queue[i][id] = v
                            /\ \A j \in Holders(id) : j <= i

(* Between Enqueue and commit the queue is ahead of the cache. *)
Uncommitted(id) == \E l \in Lanes : stage[l] = "queued" /\ id \in DOMAIN send[l]

Covered ==
  \A id \in DOMAIN cache :
    noticed \/ Uncommitted(id) \/ Latest(id, cache[id].value)

(* A state is suppressed only while the value Pulse holds, or will hold    *)
(* when the queue is delivered, is the one in the cache: otherwise a       *)
(* notice is pending and the next cycle sends everything again.  It holds  *)
(* whatever the spool drops and rejects in between, also over restarts     *)
(* that do not fall in the windows `exposed` records: a crash, or a stop   *)
(* whose Save fails, while the file is behind the cache, a stop with a     *)
(* notice pending, and a write that fails after a part of the batch.       *)
SuppressedIsCovered == ~exposed => Covered

(* When nothing changes any more, Pulse comes to hold the current value of *)
(* every state, whatever was lost, crashed or failed before: what the      *)
(* notices miss, the refresh repairs.                                      *)
EventuallyCurrent == <>[](\A id \in Ids : id \in DOMAIN pulse /\ pulse[id] = observed[id])

(* docs/en/configuration.md:85 "After the spool drops or rejects data, the *)
(* state cache is cleared so all states observed in the next collection    *)
(* cycle are sent again."                                                  *)
LossClearsCache == Covered

(* statecache.go:19 "A state is sent when it changes or when Refresh has   *)
(* passed since it was last sent": Filter holds a state back only if its   *)
(* value is the last one sent.                                             *)
ChangesAreSent ==
  [][\A lane \in Lanes :
       FilterStates(lane) =>
         \A id \in DOMAIN batch[lane] \ DOMAIN send'[lane] :
           Latest(id, batch[lane][id])]_vars
=============================================================================
