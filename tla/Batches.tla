------------------------------- MODULE Batches -------------------------------
(***************************************************************************)
(* From a collector's output to the parts of the spool, on the batch of    *)
(* one collection: the script collector fills in what a script left open   *)
(* (script.go, builder.go), the batch is validated there and again where   *)
(* the runner merges it (validation.go, runner.go), the agent takes out    *)
(* what is not to be sent and adds its own signals (agent.go), and the     *)
(* result is cut into parts within the limits of one request (split.go).   *)
(*                                                                         *)
(* An item is its name, its definition (type and unit), its series without *)
(* the script's name, the script's name as a dimension, its encoded size   *)
(* and whether it is sane: all that validation asks of an item by itself.  *)
(***************************************************************************)
EXTENDS Integers, Sequences, FiniteSets, SequencesExt

CONSTANTS
  Scripts,       \* the scripts, in order
  Outputs,       \* what a script may write: a sequence of items per collection
  SelfSignals,   \* what the agent may add: its own batches, none in the slow lane
  CollectionMax, \* items of one collection in a request
  ItemMax,       \* items of a request
  ByteMax,       \* bytes of a request
  Overhead       \* bytes of a request without items

VARIABLES
  script,   \* the next script
  batch,    \* what is merged so far, and then what is split
  step,     \* "collect", "split", "done" or "failed"
  rest,     \* what is left to be split, [kind, item] in order
  current,  \* the part being filled
  size,     \* its bytes, as the code keeps count
  parts

vars == <<script, batch, step, rest, current, size, parts>>
-----------------------------------------------------------------------------
Kinds == <<"metric", "event", "state">>
Empty == [k \in ToSet(Kinds) |-> <<>>]
Count(b) == Len(b["metric"]) + Len(b["event"]) + Len(b["state"])
Joined(a, b) == [k \in ToSet(Kinds) |-> a[k] \o b[k]]

Init ==
  /\ script = 1 /\ batch = Empty /\ step = "collect"
  /\ rest = <<>> /\ current = Empty /\ size = 0 /\ parts = <<>>

(* validation.Batch: items in order, one definition per metric name and    *)
(* one sample per series.                                                  *)
SameSeries(m, n) == m.name = n.name /\ m.series = n.series /\ m.script = n.script
Agree(m, n) == (m.name = n.name => m.definition = n.definition) /\ ~SameSeries(m, n)
Valid(b) ==
  /\ \A k \in ToSet(Kinds) : \A i \in DOMAIN b[k] : b[k][i].sane
  /\ \A i, j \in DOMAIN b["metric"] : i # j => Agree(b["metric"][i], b["metric"][j])

(* Inject: a dimension the script wrote itself stays. *)
Injected(b, s) ==
  [k \in ToSet(Kinds) |->
     [i \in DOMAIN b[k] |-> [b[k][i] EXCEPT !.script = IF @ = "" THEN s ELSE @]]]

(* A script is run, fails, takes too long or writes too much, or its       *)
(* output is invalid: then it leaves a state and an event.                 *)
State(s, ok) == [name |-> "script.ok", definition |-> "", series |-> IF ok THEN "true" ELSE "false",
                 script |-> s, size |-> 1, sane |-> TRUE]
FailureEvent(s) == [State(s, FALSE) EXCEPT !.name = "script.failed"]
Succeeded(s, out) == [Injected(out, s) EXCEPT !["state"] = Append(@, State(s, TRUE))]
Failed(s) == [Empty EXCEPT !["state"] = <<State(s, FALSE)>>, !["event"] = <<FailureEvent(s)>>]

(* The runner takes what a collector returns if the batch stays valid with *)
(* it.                                                                     *)
Merged(part) == IF Valid(Joined(batch, part)) THEN Joined(batch, part) ELSE batch

Collect ==
  /\ step = "collect" /\ script <= Len(Scripts)
  /\ LET s == Scripts[script]
     IN \/ batch' = Merged(Failed(s))
        \/ \E out \in Outputs :
             batch' = Merged(IF Valid(Injected(out, s)) THEN Succeeded(s, out) ELSE Failed(s))
  /\ script' = script + 1
  /\ UNCHANGED <<step, rest, current, size, parts>>

(* The items at some positions, in their order. *)
InOrder(I) == {f \in [1 .. Cardinality(I) -> I] : \A i, j \in DOMAIN f : i < j => f[i] < f[j]}
At(items, f) == [i \in DOMAIN f |-> items[f[i]]]

(* withoutBlockedMetrics: Pulse has refused some names lately.             *)
Unblocked(blocked) == {i \in DOMAIN batch["metric"] : batch["metric"][i].name \notin blocked}

(* Filter: of the states with one identity the last, if it is to be sent   *)
(* (see StateDelivery).  The value of a state is its series.               *)
Identity(s) == <<s.name, s.script>>
Changed(states, unchanged) ==
  {i \in DOMAIN states : /\ Identity(states[i]) \notin unchanged
                         /\ \A j \in DOMAIN states : Identity(states[j]) = Identity(states[i]) => j <= i}

(* queue: what is left of the collection, and the agent's own signals,     *)
(* which are not validated.                                                *)
States(own) == batch["state"] \o own["state"]
Queued(own, f, g) ==
  [k \in ToSet(Kinds) |-> CASE k = "metric" -> At(batch["metric"], f) \o own["metric"]
                            [] k = "event" -> batch["event"] \o own["event"]
                            [] k = "state" -> At(States(own), g)]
Tagged(b, k) == [i \in 1 .. Len(b[k]) |-> [kind |-> k, item |-> b[k][i]]]
StartSplit ==
  /\ step = "collect" /\ script > Len(Scripts)
  /\ \E own \in SelfSignals, blocked \in SUBSET {m.name : m \in ToSet(batch["metric"])} :
     \E unchanged \in SUBSET {Identity(s) : s \in ToSet(States(own))} :
     \E f \in InOrder(Unblocked(blocked)) : \E g \in InOrder(Changed(States(own), unchanged)) :
       batch' = Queued(own, f, g)
  /\ step' = "split" /\ size' = Overhead
  /\ rest' = Tagged(batch', "metric") \o Tagged(batch', "event") \o Tagged(batch', "state")
  /\ UNCHANGED <<script, current, parts>>

(* splitBatch: an item goes to the current part, with a comma unless it is *)
(* the first of its collection, or, if that would pass a limit, to a new   *)
(* part.  Mutant: the comma is not counted.                                *)
Separated_Not(k, item) == item.size
Separated(k, item) == IF current[k] = <<>> THEN item.size ELSE item.size + 1
Fits(k, item) ==
  /\ Count(current) + 1 <= ItemMax /\ Len(current[k]) + 1 <= CollectionMax
  /\ size + Separated(k, item) <= ByteMax
TooLarge(item) == Overhead + item.size > ByteMax

Add ==
  /\ step = "split" /\ rest # <<>>
  /\ LET k == Head(rest).kind
         item == Head(rest).item
     IN /\ ~TooLarge(item)
        /\ IF Fits(k, item)
           THEN /\ current' = [current EXCEPT ![k] = Append(@, item)]
                /\ size' = size + Separated(k, item) /\ UNCHANGED parts
           ELSE /\ parts' = Append(parts, current)
                /\ current' = [Empty EXCEPT ![k] = <<item>>] /\ size' = Overhead + item.size
  /\ rest' = Tail(rest)
  /\ UNCHANGED <<script, batch, step>>

(* One item that no request can carry fails the whole batch. *)
SplitFails ==
  /\ step = "split" /\ rest # <<>> /\ TooLarge(Head(rest).item)
  /\ step' = "failed"
  /\ UNCHANGED <<script, batch, rest, current, size, parts>>
SplitEnds ==
  /\ step = "split" /\ rest = <<>> /\ step' = "done"
  /\ parts' = IF Count(current) > 0 THEN Append(parts, current) ELSE parts
  /\ UNCHANGED <<script, batch, rest, current, size>>

Next == Collect \/ StartSplit \/ Add \/ SplitFails \/ SplitEnds
Spec == Init /\ [][Next]_vars
-----------------------------------------------------------------------------
(* Only known values; no more parts than items. *)
TypeOK ==
  /\ script \in 1 .. Len(Scripts) + 1 /\ step \in {"collect", "split", "done", "failed"}
  /\ size \in Nat /\ Len(parts) <= Count(batch)

(* The bytes of a request: its items and, within each collection, commas.  *)
ItemBytes(items) == FoldLeft(LAMBDA n, i : n + i.size, 0, items)
Commas(items) == IF items = <<>> THEN 0 ELSE Len(items) - 1
Bytes(b) ==
  LET Of(k) == ItemBytes(b[k]) + Commas(b[k])
  IN Overhead + Of("metric") + Of("event") + Of("state")

(* What is cut up is what was to be sent: the parts carry every item once, *)
(* in its order, each part is within every limit by the bytes it really    *)
(* takes, none is empty, and each is valid by the rules of the receiver,   *)
(* except that a script may have written a metric of the agent's own name, *)
(* which nobody checks (agent.go:311).  It fails only for an item that no  *)
(* request can carry.                                                      *)
Concatenated(batches) == FoldLeft(Joined, Empty, batches)
Together == Concatenated(parts)
Own == UNION {{m.name : m \in ToSet(b["metric"])} : b \in SelfSignals}
Sendable(b) ==
  /\ \A k \in ToSet(Kinds) : \A i \in DOMAIN b[k] : b[k][i].sane
  /\ \A i, j \in DOMAIN b["metric"] :
       i # j /\ b["metric"][i].name \notin Own => Agree(b["metric"][i], b["metric"][j])
Sound(b) ==
  /\ Count(b) \in 1 .. ItemMax /\ Bytes(b) <= ByteMax
  /\ \A k \in ToSet(Kinds) : Len(b[k]) <= CollectionMax
  /\ Sendable(b)
PartsSound ==
  /\ step = "done" => Together = batch /\ \A i \in DOMAIN parts : Sound(parts[i])
  /\ step = "failed" =>
       \E k \in ToSet(Kinds) : \E i \in DOMAIN batch[k] : Overhead + batch[k][i].size > ByteMax
-----------------------------------------------------------------------------
(* The inductive invariant of PartsSound, see HostProofs.                  *)

Things(b) == UNION {ToSet(b[k]) : k \in ToSet(Kinds)}
BatchesOf(S) == [ToSet(Kinds) -> Seq(S)]
IsBatch(b) == b \in BatchesOf(Things(b)) /\ \A x \in Things(b) : x.size \in Nat

(* The items of a kind that are in no part yet, as they were at the start. *)
Taken(k) == Len(Together[k]) + Len(current[k])
Ahead(k) ==
  [i \in 1 .. Len(batch[k]) - Taken(k) |-> [kind |-> k, item |-> batch[k][Taken(k) + i]]]

Splitting ==
  /\ parts \in Seq(BatchesOf(Things(batch))) /\ current \in BatchesOf(Things(batch))
  /\ Len(parts) <= Count(Together) /\ \A i \in DOMAIN parts : Sound(parts[i])
  /\ rest = Ahead("metric") \o Ahead("event") \o Ahead("state")
  /\ \A k \in ToSet(Kinds) :
       /\ Taken(k) <= Len(batch[k]) /\ Len(current[k]) <= CollectionMax
       /\ \A i \in DOMAIN Together[k] : Together[k][i] = batch[k][i]
       /\ \A i \in DOMAIN current[k] : current[k][i] = batch[k][Len(Together[k]) + i]
  /\ size = Bytes(current) /\ Count(current) <= ItemMax
  /\ Count(current) > 0 => size <= ByteMax

Inductive ==
  /\ TypeOK /\ PartsSound /\ IsBatch(batch) /\ Sendable(batch)
  /\ step = "collect" => parts = <<>> /\ current = Empty /\ Valid(batch)
  /\ step = "split" => Splitting
=============================================================================
