------------------------------ MODULE Proxmox ------------------------------
(***************************************************************************)
(* Which node of a Proxmox VE cluster reports the data of the cluster      *)
(* (internal/modules/proxmox/proxmox.go, Collect and electedNode): every   *)
(* node runs an agent, every phase reads the cluster's status and elects   *)
(* anew, while nodes leave and the cluster falls apart.                    *)
(*                                                                         *)
(* The membership that a status shows is corosync's: nodes that see each   *)
(* other see the same nodes, and the side with a majority is quorate.      *)
(***************************************************************************)
EXTENDS Integers, FiniteSets

CONSTANTS
  Nodes,
  NodeID,    \* [Nodes -> Nat], 0 where the status has no ID
  NameRank,  \* [Nodes -> Nat], the order of their names
  MaxEpochs  \* bound: changes of the membership

VARIABLES
  clustered,  \* whether the nodes are a cluster or stand alone
  side,       \* external: which nodes each node sees online
  epoch,      \* external: how often that has changed
  pc,         \* per agent: "idle" or "aggregating"
  asOf,       \* history: the epoch of the status its phase has read
  available,  \* the last proxmox.available of each
  elected,    \* the last proxmox.cluster.elected of each
  reporter    \* history: the agent that queued the cluster's data last

vars == <<clustered, side, epoch, pc, asOf, available, elected, reporter>>
-----------------------------------------------------------------------------
Nobody == "nobody"

(* External: the sides of a partition. *)
Sides ==
  {s \in [Nodes -> SUBSET Nodes] :
     \A m, n \in Nodes : n \in s[n] /\ (m \in s[n] => s[m] = s[n])}

(* The quorum flag of a status; a node that stands alone needs none.       *)
(* Mutant: nor does any other.                                             *)
Quorate_Always(n) == TRUE
Quorate(n) == clustered => 2 * Cardinality(side[n]) > Cardinality(Nodes)
Online(n) == IF clustered THEN side[n] ELSE {n}

(* electedNode: the lowest ID, then name, and the names alone as soon as   *)
(* one candidate has no ID.  Mutant: offline nodes are candidates, too.    *)
Lowest(candidates) ==
  LET byID == \A n \in candidates : NodeID[n] > 0
      Before(m, n) == IF byID /\ NodeID[m] # NodeID[n] THEN NodeID[m] < NodeID[n]
                      ELSE NameRank[m] < NameRank[n]
  IN CHOOSE n \in candidates : \A m \in candidates \ {n} : Before(n, m)
Elected_Offline(n) == Lowest(IF clustered THEN Nodes ELSE {n})
Elected(n) == Lowest(Online(n))

Init ==
  /\ clustered \in BOOLEAN /\ side \in Sides /\ epoch = 0
  /\ pc = [n \in Nodes |-> "idle"] /\ asOf = [n \in Nodes |-> 0]
  /\ available = [n \in Nodes |-> FALSE] /\ elected = [n \in Nodes |-> FALSE]
  /\ reporter = Nobody

Membership ==
  /\ epoch < MaxEpochs /\ epoch' = epoch + 1 /\ side' \in Sides \ {side}
  /\ UNCHANGED <<clustered, pc, asOf, available, elected, reporter>>

(* A phase that has read the status: every node reports itself, and the    *)
(* elected node of a quorate view goes on to the cluster's data.           *)
ReadStatus(n) ==
  /\ pc[n] = "idle"
  /\ LET mine == Quorate(n) /\ Elected(n) = n
     IN /\ elected' = [elected EXCEPT ![n] = mine]
        /\ pc' = [pc EXCEPT ![n] = IF mine THEN "aggregating" ELSE "idle"]
        /\ asOf' = [asOf EXCEPT ![n] = IF mine THEN epoch ELSE 0]
  /\ available' = [available EXCEPT ![n] = TRUE]
  /\ UNCHANGED <<clustered, side, epoch, reporter>>

(* A failed status is no proof of a standalone node.                       *)
StatusFails(n) ==
  /\ pc[n] = "idle" /\ available' = [available EXCEPT ![n] = FALSE]
  /\ UNCHANGED <<clustered, side, epoch, pc, asOf, elected, reporter>>

(* The phase has queued the cluster's data: tasks, guests, shared storage. *)
Report(n) ==
  /\ pc[n] = "aggregating" /\ pc' = [pc EXCEPT ![n] = "idle"]
  /\ asOf' = [asOf EXCEPT ![n] = 0] /\ reporter' = n
  /\ UNCHANGED <<clustered, side, epoch, available, elected>>

Next ==
  \/ Membership
  \/ \E n \in Nodes : ReadStatus(n) \/ StatusFails(n) \/ Report(n)

(* The runner repeats the phases, whose status does not fail forever.      *)
Fairness == \A n \in Nodes : SF_vars(ReadStatus(n)) /\ WF_vars(Report(n))
Spec == Init /\ [][Next]_vars /\ Fairness
-----------------------------------------------------------------------------
(* Only known values. *)
TypeOK ==
  /\ clustered \in BOOLEAN /\ side \in Sides /\ epoch \in 0 .. MaxEpochs
  /\ pc \in [Nodes -> {"idle", "aggregating"}] /\ asOf \in [Nodes -> 0 .. MaxEpochs]
  /\ available \in [Nodes -> BOOLEAN] /\ elected \in [Nodes -> BOOLEAN]
  /\ reporter \in Nodes \cup {Nobody}

(* No two agents report the cluster's data under the same membership: only *)
(* a phase that began before a change may end beside the new reporter's.   *)
OneReporter ==
  clustered =>
    \A m, n \in Nodes : pc[m] = "aggregating" /\ pc[n] = "aggregating" /\ asOf[m] = asOf[n]
                          => m = n

(* The agents agree on a reporter without a restart: once the membership   *)
(* settles with a majority on one side, one node of that side reports, and *)
(* no other one.                                                           *)
Majorities == {S \in SUBSET Nodes : 2 * Cardinality(S) > Cardinality(Nodes)}
Settled(S) == clustered /\ \A n \in S : side[n] = S
Reports(n) == reporter = n
TakesOver == \A S \in Majorities : <>[]Settled(S) => \E n \in S : <>[]Reports(n)
-----------------------------------------------------------------------------
(* The inductive invariant of OneReporter, see ServersProofs: a phase does *)
(* not know more than the present, and what it has read of the present is  *)
(* that its node is elected by a quorate side.                             *)
KnownEpochs == \A n \in Nodes : asOf[n] <= epoch
ElectedNow ==
  \A n \in Nodes : pc[n] = "aggregating" /\ asOf[n] = epoch => Quorate(n) /\ Elected(n) = n
Inductive == TypeOK /\ KnownEpochs /\ ElectedNow /\ OneReporter
=============================================================================
