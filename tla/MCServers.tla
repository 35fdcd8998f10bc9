----------------------------- MODULE MCServers ------------------------------
(***************************************************************************)
(* Small instances of the collectors that follow a server, for TLC, the    *)
(* fairness of their programs and what comes of it.                        *)
(***************************************************************************)
EXTENDS Servers
-----------------------------------------------------------------------------
(* Nested namespaces in one datastore, a plain one in the other. *)
CNamespaces == [s1 |-> <<"", "a", "a/b">>, s2 |-> <<"", "c">>]
(* Of three nodes one has no ID, and the names are not in the IDs' order. *)
CNodes == {"a", "b", "c"}
CNodeID == [a |-> 2, b |-> 1, c |-> 0]
CNameRank == [a |-> 2, b |-> 3, c |-> 1]
(* A guest in a pool, one outside, a template; every way of choosing       *)
(* guests; storages that are shared, local, disabled or not for backups.   *)
CGuests ==
  {[id |-> 1, node |-> "a", pool |-> "p", template |-> FALSE],
   [id |-> 2, node |-> "b", pool |-> "", template |-> FALSE],
   [id |-> 3, node |-> "a", pool |-> "p", template |-> TRUE]}
AllBut2 ==
  [id |-> "all", enabled |-> TRUE, node |-> "", all |-> TRUE, vmids |-> {}, pool |-> "",
   exclude |-> {2}]
CJobs ==
  {AllBut2, [AllBut2 EXCEPT !.id = "off", !.enabled = FALSE, !.exclude = {}],
   [AllBut2 EXCEPT !.id = "node", !.all = FALSE, !.node = "b", !.vmids = {1, 2}, !.exclude = {}],
   [AllBut2 EXCEPT !.id = "pool", !.all = FALSE, !.pool = "p"]}
CStorages ==
  {[name |-> "pbs1", pbs |-> TRUE, shared |-> TRUE, usable |-> TRUE],
   [name |-> "pbs2", pbs |-> TRUE, shared |-> FALSE, usable |-> TRUE],
   [name |-> "off", pbs |-> TRUE, shared |-> FALSE, usable |-> FALSE],
   [name |-> "disk", pbs |-> FALSE, shared |-> FALSE, usable |-> TRUE]}
(* Old and new images, with and without a reference, running or not; by    *)
(* symmetry the first container has the first key and the newer image.     *)
CFleets ==
  {f \in [1 .. 3 -> [image : {0, 11, 12}, key : {"k1", "k2"}, running : BOOLEAN]] :
     f[1].key = "k1" /\ f[1].image = 12}
(* An official image, one of a team and its copy in another registry.      *)
CRefs ==
  {[registry |-> "hub", path |-> "nginx", form |-> "bare"],
   [registry |-> "hub", path |-> "team/app", form |-> "path"],
   [registry |-> "ghcr", path |-> "team/app", form |-> "explicit"]}
CJobRuns == {1, 3}
CBackups == {2, 3}
CNameless == {2}
CStores == <<"s1", "s2">>
CServices == 1 .. 4
CWorkers == 1 .. 2
CContainers == 1 .. 3
CDigests == 1 .. 2
CImages == {11, 12}
CKeys == {"k1", "k2"}
-----------------------------------------------------------------------------
(* The fairness of each program, see Fairness in its module.  As every     *)
(* behaviour is of one program, one condition states that of several.      *)
begins == <<pc, available, elected, asOf, jobsRead>>  \* what the beginning of a phase changes
Fairness ==
  /\ SF_begins(\/ PBSOnly /\ PB!CheckAvailable
               \/ HealthOnly /\ PH!Elected
               \/ ProxmoxOnly /\ PX!ReadStatus("a"))
  /\ SF_begins(\/ PBSOnly /\ PB!CollectJobs
               \/ ProxmoxOnly /\ PX!ReadStatus("b"))
  /\ SF_begins(ProxmoxOnly /\ PX!ReadStatus("c"))
  /\ \A n \in Nodes : WF_(PX!vars)(ProxmoxOnly /\ PX!Report(n))
  /\ WF_(PB!vars)(PBSOnly /\ PB!Step)
  /\ WF_(PH!vars)(HealthOnly /\ PH!GetClusterTasks)
  /\ WF_(PH!vars)(HealthOnly /\ PH!CollectCeph)
  /\ WF_(PH!vars)(HealthOnly /\ PH!MarkSeen)
  /\ WF_(PH!vars)(HealthOnly /\ (PH!Queue \/ PH!Lose))
  /\ WF_(DK!vars)(DockerOnly /\ (DK!List \/ DK!ListFails))
  /\ WF_(DK!vars)(DockerOnly /\ DK!Close) /\ WF_(DK!vars)(DockerOnly /\ DK!Return)
  /\ \A w \in Workers :
       /\ WF_(DK!vars)(DockerOnly /\ DK!Dispatch(w)) /\ WF_(DK!vars)(DockerOnly /\ DK!Work(w))
       /\ WF_(DK!vars)(DockerOnly /\ DK!Leave(w))
       /\ WF_(DK!vars)(DockerOnly /\ \E ok \in BOOLEAN : DK!Result(w, ok))
FairSpec == Spec /\ Fairness
-----------------------------------------------------------------------------
(* Every failure that the lists go on holding is taken up in the end, by   *)
(* the agent of the backup server (PBS) and the one the cluster elects     *)
(* (ProxmoxHealth), while few have no UPID.                                *)
lists == <<shown, runs>>
Steady == <>[][FALSE]_lists
CatchesUp ==
  /\ Steady /\ <>[](program = "PBS" /\ PB!Works) => <>[](program = "PBS" /\ PB!CaughtUp)
  /\ Steady /\ <>[](program = "ProxmoxHealth" /\ PH!Works)
       => <>[](program = "ProxmoxHealth" /\ PH!CaughtUp)

(* Once the membership settles, one agent of the majority reports and no   *)
(* other one (Proxmox).                                                    *)
TakesOver ==
  \A S \in PX!Majorities :
    <>[](program = "Proxmox" /\ PX!Settled(S))
      => \E n \in S : <>[](program = "Proxmox" /\ PX!Reports(n))

(* A collection of containers, their statistics or their images returns,   *)
(* wherever the context ends (Docker).                                     *)
PoolReturns == <>(program = "Docker" => DK!Returned)
=============================================================================
