------------------------------ MODULE Servers -------------------------------
(***************************************************************************)
(* The collectors that follow a server: a Proxmox Backup Server, a Proxmox *)
(* cluster or Docker.                                                      *)
(*                                                                         *)
(* Their programs share no state, so that one model takes them in turn: a  *)
(* behaviour is of one program, chosen at its start.  Variables of the     *)
(* same name are the same variable; those a program does not use stay      *)
(* "off".                                                                  *)
(***************************************************************************)
EXTENDS Integers, Sequences, FiniteSets

CONSTANTS
  ServerTasks, JobRuns, ServerListLimit,      \* of PBS
  ClusterTasks, Backups, ClusterListLimit,    \* of ProxmoxHealth
  MaxEvents, Nameless,                        \* of both
  Stores, Namespaces, MaxGroups, GroupLimit,       \* of PBSGroups
  Nodes, NodeID, NameRank, MaxEpochs,         \* of Proxmox
  Guests, Jobs, Storages, Services,           \* of ProxmoxBackups
  Workers, Containers, Images, Keys, Fleets,  \* of Docker
  Refs, Hub, Digests, MaxLocal                \* of Registry

ASSUME ServerAssumption == ServerTasks \in Nat /\ ServerListLimit \in Nat
ASSUME ClusterAssumption == ClusterTasks \in Nat /\ ClusterListLimit \in Nat
ASSUME GroupsAssumption ==
  /\ Stores \in Seq(STRING) /\ \A i, j \in DOMAIN Stores : Stores[i] = Stores[j] => i = j
  /\ \A k \in DOMAIN Stores :
       /\ Namespaces[Stores[k]] \in Seq(STRING) \ {<<>>}
       /\ \A i, j \in DOMAIN Namespaces[Stores[k]] :
            Namespaces[Stores[k]][i] = Namespaces[Stores[k]][j] => i = j
  /\ MaxGroups \in Nat /\ GroupLimit \in Nat
ASSUME NodesAssumption == IsFiniteSet(Nodes) /\ MaxEpochs \in Nat
ASSUME DockerAssumption ==
  /\ Workers \subseteq Nat /\ Containers \subseteq Nat /\ Images \subseteq Nat \ {0}
  /\ IsFiniteSet(Containers) /\ IsFiniteSet(Images)
  /\ Fleets \subseteq [Containers -> [image : Images \cup {0}, key : Keys, running : BOOLEAN]]
ASSUME BackupsAssumption ==
  /\ \A g, h \in Guests : g.id = h.id => g = h
  /\ \A s, t \in Storages : s.name = t.name => s = t
ASSUME RegistryAssumption == IsFiniteSet(Refs) /\ MaxLocal \in Nat

VARIABLES
  program,
  command, status, runs, jobsRead,                             \* PBS
  groups, expired, listed, stores, names, firstErr, remaining, \* PBSGroups
  truncated, complete, series, summary, reported, finished,
  clustered, side, epoch, asOf, reporter,                      \* Proxmox
  api, ceph, tasksRead, cephID, sentCeph, cephSeen,            \* ProxmoxHealth
  backedUp, failed,                                            \* ProxmoxBackups
  fleet, ctx, next, closed, worker, busy, results, outcome,    \* Docker
  local, remote, alive, left, step, answered,                  \* Registry
  pc, available, started, shown, seen, batch, sent,            \* of several
  elected, read, phase, jobs, claims

ofPBS == <<command, status, runs, jobsRead>>
ofGroups == <<groups, expired, listed, stores, names, firstErr, remaining, truncated, complete,
              series, summary, reported, finished>>
ofProxmox == <<clustered, side, epoch, asOf, reporter>>
ofHealth == <<api, ceph, tasksRead, cephID, sentCeph, cephSeen>>
ofBackups == <<backedUp, failed>>
ofDocker == <<fleet, ctx, next, closed, worker, busy, results, outcome>>
ofRegistry == <<local, remote, alive, left, step, answered>>
ofEvents == <<started, shown, seen, batch, sent>>
vars == <<program, ofPBS, ofGroups, ofProxmox, ofHealth, ofBackups, ofDocker, ofRegistry,
          ofEvents, pc, available, elected, read, phase, jobs, claims>>
-----------------------------------------------------------------------------
PB == INSTANCE PBS WITH Tasks <- ServerTasks, ListLimit <- ServerListLimit
PG == INSTANCE PBSGroups WITH Limit <- GroupLimit
PX == INSTANCE Proxmox
PH == INSTANCE ProxmoxHealth WITH Tasks <- ClusterTasks, ListLimit <- ClusterListLimit
PK == INSTANCE ProxmoxBackups
DK == INSTANCE Docker
RG == INSTANCE Registry
-----------------------------------------------------------------------------
Off(v) == v = "off"
OffPBS == Off(command) /\ Off(status) /\ Off(runs) /\ Off(jobsRead)
OffGroups ==
  /\ Off(groups) /\ Off(expired) /\ Off(listed) /\ Off(stores) /\ Off(names) /\ Off(firstErr)
  /\ Off(remaining) /\ Off(truncated) /\ Off(complete) /\ Off(series) /\ Off(summary)
  /\ Off(reported) /\ Off(finished)
OffProxmox == Off(clustered) /\ Off(side) /\ Off(epoch) /\ Off(asOf) /\ Off(reporter)
OffHealth ==
  Off(api) /\ Off(ceph) /\ Off(tasksRead) /\ Off(cephID) /\ Off(sentCeph) /\ Off(cephSeen)
OffBackups == Off(backedUp) /\ Off(failed)
OffDocker ==
  /\ Off(fleet) /\ Off(ctx) /\ Off(next) /\ Off(closed) /\ Off(worker) /\ Off(busy)
  /\ Off(results) /\ Off(outcome)
OffRegistry ==
  Off(local) /\ Off(remote) /\ Off(alive) /\ Off(left) /\ Off(step) /\ Off(answered)
OffEvents ==
  Off(started) /\ Off(shown) /\ Off(seen) /\ Off(batch) /\ Off(sent)

InitPBS ==
  /\ PB!Init /\ OffGroups /\ OffProxmox /\ OffHealth /\ OffBackups /\ OffDocker /\ OffRegistry
  /\ Off(elected) /\ Off(read) /\ Off(phase) /\ Off(jobs) /\ Off(claims)
InitGroups ==
  /\ PG!Init /\ OffPBS /\ OffProxmox /\ OffHealth /\ OffBackups /\ OffDocker /\ OffRegistry
  /\ OffEvents /\ Off(pc) /\ Off(available) /\ Off(elected) /\ Off(phase) /\ Off(jobs)
  /\ Off(claims)
InitProxmox ==
  /\ PX!Init /\ OffPBS /\ OffGroups /\ OffHealth /\ OffBackups /\ OffDocker /\ OffRegistry
  /\ OffEvents /\ Off(read) /\ Off(phase) /\ Off(jobs) /\ Off(claims)
InitHealth ==
  /\ PH!Init /\ OffPBS /\ OffGroups /\ OffProxmox /\ OffBackups /\ OffDocker /\ OffRegistry
  /\ Off(available) /\ Off(elected) /\ Off(read) /\ Off(phase) /\ Off(jobs) /\ Off(claims)
InitBackups ==
  /\ PK!Init /\ OffPBS /\ OffGroups /\ OffProxmox /\ OffHealth /\ OffDocker /\ OffRegistry
  /\ OffEvents /\ Off(available)
InitDocker ==
  /\ DK!Init /\ OffPBS /\ OffGroups /\ OffProxmox /\ OffHealth /\ OffBackups /\ OffRegistry
  /\ OffEvents /\ Off(pc) /\ Off(available) /\ Off(elected) /\ Off(read) /\ Off(claims)
InitRegistry ==
  /\ RG!Init /\ OffPBS /\ OffGroups /\ OffProxmox /\ OffHealth /\ OffBackups /\ OffDocker
  /\ OffEvents /\ Off(pc) /\ Off(available) /\ Off(elected) /\ Off(read) /\ Off(phase)
  /\ Off(jobs)

Init ==
  \/ program = "PBS" /\ InitPBS
  \/ program = "PBSGroups" /\ InitGroups
  \/ program = "Proxmox" /\ InitProxmox
  \/ program = "ProxmoxHealth" /\ InitHealth
  \/ program = "ProxmoxBackups" /\ InitBackups
  \/ program = "Docker" /\ InitDocker
  \/ program = "Registry" /\ InitRegistry

(* A step of a program leaves alone what only others use. *)
PBSOnly ==
  /\ program = "PBS"
  /\ UNCHANGED <<program, ofGroups, ofProxmox, ofHealth, ofBackups, ofDocker, ofRegistry,
                 elected, read, phase, jobs, claims>>
GroupsOnly ==
  /\ program = "PBSGroups"
  /\ UNCHANGED <<program, ofPBS, ofProxmox, ofHealth, ofBackups, ofDocker, ofRegistry,
                 ofEvents, pc, available, elected, phase, jobs, claims>>
ProxmoxOnly ==
  /\ program = "Proxmox"
  /\ UNCHANGED <<program, ofPBS, ofGroups, ofHealth, ofBackups, ofDocker, ofRegistry,
                 ofEvents, read, phase, jobs, claims>>
HealthOnly ==
  /\ program = "ProxmoxHealth"
  /\ UNCHANGED <<program, ofPBS, ofGroups, ofProxmox, ofBackups, ofDocker, ofRegistry,
                 available, elected, read, phase, jobs, claims>>
BackupsOnly ==
  /\ program = "ProxmoxBackups"
  /\ UNCHANGED <<program, ofPBS, ofGroups, ofProxmox, ofHealth, ofDocker, ofRegistry,
                 ofEvents, available>>
DockerOnly ==
  /\ program = "Docker"
  /\ UNCHANGED <<program, ofPBS, ofGroups, ofProxmox, ofHealth, ofBackups, ofRegistry,
                 ofEvents, pc, available, elected, read, claims>>
RegistryOnly ==
  /\ program = "Registry"
  /\ UNCHANGED <<program, ofPBS, ofGroups, ofProxmox, ofHealth, ofBackups, ofDocker,
                 ofEvents, pc, available, elected, read, phase, jobs>>

Next ==
  \/ PBSOnly /\ PB!Next
  \/ GroupsOnly /\ PG!Next
  \/ ProxmoxOnly /\ PX!Next
  \/ HealthOnly /\ PH!Next
  \/ BackupsOnly /\ PK!Next
  \/ DockerOnly /\ DK!Next
  \/ RegistryOnly /\ RG!Next

Spec == Init /\ [][Next]_vars
-----------------------------------------------------------------------------
(* With the first property of a program, its types.                        *)

(* A process queues the event of a failure only once while the server      *)
(* lists it, for the backup server's tasks and jobs (PBS) and the          *)
(* cluster's tasks and backups (ProxmoxHealth), whatever reads fail and    *)
(* elections are lost in between.  What has no UPID, or leaves the list    *)
(* and returns, may be queued again.                                       *)
EventsOnce ==
  /\ program = "PBS" => PB!TypeOK /\ PB!EventsOnce
  /\ program = "ProxmoxHealth" => PH!TypeOK /\ PH!EventsOnce

(* A scan of backup groups admits what it did not see (PBSGroups), a phase *)
(* of the cluster's backups claims only what a query has shown             *)
(* (ProxmoxBackups), and an update of an image only what its registry says *)
(* (Registry).                                                             *)
NothingInvented ==
  /\ program = "PBSGroups" => PG!TypeOK /\ PG!GroupsHonest
  /\ program = "ProxmoxBackups" => PK!TypeOK /\ PK!NothingInvented
  /\ program = "Registry" => RG!TypeOK /\ RG!UpdatesHonest

(* No two agents report the cluster's data under one membership (Proxmox). *)
OneReporter == program = "Proxmox" => PX!TypeOK /\ PX!OneReporter

(* Ceph's own resource shows what the last query found (ProxmoxHealth). *)
CephCurrent == program = "ProxmoxHealth" => PH!CephCurrent

(* Every job has its result once, unless the collection counts as failed   *)
(* (Docker).                                                               *)
ResultsComplete == program = "Docker" => DK!TypeOK /\ DK!ResultsComplete

(* One series per reference of an image, the running container's (Docker). *)
OneSeries == program = "Docker" => DK!OneSeries
=============================================================================
