--------------------------- MODULE ProxmoxHealth ---------------------------
(***************************************************************************)
(* The health phase of one Proxmox VE agent, cycle after cycle             *)
(* (internal/modules/proxmox/proxmox.go): failed tasks, each reported once *)
(* for each kind of event while the cluster lists it, and Ceph, whose      *)
(* availability must stay on one resource.  Who is elected is the subject  *)
(* of Proxmox; here the election comes and goes.                           *)
(***************************************************************************)
EXTENDS Integers, FiniteSets

CONSTANTS
  Tasks,      \* bound: the number of failed tasks
  Backups,    \* which of them are backups (vzdump)
  Nameless,   \* external: which of them are listed without a UPID
  ListLimit,  \* external: how many tasks /cluster/tasks lists
  MaxEvents   \* the 10 events of each kind in a batch

VARIABLES
  started,   \* external: how many tasks have failed
  shown,     \* external: the failed tasks that /cluster/tasks holds
  api,       \* external: whether the queries of the cluster work
  ceph,      \* external: whether Ceph's status can be queried
  pc,
  tasksRead, \* what getClusterTasks returned, or Unread
  cephID,    \* identity.cephID: whether Ceph's FSID is known
  sentCeph,  \* the last system.ceph.available of either resource
  cephSeen,  \* history: what the last query of Ceph has found
  seen,      \* seenTasks
  batch,     \* the events of the batch that is being queued
  sent       \* history: the events this process has queued, listed ever since

world == <<started, shown, api, ceph>>
vars == <<world, pc, tasksRead, cephID, sentCeph, cephSeen, seen, batch, sent>>
-----------------------------------------------------------------------------
Unread == {0}
Newest(tasks) == {t \in tasks : Cardinality({u \in tasks : u > t}) < ListLimit}
Listed(e) == e[2] \in shown

(* emitTaskSignals, emitBackupTaskSignals: a failed backup is two events. *)
Kinds == {"task", "backup"}
Emitted(tasks) == ({"task"} \X tasks) \cup ({"backup"} \X (tasks \cap Backups))

(* The events that are new, newest first, up to the limit of their kind.   *)
New(events) == events \ seen
Taken(events) ==
  {e \in New(events) :
     Cardinality({f \in New(events) : f[1] = e[1] /\ f[2] > e[2]}) < MaxEvents}

(* Entries are forgotten when the list, if it was read, no longer has the  *)
(* task.                                                                   *)
Kept(marked, tasks) == {e \in marked : tasks # Unread => e[2] \in tasks}

Init ==
  /\ started \in 0 .. Tasks /\ api \in BOOLEAN /\ ceph \in BOOLEAN
  /\ shown \in SUBSET (1 .. started) /\ Cardinality(shown) <= ListLimit
  /\ pc = "idle" /\ tasksRead = Unread /\ cephID = FALSE
  /\ sentCeph = [r \in {"cluster", "ceph"} |-> "unknown"] /\ cephSeen = "unknown"
  /\ seen = {} /\ batch = {} /\ sent = {}

(* External: the cluster, whose list tasks leave and return to. *)
Leave == sent' = {e \in sent : Listed(e)'}
TaskFails ==
  /\ started < Tasks /\ started' = started + 1
  /\ shown' = Newest(shown \cup {started + 1}) /\ Leave
  /\ UNCHANGED <<api, ceph, pc, tasksRead, cephID, sentCeph, cephSeen, seen, batch>>
ListChanges ==
  /\ \E t \in 1 .. started : shown' \in {shown \ {t}, Newest(shown \cup {t})}
  /\ Leave
  /\ UNCHANGED <<started, api, ceph, pc, tasksRead, cephID, sentCeph, cephSeen, seen, batch>>
ClusterChanges ==
  /\ api' = ~api
  /\ UNCHANGED <<started, shown, ceph, pc, tasksRead, cephID, sentCeph, cephSeen, seen, batch,
                 sent>>
CephChanges ==
  /\ ceph' = ~ceph
  /\ UNCHANGED <<started, shown, api, pc, tasksRead, cephID, sentCeph, cephSeen, seen, batch,
                 sent>>

(* A phase that finds its node elected, and one that ends at once: without *)
(* a status or an election.                                                *)
Elected ==
  /\ pc = "idle" /\ api /\ pc' = "tasks"
  /\ UNCHANGED <<world, tasksRead, cephID, sentCeph, cephSeen, seen, batch, sent>>
NotElected == pc = "idle" /\ UNCHANGED vars

GetClusterTasks ==
  /\ pc = "tasks" /\ pc' = "ceph"
  /\ tasksRead' = IF api THEN shown ELSE Unread
  /\ UNCHANGED <<world, cephID, sentCeph, cephSeen, seen, batch, sent>>

(* collectCephAPI: a failure goes to the resource of the last success.     *)
(* Mutant: to the cluster.                                                 *)
FailureResource_Cluster == "cluster"
FailureResource == IF cephID THEN "ceph" ELSE "cluster"
CollectCeph ==
  /\ pc = "ceph" /\ pc' = "events"
  /\ cephSeen' = IF ceph THEN "up" ELSE "down"
  /\ cephID' = (cephID \/ ceph)
  /\ sentCeph' = IF ceph THEN [sentCeph EXCEPT !["ceph"] = "up"]
                 ELSE [sentCeph EXCEPT ![FailureResource] = "down"]
  /\ UNCHANGED <<world, tasksRead, seen, batch, sent>>

(* The end of the phase, when its batch has been built.  Without a UPID an *)
(* event is never marked as seen.                                          *)
MarkSeen ==
  /\ pc = "events" /\ pc' = "built"
  /\ LET events == IF tasksRead = Unread THEN {} ELSE Taken(Emitted(tasksRead))
         named == {e \in events : e[2] \notin Nameless}
     IN batch' = events /\ seen' = Kept(seen \cup named, tasksRead)
  /\ tasksRead' = Unread
  /\ UNCHANGED <<world, cephID, sentCeph, cephSeen, sent>>

(* The runner and the agent queue the batch, or lose it. *)
Queue ==
  /\ pc = "built" /\ pc' = "idle" /\ batch' = {} /\ sent' = {e \in sent \cup batch : Listed(e)}
  /\ UNCHANGED <<world, tasksRead, cephID, sentCeph, cephSeen, seen>>
Lose ==
  /\ pc = "built" /\ pc' = "idle" /\ batch' = {}
  /\ UNCHANGED <<world, tasksRead, cephID, sentCeph, cephSeen, seen, sent>>

Next ==
  \/ TaskFails \/ ListChanges \/ ClusterChanges \/ CephChanges
  \/ Elected \/ NotElected \/ GetClusterTasks \/ CollectCeph \/ MarkSeen \/ Queue \/ Lose

Fairness ==
  SF_vars(Elected) /\ WF_vars(GetClusterTasks) /\ WF_vars(CollectCeph)
    /\ WF_vars(MarkSeen) /\ WF_vars(Queue \/ Lose)
Spec == Init /\ [][Next]_vars /\ Fairness
-----------------------------------------------------------------------------
(* Only known values. *)
TypeOK ==
  /\ started \in 0 .. Tasks /\ shown \subseteq 1 .. started
  /\ api \in BOOLEAN /\ ceph \in BOOLEAN
  /\ pc \in {"idle", "tasks", "ceph", "events", "built"}
  /\ tasksRead = Unread \/ tasksRead \subseteq 1 .. started
  /\ cephID \in BOOLEAN /\ seen \cup batch \cup sent \subseteq Kinds \X (1 .. Tasks)
  /\ sentCeph \in [{"cluster", "ceph"} -> {"unknown", "up", "down"}]
  /\ cephSeen \in {"unknown", "up", "down"}

(* A process queues the event of a failed task, and of a failed backup,    *)
(* only once while the cluster lists it, through elections lost and won    *)
(* again and lists that fail.  What may repeat is what left the list and   *)
(* returned (module-proxmox.md:101) and what has no UPID (proxmox.go:209). *)
EventsOnce == \A e \in batch \cap sent : e[2] \in Nameless

(* Once the cluster answers and its list is steady, every failure that is  *)
(* listed is taken up in the end, as a task and as a backup, however many  *)
(* of either kind there are.  Those without a UPID take their places in    *)
(* every batch: there are to be fewer than the limit.                      *)
Works == api /\ Cardinality(shown \cap Nameless) < MaxEvents
CaughtUp == Emitted(shown \ Nameless) \subseteq seen
CatchesUp == <>[]Works /\ <>[][FALSE]_shown => <>[]CaughtUp

(* Once Ceph has answered, its own resource shows what the last query has  *)
(* found, a failure too: it is never left as available.                    *)
CephCurrent == cephID => sentCeph["ceph"] = cephSeen
-----------------------------------------------------------------------------
(* The inductive invariant of EventsOnce, see ServersProofs.               *)

(* An event that was queued and listed ever since has stayed in seen, and  *)
(* the list in hand, read after it was queued, has it.                     *)
Tracked == \A e \in sent : Listed(e) /\ (e[2] \in Nameless \/ e \in seen)
ReadLately == tasksRead # Unread => \A e \in sent : e[2] \in Nameless \/ e[2] \in tasksRead

Inductive ==
  /\ TypeOK /\ Tracked /\ ReadLately
  /\ pc # "built" => batch = {}
  /\ pc = "built" => tasksRead = Unread
  /\ \A e \in batch : e[2] \in Nameless \/ e \in seen
  /\ EventsOnce /\ CephCurrent
=============================================================================
