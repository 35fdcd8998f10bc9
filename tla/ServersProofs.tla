--------------------------- MODULE ServersProofs ---------------------------
(***************************************************************************)
(* The safety properties of the server programs, see Servers, for every    *)
(* value of the constants that its assumptions admit: any number of tasks, *)
(* nodes, guests, containers, references and groups, any limits.           *)
(*                                                                         *)
(* Each program has an inductive invariant in its own module; a program's  *)
(* section shows that its first states satisfy it, that its steps keep it  *)
(* and that it implies the property.  The last section puts the programs   *)
(* together.                                                               *)
(***************************************************************************)
EXTENDS Servers, SumTheorems, SequenceTheorems
-----------------------------------------------------------------------------
(* The backup server's events (PBS) *)

LEMMA PBSTypes == ASSUME PB!Inductive, PB!Next PROVE PB!TypeOK'
<1> USE DEF PB!Inductive, PB!TypeOK, PB!NoJobs
<1> USE ServerAssumption
<1>1. CASE PB!StartTask
  <2>1. started' = started + 1 /\ started' \in 0 .. ServerTasks
    BY <1>1 DEF PB!StartTask
  <2>2. shown' \subseteq 1 .. started' /\ runs' \subseteq JobRuns \cap 1 .. started'
    <3>1. shown \cup {started + 1} \subseteq 1 .. started'
      BY <2>1
    <3>2. shown' \subseteq shown \cup {started + 1}
      BY <1>1 DEF PB!StartTask, PB!Newest
    <3>3. runs' = runs \/ (started + 1 \in JobRuns /\ runs' = {started + 1})
      BY <1>1 DEF PB!StartTask
    <3> QED BY <2>1, <3>1, <3>2, <3>3
  <2>3. sent' \subseteq sent
    BY <1>1 DEF PB!StartTask, PB!Leave
  <2>4. status' \in [1 .. ServerTasks -> {"none", "running", "ok", "error"}]
    BY <1>1 DEF PB!StartTask
  <2> QED BY <1>1, <2>1, <2>2, <2>3, <2>4 DEF PB!StartTask
<1>2. CASE PB!EndTask
  BY <1>2 DEF PB!EndTask, PB!lists
<1>3. CASE PB!CommandChanges \/ PB!CheckAvailable \/ PB!NoCommand
  BY <1>3 DEF PB!CommandChanges, PB!CheckAvailable, PB!NoCommand, PB!world, PB!lists
<1>4. CASE PB!CollectJobs
  <2>1. PB!FailedJobs \subseteq runs /\ runs \subseteq JobRuns
    BY DEF PB!FailedJobs
  <2>2. jobsRead' \in [current : SUBSET JobRuns, failed : SUBSET JobRuns, complete : BOOLEAN]
    <3>1. \/ jobsRead' = [current |-> {}, failed |-> {}, complete |-> FALSE]
          \/ \E c \in BOOLEAN :
               jobsRead' = [current |-> runs, failed |-> PB!FailedJobs, complete |-> c]
      BY <1>4 DEF PB!CollectJobs
    <3>2. CASE jobsRead' = [current |-> {}, failed |-> {}, complete |-> FALSE]
      BY <3>2
    <3>3. ASSUME NEW c \in BOOLEAN,
                 jobsRead' = [current |-> runs, failed |-> PB!FailedJobs, complete |-> c]
          PROVE  jobsRead' \in [current : SUBSET JobRuns, failed : SUBSET JobRuns, complete : BOOLEAN]
      BY <2>1, <3>3, Zenon
    <3> QED BY <3>1, <3>2, <3>3
  <2> QED BY <1>4, <2>2 DEF PB!CollectJobs, PB!world, PB!lists
<1>5. CASE PB!CollectTasks
  <2> DEFINE tasks == IF PB!Answers THEN PB!Reported(PB!FailedTasks) ELSE {}
             events == ({"task"} \X tasks) \cup (({"job"} \X jobsRead.failed) \ seen)
  <2>1. batch' = events /\ seen' \subseteq seen \cup events
    BY <1>5 DEF PB!CollectTasks, PB!Remembered
  <2>2. tasks \subseteq 1 .. ServerTasks
    <3>1. tasks \subseteq shown
      BY Zenon DEF PB!Reported, PB!FailedTasks
    <3>2. shown \subseteq 1 .. ServerTasks
      OBVIOUS
    <3> HIDE DEF tasks
    <3> QED BY <3>1, <3>2
  <2>3. events \subseteq PB!Events
    BY <2>2 DEF PB!Events
  <2> HIDE DEF events
  <2> QED BY <1>5, <2>1, <2>3 DEF PB!CollectTasks, PB!world, PB!lists
<1>6. CASE PB!Queue \/ PB!Lose
  BY <1>6 DEF PB!Queue, PB!Lose, PB!Built, PB!world, PB!lists
<1>7. CASE PB!ListsChange
  <2>1. shown' \subseteq 1 .. started
    BY <1>7 DEF PB!ListsChange, PB!Newest
  <2>2. runs' \subseteq JobRuns \cap 1 .. started
    BY <1>7 DEF PB!ListsChange, PB!LastRun
  <2>3. sent' \subseteq sent
    BY <1>7 DEF PB!ListsChange, PB!Leave
  <2> QED BY <1>7, <2>1, <2>2, <2>3 DEF PB!ListsChange
<1> QED BY <1>1, <1>2, <1>3, <1>4, <1>5, <1>6, <1>7 DEF PB!Next

LEMMA PBSInit == ASSUME PB!Init PROVE PB!Inductive
<1>1. PB!TypeOK
  BY ServerAssumption DEF PB!TypeOK, PB!Init, PB!LastRun, PB!NoJobs
<1> QED BY <1>1 DEF PB!Init, PB!Inductive, PB!Tracked, PB!ReadLately, PB!EventsOnce, PB!NoJobs

(* Steps that leave the events alone. *)
LEMMA PBSUnchanged ==
  ASSUME PB!Inductive, UNCHANGED <<started, shown, runs, jobsRead, seen, batch, sent>>,
         pc' = "built" <=> pc = "built"
  PROVE  PB!TypeOK' => PB!Inductive'
BY DEF PB!Inductive, PB!Tracked, PB!Listed, PB!ReadLately, PB!EventsOnce

(* What leaves the lists is no longer counted among what was sent. *)
LEMMA PBSLeave ==
  ASSUME PB!Inductive, PB!TypeOK', PB!Leave, UNCHANGED <<pc, jobsRead, seen, batch>>,
         1 .. started \subseteq 1 .. started'
  PROVE  PB!Inductive'
<1>1. \A e \in sent' : e \in sent /\ PB!Listed(e)'
  BY DEF PB!Leave
<1> QED BY <1>1 DEF PB!Inductive, PB!Tracked, PB!ReadLately, PB!EventsOnce

LEMMA PBSStep ==
  ASSUME PB!Inductive, PB!Next PROVE PB!Inductive'
<1> USE DEF PB!Inductive
<1>a. started \in Nat
  BY ServerAssumption DEF PB!TypeOK
<1>b. PB!TypeOK'
  BY PBSTypes
<1>c. \A e \in sent : e[1] = "task" \/ (e[1] = "job" /\ e[1] # "task")
  BY DEF PB!TypeOK, PB!Events
<1> USE <1>a, <1>b
<1>1. CASE PB!StartTask \/ PB!ListsChange
  <2>1. /\ PB!Leave /\ UNCHANGED <<pc, jobsRead, seen, batch>>
        /\ started' = started \/ started' = started + 1
    BY <1>1 DEF PB!StartTask, PB!ListsChange
  <2> QED BY <2>1, PBSLeave
<1>2. CASE PB!CollectJobs
  <2>1. /\ UNCHANGED <<started, shown, runs, seen, batch, sent>> /\ pc' = "tasks" /\ batch = {}
        /\ \/ jobsRead' = PB!NoJobs
           \/ \E c \in BOOLEAN : jobsRead' = [current |-> runs, failed |-> PB!FailedJobs, complete |-> c]
    BY <1>2 DEF PB!CollectJobs, PB!world, PB!lists
  <2>2. PB!FailedJobs \subseteq runs /\ runs \subseteq JobRuns \cap 1 .. started
    BY DEF PB!FailedJobs, PB!TypeOK
  <2>3. PB!ReadLately'
    BY <1>c, <2>1 DEF PB!ReadLately, PB!Tracked, PB!Listed, PB!NoJobs
  <2>4. /\ jobsRead'.failed \subseteq jobsRead'.current
        /\ \A t \in jobsRead'.failed : t \in JobRuns \cap 1 .. started'
    BY <2>1, <2>2 DEF PB!NoJobs
  <2> QED BY <2>1, <2>3, <2>4 DEF PB!Tracked, PB!Listed, PB!EventsOnce
<1>3. CASE PB!CollectTasks
  <2> DEFINE tasksOK == command = "works"
             tasks == IF tasksOK THEN PB!Reported(PB!FailedTasks) ELSE {}
             events == ({"task"} \X tasks) \cup (({"job"} \X jobsRead.failed) \ seen)
             named == {e \in events : e[2] \notin Nameless}
  <2>1. /\ batch' = events /\ seen' = PB!Remembered(seen \cup named, tasksOK)
        /\ UNCHANGED <<started, shown, runs, sent>> /\ jobsRead' = PB!NoJobs /\ pc' = "built"
    BY <1>3 DEF PB!CollectTasks, PB!Answers, PB!world, PB!lists
  <2>2. \A e \in events :
          \/ /\ e[1] = "task" /\ tasksOK /\ e[2] \in shown /\ e \notin seen
          \/ /\ e[1] = "job" /\ e[2] \in jobsRead.failed /\ e \notin seen
    BY DEF PB!Reported, PB!FailedTasks
  <2>3. \A e : e \in seen' <=>
          /\ e \in seen \/ (e \in events /\ e[2] \notin Nameless)
          /\ IF e[1] = "task" THEN tasksOK => e[2] \in shown
             ELSE jobsRead.complete => e[2] \in jobsRead.current
    BY <2>1 DEF PB!Remembered
  <2> HIDE DEF events, named, tasks, tasksOK
  <2>4. \A e \in batch' : e[2] \in Nameless \/ (e \in seen' /\ e \notin sent)
    BY <2>1, <2>2, <2>3 DEF PB!Tracked
  <2>5. PB!Tracked'
    <3>1. \A e \in sent : PB!Listed(e)' = PB!Listed(e)
      BY <2>1 DEF PB!Listed
    <3>2. \A e \in sent : e[2] \in Nameless \/ e \in seen'
      BY <1>c, <2>3 DEF PB!Tracked, PB!Listed, PB!ReadLately
    <3> QED BY <2>1, <3>1, <3>2 DEF PB!Tracked
  <2>6. PB!ReadLately' /\ jobsRead'.failed = {}
    BY <2>1 DEF PB!ReadLately, PB!NoJobs
  <2> QED BY <2>1, <2>4, <2>5, <2>6 DEF PB!EventsOnce
<1>4. CASE PB!Queue
  <2>1. /\ UNCHANGED <<started, shown, runs, jobsRead, seen>> /\ jobsRead = PB!NoJobs
        /\ pc' = "idle" /\ batch' = {} /\ sent' = {e \in sent \cup batch : PB!Listed(e)}
    BY <1>4 DEF PB!Queue, PB!Built, PB!world, PB!lists
  <2>2. PB!Tracked'
    BY <2>1 DEF PB!Tracked, PB!Listed
  <2> QED BY <2>1, <2>2 DEF PB!ReadLately, PB!NoJobs, PB!EventsOnce
<1>5. CASE PB!Lose
  <2>1. UNCHANGED <<started, shown, runs, jobsRead, seen, sent>> /\ pc' = "idle" /\ batch' = {}
    BY <1>5 DEF PB!Lose, PB!Built, PB!world, PB!lists
  <2> QED BY <2>1 DEF PB!Tracked, PB!Listed, PB!ReadLately, PB!EventsOnce
<1>6. CASE PB!EndTask \/ PB!CommandChanges \/ PB!CheckAvailable \/ PB!NoCommand
  BY <1>6, PBSUnchanged
  DEF PB!EndTask, PB!CommandChanges, PB!CheckAvailable, PB!NoCommand, PB!world, PB!lists
<1> QED BY <1>1, <1>2, <1>3, <1>4, <1>5, <1>6 DEF PB!Next
-----------------------------------------------------------------------------
(* The events of a cluster (ProxmoxHealth) *)

(* What a list emits is numbered by its tasks. *)
LEMMA EmittedNumbers ==
  ASSUME NEW tasks, NEW e \in PH!Emitted(tasks) PROVE e[2] \in tasks
BY DEF PH!Emitted

LEMMA HealthTypes == ASSUME PH!Inductive, PH!Next PROVE PH!TypeOK'
<1> USE DEF PH!Inductive, PH!TypeOK
<1> USE ClusterAssumption
<1>1. CASE PH!TaskFails
  <2>1. started' = started + 1 /\ started' \in 0 .. ClusterTasks /\ sent' \subseteq sent
    BY <1>1 DEF PH!TaskFails, PH!Leave
  <2>2. shown \cup {started + 1} \subseteq 1 .. started'
    BY <2>1
  <2>3. shown' \subseteq 1 .. started'
    BY <1>1, <2>2 DEF PH!TaskFails, PH!Newest
  <2>4. tasksRead = PH!Unread \/ tasksRead \subseteq 1 .. started'
    BY <2>1
  <2>5. (seen \cup batch \cup sent') \subseteq PH!Kinds \X (1 .. ClusterTasks)
    BY <2>1, Zenon
  <2> QED BY <1>1, <2>1, <2>3, <2>4, <2>5 DEF PH!TaskFails, PH!Unread
<1>2. CASE PH!GetClusterTasks
  BY <1>2 DEF PH!GetClusterTasks, PH!world
<1>3. CASE PH!MarkSeen
  <2>1. PICK events :
          /\ events = (IF tasksRead = PH!Unread THEN {} ELSE PH!Taken(PH!Emitted(tasksRead)))
          /\ batch' = events
          /\ seen' = PH!Kept(seen \cup {e \in events : e[2] \notin Nameless}, tasksRead)
    BY <1>3 DEF PH!MarkSeen
  <2>2. events \subseteq PH!Kinds \X (1 .. ClusterTasks)
    BY <2>1 DEF PH!Taken, PH!New, PH!Emitted, PH!Kinds
  <2> QED BY <1>3, <2>1, <2>2 DEF PH!MarkSeen, PH!Kept, PH!world
<1>4. CASE PH!CollectCeph
  BY <1>4 DEF PH!CollectCeph, PH!FailureResource, PH!world
<1>5. CASE PH!ClusterChanges \/ PH!CephChanges \/ PH!Elected \/ PH!NotElected
  BY <1>5 DEF PH!ClusterChanges, PH!CephChanges, PH!Elected, PH!NotElected, PH!vars, PH!world
<1>6. CASE PH!Queue \/ PH!Lose
  BY <1>6 DEF PH!Queue, PH!Lose, PH!world
<1>7. CASE PH!ListChanges
  BY <1>7 DEF PH!ListChanges, PH!Newest, PH!Leave
<1> QED BY <1>1, <1>2, <1>3, <1>4, <1>5, <1>6, <1>7 DEF PH!Next

(* What the last query of Ceph found goes to the resource that shows it. *)
LEMMA HealthCeph == ASSUME PH!Inductive, PH!Next PROVE PH!CephCurrent'
<1> USE DEF PH!Inductive
<1>1. CASE PH!CollectCeph
  BY <1>1 DEF PH!CollectCeph, PH!CephCurrent, PH!FailureResource, PH!TypeOK
<1>2. CASE UNCHANGED <<cephID, sentCeph, cephSeen>>
  BY <1>2 DEF PH!CephCurrent
<1> QED
  BY <1>1, <1>2 DEF PH!Next, PH!TaskFails, PH!ListChanges, PH!ClusterChanges, PH!CephChanges,
    PH!Elected, PH!NotElected, PH!GetClusterTasks, PH!MarkSeen, PH!Queue, PH!Lose, PH!vars, PH!world

LEMMA HealthInit == ASSUME PH!Init PROVE PH!Inductive
BY ClusterAssumption
DEF PH!TypeOK, PH!CephCurrent, PH!Kinds, PH!Init, PH!Inductive, PH!Tracked, PH!ReadLately,
  PH!EventsOnce, PH!Unread

LEMMA HealthStep ==
  ASSUME PH!Inductive, PH!Next PROVE PH!Inductive'
<1> USE DEF PH!Inductive
<1>b. PH!TypeOK' /\ PH!CephCurrent'
  BY HealthTypes, HealthCeph
<1> USE <1>b
<1>1. CASE PH!TaskFails \/ PH!ListChanges
  <2>1. PH!Leave /\ UNCHANGED <<pc, tasksRead, seen, batch>>
    BY <1>1 DEF PH!TaskFails, PH!ListChanges
  <2>2. \A e \in sent' : e \in sent /\ PH!Listed(e)'
    BY <2>1 DEF PH!Leave
  <2> QED BY <2>1, <2>2 DEF PH!Tracked, PH!ReadLately, PH!EventsOnce
<1>2. CASE PH!GetClusterTasks
  <2>1. /\ UNCHANGED <<shown, seen, batch, sent>> /\ pc' = "ceph" /\ batch = {}
        /\ tasksRead' = shown \/ tasksRead' = PH!Unread
    BY <1>2 DEF PH!GetClusterTasks, PH!world
  <2> QED BY <2>1 DEF PH!Tracked, PH!Listed, PH!ReadLately, PH!EventsOnce
<1>3. CASE PH!MarkSeen
  <2>1. PICK events :
          /\ events = (IF tasksRead = PH!Unread THEN {} ELSE PH!Taken(PH!Emitted(tasksRead)))
          /\ batch' = events
          /\ seen' = PH!Kept(seen \cup {e \in events : e[2] \notin Nameless}, tasksRead)
    BY <1>3 DEF PH!MarkSeen
  <2>2. UNCHANGED <<shown, sent>> /\ tasksRead' = PH!Unread /\ pc' = "built"
    BY <1>3 DEF PH!MarkSeen, PH!world
  <2>3. \A e \in events : tasksRead # PH!Unread /\ e \notin seen /\ e[2] \in tasksRead
    BY <2>1, EmittedNumbers DEF PH!Taken, PH!New
  <2>4. \A e : e \in seen' <=>
          /\ e \in seen \/ (e \in events /\ e[2] \notin Nameless)
          /\ tasksRead # PH!Unread => e[2] \in tasksRead
    BY <2>1 DEF PH!Kept
  <2>5. \A e \in batch' : e[2] \in Nameless \/ (e \in seen' /\ e \notin sent)
    BY <2>1, <2>3, <2>4 DEF PH!Tracked
  <2>6. PH!Tracked'
    BY <2>2, <2>4 DEF PH!Tracked, PH!Listed, PH!ReadLately
  <2> QED BY <2>2, <2>5, <2>6 DEF PH!ReadLately, PH!EventsOnce
<1>4. CASE PH!Queue
  <2>1. /\ UNCHANGED <<shown, tasksRead, seen>> /\ tasksRead = PH!Unread
        /\ pc' = "idle" /\ batch' = {} /\ sent' = {e \in sent \cup batch : PH!Listed(e)}
    BY <1>4 DEF PH!Queue, PH!world
  <2> QED BY <2>1 DEF PH!Tracked, PH!Listed, PH!ReadLately, PH!EventsOnce
<1>5. CASE PH!Lose
  <2>1. UNCHANGED <<shown, tasksRead, seen, sent>> /\ pc' = "idle" /\ batch' = {}
    BY <1>5 DEF PH!Lose, PH!world
  <2> QED BY <2>1 DEF PH!Tracked, PH!Listed, PH!ReadLately, PH!EventsOnce
<1>6. CASE PH!ClusterChanges \/ PH!CephChanges \/ PH!Elected \/ PH!NotElected \/ PH!CollectCeph
  <2>1. /\ UNCHANGED <<shown, tasksRead, seen, batch, sent>>
        /\ pc' = "built" <=> pc = "built"
    BY <1>6 DEF PH!ClusterChanges, PH!CephChanges, PH!Elected, PH!NotElected, PH!CollectCeph, PH!vars, PH!world
  <2> QED BY <2>1 DEF PH!Tracked, PH!Listed, PH!ReadLately, PH!EventsOnce
<1> QED BY <1>1, <1>2, <1>3, <1>4, <1>5, <1>6 DEF PH!Next
-----------------------------------------------------------------------------
(* The reporter of a cluster (Proxmox) *)

(* Two quorate nodes are on the same side. *)
LEMMA QuorateTogether ==
  ASSUME side \in PX!Sides, clustered,
         NEW m \in Nodes, NEW n \in Nodes, PX!Quorate(m), PX!Quorate(n)
  PROVE  side[m] = side[n]
<1>1. side \in [Nodes -> SUBSET Nodes]
  BY DEF PX!Sides
<1>2. \A k, l \in Nodes : k \in side[l] => side[k] = side[l]
  BY DEF PX!Sides
<1>3. side[m] \in SUBSET Nodes /\ side[n] \in SUBSET Nodes
  BY <1>1
<1>4. side[m] \cap side[n] # {}
  <2>1. IsFiniteSet(side[m]) /\ IsFiniteSet(side[n])
    BY <1>3, NodesAssumption, FS_Subset
  <2>2. /\ Cardinality(side[m]) \in Nat /\ Cardinality(side[n]) \in Nat
        /\ Cardinality(Nodes) \in Nat
    BY <2>1, NodesAssumption, FS_CardinalityType
  <2>3. /\ 2 * Cardinality(side[m]) > Cardinality(Nodes)
        /\ 2 * Cardinality(side[n]) > Cardinality(Nodes)
    <3>1. \A S : PX!Cardinality(S) = Cardinality(S)
      BY DEF PX!Cardinality, Cardinality
    <3> QED BY <3>1 DEF PX!Quorate
  <2>4. Cardinality(side[m]) + Cardinality(side[n]) > Cardinality(Nodes)
    BY <2>2, <2>3
  <2> QED BY <1>3, <2>4, NodesAssumption, FS_MajoritiesIntersect
<1>5. PICK k \in Nodes : k \in side[m] /\ k \in side[n]
  BY <1>3, <1>4
<1> QED BY <1>2, <1>5

(* So that only one of them is elected. *)
LEMMA ElectedAlone ==
  ASSUME side \in PX!Sides, clustered,
         NEW m \in Nodes, NEW n \in Nodes, PX!Quorate(m), PX!Quorate(n),
         PX!Elected(m) = m, PX!Elected(n) = n
  PROVE  m = n
<1>1. side[m] = side[n]
  BY QuorateTogether
<1>2. PX!Online(m) = PX!Online(n)
  BY <1>1 DEF PX!Online
<1> QED BY <1>2 DEF PX!Elected
LEMMA ProxmoxInit == ASSUME PX!Init PROVE PX!Inductive
BY NodesAssumption DEF PX!Init, PX!Inductive, PX!TypeOK, PX!KnownEpochs, PX!ElectedNow, PX!OneReporter

LEMMA ProxmoxStep ==
  ASSUME PX!Inductive, PX!Next PROVE PX!Inductive'
<1> USE DEF PX!Inductive, PX!TypeOK
<1> USE NodesAssumption
<1>1. CASE PX!Membership
  <2>1. PX!TypeOK' /\ PX!KnownEpochs'
    BY <1>1 DEF PX!Membership, PX!KnownEpochs
  <2>2. \A n \in Nodes : asOf'[n] # epoch'
    BY <1>1 DEF PX!Membership, PX!KnownEpochs
  <2>3. PX!ElectedNow'
    BY <2>2 DEF PX!ElectedNow
  <2>4. PX!OneReporter'
    BY <1>1 DEF PX!Membership, PX!OneReporter
  <2> QED BY <2>1, <2>3, <2>4
<1>2. ASSUME NEW n \in Nodes, PX!ReadStatus(n) PROVE PX!Inductive'
  <2>1. /\ UNCHANGED <<clustered, side, epoch, reporter>>
        /\ available' \in [Nodes -> BOOLEAN] /\ elected' \in [Nodes -> BOOLEAN]
    BY <1>2 DEF PX!ReadStatus
  <2>2. /\ pc' \in [Nodes -> {"idle", "aggregating"}] /\ asOf' \in [Nodes -> 0 .. MaxEpochs]
        /\ \A m \in Nodes \ {n} : pc'[m] = pc[m] /\ asOf'[m] = asOf[m]
        /\ asOf'[n] <= epoch
        /\ pc'[n] = "aggregating" => PX!Quorate(n) /\ PX!Elected(n) = n /\ asOf'[n] = epoch
    BY <1>2 DEF PX!ReadStatus
  <2>3. \A m \in Nodes : (PX!Quorate(m) <=> PX!Quorate(m)') /\ PX!Elected(m) = PX!Elected(m)'
    BY <2>1 DEF PX!Quorate, PX!Elected, PX!Online, PX!Lowest
  <2>4. PX!TypeOK' /\ PX!KnownEpochs'
    BY <2>1, <2>2 DEF PX!KnownEpochs
  <2>5. PX!ElectedNow'
    BY <2>1, <2>2, <2>3 DEF PX!ElectedNow
  <2>6. PX!OneReporter'
    <3> SUFFICES ASSUME clustered', NEW k \in Nodes, NEW l \in Nodes,
                        pc'[k] = "aggregating", pc'[l] = "aggregating", asOf'[k] = asOf'[l]
                 PROVE  k = l
      BY DEF PX!OneReporter
    <3>1. CASE k # n /\ l # n
      BY <2>1, <2>2, <3>1 DEF PX!OneReporter
    <3>2. CASE k = n \/ l = n
      <4>1. asOf'[k] = epoch' /\ asOf'[l] = epoch'
        BY <2>1, <2>2, <3>2
      <4>2. PX!Quorate(k) /\ PX!Elected(k) = k /\ PX!Quorate(l) /\ PX!Elected(l) = l
        BY <2>3, <2>5, <4>1 DEF PX!ElectedNow
      <4> QED BY <2>1, <4>2, ElectedAlone
    <3> QED BY <3>1, <3>2
  <2> QED BY <2>4, <2>5, <2>6
<1>3. ASSUME NEW n \in Nodes, PX!StatusFails(n) PROVE PX!Inductive'
  <2>1. /\ UNCHANGED <<clustered, side, epoch, pc, asOf, elected, reporter>>
        /\ available' \in [Nodes -> BOOLEAN]
    BY <1>3 DEF PX!StatusFails
  <2> QED BY <2>1 DEF PX!KnownEpochs, PX!ElectedNow, PX!OneReporter, PX!Quorate, PX!Elected, PX!Online, PX!Lowest
<1>4. ASSUME NEW n \in Nodes, PX!Report(n) PROVE PX!Inductive'
  <2>1. /\ UNCHANGED <<clustered, side, epoch, available, elected>>
        /\ reporter' \in Nodes
    BY <1>4 DEF PX!Report
  <2>2. /\ pc' \in [Nodes -> {"idle", "aggregating"}] /\ asOf' \in [Nodes -> 0 .. MaxEpochs]
        /\ \A m \in Nodes \ {n} : pc'[m] = pc[m] /\ asOf'[m] = asOf[m]
        /\ pc'[n] = "idle" /\ asOf'[n] = 0
    BY <1>4 DEF PX!Report
  <2>3. \A m \in Nodes : (PX!Quorate(m) <=> PX!Quorate(m)') /\ PX!Elected(m) = PX!Elected(m)'
    BY <2>1 DEF PX!Quorate, PX!Elected, PX!Online, PX!Lowest
  <2>4. PX!TypeOK' /\ PX!KnownEpochs'
    BY <2>1, <2>2 DEF PX!KnownEpochs
  <2>5. PX!ElectedNow'
    BY <2>1, <2>2, <2>3 DEF PX!ElectedNow
  <2>6. PX!OneReporter'
    BY <2>1, <2>2 DEF PX!OneReporter
  <2> QED BY <2>4, <2>5, <2>6
<1> QED BY <1>1, <1>2, <1>3, <1>4 DEF PX!Next
-----------------------------------------------------------------------------
(* The pool of workers (Docker) *)

(* A finite set of numbers can be put in order. *)
LEMMA SortedExists ==
  ASSUME NEW S, IsFiniteSet(S)
  PROVE  S \subseteq Nat =>
           \E s \in [1 .. Cardinality(S) -> S] :
             \A i, j \in 1 .. Cardinality(S) : i < j => s[i] < s[j]
<1> DEFINE Good(T) == T \subseteq Nat =>
                        \E s \in [1 .. Cardinality(T) -> T] :
                          \A i, j \in 1 .. Cardinality(T) : i < j => s[i] < s[j]
           Bad == {T \in SUBSET S : ~Good(T)}
<1>1. SUFFICES ASSUME Bad # {} PROVE FALSE
  OBVIOUS
<1>2. PICK T \in Bad : \A U \in Bad : U \subseteq T => U = T
  <2>1. Bad \in SUBSET (SUBSET S)
    OBVIOUS
  <2> HIDE DEF Bad
  <2> QED BY <1>1, <2>1, SmallestSubset
<1>3. T \in SUBSET S /\ T \subseteq Nat /\ IsFiniteSet(T)
  BY <1>2, FS_Subset
<1>4. T # {}
  <2>1. ASSUME T = {} PROVE Good(T)
    <3>1. Cardinality(T) = 0
      BY <2>1, FS_EmptySet
    <3>2. [i \in 1 .. 0 |-> 0] \in [1 .. 0 -> {}]
      OBVIOUS
    <3> QED BY <2>1, <3>1, <3>2
  <2> QED BY <1>2, <2>1
<1>5. PICK m \in T : \A y \in T : m <= y
  BY <1>3, <1>4, LeastNat
<1> DEFINE U == T \ {m}
           n == Cardinality(T)
<1>6. n \in Nat /\ Cardinality(U) = n - 1 /\ n - 1 \in Nat
  <2>1. IsFiniteSet(U) /\ Cardinality(U) = n - 1
    BY <1>3, <1>5, FS_RemoveElement
  <2> QED BY <1>3, <2>1, FS_CardinalityType
<1>7. Good(U)
  <2> HIDE DEF Good
  <2>1. U \in SUBSET S /\ U \subseteq T /\ U # T
    BY <1>3, <1>5
  <2> QED BY <1>2, <2>1
<1>8. PICK s \in [1 .. n - 1 -> U] : \A i, j \in 1 .. n - 1 : i < j => s[i] < s[j]
  BY <1>3, <1>6, <1>7
<1> DEFINE t == [i \in 1 .. n |-> IF i = 1 THEN m ELSE s[i - 1]]
<1>9. t \in [1 .. n -> T]
  BY <1>5, <1>6, <1>8
<1>10. ASSUME NEW i \in 1 .. n, NEW j \in 1 .. n, i < j PROVE t[i] < t[j]
  <2>1. j - 1 \in 1 .. n - 1 /\ t[j] = s[j - 1] /\ s[j - 1] \in U
    BY <1>6, <1>8, <1>10
  <2>2. CASE i = 1
    <3>1. m <= s[j - 1] /\ m # s[j - 1] /\ m \in Nat /\ s[j - 1] \in Nat
      BY <1>3, <1>5, <2>1
    <3>2. t[i] = m
      BY <2>2
    <3> HIDE DEF t
    <3>3. m < s[j - 1]
      BY <3>1
    <3> QED BY <2>1, <3>2, <3>3
  <2>3. CASE i # 1
    <3>1. i - 1 \in 1 .. n - 1 /\ t[i] = s[i - 1] /\ i - 1 < j - 1
      BY <1>6, <1>10, <2>3
    <3> QED BY <1>8, <2>1, <3>1
  <2> QED BY <2>2, <2>3
<1> HIDE DEF t
<1> QED BY <1>2, <1>9, <1>10

LEMMA CardinalityIs == \A S : DK!Cardinality(S) = Cardinality(S)
BY DEF DK!Cardinality, Cardinality

(* So that the list of jobs has each of them once. *)
LEMMA InOrderLists ==
  ASSUME NEW S, S \subseteq Nat, IsFiniteSet(S)
  PROVE  /\ DK!InOrder(S) \in Seq(S) /\ Len(DK!InOrder(S)) = Cardinality(S)
         /\ \A i, j \in DOMAIN DK!InOrder(S) : DK!InOrder(S)[i] = DK!InOrder(S)[j] => i = j
         /\ DK!ToSet(DK!InOrder(S)) = S
<1> DEFINE n == Cardinality(S)
           s == DK!InOrder(S)
<1>1. n \in Nat
  BY FS_CardinalityType
<1>2. s \in [1 .. n -> S] /\ \A i, j \in 1 .. n : i < j => s[i] < s[j]
  <2>1. s = CHOOSE t \in [1 .. n -> S] : \A i, j \in 1 .. n : i < j => t[i] < t[j]
    BY CardinalityIs DEF DK!InOrder
  <2> HIDE DEF s
  <2> QED BY <2>1, SortedExists
<1> HIDE DEF s
<1>3. s \in Seq(S) /\ Len(s) = n /\ DOMAIN s = 1 .. n
  BY <1>1, <1>2
<1>4. \A i, j \in 1 .. n : s[i] = s[j] => i = j
  <2> SUFFICES ASSUME NEW i \in 1 .. n, NEW j \in 1 .. n, i # j PROVE s[i] # s[j]
    OBVIOUS
  <2>1. s[i] \in Nat /\ s[j] \in Nat
    BY <1>2
  <2> QED BY <1>2, <2>1
<1>5. s \in Surjection(1 .. n, S)
  <2>1. s \in Injection(1 .. n, S)
    BY <1>2, <1>4 DEF Injection, IsInjective
  <2>2. Cardinality(1 .. n) = n
    BY <1>1, FS_Interval
  <2> QED BY <2>1, <2>2, FS_Injection
<1>6. DK!ToSet(s) = S
  BY <1>2, <1>3, <1>5 DEF DK!ToSet, Surjection, Range
<1> QED BY <1>3, <1>4, <1>6 DEF s

LEMMA JobsAreNumbers ==
  /\ DK!Job \subseteq Nat /\ IsFiniteSet(DK!Job) /\ Cardinality(DK!Job) \in Nat
  /\ DK!Absent \notin DK!Job /\ DK!Idle \notin DK!Job /\ DK!Gone \notin DK!Job
  /\ DK!Unlisted \notin Seq(DK!Job)
<1>1. DK!Job \subseteq Nat
  BY DockerAssumption DEF DK!Job
<1>2. IsFiniteSet(DK!Job)
  BY DockerAssumption, FS_Union DEF DK!Job
<1>3. DK!Absent \notin Nat /\ DK!Idle \notin Nat /\ DK!Gone \notin Nat
  BY DEF DK!Absent, DK!Idle, DK!Gone
<1>4. DK!Unlisted[1] = -1 /\ Len(DK!Unlisted) = 1
  BY DEF DK!Unlisted
<1>5. DK!Unlisted \notin Seq(DK!Job)
  <2>1. -1 \notin DK!Job
    BY <1>1
  <2>2. \A s \in Seq(DK!Job) : Len(s) = 1 => s[1] \in DK!Job
    OBVIOUS
  <2> QED BY <1>4, <2>1, <2>2
<1> QED BY <1>1, <1>2, <1>3, <1>5, FS_CardinalityType

LEMMA WantedLists ==
  ASSUME DK!TypeOK, fleet \in Fleets
  PROVE  /\ DK!Wanted \in Seq(DK!Job) /\ Len(DK!Wanted) <= Cardinality(DK!Job)
         /\ \A i, j \in DOMAIN DK!Wanted : DK!Wanted[i] = DK!Wanted[j] => i = j
         /\ phase = "images" => DK!ToSet(DK!Wanted) = DK!UniqueImages
<1>1. PICK S : /\ S \subseteq DK!Job /\ DK!Wanted = DK!InOrder(S)
               /\ phase = "images" => S = DK!UniqueImages
  <2>1. CASE phase = "containers"
    BY <2>1 DEF DK!Wanted, DK!Job
  <2>2. CASE phase = "stats"
    <3>1. {c \in Containers : fleet[c].running} \subseteq DK!Job
      BY DEF DK!Job
    <3>2. DK!Wanted = DK!InOrder({c \in Containers : fleet[c].running})
      BY <2>2 DEF DK!Wanted
    <3> QED BY <2>2, <3>1, <3>2
  <2>3. CASE phase = "images"
    <3>1. DK!UniqueImages \subseteq DK!Job
      BY DEF DK!Job, DK!UniqueImages
    <3>2. DK!Wanted = DK!InOrder(DK!UniqueImages)
      BY <2>3 DEF DK!Wanted
    <3> QED BY <3>1, <3>2
  <2> QED BY <2>1, <2>2, <2>3 DEF DK!TypeOK
<1>2. IsFiniteSet(S) /\ Cardinality(S) <= Cardinality(DK!Job)
  BY <1>1, JobsAreNumbers, FS_Subset
<1>3. S \subseteq Nat
  BY <1>1, JobsAreNumbers
<1>4. /\ DK!Wanted \in Seq(S) /\ Len(DK!Wanted) = Cardinality(S)
      /\ \A i, j \in DOMAIN DK!Wanted : DK!Wanted[i] = DK!Wanted[j] => i = j
      /\ DK!ToSet(DK!Wanted) = S
  BY <1>1, <1>2, <1>3, InOrderLists
<1>5. DK!Wanted \in Seq(DK!Job)
  BY <1>1, <1>4
<1> QED BY <1>1, <1>2, <1>4, <1>5

LEMMA DockerInit == ASSUME DK!Init PROVE DK!Inductive
<1> USE DEF DK!Init
<1>1. DK!TypeOK
  <2>1. 0 \in 0 .. DK!Cardinality(DK!Job)
    BY JobsAreNumbers, CardinalityIs
  <2> QED BY <2>1 DEF DK!TypeOK
<1>2. /\ fleet \in Fleets /\ worker \in [Workers -> {DK!Absent, DK!Idle, DK!Gone} \cup DK!Job]
      /\ results \in Seq([job : DK!Job, ok : BOOLEAN])
  OBVIOUS
<1> QED BY <1>1, <1>2 DEF DK!Inductive, DK!Fresh, DK!Listed, DK!NoneTwice, DK!Ends

(* Steps after the list that leave the jobs alone. *)
LEMMA DockerListed ==
  ASSUME DK!Listed, UNCHANGED <<phase, fleet, jobs>>, next' <= Len(jobs)
  PROVE  DK!Listed'
BY DEF DK!Listed, DK!ToSet, DK!UniqueImages, DK!References, DK!First, DK!Users, DK!Before

(* What a worker does is all that happens to the workers. *)
OneWorker(w, value) ==
  /\ worker' \in [Workers -> {DK!Absent, DK!Idle, DK!Gone} \cup DK!Job]
  /\ \A v \in Workers : worker'[v] = IF v = w THEN value ELSE worker[v]

LEMMA DockerDispatch ==
  ASSUME DK!Inductive, NEW w \in Workers, DK!Dispatch(w) PROVE DK!Inductive'
<1> USE DEF DK!Inductive, DK!Dispatch, DK!Dispatching
<1>1. jobs \in Seq(DK!Job) /\ next \in Nat /\ next < Len(jobs) /\ Len(jobs) \in Nat
      /\ Len(jobs) <= Cardinality(DK!Job)
  <2>1. next \in Nat
    BY JobsAreNumbers, CardinalityIs DEF DK!TypeOK
  <2> QED BY <2>1, CardinalityIs DEF DK!Listed
<1> DEFINE j == jobs[next + 1]
<1>2. j \in DK!Job /\ next + 1 \in 1 .. Len(jobs)
  BY <1>1
<1>3. OneWorker(w, j)
  BY <1>2 DEF OneWorker
<1>4. next' = next + 1 /\ UNCHANGED <<phase, fleet, ctx, jobs, closed, busy, results, outcome>>
  OBVIOUS
<1>5. DK!TypeOK'
  <2>1. next' \in 0 .. DK!Cardinality(DK!Job)
    BY <1>1, <1>4, JobsAreNumbers, CardinalityIs
  <2>2. busy' \subseteq {v \in Workers : worker'[v] \in DK!Job}
    BY <1>2, <1>3, <1>4 DEF OneWorker, DK!TypeOK
  <2> QED BY <1>3, <1>4, <2>1, <2>2 DEF DK!TypeOK, OneWorker, DK!ToSet
<1>6. DK!Listed'
  BY <1>1, <1>4, DockerListed
<1>7. j \notin DK!Out /\ DK!Out' = DK!Out \cup {j}
  <2>1. \A i \in 1 .. next : i \in DOMAIN jobs /\ next + 1 \in DOMAIN jobs
    BY <1>1, <1>2
  <2>2. 1 .. next' = (1 .. next) \cup {next + 1}
    BY <1>1, <1>4
  <2>3. \A i \in 1 .. next : jobs[i] # j
    BY <1>1, <2>1 DEF DK!Listed
  <2> QED BY <1>4, <2>2, <2>3 DEF DK!Out
<1>8. DK!Held' = DK!Held \cup {j} /\ DK!Done' = DK!Done
  <2>1. worker[w] \notin DK!Job
    BY JobsAreNumbers
  <2>2. \A x : x \in DK!Held' <=> x \in DK!Job /\ \E v \in Workers : worker'[v] = x
    BY DEF DK!Held
  <2>3. \A x : x \in DK!Held <=> x \in DK!Job /\ \E v \in Workers : worker[v] = x
    BY DEF DK!Held
  <2> QED BY <1>2, <1>3, <1>4, <2>1, <2>2, <2>3 DEF OneWorker, DK!Done
<1>9. DK!NoneTwice'
  <2>1. \A v \in Workers \ {w} : worker[v] # j
    BY <1>1, <1>2, <1>7 DEF DK!NoneTwice, DK!Held
  <2>2. \A u, v \in Workers : worker'[u] = worker'[v] /\ worker'[u] \in DK!Job => u = v
    BY <1>1, <1>3, <2>1 DEF DK!NoneTwice, OneWorker
  <2> QED BY <1>1, <1>4, <1>7, <1>8, <2>2 DEF DK!NoneTwice
<1>10. DK!Ends'
  BY <1>4 DEF DK!Ends
<1>11. DK!Fresh'
  BY <1>4 DEF DK!Fresh
<1> QED BY <1>3, <1>4, <1>5, <1>6, <1>9, <1>10, <1>11 DEF OneWorker

(* A worker that begins its job, leaves or drops it. *)
LEMMA DockerWork ==
  ASSUME DK!Inductive, NEW w \in Workers, DK!Work(w) \/ DK!Leave(w) PROVE DK!Inductive'
<1> USE DEF DK!Inductive
<1>1. UNCHANGED <<phase, fleet, ctx, jobs, next, closed, results, outcome>>
  BY DEF DK!Work, DK!Leave
<1>2. CASE UNCHANGED worker /\ busy' = busy \cup {w} /\ worker[w] \in DK!Job
  <2>1. DK!TypeOK'
    BY <1>1, <1>2 DEF DK!TypeOK, DK!ToSet
  <2>2. DK!Listed'
    BY <1>1, DockerListed DEF DK!Listed
  <2>3. DK!Fresh'
    BY <1>1, <1>2, JobsAreNumbers DEF DK!Fresh
  <2>4. UNCHANGED <<DK!Out, DK!Held, DK!Done>>
    BY <1>1, <1>2 DEF DK!Out, DK!Held, DK!Done
  <2>5. DK!NoneTwice'
    BY <1>1, <1>2, <2>4 DEF DK!NoneTwice
  <2>6. DK!Ends'
    BY <1>1, <1>2 DEF DK!Ends
  <2> QED BY <1>1, <1>2, <2>1, <2>2, <2>3, <2>5, <2>6
<1>3. CASE /\ worker' = [worker EXCEPT ![w] = DK!Gone] /\ UNCHANGED busy
           /\ worker[w] = DK!Idle \/ (worker[w] \in DK!Job /\ ~ctx /\ w \notin busy)
  <2>1. OneWorker(w, DK!Gone)
    BY <1>3 DEF OneWorker
  <2>2. w \notin busy
    BY <1>3, JobsAreNumbers DEF DK!TypeOK
  <2>3. DK!TypeOK'
    BY <1>1, <1>3, <2>1, <2>2 DEF DK!TypeOK, OneWorker, DK!ToSet
  <2>4. DK!Listed'
    BY <1>1, DockerListed DEF DK!Listed
  <2>5. DK!Fresh'
    <3>1. jobs # DK!Unlisted
      BY <1>3, JobsAreNumbers DEF DK!Fresh, DK!Absent, DK!Idle
    <3> QED BY <1>1, <3>1 DEF DK!Fresh
  <2>6. DK!Held' \subseteq DK!Held /\ (worker[w] = DK!Idle => DK!Held' = DK!Held)
    <3>1. \A x : x \in DK!Held' <=> x \in DK!Job /\ \E v \in Workers : worker'[v] = x
      BY DEF DK!Held
    <3>2. \A x : x \in DK!Held <=> x \in DK!Job /\ \E v \in Workers : worker[v] = x
      BY DEF DK!Held
    <3>3. \A v \in Workers : worker'[v] \in DK!Job => worker[v] = worker'[v]
      BY <2>1, JobsAreNumbers DEF OneWorker
    <3>4. \A v \in Workers : worker[w] = DK!Idle /\ worker[v] \in DK!Job => worker'[v] = worker[v]
      BY <2>1, JobsAreNumbers DEF OneWorker
    <3> HIDE DEF DK!Inductive
    <3>5. \A x \in DK!Held' : x \in DK!Held
      BY <3>1, <3>2, <3>3
    <3>6. worker[w] = DK!Idle => \A x \in DK!Held : x \in DK!Held'
      BY <3>1, <3>2, <3>4
    <3> QED BY <3>5, <3>6
  <2>7. \A u, v \in Workers : worker'[u] = worker'[v] /\ worker'[u] \in DK!Job =>
                              worker[u] = worker[v] /\ worker[u] \in DK!Job
    BY <2>1, JobsAreNumbers DEF OneWorker
  <2>8. DK!NoneTwice'
    <3>1. UNCHANGED <<DK!Out, DK!Done>>
      BY <1>1 DEF DK!Out, DK!Done
    <3>2. ctx => DK!Held' = DK!Held
      BY <1>3, <2>6
    <3>3. DK!NoneTwice
      OBVIOUS
    <3> HIDE DEF DK!Inductive
    <3> QED BY <1>1, <2>6, <2>7, <3>1, <3>2, <3>3 DEF DK!NoneTwice
  <2>9. DK!Ends'
    BY <1>1, <2>1 DEF DK!Ends, OneWorker
  <2> QED BY <1>1, <2>1, <2>3, <2>4, <2>5, <2>8, <2>9 DEF OneWorker
<1> QED BY <1>2, <1>3 DEF DK!Work, DK!Leave

LEMMA DockerResult ==
  ASSUME DK!Inductive, NEW w \in Workers, NEW ok \in BOOLEAN, DK!Result(w, ok)
  PROVE  DK!Inductive'
<1> USE DEF DK!Inductive
<1> DEFINE j == worker[w]
           r == [job |-> j, ok |-> ok]
<1>1. /\ UNCHANGED <<phase, fleet, ctx, jobs, next, closed, outcome>>
      /\ w \in busy /\ j \in DK!Job /\ busy' = busy \ {w} /\ results' = Append(results, r)
  BY DEF DK!Result, DK!TypeOK
<1>2. OneWorker(w, DK!Idle)
  BY DEF DK!Result, OneWorker
<1>3. jobs # DK!Unlisted /\ j \in DK!Held /\ j \notin DK!Done
  BY <1>1 DEF DK!Fresh, DK!Held, DK!NoneTwice
<1>4. DK!TypeOK'
  BY <1>1, <1>2 DEF DK!TypeOK, OneWorker, DK!ToSet
<1>5. DK!Listed'
  BY <1>1, <1>3, DockerListed DEF DK!Listed
<1>6. DK!Fresh'
  BY <1>1, <1>3 DEF DK!Fresh
<1>7. /\ results' \in Seq([job : DK!Job, ok : BOOLEAN]) /\ Len(results') = Len(results) + 1
      /\ Len(results) \in Nat
      /\ \A i \in 1 .. Len(results) : results'[i] = results[i]
      /\ results'[Len(results) + 1] = r
  BY <1>1
<1>8. DK!Done' = DK!Done \cup {j}
  <2>1. DOMAIN results' = DOMAIN results \cup {Len(results) + 1} /\ DOMAIN results = 1 .. Len(results)
    BY <1>7
  <2> QED BY <1>7, <2>1 DEF DK!Done
<1>9. DK!Held' = DK!Held \ {j}
  <2>1. \A x : x \in DK!Held' <=> x \in DK!Job /\ \E v \in Workers : worker'[v] = x
    BY DEF DK!Held
  <2>2. \A x : x \in DK!Held <=> x \in DK!Job /\ \E v \in Workers : worker[v] = x
    BY DEF DK!Held
  <2>3. \A v \in Workers : worker[v] = j => v = w
    BY <1>1, <1>3 DEF DK!NoneTwice
  <2> QED BY <1>1, <1>2, <2>1, <2>2, <2>3, JobsAreNumbers DEF OneWorker
<1>10. DK!NoneTwice'
  <2>1. \A u, v \in Workers : worker'[u] = worker'[v] /\ worker'[u] \in DK!Job => u = v
    BY <1>2, <1>3, JobsAreNumbers DEF DK!NoneTwice, OneWorker
  <2>2. \A i, k \in DOMAIN results' : results'[i].job = results'[k].job => i = k
    <3> SUFFICES ASSUME NEW i \in DOMAIN results', NEW k \in DOMAIN results',
                        results'[i].job = results'[k].job, i < k
                 PROVE  FALSE
      BY <1>7
    <3>1. i \in 1 .. Len(results) /\ results'[i] = results[i] /\ results[i].job \in DK!Done
      BY <1>7 DEF DK!Done
    <3>2. CASE k = Len(results) + 1
      BY <1>3, <1>7, <3>1, <3>2
    <3>3. CASE k # Len(results) + 1
      <4>1. k \in 1 .. Len(results) /\ results'[k] = results[k]
        BY <1>7, <3>3
      <4>2. i \in DOMAIN results /\ k \in DOMAIN results
        BY <1>7, <3>1, <4>1
      <4>3. i = k
        BY <1>3, <3>1, <4>1, <4>2 DEF DK!NoneTwice
      <4> QED BY <1>7, <4>3
    <3> QED BY <3>2, <3>3
  <2>3. DK!Out' = DK!Out
    BY <1>1 DEF DK!Out
  <2>4. /\ DK!Held \cup DK!Done \subseteq DK!Out /\ DK!Held \cap DK!Done = {}
        /\ ctx => DK!Out \subseteq DK!Held \cup DK!Done
    BY <1>3 DEF DK!NoneTwice
  <2> HIDE DEF DK!Inductive, j, r
  <2>5. /\ DK!Held' \cup DK!Done' \subseteq DK!Out' /\ DK!Held' \cap DK!Done' = {}
        /\ ctx' => DK!Out' \subseteq DK!Held' \cup DK!Done'
    BY <1>1, <1>3, <1>8, <1>9, <2>3, <2>4
  <2> QED BY <2>1, <2>2, <2>5 DEF DK!NoneTwice
<1>11. DK!Ends'
  <2>1. outcome = "none"
    BY <1>1, <1>3, JobsAreNumbers DEF DK!Ends
  <2> QED BY <1>1, <2>1 DEF DK!Ends
<1> QED BY <1>1, <1>2, <1>4, <1>5, <1>6, <1>7, <1>10, <1>11 DEF OneWorker

LEMMA DockerStep == ASSUME DK!Inductive, DK!Next PROVE DK!Inductive'
<1> USE DEF DK!Inductive
<1>1. CASE DK!List
  <2>1. /\ jobs = DK!Unlisted /\ jobs' = DK!Wanted /\ jobs' \in Seq(DK!Job)
        /\ outcome = "none" /\ ctx
        /\ UNCHANGED <<phase, fleet, ctx, next, closed, busy, results, outcome>>
    BY <1>1, WantedLists DEF DK!List
  <2>2. next = 0 /\ ~closed /\ busy = {} /\ results = <<>>
    BY <2>1 DEF DK!Fresh
  <2>3. worker' \in [Workers -> {DK!Absent, DK!Idle}]
    BY <1>1 DEF DK!List
  <2>4. jobs' # DK!Unlisted
    BY <2>1, JobsAreNumbers
  <2>5. DK!Listed'
    <3>1. /\ Len(DK!Wanted) \in Nat /\ Len(DK!Wanted) <= Cardinality(DK!Job)
          /\ \A i, j \in DOMAIN DK!Wanted : DK!Wanted[i] = DK!Wanted[j] => i = j
          /\ phase = "images" => DK!ToSet(DK!Wanted) = DK!UniqueImages
      BY <2>1, WantedLists
    <3>2. DK!UniqueImages' = DK!UniqueImages
      BY <2>1 DEF DK!UniqueImages, DK!References, DK!First, DK!Users, DK!Before
    <3>3. DK!ToSet(jobs)' = DK!ToSet(DK!Wanted)
      BY <2>1 DEF DK!ToSet
    <3>4. next' <= Len(jobs') /\ Len(jobs') <= DK!Cardinality(DK!Job)
      BY <2>1, <2>2, <3>1, CardinalityIs
    <3>5. \A i, j \in DOMAIN jobs' : jobs'[i] = jobs'[j] => i = j
      BY <2>1, <3>1
    <3> QED BY <2>1, <3>1, <3>2, <3>3, <3>4, <3>5 DEF DK!Listed
  <2>6. DK!NoneTwice'
    <3>1. DK!Held' = {}
      BY <2>3, JobsAreNumbers DEF DK!Held
    <3>2. DK!Out' = {} /\ DK!Done' = {}
      BY <2>1, <2>2 DEF DK!Out, DK!Done
    <3>3. \A v \in Workers : worker'[v] \notin DK!Job
      BY <2>3, JobsAreNumbers
    <3> QED BY <2>1, <2>2, <3>1, <3>2, <3>3 DEF DK!NoneTwice
  <2>7. DK!TypeOK'
    BY <2>1, <2>2, <2>3 DEF DK!TypeOK, DK!ToSet
  <2> QED BY <2>1, <2>2, <2>3, <2>4, <2>5, <2>6, <2>7 DEF DK!Fresh, DK!Ends
<1>2. CASE DK!Expire \/ DK!ListFails \/ DK!Close \/ DK!Return
  <2>1. /\ UNCHANGED <<phase, fleet, jobs, next, worker, busy, results>>
        /\ ctx' \in BOOLEAN /\ closed' \in BOOLEAN /\ outcome' \in {"none", "ok", "error"}
        /\ ctx' => ctx
    <3>1. CASE DK!Expire
      BY <3>1 DEF DK!Expire, DK!pool, DK!TypeOK
    <3>2. CASE DK!ListFails
      BY <3>2 DEF DK!ListFails, DK!pool, DK!TypeOK
    <3>3. CASE DK!Close
      BY <3>3 DEF DK!Close, DK!TypeOK
    <3>4. CASE DK!Return
      BY <3>4 DEF DK!Return, DK!pool, DK!TypeOK
    <3> QED BY <1>2, <3>1, <3>2, <3>3, <3>4
  <2>2. DK!TypeOK'
    BY <2>1 DEF DK!TypeOK, DK!ToSet
  <2>3. DK!Listed'
    BY <2>1, DockerListed DEF DK!Listed
  <2>4. DK!NoneTwice'
    <3>1. UNCHANGED <<DK!Out, DK!Held, DK!Done>>
      BY <2>1 DEF DK!Out, DK!Held, DK!Done
    <3>2. DK!NoneTwice
      OBVIOUS
    <3> HIDE DEF DK!Inductive
    <3> QED BY <2>1, <3>1, <3>2 DEF DK!NoneTwice
  <2>5. DK!Fresh'
    BY <1>2, <2>1 DEF DK!Fresh, DK!Expire, DK!ListFails, DK!Close, DK!Return, DK!pool, DK!Dispatching
  <2>6. DK!Ends'
    BY <1>2, <2>1 DEF DK!Ends, DK!Expire, DK!ListFails, DK!Close, DK!Return, DK!pool,
      DK!Dispatching, DK!MayClose, DK!Failed
  <2> QED BY <2>1, <2>2, <2>3, <2>4, <2>5, <2>6
<1> QED BY <1>1, <1>2, DockerDispatch, DockerWork, DockerResult DEF DK!Next

(* Whoever uses a reference, one of them comes first: a running container  *)
(* if there is one.                                                        *)
LEMMA OneIsFirst ==
  ASSUME fleet \in Fleets, NEW k, DK!Users(k) # {}
  PROVE  \E c \in DK!Users(k) :
           /\ DK!First(k) = {c}
           /\ (\E d \in DK!Users(k) : fleet[d].running) => fleet[c].running
<1>1. fleet \in [Containers -> [image : Images \cup {0}, key : Keys, running : BOOLEAN]]
  BY DockerAssumption
<1>2. \A d \in DK!Users(k) : d \in Containers /\ d \in Nat /\ fleet[d].image \in Nat
  <2>1. Images \cup {0} \subseteq Nat /\ Containers \subseteq Nat
    BY DockerAssumption
  <2>2. \A d \in Containers : fleet[d].image \in Images \cup {0}
    BY <1>1
  <2>3. DK!Users(k) \subseteq Containers
    BY DEF DK!Users
  <2> QED BY <2>1, <2>2, <2>3
<1> DEFINE running == {d \in DK!Users(k) : fleet[d].running}
           best == IF running = {} THEN DK!Users(k) ELSE running
           images == {fleet[d].image : d \in best}
<1>3. PICK i \in images : \A y \in images : i <= y
  <2>1. images \subseteq Nat /\ images # {}
    BY <1>2
  <2> HIDE DEF images
  <2> QED BY <2>1, LeastNat
<1> DEFINE oldest == {d \in best : fleet[d].image = i}
<1>4. PICK c \in oldest : \A y \in oldest : c <= y
  <2>1. oldest \subseteq Nat /\ oldest # {}
    BY <1>2, <1>3
  <2> HIDE DEF oldest
  <2> QED BY <2>1, LeastNat
<1>5. c \in DK!Users(k) /\ (running # {} => fleet[c].running)
  BY <1>4
<1>6. ASSUME NEW d \in DK!Users(k), d # c PROVE DK!Before(c, d) /\ ~DK!Before(d, c)
  <2>1. /\ c \in Nat /\ d \in Nat /\ fleet[c].image \in Nat /\ fleet[d].image \in Nat
        /\ fleet[c].running \in BOOLEAN /\ fleet[d].running \in BOOLEAN
    BY <1>1, <1>2, <1>5
  <2>2. \/ fleet[c].running /\ ~fleet[d].running
        \/ fleet[c].running = fleet[d].running /\ d \in best
    BY <1>5, <2>1
  <2>3. d \in best => fleet[c].image <= fleet[d].image
    BY <1>3, <1>4
  <2>4. d \in best /\ fleet[d].image = fleet[c].image => c < d
    <3>1. d \in best /\ fleet[d].image = fleet[c].image => d \in oldest
      BY <1>4
    <3> HIDE DEF oldest
    <3> QED BY <1>4, <1>6, <2>1, <3>1
  <2> HIDE DEF best
  <2>5. CASE fleet[c].running /\ ~fleet[d].running
    BY <2>5 DEF DK!Before
  <2>6. CASE fleet[c].running = fleet[d].running /\ d \in best
    BY <2>1, <2>3, <2>4, <2>6 DEF DK!Before
  <2> QED BY <2>2, <2>5, <2>6
<1>7. DK!First(k) = {c}
  BY <1>5, <1>6 DEF DK!First
<1> QED BY <1>5, <1>7

LEMMA DockerOneSeries == ASSUME DK!Inductive PROVE DK!OneSeries
<1> SUFFICES ASSUME phase = "images", jobs # DK!Unlisted, NEW k \in Keys
             PROVE  LET images == {i \in DK!ToSet(jobs) : k \in DK!References(i)}
                    IN /\ DK!Cardinality(images) = IF DK!Users(k) = {} THEN 0 ELSE 1
                       /\ (\E c \in DK!Users(k) : fleet[c].running) =>
                            \E c \in DK!Users(k) : fleet[c].running /\ images = {fleet[c].image}
  BY DEF DK!OneSeries
<1> DEFINE images == {i \in DK!ToSet(jobs) : k \in DK!References(i)}
<1>1. DK!ToSet(jobs) = DK!UniqueImages /\ fleet \in Fleets
  BY DEF DK!Inductive, DK!Listed
<1>2. images = {fleet[c].image : c \in DK!First(k)}
  <2>1. fleet \in [Containers -> [image : Images \cup {0}, key : Keys, running : BOOLEAN]]
    BY <1>1, DockerAssumption
  <2>2. \A c \in DK!First(k) : fleet[c].image \in Images
    BY <2>1 DEF DK!First, DK!Users, DK!NoImage
  <2>3. \A i : k \in DK!References(i) <=> \E c \in DK!First(k) : fleet[c].image = i
    BY DEF DK!References
  <2>4. \A i : i \in DK!UniqueImages <=> i \in Images /\ DK!References(i) # {}
    BY DEF DK!UniqueImages
  <2> QED BY <1>1, <2>2, <2>3, <2>4
<1>3. CASE DK!Users(k) = {}
  <2>1. images = {}
    BY <1>2, <1>3 DEF DK!First
  <2> QED BY <1>3, <2>1, FS_EmptySet, CardinalityIs
<1>4. CASE DK!Users(k) # {}
  <2>1. PICK c \in DK!Users(k) :
          /\ DK!First(k) = {c}
          /\ (\E d \in DK!Users(k) : fleet[d].running) => fleet[c].running
    BY <1>1, <1>4, OneIsFirst
  <2>2. images = {fleet[c].image}
    BY <1>2, <2>1
  <2>3. Cardinality(images) = 1
    BY <2>2, FS_Singleton
  <2> QED BY <1>4, <2>1, <2>2, <2>3, CardinalityIs
<1> QED BY <1>3, <1>4

LEMMA DockerComplete == ASSUME DK!Inductive PROVE DK!ResultsComplete
<1> SUFFICES ASSUME outcome # "none", jobs # DK!Unlisted
             PROVE  /\ \A i, j \in DOMAIN results : results[i].job = results[j].job => i = j
                    /\ busy = {}
                    /\ outcome = "ok" => {results[i].job : i \in DOMAIN results} = DK!ToSet(jobs)
  BY DEF DK!ResultsComplete
<1>1. \A i, j \in DOMAIN results : results[i].job = results[j].job => i = j
  BY DEF DK!Inductive, DK!NoneTwice
<1>2. \A w \in Workers : worker[w] \notin DK!Job
  BY JobsAreNumbers DEF DK!Inductive, DK!Ends
<1>3. busy = {} /\ DK!Held = {}
  BY <1>2 DEF DK!Inductive, DK!TypeOK, DK!Held
<1>4. ASSUME outcome = "ok" PROVE DK!Done = DK!ToSet(jobs)
  <2>1. ctx /\ next = Len(jobs) /\ jobs \in Seq(DK!Job)
    BY <1>4 DEF DK!Inductive, DK!Ends, DK!Listed
  <2>2. DK!Out = DK!ToSet(jobs)
    BY <2>1 DEF DK!Out, DK!ToSet
  <2> QED BY <1>3, <2>1, <2>2 DEF DK!Inductive, DK!NoneTwice
<1> QED BY <1>1, <1>3, <1>4 DEF DK!Done
-----------------------------------------------------------------------------
(* The scan of backup groups (PBSGroups) *)

LEMMA SumIs == \A f, S : PG!SumFunctionOnSet(f, S) = SumFunctionOnSet(f, S)
BY DEF PG!SumFunctionOnSet, PG!FoldFunctionOnSet, PG!MapThenFoldSet, SumFunctionOnSet,
       FoldFunctionOnSet, MapThenFoldSet

LEMMA InAll ==
  \A p : p \in PG!All <=> \E s \in PG!ToSet(Stores) : \E n \in PG!ToSet(Namespaces[s]) : p = <<s, n>>
<1> SUFFICES ASSUME NEW p
             PROVE  p \in PG!All <=> \E s \in PG!ToSet(Stores) : \E n \in PG!ToSet(Namespaces[s]) : p = <<s, n>>
  OBVIOUS
<1>1. ASSUME NEW s \in PG!ToSet(Stores), NEW n \in PG!ToSet(Namespaces[s]), p = <<s, n>>
      PROVE  p \in PG!All
  <2>1. p[1] = s /\ p[2] = n
    BY <1>1
  <2>2. p \in PG!Spaces
    BY <1>1 DEF PG!Spaces
  <2> QED BY <2>1, <2>2 DEF PG!All
<1>2. ASSUME p \in PG!All
      PROVE  \E s \in PG!ToSet(Stores) : \E n \in PG!ToSet(Namespaces[s]) : p = <<s, n>>
  <2>1. PICK s \in PG!ToSet(Stores) : \E n : p = <<s, n>>
    BY <1>2 DEF PG!All, PG!Spaces
  <2>3. PICK n : p = <<s, n>>
    BY <2>1
  <2>2. p[1] = s /\ p[2] = n
    BY <2>3
  <2> QED BY <1>2, <2>2, <2>3 DEF PG!All
<1> QED BY <1>1, <1>2

(* The values of a function on a finite set. *)
LEMMA ValuesFinite ==
  ASSUME NEW S, IsFiniteSet(S), NEW f, DOMAIN f = S PROVE IsFiniteSet({f[x] : x \in S})
<1> DEFINE T == {f[x] : x \in S}
           g == [x \in S |-> f[x]]
<1>1. g \in Surjection(S, T)
  BY DEF Surjection
<1> HIDE DEF g, T
<1> QED BY <1>1, FS_Surjection DEF T

LEMMA ListFinite ==
  ASSUME NEW s \in Seq(STRING) PROVE IsFiniteSet(PG!ToSet(s))
<1>1. IsFiniteSet(DOMAIN s)
  BY FS_Interval
<1> QED BY <1>1, ValuesFinite DEF PG!ToSet

LEMMA AllFinite == IsFiniteSet(PG!All)
<1>1. IsFiniteSet(PG!ToSet(Stores))
  BY GroupsAssumption, ListFinite
<1> DEFINE lists == {PG!ToSet(Namespaces[s]) : s \in PG!ToSet(Stores)}
<1>2. IsFiniteSet(lists)
  <2> DEFINE f == [s \in PG!ToSet(Stores) |-> PG!ToSet(Namespaces[s])]
  <2>1. lists = {f[s] : s \in PG!ToSet(Stores)}
    OBVIOUS
  <2>2. DOMAIN f = PG!ToSet(Stores)
    OBVIOUS
  <2> HIDE DEF f, lists
  <2> QED BY <1>1, <2>1, <2>2, ValuesFinite
<1>3. \A T \in lists : IsFiniteSet(T)
  <2>1. \A s \in PG!ToSet(Stores) : Namespaces[s] \in Seq(STRING)
    BY GroupsAssumption DEF PG!ToSet
  <2> QED BY <2>1, ListFinite
<1>4. IsFiniteSet(UNION lists)
  <2> HIDE DEF lists
  <2> QED BY <1>2, <1>3, FS_UNION
<1>5. IsFiniteSet(PG!ToSet(Stores) \X UNION lists)
  <2> HIDE DEF lists
  <2> QED BY <1>1, <1>4, FS_Product
<1>6. PG!All \subseteq PG!ToSet(Stores) \X UNION lists
  BY InAll
<1> HIDE DEF lists
<1> QED BY <1>5, <1>6, FS_Subset

(* A list that is read from its head. *)
LEMMA RestOfTail ==
  ASSUME NEW S, NEW list \in Seq(S), NEW rest \in Seq(S), PG!RestOf(rest, list), rest # <<>>
  PROVE  /\ PG!RestOf(Tail(rest), list)
         /\ Tail(rest) \in Seq(S) /\ \A i \in DOMAIN Tail(rest) : i + 1 \in DOMAIN rest /\ Tail(rest)[i] = rest[i + 1]
         /\ Head(rest) = rest[1] /\ 1 \in DOMAIN rest /\ Head(rest) \in S
         /\ Len(Tail(rest)) = Len(rest) - 1
BY DEF PG!RestOf

(* What the steps leave alone. *)
LEMMA SameSets ==
  UNCHANGED <<PG!All, PG!Spaces>> /\ \A s : PG!Of(s)' = PG!Of(s)
BY DEF PG!All, PG!Spaces, PG!Of

LEMMA GroupsTypes ==
  ASSUME PG!Inductive
  PROVE  /\ Stores \in Seq(STRING) /\ stores \in Seq(STRING)
         /\ \A s \in PG!ToSet(Stores) : Namespaces[s] \in Seq(STRING) /\ Namespaces[s] # <<>>
         /\ groups \in [PG!All -> Int] /\ series \in [PG!All -> Int]
         /\ \A p \in PG!All : groups[p] \in Nat /\ series[p] \in Nat
         /\ remaining \in Nat /\ GroupLimit \in Nat /\ remaining <= GroupLimit
         /\ read \subseteq PG!All
         /\ stores # <<>> => PG!Store = stores[1] /\ PG!Store \in PG!ToSet(Stores) /\ 1 \in DOMAIN stores
<1>1. Stores \in Seq(STRING) /\ stores \in Seq(STRING)
  BY GroupsAssumption DEF PG!Inductive, PG!TypeOK
<1>2. \A s \in PG!ToSet(Stores) : Namespaces[s] \in Seq(STRING) /\ Namespaces[s] # <<>>
  BY GroupsAssumption DEF PG!ToSet
<1>3. groups \in [PG!All -> 0 .. MaxGroups] /\ series \in [PG!All -> 0 .. GroupLimit]
      /\ remaining \in 0 .. GroupLimit /\ read \subseteq PG!All
  BY DEF PG!Inductive, PG!TypeOK
<1>4. stores # <<>> => PG!Store = stores[1] /\ PG!Store \in PG!ToSet(Stores) /\ 1 \in DOMAIN stores
  BY <1>1 DEF PG!Inductive, PG!TypeOK, PG!RestOf, PG!Store, PG!ToSet
<1> QED BY <1>1, <1>2, <1>3, <1>4, GroupsAssumption

LEMMA GroupsInit == ASSUME PG!Init PROVE PG!Inductive
<1> USE DEF PG!Init
<1>1. PG!TypeOK
  <2>1. stores \in Seq(STRING) /\ Len(stores) = 0 /\ DOMAIN stores = {} /\ names = PG!Unlisted
    <3>1. stores = <<>> /\ names = PG!Unlisted
      OBVIOUS
    <3> QED BY <3>1
  <2>2. PG!RestOf(stores, Stores)
    BY <2>1, GroupsAssumption DEF PG!RestOf
  <2>3. series \in [PG!All -> 0 .. GroupLimit] /\ remaining \in 0 .. GroupLimit
    BY GroupsAssumption
  <2>4. DOMAIN summary \subseteq PG!ToSet(Stores) /\ reported \subseteq PG!ToSet(Stores) /\ read \subseteq PG!All
    OBVIOUS
  <2> QED BY <2>1, <2>2, <2>3, <2>4 DEF PG!TypeOK
<1>2. PG!Counted
  <2>1. series \in [PG!All -> Int] /\ \A p \in PG!All : series[p] = 0
    OBVIOUS
  <2>2. SumFunctionOnSet(series, PG!All) = 0
    BY <2>1, AllFinite, SumOfZeros
  <2> QED BY <2>1, <2>2, SumIs, GroupsAssumption DEF PG!Counted
<1>3. PG!Unread /\ PG!NothingMissing
  BY DEF PG!Unread, PG!NothingMissing
<1> QED BY <1>1, <1>2, <1>3 DEF PG!Inductive

(* Lists have nothing twice, so that no rest of one is Unlisted. *)
LEMMA NothingTwice ==
  ASSUME PG!Inductive
  PROVE  /\ \A i, j \in DOMAIN stores : stores[i] = stores[j] => i = j
         /\ \A s \in PG!ToSet(Stores), l \in Seq(STRING) : PG!RestOf(l, Namespaces[s]) =>
              l # PG!Unlisted /\ \A i, j \in DOMAIN l : l[i] = l[j] => i = j
<1>1. \A i, j \in DOMAIN stores : stores[i] = stores[j] => i = j
  <2>1. /\ Stores \in Seq(STRING) /\ \A i, j \in DOMAIN Stores : Stores[i] = Stores[j] => i = j
        /\ stores \in Seq(STRING) /\ PG!RestOf(stores, Stores)
    BY GroupsAssumption DEF PG!Inductive, PG!TypeOK
  <2> QED BY <2>1 DEF PG!RestOf
<1>2. ASSUME NEW s \in PG!ToSet(Stores), NEW l \in Seq(STRING), PG!RestOf(l, Namespaces[s])
      PROVE  l # PG!Unlisted /\ \A i, j \in DOMAIN l : l[i] = l[j] => i = j
  <2> DEFINE list == Namespaces[s]
  <2>1. list \in Seq(STRING) /\ \A i, j \in DOMAIN list : list[i] = list[j] => i = j
    BY GroupsAssumption DEF PG!ToSet
  <2> HIDE DEF list
  <2>2. \A i, j \in DOMAIN l : l[i] = l[j] => i = j
    <3> SUFFICES ASSUME NEW i \in DOMAIN l, NEW j \in DOMAIN l, l[i] = l[j] PROVE i = j
      OBVIOUS
    <3> DEFINE n == Len(list) - Len(l)
    <3>1. n \in Nat /\ l[i] = list[n + i] /\ l[j] = list[n + j] /\ Len(l) \in Nat /\ DOMAIN l = 1 .. Len(l)
      BY <1>2, <2>1 DEF PG!RestOf, list
    <3>2. n + i \in DOMAIN list /\ n + j \in DOMAIN list
      BY <2>1, <3>1
    <3>3. n + i = n + j
      BY <2>1, <3>1, <3>2
    <3> HIDE DEF n
    <3> QED BY <3>1, <3>3
  <2>3. /\ 1 \in DOMAIN PG!Unlisted /\ 2 \in DOMAIN PG!Unlisted
        /\ PG!Unlisted[1] = PG!Unlisted[2]
    BY DEF PG!Unlisted
  <2> QED BY <2>2, <2>3
<1> QED BY <1>1, <1>2

(* Steps that leave the reading alone. *)
LEMMA CountedStays ==
  ASSUME PG!Counted, UNCHANGED <<groups, read, series, remaining, truncated>> PROVE PG!Counted'
<1>1. PG!SumFunctionOnSet(series, PG!All)' = PG!SumFunctionOnSet(series, PG!All)
  BY SumIs, SameSets
<1> QED BY <1>1, SameSets DEF PG!Counted

LEMMA GroupsExpire == ASSUME PG!Inductive, PG!Expire \/ PG!Finish PROVE PG!Inductive'
<1> USE DEF PG!Inductive
<1>1. UNCHANGED <<groups, listed, stores, names, firstErr, remaining, truncated, complete, read, series,
                  summary, reported>>
  BY DEF PG!Expire, PG!Finish, PG!scan
<1>2. expired' \in BOOLEAN /\ finished' \in BOOLEAN /\ (finished' => finished \/ (listed /\ stores = <<>>))
  <2>1. expired \in BOOLEAN /\ finished \in BOOLEAN
    BY DEF PG!TypeOK
  <2>2. CASE PG!Expire
    BY <2>1, <2>2 DEF PG!Expire
  <2>3. CASE PG!Finish
    BY <2>1, <2>3 DEF PG!Finish
  <2> QED BY <2>2, <2>3
<1>3. PG!TypeOK'
  BY <1>1, <1>2, SameSets DEF PG!TypeOK, PG!RestOf, PG!Store, PG!ToSet
<1>4. PG!Unread'
  BY <1>1, <1>2 DEF PG!Unread, PG!Store
<1>5. PG!Counted'
  BY <1>1, CountedStays
<1>6. PG!NothingMissing'
  <2>1. PG!Behind' = PG!Behind
    BY <1>1 DEF PG!Behind
  <2>2. \A s : PG!SumFunctionOnSet(groups, PG!Of(s))' = PG!SumFunctionOnSet(groups, PG!Of(s))
    BY <1>1, SumIs, SameSets
  <2> QED BY <1>1, <2>1, <2>2, SameSets DEF PG!NothingMissing, PG!Store, PG!ToSet
<1> QED BY <1>3, <1>4, <1>5, <1>6

LEMMA GroupsList == ASSUME PG!Inductive, PG!ListStores \/ PG!ListStoresFails PROVE PG!Inductive'
<1> USE DEF PG!Inductive
<1>1. /\ UNCHANGED <<groups, expired, names, firstErr, remaining, truncated, read, series, summary, reported>>
      /\ ~listed /\ listed' = TRUE
      /\ \/ stores' = Stores /\ UNCHANGED <<complete, finished>>
         \/ stores' = stores /\ complete' = FALSE /\ finished' = TRUE
  BY DEF PG!ListStores, PG!ListStoresFails
<1>2. stores = <<>> /\ names = PG!Unlisted /\ read = {} /\ reported = {} /\ ~finished
  BY <1>1 DEF PG!Unread
<1>3. PG!RestOf(stores, Stores)' /\ stores' \in Seq(STRING)
  BY <1>1, GroupsAssumption DEF PG!RestOf, PG!TypeOK
<1>4. PG!TypeOK'
  <2>1. complete' \in BOOLEAN /\ finished' \in BOOLEAN /\ listed' \in BOOLEAN
    BY <1>1 DEF PG!TypeOK
  <2> QED BY <1>1, <1>2, <1>3, <2>1, SameSets DEF PG!TypeOK, PG!ToSet
<1>5. PG!Unread'
  BY <1>1, <1>2 DEF PG!Unread
<1>6. PG!Counted'
  BY <1>1, CountedStays
<1>7. PG!NothingMissing'
  <2>1. complete' => PG!Behind' = {}
    BY <1>1, GroupsAssumption DEF PG!Behind
  <2> QED BY <1>1, <1>2, <2>1 DEF PG!NothingMissing
<1> QED BY <1>4, <1>5, <1>6, <1>7

(* The scan leaves a datastore: complete only if nothing of it is missing. *)
LEMMA GroupsNext ==
  ASSUME PG!Inductive, NEW failed_ \in BOOLEAN, stores # <<>>, PG!NextStore(failed_),
         UNCHANGED <<groups, expired, listed, remaining, truncated, read, series, finished>>,
         DOMAIN summary \subseteq DOMAIN summary', DOMAIN summary' \subseteq PG!ToSet(Stores),
         \A s \in DOMAIN summary : s # PG!Store => summary'[s] = summary[s],
         complete' => /\ PG!Of(PG!Store) \subseteq read /\ PG!Store \in DOMAIN summary'
                      /\ summary'[PG!Store] = SumFunctionOnSet(groups, PG!Of(PG!Store))
  PROVE  PG!Inductive'
<1> DEFINE store == PG!Store
<1>1. /\ names' = PG!Unlisted /\ firstErr' = FALSE /\ complete' = (complete /\ ~failed_ /\ ~expired)
      /\ reported' = (IF failed_ THEN reported \cup {store} ELSE reported)
      /\ stores' = (IF expired THEN <<>> ELSE Tail(stores))
  BY DEF PG!NextStore
<1>2. /\ stores \in Seq(STRING) /\ PG!RestOf(stores, Stores) /\ Stores \in Seq(STRING) /\ Len(stores) \in Nat
      /\ store = stores[1] /\ store \in PG!ToSet(Stores) /\ store \in STRING /\ expired \in BOOLEAN
      /\ complete \in BOOLEAN /\ reported \subseteq PG!ToSet(Stores)
  BY GroupsTypes DEF PG!Inductive, PG!TypeOK
<1>3. listed
  BY DEF PG!Inductive, PG!Unread
<1>4. /\ PG!RestOf(Tail(stores), Stores) /\ Tail(stores) \in Seq(STRING)
      /\ \A i \in DOMAIN Tail(stores) : i + 1 \in DOMAIN stores /\ Tail(stores)[i] = stores[i + 1]
      /\ Len(Tail(stores)) = Len(stores) - 1
  BY <1>2, RestOfTail
<1> HIDE DEF store
<1>5. PG!TypeOK'
  <2>1. stores' \in Seq(STRING) /\ PG!RestOf(stores, Stores)'
    <3>1. <<>> \in Seq(STRING) /\ PG!RestOf(<<>>, Stores)
      BY <1>2 DEF PG!RestOf
    <3>2. stores' \in Seq(STRING) /\ PG!RestOf(stores', Stores)
      BY <1>1, <1>2, <1>4, <3>1
    <3> QED BY <3>2 DEF PG!RestOf
  <2>3. complete' \in BOOLEAN /\ reported' \subseteq PG!ToSet(Stores)
    BY <1>1, <1>2
  <2> QED BY <1>1, <2>1, <2>3, SameSets DEF PG!Inductive, PG!TypeOK, PG!ToSet
<1>6. PG!Unread'
  <2>1. ASSUME NEW i \in DOMAIN stores', NEW p \in read PROVE p[1] # stores'[i]
    <3>1. i + 1 \in DOMAIN stores /\ stores'[i] = stores[i + 1] /\ i + 1 > 1
      BY <1>1, <1>2, <1>4, <2>1
    <3> QED BY <3>1 DEF PG!Inductive, PG!Unread
  <2>2. finished' => FALSE
    BY DEF PG!Inductive, PG!Unread
  <2> QED BY <1>1, <1>3, <2>1, <2>2 DEF PG!Unread
<1>7. PG!Counted'
  BY CountedStays DEF PG!Inductive
<1>8. PG!NothingMissing'
  <2>1. ASSUME complete' PROVE complete /\ ~failed_ /\ stores' = Tail(stores)
    BY <1>1, <1>2, <2>1
  <2>2. ASSUME complete', NEW s \in PG!Behind' PROVE s \in PG!Behind \/ s = store
    <3>1. PICK i \in 1 .. Len(Stores) - (Len(stores) - 1) : s = Stores[i]
      BY <1>4, <2>1, <2>2 DEF PG!Behind
    <3>2. store = Stores[Len(Stores) - Len(stores) + 1] /\ Len(Stores) \in Nat
      BY <1>2 DEF PG!RestOf
    <3> QED BY <1>2, <3>1, <3>2 DEF PG!Behind
  <2>3. ASSUME complete', NEW s \in PG!Behind'
        PROVE  /\ PG!Of(s) \subseteq read /\ s \in DOMAIN summary'
               /\ summary'[s] = SumFunctionOnSet(groups, PG!Of(s))
    <3>1. CASE s = store
      BY <2>3, <3>1 DEF store
    <3>2. CASE s # store
      <4>1. s \in PG!Behind /\ complete
        BY <2>1, <2>2, <2>3, <3>2
      <4> QED BY <1>3, <3>2, <4>1, SumIs DEF PG!Inductive, PG!NothingMissing, store
    <3> QED BY <3>1, <3>2
  <2>4. complete' => reported' = {}
    BY <1>1, <1>3, <2>1 DEF PG!Inductive, PG!NothingMissing
  <2> QED BY <1>1, <2>3, <2>4, SumIs, SameSets DEF PG!NothingMissing
<1> QED BY <1>5, <1>6, <1>7, <1>8 DEF PG!Inductive

LEMMA GroupsNames == ASSUME PG!Inductive, PG!ListNames \/ PG!ListNamesFails PROVE PG!Inductive'
<1>1. CASE PG!ListNamesFails
  <2>1. /\ PG!NextStore(TRUE) /\ stores # <<>>
        /\ UNCHANGED <<groups, expired, listed, remaining, truncated, read, series, summary, finished>>
    BY <1>1 DEF PG!ListNamesFails
  <2>2. ~complete'
    BY <2>1 DEF PG!NextStore
  <2>3. DOMAIN summary \subseteq PG!ToSet(Stores)
    BY DEF PG!Inductive, PG!TypeOK
  <2> QED BY <2>1, <2>2, <2>3, GroupsNext
<1>2. CASE PG!ListNames
  <2>1. /\ stores # <<>> /\ names = PG!Unlisted /\ names' = Namespaces[PG!Store]
        /\ UNCHANGED <<groups, expired, listed, stores, firstErr, remaining, truncated, complete, read,
                       series, summary, reported, finished>>
    BY <1>2 DEF PG!ListNames
  <2>2. names' \in Seq(STRING) /\ PG!RestOf(names', Namespaces[PG!Store]) /\ PG!Store = stores[1] /\ 1 \in DOMAIN stores
    <3>1. Namespaces[PG!Store] \in Seq(STRING)
      BY <2>1, GroupsTypes
    <3> QED BY <2>1, <3>1, GroupsTypes DEF PG!RestOf
  <2>3. PG!TypeOK'
    BY <2>1, <2>2, SameSets DEF PG!Inductive, PG!TypeOK, PG!RestOf, PG!Store, PG!ToSet
  <2>4. PG!Unread'
    <3>1. ASSUME NEW n PROVE <<stores[1], n>> \notin read
      <4>1. <<stores[1], n>>[1] = stores[1]
        OBVIOUS
      <4> QED BY <2>1, <2>2, <4>1 DEF PG!Inductive, PG!Unread
    <3> QED BY <2>1, <2>2, <3>1 DEF PG!Inductive, PG!Unread, PG!Store
  <2>5. PG!Counted'
    BY <2>1, CountedStays DEF PG!Inductive
  <2>6. PG!NothingMissing'
    <3>1. PG!Behind' = PG!Behind
      BY <2>1 DEF PG!Behind
    <3>2. \A s : PG!SumFunctionOnSet(groups, PG!Of(s))' = PG!SumFunctionOnSet(groups, PG!Of(s))
      BY <2>1, SumIs, SameSets
    <3>3. PG!ToSet(Namespaces[PG!Store])' = PG!ToSet(names)'
      BY <2>1 DEF PG!Store
    <3> QED BY <2>1, <3>1, <3>2, <3>3, SameSets DEF PG!Inductive, PG!NothingMissing
  <2> QED BY <2>3, <2>4, <2>5, <2>6 DEF PG!Inductive
<1> QED BY <1>1, <1>2

(* What reading one namespace changes. *)
LEMMA GroupsReading ==
  ASSUME PG!Inductive, PG!Reading, names' = Tail(names),
         UNCHANGED <<groups, expired, listed, stores, complete, summary, reported, finished>>,
         firstErr' \in BOOLEAN, truncated' \in BOOLEAN, remaining' \in 0 .. GroupLimit,
         series' \in [PG!All -> 0 .. GroupLimit], read' \subseteq PG!All, read \subseteq read',
         read' \subseteq read \cup {<<PG!Store, Head(names)>>},
         firstErr' \/ (<<PG!Store, Head(names)>> \in read' /\ (firstErr' <=> firstErr)),
         PG!Counted'
  PROVE  PG!Inductive'
<1>1. /\ stores # <<>> /\ names # PG!Unlisted /\ names # <<>> /\ names \in Seq(STRING)
      /\ PG!RestOf(names, Namespaces[PG!Store]) /\ PG!Store = stores[1]
      /\ PG!Store \in PG!ToSet(Stores) /\ Namespaces[PG!Store] \in Seq(STRING)
  BY GroupsTypes DEF PG!Reading, PG!Inductive, PG!TypeOK
<1>2. /\ PG!RestOf(names', Namespaces[PG!Store]) /\ names' \in Seq(STRING)
      /\ \A i \in DOMAIN names' : i + 1 \in DOMAIN names /\ names'[i] = names[i + 1]
      /\ Head(names) = names[1] /\ 1 \in DOMAIN names
  BY <1>1, RestOfTail
<1>3. names' # PG!Unlisted /\ \A i, j \in DOMAIN names : names[i] = names[j] => i = j
  BY <1>1, <1>2, NothingTwice
<1>4. PG!TypeOK'
  BY <1>1, <1>2, SameSets DEF PG!Inductive, PG!TypeOK, PG!RestOf, PG!Store, PG!ToSet
<1> DEFINE p == <<PG!Store, Head(names)>>
<1>5. p[1] = stores[1] /\ \A n : <<PG!Store, n>> = p => n = names[1]
  BY <1>1, <1>2
<1>6. PG!Unread'
  <2>1. ASSUME NEW i \in DOMAIN stores, i > 1 \/ names' = PG!Unlisted, NEW q \in read'
        PROVE  q[1] # stores[i]
    <3>1. i > 1
      BY <1>3, <2>1
    <3>2. CASE q \in read
      BY <3>1, <3>2 DEF PG!Inductive, PG!Unread
    <3>3. CASE q = p
      <4>1. 1 \in DOMAIN stores
        BY <1>1, GroupsTypes
      <4> QED BY <1>5, <2>1, <3>1, <3>3, <4>1, NothingTwice
    <3> QED BY <2>1, <3>2, <3>3
  <2>2. ASSUME NEW i \in DOMAIN names' PROVE <<PG!Store, names'[i]>> \notin read'
    <3>1. i + 1 \in DOMAIN names /\ names'[i] = names[i + 1] /\ i + 1 # 1
      BY <1>2, <2>2
    <3>2. <<PG!Store, names'[i]>> # p
      BY <1>2, <1>3, <1>5, <3>1
    <3>3. <<PG!Store, names'[i]>> \notin read
      BY <1>1, <3>1 DEF PG!Inductive, PG!Unread
    <3> QED BY <3>2, <3>3
  <2>3. PG!Store' = PG!Store
    BY DEF PG!Store
  <2> QED BY <1>1, <2>1, <2>2, <2>3 DEF PG!Inductive, PG!Unread
<1>7. PG!NothingMissing'
  <2>1. PG!Behind' = PG!Behind /\ PG!Store' = PG!Store /\ PG!ToSet(Namespaces[PG!Store])' = PG!ToSet(Namespaces[PG!Store])
    BY DEF PG!Behind, PG!Store, PG!ToSet
  <2>2. \A s : PG!SumFunctionOnSet(groups, PG!Of(s))' = PG!SumFunctionOnSet(groups, PG!Of(s))
    BY SumIs, SameSets
  <2>3. ASSUME ~firstErr', NEW n \in PG!ToSet(Namespaces[PG!Store])
        PROVE  <<PG!Store, n>> \in read' \/ n \in PG!ToSet(names')
    <3>1. p \in read' /\ ~firstErr
      BY <2>3
    <3>2. CASE <<PG!Store, n>> \in read
      BY <3>2
    <3>3. CASE n \in PG!ToSet(names)
      <4>1. PICK i \in DOMAIN names : n = names[i]
        BY <3>3 DEF PG!ToSet
      <4>2. CASE i = 1
        BY <1>2, <3>1, <4>1, <4>2
      <4>3. CASE i # 1
        <5>1. i - 1 \in DOMAIN names' /\ names'[i - 1] = names[i]
          BY <1>1, <4>1, <4>3
        <5> QED BY <4>1, <5>1 DEF PG!ToSet
      <4> QED BY <4>2, <4>3
    <3> QED BY <1>1, <3>1, <3>2, <3>3 DEF PG!Inductive, PG!NothingMissing
  <2> HIDE DEF p
  <2>4. listed' /\ complete' =>
          /\ reported' = {}
          /\ \A s \in PG!Behind' : /\ PG!Of(s)' \subseteq read' /\ s \in DOMAIN summary'
                                   /\ summary'[s] = PG!SumFunctionOnSet(groups, PG!Of(s))'
    BY <2>1, <2>2, SameSets DEF PG!Inductive, PG!NothingMissing
  <2>5. PG!ToSet(names)' = PG!ToSet(names')
    BY DEF PG!ToSet
  <2> QED BY <2>1, <2>3, <2>4, <2>5 DEF PG!NothingMissing
<1> QED BY <1>4, <1>6, <1>7 DEF PG!Inductive

LEMMA GroupsReadFails == ASSUME PG!Inductive, PG!ReadFails PROVE PG!Inductive'
<1>1. /\ PG!Reading /\ names' = Tail(names) /\ firstErr' = TRUE
      /\ UNCHANGED <<groups, expired, listed, stores, remaining, truncated, complete, read, series,
                     summary, reported, finished>>
  BY DEF PG!ReadFails
<1>2. PG!Counted'
  BY <1>1, CountedStays DEF PG!Inductive
<1> QED BY <1>1, <1>2, GroupsReading DEF PG!Inductive, PG!TypeOK

LEMMA GroupsRead == ASSUME PG!Inductive, PG!ReadGroups PROVE PG!Inductive'
<1> DEFINE p == <<PG!Store, Head(names)>>
           inView == PG!Lower(remaining, groups[p])
<1>1. /\ PG!Reading /\ names' = Tail(names) /\ read' = read \cup {p}
      /\ series' = [series EXCEPT ![p] = inView] /\ remaining' = remaining - inView
      /\ truncated' = (truncated \/ inView < groups[p])
      /\ UNCHANGED <<groups, expired, listed, stores, firstErr, complete, summary, reported, finished>>
  BY DEF PG!ReadGroups
<1>2. p \in PG!All /\ p \notin read
  <2>1. /\ stores # <<>> /\ names # PG!Unlisted /\ names # <<>> /\ names \in Seq(STRING)
        /\ PG!RestOf(names, Namespaces[PG!Store])
        /\ PG!Store \in PG!ToSet(Stores) /\ Namespaces[PG!Store] \in Seq(STRING)
    BY <1>1, GroupsTypes DEF PG!Reading, PG!Inductive, PG!TypeOK
  <2>2. Head(names) = names[1] /\ 1 \in DOMAIN names
    BY <2>1
  <2>3. names[1] \in PG!ToSet(Namespaces[PG!Store])
    BY <2>1, <2>2 DEF PG!RestOf, PG!ToSet
  <2>4. p \notin read
    BY <2>1, <2>2 DEF PG!Inductive, PG!Unread
  <2> QED BY <2>1, <2>2, <2>3, <2>4, InAll
<1> HIDE DEF p
<1>3. /\ remaining \in Nat /\ groups[p] \in Nat /\ GroupLimit \in Nat /\ remaining <= GroupLimit
      /\ series \in [PG!All -> Int] /\ series \in [PG!All -> 0 .. GroupLimit]
  BY <1>2, GroupsTypes DEF PG!Inductive, PG!TypeOK
<1>4. inView \in Nat /\ inView <= remaining /\ inView <= groups[p] /\ (inView < groups[p] => inView = remaining)
  BY <1>3 DEF PG!Lower
<1> HIDE DEF inView
<1>5. PG!Counted'
  <2>1. series[p] = 0 /\ SumFunctionOnSet(series, PG!All) = GroupLimit - remaining
    BY <1>2, SumIs DEF PG!Inductive, PG!Counted
  <2>2. SumFunctionOnSet(series', PG!All) = SumFunctionOnSet(series, PG!All) - series[p] + inView
    <3>1. inView \in Int
      BY <1>4
    <3>2. SumFunctionOnSet([series EXCEPT ![p] = inView], PG!All)
            = SumFunctionOnSet(series, PG!All) - series[p] + inView
      <4>1. \A D : IsFiniteSet(D) => \A f \in [D -> Int], x \in D, v \in Int :
              SumFunctionOnSet([f EXCEPT ![x] = v], D) = SumFunctionOnSet(f, D) - f[x] + v
        BY SumExcept
      <4>2. series \in [PG!All -> Int]
        BY <1>3
      <4>3. \A f \in [PG!All -> Int], x \in PG!All, v \in Int :
              SumFunctionOnSet([f EXCEPT ![x] = v], PG!All) = SumFunctionOnSet(f, PG!All) - f[x] + v
        BY <4>1, AllFinite
      <4> QED BY <1>2, <3>1, <4>2, <4>3
    <3> QED BY <1>1, <3>2
  <2>3. SumFunctionOnSet(series', PG!All) = GroupLimit - remaining'
    BY <1>1, <1>3, <1>4, <2>1, <2>2
  <2>4. \A q \in PG!All \ read' : series'[q] = 0
    BY <1>1, <1>3 DEF PG!Inductive, PG!Counted
  <2>5. truncated' => remaining' = 0
    <3>1. truncated => remaining = 0
      BY DEF PG!Inductive, PG!Counted
    <3>2. remaining' = remaining - inView /\ (truncated' => truncated \/ inView < groups[p])
      BY <1>1
    <3> QED BY <1>3, <1>4, <3>1, <3>2
  <2>6. ~truncated' => \A q \in read' : series'[q] = groups[q]
    <3>1. \A q \in read : q \in PG!All /\ q # p
      BY <1>2 DEF PG!Inductive, PG!TypeOK
    <3>2. ~truncated' => inView = groups[p] /\ ~truncated
      <4>1. ~truncated' => ~truncated /\ ~(inView < groups[p])
        BY <1>1
      <4> QED BY <1>3, <1>4, <4>1
    <3> QED BY <1>1, <1>2, <1>3, <3>1, <3>2 DEF PG!Inductive, PG!Counted
  <2> QED BY <1>1, <2>3, <2>4, <2>5, <2>6, SumIs, SameSets DEF PG!Counted
<1>6. truncated' \in BOOLEAN /\ firstErr' \in BOOLEAN /\ read' \subseteq PG!All
  BY <1>1, <1>2 DEF PG!Inductive, PG!TypeOK
<1>7. remaining' \in 0 .. GroupLimit /\ series' \in [PG!All -> 0 .. GroupLimit]
  <2>1. remaining' = remaining - inView /\ series' = [series EXCEPT ![p] = inView]
    BY <1>1
  <2>2. inView \in 0 .. GroupLimit
    BY <1>3, <1>4
  <2>3. remaining' \in 0 .. GroupLimit
    BY <1>3, <1>4, <2>1
  <2>4. [series EXCEPT ![p] = inView] \in [PG!All -> 0 .. GroupLimit]
    BY <1>3, <2>2
  <2> QED BY <2>1, <2>3, <2>4
<1> QED BY <1>1, <1>5, <1>6, <1>7, GroupsReading DEF p

LEMMA GroupsEnd == ASSUME PG!Inductive, PG!EndStore \/ PG!Interrupted PROVE PG!Inductive'
<1> DEFINE store == PG!Store
           mine == {p \in read : p[1] = store}
<1>1. PICK failed_ \in BOOLEAN :
        /\ PG!NextStore(failed_) /\ stores # <<>> /\ names # PG!Unlisted
        /\ failed_ \/ (names = <<>> /\ ~firstErr)
        /\ UNCHANGED <<groups, expired, listed, remaining, truncated, read, series, finished>>
        /\ PG!Summarised
  <2>1. CASE PG!EndStore
    <3>1. firstErr \in BOOLEAN /\ names = <<>> /\ names # PG!Unlisted
      BY <2>1 DEF PG!EndStore, PG!Inductive, PG!TypeOK, PG!Unlisted
    <3> QED BY <2>1, <3>1 DEF PG!EndStore
  <2>2. CASE PG!Interrupted
    BY <2>2 DEF PG!Interrupted, PG!Reading
  <2> QED BY <2>1, <2>2
<1>2. /\ PG!ToSet(Stores) = PG!ToSet(Stores) /\ store \in PG!ToSet(Stores)
      /\ DOMAIN summary \subseteq PG!ToSet(Stores) /\ read \subseteq PG!All
      /\ Namespaces[store] \in Seq(STRING) /\ Namespaces[store] # <<>>
  BY <1>1, GroupsTypes DEF PG!Inductive, PG!TypeOK
<1>3. CASE mine = {}
  <2>1. summary' = summary
    BY <1>1, <1>3 DEF PG!Summarised
  <2>2. ~complete'
    <3>1. SUFFICES ASSUME complete' PROVE FALSE
      OBVIOUS
    <3>2. names = <<>> /\ ~firstErr
      BY <1>1, <3>1 DEF PG!NextStore
    <3>3. Namespaces[store][1] \in PG!ToSet(Namespaces[store])
      BY <1>2 DEF PG!ToSet
    <3>4. PG!ToSet(names) = {}
      BY <3>2 DEF PG!ToSet
    <3>5. <<store, Namespaces[store][1]>> \in read
      BY <1>1, <3>2, <3>3, <3>4 DEF PG!Inductive, PG!NothingMissing
    <3> HIDE DEF store
    <3>6. <<store, Namespaces[store][1]>>[1] = store
      OBVIOUS
    <3> QED BY <1>3, <3>5, <3>6
  <2> QED BY <1>1, <1>2, <2>1, <2>2, GroupsNext
<1>4. CASE mine # {}
  <2>1. /\ DOMAIN summary' = DOMAIN summary \cup {store}
        /\ \A s \in DOMAIN summary' :
             summary'[s] = IF s = store THEN SumFunctionOnSet(groups, mine) ELSE summary[s]
    BY <1>1, <1>4, SumIs DEF PG!Summarised
  <2>2. complete' => PG!Of(store) \subseteq read /\ mine = PG!Of(store)
    <3>1. SUFFICES ASSUME complete' PROVE PG!Of(store) \subseteq read /\ mine = PG!Of(store)
      OBVIOUS
    <3>2. names = <<>> /\ ~firstErr
      BY <1>1, <3>1 DEF PG!NextStore
    <3>3. PG!ToSet(names) = {}
      BY <3>2 DEF PG!ToSet
    <3>4. ASSUME NEW p \in PG!Of(store) PROVE p \in read
      <4>1. p \in PG!All /\ p[1] = store
        BY DEF PG!Of
      <4>2. PICK s \in PG!ToSet(Stores) : \E n \in PG!ToSet(Namespaces[s]) : p = <<s, n>>
        BY <4>1, InAll
      <4>3. PICK n \in PG!ToSet(Namespaces[s]) : p = <<s, n>>
        BY <4>2
      <4>4. s = store
        BY <4>1, <4>3
      <4> QED BY <1>1, <3>2, <3>3, <4>3, <4>4 DEF PG!Inductive, PG!NothingMissing
    <3>5. mine \subseteq PG!Of(store)
      BY <1>2 DEF PG!Of
    <3> QED BY <3>4, <3>5 DEF PG!Of
  <2> HIDE DEF mine
  <2>3. /\ DOMAIN summary \subseteq DOMAIN summary' /\ DOMAIN summary' \subseteq PG!ToSet(Stores)
        /\ \A s \in DOMAIN summary : s # store => summary'[s] = summary[s]
        /\ complete' => /\ PG!Of(store) \subseteq read /\ store \in DOMAIN summary'
                        /\ summary'[store] = SumFunctionOnSet(groups, PG!Of(store))
    BY <1>2, <2>1, <2>2
  <2> QED BY <1>1, <2>3, GroupsNext
<1> QED BY <1>3, <1>4

LEMMA GroupsStep == ASSUME PG!Inductive, PG!Next PROVE PG!Inductive'
BY GroupsExpire, GroupsList, GroupsNames, GroupsReadFails, GroupsRead, GroupsEnd DEF PG!Next

LEMMA GroupsHonest == ASSUME PG!Inductive PROVE PG!GroupsHonest
<1> SUFFICES ASSUME finished
    PROVE  /\ complete =>
                /\ read = PG!All /\ reported = {} /\ DOMAIN summary = PG!ToSet(Stores)
                /\ \A s \in PG!ToSet(Stores) :
                     summary[s] = PG!SumFunctionOnSet(groups, PG!Of(s))
           /\ complete /\ ~truncated => series = groups
           /\ truncated => PG!SumFunctionOnSet(series, PG!All) = GroupLimit
  BY DEF PG!GroupsHonest
<1>1. listed /\ stores = <<>>
  BY DEF PG!Inductive, PG!Unread
<1>2. PG!Behind = PG!ToSet(Stores)
  BY <1>1, GroupsAssumption DEF PG!Behind, PG!ToSet
<1>3. complete =>
        /\ reported = {}
        /\ \A s \in PG!ToSet(Stores) :
             /\ PG!Of(s) \subseteq read /\ s \in DOMAIN summary
             /\ summary[s] = PG!SumFunctionOnSet(groups, PG!Of(s))
  BY <1>1, <1>2 DEF PG!Inductive, PG!NothingMissing
<1>4. complete => read = PG!All
  <2>1. \A p \in PG!All : \E s \in PG!ToSet(Stores) : p \in PG!Of(s)
    <3> SUFFICES ASSUME NEW p \in PG!All PROVE \E s \in PG!ToSet(Stores) : p \in PG!Of(s)
      OBVIOUS
    <3>1. PICK s \in PG!ToSet(Stores) : \E n \in PG!ToSet(Namespaces[s]) : p = <<s, n>>
      BY InAll
    <3>2. p[1] = s
      BY <3>1
    <3> QED BY <3>2 DEF PG!Of
  <2> QED BY <1>3, <2>1, GroupsTypes
<1>5. complete /\ ~truncated => series = groups
  <2>1. series \in [PG!All -> Int] /\ groups \in [PG!All -> Int]
    BY GroupsTypes
  <2>2. complete /\ ~truncated => \A p \in PG!All : series[p] = groups[p]
    BY <1>4 DEF PG!Inductive, PG!Counted
  <2> QED BY <2>1, <2>2
<1>6. truncated => PG!SumFunctionOnSet(series, PG!All) = GroupLimit
  BY GroupsTypes DEF PG!Inductive, PG!Counted
<1>7. complete => DOMAIN summary = PG!ToSet(Stores)
  BY <1>3 DEF PG!Inductive, PG!TypeOK
<1> QED BY <1>3, <1>4, <1>5, <1>6, <1>7

(* What stays as it is stays proved. *)
LEMMA GroupsUnchanged == ASSUME PG!Inductive, UNCHANGED PG!vars PROVE PG!Inductive'
<1>1. /\ UNCHANGED <<groups, expired, listed, stores, names, firstErr, remaining, truncated>>
      /\ UNCHANGED <<complete, read, series, summary, reported, finished>>
  BY DEF PG!vars, PG!scan
<1>2. PG!TypeOK'
  <2>1. PG!Store' = PG!Store
    BY <1>1 DEF PG!Store
  <2> QED BY <1>1, <2>1 DEF PG!Inductive, PG!TypeOK, PG!RestOf
<1>3. PG!Unread'
  BY <1>1 DEF PG!Inductive, PG!Unread, PG!Store
<1>4. PG!Counted'
  BY <1>1, CountedStays DEF PG!Inductive
<1>5. PG!NothingMissing'
  BY <1>1 DEF PG!Inductive, PG!NothingMissing, PG!Behind, PG!Store
<1> QED BY <1>2, <1>3, <1>4, <1>5 DEF PG!Inductive
-----------------------------------------------------------------------------
(* The cluster's guests and their backups (ProxmoxBackups) *)

LEMMA Turns ==
  /\ PK!Turn["storage"] = 1 /\ PK!Turn["guests"] = 2 /\ PK!Turn["ha"] = 3 /\ PK!Turn["jobs"] = 4
  /\ PK!Turn["stores"] = 5 /\ PK!Turn["content"] = 6 /\ PK!Turn["done"] = 7
BY DEF PK!Turn

LEMMA Asked ==
  ASSUME PK!Inductive, NEW q \in read \cup failed
  PROVE  /\ PK!Turn[q[1]] \in 1 .. 6
         /\ q[1] # "content" => q = <<q[1]>>
         /\ PK!Turn[q[1]] < PK!Turn[pc] \/ (pc = "content" /\ q[1] = "content")
<1>1. \/ \E k \in {"storage", "guests", "ha", "jobs", "stores"} : q = <<k>>
      \/ \E s : q = <<"content", s>>
  BY DEF PK!Inductive, PK!TypeOK
<1>2. PK!Turn[q[1]] < PK!Turn[pc] \/ (pc = "content" /\ q[1] = "content")
  BY DEF PK!Inductive, PK!InTurn
<1>3. ASSUME NEW k \in {"storage", "guests", "ha", "jobs", "stores"}, q = <<k>>
      PROVE  q[1] \in {"storage", "guests", "ha", "jobs", "stores"} /\ q = <<q[1]>>
  BY <1>3
<1>4. ASSUME NEW s, q = <<"content", s>> PROVE q[1] = "content"
  BY <1>4
<1> QED BY <1>1, <1>2, <1>3, <1>4, Turns

(* What was said stays sound. *)
LEMMA StaysSound ==
  ASSUME PK!Inductive, UNCHANGED <<phase, elected, jobs, backedUp>>, read \subseteq read',
         claims \subseteq claims'
  PROVE  \A c \in claims : PK!Sound(c)'
<1> SUFFICES ASSUME NEW c \in claims PROVE PK!Sound(c)'
  OBVIOUS
<1>1. PK!Sound(c)
  BY DEF PK!Inductive
<1>2. PK!Protected(c[2])' <=> PK!Protected(c[2])
  BY DEF PK!Protected
<1>3. PK!Named(c[2])' = PK!Named(c[2])
  BY DEF PK!Named
<1>4. CASE c[1] = "covered" /\ <<"jobs">> \in read /\ c[3] = PK!Protected(c[2])
  <2>1. PK!Protected(c[2])' = PK!Protected(c[2])
    BY DEF PK!Protected
  <2> QED BY <1>4, <2>1 DEF PK!Sound
<1>5. CASE /\ c[1] = "backup" /\ <<"content", c[2][2]>> \in read
           /\ c[3] = (c[2][1] \in backedUp[c[2][2]])
  BY <1>5 DEF PK!Sound
<1>6. CASE c[1] = "guest" /\ <<"guests">> \in read /\ c[3] = TRUE
  BY <1>6 DEF PK!Sound
<1>7. CASE c[1] = "ha" /\ <<"ha">> \in read /\ <<"guest", c[2], TRUE>> \in claims /\ c[3] = TRUE
  BY <1>7 DEF PK!Sound
<1>8. CASE /\ c[1] = "storage" /\ <<"storage">> \in read /\ (PK!Named(c[2]).shared => elected)
           /\ c[3] = PK!Named(c[2]).usable
  BY <1>3, <1>8 DEF PK!Sound
<1> QED BY <1>1, <1>4, <1>5, <1>6, <1>7, <1>8 DEF PK!Sound

(* A query other than a storage's content. *)
LEMMA BackupsTurn ==
  ASSUME PK!Inductive, pc # "content", pc # "done", UNCHANGED phase,
         pc' \in {"storage", "guests", "ha", "jobs", "stores", "content", "done"},
         PK!Turn[pc] < PK!Turn[pc'],
         \A q \in read' \cup failed' : q \in read \cup failed \/ q = <<pc>>,
         pc' = "ha" => phase = "health" /\ <<"guests">> \in read'
  PROVE  PK!InTurn' /\ <<pc>> \notin read \cup failed
<1>1. PK!Turn[pc] \in 1 .. 6 /\ PK!Turn[pc'] \in 1 .. 7
  BY Turns DEF PK!Inductive, PK!TypeOK
<1>2. <<pc>> \notin read \cup failed
  <2>1. SUFFICES ASSUME <<pc>> \in read \cup failed PROVE FALSE
    OBVIOUS
  <2>2. <<pc>>[1] = pc
    OBVIOUS
  <2>3. PK!Turn[pc] < PK!Turn[pc]
    BY <2>1, <2>2, Asked
  <2> QED BY <1>1, <2>3
<1>3. ASSUME NEW q \in read' \cup failed' PROVE PK!Turn[q[1]] < PK!Turn[pc']
  <2>1. CASE q \in read \cup failed
    <3>1. PK!Turn[q[1]] \in Int /\ PK!Turn[q[1]] < PK!Turn[pc]
      BY <2>1, Asked
    <3> QED BY <1>1, <3>1
  <2>2. CASE q = <<pc>>
    <3>1. q[1] = pc
      BY <2>2
    <3> QED BY <3>1
  <2> QED BY <1>3, <2>1, <2>2
<1>4. PK!InTurn'
  BY <1>3 DEF PK!InTurn, PK!Turn
<1> QED BY <1>2, <1>4

(* The types after an answer or a failure. *)
LEMMA BackupsTypes ==
  ASSUME PK!Inductive, UNCHANGED <<phase, elected, jobs, backedUp>>,
         pc' \in {"storage", "guests", "ha", "jobs", "stores", "content", "done"},
         NEW q, q \notin read \cup failed,
         \/ \E k \in {"storage", "guests", "ha", "jobs", "stores"} : q = <<k>>
         \/ \E s \in PK!Names : q = <<"content", s>>,
         \/ read' = read \cup {q} /\ failed' = failed
         \/ read' = read /\ failed' = failed \cup {q}
  PROVE  PK!TypeOK'
<1>1. PK!Listable' = PK!Listable /\ PK!Real' = PK!Real /\ PK!Names' = PK!Names
  BY DEF PK!Listable, PK!Real, PK!Names
<1>2. q \in {<<k>> : k \in {"storage", "guests", "ha", "jobs", "stores"}}
              \cup {<<"content", s>> : s \in PK!Names}
  OBVIOUS
<1> QED BY <1>1, <1>2 DEF PK!Inductive, PK!TypeOK

LEMMA BackupsFail ==
  ASSUME PK!Inductive, NEW next_, pc # "content", pc # "done", PK!Fails(pc, next_),
         next_ \in {"storage", "guests", "ha", "jobs", "stores", "content", "done"}, next_ # "ha",
         PK!Turn[pc] < PK!Turn[next_],
         phase = "backups" => next_ \in {"guests", "jobs", "stores", "content", "done"}
  PROVE  PK!Inductive'
<1>1. /\ UNCHANGED <<phase, elected, jobs, backedUp, read, claims>> /\ pc' = next_
      /\ failed' = failed \cup {<<pc>>}
  BY DEF PK!Fails
<1>2. PK!InTurn' /\ <<pc>> \notin read \cup failed
  BY <1>1, BackupsTurn
<1>3. PK!TypeOK'
  <2>1. \E k \in {"storage", "guests", "ha", "jobs", "stores"} : <<pc>> = <<k>>
    BY DEF PK!Inductive, PK!TypeOK
  <2> QED BY <1>1, <1>2, <2>1, BackupsTypes
<1>4. \A c \in claims' : PK!Sound(c)'
  BY <1>1, StaysSound
<1>5. failed' # {}
  BY <1>1
<1>6. PK!AllSaid'
  BY <1>1, <1>5 DEF PK!Inductive, PK!AllSaid, PK!Present, PK!Covered, PK!Content, PK!Listable, PK!Real,
    PK!Selects
<1> QED BY <1>2, <1>3, <1>4, <1>6 DEF PK!Inductive

(* What a case analysis of the steps leaves of them. *)
LEMMA BackupsAnswer ==
  ASSUME PK!Inductive, NEW next_, NEW said, pc # "content", pc # "done",
         PK!Answered(pc, next_, said),
         next_ \in {"storage", "guests", "ha", "jobs", "stores", "content", "done"},
         PK!Turn[pc] < PK!Turn[next_], next_ = "ha" => phase = "health" /\ pc = "guests"
  PROVE  /\ UNCHANGED <<phase, elected, jobs, backedUp, failed>> /\ pc' = next_
         /\ read' = read \cup {<<pc>>} /\ claims' = claims \cup said
         /\ PK!TypeOK' /\ PK!InTurn' /\ (\A c \in claims : PK!Sound(c)')
         /\ <<pc>> \notin read \cup failed
<1>1. /\ UNCHANGED <<phase, elected, jobs, backedUp, failed>> /\ pc' = next_
      /\ read' = read \cup {<<pc>>} /\ claims' = claims \cup said
  BY DEF PK!Answered
<1>2. PK!InTurn' /\ <<pc>> \notin read \cup failed
  BY <1>1, BackupsTurn
<1>3. PK!TypeOK'
  <2>1. \E k \in {"storage", "guests", "ha", "jobs", "stores"} : <<pc>> = <<k>>
    BY DEF PK!Inductive, PK!TypeOK
  <2> QED BY <1>1, <1>2, <2>1, BackupsTypes
<1>4. \A c \in claims : PK!Sound(c)'
  BY <1>1, StaysSound
<1> QED BY <1>1, <1>2, <1>3, <1>4

(* The sets of statements do not depend on what was read. *)
LEMMA SameStatements ==
  ASSUME UNCHANGED <<phase, elected, jobs, backedUp>>
  PROVE  /\ UNCHANGED <<PK!Present, PK!Covered, PK!Listable, PK!Real>>
         /\ \A s : PK!Content(s)' = PK!Content(s)
BY DEF PK!Present, PK!Covered, PK!Content, PK!Listable, PK!Real, PK!Selects

LEMMA BackupsStorage == ASSUME PK!Inductive, PK!CollectStorage PROVE PK!Inductive'
<1> DEFINE said == {<<"storage", s, PK!Named(s).usable>> : s \in PK!Mine}
<1>1. phase = "resources" /\ pc = "storage" /\ PK!AfterStorage \in {"guests", "done"}
  BY DEF PK!CollectStorage, PK!Answered, PK!Fails, PK!AfterStorage
<1>2. CASE PK!Fails("storage", PK!AfterStorage)
  BY <1>1, <1>2, BackupsFail, Turns
<1>3. CASE PK!Answered("storage", PK!AfterStorage, said)
  <2>1. /\ UNCHANGED <<phase, elected, jobs, backedUp, failed>> /\ pc' = PK!AfterStorage
        /\ read' = read \cup {<<pc>>} /\ claims' = claims \cup said
        /\ PK!TypeOK' /\ PK!InTurn' /\ (\A c \in claims : PK!Sound(c)')
    <3> HIDE DEF said
    <3> QED BY <1>1, <1>3, BackupsAnswer, Turns
  <2>2. ASSUME NEW s \in PK!Mine PROVE PK!Sound(<<"storage", s, PK!Named(s).usable>>)'
    <3>1. PK!Named(s).shared => elected
      <4>1. PICK t \in Storages : t.name = s /\ (t.shared => elected)
        BY DEF PK!Mine
      <4>2. PK!Named(s) = t
        BY <4>1, BackupsAssumption DEF PK!Named
      <4> QED BY <4>1, <4>2
    <3>2. PK!Named(s)' = PK!Named(s)
      BY DEF PK!Named
    <3> DEFINE c == <<"storage", s, PK!Named(s).usable>>
    <3>3. c[1] = "storage" /\ c[2] = s /\ c[3] = PK!Named(s).usable
      OBVIOUS
    <3>4. <<"storage">> \in read'
      BY <1>1, <2>1
    <3> QED BY <2>1, <3>1, <3>2, <3>3, <3>4 DEF PK!Sound
  <2>3. \A c \in claims' : PK!Sound(c)'
    BY <2>1, <2>2
  <2>4. PK!AllSaid'
    <3>1. \A q \in {"guests", "jobs"} : <<q>> \in read' <=> <<q>> \in read
      BY <1>1, <2>1
    <3>2. \A s : <<"content", s>> \in read' <=> <<"content", s>> \in read
      BY <1>1, <2>1
    <3>3. claims \subseteq claims'
      BY <2>1
    <3> HIDE DEF said
    <3> QED BY <1>1, <2>1, <3>1, <3>2, <3>3, SameStatements DEF PK!Inductive, PK!AllSaid
  <2> QED BY <2>1, <2>3, <2>4 DEF PK!Inductive
<1> QED BY <1>2, <1>3 DEF PK!CollectStorage

LEMMA BackupsGuests == ASSUME PK!Inductive, PK!GetGuests PROVE PK!Inductive'
<1>1. pc = "guests" /\ PK!AfterGuests \in {"ha", "done"} /\ (PK!AfterGuests = "ha" => phase = "health")
  BY DEF PK!GetGuests, PK!Answered, PK!Fails, PK!AfterGuests
<1>2. CASE PK!Fails("guests", "done")
  BY <1>1, <1>2, BackupsFail, Turns
<1>3. CASE phase # "backups" /\ PK!Answered("guests", PK!AfterGuests, PK!Present)
  <2>1. /\ UNCHANGED <<phase, elected, jobs, backedUp, failed>> /\ pc' = PK!AfterGuests
        /\ read' = read \cup {<<pc>>} /\ claims' = claims \cup PK!Present
        /\ PK!TypeOK' /\ PK!InTurn' /\ (\A c \in claims : PK!Sound(c)')
    BY <1>1, <1>3, BackupsAnswer, Turns
  <2>2. ASSUME NEW g \in PK!Real PROVE PK!Sound(<<"guest", g.id, TRUE>>)'
    <3> DEFINE c == <<"guest", g.id, TRUE>>
    <3>1. c[1] = "guest" /\ c[3] = TRUE /\ <<"guests">> \in read'
      BY <1>1, <2>1
    <3> QED BY <3>1 DEF PK!Sound
  <2>3. \A c \in claims' : PK!Sound(c)'
    BY <2>1, <2>2 DEF PK!Present
  <2>4. PK!AllSaid'
    <3>1. <<"jobs">> \in read' <=> <<"jobs">> \in read
      BY <1>1, <2>1
    <3>2. \A s : <<"content", s>> \in read' <=> <<"content", s>> \in read
      BY <1>1, <2>1
    <3> QED BY <1>1, <1>3, <2>1, <3>1, <3>2, SameStatements DEF PK!Inductive, PK!AllSaid
  <2> QED BY <2>1, <2>3, <2>4 DEF PK!Inductive
<1>4. CASE phase = "backups" /\ PK!Answered("guests", "jobs", {})
  <2>1. /\ UNCHANGED <<phase, elected, jobs, backedUp, failed>> /\ pc' = "jobs"
        /\ read' = read \cup {<<pc>>} /\ claims' = claims \cup {}
        /\ PK!TypeOK' /\ PK!InTurn' /\ (\A c \in claims : PK!Sound(c)')
    BY <1>1, <1>4, BackupsAnswer, Turns
  <2>2. PK!AllSaid'
    <3>1. <<"jobs">> \in read' <=> <<"jobs">> \in read
      BY <1>1, <2>1
    <3>2. \A s : <<"content", s>> \in read' <=> <<"content", s>> \in read
      BY <1>1, <2>1
    <3> QED BY <1>1, <1>4, <2>1, <3>1, <3>2, SameStatements DEF PK!Inductive, PK!AllSaid
  <2> QED BY <2>1, <2>2 DEF PK!Inductive
<1> QED BY <1>2, <1>3, <1>4 DEF PK!GetGuests

LEMMA BackupsHA == ASSUME PK!Inductive, PK!GetHA PROVE PK!Inductive'
<1>1. pc = "ha" /\ phase = "health" /\ <<"guests">> \in read
  BY DEF PK!GetHA, PK!Answered, PK!Fails, PK!Inductive, PK!InTurn
<1>2. CASE PK!Fails("ha", "done")
  BY <1>1, <1>2, BackupsFail, Turns
<1>3. ASSUME NEW managed \in SUBSET Services,
             PK!Answered("ha", "done", {<<"ha", g.id, TRUE>> : g \in {r \in PK!Real : r.id \in managed}})
      PROVE  PK!Inductive'
  <2> DEFINE said == {<<"ha", g.id, TRUE>> : g \in {r \in PK!Real : r.id \in managed}}
  <2>1. /\ UNCHANGED <<phase, elected, jobs, backedUp, failed>> /\ pc' = "done"
        /\ read' = read \cup {<<pc>>} /\ claims' = claims \cup said
        /\ PK!TypeOK' /\ PK!InTurn' /\ (\A c \in claims : PK!Sound(c)')
    <3>1. PK!Answered("ha", "done", said)
      BY <1>3
    <3> HIDE DEF said
    <3> QED BY <1>1, <3>1, BackupsAnswer, Turns
  <2>2. ASSUME NEW g \in PK!Real PROVE PK!Sound(<<"ha", g.id, TRUE>>)'
    <3> DEFINE c == <<"ha", g.id, TRUE>>
    <3>1. c[1] = "ha" /\ c[2] = g.id /\ c[3] = TRUE /\ <<"ha">> \in read'
      BY <1>1, <2>1
    <3>2. <<"guest", g.id, TRUE>> \in claims
      BY <1>1 DEF PK!Inductive, PK!AllSaid, PK!Present
    <3> HIDE DEF said
    <3>3. <<"guest", g.id, TRUE>> \in claims'
      BY <2>1, <3>2
    <3> QED BY <3>1, <3>3 DEF PK!Sound
  <2>3. \A c \in claims' : PK!Sound(c)'
    BY <2>1, <2>2
  <2>4. PK!AllSaid'
    <3>1. \A q \in {"guests", "jobs"} : <<q>> \in read' <=> <<q>> \in read
      BY <1>1, <2>1
    <3>2. \A s : <<"content", s>> \in read' <=> <<"content", s>> \in read
      BY <1>1, <2>1
    <3>3. claims \subseteq claims'
      BY <2>1
    <3> HIDE DEF said
    <3> QED BY <1>1, <2>1, <3>1, <3>2, <3>3, SameStatements DEF PK!Inductive, PK!AllSaid
  <2> QED BY <2>1, <2>3, <2>4 DEF PK!Inductive
<1> QED BY <1>2, <1>3 DEF PK!GetHA

LEMMA BackupsJobs == ASSUME PK!Inductive, PK!GetJobs PROVE PK!Inductive'
<1>1. pc = "jobs"
  BY DEF PK!GetJobs, PK!Answered, PK!Fails
<1>2. CASE PK!Fails("jobs", "stores")
  BY <1>1, <1>2, BackupsFail, Turns
<1>3. CASE PK!Answered("jobs", "stores", PK!Covered)
  <2>1. /\ UNCHANGED <<phase, elected, jobs, backedUp, failed>> /\ pc' = "stores"
        /\ read' = read \cup {<<pc>>} /\ claims' = claims \cup PK!Covered
        /\ PK!TypeOK' /\ PK!InTurn' /\ (\A c \in claims : PK!Sound(c)')
    BY <1>1, <1>3, BackupsAnswer, Turns
  <2>2. ASSUME NEW c \in PK!Covered PROVE PK!Sound(c)'
    <3>1. PICK g \in PK!Real : c = <<"covered", g.id, \E j \in jobs : PK!Selects(j, g)>>
      BY DEF PK!Covered
    <3> DEFINE yes == \E j \in jobs : PK!Selects(j, g)
    <3>2. PK!Protected(g.id) <=> yes
      <4>1. \A h \in PK!Real : h.id = g.id => h = g
        BY BackupsAssumption DEF PK!Real
      <4>2. PK!Protected(g.id) <=> \E j \in jobs :
              /\ j.enabled /\ (j.node = "" \/ j.node = g.node) /\ g.id \notin j.exclude
              /\ j.all \/ g.id \in j.vmids \/ (j.pool = g.pool /\ j.pool # "")
        BY <4>1 DEF PK!Protected
      <4> QED BY <4>2 DEF PK!Selects
    <3>3. c[1] = "covered" /\ c[2] = g.id /\ c[3] = yes
      BY <3>1
    <3>4. PK!Protected(c[2])' <=> PK!Protected(g.id)
      BY <2>1, <3>3 DEF PK!Protected
    <3>5. c[3] = PK!Protected(c[2])'
      <4>1. PK!Protected(c[2])' \in BOOLEAN /\ yes \in BOOLEAN
        BY DEF PK!Protected
      <4>2. yes <=> PK!Protected(c[2])'
        BY <3>2, <3>4
      <4> HIDE DEF yes
      <4> QED BY <3>3, <4>1, <4>2
    <3>6. <<"jobs">> \in read'
      BY <1>1, <2>1
    <3> QED BY <3>3, <3>5, <3>6 DEF PK!Sound
  <2>3. \A c \in claims' : PK!Sound(c)'
    BY <2>1, <2>2
  <2>4. PK!AllSaid'
    <3>1. <<"guests">> \in read' <=> <<"guests">> \in read
      BY <1>1, <2>1
    <3>2. \A s : <<"content", s>> \in read' <=> <<"content", s>> \in read
      BY <1>1, <2>1
    <3>3. <<"jobs">> \in read'
      BY <1>1, <2>1
    <3> QED BY <1>1, <2>1, <3>1, <3>2, <3>3, SameStatements DEF PK!Inductive, PK!AllSaid
  <2> QED BY <2>1, <2>3, <2>4 DEF PK!Inductive
<1> QED BY <1>2, <1>3 DEF PK!GetJobs

LEMMA BackupsStores == ASSUME PK!Inductive, PK!GetStores PROVE PK!Inductive'
<1> DEFINE n == IF PK!Listable = {} THEN "done" ELSE "content"
<1>1. pc = "stores"
  BY DEF PK!GetStores, PK!Answered, PK!Fails
<1>2. CASE PK!Fails("stores", "done")
  BY <1>1, <1>2, BackupsFail, Turns
<1>3. CASE PK!Answered("stores", n, {})
  <2>1. /\ UNCHANGED <<phase, elected, jobs, backedUp, failed>> /\ pc' = n
        /\ read' = read \cup {<<pc>>} /\ claims' = claims \cup {}
        /\ PK!TypeOK' /\ PK!InTurn' /\ (\A c \in claims : PK!Sound(c)')
    <3>1. n \in {"content", "done"}
      OBVIOUS
    <3>2. PK!Turn[pc] < PK!Turn[n] /\ n # "ha"
      BY <1>1, <3>1, Turns
    <3>3. pc # "content" /\ pc # "done" /\ PK!Answered(pc, n, {})
      BY <1>1, <1>3
    <3> HIDE DEF n
    <3> QED BY <3>1, <3>2, <3>3, BackupsAnswer
  <2>2. PK!AllSaid'
    <3>1. \A q \in {"guests", "jobs"} : <<q>> \in read' <=> <<q>> \in read
      BY <1>1, <2>1
    <3>2. \A s : <<"content", s>> \in read' <=> <<"content", s>> \in read
      BY <1>1, <2>1
    <3>3. PK!Listable = {} => PK!Unlisted' = {}
      BY <2>1, SameStatements DEF PK!Unlisted
    <3> QED BY <1>1, <2>1, <3>1, <3>2, <3>3, SameStatements DEF PK!Inductive, PK!AllSaid
  <2> QED BY <2>1, <2>2 DEF PK!Inductive
<1> QED BY <1>2, <1>3 DEF PK!GetStores

LEMMA BackupsContent == ASSUME PK!Inductive, PK!GetContent PROVE PK!Inductive'
<1>1. PICK s \in PK!Unlisted :
        /\ \/ /\ read' = read \cup {<<"content", s>>} /\ claims' = claims \cup PK!Content(s)
              /\ UNCHANGED failed
           \/ failed' = failed \cup {<<"content", s>>} /\ UNCHANGED <<read, claims>>
        /\ pc' = IF PK!Unlisted = {s} THEN "done" ELSE "content"
        /\ UNCHANGED <<phase, elected, jobs, backedUp>> /\ pc = "content"
  BY DEF PK!GetContent, PK!ContentFails
<1>2. s \in PK!Listable /\ s \in PK!Names /\ <<"content", s>> \notin read \cup failed
  BY DEF PK!Unlisted, PK!Listable, PK!Names
<1>3. PK!TypeOK'
  BY <1>1, <1>2, BackupsTypes
<1>4. PK!InTurn'
  <2>1. ASSUME NEW q \in read' \cup failed'
        PROVE  PK!Turn[q[1]] < PK!Turn[pc'] \/ (pc' = "content" /\ q[1] = "content")
    <3>1. CASE q \in read \cup failed
      BY <1>1, <3>1, Asked, Turns
    <3>2. CASE q = <<"content", s>>
      <4>1. q[1] = "content"
        BY <3>2
      <4> QED BY <1>1, <4>1, Turns
    <3> QED BY <1>1, <2>1, <3>1, <3>2
  <2> QED BY <1>1, <2>1 DEF PK!InTurn, PK!Turn
<1>5. \A c \in claims : PK!Sound(c)'
  BY <1>1, StaysSound
<1>6. ASSUME NEW c \in PK!Content(s), <<"content", s>> \in read' PROVE PK!Sound(c)'
  <2>1. PICK g \in PK!Real : c = <<"backup", <<g.id, s>>, g.id \in backedUp[s]>>
    BY DEF PK!Content
  <2> DEFINE yes == g.id \in backedUp[s]
  <2>2. c[1] = "backup" /\ c[2][2] = s /\ c[2][1] = g.id /\ c[3] = yes
    BY <2>1
  <2>3. c[3] = (c[2][1] \in backedUp'[c[2][2]])
    BY <1>1, <2>2
  <2> QED BY <1>6, <2>2, <2>3 DEF PK!Sound
<1>7. \A c \in claims' : PK!Sound(c)'
  BY <1>1, <1>5, <1>6
<1>8. PK!AllSaid'
  <2>1. \A q \in {"guests", "jobs"} : <<q>> \in read' <=> <<q>> \in read
    BY <1>1
  <2>2. \A t : <<"content", t>> \in read' => <<"content", t>> \in read \/ t = s
    BY <1>1
  <2>3. \A t \in PK!Listable : <<"content", t>> \in read' => PK!Content(t) \subseteq claims'
    BY <1>1, <1>2, <2>2 DEF PK!Inductive, PK!AllSaid
  <2>4. pc' = "done" => PK!Unlisted' = {}
    BY <1>1, SameStatements DEF PK!Unlisted
  <2> QED BY <1>1, <2>1, <2>3, <2>4, SameStatements DEF PK!Inductive, PK!AllSaid
<1> QED BY <1>3, <1>4, <1>7, <1>8 DEF PK!Inductive

LEMMA BackupsStep == ASSUME PK!Inductive, PK!Next PROVE PK!Inductive'
BY BackupsStorage, BackupsGuests, BackupsHA, BackupsJobs, BackupsStores, BackupsContent DEF PK!Next

LEMMA BackupsInit == ASSUME PK!Init PROVE PK!Inductive
BY DEF PK!Init, PK!Inductive, PK!TypeOK, PK!InTurn, PK!AllSaid

LEMMA BackupsHonest == ASSUME PK!Inductive PROVE PK!NothingInvented
<1>1. ASSUME NEW c \in claims
      PROVE  CASE c[1] = "covered" -> <<"jobs">> \in read /\ c[3] = PK!Protected(c[2])
               [] c[1] = "backup" -> <<"content", c[2][2]>> \in read /\ c[3] = (c[2][1] \in backedUp[c[2][2]])
               [] c[1] = "guest" -> <<"guests">> \in read
               [] c[1] = "ha" -> <<"ha">> \in read /\ <<"guest", c[2], TRUE>> \in claims
               [] c[1] = "storage" -> <<"storage">> \in read /\ (PK!Named(c[2]).shared => elected)
  BY DEF PK!Inductive, PK!Sound
<1>2. ASSUME NEW c \in claims, NEW d \in claims, c[1] = d[1], c[2] = d[2] PROVE c[3] = d[3]
  <2>1. \A e \in claims :
          /\ e[1] = "covered" => e[3] = PK!Protected(e[2])
          /\ e[1] = "backup" => e[3] = (e[2][1] \in backedUp[e[2][2]])
          /\ e[1] \in {"guest", "ha"} => e[3] = TRUE
          /\ e[1] = "storage" => e[3] = PK!Named(e[2]).usable
          /\ e[1] \in {"covered", "backup", "guest", "ha", "storage"}
    BY DEF PK!Inductive, PK!Sound
  <2>2. CASE c[1] = "covered"
    <3>1. c[3] = PK!Protected(c[2]) /\ d[3] = PK!Protected(d[2])
      BY <1>2, <2>1, <2>2
    <3> QED BY <1>2, <3>1
  <2>3. CASE c[1] = "backup"
    <3>1. c[3] = (c[2][1] \in backedUp[c[2][2]]) /\ d[3] = (d[2][1] \in backedUp[d[2][2]])
      BY <1>2, <2>1, <2>3
    <3> QED BY <1>2, <3>1
  <2>4. CASE c[1] \in {"guest", "ha"}
    BY <1>2, <2>1, <2>4
  <2>5. CASE c[1] = "storage"
    <3>1. c[3] = PK!Named(c[2]).usable /\ d[3] = PK!Named(d[2]).usable
      BY <1>2, <2>1, <2>5
    <3> QED BY <1>2, <3>1
  <2> QED BY <2>1, <2>2, <2>3, <2>4, <2>5
<1>3. ASSUME pc = "done", failed = {}, phase = "backups", NEW g \in PK!Real
      PROVE  /\ \E c \in claims : c[1] = "covered" /\ c[2] = g.id
             /\ \A s \in PK!Listable : \E c \in claims : c[1] = "backup" /\ c[2] = <<g.id, s>>
  <2>1. PK!Covered \subseteq claims /\ PK!Unlisted = {}
    BY <1>3 DEF PK!Inductive, PK!AllSaid
  <2>2. ASSUME NEW s \in PK!Listable PROVE \E c \in claims : c[1] = "backup" /\ c[2] = <<g.id, s>>
    <3>1. PK!Content(s) \subseteq claims
      BY <1>3, <2>1 DEF PK!Unlisted, PK!Inductive, PK!AllSaid
    <3> DEFINE yes == g.id \in backedUp[s]
               c == <<"backup", <<g.id, s>>, yes>>
    <3>2. c \in claims
      BY <3>1 DEF PK!Content
    <3> HIDE DEF yes
    <3>3. c[1] = "backup" /\ c[2] = <<g.id, s>>
      OBVIOUS
    <3> QED BY <3>2, <3>3
  <2>3. \E c \in claims : c[1] = "covered" /\ c[2] = g.id
    <3> DEFINE yes == \E j \in jobs : PK!Selects(j, g)
               c == <<"covered", g.id, yes>>
    <3>1. c \in claims
      BY <2>1 DEF PK!Covered
    <3> HIDE DEF yes
    <3>2. c[1] = "covered" /\ c[2] = g.id
      OBVIOUS
    <3> QED BY <3>1, <3>2
  <2> QED BY <2>2, <2>3
<1> QED BY <1>1, <1>2, <1>3 DEF PK!NothingInvented

LEMMA BackupsUnchanged == ASSUME PK!Inductive, UNCHANGED PK!vars PROVE PK!Inductive'
<1>1. UNCHANGED <<phase, elected, jobs, backedUp, pc, read, failed, claims>>
  BY DEF PK!vars
<1>2. PK!TypeOK' /\ PK!InTurn'
  BY <1>1 DEF PK!Inductive, PK!TypeOK, PK!InTurn
<1>3. \A c \in claims' : PK!Sound(c)'
  <2>1. ASSUME NEW c \in claims PROVE PK!Sound(c) /\ (PK!Sound(c)' <=> PK!Sound(c))
    BY <1>1 DEF PK!Inductive, PK!Sound, PK!Protected
  <2> QED BY <1>1, <2>1
<1>4. PK!AllSaid'
  BY <1>1 DEF PK!Inductive, PK!AllSaid, PK!Covered, PK!Content, PK!Unlisted
<1> QED BY <1>2, <1>3, <1>4 DEF PK!Inductive
-----------------------------------------------------------------------------
(* The update checks of an image (Registry) *)

LEMMA RegistryNext ==
  ASSUME RG!Inductive, left # <<>>
  PROVE  /\ left[1] \in Refs /\ Head(left) = left[1] /\ 1 \in DOMAIN left /\ Tail(left) \in Seq(Refs)
         /\ \A i \in DOMAIN Tail(left) : i + 1 \in DOMAIN left /\ Tail(left)[i] = left[i + 1] /\ i + 1 # 1
BY DEF RG!Inductive, RG!TypeOK

(* A reference that leaves takes what is said of it with it. *)
LEMMA RegistryMoves ==
  ASSUME RG!Inductive, left # <<>>, left' = Tail(left), step' = "next",
         \A r \in Refs, d \in Digests : <<r, d>> \in answered' => r = left[1] \/ <<r, d>> \in answered,
         \A c \in claims' : c[1] = left[1] \/ c \in claims
  PROVE  RG!Unasked'
<1> USE RegistryNext
<1>1. \A i, j \in DOMAIN left : left[i] = left[j] => i = j
  BY DEF RG!Inductive, RG!Unasked
<1>2. \A i, j \in DOMAIN left' : left'[i] = left'[j] => i = j
  <2> SUFFICES ASSUME NEW i \in DOMAIN left', NEW j \in DOMAIN left', left'[i] = left'[j] PROVE i = j
    OBVIOUS
  <2>1. i + 1 = j + 1
    BY <1>1
  <2>2. i \in Int /\ j \in Int
    BY DEF RG!Inductive, RG!TypeOK
  <2> QED BY <2>1, <2>2
<1>3. ASSUME NEW i \in DOMAIN left'
      PROVE  /\ left'[i] \in Refs /\ left'[i] # left[1]
             /\ \A d \in Digests : <<left'[i], d>> \notin answered
             /\ \A c \in claims : c[1] # left'[i]
  <2>1. left'[i] = left[i + 1] /\ i + 1 \in DOMAIN left /\ i + 1 # 1
    OBVIOUS
  <2>2. left[i + 1] \in Refs
    BY <2>1 DEF RG!Inductive, RG!TypeOK
  <2> QED BY <1>1, <2>1, <2>2 DEF RG!Inductive, RG!Unasked
<1> QED BY <1>2, <1>3 DEF RG!Unasked

(* What a claim is made of. *)
LEMMA RegistryClaims ==
  ASSUME RG!TypeOK, NEW r \in Refs, NEW d
  PROVE  /\ \A v \in BOOLEAN : claims \cup {<<r, "checkable", v>>} \subseteq
              Refs \X {"checkable", "checked", "local", "update"} \X BOOLEAN
         /\ claims \cup {<<r, "checked", FALSE>>} \subseteq
              Refs \X {"checkable", "checked", "local", "update"} \X BOOLEAN
         /\ claims \cup RG!Compared(r, d) \subseteq
              Refs \X {"checkable", "checked", "local", "update"} \X BOOLEAN
         /\ \A c \in RG!Compared(r, d) : c[1] = r /\ c[2] # "checkable"
         /\ \A s, v : <<r, s, v>> \in RG!Compared(r, d) <=>
              \/ s = "checked" /\ v = TRUE
              \/ s = "local" /\ v = (RG!MatchingLocalDigest(r) # RG!Unknown)
              \/ s = "update" /\ RG!MatchingLocalDigest(r) # RG!Unknown
                 /\ v = (RG!MatchingLocalDigest(r) # d)
<1> DEFINE kinds == {"checkable", "checked", "local", "update"}
           own == RG!MatchingLocalDigest(r)
           said == Refs \X kinds \X BOOLEAN
<1>1. claims \subseteq said
  BY DEF RG!TypeOK
<1>2. \A s \in kinds, v \in BOOLEAN : <<r, s, v>> \in said
  OBVIOUS
<1>3. \A c : c \in RG!Compared(r, d) <=>
        \/ c = <<r, "checked", TRUE>>
        \/ c = <<r, "local", own # RG!Unknown>>
        \/ own # RG!Unknown /\ c = <<r, "update", own # d>>
  BY DEF RG!Compared
<1>4. (own # RG!Unknown) \in BOOLEAN /\ (own # d) \in BOOLEAN
  OBVIOUS
<1>5. ASSUME NEW c \in RG!Compared(r, d)
      PROVE  \E s \in {"checked", "local", "update"}, v \in BOOLEAN : c = <<r, s, v>>
  <2>1. \A b \in BOOLEAN, s \in {"checked", "local", "update"} : c = <<r, s, b>> =>
          \E t \in {"checked", "local", "update"}, v \in BOOLEAN : c = <<r, t, v>>
    OBVIOUS
  <2> HIDE DEF own
  <2>2. CASE c = <<r, "checked", TRUE>>
    BY <2>1, <2>2
  <2>3. CASE c = <<r, "local", own # RG!Unknown>>
    BY <2>1, <2>3, <1>4
  <2>4. CASE c = <<r, "update", own # d>>
    BY <2>1, <2>4, <1>4
  <2> QED BY <1>3, <2>2, <2>3, <2>4
<1>6. \A c \in RG!Compared(r, d) : c \in said /\ c[1] = r /\ c[2] # "checkable"
  BY <1>2, <1>5
<1>7. \A s, v : <<r, s, v>> \in RG!Compared(r, d) <=>
        \/ s = "checked" /\ v = TRUE
        \/ s = "local" /\ v = (own # RG!Unknown)
        \/ s = "update" /\ own # RG!Unknown /\ v = (own # d)
  <2>1. \A s, v, t, u : <<r, s, v>> = <<r, t, u>> <=> s = t /\ v = u
    OBVIOUS
  <2> DEFINE known == own # RG!Unknown
             differs == own # d
  <2>2. \A c : c \in RG!Compared(r, d) <=>
          c = <<r, "checked", TRUE>> \/ c = <<r, "local", known>> \/ (known /\ c = <<r, "update", differs>>)
    BY <1>3
  <2>3. ASSUME NEW s, NEW v
        PROVE  <<r, s, v>> \in RG!Compared(r, d) <=>
                 \/ s = "checked" /\ v = TRUE
                 \/ s = "local" /\ v = known
                 \/ known /\ s = "update" /\ v = differs
    <3> HIDE DEF known, differs, own
    <3>1. <<r, s, v>> = <<r, "checked", TRUE>> <=> s = "checked" /\ v = TRUE
      BY <2>1
    <3>2. <<r, s, v>> = <<r, "local", known>> <=> s = "local" /\ v = known
      BY <2>1
    <3>3. <<r, s, v>> = <<r, "update", differs>> <=> s = "update" /\ v = differs
      BY <2>1
    <3> QED BY <2>2, <3>1, <3>2, <3>3, Zenon
  <2> HIDE DEF known, differs
  <2>4. \A s, v : <<r, s, v>> \in RG!Compared(r, d) <=>
          \/ s = "checked" /\ v = TRUE
          \/ s = "local" /\ v = known
          \/ known /\ s = "update" /\ v = differs
    BY <2>3, Zenon
  <2>5. ASSUME NEW s, NEW v
        PROVE  (known /\ s = "update" /\ v = differs) <=> (s = "update" /\ own # RG!Unknown /\ v = (own # d))
    BY Zenon DEF known, differs
  <2>6. ASSUME NEW s, NEW v PROVE  (v = known) <=> (v = (own # RG!Unknown))
    BY Zenon DEF known
  <2> HIDE DEF own
  <2> QED BY <2>4, <2>5, <2>6
<1> HIDE DEF own, said
<1>8. claims \cup RG!Compared(r, d) \subseteq said
  BY <1>1, <1>6
<1>9. \A v \in BOOLEAN : claims \cup {<<r, "checkable", v>>} \subseteq said
  BY <1>1, <1>2
<1>10. claims \cup {<<r, "checked", FALSE>>} \subseteq said
  BY <1>1, <1>2
<1> QED BY <1>6, <1>7, <1>8, <1>9, <1>10 DEF own, said

LEMMA RegistryStep == ASSUME RG!Inductive, RG!Next PROVE RG!Inductive'
<1> USE DEF RG!Inductive
<1>0. UNCHANGED local /\ (\A r : (RG!MatchingLocalDigest(r)' = RG!MatchingLocalDigest(r)) /\ (RG!Checkable(r)' = RG!Checkable(r)))
  <2>1. UNCHANGED local
    BY DEF RG!Next, RG!Push, RG!Expire, RG!Skip, RG!Ask, RG!Unauthorized, RG!BearerToken,
      RG!Manifest, RG!Fails, RG!world
  <2> QED BY <2>1 DEF RG!Checkable, RG!MatchingLocalDigest, RG!Matching
<1>1. CASE RG!Push \/ RG!Expire
  <2>1. UNCHANGED <<left, step, answered, claims>>
    BY <1>1 DEF RG!Push, RG!Expire
  <2>2. RG!TypeOK'
    BY <1>1 DEF RG!TypeOK, RG!Push, RG!Expire, RG!world
  <2>3. RG!Unasked'
    BY <1>0, <2>1 DEF RG!Unasked
  <2>4. \A r \in Refs : RG!Said(r)'
    BY <1>0, <2>1 DEF RG!Said
  <2> QED BY <1>0, <2>2, <2>3, <2>4
<1>2. CASE RG!Unauthorized \/ RG!BearerToken
  <2>1. UNCHANGED <<left, answered, claims, remote>> /\ step # "next" /\ step' \in {"token", "retry"} /\ UNCHANGED alive
    BY <1>2 DEF RG!Unauthorized, RG!BearerToken, RG!world
  <2>2. RG!TypeOK'
    BY <2>1, RegistryClaims DEF RG!TypeOK
  <2>3. RG!Unasked'
    BY <1>0, <2>1 DEF RG!Unasked
  <2>4. \A r \in Refs : RG!Said(r)'
    BY <1>0, <2>1 DEF RG!Said
  <2> QED BY <1>0, <2>2, <2>3, <2>4
<1>3. CASE RG!Ask
  <2> DEFINE h == left[1]
  <2>1. /\ left # <<>> /\ step = "next" /\ RG!Checkable(h) /\ step' = "manifest" /\ h \in Refs
        /\ claims' = claims \cup {<<h, "checkable", TRUE>>}
        /\ UNCHANGED <<remote, alive, left, answered>> /\ Head(left) = h
    BY <1>3, RegistryNext DEF RG!Ask, RG!world
  <2> HIDE DEF h
  <2>2. RG!TypeOK'
    BY <2>1, RegistryClaims DEF RG!TypeOK
  <2>3. RG!Unasked'
    <3>1. \A i \in DOMAIN left : left[i] = h => i = 1
      BY <2>1, RegistryNext DEF RG!Unasked, h
    <3>2. RG!Checkable(Head(left))'
      BY <1>0, <2>1 DEF RG!Checkable, RG!MatchingLocalDigest, RG!Matching
    <3>3. ASSUME NEW i \in DOMAIN left, NEW c \in claims', c[1] = left[i]
          PROVE  i = 1 /\ c[2] = "checkable"
      <4>1. c \notin claims
        BY <2>1, <3>3 DEF RG!Unasked
      <4>2. \A v : <<h, "checkable", v>>[1] = h /\ <<h, "checkable", v>>[2] = "checkable"
        OBVIOUS
      <4>3. c = <<h, "checkable", TRUE>>
        BY <2>1, <4>1
      <4> QED BY <3>1, <3>3, <4>2, <4>3
    <3>4. step' # "next"
      BY <2>1
    <3>5. /\ \A i, j \in DOMAIN left : left[i] = left[j] => i = j
          /\ \A i \in DOMAIN left : \A d \in Digests : <<left[i], d>> \notin answered
      BY DEF RG!Unasked
    <3> QED BY <2>1, <3>2, <3>3, <3>4, <3>5 DEF RG!Unasked
  <2>4. \A r \in Refs : RG!Said(r)'
    BY <1>0, <2>1 DEF RG!Said
  <2> QED BY <1>0, <2>2, <2>3, <2>4
<1>4. CASE RG!Skip
  <2> DEFINE h == left[1]
  <2>1. /\ left # <<>> /\ step = "next" /\ h \in Refs /\ left' = Tail(left) /\ step' = "next"
        /\ claims' = claims \cup {<<h, "checkable", FALSE>>}
        /\ UNCHANGED <<remote, alive, answered>> /\ Head(left) = h /\ left' \in Seq(Refs)
    BY <1>4, RegistryNext DEF RG!Skip, RG!world
  <2>3. RG!Unasked'
    <3>1. \A v : <<h, "checked", v>>[1] = h /\ <<h, "checkable", v>>[1] = h
      OBVIOUS
    <3> HIDE DEF h
    <3>2. \A c \in claims' : c[1] = h \/ c \in claims
      BY <2>1, <3>1
    <3> USE DEF h
    <3> QED BY <2>1, <3>2, RegistryMoves
  <2> HIDE DEF h
  <2>2. RG!TypeOK'
    BY <2>1, RegistryClaims DEF RG!TypeOK
  <2>4. \A r \in Refs : RG!Said(r)'
    BY <1>0, <2>1 DEF RG!Said
  <2> QED BY <1>0, <2>2, <2>3, <2>4
<1>5. CASE RG!Fails
  <2> DEFINE h == left[1]
  <2>1. /\ left # <<>> /\ h \in Refs /\ left' = Tail(left) /\ step' = "next"
        /\ claims' = claims \cup {<<h, "checked", FALSE>>}
        /\ UNCHANGED <<remote, alive, answered>> /\ Head(left) = h /\ left' \in Seq(Refs)
    BY <1>5, RegistryNext DEF RG!Fails, RG!world, RG!TypeOK
  <2>3. RG!Unasked'
    <3>1. \A v : <<h, "checked", v>>[1] = h /\ <<h, "checkable", v>>[1] = h
      OBVIOUS
    <3> HIDE DEF h
    <3>2. \A c \in claims' : c[1] = h \/ c \in claims
      BY <2>1, <3>1
    <3> USE DEF h
    <3> QED BY <2>1, <3>2, RegistryMoves
  <2>4. \A value \in BOOLEAN : <<h, "update", value>> \notin claims
    BY <2>1, RegistryNext DEF RG!Unasked
  <2> HIDE DEF h
  <2>2. RG!TypeOK'
    BY <2>1, RegistryClaims DEF RG!TypeOK
  <2>5. \A r \in Refs : RG!Said(r)'
    BY <1>0, <2>1, <2>4 DEF RG!Said
  <2> QED BY <1>0, <2>2, <2>3, <2>5
<1>6. CASE RG!Manifest
  <2> DEFINE h == left[1]
             d == remote[h]
  <2>1. /\ left # <<>> /\ h \in Refs /\ d \in Digests /\ left' = Tail(left) /\ step' = "next"
        /\ answered' = answered \cup {<<h, d>>} /\ claims' = claims \cup RG!Compared(h, d)
        /\ UNCHANGED <<remote, alive>> /\ Head(left) = h /\ left' \in Seq(Refs)
    BY <1>6, RegistryNext DEF RG!Manifest, RG!world, RG!TypeOK
  <2>2. \A c \in RG!Compared(h, d) : c[1] = h /\ c[2] # "checkable"
    BY <2>1, RegistryClaims
  <2>3. RG!Unasked'
    BY <2>1, <2>2, RegistryMoves
  <2>4. /\ \A e \in Digests : <<h, e>> \notin answered
        /\ \A c \in claims : c[1] = h => c[2] = "checkable"
    BY <2>1, RegistryNext DEF RG!Unasked
  <2> HIDE DEF h, d
  <2>5. RG!TypeOK'
    <3>1. answered' \subseteq Refs \X Digests
      BY <2>1 DEF RG!TypeOK
    <3> QED BY <2>1, <3>1, RegistryClaims DEF RG!TypeOK
  <2>6. ASSUME NEW r \in Refs, r # h PROVE RG!Said(r)'
    <3>1. \A c : c[1] = r => (c \in claims' <=> c \in claims)
      BY <2>1, <2>2, <2>6
    <3>2. \A e : <<r, e>> \in answered' <=> <<r, e>> \in answered
      BY <2>1, <2>6
    <3>3. \A s, v : <<r, s, v>> \in claims' <=> <<r, s, v>> \in claims
      BY <3>1
    <3> QED BY <1>0, <3>2, <3>3 DEF RG!Said
  <2>7. ASSUME NEW r \in Refs, r = h PROVE RG!Said(r)'
    <3>0. r = h
      BY <2>7
    <3>1. \A e \in Digests : <<r, e>> \in answered' <=> e = d
      BY <2>1, <3>0, <2>4
    <3>2. \A s, v : s # "checkable" => (<<r, s, v>> \in claims' <=> <<r, s, v>> \in RG!Compared(r, d))
      BY <2>1, <3>0, <2>4
    <3>3. <<r, "checkable", TRUE>> \in claims' => <<r, "checkable", TRUE>> \in claims
      BY <2>1, <3>0, <2>2
    <3>4. /\ <<r, "checked", TRUE>> \in claims' /\ <<r, "checked", FALSE>> \notin claims'
      <4>1. \A s, v : <<r, s, v>> \in RG!Compared(r, d) <=>
                \/ s = "checked" /\ v = TRUE
                \/ s = "local" /\ v = (RG!MatchingLocalDigest(r) # RG!Unknown)
                \/ s = "update" /\ RG!MatchingLocalDigest(r) # RG!Unknown
                   /\ v = (RG!MatchingLocalDigest(r) # d)
        BY RegistryClaims
      <4>2. "checked" # "checkable" /\ "checked" # "local" /\ "checked" # "update" /\ TRUE # FALSE
        OBVIOUS
      <4> QED BY <3>2, <4>1, <4>2, Zenon
    <3>5. \A v \in BOOLEAN : <<r, "update", v>> \in claims' =>
             RG!MatchingLocalDigest(r) # RG!Unknown /\ v = (RG!MatchingLocalDigest(r) # d)
      <4>1. \A v : <<r, "update", v>> \in RG!Compared(r, d) =>
              RG!MatchingLocalDigest(r) # RG!Unknown /\ v = (RG!MatchingLocalDigest(r) # d)
        <5>1. \A s, v : <<r, s, v>> \in RG!Compared(r, d) <=>
                \/ s = "checked" /\ v = TRUE
                \/ s = "local" /\ v = (RG!MatchingLocalDigest(r) # RG!Unknown)
                \/ s = "update" /\ RG!MatchingLocalDigest(r) # RG!Unknown
                   /\ v = (RG!MatchingLocalDigest(r) # d)
          BY <2>1, <3>0, RegistryClaims
        <5>2. "update" # "checked" /\ "update" # "local"
          OBVIOUS
        <5> QED BY <5>1, <5>2, Zenon
      <4>2. "update" # "checkable"
        OBVIOUS
      <4> QED BY <3>2, <4>1, <4>2, Zenon
    <3>6. RG!Said(r)
      BY <2>1, <3>0
    <3> HIDE DEF RG!Inductive
    <3>7. \A v \in BOOLEAN : <<r, "update", v>> \in claims' =>
            /\ RG!MatchingLocalDigest(r)' # RG!Unknown
            /\ \E e \in Digests : <<r, e>> \in answered' /\ v = (RG!MatchingLocalDigest(r)' # e)
      <4>1. RG!MatchingLocalDigest(r)' = RG!MatchingLocalDigest(r)
        BY <1>0, <2>1 DEF RG!MatchingLocalDigest, RG!Matching
      <4> QED BY <2>1, <3>0, <3>1, <3>5, <4>1, Zenon
    <3>8. <<r, "checkable", TRUE>> \in claims' => RG!Checkable(r)'
      BY <1>0, <2>1, <3>3, <3>6 DEF RG!Said, RG!Checkable, RG!MatchingLocalDigest, RG!Matching
    <3>9. \A e, f \in Digests : <<r, e>> \in answered' /\ <<r, f>> \in answered' => e = f
      BY <3>1
    <3>10. <<r, "checked", TRUE>> \in claims' <=> \E e \in Digests : <<r, e>> \in answered'
      BY <2>1, <3>0, <3>1, <3>4
    <3> QED BY <3>4, <3>7, <3>8, <3>9, <3>10, Zenon DEF RG!Said
  <2> QED BY <1>0, <2>3, <2>5, <2>6, <2>7
<1> QED BY <1>1, <1>2, <1>3, <1>4, <1>5, <1>6 DEF RG!Next
LEMMA RegistryInit == ASSUME RG!Init PROVE RG!Inductive
<1> DEFINE n == Cardinality(Refs)
<1>1. n \in Nat /\ \E f \in [1 .. n -> Refs] : \A i, j \in 1 .. n : f[i] = f[j] => i = j
  <2>1. PICK m \in Nat : ExistsBijection(1 .. m, Refs)
    BY RegistryAssumption, FS_NatBijection
  <2>2. m = n
    BY <2>1, FS_CountingElements, RegistryAssumption
  <2> QED BY <2>1, <2>2 DEF ExistsBijection, Bijection, Injection, IsInjective, Surjection
<1>2. left \in [1 .. n -> Refs] /\ \A i, j \in 1 .. n : left[i] = left[j] => i = j
  <2>1. left = CHOOSE f \in [1 .. n -> Refs] : \A i, j \in 1 .. n : f[i] = f[j] => i = j
    <3>1. RG!Cardinality(Refs) = n
      BY DEF RG!Cardinality, Cardinality
    <3>2. \A f \in [1 .. n -> Refs] : RG!IsInjective(f) <=> \A i, j \in 1 .. n : f[i] = f[j] => i = j
      BY DEF RG!IsInjective
    <3>3. left = CHOOSE f \in [1 .. n -> Refs] : RG!IsInjective(f)
      BY <3>1 DEF RG!Init, RG!SetToSeq
    <3> HIDE DEF n
    <3> QED BY <3>2, <3>3
  <2> HIDE DEF n
  <2> QED BY <1>1, <2>1
<1>3. left \in Seq(Refs) /\ DOMAIN left = 1 .. n
  BY <1>1, <1>2
<1> DEFINE digests == [registry : {r.registry : r \in Refs}, path : {r.path : r \in Refs},
                       digest : Digests]
<1>4. local \in Seq(digests)
  <2>1. \E m \in 0 .. MaxLocal : local \in [1 .. m -> digests]
    BY DEF RG!Init, RG!SeqOf
  <2> HIDE DEF digests
  <2>2. PICK m \in Nat : local \in [1 .. m -> digests]
    BY <2>1, RegistryAssumption
  <2> QED BY <2>2
<1> HIDE DEF n, digests
<1>5. RG!TypeOK /\ RG!Unasked
  BY <1>2, <1>3 DEF RG!Init, RG!TypeOK, RG!Unasked
<1>6. \A r \in Refs : RG!Said(r)
  BY DEF RG!Init, RG!Said
<1> QED BY <1>4, <1>5, <1>6 DEF RG!Inductive, digests

(* A digest that is found is one of the reference's own repository, unless *)
(* the image has a twin.                                                   *)
LEMMA OwnDigest ==
  ASSUME RG!Inductive, NEW r \in Refs, ~RG!Twin(r), RG!MatchingLocalDigest(r) # RG!Unknown
  PROVE  RG!MatchingLocalDigest(r) \in RG!Own(r)
<1> DEFINE M == RG!Matching(r)
<1>1. M # {} /\ \A i \in M : i \in DOMAIN local /\ RG!SameRepository(r, local[i])
  BY DEF RG!MatchingLocalDigest, RG!Matching
<1>2. \E i \in M : \A j \in M : i <= j
  <2>1. M \in SUBSET Nat
    BY <1>1 DEF RG!Inductive
  <2> HIDE DEF M
  <2> QED BY <1>1, <2>1, LeastNat
<1>3. PICK i \in M : RG!MatchingLocalDigest(r) = local[i].digest
  <2>1. RG!MatchingLocalDigest(r) = local[CHOOSE i \in M : \A j \in M : i <= j].digest
    BY <1>1 DEF RG!MatchingLocalDigest
  <2> HIDE DEF M
  <2> QED BY <1>2, <2>1
<1>4. local[i] \in RG!ToSet(local)
  BY <1>1 DEF RG!ToSet
<1>5. local[i].path = r.path /\ local[i].registry = r.registry
  BY <1>1, <1>4 DEF RG!SameRepository, RG!Twin
<1> QED BY <1>3, <1>4, <1>5 DEF RG!Own

LEMMA RegistryHonest == ASSUME RG!Inductive PROVE RG!UpdatesHonest
<1> SUFFICES ASSUME NEW r \in Refs
    PROVE
    /\ \A value \in BOOLEAN : <<r, "update", value>> \in claims /\ ~RG!Twin(r) =>
         /\ RG!Own(r) # {} /\ \E d \in Digests : <<r, d>> \in answered
         /\ \A own, d \in Digests : RG!Own(r) = {own} /\ <<r, d>> \in answered => value = (own # d)
    /\ <<r, "checked", TRUE>> \in claims <=> \E d \in Digests : <<r, d>> \in answered
    /\ <<r, "checked", FALSE>> \in claims =>
         \A value \in BOOLEAN : <<r, "update", value>> \notin claims
    /\ r.registry = Hub /\ r.form = "bare" => <<r, "checkable", TRUE>> \notin claims
  BY DEF RG!UpdatesHonest
<1>1. RG!Said(r)
  BY DEF RG!Inductive
<1>2. ASSUME NEW value \in BOOLEAN, <<r, "update", value>> \in claims, ~RG!Twin(r)
      PROVE  /\ RG!Own(r) # {} /\ \E d \in Digests : <<r, d>> \in answered
             /\ \A own, d \in Digests : RG!Own(r) = {own} /\ <<r, d>> \in answered => value = (own # d)
  <2>1. RG!MatchingLocalDigest(r) # RG!Unknown
    BY <1>1, <1>2 DEF RG!Said
  <2>2. PICK d \in Digests : <<r, d>> \in answered /\ value = (RG!MatchingLocalDigest(r) # d)
    BY <1>1, <1>2 DEF RG!Said
  <2>3. RG!MatchingLocalDigest(r) \in RG!Own(r)
    BY <1>2, <2>1, OwnDigest
  <2>4. \A e \in Digests : <<r, e>> \in answered => e = d
    BY <1>1, <2>2 DEF RG!Said
  <2>5. ASSUME NEW own \in Digests, NEW e \in Digests, RG!Own(r) = {own}, <<r, e>> \in answered
        PROVE  value = (own # e)
    <3>1. own = RG!MatchingLocalDigest(r) /\ e = d
      BY <2>3, <2>4, <2>5
    <3> QED BY <2>2, <3>1, Zenon
  <2> QED BY <2>2, <2>3, <2>5
<1>3. r.registry = Hub /\ r.form = "bare" => <<r, "checkable", TRUE>> \notin claims
  BY <1>1 DEF RG!Said, RG!Checkable
<1>4. <<r, "checked", TRUE>> \in claims <=> \E d \in Digests : <<r, d>> \in answered
  BY <1>1 DEF RG!Said
<1>5. <<r, "checked", FALSE>> \in claims =>
         \A value \in BOOLEAN : <<r, "update", value>> \notin claims
  BY <1>1 DEF RG!Said
<1> QED BY <1>2, <1>3, <1>4, <1>5

LEMMA RegistryUnchanged == ASSUME RG!Inductive, UNCHANGED RG!vars PROVE RG!Inductive'
<1>1. UNCHANGED <<local, remote, alive, left, step, answered, claims>>
  BY DEF RG!vars, RG!world
<1>2. ASSUME NEW r \in Refs PROVE RG!MatchingLocalDigest(r)' = RG!MatchingLocalDigest(r)
  BY <1>1 DEF RG!MatchingLocalDigest, RG!Matching
<1>3. ASSUME NEW r \in Refs PROVE RG!Checkable(r)' = RG!Checkable(r)
  BY <1>2 DEF RG!Checkable
<1>4. RG!TypeOK'
  BY <1>1 DEF RG!Inductive, RG!TypeOK
<1>5. RG!Unasked'
  <2>1. step # "next" => Head(left) \in Refs
    BY DEF RG!Inductive, RG!TypeOK
  <2> QED BY <1>1, <1>3, <2>1 DEF RG!Inductive, RG!Unasked
<1>6. ASSUME NEW r \in Refs PROVE RG!Said(r)'
  BY <1>1, <1>2, <1>3 DEF RG!Inductive, RG!Said
<1> QED BY <1>1, <1>4, <1>5, <1>6 DEF RG!Inductive
-----------------------------------------------------------------------------
(* The programs together *)

Inductive ==
  /\ program = "PBS" => PB!Inductive
  /\ program = "ProxmoxHealth" => PH!Inductive
  /\ program = "Proxmox" => PX!Inductive
  /\ program = "Docker" => DK!Inductive
  /\ program = "PBSGroups" => PG!Inductive
  /\ program = "ProxmoxBackups" => PK!Inductive
  /\ program = "Registry" => RG!Inductive

LEMMA InitInductive == ASSUME Init PROVE Inductive
BY PBSInit, HealthInit, ProxmoxInit, DockerInit, GroupsInit, BackupsInit, RegistryInit
  DEF Init, Inductive, InitPBS, InitGroups, InitProxmox, InitHealth, InitBackups, InitDocker,
      InitRegistry

LEMMA NextInductive == ASSUME Inductive, [Next]_vars PROVE Inductive'
<1>1. CASE Next
  BY <1>1, PBSStep, HealthStep, ProxmoxStep, DockerStep, GroupsStep, BackupsStep, RegistryStep
    DEF Next, Inductive, PBSOnly, GroupsOnly, ProxmoxOnly, HealthOnly, BackupsOnly, DockerOnly,
        RegistryOnly
<1>2. CASE UNCHANGED vars
  <2>1. program' = program
    BY <1>2 DEF vars
  <2>2. CASE program = "PBS"
    <3>1. PB!Inductive /\ UNCHANGED PB!vars
      BY <1>2, <2>2 DEF Inductive, vars, ofPBS, ofEvents, PB!vars, PB!world, PB!lists
    <3>2. PB!Inductive'
      BY <3>1 DEF PB!vars, PB!world, PB!lists, PB!Inductive, PB!TypeOK, PB!Tracked, PB!Listed,
        PB!ReadLately, PB!EventsOnce
    <3> QED BY <2>1, <2>2, <3>2 DEF Inductive
  <2>3. CASE program = "ProxmoxHealth"
    <3>1. PH!Inductive /\ UNCHANGED PH!vars
      BY <1>2, <2>3 DEF Inductive, vars, ofHealth, ofEvents, PH!vars, PH!world
    <3>2. PH!Inductive'
      BY <3>1 DEF PH!vars, PH!world, PH!Inductive, PH!TypeOK, PH!Tracked, PH!Listed,
        PH!ReadLately, PH!EventsOnce, PH!CephCurrent
    <3> QED BY <2>1, <2>3, <3>2 DEF Inductive
  <2>4. CASE program = "Proxmox"
    <3>1. PX!Inductive /\ UNCHANGED PX!vars
      BY <1>2, <2>4 DEF Inductive, vars, ofProxmox, PX!vars
    <3>2. PX!Inductive'
      BY <3>1 DEF PX!vars, PX!Inductive, PX!TypeOK, PX!KnownEpochs, PX!ElectedNow,
        PX!OneReporter, PX!Quorate, PX!Elected, PX!Online, PX!Lowest
    <3> QED BY <2>1, <2>4, <3>2 DEF Inductive
  <2>5. CASE program = "Docker"
    <3>1. DK!Inductive /\ UNCHANGED DK!vars
      BY <1>2, <2>5 DEF Inductive, vars, ofDocker, DK!vars, DK!pool
    <3>2. DK!Inductive'
      <4>1. UNCHANGED <<DK!Out, DK!Held, DK!Done, DK!UniqueImages>>
        BY <3>1 DEF DK!vars, DK!pool, DK!Out, DK!Held, DK!Done, DK!UniqueImages,
          DK!References, DK!First, DK!Users, DK!Before
      <4> QED BY <3>1, <4>1 DEF DK!vars, DK!pool, DK!Inductive, DK!TypeOK, DK!ToSet,
          DK!Fresh, DK!Listed, DK!NoneTwice, DK!Ends
    <3> QED BY <2>1, <2>5, <3>2 DEF Inductive
  <2>6. CASE program = "PBSGroups"
    <3>1. PG!Inductive /\ UNCHANGED PG!vars
      BY <1>2, <2>6 DEF Inductive, vars, ofGroups, PG!vars, PG!scan
    <3>2. PG!Inductive'
      BY <3>1, GroupsUnchanged
    <3> QED BY <2>1, <2>6, <3>2 DEF Inductive
  <2>7. CASE program = "ProxmoxBackups"
    <3>1. PK!Inductive /\ UNCHANGED PK!vars
      BY <1>2, <2>7 DEF Inductive, vars, ofBackups, PK!vars
    <3>2. PK!Inductive'
      BY <3>1, BackupsUnchanged
    <3> QED BY <2>1, <2>7, <3>2 DEF Inductive
  <2>8. CASE program = "Registry"
    <3>1. RG!Inductive /\ UNCHANGED RG!vars
      BY <1>2, <2>8 DEF Inductive, vars, ofRegistry, RG!vars, RG!world
    <3>2. RG!Inductive'
      BY <3>1, RegistryUnchanged
    <3> QED BY <2>1, <2>8, <3>2 DEF Inductive
  <2>9. program \notin {"PBS", "ProxmoxHealth", "Proxmox", "Docker", "PBSGroups",
                        "ProxmoxBackups", "Registry"} => Inductive'
    BY <2>1 DEF Inductive
  <2> QED BY <2>2, <2>3, <2>4, <2>5, <2>6, <2>7, <2>8, <2>9
<1> QED BY <1>1, <1>2

THEOREM Invariant == Spec => []Inductive
BY InitInductive, NextInductive, PTL DEF Spec
-----------------------------------------------------------------------------
(* A process queues no failure of a backup server's tasks or jobs, nor of  *)
(* a cluster's tasks or backups, twice while the server lists it and it    *)
(* has a UPID: for any number of failures, any limit of the lists and of a *)
(* batch, whatever leaves the lists and returns and whatever reads fail.   *)
THEOREM FailuresAreSentOnce == Spec => []EventsOnce
<1>1. Inductive => EventsOnce
  BY DEF Inductive, EventsOnce, PB!Inductive, PH!Inductive
<1> QED BY <1>1, Invariant, PTL

(* No two agents report a cluster's data under the same membership, for    *)
(* every finite set of nodes, whatever their IDs and names, wherever the   *)
(* partitions run and whenever each of them reads its status.              *)
THEOREM OneAgentReports == Spec => []OneReporter
<1>1. Inductive => OneReporter
  BY DEF Inductive, OneReporter, PX!Inductive
<1> QED BY <1>1, Invariant, PTL

(* A scan of backup groups, a cluster's phases and an image's update check *)
(* claim nothing that they have not seen: whatever the datastores,         *)
(* namespaces, guests, jobs and references are and whichever reads fail.   *)
THEOREM NothingIsInvented == Spec => []NothingInvented
<1>1. Inductive => NothingInvented
  <2>1. PG!Inductive => PG!TypeOK /\ PG!GroupsHonest
    BY GroupsHonest DEF PG!Inductive
  <2>2. PK!Inductive => PK!TypeOK /\ PK!NothingInvented
    BY BackupsHonest DEF PK!Inductive
  <2>3. RG!Inductive => RG!TypeOK /\ RG!UpdatesHonest
    BY RegistryHonest DEF RG!Inductive
  <2> QED BY <2>1, <2>2, <2>3 DEF Inductive, NothingInvented
<1> QED BY <1>1, Invariant, PTL

(* Ceph's resource never stays available after a query that failed.        *)
THEOREM CephIsCurrent == Spec => []CephCurrent
<1>1. Inductive => CephCurrent
  BY DEF Inductive, CephCurrent, PH!Inductive
<1> QED BY <1>1, Invariant, PTL

(* A collection of containers, their statistics or their images takes no   *)
(* job twice, leaves no request under way, and has the result of every job *)
(* unless it counts as failed: for any fleet, any number of workers and    *)
(* wherever the context ends.                                              *)
THEOREM CollectionsAreComplete == Spec => []ResultsComplete
<1>1. Inductive => ResultsComplete
  BY DockerComplete DEF Inductive, ResultsComplete, DK!Inductive
<1> QED BY <1>1, Invariant, PTL

(* A reference that several containers use, an old image and its           *)
(* replacement, has one series, the running container's if one runs.       *)
THEOREM ReferencesHaveOneSeries == Spec => []OneSeries
<1>1. Inductive => OneSeries
  BY DockerOneSeries DEF Inductive, OneSeries
<1> QED BY <1>1, Invariant, PTL
=============================================================================
