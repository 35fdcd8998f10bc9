-------------------------------- MODULE PBS --------------------------------
(***************************************************************************)
(* The Proxmox Backup Server collector (internal/modules/pbs/pbs.go):      *)
(* availability, failed jobs and failed tasks, each of them reported once  *)
(* while the server lists it.  The scan of backup groups is in PBSGroups.  *)
(*                                                                         *)
(* Tasks are numbered in the order they start; some are runs of a job.     *)
(* The task list holds recent ones, newest first, and the job list the     *)
(* last run of the job; what they hold may leave and return.  An event is  *)
(* a pair of its kind and its task.                                        *)
(***************************************************************************)
EXTENDS Integers, FiniteSets

CONSTANTS
  Tasks,      \* bound: the number of tasks the server runs
  JobRuns,    \* which of them are runs of the job
  Nameless,   \* external: which of them are listed without a UPID
  ListLimit,  \* the 50 of /nodes/localhost/tasks?limit=50
  MaxEvents   \* the 10 task events of a batch

VARIABLES
  command,    \* the PBS command: "works", "fails" or "missing"
  started,    \* external: how many tasks have started
  status,     \* external: taskStatusClass of each
  shown,      \* external: the tasks the task list holds
  runs,       \* external: the run the job list holds, if any
  pc,         \* where the jobs phase is
  jobsRead,   \* what collectJobs returned: [current, failed, complete]
  available,  \* the last pbs.available sent ("no" when none was)
  seen,       \* seenJobs and seenTasks
  batch,      \* the events of the batch that is being queued
  sent        \* history: the events this process has queued, listed ever since

lists == <<shown, runs>>
world == <<command, started, status, lists>>
vars == <<world, pc, jobsRead, available, seen, batch, sent>>
-----------------------------------------------------------------------------
Events == {"job", "task"} \X (1 .. Tasks)
NoJobs == [current |-> {}, failed |-> {}, complete |-> FALSE]

(* client() looks for the command; a request, Client.get, runs it within a *)
(* timeout and fails with it.                                              *)
Found == command # "missing"
Answers == command = "works"

Newest(tasks) == {t \in tasks : Cardinality({u \in tasks : u > t}) < ListLimit}
FailedTasks == {t \in shown : status[t] = "error"}
LastRun == {t \in JobRuns \cap 1 .. started : \A u \in JobRuns \cap 1 .. started : u <= t}

(* emitJobs: a last run counts as failed once it has ended. *)
FailedJobs == {t \in runs : status[t] = "error"}

Listed(e) == e[2] \in (IF e[1] = "task" THEN shown ELSE runs)

(* collectTasks and deduplicate: the failures that are new, newest first,  *)
(* up to the limit.  Mutant: those reported before count, too.             *)
Reported_CountsAll(failed) ==
  {t \in failed : <<"task", t>> \notin seen /\
                  Cardinality({u \in failed : u > t}) < MaxEvents}
Reported(failed) ==
  LET new == {t \in failed : <<"task", t>> \notin seen}
  IN {t \in new : Cardinality({u \in new : u > t}) < MaxEvents}

(* What remains of seen: entries are forgotten when a list that was read   *)
(* in full no longer has them.  Mutant: or could not be read.              *)
Remembered_Failed(marked, tasksOK) ==
  {e \in marked : IF e[1] = "task" THEN tasksOK /\ e[2] \in shown
                  ELSE e[2] \in jobsRead.current}
Remembered(marked, tasksOK) ==
  {e \in marked : IF e[1] = "task" THEN tasksOK => e[2] \in shown
                  ELSE jobsRead.complete => e[2] \in jobsRead.current}

(* A process starts with whatever the lists hold. *)
Init ==
  /\ command = "works" /\ started \in 0 .. Tasks
  /\ status \in {s \in [1 .. Tasks -> {"none", "ok", "error"}] :
                    \A t \in 1 .. Tasks : s[t] = "none" <=> t > started}
  /\ shown \in SUBSET (1 .. started) /\ Cardinality(shown) <= ListLimit /\ runs \in {{}, LastRun}
  /\ pc = "idle" /\ jobsRead = NoJobs /\ available \in {"yes", "no"}
  /\ seen = {} /\ batch = {} /\ sent = {}

(* External: the server, whose job has one run at a time. *)
Leave == sent' = {e \in sent : Listed(e)'}
StartTask ==
  /\ started < Tasks
  /\ started + 1 \in JobRuns => \A t \in LastRun : status[t] # "running"
  /\ started' = started + 1
  /\ status' = [status EXCEPT ![started + 1] = "running"]
  /\ shown' = Newest(shown \cup {started + 1})
  /\ runs' = IF started + 1 \in JobRuns THEN {started + 1} ELSE runs
  /\ Leave
  /\ UNCHANGED <<command, pc, jobsRead, available, seen, batch>>
(* Tasks and the job's result leave the lists and return to them. *)
ListsChange ==
  /\ \/ \E t \in 1 .. started : shown' \in {shown \ {t}, Newest(shown \cup {t})} /\ runs' = runs
     \/ runs' \in {{}, LastRun} /\ shown' = shown
  /\ Leave
  /\ UNCHANGED <<command, started, status, pc, jobsRead, available, seen, batch>>
EndTask ==
  /\ \E t \in 1 .. Tasks, r \in {"ok", "error"} :
       status[t] = "running" /\ status' = [status EXCEPT ![t] = r]
  /\ UNCHANGED <<command, started, lists, pc, jobsRead, available, seen, batch, sent>>
CommandChanges ==
  /\ command' \in {"works", "fails", "missing"} \ {command}
  /\ UNCHANGED <<started, status, lists, pc, jobsRead, available, seen, batch, sent>>

(* The version and datastores phases: client(), collectVersion,            *)
(* collectDatastoreUsage.                                                  *)
CheckAvailable ==
  /\ pc = "idle" /\ available' = IF Answers THEN "yes" ELSE "no"
  /\ UNCHANGED <<world, pc, jobsRead, seen, batch, sent>>

(* The jobs phase without a command ends at once. *)
NoCommand ==
  /\ pc = "idle" /\ ~Found /\ available' = "no"
  /\ UNCHANGED <<world, pc, jobsRead, seen, batch, sent>>

(* collectJobs: one list per kind and the GC status of each datastore, any *)
(* of which may fail.                                                      *)
CollectJobs ==
  /\ pc = "idle" /\ Found /\ pc' = "tasks"
  /\ jobsRead' \in
       IF Answers
       THEN {[current |-> runs, failed |-> FailedJobs, complete |-> c] : c \in BOOLEAN}
       ELSE {NoJobs}
  /\ UNCHANGED <<world, available, seen, batch, sent>>

(* collectTasks and deduplicate, which is the last step of the phase.      *)
(* Without a UPID an event is never marked as seen.                        *)
CollectTasks ==
  /\ pc = "tasks" /\ pc' = "built"
  /\ LET tasksOK == Answers
         tasks == IF tasksOK THEN Reported(FailedTasks) ELSE {}
         events == ({"task"} \X tasks) \cup (({"job"} \X jobsRead.failed) \ seen)
         named == {e \in events : e[2] \notin Nameless}
     IN batch' = events /\ seen' = Remembered(seen \cup named, tasksOK)
  /\ jobsRead' = NoJobs
  /\ UNCHANGED <<world, available, sent>>

Built == pc = "built" /\ pc' = "idle" /\ batch' = {}

(* The runner validates the batch, the agent queues it.  If either fails   *)
(* its events are lost, for they stay marked as seen.                      *)
Queue ==
  /\ Built /\ sent' = {e \in sent \cup batch : Listed(e)}
  /\ UNCHANGED <<world, jobsRead, available, seen>>
Lose ==
  /\ Built
  /\ UNCHANGED <<world, jobsRead, available, seen, sent>>

Next ==
  \/ StartTask \/ EndTask \/ ListsChange \/ CommandChanges
  \/ CheckAvailable \/ NoCommand \/ CollectJobs \/ CollectTasks \/ Queue \/ Lose

(* The runner starts each phase again and again (Runner!NoStarvation).     *)
Step == CollectTasks \/ Queue \/ Lose
Fairness == SF_vars(CheckAvailable) /\ SF_vars(CollectJobs) /\ WF_vars(Step)
Spec == Init /\ [][Next]_vars /\ Fairness
-----------------------------------------------------------------------------
(* Only known values. *)
TypeOK ==
  /\ command \in {"works", "fails", "missing"} /\ started \in 0 .. Tasks
  /\ status \in [1 .. Tasks -> {"none", "running", "ok", "error"}]
  /\ pc \in {"idle", "tasks", "built"} /\ available \in {"yes", "no"}
  /\ jobsRead \in [current : SUBSET JobRuns, failed : SUBSET JobRuns, complete : BOOLEAN]
  /\ shown \subseteq 1 .. started /\ runs \subseteq JobRuns \cap 1 .. started
  /\ seen \cup batch \cup sent \subseteq Events

(* A process queues the failure of a task, and of a job's run, only once   *)
(* while the lists hold it, whatever reads fail in between.  What may      *)
(* repeat is what left the lists and returned (module-pbs.md:93) and what  *)
(* has no UPID to tell it by (pbs.go:913).                                 *)
EventsOnce == \A e \in batch \cap sent : e[2] \in Nameless

(* Once the command works and the lists are steady, the collector catches  *)
(* up: the server is available again and every failure that is listed has  *)
(* been taken up, the ones beyond the limit of a batch in later batches.   *)
(* Failures without a UPID take their places in every batch: there are to  *)
(* be fewer than the limit.                                                *)
Works == Answers /\ Cardinality(FailedTasks \cap Nameless) < MaxEvents
CaughtUp ==
  /\ available = "yes"
  /\ {"task"} \X (FailedTasks \ Nameless) \cup {"job"} \X (FailedJobs \ Nameless) \subseteq seen
CatchesUp == <>[]Works /\ <>[][FALSE]_lists => <>[]CaughtUp
-----------------------------------------------------------------------------
(* The inductive invariant of EventsOnce, see ServersProofs.               *)

(* An event that was queued and listed ever since has stayed in seen, and  *)
(* the jobs in hand, read after it was queued, have it.                    *)
Tracked == \A e \in sent : Listed(e) /\ (e[2] \in Nameless \/ e \in seen)
ReadLately ==
  jobsRead.complete => \A e \in sent : e[1] = "job" => e[2] \in Nameless \/ e[2] \in jobsRead.current

Inductive ==
  /\ TypeOK /\ Tracked /\ ReadLately
  /\ jobsRead.failed \subseteq jobsRead.current
  /\ \A t \in jobsRead.failed : t \in JobRuns \cap 1 .. started
  /\ pc # "built" => batch = {}
  /\ pc = "built" => jobsRead = NoJobs
  /\ \A e \in batch : e[2] \in Nameless \/ e \in seen
  /\ EventsOnce
=============================================================================
