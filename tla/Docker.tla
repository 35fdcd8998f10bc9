------------------------------- MODULE Docker -------------------------------
(***************************************************************************)
(* The Docker collectors (internal/modules/docker/docker.go): container    *)
(* states, container stats and the image inventory.  Each lists the        *)
(* containers and hands its jobs to a pool of workers, whose requests can  *)
(* fail and whose context can end at any time.                             *)
(***************************************************************************)
EXTENDS Integers, Sequences, FiniteSets, SequencesExt

CONSTANTS
  Workers,    \* the workers a pool may have: 1 .. concurrency
  Containers, \* their numbers, in the order of the daemon's list
  Images,     \* image IDs, ordered
  Keys,       \* the references of containers' images, in normal form
  Fleets      \* the fleets there may be, see fleet

NoImage == 0

VARIABLES
  phase,    \* which collector: "containers", "stats" or "images"
  fleet,    \* external: [container -> [image, key, running]]
  ctx,      \* whether the collection's context is still alive
  jobs,     \* the jobs to hand out, or Unlisted
  next,     \* how many have been handed out
  closed,   \* whether the jobs channel is closed
  worker,   \* per worker: Absent, Idle, Gone, or its job
  busy,     \* the workers whose request is under way
  results,  \* the results channel: a sequence of [job, ok]
  outcome   \* what Collect returned: "none", "ok" or "error"

pool == <<jobs, next, closed, worker, busy, results>>
vars == <<phase, fleet, ctx, pool, outcome>>
-----------------------------------------------------------------------------
Unlisted == <<-1>>
Absent == -1  \* workers that have not been started, wait, or have left
Idle == -2
Gone == -3
Job == Containers \cup Images

(* The order of uniqueImageJobs: running containers first, then image IDs. *)
(* Mutant: image IDs alone.                                                *)
Before_Images(c, d) ==
  \/ fleet[c].image < fleet[d].image
  \/ fleet[c].image = fleet[d].image /\ c < d
Before(c, d) ==
  \/ fleet[c].running /\ ~fleet[d].running
  \/ fleet[c].running = fleet[d].running /\ fleet[c].image < fleet[d].image
  \/ fleet[c].running = fleet[d].running /\ fleet[c].image = fleet[d].image /\ c < d

(* uniqueImageJobs: each reference goes to the first container that has it *)
(* and an image.                                                           *)
Users(key) == {c \in Containers : fleet[c].key = key /\ fleet[c].image # NoImage}
First(key) == {c \in Users(key) : \A d \in Users(key) \ {c} : Before(c, d)}
References(image) == {k \in Keys : \E c \in First(k) : fleet[c].image = image}
UniqueImages == {image \in Images : References(image) # {}}

InOrder(S) ==
  CHOOSE s \in [1 .. Cardinality(S) -> S] : \A i, j \in 1 .. Cardinality(S) : i < j => s[i] < s[j]
Wanted ==
  CASE phase = "containers" -> InOrder(Containers)
    [] phase = "stats" -> InOrder({c \in Containers : fleet[c].running})
    [] phase = "images" -> InOrder(UniqueImages)

Init ==
  /\ phase \in {"containers", "stats", "images"} /\ ctx = TRUE
  /\ fleet \in Fleets
  /\ phase # "images" => \A c, d \in Containers :
                            fleet[c].image # NoImage /\ fleet[c].image = fleet[d].image
                              /\ fleet[c].key = fleet[d].key
  /\ jobs = Unlisted /\ next = 0 /\ closed = FALSE
  /\ worker = [w \in Workers |-> Absent] /\ busy = {} /\ results = <<>> /\ outcome = "none"

Expire == ctx /\ outcome = "none" /\ ctx' = FALSE /\ UNCHANGED <<phase, fleet, pool, outcome>>

(* The list of containers.  The states collector reports a failure as an   *)
(* unavailable daemon, the stats collector as an event, and only the       *)
(* inventory as an error.                                                  *)
ListFails ==
  /\ jobs = Unlisted /\ outcome = "none"
  /\ outcome' = IF phase = "images" \/ ~ctx THEN "error" ELSE "ok"
  /\ UNCHANGED <<phase, fleet, ctx, pool>>
List ==
  /\ jobs = Unlisted /\ outcome = "none" /\ ctx /\ jobs' = Wanted
  /\ worker' = [w \in Workers |-> IF w <= Len(Wanted) THEN Idle ELSE Absent]
  /\ UNCHANGED <<phase, fleet, ctx, next, closed, busy, results, outcome>>

Dispatching == jobs # Unlisted /\ ~closed
Dispatch(w) ==
  /\ Dispatching /\ next < Len(jobs) /\ worker[w] = Idle
  /\ worker' = [worker EXCEPT ![w] = jobs[next + 1]] /\ next' = next + 1
  /\ UNCHANGED <<phase, fleet, ctx, jobs, closed, busy, results, outcome>>

(* After the last job, or when the context ends.  Mutant: only then.       *)
MayClose_All == next = Len(jobs)
MayClose == next = Len(jobs) \/ ~ctx
Close ==
  /\ Dispatching /\ MayClose /\ closed' = TRUE
  /\ UNCHANGED <<phase, fleet, ctx, jobs, next, worker, busy, results, outcome>>

(* A worker looks at the context before it begins a job, and leaves when   *)
(* it has ended or the channel is closed and empty.                        *)
Work(w) ==
  /\ worker[w] \in Job /\ w \notin busy
  /\ IF ctx THEN busy' = busy \cup {w} /\ UNCHANGED worker
     ELSE worker' = [worker EXCEPT ![w] = Gone] /\ UNCHANGED busy
  /\ UNCHANGED <<phase, fleet, ctx, jobs, next, closed, results, outcome>>
Leave(w) ==
  /\ worker[w] = Idle /\ closed /\ worker' = [worker EXCEPT ![w] = Gone]
  /\ UNCHANGED <<phase, fleet, ctx, jobs, next, closed, busy, results, outcome>>

(* The request ends, by the end of the context at the latest, and the      *)
(* result of the job, which may say that it failed, goes into the channel  *)
(* of results, which nobody reads before the workers are done.             *)
Capacity == Len(jobs)
Result(w, ok) ==
  /\ w \in busy /\ (ok => ctx) /\ Len(results) < Capacity
  /\ results' = Append(results, [job |-> worker[w], ok |-> ok])
  /\ worker' = [worker EXCEPT ![w] = Idle] /\ busy' = busy \ {w}
  /\ UNCHANGED <<phase, fleet, ctx, jobs, next, closed, outcome>>

(* wg.Wait, and what the collector and the runner return: an error if the  *)
(* context has ended (runner.go adds it where a collector does not).       *)
(* Mutant: no one does.                                                    *)
Failed_Never == FALSE
Failed == ~ctx
Return ==
  /\ closed /\ outcome = "none" /\ \A w \in Workers : worker[w] \in {Absent, Gone}
  /\ outcome' = IF Failed THEN "error" ELSE "ok"
  /\ UNCHANGED <<phase, fleet, ctx, pool>>

Next ==
  \/ Expire \/ ListFails \/ List \/ Close \/ Return
  \/ \E w \in Workers :
       Dispatch(w) \/ Work(w) \/ Leave(w) \/ \E ok \in BOOLEAN : Result(w, ok)

Fairness ==
  /\ WF_vars(List \/ ListFails) /\ WF_vars(Close) /\ WF_vars(Return)
  /\ \A w \in Workers :
       /\ WF_vars(Dispatch(w)) /\ WF_vars(Work(w)) /\ WF_vars(Leave(w))
       /\ WF_vars(\E ok \in BOOLEAN : Result(w, ok))
Spec == Init /\ [][Next]_vars /\ Fairness
-----------------------------------------------------------------------------
(* Only known values; only a worker with a job is busy. *)
TypeOK ==
  /\ phase \in {"containers", "stats", "images"} /\ ctx \in BOOLEAN /\ closed \in BOOLEAN
  /\ jobs = Unlisted \/ ToSet(jobs) \subseteq Job
  /\ next \in 0 .. Cardinality(Job)
  /\ \A w \in Workers : worker[w] \in {Absent, Idle, Gone} \cup Job
  /\ busy \subseteq {w \in Workers : worker[w] \in Job}
  /\ outcome \in {"none", "ok", "error"}

(* A collection always returns: no worker waits for a job or for room for  *)
(* its result that never comes, wherever the context ends.                 *)
Returned == outcome # "none"
PoolReturns == <>Returned

(* What a collection returns: no job twice, no worker left behind, and     *)
(* every job has its result unless the collection counts as failed.        *)
ResultsComplete ==
  outcome # "none" /\ jobs # Unlisted =>
    /\ \A i, j \in DOMAIN results : results[i].job = results[j].job => i = j
    /\ busy = {}
    /\ outcome = "ok" => {results[i].job : i \in DOMAIN results} = ToSet(jobs)

(* A reference that several containers use, an old image and its           *)
(* replacement, has one series: the image of a running container if one    *)
(* runs.                                                                   *)
OneSeries ==
  phase = "images" /\ jobs # Unlisted =>
    \A k \in Keys :
      LET images == {i \in ToSet(jobs) : k \in References(i)}
      IN /\ Cardinality(images) = IF Users(k) = {} THEN 0 ELSE 1
         /\ (\E c \in Users(k) : fleet[c].running) =>
              \E c \in Users(k) : fleet[c].running /\ images = {fleet[c].image}
-----------------------------------------------------------------------------
(* The inductive invariant of ResultsComplete and OneSeries, see           *)
(* ServersProofs.                                                          *)

(* Jobs that were handed out, are held by a worker, have their result. *)
Out == {jobs[i] : i \in 1 .. next}
Held == {worker[w] : w \in Workers} \cap Job
Done == {results[i].job : i \in DOMAIN results}

Fresh ==
  jobs = Unlisted =>
    /\ next = 0 /\ ~closed /\ busy = {} /\ results = <<>>
    /\ \A w \in Workers : worker[w] = Absent

(* The jobs in hand are the ones that are wanted, none of them twice. *)
Listed ==
  jobs # Unlisted =>
    /\ jobs \in Seq(Job) /\ next <= Len(jobs) /\ Len(jobs) <= Cardinality(Job)
    /\ \A i, j \in DOMAIN jobs : jobs[i] = jobs[j] => i = j
    /\ phase = "images" => ToSet(jobs) = UniqueImages

(* A job that is out is with one worker or done; only the end of the       *)
(* context makes a worker drop it.                                         *)
NoneTwice ==
  jobs # Unlisted =>
    /\ Held \cup Done \subseteq Out /\ Held \cap Done = {}
    /\ \A v, w \in Workers : worker[v] = worker[w] /\ worker[v] \in Job => v = w
    /\ \A i, j \in DOMAIN results : results[i].job = results[j].job => i = j
    /\ ctx => Out \subseteq Held \cup Done

Ends ==
  jobs # Unlisted =>
    /\ closed => next = Len(jobs) \/ ~ctx
    /\ outcome # "none" => closed /\ \A w \in Workers : worker[w] \in {Absent, Gone}
    /\ outcome = "ok" => ctx

Inductive ==
  /\ TypeOK /\ fleet \in Fleets /\ worker \in [Workers -> {Absent, Idle, Gone} \cup Job]
  /\ results \in Seq([job : Job, ok : BOOLEAN])
  /\ Fresh /\ Listed /\ NoneTwice /\ Ends
=============================================================================
