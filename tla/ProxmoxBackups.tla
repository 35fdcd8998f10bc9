--------------------------- MODULE ProxmoxBackups ---------------------------
(***************************************************************************)
(* What the phases of the elected Proxmox VE agent say of guests           *)
(* (internal/modules/proxmox/proxmox.go): their presence and HA state, the *)
(* jobs that back them up, the storages and the newest backups there.      *)
(* Each query can fail, and what failed must not be reported as an absence. *)
(***************************************************************************)
EXTENDS Integers, FiniteSets

CONSTANTS
  Guests,   \* [id, node, pool, template]
  Jobs,     \* the jobs there may be: [id, enabled, node, all, vmids, pool, exclude]
  Storages, \* [name, pbs, shared, usable]
  Services  \* the numbers HA may list, of guests, templates and others

VARIABLES
  phase,     \* "health", "resources" or "backups"
  elected,   \* whether this node is elected; only "resources" goes on if not
  jobs,      \* external: the jobs that are configured
  backedUp,  \* external: the guests with a backup on each storage
  pc,        \* the query that comes next
  read,      \* the queries that have been answered, <<query>> or <<"content", storage>>
  failed,    \* the queries whose failure has been reported
  claims     \* what the batch says, with the subject and the value

vars == <<phase, elected, jobs, backedUp, pc, read, failed, claims>>
-----------------------------------------------------------------------------
Named(name) == CHOOSE s \in Storages : s.name = name
Names == {s.name : s \in Storages}
Real == {g \in Guests : ~g.template}

(* BackupJob.selects; a job without a node is one for all of them.         *)
Selects(j, g) ==
  /\ j.enabled /\ j.node \in {"", g.node} /\ g.id \notin j.exclude
  /\ j.all \/ g.id \in j.vmids \/ (j.pool # "" /\ j.pool = g.pool)

(* The storages whose content is listed, and those this node reports.      *)
Listable == {s.name : s \in {t \in Storages : t.pbs /\ t.usable}}
Mine == {s.name : s \in {t \in Storages : t.shared => elected}}

Init ==
  /\ phase \in {"health", "resources", "backups"} /\ elected \in BOOLEAN
  /\ phase # "resources" => elected
  /\ jobs \in SUBSET Jobs /\ backedUp \in [Listable -> SUBSET {g.id : g \in Real}]
  /\ phase # "backups" => jobs = {} /\ backedUp = [s \in Listable |-> {}]
  /\ pc = (IF phase = "resources" THEN "storage" ELSE "guests")
  /\ read = {} /\ failed = {} /\ claims = {}

Answered(query, next, said) ==
  /\ pc = query /\ pc' = next
  /\ read' = read \cup {<<query>>} /\ claims' = claims \cup said
  /\ UNCHANGED <<phase, elected, jobs, backedUp, failed>>
Fails(query, next) ==
  /\ pc = query /\ pc' = next /\ failed' = failed \cup {<<query>>}
  /\ UNCHANGED <<phase, elected, jobs, backedUp, read, claims>>

(* collectStorage in the resources phase. *)
AfterStorage == IF elected THEN "guests" ELSE "done"
CollectStorage ==
  /\ phase = "resources"
  /\ \/ Answered("storage", AfterStorage, {<<"storage", s, Named(s).usable>> : s \in Mine})
     \/ Fails("storage", AfterStorage)

(* /cluster/resources and emitGuests: without guests nothing follows. *)
Present == {<<"guest", g.id, TRUE>> : g \in Real}
AfterGuests == IF phase = "health" THEN "ha" ELSE "done"
GetGuests ==
  \/ /\ phase # "backups"
     /\ Answered("guests", AfterGuests, Present)
  \/ phase = "backups" /\ Answered("guests", "jobs", {})
  \/ Fails("guests", "done")

(* collectHA: the services that are guests. *)
GetHA ==
  \/ \E managed \in SUBSET Services :
       Answered("ha", "done", {<<"ha", g.id, TRUE>> : g \in {r \in Real : r.id \in managed}})
  \/ Fails("ha", "done")

(* collectBackups: coverage, from the jobs alone. *)
Covered == {<<"covered", g.id, \E j \in jobs : Selects(j, g)>> : g \in Real}
GetJobs ==
  \/ Answered("jobs", "stores", Covered)
  \/ Fails("jobs", "stores")

(* The storages again, for their content, one after the other. *)
Unlisted == {s \in Listable : <<"content", s>> \notin read \cup failed}
GetStores ==
  \/ Answered("stores", IF Listable = {} THEN "done" ELSE "content", {})
  \/ Fails("stores", "done")

(* A storage that cannot be listed is left out.                            *)
Content(s) == {<<"backup", <<g.id, s>>, g.id \in backedUp[s]>> : g \in Real}
ContentFails(s) == failed' = failed \cup {<<"content", s>>} /\ UNCHANGED <<read, claims>>
GetContent ==
  /\ pc = "content"
  /\ \E s \in Unlisted :
       /\ \/ /\ read' = read \cup {<<"content", s>>} /\ claims' = claims \cup Content(s)
             /\ UNCHANGED failed
          \/ ContentFails(s)
       /\ pc' = IF Unlisted = {s} THEN "done" ELSE "content"
  /\ UNCHANGED <<phase, elected, jobs, backedUp>>

Next == CollectStorage \/ GetGuests \/ GetHA \/ GetJobs \/ GetStores \/ GetContent
Spec == Init /\ [][Next]_vars
-----------------------------------------------------------------------------
(* Only known values. *)
TypeOK ==
  /\ phase \in {"health", "resources", "backups"} /\ elected \in BOOLEAN
  /\ jobs \subseteq Jobs /\ backedUp \in [Listable -> SUBSET {g.id : g \in Real}]
  /\ pc \in {"storage", "guests", "ha", "jobs", "stores", "content", "done"}
  /\ read \cup failed \subseteq {<<q>> : q \in {"storage", "guests", "ha", "jobs", "stores"}} \cup
                             {<<"content", s>> : s \in Names}
  /\ read \cap failed = {}

(* A guest is protected if some enabled job asks for it, by its number,    *)
(* its pool or as one of all, where it runs, and does not exclude it.      *)
Protected(id) ==
  \E j \in jobs, g \in Real :
    /\ g.id = id /\ j.enabled /\ (j.node = "" \/ j.node = g.node) /\ id \notin j.exclude
    /\ \/ j.all
       \/ id \in j.vmids
       \/ j.pool = g.pool /\ j.pool # ""

(* "Query failures emit an event and do not invent a result": a finished   *)
(* phase calls a guest unprotected, or without a backup on a storage, only *)
(* if the query that shows it was answered; a guest has one statement of   *)
(* each kind at most; and a missing statement goes with a reported failure. *)
NothingInvented ==
  /\ \A c \in claims :
       CASE c[1] = "covered" -> <<"jobs">> \in read /\ c[3] = Protected(c[2])
         [] c[1] = "backup" -> <<"content", c[2][2]>> \in read /\ c[3] = (c[2][1] \in backedUp[c[2][2]])
         [] c[1] = "guest" -> <<"guests">> \in read
         [] c[1] = "ha" -> <<"ha">> \in read /\ <<"guest", c[2], TRUE>> \in claims
         [] c[1] = "storage" -> <<"storage">> \in read /\ (Named(c[2]).shared => elected)
  /\ \A c, d \in claims : c[1] = d[1] /\ c[2] = d[2] => c[3] = d[3]
  /\ pc = "done" /\ failed = {} /\ phase = "backups" =>
       \A g \in Real : /\ \E c \in claims : c[1] = "covered" /\ c[2] = g.id
                       /\ \A s \in Listable : \E c \in claims : c[1] = "backup" /\ c[2] = <<g.id, s>>
-----------------------------------------------------------------------------
(* The inductive invariant of NothingInvented, see ServersProofs.          *)

(* The queries go one way. *)
Turn == [storage |-> 1, guests |-> 2, ha |-> 3, jobs |-> 4, stores |-> 5, content |-> 6, done |-> 7]
InTurn ==
  /\ \A q \in read \cup failed : Turn[q[1]] < Turn[pc] \/ (pc = "content" /\ q[1] = "content")
  /\ pc = "ha" => phase = "health" /\ <<"guests">> \in read

(* What a statement says follows from its kind and its subject. *)
Sound(c) ==
  \/ c[1] = "covered" /\ <<"jobs">> \in read /\ c[3] = Protected(c[2])
  \/ /\ c[1] = "backup" /\ <<"content", c[2][2]>> \in read
     /\ c[3] = (c[2][1] \in backedUp[c[2][2]])
  \/ c[1] = "guest" /\ <<"guests">> \in read /\ c[3] = TRUE
  \/ c[1] = "ha" /\ <<"ha">> \in read /\ <<"guest", c[2], TRUE>> \in claims /\ c[3] = TRUE
  \/ /\ c[1] = "storage" /\ <<"storage">> \in read /\ (Named(c[2]).shared => elected)
     /\ c[3] = Named(c[2]).usable

(* What an answer shows is said. *)
AllSaid ==
  /\ <<"guests">> \in read /\ phase # "backups" => Present \subseteq claims
  /\ <<"jobs">> \in read => Covered \subseteq claims
  /\ \A s \in Listable : <<"content", s>> \in read => Content(s) \subseteq claims
  /\ phase = "backups" /\ failed = {} =>
       /\ pc \in {"stores", "content", "done"} => <<"jobs">> \in read
       /\ pc = "done" => Unlisted = {}
  /\ phase = "backups" => pc \in {"guests", "jobs", "stores", "content", "done"}

Inductive == TypeOK /\ InTurn /\ (\A c \in claims : Sound(c)) /\ AllSaid
=============================================================================
