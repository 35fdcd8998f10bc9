--------------------------- MODULE SpoolProperties ---------------------------
(***************************************************************************)
(* What the spool promises: safety of the queue, of the directory and of   *)
(* what reaches Pulse, across faults, crashes and restarts.                *)
(***************************************************************************)
EXTENDS Spool, Functions

Body == [first : Int, last : Int]
Batch == [first : Int, last : Int, at : Nat]

(* The type of every variable of the spool, of its callers and of Pulse. *)
ControlTypes ==
  /\ mu \in {"free", "enqueue", "drain", "load"}
  /\ step \in {"none", "expire", "evict", "write", "half a", "half b",
               "parent", "cleanup", "scan"}
  /\ epc \in {"idle", "lock", "down"}
  /\ dpc \in {"idle", "peek", "send", "reply", "replace", "discard"}
  /\ reply \in {"none", "delivered", "rejected"}
SpoolTypes ==
  /\ files \subseteq Part /\ quarantine \subseteq Part
  /\ parts \in Seq(Part) /\ bytes \in Int /\ seq \in Nat
  /\ splits \in 0 .. MaxSplits /\ window \in Nat \cup {NoWindow}
CallTypes ==
  /\ stamp \in Nat /\ todo \in Seq(Body) /\ total \in Nat /\ made \in Nat
  /\ dstamp \in Nat /\ cur \in Part
WorldTypes ==
  /\ now \in Nat /\ faults \in Nat /\ crashes \in Nat
  /\ stored \in Seq(Batch) /\ late \subseteq Part /\ bad \subseteq Nat
  /\ accepted \subseteq Int /\ lost \subseteq Int /\ rejected \subseteq Int
TypeOK == ControlTypes /\ SpoolTypes /\ CallTypes /\ WorldTypes

(* No telemetry vanishes: an item Enqueue queued is in a file of the       *)
(* directory, or Pulse stored it, or it was dropped or rejected where the  *)
(* code raises a notice of that (see DropHead for when).  Crashes may fall *)
(* between any two writes of Enqueue, replace, load and remove.            *)
NothingVanishes ==
  accepted \subseteq ItemsOf(files) \cup StoredItems \cup lost \cup rejected

(* Every part of the queue in memory has its file: peek can read the part  *)
(* at the head, whatever expire, evictFor, replace and remove left behind. *)
QueueOnDisk == Elems(parts) \subseteq files

(* The queue keeps the order in which telemetry was collected, and no item *)
(* is in it twice: through splits, evictions, failed writes and restarts,  *)
(* when load orders the directory by file name.                            *)
QueueOrdered ==
  \A i, j \in DOMAIN parts : i < j => parts[i].last < parts[j].first

(* Two files never have the same name: after a restart the sequence number *)
(* goes on past those on disk, so no rename replaces queued telemetry.     *)
NamesUnique ==
  \A p, q \in files : SamePart(p, q) /\ p.path = q.path => p = q

(* Pulse stores no item twice: a retry has the idempotency key of the      *)
(* first attempt, halves are sent only once their parent is given up, and  *)
(* parts expire before Pulse forgets the key.                              *)
StoredOnce ==
  \A i, j \in DOMAIN stored :
    i # j => Items(stored[i]) \cap Items(stored[j]) = {}

(* Splitting isolates what Pulse refuses: a healthy item that shares a     *)
(* part with a refused one is never given up.                              *)
HealthyNotQuarantined == rejected \subseteq Bad

(* Spool.bytes is the size of the queued parts whatever path changed them; *)
(* evictFor and the self-monitoring rely on it.                            *)
Sizes(q) == [i \in DOMAIN q |-> Size(q[i])]
BytesExact == bytes = SumFunction(Sizes(parts))

(* A finished Enqueue leaves the queue within its budget, and so does Open: *)
(* what splits added since the last call is evicted again.                  *)
Finishes == step \in {"evict", "write"} /\ mu' = "free" /\ epc' = "idle"
BudgetRestored == [][Finishes => bytes' <= MaxBytes]_vars

(* Telemetry leaves the queue as lost only at its old end: whatever expire *)
(* or evictFor drops is older than everything that stays queued.           *)
OldestLostFirst ==
  [][\A i \in lost' \ lost, j \in ItemsOf(Elems(parts')) : i < j]_vars

(***************************************************************************)
(* What makes NothingVanishes, QueueOnDisk and NamesUnique inductive.      *)
(***************************************************************************)

(* While replace runs, Drain holds mu and its part stays queued. *)
Replacing == step \in {"half a", "half b", "parent", "cleanup"}
LockInv ==
  /\ mu = "free" <=> step = "none"
  /\ step = "write" => mu = "enqueue"
  /\ step = "scan" => mu = "load"
  /\ Replacing => dpc = "replace" /\ cur \in Elems(parts)
  /\ epc = "down" => parts = <<>> /\ step = "none" /\ dpc = "idle"

(* The parent is removed only after both halves are files. *)
HalvesWritten ==
  /\ step = "half b" => HalfA(cur) \in files
  /\ step = "parent" => HalfA(cur) \in files /\ HalfB(cur) \in files

(* Drain takes a part out only for one of the two reasons it may. *)
AnsweredOnce ==
  /\ dpc = "reply" /\ reply = "delivered" => Items(cur) \subseteq StoredItems
  /\ dpc = "discard" => Items(cur) \subseteq rejected

(* The sequence number in memory is past those on disk once they are read. *)
SeqAhead ==
  /\ step = "scan" => \A p \in Elems(parts) : p.seq <= seq
  /\ epc # "down" /\ step # "scan" => \A p \in files : p.seq <= seq

(* The queue has no part twice. *)
Distinct(q) == \A i, j \in DOMAIN q : q[i] = q[j] => i = j
PartsDistinct == Distinct(parts)

(* Halves lie beside their parent only while its split is not finished or  *)
(* was abandoned; a queued part never lies beside what it was cut from.    *)
DirectHalves ==
  /\ \A p, q \in files : Descends(p, q) => p \in {HalfA(q), HalfB(q)}
  /\ \A p \in Elems(parts), q \in files : ~Descends(p, q)
  /\ step = "scan" => \A p, q \in files : ~Descends(p, q)

ControlInv == LockInv /\ HalvesWritten /\ AnsweredOnce
DiskInv ==
  /\ SeqAhead /\ PartsDistinct /\ DirectHalves
  /\ QueueOnDisk /\ NamesUnique /\ NothingVanishes
SpoolInv == TypeOK /\ ControlInv /\ DiskInv

(***************************************************************************)
(* What makes QueueOrdered inductive, and with it OldestLostFirst.         *)
(***************************************************************************)
Before(p, q) == p.last < q.first
Apart(p, q) == Before(p, q) \/ Before(q, p)
SameBody(p, q) == p.first = q.first /\ p.last = q.last
Filled(p) == 1 <= p.first /\ p.first <= p.last

(* Every body there is: of files, of what Drain holds, of requests that    *)
(* may still arrive and of what Pulse stored.                              *)
Sent == late \cup Elems(stored)
Bodies == files \cup {cur} \cup Sent

(* No part is empty, and Drain splits only parts of two items or more.     *)
PartsFilled ==
  /\ \A p \in files \cup Sent : Filled(p)
  /\ Filled(cur) \/ (cur = NoPart /\ dpc \in {"idle", "peek"})
  /\ dpc = "replace" => Divisible(cur)

(* What Enqueue has not written yet is newer than all there is, in order.  *)
TodoNewest ==
  /\ \A k \in DOMAIN todo : /\ Filled(todo[k]) /\ todo[k].last <= made
                            /\ \A p \in Bodies : Before(p, todo[k])
  /\ \A j, k \in DOMAIN todo : j < k => Before(todo[j], todo[k])
  /\ \A p \in Bodies : p.last <= made

(* The name of the next file sorts after those of all files.               *)
NamesGrow ==
  /\ mu = "enqueue" => epc = "lock"
  /\ mu = "load" => epc = "idle"
  /\ epc # "lock" => todo = <<>>
  /\ stamp <= now
  /\ \A p \in files : p.created <= now /\ (epc = "lock" => p.created <= stamp)

(* Files sort by name as their items do, save for a half and its parent.   *)
Ranked(p, q) == NameBefore(p, q) /\ Before(p, q)
FilesRanked ==
  \A p, q \in files :
    p = q \/ Descends(p, q) \/ Descends(q, p) \/ Ranked(p, q) \/ Ranked(q, p)

(* load has read the older files and not yet the newer ones.               *)
ScannedFirst ==
  step = "scan" =>
    \A p \in Elems(parts), q \in files \ Elems(parts) : Before(p, q)

OrderInv ==
  /\ PartsFilled /\ TodoNewest /\ NamesGrow /\ FilesRanked /\ ScannedFirst
  /\ QueueOrdered

(***************************************************************************)
(* What makes HealthyNotQuarantined and StoredOnce inductive.              *)
(***************************************************************************)

(* What Pulse refused has an item it may refuse.                           *)
Refused == dpc = "replace" \/ (dpc = "reply" /\ reply = "rejected")
RefusalFounded ==
  /\ bad \subseteq Bad /\ (~CanHeal => bad = Bad)
  /\ Refused => Items(cur) \cap Bad # {}
  /\ HealthyNotQuarantined

(* When StoredOnce can be promised: Pulse never comes to accept a part it  *)
(* refused, or every half a split leaves behind is removed and no request  *)
(* Drain gave up arrives late.  Otherwise a parent and its halves can both *)
(* reach Pulse, under different keys.                                      *)
SplitsDecided == ~CanHeal \/ FaultKinds \subseteq {"write", "sync"}

(* A body Pulse will never store.                                          *)
Hopeless(q) == ~CanHeal /\ Items(q) \cap Bad # {}
Compatible(p, q) == Apart(p, q) \/ SameBody(p, q) \/ Hopeless(q)

(* The files that do not lie beside a part they were cut from.             *)
Tops == {p \in files : \A q \in files : ~Descends(p, q)}

(* What can still be sent is apart from what was sent, or the same body    *)
(* again, or cut from what Pulse will never store.                         *)
SentOnce ==
  /\ \A p \in Tops : Compatible(p, cur)
  /\ \A p \in Tops \cup {cur}, q \in Sent : Compatible(p, q)
  /\ \A p, q \in Sent : Compatible(p, q) \/ Hopeless(p)
  /\ \A q \in Elems(stored) : ~Hopeless(q)
  /\ CanHeal => late = {}
  /\ CanHeal /\ Refused => \A q \in Sent : Apart(cur, q)

(* Halves lie beside their parent only if Pulse will never store it, or    *)
(* until the running split, or Open, has cleaned up.                       *)
HalvesHopeless ==
  \A p, q \in files :
    Descends(p, q) => Hopeless(q) \/ (CanHeal /\ ((Replacing /\ q = cur) \/ epc = "down"))

(* A key is remembered for as long as its part can be sent.                *)
KeysRemembered ==
  /\ \A p \in files \cup late \cup {cur}, q \in Elems(stored) :
       Apart(p, q) \/ p.created <= q.at
  /\ \A p \in files \cup late \cup {cur} : p.created <= now
  /\ \A q \in Elems(stored) : q.at <= now

OnceInv == RefusalFounded /\ SentOnce /\ HalvesHopeless /\ KeysRemembered /\ StoredOnce

(***************************************************************************)
(* What makes BudgetRestored and BytesExact inductive.                     *)
(***************************************************************************)

(* The bodies Enqueue still has to write follow one another; their size is *)
(* what Enqueue made room for.                                             *)
Consecutive(t) == \A k \in DOMAIN t \ {1} : t[k].first = t[k - 1].last + 1
SizeOf(t) ==
  IF t = <<>> THEN 0
  ELSE Overhead * Len(t) + (t[Len(t)].last + 1 - t[1].first)
RoomMade ==
  /\ Consecutive(todo)
  /\ step # "write" => total = SizeOf(todo)
  /\ step = "evict" => mu \in {"enqueue", "load"}
  /\ step \in {"evict", "write"} => total <= MaxBytes
  /\ step = "write" => bytes + SizeOf(todo) <= MaxBytes
BudgetInv == RoomMade /\ BytesExact

(* The abstract queue: the directory is the queue, whatever parts it is    *)
(* cut into and whether a process runs.                                    *)
Waiting == ItemsOf(files) \ (rejected \cup StoredItems)
GivenUp == rejected \ StoredItems
Dropped == lost \ (rejected \cup StoredItems \cup ItemsOf(files))
Log == INSTANCE TelemetryLog
         WITH Refusable <- Bad, queued <- Waiting, delivered <- StoredItems,
              dropped <- Dropped, refused <- GivenUp

(* The spool implements the lossy FIFO: retries, splits, crashes and       *)
(* restarts are invisible, and every other step is one of its operations.  *)
ImplementsLog == Log!LogSpec

(***************************************************************************)
(* What makes ImplementsLog inductive, where the directory does as told:   *)
(* files may not be written, but what is removed or synced is.             *)
(***************************************************************************)
DirectoryObeys == FaultKinds \subseteq {"write", "send"}

(* The files are the queue, but for halves while their split runs.         *)
DiskIsQueue ==
  epc # "down" /\ step # "scan" =>
    \A p \in files : p \in Elems(parts) \/ (Replacing /\ p \in Leftovers)

(* What Drain holds, and what it gave up sending, was at the front.        *)
HeadFirst == \A p \in late \cup {cur}, q \in files : p.first <= q.first

(* Every item there is was accepted, before what Enqueue has yet to write. *)
AllAccepted == ItemsOf(Bodies) \cup lost \cup rejected \subseteq accepted
AcceptedOlder ==
  \A i \in accepted : i <= made /\ \A k \in DOMAIN todo : i < todo[k].first

LogInv == DiskIsQueue /\ HeadFirst /\ AllAccepted /\ AcceptedOlder

(* spool.go:30 "Spool is a bounded FIFO": the queue never exceeds MaxBytes. *)
QueueWithinBudget == mu = "free" => bytes <= MaxBytes

(* PRODUCTION-READINESS.md:46 "Persistent spools have a bounded disk  *)
(* budget": the files of the directory never exceed MaxBytes.              *)
DiskWithinBudget ==
  mu = "free" => SumFunction([p \in files |-> Size(p)]) <= MaxBytes
=============================================================================
