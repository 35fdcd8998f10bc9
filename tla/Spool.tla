-------------------------------- MODULE Spool --------------------------------
(***************************************************************************)
(* The delivery spool of an ingestor (internal/pulse/spool.go) with a      *)
(* persistent directory, the queue() caller that fills it, the delivery    *)
(* loop that drains it, the Pulse API behind Client.Send, and crashes and  *)
(* restarts of the process.                                                *)
(*                                                                         *)
(* Telemetry items carry numbers in the order they are collected, so a     *)
(* part's body is an interval first..last.  Every step that touches the    *)
(* directory is an action of its own: a crash can fall between any two.    *)
(***************************************************************************)
EXTENDS Integers, Sequences, FiniteSets

CONSTANTS
  Shapes,         \* batches: how SplitBatch cut them, as the end of each part
  MaxItems,       \* bound: items collected over a behaviour
  Bad,            \* items Pulse refuses when they arrive
  CanHeal,        \* whether Pulse may come to accept a refused item
  Overhead,       \* bytes of a part beyond its items (each item is one byte)
  MaxBytes,       \* Spool.MaxBytes
  MaxAge,         \* SpoolMaxAge
  KeyLife,        \* how long Pulse remembers an idempotency key
  MaxTime,        \* bound: the clock stops here
  MaxSplits,      \* maxSplitsPerHour
  SplitHour,      \* the window maxSplitsPerHour counts in
  MaxQuarantine,  \* maxQuarantineFiles
  FaultKinds,     \* the faults the environment may inject, see Fault
  MaxFaults,      \* bound: steps with a fault over a behaviour
  MaxCrashes      \* bound: crashes over a behaviour

ASSUME ShapesAssumption ==
  \A s \in Shapes : /\ s \in Seq(Nat \ {0}) /\ s # <<>>
                    /\ \A i, j \in DOMAIN s : i < j => s[i] < s[j]
ASSUME BoundsAssumption ==
  /\ MaxItems \in Nat /\ MaxTime \in Nat /\ MaxFaults \in Nat /\ MaxCrashes \in Nat
ASSUME SizesAssumption ==
  /\ Overhead \in Nat /\ MaxBytes \in Nat \ {0}
  /\ MaxSplits \in Nat /\ SplitHour \in Nat /\ MaxQuarantine \in Nat
(* "Parts expire before Pulse's 24-hour idempotency record can disappear." *)
ASSUME KeyLifeAssumption ==
  MaxAge \in Nat /\ KeyLife \in Nat /\ MaxAge < KeyLife
ASSUME EnvironmentAssumption ==
  /\ Bad \subseteq Nat /\ CanHeal \in BOOLEAN
  /\ FaultKinds \subseteq {"write", "sync", "remove", "send"}

VARIABLES
  now,         \* the wall clock
  files,       \* the *.part files of the directory
  quarantine,  \* the files of its quarantine directory
  parts,       \* Spool.parts: the queue in memory
  bytes,       \* Spool.bytes
  seq,         \* Spool.seq
  splits,      \* Spool.splits
  window,      \* Spool.splitWindow
  mu,          \* who holds Spool.mu
  step,        \* where the holder of mu is in its critical section
  epc,         \* control of queue() and of Open
  stamp,       \* the `now` argument of the running Enqueue or Open
  todo,        \* bodies the running Enqueue has not written yet
  total,       \* the size of all bodies of the running Enqueue
  dpc,         \* control of Drain
  dstamp,      \* the `now` argument of the running peek
  cur,         \* the part Drain holds
  reply,       \* the response of Pulse on its way back to Drain
  made,        \* number of items collected so far
  stored,      \* the batches Pulse stored, in order, with the time
  late,        \* requests Drain gave up on that Pulse may still process
  bad,         \* the items Pulse refuses at present
  accepted,    \* history: items Enqueue queued
  lost,        \* history: items dropped with a "dropped" notice
  rejected,    \* history: items given up with a "rejected" notice
  faults,      \* faults injected so far
  crashes      \* crashes so far

memory == <<parts, bytes, seq, splits, window>>
enqueuer == <<epc, stamp, todo, total, made>>
drainer == <<dpc, dstamp, cur, reply>>
pulse == <<stored, late, bad>>
history == <<accepted, lost, rejected>>
vars == <<now, files, quarantine, memory, mu, step, enqueuer, drainer, pulse,
          history, faults, crashes>>
-----------------------------------------------------------------------------
(* Parts, their names and their bodies *)

Part == [created: Nat, seq: Nat, path: Seq({"a", "b"}), first: Int, last: Int]
NoPart == [created |-> 0, seq |-> 0, path |-> <<>>, first |-> 1, last |-> 0]

Items(p) == p.first .. p.last
Size(p) == Overhead + (p.last + 1 - p.first)
Elems(q) == {q[i] : i \in DOMAIN q}
ItemsOf(S) == UNION {Items(p) : p \in S}
StoredItems == ItemsOf(Elems(stored))

SamePart(p, q) == p.created = q.created /\ p.seq = q.seq

(* p is a half, or a half of a half, ..., of q: its name extends q's. *)
Descends(p, q) ==
  /\ SamePart(p, q)
  /\ Len(q.path) < Len(p.path)
  /\ SubSeq(p.path, 1, Len(q.path)) = q.path

(* The order of file names: time, sequence number, then branch by branch;  *)
(* '-' sorts before '.', so a half precedes the part it was cut from.      *)
NameBefore(p, q) ==
  \/ p.created < q.created
  \/ p.created = q.created /\ p.seq < q.seq
  \/ /\ SamePart(p, q)
     /\ \/ Descends(p, q)
        \/ \E i \in DOMAIN p.path \cap DOMAIN q.path :
             /\ \A j \in 1 .. i - 1 : p.path[j] = q.path[j]
             /\ p.path[i] = "a" /\ q.path[i] = "b"

(* halve: the first half of the items, rounded down, and the rest. *)
Middle(p) == p.first + (p.last + 1 - p.first) \div 2
HalfA(p) == [p EXCEPT !.path = Append(@, "a"), !.last = Middle(p) - 1]
(* Mutant: the item in the middle is in neither half. *)
HalfB_Skips(p) == [p EXCEPT !.path = Append(@, "b"), !.first = Middle(p) + 1]
HalfB(p) == [p EXCEPT !.path = Append(@, "b"), !.first = Middle(p)]
(* Mutant: a part of two items is taken for a single one. *)
Divisible_Three(p) == p.first + 1 < p.last
Divisible(p) == p.first < p.last

Aged(p, t) == t - p.created >= MaxAge
NoWindow == -1

(* A fault the environment may inject: "write" (a file is not written),    *)
(* "sync" (it is, but the directory sync fails), "remove" (a file cannot   *)
(* be removed), "send" (an abandoned request reaches Pulse later).         *)
Fault(kind) ==
  /\ kind \in FaultKinds
  /\ faults < MaxFaults
  /\ faults' = faults + 1
-----------------------------------------------------------------------------
Init ==
  /\ now = 0 /\ files = {} /\ quarantine = {}
  /\ parts = <<>> /\ bytes = 0 /\ seq = 0 /\ splits = 0 /\ window = NoWindow
  /\ mu = "free" /\ step = "none"
  /\ epc = "idle" /\ stamp = 0 /\ todo = <<>> /\ total = 0 /\ made = 0
  /\ dpc = "idle" /\ dstamp = 0 /\ cur = NoPart /\ reply = "none"
  /\ stored = <<>> /\ late = {} /\ bad = Bad
  /\ accepted = {} /\ lost = {} /\ rejected = {}
  /\ faults = 0 /\ crashes = 0

Tick ==
  /\ now < MaxTime
  /\ now' = now + 1
  /\ UNCHANGED <<files, quarantine, memory, mu, step, enqueuer, drainer,
                 pulse, history, faults, crashes>>
-----------------------------------------------------------------------------
(* Critical sections of Spool.mu *)

Acquire(who, at) == mu = "free" /\ mu' = who /\ step' = at
Release == mu' = "free" /\ step' = "none"

(* drop(0): a file that cannot be removed is only logged, the part leaves  *)
(* the queue all the same.  Its items are lost from here on; the notice of *)
(* them is raised when the loop that drops ends, before the mutex is free, *)
(* and only in memory: a crash forgets it, whether raised or not.          *)
DropHead ==
  /\ parts' = Tail(parts)
  /\ bytes' = bytes - Size(Head(parts))
  /\ lost' = lost \cup Items(Head(parts))
  /\ \/ files' = files \ {Head(parts)} /\ UNCHANGED faults
     \/ Fault("remove") /\ UNCHANGED files

HeadExpired ==
  parts # <<>> /\ Aged(Head(parts), IF mu = "drain" THEN dstamp ELSE stamp)

(* One iteration of the loop of expire: it stops at the first fresh part.  *)
Expire ==
  /\ step = "expire" /\ HeadExpired
  /\ DropHead
  /\ UNCHANGED <<now, quarantine, seq, splits, window, mu, step, enqueuer,
                 drainer, pulse, accepted, rejected, crashes>>

(* Mutant: evictFor makes room without counting the new parts. *)
OverBudget_IgnoresNew == parts # <<>> /\ bytes > MaxBytes
OverBudget == parts # <<>> /\ bytes + total > MaxBytes

(* Mutant: evictFor drops the newest part. *)
Evict_Newest ==
  /\ step = "evict" /\ OverBudget
  /\ parts' = SubSeq(parts, 1, Len(parts) - 1)
  /\ bytes' = bytes - Size(parts[Len(parts)])
  /\ lost' = lost \cup Items(parts[Len(parts)])
  /\ files' = files \ {parts[Len(parts)]}
  /\ UNCHANGED <<now, quarantine, seq, splits, window, mu, step, enqueuer,
                 drainer, pulse, accepted, rejected, faults, crashes>>

(* One iteration of the loop of evictFor. *)
Evict ==
  /\ step = "evict" /\ OverBudget
  /\ DropHead
  /\ UNCHANGED <<now, quarantine, seq, splits, window, mu, step, enqueuer,
                 drainer, pulse, accepted, rejected, crashes>>
-----------------------------------------------------------------------------
(* Enqueue *)

(* queue() has cut a batch into parts and calls Enqueue: the clock is read *)
(* and the bodies are encoded before mu is asked for.                      *)
EnqueueCall(shape) ==
  /\ epc = "idle" /\ mu # "load"
  /\ made + shape[Len(shape)] <= MaxItems
  /\ epc' = "lock"
  /\ stamp' = now
  /\ todo' = [k \in DOMAIN shape |->
                [first |-> made + 1 + (IF k = 1 THEN 0 ELSE shape[k - 1]),
                 last |-> made + shape[k]]]
  /\ total' = Overhead * Len(shape) + shape[Len(shape)]
  /\ made' = made + shape[Len(shape)]
  /\ UNCHANGED <<now, files, quarantine, memory, mu, step, drainer, pulse,
                 history, faults, crashes>>

EnqueueLock ==
  /\ epc = "lock" /\ Acquire("enqueue", "expire")
  /\ UNCHANGED <<now, files, quarantine, memory, enqueuer, drainer, pulse,
                 history, faults, crashes>>

EnqueueReturn ==
  /\ Release
  /\ epc' = "idle" /\ todo' = <<>> /\ total' = 0 /\ stamp' = 0
  /\ UNCHANGED <<now, quarantine, splits, window, made, drainer, pulse,
                 lost, rejected, crashes>>

(* A batch larger than the whole budget is not queued at all. *)
EnqueueRefuse ==
  /\ mu = "enqueue" /\ step = "expire" /\ ~HeadExpired
  /\ total > MaxBytes
  /\ EnqueueReturn
  /\ UNCHANGED <<files, parts, bytes, seq, accepted, faults>>

(* After expire, Enqueue and Open make room: evictFor(total), evictFor(0). *)
StartEvict ==
  /\ mu \in {"enqueue", "load"} /\ step = "expire" /\ ~HeadExpired
  /\ total <= MaxBytes
  /\ step' = "evict"
  /\ UNCHANGED <<now, files, quarantine, memory, mu, enqueuer, drainer, pulse,
                 history, faults, crashes>>

StartWrite ==
  /\ mu = "enqueue" /\ step = "evict" /\ ~OverBudget
  /\ step' = "write"
  /\ UNCHANGED <<now, files, quarantine, memory, mu, enqueuer, drainer, pulse,
                 history, faults, crashes>>

NextPart == [created |-> stamp, seq |-> seq + 1, path |-> <<>>,
             first |-> Head(todo).first, last |-> Head(todo).last]

(* atomicWrite of the next part, then its entry in the queue. *)
WritePart ==
  /\ mu = "enqueue" /\ step = "write" /\ todo # <<>>
  /\ seq' = seq + 1
  /\ files' = files \cup {NextPart}
  /\ parts' = Append(parts, NextPart)
  /\ bytes' = bytes + Size(NextPart)
  /\ accepted' = accepted \cup Items(NextPart)
  /\ todo' = Tail(todo)
  /\ UNCHANGED <<now, quarantine, splits, window, mu, step, epc, stamp, total,
                 made, drainer, pulse, lost, rejected, faults, crashes>>

(* Mutant: a part that could not be written is queued all the same. *)
WritePartFails_Queues ==
  /\ mu = "enqueue" /\ step = "write" /\ todo # <<>>
  /\ seq' = seq + 1
  /\ Fault("write") /\ UNCHANGED files
  /\ EnqueueReturn
  /\ parts' = Append(parts, NextPart) /\ bytes' = bytes + Size(NextPart)
  /\ UNCHANGED accepted

(* atomicWrite fails: Enqueue returns the error, earlier parts stay queued *)
(* and, when only the directory sync failed, so does the file on disk.     *)
WritePartFails ==
  /\ mu = "enqueue" /\ step = "write" /\ todo # <<>>
  /\ seq' = seq + 1
  /\ \/ Fault("write") /\ UNCHANGED files
     \/ Fault("sync") /\ files' = files \cup {NextPart}
  /\ EnqueueReturn
  /\ UNCHANGED <<parts, bytes, accepted>>

EnqueueDone ==
  /\ mu = "enqueue" /\ step = "write" /\ todo = <<>>
  /\ EnqueueReturn
  /\ UNCHANGED <<files, parts, bytes, seq, accepted, faults>>
-----------------------------------------------------------------------------
(* Drain *)

DrainIdle == dpc' = "idle" /\ cur' = NoPart /\ reply' = "none" /\ dstamp' = 0

(* The delivery loop calls Drain, or Drain goes round its loop: peek reads *)
(* the clock before it asks for mu.                                        *)
DrainNext ==
  /\ epc # "down" /\ mu # "load" /\ dpc = "idle"
  /\ dpc' = "peek" /\ dstamp' = now
  /\ UNCHANGED <<now, files, quarantine, memory, mu, step, enqueuer, cur,
                 reply, pulse, history, faults, crashes>>

PeekLock ==
  /\ dpc = "peek" /\ Acquire("drain", "expire")
  /\ UNCHANGED <<now, files, quarantine, memory, enqueuer, drainer, pulse,
                 history, faults, crashes>>

PeekEmpty ==
  /\ mu = "drain" /\ step = "expire" /\ parts = <<>>
  /\ Release /\ DrainIdle
  /\ UNCHANGED <<now, files, quarantine, memory, enqueuer, pulse, history,
                 faults, crashes>>

PeekHead ==
  /\ mu = "drain" /\ step = "expire" /\ parts # <<>> /\ ~HeadExpired
  /\ Release
  /\ dpc' = "send" /\ cur' = Head(parts) /\ dstamp' = 0
  /\ UNCHANGED <<now, files, quarantine, memory, enqueuer, reply, pulse,
                 history, faults, crashes>>

(* The head cannot be read: Drain returns Retry, the part stays queued. *)
PeekFails ==
  /\ mu = "drain" /\ step = "expire" /\ parts # <<>> /\ ~HeadExpired
  /\ Release /\ DrainIdle
  /\ UNCHANGED <<now, files, quarantine, memory, enqueuer, pulse, history,
                 faults, crashes>>

(* What Pulse does with a request.  A body it stored less than KeyLife ago *)
(* has the same idempotency key and is acknowledged again; one with an     *)
(* item it refuses is rejected as a whole and nothing of it is stored.     *)
Remembered(p) ==
  \E i \in DOMAIN stored : /\ stored[i].first = p.first /\ stored[i].last = p.last
                           /\ now - stored[i].at < KeyLife
Verdict(p) ==
  IF Remembered(p) \/ Items(p) \cap bad = {} THEN "delivered" ELSE "rejected"
Ingest(p) ==
  stored' = IF Verdict(p) = "delivered" /\ ~Remembered(p)
            THEN Append(stored, [first |-> p.first, last |-> p.last, at |-> now])
            ELSE stored

(* The context of Client.Send ends at created + SpoolMaxAge.  Mutant: it   *)
(* has no deadline.                                                        *)
InTime_Always(p) == TRUE
InTime(p) == now < p.created + MaxAge

Send ==
  /\ dpc = "send" /\ InTime(cur)
  /\ Ingest(cur)
  /\ reply' = Verdict(cur) /\ dpc' = "reply"
  /\ UNCHANGED <<now, files, quarantine, memory, mu, step, enqueuer, dstamp,
                 cur, late, bad, history, faults, crashes>>

(* The request did not get through, was put off (408, 429, 5xx, 3xx, 401,  *)
(* 403, 404, 409) or ran out of time: Drain returns Retry or Paused.       *)
SendFails ==
  /\ dpc = "send"
  /\ DrainIdle
  /\ \/ UNCHANGED <<late, faults>>
     \/ Fault("send") /\ InTime(cur) /\ late' = late \cup {cur}
  /\ UNCHANGED <<now, files, quarantine, memory, mu, step, enqueuer, stored,
                 bad, history, crashes>>

(* The response is lost or unreadable: Retry, although Pulse decided. *)
ReplyLost ==
  /\ dpc = "reply"
  /\ DrainIdle
  /\ UNCHANGED <<now, files, quarantine, memory, mu, step, enqueuer, pulse,
                 history, faults, crashes>>

LateArrival ==
  \E p \in late :
    /\ now < p.created + KeyLife
    /\ late' = late \ {p}
    /\ Ingest(p)
    /\ UNCHANGED <<now, files, quarantine, memory, mu, step, enqueuer, drainer,
                   bad, history, faults, crashes>>

Heal ==
  /\ CanHeal
  /\ \E i \in bad : bad' = bad \ {i}
  /\ UNCHANGED <<now, files, quarantine, memory, mu, step, enqueuer, drainer,
                 stored, late, history, faults, crashes>>

(* remove: a part dropped meanwhile is already gone; a file that cannot be *)
(* removed leaves the part queued.                                         *)
TakeOut(p) ==
  \/ p \notin Elems(parts) /\ UNCHANGED <<files, parts, bytes, faults>>
  \/ \E i \in DOMAIN parts :
       /\ parts[i] = p
       /\ \/ /\ files' = files \ {p}
             /\ parts' = SubSeq(parts, 1, i - 1) \o SubSeq(parts, i + 1, Len(parts))
             /\ bytes' = bytes - Size(p)
             /\ UNCHANGED faults
          \/ Fault("remove") /\ UNCHANGED <<files, parts, bytes>>

OnDelivered ==
  /\ dpc = "reply" /\ reply = "delivered" /\ mu = "free"
  /\ TakeOut(cur)
  /\ DrainIdle
  /\ UNCHANGED <<now, quarantine, seq, splits, window, mu, step, enqueuer,
                 pulse, history, crashes>>

(* reject, first branch: allowSplit.  The clock it compares with is read   *)
(* just before mu is taken; the two are one step here.                     *)
(* Mutant: the budget is one split too large. *)
SplitsLeft_OneMore(used) == used <= MaxSplits
SplitsLeft(used) == used < MaxSplits
AllowSplit ==
  LET fresh == window = NoWindow \/ now - window >= SplitHour
      used  == IF fresh THEN 0 ELSE splits
  IN /\ dpc = "reply" /\ reply = "rejected" /\ Divisible(cur) /\ mu = "free"
     /\ window' = IF fresh THEN now ELSE window
     /\ \/ /\ SplitsLeft(used)
           /\ splits' = used + 1 /\ dpc' = "replace"
           /\ UNCHANGED <<dstamp, cur, reply>>
        \/ ~SplitsLeft(used) /\ splits' = used /\ DrainIdle
     /\ UNCHANGED <<now, files, quarantine, parts, bytes, seq, mu, step,
                    enqueuer, pulse, history, faults, crashes>>

ReplaceLock ==
  /\ dpc = "replace"
  /\ \/ /\ cur \in Elems(parts)
        /\ Acquire("drain", "half a")
        /\ UNCHANGED drainer
     \/ /\ mu = "free" /\ cur \notin Elems(parts)
        /\ DrainIdle
        /\ UNCHANGED <<mu, step>>
  /\ UNCHANGED <<now, files, quarantine, memory, enqueuer, pulse, history,
                 faults, crashes>>

(* atomicWrite of one half; a failure goes on to the deferred cleanup. *)
WriteHalf(at, half, next) ==
  /\ step = at
  /\ \/ files' = files \cup {half} /\ step' = next /\ UNCHANGED faults
     \/ Fault("write") /\ step' = "cleanup" /\ UNCHANGED files
     \/ Fault("sync") /\ step' = "cleanup" /\ files' = files \cup {half}
  /\ UNCHANGED <<now, quarantine, memory, mu, enqueuer, drainer, pulse,
                 history, crashes>>
WriteHalfA == WriteHalf("half a", HalfA(cur), "half b")
WriteHalfB == WriteHalf("half b", HalfB(cur), "parent")

(* The halves take their parent's place in the queue.  Mutants: they go to *)
(* its end; they are counted as no larger than their parent.               *)
Spliced_AtEnd(i) ==
  SubSeq(parts, 1, i - 1) \o SubSeq(parts, i + 1, Len(parts))
    \o <<HalfA(cur), HalfB(cur)>>
Spliced(i) ==
  SubSeq(parts, 1, i - 1) \o <<HalfA(cur), HalfB(cur)>>
    \o SubSeq(parts, i + 1, Len(parts))
SplicedBytes_AsParent == bytes
SplicedBytes == bytes + Size(HalfA(cur)) + Size(HalfB(cur)) - Size(cur)
RemoveParent ==
  /\ step = "parent"
  /\ \/ \E i \in DOMAIN parts :
          /\ parts[i] = cur
          /\ files' = files \ {cur}
          /\ parts' = Spliced(i)
          /\ bytes' = SplicedBytes
          /\ Release /\ DrainIdle /\ UNCHANGED faults
     \/ /\ Fault("remove") /\ step' = "cleanup"
        /\ UNCHANGED <<files, parts, bytes, mu, drainer>>
  /\ UNCHANGED <<now, quarantine, seq, splits, window, enqueuer, pulse,
                 history, crashes>>

(* The deferred cleanup of a failed replace; Drain returns Retry.  Each    *)
(* removal may fail.  Mutant: it removes the parent with the halves.       *)
Leftovers_Parent == {HalfA(cur), HalfB(cur), cur}
Leftovers == {HalfA(cur), HalfB(cur)}
Cleanup ==
  /\ step = "cleanup"
  /\ \/ files' = files \ Leftovers /\ UNCHANGED faults
     \/ /\ Fault("remove")
        /\ \E kept \in (SUBSET Leftovers) \ {{}} : files' = files \ (Leftovers \ kept)
  /\ Release /\ DrainIdle
  /\ UNCHANGED <<now, quarantine, memory, enqueuer, pulse, history, crashes>>

(* writeQuarantine keeps the newest files. *)
Newest(Q) ==
  {p \in Q : Cardinality({q \in Q : NameBefore(p, q)}) < MaxQuarantine}

(* reject, second branch: an item on its own goes to quarantine.  A file   *)
(* that cannot be written is only logged.                                  *)
Quarantine ==
  /\ dpc = "reply" /\ reply = "rejected" /\ ~Divisible(cur)
  /\ rejected' = rejected \cup Items(cur)
  /\ \/ quarantine' = Newest(quarantine \cup {cur}) /\ UNCHANGED faults
     \/ Fault("write") /\ UNCHANGED quarantine
  /\ dpc' = "discard"
  /\ UNCHANGED <<now, files, memory, mu, step, enqueuer, dstamp, cur, reply,
                 pulse, accepted, lost, crashes>>

Discard ==
  /\ dpc = "discard" /\ mu = "free"
  /\ TakeOut(cur)
  /\ DrainIdle
  /\ UNCHANGED <<now, quarantine, seq, splits, window, mu, step, enqueuer,
                 pulse, history, crashes>>
-----------------------------------------------------------------------------
(* Crash, Open and load *)

(* The process ends at any point: the directory is all that is left. *)
Crash ==
  /\ epc # "down" /\ crashes < MaxCrashes
  /\ crashes' = crashes + 1
  /\ parts' = <<>> /\ bytes' = 0 /\ seq' = 0 /\ splits' = 0 /\ window' = NoWindow
  /\ Release
  /\ epc' = "down" /\ stamp' = 0 /\ todo' = <<>> /\ total' = 0
  /\ DrainIdle
  /\ UNCHANGED <<now, files, quarantine, made, pulse, history, faults>>

(* "A surviving parent is authoritative: its split did not commit."        *)
(* Mutant: load keeps every file.                                          *)
Orphans_None == {}
Orphans == {p \in files : \E q \in files : Descends(p, q)}

Open ==
  /\ epc = "down" /\ Acquire("load", "scan")
  /\ files' = files \ Orphans
  /\ epc' = "idle" /\ stamp' = now
  /\ UNCHANGED <<now, quarantine, memory, todo, total, made, drainer, pulse,
                 history, faults, crashes>>

(* An orphan cannot be removed: load returns the error and the process     *)
(* ends, to be started again.  A crash among the removals leaves the same. *)
OpenFails ==
  /\ epc = "down"
  /\ \E left \in SUBSET Orphans \ {{}} : files' = (files \ Orphans) \cup left
  /\ Fault("remove")
  /\ UNCHANGED <<now, quarantine, memory, mu, step, enqueuer, drainer, pulse,
                 history, crashes>>

(* Mutant: load does not bring the sequence number back. *)
SeqAfter_Kept(p) == seq
SeqAfter(p) == IF p.seq > seq THEN p.seq ELSE seq

(* load indexes the directory in the order of file names. *)
Scan ==
  /\ step = "scan"
  /\ \E p \in files \ Elems(parts) :
       /\ \A q \in files \ Elems(parts) : q = p \/ NameBefore(p, q)
       /\ seq' = SeqAfter(p)
       /\ parts' = Append(parts, p)
       /\ bytes' = bytes + Size(p)
  /\ UNCHANGED <<now, files, quarantine, splits, window, mu, step, enqueuer,
                 drainer, pulse, history, faults, crashes>>

ScanDone ==
  /\ step = "scan" /\ files = Elems(parts)
  /\ step' = "expire"
  /\ UNCHANGED <<now, files, quarantine, memory, mu, enqueuer, drainer, pulse,
                 history, faults, crashes>>

OpenDone ==
  /\ mu = "load" /\ step = "evict" /\ ~OverBudget
  /\ Release
  /\ stamp' = 0
  /\ UNCHANGED <<now, files, quarantine, memory, epc, todo, total, made,
                 drainer, pulse, history, faults, crashes>>
-----------------------------------------------------------------------------
Enqueuing ==
  \/ EnqueueLock \/ EnqueueRefuse \/ StartEvict \/ StartWrite
  \/ WritePart \/ WritePartFails \/ EnqueueDone
Draining ==
  \/ DrainNext \/ PeekLock \/ PeekEmpty \/ PeekHead \/ PeekFails \/ Send
  \/ SendFails \/ ReplyLost \/ OnDelivered \/ AllowSplit \/ ReplaceLock \/ WriteHalfA
  \/ WriteHalfB \/ RemoveParent \/ Cleanup \/ Quarantine \/ Discard
Opening == Open \/ OpenFails \/ Scan \/ ScanDone \/ OpenDone
Environment == Tick \/ Crash \/ LateArrival \/ Heal

Next ==
  \/ \E shape \in Shapes : EnqueueCall(shape)
  \/ Enqueuing \/ Expire \/ Evict \/ Draining \/ Opening \/ Environment

Spec == Init /\ [][Next]_vars
=============================================================================
