-------------------------- MODULE SpoolOrderProofs --------------------------
(***************************************************************************)
(* Proofs about the order of the queue, what leaves it as lost, its size   *)
(* and what reaches Pulse, for every value of the constants.               *)
(***************************************************************************)
EXTENDS SpoolProofs, SumTheorems
-----------------------------------------------------------------------------
(* Parts by name and by items *)

(* The halves of a part of two items or more share its items, in order. *)
LEMMA HalfBounds ==
  ASSUME NEW p \in Part
  PROVE  /\ HalfA(p).first = p.first /\ HalfB(p).last = p.last
         /\ HalfB(p).first = HalfA(p).last + 1
         /\ HalfA(p).created = p.created /\ HalfB(p).created = p.created
         /\ HalfA(p).seq = p.seq /\ HalfB(p).seq = p.seq
         /\ HalfA(p).path = Append(p.path, "a") /\ HalfB(p).path = Append(p.path, "b")
         /\ Divisible(p) => /\ p.first <= HalfA(p).last /\ HalfA(p).last < p.last
                            /\ p.first < HalfB(p).first /\ HalfB(p).first <= p.last
<1>1. p.first \in Int /\ p.last \in Int
  BY PartFacts
<1>2. Middle(p) \in Int /\ (Divisible(p) => p.first < Middle(p) /\ Middle(p) <= p.last)
  BY <1>1 DEF Middle, Divisible
<1>3. /\ HalfA(p).first = p.first /\ HalfB(p).last = p.last
      /\ HalfA(p).last = Middle(p) - 1 /\ HalfB(p).first = Middle(p)
      /\ HalfA(p).created = p.created /\ HalfB(p).created = p.created
      /\ HalfA(p).seq = p.seq /\ HalfB(p).seq = p.seq
      /\ HalfA(p).path = Append(p.path, "a") /\ HalfB(p).path = Append(p.path, "b")
  BY DEF Part, HalfA, HalfB
<1> QED BY <1>1, <1>2, <1>3

(* A half of a filled part is filled. *)
LEMMA HalfFilled ==
  ASSUME NEW p \in Part, Divisible(p), Filled(p), NEW h \in {HalfA(p), HalfB(p)}
  PROVE  /\ Filled(h) /\ h \in Part /\ h.created = p.created
         /\ p.first <= h.first /\ h.last <= p.last
<1>1. h \in Part /\ HalfA(p) \in Part /\ HalfB(p) \in Part
  BY HalvesPartition
<1>2. p.first \in Int /\ p.last \in Int /\ HalfA(p).last \in Int /\ HalfB(p).first \in Int
  BY <1>1, PartFacts
<1> QED BY <1>1, <1>2, HalfBounds DEF Filled

(* Names are ordered: no two come before each other. *)
LEMMA NamesAsymmetric ==
  ASSUME NEW p \in Part, NEW q \in Part, NameBefore(p, q)
  PROVE  ~NameBefore(q, p)
<1>1. /\ p.created \in Nat /\ q.created \in Nat /\ p.seq \in Nat /\ q.seq \in Nat
      /\ p.path \in Seq({"a", "b"}) /\ q.path \in Seq({"a", "b"})
      /\ Len(p.path) \in Nat /\ Len(q.path) \in Nat
      /\ DOMAIN p.path = 1 .. Len(p.path) /\ DOMAIN q.path = 1 .. Len(q.path)
  BY PartFacts, LenProperties
<1>2. CASE ~SamePart(p, q)
  BY <1>1, <1>2 DEF NameBefore, SamePart, Descends
<1>3. CASE SamePart(p, q)
  <2> DEFINE Splits(x, y, i) == /\ i \in DOMAIN x.path \cap DOMAIN y.path
                                /\ \A j \in 1 .. i - 1 : x.path[j] = y.path[j]
                                /\ x.path[i] = "a" /\ y.path[i] = "b"
  <2>1. Descends(p, q) \/ \E i : Splits(p, q, i)
    BY <1>1, <1>3 DEF NameBefore, SamePart
  <2>2. SUFFICES ASSUME Descends(q, p) \/ \E i : Splits(q, p, i) PROVE FALSE
    BY <1>1, <1>3 DEF NameBefore, SamePart
  <2>3. ASSUME NEW x \in {p, q}, NEW y \in {p, q}, Descends(x, y), NEW i,
               Splits(x, y, i) \/ Splits(y, x, i)
        PROVE  FALSE
    <3>1. /\ Len(y.path) < Len(x.path) /\ SubSeq(x.path, 1, Len(y.path)) = y.path
      BY <2>3 DEF Descends
    <3>2. /\ i \in 1 .. Len(y.path) /\ x.path[i] # y.path[i]
      BY <1>1, <2>3
    <3>3. SubSeq(x.path, 1, Len(y.path))[i] = x.path[i]
      BY <1>1, <3>1, <3>2
    <3> QED BY <3>1, <3>2, <3>3
  <2>4. ASSUME NEW i, NEW k, Splits(p, q, i), Splits(q, p, k)
        PROVE  FALSE
    <3>1. i \in Nat /\ k \in Nat /\ i >= 1 /\ k >= 1
      BY <1>1, <2>4
    <3>2. CASE i < k
      <4>1. i \in 1 .. k - 1
        BY <3>1, <3>2
      <4> QED BY <2>4, <4>1
    <3>3. CASE k < i
      <4>1. k \in 1 .. i - 1
        BY <3>1, <3>3
      <4> QED BY <2>4, <4>1
    <3>4. CASE i = k
      BY <2>4, <3>4
    <3> QED BY <3>1, <3>2, <3>3, <3>4
  <2>5. ~(Descends(p, q) /\ Descends(q, p))
    BY <1>1 DEF Descends
  <2> QED BY <2>1, <2>2, <2>3, <2>4, <2>5
<1> QED BY <1>2, <1>3

(* A half keeps the place of its parent among the other names. *)
LEMMA HalfKeepsPlace ==
  ASSUME NEW p \in Part, NEW q \in Part, NEW h \in {HalfA(p), HalfB(p)}
  PROVE  /\ NameBefore(p, q) /\ ~Descends(p, q) => NameBefore(h, q)
         /\ NameBefore(q, p) /\ ~Descends(q, p) => NameBefore(q, h)
<1>1. /\ p.path \in Seq({"a", "b"}) /\ q.path \in Seq({"a", "b"}) /\ h.path \in Seq({"a", "b"})
      /\ Len(p.path) \in Nat /\ Len(q.path) \in Nat
      /\ Len(h.path) = Len(p.path) + 1
      /\ DOMAIN p.path = 1 .. Len(p.path) /\ DOMAIN q.path = 1 .. Len(q.path)
      /\ DOMAIN h.path = 1 .. Len(p.path) + 1
      /\ \A i \in 1 .. Len(p.path) : h.path[i] = p.path[i]
      /\ h.created = p.created /\ h.seq = p.seq
  BY PartFacts, LenProperties, HalfPath, HalfDescends
<1>2. SamePart(h, q) <=> SamePart(p, q)
  BY <1>1 DEF SamePart
<1>3. SamePart(q, h) <=> SamePart(q, p)
  BY <1>1 DEF SamePart
<1>4. ASSUME NEW i \in DOMAIN p.path \cap DOMAIN q.path
      PROVE  /\ i \in DOMAIN h.path \cap DOMAIN q.path /\ h.path[i] = p.path[i]
             /\ \A j \in 1 .. i - 1 : h.path[j] = p.path[j]
  BY <1>1, <1>4
<1>5. ASSUME NameBefore(p, q), ~Descends(p, q) PROVE NameBefore(h, q)
  <2>1. CASE p.created < q.created \/ (p.created = q.created /\ p.seq < q.seq)
    BY <1>1, <2>1 DEF NameBefore
  <2>2. CASE SamePart(p, q)
    <3>1. PICK i \in DOMAIN p.path \cap DOMAIN q.path :
             /\ \A j \in 1 .. i - 1 : p.path[j] = q.path[j]
             /\ p.path[i] = "a" /\ q.path[i] = "b"
      BY <1>5, <2>2, PartFacts DEF NameBefore, SamePart
    <3>2. /\ i \in DOMAIN h.path \cap DOMAIN q.path
          /\ \A j \in 1 .. i - 1 : h.path[j] = q.path[j]
          /\ h.path[i] = "a" /\ q.path[i] = "b"
      BY <1>4, <3>1
    <3> QED BY <1>2, <2>2, <3>2 DEF NameBefore
  <2> QED BY <1>5, <2>1, <2>2 DEF NameBefore
<1>6. ASSUME NameBefore(q, p), ~Descends(q, p) PROVE NameBefore(q, h)
  <2>1. CASE q.created < p.created \/ (q.created = p.created /\ q.seq < p.seq)
    BY <1>1, <2>1 DEF NameBefore
  <2>2. CASE SamePart(q, p)
    <3>1. PICK i \in DOMAIN q.path \cap DOMAIN p.path :
             /\ \A j \in 1 .. i - 1 : q.path[j] = p.path[j]
             /\ q.path[i] = "a" /\ p.path[i] = "b"
      BY <1>6, <2>2, PartFacts DEF NameBefore, SamePart
    <3>2. /\ i \in DOMAIN q.path \cap DOMAIN h.path
          /\ \A j \in 1 .. i - 1 : q.path[j] = h.path[j]
          /\ q.path[i] = "a" /\ h.path[i] = "b"
      BY <1>4, <3>1
    <3> QED BY <1>3, <2>2, <3>2 DEF NameBefore
  <2> QED BY <1>6, <2>1, <2>2 DEF NameBefore
<1> QED BY <1>5, <1>6

(* The first half comes before the second. *)
LEMMA HalvesInOrder ==
  ASSUME NEW p \in Part
  PROVE  NameBefore(HalfA(p), HalfB(p))
<1>1. /\ p.path \in Seq({"a", "b"}) /\ Len(p.path) \in Nat
      /\ HalfA(p).path = Append(p.path, "a") /\ HalfB(p).path = Append(p.path, "b")
      /\ SamePart(HalfA(p), HalfB(p))
  BY PartFacts, HalfBounds DEF SamePart
<1> DEFINE i == Len(p.path) + 1
<1>2. /\ i \in DOMAIN HalfA(p).path \cap DOMAIN HalfB(p).path
      /\ \A j \in 1 .. i - 1 : HalfA(p).path[j] = p.path[j] /\ HalfB(p).path[j] = p.path[j]
      /\ HalfA(p).path[i] = "a" /\ HalfB(p).path[i] = "b"
  BY <1>1, AppendProperties
<1> HIDE DEF i
<1> QED BY <1>1, <1>2 DEF NameBefore
-----------------------------------------------------------------------------
(* What a step does to the directory, to the drain and to what was sent *)

Writing == mu = "enqueue" /\ step = "write" /\ todo # <<>>

(* Files go, or one comes: the next part of Enqueue or a half of a split. *)
LEMMA FilesChange ==
  ASSUME SpoolInv, [Next]_vars
  PROVE  \/ files' \subseteq files
         \/ (WritePart \/ WritePartFails) /\ files' = files \cup {NextPart}
         \/ /\ Replacing /\ cur \in Elems(parts)
            /\ \E h \in {HalfA(cur), HalfB(cur)} : files' = files \cup {h}
            /\ WriteHalfA \/ WriteHalfB
<1> USE DEF memory, enqueuer, drainer, pulse, history
<1>1. CASE WriteHalfA \/ WriteHalfB
  BY <1>1 DEF WriteHalfA, WriteHalfB, WriteHalf, SpoolInv, ControlInv, LockInv, Replacing
<1>2. CASE WritePart \/ WritePartFails
  BY <1>2 DEF WritePart, WritePartFails
<1>3. ASSUME \/ \E shape \in Shapes : EnqueueCall(shape)
             \/ EnqueueLock \/ EnqueueRefuse \/ StartEvict \/ StartWrite \/ EnqueueDone
             \/ Expire \/ Evict
      PROVE  files' \subseteq files
  BY <1>3 DEF EnqueueCall, EnqueueLock, EnqueueRefuse, StartEvict, StartWrite,
     EnqueueDone, Expire, Evict, DropHead
<1>4. ASSUME \/ DrainNext \/ PeekLock \/ PeekEmpty \/ PeekHead \/ PeekFails \/ Send
             \/ SendFails \/ ReplyLost \/ OnDelivered \/ AllowSplit \/ ReplaceLock
             \/ RemoveParent \/ Cleanup \/ Quarantine \/ Discard
      PROVE  files' \subseteq files
  BY <1>4 DEF DrainNext, PeekLock, PeekEmpty, PeekHead, PeekFails, Send, SendFails,
     ReplyLost, OnDelivered, AllowSplit, ReplaceLock, RemoveParent, Cleanup, Leftovers,
     Quarantine, Discard, TakeOut
<1>5. ASSUME Opening \/ Environment \/ UNCHANGED vars
      PROVE  files' \subseteq files
  BY <1>5 DEF Opening, Open, OpenFails, Scan, ScanDone, OpenDone, Orphans, Environment,
     Tick, Crash, LateArrival, Heal, vars
<1> QED BY <1>1, <1>2, <1>3, <1>4, <1>5 DEF Next, Enqueuing, Draining

(* Drain holds what it held, nothing, or the part at the head of the queue. *)
LEMMA CurChange ==
  ASSUME SpoolInv, [Next]_vars
  PROVE  \/ cur' = cur /\ dpc' = dpc
         \/ cur' = cur /\ dpc = "idle" /\ dpc' = "peek"
         \/ cur' = cur /\ dpc \notin {"idle", "peek"} /\ dpc' \notin {"idle", "peek"}
         \/ cur' = NoPart /\ dpc' = "idle"
         \/ parts # <<>> /\ cur' = Head(parts) /\ PeekHead
<1> USE DEF drainer, DrainIdle
<1>1. CASE PeekHead
  BY <1>1 DEF PeekHead
<1>2. CASE \/ \E shape \in Shapes : EnqueueCall(shape)
           \/ Enqueuing \/ Expire \/ Evict
  BY <1>2 DEF EnqueueCall, Enqueuing, EnqueueLock, EnqueueRefuse, EnqueueReturn, StartEvict,
     StartWrite, WritePart, WritePartFails, EnqueueDone, Expire, Evict
<1>3. CASE \/ DrainNext \/ PeekLock \/ PeekEmpty \/ PeekFails \/ Send \/ SendFails
           \/ ReplyLost \/ OnDelivered \/ AllowSplit
  BY <1>3 DEF DrainNext, PeekLock, PeekEmpty, PeekFails, Send, SendFails, ReplyLost,
     OnDelivered, AllowSplit
<1>4. CASE \/ ReplaceLock \/ WriteHalfA \/ WriteHalfB \/ RemoveParent \/ Cleanup
           \/ Quarantine \/ Discard
  BY <1>4 DEF ReplaceLock, WriteHalfA, WriteHalfB, WriteHalf, RemoveParent, Cleanup,
     Quarantine, Discard
<1>5. CASE Opening \/ Environment \/ UNCHANGED vars
  BY <1>5 DEF Opening, Open, OpenFails, Scan, ScanDone, OpenDone, Environment,
     Tick, Crash, LateArrival, Heal, vars
<1> QED BY <1>1, <1>2, <1>3, <1>4, <1>5 DEF Next, Draining

(* Only Drain's part and requests underway come to Pulse. *)
LEMMA StoredChange ==
  ASSUME SpoolInv, [Next]_vars
  PROVE  \/ UNCHANGED <<stored, late>>
         \/ Send /\ Ingest(cur) /\ late' = late /\ dpc = "send"
         \/ SendFails /\ late' = late \cup {cur} /\ stored' = stored /\ dpc = "send"
         \/ \E p \in late : /\ LateArrival /\ Ingest(p) /\ late' = late \ {p}
                            /\ now < p.created + KeyLife
<1> USE DEF pulse
<1>1. CASE Send \/ SendFails \/ LateArrival
  BY <1>1 DEF Send, SendFails, LateArrival
<1>2. CASE \/ \E shape \in Shapes : EnqueueCall(shape)
           \/ Enqueuing \/ Expire \/ Evict
  BY <1>2 DEF EnqueueCall, Enqueuing, EnqueueLock, EnqueueRefuse, EnqueueReturn, StartEvict,
     StartWrite, WritePart, WritePartFails, EnqueueDone, Expire, Evict
<1>3. CASE \/ DrainNext \/ PeekLock \/ PeekEmpty \/ PeekHead \/ PeekFails
           \/ ReplyLost \/ OnDelivered \/ AllowSplit
  BY <1>3 DEF DrainNext, PeekLock, PeekEmpty, PeekHead, PeekFails, ReplyLost,
     OnDelivered, AllowSplit
<1>4. CASE \/ ReplaceLock \/ WriteHalfA \/ WriteHalfB \/ RemoveParent \/ Cleanup
           \/ Quarantine \/ Discard
  BY <1>4 DEF ReplaceLock, WriteHalfA, WriteHalfB, WriteHalf, RemoveParent, Cleanup,
     Quarantine, Discard
<1>5. CASE Opening \/ Tick \/ Crash \/ Heal \/ UNCHANGED vars
  BY <1>5 DEF Opening, Open, OpenFails, Scan, ScanDone, OpenDone, Tick, Crash, Heal, vars
<1> QED BY <1>1, <1>2, <1>3, <1>4, <1>5 DEF Next, Draining, Environment

(* Pulse appends the body of the request, or nothing. *)
LEMMA IngestAppends ==
  ASSUME TypeOK, NEW p \in Part, Ingest(p), NEW q \in Elems(stored')
  PROVE  \/ q \in Elems(stored)
         \/ /\ q = [first |-> p.first, last |-> p.last, at |-> now]
            /\ ~Remembered(p) /\ Items(p) \cap bad = {}
            /\ stored' = Append(stored, q)
<1> DEFINE b == [first |-> p.first, last |-> p.last, at |-> now]
<1>1. b \in Batch /\ stored \in Seq(Batch)
  BY TypeFacts, PartFacts DEF Batch
<1>2. Elems(Append(stored, b)) = Elems(stored) \cup {b}
  BY <1>1, ElemsAppend
<1>3. CASE stored' = stored
  BY <1>3
<1>4. CASE stored' = Append(stored, b) /\ Verdict(p) = "delivered" /\ ~Remembered(p)
  BY <1>2, <1>4 DEF Verdict
<1> QED BY <1>3, <1>4 DEF Ingest

(* Items are numbered by integers wherever they are. *)
LEMMA BodyTypes ==
  ASSUME TypeOK
  PROVE  /\ \A p \in Bodies : p.first \in Int /\ p.last \in Int
         /\ \A k \in DOMAIN todo : todo[k].first \in Int /\ todo[k].last \in Int
         /\ NoPart \in Part /\ NoPart.first = 1 /\ NoPart.last = 0 /\ ~Filled(NoPart)
<1>1. \A q \in Elems(stored) : q.first \in Int /\ q.last \in Int
  <2>1. stored \in Seq(Batch)
    BY TypeFacts
  <2>2. Elems(stored) \subseteq Batch
    BY <2>1 DEF Elems
  <2> QED BY <2>2 DEF Batch
<1>2. \A p \in files \cup {cur} \cup late : p.first \in Int /\ p.last \in Int
  BY TypeFacts, PartFacts
<1>3. todo \in Seq(Body)
  BY DEF TypeOK, CallTypes
<1>4. \A k \in DOMAIN todo : todo[k].first \in Int /\ todo[k].last \in Int
  <2>1. \A k \in DOMAIN todo : todo[k] \in Body
    BY <1>3
  <2> QED BY <2>1 DEF Body
<1>5. NoPart \in Part /\ NoPart.first = 1 /\ NoPart.last = 0 /\ ~Filled(NoPart)
  <2>1. <<>> \in Seq({"a", "b"})
    OBVIOUS
  <2> QED BY <2>1 DEF NoPart, Part, Filled
<1> QED BY <1>1, <1>2, <1>4, <1>5 DEF Bodies, Sent

(* A body that is new is the next of Enqueue's, lies within one there was, *)
(* or is that of no part at all.                                           *)
Within(q, p) ==
  Filled(q) /\ p.first <= q.first /\ q.last <= p.last /\ q.last \in Int
LEMMA BodiesChange ==
  ASSUME SpoolInv, PartsFilled, [Next]_vars, NEW q \in Bodies'
  PROVE  \/ q = NoPart /\ q \notin files' \cup Sent'
         \/ Filled(q) /\ q \in Bodies
         \/ (WritePart \/ WritePartFails) /\ q = NextPart
         \/ \E p \in Bodies : Within(q, p)
<1> USE DEF SpoolInv
<1>1. /\ \A p \in Bodies : p.first \in Int /\ p.last \in Int
      /\ \A p \in files \cup Sent : p \in Bodies /\ Filled(p)
      /\ cur \in Bodies /\ (Filled(cur) \/ cur = NoPart)
      /\ ~Filled(NoPart)
  BY BodyTypes DEF PartsFilled, Bodies
<1>2. CASE q \in files'
  <2>1. CASE q \in files
    BY <1>1, <2>1
  <2>2. ASSUME NEW h \in {HalfA(cur), HalfB(cur)}, q = h, Replacing
        PROVE  Within(q, cur)
    <3>1. dpc = "replace" /\ Divisible(cur) /\ Filled(cur) /\ cur \in Part
      BY <2>2, TypeFacts DEF PartsFilled, ControlInv, LockInv
    <3> QED BY <2>2, <3>1, HalfFilled, PartFacts DEF Within
  <2> QED BY <1>1, <1>2, <2>1, <2>2, FilesChange
<1>3. CASE q \in Sent'
  <2>1. ASSUME NEW p \in Bodies, Filled(p), q.first = p.first, q.last = p.last
        PROVE  Within(q, p)
    BY <1>1, <2>1 DEF Within, Filled
  <2>2. CASE q \in Sent
    BY <1>1, <2>2
  <2>3. ASSUME NEW p \in late \cup {cur}, Ingest(p), q \in Elems(stored'), q \notin Sent
        PROVE  q.first = p.first /\ q.last = p.last
    BY <2>3, IngestAppends, TypeFacts DEF Sent
  <2>4. CASE Send /\ Ingest(cur) /\ late' = late /\ dpc = "send"
    <3>1. Filled(cur)
      BY <2>4 DEF PartsFilled
    <3> QED BY <1>1, <1>3, <2>1, <2>2, <2>3, <2>4, <3>1 DEF Sent
  <2>5. CASE SendFails /\ late' = late \cup {cur} /\ stored' = stored /\ dpc = "send"
    <3>1. Filled(cur)
      BY <2>5 DEF PartsFilled
    <3> QED BY <1>1, <1>3, <2>2, <2>5, <3>1 DEF Sent
  <2>6. ASSUME NEW p \in late, Ingest(p), late' = late \ {p}
        PROVE  q \in Sent \/ Within(q, p)
    <3>1. p \in Bodies /\ Filled(p)
      BY <1>1 DEF Sent
    <3> QED BY <1>3, <2>1, <2>3, <2>6, <3>1 DEF Sent
  <2>7. CASE UNCHANGED <<stored, late>>
    BY <1>3, <2>2, <2>7 DEF Sent
  <2>8. \A p \in late : p \in Bodies
    BY DEF Bodies, Sent
  <2> QED BY <2>2, <2>4, <2>5, <2>6, <2>7, <2>8, <1>1, StoredChange
<1>4. CASE q = cur' /\ q \notin files' \cup Sent'
  <2>1. parts # <<>> => Head(parts) \in files
    BY ElemsTail, TypeFacts DEF DiskInv, QueueOnDisk
  <2> QED BY <1>1, <1>4, <2>1, CurChange
<1> QED BY <1>2, <1>3, <1>4 DEF Bodies

(* No part becomes empty. *)
LEMMA StepPartsFilled ==
  ASSUME SpoolInv, PartsFilled, TodoNewest, [Next]_vars
  PROVE  PartsFilled'
<1> USE DEF SpoolInv
<1>1. ASSUME NEW q \in files' \cup Sent'
      PROVE  Filled(q)
  <2>1. CASE (WritePart \/ WritePartFails) /\ q = NextPart
    <3>1. todo # <<>> /\ todo \in Seq(Body)
      BY <2>1 DEF WritePart, WritePartFails, TypeOK, CallTypes
    <3>2. 1 \in DOMAIN todo /\ Head(todo) = todo[1]
      BY <3>1
    <3>3. Filled(todo[1])
      BY <3>2 DEF TodoNewest
    <3> QED BY <2>1, <3>2, <3>3 DEF NextPart, Filled
  <2> QED BY <1>1, <2>1, BodiesChange DEF Bodies, Within
<1>2. Filled(cur)' \/ (cur' = NoPart /\ dpc' \in {"idle", "peek"})
  <2>1. parts # <<>> => Head(parts) \in files
    BY ElemsTail, TypeFacts DEF DiskInv, QueueOnDisk
  <2> QED BY <2>1, CurChange DEF PartsFilled, Filled
<1>3. dpc' = "replace" => Divisible(cur)'
  <2>1. CASE AllowSplit
    BY <2>1 DEF AllowSplit, DrainIdle, Divisible
  <2>2. CASE UNCHANGED <<dpc, cur>>
    BY <2>2 DEF PartsFilled, Divisible
  <2>3. CASE dpc' # "replace"
    BY <2>3
  <2> USE DEF drainer, DrainIdle
  <2>4. CASE \/ \E shape \in Shapes : EnqueueCall(shape)
             \/ Enqueuing \/ Expire \/ Evict
    BY <2>2, <2>4 DEF EnqueueCall, Enqueuing, EnqueueLock, EnqueueRefuse, EnqueueReturn,
       StartEvict, StartWrite, WritePart, WritePartFails, EnqueueDone, Expire, Evict
  <2>5. CASE \/ DrainNext \/ PeekLock \/ PeekEmpty \/ PeekHead \/ PeekFails \/ Send
             \/ SendFails \/ ReplyLost \/ OnDelivered
    BY <2>2, <2>3, <2>5 DEF DrainNext, PeekLock, PeekEmpty, PeekHead, PeekFails, Send,
       SendFails, ReplyLost, OnDelivered
  <2>6. CASE \/ ReplaceLock \/ WriteHalfA \/ WriteHalfB \/ RemoveParent \/ Cleanup
             \/ Quarantine \/ Discard
    BY <2>2, <2>3, <2>6 DEF ReplaceLock, WriteHalfA, WriteHalfB, WriteHalf, RemoveParent,
       Cleanup, Quarantine, Discard
  <2>7. CASE Opening \/ Environment \/ UNCHANGED vars
    BY <2>2, <2>3, <2>7 DEF Opening, Open, OpenFails, Scan, ScanDone, OpenDone,
       Environment, Tick, Crash, LateArrival, Heal, vars
  <2> QED BY <2>1, <2>4, <2>5, <2>6, <2>7 DEF Next, Draining
<1> QED BY <1>1, <1>2, <1>3 DEF PartsFilled

(* What Enqueue still has to write: a new batch, one part less, or nothing. *)
LEMMA TodoChange ==
  ASSUME SpoolInv, [Next]_vars
  PROVE  \/ UNCHANGED <<todo, made>> /\ ~WritePart /\ ~WritePartFails
         \/ todo' = <<>> /\ made' = made
         \/ WritePart /\ todo # <<>> /\ todo' = Tail(todo) /\ made' = made
         \/ \E shape \in Shapes : EnqueueCall(shape)
<1> USE DEF enqueuer
<1>1. CASE WritePart
  BY <1>1 DEF WritePart
<1>2. CASE WritePartFails \/ EnqueueRefuse \/ EnqueueDone \/ Crash
  BY <1>2 DEF WritePartFails, EnqueueRefuse, EnqueueDone, EnqueueReturn, Crash
<1>3. ASSUME EnqueueLock \/ StartEvict \/ StartWrite \/ Expire \/ Evict
      PROVE  UNCHANGED <<todo, made>>
  BY <1>3 DEF EnqueueLock, StartEvict, StartWrite, Expire, Evict
<1>4. ASSUME \/ DrainNext \/ PeekLock \/ PeekEmpty \/ PeekHead \/ PeekFails \/ Send
             \/ SendFails \/ ReplyLost \/ OnDelivered \/ AllowSplit
      PROVE  UNCHANGED <<todo, made>>
  BY <1>4 DEF DrainNext, PeekLock, PeekEmpty, PeekHead, PeekFails, Send, SendFails,
     ReplyLost, OnDelivered, AllowSplit
<1>5. ASSUME \/ ReplaceLock \/ WriteHalfA \/ WriteHalfB \/ RemoveParent \/ Cleanup
             \/ Quarantine \/ Discard
      PROVE  UNCHANGED <<todo, made>>
  BY <1>5 DEF ReplaceLock, WriteHalfA, WriteHalfB, WriteHalf, RemoveParent, Cleanup,
     Quarantine, Discard
<1>6. ASSUME Opening \/ Tick \/ LateArrival \/ Heal \/ UNCHANGED vars
      PROVE  UNCHANGED <<todo, made>>
  BY <1>6 DEF Opening, Open, OpenFails, Scan, ScanDone, OpenDone, Tick, LateArrival, Heal,
     vars
<1> QED BY <1>1, <1>2, <1>3, <1>4, <1>5, <1>6 DEF Next, Enqueuing, Draining, Environment

(* The next body of Enqueue. *)
LEMMA NextBody ==
  ASSUME TypeOK, TodoNewest, todo # <<>>
  PROVE  /\ 1 \in DOMAIN todo /\ todo \in Seq(Body)
         /\ NextPart.first = todo[1].first /\ NextPart.last = todo[1].last
         /\ NextPart.first \in Int /\ NextPart.last \in Int
         /\ Filled(NextPart) /\ NextPart.last <= made
         /\ \A p \in Bodies : Before(p, NextPart)
<1>1. todo \in Seq(Body)
  BY DEF TypeOK, CallTypes
<1>2. 1 \in DOMAIN todo /\ Head(todo) = todo[1]
  BY <1>1
<1>3. NextPart.first = todo[1].first /\ NextPart.last = todo[1].last
  BY <1>2 DEF NextPart
<1> QED BY <1>1, <1>2, <1>3, BodyTypes DEF TodoNewest, Filled, Before

(* The bodies of a new batch follow all that was collected before. *)
LEMMA BatchNewest ==
  ASSUME SpoolInv, PartsFilled, TodoNewest, NEW shape \in Shapes, EnqueueCall(shape)
  PROVE  TodoNewest'
<1>1. /\ shape \in Seq(Nat \ {0}) /\ shape # <<>>
      /\ \A j, k \in DOMAIN shape : j < k => shape[j] < shape[k]
  BY ShapesAssumption
<1> DEFINE n == Len(shape)
<1>2. /\ n \in Nat \ {0} /\ DOMAIN shape = 1 .. n
      /\ \A k \in 1 .. n : shape[k] \in Nat /\ shape[k] >= 1 /\ shape[k] <= shape[n]
  BY <1>1
<1>3. /\ made \in Nat /\ made' = made + shape[n] /\ DOMAIN todo' = 1 .. n
      /\ \A k \in 1 .. n :
           /\ todo'[k].first = made + 1 + (IF k = 1 THEN 0 ELSE shape[k - 1])
           /\ todo'[k].last = made + shape[k]
      /\ UNCHANGED <<files, cur, late, stored>>
  BY <1>2 DEF EnqueueCall, SpoolInv, TypeOK, CallTypes, drainer, pulse
<1> HIDE DEF n
<1>4. Bodies' = Bodies
  BY <1>3 DEF Bodies, Sent
<1>5. \A p \in Bodies : p.first \in Int /\ p.last \in Int /\ p.last <= made
  BY BodyTypes DEF SpoolInv, TodoNewest
<1>6. /\ \A k \in 1 .. n : k # 1 => k - 1 \in 1 .. n /\ shape[k - 1] < shape[k]
      /\ \A j, k \in 1 .. n : j < k => shape[j] <= shape[k]
  <2>1. \A j, k \in 1 .. n : j < k => shape[j] < shape[k]
    BY <1>1, <1>2
  <2>2. \A k \in 1 .. n : k # 1 => k - 1 \in 1 .. n /\ k - 1 < k
    BY <1>2
  <2>3. \A k \in 1 .. n : shape[k] \in Nat
    BY <1>2
  <2> QED BY <2>1, <2>2, <2>3
<1>7. ASSUME NEW k \in 1 .. n
      PROVE  /\ todo'[k].first \in Int /\ todo'[k].last \in Int
             /\ made < todo'[k].first /\ todo'[k].first <= todo'[k].last
             /\ todo'[k].last <= made'
  <2>1. CASE k = 1
    <3>1. todo'[k].first = made + 1 + 0
      BY <1>3, <2>1
    <3> QED BY <1>2, <1>3, <2>1, <3>1
  <2>2. CASE k # 1
    <3>1. /\ todo'[k].first = made + 1 + shape[k - 1]
          /\ todo'[k].last = made + shape[k]
      BY <1>3, <2>2
    <3>2. /\ shape[k - 1] \in Nat /\ shape[k] \in Nat /\ shape[n] \in Nat
          /\ shape[k - 1] < shape[k] /\ shape[k] <= shape[n]
      BY <1>2, <1>6, <2>2
    <3>3. made \in Nat /\ made' = made + shape[n]
      BY <1>3
    <3> QED BY <3>1, <3>2, <3>3
  <2> QED BY <2>1, <2>2
<1>8. ASSUME NEW k \in 1 .. n
      PROVE  /\ Filled(todo'[k])
             /\ \A p \in Bodies : Before(p, todo'[k])
  BY <1>3, <1>5, <1>7 DEF Filled, Before
<1>9. ASSUME NEW j \in 1 .. n, NEW k \in 1 .. n, j < k
      PROVE  Before(todo'[j], todo'[k])
  <2>1. k # 1 /\ k - 1 \in 1 .. n /\ j <= k - 1 /\ shape[j] <= shape[k - 1]
    <3>1. k # 1 /\ k - 1 \in 1 .. n /\ (j = k - 1 \/ j < k - 1)
      BY <1>2, <1>9
    <3> QED BY <1>2, <1>6, <3>1
  <2>2. todo'[k].first = made + 1 + shape[k - 1] /\ todo'[j].last = made + shape[j]
    BY <1>3, <2>1
  <2> QED BY <1>2, <1>3, <2>1, <2>2 DEF Before
<1>10. \A p \in Bodies : p.last <= made'
  BY <1>2, <1>3, <1>5
<1> QED BY <1>3, <1>4, <1>7, <1>8, <1>9, <1>10 DEF TodoNewest

(* Enqueue's bodies stay newer than all there is. *)
LEMMA StepTodoNewest ==
  ASSUME SpoolInv, PartsFilled, TodoNewest, [Next]_vars
  PROVE  TodoNewest'
<1> USE DEF SpoolInv
<1>1. CASE \E shape \in Shapes : EnqueueCall(shape)
  BY <1>1, BatchNewest
<1>2. ASSUME made' = made, NEW q \in Bodies'
      PROVE  q.last <= made'
  <2>1. made \in Nat /\ NoPart.last = 0
    BY BodyTypes DEF TypeOK, CallTypes
  <2>2. CASE (WritePart \/ WritePartFails) /\ q = NextPart
    BY <1>2, <2>2, NextBody DEF WritePart, WritePartFails
  <2>3. ASSUME NEW p \in Bodies, Within(q, p)
        PROVE  q.last <= made
    <3>1. q.last \in Int /\ p.last \in Int
      BY <2>3, BodyTypes DEF Within
    <3> QED BY <2>1, <2>3, <3>1 DEF TodoNewest, Within
  <2> QED BY <1>2, <2>1, <2>2, <2>3, BodiesChange DEF TodoNewest
<1>3. CASE todo' = <<>> /\ made' = made
  BY <1>2, <1>3 DEF TodoNewest
<1>4. ASSUME NEW b \in Bodies', NEW k \in DOMAIN todo,
             \/ UNCHANGED <<todo, made>> /\ ~WritePart /\ ~WritePartFails
             \/ WritePart /\ k # 1
      PROVE  Before(b, todo[k])
  <2>1. /\ todo[k].first \in Int /\ todo[k].first >= 1 /\ NoPart.last = 0
        /\ \A p \in Bodies : Before(p, todo[k]) /\ p.last \in Int
    BY BodyTypes DEF TodoNewest, Filled
  <2>2. CASE b = NextPart /\ WritePart /\ k # 1
    <3>1. todo # <<>>
      BY <2>2 DEF WritePart
    <3>2. 1 \in DOMAIN todo /\ NextPart.last = todo[1].last /\ todo \in Seq(Body)
      BY <3>1, NextBody
    <3>3. 1 < k
      BY <2>2, <3>2
    <3> QED BY <2>2, <3>2, <3>3 DEF TodoNewest, Before
  <2>3. CASE ~(b = NextPart /\ WritePart)
    <3>1. b = NoPart \/ b \in Bodies \/ \E p \in Bodies : Within(b, p)
      BY <1>4, <2>3, BodiesChange DEF WritePart, WritePartFails
    <3> QED BY <2>1, <3>1 DEF Before, Within
  <2> QED BY <1>4, <2>2, <2>3
<1>5. CASE UNCHANGED <<todo, made>> /\ ~WritePart /\ ~WritePartFails
  BY <1>2, <1>4, <1>5 DEF TodoNewest
<1>6. CASE WritePart /\ todo # <<>> /\ todo' = Tail(todo) /\ made' = made
  <2>1. todo \in Seq(Body) /\ todo # <<>>
    BY <1>6 DEF TypeOK, CallTypes
  <2>2. /\ Len(todo) \in Nat /\ DOMAIN todo = 1 .. Len(todo)
        /\ DOMAIN todo' = 1 .. Len(todo) - 1
        /\ \A k \in 1 .. Len(todo) - 1 : todo'[k] = todo[k + 1]
    BY <1>6, <2>1, HeadTailProperties
  <2>3. ASSUME NEW k \in DOMAIN todo'
        PROVE  k + 1 \in DOMAIN todo /\ k + 1 # 1 /\ todo'[k] = todo[k + 1]
    BY <2>2
  <2>4. ASSUME NEW k \in DOMAIN todo'
        PROVE  /\ Filled(todo'[k]) /\ todo'[k].last <= made'
               /\ \A p \in Bodies' : Before(p, todo'[k])
    BY <1>4, <1>6, <2>3 DEF TodoNewest
  <2>5. ASSUME NEW j \in DOMAIN todo', NEW k \in DOMAIN todo', j < k
        PROVE  Before(todo'[j], todo'[k])
    <3>1. j + 1 < k + 1
      BY <2>2, <2>5
    <3> QED BY <2>3, <3>1 DEF TodoNewest
  <2> QED BY <1>2, <1>6, <2>4, <2>5 DEF TodoNewest
<1> QED BY <1>1, <1>3, <1>5, <1>6, TodoChange

(* The control of Enqueue and the clock it works by. *)
LEMMA StepEnqueueControl ==
  ASSUME SpoolInv, NamesGrow, [Next]_vars
  PROVE  /\ mu' = "enqueue" => epc' = "lock"
         /\ mu' = "load" => epc' = "idle"
         /\ epc' # "lock" => todo' = <<>>
         /\ stamp' <= now' /\ now <= now'
         /\ epc' = "lock" => \/ epc = "lock" /\ stamp' = stamp
                             \/ stamp' = now /\ UNCHANGED files
<1> USE DEF SpoolInv, NamesGrow, memory, enqueuer, drainer, Acquire, Release
<1>1. /\ now \in Nat /\ stamp \in Nat /\ stamp <= now
      /\ mu = "enqueue" => epc = "lock"
      /\ mu = "load" => epc = "idle"
      /\ epc # "lock" => todo = <<>>
  BY DEF TypeOK, WorldTypes, CallTypes
<1> HIDE DEF SpoolInv, NamesGrow
<1>2. CASE \E shape \in Shapes : EnqueueCall(shape)
  BY <1>1, <1>2 DEF EnqueueCall
<1>3. CASE Enqueuing
  BY <1>1, <1>3 DEF Enqueuing, EnqueueLock, EnqueueRefuse, EnqueueReturn, StartEvict,
     StartWrite, WritePart, WritePartFails, EnqueueDone
<1>4. CASE Expire \/ Evict
  BY <1>1, <1>4 DEF Expire, Evict
<1>5. CASE \/ DrainNext \/ PeekLock \/ PeekEmpty \/ PeekHead \/ PeekFails \/ Send
           \/ SendFails \/ ReplyLost \/ OnDelivered \/ AllowSplit
  BY <1>1, <1>5 DEF DrainNext, PeekLock, PeekEmpty, PeekHead, PeekFails, Send,
     SendFails, ReplyLost, OnDelivered, AllowSplit
<1>6. CASE ReplaceLock \/ RemoveParent \/ Cleanup
  <2>1. mu' \in {mu, "free", "drain"}
    BY <1>6 DEF ReplaceLock, RemoveParent, Cleanup
  <2>2. UNCHANGED <<epc, stamp, todo, now>>
    BY <1>6 DEF ReplaceLock, RemoveParent, Cleanup
  <2> QED BY <1>1, <2>1, <2>2
<1>7. CASE WriteHalfA \/ WriteHalfB \/ Quarantine \/ Discard
  <2>1. UNCHANGED <<epc, stamp, todo, now, mu>>
    BY <1>7 DEF WriteHalfA, WriteHalfB, WriteHalf, Quarantine, Discard
  <2> QED BY <1>1, <2>1
<1>8. CASE OpenFails \/ Scan \/ ScanDone \/ OpenDone
  <2>1. mu' \in {mu, "free"}
    BY <1>8 DEF OpenFails, Scan, ScanDone, OpenDone
  <2>2. UNCHANGED <<epc, todo, now>> /\ stamp' \in {0, stamp}
    BY <1>8 DEF OpenFails, Scan, ScanDone, OpenDone
  <2>3. CASE stamp' = stamp
    BY <1>1, <2>1, <2>2, <2>3
  <2>4. CASE OpenDone
    BY <1>1, <2>1, <2>2, <2>4 DEF OpenDone
  <2> QED BY <1>8, <2>3, <2>4 DEF OpenFails, Scan, ScanDone
<1>9. CASE Open
  BY <1>1, <1>9 DEF Open, SpoolInv, ControlInv, LockInv
<1>10. CASE Environment \/ UNCHANGED vars
  BY <1>1, <1>10 DEF Environment, Tick, Crash, LateArrival, Heal, vars
<1> QED BY <1>2, <1>3, <1>4, <1>5, <1>6, <1>7, <1>8, <1>9, <1>10
        DEF Next, Draining, Opening

(* No file is younger than the clock, nor than a running Enqueue. *)
LEMMA StepNamesGrow ==
  ASSUME SpoolInv, PartsFilled, NamesGrow, [Next]_vars
  PROVE  NamesGrow'
<1> USE DEF SpoolInv
<1>1. /\ now \in Nat /\ stamp \in Nat /\ files \subseteq Part /\ stamp' \in Nat /\ now' \in Nat
      /\ \A p \in files : p.created \in Nat
  BY StepTypeOK, TypeFacts, PartFacts DEF TypeOK, WorldTypes, CallTypes
<1>2. /\ stamp' <= now' /\ now <= now'
      /\ epc' = "lock" => \/ epc = "lock" /\ stamp' = stamp
                          \/ stamp' = now /\ UNCHANGED files
  BY StepEnqueueControl
<1>3. ASSUME NEW q \in files'
      PROVE  /\ q.created <= now'
             /\ epc' = "lock" => q.created <= stamp'
  <2>1. \/ q \in files
        \/ (WritePart \/ WritePartFails) /\ q = NextPart
        \/ \E p \in files : q.created = p.created /\ ~UNCHANGED files
    <3>1. cur \in Elems(parts) => cur \in files /\ cur \in Part
      BY <1>1 DEF DiskInv, QueueOnDisk
    <3>2. ASSUME cur \in Elems(parts), NEW h \in {HalfA(cur), HalfB(cur)}, q = h
          PROVE  q.created = cur.created
      BY <3>1, <3>2, HalfDescends
    <3> QED BY <1>3, <3>1, <3>2, FilesChange
  <2>2. CASE q \in files
    BY <1>1, <1>2, <2>2 DEF NamesGrow
  <2>3. CASE (WritePart \/ WritePartFails) /\ q = NextPart
    <3>1. q.created = stamp /\ (stamp' = stamp \/ epc' # "lock")
      BY <2>3 DEF NextPart, WritePart, WritePartFails, EnqueueReturn
    <3> QED BY <1>1, <1>2, <3>1 DEF NamesGrow
  <2>4. ASSUME NEW p \in files, q.created = p.created, ~UNCHANGED files
        PROVE  /\ q.created <= now'
               /\ epc' = "lock" => q.created <= stamp'
    BY <1>1, <1>2, <2>4 DEF NamesGrow
  <2> QED BY <2>1, <2>2, <2>3, <2>4
<1> QED BY <1>2, <1>3, StepEnqueueControl DEF NamesGrow

(* The file Enqueue writes comes after all others, by name and by items. *)
LEMMA NextPartLast ==
  ASSUME SpoolInv, TodoNewest, NamesGrow, WritePart \/ WritePartFails
  PROVE  \A p \in files : Ranked(p, NextPart)
<1> USE DEF SpoolInv
<1>1. /\ mu = "enqueue" /\ step = "write" /\ todo # <<>> /\ epc = "lock"
  BY DEF WritePart, WritePartFails, NamesGrow
<1>2. NextPart.created = stamp /\ NextPart.seq = seq + 1
  BY DEF NextPart
<1>3. ASSUME NEW p \in files
      PROVE  NameBefore(p, NextPart) /\ Before(p, NextPart)
  <2>1. p.created \in Nat /\ p.seq \in Nat /\ seq \in Nat /\ stamp \in Nat
    BY TypeFacts, PartFacts
  <2>2. p.created <= stamp /\ p.seq <= seq
    BY <1>1 DEF NamesGrow, DiskInv, SeqAhead
  <2>3. Before(p, NextPart)
    BY <1>1, NextBody DEF Bodies
  <2> QED BY <1>2, <2>1, <2>2, <2>3 DEF NameBefore
<1> QED BY <1>3 DEF Ranked

(* A new half is where its parent was, among all other files. *)
LEMMA HalfRanked ==
  ASSUME SpoolInv, PartsFilled, FilesRanked, Replacing, cur \in Elems(parts),
         NEW h \in {HalfA(cur), HalfB(cur)}, NEW q \in files
  PROVE  h = q \/ Descends(h, q) \/ Ranked(h, q) \/ Ranked(q, h)
<1> USE DEF SpoolInv
<1>1. /\ cur \in files /\ cur \in Part /\ q \in Part /\ h \in Part
      /\ ~Descends(cur, q)
      /\ Descends(q, cur) => q \in {HalfA(cur), HalfB(cur)}
  BY TypeFacts DEF DiskInv, QueueOnDisk, DirectHalves
<1>2. Divisible(cur) /\ Filled(cur)
  BY DEF PartsFilled, ControlInv, LockInv
<1>3. /\ cur.first <= h.first /\ h.last <= cur.last
      /\ h.first \in Int /\ h.last \in Int /\ q.first \in Int /\ q.last \in Int
      /\ cur.first \in Int /\ cur.last \in Int
  BY <1>1, <1>2, HalfFilled, PartFacts
<1>4. CASE q = cur
  BY <1>1, <1>4, HalfDescends
<1>5. CASE q \in {HalfA(cur), HalfB(cur)}
  <2>1. Ranked(HalfA(cur), HalfB(cur))
    <3>1. HalfA(cur).last < HalfB(cur).first
      <4>1. HalfA(cur).last \in Int
        BY <1>1, HalvesPartition, PartFacts
      <4> QED BY <1>1, <4>1, HalfBounds
    <3> QED BY <1>1, <3>1, HalvesInOrder DEF Ranked, Before
  <2> QED BY <1>5, <2>1
<1>6. CASE q # cur /\ q \notin {HalfA(cur), HalfB(cur)}
  <2>1. Ranked(cur, q) \/ Ranked(q, cur)
    BY <1>1, <1>6 DEF FilesRanked
  <2>2. ~Descends(q, cur)
    BY <1>1, <1>6
  <2>3. CASE Ranked(cur, q)
    BY <1>1, <1>3, <2>3, HalfKeepsPlace DEF Ranked, Before
  <2>4. CASE Ranked(q, cur)
    BY <1>1, <1>3, <2>2, <2>4, HalfKeepsPlace DEF Ranked, Before
  <2> QED BY <2>1, <2>3, <2>4
<1> QED BY <1>4, <1>5, <1>6

(* Files stay sorted by name as their items are. *)
LEMMA StepFilesRanked ==
  ASSUME SpoolInv, PartsFilled, TodoNewest, NamesGrow, FilesRanked, [Next]_vars
  PROVE  FilesRanked'
<1>1. CASE files' \subseteq files
  BY <1>1 DEF FilesRanked
<1>2. CASE (WritePart \/ WritePartFails) /\ files' = files \cup {NextPart}
  BY <1>2, NextPartLast DEF FilesRanked
<1>3. ASSUME Replacing, cur \in Elems(parts), NEW h \in {HalfA(cur), HalfB(cur)},
             files' = files \cup {h}
      PROVE  FilesRanked'
  BY <1>3, HalfRanked DEF FilesRanked
<1> QED BY <1>1, <1>2, <1>3, FilesChange

-----------------------------------------------------------------------------
(* The order of the queue *)

(* What a step does to the queue in memory. *)
LEMMA PartsChange ==
  ASSUME SpoolInv, [Next]_vars
  PROVE  \/ parts' = parts /\ bytes' = bytes
         \/ parts' = <<>> /\ bytes' = 0 /\ Crash
         \/ parts # <<>> /\ parts' = Tail(parts) /\ bytes' = bytes - Size(Head(parts))
              /\ (Expire \/ Evict)
         \/ \E i \in DOMAIN parts :
              /\ parts[i] = cur /\ parts' = CutAt(parts, i)
              /\ bytes' = bytes - Size(cur)
              /\ OnDelivered \/ Discard
         \/ \E i \in DOMAIN parts :
              /\ parts[i] = cur /\ parts' = SpliceAt(parts, i, HalfA(cur), HalfB(cur))
              /\ bytes' = SplicedBytes /\ RemoveParent /\ step = "parent"
         \/ /\ WritePart /\ todo # <<>> /\ parts' = Append(parts, NextPart)
            /\ bytes' = bytes + Size(NextPart)
         \/ /\ Scan
            /\ \E p \in files \ Elems(parts) :
                 /\ \A q \in files \ Elems(parts) : q = p \/ NameBefore(p, q)
                 /\ parts' = Append(parts, p) /\ bytes' = bytes + Size(p)
<1> USE DEF memory
<1>1. CASE Expire \/ Evict
  <2>1. parts # <<>> /\ DropHead
    BY <1>1 DEF Expire, Evict, HeadExpired, OverBudget
  <2> QED BY <1>1, <2>1 DEF DropHead
<1>2. CASE OnDelivered \/ Discard
  BY <1>2 DEF OnDelivered, Discard, TakeOut, CutAt
<1>3. CASE RemoveParent
  BY <1>3 DEF RemoveParent, Spliced, SpliceAt
<1>4. CASE WritePart \/ Scan \/ Crash
  BY <1>4 DEF WritePart, Scan, Crash
<1>5. ASSUME \/ \E shape \in Shapes : EnqueueCall(shape)
             \/ EnqueueLock \/ EnqueueRefuse \/ StartEvict \/ StartWrite \/ EnqueueDone
             \/ WritePartFails
      PROVE  parts' = parts /\ bytes' = bytes
  BY <1>5 DEF EnqueueCall, EnqueueLock, EnqueueRefuse, StartEvict, StartWrite,
     EnqueueDone, WritePartFails
<1>6. ASSUME \/ DrainNext \/ PeekLock \/ PeekEmpty \/ PeekHead \/ PeekFails \/ Send
             \/ SendFails \/ ReplyLost \/ AllowSplit \/ ReplaceLock
             \/ WriteHalfA \/ WriteHalfB \/ Cleanup \/ Quarantine
      PROVE  parts' = parts /\ bytes' = bytes
  BY <1>6 DEF DrainNext, PeekLock, PeekEmpty, PeekHead, PeekFails, Send, SendFails,
     ReplyLost, AllowSplit, ReplaceLock, WriteHalfA, WriteHalfB, WriteHalf, Cleanup,
     Quarantine
<1>7. ASSUME \/ Open \/ OpenFails \/ ScanDone \/ OpenDone
             \/ Tick \/ LateArrival \/ Heal \/ UNCHANGED vars
      PROVE  parts' = parts /\ bytes' = bytes
  BY <1>7 DEF Open, OpenFails, ScanDone, OpenDone, Tick, LateArrival, Heal, vars
<1> QED BY <1>1, <1>2, <1>3, <1>4, <1>5, <1>6, <1>7
        DEF Next, Enqueuing, Draining, Opening, Environment

(* A queue in the order its items were collected. *)
Ordered(q) == \A i, j \in DOMAIN q : i < j => Before(q[i], q[j])

(* It stays so when its head goes, *)
LEMMA OrderedTail ==
  ASSUME NEW q \in Seq(Part), q # <<>>, Ordered(q)
  PROVE  Ordered(Tail(q)) /\ \A p \in Elems(Tail(q)) : Before(Head(q), p)
<1>1. /\ Len(q) \in Nat \ {0} /\ DOMAIN q = 1 .. Len(q) /\ Head(q) = q[1]
      /\ DOMAIN Tail(q) = 1 .. Len(q) - 1
      /\ \A i \in 1 .. Len(q) - 1 : Tail(q)[i] = q[i + 1]
  BY HeadTailProperties
<1>2. ASSUME NEW i \in DOMAIN Tail(q)
      PROVE  1 \in DOMAIN q /\ i + 1 \in DOMAIN q /\ 1 < i + 1 /\ Tail(q)[i] = q[i + 1]
  BY <1>1
<1>3. ASSUME NEW i \in DOMAIN Tail(q), NEW j \in DOMAIN Tail(q), i < j
      PROVE  Before(Tail(q)[i], Tail(q)[j])
  <2>1. i + 1 < j + 1
    BY <1>1, <1>3
  <2> QED BY <1>2, <2>1 DEF Ordered
<1>4. ASSUME NEW p \in Elems(Tail(q))
      PROVE  Before(Head(q), p)
  <2>1. PICK i \in DOMAIN Tail(q) : p = Tail(q)[i]
    BY DEF Elems
  <2> QED BY <1>1, <1>2, <2>1 DEF Ordered
<1> QED BY <1>3, <1>4 DEF Ordered

(* when what is newer than all of it is appended, *)
LEMMA OrderedAppend ==
  ASSUME NEW q \in Seq(Part), Ordered(q), NEW p \in Part, \A x \in Elems(q) : Before(x, p)
  PROVE  Ordered(Append(q, p))
<1>1. /\ Len(q) \in Nat /\ DOMAIN q = 1 .. Len(q)
      /\ DOMAIN Append(q, p) = 1 .. Len(q) + 1
      /\ \A i \in 1 .. Len(q) : Append(q, p)[i] = q[i]
      /\ Append(q, p)[Len(q) + 1] = p
  OBVIOUS
<1>2. ASSUME NEW i \in 1 .. Len(q) + 1, NEW j \in 1 .. Len(q) + 1, i < j
      PROVE  Before(Append(q, p)[i], Append(q, p)[j])
  <2>1. i \in DOMAIN q /\ Append(q, p)[i] = q[i] /\ q[i] \in Elems(q)
    BY <1>1, <1>2 DEF Elems
  <2>2. CASE j \in DOMAIN q
    BY <1>1, <1>2, <2>1, <2>2 DEF Ordered
  <2>3. CASE j = Len(q) + 1
    BY <1>1, <2>1, <2>3
  <2> QED BY <1>1, <2>2, <2>3
<1> QED BY <1>1, <1>2 DEF Ordered

(* when a part is taken out, *)
LEMMA OrderedCut ==
  ASSUME NEW q \in Seq(Part), NEW i \in DOMAIN q, Ordered(q)
  PROVE  Ordered(CutAt(q, i))
<1> DEFINE rest == CutAt(q, i)
           n == Len(q)
           place(j) == IF j < i THEN j ELSE j + 1
<1>1. n \in Nat /\ DOMAIN q = 1 .. n /\ i \in 1 .. n
  OBVIOUS
<1>2. IsCut(rest, q, i)
  BY CutPlaces
<1> HIDE DEF rest
<1>3. /\ DOMAIN rest = 1 .. n - 1
      /\ \A j \in 1 .. i - 1 : rest[j] = q[j]
      /\ \A j \in i .. n - 1 : rest[j] = q[j + 1]
  BY <1>2 DEF IsCut
<1> HIDE DEF n
<1>4. ASSUME NEW j \in DOMAIN rest
      PROVE  place(j) \in DOMAIN q /\ rest[j] = q[place(j)]
  BY <1>1, <1>3
<1>5. ASSUME NEW j \in DOMAIN rest, NEW k \in DOMAIN rest, j < k
      PROVE  Before(rest[j], rest[k])
  <2>1. place(j) < place(k)
    BY <1>1, <1>3, <1>5
  <2> HIDE DEF place
  <2> QED BY <1>4, <2>1 DEF Ordered
<1>6. Ordered(rest)
  BY <1>5 DEF Ordered
<1> QED BY <1>6 DEF rest

(* and when two parts that share its items, in order, take its place. *)
LEMMA OrderedSplice ==
  ASSUME NEW q \in Seq(Part), NEW i \in DOMAIN q, Ordered(q), NEW a \in Part, NEW b \in Part,
         Within(a, q[i]), Within(b, q[i]), Before(a, b)
  PROVE  Ordered(SpliceAt(q, i, a, b))
<1> DEFINE new == SpliceAt(q, i, a, b)
           n == Len(q)
           place(j) == IF j <= i THEN j ELSE j - 1
<1>1. n \in Nat /\ DOMAIN q = 1 .. n /\ i \in 1 .. n
  OBVIOUS
<1>2. IsSplice(new, q, i, a, b)
  BY SplicePlaces
<1> HIDE DEF new
<1>3. /\ DOMAIN new = 1 .. n + 1 /\ new \in Seq(Part)
      /\ \A j \in 1 .. i - 1 : new[j] = q[j]
      /\ new[i] = a /\ new[i + 1] = b
      /\ \A j \in i + 2 .. n + 1 : new[j] = q[j - 1]
  BY <1>2 DEF IsSplice
<1>4. \A k \in 1 .. n : q[k] \in Part /\ q[k].first \in Int /\ q[k].last \in Int
  BY <1>1, PartFacts
<1>5. \A k \in 1 .. n + 1 : new[k] \in Part /\ new[k].first \in Int /\ new[k].last \in Int
  BY <1>3, PartFacts
<1> HIDE DEF n
<1>6. ASSUME NEW j \in 1 .. n + 1
      PROVE  /\ place(j) \in 1 .. n
             /\ q[place(j)].first <= new[j].first /\ new[j].last <= q[place(j)].last
  <2>1. CASE j \in 1 .. i - 1
    <3>1. place(j) = j /\ j \in 1 .. n
      BY <1>1, <2>1
    <3> QED BY <1>3, <1>4, <2>1, <3>1
  <2>2. CASE j = i
    BY <1>1, <1>3, <2>2 DEF Within
  <2>3. CASE j = i + 1
    <3>1. place(j) = i
      BY <1>1, <2>3
    <3> QED BY <1>1, <1>3, <2>3, <3>1 DEF Within
  <2>4. CASE j \in i + 2 .. n + 1
    <3>1. place(j) = j - 1 /\ j - 1 \in 1 .. n
      BY <1>1, <2>4
    <3> QED BY <1>3, <1>4, <2>4, <3>1
  <2> QED BY <1>1, <2>1, <2>2, <2>3, <2>4
<1>7. ASSUME NEW j \in 1 .. n + 1, NEW k \in 1 .. n + 1, j < k
      PROVE  Before(new[j], new[k])
  <2>1. CASE j = i /\ k = i + 1
    BY <1>3, <2>1
  <2>2. CASE ~(j = i /\ k = i + 1)
    <3>1. place(j) < place(k)
      BY <1>1, <1>7, <2>2
    <3>2. place(j) \in 1 .. n /\ place(k) \in 1 .. n
      BY <1>6
    <3> HIDE DEF place
    <3>3. q[place(j)].last < q[place(k)].first
      BY <1>1, <3>1, <3>2 DEF Ordered, Before
    <3> QED BY <1>4, <1>5, <1>6, <3>2, <3>3 DEF Before
  <2> QED BY <2>1, <2>2
<1>8. Ordered(new)
  BY <1>3, <1>7 DEF Ordered
<1> QED BY <1>8 DEF new

(* The halves take the place of their parent in order. *)
LEMMA HalvesWithin ==
  ASSUME SpoolInv, PartsFilled, Replacing
  PROVE  /\ HalfA(cur) \in Part /\ HalfB(cur) \in Part
         /\ Within(HalfA(cur), cur) /\ Within(HalfB(cur), cur)
         /\ Before(HalfA(cur), HalfB(cur))
<1>1. /\ cur \in Part /\ Divisible(cur) /\ Filled(cur)
      /\ HalfA(cur) \in Part /\ HalfB(cur) \in Part
  BY TypeFacts DEF SpoolInv, ControlInv, LockInv, PartsFilled
<1>2. HalfA(cur).last \in Int /\ HalfB(cur).last \in Int
  BY <1>1, PartFacts
<1>3. Within(HalfA(cur), cur) /\ Within(HalfB(cur), cur)
  BY <1>1, <1>2, HalfFilled DEF Within
<1>4. Before(HalfA(cur), HalfB(cur))
  BY <1>1, <1>2, HalfBounds DEF Before
<1> QED BY <1>1, <1>3, <1>4

(* What load reads next is newer than what it has read. *)
LEMMA ScanNext ==
  ASSUME SpoolInv, OrderInv, step = "scan", NEW p \in files \ Elems(parts),
         \A q \in files \ Elems(parts) : q = p \/ NameBefore(p, q)
  PROVE  /\ \A x \in Elems(parts) : Before(x, p)
         /\ \A q \in files \ Elems(parts) : q = p \/ Before(p, q)
<1>1. files \subseteq Part
  BY TypeFacts DEF SpoolInv
<1>2. ASSUME NEW q \in files \ Elems(parts), q # p
      PROVE  Before(p, q)
  <2>1. ~Descends(p, q) /\ ~Descends(q, p)
    BY DEF SpoolInv, DiskInv, DirectHalves
  <2>2. Ranked(p, q) \/ Ranked(q, p)
    BY <1>2, <2>1 DEF OrderInv, FilesRanked
  <2>3. NameBefore(p, q)
    BY <1>2
  <2> QED BY <1>1, <2>2, <2>3, NamesAsymmetric DEF Ranked
<1> QED BY <1>2 DEF OrderInv, ScannedFirst

(* load has read the older files first. *)
LEMMA StepScannedFirst ==
  ASSUME SpoolInv, OrderInv, [Next]_vars
  PROVE  ScannedFirst'
<1> USE DEF SpoolInv
<1>1. CASE step' # "scan"
  BY <1>1 DEF ScannedFirst
<1>2. CASE Open
  <2>1. parts' = <<>>
    BY <1>2 DEF Open, ControlInv, LockInv, memory
  <2>2. Elems(parts') = {}
    BY <2>1 DEF Elems
  <2> QED BY <2>2 DEF ScannedFirst
<1>3. CASE Scan
  <2>1. PICK p \in files \ Elems(parts) :
          /\ \A q \in files \ Elems(parts) : q = p \/ NameBefore(p, q)
          /\ parts' = Append(parts, p) /\ step = "scan" /\ files' = files
    BY <1>3 DEF Scan
  <2>2. Elems(parts') = Elems(parts) \cup {p}
    BY <2>1, TypeFacts, ElemsAppend
  <2>3. \A q \in files \ Elems(parts) : q = p \/ Before(p, q)
    BY <2>1, ScanNext
  <2>4. \A x \in Elems(parts), q \in files \ Elems(parts) : Before(x, q)
    BY <2>1 DEF OrderInv, ScannedFirst
  <2> QED BY <2>1, <2>2, <2>3, <2>4 DEF ScannedFirst
<1>4. CASE UNCHANGED <<files, parts, step>>
  BY <1>4 DEF OrderInv, ScannedFirst
<1> USE DEF memory, drainer, enqueuer, Acquire, Release, ControlInv, LockInv, Replacing
<1>5. CASE \/ \E shape \in Shapes : EnqueueCall(shape)
           \/ Enqueuing \/ Expire \/ Evict
  BY <1>1, <1>4, <1>5 DEF EnqueueCall, Enqueuing, EnqueueLock, EnqueueRefuse, EnqueueReturn,
     StartEvict, StartWrite, WritePart, WritePartFails, EnqueueDone, Expire, Evict
<1>6. CASE \/ DrainNext \/ PeekLock \/ PeekEmpty \/ PeekHead \/ PeekFails \/ Send
           \/ SendFails \/ ReplyLost \/ OnDelivered \/ AllowSplit
  BY <1>1, <1>4, <1>6 DEF DrainNext, PeekLock, PeekEmpty, PeekHead, PeekFails, Send,
     SendFails, ReplyLost, OnDelivered, AllowSplit
<1>7. CASE \/ ReplaceLock \/ WriteHalfA \/ WriteHalfB \/ RemoveParent \/ Cleanup
           \/ Quarantine \/ Discard
  BY <1>1, <1>4, <1>7 DEF ReplaceLock, WriteHalfA, WriteHalfB, WriteHalf, RemoveParent,
     Cleanup, Quarantine, Discard
<1>8. CASE OpenFails \/ ScanDone \/ OpenDone
  BY <1>1, <1>4, <1>8 DEF OpenFails, ScanDone, OpenDone
<1>9. CASE Environment \/ UNCHANGED vars
  BY <1>1, <1>4, <1>9 DEF Environment, Tick, Crash, LateArrival, Heal, vars
<1> QED BY <1>2, <1>3, <1>5, <1>6, <1>7, <1>8, <1>9 DEF Next, Draining, Opening

(* The queue stays in order. *)
LEMMA StepQueueOrdered ==
  ASSUME SpoolInv, OrderInv, [Next]_vars
  PROVE  QueueOrdered'
<1> USE DEF SpoolInv
<1>1. /\ parts \in Seq(Part) /\ Ordered(parts) /\ Elems(parts) \subseteq files
      /\ files \subseteq Part
  BY TypeFacts DEF OrderInv, QueueOrdered, Ordered, Before, DiskInv, QueueOnDisk
<1>2. SUFFICES Ordered(parts')
  BY DEF QueueOrdered, Ordered, Before
<1>3. CASE parts' = <<>>
  <2>1. DOMAIN parts' = {}
    BY <1>3
  <2> QED BY <2>1 DEF Ordered
<1>4. CASE parts # <<>> /\ parts' = Tail(parts)
  BY <1>1, <1>4, OrderedTail
<1>5. ASSUME NEW i \in DOMAIN parts, parts' = CutAt(parts, i)
      PROVE  Ordered(parts')
  BY <1>1, <1>5, OrderedCut
<1>6. ASSUME NEW i \in DOMAIN parts, parts[i] = cur, step = "parent",
             parts' = SpliceAt(parts, i, HalfA(cur), HalfB(cur))
      PROVE  Ordered(parts')
  <2>1. Replacing
    BY <1>6 DEF Replacing
  <2>2. /\ HalfA(cur) \in Part /\ HalfB(cur) \in Part
        /\ Within(HalfA(cur), parts[i]) /\ Within(HalfB(cur), parts[i])
        /\ Before(HalfA(cur), HalfB(cur))
    BY <1>6, <2>1, HalvesWithin DEF OrderInv
  <2> QED BY <1>1, <1>6, <2>2, OrderedSplice
<1>7. CASE WritePart /\ todo # <<>> /\ parts' = Append(parts, NextPart)
  <2>1. \A x \in files : Before(x, NextPart)
    BY <1>7, NextBody DEF OrderInv, Bodies
  <2>2. NextPart \in Part
    BY <1>7, NextPartType DEF WritePart, TypeOK
  <2> QED BY <1>1, <1>7, <2>1, <2>2, OrderedAppend
<1>8. ASSUME Scan, NEW p \in files \ Elems(parts), parts' = Append(parts, p),
             \A q \in files \ Elems(parts) : q = p \/ NameBefore(p, q)
      PROVE  Ordered(parts')
  <2>1. \A x \in Elems(parts) : Before(x, p)
    BY <1>8, ScanNext DEF Scan
  <2> QED BY <1>1, <1>8, <2>1, OrderedAppend
<1> QED BY <1>1, <1>3, <1>4, <1>5, <1>6, <1>7, <1>8, PartsChange

(* The invariant is inductive. *)
LEMMA InitOrderInv == Init => OrderInv
<1> SUFFICES ASSUME Init PROVE OrderInv
  OBVIOUS
<1>1. /\ DOMAIN parts = {} /\ DOMAIN todo = {} /\ DOMAIN stored = {}
      /\ Elems(stored) = {} /\ Bodies = {NoPart} /\ Sent = {}
  BY DEF Init, Elems, Bodies, Sent
<1>2. PartsFilled /\ TodoNewest
  BY <1>1 DEF Init, PartsFilled, TodoNewest, NoPart
<1>3. NamesGrow /\ FilesRanked /\ ScannedFirst /\ QueueOrdered
  BY <1>1 DEF Init, NamesGrow, FilesRanked, ScannedFirst, QueueOrdered
<1> QED BY <1>2, <1>3 DEF OrderInv

LEMMA StepOrderInv == SpoolInv /\ OrderInv /\ [Next]_vars => OrderInv'
  BY StepPartsFilled, StepTodoNewest, StepNamesGrow, StepFilesRanked, StepScannedFirst,
     StepQueueOrdered
     DEF OrderInv

(* Names sort as items do, and what Enqueue writes is newer than all there *)
(* is: with that the order of the queue survives restarts.                 *)
THEOREM OrderInvariant == Spec => []OrderInv
  BY InitOrderInv, StepOrderInv, SpoolInvariant, PTL DEF Spec

(* The queue is in the order of collection and has no item twice, through  *)
(* splits, evictions, failed writes and restarts.                          *)
THEOREM QueueKeepsOrder == Spec => []QueueOrdered
<1>1. OrderInv => QueueOrdered
  BY DEF OrderInv
<1> QED BY <1>1, OrderInvariant, PTL

-----------------------------------------------------------------------------
(* What is lost *)

(* Only the head of the queue is lost. *)
LEMMA LostChange ==
  ASSUME SpoolInv, [Next]_vars
  PROVE  \/ lost' = lost
         \/ /\ parts # <<>> /\ parts' = Tail(parts) /\ lost' = lost \cup Items(Head(parts))
            /\ Expire \/ Evict
<1> USE DEF history
<1>1. CASE Expire \/ Evict
  BY <1>1 DEF Expire, Evict, HeadExpired, OverBudget, DropHead
<1>2. CASE \/ \E shape \in Shapes : EnqueueCall(shape)
           \/ Enqueuing
  BY <1>2 DEF EnqueueCall, Enqueuing, EnqueueLock, EnqueueRefuse, EnqueueReturn, StartEvict,
     StartWrite, WritePart, WritePartFails, EnqueueDone
<1>3. CASE \/ DrainNext \/ PeekLock \/ PeekEmpty \/ PeekHead \/ PeekFails \/ Send
           \/ SendFails \/ ReplyLost \/ OnDelivered \/ AllowSplit
  BY <1>3 DEF DrainNext, PeekLock, PeekEmpty, PeekHead, PeekFails, Send, SendFails,
     ReplyLost, OnDelivered, AllowSplit
<1>4. CASE \/ ReplaceLock \/ WriteHalfA \/ WriteHalfB \/ RemoveParent \/ Cleanup
           \/ Quarantine \/ Discard
  BY <1>4 DEF ReplaceLock, WriteHalfA, WriteHalfB, WriteHalf, RemoveParent, Cleanup,
     Quarantine, Discard
<1>5. CASE Opening \/ Environment \/ UNCHANGED vars
  BY <1>5 DEF Opening, Open, OpenFails, Scan, ScanDone, OpenDone, Environment, Tick, Crash,
     LateArrival, Heal, vars
<1> QED BY <1>1, <1>2, <1>3, <1>4, <1>5 DEF Next, Draining

(* expire and evictFor drop the oldest telemetry there is in the queue. *)
THEOREM OldestIsLostFirst == Spec => OldestLostFirst
<1> DEFINE LostOld == \A i \in lost' \ lost, j \in ItemsOf(Elems(parts')) : i < j
<1>1. ASSUME SpoolInv, OrderInv, [Next]_vars
      PROVE  LostOld
  <2>1. CASE parts # <<>> /\ parts' = Tail(parts) /\ lost' = lost \cup Items(Head(parts))
    <3>1. parts \in Seq(Part) /\ Ordered(parts)
      BY <1>1, TypeFacts DEF SpoolInv, OrderInv, QueueOrdered, Ordered, Before
    <3>2. /\ Head(parts) \in Part /\ Elems(Tail(parts)) \subseteq Part
          /\ \A p \in Elems(Tail(parts)) : Before(Head(parts), p)
      <4>1. Elems(parts) \subseteq Part
        BY <3>1 DEF Elems
      <4> QED BY <2>1, <3>1, <4>1, OrderedTail, ElemsTail
    <3>3. ASSUME NEW i \in Items(Head(parts)), NEW j \in ItemsOf(Elems(Tail(parts)))
          PROVE  i < j
      <4>1. PICK p \in Elems(Tail(parts)) : j \in Items(p)
        BY DEF ItemsOf
      <4> QED BY <3>2, <4>1, PartFacts DEF Items, Before
    <3> QED BY <2>1, <3>3
  <2> QED BY <1>1, <2>1, LostChange
<1>2. SpoolInv /\ OrderInv /\ [Next]_vars => [LostOld]_vars
  BY <1>1
<1> HIDE DEF LostOld
<1>3. Spec => [][LostOld]_vars
  BY <1>2, SpoolInvariant, OrderInvariant, PTL DEF Spec
<1> QED BY <1>3 DEF OldestLostFirst, LostOld

-----------------------------------------------------------------------------
(* The size of the queue *)

(* The total of a queue's sizes, by its beginnings. *)
SizeSums(sums, q) == PartialSums(sums, Sizes(q), Len(q))
LEMMA SizeSumsGive ==
  ASSUME NEW q \in Seq(Part)
  PROVE  /\ \A sums : SizeSums(sums, q) => SumFunction(Sizes(q)) = sums[Len(q)]
         /\ \E sums : SizeSums(sums, q)
<1>1. Len(q) \in Nat /\ DOMAIN q = 1 .. Len(q) /\ \A i \in 1 .. Len(q) : q[i] \in Part
  OBVIOUS
<1>2. Sizes(q) \in [1 .. Len(q) -> Int]
  BY <1>1, ItemsInt DEF Sizes
<1> HIDE DEF Sizes
<1> QED BY <1>1, <1>2, SumOfPartialSums, PartialSumsOfSum DEF SizeSums

(* What is a list of such totals, in full. *)
LEMMA SizeSumsAre ==
  ASSUME NEW q \in Seq(Part), NEW sums
  PROVE  SizeSums(sums, q) <=>
           /\ sums \in [0 .. Len(q) -> Int] /\ sums[0] = 0
           /\ \A i \in 1 .. Len(q) : sums[i] = sums[i - 1] + Size(q[i])
<1>1. \A i \in 1 .. Len(q) : Sizes(q)[i] = Size(q[i])
  BY DEF Sizes
<1> QED BY <1>1 DEF SizeSums, PartialSums

(* A part more is its size more, *)
LEMMA SizesAppend ==
  ASSUME NEW q \in Seq(Part), NEW p \in Part
  PROVE  SumFunction(Sizes(Append(q, p))) = SumFunction(Sizes(q)) + Size(p)
<1> DEFINE n == Len(q)
           new == Append(q, p)
<1>1. PICK old : SizeSums(old, q)
  BY SizeSumsGive
<1>2. /\ n \in Nat /\ old \in [0 .. n -> Int] /\ old[0] = 0
      /\ \A i \in 1 .. n : old[i] = old[i - 1] + Size(q[i])
  BY <1>1, SizeSumsAre
<1>3. /\ new \in Seq(Part) /\ Len(new) = n + 1 /\ new[n + 1] = p
      /\ \A i \in 1 .. n : new[i] = q[i]
  OBVIOUS
<1>4. Size(p) \in Int
  BY ItemsInt
<1> HIDE DEF new, n
<1> DEFINE sums == [k \in 0 .. n + 1 |-> IF k <= n THEN old[k] ELSE old[n] + Size(p)]
<1>5. /\ sums \in [0 .. n + 1 -> Int] /\ sums[0] = 0
      /\ sums[n + 1] = old[n] + Size(p) /\ \A k \in 0 .. n : sums[k] = old[k]
  BY <1>2, <1>4
<1> HIDE DEF sums
<1>6. ASSUME NEW i \in 1 .. n + 1
      PROVE  sums[i] = sums[i - 1] + Size(new[i])
  <2>1. CASE i = n + 1
    <3>1. i - 1 = n /\ n \in 0 .. n
      BY <1>2, <2>1
    <3> QED BY <1>3, <1>5, <2>1, <3>1
  <2>2. CASE i # n + 1
    <3>1. i \in 1 .. n /\ i \in 0 .. n /\ i - 1 \in 0 .. n
      BY <1>2, <2>2
    <3> QED BY <1>2, <1>3, <1>5, <3>1
  <2> QED BY <2>1, <2>2
<1>7. SizeSums(sums, new)
  BY <1>3, <1>5, <1>6, SizeSumsAre
<1>8. SumFunction(Sizes(new)) = sums[n + 1] /\ SumFunction(Sizes(q)) = old[n]
  BY <1>1, <1>3, <1>7, SizeSumsGive DEF n
<1> QED BY <1>5, <1>8 DEF new

(* a part less its size less, *)
LEMMA SizesCut ==
  ASSUME NEW q \in Seq(Part), NEW i \in DOMAIN q, NEW new, IsCut(new, q, i)
  PROVE  SumFunction(Sizes(new)) = SumFunction(Sizes(q)) - Size(q[i])
<1> DEFINE n == Len(q)
<1>1. PICK old : SizeSums(old, q)
  BY SizeSumsGive
<1>2. /\ n \in Nat /\ i \in 1 .. n /\ old \in [0 .. n -> Int] /\ old[0] = 0
      /\ \A k \in 1 .. n : old[k] = old[k - 1] + Size(q[k])
  BY <1>1, SizeSumsAre
<1>3. /\ new \in Seq(Part) /\ Len(new) = n - 1
      /\ \A k \in 1 .. i - 1 : new[k] = q[k]
      /\ \A k \in i .. n - 1 : new[k] = q[k + 1]
  BY DEF IsCut
<1>4. \A k \in 1 .. n : Size(q[k]) \in Int
  BY ItemsInt
<1> HIDE DEF n
<1>10. n \in Nat /\ i \in Nat /\ 1 <= i /\ i <= n
  BY <1>2
<1> DEFINE sums == [k \in 0 .. n - 1 |-> IF k < i THEN old[k] ELSE old[k + 1] - Size(q[i])]
<1>5. /\ sums \in [0 .. n - 1 -> Int] /\ sums[0] = 0
      /\ \A k \in 0 .. i - 1 : k <= n - 1 => sums[k] = old[k]
      /\ \A k \in i .. n - 1 : sums[k] = old[k + 1] - Size(q[i])
  <2>1. /\ \A k \in 0 .. n - 1 : k \in 0 .. n /\ k + 1 \in 0 .. n
        /\ \A k \in 0 .. i - 1 : k < i /\ (k <= n - 1 => k \in 0 .. n - 1)
        /\ \A k \in i .. n - 1 : ~(k < i) /\ k \in 0 .. n - 1
        /\ 0 \in 0 .. n - 1 /\ 0 < i
    BY <1>10
  <2>2. \A k \in 0 .. n : old[k] \in Int
    BY <1>2
  <2>3. Size(q[i]) \in Int
    BY <1>2, <1>4
  <2>4. \A k \in 0 .. n - 1 : old[k] \in Int /\ old[k + 1] - Size(q[i]) \in Int
    BY <2>1, <2>2, <2>3
  <2> QED BY <1>2, <2>1, <2>4
<1> HIDE DEF sums
<1>6. ASSUME NEW k \in 1 .. n - 1
      PROVE  sums[k] = sums[k - 1] + Size(new[k])
  <2>1. CASE k < i
    <3>1. /\ k \in 1 .. n /\ k \in 0 .. i - 1 /\ k - 1 \in 0 .. i - 1 /\ k \in 1 .. i - 1
          /\ k <= n - 1 /\ k - 1 <= n - 1
      BY <1>10, <2>1
    <3> QED BY <1>2, <1>3, <1>5, <3>1
  <2>2. CASE k = i
    <3>1. /\ k \in i .. n - 1 /\ k - 1 \in 0 .. i - 1 /\ k + 1 \in 1 .. n /\ (k + 1) - 1 = k
          /\ k \in 1 .. n /\ k - 1 <= n - 1
      BY <1>10, <2>2
    <3>2. sums[k] = old[k + 1] - Size(q[k]) /\ sums[k - 1] = old[k - 1] /\ new[k] = q[k + 1]
      BY <1>3, <1>5, <2>2, <3>1
    <3>3. old[k + 1] = old[k] + Size(q[k + 1]) /\ old[k] = old[k - 1] + Size(q[k])
      BY <1>2, <3>1
    <3>4. Size(q[k]) \in Int /\ Size(q[k + 1]) \in Int /\ old[k - 1] \in Int
      BY <1>2, <1>4, <3>1
    <3> QED BY <3>2, <3>3, <3>4
  <2>3. CASE k > i
    <3>1. /\ k \in i .. n - 1 /\ k - 1 \in i .. n - 1 /\ k + 1 \in 1 .. n
          /\ (k + 1) - 1 = k /\ (k - 1) + 1 = k
      BY <1>10, <2>3
    <3>2. sums[k] = old[k + 1] - Size(q[i]) /\ sums[k - 1] = old[k] - Size(q[i])
      BY <1>5, <3>1
    <3>3. old[k + 1] = old[k] + Size(q[k + 1]) /\ new[k] = q[k + 1]
      BY <1>2, <1>3, <3>1
    <3>4. Size(q[i]) \in Int /\ Size(q[k + 1]) \in Int /\ old[k] \in Int
      BY <1>2, <1>4, <3>1
    <3> QED BY <3>2, <3>3, <3>4
  <2> QED BY <1>2, <2>1, <2>2, <2>3
<1>7. SizeSums(sums, new)
  BY <1>3, <1>5, <1>6, SizeSumsAre
<1>8. SumFunction(Sizes(new)) = sums[n - 1] /\ SumFunction(Sizes(q)) = old[n]
  BY <1>1, <1>3, <1>7, SizeSumsGive DEF n
<1>9. sums[n - 1] = old[n] - Size(q[i])
  <2>1. CASE i = n
    <3>1. n - 1 \in 0 .. i - 1 /\ n \in 1 .. n
      BY <1>2, <2>1
    <3>2. sums[n - 1] = old[n - 1] /\ old[n] = old[n - 1] + Size(q[n]) /\ old[n - 1] \in Int
      BY <1>2, <1>5, <3>1
    <3> QED BY <1>4, <2>1, <3>1, <3>2
  <2>2. CASE i # n
    <3>1. n - 1 \in i .. n - 1 /\ (n - 1) + 1 = n
      BY <1>2, <2>2
    <3> QED BY <1>5, <3>1
  <2> QED BY <2>1, <2>2
<1> QED BY <1>8, <1>9

(* and halves for a part the difference. *)
LEMMA SizesSplice ==
  ASSUME NEW q \in Seq(Part), NEW i \in DOMAIN q, NEW a \in Part, NEW b \in Part,
         NEW new, IsSplice(new, q, i, a, b)
  PROVE  SumFunction(Sizes(new)) = SumFunction(Sizes(q)) + Size(a) + Size(b) - Size(q[i])
<1> DEFINE n == Len(q)
           gain == Size(a) + Size(b) - Size(q[i])
<1>1. PICK old : SizeSums(old, q)
  BY SizeSumsGive
<1>2. /\ n \in Nat /\ i \in 1 .. n /\ old \in [0 .. n -> Int] /\ old[0] = 0
      /\ \A k \in 1 .. n : old[k] = old[k - 1] + Size(q[k])
  BY <1>1, SizeSumsAre
<1>3. /\ new \in Seq(Part) /\ Len(new) = n + 1 /\ new[i] = a /\ new[i + 1] = b
      /\ \A k \in 1 .. i - 1 : new[k] = q[k]
      /\ \A k \in i + 2 .. n + 1 : new[k] = q[k - 1]
  BY DEF IsSplice
<1>4. /\ \A k \in 1 .. n : Size(q[k]) \in Int
      /\ Size(a) \in Int /\ Size(b) \in Int /\ Size(q[i]) \in Int
  BY ItemsInt
<1>5. gain \in Int
  BY <1>4
<1> HIDE DEF n, gain
<1>6. n \in Nat /\ i \in Nat /\ 1 <= i /\ i <= n
  BY <1>2
<1> DEFINE sums == [k \in 0 .. n + 1 |-> IF k < i THEN old[k]
                                         ELSE IF k = i THEN old[i - 1] + Size(a)
                                         ELSE old[k - 1] + gain]
<1>7. /\ sums \in [0 .. n + 1 -> Int] /\ sums[0] = 0
      /\ \A k \in 0 .. i - 1 : sums[k] = old[k]
      /\ sums[i] = old[i - 1] + Size(a)
      /\ \A k \in i + 1 .. n + 1 : sums[k] = old[k - 1] + gain
  <2>1. /\ \A k \in 0 .. n + 1 : /\ k < i => k \in 0 .. n
                                 /\ ~(k < i) => k - 1 \in 0 .. n
        /\ \A k \in 0 .. i - 1 : k < i /\ k \in 0 .. n + 1
        /\ \A k \in i + 1 .. n + 1 : ~(k < i) /\ k # i /\ k \in 0 .. n + 1
        /\ 0 \in 0 .. n + 1 /\ 0 < i /\ i \in 0 .. n + 1 /\ ~(i < i)
    BY <1>6
  <2>2. \A k \in 0 .. n : old[k] \in Int
    BY <1>2
  <2>3. \A k \in 0 .. n + 1 : /\ k < i => old[k] \in Int
                              /\ ~(k < i) => /\ old[k - 1] + gain \in Int
                                             /\ old[k - 1] + Size(a) \in Int
    BY <1>4, <1>5, <2>1, <2>2
  <2> QED BY <1>2, <2>1, <2>3
<1> HIDE DEF sums
<1>8. ASSUME NEW k \in 1 .. n + 1
      PROVE  sums[k] = sums[k - 1] + Size(new[k])
  <2>1. CASE k < i
    <3>1. k \in 1 .. n /\ k \in 0 .. i - 1 /\ k - 1 \in 0 .. i - 1 /\ k \in 1 .. i - 1
      BY <1>6, <2>1
    <3> QED BY <1>2, <1>3, <1>7, <3>1
  <2>2. CASE k = i
    <3>1. k - 1 \in 0 .. i - 1
      BY <1>6, <2>2
    <3> QED BY <1>3, <1>7, <2>2, <3>1
  <2>3. CASE k = i + 1
    <3>1. k \in i + 1 .. n + 1 /\ k - 1 = i /\ i \in 1 .. n /\ i - 1 \in 0 .. n
      BY <1>6, <2>3
    <3>2. sums[k] = old[i] + gain /\ sums[k - 1] = old[i - 1] + Size(a) /\ new[k] = b
      BY <1>3, <1>7, <2>3, <3>1
    <3>3. old[i] = old[i - 1] + Size(q[i]) /\ old[i - 1] \in Int
      BY <1>2, <3>1
    <3> QED BY <1>4, <3>2, <3>3 DEF gain
  <2>4. CASE k > i + 1
    <3>1. /\ k \in i + 1 .. n + 1 /\ k - 1 \in i + 1 .. n + 1 /\ k \in i + 2 .. n + 1
          /\ k - 1 \in 1 .. n /\ (k - 1) - 1 \in 0 .. n
      BY <1>6, <2>4
    <3>2. /\ sums[k] = old[k - 1] + gain /\ sums[k - 1] = old[(k - 1) - 1] + gain
          /\ new[k] = q[k - 1]
      BY <1>3, <1>7, <3>1
    <3>3. /\ old[k - 1] = old[(k - 1) - 1] + Size(q[k - 1])
          /\ old[(k - 1) - 1] \in Int /\ Size(q[k - 1]) \in Int
      BY <1>2, <1>4, <3>1
    <3> QED BY <1>5, <3>2, <3>3
  <2> QED BY <1>6, <2>1, <2>2, <2>3, <2>4
<1>9. SizeSums(sums, new)
  BY <1>3, <1>7, <1>8, SizeSumsAre
<1>10. SumFunction(Sizes(new)) = sums[n + 1] /\ SumFunction(Sizes(q)) = old[n]
  BY <1>1, <1>3, <1>9, SizeSumsGive DEF n
<1>11. sums[n + 1] = old[n] + gain /\ old[n] \in Int
  <2>1. n + 1 \in i + 1 .. n + 1 /\ (n + 1) - 1 = n /\ n \in 0 .. n
    BY <1>6
  <2> QED BY <1>2, <1>7, <2>1
<1> QED BY <1>4, <1>10, <1>11 DEF gain

(* An empty queue has no size. *)
LEMMA EmptyIsNothing == SumFunction(Sizes(<<>>)) = 0
<1>1. <<>> \in Seq(Part) /\ Len(<<>>) = 0
  OBVIOUS
<1>2. PICK sums : SizeSums(sums, <<>>)
  BY <1>1, SizeSumsGive
<1> QED BY <1>1, <1>2, SizeSumsGive, SizeSumsAre

(* Spool.bytes follows the queue wherever it changes. *)
LEMMA StepBytesExact ==
  ASSUME SpoolInv, BytesExact, PartsFilled, [Next]_vars
  PROVE  BytesExact'
<1> USE DEF SpoolInv
<1>1. /\ parts \in Seq(Part) /\ cur \in Part /\ bytes = SumFunction(Sizes(parts))
      /\ HalfA(cur) \in Part /\ HalfB(cur) \in Part /\ bytes \in Int
  BY TypeFacts DEF BytesExact, TypeOK, SpoolTypes
<1>2. CASE parts' = parts /\ bytes' = bytes
  BY <1>2 DEF BytesExact
<1>3. CASE parts' = <<>> /\ bytes' = 0
  BY <1>3, EmptyIsNothing DEF BytesExact
<1>4. CASE parts # <<>> /\ parts' = Tail(parts) /\ bytes' = bytes - Size(Head(parts))
  <2>1. IsCut(Tail(parts), parts, 1) /\ 1 \in DOMAIN parts /\ Head(parts) = parts[1]
    <3>1. /\ Len(parts) \in Nat \ {0} /\ DOMAIN parts = 1 .. Len(parts)
          /\ Tail(parts) \in Seq(Part) /\ Len(Tail(parts)) = Len(parts) - 1
          /\ DOMAIN Tail(parts) = 1 .. Len(parts) - 1
          /\ \A j \in 1 .. Len(parts) - 1 : Tail(parts)[j] = parts[j + 1]
          /\ Head(parts) = parts[1]
      BY <1>1, <1>4, HeadTailProperties
    <3> QED BY <3>1 DEF IsCut
  <2>2. SumFunction(Sizes(Tail(parts))) = SumFunction(Sizes(parts)) - Size(parts[1])
    BY <1>1, <2>1, SizesCut
  <2> QED BY <1>1, <1>4, <2>1, <2>2 DEF BytesExact
<1>5. ASSUME NEW i \in DOMAIN parts, parts[i] = cur, parts' = CutAt(parts, i),
             bytes' = bytes - Size(cur)
      PROVE  BytesExact'
  <2>1. IsCut(parts', parts, i)
    BY <1>1, <1>5, CutPlaces
  <2> QED BY <1>1, <1>5, <2>1, SizesCut DEF BytesExact
<1>6. ASSUME NEW i \in DOMAIN parts, parts[i] = cur, bytes' = SplicedBytes,
             parts' = SpliceAt(parts, i, HalfA(cur), HalfB(cur))
      PROVE  BytesExact'
  <2>1. IsSplice(parts', parts, i, HalfA(cur), HalfB(cur))
    BY <1>1, <1>6, SplicePlaces
  <2>2. SumFunction(Sizes(parts')) = bytes + Size(HalfA(cur)) + Size(HalfB(cur)) - Size(cur)
    BY <1>1, <1>6, <2>1, SizesSplice
  <2> QED BY <1>6, <2>2 DEF BytesExact, SplicedBytes
<1>7. ASSUME NEW p \in Part, parts' = Append(parts, p), bytes' = bytes + Size(p)
      PROVE  BytesExact'
  BY <1>1, <1>7, SizesAppend DEF BytesExact
<1>8. CASE WritePart
  <2>1. NextPart \in Part
    BY <1>8, NextPartType DEF WritePart, TypeOK
  <2> QED BY <1>7, <1>8, <2>1 DEF WritePart
<1>9. ASSUME NEW p \in files \ Elems(parts), parts' = Append(parts, p), bytes' = bytes + Size(p)
      PROVE  BytesExact'
  BY <1>7, <1>9, TypeFacts
<1> QED BY <1>1, <1>2, <1>3, <1>4, <1>5, <1>6, <1>8, <1>9, PartsChange

-----------------------------------------------------------------------------
(* The budget *)

(* What the rest needs is less by the size of the first. *)
LEMMA SizeOfTail ==
  ASSUME NEW t \in Seq(Body), t # <<>>, Consecutive(t)
  PROVE  /\ Consecutive(Tail(t))
         /\ SizeOf(t) = SizeOf(Tail(t)) + Overhead + (t[1].last + 1 - t[1].first)
<1> DEFINE n == Len(t)
<1>1. /\ n \in Nat /\ n >= 1 /\ DOMAIN t = 1 .. n /\ \A k \in 1 .. n : t[k] \in Body
      /\ Tail(t) \in Seq(Body) /\ Len(Tail(t)) = n - 1 /\ DOMAIN Tail(t) = 1 .. n - 1
      /\ \A k \in 1 .. n - 1 : Tail(t)[k] = t[k + 1]
  BY HeadTailProperties
<1>2. \A k \in 1 .. n : t[k].first \in Int /\ t[k].last \in Int
  BY <1>1 DEF Body
<1> HIDE DEF n
<1>3. Consecutive(Tail(t))
  <2>1. ASSUME NEW k \in 1 .. n - 1, k # 1
        PROVE  Tail(t)[k].first = Tail(t)[k - 1].last + 1
    <3>1. /\ k + 1 \in 1 .. n /\ k + 1 # 1 /\ k - 1 \in 1 .. n - 1
          /\ (k + 1) - 1 = k /\ (k - 1) + 1 = k
      BY <1>1, <2>1
    <3>2. t[k + 1].first = t[k].last + 1
      BY <1>1, <3>1 DEF Consecutive
    <3> QED BY <1>1, <3>1, <3>2
  <2> QED BY <1>1, <2>1 DEF Consecutive
<1>4. CASE n = 1
  <2>1. Tail(t) = <<>>
    BY <1>1, <1>4
  <2>2. SizeOf(Tail(t)) = 0 /\ Overhead \in Nat /\ Overhead * 1 = Overhead
    BY <2>1, SizesAssumption DEF SizeOf
  <2>3. SizeOf(t) = Overhead * 1 + (t[1].last + 1 - t[1].first)
    BY <1>4 DEF SizeOf, n
  <2>4. t[1].first \in Int /\ t[1].last \in Int
    BY <1>1, <1>2
  <2> QED BY <1>3, <2>2, <2>3, <2>4
<1>5. CASE n # 1
  <2>1. 2 \in 1 .. n /\ 1 \in 1 .. n - 1 /\ n - 1 \in 1 .. n - 1 /\ (n - 1) + 1 = n /\ n \in 1 .. n
        /\ 2 - 1 = 1 /\ 1 + 1 = 2
    BY <1>1, <1>5
  <2>2. Tail(t) # <<>> /\ Tail(t)[n - 1] = t[n] /\ Tail(t)[1] = t[2]
    <3>1. Tail(t)[n - 1] = t[(n - 1) + 1] /\ Tail(t)[1] = t[1 + 1]
      BY <1>1, <2>1
    <3>2. Len(Tail(t)) # 0 /\ Len(<<>>) = 0
      BY <1>1, <1>5
    <3>3. Tail(t) # <<>>
      BY <3>2, Zenon
    <3> QED BY <2>1, <3>1, <3>3
  <2>3. SizeOf(Tail(t)) = Overhead * (n - 1) + (t[n].last + 1 - t[2].first)
    BY <1>1, <2>2 DEF SizeOf
  <2>4. SizeOf(t) = Overhead * n + (t[n].last + 1 - t[1].first)
    BY DEF SizeOf, n
  <2>5. t[2].first = t[1].last + 1
    BY <1>1, <2>1 DEF Consecutive
  <2>6. Overhead * n = Overhead * (n - 1) + Overhead
    BY <1>1, SizesAssumption
  <2>7. Overhead * n \in Int /\ Overhead * (n - 1) \in Int /\ Overhead \in Int
    BY <1>1, SizesAssumption
  <2>8. /\ t[1].first \in Int /\ t[1].last \in Int /\ t[2].first \in Int
        /\ t[n].last \in Int
    BY <1>1, <1>2, <2>1
  <2> DEFINE all == Overhead * n
             rest == Overhead * (n - 1)
             f1 == t[1].first
             l1 == t[1].last
             f2 == t[2].first
             ln == t[n].last
             before == SizeOf(t)
             after == SizeOf(Tail(t))
  <2>9. /\ all = rest + Overhead /\ all \in Int /\ rest \in Int /\ Overhead \in Int
        /\ f1 \in Int /\ l1 \in Int /\ f2 \in Int /\ ln \in Int /\ f2 = l1 + 1
        /\ after = rest + (ln + 1 - f2) /\ before = all + (ln + 1 - f1)
    BY <2>3, <2>4, <2>5, <2>6, <2>7, <2>8
  <2> HIDE DEF all, rest, f1, l1, f2, ln, before, after
  <2>10. before = after + Overhead + (l1 + 1 - f1)
    BY <2>9
  <2> QED BY <1>3, <2>10 DEF before, after, f1, l1
<1> QED BY <1>4, <1>5

LEMMA SizeOfInt ==
  ASSUME NEW t \in Seq(Body)
  PROVE  SizeOf(t) \in Int
<1>1. CASE t = <<>>
  BY <1>1 DEF SizeOf
<1>2. CASE t # <<>>
  <2>1. Len(t) \in Nat /\ 1 \in DOMAIN t /\ Len(t) \in DOMAIN t
    BY <1>2
  <2>2. t[1] \in Body /\ t[Len(t)] \in Body
    BY <2>1
  <2>3. t[1].first \in Int /\ t[Len(t)].last \in Int
    BY <2>2 DEF Body
  <2>4. Overhead * Len(t) \in Int
    BY <2>1, SizesAssumption
  <2> QED BY <1>2, <2>3, <2>4 DEF SizeOf
<1> QED BY <1>1, <1>2

(* A new batch is as large as queue() says, and its parts follow. *)
LEMMA BatchSize ==
  ASSUME SpoolInv, NEW shape \in Shapes, EnqueueCall(shape)
  PROVE  Consecutive(todo') /\ total' = SizeOf(todo')
<1> DEFINE n == Len(shape)
<1>1. shape \in Seq(Nat \ {0}) /\ shape # <<>>
  BY ShapesAssumption
<1>2. n \in Nat \ {0} /\ DOMAIN shape = 1 .. n /\ \A k \in 1 .. n : shape[k] \in Nat
  BY <1>1
<1>3. /\ todo' = [k \in 1 .. n |->
                    [first |-> made + 1 + (IF k = 1 THEN 0 ELSE shape[k - 1]),
                     last |-> made + shape[k]]]
      /\ total' = Overhead * n + shape[n]
  BY <1>2 DEF EnqueueCall
<1>4. made \in Nat
  BY DEF SpoolInv, TypeOK, CallTypes
<1> HIDE DEF n
<1>5. /\ DOMAIN todo' = 1 .. n
      /\ \A k \in 1 .. n :
           /\ todo'[k].first = made + 1 + (IF k = 1 THEN 0 ELSE shape[k - 1])
           /\ todo'[k].last = made + shape[k]
  BY <1>3
<1>6. Consecutive(todo')
  <2>1. ASSUME NEW k \in 1 .. n, k # 1
        PROVE  todo'[k].first = todo'[k - 1].last + 1
    <3>1. k - 1 \in 1 .. n /\ shape[k - 1] \in Nat
      BY <1>2, <2>1
    <3>2. todo'[k].first = made + 1 + shape[k - 1] /\ todo'[k - 1].last = made + shape[k - 1]
      BY <1>5, <2>1, <3>1
    <3> QED BY <1>4, <3>1, <3>2
  <2> QED BY <1>5, <2>1 DEF Consecutive
<1>7. Len(todo') = n /\ todo' # <<>>
  <2>1. todo' \in Seq(Body)
    BY StepTypeOK DEF SpoolInv, Next, TypeOK, CallTypes
  <2> QED BY <1>2, <1>5, <2>1
<1>8. todo'[1].first = made + 1 /\ todo'[n].last = made + shape[n]
  BY <1>2, <1>4, <1>5
<1>9. SizeOf(todo') = Overhead * n + (made + shape[n] + 1 - (made + 1))
  BY <1>7, <1>8 DEF SizeOf
<1>10. made + shape[n] + 1 - (made + 1) = shape[n]
  BY <1>2, <1>4
<1> QED BY <1>3, <1>6, <1>9, <1>10

(* The size of what is still to be written is no less than nothing. *)
LEMMA SizeOfTodo ==
  ASSUME TypeOK, TodoNewest
  PROVE  SizeOf(todo) \in Int /\ SizeOf(todo) >= 0
<1>1. todo \in Seq(Body) /\ Overhead \in Nat
  BY SizesAssumption DEF TypeOK, CallTypes
<1>2. CASE todo = <<>>
  BY <1>2 DEF SizeOf
<1>3. CASE todo # <<>>
  <2> DEFINE n == Len(todo)
  <2>1. n \in Nat /\ n >= 1 /\ DOMAIN todo = 1 .. n /\ 1 \in 1 .. n /\ n \in 1 .. n
    BY <1>1, <1>3
  <2>2. /\ todo[1].first \in Int /\ todo[1].last \in Int
        /\ todo[n].first \in Int /\ todo[n].last \in Int
    BY <2>1, BodyTypes
  <2>3. todo[1].first <= todo[n].last
    <3>1. Filled(todo[1]) /\ Filled(todo[n]) /\ (1 < n => Before(todo[1], todo[n]))
      BY <2>1 DEF TodoNewest
    <3> HIDE DEF n
    <3> QED BY <2>1, <2>2, <3>1 DEF Filled, Before
  <2>4. SizeOf(todo) = Overhead * n + (todo[n].last + 1 - todo[1].first)
    BY <1>3 DEF SizeOf
  <2>5. Overhead * n \in Nat
    BY <1>1, <2>1
  <2> QED BY <2>2, <2>3, <2>4, <2>5
<1> QED BY <1>2, <1>3

(* evictFor makes the room that the writes after it use up. *)
LEMMA StepRoomMade ==
  ASSUME SpoolInv, OrderInv, BudgetInv, [Next]_vars
  PROVE  RoomMade'
<1> USE DEF SpoolInv, ControlInv, memory, enqueuer, drainer, Acquire, Release
<1>1. /\ total \in Nat /\ bytes \in Int /\ MaxBytes \in Nat /\ todo \in Seq(Body)
      /\ SizeOf(<<>>) = 0 /\ Consecutive(<<>>)
  BY SizesAssumption DEF TypeOK, CallTypes, SpoolTypes, SizeOf, Consecutive
<1>2. CASE \E shape \in Shapes : EnqueueCall(shape)
  <2>1. PICK shape \in Shapes : EnqueueCall(shape)
    BY <1>2
  <2>2. Consecutive(todo') /\ total' = SizeOf(todo')
    BY <2>1, BatchSize
  <2>3. step \notin {"evict", "write"} /\ step' = step
    BY <2>1 DEF EnqueueCall, LockInv, OrderInv, NamesGrow, BudgetInv, RoomMade
  <2> QED BY <2>2, <2>3 DEF RoomMade
<1>3. CASE todo' = <<>> /\ total' = 0 /\ step' = "none"
  BY <1>1, <1>3 DEF RoomMade
<1>4. ASSUME UNCHANGED <<todo, total>>,
             (step' \notin {"evict", "write"} /\ step # "write") \/ UNCHANGED <<step, mu, bytes>>
      PROVE  RoomMade'
  BY <1>4 DEF BudgetInv, RoomMade
<1>5. CASE EnqueueRefuse \/ EnqueueDone \/ WritePartFails \/ Crash
  BY <1>3, <1>5 DEF EnqueueRefuse, EnqueueDone, WritePartFails, EnqueueReturn, Crash
<1>6. CASE EnqueueLock
  BY <1>4, <1>6 DEF EnqueueLock, LockInv
<1>7. CASE StartEvict
  <2>1. /\ UNCHANGED <<todo, total, mu>> /\ step = "expire" /\ step' = "evict"
        /\ total <= MaxBytes /\ mu \in {"enqueue", "load"}
    BY <1>7 DEF StartEvict
  <2> QED BY <2>1 DEF BudgetInv, RoomMade
<1>8. CASE StartWrite
  <2>1. /\ UNCHANGED <<todo, total, bytes, parts, mu>> /\ step = "evict" /\ step' = "write"
        /\ parts = <<>> \/ ~(bytes + total > MaxBytes)
        /\ total = SizeOf(todo) /\ total <= MaxBytes
    BY <1>8 DEF StartWrite, OverBudget, BudgetInv, RoomMade
  <2>2. parts = <<>> => bytes = 0
    BY EmptyIsNothing DEF BudgetInv, BytesExact
  <2>3. bytes' + SizeOf(todo') <= MaxBytes
    BY <1>1, <2>1, <2>2
  <2> QED BY <2>1, <2>3 DEF BudgetInv, RoomMade
<1>9. CASE WritePart
  <2>1. /\ step = "write" /\ step' = step /\ total' = total /\ todo # <<>>
        /\ todo' = Tail(todo) /\ bytes' = bytes + Size(NextPart)
        /\ Consecutive(todo) /\ bytes + SizeOf(todo) <= MaxBytes /\ total <= MaxBytes
    BY <1>9 DEF WritePart, BudgetInv, RoomMade
  <2>2. /\ Consecutive(Tail(todo))
        /\ SizeOf(todo) = SizeOf(Tail(todo)) + Overhead + (todo[1].last + 1 - todo[1].first)
    BY <1>1, <2>1, SizeOfTail
  <2>3. /\ Size(NextPart) = Overhead + (todo[1].last + 1 - todo[1].first)
        /\ Overhead \in Int /\ todo[1].last \in Int /\ todo[1].first \in Int
    BY <2>1, NextBody, SizesAssumption DEF OrderInv, Size
  <2>4. SizeOf(Tail(todo)) \in Int
    <3>1. Tail(todo) \in Seq(Body)
      BY <1>1, <2>1
    <3> QED BY <3>1, SizeOfInt
  <2>5. bytes' + SizeOf(todo') <= MaxBytes
    <3> HIDE DEF SpoolInv, ControlInv, memory, enqueuer, drainer, Acquire, Release
    <3>1. Size(NextPart) \in Int /\ SizeOf(todo) = SizeOf(Tail(todo)) + Size(NextPart)
      BY <2>2, <2>3, <2>4
    <3>2. bytes \in Int /\ bytes' = bytes + Size(NextPart) /\ SizeOf(todo') = SizeOf(Tail(todo))
      BY <1>1, <2>1
    <3>3. bytes + SizeOf(todo) <= MaxBytes /\ MaxBytes \in Int
      BY <1>1, <2>1
    <3> QED BY <2>4, <3>1, <3>2, <3>3
  <2> QED BY <2>1, <2>2, <2>5 DEF RoomMade
<1>10. CASE Expire \/ Evict
  <2>1. /\ UNCHANGED <<todo, total, mu, step>> /\ step \in {"expire", "evict"}
    BY <1>10 DEF Expire, Evict
  <2> QED BY <2>1 DEF BudgetInv, RoomMade
<1>11. CASE OnDelivered \/ Discard \/ RemoveParent \/ Cleanup
  <2>1. /\ UNCHANGED <<todo, total>> /\ step \notin {"evict", "write"}
        /\ step' \notin {"evict", "write"}
    BY <1>11 DEF OnDelivered, Discard, RemoveParent, Cleanup, LockInv
  <2> QED BY <1>4, <2>1
<1>12. CASE \/ DrainNext \/ PeekLock \/ PeekEmpty \/ PeekHead \/ PeekFails \/ Send
            \/ SendFails \/ ReplyLost \/ AllowSplit \/ Quarantine
  BY <1>4, <1>12 DEF DrainNext, PeekLock, PeekEmpty, PeekHead, PeekFails, Send,
     SendFails, ReplyLost, AllowSplit, Quarantine, LockInv
<1>13. CASE ReplaceLock \/ WriteHalfA \/ WriteHalfB
  <2>1. /\ UNCHANGED <<todo, total, bytes>>
        /\ UNCHANGED <<step, mu>> \/ (step # "write" /\ step' \notin {"evict", "write"})
    BY <1>13 DEF ReplaceLock, WriteHalfA, WriteHalfB, WriteHalf, LockInv
  <2> QED BY <1>4, <2>1
<1>14. CASE Opening
  <2>1. /\ UNCHANGED <<todo, total>>
        /\ UNCHANGED <<step, mu, bytes>> \/ (step # "write" /\ step' \notin {"evict", "write"})
    BY <1>14 DEF Opening, Open, OpenFails, Scan, ScanDone, OpenDone, LockInv
  <2> QED BY <1>4, <2>1
<1>15. CASE Tick \/ LateArrival \/ Heal \/ UNCHANGED vars
  BY <1>4, <1>15 DEF Tick, LateArrival, Heal, vars
<1> QED BY <1>2, <1>5, <1>6, <1>7, <1>8, <1>9, <1>10, <1>11, <1>12, <1>13, <1>14, <1>15
        DEF Next, Enqueuing, Draining, Environment

(* The invariant is inductive. *)
LEMMA InitBudgetInv == Init => BudgetInv
<1> SUFFICES ASSUME Init PROVE BudgetInv
  OBVIOUS
<1>1. RoomMade
  BY DEF Init, RoomMade, SizeOf, Consecutive
<1>2. BytesExact
  BY EmptyIsNothing DEF Init, BytesExact
<1> QED BY <1>1, <1>2 DEF BudgetInv

LEMMA StepBudgetInv == SpoolInv /\ OrderInv /\ BudgetInv /\ [Next]_vars => BudgetInv'
  BY StepRoomMade, StepBytesExact DEF BudgetInv, OrderInv

THEOREM BudgetInvariant == Spec => []BudgetInv
  BY InitBudgetInv, StepBudgetInv, SpoolInvariant, OrderInvariant, PTL DEF Spec

(* Spool.bytes is always the size of what is queued. *)
THEOREM BytesAreExact == Spec => []BytesExact
<1>1. BudgetInv => BytesExact
  BY DEF BudgetInv
<1> QED BY <1>1, BudgetInvariant, PTL

(* Enqueue and Open leave the queue within its budget. *)
THEOREM BudgetIsRestored == Spec => BudgetRestored
<1> DEFINE Restored == Finishes => bytes' <= MaxBytes
<1>1. ASSUME SpoolInv, OrderInv, BudgetInv, [Next]_vars
      PROVE  [Restored]_vars
  <2> USE DEF SpoolInv, ControlInv, memory, enqueuer, drainer, Acquire, Release
  <2>1. SUFFICES ASSUME Finishes, ~UNCHANGED vars, Next PROVE bytes' <= MaxBytes
    BY <1>1
  <2>2. /\ step \in {"evict", "write"} /\ mu' = "free" /\ epc' = "idle" /\ mu # "free"
        /\ mu \in {"enqueue", "load"}
    BY <1>1, <2>1 DEF Finishes, LockInv, BudgetInv, RoomMade
  <2>3. /\ bytes \in Int /\ MaxBytes \in Nat /\ SizeOf(todo) \in Int /\ SizeOf(todo) >= 0
        /\ total \in Nat
        /\ total = SizeOf(todo) \/ step = "write"
    BY <1>1, SizeOfTodo, SizesAssumption
       DEF TypeOK, SpoolTypes, CallTypes, OrderInv, BudgetInv, RoomMade
  <2>4. CASE EnqueueDone \/ WritePartFails
    <3>1. step = "write" /\ bytes' = bytes
      BY <2>4 DEF EnqueueDone, WritePartFails
    <3>2. bytes + SizeOf(todo) <= MaxBytes
      BY <1>1, <3>1 DEF BudgetInv, RoomMade
    <3> QED BY <2>3, <3>1, <3>2
  <2>5. CASE OpenDone
    <3>1. /\ step = "evict" /\ bytes' = bytes
          /\ parts = <<>> \/ ~(bytes + total > MaxBytes)
      BY <2>5 DEF OpenDone, OverBudget
    <3>2. parts = <<>> => bytes = 0
      BY <1>1, EmptyIsNothing DEF BudgetInv, BytesExact
    <3> QED BY <2>3, <3>1, <3>2
  <2>6. ASSUME \/ \E shape \in Shapes : EnqueueCall(shape)
               \/ EnqueueLock \/ EnqueueRefuse \/ StartEvict \/ StartWrite \/ WritePart
               \/ Expire \/ Evict
        PROVE  FALSE
    BY <2>2, <2>6 DEF EnqueueCall, EnqueueLock, EnqueueRefuse, StartEvict, StartWrite,
       WritePart, Expire, Evict
  <2>7. ASSUME \/ DrainNext \/ PeekLock \/ PeekEmpty \/ PeekHead \/ PeekFails \/ Send
               \/ SendFails \/ ReplyLost \/ OnDelivered \/ AllowSplit
        PROVE  FALSE
    BY <2>2, <2>7 DEF DrainNext, PeekLock, PeekEmpty, PeekHead, PeekFails, Send,
       SendFails, ReplyLost, OnDelivered, AllowSplit
  <2>8. ASSUME \/ ReplaceLock \/ WriteHalfA \/ WriteHalfB \/ RemoveParent \/ Cleanup
               \/ Quarantine \/ Discard
        PROVE  FALSE
    BY <2>2, <2>8 DEF ReplaceLock, WriteHalfA, WriteHalfB, WriteHalf, RemoveParent,
       Cleanup, Quarantine, Discard
  <2>9. ASSUME Open \/ OpenFails \/ Scan \/ ScanDone \/ Environment
        PROVE  FALSE
    BY <2>2, <2>9 DEF Open, OpenFails, Scan, ScanDone, Environment, Tick, Crash,
       LateArrival, Heal
  <2> QED BY <2>1, <2>4, <2>5, <2>6, <2>7, <2>8, <2>9 DEF Next, Enqueuing, Draining, Opening
<1>2. SpoolInv /\ OrderInv /\ BudgetInv /\ [Next]_vars => [Restored]_vars
  BY <1>1
<1> HIDE DEF Restored
<1>3. Spec => [][Restored]_vars
  BY <1>2, SpoolInvariant, OrderInvariant, BudgetInvariant, PTL DEF Spec
<1> QED BY <1>3 DEF BudgetRestored, Restored
=============================================================================
