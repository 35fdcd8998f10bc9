----------------------------- MODULE SpoolProofs -----------------------------
(***************************************************************************)
(* Proofs about the spool for every value of the constants: any number of  *)
(* batches, crashes and faults, any budget and any clock.                  *)
(***************************************************************************)
EXTENDS SpoolProperties, SequenceTheorems, TLAPS
-----------------------------------------------------------------------------
(* Parts and names *)

(* Cutting a part loses no item and adds none. *)
LEMMA HalvesPartition ==
  ASSUME NEW p \in Part
  PROVE  /\ Items(HalfA(p)) \cup Items(HalfB(p)) = Items(p)
         /\ HalfA(p) \in Part /\ HalfB(p) \in Part
<1>1. /\ HalfA(p).first = p.first /\ HalfA(p).last = Middle(p) - 1
      /\ HalfB(p).first = Middle(p) /\ HalfB(p).last = p.last
      /\ HalfA(p) \in Part /\ HalfB(p) \in Part
  <2>1. /\ Middle(p) \in Int /\ Middle(p) - 1 \in Int
        /\ p.path \in Seq({"a", "b"})
        /\ p \in [created: Nat, seq: Nat, path: Seq({"a", "b"}), first: Int, last: Int]
    BY DEF Part, Middle
  <2>2. Append(p.path, "a") \in Seq({"a", "b"}) /\ Append(p.path, "b") \in Seq({"a", "b"})
    BY <2>1
  <2>3. HalfA(p).first = p.first /\ HalfA(p).last = Middle(p) - 1
    BY DEF Part, HalfA
  <2>4. HalfB(p).first = Middle(p) /\ HalfB(p).last = p.last
    BY DEF Part, HalfB
  <2>5. HalfA(p) \in Part
    BY <2>1, <2>2 DEF Part, HalfA
  <2>6. HalfB(p) \in Part
    BY <2>1, <2>2 DEF Part, HalfB
  <2> QED BY <2>3, <2>4, <2>5, <2>6
<1>2. /\ p.first < p.last => p.first <= Middle(p) /\ Middle(p) <= p.last
      /\ p.first >= p.last => Middle(p) <= p.first
      /\ p.first > p.last => Middle(p) > p.last
      /\ p.first = p.last => Middle(p) = p.first
      /\ Middle(p) \in Int
  BY DEF Part, Middle
<1>3. /\ Items(HalfA(p)) = p.first .. (Middle(p) - 1)
      /\ Items(HalfB(p)) = Middle(p) .. p.last
  BY <1>1 DEF Items
<1>4. (p.first .. (Middle(p) - 1)) \cup (Middle(p) .. p.last) = p.first .. p.last
  <2>1. p.first \in Int /\ p.last \in Int
    BY DEF Part
  <2> QED BY <1>2, <2>1
<1> QED BY <1>1, <1>3, <1>4 DEF Items

(* The name of a half: one branch longer than its parent's. *)
LEMMA HalfPath ==
  ASSUME NEW p \in Part, NEW h \in {HalfA(p), HalfB(p)}
  PROVE  /\ h.path \in Seq({"a", "b"})
         /\ Len(h.path) = Len(p.path) + 1
         /\ \A i \in 1 .. Len(p.path) : h.path[i] = p.path[i]
<1>1. p.path \in Seq({"a", "b"})
  BY DEF Part
<1>2. PICK x \in {"a", "b"} : h.path = Append(p.path, x)
  BY DEF Part, HalfA, HalfB
<1> QED BY <1>1, <1>2, AppendProperties

(* A half descends from its parent, and from what its parent descends from. *)
LEMMA HalfDescends ==
  ASSUME NEW p \in Part, NEW h \in {HalfA(p), HalfB(p)}
  PROVE  /\ Descends(h, p)
         /\ h.created = p.created /\ h.seq = p.seq
         /\ Len(h.path) = Len(p.path) + 1
         /\ SubSeq(h.path, 1, Len(p.path)) = p.path
         /\ h # p
<1>1. /\ h.created = p.created /\ h.seq = p.seq
      /\ p.path \in Seq({"a", "b"})
  BY DEF Part, HalfA, HalfB
<1>2. /\ Len(h.path) = Len(p.path) + 1
      /\ Len(p.path) \in Nat
      /\ h.path \in Seq({"a", "b"})
  BY <1>1, HalfPath
<1>3. SubSeq(h.path, 1, Len(p.path)) = p.path
  <2>1. \A i \in 1 .. Len(p.path) : h.path[i] = p.path[i]
    BY HalfPath
  <2>2. SubSeq(h.path, 1, Len(p.path)) \in Seq({"a", "b"})
    BY <1>1, <1>2
  <2>3. /\ Len(SubSeq(h.path, 1, Len(p.path))) = Len(p.path)
        /\ \A i \in 1 .. Len(p.path) : SubSeq(h.path, 1, Len(p.path))[i] = h.path[i]
    BY <1>1, <1>2
  <2> QED BY <1>1, <2>1, <2>2, <2>3, SeqEqual
<1> QED BY <1>1, <1>2, <1>3 DEF Descends, SamePart

(* Names and ancestry: what a half descends from, its parent is or descends *)
(* from; what descends from a half, or has its name, descends from the      *)
(* parent; and descent goes over two levels.                                *)
LEMMA Ancestry ==
  ASSUME NEW p \in Part, NEW h \in {HalfA(p), HalfB(p)}, NEW q \in Part
  PROVE  /\ Descends(h, q) => \/ SamePart(p, q) /\ p.path = q.path
                              \/ Descends(p, q)
         /\ Descends(q, h) => Descends(q, p)
         /\ SamePart(q, h) /\ q.path = h.path => Descends(q, p)
<1>1. /\ p.path \in Seq({"a", "b"}) /\ q.path \in Seq({"a", "b"})
      /\ Len(p.path) \in Nat /\ Len(q.path) \in Nat
      /\ h \in Part /\ h.path \in Seq({"a", "b"})
  <2>1. h \in Part
    BY HalvesPartition
  <2>2. /\ p.path \in Seq({"a", "b"}) /\ q.path \in Seq({"a", "b"})
        /\ h.path \in Seq({"a", "b"})
    BY HalfPath DEF Part
  <2> QED BY <2>1, <2>2, LenProperties
<1>2. ASSUME Descends(h, q)
      PROVE  (SamePart(p, q) /\ p.path = q.path) \/ Descends(p, q)
  <2>1. /\ SamePart(p, q) /\ Len(q.path) <= Len(p.path)
        /\ SubSeq(h.path, 1, Len(q.path)) = q.path
    <3>1. /\ SamePart(h, q) /\ Len(q.path) < Len(h.path)
          /\ SubSeq(h.path, 1, Len(q.path)) = q.path
      BY <1>2 DEF Descends
    <3>2. h.created = p.created /\ h.seq = p.seq /\ Len(h.path) = Len(p.path) + 1
      BY HalfDescends
    <3>3. SamePart(p, q)
      BY <3>1, <3>2 DEF SamePart
    <3> QED BY <1>1, <3>1, <3>2, <3>3
  <2>2. \A i \in 1 .. Len(p.path) : h.path[i] = p.path[i]
    BY HalfPath
  <2>3. SubSeq(p.path, 1, Len(q.path)) = q.path
    <3>1. /\ SubSeq(p.path, 1, Len(q.path)) \in Seq({"a", "b"})
          /\ Len(SubSeq(p.path, 1, Len(q.path))) = Len(q.path)
          /\ \A i \in 1 .. Len(q.path) : SubSeq(p.path, 1, Len(q.path))[i] = p.path[i]
      BY <1>1, <2>1
    <3>2. \A i \in 1 .. Len(q.path) : q.path[i] = h.path[i]
      <4>1. Len(q.path) <= Len(h.path)
        BY <1>1, <2>1, HalfDescends
      <4>2. \A i \in 1 .. Len(q.path) : SubSeq(h.path, 1, Len(q.path))[i] = h.path[i]
        BY <1>1, <4>1
      <4> QED BY <2>1, <4>2
    <3> QED BY <1>1, <2>1, <2>2, <3>1, <3>2, SeqEqual
  <2>4. CASE Len(q.path) = Len(p.path)
    <3>1. SubSeq(p.path, 1, Len(p.path)) = p.path
      BY <1>1, SubSeqFull
    <3> QED BY <2>1, <2>3, <2>4, <3>1
  <2>5. CASE Len(q.path) < Len(p.path)
    BY <2>1, <2>3, <2>5 DEF Descends
  <2> QED BY <1>1, <2>1, <2>4, <2>5
<1>3. ASSUME Descends(q, h)
      PROVE  Descends(q, p)
  <2>1. /\ SamePart(q, p) /\ Len(p.path) < Len(q.path) /\ Len(h.path) < Len(q.path)
        /\ SubSeq(q.path, 1, Len(h.path)) = h.path
    <3>1. /\ SamePart(q, h) /\ Len(h.path) < Len(q.path)
          /\ SubSeq(q.path, 1, Len(h.path)) = h.path
      BY <1>3 DEF Descends
    <3>2. h.created = p.created /\ h.seq = p.seq /\ Len(h.path) = Len(p.path) + 1
      BY HalfDescends
    <3>3. SamePart(q, p)
      BY <3>1, <3>2 DEF SamePart
    <3> QED BY <1>1, <3>1, <3>2, <3>3
  <2>2. SubSeq(q.path, 1, Len(p.path)) = p.path
    <3>1. /\ SubSeq(q.path, 1, Len(p.path)) \in Seq({"a", "b"})
          /\ Len(SubSeq(q.path, 1, Len(p.path))) = Len(p.path)
          /\ \A i \in 1 .. Len(p.path) : SubSeq(q.path, 1, Len(p.path))[i] = q.path[i]
      BY <1>1, <2>1
    <3>2. \A i \in 1 .. Len(h.path) : h.path[i] = q.path[i]
      <4>1. \A i \in 1 .. Len(h.path) : SubSeq(q.path, 1, Len(h.path))[i] = q.path[i]
        BY <1>1, <2>1
      <4> QED BY <2>1, <4>1
    <3>3. \A i \in 1 .. Len(p.path) : h.path[i] = p.path[i]
      BY HalfPath
    <3>4. Len(h.path) = Len(p.path) + 1
      BY HalfDescends
    <3> QED BY <1>1, <3>1, <3>2, <3>3, <3>4, SeqEqual
  <2> QED BY <2>1, <2>2 DEF Descends
<1>4. ASSUME SamePart(q, h), q.path = h.path
      PROVE  Descends(q, p)
  BY <1>1, <1>4, HalfDescends DEF Descends, SamePart
<1> QED BY <1>2, <1>3, <1>4
-----------------------------------------------------------------------------
(* Type correctness *)

(* Every variable has its type in the beginning. *)
LEMMA InitTypeOK == Init => TypeOK
<1> SUFFICES ASSUME Init PROVE TypeOK
  OBVIOUS
<1>1. ControlTypes
  BY DEF Init, ControlTypes
<1>2. NoPart \in Part /\ <<>> \in Seq(Part) /\ <<>> \in Seq(Body) /\ <<>> \in Seq(Batch)
  <2>1. <<>> \in Seq({"a", "b"})
    OBVIOUS
  <2> QED BY <2>1 DEF Part, NoPart
<1>3. SpoolTypes
  BY <1>2, SizesAssumption DEF Init, SpoolTypes, NoWindow
<1>4. CallTypes
  BY <1>2 DEF Init, CallTypes
<1>5. WorldTypes
  BY <1>2, EnvironmentAssumption DEF Init, WorldTypes
<1> QED BY <1>1, <1>3, <1>4, <1>5 DEF TypeOK

(* Items and sizes of a part are integers. *)
LEMMA ItemsInt == \A p \in Part : Items(p) \subseteq Int /\ Size(p) \in Int
  BY SizesAssumption DEF Part, Items, Size

(* The values every step moves through control stay among those declared. *)
LEMMA StepControlTypes ==
  ASSUME ControlTypes, [Next]_vars
  PROVE  ControlTypes'
<1> USE DEF ControlTypes, memory, enqueuer, drainer, pulse, history, Acquire,
            Release, DrainIdle
<1>1. ASSUME NEW shape \in Shapes, EnqueueCall(shape)
      PROVE  ControlTypes'
  BY <1>1 DEF EnqueueCall
<1>2. CASE Enqueuing
  BY <1>2 DEF Enqueuing, EnqueueLock, EnqueueRefuse, StartEvict, StartWrite,
       WritePart, WritePartFails, EnqueueDone, EnqueueReturn
<1>3. CASE Expire \/ Evict
  BY <1>3 DEF Expire, Evict
<1>4. CASE DrainNext \/ PeekLock \/ PeekEmpty \/ PeekHead \/ PeekFails
  BY <1>4 DEF DrainNext, PeekLock, PeekEmpty, PeekHead, PeekFails
<1>5. CASE Send \/ SendFails \/ ReplyLost \/ OnDelivered
  BY <1>5 DEF Send, Verdict, SendFails, ReplyLost, OnDelivered
<1>6. CASE AllowSplit \/ ReplaceLock
  BY <1>6 DEF AllowSplit, ReplaceLock
<1>7. CASE WriteHalfA \/ WriteHalfB
  BY <1>7 DEF WriteHalfA, WriteHalfB, WriteHalf
<1>8. CASE RemoveParent \/ Cleanup \/ Quarantine \/ Discard
  BY <1>8 DEF RemoveParent, Cleanup, Quarantine, Discard
<1>9. CASE Open \/ OpenFails
  BY <1>9 DEF Open, OpenFails
<1>10. CASE Scan \/ ScanDone \/ OpenDone
  BY <1>10 DEF Scan, ScanDone, OpenDone
<1>11. CASE Environment
  BY <1>11 DEF Environment, Tick, Crash, LateArrival, Heal
<1>12. CASE UNCHANGED vars
  BY <1>12 DEF vars
<1> QED BY <1>1, <1>2, <1>3, <1>4, <1>5, <1>6, <1>7, <1>8, <1>9, <1>10, <1>11, <1>12
        DEF Next, Draining, Opening

(* Cutting a sequence around one of its places. *)
LEMMA CutType ==
  ASSUME NEW q \in Seq(Part), NEW i \in DOMAIN q
  PROVE  /\ SubSeq(q, 1, i - 1) \in Seq(Part)
         /\ Len(SubSeq(q, 1, i - 1)) = i - 1
         /\ \A j \in 1 .. i - 1 : SubSeq(q, 1, i - 1)[j] = q[j]
         /\ SubSeq(q, i + 1, Len(q)) \in Seq(Part)
         /\ Len(SubSeq(q, i + 1, Len(q))) = Len(q) - i
         /\ \A j \in 1 .. Len(q) - i : SubSeq(q, i + 1, Len(q))[j] = q[i + j]
<1>1. Len(q) \in Nat /\ i \in 1 .. Len(q)
  OBVIOUS
<1>2. /\ \A j \in 1 .. i - 1 : q[j] \in Part
      /\ \A j \in i + 1 .. Len(q) : q[j] \in Part
      /\ i - 1 \in Int /\ i + 1 \in Int
  BY <1>1
<1>3. /\ SubSeq(q, 1, i - 1) \in Seq(Part)
      /\ Len(SubSeq(q, 1, i - 1)) = i - 1
      /\ \A j \in 1 .. i - 1 : SubSeq(q, 1, i - 1)[j] = q[j]
  <2>1. /\ SubSeq(q, 1, i - 1) \in Seq(Part)
        /\ Len(SubSeq(q, 1, i - 1)) = IF 1 <= i - 1 THEN (i - 1) - 1 + 1 ELSE 0
        /\ \A j \in 1 .. (i - 1) - 1 + 1 : SubSeq(q, 1, i - 1)[j] = q[1 + j - 1]
    BY <1>1, <1>2, SubSeqProperties
  <2> QED BY <1>1, <2>1
<1>4. /\ SubSeq(q, i + 1, Len(q)) \in Seq(Part)
      /\ Len(SubSeq(q, i + 1, Len(q))) = Len(q) - i
      /\ \A j \in 1 .. Len(q) - i : SubSeq(q, i + 1, Len(q))[j] = q[i + j]
  <2>1. /\ SubSeq(q, i + 1, Len(q)) \in Seq(Part)
        /\ Len(SubSeq(q, i + 1, Len(q)))
             = IF i + 1 <= Len(q) THEN Len(q) - (i + 1) + 1 ELSE 0
        /\ \A j \in 1 .. Len(q) - (i + 1) + 1 :
             SubSeq(q, i + 1, Len(q))[j] = q[i + 1 + j - 1]
    BY <1>1, <1>2, SubSeqProperties
  <2> QED BY <1>1, <2>1
<1> QED BY <1>3, <1>4

(* The part Enqueue writes next is a part. *)
LEMMA NextPartType ==
  ASSUME SpoolTypes, CallTypes, todo # <<>>
  PROVE  NextPart \in Part /\ Tail(todo) \in Seq(Body)
<1>1. Head(todo) \in Body /\ Tail(todo) \in Seq(Body)
  BY DEF CallTypes
<1>2. <<>> \in Seq({"a", "b"})
  OBVIOUS
<1> QED BY <1>1, <1>2 DEF Body, Part, NextPart, SpoolTypes, CallTypes

(* expire and evictFor keep the types of the queue. *)
LEMMA DropHeadTypes ==
  ASSUME SpoolTypes, parts # <<>>, DropHead,
         UNCHANGED <<quarantine, seq, splits, window>>
  PROVE  SpoolTypes'
<1>1. Head(parts) \in Part /\ Tail(parts) \in Seq(Part)
  BY DEF SpoolTypes
<1>2. Size(Head(parts)) \in Int
  BY <1>1, ItemsInt
<1> QED BY <1>1, <1>2 DEF DropHead, SpoolTypes

(* remove keeps the types of the queue. *)
LEMMA TakeOutTypes ==
  ASSUME SpoolTypes, CallTypes, TakeOut(cur),
         UNCHANGED <<quarantine, seq, splits, window>>
  PROVE  SpoolTypes'
<1>1. CASE UNCHANGED <<files, parts, bytes>>
  BY <1>1 DEF SpoolTypes
<1>2. ASSUME NEW i \in DOMAIN parts,
             parts' = SubSeq(parts, 1, i - 1) \o SubSeq(parts, i + 1, Len(parts)),
             files' = files \ {cur}, bytes' = bytes - Size(cur)
      PROVE  SpoolTypes'
  <2>1. Size(cur) \in Int
    BY ItemsInt DEF CallTypes
  <2>2. parts' \in Seq(Part)
    <3>1. parts \in Seq(Part)
      BY DEF SpoolTypes
    <3>2. /\ SubSeq(parts, 1, i - 1) \in Seq(Part)
          /\ SubSeq(parts, i + 1, Len(parts)) \in Seq(Part)
      BY <1>2, <3>1, CutType
    <3> QED BY <1>2, <3>2, ConcatProperties
  <2>3. files' \subseteq Part /\ bytes' \in Int
    BY <1>2, <2>1 DEF SpoolTypes
  <2> QED BY <2>2, <2>3 DEF SpoolTypes
<1> QED BY <1>1, <1>2 DEF TakeOut

(* Every step keeps the types of what the spool stores. *)
LEMMA StepSpoolTypes ==
  ASSUME SpoolTypes, CallTypes, WorldTypes, [Next]_vars
  PROVE  SpoolTypes'
<1> USE DEF memory
<1>1. CASE UNCHANGED <<files, quarantine, memory>>
  BY <1>1 DEF SpoolTypes
<1>2. CASE Expire \/ Evict
  BY <1>2, DropHeadTypes DEF Expire, HeadExpired, Evict, OverBudget
<1>3. CASE WritePart
  <2>1. NextPart \in Part /\ Size(NextPart) \in Int
    BY <1>3, NextPartType, ItemsInt DEF WritePart
  <2>2. parts' \in Seq(Part)
    BY <1>3, <2>1 DEF WritePart, SpoolTypes
  <2> QED BY <1>3, <2>1, <2>2 DEF WritePart, SpoolTypes
<1>4. CASE WritePartFails
  <2>1. NextPart \in Part
    BY <1>4, NextPartType DEF WritePartFails
  <2> QED BY <1>4, <2>1 DEF WritePartFails, EnqueueReturn, SpoolTypes
<1>5. CASE EnqueueRefuse \/ EnqueueDone
  BY <1>5 DEF EnqueueRefuse, EnqueueDone, EnqueueReturn, SpoolTypes
<1>6. CASE OnDelivered \/ Discard
  BY <1>6, TakeOutTypes DEF OnDelivered, Discard
<1>7. CASE AllowSplit
  <2>1. window' \in Nat \cup {NoWindow} /\ splits' \in 0 .. MaxSplits
    BY <1>7, SizesAssumption
       DEF AllowSplit, SplitsLeft, SpoolTypes, WorldTypes
  <2> QED BY <1>7, <2>1 DEF AllowSplit, SpoolTypes
<1>8. CASE WriteHalfA \/ WriteHalfB
  <2>1. HalfA(cur) \in Part /\ HalfB(cur) \in Part
    BY HalvesPartition DEF CallTypes
  <2> QED BY <1>8, <2>1 DEF WriteHalfA, WriteHalfB, WriteHalf, SpoolTypes
<1>9. CASE RemoveParent
  <2>1. CASE UNCHANGED <<files, parts, bytes>>
    BY <1>9, <2>1 DEF RemoveParent, SpoolTypes
  <2>2. ASSUME NEW i \in DOMAIN parts, parts' = Spliced(i),
               files' = files \ {cur}, bytes' = SplicedBytes
        PROVE  SpoolTypes'
    <3>1. HalfA(cur) \in Part /\ HalfB(cur) \in Part /\ cur \in Part
      BY HalvesPartition DEF CallTypes
    <3>2. bytes' \in Int
      BY <2>2, <3>1, ItemsInt DEF SplicedBytes, SpoolTypes
    <3>3. <<HalfA(cur), HalfB(cur)>> \in Seq(Part)
      BY <3>1
    <3>4. parts' \in Seq(Part)
      BY <2>2, <3>3, CutType, ConcatProperties DEF Spliced, SpoolTypes
    <3> QED BY <1>9, <2>2, <3>2, <3>4 DEF RemoveParent, SpoolTypes
  <2> QED BY <1>9, <2>1, <2>2 DEF RemoveParent
<1>10. CASE Cleanup
  BY <1>10 DEF Cleanup, SpoolTypes
<1>11. CASE Quarantine
  BY <1>11 DEF Quarantine, Newest, SpoolTypes, CallTypes
<1>12. CASE Crash
  <2>1. <<>> \in Seq(Part)
    OBVIOUS
  <2> QED BY <1>12, <2>1, SizesAssumption DEF Crash, SpoolTypes
<1>13. CASE Open \/ OpenFails
  BY <1>13 DEF Open, OpenFails, Orphans, SpoolTypes
<1>14. CASE Scan
  <2>1. PICK p \in files \ Elems(parts) :
           /\ seq' = SeqAfter(p) /\ parts' = Append(parts, p)
           /\ bytes' = bytes + Size(p)
    BY <1>14 DEF Scan
  <2>2. p \in Part /\ Size(p) \in Int /\ p.seq \in Nat
    <3>1. p \in Part
      BY <2>1 DEF SpoolTypes
    <3> QED BY <3>1, ItemsInt DEF Part
  <2>3. parts' \in Seq(Part) /\ bytes' \in Int /\ seq' \in Nat
    BY <2>1, <2>2 DEF SpoolTypes, SeqAfter
  <2> QED BY <1>14, <2>3 DEF Scan, SpoolTypes
<1>15. ASSUME \/ \E shape \in Shapes : EnqueueCall(shape)
              \/ EnqueueLock \/ StartEvict \/ StartWrite
              \/ DrainNext \/ PeekLock \/ PeekEmpty \/ PeekHead \/ PeekFails \/ Send
              \/ SendFails \/ ReplyLost \/ ReplaceLock
              \/ ScanDone \/ OpenDone \/ Tick \/ LateArrival \/ Heal
              \/ UNCHANGED vars
       PROVE  UNCHANGED <<files, quarantine, memory>>
  BY <1>15 DEF EnqueueCall, EnqueueLock, StartEvict, StartWrite, DrainNext,
       PeekLock, PeekEmpty, PeekHead, PeekFails, Send, SendFails, ReplyLost, ReplaceLock,
       ScanDone, OpenDone, Tick, LateArrival, Heal, vars
<1> QED BY <1>1, <1>2, <1>3, <1>4, <1>5, <1>6, <1>7, <1>8, <1>9, <1>10, <1>11,
           <1>12, <1>13, <1>14, <1>15
        DEF Next, Enqueuing, Draining, Opening, Environment

(* Every step keeps the types of the running calls. *)
LEMMA StepCallTypes ==
  ASSUME SpoolTypes, CallTypes, WorldTypes, [Next]_vars
  PROVE  CallTypes'
<1> USE DEF enqueuer, drainer
<1>1. ASSUME NEW shape \in Shapes, EnqueueCall(shape)
      PROVE  CallTypes'
  <2>1. /\ shape \in Seq(Nat \ {0}) /\ Len(shape) \in Nat \ {0}
        /\ \A k \in 1 .. Len(shape) : shape[k] \in Nat
        /\ DOMAIN shape = 1 .. Len(shape)
    BY ShapesAssumption
  <2>2. todo' \in Seq(Body)
    <3> DEFINE body(k) == [first |-> made + 1 + (IF k = 1 THEN 0 ELSE shape[k - 1]),
                           last |-> made + shape[k]]
    <3>1. ASSUME NEW k \in 1 .. Len(shape)
          PROVE  body(k) \in Body
      <4>1. k = 1 \/ k - 1 \in 1 .. Len(shape)
        BY <2>1
      <4>2. /\ made + 1 + (IF k = 1 THEN 0 ELSE shape[k - 1]) \in Int
            /\ made + shape[k] \in Int
        BY <2>1, <4>1 DEF CallTypes
      <4> QED BY <4>2 DEF Body
    <3>2. todo' = [k \in 1 .. Len(shape) |-> body(k)]
      BY <1>1, <2>1 DEF EnqueueCall
    <3> HIDE DEF body
    <3> QED BY <2>1, <3>1, <3>2
  <2>3. /\ total' \in Nat /\ made' \in Nat /\ stamp' \in Nat
    <3>1. Overhead * Len(shape) \in Nat /\ shape[Len(shape)] \in Nat
      BY <2>1, SizesAssumption
    <3>2. /\ total' = Overhead * Len(shape) + shape[Len(shape)]
          /\ made' = made + shape[Len(shape)] /\ stamp' = now
      BY <1>1 DEF EnqueueCall
    <3>3. made \in Nat /\ now \in Nat
      BY DEF CallTypes, WorldTypes
    <3> DEFINE overhead == Overhead * Len(shape)
    <3> HIDE DEF overhead
    <3>4. overhead \in Nat /\ total' = overhead + shape[Len(shape)]
      BY <3>1, <3>2 DEF overhead
    <3> QED BY <3>1, <3>2, <3>3, <3>4
  <2> QED BY <1>1, <2>2, <2>3 DEF EnqueueCall, CallTypes
<1>2. CASE EnqueueRefuse \/ WritePartFails \/ EnqueueDone
  <2>1. <<>> \in Seq(Body)
    OBVIOUS
  <2>2. EnqueueReturn
    BY <1>2 DEF EnqueueRefuse, WritePartFails, EnqueueDone
  <2> QED BY <2>1, <2>2 DEF EnqueueReturn, CallTypes
<1>3. CASE WritePart
  BY <1>3, NextPartType DEF WritePart, CallTypes
<1>4. NoPart \in Part
  <2>1. <<>> \in Seq({"a", "b"})
    OBVIOUS
  <2> QED BY <2>1 DEF Part, NoPart
<1>5. ASSUME DrainIdle, UNCHANGED enqueuer
      PROVE  CallTypes'
  BY <1>4, <1>5 DEF DrainIdle, CallTypes
<1>6. CASE DrainNext
  BY <1>6 DEF DrainNext, CallTypes, WorldTypes
<1>7. CASE PeekHead
  <2>1. Head(parts) \in Part
    BY <1>7 DEF PeekHead, SpoolTypes
  <2> QED BY <1>7, <2>1 DEF PeekHead, CallTypes
<1>8. CASE Crash
  <2>1. <<>> \in Seq(Body)
    OBVIOUS
  <2> QED BY <1>4, <1>8, <2>1 DEF Crash, DrainIdle, CallTypes
<1>9. CASE Open \/ OpenFails \/ OpenDone
  BY <1>9 DEF Open, OpenFails, OpenDone, CallTypes, WorldTypes
<1>10. CASE \/ PeekEmpty \/ PeekFails \/ SendFails \/ ReplyLost \/ OnDelivered
           \/ Cleanup \/ Discard
  BY <1>5, <1>10 DEF PeekEmpty, PeekFails, SendFails, ReplyLost, OnDelivered,
     Cleanup, Discard
<1>11. CASE AllowSplit \/ ReplaceLock \/ RemoveParent
  <2>1. UNCHANGED enqueuer /\ (DrainIdle \/ UNCHANGED <<dstamp, cur>>)
    BY <1>11 DEF AllowSplit, ReplaceLock, RemoveParent
  <2> QED BY <1>5, <2>1 DEF CallTypes
<1>12. ASSUME \/ EnqueueLock \/ StartEvict \/ StartWrite \/ Expire \/ Evict
              \/ PeekLock \/ Send \/ WriteHalfA \/ WriteHalfB \/ Quarantine
              \/ Scan \/ ScanDone \/ Tick \/ LateArrival \/ Heal
              \/ UNCHANGED vars
       PROVE  CallTypes'
  <2>1. UNCHANGED <<enqueuer, dstamp, cur>>
    BY <1>12 DEF EnqueueLock, StartEvict, StartWrite, Expire, Evict, PeekLock,
         Send, WriteHalfA, WriteHalfB, WriteHalf, Quarantine, Scan, ScanDone,
         Tick, LateArrival, Heal, vars
  <2> QED BY <2>1 DEF CallTypes
<1> QED BY <1>1, <1>2, <1>3, <1>6, <1>7, <1>8, <1>9, <1>10, <1>11, <1>12
        DEF Next, Enqueuing, Draining, Opening, Environment

(* Every step keeps the types of the clock, of Pulse and of the histories. *)
LEMMA StepWorldTypes ==
  ASSUME SpoolTypes, CallTypes, WorldTypes, [Next]_vars
  PROVE  WorldTypes'
<1> USE DEF pulse, history
<1>1. ASSUME NEW p \in Part, Ingest(p)
      PROVE  stored' \in Seq(Batch)
  <2>1. [first |-> p.first, last |-> p.last, at |-> now] \in Batch
    BY DEF Part, Batch, WorldTypes
  <2> QED BY <1>1, <2>1 DEF Ingest, WorldTypes
<1>2. ASSUME NEW kind, Fault(kind)
      PROVE  faults' \in Nat
  BY <1>2 DEF Fault, WorldTypes
<1>3. CASE Expire \/ Evict
  <2>1. parts # <<>> /\ DropHead
    BY <1>3 DEF Expire, Evict, HeadExpired, OverBudget
  <2>2. Items(Head(parts)) \subseteq Int
    BY <2>1, ItemsInt DEF SpoolTypes
  <2> QED BY <1>2, <1>3, <2>1, <2>2 DEF Expire, Evict, DropHead, WorldTypes
<1>4. CASE WritePart
  <2>1. Items(NextPart) \subseteq Int
    BY <1>4, NextPartType, ItemsInt DEF WritePart
  <2> QED BY <1>4, <2>1 DEF WritePart, WorldTypes
<1>5. CASE WritePartFails
  BY <1>2, <1>5 DEF WritePartFails, EnqueueReturn, WorldTypes
<1>6. CASE Send
  BY <1>1, <1>6 DEF Send, CallTypes, WorldTypes
<1>7. CASE SendFails
  BY <1>2, <1>7 DEF SendFails, CallTypes, WorldTypes
<1>8. CASE LateArrival
  <2>1. PICK p \in late : late' = late \ {p} /\ Ingest(p)
    BY <1>8 DEF LateArrival
  <2>2. p \in Part
    BY DEF WorldTypes
  <2> QED BY <1>1, <1>8, <2>1, <2>2 DEF LateArrival, WorldTypes
<1>9. CASE Heal
  BY <1>9 DEF Heal, WorldTypes
<1>10. CASE OnDelivered \/ Discard
  <2>1. faults' \in Nat
    BY <1>2, <1>10 DEF OnDelivered, Discard, TakeOut, WorldTypes
  <2> QED BY <1>10, <2>1 DEF OnDelivered, Discard, WorldTypes
<1>11. CASE WriteHalfA \/ WriteHalfB
  BY <1>2, <1>11 DEF WriteHalfA, WriteHalfB, WriteHalf, WorldTypes
<1>12. CASE RemoveParent \/ Cleanup \/ OpenFails
  <2>1. faults' \in Nat
    BY <1>2, <1>12 DEF RemoveParent, Cleanup, OpenFails, WorldTypes
  <2> QED BY <1>12, <2>1 DEF RemoveParent, Cleanup, OpenFails, WorldTypes
<1>13. CASE Quarantine
  <2>1. Items(cur) \subseteq Int
    BY ItemsInt DEF CallTypes
  <2>2. faults' \in Nat
    BY <1>2, <1>13 DEF Quarantine, WorldTypes
  <2> QED BY <1>13, <2>1, <2>2 DEF Quarantine, WorldTypes
<1>14. CASE Tick \/ Crash
  <2>1. /\ now' \in Nat /\ crashes' \in Nat
        /\ UNCHANGED <<pulse, history, faults>>
    BY <1>14 DEF Tick, Crash, WorldTypes
  <2> QED BY <2>1 DEF WorldTypes
<1>15. ASSUME \/ \E shape \in Shapes : EnqueueCall(shape)
              \/ EnqueueLock \/ EnqueueRefuse \/ StartEvict \/ StartWrite
              \/ EnqueueDone \/ DrainNext \/ PeekLock \/ PeekEmpty \/ PeekHead
              \/ PeekFails \/ ReplyLost \/ AllowSplit \/ ReplaceLock
              \/ Open \/ Scan \/ ScanDone \/ OpenDone \/ UNCHANGED vars
       PROVE  WorldTypes'
  <2>1. UNCHANGED <<now, pulse, history, faults, crashes>>
    BY <1>15 DEF EnqueueCall, EnqueueLock, EnqueueRefuse, StartEvict,
         StartWrite, EnqueueDone, EnqueueReturn, DrainNext, PeekLock,
         PeekEmpty, PeekHead, PeekFails, ReplyLost, AllowSplit, ReplaceLock,
         Open, Scan, ScanDone, OpenDone, vars
  <2> QED BY <2>1 DEF WorldTypes
<1> QED BY <1>3, <1>4, <1>5, <1>6, <1>7, <1>8, <1>9, <1>10, <1>11, <1>12,
           <1>13, <1>14, <1>15
        DEF Next, Enqueuing, Draining, Opening, Environment

(* Every step keeps every type. *)
LEMMA StepTypeOK == TypeOK /\ [Next]_vars => TypeOK'
  BY StepControlTypes, StepSpoolTypes, StepCallTypes, StepWorldTypes DEF TypeOK

(* The types of every variable of the spool, of its callers and of Pulse   *)
(* hold throughout; among them, that never more than maxSplitsPerHour      *)
(* splits are counted in one window.                                       *)
THEOREM TypeCorrect == Spec => []TypeOK
  BY InitTypeOK, StepTypeOK, PTL DEF Spec
-----------------------------------------------------------------------------
(* The queue in memory as a set of parts *)

(* Dropping the head of a queue without repetition takes one part out. *)
LEMMA ElemsTail ==
  ASSUME NEW q \in Seq(Part), q # <<>>
  PROVE  /\ Head(q) \in Elems(q)
         /\ Elems(Tail(q)) \subseteq Elems(q)
         /\ Distinct(q) => Distinct(Tail(q)) /\ Head(q) \notin Elems(Tail(q))
<1>1. /\ Len(q) \in Nat \ {0} /\ DOMAIN q = 1 .. Len(q)
      /\ Head(q) = q[1] /\ 1 \in DOMAIN q
  OBVIOUS
<1>2. /\ DOMAIN Tail(q) = 1 .. Len(q) - 1
      /\ \A i \in 1 .. Len(q) - 1 : Tail(q)[i] = q[i + 1] /\ i + 1 \in DOMAIN q
  BY <1>1, HeadTailProperties
<1> QED BY <1>1, <1>2 DEF Elems, Distinct

(* A part appended to a queue is one more part of it. *)
LEMMA ElemsAppend ==
  ASSUME NEW S, NEW q \in Seq(S), NEW p \in S
  PROVE  /\ Elems(Append(q, p)) = Elems(q) \cup {p}
         /\ Distinct(q) /\ p \notin Elems(q) => Distinct(Append(q, p))
<1>1. /\ Len(q) \in Nat /\ DOMAIN q = 1 .. Len(q)
      /\ DOMAIN Append(q, p) = 1 .. Len(q) + 1
      /\ \A i \in 1 .. Len(q) : Append(q, p)[i] = q[i]
      /\ Append(q, p)[Len(q) + 1] = p
  OBVIOUS
<1>2. DOMAIN Append(q, p) = DOMAIN q \cup {Len(q) + 1} /\ Len(q) + 1 \notin DOMAIN q
  BY <1>1
<1> QED BY <1>1, <1>2 DEF Elems, Distinct

(* The place of each element in a concatenation. *)
LEMMA Join ==
  \A s, t \in Seq(Part) :
    /\ s \o t \in Seq(Part)
    /\ Len(s \o t) = Len(s) + Len(t)
    /\ \A i \in 1 .. Len(s) + Len(t) :
         (s \o t)[i] = IF i <= Len(s) THEN s[i] ELSE t[i - Len(s)]
  BY ConcatProperties, Zenon

(* A queue without the part at i, and its places. *)
CutAt(q, i) == SubSeq(q, 1, i - 1) \o SubSeq(q, i + 1, Len(q))
IsCut(rest, q, i) ==
  /\ rest \in Seq(Part) /\ Len(rest) = Len(q) - 1
  /\ DOMAIN rest = 1 .. Len(q) - 1
  /\ \A j \in 1 .. i - 1 : rest[j] = q[j]
  /\ \A j \in i .. Len(q) - 1 : rest[j] = q[j + 1]

LEMMA CutPlaces ==
  ASSUME NEW q \in Seq(Part), NEW i \in DOMAIN q
  PROVE  IsCut(CutAt(q, i), q, i)
<1> DEFINE n == Len(q)
           before == SubSeq(q, 1, i - 1)
           after == SubSeq(q, i + 1, n)
           gap == before \o after
<1>1. n \in Nat /\ DOMAIN q = 1 .. n /\ i \in 1 .. n
  OBVIOUS
<1>2. /\ before \in Seq(Part) /\ Len(before) = i - 1
      /\ \A j \in 1 .. i - 1 : before[j] = q[j]
      /\ after \in Seq(Part) /\ Len(after) = n - i
      /\ \A j \in 1 .. n - i : after[j] = q[i + j]
  BY <1>1, CutType
<1> HIDE DEF before, after
<1>3. /\ gap \in Seq(Part) /\ Len(gap) = n - 1
      /\ DOMAIN gap = 1 .. n - 1
      /\ \A j \in 1 .. i - 1 : gap[j] = q[j]
      /\ \A j \in i .. n - 1 : gap[j] = q[j + 1]
  <2>1. /\ gap \in Seq(Part) /\ Len(gap) = (i - 1) + (n - i)
        /\ \A j \in 1 .. (i - 1) + (n - i) :
             gap[j] = IF j <= i - 1 THEN before[j] ELSE after[j - (i - 1)]
    <3> HIDE DEF n
    <3>1. /\ gap \in Seq(Part) /\ Len(gap) = Len(before) + Len(after)
          /\ \A j \in 1 .. Len(before) + Len(after) :
               gap[j] = IF j <= Len(before) THEN before[j] ELSE after[j - Len(before)]
      BY <1>2, Join, Zenon
    <3> HIDE DEF gap
    <3> QED BY <1>2, <3>1
  <2> HIDE DEF gap, n
  <2>2. /\ gap \in Seq(Part) /\ Len(gap) = n - 1
        /\ DOMAIN gap = 1 .. n - 1
    BY <1>1, <2>1
  <2>3. ASSUME NEW j \in 1 .. i - 1
        PROVE  gap[j] = q[j]
    <3>1. j \in 1 .. (i - 1) + (n - i) /\ j <= i - 1
      BY <1>1
    <3>2. gap[j] = before[j]
      BY <2>1, <3>1, Zenon
    <3>3. before[j] = q[j]
      BY <1>2, Zenon
    <3> QED BY <3>2, <3>3
  <2>4. ASSUME NEW j \in i .. n - 1
        PROVE  gap[j] = q[j + 1]
    <3>1. j - (i - 1) \in 1 .. n - i /\ i + (j - (i - 1)) = j + 1
      BY <1>1
    <3>2. gap[j] = after[j - (i - 1)]
      BY <1>1, <2>1
    <3> QED BY <1>2, <3>1, <3>2
  <2> QED BY <2>2, <2>3, <2>4
<1> QED BY <1>3 DEF IsCut, CutAt, gap, before, after, n

(* The part at i is taken out, nothing else. *)
LEMMA ElemsCut ==
  ASSUME NEW q \in Seq(Part), NEW i \in DOMAIN q, Distinct(q)
  PROVE  LET rest == SubSeq(q, 1, i - 1) \o SubSeq(q, i + 1, Len(q))
         IN Elems(rest) = Elems(q) \ {q[i]} /\ Distinct(rest)
<1> DEFINE n == Len(q)
           rest == CutAt(q, i)
<1>1. n \in Nat /\ DOMAIN q = 1 .. n /\ i \in 1 .. n
  OBVIOUS
<1>3. /\ DOMAIN rest = 1 .. n - 1
      /\ \A j \in 1 .. i - 1 : rest[j] = q[j]
      /\ \A j \in i .. n - 1 : rest[j] = q[j + 1]
  BY CutPlaces DEF IsCut
<1> HIDE DEF rest, n
<1>4. Elems(rest) = Elems(q) \ {q[i]}
  <2>1. ASSUME NEW j \in DOMAIN rest
        PROVE  rest[j] \in Elems(q) \ {q[i]}
    <3>1. CASE j < i
      BY <1>1, <1>3, <3>1 DEF Elems, Distinct
    <3>2. CASE j >= i
      <4>1. rest[j] = q[j + 1] /\ j + 1 \in DOMAIN q /\ j + 1 # i
        BY <1>1, <1>3, <3>2
      <4> QED BY <1>1, <4>1 DEF Elems, Distinct
    <3> QED BY <1>1, <1>3, <3>1, <3>2
  <2>2. ASSUME NEW k \in DOMAIN q, q[k] # q[i]
        PROVE  q[k] \in Elems(rest)
    <3>1. CASE k < i
      BY <1>1, <1>3, <3>1 DEF Elems
    <3>2. CASE k > i
      <4>1. k - 1 \in i .. n - 1 /\ k - 1 \in DOMAIN rest /\ (k - 1) + 1 = k
        BY <1>1, <1>3, <3>2
      <4>2. rest[k - 1] = q[k]
        BY <1>3, <4>1
      <4> QED BY <4>1, <4>2 DEF Elems
    <3> QED BY <1>1, <2>2, <3>1, <3>2
  <2> QED BY <2>1, <2>2 DEF Elems
<1>5. Distinct(rest)
  <2> DEFINE place(j) == IF j < i THEN j ELSE j + 1
  <2>1. ASSUME NEW j \in DOMAIN rest
        PROVE  place(j) \in DOMAIN q /\ rest[j] = q[place(j)]
    BY <1>1, <1>3
  <2>2. ASSUME NEW j \in DOMAIN rest, NEW k \in DOMAIN rest, rest[j] = rest[k]
        PROVE  j = k
    <3>1. place(j) = place(k)
      <4> HIDE DEF place
      <4> QED BY <2>1, <2>2 DEF Distinct
    <3> QED BY <1>1, <1>3, <3>1
  <2> QED BY <2>2 DEF Distinct
<1> QED BY <1>4, <1>5 DEF rest, CutAt

(* A queue where two parts take the place of one, and its places. *)
SpliceAt(q, i, a, b) == SubSeq(q, 1, i - 1) \o <<a, b>> \o SubSeq(q, i + 1, Len(q))
IsSplice(new, q, i, a, b) ==
  /\ new \in Seq(Part) /\ Len(new) = Len(q) + 1
  /\ DOMAIN new = 1 .. Len(q) + 1
  /\ \A j \in 1 .. i - 1 : new[j] = q[j]
  /\ new[i] = a /\ new[i + 1] = b
  /\ \A j \in i + 2 .. Len(q) + 1 : new[j] = q[j - 1]

LEMMA SplicePlaces ==
  ASSUME NEW q \in Seq(Part), NEW i \in DOMAIN q, NEW a \in Part, NEW b \in Part
  PROVE  IsSplice(SpliceAt(q, i, a, b), q, i, a, b)
<1> DEFINE n == Len(q)
           before == SubSeq(q, 1, i - 1)
           after == SubSeq(q, i + 1, n)
           all == before \o <<a, b>> \o after
<1>1. n \in Nat /\ DOMAIN q = 1 .. n /\ i \in 1 .. n
  OBVIOUS
<1>2. /\ before \in Seq(Part) /\ Len(before) = i - 1
      /\ \A j \in 1 .. i - 1 : before[j] = q[j]
      /\ after \in Seq(Part) /\ Len(after) = n - i
      /\ \A j \in 1 .. n - i : after[j] = q[i + j]
  BY <1>1, CutType
<1> HIDE DEF before, after
<1>3. /\ all \in Seq(Part) /\ Len(all) = n + 1
      /\ DOMAIN all = 1 .. n + 1
      /\ \A j \in 1 .. i - 1 : all[j] = q[j]
      /\ all[i] = a /\ all[i + 1] = b
      /\ \A j \in i + 2 .. n + 1 : all[j] = q[j - 1]
  <2> DEFINE ab == <<a, b>>
             head == before \o ab
  <2>1. ab \in Seq(Part) /\ Len(ab) = 2 /\ ab[1] = a /\ ab[2] = b
    OBVIOUS
  <2> HIDE DEF ab
  <2>2. /\ head \in Seq(Part) /\ Len(head) = (i - 1) + 2
        /\ \A j \in 1 .. (i - 1) + 2 :
             head[j] = IF j <= i - 1 THEN before[j] ELSE ab[j - (i - 1)]
    <3>1. /\ head \in Seq(Part) /\ Len(head) = Len(before) + Len(ab)
          /\ \A j \in 1 .. Len(before) + Len(ab) :
               head[j] = IF j <= Len(before) THEN before[j] ELSE ab[j - Len(before)]
      BY <1>2, <2>1, Join, Zenon
    <3> HIDE DEF head
    <3> QED BY <1>2, <2>1, <3>1
  <2> HIDE DEF head
  <2>3. /\ all \in Seq(Part) /\ Len(all) = (i + 1) + (n - i)
        /\ \A j \in 1 .. (i + 1) + (n - i) :
             all[j] = IF j <= i + 1 THEN head[j] ELSE after[j - (i + 1)]
    <3>1. all = head \o after
      BY DEF head, ab
    <3>2. Len(head) = i + 1
      BY <1>1, <2>2
    <3> HIDE DEF all, n
    <3>3. /\ all \in Seq(Part) /\ Len(all) = Len(head) + Len(after)
          /\ \A j \in 1 .. Len(head) + Len(after) :
               all[j] = IF j <= Len(head) THEN head[j] ELSE after[j - Len(head)]
      BY <1>2, <2>2, <3>1, Join, Zenon
    <3> QED BY <1>1, <1>2, <3>2, <3>3
  <2> HIDE DEF all, n
  <2>4. /\ all \in Seq(Part) /\ Len(all) = n + 1
        /\ DOMAIN all = 1 .. n + 1
    BY <1>1, <2>3
  <2>5. ASSUME NEW j \in 1 .. i - 1
        PROVE  all[j] = q[j]
    <3>1. /\ j \in 1 .. (i + 1) + (n - i) /\ j <= i + 1
          /\ j \in 1 .. (i - 1) + 2 /\ j <= i - 1
      BY <1>1
    <3>2. all[j] = head[j]
      BY <2>3, <3>1, Zenon
    <3>3. head[j] = before[j]
      BY <2>2, <3>1, Zenon
    <3>4. before[j] = q[j]
      BY <1>2, Zenon
    <3> QED BY <3>2, <3>3, <3>4
  <2>6. all[i] = a /\ all[i + 1] = b
    <3>1. /\ i \in 1 .. (i - 1) + 2 /\ ~(i <= i - 1) /\ i - (i - 1) = 1
          /\ i + 1 \in 1 .. (i - 1) + 2 /\ ~(i + 1 <= i - 1) /\ i + 1 - (i - 1) = 2
          /\ i \in 1 .. (i + 1) + (n - i) /\ i + 1 \in 1 .. (i + 1) + (n - i)
          /\ i <= i + 1 /\ i + 1 <= i + 1
      BY <1>1
    <3>2. head[i] = ab[1] /\ head[i + 1] = ab[2]
      <4>1. ASSUME NEW j \in 1 .. (i - 1) + 2, NEW k, ~(j <= i - 1), j - (i - 1) = k
            PROVE  head[j] = ab[k]
        BY <2>2, <4>1, Zenon
      <4>2. i + 1 \in 1 .. (i - 1) + 2 /\ ~(i + 1 <= i - 1) /\ (i + 1) - (i - 1) = 2
        BY <1>1
      <4> QED BY <3>1, <4>1, <4>2, Zenon
    <3>3. all[i] = head[i] /\ all[i + 1] = head[i + 1]
      BY <2>3, <3>1
    <3> QED BY <2>1, <3>2, <3>3
  <2>7. ASSUME NEW j \in i + 2 .. n + 1
        PROVE  all[j] = q[j - 1]
    <3>1. j - (i + 1) \in 1 .. n - i /\ i + (j - (i + 1)) = j - 1
      BY <1>1
    <3>2. all[j] = after[j - (i + 1)]
      BY <1>1, <2>3
    <3> QED BY <1>2, <3>1, <3>2
  <2> QED BY <2>4, <2>5, <2>6, <2>7
<1> QED BY <1>3 DEF IsSplice, SpliceAt, all, before, after, n

(* Two new parts take the place of one; nothing comes twice. *)
LEMMA ElemsSplice ==
  ASSUME NEW q \in Seq(Part), NEW i \in DOMAIN q, Distinct(q),
         NEW a \in Part, NEW b \in Part, a # b,
         a \notin Elems(q), b \notin Elems(q)
  PROVE  LET new == SubSeq(q, 1, i - 1) \o <<a, b>> \o SubSeq(q, i + 1, Len(q))
         IN Elems(new) = (Elems(q) \ {q[i]}) \cup {a, b} /\ Distinct(new)
<1> DEFINE n == Len(q)
           new == SpliceAt(q, i, a, b)
<1>1. n \in Nat /\ DOMAIN q = 1 .. n /\ i \in 1 .. n
  OBVIOUS
<1>3. /\ DOMAIN new = 1 .. n + 1
      /\ \A j \in 1 .. i - 1 : new[j] = q[j]
      /\ new[i] = a /\ new[i + 1] = b
      /\ \A j \in i + 2 .. n + 1 : new[j] = q[j - 1]
  <2>1. IsSplice(new, q, i, a, b)
    BY SplicePlaces
  <2> HIDE DEF new
  <2> QED BY <2>1 DEF IsSplice
<1> HIDE DEF new, n
<1>4. Elems(new) = (Elems(q) \ {q[i]}) \cup {a, b}
  <2>1. ASSUME NEW j \in DOMAIN new
        PROVE  new[j] \in (Elems(q) \ {q[i]}) \cup {a, b}
    <3>1. \/ j \in 1 .. i - 1 \/ j = i \/ j = i + 1
          \/ j \in i + 2 .. n + 1 /\ j - 1 \in DOMAIN q /\ j - 1 # i
      BY <1>1, <1>3
    <3> QED BY <1>1, <1>3, <3>1 DEF Elems, Distinct
  <2>2. ASSUME NEW k \in DOMAIN q, q[k] # q[i]
        PROVE  q[k] \in Elems(new)
    <3>1. CASE k < i
      BY <1>1, <1>3, <3>1 DEF Elems
    <3>2. CASE k > i
      <4>1. k + 1 \in i + 2 .. n + 1 /\ k + 1 \in DOMAIN new /\ (k + 1) - 1 = k
        BY <1>1, <1>3, <3>2
      <4>2. new[k + 1] = q[k]
        BY <1>3, <4>1
      <4> QED BY <4>1, <4>2 DEF Elems
    <3> QED BY <1>1, <2>2, <3>1, <3>2
  <2>3. a \in Elems(new) /\ b \in Elems(new)
    <3>1. i \in DOMAIN new /\ i + 1 \in DOMAIN new
      BY <1>1, <1>3
    <3> QED BY <1>3, <3>1 DEF Elems
  <2> QED BY <2>1, <2>2, <2>3 DEF Elems
<1>5. Distinct(new)
  <2>1. \A j \in DOMAIN q : q[j] # a /\ q[j] # b
    BY DEF Elems
  <2>2. \A j \in DOMAIN new :
          \/ j \in 1 .. i - 1 /\ j \in DOMAIN q /\ new[j] = q[j]
          \/ j = i /\ new[j] = a
          \/ j = i + 1 /\ new[j] = b
          \/ j \in i + 2 .. n + 1 /\ j - 1 \in DOMAIN q /\ new[j] = q[j - 1]
    BY <1>1, <1>3
  <2>3. ASSUME NEW j \in DOMAIN new, NEW k \in DOMAIN new, new[j] = new[k], j < k
        PROVE  FALSE
    <3>1. CASE j \in 1 .. i - 1
      BY <1>1, <2>1, <2>2, <2>3, <3>1 DEF Distinct
    <3>2. CASE j = i \/ j = i + 1
      BY <1>1, <2>1, <2>2, <2>3, <3>2
    <3>3. CASE j \in i + 2 .. n + 1
      BY <1>1, <2>1, <2>2, <2>3, <3>3 DEF Distinct
    <3> QED BY <2>2, <3>1, <3>2, <3>3
  <2> QED BY <1>1, <1>3, <2>3 DEF Distinct
<1> QED BY <1>4, <1>5 DEF new, SpliceAt
-----------------------------------------------------------------------------
(* Facts every step of the inductive proof needs *)

(* The types the proofs about the directory use. *)
LEMMA TypeFacts ==
  ASSUME TypeOK
  PROVE  /\ files \subseteq Part /\ parts \in Seq(Part) /\ seq \in Nat
         /\ cur \in Part /\ now \in Nat /\ stamp \in Nat
         /\ stored \in Seq(Batch) /\ late \subseteq Part
         /\ HalfA(cur) \in Part /\ HalfB(cur) \in Part
<1>1. cur \in Part
  BY DEF TypeOK, CallTypes
<1> QED BY <1>1, HalvesPartition DEF TypeOK, SpoolTypes, CallTypes, WorldTypes

(* The fields of a part and their types. *)
LEMMA PartFacts ==
  ASSUME NEW p \in Part
  PROVE  /\ p.seq \in Nat /\ p.created \in Nat /\ p.first \in Int /\ p.last \in Int
         /\ p.path \in Seq({"a", "b"}) /\ Len(p.path) \in Nat
<1>1. p.path \in Seq({"a", "b"})
  BY DEF Part
<1> QED BY <1>1 DEF Part

(* What Pulse stored stays stored, and what it acknowledges is stored. *)
LEMMA IngestStores ==
  ASSUME TypeOK, NEW p \in Part, Ingest(p)
  PROVE  /\ StoredItems \subseteq StoredItems'
         /\ Verdict(p) = "delivered" => Items(p) \subseteq StoredItems'
<1> DEFINE b == [first |-> p.first, last |-> p.last, at |-> now]
<1>1. b \in Batch /\ stored \in Seq(Batch) /\ Items(b) = Items(p)
  BY TypeFacts, PartFacts DEF Batch, Items
<1>2. Elems(Append(stored, b)) = Elems(stored) \cup {b}
  BY <1>1, ElemsAppend
<1>3. CASE stored' = Append(stored, b)
  <2>1. StoredItems' = ItemsOf(Elems(stored) \cup {b})
    BY <1>2, <1>3 DEF StoredItems
  <2>2. StoredItems' = StoredItems \cup Items(p)
    BY <1>1, <2>1 DEF StoredItems, ItemsOf
  <2> QED BY <2>2
<1>4. CASE stored' = stored /\ Verdict(p) # "delivered"
  BY <1>4 DEF StoredItems
<1>5. CASE stored' = stored /\ Remembered(p)
  <2>1. PICK i \in DOMAIN stored : stored[i].first = p.first /\ stored[i].last = p.last
    BY <1>5 DEF Remembered
  <2>2. Items(stored[i]) = Items(p) /\ stored[i] \in Elems(stored)
    BY <2>1 DEF Items, Elems
  <2> QED BY <1>5, <2>2 DEF StoredItems, ItemsOf
<1> QED BY <1>3, <1>4, <1>5 DEF Ingest

(* The empty spool satisfies the invariant. *)
LEMMA InitSpoolInv == Init => SpoolInv
<1> SUFFICES ASSUME Init PROVE SpoolInv
  OBVIOUS
<1>1. ControlInv
  BY DEF Init, ControlInv, LockInv, Replacing, HalvesWritten, AnsweredOnce
<1>2. DOMAIN parts = {} /\ Elems(parts) = {}
  BY DEF Init, Elems
<1>3. DiskInv
  BY <1>2 DEF Init, DiskInv, SeqAhead, PartsDistinct, Distinct, DirectHalves,
     QueueOnDisk, NamesUnique, NothingVanishes
<1> QED BY <1>1, <1>3, InitTypeOK DEF SpoolInv
-----------------------------------------------------------------------------
(* Control: who holds the lock, and what the drain knows of its part *)

(* Every step respects who may hold mu at which place of its section. *)
LEMMA StepLockInv ==
  ASSUME TypeOK, LockInv, [Next]_vars
  PROVE  LockInv'
<1> USE DEF LockInv, Replacing, memory, enqueuer, drainer, Acquire, Release,
            DrainIdle
<1>1. ASSUME NEW shape \in Shapes, EnqueueCall(shape)
      PROVE  LockInv'
  BY <1>1 DEF EnqueueCall
<1>2. CASE EnqueueLock \/ EnqueueRefuse \/ StartEvict \/ StartWrite
  BY <1>2 DEF EnqueueLock, EnqueueRefuse, EnqueueReturn, StartEvict, StartWrite
<1>3. CASE WritePart \/ WritePartFails \/ EnqueueDone
  BY <1>3 DEF WritePart, WritePartFails, EnqueueDone, EnqueueReturn
<1>4. CASE Expire \/ Evict
  BY <1>4 DEF Expire, Evict
<1>5. CASE DrainNext \/ PeekLock \/ PeekEmpty \/ PeekHead \/ PeekFails
  BY <1>5 DEF DrainNext, PeekLock, PeekEmpty, PeekHead, PeekFails
<1>6. CASE Send \/ SendFails \/ ReplyLost \/ OnDelivered \/ Discard
  BY <1>6 DEF Send, SendFails, ReplyLost, OnDelivered, Discard
<1>7. CASE AllowSplit \/ Quarantine
  BY <1>7 DEF AllowSplit, Quarantine
<1>8. CASE ReplaceLock
  BY <1>8 DEF ReplaceLock
<1>9. CASE WriteHalfA \/ WriteHalfB
  BY <1>9 DEF WriteHalfA, WriteHalfB, WriteHalf
<1>10. CASE RemoveParent \/ Cleanup
  BY <1>10 DEF RemoveParent, Cleanup
<1>11. CASE Opening
  BY <1>11 DEF Opening, Open, OpenFails, Scan, ScanDone, OpenDone
<1>12. CASE Environment
  BY <1>12 DEF Environment, Tick, Crash, LateArrival, Heal
<1>13. CASE UNCHANGED vars
  BY <1>13 DEF vars
<1> QED BY <1>1, <1>2, <1>3, <1>4, <1>5, <1>6, <1>7, <1>8, <1>9, <1>10, <1>11,
           <1>12, <1>13
        DEF Next, Enqueuing, Draining

(* Halves stay files until their parent is removed. *)
LEMMA StepHalvesWritten ==
  ASSUME TypeOK, LockInv, HalvesWritten, [Next]_vars
  PROVE  HalvesWritten'
<1>1. CASE UNCHANGED <<files, cur, step>>
  BY <1>1 DEF HalvesWritten, HalfA, HalfB, Middle
<1>2. CASE step' \notin {"half b", "parent"}
  BY <1>2 DEF HalvesWritten
<1>3. CASE WriteHalfA
  BY <1>3 DEF WriteHalfA, WriteHalf, drainer, HalvesWritten, HalfA, HalfB, Middle
<1>4. CASE WriteHalfB
  BY <1>4 DEF WriteHalfB, WriteHalf, drainer, HalvesWritten, HalfA, HalfB, Middle
<1> USE DEF LockInv, Replacing, memory, enqueuer, drainer, Acquire, Release
<1>5. ASSUME \/ \E shape \in Shapes : EnqueueCall(shape)
             \/ Enqueuing \/ Expire \/ Evict
      PROVE  step' \notin {"half b", "parent"} \/ UNCHANGED <<files, cur, step>>
  BY <1>5 DEF EnqueueCall, Enqueuing, EnqueueLock, EnqueueRefuse, StartEvict,
     StartWrite, WritePart, WritePartFails, EnqueueDone, EnqueueReturn, Expire,
     Evict
<1>6. ASSUME \/ DrainNext \/ PeekLock \/ PeekEmpty \/ PeekHead \/ PeekFails \/ Send
             \/ SendFails \/ ReplyLost \/ OnDelivered \/ AllowSplit
             \/ Quarantine \/ Discard
      PROVE  step' \notin {"half b", "parent"} \/ UNCHANGED <<files, cur, step>>
  BY <1>6 DEF DrainNext, PeekLock, PeekEmpty, PeekHead, PeekFails, Send, SendFails,
     ReplyLost, OnDelivered, AllowSplit, Quarantine, Discard
<1>7. ASSUME ReplaceLock \/ RemoveParent \/ Cleanup
      PROVE  step' \notin {"half b", "parent"} \/ UNCHANGED <<files, cur, step>>
  BY <1>7 DEF ReplaceLock, RemoveParent, Cleanup
<1>8. ASSUME Opening \/ Environment \/ UNCHANGED vars
      PROVE  step' \notin {"half b", "parent"} \/ UNCHANGED <<files, cur, step>>
  BY <1>8 DEF Opening, Open, OpenFails, Scan, ScanDone, OpenDone, Environment, Tick, Crash,
     LateArrival, Heal, vars
<1> QED BY <1>1, <1>2, <1>3, <1>4, <1>5, <1>6, <1>7, <1>8 DEF Next, Draining

(* What the answer of Pulse stands for stays true while Drain acts on it. *)
LEMMA StepAnsweredOnce ==
  ASSUME TypeOK, AnsweredOnce, [Next]_vars
  PROVE  AnsweredOnce'
<1> USE DEF drainer, pulse, history
<1>1. ASSUME UNCHANGED <<dpc, reply, cur>>, StoredItems \subseteq StoredItems',
             rejected \subseteq rejected'
      PROVE  AnsweredOnce'
  BY <1>1 DEF AnsweredOnce
<1>2. CASE dpc' \notin {"reply", "discard"}
  BY <1>2 DEF AnsweredOnce
<1>3. ASSUME UNCHANGED stored
      PROVE  StoredItems \subseteq StoredItems'
  BY <1>3 DEF StoredItems
<1>4. CASE Send
  BY <1>4, IngestStores, TypeFacts DEF Send, AnsweredOnce
<1>5. CASE Quarantine
  BY <1>5 DEF Quarantine, AnsweredOnce
<1>6. CASE LateArrival
  BY <1>1, <1>6, IngestStores, TypeFacts DEF LateArrival
<1>7. ASSUME \/ DrainNext \/ PeekEmpty \/ PeekHead \/ PeekFails \/ SendFails \/ ReplyLost
             \/ OnDelivered \/ AllowSplit \/ Cleanup \/ Discard \/ Crash
      PROVE  dpc' \notin {"reply", "discard"}
  BY <1>7 DEF DrainNext, PeekEmpty, PeekHead, PeekFails, SendFails, ReplyLost, OnDelivered,
     AllowSplit, Cleanup, Discard, Crash, DrainIdle
<1>8. ASSUME ReplaceLock \/ RemoveParent
      PROVE  \/ dpc' \notin {"reply", "discard"}
             \/ UNCHANGED <<dpc, reply, cur, stored, rejected>>
  BY <1>8 DEF ReplaceLock, RemoveParent, DrainIdle
<1>9. ASSUME \/ \E shape \in Shapes : EnqueueCall(shape)
             \/ Enqueuing \/ Expire \/ Evict
      PROVE  UNCHANGED <<dpc, reply, cur, stored, rejected>>
  BY <1>9 DEF EnqueueCall, Enqueuing, EnqueueLock, EnqueueRefuse, StartEvict,
     StartWrite, WritePart, WritePartFails, EnqueueDone, EnqueueReturn, Expire,
     Evict
<1>10. ASSUME \/ PeekLock \/ WriteHalfA \/ WriteHalfB \/ Opening \/ Tick \/ Heal
              \/ UNCHANGED vars
       PROVE  UNCHANGED <<dpc, reply, cur, stored, rejected>>
  BY <1>10 DEF PeekLock, WriteHalfA, WriteHalfB, WriteHalf, Opening, Open, OpenFails, Scan,
     ScanDone, OpenDone, Tick, Heal, vars
<1> QED BY <1>1, <1>2, <1>3, <1>4, <1>5, <1>6, <1>7, <1>8, <1>9, <1>10
        DEF Next, Draining, Environment
-----------------------------------------------------------------------------
(* The directory and the queue *)

Kept ==
  /\ StoredItems \subseteq StoredItems'
  /\ lost \subseteq lost' /\ rejected \subseteq rejected'
Scanned(e, s) == e # "down" /\ s # "scan"

(* A step that touches neither the directory nor the queue. *)
LEMMA DiskQuiet ==
  ASSUME DiskInv, Kept, UNCHANGED <<files, parts, seq, accepted>>,
         step' = "scan" => step = "scan",
         Scanned(epc', step') => Scanned(epc, step)
  PROVE  DiskInv'
<1> USE DEF DiskInv
<1>1. SeqAhead'
  BY DEF SeqAhead, Scanned
<1>2. PartsDistinct' /\ DirectHalves' /\ QueueOnDisk' /\ NamesUnique'
  BY DEF PartsDistinct, DirectHalves, QueueOnDisk, NamesUnique
<1>3. NothingVanishes'
  BY DEF NothingVanishes, Kept
<1> QED BY <1>1, <1>2, <1>3

(* A part leaves the queue, with its file or without. *)
LEMMA DiskDrop ==
  ASSUME DiskInv, Kept, NEW p,
         UNCHANGED <<seq, accepted, epc, step>>, step # "scan",
         Distinct(parts'), Elems(parts') \subseteq Elems(parts),
         \/ files' = files
         \/ files' = files \ {p} /\ p \notin Elems(parts'),
         Items(p) \subseteq StoredItems' \cup lost' \cup rejected'
  PROVE  DiskInv'
<1> USE DEF DiskInv
<1>1. SeqAhead' /\ PartsDistinct'
  BY DEF SeqAhead, PartsDistinct
<1>2. DirectHalves' /\ QueueOnDisk' /\ NamesUnique'
  BY DEF DirectHalves, QueueOnDisk, NamesUnique
<1>3. NothingVanishes'
  BY DEF NothingVanishes, Kept, ItemsOf
<1> QED BY <1>1, <1>2, <1>3

(* A file with a new sequence number, queued or not. *)
LEMMA DiskAdd ==
  ASSUME TypeOK, DiskInv, Kept, NEW p \in Part,
         epc # "down", step # "scan", step' # "scan",
         p.seq = seq + 1, p.path = <<>>, seq' = seq + 1,
         \/ UNCHANGED <<files, parts, accepted>>
         \/ files' = files \cup {p} /\ UNCHANGED <<parts, accepted>>
         \/ /\ files' = files \cup {p}
            /\ parts' = Append(parts, p)
            /\ accepted' = accepted \cup Items(p)
  PROVE  DiskInv'
<1> USE DEF DiskInv
<1>1. /\ \A q \in files : q \in Part /\ q.seq \in Nat /\ q.seq <= seq /\ q.seq # p.seq
      /\ seq \in Nat /\ p \notin files /\ p.seq <= seq'
  BY TypeFacts, PartFacts DEF SeqAhead
<1>2. \A q \in files : ~SamePart(p, q) /\ ~SamePart(q, p)
  BY <1>1 DEF SamePart
<1>3. \A q \in files \cup {p} : ~Descends(p, q) /\ ~Descends(q, p)
  <2>1. ~Descends(p, p)
    BY PartFacts DEF Descends
  <2> QED BY <1>2, <2>1 DEF Descends
<1>4. /\ parts \in Seq(Part) /\ p \notin Elems(parts)
      /\ \/ parts' = parts
         \/ Distinct(parts') /\ Elems(parts') = Elems(parts) \cup {p} /\ p \in files'
  <2>1. parts \in Seq(Part) /\ p \notin Elems(parts)
    BY <1>1, TypeFacts DEF QueueOnDisk
  <2>2. /\ Elems(Append(parts, p)) = Elems(parts) \cup {p}
        /\ Distinct(Append(parts, p))
    BY <2>1, ElemsAppend DEF PartsDistinct
  <2> QED BY <2>1, <2>2
<1>5. SeqAhead'
  BY <1>1 DEF SeqAhead
<1>6. PartsDistinct' /\ QueueOnDisk'
  BY <1>4 DEF PartsDistinct, QueueOnDisk
<1>7. DirectHalves'
  <2>1. files' \subseteq files \cup {p} /\ Elems(parts') \subseteq Elems(parts) \cup {p}
    BY <1>4
  <2>2. \A x, y \in files' : Descends(x, y) => x \in files /\ y \in files
    BY <1>3, <2>1
  <2> QED BY <1>3, <2>1, <2>2 DEF DirectHalves, QueueOnDisk
<1>8. NamesUnique'
  BY <1>2 DEF NamesUnique
<1>9. NothingVanishes'
  BY DEF NothingVanishes, Kept, ItemsOf
<1> QED BY <1>5, <1>6, <1>7, <1>8, <1>9

(* replace writes a half of a queued part. *)
LEMMA DiskHalf ==
  ASSUME TypeOK, DiskInv, Kept, NEW h \in {HalfA(cur), HalfB(cur)},
         UNCHANGED <<parts, seq, accepted, epc>>, step' # "scan", step # "scan",
         cur \in Elems(parts),
         files' = files \cup {h} \/ files' = files
  PROVE  DiskInv'
<1> USE DEF DiskInv
<1>1. CASE files' = files
  BY <1>1, DiskQuiet DEF Scanned
<1>2. CASE files' = files \cup {h}
  <2>1. /\ cur \in files /\ cur \in Part /\ h \in Part /\ files \subseteq Part
        /\ HalfA(cur) \in Part /\ HalfB(cur) \in Part
        /\ \A q \in files : ~Descends(cur, q)
    BY TypeFacts DEF QueueOnDisk, DirectHalves
  <2>2. h.created = cur.created /\ h.seq = cur.seq /\ Descends(h, cur)
    BY <2>1, HalfDescends
  <2>3. \A q \in files : Descends(q, cur) => q \in {HalfA(cur), HalfB(cur)}
    BY <2>1 DEF DirectHalves
  <2>4. ASSUME NEW q \in files, SamePart(q, h), q.path = h.path
        PROVE  q = h
    <3>1. q \in {HalfA(cur), HalfB(cur)}
      BY <2>1, <2>3, <2>4, Ancestry
    <3>2. HalfA(cur).path # HalfB(cur).path
      <4>1. /\ HalfA(cur).path = Append(cur.path, "a")
            /\ HalfB(cur).path = Append(cur.path, "b")
            /\ cur.path \in Seq({"a", "b"})
        BY <2>1 DEF HalfA, HalfB, Part
      <4> QED BY <4>1, AppendInjective
    <3> QED BY <2>4, <3>1, <3>2
  <2>5. ASSUME NEW q \in files
        PROVE  ~Descends(q, h)
    <3>1. SUFFICES ASSUME Descends(q, h) PROVE FALSE
      OBVIOUS
    <3>2. q \in {HalfA(cur), HalfB(cur)}
      BY <2>1, <2>3, <3>1, Ancestry
    <3>3. Len(q.path) = Len(cur.path) + 1 /\ Len(h.path) = Len(cur.path) + 1
      BY <2>1, <3>2, HalfDescends
    <3> QED BY <2>1, <3>1, <3>3, PartFacts DEF Descends
  <2>6. ASSUME NEW q \in files, Descends(h, q)
        PROVE  q = cur
    <3>1. SamePart(cur, q) /\ cur.path = q.path
      BY <2>1, <2>6, Ancestry
    <3> QED BY <2>1, <3>1 DEF NamesUnique
  <2>7. ~Descends(h, h)
    BY <2>1, PartFacts DEF Descends
  <2>8. SeqAhead'
    BY <1>2, <2>1, <2>2 DEF SeqAhead
  <2>9. PartsDistinct' /\ QueueOnDisk'
    BY <1>2 DEF PartsDistinct, QueueOnDisk
  <2>10. DirectHalves'
    <3>1. ASSUME NEW p \in files', NEW q \in files', Descends(p, q)
          PROVE  p \in {HalfA(q), HalfB(q)}
      <4>1. CASE p \in files /\ q \in files
        BY <3>1, <4>1 DEF DirectHalves
      <4>2. CASE q = h
        BY <1>2, <2>5, <2>7, <3>1, <4>2
      <4>3. CASE p = h /\ q \in files
        BY <2>6, <3>1, <4>3
      <4> QED BY <1>2, <4>1, <4>2, <4>3
    <3>2. \A p \in Elems(parts), q \in files' : ~Descends(p, q)
      BY <1>2, <2>5 DEF DirectHalves, QueueOnDisk
    <3> QED BY <3>1, <3>2 DEF DirectHalves
  <2>11. NamesUnique'
    BY <1>2, <2>4 DEF NamesUnique, SamePart
  <2>12. NothingVanishes'
    BY <1>2 DEF NothingVanishes, Kept, ItemsOf
  <2> QED BY <2>8, <2>9, <2>10, <2>11, <2>12
<1> QED BY <1>1, <1>2

(* The halves are not in the queue while their parent is. *)
LEMMA HalvesNotQueued ==
  ASSUME TypeOK, DiskInv, cur \in Elems(parts),
         NEW h \in {HalfA(cur), HalfB(cur)}
  PROVE  h \notin Elems(parts) /\ h # cur
  BY TypeFacts, HalfDescends DEF DiskInv, QueueOnDisk, DirectHalves

(* The parent goes, its halves take its place. *)
LEMMA DiskCommit ==
  ASSUME TypeOK, DiskInv, Kept, NEW i \in DOMAIN parts, parts[i] = cur,
         HalfA(cur) \in files, HalfB(cur) \in files,
         files' = files \ {cur}, parts' = Spliced(i),
         UNCHANGED <<seq, accepted, epc>>, step' # "scan", step # "scan"
  PROVE  DiskInv'
<1> USE DEF DiskInv
<1>1. cur \in Elems(parts)
  BY DEF Elems
<1>2. /\ cur \in Part /\ HalfA(cur) \in Part /\ HalfB(cur) \in Part
      /\ parts \in Seq(Part) /\ files \subseteq Part
      /\ HalfA(cur) \notin Elems(parts) /\ HalfB(cur) \notin Elems(parts)
      /\ HalfA(cur) # cur /\ HalfB(cur) # cur
  BY <1>1, TypeFacts, HalvesNotQueued
<1>3. HalfA(cur) # HalfB(cur)
  <2>1. /\ HalfA(cur).path = Append(cur.path, "a")
        /\ HalfB(cur).path = Append(cur.path, "b")
        /\ cur.path \in Seq({"a", "b"})
    BY <1>2 DEF HalfA, HalfB, Part
  <2> QED BY <2>1, AppendInjective
<1>4. /\ Elems(parts') = (Elems(parts) \ {cur}) \cup {HalfA(cur), HalfB(cur)}
      /\ Distinct(parts')
  BY <1>2, <1>3, ElemsSplice DEF Spliced, PartsDistinct
<1>5. SeqAhead'
  BY DEF SeqAhead
<1>6. PartsDistinct' /\ QueueOnDisk' /\ NamesUnique'
  BY <1>2, <1>4 DEF PartsDistinct, QueueOnDisk, NamesUnique
<1>7. DirectHalves'
  <2>1. ASSUME NEW h \in {HalfA(cur), HalfB(cur)}, NEW q \in files', Descends(h, q)
        PROVE  FALSE
    <3>1. q \in files /\ q # cur /\ q \in Part /\ ~Descends(cur, q)
      BY <1>1, <1>2 DEF DirectHalves
    <3>2. SamePart(cur, q) /\ cur.path = q.path
      BY <1>2, <2>1, <3>1, Ancestry
    <3> QED BY <1>1, <3>1, <3>2 DEF NamesUnique, QueueOnDisk
  <2> QED BY <1>4, <2>1 DEF DirectHalves
<1>8. NothingVanishes'
  <2>1. Items(HalfA(cur)) \cup Items(HalfB(cur)) = Items(cur)
    BY <1>2, HalvesPartition
  <2>2. HalfA(cur) \in files' /\ HalfB(cur) \in files'
    BY <1>2
  <2> QED BY <2>1, <2>2 DEF NothingVanishes, Kept, ItemsOf
<1> QED BY <1>5, <1>6, <1>7, <1>8

(* The cleanup of a failed split takes away halves and nothing else. *)
LEMMA DiskCleanup ==
  ASSUME TypeOK, DiskInv, Kept, cur \in Elems(parts),
         NEW H \in SUBSET {HalfA(cur), HalfB(cur)}, files' = files \ H,
         UNCHANGED <<parts, seq, accepted, epc>>, step' # "scan", step # "scan"
  PROVE  DiskInv'
<1> USE DEF DiskInv
<1>1. \A h \in H : h \notin Elems(parts) /\ h # cur
  BY HalvesNotQueued
<1>2. SeqAhead'
  BY DEF SeqAhead
<1>3. PartsDistinct' /\ QueueOnDisk' /\ NamesUnique'
  BY <1>1 DEF PartsDistinct, QueueOnDisk, NamesUnique
<1>4. DirectHalves'
  BY DEF DirectHalves
<1>5. NothingVanishes'
  <2>1. \A h \in H : Items(h) \subseteq Items(cur)
    BY HalvesPartition, TypeFacts
  <2>2. cur \in files'
    BY <1>1 DEF QueueOnDisk
  <2> QED BY <2>1, <2>2 DEF NothingVanishes, Kept, ItemsOf
<1> QED BY <1>2, <1>3, <1>4, <1>5

(* load deletes only halves whose parent it keeps. *)
LEMMA OrphansCovered ==
  ASSUME TypeOK, DiskInv, NEW p \in Orphans
  PROVE  \E q \in files \ Orphans : Items(p) \subseteq Items(q)
<1>1. PICK q \in files : p \in files /\ Descends(p, q)
  BY DEF Orphans
<1>2. p \in {HalfA(q), HalfB(q)} /\ q \in Part /\ p \in Part
  BY <1>1, TypeFacts DEF DiskInv, DirectHalves
<1>3. Items(p) \subseteq Items(q)
  BY <1>2, HalvesPartition
<1>4. ASSUME NEW r \in files, Descends(q, r)
      PROVE  FALSE
  <2>1. r \in Part /\ q \in {HalfA(r), HalfB(r)}
    BY <1>4, TypeFacts DEF DiskInv, DirectHalves
  <2>2. Descends(p, r)
    BY <1>1, <1>2, <2>1, Ancestry
  <2>3. p \in {HalfA(r), HalfB(r)}
    BY <1>1, <2>2 DEF DiskInv, DirectHalves
  <2>4. Len(p.path) = Len(q.path) + 1 /\ Len(p.path) = Len(r.path) + 1
        /\ Len(q.path) = Len(r.path) + 1
    BY <1>2, <2>1, <2>3, HalfDescends
  <2> QED BY <1>2, <2>1, <2>4, PartFacts
<1> QED BY <1>1, <1>3, <1>4 DEF Orphans

(* Every step keeps the directory and the queue together. *)
LEMMA StepDiskInv ==
  ASSUME SpoolInv, [Next]_vars
  PROVE  DiskInv'
<1> USE DEF SpoolInv, ControlInv
<1>1. ASSUME UNCHANGED stored
      PROVE  StoredItems \subseteq StoredItems'
  BY <1>1 DEF StoredItems
<1>2. CASE Expire \/ Evict
  <2>1. /\ parts # <<>> /\ DropHead /\ Kept
        /\ UNCHANGED <<seq, accepted, epc, step>> /\ step # "scan"
    BY <1>1, <1>2 DEF Expire, Evict, HeadExpired, OverBudget, Kept, DropHead,
       enqueuer, pulse
  <2>2. /\ Head(parts) \notin Elems(Tail(parts)) /\ Distinct(Tail(parts))
        /\ Elems(Tail(parts)) \subseteq Elems(parts)
    BY <2>1, TypeFacts, ElemsTail DEF DiskInv, PartsDistinct
  <2> QED BY <2>1, <2>2, DiskDrop DEF DropHead
<1>3. CASE WritePart
  <2>1. /\ NextPart \in Part /\ NextPart.seq = seq + 1 /\ NextPart.path = <<>>
    BY <1>3, NextPartType DEF WritePart, NextPart, TypeOK
  <2>2. /\ epc # "down" /\ step # "scan" /\ step' # "scan" /\ Kept
    BY <1>1, <1>3 DEF WritePart, LockInv, pulse, Kept
  <2> QED BY <1>3, <2>1, <2>2, DiskAdd DEF WritePart
<1>4. CASE WritePartFails
  <2>1. /\ NextPart \in Part /\ NextPart.seq = seq + 1 /\ NextPart.path = <<>>
    BY <1>4, NextPartType DEF WritePartFails, NextPart, TypeOK
  <2>2. /\ epc # "down" /\ step # "scan" /\ step' # "scan" /\ Kept
    BY <1>1, <1>4 DEF WritePartFails, EnqueueReturn, Release, LockInv, pulse, Kept
  <2> QED BY <1>4, <2>1, <2>2, DiskAdd DEF WritePartFails
<1>5. CASE OnDelivered \/ Discard
  <2>1. /\ TakeOut(cur) /\ Kept /\ UNCHANGED <<seq, accepted, epc, step>>
        /\ step # "scan"
        /\ Items(cur) \subseteq StoredItems' \cup lost' \cup rejected'
    BY <1>1, <1>5 DEF OnDelivered, Discard, enqueuer, pulse, history, Kept,
       LockInv, AnsweredOnce
  <2>2. CASE UNCHANGED <<files, parts>>
    BY <2>1, <2>2, DiskQuiet DEF Scanned
  <2>3. ASSUME NEW i \in DOMAIN parts, parts[i] = cur, files' = files \ {cur},
               parts' = SubSeq(parts, 1, i - 1) \o SubSeq(parts, i + 1, Len(parts))
        PROVE  DiskInv'
    <3>1. Elems(parts') = Elems(parts) \ {cur} /\ Distinct(parts')
      BY <2>3, TypeFacts, ElemsCut DEF DiskInv, PartsDistinct
    <3> QED BY <2>1, <2>3, <3>1, DiskDrop
  <2> QED BY <2>1, <2>2, <2>3 DEF TakeOut
<1>6. CASE WriteHalfA \/ WriteHalfB
  <2>1. /\ Kept /\ UNCHANGED <<parts, seq, accepted, epc>>
        /\ step' # "scan" /\ step # "scan" /\ cur \in Elems(parts)
    BY <1>1, <1>6 DEF WriteHalfA, WriteHalfB, WriteHalf, memory, enqueuer, pulse,
       history, Kept, LockInv, Replacing
  <2>2. \E h \in {HalfA(cur), HalfB(cur)} : files' = files \cup {h} \/ files' = files
    BY <1>6 DEF WriteHalfA, WriteHalfB, WriteHalf
  <2> QED BY <2>1, <2>2, DiskHalf
<1>7. CASE RemoveParent
  <2>1. /\ Kept /\ UNCHANGED <<seq, accepted, epc>>
        /\ step' # "scan" /\ step # "scan"
        /\ HalfA(cur) \in files /\ HalfB(cur) \in files
    BY <1>1, <1>7 DEF RemoveParent, Release, enqueuer, pulse, history, Kept,
       HalvesWritten
  <2>2. CASE UNCHANGED <<files, parts>>
    BY <2>1, <2>2, DiskQuiet DEF Scanned
  <2>3. ASSUME NEW i \in DOMAIN parts, parts[i] = cur, files' = files \ {cur},
               parts' = Spliced(i)
        PROVE  DiskInv'
    BY <2>1, <2>3, DiskCommit
  <2> QED BY <1>7, <2>2, <2>3 DEF RemoveParent
<1>8. CASE Cleanup
  <2>1. /\ Kept /\ UNCHANGED <<parts, seq, accepted, epc>>
        /\ step' # "scan" /\ step # "scan" /\ cur \in Elems(parts)
    BY <1>1, <1>8 DEF Cleanup, Release, memory, enqueuer, pulse, history, Kept,
       LockInv, Replacing
  <2>2. \E H \in SUBSET {HalfA(cur), HalfB(cur)} : files' = files \ H
    BY <1>8 DEF Cleanup, Leftovers
  <2> QED BY <2>1, <2>2, DiskCleanup
<1>9. CASE Crash
  <2>1. /\ parts' = <<>> /\ UNCHANGED <<files, accepted>> /\ step' = "none"
        /\ epc' = "down" /\ Kept
    BY <1>1, <1>9 DEF Crash, Release, pulse, history, Kept
  <2>2. Elems(parts') = {} /\ Distinct(parts')
    BY <2>1 DEF Elems, Distinct
  <2> QED BY <2>1, <2>2 DEF DiskInv, SeqAhead, PartsDistinct, DirectHalves,
          QueueOnDisk, NamesUnique, NothingVanishes, Kept
<1>10. CASE Open
  <2>1. /\ parts = <<>> /\ UNCHANGED <<parts, seq, accepted>> /\ step' = "scan"
        /\ files' = files \ Orphans /\ Kept
    BY <1>1, <1>10 DEF Open, Acquire, memory, pulse, history, Kept, LockInv
  <2>2. Elems(parts') = {} /\ Distinct(parts')
    BY <2>1 DEF Elems, Distinct
  <2>3. SeqAhead' /\ PartsDistinct' /\ QueueOnDisk' /\ NamesUnique'
    BY <2>1, <2>2 DEF DiskInv, SeqAhead, PartsDistinct, QueueOnDisk, NamesUnique
  <2>4. DirectHalves'
    <3>1. \A p, q \in files' : ~Descends(p, q)
      BY <2>1 DEF Orphans
    <3> QED BY <2>2, <3>1 DEF DirectHalves
  <2>5. NothingVanishes'
    <3>1. ItemsOf(files) \subseteq ItemsOf(files')
      BY <2>1, OrphansCovered DEF ItemsOf
    <3> QED BY <2>1, <3>1 DEF DiskInv, NothingVanishes, Kept
  <2> QED BY <2>3, <2>4, <2>5 DEF DiskInv
<1>11. CASE Scan
  <2>1. PICK p \in files \ Elems(parts) :
           /\ seq' = SeqAfter(p) /\ parts' = Append(parts, p)
    BY <1>11 DEF Scan
  <2>2. /\ p \in Part /\ p.seq \in Nat /\ seq \in Nat /\ parts \in Seq(Part)
        /\ files \subseteq Part
    BY <2>1, TypeFacts, PartFacts
  <2>3. Elems(parts') = Elems(parts) \cup {p} /\ Distinct(parts')
    BY <2>1, <2>2, ElemsAppend DEF DiskInv, PartsDistinct
  <2>4. /\ step = "scan" /\ Kept /\ UNCHANGED <<files, accepted, step>>
    BY <1>1, <1>11 DEF Scan, pulse, history, Kept
  <2>5. SeqAhead'
    <3>1. \A q \in Elems(parts) : q.seq \in Nat /\ q.seq <= seq
      BY <2>2, <2>4, PartFacts DEF DiskInv, SeqAhead, QueueOnDisk
    <3>2. \A q \in Elems(parts') : q.seq <= seq'
      BY <2>1, <2>2, <2>3, <3>1 DEF SeqAfter
    <3> QED BY <2>4, <3>2 DEF SeqAhead
  <2>6. PartsDistinct' /\ QueueOnDisk' /\ NamesUnique'
    BY <2>1, <2>3, <2>4 DEF DiskInv, PartsDistinct, QueueOnDisk, NamesUnique
  <2>7. DirectHalves'
    BY <2>1, <2>3, <2>4 DEF DiskInv, DirectHalves, QueueOnDisk
  <2>8. NothingVanishes'
    BY <2>4 DEF DiskInv, NothingVanishes, Kept
  <2> QED BY <2>5, <2>6, <2>7, <2>8 DEF DiskInv
<1>18. CASE OpenFails
  <2>1. /\ parts = <<>> /\ UNCHANGED <<parts, seq, accepted, epc, step>> /\ Kept
        /\ epc = "down" /\ step = "none" /\ files \ Orphans \subseteq files'
        /\ files' \subseteq files
    BY <1>1, <1>18 DEF OpenFails, Orphans, memory, enqueuer, pulse, history,
       Kept, LockInv
  <2>2. Elems(parts) = {} /\ Elems(parts') = {}
    BY <2>1 DEF Elems
  <2>3. /\ SeqAhead' /\ PartsDistinct' /\ QueueOnDisk' /\ NamesUnique'
        /\ DirectHalves'
    BY <2>1, <2>2 DEF DiskInv, SeqAhead, PartsDistinct, QueueOnDisk,
       NamesUnique, DirectHalves
  <2>4. ItemsOf(files) \subseteq ItemsOf(files')
    BY <2>1, OrphansCovered DEF ItemsOf
  <2> QED BY <2>1, <2>3, <2>4 DEF DiskInv, NothingVanishes, Kept
<1>12. CASE ScanDone
  <2>1. /\ files = Elems(parts) /\ step = "scan" /\ step' # "scan" /\ Kept
        /\ UNCHANGED <<files, parts, seq, accepted>>
    BY <1>1, <1>12 DEF ScanDone, memory, pulse, history, Kept
  <2> QED BY <2>1 DEF DiskInv, SeqAhead, PartsDistinct, DirectHalves,
          QueueOnDisk, NamesUnique, NothingVanishes, Kept
<1>13. ASSUME UNCHANGED <<files, parts, seq, accepted>>, Kept, step' # "scan",
              epc = "down" <=> epc' = "down", step # "scan" \/ UNCHANGED step
       PROVE  DiskInv'
  BY <1>13, DiskQuiet DEF Scanned
<1>14. CASE Send \/ LateArrival
  <2>1. /\ Kept /\ UNCHANGED <<files, parts, seq, accepted, epc, step>>
    BY <1>14, IngestStores, TypeFacts
       DEF Send, LateArrival, memory, enqueuer, history, Kept
  <2> QED BY <2>1, DiskQuiet DEF Scanned
<1>15. CASE Quarantine
  <2>1. /\ Kept /\ UNCHANGED <<files, parts, seq, accepted, epc, step>>
    BY <1>1, <1>15 DEF Quarantine, memory, enqueuer, pulse, Kept
  <2> QED BY <2>1, DiskQuiet DEF Scanned
<1>16. CASE \/ \E shape \in Shapes : EnqueueCall(shape)
            \/ EnqueueLock \/ EnqueueRefuse \/ StartEvict \/ StartWrite
            \/ EnqueueDone \/ PeekLock \/ PeekEmpty \/ PeekHead \/ PeekFails
            \/ ReplaceLock \/ OpenDone
  <2>1. /\ Kept /\ UNCHANGED <<files, parts, seq, accepted>>
    BY <1>1, <1>16 DEF EnqueueCall, EnqueueLock, EnqueueRefuse, EnqueueDone,
       EnqueueReturn, StartEvict, StartWrite, PeekLock, PeekEmpty, PeekHead,
       PeekFails, ReplaceLock, OpenDone, memory, pulse, history, Kept
  <2>2. /\ Scanned(epc', step') => Scanned(epc, step)
        /\ step' = "scan" => step = "scan"
    BY <1>16 DEF EnqueueCall, EnqueueLock, EnqueueRefuse, EnqueueDone,
       EnqueueReturn, StartEvict, StartWrite, PeekLock, PeekEmpty, PeekHead,
       PeekFails, ReplaceLock, OpenDone, Acquire, Release, enqueuer, LockInv, Scanned
  <2> QED BY <2>1, <2>2, DiskQuiet
<1>17. CASE \/ DrainNext \/ SendFails \/ ReplyLost \/ AllowSplit \/ Tick \/ Heal
            \/ UNCHANGED vars
  <2>1. /\ Kept /\ UNCHANGED <<files, parts, seq, accepted, epc, step>>
    BY <1>1, <1>17 DEF DrainNext, SendFails, ReplyLost, AllowSplit, Tick, Heal,
       memory, enqueuer, pulse, history, vars, Kept
  <2> QED BY <2>1, DiskQuiet DEF Scanned
<1> QED BY <1>2, <1>3, <1>4, <1>5, <1>6, <1>7, <1>8, <1>9, <1>10, <1>11, <1>12,
           <1>14, <1>15, <1>16, <1>17, <1>18
        DEF Next, Enqueuing, Draining, Opening, Environment
-----------------------------------------------------------------------------
(* The theorems *)

(* The invariant is inductive. *)
LEMMA StepSpoolInv == SpoolInv /\ [Next]_vars => SpoolInv'
  BY StepTypeOK, StepLockInv, StepHalvesWritten, StepAnsweredOnce, StepDiskInv
     DEF SpoolInv, ControlInv

(* The inductive invariant: the lock discipline, the order in which        *)
(* replace touches the directory, sequence numbers and names, and with     *)
(* them the three properties below.                                        *)
THEOREM SpoolInvariant == Spec => []SpoolInv
  BY InitSpoolInv, StepSpoolInv, PTL DEF Spec

(* Whatever crashes, faults, splits, retries and evictions happen, an item *)
(* Enqueue queued is on disk, at Pulse, or reported as given up.           *)
THEOREM NoTelemetryVanishes == Spec => []NothingVanishes
<1>1. SpoolInv => NothingVanishes
  BY DEF SpoolInv, DiskInv
<1> QED BY <1>1, SpoolInvariant, PTL

(* The head of the queue always has its file for peek to read.             *)
THEOREM QueueIsOnDisk == Spec => []QueueOnDisk
<1>1. SpoolInv => QueueOnDisk
  BY DEF SpoolInv, DiskInv
<1> QED BY <1>1, SpoolInvariant, PTL

(* No rename ever replaces the file of another part, across any number of  *)
(* restarts and levels of splits.                                          *)
THEOREM NamesAreUnique == Spec => []NamesUnique
<1>1. SpoolInv => NamesUnique
  BY DEF SpoolInv, DiskInv
<1> QED BY <1>1, SpoolInvariant, PTL
=============================================================================
