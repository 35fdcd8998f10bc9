--------------------------- MODULE SpoolOnceProofs ---------------------------
(***************************************************************************)
(* Proofs about what reaches Pulse: what is given up and what is stored,   *)
(* for every value of the constants.                                       *)
(***************************************************************************)
EXTENDS SpoolOrderProofs
-----------------------------------------------------------------------------
(* What is given up *)

(* What Pulse refuses only shrinks. *)
LEMMA BadChange ==
  ASSUME [Next]_vars
  PROVE  bad' = bad \/ (CanHeal /\ bad' \subseteq bad /\ Heal)
<1> USE DEF pulse
<1>1. CASE \/ \E shape \in Shapes : EnqueueCall(shape)
           \/ Enqueuing \/ Expire \/ Evict
  BY <1>1 DEF EnqueueCall, Enqueuing, EnqueueLock, EnqueueRefuse, EnqueueReturn, StartEvict,
     StartWrite, WritePart, WritePartFails, EnqueueDone, Expire, Evict
<1>2. CASE \/ DrainNext \/ PeekLock \/ PeekEmpty \/ PeekHead \/ PeekFails \/ Send
           \/ SendFails \/ ReplyLost \/ OnDelivered \/ AllowSplit
  BY <1>2 DEF DrainNext, PeekLock, PeekEmpty, PeekHead, PeekFails, Send, SendFails,
     ReplyLost, OnDelivered, AllowSplit
<1>3. CASE \/ ReplaceLock \/ WriteHalfA \/ WriteHalfB \/ RemoveParent \/ Cleanup
           \/ Quarantine \/ Discard
  BY <1>3 DEF ReplaceLock, WriteHalfA, WriteHalfB, WriteHalf, RemoveParent, Cleanup,
     Quarantine, Discard
<1>4. CASE Opening \/ Environment \/ UNCHANGED vars
  BY <1>4 DEF Opening, Open, OpenFails, Scan, ScanDone, OpenDone, Environment, Tick,
     Crash, LateArrival, Heal, vars
<1> QED BY <1>1, <1>2, <1>3, <1>4 DEF Next, Draining

(* A refusal comes from Send; only Quarantine gives an item up. *)
LEMMA RefusedChange ==
  ASSUME [Next]_vars
  PROVE  /\ Refused' => \/ Refused /\ cur' = cur
                        \/ Send /\ cur' = cur /\ Verdict(cur) = "rejected"
         /\ rejected' = rejected \/ (Quarantine /\ rejected' = rejected \cup Items(cur))
<1> USE DEF Refused, history, drainer, DrainIdle
<1>1. CASE \/ \E shape \in Shapes : EnqueueCall(shape)
           \/ Enqueuing \/ Expire \/ Evict
  BY <1>1 DEF EnqueueCall, Enqueuing, EnqueueLock, EnqueueRefuse, EnqueueReturn, StartEvict,
     StartWrite, WritePart, WritePartFails, EnqueueDone, Expire, Evict
<1>2. CASE \/ DrainNext \/ PeekLock \/ PeekEmpty \/ PeekHead \/ PeekFails \/ Send
           \/ SendFails \/ ReplyLost \/ OnDelivered \/ AllowSplit
  BY <1>2 DEF DrainNext, PeekLock, PeekEmpty, PeekHead, PeekFails, Send, SendFails,
     ReplyLost, OnDelivered, AllowSplit
<1>3. CASE \/ ReplaceLock \/ WriteHalfA \/ WriteHalfB \/ RemoveParent \/ Cleanup
           \/ Quarantine \/ Discard
  BY <1>3 DEF ReplaceLock, WriteHalfA, WriteHalfB, WriteHalf, RemoveParent, Cleanup,
     Quarantine, Discard
<1>4. CASE Opening \/ Environment \/ UNCHANGED vars
  BY <1>4 DEF Opening, Open, OpenFails, Scan, ScanDone, OpenDone, Environment, Tick,
     Crash, LateArrival, Heal, vars
<1> QED BY <1>1, <1>2, <1>3, <1>4 DEF Next, Draining

(* What is refused has an item Pulse may refuse, and a part is given up    *)
(* only when it is down to that item.                                      *)
LEMMA StepRefusalFounded ==
  ASSUME TypeOK, RefusalFounded, [Next]_vars
  PROVE  RefusalFounded'
<1>1. bad' \subseteq Bad /\ (~CanHeal => bad' = Bad)
  BY BadChange DEF RefusalFounded
<1>2. Refused' => Items(cur)' \cap Bad # {}
  <2>1. ASSUME Refused', Refused, cur' = cur PROVE Items(cur)' \cap Bad # {}
    BY <2>1 DEF RefusalFounded, Items
  <2>2. ASSUME Refused', cur' = cur, Verdict(cur) = "rejected" PROVE Items(cur)' \cap Bad # {}
    BY <2>2 DEF RefusalFounded, Items, Verdict
  <2> QED BY <2>1, <2>2, RefusedChange
<1>3. HealthyNotQuarantined'
  <2>1. CASE rejected' = rejected
    BY <2>1 DEF RefusalFounded, HealthyNotQuarantined
  <2>2. CASE Quarantine /\ rejected' = rejected \cup Items(cur)
    <3>1. ~Divisible(cur) /\ Items(cur) \cap Bad # {}
      BY <2>2 DEF Quarantine, RefusalFounded, Refused
    <3>2. cur.first \in Int /\ cur.last \in Int
      BY TypeFacts, PartFacts
    <3>3. Items(cur) \subseteq {cur.first}
      BY <3>1, <3>2 DEF Divisible, Items
    <3> QED BY <2>2, <3>1, <3>3 DEF RefusalFounded, HealthyNotQuarantined
  <2> QED BY <2>1, <2>2, RefusedChange
<1> QED BY <1>1, <1>2, <1>3 DEF RefusalFounded

LEMMA InitRefusalFounded == Init => RefusalFounded
  BY DEF Init, RefusalFounded, Refused, HealthyNotQuarantined

THEOREM RefusalInvariant == Spec => []RefusalFounded
  BY InitRefusalFounded, StepRefusalFounded, TypeCorrect, PTL DEF Spec

(* Splitting isolates what Pulse refuses: no healthy item is given up. *)
THEOREM HealthyItemsAreKept == Spec => []HealthyNotQuarantined
<1>1. RefusalFounded => HealthyNotQuarantined
  BY DEF RefusalFounded
<1> QED BY <1>1, RefusalInvariant, PTL

-----------------------------------------------------------------------------
(* Bodies that never reach Pulse twice *)

(* What a part shares with another is a matter of their bodies. *)
LEMMA CompatibleBodies ==
  ASSUME NEW p, NEW b, SameBody(b, p)
  PROVE  /\ Hopeless(b) <=> Hopeless(p)
         /\ \A q : /\ Compatible(q, p) <=> Compatible(q, b)
                   /\ Compatible(p, q) <=> Compatible(b, q)
                   /\ Apart(p, q) <=> Apart(b, q)
<1>1. Items(b) = Items(p) /\ b.first = p.first /\ b.last = p.last
  BY DEF SameBody, Items
<1> QED BY <1>1 DEF Hopeless, Compatible, Apart, Before, SameBody

(* Half-parts of a filled part lie within it, even of a single item. *)
LEMMA HalfLiesWithin ==
  ASSUME NEW p \in Part, Filled(p), NEW h \in {HalfA(p), HalfB(p)}
  PROVE  /\ h \in Part /\ p.first <= h.first /\ h.last <= p.last
         /\ p.first \in Int /\ p.last \in Int /\ h.first \in Int /\ h.last \in Int
<1>1. h \in Part
  BY HalvesPartition
<1>2. p.first \in Int /\ p.last \in Int /\ h.first \in Int /\ h.last \in Int
  BY <1>1, PartFacts
<1>3. Middle(p) \in Int /\ p.first <= Middle(p) /\ Middle(p) <= p.last
  <2>1. p.first <= p.last
    BY DEF Filled
  <2> QED BY <1>2, <2>1 DEF Middle
<1>4. /\ HalfA(p).first = p.first /\ HalfA(p).last = Middle(p) - 1
      /\ HalfB(p).first = Middle(p) /\ HalfB(p).last = p.last
  BY DEF Part, HalfA, HalfB
<1> QED BY <1>1, <1>2, <1>3, <1>4

(* A half is as compatible as its parent, once that is hopeless or apart. *)
LEMMA HalfCompatible ==
  ASSUME NEW r \in Part, Filled(r), NEW h \in {HalfA(r), HalfB(r)},
         NEW q, q.first \in Int, q.last \in Int,
         Apart(r, q) \/ (Hopeless(r) /\ Compatible(r, q))
  PROVE  Compatible(h, q)
<1>1. /\ r.first <= h.first /\ h.last <= r.last
      /\ r.first \in Int /\ r.last \in Int /\ h.first \in Int /\ h.last \in Int
  BY HalfLiesWithin
<1>2. CASE Apart(r, q)
  BY <1>1, <1>2 DEF Compatible, Apart, Before
<1>3. CASE Hopeless(r) /\ SameBody(r, q)
  BY <1>3, CompatibleBodies DEF Compatible
<1>4. CASE Hopeless(q)
  BY <1>4 DEF Compatible
<1> QED BY <1>2, <1>3, <1>4 DEF Compatible

(* A queued part lies beside none it was cut from; two such are apart. *)
LEMMA QueuedTops ==
  ASSUME SpoolInv, OrderInv
  PROVE  /\ Elems(parts) \subseteq Tops
         /\ \A p, q \in Tops : p = q \/ Apart(p, q)
<1>1. Elems(parts) \subseteq Tops
  BY DEF SpoolInv, DiskInv, QueueOnDisk, DirectHalves, Tops
<1>2. \A p, q \in Tops : p = q \/ Apart(p, q)
  BY DEF Tops, OrderInv, FilesRanked, Ranked, Apart
<1> QED BY <1>1, <1>2

(* A new half descends from the part that is split and from no other file, *)
(* and no file descends from it.                                           *)
LEMMA HalfAlone ==
  ASSUME SpoolInv, cur \in Elems(parts), NEW h \in {HalfA(cur), HalfB(cur)}, NEW q \in files
  PROVE  ~Descends(q, h) /\ (Descends(h, q) => q = cur)
<1>1. /\ cur \in files /\ cur \in Part /\ h \in Part /\ q \in Part
      /\ ~Descends(cur, q)
      /\ Descends(q, cur) => q \in {HalfA(cur), HalfB(cur)}
  BY TypeFacts DEF SpoolInv, DiskInv, QueueOnDisk, DirectHalves
<1>2. ~Descends(q, h)
  <2>1. SUFFICES ASSUME Descends(q, h) PROVE FALSE
    OBVIOUS
  <2>2. q \in {HalfA(cur), HalfB(cur)}
    BY <1>1, <2>1, Ancestry
  <2>3. Len(q.path) = Len(cur.path) + 1 /\ Len(h.path) = Len(cur.path) + 1
    BY <1>1, <2>2, HalfDescends
  <2> QED BY <1>1, <2>1, <2>3, PartFacts DEF Descends
<1>3. Descends(h, q) => q = cur
  BY <1>1, Ancestry DEF SpoolInv, DiskInv, NamesUnique
<1> QED BY <1>2, <1>3

(* Which files go: the head, the part Drain holds, its halves, or, when    *)
(* the process starts, halves that lie beside their parent.                *)
LEMMA FilesGo ==
  ASSUME SpoolInv, [Next]_vars
  PROVE  \/ files \subseteq files'
         \/ /\ parts # <<>> /\ (Expire \/ Evict) /\ files' = files \ {Head(parts)}
            /\ cur' = cur /\ step' = step
         \/ (OnDelivered \/ Discard) /\ files' = files \ {cur} /\ cur' = NoPart
         \/ RemoveParent /\ files' = files \ {cur} /\ cur' = NoPart
         \/ /\ Cleanup /\ cur' = NoPart /\ files' \subseteq files
            /\ files \ Leftovers \subseteq files'
            /\ files' = files \ Leftovers \/ "remove" \in FaultKinds
         \/ Open /\ files' = files \ Orphans /\ cur' = cur
         \/ /\ OpenFails /\ files' \subseteq files /\ files \ Orphans \subseteq files'
            /\ cur' = cur
<1> USE DEF drainer, DrainIdle, Fault
<1>1. CASE Expire \/ Evict
  <2>1. parts # <<>> /\ UNCHANGED <<cur, step>>
    BY <1>1 DEF Expire, Evict, HeadExpired, OverBudget
  <2>2. files' = files \/ files' = files \ {Head(parts)}
    BY <1>1 DEF Expire, Evict, DropHead
  <2> QED BY <1>1, <2>1, <2>2
<1>2. CASE OnDelivered \/ Discard
  BY <1>2 DEF OnDelivered, Discard, TakeOut
<1>3. CASE RemoveParent
  BY <1>3 DEF RemoveParent
<1>4. CASE Cleanup
  BY <1>4 DEF Cleanup, Leftovers
<1>5. CASE Open \/ OpenFails
  BY <1>5 DEF Open, OpenFails, Orphans
<1>6. ASSUME \/ \E shape \in Shapes : EnqueueCall(shape)
             \/ Enqueuing
      PROVE  files \subseteq files'
  BY <1>6 DEF EnqueueCall, Enqueuing, EnqueueLock, EnqueueRefuse, StartEvict, StartWrite,
     WritePart, WritePartFails, EnqueueDone
<1>7. ASSUME \/ DrainNext \/ PeekLock \/ PeekEmpty \/ PeekHead \/ PeekFails \/ Send
             \/ SendFails \/ ReplyLost \/ AllowSplit \/ ReplaceLock \/ WriteHalfA
             \/ WriteHalfB \/ Quarantine
      PROVE  files \subseteq files'
  BY <1>7 DEF DrainNext, PeekLock, PeekEmpty, PeekHead, PeekFails, Send, SendFails,
     ReplyLost, AllowSplit, ReplaceLock, WriteHalfA, WriteHalfB, WriteHalf, Quarantine
<1>8. ASSUME Scan \/ ScanDone \/ OpenDone \/ Environment \/ UNCHANGED vars
      PROVE  files \subseteq files'
  BY <1>8 DEF Scan, ScanDone, OpenDone, Environment, Tick, Crash, LateArrival, Heal, vars
<1> QED BY <1>1, <1>2, <1>3, <1>4, <1>5, <1>6, <1>7, <1>8 DEF Next, Draining, Opening

(* No file is two levels below another. *)
LEMMA OneLevel ==
  ASSUME SpoolInv, NEW p \in files, NEW q \in files, NEW r \in files, Descends(p, q)
  PROVE  ~Descends(q, r)
<1>1. SUFFICES ASSUME Descends(q, r) PROVE FALSE
  OBVIOUS
<1>2. /\ p \in {HalfA(q), HalfB(q)} /\ q \in {HalfA(r), HalfB(r)}
      /\ p \in Part /\ q \in Part /\ r \in Part
  BY <1>1, TypeFacts DEF SpoolInv, DiskInv, DirectHalves
<1>3. Descends(p, r)
  BY <1>1, <1>2, Ancestry
<1>4. p \in {HalfA(r), HalfB(r)}
  BY <1>3 DEF SpoolInv, DiskInv, DirectHalves
<1>5. Len(p.path) = Len(q.path) + 1 /\ Len(p.path) = Len(r.path) + 1
      /\ Len(q.path) = Len(r.path) + 1
  BY <1>2, <1>4, HalfDescends
<1> QED BY <1>2, <1>5, PartFacts

(* A part is new among those that lie beside no parent when Enqueue writes *)
(* it, or when the parent it was left beside goes.                         *)
LEMMA TopsChange ==
  ASSUME SpoolInv, [Next]_vars, NEW p \in Tops'
  PROVE  \/ p \in Tops
         \/ (WritePart \/ WritePartFails) /\ p = NextPart
         \/ \E r \in files :
              /\ r \notin files' /\ p \in files /\ Descends(p, r)
              /\ p \in {HalfA(r), HalfB(r)}
              /\ \/ /\ (Expire \/ Evict) /\ parts # <<>> /\ r = Head(parts)
                    /\ cur' = cur /\ step' = step
                 \/ (OnDelivered \/ Discard \/ RemoveParent) /\ r = cur /\ cur' = NoPart
<1>1. p \in files' /\ \A q \in files' : ~Descends(p, q)
  BY DEF Tops
<1>2. CASE p \notin files
  <2>1. CASE (WritePart \/ WritePartFails) /\ files' = files \cup {NextPart}
    BY <1>1, <1>2, <2>1
  <2>2. ASSUME cur \in Elems(parts), NEW h \in {HalfA(cur), HalfB(cur)},
               files' = files \cup {h}, p = h
        PROVE  FALSE
    <3>1. cur \in files /\ cur \in Part
      BY <2>2, TypeFacts DEF SpoolInv, DiskInv, QueueOnDisk
    <3> QED BY <1>1, <2>2, <3>1, HalfDescends
  <2> QED BY <1>1, <1>2, <2>1, <2>2, FilesChange
<1>3. CASE p \in files /\ p \notin Tops
  <2>1. PICK r \in files : Descends(p, r)
    BY <1>3 DEF Tops
  <2>2. r \notin files' /\ p \in {HalfA(r), HalfB(r)}
    BY <1>1, <1>3, <2>1 DEF SpoolInv, DiskInv, DirectHalves
  <2>3. r \notin Orphans
    BY <1>3, <2>1, OneLevel DEF Orphans
  <2>4. CASE Cleanup /\ r \in Leftovers
    <3>1. cur \in Elems(parts)
      BY <2>4 DEF Cleanup, SpoolInv, ControlInv, LockInv, Replacing
    <3> QED BY <1>3, <2>1, <2>4, <3>1, HalfAlone DEF Leftovers
  <2>5. CASE (Expire \/ Evict) /\ parts # <<>> /\ r = Head(parts) /\ cur' = cur /\ step' = step
    BY <1>3, <2>1, <2>2, <2>5
  <2>6. CASE (OnDelivered \/ Discard \/ RemoveParent) /\ r = cur /\ cur' = NoPart
    BY <1>3, <2>1, <2>2, <2>6
  <2> QED BY <2>1, <2>2, <2>3, <2>4, <2>5, <2>6, FilesGo
<1> QED BY <1>2, <1>3

(* A part whose halves are left beside it when it goes is hopeless, or was *)
(* refused and is split now.                                               *)
LEMMA ParentHopeless ==
  ASSUME SpoolInv, HalvesHopeless, NEW r \in files, NEW p \in files, Descends(p, r),
         \/ (Expire \/ Evict) /\ parts # <<>>
         \/ (OnDelivered \/ Discard \/ RemoveParent) /\ r = cur
  PROVE  Hopeless(r) \/ (CanHeal /\ RemoveParent /\ r = cur)
<1> USE DEF SpoolInv, ControlInv, LockInv
<1>1. CASE Expire \/ Evict
  <2>1. step \in {"expire", "evict"} /\ parts # <<>>
    BY <1>1 DEF Expire, Evict, HeadExpired, OverBudget
  <2>2. ~Replacing /\ epc # "down"
    BY <2>1 DEF Replacing
  <2> QED BY <2>2 DEF HalvesHopeless
<1>2. CASE OnDelivered \/ Discard
  <2>1. step = "none" /\ dpc # "idle"
    BY <1>2 DEF OnDelivered, Discard
  <2>2. ~Replacing /\ epc # "down"
    BY <2>1 DEF Replacing
  <2> QED BY <2>2 DEF HalvesHopeless
<1>3. CASE RemoveParent /\ r = cur
  BY <1>3 DEF HalvesHopeless, Hopeless
<1> QED BY <1>1, <1>2, <1>3

(* What may be sent from now on is compatible with what was sent before. *)
LEMMA TopsCompatible ==
  ASSUME SpoolInv, OrderInv, RefusalFounded, SentOnce, HalvesHopeless, [Next]_vars,
         NEW p \in Tops'
  PROVE  /\ \A q \in Sent : Compatible(p, q)
         /\ Compatible(p, cur) \/ cur' = NoPart
<1> USE DEF SpoolInv
<1>1. /\ \A q \in Bodies : q.first \in Int /\ q.last \in Int
      /\ cur \in Bodies /\ files \subseteq Bodies /\ Sent \subseteq Bodies
      /\ files \subseteq Part
  BY BodyTypes, TypeFacts DEF Bodies
<1>2. CASE p \in Tops
  BY <1>2 DEF SentOnce
<1>3. CASE (WritePart \/ WritePartFails) /\ p = NextPart
  <2>1. todo # <<>>
    BY <1>3 DEF WritePart, WritePartFails
  <2>2. \A q \in Bodies : Before(q, p)
    BY <1>3, <2>1, NextBody DEF OrderInv
  <2> QED BY <1>1, <2>2 DEF Compatible, Apart
<1>4. ASSUME NEW r \in files, p \in files, Descends(p, r), p \in {HalfA(r), HalfB(r)},
             \/ (Expire \/ Evict) /\ parts # <<>> /\ r = Head(parts)
                  /\ cur' = cur /\ step' = step
             \/ (OnDelivered \/ Discard \/ RemoveParent) /\ r = cur /\ cur' = NoPart
      PROVE  /\ \A q \in Sent : Compatible(p, q)
             /\ Compatible(p, cur) \/ cur' = NoPart
  <2>1. Hopeless(r) \/ (CanHeal /\ RemoveParent /\ r = cur)
    BY <1>4, ParentHopeless
  <2>2. r \in Tops \cup {cur} /\ r \in Part /\ Filled(r)
    <3>1. parts # <<>> => Head(parts) \in Tops
      BY QueuedTops, ElemsTail, TypeFacts
    <3> QED BY <1>1, <1>4, <3>1 DEF OrderInv, PartsFilled
  <2>3. ASSUME NEW q \in Sent
        PROVE  Compatible(p, q)
    <3>1. Compatible(r, q)
      BY <2>2 DEF SentOnce
    <3>2. q.first \in Int /\ q.last \in Int
      BY <1>1
    <3>3. CASE Hopeless(r)
      BY <1>4, <2>2, <3>1, <3>2, <3>3, HalfCompatible
    <3>4. CASE CanHeal /\ RemoveParent /\ r = cur
      <4>1. Refused
        BY <3>4 DEF RemoveParent, ControlInv, LockInv, Replacing, Refused
      <4>2. Apart(r, q)
        BY <3>4, <4>1 DEF SentOnce
      <4> QED BY <1>4, <2>2, <3>2, <4>2, HalfCompatible
    <3> QED BY <2>1, <3>3, <3>4
  <2>4. ASSUME cur' = cur, r = Head(parts), Expire \/ Evict, parts # <<>>
        PROVE  Compatible(p, cur)
    <3>1. Hopeless(r)
      <4>1. step \in {"expire", "evict"}
        BY <2>4 DEF Expire, Evict
      <4>2. ~RemoveParent
        BY <4>1 DEF RemoveParent
      <4> QED BY <2>1, <4>2
    <3>2. r \in Tops
      BY <2>4, QueuedTops, ElemsTail, TypeFacts
    <3>3. Compatible(r, cur)
      BY <3>2 DEF SentOnce
    <3>4. cur.first \in Int /\ cur.last \in Int
      BY <1>1
    <3> QED BY <1>4, <2>2, <3>1, <3>3, <3>4, HalfCompatible
  <2> QED BY <1>4, <2>3, <2>4
<1> QED BY <1>2, <1>3, <1>4, TopsChange

(* What is sent anew has the body of what Drain holds, or of a request     *)
(* that was underway.                                                      *)
LEMMA SentChange ==
  ASSUME SpoolInv, [Next]_vars, NEW q \in Sent'
  PROVE  \/ q \in Sent
         \/ (Send \/ SendFails) /\ dpc = "send" /\ SameBody(q, cur)
         \/ LateArrival /\ \E p \in late : SameBody(q, p)
<1>1. ASSUME NEW p \in late \cup {cur}, Ingest(p), q \in Elems(stored'), q \notin Sent
      PROVE  SameBody(q, p)
  BY <1>1, IngestAppends, TypeFacts DEF Sent, SpoolInv, SameBody
<1>2. CASE UNCHANGED <<stored, late>>
  BY <1>2 DEF Sent
<1>3. CASE Send /\ Ingest(cur) /\ late' = late /\ dpc = "send"
  BY <1>1, <1>3 DEF Sent
<1>4. CASE SendFails /\ late' = late \cup {cur} /\ stored' = stored /\ dpc = "send"
  BY <1>4 DEF Sent, SameBody
<1>5. ASSUME NEW p \in late, Ingest(p), late' = late \ {p}, LateArrival
      PROVE  q \in Sent \/ SameBody(q, p)
  BY <1>1, <1>5 DEF Sent
<1> QED BY <1>2, <1>3, <1>4, <1>5, StoredChange

(* What is sent and what can be sent are numbered by integers after a step. *)
LEMMA NextBodyTypes ==
  ASSUME SpoolInv, [Next]_vars
  PROVE  \A p \in files' \cup Sent' \cup {cur'} : p.first \in Int /\ p.last \in Int
<1>1. /\ files' \subseteq Part /\ late' \subseteq Part /\ stored' \in Seq(Batch)
      /\ cur' \in Part
  BY StepTypeOK DEF SpoolInv, TypeOK, SpoolTypes, WorldTypes, CallTypes
<1>2. \A p \in files' \cup late' \cup {cur'} : p.first \in Int /\ p.last \in Int
  BY <1>1, PartFacts
<1>3. \A p \in Elems(stored') : p.first \in Int /\ p.last \in Int
  <2>1. Elems(stored') \subseteq Batch
    BY <1>1 DEF Elems
  <2> QED BY <2>1 DEF Batch
<1> QED BY <1>2, <1>3 DEF Sent, Elems

(* Nothing is compatible with everything. *)
LEMMA NothingCompatible ==
  ASSUME NEW q, Filled(q), q.first \in Int, q.last \in Int
  PROVE  Compatible(NoPart, q) /\ Compatible(q, NoPart) /\ Apart(NoPart, q)
<1>1. NoPart.last = 0
  BY DEF NoPart
<1>2. Before(NoPart, q)
  BY <1>1 DEF Before, Filled
<1> QED BY <1>2 DEF Compatible, Apart

(* A body Drain can send again while its key is remembered. *)
LEMMA KeyRemembered ==
  ASSUME TypeOK, KeysRemembered, NEW p \in files \cup late \cup {cur}, Filled(p), p \in Part,
         now < p.created + KeyLife, NEW q \in Elems(stored), SameBody(p, q)
  PROVE  Remembered(p)
<1>1. PICK i \in DOMAIN stored : q = stored[i]
  BY DEF Elems
<1>2. p.created \in Nat /\ p.first \in Int /\ p.last \in Int /\ now \in Nat /\ KeyLife \in Nat
  BY PartFacts, TypeFacts, KeyLifeAssumption
<1>3. q.at \in Nat
  <2>1. stored \in Seq(Batch)
    BY TypeFacts
  <2>2. stored[i] \in Batch
    BY <2>1
  <2> QED BY <1>1, <2>2 DEF Batch
<1>4. ~Apart(p, q)
  BY <1>2 DEF Apart, Before, SameBody, Filled
<1>5. p.created <= q.at
  BY <1>4 DEF KeysRemembered
<1>6. now - q.at < KeyLife
  BY <1>2, <1>3, <1>5
<1> QED BY <1>1, <1>6 DEF Remembered, SameBody

(* Drain's part can only be sent while its key is remembered. *)
LEMMA SendInTime ==
  ASSUME SpoolInv, PartsFilled, KeysRemembered, Send, NEW q \in Elems(stored), SameBody(cur, q)
  PROVE  Remembered(cur)
<1>1. cur \in Part /\ cur.created \in Nat /\ now \in Nat
  BY TypeFacts, PartFacts DEF SpoolInv
<1>2. Filled(cur) /\ now < cur.created + MaxAge
  BY DEF Send, PartsFilled, InTime
<1>3. now < cur.created + KeyLife
  BY <1>1, <1>2, KeyLifeAssumption
<1> QED BY <1>1, <1>2, <1>3, KeyRemembered DEF SpoolInv

(* What Pulse stores it does not refuse, and had not stored. *)
LEMMA StoresNew ==
  ASSUME SpoolInv, OrderInv, RefusalFounded, SentOnce, KeysRemembered, [Next]_vars,
         NEW b \in Elems(stored'), b \notin Elems(stored)
  PROVE  /\ ~Hopeless(b) /\ stored' = Append(stored, b) /\ b.at = now
         /\ \A q \in Elems(stored) : Apart(b, q)
         /\ \E p \in late \cup {cur} : SameBody(b, p)
<1> USE DEF SpoolInv
<1>1. PICK p \in late \cup {cur} : /\ Ingest(p) /\ p \in Part /\ Filled(p)
                                   /\ now < p.created + KeyLife
                                   /\ \A q \in Elems(stored) : Compatible(p, q) \/ Hopeless(p)
  <2>1. CASE Send /\ Ingest(cur) /\ late' = late /\ dpc = "send"
    <3>1. cur \in Part /\ cur.created \in Nat /\ now \in Nat
      BY TypeFacts, PartFacts
    <3>2. now < cur.created + KeyLife
      BY <2>1, <3>1, KeyLifeAssumption DEF Send, InTime
    <3>3. Filled(cur)
      BY <2>1 DEF OrderInv, PartsFilled
    <3> QED BY <2>1, <3>1, <3>2, <3>3 DEF SentOnce, Sent
  <2>2. ASSUME NEW p \in late, Ingest(p), now < p.created + KeyLife
        PROVE  /\ p \in Part /\ Filled(p)
               /\ \A q \in Elems(stored) : Compatible(p, q) \/ Hopeless(p)
    BY TypeFacts DEF OrderInv, PartsFilled, SentOnce, Sent
  <2>3. CASE stored' = stored
    BY <2>3
  <2> QED BY <2>1, <2>2, <2>3, StoredChange
<1>2. /\ b = [first |-> p.first, last |-> p.last, at |-> now]
      /\ ~Remembered(p) /\ Items(p) \cap bad = {} /\ stored' = Append(stored, b)
  BY <1>1, IngestAppends
<1>3. SameBody(b, p) /\ b.at = now
  BY <1>2 DEF SameBody
<1>4. ~Hopeless(p) /\ ~Hopeless(b)
  BY <1>2, <1>3, CompatibleBodies DEF Hopeless, RefusalFounded
<1>5. ASSUME NEW q \in Elems(stored)
      PROVE  Apart(b, q)
  <2>1. Compatible(p, q) /\ ~Hopeless(q)
    BY <1>1, <1>4 DEF SentOnce
  <2>2. ~SameBody(p, q)
    BY <1>1, <1>2, KeyRemembered
  <2> QED BY <1>3, <2>1, <2>2, CompatibleBodies DEF Compatible
<1> QED BY <1>1, <1>2, <1>3, <1>4, <1>5

(* Each body that may be sent is apart from what was sent, or the same, or *)
(* cut from what Pulse will never store.                                   *)
LEMMA StepSentOnce ==
  ASSUME SpoolInv, OrderInv, OnceInv, SplitsDecided, [Next]_vars
  PROVE  SentOnce'
<1> USE DEF SpoolInv, OnceInv
<1>1. PartsFilled'
  BY StepPartsFilled DEF OrderInv
<1>2. /\ \A p \in Tops' : /\ \A q \in Sent : Compatible(p, q)
                          /\ Compatible(p, cur) \/ cur' = NoPart
  BY TopsCompatible
<1>3. ASSUME NEW p \in Tops'
      PROVE  Compatible(p, cur')
  <2>1. CASE cur' = NoPart
    BY <1>1, <2>1, NothingCompatible, NextBodyTypes DEF PartsFilled, Tops
  <2>2. CASE parts # <<>> /\ cur' = Head(parts) /\ PeekHead
    <3>1. Tops' = Tops /\ Head(parts) \in Tops
      BY <2>2, QueuedTops, ElemsTail, TypeFacts DEF PeekHead, Tops
    <3> QED BY <2>2, <3>1, QueuedTops DEF Compatible, SameBody
  <2> QED BY <1>2, <2>1, <2>2, CurChange
<1>4. ASSUME NEW q \in Sent'
      PROVE  \E x \in Sent \cup {cur} :
               /\ SameBody(q, x)
               /\ x \in Sent \/ ((Send \/ SendFails) /\ Tops' = Tops)
  <2>1. q \in Sent => SameBody(q, q)
    BY DEF SameBody
  <2>2. late \subseteq Sent
    BY DEF Sent
  <2>3. Send \/ SendFails => Tops' = Tops
    BY DEF Send, SendFails, Tops
  <2> QED BY <2>1, <2>2, <2>3, SentChange
<1>5. ASSUME NEW p \in Tops', NEW q \in Sent'
      PROVE  Compatible(p, q)
  <2>1. PICK x \in Sent \cup {cur} : SameBody(q, x) /\ (x \in Sent \/ Tops' = Tops)
    BY <1>4
  <2>2. Compatible(p, x)
    BY <1>2, <2>1 DEF SentOnce
  <2> QED BY <2>1, <2>2, CompatibleBodies
<1>6. ASSUME NEW q \in Sent'
      PROVE  Compatible(cur', q)
  <2>1. PICK x \in Sent \cup {cur} : SameBody(q, x) /\ (x \in Sent \/ Send \/ SendFails)
    BY <1>4
  <2>2. CASE cur' = NoPart
    BY <1>1, <2>2, NothingCompatible, NextBodyTypes DEF PartsFilled
  <2>3. CASE parts # <<>> /\ cur' = Head(parts) /\ PeekHead
    <3>1. Head(parts) \in Tops /\ Sent' = Sent
      BY <2>3, QueuedTops, ElemsTail, TypeFacts DEF PeekHead, pulse, Sent
    <3> QED BY <2>3, <3>1 DEF SentOnce
  <2>4. CASE cur' = cur
    <3>1. Compatible(cur, x)
      BY <2>1 DEF SentOnce, Compatible, SameBody
    <3> QED BY <2>1, <2>4, <3>1, CompatibleBodies
  <2> QED BY <2>2, <2>3, <2>4, CurChange
<1>7. ASSUME NEW p \in Sent', NEW q \in Sent'
      PROVE  Compatible(p, q) \/ Hopeless(p)
  <2>1. PICK x \in Sent \cup {cur} : SameBody(p, x)
    BY <1>4
  <2>2. PICK y \in Sent \cup {cur} : SameBody(q, y)
    BY <1>4
  <2>3. Compatible(x, y) \/ Hopeless(x)
    BY DEF SentOnce, Compatible, Apart, SameBody
  <2> QED BY <2>1, <2>2, <2>3, CompatibleBodies
<1>8. ASSUME NEW q \in Elems(stored')
      PROVE  ~Hopeless(q)
  BY StoresNew DEF SentOnce
<1>9. ASSUME CanHeal
      PROVE  late' = {}
  <2>1. "send" \notin FaultKinds
    BY <1>9 DEF SplitsDecided
  <2>2. ~(SendFails /\ late' # late)
    BY <2>1 DEF SendFails, Fault
  <2> QED BY <1>9, <2>2, StoredChange DEF SentOnce
<1>10. ASSUME CanHeal, Refused', NEW q \in Sent'
       PROVE  Apart(cur', q)
  <2>1. late = {} /\ late' = {}
    BY <1>9, <1>10 DEF SentOnce
  <2>2. CASE Refused /\ cur' = cur
    <3>1. dpc # "send"
      BY <2>2 DEF Refused
    <3>2. q \in Sent
      BY <2>1, <3>1, SentChange
    <3> QED BY <1>10, <2>2, <3>2 DEF SentOnce
  <2>3. CASE Send /\ cur' = cur /\ Verdict(cur) = "rejected"
    <3>1. stored' = stored /\ ~Remembered(cur)
      BY <2>3 DEF Send, Ingest, Verdict
    <3>2. q \in Elems(stored) /\ q \in Sent
      BY <2>1, <3>1 DEF Sent
    <3>3. Compatible(cur, q) /\ ~Hopeless(q)
      BY <1>10, <3>2 DEF SentOnce, Hopeless
    <3>4. ~SameBody(cur, q)
      BY <2>3, <3>1, <3>2, SendInTime DEF OrderInv
    <3> QED BY <2>3, <3>3, <3>4 DEF Compatible
  <2> QED BY <1>10, <2>2, <2>3, RefusedChange
<1> QED BY <1>3, <1>5, <1>6, <1>7, <1>8, <1>9, <1>10 DEF SentOnce

(* A split runs on until the parent is removed, it is cleaned up, or the   *)
(* process ends; a process that is down stays so until Open.               *)
LEMMA SplitRuns ==
  ASSUME SpoolInv, [Next]_vars
  PROVE  /\ Replacing => \/ Replacing' /\ cur' = cur
                         \/ RemoveParent /\ files' = files \ {cur}
                         \/ Cleanup
                         \/ epc' = "down"
         /\ epc = "down" => epc' = "down" \/ Open
<1> USE DEF SpoolInv, ControlInv, LockInv, Replacing, drainer, enqueuer, Acquire
<1>1. CASE \/ \E shape \in Shapes : EnqueueCall(shape)
           \/ Enqueuing \/ Expire \/ Evict
  BY <1>1 DEF EnqueueCall, Enqueuing, EnqueueLock, EnqueueRefuse, StartEvict, StartWrite,
     WritePart, WritePartFails, EnqueueDone, Expire, Evict
<1>2. CASE \/ DrainNext \/ PeekLock \/ PeekEmpty \/ PeekHead \/ PeekFails \/ Send
           \/ SendFails \/ ReplyLost \/ OnDelivered \/ AllowSplit
  BY <1>2 DEF DrainNext, PeekLock, PeekEmpty, PeekHead, PeekFails, Send, SendFails,
     ReplyLost, OnDelivered, AllowSplit
<1>3. CASE \/ ReplaceLock \/ WriteHalfA \/ WriteHalfB \/ RemoveParent \/ Cleanup
           \/ Quarantine \/ Discard
  BY <1>3 DEF ReplaceLock, WriteHalfA, WriteHalfB, WriteHalf, RemoveParent, Cleanup,
     Quarantine, Discard
<1>4. CASE Opening \/ Environment \/ UNCHANGED vars
  BY <1>4 DEF Opening, Open, OpenFails, Scan, ScanDone, OpenDone, Environment, Tick,
     Crash, LateArrival, Heal, vars
<1> QED BY <1>1, <1>2, <1>3, <1>4 DEF Next, Draining

(* Halves lie beside their parent only if it is hopeless, or while it is   *)
(* split, or until Open.                                                   *)
LEMMA StepHalvesHopeless ==
  ASSUME SpoolInv, OnceInv, SplitsDecided, [Next]_vars
  PROVE  HalvesHopeless'
<1> USE DEF SpoolInv, OnceInv
<1> SUFFICES ASSUME NEW p \in files', NEW q \in files', Descends(p, q)
             PROVE  \/ Hopeless(q)
                    \/ CanHeal /\ ((Replacing' /\ q = cur') \/ epc' = "down")
  BY DEF HalvesHopeless, Hopeless
<1>1. CASE p \in files /\ q \in files
  <2>1. Hopeless(q) \/ (CanHeal /\ ((Replacing /\ q = cur) \/ epc = "down"))
    BY <1>1 DEF HalvesHopeless
  <2>2. ASSUME CanHeal, Cleanup, q = cur
        PROVE  FALSE
    <3>1. "remove" \notin FaultKinds
      BY <2>2 DEF SplitsDecided
    <3>2. files' = files \ Leftovers
      BY <2>2, <3>1 DEF Cleanup, Fault
    <3>3. p \in Leftovers
      BY <1>1, <2>2 DEF DiskInv, DirectHalves, Leftovers
    <3> QED BY <3>2, <3>3
  <2>3. Open => FALSE
    BY <1>1 DEF Open, Orphans
  <2> QED BY <2>1, <2>2, <2>3, SplitRuns
<1>2. CASE (WritePart \/ WritePartFails) /\ files' = files \cup {NextPart}
  <2>1. /\ NextPart \in Part /\ NextPart.path = <<>> /\ NextPart.seq = seq + 1
        /\ epc # "down" /\ step # "scan" /\ seq \in Nat
    <3>1. todo # <<>>
      BY <1>2 DEF WritePart, WritePartFails
    <3>2. NextPart \in Part
      BY <3>1, NextPartType DEF TypeOK
    <3> QED BY <1>2, <3>2, TypeFacts DEF NextPart, WritePart, WritePartFails, ControlInv, LockInv
  <2>2. \A r \in files \cup {NextPart} : Len(r.path) \in Nat
    BY <2>1, PartFacts, TypeFacts
  <2>3. p # NextPart
    <3>1. Len(NextPart.path) = 0
      BY <2>1
    <3> QED BY <1>2, <2>2, <3>1 DEF Descends
  <2>4. p \in files /\ p.seq \in Nat /\ p.seq <= seq
    BY <1>2, <2>1, <2>3, TypeFacts, PartFacts DEF DiskInv, SeqAhead
  <2>5. q # NextPart
    BY <2>1, <2>4 DEF Descends, SamePart
  <2> QED BY <1>1, <1>2, <2>4, <2>5
<1>3. ASSUME Replacing, cur \in Elems(parts), NEW h \in {HalfA(cur), HalfB(cur)},
             files' = files \cup {h}, WriteHalfA \/ WriteHalfB
      PROVE  Hopeless(q) \/ (CanHeal /\ Replacing' /\ q = cur')
  <2>1. h \in Part /\ Len(h.path) \in Nat
    BY TypeFacts, PartFacts
  <2>2. CASE p = h /\ q \in files
    <3>1. q = cur
      BY <1>3, <2>2, HalfAlone
    <3>2. cur' = cur /\ Replacing'
      BY <1>3 DEF WriteHalfA, WriteHalfB, WriteHalf, Replacing, drainer
    <3>3. Items(cur) \cap Bad # {}
      BY <1>3 DEF RefusalFounded, Refused, ControlInv, LockInv
    <3>4. CanHeal \in BOOLEAN
      BY EnvironmentAssumption
    <3> QED BY <3>1, <3>2, <3>3, <3>4 DEF Hopeless
  <2>3. CASE p = h /\ q = h
    BY <2>1, <2>3 DEF Descends
  <2>4. CASE p \in files /\ q = h
    BY <1>3, <2>4, HalfAlone
  <2>5. CASE p \in files /\ q \in files
    <3>1. Hopeless(q) \/ (CanHeal /\ ((Replacing /\ q = cur) \/ epc = "down"))
      BY <2>5 DEF HalvesHopeless
    <3>2. cur' = cur /\ Replacing' /\ epc # "down"
      BY <1>3 DEF WriteHalfA, WriteHalfB, WriteHalf, Replacing, drainer, ControlInv, LockInv
    <3> QED BY <3>1, <3>2
  <2> QED BY <1>3, <2>2, <2>3, <2>4, <2>5
<1> QED BY <1>1, <1>2, <1>3, FilesChange

(* A part that can be sent is one that could, the next of Enqueue, a half  *)
(* of the one that is split, or none at all.                               *)
LEMMA SendableChange ==
  ASSUME SpoolInv, [Next]_vars, NEW p \in files' \cup late' \cup {cur'}
  PROVE  \/ p \in files \cup late \cup {cur}
         \/ p = NoPart
         \/ (WritePart \/ WritePartFails) /\ p = NextPart
         \/ Replacing /\ cur \in Elems(parts) /\ p \in {HalfA(cur), HalfB(cur)}
<1>1. CASE p \in files'
  BY <1>1, FilesChange
<1>2. CASE p \in late'
  BY <1>2, StoredChange
<1>3. CASE p = cur'
  <2>1. parts # <<>> => Head(parts) \in files
    BY ElemsTail, TypeFacts DEF SpoolInv, DiskInv, QueueOnDisk
  <2> QED BY <1>3, <2>1, CurChange
<1> QED BY <1>1, <1>2, <1>3

(* A key is remembered for as long as its part can be sent. *)
LEMMA StepKeysRemembered ==
  ASSUME SpoolInv, OrderInv, OnceInv, [Next]_vars
  PROVE  KeysRemembered'
<1> USE DEF SpoolInv, OnceInv
<1>1. /\ now \in Nat /\ now' \in Nat /\ now <= now' /\ stamp <= now
      /\ \A q \in Bodies : q.first \in Int /\ q.last \in Int
      /\ \A q \in Elems(stored) : Filled(q) /\ q \in Bodies
      /\ cur \in Part
  BY StepTypeOK, TypeFacts, BodyTypes, StepEnqueueControl
     DEF TypeOK, WorldTypes, OrderInv, NamesGrow, PartsFilled, Sent, Bodies
<1>2. /\ Replacing => Filled(cur)
      /\ \A h \in {HalfA(cur), HalfB(cur)} : h.created = cur.created
  BY <1>1, HalfDescends DEF OrderInv, PartsFilled, ControlInv, LockInv
<1>3. (WritePart \/ WritePartFails) =>
        NextPart.created = stamp /\ \A q \in Elems(stored) : Before(q, NextPart)
  <2>1. WritePart \/ WritePartFails => todo # <<>>
    BY DEF WritePart, WritePartFails
  <2> QED BY <1>1, <2>1, NextBody DEF NextPart, OrderInv
<1>4. ASSUME NEW p \in files' \cup late' \cup {cur'}
      PROVE  p.created <= now
  <2>1. NoPart.created <= now
    BY <1>1 DEF NoPart
  <2> QED BY <1>1, <1>2, <1>3, <2>1, SendableChange DEF KeysRemembered
<1>5. ASSUME NEW q \in Elems(stored')
      PROVE  q \in Elems(stored) \/ q.at = now
  BY OnceInv, StoresNew
<1>6. ASSUME NEW p \in files' \cup late' \cup {cur'}, NEW q \in Elems(stored)
      PROVE  Apart(p, q) \/ p.created <= q.at
  <2>1. Apart(NoPart, q)
    BY <1>1, NothingCompatible
  <2>2. (WritePart \/ WritePartFails) => Apart(NextPart, q)
    BY <1>3 DEF Apart
  <2>3. ASSUME Replacing, NEW h \in {HalfA(cur), HalfB(cur)}
        PROVE  Apart(h, q) \/ h.created <= q.at
    <3>1. CASE Apart(cur, q)
      <4>1. /\ cur.first <= h.first /\ h.last <= cur.last
            /\ cur.first \in Int /\ cur.last \in Int /\ h.first \in Int /\ h.last \in Int
        BY <1>1, <1>2, <2>3, HalfLiesWithin
      <4> QED BY <1>1, <3>1, <4>1 DEF Apart, Before
    <3>2. CASE cur.created <= q.at
      BY <1>2, <3>2
    <3> QED BY <3>1, <3>2 DEF KeysRemembered
  <2> QED BY <2>1, <2>2, <2>3, SendableChange DEF KeysRemembered
<1>7. \A p \in files' \cup late' \cup {cur'} : p.created <= now'
  <2>1. \A p \in files' \cup late' \cup {cur'} : p.created \in Nat
    BY StepTypeOK, PartFacts DEF TypeOK, SpoolTypes, CallTypes, WorldTypes
  <2> QED BY <1>1, <1>4, <2>1
<1>8. ASSUME NEW q \in Elems(stored')
      PROVE  q.at <= now'
  <2>1. q.at \in Nat
    <3>1. stored' \in Seq(Batch)
      BY StepTypeOK DEF TypeOK, WorldTypes
    <3>2. q \in Batch
      BY <3>1 DEF Elems
    <3> QED BY <3>2 DEF Batch
  <2> QED BY <1>1, <1>5, <2>1 DEF KeysRemembered
<1> QED BY <1>4, <1>5, <1>6, <1>7, <1>8 DEF KeysRemembered

(* Parts that are apart have no item in common. *)
LEMMA ApartDisjoint ==
  ASSUME NEW p, NEW q, Apart(p, q), p.first \in Int, p.last \in Int,
         q.first \in Int, q.last \in Int
  PROVE  Items(p) \cap Items(q) = {}
  BY DEF Apart, Before, Items

(* Pulse stores no item twice. *)
LEMMA StepStoredOnce ==
  ASSUME SpoolInv, OrderInv, OnceInv, [Next]_vars
  PROVE  StoredOnce'
<1> USE DEF SpoolInv, OnceInv
<1>1. /\ stored \in Seq(Batch) /\ stored' \in Seq(Batch)
      /\ \A q \in Elems(stored') : q.first \in Int /\ q.last \in Int
  BY StepTypeOK, TypeFacts, NextBodyTypes DEF TypeOK, WorldTypes, Sent
<1>2. CASE stored' = stored
  BY <1>2 DEF StoredOnce, Items
<1>3. CASE stored' # stored
  <2>1. PICK p \in late \cup {cur} : Ingest(p)
    BY <1>3, StoredChange
  <2>2. PICK b : /\ b = [first |-> p.first, last |-> p.last, at |-> now]
                 /\ stored' = Append(stored, b) /\ ~Remembered(p)
    BY <1>3, <2>1 DEF Ingest
  <2>3. /\ Len(stored') = Len(stored) + 1 /\ stored'[Len(stored) + 1] = b
        /\ \A i \in 1 .. Len(stored) : stored'[i] = stored[i]
        /\ Len(stored) \in Nat
        /\ DOMAIN stored' = 1 .. Len(stored) + 1 /\ DOMAIN stored = 1 .. Len(stored)
    BY <1>1, <2>2
  <2>4. b \in Elems(stored')
    BY <2>3 DEF Elems
  <2>5. ASSUME NEW i \in DOMAIN stored
        PROVE  Items(b) \cap Items(stored[i]) = {}
    <3>1. stored[i] \in Elems(stored')
      BY <2>3 DEF Elems
    <3>2. b \notin Elems(stored)
      <4>1. ASSUME NEW j \in DOMAIN stored, stored[j] = b
            PROVE  Remembered(p)
        <5>1. now - b.at < KeyLife
          BY <2>2, TypeFacts, KeyLifeAssumption
        <5> QED BY <2>2, <4>1, <5>1 DEF Remembered
      <4> QED BY <2>2, <4>1 DEF Elems
    <3>3. Apart(b, stored[i])
      BY <2>4, <3>2, StoresNew DEF Elems
    <3> QED BY <1>1, <2>4, <3>1, <3>3, ApartDisjoint
  <2> QED BY <2>3, <2>5 DEF StoredOnce
<1> QED BY <1>2, <1>3

(* Nothing is sent yet in the beginning. *)
LEMMA InitOnceInv == Init => OnceInv
<1> SUFFICES ASSUME Init PROVE OnceInv
  OBVIOUS
<1>1. files = {} /\ late = {} /\ Elems(stored) = {} /\ Tops = {} /\ Sent = {} /\ ~Refused
  BY DEF Init, Elems, Tops, Sent, Refused
<1>2. cur = NoPart /\ now = 0 /\ NoPart.created = 0
  BY DEF Init, NoPart
<1>3. StoredOnce
  BY DEF Init, StoredOnce
<1> QED BY <1>1, <1>2, <1>3, InitRefusalFounded
        DEF OnceInv, SentOnce, HalvesHopeless, KeysRemembered

LEMMA StepOnceInv ==
  SplitsDecided /\ SpoolInv /\ OrderInv /\ OnceInv /\ [Next]_vars => OnceInv'
<1> SUFFICES ASSUME SplitsDecided, SpoolInv, OrderInv, OnceInv, [Next]_vars PROVE OnceInv'
  OBVIOUS
<1>1. RefusalFounded'
  BY StepRefusalFounded DEF SpoolInv, OnceInv
<1> QED BY <1>1, StepSentOnce, StepHalvesHopeless, StepKeysRemembered, StepStoredOnce
        DEF OnceInv

(* Pulse stores no item twice, whatever is retried, split or restarted:    *)
(* provided it never comes to accept what it refused, or every half left   *)
(* behind is removed and no request arrives late.                          *)
THEOREM StoredAtMostOnce == ASSUME SplitsDecided PROVE Spec => []StoredOnce
<1>1. Init => OnceInv
  BY InitOnceInv
<1>2. SpoolInv /\ OrderInv /\ OnceInv /\ [Next]_vars => OnceInv'
  BY StepOnceInv
<1>3. OnceInv => StoredOnce
  BY DEF OnceInv
<1> QED BY <1>1, <1>2, <1>3, SpoolInvariant, OrderInvariant, PTL DEF Spec

-----------------------------------------------------------------------------
(* The spool is a lossy FIFO *)

(* Once load has read the directory it goes on; a process that is down     *)
(* stays so until Open.                                                    *)
LEMMA ScanRuns ==
  ASSUME SpoolInv, [Next]_vars, step = "scan"
  PROVE  step' = "scan" \/ (ScanDone /\ UNCHANGED <<files, parts>>) \/ epc' = "down"
<1> USE DEF SpoolInv, ControlInv, LockInv, Acquire, enqueuer
<1>1. CASE \/ \E shape \in Shapes : EnqueueCall(shape)
           \/ Enqueuing \/ Expire \/ Evict
  BY <1>1 DEF EnqueueCall, Enqueuing, EnqueueLock, EnqueueRefuse, StartEvict, StartWrite,
     WritePart, WritePartFails, EnqueueDone, Expire, Evict
<1>2. CASE \/ DrainNext \/ PeekLock \/ PeekEmpty \/ PeekHead \/ PeekFails \/ Send
           \/ SendFails \/ ReplyLost \/ OnDelivered \/ AllowSplit
  BY <1>2 DEF DrainNext, PeekLock, PeekEmpty, PeekHead, PeekFails, Send, SendFails,
     ReplyLost, OnDelivered, AllowSplit
<1>3. CASE \/ ReplaceLock \/ WriteHalfA \/ WriteHalfB \/ RemoveParent \/ Cleanup
           \/ Quarantine \/ Discard
  BY <1>3 DEF ReplaceLock, WriteHalfA, WriteHalfB, WriteHalf, RemoveParent, Cleanup,
     Quarantine, Discard
<1>4. CASE Opening \/ Environment \/ UNCHANGED vars
  BY <1>4 DEF Opening, Open, OpenFails, Scan, ScanDone, OpenDone, Environment, Tick,
     Crash, LateArrival, Heal, vars, memory
<1> QED BY <1>1, <1>2, <1>3, <1>4 DEF Next, Draining

(* What leaves a queue and what stays. *)
LEMMA QueueWithout ==
  ASSUME NEW q \in Seq(Part), q # <<>>
  PROVE  Elems(q) = {Head(q)} \cup Elems(Tail(q))
<1>1. /\ Len(q) \in Nat \ {0} /\ DOMAIN q = 1 .. Len(q)
      /\ Head(q) = q[1] /\ 1 \in DOMAIN q
  OBVIOUS
<1>2. /\ DOMAIN Tail(q) = 1 .. Len(q) - 1
      /\ \A i \in 1 .. Len(q) - 1 : Tail(q)[i] = q[i + 1] /\ i + 1 \in DOMAIN q
  BY <1>1, HeadTailProperties
<1>3. ASSUME NEW i \in DOMAIN q, i # 1
      PROVE  i - 1 \in 1 .. Len(q) - 1 /\ q[i] = Tail(q)[i - 1]
  <2>1. i - 1 \in 1 .. Len(q) - 1 /\ (i - 1) + 1 = i
    BY <1>1, <1>3
  <2> QED BY <1>2, <2>1
<1>4. Elems(q) \subseteq {Head(q)} \cup Elems(Tail(q))
  BY <1>1, <1>2, <1>3 DEF Elems
<1> QED BY <1>4, ElemsTail

(* The directory is the queue, where it does as told. *)
LEMMA StepDiskIsQueue ==
  ASSUME DirectoryObeys, SpoolInv, DiskIsQueue, [Next]_vars
  PROVE  DiskIsQueue'
<1> USE DEF SpoolInv
<1> SUFFICES ASSUME epc' # "down", step' # "scan", NEW p \in files'
             PROVE  p \in Elems(parts') \/ (Replacing' /\ p \in Leftovers')
  BY DEF DiskIsQueue
<1>1. /\ parts \in Seq(Part) /\ Distinct(parts) /\ ~("sync" \in FaultKinds) /\ ~("remove" \in FaultKinds)
      /\ HalfA(cur) \in Part /\ HalfB(cur) \in Part /\ cur \in Part
  BY TypeFacts DEF DiskInv, PartsDistinct, DirectoryObeys
<1>2. CASE ScanDone /\ UNCHANGED <<files, parts>>
  BY <1>2 DEF ScanDone
<1>3. CASE ~(ScanDone /\ UNCHANGED <<files, parts>>)
  <2>1. epc # "down" /\ step # "scan"
    BY <1>3, ScanRuns, SplitRuns DEF Open, Acquire
  <2>2. ASSUME p \in files
        PROVE  p \in Elems(parts) \/ (Replacing /\ p \in Leftovers)
    BY <2>1, <2>2 DEF DiskIsQueue
  <2>3. CASE Expire \/ Evict
    <3>1. /\ parts # <<>> /\ files' = files \ {Head(parts)} /\ parts' = Tail(parts)
          /\ ~Replacing
      BY <1>1, <2>3 DEF Expire, Evict, HeadExpired, OverBudget, DropHead, Fault, Replacing
    <3> QED BY <1>1, <2>2, <3>1, QueueWithout
  <2>4. CASE WritePart
    <3>1. /\ NextPart \in Part /\ files' = files \cup {NextPart} /\ ~Replacing
          /\ parts' = Append(parts, NextPart)
      <4>1. todo # <<>>
        BY <2>4 DEF WritePart
      <4> QED BY <2>4, <4>1, NextPartType DEF WritePart, Replacing, TypeOK
    <3> QED BY <1>1, <2>2, <3>1, ElemsAppend
  <2>5. CASE OnDelivered \/ Discard
    <3>1. ~Replacing
      BY <2>5 DEF OnDelivered, Discard, ControlInv, LockInv, Replacing
    <3>2. CASE UNCHANGED <<files, parts>>
      BY <2>2, <3>1, <3>2
    <3>3. ASSUME NEW i \in DOMAIN parts, parts[i] = cur, parts' = CutAt(parts, i),
                 files' = files \ {cur}
          PROVE  p \in Elems(parts')
      <4>1. Elems(CutAt(parts, i)) = Elems(parts) \ {cur}
        BY <1>1, <3>3, ElemsCut DEF CutAt
      <4> QED BY <2>2, <3>1, <3>3, <4>1
    <3> QED BY <1>1, <2>5, <3>2, <3>3 DEF OnDelivered, Discard, TakeOut, Fault, CutAt
  <2>6. CASE RemoveParent
    <3>1. PICK i \in DOMAIN parts : /\ parts[i] = cur /\ files' = files \ {cur}
                                    /\ parts' = SpliceAt(parts, i, HalfA(cur), HalfB(cur))
      BY <1>1, <2>6 DEF RemoveParent, Fault, Spliced, SpliceAt
    <3>2. cur \in Elems(parts)
      BY <3>1 DEF Elems
    <3>3. /\ HalfA(cur) \notin Elems(parts) /\ HalfB(cur) \notin Elems(parts)
          /\ HalfA(cur) # HalfB(cur)
      BY <1>1, <3>2, HalvesNotQueued, HalvesInOrder, NamesAsymmetric
    <3>4. Elems(parts') = (Elems(parts) \ {cur}) \cup {HalfA(cur), HalfB(cur)}
      BY <1>1, <3>1, <3>3, ElemsSplice DEF SpliceAt
    <3> QED BY <2>2, <3>1, <3>4 DEF Leftovers
  <2>7. CASE Cleanup
    <3>1. files' = files \ Leftovers /\ parts' = parts
      BY <1>1, <2>7 DEF Cleanup, Fault, memory
    <3> QED BY <2>2, <3>1
  <2>8. CASE /\ parts' = parts /\ ~WritePart /\ ~RemoveParent /\ ~Cleanup
    <3>1. Replacing => Replacing' /\ cur' = cur
      BY <2>8, SplitRuns
    <3>2. CASE p \in files
      BY <2>2, <2>8, <3>1, <3>2 DEF Leftovers
    <3>3. CASE p \notin files
      <4>1. ~WritePartFails
        BY <1>1, <3>3 DEF WritePartFails, Fault
      <4>2. Replacing /\ p \in Leftovers
        BY <2>8, <3>3, <4>1, FilesChange DEF Leftovers
      <4> QED BY <3>1, <4>2 DEF Leftovers
    <3> QED BY <3>2, <3>3
  <2>9. ~Scan /\ ~Crash
    BY <2>1 DEF Scan, Crash
  <2> QED BY <2>3, <2>4, <2>5, <2>6, <2>7, <2>8, <2>9, PartsChange
<1> QED BY <1>2, <1>3

(* The queue begins with the first of its items. *)
LEMMA HeadIsFirst ==
  ASSUME SpoolInv, OrderInv, parts # <<>>, NEW q \in Elems(parts)
  PROVE  Head(parts).first <= q.first
<1>1. parts \in Seq(Part)
  BY TypeFacts DEF SpoolInv
<1>2. PICK i \in DOMAIN parts : q = parts[i]
  BY DEF Elems
<1>3. /\ 1 \in DOMAIN parts /\ Head(parts) = parts[1] /\ i \in Nat /\ i >= 1
      /\ parts[1] \in Part /\ parts[i] \in Part /\ parts[1] \in Elems(parts)
  BY <1>1, <1>2 DEF Elems
<1>4. /\ parts[1].first \in Int /\ parts[1].last \in Int /\ parts[i].first \in Int
      /\ parts[1].first <= parts[1].last
  BY <1>3, PartFacts DEF SpoolInv, DiskInv, QueueOnDisk, OrderInv, PartsFilled, Filled
<1>5. i = 1 \/ parts[1].last < parts[i].first
  BY <1>2, <1>3 DEF OrderInv, QueueOrdered
<1> QED BY <1>2, <1>3, <1>4, <1>5

(* What Drain takes up is at the front, and stays there. *)
LEMMA StepHeadFirst ==
  ASSUME DirectoryObeys, SpoolInv, OrderInv, DiskIsQueue, HeadFirst, [Next]_vars
  PROVE  HeadFirst'
<1> USE DEF SpoolInv
<1> SUFFICES ASSUME NEW p \in late' \cup {cur'}, NEW q \in files'
             PROVE  p.first <= q.first
  BY DEF HeadFirst
<1>1. /\ \A r \in Bodies : r.first \in Int /\ r.last \in Int
      /\ NoPart.first = 1 /\ NoPart.last = 0
      /\ \A r \in files \cup late : r \in Bodies /\ Filled(r)
      /\ cur \in Bodies /\ (Filled(cur) \/ cur = NoPart)
      /\ files \subseteq Part /\ cur \in Part
  BY BodyTypes, TypeFacts DEF OrderInv, PartsFilled, Bodies, Sent
<1>2. q.first \in Int /\ 1 <= q.first
  BY NextBodyTypes, StepPartsFilled DEF OrderInv, PartsFilled, Filled
<1>3. p \in late \cup {cur} \/ p = NoPart \/ (PeekHead /\ parts # <<>> /\ p = Head(parts))
  BY CurChange, StoredChange
<1>4. CASE p = NoPart
  BY <1>1, <1>2, <1>4
<1>5. CASE p \in late \cup {cur}
  <2>1. CASE q \in files
    BY <1>5, <2>1 DEF HeadFirst
  <2>2. CASE (WritePart \/ WritePartFails) /\ q = NextPart
    <3>1. todo # <<>>
      BY <2>2 DEF WritePart, WritePartFails
    <3>2. Before(p, NextPart)
      BY <1>1, <1>5, <3>1, NextBody DEF OrderInv
    <3>3. p.first <= p.last \/ p = NoPart
      BY <1>1, <1>5 DEF Filled
    <3> QED BY <1>1, <1>2, <1>4, <1>5, <2>2, <3>2, <3>3 DEF Before
  <2>3. ASSUME Replacing, cur \in Elems(parts), q \in {HalfA(cur), HalfB(cur)}
        PROVE  p.first <= q.first
    <3>1. cur \in files /\ Filled(cur)
      BY <2>3 DEF DiskInv, QueueOnDisk, OrderInv, PartsFilled
    <3>2. cur.first <= q.first
      BY <1>1, <2>3, <3>1, HalfLiesWithin
    <3>3. p.first <= cur.first
      BY <1>5, <3>1 DEF HeadFirst
    <3> QED BY <1>1, <1>2, <1>5, <3>2, <3>3
  <2> QED BY <2>1, <2>2, <2>3, FilesChange
<1>6. CASE PeekHead /\ parts # <<>> /\ p = Head(parts)
  <2>1. q \in files /\ step = "expire" /\ mu = "drain"
    BY <1>6 DEF PeekHead
  <2>2. epc # "down" /\ ~Replacing
    BY <2>1 DEF ControlInv, LockInv, Replacing
  <2>3. q \in Elems(parts)
    BY <2>1, <2>2 DEF DiskIsQueue
  <2> QED BY <1>6, <2>3, HeadIsFirst
<1> QED BY <1>3, <1>4, <1>5, <1>6

(* Only the next part of Enqueue is accepted. *)
LEMMA AcceptedChange ==
  ASSUME [Next]_vars
  PROVE  \/ accepted' = accepted /\ ~WritePart
         \/ WritePart /\ accepted' = accepted \cup Items(NextPart)
<1> USE DEF history
<1>1. CASE WritePart
  BY <1>1 DEF WritePart
<1>2. CASE /\ ~WritePart
           /\ \/ \E shape \in Shapes : EnqueueCall(shape)
              \/ Enqueuing \/ Expire \/ Evict
  BY <1>2 DEF EnqueueCall, Enqueuing, EnqueueLock, EnqueueRefuse, EnqueueReturn, StartEvict,
     StartWrite, WritePartFails, EnqueueDone, Expire, Evict
<1>3. CASE /\ ~WritePart
           /\ \/ DrainNext \/ PeekLock \/ PeekEmpty \/ PeekHead \/ PeekFails \/ Send
              \/ SendFails \/ ReplyLost \/ OnDelivered \/ AllowSplit
  BY <1>3 DEF DrainNext, PeekLock, PeekEmpty, PeekHead, PeekFails, Send, SendFails,
     ReplyLost, OnDelivered, AllowSplit
<1>4. CASE /\ ~WritePart
           /\ \/ ReplaceLock \/ WriteHalfA \/ WriteHalfB \/ RemoveParent \/ Cleanup
              \/ Quarantine \/ Discard
  BY <1>4 DEF ReplaceLock, WriteHalfA, WriteHalfB, WriteHalf, RemoveParent, Cleanup,
     Quarantine, Discard
<1>5. CASE ~WritePart /\ (Opening \/ Environment \/ UNCHANGED vars)
  BY <1>5 DEF Opening, Open, OpenFails, Scan, ScanDone, OpenDone, Environment, Tick,
     Crash, LateArrival, Heal, vars
<1> QED BY <1>1, <1>2, <1>3, <1>4, <1>5 DEF Next, Draining

(* Whatever is queued, sent or given up was accepted. *)
LEMMA StepAllAccepted ==
  ASSUME DirectoryObeys, SpoolInv, OrderInv, AllAccepted, [Next]_vars
  PROVE  AllAccepted'
<1> USE DEF SpoolInv
<1>1. accepted \subseteq accepted'
  BY AcceptedChange
<1>2. \A r \in Bodies : Items(r) \subseteq accepted /\ r.first \in Int /\ r.last \in Int
  BY BodyTypes DEF AllAccepted, ItemsOf
<1>3. ASSUME NEW q \in Bodies'
      PROVE  Items(q) \subseteq accepted'
  <2>1. CASE WritePartFails
    <3>1. Bodies' = Bodies
      BY <2>1 DEF WritePartFails, EnqueueReturn, drainer, pulse, Bodies, Sent, DirectoryObeys, Fault
    <3> QED BY <1>1, <1>2, <3>1
  <2>2. CASE WritePart /\ q = NextPart
    BY <2>2, AcceptedChange
  <2>3. CASE q = NoPart
    <3>1. Items(NoPart) = {}
      BY DEF Items, NoPart
    <3> QED BY <2>3, <3>1
  <2>4. ASSUME NEW r \in Bodies, Within(q, r)
        PROVE  Items(q) \subseteq Items(r)
    <3>1. /\ r.first \in Int /\ r.last \in Int /\ q.last \in Int
          /\ r.first <= q.first /\ q.last <= r.last
      BY <1>2, <2>4 DEF Within
    <3>2. q.first \in Int
      BY <1>3, NextBodyTypes DEF Bodies
    <3> QED BY <3>1, <3>2 DEF Items
  <2> QED BY <1>1, <1>2, <2>1, <2>2, <2>3, <2>4, BodiesChange DEF OrderInv
<1>4. lost' \subseteq accepted'
  <2>1. parts # <<>> => Head(parts) \in Bodies
    BY ElemsTail, TypeFacts DEF DiskInv, QueueOnDisk, Bodies
  <2> QED BY <1>1, <1>2, <2>1, LostChange DEF AllAccepted
<1>5. rejected' \subseteq accepted'
  <2>1. cur \in Bodies
    BY DEF Bodies
  <2> QED BY <1>1, <1>2, <2>1, RefusedChange DEF AllAccepted
<1> QED BY <1>3, <1>4, <1>5 DEF AllAccepted, ItemsOf

(* What was accepted is older than what Enqueue has yet to write. *)
LEMMA StepAcceptedOlder ==
  ASSUME SpoolInv, OrderInv, AcceptedOlder, [Next]_vars
  PROVE  AcceptedOlder'
<1> USE DEF SpoolInv
<1>1. /\ accepted \subseteq Int /\ made \in Nat /\ todo \in Seq(Body)
      /\ \A k \in DOMAIN todo : todo[k].first \in Int /\ todo[k].last \in Int
  BY BodyTypes DEF TypeOK, WorldTypes, CallTypes
<1>2. ASSUME WritePart, NEW i \in Items(NextPart)
      PROVE  /\ i <= made
             /\ \A k \in DOMAIN todo : k # 1 => i < todo[k].first
  <2>1. /\ todo # <<>> /\ 1 \in DOMAIN todo /\ NextPart.last = todo[1].last
        /\ NextPart.last <= made /\ NextPart.last \in Int /\ NextPart.first \in Int
    BY <1>2, NextBody DEF WritePart, OrderInv
  <2>2. i \in Int /\ i <= NextPart.last
    BY <1>2, <2>1 DEF Items
  <2>3. ASSUME NEW k \in DOMAIN todo, k # 1
        PROVE  i < todo[k].first
    <3>1. 1 < k
      BY <1>1, <2>3
    <3>2. todo[1].last < todo[k].first
      BY <2>1, <3>1 DEF OrderInv, TodoNewest, Before
    <3> QED BY <1>1, <2>1, <2>2, <3>2
  <2> QED BY <1>1, <2>1, <2>2, <2>3
<1>3. CASE UNCHANGED <<todo, made>> /\ ~WritePart
  BY <1>3, AcceptedChange DEF AcceptedOlder
<1>4. CASE todo' = <<>> /\ made' = made
  BY <1>2, <1>4, AcceptedChange DEF AcceptedOlder
<1>5. CASE WritePart /\ todo # <<>> /\ todo' = Tail(todo) /\ made' = made
  <2>1. /\ Len(todo) \in Nat /\ DOMAIN todo = 1 .. Len(todo)
        /\ DOMAIN todo' = 1 .. Len(todo) - 1
        /\ \A k \in 1 .. Len(todo) - 1 : todo'[k] = todo[k + 1]
    BY <1>1, <1>5, HeadTailProperties
  <2>2. ASSUME NEW k \in DOMAIN todo'
        PROVE  k + 1 \in DOMAIN todo /\ k + 1 # 1 /\ todo'[k] = todo[k + 1]
    BY <2>1
  <2> QED BY <1>2, <1>5, <2>2, AcceptedChange DEF AcceptedOlder
<1>6. ASSUME NEW shape \in Shapes, EnqueueCall(shape)
      PROVE  AcceptedOlder'
  <2>1. /\ shape \in Seq(Nat \ {0}) /\ shape # <<>>
    BY ShapesAssumption
  <2>2. \A k \in DOMAIN shape : shape[k] \in Nat /\ (k # 1 => shape[k - 1] \in Nat)
    BY <2>1
  <2>3. made <= made'
    <3>1. shape[Len(shape)] \in Nat
      BY <2>1
    <3> QED BY <1>1, <1>6, <3>1 DEF EnqueueCall
  <2>4. \A k \in DOMAIN todo' : made < todo'[k].first
    BY <1>1, <1>6, <2>2 DEF EnqueueCall
  <2>5. accepted' = accepted
    BY <1>6 DEF EnqueueCall, history
  <2>6. made' \in Nat /\ \A k \in DOMAIN todo' : todo'[k].first \in Int
    <3>1. todo' \in Seq(Body) /\ made' \in Nat
      BY StepTypeOK DEF TypeOK, CallTypes
    <3>2. \A k \in DOMAIN todo' : todo'[k] \in Body
      BY <3>1
    <3> QED BY <3>1, <3>2 DEF Body
  <2>7. ASSUME NEW i \in accepted
        PROVE  i <= made' /\ \A k \in DOMAIN todo' : i < todo'[k].first
    <3>1. i \in Int /\ i <= made
      BY <1>1, <2>7 DEF AcceptedOlder
    <3> QED BY <1>1, <2>3, <2>4, <2>6, <3>1
  <2> QED BY <2>5, <2>7 DEF AcceptedOlder
<1> QED BY <1>3, <1>4, <1>5, <1>6, TodoChange

LEMMA InitLogInv == Init => LogInv
<1> SUFFICES ASSUME Init PROVE LogInv
  OBVIOUS
<1>1. /\ files = {} /\ late = {} /\ lost = {} /\ rejected = {} /\ accepted = {}
      /\ Bodies = {NoPart} /\ ItemsOf({NoPart}) = {}
  <2>1. Items(NoPart) = {}
    BY DEF Items, NoPart
  <2> QED BY <2>1 DEF Init, Bodies, Sent, Elems, ItemsOf
<1> QED BY <1>1 DEF LogInv, DiskIsQueue, HeadFirst, AllAccepted, AcceptedOlder

-----------------------------------------------------------------------------
(* The refinement of the lossy FIFO: what a step does to the items of the  *)
(* directory, to what Pulse stored and to the notices is one of its steps. *)

LEMMA LogAccepts ==
  ASSUME NEW N, ItemsOf(files') = ItemsOf(files) \cup N,
         UNCHANGED <<StoredItems, lost, rejected>>,
         \A i \in N, j \in ItemsOf(files) \cup StoredItems \cup lost \cup rejected :
           i \in Nat /\ j \in Int /\ j < i
  PROVE  Log!Accept
<1>1. ASSUME NEW i \in N
      PROVE  i \notin ItemsOf(files) \cup StoredItems \cup lost \cup rejected
  OBVIOUS
<1>2. /\ Waiting' = Waiting \cup N /\ Dropped' = Dropped /\ GivenUp' = GivenUp
      /\ Log!Known \subseteq ItemsOf(files) \cup StoredItems \cup lost \cup rejected
  BY <1>1 DEF Waiting, Dropped, GivenUp, Log!Known
<1>3. ASSUME NEW i \in N, NEW j \in Log!Known
      PROVE  i \in Nat /\ i > j
  BY <1>2, <1>3
<1> QED BY <1>2, <1>3 DEF Log!Accept

LEMMA LogDrops ==
  ASSUME NEW I, I \subseteq ItemsOf(files), ItemsOf(files') = ItemsOf(files) \ I,
         lost' = lost \cup I, UNCHANGED <<StoredItems, rejected>>,
         \A i \in I, j \in ItemsOf(files) \ I : i < j
  PROVE  Log!Drop
<1>1. /\ Waiting' \subseteq Waiting /\ Waiting \ Waiting' \subseteq I
      /\ Dropped' = Dropped \cup (Waiting \ Waiting') /\ GivenUp' = GivenUp
      /\ Waiting' \subseteq ItemsOf(files) \ I
  BY DEF Waiting, Dropped, GivenUp
<1> QED BY <1>1 DEF Log!Drop, Log!AtFront

LEMMA LogStores ==
  ASSUME NEW N, StoredItems' = StoredItems \cup N,
         UNCHANGED <<ItemsOf(files), lost, rejected>>,
         N \subseteq ItemsOf(files) \cup StoredItems \cup lost \cup rejected,
         \A i \in N, j \in ItemsOf(files) \ N : i < j
  PROVE  Log!Store
<1>1. /\ StoredItems' \ StoredItems \subseteq N
      /\ StoredItems' \ StoredItems \subseteq Waiting \cup Dropped \cup GivenUp
      /\ Waiting' = Waiting \ (StoredItems' \ StoredItems)
      /\ Dropped' = Dropped \ (StoredItems' \ StoredItems)
      /\ GivenUp' = GivenUp \ (StoredItems' \ StoredItems)
      /\ Waiting \ (StoredItems' \ StoredItems) \subseteq ItemsOf(files) \ N
  BY DEF Waiting, Dropped, GivenUp
<1> QED BY <1>1 DEF Log!Store, Log!AtFront

LEMMA LogRefuses ==
  ASSUME NEW i \in Bad, rejected' = rejected \cup {i},
         UNCHANGED <<ItemsOf(files), StoredItems, lost>>,
         i \in ItemsOf(files) \cup StoredItems \cup lost \cup rejected,
         \A j \in ItemsOf(files) \ {i} : i < j
  PROVE  Log!Refuse \/ UNCHANGED <<Waiting, StoredItems, Dropped, GivenUp>>
<1>1. CASE i \in StoredItems \cup rejected
  BY <1>1 DEF Waiting, Dropped, GivenUp
<1>2. CASE i \notin StoredItems \cup rejected
  <2>1. /\ i \in Waiting \cup Dropped /\ Waiting \ {i} \subseteq ItemsOf(files) \ {i}
        /\ GivenUp' = GivenUp \cup {i} /\ Waiting' = Waiting \ {i}
        /\ Dropped' = Dropped \ {i} /\ StoredItems' = StoredItems
    BY <1>2 DEF Waiting, Dropped, GivenUp
  <2>2. Log!AtFront({i})
    BY <2>1 DEF Log!AtFront
  <2> QED BY <2>1, <2>2 DEF Log!Refuse
<1> QED BY <1>1, <1>2

LEMMA LogStutters ==
  ASSUME UNCHANGED <<StoredItems, lost, rejected>>,
         ItemsOf(files') \subseteq ItemsOf(files) \cup rejected \cup StoredItems,
         ItemsOf(files) \subseteq ItemsOf(files') \cup rejected \cup StoredItems
  PROVE  UNCHANGED <<Waiting, StoredItems, Dropped, GivenUp>>
BY DEF Waiting, Dropped, GivenUp

LEMMA StepLogInv ==
  ASSUME DirectoryObeys, SpoolInv, OrderInv, LogInv, [Next]_vars
  PROVE  LogInv'
BY StepDiskIsQueue, StepHeadFirst, StepAllAccepted, StepAcceptedOlder DEF LogInv

(* The directory is the queue, what Drain holds is at its front, and what  *)
(* is queued was accepted before all that Enqueue still has to write.      *)
THEOREM LogInvariant == ASSUME DirectoryObeys PROVE Spec => []LogInv
<1>1. LogInv /\ SpoolInv /\ OrderInv /\ [Next]_vars => LogInv'
  BY StepLogInv
<1> QED BY <1>1, InitLogInv, SpoolInvariant, OrderInvariant, PTL DEF Spec

(* Every item of the files, of Pulse and of the notices is a number of     *)
(* those accepted, and a file's items are among those of the directory.    *)
LEMMA ItemFacts ==
  ASSUME SpoolInv, OrderInv, LogInv
  PROVE  /\ ItemsOf(files) \cup StoredItems \cup lost \cup rejected \subseteq accepted
         /\ accepted \subseteq ItemsOf(files) \cup StoredItems \cup lost \cup rejected
         /\ accepted \subseteq Int
<1>1. files \subseteq Bodies /\ Elems(stored) \subseteq Bodies
  BY DEF Bodies, Sent
<1>2. ItemsOf(files) \subseteq ItemsOf(Bodies) /\ StoredItems \subseteq ItemsOf(Bodies)
  BY <1>1 DEF ItemsOf, StoredItems
<1> QED BY <1>2 DEF LogInv, AllAccepted, SpoolInv, DiskInv, NothingVanishes, TypeOK, WorldTypes

(* What Drain holds, or gave up sending, is older than the rest.           *)
LEMMA HeldIsFront ==
  ASSUME SpoolInv, OrderInv, LogInv, NEW p \in late \cup {cur},
         NEW i \in Items(p), NEW j \in ItemsOf(files) \ Items(p)
  PROVE  i < j
<1>1. PICK q \in files : j \in Items(q)
  BY DEF ItemsOf
<1>2. p.first <= q.first
  BY <1>1 DEF LogInv, HeadFirst
<1>3. /\ p.first \in Int /\ p.last \in Int /\ q.first \in Int /\ q.last \in Int
  BY <1>1, BodyTypes DEF SpoolInv, Bodies, Sent
<1>4. i \in p.first .. p.last /\ j \in q.first .. q.last /\ ~(j \in p.first .. p.last)
  BY <1>1 DEF Items
<1> QED BY <1>2, <1>3, <1>4

(* Pulse stores the items of the request, or nothing. *)
LEMMA IngestItems ==
  ASSUME SpoolInv, OrderInv, LogInv, NEW p \in late \cup {cur}, Ingest(p),
         UNCHANGED <<files, lost, rejected>>
  PROVE  Log!Store \/ UNCHANGED <<Waiting, StoredItems, Dropped, GivenUp>>
<1>1. p \in Part /\ stored \in Seq(Batch)
  BY TypeFacts DEF SpoolInv
<1>2. CASE stored' = stored
  BY <1>2 DEF StoredItems, Waiting, Dropped, GivenUp
<1>3. CASE stored' = Append(stored, [first |-> p.first, last |-> p.last, at |-> now])
  <2> DEFINE b == [first |-> p.first, last |-> p.last, at |-> now]
  <2>1. b \in Batch /\ Items(b) = Items(p)
    BY <1>1, PartFacts, TypeFacts DEF Batch, Items, SpoolInv
  <2>2. Elems(Append(stored, b)) = Elems(stored) \cup {b}
    BY <1>1, <2>1, ElemsAppend
  <2>3. StoredItems' = StoredItems \cup Items(p)
    BY <1>3, <2>1, <2>2 DEF StoredItems, ItemsOf
  <2>4. Items(p) \subseteq accepted
    BY DEF LogInv, AllAccepted, ItemsOf, Bodies, Sent
  <2>5. \A i \in Items(p), j \in ItemsOf(files) \ Items(p) : i < j
    BY HeldIsFront
  <2>6. ItemsOf(files)' = ItemsOf(files)
    OBVIOUS
  <2> QED BY <2>3, <2>4, <2>5, <2>6, ItemFacts, LogStores
<1> QED BY <1>2, <1>3 DEF Ingest

(* Drain and the enqueuer write or remove a file that says nothing new. *)
LEMMA FilesStutter ==
  ASSUME DirectoryObeys, SpoolInv, OrderInv, LogInv,
         UNCHANGED <<stored, lost, rejected>>,
         \/ UNCHANGED files
         \/ OnDelivered \/ Discard \/ WriteHalfA \/ WriteHalfB \/ RemoveParent
         \/ Cleanup \/ Open \/ WritePartFails
  PROVE  UNCHANGED <<Waiting, StoredItems, Dropped, GivenUp>>
<1> USE DEF SpoolInv
<1>1. /\ StoredItems' = StoredItems /\ ~("sync" \in FaultKinds) /\ ~("remove" \in FaultKinds)
      /\ cur \in Part /\ Items(HalfA(cur)) \cup Items(HalfB(cur)) = Items(cur)
  BY TypeFacts, HalvesPartition DEF StoredItems, DirectoryObeys
<1>2. CASE UNCHANGED files
  BY <1>1, <1>2, LogStutters
<1>3. CASE WritePartFails
  BY <1>1, <1>3, LogStutters DEF WritePartFails, Fault
<1>4. CASE OnDelivered \/ Discard
  <2>1. Items(cur) \subseteq StoredItems \cup rejected
    BY <1>4 DEF OnDelivered, Discard, ControlInv, AnsweredOnce
  <2>2. files' = files \/ files' = files \ {cur}
    BY <1>4 DEF OnDelivered, Discard, TakeOut
  <2>3. /\ ItemsOf(files') \subseteq ItemsOf(files)
        /\ ItemsOf(files) \subseteq ItemsOf(files') \cup Items(cur)
    BY <2>2 DEF ItemsOf
  <2> QED BY <1>1, <2>1, <2>3, LogStutters
<1>5. ASSUME Replacing
      PROVE  cur \in files /\ cur \notin {HalfA(cur), HalfB(cur)}
  <2>1. cur \in Elems(parts)
    BY <1>5 DEF ControlInv, LockInv
  <2> QED BY <2>1, HalvesNotQueued DEF DiskInv, QueueOnDisk
<1>6. CASE WriteHalfA \/ WriteHalfB
  <2>1. Replacing /\ \E h \in {HalfA(cur), HalfB(cur)} : files' \in {files, files \cup {h}}
    BY <1>6 DEF WriteHalfA, WriteHalfB, WriteHalf, Replacing
  <2>2. cur \in files
    BY <1>5, <2>1
  <2>3. ItemsOf(files') = ItemsOf(files)
    BY <1>1, <2>1, <2>2 DEF ItemsOf
  <2> QED BY <1>1, <2>3, LogStutters
<1>7. CASE RemoveParent
  <2>1. files' = files \ {cur} /\ Replacing /\ step = "parent"
    BY <1>1, <1>7 DEF RemoveParent, Fault, Replacing
  <2>2. HalfA(cur) \in files' /\ HalfB(cur) \in files'
    BY <1>5, <2>1 DEF ControlInv, HalvesWritten
  <2>3. ItemsOf(files') = ItemsOf(files)
    BY <1>1, <2>1, <2>2 DEF ItemsOf
  <2> QED BY <1>1, <2>3, LogStutters
<1>8. CASE Cleanup
  <2>1. files' = files \ {HalfA(cur), HalfB(cur)} /\ Replacing
    BY <1>1, <1>8 DEF Cleanup, Fault, Replacing, Leftovers
  <2>2. cur \in files'
    BY <1>5, <2>1
  <2>3. ItemsOf(files') = ItemsOf(files)
    BY <1>1, <2>1, <2>2 DEF ItemsOf
  <2> QED BY <1>1, <2>3, LogStutters
<1>9. CASE Open
  <2>1. files' = files \ Orphans
    BY <1>9 DEF Open
  <2>2. ItemsOf(files') = ItemsOf(files)
    BY <2>1, OrphansCovered DEF ItemsOf
  <2> QED BY <1>1, <2>2, LogStutters
<1> QED BY <1>2, <1>3, <1>4, <1>6, <1>7, <1>8, <1>9

(* Expire and evictFor drop the oldest items of the directory. *)
LEMMA HeadDrops ==
  ASSUME DirectoryObeys, SpoolInv, OrderInv, LogInv, Expire \/ Evict
  PROVE  Log!Drop
<1> USE DEF SpoolInv
<1>1. /\ parts # <<>> /\ files' = files \ {Head(parts)}
      /\ lost' = lost \cup Items(Head(parts)) /\ UNCHANGED <<stored, rejected>>
      /\ step \in {"expire", "evict"}
  BY DEF Expire, Evict, HeadExpired, OverBudget, DropHead, Fault, DirectoryObeys, pulse
<1>2. files = Elems(parts)
  <2>1. epc # "down" /\ step # "scan" /\ ~Replacing
    BY <1>1 DEF ControlInv, LockInv, Replacing
  <2> QED BY <2>1 DEF LogInv, DiskIsQueue, DiskInv, QueueOnDisk
<1>3. /\ parts \in Seq(Part) /\ Head(parts) = parts[1] /\ 1 \in DOMAIN parts
      /\ parts[1] \in Part
  BY <1>1, TypeFacts
<1>4. ASSUME NEW q \in files, q # parts[1], NEW i \in Items(parts[1]), NEW j \in Items(q)
      PROVE  i < j
  <2>1. PICK k \in DOMAIN parts : q = parts[k]
    BY <1>2, <1>4 DEF Elems
  <2>2. parts[1].last < q.first
    BY <1>3, <1>4, <2>1 DEF OrderInv, QueueOrdered
  <2>3. /\ parts[1].first \in Int /\ parts[1].last \in Int
        /\ q.first \in Int /\ q.last \in Int
    BY <1>3, <2>1, PartFacts
  <2> QED BY <1>4, <2>2, <2>3 DEF Items
<1>5. /\ Items(parts[1]) \subseteq Int
  BY <1>3, ItemsInt
<1>6. parts[1] \in files
  BY <1>2, <1>3 DEF Elems
<1>7. ItemsOf(files') = ItemsOf(files) \ Items(parts[1])
  <2>1. ASSUME NEW q \in files, q # parts[1], NEW i \in Items(parts[1]), i \in Items(q)
        PROVE  FALSE
    BY <1>4, <1>5, <2>1
  <2> QED BY <1>1, <1>3, <1>6, <2>1 DEF ItemsOf
<1>8. \A i \in Items(parts[1]), j \in ItemsOf(files) \ Items(parts[1]) : i < j
  BY <1>4 DEF ItemsOf
<1>9. Items(parts[1]) \subseteq ItemsOf(files) /\ StoredItems' = StoredItems
  BY <1>1, <1>6 DEF ItemsOf, StoredItems
<1> QED BY <1>1, <1>3, <1>7, <1>8, <1>9, LogDrops

(* A part written and queued is accepted: its items are newer than all.    *)
LEMMA PartAccepted ==
  ASSUME SpoolInv, OrderInv, LogInv, WritePart
  PROVE  Log!Accept
<1> USE DEF SpoolInv
<1>1. /\ todo # <<>> /\ files' = files \cup {NextPart}
      /\ UNCHANGED <<stored, lost, rejected>> /\ todo \in Seq(Body)
  BY DEF WritePart, pulse, TypeOK, CallTypes
<1>2. /\ 1 \in DOMAIN todo /\ NextPart.first = todo[1].first
      /\ NextPart.first \in Int /\ NextPart.last \in Int
  <2>1. 1 \in DOMAIN todo /\ Head(todo) = todo[1]
    BY <1>1
  <2>2. NextPart \in Part
    BY <1>1, NextPartType DEF TypeOK
  <2>3. NextPart.first = Head(todo).first
    BY DEF NextPart
  <2> QED BY <2>1, <2>2, <2>3, PartFacts
<1>3. 1 <= NextPart.first
  BY <1>2 DEF OrderInv, TodoNewest, Filled
<1>4. ASSUME NEW i \in Items(NextPart),
             NEW j \in ItemsOf(files) \cup StoredItems \cup lost \cup rejected
      PROVE  i \in Nat /\ j \in Int /\ j < i
  <2>1. j \in Int /\ j \in accepted
    BY <1>4, ItemFacts
  <2>2. j < NextPart.first
    BY <1>2, <2>1 DEF LogInv, AcceptedOlder
  <2> QED BY <1>2, <1>3, <2>1, <2>2 DEF Items
<1>5. ItemsOf(files') = ItemsOf(files) \cup Items(NextPart) /\ StoredItems' = StoredItems
  BY <1>1 DEF ItemsOf, StoredItems
<1> QED BY <1>1, <1>4, <1>5, LogAccepts

(* Quarantine gives up the single item Pulse refuses.                      *)
LEMMA ItemRefused ==
  ASSUME SpoolInv, OrderInv, LogInv, RefusalFounded, Quarantine
  PROVE  Log!Refuse \/ UNCHANGED <<Waiting, StoredItems, Dropped, GivenUp>>
<1> USE DEF SpoolInv
<1>1. /\ dpc = "reply" /\ reply = "rejected" /\ ~Divisible(cur)
      /\ rejected' = rejected \cup Items(cur) /\ UNCHANGED <<files, stored, lost>>
  BY DEF Quarantine, pulse
<1>2. cur \in Part /\ cur.first \in Int /\ cur.last \in Int /\ Filled(cur)
  BY <1>1, TypeFacts, PartFacts DEF OrderInv, PartsFilled
<1>3. Items(cur) = {cur.first}
  <2>1. cur.first = cur.last
    BY <1>1, <1>2 DEF Divisible, Filled
  <2> QED BY <1>2, <2>1 DEF Items
<1>4. cur.first \in Bad
  BY <1>1, <1>3 DEF RefusalFounded, Refused
<1>5. cur.first \in accepted
  BY <1>3 DEF LogInv, AllAccepted, ItemsOf, Bodies
<1>6. \A j \in ItemsOf(files) \ {cur.first} : cur.first < j
  BY <1>3, HeldIsFront
<1>7. ItemsOf(files)' = ItemsOf(files) /\ StoredItems' = StoredItems
  BY <1>1 DEF StoredItems
<1> QED BY <1>1, <1>3, <1>4, <1>5, <1>6, <1>7, ItemFacts, LogRefuses

(* Every step of the spool is a step of the lossy FIFO, or none. *)
LEMMA StepLog ==
  ASSUME DirectoryObeys, SpoolInv, OrderInv, LogInv, RefusalFounded, [Next]_vars
  PROVE  [Log!Next]_<<Waiting, StoredItems, Dropped, GivenUp>>
<1> USE DEF SpoolInv
<1>1. CASE WritePart
  BY <1>1, PartAccepted DEF Log!Next
<1>2. CASE Expire \/ Evict
  BY <1>2, HeadDrops DEF Log!Next
<1>3. CASE Quarantine
  BY <1>3, ItemRefused DEF Log!Next
<1>4. CASE Send
  <2>1. Ingest(cur) /\ UNCHANGED <<files, lost, rejected>>
    BY <1>4 DEF Send, history
  <2> QED BY <2>1, IngestItems DEF Log!Next
<1>5. CASE LateArrival
  <2>1. PICK p \in late : Ingest(p)
    BY <1>5 DEF LateArrival
  <2>2. UNCHANGED <<files, lost, rejected>>
    BY <1>5 DEF LateArrival, history
  <2> QED BY <2>1, <2>2, IngestItems DEF Log!Next
<1>6. CASE ~WritePart /\ ~Expire /\ ~Evict /\ ~Quarantine /\ ~Send /\ ~LateArrival
  <2>1. UNCHANGED <<stored, lost, rejected>>
    BY <1>6, StoredChange, LostChange, RefusedChange DEF SendFails
  <2>2. \/ UNCHANGED files
        \/ OnDelivered \/ Discard \/ WriteHalfA \/ WriteHalfB \/ RemoveParent
        \/ Cleanup \/ Open \/ WritePartFails
    <3>1. ~OpenFails
      BY DEF OpenFails, Fault, DirectoryObeys
    <3> QED BY <1>6, <3>1, FilesChange, FilesGo
  <2> QED BY <2>1, <2>2, FilesStutter
<1> QED BY <1>1, <1>2, <1>3, <1>4, <1>5, <1>6

(* The spool is a lossy FIFO of telemetry items, whatever process, file or *)
(* request is lost, where the directory does as it is told: retries,       *)
(* splits, crashes and restarts are invisible, and any other step accepts  *)
(* newer items, or takes the oldest from the queue for a stated reason.    *)
THEOREM SpoolIsALog == ASSUME DirectoryObeys PROVE Spec => ImplementsLog
<1>1. Init => Log!Init
  <2>1. ASSUME Init
        PROVE  ItemsOf(files) = {} /\ StoredItems = {} /\ lost = {} /\ rejected = {}
    BY <2>1 DEF Init, ItemsOf, StoredItems, Elems
  <2> QED BY <2>1 DEF Log!Init, Waiting, Dropped, GivenUp
<1>2. /\ SpoolInv /\ OrderInv /\ LogInv /\ RefusalFounded
      /\ [Next]_vars
      => [Log!Next]_<<Waiting, StoredItems, Dropped, GivenUp>>
  BY StepLog
<1> QED BY <1>1, <1>2, SpoolInvariant, OrderInvariant, LogInvariant, RefusalInvariant, PTL
        DEF Spec, ImplementsLog, Log!LogSpec
=============================================================================
