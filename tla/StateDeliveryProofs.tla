------------------------- MODULE StateDeliveryProofs --------------------------
(***************************************************************************)
(* Proofs about the suppression of states: for any states, values, length  *)
(* of the queue, and any number of losses, faults, stops and crashes.      *)
(***************************************************************************)
EXTENDS StateDelivery, SequenceTheorems, FiniteSetTheorems, TLAPS
-----------------------------------------------------------------------------
(* Partial functions *)

Part == Partial(Ids, Values)

LEMMA PartialType ==
  ASSUME NEW S, NEW T, NEW f
  PROVE  f \in Partial(S, T) <=> f \in [DOMAIN f -> T] /\ DOMAIN f \subseteq S
BY DEF Partial

LEMMA EmptyType ==
  ASSUME NEW S, NEW T PROVE Empty \in Partial(S, T) /\ DOMAIN Empty = {}
<1>1. DOMAIN Empty = {}
  BY DEF Empty
<1>2. Empty \in [{} -> T]
  BY DEF Empty
<1> QED BY <1>1, <1>2 DEF Partial

LEMMA OnlyType ==
  ASSUME NEW S, NEW T, NEW f \in Partial(S, T), NEW D
  PROVE  Only(f, D) \in Partial(S, T)
<1>1. f \in [DOMAIN f -> T] /\ DOMAIN f \subseteq S
  BY PartialType
<1>2. Only(f, D) \in [DOMAIN f \cap D -> T]
  BY <1>1 DEF Only
<1> QED BY <1>1, <1>2, PartialType DEF Only

LEMMA WithoutType ==
  ASSUME NEW S, NEW T, NEW f \in Partial(S, T), NEW D
  PROVE  Without(f, D) \in Partial(S, T)
<1>1. f \in [DOMAIN f -> T] /\ DOMAIN f \subseteq S
  BY PartialType
<1>2. Without(f, D) \in [DOMAIN f \ D -> T]
  BY <1>1 DEF Without
<1> QED BY <1>1, <1>2, PartialType DEF Without

LEMMA OverType ==
  ASSUME NEW S, NEW T, NEW f \in Partial(S, T), NEW g \in Partial(S, T)
  PROVE  Over(f, g) \in Partial(S, T)
<1>1. /\ f \in [DOMAIN f -> T] /\ DOMAIN f \subseteq S
      /\ g \in [DOMAIN g -> T] /\ DOMAIN g \subseteq S
  BY PartialType
<1>2. Over(f, g) \in [DOMAIN f \cup DOMAIN g -> T]
  BY <1>1 DEF Over
<1> QED BY <1>1, <1>2, PartialType DEF Over

LEMMA AsSentType ==
  ASSUME NEW f \in Part PROVE AsSent(f) \in Partial(Ids, Entries)
<1>1. f \in [DOMAIN f -> Values] /\ DOMAIN f \subseteq Ids
  BY PartialType DEF Part
<1>2. AsSent(f) \in [DOMAIN f -> Entries]
  BY <1>1 DEF AsSent, Entries
<1> QED BY <1>1, <1>2, PartialType DEF AsSent

LEMMA DueType ==
  ASSUME NEW f \in Partial(Ids, Entries), NEW id \in DOMAIN f
  PROVE  /\ Due(f, id) \in Partial(Ids, Entries) /\ DOMAIN Due(f, id) = DOMAIN f
         /\ \A i \in DOMAIN f : Due(f, id)[i].value = f[i].value
<1>1. f \in [DOMAIN f -> Entries] /\ DOMAIN f \subseteq Ids
  BY PartialType
<1>2. DOMAIN Due(f, id) = DOMAIN f
  BY <1>1 DEF Due
<1>3. \A i \in DOMAIN f : Due(f, id)[i] \in Entries /\ Due(f, id)[i].value = f[i].value
  BY <1>1 DEF Due, Entries
<1>4. Due(f, id) \in [DOMAIN f -> Entries]
  BY <1>1, <1>2, <1>3 DEF Due
<1> QED BY <1>1, <1>2, <1>3, <1>4, PartialType
-----------------------------------------------------------------------------
(* The queue and what Pulse will hold once it is delivered *)

(* Latest, of a queue and of what Pulse holds. *)
Has(q, i, id) == i \in DOMAIN q /\ id \in DOMAIN q[i]
LatestIn(q, p, id, v) ==
  \/ (\A i \in DOMAIN q : ~Has(q, i, id)) /\ id \in DOMAIN p /\ p[id] = v
  \/ \E i \in DOMAIN q : /\ Has(q, i, id) /\ q[i][id] = v
                         /\ \A j \in DOMAIN q : Has(q, j, id) => j <= i

LEMMA RestType ==
  ASSUME queue \in Seq(Part), NEW k \in 0 .. Len(queue)
  PROVE  /\ Rest(k) \in Seq(Part) /\ Len(Rest(k)) = Len(queue) - k
         /\ k = 0 => Rest(k) = queue
<1>1. k + 1 \in 1 .. Len(queue) + 1 /\ Len(queue) \in Nat
  BY LenProperties
<1>2. Rest(k) \in Seq(Part) /\ Len(Rest(k)) = Len(queue) - k
  BY <1>1, SubSeqProperties DEF Rest
<1>3. ASSUME k = 0 PROVE Rest(k) = queue
  <2>1. SubSeq(queue, 1, Len(queue)) = queue
    BY SubSeqFull
  <2> QED BY <1>3, <2>1 DEF Rest
<1> QED BY <1>2, <1>3

LEMMA WithType ==
  ASSUME NEW q \in Seq(Part), NEW s \in Part
  PROVE  With(q, s) \in Seq(Part) /\ Len(With(q, s)) <= Len(q) + 1
BY AppendProperties, LenProperties DEF With

(* A new part hides what the queue held of its states, and nothing else. *)
LEMMA WithKeeps ==
  ASSUME NEW q \in Seq(Part), NEW s \in Part, NEW p, NEW id, NEW v,
         id \notin DOMAIN s, LatestIn(q, p, id, v)
  PROVE  LatestIn(With(q, s), p, id, v)
<1>1. CASE With(q, s) = q
  BY <1>1
<1>2. CASE With(q, s) = Append(q, s)
  <2> DEFINE r == Append(q, s)
  <2>1. /\ Len(q) \in Nat /\ DOMAIN q = 1 .. Len(q)
        /\ DOMAIN r = 1 .. Len(q) + 1
        /\ \A i \in 1 .. Len(q) : r[i] = q[i]
        /\ r[Len(q) + 1] = s
    BY AppendProperties, LenProperties
  <2> HIDE DEF r
  <2>2. \A i \in DOMAIN r : Has(r, i, id) <=> Has(q, i, id)
    BY <2>1 DEF Has
  <2>3. LatestIn(r, p, id, v)
    BY <2>1, <2>2 DEF LatestIn, Has
  <2> QED BY <1>2, <2>3 DEF r
<1> QED BY <1>1, <1>2 DEF With

LEMMA WithLeads ==
  ASSUME NEW q \in Seq(Part), NEW s \in Part, NEW p, NEW id \in DOMAIN s
  PROVE  LatestIn(With(q, s), p, id, s[id])
<1> DEFINE r == Append(q, s)
<1>1. s # Empty
  BY EmptyType
<1>2. /\ Len(q) \in Nat /\ DOMAIN r = 1 .. Len(q) + 1 /\ r[Len(q) + 1] = s
  BY AppendProperties, LenProperties
<1> HIDE DEF r
<1>3. LatestIn(r, p, id, s[id])
  BY <1>2 DEF LatestIn, Has
<1> QED BY <1>1, <1>3 DEF With, r



(* What Pulse stores of the head was to be stored anyway. *)
LEMMA DeliverKeeps ==
  ASSUME NEW q \in Seq(Part), q # <<>>, NEW p \in Part, NEW id, NEW v,
         LatestIn(q, p, id, v)
  PROVE  /\ LatestIn(q, Over(p, Head(q)), id, v)
         /\ LatestIn(Tail(q), Over(p, Head(q)), id, v)
<1> DEFINE r == Over(p, Head(q))
           t == Tail(q)
<1>1. /\ Len(q) \in Nat /\ DOMAIN q = 1 .. Len(q) /\ Len(q) >= 1
      /\ DOMAIN t = 1 .. Len(q) - 1
      /\ \A i \in 1 .. Len(q) - 1 : t[i] = q[i + 1]
      /\ Head(q) = q[1] /\ q[1] \in Part
  BY HeadTailProperties, LenProperties, EmptySeq
<1>2. /\ DOMAIN r = DOMAIN p \cup DOMAIN q[1]
      /\ \A i \in DOMAIN q[1] : r[i] = q[1][i]
      /\ \A i \in DOMAIN p \ DOMAIN q[1] : r[i] = p[i]
  <2>1. r = Over(p, q[1])
    BY <1>1
  <2>2. /\ DOMAIN Over(p, q[1]) = DOMAIN p \cup DOMAIN q[1]
        /\ \A i \in DOMAIN q[1] : Over(p, q[1])[i] = q[1][i]
        /\ \A i \in DOMAIN p \ DOMAIN q[1] : Over(p, q[1])[i] = p[i]
    BY DEF Over
  <2> HIDE DEF r
  <2> QED BY <2>1, <2>2
<1> HIDE DEF r, t
<1>3. CASE (\A i \in DOMAIN q : ~Has(q, i, id)) /\ id \in DOMAIN p /\ p[id] = v
  <2>1. id \in DOMAIN r /\ r[id] = v
    BY <1>1, <1>2, <1>3 DEF Has
  <2>2. \A i \in DOMAIN t : ~Has(t, i, id)
    <3> SUFFICES ASSUME NEW i \in DOMAIN t, id \in DOMAIN t[i] PROVE FALSE
      BY DEF Has
    <3>1. i + 1 \in DOMAIN q /\ t[i] = q[i + 1]
      BY <1>1
    <3> QED BY <1>3, <3>1 DEF Has
  <2> QED BY <1>3, <2>1, <2>2 DEF LatestIn, r, t
<1>4. CASE \E i \in DOMAIN q : /\ Has(q, i, id) /\ q[i][id] = v
                               /\ \A j \in DOMAIN q : Has(q, j, id) => j <= i
  <2>1. PICK i \in DOMAIN q : /\ id \in DOMAIN q[i] /\ q[i][id] = v
                              /\ \A j \in DOMAIN q : id \in DOMAIN q[j] => j <= i
    BY <1>4 DEF Has
  <2>2. LatestIn(q, r, id, v)
    BY <2>1 DEF LatestIn, Has
  <2>3. \A j \in DOMAIN t : j + 1 \in DOMAIN q /\ t[j] = q[j + 1]
    BY <1>1
  <2>4. CASE i = 1
    <3>1. id \in DOMAIN r /\ r[id] = v
      BY <1>2, <2>1, <2>4
    <3>2. \A j \in DOMAIN t : id \notin DOMAIN t[j]
      BY <1>1, <2>1, <2>3, <2>4
    <3> QED BY <2>2, <3>1, <3>2 DEF LatestIn, Has, r, t
  <2>5. CASE i # 1
    <3>1. i - 1 \in DOMAIN t /\ t[i - 1] = q[i]
      BY <1>1, <2>1, <2>5
    <3>2. \A j \in DOMAIN t : id \in DOMAIN t[j] => j <= i - 1
      BY <1>1, <2>1, <2>3
    <3>3. LatestIn(t, r, id, v)
      BY <2>1, <3>1, <3>2 DEF LatestIn, Has
    <3> QED BY <2>2, <3>3 DEF r, t
  <2> QED BY <2>4, <2>5
<1> QED BY <1>3, <1>4 DEF LatestIn
-----------------------------------------------------------------------------
(* The inductive invariant *)

(* One lane at a time holds queueMu. *)
Exclusive ==
  \A l, m \in Lanes :
    stage[l] \in {"filtered", "queued"} /\ stage[m] \in {"filtered", "queued"} => l = m

Types ==
  /\ up \in BOOLEAN /\ noticed \in BOOLEAN /\ exposed \in BOOLEAN
  /\ observed \in [Ids -> Values]
  /\ cache \in Partial(Ids, Entries) /\ saved \in Partial(Ids, Entries)
  /\ pulse \in Part
  /\ stage \in [Lanes -> {"idle", "collected", "filtered", "queued"}]
  /\ Exclusive
  /\ batch \in [Lanes -> Part] /\ send \in [Lanes -> Part]
  /\ queue \in Seq(Part) /\ Len(queue) <= MaxParts
  /\ changes \in Nat /\ incidents \in Nat

(* Nothing is in memory while no process runs. *)
Down == ~up => ~noticed /\ cache = Empty /\ \A l \in Lanes : stage[l] = "idle"

(* What Pulse will hold, as the proofs below use it *)
Held(id, v) == LatestIn(queue, pulse, id, v)

CacheHeld ==
  \A id \in DOMAIN cache : noticed \/ Uncommitted(id) \/ Held(id, cache[id].value)

(* The states on their way from Enqueue to commit are queued, or a notice  *)
(* of their loss is pending.                                               *)
InFlight ==
  \A l \in Lanes : stage[l] = "queued" =>
    \A id \in DOMAIN send[l] : noticed \/ Held(id, send[l][id])

(* A stopped agent has on disk only what Pulse will hold. *)
SavedHeld == ~up => \A id \in DOMAIN saved : Held(id, saved[id].value)

Safe == CacheHeld /\ InFlight /\ SavedHeld

IInv == Types /\ Down /\ (~exposed => Safe)
-----------------------------------------------------------------------------
(* Types *)

LEMMA InitTypes == ASSUME Init PROVE Types
<1>1. /\ Empty \in Partial(Ids, Entries) /\ Empty \in Part
  BY EmptyType DEF Part
<1>2. <<>> \in Seq(Part) /\ Len(<<>>) = 0
  BY EmptySeq
<1>3. /\ observed \in [Ids -> Values] /\ stage \in [Lanes -> {"idle"}]
      /\ batch \in [Lanes -> Part] /\ send \in [Lanes -> Part]
  BY <1>1, LanesAssumption DEF Init
<1>4. Exclusive
  BY DEF Init, Exclusive
<1>5. Len(queue) <= MaxParts /\ changes \in Nat /\ incidents \in Nat
  BY <1>2, StateBoundsAssumption DEF Init
<1>6. /\ cache \in Partial(Ids, Entries) /\ saved \in Partial(Ids, Entries)
      /\ pulse \in Part /\ queue \in Seq(Part)
  BY <1>1, <1>2 DEF Init
<1>7. up \in BOOLEAN /\ noticed \in BOOLEAN /\ exposed \in BOOLEAN
  BY DEF Init
<1> QED BY <1>3, <1>4, <1>5, <1>6, <1>7 DEF Types

LEMMA FinishTypes ==
  ASSUME Types, NEW l \in Lanes, Finish(l)
  PROVE  /\ stage' \in [Lanes -> {"idle", "collected", "filtered", "queued"}]
         /\ Exclusive' /\ batch' \in [Lanes -> Part] /\ send' \in [Lanes -> Part]
<1>1. Empty \in Part
  BY EmptyType DEF Part
<1> QED BY <1>1 DEF Types, Finish, Enter, Exclusive

LEMMA EndsTypes ==
  ASSUME Types, NEW how, Ends(how)
  PROVE  /\ stage' = [l \in Lanes |-> "idle"] /\ Exclusive'
         /\ stage' \in [Lanes -> {"idle", "collected", "filtered", "queued"}]
         /\ batch' \in [Lanes -> Part] /\ send' \in [Lanes -> Part]
         /\ cache' = Empty /\ cache' \in Partial(Ids, Entries)
         /\ incidents' \in Nat
<1>1. Empty \in Part /\ Empty \in Partial(Ids, Entries)
  BY EmptyType DEF Part
<1> QED BY <1>1 DEF Types, Ends, Exclusive, Incident

LEMMA DropTypes ==
  ASSUME Types, NEW k, DropOldest(k)
  PROVE  noticed' \in BOOLEAN /\ incidents' \in Nat
<1>1. noticed' = noticed \/ noticed' = TRUE
  BY DEF DropOldest
<1>2. incidents' = incidents \/ incidents' = incidents + 1
  BY DEF DropOldest, Incident
<1>3. noticed \in BOOLEAN /\ incidents \in Nat
  BY DEF Types
<1>4. noticed' \in BOOLEAN
  BY <1>1, <1>3
<1> QED BY <1>2, <1>3, <1>4
-----------------------------------------------------------------------------
LEMMA StepTypes == ASSUME Types, Down, [Next]_vars PROVE Types'
<1>1. ASSUME NEW l \in Lanes, NEW S \in SUBSET IdsOf(l), Collect(l, S) PROVE Types'
  <2>1. observed \in Part /\ Only(observed, S) \in Part
    BY OnlyType, PartialType DEF Types, Part
  <2>2. /\ batch' \in [Lanes -> Part]
        /\ stage' \in [Lanes -> {"idle", "collected", "filtered", "queued"}]
    BY <1>1, <2>1 DEF Types, Collect, Enter
  <2>3. Exclusive'
    BY <1>1 DEF Types, Collect, Enter, Exclusive
  <2> QED BY <1>1, <2>2, <2>3 DEF Types, Collect
<1>2. ASSUME NEW l \in Lanes, FilterStates(l) PROVE Types'
  <2>1. cache' \in Partial(Ids, Entries)
    BY <1>2, EmptyType DEF Types, FilterStates, AfterNotices
  <2>2. noticed' \in BOOLEAN
    BY <1>2 DEF FilterStates
  <2>3. PICK D : send' = [send EXCEPT ![l] = Only(batch[l], D)]
    BY <1>2 DEF FilterStates
  <2>4. Only(batch[l], D) \in Part
    BY OnlyType DEF Types, Part
  <2>5. /\ send' \in [Lanes -> Part]
        /\ stage' \in [Lanes -> {"idle", "collected", "filtered", "queued"}]
    BY <1>2, <2>3, <2>4 DEF Types, FilterStates, Enter
  <2>6. Exclusive'
    BY <1>2 DEF Types, FilterStates, Enter, Exclusive, Free
  <2> QED BY <1>2, <2>1, <2>2, <2>5, <2>6 DEF Types, FilterStates
<1>3. ASSUME NEW l \in Lanes, Enqueue(l) PROVE Types'
  <2>1. PICK k \in 0 .. Len(queue) :
          DropOldest(k) /\ Len(Rest(k)) < MaxParts /\ queue' = With(Rest(k), send[l])
    BY <1>3 DEF Enqueue
  <2>2. noticed' \in BOOLEAN /\ incidents' \in Nat
    BY <2>1, DropTypes
  <2>3. Rest(k) \in Seq(Part) /\ send[l] \in Part
    BY RestType DEF Types
  <2>4. queue' \in Seq(Part) /\ Len(queue') <= MaxParts
    BY <2>1, <2>3, WithType, LenProperties, StateBoundsAssumption
  <2>5. stage' \in [Lanes -> {"idle", "collected", "filtered", "queued"}] /\ Exclusive'
    BY <1>3 DEF Types, Enqueue, Enter, Exclusive
  <2> QED BY <1>3, <2>2, <2>4, <2>5 DEF Types, Enqueue
<1>4. ASSUME NEW l \in Lanes, EnqueueRefuses(l) PROVE Types'
  BY <1>4, FinishTypes DEF Types, EnqueueRefuses, Incident
<1>5. ASSUME NEW l \in Lanes, EnqueueFails(l) PROVE Types'
  <2>1. PICK k \in 0 .. Len(queue), S \in SUBSET DOMAIN send[l] :
          /\ noticed' = (noticed \/ k > 0) /\ Len(Rest(k)) < MaxParts
          /\ queue' = With(Rest(k), Only(send[l], S))
          /\ exposed' = (exposed \/ S # {})
    BY <1>5 DEF EnqueueFails
  <2>2. Rest(k) \in Seq(Part) /\ Only(send[l], S) \in Part
    BY RestType, OnlyType DEF Types, Part
  <2>3. queue' \in Seq(Part) /\ Len(queue') <= MaxParts
    BY <2>1, <2>2, WithType, LenProperties, StateBoundsAssumption
  <2>4. noticed' \in BOOLEAN /\ exposed' \in BOOLEAN
    BY <2>1
  <2> QED BY <1>5, <2>3, <2>4, FinishTypes DEF Types, EnqueueFails, Incident
<1>6. ASSUME NEW l \in Lanes, Commit(l) PROVE Types'
  <2>1. PICK F : cache' = Without(Over(cache, AsSent(send[l])), F)
    BY <1>6 DEF Commit
  <2>2. AsSent(send[l]) \in Partial(Ids, Entries)
    BY AsSentType DEF Types
  <2>3. Over(cache, AsSent(send[l])) \in Partial(Ids, Entries)
    BY <2>2, OverType DEF Types
  <2>4. cache' \in Partial(Ids, Entries)
    BY <2>1, <2>3, WithoutType
  <2>5. saved' \in Partial(Ids, Entries) /\ incidents' \in Nat
    BY <1>6, <2>4 DEF Types, Commit, Incident
  <2> QED BY <1>6, <2>4, <2>5, FinishTypes DEF Types, Commit
<1>7. ASSUME NEW answered, Deliver(answered) PROVE Types'
  <2>1. Head(queue) \in Part /\ Tail(queue) \in Seq(Part) /\ Len(Tail(queue)) <= Len(queue)
    BY <1>7, HeadTailProperties, LenProperties DEF Types, Deliver
  <2>2. pulse' \in Part
    BY <1>7, <2>1, OverType DEF Types, Deliver, Part
  <2>3. queue' \in Seq(Part) /\ Len(queue') <= MaxParts
    BY <1>7, <2>1, LenProperties, StateBoundsAssumption DEF Types, Deliver
  <2> QED BY <1>7, <2>2, <2>3 DEF Types, Deliver, Exclusive
<1>8. ASSUME Expire PROVE Types'
  <2>1. 1 \in 0 .. Len(queue)
    BY <1>8, EmptySeq, LenProperties DEF Types, Expire
  <2>2. queue' \in Seq(Part) /\ Len(queue') <= MaxParts
    BY <1>8, <2>1, RestType, LenProperties, StateBoundsAssumption DEF Types, Expire
  <2> QED BY <1>8, <2>2, DropTypes DEF Types, Expire, Exclusive
<1>9. ASSUME Reject PROVE Types'
  <2>1. PICK id \in DOMAIN Head(queue) :
          LET others == Without(Head(queue), {id})
          IN queue' = IF others = Empty THEN Tail(queue) ELSE [queue EXCEPT ![1] = others]
    BY <1>9 DEF Reject
  <2>2. Head(queue) \in Part /\ Tail(queue) \in Seq(Part) /\ Len(Tail(queue)) <= Len(queue)
    BY <1>9, HeadTailProperties, LenProperties DEF Types, Reject
  <2>3. Without(Head(queue), {id}) \in Part
    BY <2>2, WithoutType DEF Part
  <2>4. /\ [queue EXCEPT ![1] = Without(Head(queue), {id})] \in Seq(Part)
        /\ Len([queue EXCEPT ![1] = Without(Head(queue), {id})]) = Len(queue)
    BY <1>9, <2>3, ExceptSeq, EmptySeq, LenProperties DEF Types, Reject
  <2>5. queue' \in Seq(Part) /\ Len(queue') <= MaxParts
    BY <2>1, <2>2, <2>4, LenProperties, StateBoundsAssumption DEF Types
  <2> QED BY <1>9, <2>5 DEF Types, Reject, Incident, Exclusive
<1>10. CASE Change
  <2>1. observed' \in [Ids -> Values] /\ changes' \in Nat
    BY <1>10 DEF Types, Change
  <2> QED BY <1>10, <2>1 DEF Types, Change, Exclusive
<1>11. CASE Stop
  <2>1. saved' = saved \/ \E F : saved' = Without(cache, F)
    BY <1>11 DEF Stop
  <2>2. saved' \in Partial(Ids, Entries)
    BY <2>1, WithoutType DEF Types
  <2>3. exposed' \in BOOLEAN /\ noticed' \in BOOLEAN /\ up' \in BOOLEAN
    BY <1>11 DEF Stop, Ends, Types
  <2>4. Ends("clean")
    BY <1>11 DEF Stop
  <2>5. UNCHANGED <<observed, queue, pulse, changes>>
    BY <2>4 DEF Ends
  <2> QED BY <2>2, <2>3, <2>4, <2>5, EndsTypes DEF Types
<1>12. CASE Crash
  <2>1. exposed' \in BOOLEAN /\ noticed' \in BOOLEAN /\ up' \in BOOLEAN
    BY <1>12 DEF Crash, Ends
  <2>2. Ends("crash") /\ UNCHANGED saved
    BY <1>12 DEF Crash
  <2>3. UNCHANGED <<observed, queue, pulse, changes>>
    BY <2>2 DEF Ends
  <2> QED BY <2>1, <2>2, <2>3, EndsTypes DEF Types
<1>13. CASE Start
  <2>1. PICK k \in 0 .. Len(queue) : DropOldest(k) /\ queue' = Rest(k)
    BY <1>13 DEF Start
  <2>2. queue' \in Seq(Part) /\ Len(queue') <= MaxParts
    BY <2>1, RestType, LenProperties, StateBoundsAssumption DEF Types
  <2>3. noticed' \in BOOLEAN /\ incidents' \in Nat
    BY <2>1, DropTypes
  <2> QED BY <1>13, <2>2, <2>3 DEF Types, Start, Exclusive
<1>14. ASSUME NEW id \in Ids, Age(id) PROVE Types'
  <2>1. cache' \in Partial(Ids, Entries) /\ saved' \in Partial(Ids, Entries)
    BY <1>14, DueType DEF Types, Age
  <2> QED BY <1>14, <2>1 DEF Types, Age, Exclusive
<1>15. CASE UNCHANGED vars
  BY <1>15 DEF Types, vars, Exclusive
<1> QED
  BY <1>1, <1>2, <1>3, <1>4, <1>5, <1>6, <1>7, <1>8, <1>9, <1>10, <1>11, <1>12, <1>13,
     <1>14, <1>15 DEF Next, LaneStep
-----------------------------------------------------------------------------
(* Nothing in memory while no process runs *)

LEMMA StepDown == ASSUME Types, Down, [Next]_vars PROVE Down'
<1>1. CASE up' = TRUE
  BY <1>1 DEF Down
<1>2. CASE Stop \/ Crash
  BY <1>2 DEF Stop, Crash, Ends, Down
<1>3. CASE UNCHANGED <<up, noticed, cache, stage>>
  BY <1>3 DEF Down
<1>4. ASSUME NEW id \in Ids, Age(id) PROVE Down'
  <2>1. UNCHANGED <<up, noticed, stage>>
    BY <1>4 DEF Age
  <2>2. ASSUME ~up PROVE cache' = Empty
    <3>1. cache = Empty /\ DOMAIN cache = {}
      BY <2>2, EmptyType DEF Down
    <3> QED BY <1>4, <3>1 DEF Age
  <2> QED BY <2>1, <2>2 DEF Down
<1>5. ASSUME NEW l \in Lanes, LaneStep(l) PROVE Down'
  BY <1>5 DEF LaneStep, FilterStates, Enqueue, EnqueueRefuses, EnqueueFails, Commit, Down, Types
<1>6. ASSUME NEW l \in Lanes, NEW S, Collect(l, S) PROVE Down'
  BY <1>6 DEF Collect, Down, Types
<1>7. ASSUME NEW answered, Deliver(answered) PROVE Down'
  BY <1>7 DEF Deliver, Down
<1>8. CASE Expire \/ Reject
  BY <1>8 DEF Expire, Reject, Down
<1>9. CASE Change
  BY <1>9 DEF Change, Down
<1>10. CASE Start
  BY <1>10 DEF Start, Down
<1>11. CASE UNCHANGED vars
  BY <1>11 DEF vars, Down
<1> QED
  BY <1>2, <1>4, <1>5, <1>6, <1>7, <1>8, <1>9, <1>10, <1>11 DEF Next
-----------------------------------------------------------------------------
(* What is suppressed is covered *)

(* A part is appended: what the queue holds of other states stays. *)
LEMMA AppendHolds ==
  ASSUME Types, NEW s \in Part, queue' = With(queue, s), pulse' = pulse,
         NEW id, NEW v
  PROVE  /\ id \notin DOMAIN s /\ LatestIn(queue, pulse, id, v)
              => LatestIn(queue', pulse', id, v)
         /\ id \in DOMAIN s => LatestIn(queue', pulse', id, s[id])
BY WithKeeps, WithLeads DEF Types

LEMMA FilterStatesSafe ==
  ASSUME Types, Safe, NEW l \in Lanes, FilterStates(l) PROVE Safe'
<1>1. /\ up /\ UNCHANGED <<up, queue, pulse>>
      /\ \A m \in Lanes : stage[m] # "queued" /\ stage'[m] # "queued"
  BY DEF FilterStates, Free, Enter, Types
<1>2. \A id : ~Uncommitted(id)
  BY <1>1 DEF Uncommitted
<1>3. CASE l = "fast" /\ noticed
  <2>1. DOMAIN cache' = {}
    BY <1>3, EmptyType DEF FilterStates, AfterNotices
  <2> QED BY <1>1, <2>1 DEF Safe, CacheHeld, InFlight, SavedHeld
<1>4. CASE ~(l = "fast" /\ noticed)
  <2>1. cache' = cache /\ (noticed => noticed')
    BY <1>4 DEF FilterStates, AfterNotices
  <2> QED BY <1>1, <1>2, <2>1 DEF Safe, CacheHeld, InFlight, SavedHeld, Held
<1> QED BY <1>3, <1>4

LEMMA EnqueueSafe ==
  ASSUME Types, Safe, NEW l \in Lanes, Enqueue(l) PROVE Safe'
<1>1. /\ up /\ UNCHANGED <<up, pulse, cache, send>> /\ stage[l] = "filtered"
      /\ stage' = [stage EXCEPT ![l] = "queued"]
  BY DEF Enqueue, Enter
<1>2. PICK k \in 0 .. Len(queue) : DropOldest(k) /\ queue' = With(Rest(k), send[l])
  BY DEF Enqueue
<1>3. CASE k > 0
  <2>1. noticed' /\ up'
    BY <1>1, <1>2, <1>3 DEF DropOldest
  <2> QED BY <2>1 DEF Safe, CacheHeld, InFlight, SavedHeld
<1>4. CASE k = 0
  <2>1. noticed' = noticed
    BY <1>2, <1>4 DEF DropOldest
  <2>2. queue' = With(queue, send[l]) /\ send[l] \in Part
    BY <1>2, <1>4, RestType DEF Types
  <2>3. \A m \in Lanes : stage'[m] = "queued" <=> m = l
    BY <1>1 DEF Types, Exclusive
  <2>4. \A m \in Lanes : stage[m] # "queued"
    BY <1>1 DEF Types, Exclusive
  <2>5. InFlight'
    <3> SUFFICES ASSUME NEW id \in DOMAIN send[l]
                 PROVE  LatestIn(queue', pulse', id, send[l][id])
      BY <1>1, <2>3 DEF InFlight, Held
    <3> QED BY <1>1, <2>2, AppendHolds
  <2>6. CacheHeld'
    <3> SUFFICES ASSUME NEW id \in DOMAIN cache, ~noticed, id \notin DOMAIN send[l]
                 PROVE  LatestIn(queue', pulse', id, cache[id].value)
      BY <1>1, <2>1, <2>3 DEF CacheHeld, Held, Uncommitted
    <3>1. LatestIn(queue, pulse, id, cache[id].value)
      BY <2>4 DEF Safe, CacheHeld, Held, Uncommitted
    <3> QED BY <1>1, <2>2, <3>1, AppendHolds
  <2> QED BY <1>1, <2>5, <2>6 DEF Safe, SavedHeld
<1> QED BY <1>3, <1>4

LEMMA EnqueueFailsSafe ==
  ASSUME Types, Safe, NEW l \in Lanes, EnqueueFails(l), ~exposed' PROVE Safe'
<1>1. /\ up /\ UNCHANGED <<up, pulse, cache>> /\ stage[l] = "filtered"
      /\ stage' = [stage EXCEPT ![l] = "idle"]
      /\ send' = [send EXCEPT ![l] = Empty]
  BY DEF EnqueueFails, Finish, Enter
<1>2. PICK k \in 0 .. Len(queue), S \in SUBSET DOMAIN send[l] :
        /\ noticed' = (noticed \/ k > 0)
        /\ queue' = With(Rest(k), Only(send[l], S))
        /\ exposed' = (exposed \/ S # {})
  BY DEF EnqueueFails
<1>3. \A m \in Lanes : stage'[m] # "queued" /\ stage[m] # "queued"
  BY <1>1 DEF Types, Exclusive
<1>4. CASE k > 0
  <2>1. noticed' /\ up'
    BY <1>1, <1>2, <1>4
  <2> QED BY <2>1 DEF Safe, CacheHeld, InFlight, SavedHeld
<1>5. CASE k = 0
  <2> DEFINE s == Only(send[l], S)
  <2>1. DOMAIN s = {} /\ s \in Part
    BY <1>2, OnlyType DEF Types, Part, Only
  <2>2. queue' = With(queue, s)
    BY <1>2, <1>5, RestType DEF Types
  <2> HIDE DEF s
  <2>3. CacheHeld'
    <3> SUFFICES ASSUME NEW id \in DOMAIN cache, ~noticed
                 PROVE  LatestIn(queue', pulse', id, cache[id].value)
      BY <1>1, <1>2 DEF CacheHeld, Held
    <3>1. LatestIn(queue, pulse, id, cache[id].value)
      BY <1>3 DEF Safe, CacheHeld, Held, Uncommitted
    <3> QED BY <1>1, <2>1, <2>2, <3>1, AppendHolds
  <2> QED BY <1>1, <1>3, <2>3 DEF Safe, InFlight, SavedHeld
<1> QED BY <1>4, <1>5

LEMMA CommitSafe ==
  ASSUME Types, Safe, NEW l \in Lanes, Commit(l) PROVE Safe'
<1>1. /\ up /\ UNCHANGED <<up, queue, pulse, noticed>> /\ stage[l] = "queued"
      /\ stage' = [stage EXCEPT ![l] = "idle"]
  BY DEF Commit, Finish, Enter
<1>2. PICK F : cache' = Without(Over(cache, AsSent(send[l])), F)
  BY DEF Commit
<1>3. \A m \in Lanes : (stage[m] = "queued" <=> m = l) /\ stage'[m] # "queued"
  BY <1>1 DEF Types, Exclusive
<1>4. CacheHeld'
  <2> SUFFICES ASSUME NEW id \in DOMAIN cache', ~noticed
               PROVE  LatestIn(queue, pulse, id, cache'[id].value)
    BY <1>1 DEF CacheHeld, Held
  <2>1. id \in DOMAIN cache \cup DOMAIN send[l]
    BY <1>2 DEF Without, Over, AsSent
  <2>2. CASE id \in DOMAIN send[l]
    <3>1. cache'[id].value = send[l][id]
      BY <1>2, <2>2 DEF Without, Over, AsSent
    <3> QED BY <1>1, <2>2, <3>1 DEF Safe, InFlight, Held
  <2>3. CASE id \notin DOMAIN send[l]
    <3>1. cache'[id] = cache[id] /\ id \in DOMAIN cache
      BY <1>2, <2>1, <2>3 DEF Without, Over, AsSent
    <3>2. ~Uncommitted(id)
      BY <1>3, <2>3 DEF Uncommitted
    <3> QED BY <3>1, <3>2 DEF Safe, CacheHeld, Held
  <2> QED BY <2>2, <2>3
<1> QED BY <1>1, <1>3, <1>4 DEF Safe, InFlight, SavedHeld

LEMMA DeliverSafe ==
  ASSUME Types, Safe, NEW answered, Deliver(answered) PROVE Safe'
<1>1. /\ up /\ UNCHANGED <<up, cache, noticed, stage, send>> /\ queue # <<>>
      /\ pulse' = Over(pulse, Head(queue)) /\ (queue' = queue \/ queue' = Tail(queue))
  BY DEF Deliver
<1>2. \A id, v : Held(id, v) => LatestIn(queue', pulse', id, v)
  BY <1>1, DeliverKeeps DEF Types, Held
<1>3. CacheHeld'
  <2> SUFFICES ASSUME NEW id \in DOMAIN cache, ~noticed, ~Uncommitted(id)
               PROVE  LatestIn(queue', pulse', id, cache[id].value)
    BY <1>1 DEF CacheHeld, Held, Uncommitted
  <2> QED BY <1>2 DEF Safe, CacheHeld
<1>4. InFlight'
  <2> SUFFICES ASSUME NEW m \in Lanes, stage[m] = "queued", NEW id \in DOMAIN send[m], ~noticed
               PROVE  LatestIn(queue', pulse', id, send[m][id])
    BY <1>1 DEF InFlight, Held
  <2> QED BY <1>2 DEF Safe, InFlight
<1> QED BY <1>1, <1>3, <1>4 DEF Safe, SavedHeld

(* A stop and a crash outside the windows: nothing is pending, and what is *)
(* on disk is what the cache held.                                         *)
LEMMA EndsSafe ==
  ASSUME Types, Safe, NEW how, Ends(how), ~noticed, \A l \in Lanes : stage[l] # "queued",
         \A id \in DOMAIN saved' : id \in DOMAIN cache /\ saved'[id] = cache[id]
  PROVE  Safe'
<1>1. /\ UNCHANGED <<queue, pulse>> /\ DOMAIN cache' = {}
      /\ \A l \in Lanes : stage'[l] # "queued"
  BY EmptyType DEF Ends
<1>2. \A id \in DOMAIN cache : LatestIn(queue, pulse, id, cache[id].value)
  BY DEF Safe, CacheHeld, Held, Uncommitted
<1> QED BY <1>1, <1>2 DEF Safe, CacheHeld, InFlight, SavedHeld, Held

LEMMA StartSafe ==
  ASSUME Types, Down, Safe, Start PROVE Safe'
<1>1. /\ ~up /\ up' = TRUE /\ cache' = saved /\ UNCHANGED <<pulse, stage>>
      /\ \A l \in Lanes : stage[l] # "queued"
  BY DEF Start, Down
<1>2. PICK k \in 0 .. Len(queue) : DropOldest(k) /\ queue' = Rest(k)
  BY DEF Start
<1>3. CASE k > 0
  <2>1. noticed'
    BY <1>2, <1>3 DEF DropOldest
  <2> QED BY <1>1, <2>1 DEF Safe, CacheHeld, InFlight, SavedHeld
<1>4. CASE k = 0
  <2>1. queue' = queue
    BY <1>2, <1>4, RestType DEF Types
  <2> QED BY <1>1, <2>1 DEF Safe, CacheHeld, InFlight, SavedHeld, Held
<1> QED BY <1>3, <1>4

(* Age changes when entries are due, not what they say. *)
LEMMA AgeSafe ==
  ASSUME Types, Safe, NEW id \in Ids, Age(id) PROVE Safe'
<1>1. UNCHANGED <<up, queue, pulse, noticed, stage, send>>
  BY DEF Age
<1>2. DOMAIN cache' = DOMAIN cache /\ \A i \in DOMAIN cache : cache'[i].value = cache[i].value
  BY DueType DEF Types, Age
<1>3. DOMAIN saved' = DOMAIN saved /\ \A i \in DOMAIN saved : saved'[i].value = saved[i].value
  BY DueType DEF Types, Age
<1> QED BY <1>1, <1>2, <1>3 DEF Safe, CacheHeld, InFlight, SavedHeld, Held, Uncommitted

LEMMA StepSafe ==
  ASSUME Types, Down, ~exposed => Safe, [Next]_vars, ~exposed' PROVE Safe'
<1>1. ASSUME NEW l \in Lanes, LaneStep(l) PROVE Safe'
  <2>1. Safe
    BY <1>1 DEF LaneStep, FilterStates, Enqueue, EnqueueRefuses, EnqueueFails, Commit
  <2>2. CASE EnqueueRefuses(l)
    BY <2>2 DEF EnqueueRefuses, Safe, CacheHeld, InFlight, SavedHeld
  <2> QED
    BY <1>1, <2>1, <2>2, FilterStatesSafe, EnqueueSafe, EnqueueFailsSafe, CommitSafe
    DEF LaneStep
<1>2. ASSUME NEW l \in Lanes, NEW S, Collect(l, S) PROVE Safe'
  <2>1. /\ UNCHANGED <<up, cache, saved, send, queue, noticed, pulse>> /\ Safe
        /\ \A m \in Lanes : stage'[m] = "queued" <=> stage[m] = "queued"
    BY <1>2 DEF Collect, Enter, Types
  <2> QED BY <2>1 DEF Safe, CacheHeld, InFlight, SavedHeld, Held, Uncommitted
<1>3. ASSUME NEW answered, Deliver(answered) PROVE Safe'
  BY <1>3, DeliverSafe DEF Deliver
<1>4. CASE Expire \/ Reject
  <2>1. noticed' /\ up'
    BY <1>4 DEF Expire, Reject, DropOldest
  <2> QED BY <2>1 DEF Safe, CacheHeld, InFlight, SavedHeld
<1>5. CASE Stop
  <2>1. Safe /\ ~noticed /\ Ends("clean") /\ \A l \in Lanes : stage[l] = "idle"
    BY <1>5 DEF Stop, Exposed
  <2>2. saved' = cache \/ \E F : saved' = Without(cache, F)
    BY <1>5 DEF Stop, Exposed
  <2>3. \A id \in DOMAIN saved' : id \in DOMAIN cache /\ saved'[id] = cache[id]
    BY <2>2 DEF Without
  <2> QED BY <2>1, <2>3, EndsSafe
<1>6. CASE Crash
  <2>1. Safe /\ ~noticed /\ saved = cache /\ Free /\ Ends("crash") /\ saved' = saved
    BY <1>6 DEF Crash, Exposed
  <2>2. \A l \in Lanes : stage[l] # "queued"
    BY <2>1 DEF Free
  <2> QED BY <2>1, <2>2, EndsSafe
<1>7. CASE Start
  BY <1>7, StartSafe DEF Start
<1>8. ASSUME NEW id \in Ids, Age(id) PROVE Safe'
  BY <1>8, AgeSafe DEF Age
<1>9. CASE Change \/ UNCHANGED vars
  <2>1. /\ UNCHANGED <<up, cache, saved, stage, send, queue, noticed, pulse>> /\ Safe
    BY <1>9 DEF Change, vars
  <2> QED BY <2>1 DEF Safe, CacheHeld, InFlight, SavedHeld, Held, Uncommitted
<1> QED BY <1>1, <1>2, <1>3, <1>4, <1>5, <1>6, <1>7, <1>8, <1>9 DEF Next
-----------------------------------------------------------------------------
LEMMA InitInv == ASSUME Init PROVE IInv
<1>1. Types
  BY InitTypes
<1>2. DOMAIN cache = {} /\ up /\ \A l \in Lanes : stage[l] = "idle"
  BY EmptyType DEF Init
<1> QED BY <1>1, <1>2 DEF IInv, Down, Safe, CacheHeld, InFlight, SavedHeld

LEMMA StepInv == ASSUME IInv, [Next]_vars PROVE IInv'
<1>1. Types'
  BY StepTypes DEF IInv
<1>2. Down'
  BY StepDown DEF IInv
<1>3. ~exposed' => Safe'
  BY StepSafe DEF IInv
<1> QED BY <1>1, <1>2, <1>3 DEF IInv

LEMMA InvTypes == ASSUME Types PROVE TypeOK
<1> DEFINE Holding == {l \in Lanes : stage[l] \in {"filtered", "queued"}}
<1>1. Cardinality(Holding) <= 1
  <2>1. CASE Holding = {}
    BY <2>1, FS_EmptySet
  <2>2. CASE Holding # {}
    <3>1. PICK l : l \in Holding
      BY <2>2
    <3>2. Holding = {l}
      BY <3>1 DEF Types, Exclusive
    <3>3. Cardinality({l}) = 1
      BY FS_Singleton
    <3> HIDE DEF Holding
    <3> QED BY <3>2, <3>3
  <2> QED BY <2>1, <2>2
<1>2. \A i \in DOMAIN queue : queue[i] \in Part
  BY LenProperties DEF Types
<1> QED BY <1>1, <1>2 DEF Types, TypeOK, Part

LEMMA InvCovered == ASSUME Types, CacheHeld PROVE Covered
<1> SUFFICES ASSUME NEW id \in DOMAIN cache, Held(id, cache[id].value)
             PROVE  Latest(id, cache[id].value)
  BY DEF CacheHeld, Covered
<1> DEFINE v == cache[id].value
<1>1. \A i : i \in Holders(id) <=> i \in DOMAIN queue /\ Has(queue, i, id)
  BY DEF Holders, Has
<1>2. Held(id, v)
  OBVIOUS
<1> HIDE DEF v
<1>3. Latest(id, v)
  BY <1>1, <1>2 DEF Held, LatestIn, Latest
<1> QED BY <1>3 DEF v

LEMMA Invariant == Spec => []IInv
<1>1. Init => IInv
  BY InitInv
<1>2. IInv /\ [Next]_vars => IInv'
  BY StepInv
<1> QED BY <1>1, <1>2, PTL DEF Spec

(* The types hold, and queueMu admits one lane at a time, whatever ends    *)
(* the process and whatever fails.                                         *)
THEOREM TypeCorrect == Spec => []TypeOK
<1>1. IInv => TypeOK
  BY InvTypes DEF IInv
<1> QED BY <1>1, Invariant, PTL

(* A state held back by the cache is the one Pulse has or is about to get, *)
(* or the notice that clears the cache is pending: however many parts the  *)
(* spool drops or Pulse refuses, and over every restart outside the        *)
(* windows that `exposed` names.                                           *)
THEOREM SuppressionIsCovered == Spec => []SuppressedIsCovered
<1>1. IInv => SuppressedIsCovered
  BY InvCovered DEF IInv, Safe, SuppressedIsCovered
<1> QED BY <1>1, Invariant, PTL
=============================================================================
