----------------------------- MODULE HostProofs -----------------------------
(***************************************************************************)
(* The safety properties of the host's programs, see Host, for every value *)
(* of the constants that its assumptions admit: any collectors with any    *)
(* timeouts and cadences, any journal, any targets and answers, any        *)
(* outputs and limits, any files.                                          *)
(*                                                                         *)
(* Each program has an inductive invariant in its own module; a program's  *)
(* section shows that its first states satisfy it, that its steps keep it  *)
(* and that it implies the property.  The last section puts the programs   *)
(* together.                                                               *)
(***************************************************************************)
EXTENDS Host, SumTheorems, SequenceTheorems
-----------------------------------------------------------------------------
(* The runner (Runner) *)

LEMMA TotalIs == \A f, S : RN!SumFunctionOnSet(f, S) = SumFunctionOnSet(f, S)
BY DEF RN!SumFunctionOnSet, RN!FoldFunctionOnSet, RN!MapThenFoldSet, SumFunctionOnSet,
       FoldFunctionOnSet, MapThenFoldSet

(* The order of all collectors: the fast ones, then the slow ones. *)
LEMMA Places ==
  /\ \E m, n \in Nat :
       /\ DOMAIN RN!All = 1 .. m + n /\ RN!ToSet(Fast) = {RN!All[i] : i \in 1 .. m}
       /\ RN!SlowSet = {RN!All[i] : i \in m + 1 .. m + n}
       /\ \A i, j \in 1 .. m + n : RN!All[i] = RN!All[j] => i = j
       /\ \A i \in 1 .. m + n : RN!All[i] \in DOMAIN Timeouts
  /\ RN!AllSet = {RN!All[i] : i \in DOMAIN RN!All}
<1> DEFINE all == Fast \o Slow
           m == Len(Fast)
           n == Len(Slow)
<1>1. /\ m \in Nat /\ n \in Nat /\ DOMAIN Fast = 1 .. m
      /\ DOMAIN Slow = 1 .. n /\ DOMAIN all = 1 .. m + n
      /\ \A i \in 1 .. m : all[i] = Fast[i]
      /\ \A i \in m + 1 .. m + n : all[i] = Slow[i - m]
      /\ \A i \in 1 .. m + n : all[i] \in DOMAIN Timeouts
  <2>1. /\ all \in Seq(DOMAIN Timeouts) /\ Len(all) = m + n
        /\ \A i \in 1 .. m + n : all[i] = IF i <= m THEN Fast[i] ELSE Slow[i - m]
    BY RunnerAssumption, ConcatProperties
  <2>2. m \in Nat /\ n \in Nat /\ DOMAIN Fast = 1 .. m /\ DOMAIN Slow = 1 .. n
    BY RunnerAssumption
  <2> HIDE DEF all, m, n
  <2>3. \A i \in 1 .. m : all[i] = Fast[i]
    BY <2>1, <2>2
  <2>4. \A i \in m + 1 .. m + n : all[i] = Slow[i - m]
    BY <2>1, <2>2
  <2>5. DOMAIN all = 1 .. m + n
    BY <2>1 DEF all, m, n
  <2>6. \A i \in 1 .. m + n : all[i] \in DOMAIN Timeouts
    BY <2>1, <2>2
  <2> QED BY <2>2, <2>3, <2>4, <2>5, <2>6
<1>2. /\ RN!AllSet = {RN!All[i] : i \in DOMAIN RN!All} /\ RN!SlowSet = {Slow[i] : i \in 1 .. n}
      /\ RN!ToSet(Fast) = {Fast[i] : i \in 1 .. m} /\ RN!All = all
  BY <1>1 DEF RN!AllSet, RN!SlowSet, RN!All, RN!ToSet
<1>3. \A i, j \in 1 .. m + n : all[i] = all[j] => i = j
  BY <1>1, RunnerAssumption
<1> HIDE DEF all, m, n
<1>4. \A i \in 1 .. n : i + m \in m + 1 .. m + n /\ i + m \in 1 .. m + n /\ all[i + m] = Slow[i]
  BY <1>1
<1>5. RN!SlowSet = {all[i] : i \in m + 1 .. m + n}
  <2>1. \A i \in m + 1 .. m + n : i - m \in 1 .. n
    BY <1>1
  <2> QED BY <1>1, <1>2, <1>4, <2>1
<1>6. RN!ToSet(Fast) = {all[i] : i \in 1 .. m}
  BY <1>1, <1>2
<1>7. /\ DOMAIN RN!All = 1 .. m + n /\ RN!ToSet(Fast) = {RN!All[i] : i \in 1 .. m}
      /\ RN!SlowSet = {RN!All[i] : i \in m + 1 .. m + n}
      /\ \A i, j \in 1 .. m + n : RN!All[i] = RN!All[j] => i = j
      /\ \A i \in 1 .. m + n : RN!All[i] \in DOMAIN Timeouts
  <2>1. RN!All = all
    BY <1>2
  <2>2. DOMAIN all = 1 .. m + n /\ \A i \in 1 .. m + n : all[i] \in DOMAIN Timeouts
    BY <1>1
  <2>3. RN!ToSet(Fast) = {RN!All[i] : i \in 1 .. m}
    BY <1>6, <2>1
  <2>4. RN!SlowSet = {RN!All[i] : i \in m + 1 .. m + n}
    BY <1>5, <2>1
  <2>5. \A i, j \in 1 .. m + n : RN!All[i] = RN!All[j] => i = j
    BY <1>3, <2>1
  <2>6. DOMAIN RN!All = 1 .. m + n /\ \A i \in 1 .. m + n : RN!All[i] \in DOMAIN Timeouts
    BY <2>1, <2>2
  <2> QED BY <2>3, <2>4, <2>5, <2>6
<1> QED BY <1>1, <1>2, <1>7

LEMMA Collectors ==
  /\ RN!AllSet \subseteq DOMAIN Timeouts /\ RN!AllSet = RN!ToSet(Fast) \cup RN!SlowSet
  /\ RN!ToSet(Fast) \cap RN!SlowSet = {}
  /\ \A c \in RN!SlowSet : Cadence[c] \in Nat /\ Cadence[c] > Interval
<1>1. PICK m, n \in Nat :
       /\ DOMAIN RN!All = 1 .. m + n /\ RN!ToSet(Fast) = {RN!All[i] : i \in 1 .. m}
       /\ RN!SlowSet = {RN!All[i] : i \in m + 1 .. m + n}
       /\ \A i, j \in 1 .. m + n : RN!All[i] = RN!All[j] => i = j
       /\ \A i \in 1 .. m + n : RN!All[i] \in DOMAIN Timeouts
  BY Places
<1>2. /\ 1 .. m \subseteq 1 .. m + n /\ m + 1 .. m + n \subseteq 1 .. m + n
      /\ \A i \in 1 .. m + n : i \in 1 .. m \/ i \in m + 1 .. m + n
      /\ \A i \in 1 .. m, j \in m + 1 .. m + n : i # j
  OBVIOUS
<1>3. RN!AllSet = {RN!All[i] : i \in 1 .. m + n}
  BY <1>1, Places
<1>4. \A c \in RN!SlowSet : Cadence[c] \in Nat /\ Cadence[c] > Interval
  BY RunnerAssumption DEF RN!SlowSet, RN!ToSet
<1> QED BY <1>1, <1>2, <1>3, <1>4

(* Of two collectors one precedes the other; the first of some precedes    *)
(* the rest.                                                                 *)
LEMMA Order ==
  /\ \A c, d \in RN!AllSet : RN!Precedes(c, d) => ~RN!Precedes(d, c) /\ c # d
  /\ \A c \in RN!SlowSet, d \in RN!AllSet : RN!Precedes(c, d) => d \in RN!SlowSet
  /\ \A cs \in SUBSET RN!AllSet : cs # {} =>
       RN!First(cs) \in cs /\ \A d \in cs \ {RN!First(cs)} : RN!Precedes(RN!First(cs), d)
<1>1. PICK m, n \in Nat :
       /\ DOMAIN RN!All = 1 .. m + n
       /\ RN!SlowSet = {RN!All[i] : i \in m + 1 .. m + n}
       /\ \A i, j \in 1 .. m + n : RN!All[i] = RN!All[j] => i = j
  BY Places
<1>2. RN!AllSet = {RN!All[i] : i \in 1 .. m + n}
  BY <1>1, Places
<1>3. ASSUME NEW c \in RN!AllSet, NEW d \in RN!AllSet, RN!Precedes(c, d)
      PROVE  ~RN!Precedes(d, c) /\ c # d /\ (c \in RN!SlowSet => d \in RN!SlowSet)
  <2>1. PICK i, j \in 1 .. m + n : i < j /\ RN!All[i] = c /\ RN!All[j] = d
    BY <1>1, <1>3 DEF RN!Precedes
  <2>2. \A k, l \in 1 .. m + n : RN!All[k] = d /\ RN!All[l] = c => ~(k < l)
    BY <1>1, <2>1
  <2>3. c # d
    BY <1>1, <2>1
  <2>4. ASSUME c \in RN!SlowSet PROVE d \in RN!SlowSet
    <3>1. PICK k \in m + 1 .. m + n : RN!All[k] = c
      BY <1>1, <2>4
    <3>2. i = k
      BY <1>1, <2>1, <3>1
    <3>3. j \in m + 1 .. m + n
      BY <2>1, <3>2
    <3> QED BY <1>1, <2>1, <3>3
  <2> QED BY <1>1, <2>2, <2>3, <2>4 DEF RN!Precedes
<1>4. ASSUME NEW cs \in SUBSET RN!AllSet, cs # {}
      PROVE  RN!First(cs) \in cs /\ \A d \in cs \ {RN!First(cs)} : RN!Precedes(RN!First(cs), d)
  <2> DEFINE T == {i \in 1 .. m + n : RN!All[i] \in cs}
  <2>1. T \in SUBSET Nat /\ T # {}
    BY <1>2, <1>4
  <2>2. PICK p \in T : \A q \in T : p <= q
    <3> HIDE DEF T
    <3> QED BY <2>1, LeastNat
  <2>3. RN!All[p] \in cs /\ \A d \in cs \ {RN!All[p]} : RN!Precedes(RN!All[p], d)
    <3>1. ASSUME NEW d \in cs \ {RN!All[p]} PROVE RN!Precedes(RN!All[p], d)
      <4>1. PICK q \in 1 .. m + n : RN!All[q] = d
        BY <1>2
      <4>2. p < q
        BY <2>2, <4>1
      <4> QED BY <1>1, <2>2, <4>1, <4>2 DEF RN!Precedes
    <3> QED BY <2>2, <3>1
  <2>4. \E c \in cs : \A d \in cs \ {c} : RN!Precedes(c, d)
    BY <2>3
  <2> QED BY <2>4 DEF RN!First
<1> QED BY <1>3, <1>4, Collectors

(* What some collectors may take. *)
LEMMA Totals ==
  /\ RN!Total({}) = 0
  /\ \A cs \in SUBSET RN!AllSet : RN!Total(cs) \in Nat
  /\ \A cs \in SUBSET RN!AllSet : \A c \in cs :
       Timeouts[c] \in Nat \ {0} /\ RN!Total(cs) = Timeouts[c] + RN!Total(cs \ {c})
  /\ \A cs \in SUBSET RN!AllSet : \A ds \in SUBSET cs : RN!Total(ds) <= RN!Total(cs)
<1>1. /\ RN!AllSet \subseteq DOMAIN Timeouts /\ IsFiniteSet(DOMAIN Timeouts)
      /\ Timeouts \in [DOMAIN Timeouts -> Int] /\ Timeouts \in [DOMAIN Timeouts -> Nat]
      /\ \A c \in DOMAIN Timeouts : Timeouts[c] \in Nat \ {0}
  BY RunnerAssumption, Collectors
<1>2. \A cs : RN!Total(cs) = SumFunctionOnSet(Timeouts, cs)
  BY TotalIs DEF RN!Total
<1>3. RN!Total({}) = 0
  BY <1>1, <1>2, SumNothing
<1>4. \A cs \in SUBSET RN!AllSet : \A ds \in SUBSET cs : RN!Total(ds) <= RN!Total(cs)
  BY <1>1, <1>2, SumGrows
<1>5. \A cs \in SUBSET RN!AllSet : RN!Total(cs) \in Int
  BY <1>1, <1>2, SumIsInt
<1>6. \A cs \in SUBSET RN!AllSet : RN!Total(cs) \in Nat
  <2>1. \A cs \in SUBSET RN!AllSet : {} \in SUBSET cs
    OBVIOUS
  <2>2. \A cs \in SUBSET RN!AllSet : 0 <= RN!Total(cs)
    BY <1>3, <1>4, <2>1
  <2> QED BY <1>5, <2>2
<1>7. \A cs \in SUBSET RN!AllSet : \A c \in cs :
        Timeouts[c] \in Nat \ {0} /\ RN!Total(cs) = Timeouts[c] + RN!Total(cs \ {c})
  <2> SUFFICES ASSUME NEW cs \in SUBSET RN!AllSet, NEW c \in cs
               PROVE  Timeouts[c] \in Nat \ {0} /\ RN!Total(cs) = Timeouts[c] + RN!Total(cs \ {c})
    OBVIOUS
  <2>1. cs \in SUBSET (DOMAIN Timeouts) /\ c \in DOMAIN Timeouts
    BY <1>1
  <2>2. SumFunctionOnSet(Timeouts, cs) = Timeouts[c] + SumFunctionOnSet(Timeouts, cs \ {c})
    BY <1>1, <2>1, SumAddOne
  <2> QED BY <1>1, <1>2, <2>1, <2>2
<1> QED BY <1>3, <1>4, <1>6, <1>7

(* The ticker's phase and half an interval. *)
LEMMA Phases ==
  /\ \A p \in 0 .. Interval - 1 :
       (p + 1) % Interval = IF p + 1 = Interval THEN 0 ELSE p + 1
  /\ Interval \div 2 \in Nat /\ Interval \div 2 <= Interval
<1>1. Interval \in Nat /\ Interval > 0
  BY RunnerAssumption
<1>2. Interval \div 2 \in Nat /\ Interval \div 2 <= Interval
  BY <1>1
<1>3. \A p \in 0 .. Interval - 1 : p + 1 < Interval => (p + 1) % Interval = p + 1
  BY <1>1
<1>4. Interval % Interval = 0
  BY <1>1
<1>5. \A p \in 0 .. Interval - 1 : p + 1 < Interval \/ p + 1 = Interval
  BY <1>1
<1> QED BY <1>1, <1>2, <1>3, <1>4, <1>5

(* What a lane and a record are. *)
LEMMA Ranges ==
  ASSUME RN!TypeOK, RN!Modes
  PROVE  /\ \A l \in RN!Lanes :
              /\ at[l] \in {"off", "waiting", "pass", "running", "queueing", "stopped"}
              /\ todo[l] \in SUBSET RN!AllSet /\ todo[l] \subseteq RN!Members(l)
              /\ at[l] = "running" => todo[l] # {}
              /\ spent[l] \in Nat /\ passAge[l] \in Nat /\ tick[l] \in BOOLEAN
              /\ RN!Members(l) \in SUBSET RN!AllSet
         /\ \A c \in RN!SlowSet :
              /\ sinceRun[c] \in -1 .. Cadence[c] /\ sinceTimeout[c] \in -1 .. Cadence[c]
              /\ sinceStart[c] \in -1 .. RN!Eldest(c) /\ outcome[c] \in {"ok", "failed", "timeout"}
              /\ c \in RN!AllSet
         /\ phase \in 0 .. Interval - 1 /\ sinceDone \in Nat /\ stopped \in BOOLEAN
BY Collectors DEF RN!TypeOK, RN!Modes, RN!Members, RN!Lanes, RN!Never

(* The other lanes of a step. *)
Alike(l) ==
  /\ at'[l] = at[l] /\ todo'[l] = todo[l] /\ spent'[l] = spent[l]
  /\ passAge'[l] = passAge[l] /\ tick'[l] = tick[l]

LEMMA TurnIs ==
  ASSUME NEW l \in RN!Lanes PROVE RN!Turn(l) \in SUBSET RN!AllSet /\ RN!Turn(l) \subseteq RN!Members(l)
BY Collectors DEF RN!Turn, RN!Members, RN!Lanes

LEMMA BeginDoes ==
  ASSUME RN!TypeOK, RN!Modes, NEW l \in RN!Lanes, RN!Begin(l)
  PROVE  /\ at[l] = "waiting" /\ tick[l] /\ at'[l] = "pass" /\ ~tick'[l] /\ passAge'[l] = 0
         /\ todo'[l] = RN!Turn(l) /\ spent'[l] = spent[l]
         /\ \A m \in RN!Lanes \ {l} : Alike(m)
         /\ UNCHANGED <<phase, sinceRun, sinceTimeout, outcome, sinceStart, sinceDone, stopped>>
         /\ RN!TypeOK' /\ RN!Modes'
<1>1. /\ at[l] = "waiting" /\ tick[l] /\ at'[l] = "pass" /\ ~tick'[l] /\ passAge'[l] = 0
      /\ todo'[l] = RN!Turn(l) /\ spent'[l] = spent[l]
      /\ \A m \in RN!Lanes \ {l} : Alike(m)
      /\ UNCHANGED <<phase, sinceRun, sinceTimeout, outcome, sinceStart, sinceDone, stopped>>
  BY DEF RN!TypeOK, RN!Begin, RN!Enter, RN!records, Alike
<1>2. RN!TypeOK'
  BY <1>1, TurnIs DEF RN!TypeOK, RN!Begin, RN!Enter, Alike
<1>3. RN!Modes'
  BY <1>1, TurnIs DEF RN!Modes, RN!Service, RN!Lanes, Alike
<1> QED BY <1>1, <1>2, <1>3

LEMMA StartDoes ==
  ASSUME RN!TypeOK, RN!Modes, NEW l \in RN!Lanes, RN!Start(l)
  PROVE  /\ at[l] = "pass" /\ todo[l] # {} /\ ~RN!Ended(l) /\ at'[l] = "running"
         /\ spent'[l] = 0 /\ todo'[l] = todo[l] /\ passAge'[l] = passAge[l] /\ tick'[l] = tick[l]
         /\ \A c \in RN!SlowSet :
              sinceStart'[c] = IF c = RN!First(todo[l]) THEN 0 ELSE sinceStart[c]
         /\ \A m \in RN!Lanes \ {l} : Alike(m)
         /\ UNCHANGED <<phase, sinceRun, sinceTimeout, outcome, sinceDone, stopped>>
         /\ RN!First(todo[l]) \notin RN!SlowSet => UNCHANGED sinceStart
         /\ RN!TypeOK' /\ RN!Modes'
<1>1. /\ at[l] = "pass" /\ todo[l] # {} /\ ~RN!Ended(l) /\ at'[l] = "running"
      /\ spent'[l] = 0 /\ todo'[l] = todo[l] /\ passAge'[l] = passAge[l] /\ tick'[l] = tick[l]
      /\ \A m \in RN!Lanes \ {l} : Alike(m)
      /\ UNCHANGED <<phase, sinceRun, sinceTimeout, outcome, sinceDone, stopped>>
  BY DEF RN!TypeOK, RN!Start, RN!Enter, RN!records, Alike
<1>2. /\ sinceStart' \in [RN!SlowSet -> Int]
      /\ RN!First(todo[l]) \notin RN!SlowSet => UNCHANGED sinceStart
      /\ \A c \in RN!SlowSet : sinceStart'[c] = IF c = RN!First(todo[l]) THEN 0 ELSE sinceStart[c]
  <2>1. sinceStart \in [RN!SlowSet -> Int]
    BY DEF RN!Modes
  <2>2. sinceStart' = IF RN!First(todo[l]) \in RN!SlowSet
                      THEN [sinceStart EXCEPT ![RN!First(todo[l])] = 0] ELSE sinceStart
    BY DEF RN!Start
  <2> QED BY <2>1, <2>2
<1>3. \A c \in RN!SlowSet : sinceStart'[c] \in RN!Never .. RN!Eldest(c)
  <2>1. \A c \in RN!SlowSet : RN!Eldest(c) \in Nat
    BY Collectors, Totals, RunnerAssumption DEF RN!Eldest
  <2>2. \A c \in RN!SlowSet : sinceStart[c] \in RN!Never .. RN!Eldest(c)
    BY DEF RN!TypeOK
  <2> QED BY <1>2, <2>1, <2>2 DEF RN!Never
<1>4. RN!TypeOK'
  BY <1>1, <1>3 DEF RN!TypeOK, RN!Start, RN!Enter, RN!records, Alike
<1>5. RN!Modes'
  BY <1>1, <1>2 DEF RN!Modes, RN!Service, RN!Lanes, Alike
<1> QED BY <1>1, <1>2, <1>4, <1>5

LEMMA EndPassDoes ==
  ASSUME RN!TypeOK, RN!Modes, NEW l \in RN!Lanes, RN!EndPass(l)
  PROVE  /\ at[l] = "pass" /\ (todo[l] = {} \/ RN!Ended(l))
         /\ at'[l] = CASE l = "fast" -> "queueing"
                       [] l = "slow" -> IF stopped THEN "stopped" ELSE "waiting"
                       [] l = "all" -> "stopped"
         /\ spent'[l] = 0 /\ passAge'[l] = 0 /\ tick'[l] = tick[l] /\ todo'[l] = todo[l]
         /\ \A m \in RN!Lanes \ {l} : Alike(m)
         /\ UNCHANGED <<phase, sinceRun, sinceTimeout, outcome, sinceStart, sinceDone, stopped>>
         /\ RN!TypeOK' /\ RN!Modes'
<1>1. /\ at[l] = "pass" /\ (todo[l] = {} \/ RN!Ended(l))
      /\ at' = [at EXCEPT ![l] = CASE l = "fast" -> "queueing"
                                   [] l = "slow" -> IF stopped THEN "stopped" ELSE "waiting"
                                   [] l = "all" -> "stopped"]
      /\ spent' = [spent EXCEPT ![l] = 0] /\ passAge' = [passAge EXCEPT ![l] = 0]
      /\ UNCHANGED <<tick, todo>>
      /\ UNCHANGED <<phase, sinceRun, sinceTimeout, outcome, sinceStart, sinceDone, stopped>>
  BY DEF RN!EndPass, RN!Enter, RN!records
<1>2. /\ at'[l] = CASE l = "fast" -> "queueing"
                    [] l = "slow" -> IF stopped THEN "stopped" ELSE "waiting"
                    [] l = "all" -> "stopped"
      /\ spent'[l] = 0 /\ passAge'[l] = 0 /\ tick'[l] = tick[l] /\ todo'[l] = todo[l]
      /\ \A m \in RN!Lanes \ {l} : Alike(m)
  BY <1>1 DEF RN!TypeOK, Alike
<1>3. at'[l] \in {"queueing", "stopped", "waiting"}
  BY <1>2 DEF RN!Lanes
<1>4. RN!TypeOK'
  BY <1>1, <1>2, <1>3 DEF RN!TypeOK, Alike
<1>5. RN!Modes'
  BY <1>1, <1>2 DEF RN!Modes, RN!Service, RN!Lanes, Alike
<1> QED BY <1>1, <1>2, <1>4, <1>5

LEMMA ReturnDoes ==
  ASSUME RN!TypeOK, RN!Modes, NEW l \in RN!Lanes, NEW ending \in {"ok", "failed", "timeout"},
         RN!Return(l, ending), NEW c, c = RN!First(todo[l])
  PROVE  /\ at[l] = "running" /\ at'[l] = "pass" /\ todo'[l] = todo[l] \ {c}
         /\ spent'[l] = spent[l] /\ passAge'[l] = passAge[l] /\ tick'[l] = tick[l]
         /\ stopped => ending = "failed"
         /\ \A m \in RN!Lanes \ {l} : Alike(m)
         /\ UNCHANGED <<phase, sinceStart, sinceDone, stopped>>
         /\ c \in todo[l] /\ c \in RN!AllSet
         /\ c \notin RN!SlowSet => UNCHANGED <<sinceRun, sinceTimeout, outcome>>
         /\ \A d \in RN!SlowSet \ {c} :
              sinceRun'[d] = sinceRun[d] /\ sinceTimeout'[d] = sinceTimeout[d] /\ outcome'[d] = outcome[d]
         /\ c \in RN!SlowSet => LET age == RN!Lower(passAge[l], Cadence[c]) IN
              /\ outcome'[c] = ending
              /\ sinceRun'[c] = IF ending = "ok" THEN age ELSE sinceRun[c]
              /\ sinceTimeout'[c] = IF ending = "ok" THEN -1
                                     ELSE IF ending = "timeout" THEN age ELSE sinceTimeout[c]
         /\ RN!TypeOK' /\ RN!Modes'
<1>1. /\ at[l] = "running" /\ at'[l] = "pass" /\ todo'[l] = todo[l] \ {c}
      /\ spent'[l] = spent[l] /\ passAge'[l] = passAge[l] /\ tick'[l] = tick[l]
      /\ stopped => ending = "failed"
      /\ \A m \in RN!Lanes \ {l} : Alike(m)
      /\ UNCHANGED <<phase, sinceStart, sinceDone, stopped>>
  BY DEF RN!TypeOK, RN!Return, RN!Enter, Alike
<1>2. c \in todo[l] /\ c \in RN!AllSet
  BY <1>1, Order, Ranges
<1> DEFINE age == RN!Lower(passAge[l], Cadence[c])
<1>3. IF c \in RN!SlowSet
      THEN /\ outcome' = [outcome EXCEPT ![c] = ending]
           /\ sinceRun' = IF ending = "ok" THEN [sinceRun EXCEPT ![c] = age] ELSE sinceRun
           /\ sinceTimeout' = IF ending = "ok" THEN [sinceTimeout EXCEPT ![c] = -1]
                              ELSE IF ending = "timeout" THEN [sinceTimeout EXCEPT ![c] = age]
                              ELSE sinceTimeout
      ELSE UNCHANGED <<sinceRun, sinceTimeout, outcome>>
  BY DEF RN!Return, RN!Record, RN!KeepsCadence, RN!records, RN!Never
<1>4. c \in RN!SlowSet => age \in 0 .. Cadence[c]
  <2>1. c \in RN!SlowSet => Cadence[c] \in Nat
    BY Collectors
  <2>2. passAge[l] \in Nat
    BY Ranges
  <2> QED BY <2>1, <2>2 DEF RN!Lower
<1>5. /\ sinceRun \in [RN!SlowSet -> Int] /\ sinceTimeout \in [RN!SlowSet -> Int]
      /\ outcome \in [RN!SlowSet -> {"ok", "failed", "timeout"}] /\ sinceStart \in [RN!SlowSet -> Int]
  BY DEF RN!Modes
<1> HIDE DEF age
<1>6. c \notin RN!SlowSet => UNCHANGED <<sinceRun, sinceTimeout, outcome>>
  BY <1>3
<1>7. \A d \in RN!SlowSet \ {c} :
        sinceRun'[d] = sinceRun[d] /\ sinceTimeout'[d] = sinceTimeout[d] /\ outcome'[d] = outcome[d]
  BY <1>3, <1>5
<1>8. c \in RN!SlowSet =>
        /\ outcome'[c] = ending
        /\ sinceRun'[c] = IF ending = "ok" THEN age ELSE sinceRun[c]
        /\ sinceTimeout'[c] = IF ending = "ok" THEN -1
                               ELSE IF ending = "timeout" THEN age ELSE sinceTimeout[c]
  BY <1>3, <1>5
<1>9. /\ sinceRun' \in [RN!SlowSet -> Int] /\ sinceTimeout' \in [RN!SlowSet -> Int]
      /\ outcome' \in [RN!SlowSet -> {"ok", "failed", "timeout"}]
  BY <1>3, <1>4, <1>5
<1>10. RN!TypeOK'
  <2>1. \A d \in RN!SlowSet :
          /\ sinceRun[d] \in RN!Never .. Cadence[d] /\ sinceTimeout[d] \in RN!Never .. Cadence[d]
          /\ sinceStart[d] \in RN!Never .. RN!Eldest(d) /\ outcome[d] \in {"ok", "failed", "timeout"}
    BY DEF RN!TypeOK
  <2>2. \A d \in RN!SlowSet :
          sinceRun'[d] \in RN!Never .. Cadence[d] /\ sinceTimeout'[d] \in RN!Never .. Cadence[d]
    BY <1>4, <1>7, <1>8, <2>1, Collectors DEF RN!Never
  <2>3. /\ at' \in [RN!Lanes -> {"off", "waiting", "pass", "running", "queueing", "stopped"}]
        /\ todo' \in [RN!Lanes -> SUBSET RN!AllSet]
        /\ \A k \in RN!Lanes : at'[k] = "running" => todo'[k] # {}
    BY <1>1 DEF RN!TypeOK, RN!Return, RN!Enter, Alike
  <2>4. UNCHANGED <<spent, passAge, tick, phase, sinceStart, sinceDone, stopped>>
    BY DEF RN!Return
  <2> QED BY <1>9, <2>1, <2>2, <2>3, <2>4 DEF RN!TypeOK
<1>11. RN!Modes'
  BY <1>1, <1>5, <1>9 DEF RN!Modes, RN!Service, RN!Lanes, Alike
<1> QED BY <1>1, <1>2, <1>6, <1>7, <1>8, <1>10, <1>11 DEF age

LEMMA CompletedDoes ==
  ASSUME RN!TypeOK, RN!Modes, RN!Completed
  PROVE  /\ at["fast"] = "queueing" /\ at'["fast"] \in {"waiting", "stopped"}
         /\ at'["fast"] = (IF stopped THEN "stopped" ELSE "waiting") /\ sinceDone' = 0
         /\ \A m \in RN!Lanes \ {"fast"} : Alike(m)
         /\ UNCHANGED <<tick, phase, sinceRun, sinceTimeout, outcome, sinceStart, stopped>>
         /\ RN!TypeOK' /\ RN!Modes'
<1>1. /\ at["fast"] = "queueing" /\ at'["fast"] = (IF stopped THEN "stopped" ELSE "waiting")
      /\ sinceDone' = 0 /\ \A m \in RN!Lanes \ {"fast"} : Alike(m) /\ UNCHANGED <<todo, passAge, tick>>
      /\ UNCHANGED <<phase, sinceRun, sinceTimeout, outcome, sinceStart, stopped>>
  BY DEF RN!TypeOK, RN!Completed, RN!Enter, RN!records, Alike, RN!Lanes
<1>2. RN!TypeOK'
  BY <1>1 DEF RN!TypeOK, RN!Completed, RN!Enter, RN!Lanes
<1>3. RN!Modes'
  BY <1>1 DEF RN!Modes, RN!Service, RN!Lanes, Alike
<1>4. at'["fast"] \in {"waiting", "stopped"}
  BY <1>1
<1>5. UNCHANGED <<tick, phase, sinceRun, sinceTimeout, outcome, sinceStart, stopped>>
  BY DEF RN!Completed, RN!records
<1> QED BY <1>1, <1>2, <1>3, <1>4, <1>5

LEMMA StopDoes ==
  ASSUME RN!TypeOK, RN!Modes, RN!Stop
  PROVE  /\ stopped' /\ \A l \in RN!Lanes : at'[l] = IF at[l] = "waiting" THEN "stopped" ELSE at[l]
         /\ UNCHANGED <<todo, spent, passAge, tick, phase, sinceRun, sinceTimeout, outcome, sinceStart, sinceDone>>
         /\ RN!TypeOK' /\ RN!Modes'
<1>1. /\ stopped' = TRUE /\ \A l \in RN!Lanes : at'[l] = IF at[l] = "waiting" THEN "stopped" ELSE at[l]
      /\ UNCHANGED <<todo, spent, passAge, tick, phase, sinceRun, sinceTimeout, outcome, sinceStart, sinceDone>>
  BY DEF RN!Stop, RN!records
<1>2. RN!TypeOK'
  BY <1>1 DEF RN!TypeOK, RN!Stop
<1>3. RN!Modes'
  BY <1>1 DEF RN!Modes, RN!Service, RN!Lanes
<1> QED BY <1>1, <1>2, <1>3

LEMMA OlderIs ==
  ASSUME NEW age \in Int, NEW limit \in Nat, age \in -1 .. limit
  PROVE  /\ RN!Older(age, limit) \in -1 .. limit /\ RN!Older(age, limit) <= age + 1
         /\ RN!Older(age, limit) = -1 <=> age = -1
         /\ age # -1 => RN!Older(age, limit) = IF age < limit THEN age + 1 ELSE limit
BY DEF RN!Older, RN!Never, RN!Lower

LEMMA TickDoes ==
  ASSUME RN!TypeOK, RN!Modes, RN!Tick
  PROVE  /\ \A l \in RN!Lanes :
              /\ RN!MayWait(l) /\ at'[l] = at[l] /\ todo'[l] = todo[l]
              /\ tick'[l] = (tick[l] \/ phase' = 0)
              /\ spent'[l] = IF at[l] \in {"running", "queueing"} THEN spent[l] + 1 ELSE 0
              /\ passAge'[l] = IF at[l] = "running" THEN passAge[l] + 1 ELSE passAge[l]
         /\ \E l \in RN!Lanes : at[l] \notin {"off", "stopped"}
         /\ phase' = IF phase + 1 = Interval THEN 0 ELSE phase + 1
         /\ \A c \in RN!SlowSet :
              /\ sinceRun'[c] = RN!Older(sinceRun[c], Cadence[c])
              /\ sinceTimeout'[c] = RN!Older(sinceTimeout[c], Cadence[c])
              /\ sinceStart'[c] = RN!Older(sinceStart[c], RN!Eldest(c))
         /\ sinceDone' \in Nat /\ sinceDone' <= sinceDone + 1
         /\ UNCHANGED <<outcome, stopped>>
         /\ RN!TypeOK' /\ RN!Modes'
<1>1. /\ \A l \in RN!Lanes :
           /\ RN!MayWait(l) /\ at'[l] = at[l] /\ todo'[l] = todo[l]
           /\ tick'[l] = (tick[l] \/ phase' = 0)
           /\ spent'[l] = IF at[l] \in {"running", "queueing"} THEN spent[l] + 1 ELSE 0
           /\ passAge'[l] = IF at[l] = "running" THEN passAge[l] + 1 ELSE passAge[l]
      /\ \E l \in RN!Lanes : at[l] \notin {"off", "stopped"}
      /\ UNCHANGED <<at, todo, outcome, stopped>>
  BY DEF RN!Tick, RN!Active
<1>2. phase' = IF phase + 1 = Interval THEN 0 ELSE phase + 1
  BY Phases, Ranges DEF RN!Tick
<1>3. \A c \in RN!SlowSet :
        /\ sinceRun'[c] = RN!Older(sinceRun[c], Cadence[c])
        /\ sinceTimeout'[c] = RN!Older(sinceTimeout[c], Cadence[c])
        /\ sinceStart'[c] = RN!Older(sinceStart[c], RN!Eldest(c))
  BY DEF RN!Tick
<1>4. sinceDone' \in Nat /\ sinceDone' <= sinceDone + 1
  <2>1. sinceDone' = RN!Lower(sinceDone + 1, 4 * Interval + Grace)
    BY DEF RN!Tick
  <2>2. sinceDone \in Nat /\ 4 * Interval + Grace \in Nat
    BY Ranges, RunnerAssumption
  <2> QED BY <2>1, <2>2 DEF RN!Lower
<1>5. \A c \in RN!SlowSet :
        /\ sinceRun'[c] \in -1 .. Cadence[c] /\ sinceTimeout'[c] \in -1 .. Cadence[c]
        /\ sinceStart'[c] \in -1 .. RN!Eldest(c)
  <2> SUFFICES ASSUME NEW c \in RN!SlowSet
               PROVE  /\ sinceRun'[c] \in -1 .. Cadence[c] /\ sinceTimeout'[c] \in -1 .. Cadence[c]
                      /\ sinceStart'[c] \in -1 .. RN!Eldest(c)
    OBVIOUS
  <2>1. RN!Eldest(c) \in Nat /\ Cadence[c] \in Nat
    <3>1. Cadence[c] \in Nat /\ Interval \in Nat
      BY Collectors, RunnerAssumption
    <3>2. RN!Total(RN!SlowSet) \in Nat
      BY Collectors, Totals
    <3> QED BY <3>1, <3>2 DEF RN!Eldest
  <2>2. /\ sinceRun[c] \in -1 .. Cadence[c] /\ sinceTimeout[c] \in -1 .. Cadence[c]
        /\ sinceStart[c] \in -1 .. RN!Eldest(c)
    BY Ranges
  <2>6. sinceRun[c] \in Int /\ sinceTimeout[c] \in Int /\ sinceStart[c] \in Int
        /\ sinceRun[c] \in -1 .. Cadence[c] /\ sinceTimeout[c] \in -1 .. Cadence[c]
        /\ sinceStart[c] \in -1 .. RN!Eldest(c)
    BY <2>1, <2>2
  <2>3. RN!Older(sinceRun[c], Cadence[c]) \in -1 .. Cadence[c]
    BY <2>1, <2>6, OlderIs
  <2>4. RN!Older(sinceTimeout[c], Cadence[c]) \in -1 .. Cadence[c]
    BY <2>1, <2>6, OlderIs
  <2>5. RN!Older(sinceStart[c], RN!Eldest(c)) \in -1 .. RN!Eldest(c)
    BY <2>1, <2>6, OlderIs
  <2> QED BY <1>3, <2>3, <2>4, <2>5
<1>6. /\ spent' \in [RN!Lanes -> Nat] /\ passAge' \in [RN!Lanes -> Nat] /\ tick' \in [RN!Lanes -> BOOLEAN]
  <2>1. \A l \in RN!Lanes : spent'[l] \in Nat /\ passAge'[l] \in Nat
    BY <1>1, Ranges
  <2>2. \A l \in RN!Lanes : tick'[l] \in BOOLEAN
    BY <1>1
  <2>3. spent' = [l \in RN!Lanes |-> spent'[l]] /\ passAge' = [l \in RN!Lanes |-> passAge'[l]]
        /\ tick' = [l \in RN!Lanes |-> tick'[l]]
    BY DEF RN!Tick
  <2>4. spent' \in [RN!Lanes -> Nat] /\ passAge' \in [RN!Lanes -> Nat]
    BY <2>1, <2>3
  <2>5. tick' \in [RN!Lanes -> BOOLEAN]
    BY <2>2, <2>3, Zenon
  <2> QED BY <2>4, <2>5
<1>7. RN!TypeOK'
  <2>1. phase' \in 0 .. Interval - 1
    BY <1>2, Ranges, RunnerAssumption
  <2> QED BY <1>1, <1>4, <1>5, <1>6, <2>1 DEF RN!TypeOK, RN!Never
<1>8. RN!Modes'
  <2>1. /\ sinceRun' \in [RN!SlowSet -> Int] /\ sinceTimeout' \in [RN!SlowSet -> Int]
        /\ sinceStart' \in [RN!SlowSet -> Int]
    <3>1. \A c \in RN!SlowSet : sinceRun'[c] \in Int /\ sinceTimeout'[c] \in Int /\ sinceStart'[c] \in Int
      BY <1>5
    <3> QED BY <1>3, <3>1 DEF RN!Tick
  <2> QED BY <1>1, <2>1 DEF RN!Modes, RN!Service
<1> QED BY <1>1, <1>2, <1>3, <1>4, <1>7, <1>8

(* Timed, lane by lane. *)
TimedIn(l) ==
  /\ RN!InPass(l) => RN!Used(l) >= 0 /\ RN!Used(l) + RN!Total(todo[l]) <= RN!Total(RN!Members(l))
  /\ at[l] = "running" => spent[l] <= Timeouts[RN!First(todo[l])]

LEMMA TimedStays == ASSUME NEW l, TimedIn(l), Alike(l) PROVE TimedIn(l)'
BY DEF TimedIn, Alike, RN!InPass, RN!Used

LEMMA TimedStep ==
  ASSUME RN!TypeOK, RN!Modes, RN!Timed, RN!Next PROVE RN!Timed'
<1> USE Ranges
<1>1. \A l \in RN!Lanes : TimedIn(l)
  BY DEF RN!Timed, TimedIn
<1>2. SUFFICES ASSUME NEW k \in RN!Lanes PROVE TimedIn(k)'
  BY DEF RN!Timed, TimedIn
<1>3. CASE RN!Stop
  <2>1. at'[k] # at[k] => at'[k] = "stopped"
    BY <1>3, StopDoes
  <2>2. UNCHANGED <<todo, spent, passAge>>
    BY <1>3, StopDoes
  <2>3. CASE at'[k] = "stopped"
    BY <2>3 DEF TimedIn, RN!InPass
  <2>4. CASE at'[k] = at[k]
    BY <1>1, <2>2, <2>4 DEF TimedIn, RN!InPass, RN!Used
  <2> QED BY <2>1, <2>3, <2>4
<1>4. CASE RN!Completed
  <2>1. CASE k = "fast"
    BY <1>4, <2>1, CompletedDoes DEF TimedIn, RN!InPass
  <2>2. CASE k # "fast"
    BY <1>1, <1>4, <2>2, CompletedDoes, TimedStays
  <2> QED BY <2>1, <2>2
<1>5. CASE RN!Tick
  <2>1. RN!MayWait(k) /\ at'[k] = at[k] /\ todo'[k] = todo[k]
    BY <1>5, TickDoes
  <2>2. CASE at[k] = "running"
    <3>1. passAge'[k] = passAge[k] + 1 /\ spent'[k] = spent[k] + 1
      BY <1>5, <2>2, TickDoes
    <3>2. ~(spent[k] >= Timeouts[RN!First(todo[k])])
      BY <2>1, <2>2 DEF RN!MayWait, RN!Deadline
    <3>3. RN!First(todo[k]) \in todo[k] /\ Timeouts[RN!First(todo[k])] \in Nat
      BY <2>2, Order, Totals
    <3>4. spent'[k] <= Timeouts[RN!First(todo[k])]
      BY <3>1, <3>2, <3>3
    <3>5. RN!Used(k) = passAge[k] - spent[k] /\ RN!Used(k)' = passAge'[k] - spent'[k]
      BY <2>1, <2>2 DEF RN!Used
    <3>6. RN!Used(k)' = RN!Used(k)
      BY <3>1, <3>5
    <3> QED BY <1>1, <2>1, <2>2, <3>4, <3>6 DEF TimedIn, RN!InPass
  <2>3. CASE at[k] # "running"
    <3>1. at[k] # "pass"
      BY <2>1, <2>3 DEF RN!MayWait
    <3> QED BY <2>1, <2>3, <3>1 DEF TimedIn, RN!InPass
  <2> QED BY <2>2, <2>3
<1>6. ASSUME NEW l \in RN!Lanes, RN!Begin(l) PROVE TimedIn(k)'
  <2>1. CASE k = l
    <3>1. at'[k] = "pass" /\ passAge'[k] = 0 /\ todo'[k] = RN!Turn(k)
      BY <1>6, <2>1, BeginDoes
    <3>2. RN!Total(RN!Turn(k)) <= RN!Total(RN!Members(k)) /\ RN!Total(RN!Turn(k)) \in Nat
      BY Totals, TurnIs
    <3>3. RN!Used(k)' = 0
      BY <3>1 DEF RN!Used
    <3> QED BY <3>1, <3>2, <3>3 DEF TimedIn
  <2>2. CASE k # l
    BY <1>1, <1>6, <2>2, BeginDoes, TimedStays
  <2> QED BY <2>1, <2>2
<1>7. ASSUME NEW l \in RN!Lanes, RN!Start(l) PROVE TimedIn(k)'
  <2>1. CASE k = l
    <3>1. /\ at[k] = "pass" /\ at'[k] = "running" /\ spent'[k] = 0 /\ passAge'[k] = passAge[k]
          /\ todo'[k] = todo[k] /\ todo[k] # {}
      BY <1>7, <2>1, StartDoes
    <3>2. Timeouts[RN!First(todo[k])] \in Nat
      BY <3>1, Order, Totals
    <3>3. RN!Used(k) = passAge[k] /\ RN!Used(k)' = passAge[k]
      BY <3>1 DEF RN!Used
    <3> QED BY <1>1, <3>1, <3>2, <3>3 DEF TimedIn, RN!InPass
  <2>2. CASE k # l
    BY <1>1, <1>7, <2>2, StartDoes, TimedStays
  <2> QED BY <2>1, <2>2
<1>8. ASSUME NEW l \in RN!Lanes, RN!EndPass(l) PROVE TimedIn(k)'
  <2>1. CASE k = l
    <3>1. at'[k] \in {"queueing", "stopped", "waiting"}
      BY <1>8, <2>1, EndPassDoes DEF RN!Lanes
    <3> QED BY <3>1 DEF TimedIn, RN!InPass
  <2>2. CASE k # l
    BY <1>1, <1>8, <2>2, EndPassDoes, TimedStays
  <2> QED BY <2>1, <2>2
<1>9. ASSUME NEW l \in RN!Lanes, NEW ending \in {"ok", "failed", "timeout"}, RN!Return(l, ending)
      PROVE  TimedIn(k)'
  <2>1. CASE k = l
    <3> DEFINE c == RN!First(todo[k])
    <3>1. /\ at[k] = "running" /\ at'[k] = "pass" /\ passAge'[k] = passAge[k]
          /\ todo'[k] = todo[k] \ {c} /\ c \in todo[k]
      BY <1>9, <2>1, ReturnDoes
    <3>2. Timeouts[c] \in Nat /\ RN!Total(todo[k]) = Timeouts[c] + RN!Total(todo[k] \ {c})
      BY <3>1, Totals
    <3>3. RN!Used(k) = passAge[k] - spent[k] /\ RN!Used(k)' = passAge[k]
      BY <3>1 DEF RN!Used
    <3>4. spent[k] <= Timeouts[c] /\ RN!Used(k) + RN!Total(todo[k]) <= RN!Total(RN!Members(k))
      BY <1>1, <3>1 DEF TimedIn, RN!InPass
    <3>5. /\ RN!Total(todo[k] \ {c}) \in Nat /\ RN!Total(todo[k]) \in Nat
          /\ RN!Total(RN!Members(k)) \in Nat /\ spent[k] \in Nat /\ passAge[k] \in Nat
      BY Totals
    <3> HIDE DEF c
    <3>6. RN!Used(k)' + RN!Total(todo[k] \ {c}) <= RN!Total(RN!Members(k)) /\ RN!Used(k)' >= 0
      BY <3>2, <3>3, <3>4, <3>5
    <3> QED BY <3>1, <3>6 DEF TimedIn
  <2>2. CASE k # l
    BY <1>1, <1>9, <2>2, ReturnDoes, TimedStays
  <2> QED BY <2>1, <2>2
<1> QED BY <1>3, <1>4, <1>5, <1>6, <1>7, <1>8, <1>9 DEF RN!Next

LEMMA WatchedStays ==
  ASSUME RN!Watched, Alike("fast"), UNCHANGED <<phase, sinceDone>> PROVE RN!Watched'
BY DEF RN!Watched, Alike, RN!InPass

LEMMA OneLater ==
  \A d, e, i, p, m \in Nat : e <= d + 1 /\ d <= i + p /\ p < m => e <= i + (p + 1) /\ p + 1 <= m
OBVIOUS

LEMMA WatchedRunning ==
  ASSUME at'["fast"] = "running", passAge'["fast"] <= Interval,
         sinceDone' <= Interval + passAge'["fast"]
  PROVE  RN!Watched'
BY DEF RN!Watched, RN!InPass

LEMMA WatchedQueueing ==
  ASSUME at'["fast"] = "queueing", spent'["fast"] <= MaxQueueing,
         sinceDone' <= 2 * Interval + spent'["fast"]
  PROVE  RN!Watched'
BY DEF RN!Watched, RN!InPass

LEMMA WatchedStep ==
  ASSUME RN!TypeOK, RN!Modes, RN!Watched, RN!Next PROVE RN!Watched'
<1> USE RunnerAssumption
<1> DEFINE f == "fast"
<1>0. /\ "fast" \in RN!Lanes /\ spent[f] \in Nat /\ passAge[f] \in Nat /\ sinceDone \in Nat
      /\ phase \in 0 .. Interval - 1
  BY Ranges DEF RN!Lanes
<1>1. CASE RN!Stop
  <2>1. /\ at'[f] # at[f] => at'[f] = "stopped"
        /\ UNCHANGED <<spent, passAge, tick, phase, sinceDone>>
    BY <1>0, <1>1, StopDoes
  <2>2. CASE at'[f] = "stopped"
    BY <2>2 DEF RN!Watched, RN!InPass
  <2>3. CASE at'[f] = at[f]
    BY <2>1, <2>3 DEF RN!Watched, RN!InPass
  <2> QED BY <2>1, <2>2, <2>3
<1>2. CASE RN!Completed
  <2>1. at'[f] \in {"waiting", "stopped"} /\ sinceDone' = 0 /\ phase' = phase
    BY <1>2, CompletedDoes
  <2>2. 0 <= phase /\ 0 <= Interval
    BY <1>0
  <2> QED BY <2>1, <2>2 DEF RN!Watched, RN!InPass
<1>3. CASE RN!Tick
  <2>1. /\ RN!MayWait(f) /\ at'[f] = at[f] /\ (phase' = 0 => tick'[f])
        /\ spent'[f] = IF at[f] \in {"running", "queueing"} THEN spent[f] + 1 ELSE 0
        /\ passAge'[f] = IF at[f] = "running" THEN passAge[f] + 1 ELSE passAge[f]
        /\ phase' = IF phase + 1 = Interval THEN 0 ELSE phase + 1
        /\ sinceDone' \in Nat /\ sinceDone' <= sinceDone + 1
    BY <1>0, <1>3, TickDoes
  <2>6. sinceDone' \in Nat /\ sinceDone' <= sinceDone + 1
    BY <2>1
  <2>2. CASE at[f] = "waiting"
    <3>1. ~tick[f] /\ sinceDone <= phase
      BY <2>1, <2>2 DEF RN!MayWait, RN!Watched
    <3>2. sinceDone' <= Interval /\ (phase' # 0 => sinceDone' <= phase')
      BY <1>0, <2>1, <3>1
    <3>3. ~tick'[f] => phase' # 0
      BY <2>1
    <3> QED BY <2>1, <2>2, <3>2, <3>3 DEF RN!Watched, RN!InPass
  <2>3. CASE at[f] = "running"
    <3>1. passAge[f] < Interval /\ sinceDone <= Interval + passAge[f]
      BY <1>0, <2>1, <2>3 DEF RN!MayWait, RN!Deadline, RN!PassOver, RN!Watched, RN!InPass
    <3>2. passAge'[f] = passAge[f] + 1
      BY <2>1, <2>3
    <3>a. sinceDone' \in Nat /\ sinceDone \in Nat /\ Interval \in Nat /\ passAge[f] \in Nat
      BY <1>0, <2>6
    <3>3. sinceDone' <= Interval + passAge'[f] /\ passAge'[f] <= Interval
      BY <2>6, <3>a, <3>1, <3>2, OneLater
    <3> QED BY <2>1, <2>3, <3>3, WatchedRunning
  <2>4. CASE at[f] = "queueing"
    <3>1. spent[f] < MaxQueueing /\ sinceDone <= 2 * Interval + spent[f]
      BY <2>1, <2>4 DEF RN!MayWait, RN!Watched
    <3>2. spent'[f] = spent[f] + 1
      BY <2>1, <2>4
    <3>a. /\ sinceDone' \in Nat /\ sinceDone \in Nat /\ 2 * Interval \in Nat
          /\ spent[f] \in Nat /\ MaxQueueing \in Nat
      BY <1>0, <2>6
    <3>3. sinceDone' <= 2 * Interval + spent'[f] /\ spent'[f] <= MaxQueueing
      BY <2>6, <3>a, <3>1, <3>2, OneLater
    <3> QED BY <2>1, <2>4, <3>3, WatchedQueueing
  <2>5. CASE at[f] \in {"off", "stopped"}
    BY <2>1, <2>5 DEF RN!Watched, RN!InPass
  <2> QED BY <2>1, <2>2, <2>3, <2>4, <2>5 DEF RN!MayWait
<1>4. ASSUME NEW l \in RN!Lanes, RN!Begin(l) PROVE RN!Watched'
  <2>1. CASE l = f
    <3>1. /\ at[f] = "waiting" /\ tick[f] /\ at'[f] = "pass" /\ passAge'[f] = 0
          /\ UNCHANGED sinceDone
      BY <1>4, <2>1, BeginDoes
    <3>2. sinceDone <= Interval
      BY <3>1 DEF RN!Watched
    <3>3. sinceDone' <= Interval + passAge'[f] /\ passAge'[f] <= Interval
      BY <1>0, <3>1, <3>2
    <3> QED BY <3>1, <3>3 DEF RN!Watched
  <2>2. CASE l # f
    BY <1>0, <1>4, <2>2, BeginDoes, WatchedStays
  <2> QED BY <2>1, <2>2
<1>5. ASSUME NEW l \in RN!Lanes, RN!Start(l) PROVE RN!Watched'
  <2>1. CASE l = f
    <3>1. at[f] = "pass" /\ at'[f] = "running" /\ passAge'[f] = passAge[f] /\ UNCHANGED sinceDone
      BY <1>5, <2>1, StartDoes
    <3> QED BY <3>1 DEF RN!Watched, RN!InPass
  <2>2. CASE l # f
    BY <1>0, <1>5, <2>2, StartDoes, WatchedStays
  <2> QED BY <2>1, <2>2
<1>6. ASSUME NEW l \in RN!Lanes, RN!EndPass(l) PROVE RN!Watched'
  <2>1. CASE l = f
    <3>1. at[f] = "pass" /\ at'[f] = "queueing" /\ spent'[f] = 0 /\ UNCHANGED sinceDone
      BY <1>6, <2>1, EndPassDoes
    <3>2. sinceDone <= Interval + passAge[f] /\ passAge[f] <= Interval
      BY <3>1 DEF RN!Watched, RN!InPass
    <3>3. sinceDone' <= 2 * Interval + spent'[f] /\ spent'[f] <= MaxQueueing
      BY <1>0, <3>1, <3>2
    <3> QED BY <3>1, <3>3 DEF RN!Watched, RN!InPass
  <2>2. CASE l # f
    BY <1>0, <1>6, <2>2, EndPassDoes, WatchedStays
  <2> QED BY <2>1, <2>2
<1>7. ASSUME NEW l \in RN!Lanes, NEW ending \in {"ok", "failed", "timeout"}, RN!Return(l, ending)
      PROVE  RN!Watched'
  <2>1. CASE l = f
    <3>1. at[f] = "running" /\ at'[f] = "pass" /\ passAge'[f] = passAge[f] /\ UNCHANGED sinceDone
      BY <1>7, <2>1, ReturnDoes
    <3> QED BY <3>1 DEF RN!Watched, RN!InPass
  <2>2. CASE l # f
    BY <1>0, <1>7, <2>2, ReturnDoes, WatchedStays
  <2> QED BY <2>1, <2>2
<1> QED BY <1>1, <1>2, <1>3, <1>4, <1>5, <1>6, <1>7 DEF RN!Next

LEMMA RunnerOnce == ASSUME RN!Inductive PROVE RN!NoFalseAlarm /\ RN!OnceRunsAll
<1> USE DEF RN!Inductive
<1>1. RN!NoFalseAlarm
  <2>1. "fast" \in RN!Lanes /\ sinceDone \in Nat /\ phase \in 0 .. Interval - 1
        /\ at["fast"] \in {"off", "waiting", "pass", "running", "queueing", "stopped"}
        /\ passAge["fast"] \in Nat /\ spent["fast"] \in Nat
    BY Ranges DEF RN!Lanes
  <2>2. at["fast"] = "waiting" => sinceDone <= Interval
    BY <2>1, RunnerAssumption DEF RN!Watched
  <2>3. at["fast"] \in {"pass", "running"} => sinceDone <= 2 * Interval
    BY <2>1, RunnerAssumption DEF RN!Watched, RN!InPass
  <2>4. at["fast"] = "queueing" => sinceDone <= 3 * Interval + Grace
    BY <2>1, RunnerAssumption DEF RN!Watched
  <2> QED BY <2>1, <2>2, <2>3, <2>4, RunnerAssumption DEF RN!NoFalseAlarm, RN!Alive
<1>2. RN!OnceRunsAll
  <2>1. "all" \in RN!Lanes
    BY DEF RN!Lanes
  <2> SUFFICES ASSUME at["all"] = "pass", RN!PassOver("all"), todo["all"] # {} PROVE FALSE
    BY DEF RN!OnceRunsAll, RN!Ended
  <2>2. passAge["all"] >= RN!Total(RN!AllSet)
    <3>1. RN!Total(RN!AllSet) \in Nat /\ passAge["all"] \in Nat
      BY <2>1, Totals, Ranges
    <3>2. passAge["all"] >= RN!Higher(Interval, RN!Total(RN!AllSet))
      BY DEF RN!PassOver
    <3> QED BY <3>1, <3>2, RunnerAssumption DEF RN!Higher
  <2>3. passAge["all"] + RN!Total(todo["all"]) <= RN!Total(RN!AllSet)
    BY <2>1 DEF RN!Timed, RN!InPass, RN!Used, RN!Members
  <2>4. PICK c \in todo["all"] : TRUE
    OBVIOUS
  <2>5. todo["all"] \in SUBSET RN!AllSet /\ passAge["all"] \in Nat
    BY <2>1, Ranges
  <2>6. /\ Timeouts[c] \in Nat \ {0} /\ RN!Total(todo["all"]) = Timeouts[c] + RN!Total(todo["all"] \ {c})
        /\ RN!Total(todo["all"] \ {c}) \in Nat /\ RN!Total(RN!AllSet) \in Nat
    BY <2>4, <2>5, Totals
  <2> QED BY <2>2, <2>3, <2>5, <2>6
<1> QED BY <1>1, <1>2

LEMMA ServiceStays == ASSUME RN!TypeOK, RN!Modes, RN!Next PROVE RN!Service' <=> RN!Service
<1>1. "all" \in RN!Lanes
  BY DEF RN!Lanes
<1>2. CASE RN!Stop
  BY <1>1, <1>2, StopDoes DEF RN!Service
<1>3. CASE RN!Tick
  BY <1>1, <1>3, TickDoes DEF RN!Service
<1>4. CASE RN!Completed
  BY <1>1, <1>4, CompletedDoes DEF RN!Service, Alike
<1>5. ASSUME NEW l \in RN!Lanes, RN!Begin(l) PROVE RN!Service' <=> RN!Service
  BY <1>1, <1>5, BeginDoes DEF RN!Service, Alike
<1>6. ASSUME NEW l \in RN!Lanes, RN!Start(l) PROVE RN!Service' <=> RN!Service
  BY <1>1, <1>6, StartDoes DEF RN!Service, Alike
<1>7. ASSUME NEW l \in RN!Lanes, RN!EndPass(l) PROVE RN!Service' <=> RN!Service
  BY <1>1, <1>7, EndPassDoes DEF RN!Service, Alike
<1>8. ASSUME NEW l \in RN!Lanes, NEW ending \in {"ok", "failed", "timeout"}, RN!Return(l, ending)
      PROVE  RN!Service' <=> RN!Service
  BY <1>1, <1>8, ReturnDoes DEF RN!Service, Alike
<1> QED BY <1>2, <1>3, <1>4, <1>5, <1>6, <1>7, <1>8 DEF RN!Next

(* What is due by a collector's records. *)
LEMMA LastAgeIs ==
  ASSUME RN!TypeOK, RN!Modes, NEW c \in RN!SlowSet
  PROVE  /\ RN!LastAge(c) \in -1 .. Cadence[c]
         /\ RN!Due(c) <=> RN!LastAge(c) = -1 \/ RN!LastAge(c) >= Cadence[c] - Interval \div 2
         /\ Cadence[c] \in Nat /\ RN!Before(c) \in Nat /\ RN!Others(c) \in Nat
         /\ Timeouts[c] \in Nat /\ RN!Total(RN!SlowSet) = Timeouts[c] + RN!Others(c)
         /\ RN!Eldest(c) \in Nat /\ RN!Eldest(c) >= Cadence[c] /\ RN!Eldest(c) >= Timeouts[c]
<1>1. RN!LastAge(c) \in -1 .. Cadence[c]
  BY Ranges DEF RN!LastAge
<1>2. RN!Due(c) <=> RN!LastAge(c) = -1 \/ RN!LastAge(c) >= Cadence[c] - Interval \div 2
  BY DEF RN!Due, RN!Never
<1>3. /\ RN!SlowSet \in SUBSET RN!AllSet /\ RN!SlowSet \ {c} \in SUBSET RN!AllSet
      /\ {d \in RN!SlowSet : RN!Precedes(d, c)} \in SUBSET RN!AllSet
  BY Collectors
<1>4. RN!Before(c) \in Nat /\ RN!Others(c) \in Nat
  BY <1>3, Totals DEF RN!Before, RN!Others
<1>5. Timeouts[c] \in Nat /\ RN!Total(RN!SlowSet) = Timeouts[c] + RN!Others(c)
  BY <1>3, Totals DEF RN!Others
<1>6. Cadence[c] \in Nat
  BY Collectors
<1>7. RN!Eldest(c) \in Nat /\ RN!Eldest(c) >= Cadence[c] /\ RN!Eldest(c) >= Timeouts[c]
  <2> DEFINE all == RN!Total(RN!SlowSet)
  <2>1. all \in Nat /\ all >= Timeouts[c] /\ RN!Eldest(c) = Cadence[c] + Interval + 2 * all
    BY <1>4, <1>5 DEF RN!Eldest
  <2> HIDE DEF all
  <2>2. Interval \in Nat
    BY RunnerAssumption
  <2> QED BY <1>5, <1>6, <2>1, <2>2
<1> QED BY <1>1, <1>2, <1>4, <1>5, <1>6, <1>7

LEMMA LastAgeTicks ==
  ASSUME RN!TypeOK, RN!Modes, RN!Tick, NEW c \in RN!SlowSet
  PROVE  RN!LastAge(c)' = RN!Older(RN!LastAge(c), Cadence[c])
<1> DEFINE r == sinceRun[c]
           t == sinceTimeout[c]
<1>1. r \in -1 .. Cadence[c] /\ t \in -1 .. Cadence[c] /\ Cadence[c] \in Nat
  BY Ranges, Collectors
<1>2. sinceRun'[c] = RN!Older(r, Cadence[c]) /\ sinceTimeout'[c] = RN!Older(t, Cadence[c])
  BY TickDoes
<1>3. RN!LastAge(c) = IF t # -1 /\ (r = -1 \/ t < r) THEN t ELSE r
  BY DEF RN!LastAge, RN!Never
<1>4. RN!LastAge(c)' = IF sinceTimeout'[c] # -1 /\ (sinceRun'[c] = -1 \/ sinceTimeout'[c] < sinceRun'[c])
                       THEN sinceTimeout'[c] ELSE sinceRun'[c]
  BY DEF RN!LastAge, RN!Never
<1> HIDE DEF r, t
<1> QED BY <1>1, <1>2, <1>3, <1>4 DEF RN!Older, RN!Never, RN!Lower
-----------------------------------------------------------------------------
LEMMA RecordedStays ==
  ASSUME RN!TypeOK, RN!Modes, NEW c \in RN!SlowSet, RN!Recorded(c), Alike("slow"),
         sinceRun'[c] = sinceRun[c], sinceTimeout'[c] = sinceTimeout[c],
         sinceStart'[c] = sinceStart[c], outcome'[c] = outcome[c]
  PROVE  RN!Recorded(c)'
<1>1. /\ RN!LastAge(c)' = RN!LastAge(c) /\ (RN!Due(c)' <=> RN!Due(c)) /\ RN!Used("slow")' = RN!Used("slow")
      /\ (RN!InPass("slow")' <=> RN!InPass("slow")) /\ (RN!Runs("slow", c)' <=> RN!Runs("slow", c))
  BY DEF RN!LastAge, RN!Due, RN!Used, RN!InPass, RN!Runs, Alike
<1>2. todo'["slow"] = todo["slow"] /\ passAge'["slow"] = passAge["slow"] /\ spent'["slow"] = spent["slow"]
  BY DEF Alike
<1> QED BY <1>1, <1>2 DEF RN!Recorded

LEMMA RecordedBegin ==
  ASSUME RN!TypeOK, RN!Modes, NEW c \in RN!SlowSet, RN!Recorded(c), RN!Begin("slow")
  PROVE  RN!Recorded(c)'
<1>1. /\ at["slow"] = "waiting" /\ at'["slow"] = "pass" /\ passAge'["slow"] = 0
      /\ todo'["slow"] = {d \in RN!SlowSet : RN!Due(d)}
      /\ UNCHANGED <<sinceRun, sinceTimeout, outcome, sinceStart>>
  BY BeginDoes DEF RN!Lanes, RN!Turn
<1>2. RN!LastAge(c)' = RN!LastAge(c) /\ (RN!Due(c)' <=> RN!Due(c))
  BY <1>1 DEF RN!LastAge, RN!Due
<1>3. RN!Used("slow")' = 0 /\ ~RN!Runs("slow", c) /\ ~RN!Runs("slow", c)'
  BY <1>1 DEF RN!Used, RN!Runs
<1>4. outcome'[c] = "failed" \/ c \in todo'["slow"] => RN!Due(c)'
  BY <1>1, <1>2 DEF RN!Recorded
<1>5. sinceRun'[c] # RN!Never => sinceRun'[c] >= RN!Lower(passAge'["slow"], Cadence[c])
  BY <1>1, Ranges, LastAgeIs DEF RN!Lower, RN!Never
<1>6. RN!Used("slow")' + RN!Total({d \in todo'["slow"] : RN!Precedes(d, c)}) <= RN!Before(c)
  <2> DEFINE T == {d \in todo'["slow"] : RN!Precedes(d, c)}
             B == {d \in RN!SlowSet : RN!Precedes(d, c)}
  <2>1. B \in SUBSET RN!AllSet /\ T \in SUBSET B /\ T \in SUBSET RN!AllSet
    BY <1>1, Collectors
  <2> HIDE DEF T
  <2>2. RN!Total(T) <= RN!Total(B) /\ RN!Total(T) \in Nat
    BY <2>1, Totals
  <2> QED BY <1>3, <2>2 DEF RN!Before, T
<1> QED BY <1>1, <1>2, <1>3, <1>4, <1>5, <1>6 DEF RN!Recorded

LEMMA RecordedStart ==
  ASSUME RN!TypeOK, RN!Modes, NEW c \in RN!SlowSet, RN!Recorded(c), RN!Start("slow")
  PROVE  RN!Recorded(c)'
<1> DEFINE e == RN!First(todo["slow"])
<1>1. /\ at["slow"] = "pass" /\ at'["slow"] = "running" /\ passAge'["slow"] = passAge["slow"]
      /\ spent'["slow"] = 0 /\ todo'["slow"] = todo["slow"]
      /\ sinceStart'[c] = (IF c = e THEN 0 ELSE sinceStart[c])
      /\ UNCHANGED <<sinceRun, sinceTimeout, outcome>>
  BY StartDoes DEF RN!Lanes
<1>2. passAge["slow"] \in Nat
  BY Ranges DEF RN!Lanes
<1>3. RN!LastAge(c)' = RN!LastAge(c) /\ (RN!Due(c)' <=> RN!Due(c))
  BY <1>1 DEF RN!LastAge, RN!Due
<1>4. /\ RN!Used("slow")' = passAge["slow"] /\ RN!Used("slow") = passAge["slow"]
      /\ ~RN!Runs("slow", c) /\ (RN!Runs("slow", c)' <=> c = e)
      /\ RN!InPass("slow") /\ RN!InPass("slow")'
  BY <1>1, <1>2 DEF RN!Used, RN!Runs, RN!InPass
<1> HIDE DEF e
<1> QED BY <1>1, <1>3, <1>4 DEF RN!Recorded

LEMMA RecordedEnd ==
  ASSUME RN!TypeOK, RN!Modes, NEW c \in RN!SlowSet, RN!Recorded(c), RN!EndPass("slow") \/ RN!Stop
  PROVE  RN!Recorded(c)'
<1>1. /\ UNCHANGED <<sinceRun, sinceTimeout, outcome, sinceStart>> /\ todo'["slow"] = todo["slow"]
      /\ \/ at["slow"] \in {"pass", "waiting"} /\ at'["slow"] \in {"stopped", "waiting"}
         \/ Alike("slow")
  BY EndPassDoes, StopDoes DEF RN!Lanes, Alike
<1>2. CASE Alike("slow")
  BY <1>1, <1>2, RecordedStays
<1>3. CASE at["slow"] \in {"pass", "waiting"} /\ at'["slow"] \in {"stopped", "waiting"}
  <2>1. ~RN!Runs("slow", c) /\ ~RN!Runs("slow", c)' /\ ~RN!InPass("slow")'
    BY <1>3 DEF RN!Runs, RN!InPass
  <2>2. RN!LastAge(c)' = RN!LastAge(c) /\ (RN!Due(c)' <=> RN!Due(c))
    BY <1>1 DEF RN!LastAge, RN!Due
  <2> QED BY <1>1, <2>1, <2>2 DEF RN!Recorded
<1> QED BY <1>1, <1>2, <1>3

(* A collector that returns is recorded under the time its pass began,     *)
(* which is earlier than its start by no more than the rest before it      *)
(* have used.                                                              *)
LEMMA RecordedReturn ==
  ASSUME RN!TypeOK, RN!Modes, RN!Timed, NEW c \in RN!SlowSet, RN!Recorded(c),
         NEW ending \in {"ok", "failed", "timeout"}, RN!Return("slow", ending)
  PROVE  RN!Recorded(c)'
<1> DEFINE e == RN!First(todo["slow"])
<1>1. /\ at["slow"] = "running" /\ at'["slow"] = "pass" /\ todo'["slow"] = todo["slow"] \ {e}
      /\ passAge'["slow"] = passAge["slow"] /\ UNCHANGED sinceStart
      /\ e \in todo["slow"] /\ e \in RN!AllSet
  BY ReturnDoes DEF RN!Lanes
<1>2. passAge["slow"] \in Nat /\ spent["slow"] \in Nat /\ todo["slow"] \in SUBSET RN!AllSet
      /\ todo["slow"] \subseteq RN!SlowSet
  BY Ranges DEF RN!Lanes, RN!Members
<1>3. /\ RN!Used("slow")' = passAge["slow"] /\ RN!Used("slow") = passAge["slow"] - spent["slow"]
      /\ RN!Used("slow") >= 0 /\ spent["slow"] <= Timeouts[e] /\ Timeouts[e] \in Nat
      /\ RN!InPass("slow") /\ RN!InPass("slow")' /\ ~RN!Runs("slow", c)'
      /\ (RN!Runs("slow", c) <=> c = e)
  <2>1. "slow" \in RN!Lanes
    BY DEF RN!Lanes
  <2>2. Timeouts[e] \in Nat
    BY <1>1, <1>2, Totals
  <2> QED BY <1>1, <2>1, <2>2 DEF RN!Used, RN!InPass, RN!Runs, RN!Timed
<1>4. CASE c = e
  <2> DEFINE age == RN!Lower(passAge["slow"], Cadence[c])
  <2>1. /\ outcome'[c] = ending
        /\ sinceRun'[c] = IF ending = "ok" THEN age ELSE sinceRun[c]
        /\ sinceTimeout'[c] = IF ending = "ok" THEN -1
                               ELSE IF ending = "timeout" THEN age ELSE sinceTimeout[c]
    BY <1>4, ReturnDoes DEF RN!Lanes
  <2>2. c \in todo["slow"] /\ c \notin todo'["slow"] /\ sinceStart[c] = spent["slow"] /\ RN!Due(c)
    BY <1>1, <1>3, <1>4 DEF RN!Recorded
  <2>3. age \in Nat /\ age <= passAge["slow"] /\ (age = passAge["slow"] \/ age = Cadence[c])
    BY <1>2, LastAgeIs DEF RN!Lower
  <2>4. age <= sinceStart[c] + RN!Before(c)
    <3>1. RN!Used("slow") + RN!Total({d \in todo["slow"] : RN!Precedes(d, c)}) <= RN!Before(c)
      BY <1>3, <2>2 DEF RN!Recorded
    <3>2. RN!Total({d \in todo["slow"] : RN!Precedes(d, c)}) \in Nat
      BY <1>2, Totals
    <3>3. RN!Used("slow") <= RN!Before(c)
      BY <1>2, <1>3, <3>1, <3>2, LastAgeIs
    <3> QED BY <1>2, <1>3, <2>2, <2>3, <3>3, LastAgeIs
  <2>5. sinceStart[c] <= age \/ age = Cadence[c]
    BY <1>2, <1>3, <2>2, <2>3
  <2>6. sinceRun[c] = -1 \/ sinceRun[c] >= age
    BY <1>3, <2>2 DEF RN!Recorded, RN!Never
  <2>7. CASE ending = "failed"
    <3>1. RN!Due(c)'
      BY <2>1, <2>2, <2>7 DEF RN!Due, RN!LastAge
    <3> QED BY <1>3, <2>1, <2>2, <2>7, <3>1 DEF RN!Recorded
  <2>8. CASE ending # "failed"
    <3>1. RN!LastAge(c)' = age
      <4>1. sinceRun[c] \in Int
        BY Ranges
      <4>2. CASE ending = "ok"
        BY <2>1, <2>3, <4>2 DEF RN!LastAge, RN!Never
      <4>3. CASE ending = "timeout"
        BY <2>1, <2>3, <2>6, <4>1, <4>3 DEF RN!LastAge, RN!Never
      <4> QED BY <2>8, <4>2, <4>3
    <3> HIDE DEF age
    <3>2. RN!LastAge(c)' # RN!Never
      BY <2>3, <3>1 DEF RN!Never
    <3> QED BY <1>1, <1>3, <2>1, <2>2, <2>4, <2>5, <2>8, <3>1, <3>2 DEF RN!Recorded
  <2> QED BY <2>7, <2>8
<1>5. CASE c # e
  <2>1. sinceRun'[c] = sinceRun[c] /\ sinceTimeout'[c] = sinceTimeout[c] /\ outcome'[c] = outcome[c]
    BY <1>5, ReturnDoes DEF RN!Lanes
  <2>2. RN!LastAge(c)' = RN!LastAge(c) /\ (RN!Due(c)' <=> RN!Due(c))
    BY <2>1 DEF RN!LastAge, RN!Due
  <2>3. c \in todo'["slow"] <=> c \in todo["slow"]
    BY <1>1, <1>5
  <2>4. ASSUME c \in todo["slow"]
        PROVE  RN!Used("slow")' + RN!Total({d \in todo'["slow"] : RN!Precedes(d, c)}) <= RN!Before(c)
    <3> DEFINE T == {d \in todo["slow"] : RN!Precedes(d, c)}
    <3>1. RN!Used("slow") + RN!Total(T) <= RN!Before(c)
      BY <1>3, <2>4 DEF RN!Recorded
    <3>2. e \in T
      BY <1>1, <1>2, <1>5, <2>4, Order
    <3>3. T \in SUBSET RN!AllSet /\ {d \in todo'["slow"] : RN!Precedes(d, c)} = T \ {e}
      BY <1>1, <1>2
    <3> HIDE DEF T
    <3>4. RN!Total(T) = Timeouts[e] + RN!Total(T \ {e}) /\ RN!Total(T \ {e}) \in Nat
      BY <3>2, <3>3, Totals
    <3>5. RN!Used("slow")' + RN!Total(T \ {e}) <= RN!Before(c)
      <4> HIDE DEF e
      <4> QED BY <1>2, <1>3, <3>1, <3>4, LastAgeIs
    <3> QED BY <3>3, <3>5
  <2> HIDE DEF e
  <2> QED BY <1>1, <1>3, <1>5, <2>1, <2>2, <2>3, <2>4 DEF RN!Recorded
<1> QED BY <1>4, <1>5

LEMMA RecordedTick ==
  ASSUME RN!TypeOK, RN!Modes, RN!Timed, RN!Service, NEW c \in RN!SlowSet, RN!Recorded(c), RN!Tick
  PROVE  RN!Recorded(c)'
<1> DEFINE s == sinceStart[c]
           C == Cadence[c]
           L == RN!LastAge(c)
           h == Interval \div 2
<1>0. "slow" \in RN!Lanes
  BY DEF RN!Lanes
<1>1. /\ RN!MayWait("slow") /\ at'["slow"] = at["slow"] /\ todo'["slow"] = todo["slow"]
      /\ at["slow"] = "running" => passAge'["slow"] = passAge["slow"] + 1 /\ spent'["slow"] = spent["slow"] + 1
      /\ outcome' = outcome /\ sinceStart'[c] = RN!Older(s, RN!Eldest(c))
      /\ sinceRun'[c] = RN!Older(sinceRun[c], C)
  BY <1>0, TickDoes
<1>2. /\ passAge["slow"] \in Nat /\ spent["slow"] \in Nat /\ s \in -1 .. RN!Eldest(c) /\ s \in Int
      /\ sinceRun[c] \in -1 .. C /\ sinceRun[c] \in Int
  BY <1>0, Ranges, LastAgeIs
<1>3. L \in -1 .. C /\ C \in Nat /\ RN!Before(c) \in Nat /\ RN!Eldest(c) \in Nat /\ RN!Eldest(c) >= C
      /\ RN!Eldest(c) >= Timeouts[c] /\ Timeouts[c] \in Nat /\ L \in Int
  BY LastAgeIs
<1>4. RN!LastAge(c)' = RN!Older(L, C)
  BY LastAgeTicks
<1>5. h \in Nat
  BY Phases
<1>6. RN!Due(c) => RN!Due(c)'
  <2>1. RN!Due(c) <=> L = -1 \/ L >= C - h
    BY LastAgeIs
  <2>2. RN!Due(c)' <=> RN!LastAge(c)' = -1 \/ RN!LastAge(c)' >= C - h
    BY DEF RN!Due, RN!Never
  <2> HIDE DEF L, C, h
  <2>3. L = -1 => RN!Older(L, C) = -1
    BY DEF RN!Older, RN!Never
  <2>4. L # -1 => RN!Older(L, C) >= L \/ RN!Older(L, C) = C
    BY <1>3 DEF RN!Older, RN!Never, RN!Lower
  <2>5. L >= C - h /\ L # -1 => RN!Older(L, C) >= C - h
    BY <1>3, <1>5, <2>4 DEF RN!Older, RN!Never, RN!Lower
  <2> QED BY <1>4, <2>1, <2>2, <2>3, <2>5
<1>7. outcome'[c] = "failed" \/ c \in todo'["slow"] => RN!Due(c)'
  BY <1>1, <1>6 DEF RN!Recorded
<1>8. (RN!InPass("slow")' <=> RN!InPass("slow")) /\ (RN!Runs("slow", c)' <=> RN!Runs("slow", c))
      /\ (RN!InPass("slow") <=> at["slow"] = "running")
  <2>1. at["slow"] # "pass"
    BY <1>1 DEF RN!MayWait
  <2> QED BY <1>1, <2>1 DEF RN!InPass, RN!Runs
<1>9. RN!InPass("slow")' => RN!Used("slow")' = RN!Used("slow")
  <2>1. at["slow"] = "running" =>
          RN!Used("slow")' = passAge'["slow"] - spent'["slow"] /\ RN!Used("slow") = passAge["slow"] - spent["slow"]
    BY <1>1 DEF RN!Used
  <2> QED BY <1>1, <1>2, <1>8, <2>1
<1>10. RN!InPass("slow")' /\ c \in todo'["slow"] /\ sinceRun'[c] # RN!Never =>
         sinceRun'[c] >= RN!Lower(passAge'["slow"], C)
  <2> SUFFICES ASSUME RN!InPass("slow"), c \in todo["slow"], sinceRun'[c] # -1
               PROVE  sinceRun'[c] >= RN!Lower(passAge'["slow"], C)
    BY <1>1, <1>8 DEF RN!Never
  <2>1. sinceRun[c] # -1
    BY <1>1 DEF RN!Older, RN!Never
  <2>2. sinceRun[c] >= RN!Lower(passAge["slow"], C)
    BY <2>1 DEF RN!Recorded, RN!Never
  <2>3. sinceRun'[c] = (IF sinceRun[c] < C THEN sinceRun[c] + 1 ELSE C)
    BY <1>1, <1>2, <1>3, <2>1, OlderIs
  <2>4. passAge'["slow"] = passAge["slow"] + 1
    BY <1>1, <1>8
  <2> HIDE DEF C
  <2> QED BY <1>2, <1>3, <2>2, <2>3, <2>4 DEF RN!Lower
<1>11. RN!Runs("slow", c)' => sinceStart'[c] = spent'["slow"]
  <2> SUFFICES ASSUME RN!Runs("slow", c) PROVE sinceStart'[c] = spent'["slow"]
    BY <1>8
  <2>1. s = spent["slow"] /\ spent["slow"] < Timeouts[c] /\ spent'["slow"] = spent["slow"] + 1
    <3>1. s = spent["slow"] /\ at["slow"] = "running" /\ c = RN!First(todo["slow"])
      BY DEF RN!Recorded, RN!Runs
    <3>2. ~(spent["slow"] >= Timeouts[c])
      BY <1>1, <3>1 DEF RN!MayWait, RN!Deadline
    <3> QED BY <1>1, <1>2, <1>3, <3>1, <3>2
  <2> HIDE DEF s
  <2>2. RN!Older(s, RN!Eldest(c)) = s + 1
    BY <1>2, <1>3, <2>1 DEF RN!Older, RN!Never, RN!Lower
  <2> QED BY <1>1, <2>1, <2>2
<1>12. ASSUME ~RN!Runs("slow", c), sinceStart'[c] # RN!Never, outcome'[c] # "failed"
       PROVE  /\ RN!LastAge(c)' # RN!Never
              /\ sinceStart'[c] <= RN!LastAge(c)' \/ RN!LastAge(c)' = C
              /\ RN!LastAge(c)' <= sinceStart'[c] + RN!Before(c)
  <2>1. s # -1
    BY <1>1, <1>12 DEF RN!Older, RN!Never
  <2>2. L # -1 /\ (s <= L \/ L = C) /\ L <= s + RN!Before(c)
    BY <1>1, <1>12, <2>1 DEF RN!Recorded, RN!Never
  <2>3. sinceStart'[c] = IF s < RN!Eldest(c) THEN s + 1 ELSE RN!Eldest(c)
    BY <1>1, <1>2, <1>3, <2>1, OlderIs
  <2>4. RN!LastAge(c)' = IF L < C THEN L + 1 ELSE C
    BY <1>3, <1>4, <2>2, OlderIs
  <2> HIDE DEF s, L, C
  <2> QED BY <1>2, <1>3, <2>1, <2>2, <2>3, <2>4 DEF RN!Never
<1> HIDE DEF L, h, s
<1> QED BY <1>1, <1>7, <1>8, <1>9, <1>10, <1>11, <1>12 DEF RN!Recorded

LEMMA RecordedStep ==
  ASSUME RN!TypeOK, RN!Modes, RN!Timed, RN!Service, NEW c \in RN!SlowSet, RN!Recorded(c), RN!Next
  PROVE  RN!Recorded(c)'
<1>0. "slow" \in RN!Lanes /\ at["all"] = "off"
  BY DEF RN!Lanes, RN!Service
<1>1. CASE RN!Stop
  BY <1>1, RecordedEnd
<1>2. CASE RN!Tick
  BY <1>2, RecordedTick
<1>3. CASE RN!Completed
  BY <1>0, <1>3, CompletedDoes, RecordedStays
<1>4. ASSUME NEW l \in RN!Lanes, RN!Begin(l) PROVE RN!Recorded(c)'
  BY <1>0, <1>4, BeginDoes, RecordedStays, RecordedBegin
<1>5. ASSUME NEW l \in RN!Lanes, RN!EndPass(l) PROVE RN!Recorded(c)'
  BY <1>0, <1>5, EndPassDoes, RecordedStays, RecordedEnd
<1>6. ASSUME NEW l \in RN!Lanes, RN!Start(l) PROVE RN!Recorded(c)'
  <2>1. CASE l = "slow"
    BY <1>6, <2>1, RecordedStart
  <2>2. CASE l # "slow"
    <3>1. RN!First(todo[l]) \notin RN!SlowSet
      <4>1. at[l] = "pass" /\ todo[l] # {} /\ l = "fast"
        BY <1>0, <1>6, <2>2, StartDoes DEF RN!Lanes
      <4> QED BY <4>1, Ranges, Order, Collectors DEF RN!Members
    <3> QED BY <1>0, <1>6, <2>2, <3>1, StartDoes, RecordedStays
  <2> QED BY <2>1, <2>2
<1>7. ASSUME NEW l \in RN!Lanes, NEW ending \in {"ok", "failed", "timeout"}, RN!Return(l, ending)
      PROVE  RN!Recorded(c)'
  <2>1. CASE l = "slow"
    BY <1>7, <2>1, RecordedReturn
  <2>2. CASE l # "slow"
    <3>1. RN!First(todo[l]) \notin RN!SlowSet
      <4>1. RN!First(todo[l]) \in todo[l] /\ l = "fast"
        BY <1>0, <1>7, <2>2, ReturnDoes DEF RN!Lanes
      <4> QED BY <4>1, Ranges, Collectors DEF RN!Members
    <3>2. Alike("slow") /\ UNCHANGED <<sinceRun, sinceTimeout, outcome, sinceStart>>
      BY <1>0, <1>7, <2>2, <3>1, ReturnDoes
    <3> QED BY <3>2, RecordedStays
  <2> QED BY <2>1, <2>2
<1> QED BY <1>1, <1>2, <1>3, <1>4, <1>5, <1>6, <1>7 DEF RN!Next
-----------------------------------------------------------------------------
(* How long a slow collector may wait. *)
LEMMA PatienceIs ==
  ASSUME RN!TypeOK, RN!Modes, NEW c \in RN!SlowSet
  PROVE  /\ RN!Patience(c) \in Nat /\ RN!Patience(c) >= RN!Others(c) + Interval
         /\ RN!Patience(c) >= RN!Others(c) + RN!Total(RN!SlowSet) /\ RN!Total(RN!SlowSet) \in Nat
         /\ outcome[c] # "failed" =>
              /\ RN!Patience(c) >= RN!Others(c) + Cadence[c] - Interval \div 2 + Interval
              /\ RN!Patience(c) >= RN!Others(c) + Cadence[c] - Interval \div 2 + RN!Others(c)
<1> DEFINE O == RN!Others(c)
           T == RN!Total(RN!SlowSet)
           h == Interval \div 2
           wait == IF outcome[c] = "failed" THEN 0 ELSE Cadence[c] - h + RN!Higher(Interval, O)
<1>1. O \in Nat /\ Cadence[c] \in Nat /\ h \in Nat /\ Interval \in Nat /\ T \in Nat
  <2>1. T = Timeouts[c] + O /\ Timeouts[c] \in Nat /\ O \in Nat /\ Cadence[c] \in Nat
    BY LastAgeIs
  <2> HIDE DEF O, T
  <2> QED BY <2>1, Phases, RunnerAssumption
<1>2. RN!Patience(c) = O + RN!Higher(RN!Higher(Interval, T), wait)
  BY DEF RN!Patience
<1>3. wait \in Int /\ (outcome[c] # "failed" =>
                        wait >= Cadence[c] - h + Interval /\ wait >= Cadence[c] - h + O)
  <2> HIDE DEF O, h
  <2> QED BY <1>1 DEF RN!Higher
<1> HIDE DEF O, h, wait, T
<1>4. RN!Higher(Interval, T) \in Nat /\ RN!Higher(Interval, T) >= Interval /\ RN!Higher(Interval, T) >= T
  BY <1>1 DEF RN!Higher
<1>5. /\ RN!Patience(c) \in Nat /\ RN!Patience(c) >= O + Interval /\ RN!Patience(c) >= O + T
      /\ RN!Patience(c) >= O + wait
  <2> DEFINE m == RN!Higher(Interval, T)
  <2> HIDE DEF m
  <2>1. m \in Nat /\ m >= Interval /\ m >= T /\ RN!Patience(c) = O + RN!Higher(m, wait)
    BY <1>2, <1>4 DEF m
  <2> QED BY <1>1, <1>3, <2>1 DEF RN!Higher
<1> QED BY <1>1, <1>3, <1>5 DEF O, T, h

LEMMA FedStays ==
  ASSUME NEW c \in RN!SlowSet, RN!Fed(c), Alike("slow"), UNCHANGED phase,
         sinceStart'[c] = sinceStart[c], outcome'[c] = outcome[c]
  PROVE  RN!Fed(c)'
<1>1. /\ RN!Patience(c)' = RN!Patience(c) /\ RN!Used("slow")' = RN!Used("slow")
      /\ (RN!InPass("slow")' <=> RN!InPass("slow")) /\ (RN!Runs("slow", c)' <=> RN!Runs("slow", c))
  BY DEF RN!Patience, RN!Used, RN!InPass, RN!Runs, Alike
<1>2. \A age : RN!Undue(c, age)' <=> RN!Undue(c, age)
  BY DEF RN!Undue
<1>3. /\ at'["slow"] = at["slow"] /\ todo'["slow"] = todo["slow"] /\ (tick'["slow"] <=> tick["slow"])
      /\ passAge'["slow"] = passAge["slow"]
  BY DEF Alike
<1>4. (RN!Undue(c, phase)' <=> RN!Undue(c, phase))
      /\ (RN!Undue(c, passAge["slow"])' <=> RN!Undue(c, passAge["slow"]))
  BY <1>3 DEF RN!Undue
<1> QED BY <1>1, <1>3, <1>4 DEF RN!Fed

LEMMA FedBegin ==
  ASSUME RN!TypeOK, RN!Modes, NEW c \in RN!SlowSet, RN!Recorded(c), RN!Fed(c), RN!Begin("slow")
  PROVE  RN!Fed(c)'
<1>1. /\ at["slow"] = "waiting" /\ at'["slow"] = "pass" /\ passAge'["slow"] = 0
      /\ todo'["slow"] = {d \in RN!SlowSet : RN!Due(d)}
      /\ UNCHANGED <<phase, outcome, sinceStart>>
  BY BeginDoes DEF RN!Lanes, RN!Turn
<1>2. phase \in Nat /\ sinceStart[c] \in Int /\ sinceStart[c] >= -1
  BY Ranges, LastAgeIs
<1>3. RN!Patience(c)' = RN!Patience(c) /\ RN!Used("slow")' = 0 /\ ~RN!Runs("slow", c)
  BY <1>1 DEF RN!Patience, RN!Used, RN!Runs
<1>4. sinceStart'[c] + RN!Others(c) <= RN!Patience(c)' + passAge'["slow"]
  BY <1>1, <1>2, <1>3, PatienceIs, LastAgeIs DEF RN!Fed
<1>5. ASSUME c \notin todo'["slow"]
      PROVE  \/ sinceStart'[c] <= passAge'["slow"]
             \/ RN!Undue(c, passAge["slow"])' /\ RN!Used("slow")' + RN!Total(todo'["slow"]) <= RN!Others(c)
  <2>1. RN!LastAge(c) # -1 /\ RN!LastAge(c) < Cadence[c] - Interval \div 2 /\ outcome[c] # "failed"
    <3>1. ~RN!Due(c)
      BY <1>1, <1>5
    <3> QED BY <3>1, LastAgeIs, Phases DEF RN!Recorded
  <2>2. CASE sinceStart[c] = -1
    BY <1>1, <2>2
  <2>3. CASE sinceStart[c] # -1
    <3>1. RN!LastAge(c) # Cadence[c]
      BY <2>1, LastAgeIs, Phases
    <3>2. sinceStart[c] <= RN!LastAge(c)
      BY <1>3, <2>1, <2>3, <3>1 DEF RN!Recorded, RN!Never
    <3>3. sinceStart[c] < Cadence[c] - Interval \div 2 + 0
      BY <1>2, <2>1, <3>2, LastAgeIs, Phases
    <3>4. RN!Undue(c, passAge["slow"])'
      BY <1>1, <2>1, <3>3 DEF RN!Undue
    <3>5. RN!Total(todo'["slow"]) <= RN!Others(c) /\ RN!Total(todo'["slow"]) \in Nat
      <4>1. todo'["slow"] \in SUBSET (RN!SlowSet \ {c}) /\ RN!SlowSet \ {c} \in SUBSET RN!AllSet
            /\ todo'["slow"] \in SUBSET RN!AllSet
        BY <1>1, <1>5, Collectors
      <4> HIDE DEF RN!Total
      <4> QED BY <4>1, Totals DEF RN!Others
    <3> QED BY <1>3, <3>4, <3>5
  <2> QED BY <2>2, <2>3
<1>6. ~tick'["slow"] => passAge'["slow"] <= phase'
  BY <1>1, <1>2
<1> QED BY <1>1, <1>4, <1>5, <1>6 DEF RN!Fed

LEMMA FedStart ==
  ASSUME RN!TypeOK, RN!Modes, NEW c \in RN!SlowSet, RN!Fed(c), RN!Start("slow")
  PROVE  RN!Fed(c)'
<1> DEFINE e == RN!First(todo["slow"])
<1>1. /\ at["slow"] = "pass" /\ at'["slow"] = "running" /\ passAge'["slow"] = passAge["slow"]
      /\ spent'["slow"] = 0 /\ todo'["slow"] = todo["slow"] /\ (tick'["slow"] <=> tick["slow"])
      /\ sinceStart'[c] = (IF c = e THEN 0 ELSE sinceStart[c])
      /\ UNCHANGED <<phase, outcome>> /\ todo["slow"] # {}
  BY StartDoes DEF RN!Lanes
<1>2. passAge["slow"] \in Nat /\ e \in todo["slow"]
  BY <1>1, Ranges, Order DEF RN!Lanes
<1>3. /\ RN!Used("slow")' = passAge["slow"] /\ RN!Used("slow") = passAge["slow"]
      /\ ~RN!Runs("slow", c) /\ (RN!Runs("slow", c)' <=> c = e)
      /\ RN!InPass("slow") /\ RN!InPass("slow")' /\ RN!Patience(c)' = RN!Patience(c)
  BY <1>1, <1>2 DEF RN!Used, RN!Runs, RN!InPass, RN!Patience
<1> HIDE DEF e
<1>4. CASE c = e
  BY <1>1, <1>2, <1>3, <1>4 DEF RN!Fed
<1>5. CASE c # e
  <2>1. RN!Undue(c, passAge["slow"])' <=> RN!Undue(c, passAge["slow"])
    BY <1>1, <1>5 DEF RN!Undue
  <2> QED BY <1>1, <1>3, <1>5, <2>1 DEF RN!Fed
<1> QED BY <1>4, <1>5

LEMMA FedReturn ==
  ASSUME RN!TypeOK, RN!Modes, RN!Timed, NEW c \in RN!SlowSet, RN!Recorded(c), RN!Fed(c),
         NEW ending \in {"ok", "failed", "timeout"}, RN!Return("slow", ending)
  PROVE  RN!Fed(c)'
<1> DEFINE e == RN!First(todo["slow"])
<1>1. /\ at["slow"] = "running" /\ at'["slow"] = "pass" /\ todo'["slow"] = todo["slow"] \ {e}
      /\ passAge'["slow"] = passAge["slow"] /\ UNCHANGED <<sinceStart, phase>>
      /\ e \in todo["slow"] /\ e \in RN!AllSet /\ (tick'["slow"] <=> tick["slow"])
  BY ReturnDoes DEF RN!Lanes
<1>2. passAge["slow"] \in Nat /\ spent["slow"] \in Nat /\ todo["slow"] \in SUBSET RN!AllSet
  BY Ranges DEF RN!Lanes
<1>3. /\ RN!Used("slow")' = passAge["slow"] /\ RN!Used("slow") = passAge["slow"] - spent["slow"]
      /\ RN!Used("slow") >= 0 /\ spent["slow"] <= Timeouts[e]
      /\ Timeouts[e] \in Nat /\ RN!Total(todo["slow"]) = Timeouts[e] + RN!Total(todo["slow"] \ {e})
      /\ RN!Total(todo["slow"] \ {e}) \in Nat
      /\ RN!InPass("slow") /\ RN!InPass("slow")' /\ ~RN!Runs("slow", c)'
      /\ (RN!Runs("slow", c) <=> c = e)
  <2>1. "slow" \in RN!Lanes
    BY DEF RN!Lanes
  <2>2. /\ Timeouts[e] \in Nat /\ RN!Total(todo["slow"]) = Timeouts[e] + RN!Total(todo["slow"] \ {e})
        /\ RN!Total(todo["slow"] \ {e}) \in Nat
    <3> HIDE DEF RN!Total
    <3> QED BY <1>1, <1>2, Totals
  <2> QED BY <1>1, <2>1, <2>2 DEF RN!Used, RN!InPass, RN!Runs, RN!Timed
<1>4. CASE c = e
  <2>1. sinceStart[c] = spent["slow"] /\ c \notin todo'["slow"]
    BY <1>1, <1>3, <1>4 DEF RN!Recorded
  <2>2. sinceStart'[c] <= passAge'["slow"]
    <3> HIDE DEF e
    <3> QED BY <1>1, <1>2, <1>3, <2>1
  <2> QED BY <1>1, <1>3, <2>1, <2>2 DEF RN!Fed
<1>5. CASE c # e
  <2>1. outcome'[c] = outcome[c]
    BY <1>5, ReturnDoes DEF RN!Lanes
  <2>2. /\ RN!Patience(c)' = RN!Patience(c)
        /\ (RN!Undue(c, passAge["slow"])' <=> RN!Undue(c, passAge["slow"]))
    BY <1>1, <2>1 DEF RN!Patience, RN!Undue
  <2>3. c \in todo'["slow"] <=> c \in todo["slow"]
    BY <1>1, <1>5
  <2>4. RN!Used("slow") + RN!Total(todo["slow"]) <= RN!Others(c) =>
          RN!Used("slow")' + RN!Total(todo'["slow"]) <= RN!Others(c)
    <3>1. RN!Total(todo'["slow"]) = RN!Total(todo["slow"] \ {e})
      BY <1>1
    <3> HIDE DEF e
    <3> QED BY <1>2, <1>3, <3>1, LastAgeIs
  <2> HIDE DEF e
  <2> QED BY <1>1, <1>3, <1>5, <2>2, <2>3, <2>4 DEF RN!Fed
<1> QED BY <1>4, <1>5

(* A slow pass that ends was no longer than it may be. *)
LEMMA FedEnd ==
  ASSUME RN!TypeOK, RN!Modes, RN!Timed, ~stopped, NEW c \in RN!SlowSet, RN!Fed(c), RN!EndPass("slow")
  PROVE  RN!Fed(c)'
<1>1. /\ at["slow"] = "pass" /\ at'["slow"] = "waiting" /\ (tick'["slow"] <=> tick["slow"])
      /\ todo["slow"] = {} /\ UNCHANGED <<phase, outcome, sinceStart>>
  BY EndPassDoes DEF RN!Lanes, RN!Ended, RN!PassOver
<1>2. passAge["slow"] \in Nat /\ sinceStart[c] \in Int /\ phase \in Nat
  BY Ranges, LastAgeIs DEF RN!Lanes
<1>3. RN!Patience(c)' = RN!Patience(c) /\ RN!Used("slow") = passAge["slow"] /\ ~RN!InPass("slow")'
      /\ \A age : RN!Undue(c, age) <=> outcome[c] # "failed" /\ sinceStart[c] < Cadence[c] - Interval \div 2 + age
  BY <1>1 DEF RN!Patience, RN!Used, RN!InPass, RN!Undue
<1>4. RN!Total(todo["slow"]) = 0 /\ passAge["slow"] <= RN!Total(RN!SlowSet)
  <2>1. RN!Used("slow") + RN!Total(todo["slow"]) <= RN!Total(RN!SlowSet)
    BY <1>1 DEF RN!Timed, RN!InPass, RN!Members, RN!Lanes
  <2>2. RN!Total(todo["slow"]) = 0
    BY <1>1, Totals
  <2> QED BY <1>2, <1>3, <2>1, <2>2, PatienceIs
<1>5. \/ sinceStart[c] <= passAge["slow"]
      \/ RN!Undue(c, passAge["slow"]) /\ passAge["slow"] <= RN!Others(c)
  BY <1>1, <1>2, <1>3, <1>4 DEF RN!Fed, RN!InPass
<1>6. ~tick["slow"] => passAge["slow"] <= phase
  BY <1>1 DEF RN!Fed, RN!InPass
<1>7. sinceStart[c] + RN!Others(c) <= RN!Patience(c)
  <2>1. CASE sinceStart[c] <= passAge["slow"]
    BY <1>2, <1>4, <2>1, PatienceIs, LastAgeIs
  <2>2. CASE RN!Undue(c, passAge["slow"]) /\ passAge["slow"] <= RN!Others(c)
    <3>1. outcome[c] # "failed" /\ sinceStart[c] < Cadence[c] - Interval \div 2 + passAge["slow"]
      BY <2>2 DEF RN!Undue
    <3> QED BY <1>2, <2>2, <3>1, PatienceIs, LastAgeIs, Phases
  <2> QED BY <1>5, <2>1, <2>2
<1>8. ~tick["slow"] => sinceStart[c] <= phase \/ RN!Undue(c, phase)
  <2> SUFFICES ASSUME passAge["slow"] <= phase PROVE sinceStart[c] <= phase \/ RN!Undue(c, phase)
    BY <1>6
  <2>1. CASE sinceStart[c] <= passAge["slow"]
    BY <1>2, <2>1
  <2>2. CASE RN!Undue(c, passAge["slow"])
    <3>1. outcome[c] # "failed" /\ sinceStart[c] < Cadence[c] - Interval \div 2 + passAge["slow"]
      BY <2>2 DEF RN!Undue
    <3>2. sinceStart[c] < Cadence[c] - Interval \div 2 + phase
      BY <1>2, <3>1, LastAgeIs, Phases
    <3> QED BY <3>1, <3>2 DEF RN!Undue
  <2> QED BY <1>5, <2>1, <2>2
<1>9. RN!Undue(c, phase)' <=> RN!Undue(c, phase)
  BY <1>1 DEF RN!Undue
<1> QED BY <1>1, <1>3, <1>7, <1>8, <1>9 DEF RN!Fed

LEMMA FedTick ==
  ASSUME RN!TypeOK, RN!Modes, RN!Timed, RN!Service, ~stopped, NEW c \in RN!SlowSet, RN!Fed(c), RN!Tick
  PROVE  RN!Fed(c)'
<1> DEFINE s == sinceStart[c]
           C == Cadence[c]
           h == Interval \div 2
           Q == RN!Patience(c) - RN!Others(c)
<1>0. "slow" \in RN!Lanes
  BY DEF RN!Lanes
<1>1. /\ RN!MayWait("slow") /\ at'["slow"] = at["slow"] /\ todo'["slow"] = todo["slow"]
      /\ at["slow"] = "running" => passAge'["slow"] = passAge["slow"] + 1 /\ spent'["slow"] = spent["slow"] + 1
      /\ (tick["slow"] => tick'["slow"]) /\ (phase' = 0 => tick'["slow"])
      /\ outcome' = outcome /\ sinceStart'[c] = RN!Older(s, RN!Eldest(c))
      /\ phase' = IF phase + 1 = Interval THEN 0 ELSE phase + 1
  BY <1>0, TickDoes
<1>2. /\ passAge["slow"] \in Nat /\ spent["slow"] \in Nat /\ s \in Int /\ phase \in 0 .. Interval - 1
      /\ s \in -1 .. RN!Eldest(c)
  BY <1>0, Ranges, LastAgeIs
<1>3. sinceStart'[c] \in Int /\ sinceStart'[c] <= s + 1
  <2>1. RN!Eldest(c) \in Nat
    BY LastAgeIs
  <2> HIDE DEF s
  <2> QED BY <1>1, <1>2, <2>1, OlderIs
<1>4. RN!Patience(c)' = RN!Patience(c)
  BY <1>1 DEF RN!Patience
<1>5. /\ C \in Nat /\ h \in Nat /\ RN!Others(c) \in Nat /\ RN!Patience(c) \in Nat /\ Interval \in Nat
      /\ RN!Patience(c) >= RN!Others(c) + Interval
      /\ outcome[c] # "failed" => RN!Patience(c) >= RN!Others(c) + C - h + Interval
  BY LastAgeIs, PatienceIs, Phases, RunnerAssumption
<1>6. \A age : RN!Undue(c, age) <=> outcome[c] # "failed" /\ s < C - h + age
  BY DEF RN!Undue
<1>7. phase' \in Nat /\ (~tick'["slow"] => phase' = phase + 1 /\ ~tick["slow"])
  BY <1>1, <1>2
<1>8. CASE at["slow"] = "waiting"
  <2>1. ~tick["slow"]
    BY <1>1, <1>8 DEF RN!MayWait
  <2>2. s <= phase \/ (outcome[c] # "failed" /\ s < C - h + phase)
    BY <1>6, <1>8, <2>1 DEF RN!Fed
  <2>3. sinceStart'[c] + RN!Others(c) <= RN!Patience(c)
    <3> HIDE DEF s, C, h
    <3> QED BY <1>2, <1>3, <1>5, <2>2
  <2>4. sinceStart'[c] <= phase + 1 \/ (outcome[c] # "failed" /\ sinceStart'[c] < C - h + (phase + 1))
    <3> HIDE DEF s, C, h
    <3> QED BY <1>2, <1>3, <1>5, <2>2
  <2>5. RN!Undue(c, phase)' <=> outcome'[c] # "failed" /\ sinceStart'[c] < C - h + phase'
    BY DEF RN!Undue
  <2>6. ~tick'["slow"] => sinceStart'[c] <= phase' \/ RN!Undue(c, phase)'
    BY <1>1, <1>7, <2>4, <2>5
  <2> QED BY <1>1, <1>4, <1>8, <2>3, <2>6 DEF RN!Fed, RN!InPass
<1>9. CASE at["slow"] = "running"
  <2>1. passAge'["slow"] = passAge["slow"] + 1 /\ spent'["slow"] = spent["slow"] + 1
    BY <1>1, <1>9
  <2>2. RN!Used("slow")' = RN!Used("slow")
    <3>1. RN!Used("slow")' = passAge'["slow"] - spent'["slow"] /\ RN!Used("slow") = passAge["slow"] - spent["slow"]
      BY <1>1, <1>9 DEF RN!Used
    <3> QED BY <1>2, <2>1, <3>1
  <2>3. (RN!Runs("slow", c)' <=> RN!Runs("slow", c)) /\ RN!InPass("slow") /\ RN!InPass("slow")'
    BY <1>1, <1>9 DEF RN!Runs, RN!InPass
  <2>4. ~tick'["slow"] => passAge'["slow"] <= phase'
    <3>1. ~tick["slow"] => passAge["slow"] <= phase
      BY <2>3 DEF RN!Fed
    <3> QED BY <1>2, <1>7, <2>1, <3>1
  <2>5. c \in todo'["slow"] /\ ~RN!Runs("slow", c)' =>
          sinceStart'[c] + RN!Others(c) <= RN!Patience(c)' + passAge'["slow"]
    <3>1. c \in todo["slow"] /\ ~RN!Runs("slow", c) =>
            s + RN!Others(c) <= RN!Patience(c) + passAge["slow"]
      BY <2>3 DEF RN!Fed
    <3>2. c \in todo'["slow"] <=> c \in todo["slow"]
      BY <1>1
    <3> HIDE DEF s
    <3> QED BY <1>2, <1>3, <1>4, <1>5, <2>1, <2>3, <3>1, <3>2
  <2>6. RN!Undue(c, passAge["slow"]) => RN!Undue(c, passAge["slow"])'
    <3>1. RN!Undue(c, passAge["slow"])' <=> outcome'[c] # "failed" /\ sinceStart'[c] < C - h + passAge'["slow"]
      BY DEF RN!Undue
    <3>2. RN!Undue(c, passAge["slow"]) <=> outcome[c] # "failed" /\ s < C - h + passAge["slow"]
      BY DEF RN!Undue
    <3>3. s < C - h + passAge["slow"] => sinceStart'[c] < C - h + passAge'["slow"]
      <4> HIDE DEF s, C, h
      <4> QED BY <1>2, <1>3, <1>5, <2>1
    <3> QED BY <1>1, <3>1, <3>2, <3>3
  <2>7. s <= passAge["slow"] => sinceStart'[c] <= passAge'["slow"]
    <3> HIDE DEF s
    <3> QED BY <1>2, <1>3, <2>1
  <2>8. c \notin todo'["slow"] =>
          \/ sinceStart'[c] <= passAge'["slow"]
          \/ RN!Undue(c, passAge["slow"])' /\ RN!Used("slow")' + RN!Total(todo'["slow"]) <= RN!Others(c)
    BY <1>1, <2>2, <2>3, <2>6, <2>7 DEF RN!Fed
  <2> QED BY <1>1, <1>9, <2>4, <2>5, <2>8 DEF RN!Fed
<1>10. at["slow"] \in {"waiting", "running"}
  <2>1. at["slow"] \notin {"off", "stopped", "queueing"}
    BY DEF RN!Modes
  <2> QED BY <1>1, <2>1 DEF RN!MayWait
<1> QED BY <1>8, <1>9, <1>10

LEMMA FedStep ==
  ASSUME RN!TypeOK, RN!Modes, RN!Timed, RN!Service, NEW c \in RN!SlowSet, RN!Recorded(c),
         ~stopped => RN!Fed(c), RN!Next, ~stopped'
  PROVE  RN!Fed(c)'
<1>0. "slow" \in RN!Lanes /\ at["all"] = "off"
  BY DEF RN!Lanes, RN!Service
<1>1. CASE RN!Stop
  BY <1>1, StopDoes
<1>2. CASE RN!Tick
  BY <1>2, TickDoes, FedTick
<1>3. CASE RN!Completed
  BY <1>0, <1>3, CompletedDoes, FedStays
<1>4. ASSUME NEW l \in RN!Lanes, RN!Begin(l) PROVE RN!Fed(c)'
  BY <1>0, <1>4, BeginDoes, FedStays, FedBegin
<1>5. ASSUME NEW l \in RN!Lanes, RN!EndPass(l) PROVE RN!Fed(c)'
  BY <1>0, <1>5, EndPassDoes, FedStays, FedEnd
<1>6. ASSUME NEW l \in RN!Lanes, RN!Start(l) PROVE RN!Fed(c)'
  <2>1. CASE l = "slow"
    BY <1>6, <2>1, StartDoes, FedStart
  <2>2. CASE l # "slow"
    <3>1. RN!First(todo[l]) \notin RN!SlowSet
      <4>1. at[l] = "pass" /\ todo[l] # {} /\ l = "fast"
        BY <1>0, <1>6, <2>2, StartDoes DEF RN!Lanes
      <4> QED BY <4>1, Ranges, Order, Collectors DEF RN!Members
    <3> QED BY <1>0, <1>6, <2>2, <3>1, StartDoes, FedStays
  <2> QED BY <2>1, <2>2
<1>7. ASSUME NEW l \in RN!Lanes, NEW ending \in {"ok", "failed", "timeout"}, RN!Return(l, ending)
      PROVE  RN!Fed(c)'
  <2>0. ~stopped /\ UNCHANGED <<phase, sinceStart>>
    BY <1>7, ReturnDoes
  <2>1. CASE l = "slow"
    BY <1>7, <2>0, <2>1, FedReturn
  <2>2. CASE l # "slow"
    <3>1. RN!First(todo[l]) \notin RN!SlowSet
      <4>1. RN!First(todo[l]) \in todo[l] /\ l = "fast"
        BY <1>0, <1>7, <2>2, ReturnDoes DEF RN!Lanes
      <4> QED BY <4>1, Ranges, Collectors DEF RN!Members
    <3>2. Alike("slow") /\ outcome' = outcome
      BY <1>0, <1>7, <2>2, <3>1, ReturnDoes
    <3> QED BY <2>0, <3>2, FedStays
  <2> QED BY <2>1, <2>2
<1> QED BY <1>1, <1>2, <1>3, <1>4, <1>5, <1>6, <1>7 DEF RN!Next

(* A single run. *)
LEMMA FedOnceStep ==
  ASSUME RN!TypeOK, RN!Modes, RN!Timed, ~RN!Service, NEW c \in RN!SlowSet, RN!FedOnce(c), RN!Next
  PROVE  RN!FedOnce(c)'
<1> DEFINE s == sinceStart[c]
           T == RN!Total(RN!SlowSet)
           a == "all"
           e == RN!First(todo[a])
<1>0. /\ a \in RN!Lanes /\ at["fast"] = "off" /\ at["slow"] = "off" /\ at[a] # "off" /\ at[a] # "queueing"
      /\ \A l \in RN!Lanes : at[l] # "off" => l = a
  BY DEF RN!Lanes, RN!Service, RN!Modes
<1>1. /\ spent[a] \in Nat /\ passAge[a] \in Nat /\ todo[a] \in SUBSET RN!AllSet /\ s \in Int
      /\ s \in -1 .. RN!Eldest(c) /\ T \in Nat
      /\ RN!Total(todo[a]) \in Nat /\ RN!Eldest(c) \in Nat
      /\ at[a] \in {"off", "waiting", "pass", "running", "queueing", "stopped"}
  BY <1>0, Ranges, LastAgeIs, Totals, Collectors
<1>2. CASE RN!Stop
  <2>1. /\ at'[a] = IF at[a] = "waiting" THEN "stopped" ELSE at[a]
        /\ UNCHANGED <<todo, spent, sinceStart>>
    BY <1>0, <1>2, StopDoes
  <2>2. CASE at[a] = "waiting"
    <3>1. s = -1 /\ at'[a] = "stopped"
      BY <2>1, <2>2 DEF RN!FedOnce, RN!Never
    <3>2. -1 <= T
      BY <1>1
    <3> QED BY <2>1, <3>1, <3>2 DEF RN!FedOnce, RN!InPass
  <2>3. CASE at[a] # "waiting"
    BY <2>1, <2>3 DEF RN!FedOnce, RN!InPass
  <2> QED BY <2>2, <2>3
<1>3. CASE RN!Tick
  <2>1. /\ RN!MayWait(a) /\ at'[a] = at[a] /\ todo'[a] = todo[a]
        /\ at[a] = "running" => spent'[a] = spent[a] + 1
        /\ sinceStart'[c] = RN!Older(s, RN!Eldest(c)) /\ at[a] # "stopped"
    BY <1>0, <1>3, TickDoes
  <2>2. sinceStart'[c] \in Int /\ sinceStart'[c] <= s + 1 /\ (sinceStart'[c] = -1 <=> s = -1)
    <3> HIDE DEF s
    <3>1. s \in Int /\ RN!Eldest(c) \in Nat /\ s \in -1 .. RN!Eldest(c)
      BY <1>1
    <3>2. /\ RN!Older(s, RN!Eldest(c)) \in -1 .. RN!Eldest(c) /\ RN!Older(s, RN!Eldest(c)) <= s + 1
          /\ RN!Older(s, RN!Eldest(c)) = -1 <=> s = -1
      BY <3>1, OlderIs
    <3> QED BY <2>1, <3>1, <3>2
  <2>3. CASE at[a] = "waiting"
    BY <2>1, <2>2, <2>3 DEF RN!FedOnce, RN!InPass, RN!Never
  <2>4. CASE at[a] = "running"
    <3>1. s # -1 => s + RN!Total(todo[a]) <= T + spent[a]
      BY <2>4 DEF RN!FedOnce, RN!InPass, RN!Never
    <3>2. sinceStart'[c] # -1 => sinceStart'[c] + RN!Total(todo[a]) <= T + spent'[a]
      <4>1. spent'[a] = spent[a] + 1
        BY <2>1, <2>4
      <4> HIDE DEF s, T
      <4> QED BY <1>1, <2>2, <3>1, <4>1
    <3> QED BY <2>1, <2>4, <3>2 DEF RN!FedOnce, RN!InPass, RN!Never
  <2> QED BY <1>0, <2>1, <2>3, <2>4 DEF RN!MayWait
<1>4. CASE RN!Completed
  BY <1>0, <1>4, CompletedDoes
<1>5. ASSUME NEW l \in RN!Lanes, RN!Begin(l) PROVE RN!FedOnce(c)'
  <2>1. l = a
    BY <1>0, <1>5, BeginDoes
  <2>2. at[a] = "waiting" /\ at'[a] = "pass" /\ UNCHANGED sinceStart
    BY <1>5, <2>1, BeginDoes
  <2> QED BY <2>2 DEF RN!FedOnce, RN!InPass
<1>6. ASSUME NEW l \in RN!Lanes, RN!Start(l) PROVE RN!FedOnce(c)'
  <2>1. l = a
    BY <1>0, <1>6, StartDoes
  <2>2. /\ at[a] = "pass" /\ at'[a] = "running" /\ spent'[a] = 0 /\ todo'[a] = todo[a] /\ todo[a] # {}
        /\ sinceStart'[c] = IF c = e THEN 0 ELSE s
    BY <1>6, <2>1, StartDoes
  <2>3. sinceStart'[c] # -1 => sinceStart'[c] + RN!Total(todo[a]) <= T + 0
    <3>1. CASE c = e
      <4>1. e \in todo[a] /\ \A d \in todo[a] \ {e} : RN!Precedes(e, d)
        BY <1>1, <2>2, Order
      <4>2. todo[a] \in SUBSET RN!SlowSet /\ RN!SlowSet \in SUBSET RN!AllSet
        BY <1>1, <3>1, <4>1, Order, Collectors
      <4>3. RN!Total(todo[a]) <= T
        BY <4>2, Totals
      <4>4. sinceStart'[c] = 0
        BY <2>2, <3>1
      <4> HIDE DEF T
      <4> QED BY <1>1, <4>3, <4>4
    <3>2. CASE c # e
      BY <2>2, <3>2 DEF RN!FedOnce, RN!InPass, RN!Never
    <3> QED BY <3>1, <3>2
  <2> HIDE DEF e
  <2> QED BY <2>2, <2>3 DEF RN!FedOnce, RN!InPass, RN!Never
<1>7. ASSUME NEW l \in RN!Lanes, RN!EndPass(l) PROVE RN!FedOnce(c)'
  <2>1. l = a
    BY <1>0, <1>7, EndPassDoes
  <2>2. at[a] = "pass" /\ at'[a] = "stopped" /\ UNCHANGED sinceStart
    BY <1>7, <2>1, EndPassDoes
  <2>3. s # -1 => s + RN!Total(todo[a]) <= T + 0
    BY <2>2 DEF RN!FedOnce, RN!InPass, RN!Never
  <2>4. s <= T
    <3> HIDE DEF s, T
    <3> QED BY <1>1, <2>3
  <2> QED BY <2>2, <2>4 DEF RN!FedOnce, RN!InPass
<1>8. ASSUME NEW l \in RN!Lanes, NEW ending \in {"ok", "failed", "timeout"}, RN!Return(l, ending)
      PROVE  RN!FedOnce(c)'
  <2>1. l = a
    BY <1>0, <1>8, ReturnDoes
  <2>2. /\ at[a] = "running" /\ at'[a] = "pass" /\ todo'[a] = todo[a] \ {e} /\ UNCHANGED sinceStart
        /\ e \in todo[a]
    BY <1>8, <2>1, ReturnDoes
  <2>3. s # -1 => s + RN!Total(todo[a]) <= T + spent[a]
    BY <2>2 DEF RN!FedOnce, RN!InPass, RN!Never
  <2>4. /\ Timeouts[e] \in Nat /\ RN!Total(todo[a]) = Timeouts[e] + RN!Total(todo[a] \ {e})
        /\ RN!Total(todo[a] \ {e}) \in Nat
    <3> HIDE DEF e
    <3> QED BY <1>1, <2>2, Totals
  <2>5. spent[a] <= Timeouts[e]
    BY <1>0, <2>2 DEF RN!Timed
  <2>6. s # -1 => s + RN!Total(todo[a] \ {e}) <= T + 0
    <3> HIDE DEF s, T, e
    <3> QED BY <1>1, <2>3, <2>4, <2>5
  <2> HIDE DEF e
  <2> QED BY <2>2, <2>6 DEF RN!FedOnce, RN!InPass, RN!Never
<1> QED BY <1>2, <1>3, <1>4, <1>5, <1>6, <1>7, <1>8 DEF RN!Next
-----------------------------------------------------------------------------
LEMMA RunnerStep == ASSUME RN!Inductive, RN!Next PROVE RN!Inductive'
<1> USE DEF RN!Inductive
<1>1. RN!TypeOK' /\ RN!Modes'
  <2>1. ASSUME NEW l \in RN!Lanes,
               \/ RN!Begin(l) \/ RN!Start(l) \/ RN!EndPass(l)
               \/ \E ending \in {"ok", "failed", "timeout"} : RN!Return(l, ending)
        PROVE  RN!TypeOK' /\ RN!Modes'
    <3>1. ASSUME NEW ending \in {"ok", "failed", "timeout"}, RN!Return(l, ending)
          PROVE  RN!TypeOK' /\ RN!Modes'
      BY <3>1, ReturnDoes
    <3> QED BY <2>1, <3>1, BeginDoes, StartDoes, EndPassDoes
  <2>2. ASSUME RN!Stop \/ RN!Tick \/ RN!Completed PROVE RN!TypeOK' /\ RN!Modes'
    BY <2>2, StopDoes, TickDoes, CompletedDoes
  <2> QED BY <2>1, <2>2 DEF RN!Next
<1>2. RN!Timed' /\ RN!Watched'
  BY TimedStep, WatchedStep
<1>3. RN!Service' => \A c \in RN!SlowSet : RN!Recorded(c)' /\ (~stopped' => RN!Fed(c)')
  BY ServiceStays, RecordedStep, FedStep
<1>4. ~RN!Service' => \A c \in RN!SlowSet : RN!FedOnce(c)'
  BY ServiceStays, FedOnceStep
<1> QED BY <1>1, <1>2, <1>3, <1>4

LEMMA RunnerInit == ASSUME RN!Init PROVE RN!Inductive
<1>1. /\ at \in {[fast |-> "waiting", slow |-> "waiting", all |-> "off"],
                 [fast |-> "off", slow |-> "off", all |-> "waiting"]}
      /\ todo = [l \in RN!Lanes |-> {}] /\ spent = [l \in RN!Lanes |-> 0]
      /\ passAge = [l \in RN!Lanes |-> 0] /\ tick = [l \in RN!Lanes |-> TRUE] /\ phase = 0
      /\ sinceRun = [c \in RN!SlowSet |-> -1] /\ sinceTimeout = [c \in RN!SlowSet |-> -1]
      /\ sinceStart = [c \in RN!SlowSet |-> -1] /\ outcome = [c \in RN!SlowSet |-> "ok"]
      /\ sinceDone = 0 /\ stopped = FALSE
  BY DEF RN!Init, RN!Never
<1>2. /\ at \in [RN!Lanes -> {"off", "waiting"}]
      /\ (at["all"] = "off" <=> at["fast"] # "off") /\ (at["all"] = "off" <=> at["slow"] # "off")
  BY <1>1 DEF RN!Lanes
<1>3. RN!TypeOK
  <2>1. \A c \in RN!SlowSet : RN!Eldest(c) \in Nat /\ Cadence[c] \in Nat
    BY Collectors, Totals, RunnerAssumption DEF RN!Eldest
  <2>2. phase \in 0 .. Interval - 1 /\ sinceDone \in Nat
    BY <1>1, RunnerAssumption
  <2>3. stopped \in BOOLEAN /\ tick \in [RN!Lanes -> BOOLEAN]
    BY <1>1
  <2>4. at \in [RN!Lanes -> {"off", "waiting", "pass", "running", "queueing", "stopped"}]
        /\ \A l \in RN!Lanes : at[l] # "running"
    BY <1>2
  <2>5. /\ todo \in [RN!Lanes -> SUBSET RN!AllSet] /\ spent \in [RN!Lanes -> Nat]
        /\ passAge \in [RN!Lanes -> Nat]
    BY <1>1
  <2>6. \A c \in RN!SlowSet :
          /\ sinceRun[c] \in RN!Never .. Cadence[c] /\ sinceTimeout[c] \in RN!Never .. Cadence[c]
          /\ sinceStart[c] \in RN!Never .. RN!Eldest(c) /\ outcome[c] \in {"ok", "failed", "timeout"}
    BY <1>1, <2>1 DEF RN!Never
  <2> QED BY <2>2, <2>3, <2>4, <2>5, <2>6 DEF RN!TypeOK
<1>4. RN!Modes
  <2>1. /\ sinceRun \in [RN!SlowSet -> Int] /\ sinceTimeout \in [RN!SlowSet -> Int]
        /\ sinceStart \in [RN!SlowSet -> Int] /\ outcome \in [RN!SlowSet -> {"ok", "failed", "timeout"}]
    BY <1>1
  <2>2. \A l \in RN!Lanes : at[l] \in {"off", "waiting"} /\ todo[l] = {}
    BY <1>1, <1>2
  <2> QED BY <1>2, <2>1, <2>2 DEF RN!Modes, RN!Service, RN!Lanes
<1>5. \A l \in RN!Lanes : at[l] \in {"off", "waiting"} /\ tick[l] /\ todo[l] = {}
  BY <1>1, <1>2
<1>6. RN!Timed
  BY <1>5 DEF RN!Timed, RN!InPass
<1>7. RN!Watched
  BY <1>1, <1>5, RunnerAssumption DEF RN!Watched, RN!InPass, RN!Lanes
<1>8. ASSUME NEW c \in RN!SlowSet PROVE RN!Recorded(c) /\ RN!Fed(c) /\ RN!FedOnce(c)
  <2>1. /\ ~RN!InPass("slow") /\ ~RN!Runs("slow", c) /\ todo["slow"] = {} /\ tick["slow"]
        /\ ~RN!InPass("all") /\ at["all"] # "stopped"
    BY <1>5 DEF RN!InPass, RN!Runs, RN!Lanes
  <2>2. sinceStart[c] = -1 /\ outcome[c] # "failed"
    BY <1>1
  <2>3. RN!Recorded(c)
    BY <2>1, <2>2 DEF RN!Recorded, RN!Never
  <2>4. sinceStart[c] + RN!Others(c) <= RN!Patience(c)
    BY <1>3, <1>4, <2>2, PatienceIs, LastAgeIs, RunnerAssumption
  <2> QED BY <2>1, <2>2, <2>3, <2>4 DEF RN!Fed, RN!FedOnce, RN!Never
<1> QED BY <1>3, <1>4, <1>6, <1>7, <1>8 DEF RN!Inductive

LEMMA RunnerUnchanged == ASSUME RN!Inductive, UNCHANGED RN!vars PROVE RN!Inductive'
<1>1. UNCHANGED <<at, todo, spent, passAge, tick, phase, sinceRun, sinceTimeout, sinceStart, outcome,
                  sinceDone, stopped>>
  BY DEF RN!vars
<1>2. RN!TypeOK' /\ RN!Modes'
  BY <1>1 DEF RN!Inductive, RN!TypeOK, RN!Modes, RN!Service
<1>3. RN!Timed' /\ RN!Watched'
  BY <1>1 DEF RN!Inductive, RN!Timed, RN!Watched, RN!InPass, RN!Used
<1>4. \A l : Alike(l)
  BY <1>1 DEF Alike
<1>5. RN!Service' => \A c \in RN!SlowSet : RN!Recorded(c)' /\ (~stopped' => RN!Fed(c)')
  BY <1>1, <1>4, RecordedStays, FedStays DEF RN!Inductive, RN!Service
<1>6. ~RN!Service' => \A c \in RN!SlowSet : RN!FedOnce(c)'
  BY <1>1 DEF RN!Inductive, RN!Service, RN!FedOnce, RN!InPass
<1> QED BY <1>2, <1>3, <1>5, <1>6 DEF RN!Inductive

LEMMA RunnerNotEarly == ASSUME RN!Inductive, RN!Next PROVE RN!NotEarly
<1> DEFINE c == RN!First(todo["slow"])
<1> SUFFICES ASSUME at["slow"] = "pass", at'["slow"] = "running", sinceStart[c] # RN!Never,
                    outcome[c] # "failed"
             PROVE  sinceStart[c] >= Cadence[c] - Interval \div 2 - RN!Before(c)
  BY DEF RN!NotEarly
<1> USE DEF RN!Inductive
<1>0. "slow" \in RN!Lanes
  BY DEF RN!Lanes
<1>1. RN!Start("slow")
  <2>1. ASSUME NEW l \in RN!Lanes, RN!Begin(l) PROVE FALSE
    BY <1>0, <2>1, BeginDoes DEF Alike
  <2>2. ASSUME NEW l \in RN!Lanes, RN!EndPass(l) PROVE FALSE
    BY <1>0, <2>2, EndPassDoes DEF Alike
  <2>3. ASSUME NEW l \in RN!Lanes, NEW ending \in {"ok", "failed", "timeout"}, RN!Return(l, ending) PROVE FALSE
    BY <1>0, <2>3, ReturnDoes DEF Alike
  <2>4. ASSUME RN!Stop \/ RN!Tick \/ RN!Completed PROVE FALSE
    BY <1>0, <2>4, StopDoes, TickDoes, CompletedDoes DEF Alike
  <2>5. ASSUME NEW l \in RN!Lanes, RN!Start(l) PROVE l = "slow"
    BY <1>0, <2>5, StartDoes DEF Alike
  <2> QED BY <2>1, <2>2, <2>3, <2>4, <2>5 DEF RN!Next
<1>2. todo["slow"] # {} /\ RN!Service
  BY <1>0, <1>1, StartDoes DEF RN!Modes
<1>3. c \in todo["slow"] /\ c \in RN!SlowSet
  BY <1>0, <1>2, Ranges, Order DEF RN!Members
<1>4. RN!Recorded(c) /\ ~RN!Runs("slow", c)
  BY <1>2, <1>3 DEF RN!Runs
<1>5. RN!LastAge(c) # -1 /\ RN!LastAge(c) <= sinceStart[c] + RN!Before(c) /\ RN!Due(c)
  BY <1>3, <1>4 DEF RN!Recorded, RN!Never
<1>6. sinceStart[c] \in Int
  BY <1>3, Ranges, LastAgeIs
<1> HIDE DEF c
<1> QED BY <1>3, <1>5, <1>6, LastAgeIs, Phases

(* However long its pass may be, a collector that has not started in it    *)
(* does not wait longer than the rest take.                                *)
LEMMA RunnerFed == ASSUME RN!Inductive PROVE RN!NoStarvation
<1> USE DEF RN!Inductive
<1> SUFFICES ASSUME NEW c \in RN!SlowSet, ~stopped PROVE sinceStart[c] <= RN!Patience(c)
  BY DEF RN!NoStarvation
<1> DEFINE s == sinceStart[c]
           O == RN!Others(c)
           P == RN!Patience(c)
           T == RN!Total(RN!SlowSet)
<1>1. /\ s \in Int /\ O \in Nat /\ P \in Nat /\ T \in Nat /\ P >= O + T /\ Timeouts[c] \in Nat
      /\ T = Timeouts[c] + O /\ c \in RN!AllSet
  BY Ranges, LastAgeIs, PatienceIs
<1>2. CASE ~RN!Service
  <2>1. RN!FedOnce(c) /\ "all" \in RN!Lanes
    BY <1>2 DEF RN!Lanes
  <2>2. at["all"] \in {"waiting", "pass", "running", "stopped"} /\ todo["all"] \in SUBSET RN!AllSet
        /\ spent["all"] \in Nat
    BY <1>2, <2>1, Ranges DEF RN!Modes, RN!Service
  <2>3. RN!Total(todo["all"]) \in Nat
    BY <2>2, Totals
  <2>4. s <= T
    <3>1. CASE at["all"] \in {"waiting", "stopped"}
      BY <1>1, <2>1, <3>1 DEF RN!FedOnce, RN!Never
    <3>2. CASE at["all"] = "pass"
      <4>1. s # -1 => s + RN!Total(todo["all"]) <= T + 0
        BY <2>1, <3>2 DEF RN!FedOnce, RN!InPass, RN!Never
      <4> HIDE DEF s, T
      <4> QED BY <1>1, <2>3, <4>1
    <3>3. CASE at["all"] = "running"
      <4> DEFINE e == RN!First(todo["all"])
      <4>1. s # -1 => s + RN!Total(todo["all"]) <= T + spent["all"]
        BY <2>1, <3>3 DEF RN!FedOnce, RN!InPass, RN!Never
      <4>2. e \in todo["all"] /\ spent["all"] <= Timeouts[e]
        BY <2>1, <2>2, <3>3, Ranges, Order DEF RN!Timed
      <4> HIDE DEF e
      <4>3. Timeouts[e] \in Nat /\ RN!Total(todo["all"]) >= Timeouts[e]
        <5>1. todo["all"] \ {e} \in SUBSET RN!AllSet
          BY <2>2
        <5>2. RN!Total(todo["all"]) = Timeouts[e] + RN!Total(todo["all"] \ {e}) /\ Timeouts[e] \in Nat
              /\ RN!Total(todo["all"] \ {e}) \in Nat
          BY <2>2, <4>2, <5>1, Totals
        <5> QED BY <5>2
      <4> HIDE DEF s, T
      <4> QED BY <1>1, <2>2, <2>3, <4>1, <4>2, <4>3
    <3> QED BY <2>2, <3>1, <3>2, <3>3
  <2> HIDE DEF s, T, P, O
  <2> QED BY <1>1, <2>4 DEF s, P
<1>3. CASE RN!Service
  <2>0. "slow" \in RN!Lanes /\ RN!Fed(c) /\ RN!Recorded(c)
    BY <1>3 DEF RN!Lanes
  <2>1. /\ at["slow"] \in {"waiting", "pass", "running"} /\ todo["slow"] \in SUBSET RN!AllSet
        /\ spent["slow"] \in Nat /\ passAge["slow"] \in Nat
    BY <1>3, <2>0, Ranges DEF RN!Modes
  <2>2. CASE at["slow"] = "waiting"
    <3>1. s + O <= P
      BY <2>0, <2>2 DEF RN!Fed
    <3> HIDE DEF s, O, P
    <3> QED BY <1>1, <3>1 DEF s, P
  <2>3. CASE RN!Runs("slow", c)
    <3>1. s = spent["slow"] /\ spent["slow"] <= Timeouts[c]
      BY <2>0, <2>3 DEF RN!Recorded, RN!Runs, RN!Timed
    <3> HIDE DEF s, O, P, T
    <3> QED BY <1>1, <2>1, <3>1 DEF s, P
  <2>4. CASE RN!InPass("slow") /\ ~RN!Runs("slow", c)
    <3> DEFINE age == passAge["slow"]
               ahead == todo["slow"]
               e == RN!First(ahead)
               spare == age - RN!Used("slow")
    <3>1. RN!Used("slow") \in Int /\ RN!Used("slow") + RN!Total(ahead) <= T /\ RN!Total(ahead) \in Nat
      <4>1. RN!Used("slow") \in Int
        BY <2>1 DEF RN!Used
      <4> QED BY <2>0, <2>1, <2>4, <4>1, Totals DEF RN!Timed, RN!Members
    <3>2. \/ spare = 0
          \/ e \in ahead /\ e # c /\ spare <= Timeouts[e] /\ spare \in Int
      <4>1. CASE at["slow"] = "pass"
        BY <2>1, <4>1 DEF RN!Used
      <4>2. CASE at["slow"] = "running"
        <5>1. spare = spent["slow"]
          BY <2>1, <4>2 DEF RN!Used
        <5>2. e \in ahead /\ e # c /\ spent["slow"] <= Timeouts[e]
          BY <2>0, <2>1, <2>4, <4>2, Ranges, Order DEF RN!Runs, RN!Timed
        <5> QED BY <2>1, <5>1, <5>2
      <4> QED BY <2>1, <2>2, <2>4, <4>1, <4>2 DEF RN!InPass
    <3>3. spare <= RN!Total(ahead)
      <4> HIDE DEF ahead, spare, e
      <4>1. CASE spare = 0
        BY <3>1, <4>1
      <4>2. CASE spare # 0
        <5>1. ahead \in SUBSET RN!AllSet /\ ahead \ {e} \in SUBSET RN!AllSet
          BY <2>1 DEF ahead
        <5>2. Timeouts[e] \in Nat /\ RN!Total(ahead) = Timeouts[e] + RN!Total(ahead \ {e})
              /\ RN!Total(ahead \ {e}) \in Nat
          BY <3>2, <4>2, <5>1, Totals
        <5> QED BY <3>2, <4>2, <5>2
      <4> QED BY <4>1, <4>2
    <3>4. age <= T
      <4>1. age = RN!Used("slow") + spare
        BY <2>1, <3>1
      <4>2. spare \in Int
        BY <2>1, <3>1
      <4> HIDE DEF age, spare, T, ahead
      <4> QED BY <1>1, <3>1, <3>3, <4>1, <4>2
    <3>5. CASE c \in ahead
      <4>1. s + O <= P + age
        BY <2>0, <2>4, <3>5 DEF RN!Fed
      <4>2. age <= O
        <5> HIDE DEF ahead
        <5>1. ahead \in SUBSET RN!AllSet /\ ahead \ {c} \in SUBSET RN!AllSet
          BY <2>1 DEF ahead
        <5>2. RN!Total(ahead) = Timeouts[c] + RN!Total(ahead \ {c}) /\ RN!Total(ahead \ {c}) \in Nat
          BY <3>5, <5>1, Totals
        <5>3. spare <= RN!Total(ahead \ {c})
          <6>1. CASE spare = 0
            BY <5>2, <6>1
          <6>2. CASE spare # 0
            <7> HIDE DEF e, spare
            <7> DEFINE others == ahead \ {c}
            <7>1. e \in others /\ others \in SUBSET RN!AllSet /\ others \ {e} \in SUBSET RN!AllSet
              BY <3>2, <5>1, <6>2
            <7> HIDE DEF others
            <7>2. /\ Timeouts[e] \in Nat /\ RN!Total(others) = Timeouts[e] + RN!Total(others \ {e})
                  /\ RN!Total(others \ {e}) \in Nat
              BY <7>1, Totals
            <7> QED BY <3>2, <6>2, <7>2 DEF others
          <6> QED BY <6>1, <6>2
        <5>4. age = RN!Used("slow") + spare /\ spare \in Int /\ age \in Nat
          BY <2>1, <3>1
        <5> HIDE DEF age, spare, T, O
        <5> QED BY <1>1, <3>1, <5>2, <5>3, <5>4
      <4>3. age \in Nat
        BY <2>1
      <4> HIDE DEF s, O, P, T, age
      <4> QED BY <1>1, <4>1, <4>2, <4>3 DEF s, P
    <3>6. CASE c \notin ahead
      <4>1. \/ s <= age
            \/ /\ outcome[c] # "failed" /\ s < Cadence[c] - Interval \div 2 + age
               /\ RN!Used("slow") + RN!Total(ahead) <= O
        BY <2>0, <2>4, <3>6 DEF RN!Fed, RN!Undue
      <4>2. CASE s <= age
        <5>1. age \in Nat
          BY <2>1
        <5> HIDE DEF s, O, P, T, age
        <5> QED BY <1>1, <3>4, <4>2, <5>1 DEF s, P
      <4>3. CASE /\ outcome[c] # "failed" /\ s < Cadence[c] - Interval \div 2 + age
                 /\ RN!Used("slow") + RN!Total(ahead) <= O
        <5>1. age = RN!Used("slow") + spare /\ spare \in Int /\ age \in Nat
          BY <2>1, <3>1
        <5>2. P >= O + Cadence[c] - Interval \div 2 + O /\ Cadence[c] \in Nat /\ Interval \div 2 \in Nat
          BY <4>3, PatienceIs, LastAgeIs, Phases
        <5> DEFINE h == Interval \div 2
                   C == Cadence[c]
        <5>3. /\ s < C - h + age /\ RN!Used("slow") + RN!Total(ahead) <= O /\ P >= O + C - h + O
              /\ C \in Nat /\ h \in Nat
          BY <4>3, <5>2
        <5> HIDE DEF s, O, P, T, age, spare, ahead, h, C
        <5>4. age <= O
          BY <1>1, <3>1, <3>3, <5>1, <5>3
        <5> QED BY <1>1, <5>1, <5>3, <5>4 DEF s, P
      <4> QED BY <4>1, <4>2, <4>3
    <3> QED BY <3>5, <3>6
  <2> QED BY <2>1, <2>2, <2>3, <2>4 DEF RN!InPass
<1> QED BY <1>2, <1>3
-----------------------------------------------------------------------------
(* The kernel (Kernel) *)

LEMMA KernelInit == ASSUME KE!Init PROVE KE!Inductive
BY KernelAssumption
  DEF KE!Init, KE!Inductive, KE!TypeOK, KE!Kept, KE!Told, KE!Followed, KE!Bounded, KE!Fresh,
      KE!None, KE!Entries

(* The journal is a list of times. *)
LEMMA Journal ==
  ASSUME KE!Inductive
  PROVE  /\ Len(journal) \in 0 .. MaxEntries /\ DOMAIN journal = 1 .. Len(journal)
         /\ \A i \in DOMAIN journal : i \in Nat /\ i \in KE!Entries /\ journal[i] \in Nat
         /\ cursor \in {-1} \cup Nat /\ KE!Earliest \in Nat
BY KernelAssumption DEF KE!Inductive, KE!TypeOK, KE!Kept, KE!Entries, KE!None, KE!Earliest

LEMMA KernelTick == ASSUME KE!Inductive, KE!Tick \/ KE!Kill PROVE KE!Inductive'
<1> USE KernelAssumption, Journal DEF KE!Inductive
<1>1. /\ UNCHANGED <<journal, durable, cursor, pc, scope, output, last, base, oomEvents, boots,
                     reported, from>>
      /\ now' \in {now, now + 1} /\ now' \in 0 .. MaxTime
      /\ kills' \in {kills, kills + 1} /\ kills' \in 0 .. MaxKills
  BY DEF KE!Tick, KE!Kill, KE!process, KE!TypeOK
<1>2. KE!TypeOK'
  BY <1>1 DEF KE!TypeOK
<1>3. last \in [oom : {KE!None} \cup Nat, checked : BOOLEAN, journal : {KE!None} \cup 0 .. now']
  BY <1>1 DEF KE!Kept, KE!TypeOK, KE!None
<1>4. KE!Kept'
  BY <1>1, <1>3 DEF KE!Kept, KE!TypeOK
<1>5. KE!Told' /\ (pc' # "output" => output' = {})
  BY <1>1 DEF KE!Told
<1>6. durable => KE!Followed'
  BY <1>1 DEF KE!Followed
<1>7. ~durable => KE!Bounded'
  BY <1>1 DEF KE!Bounded
<1> QED BY <1>1, <1>2, <1>4, <1>5, <1>6, <1>7

(* An entry that is new is neither behind the cursor nor before a boundary. *)
LEMMA KernelLog == ASSUME KE!Inductive, KE!Log PROVE KE!Inductive'
<1> USE KernelAssumption, Journal DEF KE!Inductive
<1>1. /\ Len(journal) < MaxEntries /\ journal' = Append(journal, now)
      /\ UNCHANGED <<now, kills, durable, cursor, pc, scope, output, last, base, oomEvents, boots,
                     reported, from>>
  BY DEF KE!Log, KE!process
<1> DEFINE n == Len(journal) + 1
<1>2. /\ journal' \in Seq(0 .. MaxTime) /\ Len(journal') = n /\ DOMAIN journal' = 1 .. n
      /\ journal'[n] = now /\ \A i \in DOMAIN journal : journal'[i] = journal[i]
      /\ DOMAIN journal \subseteq DOMAIN journal'
  BY <1>1 DEF KE!TypeOK
<1>3. KE!TypeOK'
  BY <1>1, <1>2 DEF KE!TypeOK
<1>4. KE!Kept' /\ KE!Told' /\ (pc' # "output" => output' = {})
  BY <1>1, <1>2 DEF KE!Kept, KE!Told
<1>5. n > cursor /\ n \in KE!Entries
  BY <1>1 DEF KE!TypeOK, KE!None, KE!Entries
<1>6. durable => KE!Followed'
  BY <1>1, <1>2, <1>5 DEF KE!Followed
<1>7. ~durable => KE!Bounded'
  BY <1>1, <1>2 DEF KE!Bounded, KE!Kept, KE!TypeOK, KE!None
<1> QED BY <1>1, <1>3, <1>4, <1>6, <1>7

LEMMA KernelRestart == ASSUME KE!Inductive, KE!Restart PROVE KE!Inductive'
<1> USE KernelAssumption, Journal DEF KE!Inductive
<1>1. /\ pc' = "idle" /\ output' = {} /\ last' = KE!Fresh /\ base' = -1 /\ oomEvents' = 0 /\ boots' = 0
      /\ from' = -1 /\ UNCHANGED <<now, kills, journal, durable, cursor, scope, reported>>
  BY DEF KE!Restart, KE!None
<1>2. KE!TypeOK' /\ KE!Kept' /\ KE!Told'
  BY <1>1 DEF KE!TypeOK, KE!Kept, KE!Told, KE!Fresh, KE!None
<1>3. durable => KE!Followed'
  BY <1>1 DEF KE!Followed, KE!None
<1>4. ~durable => KE!Bounded'
  BY <1>1 DEF KE!Bounded, KE!Fresh, KE!None
<1> QED BY <1>1, <1>2, <1>3, <1>4

(* Steps that neither ask the journal nor report from it. *)
LEMMA KernelReads ==
  ASSUME KE!Inductive, KE!Begin \/ KE!ReadOOM \/ KE!ReadBoot \/ KE!QueryFails PROVE KE!Inductive'
<1> USE KernelAssumption, Journal DEF KE!Inductive
<1>1. /\ UNCHANGED <<now, kills, journal, durable, cursor, output, reported, from>>
      /\ pc # "output" /\ pc' # "output" /\ scope' \in {scope, now} /\ last'.journal = last.journal
      /\ pc' \in {"idle", "procfs", "stat", "journal", "output"}
  BY DEF KE!Begin, KE!ReadOOM, KE!SampleOOM, KE!ReadBoot, KE!QueryFails, KE!process, KE!Kept
<1>2. /\ last' \in [oom : {-1} \cup 0 .. kills, checked : BOOLEAN, journal : {-1} \cup 0 .. now]
      /\ base' \in {-1} \cup Nat /\ oomEvents' \in Nat /\ boots' \in 0 .. 1 /\ KE!Told'
  <2>1. /\ last \in [oom : {-1} \cup 0 .. kills, checked : BOOLEAN, journal : {-1} \cup 0 .. now]
        /\ base \in {-1} \cup Nat /\ oomEvents \in Nat /\ boots \in 0 .. 1 /\ kills \in Nat
        /\ KE!Told
    BY DEF KE!Kept, KE!TypeOK, KE!None
  <2>2. CASE UNCHANGED <<last, base, oomEvents, boots>>
    BY <2>1, <2>2, <1>1 DEF KE!Told
  <2>3. CASE KE!ReadOOM /\ KE!SampleOOM
    <3>1. /\ last'.oom = kills /\ UNCHANGED <<boots, last.checked>>
          /\ last' \in [oom : {-1} \cup 0 .. kills, checked : BOOLEAN, journal : {-1} \cup 0 .. now]
      <4> DEFINE oom == {-1} \cup 0 .. kills
      <4> DEFINE journals == {-1} \cup 0 .. now
      <4>1. last' = [last EXCEPT !.oom = kills]
        BY <2>3 DEF KE!SampleOOM
      <4>2. boots' = boots
        BY <2>3 DEF KE!ReadOOM
      <4>3. kills \in oom
        BY <2>1
      <4>4. last \in [oom : oom, checked : BOOLEAN, journal : journals]
        BY <2>1
      <4> HIDE DEF oom, journals
      <4>5. /\ last'.oom = kills /\ last'.checked = last.checked
            /\ last' \in [oom : oom, checked : BOOLEAN, journal : journals]
        BY <4>1, <4>3, <4>4
      <4> QED BY <4>2, <4>5 DEF oom, journals
    <3>2. CASE last.oom = -1
      BY <2>1, <2>3, <3>1, <3>2 DEF KE!SampleOOM, KE!Told, KE!None
    <3>3. CASE last.oom # -1
      <4>1. base # -1 /\ base + oomEvents = last.oom /\ last.oom \in 0 .. kills
        BY <2>1, <3>3 DEF KE!Told, KE!None
      <4>2. base' = base
        BY <2>3, <4>1 DEF KE!SampleOOM, KE!None
      <4>3. oomEvents' = oomEvents + (kills - last.oom)
        <5>1. last.oom # KE!None
          BY <3>3 DEF KE!None
        <5>2. CASE kills > last.oom
          BY <2>3, <5>1, <5>2 DEF KE!SampleOOM
        <5>3. CASE kills = last.oom
          BY <2>1, <2>3, <5>3 DEF KE!SampleOOM
        <5> QED BY <2>1, <4>1, <5>2, <5>3
      <4> DEFINE seen == last.oom
      <4>0. seen \in 0 .. kills /\ base + oomEvents = seen /\ base \in Nat /\ kills \in Nat
            /\ oomEvents \in Nat
        BY <2>1, <4>1
      <4>4. oomEvents' \in Nat /\ base' + oomEvents' = kills /\ boots' = boots
        <5> HIDE DEF seen
        <5>1. oomEvents' = oomEvents + (kills - seen)
          BY <4>3 DEF seen
        <5>2. oomEvents' \in Nat /\ base' + oomEvents' = kills
          BY <4>0, <4>2, <5>1
        <5> QED BY <5>2, <3>1
      <4>5. last'.oom # KE!None
        BY <2>1, <3>1 DEF KE!None
      <4>6. KE!Told'
        BY <2>1, <3>1, <4>1, <4>2, <4>4, <4>5 DEF KE!Told, KE!None
      <4> QED BY <2>1, <3>1, <4>2, <4>4, <4>6
    <3> QED BY <3>2, <3>3
  <2>4. CASE /\ KE!ReadBoot /\ ~last.checked /\ last' = [last EXCEPT !.checked = TRUE]
             /\ boots' = IF now < Recent THEN boots + 1 ELSE boots
    <3>1. boots = 0 /\ UNCHANGED <<base, oomEvents>>
      BY <2>1, <2>4 DEF KE!Told, KE!ReadBoot
    <3>2. last'.oom = last.oom /\ last'.checked = TRUE /\ boots' \in 0 .. 1
      BY <2>1, <2>4, <3>1
    <3>3. last' \in [oom : {-1} \cup 0 .. kills, checked : BOOLEAN, journal : {-1} \cup 0 .. now]
      BY <2>1, <2>4
    <3> QED BY <2>1, <3>1, <3>2, <3>3 DEF KE!Told
  <2>5. \/ UNCHANGED <<last, base, oomEvents, boots>>
        \/ KE!ReadOOM /\ KE!SampleOOM
        \/ /\ KE!ReadBoot /\ ~last.checked /\ last' = [last EXCEPT !.checked = TRUE]
           /\ boots' = IF now < Recent THEN boots + 1 ELSE boots
    BY DEF KE!Begin, KE!ReadOOM, KE!ReadBoot, KE!QueryFails, KE!process
  <2> QED BY <2>2, <2>3, <2>4, <2>5
<1>3. KE!TypeOK' /\ KE!Kept'
  BY <1>1, <1>2 DEF KE!TypeOK, KE!Kept, KE!None
<1>4. durable => KE!Followed'
  BY <1>1 DEF KE!Followed
<1>5. ~durable => KE!Bounded'
  BY <1>1 DEF KE!Bounded
<1> QED BY <1>1, <1>2, <1>3, <1>4, <1>5

(* A query returns what is behind the cursor, or at or after the boundary. *)
LEMMA KernelQuery == ASSUME KE!Inductive, KE!Query PROVE KE!Inductive'
<1> USE KernelAssumption, Journal DEF KE!Inductive
<1>1. /\ pc = "journal" /\ pc' = "output" /\ output = {} /\ output' = KE!Requested
      /\ cursor' = (IF durable /\ KE!Requested # {} THEN Len(journal) ELSE cursor)
      /\ from' = (IF from # KE!None THEN from ELSE IF ~durable THEN KE!Earliest ELSE cursor)
      /\ UNCHANGED <<now, kills, journal, durable, scope, last, base, oomEvents, boots, reported>>
  BY DEF KE!Query, KE!process
<1>2. KE!Requested \subseteq DOMAIN journal
  BY DEF KE!Requested, KE!Since
<1>3. KE!TypeOK'
  BY <1>1, <1>2 DEF KE!TypeOK, KE!None
<1>4. KE!Kept' /\ KE!Told'
  BY <1>1 DEF KE!Kept, KE!Told, KE!None
<1>5. ASSUME durable PROVE KE!Followed'
  <2>1. CASE cursor # KE!None
    <3>1. KE!Requested = {i \in DOMAIN journal : i > cursor}
      BY <1>5, <2>1 DEF KE!Requested
    <3>2. cursor' \in {cursor, Len(journal)} /\ (cursor' = cursor => output' = {} \/ cursor = Len(journal))
          /\ cursor <= Len(journal) /\ from' \in {from, cursor}
      BY <1>1, <1>5 DEF KE!TypeOK, KE!None
    <3>0. KE!Followed /\ cursor' \in Nat /\ cursor \in Nat
      BY <1>1, <1>5, <2>1 DEF KE!None
    <3>3. \A i \in KE!Entries : reported[i] <= 1 /\ (i \in output' => reported[i] = 0)
      BY <1>1, <3>0, <3>1 DEF KE!Followed
    <3>4. \A i \in KE!Entries : i > cursor' => reported[i] = 0 /\ i \notin output'
      <4> SUFFICES ASSUME NEW i \in KE!Entries, i > cursor' PROVE reported[i] = 0 /\ i \notin output'
        OBVIOUS
      <4>1. i \in Nat
        BY DEF KE!Entries
      <4>2. i > cursor
        BY <3>0, <3>2, <4>1
      <4>3. CASE cursor' = cursor
        <5>1. output' = {} \/ cursor = Len(journal)
          BY <3>2, <4>3
        <5> QED BY <1>1, <1>2, <3>0, <4>2, <5>1 DEF KE!Followed
      <4>4. CASE cursor' = Len(journal)
        BY <1>1, <1>2, <3>0, <4>1, <4>2, <4>4 DEF KE!Followed
      <4> QED BY <3>2, <4>3, <4>4
    <3>5. from' # KE!None => \A i \in DOMAIN journal : from' < i /\ i <= cursor' =>
                               reported[i] >= 1 \/ i \in output'
      <4> SUFFICES ASSUME NEW i \in DOMAIN journal, from' # KE!None, from' < i, i <= cursor',
                          i \notin output'
                   PROVE  reported[i] >= 1
        OBVIOUS
      <4>1. i <= cursor
        BY <1>1, <3>1
      <4> QED BY <1>1, <1>5, <4>1 DEF KE!Followed, KE!None
    <3>6. cursor' # KE!None
      BY <2>1, <3>2, Journal DEF KE!None
    <3> QED BY <1>1, <3>3, <3>4, <3>5, <3>6 DEF KE!Followed
  <2>2. CASE cursor = KE!None
    <3>1. \A i \in KE!Entries : reported[i] = 0 /\ i > cursor
      BY <1>5, <2>2 DEF KE!Followed, KE!None, KE!Entries
    <3>2. from' = (IF from # KE!None THEN from ELSE KE!None)
      BY <1>1, <1>5, <2>2
    <3>3. \A i \in KE!Entries : i > cursor' => i \notin KE!Requested
      BY <1>1, <1>2, <1>5 DEF KE!Entries
    <3>4. from' # KE!None => from = cursor \/ from # KE!None
      BY <3>2
    <3>5. from' = KE!None
      BY <1>1, <1>5, <2>2, <3>2 DEF KE!Followed, KE!None
    <3> QED BY <1>1, <3>1, <3>3, <3>5 DEF KE!Followed
  <2> QED BY <2>1, <2>2
<1>6. ASSUME ~durable PROVE KE!Bounded'
  <2>1. CASE from # KE!None
    <3>1. last.journal # KE!None /\ KE!Requested = {i \in DOMAIN journal : journal[i] >= last.journal}
      BY <1>1, <1>6, <2>1 DEF KE!Requested, KE!Since, KE!Bounded
    <3> QED BY <1>1, <1>6, <2>1, <3>1 DEF KE!Bounded, KE!Kept, KE!None
  <2>2. CASE from = KE!None
    <3>1. KE!Requested = {i \in DOMAIN journal : journal[i] >= KE!Earliest}
      BY <1>1, <1>6, <2>2 DEF KE!Requested, KE!Since, KE!Bounded
    <3> QED BY <1>1, <1>6, <2>2, <3>1 DEF KE!Bounded, KE!None
  <2> QED BY <2>1, <2>2
<1> QED BY <1>1, <1>3, <1>4, <1>5, <1>6

LEMMA KernelReport == ASSUME KE!Inductive, KE!Report PROVE KE!Inductive'
<1> USE KernelAssumption, Journal DEF KE!Inductive
<1>1. /\ pc = "output" /\ pc' = "idle" /\ output' = {} /\ last' = [last EXCEPT !.journal = scope]
      /\ reported' = [i \in KE!Entries |->
                        IF i \in output /\ reported[i] < 2 THEN reported[i] + 1 ELSE reported[i]]
      /\ UNCHANGED <<now, kills, journal, durable, cursor, scope, base, oomEvents, boots, from>>
  BY DEF KE!Report, KE!Boundary
<1>2. /\ last'.oom = last.oom /\ last'.checked = last.checked /\ last'.journal = scope
      /\ last' \in [oom : {-1} \cup Nat, checked : BOOLEAN, journal : {-1} \cup 0 .. now]
  <2> DEFINE Boundary == {-1} \cup 0 .. now
  <2>1. scope \in Boundary
    BY DEF KE!Kept, KE!TypeOK
  <2>2. last \in [oom : {-1} \cup Nat, checked : BOOLEAN, journal : Boundary]
    BY DEF KE!Kept, KE!None
  <2> HIDE DEF Boundary
  <2>3. last' \in [oom : {-1} \cup Nat, checked : BOOLEAN, journal : Boundary]
    BY <1>1, <2>1, <2>2
  <2>4. last'.oom = last.oom /\ last'.checked = last.checked /\ last'.journal = scope
    BY <1>1, <2>2
  <2> QED BY <2>3, <2>4 DEF Boundary
<1>3. \A i \in KE!Entries : /\ reported[i] \in 0 .. 2 /\ reported'[i] \in 0 .. 2
                            /\ reported'[i] = IF i \in output /\ reported[i] < 2
                                              THEN reported[i] + 1 ELSE reported[i]
  BY <1>1 DEF KE!Kept
<1>4. KE!TypeOK' /\ KE!Told'
  BY <1>1, <1>2 DEF KE!TypeOK, KE!Told
<1>5. KE!Kept'
  BY <1>1, <1>2, <1>3 DEF KE!Kept, KE!None
<1>6. durable => KE!Followed'
  BY <1>1, <1>3 DEF KE!Followed
<1>7. ~durable => KE!Bounded'
  <2> SUFFICES ASSUME ~durable PROVE KE!Bounded'
    OBVIOUS
  <2>1. KE!Bounded /\ scope # KE!None /\ from # KE!None
    BY <1>1 DEF KE!Bounded, KE!TypeOK, KE!None
  <2>2. ASSUME NEW i \in DOMAIN journal, from <= journal[i], journal[i] < scope
        PROVE  reported'[i] >= 1
    <3>1. reported[i] >= 1 \/ i \in output
      BY <1>1, <2>1, <2>2 DEF KE!Bounded
    <3>2. i \in KE!Entries
      OBVIOUS
    <3> QED BY <1>3, <3>1, <3>2
  <2> QED BY <1>1, <1>2, <2>1, <2>2 DEF KE!Bounded
<1> QED BY <1>1, <1>4, <1>5, <1>6, <1>7

LEMMA KernelStep == ASSUME KE!Inductive, KE!Next PROVE KE!Inductive'
BY KernelTick, KernelLog, KernelRestart, KernelReads, KernelQuery, KernelReport DEF KE!Next

LEMMA KernelUnchanged == ASSUME KE!Inductive, UNCHANGED KE!vars PROVE KE!Inductive'
BY DEF KE!vars, KE!process, KE!Inductive, KE!TypeOK, KE!Kept, KE!Told, KE!Followed, KE!Bounded

LEMMA KernelCovers == ASSUME KE!Inductive PROVE KE!KernelCovered
<1> USE Journal DEF KE!Inductive
<1>1. /\ last.oom # KE!None => base + oomEvents = last.oom
      /\ boots <= 1
  BY DEF KE!Told, KE!Kept
<1>2. durable => /\ \A i \in DOMAIN journal : reported[i] <= 1
                 /\ pc = "idle" /\ from # KE!None =>
                      \A i \in DOMAIN journal : from < i /\ i <= cursor => reported[i] >= 1
  BY DEF KE!Followed
<1>3. ~durable => (pc = "idle" /\ from # KE!None =>
         \A i \in DOMAIN journal :
           from <= journal[i] /\ journal[i] < last.journal => reported[i] >= 1)
  BY DEF KE!Bounded
<1> QED BY <1>1, <1>2, <1>3 DEF KE!KernelCovered
-----------------------------------------------------------------------------
(* The batches: folds over items and over parts *)

(* Two functions that go on alike from the same beginning are the same. *)
GoesOn(g, h, n) == \A k \in 1 .. n : g[k - 1] = h[k - 1] => g[k] = h[k]

LEMMA GoOnAlike ==
  ASSUME NEW n \in Nat, NEW g, NEW h, g[0] = h[0], GoesOn(g, h, n)
  PROVE  \A k \in 0 .. n : g[k] = h[k]
<1> DEFINE Bad == {k \in 0 .. n : g[k] # h[k]}
<1>1. SUFFICES ASSUME Bad # {} PROVE FALSE
  OBVIOUS
<1>2. PICK k \in Bad : \A j \in Bad : k <= j
  <2>1. Bad \in SUBSET Nat
    OBVIOUS
  <2> HIDE DEF Bad
  <2> QED BY <1>1, <2>1, LeastNat
<1>3. k \in 1 .. n /\ k - 1 \in 0 .. n /\ ~(k <= k - 1)
  BY <1>2
<1>4. g[k - 1] = h[k - 1]
  BY <1>2, <1>3
<1> QED BY <1>2, <1>3, <1>4 DEF GoesOn

(* The bytes of a sequence of items are counted one item after the other. *)
Sized(S) == \A x \in S : x.size \in Nat
BytesUpTo(h, items, n) ==
  h[0] = 0 /\ \A k \in 1 .. n : h[k] = h[k - 1] + items[k].size

LEMMA BytesSteps ==
  ASSUME NEW S, Sized(S), NEW n \in Nat, NEW items \in [1 .. n -> S]
  PROVE  \E h \in [0 .. n -> Nat] : BytesUpTo(h, items, n) /\ h[n] = BA!ItemBytes(items)
<1> DEFINE V == Nat
           turn == [i \in 1 .. n |-> [v \in V |-> v + items[i].size]]
           Unfold(g) == [s \in SUBSET (1 .. n) |->
                           IF s = {} THEN 0
                           ELSE g[s \ {Greatest(s)}] + items[Greatest(s)].size]
           iter == CHOOSE g : g = Unfold(g)
           h == Beginnings(iter, n)
<1>1. BA!ItemBytes(items) = iter[1 .. n]
  <2>1. DOMAIN items = 1 .. n
    OBVIOUS
  <2> QED BY <2>1 DEF BA!ItemBytes, BA!FoldLeft, BA!MapThenFoldSet, BA!Max, Greatest
<1>2. 0 \in V /\ \A v \in V, i \in 1 .. n : v + items[i].size \in V
  BY DEF Sized
<1>3. turn \in [1 .. n -> [V -> V]]
  BY <1>2
<1>4. \A v \in V, i \in 1 .. n : turn[i][v] = v + items[i].size
  OBVIOUS
<1> HIDE DEF V, turn
<1>5. PICK g \in [SUBSET (1 .. n) -> V] : FoldsOver(g, 0, turn, n)
  BY <1>2, <1>3, FoldOver
<1>6. g = Unfold(g)
  <2>1. ASSUME NEW s \in SUBSET (1 .. n), s # {}
        PROVE  g[s] = g[s \ {Greatest(s)}] + items[Greatest(s)].size
    <3>1. Greatest(s) \in 1 .. n /\ g[s \ {Greatest(s)}] \in V
      BY <2>1, GreatestIn
    <3> QED BY <1>4, <1>5, <2>1, <3>1 DEF FoldsOver
  <2> QED BY <1>5, <2>1 DEF FoldsOver
<1>7. iter = Unfold(iter)
  <2> HIDE DEF Unfold
  <2> QED BY <1>6
<1>8. Recurs(iter, 0, turn, V, n)
  <2> HIDE DEF iter
  <2>1. iter[{}] = 0
    BY <1>7
  <2>2. ASSUME NEW s \in SUBSET (1 .. n), s # {}, iter[s \ {Greatest(s)}] \in V
        PROVE  iter[s] = turn[Greatest(s)][iter[s \ {Greatest(s)}]]
    <3>1. Greatest(s) \in 1 .. n
      BY <2>2, GreatestIn
    <3>2. iter[s] = iter[s \ {Greatest(s)}] + items[Greatest(s)].size
      BY <1>7, <2>2
    <3> QED BY <1>4, <2>2, <3>1, <3>2
  <2> QED BY <2>1, <2>2 DEF Recurs
<1>9. h \in [0 .. n -> V] /\ Steps(h, 0, turn, n)
  <2> HIDE DEF iter
  <2> QED BY <1>2, <1>3, <1>8, StepsTaken
<1>10. h[n] = BA!ItemBytes(items)
  <2> HIDE DEF iter
  <2> QED BY <1>1 DEF Beginnings
<1> HIDE DEF h
<1>11. ASSUME NEW k \in 1 .. n PROVE h[k] = h[k - 1] + items[k].size
  <2>1. k - 1 \in 0 .. n
    OBVIOUS
  <2> QED BY <1>4, <1>9, <2>1 DEF Steps
<1> QED BY <1>9, <1>10, <1>11 DEF Steps, V, BytesUpTo

LEMMA BytesOfItems ==
  ASSUME NEW S, Sized(S), NEW items \in Seq(S)
  PROVE  /\ BA!ItemBytes(items) \in Nat
         /\ items = <<>> => BA!ItemBytes(items) = 0
         /\ \A x \in S : BA!ItemBytes(Append(items, x)) = BA!ItemBytes(items) + x.size
<1> DEFINE n == Len(items)
<1>1. n \in Nat /\ items \in [1 .. n -> S]
  OBVIOUS
<1> HIDE DEF n
<1>2. PICK g \in [0 .. n -> Nat] :
           BytesUpTo(g, items, n) /\ g[n] = BA!ItemBytes(items)
  BY <1>1, BytesSteps
<1>3. items = <<>> => n = 0
  BY DEF n
<1>4. ASSUME NEW x \in S
      PROVE  BA!ItemBytes(Append(items, x)) = BA!ItemBytes(items) + x.size
  <2> DEFINE more == Append(items, x)
             m == n + 1
  <2>1. more \in [1 .. m -> S] /\ more[m] = x /\ \A k \in 1 .. n : more[k] = items[k]
    BY AppendProperties DEF n
  <2> HIDE DEF more
  <2>2. m \in Nat
    BY <1>1 DEF m
  <2> HIDE DEF m
  <2>3. PICK h \in [0 .. m -> Nat] :
             BytesUpTo(h, more, m) /\ h[m] = BA!ItemBytes(more)
    BY <2>1, <2>2, BytesSteps
  <2>4. GoesOn(g, h, n)
    <3>1. \A k \in 1 .. n : k \in 1 .. m
      BY <1>1 DEF m
    <3> QED BY <1>2, <2>1, <2>3, <3>1 DEF GoesOn, BytesUpTo
  <2>5. g[n] = h[n]
    <3>1. g[0] = h[0]
      BY <1>2, <2>3 DEF BytesUpTo
    <3>2. \A k \in 0 .. n : g[k] = h[k]
      BY <1>1, <2>4, <3>1, GoOnAlike
    <3> QED BY <1>1, <3>2
  <2>6. h[m] = h[m - 1] + more[m].size /\ m - 1 = n
    <3>1. m \in 1 .. m /\ m - 1 = n
      BY <1>1 DEF m
    <3> QED BY <2>3, <3>1 DEF BytesUpTo
  <2>7. BA!ItemBytes(more) = BA!ItemBytes(items) + x.size
    BY <1>2, <2>1, <2>3, <2>5, <2>6 DEF BytesUpTo
  <2> QED BY <2>7 DEF more
<1> QED BY <1>1, <1>2, <1>3, <1>4 DEF BytesUpTo

(* Batches are put together one after the other. *)
Kind == {"metric", "event", "state"}
LEMMA KindsAre == BA!ToSet(BA!Kinds) = Kind
BY DEF BA!ToSet, BA!Kinds, Kind

LEMMA JoinedIs ==
  ASSUME NEW S, NEW a \in BA!BatchesOf(S), NEW b \in BA!BatchesOf(S)
  PROVE  /\ BA!Joined(a, b) \in BA!BatchesOf(S)
         /\ \A k \in Kind : BA!Joined(a, b)[k] = a[k] \o b[k]
<1>1. ASSUME NEW k \in Kind PROVE a[k] \o b[k] \in Seq(S)
  <2>1. a[k] \in Seq(S) /\ b[k] \in Seq(S)
    BY KindsAre DEF BA!BatchesOf
  <2> QED BY <2>1
<1> QED BY <1>1, KindsAre DEF BA!Joined, BA!BatchesOf

LEMMA EmptyIs ==
  ASSUME NEW S
  PROVE  /\ BA!Empty \in BA!BatchesOf(S)
         /\ \A k \in Kind : BA!Empty[k] = <<>>
BY KindsAre DEF BA!Empty, BA!BatchesOf

JoinedUpTo(h, batches, n) ==
  h[0] = BA!Empty /\ \A k \in 1 .. n : h[k] = BA!Joined(h[k - 1], batches[k])

LEMMA JoinedSteps ==
  ASSUME NEW S, NEW n \in Nat, NEW batches \in [1 .. n -> BA!BatchesOf(S)]
  PROVE  \E h \in [0 .. n -> BA!BatchesOf(S)] :
           JoinedUpTo(h, batches, n) /\ h[n] = BA!Concatenated(batches)
<1> DEFINE V == BA!BatchesOf(S)
           turn == [i \in 1 .. n |-> [v \in V |-> BA!Joined(v, batches[i])]]
           Unfold(g) == [s \in SUBSET (1 .. n) |->
                           IF s = {} THEN BA!Empty
                           ELSE BA!Joined(g[s \ {Greatest(s)}], batches[Greatest(s)])]
           iter == CHOOSE g : g = Unfold(g)
           h == Beginnings(iter, n)
<1>1. BA!Concatenated(batches) = iter[1 .. n]
  <2>1. DOMAIN batches = 1 .. n
    OBVIOUS
  <2> QED BY <2>1 DEF BA!Concatenated, BA!FoldLeft, BA!MapThenFoldSet, BA!Max, Greatest
<1>2. BA!Empty \in V /\ \A v \in V, i \in 1 .. n : BA!Joined(v, batches[i]) \in V
  BY EmptyIs, JoinedIs
<1> HIDE DEF V
<1>3. turn \in [1 .. n -> [V -> V]]
  BY <1>2
<1>4. \A v \in V, i \in 1 .. n : turn[i][v] = BA!Joined(v, batches[i])
  OBVIOUS
<1> HIDE DEF turn
<1>5. PICK g \in [SUBSET (1 .. n) -> V] : FoldsOver(g, BA!Empty, turn, n)
  BY <1>2, <1>3, FoldOver
<1>6. g = Unfold(g)
  <2>1. ASSUME NEW s \in SUBSET (1 .. n), s # {}
        PROVE  g[s] = BA!Joined(g[s \ {Greatest(s)}], batches[Greatest(s)])
    <3>1. Greatest(s) \in 1 .. n /\ g[s \ {Greatest(s)}] \in V
      BY <2>1, GreatestIn
    <3> QED BY <1>4, <1>5, <2>1, <3>1 DEF FoldsOver
  <2> QED BY <1>5, <2>1 DEF FoldsOver
<1>7. iter = Unfold(iter)
  <2> HIDE DEF Unfold
  <2> QED BY <1>6
<1>8. Recurs(iter, BA!Empty, turn, V, n)
  <2> HIDE DEF iter
  <2>1. iter[{}] = BA!Empty
    BY <1>7
  <2>2. ASSUME NEW s \in SUBSET (1 .. n), s # {}, iter[s \ {Greatest(s)}] \in V
        PROVE  iter[s] = turn[Greatest(s)][iter[s \ {Greatest(s)}]]
    <3>1. Greatest(s) \in 1 .. n
      BY <2>2, GreatestIn
    <3>2. iter[s] = BA!Joined(iter[s \ {Greatest(s)}], batches[Greatest(s)])
      BY <1>7, <2>2
    <3> QED BY <1>4, <2>2, <3>1, <3>2
  <2> QED BY <2>1, <2>2 DEF Recurs
<1>9. h \in [0 .. n -> V] /\ Steps(h, BA!Empty, turn, n)
  <2> HIDE DEF iter
  <2> QED BY <1>2, <1>3, <1>8, StepsTaken
<1>10. h[n] = BA!Concatenated(batches)
  <2> HIDE DEF iter
  <2> QED BY <1>1 DEF Beginnings
<1> HIDE DEF h
<1>11. ASSUME NEW k \in 1 .. n PROVE h[k] = BA!Joined(h[k - 1], batches[k])
  <2>1. k - 1 \in 0 .. n
    OBVIOUS
  <2> QED BY <1>4, <1>9, <2>1 DEF Steps
<1> QED BY <1>9, <1>10, <1>11 DEF Steps, V, JoinedUpTo

LEMMA ConcatenatedIs ==
  ASSUME NEW S, NEW batches \in Seq(BA!BatchesOf(S))
  PROVE  /\ BA!Concatenated(batches) \in BA!BatchesOf(S)
         /\ batches = <<>> => BA!Concatenated(batches) = BA!Empty
         /\ \A b \in BA!BatchesOf(S) :
              BA!Concatenated(Append(batches, b)) = BA!Joined(BA!Concatenated(batches), b)
<1> DEFINE n == Len(batches)
           V == BA!BatchesOf(S)
<1>1. n \in Nat /\ batches \in [1 .. n -> V]
  OBVIOUS
<1>2. PICK g \in [0 .. n -> V] :
           JoinedUpTo(g, batches, n) /\ g[n] = BA!Concatenated(batches)
  <2> HIDE DEF n
  <2> QED BY <1>1, JoinedSteps
<1>3. batches = <<>> => n = 0
  OBVIOUS
<1>4. ASSUME NEW b \in V
      PROVE  BA!Concatenated(Append(batches, b)) = BA!Joined(BA!Concatenated(batches), b)
  <2> DEFINE more == Append(batches, b)
             m == n + 1
  <2>1. more \in [1 .. m -> V] /\ more[m] = b /\ \A k \in 1 .. n : more[k] = batches[k]
    <3> HIDE DEF V
    <3> QED OBVIOUS
  <2> HIDE DEF more
  <2>2. m \in Nat
    BY <1>1 DEF m
  <2> HIDE DEF m, n
  <2>3. PICK h \in [0 .. m -> V] :
             JoinedUpTo(h, more, m) /\ h[m] = BA!Concatenated(more)
    BY <2>1, <2>2, JoinedSteps
  <2>4. GoesOn(g, h, n)
    <3>1. \A k \in 1 .. n : k \in 1 .. m
      BY <1>1 DEF m
    <3> QED BY <1>2, <2>1, <2>3, <3>1 DEF GoesOn, JoinedUpTo
  <2>5. g[n] = h[n]
    <3>1. g[0] = h[0]
      BY <1>2, <2>3 DEF JoinedUpTo
    <3>2. \A k \in 0 .. n : g[k] = h[k]
      BY <1>1, <2>4, <3>1, GoOnAlike
    <3> QED BY <1>1, <3>2
  <2>6. h[m] = BA!Joined(h[m - 1], more[m]) /\ m - 1 = n
    <3>1. m \in 1 .. m /\ m - 1 = n
      BY <1>1 DEF m
    <3> QED BY <2>3, <3>1 DEF JoinedUpTo
  <2>7. BA!Concatenated(more) = BA!Joined(BA!Concatenated(batches), b)
    BY <1>2, <2>1, <2>3, <2>5, <2>6
  <2> QED BY <2>7 DEF more
<1> HIDE DEF V
<1> QED BY <1>1, <1>2, <1>3, <1>4 DEF V, JoinedUpTo

LEMMA SumOfThree ==
  \A i, j, k \in Nat : /\ i + j + k \in Nat
                       /\ i <= i + j + k /\ j <= i + j + k /\ k <= i + j + k
                       /\ i + j + k = 0 <=> i = 0 /\ j = 0 /\ k = 0
OBVIOUS

LEMMA MoreOfOne ==
  \A o, i, j, k, m \in Nat : /\ o + (i + m) + j + k = (o + i + j + k) + m
                             /\ o + i + (j + m) + k = (o + i + j + k) + m
                             /\ o + i + j + (k + m) = (o + i + j + k) + m
OBVIOUS

(* An item at the end of a collection costs its bytes and, unless it is    *)
(* the first, a comma.                                                     *)
Longer(b, k, x) == [b EXCEPT ![k] = Append(@, x)]

LEMMA LongerIs ==
  ASSUME NEW S, NEW b \in BA!BatchesOf(S), NEW k \in Kind, NEW x \in S
  PROVE  /\ Longer(b, k, x) \in BA!BatchesOf(S)
         /\ Longer(b, k, x)[k] = Append(b[k], x)
         /\ \A j \in Kind : j # k => Longer(b, k, x)[j] = b[j]
<1>1. Append(b[k], x) \in Seq(S)
  <2>1. b[k] \in Seq(S)
    BY KindsAre DEF BA!BatchesOf
  <2> QED BY <2>1
<1> QED BY <1>1, KindsAre DEF Longer, BA!BatchesOf

LEMMA CommasAre ==
  ASSUME NEW S, NEW s \in Seq(S), NEW x \in S
  PROVE  BA!Commas(Append(s, x)) = BA!Commas(s) + (IF s = <<>> THEN 0 ELSE 1)
<1>1. Len(s) \in Nat /\ (s = <<>> => Len(s) = 0) /\ (s # <<>> => Len(s) # 0)
  OBVIOUS
<1>2. Append(s, x) # <<>> /\ Len(Append(s, x)) = Len(s) + 1
  BY AppendProperties
<1>3. BA!Commas(Append(s, x)) = Len(s)
  <2>1. Len(s) + 1 - 1 = Len(s)
    BY <1>1
  <2> QED BY <1>2, <2>1 DEF BA!Commas
<1>4. CASE s = <<>>
  <2>1. BA!Commas(s) = 0
    BY <1>4 DEF BA!Commas
  <2> QED BY <1>1, <1>3, <1>4, <2>1
<1>5. CASE s # <<>>
  <2>1. BA!Commas(s) = Len(s) - 1
    BY <1>5 DEF BA!Commas
  <2>2. (Len(s) - 1) + 1 = Len(s)
    BY <1>1
  <2> QED BY <1>3, <1>5, <2>1, <2>2
<1> QED BY <1>4, <1>5

LEMMA BytesOfBatch ==
  ASSUME NEW S, Sized(S), NEW b \in BA!BatchesOf(S)
  PROVE  /\ BA!Bytes(b) \in Nat
         /\ (\A k \in Kind : b[k] = <<>>) => BA!Bytes(b) = Overhead
         /\ \A k \in Kind, x \in S :
              BA!Bytes(Longer(b, k, x))
                = BA!Bytes(b) + (IF b[k] = <<>> THEN x.size ELSE x.size + 1)
<1> DEFINE Of(s) == BA!ItemBytes(s) + BA!Commas(s)
<1>1. ASSUME NEW s \in Seq(S)
      PROVE  /\ Of(s) \in Nat /\ (s = <<>> => Of(s) = 0)
             /\ \A x \in S : Of(Append(s, x)) = Of(s) + (IF s = <<>> THEN x.size ELSE x.size + 1)
  <2>1. BA!ItemBytes(s) \in Nat /\ (s = <<>> => BA!ItemBytes(s) = 0)
    BY BytesOfItems
  <2>2. BA!Commas(s) \in Nat /\ (s = <<>> => BA!Commas(s) = 0)
    BY DEF BA!Commas
  <2>3. ASSUME NEW x \in S
        PROVE  Of(Append(s, x)) = Of(s) + (IF s = <<>> THEN x.size ELSE x.size + 1)
    <3>1. BA!ItemBytes(Append(s, x)) = BA!ItemBytes(s) + x.size
      BY BytesOfItems
    <3>2. BA!Commas(Append(s, x)) = BA!Commas(s) + (IF s = <<>> THEN 0 ELSE 1)
      BY CommasAre
    <3>3. x.size \in Nat
      BY DEF Sized
    <3> QED BY <2>1, <2>2, <3>1, <3>2, <3>3
  <2> HIDE DEF Of
  <2>4. Of(s) \in Nat /\ (s = <<>> => Of(s) = 0)
    BY <2>1, <2>2 DEF Of
  <2> QED BY <2>3, <2>4
<1>2. \A c : BA!Bytes(c) = Overhead + Of(c["metric"]) + Of(c["event"]) + Of(c["state"])
  BY DEF BA!Bytes
<1> HIDE DEF Of
<1>3. Overhead \in Nat
  BY BatchesAssumption
<1>4. b["metric"] \in Seq(S) /\ b["event"] \in Seq(S) /\ b["state"] \in Seq(S)
  BY KindsAre DEF BA!BatchesOf, Kind
<1>5. Of(b["metric"]) \in Nat /\ Of(b["event"]) \in Nat /\ Of(b["state"]) \in Nat
  BY <1>1, <1>4
<1>6. (\A k \in Kind : b[k] = <<>>) => BA!Bytes(b) = Overhead
  BY <1>1, <1>2, <1>3, <1>4 DEF Kind
<1>7. ASSUME NEW k \in Kind, NEW x \in S
      PROVE  BA!Bytes(Longer(b, k, x))
               = BA!Bytes(b) + (IF b[k] = <<>> THEN x.size ELSE x.size + 1)
  <2> DEFINE c == Longer(b, k, x)
             more == IF b[k] = <<>> THEN x.size ELSE x.size + 1
  <2>1. c[k] = Append(b[k], x) /\ \A j \in Kind : j # k => c[j] = b[j]
    BY LongerIs
  <2>2. Of(c[k]) = Of(b[k]) + more
    BY <1>1, <1>4, <2>1 DEF Kind
  <2>3. more \in Nat
    BY DEF Sized
  <2>8. /\ BA!Bytes(b) = Overhead + Of(b["metric"]) + Of(b["event"]) + Of(b["state"])
        /\ BA!Bytes(c) = Overhead + Of(c["metric"]) + Of(c["event"]) + Of(c["state"])
    BY <1>2
  <2> HIDE DEF c, more
  <2>4. CASE k = "metric"
    <3>1. Of(c["metric"]) = Of(b["metric"]) + more
      BY <2>2, <2>4
    <3>2. c["event"] = b["event"] /\ c["state"] = b["state"]
      BY <2>1, <2>4 DEF Kind
    <3>3. BA!Bytes(c) = BA!Bytes(b) + more
      BY <1>3, <1>5, <2>3, <2>8, <3>1, <3>2, MoreOfOne
    <3> QED BY <3>3 DEF c, more
  <2>5. CASE k = "event"
    <3>1. Of(c["event"]) = Of(b["event"]) + more
      BY <2>2, <2>5
    <3>2. c["metric"] = b["metric"] /\ c["state"] = b["state"]
      BY <2>1, <2>5 DEF Kind
    <3>3. BA!Bytes(c) = BA!Bytes(b) + more
      BY <1>3, <1>5, <2>3, <2>8, <3>1, <3>2, MoreOfOne
    <3> QED BY <3>3 DEF c, more
  <2>6. CASE k = "state"
    <3>1. Of(c["state"]) = Of(b["state"]) + more
      BY <2>2, <2>6
    <3>2. c["metric"] = b["metric"] /\ c["event"] = b["event"]
      BY <2>1, <2>6 DEF Kind
    <3>3. BA!Bytes(c) = BA!Bytes(b) + more
      BY <1>3, <1>5, <2>3, <2>8, <3>1, <3>2, MoreOfOne
    <3> QED BY <3>3 DEF c, more
  <2>7. k = "metric" \/ k = "event" \/ k = "state"
    BY DEF Kind
  <2> QED BY <2>4, <2>5, <2>6, <2>7
<1>8. BA!Bytes(b) \in Nat
  BY <1>2, <1>3, <1>5
<1> QED BY <1>6, <1>7, <1>8

(* The number of items of a batch. *)
LEMMA CountOfBatch ==
  ASSUME NEW S, NEW b \in BA!BatchesOf(S)
  PROVE  /\ BA!Count(b) \in Nat /\ \A k \in Kind : Len(b[k]) \in Nat /\ Len(b[k]) <= BA!Count(b)
         /\ BA!Count(b) = 0 <=> \A k \in Kind : b[k] = <<>>
<1>1. \A k \in Kind : Len(b[k]) \in Nat /\ (b[k] = <<>> <=> Len(b[k]) = 0)
  <2>1. \A k \in Kind : b[k] \in Seq(S)
    BY KindsAre DEF BA!BatchesOf
  <2>2. \A s \in Seq(S) : Len(s) \in Nat /\ (s = <<>> <=> Len(s) = 0)
    OBVIOUS
  <2> QED BY <2>1, <2>2
<1> DEFINE m == Len(b["metric"])
           e == Len(b["event"])
           t == Len(b["state"])
<1>2. BA!Count(b) = m + e + t
  BY DEF BA!Count
<1>3. m \in Nat /\ e \in Nat /\ t \in Nat
  BY <1>1 DEF Kind
<1>4. \A k \in Kind : Len(b[k]) = m \/ Len(b[k]) = e \/ Len(b[k]) = t
  BY DEF Kind
<1>5. m = 0 /\ e = 0 /\ t = 0 <=> \A k \in Kind : Len(b[k]) = 0
  BY DEF Kind
<1> HIDE DEF m, e, t
<1>6. /\ BA!Count(b) \in Nat /\ m <= BA!Count(b) /\ e <= BA!Count(b) /\ t <= BA!Count(b)
      /\ BA!Count(b) = 0 <=> m = 0 /\ e = 0 /\ t = 0
  BY <1>2, <1>3, SumOfThree
<1>7. \A k \in Kind : Len(b[k]) <= BA!Count(b)
  BY <1>4, <1>6
<1>8. BA!Count(b) = 0 <=> \A k \in Kind : b[k] = <<>>
  BY <1>1, <1>5, <1>6
<1> QED BY <1>1, <1>6, <1>7, <1>8
-----------------------------------------------------------------------------
(* The batches: what is collected *)

LEMMA BatchOf ==
  ASSUME NEW S, Sized(S), NEW b \in BA!BatchesOf(S)
  PROVE  BA!IsBatch(b)
<1>1. ASSUME NEW k \in Kind
      PROVE  /\ b[k] \in Seq(BA!ToSet(b[k])) /\ BA!ToSet(b[k]) \subseteq S
             /\ BA!ToSet(b[k]) \subseteq BA!Things(b)
  <2>1. b[k] \in Seq(S)
    BY KindsAre DEF BA!BatchesOf
  <2>2. \A i \in 1 .. Len(b[k]) : b[k][i] \in S
    BY <2>1
  <2>3. BA!ToSet(b[k]) = {b[k][i] : i \in 1 .. Len(b[k])}
    BY <2>1 DEF BA!ToSet
  <2>4. BA!ToSet(b[k]) \subseteq BA!Things(b)
    BY KindsAre DEF BA!Things
  <2>5. b[k] \in Seq(BA!ToSet(b[k]))
    BY <2>1, <2>3
  <2> QED BY <2>2, <2>3, <2>4, <2>5
<1>2. BA!Things(b) \subseteq S
  BY <1>1, KindsAre DEF BA!Things
<1>3. ASSUME NEW k \in Kind PROVE b[k] \in Seq(BA!Things(b))
  BY <1>1, SeqMonotonic
<1>4. b \in BA!BatchesOf(BA!Things(b))
  BY <1>3, KindsAre DEF BA!BatchesOf
<1> QED BY <1>2, <1>4 DEF BA!IsBatch, Sized

LEMMA JoinedBatch ==
  ASSUME NEW a, NEW b, BA!IsBatch(a), BA!IsBatch(b)
  PROVE  BA!IsBatch(BA!Joined(a, b))
<1> DEFINE S == BA!Things(a) \cup BA!Things(b)
<1>1. Sized(S)
  BY DEF Sized, BA!IsBatch
<1>2. ASSUME NEW T, T \subseteq S, NEW c \in BA!BatchesOf(T) PROVE c \in BA!BatchesOf(S)
  <2>1. \A k \in Kind : c[k] \in Seq(S)
    <3> HIDE DEF S
    <3> QED BY <1>2, KindsAre, SeqMonotonic DEF BA!BatchesOf
  <2> HIDE DEF S
  <2> QED BY <2>1, KindsAre DEF BA!BatchesOf
<1>3. a \in BA!BatchesOf(S) /\ b \in BA!BatchesOf(S)
  BY <1>2 DEF BA!IsBatch
<1> HIDE DEF S
<1> QED BY <1>1, <1>3, JoinedIs, BatchOf

LEMMA ValidIsSendable == \A b : BA!Valid(b) => BA!Sendable(b)
BY DEF BA!Valid, BA!Sendable

LEMMA EmptyBatch == BA!IsBatch(BA!Empty) /\ BA!Valid(BA!Empty) /\ BA!Count(BA!Empty) = 0
<1>1. Sized({})
  BY DEF Sized
<1>2. BA!IsBatch(BA!Empty)
  BY <1>1, EmptyIs, BatchOf
<1>3. \A k \in Kind : DOMAIN BA!Empty[k] = {} /\ BA!Empty[k] = <<>>
  BY EmptyIs
<1>4. BA!Valid(BA!Empty)
  <2>1. DOMAIN BA!Empty["metric"] = {}
    BY <1>3 DEF Kind
  <2> QED BY <1>3, <2>1, KindsAre DEF BA!Valid
<1>5. BA!Count(BA!Empty) = 0
  BY <1>3, EmptyIs, CountOfBatch
<1> QED BY <1>2, <1>4, <1>5

LEMMA BatchesInit == ASSUME BA!Init PROVE BA!Inductive
<1> USE DEF BA!Init
<1>1. Len(Scripts) \in Nat /\ 1 \in 1 .. Len(Scripts) + 1
  BY BatchesAssumption
<1>2. BA!TypeOK
  <2>1. Len(parts) <= BA!Count(batch)
    BY EmptyBatch
  <2> QED BY <1>1, <2>1 DEF BA!TypeOK
<1>3. BA!PartsSound
  BY DEF BA!PartsSound
<1> QED BY <1>2, <1>3, EmptyBatch, ValidIsSendable DEF BA!Inductive

(* What a script leaves, with its name, and what is left when it fails. *)
LEMMA StateIs ==
  ASSUME NEW s, NEW ok \in BOOLEAN
  PROVE  BA!State(s, ok).size \in Nat /\ BA!FailureEvent(s).size \in Nat
BY DEF BA!State, BA!FailureEvent

LEMMA SeqOfOne == ASSUME NEW S, NEW x \in S PROVE <<x>> \in Seq(S)
OBVIOUS

LEMMA SeqOfFunction ==
  ASSUME NEW S, NEW n \in Nat, NEW f \in [1 .. n -> S]
  PROVE  f \in Seq(S) /\ Len(f) = n
OBVIOUS

LEMMA FailedIs == ASSUME NEW s PROVE BA!IsBatch(BA!Failed(s))
<1> DEFINE S == {BA!State(s, FALSE), BA!FailureEvent(s)}
<1>1. Sized(S)
  BY StateIs DEF Sized
<1>2. \A k \in Kind : BA!Failed(s)[k] \in Seq(S)
  <2>1. BA!Failed(s)["state"] = <<BA!State(s, FALSE)>>
    BY KindsAre DEF BA!Failed, BA!Empty, Kind
  <2>2. BA!Failed(s)["event"] = <<BA!FailureEvent(s)>>
    BY KindsAre DEF BA!Failed, BA!Empty, Kind
  <2>3. BA!Failed(s)["metric"] = <<>>
    BY KindsAre DEF BA!Failed, BA!Empty, Kind
  <2>4. BA!State(s, FALSE) \in S /\ BA!FailureEvent(s) \in S
    OBVIOUS
  <2> HIDE DEF S
  <2>5. <<BA!State(s, FALSE)>> \in Seq(S)
    BY <2>4, SeqOfOne
  <2>6. <<BA!FailureEvent(s)>> \in Seq(S)
    BY <2>4, SeqOfOne
  <2>7. <<>> \in Seq(S)
    OBVIOUS
  <2> QED BY <2>1, <2>2, <2>3, <2>5, <2>6, <2>7 DEF Kind
<1>3. BA!Failed(s) = [k \in Kind |-> BA!Failed(s)[k]]
  BY KindsAre DEF BA!Failed, BA!Empty
<1>4. BA!Failed(s) \in BA!BatchesOf(S)
  <2> HIDE DEF S
  <2> QED BY <1>2, <1>3, KindsAre DEF BA!BatchesOf
<1> QED BY <1>1, <1>4, BatchOf

LEMMA SucceededIs ==
  ASSUME NEW s, NEW out \in Outputs
  PROVE  BA!IsBatch(BA!Succeeded(s, out))
<1> DEFINE R == [name : STRING, definition : STRING, series : STRING,
                 script : STRING, size : Nat, sane : BOOLEAN]
           Named(x) == [x EXCEPT !.script = IF @ = "" THEN s ELSE @]
           S == {Named(x) : x \in R} \cup {BA!State(s, TRUE)}
           p == BA!Injected(out, s)
<1>1. Sized(S)
  <2>1. \A x \in R : Named(x).size \in Nat
    OBVIOUS
  <2> QED BY <2>1, StateIs DEF Sized
<1>2. \A x \in R : Named(x) \in S
  OBVIOUS
<1>3. ASSUME NEW k \in Kind PROVE p[k] \in Seq(S)
  <2>1. out[k] \in Seq(R)
    BY BatchesAssumption DEF Kind
  <2>2. p[k] = [i \in DOMAIN out[k] |-> Named(out[k][i])]
    BY KindsAre DEF BA!Injected
  <2> HIDE DEF p, R, Named, S
  <2>3. DOMAIN out[k] = 1 .. Len(out[k]) /\ Len(out[k]) \in Nat
    BY <2>1
  <2>4. \A i \in 1 .. Len(out[k]) : Named(out[k][i]) \in S
    BY <1>2, <2>1
  <2> QED BY <2>2, <2>3, <2>4
<1>4. DOMAIN p = Kind
  BY KindsAre DEF BA!Injected
<1>5. BA!Succeeded(s, out) = [k \in Kind |-> IF k = "state" THEN Append(p[k], BA!State(s, TRUE)) ELSE p[k]]
  BY <1>4, KindsAre DEF BA!Succeeded, BA!Injected
<1>6. BA!State(s, TRUE) \in S
  OBVIOUS
<1> HIDE DEF p, S
<1>7. ASSUME NEW k \in Kind PROVE Append(p[k], BA!State(s, TRUE)) \in Seq(S)
  BY <1>3, <1>6, AppendProperties
<1>8. BA!Succeeded(s, out) \in BA!BatchesOf(S)
  BY <1>3, <1>5, <1>7, KindsAre DEF BA!BatchesOf
<1> QED BY <1>1, <1>8, BatchOf

LEMMA BatchesCollect == ASSUME BA!Inductive, BA!Collect PROVE BA!Inductive'
<1>1. PICK p : BA!IsBatch(p) /\ batch' = BA!Merged(p)
  BY FailedIs, SucceededIs DEF BA!Collect
<1>2. batch' = batch \/ (batch' = BA!Joined(batch, p) /\ BA!Valid(BA!Joined(batch, p)))
  BY <1>1 DEF BA!Merged
<1>3. BA!IsBatch(batch') /\ BA!Valid(batch')
  <2>1. BA!IsBatch(batch) /\ BA!Valid(batch)
    BY DEF BA!Inductive, BA!Collect
  <2>2. BA!IsBatch(BA!Joined(batch, p))
    BY <1>1, <2>1, JoinedBatch
  <2> QED BY <1>2, <2>1, <2>2
<1>4. step' = "collect" /\ parts' = <<>> /\ current' = BA!Empty /\ size' = size
  BY DEF BA!Inductive, BA!Collect
<1>5. script' \in 1 .. Len(Scripts) + 1
  <2>1. Len(Scripts) \in Nat
    BY BatchesAssumption
  <2> QED BY <2>1 DEF BA!Inductive, BA!TypeOK, BA!Collect
<1>6. Len(parts') <= BA!Count(batch')
  <2>1. BA!Count(batch') \in Nat
    BY <1>3, CountOfBatch DEF BA!IsBatch
  <2> QED BY <1>4, <2>1
<1>7. BA!TypeOK'
  BY <1>4, <1>5, <1>6 DEF BA!Inductive, BA!TypeOK
<1>8. BA!PartsSound'
  BY <1>4 DEF BA!PartsSound
<1>9. BA!Sendable(batch')
  BY <1>3, ValidIsSendable
<1> QED BY <1>3, <1>4, <1>7, <1>8, <1>9 DEF BA!Inductive
-----------------------------------------------------------------------------
(* The batches: what is cut up *)

(* The items of a sequence after the first t, with their kind. *)
Rest(s, k, t) == [i \in 1 .. Len(s) - t |-> [kind |-> k, item |-> s[t + i]]]
Entries(S) == [kind : Kind, item : S]

LEMMA RestIs ==
  ASSUME NEW S, NEW s \in Seq(S), NEW k \in Kind, NEW t \in Nat, t <= Len(s)
  PROVE  /\ Rest(s, k, t) \in Seq(Entries(S))
         /\ Rest(s, k, t) = <<>> <=> t = Len(s)
         /\ t # Len(s) => /\ Head(Rest(s, k, t)) = [kind |-> k, item |-> s[t + 1]]
                          /\ Tail(Rest(s, k, t)) = Rest(s, k, t + 1)
<1> DEFINE n == Len(s) - t
           r == Rest(s, k, t)
           E == Entries(S)
<1>1. Len(s) \in Nat /\ n \in Nat
  OBVIOUS
<1>2. ASSUME NEW i \in 1 .. n PROVE t + i \in 1 .. Len(s)
  BY <1>1
<1>3. \A i \in 1 .. n : [kind |-> k, item |-> s[t + i]] \in E
  BY <1>2 DEF Entries
<1>4. r = [i \in 1 .. n |-> [kind |-> k, item |-> s[t + i]]]
  BY DEF Rest
<1>5. r \in Seq(E) /\ Len(r) = n
  <2>1. r \in [1 .. n -> E]
    <3> HIDE DEF n, r, E
    <3> QED BY <1>3, <1>4
  <2> HIDE DEF n, r, E
  <2> QED BY <1>1, <2>1, SeqOfFunction
<1>6. n = 0 <=> t = Len(s)
  BY <1>1
<1>7. r = <<>> <=> n = 0
  <2> HIDE DEF n, r, E
  <2> QED BY <1>1, <1>5
<1>8. ASSUME t # Len(s)
      PROVE  Head(r) = [kind |-> k, item |-> s[t + 1]] /\ Tail(r) = Rest(s, k, t + 1)
  <2>1. r # <<>> /\ 1 \in 1 .. n
    BY <1>1, <1>6, <1>7, <1>8
  <2>2. Head(r) = r[1]
    OBVIOUS
  <2>3. r[1] = [kind |-> k, item |-> s[t + 1]]
    <3> HIDE DEF n, r
    <3> QED BY <1>4, <2>1
  <2>4. Tail(r) \in Seq(E) /\ Len(Tail(r)) = n - 1 /\ \A i \in 1 .. n - 1 : Tail(r)[i] = r[i + 1]
    <3> HIDE DEF n, r, E
    <3> QED BY <1>5, <2>1, HeadTailProperties
  <2>5. Tail(r) = [i \in 1 .. n - 1 |-> r[i + 1]]
    <3> DEFINE q == [i \in 1 .. n - 1 |-> r[i + 1]]
    <3>1. n - 1 \in Nat
      BY <1>1, <2>1
    <3> HIDE DEF n, r, E
    <3>2. q \in [1 .. n - 1 -> E]
      <4>1. \A i \in 1 .. n - 1 : i + 1 \in 1 .. n
        BY <1>1
      <4> QED BY <1>5, <4>1
    <3>3. \A i \in 1 .. n - 1 : q[i] = r[i + 1]
      OBVIOUS
    <3> HIDE DEF q
    <3>4. q \in Seq(E) /\ Len(q) = n - 1
      BY <3>1, <3>2, SeqOfFunction
    <3>5. Tail(r) = q
      BY <2>4, <3>3, <3>4, SeqEqual
    <3> QED BY <3>5 DEF q
  <2>6. ASSUME NEW i \in 1 .. n - 1 PROVE r[i + 1] = [kind |-> k, item |-> s[(t + 1) + i]]
    <3>1. i + 1 \in 1 .. n /\ t + (i + 1) = (t + 1) + i
      BY <1>1
    <3> HIDE DEF n, r
    <3> QED BY <1>4, <3>1
  <2>7. n - 1 = Len(s) - (t + 1)
    BY <1>1
  <2> HIDE DEF n, r
  <2> QED BY <2>2, <2>3, <2>5, <2>6, <2>7 DEF Rest
<1> QED BY <1>5, <1>6, <1>7, <1>8

LEMMA FirstOfThree ==
  ASSUME NEW E, NEW a \in Seq(E), NEW b \in Seq(E), NEW c \in Seq(E)
  PROVE  /\ a \o b \o c = <<>> <=> a = <<>> /\ b = <<>> /\ c = <<>>
         /\ a # <<>> => Head(a \o b \o c) = Head(a) /\ Tail(a \o b \o c) = Tail(a) \o b \o c
         /\ a = <<>> /\ b # <<>> => /\ Head(a \o b \o c) = Head(b)
                                    /\ Tail(a \o b \o c) = a \o Tail(b) \o c
         /\ a = <<>> /\ b = <<>> /\ c # <<>> => /\ Head(a \o b \o c) = Head(c)
                                               /\ Tail(a \o b \o c) = a \o b \o Tail(c)
<1>1. ASSUME NEW s \in Seq(E), NEW t \in Seq(E), s # <<>>
      PROVE  Head(s \o t) = Head(s) /\ Tail(s \o t) = Tail(s) \o t /\ s \o t # <<>>
  <2>1. Len(s) \in Nat \ {0} /\ Len(t) \in Nat
    BY <1>1
  <2>2. s \o t \in Seq(E) /\ Len(s \o t) = Len(s) + Len(t) /\ s \o t # <<>>
    BY <1>1, <2>1
  <2>3. Head(s \o t) = Head(s)
    BY <1>1, <2>1, <2>2, ConcatProperties
  <2>4. Tail(s) \in Seq(E) /\ Len(Tail(s)) = Len(s) - 1
        /\ \A i \in 1 .. Len(s) - 1 : Tail(s)[i] = s[i + 1]
    BY <1>1, HeadTailProperties
  <2>5. Tail(s \o t) \in Seq(E) /\ Len(Tail(s \o t)) = Len(s) + Len(t) - 1
        /\ \A i \in 1 .. Len(s) + Len(t) - 1 : Tail(s \o t)[i] = (s \o t)[i + 1]
    BY <2>2, HeadTailProperties
  <2>6. Tail(s) \o t \in Seq(E) /\ Len(Tail(s) \o t) = Len(s) + Len(t) - 1
    BY <2>1, <2>4
  <2>7. ASSUME NEW i \in 1 .. Len(s) + Len(t) - 1 PROVE Tail(s \o t)[i] = (Tail(s) \o t)[i]
    <3>1. (s \o t)[i + 1] = IF i + 1 <= Len(s) THEN s[i + 1] ELSE t[i + 1 - Len(s)]
      <4>1. i + 1 \in 1 .. Len(s) + Len(t)
        BY <2>1
      <4> QED BY <4>1, ConcatProperties
    <3>2. (Tail(s) \o t)[i] = IF i <= Len(s) - 1 THEN Tail(s)[i] ELSE t[i - (Len(s) - 1)]
      <4>1. i \in 1 .. Len(Tail(s)) + Len(t)
        BY <2>1, <2>4
      <4> QED BY <2>4, <4>1, ConcatProperties
    <3>3. i + 1 - Len(s) = i - (Len(s) - 1) /\ (i + 1 <= Len(s) <=> i <= Len(s) - 1)
          /\ (i <= Len(s) - 1 => i \in 1 .. Len(s) - 1)
      BY <2>1
    <3> QED BY <2>4, <2>5, <3>1, <3>2, <3>3
  <2>8. Tail(s \o t) = Tail(s) \o t
    BY <2>1, <2>5, <2>6, <2>7, SeqEqual
  <2> QED BY <2>2, <2>3, <2>8
<1>2. <<>> \in Seq(E) /\ \A s \in Seq(E) : <<>> \o s = s /\ s \o <<>> = s
  BY ConcatEmptySeq
<1>3. a \o b \in Seq(E)
  OBVIOUS
<1>4. ASSUME a # <<>>
      PROVE  /\ Head(a \o b \o c) = Head(a) /\ Tail(a \o b \o c) = Tail(a) \o b \o c
             /\ a \o b \o c # <<>>
  <2>1. Head(a \o b) = Head(a) /\ Tail(a \o b) = Tail(a) \o b /\ a \o b # <<>>
    BY <1>1, <1>4
  <2>2. /\ Head((a \o b) \o c) = Head(a \o b) /\ Tail((a \o b) \o c) = Tail(a \o b) \o c
        /\ (a \o b) \o c # <<>>
    BY <1>1, <1>3, <2>1
  <2> QED BY <2>1, <2>2
<1>5. ASSUME a = <<>>, b # <<>>
      PROVE  /\ Head(a \o b \o c) = Head(b) /\ Tail(a \o b \o c) = a \o Tail(b) \o c
             /\ a \o b \o c # <<>>
  <2>1. a \o b = b /\ a \o Tail(b) = Tail(b)
    <3>1. Tail(b) \in Seq(E)
      BY <1>5
    <3> QED BY <1>2, <1>5, <3>1
  <2>2. Head(b \o c) = Head(b) /\ Tail(b \o c) = Tail(b) \o c /\ b \o c # <<>>
    BY <1>1, <1>5
  <2> QED BY <2>1, <2>2
<1>6. ASSUME a = <<>>, b = <<>>, c # <<>>
      PROVE  /\ Head(a \o b \o c) = Head(c) /\ Tail(a \o b \o c) = a \o b \o Tail(c)
             /\ a \o b \o c # <<>>
  <2>1. Tail(c) \in Seq(E) /\ a \o b = <<>>
    BY <1>2, <1>6
  <2> QED BY <1>2, <1>6, <2>1
<1>7. a = <<>> /\ b = <<>> /\ c = <<>> => a \o b \o c = <<>>
  BY <1>2
<1> QED BY <1>4, <1>5, <1>6, <1>7

LEMMA AheadIs == BA!Ahead("metric") = Rest(batch["metric"], "metric", BA!Taken("metric"))
                 /\ BA!Ahead("event") = Rest(batch["event"], "event", BA!Taken("event"))
                 /\ BA!Ahead("state") = Rest(batch["state"], "state", BA!Taken("state"))
BY DEF BA!Ahead, Rest

LEMMA SplitFacts ==
  ASSUME BA!Inductive, step = "split"
  PROVE  /\ BA!Splitting
         /\ Sized(BA!Things(batch)) /\ batch \in BA!BatchesOf(BA!Things(batch))
         /\ BA!Together \in BA!BatchesOf(BA!Things(batch))
         /\ \A k \in Kind :
              /\ batch[k] \in Seq(BA!Things(batch)) /\ current[k] \in Seq(BA!Things(batch))
              /\ BA!Together[k] \in Seq(BA!Things(batch))
              /\ BA!Taken(k) \in Nat /\ BA!Taken(k) <= Len(batch[k])
<1>1. BA!Splitting
  BY DEF BA!Inductive
<1>2. Sized(BA!Things(batch)) /\ batch \in BA!BatchesOf(BA!Things(batch))
  BY DEF BA!Inductive, BA!IsBatch, Sized
<1>3. BA!Together \in BA!BatchesOf(BA!Things(batch))
  BY <1>1, ConcatenatedIs DEF BA!Splitting, BA!Together
<1>4. \A k \in Kind : /\ batch[k] \in Seq(BA!Things(batch)) /\ current[k] \in Seq(BA!Things(batch))
                      /\ BA!Together[k] \in Seq(BA!Things(batch))
  BY <1>1, <1>2, <1>3, KindsAre DEF BA!Splitting, BA!BatchesOf
<1>5. ASSUME NEW k \in Kind PROVE BA!Taken(k) \in Nat
  <2> DEFINE t == Len(BA!Together[k])
             c == Len(current[k])
  <2>1. t \in Nat /\ c \in Nat
    BY <1>4
  <2>2. BA!Taken(k) = t + c
    BY DEF BA!Taken
  <2> HIDE DEF t, c
  <2> QED BY <2>1, <2>2
<1>6. \A k \in Kind : BA!Taken(k) <= Len(batch[k])
  BY <1>1, KindsAre DEF BA!Splitting
<1> QED BY <1>1, <1>2, <1>3, <1>4, <1>5, <1>6

(* The next entry is the next item of its collection, and what is left     *)
(* after it goes on behind it.                                             *)
Behind(j, k) == Rest(batch[j], j, IF j = k THEN BA!Taken(j) + 1 ELSE BA!Taken(j))

LEMMA NextEntry ==
  ASSUME BA!Inductive, step = "split", rest # <<>>
  PROVE  \E k \in Kind :
           /\ BA!Taken(k) < Len(batch[k])
           /\ Head(rest) = [kind |-> k, item |-> batch[k][BA!Taken(k) + 1]]
           /\ Tail(rest) = Behind("metric", k) \o Behind("event", k) \o Behind("state", k)
<1> DEFINE S == BA!Things(batch)
           R(j) == Rest(batch[j], j, BA!Taken(j))
           E == Entries(S)
           a == R("metric")
           b == R("event")
           c == R("state")
<1>1. rest = a \o b \o c
  BY SplitFacts, AheadIs DEF BA!Splitting
<1>2. ASSUME NEW j \in Kind
      PROVE  /\ R(j) \in Seq(E)
             /\ R(j) # <<>> => /\ BA!Taken(j) < Len(batch[j])
                              /\ Head(R(j)) = [kind |-> j, item |-> batch[j][BA!Taken(j) + 1]]
                              /\ Tail(R(j)) = Behind(j, j)
             /\ \A k \in Kind : k # j => Behind(j, k) = R(j)
  <2>1. batch[j] \in Seq(S) /\ BA!Taken(j) \in Nat /\ BA!Taken(j) <= Len(batch[j])
    BY SplitFacts
  <2>2. Len(batch[j]) \in Nat
    BY <2>1
  <2>3. BA!Taken(j) # Len(batch[j]) => BA!Taken(j) < Len(batch[j])
    BY <2>1, <2>2
  <2>4. R(j) \in Seq(E) /\ (R(j) = <<>> <=> BA!Taken(j) = Len(batch[j]))
    BY <2>1, RestIs
  <2>5. BA!Taken(j) # Len(batch[j])
          => /\ Head(R(j)) = [kind |-> j, item |-> batch[j][BA!Taken(j) + 1]]
             /\ Tail(R(j)) = Rest(batch[j], j, BA!Taken(j) + 1)
    BY <2>1, RestIs
  <2>6. Behind(j, j) = Rest(batch[j], j, BA!Taken(j) + 1)
        /\ \A k \in Kind : k # j => Behind(j, k) = R(j)
    BY DEF Behind
  <2> HIDE DEF R, E
  <2> QED BY <2>3, <2>4, <2>5, <2>6
<1>3. "metric" \in Kind /\ "event" \in Kind /\ "state" \in Kind
  BY DEF Kind
<1>4. a \in Seq(E) /\ b \in Seq(E) /\ c \in Seq(E)
  BY <1>2, <1>3
<1>5. CASE a # <<>>
  <2>1. Head(rest) = Head(a) /\ Tail(rest) = Tail(a) \o b \o c
    <3> HIDE DEF a, b, c, E
    <3> QED BY <1>1, <1>4, <1>5, FirstOfThree
  <2>2. Behind("event", "metric") = b /\ Behind("state", "metric") = c
        /\ Tail(a) = Behind("metric", "metric")
        /\ Head(a) = [kind |-> "metric", item |-> batch["metric"][BA!Taken("metric") + 1]]
        /\ BA!Taken("metric") < Len(batch["metric"])
    BY <1>2, <1>3, <1>5
  <2> HIDE DEF a, b, c
  <2> QED BY <1>3, <2>1, <2>2
<1>6. CASE a = <<>> /\ b # <<>>
  <2>1. Head(rest) = Head(b) /\ Tail(rest) = a \o Tail(b) \o c
    <3> HIDE DEF a, b, c, E
    <3> QED BY <1>1, <1>4, <1>6, FirstOfThree
  <2>2. Behind("metric", "event") = a /\ Behind("state", "event") = c
        /\ Tail(b) = Behind("event", "event")
        /\ Head(b) = [kind |-> "event", item |-> batch["event"][BA!Taken("event") + 1]]
        /\ BA!Taken("event") < Len(batch["event"])
    BY <1>2, <1>3, <1>6
  <2> HIDE DEF a, b, c
  <2> QED BY <1>3, <2>1, <2>2
<1>7. CASE a = <<>> /\ b = <<>> /\ c # <<>>
  <2>1. Head(rest) = Head(c) /\ Tail(rest) = a \o b \o Tail(c)
    <3> HIDE DEF a, b, c, E
    <3> QED BY <1>1, <1>4, <1>7, FirstOfThree
  <2>2. Behind("metric", "state") = a /\ Behind("event", "state") = b
        /\ Tail(c) = Behind("state", "state")
        /\ Head(c) = [kind |-> "state", item |-> batch["state"][BA!Taken("state") + 1]]
        /\ BA!Taken("state") < Len(batch["state"])
    BY <1>2, <1>3, <1>7
  <2> HIDE DEF a, b, c
  <2> QED BY <1>3, <2>1, <2>2
<1>8. ~(a = <<>> /\ b = <<>> /\ c = <<>>)
  <2> HIDE DEF a, b, c, E
  <2> QED BY <1>1, <1>4, FirstOfThree
<1> QED BY <1>5, <1>6, <1>7, <1>8

(* Some items of a sequence, in their order. *)
LEMMA ChosenIs ==
  ASSUME NEW S, NEW s \in Seq(S), NEW I \in SUBSET (DOMAIN s), NEW f \in BA!InOrder(I)
  PROVE  /\ BA!At(s, f) \in Seq(S) /\ DOMAIN BA!At(s, f) = DOMAIN f
         /\ \A i \in DOMAIN f : f[i] \in I /\ BA!At(s, f)[i] = s[f[i]]
         /\ \A i, j \in DOMAIN f : i # j => f[i] # f[j]
<1> DEFINE n == Cardinality(I)
<1>1. n \in Nat
  <2>1. DOMAIN s = 1 .. Len(s) /\ Len(s) \in Nat
    OBVIOUS
  <2>2. IsFiniteSet(1 .. Len(s)) /\ I \in SUBSET (1 .. Len(s))
    BY <2>1, FS_Interval
  <2>3. IsFiniteSet(I)
    <3> HIDE DEF n
    <3> QED BY <2>2, FS_Subset
  <2> QED BY <2>3, FS_CardinalityType
<1>2. BA!Cardinality(I) = n
  BY DEF BA!Cardinality, Cardinality
<1>3. f \in [1 .. n -> I] /\ \A i, j \in DOMAIN f : i < j => f[i] < f[j]
  BY <1>2 DEF BA!InOrder
<1> HIDE DEF n
<1>4. DOMAIN f = 1 .. n /\ \A i \in 1 .. n : f[i] \in I
  BY <1>3
<1>5. ASSUME NEW i \in DOMAIN f, NEW j \in DOMAIN f, i # j PROVE f[i] # f[j]
  <2>1. i < j \/ j < i
    BY <1>4, <1>5
  <2>2. f[i] < f[j] \/ f[j] < f[i]
    BY <1>3, <2>1
  <2>3. f[i] \in Nat /\ f[j] \in Nat
    <3>1. DOMAIN s \subseteq Nat
      OBVIOUS
    <3> QED BY <1>4, <3>1
  <2> QED BY <2>2, <2>3
<1>6. BA!At(s, f) = [i \in 1 .. n |-> s[f[i]]]
  BY <1>4 DEF BA!At
<1>7. \A i \in 1 .. n : s[f[i]] \in S
  <2>1. \A i \in DOMAIN s : s[i] \in S
    OBVIOUS
  <2> QED BY <1>4, <2>1
<1>8. BA!At(s, f) \in Seq(S)
  <2>1. BA!At(s, f) \in [1 .. n -> S]
    BY <1>6, <1>7
  <2> QED BY <1>1, <2>1, SeqOfFunction
<1> QED BY <1>4, <1>5, <1>6, <1>8

(* What is split: the items taken from a batch, and the agent's own.       *)
LEMMA SplitBatch ==
  ASSUME BA!Inductive, BA!StartSplit
  PROVE  BA!IsBatch(batch') /\ BA!Sendable(batch')
<1>1. BA!IsBatch(batch) /\ BA!Valid(batch) /\ Sized(BA!Things(batch))
  BY DEF BA!Inductive, BA!StartSplit, BA!IsBatch, Sized
<1>2. PICK own \in SelfSignals, blocked \in SUBSET {m.name : m \in BA!ToSet(batch["metric"])} :
        \E unchanged \in SUBSET {BA!Identity(s) : s \in BA!ToSet(BA!States(own))} :
        \E f \in BA!InOrder(BA!Unblocked(blocked)) :
        \E g \in BA!InOrder(BA!Changed(BA!States(own), unchanged)) :
          batch' = BA!Queued(own, f, g)
  BY DEF BA!StartSplit
<1>a. PICK unchanged \in SUBSET {BA!Identity(s) : s \in BA!ToSet(BA!States(own))} :
        \E f \in BA!InOrder(BA!Unblocked(blocked)) :
        \E g \in BA!InOrder(BA!Changed(BA!States(own), unchanged)) :
          batch' = BA!Queued(own, f, g)
  BY <1>2
<1>b. PICK f \in BA!InOrder(BA!Unblocked(blocked)) :
        \E g \in BA!InOrder(BA!Changed(BA!States(own), unchanged)) : batch' = BA!Queued(own, f, g)
  BY <1>a
<1>c. PICK g \in BA!InOrder(BA!Changed(BA!States(own), unchanged)) : batch' = BA!Queued(own, f, g)
  BY <1>b
<1> DEFINE R == [name : STRING, definition : STRING, series : STRING,
                 script : STRING, size : Nat, sane : BOOLEAN]
           S == BA!Things(batch) \cup R
           states == BA!States(own)
           taken == BA!At(batch["metric"], f)
<1>3. Sized(S)
  BY <1>1 DEF Sized
<1>4. ASSUME NEW k \in Kind
      PROVE  /\ batch[k] \in Seq(S) /\ own[k] \in Seq(S)
             /\ \A i \in DOMAIN batch[k] : batch[k][i].sane
             /\ \A i \in DOMAIN own[k] : own[k][i].sane
  <2>1. own[k] \in Seq(R) /\ \A i \in DOMAIN own[k] : own[k][i].sane
    BY BatchesAssumption DEF Kind
  <2>2. batch[k] \in Seq(BA!Things(batch)) /\ \A i \in DOMAIN batch[k] : batch[k][i].sane
    BY <1>1, KindsAre DEF BA!IsBatch, BA!BatchesOf, BA!Valid
  <2>3. BA!Things(batch) \subseteq S /\ R \subseteq S
    OBVIOUS
  <2> HIDE DEF R, S
  <2> QED BY <2>1, <2>2, <2>3, SeqMonotonic
<1> HIDE DEF R, S
<1>5. "metric" \in Kind /\ "event" \in Kind /\ "state" \in Kind
  BY DEF Kind
<1>6. /\ batch'["metric"] = taken \o own["metric"]
      /\ batch'["event"] = batch["event"] \o own["event"]
      /\ batch'["state"] = BA!At(states, g) /\ DOMAIN batch' = Kind
      /\ batch' = [k \in Kind |-> batch'[k]]
  <2> DEFINE V(k) == CASE k = "metric" -> taken \o own["metric"]
                       [] k = "event" -> batch["event"] \o own["event"]
                       [] k = "state" -> BA!At(states, g)
  <2>1. batch' = [k \in Kind |-> V(k)]
    BY <1>c, KindsAre DEF BA!Queued
  <2>3. V("metric") = taken \o own["metric"]
    OBVIOUS
  <2>4. V("event") = batch["event"] \o own["event"]
    OBVIOUS
  <2>5. V("state") = BA!At(states, g)
    OBVIOUS
  <2> HIDE DEF taken, states, V
  <2>2. /\ DOMAIN batch' = Kind /\ batch' = [k \in Kind |-> batch'[k]]
        /\ \A k \in Kind : batch'[k] = V(k)
    BY <2>1
  <2> QED BY <1>5, <2>2, <2>3, <2>4, <2>5
<1>7. /\ taken \in Seq(S) /\ DOMAIN taken = DOMAIN f
      /\ \A i \in DOMAIN f : f[i] \in DOMAIN batch["metric"] /\ taken[i] = batch["metric"][f[i]]
      /\ \A i, j \in DOMAIN f : i # j => f[i] # f[j]
  <2>1. BA!Unblocked(blocked) \in SUBSET (DOMAIN batch["metric"])
    BY DEF BA!Unblocked
  <2> DEFINE m == batch["metric"]
  <2>2. m \in Seq(S)
    BY <1>4, <1>5
  <2> HIDE DEF m
  <2> QED BY <1>b, <2>1, <2>2, ChosenIs DEF m
<1>8. /\ states \in Seq(S) /\ BA!At(states, g) \in Seq(S) /\ DOMAIN BA!At(states, g) = DOMAIN g
      /\ \A i \in DOMAIN g : g[i] \in DOMAIN states /\ BA!At(states, g)[i] = states[g[i]]
  <2>1. states \in Seq(S)
    BY <1>4, <1>5, ConcatProperties DEF BA!States
  <2>2. BA!Changed(states, unchanged) \in SUBSET (DOMAIN states)
    BY DEF BA!Changed
  <2> HIDE DEF states
  <2> QED BY <1>c, <2>1, <2>2, ChosenIs DEF states
<1>9. ASSUME NEW a \in Seq(S), NEW b \in Seq(S),
             \A i \in DOMAIN a : a[i].sane, \A i \in DOMAIN b : b[i].sane
      PROVE  a \o b \in Seq(S) /\ \A i \in DOMAIN (a \o b) : (a \o b)[i].sane
  <2>1. /\ Len(a) \in Nat /\ Len(b) \in Nat /\ DOMAIN a = 1 .. Len(a) /\ DOMAIN b = 1 .. Len(b)
        /\ a \o b \in Seq(S) /\ DOMAIN (a \o b) = 1 .. Len(a) + Len(b)
        /\ \A i \in 1 .. Len(a) + Len(b) :
             (a \o b)[i] = IF i <= Len(a) THEN a[i] ELSE b[i - Len(a)]
    BY ConcatProperties
  <2>2. \A i \in 1 .. Len(a) + Len(b) : \/ i \in 1 .. Len(a) /\ i <= Len(a)
                                        \/ i - Len(a) \in 1 .. Len(b) /\ ~(i <= Len(a))
    BY <2>1
  <2> QED BY <1>9, <2>1, <2>2
<1>10. \A i \in DOMAIN taken : taken[i].sane
  BY <1>4, <1>5, <1>7
<1>11. \A i \in DOMAIN states : states[i].sane
  BY <1>4, <1>5, <1>9 DEF BA!States
<1>12. \A k \in Kind : batch'[k] \in Seq(S) /\ \A i \in DOMAIN batch'[k] : batch'[k][i].sane
  <2>1. batch'["metric"] \in Seq(S) /\ \A i \in DOMAIN batch'["metric"] : batch'["metric"][i].sane
    <3> DEFINE m == own["metric"]
    <3>1. m \in Seq(S) /\ \A i \in DOMAIN m : m[i].sane
      BY <1>4, <1>5
    <3>2. batch'["metric"] = taken \o m /\ taken \in Seq(S)
      BY <1>6, <1>7
    <3> HIDE DEF taken, m
    <3> QED BY <1>9, <1>10, <3>1, <3>2
  <2>2. batch'["event"] \in Seq(S) /\ \A i \in DOMAIN batch'["event"] : batch'["event"][i].sane
    <3> DEFINE a == batch["event"]
               b == own["event"]
    <3>1. /\ a \in Seq(S) /\ \A i \in DOMAIN a : a[i].sane
          /\ b \in Seq(S) /\ \A i \in DOMAIN b : b[i].sane
      BY <1>4, <1>5
    <3>2. batch'["event"] = a \o b
      BY <1>6
    <3> HIDE DEF a, b
    <3> QED BY <1>9, <3>1, <3>2
  <2>3. batch'["state"] \in Seq(S) /\ \A i \in DOMAIN batch'["state"] : batch'["state"][i].sane
    <3> HIDE DEF states
    <3> QED BY <1>6, <1>8, <1>11
  <2> QED BY <2>1, <2>2, <2>3 DEF Kind
<1>13. BA!IsBatch(batch')
  <2>1. batch' \in BA!BatchesOf(S)
    BY <1>6, <1>12, KindsAre DEF BA!BatchesOf
  <2> QED BY <1>3, <2>1, BatchOf
<1>14. ASSUME NEW i \in DOMAIN batch'["metric"], NEW j \in DOMAIN batch'["metric"],
              i # j, batch'["metric"][i].name \notin BA!Own
       PROVE  BA!Agree(batch'["metric"][i], batch'["metric"][j])
  <2> DEFINE m == own["metric"]
             l == Len(taken)
  <2>1. /\ l \in Nat /\ Len(m) \in Nat /\ DOMAIN taken = 1 .. l /\ m \in Seq(S)
        /\ DOMAIN batch'["metric"] = 1 .. l + Len(m)
        /\ \A x \in 1 .. l + Len(m) :
             batch'["metric"][x] = IF x <= l THEN taken[x] ELSE m[x - l]
    <3>1. m \in Seq(S) /\ taken \in Seq(S)
      BY <1>4, <1>5, <1>7
    <3> HIDE DEF m, taken
    <3>2. DOMAIN taken = 1 .. Len(taken) /\ Len(taken) \in Nat /\ Len(m) \in Nat
      BY <3>1
    <3>3. taken \o m \in Seq(S) /\ DOMAIN (taken \o m) = 1 .. Len(taken) + Len(m)
          /\ \A x \in 1 .. Len(taken) + Len(m) :
               (taken \o m)[x] = IF x <= Len(taken) THEN taken[x] ELSE m[x - Len(taken)]
      BY <3>1, ConcatProperties
    <3>4. batch'["metric"] = taken \o m
      BY <1>6 DEF m, taken
    <3> QED BY <3>1, <3>2, <3>3, <3>4
  <2>2. \A x \in 1 .. Len(m) : m[x].name \in BA!Own
    <3>1. BA!ToSet(m) = {m[x] : x \in 1 .. Len(m)}
      BY <2>1 DEF BA!ToSet
    <3>2. {p.name : p \in BA!ToSet(m)} \subseteq BA!Own
      BY DEF BA!Own
    <3> HIDE DEF m
    <3> QED BY <3>1, <3>2
  <2> HIDE DEF m, l, taken
  <2>3. i \in 1 .. l /\ batch'["metric"][i] = taken[i]
    <3>1. i \in 1 .. l + Len(m) /\ (i \in 1 .. l <=> i <= l)
          /\ (~(i <= l) => i - l \in 1 .. Len(m))
      BY <2>1
    <3>2. CASE i <= l
      BY <2>1, <3>1, <3>2
    <3>3. CASE ~(i <= l)
      <4>1. batch'["metric"][i] = m[i - l]
        BY <2>1, <3>1, <3>3
      <4> QED BY <1>14, <2>2, <3>1, <3>3, <4>1
    <3> QED BY <3>2, <3>3
  <2>4. CASE j \in 1 .. l
    <3>1. batch'["metric"][j] = taken[j]
      BY <2>1, <2>4
    <3>2. f[i] # f[j] /\ f[i] \in DOMAIN batch["metric"] /\ f[j] \in DOMAIN batch["metric"]
      BY <1>7, <1>14, <2>1, <2>3, <2>4
    <3>3. BA!Agree(batch["metric"][f[i]], batch["metric"][f[j]])
      BY <1>1, <3>2 DEF BA!Valid
    <3> QED BY <1>7, <2>1, <2>3, <2>4, <3>1, <3>3
  <2>5. CASE j \notin 1 .. l
    <3>1. ~(j <= l) /\ j - l \in 1 .. Len(m)
      BY <2>1, <2>5
    <3>2. batch'["metric"][j].name \in BA!Own
      BY <2>1, <2>2, <3>1
    <3> QED BY <1>14, <3>2 DEF BA!Agree, BA!SameSeries
  <2> QED BY <2>4, <2>5
<1> QED BY <1>12, <1>13, <1>14, KindsAre DEF BA!Sendable

LEMMA BatchesStart == ASSUME BA!Inductive, BA!StartSplit PROVE BA!Inductive'
<1>1. step' = "split" /\ size' = Overhead /\ parts' = <<>> /\ current' = BA!Empty
      /\ script' = script
      /\ rest' = BA!Tagged(batch', "metric") \o BA!Tagged(batch', "event")
                  \o BA!Tagged(batch', "state")
  BY DEF BA!Inductive, BA!StartSplit
<1>2. BA!IsBatch(batch') /\ BA!Sendable(batch') /\ batch' \in BA!BatchesOf(BA!Things(batch'))
      /\ Sized(BA!Things(batch'))
  BY SplitBatch DEF BA!IsBatch, Sized
<1>3. BA!Together' = BA!Empty
  <2>1. BA!Together' = BA!Concatenated(parts')
    BY DEF BA!Together, BA!Concatenated
  <2> QED BY <1>1, <2>1, ConcatenatedIs, EmptySeq
<1>4. ASSUME NEW k \in Kind
      PROVE  BA!Taken(k)' = 0 /\ BA!Together'[k] = <<>> /\ current'[k] = <<>>
  <2>1. BA!Together'[k] = <<>> /\ current'[k] = <<>>
    BY <1>1, <1>3, EmptyIs
  <2>2. BA!Taken(k)' = Len(BA!Together'[k]) + Len(current'[k])
    BY DEF BA!Taken
  <2>3. Len(<<>>) = 0 /\ 0 + 0 = 0
    OBVIOUS
  <2> QED BY <2>1, <2>2, <2>3
<1>5. \A k \in Kind : BA!Ahead(k)' = BA!Tagged(batch', k)
  <2> SUFFICES ASSUME NEW k \in Kind PROVE BA!Ahead(k)' = BA!Tagged(batch', k)
    OBVIOUS
  <2>1. Len(batch'[k]) \in Nat
    BY <1>2, CountOfBatch
  <2>2. Len(batch'[k]) - 0 = Len(batch'[k]) /\ \A i \in 1 .. Len(batch'[k]) : 0 + i = i
    BY <2>1
  <2> QED BY <1>1, <1>4, <2>2 DEF BA!Ahead, BA!Tagged
<1>6. /\ parts' \in Seq(BA!BatchesOf(BA!Things(batch'))) /\ current' \in BA!BatchesOf(BA!Things(batch'))
      /\ BA!Count(current') = 0 /\ BA!Count(BA!Together') = 0
      /\ Len(parts') = 0 /\ DOMAIN parts' = {} /\ BA!Bytes(current') = Overhead
  <2>1. parts' \in Seq(BA!BatchesOf(BA!Things(batch'))) /\ Len(parts') = 0 /\ DOMAIN parts' = {}
    BY <1>1
  <2>2. current' \in BA!BatchesOf(BA!Things(batch'))
    BY <1>1, EmptyIs
  <2>3. BA!Bytes(current') = Overhead
    BY <1>1, <1>2, <1>4, <2>2, BytesOfBatch
  <2> QED BY <1>1, <1>3, <2>1, <2>2, <2>3, EmptyBatch
<1>7. rest' = BA!Ahead("metric")' \o BA!Ahead("event")' \o BA!Ahead("state")'
  BY <1>1, <1>5 DEF Kind
<1>8. \A k \in Kind : /\ BA!Taken(k)' <= Len(batch'[k]) /\ Len(current'[k]) <= CollectionMax
                      /\ DOMAIN BA!Together'[k] = {} /\ DOMAIN current'[k] = {}
  <2>1. \A k \in Kind : Len(batch'[k]) \in Nat
    BY <1>2, CountOfBatch
  <2>2. CollectionMax \in Nat /\ Len(<<>>) = 0
    BY BatchesAssumption
  <2> QED BY <1>1, <1>4, <2>1, <2>2
<1>9. BA!Splitting'
  <2>1. ItemMax \in Nat
    BY BatchesAssumption
  <2>2. \A k \in Kind : /\ \A i \in DOMAIN BA!Together'[k] : BA!Together'[k][i] = batch'[k][i]
                        /\ \A i \in DOMAIN current'[k] :
                             current'[k][i] = batch'[k][Len(BA!Together'[k]) + i]
    BY <1>8
  <2>3. Len(parts') <= BA!Count(BA!Together') /\ \A i \in DOMAIN parts' : BA!Sound(parts'[i])
    BY <1>6
  <2>4. /\ size' = BA!Bytes(current') /\ BA!Count(current') <= ItemMax
        /\ BA!Count(current') > 0 => size' <= ByteMax
    BY <1>1, <1>6, <2>1
  <2> QED BY <1>6, <1>7, <1>8, <2>2, <2>3, <2>4, KindsAre DEF BA!Splitting
<1>10. BA!TypeOK'
  <2>1. BA!Count(batch') \in Nat
    BY <1>2, CountOfBatch
  <2> QED BY <1>1, <1>6, <2>1, BatchesAssumption DEF BA!Inductive, BA!TypeOK
<1>11. BA!PartsSound'
  BY <1>1 DEF BA!PartsSound
<1> QED BY <1>1, <1>2, <1>9, <1>10, <1>11 DEF BA!Inductive

LEMMA SumsOfSix ==
  /\ \A i, j, k, l, m, n \in Nat : i <= l /\ j <= m /\ k <= n => i + j + k <= l + m + n
  /\ \A i, j, k, l, m, n \in Nat : (i + l) + (j + m) + (k + n) = (i + j + k) + (l + m + n)
OBVIOUS

LEMMA CountIs ==
  ASSUME NEW S, NEW b \in BA!BatchesOf(S)
  PROVE  /\ \A k \in Kind, x \in S : BA!Count(Longer(b, k, x)) = BA!Count(b) + 1
         /\ \A c \in BA!BatchesOf(S) : BA!Count(BA!Joined(b, c)) = BA!Count(b) + BA!Count(c)
         /\ \A c \in BA!BatchesOf(S) :
              (\A k \in Kind : Len(b[k]) <= Len(c[k])) => BA!Count(b) <= BA!Count(c)
<1> DEFINE L(c, k) == Len(c[k])
<1>1. \A c \in BA!BatchesOf(S), k \in Kind : L(c, k) \in Nat
  BY CountOfBatch
<1>2. \A c : BA!Count(c) = L(c, "metric") + L(c, "event") + L(c, "state")
  BY DEF BA!Count
<1>3. "metric" \in Kind /\ "event" \in Kind /\ "state" \in Kind
  BY DEF Kind
<1>4. ASSUME NEW k \in Kind, NEW x \in S
      PROVE  BA!Count(Longer(b, k, x)) = BA!Count(b) + 1
  <2> DEFINE c == Longer(b, k, x)
  <2>1. L(c, k) = L(b, k) + 1 /\ \A j \in Kind : j # k => L(c, j) = L(b, j)
    <3>1. c[k] = Append(b[k], x) /\ b[k] \in Seq(S)
      BY LongerIs, KindsAre DEF BA!BatchesOf
    <3> QED BY <3>1, LongerIs, AppendProperties
  <2>2. L(b, "metric") \in Nat /\ L(b, "event") \in Nat /\ L(b, "state") \in Nat
    BY <1>1, <1>3
  <2> HIDE DEF c, L
  <2>3. BA!Count(c) = L(c, "metric") + L(c, "event") + L(c, "state")
        /\ BA!Count(b) = L(b, "metric") + L(b, "event") + L(b, "state")
    BY <1>2
  <2>4. k = "metric" \/ k = "event" \/ k = "state"
    BY DEF Kind
  <2>5. \/ L(c, "metric") = L(b, "metric") + 1 /\ L(c, "event") = L(b, "event")
           /\ L(c, "state") = L(b, "state")
        \/ L(c, "metric") = L(b, "metric") /\ L(c, "event") = L(b, "event") + 1
           /\ L(c, "state") = L(b, "state")
        \/ L(c, "metric") = L(b, "metric") /\ L(c, "event") = L(b, "event")
           /\ L(c, "state") = L(b, "state") + 1
    BY <1>3, <2>1, <2>4
  <2>6. BA!Count(c) = BA!Count(b) + 1
    BY <2>2, <2>3, <2>5
  <2> QED BY <2>6 DEF c
<1>5. ASSUME NEW c \in BA!BatchesOf(S)
      PROVE  BA!Count(BA!Joined(b, c)) = BA!Count(b) + BA!Count(c)
  <2> DEFINE d == BA!Joined(b, c)
  <2>1. \A k \in Kind : L(d, k) = L(b, k) + L(c, k)
    <3>1. \A k \in Kind : b[k] \in Seq(S) /\ c[k] \in Seq(S) /\ d[k] = b[k] \o c[k]
      BY JoinedIs, KindsAre DEF BA!BatchesOf
    <3>2. \A s, u \in Seq(S) : Len(s \o u) = Len(s) + Len(u)
      BY ConcatProperties
    <3> QED BY <3>1, <3>2
  <2>2. \A k \in Kind : L(b, k) \in Nat /\ L(c, k) \in Nat
    BY <1>1
  <2> HIDE DEF d, L
  <2>3. BA!Count(d) = (L(b, "metric") + L(c, "metric")) + (L(b, "event") + L(c, "event"))
                      + (L(b, "state") + L(c, "state"))
    BY <1>2, <1>3, <2>1
  <2>4. BA!Count(d) = BA!Count(b) + BA!Count(c)
    BY <1>2, <1>3, <2>2, <2>3, SumsOfSix
  <2> QED BY <2>4 DEF d
<1>6. ASSUME NEW c \in BA!BatchesOf(S), \A k \in Kind : Len(b[k]) <= Len(c[k])
      PROVE  BA!Count(b) <= BA!Count(c)
  <2>1. \A k \in Kind : L(b, k) <= L(c, k) /\ L(b, k) \in Nat /\ L(c, k) \in Nat
    BY <1>1, <1>6
  <2> HIDE DEF L
  <2> QED BY <1>2, <1>3, <2>1, SumsOfSix
<1> QED BY <1>4, <1>5, <1>6

(* The current part is as long a stretch of the batch as it has items, so  *)
(* it is sound unless it is empty.                                         *)
LEMMA CurrentInBatch ==
  ASSUME BA!Inductive, step = "split", NEW k \in Kind, NEW i \in 1 .. Len(current[k])
  PROVE  /\ Len(BA!Together[k]) + i \in 1 .. Len(batch[k])
         /\ current[k][i] = batch[k][Len(BA!Together[k]) + i]
<1> DEFINE t == Len(BA!Together[k])
           c == Len(current[k])
           n == Len(batch[k])
<1>1. t \in Nat /\ c \in Nat /\ n \in Nat /\ BA!Taken(k) <= n
  BY SplitFacts
<1>2. BA!Taken(k) = t + c
  BY DEF BA!Taken
<1>3. i \in 1 .. c
  OBVIOUS
<1>4. i \in DOMAIN current[k]
  <2>1. current[k] \in Seq(BA!Things(batch))
    BY SplitFacts
  <2> QED BY <2>1
<1>5. current[k][i] = batch[k][t + i]
  BY <1>4, SplitFacts, KindsAre DEF BA!Splitting
<1> HIDE DEF t, c, n
<1>6. t + i \in 1 .. n
  BY <1>1, <1>2, <1>3
<1> QED BY <1>5, <1>6 DEF t, n

LEMMA CurrentSound ==
  ASSUME BA!Inductive, step = "split", BA!Count(current) # 0
  PROVE  BA!Sound(current)
<1>1. BA!Sendable(current)
  <2>1. BA!Sendable(batch)
    BY DEF BA!Inductive
  <2>2. \A k \in Kind : DOMAIN current[k] = 1 .. Len(current[k])
                        /\ DOMAIN batch[k] = 1 .. Len(batch[k]) /\ Len(BA!Together[k]) \in Nat
    BY SplitFacts
  <2>3. ASSUME NEW k \in Kind, NEW i \in DOMAIN current[k] PROVE current[k][i].sane
    <3> DEFINE t == Len(BA!Together[k])
    <3>1. t + i \in DOMAIN batch[k] /\ current[k][i] = batch[k][t + i]
      BY <2>2, CurrentInBatch
    <3>2. \A j \in DOMAIN batch[k] : batch[k][j].sane
      BY <2>1, KindsAre DEF BA!Sendable
    <3> HIDE DEF t
    <3> QED BY <3>1, <3>2
  <2>4. ASSUME NEW i \in DOMAIN current["metric"], NEW j \in DOMAIN current["metric"],
               i # j, current["metric"][i].name \notin BA!Own
        PROVE  BA!Agree(current["metric"][i], current["metric"][j])
    <3> DEFINE t == Len(BA!Together["metric"])
               b == batch["metric"]
    <3>1. "metric" \in Kind
      BY DEF Kind
    <3>2. i \in 1 .. Len(current["metric"]) /\ j \in 1 .. Len(current["metric"]) /\ t \in Nat
      BY <2>2, <3>1
    <3>3. t + i \in DOMAIN b /\ t + j \in DOMAIN b
          /\ current["metric"][i] = b[t + i] /\ current["metric"][j] = b[t + j]
      BY <2>2, <3>1, <3>2, CurrentInBatch
    <3>4. t + i # t + j
      <4> HIDE DEF t
      <4> QED BY <2>4, <3>2
    <3>5. \A m, n \in DOMAIN b : m # n /\ b[m].name \notin BA!Own => BA!Agree(b[m], b[n])
      BY <2>1 DEF BA!Sendable
    <3> HIDE DEF t, b
    <3> QED BY <2>4, <3>3, <3>4, <3>5
  <2> QED BY <2>3, <2>4, KindsAre DEF BA!Sendable
<1>2. BA!Count(current) \in Nat /\ BA!Count(current) <= ItemMax
  BY SplitFacts, CountOfBatch DEF BA!Splitting
<1>3. BA!Count(current) \in 1 .. ItemMax /\ BA!Count(current) > 0
  BY <1>2, BatchesAssumption
<1>4. BA!Bytes(current) <= ByteMax /\ \A k \in Kind : Len(current[k]) <= CollectionMax
  BY <1>3, SplitFacts, KindsAre DEF BA!Splitting
<1> QED BY <1>1, <1>3, <1>4, KindsAre DEF BA!Sound

(* With the current part, the parts are all that has been taken. *)
LEMMA PartsWithCurrent ==
  ASSUME BA!Inductive, step = "split", parts' = Append(parts, current)
  PROVE  /\ BA!Together' \in BA!BatchesOf(BA!Things(batch))
         /\ BA!Count(BA!Together') = BA!Count(BA!Together) + BA!Count(current)
         /\ \A k \in Kind : /\ Len(BA!Together'[k]) = BA!Taken(k)
                            /\ \A i \in 1 .. BA!Taken(k) : BA!Together'[k][i] = batch[k][i]
<1> DEFINE S == BA!Things(batch)
           T == BA!Together
           U == BA!Together'
<1>1. T \in BA!BatchesOf(S) /\ current \in BA!BatchesOf(S) /\ parts \in Seq(BA!BatchesOf(S))
  BY SplitFacts DEF BA!Splitting
<1>2. U = BA!Joined(T, current)
  <2>1. U = BA!Concatenated(parts') /\ T = BA!Concatenated(parts)
    BY DEF BA!Together, BA!Concatenated
  <2> HIDE DEF T, U
  <2> QED BY <1>1, <2>1, ConcatenatedIs
<1>3. ASSUME NEW k \in Kind
      PROVE  /\ Len(U[k]) = BA!Taken(k)
             /\ \A i \in 1 .. BA!Taken(k) : U[k][i] = batch[k][i]
  <2> DEFINE t == Len(T[k])
             c == Len(current[k])
  <2>1. T[k] \in Seq(S) /\ current[k] \in Seq(S)
    BY SplitFacts
  <2>2. U[k] = T[k] \o current[k]
    <3> HIDE DEF T, U
    <3> QED BY <1>1, <1>2, JoinedIs
  <2>3. t \in Nat /\ c \in Nat
    BY <2>1
  <2>4. BA!Taken(k) = t + c
    BY DEF BA!Taken
  <2>5. /\ Len(U[k]) = t + c
        /\ \A i \in 1 .. t + c : U[k][i] = IF i <= t THEN T[k][i] ELSE current[k][i - t]
    <3> DEFINE a == T[k]
               b == current[k]
    <3>1. a \in Seq(S) /\ b \in Seq(S) /\ t = Len(a) /\ c = Len(b) /\ U[k] = a \o b
      BY <2>1, <2>2
    <3>2. /\ Len(U[k]) = t + c
          /\ \A i \in 1 .. t + c : U[k][i] = IF i <= t THEN a[i] ELSE b[i - t]
      <4> HIDE DEF a, b, S, U, t, c
      <4> QED BY <3>1, ConcatProperties
    <3> QED BY <3>2
  <2>6. ASSUME NEW i \in 1 .. t + c PROVE U[k][i] = batch[k][i]
    <3>1. CASE i <= t
      <4>1. i \in 1 .. t
        <5> HIDE DEF t, c
        <5> QED BY <2>3, <3>1
      <4>2. i \in DOMAIN T[k]
        <5> HIDE DEF T, S
        <5> QED BY <2>1, <4>1
      <4>3. T[k][i] = batch[k][i]
        BY <4>2, SplitFacts, KindsAre DEF BA!Splitting
      <4> QED BY <2>5, <3>1, <4>3
    <3>2. CASE ~(i <= t)
      <4>1. i - t \in 1 .. c /\ t + (i - t) = i
        <5> HIDE DEF t, c
        <5> QED BY <2>3, <3>2
      <4>2. current[k][i - t] = batch[k][t + (i - t)]
        BY <4>1, CurrentInBatch
      <4> QED BY <2>5, <3>2, <4>1, <4>2
    <3> QED BY <3>1, <3>2
  <2> QED BY <2>4, <2>5, <2>6
<1>4. U \in BA!BatchesOf(S) /\ BA!Count(U) = BA!Count(T) + BA!Count(current)
  <2> HIDE DEF T, U, S
  <2> QED BY <1>1, <1>2, JoinedIs, CountIs
<1> QED BY <1>3, <1>4

(* What an item does that is added, whether it starts a new part or not.   *)
Advances(k) ==
  /\ BA!Together' \in BA!BatchesOf(BA!Things(batch)) /\ current' \in BA!BatchesOf(BA!Things(batch))
  /\ parts' \in Seq(BA!BatchesOf(BA!Things(batch)))
  /\ Len(parts') <= BA!Count(BA!Together') /\ \A i \in DOMAIN parts' : BA!Sound(parts'[i])
  /\ \A j \in Kind :
       /\ BA!Taken(j)' = IF j = k THEN BA!Taken(j) + 1 ELSE BA!Taken(j)
       /\ Len(current'[j]) <= CollectionMax
       /\ \A i \in DOMAIN BA!Together'[j] : BA!Together'[j][i] = batch[j][i]
       /\ \A i \in DOMAIN current'[j] : current'[j][i] = batch[j][Len(BA!Together'[j]) + i]
  /\ size' = BA!Bytes(current') /\ BA!Count(current') <= ItemMax /\ size' <= ByteMax

LEMMA AdvanceKeeps ==
  ASSUME BA!Inductive, step = "split", NEW k \in Kind, BA!Taken(k) < Len(batch[k]), Advances(k),
         rest' = Behind("metric", k) \o Behind("event", k) \o Behind("state", k),
         UNCHANGED <<script, batch, step>>
  PROVE  BA!Inductive'
<1> DEFINE S == BA!Things(batch)
<1>1. batch' = batch /\ script' = script /\ step' = "split"
  OBVIOUS
<1>2. ASSUME NEW j \in Kind
      PROVE  BA!Taken(j)' \in Nat /\ BA!Taken(j)' <= Len(batch[j])
  <2> DEFINE n == Len(batch[j])
  <2>1. BA!Taken(j) \in Nat /\ n \in Nat /\ BA!Taken(j) <= n
    BY SplitFacts
  <2>2. BA!Taken(j)' = IF j = k THEN BA!Taken(j) + 1 ELSE BA!Taken(j)
    BY DEF Advances
  <2>3. CASE j # k
    BY <2>1, <2>2, <2>3
  <2>4. CASE j = k
    <3>1. BA!Taken(j) < n
      BY <2>4
    <3>2. BA!Taken(j)' = BA!Taken(j) + 1
      BY <2>2, <2>4
    <3>3. BA!Taken(j)' \in Nat /\ BA!Taken(j)' <= n
      <4> HIDE DEF n
      <4> QED BY <2>1, <3>1, <3>2
    <3> QED BY <3>3
  <2> QED BY <2>3, <2>4
<1>3. \A j \in Kind : Rest(batch'[j], j, BA!Taken(j)') = Behind(j, k)
  BY <1>1 DEF Advances, Behind
<1>4. rest' = BA!Ahead("metric")' \o BA!Ahead("event")' \o BA!Ahead("state")'
  <2>1. /\ BA!Ahead("metric")' = Rest(batch'["metric"], "metric", BA!Taken("metric")')
        /\ BA!Ahead("event")' = Rest(batch'["event"], "event", BA!Taken("event")')
        /\ BA!Ahead("state")' = Rest(batch'["state"], "state", BA!Taken("state")')
    BY DEF BA!Ahead, Rest
  <2>2. "metric" \in Kind /\ "event" \in Kind /\ "state" \in Kind
    BY DEF Kind
  <2> QED BY <1>3, <2>1, <2>2
<1>5. BA!Splitting'
  <2>1. /\ parts' \in Seq(BA!BatchesOf(BA!Things(batch'))) /\ current' \in BA!BatchesOf(BA!Things(batch'))
        /\ Len(parts') <= BA!Count(BA!Together') /\ \A i \in DOMAIN parts' : BA!Sound(parts'[i])
    BY <1>1 DEF Advances
  <2>2. \A j \in Kind :
          /\ BA!Taken(j)' <= Len(batch'[j]) /\ Len(current'[j]) <= CollectionMax
          /\ \A i \in DOMAIN BA!Together'[j] : BA!Together'[j][i] = batch'[j][i]
          /\ \A i \in DOMAIN current'[j] : current'[j][i] = batch'[j][Len(BA!Together'[j]) + i]
    BY <1>1, <1>2 DEF Advances
  <2>3. size' = BA!Bytes(current') /\ BA!Count(current') <= ItemMax /\ size' <= ByteMax
    BY DEF Advances
  <2> QED BY <1>4, <2>1, <2>2, <2>3, KindsAre DEF BA!Splitting
<1>6. Len(parts') <= BA!Count(batch) /\ size' \in Nat
  <2>1. BA!Together' \in BA!BatchesOf(S) /\ batch \in BA!BatchesOf(S) /\ Sized(S)
        /\ current' \in BA!BatchesOf(S) /\ parts' \in Seq(BA!BatchesOf(S))
        /\ Len(parts') <= BA!Count(BA!Together') /\ size' = BA!Bytes(current')
    BY SplitFacts DEF Advances
  <2>2. ASSUME NEW j \in Kind PROVE Len(BA!Together'[j]) <= Len(batch[j])
    <3> DEFINE t == Len(BA!Together'[j])
               c == Len(current'[j])
               n == Len(batch[j])
    <3>1. t \in Nat /\ c \in Nat /\ n \in Nat
      <4> HIDE DEF S
      <4> QED BY <2>1, CountOfBatch
    <3>2. BA!Taken(j)' = t + c /\ BA!Taken(j)' <= n
      BY <1>2 DEF BA!Taken
    <3>3. t <= n
      <4> HIDE DEF t, c, n
      <4> QED BY <3>1, <3>2
    <3> QED BY <3>3
  <2> DEFINE U == BA!Together'
             p == Len(parts')
  <2>3. p \in Nat /\ p <= BA!Count(U)
    BY <2>1
  <2>4. BA!Count(U) \in Nat /\ BA!Count(batch) \in Nat /\ BA!Count(U) <= BA!Count(batch)
    <3>1. U \in BA!BatchesOf(S) /\ \A j \in Kind : Len(U[j]) <= Len(batch[j])
      BY <2>1, <2>2
    <3> HIDE DEF S, U
    <3> QED BY <2>1, <3>1, CountIs, CountOfBatch
  <2>5. size' \in Nat
    <3> HIDE DEF S
    <3> QED BY <2>1, BytesOfBatch
  <2>6. p <= BA!Count(batch)
    <3> HIDE DEF p, U
    <3> QED BY <2>3, <2>4
  <2> QED BY <2>5, <2>6
<1>7. BA!TypeOK'
  BY <1>1, <1>6 DEF BA!Inductive, BA!TypeOK
<1>8. BA!PartsSound'
  BY <1>1 DEF BA!PartsSound
<1>9. BA!IsBatch(batch') /\ BA!Sendable(batch')
  BY <1>1 DEF BA!Inductive
<1> QED BY <1>1, <1>5, <1>7, <1>8, <1>9 DEF BA!Inductive

LEMMA AddAdvances ==
  ASSUME BA!Inductive, step = "split", NEW k \in Kind, NEW x,
         BA!Taken(k) < Len(batch[k]), x = batch[k][BA!Taken(k) + 1], BA!Fits(k, x),
         current' = Longer(current, k, x), size' = size + BA!Separated(k, x), parts' = parts
  PROVE  Advances(k)
<1> DEFINE S == BA!Things(batch)
           T == BA!Together
<1>1. /\ T \in BA!BatchesOf(S) /\ current \in BA!BatchesOf(S) /\ Sized(S)
      /\ parts \in Seq(BA!BatchesOf(S)) /\ size = BA!Bytes(current)
      /\ \A j \in Kind : batch[j] \in Seq(S) /\ current[j] \in Seq(S) /\ BA!Taken(j) \in Nat
                        /\ Len(T[j]) \in Nat /\ Len(current[j]) \in Nat /\ Len(batch[j]) \in Nat
  BY SplitFacts DEF BA!Splitting
<1>2. x \in S /\ BA!Taken(k) + 1 \in 1 .. Len(batch[k])
  <2> DEFINE n == Len(batch[k])
             s == batch[k]
  <2>1. n \in Nat /\ BA!Taken(k) \in Nat /\ BA!Taken(k) < n
    BY <1>1
  <2>2. BA!Taken(k) + 1 \in 1 .. n
    <3> HIDE DEF n
    <3> QED BY <2>1
  <2>3. s \in Seq(S)
    BY <1>1
  <2>4. s[BA!Taken(k) + 1] \in S
    <3> HIDE DEF s, S
    <3> QED BY <2>2, <2>3, ElementOfSeq DEF s
  <2> QED BY <2>2, <2>4
<1>3. BA!Together' = T
  BY DEF BA!Together, BA!Concatenated
<1> HIDE DEF S, T
<1>4. /\ current' \in BA!BatchesOf(S) /\ current'[k] = Append(current[k], x)
      /\ \A j \in Kind : j # k => current'[j] = current[j]
  <2>1. /\ Longer(current, k, x) \in BA!BatchesOf(S)
        /\ Longer(current, k, x)[k] = Append(current[k], x)
        /\ \A j \in Kind : j # k => Longer(current, k, x)[j] = current[j]
    <3> DEFINE b == current
    <3>1. b \in BA!BatchesOf(S) /\ x \in S
      BY <1>1, <1>2
    <3> HIDE DEF b
    <3>2. /\ Longer(b, k, x) \in BA!BatchesOf(S)
          /\ Longer(b, k, x)[k] = Append(b[k], x)
          /\ \A j \in Kind : j # k => Longer(b, k, x)[j] = b[j]
      BY ONLY <3>1, LongerIs, k \in Kind
    <3> QED BY <3>2 DEF b
  <2>2. current' = Longer(current, k, x)
    OBVIOUS
  <2> QED BY <2>1, <2>2
<1>5. /\ Len(current'[k]) = Len(current[k]) + 1 /\ DOMAIN current'[k] = 1 .. Len(current[k]) + 1
      /\ \A i \in 1 .. Len(current[k]) : current'[k][i] = current[k][i]
      /\ current'[k][Len(current[k]) + 1] = x
  <2>1. current[k] \in Seq(S)
    BY <1>1
  <2> QED BY <1>2, <1>4, <2>1, AppendProperties
<1>6. \A j \in Kind : BA!Taken(j) = Len(T[j]) + Len(current[j])
                     /\ BA!Taken(j)' = Len(T[j]) + Len(current'[j])
  BY <1>3 DEF BA!Taken, T
<1>7. ASSUME NEW j \in Kind
      PROVE  BA!Taken(j)' = IF j = k THEN BA!Taken(j) + 1 ELSE BA!Taken(j)
  <2> DEFINE t == Len(T[j])
             c == Len(current[j])
  <2>1. t \in Nat /\ c \in Nat
    BY <1>1
  <2>2. j = k => Len(current'[j]) = c + 1
    BY <1>5
  <2>3. j # k => Len(current'[j]) = c
    BY <1>4
  <2>4. BA!Taken(j) = t + c /\ BA!Taken(j)' = t + Len(current'[j])
    BY <1>6
  <2>5. CASE j = k
    <3>1. BA!Taken(j)' = t + (c + 1)
      BY <2>2, <2>4, <2>5
    <3>2. BA!Taken(j)' = BA!Taken(j) + 1
      <4> HIDE DEF t, c
      <4> QED BY <2>1, <2>4, <3>1
    <3> QED BY <2>5, <3>2
  <2>6. CASE j # k
    BY <2>3, <2>4, <2>6
  <2> QED BY <2>5, <2>6
<1>8. ASSUME NEW j \in Kind, NEW i \in DOMAIN current'[j]
      PROVE  current'[j][i] = batch[j][Len(T[j]) + i]
  <2>1. \A m \in 1 .. Len(current[j]) : current[j][m] = batch[j][Len(T[j]) + m]
    BY CurrentInBatch DEF T
  <2>2. CASE j # k
    <3>1. current'[j] = current[j] /\ DOMAIN current[j] = 1 .. Len(current[j])
      BY <1>1, <1>4, <2>2
    <3> QED BY <2>1, <3>1
  <2>3. CASE j = k
    <3> DEFINE c == Len(current[k])
               t == Len(T[k])
    <3>1. c \in Nat /\ t \in Nat /\ i \in 1 .. c + 1
      BY <1>1, <1>5, <2>3
    <3>2. CASE i \in 1 .. c
      BY <1>5, <2>1, <2>3, <3>2
    <3>3. CASE i = c + 1
      <4>1. t + i = BA!Taken(k) + 1
        <5>1. BA!Taken(k) = t + c
          BY <1>6
        <5> HIDE DEF t, c
        <5> QED BY <3>1, <3>3, <5>1
      <4> QED BY <1>5, <2>3, <3>3, <4>1
    <3> HIDE DEF t, c
    <3> QED BY <3>1, <3>2, <3>3
  <2> QED BY <2>2, <2>3
<1>9. \A j \in Kind : \A i \in DOMAIN T[j] : T[j][i] = batch[j][i]
  BY SplitFacts, KindsAre DEF BA!Splitting, T
<1>10. \A j \in Kind : Len(current'[j]) <= CollectionMax
  <2>1. Len(current'[k]) <= CollectionMax
    BY <1>5 DEF BA!Fits
  <2>2. \A j \in Kind : Len(current[j]) <= CollectionMax
    BY SplitFacts, KindsAre DEF BA!Splitting
  <2> QED BY <1>4, <2>1, <2>2
<1>11. size' = BA!Bytes(current') /\ size' <= ByteMax
  <2>1. BA!Bytes(current') = BA!Bytes(current) + BA!Separated(k, x)
    BY <1>1, <1>2, BytesOfBatch DEF BA!Separated
  <2> QED BY <1>1, <2>1 DEF BA!Fits
<1>12. BA!Count(current') <= ItemMax
  <2>1. BA!Count(current') = BA!Count(current) + 1
    BY <1>1, <1>2, CountIs
  <2> QED BY <2>1 DEF BA!Fits
<1>13. Len(parts') <= BA!Count(BA!Together') /\ \A i \in DOMAIN parts' : BA!Sound(parts'[i])
  BY <1>3, SplitFacts DEF BA!Splitting, T
<1> QED BY <1>1, <1>3, <1>4, <1>7, <1>8, <1>9, <1>10, <1>11, <1>12, <1>13 DEF Advances, S

LEMMA CutAdvances ==
  ASSUME BA!Inductive, step = "split", NEW k \in Kind, NEW x,
         BA!Taken(k) < Len(batch[k]), x = batch[k][BA!Taken(k) + 1],
         ~BA!Fits(k, x), ~BA!TooLarge(x),
         current' = Longer(BA!Empty, k, x), size' = Overhead + x.size,
         parts' = Append(parts, current)
  PROVE  Advances(k)
<1> DEFINE S == BA!Things(batch)
           T == BA!Together
           U == BA!Together'
<1>1. /\ T \in BA!BatchesOf(S) /\ current \in BA!BatchesOf(S) /\ Sized(S)
      /\ parts \in Seq(BA!BatchesOf(S)) /\ size = BA!Bytes(current)
      /\ \A j \in Kind : batch[j] \in Seq(S) /\ current[j] \in Seq(S) /\ BA!Taken(j) \in Nat
                        /\ Len(T[j]) \in Nat /\ Len(current[j]) \in Nat /\ Len(batch[j]) \in Nat
  BY SplitFacts DEF BA!Splitting
<1>2. x \in S
  <2> DEFINE n == Len(batch[k])
             s == batch[k]
  <2>1. n \in Nat /\ BA!Taken(k) \in Nat /\ BA!Taken(k) < n
    BY <1>1
  <2>2. BA!Taken(k) + 1 \in 1 .. n
    <3> HIDE DEF n
    <3> QED BY <2>1
  <2>3. s \in Seq(S)
    BY <1>1
  <2>4. s[BA!Taken(k) + 1] \in S
    <3> HIDE DEF s, S
    <3> QED BY <2>2, <2>3, ElementOfSeq DEF s
  <2> QED BY <2>2, <2>4
<1>3. /\ U \in BA!BatchesOf(S) /\ BA!Count(U) = BA!Count(T) + BA!Count(current)
      /\ \A j \in Kind : /\ Len(U[j]) = BA!Taken(j)
                        /\ \A i \in 1 .. BA!Taken(j) : U[j][i] = batch[j][i]
  BY PartsWithCurrent
<1>4. BA!Count(current) # 0
  <2>1. ASSUME BA!Count(current) = 0 PROVE FALSE
    <3>1. \A j \in Kind : current[j] = <<>>
      BY <1>1, <2>1, CountOfBatch
    <3>2. size = Overhead
      BY <1>1, <3>1, BytesOfBatch
    <3>3. BA!Separated(k, x) = x.size
      BY <3>1 DEF BA!Separated
    <3>4. size + BA!Separated(k, x) <= ByteMax
      <4>1. x.size \in Nat /\ Overhead \in Nat /\ ByteMax \in Nat
        BY <1>1, <1>2, BatchesAssumption DEF Sized
      <4> QED BY <3>2, <3>3, <4>1 DEF BA!TooLarge
    <3>5. BA!Count(current) + 1 <= ItemMax /\ Len(current[k]) + 1 <= CollectionMax
      <4>1. Len(current[k]) = 0
        BY <3>1
      <4> QED BY <2>1, <4>1, BatchesAssumption
    <3> QED BY <3>4, <3>5 DEF BA!Fits
  <2> QED BY <2>1
<1>5. BA!Sound(current)
  BY <1>4, CurrentSound
<1>6. parts' \in Seq(BA!BatchesOf(S)) /\ \A i \in DOMAIN parts' : BA!Sound(parts'[i])
  <2>1. \A i \in DOMAIN parts : BA!Sound(parts[i])
    BY SplitFacts DEF BA!Splitting
  <2> DEFINE B == BA!BatchesOf(S)
             m == Len(parts)
  <2>2. /\ parts' \in Seq(B) /\ DOMAIN parts' = 1 .. m + 1 /\ DOMAIN parts = 1 .. m /\ m \in Nat
        /\ \A i \in 1 .. m : parts'[i] = parts[i]
        /\ parts'[m + 1] = current
    <3>1. parts \in Seq(B) /\ current \in B
      BY <1>1
    <3> HIDE DEF B
    <3> QED BY <3>1, AppendProperties
  <2>3. ASSUME NEW i \in 1 .. m + 1 PROVE BA!Sound(parts'[i])
    <3>1. i \in 1 .. m \/ i = m + 1
      <4> HIDE DEF m
      <4> QED BY <2>2
    <3> HIDE DEF m
    <3> QED BY <1>5, <2>1, <2>2, <3>1
  <2> QED BY <2>2, <2>3
<1>7. Len(parts') <= BA!Count(U)
  <2> DEFINE m == Len(parts)
             t == BA!Count(T)
             c == BA!Count(current)
  <2>1. Len(parts') = m + 1 /\ m \in Nat
    BY <1>1, AppendProperties
  <2>2. t \in Nat /\ c \in Nat
    <3> HIDE DEF S, T
    <3> QED BY <1>1, CountOfBatch
  <2>3. m <= t /\ c # 0 /\ BA!Count(U) = t + c
    BY <1>3, <1>4, SplitFacts DEF BA!Splitting
  <2>4. m + 1 <= t + c
    <3> HIDE DEF m, t, c
    <3> QED BY <2>1, <2>2, <2>3
  <2> QED BY <2>1, <2>3, <2>4
<1> HIDE DEF S, T, U
<1>8. BA!Empty \in BA!BatchesOf(S) /\ \A j \in Kind : BA!Empty[j] = <<>>
  BY EmptyIs
<1>9. /\ current' \in BA!BatchesOf(S) /\ current'[k] = <<x>>
      /\ \A j \in Kind : j # k => current'[j] = <<>>
  <2>1. /\ Longer(BA!Empty, k, x) \in BA!BatchesOf(S)
        /\ Longer(BA!Empty, k, x)[k] = Append(BA!Empty[k], x)
        /\ \A j \in Kind : j # k => Longer(BA!Empty, k, x)[j] = BA!Empty[j]
    BY ONLY <1>2, <1>8, LongerIs, k \in Kind
  <2>2. current' = Longer(BA!Empty, k, x) /\ Append(<<>>, x) = <<x>>
    OBVIOUS
  <2> QED BY <1>8, <2>1, <2>2
<1>10. /\ Len(current'[k]) = 1 /\ DOMAIN current'[k] = {1} /\ current'[k][1] = x
       /\ \A j \in Kind : j # k => Len(current'[j]) = 0 /\ DOMAIN current'[j] = {}
  <2>1. Len(<<x>>) = 1 /\ DOMAIN <<x>> = {1} /\ <<x>>[1] = x /\ Len(<<>>) = 0 /\ DOMAIN <<>> = {}
    OBVIOUS
  <2> QED BY <1>9, <2>1
<1>11. ASSUME NEW j \in Kind
       PROVE  BA!Taken(j)' = IF j = k THEN BA!Taken(j) + 1 ELSE BA!Taken(j)
  <2>1. BA!Taken(j)' = Len(U[j]) + Len(current'[j])
    BY DEF BA!Taken, U
  <2>2. BA!Taken(j)' = BA!Taken(j) + Len(current'[j]) /\ BA!Taken(j) \in Nat
    BY <1>1, <1>3, <2>1
  <2>3. CASE j = k
    BY <1>10, <2>2, <2>3
  <2>4. CASE j # k
    <3>1. Len(current'[j]) = 0
      BY <1>10, <2>4
    <3> QED BY <2>2, <2>4, <3>1
  <2> QED BY <2>3, <2>4
<1>12. ASSUME NEW j \in Kind, NEW i \in DOMAIN current'[j]
       PROVE  current'[j][i] = batch[j][Len(U[j]) + i]
  <2>1. j = k /\ i = 1
    BY <1>10
  <2> QED BY <1>3, <1>10, <2>1
<1>13. \A j \in Kind : \A i \in DOMAIN U[j] : U[j][i] = batch[j][i]
  <2> SUFFICES ASSUME NEW j \in Kind, NEW i \in DOMAIN U[j] PROVE U[j][i] = batch[j][i]
    OBVIOUS
  <2>1. U[j] \in Seq(S)
    BY <1>3, KindsAre DEF BA!BatchesOf
  <2>2. DOMAIN U[j] = 1 .. BA!Taken(j)
    <3>1. DOMAIN U[j] = 1 .. Len(U[j])
      BY <2>1
    <3> QED BY <1>3, <3>1
  <2> QED BY <1>3, <2>2
<1>14. \A j \in Kind : Len(current'[j]) <= CollectionMax
  <2>1. CollectionMax \in Nat \ {0}
    BY BatchesAssumption
  <2>2. 0 <= CollectionMax /\ 1 <= CollectionMax
    BY <2>1
  <2> QED BY <1>10, <2>2
<1>15. size' = BA!Bytes(current') /\ size' <= ByteMax
  <2>1. BA!Bytes(current') = BA!Bytes(BA!Empty) + x.size
    <3>1. BA!Empty[k] = <<>>
      BY <1>8
    <3> QED BY <1>1, <1>2, <1>8, <3>1, BytesOfBatch
  <2>2. BA!Bytes(BA!Empty) = Overhead
    BY <1>1, <1>8, BytesOfBatch
  <2>3. size' <= ByteMax
    <3>1. x.size \in Nat /\ Overhead \in Nat /\ ByteMax \in Nat
      BY <1>1, <1>2, BatchesAssumption DEF Sized
    <3> QED BY <3>1 DEF BA!TooLarge
  <2> QED BY <2>1, <2>2, <2>3
<1>16. BA!Count(current') <= ItemMax
  <2>1. BA!Count(current') = BA!Count(BA!Empty) + 1
    BY <1>2, <1>8, CountIs
  <2>2. ItemMax \in Nat \ {0}
    BY BatchesAssumption
  <2> QED BY <2>1, <2>2, EmptyBatch
<1> QED BY <1>3, <1>6, <1>7, <1>9, <1>11, <1>12, <1>13, <1>14, <1>15, <1>16 DEF Advances, S, U

LEMMA BatchesAdd == ASSUME BA!Inductive, BA!Add PROVE BA!Inductive'
<1>1. step = "split" /\ rest # <<>> /\ rest' = Tail(rest) /\ UNCHANGED <<script, batch, step>>
  BY DEF BA!Add
<1>2. PICK k \in Kind :
        /\ BA!Taken(k) < Len(batch[k])
        /\ Head(rest) = [kind |-> k, item |-> batch[k][BA!Taken(k) + 1]]
        /\ Tail(rest) = Behind("metric", k) \o Behind("event", k) \o Behind("state", k)
  BY <1>1, NextEntry
<1> DEFINE x == batch[k][BA!Taken(k) + 1]
<1>3. Head(rest).kind = k /\ Head(rest).item = x
  BY <1>2
<1> HIDE DEF x
<1>4. /\ ~BA!TooLarge(x)
      /\ \/ /\ BA!Fits(k, x) /\ current' = [current EXCEPT ![k] = Append(@, x)]
            /\ size' = size + BA!Separated(k, x) /\ parts' = parts
         \/ /\ ~BA!Fits(k, x) /\ parts' = Append(parts, current)
            /\ current' = [BA!Empty EXCEPT ![k] = <<x>>] /\ size' = Overhead + x.size
  BY <1>3 DEF BA!Add
<1>5. x = batch[k][BA!Taken(k) + 1]
  BY DEF x
<1>6. CASE BA!Fits(k, x)
  <2>1. current' = Longer(current, k, x)
    BY <1>4, <1>6 DEF Longer
  <2>2. Advances(k)
    BY <1>1, <1>2, <1>4, <1>5, <1>6, <2>1, AddAdvances
  <2> QED BY <1>1, <1>2, <2>2, AdvanceKeeps
<1>7. CASE ~BA!Fits(k, x)
  <2>1. current' = Longer(BA!Empty, k, x)
    <3>1. BA!Empty[k] = <<>>
      BY EmptyIs
    <3>2. Append(<<>>, x) = <<x>>
      OBVIOUS
    <3> QED BY <1>4, <1>7, <3>1, <3>2 DEF Longer
  <2>2. Advances(k)
    BY <1>1, <1>2, <1>4, <1>5, <1>7, <2>1, CutAdvances
  <2> QED BY <1>1, <1>2, <2>2, AdvanceKeeps
<1> QED BY <1>6, <1>7

LEMMA BatchesFail == ASSUME BA!Inductive, BA!SplitFails PROVE BA!Inductive'
<1>1. step = "split" /\ rest # <<>> /\ BA!TooLarge(Head(rest).item) /\ step' = "failed"
      /\ UNCHANGED <<script, batch, rest, current, size, parts>>
  BY DEF BA!SplitFails
<1>2. PICK k \in Kind :
        /\ BA!Taken(k) < Len(batch[k])
        /\ Head(rest) = [kind |-> k, item |-> batch[k][BA!Taken(k) + 1]]
  BY <1>1, NextEntry
<1>3. BA!TooLarge(batch[k][BA!Taken(k) + 1])
  BY <1>1, <1>2
<1>4. BA!Taken(k) + 1 \in DOMAIN batch[k]
  <2> DEFINE n == Len(batch[k])
  <2>1. BA!Taken(k) \in Nat /\ n \in Nat /\ DOMAIN batch[k] = 1 .. n /\ BA!Taken(k) < n
    BY <1>1, <1>2, SplitFacts
  <2> HIDE DEF n
  <2> QED BY <2>1
<1>5. BA!PartsSound'
  BY <1>1, <1>3, <1>4, KindsAre DEF BA!PartsSound, BA!TooLarge
<1>6. BA!TypeOK' /\ BA!IsBatch(batch') /\ BA!Sendable(batch')
  BY <1>1 DEF BA!Inductive, BA!TypeOK
<1> QED BY <1>1, <1>5, <1>6 DEF BA!Inductive

LEMMA BatchesEnd == ASSUME BA!Inductive, BA!SplitEnds PROVE BA!Inductive'
<1> DEFINE S == BA!Things(batch)
           T == BA!Together
           U == BA!Together'
<1>1. step = "split" /\ rest = <<>> /\ step' = "done" /\ UNCHANGED <<script, batch, rest, current, size>>
      /\ parts' = IF BA!Count(current) > 0 THEN Append(parts, current) ELSE parts
  BY DEF BA!SplitEnds
<1>2. /\ T \in BA!BatchesOf(S) /\ current \in BA!BatchesOf(S) /\ batch \in BA!BatchesOf(S)
      /\ parts \in Seq(BA!BatchesOf(S)) /\ BA!Count(current) \in Nat /\ Len(parts) <= BA!Count(T)
      /\ \A i \in DOMAIN parts : BA!Sound(parts[i])
  BY <1>1, SplitFacts, CountOfBatch DEF BA!Splitting
<1>3. ASSUME NEW j \in Kind PROVE BA!Taken(j) = Len(batch[j])
  <2>1. /\ rest = BA!Ahead("metric") \o BA!Ahead("event") \o BA!Ahead("state")
    BY <1>1, SplitFacts DEF BA!Splitting
  <2>2. \A i \in Kind : /\ Rest(batch[i], i, BA!Taken(i)) \in Seq(Entries(S))
                        /\ Rest(batch[i], i, BA!Taken(i)) = <<>> <=> BA!Taken(i) = Len(batch[i])
    <3> SUFFICES ASSUME NEW i \in Kind
                 PROVE  /\ Rest(batch[i], i, BA!Taken(i)) \in Seq(Entries(S))
                        /\ Rest(batch[i], i, BA!Taken(i)) = <<>> <=> BA!Taken(i) = Len(batch[i])
      OBVIOUS
    <3>1. batch[i] \in Seq(S) /\ BA!Taken(i) \in Nat /\ BA!Taken(i) <= Len(batch[i])
      BY <1>1, SplitFacts
    <3> QED BY <3>1, RestIs
  <2> DEFINE a == Rest(batch["metric"], "metric", BA!Taken("metric"))
             b == Rest(batch["event"], "event", BA!Taken("event"))
             c == Rest(batch["state"], "state", BA!Taken("state"))
             E == Entries(S)
  <2>3. a \in Seq(E) /\ b \in Seq(E) /\ c \in Seq(E) /\ a \o b \o c = <<>>
    BY <1>1, <2>1, <2>2, AheadIs DEF Kind
  <2>4. a = <<>> /\ b = <<>> /\ c = <<>>
    <3> HIDE DEF a, b, c, E
    <3> QED BY <2>3, FirstOfThree
  <2> QED BY <2>2, <2>4 DEF Kind
<1>4. batch = [k \in Kind |-> batch[k]]
  BY <1>2, KindsAre DEF BA!BatchesOf
<1>5. ASSUME BA!Count(current) > 0
       PROVE  /\ U = batch /\ (\A i \in DOMAIN parts' : BA!Sound(parts'[i]))
              /\ Len(parts') <= BA!Count(batch)
  <2>1. parts' = Append(parts, current) /\ BA!Count(current) # 0
    BY <1>1, <1>2, <1>5
  <2>2. /\ U \in BA!BatchesOf(S) /\ BA!Count(U) = BA!Count(T) + BA!Count(current)
        /\ \A j \in Kind : /\ Len(U[j]) = BA!Taken(j)
                          /\ \A i \in 1 .. BA!Taken(j) : U[j][i] = batch[j][i]
    BY <1>1, <2>1, PartsWithCurrent
  <2>3. U = batch
    <3>1. ASSUME NEW j \in Kind PROVE U[j] = batch[j]
      <4>1. U[j] \in Seq(S) /\ batch[j] \in Seq(S)
        BY <1>2, <2>2, KindsAre DEF BA!BatchesOf
      <4>2. Len(U[j]) = Len(batch[j]) /\ \A i \in 1 .. Len(U[j]) : U[j][i] = batch[j][i]
        BY <1>3, <2>2
      <4> HIDE DEF U, S
      <4> QED BY <4>1, <4>2, SeqEqual
    <3>2. U = [k \in Kind |-> U[k]]
      BY <2>2, KindsAre DEF BA!BatchesOf
    <3> HIDE DEF U
    <3> QED BY <1>4, <3>1, <3>2
  <2>4. BA!Sound(current)
    BY <1>1, <2>1, CurrentSound
  <2> DEFINE m == Len(parts)
  <2>5. /\ DOMAIN parts' = 1 .. m + 1 /\ DOMAIN parts = 1 .. m /\ m \in Nat /\ Len(parts') = m + 1
        /\ \A i \in 1 .. m : parts'[i] = parts[i]
        /\ parts'[m + 1] = current
    <3> DEFINE B == BA!BatchesOf(S)
    <3>1. parts \in Seq(B) /\ current \in B
      BY <1>2
    <3> HIDE DEF B
    <3> QED BY <2>1, <3>1, AppendProperties
  <2>6. ASSUME NEW i \in DOMAIN parts' PROVE BA!Sound(parts'[i])
    <3>1. i \in 1 .. m \/ i = m + 1
      <4> HIDE DEF m
      <4> QED BY <2>5
    <3> HIDE DEF m
    <3> QED BY <1>2, <2>4, <2>5, <3>1
  <2>7. Len(parts') <= BA!Count(batch)
    <3> DEFINE t == BA!Count(T)
               c == BA!Count(current)
    <3>1. t \in Nat
      <4> HIDE DEF T, S
      <4> QED BY <1>2, CountOfBatch
    <3>2. BA!Count(batch) = t + c /\ c \in Nat /\ c # 0 /\ m <= t
      BY <1>2, <2>1, <2>2, <2>3
    <3> HIDE DEF t, c, m
    <3> QED BY <2>5, <3>1, <3>2
  <2> QED BY <2>3, <2>6, <2>7
<1>6. ASSUME ~(BA!Count(current) > 0)
       PROVE  /\ U = batch /\ (\A i \in DOMAIN parts' : BA!Sound(parts'[i]))
              /\ Len(parts') <= BA!Count(batch)
  <2>1. parts' = parts /\ BA!Count(current) = 0
    BY <1>1, <1>2, <1>6
  <2>2. \A j \in Kind : current[j] = <<>>
    <3> HIDE DEF S
    <3> QED BY <1>2, <2>1, CountOfBatch
  <2>3. U = T
    BY <2>1 DEF BA!Together, BA!Concatenated
  <2>4. T = batch
    <3>1. ASSUME NEW j \in Kind PROVE T[j] = batch[j]
      <4>1. T[j] \in Seq(S) /\ batch[j] \in Seq(S)
        BY <1>2, KindsAre DEF BA!BatchesOf
      <4>2. Len(T[j]) = Len(batch[j])
        <5> DEFINE t == Len(T[j])
        <5>1. t \in Nat /\ BA!Taken(j) = t + Len(<<>>)
          <6>1. t \in Nat
            BY <4>1
          <6>2. BA!Taken(j) = t + Len(current[j])
            BY DEF BA!Taken
          <6> QED BY <2>2, <6>1, <6>2
        <5>2. Len(<<>>) = 0
          OBVIOUS
        <5>3. BA!Taken(j) = t
          <6> HIDE DEF t
          <6> QED BY <5>1, <5>2
        <5> QED BY <1>3, <5>3
      <4>3. \A i \in 1 .. Len(T[j]) : T[j][i] = batch[j][i]
        <5>1. DOMAIN T[j] = 1 .. Len(T[j])
          BY <4>1
        <5> QED BY <1>1, <5>1, SplitFacts, KindsAre DEF BA!Splitting
      <4> HIDE DEF T, S
      <4> QED BY <4>1, <4>2, <4>3, SeqEqual
    <3>2. T = [k \in Kind |-> T[k]]
      BY <1>2, KindsAre DEF BA!BatchesOf
    <3> HIDE DEF T
    <3> QED BY <1>4, <3>1, <3>2
  <2> HIDE DEF T, U
  <2> QED BY <1>2, <2>1, <2>3, <2>4
<1>7. U = batch /\ (\A i \in DOMAIN parts' : BA!Sound(parts'[i])) /\ Len(parts') <= BA!Count(batch)
  BY <1>2, <1>5, <1>6
<1>8. BA!PartsSound'
  BY <1>1, <1>7 DEF BA!PartsSound
<1>9. BA!TypeOK' /\ BA!IsBatch(batch') /\ BA!Sendable(batch')
  BY <1>1, <1>7 DEF BA!Inductive, BA!TypeOK
<1> QED BY <1>1, <1>8, <1>9 DEF BA!Inductive

LEMMA BatchesStep == ASSUME BA!Inductive, BA!Next PROVE BA!Inductive'
BY BatchesCollect, BatchesStart, BatchesAdd, BatchesFail, BatchesEnd DEF BA!Next

LEMMA BatchesUnchanged == ASSUME BA!Inductive, UNCHANGED BA!vars PROVE BA!Inductive'
<1> USE DEF BA!vars
<1>1. BA!Together' = BA!Together
  BY DEF BA!Together, BA!Concatenated
<1>2. \A k : BA!Taken(k)' = BA!Taken(k)
  BY <1>1 DEF BA!Taken
<1>3. \A k : BA!Ahead(k)' = BA!Ahead(k)
  BY <1>2 DEF BA!Ahead
<1>4. BA!Splitting => BA!Splitting'
  BY <1>1, <1>2, <1>3 DEF BA!Splitting
<1>5. BA!PartsSound => BA!PartsSound'
  BY <1>1 DEF BA!PartsSound
<1> QED BY <1>4, <1>5 DEF BA!Inductive, BA!TypeOK
-----------------------------------------------------------------------------
(* The uptime collector: the names an answer leads to *)

(* A pass over an answer takes its records one after the other. *)
LEMMA PassSteps ==
  ASSUME NEW n \in Nat, NEW answers \in [1 .. n -> UP!Answer], NEW S \in SUBSET Names
  PROVE  \E h \in [0 .. n -> SUBSET Names] :
           /\ h[0] = S /\ h[n] = UP!Pass(S, answers)
           /\ \A k \in 1 .. n : h[k] = UP!Follow(h[k - 1], answers[k])
<1> DEFINE V == SUBSET Names
           turn == [i \in 1 .. n |-> [v \in V |-> UP!Follow(v, answers[i])]]
           Unfold(g) == [s \in SUBSET (1 .. n) |->
                           IF s = {} THEN S
                           ELSE UP!Follow(g[s \ {Greatest(s)}], answers[Greatest(s)])]
           iter == CHOOSE g : g = Unfold(g)
           h == Beginnings(iter, n)
<1>1. UP!Pass(S, answers) = iter[1 .. n]
  <2>1. DOMAIN answers = 1 .. n
    OBVIOUS
  <2> QED BY <2>1 DEF UP!Pass, UP!FoldLeft, UP!MapThenFoldSet, UP!Max, Greatest
<1>2. S \in V /\ \A v \in V, i \in 1 .. n : UP!Follow(v, answers[i]) \in V
  BY DEF UP!Follow, UP!Answer
<1>3. turn \in [1 .. n -> [V -> V]]
  BY <1>2
<1>4. \A v \in V, i \in 1 .. n : turn[i][v] = UP!Follow(v, answers[i])
  OBVIOUS
<1> HIDE DEF V, turn
<1>5. PICK g \in [SUBSET (1 .. n) -> V] : FoldsOver(g, S, turn, n)
  BY <1>2, <1>3, FoldOver
<1>6. g = Unfold(g)
  <2>1. ASSUME NEW s \in SUBSET (1 .. n), s # {}
        PROVE  g[s] = UP!Follow(g[s \ {Greatest(s)}], answers[Greatest(s)])
    <3>1. Greatest(s) \in 1 .. n /\ g[s \ {Greatest(s)}] \in V
      BY <2>1, GreatestIn
    <3> QED BY <1>4, <1>5, <2>1, <3>1 DEF FoldsOver
  <2> QED BY <1>5, <2>1 DEF FoldsOver
<1>7. iter = Unfold(iter)
  <2> HIDE DEF Unfold
  <2> QED BY <1>6
<1>8. Recurs(iter, S, turn, V, n)
  <2> HIDE DEF iter
  <2>1. iter[{}] = S
    BY <1>7
  <2>2. ASSUME NEW s \in SUBSET (1 .. n), s # {}, iter[s \ {Greatest(s)}] \in V
        PROVE  iter[s] = turn[Greatest(s)][iter[s \ {Greatest(s)}]]
    <3>1. Greatest(s) \in 1 .. n
      BY <2>2, GreatestIn
    <3>2. iter[s] = UP!Follow(iter[s \ {Greatest(s)}], answers[Greatest(s)])
      BY <1>7, <2>2
    <3> QED BY <1>4, <2>2, <3>1, <3>2
  <2> QED BY <2>1, <2>2 DEF Recurs
<1>9. h \in [0 .. n -> V] /\ Steps(h, S, turn, n)
  <2> HIDE DEF iter
  <2> QED BY <1>2, <1>3, <1>8, StepsTaken
<1>10. h[n] = UP!Pass(S, answers)
  <2> HIDE DEF iter
  <2> QED BY <1>1 DEF Beginnings
<1> HIDE DEF h
<1>11. ASSUME NEW k \in 1 .. n PROVE h[k] = UP!Follow(h[k - 1], answers[k])
  <2>1. k - 1 \in 0 .. n
    OBVIOUS
  <2> QED BY <1>4, <1>9, <2>1 DEF Steps
<1>12. h[0] = S
  BY <1>9 DEF Steps
<1>13. h \in [0 .. n -> SUBSET Names]
  BY <1>9 DEF V
<1> QED BY <1>10, <1>11, <1>12, <1>13

(* A pass keeps what it starts from, adds nothing that the aliases do not  *)
(* lead to, and adds something unless they lead nowhere else.              *)
LEMMA PassFacts ==
  ASSUME NEW n \in Nat, NEW answers \in [1 .. n -> UP!Answer], NEW S \in SUBSET Names
  PROVE  /\ UP!Pass(S, answers) \in SUBSET Names /\ S \subseteq UP!Pass(S, answers)
         /\ \A T : S \subseteq T /\ UP!ClosedUnder(answers, T) => UP!Pass(S, answers) \subseteq T
         /\ UP!Pass(S, answers) = S => UP!ClosedUnder(answers, S)
<1>1. PICK h \in [0 .. n -> SUBSET Names] :
           /\ h[0] = S /\ h[n] = UP!Pass(S, answers)
           /\ \A k \in 1 .. n : h[k] = UP!Follow(h[k - 1], answers[k])
  BY PassSteps
<1>2. n \in 0 .. n /\ 0 \in 0 .. n
  OBVIOUS
<1>3. \A k \in 1 .. n : k \in 0 .. n /\ k - 1 \in 0 .. n /\ k - 1 < k /\ ~(k <= k - 1)
  OBVIOUS
<1>4. \A k \in 1 .. n : h[k - 1] \subseteq h[k]
  BY <1>1 DEF UP!Follow
<1>5. \A k \in 0 .. n : S \subseteq h[k]
  <2> DEFINE Bad == {k \in 0 .. n : ~(S \subseteq h[k])}
  <2>1. SUFFICES ASSUME Bad # {} PROVE FALSE
    OBVIOUS
  <2>2. PICK k \in Bad : \A j \in Bad : k <= j
    <3>1. Bad \in SUBSET Nat
      OBVIOUS
    <3> HIDE DEF Bad
    <3> QED BY <2>1, <3>1, LeastNat
  <2>3. k \in 1 .. n
    BY <1>1, <2>2
  <2>4. S \subseteq h[k - 1]
    BY <1>3, <2>2, <2>3
  <2> QED BY <1>4, <2>2, <2>3, <2>4
<1>6. ASSUME NEW T, S \subseteq T, UP!ClosedUnder(answers, T)
      PROVE  UP!Pass(S, answers) \subseteq T
  <2> DEFINE Bad == {k \in 0 .. n : ~(h[k] \subseteq T)}
  <2>1. SUFFICES ASSUME Bad # {} PROVE FALSE
    BY <1>1, <1>2
  <2>2. PICK k \in Bad : \A j \in Bad : k <= j
    <3>1. Bad \in SUBSET Nat
      OBVIOUS
    <3> HIDE DEF Bad
    <3> QED BY <2>1, <3>1, LeastNat
  <2>3. k \in 1 .. n
    BY <1>1, <1>6, <2>2
  <2>4. h[k - 1] \subseteq T
    BY <1>3, <2>2, <2>3
  <2>5. answers[k].type = "cname" /\ answers[k].owner \in T => answers[k].value \in T
    <3>1. answers[k] \in UP!ToSet(answers)
      BY <2>3 DEF UP!ToSet
    <3> QED BY <1>6, <3>1 DEF UP!ClosedUnder
  <2>6. h[k] \subseteq T
    BY <1>1, <2>3, <2>4, <2>5 DEF UP!Follow
  <2> QED BY <2>2, <2>6
<1>7. ASSUME UP!Pass(S, answers) = S PROVE UP!ClosedUnder(answers, S)
  <2>1. \A k \in 0 .. n : h[k] \subseteq S
    <3> DEFINE Bad == {m \in 0 .. n : ~(h[n - m] \subseteq S)}
    <3>1. ASSUME Bad # {} PROVE FALSE
      <4>1. PICK m \in Bad : \A j \in Bad : m <= j
        <5>1. Bad \in SUBSET Nat
          OBVIOUS
        <5> HIDE DEF Bad
        <5> QED BY <3>1, <5>1, LeastNat
      <4>2. m # 0
        <5>1. n - 0 = n
          OBVIOUS
        <5> QED BY <1>1, <1>7, <4>1, <5>1
      <4>3. m - 1 \in 0 .. n /\ ~(m <= m - 1) /\ n - m + 1 \in 1 .. n
            /\ n - (m - 1) = n - m + 1 /\ (n - m + 1) - 1 = n - m
        BY <4>1, <4>2
      <4>4. h[n - (m - 1)] \subseteq S
        BY <4>1, <4>3
      <4>5. h[(n - m + 1) - 1] \subseteq h[n - m + 1]
        BY <1>4, <4>3
      <4>6. h[n - m] \subseteq S
        BY <4>3, <4>4, <4>5
      <4> QED BY <4>1, <4>6
    <3>2. ASSUME NEW k \in 0 .. n PROVE h[k] \subseteq S
      <4>1. n - k \in 0 .. n /\ n - (n - k) = k
        OBVIOUS
      <4>2. h[n - (n - k)] \subseteq S
        BY <3>1, <4>1
      <4> QED BY <4>1, <4>2
    <3> QED BY <3>2
  <2>2. ASSUME NEW a \in UP!ToSet(answers), a.type = "cname", a.owner \in S
        PROVE  a.value \in S
    <3>1. PICK k \in 1 .. n : a = answers[k]
      BY DEF UP!ToSet
    <3>2. h[k - 1] = S /\ h[k] = S
      BY <1>3, <1>5, <2>1, <3>1
    <3> QED BY <1>1, <2>2, <3>1, <3>2 DEF UP!Follow
  <2> QED BY <2>2 DEF UP!ClosedUnder
<1> QED BY <1>1, <1>2, <1>5, <1>6, <1>7

(* There are as many passes as records. *)
LEMMA OwnersSteps ==
  ASSUME NEW n \in Nat, NEW answers \in [1 .. n -> UP!Answer], UP!Asked \in Names
  PROVE  \E h \in [0 .. n -> SUBSET Names] :
           /\ h[0] = {UP!Asked} /\ h[n] = UP!Owners(answers)
           /\ \A k \in 1 .. n : h[k] = UP!Pass(h[k - 1], answers)
<1> DEFINE V == SUBSET Names
           S == {UP!Asked}
           turn == [i \in 1 .. n |-> [v \in V |-> UP!Pass(v, answers)]]
           Unfold(g) == [s \in SUBSET (1 .. n) |->
                           IF s = {} THEN S ELSE UP!Pass(g[s \ {Greatest(s)}], answers)]
           iter == CHOOSE g : g = Unfold(g)
           h == Beginnings(iter, n)
<1>1. UP!Owners(answers) = iter[1 .. n]
  <2>1. DOMAIN answers = 1 .. n
    OBVIOUS
  <2> QED BY <2>1 DEF UP!Owners, UP!FoldLeft, UP!MapThenFoldSet, UP!Max, Greatest
<1>2. S \in V /\ \A v \in V : UP!Pass(v, answers) \in V
  BY PassFacts
<1>3. turn \in [1 .. n -> [V -> V]]
  BY <1>2
<1>4. \A v \in V, i \in 1 .. n : turn[i][v] = UP!Pass(v, answers)
  OBVIOUS
<1> HIDE DEF V, S, turn
<1>5. PICK g \in [SUBSET (1 .. n) -> V] : FoldsOver(g, S, turn, n)
  BY <1>2, <1>3, FoldOver
<1>6. g = Unfold(g)
  <2>1. ASSUME NEW s \in SUBSET (1 .. n), s # {}
        PROVE  g[s] = UP!Pass(g[s \ {Greatest(s)}], answers)
    <3>1. Greatest(s) \in 1 .. n /\ g[s \ {Greatest(s)}] \in V
      BY <2>1, GreatestIn
    <3> QED BY <1>4, <1>5, <2>1, <3>1 DEF FoldsOver
  <2> QED BY <1>5, <2>1 DEF FoldsOver
<1>7. iter = Unfold(iter)
  <2> HIDE DEF Unfold
  <2> QED BY <1>6
<1>8. Recurs(iter, S, turn, V, n)
  <2> HIDE DEF iter
  <2>1. iter[{}] = S
    BY <1>7
  <2>2. ASSUME NEW s \in SUBSET (1 .. n), s # {}, iter[s \ {Greatest(s)}] \in V
        PROVE  iter[s] = turn[Greatest(s)][iter[s \ {Greatest(s)}]]
    <3>1. Greatest(s) \in 1 .. n
      BY <2>2, GreatestIn
    <3>2. iter[s] = UP!Pass(iter[s \ {Greatest(s)}], answers)
      BY <1>7, <2>2
    <3> QED BY <1>4, <2>2, <3>1, <3>2
  <2> QED BY <2>1, <2>2 DEF Recurs
<1>9. h \in [0 .. n -> V] /\ Steps(h, S, turn, n)
  <2> HIDE DEF iter
  <2> QED BY <1>2, <1>3, <1>8, StepsTaken
<1>10. h[n] = UP!Owners(answers)
  <2> HIDE DEF iter
  <2> QED BY <1>1 DEF Beginnings
<1> HIDE DEF h
<1>11. ASSUME NEW k \in 1 .. n PROVE h[k] = UP!Pass(h[k - 1], answers)
  <2>1. k - 1 \in 0 .. n
    OBVIOUS
  <2> QED BY <1>4, <1>9, <2>1 DEF Steps
<1> QED BY <1>9, <1>10, <1>11 DEF Steps, V, S

LEMMA AskedIsAName == UP!Asked \in Names
<1>1. \E m \in Names : \A k \in Names : m <= k
  BY UptimeAssumption, LeastNat
<1> QED BY <1>1 DEF UP!Asked

(* As many passes as an answer has records find every name its aliases     *)
(* lead to, and no other, in whatever order the records come: each pass    *)
(* before the last adds a name, and a record adds but one                  *)
(* (parseDNSResponse).                                                     *)
THEOREM OwnersAreTheChain ==
  ASSUME NEW n \in Nat, NEW answers \in [1 .. n -> UP!Answer]
  PROVE  UP!Owners(answers) = UP!Chain(answers)
<1>1. PICK h \in [0 .. n -> SUBSET Names] :
           /\ h[0] = {UP!Asked} /\ h[n] = UP!Owners(answers)
           /\ \A k \in 1 .. n : h[k] = UP!Pass(h[k - 1], answers)
  BY OwnersSteps, AskedIsAName
<1>2. n \in 0 .. n /\ 0 \in 0 .. n
        /\ \A k \in 1 .. n : k \in 0 .. n /\ k - 1 \in 0 .. n /\ ~(k <= k - 1)
  OBVIOUS
<1>3. \A k \in 1 .. n : h[k - 1] \subseteq h[k]
  BY <1>1, <1>2, PassFacts
<1>4. \A k \in 0 .. n : UP!Asked \in h[k]
  <2> DEFINE Bad == {k \in 0 .. n : UP!Asked \notin h[k]}
  <2>1. SUFFICES ASSUME Bad # {} PROVE FALSE
    OBVIOUS
  <2>2. PICK k \in Bad : \A j \in Bad : k <= j
    <3>1. Bad \in SUBSET Nat
      OBVIOUS
    <3> HIDE DEF Bad
    <3> QED BY <2>1, <3>1, LeastNat
  <2>3. k \in 1 .. n
    BY <1>1, <2>2
  <2> QED BY <1>2, <1>3, <2>2, <2>3
<1>5. ASSUME NEW T, UP!Asked \in T, UP!ClosedUnder(answers, T)
      PROVE  \A k \in 0 .. n : h[k] \subseteq T
  <2> DEFINE Bad == {k \in 0 .. n : ~(h[k] \subseteq T)}
  <2>1. SUFFICES ASSUME Bad # {} PROVE FALSE
    OBVIOUS
  <2>2. PICK k \in Bad : \A j \in Bad : k <= j
    <3>1. Bad \in SUBSET Nat
      OBVIOUS
    <3> HIDE DEF Bad
    <3> QED BY <2>1, <3>1, LeastNat
  <2>3. k \in 1 .. n
    BY <1>1, <1>5, <2>2
  <2>4. h[k - 1] \subseteq T /\ h[k - 1] \in SUBSET Names
    BY <1>2, <2>2, <2>3
  <2>5. UP!Pass(h[k - 1], answers) \subseteq T
    BY <1>5, <2>4, PassFacts
  <2> QED BY <1>1, <2>2, <2>3, <2>5
<1> DEFINE T == {answers[i].value : i \in 1 .. n}
           U == T \cup {UP!Asked}
<1>6. IsFiniteSet(T) /\ Cardinality(T) <= n
  <2> DEFINE f == [i \in 1 .. n |-> answers[i].value]
  <2>1. f \in Surjection(1 .. n, T)
    BY DEF Surjection
  <2>2. IsFiniteSet(1 .. n) /\ Cardinality(1 .. n) = n
    BY FS_Interval
  <2> HIDE DEF f, T
  <2> QED BY <2>1, <2>2, FS_Surjection
<1>7. IsFiniteSet(U) /\ Cardinality(U) <= n + 1
  <2> HIDE DEF T
  <2>1. Cardinality(T) \in Nat
    BY <1>6, FS_CardinalityType
  <2>2. IsFiniteSet(U) /\ (Cardinality(U) = Cardinality(T) \/ Cardinality(U) = Cardinality(T) + 1)
    BY <1>6, FS_AddElement
  <2> HIDE DEF U
  <2> QED BY <1>6, <2>1, <2>2
<1>8. UP!ClosedUnder(answers, U)
  BY DEF UP!ClosedUnder, UP!ToSet
<1>9. \A k \in 0 .. n : h[k] \subseteq U
  <2> HIDE DEF T
  <2> QED BY <1>5, <1>8
<1>10. UP!ClosedUnder(answers, h[n])
  <2>1. SUFFICES ASSUME UP!Pass(h[n], answers) # h[n] PROVE FALSE
    BY <1>1, <1>2, PassFacts
  <2>2. \A k \in 0 .. n : UP!Pass(h[k], answers) # h[k]
    <3> DEFINE Bad == {m \in 0 .. n : UP!Pass(h[n - m], answers) = h[n - m]}
    <3>1. ASSUME Bad # {} PROVE FALSE
      <4>1. PICK m \in Bad : \A j \in Bad : m <= j
        <5>1. Bad \in SUBSET Nat
          OBVIOUS
        <5> HIDE DEF Bad
        <5> QED BY <3>1, <5>1, LeastNat
      <4>2. m # 0
        <5>1. n - 0 = n
          OBVIOUS
        <5> QED BY <2>1, <4>1, <5>1
      <4>3. m - 1 \in 0 .. n /\ ~(m <= m - 1) /\ n - m + 1 \in 1 .. n
            /\ n - (m - 1) = n - m + 1 /\ (n - m + 1) - 1 = n - m
        BY <4>1, <4>2
      <4>4. h[n - m + 1] = UP!Pass(h[n - m], answers)
        BY <1>1, <4>3
      <4>5. h[n - m + 1] = h[n - m]
        BY <4>1, <4>4
      <4>6. UP!Pass(h[n - (m - 1)], answers) = h[n - (m - 1)]
        BY <4>1, <4>3, <4>5
      <4> QED BY <4>1, <4>3, <4>6
    <3>2. ASSUME NEW k \in 0 .. n PROVE UP!Pass(h[k], answers) # h[k]
      <4>1. n - k \in 0 .. n /\ n - (n - k) = k
        OBVIOUS
      <4> QED BY <3>1, <4>1
    <3> QED BY <3>2
  <2>3. \A k \in 0 .. n : IsFiniteSet(h[k])
    <3> HIDE DEF U
    <3> QED BY <1>7, <1>9, FS_Subset
  <2>4. ASSUME NEW k \in 0 .. n
        PROVE  /\ UP!Pass(h[k], answers) \subseteq U
               /\ Cardinality(h[k]) + 1 <= Cardinality(UP!Pass(h[k], answers))
               /\ Cardinality(UP!Pass(h[k], answers)) \in Nat /\ Cardinality(h[k]) \in Nat
    <3> DEFINE P == UP!Pass(h[k], answers)
    <3>1. h[k] \in SUBSET Names
      BY <1>1
    <3>2. h[k] \subseteq P /\ P # h[k] /\ P \subseteq U
      <4> HIDE DEF U
      <4> QED BY <1>8, <1>9, <2>2, <3>1, PassFacts
    <3> HIDE DEF P, U
    <3>3. IsFiniteSet(P)
      BY <1>7, <3>2, FS_Subset
    <3>4. Cardinality(h[k]) <= Cardinality(P) /\ Cardinality(h[k]) # Cardinality(P)
      BY <3>2, <3>3, FS_Subset
    <3>5. Cardinality(h[k]) \in Nat /\ Cardinality(P) \in Nat
      BY <2>3, <3>3, FS_CardinalityType
    <3>6. Cardinality(h[k]) + 1 <= Cardinality(P)
      BY <3>4, <3>5
    <3> QED BY <3>2, <3>5, <3>6 DEF P
  <2>5. \A k \in 0 .. n : k + 1 <= Cardinality(h[k])
    <3> DEFINE Bad == {k \in 0 .. n : ~(k + 1 <= Cardinality(h[k]))}
    <3>1. SUFFICES ASSUME Bad # {} PROVE FALSE
      OBVIOUS
    <3>2. PICK k \in Bad : \A j \in Bad : k <= j
      <4>1. Bad \in SUBSET Nat
        OBVIOUS
      <4> HIDE DEF Bad
      <4> QED BY <3>1, <4>1, LeastNat
    <3>3. k # 0
      <4>1. Cardinality(h[0]) = 1
        BY <1>1, FS_Singleton
      <4> QED BY <3>2, <4>1
    <3>4. k \in 1 .. n /\ k - 1 \in 0 .. n /\ (k - 1) + 1 = k
      BY <3>2, <3>3
    <3>5. k <= Cardinality(h[k - 1])
      <4>1. k - 1 \notin Bad
        BY <1>2, <3>2, <3>4
      <4> QED BY <3>4, <4>1
    <3>6. Cardinality(h[k - 1]) + 1 <= Cardinality(h[k]) /\ Cardinality(h[k - 1]) \in Nat
          /\ Cardinality(h[k]) \in Nat
      BY <1>1, <2>4, <3>4
    <3>7. k + 1 <= Cardinality(h[k])
      BY <3>4, <3>5, <3>6
    <3> QED BY <3>2, <3>7
  <2> DEFINE P == UP!Pass(h[n], answers)
  <2>6. n + 2 <= Cardinality(P) /\ Cardinality(P) \in Nat /\ P \subseteq U
    <3>1. n + 1 <= Cardinality(h[n])
      BY <1>2, <2>5
    <3>2. /\ Cardinality(h[n]) + 1 <= Cardinality(P) /\ Cardinality(P) \in Nat
          /\ Cardinality(h[n]) \in Nat /\ P \subseteq U
      BY <1>2, <2>4
    <3> HIDE DEF P, U
    <3> QED BY <3>1, <3>2
  <2> HIDE DEF P, U
  <2>7. Cardinality(P) <= Cardinality(U)
    BY <1>7, <2>6, FS_Subset
  <2>8. Cardinality(U) \in Nat
    BY <1>7, FS_CardinalityType
  <2> QED BY <1>7, <2>6, <2>7, <2>8
<1>11. h[n] \in SUBSET Names /\ UP!Asked \in h[n]
  BY <1>1, <1>2, <1>4
<1>12. \A x \in h[n] : \A S \in SUBSET Names :
          UP!Asked \in S /\ UP!ClosedUnder(answers, S) => x \in S
  BY <1>2, <1>5
<1>13. h[n] = UP!Chain(answers)
  BY <1>10, <1>11, <1>12 DEF UP!Chain
<1> QED BY <1>1, <1>13
-----------------------------------------------------------------------------
(* The uptime collector: what a check may claim *)

(* The ports of a scan are an interval. *)
LEMMA PortsInterval ==
  /\ IsFiniteSet(Ports) /\ UP!Lowest \in Nat \ {0}
  /\ UP!Cardinality(Ports) = Cardinality(Ports) /\ Cardinality(Ports) \in Nat
  /\ \A i \in 0 .. Cardinality(Ports) - 1 : UP!Lowest + i \in Ports
<1> USE UptimeAssumption
<1>1. PICK p \in Ports, q \in Ports : Ports = p .. q
  OBVIOUS
<1>2. p \in Nat \ {0} /\ q \in Nat /\ p <= q
  <2>1. p \in Nat \ {0} /\ q \in Nat
    OBVIOUS
  <2>2. p \in p .. q
    BY <1>1
  <2> QED BY <2>1, <2>2
<1>3. IsFiniteSet(Ports) /\ Cardinality(Ports) = q - p + 1
  BY <1>1, <1>2, FS_Interval
<1>4. UP!Lowest = p
  <2>1. \A r \in Ports : p <= r
    BY <1>1, <1>2
  <2>2. \A r \in Ports : (\A s \in Ports : r <= s) => r = p
    BY <1>1, <1>2
  <2> QED BY <1>1, <2>1, <2>2 DEF UP!Lowest
<1>5. UP!Cardinality(Ports) = Cardinality(Ports)
  BY DEF UP!Cardinality, Cardinality
<1>6. \A i \in 0 .. (q - p + 1) - 1 : p + i \in p .. q
  BY <1>2
<1> QED BY <1>1, <1>2, <1>3, <1>4, <1>5, <1>6

LEMMA UptimeInit == ASSUME UP!Init PROVE UP!Inductive
<1> USE DEF UP!Init
<1>1. UP!TypeOK
  <2>1. targets \subseteq UP!Kinds /\ over \subseteq targets
    BY UptimeAssumption DEF UP!Kinds
  <2>2. dispatched \in 0 .. UP!Cardinality(Ports)
    BY PortsInterval
  <2>3. \A t \in targets : /\ stage[t] \in {"waiting", "running", "checked", "done"}
                            /\ result[t].measured \in BOOLEAN /\ result[t].success \in BOOLEAN
    BY DEF UP!Unmeasured
  <2> QED BY <2>1, <2>2, <2>3 DEF UP!TypeOK, UP!Free
<1>2. UP!Domains /\ UP!Fresh
  BY DEF UP!Domains, UP!Fresh
<1>3. \A t \in targets : stage[t] = "waiting"
  OBVIOUS
<1>4. UP!Answered /\ UP!Scanned /\ UP!Valued
  BY <1>3 DEF UP!Answered, UP!Scanned, UP!Valued, UP!Reached
<1>5. UP!LookedUp
  <2>1. left \in Seq(UP!ToSet(Lists)) /\ \A i, j \in DOMAIN left : left[i] = left[j] => i = j
    BY UptimeAssumption DEF UP!ToSet
  <2> QED BY <1>3, <2>1 DEF UP!LookedUp, UP!Reached
<1> QED BY <1>1, <1>2, <1>4, <1>5 DEF UP!Inductive

(* A check ends with what may be claimed. *)
LEMMA UptimeChecked ==
  ASSUME UP!Inductive, NEW t \in targets, NEW r, NEW v,
         stage[t] = "running", stage' = [stage EXCEPT ![t] = "checked"],
         result' = [result EXCEPT ![t] = r],
         truth' \in {truth, [truth EXCEPT ![t] = v]}, truth'[t] = v,
         UNCHANGED <<targets, over, dispatched, closed, scanner, port, left, reference, listed>>,
         r.measured \in BOOLEAN, r.success \in BOOLEAN,
         t \in {"dns", "tcp", "http", "tls"} /\ r.measured =>
           v # {"none"} /\ (r.success <=> v = {"wanted"}),
         t = "ports" /\ r.measured =>
           /\ UP!With("none") = {} /\ UP!With("error") = {}
           /\ UP!With("open") \cup UP!With("refused") # {}
           /\ r.success => UP!With("open") = Expected,
         t = "dnsbl" /\ r.measured =>
           \A l \in UP!ToSet(Lists) : listed[l] \in {"absent", "listed"},
         t = "icmp" /\ r.measured => r.value = v,
         t = "records" => r.value = v
  PROVE  UP!Inductive'
<1> USE DEF UP!Inductive
<1>1. /\ stage'[t] = "checked" /\ result'[t] = r /\ truth'[t] = v
      /\ \A u \in targets \ {t} :
           stage'[u] = stage[u] /\ result'[u] = result[u] /\ truth'[u] = truth[u]
      /\ DOMAIN stage' = targets /\ DOMAIN result' = targets /\ DOMAIN truth' = targets
  BY DEF UP!Domains
<1>2. UP!TypeOK'
  BY <1>1 DEF UP!TypeOK
<1>3. UP!Domains'
  BY <1>1 DEF UP!Domains
<1>4. UP!Fresh'
  BY <1>1 DEF UP!Fresh
<1>5. UP!Answered'
  <2>1. ASSUME NEW u \in targets \cap {"dns", "tcp", "http", "tls"}, UP!Reached(u)'
        PROVE  truth'[u] # {"none"} /\ (result'[u].success <=> truth'[u] = {"wanted"})
    <3>1. CASE u = t
      BY <1>1, <2>1, <3>1 DEF UP!Reached
    <3>2. CASE u # t
      BY <1>1, <2>1, <3>2 DEF UP!Reached, UP!Answered
    <3> QED BY <3>1, <3>2
  <2> QED BY <2>1 DEF UP!Answered
<1>6. UP!Scanned'
  <2>1. \A a : UP!With(a)' = UP!With(a)
    BY DEF UP!With
  <2>2. CASE t = "ports"
    BY <1>1, <2>1, <2>2 DEF UP!Scanned, UP!Reached
  <2>3. CASE t # "ports"
    BY <1>1, <2>1, <2>3 DEF UP!Scanned, UP!Reached
  <2> QED BY <2>2, <2>3
<1>7. UP!LookedUp'
  <2>1. CASE t = "dnsbl"
    BY <1>1, <2>1 DEF UP!LookedUp, UP!Reached
  <2>2. CASE t # "dnsbl"
    BY <1>1, <2>2 DEF UP!LookedUp, UP!Reached
  <2> QED BY <2>1, <2>2
<1>8. UP!Valued'
  <2>1. CASE t = "icmp"
    BY <1>1, <2>1 DEF UP!Valued, UP!Reached
  <2>2. CASE t = "records"
    BY <1>1, <2>2 DEF UP!Valued, UP!Reached
  <2>3. CASE t \notin {"icmp", "records"}
    BY <1>1, <2>3 DEF UP!Valued, UP!Reached
  <2> QED BY <2>1, <2>2, <2>3
<1> QED BY <1>2, <1>3, <1>4, <1>5, <1>6, <1>7, <1>8

(* The end of the context, of a budget or of the collection. *)
LEMMA UptimeQuiet ==
  ASSUME UP!Inductive, UP!Cancel \/ UP!Return \/ \E t \in targets : UP!Timeout(t)
  PROVE  UP!Inductive'
<1>1. /\ UNCHANGED <<targets, stage, result, truth, dispatched, closed, scanner, port, left,
                     reference, listed>>
      /\ over' \subseteq targets
  BY DEF UP!Inductive, UP!TypeOK, UP!Cancel, UP!Return, UP!Timeout, UP!checks, UP!scan, UP!lookups
<1> QED BY <1>1 DEF UP!Inductive, UP!TypeOK, UP!Domains, UP!Fresh, UP!Answered, UP!Scanned,
             UP!LookedUp, UP!Valued, UP!Reached, UP!With

(* A target enters the semaphore, gives up or is done. *)
LEMMA UptimePlaces ==
  ASSUME UP!Inductive, NEW t \in targets, UP!Acquire(t) \/ UP!GiveUp(t) \/ UP!Finish(t)
  PROVE  UP!Inductive'
<1> USE DEF UP!Inductive
<1>1. UNCHANGED <<targets, over, truth, dispatched, closed, scanner, port, left, reference, listed>>
  BY DEF UP!Acquire, UP!GiveUp, UP!Finish, UP!scan, UP!lookups
<1>2. /\ \A u \in targets \ {t} : stage'[u] = stage[u] /\ result'[u] = result[u]
      /\ DOMAIN stage' = targets /\ DOMAIN result' = targets
      /\ \/ stage[t] = "waiting" /\ stage'[t] \in {"running", "done"} /\ result'[t] = result[t]
         \/ /\ stage[t] = "checked" /\ stage'[t] = "done"
            /\ result'[t] = result[t] \/ result'[t] = UP!Unmeasured
  BY DEF UP!Acquire, UP!GiveUp, UP!Finish, UP!Cut, UP!Domains
<1>3. stage[t] = "waiting" => result'[t] = UP!Unmeasured
  BY <1>2 DEF UP!Fresh
<1>4. UP!Unmeasured.measured = FALSE /\ UP!Unmeasured.success = FALSE
  BY DEF UP!Unmeasured
<1>5. \A u \in targets :
        /\ UP!Reached(u)' => UP!Reached(u) /\ result'[u] = result[u]
        /\ stage'[u] \in {"waiting", "running"} =>
             stage[u] \in {"waiting", "running"} /\ result'[u] = result[u]
        /\ stage'[u] = "checked" => stage[u] = "checked" /\ result'[u] = result[u]
  <2>1. ASSUME NEW u \in targets, u # t
        PROVE  stage'[u] = stage[u] /\ result'[u] = result[u]
    BY <1>2, <2>1
  <2>2. /\ UP!Reached(t)' => UP!Reached(t) /\ result'[t] = result[t]
        /\ stage'[t] \in {"waiting", "running"} =>
             stage[t] \in {"waiting", "running"} /\ result'[t] = result[t]
        /\ stage'[t] # "checked"
    BY <1>2, <1>3, <1>4 DEF UP!Reached
  <2> QED BY <2>1, <2>2 DEF UP!Reached
<1>6. UP!TypeOK'
  <2>1. ASSUME NEW u \in targets
        PROVE  /\ stage'[u] \in {"waiting", "running", "checked", "done"}
               /\ result'[u].measured \in BOOLEAN /\ result'[u].success \in BOOLEAN
    <3>1. CASE u = t
      BY <1>2, <1>4, <3>1 DEF UP!TypeOK
    <3>2. CASE u # t
      BY <1>2, <3>2 DEF UP!TypeOK
    <3> QED BY <3>1, <3>2
  <2> QED BY <1>1, <2>1 DEF UP!TypeOK
<1>7. UP!Domains' /\ UP!Fresh'
  BY <1>1, <1>2, <1>5 DEF UP!Domains, UP!Fresh
<1>8. UP!Answered' /\ UP!Valued'
  BY <1>1, <1>5 DEF UP!Answered, UP!Valued
<1>9. UP!Scanned' /\ UP!LookedUp'
  <2>1. \A a : UP!With(a)' = UP!With(a)
    BY <1>1 DEF UP!With
  <2> QED BY <1>1, <1>5, <2>1 DEF UP!Scanned, UP!LookedUp
<1> QED BY <1>6, <1>7, <1>8, <1>9

(* One exchange. *)
LEMMA UptimeExchange ==
  ASSUME UP!Inductive, UP!CheckDNS \/ UP!CheckTCP \/ UP!CheckHTTP \/ UP!CheckTLS
  PROVE  UP!Inductive'
<1>1. PICK t \in {"dns", "tcp", "http", "tls"} : \E answers : UP!Exchange(t, answers)
  BY DEF UP!CheckDNS, UP!CheckTCP, UP!CheckHTTP, UP!CheckTLS
<1>2. PICK answer :
        /\ truth' = [truth EXCEPT ![t] = {answer}]
        /\ UP!Checked(t, answer # "none", answer = "wanted")
  BY <1>1 DEF UP!Exchange
<1> DEFINE m == answer # "none"
           s == answer = "wanted"
           r == [measured |-> m, success |-> s, value |-> {}]
<1>3. m \in BOOLEAN /\ s \in BOOLEAN
  OBVIOUS
<1>4. r.measured = m /\ r.success = s
  <2> HIDE DEF m, s
  <2> QED OBVIOUS
<1>5. stage' = [stage EXCEPT ![t] = "checked"] /\ result' = [result EXCEPT ![t] = r]
  BY <1>2 DEF UP!Checked
<1>6. m => {answer} # {"none"} /\ (s <=> {answer} = {"wanted"})
  OBVIOUS
<1>7. /\ t \in targets /\ stage[t] = "running" /\ t \notin {"ports", "dnsbl", "icmp", "records"}
      /\ UNCHANGED <<targets, over, dispatched, closed, scanner, port, left, reference, listed>>
  BY <1>1 DEF UP!Exchange, UP!IsRunning, UP!scan, UP!lookups
<1> DEFINE v == {answer}
<1>8. v = {answer}
  OBVIOUS
<1>9. truth' \in {truth, [truth EXCEPT ![t] = v]} /\ truth'[t] = v
  BY <1>2, <1>7, <1>8 DEF UP!Inductive, UP!Domains
<1> HIDE DEF m, s, r, v
<1>10. r.measured => v # {"none"} /\ (r.success <=> v = {"wanted"})
  BY <1>4, <1>6, <1>8
<1>11. r.measured \in BOOLEAN /\ r.success \in BOOLEAN
  BY <1>3, <1>4
<1> QED BY <1>5, <1>7, <1>10, <1>11, <1>9, UptimeChecked

(* The scan, which has no result yet. *)
LEMMA UptimeScan ==
  ASSUME UP!Inductive,
         UP!Close \/ \E w \in Scanners : UP!Dispatch(w) \/ UP!Dial(w) \/ UP!Leave(w)
  PROVE  UP!Inductive'
<1> USE DEF UP!Inductive
<1>1. /\ UNCHANGED <<targets, over, stage, result, truth, left, reference, listed>>
      /\ "ports" \in targets /\ stage["ports"] = "running"
  BY DEF UP!Close, UP!Dispatch, UP!Dial, UP!Leave, UP!Scanning, UP!IsRunning, UP!checks, UP!lookups
<1>2. /\ dispatched \in 0 .. Cardinality(Ports)
      /\ scanner \in [Scanners -> {UP!Free, UP!Left} \cup Ports]
      /\ port \in [Ports -> {"none", "open", "refused", "filtered", "error"}]
  BY PortsInterval DEF UP!TypeOK
<1>3. /\ dispatched' \in 0 .. Cardinality(Ports)
      /\ scanner' \in [Scanners -> {UP!Free, UP!Left} \cup Ports]
      /\ port' \in [Ports -> {"none", "open", "refused", "filtered", "error"}]
  <2>1. CASE UP!Close
    BY <1>2, <2>1 DEF UP!Close
  <2>2. ASSUME NEW w \in Scanners, UP!Dispatch(w)
        PROVE  /\ dispatched' \in 0 .. Cardinality(Ports) /\ port' = port
               /\ scanner' \in [Scanners -> {UP!Free, UP!Left} \cup Ports]
    <3>1. dispatched < Cardinality(Ports) /\ dispatched' = dispatched + 1 /\ port' = port
          /\ scanner' = [scanner EXCEPT ![w] = UP!Lowest + dispatched]
      BY <2>2, PortsInterval DEF UP!Dispatch
    <3>2. dispatched \in 0 .. Cardinality(Ports) - 1 /\ dispatched + 1 \in 0 .. Cardinality(Ports)
      BY <1>2, <3>1, PortsInterval
    <3>3. UP!Lowest + dispatched \in Ports
      BY <3>2, PortsInterval
    <3> DEFINE n == UP!Lowest + dispatched
    <3>4. n \in Ports /\ scanner' = [scanner EXCEPT ![w] = n]
      BY <3>1, <3>3
    <3> HIDE DEF n
    <3> QED BY <1>2, <3>1, <3>2, <3>4
  <2>3. ASSUME NEW w \in Scanners, UP!Dial(w)
        PROVE  /\ dispatched' = dispatched
               /\ scanner' \in [Scanners -> {UP!Free, UP!Left} \cup Ports]
               /\ port' \in [Ports -> {"none", "open", "refused", "filtered", "error"}]
    BY <1>2, <2>3 DEF UP!Dial
  <2>4. ASSUME NEW w \in Scanners, UP!Leave(w)
        PROVE  /\ dispatched' = dispatched /\ port' = port
               /\ scanner' \in [Scanners -> {UP!Free, UP!Left} \cup Ports]
    BY <1>2, <2>4 DEF UP!Leave
  <2> QED BY <1>2, <2>1, <2>2, <2>3, <2>4
<1>4. UP!TypeOK'
  BY <1>1, <1>3, PortsInterval DEF UP!TypeOK
<1>5. UP!Domains' /\ UP!Fresh' /\ UP!Answered' /\ UP!LookedUp' /\ UP!Valued'
  BY <1>1 DEF UP!Domains, UP!Fresh, UP!Answered, UP!LookedUp, UP!Valued, UP!Reached
<1>6. UP!Scanned'
  BY <1>1 DEF UP!Scanned, UP!Reached
<1> QED BY <1>4, <1>5, <1>6

LEMMA UptimePorts == ASSUME UP!Inductive, UP!CheckPorts PROVE UP!Inductive'
<1> DEFINE m == UP!Measured
           s == UP!Measured /\ UP!AsExpected
           r == [measured |-> m, success |-> s, value |-> {}]
           v == truth["ports"]
<1>1. m \in BOOLEAN /\ s \in BOOLEAN
  BY DEF UP!Measured
<1>2. r.measured = m /\ r.success = s
  <2> HIDE DEF m, s
  <2> QED OBVIOUS
<1>3. /\ stage' = [stage EXCEPT !["ports"] = "checked"]
      /\ result' = [result EXCEPT !["ports"] = r]
  BY DEF UP!CheckPorts, UP!Checked
<1>4. /\ "ports" \in targets /\ stage["ports"] = "running"
      /\ UNCHANGED <<targets, over, truth, dispatched, closed, scanner, port, left, reference, listed>>
  BY DEF UP!CheckPorts, UP!Scanning, UP!IsRunning, UP!scan, UP!lookups
<1>5. truth' = truth /\ truth'["ports"] = v
  BY <1>4
<1>6. m => /\ UP!With("none") = {} /\ UP!With("error") = {}
           /\ UP!With("open") \cup UP!With("refused") # {}
  BY DEF UP!Measured
<1>7. s => UP!With("open") = Expected
  BY UptimeAssumption DEF UP!AsExpected, UP!With
<1> HIDE DEF m, s, r, v
<1>8. r.measured => /\ UP!With("none") = {} /\ UP!With("error") = {}
                    /\ UP!With("open") \cup UP!With("refused") # {}
                    /\ r.success => UP!With("open") = Expected
  BY <1>2, <1>6, <1>7
<1>9. r.measured \in BOOLEAN /\ r.success \in BOOLEAN
  BY <1>1, <1>2
<1> QED BY <1>3, <1>4, <1>5, <1>8, <1>9, UptimeChecked

(* The queries of the lists: each leaves the rest of the lists. *)
LEMMA UptimeLookups ==
  ASSUME UP!Inductive, UP!QueryReference \/ UP!QueryList PROVE UP!Inductive'
<1> USE DEF UP!Inductive
<1>1. /\ UNCHANGED <<targets, over, stage, result, truth, dispatched, closed, scanner, port>>
      /\ "dnsbl" \in targets /\ stage["dnsbl"] = "running" /\ left # <<>>
  BY DEF UP!QueryReference, UP!QueryList, UP!LookingUp, UP!IsRunning, UP!checks, UP!scan
<1>2. UP!TypeOK' /\ UP!Fresh' /\ UP!Answered' /\ UP!Scanned' /\ UP!Valued'
  BY <1>1 DEF UP!TypeOK, UP!Fresh, UP!Answered, UP!Scanned, UP!Valued, UP!Reached, UP!With
<1> DEFINE all == UP!ToSet(Lists)
           l == Head(left)
<1>3. /\ left \in Seq(all) /\ \A i, j \in DOMAIN left : left[i] = left[j] => i = j
      /\ \A k \in all :
           /\ listed[k] \in {"none", "absent", "listed", "error"}
           /\ listed[k] = "none" => k \in UP!ToSet(left)
           /\ k \in UP!ToSet(left) => reference[k] \in {"unasked", "right"}
           /\ listed[k] \in {"absent", "listed"} => reference[k] = "right"
  BY DEF UP!LookedUp
<1>4. DOMAIN reference = all /\ DOMAIN listed = all
  BY DEF UP!Domains
<1> HIDE DEF all
<1>5. /\ l \in all /\ l \in UP!ToSet(left) /\ Tail(left) \in Seq(all)
      /\ \A i, j \in DOMAIN Tail(left) : Tail(left)[i] = Tail(left)[j] => i = j
      /\ \A k : k \in UP!ToSet(Tail(left)) <=> k \in UP!ToSet(left) /\ k # l
  <2> DEFINE n == Len(left)
  <2>1. n \in Nat /\ n # 0 /\ DOMAIN left = 1 .. n /\ \A i \in 1 .. n : left[i] \in all
    BY <1>1, <1>3
  <2>2. Tail(left) \in Seq(all) /\ DOMAIN Tail(left) = 1 .. n - 1 /\ l = left[1]
        /\ \A i \in 1 .. n - 1 : Tail(left)[i] = left[i + 1]
    BY <1>1, <1>3
  <2> HIDE DEF n, l
  <2>3. \A i \in 1 .. n - 1 : i + 1 \in 1 .. n /\ i + 1 # 1
    BY <2>1
  <2>4. \A i \in 1 .. n : i = 1 \/ (i - 1 \in 1 .. n - 1 /\ (i - 1) + 1 = i)
    BY <2>1
  <2>5. 1 \in 1 .. n
    BY <2>1
  <2>6. \A i, j \in 1 .. n - 1 : Tail(left)[i] = Tail(left)[j] => i = j
    <3>1. ASSUME NEW i \in 1 .. n - 1, NEW j \in 1 .. n - 1, Tail(left)[i] = Tail(left)[j]
          PROVE  i = j
      <4>1. i + 1 = j + 1
        BY <1>3, <2>1, <2>2, <2>3, <3>1
      <4> QED BY <2>1, <4>1
    <3> QED BY <3>1
  <2>7. \A k : k \in UP!ToSet(Tail(left)) => k \in UP!ToSet(left) /\ k # l
    BY <1>3, <2>1, <2>2, <2>3, <2>5 DEF UP!ToSet
  <2>8. ASSUME NEW k, k \in UP!ToSet(left), k # l
        PROVE  k \in UP!ToSet(Tail(left))
    <3>1. PICK i \in 1 .. n : k = left[i]
      BY <2>1, <2>8 DEF UP!ToSet
    <3>2. i - 1 \in 1 .. n - 1 /\ (i - 1) + 1 = i
      BY <2>2, <2>4, <2>8, <3>1
    <3>3. Tail(left)[i - 1] = k
      BY <2>2, <3>1, <3>2
    <3> QED BY <2>2, <3>2, <3>3 DEF UP!ToSet
  <2>9. l \in all /\ l \in UP!ToSet(left)
    BY <2>1, <2>2, <2>5 DEF UP!ToSet
  <2> QED BY <2>2, <2>6, <2>7, <2>8, <2>9
<1> HIDE DEF l
<1>6. /\ left' \in {left, Tail(left)} /\ DOMAIN reference' = all /\ DOMAIN listed' = all
      /\ \A k \in all \ {l} : reference'[k] = reference[k] /\ listed'[k] = listed[k]
      /\ \/ left' = left /\ listed' = listed /\ reference'[l] = "right" /\ reference[l] = "unasked"
         \/ left' = Tail(left) /\ listed'[l] = "error"
         \/ /\ left' = Tail(left) /\ listed'[l] \in {"absent", "listed"}
            /\ reference' = reference /\ reference[l] # "unasked"
  BY <1>4, <1>5 DEF UP!QueryReference, UP!QueryList, UP!Trusted, l
<1>7. UP!Domains'
  BY <1>1, <1>6 DEF UP!Domains, all
<1>8. UP!LookedUp'
  <2>1. left' \in Seq(all) /\ \A i, j \in DOMAIN left' : left'[i] = left'[j] => i = j
    BY <1>3, <1>5, <1>6
  <2>2. \A k \in all \ {l} : k \in UP!ToSet(left)' <=> k \in UP!ToSet(left)
    BY <1>5, <1>6
  <2>3. left' = Tail(left) => l \notin UP!ToSet(left')
    BY <1>5
  <2>4. ASSUME NEW k \in all, k # l
        PROVE  /\ listed'[k] \in {"none", "absent", "listed", "error"}
               /\ listed'[k] = "none" => k \in UP!ToSet(left')
               /\ k \in UP!ToSet(left') => reference'[k] \in {"unasked", "right"}
               /\ listed'[k] \in {"absent", "listed"} => reference'[k] = "right"
    BY <1>3, <1>6, <2>2, <2>4
  <2>5. /\ listed'[l] \in {"none", "absent", "listed", "error"}
        /\ listed'[l] = "none" => l \in UP!ToSet(left')
        /\ l \in UP!ToSet(left') => reference'[l] \in {"unasked", "right"}
        /\ listed'[l] \in {"absent", "listed"} => reference'[l] = "right"
    BY <1>3, <1>5, <1>6, <2>3
  <2>6. \A k \in all :
           /\ listed'[k] \in {"none", "absent", "listed", "error"}
           /\ listed'[k] = "none" => k \in UP!ToSet(left')
           /\ k \in UP!ToSet(left') => reference'[k] \in {"unasked", "right"}
           /\ listed'[k] \in {"absent", "listed"} => reference'[k] = "right"
    BY <2>4, <2>5
  <2> QED BY <1>1, <2>1, <2>6 DEF UP!LookedUp, UP!Reached, all
<1> QED BY <1>2, <1>7, <1>8

LEMMA UptimeLists == ASSUME UP!Inductive, UP!CheckDNSBL PROVE UP!Inductive'
<1> DEFINE m == \A l \in UP!ToSet(Lists) : listed[l] # "error"
           s == \A l \in UP!ToSet(Lists) : listed[l] = "absent"
           r == [measured |-> m, success |-> s, value |-> {}]
           v == truth["dnsbl"]
<1>1. m \in BOOLEAN /\ s \in BOOLEAN
  OBVIOUS
<1>2. r.measured = m /\ r.success = s
  <2> HIDE DEF m, s
  <2> QED OBVIOUS
<1>3. /\ stage' = [stage EXCEPT !["dnsbl"] = "checked"]
      /\ result' = [result EXCEPT !["dnsbl"] = r]
  BY DEF UP!CheckDNSBL, UP!Checked
<1>4. /\ "dnsbl" \in targets /\ stage["dnsbl"] = "running" /\ left = <<>>
      /\ UNCHANGED <<targets, over, truth, dispatched, closed, scanner, port, left, reference, listed>>
  BY DEF UP!CheckDNSBL, UP!IsRunning, UP!scan, UP!lookups
<1>5. truth' = truth /\ truth'["dnsbl"] = v
  BY <1>4
<1>6. m => \A l \in UP!ToSet(Lists) : listed[l] \in {"absent", "listed"}
  <2>1. UP!ToSet(left) = {}
    BY <1>4 DEF UP!ToSet
  <2> QED BY <2>1 DEF UP!Inductive, UP!LookedUp
<1> HIDE DEF m, s, r, v
<1>7. r.measured => \A l \in UP!ToSet(Lists) : listed[l] \in {"absent", "listed"}
  BY <1>2, <1>6
<1>8. r.measured \in BOOLEAN /\ r.success \in BOOLEAN
  BY <1>1, <1>2
<1> QED BY <1>3, <1>4, <1>5, <1>7, <1>8, UptimeChecked

(* A train of pings: if what was seen is all that was answered, nothing is *)
(* missing of what was answered in time.                                   *)
LEMMA UptimePings == ASSUME UP!Inductive, UP!CheckICMP PROVE UP!Inductive'
<1>1. /\ "icmp" \in targets /\ stage["icmp"] = "running"
      /\ stage' = [stage EXCEPT !["icmp"] = "checked"]
      /\ UNCHANGED <<targets, over, dispatched, closed, scanner, port, left, reference, listed>>
  BY DEF UP!CheckICMP, UP!IsRunning, UP!scan, UP!lookups
<1>2. PICK fate \in [Probes -> {"in_time", "late", "lost"}], os \in {"linux", "darwin"},
           missed \in SUBSET Probes, duplicates \in 0 .. 1 :
       LET answered == {p \in Probes : fate[p] # "lost"}
           in_time == {p \in Probes : fate[p] = "in_time"}
           late == answered \ in_time
           seen == (IF os = "darwin" THEN in_time ELSE answered) \ missed
           counted == IF os = "darwin" /\ late # {} THEN UP!Cardinality(late) + duplicates ELSE 0
           measured == UP!Consistent(UP!Cardinality(answered), UP!Cardinality(seen), counted)
       IN /\ duplicates > 0 => missed = {}
          /\ truth' = [truth EXCEPT !["icmp"] = in_time]
          /\ result' = [result EXCEPT !["icmp"] =
                          IF measured
                          THEN [measured |-> TRUE, success |-> seen \cap in_time # {},
                                value |-> seen \cap in_time]
                          ELSE UP!Unmeasured]
  BY DEF UP!CheckICMP
<1> DEFINE answered == {p \in Probes : fate[p] # "lost"}
           in_time == {p \in Probes : fate[p] = "in_time"}
           late == answered \ in_time
           seen == (IF os = "darwin" THEN in_time ELSE answered) \ missed
           counted == IF os = "darwin" /\ late # {} THEN UP!Cardinality(late) + duplicates ELSE 0
           measured == UP!Consistent(UP!Cardinality(answered), UP!Cardinality(seen), counted)
           r == IF measured
                THEN [measured |-> TRUE, success |-> seen \cap in_time # {},
                      value |-> seen \cap in_time]
                ELSE UP!Unmeasured
           v == in_time
<1>3. /\ truth' = [truth EXCEPT !["icmp"] = v] /\ result' = [result EXCEPT !["icmp"] = r]
      /\ duplicates > 0 => missed = {}
  BY <1>2
<1>4. \A S : UP!Cardinality(S) = Cardinality(S)
  BY DEF UP!Cardinality, Cardinality
<1>5. in_time \subseteq answered /\ answered \subseteq Probes /\ late \subseteq Probes
  OBVIOUS
<1>6. /\ IsFiniteSet(answered) /\ IsFiniteSet(in_time) /\ IsFiniteSet(late) /\ IsFiniteSet(seen)
      /\ seen \subseteq answered
  <2>1. seen \subseteq answered
    OBVIOUS
  <2> HIDE DEF answered, in_time, late, seen
  <2> QED BY <1>5, <2>1, UptimeAssumption, FS_Subset
<1>7. /\ Cardinality(answered) \in Nat /\ Cardinality(in_time) \in Nat
      /\ Cardinality(late) \in Nat /\ Cardinality(seen) \in Nat
  <2> HIDE DEF answered, in_time, late, seen
  <2> QED BY <1>6, FS_CardinalityType
<1>8. ASSUME measured PROVE in_time \subseteq seen
  <2>1. Cardinality(answered) - Cardinality(seen) <= counted
    <3> HIDE DEF answered, seen, counted
    <3> QED BY <1>4, <1>8 DEF UP!Consistent
  <2>2. CASE os # "darwin"
    <3>1. counted = 0 /\ seen \subseteq answered
      BY <2>2
    <3> HIDE DEF answered, seen, in_time, counted
    <3>2. Cardinality(seen) <= Cardinality(answered)
      BY <1>6, <3>1, FS_Subset
    <3>3. Cardinality(seen) = Cardinality(answered)
      BY <1>7, <2>1, <3>1, <3>2
    <3> QED BY <1>5, <1>6, <3>1, <3>3, FS_Subset
  <2>3. CASE os = "darwin" /\ duplicates = 0
    <3>1. seen \subseteq in_time /\ answered = in_time \cup late /\ in_time \cap late = {}
      BY <2>3
    <3>2. counted = Cardinality(late)
      <4>1. late = {} => counted = 0 /\ Cardinality(late) = 0
        BY FS_EmptySet
      <4>2. late # {} => counted = Cardinality(late) + 0
        <5> HIDE DEF late
        <5> QED BY <1>4, <2>3
      <4> HIDE DEF late, counted
      <4> QED BY <1>7, <4>1, <4>2
    <3> HIDE DEF answered, seen, in_time, counted, late
    <3>3. Cardinality(answered) = Cardinality(in_time) + Cardinality(late)
      <4>1. Cardinality(in_time \cap late) = 0
        BY <3>1, FS_EmptySet
      <4>2. Cardinality(in_time \cup late)
              = Cardinality(in_time) + Cardinality(late) - Cardinality(in_time \cap late)
        BY <1>6, FS_Union
      <4> QED BY <1>7, <3>1, <4>1, <4>2
    <3>4. Cardinality(seen) <= Cardinality(in_time)
      BY <1>6, <3>1, FS_Subset
    <3>5. Cardinality(seen) = Cardinality(in_time)
      BY <1>7, <2>1, <3>2, <3>3, <3>4
    <3> QED BY <1>6, <3>1, <3>5, FS_Subset
  <2>4. CASE os = "darwin" /\ duplicates > 0
    <3>1. missed = {}
      BY <1>3, <2>4
    <3> QED BY <2>4, <3>1
  <2> QED BY <2>2, <2>3, <2>4
<1>9. r.measured \in BOOLEAN /\ r.success \in BOOLEAN /\ (r.measured => r.value = v)
  <2>1. CASE measured
    <3> DEFINE s == seen \cap in_time # {}
               w == seen \cap in_time
    <3>1. r = [measured |-> TRUE, success |-> s, value |-> w]
      BY <2>1
    <3>2. s \in BOOLEAN
      OBVIOUS
    <3>3. w = v
      BY <1>8, <2>1
    <3> HIDE DEF s, r, w, v
    <3> QED BY <3>1, <3>2, <3>3
  <2>2. CASE ~measured
    <3>1. r = UP!Unmeasured
      BY <2>2
    <3> HIDE DEF r
    <3> QED BY <3>1 DEF UP!Unmeasured
  <2> QED BY <2>1, <2>2
<1> HIDE DEF r, v
<1>10. truth' \in {truth, [truth EXCEPT !["icmp"] = v]} /\ truth'["icmp"] = v
  BY <1>1, <1>3 DEF UP!Inductive, UP!Domains
<1> QED BY <1>1, <1>3, <1>9, <1>10, UptimeChecked

(* A lookup of records: its values are those of the names the aliases lead *)
(* to.                                                                     *)
LEMMA UptimeRecords == ASSUME UP!Inductive, UP!CheckRecords PROVE UP!Inductive'
<1>1. /\ "records" \in targets /\ stage["records"] = "running"
      /\ stage' = [stage EXCEPT !["records"] = "checked"]
      /\ UNCHANGED <<targets, over, dispatched, closed, scanner, port, left, reference, listed>>
  BY DEF UP!CheckRecords, UP!IsRunning, UP!scan, UP!lookups
<1>2. CASE result' = [result EXCEPT !["records"] = UP!Unmeasured] /\ UNCHANGED truth
  <2> DEFINE r == UP!Unmeasured
             v == truth["records"]
  <2>1. r.measured \in BOOLEAN /\ r.success \in BOOLEAN /\ r.value = {}
    BY DEF UP!Unmeasured
  <2>2. v = {}
    BY <1>1 DEF UP!Inductive, UP!Fresh
  <2>3. result' = [result EXCEPT !["records"] = r] /\ truth' = truth /\ truth'["records"] = v
    BY <1>2
  <2> HIDE DEF r, v
  <2> QED BY <1>1, <2>1, <2>2, <2>3, UptimeChecked
<1>3. ASSUME NEW answers \in UP!BoundedSeq(UP!Answer, MaxAnswers),
             LET values == UP!Values(answers, UP!Owners(answers))
             IN /\ truth' = [truth EXCEPT !["records"] = UP!Values(answers, UP!Chain(answers))]
                /\ result' = [result EXCEPT !["records"] =
                     [measured |-> values # {}, success |-> values = Wanted, value |-> values]]
      PROVE  UP!Inductive'
  <2> DEFINE w == UP!Values(answers, UP!Owners(answers))
             v == UP!Values(answers, UP!Chain(answers))
             m == w # {}
             s == w = Wanted
             r == [measured |-> m, success |-> s, value |-> w]
  <2>1. w = v
    <3>1. PICK n \in 0 .. MaxAnswers : answers \in [1 .. n -> UP!Answer]
      BY DEF UP!BoundedSeq, UP!SeqOf
    <3>2. n \in Nat
      BY UptimeAssumption
    <3> QED BY <3>1, <3>2, OwnersAreTheChain
  <2>2. m \in BOOLEAN /\ s \in BOOLEAN
    OBVIOUS
  <2>3. result' = [result EXCEPT !["records"] = r] /\ truth' = [truth EXCEPT !["records"] = v]
    BY <1>3
  <2> HIDE DEF m, s, w, v
  <2>4. r.measured \in BOOLEAN /\ r.success \in BOOLEAN /\ r.value = w
    BY <2>2
  <2> HIDE DEF r
  <2>5. truth' \in {truth, [truth EXCEPT !["records"] = v]} /\ truth'["records"] = v
    BY <1>1, <2>3 DEF UP!Inductive, UP!Domains
  <2> QED BY <1>1, <2>1, <2>3, <2>4, <2>5, UptimeChecked
<1> QED BY <1>2, <1>3 DEF UP!CheckRecords

LEMMA UptimeStep == ASSUME UP!Inductive, UP!Next PROVE UP!Inductive'
BY UptimeQuiet, UptimePlaces, UptimeExchange, UptimeScan, UptimePorts, UptimeLookups, UptimeLists,
   UptimePings, UptimeRecords DEF UP!Next

LEMMA UptimeUnchanged == ASSUME UP!Inductive, UNCHANGED UP!vars PROVE UP!Inductive'
BY DEF UP!vars, UP!checks, UP!scan, UP!lookups, UP!Inductive, UP!TypeOK, UP!Domains, UP!Fresh,
       UP!Answered, UP!Scanned, UP!LookedUp, UP!Valued, UP!Reached, UP!With

LEMMA UptimeHonest == ASSUME UP!Inductive PROVE UP!ResultsHonest
<1> USE DEF UP!Inductive, UP!Reached
<1>1. UP!AnswersHonest
  BY DEF UP!AnswersHonest, UP!Claims, UP!Answered
<1>2. UP!PortsHonest
  BY DEF UP!PortsHonest, UP!Claims, UP!Scanned
<1>3. UP!ListsHonest
  BY DEF UP!ListsHonest, UP!Claims, UP!LookedUp
<1>4. UP!ValuesExact
  BY DEF UP!ValuesExact, UP!Claims, UP!Valued
<1> QED BY <1>1, <1>2, <1>3, <1>4 DEF UP!ResultsHonest
-----------------------------------------------------------------------------
(* The configuration (Config) *)

(* What a file, a flag and a default may be. *)
LEMMA FileTypes ==
  ASSUME CF!Inductive
  PROVE  /\ file.interval \in Int /\ file.bytes \in Int /\ file.script \in Nat
         /\ file.source \in CF!Sources /\ file.spool \in BOOLEAN
         /\ file.cadence \in [CF!Collectors \cup {"unknown"} -> {-1} \cup Nat]
         /\ overlay.interval \in Int /\ overlay.source \in CF!Sources
<1>1. overlay.interval \in Int /\ overlay.source \in CF!Sources
  BY ConfigAssumption DEF CF!Inductive, CF!TypeOK, CF!Sources
<1>2. CASE file \in Files
  BY <1>1, <1>2, ConfigAssumption DEF CF!Sources, CF!Collectors
<1>3. CASE file = CF!EmptyFile
  <2>1. file.cadence \in [CF!Collectors \cup {"unknown"} -> {-1} \cup Nat]
    BY <1>3 DEF CF!EmptyFile, CF!Absent
  <2>2. file.interval = 0 /\ file.bytes = 0 /\ file.script = 0 /\ file.source = "none"
    BY <1>3 DEF CF!EmptyFile, CF!Unset
  <2>3. file.spool \in BOOLEAN
    BY <1>3 DEF CF!EmptyFile
  <2> QED BY <1>1, <2>1, <2>2, <2>3 DEF CF!Sources
<1> QED BY <1>2, <1>3 DEF CF!Inductive, CF!TypeOK

LEMMA ConfigInit == ASSUME CF!Init PROVE CF!Inductive
BY ConfigAssumption DEF CF!Init, CF!Inductive, CF!TypeOK, CF!NoCfg, CF!Unset

(* What is accepted has its types and an interval above zero. *)
LEMMA ResolvedTypes ==
  ASSUME CF!Inductive, CF!Accepted(CF!Resolved)
  PROVE  /\ CF!Resolved.interval \in Nat \ {0} /\ CF!Resolved.bytes \in Nat
         /\ CF!Resolved.spool \in BOOLEAN
BY FileTypes, ConfigAssumption DEF CF!Accepted, CF!Resolved, CF!Layer, CF!Unset

(* A collector's cadence is its own, if it has one, and never below the    *)
(* interval.                                                               *)
LEMMA EveryIs ==
  ASSUME CF!Inductive, CF!Accepted(CF!Resolved), cfg = CF!Resolved, NEW c \in CF!Collectors
  PROVE  /\ CF!Every(c) \in Nat /\ CF!Every(c) >= cfg.interval
         /\ file.cadence[c] # CF!Absent => CF!Every(c) = file.cadence[c]
<1>1. /\ cfg.interval \in Nat \ {0} /\ file.cadence[c] \in {-1} \cup Nat /\ file.script \in Nat
      /\ c \in DOMAIN file.cadence
  BY FileTypes, ResolvedTypes
<1>2. file.cadence[c] # CF!Absent => file.cadence[c] >= cfg.interval
  BY <1>1 DEF CF!Accepted, CF!CadenceAccepted
<1>3. c # Script => BuiltIn[c] \in Nat
  BY ConfigAssumption DEF CF!Collectors
<1> QED BY <1>1, <1>2, <1>3 DEF CF!Every, CF!Larger, CF!Asked, CF!Absent

LEMMA ConfigStep == ASSUME CF!Inductive, CF!Next PROVE CF!Inductive'
<1> USE DEF CF!Inductive
<1>1. CASE CF!LoadFile
  BY <1>1 DEF CF!LoadFile, CF!TypeOK
<1>2. CASE CF!LoadFails \/ CF!Reject \/ CF!UnknownName
  BY <1>2 DEF CF!LoadFails, CF!Reject, CF!UnknownName, CF!TypeOK
<1>3. CASE CF!Resolve
  <2>1. CF!TypeOK'
    BY <1>3, ResolvedTypes DEF CF!Resolve, CF!TypeOK
  <2>2. UNCHANGED <<CF!Resolved, CF!Accepted(CF!Resolved)>>
    BY <1>3 DEF CF!Resolve, CF!Resolved, CF!Token, CF!Accepted, CF!Ambiguous
  <2> QED BY <1>3, <2>1, <2>2 DEF CF!Resolve
<1>4. CASE CF!Schedule
  <2>1. \A c \in CF!Collectors : CF!Every(c) \in Nat
    BY <1>4, EveryIs DEF CF!Schedule
  <2>2. UNCHANGED <<CF!Resolved, CF!Accepted(CF!Resolved)>>
    BY <1>4 DEF CF!Schedule, CF!Resolved, CF!Token, CF!Accepted, CF!Ambiguous
  <2>3. \A c \in CF!Collectors : CF!Every(c)' = CF!Every(c)
    BY <1>4 DEF CF!Schedule, CF!Every, CF!Asked
  <2>4. CF!TypeOK'
    BY <1>4, <2>1 DEF CF!Schedule, CF!TypeOK
  <2> QED BY <1>4, <2>2, <2>3, <2>4 DEF CF!Schedule
<1> QED BY <1>1, <1>2, <1>3, <1>4 DEF CF!Next

LEMMA ConfigUnchanged == ASSUME CF!Inductive, UNCHANGED CF!vars PROVE CF!Inductive'
<1>1. UNCHANGED <<file, overlay, credential, step, cfg, every>>
  BY DEF CF!vars
<1>2. UNCHANGED <<CF!Resolved, CF!Accepted(CF!Resolved)>>
  BY <1>1 DEF CF!Resolved, CF!Token, CF!Accepted, CF!Ambiguous
<1>3. \A c \in CF!Collectors : CF!Every(c)' = CF!Every(c)
  BY <1>1 DEF CF!Every, CF!Asked
<1> QED BY <1>1, <1>2, <1>3 DEF CF!Inductive, CF!TypeOK

LEMMA ConfigIsSound == ASSUME CF!Inductive PROVE CF!ConfigSound
<1> SUFFICES ASSUME step = "running" PROVE CF!ConfigSound
  BY DEF CF!ConfigSound
<1>1. cfg = CF!Resolved /\ CF!Accepted(CF!Resolved)
  BY DEF CF!Inductive
<1>2. cfg.interval > 0 /\ (cfg.spool => cfg.bytes > 0)
  BY <1>1 DEF CF!Accepted
<1>3. \A c \in CF!Collectors : /\ every[c] >= cfg.interval
                               /\ file.cadence[c] # CF!Absent => every[c] = file.cadence[c]
  BY <1>1, EveryIs DEF CF!Inductive
<1>4. ~overlay.local => cfg.token = CF!Token /\ cfg.token # "none"
  BY <1>1 DEF CF!Accepted, CF!Resolved
<1>5. overlay.source \in {"none", "token", "path"} /\ file.source \in {"none", "token", "path"}
  BY <1>1, FileTypes DEF CF!Accepted, CF!Ambiguous, CF!Sources
<1>6. /\ overlay.source # "none" => CF!Token \in {"env:token", "env:path"}
      /\ overlay.source = "none" /\ file.source # "none" => CF!Token \in {"file:token", "file:path"}
  BY <1>5 DEF CF!Token
<1>7. overlay.switchedOff => cfg.switch = "off"
  BY <1>1 DEF CF!Resolved
<1> QED BY <1>2, <1>3, <1>4, <1>6, <1>7 DEF CF!ConfigSound
-----------------------------------------------------------------------------
(* The host's programs together *)

Inductive ==
  /\ program = "Runner" => RN!Inductive
  /\ program = "Uptime" => UP!Inductive
  /\ program = "Kernel" => KE!Inductive
  /\ program = "Batches" => BA!Inductive
  /\ program = "Config" => CF!Inductive

LEMMA InitInductive == ASSUME Init PROVE Inductive
BY RunnerInit, UptimeInit, KernelInit, BatchesInit, ConfigInit DEF Init, Inductive

LEMMA NextInductive == ASSUME Inductive, [Next]_vars PROVE Inductive'
<1>1. CASE Next
  BY <1>1, RunnerStep, UptimeStep, KernelStep, BatchesStep, ConfigStep DEF Next, Inductive
<1>2. CASE UNCHANGED vars
  <2>1. program' = program
    BY <1>2 DEF vars
  <2>2. CASE program = "Runner"
    BY <1>2, <2>1, <2>2, RunnerUnchanged DEF Inductive, vars, ofRunner, RN!vars
  <2>3. CASE program = "Kernel"
    BY <1>2, <2>1, <2>3, KernelUnchanged DEF Inductive, vars, ofKernel, KE!vars, KE!process
  <2>4. CASE program = "Config"
    BY <1>2, <2>1, <2>4, ConfigUnchanged DEF Inductive, vars, ofConfig, CF!vars
  <2>5. CASE program = "Uptime"
    BY <1>2, <2>1, <2>5, UptimeUnchanged
       DEF Inductive, vars, ofUptime, UP!vars, UP!checks, UP!scan, UP!lookups
  <2>6. CASE program = "Batches"
    BY <1>2, <2>1, <2>6, BatchesUnchanged DEF Inductive, vars, ofBatches, BA!vars
  <2> QED BY <2>1, <2>2, <2>3, <2>4, <2>5, <2>6 DEF Inductive
<1> QED BY <1>1, <1>2

THEOREM Invariant == Spec => []Inductive
BY InitInductive, NextInductive, PTL DEF Spec
-----------------------------------------------------------------------------
(* No slow collector starves, however many there are and however long each *)
(* may take: it starts again after its cadence or, after an error, at the  *)
(* next tick, but for the time the others take (due, collect).             *)
THEOREM SlowCollectorsRun == Spec => []NoStarvation
<1>1. Inductive => NoStarvation
  BY RunnerFed DEF Inductive, NoStarvation, RN!Inductive
<1> QED BY <1>1, Invariant, PTL

(* A collector that succeeded or timed out does not start again before its *)
(* cadence is over, but for half an interval and the time it waited for    *)
(* the collectors before it (due).                                         *)
THEOREM CadencesAreKept == Spec => CadenceKept
<1>1. Inductive /\ [Next]_vars => [program = "Runner" => RN!NotEarly]_vars
  BY RunnerNotEarly DEF Inductive, Next
<1> QED BY <1>1, Invariant, PTL DEF Spec, CadenceKept

(* The watchdog keeps reporting while the fast lane keeps to its budget    *)
(* and a batch is queued in time, whatever the slow lane does              *)
(* (watchdogAlive).                                                        *)
THEOREM WatchdogIsFair == Spec => []NoFalseAlarm
<1>1. Inductive => NoFalseAlarm
  BY RunnerOnce DEF Inductive, NoFalseAlarm
<1> QED BY <1>1, Invariant, PTL

(* A single run leaves every collector its time (MaxCycleTimeout).         *)
THEOREM SingleRunIsComplete == Spec => []OnceRunsAll
<1>1. Inductive => OnceRunsAll
  BY RunnerOnce DEF Inductive, OnceRunsAll
<1> QED BY <1>1, Invariant, PTL

(* What the uptime collector claims is what it measured, for any number of *)
(* workers, ports, lists, targets and answers, cancelled or not: nothing   *)
(* is claimed of a check that did not run, a port is open, closed or       *)
(* unknown as its probe said, and an answer to a name is the end of its    *)
(* chain of aliases.                                                       *)
THEOREM ResultsAreHonest == Spec => []ResultsHonest
<1>1. Inductive => ResultsHonest
  BY UptimeHonest DEF Inductive, ResultsHonest, UP!Inductive
<1> QED BY <1>1, Invariant, PTL

(* Kernel errors, OOM kills and boots are neither lost between two         *)
(* collections nor, with a cursor, counted twice, for a journal of any     *)
(* length and any limit of a query.                                        *)
THEOREM KernelIsCovered == Spec => []KernelCovered
<1>1. Inductive => KernelCovered
  BY KernelCovers DEF Inductive, KernelCovered, KE!Inductive
<1> QED BY <1>1, Invariant, PTL

(* A batch, of any size and with any limits, is cut into parts that carry  *)
(* every item once and in order, each within the limits by its real bytes  *)
(* and valid; it fails only for an item too large for any request          *)
(* (splitBatch).                                                           *)
THEOREM PartsAreSound == Spec => []PartsSound
<1>1. Inductive => PartsSound
  BY DEF Inductive, PartsSound, BA!Inductive
<1> QED BY <1>1, Invariant, PTL

(* A process runs with what its file, its flags and the defaults say, for  *)
(* any files, flags and built-in cadences (Config.Validate).               *)
THEOREM ConfigIsResolved == Spec => []ConfigSound
<1>1. Inductive => ConfigSound
  BY ConfigIsSound DEF Inductive, ConfigSound, CF!Inductive
<1> QED BY <1>1, Invariant, PTL
=============================================================================
