--------------------------- MODULE AnalysisProofs ---------------------------
(* Proofs about the parts that measure and convert audio: the meter of a    *)
(* call, the diarisation of speakers, the batch evaluation, the scoring of  *)
(* transcripts and the sample-rate conversions.  Each is proved to keep the *)
(* invariant its run checks, for every value of its constants.  At the end, *)
(* that the run which explores all these parts side by side is one of each  *)
(* part's own specification.                                                *)
EXTENDS MCAudioParts, PartsProofs

-----------------------------------------------------------------------------
(* The meter of a call *)

(* Two for every element of a finite set make twice its cardinality. *)
LEMMA SumOfTwos ==
  ASSUME NEW F, IsFiniteSet(F)
  PROVE  MapThenSumSet(LAMBDA f : 2, F) = 2 * Cardinality(F)
<1> DEFINE Next(s) == s \ {CHOOSE x \in s : TRUE}
           Rec(g) == g = [s \in SUBSET F |-> IF s = {} THEN 0 ELSE 2 + g[Next(s)]]
           iter == CHOOSE g : Rec(g)
           twice == [s \in SUBSET F |-> 2 * Cardinality(s)]
<1>1. MapThenSumSet(LAMBDA f : 2, F) = iter[F]
  BY DEF MapThenSumSet, MapThenFoldSet
<1>2. ASSUME NEW s \in SUBSET F
      PROVE  /\ IsFiniteSet(s) /\ Cardinality(s) \in Nat
             /\ s = {} => Cardinality(s) = 0
             /\ s # {} => Next(s) \in SUBSET F /\ Next(s) # s /\ Cardinality(s) = Cardinality(Next(s)) + 1
  <2>1. IsFiniteSet(s) /\ Cardinality(s) \in Nat
    BY FS_Subset, FS_CardinalityType
  <2>2. ASSUME s # {}
        PROVE  Next(s) \in SUBSET F /\ Next(s) # s /\ Cardinality(s) = Cardinality(Next(s)) + 1
    <3>1. PICK x \in s : x = CHOOSE y \in s : TRUE
      BY <2>2
    <3>2. Next(s) = s \ {x}
      BY <3>1
    <3>3. IsFiniteSet(Next(s)) /\ Cardinality(Next(s)) = Cardinality(s) - 1 /\ Cardinality(s) \in Nat
      BY <2>1, <3>1, <3>2, FS_RemoveElement
    <3> QED
      BY <3>1, <3>2, <3>3
  <2> QED
    BY <2>1, <2>2, FS_EmptySet
<1>3. Rec(twice)
  <2>1. ASSUME NEW s \in SUBSET F
        PROVE  twice[s] = IF s = {} THEN 0 ELSE 2 + twice[Next(s)]
    <3> HIDE DEF Next
    <3>1. CASE s = {}
      BY <1>2, <3>1
    <3>2. CASE s # {}
      <4>1. twice[Next(s)] = 2 * Cardinality(Next(s)) /\ Cardinality(Next(s)) \in Nat
        BY <1>2, <3>2
      <4> QED
        BY <1>2, <3>2, <4>1
    <3> QED
      BY <3>1, <3>2
  <2> QED
    BY <2>1, Zenon
<1>4. Rec(iter)
  <2> HIDE DEF twice, Rec
  <2> QED
    BY <1>3, Zenon
<1>5. \A s \in SUBSET F : iter[s] = twice[s]
  <2> DEFINE W == {s \in SUBSET F : iter[s] # twice[s]}
  <2> SUFFICES ASSUME W # {} PROVE FALSE
    BY Zenon
  <2>1. PICK s \in W : \A r \in W : r \subseteq s => r = s
    <3>1. W \in SUBSET (SUBSET F)
      OBVIOUS
    <3> HIDE DEF W
    <3> QED
      BY <3>1, MinimalMember
  <2>2. \A r \in SUBSET F :
          /\ iter[r] = IF r = {} THEN 0 ELSE 2 + iter[Next(r)]
          /\ twice[r] = IF r = {} THEN 0 ELSE 2 + twice[Next(r)]
    <3> HIDE DEF iter, twice, Next
    <3> QED
      BY <1>3, <1>4, Zenon
  <2>3. s # {} /\ iter[Next(s)] # twice[Next(s)]
    <3> HIDE DEF iter, twice, Next
    <3> QED
      BY <2>2, Zenon
  <2>4. Next(s) \in W /\ Next(s) \subseteq s /\ Next(s) # s
    <3>1. Next(s) \in SUBSET F /\ Next(s) # s /\ Next(s) \subseteq s
      BY <1>2, <2>3
    <3> HIDE DEF iter, twice, Next
    <3> QED
      BY <2>3, <3>1
  <2> HIDE DEF W
  <2> QED
    BY <2>1, <2>4
<1> QED
  BY <1>1, <1>5
(* A quotient, and what it leaves. *)
LEMMA QuotientBounds ==
  ASSUME NEW a \in Nat, NEW d \in Nat \ {0}
  PROVE  /\ a \div d \in Nat
         /\ d * (a \div d) <= a
         /\ a < d * (a \div d) + d
  BY Z3

(* Fewer units are at least one pulse less. *)
LEMMA OnePulseLess ==
  ASSUME NEW n \in Nat, NEW q \in Nat, NEW d \in Nat \ {0}, n < q
  PROVE  n * d <= d * q - d
<1>1. PICK k \in Nat : q = n + 1 + k
  <2>1. q - n - 1 \in Nat /\ q = n + 1 + (q - n - 1)
    OBVIOUS
  <2> QED
    BY <2>1
<1>2. d * (n + 1 + k) = d * n + d + d * k /\ d * k >= 0 /\ d * n \in Nat /\ d * k \in Nat /\ n * d = d * n
  BY Z3
<1> QED
  BY <1>1, <1>2

(* The units billed cover the call, and no fewer do. *)
LEMMA UnitsCover ==
  ASSUME NEW d \in Nat
  PROVE  /\ BilledUnits(d) \in Nat /\ BilledUnits(d) >= 1 /\ BilledUnits(d) * Pulse >= d
         /\ \A n \in 0 .. BilledUnits(d) - 1 : ~ (n >= 1 /\ n * Pulse >= d)
<1>1. PICK p : p = Pulse
  OBVIOUS
<1>2. p \in Nat \ {0}
  BY <1>1, MeterAssumption DEF Pulse, defaultPulse
<1>3. PICK q : q = (d + p - 1) \div p
  OBVIOUS
<1>4. q \in Nat /\ p * q <= d + p - 1 /\ d + p - 1 < p * q + p
  <2>1. d + p - 1 \in Nat
    BY <1>2
  <2> QED
    BY <1>2, <1>3, <2>1, QuotientBounds
<1>5. p * q \in Nat /\ q * p = p * q /\ 1 * p = p
  BY <1>2, <1>4, Z3
<1>6. BilledUnits(d) = IF q < 1 THEN 1 ELSE q
  BY <1>1, <1>3 DEF BilledUnits, Ceil
<1>7. CASE q < 1
  <2>1. q = 0 /\ p * q = 0
    BY <1>2, <1>4, <1>7, Z3
  <2>2. d = 0 /\ BilledUnits(d) = 1
    BY <1>2, <1>4, <1>6, <1>7, <2>1
  <2> QED
    BY <1>1, <1>2, <1>5, <2>2
<1>8. CASE q >= 1
  <2>1. BilledUnits(d) = q /\ q * p >= d
    BY <1>2, <1>4, <1>5, <1>6, <1>8
  <2>2. ASSUME NEW n \in 0 .. q - 1 PROVE ~ (n * p >= d)
    <3>1. n \in Nat /\ n < q
      BY <1>4
    <3>2. n * p <= p * q - p
      BY <1>2, <1>4, <3>1, OnePulseLess
    <3>3. n * p \in Nat
      BY <1>2, <3>1, Z3
    <3> QED
      BY <1>2, <1>4, <1>5, <3>2, <3>3
  <2> QED
    BY <1>1, <1>4, <1>8, <2>1, <2>2
<1> QED
  BY <1>4, <1>7, <1>8

(* The price of a unit counts every feature once. *)
LEMMA PriceOfFeatures ==
  ASSUME NEW fs \in SUBSET Features
  PROVE  UnitPrice(fs) \in Nat /\ UnitPrice(fs) = 5 + 2 * Cardinality(fs)
<1>1. {f \in Features : f \in fs} = fs /\ IsFiniteSet(fs)
  BY MeterAssumption, FS_Subset
<1>2. Cardinality(fs) \in Nat
  BY <1>1, FS_CardinalityType
<1>3. MapThenSumSet(LAMBDA f : 2, fs) = 2 * Cardinality(fs)
  BY <1>1, SumOfTwos
<1>4. UnitPrice(fs) = 2 * Cardinality(fs) + 5
  BY <1>1, <1>3, Zenon DEF UnitPrice
<1> QED
  BY <1>2, <1>4

(* The meter of a call that begins. *)
LEMMA MeterInitInv == NewSessionMeter => MeterInv
<1> SUFFICES ASSUME NewSessionMeter PROVE MeterInv
  OBVIOUS
<1>1. MeterTypeOK
  <2>1. 0 \in 0 .. MaxClock
    BY MeterAssumption
  <2> QED
    BY <2>1 DEF NewSessionMeter, MeterTypeOK, NoRecord
<1> QED
  BY <1>1 DEF NewSessionMeter, MeterInv, NoFeatureLost, RecordBillsWhatRan, UnitsCoverCall, HungUpKept

(* A feature being enabled: the swap finds the word as it was read, or the  *)
(* loop starts over.                                                        *)
LEMMA EnableKeepsInv ==
  ASSUME MeterInv, NEW f \in Features, EnableLoad(f) \/ EnableSwap(f)
  PROVE  MeterInv'
<1> USE DEF MeterInv
<1>1. MeterTypeOK'
  BY DEF MeterTypeOK, EnableLoad, EnableSwap
<1>2. /\ features \subseteq features'
      /\ \A g \in Features : enabling'[g] = "done" => enabling[g] = "done" \/ g \in features'
  BY DEF MeterTypeOK, EnableLoad, EnableSwap
<1>3. NoFeatureLost' /\ HungUpKept'
  BY <1>2 DEF NoFeatureLost, HungUpKept, EnableLoad, EnableSwap
<1>4. hangup' = hangup /\ before' = before /\ record' = record /\ priced' = priced
  BY DEF EnableLoad, EnableSwap
<1>5. RecordBillsWhatRan'
  BY <1>2, <1>4 DEF RecordBillsWhatRan
<1>6. UnitsCoverCall'
  BY <1>4 DEF UnitsCoverCall
<1> QED
  BY <1>1, <1>3, <1>5, <1>6

(* The hangup: the end, then the record. *)
LEMMA FinalizeKeepsInv ==
  ASSUME MeterInv, FinalizeEnd \/ FinalizeRecord
  PROVE  MeterInv'
<1> USE DEF MeterInv
<1>1. CASE FinalizeEnd
  <2>1. MeterTypeOK'
    BY <1>1 DEF MeterTypeOK, FinalizeEnd
  <2>2. hangup' # "done" /\ before' \subseteq features' /\ features' = features /\ enabling' = enabling
    BY <1>1 DEF FinalizeEnd, NoFeatureLost
  <2> QED
    BY <2>1, <2>2 DEF NoFeatureLost, RecordBillsWhatRan, UnitsCoverCall, HungUpKept
<1>2. CASE FinalizeRecord
  <2>1. features \in SUBSET Features /\ DurationMs \in Nat
    BY MeterAssumption DEF MeterTypeOK, DurationMs
  <2>2. PICK d \in Nat : d = DurationMs
    BY <2>1
  <2>3. /\ BilledUnits(d) \in Nat /\ BilledUnits(d) >= 1 /\ BilledUnits(d) * Pulse >= d
        /\ \A n \in 0 .. BilledUnits(d) - 1 : ~ (n >= 1 /\ n * Pulse >= d)
    BY UnitsCover
  <2>4. UnitPrice(features) \in Nat /\ UnitPrice(features) = 5 + 2 * Cardinality(features)
    BY <2>1, PriceOfFeatures
  <2>5. /\ record' = [units |-> BilledUnits(d), duration |-> d, features |-> features]
        /\ priced' = UnitPrice(features) /\ before' = before /\ features' = features
        /\ enabling' = enabling
    BY <1>2, <2>2 DEF FinalizeRecord
  <2>6. MeterTypeOK'
    BY <1>2, <2>1, <2>3, <2>4, <2>5 DEF MeterTypeOK, FinalizeRecord
  <2>7. NoFeatureLost' /\ HungUpKept' /\ RecordBillsWhatRan'
    BY <2>4, <2>5 DEF NoFeatureLost, HungUpKept, RecordBillsWhatRan
  <2>8. UnitsCoverCall'
    <3>1. record'.units = BilledUnits(d) /\ record'.duration = d
      BY <2>5
    <3>2. Pulse = IF PulseMs > 0 THEN PulseMs ELSE defaultPulse
      BY MeterAssumption DEF Pulse
    <3> QED
      BY <2>3, <3>1, <3>2, Zenon DEF UnitsCoverCall
  <2> QED
    BY <2>6, <2>7, <2>8
<1> QED
  BY <1>1, <1>2

(* Whatever features are enabled at the same time, however the clock is set *)
(* and whatever pulse is configured: no feature is lost, the record bills   *)
(* what was enabled when the call was hung up, its units are the fewest     *)
(* that cover it, and the price is that of its features.                    *)
THEOREM MeterInvariant == MeterSpec => []MeterInv
<1>1. NewSessionMeter => MeterInv
  BY MeterInitInv
<1>2. MeterInv /\ [MeterNext]_meterVars => MeterInv'
  <2> SUFFICES ASSUME MeterInv, [MeterNext]_meterVars PROVE MeterInv'
    OBVIOUS
  <2>1. CASE \E f \in Features : EnableLoad(f) \/ EnableSwap(f)
    BY <2>1, EnableKeepsInv
  <2>2. CASE FinalizeEnd \/ FinalizeRecord
    BY <2>2, FinalizeKeepsInv
  <2>3. CASE ClockMoves \/ WriteAsync \/ UNCHANGED meterVars
    <3>1. MeterTypeOK'
      BY <2>3 DEF MeterInv, MeterTypeOK, ClockMoves, WriteAsync, meterVars
    <3>2. UNCHANGED <<features, enabling, hangup, record, before, priced>>
      BY <2>3 DEF ClockMoves, WriteAsync, meterVars
    <3> QED
      BY <3>1, <3>2 DEF MeterInv, NoFeatureLost, RecordBillsWhatRan, UnitsCoverCall, HungUpKept
  <2> QED
    BY <2>1, <2>2, <2>3 DEF MeterNext
<1> QED
  BY <1>1, <1>2, PTL DEF MeterSpec

-----------------------------------------------------------------------------
(* The folds of the community modules *)

(* The steps of the folds: with parameters p, a fold has r when it comes to  *)
(* m.                                                                       *)
FoldStep(kind, p, m, r) ==
  IF kind = "rows" THEN NextRow(r, p[1][m], p[2])
  ELSE IF kind = "sum" THEN r + p[m].end - p[m].start
  ELSE IF kind = "add" THEN r + p[m]
  ELSE IF kind = "peak" THEN IF Magnitude(p[m]) > r THEN Magnitude(p[m]) ELSE r
  ELSE Append(r, IF p[2] = p[3][m] THEN p[1][m] + 1 ELSE Larger(p[1][m + 1], r[m]))

(* What the community module's folds choose: the function of all subsets of *)
(* 1 .. n that takes the largest element off first.                         *)
IsFold(g, kind, p, base, n) ==
  g = [s \in SUBSET (1 .. n) |->
         IF s = {} THEN base ELSE FoldStep(kind, p, Max(s), g[s \ {Max(s)}])]

(* There is such a function: of numbers for which there is none, the least  *)
(* would have one made from the one before.                                 *)
LEMMA FoldExists ==
  ASSUME NEW kind, NEW p, NEW base, NEW n \in Nat
  PROVE  \E g : IsFold(g, kind, p, base, n)
<1> DEFINE Taken(m, r) == FoldStep(kind, p, m, r)
           Rec(g, k) == g = [s \in SUBSET (1 .. k) |->
                               IF s = {} THEN base ELSE Taken(Max(s), g[s \ {Max(s)}])]
           T == {k \in Nat : ~ \E g : Rec(g, k)}
<1> SUFFICES ASSUME T # {} PROVE FALSE
  <2>1. T = {} => \E g : Rec(g, n)
    <3> HIDE DEF Rec
    <3> QED
      OBVIOUS
  <2> QED
    BY <2>1 DEF IsFold
<1>1. PICK k \in T : \A m \in T : k <= m
  <2>1. T \in SUBSET Nat
    OBVIOUS
  <2> HIDE DEF T
  <2> QED
    BY <2>1, LeastElement
<1>2. k \in Nat /\ ~ \E g : Rec(g, k)
  <2> HIDE DEF Rec
  <2> QED
    OBVIOUS
<1>3. k # 0
  <2>1. SUBSET (1 .. 0) = {{}}
    OBVIOUS
  <2>2. Rec([s \in SUBSET (1 .. 0) |-> base], 0)
    <3> HIDE DEF Taken
    <3>1. ASSUME NEW s \in SUBSET (1 .. 0) PROVE s = {}
      BY <2>1
    <3> QED
      BY <3>1, Zenon
  <2> HIDE DEF Rec
  <2> QED
    BY <1>2, <2>2
<1>4. k - 1 \in Nat /\ k - 1 < k
  BY <1>2, <1>3
<1>5. PICK f : Rec(f, k - 1)
  <2>1. ~ (k - 1 \in T)
    <3> HIDE DEF T
    <3> QED
      BY <1>1, <1>2, <1>4
  <2> HIDE DEF Rec
  <2> QED
    BY <1>4, <2>1
<1> DEFINE g == [s \in SUBSET (1 .. k) |-> IF k \in s THEN Taken(k, f[s \ {k}]) ELSE f[s]]
<1>6. ASSUME NEW s \in SUBSET (1 .. k)
      PROVE  g[s] = IF s = {} THEN base ELSE Taken(Max(s), g[s \ {Max(s)}])
  <2>1. g[s] = IF k \in s THEN Taken(k, f[s \ {k}]) ELSE f[s]
    OBVIOUS
  <2>2. CASE k \in s
    <3>1. Max(s) = k
      <4>1. k \in s /\ \A m \in s : k >= m
        BY <1>2, <2>2
      <4>2. \A x \in s : (\A m \in s : x >= m) => x = k
        BY <1>2, <2>2
      <4> QED
        BY <4>1, <4>2, Zenon DEF Max
    <3>2. s \ {k} \in SUBSET (1 .. k) /\ ~ (k \in s \ {k})
      OBVIOUS
    <3>3. g[s \ {k}] = f[s \ {k}]
      <4> HIDE DEF Taken
      <4> QED
        BY <3>2
    <3> HIDE DEF g, Taken
    <3> QED
      BY <2>1, <2>2, <3>1, <3>3, Zenon
  <2>3. CASE k \notin s
    <3>1. s \in SUBSET (1 .. k - 1)
      BY <1>2, <2>3
    <3>2. f[s] = IF s = {} THEN base ELSE Taken(Max(s), f[s \ {Max(s)}])
      <4> HIDE DEF Taken
      <4> QED
        BY <1>5, <3>1, Zenon
    <3>3. s \ {Max(s)} \in SUBSET (1 .. k) /\ ~ (k \in s \ {Max(s)})
      BY <2>3
    <3>4. g[s \ {Max(s)}] = f[s \ {Max(s)}]
      <4> HIDE DEF Taken
      <4> QED
        BY <3>3
    <3> HIDE DEF g, Taken
    <3> QED
      BY <2>1, <2>3, <3>2, <3>4, Zenon
  <2> QED
    BY <2>2, <2>3
<1>7. Rec(g, k)
  <2> HIDE DEF Taken
  <2> QED
    BY <1>6, Zenon
<1> HIDE DEF Rec, g
<1> QED
  BY <1>2, <1>7

(* Its value at the first k numbers, from its value at those before.        *)
LEMMA FoldTakes ==
  ASSUME NEW kind, NEW p, NEW base, NEW g, NEW n \in Nat, IsFold(g, kind, p, base, n)
  PROVE  /\ g[{}] = base
         /\ \A k \in 1 .. n : g[1 .. k] = FoldStep(kind, p, k, g[1 .. k - 1])
<1>1. ASSUME NEW s \in SUBSET (1 .. n)
      PROVE  g[s] = IF s = {} THEN base ELSE FoldStep(kind, p, Max(s), g[s \ {Max(s)}])
  BY Zenon DEF IsFold
<1>2. {} \in SUBSET (1 .. n)
  OBVIOUS
<1>3. g[{}] = base
  BY <1>1, <1>2, Zenon
<1>4. ASSUME NEW k \in 1 .. n PROVE g[1 .. k] = FoldStep(kind, p, k, g[1 .. k - 1])
  <2>1. k \in Nat /\ 1 <= k /\ k <= n /\ k \in 1 .. k
    OBVIOUS
  <2>2. (1 .. k) \ {k} = 1 .. k - 1
    <3>1. ASSUME NEW m PROVE m \in (1 .. k) \ {k} <=> m \in 1 .. k - 1
      BY <2>1
    <3> QED
      BY <3>1
  <2>3. 1 .. k \in SUBSET (1 .. n) /\ 1 .. k # {}
    BY <2>1
  <2>4. Max(1 .. k) = k
    <3>1. \A m \in 1 .. k : k >= m
      BY <2>1
    <3>2. ASSUME NEW x \in 1 .. k, \A m \in 1 .. k : x >= m PROVE x = k
      <4>1. x >= k /\ x <= k /\ x \in Nat
        BY <2>1, <3>2
      <4> QED
        BY <2>1, <4>1
    <3> QED
      BY <2>1, <3>1, <3>2, Zenon DEF Max
  <2> QED
    BY <1>1, <2>2, <2>3, <2>4, Zenon
<1> QED
  BY <1>3, <1>4

-----------------------------------------------------------------------------
(* Speaker diarisation *)

(* The silent run around a frame of any sequence of labels, and its owner.  *)
RunIn(h, t) ==
  {u \in DOMAIN h : \A v \in DOMAIN h :
     (v >= (IF t < u THEN t ELSE u) /\ v <= (IF t < u THEN u ELSE t)) => h[v] = "silence"}

(* The first and the last frame of a run. *)
FirstOf(run) == CHOOSE u \in run : \A v \in run : u <= v
LastOf(run) == CHOOSE u \in run : \A v \in run : v <= u

(* Whose frame t of labels h is. *)
OwnerIn(h, t) ==
  IF h[t] # "silence" THEN h[t]
  ELSE IF LastOf(RunIn(h, t)) - FirstOf(RunIn(h, t)) >= SpeakerChangeGap \/ FirstOf(RunIn(h, t)) = 1
       THEN "silence"
  ELSE h[FirstOf(RunIn(h, t)) - 1]

(* A run has a first and a last frame. *)
LEMMA RunEnds ==
  ASSUME NEW n \in Nat, NEW run \in SUBSET (1 .. n), run # {}
  PROVE  /\ FirstOf(run) \in run /\ LastOf(run) \in run
         /\ \A v \in run : FirstOf(run) <= v /\ v <= LastOf(run)
<1>1. run \in SUBSET Nat /\ \A v \in run : v <= n
  OBVIOUS
<1>2. \E u \in run : \A v \in run : u <= v
  BY <1>1, LeastElement
<1>3. \E u \in run : \A v \in run : v <= u
  BY <1>1, LargestElement
<1>4. FirstOf(run) \in run /\ \A v \in run : FirstOf(run) <= v
  BY <1>2, Zenon DEF FirstOf
<1>5. LastOf(run) \in run /\ \A v \in run : v <= LastOf(run)
  BY <1>3, Zenon DEF LastOf
<1> QED
  BY <1>4, <1>5

(* A frame keeps its owner when another is heard, if somebody speaks in     *)
(* between or in that one.                                                  *)
LEMMA OwnerKept ==
  ASSUME NEW h \in Seq(Speakers), NEW x \in Speakers, NEW t \in 1 .. Len(h),
         NEW b \in t .. Len(h) + 1, Append(h, x)[b] # "silence"
  PROVE  OwnerIn(Append(h, x), t) = OwnerIn(h, t)
<1> DEFINE g == Append(h, x)
           n == Len(h)
<1>1. /\ n \in Nat /\ DOMAIN h = 1 .. n /\ DOMAIN g = 1 .. n + 1
      /\ \A v \in 1 .. n : g[v] = h[v]
  OBVIOUS
<1>2. RunIn(g, t) \in SUBSET (1 .. n + 1) /\ RunIn(h, t) \in SUBSET (1 .. n)
  BY <1>1 DEF RunIn
<1>3. ~ (n + 1 \in RunIn(g, t))
  <2>1. t < n + 1 /\ b \in 1 .. n + 1 /\ b >= t /\ b <= n + 1
    BY <1>1
  <2>2. g[b] # "silence"
    OBVIOUS
  <2> HIDE DEF g, n
  <2> QED
    BY <1>1, <2>1, <2>2 DEF RunIn
<1>4. ASSUME NEW u \in 1 .. n PROVE u \in RunIn(g, t) <=> u \in RunIn(h, t)
  <2> DEFINE Between(v) == v >= (IF t < u THEN t ELSE u) /\ v <= (IF t < u THEN u ELSE t)
  <2>1. \A v \in 1 .. n + 1 : Between(v) => v \in 1 .. n
    BY <1>1
  <2>2. 1 .. n \subseteq 1 .. n + 1
    BY <1>1
  <2>3. u \in RunIn(g, t) <=> \A v \in 1 .. n + 1 : Between(v) => g[v] = "silence"
    <3> HIDE DEF g, n
    <3> QED
      BY <1>1, <2>2 DEF RunIn
  <2>4. u \in RunIn(h, t) <=> \A v \in 1 .. n : Between(v) => h[v] = "silence"
    <3> HIDE DEF g, n
    <3> QED
      BY <1>1 DEF RunIn
  <2> HIDE DEF g, n, Between
  <2> QED
    BY <1>1, <2>1, <2>2, <2>3, <2>4
<1>5. RunIn(g, t) = RunIn(h, t)
  <2>1. ASSUME NEW u PROVE u \in RunIn(g, t) <=> u \in RunIn(h, t)
    <3>1. u \in RunIn(g, t) => u \in 1 .. n
      <4>1. u \in 1 .. n + 1 /\ u # n + 1 => u \in 1 .. n
        BY <1>1
      <4> HIDE DEF g, n
      <4> QED
        BY <1>2, <1>3, <4>1
    <3> HIDE DEF g, n
    <3> QED
      BY <1>2, <1>4, <3>1
  <2> HIDE DEF g
  <2> QED
    BY <2>1
<1>6. g[t] = h[t]
  BY <1>1
<1>7. ASSUME h[t] = "silence", FirstOf(RunIn(h, t)) # 1
      PROVE  g[FirstOf(RunIn(h, t)) - 1] = h[FirstOf(RunIn(h, t)) - 1]
  <2>1. t \in RunIn(h, t)
    <3>1. \A v \in 1 .. n : v >= t /\ v <= t => v = t
      BY <1>1
    <3> HIDE DEF g, n
    <3> QED
      BY <1>1, <1>7, <3>1 DEF RunIn
  <2>2. FirstOf(RunIn(h, t)) \in RunIn(h, t)
    <3> HIDE DEF g, n
    <3> QED
      BY <1>1, <1>2, <2>1, RunEnds
  <2>3. PICK f \in 1 .. n : f = FirstOf(RunIn(h, t))
    BY <1>2, <2>2
  <2>4. f - 1 \in 1 .. n
    BY <1>1, <1>7, <2>3
  <2> HIDE DEF g, n
  <2> QED
    BY <1>1, <2>3, <2>4
<1> HIDE DEF g, n
<1>8. OwnerIn(g, t) = OwnerIn(h, t)
  BY <1>5, <1>6, <1>7 DEF OwnerIn
<1> QED
  BY <1>8 DEF g

(* The owner of the frames of a silence that goes on to the end.            *)
LEMMA OwnerOfTail ==
  ASSUME NEW h \in Seq(Speakers), NEW a \in 1 .. Len(h), NEW t \in a .. Len(h),
         \A u \in a .. Len(h) : h[u] = "silence",
         a = 1 \/ h[a - 1] # "silence"
  PROVE  OwnerIn(h, t) = IF Len(h) - a >= SpeakerChangeGap \/ a = 1 THEN "silence" ELSE h[a - 1]
<1> DEFINE n == Len(h)
<1>1. n \in Nat /\ DOMAIN h = 1 .. n /\ t \in 1 .. n /\ n \in a .. n /\ a \in a .. n
  OBVIOUS
<1>2. ASSUME NEW u \in a .. n PROVE u \in RunIn(h, t)
  <2>1. u \in 1 .. n
    BY <1>1
  <2>2. ASSUME NEW v \in 1 .. n, v >= (IF t < u THEN t ELSE u), v <= (IF t < u THEN u ELSE t)
        PROVE  h[v] = "silence"
    <3>1. v \in a .. n
      BY <1>1, <2>2
    <3> QED
      BY <3>1
  <2> HIDE DEF n
  <2> QED
    BY <1>1, <2>1, <2>2 DEF RunIn
<1>3. ASSUME NEW u \in RunIn(h, t) PROVE u \in a .. n
  <2>1. u \in 1 .. n
    BY <1>1 DEF RunIn
  <2> SUFFICES ASSUME u < a PROVE FALSE
    BY <1>1, <2>1
  <2>2. a # 1 /\ a - 1 \in 1 .. n /\ a - 1 >= u /\ a - 1 <= t /\ u < t
    BY <1>1, <2>1
  <2>3. h[a - 1] = "silence"
    <3> HIDE DEF n
    <3> QED
      BY <1>1, <2>1, <2>2 DEF RunIn
  <2> QED
    BY <2>2, <2>3
<1>4. RunIn(h, t) \in SUBSET (1 .. n) /\ RunIn(h, t) # {}
  <2> HIDE DEF n
  <2> QED
    BY <1>1, <1>2 DEF RunIn
<1>5. /\ FirstOf(RunIn(h, t)) \in RunIn(h, t) /\ LastOf(RunIn(h, t)) \in RunIn(h, t)
      /\ \A v \in RunIn(h, t) : FirstOf(RunIn(h, t)) <= v /\ v <= LastOf(RunIn(h, t))
  <2> HIDE DEF n
  <2> QED
    BY <1>1, <1>4, RunEnds
<1>6. FirstOf(RunIn(h, t)) = a
  <2>1. PICK f \in 1 .. n : f = FirstOf(RunIn(h, t))
    BY <1>4, <1>5
  <2>2. f \in a .. n /\ f <= a
    <3> HIDE DEF n
    <3> QED
      BY <1>1, <1>2, <1>3, <1>5, <2>1
  <2> QED
    BY <1>1, <2>1, <2>2
<1>7. LastOf(RunIn(h, t)) = n
  <2>1. PICK l \in 1 .. n : l = LastOf(RunIn(h, t))
    BY <1>4, <1>5
  <2>2. l \in a .. n /\ n <= l
    <3> HIDE DEF n
    <3> QED
      BY <1>1, <1>2, <1>3, <1>5, <2>1
  <2> QED
    BY <1>1, <2>1, <2>2
<1>8. h[t] = "silence"
  OBVIOUS
<1> QED
  BY <1>6, <1>7, <1>8 DEF OwnerIn

Segments == [speaker : Speakers, start : Int, end : Int]

(* The segments with the one in hand, as if it ended at e.                  *)
Closed(segs, cur, e) == Append(segs, [speaker |-> cur.speaker, start |-> cur.start, end |-> e])

(* The segments of a session that began at s0 are what its labels say.      *)
Matches(all, h, s0) ==
  /\ all[1].start = s0
  /\ \A i \in 1 .. Len(all) - 1 : all[i].end = all[i + 1].start /\ all[i].speaker # all[i + 1].speaker
  /\ \A t \in DOMAIN h : \E i \in DOMAIN all :
       all[i].start <= s0 + t - 1 /\ s0 + t - 1 < all[i].end /\ all[i].speaker = OwnerIn(h, t)

(* What closing the segment in hand yields. *)
LEMMA ClosedSegments ==
  ASSUME NEW segs \in Seq(Segments), NEW cur, NEW e
  PROVE  /\ Len(segs) \in Nat /\ Len(Closed(segs, cur, e)) = Len(segs) + 1
         /\ DOMAIN Closed(segs, cur, e) = 1 .. Len(segs) + 1
         /\ \A i \in 1 .. Len(segs) : Closed(segs, cur, e)[i] = segs[i]
         /\ Closed(segs, cur, e)[Len(segs) + 1].speaker = cur.speaker
         /\ Closed(segs, cur, e)[Len(segs) + 1].start = cur.start
         /\ Closed(segs, cur, e)[Len(segs) + 1].end = e
<1> DEFINE r == [speaker |-> cur.speaker, start |-> cur.start, end |-> e]
           S == Segments \cup {r}
<1>1. segs \in Seq(S) /\ r \in S /\ Closed(segs, cur, e) = Append(segs, r)
  BY DEF Closed
<1>2. /\ Len(segs) \in Nat /\ Len(Append(segs, r)) = Len(segs) + 1
      /\ DOMAIN Append(segs, r) = 1 .. Len(segs) + 1
      /\ \A i \in 1 .. Len(segs) : Append(segs, r)[i] = segs[i]
      /\ Append(segs, r)[Len(segs) + 1] = r
  <2> HIDE DEF r, S
  <2> QED
    BY <1>1
<1>3. r.speaker = cur.speaker /\ r.start = cur.start /\ r.end = e
  OBVIOUS
<1> HIDE DEF r, S
<1> QED
  BY <1>1, <1>2, <1>3, Zenon

(* And of what type. *)
LEMMA ClosedType ==
  ASSUME NEW segs \in Seq(Segments), NEW cur \in [speaker : Speakers, start : Int], NEW e \in Int
  PROVE  Closed(segs, cur, e) \in Seq(Segments)
<1>1. [speaker |-> cur.speaker, start |-> cur.start, end |-> e] \in Segments
  BY DEF Segments
<1> QED
  BY <1>1 DEF Closed

(* The segment in hand goes on with another frame of its speaker's.         *)
LEMMA StaysMatches ==
  ASSUME NEW segs \in Seq(Segments), NEW cur \in [speaker : Speakers, start : Int],
         NEW h \in Seq(Speakers), NEW x \in Speakers, NEW s0 \in Int, NEW c \in Int,
         c = s0 + Len(h), cur.start <= c,
         Matches(Closed(segs, cur, c), h, s0),
         \A t \in 1 .. Len(h) : OwnerIn(Append(h, x), t) = OwnerIn(h, t),
         OwnerIn(Append(h, x), Len(h) + 1) = cur.speaker
  PROVE  Matches(Closed(segs, cur, c + 1), Append(h, x), s0)
<1> DEFINE k == Len(segs)
           n == Len(h)
           old == Closed(segs, cur, c)
           new == Closed(segs, cur, c + 1)
<1>1. /\ k \in Nat /\ Len(old) = k + 1 /\ Len(new) = k + 1
      /\ DOMAIN old = 1 .. k + 1 /\ DOMAIN new = 1 .. k + 1
      /\ \A i \in 1 .. k : old[i] = segs[i] /\ new[i] = segs[i]
      /\ old[k + 1].speaker = cur.speaker /\ old[k + 1].start = cur.start /\ old[k + 1].end = c
      /\ new[k + 1].speaker = cur.speaker /\ new[k + 1].start = cur.start /\ new[k + 1].end = c + 1
  BY ClosedSegments
<1>2. n \in Nat /\ DOMAIN h = 1 .. n /\ DOMAIN Append(h, x) = 1 .. n + 1 /\ c = s0 + n
  OBVIOUS
<1> HIDE DEF k, n, old, new
<1>3. \A i \in 1 .. k + 1 :
        /\ new[i].start = old[i].start /\ new[i].speaker = old[i].speaker
        /\ i <= k => new[i].end = old[i].end
  <2>1. \A i \in 1 .. k + 1 : i \in 1 .. k \/ i = k + 1
    BY <1>1
  <2>2. ~ (k + 1 <= k)
    BY <1>1
  <2> QED
    BY <1>1, <2>1, <2>2
<1>4. /\ old[1].start = s0
      /\ \A i \in 1 .. k : old[i].end = old[i + 1].start /\ old[i].speaker # old[i + 1].speaker
      /\ \A t \in 1 .. n : \E i \in 1 .. k + 1 :
           old[i].start <= s0 + t - 1 /\ s0 + t - 1 < old[i].end /\ old[i].speaker = OwnerIn(h, t)
  <2>1. 1 .. Len(old) - 1 = 1 .. k
    BY <1>1
  <2> QED
    BY <1>1, <1>2, <2>1 DEF Matches, old
<1>5. new[1].start = s0
  <2>1. 1 \in 1 .. k + 1
    BY <1>1
  <2> QED
    BY <1>3, <1>4, <2>1
<1>6. ASSUME NEW i \in 1 .. Len(new) - 1
      PROVE  new[i].end = new[i + 1].start /\ new[i].speaker # new[i + 1].speaker
  <2>1. i \in 1 .. k /\ i \in 1 .. k + 1 /\ i + 1 \in 1 .. k + 1 /\ i <= k
    BY <1>1
  <2> QED
    BY <1>3, <1>4, <2>1
<1>7. ASSUME NEW t \in 1 .. n + 1
      PROVE  \E i \in 1 .. k + 1 :
               new[i].start <= s0 + t - 1 /\ s0 + t - 1 < new[i].end
               /\ new[i].speaker = OwnerIn(Append(h, x), t)
  <2>1. CASE t = n + 1
    <3>1. k + 1 \in 1 .. k + 1 /\ cur.start <= s0 + t - 1 /\ s0 + t - 1 < c + 1
      BY <1>1, <1>2, <2>1
    <3> QED
      BY <1>1, <2>1, <3>1 DEF n
  <2>2. CASE t # n + 1
    <3>1. t \in 1 .. n /\ s0 + t - 1 < c /\ c < c + 1
      BY <1>2, <2>2
    <3>2. PICK i \in 1 .. k + 1 :
            old[i].start <= s0 + t - 1 /\ s0 + t - 1 < old[i].end /\ old[i].speaker = OwnerIn(h, t)
      BY <1>4, <3>1
    <3>3. s0 + t - 1 < new[i].end
      <4>1. CASE i = k + 1
        BY <1>1, <1>2, <3>1, <4>1
      <4>2. CASE i # k + 1
        <5>1. i <= k
          BY <1>1, <4>2
        <5> QED
          BY <1>3, <3>2, <5>1
      <4> QED
        BY <4>1, <4>2
    <3>4. OwnerIn(Append(h, x), t) = OwnerIn(h, t)
      BY <3>1 DEF n
    <3> QED
      BY <1>3, <3>2, <3>3, <3>4
  <2> QED
    BY <2>1, <2>2
<1>8. Matches(new, Append(h, x), s0)
  BY <1>1, <1>2, <1>5, <1>6, <1>7 DEF Matches
<1> QED
  BY <1>8 DEF new

(* The segment in hand ends at e, and that of y begins there, with every    *)
(* frame from e on.                                                         *)
LEMMA TurnMatches ==
  ASSUME NEW segs \in Seq(Segments), NEW cur \in [speaker : Speakers, start : Int],
         NEW h \in Seq(Speakers), NEW x \in Speakers, NEW s0 \in Int, NEW c \in Int,
         NEW y \in Speakers, NEW a \in 1 .. Len(h) + 1,
         NEW e, e = s0 + a - 1, NEW next, next = [speaker |-> y, start |-> e],
         c = s0 + Len(h), cur.speaker # y,
         Matches(Closed(segs, cur, c), h, s0),
         \A t \in 1 .. a - 1 : OwnerIn(Append(h, x), t) = OwnerIn(h, t),
         \A t \in a .. Len(h) + 1 : OwnerIn(Append(h, x), t) = y
  PROVE  Matches(Closed(Closed(segs, cur, e), next, c + 1), Append(h, x), s0)
<1> DEFINE k == Len(segs)
           n == Len(h)
           old == Closed(segs, cur, c)
           ended == Closed(segs, cur, e)
           new == Closed(ended, next, c + 1)
<1>1. /\ k \in Nat /\ Len(old) = k + 1 /\ DOMAIN old = 1 .. k + 1
      /\ \A i \in 1 .. k : old[i] = segs[i]
      /\ old[k + 1].speaker = cur.speaker /\ old[k + 1].start = cur.start /\ old[k + 1].end = c
  BY ONLY ClosedSegments
<1>2. /\ e \in Int /\ ended \in Seq(Segments) /\ Len(ended) = k + 1
      /\ \A i \in 1 .. k : ended[i] = segs[i]
      /\ ended[k + 1].speaker = cur.speaker /\ ended[k + 1].start = cur.start /\ ended[k + 1].end = e
  <2>1. e \in Int
    OBVIOUS
  <2>2. ended \in Seq(Segments)
    BY <2>1, ClosedType
  <2> QED
    BY ONLY <2>1, <2>2, ClosedSegments
<1>3. /\ Len(new) = k + 2 /\ DOMAIN new = 1 .. k + 2
      /\ \A i \in 1 .. k + 1 : new[i] = ended[i]
      /\ new[k + 2].speaker = y /\ new[k + 2].start = e /\ new[k + 2].end = c + 1
  <2>1. next.speaker = y /\ next.start = e
    OBVIOUS
  <2>2. k + 1 + 1 = k + 2 /\ Len(ended) = k + 1
    BY <1>1, <1>2
  <2>3. ended \in Seq(Segments)
    BY <1>2
  <2> HIDE DEF ended, k
  <2>4. /\ Len(new) = Len(ended) + 1 /\ DOMAIN new = 1 .. Len(ended) + 1
        /\ \A i \in 1 .. Len(ended) : new[i] = ended[i]
        /\ new[Len(ended) + 1].speaker = next.speaker /\ new[Len(ended) + 1].start = next.start
        /\ new[Len(ended) + 1].end = c + 1
    BY ONLY <2>3, ClosedSegments
  <2> HIDE DEF new
  <2> QED
    BY ONLY <2>1, <2>2, <2>4
<1>4. n \in Nat /\ DOMAIN h = 1 .. n /\ DOMAIN Append(h, x) = 1 .. n + 1 /\ c = s0 + n /\ e = s0 + a - 1
  OBVIOUS
<1> HIDE DEF k, n, old, ended, new
<1>5. \A i \in 1 .. k + 1 :
        /\ new[i].start = old[i].start /\ new[i].speaker = old[i].speaker
        /\ i <= k => new[i].end = old[i].end
  <2>1. \A i \in 1 .. k + 1 : i \in 1 .. k \/ i = k + 1
    BY <1>1
  <2>2. ~ (k + 1 <= k)
    BY <1>1
  <2> QED
    BY <1>1, <1>2, <1>3, <2>1, <2>2
<1>6. new[k + 1].end = e
  <2>1. k + 1 \in 1 .. k + 1
    BY <1>1
  <2> QED
    BY <1>2, <1>3, <2>1
<1>7. /\ old[1].start = s0
      /\ \A i \in 1 .. k : old[i].end = old[i + 1].start /\ old[i].speaker # old[i + 1].speaker
      /\ \A t \in 1 .. n : \E i \in 1 .. k + 1 :
           old[i].start <= s0 + t - 1 /\ s0 + t - 1 < old[i].end /\ old[i].speaker = OwnerIn(h, t)
  <2>1. 1 .. Len(old) - 1 = 1 .. k
    BY <1>1
  <2> QED
    BY <1>1, <1>4, <2>1 DEF Matches, old
<1>8. new[1].start = s0
  <2>1. 1 \in 1 .. k + 1
    BY <1>1
  <2> QED
    BY <1>5, <1>7, <2>1
<1>9. ASSUME NEW i \in 1 .. Len(new) - 1
      PROVE  new[i].end = new[i + 1].start /\ new[i].speaker # new[i + 1].speaker
  <2>1. CASE i = k + 1
    <3>1. i + 1 = k + 2 /\ k + 1 \in 1 .. k + 1
      BY ONLY <1>1, <2>1
    <3>2. new[k + 1].speaker = cur.speaker
      BY <1>1, <1>5, <3>1
    <3> QED
      BY <1>3, <1>6, <2>1, <3>1, <3>2, Zenon
  <2>2. CASE i # k + 1
    <3>0. Len(new) - 1 = k + 1
      BY ONLY <1>1, <1>3
    <3>1. i \in 1 .. k /\ i \in 1 .. k + 1 /\ i + 1 \in 1 .. k + 1 /\ i <= k
      <4>1. i \in 1 .. k + 1
        BY <3>0, Zenon
      <4> QED
        BY ONLY <1>1, <2>2, <4>1
    <3> QED
      BY <1>5, <1>7, <3>1
  <2> QED
    BY <2>1, <2>2
<1>10. ASSUME NEW t \in 1 .. n + 1
      PROVE  \E i \in 1 .. k + 2 :
               new[i].start <= s0 + t - 1 /\ s0 + t - 1 < new[i].end
               /\ new[i].speaker = OwnerIn(Append(h, x), t)
  <2>1. CASE t >= a
    <3>1. k + 2 \in 1 .. k + 2 /\ e <= s0 + t - 1 /\ s0 + t - 1 < c + 1 /\ t \in a .. n + 1
      BY <1>1, <1>4, <2>1
    <3> QED
      BY <1>3, <3>1 DEF n
  <2>2. CASE t < a
    <3>1. t \in 1 .. n /\ t \in 1 .. a - 1 /\ s0 + t - 1 < e
      <4>1. a \in 1 .. n + 1
        BY ONLY a \in 1 .. Len(h) + 1 DEF n
      <4> QED
        BY ONLY <1>4, <2>2, <4>1
    <3>2. PICK i \in 1 .. k + 1 :
            old[i].start <= s0 + t - 1 /\ s0 + t - 1 < old[i].end /\ old[i].speaker = OwnerIn(h, t)
      BY ONLY <1>7, <3>1
    <3>3. i \in 1 .. k + 2
      BY ONLY <1>1
    <3>4. s0 + t - 1 < new[i].end
      <4>1. CASE i = k + 1
        BY ONLY <1>6, <3>1, <4>1
      <4>2. CASE i # k + 1
        <5>1. i <= k
          BY <1>1, <4>2
        <5> QED
          BY <1>5, <3>2, <5>1
      <4> QED
        BY <4>1, <4>2
    <3>5. OwnerIn(Append(h, x), t) = OwnerIn(h, t)
      BY <3>1
    <3> QED
      BY <1>5, <3>2, <3>3, <3>4, <3>5
  <2> QED
    BY <1>4, <2>1, <2>2
<1>11. Matches(new, Append(h, x), s0)
  <2>1. \A t \in DOMAIN Append(h, x) : \E i \in DOMAIN new :
               new[i].start <= s0 + t - 1 /\ s0 + t - 1 < new[i].end
               /\ new[i].speaker = OwnerIn(Append(h, x), t)
    BY <1>3, <1>4, <1>10
  <2> QED
    BY <1>8, <1>9, <2>1, Zenon DEF Matches
<1> QED
  BY <1>11 DEF new, ended

(* The lengths of segments that follow each other without a gap add up to   *)
(* the time from the first to the last.                                     *)
LEMMA SumOfSegments ==
  ASSUME NEW q \in Seq(Segments),
         \A i \in 1 .. Len(q) - 1 : q[i].end = q[i + 1].start
  PROVE  FoldLeft(LAMBDA n, s : n + s.end - s.start, 0, q)
         = IF Len(q) = 0 THEN 0 ELSE q[Len(q)].end - q[1].start
<1> DEFINE iter == CHOOSE g : IsFold(g, "sum", q, 0, Len(q))
           T == {k \in 1 .. Len(q) : iter[1 .. k] # q[k].end - q[1].start}
<1>1. Len(q) \in Nat /\ DOMAIN q = 1 .. Len(q)
  OBVIOUS
<1>2. FoldLeft(LAMBDA n, s : n + s.end - s.start, 0, q) = iter[DOMAIN q]
  BY <1>1 DEF FoldLeft, MapThenFoldSet, IsFold, FoldStep
<1>3. \A i \in 1 .. Len(q) : q[i].start \in Int /\ q[i].end \in Int
  <2>1. \A i \in 1 .. Len(q) : q[i] \in Segments
    OBVIOUS
  <2> QED
    BY <2>1 DEF Segments
<1>4. IsFold(iter, "sum", q, 0, Len(q))
  <2>1. \E g : IsFold(g, "sum", q, 0, Len(q))
    BY <1>1, FoldExists
  <2> QED
    BY <2>1, Zenon
<1> HIDE DEF iter
<1>5. iter[{}] = 0
  BY <1>1, <1>4, FoldTakes
<1>6. ASSUME NEW k \in 1 .. Len(q) PROVE iter[1 .. k] = iter[1 .. k - 1] + q[k].end - q[k].start
  <2>1. iter[1 .. k] = FoldStep("sum", q, k, iter[1 .. k - 1])
    BY <1>1, <1>4, FoldTakes
  <2> QED
    BY <2>1 DEF FoldStep
<1>7. T = {}
  <2> SUFFICES ASSUME T # {} PROVE FALSE
    OBVIOUS
  <2>1. PICK k \in T : \A m \in T : k <= m
    <3>1. T \in SUBSET Nat
      <4> HIDE DEF iter
      <4> QED
        BY <1>1
    <3> HIDE DEF T
    <3> QED
      BY <3>1, LeastElement
  <2> HIDE DEF iter
  <2>2. k \in 1 .. Len(q) /\ iter[1 .. k] # q[k].end - q[1].start
    OBVIOUS
  <2>3. CASE k = 1
    <3>1. 1 .. k - 1 = {}
      BY <2>3
    <3>2. iter[1 .. k] = 0 + q[1].end - q[1].start
      BY <1>5, <1>6, <2>2, <2>3, <3>1, Zenon
    <3> QED
      BY <1>1, <1>3, <2>2, <2>3, <3>2
  <2>4. CASE k # 1
    <3>1. k - 1 \in 1 .. Len(q) /\ k - 1 \in 1 .. Len(q) - 1 /\ k - 1 < k /\ k - 1 + 1 = k
      BY <1>1, <2>2, <2>4
    <3>2. ~ (k - 1 \in T)
      <4> HIDE DEF T
      <4> QED
        BY <1>1, <2>1, <2>2, <3>1
    <3>3. iter[1 .. k - 1] = q[k - 1].end - q[1].start /\ q[k - 1].end = q[k].start
      BY <3>1, <3>2
    <3>4. iter[1 .. k] = (q[k].start - q[1].start) + q[k].end - q[k].start
      BY <1>6, <2>2, <3>3, Zenon
    <3>5. 1 \in 1 .. Len(q)
      BY <1>1, <2>2
    <3> QED
      BY <1>3, <2>2, <3>4, <3>5
  <2> QED
    BY <2>3, <2>4
<1>8. CASE Len(q) = 0
  <2>1. DOMAIN q = {}
    BY <1>1, <1>8
  <2> HIDE DEF iter
  <2> QED
    BY <1>2, <1>5, <1>8, <2>1, Zenon
<1>9. CASE Len(q) # 0
  <2>1. Len(q) \in 1 .. Len(q)
    BY <1>1, <1>9
  <2>2. iter[1 .. Len(q)] = q[Len(q)].end - q[1].start
    <3> HIDE DEF iter
    <3> QED
      BY <1>7, <2>1
  <2> HIDE DEF iter
  <2> QED
    BY <1>2, <1>1, <1>9, <2>2, Zenon
<1> QED
  BY <1>8, <1>9

(* A silence that goes on to the last label began at a.                     *)
TailFrom(h, a) ==
  /\ a \in 1 .. Len(h) /\ \A u \in a .. Len(h) : h[u] = "silence"
  /\ a = 1 \/ h[a - 1] # "silence"

(* What ProcessFrame keeps: the segments, the one in hand and the start of  *)
(* the silence, as the labels h of a session begun at s0 make them by c.    *)
FrameState(segs, cur, sil, s0, c, h) ==
  /\ c = s0 + Len(h) /\ cur.start \in s0 .. c
  /\ Matches(Closed(segs, cur, c), h, s0)
  /\ IF Len(h) = 0 THEN cur.speaker = "silence" /\ sil = -1
     ELSE /\ cur.speaker = OwnerIn(h, Len(h))
          /\ IF h[Len(h)] # "silence" THEN sil = -1 ELSE TailFrom(h, sil - s0 + 1)

(* A frame of speech. *)
LEMMA SpeechFrame ==
  ASSUME NEW segs \in Seq(Segments), NEW cur \in [speaker : Speakers, start : Int],
         NEW sil \in Int, NEW s0 \in Nat, NEW c \in Int, NEW h \in Seq(Speakers),
         FrameState(segs, cur, sil, s0, c, h), NEW x \in Speakers, x # "silence"
  PROVE  /\ cur.speaker = x => FrameState(segs, cur, -1, s0, c + 1, Append(h, x))
         /\ cur.speaker # x => FrameState(Closed(segs, cur, c), [speaker |-> x, start |-> c], -1,
                                          s0, c + 1, Append(h, x))
<1> DEFINE n == Len(h)
           g == Append(h, x)
<1>1. /\ n \in Nat /\ Len(g) = n + 1 /\ g[n + 1] = x /\ c = s0 + n
      /\ cur.start >= s0 /\ cur.start <= c /\ cur.start \in Int
  BY DEF FrameState
<1>2. Matches(Closed(segs, cur, c), h, s0)
  BY DEF FrameState
<1>3. ASSUME NEW t \in 1 .. n PROVE OwnerIn(g, t) = OwnerIn(h, t)
  <2>1. n + 1 \in t .. Len(h) + 1 /\ g[Len(h) + 1] # "silence" /\ n + 1 = Len(h) + 1
    BY <1>1
  <2> QED
    BY <2>1, OwnerKept
<1>4. OwnerIn(g, n + 1) = x
  BY <1>1 DEF OwnerIn
<1>5. CASE cur.speaker = x
  <2>1. Matches(Closed(segs, cur, c + 1), g, s0)
    BY <1>1, <1>2, <1>3, <1>4, <1>5, StaysMatches
  <2>2. Len(g) # 0 /\ c + 1 = s0 + Len(g) /\ cur.start \in s0 .. c + 1 /\ g[Len(g)] # "silence"
    BY <1>1
  <2> HIDE DEF g, n
  <2>3. FrameState(segs, cur, -1, s0, c + 1, g)
    BY <1>1, <1>4, <1>5, <2>1, <2>2, Zenon DEF FrameState
  <2> QED
    BY <1>5, <2>3 DEF g
<1>6. CASE cur.speaker # x
  <2> DEFINE next == [speaker |-> x, start |-> c]
             segs2 == Closed(segs, cur, c)
  <2>1. Matches(Closed(segs2, next, c + 1), g, s0)
    <3>1. PICK a \in 1 .. Len(h) + 1 : a = Len(h) + 1
      BY <1>1
    <3>2. \A t \in 1 .. a - 1 : OwnerIn(g, t) = OwnerIn(h, t)
      <4>1. 1 .. a - 1 = 1 .. n
        BY <1>1, <3>1
      <4> QED
        BY <1>3, <4>1
    <3>3. \A t \in a .. Len(h) + 1 : OwnerIn(g, t) = x
      <4>1. \A t \in a .. Len(h) + 1 : t = n + 1
        BY <1>1, <3>1
      <4> QED
        BY <1>4, <4>1
    <3>4. s0 + a - 1 = c
      BY <1>1, <3>1
    <3>5. next = [speaker |-> x, start |-> c]
      OBVIOUS
    <3> HIDE DEF next
    <3>6. Matches(Closed(Closed(segs, cur, c), next, c + 1), Append(h, x), s0)
      BY ONLY <1>1, <1>2, <1>6, <3>2, <3>3, <3>4, <3>5, TurnMatches
    <3> QED
      BY <3>6
  <2>2. /\ Len(g) # 0 /\ c + 1 = s0 + Len(g) /\ g[Len(g)] # "silence"
        /\ next.start \in s0 .. c + 1 /\ next.speaker = x
    BY <1>1
  <2> HIDE DEF g, n, next, segs2
  <2>3. FrameState(segs2, next, -1, s0, c + 1, g)
    BY <1>1, <1>4, <2>1, <2>2, Zenon DEF FrameState
  <2> QED
    BY <1>6, <2>3 DEF g, next, segs2
<1> QED
  BY <1>5, <1>6

(* A frame of silence, of a silence known since s.                          *)
LEMMA SilenceFrame ==
  ASSUME NEW segs \in Seq(Segments), NEW cur \in [speaker : Speakers, start : Int],
         NEW sil \in Int, NEW s0 \in Nat, NEW c \in Int, NEW h \in Seq(Speakers),
         FrameState(segs, cur, sil, s0, c, h),
         NEW s, s = IF sil < 0 THEN c ELSE sil
  PROVE  /\ s \in s0 .. c
         /\ ~ (c - s >= SpeakerChangeGap /\ cur.speaker # "silence") =>
              FrameState(segs, cur, s, s0, c + 1, Append(h, "silence"))
         /\ c - s >= SpeakerChangeGap /\ cur.speaker # "silence" =>
              FrameState(Closed(segs, cur, s), [speaker |-> "silence", start |-> s], s,
                         s0, c + 1, Append(h, "silence"))
<1> DEFINE n == Len(h)
           g == Append(h, "silence")
           a == s - s0 + 1
<1>1. /\ n \in Nat /\ Len(g) = n + 1 /\ g[n + 1] = "silence" /\ c = s0 + n
      /\ cur.start >= s0 /\ cur.start <= c /\ cur.start \in Int
      /\ \A u \in 1 .. n : g[u] = h[u]
      /\ g \in Seq(Speakers) /\ "silence" \in Speakers
  BY DEF FrameState, Speakers
<1>2. Matches(Closed(segs, cur, c), h, s0)
  BY DEF FrameState
<1>3. /\ a \in 1 .. n + 1 /\ s = s0 + a - 1 /\ TailFrom(g, a)
      /\ n = 0 => cur.speaker = "silence" /\ a = 1
      /\ a = n + 1 /\ n # 0 => cur.speaker = h[n] /\ cur.speaker # "silence"
      /\ a <= n => TailFrom(h, a)
  <2>1. CASE n = 0
    <3>1. sil = -1 /\ cur.speaker = "silence"
      BY <2>1 DEF FrameState
    <3>2. s = c /\ a = 1
      BY <1>1, <2>1, <3>1
    <3>3. TailFrom(g, 1)
      BY <1>1, <2>1 DEF TailFrom
    <3> QED
      BY <1>1, <2>1, <3>1, <3>2, <3>3
  <2>2. CASE n # 0 /\ h[n] # "silence"
    <3>1. sil = -1 /\ cur.speaker = OwnerIn(h, n)
      BY <2>2 DEF FrameState
    <3>2. cur.speaker = h[n]
      BY <2>2, <3>1 DEF OwnerIn
    <3>3. s = c /\ a = n + 1
      BY <1>1, <3>1
    <3>4. TailFrom(g, n + 1)
      <4>1. PICK m : m = n + 1
        OBVIOUS
      <4>2. m \in 1 .. Len(g) /\ m - 1 = n /\ n \in 1 .. n
        BY <1>1, <2>2, <4>1
      <4>3. ASSUME NEW u \in m .. Len(g) PROVE g[u] = "silence"
        <5>1. u = n + 1
          BY <1>1, <4>1
        <5> QED
          BY <1>1, <5>1
      <4> HIDE DEF g, n
      <4>4. TailFrom(g, m)
        BY <1>1, <2>2, <4>2, <4>3 DEF TailFrom
      <4> QED
        BY <4>1, <4>4
    <3> QED
      BY <1>1, <2>2, <3>2, <3>3, <3>4
  <2>3. CASE n # 0 /\ h[n] = "silence"
    <3>1. TailFrom(h, sil - s0 + 1)
      BY <2>3 DEF FrameState
    <3>2. sil - s0 + 1 \in 1 .. n
      BY <3>1 DEF TailFrom
    <3>3. s = sil /\ a = sil - s0 + 1 /\ a \in 1 .. n
      BY <1>1, <3>2
    <3>4. TailFrom(h, a)
      BY <3>1, <3>3
    <3>5. TailFrom(g, a)
      <4>1. a \in 1 .. Len(g) /\ (a # 1 => a - 1 \in 1 .. n)
        BY <1>1, <3>3
      <4>2. \A u \in a .. Len(g) : u \in a .. n \/ u = n + 1
        BY <1>1, <3>3
      <4>3. \A u \in a .. n : u \in 1 .. n
        BY <1>1, <3>3
      <4>4. /\ \A u \in a .. n : h[u] = "silence"
            /\ a = 1 \/ h[a - 1] # "silence"
        BY <3>4 DEF TailFrom
      <4> HIDE DEF a, g, n
      <4> QED
        BY <1>1, <4>1, <4>2, <4>3, <4>4 DEF TailFrom
    <3>6. a \in 1 .. n + 1 /\ s = s0 + a - 1 /\ a # n + 1
      BY <1>1, <3>3
    <3> HIDE DEF a, g, n
    <3> QED
      BY <2>3, <3>4, <3>5, <3>6
  <2> QED
    BY <2>1, <2>2, <2>3
<1>4. s \in s0 .. c /\ c - s = n + 1 - a /\ a \in Int
  BY <1>1, <1>3
<1>5. ASSUME NEW t \in a .. n + 1
      PROVE  OwnerIn(g, t) = IF n + 1 - a >= SpeakerChangeGap \/ a = 1 THEN "silence" ELSE g[a - 1]
  <2>1. /\ a \in 1 .. Len(g) /\ t \in a .. Len(g) /\ Len(g) = n + 1
        /\ \A u \in a .. Len(g) : g[u] = "silence"
        /\ a = 1 \/ g[a - 1] # "silence"
    BY <1>1, <1>3 DEF TailFrom
  <2> HIDE DEF a, g, n
  <2>2. OwnerIn(g, t) = IF Len(g) - a >= SpeakerChangeGap \/ a = 1 THEN "silence" ELSE g[a - 1]
    BY <1>1, <2>1, OwnerOfTail
  <2> QED
    BY <1>1, <2>1, <2>2
<1>6. ASSUME NEW t \in 1 .. a - 1 PROVE OwnerIn(g, t) = OwnerIn(h, t)
  <2>1. a # 1 /\ a - 1 \in t .. Len(h) + 1 /\ t \in 1 .. Len(h)
    BY <1>1, <1>3
  <2>2. g[a - 1] # "silence"
    <3> HIDE DEF a, g
    <3> QED
      BY <1>3, <2>1 DEF TailFrom
  <2> HIDE DEF a
  <2> QED
    BY <1>1, <2>1, <2>2, OwnerKept
<1>7. ASSUME NEW t \in a .. n, a <= n
      PROVE  /\ OwnerIn(h, t) = IF n - a >= SpeakerChangeGap \/ a = 1 THEN "silence" ELSE h[a - 1]
             /\ OwnerIn(h, t) = cur.speaker
  <2>1. TailFrom(h, a) /\ n \in a .. n /\ n # 0
    BY <1>1, <1>3, <1>7
  <2> HIDE DEF a
  <2>2. \A v \in a .. n :
          OwnerIn(h, v) = IF n - a >= SpeakerChangeGap \/ a = 1 THEN "silence" ELSE h[a - 1]
    BY <2>1, OwnerOfTail DEF TailFrom
  <2>3. cur.speaker = OwnerIn(h, n)
    BY <2>1 DEF FrameState
  <2> QED
    BY <2>1, <2>2, <2>3
<1>8. ASSUME c - s >= SpeakerChangeGap, cur.speaker # "silence"
      PROVE  FrameState(Closed(segs, cur, s), [speaker |-> "silence", start |-> s], s, s0, c + 1, g)
  <2> DEFINE next == [speaker |-> "silence", start |-> s]
             segs2 == Closed(segs, cur, s)
  <2>1. Matches(Closed(segs2, next, c + 1), g, s0)
    <3>1. PICK b \in 1 .. Len(h) + 1 : b = a
      BY <1>3
    <3>2. PICK z \in Speakers : z = "silence"
      BY <1>1
    <3>3. \A t \in 1 .. b - 1 : OwnerIn(Append(h, z), t) = OwnerIn(h, t)
      BY <1>6, <3>1, <3>2
    <3>4. \A t \in b .. Len(h) + 1 : OwnerIn(Append(h, z), t) = z
      BY <1>4, <1>5, <1>8, <3>1, <3>2
    <3>5. s = s0 + b - 1 /\ c = s0 + Len(h) /\ cur.speaker # z
      BY <1>1, <1>3, <1>8, <3>1, <3>2
    <3>6. next = [speaker |-> z, start |-> s]
      BY <3>2
    <3> HIDE DEF next
    <3>7. Matches(Closed(Closed(segs, cur, s), next, c + 1), Append(h, z), s0)
      BY ONLY <1>2, <3>3, <3>4, <3>5, <3>6, TurnMatches
    <3> QED
      BY <3>2, <3>7
  <2>2. OwnerIn(g, n + 1) = "silence"
    <3>1. n + 1 \in a .. n + 1
      BY <1>1, <1>3
    <3> QED
      BY <1>4, <1>5, <1>8, <3>1
  <2>3. /\ Len(g) # 0 /\ c + 1 = s0 + Len(g) /\ g[Len(g)] = "silence" /\ Len(g) = n + 1
        /\ next.start \in s0 .. c + 1 /\ next.speaker = "silence"
    BY <1>1, <1>4
  <2>4. TailFrom(g, s - s0 + 1)
    BY <1>3
  <2> HIDE DEF g, n, a, next, segs2
  <2>5. FrameState(segs2, next, s, s0, c + 1, g)
    BY <2>1, <2>2, <2>3, <2>4, Zenon DEF FrameState
  <2> QED
    BY <2>5 DEF next, segs2
<1>9. ASSUME ~ (c - s >= SpeakerChangeGap /\ cur.speaker # "silence")
      PROVE  FrameState(segs, cur, s, s0, c + 1, g)
  <2>1. OwnerIn(g, n + 1) = cur.speaker
    <3>1. n + 1 \in a .. n + 1
      BY <1>1, <1>3
    <3>2. OwnerIn(g, n + 1) = IF c - s >= SpeakerChangeGap \/ a = 1 THEN "silence" ELSE g[a - 1]
      BY <1>4, <1>5, <3>1
    <3>3. CASE c - s >= SpeakerChangeGap
      BY <1>9, <3>2, <3>3
    <3>4. CASE ~ (c - s >= SpeakerChangeGap) /\ a <= n
      <4>1. n \in a .. n /\ ~ (n - a >= SpeakerChangeGap) /\ (a # 1 => a - 1 \in 1 .. n)
        <5> HIDE DEF a, g, n
        <5> QED
          BY <1>1, <1>3, <1>4, <3>4, DiarizerAssumption
      <4>2. cur.speaker = IF a = 1 THEN "silence" ELSE h[a - 1]
        <5> HIDE DEF a, n
        <5> QED
          BY <1>7, <3>4, <4>1
      <4> HIDE DEF a, n, g
      <4> QED
        BY <1>1, <3>2, <3>4, <4>1, <4>2
    <3>5. CASE ~ (c - s >= SpeakerChangeGap) /\ a = n + 1
      <4>1. CASE n = 0
        BY <1>3, <3>2, <3>5, <4>1
      <4>2. CASE n # 0
        <5>1. a # 1 /\ a - 1 = n /\ n \in 1 .. n
          BY <1>1, <3>5, <4>2
        <5> HIDE DEF a, n, g
        <5>2. OwnerIn(g, n + 1) = g[n]
          BY <3>2, <3>5, <5>1, Zenon
        <5>3. g[n] = cur.speaker
          BY <1>1, <1>3, <3>5, <4>2, <5>1
        <5> QED
          BY <5>2, <5>3
      <4> QED
        BY <4>1, <4>2
    <3>6. a <= n \/ a = n + 1
      <4> HIDE DEF a, g, n
      <4> QED
        BY <1>1, <1>3, <1>4
    <3> QED
      BY <3>3, <3>4, <3>5, <3>6
  <2>2. ASSUME NEW t \in 1 .. n PROVE OwnerIn(g, t) = OwnerIn(h, t)
    <3>1. CASE t < a
      <4>1. t \in 1 .. a - 1
        BY <1>1, <1>4, <3>1
      <4> QED
        BY <1>6, <4>1
    <3>2. CASE t >= a
      <4>1. t \in a .. n /\ t \in a .. n + 1 /\ n + 1 \in a .. n + 1 /\ a <= n
        BY <1>1, <1>4, <3>2
      <4>2. OwnerIn(g, t) = OwnerIn(g, n + 1)
        <5> HIDE DEF a, g, n
        <5> QED
          BY <1>5, <4>1
      <4>3. OwnerIn(h, t) = cur.speaker
        <5> HIDE DEF a, g, n
        <5> QED
          BY <1>7, <4>1
      <4> QED
        BY <2>1, <4>2, <4>3
    <3> QED
      BY <1>4, <3>1, <3>2
  <2>3. Matches(Closed(segs, cur, c + 1), g, s0)
    BY <1>1, <1>2, <2>1, <2>2, StaysMatches
  <2>4. /\ Len(g) # 0 /\ c + 1 = s0 + Len(g) /\ g[Len(g)] = "silence" /\ Len(g) = n + 1
        /\ cur.start \in s0 .. c + 1
    BY <1>1
  <2>5. TailFrom(g, s - s0 + 1)
    BY <1>3
  <2> HIDE DEF g, n, a
  <2> QED
    BY <2>1, <2>3, <2>4, <2>5, Zenon DEF FrameState
<1> QED
  BY <1>4, <1>8, <1>9

(* The owners of the model are those of the labels heard. *)
LEMMA Owners ==
  /\ \A t : Owner(t) = OwnerIn(heard, t)
  /\ \A t : Owner(t)' = OwnerIn(heard', t)
  /\ Owner(Len(heard))' = OwnerIn(heard', Len(heard'))
<1>1. ASSUME NEW t PROVE Owner(t) = OwnerIn(heard, t)
  BY Zenon DEF Owner, SilentRun, OwnerIn, RunIn, FirstOf, LastOf
<1>2. ASSUME NEW t PROVE Owner(t)' = OwnerIn(heard', t)
  BY Zenon DEF Owner, SilentRun, OwnerIn, RunIn, FirstOf, LastOf
<1>3. Owner(Len(heard))' = OwnerIn(heard', Len(heard'))
  BY Zenon DEF Owner, SilentRun, OwnerIn, RunIn, FirstOf, LastOf
<1> QED
  BY <1>1, <1>2, <1>3

(* What the types of the invariant say of the segments and the one in hand. *)
LEMMA DiarTypes ==
  ASSUME DiarTypeOK
  PROVE  /\ segments \in Seq(Segments) /\ current \in [speaker : Speakers, start : Int]
         /\ heard \in Seq(Speakers) /\ silStart \in Int /\ clock \in Nat /\ sessionStart \in Nat
<1>1. Times \subseteq Nat /\ Times \subseteq Int
  BY DiarizerAssumption DEF Times
<1>2. segments \in Seq(Segments)
  <2>1. ASSUME NEW r \in [speaker : Speakers, start : Times, end : Times] PROVE r \in Segments
    BY <1>1 DEF Segments
  <2>2. ASSUME NEW i \in 1 .. Len(segments) PROVE segments[i] \in Segments
    <3> DEFINE Rec == [speaker : Speakers, start : Times, end : Times]
    <3>1. segments \in Seq(Rec)
      BY DEF DiarTypeOK
    <3>2. segments[i] \in Rec
      <4> HIDE DEF Rec
      <4> QED
        BY <3>1
    <3> QED
      BY <2>1, <3>2, Zenon
  <2> QED
    BY <2>2 DEF DiarTypeOK
<1>3. current \in [speaker : Speakers, start : Int]
  BY <1>1 DEF DiarTypeOK
<1>4. heard \in Seq(Speakers) /\ silStart \in Int /\ clock \in Nat /\ sessionStart \in Nat
  BY <1>1 DEF DiarTypeOK
<1> QED
  BY <1>2, <1>3, <1>4

(* The session that a frame is heard in: the one begun, or one that begins. *)
LEMMA OpenSession ==
  ASSUME DiarInv,
         NEW s0, s0 = IF started THEN sessionStart ELSE clock,
         NEW open, open = IF started THEN current ELSE [current EXCEPT !.start = clock]
  PROVE  /\ s0 \in Nat /\ open \in [speaker : Speakers, start : Int]
         /\ FrameState(segments, open, silStart, s0, clock, heard)
<1> USE DEF DiarInv
<1>1. /\ segments \in Seq(Segments) /\ current \in [speaker : Speakers, start : Int]
      /\ heard \in Seq(Speakers) /\ silStart \in Int /\ clock \in Nat /\ sessionStart \in Nat
      /\ Len(heard) \in Nat /\ Len(segments) \in Nat
  BY DiarTypes
<1>2. CASE started
  <2>1. s0 = sessionStart /\ open = current /\ clock = s0 + Len(heard) /\ Len(heard) # 0
    BY <1>1, <1>2 DEF SessionKept
  <2>2. /\ current.start \in s0 .. clock /\ current.speaker = OwnerIn(heard, Len(heard))
        /\ IF heard[Len(heard)] # "silence" THEN silStart = -1 ELSE TailFrom(heard, silStart - s0 + 1)
    <3>1. current.speaker = Owner(Len(heard))
      BY <1>2 DEF SilenceTracked
    <3>2. current.speaker = OwnerIn(heard, Len(heard))
      BY <3>1, Owners, Zenon
    <3> QED
      BY <1>2, <2>1, <3>2 DEF SilenceTracked, TailFrom
  <2>3. Matches(Closed(segments, current, clock), heard, s0)
    <3> DEFINE all == Closed(segments, current, clock)
    <3>1. Len(all) - 1 = Len(segments) /\ Len(all) = Len(segments) + 1
      BY <1>1, ClosedSegments
    <3>2. /\ all[1].start = sessionStart
          /\ \A i \in 1 .. Len(segments) : all[i].end = all[i + 1].start /\ all[i].speaker # all[i + 1].speaker
          /\ \A t \in DOMAIN heard : \E i \in DOMAIN all :
               /\ all[i].start <= sessionStart + t - 1 /\ sessionStart + t - 1 < all[i].end
               /\ all[i].speaker = Owner(t)
      BY <1>2, Zenon DEF SegmentsMatchLabels, Closed
    <3> HIDE DEF all
    <3>3. Matches(all, heard, s0)
      BY <2>1, <3>1, <3>2, Owners, Zenon DEF Matches
    <3> QED
      BY <3>3 DEF all
  <2>4. FrameState(segments, current, silStart, s0, clock, heard)
    BY <2>1, <2>2, <2>3, Zenon DEF FrameState
  <2> QED
    BY <1>1, <2>1, <2>4
<1>3. CASE ~ started
  <2>1. /\ s0 = clock /\ heard = << >> /\ segments = << >> /\ silStart = -1 /\ Len(heard) = 0
        /\ open \in [speaker : Speakers, start : Int] /\ open.speaker = "silence" /\ open.start = clock
    BY <1>1, <1>3 DEF SessionKept
  <2>2. Matches(Closed(segments, open, clock), heard, s0)
    <3> DEFINE all == Closed(segments, open, clock)
    <3>1. Len(segments) = 0 /\ DOMAIN heard = {}
      BY <2>1
    <3>2. Len(all) = 1 /\ all[Len(segments) + 1].start = open.start
      <4>1. Len(all) = Len(segments) + 1 /\ all[Len(segments) + 1].start = open.start
        BY <1>1, ClosedSegments
      <4> HIDE DEF all
      <4> QED
        BY <3>1, <4>1
    <3>3. all[1].start = clock
      <4> HIDE DEF all
      <4> QED
        BY <2>1, <3>1, <3>2
    <3> HIDE DEF all
    <3>4. Matches(all, heard, s0)
      BY <2>1, <3>1, <3>2, <3>3 DEF Matches
    <3> QED
      BY <3>4 DEF all
  <2>3. clock = s0 + Len(heard) /\ open.start \in s0 .. clock
    BY <1>1, <2>1
  <2>4. FrameState(segments, open, silStart, s0, clock, heard)
    BY <2>1, <2>2, <2>3, Zenon DEF FrameState
  <2> QED
    BY <1>1, <2>1, <2>4
<1> QED
  BY <1>2, <1>3

(* Back from a frame to the parts of the invariant.                         *)
LEMMA FrameStateGives ==
  ASSUME NEW s0 \in Nat, NEW segs \in Seq(Segments), NEW h \in Seq(Speakers), NEW c \in Nat,
         NEW sil, NEW cur, Len(h) # 0,
         FrameState(segs, cur, sil, s0, c, h),
         segments' = segs, current' = cur, silStart' = sil, sessionStart' = s0, clock' = c, heard' = h,
         started' = TRUE
  PROVE  SegmentsMatchLabels' /\ SessionKept' /\ SilenceTracked'
<1>1. Len(h) \in Nat /\ Len(segs) \in Nat
  OBVIOUS
<1>2. /\ c = s0 + Len(h) /\ cur.start \in s0 .. c /\ cur.speaker = OwnerIn(h, Len(h))
      /\ IF h[Len(h)] # "silence" THEN sil = -1 ELSE TailFrom(h, sil - s0 + 1)
      /\ Matches(Closed(segs, cur, c), h, s0)
  BY DEF FrameState
<1>3. SessionKept'
  <2>1. s0 <= c /\ h # << >>
    BY <1>1, <1>2
  <2> QED
    BY <1>2, <2>1, Zenon DEF SessionKept
<1>4. SilenceTracked'
  <2>1. Owner(Len(heard))' = OwnerIn(h, Len(h))
    BY Owners, Zenon
  <2> QED
    BY <1>2, <2>1, Zenon DEF SilenceTracked, TailFrom
<1>5. SegmentsMatchLabels'
  <2> DEFINE all == Closed(segs, cur, c)
  <2>1. Len(all) - 1 = Len(segs)
    <3>1. Len(all) = Len(segs) + 1
      BY ClosedSegments
    <3> HIDE DEF all
    <3> QED
      BY <1>1, <3>1
  <2>2. /\ all[1].start = s0
        /\ \A i \in 1 .. Len(segs) : all[i].end = all[i + 1].start /\ all[i].speaker # all[i + 1].speaker
        /\ \A t \in DOMAIN h : \E i \in DOMAIN all :
             all[i].start <= s0 + t - 1 /\ s0 + t - 1 < all[i].end /\ all[i].speaker = OwnerIn(h, t)
    <3> HIDE DEF all
    <3>1. Matches(all, h, s0)
      BY <1>2 DEF all
    <3> QED
      BY <2>1, <3>1, Zenon DEF Matches
  <2>3. \A t : Owner(t)' = OwnerIn(h, t)
    BY Owners, Zenon
  <2> QED
    BY <2>2, <2>3, Zenon DEF SegmentsMatchLabels, Closed
<1> QED
  BY <1>3, <1>4, <1>5

(* A new detector. *)
LEMMA DiarInitInv == NewDiarizer => DiarInv
<1> SUFFICES ASSUME NewDiarizer PROVE DiarInv
  OBVIOUS
<1>1. 0 \in Times
  BY DiarizerAssumption DEF Times
<1>2. DiarTypeOK
  <2>1. << >> \in Seq([speaker : Speakers, start : Times, end : Times]) /\ << >> \in Seq(Speakers)
    OBVIOUS
  <2>2. /\ current \in [speaker : Speakers, start : Times]
        /\ stats \in [phase : {"none", "read", "reset", "done"}, lasted : Times, total : Times]
    BY <1>1 DEF NewDiarizer, Speakers, NoStats
  <2> QED
    BY <1>1, <2>1, <2>2 DEF NewDiarizer, DiarTypeOK
<1>3. SegmentsMatchLabels /\ SilenceTracked
  BY DEF NewDiarizer, SegmentsMatchLabels, SilenceTracked
<1>4. SessionKept /\ ReadFits /\ StatsFit
  BY DEF NewDiarizer, SessionKept, ReadFits, StatsFit, NoStats
<1> QED
  BY <1>2, <1>3, <1>4 DEF DiarInv

(* The end of a segment, and another speaker's. *)
LEMMA TurnEffect ==
  ASSUME DiarTypeOK, NEW open \in [speaker : Speakers, start : Times], NEW y \in Speakers, NEW e \in Times,
         Turn(open, y, e)
  PROVE  /\ segments' = Closed(segments, open, e) /\ current' = [speaker |-> y, start |-> e]
         /\ segments' \in Seq([speaker : Speakers, start : Times, end : Times])
         /\ current' \in [speaker : Speakers, start : Times]
<1>1. [speaker |-> open.speaker, start |-> open.start, end |-> e]
        \in [speaker : Speakers, start : Times, end : Times]
  OBVIOUS
<1>2. segments' = Append(segments, [speaker |-> open.speaker, start |-> open.start, end |-> e])
  BY DEF Turn
<1>3. segments' \in Seq([speaker : Speakers, start : Times, end : Times])
  BY <1>1, <1>2 DEF DiarTypeOK
<1> QED
  BY <1>2, <1>3 DEF Turn, Closed

(* A frame, of speech or of silence, as the first of a session or a later   *)
(* one.                                                                     *)
LEMMA ProcessKeepsInv ==
  ASSUME DiarInv, NEW active \in BOOLEAN, ProcessFrame(active)
  PROVE  DiarInv'
<1> DEFINE n == Len(heard)
           x == Label(active)
<1>1. PICK s0 : s0 = IF started THEN sessionStart ELSE clock
  OBVIOUS
<1>2. PICK open : open = IF started THEN current ELSE [current EXCEPT !.start = clock]
  OBVIOUS
<1>3. /\ s0 \in Nat /\ open \in [speaker : Speakers, start : Int]
      /\ FrameState(segments, open, silStart, s0, clock, heard)
  BY <1>1, <1>2, OpenSession
<1>4. DiarTypeOK
  BY DEF DiarInv
<1>5. /\ segments \in Seq(Segments) /\ heard \in Seq(Speakers) /\ silStart \in Int
      /\ clock \in Nat /\ sessionStart \in Nat
  BY <1>4, DiarTypes
<1>6. x \in Speakers
  BY DEF Label, Speakers
<1>7. /\ clock < 2 * MaxFrames /\ clock' = clock + 1 /\ heard' = Append(heard, x) /\ started' = TRUE
      /\ sessionStart' = s0 /\ farActive' = farActive /\ stats' = stats
      /\ x = "silence" => Silence(open)
      /\ x # "silence" => Speech(x, open)
  BY <1>1, <1>2, Zenon DEF ProcessFrame
<1>8. /\ clock \in Times /\ s0 \in Times /\ open \in [speaker : Speakers, start : Times]
      /\ clock + 1 \in Times /\ clock + 1 \in Nat
  <2>1. clock + 1 \in Times /\ clock + 1 \in Nat
    BY <1>5, <1>7, DiarizerAssumption DEF Times
  <2> QED
    BY <1>1, <1>2, <1>4, <2>1 DEF DiarTypeOK
<1>9. Append(heard, x) \in Seq(Speakers) /\ Len(Append(heard, x)) # 0
  BY <1>5, <1>6
<1> HIDE DEF x, n
<1>10. /\ SegmentsMatchLabels' /\ SessionKept' /\ SilenceTracked'
       /\ segments' \in Seq([speaker : Speakers, start : Times, end : Times])
       /\ current' \in [speaker : Speakers, start : Times] /\ silStart' \in Times \cup {-1}
  <2>1. CASE x # "silence" /\ open.speaker = x
    <3>1. segments' = segments /\ current' = open /\ silStart' = -1
      BY <1>7, <2>1 DEF Speech
    <3>2. FrameState(segments, open, -1, s0, clock + 1, Append(heard, x))
      <4>1. /\ open.speaker = x => FrameState(segments, open, -1, s0, clock + 1, Append(heard, x))
            /\ open.speaker # x => FrameState(Closed(segments, open, clock), [speaker |-> x, start |-> clock], -1,
                                              s0, clock + 1, Append(heard, x))
        <5>1. clock \in Int /\ x # "silence"
          BY <1>5, <2>1
        <5> QED
          BY <1>3, <1>5, <1>6, <5>1, SpeechFrame
      <4> QED
        BY <2>1, <4>1, Zenon
    <3>3. SegmentsMatchLabels' /\ SessionKept' /\ SilenceTracked'
      BY <1>3, <1>5, <1>7, <1>8, <1>9, <3>1, <3>2, FrameStateGives, Zenon
    <3> QED
      BY <1>4, <1>8, <3>1, <3>3 DEF DiarTypeOK
  <2>2. CASE x # "silence" /\ open.speaker # x
    <3>1. silStart' = -1 /\ Turn(open, x, clock)
      BY <1>7, <2>2 DEF Speech
    <3>2. /\ segments' = Closed(segments, open, clock) /\ current' = [speaker |-> x, start |-> clock]
          /\ segments' \in Seq([speaker : Speakers, start : Times, end : Times])
          /\ current' \in [speaker : Speakers, start : Times]
      BY <1>4, <1>6, <1>8, <3>1, TurnEffect, Zenon
    <3>3. /\ FrameState(Closed(segments, open, clock), [speaker |-> x, start |-> clock], -1,
                        s0, clock + 1, Append(heard, x))
      BY <1>3, <1>5, <1>6, <2>2, SpeechFrame
    <3>4. clock \in Int /\ Closed(segments, open, clock) \in Seq(Segments)
      BY <1>3, <1>5, ClosedType
    <3>5. SegmentsMatchLabels' /\ SessionKept' /\ SilenceTracked'
      BY <1>3, <1>7, <1>8, <1>9, <3>1, <3>2, <3>3, <3>4, FrameStateGives, Zenon
    <3> QED
      BY <3>1, <3>2, <3>5
  <2>3. CASE x = "silence"
    <3>1. PICK s : s = IF silStart < 0 THEN clock ELSE silStart
      OBVIOUS
    <3>2. /\ silStart' = s
          /\ IF clock - s >= SpeakerChangeGap /\ open.speaker # "silence"
             THEN Turn(open, "silence", s)
             ELSE current' = open /\ segments' = segments
      BY <1>7, <2>3, <3>1, Zenon DEF Silence
    <3>3. /\ s \in s0 .. clock
          /\ ~ (clock - s >= SpeakerChangeGap /\ open.speaker # "silence") =>
               FrameState(segments, open, s, s0, clock + 1, Append(heard, "silence"))
          /\ clock - s >= SpeakerChangeGap /\ open.speaker # "silence" =>
               FrameState(Closed(segments, open, s), [speaker |-> "silence", start |-> s], s,
                          s0, clock + 1, Append(heard, "silence"))
      BY <1>3, <1>5, <3>1, SilenceFrame
    <3>4. s \in Times /\ s \in Int
      BY <1>3, <1>5, <1>8, <3>3, DiarizerAssumption DEF Times
    <3>5. CASE clock - s >= SpeakerChangeGap /\ open.speaker # "silence"
      <4>1. /\ segments' = Closed(segments, open, s) /\ current' = [speaker |-> "silence", start |-> s]
            /\ segments' \in Seq([speaker : Speakers, start : Times, end : Times])
            /\ current' \in [speaker : Speakers, start : Times]
        BY <1>4, <1>6, <1>8, <2>3, <3>2, <3>4, <3>5, TurnEffect, Zenon
      <4>2. Closed(segments, open, s) \in Seq(Segments)
        BY <1>3, <1>5, <3>4, ClosedType
      <4>3. FrameState(Closed(segments, open, s), [speaker |-> "silence", start |-> s], s,
                       s0, clock + 1, Append(heard, x))
        BY <2>3, <3>3, <3>5, Zenon
      <4>4. SegmentsMatchLabels' /\ SessionKept' /\ SilenceTracked'
        BY <1>3, <1>7, <1>8, <1>9, <3>2, <4>1, <4>2, <4>3, FrameStateGives, Zenon
      <4> QED
        BY <3>2, <3>4, <4>1, <4>4
    <3>6. CASE ~ (clock - s >= SpeakerChangeGap /\ open.speaker # "silence")
      <4>1. segments' = segments /\ current' = open
        BY <3>2, <3>6, Zenon
      <4>2. FrameState(segments, open, s, s0, clock + 1, Append(heard, x))
        BY <2>3, <3>3, <3>6, Zenon
      <4>3. SegmentsMatchLabels' /\ SessionKept' /\ SilenceTracked'
        BY <1>3, <1>5, <1>7, <1>8, <1>9, <3>2, <4>1, <4>2, FrameStateGives, Zenon
      <4> QED
        BY <1>4, <1>8, <3>2, <3>4, <4>1, <4>3 DEF DiarTypeOK
    <3> QED
      BY <3>5, <3>6
  <2> QED
    BY <2>1, <2>2, <2>3
<1>11. DiarTypeOK'
  BY <1>4, <1>7, <1>8, <1>9, <1>10 DEF DiarTypeOK
<1>12. ReadFits'
  <2> SUFFICES ASSUME stats.phase = "read" PROVE stats.lasted <= clock' - s0
    BY <1>7 DEF ReadFits
  <2>1. stats.lasted <= clock - sessionStart /\ (started \/ stats.lasted = 0) /\ stats.lasted \in Times
    BY <1>4 DEF DiarInv, ReadFits, DiarTypeOK
  <2>2. stats.lasted \in Nat
    BY <2>1, DiarizerAssumption DEF Times
  <2> QED
    BY <1>1, <1>5, <1>7, <2>1, <2>2
<1>13. StatsFit'
  BY <1>7 DEF DiarInv, StatsFit
<1> QED
  BY <1>10, <1>11, <1>12, <1>13 DEF DiarInv

(* A step that touches no segment and no label keeps what they say.         *)
LEMMA DiarUnmoved ==
  ASSUME DiarInv, UNCHANGED <<segments, current, silStart, started, sessionStart, clock, heard>>
  PROVE  SegmentsMatchLabels' /\ SessionKept' /\ SilenceTracked'
<1>1. CASE started
  <2>1. FrameState(segments, current, silStart, sessionStart, clock, heard)
    BY <1>1, OpenSession, Zenon
  <2>2. /\ segments \in Seq(Segments) /\ heard \in Seq(Speakers) /\ clock \in Nat /\ sessionStart \in Nat
        /\ Len(heard) # 0
    BY <1>1, DiarTypes DEF DiarInv, SessionKept
  <2>3. started' = TRUE
    BY <1>1 DEF DiarInv, DiarTypeOK
  <2> QED
    BY <2>1, <2>2, <2>3, FrameStateGives, Zenon
<1>2. CASE ~ started
  BY <1>2 DEF DiarInv, SegmentsMatchLabels, SessionKept, SilenceTracked
<1> QED
  BY <1>1, <1>2

(* A reset forgets the session. *)
LEMMA ResetKeepsInv ==
  ASSUME DiarInv, ResetDiarizer
  PROVE  DiarInv'
<1> USE DEF DiarInv
<1>1. /\ segments' = << >> /\ current' = [speaker |-> "silence", start |-> 0] /\ silStart' = -1
      /\ started' = FALSE /\ farActive' = FALSE /\ heard' = << >>
      /\ sessionStart' = sessionStart /\ clock' = clock
      /\ stats' = IF stats.phase = "read" THEN [stats EXCEPT !.phase = "reset"] ELSE stats
  BY DEF ResetDiarizer
<1>2. 0 \in Times /\ "silence" \in Speakers
  BY DiarizerAssumption DEF Times, Speakers
<1>3. stats' \in [phase : {"none", "read", "reset", "done"}, lasted : Times, total : Times]
      /\ stats'.phase # "read" /\ (stats'.phase = "done" => stats' = stats)
  BY <1>1 DEF DiarTypeOK
<1>4. DiarTypeOK'
  <2>1. << >> \in Seq([speaker : Speakers, start : Times, end : Times]) /\ << >> \in Seq(Speakers)
    OBVIOUS
  <2>2. current' \in [speaker : Speakers, start : Times]
    BY <1>1, <1>2
  <2> QED
    BY <1>1, <1>3, <2>1, <2>2 DEF DiarTypeOK
<1>5. SessionKept' /\ SegmentsMatchLabels' /\ SilenceTracked'
  BY <1>1 DEF SessionKept, SegmentsMatchLabels, SilenceTracked
<1>6. ReadFits' /\ StatsFit'
  BY <1>3 DEF ReadFits, StatsFit
<1> QED
  BY <1>4, <1>5, <1>6

(* A summary, in its two reads: what it takes of the segments is the time   *)
(* from the session's start to that of the segment in hand.                 *)
LEMMA StatsKeepsInv ==
  ASSUME DiarInv, StatsCopy \/ StatsTotal
  PROVE  DiarInv'
<1> USE DEF DiarInv
<1>1. UNCHANGED <<segments, current, silStart, farActive, started, sessionStart, clock, heard>>
  BY DEF StatsCopy, StatsTotal
<1>2. /\ segments \in Seq(Segments) /\ current \in [speaker : Speakers, start : Int]
      /\ clock \in Nat /\ sessionStart \in Nat /\ sessionStart <= clock
      /\ Len(segments) \in Nat
  BY DiarTypes DEF SessionKept
<1>3. SessionKept' /\ SegmentsMatchLabels' /\ SilenceTracked'
  BY <1>1, DiarUnmoved
<1>4. CASE StatsCopy
  <2>1. PICK v : v = FoldLeft(LAMBDA n, s : n + s.end - s.start, 0, segments)
    OBVIOUS
  <2>2. stats' = [phase |-> "read", total |-> 0, lasted |-> v]
    BY <1>4, <2>1, Zenon DEF StatsCopy
  <2>3. v \in Nat /\ v <= clock - sessionStart /\ (started \/ v = 0)
    <3>1. CASE ~ started
      <4>1. segments = << >>
        BY <3>1 DEF SessionKept
      <4>2. Len(segments) = 0 /\ \A i \in 1 .. Len(segments) - 1 : segments[i].end = segments[i + 1].start
        BY <4>1
      <4>3. v = 0
        BY <1>2, <2>1, <4>2, SumOfSegments
      <4> QED
        BY <1>2, <4>3
    <3>2. CASE started
      <4> DEFINE all == Closed(segments, current, clock)
                 k == Len(segments)
      <4>1. /\ all[1].start = sessionStart
            /\ \A i \in 1 .. k : all[i].end = all[i + 1].start
        BY <3>2, Zenon DEF SegmentsMatchLabels, Closed
      <4>2. /\ \A i \in 1 .. k : all[i] = segments[i]
            /\ all[k + 1].start = current.start /\ all[k + 1].end = clock
        BY <1>2, ClosedSegments
      <4>3. current.start \in sessionStart .. clock
        BY <3>2 DEF SilenceTracked
      <4> HIDE DEF all
      <4>4. \A i \in 1 .. k - 1 : segments[i].end = segments[i + 1].start
        <5>1. \A i \in 1 .. k - 1 : i \in 1 .. k /\ i + 1 \in 1 .. k
          BY <1>2
        <5> QED
          BY <4>1, <4>2, <5>1, Zenon
      <4>5. v = IF k = 0 THEN 0 ELSE segments[k].end - segments[1].start
        BY <1>2, <2>1, <4>4, SumOfSegments
      <4>6. CASE k = 0
        BY <1>2, <3>2, <4>5, <4>6
      <4>7. CASE k # 0
        <5>1. 1 \in 1 .. k /\ k \in 1 .. k
          BY <1>2, <4>7
        <5>2. segments[1].start = sessionStart /\ segments[k].end = current.start
          BY <4>1, <4>2, <5>1, Zenon
        <5>3. v = current.start - sessionStart
          BY <4>5, <4>7, <5>2, Zenon
        <5> QED
          BY <1>2, <3>2, <4>3, <5>3
      <4> QED
        BY <4>6, <4>7
    <3> QED
      BY <3>1, <3>2
  <2>4. v \in Times /\ 0 \in Times
    <3>1. clock <= 2 * MaxFrames
      BY DiarizerAssumption DEF DiarTypeOK, Times
    <3> QED
      BY <1>2, <2>3, <3>1, DiarizerAssumption DEF Times
  <2>5. DiarTypeOK'
    BY <1>1, <2>2, <2>4 DEF DiarTypeOK
  <2>6. ReadFits' /\ StatsFit'
    BY <1>1, <2>2, <2>3, Zenon DEF ReadFits, StatsFit
  <2> QED
    BY <1>3, <2>5, <2>6
<1>5. CASE StatsTotal
  <2>1. clock - sessionStart \in Times /\ 0 \in Times
    <3>1. clock <= 2 * MaxFrames
      BY DiarizerAssumption DEF DiarTypeOK, Times
    <3> QED
      BY <1>2, <3>1, DiarizerAssumption DEF Times
  <2>2. PICK d \in Times : d = clock - sessionStart
    BY <2>1
  <2>3. /\ stats \in [phase : {"none", "read", "reset", "done"}, lasted : Times, total : Times]
        /\ stats.phase = "read" => stats.lasted <= d
    BY <2>2 DEF DiarTypeOK, ReadFits
  <2>4. stats' = IF stats.phase = "read" THEN [stats EXCEPT !.phase = "done", !.total = d] ELSE NoStats
    BY <1>5, <2>2, Zenon DEF StatsTotal
  <2>5. CASE stats.phase = "read"
    <3>1. stats' \in [phase : {"none", "read", "reset", "done"}, lasted : Times, total : Times]
          /\ stats'.phase = "done" /\ stats'.lasted = stats.lasted /\ stats'.total = d
      BY <2>3, <2>4, <2>5
    <3>2. DiarTypeOK'
      BY <1>1, <3>1 DEF DiarTypeOK
    <3>3. ReadFits' /\ StatsFit'
      BY <2>3, <2>5, <3>1 DEF ReadFits, StatsFit
    <3> QED
      BY <1>3, <3>2, <3>3
  <2>6. CASE stats.phase # "read"
    <3>1. stats' \in [phase : {"none", "read", "reset", "done"}, lasted : Times, total : Times]
          /\ stats'.phase = "none"
      BY <2>1, <2>4, <2>6 DEF NoStats
    <3>2. DiarTypeOK'
      BY <1>1, <3>1 DEF DiarTypeOK
    <3>3. ReadFits' /\ StatsFit'
      BY <3>1 DEF ReadFits, StatsFit
    <3> QED
      BY <1>3, <3>2, <3>3
  <2> QED
    BY <2>5, <2>6
<1> QED
  BY <1>4, <1>5

(* Whatever is said when, whatever the far end reports, and whenever the    *)
(* summary and the reset come: the segments are what the labels say, a      *)
(* short pause is its speaker's and a long one nobody's from its first      *)
(* frame, and a summary never shows more than has passed.                   *)
THEOREM DiarInvariant == DiarSpec => []DiarInv
<1>1. NewDiarizer => DiarInv
  BY DiarInitInv
<1>2. DiarInv /\ [DiarNext]_diarVars => DiarInv'
  <2> SUFFICES ASSUME DiarInv, [DiarNext]_diarVars PROVE DiarInv'
    OBVIOUS
  <2>1. CASE \E a \in BOOLEAN : ProcessFrame(a)
    BY <2>1, ProcessKeepsInv
  <2>2. CASE ResetDiarizer
    BY <2>2, ResetKeepsInv
  <2>3. CASE StatsCopy \/ StatsTotal
    BY <2>3, StatsKeepsInv
  <2>4. CASE SetFarEndRMS \/ UNCHANGED diarVars
    <3>1. UNCHANGED <<segments, current, silStart, started, sessionStart, clock, heard, stats>>
          /\ (farActive' \in BOOLEAN \/ farActive' = farActive)
      BY <2>4 DEF SetFarEndRMS, diarVars
    <3>2. DiarTypeOK'
      BY <3>1 DEF DiarInv, DiarTypeOK
    <3>3. SegmentsMatchLabels' /\ SessionKept' /\ SilenceTracked'
      BY <3>1, DiarUnmoved
    <3> QED
      BY <3>1, <3>2, <3>3 DEF DiarInv, ReadFits, StatsFit
  <2> QED
    BY <2>1, <2>2, <2>3, <2>4 DEF DiarNext
<1> QED
  BY <1>1, <1>2, PTL DEF DiarSpec

-----------------------------------------------------------------------------
(* The batch evaluation *)

(* The files are finitely many, and so are those at any stage.              *)
LEMMA FilesFinite ==
  /\ IsFiniteSet(Idx) /\ Cardinality(Idx) = Total
  /\ \A S \in SUBSET Idx : IsFiniteSet(S) /\ Cardinality(S) \in Nat /\ Cardinality(S) <= Total
<1>1. IsFiniteSet(Idx) /\ Cardinality(Idx) = Total
  <2>1. Total \in Nat
    BY EvalAssumption
  <2>2. IsFiniteSet(1 .. Total) /\ Cardinality(1 .. Total) = IF 1 > Total THEN 0 ELSE Total - 1 + 1
    BY <2>1, FS_Interval
  <2>3. (IF 1 > Total THEN 0 ELSE Total - 1 + 1) = Total
    BY <2>1
  <2> QED
    BY <2>2, <2>3 DEF Idx
<1>2. ASSUME NEW S \in SUBSET Idx
      PROVE  IsFiniteSet(S) /\ Cardinality(S) \in Nat /\ Cardinality(S) <= Total
  BY <1>1, FS_Subset, FS_CardinalityType, Zenon
<1> QED
  BY <1>1, <1>2

(* Of at most one no two are different. *)
LEMMA AtMostOne ==
  ASSUME NEW S, IsFiniteSet(S), Cardinality(S) <= 1, NEW i \in S, NEW j \in S
  PROVE  i = j
<1>1. IsFiniteSet(S \ {i}) /\ Cardinality(S \ {i}) = Cardinality(S) - 1
  BY FS_RemoveElement
<1>2. Cardinality(S) \in Nat /\ Cardinality(S \ {i}) \in Nat
  BY <1>1, FS_CardinalityType
<1>3. Cardinality(S \ {i}) = 0
  BY <1>1, <1>2
<1>4. S \ {i} = {}
  BY <1>1, <1>3, FS_EmptySet
<1> QED
  BY <1>4

(* The recommendations are monotone in the figures. *)
LEMMA Monotone == TuningMonotone
<1>1. \A p \in {0, 4, 8, 9, 50, 100} :
        JitterDepthFrames(p) = IF p = 50 THEN 12 ELSE IF p = 100 THEN 16 ELSE IF p >= 8 THEN 3 ELSE 2
  <2>1. /\ (2 * 0) \div 10 = 0 /\ (2 * 4) \div 10 = 0 /\ (2 * 8) \div 10 = 1
        /\ (2 * 9) \div 10 = 1 /\ (2 * 50) \div 10 = 10 /\ (2 * 100) \div 10 = 20
    BY Z3
  <2> QED
    BY <2>1 DEF JitterDepthFrames
<1>2. ASSUME NEW snr \in -1 .. 11, NEW p \in {0, 4, 8, 9, 50, 100}
      PROVE  /\ Aggressiveness(snr, p) \in 1 .. 3 /\ JitterDepthFrames(p) \in 2 .. 16
             /\ \A worse \in {9, 50, 100} :
                  worse >= p => /\ Aggressiveness(snr, worse) <= Aggressiveness(snr, p)
                                /\ JitterDepthFrames(worse) >= JitterDepthFrames(p)
             /\ Aggressiveness(snr + 1, p) <= Aggressiveness(snr, p)
  <2>1. Aggressiveness(snr, p) \in 1 .. 3 /\ Aggressiveness(snr + 1, p) <= Aggressiveness(snr, p)
    BY DEF Aggressiveness
  <2>2. JitterDepthFrames(p) \in 2 .. 16
    BY <1>1
  <2>3. ASSUME NEW worse \in {9, 50, 100}, worse >= p
        PROVE  /\ Aggressiveness(snr, worse) <= Aggressiveness(snr, p)
               /\ JitterDepthFrames(worse) >= JitterDepthFrames(p)
    <3>1. Aggressiveness(snr, worse) <= Aggressiveness(snr, p)
      BY <2>3 DEF Aggressiveness
    <3>2. JitterDepthFrames(worse) >= JitterDepthFrames(p)
      BY <1>1, <2>3
    <3> QED
      BY <3>1, <3>2
  <2> QED
    BY <2>1, <2>2, <2>3
<1>3. \A t \in 0 .. 9 : VADThreshold(t + 1) <= VADThreshold(t)
  BY DEF VADThreshold
<1> QED
  BY <1>2, <1>3 DEF TuningMonotone

(* A batch before its first file. *)
LEMMA EvalInitInv == EvalInit => EvalInv
<1> SUFFICES ASSUME EvalInit PROVE EvalInv
  OBVIOUS
<1>1. /\ workers \in 1 .. MaxWorkers /\ nextFile = 1 /\ doneCount = 0 /\ evalCancelled = FALSE
      /\ evaluating = [i \in Idx |-> "waiting"] /\ results = [i \in Idx |-> "blank"]
      /\ hears = {} /\ clean = {} /\ summary = NoSummary
  BY DEF EvalInit
<1>2. EvalTypeOK
  <2>1. 1 \in 1 .. Total + 1 /\ 0 \in 0 .. Total /\ -1 \in -1 .. Total
    BY EvalAssumption
  <2> QED
    BY <1>1, <2>1 DEF EvalTypeOK, NoSummary
<1>3. FilesInOrder
  <2>1. Running = {} /\ {i \in Idx : evaluating[i] = "gone"} = {}
    BY <1>1 DEF Running
  <2>2. Cardinality({}) = 0
    BY FS_EmptySet
  <2>3. \A i \in Idx : i >= 1
    BY EvalAssumption DEF Idx
  <2>4. 0 <= workers
    BY <1>1, EvalAssumption
  <2> QED
    BY <1>1, <2>1, <2>2, <2>3, <2>4 DEF FilesInOrder
<1> QED
  BY <1>1, <1>2, <1>3, Monotone DEF EvalInv, SummaryHonest, MeasuredAlone, OwnSound

(* What the loop of Run does. *)
LEMMA LoopKeepsInv ==
  ASSUME EvalInv, Launch \/ BreakLoop \/ CancelEval
  PROVE  EvalInv'
<1> USE DEF EvalInv
<1>1. /\ results' = results /\ doneCount' = doneCount /\ hears' = hears /\ clean' = clean
      /\ summary' = summary /\ workers' = workers
  BY DEF Launch, BreakLoop, CancelEval
<1>2. workers \in Nat /\ nextFile \in Nat /\ nextFile <= Total + 1 /\ Total \in Nat
  BY EvalAssumption DEF EvalTypeOK
<1>3. CASE Launch
  <2>1. /\ nextFile \in Idx /\ nextFile <= Total /\ nextFile' = nextFile + 1 /\ evalCancelled' = evalCancelled
        /\ evaluating' = [evaluating EXCEPT ![nextFile] = "decode"]
        /\ evaluating[nextFile] = "waiting" /\ Cardinality(Running) < workers
        /\ summary = NoSummary /\ results[nextFile] = "blank"
    <3>1. nextFile \in Idx /\ nextFile <= Total
      BY <1>2, <1>3 DEF Launch, Idx, EvalTypeOK
    <3> QED
      BY <1>2, <1>3, <3>1 DEF Launch, FilesInOrder, EvalTypeOK
  <2>2. EvalTypeOK'
    <3>1. nextFile' \in 1 .. Total + 1
      BY <1>2, <2>1 DEF Idx
    <3> QED
      BY <1>1, <2>1, <3>1 DEF EvalTypeOK
  <2>3. /\ evaluating \in [Idx -> {"waiting", "decode", "first", "reset", "second", "count", "gone"}]
        /\ \A i \in Idx : evaluating'[i] = IF i = nextFile THEN "decode" ELSE evaluating[i]
    BY <2>1 DEF EvalTypeOK
  <2>4. {i \in Idx : evaluating'[i] = "gone"} = {i \in Idx : evaluating[i] = "gone"}
    BY <2>1, <2>3
  <2>5. Cardinality(Running') <= workers
    <3>1. Running' = Running \cup {nextFile} /\ nextFile \notin Running /\ Running \in SUBSET Idx
      BY <2>1, <2>3 DEF Running
    <3>2. IsFiniteSet(Running) /\ Cardinality(Running) \in Nat
      BY <3>1, FilesFinite, Zenon
    <3>3. Cardinality(Running \cup {nextFile}) = Cardinality(Running) + 1
      BY <3>1, <3>2, FS_AddElement
    <3> QED
      BY <1>2, <2>1, <3>1, <3>2, <3>3
  <2>6. FilesInOrder'
    <3>1. \A i \in Idx : i >= nextFile' => evaluating'[i] = "waiting"
      <4>1. \A i \in Idx : i >= nextFile + 1 => i >= nextFile /\ i # nextFile
        BY <1>2 DEF Idx
      <4> QED
        BY <2>1, <2>3, <4>1 DEF FilesInOrder
    <3>2. ~ evalCancelled' => \A i \in Idx : evaluating'[i] = "waiting" => i >= nextFile'
      <4>1. \A i \in Idx : i >= nextFile /\ i # nextFile => i >= nextFile + 1
        BY <1>2 DEF Idx
      <4> QED
        BY <2>1, <2>3, <4>1 DEF FilesInOrder
    <3>3. \A i \in Idx : results'[i] # "blank" <=> evaluating'[i] \in {"count", "gone"}
      BY <1>1, <2>1, <2>3 DEF FilesInOrder
    <3>4. doneCount' = Cardinality({i \in Idx : evaluating'[i] = "gone"})
      BY <1>1, <2>4, Zenon DEF FilesInOrder
    <3> QED
      BY <1>1, <2>1, <2>5, <3>1, <3>2, <3>3, <3>4, Zenon DEF FilesInOrder
  <2>7. OwnSound' /\ MeasuredAlone' /\ SummaryHonest' /\ TuningMonotone'
    <3>1. SummaryHonest'
      BY <1>1, <2>1 DEF SummaryHonest
    <3>2. OwnSound' /\ MeasuredAlone'
      BY <1>1, <2>1, <2>3 DEF OwnSound, MeasuredAlone
    <3> QED
      BY <3>1, <3>2, Monotone DEF TuningMonotone
  <2> QED
    BY <2>2, <2>6, <2>7
<1>4. CASE BreakLoop \/ CancelEval
  <2>1. /\ evaluating' = evaluating /\ evalCancelled' = TRUE
        /\ nextFile' = nextFile \/ (nextFile' = Total + 1 /\ nextFile <= Total)
        /\ summary = NoSummary
    BY <1>2, <1>4 DEF BreakLoop, CancelEval, FilesInOrder
  <2>2. EvalTypeOK'
    BY <1>1, <1>2, <2>1 DEF EvalTypeOK
  <2>3. \A i \in Idx : i >= nextFile' => evaluating'[i] = "waiting"
    <3>1. \A i \in Idx : i >= Total + 1 => FALSE
      BY <1>2 DEF Idx
    <3> QED
      BY <2>1, <3>1 DEF FilesInOrder
  <2>4. Running' = Running
    BY <2>1 DEF Running
  <2>5. FilesInOrder'
    BY <1>1, <2>1, <2>3, <2>4, Zenon DEF FilesInOrder
  <2>6. OwnSound' /\ MeasuredAlone' /\ SummaryHonest'
    BY <1>1, <2>1 DEF OwnSound, MeasuredAlone, SummaryHonest
  <2> QED
    BY <2>2, <2>5, <2>6, Monotone DEF TuningMonotone
<1> QED
  BY <1>3, <1>4

(* A file being evaluated, before its end. *)
FileStages == {"decode", "first", "reset", "second"}

(* What a step of a file's goroutine leaves of the order of the files.      *)
LEMMA StageKeepsOrder ==
  ASSUME EvalInv, NEW i \in Idx, evaluating[i] \in FileStages,
         NEW to \in {"first", "reset", "second", "count"},
         evaluating' = [evaluating EXCEPT ![i] = to],
         UNCHANGED runVars,
         IF to = "count" THEN \E r \in {"ok", "failed"} : results' = [results EXCEPT ![i] = r]
         ELSE results' = results
  PROVE  /\ FilesInOrder' /\ SummaryHonest'
         /\ results' \in [Idx -> {"blank", "ok", "failed"}]
         /\ evaluating' \in [Idx -> {"waiting", "decode", "first", "reset", "second", "count", "gone"}]
<1> USE DEF EvalInv
<1>1. /\ workers' = workers /\ nextFile' = nextFile /\ doneCount' = doneCount
      /\ evalCancelled' = evalCancelled /\ summary' = summary
  BY DEF runVars
<1>2. /\ evaluating \in [Idx -> {"waiting", "decode", "first", "reset", "second", "count", "gone"}]
      /\ results \in [Idx -> {"blank", "ok", "failed"}]
  BY DEF EvalTypeOK
<1>3. /\ evaluating' \in [Idx -> {"waiting", "decode", "first", "reset", "second", "count", "gone"}]
      /\ \A j \in Idx : evaluating'[j] = IF j = i THEN to ELSE evaluating[j]
  BY <1>2
<1>4. /\ results' \in [Idx -> {"blank", "ok", "failed"}]
      /\ \A j \in Idx : j # i => results'[j] = results[j]
      /\ results'[i] # "blank" <=> to = "count"
  <2>1. CASE to = "count"
    BY <1>2, <2>1
  <2>2. CASE to # "count"
    <3>1. results[i] = "blank"
      BY <1>2 DEF FilesInOrder, FileStages
    <3> QED
      BY <1>2, <2>2, <3>1
  <2> QED
    BY <2>1, <2>2
<1>5. Running' = Running /\ i \in Running
  <2>1. Running' = Running
    BY <1>3 DEF Running, FileStages
  <2> QED
    BY <2>1 DEF Running, FileStages
<1>6. {j \in Idx : evaluating'[j] = "gone"} = {j \in Idx : evaluating[j] = "gone"}
  BY <1>3 DEF FileStages
<1>7. summary = NoSummary
  BY <1>5 DEF FilesInOrder
<1>8. \A j \in Idx : evaluating'[j] = "waiting" <=> evaluating[j] = "waiting"
  BY <1>3 DEF FileStages
<1>9. \A j \in Idx : results'[j] # "blank" <=> evaluating'[j] \in {"count", "gone"}
  <2>1. \A j \in Idx : results[j] # "blank" <=> evaluating[j] \in {"count", "gone"}
    BY DEF FilesInOrder
  <2> QED
    BY <1>3, <1>4, <2>1
<1>10. FilesInOrder'
  <2>1. \A j \in Idx : j >= nextFile' => evaluating'[j] = "waiting"
    BY <1>1, <1>8, Zenon DEF FilesInOrder
  <2>2. ~ evalCancelled' => \A j \in Idx : evaluating'[j] = "waiting" => j >= nextFile'
    BY <1>1, <1>8, Zenon DEF FilesInOrder
  <2>3. doneCount' = Cardinality({j \in Idx : evaluating'[j] = "gone"})
    BY <1>1, <1>6, Zenon DEF FilesInOrder
  <2>4. Cardinality(Running') <= workers'
    BY <1>1, <1>5, Zenon DEF FilesInOrder
  <2> QED
    BY <1>1, <1>7, <1>9, <2>1, <2>2, <2>3, <2>4, Zenon DEF FilesInOrder
<1>11. SummaryHonest'
  BY <1>1, <1>7 DEF SummaryHonest
<1> QED
  BY <1>3, <1>4, <1>10, <1>11

(* With one worker, two files in work are one. *)
LEMMA OneAtATime ==
  ASSUME EvalInv, workers = 1, NEW i \in Running, NEW j \in Running
  PROVE  i = j
<1>1. Running \in SUBSET Idx
  BY DEF Running
<1>2. IsFiniteSet(Running)
  BY <1>1, FilesFinite, Zenon
<1>3. Cardinality(Running) <= 1
  BY DEF EvalInv, FilesInOrder
<1> QED
  BY <1>2, <1>3, AtMostOne

(* A file on its way to its result. *)
LEMMA StageKeepsInv ==
  ASSUME EvalInv, NEW i \in Idx,
         \/ DecodeFile(i) \/ EvalFails(i) \/ FirstPassDone(i) \/ ResetPipeline(i) \/ SecondPass(i)
  PROVE  EvalInv'
<1> USE DEF EvalInv
<1>1. PICK to \in {"first", "reset", "second", "count"} :
        /\ evaluating[i] \in FileStages /\ evaluating' = [evaluating EXCEPT ![i] = to]
        /\ to = "second" => ResetPipeline(i)
        /\ IF to = "count" THEN \E r \in {"ok", "failed"} : results' = [results EXCEPT ![i] = r]
           ELSE results' = results
  BY DEF DecodeFile, EvalFails, FirstPassDone, ResetPipeline, SecondPass, Goes, FileStages
<1>2. UNCHANGED runVars
  BY DEF DecodeFile, EvalFails, FirstPassDone, ResetPipeline, SecondPass
<1>3. /\ FilesInOrder' /\ SummaryHonest'
      /\ results' \in [Idx -> {"blank", "ok", "failed"}]
      /\ evaluating' \in [Idx -> {"waiting", "decode", "first", "reset", "second", "count", "gone"}]
  BY <1>1, <1>2, StageKeepsOrder
<1>4. /\ hears \subseteq Idx /\ clean \subseteq Idx
      /\ evaluating \in [Idx -> {"waiting", "decode", "first", "reset", "second", "count", "gone"}]
      /\ results \in [Idx -> {"blank", "ok", "failed"}]
  BY DEF EvalTypeOK
<1>5. EvalTypeOK'
  <2>1. hears' \subseteq Idx /\ clean' \subseteq Idx
    BY <1>4 DEF DecodeFile, EvalFails, FirstPassDone, ResetPipeline, SecondPass
  <2> QED
    BY <1>2, <1>3, <2>1 DEF EvalTypeOK, runVars
<1>6. workers' = workers
  BY <1>2 DEF runVars
<1>7. i \in Running
  BY <1>1 DEF Running, FileStages
<1>8. OwnSound'
  <2> SUFFICES ASSUME workers = 1, NEW j \in Idx, evaluating'[j] = "second" PROVE hears' \subseteq {j}
    BY <1>6 DEF OwnSound
  <2>1. CASE j = i
    <3>1. to = "second"
      BY <1>1, <1>4, <2>1
    <3>2. hears' = {}
      BY <1>1, <3>1 DEF ResetPipeline
    <3> QED
      BY <3>2
  <2>2. CASE j # i
    <3>1. evaluating[j] = "second"
      BY <1>1, <1>4, <2>2
    <3>2. j \in Running
      BY <3>1 DEF Running
    <3> QED
      BY <1>7, <2>2, <3>2, OneAtATime
  <2> QED
    BY <2>1, <2>2
<1>9. MeasuredAlone'
  <2> SUFFICES ASSUME workers = 1, NEW j \in Idx, results'[j] = "ok" PROVE j \in clean'
    BY <1>6 DEF MeasuredAlone
  <2>1. clean \subseteq clean'
    BY DEF DecodeFile, EvalFails, FirstPassDone, ResetPipeline, SecondPass
  <2>2. CASE j # i
    <3>1. results[j] = "ok"
      BY <1>1, <1>4, <2>2
    <3> QED
      BY <2>1, <3>1 DEF MeasuredAlone
  <2>3. CASE j = i /\ SecondPass(i)
    <3>1. hears \subseteq {i}
      BY <2>3 DEF OwnSound, SecondPass, Goes
    <3> QED
      BY <2>3, <3>1 DEF SecondPass
  <2>4. CASE j = i /\ ~ SecondPass(i)
    <3>1. results'[i] # "ok"
      <4>1. results[i] = "blank"
        BY <1>1, <1>4 DEF FilesInOrder, FileStages
      <4> QED
        BY <1>4, <2>4, <4>1 DEF DecodeFile, EvalFails, FirstPassDone, ResetPipeline
    <3> QED
      BY <2>4, <3>1
  <2> QED
    BY <2>2, <2>3, <2>4
<1> QED
  BY <1>3, <1>5, <1>8, <1>9, Monotone DEF TuningMonotone

(* A frame of the first pass. *)
LEMMA FrameKeepsEvalInv ==
  ASSUME EvalInv, NEW i \in Idx, EvalFrame(i)
  PROVE  EvalInv'
<1> USE DEF EvalInv
<1>1. /\ evaluating[i] = "first" /\ hears' = hears \cup {i}
      /\ UNCHANGED <<evaluating, results, clean, workers, nextFile, doneCount, evalCancelled, summary>>
  BY DEF EvalFrame, runVars
<1>2. EvalTypeOK'
  BY <1>1 DEF EvalTypeOK
<1>3. FilesInOrder' /\ SummaryHonest' /\ MeasuredAlone'
  <2>1. Running' = Running
    BY <1>1 DEF Running
  <2> QED
    BY <1>1, <2>1 DEF FilesInOrder, SummaryHonest, MeasuredAlone
<1>4. OwnSound'
  <2> SUFFICES ASSUME workers = 1, NEW j \in Idx, evaluating[j] = "second" PROVE FALSE
    BY <1>1 DEF OwnSound
  <2>1. i \in Running /\ j \in Running /\ i # j
    BY <1>1 DEF Running
  <2> QED
    BY <2>1, OneAtATime
<1> QED
  BY <1>2, <1>3, <1>4, Monotone DEF TuningMonotone

(* A file is counted, and gone. *)
LEMMA CountKeepsInv ==
  ASSUME EvalInv, NEW i \in Idx, CountDone(i)
  PROVE  EvalInv'
<1> USE DEF EvalInv
<1>1. /\ evaluating[i] = "count" /\ evaluating' = [evaluating EXCEPT ![i] = "gone"]
      /\ doneCount' = doneCount + 1
      /\ UNCHANGED <<workers, nextFile, results, evalCancelled, hears, clean, summary>>
  BY DEF CountDone, Goes
<1>2. evaluating \in [Idx -> {"waiting", "decode", "first", "reset", "second", "count", "gone"}]
  BY DEF EvalTypeOK
<1>3. /\ evaluating' \in [Idx -> {"waiting", "decode", "first", "reset", "second", "count", "gone"}]
      /\ \A j \in Idx : evaluating'[j] = IF j = i THEN "gone" ELSE evaluating[j]
  BY <1>1, <1>2
<1> DEFINE Gone == {j \in Idx : evaluating[j] = "gone"}
<1>4. /\ {j \in Idx : evaluating'[j] = "gone"} = Gone \cup {i}
      /\ i \notin Gone /\ Gone \cup {i} \in SUBSET Idx /\ Gone \in SUBSET Idx
  BY <1>1, <1>3
<1>5. /\ Cardinality(Gone \cup {i}) = Cardinality(Gone) + 1
      /\ Cardinality(Gone) \in Nat /\ Cardinality(Gone \cup {i}) <= Total
  <2> HIDE DEF Gone
  <2>1. IsFiniteSet(Gone) /\ Cardinality(Gone) \in Nat /\ Cardinality(Gone \cup {i}) <= Total
    BY <1>4, FilesFinite, Zenon
  <2> QED
    BY <1>4, <2>1, FS_AddElement
<1>6. doneCount = Cardinality(Gone)
  BY DEF FilesInOrder
<1>7. doneCount' = Cardinality(Gone \cup {i}) /\ doneCount' \in 0 .. Total
  <2> HIDE DEF Gone
  <2> QED
    BY <1>1, <1>5, <1>6, EvalAssumption
<1>8. EvalTypeOK'
  BY <1>1, <1>3, <1>7 DEF EvalTypeOK
<1>9. Running' \in SUBSET Running /\ i \in Running
  BY <1>1, <1>3 DEF Running
<1>10. Cardinality(Running') <= workers /\ summary = NoSummary
  <2>1. Running \in SUBSET Idx /\ Running' \in SUBSET Idx
    BY <1>9 DEF Running
  <2>2. IsFiniteSet(Running) /\ Cardinality(Running) \in Nat /\ Cardinality(Running') \in Nat
    BY <2>1, FilesFinite, Zenon
  <2>3. Cardinality(Running') <= Cardinality(Running)
    BY <1>9, <2>2, FS_Subset
  <2>4. Cardinality(Running) <= workers /\ workers \in Nat
    BY EvalAssumption DEF FilesInOrder, EvalTypeOK
  <2>5. summary = NoSummary
    BY <1>9 DEF FilesInOrder
  <2>6. PICK r \in Nat : r = Cardinality(Running')
    BY <2>2
  <2>7. r <= workers
    BY <2>2, <2>3, <2>4, <2>6
  <2> QED
    BY <2>5, <2>6, <2>7
<1>11. FilesInOrder'
  <2>1. \A j \in Idx : evaluating'[j] = "waiting" <=> evaluating[j] = "waiting"
    BY <1>1, <1>3
  <2>2. \A j \in Idx : results'[j] # "blank" <=> evaluating'[j] \in {"count", "gone"}
    <3>1. \A j \in Idx : results[j] # "blank" <=> evaluating[j] \in {"count", "gone"}
      BY DEF FilesInOrder
    <3> QED
      BY <1>1, <1>3, <3>1
  <2>3. \A j \in Idx : j >= nextFile' => evaluating'[j] = "waiting"
    BY <1>1, <2>1, Zenon DEF FilesInOrder
  <2>4. ~ evalCancelled' => \A j \in Idx : evaluating'[j] = "waiting" => j >= nextFile'
    BY <1>1, <2>1, Zenon DEF FilesInOrder
  <2>5. doneCount' = Cardinality({j \in Idx : evaluating'[j] = "gone"})
    BY <1>4, <1>7, Zenon
  <2>6. workers' = workers /\ summary' = summary
    BY <1>1
  <2> QED
    BY <1>10, <2>2, <2>3, <2>4, <2>5, <2>6, Zenon DEF FilesInOrder
<1>12. SummaryHonest' /\ MeasuredAlone' /\ OwnSound'
  <2>1. SummaryHonest'
    BY <1>1, <1>10 DEF SummaryHonest
  <2>2. MeasuredAlone' /\ OwnSound'
    BY <1>1, <1>3 DEF MeasuredAlone, OwnSound
  <2> QED
    BY <2>1, <2>2
<1> QED
  BY <1>8, <1>11, <1>12, Monotone DEF TuningMonotone

(* The end: the files that failed, the ones measured and the ones never     *)
(* begun are all of them.                                                   *)
LEMMA ReturnKeepsInv ==
  ASSUME EvalInv, RunReturns
  PROVE  EvalInv'
<1> USE DEF EvalInv
<1> DEFINE Failed == {i \in Idx : results[i] = "failed"}
           Measured == {i \in Idx : results[i] = "ok"}
           Unbegun == {i \in Idx : evaluating[i] = "waiting"}
           Gone == {i \in Idx : evaluating[i] = "gone"}
<1>1. /\ nextFile > Total /\ Running = {} /\ summary = NoSummary
      /\ summary' = [processed |-> Total - Cardinality(Failed), failed |-> Cardinality(Failed)]
      /\ UNCHANGED <<workers, nextFile, evaluating, results, doneCount, evalCancelled, hears, clean>>
  BY DEF RunReturns, AggregateResults
<1>2. /\ evaluating \in [Idx -> {"waiting", "decode", "first", "reset", "second", "count", "gone"}]
      /\ results \in [Idx -> {"blank", "ok", "failed"}]
      /\ nextFile \in Nat /\ Total \in Nat
  BY EvalAssumption DEF EvalTypeOK
<1>3. \A i \in Idx : evaluating[i] = "waiting" \/ evaluating[i] = "gone"
  BY <1>1 DEF Running
<1>4. Gone = Failed \cup Measured /\ Failed \cap Measured = {}
  <2>1. \A i \in Idx : results[i] # "blank" <=> evaluating[i] \in {"count", "gone"}
    BY DEF FilesInOrder
  <2> QED
    BY <1>2, <1>3, <2>1
<1>5. Idx = Gone \cup Unbegun /\ Gone \cap Unbegun = {}
  BY <1>3
<1>6. PICK f \in Nat, m \in Nat, u \in Nat, g \in Nat :
        f = Cardinality(Failed) /\ m = Cardinality(Measured) /\ u = Cardinality(Unbegun) /\ g = Cardinality(Gone)
        /\ IsFiniteSet(Failed) /\ IsFiniteSet(Measured) /\ IsFiniteSet(Unbegun) /\ IsFiniteSet(Gone)
  <2>1. Failed \in SUBSET Idx /\ Measured \in SUBSET Idx /\ Unbegun \in SUBSET Idx /\ Gone \in SUBSET Idx
    OBVIOUS
  <2> HIDE DEF Failed, Measured, Unbegun, Gone
  <2> QED
    BY <2>1, FilesFinite
<1>7. g = f + m
  <2> HIDE DEF Failed, Measured, Gone
  <2>1. Cardinality({}) = 0
    BY FS_EmptySet
  <2>2. Cardinality(Failed \cup Measured) = Cardinality(Failed) + Cardinality(Measured)
                                            - Cardinality(Failed \cap Measured)
    BY <1>6, FS_Union
  <2>3. g = f + m - 0
    BY <1>4, <1>6, <2>1, <2>2, Zenon
  <2> QED
    BY <2>3
<1>8. Total = g + u
  <2> HIDE DEF Gone, Unbegun
  <2>1. Cardinality({}) = 0 /\ Cardinality(Idx) = Total
    BY FS_EmptySet, FilesFinite
  <2>2. Cardinality(Gone \cup Unbegun) = Cardinality(Gone) + Cardinality(Unbegun) - Cardinality(Gone \cap Unbegun)
    BY <1>6, FS_Union
  <2>3. Total = g + u - 0
    BY <1>5, <1>6, <2>1, <2>2, Zenon
  <2> QED
    BY <2>3
<1>9. doneCount = g
  BY <1>6 DEF FilesInOrder
<1>10. ~ evalCancelled => u = 0
  <2>1. ASSUME ~ evalCancelled PROVE Unbegun = {}
    <3>1. \A i \in Idx : ~ (i >= nextFile)
      BY <1>1, <1>2 DEF Idx
    <3> QED
      BY <2>1, <3>1 DEF FilesInOrder
  <2> HIDE DEF Unbegun
  <2> QED
    BY <1>6, <2>1, FS_EmptySet
<1>11. summary' = [processed |-> Total - f, failed |-> f]
  BY <1>1, <1>6, Zenon
<1>12. Total - f = m + u /\ Total - f \in Nat /\ Total - f <= Total /\ f <= Total
  BY <1>2, <1>6, <1>7, <1>8
<1>13. SummaryHonest'
  <2>1. /\ Cardinality({i \in Idx : results'[i] = "ok"}) = m
        /\ Cardinality({i \in Idx : evaluating'[i] = "waiting"}) = u
        /\ doneCount' = g /\ evalCancelled' = evalCancelled
    BY <1>1, <1>6, <1>9
  <2>2. summary'.processed = m + u /\ summary'.failed = f /\ (m + u) + f = Total /\ g = Total - u
    BY <1>7, <1>8, <1>11, <1>12
  <2> QED
    BY <1>10, <2>1, <2>2, Zenon DEF SummaryHonest
<1>14. EvalTypeOK'
  <2>1. summary' \in [processed : -1 .. Total, failed : -1 .. Total]
    <3>1. Total - f \in -1 .. Total /\ f \in -1 .. Total
      BY <1>2, <1>6, <1>12
    <3> QED
      BY <1>11, <3>1
  <2> QED
    BY <1>1, <2>1 DEF EvalTypeOK
<1>15. FilesInOrder' /\ MeasuredAlone' /\ OwnSound'
  <2>1. Running' = Running
    BY <1>1 DEF Running
  <2> QED
    BY <1>1, <2>1 DEF FilesInOrder, MeasuredAlone, OwnSound
<1> QED
  BY <1>13, <1>14, <1>15, Monotone DEF TuningMonotone

(* Every step of a batch.                                                 *)
LEMMA EvalStep ==
  ASSUME EvalInv, [EvalNext]_evalVars
  PROVE  EvalInv'
<1>1. CASE Launch \/ BreakLoop \/ CancelEval
  BY <1>1, LoopKeepsInv
<1>2. CASE RunReturns
  BY <1>2, ReturnKeepsInv
<1>3. CASE \E i \in Idx : \/ DecodeFile(i) \/ EvalFails(i) \/ FirstPassDone(i)
                          \/ ResetPipeline(i) \/ SecondPass(i)
  BY <1>3, StageKeepsInv
<1>4. CASE \E i \in Idx : EvalFrame(i)
  BY <1>4, FrameKeepsEvalInv
<1>5. CASE \E i \in Idx : CountDone(i)
  BY <1>5, CountKeepsInv
<1>6. CASE UNCHANGED evalVars
  <2>1. Running' = Running /\ UNCHANGED evalVars
    BY <1>6 DEF Running, evalVars
  <2>2. FilesInOrder'
    BY <2>1 DEF EvalInv, FilesInOrder, evalVars
  <2>3. EvalTypeOK' /\ MeasuredAlone' /\ OwnSound'
    BY <2>1 DEF EvalInv, EvalTypeOK, MeasuredAlone, OwnSound, evalVars
  <2>4. SummaryHonest'
    BY <2>1 DEF EvalInv, SummaryHonest, evalVars
  <2> QED
    BY <2>2, <2>3, <2>4, Monotone DEF EvalInv, TuningMonotone
<1> QED
  BY <1>1, <1>2, <1>3, <1>4, <1>5, <1>6 DEF EvalNext

(* However many files and workers there are, however they fail and whenever *)
(* the batch is cancelled: the summary counts each file once, and with one  *)
(* worker no file is measured with another's sound in the suppressor.       *)
THEOREM EvalInvariant == EvalSpec => []EvalInv
<1>1. EvalInit => EvalInv
  BY EvalInitInv
<1>2. EvalInv /\ [EvalNext]_evalVars => EvalInv'
  BY EvalStep
<1> QED
  BY <1>1, <1>2, PTL DEF EvalSpec

-----------------------------------------------------------------------------
(* The scoring of transcripts *)

(* Nothing, the empty choice of places, is common to any two texts.         *)
LEMMA NothingInCommon ==
  ASSUME NEW a, NEW b, NEW m \in Nat, NEW n \in Nat
  PROVE  CommonSubsequence(a, m, b, n, 0)
<1> DEFINE e == [i \in 1 .. 0 |-> 0]
<1>1. \A i \in 1 .. 0 : FALSE
  OBVIOUS
<1>2. \A N \in Nat : e \in Places(0, N)
  BY <1>1 DEF Places
<1> QED
  BY <1>1, <1>2 DEF CommonSubsequence

(* A text of no tokens has none in common with any other.                   *)
LEMMA EmptyInCommon ==
  ASSUME NEW a, NEW b, NEW m \in Nat, NEW n \in Nat, NEW k \in Nat, m = 0 \/ n = 0, k > 0
  PROVE  ~CommonSubsequence(a, m, b, n, k)
<1>1. 1 \in 1 .. k
  OBVIOUS
<1>2. ~ \E x \in 1 .. 0 : TRUE
  OBVIOUS
<1>3. Places(k, 0) = {}
  BY <1>1, <1>2 DEF Places
<1> QED
  BY <1>3 DEF CommonSubsequence

(* What two texts have in common is in common in either order.              *)
LEMMA CommonEitherWay ==
  ASSUME NEW a, NEW b, NEW m, NEW n, NEW k, CommonSubsequence(a, m, b, n, k)
  PROVE  CommonSubsequence(b, n, a, m, k)
BY DEF CommonSubsequence

(* Fewer places of a longer text.                                           *)
LEMMA PlacesWithin ==
  ASSUME NEW k \in Nat, NEW l \in Nat, NEW m \in Nat, NEW n \in Nat, k <= l, m <= n,
         NEW s \in Places(l, m), NEW t, t = [i \in 1 .. k |-> s[i]]
  PROVE  t \in Places(k, n)
<1>1. \A i \in 1 .. k : i \in 1 .. l
  OBVIOUS
<1>2. \A i \in 1 .. l : s[i] \in 1 .. m /\ \A j \in 1 .. l : i < j => s[i] < s[j]
  BY DEF Places
<1>3. \A x \in 1 .. m : x \in 1 .. n
  OBVIOUS
<1>4. t \in [1 .. k -> 1 .. n]
  BY <1>1, <1>2, <1>3
<1>5. \A i \in 1 .. k, j \in 1 .. k : i < j => t[i] < t[j]
  BY <1>1, <1>2
<1> QED
  BY <1>4, <1>5 DEF Places

(* Longer texts have no less in common, and any part of it.                 *)
LEMMA CommonGrows ==
  ASSUME NEW a, NEW b, NEW m \in Nat, NEW n \in Nat, NEW v \in Nat, NEW w \in Nat,
         NEW k \in Nat, NEW l \in Nat, m <= v, n <= w, k <= l,
         CommonSubsequence(a, m, b, n, l)
  PROVE  CommonSubsequence(a, v, b, w, k)
<1>1. PICK s \in Places(l, m), t \in Places(l, n) : \A i \in 1 .. l : a[s[i]] = b[t[i]]
  BY DEF CommonSubsequence
<1> DEFINE p == [i \in 1 .. k |-> s[i]]
           q == [i \in 1 .. k |-> t[i]]
<1>2. p \in Places(k, v) /\ q \in Places(k, w)
  <2>1. p = [i \in 1 .. k |-> s[i]] /\ q = [i \in 1 .. k |-> t[i]]
    OBVIOUS
  <2> HIDE DEF p, q
  <2> QED
    BY <2>1, PlacesWithin
<1>3. \A i \in 1 .. k : a[p[i]] = b[q[i]]
  BY <1>1
<1> HIDE DEF p, q
<1> QED
  BY <1>2, <1>3 DEF CommonSubsequence

(* One place more, after the others.                                        *)
LEMMA PlaceAfter ==
  ASSUME NEW k \in Nat, NEW m \in Nat, NEW s \in Places(k, m), NEW l \in Nat, l = k + 1,
         NEW n \in Nat, n = m + 1
  PROVE  [i \in 1 .. l |-> IF i = l THEN n ELSE s[i]] \in Places(l, n)
<1> DEFINE t == [i \in 1 .. l |-> IF i = l THEN n ELSE s[i]]
<1>1. \A i \in 1 .. k : s[i] \in 1 .. m /\ \A j \in 1 .. k : i < j => s[i] < s[j]
  BY DEF Places
<1>2. \A i \in 1 .. l : i # l => i \in 1 .. k
  OBVIOUS
<1>3. \A i \in 1 .. l : t[i] \in 1 .. n
  BY <1>1, <1>2
<1>4. ASSUME NEW i \in 1 .. l, NEW j \in 1 .. l, i < j PROVE t[i] < t[j]
  <2>1. i # l /\ i \in 1 .. k /\ s[i] \in 1 .. m /\ t[i] = s[i]
    BY <1>1, <1>2, <1>4
  <2>2. CASE j = l
    BY <2>1, <2>2
  <2>3. CASE j # l
    BY <1>1, <1>2, <1>4, <2>1, <2>3
  <2> QED
    BY <2>2, <2>3
<1> HIDE DEF t
<1>5. t \in [1 .. l -> 1 .. n]
  BY <1>3 DEF t
<1>6. t \in Places(l, n)
  BY <1>4, <1>5 DEF Places
<1> QED
  BY <1>6 DEF t

(* A choice of places whose last is not the last of the text.               *)
LEMMA PlacesBefore ==
  ASSUME NEW l \in Nat, NEW m \in Nat, NEW n \in Nat, n = m + 1, NEW s \in Places(l, n),
         l > 0, s[l] # n
  PROVE  s \in Places(l, m)
<1>1. \A i \in 1 .. l : s[i] \in 1 .. n /\ \A j \in 1 .. l : i < j => s[i] < s[j]
  BY DEF Places
<1>2. l \in 1 .. l
  OBVIOUS
<1>3. ASSUME NEW i \in 1 .. l PROVE s[i] \in 1 .. m
  <2>1. s[i] \in 1 .. n /\ s[l] \in 1 .. n /\ (i < l => s[i] < s[l])
    BY <1>1, <1>2
  <2> QED
    BY <2>1
<1> QED
  BY <1>3 DEF Places

(* All places but the last of them.                                         *)
LEMMA PlacesButLast ==
  ASSUME NEW k \in Nat, NEW l \in Nat, l = k + 1, NEW m \in Nat, NEW n \in Nat, n = m + 1,
         NEW s \in Places(l, n)
  PROVE  [i \in 1 .. k |-> s[i]] \in Places(k, m)
<1> DEFINE t == [i \in 1 .. k |-> s[i]]
<1>1. \A i \in 1 .. l : s[i] \in 1 .. n /\ \A j \in 1 .. l : i < j => s[i] < s[j]
  BY DEF Places
<1>2. l \in 1 .. l /\ \A i \in 1 .. k : i \in 1 .. l /\ i < l
  OBVIOUS
<1>3. ASSUME NEW i \in 1 .. k PROVE t[i] \in 1 .. m
  <2>1. s[i] \in 1 .. n /\ s[l] \in 1 .. n /\ s[i] < s[l]
    BY <1>1, <1>2
  <2> QED
    BY <2>1
<1>4. \A i \in 1 .. k, j \in 1 .. k : i < j => t[i] < t[j]
  BY <1>1, <1>2
<1> QED
  BY <1>3, <1>4 DEF Places

(* A token that ends both texts is in what they have in common.             *)
LEMMA MatchStep ==
  ASSUME NEW a, NEW b, NEW m \in Nat, NEW n \in Nat, NEW k \in Nat,
         NEW v \in Nat, v = m + 1, NEW w \in Nat, w = n + 1, NEW l \in Nat, l = k + 1,
         a[v] = b[w]
  PROVE  CommonSubsequence(a, v, b, w, l) <=> CommonSubsequence(a, m, b, n, k)
<1>1. ASSUME CommonSubsequence(a, m, b, n, k) PROVE CommonSubsequence(a, v, b, w, l)
  <2>1. PICK s \in Places(k, m), t \in Places(k, n) : \A i \in 1 .. k : a[s[i]] = b[t[i]]
    BY <1>1 DEF CommonSubsequence
  <2> DEFINE p == [i \in 1 .. l |-> IF i = l THEN v ELSE s[i]]
             q == [i \in 1 .. l |-> IF i = l THEN w ELSE t[i]]
  <2>2. p \in Places(l, v) /\ q \in Places(l, w)
    BY PlaceAfter
  <2>3. \A i \in 1 .. l : i # l => i \in 1 .. k
    OBVIOUS
  <2>4. \A i \in 1 .. l : a[p[i]] = b[q[i]]
    BY <2>1, <2>3
  <2> HIDE DEF p, q
  <2> QED
    BY <2>2, <2>4 DEF CommonSubsequence
<1>2. ASSUME CommonSubsequence(a, v, b, w, l) PROVE CommonSubsequence(a, m, b, n, k)
  <2>1. PICK s \in Places(l, v), t \in Places(l, w) : \A i \in 1 .. l : a[s[i]] = b[t[i]]
    BY <1>2 DEF CommonSubsequence
  <2> DEFINE p == [i \in 1 .. k |-> s[i]]
             q == [i \in 1 .. k |-> t[i]]
  <2>2. p \in Places(k, m) /\ q \in Places(k, n)
    BY PlacesButLast
  <2>3. \A i \in 1 .. k : i \in 1 .. l
    OBVIOUS
  <2>4. \A i \in 1 .. k : a[p[i]] = b[q[i]]
    BY <2>1, <2>3
  <2> HIDE DEF p, q
  <2> QED
    BY <2>2, <2>4 DEF CommonSubsequence
<1> QED
  BY <1>1, <1>2

(* Texts that end differently: one of the two last tokens is not needed.    *)
LEMMA DifferStep ==
  ASSUME NEW a, NEW b, NEW m \in Nat, NEW n \in Nat, NEW k \in Nat,
         NEW v \in Nat, v = m + 1, NEW w \in Nat, w = n + 1, a[v] # b[w],
         CommonSubsequence(a, v, b, w, k)
  PROVE  CommonSubsequence(a, m, b, w, k) \/ CommonSubsequence(a, v, b, n, k)
<1>1. CASE k = 0
  BY <1>1, NothingInCommon
<1>2. CASE k > 0
  <2>1. PICK s \in Places(k, v), t \in Places(k, w) : \A i \in 1 .. k : a[s[i]] = b[t[i]]
    BY DEF CommonSubsequence
  <2>2. a[s[k]] = b[t[k]]
    <3>1. k \in 1 .. k
      BY <1>2
    <3> QED
      BY <2>1, <3>1
  <2>3. CASE s[k] # v
    <3>1. s \in Places(k, m)
      BY <1>2, <2>3, PlacesBefore
    <3> QED
      BY <2>1, <3>1 DEF CommonSubsequence
  <2>4. CASE t[k] # w
    <3>1. t \in Places(k, n)
      BY <1>2, <2>4, PlacesBefore
    <3> QED
      BY <2>1, <3>1 DEF CommonSubsequence
  <2> QED
    BY <2>2, <2>3, <2>4
<1> QED
  BY <1>1, <1>2

(* There is one longest.                                                    *)
LEMMA OneLongest ==
  ASSUME NEW a, NEW b, NEW m \in Nat, NEW n \in Nat, NEW k \in Nat, NEW l \in Nat,
         IsLongest(a, m, b, n, k), IsLongest(a, m, b, n, l)
  PROVE  k = l
<1>1. ASSUME NEW x \in Nat, NEW y \in Nat, x < y, ~CommonSubsequence(a, m, b, n, x + 1)
      PROVE  ~CommonSubsequence(a, m, b, n, y)
  <2>1. x + 1 \in Nat /\ x + 1 <= y
    BY <1>1
  <2> QED
    BY <1>1, <2>1, CommonGrows
<1>2. ~(k < l) /\ ~(l < k)
  BY <1>1 DEF IsLongest
<1> QED
  BY <1>2

(* The entry of the row from the three before it.                           *)
LEMMA LongestStep ==
  ASSUME NEW a, NEW b, NEW m \in Nat, NEW n \in Nat, NEW v \in Nat, v = m + 1,
         NEW w \in Nat, w = n + 1, NEW x \in Nat, NEW y \in Nat, NEW z \in Nat,
         IsLongest(a, m, b, n, x), IsLongest(a, m, b, w, y), IsLongest(a, v, b, n, z)
  PROVE  /\ a[v] = b[w] => IsLongest(a, v, b, w, x + 1)
         /\ a[v] # b[w] => IsLongest(a, v, b, w, Larger(y, z))
<1>1. ASSUME a[v] = b[w] PROVE IsLongest(a, v, b, w, x + 1)
  <2>1. x + 1 \in Nat /\ x + 1 + 1 \in Nat
    OBVIOUS
  <2>2. \A k \in Nat : \A l \in Nat :
          l = k + 1 => (CommonSubsequence(a, v, b, w, l) <=> CommonSubsequence(a, m, b, n, k))
    BY <1>1, MatchStep
  <2> QED
    BY <2>1, <2>2 DEF IsLongest
<1>2. ASSUME a[v] # b[w] PROVE IsLongest(a, v, b, w, Larger(y, z))
  <2>1. PICK k \in Nat : k = Larger(y, z) /\ (k = y \/ k = z) /\ y <= k /\ z <= k
    BY DEF Larger
  <2>2. CommonSubsequence(a, v, b, w, k)
    <3>1. m <= v /\ n <= w /\ v <= v /\ w <= w /\ k <= k
      OBVIOUS
    <3>2. CASE k = y
      BY <3>1, <3>2, CommonGrows DEF IsLongest
    <3>3. CASE k = z
      BY <3>1, <3>3, CommonGrows DEF IsLongest
    <3> QED
      BY <2>1, <3>2, <3>3
  <2>3. ~CommonSubsequence(a, v, b, w, k + 1)
    <3>1. k + 1 \in Nat /\ y + 1 \in Nat /\ z + 1 \in Nat /\ y + 1 <= k + 1 /\ z + 1 <= k + 1
      BY <2>1
    <3>2. ~CommonSubsequence(a, m, b, w, k + 1)
      BY <3>1, CommonGrows DEF IsLongest
    <3>3. ~CommonSubsequence(a, v, b, n, k + 1)
      BY <3>1, CommonGrows DEF IsLongest
    <3> QED
      BY <1>2, <3>1, <3>2, <3>3, DifferStep
  <2> QED
    BY <2>1, <2>2, <2>3 DEF IsLongest
<1> QED
  BY <1>1, <1>2

(* The entries of a row of v tokens of a, as far as n tokens of b.          *)
RowTo(r, a, v, b, n) ==
  r \in Seq(Nat) /\ Len(r) = n + 1 /\ \A j \in 0 .. n : IsLongest(a, v, b, j, r[j + 1])

(* The row of no tokens is all zeros, and every row begins with a zero.     *)
LEMMA NoTokens ==
  ASSUME NEW a, NEW b, NEW m \in Nat, NEW n \in Nat, m = 0 \/ n = 0
  PROVE  IsLongest(a, m, b, n, 0)
<1>1. 0 + 1 \in Nat /\ 0 + 1 > 0
  OBVIOUS
<1> QED
  BY <1>1, NothingInCommon, EmptyInCommon DEF IsLongest

(* The next entry of the row in hand.                                       *)
LEMMA RowEntry ==
  ASSUME NEW a, NEW b, NEW m \in Nat, NEW v \in Nat, v = m + 1, NEW n \in Nat, NEW w \in Nat,
         w = n + 1, NEW l \in Nat, w <= l, NEW prev, RowTo(prev, a, m, b, l),
         NEW r, RowTo(r, a, v, b, n)
  PROVE  RowTo(Append(r, IF a[v] = b[w] THEN prev[w] + 1 ELSE Larger(prev[w + 1], r[w])), a, v, b, w)
<1> DEFINE e == IF a[v] = b[w] THEN prev[w] + 1 ELSE Larger(prev[w + 1], r[w])
           q == Append(r, e)
<1>1. PICK x \in Nat, y \in Nat, z \in Nat :
        /\ x = prev[w] /\ y = prev[w + 1] /\ z = r[w]
        /\ IsLongest(a, m, b, n, x) /\ IsLongest(a, m, b, w, y) /\ IsLongest(a, v, b, n, z)
  <2>1. n \in 0 .. l /\ w \in 0 .. l /\ n \in 0 .. n /\ n + 1 = w
    OBVIOUS
  <2>2. Len(prev) = l + 1 /\ prev \in Seq(Nat) /\ Len(r) = w /\ r \in Seq(Nat)
    BY DEF RowTo
  <2>3. w \in 1 .. Len(prev) /\ w + 1 \in 1 .. Len(prev) /\ w \in 1 .. Len(r)
    BY <2>2
  <2>4. prev[w] \in Nat /\ prev[w + 1] \in Nat /\ r[w] \in Nat
    BY <2>2, <2>3
  <2>5. IsLongest(a, m, b, n, prev[n + 1]) /\ IsLongest(a, m, b, w, prev[w + 1])
        /\ IsLongest(a, v, b, n, r[n + 1])
    BY ONLY <2>1, RowTo(prev, a, m, b, l), RowTo(r, a, v, b, n), Zenon DEF RowTo
  <2> QED
    BY <2>1, <2>4, <2>5
<1>2. e \in Nat /\ IsLongest(a, v, b, w, e)
  <2>1. CASE a[v] = b[w]
    <3>1. e = x + 1
      BY <1>1, <2>1
    <3>2. IsLongest(a, v, b, w, x + 1)
      BY <1>1, <2>1, LongestStep
    <3> HIDE DEF e
    <3> QED
      BY <3>1, <3>2
  <2>2. CASE a[v] # b[w]
    <3>1. e = Larger(y, z) /\ Larger(y, z) \in Nat
      BY <1>1, <2>2 DEF Larger
    <3>2. IsLongest(a, v, b, w, Larger(y, z))
      BY <1>1, <2>2, LongestStep
    <3> HIDE DEF e
    <3> QED
      BY <3>1, <3>2
  <2> QED
    BY <2>1, <2>2
<1> HIDE DEF e
<1>3. r \in Seq(Nat) /\ Len(r) = w
  BY DEF RowTo
<1>4. q \in Seq(Nat) /\ Len(q) = w + 1 /\ q[w + 1] = e
      /\ \A i \in 1 .. w : q[i] = r[i]
  BY <1>2, <1>3
<1> HIDE DEF q
<1>5. ASSUME NEW j \in 0 .. w PROVE IsLongest(a, v, b, j, q[j + 1])
  <2>1. CASE j = w
    BY <1>2, <1>4, <2>1
  <2>2. CASE j # w
    <3>1. j \in 0 .. n /\ j + 1 \in 1 .. w
      BY <2>2
    <3>2. IsLongest(a, v, b, j, r[j + 1]) /\ q[j + 1] = r[j + 1]
      BY <1>4, <3>1 DEF RowTo
    <3> QED
      BY <3>2
  <2> QED
    BY <2>1, <2>2
<1>6. RowTo(q, a, v, b, w)
  BY <1>4, <1>5 DEF RowTo
<1> QED
  BY <1>6 DEF q, e

(* A row from the one before.                                               *)
LEMMA RowAfter ==
  ASSUME NEW a, NEW b \in Seq(Nat), NEW m \in Nat, NEW v \in Nat, v = m + 1,
         NEW prev, RowTo(prev, a, m, b, Len(b))
  PROVE  RowTo(NextRow(prev, a[v], b), a, v, b, Len(b))
<1> DEFINE l == Len(b)
           p == <<prev, a[v], b>>
           iter == CHOOSE g : IsFold(g, "row", p, <<0>>, l)
           T == {k \in 0 .. l : ~ RowTo(iter[1 .. k], a, v, b, k)}
<1>1. l \in Nat /\ DOMAIN b = 1 .. l
  OBVIOUS
<1>2. NextRow(prev, a[v], b) = iter[1 .. l]
  <2> DEFINE entry(curr, j) == Append(curr, IF a[v] = b[j] THEN prev[j] + 1 ELSE Larger(prev[j + 1], curr[j]))
             ids == [i \in DOMAIN b |-> i]
             Chosen(g) == g = [s \in SUBSET (DOMAIN ids) |->
                                IF s = {} THEN <<0>> ELSE entry(g[s \ {Max(s)}], ids[Max(s)])]
  <2>1. NextRow(prev, a[v], b) = (CHOOSE g : Chosen(g))[DOMAIN ids]
    BY DEF NextRow, FoldLeftDomain, FoldLeft, MapThenFoldSet
  <2>2. DOMAIN ids = 1 .. l
    BY <1>1
  <2>3. ASSUME NEW s \in SUBSET (1 .. l), s # {} PROVE ids[Max(s)] = Max(s)
    <3>1. s \in SUBSET Nat /\ \A u \in s : u <= l
      BY <1>1
    <3>2. PICK u \in s : \A w \in s : w <= u
      BY <1>1, <2>3, <3>1, LargestElement
    <3>3. \A w \in s : u >= w
      BY <1>1, <3>2
    <3>4. Max(s) \in s
      BY <3>3, Zenon DEF Max
    <3>5. Max(s) \in DOMAIN b
      BY <1>1, <3>4
    <3> QED
      BY <3>5
  <2>4. ASSUME NEW g PROVE Chosen(g) <=> IsFold(g, "row", p, <<0>>, l)
    <3>1. ASSUME NEW j, NEW curr PROVE FoldStep("row", p, j, curr) = entry(curr, j)
      BY DEF FoldStep
    <3> HIDE DEF entry, ids, p
    <3> DEFINE F == [s \in SUBSET (1 .. l) |->
                      IF s = {} THEN <<0>> ELSE entry(g[s \ {Max(s)}], ids[Max(s)])]
               G == [s \in SUBSET (1 .. l) |->
                      IF s = {} THEN <<0>> ELSE FoldStep("row", p, Max(s), g[s \ {Max(s)}])]
    <3>2. ASSUME NEW s \in SUBSET (1 .. l) PROVE F[s] = G[s]
      BY <2>3, <3>1, Zenon
    <3>3. F = G
      BY <3>2, Zenon
    <3> QED
      BY <2>2, <3>3, Zenon DEF IsFold
  <2> HIDE DEF Chosen
  <2>5. (CHOOSE g : Chosen(g)) = iter
    BY <2>4, Zenon
  <2> QED
    BY <2>1, <2>2, <2>5, Zenon
<1>3. IsFold(iter, "row", p, <<0>>, l)
  <2> HIDE DEF p
  <2>1. \E g : IsFold(g, "row", p, <<0>>, l)
    BY <1>1, FoldExists
  <2> QED
    BY <2>1, Zenon
<1> HIDE DEF iter
<1>4. iter[{}] = <<0>>
  <2> HIDE DEF p
  <2> QED
    BY <1>1, <1>3, FoldTakes
<1>5. ASSUME NEW k \in 1 .. l
      PROVE  iter[1 .. k] = Append(iter[1 .. k - 1], IF a[v] = b[k] THEN prev[k] + 1
                                                   ELSE Larger(prev[k + 1], iter[1 .. k - 1][k]))
  <2>1. iter[1 .. k] = FoldStep("row", p, k, iter[1 .. k - 1])
    <3> HIDE DEF p
    <3> QED
      BY <1>1, <1>3, FoldTakes
  <2> QED
    BY <2>1 DEF FoldStep
<1>6. T = {}
  <2> SUFFICES ASSUME T # {} PROVE FALSE
    OBVIOUS
  <2>1. PICK k \in T : \A u \in T : k <= u
    <3>1. T \in SUBSET Nat
      BY <1>1
    <3> HIDE DEF T
    <3> QED
      BY <3>1, LeastElement
  <2>2. k \in 0 .. l /\ k \in Nat /\ ~ RowTo(iter[1 .. k], a, v, b, k)
    BY <1>1
  <2>3. CASE k = 0
    <3>1. iter[1 .. k] = <<0>>
      <4>1. 1 .. 0 = {}
        OBVIOUS
      <4> QED
        BY <1>4, <2>3, <4>1, Zenon
    <3>2. IsLongest(a, v, b, 0, 0)
      BY NoTokens
    <3>3. <<0>> \in Seq(Nat) /\ Len(<<0>>) = 0 + 1 /\ <<0>>[0 + 1] = 0 /\ \A j \in 0 .. 0 : j = 0
      OBVIOUS
    <3>4. RowTo(<<0>>, a, v, b, 0)
      BY <3>2, <3>3 DEF RowTo
    <3> QED
      BY <2>2, <2>3, <3>1, <3>4, Zenon
  <2>4. CASE k # 0
    <3>1. PICK n \in Nat : n = k - 1 /\ k = n + 1 /\ n < k /\ n \in 0 .. l /\ k \in 1 .. l
      BY <1>1, <2>2, <2>4
    <3>2. RowTo(iter[1 .. n], a, v, b, n)
      <4>1. ~ (n \in T)
        <5> HIDE DEF T
        <5> QED
          BY <2>1, <2>2, <3>1
      <4> QED
        BY <3>1, <4>1
    <3>3. k <= l
      BY <3>1
    <3> HIDE DEF T
    <3>4. RowTo(Append(iter[1 .. n], IF a[v] = b[k] THEN prev[k] + 1
                                     ELSE Larger(prev[k + 1], iter[1 .. n][k])), a, v, b, k)
      BY <1>1, <2>2, <3>1, <3>2, <3>3, RowEntry
    <3> QED
      BY <1>5, <2>2, <3>1, <3>4, Zenon
  <2> QED
    BY <2>3, <2>4
<1>7. l \in 0 .. l
  BY <1>1
<1>8. RowTo(iter[1 .. l], a, v, b, l)
  BY <1>6, <1>7
<1> QED
  BY <1>2, <1>8, Zenon

(* Two rows are enough for the longest common subsequence.                  *)
LEMMA LcsLongest ==
  ASSUME NEW a \in Seq(Nat), NEW b \in Seq(Nat)
  PROVE  lcsMatcher(a, b) \in Nat /\ IsLongest(a, Len(a), b, Len(b), lcsMatcher(a, b))
<1> DEFINE l == Len(a)
           p == <<a, b>>
           zeros == [j \in 1 .. Len(b) + 1 |-> 0]
           iter == CHOOSE g : IsFold(g, "rows", p, zeros, l)
           T == {k \in 0 .. l : ~ RowTo(iter[1 .. k], a, k, b, Len(b))}
<1>1. l \in Nat /\ DOMAIN a = 1 .. l /\ Len(b) \in Nat
  OBVIOUS
<1>2. lcsMatcher(a, b) = iter[1 .. l][Len(b) + 1]
  <2> DEFINE Chosen(g) == g = [s \in SUBSET (DOMAIN a) |->
                                IF s = {} THEN zeros ELSE NextRow(g[s \ {Max(s)}], a[Max(s)], b)]
  <2>1. lcsMatcher(a, b) = (CHOOSE g : Chosen(g))[DOMAIN a][Len(b) + 1]
    BY DEF lcsMatcher, FoldLeft, MapThenFoldSet
  <2>2. ASSUME NEW g PROVE Chosen(g) <=> IsFold(g, "rows", p, zeros, l)
    <3>1. ASSUME NEW j, NEW r PROVE FoldStep("rows", p, j, r) = NextRow(r, a[j], b)
      BY DEF FoldStep
    <3> HIDE DEF p, zeros
    <3> DEFINE F == [s \in SUBSET (1 .. l) |->
                      IF s = {} THEN zeros ELSE NextRow(g[s \ {Max(s)}], a[Max(s)], b)]
               G == [s \in SUBSET (1 .. l) |->
                      IF s = {} THEN zeros ELSE FoldStep("rows", p, Max(s), g[s \ {Max(s)}])]
    <3>2. ASSUME NEW s \in SUBSET (1 .. l) PROVE F[s] = G[s]
      BY <3>1, Zenon
    <3>3. F = G
      BY <3>2, Zenon
    <3> QED
      BY <1>1, <3>3, Zenon DEF IsFold
  <2> HIDE DEF Chosen
  <2>3. (CHOOSE g : Chosen(g)) = iter
    BY <2>2, Zenon
  <2> QED
    BY <1>1, <2>1, <2>3, Zenon
<1>3. IsFold(iter, "rows", p, zeros, l)
  <2> HIDE DEF p, zeros
  <2>1. \E g : IsFold(g, "rows", p, zeros, l)
    BY <1>1, FoldExists
  <2> QED
    BY <2>1, Zenon
<1> HIDE DEF iter
<1>4. iter[{}] = zeros
  <2> HIDE DEF p, zeros
  <2> QED
    BY <1>1, <1>3, FoldTakes
<1>5. ASSUME NEW k \in 1 .. l PROVE iter[1 .. k] = NextRow(iter[1 .. k - 1], a[k], b)
  <2>1. iter[1 .. k] = FoldStep("rows", p, k, iter[1 .. k - 1])
    <3> HIDE DEF p, zeros
    <3> QED
      BY <1>1, <1>3, FoldTakes
  <2> QED
    BY <2>1 DEF FoldStep
<1>6. RowTo(zeros, a, 0, b, Len(b))
  <2>1. zeros \in Seq(Nat) /\ Len(zeros) = Len(b) + 1
    BY <1>1
  <2>2. ASSUME NEW j \in 0 .. Len(b) PROVE IsLongest(a, 0, b, j, zeros[j + 1])
    <3>1. zeros[j + 1] = 0
      BY <1>1
    <3>2. IsLongest(a, 0, b, j, 0)
      BY NoTokens
    <3> HIDE DEF zeros
    <3> QED
      BY <3>1, <3>2
  <2> HIDE DEF zeros
  <2> QED
    BY <2>1, <2>2 DEF RowTo
<1> HIDE DEF zeros
<1>7. T = {}
  <2> SUFFICES ASSUME T # {} PROVE FALSE
    OBVIOUS
  <2>1. PICK k \in T : \A u \in T : k <= u
    <3>1. T \in SUBSET Nat
      BY <1>1
    <3> HIDE DEF T
    <3> QED
      BY <3>1, LeastElement
  <2>2. k \in 0 .. l /\ k \in Nat /\ ~ RowTo(iter[1 .. k], a, k, b, Len(b))
    BY <1>1
  <2>3. CASE k = 0
    <3>1. 1 .. 0 = {}
      OBVIOUS
    <3> HIDE DEF T
    <3> QED
      BY <1>4, <1>6, <2>2, <2>3, <3>1, Zenon
  <2>4. CASE k # 0
    <3>1. PICK n \in Nat : n = k - 1 /\ k = n + 1 /\ n < k /\ n \in 0 .. l /\ k \in 1 .. l
      BY <1>1, <2>2, <2>4
    <3>2. RowTo(iter[1 .. n], a, n, b, Len(b))
      <4>1. ~ (n \in T)
        <5> HIDE DEF T
        <5> QED
          BY <2>1, <2>2, <3>1
      <4> QED
        BY <3>1, <4>1
    <3> HIDE DEF T
    <3>3. RowTo(NextRow(iter[1 .. n], a[k], b), a, k, b, Len(b))
      BY <2>2, <3>1, <3>2, RowAfter
    <3> QED
      BY <1>5, <2>2, <3>1, <3>3, Zenon
  <2> QED
    BY <2>3, <2>4
<1>8. RowTo(iter[1 .. l], a, l, b, Len(b))
  <2>1. l \in 0 .. l
    BY <1>1
  <2> QED
    BY <1>7, <2>1
<1>9. PICK r : r = iter[1 .. l]
  OBVIOUS
<1>10. r \in Seq(Nat) /\ Len(r) = Len(b) + 1 /\ IsLongest(a, l, b, Len(b), r[Len(b) + 1])
  <2>1. RowTo(r, a, l, b, Len(b))
    BY <1>8, <1>9, Zenon
  <2>2. Len(b) \in 0 .. Len(b)
    BY <1>1
  <2> QED
    BY <2>1, <2>2 DEF RowTo
<1>11. r[Len(b) + 1] \in Nat
  BY <1>1, <1>10
<1> QED
  BY <1>2, <1>9, <1>10, <1>11, Zenon

(* What a row of the results says of its two texts.                         *)
LEMMA RowIsLongest ==
  ASSUME NEW s \in Texts, NEW t \in Texts
  PROVE  /\ lcsMatcher(s, t) \in Nat
         /\ IsLongest(s, Len(s), t, Len(t), lcsMatcher(s, t))
         /\ lcsMatcher(s, t) = lcsMatcher(t, s)
<1>1. s \in Seq(Nat) /\ t \in Seq(Nat) /\ Len(s) \in Nat /\ Len(t) \in Nat
  BY ScorerAssumption
<1>2. PICK x \in Nat : x = lcsMatcher(s, t) /\ IsLongest(s, Len(s), t, Len(t), x)
  BY <1>1, LcsLongest
<1>3. PICK y \in Nat : y = lcsMatcher(t, s) /\ IsLongest(t, Len(t), s, Len(s), y)
  BY <1>1, LcsLongest
<1>4. IsLongest(s, Len(s), t, Len(t), y)
  BY <1>3, CommonEitherWay DEF IsLongest
<1>5. x = y
  BY <1>1, <1>2, <1>4, OneLongest
<1> QED
  BY <1>2, <1>3, <1>5

(* The rows with an opinion of the model.                                   *)
Opinions(q) == {i \in 1 .. Len(q) : q[i].llm >= 0}
RowType == [pair : Texts \X Texts, matched : Nat, llm : -1 .. 1, error : BOOLEAN]

LEMMA OpinionsFinite ==
  ASSUME NEW q \in Seq(RowType)
  PROVE  IsFiniteSet(Opinions(q)) /\ Cardinality(Opinions(q)) \in Nat
         /\ Cardinality(Opinions(q)) <= Len(q)
<1>1. Len(q) \in Nat /\ Opinions(q) \in SUBSET (1 .. Len(q))
  BY DEF Opinions
<1>2. IsFiniteSet(1 .. Len(q)) /\ Cardinality(1 .. Len(q)) = Len(q)
  <2>1. PICK n \in Nat : n = Len(q)
    BY <1>1
  <2>2. IsFiniteSet(1 .. n) /\ Cardinality(1 .. n) = n
    BY FS_Interval
  <2> QED
    BY <2>1, <2>2, Zenon
<1> QED
  BY <1>1, <1>2, FS_Subset, FS_CardinalityType

(* A row appended to the results.                                           *)
LEMMA RowAppended ==
  ASSUME ScorerTypeOK, MatchedIsLongest, NEW p \in Texts \X Texts, NEW llm \in -1 .. 1,
         NEW error \in BOOLEAN, rows' = Append(rows, Row(p, llm, error))
  PROVE  /\ rows' \in Seq(RowType) /\ Len(rows') = Len(rows) + 1 /\ MatchedIsLongest'
         /\ Cardinality(Opinions(rows')) = Cardinality(Opinions(rows)) + (IF llm >= 0 THEN 1 ELSE 0)
<1> DEFINE r == Row(p, llm, error)
           n == Len(rows)
<1>1. rows \in Seq(RowType) /\ n \in Nat
  BY DEF ScorerTypeOK, RowType
<1>2. PICK s \in Texts, t \in Texts : p = <<s, t>> /\ p[1] = s /\ p[2] = t
  OBVIOUS
<1>3. /\ r.pair = p /\ r.matched = lcsMatcher(s, t) /\ r.llm = llm /\ r.error = error
      /\ r \in RowType
  <2>1. lcsMatcher(s, t) \in Nat
    BY RowIsLongest
  <2>2. r = [pair |-> p, matched |-> lcsMatcher(s, t), llm |-> llm, error |-> error]
    BY <1>2, Zenon DEF Row
  <2> HIDE DEF r
  <2> QED
    BY <2>1, <2>2 DEF RowType
<1> HIDE DEF r
<1>4. rows' = Append(rows, r)
  BY DEF r
<1>5. /\ rows' \in Seq(RowType) /\ Len(rows') = n + 1 /\ rows'[n + 1] = r
      /\ \A i \in 1 .. n : rows'[i] = rows[i]
  BY <1>1, <1>3, <1>4
<1>6. MatchedIsLongest'
  <2>1. ASSUME NEW i \in 1 .. n + 1 PROVE rows'[i] = r \/ \E j \in 1 .. n : rows'[i] = rows[j]
    BY <1>1, <1>5
  <2>2. ASSUME NEW q \in Range(rows') PROVE q = r \/ q \in Range(rows)
    <3>1. DOMAIN rows' = 1 .. n + 1 /\ DOMAIN rows = 1 .. n
      BY <1>1, <1>5
    <3> QED
      BY <2>1, <2>2, <3>1, Zenon DEF Range
  <2>3. /\ IsLongest(r.pair[1], Len(r.pair[1]), r.pair[2], Len(r.pair[2]), r.matched)
        /\ r.matched = lcsMatcher(r.pair[2], r.pair[1])
    <3>1. /\ lcsMatcher(s, t) = lcsMatcher(t, s)
          /\ IsLongest(s, Len(s), t, Len(t), lcsMatcher(s, t))
      BY RowIsLongest
    <3>2. r.pair[1] = s /\ r.pair[2] = t /\ r.matched = lcsMatcher(s, t)
      BY <1>2, <1>3, Zenon
    <3> QED
      BY <3>1, <3>2, Zenon
  <2> QED
    BY <2>2, <2>3, Zenon DEF MatchedIsLongest
<1>7. Cardinality(Opinions(rows')) = Cardinality(Opinions(rows)) + (IF llm >= 0 THEN 1 ELSE 0)
  <2>1. IsFiniteSet(Opinions(rows)) /\ Cardinality(Opinions(rows)) \in Nat
    BY <1>1, OpinionsFinite
  <2>2. ~ (n + 1 \in Opinions(rows))
    BY <1>1 DEF Opinions
  <2>3. \A i \in 1 .. n + 1 : i \in 1 .. n \/ i = n + 1
    BY <1>1
  <2>4. 1 .. n \subseteq 1 .. n + 1 /\ n + 1 \in 1 .. n + 1
    BY <1>1
  <2>5. CASE llm >= 0
    <3>1. Opinions(rows') = Opinions(rows) \cup {n + 1}
      <4>1. ASSUME NEW i \in Opinions(rows') PROVE i \in Opinions(rows) \cup {n + 1}
        BY <1>5, <2>3, <4>1 DEF Opinions
      <4>2. ASSUME NEW i \in Opinions(rows) PROVE i \in Opinions(rows')
        BY <1>5, <2>4, <4>2 DEF Opinions
      <4>3. n + 1 \in Opinions(rows')
        BY <1>3, <1>5, <2>4, <2>5 DEF Opinions
      <4> QED
        BY <4>1, <4>2, <4>3
    <3>2. Cardinality(Opinions(rows) \cup {n + 1}) = Cardinality(Opinions(rows)) + 1
      BY <2>1, <2>2, FS_AddElement
    <3> QED
      BY <2>5, <3>1, <3>2
  <2>6. CASE ~(llm >= 0)
    <3>1. Opinions(rows') = Opinions(rows)
      <4>1. ASSUME NEW i \in Opinions(rows') PROVE i \in Opinions(rows)
        BY <1>3, <1>5, <2>3, <2>6, <4>1 DEF Opinions
      <4>2. ASSUME NEW i \in Opinions(rows) PROVE i \in Opinions(rows')
        BY <1>5, <2>4, <4>2 DEF Opinions
      <4> QED
        BY <4>1, <4>2
    <3> QED
      BY <2>1, <2>6, <3>1
  <2> QED
    BY <2>5, <2>6
<1> QED
  BY <1>5, <1>6, <1>7

(* What the invariant says, taken apart.                                    *)
LEMMA ScorerTypes ==
  ASSUME ScorerInv
  PROVE  /\ scoring \in {"next", "limit", "ask"} /\ pair \in Texts \X Texts
         /\ now \in Nat /\ lastCall \in Int /\ endpoint \in BOOLEAN /\ ctxDone \in BOOLEAN
         /\ rows \in Seq(RowType) /\ calls \in Seq([from : Nat, to : Nat])
         /\ skipped \in Nat /\ nLLM \in Nat /\ seen \in Nat /\ seen <= MaxPairs
         /\ Len(rows) + skipped + (IF scoring = "next" THEN 0 ELSE 1) = seen
         /\ nLLM = Cardinality(Opinions(rows))
         /\ RateLimitDelay \in Nat /\ MaxPairs \in Nat /\ CallTime \in Nat
BY ScorerAssumption DEF ScorerInv, ScorerTypeOK, PairsAccountedFor, RowType, Opinions, RateLimitDelay

(* The counts are bounded, since they account for the pairs seen.           *)
LEMMA ScorerCounts ==
  ASSUME NEW q \in Seq(RowType), NEW sk \in Nat, NEW n, NEW w \in {0, 1}, NEW sn \in Nat,
         Len(q) + sk + w = sn, n = Cardinality(Opinions(q)), sn <= MaxPairs
  PROVE  sk \in 0 .. MaxPairs /\ n \in 0 .. MaxPairs /\ sn \in 0 .. MaxPairs
<1>1. MaxPairs \in Nat /\ Len(q) \in Nat
  BY ScorerAssumption
<1>2. n \in Nat /\ n <= Len(q)
  BY OpinionsFinite
<1> QED
  BY <1>1, <1>2

(* Before any pair. *)
LEMMA ScorerInitInv ==
  ASSUME ScorerInit
  PROVE  ScorerInv
<1>1. rows = << >> /\ calls = << >> /\ rows \in Seq(RowType) /\ Len(rows) = 0 /\ Len(calls) = 0
      /\ calls \in Seq([from : Nat, to : Nat])
  BY DEF ScorerInit
<1>2. RateLimitDelay \in Nat /\ MaxPairs \in Nat
  BY ScorerAssumption DEF RateLimitDelay
<1>3. Cardinality(Opinions(rows)) = 0
  <2>1. Opinions(rows) = {}
    BY <1>1 DEF Opinions
  <2> QED
    BY <2>1, FS_EmptySet
<1>4. ScorerTypeOK
  <2>1. skipped \in 0 .. MaxPairs /\ nLLM \in 0 .. MaxPairs /\ seen \in 0 .. MaxPairs
    BY <1>2 DEF ScorerInit
  <2>2. scoring = "next" /\ pair \in Texts \X Texts /\ now \in Nat /\ lastCall \in Int
        /\ endpoint \in BOOLEAN /\ ctxDone \in BOOLEAN
    <3>1. pair \in {p \in Texts \X Texts : p[1] = << >> /\ p[2] = << >>}
      BY DEF ScorerInit
    <3>2. pair \in Texts \X Texts
      BY <3>1
    <3>3. scoring = "next" /\ now = 0 /\ lastCall = -RateLimitDelay
      BY DEF ScorerInit
    <3>4. endpoint \in BOOLEAN /\ ctxDone \in BOOLEAN
      BY Zenon DEF ScorerInit
    <3> QED
      BY <1>2, <3>2, <3>3, <3>4
  <2> QED
    BY <1>1, <2>1, <2>2 DEF ScorerTypeOK, RowType
<1>5. MatchedIsLongest
  <2>1. Range(rows) = {}
    BY <1>1 DEF Range
  <2> QED
    BY <2>1 DEF MatchedIsLongest
<1>6. AskedSlowly /\ LastKept
  BY <1>1 DEF ScorerInit, AskedSlowly, LastKept
<1>7. PairsAccountedFor
  BY <1>1, <1>3 DEF ScorerInit, PairsAccountedFor, Opinions
<1> QED
  BY <1>4, <1>5, <1>6, <1>7 DEF ScorerInv

(* Taking a pair.                                                           *)
LEMMA TakeKeepsInv ==
  ASSUME ScorerInv, NEW p \in Texts \X Texts, TakePair(p)
  PROVE  ScorerInv'
<1>1. /\ scoring = "next" /\ seen < MaxPairs /\ seen' = seen + 1 /\ pair' = p
      /\ UNCHANGED <<now, lastCall, endpoint, ctxDone, nLLM, calls>>
  BY DEF TakePair
<1>2. \/ skipped' = skipped + 1 /\ rows' = rows /\ scoring' = "next"
      \/ skipped' = skipped /\ scoring' = "limit" /\ rows' = rows
      \/ skipped' = skipped /\ scoring' = "next" /\ rows' = Append(rows, Row(p, -1, FALSE))
  BY <1>1 DEF TakePair
<1>3. /\ rows' \in Seq(RowType) /\ MatchedIsLongest'
      /\ Cardinality(Opinions(rows')) = Cardinality(Opinions(rows))
      /\ Len(rows') + skipped' + (IF scoring' = "next" THEN 0 ELSE 1) = seen'
  <2>1. ASSUME rows' = rows
        PROVE  rows' \in Seq(RowType) /\ MatchedIsLongest' /\ Len(rows') = Len(rows)
               /\ Cardinality(Opinions(rows')) = Cardinality(Opinions(rows))
    BY <2>1, ScorerTypes DEF ScorerInv, MatchedIsLongest
  <2>2. ASSUME rows' = Append(rows, Row(p, -1, FALSE))
        PROVE  rows' \in Seq(RowType) /\ MatchedIsLongest' /\ Len(rows') = Len(rows) + 1
               /\ Cardinality(Opinions(rows')) = Cardinality(Opinions(rows))
    <3>1. Cardinality(Opinions(rows)) \in Nat
      BY ScorerTypes, OpinionsFinite
    <3>2. PICK e \in -1 .. 1 : e = -1
      OBVIOUS
    <3>3. rows' = Append(rows, Row(p, e, FALSE)) /\ FALSE \in BOOLEAN
      BY <2>2, <3>2
    <3>4. /\ rows' \in Seq(RowType) /\ MatchedIsLongest' /\ Len(rows') = Len(rows) + 1
          /\ Cardinality(Opinions(rows')) = Cardinality(Opinions(rows)) + (IF e >= 0 THEN 1 ELSE 0)
      BY <3>3, RowAppended DEF ScorerInv
    <3> QED
      BY <3>1, <3>2, <3>4
  <2>3. Len(rows) \in Nat /\ skipped \in Nat /\ seen \in Nat /\ Len(rows) + skipped + 0 = seen
    BY <1>1, ScorerTypes
  <2>4. CASE /\ rows' = rows
             /\ \/ skipped' = skipped + 1 /\ scoring' = "next"
                \/ skipped' = skipped /\ scoring' = "limit"
    <3>1. Len(rows') + skipped' + (IF scoring' = "next" THEN 0 ELSE 1) = seen'
      BY <1>1, <2>3, <2>4
    <3> QED
      BY <2>1, <2>4, <3>1, Zenon
  <2>5. CASE rows' = Append(rows, Row(p, -1, FALSE)) /\ skipped' = skipped /\ scoring' = "next"
    <3>1. Len(rows') = Len(rows) + 1 /\ skipped' = skipped /\ scoring' = "next"
      BY <2>2, <2>5, Zenon
    <3>2. Len(rows') + skipped' + (IF scoring' = "next" THEN 0 ELSE 1) = seen'
      BY ONLY <1>1, <2>3, <3>1
    <3> QED
      BY <2>2, <2>5, <3>2, Zenon
  <2> QED
    BY <1>2, <2>4, <2>5, Zenon
<1>4. skipped' \in Nat /\ seen' \in Nat /\ seen' <= MaxPairs /\ scoring' \in {"next", "limit"}
      /\ nLLM' = Cardinality(Opinions(rows'))
  <2>1. /\ skipped \in Nat /\ seen \in Nat /\ MaxPairs \in Nat
        /\ nLLM = Cardinality(Opinions(rows))
    BY ScorerTypes
  <2>2. nLLM' = Cardinality(Opinions(rows'))
    BY <1>1, <1>3, <2>1
  <2>3. (skipped' = skipped \/ skipped' = skipped + 1) /\ scoring' \in {"next", "limit"}
    BY <1>2, Zenon
  <2> QED
    BY <1>1, <2>1, <2>2, <2>3
<1>5. skipped' \in 0 .. MaxPairs /\ nLLM' \in 0 .. MaxPairs /\ seen' \in 0 .. MaxPairs
  <2>1. PICK w \in {0, 1} : w = IF scoring' = "next" THEN 0 ELSE 1
    OBVIOUS
  <2> QED
    BY <1>3, <1>4, <2>1, ScorerCounts
<1>6. ScorerTypeOK'
  BY <1>1, <1>3, <1>4, <1>5, ScorerTypes DEF ScorerTypeOK, RowType
<1>7. PairsAccountedFor'
  BY <1>3, <1>4 DEF PairsAccountedFor, Opinions
<1>8. AskedSlowly' /\ LastKept'
  BY <1>1, <1>4 DEF ScorerInv, AskedSlowly, LastKept
<1> QED
  BY <1>3, <1>6, <1>7, <1>8 DEF ScorerInv

(* The wait for the rate limit. *)
LEMMA WaitKeepsInv ==
  ASSUME ScorerInv, Waited
  PROVE  ScorerInv'
<1>1. /\ scoring = "limit" /\ scoring' = "ask" /\ now' = Larger(now, lastCall + RateLimitDelay)
      /\ UNCHANGED <<pair, lastCall, endpoint, ctxDone, rows, skipped, nLLM, seen, calls>>
  BY DEF Waited
<1>2. now' \in Nat /\ now' - lastCall >= RateLimitDelay
  BY <1>1, ScorerTypes DEF Larger
<1>3. ScorerTypeOK'
  BY <1>1, <1>2 DEF ScorerInv, ScorerTypeOK
<1>4. PairsAccountedFor' /\ MatchedIsLongest' /\ AskedSlowly'
  BY <1>1 DEF ScorerInv, PairsAccountedFor, MatchedIsLongest, AskedSlowly
<1>5. LastKept'
  BY <1>1, <1>2 DEF ScorerInv, LastKept, RateLimitDelay
<1> QED
  BY <1>3, <1>4, <1>5 DEF ScorerInv

(* A row with the opinion, or the error, that ends a pair.                  *)
LEMMA RowKeepsInv ==
  ASSUME ScorerInv, scoring \in {"limit", "ask"}, scoring' = "next",
         NEW llm \in -1 .. 1, NEW error \in BOOLEAN, rows' = Append(rows, Row(pair, llm, error)),
         nLLM' = nLLM + (IF llm >= 0 THEN 1 ELSE 0),
         UNCHANGED <<pair, endpoint, ctxDone, skipped, seen>>,
         now' \in Nat, lastCall' \in Int, calls' \in Seq([from : Nat, to : Nat])
  PROVE  ScorerTypeOK' /\ MatchedIsLongest' /\ PairsAccountedFor'
<1>1. /\ rows' \in Seq(RowType) /\ Len(rows') = Len(rows) + 1 /\ MatchedIsLongest'
      /\ Cardinality(Opinions(rows')) = Cardinality(Opinions(rows)) + (IF llm >= 0 THEN 1 ELSE 0)
  BY ScorerTypes, RowAppended DEF ScorerInv
<1>2. nLLM' = Cardinality(Opinions(rows'))
  BY <1>1, ScorerTypes
<1>3. Len(rows') + skipped' + 0 = seen' /\ skipped' \in Nat /\ seen' \in Nat /\ seen' <= MaxPairs
  <2>1. /\ Len(rows) + skipped + (IF scoring = "next" THEN 0 ELSE 1) = seen /\ scoring # "next"
        /\ skipped \in Nat /\ seen \in Nat /\ seen <= MaxPairs /\ skipped' = skipped /\ seen' = seen
    BY ScorerTypes, Zenon
  <2>2. Len(rows) \in Nat /\ Len(rows') = Len(rows) + 1
    BY <1>1, ScorerTypes
  <2> QED
    BY ONLY <2>1, <2>2
<1>4. skipped' \in 0 .. MaxPairs /\ nLLM' \in 0 .. MaxPairs /\ seen' \in 0 .. MaxPairs
  <2>1. 0 \in {0, 1}
    OBVIOUS
  <2> QED
    BY <1>1, <1>2, <1>3, <2>1, ScorerCounts
<1>5. ScorerTypeOK'
  BY <1>1, <1>4, ScorerTypes DEF ScorerTypeOK, RowType
<1>6. PairsAccountedFor'
  BY <1>2, <1>3 DEF PairsAccountedFor, Opinions
<1> QED
  BY <1>1, <1>5, <1>6

LEMMA CancelledKeepsInv ==
  ASSUME ScorerInv, WaitCancelled
  PROVE  ScorerInv'
<1>1. /\ scoring = "limit" /\ scoring' = "next" /\ rows' = Append(rows, Row(pair, -1, TRUE))
      /\ UNCHANGED <<pair, now, lastCall, endpoint, ctxDone, skipped, nLLM, seen, calls>>
  BY DEF WaitCancelled
<1>2. nLLM' = nLLM + (IF -1 >= 0 THEN 1 ELSE 0) /\ now' \in Nat /\ lastCall' \in Int
      /\ calls' \in Seq([from : Nat, to : Nat])
  BY <1>1, ScorerTypes
<1>3. ScorerTypeOK' /\ MatchedIsLongest' /\ PairsAccountedFor'
  <2>1. -1 \in -1 .. 1 /\ TRUE \in BOOLEAN /\ scoring \in {"limit", "ask"}
    BY <1>1
  <2> QED
    BY <1>1, <1>2, <2>1, RowKeepsInv
<1>4. AskedSlowly' /\ LastKept'
  BY <1>1 DEF ScorerInv, AskedSlowly, LastKept
<1> QED
  BY <1>3, <1>4 DEF ScorerInv

(* An answer: it was asked for after the delay, and the next one counts     *)
(* from its end.                                                            *)
LEMMA AnswerKeepsInv ==
  ASSUME ScorerInv, NEW took \in 0 .. CallTime, NEW llm \in -1 .. 1, Answer(took, llm)
  PROVE  ScorerInv'
<1> DEFINE call == [from |-> now, to |-> now + took]
           n == Len(calls)
<1>1. /\ scoring = "ask" /\ scoring' = "next" /\ now' = now + took /\ lastCall' = now + took
      /\ rows' = Append(rows, Row(pair, llm, FALSE))
      /\ nLLM' = nLLM + (IF llm >= 0 THEN 1 ELSE 0)
      /\ calls' = Append(calls, call)
      /\ UNCHANGED <<pair, endpoint, ctxDone, skipped, seen>>
  BY DEF Answer
<1>2. now \in Nat /\ took \in Nat /\ now + took \in Nat /\ now' \in Nat /\ lastCall' \in Int
      /\ call \in [from : Nat, to : Nat] /\ calls \in Seq([from : Nat, to : Nat])
  <2>1. now \in Nat /\ CallTime \in Nat /\ calls \in Seq([from : Nat, to : Nat])
    BY ScorerTypes
  <2>2. took \in Nat /\ now + took \in Nat
    BY <2>1
  <2> QED
    BY <1>1, <2>1, <2>2
<1>3. call.from = now /\ call.to = now + took
  OBVIOUS
<1> HIDE DEF call
<1>4. /\ calls' \in Seq([from : Nat, to : Nat]) /\ n \in Nat /\ Len(calls') = n + 1
      /\ calls'[n + 1] = call /\ \A i \in 1 .. n : calls'[i] = calls[i]
  BY <1>1, <1>2
<1>5. ScorerTypeOK' /\ MatchedIsLongest' /\ PairsAccountedFor'
  <2>1. FALSE \in BOOLEAN /\ scoring \in {"limit", "ask"}
    BY <1>1
  <2> QED
    BY <1>1, <1>2, <1>4, <2>1, RowKeepsInv
<1>6. AskedSlowly'
  <2>1. ASSUME NEW i \in 1 .. n PROVE calls'[i + 1].from - calls'[i].to >= RateLimitDelay
    <3>1. CASE i = n
      <4>1. calls # << >>
        BY <1>4, <3>1
      <4>2. lastCall = calls[n].to /\ now - lastCall >= RateLimitDelay
        BY <1>1, <4>1 DEF ScorerInv, LastKept
      <4>3. calls'[i + 1].from = now /\ calls'[i].to = calls[n].to
        BY <1>3, <1>4, <3>1
      <4> QED
        BY <4>2, <4>3
    <3>2. CASE i # n
      <4>1. i \in 1 .. n - 1 /\ i + 1 \in 1 .. n
        BY <1>4, <3>2
      <4>2. calls[i + 1].from - calls[i].to >= RateLimitDelay
        BY <4>1 DEF ScorerInv, AskedSlowly
      <4> QED
        BY <1>4, <4>1, <4>2
    <3> QED
      BY <3>1, <3>2
  <2>2. RateLimitDelay' = RateLimitDelay /\ Len(calls') - 1 = n
    BY <1>4 DEF RateLimitDelay
  <2> QED
    BY <2>1, <2>2 DEF AskedSlowly
<1>7. LastKept'
  <2>1. calls' # << >> /\ calls'[Len(calls')].to = now + took
    BY <1>3, <1>4
  <2> QED
    BY <1>1, <2>1 DEF LastKept
<1> QED
  BY <1>5, <1>6, <1>7 DEF ScorerInv

(* Every step of the scoring.                                               *)
LEMMA ScorerStep ==
  ASSUME ScorerInv, [ScorerNext]_scorerVars
  PROVE  ScorerInv'
<1>1. CASE \E p \in Texts \X Texts : TakePair(p)
  BY <1>1, TakeKeepsInv
<1>2. CASE Waited
  BY <1>2, WaitKeepsInv
<1>3. CASE WaitCancelled
  BY <1>3, CancelledKeepsInv
<1>4. CASE \E took \in 0 .. CallTime, llm \in -1 .. 1 : Answer(took, llm)
  BY <1>4, AnswerKeepsInv
<1>5. CASE CancelScoring \/ UNCHANGED scorerVars
  <2>1. /\ UNCHANGED <<scoring, pair, now, lastCall, endpoint, rows, skipped, nLLM, seen, calls>>
        /\ ctxDone' \in BOOLEAN
    BY <1>5 DEF CancelScoring, scorerVars, ScorerInv, ScorerTypeOK
  <2>2. ScorerTypeOK'
    BY <2>1 DEF ScorerInv, ScorerTypeOK
  <2>3. MatchedIsLongest' /\ AskedSlowly' /\ PairsAccountedFor' /\ LastKept'
    BY <2>1 DEF ScorerInv, MatchedIsLongest, AskedSlowly, PairsAccountedFor, LastKept
  <2> QED
    BY <2>2, <2>3 DEF ScorerInv
<1> QED
  BY <1>1, <1>2, <1>3, <1>4, <1>5 DEF ScorerNext

(* Whatever the texts are, the two rows find their longest common           *)
(* subsequence; the model is asked no sooner than the delay allows, and no  *)
(* pair is lost, whatever fails and whenever the context is cancelled.      *)
THEOREM ScorerInvariant == ScorerSpec => []ScorerInv
<1>1. ScorerInit => ScorerInv
  BY ScorerInitInv
<1>2. ScorerInv /\ [ScorerNext]_scorerVars => ScorerInv'
  BY ScorerStep
<1> QED
  BY <1>1, <1>2, PTL DEF ScorerSpec

-----------------------------------------------------------------------------
(* The sample-rate conversions *)

(* A sample of the stream q, or of the silence before it.                   *)
SampleAt(q, j) == IF j < 0 THEN j ELSE q[j + 1]

(* The lengths of the filters and the frames.                               *)
LEMMA FilterLengths ==
  /\ Taps \in Nat /\ Taps >= 1 /\ Frame48 \in Nat /\ Narrow \in Nat /\ Narrow >= 1 /\ Frame48 = 3 * Narrow
  /\ DownHistLen \in Nat /\ DownHistLen = Taps - 1
  /\ UpHistLen \in Nat /\ 3 * UpHistLen >= Taps - 1 /\ Stream48 \in Nat
BY ResamplerAssumption DEF DownHistLen, UpHistLen, Narrow

(* w joins f and g, of lengths m and n.                                     *)
IsJoin(f, g, w, m, n) == w = f \o g /\ m = Len(f) /\ n = Len(g)

(* Two sequences joined.                                                    *)
LEMMA Joined ==
  ASSUME NEW S, NEW f \in Seq(S), NEW g \in Seq(S), NEW m \in Nat, NEW n \in Nat, NEW w, IsJoin(f, g, w, m, n)
  PROVE  /\ w \in Seq(S) /\ Len(w) = m + n
         /\ \A j \in 1 .. m : w[j] = f[j]
         /\ \A j \in 1 .. n : w[m + j] = g[j]
<1>1. f \o g \in Seq(S) /\ Len(f \o g) = Len(f) + Len(g)
  OBVIOUS
<1>2. \A j \in 1 .. Len(f) : (f \o g)[j] = f[j]
  OBVIOUS
<1>3. \A j \in 1 .. Len(g) : (f \o g)[Len(f) + j] = g[j]
  OBVIOUS
<1> QED
  BY ONLY <1>1, <1>2, <1>3, IsJoin(f, g, w, m, n), Zenon DEF IsJoin

(* w is the ending n of the n + m of f.                                       *)
IsEnd(f, n, m, w) == w = LastN(f, n) /\ Len(f) = n + m

(* The end of a sequence.                                                   *)
LEMMA EndOf ==
  ASSUME NEW S, NEW f \in Seq(S), NEW n \in Nat, NEW m \in Nat, NEW w, IsEnd(f, n, m, w)
  PROVE  w \in Seq(S) /\ Len(w) = n /\ w = [i \in 1 .. n |-> f[m + i]]
<1>1. Len(f) = n + m /\ w = LastN(f, n)
  BY DEF IsEnd
<1>2. LastN(f, n) = SubSeq(f, m + 1, n + m)
  BY <1>1 DEF LastN
<1>3. SubSeq(f, m + 1, n + m) = [i \in 1 .. n |-> f[m + i]]
  OBVIOUS
<1>4. \A i \in 1 .. n : f[m + i] \in S
  <2>1. \A i \in 1 .. n : m + i \in 1 .. Len(f)
    BY <1>1
  <2> QED
    BY <2>1
<1>5. [i \in 1 .. n |-> f[m + i]] \in Seq(S) /\ Len([i \in 1 .. n |-> f[m + i]]) = n
  BY <1>4
<1> QED
  BY ONLY <1>1, <1>2, <1>3, <1>5, Zenon

(* A frame of n samples as a sequence.                                      *)
LEMMA FrameOf ==
  ASSUME NEW n \in Nat, NEW m \in Nat, NEW w, w = [i \in 1 .. n |-> m + i - 1]
  PROVE  w \in Seq(Nat) /\ w \in Seq(Int) /\ Len(w) = n /\ \A j \in 1 .. n : w[j] = m + j - 1
<1>1. \A i \in 1 .. n : m + i - 1 \in Nat
  OBVIOUS
<1> QED
  BY <1>1

(* A frame of the stream after n samples, and the history before it.        *)
FeedsDown(n, hist, frame, down) ==
  /\ hist = [i \in 1 .. DownHistLen |-> n + i - 1 - DownHistLen]
  /\ frame = [i \in 1 .. Frame48 |-> n + i - 1] /\ down = hist \o frame

(* The first filter: its history is the end of the stream, and what each    *)
(* output sees is the stream.                                               *)
LEMMA DownStep ==
  ASSUME NEW n \in Nat, NEW hist, NEW frame, NEW down, FeedsDown(n, hist, frame, down)
  PROVE  /\ LastN(down, DownHistLen) = [i \in 1 .. DownHistLen |-> n + Frame48 + i - 1 - DownHistLen]
         /\ DownWindows(down) = [i \in 0 .. Narrow - 1 |->
                                   {<<k, n + 3 * i - (Taps - 1) + k>> : k \in 0 .. Taps - 1}]
<1>1. PICK h \in Nat, l \in Nat, w \in Nat, t \in Nat :
        h = DownHistLen /\ l = Frame48 /\ w = Narrow /\ t = Taps /\ t - 1 = h /\ l = 3 * w
  BY FilterLengths
<1>2. hist = [i \in 1 .. h |-> n + i - 1 - h] /\ frame = [i \in 1 .. l |-> n + i - 1]
  BY ONLY <1>1, FeedsDown(n, hist, frame, down), Zenon DEF FeedsDown
<1>3. hist \in Seq(Int) /\ Len(hist) = h /\ \A j \in 1 .. h : hist[j] = n + j - 1 - h
  BY ONLY <1>2, n \in Nat, h \in Nat
<1>4. frame \in Seq(Int) /\ Len(frame) = l /\ \A j \in 1 .. l : frame[j] = n + j - 1
  BY ONLY <1>2, n \in Nat, l \in Nat, FrameOf
<1>5. /\ down \in Seq(Int) /\ Len(down) = h + l
      /\ \A j \in 1 .. h : down[j] = hist[j]
      /\ \A j \in 1 .. l : down[h + j] = frame[j]
  <2>1. IsJoin(hist, frame, down, h, l)
    BY ONLY <1>3, <1>4, FeedsDown(n, hist, frame, down), Zenon DEF IsJoin, FeedsDown
  <2>2. hist \in Seq(Int) /\ frame \in Seq(Int)
    BY ONLY <1>3, <1>4
  <2> QED
    BY ONLY <2>1, <2>2, h \in Nat, l \in Nat, Joined
<1>6. ASSUME NEW j \in 1 .. h + l PROVE down[j] = n + j - 1 - h
  <2>1. CASE j <= h
    <3>1. j \in 1 .. h
      BY <2>1
    <3> QED
      BY ONLY <1>3, <1>5, <3>1
  <2>2. CASE j > h
    <3>1. PICK i \in 1 .. l : j = h + i
      <4>1. j - h \in 1 .. l /\ j = h + (j - h)
        BY <2>2
      <4> QED
        BY <4>1
    <3>2. down[h + i] = frame[i] /\ frame[i] = n + i - 1
      BY ONLY <1>4, <1>5, <3>1
    <3> QED
      BY ONLY <3>1, <3>2, h \in Nat, n \in Nat
  <2> QED
    BY ONLY <2>1, <2>2, h \in Nat, l \in Nat
<1>7. LastN(down, DownHistLen) = [i \in 1 .. DownHistLen |-> n + Frame48 + i - 1 - DownHistLen]
  <2>1. PICK ending : ending = LastN(down, h)
    OBVIOUS
  <2>2. ending = [i \in 1 .. h |-> down[l + i]]
    <3>1. IsEnd(down, h, l, ending)
      BY ONLY <1>5, <2>1, Zenon DEF IsEnd
    <3>2. down \in Seq(Int)
      BY <1>5
    <3> QED
      BY ONLY <3>1, <3>2, h \in Nat, l \in Nat, EndOf
  <2>3. ASSUME NEW i \in 1 .. h PROVE down[l + i] = n + l + i - 1 - h
    <3>1. l + i \in 1 .. h + l /\ n + (l + i) - 1 - h = n + l + i - 1 - h
      BY ONLY h \in Nat, l \in Nat, n \in Nat
    <3> QED
      BY ONLY <1>6, <3>1
  <2>4. ending = [i \in 1 .. h |-> n + l + i - 1 - h]
    BY ONLY <2>2, <2>3, Zenon
  <2> QED
    BY ONLY <1>1, <2>1, <2>4, Zenon
<1>8. DownWindows(down) = [i \in 0 .. Narrow - 1 |->
                                   {<<k, n + 3 * i - (Taps - 1) + k>> : k \in 0 .. Taps - 1}]
  <2>1. ASSUME NEW i \in 0 .. w - 1, NEW k \in 0 .. t - 1
        PROVE  down[3 * i + k + 1] = n + 3 * i - (t - 1) + k
    <3>1. 3 * i + k + 1 \in 1 .. h + l /\ n + (3 * i + k + 1) - 1 - h = n + 3 * i - (t - 1) + k
      BY ONLY <1>1, <2>1, h \in Nat, l \in Nat, n \in Nat, w \in Nat, t \in Nat
    <3> QED
      BY ONLY <1>6, <3>1
  <2>2. \A i \in 0 .. w - 1 :
          {<<k, down[3 * i + k + 1]>> : k \in 0 .. t - 1} = {<<k, n + 3 * i - (t - 1) + k>> : k \in 0 .. t - 1}
    BY ONLY <2>1
  <2>3. DownWindows(down) = [i \in 0 .. w - 1 |-> {<<k, down[3 * i + k + 1]>> : k \in 0 .. t - 1}]
    BY ONLY <1>1, Zenon DEF DownWindows
  <2>4. DownWindows(down) = [i \in 0 .. w - 1 |-> {<<k, n + 3 * i - (t - 1) + k>> : k \in 0 .. t - 1}]
    BY ONLY <2>2, <2>3, Zenon
  <2> QED
    BY ONLY <1>1, <2>4, Zenon
<1> QED
  BY <1>7, <1>8

(* The frame made after n others, behind the history and behind the l samples*)
(* of q.                                                                     *)
FeedsUp(h, w, l, n, q, hist, frame, up, g) ==
  /\ l = Len(q) /\ hist = [i \in 1 .. h |-> SampleAt(q, l - h + i - 1)]
  /\ frame = [i \in 1 .. w |-> n + i - 1] /\ up = hist \o frame /\ g = q \o frame

(* The second filter's history and the frame made, as samples of the stream.*)
LEMMA UpJoined ==
  ASSUME NEW h \in Nat, NEW w \in Nat, NEW l \in Nat, NEW n \in Nat, NEW q \in Seq(Nat),
         NEW hist, NEW frame, NEW up, NEW g, FeedsUp(h, w, l, n, q, hist, frame, up, g)
  PROVE  /\ g \in Seq(Nat) /\ Len(g) = l + w /\ hist \in Seq(Int) /\ Len(hist) = h
         /\ up \in Seq(Int) /\ Len(up) = h + w
         /\ \A j \in 1 .. h + w : up[j] = SampleAt(g, l - h + j - 1)
<1>0. /\ l = Len(q) /\ hist = [i \in 1 .. h |-> SampleAt(q, l - h + i - 1)]
      /\ frame = [i \in 1 .. w |-> n + i - 1] /\ up = hist \o frame /\ g = q \o frame
  BY ONLY FeedsUp(h, w, l, n, q, hist, frame, up, g), Zenon DEF FeedsUp
<1>a. l = Len(q)
  BY ONLY <1>0
<1>b. hist = [i \in 1 .. h |-> SampleAt(q, l - h + i - 1)]
  BY ONLY <1>0, Zenon
<1>c. frame = [i \in 1 .. w |-> n + i - 1]
  BY ONLY <1>0, Zenon
<1>d. up = hist \o frame
  BY ONLY <1>0, Zenon
<1>e. g = q \o frame
  BY ONLY <1>0, Zenon
<1>1. frame \in Seq(Nat) /\ frame \in Seq(Int) /\ Len(frame) = w
  BY ONLY <1>c, w \in Nat, n \in Nat, FrameOf
<1>2. ASSUME NEW i \in 1 .. h PROVE SampleAt(q, l - h + i - 1) \in Int
  <2>1. CASE l - h + i - 1 < 0
    BY ONLY <1>2, <2>1, l \in Nat, h \in Nat DEF SampleAt
  <2>2. CASE ~(l - h + i - 1 < 0)
    <3>1. l - h + i - 1 + 1 \in 1 .. Len(q)
      BY ONLY <1>2, <2>2, l \in Nat, h \in Nat, <1>a
    <3>2. q[l - h + i - 1 + 1] \in Nat
      BY ONLY <3>1, q \in Seq(Nat)
    <3> QED
      BY ONLY <2>2, <3>2 DEF SampleAt
  <2> QED
    BY ONLY <2>1, <2>2
<1>3. hist \in Seq(Int) /\ Len(hist) = h
  BY ONLY <1>2, <1>b, h \in Nat
<1>4. /\ g \in Seq(Nat) /\ Len(g) = l + w
      /\ \A j \in 1 .. l : g[j] = q[j]
      /\ \A j \in 1 .. w : g[l + j] = frame[j]
  <2>1. IsJoin(q, frame, g, l, w)
    BY ONLY <1>1, <1>a, <1>e, Zenon DEF IsJoin
  <2>2. frame \in Seq(Nat)
    BY <1>1
  <2> QED
    BY ONLY <2>1, <2>2, q \in Seq(Nat), l \in Nat, w \in Nat, Joined
<1>5. /\ up \in Seq(Int) /\ Len(up) = h + w
      /\ \A j \in 1 .. h : up[j] = hist[j]
      /\ \A j \in 1 .. w : up[h + j] = frame[j]
  <2>1. IsJoin(hist, frame, up, h, w)
    BY ONLY <1>1, <1>3, <1>d, Zenon DEF IsJoin
  <2>2. frame \in Seq(Int) /\ hist \in Seq(Int)
    BY <1>1, <1>3
  <2> QED
    BY ONLY <2>1, <2>2, h \in Nat, w \in Nat, Joined
<1>6. ASSUME NEW j \in 1 .. h + w PROVE up[j] = SampleAt(g, l - h + j - 1)
  <2>1. CASE j <= h
    <3>1. j \in 1 .. h
      BY ONLY <2>1, h \in Nat, w \in Nat, j \in 1 .. h + w
    <3>2. up[j] = SampleAt(q, l - h + j - 1)
      <4>1. hist[j] = SampleAt(q, l - h + j - 1)
        BY ONLY <3>1, <1>b, Zenon
      <4>2. up[j] = hist[j]
        BY ONLY <1>5, <3>1, Zenon
      <4> QED
        BY ONLY <4>1, <4>2, Zenon
    <3>3. ASSUME ~(l - h + j - 1 < 0) PROVE g[l - h + j - 1 + 1] = q[l - h + j - 1 + 1]
      <4>1. l - h + j - 1 + 1 \in 1 .. l
        BY ONLY <3>1, <3>3, l \in Nat, h \in Nat
      <4> QED
        BY ONLY <1>4, <4>1, Zenon
    <3> QED
      BY ONLY <3>2, <3>3, Zenon DEF SampleAt
  <2>2. CASE j > h
    <3>1. PICK i \in 1 .. w : j = h + i
      <4>1. j - h \in 1 .. w /\ j = h + (j - h)
        BY ONLY <2>2, h \in Nat, w \in Nat, j \in 1 .. h + w
      <4> QED
        BY ONLY <4>1, Zenon
    <3>2. ~(l - h + j - 1 < 0) /\ l - h + j - 1 + 1 = l + i
      BY ONLY <3>1, l \in Nat, h \in Nat
    <3>3. up[h + i] = frame[i] /\ g[l + i] = frame[i]
      BY ONLY <1>4, <1>5, <3>1, Zenon
    <3>4. SampleAt(g, l - h + j - 1) = g[l + i]
      BY ONLY <3>2, Zenon DEF SampleAt
    <3> QED
      BY ONLY <3>1, <3>3, <3>4, Zenon
  <2> QED
    BY ONLY <2>1, <2>2, h \in Nat, w \in Nat, j \in 1 .. h + w
<1> QED
  BY ONLY <1>3, <1>4, <1>5, <1>6, Zenon

(* The second filter, when a frame reaches it.                              *)
LEMMA UpStep ==
  ASSUME NEW q \in Seq(Nat), NEW n \in Nat, NEW hist, NEW frame, NEW up, NEW g,
         FeedsUp(UpHistLen, Narrow, Len(q), n, q, hist, frame, up, g)
  PROVE  /\ g \in Seq(Nat) /\ Len(g) = Len(q) + Narrow /\ Len(hist) = UpHistLen
         /\ LastN(up, UpHistLen) = [i \in 1 .. UpHistLen |-> SampleAt(g, Len(g) - UpHistLen + i - 1)]
         /\ UpWindows(up, UpHistLen) =
              [i \in 0 .. Frame48 - 1 |->
                LET o == 3 * Len(q) + i IN
                {<<3 * j - o + Taps - 1, SampleAt(g, j)>> :
                   j \in {m \in -UpHistLen .. Len(g) - 1 : 3 * m <= o /\ 3 * m >= o - (Taps - 1)}}]
<1>1. PICK h \in Nat, w \in Nat, l \in Nat, t \in Nat :
        /\ h = UpHistLen /\ w = Narrow /\ l = Len(q) /\ t = Taps /\ 3 * w = Frame48
        /\ t >= 1 /\ 3 * h >= t - 1
  <2>1. UpHistLen \in Nat /\ Narrow \in Nat /\ Len(q) \in Nat /\ Taps \in Nat
    BY FilterLengths
  <2> QED
    BY <2>1, FilterLengths
<1>2. FeedsUp(h, w, l, n, q, hist, frame, up, g)
  BY ONLY <1>1, FeedsUp(UpHistLen, Narrow, Len(q), n, q, hist, frame, up, g), Zenon
<1>3. /\ g \in Seq(Nat) /\ Len(g) = l + w /\ hist \in Seq(Int) /\ Len(hist) = h
      /\ up \in Seq(Int) /\ Len(up) = h + w
      /\ \A j \in 1 .. h + w : up[j] = SampleAt(g, l - h + j - 1)
  BY ONLY <1>2, h \in Nat, w \in Nat, l \in Nat, n \in Nat, q \in Seq(Nat), UpJoined
<1>4. LastN(up, h) = [i \in 1 .. h |-> SampleAt(g, l + w - h + i - 1)]
  <2>1. PICK ending : ending = LastN(up, h)
    OBVIOUS
  <2>2. ending = [i \in 1 .. h |-> up[w + i]]
    <3>1. IsEnd(up, h, w, ending)
      BY ONLY <1>3, <2>1, Zenon DEF IsEnd
    <3>2. up \in Seq(Int)
      BY <1>3
    <3> QED
      BY ONLY <3>1, <3>2, h \in Nat, w \in Nat, EndOf
  <2>3. ASSUME NEW i \in 1 .. h PROVE up[w + i] = SampleAt(g, l + w - h + i - 1)
    <3>1. w + i \in 1 .. h + w /\ l - h + (w + i) - 1 = l + w - h + i - 1
      BY ONLY h \in Nat, w \in Nat, l \in Nat, i \in 1 .. h
    <3>2. up[w + i] = SampleAt(g, l - h + (w + i) - 1)
      BY ONLY <1>3, <3>1, Zenon
    <3> QED
      BY ONLY <3>1, <3>2, Zenon
  <2> QED
    BY ONLY <2>1, <2>2, <2>3, Zenon
<1> DEFINE pos(i, k) == 3 * h + i - (t - 1) + k
           meets(i) == {k \in 0 .. t - 1 : pos(i, k) >= 0 /\ pos(i, k) % 3 = 0 /\ pos(i, k) \div 3 < h + w}
           window(i) == {<<k, up[pos(i, k) \div 3 + 1]>> : k \in meets(i)}
           seen3(i) == {m \in -h .. l + w - 1 : 3 * m <= 3 * l + i /\ 3 * m >= 3 * l + i - (t - 1)}
           stream(i) == {<<3 * j - (3 * l + i) + t - 1, SampleAt(g, j)>> : j \in seen3(i)}
<1>5. UpWindows(up, h) = [i \in 0 .. 3 * w - 1 |-> window(i)]
  <2> DEFINE meeting(f, p, n2) ==
               [i \in 0 .. f - 1 |->
                 {<<k, up[(3 * h + i - (p - 1) + k) \div 3 + 1]>> :
                    k \in {j \in 0 .. p - 1 :
                             /\ 3 * h + i - (p - 1) + j >= 0 /\ (3 * h + i - (p - 1) + j) % 3 = 0
                             /\ (3 * h + i - (p - 1) + j) \div 3 < n2}}]
  <2>1. UpWindows(up, h) = meeting(Frame48, Taps, Len(up))
    BY Zenon DEF UpWindows
  <2>2. Taps = t /\ Frame48 = 3 * w /\ Len(up) = h + w
    BY ONLY <1>1, <1>3
  <2>3. meeting(Frame48, Taps, Len(up)) = meeting(3 * w, t, h + w)
    <3> HIDE DEF meeting
    <3> QED
      BY ONLY <2>2, Zenon
  <2>4. meeting(3 * w, t, h + w) = [i \in 0 .. 3 * w - 1 |-> window(i)]
    BY Zenon
  <2> HIDE DEF meeting, window
  <2> QED
    BY ONLY <2>1, <2>3, <2>4, Zenon
<1>6. ASSUME NEW i \in 0 .. 3 * w - 1 PROVE window(i) = stream(i)
  <2>1. ASSUME NEW k \in meets(i) PROVE <<k, up[pos(i, k) \div 3 + 1]>> \in stream(i)
    <3>1. k \in Int /\ 0 <= k /\ k <= t - 1 /\ pos(i, k) >= 0 /\ pos(i, k) % 3 = 0 /\ pos(i, k) \div 3 < h + w
      BY ONLY <2>1, t \in Nat
    <3>2. PICK c \in Int : c = pos(i, k)
      BY ONLY <3>1, h \in Nat, t \in Nat, i \in 0 .. 3 * w - 1
    <3>3. PICK p \in Nat : p = c \div 3 /\ c = 3 * p /\ p < h + w
      <4>1. c >= 0 /\ c % 3 = 0 /\ c \div 3 < h + w
        BY ONLY <3>1, <3>2, Zenon
      <4> QED
        BY ONLY <3>2, <4>1
    <3>4. PICK j \in Int : j = l - h + p
      BY ONLY l \in Nat, h \in Nat, p \in Nat
    <3>5. 3 * p = 3 * h + i - (t - 1) + k
      BY ONLY <3>2, <3>3
    <3>6. j \in seen3(i) /\ 3 * j - (3 * l + i) + t - 1 = k
      BY ONLY <1>6, <3>1, <3>3, <3>4, <3>5, l \in Nat, h \in Nat, w \in Nat, t \in Nat
    <3>7. up[p + 1] = SampleAt(g, j)
      <4>1. p + 1 \in 1 .. h + w /\ l - h + (p + 1) - 1 = j
        BY ONLY <3>3, <3>4, h \in Nat, w \in Nat, l \in Nat
      <4>2. up[p + 1] = SampleAt(g, l - h + (p + 1) - 1)
        BY ONLY <1>3, <4>1, Zenon
      <4> QED
        BY ONLY <4>1, <4>2, Zenon
    <3>8. pos(i, k) \div 3 + 1 = p + 1
      BY ONLY <3>2, <3>3, Zenon
    <3> HIDE DEF seen3, pos, meets
    <3> QED
      BY ONLY <3>6, <3>7, <3>8, Zenon
  <2>2. ASSUME NEW j \in seen3(i) PROVE <<3 * j - (3 * l + i) + t - 1, SampleAt(g, j)>> \in window(i)
    <3>1. j \in Int /\ j < l + w /\ 3 * j <= 3 * l + i /\ 3 * j >= 3 * l + i - (t - 1) /\ j >= l - h
      BY ONLY <1>1, <1>6, <2>2, l \in Nat, h \in Nat, w \in Nat, t \in Nat
    <3>2. PICK p \in Nat : p = j - l + h /\ p < h + w
      BY ONLY <3>1, l \in Nat, h \in Nat, w \in Nat
    <3>3. PICK k \in Int : k = 3 * j - (3 * l + i) + t - 1
      BY ONLY <3>1, l \in Nat, t \in Nat, i \in 0 .. 3 * w - 1
    <3>4. pos(i, k) = 3 * p /\ k \in 0 .. t - 1
      BY ONLY <3>1, <3>2, <3>3, l \in Nat, h \in Nat, t \in Nat, i \in 0 .. 3 * w - 1
    <3>5. (3 * p) \div 3 = p /\ (3 * p) % 3 = 0 /\ 3 * p >= 0
      BY ONLY p \in Nat
    <3>6. k \in meets(i) /\ pos(i, k) \div 3 = p
      BY ONLY <3>2, <3>4, <3>5, Zenon
    <3>7. up[p + 1] = SampleAt(g, j)
      <4>1. p + 1 \in 1 .. h + w /\ l - h + (p + 1) - 1 = j
        BY ONLY <3>1, <3>2, h \in Nat, w \in Nat, l \in Nat
      <4>2. up[p + 1] = SampleAt(g, l - h + (p + 1) - 1)
        BY ONLY <1>3, <4>1, Zenon
      <4> QED
        BY ONLY <4>1, <4>2, Zenon
    <3>8. <<k, up[pos(i, k) \div 3 + 1]>> = <<3 * j - (3 * l + i) + t - 1, SampleAt(g, j)>>
      BY ONLY <3>3, <3>6, <3>7, Zenon
    <3> HIDE DEF meets, seen3, pos
    <3> QED
      BY ONLY <3>6, <3>8, Zenon
  <2>3. \A x \in window(i) : x \in stream(i)
    <3> HIDE DEF meets, seen3, pos, stream
    <3> QED
      BY ONLY <2>1, Zenon
  <2>4. \A x \in stream(i) : x \in window(i)
    <3> HIDE DEF meets, seen3, pos, window
    <3> QED
      BY ONLY <2>2, Zenon
  <2> HIDE DEF window, stream
  <2> QED
    BY ONLY <2>3, <2>4
<1>7. UpWindows(up, h) = [i \in 0 .. 3 * w - 1 |-> stream(i)]
  <2> HIDE DEF window, stream
  <2> QED
    BY ONLY <1>5, <1>6, Zenon
<1>8. Len(g) = Len(q) + Narrow /\ Len(hist) = UpHistLen
  BY ONLY <1>1, <1>3
<1> DEFINE behind(x, y) == [i \in 1 .. x |-> SampleAt(g, y - x + i - 1)]
           output(f, p, x, y, z) ==
             [i \in 0 .. f - 1 |->
                LET o == 3 * y + i IN
                {<<3 * j - o + p - 1, SampleAt(g, j)>> :
                   j \in {m \in -x .. z - 1 : 3 * m <= o /\ 3 * m >= o - (p - 1)}}]
<1>9. Taps = t /\ Frame48 = 3 * w /\ Len(g) = l + w /\ UpHistLen = h /\ Len(q) = l
  BY ONLY <1>1, <1>3
<1>10. LastN(up, h) = behind(h, l + w)
  BY ONLY <1>4
<1>11. UpWindows(up, h) = output(3 * w, t, h, l, l + w)
  BY ONLY <1>7
<1>12. LastN(up, UpHistLen) = behind(UpHistLen, Len(g))
  <2> HIDE DEF behind
  <2> QED
    BY ONLY <1>9, <1>10, Zenon
<1>13. UpWindows(up, UpHistLen) = output(Frame48, Taps, UpHistLen, Len(q), Len(g))
  <2> HIDE DEF output
  <2> QED
    BY ONLY <1>9, <1>11, Zenon
<1> QED
  BY ONLY <1>3, <1>8, <1>12, <1>13, Zenon

(* A product grows with its first factor.                                   *)
LEMMA TimesGrows ==
  ASSUME NEW a \in Nat, NEW b \in Nat, NEW c \in Nat, a <= b
  PROVE  a * c <= b * c /\ a * c \in Nat /\ (a + 1) * c = a * c + c
<1>1. PICK d \in Nat : b = a + d
  <2>1. b - a \in Nat /\ b = a + (b - a)
    OBVIOUS
  <2> QED
    BY <2>1
<1>2. a * c \in Nat /\ d * c \in Nat
  BY Z3
<1>3. (a + d) * c = a * c + d * c /\ (a + 1) * c = a * c + c
  BY Z3
<1> QED
  BY <1>1, <1>2, <1>3

(* The parts of the invariant about the stateful pair.                      *)
StreamInv == ResamplerTypeOK /\ HistoriesKept /\ DownSeamless /\ UpSeamless

(* What a state of the pair is, in terms of the samples of the streams.     *)
LEMMA StreamState ==
  ASSUME StreamInv
  PROVE  /\ fed48 \in Nat /\ fed48 <= Stream48 /\ made \in Seq(Nat) /\ Len(made) \in Nat
         /\ Len(made) <= fed48 * Narrow /\ downHist \in Seq(Int) /\ Len(downHist) = DownHistLen
         /\ upHist \in Seq(Int) /\ Len(upHist) = UpHistLen
         /\ downHist = [i \in 1 .. DownHistLen |-> fed48 * Frame48 + i - 1 - DownHistLen]
         /\ upHist = [i \in 1 .. UpHistLen |-> SampleAt(made, Len(made) - UpHistLen + i - 1)]
<1>1. upHist = [i \in 1 .. UpHistLen |-> SampleAt(made, Len(made) - UpHistLen + i - 1)]
  BY Zenon DEF StreamInv, HistoriesKept, SampleAt
<1>2. /\ downHist = [i \in 1 .. DownHistLen |-> fed48 * Frame48 + i - 1 - DownHistLen]
      /\ Len(made) <= fed48 * Narrow
  BY Zenon DEF StreamInv, HistoriesKept
<1>3. /\ fed48 \in 0 .. Stream48 /\ made \in Seq(Nat) /\ downHist \in Seq(Int) /\ Len(downHist) = DownHistLen
      /\ upHist \in Seq(Int) /\ Len(upHist) = UpHistLen
  BY Zenon DEF StreamInv, ResamplerTypeOK
<1>4. fed48 \in Nat /\ fed48 <= Stream48 /\ Len(made) \in Nat
  BY ONLY <1>3, FilterLengths
<1> QED
  BY ONLY <1>1, <1>2, <1>3, <1>4, Zenon

(* Silence as the stream before it.                                         *)
LEMMA SilenceIs ==
  ASSUME NEW n \in Nat
  PROVE  /\ Before(n) \in Seq(Int) /\ Len(Before(n)) = n
         /\ \A i \in 1 .. n : Before(n)[i] = i - 1 - n
<1>1. \A i \in 1 .. n : i - 1 - n \in Int
  OBVIOUS
<1> QED
  BY <1>1 DEF Before

(* Nothing fed and nothing made.                                            *)
NothingFed ==
  /\ fed48 = 0 /\ made = << >> /\ downHist = Before(DownHistLen) /\ upHist = Before(UpHistLen)
  /\ downWindows = << >> /\ upWindows = << >> /\ converted.length \in Buffers \cup {0}

(* The pair before the first frame.                                         *)
LEMMA StreamEmpty == NothingFed => StreamInv
<1> SUFFICES ASSUME NothingFed PROVE StreamInv
  OBVIOUS
<1>0. /\ fed48 = 0 /\ made = << >> /\ downHist = Before(DownHistLen) /\ upHist = Before(UpHistLen)
      /\ downWindows = << >> /\ upWindows = << >> /\ converted.length \in Buffers \cup {0}
  BY DEF NothingFed
<1>1. /\ DownHistLen \in Nat /\ UpHistLen \in Nat /\ Stream48 \in Nat /\ Narrow \in Nat /\ Frame48 \in Nat
      /\ Len(made) = 0 /\ made \in Seq(Nat) /\ DOMAIN downWindows = {} /\ DOMAIN upWindows = {}
      /\ 0 * Narrow = 0 /\ 0 * Frame48 = 0 /\ 0 \in 0 .. Stream48 /\ 0 <= Stream48 * Narrow
  <2>1. /\ DownHistLen \in Nat /\ UpHistLen \in Nat /\ Stream48 \in Nat /\ Narrow \in Nat /\ Frame48 \in Nat
    BY FilterLengths
  <2>2. 0 <= Stream48 * Narrow
    BY ONLY <2>1, Z3
  <2> QED
    BY <1>0, <2>1, <2>2
<1>2. ResamplerTypeOK
  <2>1. /\ downHist \in Seq(Int) /\ Len(downHist) = DownHistLen
        /\ upHist \in Seq(Int) /\ Len(upHist) = UpHistLen
    BY ONLY <1>1, SilenceIs, <1>0
  <2> QED
    BY <1>0, <1>1, <2>1, Zenon DEF ResamplerTypeOK
<1>3. HistoriesKept
  <2>1. downHist = [i \in 1 .. DownHistLen |-> fed48 * Frame48 + i - 1 - DownHistLen]
    BY ONLY <1>1, <1>0 DEF Before
  <2>2. \A i \in 1 .. UpHistLen : Len(made) - UpHistLen + i - 1 < 0
                                   /\ Len(made) - UpHistLen + i - 1 = i - 1 - UpHistLen
    BY ONLY <1>1
  <2>3. upHist = [i \in 1 .. UpHistLen |->
                LET j == Len(made) - UpHistLen + i - 1 IN IF j < 0 THEN j ELSE made[j + 1]]
    BY ONLY <2>2, <1>0, Zenon DEF Before
  <2>4. Len(made) <= fed48 * Narrow
    BY ONLY <1>0, <1>1
  <2> QED
    BY ONLY <2>1, <2>3, <2>4, Zenon DEF HistoriesKept
<1>4. DownSeamless /\ UpSeamless
  BY ONLY <1>1 DEF DownSeamless, UpSeamless
<1> QED
  BY <1>2, <1>3, <1>4 DEF StreamInv

(* A frame through the first filter, whatever fails after it.               *)
LEMMA DownKept ==
  ASSUME StreamInv, NEW fails \in BOOLEAN, Process48k(fails)
  PROVE  /\ fed48' \in 0 .. Stream48 /\ fed48' = fed48 + 1
         /\ downHist' = [i \in 1 .. DownHistLen |-> fed48' * Frame48 + i - 1 - DownHistLen]
         /\ downHist' \in Seq(Int) /\ Len(downHist') = DownHistLen
         /\ DOMAIN downWindows' = 0 .. Narrow - 1 /\ DownSeamless'
<1>0. PICK n \in Nat : n = fed48 * Frame48
  <2>1. fed48 \in Nat /\ Frame48 \in Nat
    BY StreamState, FilterLengths
  <2>2. fed48 * Frame48 \in Nat
    BY ONLY <2>1, Z3
  <2> QED
    BY ONLY <2>2, Zenon
<1>1. PICK frame, down :
        /\ n = fed48 * Frame48 /\ frame = [i \in 1 .. Frame48 |-> n + i - 1] /\ down = downHist \o frame
        /\ downWindows' = DownWindows(down) /\ downHist' = LastN(down, DownHistLen)
  BY ONLY <1>0, Process48k(fails), Zenon DEF Process48k, NextHist
<1>2. /\ fed48 \in Nat /\ fed48 < Stream48 /\ fed48' = fed48 + 1 /\ Frame48 \in Nat /\ Narrow \in Nat
      /\ Stream48 \in Nat /\ DownHistLen \in Nat /\ Taps \in Nat
  BY StreamState, FilterLengths DEF Process48k
<1>3. fed48' * Frame48 = n + Frame48 /\ (fed48' - 1) * Frame48 = n
  <2>1. fed48' - 1 = fed48 /\ (fed48 + 1) * Frame48 = fed48 * Frame48 + Frame48
    BY ONLY <1>2, Z3
  <2> QED
    BY ONLY <1>1, <1>2, <2>1
<1>4. /\ LastN(down, DownHistLen) = [i \in 1 .. DownHistLen |-> n + Frame48 + i - 1 - DownHistLen]
      /\ DownWindows(down) = [i \in 0 .. Narrow - 1 |->
                                   {<<k, n + 3 * i - (Taps - 1) + k>> : k \in 0 .. Taps - 1}]
  <2>1. downHist = [i \in 1 .. DownHistLen |-> n + i - 1 - DownHistLen]
    <3>1. downHist = [i \in 1 .. DownHistLen |-> fed48 * Frame48 + i - 1 - DownHistLen]
      BY StreamState
    <3> QED
      BY ONLY <1>1, <3>1
  <2>2. FeedsDown(n, downHist, frame, down)
    BY ONLY <1>1, <2>1, Zenon DEF FeedsDown
  <2> QED
    BY ONLY <2>2, n \in Nat, DownStep
<1>5. downHist' = [i \in 1 .. DownHistLen |-> fed48' * Frame48 + i - 1 - DownHistLen]
  <2> DEFINE ending(x) == [i \in 1 .. DownHistLen |-> x + i - 1 - DownHistLen]
  <2>1. downHist' = ending(n + Frame48)
    BY ONLY <1>1, <1>4
  <2> HIDE DEF ending
  <2>2. downHist' = ending(fed48' * Frame48)
    BY ONLY <1>3, <2>1, Zenon
  <2> QED
    BY ONLY <2>2 DEF ending
<1>6. downHist' \in Seq(Int) /\ Len(downHist') = DownHistLen
  <2>1. fed48' * Frame48 \in Int
    BY ONLY <1>2, <1>3, n \in Nat
  <2>2. PICK m \in Int : m = fed48' * Frame48
    BY <2>1
  <2>3. downHist' = [i \in 1 .. DownHistLen |-> m + i - 1 - DownHistLen]
    BY ONLY <1>5, <2>2
  <2> QED
    BY ONLY <1>2, <2>3, m \in Int
<1>7. DOMAIN downWindows' = 0 .. Narrow - 1
  BY ONLY <1>1, <1>4
<1>8. DownSeamless'
  <2> DEFINE window(x, i) == {<<k, x + 3 * i - (Taps - 1) + k>> : k \in 0 .. Taps - 1}
  <2>1. \A i \in 0 .. Narrow - 1 : downWindows'[i] = window(n, i)
    BY ONLY <1>1, <1>4
  <2> HIDE DEF window
  <2>2. \A i \in DOMAIN downWindows' : downWindows'[i] = window((fed48' - 1) * Frame48, i)
    BY ONLY <1>3, <1>7, <2>1, Zenon
  <2> QED
    BY ONLY <2>2 DEF window, DownSeamless
<1>9. fed48' \in 0 .. Stream48
  BY ONLY <1>2
<1> QED
  BY ONLY <1>2, <1>5, <1>6, <1>7, <1>8, <1>9

(* A frame that reaches the second filter.                                  *)
LEMMA UpKept ==
  ASSUME StreamInv, Process48k(FALSE)
  PROVE  /\ upHist' = [i \in 1 .. UpHistLen |->
                LET j == Len(made') - UpHistLen + i - 1 IN IF j < 0 THEN j ELSE made'[j + 1]]
         /\ upHist' \in Seq(Int) /\ Len(upHist') = UpHistLen
         /\ made' \in Seq(Nat) /\ Len(made') = Len(made) + Narrow
         /\ DOMAIN upWindows' = 0 .. Frame48 - 1 /\ UpSeamless'
<1>0. PICK n \in Nat : n = fed48 * Narrow
  <2>1. fed48 \in Nat /\ Narrow \in Nat
    BY StreamState, FilterLengths
  <2>2. fed48 * Narrow \in Nat
    BY ONLY <2>1, Z3
  <2> QED
    BY ONLY <2>2, Zenon
<1>1. PICK frame, up, g :
        /\ n = fed48 * Narrow /\ frame = [i \in 1 .. Narrow |-> n + i - 1] /\ up = upHist \o frame
        /\ g = made \o frame /\ upWindows' = UpWindows(up, Len(upHist)) /\ upHist' = LastN(up, UpHistLen)
        /\ made' = g
  BY ONLY <1>0, Process48k(FALSE), Zenon DEF Process48k, NextHist
<1>2. made \in Seq(Nat) /\ Len(made) \in Nat /\ Len(upHist) = UpHistLen
  BY StreamState
<1>3. /\ g \in Seq(Nat) /\ Len(g) = Len(made) + Narrow /\ Len(upHist) = UpHistLen
      /\ LastN(up, UpHistLen) = [i \in 1 .. UpHistLen |-> SampleAt(g, Len(g) - UpHistLen + i - 1)]
      /\ UpWindows(up, UpHistLen) =
           [i \in 0 .. Frame48 - 1 |->
             LET o == 3 * Len(made) + i IN
             {<<3 * j - o + Taps - 1, SampleAt(g, j)>> :
                j \in {m \in -UpHistLen .. Len(g) - 1 : 3 * m <= o /\ 3 * m >= o - (Taps - 1)}}]
  <2>1. upHist = [i \in 1 .. UpHistLen |-> SampleAt(made, Len(made) - UpHistLen + i - 1)]
    BY StreamState
  <2>2. FeedsUp(UpHistLen, Narrow, Len(made), n, made, upHist, frame, up, g)
    BY ONLY <1>1, <2>1, Zenon DEF FeedsUp
  <2> QED
    BY ONLY <1>2, <2>2, n \in Nat, UpStep
<1>4. made' = g /\ made' \in Seq(Nat) /\ Len(made') = Len(made) + Narrow
  BY ONLY <1>1, <1>3, Zenon
<1>5. upHist' = [i \in 1 .. UpHistLen |-> SampleAt(made', Len(made') - UpHistLen + i - 1)]
  BY ONLY <1>1, <1>3, <1>4, Zenon
<1>6. upHist' \in Seq(Int) /\ Len(upHist') = UpHistLen
  <2>1. UpHistLen \in Nat /\ Narrow \in Nat /\ Len(g) \in Nat
    BY <1>3, FilterLengths
  <2>2. ASSUME NEW i \in 1 .. UpHistLen PROVE SampleAt(g, Len(g) - UpHistLen + i - 1) \in Int
    <3>1. CASE Len(g) - UpHistLen + i - 1 < 0
      BY ONLY <2>1, <2>2, <3>1 DEF SampleAt
    <3>2. CASE ~(Len(g) - UpHistLen + i - 1 < 0)
      <4>1. Len(g) - UpHistLen + i - 1 + 1 \in 1 .. Len(g)
        BY ONLY <2>1, <2>2, <3>2
      <4>2. g[Len(g) - UpHistLen + i - 1 + 1] \in Nat
        BY ONLY <1>3, <4>1
      <4> QED
        BY ONLY <3>2, <4>2 DEF SampleAt
    <3> QED
      BY ONLY <3>1, <3>2
  <2>3. [i \in 1 .. UpHistLen |-> SampleAt(g, Len(g) - UpHistLen + i - 1)] \in Seq(Int)
    BY ONLY <2>1, <2>2
  <2>4. Len([i \in 1 .. UpHistLen |-> SampleAt(g, Len(g) - UpHistLen + i - 1)]) = UpHistLen
    BY ONLY <2>1
  <2> QED
    BY ONLY <1>1, <1>3, <2>3, <2>4, Zenon
<1> DEFINE window(x, i) ==
             LET o == 3 * x + i
                 sample(j) == SampleAt(g, j)
             IN  {<<3 * j - o + Taps - 1, sample(j)>> :
                    j \in {m \in -UpHistLen .. Len(g) - 1 : 3 * m <= o /\ 3 * m >= o - (Taps - 1)}}
<1>7. upWindows' = [i \in 0 .. Frame48 - 1 |-> window(Len(made), i)]
  BY ONLY <1>1, <1>3, Zenon
<1>8. DOMAIN upWindows' = 0 .. Frame48 - 1
  <2> HIDE DEF window
  <2> QED
    BY ONLY <1>7
<1>9. UpSeamless'
  <2>1. Len(made) = Len(made') - Narrow
    <3>1. Len(made) \in Nat /\ Narrow \in Nat
      BY <1>2, FilterLengths
    <3> QED
      BY ONLY <1>4, <3>1
  <2>2. PICK x : x = Len(made') - Narrow
    OBVIOUS
  <2>3. \A i \in DOMAIN upWindows' : upWindows'[i] = window(x, i)
    <3> HIDE DEF window
    <3> QED
      BY ONLY <1>7, <2>1, <2>2, Zenon
  <2>4. \A i \in DOMAIN upWindows' :
          LET o == 3 * (Len(made') - Narrow) + i
              sample(j) == IF j < 0 THEN j ELSE made'[j + 1]
          IN  upWindows'[i] =
                {<<3 * j - o + Taps - 1, sample(j)>> :
                   j \in {m \in -UpHistLen .. Len(made') - 1 : 3 * m <= o /\ 3 * m >= o - (Taps - 1)}}
    BY ONLY <1>4, <2>2, <2>3, Zenon DEF SampleAt
  <2> QED
    BY ONLY <2>4, Zenon DEF UpSeamless
<1>10. upHist' = [i \in 1 .. UpHistLen |->
                LET j == Len(made') - UpHistLen + i - 1 IN IF j < 0 THEN j ELSE made'[j + 1]]
  BY ONLY <1>5, Zenon DEF SampleAt
<1> QED
  BY ONLY <1>4, <1>6, <1>8, <1>9, <1>10, Zenon

(* A frame fed, through one filter or both.                                 *)
LEMMA Process48kKeeps ==
  ASSUME StreamInv, NEW fails \in BOOLEAN, Process48k(fails)
  PROVE  StreamInv'
<1>1. /\ fed48' \in 0 .. Stream48 /\ fed48' = fed48 + 1
      /\ downHist' = [i \in 1 .. DownHistLen |-> fed48' * Frame48 + i - 1 - DownHistLen]
      /\ downHist' \in Seq(Int) /\ Len(downHist') = DownHistLen
      /\ DOMAIN downWindows' = 0 .. Narrow - 1 /\ DownSeamless'
  BY DownKept
<1>2. /\ fed48 \in Nat /\ fed48' <= Stream48 /\ fed48 <= fed48' /\ fed48' \in Nat /\ Stream48 \in Nat
      /\ Len(made) \in Nat /\ Narrow \in Nat /\ Len(made) <= fed48 * Narrow
  <2>1. fed48 \in Nat /\ Len(made) \in Nat /\ Len(made) <= fed48 * Narrow /\ Stream48 \in Nat /\ Narrow \in Nat
    BY StreamState, FilterLengths
  <2> QED
    BY ONLY <1>1, <2>1
<1>3. /\ fed48' * Narrow <= Stream48 * Narrow /\ (fed48 + 1) * Narrow = fed48 * Narrow + Narrow
      /\ fed48 * Narrow \in Nat /\ Stream48 * Narrow \in Nat
  <2>1. fed48' * Narrow <= Stream48 * Narrow
    BY ONLY <1>2, TimesGrows
  <2>2. (fed48 + 1) * Narrow = fed48 * Narrow + Narrow /\ fed48 * Narrow \in Nat /\ Stream48 * Narrow \in Nat
    BY ONLY <1>2, Z3
  <2> QED
    BY ONLY <2>1, <2>2
<1>4. /\ upHist' = [i \in 1 .. UpHistLen |->
                LET j == Len(made') - UpHistLen + i - 1 IN IF j < 0 THEN j ELSE made'[j + 1]]
      /\ upHist' \in Seq(Int) /\ Len(upHist') = UpHistLen
      /\ made' \in Seq(Nat) /\ (Len(made') = Len(made) + Narrow \/ Len(made') = Len(made))
      /\ DOMAIN upWindows' \in {{}, 0 .. Frame48 - 1} /\ UpSeamless'
  <2>1. CASE fails = TRUE
    <3>1. upHist' = upHist /\ upWindows' = upWindows /\ made' = made
      BY <2>1 DEF Process48k
    <3>2. /\ upHist = [i \in 1 .. UpHistLen |->
                LET j == Len(made) - UpHistLen + i - 1 IN IF j < 0 THEN j ELSE made[j + 1]]
          /\ upHist \in Seq(Int) /\ Len(upHist) = UpHistLen /\ made \in Seq(Nat)
          /\ DOMAIN upWindows \in {{}, 0 .. Frame48 - 1} /\ UpSeamless
      BY Zenon DEF StreamInv, ResamplerTypeOK, HistoriesKept
    <3>3. UpSeamless'
      BY ONLY <3>1, <3>2, Zenon DEF UpSeamless
    <3> QED
      BY ONLY <3>1, <3>2, <3>3, Zenon
  <2>2. CASE fails = FALSE
    <3>1. Process48k(FALSE)
      BY <2>2, Zenon
    <3> QED
      BY ONLY <3>1, StreamInv, UpKept, Zenon
  <2> QED
    BY <2>1, <2>2
<1>5. Len(made') <= fed48' * Narrow /\ Len(made') <= Stream48 * Narrow
  <2>1. PICK x \in Nat, y \in Nat, z \in Nat : x = fed48 * Narrow /\ y = fed48' * Narrow /\ z = Stream48 * Narrow
    <3>1. fed48' * Narrow \in Nat
      BY ONLY <1>1, <1>3, <1>2
    <3> QED
      BY ONLY <1>3, <3>1, Zenon
  <2>2. y <= z /\ y = x + Narrow
    BY ONLY <1>1, <1>3, <2>1, Zenon
  <2>3. Len(made) <= x
    BY ONLY <1>2, <2>1, Zenon
  <2>4. Len(made') <= y /\ Len(made') <= z
    BY ONLY <1>2, <1>4, <2>2, <2>3, x \in Nat, y \in Nat, z \in Nat
  <2> QED
    BY ONLY <2>1, <2>4, Zenon
<1>7. converted'.length \in Buffers \cup {0}
  <2>1. converted' = converted /\ converted.length \in Buffers \cup {0}
    BY Zenon DEF Process48k, StreamInv, ResamplerTypeOK
  <2> QED
    BY ONLY <2>1, Zenon
<1>8. ResamplerTypeOK'
  BY ONLY <1>1, <1>4, <1>5, <1>7, Zenon DEF ResamplerTypeOK
<1>9. HistoriesKept'
  BY ONLY <1>1, <1>4, <1>5, Zenon DEF HistoriesKept
<1> QED
  BY <1>1, <1>4, <1>8, <1>9 DEF StreamInv

(* Whatever else happens to the pair.                                       *)
LEMMA StreamElse ==
  ASSUME StreamInv, UNCHANGED stream48Vars, converted'.length \in Buffers \cup {0}
  PROVE  StreamInv'
<1>1. /\ downHist' = downHist /\ upHist' = upHist /\ fed48' = fed48 /\ made' = made
      /\ downWindows' = downWindows /\ upWindows' = upWindows
  BY DEF stream48Vars
<1>2. ResamplerTypeOK'
  <2>1. ResamplerTypeOK
    BY DEF StreamInv
  <2> QED
    BY ONLY <1>1, <2>1, converted'.length \in Buffers \cup {0}, Zenon DEF ResamplerTypeOK
<1>3. HistoriesKept'
  <2>1. HistoriesKept
    BY DEF StreamInv
  <2> QED
    BY ONLY <1>1, <2>1, Zenon DEF HistoriesKept
<1>4. DownSeamless'
  <2>1. DownSeamless
    BY DEF StreamInv
  <2> QED
    BY ONLY <1>1, <2>1, Zenon DEF DownSeamless
<1>5. UpSeamless'
  <2>1. UpSeamless
    BY DEF StreamInv
  <2> QED
    BY ONLY <1>1, <2>1, Zenon DEF UpSeamless
<1> QED
  BY <1>2, <1>3, <1>4, <1>5 DEF StreamInv

(* After a step too.                                                        *)
LEMMA StreamEmptied == NothingFed' => StreamInv'
BY StreamEmpty, PTL

(* The reset.                                                               *)
LEMMA ResetResamplerKeeps ==
  ASSUME StreamInv, ResetResampler
  PROVE  StreamInv'
<1>1. converted' = converted /\ converted.length \in Buffers \cup {0}
  BY DEF ResetResampler, StreamInv, ResamplerTypeOK
<1>2. NothingFed'
  BY <1>1 DEF ResetResampler, NothingFed
<1> QED
  BY <1>2, StreamEmptied

(* The window w meets, for each tap of K, the sample sampleOf[k].                 *)
IsWindow(w, K, sampleOf) == w = {<<k, sampleOf[k], 1>> : k \in K}

(* A window has as many samples as taps that meet one.                      *)
LEMMA WindowSize ==
  ASSUME NEW K, IsFiniteSet(K), NEW sampleOf, NEW w, IsWindow(w, K, sampleOf)
  PROVE  Cardinality(w) = Cardinality(K)
<1> DEFINE b == [k \in K |-> <<k, sampleOf[k], 1>>]
<1>1. w = {b[k] : k \in K} /\ \A k \in K : b[k] = <<k, sampleOf[k], 1>>
  BY Zenon DEF IsWindow
<1>2. b \in [K -> w]
  BY <1>1
<1>3. \A k, m \in K : b[k] = b[m] => k = m
  BY <1>1
<1>4. \A t \in w : \E k \in K : b[k] = t
  BY <1>1
<1> HIDE DEF b
<1>5. b \in Bijection(K, w)
  <2>1. DOMAIN b = K
    BY <1>2
  <2> QED
    BY <1>2, <1>3, <1>4, <2>1, Zenon DEF Bijection, Injection, Surjection, IsInjective
<1>6. ExistsBijection(K, w)
  BY <1>5 DEF ExistsBijection
<1> QED
  BY <1>6, FS_Bijection

(* The samples of a window, and which tap meets which.                      *)
LEMMA WindowMembers ==
  ASSUME NEW K, NEW sampleOf, NEW w, IsWindow(w, K, sampleOf), NEW t \in w
  PROVE  t[1] \in K /\ t[2] = sampleOf[t[1]]
BY DEF IsWindow

(* A tap on the buffer, its reflection or the silence around.               *)
LEMMA ReflectedIn ==
  ASSUME NEW n \in Nat, NEW k, NEW a \in Int
  PROVE  /\ \A t \in Reflected(n, k, a) : t[2] \in 0 .. n - 1
         /\ a \in 0 .. n - 1 => Reflected(n, k, a) = {<<k, a, 1>>}
<1>1. CASE a >= 0 /\ a < n
  <2>1. Reflected(n, k, a) = {<<k, a, 1>>}
    BY ONLY <1>1, Zenon DEF Reflected
  <2> QED
    BY <1>1, <2>1
<1>2. CASE ~(a >= 0 /\ a < n) /\ a < 0 /\ -a < n
  <2>1. Reflected(n, k, a) = {<<k, -a, -1>>}
    BY ONLY <1>2, Zenon DEF Reflected
  <2> QED
    BY <1>2, <2>1
<1>3. CASE ~(a >= 0 /\ a < n) /\ ~(a < 0 /\ -a < n)
  <2>1. Reflected(n, k, a) = {}
    BY ONLY <1>3, Zenon DEF Reflected
  <2> QED
    BY <1>3, <2>1
<1> QED
  BY <1>1, <1>2, <1>3

(* Taps that all meet the buffer itself make a window.                      *)
LEMMA PointsMade ==
  ASSUME NEW n \in Nat, NEW K, NEW sampleOf, \A k \in K : sampleOf[k] \in Int /\ sampleOf[k] \in 0 .. n - 1
  PROVE  IsWindow(UNION {Reflected(n, k, sampleOf[k]) : k \in K}, K, sampleOf)
<1>1. \A k \in K : Reflected(n, k, sampleOf[k]) = {<<k, sampleOf[k], 1>>}
  BY ReflectedIn
<1>2. {Reflected(n, k, sampleOf[k]) : k \in K} = {{<<k, sampleOf[k], 1>>} : k \in K}
  BY ONLY <1>1, Zenon
<1>3. UNION {{<<k, sampleOf[k], 1>>} : k \in K} = {<<k, sampleOf[k], 1>> : k \in K}
  BY ONLY Zenon
<1> QED
  BY ONLY <1>2, <1>3, Zenon DEF IsWindow

(* Half the filter.                                                         *)
LEMMA HalfIs == Half \in Nat /\ Taps = 2 * Half + 1 /\ Taps \in Nat /\ LinearTaps \in Nat
BY ResamplerAssumption DEF Half

(* The 2x upsampling.                                                       *)
LEMMA UpCentred ==
  ASSUME NEW n \in Nat, NEW i \in 0 .. 2 * n - 1, NEW w, w = kaiserFIRUpsample2x(n)[i]
  PROVE  /\ \A t \in w : t[2] \in 0 .. n - 1
         /\ (Rounded(i * 1, 2) >= Taps + LinearTaps /\ Rounded(i * 1, 2) < n - Taps - LinearTaps) =>
              /\ Cardinality(w) = Cardinality({k \in 0 .. Taps - 1 : (i - k + Half) % 2 = 0})
              /\ \A t, u \in w : t[1] < u[1] => t[2] > u[2]
<1> DEFINE J == {j \in 0 .. Taps - 1 : i - j + Half < 2 * n /\ (i - j + Half) % 2 = 0}
           K == {k \in 0 .. Taps - 1 : (i - k + Half) % 2 = 0}
           sampleOf == [k \in J |-> (i - k + Half) \div 2]
<1>1. PICK h \in Nat, p \in Nat, l \in Nat : h = Half /\ p = Taps /\ l = LinearTaps /\ p = 2 * h + 1
  BY HalfIs
<1>2. w = UNION {Reflected(n, k, (i - k + Half) \div 2) : k \in J}
  BY Zenon DEF kaiserFIRUpsample2x
<1>3. ASSUME NEW k \in J
      PROVE  /\ sampleOf[k] = (i - k + Half) \div 2 /\ sampleOf[k] \in Int
             /\ 2 * sampleOf[k] = i - k + h /\ k \in 0 .. p - 1
  <2>1. k \in 0 .. p - 1 /\ (i - k + h) % 2 = 0
    BY ONLY <1>1, <1>3
  <2>2. sampleOf[k] = (i - k + Half) \div 2
    BY Zenon
  <2>3. (i - k + h) \div 2 \in Int /\ 2 * ((i - k + h) \div 2) = i - k + h
    BY ONLY <2>1, h \in Nat, p \in Nat, i \in 0 .. 2 * n - 1, n \in Nat
  <2> QED
    BY ONLY <1>1, <2>1, <2>2, <2>3
<1>4. w = UNION {Reflected(n, k, sampleOf[k]) : k \in J}
  <2>1. \A k \in J : Reflected(n, k, (i - k + Half) \div 2) = Reflected(n, k, sampleOf[k])
    <3> HIDE DEF J, sampleOf
    <3> QED
      BY ONLY <1>3, Zenon
  <2> HIDE DEF J, sampleOf
  <2> QED
    BY ONLY <1>2, <2>1, Zenon
<1>5. \A t \in w : t[2] \in 0 .. n - 1
  <2>1. ASSUME NEW t \in w PROVE t[2] \in 0 .. n - 1
    <3> HIDE DEF J, sampleOf
    <3>1. PICK k \in J : t \in Reflected(n, k, sampleOf[k])
      BY ONLY <1>4, <2>1, Zenon
    <3>2. sampleOf[k] \in Int
      BY ONLY <1>3, <3>1
    <3> QED
      BY ONLY <3>1, <3>2, n \in Nat, ReflectedIn
  <2> QED
    BY <2>1
<1>6. ASSUME Rounded(i * 1, 2) >= Taps + LinearTaps, Rounded(i * 1, 2) < n - Taps - LinearTaps
      PROVE  /\ Cardinality(w) = Cardinality(K)
             /\ \A t, u \in w : t[1] < u[1] => t[2] > u[2]
  <2>1. PICK c \in Int : c = Rounded(i * 1, 2) /\ 2 * c <= i + 1 /\ i <= 2 * c
    <3>1. (2 * (i * 1) + 2) \div (2 * 2) \in Int /\ 2 * ((2 * (i * 1) + 2) \div (2 * 2)) <= i + 1
          /\ i <= 2 * ((2 * (i * 1) + 2) \div (2 * 2))
      BY ONLY n \in Nat, i \in 0 .. 2 * n - 1
    <3> QED
      BY ONLY <3>1 DEF Rounded
  <2>2. c >= p + l /\ c < n - p - l
    BY ONLY <1>1, <1>6, <2>1
  <2>3. i >= 2 * p - 1 /\ i + 2 * p < 2 * n + 1
    BY ONLY <2>1, <2>2, p \in Nat, l \in Nat, n \in Nat, i \in 0 .. 2 * n - 1
  <2>4. J = K
    <3>1. \A k \in 0 .. p - 1 : i - k + h < 2 * n
      BY ONLY <1>1, <2>3, p \in Nat, h \in Nat, n \in Nat, i \in 0 .. 2 * n - 1
    <3> QED
      BY ONLY <1>1, <3>1
  <2>5. ASSUME NEW k \in J PROVE sampleOf[k] \in Int /\ sampleOf[k] \in 0 .. n - 1
    <3>1. sampleOf[k] \in Int /\ 2 * sampleOf[k] = i - k + h /\ k \in 0 .. p - 1
      BY ONLY <1>3, <2>5
    <3> HIDE DEF sampleOf, J
    <3> QED
      BY ONLY <1>1, <2>3, <3>1, p \in Nat, h \in Nat, n \in Nat, i \in 0 .. 2 * n - 1
  <2>6. IsWindow(w, J, sampleOf)
    <3> HIDE DEF J, sampleOf
    <3> QED
      BY ONLY <1>4, <2>5, n \in Nat, PointsMade
  <2>7. Cardinality(w) = Cardinality(K)
    <3>1. IsFiniteSet(J)
      <4>1. IsFiniteSet(0 .. p - 1)
        BY ONLY p \in Nat, FS_Interval
      <4>2. J \in SUBSET (0 .. p - 1)
        BY ONLY <1>1
      <4> HIDE DEF J
      <4> QED
        BY ONLY <4>1, <4>2, FS_Subset
    <3> HIDE DEF J, K, sampleOf
    <3> QED
      BY ONLY <2>4, <2>6, <3>1, WindowSize
  <2>8. ASSUME NEW t \in w, NEW u \in w, t[1] < u[1] PROVE t[2] > u[2]
    <3> HIDE DEF J, sampleOf
    <3>1. t[1] \in J /\ t[2] = sampleOf[t[1]] /\ u[1] \in J /\ u[2] = sampleOf[u[1]]
      BY ONLY <2>6, <2>8, WindowMembers
    <3>2. /\ sampleOf[t[1]] \in Int /\ 2 * sampleOf[t[1]] = i - t[1] + h /\ t[1] \in 0 .. p - 1
          /\ sampleOf[u[1]] \in Int /\ 2 * sampleOf[u[1]] = i - u[1] + h /\ u[1] \in 0 .. p - 1
      BY ONLY <1>3, <3>1
    <3> QED
      BY ONLY <2>8, <3>1, <3>2, h \in Nat, p \in Nat, i \in 0 .. 2 * n - 1
  <2> QED
    BY ONLY <2>7, <2>8
<1> QED
  BY <1>5, <1>6

(* The 2x downsampling.                                                     *)
LEMMA DownCentred ==
  ASSUME NEW n \in Nat, NEW i \in 0 .. (n + 1) \div 2 - 1, NEW w, w = kaiserFIRDownsample2x(n)[i]
  PROVE  /\ \A t \in w : t[2] \in 0 .. n - 1
         /\ (Rounded(i * 2, 1) >= Taps + LinearTaps /\ Rounded(i * 2, 1) < n - Taps - LinearTaps) =>
              /\ Cardinality(w) = Taps
              /\ \A t, u \in w : t[1] < u[1] => t[2] < u[2]
<1> DEFINE J == 0 .. Taps - 1
           sampleOf == [k \in J |-> 2 * i - Half + k]
<1>1. PICK h \in Nat, p \in Nat, l \in Nat : h = Half /\ p = Taps /\ l = LinearTaps /\ p = 2 * h + 1
  BY HalfIs
<1>2. w = UNION {Reflected(n, k, 2 * i - Half + k) : k \in J}
  BY Zenon DEF kaiserFIRDownsample2x
<1>3. i \in Nat
  BY ONLY n \in Nat, i \in 0 .. (n + 1) \div 2 - 1
<1>4. ASSUME NEW k \in J
      PROVE  /\ sampleOf[k] = 2 * i - Half + k /\ sampleOf[k] \in Int
             /\ sampleOf[k] = 2 * i - h + k /\ k \in 0 .. p - 1
  <2>1. k \in 0 .. p - 1
    BY ONLY <1>1, <1>4
  <2>2. sampleOf[k] = 2 * i - Half + k
    BY Zenon
  <2> QED
    BY ONLY <1>1, <1>3, <2>1, <2>2, h \in Nat, p \in Nat
<1>5. w = UNION {Reflected(n, k, sampleOf[k]) : k \in J}
  <2>1. \A k \in J : Reflected(n, k, 2 * i - Half + k) = Reflected(n, k, sampleOf[k])
    <3> HIDE DEF J, sampleOf
    <3> QED
      BY ONLY <1>4, Zenon
  <2> HIDE DEF J, sampleOf
  <2> QED
    BY ONLY <1>2, <2>1, Zenon
<1>6. \A t \in w : t[2] \in 0 .. n - 1
  <2>1. ASSUME NEW t \in w PROVE t[2] \in 0 .. n - 1
    <3> HIDE DEF J, sampleOf
    <3>1. PICK k \in J : t \in Reflected(n, k, sampleOf[k])
      BY ONLY <1>5, <2>1, Zenon
    <3>2. sampleOf[k] \in Int
      BY ONLY <1>4, <3>1
    <3> QED
      BY ONLY <3>1, <3>2, n \in Nat, ReflectedIn
  <2> QED
    BY <2>1
<1>7. ASSUME Rounded(i * 2, 1) >= Taps + LinearTaps, Rounded(i * 2, 1) < n - Taps - LinearTaps
      PROVE  /\ Cardinality(w) = Taps
             /\ \A t, u \in w : t[1] < u[1] => t[2] < u[2]
  <2>1. Rounded(i * 2, 1) = 2 * i
    BY ONLY <1>3 DEF Rounded
  <2>2. 2 * i >= p + l /\ 2 * i < n - p - l
    BY ONLY <1>1, <1>7, <2>1
  <2>3. ASSUME NEW k \in J PROVE sampleOf[k] \in Int /\ sampleOf[k] \in 0 .. n - 1
    <3>1. sampleOf[k] \in Int /\ sampleOf[k] = 2 * i - h + k /\ k \in 0 .. p - 1
      BY ONLY <1>4, <2>3
    <3> HIDE DEF sampleOf, J
    <3> QED
      BY ONLY <1>1, <1>3, <2>2, <3>1, p \in Nat, h \in Nat, n \in Nat, l \in Nat
  <2>4. IsWindow(w, J, sampleOf)
    <3> HIDE DEF J, sampleOf
    <3> QED
      BY ONLY <1>5, <2>3, n \in Nat, PointsMade
  <2>5. Cardinality(w) = Taps
    <3>1. IsFiniteSet(J) /\ Cardinality(J) = Taps
      BY ONLY <1>1, p \in Nat, FS_Interval
    <3> HIDE DEF J, sampleOf
    <3> QED
      BY ONLY <2>4, <3>1, WindowSize
  <2>6. ASSUME NEW t \in w, NEW u \in w, t[1] < u[1] PROVE t[2] < u[2]
    <3> HIDE DEF J, sampleOf
    <3>1. t[1] \in J /\ t[2] = sampleOf[t[1]] /\ u[1] \in J /\ u[2] = sampleOf[u[1]]
      BY ONLY <2>4, <2>6, WindowMembers
    <3>2. /\ sampleOf[t[1]] = 2 * i - h + t[1] /\ t[1] \in 0 .. p - 1
          /\ sampleOf[u[1]] = 2 * i - h + u[1] /\ u[1] \in 0 .. p - 1
      BY ONLY <1>4, <3>1
    <3> QED
      BY ONLY <1>3, <2>6, <3>1, <3>2, h \in Nat, p \in Nat
  <2> QED
    BY ONLY <2>5, <2>6
<1> QED
  BY <1>6, <1>7

(* The other conversions.                                                   *)
LEMMA LinearCentred ==
  ASSUME NEW n \in Nat, NEW src \in 1 .. 3, NEW dst \in 1 .. 3,
         NEW i \in 0 .. linearLength(n, src, dst) - 1, NEW w, w = linearResample(n, src, dst)[i]
  PROVE  /\ \A t \in w : t[2] \in 0 .. n - 1
         /\ (Rounded(i * src, dst) >= Taps + LinearTaps /\ Rounded(i * src, dst) < n - Taps - LinearTaps) =>
              /\ Cardinality(w) = LinearTaps
              /\ \A t, u \in w : t[1] < u[1] => t[2] < u[2]
<1> DEFINE place(k) == Centre(i, src, dst) - (LinearTaps \div 2 - 1) + k
           J == {k \in 0 .. LinearTaps - 1 : place(k) >= 0 /\ place(k) < n}
           sampleOf == [k \in J |-> place(k)]
<1>1. PICK l \in Nat, h \in Nat, p \in Nat : l = LinearTaps /\ h = l \div 2 /\ l = 2 * h /\ p = Taps
  BY ResamplerAssumption
<1>2. PICK c \in Int : c = Centre(i, src, dst) /\ c = Rounded(i * src, dst)
  <2>1. i \in Nat
    <3>1. linearLength(n, src, dst) \in Int
      <4>1. (2 * (n * dst) + src) \div (2 * src) \in Int
        <5>1. \A d \in {1, 2, 3} : n * d \in Int
          BY ONLY n \in Nat
        <5>2. dst \in {1, 2, 3} /\ src \in {1, 2, 3}
          BY ONLY src \in 1 .. 3, dst \in 1 .. 3
        <5>3. PICK m \in Int : m = n * dst
          BY ONLY <5>1, <5>2
        <5>4. \A s \in {1, 2, 3} : (2 * m + s) \div (2 * s) \in Int
          BY ONLY m \in Int
        <5> QED
          BY ONLY <5>2, <5>3, <5>4
      <4> QED
        BY ONLY <4>1 DEF linearLength, Rounded
    <3> QED
      BY ONLY <3>1, i \in 0 .. linearLength(n, src, dst) - 1
  <2>2. (2 * (i * src) + dst) \div (2 * dst) \in Int
    <3>1. \A d \in {1, 2, 3} : i * d \in Int
      BY ONLY <2>1
    <3>2. dst \in {1, 2, 3} /\ src \in {1, 2, 3}
      BY ONLY src \in 1 .. 3, dst \in 1 .. 3
    <3>3. PICK m \in Int : m = i * src
      BY ONLY <3>1, <3>2
    <3>4. \A s \in {1, 2, 3} : (2 * m + s) \div (2 * s) \in Int
      BY ONLY m \in Int
    <3> QED
      BY ONLY <3>2, <3>3, <3>4
  <2> QED
    BY ONLY <2>2 DEF Centre, Rounded
<1>3. w = {<<k, place(k), 1>> : k \in J}
  BY Zenon DEF linearResample
<1>4. IsWindow(w, J, sampleOf)
  <2>1. \A k \in J : sampleOf[k] = place(k)
    BY Zenon
  <2> HIDE DEF J, sampleOf
  <2> QED
    BY ONLY <1>3, <2>1, Zenon DEF IsWindow
<1>5. ASSUME NEW k \in J PROVE sampleOf[k] = c - (h - 1) + k /\ k \in 0 .. l - 1 /\ sampleOf[k] \in 0 .. n - 1
  <2>1. k \in 0 .. l - 1 /\ place(k) >= 0 /\ place(k) < n
    BY ONLY <1>1, <1>5
  <2>2. sampleOf[k] = place(k)
    BY Zenon
  <2>3. place(k) = c - (h - 1) + k
    BY ONLY <1>1, <1>2
  <2> HIDE DEF J, sampleOf, place
  <2> QED
    BY ONLY <2>1, <2>2, <2>3, c \in Int, h \in Nat, l \in Nat, n \in Nat
<1>6. ASSUME NEW t \in w PROVE t[1] \in J /\ t[2] = sampleOf[t[1]]
  <2> HIDE DEF J, sampleOf, place
  <2> QED
    BY ONLY <1>4, <1>6, WindowMembers
<1>7. \A t \in w : t[2] \in 0 .. n - 1
  <2> HIDE DEF J, sampleOf, place
  <2> QED
    BY ONLY <1>5, <1>6, Zenon
<1>8. ASSUME Rounded(i * src, dst) >= Taps + LinearTaps, Rounded(i * src, dst) < n - Taps - LinearTaps
      PROVE  /\ Cardinality(w) = LinearTaps
             /\ \A t, u \in w : t[1] < u[1] => t[2] < u[2]
  <2>1. c >= p + l /\ c < n - p - l
    BY ONLY <1>1, <1>2, <1>8
  <2>2. J = 0 .. LinearTaps - 1
    <3>1. ASSUME NEW k \in 0 .. l - 1 PROVE place(k) >= 0 /\ place(k) < n
      <4>1. place(k) = c - (h - 1) + k
        BY ONLY <1>1, <1>2
      <4> HIDE DEF place
      <4> QED
        BY ONLY <1>1, <2>1, <3>1, <4>1, c \in Int, h \in Nat, l \in Nat, n \in Nat, p \in Nat
    <3>2. \A k \in 0 .. LinearTaps - 1 : place(k) >= 0 /\ place(k) < n
      BY ONLY <1>1, <3>1, Zenon
    <3> HIDE DEF place
    <3> QED
      BY ONLY <3>2
  <2>3. Cardinality(w) = LinearTaps
    <3> HIDE DEF J, sampleOf, place
    <3>1. IsFiniteSet(J) /\ Cardinality(J) = LinearTaps
      <4>1. IsFiniteSet(0 .. l - 1) /\ Cardinality(0 .. l - 1) = l
        <5>1. 0 \in Int /\ l - 1 \in Int
          BY ONLY l \in Nat
        <5>2. /\ IsFiniteSet(0 .. l - 1)
              /\ Cardinality(0 .. l - 1) = IF 0 > l - 1 THEN 0 ELSE l - 1 - 0 + 1
          BY ONLY <5>1, FS_Interval, Zenon
        <5> QED
          BY ONLY <5>2, l \in Nat
      <4> QED
        BY ONLY <1>1, <2>2, <4>1, Zenon
    <3> QED
      BY ONLY <1>4, <3>1, WindowSize
  <2>4. ASSUME NEW t \in w, NEW u \in w, t[1] < u[1] PROVE t[2] < u[2]
    <3> HIDE DEF J, sampleOf, place
    <3>1. t[1] \in J /\ t[2] = sampleOf[t[1]] /\ u[1] \in J /\ u[2] = sampleOf[u[1]]
      BY ONLY <1>6, <2>4
    <3>2. /\ sampleOf[t[1]] = c - (h - 1) + t[1] /\ t[1] \in 0 .. l - 1
          /\ sampleOf[u[1]] = c - (h - 1) + u[1] /\ u[1] \in 0 .. l - 1
      BY ONLY <1>5, <3>1
    <3> QED
      BY ONLY <2>4, <3>1, <3>2, c \in Int, h \in Nat, l \in Nat
  <2> QED
    BY ONLY <2>3, <2>4
<1> QED
  BY <1>7, <1>8

(* The windows w of a buffer of n samples are as WindowsCentred has them.   *)
CentredIn(n, src, dst, w) ==
  LET up == src = 1 /\ dst = 2
      whole(i) == Rounded(i * src, dst)
      linear == ~up /\ ~(src = 2 /\ dst = 1)
  IN  \A i \in DOMAIN w :
        /\ \A t \in w[i] : t[2] \in 0 .. n - 1
        /\ (whole(i) >= Taps + LinearTaps /\ whole(i) < n - Taps - LinearTaps) =>
             /\ Cardinality(w[i]) = IF linear THEN LinearTaps
                                    ELSE IF up THEN Cardinality({k \in 0 .. Taps - 1 : (i - k + Half) % 2 = 0})
                                    ELSE Taps
             /\ \A t, u \in w[i] : t[1] < u[1] => IF up THEN t[2] > u[2] ELSE t[2] < u[2]

(* Every conversion keeps its windows centred.                              *)
LEMMA Centred ==
  ASSUME NEW n \in Nat, NEW src \in 1 .. 3, NEW dst \in 1 .. 3, src # dst, NEW w, w = Resample(n, src, dst)
  PROVE  CentredIn(n, src, dst, w)
<1>1. CASE src = 1 /\ dst = 2
  <2>1. w = kaiserFIRUpsample2x(n)
    BY ONLY <1>1, w = Resample(n, src, dst), Zenon DEF Resample
  <2>2. DOMAIN w = 0 .. 2 * n - 1
    BY ONLY <2>1, Zenon DEF kaiserFIRUpsample2x
  <2>3. ASSUME NEW i \in DOMAIN w
        PROVE  /\ \A t \in w[i] : t[2] \in 0 .. n - 1
               /\ (Rounded(i * 1, 2) >= Taps + LinearTaps /\ Rounded(i * 1, 2) < n - Taps - LinearTaps) =>
                    /\ Cardinality(w[i]) = Cardinality({k \in 0 .. Taps - 1 : (i - k + Half) % 2 = 0})
                    /\ \A t, u \in w[i] : t[1] < u[1] => t[2] > u[2]
    <3>1. i \in 0 .. 2 * n - 1 /\ w[i] = kaiserFIRUpsample2x(n)[i]
      BY ONLY <2>1, <2>2, <2>3, Zenon
    <3> QED
      BY ONLY <3>1, n \in Nat, UpCentred, Zenon
  <2> QED
    BY ONLY <1>1, <2>3, Zenon DEF CentredIn
<1>2. CASE src = 2 /\ dst = 1
  <2>1. w = kaiserFIRDownsample2x(n)
    <3>1. ~(src = 1 /\ dst = 2)
      BY ONLY <1>2
    <3> QED
      BY ONLY <1>2, <3>1, w = Resample(n, src, dst), Zenon DEF Resample
  <2>2. DOMAIN w = 0 .. (n + 1) \div 2 - 1
    BY ONLY <2>1, Zenon DEF kaiserFIRDownsample2x
  <2>3. ASSUME NEW i \in DOMAIN w
        PROVE  /\ \A t \in w[i] : t[2] \in 0 .. n - 1
               /\ (Rounded(i * 2, 1) >= Taps + LinearTaps /\ Rounded(i * 2, 1) < n - Taps - LinearTaps) =>
                    /\ Cardinality(w[i]) = Taps
                    /\ \A t, u \in w[i] : t[1] < u[1] => t[2] < u[2]
    <3>1. i \in 0 .. (n + 1) \div 2 - 1 /\ w[i] = kaiserFIRDownsample2x(n)[i]
      BY ONLY <2>1, <2>2, <2>3, Zenon
    <3> QED
      BY ONLY <3>1, n \in Nat, DownCentred, Zenon
  <2>4. ~(src = 1 /\ dst = 2)
    BY ONLY <1>2
  <2> QED
    BY ONLY <1>2, <2>3, <2>4, Zenon DEF CentredIn
<1>3. CASE ~(src = 1 /\ dst = 2) /\ ~(src = 2 /\ dst = 1)
  <2>1. w = linearResample(n, src, dst)
    BY ONLY <1>3, w = Resample(n, src, dst), Zenon DEF Resample
  <2>2. DOMAIN w = 0 .. linearLength(n, src, dst) - 1
    BY ONLY <2>1, Zenon DEF linearResample
  <2>3. ASSUME NEW i \in DOMAIN w
        PROVE  /\ \A t \in w[i] : t[2] \in 0 .. n - 1
               /\ (Rounded(i * src, dst) >= Taps + LinearTaps /\ Rounded(i * src, dst) < n - Taps - LinearTaps) =>
                    /\ Cardinality(w[i]) = LinearTaps
                    /\ \A t, u \in w[i] : t[1] < u[1] => t[2] < u[2]
    <3>1. i \in 0 .. linearLength(n, src, dst) - 1 /\ w[i] = linearResample(n, src, dst)[i]
      BY ONLY <2>1, <2>2, <2>3, Zenon
    <3> QED
      BY ONLY <3>1, n \in Nat, src \in 1 .. 3, dst \in 1 .. 3, LinearCentred, Zenon
  <2> QED
    BY ONLY <1>3, <2>3, Zenon DEF CentredIn
<1> QED
  BY ONLY <1>1, <1>2, <1>3, Zenon

(* The conversion of a buffer.                                              *)
LEMMA ConvertCentres ==
  ASSUME NEW n \in Buffers, NEW src \in 1 .. 3, NEW dst \in 1 .. 3, Convert(n, src, dst)
  PROVE  WindowsCentred' /\ converted'.length \in Buffers
<1>1. src # dst /\ n \in Nat
  BY ResamplerAssumption DEF Convert
<1>2. CentredIn(n, src, dst, Resample(n, src, dst))
  <2>1. PICK w : w = Resample(n, src, dst)
    OBVIOUS
  <2>2. CentredIn(n, src, dst, w)
    BY ONLY <1>1, <2>1, src \in 1 .. 3, dst \in 1 .. 3, Centred
  <2> QED
    BY ONLY <2>1, <2>2, Zenon
<1>3. converted' = [from |-> src, to |-> dst, length |-> n, windows |-> Resample(n, src, dst)]
  BY Zenon DEF Convert
<1>4. /\ converted'.from = src /\ converted'.to = dst /\ converted'.length = n
      /\ converted'.windows = Resample(n, src, dst)
  BY ONLY <1>3
<1>5. CentredIn(converted'.length, converted'.from, converted'.to, converted'.windows)
  BY ONLY <1>2, <1>4, Zenon
<1>6. WindowsCentred'
  BY ONLY <1>5, Zenon DEF WindowsCentred, CentredIn
<1> QED
  BY <1>4, <1>6

(* The usual bounds of a quotient.                                          *)
LEMMA QuotientBetween ==
  ASSUME NEW a \in Nat, NEW b \in Nat \ {0}, NEW q \in Nat
  PROVE  a \div b = q <=> q * b <= a /\ a < q * b + b
<1>1. PICK d \in Nat : d = a \div b /\ b * d <= a /\ a < b * d + b
  <2>1. a \div b \in Nat /\ b * (a \div b) <= a /\ a < b * (a \div b) + b
    BY Z3
  <2> QED
    BY <2>1
<1>2. d = q => q * b <= a /\ a < q * b + b
  <2>1. b * q = q * b
    BY Z3
  <2> QED
    BY <1>1, <2>1
<1>3. q * b <= a /\ a < q * b + b => d = q
  <2>1. d < q => b * d + b <= q * b
    BY Z3
  <2>2. d > q => q * b + b <= b * d
    BY Z3
  <2>3. q * b \in Nat /\ b * d \in Nat
    BY Z3
  <2> QED
    BY <1>1, <2>1, <2>2, <2>3
<1> QED
  BY <1>1, <1>2, <1>3

(* The frames of the pipeline at every rate.                                *)
LEMMA FramesKept == FramesKeepLength
<1> SUFFICES ASSUME NEW r \in Rates, r >= 100
             PROVE  LET n == (160 * r) \div 16000
                    IN  /\ linearLength(n, r, 16000) = 160 <=> 320 * (r % 100) <= r
                        /\ linearLength(160, 16000, r) = IF r % 100 >= 50 THEN n + 1 ELSE n
  BY DEF FramesKeepLength
<1>1. r \in Nat \ {0}
  BY ResamplerAssumption
<1>2. PICK n \in Nat, c \in Nat : n = r \div 100 /\ c = r % 100 /\ r = 100 * n + c /\ c < 100 /\ n >= 1
  <2>1. r \in Nat
    BY <1>1
  <2>2. r \div 100 \in Nat
    BY ONLY <2>1
  <2>3. r % 100 \in Nat /\ r % 100 < 100
    BY ONLY <2>1
  <2>4. r = 100 * (r \div 100) + (r % 100)
    BY ONLY <2>1
  <2>5. r \div 100 >= 1
    BY ONLY <2>1, r >= 100
  <2>6. PICK n \in Nat, c \in Nat : n = r \div 100 /\ c = r % 100
    BY ONLY <2>2, <2>3
  <2>7. n = r \div 100 /\ c = r % 100 /\ r = 100 * n + c /\ c < 100 /\ n >= 1
    BY ONLY <2>3, <2>4, <2>5, <2>6, Zenon
  <2> QED
    BY ONLY <2>7, n \in Nat, c \in Nat, Zenon
<1>3. (160 * r) \div 16000 = n
  BY ONLY <1>2, n \in Nat, c \in Nat
<1>4. linearLength(n, r, 16000) = 160 <=> 320 * c <= r
  <2>1. PICK a \in Nat, b \in Nat \ {0} : a = 2 * (n * 16000) + r /\ b = 2 * r
    <3>1. 2 * (n * 16000) + r \in Nat /\ 2 * r \in Nat \ {0}
      BY ONLY <1>1, n \in Nat
    <3> QED
      BY ONLY <3>1
  <2>2. a \div b = 160 <=> 160 * b <= a /\ a < 160 * b + b
    BY ONLY a \in Nat, b \in Nat \ {0}, QuotientBetween
  <2>3. (160 * b <= a /\ a < 160 * b + b) <=> 320 * c <= r
    BY ONLY <1>1, <1>2, <2>1, n \in Nat, c \in Nat
  <2>4. linearLength(n, r, 16000) = a \div b
    BY ONLY <2>1 DEF linearLength, Rounded
  <2> QED
    BY ONLY <2>2, <2>3, <2>4
<1>5. linearLength(160, 16000, r) = IF c >= 50 THEN n + 1 ELSE n
  BY ONLY <1>1, <1>2, n \in Nat, c \in Nat DEF linearLength, Rounded
<1> QED
  BY ONLY <1>2, <1>3, <1>4, <1>5

(* The sum of two samples.                                                  *)
LEMMA AddsTwo ==
  ASSUME NEW q, NEW a \in Int, NEW b \in Int, q = <<a, b>>
  PROVE  FoldLeft(+, 0, q) = a + b
<1>0. PICK n \in Nat : n = 2
  OBVIOUS
<1> DEFINE iter == CHOOSE g : IsFold(g, "add", q, 0, n)
<1>1. DOMAIN q = 1 .. 2 /\ q[1] = a /\ q[2] = b
  BY ONLY q = <<a, b>>
<1>2. FoldLeft(+, 0, q) = iter[1 .. 2]
  <2>1. FoldLeft(+, 0, q) = (CHOOSE g : IsFold(g, "add", q, 0, n))[1 .. 2]
    BY <1>0, <1>1 DEF FoldLeft, MapThenFoldSet, IsFold, FoldStep
  <2> QED
    BY <2>1
<1>3. IsFold(iter, "add", q, 0, n)
  <2>1. \E g : IsFold(g, "add", q, 0, n)
    BY FoldExists
  <2> QED
    BY <2>1, Zenon
<1> HIDE DEF iter
<1>4. iter[{}] = 0 /\ \A k \in 1 .. n : iter[1 .. k] = FoldStep("add", q, k, iter[1 .. k - 1])
  BY ONLY <1>3, n \in Nat, FoldTakes
<1>5. iter[1 .. 1] = FoldStep("add", q, 1, iter[{}]) /\ iter[1 .. 2] = FoldStep("add", q, 2, iter[1 .. 1])
  <2>1. 1 \in 1 .. 2 /\ 2 \in 1 .. 2 /\ 1 .. 1 - 1 = {} /\ 2 - 1 = 1
    BY ONLY TRUE
  <2> QED
    BY ONLY <1>0, <1>4, <2>1, Zenon
<1>6. iter[1 .. 1] = 0 + a /\ iter[1 .. 2] = iter[1 .. 1] + b
  BY ONLY <1>1, <1>4, <1>5 DEF FoldStep
<1>7. iter[1 .. 2] = a + b
  BY ONLY <1>6, a \in Int, b \in Int
<1> QED
  BY ONLY <1>2, <1>7, Zenon

(* The peak of two samples.                                                 *)
LEMMA PeakOfTwo ==
  ASSUME NEW q, NEW a \in Int, NEW b \in Int, q = <<a, b>>, NEW highest,
         highest = FoldLeft(LAMBDA p, s : IF Magnitude(s) > p THEN Magnitude(s) ELSE p, 0, q)
  PROVE  highest \in Nat /\ Magnitude(a) <= highest /\ Magnitude(b) <= highest
<1>0. PICK n \in Nat : n = 2
  OBVIOUS
<1> DEFINE iter == CHOOSE g : IsFold(g, "peak", q, 0, n)
<1>1. DOMAIN q = 1 .. 2 /\ q[1] = a /\ q[2] = b
  BY ONLY q = <<a, b>>
<1>2. highest = iter[1 .. 2]
  <2>1. FoldLeft(LAMBDA p, s : IF Magnitude(s) > p THEN Magnitude(s) ELSE p, 0, q)
          = (CHOOSE g : IsFold(g, "peak", q, 0, n))[1 .. 2]
    BY <1>0, <1>1 DEF FoldLeft, MapThenFoldSet, IsFold, FoldStep
  <2> QED
    BY <2>1
<1>3. IsFold(iter, "peak", q, 0, n)
  <2>1. \E g : IsFold(g, "peak", q, 0, n)
    BY FoldExists
  <2> QED
    BY <2>1, Zenon
<1> HIDE DEF iter
<1>4. iter[{}] = 0 /\ \A k \in 1 .. n : iter[1 .. k] = FoldStep("peak", q, k, iter[1 .. k - 1])
  BY ONLY <1>3, n \in Nat, FoldTakes
<1>5. iter[1 .. 1] = FoldStep("peak", q, 1, iter[{}]) /\ iter[1 .. 2] = FoldStep("peak", q, 2, iter[1 .. 1])
  <2>1. 1 \in 1 .. 2 /\ 2 \in 1 .. 2 /\ 1 .. 1 - 1 = {} /\ 2 - 1 = 1
    BY ONLY TRUE
  <2> QED
    BY ONLY <1>0, <1>4, <2>1, Zenon
<1>6. /\ iter[1 .. 1] = IF Magnitude(a) > 0 THEN Magnitude(a) ELSE 0
      /\ iter[1 .. 2] = IF Magnitude(b) > iter[1 .. 1] THEN Magnitude(b) ELSE iter[1 .. 1]
  BY ONLY <1>1, <1>4, <1>5 DEF FoldStep
<1>7. Magnitude(a) \in Nat /\ Magnitude(b) \in Nat
  BY ONLY a \in Int, b \in Int DEF Magnitude
<1> QED
  BY ONLY <1>2, <1>6, <1>7

(* Two samples of a sequence.                                               *)
LEMMA TwoOf ==
  ASSUME NEW q \in Seq(Int), NEW m \in Nat, m + 2 <= Len(q)
  PROVE  SubSeq(q, m + 1, m + 2) = <<q[m + 1], q[m + 2]>>
<1>1. PICK s : s = SubSeq(q, m + 1, m + 2)
  OBVIOUS
<1>2. s = [i \in 1 .. 2 |-> q[m + i]]
  BY <1>1
<1>3. s = [i \in 1 .. 2 |-> s[i]] /\ s[1] = q[m + 1] /\ s[2] = q[m + 2]
  BY ONLY <1>2
<1>4. s = <<q[m + 1], q[m + 2]>>
  <2>1. PICK x, y : x = q[m + 1] /\ y = q[m + 2]
    OBVIOUS
  <2>2. s = [i \in 1 .. 2 |-> s[i]] /\ s[1] = x /\ s[2] = y
    BY ONLY <1>3, <2>1, Zenon
  <2>3. s = <<x, y>>
    BY ONLY <2>2
  <2> QED
    BY ONLY <2>1, <2>3, Zenon
<1> QED
  BY ONLY <1>1, <1>4, Zenon

(* Two channels to one.                                                     *)
LEMMA MonoOfTwo ==
  ASSUME NEW a \in Int, NEW b \in Int
  PROVE  ToMono(<<a, b>>, 2)[1] = Quotient(a + b, 2)
<1> DEFINE q == <<a, b>>
<1>1. Len(q) \div 2 = 1 /\ 1 \in 1 .. 1 /\ (1 - 1) * 2 + 1 = 1 /\ 1 * 2 = 2 /\ ~(2 <= 1)
  OBVIOUS
<1>2. SubSeq(q, 1, 2) = <<a, b>>
  <2>1. q \in Seq(Int) /\ 0 + 2 <= Len(q) /\ q[0 + 1] = a /\ q[0 + 2] = b /\ 0 + 1 = 1 /\ 0 + 2 = 2
    OBVIOUS
  <2>2. SubSeq(q, 0 + 1, 0 + 2) = <<q[0 + 1], q[0 + 2]>>
    BY ONLY <2>1, 0 \in Nat, TwoOf
  <2> QED
    BY ONLY <2>1, <2>2, Zenon
<1>3. ToMono(q, 2) = [i \in 1 .. Len(q) \div 2 |-> Quotient(FoldLeft(+, 0, SubSeq(q, (i - 1) * 2 + 1, i * 2)), 2)]
  BY ONLY <1>1, Zenon DEF ToMono
<1>4. FoldLeft(+, 0, SubSeq(q, 1, 2)) = a + b
  BY <1>2, AddsTwo
<1> HIDE DEF q
<1>5. ToMono(q, 2)[1] = Quotient(FoldLeft(+, 0, SubSeq(q, 1, 2)), 2)
  BY ONLY <1>1, <1>3, Zenon
<1>6. ToMono(q, 2)[1] = Quotient(a + b, 2)
  BY ONLY <1>4, <1>5, Zenon
<1> QED
  BY <1>6 DEF q

(* One channel to two and back.                                             *)
LEMMA StereoUndone ==
  ASSUME NEW a \in Int, NEW b \in Int
  PROVE  ToMono(ToStereo(<<a, b>>), 2) = <<a, b>>
<1>1. PICK q : q = ToStereo(<<a, b>>)
  OBVIOUS
<1>2. q \in Seq(Int) /\ Len(q) = 4 /\ q[1] = a /\ q[2] = a /\ q[3] = b /\ q[4] = b
  <2>1. PICK p : p = <<a, b>>
    OBVIOUS
  <2>2. Len(p) = 2 /\ p[1] = a /\ p[2] = b
    BY ONLY <2>1
  <2>3. q = [i \in 1 .. 4 |-> p[(i + 1) \div 2]]
    BY ONLY <1>1, <2>1, <2>2 DEF ToStereo
  <2>4. \A i \in 1 .. 4 : p[(i + 1) \div 2] \in Int
    <3>1. \A i \in 1 .. 4 : (i + 1) \div 2 = 1 \/ (i + 1) \div 2 = 2
      OBVIOUS
    <3> QED
      BY ONLY <2>2, <3>1, a \in Int, b \in Int
  <2>5. q \in Seq(Int) /\ Len(q) = 4
    BY ONLY <2>3, <2>4
  <2>6. q[1] = p[(1 + 1) \div 2] /\ q[2] = p[(2 + 1) \div 2] /\ q[3] = p[(3 + 1) \div 2] /\ q[4] = p[(4 + 1) \div 2]
    BY ONLY <2>3
  <2> QED
    BY ONLY <2>2, <2>5, <2>6
<1>3. Len(q) \div 2 = 2 /\ ~(2 <= 1) /\ 1 \in 1 .. 2 /\ 2 \in 1 .. 2
      /\ (1 - 1) * 2 + 1 = 1 /\ 1 * 2 = 2 /\ (2 - 1) * 2 + 1 = 3 /\ 2 * 2 = 4
  BY <1>2
<1>4. SubSeq(q, 1, 2) = <<a, a>> /\ SubSeq(q, 3, 4) = <<b, b>>
  <2>1. 0 + 2 <= Len(q) /\ 2 + 2 <= Len(q)
    BY ONLY <1>2
  <2>2. /\ SubSeq(q, 0 + 1, 0 + 2) = <<q[0 + 1], q[0 + 2]>>
        /\ SubSeq(q, 2 + 1, 2 + 2) = <<q[2 + 1], q[2 + 2]>>
    BY ONLY <1>2, <2>1, TwoOf
  <2>3. 0 + 1 = 1 /\ 0 + 2 = 2 /\ 2 + 1 = 3 /\ 2 + 2 = 4
    OBVIOUS
  <2> QED
    BY ONLY <1>2, <2>2, <2>3, Zenon
<1>5. FoldLeft(+, 0, SubSeq(q, 1, 2)) = a + a /\ FoldLeft(+, 0, SubSeq(q, 3, 4)) = b + b
  BY <1>4, AddsTwo
<1>6. Quotient(a + a, 2) = a /\ Quotient(b + b, 2) = b
  BY ONLY a \in Int, b \in Int DEF Quotient
<1>7. ToMono(q, 2) = [i \in 1 .. Len(q) \div 2 |-> Quotient(FoldLeft(+, 0, SubSeq(q, (i - 1) * 2 + 1, i * 2)), 2)]
  BY ONLY <1>3, Zenon DEF ToMono
<1>8. /\ ToMono(q, 2)[1] = Quotient(FoldLeft(+, 0, SubSeq(q, 1, 2)), 2)
      /\ ToMono(q, 2)[2] = Quotient(FoldLeft(+, 0, SubSeq(q, 3, 4)), 2)
  BY ONLY <1>3, <1>7, Zenon
<1>9. ToMono(q, 2)[1] = a /\ ToMono(q, 2)[2] = b
  BY ONLY <1>5, <1>6, <1>8, Zenon
<1>10. ToMono(q, 2) = [i \in 1 .. 2 |-> ToMono(q, 2)[i]]
  BY ONLY <1>3, <1>7, Zenon
<1>11. PICK m : m = ToMono(q, 2)
  OBVIOUS
<1>12. m = [i \in 1 .. 2 |-> m[i]] /\ m[1] = a /\ m[2] = b
  BY ONLY <1>9, <1>10, <1>11, Zenon
<1>13. m = <<a, b>>
  BY ONLY <1>12
<1> QED
  BY ONLY <1>1, <1>11, <1>13, Zenon

(* A sample scaled down from the peak to what is allowed.                   *)
LEMMA ScaledDown ==
  ASSUME NEW v \in Int, NEW x \in Nat, NEW highest \in Nat, highest > 0, Magnitude(v) <= highest
  PROVE  Magnitude(Quotient(v * x, highest)) <= x
<1>1. PICK u \in Nat : u = Magnitude(v) /\ u <= highest
  <2>1. Magnitude(v) \in Nat
    BY DEF Magnitude
  <2> QED
    BY <2>1
<1>2. PICK y \in Nat : y = u * x /\ y \div highest \in Nat /\ y \div highest <= x
  <2>1. u * x \in Nat /\ u * x <= highest * x
    BY <1>1, TimesGrows
  <2>2. PICK y \in Nat : y = u * x
    BY <2>1
  <2>3. y \div highest \in Nat /\ highest * (y \div highest) <= y
    BY QuotientBounds
  <2>4. ASSUME y \div highest > x PROVE FALSE
    <3>1. PICK d \in Nat : d = y \div highest /\ d > x
      BY <2>3, <2>4
    <3>2. highest * d <= highest * x
      BY ONLY <2>1, <2>2, <2>3, <3>1
    <3>3. highest * d > highest * x
      BY ONLY <3>1, highest \in Nat, highest > 0, x \in Nat, d \in Nat, Z3
    <3>4. highest * d \in Nat /\ highest * x \in Nat
      BY ONLY highest \in Nat, x \in Nat, d \in Nat, Z3
    <3> QED
      BY ONLY <3>2, <3>3, <3>4
  <2> QED
    BY <2>2, <2>3, <2>4
<1>3. v * x = y \/ v * x = -y
  <2>1. CASE v < 0
    <3>1. v = -u
      BY <1>1, <2>1 DEF Magnitude
    <3>2. (-u) * x = -(u * x)
      BY ONLY u \in Nat, x \in Nat, Z3
    <3> QED
      BY <1>2, <3>1, <3>2
  <2>2. CASE ~(v < 0)
    <3>1. v = u
      BY <1>1, <2>2 DEF Magnitude
    <3> QED
      BY <1>2, <3>1
  <2> QED
    BY <2>1, <2>2
<1>4. PICK d \in Nat : d = y \div highest /\ d <= x
  BY <1>2
<1>5. Quotient(y, highest) = d
  BY ONLY <1>4, y \in Nat DEF Quotient
<1>6. Quotient(-y, highest) = IF y > 0 THEN -d ELSE d
  <2>1. CASE y > 0
    <3>1. -y < 0 /\ -(-y) = y
      BY ONLY <2>1, y \in Nat
    <3> QED
      BY ONLY <1>4, <2>1, <3>1, Zenon DEF Quotient
  <2>2. CASE ~(y > 0)
    <3>1. PICK z \in Int : z = -y
      BY ONLY y \in Nat
    <3>2. z = y /\ ~(z < 0) /\ ~(y > 0)
      BY ONLY <2>2, <3>1, y \in Nat, z \in Int
    <3>3. Quotient(z, highest) = d
      BY ONLY <1>4, <3>2, Zenon DEF Quotient
    <3> QED
      BY ONLY <3>1, <3>2, <3>3, Zenon
  <2> QED
    BY <2>1, <2>2
<1>7. Magnitude(d) <= x /\ Magnitude(-d) <= x
  BY ONLY <1>4, d \in Nat, x \in Nat DEF Magnitude
<1> QED
  BY ONLY <1>3, <1>5, <1>6, <1>7, Zenon

(* Two samples normalized.                                                  *)
LEMMA NormalizedBelow ==
  ASSUME NEW a \in Int, NEW b \in Int, NEW x \in Nat, NEW i \in 1 .. 2
  PROVE  Magnitude(Normalize(<<a, b>>, x)[i]) <= x
<1>1. PICK q, highest : q = <<a, b>>
        /\ highest = FoldLeft(LAMBDA p, s : IF Magnitude(s) > p THEN Magnitude(s) ELSE p, 0, q)
  OBVIOUS
<1>2. highest \in Nat /\ Magnitude(a) <= highest /\ Magnitude(b) <= highest
  BY <1>1, PeakOfTwo
<1>a. q = <<a, b>>
  BY ONLY <1>1, Zenon
<1>3. i \in DOMAIN q /\ q[i] \in Int /\ Magnitude(q[i]) <= highest /\ Magnitude(q[i]) \in Nat
  <2>1. i = 1 \/ i = 2
    OBVIOUS
  <2>2. Magnitude(a) \in Nat /\ Magnitude(b) \in Nat
    BY DEF Magnitude
  <2> QED
    BY ONLY <1>a, <1>2, <2>1, <2>2, a \in Int, b \in Int
<1>4. CASE highest <= x
  <2>1. Normalize(q, x) = q
    BY ONLY <1>1, <1>4, Zenon DEF Normalize
  <2>2. Magnitude(q[i]) <= x
    BY ONLY <1>2, <1>3, <1>4, x \in Nat
  <2> QED
    BY ONLY <1>1, <2>1, <2>2, Zenon
<1>5. CASE ~(highest <= x)
  <2>1. Normalize(q, x) = [j \in DOMAIN q |-> Quotient(q[j] * x, highest)]
    BY ONLY <1>1, <1>5, Zenon DEF Normalize
  <2>2. Normalize(q, x)[i] = Quotient(q[i] * x, highest)
    BY ONLY <1>3, <2>1, Zenon
  <2>3. PICK v \in Int : v = q[i] /\ Magnitude(v) <= highest
    BY ONLY <1>3, Zenon
  <2>4. highest > 0
    BY ONLY <1>2, <1>5, x \in Nat
  <2>5. Magnitude(Quotient(v * x, highest)) <= x
    BY ONLY <1>2, <2>3, <2>4, x \in Nat, ScaledDown
  <2> QED
    BY ONLY <1>1, <2>2, <2>3, <2>5, Zenon
<1> QED
  BY <1>4, <1>5

(* The channels and the peak.                                               *)
LEMMA MonoAndPeakHold == MonoAndPeak
<1>1. ASSUME NEW a \in Pcm, NEW b \in Pcm PROVE
       LET m == ToMono(<<a, b>>, 2)[1]
       IN  /\ m >= IF a < b THEN a ELSE b
           /\ m <= IF a < b THEN b ELSE a
           /\ ToMono(ToStereo(<<a, b>>), 2) = <<a, b>>
  <2>1. a \in Int /\ b \in Int
    BY ResamplerAssumption
  <2>2. ToMono(<<a, b>>, 2)[1] = Quotient(a + b, 2) /\ ToMono(ToStereo(<<a, b>>), 2) = <<a, b>>
    BY ONLY <2>1, MonoOfTwo, StereoUndone
  <2>3. /\ Quotient(a + b, 2) >= IF a < b THEN a ELSE b
        /\ Quotient(a + b, 2) <= IF a < b THEN b ELSE a
    BY ONLY <2>1 DEF Quotient
  <2> QED
    BY ONLY <2>2, <2>3, Zenon
<1>2. ASSUME NEW a \in Pcm, NEW b \in Pcm, NEW x \in {p \in Pcm : p >= 0}, NEW i \in 1 .. 2
      PROVE  Magnitude(Normalize(<<a, b>>, x)[i]) <= x
  <2>1. a \in Int /\ b \in Int /\ x \in Nat
    BY ResamplerAssumption
  <2> QED
    BY ONLY <2>1, i \in 1 .. 2, NormalizedBelow
<1> QED
  BY ONLY <1>1, <1>2, Zenon DEF MonoAndPeak

(* The invariant of the conversions.                                        *)
LEMMA ResamplerInitInv == ResamplerInit => ResamplerInv
<1> SUFFICES ASSUME ResamplerInit PROVE ResamplerInv
  OBVIOUS
<1>1. converted.length = 0 /\ converted.windows = << >>
  BY DEF ResamplerInit, NothingConverted
<1>2. NothingFed
  BY <1>1 DEF ResamplerInit, NothingFed
<1>3. WindowsCentred
  <2>1. DOMAIN converted.windows = {}
    BY <1>1
  <2> QED
    BY ONLY <2>1, Zenon DEF WindowsCentred
<1> QED
  BY <1>2, <1>3, StreamEmpty, FramesKept, MonoAndPeakHold DEF ResamplerInv, StreamInv

(* A step of the conversions.                                               *)
LEMMA ResamplerStep == ResamplerInv /\ [ResamplerNext]_resamplerVars => ResamplerInv'
<1> SUFFICES ASSUME ResamplerInv, [ResamplerNext]_resamplerVars PROVE ResamplerInv'
  OBVIOUS
<1>1. StreamInv /\ WindowsCentred
  BY DEF ResamplerInv, StreamInv
<1>2. FramesKeepLength' /\ MonoAndPeak'
  BY FramesKept, MonoAndPeakHold, PTL
<1>3. ASSUME StreamInv', WindowsCentred' PROVE ResamplerInv'
  BY <1>2, <1>3 DEF ResamplerInv, StreamInv
<1>4. ASSUME UNCHANGED converted PROVE WindowsCentred'
  BY ONLY <1>1, <1>4, Zenon DEF WindowsCentred
<1>5. CASE \E fails \in BOOLEAN : Process48k(fails)
  <2>1. PICK fails \in BOOLEAN : Process48k(fails)
    BY <1>5
  <2>2. StreamInv'
    BY <1>1, <2>1, Process48kKeeps
  <2> QED
    BY <1>3, <1>4, <2>1, <2>2 DEF Process48k
<1>6. CASE ResetResampler
  BY <1>1, <1>3, <1>4, <1>6, ResetResamplerKeeps DEF ResetResampler
<1>7. CASE \E n \in Buffers, src, dst \in 1 .. 3 : Convert(n, src, dst)
  <2>1. PICK n \in Buffers, src \in 1 .. 3, dst \in 1 .. 3 : Convert(n, src, dst)
    BY <1>7
  <2>2. WindowsCentred' /\ converted'.length \in Buffers
    BY <2>1, ConvertCentres
  <2>3. UNCHANGED stream48Vars
    BY <2>1 DEF Convert
  <2> QED
    BY <1>1, <1>3, <2>2, <2>3, StreamElse
<1>8. CASE UNCHANGED resamplerVars
  <2>1. UNCHANGED stream48Vars /\ UNCHANGED converted
    BY <1>8 DEF resamplerVars, stream48Vars
  <2>2. converted'.length \in Buffers \cup {0}
    BY <1>1, <2>1 DEF StreamInv, ResamplerTypeOK
  <2> QED
    BY <1>1, <1>3, <1>4, <2>1, <2>2, StreamElse
<1> QED
  BY <1>5, <1>6, <1>7, <1>8 DEF ResamplerNext

(* Frame by frame is as good as the whole stream, and every conversion of a *)
(* buffer stays on it, for any filters, frames and buffers.                 *)
THEOREM ResamplerInvariant == ResamplerSpec => []ResamplerInv
BY ResamplerInitInv, ResamplerStep, PTL DEF ResamplerSpec

-----------------------------------------------------------------------------
(* The parts together *)

(* Where the parts stand side by side, a step is one of its subject's and   *)
(* leaves every other part as it was.                                       *)
LEMMA PartsStepIsOne ==
  [PartsNext]_partsVars =>
    /\ [VadNext]_allVadVars /\ [PipelineNext]_pipelineVars /\ [AgentNext]_agentVars /\ [LevelNext]_levelVars
    /\ [DiarNext]_diarVars /\ [ResamplerNext]_resamplerVars /\ [EvalNext]_evalVars /\ [ScorerNext]_scorerVars
    /\ [MeterNext]_meterVars /\ [HttpNext]_httpVars
BY Zenon DEF PartsNext, partsVars, soundVars, computedVars, servedVars, VadOnly, PipelineOnly, AgentOnly, LevelOnly,
   DiarOnly, ResamplerOnly, EvalOnly, ScorerOnly, MeterOnly, HttpOnly

(* So what the run of the parts explores is each part's own specification:  *)
(* nothing proved of a part is lost by exploring them in one run.           *)
THEOREM PartsAreTheirSpecs ==
  PartsSpec => /\ VadSpec /\ PipelineSpec /\ AgentSpec /\ LevelSpec /\ DiarSpec
               /\ ResamplerSpec /\ EvalSpec /\ ScorerSpec /\ MeterSpec /\ HttpSpec
<1>1. PartsInit => /\ VadInit /\ PipelineInit /\ AgentInit /\ LevelInit /\ NewDiarizer /\ ResamplerInit
                   /\ EvalInit /\ ScorerInit /\ NewSessionMeter /\ HttpInit
  BY Zenon DEF PartsInit
<1> QED
  BY <1>1, PartsStepIsOne, PTL DEF PartsSpec, VadSpec, PipelineSpec, AgentSpec, LevelSpec, DiarSpec,
     ResamplerSpec, EvalSpec, ScorerSpec, MeterSpec, HttpSpec

(* Where the conversions move, the frames fed one by one are as the whole   *)
(* stream and the windows of a buffer lie on it.                            *)
THEOREM ResamplingInvariant == PartsSpec => []ResamplingInv
<1>1. ResamplerInv => ResamplingInv
  BY DEF ResamplingInv
<1> QED
  BY <1>1, PartsAreTheirSpecs, ResamplerInvariant, PTL

(* A batch of files and a list of transcripts, whichever part moves: both   *)
(* keep what they promise.                                                  *)
THEOREM EvaluationInvariant == PartsSpec => []EvaluationInv
<1>1. EvalInv /\ ScorerInv => EvaluationInv
  BY DEF EvaluationInv
<1> QED
  BY <1>1, PartsAreTheirSpecs, EvalInvariant, ScorerInvariant, PTL

(* Everything the run of the parts checks, for every value of the constants.*)
THEOREM PartsInvariant ==
  PartsSpec =>
    /\ [](VadInv /\ PipelineInv /\ AgentInv /\ LevelInv /\ DiarInv)
    /\ [](ResamplingInv /\ EvaluationInv /\ MeterInv /\ HttpInv)
    /\ BurstsDoNotRaiseFloor
BY PartsAreTheirSpecs, VadInvariant, PipelineInvariant, AgentInvariant, LevelInvariant, DiarInvariant,
   ResamplingInvariant, EvaluationInvariant, MeterInvariant, HttpInvariant, BurstsLeaveFloor, PTL
=============================================================================
