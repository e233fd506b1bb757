-------------------------- MODULE MediaPathProofs --------------------------
(***************************************************************************)
(* Proofs about the receive path.  First the jitter buffer on its own, for *)
(* every sequence space, drift, depth and window its assumptions allow: its*)
(* types, the hard cap, no duplicates, and that it is never wedged.  Then  *)
(* MediaPath: what handlePacket keeps true of the buffer, the concealment  *)
(* history and the frame in hand; that playout only moves forward; that no *)
(* audio crosses a change of SSRC.                                         *)
(***************************************************************************)
EXTENDS MediaPath, TLAPS

-----------------------------------------------------------------------------
(* Arithmetic of the wrapping sequence space.                              *)

LEMMA DistRange ==
  ASSUME NEW a \in SeqNums, NEW b \in SeqNums
  PROVE  /\ SeqDist(a, b) \in 0 .. SeqSpace - 1
         /\ SeqDist(a, b) = 0 <=> a = b
         /\ a # b => SeqDist(a, b) + SeqDist(b, a) = SeqSpace
BY HalfAssumption DEF SeqDist, SeqNums, SeqSpace

LEMMA IncRange ==
  ASSUME NEW a \in SeqNums
  PROVE  SeqInc(a) \in SeqNums
BY HalfAssumption DEF SeqInc, SeqNums, SeqSpace

(* One pop brings every entry but the head's own number one step closer.   *)
LEMMA DistAfterInc ==
  ASSUME NEW a \in SeqNums, NEW b \in SeqNums, a # b
  PROVE  SeqDist(SeqInc(a), b) = SeqDist(a, b) - 1
BY HalfAssumption DEF SeqDist, SeqInc, SeqNums, SeqSpace

(* Seen from a point less than Half behind both, stream order is the order *)
(* of the distances.                                                       *)
LEMMA OrderIsDistance ==
  ASSUME NEW a \in SeqNums, NEW x \in SeqNums, NEW y \in SeqNums,
         SeqDist(a, x) < Half, SeqDist(a, y) < Half
  PROVE  /\ seqLess(x, y) <=> SeqDist(a, x) < SeqDist(a, y)
         /\ SeqDist(a, x) = SeqDist(a, y) => x = y
BY HalfAssumption DEF seqLess, SeqDist, SeqNums, SeqSpace

(* Packets of one window are totally ordered by seqLess ...                *)
LEMMA NearTotal ==
  ASSUME NEW x \in SeqNums, NEW y \in SeqNums, Near(x, y), x # y
  PROVE  /\ seqLess(x, y) \/ seqLess(y, x)
         /\ seqLess(x, y) => SeqDist(x, y) <= Window
BY HalfAssumption, WindowAssumption
   DEF Near, seqLess, SeqDist, SeqNums, SeqSpace

(* ... transitively, although seqLess is not transitive in general.        *)
LEMMA NearTransitive ==
  ASSUME NEW x \in SeqNums, NEW y \in SeqNums, NEW z \in SeqNums,
         Near(x, y), Near(y, z), Near(x, z), seqLess(x, y), seqLess(y, z)
  PROVE  /\ seqLess(x, z)
         /\ SeqDist(x, y) < SeqDist(x, z)
BY HalfAssumption, WindowAssumption
   DEF Near, seqLess, SeqDist, SeqNums, SeqSpace

-----------------------------------------------------------------------------
(* What an insertion leaves in the buffer.                                 *)

LEMMA InsertShape ==
  ASSUME NEW b \in Seq(Entries), NEW e \in Entries, NEW pos \in 1 .. Len(b) + 1
  PROVE  /\ InsertCapped(b, pos, e) \in Seq(Entries)
         /\ Len(InsertCapped(b, pos, e)) \in 1 .. MaxDepth
         /\ Len(InsertCapped(b, pos, e)) <= Len(b) + 1
         /\ \A i \in 1 .. Len(InsertCapped(b, pos, e)) :
              InsertCapped(b, pos, e)[i] =
                IF i < pos THEN b[i] ELSE IF i = pos THEN e ELSE b[i - 1]
<1> DEFINE n == IF Len(b) + 1 > MaxDepth THEN MaxDepth ELSE Len(b) + 1
           f == [i \in 1 .. n |->
                   IF i < pos THEN b[i] ELSE IF i = pos THEN e ELSE b[i - 1]]
<1>1. Len(b) \in Nat /\ n \in Nat /\ n >= 1 /\ n <= Len(b) + 1 /\ n <= MaxDepth
  BY DepthAssumption
<1>2. ASSUME NEW i \in 1 .. n
      PROVE  (IF i < pos THEN b[i] ELSE IF i = pos THEN e ELSE b[i - 1]) \in Entries
  <2>1. CASE i < pos
    <3>1. i \in 1 .. Len(b)
      BY <1>1, <2>1
    <3>2. QED
      BY <3>1, <2>1
  <2>2. CASE i = pos
    BY <2>2
  <2>3. CASE i > pos
    <3>1. i - 1 \in 1 .. Len(b)
      BY <1>1, <2>3
    <3>2. QED
      BY <3>1, <2>3
  <2>4. QED
    BY <1>1, <2>1, <2>2, <2>3
<1>3. f \in Seq(Entries)
  BY <1>1, <1>2
<1>4. Len(f) = n
  BY <1>1, <1>3
<1>5. \A i \in 1 .. n :
        f[i] = IF i < pos THEN b[i] ELSE IF i = pos THEN e ELSE b[i - 1]
  OBVIOUS
<1>6. InsertCapped(b, pos, e) = f
  BY DEF InsertCapped
<1>7. QED
  BY <1>1, <1>3, <1>4, <1>5, <1>6

-----------------------------------------------------------------------------
(* The buffer an accepted packet is inserted into: the old one, or nothing *)
(* after a resynchronisation.                                              *)
Kept(s) == IF Drifted(s) THEN << >> ELSE buf

LEMMA KeptIsSeq ==
  ASSUME TypeOK, NEW s \in SeqNums
  PROVE  /\ Kept(s) \in Seq(Entries)
         /\ Len(Kept(s)) \in Nat
         /\ \A i \in 1 .. Len(Kept(s)) :
              /\ Kept(s)[i] \in Entries
              /\ Kept(s)[i].seq \in SeqNums
<1>1. buf \in Seq(Entries)
  BY DEF TypeOK
<1>2. Kept(s) \in Seq(Entries)
  BY <1>1 DEF Kept
<1>3. \A i \in 1 .. Len(Kept(s)) : Kept(s)[i] \in Entries
  BY <1>2
<1>4. \A e \in Entries : e.seq \in SeqNums
  BY DEF Entries
<1>5. QED
  BY <1>2, <1>3, <1>4

(* The outcome of PushAccepted, entry by entry.                            *)
LEMMA AcceptedShape ==
  ASSUME TypeOK, NEW s \in SeqNums, NEW p \in Payloads, PushAccepted(s, p)
  PROVE  /\ buf' \in Seq(Entries)
         /\ Len(buf') \in 1 .. MaxDepth
         /\ Len(buf') <= Len(Kept(s)) + 1
         /\ \E pos \in 1 .. Len(Kept(s)) + 1 :
           /\ IsInsertPos(Kept(s), s, pos)
           /\ \A i \in 1 .. Len(buf') :
                buf'[i] = IF i < pos THEN Kept(s)[i]
                          ELSE IF i = pos THEN [seq |-> s, payload |-> p]
                          ELSE Kept(s)[i - 1]
<1> DEFINE e == [seq |-> s, payload |-> p]
<1>1. e \in Entries
  BY DEF Entries
<1>2. PICK pos \in 1 .. Len(Kept(s)) + 1 :
        IsInsertPos(Kept(s), s, pos) /\ buf' = InsertCapped(Kept(s), pos, e)
  BY DEF PushAccepted, Kept
<1>3. Kept(s) \in Seq(Entries)
  BY KeptIsSeq
<1> HIDE DEF e
<1>4. /\ InsertCapped(Kept(s), pos, e) \in Seq(Entries)
      /\ Len(InsertCapped(Kept(s), pos, e)) \in 1 .. MaxDepth
      /\ Len(InsertCapped(Kept(s), pos, e)) <= Len(Kept(s)) + 1
      /\ \A i \in 1 .. Len(InsertCapped(Kept(s), pos, e)) :
           InsertCapped(Kept(s), pos, e)[i] =
             IF i < pos THEN Kept(s)[i] ELSE IF i = pos THEN e ELSE Kept(s)[i - 1]
  BY <1>1, <1>3, InsertShape
<1>5. QED
  BY <1>2, <1>4 DEF e

-----------------------------------------------------------------------------
(* Type correctness.                                                       *)

LEMMA TypeInit == Init => TypeOK
<1>1. 0 \in SeqNums /\ InitDepth \in Nat /\ 0 \in 0 .. AdaptPeriod - 1
  BY HalfAssumption, DepthAssumption DEF SeqNums, SeqSpace
<1>2. << >> \in Seq(Entries)
  OBVIOUS
<1>3. QED
  BY <1>1, <1>2, Zenon DEF Init, TypeOK

LEMMA AdaptType ==
  ASSUME TypeOK, adaptDepth
  PROVE  depth' \in Nat /\ adaptFrames' \in 0 .. AdaptPeriod - 1
BY DepthAssumption DEF TypeOK, adaptDepth

LEMMA PushType ==
  ASSUME TypeOK, NEW s \in SeqNums, NEW p \in Payloads, Push(s, p)
  PROVE  TypeOK'
<1>1. CASE PushRejected(s)
  BY <1>1 DEF PushRejected, jitterVars, TypeOK
<1>2. CASE PushAccepted(s, p)
  <2>1. buf' \in Seq(Entries) /\ Len(buf') >= 1
    <3>1. buf' \in Seq(Entries) /\ Len(buf') \in 1 .. MaxDepth
      BY <1>2, AcceptedShape, Zenon
    <3>2. QED
      BY <3>1, DepthAssumption
  <2>2. buf'[1].seq \in SeqNums
    <3>1. buf'[1] \in Entries
      BY <2>1
    <3>2. QED
      BY <3>1 DEF Entries
  <2>3. primed' \in BOOLEAN /\ nextSeq' \in SeqNums
    BY <1>2, <2>2 DEF PushAccepted, Prime, TypeOK, Drifted
  <2>4. depth' \in Nat /\ adaptFrames' \in 0 .. AdaptPeriod - 1
    BY <1>2, AdaptType DEF PushAccepted
  <2>5. QED
    BY <2>1, <2>3, <2>4 DEF TypeOK
<1>3. QED
  BY <1>1, <1>2 DEF Push

LEMMA PopType ==
  ASSUME TypeOK, Pop
  PROVE  TypeOK'
<1>1. CASE PopNothing
  BY <1>1 DEF PopNothing, jitterVars, TypeOK
<1>2. CASE PopFrame
  <2>1. Tail(buf) \in Seq(Entries)
    BY <1>2 DEF PopFrame, TypeOK
  <2>2. QED
    BY <1>2, <2>1, IncRange DEF PopFrame, TypeOK
<1>3. CASE PopLoss
  BY <1>3, IncRange DEF PopLoss, TypeOK
<1>4. QED
  BY <1>1, <1>2, <1>3 DEF Pop

LEMMA ResetType ==
  ASSUME TypeOK, Reset
  PROVE  TypeOK'
<1>1. 0 \in SeqNums /\ InitDepth \in Nat /\ 0 \in 0 .. AdaptPeriod - 1
  BY HalfAssumption, DepthAssumption DEF SeqNums, SeqSpace
<1>2. << >> \in Seq(Entries)
  OBVIOUS
<1>3. QED
  BY <1>1, <1>2, Zenon DEF Reset, TypeOK

(* The state keeps its types through every push, pop and reset.            *)
THEOREM TypeCorrect == Spec => []TypeOK
<1>1. TypeOK /\ [Next]_jitterVars => TypeOK'
  <2> SUFFICES ASSUME TypeOK, [Next]_jitterVars PROVE TypeOK'
    OBVIOUS
  <2>1. CASE \E s \in SeqNums, p \in Payloads : Plausible(s) /\ Push(s, p)
    BY <2>1, PushType
  <2>2. CASE Pop
    BY <2>2, PopType
  <2>3. CASE Reset
    BY <2>3, ResetType
  <2>4. CASE UNCHANGED jitterVars
    BY <2>4 DEF jitterVars, TypeOK
  <2>5. QED
    BY <2>1, <2>2, <2>3, <2>4 DEF Next
<1>2. QED
  BY <1>1, TypeInit, PTL DEF Spec

-----------------------------------------------------------------------------
(* The hard cap and the order of the entries: an inductive invariant.      *)
(* NoWedge alone is not inductive: priming makes the entries gathered so   *)
(* far into entries of a primed buffer, so Gathering goes with it.         *)

(* The packet pushed lies ahead of a primed buffer's nextSeq by MaxDrift   *)
(* at most, once stale and drifted packets are out.                        *)
LEMMA AcceptedAhead ==
  ASSUME NEW s \in SeqNums, nextSeq \in SeqNums, primed, Plausible(s),
         ~Stale(s), ~Drifted(s)
  PROVE  SeqDist(nextSeq, s) <= MaxDrift
<1>1. SeqDist(nextSeq, s) # Half
  BY DEF Plausible
<1>2. /\ ~(SeqDist(nextSeq, s) > MaxDrift /\ SeqDist(nextSeq, s) < Half)
      /\ ~(SeqDist(s, nextSeq) > 0 /\ SeqDist(s, nextSeq) < Half)
  BY DEF Stale, Drifted
<1>3. QED
  BY <1>1, <1>2, HalfAssumption, DriftAssumption DEF SeqDist, SeqNums, SeqSpace

(* Vocabulary of the lemmas below: the first n entries of b are a run in   *)
(* order ahead of a, or a run gathered before priming; c's first m entries *)
(* are b's with sequence number s inserted where the scan stopped.         *)
SeqRun(b, n) == n \in Nat /\ \A i \in 1 .. n : b[i].seq \in SeqNums

OrderedRun(a, b, n, W) ==
  /\ \A i \in 1 .. n : SeqDist(a, b[i].seq) <= W
  /\ \A i, j \in 1 .. n :
       i < j => SeqDist(a, b[i].seq) < SeqDist(a, b[j].seq)

GatheredRun(b, n) ==
  \A i, j \in 1 .. n :
    /\ Near(b[i].seq, b[j].seq)
    /\ i < j => seqLess(b[i].seq, b[j].seq)

ScanStops(b, n, s, pos) ==
  /\ pos \in 1 .. n + 1
  /\ \A i \in 1 .. n : b[i].seq # s
  /\ \A i \in 1 .. pos - 1 : ~seqLess(s, b[i].seq)
  /\ pos <= n => seqLess(s, b[pos].seq)

Inserted(b, n, c, m, s, pos) ==
  /\ m \in Nat
  /\ m <= n + 1
  /\ \A i \in 1 .. m :
       c[i].seq = IF i < pos THEN b[i].seq ELSE IF i = pos THEN s ELSE b[i - 1].seq

(* Inserting at the scan's position keeps strictly growing distances.      *)
LEMMA InsertKeepsOrder ==
  ASSUME NEW b, NEW n, NEW c, NEW m, NEW pos,
         NEW a \in SeqNums, NEW s \in SeqNums, NEW W \in Nat, W < Half,
         SeqRun(b, n), OrderedRun(a, b, n, W), SeqDist(a, s) <= W,
         ScanStops(b, n, s, pos), Inserted(b, n, c, m, s, pos)
  PROVE  OrderedRun(a, c, m, W)
<1> USE DEF SeqRun, OrderedRun, ScanStops, Inserted
<1>1. \A i \in 1 .. n : i < pos => SeqDist(a, b[i].seq) < SeqDist(a, s)
  <2> SUFFICES ASSUME NEW i \in 1 .. n, i < pos
               PROVE  SeqDist(a, b[i].seq) < SeqDist(a, s)
    OBVIOUS
  <2>1. ~seqLess(s, b[i].seq) /\ b[i].seq # s /\ b[i].seq \in SeqNums
    OBVIOUS
  <2>2. SeqDist(a, b[i].seq) < Half /\ SeqDist(a, s) < Half
    BY <2>1, DistRange, HalfAssumption DEF SeqSpace
  <2>3. QED
    BY <2>1, <2>2, OrderIsDistance, DistRange, HalfAssumption DEF SeqSpace
<1>2. \A i \in 1 .. n : i >= pos => SeqDist(a, s) < SeqDist(a, b[i].seq)
  <2> SUFFICES ASSUME NEW i \in 1 .. n, i >= pos
               PROVE  SeqDist(a, s) < SeqDist(a, b[i].seq)
    OBVIOUS
  <2>1. pos \in 1 .. n /\ seqLess(s, b[pos].seq) /\ b[pos].seq \in SeqNums
    OBVIOUS
  <2>2. SeqDist(a, b[pos].seq) < Half /\ SeqDist(a, s) < Half
    BY <2>1, DistRange, HalfAssumption DEF SeqSpace
  <2>3. SeqDist(a, s) < SeqDist(a, b[pos].seq)
    BY <2>1, <2>2, OrderIsDistance
  <2>4. CASE i = pos
    BY <2>3, <2>4
  <2>5. CASE i > pos
    <3>1. SeqDist(a, b[pos].seq) < SeqDist(a, b[i].seq)
      BY <2>1, <2>5
    <3>2. b[i].seq \in SeqNums
      OBVIOUS
    <3>3. QED
      BY <2>1, <2>3, <3>1, <3>2, DistRange, HalfAssumption DEF SeqSpace
  <2>6. QED
    BY <2>4, <2>5
<1>3. \A i \in 1 .. m :
        /\ i < pos => i \in 1 .. n /\ c[i].seq = b[i].seq
        /\ i = pos => c[i].seq = s
        /\ i > pos => i - 1 \in 1 .. n /\ c[i].seq = b[i - 1].seq
  OBVIOUS
<1>4. ASSUME NEW i \in 1 .. m PROVE SeqDist(a, c[i].seq) <= W
  BY <1>3
<1>5. ASSUME NEW i \in 1 .. m, NEW j \in 1 .. m, i < j
      PROVE  SeqDist(a, c[i].seq) < SeqDist(a, c[j].seq)
  <2>1. CASE j < pos
    BY <1>3, <1>5, <2>1
  <2>2. CASE j = pos
    BY <1>1, <1>3, <1>5, <2>2
  <2>3. CASE j > pos /\ i = pos
    BY <1>2, <1>3, <1>5, <2>3
  <2>4. CASE j > pos /\ i > pos
    BY <1>3, <1>5, <2>4
  <2>5. CASE j > pos /\ i < pos
    <3>1. i \in 1 .. n /\ j - 1 \in 1 .. n /\ i < j - 1
      BY <1>3, <1>5, <2>5
    <3>2. QED
      BY <1>3, <1>5, <2>5, <3>1
  <2>6. QED
    BY <2>1, <2>2, <2>3, <2>4, <2>5
<1>6. QED
  BY <1>4, <1>5

LEMMA NearSymmetric ==
  ASSUME NEW x \in SeqNums, NEW y \in SeqNums
  PROVE  /\ Near(x, y) => Near(y, x)
         /\ Near(x, x)
BY HalfAssumption, WindowAssumption DEF Near, SeqDist, SeqNums, SeqSpace

(* The same for packets gathered before priming, where there is no nextSeq *)
(* to measure from.                                                        *)
LEMMA InsertKeepsGathering ==
  ASSUME NEW b, NEW n, NEW c, NEW m, NEW pos, NEW s \in SeqNums,
         SeqRun(b, n), GatheredRun(b, n),
         \A i \in 1 .. n : Near(b[i].seq, s),
         ScanStops(b, n, s, pos), Inserted(b, n, c, m, s, pos)
  PROVE  GatheredRun(c, m)
<1> USE DEF SeqRun, GatheredRun, ScanStops, Inserted
<1>1. \A i \in 1 .. n : i < pos => seqLess(b[i].seq, s)
  <2> SUFFICES ASSUME NEW i \in 1 .. n, i < pos PROVE seqLess(b[i].seq, s)
    OBVIOUS
  <2>1. /\ b[i].seq \in SeqNums /\ b[i].seq # s /\ Near(b[i].seq, s)
        /\ ~seqLess(s, b[i].seq)
    OBVIOUS
  <2>2. QED
    BY <2>1, NearTotal
<1>2. \A i \in 1 .. n : i >= pos => seqLess(s, b[i].seq)
  <2> SUFFICES ASSUME NEW i \in 1 .. n, i >= pos PROVE seqLess(s, b[i].seq)
    OBVIOUS
  <2>1. pos \in 1 .. n /\ seqLess(s, b[pos].seq) /\ b[pos].seq \in SeqNums
    OBVIOUS
  <2>2. CASE i = pos
    BY <2>1, <2>2
  <2>3. CASE i > pos
    <3>1. /\ b[i].seq \in SeqNums
          /\ seqLess(b[pos].seq, b[i].seq)
          /\ Near(b[pos].seq, b[i].seq)
      BY <2>1, <2>3
    <3>2. Near(s, b[pos].seq) /\ Near(s, b[i].seq)
      BY <2>1, <3>1, NearSymmetric
    <3>3. QED
      BY <2>1, <3>1, <3>2, NearTransitive
  <2>4. QED
    BY <2>2, <2>3
<1>3. \A i \in 1 .. m :
        /\ i < pos => i \in 1 .. n /\ c[i].seq = b[i].seq
        /\ i = pos => c[i].seq = s
        /\ i > pos => i - 1 \in 1 .. n /\ c[i].seq = b[i - 1].seq
  OBVIOUS
<1>4. ASSUME NEW i \in 1 .. m, NEW j \in 1 .. m
      PROVE  Near(c[i].seq, c[j].seq)
  <2>1. /\ c[i].seq = s \/ \E k \in 1 .. n : c[i].seq = b[k].seq
        /\ c[j].seq = s \/ \E k \in 1 .. n : c[j].seq = b[k].seq
    BY <1>3
  <2>2. QED
    BY <2>1, NearSymmetric
<1>5. ASSUME NEW i \in 1 .. m, NEW j \in 1 .. m, i < j
      PROVE  seqLess(c[i].seq, c[j].seq)
  <2>1. CASE j < pos
    BY <1>3, <1>5, <2>1
  <2>2. CASE j = pos
    BY <1>1, <1>3, <1>5, <2>2
  <2>3. CASE j > pos /\ i = pos
    BY <1>2, <1>3, <1>5, <2>3
  <2>4. CASE j > pos /\ i > pos
    BY <1>3, <1>5, <2>4
  <2>5. CASE j > pos /\ i < pos
    <3>1. i \in 1 .. n /\ j - 1 \in 1 .. n /\ i < j - 1
      BY <1>3, <1>5, <2>5
    <3>2. QED
      BY <1>3, <1>5, <2>5, <3>1
  <2>6. QED
    BY <2>1, <2>2, <2>3, <2>4, <2>5
<1>6. QED
  BY <1>4, <1>5

(* Measured from the first of a gathered run, the distances grow strictly  *)
(* and stay within the window: priming turns Gathering into NoWedge.       *)
LEMMA GatheredIsOrdered ==
  ASSUME NEW c, NEW m, m >= 1, SeqRun(c, m), GatheredRun(c, m)
  PROVE  OrderedRun(c[1].seq, c, m, Window)
<1> USE DEF SeqRun, GatheredRun, OrderedRun
<1>1. SeqDist(c[1].seq, c[1].seq) = 0
  BY DistRange
<1>2. \A i \in 1 .. m :
        i > 1 => /\ seqLess(c[1].seq, c[i].seq)
                 /\ SeqDist(c[1].seq, c[i].seq) <= Window
                 /\ SeqDist(c[1].seq, c[i].seq) > 0
  <2> SUFFICES ASSUME NEW i \in 1 .. m, i > 1
               PROVE  /\ seqLess(c[1].seq, c[i].seq)
                      /\ SeqDist(c[1].seq, c[i].seq) <= Window
                      /\ SeqDist(c[1].seq, c[i].seq) > 0
    OBVIOUS
  <2>1. /\ 1 \in 1 .. m /\ c[1].seq \in SeqNums /\ c[i].seq \in SeqNums
        /\ Near(c[1].seq, c[i].seq) /\ seqLess(c[1].seq, c[i].seq)
    OBVIOUS
  <2>2. SeqDist(c[1].seq, c[i].seq) > 0
    BY <2>1 DEF seqLess
  <2>3. c[1].seq # c[i].seq
    BY <2>1, <2>2, DistRange
  <2>4. QED
    BY <2>1, <2>2, <2>3, NearTotal
<1>3. ASSUME NEW i \in 1 .. m PROVE SeqDist(c[1].seq, c[i].seq) <= Window
  BY <1>1, <1>2, WindowAssumption
<1>4. ASSUME NEW i \in 1 .. m, NEW j \in 1 .. m, i < j
      PROVE  SeqDist(c[1].seq, c[i].seq) < SeqDist(c[1].seq, c[j].seq)
  <2>1. CASE i = 1
    BY <1>1, <1>2, <1>4, <2>1
  <2>2. CASE i > 1
    <3>1. /\ c[1].seq \in SeqNums /\ c[i].seq \in SeqNums /\ c[j].seq \in SeqNums
          /\ Near(c[1].seq, c[i].seq) /\ Near(c[i].seq, c[j].seq)
          /\ Near(c[1].seq, c[j].seq)
          /\ seqLess(c[1].seq, c[i].seq) /\ seqLess(c[i].seq, c[j].seq)
      BY <1>4, <2>2
    <3>2. QED
      BY <3>1, NearTransitive
  <2>3. QED
    BY <2>1, <2>2
<1>5. QED
  BY <1>3, <1>4

LEMMA SpanBounds == Span \in Nat /\ Span < Half /\ MaxDrift <= Span /\ Window <= Span
BY HalfAssumption, DriftAssumption, WindowAssumption DEF Span

LEMMA EntrySeq ==
  ASSUME TypeOK
  PROVE  /\ Len(buf) \in Nat
         /\ \A i \in 1 .. Len(buf) : buf[i].seq \in SeqNums
<1>1. buf \in Seq(Entries)
  BY DEF TypeOK
<1>2. \A i \in 1 .. Len(buf) : buf[i] \in Entries
  BY <1>1
<1>3. QED
  BY <1>1, <1>2 DEF Entries

LEMMA PushKeepsInv ==
  ASSUME JitterInv, NEW s \in SeqNums, NEW p \in Payloads, Plausible(s),
         Push(s, p)
  PROVE  Bounded' /\ NoWedge' /\ Gathering'
<1>t. TypeOK /\ Bounded /\ NoWedge /\ Gathering
  BY DEF JitterInv
<1>1. CASE PushRejected(s)
  <2>1. UNCHANGED <<buf, nextSeq, primed>>
    BY <1>1 DEF PushRejected, jitterVars
  <2>2. QED
    BY <1>t, <2>1 DEF Bounded, NoWedge, Gathering
<1>2. CASE PushAccepted(s, p)
  <2> DEFINE n == Len(Kept(s))
             m == Len(buf')
  <2>1. buf' \in Seq(Entries) /\ m \in 1 .. MaxDepth /\ m <= n + 1
    BY <1>t, <1>2, AcceptedShape, Zenon
  <2>2. PICK pos \in 1 .. n + 1 :
          /\ IsInsertPos(Kept(s), s, pos)
          /\ \A i \in 1 .. m :
               buf'[i] = IF i < pos THEN Kept(s)[i]
                         ELSE IF i = pos THEN [seq |-> s, payload |-> p]
                         ELSE Kept(s)[i - 1]
    BY <1>t, <1>2, AcceptedShape, Zenon
  <2>3. m \in Nat /\ m >= 1 /\ m <= MaxDepth
    BY <2>1, DepthAssumption
  <2>b. Bounded'
    BY <2>3 DEF Bounded
  <2>4. SeqRun(Kept(s), n)
    BY <1>t, KeptIsSeq DEF SeqRun
  <2>5. SeqRun(buf', m)
    <3>1. \A i \in 1 .. m : buf'[i] \in Entries
      BY <2>1
    <3>2. QED
      BY <2>3, <3>1 DEF SeqRun, Entries
  <2>6. ScanStops(Kept(s), n, s, pos)
    <3>1. ~Duplicate(Kept(s), s)
      BY <1>2 DEF PushAccepted, Kept
    <3>2. QED
      BY <2>2, <3>1 DEF Duplicate, IsInsertPos, ScanStops
  <2>7. Inserted(Kept(s), n, buf', m, s, pos)
    BY <2>1, <2>2, <2>3 DEF Inserted
  <2> HIDE DEF n, m
  <2>8. CASE primed /\ ~Drifted(s)
    <3>1. Kept(s) = buf
      BY <2>8 DEF Kept
    <3>2. primed' /\ nextSeq' = nextSeq
      BY <1>2, <2>8 DEF PushAccepted, Prime
    <3>3. nextSeq \in SeqNums
      BY <1>t DEF TypeOK
    <3>4. SeqDist(nextSeq, s) <= MaxDrift
      BY <1>2, <2>8, <3>3, AcceptedAhead DEF PushAccepted
    <3>5. SeqDist(nextSeq, s) <= Span
      BY <3>3, <3>4, SpanBounds, DistRange, DriftAssumption, HalfAssumption
      DEF SeqSpace
    <3>6. OrderedRun(nextSeq, Kept(s), n, Span)
      BY <1>t, <2>8, <3>1 DEF NoWedge, OrderedRun, n
    <3>7. OrderedRun(nextSeq, buf', m, Span)
      BY <2>4, <2>6, <2>7, <3>3, <3>5, <3>6, SpanBounds, InsertKeepsOrder
    <3>8. QED
      BY <2>b, <3>2, <3>7 DEF NoWedge, Gathering, OrderedRun, m
  <2>9. CASE ~(primed /\ ~Drifted(s))
    <3>1. /\ GatheredRun(Kept(s), n)
          /\ \A i \in 1 .. n : Near(Kept(s)[i].seq, s)
      <4>1. CASE Drifted(s)
        BY <4>1 DEF Kept, GatheredRun, n
      <4>2. CASE ~Drifted(s)
        <5>1. Kept(s) = buf /\ ~primed
          BY <2>9, <4>2 DEF Kept
        <5>2. QED
          BY <1>t, <5>1 DEF Gathering, Plausible, GatheredRun, n
      <4>3. QED
        BY <4>1, <4>2
    <3>2. GatheredRun(buf', m)
      BY <2>4, <2>6, <2>7, <3>1, InsertKeepsGathering
    <3>3. Prime(FALSE)
      <4>1. (primed /\ ~Drifted(s)) = FALSE
        BY <2>9
      <4>2. QED
        BY <1>2, <4>1 DEF PushAccepted
    <3>4. CASE primed'
      <4>1. nextSeq' = buf'[1].seq
        BY <3>3, <3>4 DEF Prime
      <4>2. OrderedRun(nextSeq', buf', m, Window)
        BY <2>3, <2>5, <3>2, <4>1, GatheredIsOrdered
      <4>3. \A i \in 1 .. m : SeqDist(nextSeq', buf'[i].seq) <= Span
        <5> SUFFICES ASSUME NEW i \in 1 .. m
                     PROVE  SeqDist(nextSeq', buf'[i].seq) <= Span
          OBVIOUS
        <5>1. nextSeq' \in SeqNums /\ buf'[i].seq \in SeqNums
          BY <2>3, <2>5, <4>1 DEF SeqRun
        <5>2. SeqDist(nextSeq', buf'[i].seq) <= Window
          BY <4>2 DEF OrderedRun
        <5>3. QED
          BY <5>1, <5>2, SpanBounds, WindowAssumption, DistRange,
             HalfAssumption DEF SeqSpace
      <4>4. QED
        BY <2>b, <3>4, <4>2, <4>3 DEF NoWedge, Gathering, OrderedRun, m
    <3>5. CASE ~primed'
      BY <2>b, <3>2, <3>5 DEF NoWedge, Gathering, GatheredRun, m
    <3>6. QED
      BY <3>4, <3>5
  <2>10. QED
    BY <2>8, <2>9
<1>3. QED
  BY <1>1, <1>2 DEF Push

LEMMA PopKeepsInv ==
  ASSUME JitterInv, Pop
  PROVE  Bounded' /\ NoWedge' /\ Gathering'
<1>t. TypeOK /\ Bounded /\ NoWedge /\ Gathering
  BY DEF JitterInv
<1>s. /\ nextSeq \in SeqNums
      /\ Len(buf) \in Nat
      /\ \A i \in 1 .. Len(buf) : buf[i].seq \in SeqNums
  BY <1>t, EntrySeq DEF TypeOK
<1>1. CASE PopNothing
  <2>1. UNCHANGED <<buf, nextSeq, primed>>
    BY <1>1 DEF PopNothing, jitterVars
  <2>2. QED
    BY <1>t, <2>1 DEF Bounded, NoWedge, Gathering
<1>2. CASE PopFrame
  <2>1. buf \in Seq(Entries) /\ buf # << >> /\ primed
    BY <1>t, <1>2 DEF PopFrame, TypeOK
  <2>2. /\ buf' = Tail(buf) /\ nextSeq' = SeqInc(nextSeq) /\ primed'
        /\ buf[1].seq = nextSeq
    BY <1>2, <2>1 DEF PopFrame
  <2>3. /\ Len(buf') = Len(buf) - 1
        /\ \A i \in 1 .. Len(buf') : i + 1 \in 1 .. Len(buf) /\ buf'[i] = buf[i + 1]
    BY <2>1, <2>2
  <2>4. Bounded'
    BY <1>t, <1>s, <2>3, DepthAssumption DEF Bounded
  <2>5. SeqDist(nextSeq, buf[1].seq) = 0 /\ 1 \in 1 .. Len(buf)
    BY <1>s, <2>1, <2>2, DistRange
  <2>6. \A i \in 1 .. Len(buf) :
          i > 1 => /\ SeqDist(nextSeq, buf[i].seq) > 0
                   /\ SeqDist(nextSeq, buf[i].seq) <= Span
    BY <1>t, <2>1, <2>5 DEF NoWedge
  <2>7. \A i \in 1 .. Len(buf) :
          i > 1 => SeqDist(nextSeq', buf[i].seq) = SeqDist(nextSeq, buf[i].seq) - 1
    <3> SUFFICES ASSUME NEW i \in 1 .. Len(buf), i > 1
                 PROVE  SeqDist(nextSeq', buf[i].seq) = SeqDist(nextSeq, buf[i].seq) - 1
      OBVIOUS
    <3>1. buf[i].seq \in SeqNums /\ SeqDist(nextSeq, buf[i].seq) > 0
      BY <1>s, <2>6
    <3>2. buf[i].seq # nextSeq
      BY <1>s, <3>1, DistRange
    <3>3. QED
      BY <1>s, <2>2, <3>1, <3>2, DistAfterInc
  <2>8. \A i \in 1 .. Len(buf) : SeqDist(nextSeq, buf[i].seq) \in Nat
    BY <1>s, DistRange, HalfAssumption DEF SeqSpace
  <2>9. \A i \in 1 .. Len(buf') :
          /\ i + 1 \in 1 .. Len(buf)
          /\ SeqDist(nextSeq', buf'[i].seq) = SeqDist(nextSeq, buf[i + 1].seq) - 1
    BY <2>3, <2>7
  <2>10. \A i \in 1 .. Len(buf') : SeqDist(nextSeq', buf'[i].seq) <= Span
    BY <2>6, <2>8, <2>9, SpanBounds
  <2>11. \A i, j \in 1 .. Len(buf') :
           i < j => SeqDist(nextSeq', buf'[i].seq) < SeqDist(nextSeq', buf'[j].seq)
    <3> SUFFICES ASSUME NEW i \in 1 .. Len(buf'), NEW j \in 1 .. Len(buf'), i < j
                 PROVE  SeqDist(nextSeq', buf'[i].seq) < SeqDist(nextSeq', buf'[j].seq)
      OBVIOUS
    <3>1. /\ i + 1 \in 1 .. Len(buf) /\ j + 1 \in 1 .. Len(buf) /\ i + 1 < j + 1
      BY <2>9
    <3>2. SeqDist(nextSeq, buf[i + 1].seq) < SeqDist(nextSeq, buf[j + 1].seq)
      BY <1>t, <2>1, <3>1 DEF NoWedge
    <3>3. QED
      BY <2>8, <2>9, <3>1, <3>2
  <2>12. QED
    BY <2>2, <2>4, <2>10, <2>11 DEF NoWedge, Gathering
<1>3. CASE PopLoss
  <2>1. buf \in Seq(Entries) /\ buf # << >> /\ primed
    BY <1>t, <1>3 DEF PopLoss, TypeOK
  <2>2. /\ buf' = buf /\ nextSeq' = SeqInc(nextSeq) /\ primed'
        /\ buf[1].seq # nextSeq /\ 1 \in 1 .. Len(buf)
    BY <1>3, <2>1 DEF PopLoss
  <2>3. \A i \in 1 .. Len(buf) : SeqDist(nextSeq, buf[i].seq) \in Nat
    BY <1>s, DistRange, HalfAssumption DEF SeqSpace
  <2>4. SeqDist(nextSeq, buf[1].seq) > 0
    BY <1>s, <2>2, <2>3, DistRange
  <2>5. \A i \in 1 .. Len(buf) : SeqDist(nextSeq, buf[i].seq) > 0
    <3> SUFFICES ASSUME NEW i \in 1 .. Len(buf)
                 PROVE  SeqDist(nextSeq, buf[i].seq) > 0
      OBVIOUS
    <3>1. CASE i = 1
      BY <2>4, <3>1
    <3>2. CASE i > 1
      <4>1. SeqDist(nextSeq, buf[1].seq) < SeqDist(nextSeq, buf[i].seq)
        BY <1>t, <2>1, <2>2, <3>2 DEF NoWedge
      <4>2. QED
        BY <2>2, <2>3, <2>4, <4>1
    <3>3. QED
      BY <3>1, <3>2
  <2>6. \A i \in 1 .. Len(buf) :
          SeqDist(nextSeq', buf[i].seq) = SeqDist(nextSeq, buf[i].seq) - 1
    <3> SUFFICES ASSUME NEW i \in 1 .. Len(buf)
                 PROVE  SeqDist(nextSeq', buf[i].seq) = SeqDist(nextSeq, buf[i].seq) - 1
      OBVIOUS
    <3>1. buf[i].seq \in SeqNums /\ buf[i].seq # nextSeq
      BY <1>s, <2>5, DistRange
    <3>2. QED
      BY <1>s, <2>2, <3>1, DistAfterInc
  <2>7. \A i \in 1 .. Len(buf) : SeqDist(nextSeq', buf'[i].seq) <= Span
    <3>1. \A i \in 1 .. Len(buf) : SeqDist(nextSeq, buf[i].seq) <= Span
      BY <1>t, <2>1 DEF NoWedge
    <3>2. QED
      BY <2>2, <2>3, <2>6, <3>1, SpanBounds
  <2>8. \A i, j \in 1 .. Len(buf) :
          i < j => SeqDist(nextSeq', buf'[i].seq) < SeqDist(nextSeq', buf'[j].seq)
    <3>1. \A i, j \in 1 .. Len(buf) :
            i < j => SeqDist(nextSeq, buf[i].seq) < SeqDist(nextSeq, buf[j].seq)
      BY <1>t, <2>1 DEF NoWedge
    <3>2. QED
      BY <2>2, <2>3, <2>6, <3>1
  <2>9. Bounded'
    BY <1>t, <2>2 DEF Bounded
  <2>10. QED
    BY <2>2, <2>7, <2>8, <2>9 DEF NoWedge, Gathering
<1>4. QED
  BY <1>1, <1>2, <1>3 DEF Pop

LEMMA ResetKeepsInv ==
  ASSUME Reset
  PROVE  Bounded' /\ NoWedge' /\ Gathering'
<1>1. buf' = << >> /\ primed' = FALSE
  BY DEF Reset
<1>2. QED
  BY <1>1, DepthAssumption DEF Bounded, NoWedge, Gathering

-----------------------------------------------------------------------------
(* The theorems.                                                           *)

LEMMA JitterInvInit == Init => JitterInv
<1> SUFFICES ASSUME Init PROVE JitterInv
  OBVIOUS
<1>1. buf = << >> /\ primed = FALSE
  BY DEF Init
<1>2. Bounded /\ NoWedge /\ Gathering
  BY <1>1, DepthAssumption DEF Bounded, NoWedge, Gathering
<1>3. QED
  BY <1>2, TypeInit DEF JitterInv

LEMMA JitterInvStep == JitterInv /\ [Next]_jitterVars => JitterInv'
<1> SUFFICES ASSUME JitterInv, [Next]_jitterVars PROVE JitterInv'
  OBVIOUS
<1>t. TypeOK
  BY DEF JitterInv
<1>1. CASE \E s \in SeqNums, p \in Payloads : Plausible(s) /\ Push(s, p)
  BY <1>t, <1>1, PushType, PushKeepsInv DEF JitterInv
<1>2. CASE Pop
  BY <1>t, <1>2, PopType, PopKeepsInv DEF JitterInv
<1>3. CASE Reset
  BY <1>t, <1>3, ResetType, ResetKeepsInv DEF JitterInv
<1>4. CASE UNCHANGED jitterVars
  <2>1. UNCHANGED <<buf, nextSeq, primed, depth, adaptFrames>>
    BY <1>4 DEF jitterVars
  <2>2. QED
    BY <2>1 DEF JitterInv, TypeOK, Bounded, NoWedge, Gathering
<1>5. QED
  BY <1>1, <1>2, <1>3, <1>4 DEF Next

(* Shape, cap and order of the buffer hold together at every step.         *)
THEOREM BufferInvariant == Spec => []JitterInv
  BY JitterInvInit, JitterInvStep, PTL DEF Spec

(* Whatever the packets, the buffer never holds more than MaxDepth entries.*)
THEOREM BufferBounded == Spec => []Bounded
<1>1. JitterInv => Bounded
  BY DEF JitterInv
<1>2. QED
  BY <1>1, JitterInvInit, JitterInvStep, PTL DEF Spec

(* Every entry of a primed buffer is ahead of nextSeq, within Span of it,  *)
(* in stream order: Pop's mismatch branch always catches up with the head. *)
THEOREM BufferNeverWedged == Spec => []NoWedge
<1>1. JitterInv => NoWedge
  BY DEF JitterInv
<1>2. QED
  BY <1>1, JitterInvInit, JitterInvStep, PTL DEF Spec

(* No sequence number is buffered twice.                                   *)
THEOREM BufferHasNoDuplicates == Spec => []NoDuplicates
<1>1. JitterInv => NoDuplicates
  <2> SUFFICES ASSUME JitterInv,
                      NEW i \in 1 .. Len(buf), NEW j \in 1 .. Len(buf),
                      buf[i].seq = buf[j].seq, i < j
               PROVE  FALSE
    BY EntrySeq DEF NoDuplicates, JitterInv
  <2>1. TypeOK /\ NoWedge /\ Gathering
    BY DEF JitterInv
  <2>2. nextSeq \in SeqNums /\ buf[i].seq \in SeqNums
    BY <2>1, EntrySeq DEF TypeOK
  <2>3. CASE primed
    <3>1. SeqDist(nextSeq, buf[i].seq) < SeqDist(nextSeq, buf[j].seq)
      BY <2>1, <2>3 DEF NoWedge
    <3>2. SeqDist(nextSeq, buf[i].seq) \in Int
      BY <2>2, DistRange
    <3>3. QED
      BY <3>1, <3>2
  <2>4. CASE ~primed
    <3>1. seqLess(buf[i].seq, buf[j].seq)
      BY <2>1, <2>4 DEF Gathering
    <3>2. SeqDist(buf[i].seq, buf[i].seq) = 0
      BY <2>2, DistRange
    <3>3. QED
      BY <3>1, <3>2 DEF seqLess
  <2>5. QED
    BY <2>3, <2>4
<1>2. QED
  BY <1>1, JitterInvInit, JitterInvStep, PTL DEF Spec

-----------------------------------------------------------------------------
(* What a step does to the packet that is due.                             *)

LEMMA PushKeepsDue ==
  ASSUME JitterInv, NEW s \in SeqNums, NEW p \in Payloads, Push(s, p),
         primed, primed', buf # << >>, Head(buf).seq = nextSeq
  PROVE  \/ buf' # << >> /\ Head(buf') = Head(buf) /\ nextSeq' = nextSeq
         \/ Len(buf') = 1 /\ nextSeq' = Head(buf').seq
<1>t. TypeOK /\ buf \in Seq(Entries) /\ nextSeq \in SeqNums
  BY DEF JitterInv, TypeOK
<1>1. CASE PushRejected(s)
  BY <1>1 DEF PushRejected, jitterVars
<1>2. CASE PushAccepted(s, p)
  <2>1. buf' \in Seq(Entries) /\ Len(buf') \in 1 .. MaxDepth /\ Len(buf') <= Len(Kept(s)) + 1
    BY <1>t, <1>2, AcceptedShape, Zenon
  <2>2. Len(buf') \in Nat /\ Len(buf') >= 1 /\ buf' # << >> /\ Head(buf') = buf'[1]
    BY <2>1, DepthAssumption
  <2>3. CASE Drifted(s)
    <3>1. Kept(s) = << >>
      BY <2>3 DEF Kept
    <3>2. Len(buf') = 1
      <4> DEFINE m == Len(buf')
                 k == Len(Kept(s))
      <4>1. m \in Nat /\ m >= 1 /\ m <= k + 1 /\ k = 0
        BY <2>1, <2>2, <3>1
      <4> HIDE DEF m, k
      <4>2. m = 1
        BY <4>1
      <4>3. QED
        BY <4>2 DEF m
    <3>3. Prime(FALSE)
      <4>1. (primed /\ ~Drifted(s)) = FALSE
        BY <2>3
      <4>2. QED
        BY <1>2, <4>1 DEF PushAccepted
    <3>4. nextSeq' = buf'[1].seq
      BY <3>3 DEF Prime
    <3>5. QED
      BY <2>2, <3>2, <3>4
  <2>4. CASE ~Drifted(s)
    <3>1. Kept(s) = buf
      BY <2>4 DEF Kept
    <3>2. nextSeq' = nextSeq
      BY <1>2, <2>4 DEF PushAccepted, Prime
    <3>3. PICK pos \in 1 .. Len(Kept(s)) + 1 :
            /\ IsInsertPos(Kept(s), s, pos)
            /\ \A i \in 1 .. Len(buf') :
                 buf'[i] = IF i < pos THEN Kept(s)[i]
                           ELSE IF i = pos THEN [seq |-> s, payload |-> p]
                           ELSE Kept(s)[i - 1]
      BY <1>t, <1>2, AcceptedShape, Zenon
    <3>4. 1 \in 1 .. Len(buf) /\ Head(buf) = buf[1]
      BY <1>t
    <3>5. ~seqLess(s, nextSeq)
      BY <1>2, <2>4 DEF PushAccepted, Stale, seqLess
    <3>6. pos # 1
      BY <3>1, <3>3, <3>4, <3>5 DEF IsInsertPos
    <3>7. buf'[1] = buf[1]
      BY <2>2, <3>1, <3>3, <3>4, <3>6
    <3>8. QED
      BY <2>2, <3>2, <3>4, <3>7
  <2>5. QED
    BY <2>3, <2>4
<1>3. QED
  BY <1>1, <1>2 DEF Push

(* The packet that is due stays at the head until Pop hands it out: no     *)
(* insertion goes before it and no tail-drop takes it; only a restart of   *)
(* the stream discards it.                                                 *)
THEOREM BufferKeepsDue == Spec => DueIsKept
<1>1. JitterInv /\ [Next]_jitterVars =>
        [(primed /\ primed' /\ buf # << >> /\ Head(buf).seq = nextSeq)
         => \/ buf' # << >> /\ Head(buf') = Head(buf) /\ nextSeq' = nextSeq
            \/ buf' = Tail(buf) /\ nextSeq' = SeqInc(nextSeq)
            \/ Len(buf') = 1 /\ nextSeq' = Head(buf').seq]_jitterVars
  <2> SUFFICES ASSUME JitterInv, Next,
                      primed, primed', buf # << >>, Head(buf).seq = nextSeq
               PROVE  \/ buf' # << >> /\ Head(buf') = Head(buf) /\ nextSeq' = nextSeq
                      \/ buf' = Tail(buf) /\ nextSeq' = SeqInc(nextSeq)
                      \/ Len(buf') = 1 /\ nextSeq' = Head(buf').seq
    OBVIOUS
  <2>1. CASE \E s \in SeqNums, p \in Payloads : Plausible(s) /\ Push(s, p)
    BY <2>1, PushKeepsDue
  <2>2. CASE Pop
    BY <2>2 DEF Pop, PopNothing, PopFrame, PopLoss
  <2>3. CASE Reset
    BY <2>3 DEF Reset
  <2>4. QED
    BY <2>1, <2>2, <2>3 DEF Next
<1>2. QED
  BY <1>1, JitterInvInit, JitterInvStep, PTL DEF Spec, DueIsKept

-----------------------------------------------------------------------------
(* Arithmetic of one stream: n is the newest number sent, s the packet     *)
(* arriving, q the number due, p the number played last, x a buffered one. *)

LEMMA GapBounds ==
  /\ MaxGap \in Nat /\ MaxGap < Half
  /\ Window \in Nat /\ Window < MaxDrift /\ 2 * Window < Half
  /\ Half \in Nat /\ Half >= 2 /\ MaxDrift \in Nat /\ MaxDrift < Half
BY HalfAssumption, DriftAssumption, WindowAssumption, MediaAssumption

LEMMA ReachableRange ==
  ASSUME newest \in SeqNums, NEW s \in Reachable
  PROVE  /\ s \in SeqNums
         /\ seqLess(newest, s) \/ SeqDist(s, newest) <= Window
<1>1. CASE s \in {SeqAdd(newest, k) : k \in 0 .. MaxGap}
  <2>1. PICK k \in 0 .. MaxGap : s = SeqAdd(newest, k)
    BY <1>1
  <2>2. QED
    BY <2>1, GapBounds DEF SeqAdd, seqLess, SeqDist, SeqNums, SeqSpace
<1>2. CASE s \in {SeqAdd(newest, SeqSpace - k) : k \in 0 .. Window}
  <2>1. PICK k \in 0 .. Window : s = SeqAdd(newest, SeqSpace - k)
    BY <1>2
  <2>2. QED
    BY <2>1, GapBounds DEF SeqAdd, SeqDist, SeqNums, SeqSpace
<1>3. QED
  BY <1>1, <1>2 DEF Reachable

(* A packet of the window that is ahead of the newest is ahead of all that *)
(* is gathered, and still within the window of it.                         *)
LEMMA NewestOfGathered ==
  ASSUME NEW x \in SeqNums, NEW n \in SeqNums, NEW s \in SeqNums,
         SeqDist(x, n) <= Window, Near(x, s), seqLess(n, s)
  PROVE  SeqDist(x, s) <= Window
BY GapBounds DEF Near, seqLess, SeqDist, SeqNums, SeqSpace

(* A packet ahead of the newest is ahead of every entry of a primed buffer.*)
LEMMA NewestOfPrimed ==
  ASSUME NEW x \in SeqNums, NEW n \in SeqNums, NEW s \in SeqNums, NEW q \in SeqNums,
         NEW W \in Nat, W < Half,
         SeqDist(x, n) < Half, SeqDist(q, x) <= W, SeqDist(q, s) < Half,
         q = SeqInc(n) \/ SeqDist(q, n) < Half, seqLess(n, s)
  PROVE  SeqDist(x, s) < Half
BY GapBounds DEF seqLess, SeqDist, SeqInc, SeqNums, SeqSpace

(* A packet that makes a primed buffer start afresh is so far ahead of what*)
(* was due that everything played lies more than the window behind it: the *)
(* jump is never backward, for a late packet is within the window.         *)
LEMMA DriftIsForward ==
  ASSUME NEW p \in SeqNums, NEW q \in SeqNums, NEW s \in SeqNums, NEW n \in SeqNums,
         SeqDist(s, n) <= Window,
         q = SeqInc(n) \/ SeqDist(q, n) < Half,
         SeqDist(p, n) < Half, SeqDist(p, q) >= 1, SeqDist(p, q) <= SeqDist(p, n) + 1,
         \/ SeqDist(q, s) > MaxDrift /\ SeqDist(q, s) < Half
         \/ SeqDist(s, q) > MaxDrift /\ SeqDist(s, q) < Half
  PROVE  SeqDist(p, n) > Window
BY GapBounds DEF SeqDist, SeqInc, SeqNums, SeqSpace

(* What primes the buffer comes after what was played before.              *)
LEMMA PrimedAfterPlayed ==
  ASSUME NEW p \in SeqNums, NEW x \in SeqNums, NEW n \in SeqNums,
         SeqDist(x, n) <= Window, SeqDist(p, n) > Window, SeqDist(p, n) < Half
  PROVE  SeqDist(p, x) \in 1 .. SeqDist(p, n) + 1
BY GapBounds DEF SeqDist, SeqNums, SeqSpace

(* While an entry waits, the number due is not beyond the newest; one pop  *)
(* moves it past the newest at most.                                       *)
LEMMA DueBeforeNewest ==
  ASSUME NEW x \in SeqNums, NEW q \in SeqNums, NEW n \in SeqNums,
         NEW W \in Nat, W < Half,
         SeqDist(q, x) <= W, SeqDist(x, n) < Half,
         q = SeqInc(n) \/ SeqDist(q, n) < Half
  PROVE  /\ SeqDist(q, n) < Half
         /\ SeqInc(q) = SeqInc(n) \/ SeqDist(SeqInc(q), n) < Half
BY GapBounds DEF SeqDist, SeqInc, SeqNums, SeqSpace

LEMMA PlayedBeforeDue ==
  ASSUME NEW p \in SeqNums, NEW q \in SeqNums, NEW n \in SeqNums,
         SeqDist(q, n) < Half, SeqDist(p, n) < Half,
         SeqDist(p, q) >= 1, SeqDist(p, q) <= SeqDist(p, n) + 1
  PROVE  /\ SeqDist(p, q) \in 1 .. Half - 1
         /\ SeqDist(p, SeqInc(q)) \in 1 .. SeqDist(p, n) + 1
BY GapBounds DEF SeqDist, SeqInc, SeqNums, SeqSpace

LEMMA DistToNext ==
  ASSUME NEW a \in SeqNums
  PROVE  SeqDist(a, SeqInc(a)) = 1
BY GapBounds DEF SeqDist, SeqInc, SeqNums, SeqSpace

-----------------------------------------------------------------------------
(* Concealment.                                                            *)

(* What concealment keeps on its own.  BurstOnlyFades needs to know that a *)
(* burst starts from the last good frame.                                  *)
PLCInv == PLCTypeOK /\ ConcealsCurrentLeg /\ RepeatsLastGood

(* In a session the history is of the leg being received.                  *)
LegHistory ==
  /\ PLCInv
  /\ lastGoodFrame # NoFrame => lastGoodFrame.leg = currentSSRC

LEMMA FadeInRange ==
  ASSUME NEW a \in 0 .. Peak
  PROVE  /\ (a * 85) \div 100 \in 0 .. Peak
         /\ (a * 85) \div 100 <= a
         /\ a > 0 => (a * 85) \div 100 < a
BY ConcealAssumption, Z3

LEMMA AttenuateType ==
  ASSUME NEW f \in Frames
  PROVE  /\ Attenuate(f) \in Frames /\ Attenuate(f).leg = f.leg
         /\ Attenuate(f).amp <= f.amp
         /\ f.amp > 0 => Attenuate(f).amp < f.amp
<1> DEFINE a == (f.amp * 85) \div 100
<1>1. f.leg \in Legs /\ f.amp \in 0 .. Peak /\ f = [leg |-> f.leg, amp |-> f.amp]
  BY DEF Frames
<1>2. a \in 0 .. Peak /\ a <= f.amp /\ (f.amp > 0 => a < f.amp)
  BY <1>1, FadeInRange
<1>3. Attenuate(f) = [leg |-> f.leg, amp |-> a]
  BY <1>1 DEF Attenuate
<1> HIDE DEF a
<1>4. QED
  BY <1>1, <1>2, <1>3 DEF Frames

LEMMA CountLossType ==
  ASSUME PLCTypeOK, CountLoss
  PROVE  /\ consecutiveLoss' \in 0 .. LossCap
         /\ consecutiveLoss + 1 <= 2 => consecutiveLoss' = consecutiveLoss + 1
         /\ consecutiveLoss + 1 > 2 => consecutiveLoss' > 2
BY ConcealAssumption DEF PLCTypeOK, CountLoss

LEMMA PLCFacts ==
  ASSUME PLCInv
  PROVE  /\ consecutiveLoss \in 0 .. LossCap
         /\ lastGoodFrame \in Frames \cup {NoFrame}
         /\ prevPLC \in Frames \cup {NoFrame}
         /\ prevPLC # NoFrame => lastGoodFrame # NoFrame /\ prevPLC.leg = lastGoodFrame.leg
         /\ (prevPLC # NoFrame /\ consecutiveLoss <= 2) => prevPLC = lastGoodFrame
BY DEF PLCInv, PLCTypeOK, ConcealsCurrentLeg, RepeatsLastGood

LEMMA ConcealKeepsPLC ==
  ASSUME PLCInv, GeneratePLC
  PROVE  /\ PLCInv' /\ UNCHANGED lastGoodFrame
         /\ concealed' # NoFrame =>
              concealed' \in Frames /\ concealed'.leg = lastGoodFrame.leg
<1>1. /\ consecutiveLoss \in 0 .. LossCap
      /\ lastGoodFrame \in Frames \cup {NoFrame}
      /\ prevPLC \in Frames \cup {NoFrame}
      /\ prevPLC # NoFrame => lastGoodFrame # NoFrame /\ prevPLC.leg = lastGoodFrame.leg
      /\ (prevPLC # NoFrame /\ consecutiveLoss <= 2) => prevPLC = lastGoodFrame
  BY PLCFacts
<1>2. lastGoodFrame' = lastGoodFrame /\ CountLoss
  BY DEF GeneratePLC, PLCSilence, PLCSubstitute, PLCFade
<1>3. /\ consecutiveLoss' \in 0 .. LossCap
      /\ consecutiveLoss + 1 <= 2 => consecutiveLoss' = consecutiveLoss + 1
      /\ consecutiveLoss + 1 > 2 => consecutiveLoss' > 2
  BY <1>2, CountLossType DEF PLCInv
<1>4. CASE PLCSilence
  <2>1. prevPLC = NoFrame /\ prevPLC' = NoFrame /\ concealed' = NoFrame
    BY <1>1, <1>4 DEF PLCSilence
  <2>2. QED
    BY <1>1, <1>2, <1>3, <2>1
    DEF PLCInv, PLCTypeOK, ConcealsCurrentLeg, RepeatsLastGood
<1>5. CASE PLCSubstitute
  <2>1. lastGoodFrame # NoFrame /\ concealed' = lastGoodFrame /\ prevPLC' = lastGoodFrame
    BY <1>5 DEF PLCSubstitute
  <2>2. QED
    BY <1>1, <1>2, <1>3, <2>1
    DEF PLCInv, PLCTypeOK, ConcealsCurrentLeg, RepeatsLastGood
<1>6. CASE PLCFade
  <2> DEFINE src == IF prevPLC = NoFrame THEN lastGoodFrame ELSE prevPLC
  <2>1. src \in Frames /\ src.leg = lastGoodFrame.leg /\ lastGoodFrame # NoFrame
    BY <1>1, <1>6 DEF PLCFade
  <2>2. concealed' = Attenuate(src) /\ prevPLC' = Attenuate(src)
    BY <1>6 DEF PLCFade
  <2> HIDE DEF src
  <2>3. /\ concealed' \in Frames /\ concealed'.leg = lastGoodFrame.leg
        /\ prevPLC' = concealed'
    BY <2>1, <2>2, AttenuateType
  <2>4. consecutiveLoss + 1 > 2
    BY <1>6 DEF PLCFade
  <2>5. ~(consecutiveLoss' <= 2)
    BY <1>3, <2>4
  <2>6. QED
    BY <1>1, <1>2, <1>3, <2>1, <2>3, <2>5
    DEF PLCInv, PLCTypeOK, ConcealsCurrentLeg, RepeatsLastGood
<1>7. QED
  BY <1>4, <1>5, <1>6 DEF GeneratePLC

LEMMA GoodPacketKeepsPLC ==
  ASSUME NEW f \in Frames, OnGoodPacket(f)
  PROVE  PLCInv' /\ lastGoodFrame' = f
BY ConcealAssumption
   DEF OnGoodPacket, PLCInv, PLCTypeOK, ConcealsCurrentLeg, RepeatsLastGood

LEMMA ResetKeepsPLC ==
  ASSUME ResetPLC
  PROVE  PLCInv' /\ lastGoodFrame' = NoFrame
BY ConcealAssumption
   DEF ResetPLC, PLCInv, PLCTypeOK, ConcealsCurrentLeg, RepeatsLastGood

LEMMA PLCStays ==
  ASSUME PLCInv, UNCHANGED plcVars
  PROVE  PLCInv' /\ UNCHANGED lastGoodFrame
<1>1. UNCHANGED <<consecutiveLoss, lastGoodFrame, prevPLC, concealed>>
  BY DEF plcVars
<1>2. QED
  BY <1>1 DEF PLCInv, PLCTypeOK, ConcealsCurrentLeg, RepeatsLastGood

LEMMA PLCInvInit == PLCInit => PLCInv /\ lastGoodFrame = NoFrame
BY ConcealAssumption
   DEF PLCInit, PLCInv, PLCTypeOK, ConcealsCurrentLeg, RepeatsLastGood

LEMMA PLCInvStep == PLCInv /\ [PLCNext]_plcVars => PLCInv'
BY ConcealKeepsPLC, GoodPacketKeepsPLC, ResetKeepsPLC, PLCStays DEF PLCNext

(* One step of concealment is no louder than the one before.               *)
LEMMA StepFades ==
  PLCInv /\ GeneratePLC /\ prevPLC # NoFrame =>
    /\ concealed'.amp <= prevPLC.amp
    /\ consecutiveLoss' >= 3 /\ prevPLC.amp > 0 => concealed'.amp < prevPLC.amp
<1> SUFFICES ASSUME PLCInv, GeneratePLC, prevPLC # NoFrame
             PROVE  /\ concealed'.amp <= prevPLC.amp
                    /\ consecutiveLoss' >= 3 /\ prevPLC.amp > 0 =>
                         concealed'.amp < prevPLC.amp
  OBVIOUS
<1>1. /\ consecutiveLoss \in 0 .. LossCap
      /\ prevPLC \in Frames /\ lastGoodFrame # NoFrame
      /\ consecutiveLoss <= 2 => prevPLC = lastGoodFrame
  BY PLCFacts
<1>2. prevPLC.amp \in Int
  BY <1>1 DEF Frames
<1>3. CASE PLCSubstitute
  <2>1. concealed' = lastGoodFrame /\ consecutiveLoss + 1 <= 2 /\ CountLoss
    BY <1>3 DEF PLCSubstitute
  <2>2. consecutiveLoss' = consecutiveLoss + 1
    BY <2>1, CountLossType DEF PLCInv
  <2>3. QED
    BY <1>1, <1>2, <2>1, <2>2
<1>4. CASE PLCFade
  <2>1. concealed' = Attenuate(prevPLC)
    BY <1>4 DEF PLCFade
  <2>2. QED
    BY <1>1, <2>1, AttenuateType
<1>5. QED
  BY <1>1, <1>3, <1>4 DEF GeneratePLC, PLCSilence

(* In the session: the history is of the leg being received.               *)
LEMMA ConcealKeepsHistory ==
  ASSUME LegHistory, GeneratePLC, UNCHANGED currentSSRC
  PROVE  /\ LegHistory'
         /\ concealed' # NoFrame =>
              concealed' \in Frames /\ concealed'.leg = currentSSRC
<1>1. /\ PLCInv' /\ UNCHANGED lastGoodFrame
      /\ concealed' # NoFrame =>
           concealed' \in Frames /\ concealed'.leg = lastGoodFrame.leg
  BY ConcealKeepsPLC DEF LegHistory
<1>2. concealed' # NoFrame => lastGoodFrame # NoFrame
  BY PLCFacts DEF LegHistory, GeneratePLC, PLCSilence, PLCSubstitute, PLCFade
<1>3. QED
  BY <1>1, <1>2 DEF LegHistory

LEMMA GoodPacketKeepsHistory ==
  ASSUME NEW f \in Frames, f.leg = currentSSRC, OnGoodPacket(f), UNCHANGED currentSSRC
  PROVE  LegHistory'
BY GoodPacketKeepsPLC DEF LegHistory

LEMMA HistoryStays ==
  ASSUME LegHistory, UNCHANGED plcVars, UNCHANGED currentSSRC
  PROVE  LegHistory'
BY PLCStays DEF LegHistory

-----------------------------------------------------------------------------
(* The inductive invariant.  PathNeverWedged is left out: it follows from  *)
(* the buffer's own NoWedge.  PlayoutForward goes in because what is about *)
(* to be forwarded becomes what was played.                                *)

PathTypeOK ==
  /\ pc \in {"idle", "push", "pop", "emit", "clean"}
  /\ cur \in Packets \cup {NoFrame}
  /\ frame \in Entries \cup {Loss, NoFrame}
  /\ pcm \in Frames \cup {NoFrame}
  /\ pipe \in SUBSET Legs
  /\ currentSSRC \in Legs \cup {NoFrame}
  /\ bypass \in BOOLEAN
  /\ sent \in [leg : Legs, body : Frames \cup {NoFrame}] \cup {NoFrame}
  /\ newest \in SeqNums
  /\ played \in SeqNums \cup {NoFrame}
  /\ burst \in 0 .. 3

HandInv ==
  /\ PathTypeOK /\ StreamOrder /\ PlayedOrder /\ FrameInHand /\ OneLeg
  /\ PlayoutForward /\ NoCrossLegAudio

PathInv == JitterInv /\ LegHistory /\ HandInv

LEMMA WedgeFree ==
  ASSUME TypeOK, NoWedge
  PROVE  PathNeverWedged
<1> SUFFICES ASSUME primed, NEW i \in 1 .. Len(buf)
             PROVE  /\ SeqDist(nextSeq, buf[i].seq) < Half
                    /\ \A j \in 1 .. i - 1 : seqLess(buf[j].seq, buf[i].seq)
  BY DEF PathNeverWedged
<1>1. /\ nextSeq \in SeqNums /\ Len(buf) \in Nat
      /\ \A k \in 1 .. Len(buf) : buf[k].seq \in SeqNums
  BY EntrySeq DEF TypeOK
<1>2. \A k \in 1 .. Len(buf) : SeqDist(nextSeq, buf[k].seq) < Half
  <2> TAKE k \in 1 .. Len(buf)
  <2>1. SeqDist(nextSeq, buf[k].seq) <= Span
    BY DEF NoWedge
  <2>2. QED
    BY <1>1, <2>1, SpanBounds, DistRange, GapBounds DEF SeqSpace
<1>3. ASSUME NEW j \in 1 .. i - 1
      PROVE  seqLess(buf[j].seq, buf[i].seq)
  <2>1. j \in 1 .. Len(buf) /\ j < i
    BY <1>1
  <2>2. SeqDist(nextSeq, buf[j].seq) < SeqDist(nextSeq, buf[i].seq)
    BY <2>1 DEF NoWedge
  <2>3. QED
    BY <1>1, <1>2, <2>1, <2>2, OrderIsDistance
<1>4. QED
  BY <1>2, <1>3

LEMMA PathInvSuffices == PathInv => MediaInv
<1> SUFFICES ASSUME PathInv PROVE MediaInv
  OBVIOUS
<1>1. /\ JitterInv /\ LegHistory /\ PathTypeOK
      /\ StreamOrder /\ PlayedOrder /\ FrameInHand /\ OneLeg
  BY DEF PathInv, HandInv
<1>2. TypeOK /\ NoWedge
  BY <1>1 DEF JitterInv
<1>3. MediaTypeOK
  BY <1>1, <1>2 DEF LegHistory, PLCInv, PathTypeOK, MediaTypeOK
<1>4. PathNeverWedged
  BY <1>2, WedgeFree
<1>5. QED
  BY <1>1, <1>3, <1>4 DEF MediaInv, LegHistory, PLCInv

LEMMA PathInvInit == MediaInit => PathInv
<1> SUFFICES ASSUME MediaInit PROVE PathInv
  OBVIOUS
<1>1. JitterInv
  BY JitterInvInit DEF MediaInit
<1>2. LegHistory
  BY PLCInvInit DEF MediaInit, LegHistory
<1>3. buf = << >> /\ ~primed
  BY DEF MediaInit, Init
<1>4. PathTypeOK
  BY DEF MediaInit, PathTypeOK
<1>5. StreamOrder /\ PlayedOrder /\ FrameInHand /\ PlayoutForward /\ NoCrossLegAudio
  BY <1>3 DEF MediaInit, StreamOrder, PlayedOrder, FrameInHand, PlayoutForward,
              NoCrossLegAudio
<1>6. OneLeg
  BY <1>3 DEF MediaInit, OneLeg, PLCInit
<1>7. QED
  BY <1>1, <1>2, <1>4, <1>5, <1>6 DEF PathInv, HandInv

-----------------------------------------------------------------------------
(* One lemma per step of the handler and per arrival.                      *)

LEMMA PathFacts ==
  ASSUME PathInv
  PROVE  /\ JitterInv /\ TypeOK /\ NoWedge /\ Gathering
         /\ LegHistory /\ PathTypeOK
         /\ StreamOrder /\ PlayedOrder /\ FrameInHand /\ OneLeg
         /\ PlayoutForward /\ NoCrossLegAudio
BY DEF PathInv, HandInv, JitterInv

LEMMA PipeFacts ==
  ASSUME PathInv
  PROVE  pipe \subseteq {currentSSRC} /\ pipe \subseteq Legs
BY PathFacts DEF PathTypeOK, OneLeg

LEMMA BufferFacts ==
  ASSUME PathInv
  PROVE  /\ buf \in Seq(Entries) /\ Len(buf) \in Nat
         /\ nextSeq \in SeqNums /\ newest \in SeqNums /\ primed \in BOOLEAN
         /\ \A i \in 1 .. Len(buf) : buf[i] \in Entries /\ buf[i].seq \in SeqNums
<1>1. TypeOK /\ PathTypeOK
  BY PathFacts
<1>2. buf \in Seq(Entries)
  BY <1>1 DEF TypeOK
<1>3. \A i \in 1 .. Len(buf) : buf[i] \in Entries
  BY <1>2
<1>4. QED
  BY <1>1, <1>2, <1>3, EntrySeq DEF TypeOK, PathTypeOK

(* Steps that leave the buffer alone.                                      *)
LEMMA BufferStays ==
  ASSUME JitterInv, UNCHANGED jitterVars
  PROVE  JitterInv'
<1>1. UNCHANGED <<buf, nextSeq, primed, depth, adaptFrames>>
  BY DEF jitterVars
<1>2. QED
  BY <1>1 DEF JitterInv, TypeOK, Bounded, NoWedge, Gathering

(* The next packet of the leg that is being received, or of the first leg. *)
LEMMA ArrivalKeepsInv ==
  ASSUME PathInv, PacketArrives
  PROVE  PathInv'
<1>f. /\ JitterInv /\ TypeOK /\ NoWedge /\ Gathering
      /\ LegHistory /\ PathTypeOK
      /\ StreamOrder /\ PlayedOrder /\ FrameInHand /\ OneLeg
      /\ PlayoutForward /\ NoCrossLegAudio
  BY PathFacts
<1>b. /\ buf \in Seq(Entries) /\ Len(buf) \in Nat
      /\ nextSeq \in SeqNums /\ newest \in SeqNums /\ primed \in BOOLEAN
      /\ \A i \in 1 .. Len(buf) : buf[i] \in Entries /\ buf[i].seq \in SeqNums
  BY BufferFacts
<1>1. PICK l \in Legs, s \in Reachable, kind \in Kinds :
        /\ currentSSRC \in {NoFrame, l}
        /\ Plausible(s)
        /\ seqLess(newest, s) =>
             /\ primed => SeqDist(nextSeq, s) < Half
             /\ played # NoFrame => SeqDist(played, s) < Half
        /\ Receive([leg |-> l, seq |-> s, kind |-> kind])
        /\ newest' = IF seqLess(newest, s) THEN s ELSE newest
  BY DEF PacketArrives
<1> DEFINE packet == [leg |-> l, seq |-> s, kind |-> kind]
<1>2. /\ s \in SeqNums
      /\ seqLess(newest, s) \/ SeqDist(s, newest) <= Window
  BY <1>b, ReachableRange
<1>3. packet \in Packets /\ packet.leg = l /\ packet.seq = s
  BY <1>2 DEF Packets
<1>4. ~NewLeg(packet)
  BY <1>1, <1>3 DEF NewLeg
<1> HIDE DEF packet
<1>5. /\ pc = "idle" /\ UNCHANGED <<jitterVars, plcVars, pipe, played, burst, bypass, sent>>
      /\ currentSSRC' = l
      /\ \/ pc' = "idle" /\ cur' = NoFrame /\ frame' = NoFrame /\ pcm' = NoFrame
         \/ pc' = "push" /\ cur' = packet /\ UNCHANGED <<frame, pcm>>
  BY <1>1, <1>3, <1>4 DEF Receive, Return, packet
<1>6. UNCHANGED <<buf, nextSeq, primed>> /\ UNCHANGED lastGoodFrame
  BY <1>5 DEF jitterVars, plcVars
<1>7. newest' \in SeqNums /\ SeqDist(s, newest') <= Window
  BY <1>b, <1>1, <1>2, DistRange, WindowAssumption
<1>8. JitterInv'
  BY <1>f, <1>5, BufferStays
<1>9. /\ \A i \in 1 .. Len(buf) : buf[i].payload = l
      /\ lastGoodFrame # NoFrame => lastGoodFrame.leg = l
      /\ pipe \subseteq {l}
  <2>1. \A i \in 1 .. Len(buf) : buf[i].payload \in Legs
    BY <1>b, MediaAssumption DEF Entries
  <2>2. lastGoodFrame # NoFrame => lastGoodFrame.leg \in Legs
    BY <1>f DEF LegHistory, PLCInv, PLCTypeOK, Frames
  <2>3. pipe \subseteq Legs
    BY <1>f DEF PathTypeOK
  <2>4. QED
    BY <1>f, <1>1, <2>1, <2>2, <2>3, MediaAssumption DEF OneLeg
<1>10. LegHistory'
  BY <1>f, <1>5, <1>9, PLCStays DEF LegHistory
<1>11. PathTypeOK'
  BY <1>f, <1>3, <1>5, <1>7 DEF PathTypeOK
<1>12. StreamOrder'
  <2>1. pc' = "push" => (Plausible(cur.seq))' /\ (SeqDist(cur.seq, newest) <= Window)'
    <3>1. pc' = "push" => cur'.seq = s
      BY <1>3, <1>5
    <3>2. QED
      BY <1>1, <1>6, <1>7, <3>1 DEF Plausible
  <2>2. ASSUME NEW i \in 1 .. Len(buf)
        PROVE  SeqDist(buf[i].seq, newest') <= (IF primed THEN Half - 1 ELSE Window)
    <3>1. SeqDist(buf[i].seq, newest) <= (IF primed THEN Half - 1 ELSE Window)
      BY <1>f DEF StreamOrder
    <3>2. CASE ~seqLess(newest, s)
      BY <1>1, <3>1, <3>2
    <3>3. CASE seqLess(newest, s) /\ ~primed
      <4>1. Near(buf[i].seq, s)
        BY <1>1, <3>3 DEF Plausible
      <4>2. QED
        BY <1>b, <1>1, <1>2, <3>1, <3>3, <4>1, NewestOfGathered
    <3>4. CASE seqLess(newest, s) /\ primed
      <4>1. SeqDist(nextSeq, buf[i].seq) <= Span
        BY <1>f, <3>4 DEF NoWedge
      <4>2. nextSeq = SeqInc(newest) \/ SeqDist(nextSeq, newest) < Half
        BY <1>f, <3>4 DEF StreamOrder
      <4>3. SeqDist(buf[i].seq, newest) < Half
        BY <1>b, <3>1, <3>4, DistRange, GapBounds DEF SeqSpace
      <4>4. SeqDist(buf[i].seq, s) < Half
        BY <1>b, <1>1, <1>2, <3>4, <4>1, <4>2, <4>3, SpanBounds, NewestOfPrimed
      <4>5. QED
        BY <1>b, <1>1, <1>2, <3>4, <4>4, DistRange, GapBounds, SMTT(30) DEF SeqSpace
    <3>5. QED
      BY <1>b, <3>2, <3>3, <3>4
  <2>3. primed => nextSeq = SeqInc(newest') \/ SeqDist(nextSeq, newest') < Half
    BY <1>f, <1>1 DEF StreamOrder
  <2>4. QED
    BY <1>6, <2>1, <2>2, <2>3 DEF StreamOrder
<1>13. PlayedOrder'
  <2> SUFFICES ASSUME played # NoFrame PROVE PlayedOrder'
    BY <1>5 DEF PlayedOrder
  <2>1. /\ played \in SeqNums /\ SeqDist(played, newest) < Half
        /\ IF primed THEN SeqDist(played, nextSeq) \in 1 .. SeqDist(played, newest) + 1
           ELSE SeqDist(played, newest) > Window
    BY <1>f DEF PlayedOrder, PathTypeOK
  <2>2. SeqDist(played, newest') < Half /\ SeqDist(played, newest') >= SeqDist(played, newest)
    <3>1. CASE seqLess(newest, s)
      <4>1. SeqDist(played, s) < Half
        BY <1>1, <3>1
      <4>2. SeqDist(played, newest) < SeqDist(played, s)
        BY <1>b, <1>2, <2>1, <3>1, <4>1, OrderIsDistance
      <4>3. SeqDist(played, newest) \in Int /\ SeqDist(played, s) \in Int
        BY <1>b, <1>2, <2>1, DistRange
      <4>4. QED
        BY <1>1, <3>1, <4>1, <4>2, <4>3
    <3>2. CASE ~seqLess(newest, s)
      BY <1>b, <1>1, <2>1, <3>2, DistRange
    <3>3. QED
      BY <3>1, <3>2
  <2>3. /\ SeqDist(played, newest') \in Int /\ SeqDist(played, newest) \in Int
        /\ SeqDist(played, nextSeq) \in Int
    BY <1>b, <1>7, <2>1, DistRange
  <2>4. IF primed THEN SeqDist(played, nextSeq) \in 1 .. SeqDist(played, newest') + 1
        ELSE SeqDist(played, newest') > Window
    BY <2>1, <2>2, <2>3, WindowAssumption
  <2>5. QED
    BY <1>5, <1>6, <2>2, <2>4 DEF PlayedOrder
<1>14. FrameInHand' /\ PlayoutForward'
  BY <1>3, <1>5 DEF FrameInHand, PlayoutForward
<1>15. OneLeg'
  BY <1>3, <1>5, <1>6, <1>9 DEF OneLeg
<1>16. NoCrossLegAudio'
  BY <1>f, <1>5 DEF NoCrossLegAudio
<1>17. QED
  BY <1>8, <1>10, <1>11, <1>12, <1>13, <1>14, <1>15, <1>16 DEF PathInv, HandInv

(* Another leg takes over: nothing of the old one is left.                 *)
LEMMA LegChangeKeepsInv ==
  ASSUME PathInv, LegChanges
  PROVE  PathInv'
<1>f. TypeOK /\ PathTypeOK /\ NoCrossLegAudio
  BY PathFacts
<1>1. PICK l \in Legs, s \in SeqNums, kind \in Kinds :
        /\ currentSSRC # NoFrame /\ l # currentSSRC
        /\ Receive([leg |-> l, seq |-> s, kind |-> kind])
        /\ newest' = s
  BY DEF LegChanges
<1> DEFINE packet == [leg |-> l, seq |-> s, kind |-> kind]
<1>2. packet \in Packets /\ packet.leg = l /\ packet.seq = s
  BY DEF Packets
<1>3. NewLeg(packet)
  BY <1>1, <1>2 DEF NewLeg
<1> HIDE DEF packet
<1>4. /\ pc = "idle" /\ Reset /\ ResetPLC /\ pipe' = {} /\ played' = NoFrame /\ burst' = 0
      /\ UNCHANGED <<bypass, sent>>
      /\ currentSSRC' = l
      /\ \/ pc' = "idle" /\ cur' = NoFrame /\ frame' = NoFrame /\ pcm' = NoFrame
         \/ pc' = "push" /\ cur' = packet /\ UNCHANGED <<frame, pcm>>
  BY <1>1, <1>2, <1>3 DEF Receive, Return, ResetPipeline, packet
<1>5. buf' = << >> /\ primed' = FALSE /\ lastGoodFrame' = NoFrame
  BY <1>4 DEF Reset, ResetPLC
<1>6. JitterInv'
  BY <1>f, <1>4, ResetType, ResetKeepsInv DEF JitterInv
<1>7. LegHistory'
  BY <1>4, ResetKeepsPLC DEF LegHistory
<1>8. PathTypeOK'
  BY <1>f, <1>1, <1>2, <1>4 DEF PathTypeOK
<1>9. StreamOrder'
  <2>1. pc' = "push" => cur'.seq = s
    BY <1>2, <1>4
  <2>2. SeqDist(s, newest') <= Window
    BY <1>1, DistRange, WindowAssumption
  <2>3. QED
    BY <1>5, <2>1, <2>2 DEF StreamOrder, Plausible
<1>10. PlayedOrder' /\ FrameInHand' /\ PlayoutForward' /\ NoCrossLegAudio'
  BY <1>f, <1>2, <1>4 DEF PlayedOrder, FrameInHand, PlayoutForward, NoCrossLegAudio
<1>11. OneLeg'
  BY <1>2, <1>4, <1>5 DEF OneLeg
<1>12. QED
  BY <1>6, <1>7, <1>8, <1>9, <1>10, <1>11 DEF PathInv, HandInv

(* Push: rejected, inserted into a primed or a gathering buffer, or the    *)
(* first packet of a buffer that starts afresh.                            *)
LEMMA PushKeepsPath ==
  ASSUME PathInv, PushPacket
  PROVE  PathInv'
<1>f. /\ JitterInv /\ TypeOK /\ NoWedge /\ Gathering
      /\ LegHistory /\ PathTypeOK
      /\ StreamOrder /\ PlayedOrder /\ FrameInHand /\ OneLeg
      /\ PlayoutForward /\ NoCrossLegAudio
  BY PathFacts
<1>b. /\ buf \in Seq(Entries) /\ Len(buf) \in Nat
      /\ nextSeq \in SeqNums /\ newest \in SeqNums /\ primed \in BOOLEAN
      /\ \A i \in 1 .. Len(buf) : buf[i] \in Entries /\ buf[i].seq \in SeqNums
  BY BufferFacts
<1> DEFINE s == cur.seq
           p == cur.leg
<1>1. /\ pc = "push" /\ Push(s, p)
      /\ \/ primed' /\ pc' = "pop" /\ UNCHANGED <<cur, frame, pcm>>
         \/ ~primed' /\ pc' = "idle" /\ cur' = NoFrame /\ frame' = NoFrame /\ pcm' = NoFrame
      /\ UNCHANGED <<plcVars, pipe, currentSSRC, bypass, sent, newest, played, burst>>
  BY DEF PushPacket, Return
<1>2. cur \in Packets /\ s \in SeqNums /\ p \in Legs /\ p = currentSSRC
  BY <1>f, <1>1 DEF FrameInHand, OneLeg, Packets
<1>3. Plausible(s) /\ SeqDist(s, newest) <= Window
  BY <1>f, <1>1 DEF StreamOrder
<1> HIDE DEF s, p
<1>4. TypeOK' /\ JitterInv'
  <2>1. p \in Payloads
    BY <1>2, MediaAssumption
  <2>2. TypeOK'
    BY <1>f, <1>1, <1>2, <2>1, PushType
  <2>3. Bounded' /\ NoWedge' /\ Gathering'
    BY <1>f, <1>1, <1>2, <1>3, <2>1, PushKeepsInv
  <2>4. QED
    BY <2>2, <2>3 DEF JitterInv
<1>5. LegHistory'
  BY <1>f, <1>1, HistoryStays
<1>6. PathTypeOK'
  BY <1>f, <1>1 DEF PathTypeOK
<1>7. FrameInHand' /\ PlayoutForward' /\ NoCrossLegAudio'
  BY <1>f, <1>1, <1>2 DEF FrameInHand, PlayoutForward, NoCrossLegAudio
<1>8. UNCHANGED lastGoodFrame
  BY <1>1 DEF plcVars
<1>9. CASE PushRejected(s)
  <2>1. UNCHANGED <<buf, nextSeq, primed>>
    BY <1>9 DEF PushRejected, jitterVars
  <2>2. StreamOrder'
    BY <1>f, <1>1, <2>1 DEF StreamOrder
  <2>3. PlayedOrder'
    BY <1>f, <1>1, <2>1 DEF PlayedOrder
  <2>4. OneLeg'
    BY <1>f, <1>1, <1>8, <2>1 DEF OneLeg
  <2>5. QED
    BY <1>4, <1>5, <1>6, <1>7, <2>2, <2>3, <2>4 DEF PathInv, HandInv
<1>10. CASE PushAccepted(s, p)
  <2> DEFINE e == [seq |-> s, payload |-> p]
             wasPrimed == primed /\ ~Drifted(s)
  <2>1. /\ Len(buf') \in Nat /\ Len(buf') >= 1
        /\ \A i \in 1 .. Len(buf') :
             buf'[i] = e \/ \E j \in 1 .. Len(Kept(s)) : buf'[i] = Kept(s)[j]
    <3>1. p \in Payloads
      BY <1>2, MediaAssumption
    <3>2. /\ buf' \in Seq(Entries) /\ Len(buf') \in 1 .. MaxDepth
          /\ Len(buf') <= Len(Kept(s)) + 1
          /\ \E pos \in 1 .. Len(Kept(s)) + 1 :
               /\ IsInsertPos(Kept(s), s, pos)
               /\ \A i \in 1 .. Len(buf') :
                    buf'[i] = IF i < pos THEN Kept(s)[i]
                              ELSE IF i = pos THEN e ELSE Kept(s)[i - 1]
      BY <1>f, <1>2, <1>10, <3>1, AcceptedShape, Zenon
    <3>3. Len(Kept(s)) \in Nat
      BY <1>f, <1>2, KeptIsSeq
    <3>4. PICK pos \in 1 .. Len(Kept(s)) + 1 :
            \A i \in 1 .. Len(buf') :
              buf'[i] = IF i < pos THEN Kept(s)[i]
                        ELSE IF i = pos THEN e ELSE Kept(s)[i - 1]
      BY <3>2
    <3> HIDE DEF e
    <3>5. ASSUME NEW i \in 1 .. Len(buf')
          PROVE  buf'[i] = e \/ \E j \in 1 .. Len(Kept(s)) : buf'[i] = Kept(s)[j]
      <4>1. i \in Nat /\ i >= 1 /\ i <= Len(Kept(s)) + 1
        BY <3>2, <3>3, DepthAssumption
      <4>2. CASE i < pos
        BY <3>3, <3>4, <4>1, <4>2
      <4>3. CASE i = pos
        BY <3>4, <4>3
      <4>4. CASE i > pos
        <5>1. i - 1 \in 1 .. Len(Kept(s)) /\ buf'[i] = Kept(s)[i - 1]
          BY <3>3, <3>4, <4>1, <4>4
        <5>2. QED
          BY <5>1
      <4>5. QED
        BY <3>3, <4>1, <4>2, <4>3, <4>4
    <3>6. QED
      BY <3>2, <3>5, DepthAssumption
  <2>2. \A j \in 1 .. Len(Kept(s)) : \E i \in 1 .. Len(buf) : Kept(s)[j] = buf[i] /\ ~Drifted(s)
    BY DEF Kept
  <2>3. e.seq = s /\ e.payload = p
    OBVIOUS
  <2> HIDE DEF e, wasPrimed
  <2>4. OneLeg'
    <3>1. \A i \in 1 .. Len(buf') : buf'[i].payload = currentSSRC
      BY <1>f, <1>2, <2>1, <2>2, <2>3 DEF OneLeg
    <3>2. QED
      BY <1>f, <1>1, <1>2, <1>8, <3>1 DEF OneLeg
  <2>5. \A i \in 1 .. Len(buf') :
          SeqDist(buf'[i].seq, newest) <= (IF wasPrimed THEN Half - 1 ELSE Window)
    <3> SUFFICES ASSUME NEW i \in 1 .. Len(buf')
                 PROVE  SeqDist(buf'[i].seq, newest) <=
                          (IF wasPrimed THEN Half - 1 ELSE Window)
      OBVIOUS
    <3>1. CASE buf'[i] = e
      BY <1>b, <1>2, <1>3, <2>3, <3>1, DistRange, GapBounds DEF SeqSpace
    <3>2. CASE \E k \in 1 .. Len(buf) : buf'[i] = buf[k] /\ ~Drifted(s)
      BY <1>f, <3>2 DEF StreamOrder, wasPrimed
    <3>3. QED
      BY <2>1, <2>2, <3>1, <3>2
  <2>6. \A i \in 1 .. Len(buf') : buf'[i].seq \in SeqNums
    BY <1>b, <1>2, <2>1, <2>2, <2>3
  <2>7. /\ wasPrimed => primed' /\ nextSeq' = nextSeq
        /\ ~wasPrimed /\ primed' => nextSeq' = buf'[1].seq
    <3>1. Prime(wasPrimed)
      BY <1>10 DEF PushAccepted, wasPrimed
    <3>2. wasPrimed \in BOOLEAN
      BY DEF wasPrimed
    <3>3. QED
      BY <3>1, <3>2 DEF Prime
  <2>8. /\ ~wasPrimed /\ primed' =>
             nextSeq' \in SeqNums /\ SeqDist(nextSeq', newest) <= Window
    BY <2>1, <2>5, <2>6, <2>7
  <2>9. StreamOrder'
    <3>1. \A i \in 1 .. Len(buf') :
            SeqDist(buf'[i].seq, newest) <= (IF primed' THEN Half - 1 ELSE Window)
      <4> TAKE i \in 1 .. Len(buf')
      <4>1. SeqDist(buf'[i].seq, newest) \in Int
        BY <1>b, <2>6, DistRange
      <4>2. SeqDist(buf'[i].seq, newest) <= (IF wasPrimed THEN Half - 1 ELSE Window)
        BY <2>5
      <4>3. wasPrimed => primed'
        BY <2>7
      <4>4. QED
        BY <4>1, <4>2, <4>3, GapBounds
    <3>2. primed' => nextSeq' = SeqInc(newest) \/ SeqDist(nextSeq', newest) < Half
      <4>1. CASE wasPrimed
        BY <1>f, <2>7, <4>1 DEF StreamOrder, wasPrimed
      <4>2. CASE ~wasPrimed
        BY <1>b, <2>8, <4>2, DistRange, GapBounds DEF SeqSpace
      <4>3. QED
        BY <4>1, <4>2
    <3>3. UNCHANGED newest /\ pc' # "push"
      BY <1>1
    <3>4. QED
      BY <3>1, <3>2, <3>3 DEF StreamOrder
  <2>10. PlayedOrder'
    <3> SUFFICES ASSUME played # NoFrame PROVE PlayedOrder'
      BY <1>1 DEF PlayedOrder
    <3>1. UNCHANGED <<played, newest>>
      BY <1>1
    <3>2. /\ played \in SeqNums /\ SeqDist(played, newest) < Half
          /\ IF primed THEN SeqDist(played, nextSeq) \in 1 .. SeqDist(played, newest) + 1
             ELSE SeqDist(played, newest) > Window
      BY <1>f DEF PlayedOrder, PathTypeOK
    <3>3. CASE wasPrimed
      BY <2>7, <3>1, <3>2, <3>3 DEF PlayedOrder, wasPrimed
    <3>4. CASE ~wasPrimed
      <4>1. SeqDist(played, newest) > Window
        <5>1. CASE ~primed
          BY <3>2, <5>1
        <5>2. CASE primed
          <6>1. Drifted(s)
            BY <3>4, <5>2 DEF wasPrimed
          <6>2. \/ SeqDist(nextSeq, s) > MaxDrift /\ SeqDist(nextSeq, s) < Half
                \/ SeqDist(s, nextSeq) > MaxDrift /\ SeqDist(s, nextSeq) < Half
            BY <6>1 DEF Drifted
          <6>3. nextSeq = SeqInc(newest) \/ SeqDist(nextSeq, newest) < Half
            BY <1>f, <5>2 DEF StreamOrder
          <6>4. SeqDist(played, nextSeq) >= 1 /\ SeqDist(played, nextSeq) <= SeqDist(played, newest) + 1
            BY <1>b, <3>2, <5>2, DistRange
          <6>5. QED
            BY <1>b, <1>2, <1>3, <3>2, <6>2, <6>3, <6>4, DriftIsForward
        <5>3. QED
          BY <5>1, <5>2
      <4>2. CASE primed'
        <5>1. SeqDist(played, nextSeq') \in 1 .. SeqDist(played, newest) + 1
          BY <1>b, <2>8, <3>2, <3>4, <4>1, <4>2, PrimedAfterPlayed
        <5>2. QED
          BY <3>1, <3>2, <4>2, <5>1 DEF PlayedOrder
      <4>3. CASE ~primed'
        BY <3>1, <3>2, <4>1, <4>3 DEF PlayedOrder
      <4>4. QED
        BY <4>2, <4>3
    <3>5. QED
      BY <3>3, <3>4
  <2>11. QED
    BY <1>4, <1>5, <1>6, <1>7, <2>4, <2>9, <2>10 DEF PathInv, HandInv
<1>11. QED
  BY <1>1, <1>9, <1>10 DEF Push

(* Pop: nothing, the frame that is due, or a loss; what is due moves on by *)
(* one, and not beyond the newest by more.                                 *)
LEMMA PopKeepsPath ==
  ASSUME PathInv, PopPacket
  PROVE  PathInv'
<1>f. /\ JitterInv /\ TypeOK /\ NoWedge /\ Gathering
      /\ LegHistory /\ PathTypeOK
      /\ StreamOrder /\ PlayedOrder /\ FrameInHand /\ OneLeg
      /\ PlayoutForward /\ NoCrossLegAudio
  BY PathFacts
<1>b. /\ buf \in Seq(Entries) /\ Len(buf) \in Nat
      /\ nextSeq \in SeqNums /\ newest \in SeqNums /\ primed \in BOOLEAN
      /\ \A i \in 1 .. Len(buf) : buf[i] \in Entries /\ buf[i].seq \in SeqNums
  BY BufferFacts
<1>1. /\ pc = "pop"
      /\ UNCHANGED <<plcVars, pipe, currentSSRC, bypass, sent, newest, played, burst>>
  BY DEF PopPacket
<1>2. cur \in Packets /\ cur.leg = currentSSRC
  BY <1>f, <1>1 DEF FrameInHand, OneLeg
<1>3. JitterInv'
  <2>1. Pop
    BY DEF PopPacket, Pop
  <2>2. QED
    BY <1>f, <2>1, PopType, PopKeepsInv DEF JitterInv
<1>4. LegHistory'
  BY <1>f, <1>1, HistoryStays
<1>5. UNCHANGED lastGoodFrame
  BY <1>1 DEF plcVars
<1>6. NoCrossLegAudio'
  BY <1>f, <1>1 DEF NoCrossLegAudio
<1>7. CASE PopNothing /\ Return
  <2>1. UNCHANGED <<buf, nextSeq, primed>>
    BY <1>7 DEF PopNothing, jitterVars
  <2>2. pc' = "idle" /\ cur' = NoFrame /\ frame' = NoFrame /\ pcm' = NoFrame
    BY <1>7 DEF Return
  <2>3. PathTypeOK'
    BY <1>f, <1>1, <2>2 DEF PathTypeOK
  <2>4. StreamOrder' /\ PlayedOrder'
    BY <1>f, <1>1, <2>1, <2>2 DEF StreamOrder, PlayedOrder
  <2>5. FrameInHand' /\ PlayoutForward' /\ OneLeg'
    BY <1>f, <1>1, <1>5, <2>1, <2>2 DEF FrameInHand, PlayoutForward, OneLeg
  <2>6. QED
    BY <1>3, <1>4, <1>6, <2>3, <2>4, <2>5 DEF PathInv, HandInv
<1>8. CASE \/ PopFrame /\ pc' = "emit" /\ frame' = Head(buf) /\ UNCHANGED <<cur, pcm>>
           \/ PopLoss /\ pc' = "emit" /\ frame' = Loss /\ UNCHANGED <<cur, pcm>>
  <2>1. /\ primed /\ primed' /\ buf # << >> /\ nextSeq' = SeqInc(nextSeq)
        /\ \/ buf' = Tail(buf) /\ frame' = Head(buf) /\ Head(buf).seq = nextSeq
           \/ buf' = buf /\ frame' = Loss
    BY <1>8 DEF PopFrame, PopLoss
  <2>2. 1 \in 1 .. Len(buf) /\ Head(buf) = buf[1]
    BY <1>b, <2>1
  <2>3. /\ SeqDist(nextSeq, buf[1].seq) <= Span
        /\ nextSeq = SeqInc(newest) \/ SeqDist(nextSeq, newest) < Half
        /\ \A i \in 1 .. Len(buf) : SeqDist(buf[i].seq, newest) <= Half - 1
    BY <1>f, <2>1, <2>2 DEF NoWedge, StreamOrder
  <2>4. \A i \in 1 .. Len(buf) : SeqDist(buf[i].seq, newest) < Half
    BY <1>b, <2>3, DistRange, GapBounds DEF SeqSpace
  <2>5. /\ SeqDist(nextSeq, newest) < Half
        /\ nextSeq' = SeqInc(newest) \/ SeqDist(nextSeq', newest) < Half
    BY <1>b, <2>1, <2>2, <2>3, <2>4, SpanBounds, DueBeforeNewest
  <2>6. \A i \in 1 .. Len(buf') : \E k \in 1 .. Len(buf) : buf'[i] = buf[k]
    <3>1. CASE buf' = Tail(buf)
      <4>1. buf \in Seq(Entries) /\ buf # << >> /\ buf' = Tail(buf)
        BY <1>b, <2>1, <3>1
      <4>2. \A i \in 1 .. Len(buf') : i + 1 \in 1 .. Len(buf) /\ buf'[i] = buf[i + 1]
        BY <4>1
      <4>3. QED
        BY <4>2
    <3>2. QED
      BY <2>1, <3>1
  <2>7. StreamOrder'
    BY <1>1, <1>8, <2>1, <2>3, <2>5, <2>6 DEF StreamOrder
  <2>8. played # NoFrame =>
          /\ played \in SeqNums /\ SeqDist(played, newest) < Half
          /\ SeqDist(played, nextSeq) \in 1 .. Half - 1
          /\ SeqDist(played, nextSeq') \in 1 .. SeqDist(played, newest) + 1
    <3> SUFFICES ASSUME played # NoFrame
                 PROVE  /\ played \in SeqNums /\ SeqDist(played, newest) < Half
                        /\ SeqDist(played, nextSeq) \in 1 .. Half - 1
                        /\ SeqDist(played, nextSeq') \in 1 .. SeqDist(played, newest) + 1
      OBVIOUS
    <3>1. /\ played \in SeqNums /\ SeqDist(played, newest) < Half
          /\ SeqDist(played, nextSeq) \in 1 .. SeqDist(played, newest) + 1
      BY <1>f, <2>1 DEF PlayedOrder, PathTypeOK
    <3>2. SeqDist(played, nextSeq) >= 1 /\ SeqDist(played, nextSeq) <= SeqDist(played, newest) + 1
      BY <1>b, <3>1, DistRange
    <3>3. QED
      BY <1>b, <2>1, <2>5, <3>1, <3>2, PlayedBeforeDue
  <2>9. PlayedOrder'
    BY <1>1, <2>1, <2>8 DEF PlayedOrder
  <2>10. frame' # Loss =>
           /\ frame' \in Entries /\ frame'.seq = nextSeq /\ frame'.payload = currentSSRC
           /\ SeqDist(frame'.seq, newest) < Half
    BY <1>f, <1>b, <2>1, <2>2, <2>5 DEF OneLeg
  <2>11. frame' \in Entries \cup {Loss}
    BY <2>1, <2>10
  <2>12. PathTypeOK'
    BY <1>f, <1>1, <1>8, <2>11 DEF PathTypeOK
  <2>13. FrameInHand'
    BY <1>1, <1>2, <1>8, <2>1, <2>10 DEF FrameInHand
  <2>14. PlayoutForward'
    BY <1>1, <2>8, <2>10 DEF PlayoutForward
  <2>15. OneLeg'
    <3>1. \A i \in 1 .. Len(buf') : buf'[i].payload = currentSSRC
      BY <1>f, <2>6 DEF OneLeg
    <3>2. QED
      BY <1>f, <1>1, <1>2, <1>5, <1>8, <2>10, <3>1 DEF OneLeg
  <2>16. QED
    BY <1>3, <1>4, <1>6, <2>7, <2>9, <2>12, <2>13, <2>14, <2>15 DEF PathInv, HandInv
<1>9. \/ PopNothing /\ Return
      \/ PopFrame /\ pc' = "emit" /\ frame' = Head(buf) /\ UNCHANGED <<cur, pcm>>
      \/ PopLoss /\ pc' = "emit" /\ frame' = Loss /\ UNCHANGED <<cur, pcm>>
  BY DEF PopPacket
<1>10. QED
  BY <1>7, <1>8, <1>9

-----------------------------------------------------------------------------
(* The steps after Pop: buffer, due number and newest stay as they are.    *)

(* The frame in hand goes out: it becomes what was played, and the buffer  *)
(* waits for the number after it.                                          *)
LEMMA ForwardKeepsHand ==
  ASSUME PathInv, LegHistory', pc \in {"emit", "clean"},
         NEW body \in Frames \cup {NoFrame}, body # NoFrame => body.leg = currentSSRC,
         Forward(body), pipe' \subseteq {currentSSRC}, pipe' \subseteq Legs,
         UNCHANGED <<jitterVars, currentSSRC, bypass, newest>>
  PROVE  PathInv'
<1>f. /\ JitterInv /\ TypeOK /\ NoWedge /\ Gathering
      /\ LegHistory /\ PathTypeOK
      /\ StreamOrder /\ PlayedOrder /\ FrameInHand /\ OneLeg
      /\ PlayoutForward /\ NoCrossLegAudio
  BY PathFacts
<1>1. /\ pc' = "idle" /\ cur' = NoFrame /\ frame' = NoFrame /\ pcm' = NoFrame
      /\ sent' = [leg |-> cur.leg, body |-> body]
      /\ \/ frame = Loss /\ UNCHANGED played
         \/ frame # Loss /\ played' = frame.seq
  BY DEF Forward, Return
<1>2. burst' \in 0 .. 3
  BY <1>f DEF Forward, PathTypeOK
<1>3. UNCHANGED <<buf, nextSeq, primed>>
  BY DEF jitterVars
<1>4. /\ primed /\ cur \in Packets /\ cur.leg = currentSSRC /\ cur.leg \in Legs
      /\ frame # Loss => /\ frame \in Entries /\ frame.seq \in SeqNums
                         /\ nextSeq = SeqInc(frame.seq)
                         /\ SeqDist(frame.seq, newest) < Half
  BY <1>f DEF FrameInHand, OneLeg, Packets, Entries
<1>5. JitterInv'
  BY <1>f, BufferStays
<1>6. /\ sent' \in [leg : Legs, body : Frames \cup {NoFrame}]
      /\ sent'.body # NoFrame => sent'.body.leg = sent'.leg
  BY <1>1, <1>4
<1>7. PathTypeOK'
  BY <1>f, <1>1, <1>2, <1>4, <1>6 DEF PathTypeOK
<1>8. StreamOrder'
  BY <1>f, <1>1, <1>3 DEF StreamOrder
<1>9. PlayedOrder'
  <2>1. CASE frame = Loss
    BY <1>f, <1>1, <1>3, <2>1 DEF PlayedOrder
  <2>2. CASE frame # Loss
    <3>1. played' = frame.seq
      BY <1>1, <2>2
    <3>2. newest \in SeqNums
      BY <1>f DEF PathTypeOK
    <3>3. SeqDist(frame.seq, nextSeq) = 1 /\ SeqDist(frame.seq, newest) \in Nat
      BY <1>4, <2>2, <3>2, DistToNext, DistRange, GapBounds DEF SeqSpace
    <3>4. SeqDist(frame.seq, nextSeq) \in 1 .. SeqDist(frame.seq, newest) + 1
      BY <3>3
    <3>5. QED
      BY <1>3, <1>4, <2>2, <3>1, <3>4 DEF PlayedOrder
  <2>3. QED
    BY <2>1, <2>2
<1>10. FrameInHand' /\ PlayoutForward'
  BY <1>1 DEF FrameInHand, PlayoutForward
<1>11. OneLeg'
  <2>1. \A i \in 1 .. Len(buf') : buf'[i].payload = currentSSRC
    BY <1>f, <1>3 DEF OneLeg
  <2>2. lastGoodFrame' # NoFrame => lastGoodFrame'.leg = currentSSRC
    BY DEF LegHistory
  <2>3. QED
    BY <1>1, <2>1, <2>2 DEF OneLeg
<1>12. NoCrossLegAudio'
  BY <1>6 DEF NoCrossLegAudio
<1>13. QED
  BY <1>5, <1>7, <1>8, <1>9, <1>10, <1>11, <1>12 DEF PathInv, HandInv

(* It does not go out, or goes on to be cleaned: nothing was played.       *)
LEMMA HandStays ==
  ASSUME PathInv, LegHistory', pc \in {"emit", "clean"},
         \/ Return
         \/ /\ pc' = "clean" /\ UNCHANGED <<cur, frame>>
            /\ pcm' \in Frames /\ pcm'.leg = currentSSRC,
         pipe' \subseteq {currentSSRC}, pipe' \subseteq Legs,
         UNCHANGED <<jitterVars, currentSSRC, bypass, sent, newest, played, burst>>
  PROVE  PathInv'
<1>f. /\ JitterInv /\ TypeOK /\ NoWedge /\ Gathering
      /\ LegHistory /\ PathTypeOK
      /\ StreamOrder /\ PlayedOrder /\ FrameInHand /\ OneLeg
      /\ PlayoutForward /\ NoCrossLegAudio
  BY PathFacts
<1>1. \/ pc' = "idle" /\ cur' = NoFrame /\ frame' = NoFrame /\ pcm' = NoFrame
      \/ /\ pc' = "clean" /\ UNCHANGED <<cur, frame>>
         /\ pcm' \in Frames /\ pcm'.leg = currentSSRC
  BY DEF Return
<1>2. UNCHANGED <<buf, nextSeq, primed>>
  BY DEF jitterVars
<1>3. JitterInv'
  BY <1>f, BufferStays
<1>4. PathTypeOK'
  BY <1>f, <1>1 DEF PathTypeOK
<1>5. StreamOrder' /\ PlayedOrder'
  BY <1>f, <1>1, <1>2 DEF StreamOrder, PlayedOrder
<1>6. FrameInHand' /\ PlayoutForward'
  BY <1>f, <1>1, <1>2 DEF FrameInHand, PlayoutForward
<1>7. OneLeg'
  <2>1. \A i \in 1 .. Len(buf') : buf'[i].payload = currentSSRC
    BY <1>f, <1>2 DEF OneLeg
  <2>2. lastGoodFrame' # NoFrame => lastGoodFrame'.leg = currentSSRC
    BY DEF LegHistory
  <2>3. QED
    BY <1>f, <1>1, <2>1, <2>2 DEF OneLeg
<1>8. NoCrossLegAudio'
  BY <1>f DEF NoCrossLegAudio
<1>9. QED
  BY <1>3, <1>4, <1>5, <1>6, <1>7, <1>8 DEF PathInv, HandInv

LEMMA DecodedType ==
  ASSUME PathInv, pc \in {"emit", "clean"}, frame # Loss
  PROVE  Decoded(frame) \in Frames /\ Decoded(frame).leg = currentSSRC
<1>1. frame \in Entries /\ frame.payload = currentSSRC
  BY PathFacts DEF FrameInHand, OneLeg
<1>2. frame.payload \in Legs /\ Peak \in 0 .. Peak
  BY <1>1, MediaAssumption, ConcealAssumption DEF Entries
<1>3. QED
  BY <1>1, <1>2 DEF Decoded, Frames

LEMMA BypassKeepsInv ==
  ASSUME PathInv, EmitBypass
  PROVE  PathInv'
<1>1. /\ pc = "emit" /\ frame # Loss
      /\ OnGoodPacket(Decoded(frame)) \/ UNCHANGED plcVars
      /\ Forward(Decoded(frame))
      /\ UNCHANGED <<jitterVars, pipe, currentSSRC, bypass, newest>>
  BY DEF EmitBypass
<1>2. Decoded(frame) \in Frames /\ Decoded(frame).leg = currentSSRC
  BY <1>1, DecodedType
<1>3. LegHistory'
  BY <1>1, <1>2, PathFacts, GoodPacketKeepsHistory, HistoryStays
<1>4. pipe' \subseteq {currentSSRC} /\ pipe' \subseteq Legs
  BY <1>1, PipeFacts
<1>5. QED
  BY <1>1, <1>2, <1>3, <1>4, ForwardKeepsHand

LEMMA DecodeKeepsInv ==
  ASSUME PathInv, Decode
  PROVE  PathInv'
<1>1. /\ pc = "emit" /\ frame # Loss
      /\ \/ /\ pcm' = Decoded(frame) /\ pc' = "clean"
            /\ UNCHANGED <<cur, frame, sent, played, burst>>
         \/ Return /\ UNCHANGED <<sent, played, burst>>
      /\ UNCHANGED <<jitterVars, plcVars, pipe, currentSSRC, bypass, newest>>
  BY DEF Decode, Drop
<1>2. Decoded(frame) \in Frames /\ Decoded(frame).leg = currentSSRC
  BY <1>1, DecodedType
<1>3. LegHistory'
  BY <1>1, PathFacts, HistoryStays
<1>4. pipe' \subseteq {currentSSRC} /\ pipe' \subseteq Legs
  BY <1>1, PipeFacts
<1>5. QED
  BY <1>1, <1>2, <1>3, <1>4, HandStays

LEMMA ConcealKeepsInv ==
  ASSUME PathInv, Conceal
  PROVE  PathInv'
<1>1. /\ pc = "emit" /\ GeneratePLC /\ pc' = "clean"
      /\ pcm' = IF concealed' = NoFrame THEN [leg |-> cur.leg, amp |-> 0] ELSE concealed'
      /\ UNCHANGED <<jitterVars, cur, frame, pipe, currentSSRC, bypass, sent, newest,
                     played, burst>>
  BY DEF Conceal
<1>2. /\ LegHistory'
      /\ concealed' # NoFrame =>
           concealed' \in Frames /\ concealed'.leg = currentSSRC
  BY <1>1, PathFacts, ConcealKeepsHistory
<1>3. cur.leg \in Legs /\ cur.leg = currentSSRC /\ 0 \in 0 .. Peak
  BY <1>1, PathFacts, ConcealAssumption DEF FrameInHand, OneLeg, Packets
<1>4. [leg |-> cur.leg, amp |-> 0] \in Frames
  BY <1>3 DEF Frames
<1>5. pcm' \in Frames /\ pcm'.leg = currentSSRC
  BY <1>1, <1>2, <1>3, <1>4
<1>6. pipe' \subseteq {currentSSRC} /\ pipe' \subseteq Legs
  BY <1>1, PipeFacts
<1>7. QED
  BY <1>1, <1>2, <1>5, <1>6, HandStays

(* What ProcessFrames hands back was fed in on this leg, as the pipeline   *)
(* was reset when the leg began.                                           *)
LEMMA CleanFacts ==
  ASSUME PathInv, EmitClean
  PROVE  /\ pc = "clean" /\ UNCHANGED <<jitterVars, currentSSRC, bypass, newest>>
         /\ pipe' \subseteq {currentSSRC} /\ pipe' \subseteq Legs
         /\ \/ \E good \in Frames :
                 /\ good.leg = currentSSRC /\ OnGoodPacket(good)
                 /\ Forward(good) \/ Drop
            \/ UNCHANGED plcVars /\ (Forward(NoFrame) \/ Drop)
<1>1. /\ pc = "clean" /\ pipe' = pipe \cup {pcm.leg}
      /\ UNCHANGED <<jitterVars, currentSSRC, bypass, newest>>
  BY DEF EmitClean
<1>2. pcm \in Frames /\ pcm.leg = currentSSRC /\ pcm.leg \in Legs /\ pcm.amp \in 0 .. Peak
  BY <1>1, PathFacts DEF FrameInHand, OneLeg, Frames
<1>3. pipe' \subseteq {currentSSRC} /\ pipe' \subseteq Legs
  BY <1>1, <1>2, PipeFacts
<1>4. ASSUME NEW l \in pipe' PROVE  [leg |-> l, amp |-> pcm.amp] \in Frames /\ l = currentSSRC
  BY <1>2, <1>3 DEF Frames
<1>5. QED
  BY <1>1, <1>3, <1>4 DEF EmitClean

LEMMA CleanKeepsInv ==
  ASSUME PathInv, EmitClean
  PROVE  PathInv'
<1>1. /\ pc = "clean" /\ UNCHANGED <<jitterVars, currentSSRC, bypass, newest>>
      /\ pipe' \subseteq {currentSSRC} /\ pipe' \subseteq Legs
  BY CleanFacts
<1>2. ASSUME NEW good \in Frames, good.leg = currentSSRC, OnGoodPacket(good)
      PROVE  LegHistory'
  BY <1>1, <1>2, GoodPacketKeepsHistory
<1>3. ASSUME NEW good \in Frames, good.leg = currentSSRC, OnGoodPacket(good), Forward(good)
      PROVE  PathInv'
  BY <1>1, <1>2, <1>3, ForwardKeepsHand
<1>4. ASSUME LegHistory', Drop PROVE PathInv'
  BY <1>1, <1>4, HandStays DEF Drop
<1>5. CASE UNCHANGED plcVars /\ (Forward(NoFrame) \/ Drop)
  <2>1. LegHistory'
    BY <1>1, <1>5, PathFacts, HistoryStays
  <2>2. CASE Forward(NoFrame)
    BY <1>1, <2>1, <2>2, ForwardKeepsHand
  <2>3. QED
    BY <1>4, <1>5, <2>1, <2>2
<1>6. QED
  BY <1>2, <1>3, <1>4, <1>5, CleanFacts

LEMMA PathInvStep == PathInv /\ [MediaNext]_mediaVars => PathInv'
<1> SUFFICES ASSUME PathInv, [MediaNext]_mediaVars PROVE PathInv'
  OBVIOUS
<1>1. CASE PacketArrives
  BY <1>1, ArrivalKeepsInv
<1>2. CASE LegChanges
  BY <1>2, LegChangeKeepsInv
<1>3. CASE PushPacket
  BY <1>3, PushKeepsPath
<1>4. CASE PopPacket
  BY <1>4, PopKeepsPath
<1>5. CASE EmitBypass
  BY <1>5, BypassKeepsInv
<1>6. CASE Decode
  BY <1>6, DecodeKeepsInv
<1>7. CASE Conceal
  BY <1>7, ConcealKeepsInv
<1>8. CASE EmitClean
  BY <1>8, CleanKeepsInv
<1>9. CASE UNCHANGED mediaVars
  <2>1. UNCHANGED jitterVars /\ UNCHANGED plcVars /\ UNCHANGED pathVars
    BY <1>9 DEF mediaVars
  <2>2. UNCHANGED <<buf, nextSeq, primed, lastGoodFrame>>
    BY <2>1 DEF jitterVars, plcVars
  <2>3. UNCHANGED <<pc, cur, frame, pcm, pipe, currentSSRC, bypass, sent, newest, played, burst>>
    BY <2>1 DEF pathVars
  <2>4. JitterInv' /\ LegHistory'
    BY <2>1, <2>3, PathFacts, BufferStays, HistoryStays
  <2>5. PathTypeOK' /\ StreamOrder' /\ PlayedOrder'
    BY <2>2, <2>3, PathFacts DEF PathTypeOK, StreamOrder, PlayedOrder, Plausible
  <2>6. FrameInHand' /\ OneLeg' /\ PlayoutForward' /\ NoCrossLegAudio'
    BY <2>2, <2>3, PathFacts DEF FrameInHand, OneLeg, PlayoutForward, NoCrossLegAudio
  <2>7. QED
    BY <2>4, <2>5, <2>6 DEF PathInv, HandInv
<1>10. QED
  BY <1>1, <1>2, <1>3, <1>4, <1>5, <1>6, <1>7, <1>8, <1>9 DEF MediaNext, Handle

-----------------------------------------------------------------------------
(* The theorems.                                                           *)

(* Whatever the network reorders, duplicates or loses and however often    *)
(* the leg changes: the buffer cannot be wedged, nothing due or played lies*)
(* beyond the newest packet, and all that is held is of the leg received.  *)
THEOREM MediaInvariant == MediaSpec => []MediaInv
  BY PathInvInit, PathInvStep, PathInvSuffices, PTL DEF MediaSpec

(* The frame about to be forwarded is later in its stream than every frame *)
(* forwarded on this leg before: playout never goes back nor repeats.      *)
THEOREM PlayoutMovesForward == MediaSpec => []PlayoutForward
<1>1. PathInv => PlayoutForward
  BY PathFacts
<1>2. QED
  BY <1>1, PathInvInit, PathInvStep, PTL DEF MediaSpec

(* A packet leaves with audio of its own leg: no buffered payload, no      *)
(* concealment made of old audio, and nothing the pipeline held of it      *)
(* survives a change of SSRC.                                              *)
THEOREM NoLegMixed == MediaSpec => []NoCrossLegAudio
<1>1. PathInv => NoCrossLegAudio
  BY PathFacts
<1>2. QED
  BY <1>1, PathInvInit, PathInvStep, PTL DEF MediaSpec

-----------------------------------------------------------------------------
(* The session implements its parts: seen through the buffer's variables   *)
(* alone it is a jitter buffer in the environment JitterBuffer assumes, and*)
(* seen through the concealment's it is LossConcealment.  What holds of    *)
(* every behaviour of a part thus holds in the session.                    *)

LEMMA PathStepIsBufferStep == PathInv /\ [MediaNext]_mediaVars => [Next]_jitterVars
<1> SUFFICES ASSUME PathInv, [MediaNext]_mediaVars PROVE [Next]_jitterVars
  OBVIOUS
<1>1. CASE PacketArrives
  <2>1. PICK l \in Legs, s \in Reachable, kind \in Kinds :
          /\ currentSSRC \in {NoFrame, l}
          /\ Receive([leg |-> l, seq |-> s, kind |-> kind])
    BY <1>1 DEF PacketArrives
  <2>2. Reset \/ UNCHANGED jitterVars
    BY <2>1 DEF Receive
  <2>3. QED
    BY <2>2 DEF Next
<1>2. CASE LegChanges
  <2>1. PICK l \in Legs, s \in SeqNums, kind \in Kinds :
          Receive([leg |-> l, seq |-> s, kind |-> kind])
    BY <1>2 DEF LegChanges
  <2>2. Reset \/ UNCHANGED jitterVars
    BY <2>1 DEF Receive
  <2>3. QED
    BY <2>2 DEF Next
<1>3. CASE PushPacket
  <2>1. pc = "push" /\ Push(cur.seq, cur.leg)
    BY <1>3 DEF PushPacket
  <2>2. cur.seq \in SeqNums /\ cur.leg \in Payloads /\ Plausible(cur.seq)
    BY <2>1, PathFacts, MediaAssumption DEF FrameInHand, StreamOrder, Packets
  <2>3. QED
    BY <2>1, <2>2 DEF Next
<1>4. CASE PopPacket
  BY <1>4 DEF PopPacket, Pop, Next
<1>5. CASE UNCHANGED mediaVars
  BY <1>5 DEF mediaVars
<1>6. CASE EmitBypass \/ Decode \/ Conceal \/ EmitClean
  BY <1>6 DEF EmitBypass, Decode, Conceal, EmitClean
<1>7. QED
  BY <1>1, <1>2, <1>3, <1>4, <1>5, <1>6 DEF MediaNext, Handle

LEMMA PathStepIsPLCStep == PathInv /\ [MediaNext]_mediaVars => [PLCNext]_plcVars
<1> SUFFICES ASSUME PathInv, [MediaNext]_mediaVars PROVE [PLCNext]_plcVars
  OBVIOUS
<1>1. CASE PacketArrives
  <2>1. PICK l \in Legs, s \in Reachable, kind \in Kinds :
          Receive([leg |-> l, seq |-> s, kind |-> kind])
    BY <1>1 DEF PacketArrives
  <2>2. ResetPLC \/ UNCHANGED plcVars
    BY <2>1 DEF Receive
  <2>3. QED
    BY <2>2 DEF PLCNext
<1>2. CASE LegChanges
  <2>1. PICK l \in Legs, s \in SeqNums, kind \in Kinds :
          Receive([leg |-> l, seq |-> s, kind |-> kind])
    BY <1>2 DEF LegChanges
  <2>2. ResetPLC \/ UNCHANGED plcVars
    BY <2>1 DEF Receive
  <2>3. QED
    BY <2>2 DEF PLCNext
<1>3. CASE PushPacket \/ PopPacket \/ Decode
  BY <1>3 DEF PushPacket, PopPacket, Decode
<1>4. CASE EmitBypass
  <2>1. Decoded(frame) \in Frames
    BY <1>4, DecodedType DEF EmitBypass
  <2>2. OnGoodPacket(Decoded(frame)) \/ UNCHANGED plcVars
    BY <1>4 DEF EmitBypass
  <2>3. QED
    BY <2>1, <2>2 DEF PLCNext
<1>5. CASE Conceal
  BY <1>5 DEF Conceal, PLCNext
<1>6. CASE EmitClean
  BY <1>6, CleanFacts DEF PLCNext
<1>7. CASE UNCHANGED mediaVars
  BY <1>7 DEF mediaVars
<1>8. QED
  BY <1>1, <1>2, <1>3, <1>4, <1>5, <1>6, <1>7 DEF MediaNext, Handle

(* The receive path drives its jitter buffer only as JitterBuffer assumes: *)
(* every step of handlePacket is a Push of a plausible packet, a Pop, a    *)
(* Reset, or none of the buffer's business.                                *)
THEOREM MediaImplementsBuffer == MediaSpec => Spec
<1>1. MediaInit => Init
  BY DEF MediaInit
<1>2. QED
  BY <1>1, PathInvInit, PathInvStep, PathStepIsBufferStep, PTL DEF MediaSpec, Spec

(* Likewise for the concealment half of the buffer.                        *)
THEOREM MediaImplementsConcealment == MediaSpec => PLCSpec
<1>1. MediaInit => PLCInit
  BY DEF MediaInit
<1>2. QED
  BY <1>1, PathInvInit, PathInvStep, PathStepIsPLCStep, PTL DEF MediaSpec, PLCSpec

(* No step of concealment, in whatever order losses, good packets and      *)
(* resets come, is louder than the one before it in its burst.             *)
THEOREM ConcealmentOnlyFades == PLCSpec => BurstOnlyFades
<1>1. PLCInv /\ [PLCNext]_plcVars =>
        [GeneratePLC /\ prevPLC # NoFrame =>
           /\ concealed'.amp <= prevPLC.amp
           /\ consecutiveLoss' >= 3 /\ prevPLC.amp > 0 =>
                concealed'.amp < prevPLC.amp]_plcVars
  BY StepFades
<1>2. PLCInit => PLCInv
  BY PLCInvInit
<1>3. QED
  BY <1>1, <1>2, PLCInvStep, PTL DEF PLCSpec, BurstOnlyFades

(* In the receive path the packet that is due is never lost to the         *)
(* tail-drop, and a burst of concealment only fades.                       *)
THEOREM PathKeepsDueAndFades == MediaSpec => DueKeptBurstFades
  BY MediaImplementsBuffer, BufferKeepsDue, MediaImplementsConcealment,
     ConcealmentOnlyFades, PTL DEF DueKeptBurstFades
=============================================================================
