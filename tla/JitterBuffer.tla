---------------------------- MODULE JitterBuffer ----------------------------
(***************************************************************************)
(* The reordering part of the RTP jitter buffer (pkg/rtp/jitter.go): Push, *)
(* adaptDepth, Pop and Reset.  Every method holds the buffer's mutex for   *)
(* its whole body, so each is one action.                                  *)
(*                                                                         *)
(* Sequence numbers are uint16 in the code; here they are 0 .. SeqSpace-1  *)
(* with SeqSpace = 2 * Half, and every subtraction wraps exactly as uint16 *)
(* subtraction does.  A payload is an uninterpreted value.  Arrival        *)
(* timing only decides the depth chosen by adaptDepth, so that choice is   *)
(* nondeterministic within its clamp.                                      *)
(***************************************************************************)
EXTENDS Integers, Sequences

CONSTANTS
  Half,         (* 0x8000 in the code: half of the sequence space           *)
  MaxDrift,     (* maxSeqDrift: a larger jump is a new stream               *)
  MaxDepth,     (* maxDepth: hard cap before tail-drop                      *)
  InitDepth,    (* initialDepth: the depth given to NewJitterBuffer         *)
  MinAdapt,     (* minAdaptDepth                                            *)
  MaxAdapt,     (* maxAdaptDepth                                            *)
  AdaptPeriod,  (* accepted packets between two calls of adaptDepth (100)   *)
  Window,       (* environment: how far apart packets met before priming are*)
  Payloads      (* the payloads of packets                                  *)

SeqSpace == 2 * Half
SeqNums == 0 .. SeqSpace - 1

ASSUME HalfAssumption == Half \in Nat /\ Half >= 2
ASSUME DriftAssumption == MaxDrift \in Nat /\ MaxDrift >= 1 /\ MaxDrift < Half
ASSUME DepthAssumption ==
  /\ MaxDepth \in Nat /\ MaxDepth >= 1
  /\ InitDepth \in Nat /\ InitDepth >= 1
  /\ MinAdapt \in Nat /\ MinAdapt >= 1
  /\ MaxAdapt \in Nat /\ MinAdapt <= MaxAdapt
  /\ AdaptPeriod \in Nat /\ AdaptPeriod >= 1
ASSUME WindowAssumption == Window \in Nat /\ 2 * Window < Half

VARIABLES
  buf,          (* j.buf: entries sorted by stream order, head first        *)
  nextSeq,      (* j.nextSeq: the sequence number Pop hands out next        *)
  primed,       (* j.primed                                                 *)
  depth,        (* j.depth: current target depth                            *)
  adaptFrames   (* j.adaptFrames: accepted packets since the last adaptation*)

jitterVars == <<buf, nextSeq, primed, depth, adaptFrames>>

Entries == [seq : SeqNums, payload : Payloads]

TypeOK ==
  /\ buf \in Seq(Entries)
  /\ nextSeq \in SeqNums
  /\ primed \in BOOLEAN
  /\ depth \in Nat
  /\ adaptFrames \in 0 .. AdaptPeriod - 1

-----------------------------------------------------------------------------
(* uint16 arithmetic *)

(* b - a in uint16: the forward distance from a to b. *)
SeqDist(a, b) == IF b >= a THEN b - a ELSE b - a + SeqSpace

(* nextSeq++ in uint16. *)
SeqInc(a) == IF a = SeqSpace - 1 THEN 0 ELSE a + 1

(* Faulty: compared as plain integers. *)
seqLessNoWrap(a, b) == a < b

(* a comes before b in stream order. *)
seqLess(a, b) == SeqDist(a, b) > 0 /\ SeqDist(a, b) < Half

(* The jump is too large to be loss: the sender restarted its numbering. *)
Drifted(s) ==
  /\ primed
  /\ \/ SeqDist(nextSeq, s) > MaxDrift /\ SeqDist(nextSeq, s) < Half
     \/ SeqDist(s, nextSeq) > MaxDrift /\ SeqDist(s, nextSeq) < Half

(* Faulty: late packets are not recognised. *)
StaleNever(s) == FALSE

(* Already delivered, or already skipped as lost. *)
Stale(s) ==
  /\ primed
  /\ ~Drifted(s)
  /\ SeqDist(s, nextSeq) > 0
  /\ SeqDist(s, nextSeq) < Half

Duplicate(b, s) == \E i \in 1 .. Len(b) : b[i].seq = s

(* Faulty: packets are appended in order of arrival. *)
IsAppendPos(b, s, pos) == pos = Len(b) + 1

(* Where the linear scan stops: the first entry that s precedes. *)
IsInsertPos(b, s, pos) ==
  /\ pos \in 1 .. Len(b) + 1
  /\ \A i \in 1 .. pos - 1 : ~seqLess(s, b[i].seq)
  /\ pos <= Len(b) => seqLess(s, b[pos].seq)

InsertDropOldest(b, pos, e) ==
  LET grown == SubSeq(b, 1, pos - 1) \o <<e>> \o SubSeq(b, pos, Len(b))
  IN  IF Len(grown) > MaxDepth THEN Tail(grown) ELSE grown

(* Shift right from pos, put e there, then cut the tail beyond MaxDepth. *)
InsertCapped(b, pos, e) ==
  [i \in 1 .. (IF Len(b) + 1 > MaxDepth THEN MaxDepth ELSE Len(b) + 1) |->
     IF i < pos THEN b[i] ELSE IF i = pos THEN e ELSE b[i - 1]]

-----------------------------------------------------------------------------
(* Every AdaptPeriod accepted packets the depth is recomputed from the     *)
(* measured jitter, clamped to MinAdapt .. MaxAdapt.                       *)
adaptDepth ==
  IF adaptFrames + 1 >= AdaptPeriod
  THEN adaptFrames' = 0 /\ depth' \in MinAdapt .. MaxAdapt
  ELSE adaptFrames' = adaptFrames + 1 /\ UNCHANGED depth

(* Faulty: priming waits for one entry more than the buffer can hold. *)
PrimeWhenOverfull(wasPrimed) ==
  IF ~wasPrimed /\ Len(buf') > MaxDepth
  THEN primed' = TRUE /\ nextSeq' = buf'[1].seq
  ELSE primed' = wasPrimed /\ UNCHANGED nextSeq

(* Prime once the buffer holds the target depth; judged before adaptDepth. *)
Prime(wasPrimed) ==
  IF ~wasPrimed /\ Len(buf') >= depth
  THEN primed' = TRUE /\ nextSeq' = buf'[1].seq
  ELSE primed' = wasPrimed /\ UNCHANGED nextSeq

PushRejected(s) ==
  /\ Stale(s) \/ (~Drifted(s) /\ Duplicate(buf, s))
  /\ UNCHANGED jitterVars

PushAccepted(s, p) ==
  /\ ~Stale(s)
  /\ LET kept == IF Drifted(s) THEN << >> ELSE buf
     IN  /\ ~Duplicate(kept, s)
         /\ \E pos \in 1 .. Len(kept) + 1 :
              /\ IsInsertPos(kept, s, pos)
              /\ buf' = InsertCapped(kept, pos, [seq |-> s, payload |-> p])
  /\ Prime(primed /\ ~Drifted(s))
  /\ adaptDepth

Push(s, p) == PushRejected(s) \/ PushAccepted(s, p)

(* Pop's three outcomes: (nil, false), the head's payload, or (nil, true). *)
PopNothing ==
  /\ ~primed \/ buf = << >>
  /\ UNCHANGED jitterVars

PopFrame ==
  /\ primed
  /\ buf # << >>
  /\ Head(buf).seq = nextSeq
  /\ buf' = Tail(buf)
  /\ nextSeq' = SeqInc(nextSeq)
  /\ UNCHANGED <<primed, depth, adaptFrames>>

PopLoss ==
  /\ primed
  /\ buf # << >>
  /\ Head(buf).seq # nextSeq
  /\ nextSeq' = SeqInc(nextSeq)
  /\ UNCHANGED <<buf, primed, depth, adaptFrames>>

Pop == PopNothing \/ PopFrame \/ PopLoss

Reset ==
  /\ buf' = << >>
  /\ primed' = FALSE
  /\ nextSeq' = 0
  /\ adaptFrames' = 0
  /\ depth' = InitDepth

Init ==
  /\ buf = << >>
  /\ nextSeq = 0
  /\ primed = FALSE
  /\ depth = InitDepth
  /\ adaptFrames = 0

-----------------------------------------------------------------------------
(* The environment.  Until the buffer is primed nothing in the code relates*)
(* the packets it collects, so they are assumed to belong to one stream:   *)
(* pairwise within Window of each other.  A primed buffer is given any     *)
(* packet but the one exactly half the sequence space away, which uint16   *)
(* comparison calls neither ahead nor behind.                              *)
Near(a, b) == SeqDist(a, b) <= Window \/ SeqDist(b, a) <= Window

Plausible(s) ==
  IF primed
  THEN SeqDist(nextSeq, s) # Half
  ELSE \A i \in 1 .. Len(buf) : Near(buf[i].seq, s)

Next ==
  \/ \E s \in SeqNums, p \in Payloads : Plausible(s) /\ Push(s, p)
  \/ Pop
  \/ Reset

Spec == Init /\ [][Next]_jitterVars

(* The session calls Pop after every ready Push: Pop keeps being called. *)
JitterFairness == WF_jitterVars(Pop)

-----------------------------------------------------------------------------
(* Properties *)

(* The farthest a buffered packet can be ahead of nextSeq. *)
Span == IF MaxDrift > Window THEN MaxDrift ELSE Window

(* Push's tail-drop keeps the buffer within its hard cap whatever mix of   *)
(* reordering, resynchronisation and stalls precedes it.                   *)
Bounded == Len(buf) <= MaxDepth

(* Reordering, duplication and wraparound never leave two copies of one    *)
(* sequence number in the buffer: the second copy could never be popped.   *)
NoDuplicates ==
  \A i, j \in 1 .. Len(buf) : buf[i].seq = buf[j].seq => i = j

(* Pop looks only at the head and never discards it, so the buffer is      *)
(* wedged for most of a sequence space as soon as an entry lies behind     *)
(* nextSeq.  Every entry of a primed buffer is ahead of nextSeq, at most   *)
(* Span pops away, and the entries come out in stream order.               *)
NoWedge ==
  primed =>
    /\ \A i \in 1 .. Len(buf) : SeqDist(nextSeq, buf[i].seq) <= Span
    /\ \A i, j \in 1 .. Len(buf) :
         i < j => SeqDist(nextSeq, buf[i].seq) < SeqDist(nextSeq, buf[j].seq)

(* What an unprimed buffer must keep so that priming it cannot wedge it.   *)
Gathering ==
  ~primed =>
    \A i, j \in 1 .. Len(buf) :
      /\ Near(buf[i].seq, buf[j].seq)
      /\ i < j => seqLess(buf[i].seq, buf[j].seq)

(* What Push, Pop and Reset keep up between them, whatever packets come:    *)
(* the shape of the buffer, its cap and the order that rules out a wedge,   *)
(* in inductive form.                                                       *)
JitterInv == TypeOK /\ Bounded /\ NoWedge /\ Gathering

(* A primed buffer is always left with a packet that can be played, an     *)
(* empty buffer, or a resynchronisation: losses are skipped in finitely    *)
(* many pops, also while new packets keep arriving.                        *)
NeverStarves == []<>(~primed \/ buf = << >> \/ Head(buf).seq = nextSeq)

(* A step may hand out or skip only the sequence number that is due: while *)
(* the buffer stays primed nextSeq moves by one and only Pop moves it, and *)
(* an accepted packet that is due next is never lost to the tail-drop.     *)
DueIsKept ==
  [][ (primed /\ primed' /\ buf # << >> /\ Head(buf).seq = nextSeq)
      => \/ buf' # << >> /\ Head(buf') = Head(buf) /\ nextSeq' = nextSeq
         \/ buf' = Tail(buf) /\ nextSeq' = SeqInc(nextSeq)
         \/ Len(buf') = 1 /\ nextSeq' = Head(buf').seq ]_jitterVars
=============================================================================
