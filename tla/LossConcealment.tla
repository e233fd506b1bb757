--------------------------- MODULE LossConcealment ---------------------------
(***************************************************************************)
(* The concealment half of the jitter buffer (pkg/rtp/jitter.go):          *)
(* GeneratePLC, OnGoodPacket and what Reset clears of it.  A frame of      *)
(* audio is represented by its peak amplitude and by the call leg it was   *)
(* made from; pitch detection only chooses which part of the last good     *)
(* frame is repeated, which leaves the peak no higher.                     *)
(***************************************************************************)
EXTENDS Integers

CONSTANTS
  Peak,      (* the loudest frame                                           *)
  Legs,      (* the call legs audio can come from                           *)
  NoFrame,   (* Go's nil slice                                              *)
  LossCap    (* consecutiveLoss is not told apart above this bound (>= 3)   *)

Frames == [leg : Legs, amp : 0 .. Peak]

ASSUME ConcealAssumption ==
  /\ Peak \in Nat
  /\ NoFrame \notin Frames
  /\ LossCap \in Nat /\ LossCap >= 3

VARIABLES
  consecutiveLoss,  (* j.consecutiveLoss                                    *)
  lastGoodFrame,    (* j.lastGoodFrame                                      *)
  prevPLC,          (* j.prevPLC                                            *)
  concealed         (* what the last call returned                         *)

plcVars == <<consecutiveLoss, lastGoodFrame, prevPLC, concealed>>

PLCTypeOK ==
  /\ consecutiveLoss \in 0 .. LossCap
  /\ lastGoodFrame \in Frames \cup {NoFrame}
  /\ prevPLC \in Frames \cup {NoFrame}
  /\ concealed \in Frames \cup {NoFrame}

PLCInit ==
  /\ consecutiveLoss = 0
  /\ lastGoodFrame = NoFrame
  /\ prevPLC = NoFrame
  /\ concealed = NoFrame

(* int16(float64(s) * 0.85): truncation toward zero. *)
Attenuate(frame) == [frame EXCEPT !.amp = (@ * 85) \div 100]

CountLoss == consecutiveLoss' = IF consecutiveLoss = LossCap THEN LossCap
                                ELSE consecutiveLoss + 1

(* No history yet: a frame of silence, of no leg in particular. *)
PLCSilence ==
  /\ lastGoodFrame = NoFrame
  /\ CountLoss
  /\ concealed' = NoFrame
  /\ UNCHANGED <<lastGoodFrame, prevPLC>>

(* Losses 1 and 2 repeat the end of the last good frame. *)
PLCSubstitute ==
  /\ lastGoodFrame # NoFrame
  /\ consecutiveLoss + 1 <= 2
  /\ CountLoss
  /\ concealed' = lastGoodFrame
  /\ prevPLC' = lastGoodFrame
  /\ UNCHANGED lastGoodFrame

(* Later losses fade from the frame generated before. *)
PLCFade ==
  /\ lastGoodFrame # NoFrame
  /\ consecutiveLoss + 1 > 2
  /\ CountLoss
  /\ LET src == IF prevPLC = NoFrame THEN lastGoodFrame ELSE prevPLC
     IN  concealed' = Attenuate(src) /\ prevPLC' = Attenuate(src)
  /\ UNCHANGED lastGoodFrame

GeneratePLC == PLCSilence \/ PLCSubstitute \/ PLCFade

OnGoodPacket(frame) ==
  /\ consecutiveLoss' = 0
  /\ prevPLC' = NoFrame
  /\ lastGoodFrame' = frame
  /\ concealed' = NoFrame

ResetPLC ==
  /\ consecutiveLoss' = 0
  /\ lastGoodFrame' = NoFrame
  /\ prevPLC' = NoFrame
  /\ concealed' = NoFrame

PLCNext ==
  \/ GeneratePLC
  \/ \E frame \in Frames : OnGoodPacket(frame)
  \/ ResetPLC

PLCSpec == PLCInit /\ [][PLCNext]_plcVars

(* Losses keep coming.  Good packets and resets may or may not.            *)
PLCFairness == WF_plcVars(GeneratePLC)

-----------------------------------------------------------------------------
(* Properties *)

(* "Each call to GeneratePLC produces strictly lower energy than the       *)
(* previous": within a burst no concealment frame is louder than the one   *)
(* before, and from the third on each is strictly quieter until silence.   *)
BurstOnlyFades ==
  [][ GeneratePLC /\ prevPLC # NoFrame =>
        /\ concealed'.amp <= prevPLC.amp
        /\ consecutiveLoss' >= 3 /\ prevPLC.amp > 0 =>
             concealed'.amp < prevPLC.amp ]_plcVars

(* A frame heard before a reset never sounds again after it: concealment   *)
(* is made only of the leg of the last good frame.                         *)
ConcealsCurrentLeg ==
  prevPLC # NoFrame => lastGoodFrame # NoFrame /\ prevPLC.leg = lastGoodFrame.leg

(* The fade starts from the good frame itself: what the first two losses   *)
(* of a burst repeat is the last good frame, at its own loudness.          *)
RepeatsLastGood ==
  (prevPLC # NoFrame /\ consecutiveLoss <= 2) => prevPLC = lastGoodFrame

(* An endless burst falls silent: if good packets and resets stop, the     *)
(* concealment of what follows is eventually silence for good.             *)
BurstEndsSilent ==
  <>[][GeneratePLC]_plcVars =>
    <>[](concealed = NoFrame \/ concealed.amp = 0)
=============================================================================
