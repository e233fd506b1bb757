---------------------------- MODULE LevelControl ----------------------------
(* The level of a stream: the tier of noise reduction chosen by the SNR     *)
(* (pkg/audio/tiered_nr.go), the automatic gain (agc.go) and the peak       *)
(* limiter after it (limiter.go), with the controls that change them        *)
(* between frames.                                                          *)
(*                                                                          *)
(* A frame is one sample, its RMS and its peak its level, in thousands, the *)
(* full scale 32.  Gains are in quarters, the gain a level asks for rounded *)
(* up, as it is never 0.  The floating-point smoothing of gain and envelope *)
(* is a fixed share of the way, at least one unit; the tanh of the soft     *)
(* limit is a curve with its values at the threshold, 28, and at infinity,  *)
(* 28 / tanh(1) = 36.  The least noise floor is one unit.  The suppressors  *)
(* of the tiers are left out.                                               *)
EXTENDS Integers

CONSTANTS
  Levels,       \* levels of the input
  MaxGain,      \* cfg.MaxGain, in quarters
  AttackMs,     \* as configured, maybe not positive
  Targets       \* values given to SetAGCTarget, maybe not positive

ASSUME LevelAssumption ==
  Levels \subseteq 0 .. 33 /\ MaxGain \in Nat \ {0} /\ AttackMs \in Int /\ Targets \subseteq Int

VARIABLES
  targetRMS, currentGain, targetGain,   \* of the AGC
  peak,                                 \* the limiter's envelope
  noiseFloor, lowSNR, highSNR,          \* of the tiered reducer, as ratios
  tier, gained, limited, input          \* history: what became of the last frame

levelVars == <<targetRMS, currentGain, targetGain, peak, noiseFloor, lowSNR, highSNR,
               tier, gained, limited, input>>
gainVars == <<targetRMS, currentGain, targetGain>>
lastVars == <<tier, gained, limited, input>>

Unity == 4
FullScale == 32
SoftLimitThreshold == 28
Threshold == 28

Lesser(a, b) == IF a < b THEN a ELSE b
Greater(a, b) == IF a < b THEN b ELSE a

LevelTypeOK ==
  /\ targetRMS \in Nat \ {0}
  /\ currentGain \in Nat /\ targetGain \in Nat
  /\ peak \in 0 .. FullScale + 1 /\ noiseFloor \in 1 .. FullScale + 1
  /\ lowSNR \in Nat /\ highSNR \in Nat
  /\ tier \in {"none", "gate", "rnnoise", "deepfilter"}
  /\ gained \in 0 .. FullScale + 1 /\ limited \in 0 .. FullScale + 1 /\ input \in 0 .. FullScale + 1

LevelInit ==
  /\ targetRMS = 3 /\ currentGain = Unity /\ targetGain = Unity
  /\ peak = 0 /\ noiseFloor = 1 /\ lowSNR = 3 /\ highSNR = 18
  /\ tier = "none" /\ gained = 0 /\ limited = 0 /\ input = 0

-----------------------------------------------------------------------------
(* AGC *)

(* The share of the way a rising gain takes, from the smoothing coefficient *)
(* exp(-1/time): a time of 0 makes it 0 and the gain jumps, a negative time *)
(* makes it more than 1 and the gain moves away from its target.            *)
AttackShareRaw == IF AttackMs > 0 THEN 2 ELSE IF AttackMs = 0 THEN 1 ELSE -1

\* Mutant of AttackShare: the configured time is used as it is.
AttackShareUnchecked == AttackShareRaw

(* NewAGC: times that are not positive are replaced by the default.         *)
AttackShare == IF AttackMs <= 0 THEN 2 ELSE AttackShareRaw

(* The cap on the gain: none for a loud input, less for a fairly loud one.  *)
effectiveMaxGain(level) ==
  IF level > 29 THEN Unity
  ELSE IF level > 23 THEN (MaxGain * (30 - level) + Unity * (level - 23)) \div 7
  ELSE MaxGain

(* Near silence the target is held.                                         *)
DesiredGain(level) ==
  IF level = 0 THEN targetGain
  ELSE Lesser((targetRMS * Unity + level - 1) \div level, effectiveMaxGain(level))

Smoothed(from, to) ==
  IF to > from THEN from + (to - from + AttackShare - 1) \div AttackShare
  ELSE from - (from - to + 7) \div 8

softLimit(val) ==
  IF val <= SoftLimitThreshold THEN val
  ELSE SoftLimitThreshold + (8 * (val - SoftLimitThreshold)) \div (val - SoftLimitThreshold + 10)

Gained(level, gain) == Lesser(softLimit((level * gain) \div Unity), FullScale)

(* SetAGCTarget: values that would mute or invert are ignored.              *)
SetTargetRMS(t) ==
  /\ t > 0 /\ targetRMS' = t
  /\ UNCHANGED <<currentGain, targetGain, peak, noiseFloor, lowSNR, highSNR, lastVars>>

-----------------------------------------------------------------------------
(* Limiter and tiers *)

Envelope(level) == Greater((peak * 7) \div 8, level)

(* The gain reduction of an envelope above the threshold.                   *)
Limited(level, env) == IF env > Threshold THEN (level * Threshold) \div env ELSE level

(* Quiet frames move the noise floor.                                       *)
Floor(rms) ==
  IF rms < 3 * noiseFloor
  THEN Greater(1, IF rms > noiseFloor THEN noiseFloor + 1
                  ELSE IF rms < noiseFloor THEN noiseFloor - 1 ELSE noiseFloor)
  ELSE noiseFloor

Tier(rms, floor) ==
  IF rms > highSNR * floor THEN "gate" ELSE IF rms < lowSNR * floor THEN "deepfilter" ELSE "rnnoise"

(* Reconfigure, of the tiers.                                               *)
SetThresholds(low, high) ==
  /\ lowSNR' = low /\ highSNR' = high
  /\ UNCHANGED <<gainVars, peak, noiseFloor, lastVars>>

-----------------------------------------------------------------------------
(* A frame goes through the tiers, the gain and the limiter.                *)
ProcessLevel(level) ==
  LET rms == Greater(1, level)
      out == Gained(level, currentGain')
  IN  /\ noiseFloor' = Floor(rms) /\ tier' = Tier(rms, Floor(rms))
      /\ targetGain' = DesiredGain(level)
      /\ currentGain' = Smoothed(currentGain, targetGain')
      /\ gained' = out /\ peak' = Envelope(out) /\ limited' = Limited(out, Envelope(out))
      /\ input' = level
      /\ UNCHANGED <<targetRMS, lowSNR, highSNR>>

(* Reset of all three; the target and the thresholds stay.                  *)
ResetLevels ==
  /\ currentGain' = Unity /\ targetGain' = Unity /\ peak' = 0 /\ noiseFloor' = 1
  /\ UNCHANGED <<targetRMS, lowSNR, highSNR, lastVars>>

LevelNext ==
  \/ \E l \in Levels : ProcessLevel(l)
  \/ \E t \in Targets : SetTargetRMS(t)
  \/ SetThresholds(2, 10) \/ ResetLevels

LevelSpec == LevelInit /\ [][LevelNext]_levelVars

-----------------------------------------------------------------------------
(* Properties *)

(* Whatever is configured, said to SetAGCTarget or heard, the gain neither  *)
(* runs away nor mutes or inverts the audio: it is positive, and at most    *)
(* the larger of unity and MaxGain.                                         *)
GainBounded ==
  \A gain \in {currentGain, targetGain} : 1 <= gain /\ gain <= Greater(Unity, MaxGain)

(* What leaves the limiter is within its ceiling, also on the first sample  *)
(* of a burst and with the gain of the silence before it; the soft limit of *)
(* the gain alone is not.                                                   *)
WithinCeiling == limited <= Threshold /\ limited <= gained

LevelInv == LevelTypeOK /\ GainBounded /\ WithinCeiling
=============================================================================
