---------------------------- MODULE AdaptiveVad ----------------------------
(***************************************************************************)
(* The self-calibrating voice activity detector (pkg/audio/vad.go): the    *)
(* audio goroutine classifies frames and resets on a new call, a           *)
(* controller changes the threshold in the middle of a call.               *)
(*                                                                         *)
(* A frame is its RMS energy.  The factors 4.5 and 1.5 are kept by         *)
(* comparing doubled values; the percentile is taken of a shorter window.  *)
(***************************************************************************)
EXTENDS Integers, Sequences, FiniteSets

CONSTANTS
  Energies,           (* RMS values of frames                               *)
  Thresholds,         (* values handed to SetThresholdRMS                   *)
  CalibrationFrames,  (* 50 in the code                                     *)
  HangoverFrames,     (* 8 in the code                                      *)
  InitialThreshold,   (* 300 in the code                                    *)
  SafetyFloor         (* 100 in the code                                    *)

ASSUME VadAssumption ==
  /\ Energies \subseteq Nat /\ Thresholds \subseteq Int
  /\ CalibrationFrames \in Nat \ {0} /\ HangoverFrames \in Nat
  /\ InitialThreshold \in Nat \ {0} /\ SafetyFloor \in Nat \ {0}

VARIABLES
  rmsWindow,     (* energies of the calibration frames                      *)
  calibrated,
  ThresholdRMS,  (* twice the field                                         *)
  override,      (* twice what SetThresholdRMS stored, 0 for none           *)
  hangover,
  verdict,       (* what IsSpeech answered last                             *)
  energy,        (* history: the frame it answered about                    *)
  sinceLoud      (* history: frames since a loud one, Long or more if never *)

vadVars == <<rmsWindow, calibrated, ThresholdRMS, override, hangover>>
historyVars == <<verdict, energy, sinceLoud>>
allVadVars == <<vadVars, historyVars>>

Long == HangoverFrames + 1

VadTypeOK ==
  /\ rmsWindow \in Seq(Energies) /\ Len(rmsWindow) <= CalibrationFrames
  /\ calibrated = (Len(rmsWindow) = CalibrationFrames)
  /\ ThresholdRMS \in Nat \ {0} /\ override \in Nat
  /\ hangover \in 0 .. HangoverFrames
  /\ verdict \in BOOLEAN /\ energy \in Energies \cup {0} /\ sinceLoud \in 0 .. Long

VadInit ==
  /\ rmsWindow = << >> /\ calibrated = FALSE
  /\ ThresholdRMS = 2 * InitialThreshold /\ override = 0
  /\ hangover = 0
  /\ verdict = FALSE /\ energy = 0 /\ sinceLoud = Long

-----------------------------------------------------------------------------
(* The element that would stand at place k, from 0, were w sorted. *)
Ranked(w, k) ==
  CHOOSE e \in {w[i] : i \in DOMAIN w} :
    /\ Cardinality({i \in DOMAIN w : w[i] < e}) <= k
    /\ k < Cardinality({i \in DOMAIN w : w[i] <= e})

(* Faulty: the loudest frames make the floor. *)
NoiseFloorLoudest(w) == Ranked(w, Len(w) - 1)

(* The 20th percentile. *)
NoiseFloor(w) == Ranked(w, Len(w) \div 5)

(* Twice the calibrated threshold: 4.5 times the floor, at least 100. *)
ComputeThreshold(w) ==
  IF 9 * NoiseFloor(w) < 2 * SafetyFloor THEN 2 * SafetyFloor ELSE 9 * NoiseFloor(w)

EffectiveThreshold == IF override = 0 THEN ThresholdRMS ELSE override

(* A frame half above the floor is speech whatever the threshold. *)
AboveMargin(rms) == 2 * rms >= 3 * NoiseFloor(rmsWindow)

Loud(rms) == AboveMargin(rms) \/ 2 * rms >= EffectiveThreshold

Calibrate(rms) ==
  /\ ~calibrated
  /\ rmsWindow' = Append(rmsWindow, rms)
  /\ calibrated' = (Len(rmsWindow') >= CalibrationFrames)
  /\ ThresholdRMS' = IF calibrated' THEN ComputeThreshold(rmsWindow') ELSE ThresholdRMS
  /\ verdict' = FALSE /\ energy' = rms
  /\ UNCHANGED <<override, hangover, sinceLoud>>

(* Faulty: the hangover is used up during speech. *)
ClassifyEarlyHangover(rms) ==
  /\ calibrated
  /\ verdict' = (Loud(rms) \/ hangover > 0)
  /\ hangover' = IF hangover > 0 THEN hangover - 1 ELSE IF Loud(rms) THEN HangoverFrames ELSE 0
  /\ sinceLoud' = IF Loud(rms) THEN 0 ELSE IF sinceLoud = Long THEN Long ELSE sinceLoud + 1
  /\ energy' = rms
  /\ UNCHANGED <<rmsWindow, calibrated, ThresholdRMS, override>>

(* IsSpeech once the floor is known. *)
Classify(rms) ==
  /\ calibrated
  /\ verdict' = (Loud(rms) \/ hangover > 0)
  /\ hangover' = IF Loud(rms) THEN HangoverFrames ELSE IF hangover > 0 THEN hangover - 1 ELSE 0
  /\ sinceLoud' = IF Loud(rms) THEN 0 ELSE IF sinceLoud = Long THEN Long ELSE sinceLoud + 1
  /\ energy' = rms
  /\ UNCHANGED <<rmsWindow, calibrated, ThresholdRMS, override>>

IsSpeech(rms) == Calibrate(rms) \/ Classify(rms)

SetThresholdRMS(threshold) ==
  /\ IF threshold <= 0
     THEN UNCHANGED <<ThresholdRMS, override>>
     ELSE ThresholdRMS' = 2 * threshold /\ override' = 2 * threshold
  /\ UNCHANGED <<rmsWindow, calibrated, hangover, historyVars>>

(* A new call: calibration starts over, the thresholds stay. *)
VadReset ==
  /\ rmsWindow' = << >> /\ calibrated' = FALSE /\ hangover' = 0
  /\ sinceLoud' = Long /\ verdict' = FALSE /\ energy' = 0
  /\ UNCHANGED <<ThresholdRMS, override>>

VadNext ==
  \/ \E rms \in Energies : IsSpeech(rms)
  \/ \E threshold \in Thresholds : SetThresholdRMS(threshold)
  \/ VadReset

VadSpec == VadInit /\ [][VadNext]_allVadVars

-----------------------------------------------------------------------------
(* Properties *)

(* Once calibrated, a frame is speech exactly if it or one of the          *)
(* HangoverFrames before it was loud when it came -- through threshold     *)
(* changes and new calls; no word end is clipped, no tail is longer.       *)
SpeechIffRecentlyLoud ==
  calibrated => (verdict <=> sinceLoud <= HangoverFrames)

(* "20th percentile ... to avoid office-noise bursts inflating the noise   *)
(* floor": the bursts that fill less than four fifths of the calibration   *)
(* window leave the floor at the steady noise.                             *)
BurstsDoNotRaiseFloor ==
  [][\A e \in Energies :
       (/\ ~calibrated /\ calibrated'
        /\ 5 * Cardinality({i \in DOMAIN rmsWindow' : rmsWindow'[i] <= e})
             > CalibrationFrames)
         => NoiseFloor(rmsWindow') <= e]_allVadVars

(* The hangover counts down from the last loud frame; a new calibration    *)
(* remembers none.                                                         *)
HangoverRunsOut ==
  /\ hangover = IF sinceLoud <= HangoverFrames THEN HangoverFrames - sinceLoud ELSE 0
  /\ ~calibrated => sinceLoud = Long /\ ~verdict

(* The detector through calibration, threshold changes and resets: its     *)
(* verdict is that of the last frames, and of nothing older.               *)
VadInv == VadTypeOK /\ SpeechIffRecentlyLoud /\ HangoverRunsOut
=============================================================================
