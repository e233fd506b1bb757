---------------------------- MODULE MCAudioParts ----------------------------
(* The parts that share no state and wait for nobody: of the audio path,    *)
(* its evaluation, the meter and the HTTP API.  Each behaviour is about one *)
(* of them, its subject, and the others stand still.                        *)
(*                                                                          *)
(* Pipeline: input frames of two units, the frame of Flush four, as at      *)
(* 8 kHz.  VAD: energies below, at and above half and the whole of each     *)
(* threshold, and a window of five frames, whose 20th percentile is the     *)
(* second lowest.  Levels: silence, below and above target, the borders of  *)
(* the soft limit and of full scale.  Resampler: filters shorter than a     *)
(* frame, as in the code, buffers shorter and longer than both together,    *)
(* and besides the usual rates one, 12050, at which a frame comes out short.*)
(* Transcripts: repeated tokens, so that the longest match is ambiguous.    *)
(* Meter: a pulse of two units and a clock that jumps by up to five.        *)
EXTENDS AdaptiveVad, AudioPipeline, AgentStream, LevelControl, Diarizer, StreamResampler,
        EvalBatch, TranscriptScorer, SessionMeter, HttpApi

VARIABLE subject

MCThresholds == {-1, 3, 8}
MCTargets == {-2, 0, 3, 4}
MCAttackMs == -1
MCPcm == {-4, -3, -1, 0, 1, 2, 3}
MCTexts == { << >>, <<1, 2>>, <<2, 1, 2>>, <<3, 2, 1>>, <<1, 1, 2, 1>> }

soundVars == <<allVadVars, pipelineVars, agentVars, levelVars>>
computedVars == <<resamplerVars, evalVars, scorerVars>>
servedVars == <<meterVars, httpVars>>
partsVars == <<subject, soundVars, diarVars, computedVars, servedVars>>

PartsInit ==
  /\ subject \in {"vad", "pipeline", "agent", "level", "diarizer", "resampler", "eval",
                  "scorer", "meter", "http"}
  /\ VadInit /\ PipelineInit /\ AgentInit /\ LevelInit /\ NewDiarizer /\ ResamplerInit
  /\ EvalInit /\ ScorerInit /\ NewSessionMeter /\ HttpInit
  /\ subject # "meter" => wallClock = 0
  /\ wideband \/ ~suppressor => subject = "pipeline"
  /\ workers > 1 => subject = "eval"
  /\ endpoint => subject = "scorer"

VadOnly == UNCHANGED <<pipelineVars, agentVars, levelVars, diarVars, computedVars, servedVars>>
PipelineOnly == UNCHANGED <<allVadVars, agentVars, levelVars, diarVars, computedVars, servedVars>>
AgentOnly == UNCHANGED <<allVadVars, pipelineVars, levelVars, diarVars, computedVars, servedVars>>
LevelOnly == UNCHANGED <<allVadVars, pipelineVars, agentVars, diarVars, computedVars, servedVars>>
DiarOnly == UNCHANGED <<soundVars, computedVars, servedVars>>
ResamplerOnly == UNCHANGED <<soundVars, diarVars, evalVars, scorerVars, servedVars>>
EvalOnly == UNCHANGED <<soundVars, diarVars, resamplerVars, scorerVars, servedVars>>
ScorerOnly == UNCHANGED <<soundVars, diarVars, resamplerVars, evalVars, servedVars>>
MeterOnly == UNCHANGED <<soundVars, diarVars, computedVars, httpVars>>
HttpOnly == UNCHANGED <<soundVars, diarVars, computedVars, meterVars>>

PartsNext ==
  /\ UNCHANGED subject
  /\ \/ subject = "vad" /\ VadNext /\ VadOnly
     \/ subject = "pipeline" /\ PipelineNext /\ PipelineOnly
     \/ subject = "agent" /\ AgentNext /\ AgentOnly
     \/ subject = "level" /\ LevelNext /\ LevelOnly
     \/ subject = "diarizer" /\ DiarNext /\ DiarOnly
     \/ subject = "resampler" /\ ResamplerNext /\ ResamplerOnly
     \/ subject = "eval" /\ EvalNext /\ EvalOnly
     \/ subject = "scorer" /\ ScorerNext /\ ScorerOnly
     \/ subject = "meter" /\ MeterNext /\ MeterOnly
     \/ subject = "http" /\ HttpNext /\ HttpOnly

PartsSpec == PartsInit /\ [][PartsNext]_partsVars

(* What the parts with the larger invariants promise, where they move.      *)
ResamplingInv == subject = "resampler" => ResamplerInv
EvaluationInv == (subject = "eval" => EvalInv) /\ (subject = "scorer" => ScorerInv)
=============================================================================
