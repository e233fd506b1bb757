----------------------------- MODULE EvalBatch -----------------------------
(* The batch evaluation (pkg/eval/batch.go, metrics.go, report.go): Run     *)
(* hands the files to workers, as many as there are permits, until the      *)
(* context is cancelled; each decodes its file, feeds it to a pipeline of   *)
(* its own frame by frame, resets it and feeds it again for the SNR.  The   *)
(* suppressor is one for all pipelines, and Reset reaches it.  The results  *)
(* are aggregated into a summary, and the summary into a tuned              *)
(* configuration, here with the speech ratio and the latency in tenths.     *)
EXTENDS Integers, FiniteSets

CONSTANTS
  Total,        \* number of files
  MaxWorkers    \* cfg.Workers is at most this

ASSUME EvalAssumption == Total \in Nat /\ MaxWorkers \in Nat \ {0}

VARIABLES
  workers,      \* cfg.Workers
  nextFile,     \* the loop of Run
  evaluating,   \* where the goroutine of each file is
  results,      \* results[idx], "blank" until written
  doneCount,    \* as told to OnProgress
  evalCancelled,
  hears,        \* the files whose frames are in the suppressor's state
  clean,        \* history: files whose SNR was measured with none but their own in it
  summary

evalVars == <<workers, nextFile, evaluating, results, doneCount, evalCancelled, hears, clean, summary>>
runVars == <<workers, nextFile, doneCount, evalCancelled, summary>>

Idx == 1 .. Total
Running == {i \in Idx : evaluating[i] \notin {"waiting", "gone"}}
NoSummary == [processed |-> -1, failed |-> -1]

EvalTypeOK ==
  /\ workers \in 1 .. MaxWorkers /\ nextFile \in 1 .. Total + 1
  /\ evaluating \in [Idx -> {"waiting", "decode", "first", "reset", "second", "count", "gone"}]
  /\ results \in [Idx -> {"blank", "ok", "failed"}]
  /\ doneCount \in 0 .. Total /\ evalCancelled \in BOOLEAN
  /\ hears \subseteq Idx /\ clean \subseteq Idx
  /\ summary \in [processed : -1 .. Total, failed : -1 .. Total]

EvalInit ==
  /\ workers \in 1 .. MaxWorkers /\ nextFile = 1
  /\ evaluating = [i \in Idx |-> "waiting"] /\ results = [i \in Idx |-> "blank"]
  /\ doneCount = 0 /\ evalCancelled = FALSE
  /\ hears = {} /\ clean = {} /\ summary = NoSummary

-----------------------------------------------------------------------------
(* Run *)

(* The context is looked at before the permit is waited for, so a file may  *)
(* still be launched after the cancellation.                                *)
Launch ==
  /\ nextFile <= Total /\ Cardinality(Running) < workers
  /\ evaluating' = [evaluating EXCEPT ![nextFile] = "decode"] /\ nextFile' = nextFile + 1
  /\ UNCHANGED <<workers, results, doneCount, evalCancelled, hears, clean, summary>>

BreakLoop ==
  /\ nextFile <= Total /\ evalCancelled /\ nextFile' = Total + 1
  /\ UNCHANGED <<workers, evaluating, results, doneCount, evalCancelled, hears, clean, summary>>

CancelEval ==
  /\ ~evalCancelled /\ summary = NoSummary /\ evalCancelled' = TRUE
  /\ UNCHANGED <<workers, nextFile, evaluating, results, doneCount, hears, clean, summary>>

(* A file without an error counts as processed.                             *)
AggregateResults ==
  LET failed == {i \in Idx : results[i] = "failed"}
  IN  [processed |-> Total - Cardinality(failed), failed |-> Cardinality(failed)]

RunReturns ==
  /\ nextFile > Total /\ Running = {} /\ summary = NoSummary
  /\ summary' = AggregateResults
  /\ UNCHANGED <<workers, nextFile, evaluating, results, doneCount, evalCancelled, hears, clean>>

-----------------------------------------------------------------------------
(* evalFile *)

Goes(i, from, to) == evaluating[i] = from /\ evaluating' = [evaluating EXCEPT ![i] = to]

DecodeFile(i) ==
  Goes(i, "decode", "first") /\ UNCHANGED <<results, hears, clean, runVars>>

(* ffmpeg fails or is killed, the context is found cancelled between two    *)
(* frames, or a stage fails: of the second pass the error is dropped.       *)
EvalFails(i) ==
  /\ \/ Goes(i, "decode", "count")
     \/ Goes(i, "first", "count")
  /\ results' = [results EXCEPT ![i] = "failed"] /\ UNCHANGED <<hears, clean, runVars>>

EvalFrame(i) ==
  /\ evaluating[i] = "first" /\ ~evalCancelled /\ i \notin hears /\ hears' = hears \cup {i}
  /\ UNCHANGED <<evaluating, results, clean, runVars>>

FirstPassDone(i) ==
  Goes(i, "first", "reset") /\ UNCHANGED <<results, hears, clean, runVars>>

\* Mutant of ResetPipeline: the second pass runs on as the first has left things.
ResetPipelineNot(i) ==
  Goes(i, "reset", "second") /\ UNCHANGED <<results, hears, clean, runVars>>

(* Everybody's frames are forgotten.                                        *)
ResetPipeline(i) ==
  Goes(i, "reset", "second") /\ hears' = {} /\ UNCHANGED <<results, clean, runVars>>

(* The whole file in one call of ProcessFrames, then the SNR.               *)
SecondPass(i) ==
  /\ Goes(i, "second", "count") /\ hears' = hears \cup {i}
  /\ results' = [results EXCEPT ![i] = "ok"]
  /\ clean' = IF hears \subseteq {i} THEN clean \cup {i} ELSE clean
  /\ UNCHANGED runVars

CountDone(i) ==
  /\ Goes(i, "count", "gone") /\ doneCount' = doneCount + 1
  /\ UNCHANGED <<workers, nextFile, results, evalCancelled, hears, clean, summary>>

EvalNext ==
  \/ Launch \/ BreakLoop \/ CancelEval \/ RunReturns
  \/ \E i \in Idx : \/ DecodeFile(i) \/ EvalFails(i) \/ EvalFrame(i) \/ FirstPassDone(i)
                    \/ ResetPipeline(i) \/ SecondPass(i) \/ CountDone(i)

EvalSpec == EvalInit /\ [][EvalNext]_evalVars

-----------------------------------------------------------------------------
(* TuneFromBatchSummary *)

Aggressiveness(snr, p95) ==
  LET agg == IF snr < 2 THEN 3 ELSE IF snr > 10 THEN 1 ELSE 2
  IN  IF p95 > 8 /\ agg > 1 THEN agg - 1 ELSE agg

JitterDepthFrames(p95) ==
  LET depth == (2 * p95) \div 10 + 2 IN IF depth > 16 THEN 16 ELSE depth

VADThreshold(speechTenths) == IF speechTenths > 8 THEN 15 ELSE IF speechTenths < 4 THEN 35 ELSE 25

-----------------------------------------------------------------------------
(* Properties *)

(* The summary tells how the files fared: each is counted once, the failed  *)
(* ones are those with an error, and the processed ones those measured,     *)
(* unless the batch was cancelled: files never begun then pass as processed.*)
SummaryHonest ==
  summary # NoSummary =>
    LET measured == Cardinality({i \in Idx : results[i] = "ok"})
        unbegun == Cardinality({i \in Idx : evaluating[i] = "waiting"})
    IN  /\ summary.processed + summary.failed = Total
        /\ summary.processed = measured + unbegun
        /\ doneCount = Total - unbegun
        /\ ~evalCancelled => unbegun = 0

(* With one worker no file is measured with another's sound still in the    *)
(* suppressor, whatever came before it and however that ended.  With more   *)
(* it may be.                                                               *)
MeasuredAlone == workers = 1 => \A i \in Idx : results[i] = "ok" => i \in clean

(* Worse figures never ask for more: a longer tail never for a more         *)
(* aggressive suppressor or a shallower buffer, and a better SNR never for  *)
(* more suppression; all within the ranges the sessions take.               *)
TuningMonotone ==
  \A snr \in -1 .. 11, p95 \in {0, 4, 8, 9, 50, 100} :
    /\ Aggressiveness(snr, p95) \in 1 .. 3 /\ JitterDepthFrames(p95) \in 2 .. 16
    /\ \A worse \in {9, 50, 100} :
         worse >= p95 => /\ Aggressiveness(snr, worse) <= Aggressiveness(snr, p95)
                         /\ JitterDepthFrames(worse) >= JitterDepthFrames(p95)
    /\ Aggressiveness(snr + 1, p95) <= Aggressiveness(snr, p95)
    /\ \A t \in 0 .. 9 : VADThreshold(t + 1) <= VADThreshold(t)

(* Files are begun in their order, and none is passed over but by breaking  *)
(* off; a file has its result when its goroutine is about to end, and is    *)
(* counted as it ends; no more run than there are permits, and none after   *)
(* the summary.                                                             *)
FilesInOrder ==
  /\ \A i \in Idx : i >= nextFile => evaluating[i] = "waiting"
  /\ ~evalCancelled => \A i \in Idx : evaluating[i] = "waiting" => i >= nextFile
  /\ \A i \in Idx : results[i] # "blank" <=> evaluating[i] \in {"count", "gone"}
  /\ doneCount = Cardinality({i \in Idx : evaluating[i] = "gone"})
  /\ Cardinality(Running) <= workers
  /\ summary # NoSummary => nextFile > Total /\ Running = {}

(* With one worker, what the suppressor holds during a second pass is the   *)
(* file's own.                                                              *)
OwnSound == workers = 1 => \A i \in Idx : evaluating[i] = "second" => hears \subseteq {i}

EvalInv ==
  EvalTypeOK /\ SummaryHonest /\ MeasuredAlone /\ TuningMonotone /\ FilesInOrder /\ OwnSound
=============================================================================
