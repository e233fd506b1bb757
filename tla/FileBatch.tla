------------------------------ MODULE FileBatch ------------------------------
(***************************************************************************)
(* ProcessDir and ProcessDirFull of pkg/file, with SkipExisting: a batch   *)
(* lists a directory, skips what it takes for already processed, and runs  *)
(* the rest in goroutines behind a semaphore.  Each one decodes its source *)
(* (FileDecode has the details), encodes into a temporary file next to the *)
(* destination and renames it onto the destination only on full success.   *)
(* ffmpeg fails, the context is cancelled, the process dies and the batch  *)
(* is run again over what it left.                                         *)
(*                                                                         *)
(* A source is a version and a modification time; an encoded file is the   *)
(* version it was made from, its modification time and whether it is       *)
(* whole.  Time is a clock that every replacement of a source advances.    *)
(***************************************************************************)
EXTENDS Naturals, FiniteSets

CONSTANTS Files, Workers,
          MaxVersion,   \* bound: versions of a source
          MaxRuns       \* bound: batches

ASSUME BatchAssumption ==
    /\ IsFiniteSet(Files) /\ Workers \in Nat \ {0}
    /\ MaxVersion \in Nat \ {0} /\ MaxRuns \in Nat

VARIABLES
    clock,
    src,        \* [Files -> version and mtime]
    dst,        \* [Files -> encoded file or Missing]
    tmp,        \* [Files -> the temporary file of the attempt, or Missing]
    orphans,    \* files whose temporary file outlived its process
    job,        \* [Files -> where the goroutine of the file is]
    reading,    \* [Files -> version the attempt decoded]
    batch,      \* "idle" or "running"
    batchCancelled, runs

batchVars == <<clock, src, dst, tmp, orphans, job, reading, batch, batchCancelled, runs>>

Versions == 1 .. MaxVersion
Times == Nat
Encoded == [version : Versions, mtime : Times, whole : BOOLEAN]
Missing == [version |-> 0, mtime |-> 0, whole |-> FALSE]

Working == {"decoding", "decoded", "writing", "written"}
Jobs == Working \cup {"none", "skipped", "queued", "ok", "error"}
Active == {f \in Files : job[f] \in Working}

BatchTypeOK ==
    /\ clock \in Times
    /\ src \in [Files -> [version : Versions, mtime : Times]]
    /\ dst \in [Files -> Encoded \cup {Missing}]
    /\ tmp \in [Files -> Encoded \cup {Missing}]
    /\ orphans \subseteq Files
    /\ job \in [Files -> Jobs]
    /\ reading \in [Files -> Versions \cup {0}]
    /\ batch \in {"idle", "running"} /\ batchCancelled \in BOOLEAN
    /\ runs \in 0 .. MaxRuns
    /\ Cardinality(Active) <= Workers

\* A directory of sources nobody has processed yet.
BatchInit ==
    /\ clock = 0
    /\ src = [f \in Files |-> [version |-> 1, mtime |-> 0]]
    /\ dst = [f \in Files |-> Missing] /\ tmp = [f \in Files |-> Missing]
    /\ orphans = {} /\ job = [f \in Files |-> "none"]
    /\ reading = [f \in Files |-> 0]
    /\ batch = "idle" /\ batchCancelled = FALSE /\ runs = 0

\* Mutant of isAlreadyProcessed: a destination that exists will do.
alreadyThere(f) == dst[f] # Missing

isAlreadyProcessed(f) ==
    dst[f] # Missing /\ dst[f].mtime >= src[f].mtime

\* The owner of the directory replaces a source; not while a batch is running.
Replace(f) ==
    /\ batch = "idle" /\ src[f].version < MaxVersion
    /\ clock' = clock + 1
    /\ src' = [src EXCEPT ![f] = [version |-> @.version + 1, mtime |-> clock']]
    /\ UNCHANGED <<dst, tmp, orphans, job, reading, batch, batchCancelled, runs>>

\* ProcessDir lists the directory and starts one goroutine per file it keeps.
ProcessDir ==
    /\ batch = "idle" /\ runs < MaxRuns
    /\ batch' = "running" /\ runs' = runs + 1 /\ batchCancelled' = FALSE
    /\ job' = [f \in Files |-> IF isAlreadyProcessed(f) THEN "skipped" ELSE "queued"]
    /\ reading' = [f \in Files |-> 0]
    /\ UNCHANGED <<clock, src, dst, tmp, orphans>>

\* The context of the batch is cancelled.
CancelBatch ==
    /\ batch = "running" /\ ~batchCancelled /\ batchCancelled' = TRUE
    /\ UNCHANGED <<clock, src, dst, tmp, orphans, job, reading, batch, runs>>

Enter(f, where) == job' = [job EXCEPT ![f] = where]

\* A goroutine takes a slot; a cancelled one gives it back at once with ctx.Err().
AcquireSlot(f) ==
    /\ job[f] = "queued" /\ Cardinality(Active) < Workers
    /\ IF batchCancelled THEN Enter(f, "error") ELSE Enter(f, "decoding")
    /\ UNCHANGED <<clock, src, dst, tmp, orphans, reading, batch, batchCancelled, runs>>

\* decodeAndSuppress succeeds, with the source as ffmpeg read it.
Decode(f) ==
    /\ job[f] = "decoding" /\ ~batchCancelled
    /\ reading' = [reading EXCEPT ![f] = src[f].version]
    /\ Enter(f, "decoded")
    /\ UNCHANGED <<clock, src, dst, tmp, orphans, batch, batchCancelled, runs>>

\* The probe, the decode or the normalisation fails or is killed.
DecodeFails(f) ==
    /\ job[f] \in {"decoding", "decoded"} /\ Enter(f, "error")
    /\ UNCHANGED <<clock, src, dst, tmp, orphans, reading, batch, batchCancelled, runs>>

\* ffmpeg starts the encode and opens the temporary file.
EncodeStart(f) ==
    /\ job[f] = "decoded" /\ ~batchCancelled
    /\ tmp' = [tmp EXCEPT ![f] =
                  [version |-> reading[f], mtime |-> clock, whole |-> FALSE]]
    /\ Enter(f, "writing")
    /\ UNCHANGED <<clock, src, dst, orphans, reading, batch, batchCancelled, runs>>

\* cmd.Wait() without an error: the temporary file is whole.
EncodeDone(f) ==
    /\ job[f] = "writing"
    /\ tmp' = [tmp EXCEPT ![f] = [version |-> @.version, mtime |-> clock, whole |-> TRUE]]
    /\ Enter(f, "written")
    /\ UNCHANGED <<clock, src, dst, orphans, reading, batch, batchCancelled, runs>>

\* The encode fails or is killed, or the rename fails: the temporary file goes.
EncodeFails(f) ==
    /\ job[f] \in {"writing", "written"}
    /\ tmp' = [tmp EXCEPT ![f] = Missing]
    /\ Enter(f, "error")
    /\ UNCHANGED <<clock, src, dst, orphans, reading, batch, batchCancelled, runs>>

\* Mutant of Promote: the error of cmd.Wait() is not looked at.
PromoteUnchecked(f) ==
    /\ job[f] \in {"writing", "written"}
    /\ dst' = [dst EXCEPT ![f] = tmp[f]] /\ tmp' = [tmp EXCEPT ![f] = Missing]
    /\ Enter(f, "ok")
    /\ UNCHANGED <<clock, src, orphans, reading, batch, batchCancelled, runs>>

\* os.Rename(tmpDst, dst); the context is not looked at again.
Promote(f) ==
    /\ job[f] = "written"
    /\ dst' = [dst EXCEPT ![f] = tmp[f]] /\ tmp' = [tmp EXCEPT ![f] = Missing]
    /\ Enter(f, "ok")
    /\ UNCHANGED <<clock, src, orphans, reading, batch, batchCancelled, runs>>

\* wg.Wait() returns.
BatchReturns ==
    /\ batch = "running"
    /\ \A f \in Files : job[f] \in {"skipped", "ok", "error"}
    /\ batch' = "idle"
    /\ UNCHANGED <<clock, src, dst, tmp, orphans, job, reading, batchCancelled, runs>>

\* The process dies; whatever temporary files it had stay on disk.
ProcessDies ==
    /\ batch = "running" /\ batch' = "idle"
    /\ orphans' = orphans \cup {f \in Files : tmp[f] # Missing}
    /\ tmp' = [f \in Files |-> Missing] /\ job' = [f \in Files |-> "none"]
    /\ UNCHANGED <<clock, src, dst, reading, batchCancelled, runs>>

BatchNext ==
    \/ ProcessDir \/ CancelBatch \/ BatchReturns \/ ProcessDies
    \/ \E f \in Files :
         \/ Replace(f) \/ AcquireSlot(f) \/ Decode(f) \/ DecodeFails(f)
         \/ EncodeStart(f) \/ EncodeDone(f) \/ EncodeFails(f) \/ Promote(f)

BatchSpec == BatchInit /\ [][BatchNext]_batchVars

\* A goroutine that can go on does: ffmpeg ends, one way or the other
\* (FileDecode), and the semaphore is handed on.
BatchFairness ==
    /\ WF_batchVars(BatchReturns)
    /\ \A f \in Files :
         /\ SF_batchVars(AcquireSlot(f))
         /\ WF_batchVars(Decode(f) \/ DecodeFails(f) \/ EncodeStart(f))
         /\ WF_batchVars(EncodeDone(f) \/ EncodeFails(f) \/ Promote(f))

-----------------------------------------------------------------------------
Current(f) == dst[f].whole /\ dst[f].version = src[f].version

\* Whatever fails, is cancelled or dies, a destination is a whole encode or is
\* not there: the half-written file never carries its name.
DestinationWhole == \A f \in Files : dst[f] # Missing => dst[f].whole

\* A file reported without an error has a destination made from its source.
SuccessIsCurrent ==
    batch = "running" => \A f \in Files : job[f] = "ok" => Current(f)

\* A failed attempt leaves the destination of an earlier run as it was, and
\* a temporary file is left behind only by a process that died.
FailureLeavesNoTrace ==
    [][\A f \in Files :
         /\ dst'[f] # dst[f] => job'[f] = "ok"
         /\ job'[f] = "error" => tmp'[f] = Missing
         /\ f \in orphans' \ orphans => batch = "running" /\ job'[f] = "none"]_batchVars

\* A batch run again takes up exactly the files that are not up to date.
RerunTakesTheRest ==
    [][batch = "idle" /\ batch' = "running" =>
         \A f \in Files : job'[f] = "queued" <=> ~Current(f)]_batchVars

\* Destinations tell the truth: a failed file leaves nothing behind, and a
\* later run processes what an earlier one did not.
DestinationsTrue == FailureLeavesNoTrace /\ RerunTakesTheRest

\* Every batch returns, cancelled or not, unless the process dies.
BatchEnds == batch = "running" ~> batch = "idle"

\* Only an attempt under way has a temporary file, made from the source as it
\* is now; the attempt is known to be whole before the rename.
AttemptsSound ==
    \A f \in Files :
      /\ job[f] \in Working \cup {"queued"} => batch = "running"
      /\ job[f] \in {"decoded", "writing", "written"} => reading[f] = src[f].version
      /\ IF job[f] \in {"writing", "written"}
         THEN /\ tmp[f].version = src[f].version
              /\ src[f].mtime <= tmp[f].mtime /\ tmp[f].mtime <= clock
         ELSE tmp[f] = Missing
      /\ job[f] = "written" => tmp[f].whole

\* Modification times tell a current destination from an old one: what
\* isAlreadyProcessed compares decides whether the source was replaced.
TimesTell ==
    \A f \in Files :
      /\ src[f].mtime <= clock
      /\ dst[f] # Missing =>
           /\ dst[f].version <= src[f].version /\ dst[f].mtime <= clock
           /\ dst[f].version = src[f].version <=> src[f].mtime <= dst[f].mtime

\* What a batch leaves on disk, wherever it is interrupted: whole files, made
\* from their sources where it says so.
BatchInv ==
    BatchTypeOK /\ AttemptsSound /\ TimesTell /\ DestinationWhole /\ SuccessIsCurrent
=============================================================================
