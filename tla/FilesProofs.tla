---------------------------- MODULE FilesProofs -----------------------------
(***************************************************************************)
(* Proofs about the parts that work on files: the decode pipeline, the batch*)
(* processor and the billing log.                                           *)
(***************************************************************************)
EXTENDS FileDecode, FileBatch, BillingWAL, FiniteSetTheorems, TLAPS

-----------------------------------------------------------------------------
(* FileDecode.                                                              *)

(* What is inductive of DecodeInv; the promises follow from it.             *)
DecodeIInv == DecodeTypeOK /\ Unlost /\ InTurn

LEMMA DecodePromises == DecodeIInv => DecodeInv
<1> USE DEF DecodeIInv, DecodeTypeOK, Unlost, InTurn
<1> SUFFICES ASSUME DecodeIInv PROVE DecodeInv
  OBVIOUS
<1>1. ASSUME result = "ok" PROVE kept = Chunks /\ clean
  <2>1. ~failed /\ clean /\ relay = "done"
    BY <1>1
  <2>2. outLeft = 0 /\ outPipe = 0 /\ outLeft + outPipe + 0 + kept = Chunks
    BY <2>1
  <2> QED
    BY <2>1, <2>2, DecodeAssumption
<1>2. LogIsWhole /\ NobodyLeft
  BY DEF LogIsWhole, NobodyLeft
<1> QED
  BY <1>1, <1>2 DEF DecodeInv, SuccessIsWhole

LEMMA DecodeInitInv == DecodeInit => DecodeIInv
<1> SUFFICES ASSUME DecodeInit PROVE DecodeIInv
  OBVIOUS
<1>1. DecodeTypeOK
  <2>1. errPipe \in Seq(Text) /\ Len(errPipe) <= PipeCap /\ outLeft \in 0 .. Chunks
        /\ outPipe \in 0 .. PipeCap /\ errLeft \in 0 .. Reports /\ kept \in 0 .. Chunks
        /\ line \in 0 .. LineCap
    BY DecodeAssumption DEF DecodeInit
  <2> QED
    BY <2>1 DEF DecodeInit, DecodeTypeOK
<1>2. Unlost /\ InTurn
  BY DecodeAssumption DEF DecodeInit, Unlost, InTurn
<1> QED
  BY <1>1, <1>2 DEF DecodeIInv

(* ffmpeg, which writes while it runs and what nobody takes back.           *)
LEMMA FfmpegKeepsInv ==
  ASSUME DecodeIInv,
         WritePCM \/ WriteLog \/ Turn \/ Finish \/ FfmpegFails \/ ChildExits
  PROVE  DecodeIInv'
<1> USE DecodeAssumption
        DEF childVars, pipeVars, readVars, scanVars, callVars, WritersGone,
            DecodeIInv, DecodeTypeOK, Text, Unlost, InTurn
<1>1. CASE WritePCM
  BY <1>1 DEF WritePCM
<1>2. CASE WriteLog
  <2>1. PICK t \in Text : errPipe' = Append(errPipe, t)
    BY <1>2 DEF WriteLog
  <2>2. errPipe' \in Seq(Text) /\ Len(errPipe') = Len(errPipe) + 1 /\ Len(errPipe) \in Nat
    BY <2>1
  <2> QED
    BY <1>2, <2>2 DEF WriteLog
<1>3. CASE Turn
  BY <1>3 DEF Turn
<1>4. CASE Finish
  BY <1>4 DEF Finish
<1>5. CASE FfmpegFails
  BY <1>5 DEF FfmpegFails
<1>6. CASE ChildExits
  BY <1>6, ZenonT(30) DEF ChildExits
<1> QED
  BY <1>1, <1>2, <1>3, <1>4, <1>5, <1>6

(* A cancellation, and the kills it leads to.                               *)
LEMMA CancelKeepsInv ==
  ASSUME DecodeIInv, CancelDecode \/ KillProcess \/ KillProcessGroup
  PROVE  DecodeIInv'
<1> USE DEF childVars, pipeVars, readVars, scanVars, callVars, WritersGone,
            DecodeIInv, DecodeTypeOK, Text, Unlost, InTurn
<1>1. CASE CancelDecode
  BY <1>1 DEF CancelDecode
<1>2. CASE KillProcess
  BY <1>2 DEF KillProcess
<1>3. CASE KillProcessGroup
  BY <1>3 DEF KillProcessGroup
<1> QED
  BY <1>1, <1>2, <1>3

(* The copy goroutine and the reader hand a unit on; the scanner takes the  *)
(* log out of its pipe.                                                     *)
LEMMA GoroutinesKeepInv ==
  ASSUME DecodeIInv, Relay \/ ReadPCM \/ ReadEOF \/ ScanText \/ ScanEOF
  PROVE  DecodeIInv'
<1> USE DecodeAssumption
        DEF childVars, pipeVars, readVars, scanVars, callVars, WritersGone,
            DecodeIInv, DecodeTypeOK, Text, Unlost, InTurn
<1>1. CASE Relay
  BY <1>1, SMTT(30) DEF Relay
<1>2. CASE ReadPCM
  <2>1. CASE ~failed /\ kept' = kept + 1 /\ UNCHANGED failed
    <3>1. outLeft + outPipe + 1 + kept = Chunks /\ kept' \in 0 .. Chunks
      BY <1>2, <2>1 DEF ReadPCM
    <3> QED
      BY <1>2, <2>1, <3>1 DEF ReadPCM
  <2>2. CASE failed' = TRUE /\ UNCHANGED kept
    BY <1>2, <2>2 DEF ReadPCM
  <2>3. CASE failed /\ UNCHANGED <<failed, kept>>
    BY <1>2, <2>3 DEF ReadPCM
  <2> QED
    BY <1>2, <2>1, <2>2, <2>3 DEF ReadPCM
<1>3. CASE ReadEOF
  BY <1>3 DEF ReadEOF
<1>4. CASE ScanText
  <2>1. /\ errPipe' \in Seq(Text) /\ Len(errPipe') = Len(errPipe) - 1 /\ Len(errPipe) \in Nat
        /\ Head(errPipe) \in Text
    BY <1>4 DEF ScanText
  <2> QED
    BY <1>4, <2>1 DEF ScanText
<1>5. CASE ScanEOF
  BY <1>5 DEF ScanEOF
<1> QED
  BY <1>1, <1>2, <1>3, <1>4, <1>5

(* decodeAndSuppress itself.                                                *)
LEMMA CallerKeepsInv ==
  ASSUME DecodeIInv, Drain \/ Wait \/ ClosePipe \/ Return
  PROVE  DecodeIInv'
<1> USE DEF childVars, pipeVars, readVars, scanVars, callVars, WritersGone,
            DecodeIInv, DecodeTypeOK, Text, Unlost, InTurn
<1>1. CASE Drain
  BY <1>1 DEF Drain
<1>2. CASE Wait
  BY <1>2 DEF Wait
<1>3. CASE ClosePipe
  BY <1>3 DEF ClosePipe
<1>4. CASE Return
  BY <1>4 DEF Return
<1> QED
  BY <1>1, <1>2, <1>3, <1>4

LEMMA DecodeStepInv == DecodeIInv /\ [DecodeNext]_decodeVars => DecodeIInv'
<1> SUFFICES ASSUME DecodeIInv, [DecodeNext]_decodeVars PROVE DecodeIInv'
  OBVIOUS
<1>1. CASE UNCHANGED decodeVars
  BY <1>1 DEF decodeVars, childVars, pipeVars, readVars, scanVars, callVars, WritersGone,
              DecodeIInv, DecodeTypeOK, Text, Unlost, InTurn
<1>2. CASE DecodeNext
  BY <1>2, FfmpegKeepsInv, CancelKeepsInv, GoroutinesKeepInv, CallerKeepsInv DEF DecodeNext
<1> QED
  BY <1>1, <1>2

(* For any length of the source and of the log and any size of pipes and    *)
(* buffer, wherever suppressor, child or caller fail: success is answered only*)
(* for the whole decode, the error carries the whole log, and when the call *)
(* returns nobody is left behind.                                           *)
THEOREM DecodeInvariant == DecodeSpec => []DecodeInv
<1> QED
  BY DecodeInitInv, DecodeStepInv, DecodePromises, PTL DEF DecodeSpec

-----------------------------------------------------------------------------
(* FileBatch.                                                               *)

(* The semaphore.                                                           *)
LEMMA ActiveStays ==
  ASSUME BatchTypeOK, Active' \subseteq Active
  PROVE  Cardinality(Active') <= Workers
<1>1. IsFiniteSet(Active) /\ Active \subseteq Files
  BY BatchAssumption, FS_Subset DEF Active
<1>2. Cardinality(Active) \in Nat /\ Cardinality(Active') \in Nat
  BY <1>1, FS_Subset, FS_CardinalityType
<1>3. Cardinality(Active') <= Cardinality(Active)
  BY <1>1, FS_Subset
<1> QED
  BY <1>2, <1>3, BatchAssumption DEF BatchTypeOK

LEMMA ActiveGrows ==
  ASSUME NEW f \in Files, Cardinality(Active) < Workers, Active' \subseteq Active \cup {f}
  PROVE  Cardinality(Active') <= Workers
<1>1. IsFiniteSet(Active) /\ IsFiniteSet(Active \cup {f})
  BY BatchAssumption, FS_Subset, FS_AddElement DEF Active
<1>2. Cardinality(Active \cup {f}) <= Cardinality(Active) + 1
  BY <1>1, FS_AddElement, FS_CardinalityType
<1>3. Cardinality(Active') <= Cardinality(Active \cup {f})
  BY <1>1, FS_Subset
<1>4. /\ Cardinality(Active) \in Nat /\ Cardinality(Active') \in Nat
      /\ Cardinality(Active \cup {f}) \in Nat
  BY <1>1, FS_Subset, FS_CardinalityType
<1> QED
  BY <1>2, <1>3, <1>4, BatchAssumption

LEMMA BatchInitInv == BatchInit => BatchInv
<1> SUFFICES ASSUME BatchInit PROVE BatchInv
  OBVIOUS
<1> USE BatchAssumption DEF BatchInit
<1>1. Active = {}
  BY DEF Active, Working
<1>2. Cardinality(Active) <= Workers
  BY <1>1, FS_EmptySet
<1>3. BatchTypeOK
  <2>1. /\ clock \in Times /\ src \in [Files -> [version : Versions, mtime : Times]]
        /\ runs \in 0 .. MaxRuns
    BY DEF Versions, Times
  <2>2. /\ dst \in [Files -> Encoded \cup {Missing}] /\ tmp \in [Files -> Encoded \cup {Missing}]
        /\ orphans \subseteq Files /\ batch \in {"idle", "running"} /\ batchCancelled \in BOOLEAN
    OBVIOUS
  <2>3. job \in [Files -> Jobs] /\ reading \in [Files -> Versions \cup {0}]
    BY DEF Jobs
  <2> QED
    BY <1>2, <2>1, <2>2, <2>3 DEF BatchTypeOK
<1> QED
  BY <1>3 DEF BatchInv, AttemptsSound, TimesTell, DestinationWhole, SuccessIsCurrent, Working, Missing

(* The goroutine of a file, up to the encode. *)
LEMMA AttemptKeepsInv ==
  ASSUME BatchInv, NEW f \in Files, AcquireSlot(f) \/ Decode(f) \/ DecodeFails(f)
  PROVE  BatchInv'
<1> USE BatchAssumption DEF BatchInv, BatchTypeOK, Enter
<1>1. CASE AcquireSlot(f)
  <2>1. BatchTypeOK'
    <3>1. Active' \subseteq Active \cup {f}
      BY <1>1 DEF AcquireSlot, Active, Working
    <3>2. Cardinality(Active') <= Workers
      BY <1>1, <3>1, ActiveGrows DEF AcquireSlot
    <3> QED
      BY <1>1, <3>2 DEF AcquireSlot, Jobs, Working, Encoded, Missing, Times, Versions
  <2>2. AttemptsSound'
    BY <1>1 DEF AcquireSlot, AttemptsSound, Working, Encoded, Missing, Versions, Times
  <2>3. TimesTell' /\ DestinationWhole' /\ SuccessIsCurrent'
    BY <1>1 DEF AcquireSlot, TimesTell, DestinationWhole, SuccessIsCurrent, Current, AttemptsSound, Working, Encoded, Missing, Versions, Times
  <2> QED
    BY <2>1, <2>2, <2>3
<1>2. CASE Decode(f)
  <2>1. BatchTypeOK'
    <3>1. Active' \subseteq Active
      BY <1>2 DEF Decode, Active, Working
    <3>2. Cardinality(Active') <= Workers
      BY <1>2, <3>1, ActiveStays DEF Decode
    <3> QED
      BY <1>2, <3>2 DEF Decode, Jobs, Working, Encoded, Missing, Times, Versions
  <2>2. AttemptsSound'
    BY <1>2 DEF Decode, AttemptsSound, Working, Encoded, Missing, Versions, Times
  <2>3. TimesTell' /\ DestinationWhole' /\ SuccessIsCurrent'
    BY <1>2 DEF Decode, TimesTell, DestinationWhole, SuccessIsCurrent, Current, AttemptsSound, Working, Encoded, Missing, Versions, Times
  <2> QED
    BY <2>1, <2>2, <2>3
<1>3. CASE DecodeFails(f)
  <2>1. BatchTypeOK'
    <3>1. Active' \subseteq Active
      BY <1>3 DEF DecodeFails, Active, Working
    <3>2. Cardinality(Active') <= Workers
      BY <1>3, <3>1, ActiveStays DEF DecodeFails
    <3> QED
      BY <1>3, <3>2 DEF DecodeFails, Jobs, Working, Encoded, Missing, Times, Versions
  <2>2. AttemptsSound'
    BY <1>3 DEF DecodeFails, AttemptsSound, Working, Encoded, Missing, Versions, Times
  <2>3. TimesTell' /\ DestinationWhole' /\ SuccessIsCurrent'
    BY <1>3 DEF DecodeFails, TimesTell, DestinationWhole, SuccessIsCurrent, Current, AttemptsSound, Working, Encoded, Missing, Versions, Times
  <2> QED
    BY <2>1, <2>2, <2>3
<1> QED
  BY <1>1, <1>2, <1>3

(* The encode into the temporary file, and the rename. *)
LEMMA EncodeKeepsInv ==
  ASSUME BatchInv, NEW f \in Files, EncodeStart(f) \/ EncodeDone(f) \/ EncodeFails(f) \/ Promote(f)
  PROVE  BatchInv'
<1> USE BatchAssumption DEF BatchInv, BatchTypeOK, Enter
<1>1. CASE EncodeStart(f)
  <2>0. /\ tmp' \in [Files -> Encoded \cup {Missing}] /\ job' \in [Files -> Jobs]
        /\ tmp'[f].version = src[f].version /\ tmp'[f].mtime = clock
        /\ \A g \in Files \ {f} : tmp'[g] = tmp[g] /\ job'[g] = job[g]
        /\ job'[f] = "writing" /\ batch = "running"
        /\ UNCHANGED <<clock, src, dst, orphans, reading, batch, batchCancelled, runs>>
    <3>1. [version |-> reading[f], mtime |-> clock, whole |-> FALSE] \in Encoded
          /\ reading[f] = src[f].version
      BY <1>1 DEF EncodeStart, AttemptsSound, Encoded, Versions
    <3> QED
      BY <1>1, <3>1 DEF EncodeStart, AttemptsSound, Jobs, Working
  <2>1. BatchTypeOK'
    <3>1. Active' \subseteq Active
      BY <1>1 DEF EncodeStart, Active, Working
    <3>2. Cardinality(Active') <= Workers
      BY <1>1, <3>1, ActiveStays DEF EncodeStart
    <3> QED
      BY <2>0, <3>2
  <2>2. AttemptsSound'
    <3>1. ASSUME NEW g \in Files \ {f} PROVE UNCHANGED <<src[g], tmp[g], job[g], reading[g], clock, batch>>
      BY <2>0
    <3>2. src[f].mtime <= clock /\ clock <= clock /\ reading[f] = src[f].version
      BY <1>1 DEF EncodeStart, AttemptsSound, TimesTell, Times
    <3> QED
      BY <2>0, <3>1, <3>2 DEF AttemptsSound, Working
  <2>3. TimesTell' /\ DestinationWhole' /\ SuccessIsCurrent'
    BY <1>1 DEF EncodeStart, TimesTell, DestinationWhole, SuccessIsCurrent, Current, AttemptsSound, Working, Encoded, Missing, Versions, Times
  <2> QED
    BY <2>1, <2>2, <2>3
<1>2. CASE EncodeDone(f)
  <2>0. /\ tmp' \in [Files -> Encoded \cup {Missing}] /\ job' \in [Files -> Jobs]
        /\ tmp'[f].version = src[f].version /\ tmp'[f].mtime = clock /\ tmp'[f].whole
        /\ \A g \in Files \ {f} : tmp'[g] = tmp[g] /\ job'[g] = job[g]
        /\ job'[f] = "written" /\ batch = "running"
        /\ UNCHANGED <<clock, src, dst, orphans, reading, batch, batchCancelled, runs>>
    <3>1. tmp[f] \in Encoded
      BY <1>2 DEF EncodeDone, AttemptsSound, Versions, Missing
    <3>2. tmp' = [tmp EXCEPT ![f] = [version |-> tmp[f].version, mtime |-> clock, whole |-> TRUE]]
      BY <1>2 DEF EncodeDone
    <3>3. [version |-> tmp[f].version, mtime |-> clock, whole |-> TRUE] \in Encoded
          /\ tmp[f].version = src[f].version
      BY <1>2, <3>1 DEF EncodeDone, AttemptsSound, Encoded
    <3> QED
      <4>1. batch = "running"
        BY <1>2 DEF EncodeDone, AttemptsSound, Working
      <4>2. job' \in [Files -> Jobs]
        BY <1>2 DEF EncodeDone, Jobs, Working
      <4> QED
        <5> DEFINE done == [version |-> tmp[f].version, mtime |-> clock, whole |-> TRUE]
        <5>1. tmp' = [tmp EXCEPT ![f] = done] /\ done \in Encoded
          BY <3>2, <3>3
        <5>2. done.version = src[f].version /\ done.mtime = clock /\ done.whole
          BY <3>3
        <5> HIDE DEF done
        <5>3. tmp' \in [Files -> Encoded \cup {Missing}] /\ tmp'[f] = done
          BY <5>1
        <5> QED
          BY <1>2, <4>1, <4>2, <5>1, <5>2, <5>3 DEF EncodeDone
  <2>1. BatchTypeOK'
    <3>1. Active' \subseteq Active
      BY <1>2 DEF EncodeDone, Active, Working
    <3>2. Cardinality(Active') <= Workers
      BY <1>2, <3>1, ActiveStays DEF EncodeDone
    <3> QED
      BY <2>0, <3>2
  <2>2. AttemptsSound'
    <3>1. ASSUME NEW g \in Files \ {f} PROVE UNCHANGED <<src[g], tmp[g], job[g], reading[g], clock, batch>>
      BY <2>0
    <3>2. src[f].mtime <= clock /\ clock <= clock /\ reading[f] = src[f].version
      BY <1>2 DEF EncodeDone, AttemptsSound, TimesTell, Times
    <3> QED
      BY <2>0, <3>1, <3>2 DEF AttemptsSound, Working
  <2>3. TimesTell' /\ DestinationWhole' /\ SuccessIsCurrent'
    BY <1>2 DEF EncodeDone, TimesTell, DestinationWhole, SuccessIsCurrent, Current, AttemptsSound, Working, Encoded, Missing, Versions, Times
  <2> QED
    BY <2>1, <2>2, <2>3
<1>3. CASE EncodeFails(f)
  <2>1. BatchTypeOK'
    <3>1. Active' \subseteq Active
      BY <1>3 DEF EncodeFails, Active, Working
    <3>2. Cardinality(Active') <= Workers
      BY <1>3, <3>1, ActiveStays DEF EncodeFails
    <3> QED
      BY <1>3, <3>2 DEF EncodeFails, Jobs, Working, Encoded, Missing, Times, Versions
  <2>2. AttemptsSound'
    BY <1>3 DEF EncodeFails, AttemptsSound, Working, Encoded, Missing, Versions, Times
  <2>3. TimesTell' /\ DestinationWhole' /\ SuccessIsCurrent'
    BY <1>3 DEF EncodeFails, TimesTell, DestinationWhole, SuccessIsCurrent, Current, AttemptsSound, Working, Encoded, Missing, Versions, Times
  <2> QED
    BY <2>1, <2>2, <2>3
<1>4. CASE Promote(f)
  <2>1. BatchTypeOK'
    <3>1. Active' \subseteq Active
      BY <1>4 DEF Promote, Active, Working
    <3>2. Cardinality(Active') <= Workers
      BY <1>4, <3>1, ActiveStays DEF Promote
    <3> QED
      BY <1>4, <3>2 DEF Promote, Jobs, Working, Encoded, Missing, Times, Versions
  <2>2. AttemptsSound'
    BY <1>4 DEF Promote, AttemptsSound, Working, Encoded, Missing, Versions, Times
  <2>3. TimesTell' /\ DestinationWhole' /\ SuccessIsCurrent'
    <3>1. /\ tmp[f].version = src[f].version /\ tmp[f].whole
          /\ src[f].mtime <= tmp[f].mtime /\ tmp[f].mtime <= clock
          /\ src[f].version <= src[f].version
      BY <1>4 DEF Promote, AttemptsSound, Versions
    <3>2. /\ dst' = [dst EXCEPT ![f] = tmp[f]] /\ job' = [job EXCEPT ![f] = "ok"]
          /\ UNCHANGED <<src, clock, batch>>
      BY <1>4 DEF Promote
    <3> QED
      BY <3>1, <3>2 DEF TimesTell, DestinationWhole, SuccessIsCurrent, Current
  <2> QED
    BY <2>1, <2>2, <2>3
<1> QED
  BY <1>1, <1>2, <1>3, <1>4

(* A source is replaced between two batches. *)
LEMMA ReplaceKeepsInv ==
  ASSUME BatchInv, NEW f \in Files, Replace(f)
  PROVE  BatchInv'
<1> USE BatchAssumption DEF BatchInv, BatchTypeOK, Enter
<1>1. CASE Replace(f)
  <2>1. BatchTypeOK'
    <3>1. Active' \subseteq Active
      BY <1>1 DEF Replace, Active, Working
    <3>2. Cardinality(Active') <= Workers
      BY <1>1, <3>1, ActiveStays DEF Replace
    <3> QED
      BY <1>1, <3>2 DEF Replace, Jobs, Working, Encoded, Missing, Times, Versions
  <2>2. AttemptsSound'
    BY <1>1 DEF Replace, AttemptsSound, Working, Encoded, Missing, Versions, Times
  <2>3. TimesTell' /\ DestinationWhole' /\ SuccessIsCurrent'
    BY <1>1 DEF Replace, TimesTell, DestinationWhole, SuccessIsCurrent, Current, AttemptsSound, Working, Encoded, Missing, Versions, Times
  <2> QED
    BY <2>1, <2>2, <2>3
<1> QED
  BY <1>1

(* The batch as a whole.                                                    *)
LEMMA BatchKeepsInv ==
  ASSUME BatchInv, ProcessDir \/ CancelBatch \/ BatchReturns \/ ProcessDies
  PROVE  BatchInv'
<1> USE BatchAssumption DEF BatchInv, BatchTypeOK
<1>1. CASE ProcessDir
  <2>1. BatchTypeOK'
    <3>1. Active' \subseteq Active
      BY <1>1 DEF ProcessDir, Active, Working
    <3>2. Cardinality(Active') <= Workers
      BY <3>1, ActiveStays
    <3>3. runs' \in 0 .. MaxRuns
      BY <1>1 DEF ProcessDir
    <3>4. job' \in [Files -> Jobs] /\ reading' \in [Files -> Versions \cup {0}]
      BY <1>1 DEF ProcessDir, Jobs
    <3> QED
      BY <1>1, <3>2, <3>3, <3>4 DEF ProcessDir
  <2>2. AttemptsSound'
    BY <1>1 DEF ProcessDir, AttemptsSound, Working, Encoded, Missing, Versions, Times
  <2>3. TimesTell' /\ DestinationWhole' /\ SuccessIsCurrent'
    BY <1>1 DEF ProcessDir, TimesTell, DestinationWhole, SuccessIsCurrent, Current, AttemptsSound, Working, Encoded, Missing, Versions, Times
  <2> QED
    BY <2>1, <2>2, <2>3
<1>2. CASE CancelBatch
  <2>1. BatchTypeOK'
    <3>1. Active' \subseteq Active
      BY <1>2 DEF CancelBatch, Active, Working
    <3>2. Cardinality(Active') <= Workers
      BY <3>1, ActiveStays
    <3> QED
      BY <1>2, <3>2 DEF CancelBatch, Jobs, Working, Encoded, Missing, Times, Versions
  <2>2. AttemptsSound'
    BY <1>2 DEF CancelBatch, AttemptsSound, Working, Encoded, Missing, Versions, Times
  <2>3. TimesTell' /\ DestinationWhole' /\ SuccessIsCurrent'
    BY <1>2 DEF CancelBatch, TimesTell, DestinationWhole, SuccessIsCurrent, Current, AttemptsSound, Working, Encoded, Missing, Versions, Times
  <2> QED
    BY <2>1, <2>2, <2>3
<1>3. CASE BatchReturns
  <2>1. BatchTypeOK'
    <3>1. Active' \subseteq Active
      BY <1>3 DEF BatchReturns, Active, Working
    <3>2. Cardinality(Active') <= Workers
      BY <3>1, ActiveStays
    <3> QED
      BY <1>3, <3>2 DEF BatchReturns, Jobs, Working, Encoded, Missing, Times, Versions
  <2>2. AttemptsSound'
    BY <1>3 DEF BatchReturns, AttemptsSound, Working, Encoded, Missing, Versions, Times
  <2>3. TimesTell' /\ DestinationWhole' /\ SuccessIsCurrent'
    BY <1>3 DEF BatchReturns, TimesTell, DestinationWhole, SuccessIsCurrent, Current, AttemptsSound, Working, Encoded, Missing, Versions, Times
  <2> QED
    BY <2>1, <2>2, <2>3
<1>4. CASE ProcessDies
  <2>1. BatchTypeOK'
    <3>1. Active' \subseteq Active
      BY <1>4 DEF ProcessDies, Active, Working
    <3>2. Cardinality(Active') <= Workers
      BY <3>1, ActiveStays
    <3> QED
      BY <1>4, <3>2 DEF ProcessDies, Jobs, Working, Encoded, Missing, Times, Versions
  <2>2. AttemptsSound'
    BY <1>4 DEF ProcessDies, AttemptsSound, Working, Encoded, Missing, Versions, Times
  <2>3. TimesTell' /\ DestinationWhole' /\ SuccessIsCurrent'
    BY <1>4 DEF ProcessDies, TimesTell, DestinationWhole, SuccessIsCurrent, Current, AttemptsSound, Working, Encoded, Missing, Versions, Times
  <2> QED
    BY <2>1, <2>2, <2>3
<1> QED
  BY <1>1, <1>2, <1>3, <1>4

LEMMA BatchStepInv == BatchInv /\ [BatchNext]_batchVars => BatchInv'
<1> SUFFICES ASSUME BatchInv, [BatchNext]_batchVars PROVE BatchInv'
  OBVIOUS
<1>1. CASE UNCHANGED batchVars
  <2>1. Active' = Active
    BY <1>1 DEF batchVars, Active
  <2> QED
    BY <1>1, <2>1 DEF batchVars, BatchInv, BatchTypeOK, AttemptsSound, TimesTell, DestinationWhole, SuccessIsCurrent, Current
<1>2. CASE BatchNext
  BY <1>2, AttemptKeepsInv, EncodeKeepsInv, ReplaceKeepsInv, BatchKeepsInv DEF BatchNext
<1> QED
  BY <1>1, <1>2

(* For any files, workers, attempts and deaths of the process: a destination is*)
(* whole or not there, and a file reported without error has a destination made*)
(* from its source.                                                         *)
THEOREM BatchInvariant == BatchSpec => []BatchInv
<1> QED
  BY BatchInitInv, BatchStepInv, PTL DEF BatchSpec

LEMMA StepLeavesNoTrace ==
  ASSUME BatchInv, [BatchNext]_batchVars, NEW f \in Files
  PROVE  /\ dst'[f] # dst[f] => job'[f] = "ok"
         /\ job'[f] = "error" => tmp'[f] = Missing
         /\ f \in orphans' \ orphans => batch = "running" /\ job'[f] = "none"
<1> USE DEF BatchInv, BatchTypeOK, AttemptsSound, Enter, Working
<1>1. CASE UNCHANGED batchVars
  BY <1>1 DEF batchVars
<1>2. CASE ProcessDir \/ CancelBatch \/ BatchReturns \/ ProcessDies
  BY <1>2 DEF ProcessDir, CancelBatch, BatchReturns, ProcessDies
<1>3. ASSUME NEW g \in Files, Replace(g) \/ AcquireSlot(g) \/ Decode(g) \/ DecodeFails(g)
      PROVE  /\ dst' = dst /\ orphans' = orphans
             /\ job'[f] = "error" => tmp'[f] = Missing
  BY <1>3 DEF Replace, AcquireSlot, Decode, DecodeFails
<1>4. ASSUME NEW g \in Files, EncodeStart(g) \/ EncodeDone(g) \/ EncodeFails(g) \/ Promote(g)
      PROVE  /\ dst'[f] # dst[f] => job'[f] = "ok"
             /\ job'[f] = "error" => tmp'[f] = Missing
             /\ orphans' = orphans
  BY <1>4 DEF EncodeStart, EncodeDone, EncodeFails, Promote
<1> QED
  BY <1>1, <1>2, <1>3, <1>4 DEF BatchNext

LEMMA StepTakesTheRest ==
  ASSUME BatchInv, [BatchNext]_batchVars, batch = "idle", batch' = "running", NEW f \in Files
  PROVE  job'[f] = "queued" <=> ~Current(f)
<1>1. ProcessDir
  BY DEF BatchNext, batchVars, ProcessDir, CancelBatch, BatchReturns, ProcessDies, Replace, AcquireSlot,
         Decode, DecodeFails, EncodeStart, EncodeDone, EncodeFails, Promote
<1>2. isAlreadyProcessed(f) <=> Current(f)
  <2>1. CASE dst[f] = Missing
    BY <2>1 DEF isAlreadyProcessed, Current, Missing
  <2>2. CASE dst[f] # Missing
    BY <2>2 DEF BatchInv, BatchTypeOK, TimesTell, DestinationWhole, isAlreadyProcessed, Current, Encoded, Times, Versions
  <2> QED
    BY <2>1, <2>2
<1> QED
  BY <1>1, <1>2 DEF ProcessDir

(* A failed attempt leaves the destination of an earlier run as it was, and a*)
(* later run takes up exactly the files that are not up to date.            *)
THEOREM BatchTellsTruth == BatchSpec => DestinationsTrue
<1>1. BatchInv /\ [BatchNext]_batchVars =>
        [\A f \in Files :
           /\ dst'[f] # dst[f] => job'[f] = "ok"
           /\ job'[f] = "error" => tmp'[f] = Missing
           /\ f \in orphans' \ orphans => batch = "running" /\ job'[f] = "none"]_batchVars
  BY StepLeavesNoTrace
<1>2. BatchInv /\ [BatchNext]_batchVars =>
        [batch = "idle" /\ batch' = "running" =>
           \A f \in Files : job'[f] = "queued" <=> ~Current(f)]_batchVars
  BY StepTakesTheRest
<1> QED
  BY <1>1, <1>2, BatchInvariant, PTL DEF BatchSpec, DestinationsTrue, FailureLeavesNoTrace, RerunTakesTheRest

-----------------------------------------------------------------------------
(* BillingWAL.                                                              *)

LEMMA WALInitInv == WALInit => WALInv
<1> SUFFICES ASSUME WALInit PROVE WALInv
  OBVIOUS
<1> USE WALAssumption DEF WALInit
<1>1. disk \in [{} -> SUBSET CDRs] /\ DOMAIN disk = {}
  OBVIOUS
<1>2. WALTypeOK
  BY <1>1 DEF WALTypeOK, Steps
<1>3. InHand /\ ReadBackIsAcked /\ AckedDurable
  BY <1>1 DEF InHand, ReadBackIsAcked, AckedDurable
<1> QED
  BY <1>2, <1>3 DEF WALInv

Disks == UNION {[fs -> SUBSET CDRs] : fs \in SUBSET WALFiles}

LEMMA CreatedFile ==
  ASSUME WALTypeOK, NEW w \in Writers, CreateFile(w)
  PROVE  \E f \in WALFiles :
           /\ Fresh(f) /\ cur' = [cur EXCEPT ![w] = f]
           /\ disk' \in Disks /\ DOMAIN disk' = DOMAIN disk \cup {f}
           /\ disk'[f] = {} /\ \A g \in DOMAIN disk : disk'[g] = disk[g]
<1>1. PICK f \in WALFiles :
        /\ Fresh(f) /\ cur' = [cur EXCEPT ![w] = f]
        /\ disk' = [g \in DOMAIN disk \cup {f} |-> IF g = f THEN {} ELSE disk[g]]
  BY DEF CreateFile
<1>2. PICK fs \in SUBSET WALFiles : disk \in [fs -> SUBSET CDRs]
  BY DEF WALTypeOK
<1>3. disk' \in [fs \cup {f} -> SUBSET CDRs] /\ fs \cup {f} \in SUBSET WALFiles
  BY <1>1, <1>2
<1>4. disk' \in Disks
  BY <1>3 DEF Disks
<1> QED
  BY <1>1, <1>4 DEF Fresh, Exists

LEMMA RemovedFile ==
  ASSUME WALTypeOK, NEW f, RemoveFile(f)
  PROVE  /\ disk' \in Disks /\ DOMAIN disk' = DOMAIN disk \ {f}
         /\ \A g \in DOMAIN disk \ {f} : disk'[g] = disk[g]
<1>1. PICK fs \in SUBSET WALFiles : disk \in [fs -> SUBSET CDRs]
  BY DEF WALTypeOK
<1>2. disk' \in [fs \ {f} -> SUBSET CDRs] /\ fs \ {f} \in SUBSET WALFiles
  BY <1>1 DEF RemoveFile
<1>3. disk' \in Disks
  BY <1>2 DEF Disks
<1> QED
  BY <1>3 DEF RemoveFile

(* A process starts, and dies. *)
LEMMA ProcessKeepsInv ==
  ASSUME WALInv, OneAtATime, OneAtATime', NEW w \in Writers,
         NewWALWriter(w) \/ CrashWriter(w) \/ CloseWAL(w)
  PROVE  WALInv'
<1> USE WALAssumption
    DEF WALInv, Goto, At, localVars, logVars, lossVars, WriteFails
<1>1. CASE NewWALWriter(w)
  <2>0. PICK f \in WALFiles :
          /\ Fresh(f) /\ cur' = [cur EXCEPT ![w] = f]
          /\ disk' \in Disks /\ DOMAIN disk' = DOMAIN disk \cup {f}
          /\ disk'[f] = {} /\ \A g \in DOMAIN disk : disk'[g] = disk[g]
    BY <1>1, CreatedFile DEF NewWALWriter
  <2>1. WALTypeOK'
    BY <1>1, <2>0 DEF NewWALWriter, WALTypeOK, Steps, Disks
  <2>2. InHand'
    BY <1>1, <2>0 DEF NewWALWriter, WALTypeOK, InHand, Exists, Fresh, OneAtATime
  <2>3. ReadBackIsAcked' /\ AckedDurable'
    BY <1>1 DEF NewWALWriter, WALTypeOK, InHand, ReadBackIsAcked, AckedDurable, OnDisk, Exists, CreateFile, RemoveFile, Fresh
  <2> QED
    BY <2>1, <2>2, <2>3
<1>2. CASE CrashWriter(w)
  <2>1. WALTypeOK'
    BY <1>2 DEF CrashWriter, WALTypeOK, Steps, CreateFile, RemoveFile, InHand, ReadBackIsAcked, Exists
  <2>2. InHand'
    BY <1>2 DEF CrashWriter, WALTypeOK, InHand, Exists, CreateFile, RemoveFile, Fresh, OneAtATime
  <2>3. ReadBackIsAcked' /\ AckedDurable'
    BY <1>2 DEF CrashWriter, WALTypeOK, InHand, ReadBackIsAcked, AckedDurable, OnDisk, Exists, CreateFile, RemoveFile, Fresh
  <2> QED
    BY <2>1, <2>2, <2>3
<1>3. CASE CloseWAL(w)
  <2>1. WALTypeOK'
    BY <1>3 DEF CloseWAL, WALTypeOK, Steps, CreateFile, RemoveFile, InHand, ReadBackIsAcked, Exists
  <2>2. InHand'
    BY <1>3 DEF CloseWAL, WALTypeOK, InHand, Exists, CreateFile, RemoveFile, Fresh, OneAtATime
  <2>3. ReadBackIsAcked' /\ AckedDurable'
    BY <1>3 DEF CloseWAL, WALTypeOK, InHand, ReadBackIsAcked, AckedDurable, OnDisk, Exists, CreateFile, RemoveFile, Fresh
  <2> QED
    BY <2>1, <2>2, <2>3
<1> QED
  BY <1>1, <1>2, <1>3

(* Write, and the rotation it may begin with. *)
LEMMA RotateKeepsInv ==
  ASSUME WALInv, OneAtATime, OneAtATime', NEW w \in Writers,
         \/ WriteCall(w) \/ RotateCloseFails(w) \/ RotateFlush(w) \/ RotateRemove(w)
         \/ RotateRemoveFails(w) \/ OpenNew(w) \/ OpenNewFails(w)
  PROVE  WALInv'
<1> USE WALAssumption
    DEF WALInv, Goto, At, localVars, logVars, lossVars, WriteFails
<1>1. CASE WriteCall(w)
  <2>1. WALTypeOK'
    BY <1>1 DEF WriteCall, WALTypeOK, Steps, CreateFile, RemoveFile, InHand, ReadBackIsAcked, Exists
  <2>2. InHand'
    BY <1>1 DEF WriteCall, WALTypeOK, InHand, Exists, CreateFile, RemoveFile, Fresh, OneAtATime
  <2>3. ReadBackIsAcked' /\ AckedDurable'
    BY <1>1 DEF WriteCall, WALTypeOK, InHand, ReadBackIsAcked, AckedDurable, OnDisk, Exists, CreateFile, RemoveFile, Fresh
  <2> QED
    BY <2>1, <2>2, <2>3
<1>2. CASE RotateFlush(w)
  <2>1. WALTypeOK'
    BY <1>2 DEF RotateFlush, WALTypeOK, Steps, CreateFile, RemoveFile, InHand, ReadBackIsAcked, Exists
  <2>2. InHand'
    BY <1>2 DEF RotateFlush, WALTypeOK, InHand, Exists, CreateFile, RemoveFile, Fresh, OneAtATime
  <2>3. ReadBackIsAcked' /\ AckedDurable'
    BY <1>2 DEF RotateFlush, WALTypeOK, InHand, ReadBackIsAcked, AckedDurable, OnDisk, Exists, CreateFile, RemoveFile, Fresh
  <2> QED
    BY <2>1, <2>2, <2>3
<1>3. CASE RotateRemove(w)
  <2>1. WALTypeOK'
    <3>1. disk' \in Disks
      BY <1>3, RemovedFile DEF RotateRemove
    <3> QED
      BY <1>3, <3>1 DEF RotateRemove, WALTypeOK, Steps, Disks
  <2>2. InHand'
    BY <1>3 DEF RotateRemove, WALTypeOK, InHand, Exists, CreateFile, RemoveFile, Fresh, OneAtATime
  <2>3. ReadBackIsAcked' /\ AckedDurable'
    BY <1>3 DEF RotateRemove, WALTypeOK, InHand, ReadBackIsAcked, AckedDurable, OnDisk, Exists, CreateFile, RemoveFile, Fresh
  <2> QED
    BY <2>1, <2>2, <2>3
<1>4. CASE RotateRemoveFails(w)
  <2>1. WALTypeOK'
    BY <1>4 DEF RotateRemoveFails, WALTypeOK, Steps, CreateFile, RemoveFile, InHand, ReadBackIsAcked, Exists
  <2>2. InHand'
    BY <1>4 DEF RotateRemoveFails, WALTypeOK, InHand, Exists, CreateFile, RemoveFile, Fresh, OneAtATime
  <2>3. ReadBackIsAcked' /\ AckedDurable'
    BY <1>4 DEF RotateRemoveFails, WALTypeOK, InHand, ReadBackIsAcked, AckedDurable, OnDisk, Exists, CreateFile, RemoveFile, Fresh
  <2> QED
    BY <2>1, <2>2, <2>3
<1>5. CASE OpenNew(w)
  <2>0. PICK f \in WALFiles :
          /\ Fresh(f) /\ cur' = [cur EXCEPT ![w] = f]
          /\ disk' \in Disks /\ DOMAIN disk' = DOMAIN disk \cup {f}
          /\ disk'[f] = {} /\ \A g \in DOMAIN disk : disk'[g] = disk[g]
    BY <1>5, CreatedFile DEF OpenNew
  <2>1. WALTypeOK'
    BY <1>5, <2>0 DEF OpenNew, WALTypeOK, Steps, Disks
  <2>2. InHand'
    BY <1>5, <2>0 DEF OpenNew, WALTypeOK, InHand, Exists, Fresh, OneAtATime
  <2>3. ReadBackIsAcked' /\ AckedDurable'
    BY <1>5 DEF OpenNew, WALTypeOK, InHand, ReadBackIsAcked, AckedDurable, OnDisk, Exists, CreateFile, RemoveFile, Fresh
  <2> QED
    BY <2>1, <2>2, <2>3
<1>6. CASE OpenNewFails(w)
  <2>1. WALTypeOK'
    BY <1>6 DEF OpenNewFails, WALTypeOK, Steps, CreateFile, RemoveFile, InHand, ReadBackIsAcked, Exists
  <2>2. InHand'
    BY <1>6 DEF OpenNewFails, WALTypeOK, InHand, Exists, CreateFile, RemoveFile, Fresh, OneAtATime
  <2>3. ReadBackIsAcked' /\ AckedDurable'
    BY <1>6 DEF OpenNewFails, WALTypeOK, InHand, ReadBackIsAcked, AckedDurable, OnDisk, Exists, CreateFile, RemoveFile, Fresh
  <2> QED
    BY <2>1, <2>2, <2>3
<1>7. CASE RotateCloseFails(w)
  <2>1. WALTypeOK'
    BY <1>7 DEF RotateCloseFails, WALTypeOK, Steps, CreateFile, RemoveFile, InHand, ReadBackIsAcked, Exists
  <2>2. InHand'
    BY <1>7 DEF RotateCloseFails, WALTypeOK, InHand, Exists, CreateFile, RemoveFile, Fresh, OneAtATime
  <2>3. ReadBackIsAcked' /\ AckedDurable'
    BY <1>7 DEF RotateCloseFails, WALTypeOK, InHand, ReadBackIsAcked, AckedDurable, OnDisk, Exists, CreateFile, RemoveFile, Fresh
  <2> QED
    BY <2>1, <2>2, <2>3
<1> QED
  BY <1>1, <1>2, <1>3, <1>4, <1>5, <1>6, <1>7

(* The line is appended. *)
LEMMA AppendKeepsInv ==
  ASSUME WALInv, OneAtATime, OneAtATime', NEW w \in Writers,
         AppendLine(w) \/ AppendLineFails(w)
  PROVE  WALInv'
<1> USE WALAssumption
    DEF WALInv, Goto, At, localVars, logVars, lossVars, WriteFails
<1>1. CASE AppendLine(w)
  <2>1. WALTypeOK'
    BY <1>1 DEF AppendLine, WALTypeOK, Steps, CreateFile, RemoveFile, InHand, ReadBackIsAcked, Exists
  <2>2. InHand'
    BY <1>1 DEF AppendLine, WALTypeOK, InHand, Exists, CreateFile, RemoveFile, Fresh, OneAtATime
  <2>3. ReadBackIsAcked' /\ AckedDurable'
    BY <1>1 DEF AppendLine, WALTypeOK, InHand, ReadBackIsAcked, AckedDurable, OnDisk, Exists, CreateFile, RemoveFile, Fresh
  <2> QED
    BY <2>1, <2>2, <2>3
<1>2. CASE AppendLineFails(w)
  <2>1. WALTypeOK'
    BY <1>2 DEF AppendLineFails, WALTypeOK, Steps, CreateFile, RemoveFile, InHand, ReadBackIsAcked, Exists
  <2>2. InHand'
    BY <1>2 DEF AppendLineFails, WALTypeOK, InHand, Exists, CreateFile, RemoveFile, Fresh, OneAtATime
  <2>3. ReadBackIsAcked' /\ AckedDurable'
    BY <1>2 DEF AppendLineFails, WALTypeOK, InHand, ReadBackIsAcked, AckedDurable, OnDisk, Exists, CreateFile, RemoveFile, Fresh
  <2> QED
    BY <2>1, <2>2, <2>3
<1> QED
  BY <1>1, <1>2

(* RecoverAndFlush. *)
LEMMA RecoverKeepsInv ==
  ASSUME WALInv, OneAtATime, OneAtATime', NEW w \in Writers,
         RecoverCall(w) \/ (\E f \in WALFiles : RecoverFlush(w, f)) \/ RecoverSkip(w) \/ RecoverRemove(w) \/ RecoverReturn(w)
  PROVE  WALInv'
<1> USE WALAssumption
    DEF WALInv, Goto, At, localVars, logVars, lossVars, WriteFails
<1>1. CASE RecoverCall(w)
  <2>1. WALTypeOK'
    BY <1>1 DEF RecoverCall, WALTypeOK, Steps, CreateFile, RemoveFile, InHand, ReadBackIsAcked, Exists
  <2>2. InHand'
    BY <1>1 DEF RecoverCall, WALTypeOK, InHand, Exists, CreateFile, RemoveFile, Fresh, OneAtATime
  <2>3. ReadBackIsAcked' /\ AckedDurable'
    BY <1>1 DEF RecoverCall, WALTypeOK, InHand, ReadBackIsAcked, AckedDurable, OnDisk, Exists, CreateFile, RemoveFile, Fresh
  <2> QED
    BY <2>1, <2>2, <2>3
<1>2. ASSUME NEW f \in WALFiles, RecoverFlush(w, f) PROVE WALInv'
  <2>1. WALTypeOK'
    BY <1>2 DEF RecoverFlush, WALTypeOK, Steps, CreateFile, RemoveFile, InHand, ReadBackIsAcked, Exists
  <2>2. InHand'
    BY <1>2 DEF RecoverFlush, WALTypeOK, InHand, Exists, CreateFile, RemoveFile, Fresh, OneAtATime
  <2>3. ReadBackIsAcked' /\ AckedDurable'
    BY <1>2 DEF RecoverFlush, WALTypeOK, InHand, ReadBackIsAcked, AckedDurable, OnDisk, Exists, CreateFile, RemoveFile, Fresh
  <2> QED
    BY <2>1, <2>2, <2>3
<1>3. CASE RecoverSkip(w)
  <2>1. WALTypeOK'
    BY <1>3 DEF RecoverSkip, WALTypeOK, Steps, CreateFile, RemoveFile, InHand, ReadBackIsAcked, Exists
  <2>2. InHand'
    BY <1>3 DEF RecoverSkip, WALTypeOK, InHand, Exists, CreateFile, RemoveFile, Fresh, OneAtATime
  <2>3. ReadBackIsAcked' /\ AckedDurable'
    BY <1>3 DEF RecoverSkip, WALTypeOK, InHand, ReadBackIsAcked, AckedDurable, OnDisk, Exists, CreateFile, RemoveFile, Fresh
  <2> QED
    BY <2>1, <2>2, <2>3
<1>4. CASE RecoverRemove(w)
  <2>1. WALTypeOK'
    BY <1>4 DEF RecoverRemove, WALTypeOK, Steps, CreateFile, RemoveFile, InHand, ReadBackIsAcked, Exists
  <2>2. InHand'
    BY <1>4 DEF RecoverRemove, WALTypeOK, InHand, Exists, CreateFile, RemoveFile, Fresh, OneAtATime
  <2>3. ReadBackIsAcked' /\ AckedDurable'
    BY <1>4 DEF RecoverRemove, WALTypeOK, InHand, ReadBackIsAcked, AckedDurable, OnDisk, Exists, CreateFile, RemoveFile, Fresh
  <2> QED
    BY <2>1, <2>2, <2>3
<1>5. CASE RecoverReturn(w)
  <2>1. WALTypeOK'
    BY <1>5 DEF RecoverReturn, WALTypeOK, Steps, CreateFile, RemoveFile, InHand, ReadBackIsAcked, Exists
  <2>2. InHand'
    BY <1>5 DEF RecoverReturn, WALTypeOK, InHand, Exists, CreateFile, RemoveFile, Fresh, OneAtATime
  <2>3. ReadBackIsAcked' /\ AckedDurable'
    BY <1>5 DEF RecoverReturn, WALTypeOK, InHand, ReadBackIsAcked, AckedDurable, OnDisk, Exists, CreateFile, RemoveFile, Fresh
  <2> QED
    BY <2>1, <2>2, <2>3
<1> QED
  BY <1>1, <1>2, <1>3, <1>4, <1>5

LEMMA WALStepInv == WALInv /\ OneAtATime /\ OneAtATime' /\ [WALNext]_walVars => WALInv'
<1> SUFFICES ASSUME WALInv, OneAtATime, OneAtATime', [WALNext]_walVars PROVE WALInv'
  OBVIOUS
<1>1. CASE UNCHANGED walVars
  BY <1>1 DEF walVars, logVars, lossVars, WALInv, WALTypeOK, InHand, Exists, ReadBackIsAcked, AckedDurable, OnDisk
<1>2. CASE WALNext
  BY <1>2, ProcessKeepsInv, RotateKeepsInv, AppendKeepsInv, RecoverKeepsInv DEF WALNext, WriteStep, RecoverStep
<1> QED
  BY <1>1, <1>2

(* As long as a log directory belongs to one process at a time, a record    *)
(* that Write has acknowledged is on disk or was pushed, whatever crashes,  *)
(* rotations and recoveries come between; AckedDurable names the three      *)
(* exceptions, of which the log without an OnFlush is one.                  *)
THEOREM WALInvariant == WALSpec /\ []OneAtATime => []WALInv
<1> QED
  BY WALInitInv, WALStepInv, PTL DEF WALSpec
=============================================================================
