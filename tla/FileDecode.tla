----------------------------- MODULE FileDecode -----------------------------
(***************************************************************************)
(* decodeAndSuppress of pkg/file: an ffmpeg child whose standard output is *)
(* relayed by an os/exec goroutine into an unbuffered io.Pipe, a reader    *)
(* goroutine that suppresses what comes out of it, a scanner goroutine on  *)
(* the child's standard error, a watcher that kills the process group when *)
(* the context is cancelled, and the caller, which drains, waits, closes   *)
(* the pipe and collects the reader's verdict, in that order.              *)
(*                                                                         *)
(* ffmpeg is external: it owes Chunks units of PCM and Reports units of    *)
(* log text, commits to one write at a time and blocks while the operating *)
(* system's pipe is full.  A unit of log text ends a line ("nl") or, like  *)
(* ffmpeg's periodic statistics, only returns the carriage ("cr").         *)
(***************************************************************************)
EXTENDS Naturals, Sequences

CONSTANTS Chunks,     \* units of PCM the source decodes to
          Reports,    \* units of log text ffmpeg writes
          PipeCap,    \* units an operating-system pipe holds
          LineCap     \* units bufio.Scanner holds without a line end

ASSUME DecodeAssumption ==
    /\ Chunks \in Nat /\ Reports \in Nat
    /\ PipeCap \in Nat \ {0} /\ LineCap \in Nat \ {0}

VARIABLES
    statistics,  \* this ffmpeg reports its progress, ending with "cr"
    ff,        \* what ffmpeg is at: writing "out", writing "err", "exited"
    clean,     \* ffmpeg left with status 0
    child,     \* a process ffmpeg forked, which holds both pipes open
    outLeft, outPipe,           \* PCM not yet written; in the pipe
    errLeft, errPipe,           \* log text not yet written; in the pipe
    relay,     \* the os/exec copy goroutine: "read", "write", "done"
    pwClosed,  \* pw.Close() was called
    reader, failed, kept,  \* the reader goroutine; firstErr; units suppressed and written
    scanner, line,         \* the scanner goroutine; units of the line it is in
    caller, waitErr,       \* decodeAndSuppress itself; the error of Wait
    decodeCancelled, result

Text == IF statistics THEN {"nl", "cr"} ELSE {"nl"}

childVars == <<statistics, ff, clean, child>>
pipeVars  == <<outLeft, outPipe, errLeft, errPipe>>
readVars  == <<reader, failed, kept>>
scanVars  == <<scanner, line>>
callVars  == <<caller, waitErr, result>>
decodeVars == <<childVars, pipeVars, relay, pwClosed, readVars, scanVars,
          callVars, decodeCancelled>>

DecodeTypeOK ==
    /\ statistics \in BOOLEAN
    /\ ff \in {"out", "err", "exited"} /\ clean \in BOOLEAN /\ child \in BOOLEAN
    /\ outLeft \in 0 .. Chunks /\ outPipe \in 0 .. PipeCap
    /\ errLeft \in 0 .. Reports /\ errPipe \in Seq(Text) /\ Len(errPipe) <= PipeCap
    /\ relay \in {"read", "write", "done"} /\ pwClosed \in BOOLEAN
    /\ reader \in {"reading", "ok", "error"} /\ failed \in BOOLEAN /\ kept \in 0 .. Chunks
    /\ scanner \in {"scanning", "done"} /\ line \in 0 .. LineCap
    /\ caller \in {"drain", "wait", "close", "join", "returned"} /\ waitErr \in BOOLEAN
    /\ decodeCancelled \in BOOLEAN
    /\ result \in {"none", "ok", "cancelled", "ffmpeg", "suppress"}

\* decodeCmd.Start() succeeded and the goroutines run.
DecodeInit ==
    /\ statistics \in BOOLEAN
    /\ ff \in {"out", "err"} /\ clean = FALSE /\ child \in BOOLEAN
    /\ outLeft = Chunks /\ outPipe = 0 /\ errLeft = Reports /\ errPipe = <<>>
    /\ relay = "read" /\ pwClosed = FALSE
    /\ reader = "reading" /\ failed = FALSE /\ kept = 0
    /\ scanner = "scanning" /\ line = 0
    /\ caller = "drain" /\ waitErr = FALSE /\ result = "none"
    /\ decodeCancelled = FALSE

WritersGone == ff = "exited" /\ ~child

(******************************** ffmpeg ***********************************)
WritePCM ==
    /\ ff = "out" /\ outLeft > 0 /\ outPipe < PipeCap
    /\ outLeft' = outLeft - 1 /\ outPipe' = outPipe + 1
    /\ ff' \in {"out", "err"}
    /\ UNCHANGED <<statistics, clean, child, errLeft, errPipe, relay, pwClosed, readVars,
                   scanVars, callVars, decodeCancelled>>

WriteLog ==
    /\ ff = "err" /\ errLeft > 0 /\ Len(errPipe) < PipeCap
    /\ errLeft' = errLeft - 1
    /\ \E t \in Text : errPipe' = Append(errPipe, t)
    /\ ff' \in {"out", "err"}
    /\ UNCHANGED <<statistics, clean, child, outLeft, outPipe, relay, pwClosed, readVars,
                   scanVars, callVars, decodeCancelled>>

\* Nothing left on the stream it turned to: ffmpeg turns to the other one.
Turn ==
    /\ \/ ff = "out" /\ outLeft = 0 /\ errLeft > 0 /\ ff' = "err"
       \/ ff = "err" /\ errLeft = 0 /\ outLeft > 0 /\ ff' = "out"
    /\ UNCHANGED <<statistics, clean, child, pipeVars, relay, pwClosed, readVars,
                   scanVars, callVars, decodeCancelled>>

Finish ==
    /\ ff # "exited" /\ outLeft = 0 /\ errLeft = 0
    /\ ff' = "exited" /\ clean' = TRUE
    /\ UNCHANGED <<statistics, child, pipeVars, relay, pwClosed, readVars, scanVars,
                   callVars, decodeCancelled>>

\* A corrupt source, a full disk: ffmpeg gives up with a non-zero status.
FfmpegFails ==
    /\ ff # "exited" /\ ff' = "exited"
    /\ UNCHANGED <<statistics, clean, child, pipeVars, relay, pwClosed, readVars,
                   scanVars, callVars, decodeCancelled>>

ChildExits ==
    /\ child /\ child' = FALSE
    /\ UNCHANGED <<statistics, ff, clean, pipeVars, relay, pwClosed, readVars, scanVars,
                   callVars, decodeCancelled>>

(********************* the caller's context and its kills ******************)
CancelDecode ==
    /\ ~decodeCancelled /\ caller # "returned" /\ decodeCancelled' = TRUE
    /\ UNCHANGED <<childVars, pipeVars, relay, pwClosed, readVars, scanVars,
                   callVars>>

\* exec.CommandContext kills the immediate child, and only that one.
KillProcess ==
    /\ decodeCancelled /\ caller # "returned" /\ ff # "exited" /\ ff' = "exited"
    /\ UNCHANGED <<statistics, clean, child, pipeVars, relay, pwClosed, readVars,
                   scanVars, callVars, decodeCancelled>>

\* The watcher goroutine, alive until decodeDone is closed by the return.
KillProcessGroup ==
    /\ decodeCancelled /\ caller # "returned" /\ ~WritersGone
    /\ ff' = "exited" /\ child' = FALSE
    /\ UNCHANGED <<statistics, clean, pipeVars, relay, pwClosed, readVars, scanVars,
                   callVars, decodeCancelled>>

(****************************** the goroutines *****************************)
\* The copy goroutine of os/exec: read from the pipe, then block in pw.Write.
Relay ==
    /\ relay = "read"
    /\ \/ outPipe > 0 /\ outPipe' = outPipe - 1 /\ relay' = "write"
       \/ outPipe = 0 /\ WritersGone /\ relay' = "done" /\ UNCHANGED outPipe
    /\ UNCHANGED <<childVars, outLeft, errLeft, errPipe, pwClosed, readVars,
                   scanVars, callVars, decodeCancelled>>

\* pr.Read returned data: suppress it, or discard it once something failed.
ReadPCM ==
    /\ reader = "reading" /\ relay = "write" /\ relay' = "read"
    /\ \/ ~failed /\ kept' = kept + 1 /\ UNCHANGED failed
       \/ ~failed /\ failed' = TRUE /\ UNCHANGED kept
       \/ failed /\ UNCHANGED <<failed, kept>>
    /\ UNCHANGED <<childVars, pipeVars, pwClosed, reader, scanVars,
                   callVars, decodeCancelled>>

\* pr.Read returned io.EOF: report the first error, or the outcome of Flush.
ReadEOF ==
    /\ reader = "reading" /\ pwClosed /\ relay # "write"
    /\ reader' \in IF failed THEN {"error"} ELSE {"ok", "error"}
    /\ UNCHANGED <<childVars, pipeVars, relay, pwClosed, failed, kept,
                   scanVars, callVars, decodeCancelled>>

\* sc.Scan() with text to read: a line end hands the line over, text without
\* one accumulates, and a line beyond the scanner's buffer ends the loop.
ScanText ==
    /\ scanner = "scanning" /\ errPipe # <<>>
    /\ errPipe' = Tail(errPipe)
    /\ \/ Head(errPipe) = "nl" /\ line' = 0 /\ UNCHANGED scanner
       \/ Head(errPipe) = "cr" /\ line + 1 < LineCap /\ line' = line + 1 /\ UNCHANGED scanner
       \/ Head(errPipe) = "cr" /\ line + 1 = LineCap /\ line' = LineCap /\ scanner' = "done"
    /\ UNCHANGED <<childVars, outLeft, outPipe, errLeft, relay, pwClosed,
                   readVars, callVars, decodeCancelled>>

ScanEOF ==
    /\ scanner = "scanning" /\ errPipe = <<>> /\ WritersGone
    /\ scanner' = "done"
    /\ UNCHANGED <<childVars, pipeVars, relay, pwClosed, readVars, line,
                   callVars, decodeCancelled>>

\* Mutant of Drain: Wait is called before standard error has been drained.
DrainSkipped ==
    /\ caller = "drain" /\ caller' = "wait"
    /\ UNCHANGED <<childVars, pipeVars, relay, pwClosed, readVars, scanVars,
                   waitErr, result, decodeCancelled>>

(**************************** decodeAndSuppress ****************************)
Drain ==
    /\ caller = "drain" /\ scanner = "done" /\ caller' = "wait"
    /\ UNCHANGED <<childVars, pipeVars, relay, pwClosed, readVars, scanVars,
                   waitErr, result, decodeCancelled>>

\* decodeCmd.Wait(): the process has ended and so has the copy goroutine.
Wait ==
    /\ caller = "wait" /\ ff = "exited" /\ relay = "done"
    /\ waitErr' = ~clean /\ caller' = "close"
    /\ UNCHANGED <<childVars, pipeVars, relay, pwClosed, readVars, scanVars,
                   result, decodeCancelled>>

ClosePipe ==
    /\ caller = "close" /\ pwClosed' = TRUE /\ caller' = "join"
    /\ UNCHANGED <<childVars, pipeVars, relay, readVars, scanVars, waitErr,
                   result, decodeCancelled>>

Return ==
    /\ caller = "join" /\ reader # "reading" /\ caller' = "returned"
    /\ result' = CASE decodeCancelled -> "cancelled"
                   [] ~decodeCancelled /\ waitErr -> "ffmpeg"
                   [] ~decodeCancelled /\ ~waitErr /\ reader = "error" -> "suppress"
                   [] OTHER -> "ok"
    /\ UNCHANGED <<childVars, pipeVars, relay, pwClosed, readVars, scanVars,
                   waitErr, decodeCancelled>>

FfmpegStep == WritePCM \/ WriteLog \/ Turn \/ Finish
DecodeNext ==
    \/ WritePCM \/ WriteLog \/ Turn \/ Finish \/ FfmpegFails \/ ChildExits
    \/ CancelDecode \/ KillProcess \/ KillProcessGroup
    \/ Relay \/ ReadPCM \/ ReadEOF \/ ScanText \/ ScanEOF
    \/ Drain \/ Wait \/ ClosePipe \/ Return

DecodeSpec == DecodeInit /\ [][DecodeNext]_decodeVars

\* Every goroutine is scheduled; ffmpeg keeps working unless it is blocked in a
\* write.  A process it forked may never leave by itself.
DecodeFairness ==
    /\ WF_decodeVars(FfmpegStep)
    /\ WF_decodeVars(Relay) /\ WF_decodeVars(ReadPCM) /\ WF_decodeVars(ReadEOF)
    /\ WF_decodeVars(ScanText) /\ WF_decodeVars(ScanEOF)
    /\ WF_decodeVars(Drain) /\ WF_decodeVars(Wait) /\ WF_decodeVars(ClosePipe) /\ WF_decodeVars(Return)
    /\ WF_decodeVars(KillProcess) /\ WF_decodeVars(KillProcessGroup)

-----------------------------------------------------------------------------
\* A decode reported as successful has suppressed and written every unit the
\* source holds: neither a suppressor error, nor a child that failed after its
\* last write, nor a closed pipe may pass off a truncated file as a whole one.
SuccessIsWhole ==
    result = "ok" => kept = Chunks /\ clean

\* parseFFmpegError reads the child's whole log, if it consists of lines: once the caller has gone past
\* the drain, nobody writes to standard error any more and nothing is left in
\* it, so Wait, which closes it, cuts nothing off.
LogIsWhole ==
    (caller # "drain" /\ ~statistics) => errPipe = <<>> /\ WritersGone

\* The reader is never left behind: when decodeAndSuppress returns, and the PCM
\* file is closed under it, no goroutine still reads, scans or relays.
NobodyLeft ==
    caller = "returned" =>
        /\ reader # "reading" /\ scanner = "done" /\ relay = "done"
        /\ outPipe = 0

\* Every decode whose log consists of lines returns, whatever fails, provided
\* nothing ffmpeg forked keeps the pipes open: the reader goes on draining
\* after its first error.
DecodeReturns == child \/ statistics \/ <>(caller = "returned")

\* A cancelled decode returns even if a forked process never leaves, and
\* also when statistics without a line end have stopped the scanner.
CancelReturns == decodeCancelled ~> caller = "returned"

\* No unit is lost on its way before the first error: it is still ffmpeg's, in
\* the pipe, in the hands of the copy goroutine, or written.
Unlost ==
    /\ ~failed => outLeft + outPipe + (IF relay = "write" THEN 1 ELSE 0) + kept = Chunks
    /\ clean => ff = "exited" /\ outLeft = 0
    /\ relay = "done" => outPipe = 0 /\ WritersGone
    /\ (scanner = "done" /\ ~statistics) => errPipe = <<>> /\ WritersGone

\* The caller goes through drain, wait, close and join in this order, and takes
\* from each what it may rely on at the next.
InTurn ==
    /\ caller # "drain" => scanner = "done"
    /\ caller \in {"close", "join", "returned"} =>
         ff = "exited" /\ relay = "done" /\ waitErr = ~clean
    /\ pwClosed <=> caller \in {"join", "returned"}
    /\ reader # "reading" => pwClosed
    /\ reader = "ok" => ~failed
    /\ caller = "returned" => reader # "reading"
    /\ result # "none" => caller = "returned"
    /\ result = "ok" => ~waitErr /\ reader = "ok"

\* What a decode answers, wherever suppressor, child or caller failed: success
\* only for the whole, the error from the whole log, and nobody left behind.
DecodeInv ==
    DecodeTypeOK /\ Unlost /\ InTurn /\ SuccessIsWhole /\ LogIsWhole /\ NobodyLeft

\* A decode ends: by itself, or when it is cancelled.
DecodeEnds == DecodeReturns /\ CancelReturns
=============================================================================
