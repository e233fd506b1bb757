----------------------------- MODULE BillingWAL -----------------------------
(***************************************************************************)
(* The write-ahead log of call detail records (pkg/billing/wal.go).  Each  *)
(* writer is a process with one open file; its methods hold its mutex, so  *)
(* a writer does one thing at a time, but between any two file operations  *)
(* the process may crash, and other writers share the directory.           *)
(*                                                                         *)
(* A file is the set of records that can be read back from it.  A write    *)
(* that fails half-way leaves a line without its end: the line written     *)
(* next is glued to it and cannot be parsed.  A log may have nobody to     *)
(* push its records to: OnFlush is nil.                                    *)
(***************************************************************************)
EXTENDS FiniteSets

CONSTANTS
  Writers, CDRs,
  WALFiles,        (* file names: walFileName never repeats one            *)
  None             (* no file: Go's nil                                    *)

ASSUME WALAssumption == None \notin WALFiles \cup CDRs

VARIABLES
  forwards, (* w.OnFlush # nil                                             *)
  disk,    (* the existing files and the records in each                   *)
  torn,    (* the files that end in an unfinished line                     *)
  cur,     (* w.f                                                          *)
  stuck,   (* the writers whose w.f a rotation closed with an error        *)
  pc,      (* where each writer is                                         *)
  cdr,     (* the record being written                                     *)
  file,    (* the file being rotated or recovered                          *)
  rest,    (* RecoverAndFlush: the files it still has to look at           *)
  offered, (* the records given to Write                                   *)
  acked,   (* the records for which Write returned nil                     *)
  pushed,  (* the records OnFlush accepted; the consumer drops repetitions *)
  refused, (* history: the records a rotation did not get pushed           *)
  discarded, (* history: those there was nobody to push to                 *)
  glued    (* history: the records written behind an unfinished line       *)

logVars == <<forwards, offered, acked, pushed>>
lossVars == <<refused, discarded, glued>>
walVars == <<disk, torn, cur, stuck, pc, cdr, file, rest, logVars, lossVars>>
localVars == <<cdr, file, rest>>

Steps == {"down", "idle", "flush", "remove", "open", "append", "scan", "rmrecovered"}

WALTypeOK ==
  /\ forwards \in BOOLEAN
  /\ disk \in UNION {[fs -> SUBSET CDRs] : fs \in SUBSET WALFiles}
  /\ torn \in SUBSET WALFiles
  /\ cur \in [Writers -> WALFiles \cup {None}] /\ stuck \in SUBSET Writers
  /\ pc \in [Writers -> Steps]
  /\ cdr \in [Writers -> CDRs \cup {None}]
  /\ file \in [Writers -> WALFiles \cup {None}]
  /\ rest \in [Writers -> SUBSET WALFiles]
  /\ offered \in SUBSET CDRs /\ acked \in SUBSET offered /\ pushed \in SUBSET offered
  /\ refused \in SUBSET offered /\ discarded \in SUBSET offered /\ glued \in SUBSET acked

WALInit ==
  /\ forwards \in BOOLEAN
  /\ disk = [f \in {} |-> {}]
  /\ torn = {} /\ stuck = {}
  /\ cur = [w \in Writers |-> None]
  /\ pc = [w \in Writers |-> "down"]
  /\ cdr = [w \in Writers |-> None]
  /\ file = [w \in Writers |-> None]
  /\ rest = [w \in Writers |-> {}]
  /\ offered = {} /\ acked = {} /\ pushed = {}
  /\ refused = {} /\ discarded = {} /\ glued = {}

-----------------------------------------------------------------------------
Goto(w, step) == pc' = [pc EXCEPT ![w] = step]
At(w, from, to) == pc[w] = from /\ Goto(w, to)
Exists(f) == f \in DOMAIN disk

(* os.Remove: no error if the file is gone already. *)
RemoveFile(f) == disk' = [g \in DOMAIN disk \ {f} |-> disk[g]]

Fresh(f) ==
  /\ ~Exists(f) /\ f \notin torn
  /\ \A v \in Writers : f \notin {cur[v], file[v]}

CreateFile(w) ==
  \E f \in WALFiles :
    /\ Fresh(f)
    /\ disk' = [g \in DOMAIN disk \cup {f} |-> IF g = f THEN {} ELSE disk[g]]
    /\ cur' = [cur EXCEPT ![w] = f]

(* NewWALWriter in a new process. *)
NewWALWriter(w) ==
  /\ At(w, "down", "idle")
  /\ CreateFile(w)
  /\ UNCHANGED <<torn, stuck, localVars, logVars, lossVars>>

(* The process dies: what it wrote stays, what it knew is lost.  Bound: it *)
(* does so only while there is a file name left for its successor.         *)
CrashWriter(w) ==
  /\ pc[w] # "down" /\ Goto(w, "down")
  /\ \E f \in WALFiles : Fresh(f)
  /\ cur' = [cur EXCEPT ![w] = None] /\ stuck' = stuck \ {w}
  /\ cdr' = [cdr EXCEPT ![w] = None]
  /\ file' = [file EXCEPT ![w] = None]
  /\ rest' = [rest EXCEPT ![w] = {}]
  /\ UNCHANGED <<disk, torn, logVars, lossVars>>

-----------------------------------------------------------------------------
(* Write.  Whether RotateInterval has elapsed is left open. *)

WriteCall(w) ==
  /\ pc[w] = "idle"
  /\ \E c \in CDRs \ offered :
       /\ cdr' = [cdr EXCEPT ![w] = c]
       /\ offered' = offered \cup {c}
  /\ \/ Goto(w, "append") /\ UNCHANGED <<cur, file>>
     \/ cur[w] = None /\ Goto(w, "open") /\ UNCHANGED <<cur, file>>
     \/ /\ cur[w] # None /\ w \notin stuck /\ Goto(w, "flush")
        /\ file' = [file EXCEPT ![w] = cur[w]]
        /\ cur' = [cur EXCEPT ![w] = None]
  /\ UNCHANGED <<disk, torn, stuck, rest, forwards, acked, pushed, lossVars>>

(* rotate cannot close the file: Write fails, and w.f remains set, to a     *)
(* closed file that can be neither written nor rotated any more.           *)
RotateCloseFails(w) ==
  /\ pc[w] = "idle" /\ cur[w] # None
  /\ \E c \in CDRs \ offered : offered' = offered \cup {c}
  /\ stuck' = stuck \cup {w}
  /\ UNCHANGED <<disk, torn, cur, pc, localVars, forwards, acked, pushed, lossVars>>

(* Faulty: the rotated file is not flushed. *)
RotateFlushNothing(w) ==
  /\ At(w, "flush", "remove")
  /\ UNCHANGED <<disk, torn, cur, stuck, localVars, logVars, lossVars>>

(* rotate: the closed file is read back and handed to OnFlush.  A file that *)
(* cannot be read, or that OnFlush refuses, or that there is no OnFlush     *)
(* for, is removed all the same.                                            *)
RotateFlush(w) ==
  /\ At(w, "flush", "remove")
  /\ LET records == IF Exists(file[w]) THEN disk[file[w]] ELSE {}
     IN  \/ forwards /\ pushed' = pushed \cup records /\ UNCHANGED <<refused, discarded>>
         \/ forwards /\ refused' = refused \cup records /\ UNCHANGED <<pushed, discarded>>
         \/ ~forwards /\ discarded' = discarded \cup records /\ UNCHANGED <<pushed, refused>>
  /\ UNCHANGED <<disk, torn, cur, stuck, localVars, forwards, offered, acked, glued>>

RotateRemove(w) ==
  /\ At(w, "remove", "open")
  /\ RemoveFile(file[w])
  /\ file' = [file EXCEPT ![w] = None]
  /\ UNCHANGED <<torn, cur, stuck, cdr, rest, logVars, lossVars>>

(* Write returns with an error. *)
WriteFails(w) ==
  /\ Goto(w, "idle")
  /\ cdr' = [cdr EXCEPT ![w] = None]
  /\ file' = [file EXCEPT ![w] = None]
  /\ UNCHANGED <<disk, cur, stuck, rest, logVars, lossVars>>

RotateRemoveFails(w) == pc[w] = "remove" /\ WriteFails(w) /\ UNCHANGED torn

OpenNew(w) ==
  /\ At(w, "open", "append")
  /\ CreateFile(w)
  /\ UNCHANGED <<torn, stuck, localVars, logVars, lossVars>>

OpenNewFails(w) == pc[w] = "open" /\ WriteFails(w) /\ UNCHANGED torn

(* Written whole.  The line is lost if it was glued to an unfinished one,  *)
(* or if the file was unlinked meanwhile.                                  *)
AppendLine(w) ==
  /\ At(w, "append", "idle")
  /\ cur[w] # None /\ w \notin stuck
  /\ disk' = IF Exists(cur[w]) /\ cur[w] \notin torn
             THEN [disk EXCEPT ![cur[w]] = @ \cup {cdr[w]}]
             ELSE disk
  /\ torn' = torn \ {cur[w]}
  /\ glued' = IF cur[w] \in torn THEN glued \cup {cdr[w]} ELSE glued
  /\ acked' = acked \cup {cdr[w]}
  /\ cdr' = [cdr EXCEPT ![w] = None]
  /\ UNCHANGED <<cur, stuck, file, rest, forwards, offered, pushed, refused, discarded>>

(* Also when there is no open file, or a closed one. *)
AppendLineFails(w) ==
  /\ pc[w] = "append"
  /\ WriteFails(w)
  /\ \/ UNCHANGED torn
     \/ cur[w] # None /\ w \notin stuck /\ torn' = torn \cup {cur[w]}

CloseWAL(w) ==
  /\ pc[w] = "idle" /\ cur[w] # None
  /\ cur' = [cur EXCEPT ![w] = None] /\ stuck' = stuck \ {w}
  /\ UNCHANGED <<disk, torn, pc, localVars, logVars, lossVars>>

-----------------------------------------------------------------------------
(* RecoverAndFlush *)

(* Faulty: nothing but the file of this process is looked at. *)
RecoverCallOwn(w) ==
  /\ At(w, "idle", "scan")
  /\ rest' = [rest EXCEPT ![w] = DOMAIN disk \cap {cur[w]}]
  /\ UNCHANGED <<disk, torn, cur, stuck, cdr, file, logVars, lossVars>>

RecoverCall(w) ==
  /\ At(w, "idle", "scan")
  /\ rest' = [rest EXCEPT ![w] = DOMAIN disk \ {cur[w]}]
  /\ UNCHANGED <<disk, torn, cur, stuck, cdr, file, logVars, lossVars>>

(* A file found in the directory: pushed if there is an OnFlush, and in     *)
(* either case removed next; or skipped because it cannot be read or        *)
(* OnFlush fails.                                                           *)
RecoverFlush(w, f) ==
  /\ At(w, "scan", "rmrecovered")
  /\ f \in rest[w] /\ Exists(f)
  /\ rest' = [rest EXCEPT ![w] = @ \ {f}]
  /\ IF forwards
     THEN pushed' = pushed \cup disk[f] /\ UNCHANGED discarded
     ELSE discarded' = discarded \cup disk[f] /\ UNCHANGED pushed
  /\ file' = [file EXCEPT ![w] = f]
  /\ UNCHANGED <<disk, torn, cur, stuck, cdr, forwards, offered, acked, refused, glued>>

RecoverSkip(w) ==
  /\ pc[w] = "scan"
  /\ \E f \in rest[w] : rest' = [rest EXCEPT ![w] = @ \ {f}]
  /\ UNCHANGED <<disk, torn, cur, stuck, pc, cdr, file, logVars, lossVars>>

RecoverRemove(w) ==
  /\ At(w, "rmrecovered", "scan")
  /\ RemoveFile(file[w]) \/ UNCHANGED disk
  /\ file' = [file EXCEPT ![w] = None]
  /\ UNCHANGED <<torn, cur, stuck, cdr, rest, logVars, lossVars>>

RecoverReturn(w) ==
  /\ At(w, "scan", "idle")
  /\ rest[w] = {}
  /\ UNCHANGED <<disk, torn, cur, stuck, localVars, logVars, lossVars>>

-----------------------------------------------------------------------------
WriteStep(w) ==
  \/ RotateFlush(w) \/ RotateRemove(w) \/ RotateRemoveFails(w)
  \/ OpenNew(w) \/ OpenNewFails(w) \/ AppendLine(w) \/ AppendLineFails(w)
RecoverStep(w) ==
  (\E f \in WALFiles : RecoverFlush(w, f)) \/ RecoverSkip(w) \/ RecoverRemove(w) \/ RecoverReturn(w)

WALNext ==
  \E w \in Writers :
    \/ NewWALWriter(w) \/ CrashWriter(w)
    \/ WriteCall(w) \/ RotateCloseFails(w) \/ WriteStep(w) \/ CloseWAL(w)
    \/ RecoverCall(w) \/ RecoverStep(w)

WALSpec == WALInit /\ [][WALNext]_walVars

(* Pods are restarted, RecoverAndFlush is called again and again, the      *)
(* consumer is not down for ever.                                          *)
WALFairness ==
  \A w \in Writers :
    /\ WF_walVars(NewWALWriter(w))
    /\ WF_walVars(WriteStep(w)) /\ WF_walVars(RecoverStep(w))
    /\ SF_walVars(RecoverCall(w))
    /\ \A f \in WALFiles : SF_walVars(RecoverFlush(w, f))

-----------------------------------------------------------------------------
(* Properties *)

OnDisk(c) == \E f \in DOMAIN disk : c \in disk[f]

(* A record that Write has acknowledged survives whatever follows -- a      *)
(* crash between any two steps, rotation, recovery: it is on disk or has    *)
(* been pushed.  Three things take it away: a rotation whose OnFlush        *)
(* failed, an unfinished line it was glued to, and, in a log without an     *)
(* OnFlush and in no other, any rotation and any recovery.                  *)
AckedDurable ==
  /\ \A c \in acked \ (refused \cup discarded \cup glued) : OnDisk(c) \/ c \in pushed
  /\ IF forwards THEN discarded = {} ELSE pushed \cup refused = {}

(* "WAL before Kafka": where records are forwarded, one leaves the disk     *)
(* only when it was pushed.                                                 *)
RemovedOnceFlushed ==
  [][forwards => \A c \in CDRs : OnDisk(c) /\ ~OnDisk(c)' => c \in pushed]_walVars

(* OnFlush "may be nil (CDRs are still written to disk, just not            *)
(* forwarded)": what was acknowledged can then be read back from the disk.  *)
WrittenJustNotForwarded == ~forwards => \A c \in acked \ glued : OnDisk(c)

(* Records left behind in a file that no writer has open or in hand, by a   *)
(* crash, by Close or by a rotation that failed half-way, are pushed in the *)
(* end, if there is an OnFlush.                                             *)
LeftBehind(c) ==
  \E f \in DOMAIN disk : c \in disk[f] /\ \A w \in Writers : f \notin {cur[w], file[w]}

LeftBehindPushed == \A c \in CDRs : forwards /\ LeftBehind(c) ~> c \in pushed

(* What a writer has in hand at each of its steps: the record it writes,    *)
(* its open file, which nobody removes, and a file that is safe to remove.  *)
InHand ==
  \A w \in Writers :
    /\ pc[w] = "down" => cur[w] = None /\ file[w] = None
    /\ pc[w] \in {"flush", "remove", "open", "append"} => cdr[w] \in offered
    /\ w \in stuck => cur[w] # None
    /\ cur[w] # None => Exists(cur[w]) /\ cur[w] # file[w] /\ cur[w] \notin rest[w]
    /\ pc[w] \notin {"scan", "rmrecovered"} => rest[w] = {}
    /\ pc[w] \in {"flush", "remove"} => file[w] # None /\ cur[w] = None
    /\ pc[w] = "remove" /\ Exists(file[w]) => disk[file[w]] \subseteq pushed \cup refused \cup discarded
    /\ pc[w] = "rmrecovered" =>
         file[w] # None /\ (Exists(file[w]) => disk[file[w]] \subseteq pushed \cup discarded)

(* Only what Write has acknowledged can be read back.                       *)
ReadBackIsAcked == \A f \in DOMAIN disk : disk[f] \subseteq acked

(* A log directory belongs to one process at a time: the pod, or the one    *)
(* started after it died.                                                   *)
OneAtATime == \A v, w \in Writers : pc[v] # "down" /\ pc[w] # "down" => v = w

(* The log on disk keeps what Write has promised, through every crash.      *)
WALInv == WALTypeOK /\ InHand /\ ReadBackIsAcked /\ AckedDurable
=============================================================================
