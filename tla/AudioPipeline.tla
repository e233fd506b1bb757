--------------------------- MODULE AudioPipeline ---------------------------
(***************************************************************************)
(* The frame pipeline (pkg/audio/pipeline.go): the audio goroutine calls   *)
(* ProcessFrames (or Process48k), Flush and Reset; a controller toggles    *)
(* the bypass and resets the statistics while frames are on their way.     *)
(*                                                                         *)
(* Audio is counted in units, of which an input frame has InputFrame and   *)
(* the frame of Flush has FlushFrame (320 bytes whatever the input rate).  *)
(* The stages are what they did to the frame in hand: "nr" echo and noise  *)
(* reduction, "suppress" the suppressor, "level" gain and limiter.  All    *)
(* are configured, but for the suppressor, which Process48k can do         *)
(* without; resampling, diarization and turn ends are left out.            *)
(***************************************************************************)
EXTENDS Integers

CONSTANTS
  InputFrame, FlushFrame,
  Chunks,       (* sizes of the inputs of ProcessFrames                     *)
  MaxFed,       (* bound: units fed                                         *)
  MaxErrors,    (* bound: stages or writes that fail                        *)
  MaxToggles,   (* bound: SetBypass calls                                   *)
  MaxResets     (* bound: ResetStats calls                                  *)

ASSUME PipelineAssumption ==
  /\ InputFrame \in Nat \ {0} /\ FlushFrame \in Nat \ {0}
  /\ Chunks \subseteq Nat \ {0}
  /\ {MaxFed, MaxErrors, MaxToggles, MaxResets} \subseteq Nat

VARIABLES
  wideband,   (* the stream is fed to Process48k, from its beginning       *)
  suppressor, (* the pipeline has one                                       *)
  buf,        (* units in p.buf                                             *)
  data,       (* units the running call still holds                         *)
  pc,         (* where the audio goroutine is                               *)
  latched,    (* the local bypassed of the frame in hand                    *)
  stages,     (* what was done to it                                        *)
  bypassed,   (* p.bypassed                                                 *)
  framesProcessed, framesSuppressed, framesSilent,
  passed,     (* history: speech frames for which there was no suppressor   *)
  asked,      (* history: bypassed when the frame in hand was begun         *)
  last,       (* history: asked and stages of the frame written last        *)
  fed, written, flushed,   (* history: units in, frames out, units flushed  *)
  errors, toggles, resets

statVars == <<framesProcessed, framesSuppressed, framesSilent, passed>>
streamVars == <<fed, written, flushed, last>>
frameVars == <<latched, stages, asked>>
controlVars == <<bypassed, toggles, resets>>
pipelineVars == <<wideband, suppressor, buf, data, pc, frameVars, controlVars, statVars, streamVars, errors>>

Stages == {"nr", "suppress", "level"}

PipelineTypeOK ==
  /\ wideband \in BOOLEAN /\ suppressor \in BOOLEAN
  /\ buf \in 0 .. InputFrame - 1 /\ data \in 0 .. MaxFed + InputFrame
  /\ pc \in {"idle", "frame", "nr", "gate", "level", "count", "write",
             "nr48", "gate48", "suppress48", "level48"}
  /\ latched \in BOOLEAN /\ asked \in BOOLEAN /\ bypassed \in BOOLEAN
  /\ stages \subseteq Stages
  /\ last \in [asked : BOOLEAN, stages : SUBSET Stages]
  /\ \A n \in {framesProcessed, framesSuppressed, framesSilent, passed, written} : n \in 0 .. MaxFed
  /\ fed \in 0 .. MaxFed /\ flushed \in 0 .. MaxFed
  /\ errors \in 0 .. MaxErrors /\ toggles \in 0 .. MaxToggles /\ resets \in 0 .. MaxResets

PipelineInit ==
  /\ wideband \in BOOLEAN /\ suppressor \in BOOLEAN /\ (~suppressor => wideband)
  /\ buf = 0 /\ data = 0 /\ pc = "idle"
  /\ latched = FALSE /\ asked = FALSE /\ bypassed = FALSE /\ stages = {}
  /\ framesProcessed = 0 /\ framesSuppressed = 0 /\ framesSilent = 0 /\ passed = 0
  /\ last = [asked |-> FALSE, stages |-> {}]
  /\ fed = 0 /\ written = 0 /\ flushed = 0
  /\ errors = 0 /\ toggles = 0 /\ resets = 0

-----------------------------------------------------------------------------
(* ProcessFrames *)

Feed(n) ==
  /\ pc = "idle" /\ ~wideband /\ fed + n <= MaxFed
  /\ data' = buf + n /\ buf' = 0 /\ pc' = "frame" /\ fed' = fed + n
  /\ UNCHANGED <<frameVars, controlVars, statVars, written, flushed, last, errors>>

StartFrame ==
  /\ pc = "frame" /\ data >= InputFrame
  /\ data' = data - InputFrame /\ pc' = "nr"
  /\ latched' = bypassed /\ asked' = bypassed /\ stages' = {}
  /\ UNCHANGED <<buf, controlVars, statVars, streamVars, errors>>

EndCall ==
  /\ pc = "frame" /\ data < InputFrame
  /\ buf' = data /\ data' = 0 /\ pc' = "idle"
  /\ UNCHANGED <<frameVars, controlVars, statVars, streamVars, errors>>

Step(from, to, done) == pc = from /\ pc' = to /\ stages' = stages \cup done

ReduceNoise ==
  /\ Step("nr", "gate", IF latched THEN {} ELSE {"nr"})
  /\ UNCHANGED <<buf, data, latched, asked, controlVars, statVars, streamVars, errors>>

(* Faulty: the switch is asked again, not the frame's latch. *)
GateUnlatched ==
  /\ \E speech \in BOOLEAN :
       Step("gate", "level", IF bypassed \/ ~speech THEN {} ELSE {"suppress"})
  /\ latched' = bypassed
  /\ UNCHANGED <<buf, data, asked, controlVars, statVars, streamVars, errors>>

(* The VAD lets speech through to the suppressor. *)
Gate ==
  /\ \E speech \in BOOLEAN :
       Step("gate", "level", IF latched \/ ~speech THEN {} ELSE {"suppress"})
  /\ UNCHANGED <<buf, data, latched, asked, controlVars, statVars, streamVars, errors>>

Level ==
  /\ Step("level", "count", IF latched THEN {} ELSE {"level"})
  /\ UNCHANGED <<buf, data, latched, asked, controlVars, statVars, streamVars, errors>>

(* One critical section for all three counters. *)
Count ==
  /\ Step("count", "write", {})
  /\ framesProcessed' = framesProcessed + 1
  /\ framesSuppressed' = framesSuppressed + (IF "suppress" \in stages THEN 1 ELSE 0)
  /\ framesSilent' = framesSilent + (IF "suppress" \in stages THEN 0 ELSE 1)
  /\ UNCHANGED <<passed, buf, data, latched, asked, controlVars, streamVars, errors>>

Write ==
  /\ Step("write", "frame", {})
  /\ written' = written + 1 /\ last' = [asked |-> asked, stages |-> stages]
  /\ UNCHANGED <<buf, data, latched, asked, controlVars, statVars, fed, flushed, errors>>

(* An enabled stage or the write fails: the call returns, and with it goes *)
(* what it had not yet processed.  Resampling cannot fail: the rates it is *)
(* given are positive (inputRate).                                         *)
Fail ==
  /\ \/ pc = "nr" /\ ~latched
     \/ pc = "gate" /\ ~latched
     \/ pc \in {"write", "nr48", "suppress48"}
  /\ errors < MaxErrors /\ errors' = errors + 1
  /\ pc' = "idle" /\ data' = 0
  /\ UNCHANGED <<buf, frameVars, controlVars, statVars, streamVars>>

-----------------------------------------------------------------------------
(* Process48k: one frame a call, counters in sections of their own, no     *)
(* look at the bypass.                                                     *)

Call48 ==
  /\ pc = "idle" /\ wideband /\ fed + InputFrame <= MaxFed
  /\ pc' = "nr48" /\ stages' = {} /\ asked' = bypassed
  /\ fed' = fed + InputFrame
  /\ framesProcessed' = framesProcessed + 1
  /\ UNCHANGED <<buf, data, latched, controlVars, framesSuppressed, framesSilent, passed>>
  /\ UNCHANGED <<written, flushed, last, errors>>

ReduceNoise48 ==
  /\ Step("nr48", "gate48", {"nr"})
  /\ UNCHANGED <<buf, data, latched, asked, controlVars, statVars, streamVars, errors>>

(* Speech that finds no suppressor is passed on and counted nowhere. *)
Gate48 ==
  /\ \/ /\ suppressor /\ Step("gate48", "suppress48", {})
        /\ UNCHANGED <<framesSilent, passed>>
     \/ /\ ~suppressor /\ Step("gate48", "level48", {})
        /\ passed' = passed + 1 /\ UNCHANGED framesSilent
     \/ /\ Step("gate48", "level48", {})
        /\ framesSilent' = framesSilent + 1 /\ UNCHANGED passed
  /\ UNCHANGED <<buf, data, latched, asked, controlVars, framesProcessed, framesSuppressed>>
  /\ UNCHANGED <<streamVars, errors>>

Suppress48 ==
  /\ Step("suppress48", "level48", {"suppress"})
  /\ framesSuppressed' = framesSuppressed + 1
  /\ UNCHANGED <<buf, data, latched, asked, controlVars, framesProcessed, framesSilent, passed>>
  /\ UNCHANGED <<streamVars, errors>>

Level48 ==
  /\ pc = "level48" /\ pc' = "idle" /\ stages' = stages \cup {"level"}
  /\ written' = written + 1 /\ last' = [asked |-> asked, stages |-> stages']
  /\ UNCHANGED <<buf, data, latched, asked, controlVars, statVars, fed, flushed, errors>>

-----------------------------------------------------------------------------
(* Flush writes one frame, the buffered audio padded to FlushFrame. *)
Flush ==
  /\ pc = "idle" /\ buf > 0
  /\ flushed' = flushed + (IF buf < FlushFrame THEN buf ELSE FlushFrame)
  /\ buf' = 0
  /\ UNCHANGED <<data, pc, frameVars, controlVars, statVars, fed, written, last, errors>>

(* The suppressor or the write fails, when the buffer is already empty.    *)
FlushFails ==
  /\ pc = "idle" /\ buf > 0
  /\ errors < MaxErrors /\ errors' = errors + 1
  /\ buf' = 0
  /\ UNCHANGED <<data, pc, frameVars, controlVars, statVars, streamVars>>

(* A new stream. *)
Reset ==
  /\ pc = "idle" /\ fed > 0
  /\ buf' = 0 /\ fed' = 0 /\ written' = 0 /\ flushed' = 0
  /\ framesProcessed' = 0 /\ framesSuppressed' = 0 /\ framesSilent' = 0 /\ passed' = 0
  /\ UNCHANGED <<data, pc, frameVars, controlVars, last, errors>>

(* The controller *)

SetBypass(on) ==
  /\ toggles < MaxToggles /\ toggles' = toggles + 1
  /\ bypassed' = on
  /\ UNCHANGED <<buf, data, pc, frameVars, resets, statVars, streamVars, errors>>

ResetStats ==
  /\ resets < MaxResets /\ resets' = resets + 1
  /\ framesProcessed' = 0 /\ framesSuppressed' = 0 /\ framesSilent' = 0 /\ passed' = 0
  /\ UNCHANGED <<buf, data, pc, frameVars, bypassed, toggles, streamVars, errors>>

PipelineNext ==
  /\ UNCHANGED <<wideband, suppressor>>
  /\ \/ \E n \in Chunks : Feed(n)
     \/ StartFrame \/ EndCall \/ ReduceNoise \/ Gate \/ Level \/ Count \/ Write \/ Fail
     \/ Call48 \/ ReduceNoise48 \/ Gate48 \/ Suppress48 \/ Level48
     \/ Flush \/ FlushFails \/ Reset
     \/ \E on \in BOOLEAN : SetBypass(on)
     \/ ResetStats

PipelineSpec == PipelineInit /\ [][PipelineNext]_pipelineVars

-----------------------------------------------------------------------------
(* Properties *)

(* However the input is cut into calls, no unit of it is written twice, and *)
(* as long as nothing failed, and what is left over fits the frame of      *)
(* Flush, every one is written, flushed or still buffered.                 *)
FedIsWritten ==
  pc = "idle" =>
    /\ InputFrame * written + buf + flushed <= fed
    /\ (errors = 0 /\ InputFrame <= FlushFrame + 1)
         => fed = InputFrame * written + buf + flushed

(* SetBypass takes hold of whole frames, from the next one on: a frame     *)
(* begun while the bypass was on leaves untouched, any other went through  *)
(* noise reduction and levelling, whenever the switch was toggled.         *)
RawOrEnhanced ==
  (~wideband /\ written > 0) =>
    IF last.asked THEN last.stages = {} ELSE {"nr", "level"} \subseteq last.stages

(* A snapshot taken at any moment, statistics being reset at any other:    *)
(* the frames processed are those suppressed and those silent.             *)
StatsAddUp == ~wideband => framesProcessed = framesSuppressed + framesSilent

(* Process48k counts a frame before it knows what becomes of it: until the *)
(* statistics are reset a snapshot runs ahead by the frame in hand, by the *)
(* frames that failed, and by the speech that found no suppressor, never   *)
(* behind.                                                                 *)
Stats48Ahead ==
  (wideband /\ resets = 0) =>
    /\ framesSuppressed + framesSilent + passed <= framesProcessed
    /\ framesProcessed <= framesSuppressed + framesSilent + passed + errors + 1

NarrowPlaces == {"nr", "gate", "level", "count"}
WidePlaces == {"nr48", "gate48", "suppress48"}

(* Where the audio goroutine can be, and what is held there.               *)
OnItsPath ==
  /\ pc \in {"idle"} \cup IF wideband THEN WidePlaces \cup {"level48"} ELSE NarrowPlaces \cup {"frame", "write"}
  /\ (pc = "idle" \/ wideband) => data = 0
  /\ (pc # "idle" \/ wideband) => buf = 0

(* The frame in hand, at the places where it is still to be counted: as    *)
(* written, as processed, as suppressed, silent or passed on.              *)
Holding(places) == IF pc \in places THEN 1 ELSE 0
Begun == written + Holding(NarrowPlaces \cup WidePlaces \cup {"write", "level48"})
Processed == framesProcessed + Holding(NarrowPlaces)
Classified == framesSuppressed + framesSilent + passed + Holding(NarrowPlaces \cup WidePlaces)

(* Between calls, too: units are frames, or wait to be.                    *)
UnitsBalance ==
  /\ InputFrame * Begun + data + buf + flushed <= fed
  /\ (errors = 0 /\ InputFrame <= FlushFrame + 1)
       => fed = InputFrame * Begun + data + buf + flushed
  /\ InputFrame * Processed + data + buf <= fed
  /\ InputFrame * Classified + data + buf <= fed
  /\ (wideband /\ resets = 0) =>
       Classified <= framesProcessed /\ framesProcessed <= Classified + errors

(* The stages follow what was latched, which is what was asked for.        *)
StagesFollowLatch ==
  ~wideband =>
    /\ latched = asked
    /\ (latched /\ pc \in NarrowPlaces \cup {"write"}) => stages = {}
    /\ (~latched /\ pc \in {"gate", "level", "count", "write"}) => "nr" \in stages
    /\ (~latched /\ pc \in {"count", "write"}) => "level" \in stages

(* Whatever the order of calls, failures, switches and resets: no audio is *)
(* lost or doubled, frames are treated as a whole, and the counters tell   *)
(* what was done.                                                          *)
PipelineInv ==
  /\ PipelineTypeOK /\ FedIsWritten /\ RawOrEnhanced /\ StatsAddUp /\ Stats48Ahead
  /\ OnItsPath /\ UnitsBalance /\ StagesFollowLatch
=============================================================================
