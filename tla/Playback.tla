------------------------------ MODULE Playback ------------------------------
(***************************************************************************)
(* Bot audio on its way to the caller (pkg/rtp/playback.go): goroutines    *)
(* that inject utterances, one frame at a time, the barge-in that clears   *)
(* the queue, and the loop that sends a frame every 20 ms.                 *)
(*                                                                         *)
(* The queue's mutex is held for one operation, never for an utterance.    *)
(* Frames are known by who injected them and their place in the            *)
(* utterance; resampling, encoding and the RTP header are left out.        *)
(***************************************************************************)
EXTENDS Integers, Sequences, FiniteSets

CONSTANTS
  Injectors,
  MaxDepth,       (* of the queue: 50 in the code                           *)
  UtteranceLen,   (* frames in an utterance, the padded last one included   *)
  MaxUtterances,  (* bound: how many utterances each injector has           *)
  Glitches        (* bound: writes that fail while the socket is open       *)

ASSUME PlaybackAssumption ==
  /\ MaxDepth \in Nat \ {0} /\ UtteranceLen \in Nat \ {0}
  /\ MaxUtterances \in Nat /\ Glitches \in Nat

VARIABLES
  frames,     (* q.frames                                                   *)
  pushed, popped, dropped, cleared,   (* the counters                       *)
  utterance,  (* the utterance each injector is at                          *)
  next,       (* the frame it pushes next; 0 between two calls              *)
  accepted,   (* allAccepted of the call; afterwards, what it returned      *)
  loop,       (* the playback loop: tick, send, ended                       *)
  popd,       (* the frame it popped and is about to write                  *)
  cancelled,  (* the session was stopped: context cancelled, socket closed  *)
  glitches,   (* environment: failed writes so far                          *)
  aired,      (* history: the frame written last                            *)
  silenced,   (* history: frames a barge-in discarded                       *)
  refused     (* history: frames a full queue refused                       *)

counters == <<pushed, popped, dropped, cleared>>
injectVars == <<utterance, next, accepted, refused>>
loopVars == <<loop, popd, cancelled, glitches, aired>>
playbackVars == <<frames, counters, injectVars, loopVars, silenced>>

Frames == [by : Injectors, utt : 1 .. MaxUtterances, n : 1 .. UtteranceLen]
NoFrame == [by |-> "nobody"]

PlaybackTypeOK ==
  /\ frames \in Seq(Frames) /\ Len(frames) <= MaxDepth
  /\ {pushed, popped, dropped, cleared} \subseteq Nat
  /\ utterance \in [Injectors -> 0 .. MaxUtterances]
  /\ next \in [Injectors -> 0 .. UtteranceLen]
  /\ accepted \in [Injectors -> BOOLEAN]
  /\ loop \in {"tick", "send", "ended"}
  /\ popd \in Frames \cup {NoFrame} /\ aired \in Frames \cup {NoFrame}
  /\ cancelled \in BOOLEAN /\ glitches \in 0 .. Glitches
  /\ silenced \subseteq Frames /\ refused \subseteq Frames

PlaybackInit ==
  /\ frames = << >>
  /\ pushed = 0 /\ popped = 0 /\ dropped = 0 /\ cleared = 0
  /\ utterance = [i \in Injectors |-> 0]
  /\ next = [i \in Injectors |-> 0]
  /\ accepted = [i \in Injectors |-> TRUE]
  /\ loop = "tick" /\ popd = NoFrame /\ aired = NoFrame
  /\ cancelled = FALSE /\ glitches = 0
  /\ silenced = {} /\ refused = {}

-----------------------------------------------------------------------------
(* InjectBotAudio *)

InjectCall(i) ==
  /\ next[i] = 0 /\ utterance[i] < MaxUtterances
  /\ utterance' = [utterance EXCEPT ![i] = @ + 1]
  /\ next' = [next EXCEPT ![i] = 1]
  /\ accepted' = [accepted EXCEPT ![i] = TRUE]
  /\ UNCHANGED <<frames, counters, loopVars, silenced, refused>>

NextFrame(i) == [by |-> i, utt |-> utterance[i], n |-> next[i]]

Advance(i) == next' = [next EXCEPT ![i] = IF @ = UtteranceLen THEN 0 ELSE @ + 1]

Push(i) ==
  /\ next[i] > 0 /\ Len(frames) < MaxDepth
  /\ frames' = Append(frames, NextFrame(i))
  /\ pushed' = pushed + 1
  /\ Advance(i)
  /\ UNCHANGED <<popped, dropped, cleared, utterance, accepted, refused>>
  /\ UNCHANGED <<loopVars, silenced>>

(* Faulty: the call answers for its last frame only. *)
PushRefusedForgiving(i) ==
  /\ next[i] > 0 /\ Len(frames) >= MaxDepth
  /\ dropped' = dropped + 1
  /\ accepted' = [accepted EXCEPT ![i] = next[i] < UtteranceLen]
  /\ refused' = refused \cup {NextFrame(i)}
  /\ Advance(i)
  /\ UNCHANGED <<frames, pushed, popped, cleared, utterance, loopVars, silenced>>

(* The queue is full: the frame is gone, the call goes on with the next. *)
PushRefused(i) ==
  /\ next[i] > 0 /\ Len(frames) >= MaxDepth
  /\ dropped' = dropped + 1
  /\ accepted' = [accepted EXCEPT ![i] = FALSE]
  /\ refused' = refused \cup {NextFrame(i)}
  /\ Advance(i)
  /\ UNCHANGED <<frames, pushed, popped, cleared, utterance, loopVars, silenced>>

(* Faulty: the newest frame survives a barge-in. *)
ClearButOne ==
  /\ frames # << >>
  /\ frames' = <<frames[Len(frames)]>>
  /\ cleared' = cleared + Len(frames) - 1
  /\ silenced' = silenced \cup {frames[k] : k \in 1 .. Len(frames)}
  /\ UNCHANGED <<pushed, popped, dropped, injectVars, loopVars>>

(* Barge-in.  An injection under way goes on behind it. *)
ClearPlayback ==
  /\ frames # << >>
  /\ frames' = << >>
  /\ cleared' = cleared + Len(frames)
  /\ silenced' = silenced \cup {frames[k] : k \in 1 .. Len(frames)}
  /\ UNCHANGED <<pushed, popped, dropped, injectVars, loopVars>>

-----------------------------------------------------------------------------
(* The playback loop *)

(* A tick with a frame waiting; without one only the clock advances. *)
Pop ==
  /\ loop = "tick" /\ frames # << >>
  /\ popd' = Head(frames) /\ frames' = Tail(frames)
  /\ popped' = popped + 1 /\ loop' = "send"
  /\ UNCHANGED <<pushed, dropped, cleared, injectVars, silenced>>
  /\ UNCHANGED <<cancelled, glitches, aired>>

Write ==
  /\ loop = "send" /\ ~cancelled
  /\ loop' = "tick" /\ aired' = popd /\ popd' = NoFrame
  /\ UNCHANGED <<frames, counters, injectVars, silenced>>
  /\ UNCHANGED <<cancelled, glitches>>

(* Any error of the write ends the loop: after Stop the socket is closed,  *)
(* before it a write may fail for a moment.                                *)
WriteFails ==
  /\ loop = "send"
  /\ \/ cancelled /\ UNCHANGED glitches
     \/ ~cancelled /\ glitches < Glitches /\ glitches' = glitches + 1
  /\ loop' = "ended" /\ popd' = NoFrame
  /\ UNCHANGED <<frames, counters, injectVars, silenced, cancelled, aired>>

LoopCancelled ==
  /\ loop = "tick" /\ cancelled
  /\ loop' = "ended"
  /\ UNCHANGED <<frames, counters, injectVars, silenced>>
  /\ UNCHANGED <<popd, cancelled, glitches, aired>>

Stop ==
  /\ ~cancelled /\ cancelled' = TRUE
  /\ UNCHANGED <<frames, counters, injectVars, silenced>>
  /\ UNCHANGED <<loop, popd, glitches, aired>>

-----------------------------------------------------------------------------
playbackLoop == Pop \/ Write \/ WriteFails \/ LoopCancelled

PlaybackNext ==
  \/ \E i \in Injectors : InjectCall(i) \/ Push(i) \/ PushRefused(i)
  \/ ClearPlayback
  \/ playbackLoop
  \/ Stop

PlaybackSpec == PlaybackInit /\ [][PlaybackNext]_playbackVars

(* The ticker keeps ticking and the write returns. *)
PlaybackFairness == WF_playbackVars(playbackLoop)

-----------------------------------------------------------------------------
(* Properties *)

(* Every frame the queue took is played, discarded by a barge-in or still  *)
(* waiting; every frame is either taken or counted as dropped.             *)
FramesBalanced ==
  /\ pushed = popped + cleared + Len(frames)
  /\ dropped = Cardinality(refused)

(* "Returns true if all frames were accepted": a call that has found the   *)
(* queue full does not answer true, whichever frame it was.                *)
AnswersTruly ==
  \A i \in Injectors :
    accepted[i] => ~ \E f \in refused : f.by = i /\ f.utt = utterance[i]

(* What a barge-in discarded is never heard afterwards, although the loop, *)
(* the injectors and the barge-in share the queue.                         *)
SilencedForGood == [][aired' # aired => aired' \notin silenced]_playbackVars

(* As long as the session runs and no write fails, an accepted frame is    *)
(* played or discarded by a barge-in, whoever injects behind or before it. *)
AcceptedIsPlayed ==
  \A f \in Frames :
    (\E k \in 1 .. Len(frames) : frames[k] = f)
      ~> (aired = f \/ f \in silenced \/ cancelled \/ glitches > 0)

\* A frame whose injector has gone on to another.
Behind(f) ==
  \/ f.utt < utterance[f.by]
  \/ f.utt = utterance[f.by] /\ (next[f.by] = 0 \/ f.n < next[f.by])

(* No frame is queued twice, or again after it was taken, discarded or      *)
(* refused.                                                                 *)
FramesOnce ==
  /\ \A k \in 1 .. Len(frames) :
       Behind(frames[k]) /\ frames[k] \notin silenced /\ (loop = "send" => frames[k] # popd)
  /\ \A j, k \in 1 .. Len(frames) : frames[j] = frames[k] => j = k
  /\ \A f \in silenced \cup refused : Behind(f)
  /\ \A i \in Injectors : next[i] > 0 => utterance[i] > 0
  /\ IF loop = "send" THEN popd \in Frames \ silenced /\ Behind(popd) ELSE popd = NoFrame
  /\ IsFiniteSet(refused)

(* The queue, its counters and the answers of InjectBotAudioAtRate agree,  *)
(* whatever injectors, barge-ins and the playback loop do in between.      *)
PlaybackInv == PlaybackTypeOK /\ FramesBalanced /\ AnswersTruly /\ FramesOnce
=============================================================================
