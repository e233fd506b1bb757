------------------------ MODULE SessionStreamsProofs ------------------------
(***************************************************************************)
(* Proofs about the streams of an RTP session beside the path of MediaPath: *)
(* bot audio to the caller, telephone events, RTCP statistics.              *)
(***************************************************************************)
EXTENDS Playback, DtmfDetector, RtcpStats, FiniteSetTheorems, TLAPS

-----------------------------------------------------------------------------
(* Playback.                                                                *)

LEMMA PlaybackInitInv == PlaybackInit => PlaybackInv
<1> SUFFICES ASSUME PlaybackInit PROVE PlaybackInv
  OBVIOUS
<1> USE PlaybackAssumption DEF PlaybackInit
<1>1. PlaybackTypeOK
  <2>1. frames \in Seq(Frames) /\ Len(frames) = 0
    OBVIOUS
  <2>2. /\ utterance \in [Injectors -> 0 .. MaxUtterances]
        /\ next \in [Injectors -> 0 .. UtteranceLen] /\ accepted \in [Injectors -> BOOLEAN]
    OBVIOUS
  <2>3. Len(frames) <= MaxDepth /\ {pushed, popped, dropped, cleared} \subseteq Nat /\ glitches \in 0 .. Glitches
    BY <2>1
  <2>4. /\ loop \in {"tick", "send", "ended"} /\ popd \in Frames \cup {NoFrame}
        /\ aired \in Frames \cup {NoFrame} /\ cancelled \in BOOLEAN
        /\ silenced \subseteq Frames /\ refused \subseteq Frames
    OBVIOUS
  <2> QED
    BY <2>1, <2>2, <2>3, <2>4 DEF PlaybackTypeOK
<1>2. FramesBalanced
  BY FS_EmptySet DEF FramesBalanced
<1>3. AnswersTruly /\ FramesOnce
  BY FS_EmptySet DEF AnswersTruly, FramesOnce
<1> QED
  BY <1>1, <1>2, <1>3 DEF PlaybackInv

(* An injector that goes on leaves behind what was behind, and its frame.   *)
LEMMA GoesOn ==
  ASSUME PlaybackTypeOK, FramesOnce, NEW i \in Injectors, utterance' = utterance,
         next[i] > 0, Advance(i), NEW sent, sent = NextFrame(i)
  PROVE  /\ sent \in Frames /\ ~Behind(sent) /\ Behind(sent)'
         /\ \A f \in Frames : Behind(f) => Behind(f)'
         /\ next' \in [Injectors -> 0 .. UtteranceLen]
         /\ \A j \in Injectors : next'[j] > 0 => utterance'[j] > 0
         /\ sent.by = i /\ sent.utt = utterance[i]
<1>0. /\ utterance[i] \in 0 .. MaxUtterances /\ next[i] \in 1 .. UtteranceLen
      /\ next \in [Injectors -> 0 .. UtteranceLen]
      /\ UtteranceLen \in Nat \ {0} /\ MaxUtterances \in Nat
      /\ utterance \in [Injectors -> 0 .. MaxUtterances]
      /\ utterance[i] > 0 /\ \A j \in Injectors : next[j] > 0 => utterance[j] > 0
  BY PlaybackAssumption DEF PlaybackTypeOK, FramesOnce
<1>1. /\ next' = [next EXCEPT ![i] = IF next[i] = UtteranceLen THEN 0 ELSE next[i] + 1]
      /\ next'[i] = IF next[i] = UtteranceLen THEN 0 ELSE next[i] + 1
      /\ \A j \in Injectors \ {i} : next'[j] = next[j]
  BY <1>0 DEF Advance
<1>2. next' \in [Injectors -> 0 .. UtteranceLen]
  BY <1>0, <1>1
<1>3. ASSUME NEW f \in Frames, Behind(f) PROVE Behind(f)'
  <2>1. f.by \in Injectors /\ f.utt \in 1 .. MaxUtterances /\ f.n \in 1 .. UtteranceLen
    BY DEF Frames
  <2>2. CASE f.by = i
    BY <1>0, <1>1, <1>3, <2>1, <2>2 DEF Behind
  <2>3. CASE f.by # i
    BY <1>0, <1>1, <1>3, <2>1, <2>3 DEF Behind
  <2> QED
    BY <2>2, <2>3
<1>4. sent.by = i /\ sent.utt = utterance[i] /\ sent.n = next[i]
  BY DEF NextFrame
<1>5. ~Behind(sent)
  BY <1>0, <1>4 DEF Behind
<1>6. Behind(sent)'
  BY <1>0, <1>1, <1>4 DEF Behind
<1>7. sent \in Frames
  BY <1>0 DEF NextFrame, Frames
<1>8. \A j \in Injectors : next'[j] > 0 => utterance'[j] > 0
  BY <1>0, <1>1
<1> QED
  BY <1>2, <1>3, <1>4, <1>5, <1>6, <1>7, <1>8

(* A call, its frames, and those a full queue refuses.                      *)
LEMMA CallKeepsInv ==
  ASSUME PlaybackInv, NEW i \in Injectors, InjectCall(i)
  PROVE  PlaybackInv'
<1>0. /\ utterance[i] \in 0 .. MaxUtterances /\ next[i] = 0
      /\ next \in [Injectors -> 0 .. UtteranceLen]
      /\ UtteranceLen \in Nat \ {0} /\ MaxUtterances \in Nat
      /\ utterance \in [Injectors -> 0 .. MaxUtterances]
      /\ accepted \in [Injectors -> BOOLEAN] /\ utterance[i] < MaxUtterances
  BY PlaybackAssumption DEF PlaybackInv, PlaybackTypeOK, InjectCall
<1>1. /\ utterance' = [utterance EXCEPT ![i] = utterance[i] + 1] /\ utterance'[i] = utterance[i] + 1
      /\ next' = [next EXCEPT ![i] = 1] /\ next'[i] = 1
      /\ accepted' = [accepted EXCEPT ![i] = TRUE]
      /\ \A j \in Injectors \ {i} : utterance'[j] = utterance[j] /\ next'[j] = next[j]
      /\ \A j \in Injectors \ {i} : accepted'[j] = accepted[j]
      /\ UNCHANGED <<frames, pushed, popped, dropped, cleared, refused, silenced>>
      /\ UNCHANGED <<loop, popd, cancelled, glitches, aired>>
  BY <1>0 DEF InjectCall, counters, loopVars
<1>2. PlaybackTypeOK'
  <2>1. utterance' \in [Injectors -> 0 .. MaxUtterances] /\ next' \in [Injectors -> 0 .. UtteranceLen]
    BY <1>0, <1>1
  <2>2. accepted' \in [Injectors -> BOOLEAN]
    BY <1>0, <1>1, Zenon
  <2> QED
    BY <1>1, <2>1, <2>2 DEF PlaybackInv, PlaybackTypeOK
<1>3. FramesBalanced'
  BY <1>1 DEF PlaybackInv, FramesBalanced
<1>4. ASSUME NEW f \in Frames, Behind(f) PROVE Behind(f)' /\ ~(f.by = i /\ f.utt = utterance'[i])
  <2>1. f.by \in Injectors /\ f.utt \in 1 .. MaxUtterances /\ f.n \in 1 .. UtteranceLen
    BY DEF Frames
  <2>2. CASE f.by = i
    BY <1>0, <1>1, <1>4, <2>1, <2>2 DEF Behind
  <2>3. CASE f.by # i
    BY <1>0, <1>1, <1>4, <2>1, <2>3 DEF Behind
  <2> QED
    BY <2>2, <2>3
<1>5. AnswersTruly'
  <2>1. ASSUME NEW j \in Injectors, accepted'[j], NEW f \in refused, f.by = j, f.utt = utterance'[j]
        PROVE  FALSE
    <3>1. f \in Frames /\ Behind(f)
      BY DEF PlaybackInv, PlaybackTypeOK, FramesOnce
    <3>2. j # i
      BY <1>4, <2>1, <3>1
    <3> QED
      BY <1>1, <2>1, <3>2 DEF PlaybackInv, AnswersTruly
  <2> QED
    BY <1>1, <2>1 DEF AnswersTruly
<1>6. FramesOnce'
  <2>1. \A k \in 1 .. Len(frames) : frames[k] \in Frames
    BY DEF PlaybackInv, PlaybackTypeOK
  <2>2. silenced \cup refused \subseteq Frames
    BY DEF PlaybackInv, PlaybackTypeOK
  <2>3. \A j \in Injectors : next'[j] > 0 => utterance'[j] > 0
    BY <1>0, <1>1 DEF PlaybackInv, FramesOnce
  <2> QED
    BY <1>1, <1>4, <2>1, <2>2, <2>3 DEF PlaybackInv, FramesOnce
<1> QED
  BY <1>2, <1>3, <1>5, <1>6 DEF PlaybackInv

LEMMA PushKeepsInv ==
  ASSUME PlaybackInv, NEW i \in Injectors, Push(i)
  PROVE  PlaybackInv'
<1> DEFINE sent == NextFrame(i)
<1>0. /\ frames \in Seq(Frames) /\ Len(frames) \in Nat /\ Len(frames) < MaxDepth /\ MaxDepth \in Nat
      /\ pushed \in Nat /\ popped \in Nat /\ cleared \in Nat
      /\ next[i] > 0 /\ Advance(i) /\ frames' = Append(frames, sent) /\ pushed' = pushed + 1
      /\ UNCHANGED <<popped, dropped, cleared, utterance, accepted, refused, silenced>>
      /\ UNCHANGED <<loop, popd, cancelled, glitches, aired>>
  BY PlaybackAssumption DEF PlaybackInv, PlaybackTypeOK, Push, loopVars
<1>1. PICK f : f = sent
  OBVIOUS
<1>2. /\ f \in Frames /\ ~Behind(f) /\ Behind(f)'
      /\ \A g \in Frames : Behind(g) => Behind(g)'
      /\ next' \in [Injectors -> 0 .. UtteranceLen]
      /\ \A j \in Injectors : next'[j] > 0 => utterance'[j] > 0
  BY <1>0, <1>1, GoesOn DEF PlaybackInv
<1>3. /\ frames' \in Seq(Frames) /\ Len(frames') = Len(frames) + 1 /\ frames'[Len(frames')] = f
      /\ \A k \in 1 .. Len(frames) : frames'[k] = frames[k]
      /\ \A k \in 1 .. Len(frames) : frames[k] \in Frames
  BY <1>0, <1>1, <1>2
<1>4. PlaybackTypeOK'
  BY <1>0, <1>2, <1>3 DEF PlaybackInv, PlaybackTypeOK
<1>5. FramesBalanced'
  BY <1>0, <1>3 DEF PlaybackInv, FramesBalanced
<1>6. AnswersTruly'
  BY <1>0 DEF PlaybackInv, AnswersTruly
<1>7. FramesOnce'
  <2>0. /\ \A k \in 1 .. Len(frames) : Behind(frames[k]) /\ frames[k] # f
        /\ f \notin silenced /\ (loop = "send" => f # popd)
    BY <1>2 DEF PlaybackInv, FramesOnce
  <2>1. ASSUME NEW k \in 1 .. Len(frames')
        PROVE  Behind(frames[k])' /\ frames'[k] \notin silenced /\ (loop = "send" => frames'[k] # popd)
    <3>1. CASE k = Len(frames')
      BY <1>2, <1>3, <2>0, <3>1
    <3>2. CASE k # Len(frames')
      <4>1. k \in 1 .. Len(frames) /\ frames'[k] = frames[k] /\ frames[k] \in Frames
        BY <1>0, <1>3, <3>2
      <4>2. PICK g : g = frames[k]
        OBVIOUS
      <4>3. Behind(g)' /\ g \notin silenced /\ (loop = "send" => g # popd)
        BY <1>2, <4>1, <4>2 DEF PlaybackInv, FramesOnce
      <4> QED
        BY <4>1, <4>2, <4>3
    <3> QED
      BY <3>1, <3>2
  <2>2. ASSUME NEW j \in 1 .. Len(frames'), NEW k \in 1 .. Len(frames'), frames'[j] = frames'[k]
        PROVE  j = k
    <3>1. CASE j # Len(frames') /\ k # Len(frames')
      <4>1. /\ j \in 1 .. Len(frames) /\ frames'[j] = frames[j]
            /\ k \in 1 .. Len(frames) /\ frames'[k] = frames[k]
        BY <1>0, <1>3, <3>1
      <4> QED
        BY <2>2, <4>1 DEF PlaybackInv, FramesOnce
    <3>2. CASE j = Len(frames') /\ k # Len(frames')
      <4>1. k \in 1 .. Len(frames) /\ frames'[k] = frames[k]
        BY <1>0, <1>3, <3>2
      <4> QED
        BY <1>3, <2>0, <2>2, <3>2, <4>1
    <3>3. CASE j # Len(frames') /\ k = Len(frames')
      <4>1. j \in 1 .. Len(frames) /\ frames'[j] = frames[j]
        BY <1>0, <1>3, <3>3
      <4> QED
        BY <1>3, <2>0, <2>2, <3>3, <4>1
    <3> QED
      BY <3>1, <3>2, <3>3
  <2>3. \A g \in silenced \cup refused : Behind(g)'
    BY <1>2 DEF PlaybackInv, PlaybackTypeOK, FramesOnce
  <2>4. IF loop = "send" THEN popd \in Frames \ silenced /\ Behind(popd)' ELSE popd = NoFrame
    BY <1>0, <1>2 DEF PlaybackInv, FramesOnce
  <2> QED
    BY <1>0, <1>2, <2>1, <2>2, <2>3, <2>4 DEF PlaybackInv, FramesOnce
<1> QED
  BY <1>4, <1>5, <1>6, <1>7 DEF PlaybackInv

LEMMA RefusedKeepsInv ==
  ASSUME PlaybackInv, NEW i \in Injectors, PushRefused(i)
  PROVE  PlaybackInv'
<1>0. /\ next[i] > 0 /\ Advance(i) /\ dropped' = dropped + 1 /\ dropped \in Nat
      /\ accepted' = [accepted EXCEPT ![i] = FALSE] /\ accepted \in [Injectors -> BOOLEAN]
      /\ refused' = refused \cup {NextFrame(i)}
      /\ UNCHANGED <<frames, pushed, popped, cleared, utterance, silenced>>
      /\ UNCHANGED <<loop, popd, cancelled, glitches, aired>>
  BY DEF PlaybackInv, PlaybackTypeOK, PushRefused, loopVars
<1>1. PICK f : f = NextFrame(i)
  OBVIOUS
<1>2. /\ f \in Frames /\ ~Behind(f) /\ Behind(f)' /\ f.by = i /\ f.utt = utterance[i]
      /\ \A g \in Frames : Behind(g) => Behind(g)'
      /\ next' \in [Injectors -> 0 .. UtteranceLen]
      /\ \A j \in Injectors : next'[j] > 0 => utterance'[j] > 0
  BY <1>0, <1>1, GoesOn DEF PlaybackInv
<1>3. refused' = refused \cup {f} /\ f \notin refused /\ IsFiniteSet(refused)
  BY <1>0, <1>1, <1>2 DEF PlaybackInv, FramesOnce
<1>4. PlaybackTypeOK'
  <2>1. accepted' \in [Injectors -> BOOLEAN]
    BY <1>0, Zenon
  <2> QED
    BY <1>0, <1>2, <1>3, <2>1 DEF PlaybackInv, PlaybackTypeOK
<1>5. FramesBalanced' /\ IsFiniteSet(refused')
  <2>1. IsFiniteSet(refused') /\ Cardinality(refused') = Cardinality(refused) + 1
    BY <1>3, FS_AddElement
  <2> QED
    BY <1>0, <2>1 DEF PlaybackInv, FramesBalanced
<1>6. AnswersTruly'
  <2>1. ASSUME NEW j \in Injectors, accepted'[j], NEW g \in refused', g.by = j, g.utt = utterance'[j]
        PROVE  FALSE
    <3>1. j # i
      BY <1>0, <2>1
    <3>2. g \in refused /\ accepted[j]
      BY <1>0, <1>2, <1>3, <2>1, <3>1
    <3> QED
      BY <1>0, <2>1, <3>2 DEF PlaybackInv, AnswersTruly
  <2> QED
    BY <2>1 DEF AnswersTruly
<1>7. FramesOnce'
  <2>1. \A k \in 1 .. Len(frames) : frames[k] \in Frames
    BY DEF PlaybackInv, PlaybackTypeOK
  <2>2. \A g \in silenced \cup refused' : Behind(g)'
    BY <1>2, <1>3 DEF PlaybackInv, PlaybackTypeOK, FramesOnce
  <2> QED
    BY <1>0, <1>2, <1>5, <2>1, <2>2 DEF PlaybackInv, FramesOnce
<1> QED
  BY <1>4, <1>5, <1>6, <1>7 DEF PlaybackInv

(* The barge-in.                                                            *)
LEMMA ClearKeepsInv ==
  ASSUME PlaybackInv, ClearPlayback
  PROVE  PlaybackInv'
<1>0. /\ frames \in Seq(Frames) /\ Len(frames) \in Nat /\ frames' = << >> /\ Len(frames') = 0
      /\ pushed \in Nat /\ popped \in Nat /\ cleared \in Nat /\ cleared' = cleared + Len(frames)
      /\ silenced' = silenced \cup {frames[k] : k \in 1 .. Len(frames)}
      /\ UNCHANGED <<pushed, popped, dropped, utterance, next, accepted, refused>>
      /\ UNCHANGED <<loop, popd, cancelled, glitches, aired>>
      /\ frames' \in Seq(Frames)
  BY DEF PlaybackInv, PlaybackTypeOK, ClearPlayback, loopVars, injectVars
<1>1. \A k \in 1 .. Len(frames) : frames[k] \in Frames
  BY <1>0
<1>2. PlaybackTypeOK'
  BY <1>0, <1>1, PlaybackAssumption DEF PlaybackInv, PlaybackTypeOK
<1>3. FramesBalanced'
  BY <1>0 DEF PlaybackInv, FramesBalanced
<1>4. AnswersTruly'
  BY <1>0 DEF PlaybackInv, AnswersTruly
<1>5. FramesOnce'
  BY <1>0, <1>1 DEF PlaybackInv, FramesOnce, Behind
<1> QED
  BY <1>2, <1>3, <1>4, <1>5 DEF PlaybackInv

(* The playback loop.                                                       *)
LEMMA LoopKeepsInv ==
  ASSUME PlaybackInv, playbackLoop \/ Stop
  PROVE  PlaybackInv'
<1> USE DEF loopVars, injectVars, counters
<1>1. CASE Pop
  <2>0. /\ frames \in Seq(Frames) /\ Len(frames) \in Nat \ {0} /\ frames' = Tail(frames)
        /\ popd' = frames[1] /\ popd' \in Frames /\ frames' \in Seq(Frames) /\ Len(frames') = Len(frames) - 1
        /\ \A k \in 1 .. Len(frames') : frames'[k] = frames[k + 1]
    BY <1>1 DEF PlaybackInv, PlaybackTypeOK, Pop
  <2>1. /\ pushed \in Nat /\ popped \in Nat /\ cleared \in Nat /\ popped' = popped + 1
        /\ loop' = "send"
        /\ UNCHANGED <<pushed, dropped, cleared, utterance, next, accepted, refused, silenced>>
        /\ UNCHANGED <<cancelled, glitches, aired>>
    BY <1>1 DEF PlaybackInv, PlaybackTypeOK, Pop
  <2>2. PlaybackTypeOK'
    <3>1. Len(frames') <= MaxDepth /\ {pushed, popped, dropped, cleared}' \subseteq Nat
      BY <2>0, <2>1, PlaybackAssumption DEF PlaybackInv, PlaybackTypeOK
    <3>2. loop' \in {"tick", "send", "ended"} /\ popd' \in Frames \cup {NoFrame}
      BY <2>0, <2>1
    <3>3. accepted' \in [Injectors -> BOOLEAN]
      BY <2>1, Zenon DEF PlaybackInv, PlaybackTypeOK
    <3> QED
      BY <2>0, <2>1, <3>1, <3>2, <3>3 DEF PlaybackInv, PlaybackTypeOK
  <2>3. FramesBalanced' /\ AnswersTruly'
    BY <2>0, <2>1 DEF PlaybackInv, FramesBalanced, AnswersTruly
  <2>4. FramesOnce'
    <3>1. ASSUME NEW k \in 1 .. Len(frames')
          PROVE  /\ k + 1 \in 1 .. Len(frames) /\ k + 1 # 1 /\ frames'[k] = frames[k + 1]
                 /\ Behind(frames'[k]) /\ frames'[k] \notin silenced /\ frames'[k] # popd'
      <4>1. k + 1 \in 1 .. Len(frames) /\ 1 \in 1 .. Len(frames) /\ frames'[k] = frames[k + 1] /\ k + 1 # 1
        BY <2>0
      <4> QED
        BY <2>0, <4>1 DEF PlaybackInv, FramesOnce
    <3>2. \A j, k \in 1 .. Len(frames') : frames'[j] = frames'[k] => j = k
      <4>1. ASSUME NEW j \in 1 .. Len(frames'), NEW k \in 1 .. Len(frames'), frames'[j] = frames'[k]
            PROVE  j = k
        <5>1. j + 1 = k + 1
          BY <3>1, <4>1 DEF PlaybackInv, FramesOnce
        <5> QED
          BY <2>0, <5>1
      <4> QED
        BY <4>1
    <3>3. 1 \in 1 .. Len(frames)
      BY <2>0
    <3>4. popd' \in Frames \ silenced /\ Behind(popd')
      BY <2>0, <3>3 DEF PlaybackInv, FramesOnce
    <3>5. \A k \in 1 .. Len(frames') : Behind(frames[k])'
      BY <2>1, <3>1 DEF Behind
    <3>6. Behind(popd)' /\ \A f \in silenced' \cup refused' : Behind(f)'
      BY <2>1, <3>4 DEF PlaybackInv, FramesOnce, Behind
    <3> QED
      BY <2>1, <3>1, <3>2, <3>4, <3>5, <3>6 DEF PlaybackInv, FramesOnce
  <2> QED
    BY <2>2, <2>3, <2>4 DEF PlaybackInv
<1>2. CASE Write \/ WriteFails \/ LoopCancelled \/ Stop
  <2>1. UNCHANGED <<frames, pushed, popped, dropped, cleared, utterance, next, accepted, refused, silenced>>
    BY <1>2 DEF Write, WriteFails, LoopCancelled, Stop
  <2>2. PlaybackTypeOK'
    <3>1. /\ loop' \in {"tick", "send", "ended"} /\ cancelled' \in BOOLEAN
          /\ popd' \in Frames \cup {NoFrame} /\ aired' \in Frames \cup {NoFrame}
      BY <1>2 DEF PlaybackInv, PlaybackTypeOK, Write, WriteFails, LoopCancelled, Stop
    <3>2. glitches' \in 0 .. Glitches
      BY <1>2, PlaybackAssumption DEF PlaybackInv, PlaybackTypeOK, Write, WriteFails, LoopCancelled, Stop
    <3> QED
      BY <2>1, <3>1, <3>2 DEF PlaybackInv, PlaybackTypeOK
  <2>3. FramesBalanced' /\ AnswersTruly'
    BY <2>1 DEF PlaybackInv, FramesBalanced, AnswersTruly
  <2>4. loop' = "send" => loop = "send" /\ popd' = popd
    BY <1>2 DEF Write, WriteFails, LoopCancelled, Stop
  <2>5. loop' # "send" => popd' = NoFrame
    BY <1>2 DEF PlaybackInv, FramesOnce, Write, WriteFails, LoopCancelled, Stop
  <2>6. FramesOnce'
    BY <2>1, <2>4, <2>5 DEF PlaybackInv, FramesOnce, Behind
  <2> QED
    BY <2>2, <2>3, <2>6 DEF PlaybackInv
<1> QED
  BY <1>1, <1>2 DEF playbackLoop

LEMMA PlaybackStepInv == PlaybackInv /\ [PlaybackNext]_playbackVars => PlaybackInv'
<1> SUFFICES ASSUME PlaybackInv, [PlaybackNext]_playbackVars PROVE PlaybackInv'
  OBVIOUS
<1>1. CASE UNCHANGED playbackVars
  BY <1>1 DEF playbackVars, counters, injectVars, loopVars, PlaybackInv, PlaybackTypeOK, FramesBalanced,
              AnswersTruly, FramesOnce, Behind
<1>2. CASE PlaybackNext
  BY <1>2, CallKeepsInv, PushKeepsInv, RefusedKeepsInv, ClearKeepsInv, LoopKeepsInv DEF PlaybackNext
<1> QED
  BY <1>1, <1>2

(* Bot audio, for any number of injectors, utterances and frames and whatever*)
(* barge-ins and the playback loop do in between: every frame the queue took is*)
(* counted as played, discarded or waiting, a call that found it full does not*)
(* answer true, and no frame is queued twice.                               *)
THEOREM PlaybackInvariant == PlaybackSpec => []PlaybackInv
<1> QED
  BY PlaybackInitInv, PlaybackStepInv, PTL DEF PlaybackSpec

(* Only Write airs a frame, and it was not silenced.                        *)
LEMMA AiredNotSilenced ==
  PlaybackInv /\ [PlaybackNext]_playbackVars => (aired' # aired => aired' \notin silenced)
<1> SUFFICES ASSUME PlaybackInv, [PlaybackNext]_playbackVars, aired' # aired
             PROVE  aired' \notin silenced
  OBVIOUS
<1>1. Write
  BY DEF PlaybackNext, playbackVars, loopVars, playbackLoop, InjectCall, Push, PushRefused, ClearPlayback,
         Pop, WriteFails, LoopCancelled, Stop
<1> QED
  BY <1>1 DEF Write, PlaybackInv, FramesOnce

(* What a barge-in discarded is never heard afterwards.                     *)
THEOREM SilencedStaysSilent == PlaybackSpec => SilencedForGood
<1>1. PlaybackInv /\ [PlaybackNext]_playbackVars => [aired' # aired => aired' \notin silenced]_playbackVars
  BY AiredNotSilenced
<1> QED
  BY <1>1, PlaybackInvariant, PTL DEF PlaybackSpec, SilencedForGood

-----------------------------------------------------------------------------
(* DtmfDetector.                                                            *)

LEMMA DtmfInitInv == DtmfInit => DtmfInv
<1> SUFFICES ASSUME DtmfInit PROVE DtmfInv
  OBVIOUS
<1> USE DtmfAssumption DEF DtmfInit
<1>1. /\ wire \in Seq(Packets) /\ Len(wire) = 0 /\ DOMAIN presses = {}
      /\ presses \in Seq([event : Events, leg : 1 .. MaxLegs]) /\ Len(presses) = 0
  OBVIOUS
<1>2. DtmfTypeOK
  <2>1. /\ arrived \in [Presses -> SUBSET {"start", "end"}] /\ ends \in [Presses -> 0 .. 2]
    OBVIOUS
  <2>2. /\ leg \in 1 .. MaxLegs /\ ssrc \in 0 .. MaxLegs /\ Len(presses) <= MaxPresses
    BY <1>1
  <2>3. /\ lastEvent \in Events \cup {NoEvent} /\ lastEnd \in BOOLEAN /\ stopped \in BOOLEAN
        /\ hand \in Packets \cup {NoEventPacket}
    OBVIOUS
  <2> QED
    BY <1>1, <2>1, <2>2, <2>3 DEF DtmfTypeOK
<1>3. \A p \in Presses : arrived[p] = {} /\ ends[p] = 0
  OBVIOUS
<1>4. NoDoubleDigit /\ HeardIsReported /\ FirstDigitOfLeg
  BY <1>1 DEF NoDoubleDigit, HeardIsReported, FirstDigitOfLeg, Pressed
<1>5. FlowInTurn
  BY <1>1 DEF FlowInTurn
<1>6. DetectorTracks /\ ReportsHandled
  BY <1>3 DEF DetectorTracks, Remembers, ReportsHandled
<1> QED
  BY <1>2, <1>4, <1>5, <1>6 DEF DtmfInv

(* The packets of one more press, behind those on their way.                *)
LEMMA PressShape ==
  ASSUME NEW S, NEW s \in Seq(S), NEW x \in S, NEW y \in S, NEW n \in Nat
  PROVE  LET t == Append(s, x) \o [c \in 1 .. n |-> y]
         IN  /\ t \in Seq(S) /\ Len(t) = Len(s) + 1 + n
             /\ \A i \in 1 .. Len(t) :
                  t[i] = IF i <= Len(s) THEN s[i] ELSE IF i = Len(s) + 1 THEN x ELSE y
<1> DEFINE a == Append(s, x)
           b == [c \in 1 .. n |-> y]
           t == a \o b
<1>1. /\ a \in Seq(S) /\ Len(a) = Len(s) + 1 /\ Len(s) \in Nat /\ a[Len(s) + 1] = x
      /\ \A i \in 1 .. Len(s) : a[i] = s[i]
  OBVIOUS
<1>2. b \in Seq(S) /\ Len(b) = n /\ \A i \in 1 .. n : b[i] = y
  OBVIOUS
<1> HIDE DEF a, b
<1>3. /\ t \in Seq(S) /\ Len(t) = Len(a) + Len(b)
      /\ \A i \in 1 .. Len(t) : t[i] = IF i <= Len(a) THEN a[i] ELSE b[i - Len(a)]
  BY <1>1, <1>2
<1> HIDE DEF t
<1>4. ASSUME NEW i \in 1 .. Len(t)
      PROVE  t[i] = IF i <= Len(s) THEN s[i] ELSE IF i = Len(s) + 1 THEN x ELSE y
  <2>1. CASE i <= Len(s)
    <3>1. i \in 1 .. Len(s) /\ i <= Len(a)
      BY <1>1, <1>3, <2>1
    <3> QED
      BY <1>1, <1>3, <2>1, <3>1
  <2>2. CASE i = Len(s) + 1
    BY <1>1, <1>3, <2>2
  <2>3. CASE ~(i <= Len(s)) /\ i # Len(s) + 1
    <3>1. i - Len(a) \in 1 .. n /\ ~(i <= Len(a))
      BY <1>1, <1>2, <1>3, <2>3
    <3> QED
      BY <1>2, <1>3, <2>3, <3>1
  <2> QED
    BY <2>1, <2>2, <2>3
<1>5. Len(t) = Len(s) + 1 + n
  BY <1>1, <1>2, <1>3
<1> QED
  BY <1>3, <1>4, <1>5 DEF a, b, t

(* A sequence without its k-th element.                                     *)
LEMMA RemoveAtShape ==
  ASSUME NEW S, NEW s \in Seq(S), NEW k \in DOMAIN s
  PROVE  /\ RemoveAt(s, k) \in Seq(S) /\ Len(RemoveAt(s, k)) = Len(s) - 1
         /\ \A i \in 1 .. Len(s) - 1 : RemoveAt(s, k)[i] = s[IF i < k THEN i ELSE i + 1]
<1> DEFINE a == SubSeq(s, 1, k - 1)
           b == SubSeq(s, k + 1, Len(s))
           t == a \o b
<1>1. Len(s) \in Nat /\ k \in 1 .. Len(s)
  OBVIOUS
<1>2. /\ a \in Seq(S) /\ Len(a) = k - 1 /\ \A i \in 1 .. k - 1 : a[i] = s[i]
      /\ b \in Seq(S) /\ Len(b) = Len(s) - k /\ \A i \in 1 .. Len(s) - k : b[i] = s[k + i]
  <2>1. a \in Seq(S) /\ Len(a) = k - 1 /\ \A i \in 1 .. k - 1 : a[i] = s[i]
    BY <1>1
  <2>2. b \in Seq(S) /\ Len(b) = Len(s) - k
    BY <1>1
  <2>3. \A i \in 1 .. Len(s) - k : b[i] = s[k + i]
    BY <1>1
  <2> QED
    BY <2>1, <2>2, <2>3
<1> HIDE DEF a, b
<1>3. /\ t \in Seq(S) /\ Len(t) = Len(s) - 1
      /\ \A i \in 1 .. Len(t) : t[i] = IF i <= Len(a) THEN a[i] ELSE b[i - Len(a)]
  BY <1>1, <1>2, SMTT(30)
<1> HIDE DEF t
<1>4. ASSUME NEW i \in 1 .. Len(s) - 1 PROVE t[i] = s[IF i < k THEN i ELSE i + 1]
  <2>1. CASE i < k
    BY <1>1, <1>2, <1>3, <2>1
  <2>2. CASE ~(i < k)
    <3>1. i - (k - 1) \in 1 .. Len(s) - k /\ k + (i - (k - 1)) = i + 1 /\ ~(i <= Len(a))
      BY <1>1, <1>2, <2>2, SMTT(30)
    <3> QED
      BY <1>2, <1>3, <2>2, <3>1, ZenonT(30)
  <2> QED
    BY <2>1, <2>2
<1> QED
  BY <1>3, <1>4 DEF RemoveAt, a, b, t

-----------------------------------------------------------------------------
(* What the types say of the parts.                                         *)
LEMMA DtmfTyped ==
  ASSUME DtmfInv
  PROVE  /\ Len(presses) \in Nat /\ DOMAIN presses = 1 .. Len(presses) /\ MaxPresses \in Nat
         /\ DOMAIN presses \subseteq Presses
         /\ \A p \in DOMAIN presses : /\ presses[p].event \in Events /\ presses[p].leg \in 1 .. MaxLegs
                                      /\ presses[p].leg \in Nat /\ p \in Nat
         /\ wire \in Seq(Packets) /\ Len(wire) \in Nat /\ ssrc \in Nat /\ leg \in Nat
         /\ \A i \in 1 .. Len(wire) : wire[i] \in Packets
         /\ \A k \in Packets : k.press \in Presses /\ k.leg \in Nat /\ k.event \in Events /\ k.end \in BOOLEAN
         /\ hand # NoEventPacket => hand \in Packets
         /\ \A p \in Presses : p \in Nat /\ arrived[p] \subseteq {"start", "end"} /\ ends[p] \in 0 .. 2
         /\ NoEvent \notin Events
<1>1. /\ presses \in Seq([event : Events, leg : 1 .. MaxLegs]) /\ Len(presses) <= MaxPresses
      /\ wire \in Seq(Packets) /\ ssrc \in 0 .. MaxLegs /\ leg \in 1 .. MaxLegs
      /\ hand \in Packets \cup {NoEventPacket} /\ MaxPresses \in Nat /\ MaxLegs \in Nat
      /\ arrived \in [Presses -> SUBSET {"start", "end"}] /\ ends \in [Presses -> 0 .. 2]
  BY DtmfAssumption DEF DtmfInv, DtmfTypeOK
<1>2. /\ Len(presses) \in Nat /\ DOMAIN presses = 1 .. Len(presses)
      /\ \A p \in DOMAIN presses : presses[p] \in [event : Events, leg : 1 .. MaxLegs]
  <2> DEFINE R == [event : Events, leg : 1 .. MaxLegs]
  <2>1. presses \in Seq(R)
    BY <1>1
  <2> HIDE DEF R
  <2>2. /\ Len(presses) \in Nat /\ DOMAIN presses = 1 .. Len(presses)
        /\ \A p \in 1 .. Len(presses) : presses[p] \in R
    BY <2>1
  <2> QED
    BY <2>2 DEF R
<1>3. /\ Len(wire) \in Nat /\ \A i \in 1 .. Len(wire) : wire[i] \in Packets
  BY <1>1
<1>4. DOMAIN presses \subseteq Presses
  BY <1>1, <1>2 DEF Presses
<1>5. \A k \in Packets : k.press \in Presses /\ k.leg \in Nat /\ k.event \in Events /\ k.end \in BOOLEAN
  BY <1>1 DEF Packets
<1>6. NoEvent \notin Events
  BY DtmfAssumption DEF Events
<1>7. \A p \in Presses : p \in Nat /\ arrived[p] \subseteq {"start", "end"} /\ ends[p] \in 0 .. 2
  BY <1>1 DEF Presses
<1> QED
  BY <1>1, <1>2, <1>3, <1>4, <1>5, <1>6, <1>7

(* A key is pressed: nothing of the press has arrived yet.                  *)
LEMMA PressKeepsInv ==
  ASSUME DtmfInv, NEW event \in Events, Press(event)
  PROVE  DtmfInv'
<1> DEFINE N == Len(presses) + 1
           r == [event |-> event, leg |-> leg]
           start == [press |-> N, leg |-> leg, event |-> event, end |-> FALSE]
           end == [press |-> N, leg |-> leg, event |-> event, end |-> TRUE]
<1>1. /\ Len(presses) < MaxPresses /\ presses' = Append(presses, r)
      /\ wire' = Append(wire, start) \o [c \in 1 .. Copies |-> end]
      /\ UNCHANGED <<lastEvent, lastEnd, ssrc, hand, stopped, leg, arrived, ends>>
  BY DEF Press, detectorVars, historyVars
<1>2. /\ Len(presses) \in Nat /\ DOMAIN presses = 1 .. Len(presses) /\ DOMAIN presses \subseteq Presses
      /\ MaxPresses \in Nat /\ leg \in Nat /\ leg \in 1 .. MaxLegs /\ ssrc \in Nat
      /\ wire \in Seq(Packets) /\ Len(wire) \in Nat /\ Copies \in Nat
      /\ presses \in Seq([event : Events, leg : 1 .. MaxLegs])
      /\ \A p \in Presses : p \in Nat
      /\ \A p \in DOMAIN presses : presses[p].leg \in Nat
      /\ \A i \in 1 .. Len(wire) : wire[i] \in Packets
      /\ \A k \in Packets : k.press \in Presses
  BY DtmfTyped, DtmfAssumption DEF DtmfInv, DtmfTypeOK
<1>3. /\ N \in Presses /\ r \in [event : Events, leg : 1 .. MaxLegs]
      /\ start \in Packets /\ end \in Packets
  BY <1>1, <1>2 DEF Presses, Packets
<1>4. /\ presses' \in Seq([event : Events, leg : 1 .. MaxLegs]) /\ Len(presses') = N
      /\ DOMAIN presses' = 1 .. N /\ presses'[N] = r
      /\ \A p \in 1 .. Len(presses) : presses'[p] = presses[p]
  BY <1>1, <1>2, <1>3
<1>5. /\ wire' \in Seq(Packets) /\ Len(wire') = Len(wire) + 1 + Copies
      /\ \A i \in 1 .. Len(wire') :
           wire'[i] = IF i <= Len(wire) THEN wire[i] ELSE IF i = Len(wire) + 1 THEN start ELSE end
  BY <1>1, <1>2, <1>3, PressShape
<1>6. /\ r.event = event /\ r.leg = leg
      /\ start.press = N /\ start.leg = leg /\ start.event = event /\ start.end = FALSE
      /\ end.press = N /\ end.leg = leg /\ end.event = event /\ end.end = TRUE
  OBVIOUS
<1> HIDE DEF N, r, start, end
<1>7. N = Len(presses) + 1
  BY DEF N
<1>8. \A p \in Presses : arrived[p] # {} => p \in DOMAIN presses
  BY DEF DtmfInv, ReportsHandled
<1>9. \A p \in DOMAIN presses : p # N /\ p < N /\ p \in DOMAIN presses' /\ presses'[p] = presses[p]
  BY <1>2, <1>4, <1>7
<1>10. DtmfTypeOK'
  <2>1. Len(presses') <= MaxPresses
    BY <1>1, <1>2, <1>4, <1>7
  <2> QED
    BY <1>1, <1>4, <1>5, <2>1 DEF DtmfInv, DtmfTypeOK
<1>11. arrived[N] = {} /\ ends[N] = 0
  <2>1. N \notin DOMAIN presses
    BY <1>9
  <2>2. ends[N] \in 0 .. 2 /\ (ends[N] > 0 => "end" \in arrived[N])
    BY <1>3 DEF DtmfInv, DtmfTypeOK, ReportsHandled
  <2> QED
    BY <1>3, <1>8, <2>1, <2>2
<1>12. NoDoubleDigit' /\ HeardIsReported'
  <2>1. ASSUME NEW p \in Pressed' PROVE p = N \/ p \in Pressed
    BY <1>2, <1>4, <1>7, <1>9 DEF Pressed
  <2>2. Pressed' \subseteq Presses
    BY <1>2, <1>3, <1>4, <1>7 DEF Pressed, Presses
  <2>3. NoDoubleDigit'
    BY <1>1, <1>11, <2>1 DEF DtmfInv, NoDoubleDigit
  <2>4. HeardIsReported'
    BY <1>1, <1>11, <2>1 DEF DtmfInv, HeardIsReported
  <2> QED
    BY <2>3, <2>4
<1>13. FirstDigitOfLeg'
  <2>1. ASSUME NEW p \in Pressed', "end" \in arrived[p],
               \A q \in 1 .. p - 1 : presses'[q].leg # presses'[p].leg
        PROVE  ends[p] >= 1
    <3>1. p # N /\ p \in DOMAIN presses'
      BY <1>11, <2>1 DEF Pressed
    <3>2. p \in 1 .. Len(presses) /\ presses'[p] = presses[p] /\ p \in Pressed
      BY <1>2, <1>4, <1>7, <2>1, <3>1 DEF Pressed
    <3>3. \A q \in 1 .. p - 1 : q \in 1 .. Len(presses) /\ presses'[q] = presses[q]
      <4>1. Len(presses) \in Nat /\ p \in 1 .. Len(presses)
        BY <1>2, <3>2
      <4>2. \A q \in 1 .. p - 1 : q \in 1 .. Len(presses)
        BY <4>1
      <4> QED
        BY <1>4, <4>2
    <3>4. \A q \in 1 .. p - 1 : presses[q].leg # presses[p].leg
      BY <2>1, <3>2, <3>3
    <3> QED
      BY <2>1, <3>2, <3>4 DEF DtmfInv, FirstDigitOfLeg
  <2> QED
    BY <1>1, <2>1 DEF FirstDigitOfLeg
<1>14. ASSUME NEW k, Genuine(k) PROVE Genuine(k)'
  <2>1. k.press \in DOMAIN presses /\ After(k)
    BY <1>14 DEF Genuine
  <2>2. After(k)'
    BY <1>1, <2>1 DEF After
  <2> QED
    BY <1>1, <1>9, <1>14, <2>1, <2>2 DEF Genuine
<1>15. ASSUME NEW k, k.press = N, k.leg = leg, k.event = event PROVE Genuine(k)'
  <2>1. After(k)'
    BY <1>1, <1>8, <1>9, <1>15 DEF After
  <2>2. N \in DOMAIN presses' /\ ssrc' <= leg
    BY <1>1, <1>2, <1>4, <1>7 DEF DtmfInv, FlowInTurn
  <2> QED
    BY <1>1, <1>4, <1>6, <1>15, <2>1, <2>2 DEF Genuine
<1>16. FlowInTurn'
  <2>1. \A p, q \in DOMAIN presses' : p <= q => presses'[p].leg <= presses'[q].leg
    <3>1. ASSUME NEW p \in DOMAIN presses', NEW q \in DOMAIN presses', p <= q
          PROVE  presses'[p].leg <= presses'[q].leg
      <4>1. CASE q = N
        <5>1. CASE p = N
          BY <1>2, <1>4, <1>6, <4>1, <5>1
        <5>2. CASE p # N
          <6>1. p \in DOMAIN presses
            BY <1>2, <1>4, <1>7, <5>2
          <6> QED
            BY <1>2, <1>4, <1>6, <4>1, <6>1 DEF DtmfInv, FlowInTurn
        <5> QED
          BY <5>1, <5>2
      <4>2. CASE q # N
        <5>1. p \in DOMAIN presses /\ q \in DOMAIN presses
          BY <1>2, <1>4, <1>7, <3>1, <4>2
        <5> QED
          BY <1>9, <3>1, <5>1 DEF DtmfInv, FlowInTurn
      <4> QED
        BY <4>1, <4>2
    <3> QED
      BY <3>1
  <2>2. ssrc' <= leg' /\ \A p \in DOMAIN presses' : presses'[p].leg <= leg'
    <3>1. ASSUME NEW p \in DOMAIN presses' PROVE presses'[p].leg <= leg'
      <4>1. CASE p = N
        BY <1>1, <1>2, <1>4, <1>6, <4>1
      <4>2. CASE p # N
        <5>1. p \in DOMAIN presses
          BY <1>2, <1>4, <1>7, <4>2
        <5> QED
          BY <1>1, <1>9, <5>1 DEF DtmfInv, FlowInTurn
      <4> QED
        BY <4>1, <4>2
    <3> QED
      BY <1>1, <3>1 DEF DtmfInv, FlowInTurn
  <2>3. \A i \in 1 .. Len(wire) : wire[i].press \in DOMAIN presses /\ wire[i].press < N
    BY <1>9 DEF DtmfInv, FlowInTurn, Genuine
  <2>4. \A i \in 1 .. Len(wire') : i <= Len(wire) => i \in 1 .. Len(wire)
    BY <1>2, <1>5
  <2>5. ASSUME NEW i \in 1 .. Len(wire') PROVE Genuine(wire[i])'
    <3>1. PICK k : k = wire'[i]
      OBVIOUS
    <3>2. CASE i <= Len(wire)
      <4>1. k = wire[i] /\ i \in 1 .. Len(wire)
        BY <1>5, <2>4, <3>1, <3>2
      <4>2. Genuine(k)
        BY <4>1 DEF DtmfInv, FlowInTurn
      <4>3. Genuine(k)'
        BY <1>14, <4>2
      <4> QED
        BY <3>1, <4>3
    <3>3. CASE ~(i <= Len(wire))
      <4>1. k = start \/ k = end
        BY <1>5, <3>1, <3>3
      <4>2. k.press = N /\ k.leg = leg /\ k.event = event
        BY <1>6, <4>1
      <4>3. Genuine(k)'
        BY <1>15, <4>2
      <4> QED
        BY <3>1, <4>3
    <3> QED
      BY <3>2, <3>3
  <2>6. ASSUME NEW i \in 1 .. Len(wire'), NEW j \in 1 .. Len(wire'), i < j
        PROVE  Before(wire'[i], wire'[j])
    <3>1. CASE j <= Len(wire)
      <4>1. i \in 1 .. Len(wire) /\ j \in 1 .. Len(wire) /\ wire'[i] = wire[i] /\ wire'[j] = wire[j]
        BY <1>2, <1>5, <2>6, <3>1
      <4> QED
        BY <2>6, <4>1 DEF DtmfInv, FlowInTurn
    <3>2. CASE ~(j <= Len(wire)) /\ i <= Len(wire)
      <4>1. wire'[i] = wire[i] /\ i \in 1 .. Len(wire) /\ (wire'[j] = start \/ wire'[j] = end)
        BY <1>5, <2>4, <3>2
      <4> QED
        BY <1>6, <2>3, <4>1 DEF Before
    <3>3. CASE ~(i <= Len(wire))
      <4>1. (wire'[i] = start \/ wire'[i] = end) /\ wire'[j] = end
        BY <1>2, <1>5, <2>6, <3>3
      <4> QED
        BY <1>6, <4>1 DEF Before
    <3> QED
      BY <3>1, <3>2, <3>3
  <2>7. ASSUME hand # NoEventPacket
        PROVE  Genuine(hand)' /\ ssrc' = hand'.leg /\ \A i \in 1 .. Len(wire') : Before(hand', wire'[i])
    <3>1. Genuine(hand) /\ ssrc = hand.leg
      BY <2>7 DEF DtmfInv, FlowInTurn
    <3>2. Genuine(hand)'
      <4>1. PICK k : k = hand
        OBVIOUS
      <4>2. Genuine(k)'
        BY <1>14, <3>1, <4>1
      <4> QED
        BY <1>1, <4>1, <4>2
    <3>3. ASSUME NEW i \in 1 .. Len(wire') PROVE Before(hand, wire'[i])
      <4>1. CASE i <= Len(wire)
        <5>1. wire'[i] = wire[i] /\ i \in 1 .. Len(wire)
          BY <1>5, <2>4, <4>1
        <5> QED
          BY <2>7, <5>1 DEF DtmfInv, FlowInTurn
      <4>2. CASE ~(i <= Len(wire))
        <5>1. wire'[i].press = N
          BY <1>5, <1>6, <4>2
        <5>2. hand.press < N
          BY <1>9, <3>1 DEF Genuine
        <5> QED
          BY <5>1, <5>2 DEF Before
      <4> QED
        BY <4>1, <4>2
    <3> QED
      BY <1>1, <3>1, <3>2, <3>3
  <2> QED
    BY <1>1, <2>1, <2>2, <2>5, <2>6, <2>7 DEF FlowInTurn
<1>17. DetectorTracks'
  <2>1. ASSUME Remembers PROVE Remembers'
    <3>1. CASE /\ lastEvent = NoEvent
               /\ \A p \in Presses : arrived[p] # {} => presses[p].leg < ssrc
      BY <1>1, <1>8, <1>9, <3>1 DEF Remembers
    <3>2. CASE \E p \in DOMAIN presses :
                 /\ lastEvent = presses[p].event /\ (lastEnd <=> "end" \in arrived[p])
                 /\ presses[p].leg = ssrc /\ arrived[p] # {}
                 /\ \A q \in Presses : arrived[q] # {} => q <= p
      BY <1>1, <1>9, <3>2 DEF Remembers
    <3> QED
      BY <2>1, <3>1, <3>2 DEF Remembers
  <2> QED
    BY <1>1, <2>1 DEF DtmfInv, DetectorTracks
<1>18. ReportsHandled'
  BY <1>1, <1>8, <1>9 DEF DtmfInv, ReportsHandled
<1> QED
  BY <1>10, <1>12, <1>13, <1>16, <1>17, <1>18 DEF DtmfInv

(* The caller changes legs.                                                 *)
LEMMA ChangeLegKeepsInv ==
  ASSUME DtmfInv, ChangeLeg
  PROVE  DtmfInv'
<1>1. /\ leg < MaxLegs /\ leg' = leg + 1
      /\ UNCHANGED <<lastEvent, lastEnd, ssrc, hand, stopped, presses, wire, arrived, ends>>
  BY DEF ChangeLeg, detectorVars, historyVars
<1>2. leg \in 1 .. MaxLegs /\ MaxLegs \in Nat
  BY DtmfAssumption DEF DtmfInv, DtmfTypeOK
<1>3. leg' \in 1 .. MaxLegs /\ leg <= leg'
  BY <1>1, <1>2
<1>4. DtmfTypeOK'
  BY <1>1, <1>3 DEF DtmfInv, DtmfTypeOK
<1>5. NoDoubleDigit' /\ HeardIsReported' /\ FirstDigitOfLeg'
  BY <1>1 DEF DtmfInv, NoDoubleDigit, HeardIsReported, FirstDigitOfLeg, Pressed
<1>6. FlowInTurn'
  <2>1. ssrc' <= leg' /\ \A p \in DOMAIN presses' : presses'[p].leg <= leg'
    BY <1>1, <1>2, <1>3, DtmfTyped DEF DtmfInv, FlowInTurn
  <2>2. ASSUME NEW k PROVE Genuine(k)' = Genuine(k)
    BY <1>1 DEF Genuine, After
  <2>3. /\ \A p, q \in DOMAIN presses' : p <= q => presses'[p].leg <= presses'[q].leg
        /\ \A i, j \in 1 .. Len(wire') : i < j => Before(wire'[i], wire'[j])
    BY <1>1 DEF DtmfInv, FlowInTurn
  <2>4. ASSUME NEW i \in 1 .. Len(wire') PROVE Genuine(wire[i])'
    BY <1>1 DEF DtmfInv, FlowInTurn, Genuine, After
  <2>5. ASSUME hand' # NoEventPacket
        PROVE  Genuine(hand)' /\ ssrc' = hand'.leg /\ \A i \in 1 .. Len(wire') : Before(hand', wire'[i])
    BY <1>1, <2>5 DEF DtmfInv, FlowInTurn, Genuine, After
  <2> QED
    BY <2>1, <2>3, <2>4, <2>5 DEF FlowInTurn
<1>7. DetectorTracks' /\ ReportsHandled'
  BY <1>1 DEF DtmfInv, DetectorTracks, Remembers, ReportsHandled
<1> QED
  BY <1>4, <1>5, <1>6, <1>7 DEF DtmfInv

(* The network loses a packet.                                              *)
LEMMA LoseKeepsInv ==
  ASSUME DtmfInv, NEW k \in DOMAIN wire, Lose(k)
  PROVE  DtmfInv'
<1>1. /\ wire' = RemoveAt(wire, k)
      /\ UNCHANGED <<lastEvent, lastEnd, ssrc, hand, stopped, leg, presses, arrived, ends>>
  BY DEF Lose, detectorVars, historyVars, callerVars
<1>2. wire \in Seq(Packets) /\ Len(wire) \in Nat
  BY DtmfTyped
<1>3. /\ wire' \in Seq(Packets) /\ Len(wire') = Len(wire) - 1
      /\ \A i \in 1 .. Len(wire') : wire'[i] = wire[IF i < k THEN i ELSE i + 1]
  BY <1>1, <1>2, RemoveAtShape
<1> DEFINE up(i) == IF i < k THEN i ELSE i + 1
<1>4. \A i \in 1 .. Len(wire') : up(i) \in 1 .. Len(wire) /\ wire'[i] = wire[up(i)]
  BY <1>2, <1>3
<1>5. \A i, j \in 1 .. Len(wire') : i < j => up(i) < up(j)
  BY <1>2, <1>3
<1> HIDE DEF up
<1>6. DtmfTypeOK'
  BY <1>1, <1>3 DEF DtmfInv, DtmfTypeOK
<1>7. NoDoubleDigit' /\ HeardIsReported' /\ FirstDigitOfLeg'
  BY <1>1 DEF DtmfInv, NoDoubleDigit, HeardIsReported, FirstDigitOfLeg, Pressed
<1>8. FlowInTurn'
  <2>1. \A i, j \in 1 .. Len(wire') : i < j => Before(wire'[i], wire'[j])
    BY <1>4, <1>5 DEF DtmfInv, FlowInTurn
  <2>2. ASSUME NEW i \in 1 .. Len(wire') PROVE Genuine(wire[i])'
    <3>1. PICK p : p = wire'[i]
      OBVIOUS
    <3>2. Genuine(p)
      BY <1>4, <3>1 DEF DtmfInv, FlowInTurn
    <3>3. Genuine(p)'
      BY <1>1, <3>2 DEF Genuine, After
    <3> QED
      BY <3>1, <3>3
  <2>3. ASSUME hand' # NoEventPacket
        PROVE  Genuine(hand)' /\ ssrc' = hand'.leg /\ \A i \in 1 .. Len(wire') : Before(hand', wire'[i])
    <3>1. Genuine(hand)'
      BY <1>1, <2>3 DEF DtmfInv, FlowInTurn, Genuine, After
    <3>2. ssrc' = hand'.leg /\ \A i \in 1 .. Len(wire') : Before(hand', wire'[i])
      BY <1>1, <1>4, <2>3 DEF DtmfInv, FlowInTurn
    <3> QED
      BY <3>1, <3>2
  <2>4. /\ ssrc' <= leg' /\ \A p \in DOMAIN presses' : presses'[p].leg <= leg'
        /\ \A p, q \in DOMAIN presses' : p <= q => presses'[p].leg <= presses'[q].leg
    BY <1>1 DEF DtmfInv, FlowInTurn
  <2> QED
    BY <2>1, <2>2, <2>3, <2>4 DEF FlowInTurn
<1>9. DetectorTracks' /\ ReportsHandled'
  BY <1>1 DEF DtmfInv, DetectorTracks, Remembers, ReportsHandled
<1> QED
  BY <1>6, <1>7, <1>8, <1>9 DEF DtmfInv

(* The receive loop takes the first packet on its way; a new SSRC means     *)
(* that the legs handled so far are over.                                   *)
LEMMA ReceiveKeepsInv ==
  ASSUME DtmfInv, Receive
  PROVE  DtmfInv'
<1> DEFINE k == Head(wire)
<1>1. /\ hand = NoEventPacket /\ ~stopped /\ wire # << >> /\ hand' = k /\ wire' = Tail(wire)
      /\ IF ssrc \notin {0, k.leg} THEN lastEvent' = NoEvent /\ lastEnd' = FALSE
         ELSE lastEvent' = lastEvent /\ lastEnd' = lastEnd
      /\ ssrc' = k.leg /\ UNCHANGED <<stopped, leg, presses, arrived, ends>>
  BY DEF Receive, detectorVars, historyVars, callerVars
<1>2. /\ wire \in Seq(Packets) /\ Len(wire) \in Nat \ {0} /\ k = wire[1] /\ 1 \in 1 .. Len(wire)
      /\ wire' \in Seq(Packets) /\ Len(wire') = Len(wire) - 1
      /\ \A i \in 1 .. Len(wire') : wire'[i] = wire[i + 1] /\ i + 1 \in 2 .. Len(wire)
  <2>1. wire \in Seq(Packets)
    BY DtmfTyped
  <2> QED
    BY <1>1, <2>1
<1> HIDE DEF k
<1>3. k \in Packets /\ Genuine(k)
  BY <1>2, DtmfTyped DEF DtmfInv, FlowInTurn
<1>4. /\ k.leg \in Nat /\ k.leg \in 1 .. MaxLegs /\ ssrc \in Nat /\ ssrc <= k.leg /\ leg \in Nat
      /\ k.press \in DOMAIN presses /\ k.leg = presses[k.press].leg /\ k.leg <= leg
      /\ MaxLegs \in Nat /\ \A p \in DOMAIN presses : presses[p].leg \in Nat /\ p \in Presses /\ p \in Nat
  BY <1>3, DtmfTyped, DtmfAssumption DEF Genuine, Packets, DtmfInv, FlowInTurn
<1>5. DtmfTypeOK'
  <2>1. ssrc' \in 0 .. MaxLegs
    BY <1>1, <1>4
  <2>2. lastEvent' \in Events \cup {NoEvent} /\ lastEnd' \in BOOLEAN
    <3>1. lastEvent \in Events \cup {NoEvent} /\ lastEnd \in BOOLEAN
      BY DEF DtmfInv, DtmfTypeOK
    <3> QED
      BY <1>1, <3>1, Zenon
  <2> QED
    BY <1>1, <1>2, <1>3, <2>1, <2>2 DEF DtmfInv, DtmfTypeOK
<1>6. NoDoubleDigit' /\ HeardIsReported' /\ FirstDigitOfLeg'
  BY <1>1 DEF DtmfInv, NoDoubleDigit, HeardIsReported, FirstDigitOfLeg, Pressed
<1>7. \A i \in 2 .. Len(wire) : Before(k, wire[i]) /\ Genuine(wire[i])
  BY <1>2 DEF DtmfInv, FlowInTurn
<1>8. \A j \in Packets : Before(k, j) /\ Genuine(j) => k.leg <= j.leg
  <2>1. ASSUME NEW j \in Packets, Before(k, j), Genuine(j) PROVE k.leg <= j.leg
    <3>1. j.press \in DOMAIN presses /\ j.leg = presses[j.press].leg /\ k.press <= j.press
      BY <1>4, <2>1 DEF Genuine, Before
    <3> QED
      BY <1>4, <3>1 DEF DtmfInv, FlowInTurn
  <2> QED
    BY <2>1
<1>9. ASSUME NEW j, Genuine(j), k.leg <= j.leg PROVE Genuine(j)'
  BY <1>1, <1>9 DEF Genuine, After
<1>10. FlowInTurn'
  <2>1. /\ ssrc' <= leg' /\ \A p \in DOMAIN presses' : presses'[p].leg <= leg'
        /\ \A p, q \in DOMAIN presses' : p <= q => presses'[p].leg <= presses'[q].leg
    BY <1>1, <1>4 DEF DtmfInv, FlowInTurn
  <2>2. ASSUME NEW i \in 1 .. Len(wire') PROVE Genuine(wire[i])' /\ Before(k, wire'[i])
    <3>1. PICK p : p = wire'[i]
      OBVIOUS
    <3>2. p = wire[i + 1] /\ i + 1 \in 2 .. Len(wire)
      BY <1>2, <3>1
    <3>3. p \in Packets /\ Before(k, p) /\ Genuine(p)
      BY <1>2, <1>7, <3>2
    <3>4. Genuine(p)'
      BY <1>8, <1>9, <3>3
    <3> QED
      BY <3>1, <3>3, <3>4
  <2>3. Genuine(hand)' /\ ssrc' = hand'.leg
    <3>1. PICK p : p = k
      OBVIOUS
    <3>2. Genuine(p)'
      BY <1>3, <1>4, <1>9, <3>1
    <3> QED
      BY <1>1, <3>1, <3>2
  <2>4. \A i, j \in 1 .. Len(wire') : i < j => Before(wire'[i], wire'[j])
    <3>1. ASSUME NEW i \in 1 .. Len(wire'), NEW j \in 1 .. Len(wire'), i < j
          PROVE  Before(wire'[i], wire'[j])
      <4>1. /\ wire'[i] = wire[i + 1] /\ wire'[j] = wire[j + 1] /\ i + 1 < j + 1
            /\ i + 1 \in 1 .. Len(wire) /\ j + 1 \in 1 .. Len(wire)
        BY <1>2, <3>1
      <4> QED
        BY <4>1 DEF DtmfInv, FlowInTurn
    <3> QED
      BY <3>1
  <2> QED
    BY <1>1, <2>1, <2>2, <2>3, <2>4 DEF FlowInTurn
<1>11. \A p \in Presses : arrived[p] # {} => /\ p \in DOMAIN presses /\ presses[p].leg <= ssrc
                                             /\ presses[p].leg <= k.leg
  <2>1. ASSUME NEW p \in Presses, arrived[p] # {}
        PROVE  p \in DOMAIN presses /\ presses[p].leg <= ssrc /\ presses[p].leg <= k.leg
    <3>1. p \in DOMAIN presses /\ presses[p].leg <= ssrc
      BY <2>1 DEF DtmfInv, ReportsHandled
    <3> QED
      BY <1>4, <3>1
  <2> QED
    BY <2>1
<1>12. DetectorTracks'
  <2>1. CASE ssrc = k.leg
    <3>1. lastEvent' = lastEvent /\ lastEnd' = lastEnd /\ ssrc' = ssrc
      BY <1>1, <2>1
    <3> QED
      BY <1>1, <3>1 DEF DtmfInv, DetectorTracks, Remembers
  <2>2. CASE ssrc # k.leg
    <3>1. \A p \in Presses : arrived[p] # {} => presses[p].leg < k.leg
      BY <1>4, <1>11, <2>2
    <3>2. lastEvent' = NoEvent
      <4>1. CASE ssrc = 0
        <5>1. \A p \in DOMAIN presses : presses[p].leg # 0
          BY DtmfTyped
        <5>2. lastEvent = NoEvent
          BY <1>1, <4>1, <5>1 DEF DtmfInv, DetectorTracks, Remembers
        <5> QED
          BY <1>1, <4>1, <5>2
      <4>2. CASE ssrc # 0
        BY <1>1, <2>2, <4>2
      <4> QED
        BY <4>1, <4>2
    <3> QED
      BY <1>1, <3>1, <3>2 DEF DetectorTracks, Remembers
  <2> QED
    BY <2>1, <2>2
<1>13. ReportsHandled'
  BY <1>1, <1>11 DEF DtmfInv, ReportsHandled
<1> QED
  BY <1>5, <1>6, <1>10, <1>12, <1>13 DEF DtmfInv

(* Stop resets the detector.                                                *)
LEMMA StopResetKeepsInv ==
  ASSUME DtmfInv, StopReset
  PROVE  DtmfInv'
<1>1. /\ ~stopped /\ stopped' = TRUE /\ lastEvent' = NoEvent /\ lastEnd' = FALSE
      /\ UNCHANGED <<ssrc, hand, leg, presses, wire, arrived, ends>>
  BY DEF StopReset, callerVars, historyVars
<1>2. DtmfTypeOK'
  BY <1>1 DEF DtmfInv, DtmfTypeOK
<1>3. NoDoubleDigit' /\ HeardIsReported' /\ FirstDigitOfLeg'
  BY <1>1 DEF DtmfInv, NoDoubleDigit, HeardIsReported, FirstDigitOfLeg, Pressed
<1>4. FlowInTurn'
  BY <1>1 DEF DtmfInv, FlowInTurn, Genuine, After
<1>5. DetectorTracks' /\ ReportsHandled'
  BY <1>1 DEF DtmfInv, DetectorTracks, ReportsHandled
<1> QED
  BY <1>2, <1>3, <1>4, <1>5 DEF DtmfInv

(* The detector handles the packet in hand: an end packet is a duplicate    *)
(* where an end packet of its press was handled, and is not where it is the *)
(* first to follow the start, or the first of its leg.                      *)
LEMMA ParseKeepsInv ==
  ASSUME DtmfInv, ParseDTMFPayload
  PROVE  DtmfInv'
<1> DEFINE k == hand
           P == hand.press
           tag == IF k.end THEN "end" ELSE "start"
           dup == k.event = lastEvent /\ k.end = lastEnd
           report == k.end /\ ~dup /\ k.event \in Digits
<1>1. /\ hand # NoEventPacket /\ hand' = NoEventPacket
      /\ IF dup THEN lastEvent' = lastEvent /\ lastEnd' = lastEnd
         ELSE lastEvent' = k.event /\ lastEnd' = k.end
      /\ ends' = [ends EXCEPT ![P] = IF report THEN ends[P] + 1 ELSE ends[P]]
      /\ arrived' = [arrived EXCEPT ![P] = arrived[P] \cup {tag}]
      /\ UNCHANGED <<ssrc, stopped, leg, presses, wire>>
  BY DEF ParseDTMFPayload, Duplicate, detectorVars, callerVars
<1>2. /\ k \in Packets /\ Genuine(k) /\ ssrc = k.leg /\ P \in Presses /\ P \in DOMAIN presses /\ P \in Nat
      /\ k.event = presses[P].event /\ k.leg = presses[P].leg /\ k.event \in Events /\ k.end \in BOOLEAN
      /\ lastEnd \in BOOLEAN
      /\ \A i \in 1 .. Len(wire) : Before(k, wire[i])
      /\ arrived[P] \subseteq {"start", "end"} /\ ends[P] \in 0 .. 2 /\ ssrc \in Nat
      /\ arrived \in [Presses -> SUBSET {"start", "end"}] /\ ends \in [Presses -> 0 .. 2]
      /\ DOMAIN presses \subseteq Presses /\ NoEvent \notin Events
      /\ \A p \in Presses : p \in Nat
      /\ \A p \in DOMAIN presses : presses[p].leg \in Nat
  BY <1>1, DtmfTyped DEF DtmfInv, FlowInTurn, Genuine, DtmfTypeOK
<1>3. \A p \in Presses : arrived[p] # {} => p < P \/ (p = P /\ ("end" \in arrived[p] => k.end))
  BY <1>2 DEF Genuine, After
<1> HIDE DEF k, P
<1>4. lastEvent' = k.event /\ lastEnd' = k.end
  BY <1>1, Zenon
<1>5. /\ ends' \in [Presses -> 0 .. 2] \/ ends[P] = 2
      /\ ends'[P] = IF report THEN ends[P] + 1 ELSE ends[P]
      /\ \A p \in Presses : p # P => ends'[p] = ends[p]
  BY <1>1, <1>2
<1>6. /\ arrived' \in [Presses -> SUBSET {"start", "end"}]
      /\ arrived'[P] = arrived[P] \cup {tag}
      /\ \A p \in Presses : p # P => arrived'[p] = arrived[p]
  BY <1>1, <1>2
(* What the detector remembers when this packet is not the first of its leg. *)
<1>7. ASSUME ~stopped, lastEvent # NoEvent
      PROVE  \E p \in Presses :
               /\ p \in DOMAIN presses /\ lastEvent = presses[p].event /\ (lastEnd <=> "end" \in arrived[p])
               /\ presses[p].leg = presses[P].leg /\ p <= P /\ arrived[p] # {}
               /\ (arrived[P] # {} => p = P)
  <2>1. Remembers
    BY <1>7 DEF DtmfInv, DetectorTracks
  <2>2. PICK p \in DOMAIN presses : /\ lastEvent = presses[p].event /\ (lastEnd <=> "end" \in arrived[p])
                                    /\ presses[p].leg = ssrc /\ arrived[p] # {}
                                    /\ \A q \in Presses : arrived[q] # {} => q <= p
    BY <1>7, <2>1 DEF Remembers
  <2>3. p \in Presses /\ p <= P /\ (arrived[P] # {} => p = P)
    BY <1>2, <1>3, <2>2
  <2> QED
    BY <1>2, <2>2, <2>3
<1>8. ASSUME ~stopped, arrived[P] # {}
      PROVE  lastEvent = k.event /\ (lastEnd <=> "end" \in arrived[P])
  <2>1. lastEvent # NoEvent
    <3>1. ~(presses[P].leg < ssrc)
      BY <1>2
    <3>2. Remembers
      BY <1>8 DEF DtmfInv, DetectorTracks
    <3>3. \A p \in DOMAIN presses : presses[p].event # NoEvent
      BY DtmfTyped
    <3> QED
      BY <1>2, <1>8, <3>1, <3>2, <3>3 DEF Remembers
  <2>2. PICK p \in Presses : /\ lastEvent = presses[p].event /\ (lastEnd <=> "end" \in arrived[p])
                             /\ (arrived[P] # {} => p = P)
    BY <1>7, <1>8, <2>1
  <2> QED
    BY <1>2, <1>8, <2>2
<1>9. report => ends[P] = 0 \/ stopped
  <2>1. ASSUME report, ~stopped PROVE "end" \notin arrived[P]
    <3>1. SUFFICES ASSUME "end" \in arrived[P] PROVE FALSE
      OBVIOUS
    <3>2. lastEvent = k.event /\ lastEnd = TRUE
      BY <1>8, <2>1, <3>1
    <3> QED
      BY <2>1, <3>2
  <2>2. "end" \notin arrived[P] => ends[P] = 0
    BY <1>2 DEF DtmfInv, ReportsHandled
  <2> QED
    BY <2>1, <2>2
<1>10. ends[P] <= 1
  BY <1>1, <1>2 DEF DtmfInv, ReportsHandled
<1>11. ends' \in [Presses -> 0 .. 2] /\ ends'[P] >= ends[P] /\ (report => ends'[P] >= 1)
  BY <1>2, <1>5, <1>10
<1>12. DtmfTypeOK'
  BY <1>1, <1>2, <1>4, <1>6, <1>11 DEF DtmfInv, DtmfTypeOK
<1>13. \A p \in Presses : ends'[p] <= 1 \/ stopped
  BY <1>1, <1>2, <1>5, <1>9 DEF DtmfInv, ReportsHandled
<1>14. Pressed' = Pressed /\ Pressed \subseteq Presses
  BY <1>1, <1>2 DEF Pressed
<1>15. NoDoubleDigit'
  BY <1>1, <1>13, <1>14 DEF NoDoubleDigit
(* A packet unlike what the detector remembers is no duplicate.             *)
<1>16. ASSUME P \in Pressed, k.end, \/ stopped \/ lastEvent = NoEvent \/ lastEnd = FALSE
       PROVE  ends'[P] >= 1
  <2>1. stopped => lastEvent = NoEvent
    BY <1>1 DEF DtmfInv, DetectorTracks
  <2>2. ~dup
    BY <1>2, <1>16, <2>1
  <2>3. k.event \in Digits
    BY <1>2, <1>16 DEF Pressed
  <2> QED
    BY <1>11, <1>16, <2>2, <2>3
<1>17. HeardIsReported'
  <2>1. ASSUME NEW p \in Pressed, arrived'[p] = {"start", "end"} PROVE ends'[p] >= 1
    <3>1. CASE p # P
      BY <1>5, <1>6, <1>14, <2>1, <3>1 DEF DtmfInv, HeardIsReported
    <3>2. CASE p = P /\ ends[P] >= 1
      BY <1>2, <1>10, <1>11, <3>2
    <3>3. CASE p = P /\ ~(ends[P] >= 1)
      <4>1. arrived[P] # {"start", "end"}
        BY <2>1, <3>3 DEF DtmfInv, HeardIsReported
      <4>2. k.end
        <5>1. SUFFICES ASSUME ~k.end PROVE FALSE
          OBVIOUS
        <5>2. tag = "start" /\ "end" \in arrived[P]
          BY <1>6, <2>1, <3>3, <5>1
        <5>3. arrived[P] # {}
          BY <5>2
        <5> QED
          BY <1>2, <1>3, <5>1, <5>2, <5>3
      <4>3. tag = "end" /\ arrived[P] = {"start"}
        <5>1. tag = "end"
          BY <4>2
        <5>2. "start" \in arrived[P]
          BY <1>6, <2>1, <3>3, <5>1
        <5> QED
          BY <1>2, <4>1, <5>1, <5>2
      <4>4. stopped \/ lastEnd = FALSE
        <5>1. ASSUME ~stopped PROVE lastEnd = FALSE
          <6>1. (lastEnd <=> "end" \in arrived[P])
            BY <1>8, <4>3, <5>1
          <6>2. "end" \notin arrived[P]
            BY <4>3
          <6> QED
            BY <1>2, <6>1, <6>2
        <5> QED
          BY <5>1
      <4> QED
        BY <1>16, <2>1, <3>3, <4>2, <4>4
    <3> QED
      BY <3>1, <3>2, <3>3
  <2> QED
    BY <1>14, <2>1 DEF HeardIsReported
<1>18. FirstDigitOfLeg'
  <2>1. ASSUME NEW p \in Pressed, \A q \in 1 .. p - 1 : presses[q].leg # presses[p].leg, "end" \in arrived'[p]
        PROVE  ends'[p] >= 1
    <3>1. CASE p # P
      BY <1>5, <1>6, <1>14, <2>1, <3>1 DEF DtmfInv, FirstDigitOfLeg
    <3>2. CASE p = P /\ "end" \in arrived[P]
      <4>1. ends[P] >= 1
        BY <2>1, <3>2 DEF DtmfInv, FirstDigitOfLeg
      <4> QED
        BY <1>2, <1>10, <1>11, <3>2, <4>1
    <3>3. CASE p = P /\ "end" \notin arrived[P]
      <4>1. k.end
        BY <1>6, <2>1, <3>3
      <4>2. stopped \/ lastEvent = NoEvent \/ lastEnd = FALSE
        <5>1. SUFFICES ASSUME ~stopped, lastEvent # NoEvent PROVE lastEnd = FALSE
          OBVIOUS
        <5>2. PICK q \in Presses : /\ q \in DOMAIN presses /\ (lastEnd <=> "end" \in arrived[q])
                                   /\ presses[q].leg = presses[P].leg /\ q <= P
          BY <1>7, <5>1
        <5>3. q = P
          <6>1. q \in Nat /\ q >= 1
            BY <5>2 DEF Presses
          <6>2. ~(q \in 1 .. P - 1)
            BY <2>1, <3>3, <5>2
          <6> QED
            BY <1>2, <5>2, <6>1, <6>2
        <5> QED
          BY <1>2, <3>3, <5>2, <5>3
      <4> QED
        BY <1>16, <2>1, <3>3, <4>1, <4>2
    <3> QED
      BY <3>1, <3>2, <3>3
  <2> QED
    BY <1>1, <1>14, <2>1 DEF FirstDigitOfLeg
<1>19. FlowInTurn'
  <2>1. ASSUME NEW i \in 1 .. Len(wire) PROVE Genuine(wire[i])'
    <3>1. Genuine(wire[i]) /\ Before(k, wire[i]) /\ wire[i] \in Packets
      BY <1>2, DtmfTyped DEF DtmfInv, FlowInTurn
    <3>2. wire[i].press \in Nat
      BY <3>1, DtmfTyped
    <3>3. P < wire[i].press \/ (P = wire[i].press /\ (k.end => wire[i].end))
      BY <3>1 DEF Before, P, k
    <3>4. After(wire[i])'
      <4>1. ASSUME NEW p \in Presses, arrived'[p] # {}
            PROVE  p < wire[i].press \/ (p = wire[i].press /\ ("end" \in arrived'[p] => wire[i].end))
        <5>1. CASE p # P
          BY <1>6, <3>1, <4>1, <5>1 DEF Genuine, After
        <5>2. CASE p = P
          <6>1. CASE P < wire[i].press
            BY <5>2, <6>1
          <6>2. CASE ~(P < wire[i].press)
            <7>1. P = wire[i].press /\ (k.end => wire[i].end)
              BY <3>3, <6>2
            <7>2. "end" \in arrived[P] => wire[i].end
              <8>1. ASSUME "end" \in arrived[P] PROVE k.end
                <9>1. arrived[P] # {}
                  BY <8>1
                <9> QED
                  BY <1>2, <1>3, <8>1, <9>1
              <8> QED
                BY <7>1, <8>1
            <7>3. "end" \in arrived'[P] => "end" \in arrived[P] \/ k.end
              BY <1>6
            <7> QED
              BY <5>2, <7>1, <7>2, <7>3
          <6> QED
            BY <6>1, <6>2
        <5> QED
          BY <5>1, <5>2
      <4> QED
        BY <1>1, <4>1 DEF After
    <3> QED
      BY <1>1, <3>1, <3>4 DEF Genuine
  <2>2. /\ ssrc' <= leg' /\ \A p \in DOMAIN presses' : presses'[p].leg <= leg'
        /\ \A p, q \in DOMAIN presses' : p <= q => presses'[p].leg <= presses'[q].leg
        /\ \A i, j \in 1 .. Len(wire') : i < j => Before(wire'[i], wire'[j])
    BY <1>1 DEF DtmfInv, FlowInTurn
  <2> QED
    BY <1>1, <2>1, <2>2 DEF FlowInTurn
<1>20. DetectorTracks'
  <2>1. lastEnd' <=> "end" \in arrived'[P]
    <3>1. CASE k.end
      <4>1. "end" \in arrived'[P] /\ k.end = TRUE
        BY <1>2, <1>6, <3>1
      <4> QED
        BY <1>4, <4>1
    <3>2. CASE ~k.end
      <4>1. "end" \notin arrived[P]
        BY <1>2, <1>3, <3>2
      <4>2. "end" \notin arrived'[P] /\ k.end = FALSE
        BY <1>2, <1>6, <3>2, <4>1
      <4> QED
        BY <1>4, <4>2
    <3> QED
      BY <3>1, <3>2
  <2>2. arrived'[P] # {} /\ \A q \in Presses : arrived'[q] # {} => q <= P
    <3>1. tag \in arrived'[P]
      BY <1>6
    <3>2. ASSUME NEW q \in Presses, arrived'[q] # {} PROVE q <= P
      <4>1. CASE q = P
        BY <1>2, <4>1
      <4>2. CASE q # P
        BY <1>2, <1>3, <1>6, <3>2, <4>2
      <4> QED
        BY <4>1, <4>2
    <3> QED
      BY <3>1, <3>2
  <2>3. Remembers'
    BY <1>1, <1>2, <1>4, <2>1, <2>2 DEF Remembers
  <2> QED
    BY <1>1, <2>3 DEF DetectorTracks
<1>21. ReportsHandled'
  <2>1. ASSUME NEW p \in Presses
        PROVE  /\ arrived'[p] # {} => p \in DOMAIN presses /\ presses[p].leg <= ssrc
               /\ ends'[p] > 0 => "end" \in arrived'[p]
    <3>1. CASE p # P
      BY <1>5, <1>6, <3>1 DEF DtmfInv, ReportsHandled
    <3>2. CASE p = P
      <4>1. presses[P].leg <= ssrc
        BY <1>2
      <4>2. ends'[P] > 0 => ends[P] > 0 \/ k.end
        BY <1>2, <1>5
      <4>3. ends[P] > 0 => "end" \in arrived[P]
        BY <1>2 DEF DtmfInv, ReportsHandled
      <4> QED
        BY <1>2, <1>6, <3>2, <4>1, <4>2, <4>3
    <3> QED
      BY <3>1, <3>2
  <2> QED
    BY <1>1, <1>13, <2>1 DEF ReportsHandled
<1> QED
  BY <1>12, <1>15, <1>17, <1>18, <1>19, <1>20, <1>21 DEF DtmfInv

LEMMA DtmfStepInv == DtmfInv /\ [DtmfNext]_dtmfVars => DtmfInv'
<1> SUFFICES ASSUME DtmfInv, [DtmfNext]_dtmfVars PROVE DtmfInv'
  OBVIOUS
<1>1. CASE UNCHANGED dtmfVars
  <2>1. UNCHANGED <<lastEvent, lastEnd, ssrc, hand, stopped, leg, presses, wire, arrived, ends>>
    BY <1>1 DEF dtmfVars, detectorVars, callerVars, historyVars
  <2>2. DtmfTypeOK' /\ NoDoubleDigit' /\ HeardIsReported' /\ FirstDigitOfLeg'
    BY <2>1 DEF DtmfInv, DtmfTypeOK, NoDoubleDigit, HeardIsReported, FirstDigitOfLeg, Pressed
  <2>3. FlowInTurn'
    BY <2>1 DEF DtmfInv, FlowInTurn, Genuine, After
  <2>4. DetectorTracks' /\ ReportsHandled'
    BY <2>1 DEF DtmfInv, DetectorTracks, Remembers, ReportsHandled
  <2> QED
    BY <2>2, <2>3, <2>4 DEF DtmfInv
<1>2. CASE DtmfNext
  BY <1>2, PressKeepsInv, ChangeLegKeepsInv, LoseKeepsInv, ReceiveKeepsInv, ParseKeepsInv, StopResetKeepsInv
  DEF DtmfNext
<1> QED
  BY <1>1, <1>2

(* Telephone events, for any number of presses, legs and end packets and    *)
(* whatever the network loses: until Stop a press is reported at most once, *)
(* it is reported where its start and an end arrived, and so is the first   *)
(* digit of a leg.                                                          *)
THEOREM DtmfInvariant == DtmfSpec => []DtmfInv
<1> QED
  BY DtmfInitInv, DtmfStepInv, PTL DEF DtmfSpec

-----------------------------------------------------------------------------
(* RtcpStats: what a session knows from RTCP is consistent for any SSRCs and*)
(* any number of packets and changes.                                       *)

(* The listener never stores a block about no leg.                          *)
LEMMA PreferredIsLeg ==
  ASSUME NEW blocks \in SeqOf(Legs, 2), blocks # << >>
  PROVE  Preferred(blocks) \in Legs
<1>1. PICK m \in 0 .. 2 : blocks \in [1 .. m -> Legs]
  BY DEF SeqOf
<1>2. blocks \in Seq(Legs) /\ Len(blocks) = m
  BY <1>1
<1>3. m # 0
  BY <1>2
<1>4. \A i \in 1 .. Len(blocks) : blocks[i] \in Legs
  BY <1>1, <1>2
<1>5. blocks[1] \in Legs
  BY <1>2, <1>3, <1>4
<1>6. Contains(blocks, currentSSRC) => currentSSRC \in Legs
  BY <1>4 DEF Contains
<1> QED
  BY <1>5, <1>6 DEF Preferred

LEMMA NoPacketIsPacket == NoPacket \in RtcpPackets
<1>1. << >> \in [1 .. 0 -> Legs]
  OBVIOUS
<1>2. << >> \in SeqOf(Legs, 2)
  BY <1>1 DEF SeqOf
<1>3. IsInjective(<< >>)
  BY DEF IsInjective
<1> QED
  BY <1>2, <1>3 DEF NoPacket, RtcpPackets

LEMMA RtcpInitInv == RtcpInit => RtcpInv
<1> SUFFICES ASSUME RtcpInit PROVE RtcpInv
  OBVIOUS
<1> USE RtcpAssumption, NoPacketIsPacket DEF RtcpInit
<1>1. RtcpTypeOK
  BY DEF RtcpTypeOK
<1>2. ReportAndTimeTogether /\ AtMostOneStale /\ InHand
  BY DEF ReportAndTimeTogether, AtMostOneStale, InHand, Empty
<1> QED
  BY <1>1, <1>2 DEF RtcpInv

(* The steps of the receive loop: the reports are left alone or emptied.    *)
LEMMA PacketsKeepInv ==
  ASSUME RtcpInv, (\E l \in Legs : RtpPacket(l)) \/ Forget \/ StoreSSRC
  PROVE  RtcpInv'
<1> USE RtcpAssumption DEF RtcpInv, reportVars, rtcpLoopVars
<1>1. CASE \E l \in Legs : RtpPacket(l)
  <2>1. RtcpTypeOK'
    BY <1>1 DEF RtpPacket, RtcpTypeOK
  <2>2. ReportAndTimeTogether' /\ AtMostOneStale' /\ InHand'
    BY <1>1 DEF RtpPacket, ReportAndTimeTogether, AtMostOneStale, InHand
  <2> QED
    BY <2>1, <2>2
<1>2. CASE Forget
  <2>1. RtcpTypeOK'
    BY <1>2 DEF Forget, RtcpTypeOK
  <2>2. ReportAndTimeTogether' /\ AtMostOneStale' /\ InHand'
    BY <1>2 DEF Forget, RtcpTypeOK, ReportAndTimeTogether, AtMostOneStale, InHand, Empty
  <2> QED
    BY <2>1, <2>2
<1>3. CASE StoreSSRC
  <2>1. RtcpTypeOK'
    BY <1>3 DEF StoreSSRC, RtcpTypeOK
  <2>2. ReportAndTimeTogether' /\ AtMostOneStale' /\ InHand'
    BY <1>3 DEF StoreSSRC, ReportAndTimeTogether, AtMostOneStale, InHand
  <2> QED
    BY <2>1, <2>2
<1> QED
  BY <1>1, <1>2, <1>3

(* The steps of the listener: what it stores is of the packet in hand,      *)
(* which was read after every packet that was forgotten, or is the last of  *)
(* them.                                                                    *)
LEMMA ListenerKeepsInv ==
  ASSUME RtcpInv, (\E p \in RtcpPackets : Read(p)) \/ Pick \/ StoreBlock \/ StoreSender
  PROVE  RtcpInv'
<1> USE RtcpAssumption DEF RtcpInv, rtpVars, reportVars
<1>1. CASE \E p \in RtcpPackets : Read(p)
  <2>0. PICK p \in RtcpPackets : Read(p)
    BY <1>1
  <2>1. RtcpTypeOK'
    BY <2>0 DEF Read, RtcpTypeOK
  <2>2. ReportAndTimeTogether' /\ AtMostOneStale'
    BY <2>0 DEF Read, ReportAndTimeTogether, AtMostOneStale
  <2>3. InHand'
    BY <2>0 DEF Read, RtcpTypeOK, InHand
  <2> QED
    BY <2>1, <2>2, <2>3
<1>2. CASE Pick
  <2>1. Preferred(packet.blocks) \in Legs
    <3>1. packet.blocks \in SeqOf(Legs, 2) /\ packet.blocks # << >>
      BY <1>2 DEF Pick, RtcpTypeOK, RtcpPackets, InHand
    <3> QED
      BY <3>1, PreferredIsLeg
  <2>2. RtcpTypeOK'
    BY <1>2, <2>1 DEF Pick, RtcpTypeOK
  <2>3. ReportAndTimeTogether' /\ AtMostOneStale' /\ InHand'
    BY <1>2, <2>1 DEF Pick, ReportAndTimeTogether, AtMostOneStale, InHand
  <2> QED
    BY <2>2, <2>3
<1>3. CASE StoreBlock
  <2>1. RtcpTypeOK'
    BY <1>3 DEF StoreBlock, RtcpTypeOK, InHand
  <2>2. ReportAndTimeTogether' /\ AtMostOneStale' /\ InHand'
    BY <1>3 DEF StoreBlock, RtcpTypeOK, ReportAndTimeTogether, AtMostOneStale, InHand
  <2> QED
    BY <2>1, <2>2
<1>4. CASE StoreSender
  <2>1. RtcpTypeOK'
    BY <1>4, NoPacketIsPacket DEF StoreSender, RtcpTypeOK, InHand
  <2>2. ReportAndTimeTogether' /\ AtMostOneStale' /\ InHand'
    BY <1>4 DEF StoreSender, RtcpTypeOK, ReportAndTimeTogether, AtMostOneStale, InHand
  <2> QED
    BY <2>1, <2>2
<1> QED
  BY <1>1, <1>2, <1>3, <1>4

LEMMA RtcpStepInv == RtcpInv /\ [RtcpNext]_rtcpVars => RtcpInv'
<1> SUFFICES ASSUME RtcpInv, [RtcpNext]_rtcpVars PROVE RtcpInv'
  OBVIOUS
<1>1. CASE UNCHANGED rtcpVars
  BY <1>1 DEF RtcpInv, RtcpTypeOK, ReportAndTimeTogether, AtMostOneStale, InHand,
              rtcpVars, rtpVars, reportVars, rtcpLoopVars
<1>2. CASE RtcpNext
  BY <1>2, PacketsKeepInv, ListenerKeepsInv DEF RtcpNext
<1> QED
  BY <1>1, <1>2

-----------------------------------------------------------------------------
(* Of the listener's and the receive loop's steps, in any order: report and *)
(* arrival time belong together, and no report read before a change of SSRC *)
(* outlives it, but the one in the listener's hands.                        *)
THEOREM RtcpInvariant == RtcpSpec => []RtcpInv
<1> QED
  BY RtcpInitInv, RtcpStepInv, PTL DEF RtcpSpec

(* RTTMs never computes with the arrival time of a report that is gone.     *)
THEOREM RtcpTimesMatch == RtcpSpec => [](ReportAndTimeTogether /\ AtMostOneStale)
<1>1. RtcpInv => ReportAndTimeTogether /\ AtMostOneStale
  BY DEF RtcpInv
<1> QED
  BY RtcpInvariant, <1>1, PTL
=============================================================================
