-------------------------- MODULE MCSessionStreams --------------------------
(* What an RTP session does besides the path of MediaPath: bot audio to the *)
(* caller, telephone events, RTCP statistics.  They share no state, so each *)
(* behaviour is about one of them, its subject, and the others stand still. *)
EXTENDS Playback, DtmfDetector, RtcpStats

VARIABLE subject

streamsVars == <<subject, playbackVars, dtmfVars, rtcpVars>>

StreamsInit ==
  /\ subject \in {"playback", "dtmf", "rtcp"}
  /\ PlaybackInit /\ DtmfInit /\ RtcpInit

StreamsNext ==
  \/ subject = "playback" /\ PlaybackNext /\ UNCHANGED <<subject, dtmfVars, rtcpVars>>
  \/ subject = "dtmf" /\ DtmfNext /\ UNCHANGED <<subject, playbackVars, rtcpVars>>
  \/ subject = "rtcp" /\ RtcpNext /\ UNCHANGED <<subject, playbackVars, dtmfVars>>

StreamsSpec ==
  /\ StreamsInit /\ [][StreamsNext]_streamsVars
  /\ subject = "playback" => PlaybackFairness

(* Bot audio is played or silenced for good: what a barge-in discarded is   *)
(* never heard, and what was accepted and not discarded is.                 *)
PlayedOrSilenced == SilencedForGood /\ AcceptedIsPlayed
=============================================================================
