----------------------------- MODULE PlayoutLag -----------------------------
(***************************************************************************)
(* What packet loss does to the playout of one call.  The receive path of  *)
(* MediaPath is driven by a single leg whose packets arrive in order and   *)
(* for ever; at most Budget numbers of the stream never reach the buffer,  *)
(* be it because the network lost them or because they carried a DTMF      *)
(* event, which handlePacket answers without pushing it.                   *)
(***************************************************************************)
EXTENDS MediaPath

CONSTANT Budget  (* numbers of the stream that never reach the buffer       *)

VARIABLE missing (* how many of them are still to go missing                *)

lagVars == <<mediaVars, missing>>

LagInit == MediaInit /\ missing = Budget /\ newest = 0

(* The one leg of the call. *)
CurrentLeg == CHOOSE l \in Legs : TRUE

(* The next packet of the stream arrives, or the one after it.             *)
StreamArrives(skip) ==
  /\ missing >= skip
  /\ missing' = missing - skip
  /\ newest' = SeqAdd(newest, skip + 1)
  /\ Receive([leg |-> CurrentLeg, seq |-> newest', kind |-> "audio"])

DTMFArrives ==
  /\ missing >= 1
  /\ missing' = missing - 1
  /\ newest' = SeqAdd(newest, 1)
  /\ Receive([leg |-> CurrentLeg, seq |-> newest', kind |-> "dtmf"])

LagNext ==
  \/ \E skip \in 0 .. MaxGap : StreamArrives(skip)
  \/ DTMFArrives
  \/ Handle /\ UNCHANGED missing

LagSpec == LagInit /\ [][LagNext]_lagVars

(* The sender keeps sending and the receive loop keeps handling.           *)
LagFairness ==
  /\ WF_lagVars(StreamArrives(0))
  /\ WF_lagVars(Handle /\ UNCHANGED missing)

-----------------------------------------------------------------------------
(* "That is what lets a legitimate future packet catch up to nextSeq after *)
(* real loss": once the stream arrives complete again, the buffer plays it *)
(* complete again -- from some point on Pop reports no loss.               *)
CatchesUp == <>[](frame # Loss)

(* Playout never stops: packets keep being forwarded for ever.             *)
KeepsPlaying == []<>(pc \in {"emit", "clean"} /\ frame # Loss)

(* However a stream loses what it may lose, the path recovers: from some   *)
(* point on it plays for ever and without a loss.                          *)
StreamRecovers == CatchesUp /\ KeepsPlaying
=============================================================================
