----------------------------- MODULE MCReceive -----------------------------
(* The parts of the receive path on their own.  Each behaviour is about one *)
(* of them, its subject: the jitter buffer under its own environment, with  *)
(* packets of any plausible number and resets at any time; concealment with *)
(* good frames, losses and resets in any order; or the playout of one       *)
(* ordered stream through both of them, as the session composes them.       *)
EXTENDS PlayoutLag

VARIABLE subject

receiveVars == <<subject, lagVars>>

ReceiveInit ==
  /\ LagInit
  /\ subject \in {"buffer", "concealment", "lag"}
  /\ subject # "lag" => bypass

(* Payloads are uninterpreted: one will do for the buffer alone.           *)
OnePayload == \A i \in 1 .. Len(buf') : buf'[i].payload = (CHOOSE p \in Payloads : TRUE)

(* Bound: when to play what does not depend on the pipeline's framing, so    *)
(* the packets of the ordered stream are as long as a frame of it.          *)
OneFrameEach == sent' # NoFrame => sent'.body # NoFrame

ReceiveNext ==
  \/ subject = "buffer" /\ Next /\ OnePayload /\ UNCHANGED <<subject, plcVars, pathVars, missing>>
  \/ subject = "concealment" /\ PLCNext /\ UNCHANGED <<subject, jitterVars, pathVars, missing>>
  \/ subject = "lag" /\ LagNext /\ OneFrameEach /\ UNCHANGED subject

ReceiveSpec ==
  /\ ReceiveInit /\ [][ReceiveNext]_receiveVars
  /\ subject = "buffer" => JitterFairness
  /\ subject = "concealment" => PLCFairness
  /\ subject = "lag" => LagFairness

(* The receive path gets on.  The buffer is never wedged on a packet it     *)
(* cannot deliver, an endless burst ends in silence, and an ordered stream  *)
(* with a few missing numbers is eventually played without losses.          *)
ReceiveGetsOn ==
  /\ NeverStarves
  /\ subject = "concealment" => BurstEndsSilent
  /\ subject = "lag" => StreamRecovers
=============================================================================
