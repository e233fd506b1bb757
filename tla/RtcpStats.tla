----------------------------- MODULE RtcpStats ------------------------------
(***************************************************************************)
(* What an RTP session knows from RTCP (pkg/rtp/session.go): the receive   *)
(* loop, which sees SSRCs change and forgets the old leg's reports; the    *)
(* listener on the RTCP port, which picks a report block and stores it,    *)
(* then stores the sender report of the same packet; and RTTMs, which      *)
(* reads both.  Each takes the mutex for one group of assignments, never   *)
(* across them.                                                            *)
(*                                                                         *)
(* A packet is the legs its report blocks are about, in their order, and   *)
(* whether it is a sender report; one that does not parse changes nothing  *)
(* and is left out.  So are the numbers within a report: a stored value is *)
(* known by the packet it came from.                                       *)
(***************************************************************************)
EXTENDS Integers, Sequences, SequencesExt, FiniteSetsExt

CONSTANTS
  Legs,        (* SSRCs                                                     *)
  MaxPackets,  (* bound: RTCP packets                                       *)
  MaxChanges   (* bound: changes of SSRC                                    *)

ASSUME RtcpAssumption == MaxPackets \in Nat /\ MaxChanges \in Nat

VARIABLES
  currentSSRC,  (* NoLeg before the first RTP packet                        *)
  rtpPc,        (* the receive loop: idle, forget, store                    *)
  newSSRC,      (* the SSRC of the packet it handles                        *)
  RTCPStats,    (* the stored block: which packet, which leg; or Empty      *)
  LastSR,       (* the stored sender report: which packet; 0 for none       *)
  LastSRReceivedAt,  (* the same for its arrival time                       *)
  rtcpPc,       (* the listener: read, pick, block, sender                  *)
  packet,       (* the packet it handles                                    *)
  picked,       (* the leg of the block it chose                            *)
  received,     (* how many RTCP packets were read                          *)
  changes,      (* changes of SSRC so far                                   *)
  forgotten     (* history: packets read before the last reset              *)

rtpVars == <<currentSSRC, rtpPc, newSSRC, changes, forgotten>>
reportVars == <<RTCPStats, LastSR, LastSRReceivedAt>>
rtcpLoopVars == <<rtcpPc, packet, picked, received>>
rtcpVars == <<rtpVars, reportVars, rtcpLoopVars>>

NoLeg == 0
Empty == [from |-> 0, leg |-> NoLeg]
NoPacket == [blocks |-> << >>, sr |-> FALSE]

(* Up to two blocks, each about a different leg. *)
RtcpPackets == [blocks : {b \in SeqOf(Legs, 2) : IsInjective(b)}, sr : BOOLEAN]

RtcpTypeOK ==
  /\ currentSSRC \in Legs \cup {NoLeg} /\ newSSRC \in Legs \cup {NoLeg}
  /\ rtpPc \in {"idle", "forget", "store"}
  /\ RTCPStats \in [from : 1 .. MaxPackets, leg : Legs] \cup {Empty}
  /\ LastSR \in 0 .. MaxPackets /\ LastSRReceivedAt \in 0 .. MaxPackets
  /\ rtcpPc \in {"read", "pick", "block", "sender"}
  /\ packet \in RtcpPackets /\ picked \in Legs \cup {NoLeg}
  /\ received \in 0 .. MaxPackets /\ changes \in 0 .. MaxChanges
  /\ forgotten \in 0 .. MaxPackets

RtcpInit ==
  /\ currentSSRC = NoLeg /\ newSSRC = NoLeg /\ rtpPc = "idle"
  /\ RTCPStats = Empty /\ LastSR = 0 /\ LastSRReceivedAt = 0
  /\ rtcpPc = "read" /\ packet = NoPacket /\ picked = NoLeg
  /\ received = 0 /\ changes = 0 /\ forgotten = 0

-----------------------------------------------------------------------------
(* The receive loop *)

RtpPacket(leg) ==
  /\ rtpPc = "idle"
  /\ IF currentSSRC \in {NoLeg, leg}
     THEN rtpPc' = "store" /\ UNCHANGED changes
     ELSE changes < MaxChanges /\ changes' = changes + 1 /\ rtpPc' = "forget"
  /\ newSSRC' = leg
  /\ UNCHANGED <<currentSSRC, forgotten, reportVars, rtcpLoopVars>>

(* Faulty: the reports outlive the leg. *)
ForgetNothing ==
  /\ rtpPc = "forget" /\ rtpPc' = "store"
  /\ forgotten' = received
  /\ UNCHANGED <<currentSSRC, newSSRC, changes, reportVars, rtcpLoopVars>>

(* One critical section; the SSRC itself follows later. *)
Forget ==
  /\ rtpPc = "forget" /\ rtpPc' = "store"
  /\ RTCPStats' = Empty /\ LastSR' = 0 /\ LastSRReceivedAt' = 0
  /\ forgotten' = received
  /\ UNCHANGED <<currentSSRC, newSSRC, changes, rtcpLoopVars>>

StoreSSRC ==
  /\ rtpPc = "store" /\ rtpPc' = "idle"
  /\ currentSSRC' = newSSRC
  /\ UNCHANGED <<newSSRC, changes, forgotten, reportVars, rtcpLoopVars>>

-----------------------------------------------------------------------------
(* The listener *)

Read(p) ==
  /\ rtcpPc = "read" /\ received < MaxPackets
  /\ packet' = p /\ received' = received + 1
  /\ rtcpPc' = IF p.blocks = << >> THEN "sender" ELSE "pick"
  /\ UNCHANGED <<rtpVars, reportVars, picked>>

(* The block about the tracked SSRC, else the first. *)
Preferred(blocks) ==
  IF currentSSRC # NoLeg /\ Contains(blocks, currentSSRC) THEN currentSSRC ELSE blocks[1]

Pick ==
  /\ rtcpPc = "pick" /\ rtcpPc' = "block"
  /\ picked' = Preferred(packet.blocks)
  /\ UNCHANGED <<rtpVars, reportVars, packet, received>>

StoreBlock ==
  /\ rtcpPc = "block" /\ rtcpPc' = "sender"
  /\ RTCPStats' = [from |-> received, leg |-> picked]
  /\ UNCHANGED <<rtpVars, LastSR, LastSRReceivedAt, packet, picked, received>>

StoreSender ==
  /\ rtcpPc = "sender" /\ rtcpPc' = "read"
  /\ IF packet.sr
     THEN LastSR' = received /\ LastSRReceivedAt' = received
     ELSE UNCHANGED <<LastSR, LastSRReceivedAt>>
  /\ packet' = NoPacket /\ picked' = NoLeg
  /\ UNCHANGED <<rtpVars, RTCPStats, received>>

RtcpNext ==
  \/ \E leg \in Legs : RtpPacket(leg)
  \/ Forget \/ StoreSSRC
  \/ \E p \in RtcpPackets : Read(p)
  \/ Pick \/ StoreBlock \/ StoreSender

RtcpSpec == RtcpInit /\ [][RtcpNext]_rtcpVars

-----------------------------------------------------------------------------
(* Properties *)

(* A sender report and its arrival time are stored and forgotten together, *)
(* so RTTMs never computes with the time of a report that is gone.         *)
ReportAndTimeTogether == LastSR = LastSRReceivedAt

(* After a change of SSRC at most the one packet that was in the           *)
(* listener's hands is left of the old leg's reports.                      *)
AtMostOneStale ==
  /\ RTCPStats.from # 0 => RTCPStats.from >= forgotten
  /\ LastSR # 0 => LastSR >= forgotten

(* The listener, at each of its steps, has what the step needs: a packet   *)
(* that counts, with a block to pick from, and then the leg of that block. *)
InHand ==
  /\ forgotten <= received
  /\ rtcpPc # "read" => received > 0
  /\ rtcpPc = "pick" => packet.blocks # << >>
  /\ rtcpPc = "block" => picked \in Legs

(* What the listener stores and the receive loop resets stays consistent:  *)
(* report with arrival time, and at most the packet in hand out of date.   *)
RtcpInv == RtcpTypeOK /\ ReportAndTimeTogether /\ AtMostOneStale /\ InHand
=============================================================================
