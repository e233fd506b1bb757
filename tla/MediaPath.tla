----------------------------- MODULE MediaPath -----------------------------
(***************************************************************************)
(* The receive goroutine of an RTP session (pkg/rtp/session.go,            *)
(* handlePacket): SSRC-change detection, DTMF dispatch, the jitter buffer, *)
(* concealment, the audio pipeline and the forwarded packet.  It composes  *)
(* JitterBuffer and LossConcealment, which hold the two halves of one      *)
(* JitterBuffer struct.                                                    *)
(*                                                                         *)
(* The buffer's mutex is released between Push and Pop, so the handler is  *)
(* three steps, told apart by pc.  Of the pipeline it is known whose audio *)
(* its buffer, filters and noise estimates hold: a frame may come out late *)
(* or not at all, it keeps its loudness.  Telemetry and the packet         *)
(* counters are left out.  An SSRC stands for a call leg.                  *)
(***************************************************************************)
EXTENDS JitterBuffer, LossConcealment
LOCAL INSTANCE TLC

CONSTANTS
  MaxGap,  (* environment: how far a packet may jump ahead of the newest    *)
  Loss     (* what Pop hands out for a lost packet: (nil, true)             *)

ASSUME MediaAssumption ==
  /\ MaxGap \in Nat /\ MaxDrift + MaxGap < Half
  /\ Window < MaxDrift    (* a late packet is not taken for a restart       *)
  /\ Loss \notin Entries
  /\ Payloads = Legs /\ NoFrame \notin Legs

VARIABLES
  pc,           (* idle, push, pop, emit, clean: where handlePacket stands  *)
  cur,          (* the packet being handled                                 *)
  frame,        (* what Pop handed out for it                               *)
  pcm,          (* the decoded or concealed frame on its way to the wire    *)
  pipe,         (* the legs whose audio s.pipeline holds since its Reset    *)
  currentSSRC,  (* s.currentSSRC; NoFrame stands for ~s.ssrcSet             *)
  bypass,       (* s.isBypassMode(): fixed by the pipeline's configuration  *)
  sent,         (* the packet forwarded last: SSRC of its header, and its   *)
                (* audio, NoFrame if it has none                            *)
  newest,       (* environment: newest sequence number sent on the leg      *)
  played,       (* history: the received packet of this leg forwarded last  *)
  burst         (* history: concealed packets forwarded since, at most 3    *)

pathVars == <<pc, cur, frame, pcm, pipe, currentSSRC, bypass, sent, newest, played, burst>>
mediaVars == <<jitterVars, plcVars, pathVars>>

Kinds == {"audio", "dtmf"}
Packets == [leg : Legs, seq : SeqNums, kind : Kinds]

MediaTypeOK ==
  /\ TypeOK
  /\ PLCTypeOK
  /\ pc \in {"idle", "push", "pop", "emit", "clean"}
  /\ cur \in Packets \cup {NoFrame}
  /\ frame \in Entries \cup {Loss, NoFrame}
  /\ pcm \in Frames \cup {NoFrame}
  /\ pipe \in SUBSET Legs
  /\ currentSSRC \in Legs \cup {NoFrame}
  /\ bypass \in BOOLEAN
  /\ sent \in [leg : Legs, body : Frames \cup {NoFrame}] \cup {NoFrame}
  /\ newest \in SeqNums
  /\ played \in SeqNums \cup {NoFrame}
  /\ burst \in 0 .. 3

MediaInit ==
  /\ Init
  /\ PLCInit
  /\ pc = "idle"
  /\ cur = NoFrame /\ frame = NoFrame /\ pcm = NoFrame
  /\ pipe = {}
  /\ currentSSRC = NoFrame
  /\ bypass \in BOOLEAN
  /\ sent = NoFrame
  /\ newest \in SeqNums
  /\ played = NoFrame
  /\ burst = 0

-----------------------------------------------------------------------------
(* The handler returns: its locals are gone. *)
Return == pc' = "idle" /\ cur' = NoFrame /\ frame' = NoFrame /\ pcm' = NoFrame

NewLeg(packet) == currentSSRC # NoFrame /\ packet.leg # currentSSRC

(* Faulty: the pipeline keeps what it has of the old leg. *)
KeepPipeline == UNCHANGED pipe

(* s.pipeline.Reset *)
ResetPipeline == pipe' = {}

(* Header parsed, SSRC compared, DTMF answered and swallowed. *)
Receive(packet) ==
  /\ pc = "idle"
  /\ IF NewLeg(packet)
     THEN Reset /\ ResetPLC /\ ResetPipeline /\ played' = NoFrame /\ burst' = 0
     ELSE UNCHANGED <<jitterVars, plcVars, pipe, played, burst>>
  /\ currentSSRC' = packet.leg
  /\ IF packet.kind = "dtmf"
     THEN Return
     ELSE pc' = "push" /\ cur' = packet /\ UNCHANGED <<frame, pcm>>
  /\ UNCHANGED <<bypass, sent>>

PushPacket ==
  /\ pc = "push"
  /\ Push(cur.seq, cur.leg)
  /\ IF primed' THEN pc' = "pop" /\ UNCHANGED <<cur, frame, pcm>> ELSE Return
  /\ UNCHANGED <<plcVars, pipe, currentSSRC, bypass, sent, newest, played, burst>>

PopPacket ==
  /\ pc = "pop"
  /\ \/ PopNothing /\ Return
     \/ PopFrame /\ pc' = "emit" /\ frame' = Head(buf) /\ UNCHANGED <<cur, pcm>>
     \/ PopLoss /\ pc' = "emit" /\ frame' = Loss /\ UNCHANGED <<cur, pcm>>
  /\ UNCHANGED <<plcVars, pipe, currentSSRC, bypass, sent, newest, played, burst>>

(* The packet leaves under the header of the packet just received. *)
Forward(body) ==
  /\ sent' = [leg |-> cur.leg, body |-> body]
  /\ IF frame = Loss
     THEN burst' = (IF burst = 3 THEN 3 ELSE burst + 1) /\ UNCHANGED played
     ELSE burst' = 0 /\ played' = frame.seq
  /\ Return

Drop == Return /\ UNCHANGED <<sent, played, burst>>

(* A received payload decodes to a frame at full loudness. *)
Decoded(entry) == [leg |-> entry.payload, amp |-> Peak]

(* Bypass: the payload goes out as it came.  Concealment history is primed *)
(* only for codecs whose decoding is free.                                 *)
EmitBypass ==
  /\ pc = "emit" /\ frame # Loss /\ bypass
  /\ OnGoodPacket(Decoded(frame)) \/ UNCHANGED plcVars
  /\ Forward(Decoded(frame))
  /\ UNCHANGED <<jitterVars, pipe, currentSSRC, bypass, newest>>

(* A payload that does not decode is dropped without concealment. *)
Decode ==
  /\ pc = "emit" /\ frame # Loss /\ ~bypass
  /\ \/ /\ pcm' = Decoded(frame)
        /\ pc' = "clean"
        /\ UNCHANGED <<cur, frame, sent, played, burst>>
     \/ Drop
  /\ UNCHANGED <<jitterVars, plcVars, pipe, currentSSRC, bypass, newest>>

Conceal ==
  /\ pc = "emit" /\ frame = Loss
  /\ GeneratePLC
  /\ pcm' = IF concealed' = NoFrame THEN [leg |-> cur.leg, amp |-> 0] ELSE concealed'
  /\ pc' = "clean"
  /\ UNCHANGED <<jitterVars, cur, frame, pipe, currentSSRC, bypass, sent, newest, played, burst>>

(* ProcessFrames, remember the clean frame for concealment, encode, forward. *)
(* What comes out was fed in since the last Reset.  Nothing comes out where  *)
(* the pipeline still waits for the rest of its frame, and the packet then   *)
(* leaves without audio, or where it fails; encoding may fail too.           *)
EmitClean ==
  /\ pc = "clean"
  /\ pipe' = pipe \cup {pcm.leg}
  /\ \/ \E l \in pipe' :
          LET cleanPCM == [leg |-> l, amp |-> pcm.amp]
          IN  OnGoodPacket(cleanPCM) /\ (Forward(cleanPCM) \/ Drop)
     \/ UNCHANGED plcVars /\ (Forward(NoFrame) \/ Drop)
  /\ UNCHANGED <<jitterVars, currentSSRC, bypass, newest>>

-----------------------------------------------------------------------------
(* The environment: one sender per leg.  A packet is at most Window behind *)
(* the newest one of its leg (reordered or duplicated) and at most MaxGap  *)
(* ahead of it (packets in between were lost or are late); as assumed by   *)
(* JitterBuffer, packets met before priming are within Window of another.  *)
(* The stream never runs half the sequence space ahead of the buffer or of *)
(* the playout, as only tens of thousands of DTMF packets, or of packets   *)
(* that do not decode, in a row could make it.                             *)
SeqAdd(a, k) == IF a + k < SeqSpace THEN a + k ELSE a + k - SeqSpace

Reachable == {SeqAdd(newest, k) : k \in 0 .. MaxGap}
             \cup {SeqAdd(newest, SeqSpace - k) : k \in 0 .. Window}

PacketArrives ==
  \E l \in Legs, s \in Reachable, kind \in Kinds :
    /\ currentSSRC \in {NoFrame, l}
    /\ Plausible(s)
    /\ seqLess(newest, s) =>
         /\ primed => SeqDist(nextSeq, s) < Half
         /\ played # NoFrame => SeqDist(played, s) < Half
    /\ Receive([leg |-> l, seq |-> s, kind |-> kind])
    /\ newest' = IF seqLess(newest, s) THEN s ELSE newest

(* A new leg takes over and numbers its packets from anywhere. *)
LegChanges ==
  \E l \in Legs, s \in SeqNums, kind \in Kinds :
    /\ currentSSRC # NoFrame /\ l # currentSSRC
    /\ Receive([leg |-> l, seq |-> s, kind |-> kind])
    /\ newest' = s

Handle == PushPacket \/ PopPacket \/ EmitBypass \/ Decode \/ Conceal \/ EmitClean

MediaNext == PacketArrives \/ LegChanges \/ Handle

MediaSpec == MediaInit /\ [][MediaNext]_mediaVars

-----------------------------------------------------------------------------
(* Properties *)

(* Frames leave in the order of their source packets and none leaves twice *)
(* on a leg, whatever the network reorders, duplicates or loses: the frame *)
(* about to be forwarded is later than every one forwarded before it.      *)
PlayoutForward ==
  (pc \in {"emit", "clean"} /\ frame # Loss /\ played # NoFrame)
    => SeqDist(played, frame.seq) \in 1 .. Half - 1

(* After an SSRC change nothing of the old leg is heard under the new one: *)
(* neither a buffered payload, nor a concealment made from old audio, nor  *)
(* what the pipeline still had of it.                                      *)
NoCrossLegAudio ==
  (sent # NoFrame /\ sent.body # NoFrame) => sent.body.leg = sent.leg

(* Under the session's own calling pattern no entry ever lies behind the   *)
(* number that is due and entries come out in stream order, also when the  *)
(* packets met before priming are far apart: the call cannot be wedged.    *)
PathNeverWedged ==
  primed =>
    \A i \in 1 .. Len(buf) :
      /\ SeqDist(nextSeq, buf[i].seq) < Half
      /\ \A j \in 1 .. i - 1 : seqLess(buf[j].seq, buf[i].seq)

(* jitter.go documents that from the third loss on concealment fades: the  *)
(* third concealed packet in a row is quieter than the second.             *)
BurstFades ==
  (pc = "clean" /\ frame = Loss /\ burst >= 2 /\ sent.body # NoFrame /\ sent.body.amp > 0)
    => pcm.amp < sent.body.amp

(* A packet is pushed while it is near the newest of its leg, and neither  *)
(* what is buffered nor what is due lies beyond the newest.                *)
StreamOrder ==
  /\ pc = "push" => Plausible(cur.seq) /\ SeqDist(cur.seq, newest) <= Window
  /\ \A i \in 1 .. Len(buf) :
       SeqDist(buf[i].seq, newest) <= (IF primed THEN Half - 1 ELSE Window)
  /\ primed => nextSeq = SeqInc(newest) \/ SeqDist(nextSeq, newest) < Half

(* What was forwarded last lies behind what is due; after a                *)
(* resynchronisation it lies so far behind the newest that even the latest *)
(* of late packets comes after it.                                         *)
PlayedOrder ==
  played # NoFrame =>
    /\ SeqDist(played, newest) < Half
    /\ IF primed THEN SeqDist(played, nextSeq) \in 1 .. SeqDist(played, newest) + 1
       ELSE SeqDist(played, newest) > Window

(* Between Pop and the wire the buffer waits for the number after the      *)
(* frame in hand.                                                          *)
FrameInHand ==
  /\ pc # "idle" => cur \in Packets
  /\ pc \in {"emit", "clean"} =>
       /\ primed
       /\ frame # Loss => /\ frame \in Entries /\ nextSeq = SeqInc(frame.seq)
                          /\ SeqDist(frame.seq, newest) < Half
  /\ pc = "clean" => pcm \in Frames

(* Everything in hand, in the buffer, in the pipeline and in the           *)
(* concealment history is of the leg of the last packet.                   *)
OneLeg ==
  /\ pc # "idle" => cur.leg = currentSSRC
  /\ \A i \in 1 .. Len(buf) : buf[i].payload = currentSSRC
  /\ pc \in {"emit", "clean"} /\ frame # Loss => frame.payload = currentSSRC
  /\ pc = "clean" => pcm.leg = currentSSRC
  /\ lastGoodFrame # NoFrame => lastGoodFrame.leg = currentSSRC
  /\ pipe \subseteq {currentSSRC}

(* The receive path as a whole, however handlePacket interleaves with what *)
(* the network does: nothing buffered is out of reach and concealment is   *)
(* made of the leg that is being played; in inductive form.                *)
MediaInv ==
  /\ MediaTypeOK /\ JitterInv /\ PathNeverWedged /\ ConcealsCurrentLeg /\ RepeatsLastGood
  /\ StreamOrder /\ PlayedOrder /\ FrameInHand /\ OneLeg

(* What no step of the receive path does: lose the packet that is due to a *)
(* full buffer, or play louder within a burst.                             *)
DueKeptBurstFades == DueIsKept /\ BurstOnlyFades

(* Legs are compared for equality only, so a run may take them for one      *)
(* another.                                                                 *)
LegSymmetry == Permutations(Legs)
=============================================================================
