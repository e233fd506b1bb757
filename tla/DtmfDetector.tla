---------------------------- MODULE DtmfDetector ----------------------------
(***************************************************************************)
(* Telephone events (pkg/rtp/dtmf.go) on their way from the wire to the    *)
(* OnDTMF callback.  The caller presses keys; each press sends a packet    *)
(* when it starts and Copies end packets.  The receive loop resets the     *)
(* detector when the SSRC changes and hands it one packet at a time; these *)
(* packets do not go through the jitter buffer.  The network loses packets *)
(* but keeps the order of the rest.  Stop resets the detector              *)
(* from another goroutine, without a lock, while a packet may be in hand.  *)
(*                                                                         *)
(* Volume and duration are left out.                                       *)
(***************************************************************************)
EXTENDS Integers, Sequences, SequencesExt

CONSTANTS
  Digits,      (* event codes of dtmfEventTable                             *)
  Flash,       (* an event code beyond the table                            *)
  NoEvent,     (* 255, the detector's initial lastEvent                     *)
  Copies,      (* how often an end packet is sent: 3                        *)
  MaxPresses,  (* bound: keys pressed                                       *)
  MaxLegs      (* bound: SSRCs                                              *)

ASSUME DtmfAssumption ==
  /\ Flash \notin Digits /\ NoEvent \notin Digits \cup {Flash}
  /\ Copies \in Nat \ {0} /\ MaxPresses \in Nat /\ MaxLegs \in Nat \ {0}

VARIABLES
  lastEvent, lastEnd,  (* the detector                                      *)
  ssrc,                (* the session's currentSSRC; 0 before any packet    *)
  hand,                (* the packet the receive loop is handling           *)
  stopped,             (* Stop was called                                   *)
  leg,                 (* environment: the leg the caller is on             *)
  presses,             (* environment: the keys pressed, with their legs    *)
  wire,                (* environment: the packets on their way             *)
  arrived,             (* history: packets of each press handled            *)
  ends                 (* history: End reports for each press               *)

detectorVars == <<lastEvent, lastEnd>>
callerVars == <<leg, presses>>
historyVars == <<arrived, ends>>
dtmfVars == <<detectorVars, ssrc, hand, stopped, callerVars, wire, historyVars>>

Events == Digits \cup {Flash}
Presses == 1 .. MaxPresses
Packets == [press : Presses, leg : 1 .. MaxLegs, event : Events, end : BOOLEAN]
NoEventPacket == [press |-> 0]

DtmfTypeOK ==
  /\ lastEvent \in Events \cup {NoEvent} /\ lastEnd \in BOOLEAN
  /\ ssrc \in 0 .. MaxLegs
  /\ hand \in Packets \cup {NoEventPacket} /\ stopped \in BOOLEAN
  /\ leg \in 1 .. MaxLegs
  /\ presses \in Seq([event : Events, leg : 1 .. MaxLegs]) /\ Len(presses) <= MaxPresses
  /\ wire \in Seq(Packets)
  /\ arrived \in [Presses -> SUBSET {"start", "end"}]
  /\ ends \in [Presses -> 0 .. 2]

DtmfInit ==
  /\ lastEvent = NoEvent /\ lastEnd = FALSE
  /\ ssrc = 0 /\ hand = NoEventPacket /\ stopped = FALSE
  /\ leg = 1 /\ presses = << >> /\ wire = << >>
  /\ arrived = [p \in Presses |-> {}]
  /\ ends = [p \in Presses |-> 0]

-----------------------------------------------------------------------------
(* The caller and the network *)

Press(event) ==
  LET packet(end) == [press |-> Len(presses) + 1, leg |-> leg, event |-> event, end |-> end]
  IN  /\ Len(presses) < MaxPresses
      /\ presses' = Append(presses, [event |-> event, leg |-> leg])
      /\ wire' = Append(wire, packet(FALSE)) \o [c \in 1 .. Copies |-> packet(TRUE)]
      /\ UNCHANGED <<detectorVars, ssrc, hand, stopped, leg, historyVars>>

ChangeLeg ==
  /\ leg < MaxLegs /\ leg' = leg + 1
  /\ UNCHANGED <<detectorVars, ssrc, hand, stopped, presses, wire, historyVars>>

Lose(k) ==
  /\ wire' = RemoveAt(wire, k)
  /\ UNCHANGED <<detectorVars, ssrc, hand, stopped, callerVars, historyVars>>

(* Faulty: a new leg inherits the detector's state. *)
ReceiveNoReset ==
  /\ hand = NoEventPacket /\ ~stopped /\ wire # << >>
  /\ hand' = Head(wire) /\ wire' = Tail(wire)
  /\ UNCHANGED detectorVars
  /\ ssrc' = Head(wire).leg
  /\ UNCHANGED <<stopped, callerVars, historyVars>>

(* handlePacket, up to the detector: a new SSRC resets it. *)
Receive ==
  /\ hand = NoEventPacket /\ ~stopped /\ wire # << >>
  /\ hand' = Head(wire) /\ wire' = Tail(wire)
  /\ IF ssrc \notin {0, Head(wire).leg}
     THEN lastEvent' = NoEvent /\ lastEnd' = FALSE
     ELSE UNCHANGED detectorVars
  /\ ssrc' = Head(wire).leg
  /\ UNCHANGED <<stopped, callerVars, historyVars>>

Duplicate(packet) == packet.event = lastEvent /\ packet.end = lastEnd

(* ParseDTMFPayload.  An event beyond the table is remembered before it is *)
(* found to be an error.                                                   *)
ParseDTMFPayload ==
  LET report == hand.end /\ ~Duplicate(hand) /\ hand.event \in Digits
  IN  /\ hand # NoEventPacket
      /\ IF Duplicate(hand)
         THEN UNCHANGED detectorVars
         ELSE lastEvent' = hand.event /\ lastEnd' = hand.end
      /\ ends' = [ends EXCEPT ![hand.press] = IF report THEN @ + 1 ELSE @]
      /\ arrived' = [arrived EXCEPT ![hand.press] = @ \cup {IF hand.end THEN "end" ELSE "start"}]
      /\ hand' = NoEventPacket
      /\ UNCHANGED <<ssrc, stopped, callerVars, wire>>

(* Session.Stop, after the context was cancelled: only the packet in hand  *)
(* is still handled.                                                       *)
StopReset ==
  /\ ~stopped /\ stopped' = TRUE
  /\ lastEvent' = NoEvent /\ lastEnd' = FALSE
  /\ UNCHANGED <<ssrc, hand, callerVars, wire, historyVars>>

DtmfNext ==
  \/ \E event \in Events : Press(event)
  \/ ChangeLeg
  \/ \E k \in DOMAIN wire : Lose(k)
  \/ Receive
  \/ ParseDTMFPayload
  \/ StopReset

DtmfSpec == DtmfInit /\ [][DtmfNext]_dtmfVars

-----------------------------------------------------------------------------
(* Properties *)

Pressed == {p \in DOMAIN presses : presses[p].event \in Digits}

(* "Suppress duplicate packets for the same event (RFC4733 sends 3 end     *)
(* packets)": whatever is lost of which presses, on which leg, one press   *)
(* is reported at most once -- until Stop resets the detector under the    *)
(* receive loop.                                                           *)
NoDoubleDigit == stopped \/ \A p \in Pressed : ends[p] <= 1

(* Whatever is lost: a press of which the start and an end arrived is      *)
(* reported, the same key pressed twice in a row included.                 *)
HeardIsReported == \A p \in Pressed : arrived[p] = {"start", "end"} => ends[p] >= 1

(* The first digit of a new call leg is not taken for a retransmission of  *)
(* the last one of the old leg, even if only its end packets arrive.       *)
FirstDigitOfLeg ==
  \A p \in Pressed :
    (/\ \A q \in 1 .. p - 1 : presses[q].leg # presses[p].leg
     /\ "end" \in arrived[p])
      => ends[p] >= 1

(* A packet of press p: a start packet is sent before the end packets.     *)
Before(a, b) == a.press < b.press \/ (a.press = b.press /\ (a.end => b.end))

(* What was handled came before packet k.                                  *)
After(k) ==
  \A p \in Presses : arrived[p] # {} =>
    p < k.press \/ (p = k.press /\ ("end" \in arrived[p] => k.end))

(* A packet on its way names its press, and its leg is not over.           *)
Genuine(k) ==
  /\ k.press \in DOMAIN presses
  /\ k.event = presses[k.press].event /\ k.leg = presses[k.press].leg
  /\ ssrc <= k.leg /\ After(k)

(* The wire loses packets and keeps their order, and legs follow each      *)
(* other.                                                                  *)
FlowInTurn ==
  /\ \A p, q \in DOMAIN presses : p <= q => presses[p].leg <= presses[q].leg
  /\ ssrc <= leg /\ \A p \in DOMAIN presses : presses[p].leg <= leg
  /\ \A i \in 1 .. Len(wire) : Genuine(wire[i])
  /\ \A i, j \in 1 .. Len(wire) : i < j => Before(wire[i], wire[j])
  /\ hand # NoEventPacket =>
       /\ Genuine(hand) /\ ssrc = hand.leg
       /\ \A i \in 1 .. Len(wire) : Before(hand, wire[i])

(* The detector remembers the last packet handled on this leg, if any: an  *)
(* end packet if an end packet of its press was handled.                   *)
Remembers ==
  \/ /\ lastEvent = NoEvent
     /\ \A p \in Presses : arrived[p] # {} => presses[p].leg < ssrc
  \/ \E p \in DOMAIN presses :
       /\ lastEvent = presses[p].event /\ (lastEnd <=> "end" \in arrived[p])
       /\ presses[p].leg = ssrc /\ arrived[p] # {}
       /\ \A q \in Presses : arrived[q] # {} => q <= p

DetectorTracks ==
  /\ ~stopped => Remembers
  /\ stopped /\ hand # NoEventPacket => lastEvent = NoEvent

(* Only an end packet handled is reported, once, and once more if Stop     *)
(* reset the detector before the packet in hand.                           *)
ReportsHandled ==
  \A p \in Presses :
    /\ arrived[p] # {} => p \in DOMAIN presses /\ presses[p].leg <= ssrc
    /\ ends[p] > 0 => "end" \in arrived[p]
    /\ ~(stopped /\ hand = NoEventPacket) => ends[p] <= 1

(* One key press is one report, on a wire that loses packets and across    *)
(* changes of leg: never two, and none where a start and an end arrived.   *)
DtmfInv ==
  /\ DtmfTypeOK /\ NoDoubleDigit /\ HeardIsReported /\ FirstDigitOfLeg
  /\ FlowInTurn /\ DetectorTracks /\ ReportsHandled
=============================================================================
