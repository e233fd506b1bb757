--------------------------- MODULE ReconnectClient ---------------------------
(***************************************************************************)
(* The reconnecting WebSocket client (pkg/websocket/client.go).  Callers   *)
(* put frames into a bounded queue; one goroutine dials, drains the queue  *)
(* into the connection, and dials again when a write fails.  Times are not *)
(* modelled, only how often the backoff was doubled.  Writes have no       *)
(* deadline: a peer that stops reading, and its full buffers, hold one for *)
(* as long as the connection lasts.                                        *)
(***************************************************************************)
EXTENDS DropOldest, SequencesExt, FiniteSetsExt

CONSTANTS
  MaxBackoff,     (* how often the backoff can double before it is capped   *)
  NoFrame,
  MaxBreaks       (* bound: how many writes fail                            *)

ASSUME ClientAssumption ==
  MaxBackoff \in Nat /\ MaxBreaks \in Nat /\ NoFrame \notin Items

VARIABLES
  loop,       (* where connectLoop and drainQueue are                       *)
  backoff,    (* 0: InitialBackoff, k: doubled k times                      *)
  connected,  (* c.connected                                                *)
  stalled,    (* the peer of this connection has stopped reading for good   *)
  stopped,    (* c.stopCh is closed                                         *)
  writing,    (* the frame drainQueue has taken from the queue              *)
  delivered,  (* history: the frames written, in order                      *)
  broken      (* history: the frames lost with a connection                 *)

clientVars == <<loop, backoff, connected, stalled, stopped, writing, delivered, broken>>
reconnectVars == <<queueVars, clientVars>>

ClientTypeOK ==
  /\ QueueTypeOK
  /\ loop \in {"check", "dial", "wait", "drain", "write", "hangup", "close", "returned"}
  /\ backoff \in 0 .. MaxBackoff
  /\ connected \in BOOLEAN /\ stalled \in BOOLEAN /\ stopped \in BOOLEAN
  /\ writing \in Items \cup {NoFrame}
  /\ delivered \in Seq(Items)
  /\ broken \in SUBSET Items

NewReconnectClient ==
  /\ QueueInit
  /\ loop = "check" /\ backoff = 0
  /\ connected = FALSE /\ stalled = FALSE /\ stopped = FALSE
  /\ writing = NoFrame /\ delivered = << >> /\ broken = {}

-----------------------------------------------------------------------------
Send(p) == Produce(p) /\ UNCHANGED clientVars

Stop ==
  /\ ~stopped
  /\ stopped' = TRUE
  /\ UNCHANGED <<queueVars, loop, backoff, connected, stalled, writing, delivered, broken>>

(* The peer of the open connection reads no more.                          *)
PeerStalls ==
  /\ connected /\ ~stalled /\ stalled' = TRUE
  /\ UNCHANGED <<queueVars, loop, backoff, connected, stopped, writing, delivered, broken>>

Goto(from, to) == loop = from /\ loop' = to

(* The top of connectLoop's for. *)
CheckStop ==
  /\ Goto("check", IF stopped THEN "returned" ELSE "dial")
  /\ UNCHANGED <<queueVars, backoff, connected, stalled, stopped, writing, delivered, broken>>

DialFails ==
  /\ Goto("dial", "wait")
  /\ connected' = FALSE
  /\ UNCHANGED <<queueVars, backoff, stalled, stopped, writing, delivered, broken>>

DialSucceeds ==
  /\ Goto("dial", "drain")
  /\ connected' = TRUE /\ backoff' = 0
  /\ UNCHANGED <<queueVars, stalled, stopped, writing, delivered, broken>>

BackoffElapses ==
  /\ Goto("wait", "check")
  /\ backoff' = IF backoff < MaxBackoff THEN backoff + 1 ELSE MaxBackoff
  /\ UNCHANGED <<queueVars, connected, stalled, stopped, writing, delivered, broken>>

BackoffStopped ==
  /\ Goto("wait", "returned") /\ stopped
  /\ UNCHANGED <<queueVars, backoff, connected, stalled, stopped, writing, delivered, broken>>

-----------------------------------------------------------------------------
(* drainQueue: between a frame and the stop signal select chooses freely.  *)

DrainTake ==
  /\ Goto("drain", "write")
  /\ writing' = IF queue = << >> THEN NoFrame ELSE Head(queue)
  /\ Take
  /\ UNCHANGED <<backoff, connected, stalled, stopped, delivered, broken>>

WriteSucceeds ==
  /\ Goto("write", "drain") /\ ~stalled
  /\ delivered' = Append(delivered, writing)
  /\ writing' = NoFrame
  /\ UNCHANGED <<queueVars, backoff, connected, stalled, stopped, broken>>

(* Faulty: the frame is put back into the queue, at its end. *)
WriteRequeues ==
  /\ Goto("write", "hangup")
  /\ Cardinality(broken) < MaxBreaks
  /\ broken' = broken \cup {writing}
  /\ queue' = IF HasRoom THEN Append(queue, writing) ELSE queue
  /\ writing' = NoFrame
  /\ UNCHANGED <<offered, step, dropped, backoff, connected, stalled, stopped, delivered>>

(* The frame that was being written is gone; the connection of a stalled    *)
(* peer may break too, sooner or later or never.                            *)
WriteFails ==
  /\ Goto("write", "hangup")
  /\ Cardinality(broken) < MaxBreaks
  /\ broken' = broken \cup {writing}
  /\ writing' = NoFrame
  /\ UNCHANGED <<queueVars, backoff, connected, stalled, stopped, delivered>>

DrainStop ==
  /\ Goto("drain", "close") /\ stopped
  /\ UNCHANGED <<queueVars, backoff, connected, stalled, stopped, writing, delivered, broken>>

(* Faulty: a lost connection ends the loop for good. *)
HangUpReturns ==
  /\ Goto("hangup", "returned") \/ Goto("close", "returned")
  /\ connected' = FALSE /\ stalled' = FALSE
  /\ UNCHANGED <<queueVars, backoff, stopped, writing, delivered, broken>>

(* conn.Close; after a lost connection the loop goes on, at once.  After a  *)
(* stop the close frame is written first, to a peer that may not read it.   *)
HangUp ==
  /\ Goto("hangup", "check") \/ Goto("close", "returned")
  /\ connected' = FALSE /\ stalled' = FALSE
  /\ UNCHANGED <<queueVars, backoff, stopped, writing, delivered, broken>>

connectLoop ==
  \/ CheckStop \/ DialFails \/ DialSucceeds \/ BackoffElapses \/ BackoffStopped
  \/ DrainTake \/ WriteSucceeds \/ WriteFails \/ DrainStop \/ HangUp

ReconnectNext == (\E p \in Producers : Send(p)) \/ Stop \/ PeerStalls \/ connectLoop

ReconnectSpec == NewReconnectClient /\ [][ReconnectNext]_reconnectVars

(* What the loop does without anybody's help: the dialer has a handshake    *)
(* timeout, but a write, of a frame or of the close frame, need not return  *)
(* while the peer does not read.                                            *)
GetsOn ==
  \/ CheckStop \/ DialFails \/ DialSucceeds \/ BackoffElapses \/ BackoffStopped
  \/ DrainTake \/ DrainStop \/ WriteSucceeds
  \/ (stalled => loop = "hangup") /\ HangUp

(* Of a dial tried again and again one succeeds; select does not ignore one *)
(* of its cases for ever.                                                   *)
ReconnectFairness ==
  /\ WF_reconnectVars(GetsOn)
  /\ SF_reconnectVars(DialSucceeds)
  /\ SF_reconnectVars(DrainStop)
  /\ SF_reconnectVars(BackoffStopped)

-----------------------------------------------------------------------------
(* Properties *)

Held == IF writing = NoFrame THEN << >> ELSE <<writing>>

Pipe == delivered \o Held \o queue

Upwards(s) == \A i, j \in 1 .. Len(s) : (i < j /\ s[i].by = s[j].by) => s[i].n < s[j].n

(* The frames a sender's Send has finished with. *)
Settled(p) == offered[p] - (IF step[p] = "idle" THEN 0 ELSE 1)

(* "Drained in order": across reconnects, full queues and concurrent       *)
(* senders the frames of one sender are delivered in the order it sent     *)
(* them, and none twice.                                                   *)
DeliveredInOrder == Upwards(Pipe)

(* Every frame a Send has finished with is delivered, on its way, dropped  *)
(* for lack of room, or was being written when the connection broke: no    *)
(* interleaving of senders and the loop loses a frame otherwise.           *)
FramesAccounted ==
  \A p \in Producers : \A n \in 1 .. Settled(p) :
    [by |-> p, n |-> n] \in ToSet(Pipe) \cup dropped \cup broken

(* drainQueue has a frame in hand while it writes, and only then; nothing  *)
(* is on its way that a Send has not finished with.                        *)
OnlySettled ==
  /\ loop = "write" <=> writing # NoFrame
  /\ \A p \in Producers : step[p] # "idle" => offered[p] > 0
  /\ \A i \in 1 .. Len(Pipe) : Pipe[i].n <= Settled(Pipe[i].by)

(* A write the peer does not read, of a frame or of the close frame.        *)
Blocked == stalled /\ loop \in {"write", "close"}

(* Stop ends the loop and its connection wherever it stands.               *)
StopEnds == stopped ~> (loop = "returned" /\ ~connected)

(* A frame does not wait for ever: if the endpoint comes back, what is in  *)
(* the queue leaves it.                                                    *)
FrameLeaves ==
  \A p \in Producers : \A n \in 1 .. MaxItems :
    ([by |-> p, n |-> n] \in ToSet(queue))
      ~> (stopped \/ [by |-> p, n |-> n] \notin ToSet(queue))

(* The send queue between the senders and drainQueue, across reconnects:   *)
(* what a sender sent is delivered in order, on its way, or accounted for. *)
ClientInv == ClientTypeOK /\ DeliveredInOrder /\ FramesAccounted /\ OnlySettled

(* The connect loop gets on: it ends after Stop, and until then it empties *)
(* the queue.  There is one exception, which Stop does not remedy, as it    *)
(* only closes a channel that the loop looks at between two writes: a write *)
(* to a peer that reads no more holds loop, connection and queue for good.  *)
ClientLive == <>[]Blocked \/ (StopEnds /\ FrameLeaves)
=============================================================================
