-------------------------- MODULE WebSocketBridge --------------------------
(* The WebSocket bridge (pkg/websocket/bridge.go): a goroutine per          *)
(* connection, each with a pipeline of its own, over one suppressor they    *)
(* all share, RNNoise (pkg/model/rnnoise.go), whose state and mutex are     *)
(* modelled with it.  Audio is counted in units, of which a frame has       *)
(* FrameUnits.  What the shared state does to the sound is left out: it     *)
(* runs over the interleaved frames of all connections, and is never reset. *)
EXTENDS Integers, Sequences

CONSTANTS
  Conns,        \* connections
  FrameUnits,   \* units in a frame
  MessageUnits, \* sizes of binary messages
  MaxUnits,     \* bound: units a client sends
  NoConn        \* holds the free mutex

ASSUME BridgeAssumption ==
  /\ FrameUnits \in Nat \ {0} /\ MessageUnits \subseteq Nat /\ MaxUnits \in Nat
  /\ NoConn \notin Conns

VARIABLES
  conn,      \* where the goroutine of each connection is
  gotten,    \* units the client has sent
  framed,    \* units that have gone through the pipeline
  outBuf,    \* frames in outBuf
  sent,      \* frames written to the client
  smu,       \* who holds r.mu of the suppressor
  inState    \* the frame the suppressor is working on

bridgeVars == <<conn, gotten, framed, outBuf, sent, smu, inState>>

Frame(c, n) == [of |-> c, no |-> n]

BridgeTypeOK ==
  /\ conn \in [Conns -> {"new", "read", "frames", "suppress", "write", "flush", "closed"}]
  /\ gotten \in [Conns -> 0 .. MaxUnits]
  /\ framed \in [Conns -> 0 .. MaxUnits + FrameUnits]
  /\ outBuf \in [Conns -> Seq([of : Conns, no : Nat])]
  /\ sent \in [Conns -> Seq([of : Conns, no : Nat])]
  /\ smu \in Conns \cup {NoConn}
  /\ inState \in [of : Conns \cup {NoConn}, no : Nat]

BridgeInit ==
  /\ conn = [c \in Conns |-> "new"]
  /\ gotten = [c \in Conns |-> 0] /\ framed = [c \in Conns |-> 0]
  /\ outBuf = [c \in Conns |-> << >>] /\ sent = [c \in Conns |-> << >>]
  /\ smu = NoConn /\ inState = Frame(NoConn, 0)

GoTo(c, s) == conn' = [conn EXCEPT ![c] = s]

Upgrade(c) ==
  /\ conn[c] = "new" /\ (GoTo(c, "read") \/ GoTo(c, "closed"))
  /\ UNCHANGED <<gotten, framed, outBuf, sent, smu, inState>>

\* Mutant of ReadMessage: outBuf is not reset.
ReadOnTop(c) ==
  /\ conn[c] = "read"
  /\ \E n \in MessageUnits :
       gotten[c] + n <= MaxUnits /\ gotten' = [gotten EXCEPT ![c] = @ + n]
  /\ GoTo(c, "frames")
  /\ UNCHANGED <<framed, outBuf, sent, smu, inState>>

(* A binary message starts a call of ProcessFrames; others are ignored.     *)
ReadMessage(c) ==
  /\ conn[c] = "read"
  /\ \E n \in MessageUnits :
       gotten[c] + n <= MaxUnits /\ gotten' = [gotten EXCEPT ![c] = @ + n]
  /\ outBuf' = [outBuf EXCEPT ![c] = << >>] /\ GoTo(c, "frames")
  /\ UNCHANGED <<framed, sent, smu, inState>>

(* The client has gone, or has sent more than the read limit.               *)
ReadFails(c) ==
  /\ conn[c] = "read"
  /\ outBuf' = [outBuf EXCEPT ![c] = << >>] /\ GoTo(c, "flush")
  /\ UNCHANGED <<gotten, framed, sent, smu, inState>>

\* A frame is due: a whole one, or at the end the padded rest.
Due(c) ==
  \/ conn[c] = "frames" /\ gotten[c] - framed[c] >= FrameUnits
  \/ conn[c] = "flush" /\ gotten[c] > framed[c]

(* Process of the suppressor: it holds its mutex while its state works.     *)
Suppress(c) ==
  /\ Due(c) /\ smu = NoConn
  /\ smu' = c /\ inState' = Frame(c, framed[c] \div FrameUnits + 1)
  /\ GoTo(c, IF conn[c] = "frames" THEN "suppress" ELSE "write")
  /\ framed' = [framed EXCEPT ![c] = @ + FrameUnits]
  /\ UNCHANGED <<gotten, outBuf, sent>>

Suppressed(c) ==
  /\ smu = c /\ smu' = NoConn /\ inState' = Frame(NoConn, 0)
  /\ outBuf' = [outBuf EXCEPT ![c] = Append(@, inState)]
  /\ GoTo(c, IF conn[c] = "suppress" THEN "frames" ELSE conn[c])
  /\ UNCHANGED <<gotten, framed, sent>>

(* A frame without speech goes around the suppressor.                       *)
GoAround(c) ==
  /\ conn[c] = "frames" /\ Due(c)
  /\ outBuf' = [outBuf EXCEPT ![c] = Append(@, Frame(c, framed[c] \div FrameUnits + 1))]
  /\ framed' = [framed EXCEPT ![c] = @ + FrameUnits]
  /\ UNCHANGED <<conn, gotten, sent, smu, inState>>

(* A stage that fails ends the connection, and outBuf goes with it.         *)
PipelineError(c) ==
  /\ Due(c) /\ GoTo(c, "closed")
  /\ UNCHANGED <<gotten, framed, outBuf, sent, smu, inState>>

(* After the frames of a message, or the last one of the flush, what is in  *)
(* outBuf is written.                                                       *)
WriteMessage(c) ==
  /\ \/ conn[c] = "frames" /\ ~Due(c)
     \/ conn[c] = "write" /\ smu # c
  /\ \/ /\ sent' = [sent EXCEPT ![c] = @ \o outBuf[c]]
        /\ GoTo(c, IF conn[c] = "frames" THEN "read" ELSE "closed")
     \/ outBuf[c] # << >> /\ GoTo(c, "closed") /\ UNCHANGED sent
  /\ UNCHANGED <<gotten, framed, outBuf, smu, inState>>

CloseEmpty(c) ==
  /\ conn[c] = "flush" /\ ~Due(c) /\ GoTo(c, "closed")
  /\ UNCHANGED <<gotten, framed, outBuf, sent, smu, inState>>

ServeWS(c) ==
  \/ Suppress(c) \/ Suppressed(c) \/ GoAround(c) \/ PipelineError(c) \/ WriteMessage(c) \/ CloseEmpty(c)

BridgeNext == \E c \in Conns : Upgrade(c) \/ ReadMessage(c) \/ ReadFails(c) \/ ServeWS(c)

BridgeSpec == BridgeInit /\ [][BridgeNext]_bridgeVars

\* Goroutines run; the mutex starves none of those that wait for it.
BridgeFairness ==
  \A c \in Conns : WF_bridgeVars(ServeWS(c)) /\ SF_bridgeVars(Suppress(c))

-----------------------------------------------------------------------------
(* Properties *)

\* What the client has been sent, and what a running call has for it.
Answer(c) == sent[c] \o (IF conn[c] \in {"frames", "suppress", "write"} THEN outBuf[c] ELSE << >>)

(* Whatever the other connections do with the shared suppressor, a client   *)
(* is answered with its own frames, in their order, each once; and while it *)
(* is served a message is answered before the next is read.                 *)
OwnFramesInOrder ==
  \A c \in Conns :
    /\ \A i \in 1 .. Len(Answer(c)) : Answer(c)[i] = Frame(c, i)
    /\ conn[c] = "read" => Len(sent[c]) = gotten[c] \div FrameUnits

(* Whoever waits for the suppressor can have it again: its holder is always *)
(* at work on a frame of its own.                                           *)
MutexGivenBack ==
  smu # NoConn => conn[smu] \in {"suppress", "write"} /\ inState.of = smu

\* The frames made for c, the one in the suppressor included.
Made(c) == Len(Answer(c)) + (IF smu = c THEN 1 ELSE 0)

(* Each connection's audio is cut into its frames one after the other: the  *)
(* one in the suppressor is its next, and what is left over makes no frame. *)
FramesCounted ==
  \A c \in Conns :
    /\ conn[c] # "closed" => framed[c] = FrameUnits * Made(c)
    /\ smu = c => inState = Frame(c, Made(c))
    /\ conn[c] = "suppress" => smu = c
    /\ conn[c] \in {"new", "read", "frames", "suppress", "flush"} => framed[c] <= gotten[c]
    /\ conn[c] = "read" => gotten[c] < framed[c] + FrameUnits
    /\ conn[c] = "new" => gotten[c] = 0
    /\ conn[c] = "flush" => outBuf[c] = << >>

BridgeInv == BridgeTypeOK /\ OwnFramesInOrder /\ MutexGivenBack /\ FramesCounted

(* A message is answered or its connection ends, and so does a flush.       *)
MessageServed ==
  \A c \in Conns : conn[c] \in {"frames", "suppress", "write", "flush"} ~> conn[c] \in {"read", "closed"}
=============================================================================
