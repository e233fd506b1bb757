----------------------------- MODULE MCChannels -----------------------------
(* The three channels of DropOldest, the connections of the WebSocket       *)
(* bridge, the sampling goroutine of the RTP monitor and the suppressors    *)
(* that start a server.  They share no state, so each behaviour is about    *)
(* one of them, its subject, and the others stand still.                    *)
EXTENDS CleanAudioFeed, TurnEnd, ReconnectClient, WebSocketBridge, RtpMonitor,
        DeepFilterServer

VARIABLE subject

\* An SNR that counts as unknown, and a poor one; a loss of 0 is estimated as a good one.
MCEstimates == {-1, 10}

othersVars == <<bridgeVars, monitorVars, serverVars>>
channelVars == <<subject, feedVars, turnVars, reconnectVars, othersVars>>

ChannelsInit ==
  /\ subject \in {"feed", "turn", "client", "bridge", "monitor", "server"}
  /\ FeedInit /\ TurnInit /\ NewReconnectClient /\ BridgeInit /\ NewRTPMonitor
  /\ ServerInit
  /\ subject # "server" => proc[Manual] = "none"
  /\ subject # "monitor" => ~estimator

ChannelsNext ==
  /\ UNCHANGED subject
  /\ \/ subject = "feed" /\ FeedNext /\ UNCHANGED <<turnVars, reconnectVars, othersVars>>
     \/ subject = "turn" /\ TurnNext /\ UNCHANGED <<feedVars, reconnectVars, othersVars>>
     \/ subject = "client" /\ ReconnectNext /\ UNCHANGED <<feedVars, turnVars, othersVars>>
     \/ /\ subject = "bridge" /\ BridgeNext
        /\ UNCHANGED <<feedVars, turnVars, reconnectVars, monitorVars, serverVars>>
     \/ /\ subject = "monitor" /\ MonitorNext
        /\ UNCHANGED <<feedVars, turnVars, reconnectVars, bridgeVars, serverVars>>
     \/ /\ subject = "server" /\ ServerNext
        /\ UNCHANGED <<feedVars, turnVars, reconnectVars, bridgeVars, monitorVars>>

ChannelsSpec ==
  /\ ChannelsInit /\ [][ChannelsNext]_channelVars
  /\ \/ subject = "feed" /\ FeedFairness
     \/ subject = "turn" /\ TurnFairness
     \/ subject = "client" /\ ReconnectFairness
     \/ subject = "bridge" /\ BridgeFairness
     \/ subject = "monitor" /\ MonitorFairness
     \/ subject = "server" /\ ServerFairness

(* Whoever uses a drop-oldest channel gets to its end: stops return and     *)
(* range loops terminate, the consumer of turn events sees them all, the    *)
(* reconnecting client empties its queue and stops.  A message the bridge   *)
(* has read is served, a stopped monitor's goroutine ends, and whoever      *)
(* constructs or closes a suppressor with a server comes back.              *)
ChannelsEnd ==
  /\ FeedEnds /\ ConsumerFinishes /\ ClientLive
  /\ MessageServed /\ SamplingEnds /\ ServerCallsReturn
=============================================================================
