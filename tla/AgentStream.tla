---------------------------- MODULE AgentStream ----------------------------
(***************************************************************************)
(* One AgentStream connection (pkg/agentstream/server.go): its messages,   *)
(* handled one after the other, and the call state they change.  The peer  *)
(* may send any message at any time.                                       *)
(*                                                                         *)
(* A pipeline is what its start event asked for.  A payload is one unit of *)
(* audio, a frame FrameUnits of them.  Messages that change nothing here   *)
(* are left out: dtmf, clear, mark, unknown events, binary frames, and the *)
(* modes that move the thresholds of a tiered pipeline (LevelControl).     *)
(***************************************************************************)
EXTENDS Integers, Sequences

CONSTANTS
  Streams,      (* stream SIDs                                              *)
  FrameUnits,   (* payloads that make up a frame                            *)
  MaxStarts,    (* bound: start events                                      *)
  MaxMedia      (* bound: payloads that reach a pipeline                    *)

ASSUME AgentAssumption == FrameUnits \in Nat \ {0} /\ MaxStarts \in Nat /\ MaxMedia \in Nat

VARIABLES
  connected,    (* the WebSocket connection is open                         *)
  pipelines,    (* every pipeline built on it, the last one is call.pipeline*)
  closed,       (* those that were closed                                   *)
  callBypassed, (* the bypass switch of call.pipeline                       *)
  held,         (* units in its buffer                                      *)
  state,        (* call.state                                               *)
  streamSID,
  seq,
  agcEnabled,
  out,          (* the event sent last                                      *)
  starts,       (* start events so far                                      *)
  orphaned,     (* history: pipelines a start replaced while they were open *)
  received,     (* history: units that reached a pipeline                   *)
  failures      (* history: frames that failed in one                       *)

callVars == <<pipelines, callBypassed, held, state, streamSID, seq, agcEnabled>>
agentHistory == <<starts, orphaned, received, failures>>
agentVars == <<connected, callVars, closed, out, agentHistory>>

NoStream == "none"
Pipelines == [sid : Streams, agc : BOOLEAN]
CleanMedia == [event : {"clean_media"}, sid : Streams, seq : Nat,
               noiseSuppression : BOOLEAN, gain : BOOLEAN, by : Pipelines]
Connected == [event |-> "connected"]
Error(sid) == [event |-> "error", sid |-> sid]

AgentTypeOK ==
  /\ connected \in BOOLEAN /\ callBypassed \in BOOLEAN /\ agcEnabled \in BOOLEAN
  /\ pipelines \in Seq(Pipelines) /\ Len(pipelines) <= MaxStarts
  /\ closed \subseteq 1 .. Len(pipelines) /\ orphaned \subseteq 1 .. Len(pipelines)
  /\ held \in 0 .. FrameUnits - 1
  /\ state \in {"CREATED", "STREAMING", "COMPLETED"}
  /\ streamSID \in Streams \cup {NoStream}
  /\ {seq, received, failures} \subseteq 0 .. MaxMedia /\ starts \in 0 .. MaxStarts
  /\ out \in CleanMedia \cup {Connected} \cup {Error(sid) : sid \in Streams \cup {NoStream}}

AgentInit ==
  /\ connected = TRUE /\ out = Connected
  /\ pipelines = << >> /\ closed = {} /\ callBypassed = FALSE /\ held = 0
  /\ state = "CREATED" /\ streamSID = NoStream /\ seq = 0 /\ agcEnabled = FALSE
  /\ starts = 0 /\ orphaned = {} /\ received = 0 /\ failures = 0

-----------------------------------------------------------------------------
Current == Len(pipelines)
Started == pipelines # << >>

(* handleStart.  The pipeline before is dropped as it is: not closed, and  *)
(* with what it buffered.  That a pipeline asked for gain control is       *)
(* remembered, that one did not is not.                                    *)
Start(p) ==
  /\ connected /\ starts < MaxStarts /\ starts' = starts + 1
  /\ streamSID' = p.sid
  /\ pipelines' = Append(pipelines, p)
  /\ callBypassed' = FALSE /\ held' = 0
  /\ state' = "STREAMING"
  /\ agcEnabled' = (agcEnabled \/ p.agc)
  /\ orphaned' = orphaned \cup ({Current} \ (closed \cup {0}))
  /\ UNCHANGED <<connected, closed, seq, out, received, failures>>

(* The suppressor cannot be built, by when the stream has its new name.    *)
StartFails(sid) ==
  /\ connected /\ starts < MaxStarts /\ starts' = starts + 1
  /\ streamSID' = sid
  /\ out' = Error(sid)
  /\ UNCHANGED <<connected, pipelines, closed, callBypassed, held, state, seq, agcEnabled>>
  /\ UNCHANGED <<orphaned, received, failures>>

(* handleMedia, with state and pipeline of the call as they are; a         *)
(* pipeline works after it was closed.                                     *)
Hear ==
  /\ connected /\ Started
  /\ received < MaxMedia /\ received' = received + 1
  /\ UNCHANGED <<connected, pipelines, closed, callBypassed, state, streamSID, agcEnabled>>
  /\ UNCHANGED <<starts, orphaned>>

(* Faulty: the event is numbered before it is known whether there is one.  *)
MediaPartialNumbered ==
  /\ Hear /\ held + 1 < FrameUnits /\ held' = held + 1
  /\ seq' = seq + 1
  /\ UNCHANGED <<out, failures>>

(* The payload does not complete a frame: nothing to emit. *)
MediaPartial ==
  /\ Hear /\ held + 1 < FrameUnits /\ held' = held + 1
  /\ UNCHANGED <<seq, out, failures>>

MediaComplete ==
  /\ Hear /\ held + 1 = FrameUnits /\ held' = 0
  /\ seq' = seq + 1
  /\ out' = [event |-> "clean_media", sid |-> streamSID, seq |-> seq',
             noiseSuppression |-> ~callBypassed, gain |-> agcEnabled /\ ~callBypassed,
             by |-> pipelines[Current]]
  /\ UNCHANGED failures

(* A stage fails, and takes the frame with it. *)
MediaFails ==
  /\ Hear /\ held + 1 = FrameUnits /\ held' = 0
  /\ ~callBypassed
  /\ failures' = failures + 1 /\ out' = Error(streamSID)
  /\ UNCHANGED seq

(* Media or reconfigure before start, a payload that does not decode, a    *)
(* mode that is unknown, a message that is no JSON.                        *)
MessageFails ==
  /\ connected /\ out' = Error(streamSID)
  /\ UNCHANGED <<connected, callVars, closed, agentHistory>>

(* handleReconfigure, modes disabled and enabled.                          *)
AgentSetBypass(on) ==
  /\ connected /\ Started
  /\ callBypassed' = on
  /\ UNCHANGED <<connected, pipelines, closed, held, state, streamSID, seq, agcEnabled>>
  /\ UNCHANGED <<out, agentHistory>>

ClosePipeline == closed' = IF Started THEN closed \cup {Current} ELSE closed

AgentStop ==
  /\ connected
  /\ ClosePipeline
  /\ state' = "COMPLETED"
  /\ UNCHANGED <<connected, pipelines, callBypassed, held, streamSID, seq, agcEnabled>>
  /\ UNCHANGED <<out, agentHistory>>

(* The read fails: the connection is gone. *)
Disconnect ==
  /\ connected /\ connected' = FALSE
  /\ ClosePipeline
  /\ UNCHANGED <<callVars, out, agentHistory>>

AgentNext ==
  \/ \E p \in Pipelines : Start(p)
  \/ \E sid \in Streams : StartFails(sid)
  \/ MediaPartial \/ MediaComplete \/ MediaFails \/ MessageFails
  \/ \E on \in BOOLEAN : AgentSetBypass(on)
  \/ AgentStop \/ Disconnect

AgentSpec == AgentInit /\ [][AgentNext]_agentVars

-----------------------------------------------------------------------------
(* Properties *)

Media == out.event = "clean_media"
Replaced == Current - 1

(* No audio is sent twice, and what is lost is a frame per failure and     *)
(* less than a frame per restart, of which the new pipeline knows nothing: *)
(* whatever came between, the numbers of clean_media events count the      *)
(* frames sent since the connection was made.                              *)
AudioAccounted ==
  /\ FrameUnits * (seq + failures) + held <= received
  /\ Started => received <= FrameUnits * (seq + failures) + held + (FrameUnits - 1) * Replaced

(* Gain normalisation is told whenever it was done, and told without being *)
(* done only if an earlier start of the connection had asked for it.       *)
GainTold ==
  Media =>
    /\ (out.by.agc /\ out.noiseSuppression) => out.gain
    /\ out.gain => out.noiseSuppression /\ (out.by.agc \/ Replaced > 0)

(* An event names the stream whose pipeline cleaned its audio, unless a    *)
(* start failed on the connection: the pipeline before goes on under the   *)
(* name of the stream that could not be started.                           *)
NamedAsStarted == Media => (out.sid = out.by.sid \/ starts > Current)

(* When the connection is gone, every pipeline built on it is closed but   *)
(* for those that a later start replaced before a stop reached them.       *)
OpenAreReplaced ==
  /\ orphaned \cap closed = {} /\ Current \notin orphaned
  /\ ((1 .. Current) \ closed) \ {Current} \subseteq orphaned
  /\ ~connected => (1 .. Current) \ closed = orphaned

(* The call between the events: what it would name and tell.               *)
CallAsStarted ==
  /\ Current <= starts
  /\ Started => /\ streamSID \in Streams
                /\ streamSID = pipelines[Current].sid \/ starts > Current
                /\ pipelines[Current].agc => agcEnabled
                /\ agcEnabled => pipelines[Current].agc \/ Replaced > 0
  /\ ~Started => ~agcEnabled /\ received = 0 /\ ~Media

(* In any order of messages: audio is accounted for, labelled and named as *)
(* it was processed, and no pipeline is forgotten but those replaced.      *)
AgentInv ==
  /\ AgentTypeOK /\ CallAsStarted /\ AudioAccounted /\ GainTold /\ NamedAsStarted
  /\ OpenAreReplaced
=============================================================================
