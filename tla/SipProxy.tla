------------------------------ MODULE SipProxy ------------------------------
(***************************************************************************)
(* The SIP media proxy (pkg/sip/proxy.go): HTTP handlers that start and    *)
(* stop the RTP sessions of a call.  Each handler is a goroutine; the map  *)
(* of calls is guarded by a mutex, and what a handler does with the        *)
(* sessions it put into the map or took out of it happens outside of it.   *)
(***************************************************************************)
EXTENDS RtpSession, Sequences, SequencesExt

CONSTANTS
  Handlers,  (* the goroutines serving HTTP requests                        *)
  Calls      (* the call_ids requests name                                  *)

VARIABLES
  sessions,  (* p.sessions: per call the RTP sessions, <<>> when absent     *)
  pc,        (* where each handler is                                       *)
  call,      (* the call_id of the request it serves                        *)
  mine,      (* start: the sessions it created and still has to start       *)
  todo       (* the sessions it still has to stop                           *)

handlerVars == <<pc, call, mine, todo>>
proxyVars == <<rtpVars, sessions, handlerVars>>

Steps == {"idle", "create", "insert", "take", "stopping", "rtcp", "done", "launch"}

ProxyTypeOK ==
  /\ RtpTypeOK
  /\ sessions \in [Calls -> Seq(Ids)]
  /\ pc \in [Handlers -> Steps]
  /\ call \in [Handlers -> Calls]
  /\ mine \in [Handlers -> Seq(Ids)]
  /\ todo \in [Handlers -> Seq(Ids)]

ProxyInit ==
  /\ RtpInit
  /\ sessions = [c \in Calls |-> << >>]
  /\ pc = [h \in Handlers |-> "idle"]
  /\ call \in [Handlers -> Calls]
  /\ mine = [h \in Handlers |-> << >>]
  /\ todo = [h \in Handlers |-> << >>]

Goto(h, step) == pc' = [pc EXCEPT ![h] = step]

-----------------------------------------------------------------------------
(* A request comes in. *)
Request(h) ==
  /\ pc[h] = "idle"
  /\ \E c \in Calls : call' = [call EXCEPT ![h] = c]
  /\ Goto(h, "create") \/ Goto(h, "take")
  /\ UNCHANGED <<rtpVars, sessions, mine, todo>>

(* handleStart creates the inbound session, then perhaps the outbound one. *)
CreateSession(h) ==
  /\ pc[h] = "create" /\ Len(mine[h]) < 2
  /\ \E i \in Ids : NewSession(i) /\ mine' = [mine EXCEPT ![h] = Append(@, i)]
  /\ UNCHANGED <<sessions, pc, call, todo>>

(* The inbound socket cannot be bound: 500. *)
CreateFails(h) ==
  /\ pc[h] = "create" /\ mine[h] = << >>
  /\ Goto(h, "idle")
  /\ UNCHANGED <<rtpVars, sessions, call, mine, todo>>

(* An outbound session was not asked for, or its socket cannot be bound.   *)
Created(h) ==
  /\ pc[h] = "create" /\ mine[h] # << >>
  /\ Goto(h, "insert")
  /\ UNCHANGED <<rtpVars, sessions, call, mine, todo>>

(* Faulty: the previous session of the call is overwritten in the map. *)
InsertOverwrite(h) ==
  /\ pc[h] = "insert"
  /\ sessions' = [sessions EXCEPT ![call[h]] = mine[h]]
  /\ Goto(h, "launch")
  /\ UNCHANGED <<rtpVars, call, mine, todo>>

(* Under the mutex; a session already there is stopped before the new one  *)
(* is started.                                                             *)
Insert(h) ==
  /\ pc[h] = "insert"
  /\ sessions' = [sessions EXCEPT ![call[h]] = mine[h]]
  /\ todo' = [todo EXCEPT ![h] = sessions[call[h]]]
  /\ Goto(h, IF sessions[call[h]] = << >> THEN "launch" ELSE "stopping")
  /\ UNCHANGED <<rtpVars, call, mine>>

LaunchSession(h) ==
  /\ pc[h] = "launch" /\ mine[h] # << >>
  /\ Start(Head(mine[h]))
  /\ mine' = [mine EXCEPT ![h] = Tail(@)]
  /\ UNCHANGED <<sessions, pc, call, todo>>

Launched(h) ==
  /\ pc[h] = "launch" /\ mine[h] = << >>
  /\ Goto(h, "idle")
  /\ UNCHANGED <<rtpVars, sessions, call, mine, todo>>

-----------------------------------------------------------------------------
(* handleStop takes the call out of the map, or answers 404. *)
Take(h) ==
  /\ pc[h] = "take"
  /\ sessions' = [sessions EXCEPT ![call[h]] = << >>]
  /\ todo' = [todo EXCEPT ![h] = sessions[call[h]]]
  /\ Goto(h, IF sessions[call[h]] = << >> THEN "idle" ELSE "stopping")
  /\ UNCHANGED <<rtpVars, call, mine>>

(* The sessions of a call are stopped one after the other. *)
StopSession(h) ==
  /\ pc[h] = "stopping"
  /\ StopBegin(Head(todo[h]))
  /\ Goto(h, "rtcp")
  /\ UNCHANGED <<sessions, call, mine, todo>>

StopWaitRTCP(h) ==
  /\ pc[h] = "rtcp"
  /\ StopRTCP(Head(todo[h]))
  /\ Goto(h, "done")
  /\ UNCHANGED <<sessions, call, mine, todo>>

StopWaitDone(h) ==
  /\ pc[h] = "done"
  /\ StopDone(Head(todo[h]))
  /\ todo' = [todo EXCEPT ![h] = Tail(@)]
  /\ Goto(h, IF Len(todo[h]) > 1 THEN "stopping"
             ELSE IF mine[h] # << >> THEN "launch" ELSE "idle")
  /\ UNCHANGED <<sessions, call, mine>>

HandlerStep(h) ==
  \/ CreateSession(h) \/ CreateFails(h) \/ Created(h) \/ Insert(h)
  \/ LaunchSession(h) \/ Launched(h)
  \/ Take(h) \/ StopSession(h) \/ StopWaitRTCP(h) \/ StopWaitDone(h)

ProxyNext ==
  \/ \E h \in Handlers : Request(h) \/ HandlerStep(h)
  \/ \E i \in Ids : LoopStep(i) /\ UNCHANGED <<sessions, handlerVars>>

ProxySpec == ProxyInit /\ [][ProxyNext]_proxyVars

(* Goroutines are scheduled; a socket read returns when it can.            *)
FairProxySpec ==
  /\ ProxySpec
  /\ \A h \in Handlers : WF_proxyVars(HandlerStep(h))
  /\ \A i \in Ids : WF_proxyVars(LoopStep(i) /\ UNCHANGED <<sessions, handlerVars>>)

-----------------------------------------------------------------------------
(* Properties *)

InMap(i) == \E c \in Calls : i \in ToSet(sessions[c])
Stopping(h) == ToSet(todo[h])
Owned(i) == InMap(i) \/ \E h \in Handlers : i \in ToSet(mine[h]) \cup Stopping(h)

(* Taking a call out of the map hands its sessions to one handler: no two  *)
(* handlers stop the same session, and none stops one that the map still   *)
(* offers to others.                                                       *)
OneStopper ==
  /\ \A g, h \in Handlers : g # h => Stopping(g) \cap Stopping(h) = {}
  /\ \A h \in Handlers : \A i \in Stopping(h) : ~InMap(i)

(* Replacing and stopping calls never leaks a socket, whatever the order   *)
(* in which requests for a call overlap: an open one belongs to a call in  *)
(* the map or to a request being served.                                   *)
SocketsAccounted ==
  \A i \in Ids : "open" \in {conn[i], rtcpConn[i]} => Owned(i)

(* Every request is answered: no Stop waits for ever, not even one that    *)
(* overtakes the Start of its session.                                     *)
RequestAnswered == \A h \in Handlers : pc[h] # "idle" ~> pc[h] = "idle"

(* "Overwriting the map entry alone would silently leak the previous       *)
(* session's bound UDP socket and its receive/RTCP/stats/playback          *)
(* goroutines forever": a session that nobody can reach any more loses its *)
(* goroutines.                                                             *)
LoopsEnd == \A i \in Ids : (conn[i] # "none" /\ ~Owned(i)) ~> loops[i] = {}

(* Sessions a request has created and not yet put into the map.            *)
Private(h) == IF pc[h] \in {"create", "insert"} THEN ToSet(mine[h]) ELSE {}

(* A session has one place: one call in the map, or the request creating it.*)
OnePlace ==
  /\ \A c, d \in Calls : c # d => ToSet(sessions[c]) \cap ToSet(sessions[d]) = {}
  /\ \A h \in Handlers : \A i \in Private(h) :
       ~InMap(i) /\ \A g \in Handlers : i \notin Stopping(g) /\ (g # h => i \notin ToSet(mine[g]))

(* A session that was created has an owner who will see to it that it is    *)
(* stopped, or it has been stopped so far that no socket is open or will be.*)
StoppedOrHeld ==
  \A i \in Ids :
    IF conn[i] = "none"
    THEN ~Owned(i) /\ loops[i] = {} /\ rtcpConn[i] = "none"
    ELSE \/ InMap(i) \/ \E h \in Handlers : i \in Private(h) \cup Stopping(h)
         \/ conn[i] = "closed" /\ rtcpReady[i] /\ rtcpConn[i] # "open"

(* What a handler has at hand at each of its steps. *)
AtHand ==
  \A h \in Handlers :
    /\ pc[h] \in {"idle", "take"} => mine[h] = << >>
    /\ pc[h] \in {"stopping", "rtcp", "done"} <=> todo[h] # << >>
    /\ pc[h] \in {"rtcp", "done"} => conn[Head(todo[h])] = "closed"
    /\ pc[h] = "done" => rtcpReady[Head(todo[h])] /\ rtcpConn[Head(todo[h])] # "open"

(* Overlapping starts and stops of a call leave every session to exactly   *)
(* one owner: the map, or the one handler that is to stop it.              *)
ProxyInv ==
  ProxyTypeOK /\ AtHand /\ OnePlace /\ StoppedOrHeld /\ OneStopper /\ SocketsAccounted
=============================================================================
