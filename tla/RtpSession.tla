----------------------------- MODULE RtpSession -----------------------------
(***************************************************************************)
(* The life of RTP sessions (pkg/rtp/session.go): NewSession binds the     *)
(* media socket, Start launches four goroutines, Stop cancels them, closes *)
(* the sockets and waits for the RTCP listener to have bound and for the   *)
(* receive loop to have ended.  Start and Stop take no common lock.        *)
(*                                                                         *)
(* What the loops do with packets is the business of MediaPath, Playback   *)
(* and RtcpStats; here only how they end matters.                          *)
(***************************************************************************)

CONSTANT Ids  (* all sessions that can ever be created                      *)

VARIABLES
  conn,       (* s.conn: the media socket                                   *)
  rtcpConn,   (* s.rtcpConn                                                 *)
  rtcpReady,  (* s.rtcpReady is closed                                      *)
  cancel,     (* s.cancel: nil, set by Start, called by Stop                *)
  loops,      (* the goroutines that are running                            *)
  done        (* s.done is closed                                           *)

rtpVars == <<conn, rtcpConn, rtcpReady, cancel, loops, done>>

Loops == {"receive", "rtcp", "stats", "playback"}

RtpTypeOK ==
  /\ conn \in [Ids -> {"none", "open", "closed"}]
  /\ rtcpConn \in [Ids -> {"none", "open", "closed"}]
  /\ rtcpReady \in [Ids -> BOOLEAN]
  /\ cancel \in [Ids -> {"nil", "set", "called"}]
  /\ loops \in [Ids -> SUBSET Loops]
  /\ done \in [Ids -> BOOLEAN]

RtpInit ==
  /\ conn = [i \in Ids |-> "none"]
  /\ rtcpConn = [i \in Ids |-> "none"]
  /\ rtcpReady = [i \in Ids |-> FALSE]
  /\ cancel = [i \in Ids |-> "nil"]
  /\ loops = [i \in Ids |-> {}]
  /\ done = [i \in Ids |-> FALSE]

-----------------------------------------------------------------------------
NewSession(i) ==
  /\ conn[i] = "none"
  /\ conn' = [conn EXCEPT ![i] = "open"]
  /\ UNCHANGED <<rtcpConn, rtcpReady, cancel, loops, done>>

Start(i) ==
  /\ cancel' = [cancel EXCEPT ![i] = "set"]
  /\ loops' = [loops EXCEPT ![i] = Loops]
  /\ UNCHANGED <<conn, rtcpConn, rtcpReady, done>>

(* Stop: cancel if there is something to cancel, close the media socket.   *)
StopBegin(i) ==
  /\ cancel' = [cancel EXCEPT ![i] = IF @ = "set" THEN "called" ELSE @]
  /\ conn' = [conn EXCEPT ![i] = "closed"]
  /\ UNCHANGED <<rtcpConn, rtcpReady, loops, done>>

(* Stop: wait for listenRTCP to have bound, close its socket. *)
StopRTCP(i) ==
  /\ rtcpReady[i]
  /\ rtcpConn' = [rtcpConn EXCEPT ![i] = IF @ = "open" THEN "closed" ELSE @]
  /\ UNCHANGED <<conn, rtcpReady, cancel, loops, done>>

(* Stop: wait for the receive loop. *)
StopDone(i) == done[i] /\ UNCHANGED rtpVars

-----------------------------------------------------------------------------
(* The goroutines *)

Exits(i, loop) == loop \in loops[i] /\ loops' = [loops EXCEPT ![i] = @ \ {loop}]

(* Cancelled, or the read on the closed socket fails. *)
ReceiveLoopExit(i) ==
  /\ Exits(i, "receive")
  /\ cancel[i] = "called" \/ conn[i] = "closed"
  /\ done' = [done EXCEPT ![i] = TRUE]
  /\ UNCHANGED <<conn, rtcpConn, rtcpReady, cancel>>

ListenRTCPBound(i) ==
  /\ "rtcp" \in loops[i] /\ ~rtcpReady[i]
  /\ rtcpConn' = [rtcpConn EXCEPT ![i] = "open"]
  /\ rtcpReady' = [rtcpReady EXCEPT ![i] = TRUE]
  /\ UNCHANGED <<conn, cancel, loops, done>>

(* Faulty: the early return forgets to close rtcpReady. *)
ListenRTCPFailedSilently(i) ==
  /\ Exits(i, "rtcp") /\ ~rtcpReady[i]
  /\ UNCHANGED <<conn, rtcpConn, rtcpReady, cancel, done>>

ListenRTCPFailed(i) ==
  /\ Exits(i, "rtcp") /\ ~rtcpReady[i]
  /\ rtcpReady' = [rtcpReady EXCEPT ![i] = TRUE]
  /\ UNCHANGED <<conn, rtcpConn, cancel, done>>

ListenRTCPExit(i) ==
  /\ Exits(i, "rtcp") /\ rtcpConn[i] = "closed"
  /\ UNCHANGED <<conn, rtcpConn, rtcpReady, cancel, done>>

(* Both loops select on ctx.Done; nothing else ends them while no bot      *)
(* audio is queued.                                                        *)
TickerLoopExit(i) ==
  /\ cancel[i] = "called"
  /\ Exits(i, "stats") \/ Exits(i, "playback")
  /\ UNCHANGED <<conn, rtcpConn, rtcpReady, cancel, done>>

LoopStep(i) ==
  \/ ReceiveLoopExit(i)
  \/ ListenRTCPBound(i) \/ ListenRTCPFailed(i) \/ ListenRTCPExit(i)
  \/ TickerLoopExit(i)
=============================================================================
