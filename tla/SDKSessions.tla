---------------------------- MODULE SDKSessions ----------------------------
(***************************************************************************)
(* How the SDK (clearstream.go) uses the suppressor pool.  NewRTPSession   *)
(* acquires a suppressor for the call; the pool interface the SDK holds    *)
(* has Acquire and Close and no Release, and Session.Stop does not know    *)
(* of the pool: a suppressor that was acquired never comes back.  Neither  *)
(* does the one acquired for a session whose sockets cannot be bound.      *)
(***************************************************************************)
EXTENDS SuppressorPool

LOCAL Unchanged == UNCHANGED <<idle, closed, mu, outstanding, made, shut, warmVars, closePc>>

NewRTPSession(c) == AcquireCall(c) \/ AcquireReceive(c) \/ AcquireCount(c)

(* rtp.NewSession fails, or the call ends: the suppressor is dropped.      *)
EndSession(c) ==
  /\ Step(c, "using", "out")
  /\ held' = [held EXCEPT ![c] = Nobody]
  /\ Unchanged

(* The pool was closed: the session is created without a suppressor.       *)
Passthrough(c) == AcquireNil(c)

SDKNext ==
  \/ \E c \in Sessions : NewRTPSession(c) \/ EndSession(c) \/ Passthrough(c)
  \/ Close

SDKSpec ==
  /\ NewSuppressorPool
  /\ [][SDKNext]_poolVars
  /\ \A c \in Sessions : SF_poolVars(Acquire(c)) /\ WF_poolVars(EndSession(c))

-----------------------------------------------------------------------------
(* Properties *)

(* The pool "limits parallel RTP sessions": a caller of NewRTPSession is   *)
(* served once enough of the sessions before it have ended.                *)
NewSessionServed ==
  \A c \in Sessions : callPc[c] = "waiting" ~> callPc[c] \in {"using", "refused"}
=============================================================================
