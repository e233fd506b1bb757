--------------------------- MODULE CleanAudioFeed ---------------------------
(***************************************************************************)
(* The feed of clean audio of an RTP session (pkg/rtp/session.go): the     *)
(* receive loop is the only sender on the channel CleanAudio returns, a    *)
(* consumer ranges over it, and Stop closes it once the receive loop has   *)
(* ended.  Stop may be called more than once.                              *)
(***************************************************************************)
EXTENDS Integers, Sequences

CONSTANTS
  Loop,       (* the receive loop, the only sender                          *)
  FeedSize,   (* CleanAudioBufferSize                                       *)
  MaxFrames,  (* bound: frames delivered                                    *)
  Stoppers    (* the goroutines that call Stop                              *)

ASSUME FeedAssumption == FeedSize \in Nat \ {0} /\ MaxFrames \in Nat

VARIABLES
  cleanAudioCh, frameNo, delivery, missed,  (* a channel of DropOldest      *)
  stopping,   (* Stop was called                                            *)
  done,       (* s.done is closed: the receive loop has ended               *)
  stopPc,     (* where each Stop is: out, waiting, closed                   *)
  closes,     (* how often the channel was closed                           *)
  heard,      (* the number of the frame received last                      *)
  ended       (* the consumer's range loop has ended                        *)

chanVars == <<cleanAudioCh, frameNo, delivery, missed>>

Chan == INSTANCE DropOldest
  WITH Producers <- {Loop}, Capacity <- FeedSize, MaxItems <- MaxFrames,
       queue <- cleanAudioCh, offered <- frameNo, step <- delivery, dropped <- missed

feedVars == <<chanVars, stopping, done, stopPc, closes, heard, ended>>
stopVars == <<stopping, done, stopPc, closes>>

FeedTypeOK ==
  /\ Chan!QueueTypeOK
  /\ stopping \in BOOLEAN /\ done \in BOOLEAN /\ ended \in BOOLEAN
  /\ stopPc \in [Stoppers -> {"out", "waiting", "closed"}]
  /\ closes \in 0 .. 1
  /\ heard \in 0 .. MaxFrames

FeedInit ==
  /\ Chan!QueueInit
  /\ stopping = FALSE /\ done = FALSE /\ closes = 0
  /\ stopPc = [s \in Stoppers |-> "out"]
  /\ heard = 0 /\ ended = FALSE

(* handlePacket delivers a frame. *)
Deliver ==
  /\ ~done
  /\ Chan!Produce(Loop)
  /\ UNCHANGED <<stopVars, heard, ended>>

(* Between two packets, cancelled or its socket closed. *)
LoopEnds ==
  /\ stopping /\ ~done /\ delivery[Loop] = "idle"
  /\ done' = TRUE
  /\ UNCHANGED <<chanVars, stopping, stopPc, closes, heard, ended>>

StopCall(s) ==
  /\ stopPc[s] = "out"
  /\ stopPc' = [stopPc EXCEPT ![s] = "waiting"]
  /\ stopping' = TRUE
  /\ UNCHANGED <<chanVars, done, closes, heard, ended>>

(* Faulty: the channel is closed without waiting for the loop. *)
StopCloseEarly(s) ==
  /\ stopPc[s] = "waiting"
  /\ stopPc' = [stopPc EXCEPT ![s] = "closed"]
  /\ closes' = 1
  /\ UNCHANGED <<chanVars, stopping, done, heard, ended>>

(* The loop has ended; sync.Once lets the first Stop close the channel. *)
StopClose(s) ==
  /\ stopPc[s] = "waiting" /\ done
  /\ stopPc' = [stopPc EXCEPT ![s] = "closed"]
  /\ closes' = IF closes = 0 THEN 1 ELSE closes
  /\ UNCHANGED <<chanVars, stopping, done, heard, ended>>

Consume ==
  /\ heard' = IF cleanAudioCh = << >> THEN heard ELSE Head(cleanAudioCh).n
  /\ Chan!Take
  /\ UNCHANGED <<stopVars, ended>>

RangeEnds ==
  /\ closes > 0 /\ cleanAudioCh = << >> /\ ~ended
  /\ ended' = TRUE
  /\ UNCHANGED <<chanVars, stopVars, heard>>

FeedNext ==
  \/ Deliver \/ LoopEnds
  \/ \E s \in Stoppers : StopCall(s) \/ StopClose(s)
  \/ Consume \/ RangeEnds

FeedSpec == FeedInit /\ [][FeedNext]_feedVars

(* The receive loop and the goroutines calling Stop are scheduled; nothing *)
(* is assumed of the consumer.                                             *)
FeedFairness ==
  /\ WF_feedVars(Deliver) /\ WF_feedVars(LoopEnds)
  /\ \A s \in Stoppers : WF_feedVars(StopClose(s))

-----------------------------------------------------------------------------
(* Properties *)

(* "Fresh audio matters more than old audio": with the receive loop as the *)
(* only sender the second try never fails -- whatever the consumer does    *)
(* between the three selects, the frame delivered last is in the channel   *)
(* or was received.                                                        *)
FreshestKept ==
  (delivery[Loop] = "idle" /\ frameNo[Loop] > 0)
    => \/ heard = frameNo[Loop]
       \/ cleanAudioCh # << >> /\ cleanAudioCh[Len(cleanAudioCh)] = Chan!Newest(Loop)

(* Nobody sends on the closed channel, which would panic: when it is       *)
(* closed the receive loop has left handlePacket for good.                 *)
ClosedAfterLastSend == closes > 0 => done /\ delivery[Loop] = "idle"

(* "Non-blocking": a consumer that never receives, or receives between two *)
(* selects, holds up neither the receive loop nor the Stop waiting for it. *)
StopReturns == \A s \in Stoppers : stopPc[s] = "waiting" ~> stopPc[s] = "closed"

(* "Ranging over it terminates cleanly": a consumer that keeps receiving   *)
(* gets what is left after Stop, and its loop ends.                        *)
RangeTerminates ==
  (WF_feedVars(Consume) /\ WF_feedVars(RangeEnds)) => (stopping ~> ended)

(* What is in the channel was neither received nor overtaken, the frame in *)
(* hand is newer than all of it, and where it is tried again there is room.*)
Underway ==
  /\ \A i \in 1 .. Len(cleanAudioCh) :
       heard < cleanAudioCh[i].n /\ cleanAudioCh[i].n <= frameNo[Loop]
  /\ heard <= frameNo[Loop]
  /\ delivery[Loop] # "idle" =>
       /\ heard < frameNo[Loop] /\ ~done
       /\ \A i \in 1 .. Len(cleanAudioCh) : cleanAudioCh[i].n < frameNo[Loop]
  /\ delivery[Loop] = "retry" => Len(cleanAudioCh) < FeedSize

(* The feed between handlePacket, its consumer and Stop: the freshest      *)
(* frame always gets in, frames stay in order, and nothing is sent after   *)
(* the close.                                                              *)
FeedInv == FeedTypeOK /\ FreshestKept /\ Chan!SentInOrder /\ ClosedAfterLastSend /\ Underway

(* Stop ends on both sides: it returns itself, and the consumer's loop     *)
(* over CleanAudio ends.                                                   *)
FeedEnds == StopReturns /\ RangeTerminates
=============================================================================
