------------------------------ MODULE TurnEnd ------------------------------
(***************************************************************************)
(* End-of-utterance events (pkg/audio/turnend.go): the audio goroutine     *)
(* feeds frames, speech or silence, to the tracker; a consumer ranges over *)
(* the channel, which drops its oldest event when full; Close ends it.     *)
(*                                                                         *)
(* The tracker's own VAD has no hangover: a frame is what it says.  Frames *)
(* are fed and the pipeline is reset by one goroutine; Close is called     *)
(* when it is done, from any number of goroutines.                         *)
(***************************************************************************)
EXTENDS Integers, Sequences

CONSTANTS
  Audio,        (* the audio goroutine, the only sender                     *)
  EventsSize,   (* the capacity of the channel                              *)
  MaxEvents,    (* bound: events sent                                       *)
  SilenceFrames,(* turnEndSilenceFrameThreshold: 20 in the code             *)
  Closers       (* goroutines that call Close                               *)

ASSUME TurnEndAssumption ==
  SilenceFrames \in Nat \ {0} /\ EventsSize \in Nat \ {0} /\ MaxEvents \in Nat

VARIABLES
  events, eventNo, emission, outdated,   (* a channel of DropOldest         *)
  sawSpeech, silenceFrames,  (* the tracker                                 *)
  resets,    (* environment: the pipeline was reset, at most once           *)
  feeding,   (* environment: the call goes on                               *)
  closing,   (* the goroutines that have called Close                       *)
  turnCloses, (* how often the channel was closed                           *)
  received,  (* history: the event received last                            *)
  eventsEnded,(* the consumer's loop is over                                *)
  recent     (* history: the frames since the last event or reset           *)

eventVars == <<events, eventNo, emission, outdated>>

Events == INSTANCE DropOldest
  WITH Producers <- {Audio}, Capacity <- EventsSize, MaxItems <- MaxEvents,
       queue <- events, offered <- eventNo, step <- emission, dropped <- outdated

trackVars == <<sawSpeech, silenceFrames, recent>>
closeVars == <<feeding, closing, turnCloses>>
turnVars == <<eventVars, trackVars, resets, closeVars, received, eventsEnded>>

Frames == {"speech", "silence"}

(* Only the last SilenceFrames + 1 frames are kept. *)
Remember(frame) ==
  LET all == Append(recent, frame)
  IN  IF Len(all) > SilenceFrames + 1 THEN Tail(all) ELSE all

TurnTypeOK ==
  /\ Events!QueueTypeOK
  /\ sawSpeech \in BOOLEAN /\ silenceFrames \in 0 .. SilenceFrames - 1
  /\ recent \in Seq(Frames) /\ Len(recent) <= SilenceFrames + 1
  /\ resets \in 0 .. 1 /\ feeding \in BOOLEAN
  /\ closing \subseteq Closers /\ turnCloses \in 0 .. 1
  /\ received \in 0 .. MaxEvents /\ eventsEnded \in BOOLEAN

TurnInit ==
  /\ Events!QueueInit
  /\ sawSpeech = FALSE /\ silenceFrames = 0 /\ recent = << >>
  /\ resets = 0 /\ feeding = TRUE
  /\ closing = {} /\ turnCloses = 0
  /\ received = 0 /\ eventsEnded = FALSE

-----------------------------------------------------------------------------
Idle == feeding /\ emission[Audio] = "idle"

ObserveSpeech ==
  /\ Idle
  /\ sawSpeech' = TRUE /\ silenceFrames' = 0 /\ recent' = Remember("speech")
  /\ UNCHANGED <<eventVars, resets, closeVars, received, eventsEnded>>

(* Faulty: one frame too few. *)
UtteranceEarly == sawSpeech /\ silenceFrames + 2 >= SilenceFrames

UtteranceOver == sawSpeech /\ silenceFrames + 1 >= SilenceFrames

ObserveSilence ==
  /\ Idle /\ ~UtteranceOver
  /\ silenceFrames' = IF sawSpeech THEN silenceFrames + 1 ELSE silenceFrames
  /\ recent' = Remember("silence")
  /\ UNCHANGED <<sawSpeech, eventVars, resets, closeVars, received, eventsEnded>>

(* The frame that ends the utterance: the event, then a fresh start. *)
Fire ==
  /\ Idle /\ UtteranceOver
  /\ Events!Offer(Audio)
  /\ sawSpeech' = FALSE /\ silenceFrames' = 0 /\ recent' = << >>
  /\ UNCHANGED <<resets, closeVars, received, eventsEnded>>

DeliverEvent ==
  /\ Events!DropHead(Audio) \/ Events!Retry(Audio)
  /\ UNCHANGED <<trackVars, resets, closeVars, received, eventsEnded>>

Reset ==
  /\ Idle /\ resets = 0 /\ resets' = 1
  /\ sawSpeech' = FALSE /\ silenceFrames' = 0 /\ recent' = << >>
  /\ UNCHANGED <<eventVars, closeVars, received, eventsEnded>>

CallEnds ==
  /\ Idle /\ feeding' = FALSE
  /\ UNCHANGED <<eventVars, trackVars, resets, closing, turnCloses, received, eventsEnded>>

Close(c) ==
  /\ ~feeding /\ c \notin closing
  /\ closing' = closing \cup {c} /\ turnCloses' = 1
  /\ UNCHANGED <<eventVars, trackVars, resets, feeding, received, eventsEnded>>

ConsumeEvent ==
  /\ received' = IF events = << >> THEN received ELSE Head(events).n
  /\ Events!Take
  /\ UNCHANGED <<trackVars, resets, closeVars, eventsEnded>>

EventsEnd ==
  /\ turnCloses > 0 /\ events = << >> /\ ~eventsEnded /\ eventsEnded' = TRUE
  /\ UNCHANGED <<eventVars, trackVars, resets, closeVars, received>>

TurnNext ==
  \/ ObserveSpeech \/ ObserveSilence \/ Fire \/ DeliverEvent \/ Reset
  \/ CallEnds \/ \E c \in Closers : Close(c)
  \/ ConsumeEvent \/ EventsEnd

TurnSpec == TurnInit /\ [][TurnNext]_turnVars

(* Close is called when the call has ended, and the consumer ranges on. *)
TurnFairness ==
  /\ WF_turnVars(DeliverEvent) /\ WF_turnVars(ConsumeEvent) /\ WF_turnVars(EventsEnd)
  /\ \A c \in Closers : WF_turnVars(Close(c))

-----------------------------------------------------------------------------
(* Properties *)

(* An event follows speech and exactly SilenceFrames frames of silence,    *)
(* all of the same utterance and stream: leading silence, silence going on *)
(* after an event and speech before a reset do not count.                  *)
EventAfterUtterance ==
  [][eventNo' # eventNo =>
       Remember("silence")
         = <<"speech">> \o [i \in 1 .. SilenceFrames |-> "silence"]]_turnVars

(* Whatever the consumer does, the newest turn boundary reaches it or is   *)
(* waiting for it.                                                         *)
NewestBoundaryKept ==
  (emission[Audio] = "idle" /\ eventNo[Audio] > 0)
    => \/ received = eventNo[Audio]
       \/ events # << >> /\ events[Len(events)] = Events!Newest(Audio)

(* "Ranging over it terminates cleanly once the pipeline is torn down",    *)
(* with the newest boundary received.                                      *)
ConsumerFinishes == ~feeding ~> (eventsEnded /\ received = eventNo[Audio])

(* What is in the channel was neither received nor overtaken, the boundary  *)
(* in hand is newer than all of it, and where it is tried again there is    *)
(* room.                                                                    *)
BoundaryUnderway ==
  /\ \A i \in 1 .. Len(events) :
       received < events[i].n /\ events[i].n <= eventNo[Audio]
  /\ received <= eventNo[Audio]
  /\ emission[Audio] # "idle" =>
       /\ received < eventNo[Audio]
       /\ \A i \in 1 .. Len(events) : events[i].n < eventNo[Audio]
  /\ emission[Audio] = "retry" => Len(events) < EventsSize

(* The tracker counts the silence since the last frame of speech.           *)
SilenceCounted ==
  /\ sawSpeech =>
       /\ Len(recent) > silenceFrames
       /\ recent[Len(recent) - silenceFrames] = "speech"
       /\ \A k \in 0 .. silenceFrames - 1 : recent[Len(recent) - k] = "silence"
  /\ ~sawSpeech => silenceFrames = 0

(* The event channel between Observe, Close and the consumer: it holds no  *)
(* more than it may, in order, is closed once, and never misses the newest *)
(* boundary; the tracker counts the silence it has seen.                   *)
TurnInv ==
  /\ TurnTypeOK /\ NewestBoundaryKept /\ Events!SentInOrder
  /\ BoundaryUnderway /\ SilenceCounted
=============================================================================
