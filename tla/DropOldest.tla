----------------------------- MODULE DropOldest -----------------------------
(***************************************************************************)
(* Sending on a buffered channel without ever blocking.  The code does it  *)
(* in three places: ReconnectClient.Send (pkg/websocket/client.go), the    *)
(* delivery of clean audio (pkg/rtp/session.go) and of turn-end events     *)
(* (pkg/audio/turnend.go).  When the channel is full the oldest item is    *)
(* taken out and the send tried once more; receivers and other producers   *)
(* may use the channel between any two of these steps.                     *)
(*                                                                         *)
(* An item is known by its producer and its number.                        *)
(***************************************************************************)
EXTENDS Integers, Sequences

CONSTANTS
  Producers,
  Capacity,   (* of the channel                                             *)
  MaxItems    (* bound: how many items each producer offers                 *)

ASSUME QueueAssumption == Capacity \in Nat \ {0} /\ MaxItems \in Nat

VARIABLES
  queue,      (* the channel                                                *)
  offered,    (* how many items each producer has offered                   *)
  step,       (* where each producer is: idle, drop, retry                  *)
  dropped     (* history: the items given up for lack of room               *)

queueVars == <<queue, offered, step, dropped>>

Items == [by : Producers, n : 1 .. MaxItems]

QueueTypeOK ==
  /\ queue \in Seq(Items) /\ Len(queue) <= Capacity
  /\ offered \in [Producers -> 0 .. MaxItems]
  /\ step \in [Producers -> {"idle", "drop", "retry"}]
  /\ dropped \in SUBSET Items

QueueInit ==
  /\ queue = << >>
  /\ offered = [p \in Producers |-> 0]
  /\ step = [p \in Producers |-> "idle"]
  /\ dropped = {}

-----------------------------------------------------------------------------
Newest(p) == [by |-> p, n |-> offered[p]]

HasRoom == Len(queue) < Capacity

(* The first select: the item goes in, or the channel is full. *)
Offer(p) ==
  LET item == [by |-> p, n |-> offered[p] + 1]
  IN  /\ step[p] = "idle" /\ offered[p] < MaxItems
      /\ offered' = [offered EXCEPT ![p] = @ + 1]
      /\ IF HasRoom
         THEN queue' = Append(queue, item) /\ UNCHANGED step
         ELSE step' = [step EXCEPT ![p] = "drop"] /\ UNCHANGED queue
      /\ UNCHANGED dropped

(* The second select: the oldest item makes room, unless a receiver has    *)
(* emptied the channel meanwhile.                                          *)
DropHead(p) ==
  /\ step[p] = "drop"
  /\ step' = [step EXCEPT ![p] = "retry"]
  /\ IF queue = << >>
     THEN UNCHANGED <<queue, dropped>>
     ELSE queue' = Tail(queue) /\ dropped' = dropped \cup {Head(queue)}
  /\ UNCHANGED offered

(* Faulty: the item that did not fit is forgotten once room was made. *)
RetryForgotten(p) ==
  /\ step[p] = "retry"
  /\ step' = [step EXCEPT ![p] = "idle"]
  /\ dropped' = dropped \cup {Newest(p)}
  /\ UNCHANGED <<queue, offered>>

(* The third select: one more try, for which another producer may have     *)
(* taken the room.                                                         *)
Retry(p) ==
  /\ step[p] = "retry"
  /\ step' = [step EXCEPT ![p] = "idle"]
  /\ IF HasRoom
     THEN queue' = Append(queue, Newest(p)) /\ UNCHANGED dropped
     ELSE dropped' = dropped \cup {Newest(p)} /\ UNCHANGED queue
  /\ UNCHANGED offered

Produce(p) == Offer(p) \/ DropHead(p) \/ Retry(p)

(* A receiver takes the head. *)
Take == queue # << >> /\ queue' = Tail(queue) /\ UNCHANGED <<offered, step, dropped>>

-----------------------------------------------------------------------------
(* The items of one producer are in the channel in the order it sent them. *)
SentInOrder ==
  \A i, j \in 1 .. Len(queue) :
    (i < j /\ queue[i].by = queue[j].by) => queue[i].n < queue[j].n
=============================================================================
