--------------------------- MODULE ChannelsProofs ---------------------------
(***************************************************************************)
(* Proofs about the parts that hand work from goroutine to goroutine or from*)
(* process to process: the feed of clean audio, the turn-end detector and the*)
(* reconnecting client with their drop-oldest channels, the WebSocket bridge,*)
(* the suppressors that start a server, and the RTP quality monitor.        *)
(***************************************************************************)
EXTENDS CleanAudioFeed, TurnEnd, ReconnectClient, WebSocketBridge, DeepFilterServer,
        RtpMonitor, TLAPS, FiniteSetTheorems

-----------------------------------------------------------------------------
(* CleanAudioFeed: the feed keeps its freshest frame, in order, and nobody  *)
(* sends after the close, for any capacity, number of frames and of Stops,  *)
(* whatever the consumer does.                                              *)

LEMMA FeedInitInv == FeedInit => FeedInv
<1> SUFFICES ASSUME FeedInit PROVE FeedInv
  OBVIOUS
<1> USE FeedAssumption DEF FeedInit, Chan!QueueInit
<1>1. FeedTypeOK
  <2>1. cleanAudioCh \in Seq(Chan!Items) /\ Len(cleanAudioCh) <= FeedSize
    <3>1. cleanAudioCh = << >>
      OBVIOUS
    <3>2. << >> \in Seq(Chan!Items) /\ Len(<< >>) = 0
      OBVIOUS
    <3> QED
      BY <3>1, <3>2
  <2>2. frameNo \in [{Loop} -> 0 .. MaxFrames] /\ delivery \in [{Loop} -> {"idle", "drop", "retry"}]
    OBVIOUS
  <2>3. missed = {} /\ heard = 0 /\ heard \in 0 .. MaxFrames /\ closes \in 0 .. 1
    OBVIOUS
  <2>4. stopPc \in [Stoppers -> {"out", "waiting", "closed"}]
    OBVIOUS
  <2>5. stopping \in BOOLEAN /\ done \in BOOLEAN /\ ended \in BOOLEAN
    OBVIOUS
  <2> QED
    BY <2>1, <2>2, <2>3, <2>4, <2>5 DEF FeedTypeOK, Chan!QueueTypeOK
<1>2. FreshestKept /\ Chan!SentInOrder /\ ClosedAfterLastSend /\ Underway
  BY DEF FreshestKept, Chan!SentInOrder, ClosedAfterLastSend, Underway
<1> QED
  BY <1>1, <1>2 DEF FeedInv

(* The channel after its oldest frame is gone: the others, still in order.  *)
LEMMA TailOfFeed ==
  ASSUME FeedInv, cleanAudioCh # << >>
  PROVE  /\ Tail(cleanAudioCh) \in Seq(Chan!Items)
         /\ Head(cleanAudioCh) \in Chan!Items
         /\ Head(cleanAudioCh) = cleanAudioCh[1]
         /\ Len(cleanAudioCh) \in Nat \ {0}
         /\ Len(Tail(cleanAudioCh)) = Len(cleanAudioCh) - 1
         /\ \A i \in 1 .. Len(cleanAudioCh) - 1 : Tail(cleanAudioCh)[i] = cleanAudioCh[i + 1]
         /\ \A i \in 1 .. Len(cleanAudioCh) : /\ cleanAudioCh[i].by = Loop
                                              /\ cleanAudioCh[i].n \in 1 .. MaxFrames
<1>1. cleanAudioCh \in Seq(Chan!Items)
  BY DEF FeedInv, FeedTypeOK, Chan!QueueTypeOK
<1>2. \A i \in 1 .. Len(cleanAudioCh) : cleanAudioCh[i] \in Chan!Items
  BY <1>1
<1>3. \A i \in 1 .. Len(cleanAudioCh) : /\ cleanAudioCh[i].by = Loop
                                        /\ cleanAudioCh[i].n \in 1 .. MaxFrames
  BY <1>2 DEF Chan!Items
<1> QED
  BY <1>1, <1>3

(* What is left after the oldest frame is still in order.                   *)
LEMMA TailInOrder ==
  ASSUME FeedInv, cleanAudioCh # << >>, cleanAudioCh' = Tail(cleanAudioCh)
  PROVE  Chan!SentInOrder'
<1>1. /\ Len(cleanAudioCh) \in Nat \ {0} /\ Len(cleanAudioCh') = Len(cleanAudioCh) - 1
      /\ \A i \in 1 .. Len(cleanAudioCh) - 1 : cleanAudioCh'[i] = cleanAudioCh[i + 1]
  BY TailOfFeed
<1>2. ASSUME NEW i \in 1 .. Len(cleanAudioCh'), NEW j \in 1 .. Len(cleanAudioCh'), i < j,
             cleanAudioCh'[i].by = cleanAudioCh'[j].by
      PROVE  cleanAudioCh'[i].n < cleanAudioCh'[j].n
  <2>1. /\ i + 1 \in 1 .. Len(cleanAudioCh) /\ j + 1 \in 1 .. Len(cleanAudioCh) /\ i + 1 < j + 1
        /\ cleanAudioCh'[i] = cleanAudioCh[i + 1] /\ cleanAudioCh'[j] = cleanAudioCh[j + 1]
    BY <1>1, <1>2
  <2> QED
    BY <1>2, <2>1 DEF FeedInv, Chan!SentInOrder
<1> QED
  BY <1>2 DEF Chan!SentInOrder

(* The channel after a frame newer than all of it was sent.                 *)
LEMMA SentNewest ==
  ASSUME FeedInv, NEW m \in 1 .. MaxFrames,
         \A i \in 1 .. Len(cleanAudioCh) : cleanAudioCh[i].n < m,
         cleanAudioCh' = Append(cleanAudioCh, [by |-> Loop, n |-> m])
  PROVE  /\ cleanAudioCh' \in Seq(Chan!Items)
         /\ Len(cleanAudioCh) \in Nat /\ Len(cleanAudioCh') = Len(cleanAudioCh) + 1
         /\ cleanAudioCh'[Len(cleanAudioCh')] = [by |-> Loop, n |-> m]
         /\ \A i \in 1 .. Len(cleanAudioCh) : cleanAudioCh'[i] = cleanAudioCh[i]
         /\ Chan!SentInOrder'
<1> DEFINE item == [by |-> Loop, n |-> m]
<1>1. cleanAudioCh \in Seq(Chan!Items) /\ item \in Chan!Items
  BY DEF FeedInv, FeedTypeOK, Chan!QueueTypeOK, Chan!Items
<1>2. /\ cleanAudioCh' \in Seq(Chan!Items)
      /\ Len(cleanAudioCh) \in Nat /\ Len(cleanAudioCh') = Len(cleanAudioCh) + 1
      /\ cleanAudioCh'[Len(cleanAudioCh')] = item
      /\ \A i \in 1 .. Len(cleanAudioCh) : cleanAudioCh'[i] = cleanAudioCh[i]
  BY <1>1
<1>3. ASSUME NEW i \in 1 .. Len(cleanAudioCh'), NEW j \in 1 .. Len(cleanAudioCh'), i < j
      PROVE  cleanAudioCh'[i].n < cleanAudioCh'[j].n
  <2>1. i \in 1 .. Len(cleanAudioCh)
    BY <1>2, <1>3
  <2>2. CASE j = Len(cleanAudioCh')
    BY <1>2, <2>1, <2>2
  <2>3. CASE j # Len(cleanAudioCh')
    <3>1. j \in 1 .. Len(cleanAudioCh)
      BY <1>2, <2>3
    <3>2. cleanAudioCh[i] \in Chan!Items /\ cleanAudioCh[j] \in Chan!Items
      BY <1>1, <2>1, <3>1
    <3>3. cleanAudioCh[i].by = cleanAudioCh[j].by
      BY <3>2 DEF Chan!Items
    <3> QED
      BY <1>2, <1>3, <2>1, <3>1, <3>3 DEF FeedInv, Chan!SentInOrder
  <2> QED
    BY <2>2, <2>3
<1> QED
  BY <1>2, <1>3 DEF Chan!SentInOrder

-----------------------------------------------------------------------------
(* The three selects of the receive loop.                                   *)
LEMMA DeliverKeepsInv ==
  ASSUME FeedInv, Deliver
  PROVE  FeedInv'
<1> USE FeedAssumption DEF stopVars
<1>0. /\ cleanAudioCh \in Seq(Chan!Items) /\ Len(cleanAudioCh) \in Nat
      /\ frameNo \in [{Loop} -> 0 .. MaxFrames] /\ frameNo[Loop] \in 0 .. MaxFrames
      /\ delivery \in [{Loop} -> {"idle", "drop", "retry"}]
      /\ missed \in SUBSET Chan!Items /\ heard \in 0 .. MaxFrames
  BY DEF FeedInv, FeedTypeOK, Chan!QueueTypeOK
<1>01. ~done /\ UNCHANGED <<stopping, done, stopPc, closes, heard, ended>> /\ closes = 0
  BY DEF Deliver, FeedInv, FeedTypeOK, ClosedAfterLastSend
<1>1. CASE Chan!Offer(Loop)
  <2>0. /\ delivery[Loop] = "idle" /\ frameNo[Loop] < MaxFrames
        /\ frameNo' = [frameNo EXCEPT ![Loop] = @ + 1] /\ missed' = missed
        /\ frameNo'[Loop] = frameNo[Loop] + 1 /\ frameNo'[Loop] \in 1 .. MaxFrames
        /\ \A i \in 1 .. Len(cleanAudioCh) : cleanAudioCh[i].n < frameNo'[Loop]
        /\ heard < frameNo'[Loop]
    <3>1. \A i \in 1 .. Len(cleanAudioCh) : cleanAudioCh[i] \in Chan!Items
      BY <1>0
    <3> QED
      BY <1>0, <1>1, <3>1 DEF Chan!Offer, FeedInv, Underway, Chan!Items
  <2>1. CASE Chan!HasRoom
    <3>0. /\ cleanAudioCh' = Append(cleanAudioCh, [by |-> Loop, n |-> frameNo'[Loop]])
          /\ delivery' = delivery /\ Len(cleanAudioCh) < FeedSize
      BY <1>0, <1>1, <2>0, <2>1 DEF Chan!Offer, Chan!HasRoom
    <3>1. /\ cleanAudioCh' \in Seq(Chan!Items)
          /\ Len(cleanAudioCh) \in Nat /\ Len(cleanAudioCh') = Len(cleanAudioCh) + 1
          /\ cleanAudioCh'[Len(cleanAudioCh')] = [by |-> Loop, n |-> frameNo'[Loop]]
          /\ \A i \in 1 .. Len(cleanAudioCh) : cleanAudioCh'[i] = cleanAudioCh[i]
          /\ Chan!SentInOrder'
      <4> HIDE DEF stopVars
      <4> QED
        BY <2>0, <3>0, SentNewest
    <3>2. FeedTypeOK'
      BY <1>0, <1>01, <2>0, <3>0, <3>1 DEF FeedInv, FeedTypeOK, Chan!QueueTypeOK
    <3>3. FreshestKept' /\ ClosedAfterLastSend'
      BY <1>0, <1>01, <2>0, <3>0, <3>1 DEF FreshestKept, ClosedAfterLastSend, Chan!Newest
    <3>4. Underway'
      <4>1. ASSUME NEW i \in 1 .. Len(cleanAudioCh')
            PROVE  heard < cleanAudioCh'[i].n /\ cleanAudioCh'[i].n <= frameNo'[Loop]
        <5>1. CASE i = Len(cleanAudioCh')
          BY <1>0, <2>0, <3>1, <5>1
        <5>2. CASE i # Len(cleanAudioCh')
          <6>1. i \in 1 .. Len(cleanAudioCh) /\ cleanAudioCh[i] \in Chan!Items
            BY <1>0, <3>1, <5>2
          <6> QED
            BY <1>0, <2>0, <3>1, <6>1, SMTT(30) DEF FeedInv, Underway, Chan!Items
        <5> QED
          BY <5>1, <5>2
      <4> QED
        BY <1>0, <1>01, <2>0, <3>0, <4>1 DEF Underway
    <3> QED
      BY <3>1, <3>2, <3>3, <3>4 DEF FeedInv
  <2>2. CASE ~Chan!HasRoom
    <3>0. cleanAudioCh' = cleanAudioCh /\ delivery' = [delivery EXCEPT ![Loop] = "drop"]
      BY <1>1, <2>2 DEF Chan!Offer
    <3>1. FeedTypeOK'
      BY <1>0, <1>01, <2>0, <3>0 DEF FeedInv, FeedTypeOK, Chan!QueueTypeOK
    <3>2. FreshestKept' /\ ClosedAfterLastSend' /\ Chan!SentInOrder'
      BY <1>0, <1>01, <3>0 DEF FeedInv, FreshestKept, ClosedAfterLastSend, Chan!SentInOrder
    <3>3. Underway'
      <4>1. \A i \in 1 .. Len(cleanAudioCh) : cleanAudioCh[i].n < frameNo'[Loop] =>
              cleanAudioCh[i].n <= frameNo'[Loop]
        <5>1. \A i \in 1 .. Len(cleanAudioCh) : cleanAudioCh[i] \in Chan!Items
          BY <1>0
        <5>2. \A i \in 1 .. Len(cleanAudioCh) : cleanAudioCh[i].n \in Nat
          BY <5>1 DEF Chan!Items
        <5>3. frameNo'[Loop] \in Nat
          BY <1>0, <2>0
        <5> QED
          BY ONLY <5>2, <5>3
      <4> QED
        BY <1>0, <1>01, <2>0, <3>0, <4>1 DEF FeedInv, Underway
    <3> QED
      BY <3>1, <3>2, <3>3 DEF FeedInv
  <2> QED
    BY <2>1, <2>2
<1>2. CASE Chan!DropHead(Loop)
  <2>0. /\ delivery[Loop] = "drop" /\ delivery' = [delivery EXCEPT ![Loop] = "retry"]
        /\ frameNo' = frameNo
    BY <1>2 DEF Chan!DropHead
  <2>1. CASE cleanAudioCh = << >>
    <3>0. cleanAudioCh' = << >> /\ missed' = missed
      BY <1>2, <2>1 DEF Chan!DropHead
    <3> QED
      BY <1>0, <1>01, <2>0, <2>1, <3>0
      DEF FeedInv, FeedTypeOK, Chan!QueueTypeOK, FreshestKept, ClosedAfterLastSend,
          Chan!SentInOrder, Underway
  <2>2. CASE cleanAudioCh # << >>
    <3>0. cleanAudioCh' = Tail(cleanAudioCh) /\ missed' = missed \cup {Head(cleanAudioCh)}
      BY <1>2, <2>2 DEF Chan!DropHead
    <3>1. /\ cleanAudioCh' \in Seq(Chan!Items) /\ Head(cleanAudioCh) \in Chan!Items
          /\ Len(cleanAudioCh) \in Nat \ {0} /\ Len(cleanAudioCh') = Len(cleanAudioCh) - 1
          /\ \A i \in 1 .. Len(cleanAudioCh') : cleanAudioCh'[i] = cleanAudioCh[i + 1]
      <4> HIDE DEF stopVars
      <4> QED
        BY <2>2, <3>0, TailOfFeed
    <3>2. FeedTypeOK'
      BY <1>0, <1>01, <2>0, <3>0, <3>1 DEF FeedInv, FeedTypeOK, Chan!QueueTypeOK
    <3>3. Chan!SentInOrder'
      <4> HIDE DEF stopVars
      <4> QED
        BY <2>2, <3>0, TailInOrder
    <3>4. FreshestKept' /\ ClosedAfterLastSend'
      BY <1>0, <1>01, <2>0 DEF FreshestKept, ClosedAfterLastSend
    <3>5. Underway'
      <4>1. \A i \in 1 .. Len(cleanAudioCh') : /\ i + 1 \in 1 .. Len(cleanAudioCh)
                                               /\ cleanAudioCh'[i] = cleanAudioCh[i + 1]
        BY <3>1
      <4>2. /\ heard <= frameNo[Loop] /\ heard < frameNo[Loop]
            /\ \A i \in 1 .. Len(cleanAudioCh) :
                 heard < cleanAudioCh[i].n /\ cleanAudioCh[i].n < frameNo[Loop]
                 /\ cleanAudioCh[i].n <= frameNo[Loop]
        BY <2>0 DEF FeedInv, Underway
      <4>3. Len(cleanAudioCh') < FeedSize
        BY <3>1 DEF FeedInv, FeedTypeOK, Chan!QueueTypeOK
      <4> QED
        BY <1>01, <2>0, <4>1, <4>2, <4>3 DEF Underway
    <3> QED
      BY <3>2, <3>3, <3>4, <3>5 DEF FeedInv
  <2> QED
    BY <2>1, <2>2
<1>3. CASE Chan!Retry(Loop)
  <2>0. /\ delivery[Loop] = "retry" /\ delivery' = [delivery EXCEPT ![Loop] = "idle"]
        /\ frameNo' = frameNo /\ Len(cleanAudioCh) < FeedSize
        /\ cleanAudioCh' = Append(cleanAudioCh, [by |-> Loop, n |-> frameNo[Loop]])
        /\ missed' = missed /\ heard < frameNo[Loop] /\ frameNo[Loop] \in 1 .. MaxFrames
        /\ \A i \in 1 .. Len(cleanAudioCh) : cleanAudioCh[i].n < frameNo[Loop]
    BY <1>0, <1>3 DEF Chan!Retry, Chan!HasRoom, Chan!Newest, FeedInv, Underway
  <2>1. /\ cleanAudioCh' \in Seq(Chan!Items)
        /\ Len(cleanAudioCh') = Len(cleanAudioCh) + 1
        /\ cleanAudioCh'[Len(cleanAudioCh')] = [by |-> Loop, n |-> frameNo[Loop]]
        /\ \A i \in 1 .. Len(cleanAudioCh) : cleanAudioCh'[i] = cleanAudioCh[i]
        /\ Chan!SentInOrder'
    <3> HIDE DEF stopVars
    <3> QED
      BY <2>0, SentNewest
  <2>2. FeedTypeOK'
    BY <1>0, <1>01, <2>0, <2>1 DEF FeedInv, FeedTypeOK, Chan!QueueTypeOK
  <2>3. FreshestKept' /\ ClosedAfterLastSend'
    BY <1>0, <1>01, <2>0, <2>1 DEF FreshestKept, ClosedAfterLastSend, Chan!Newest
  <2>4. Underway'
    <3>1. ASSUME NEW i \in 1 .. Len(cleanAudioCh')
          PROVE  heard < cleanAudioCh'[i].n /\ cleanAudioCh'[i].n <= frameNo[Loop]
      <4>1. CASE i = Len(cleanAudioCh')
        BY <1>0, <2>0, <2>1, <4>1
      <4>2. CASE i # Len(cleanAudioCh')
        <5>1. i \in 1 .. Len(cleanAudioCh)
          BY <1>0, <2>1, <4>2
        <5> QED
          BY <2>1, <5>1 DEF FeedInv, Underway
      <4> QED
        BY <4>1, <4>2
    <3> QED
      BY <1>0, <1>01, <2>0, <3>1 DEF Underway
  <2> QED
    BY <2>1, <2>2, <2>3, <2>4 DEF FeedInv
<1> QED
  BY <1>1, <1>2, <1>3 DEF Deliver, Chan!Produce

(* A receive: the frame heard is the oldest, and older than what is left.   *)
LEMMA ConsumeKeepsInv ==
  ASSUME FeedInv, Consume
  PROVE  FeedInv'
<1>0. /\ cleanAudioCh # << >> /\ cleanAudioCh' = Tail(cleanAudioCh)
      /\ heard' = Head(cleanAudioCh).n
      /\ UNCHANGED <<frameNo, delivery, missed, stopping, done, stopPc, closes, ended>>
  BY DEF Consume, Chan!Take, stopVars
<1>1. /\ cleanAudioCh' \in Seq(Chan!Items) /\ heard' = cleanAudioCh[1].n
      /\ Len(cleanAudioCh) \in Nat \ {0} /\ Len(cleanAudioCh') = Len(cleanAudioCh) - 1
      /\ \A i \in 1 .. Len(cleanAudioCh') : cleanAudioCh'[i] = cleanAudioCh[i + 1]
      /\ \A i \in 1 .. Len(cleanAudioCh) : /\ cleanAudioCh[i].by = Loop
                                           /\ cleanAudioCh[i].n \in 1 .. MaxFrames
  BY <1>0, TailOfFeed
<1>2. \A i \in 2 .. Len(cleanAudioCh) : cleanAudioCh[1].n < cleanAudioCh[i].n
  BY <1>1, SMTT(30) DEF FeedInv, Chan!SentInOrder
<1>3. FeedTypeOK'
  BY <1>0, <1>1, FeedAssumption DEF FeedInv, FeedTypeOK, Chan!QueueTypeOK
<1>4. Chan!SentInOrder'
  BY <1>0, TailInOrder
<1>5. ClosedAfterLastSend'
  BY <1>0 DEF FeedInv, ClosedAfterLastSend
<1>6. FreshestKept'
  <2>1. SUFFICES ASSUME delivery[Loop] = "idle", frameNo[Loop] > 0
                 PROVE  \/ heard' = frameNo[Loop]
                        \/ /\ cleanAudioCh' # << >>
                           /\ cleanAudioCh'[Len(cleanAudioCh')] = Chan!Newest(Loop)
    BY <1>0 DEF FreshestKept, Chan!Newest
  <2>2. cleanAudioCh[Len(cleanAudioCh)].n = frameNo[Loop] /\ cleanAudioCh[Len(cleanAudioCh)] = Chan!Newest(Loop)
    <3>1. heard < cleanAudioCh[1].n /\ cleanAudioCh[1].n <= frameNo[Loop]
      BY <1>1 DEF FeedInv, Underway
    <3>2. heard # frameNo[Loop]
      BY <1>1, <3>1 DEF FeedInv, FeedTypeOK, Chan!QueueTypeOK
    <3> QED
      BY <2>1, <3>2 DEF FeedInv, FreshestKept, Chan!Newest
  <2>3. CASE Len(cleanAudioCh) = 1
    BY <1>1, <2>2, <2>3
  <2>4. CASE Len(cleanAudioCh) > 1
    <3>1. Len(cleanAudioCh') \in 1 .. Len(cleanAudioCh')
      BY <1>1, <2>4
    <3>2. cleanAudioCh'[Len(cleanAudioCh')] = cleanAudioCh[Len(cleanAudioCh)]
      BY <1>1, <3>1
    <3> QED
      BY <1>1, <2>2, <3>1, <3>2
  <2> QED
    BY <1>1, <2>3, <2>4
<1>7. Underway'
  <2>1. \A i \in 1 .. Len(cleanAudioCh') : cleanAudioCh'[i] = cleanAudioCh[i + 1] /\ i + 1 \in 2 .. Len(cleanAudioCh)
    BY <1>1
  <2>2. 1 \in 1 .. Len(cleanAudioCh)
    BY <1>1
  <2>3. \A i \in 1 .. Len(cleanAudioCh') : heard' < cleanAudioCh'[i].n
    BY <1>1, <1>2, <2>1
  <2>4. \A i \in 1 .. Len(cleanAudioCh') : cleanAudioCh'[i].n <= frameNo[Loop]
    BY <1>1, <2>1 DEF FeedInv, Underway
  <2>5. heard' <= frameNo[Loop] /\ (delivery[Loop] # "idle" => heard' < frameNo[Loop])
    BY <1>1, <2>2 DEF FeedInv, Underway
  <2>6. delivery[Loop] # "idle" => \A i \in 1 .. Len(cleanAudioCh') : cleanAudioCh'[i].n < frameNo[Loop]
    BY <1>1, <2>1 DEF FeedInv, Underway
  <2>7. delivery[Loop] = "retry" => Len(cleanAudioCh') < FeedSize
    BY <1>1, FeedAssumption DEF FeedInv, Underway
  <2>8. delivery[Loop] # "idle" => ~done
    BY DEF FeedInv, Underway
  <2> QED
    BY <1>0, <2>3, <2>4, <2>5, <2>6, <2>7, <2>8 DEF Underway
<1> QED
  BY <1>3, <1>4, <1>5, <1>6, <1>7 DEF FeedInv

(* The loop ends between two frames, and only then is the channel closed.   *)
LEMMA StopKeepsInv ==
  ASSUME FeedInv, LoopEnds \/ RangeEnds \/ (\E s \in Stoppers : StopCall(s) \/ StopClose(s))
  PROVE  FeedInv'
<1> USE DEF chanVars, stopVars
<1>1. UNCHANGED <<cleanAudioCh, frameNo, delivery, missed, heard>>
  BY DEF LoopEnds, RangeEnds, StopCall, StopClose
<1>2. FeedTypeOK'
  <2>1. Chan!QueueTypeOK'
    BY <1>1 DEF FeedInv, FeedTypeOK, Chan!QueueTypeOK
  <2>2. CASE LoopEnds \/ RangeEnds
    BY <1>1, <2>1, <2>2 DEF FeedInv, FeedTypeOK, LoopEnds, RangeEnds
  <2>3. CASE \E s \in Stoppers : StopCall(s) \/ StopClose(s)
    <3>1. /\ closes' \in 0 .. 1 /\ stopPc' \in [Stoppers -> {"out", "waiting", "closed"}]
          /\ stopping' \in BOOLEAN
      <4>1. PICK s \in Stoppers : StopCall(s) \/ StopClose(s)
        BY <2>3
      <4>2. stopPc \in [Stoppers -> {"out", "waiting", "closed"}] /\ closes \in {0, 1}
            /\ stopping \in BOOLEAN
        BY DEF FeedInv, FeedTypeOK
      <4>3. stopPc' \in [Stoppers -> {"out", "waiting", "closed"}]
        BY <4>1, <4>2 DEF StopCall, StopClose
      <4>4. closes' \in {0, 1} /\ stopping' \in BOOLEAN
        BY <4>1, <4>2, Zenon DEF StopCall, StopClose
      <4> QED
        BY <4>3, <4>4
    <3>2. UNCHANGED <<done, ended>>
      BY <2>3 DEF StopCall, StopClose
    <3> QED
      BY <1>1, <2>1, <3>1, <3>2 DEF FeedInv, FeedTypeOK
  <2> QED
    BY <2>2, <2>3
<1>3. FreshestKept' /\ Chan!SentInOrder'
  BY <1>1 DEF FeedInv, FreshestKept, Chan!SentInOrder, Chan!Newest
<1>4. ClosedAfterLastSend' /\ (delivery[Loop] # "idle" => ~done')
  <2>1. CASE LoopEnds
    BY <1>1, <2>1 DEF FeedInv, ClosedAfterLastSend, LoopEnds
  <2>2. CASE RangeEnds
    BY <1>1, <2>2 DEF FeedInv, ClosedAfterLastSend, RangeEnds, Underway
  <2>3. CASE \E s \in Stoppers : StopCall(s) \/ StopClose(s)
    BY <1>1, <2>3 DEF FeedInv, ClosedAfterLastSend, StopCall, StopClose, Underway
  <2> QED
    BY <2>1, <2>2, <2>3
<1>5. Underway'
  BY <1>1, <1>4 DEF FeedInv, Underway
<1> QED
  BY <1>2, <1>3, <1>4, <1>5 DEF FeedInv

LEMMA FeedStepInv == FeedInv /\ [FeedNext]_feedVars => FeedInv'
<1> SUFFICES ASSUME FeedInv, [FeedNext]_feedVars PROVE FeedInv'
  OBVIOUS
<1>1. CASE UNCHANGED feedVars
  BY <1>1 DEF feedVars, chanVars, FeedInv, FeedTypeOK, Chan!QueueTypeOK, FreshestKept, Chan!Newest,
              Chan!SentInOrder, ClosedAfterLastSend, Underway
<1>2. CASE FeedNext
  BY <1>2, DeliverKeepsInv, ConsumeKeepsInv, StopKeepsInv DEF FeedNext
<1> QED
  BY <1>1, <1>2

-----------------------------------------------------------------------------
(* The delivery of clean audio against its consumer and Stop: the second    *)
(* try of the only sender never fails, frames stay in order, and the        *)
(* channel is closed after the last send.                                   *)
THEOREM FeedInvariant == FeedSpec => []FeedInv
<1> QED
  BY FeedInitInv, FeedStepInv, PTL DEF FeedSpec

-----------------------------------------------------------------------------
(* TurnEnd.                                                                 *)

LEMMA TurnInitInv == TurnInit => TurnInv
<1> SUFFICES ASSUME TurnInit PROVE TurnInv
  OBVIOUS
<1> USE TurnEndAssumption DEF TurnInit, Events!QueueInit
<1>1. TurnTypeOK
  <2>1. events \in Seq(Events!Items) /\ Len(events) <= EventsSize
    <3>1. events = << >>
      OBVIOUS
    <3>2. << >> \in Seq(Events!Items) /\ Len(<< >>) = 0
      OBVIOUS
    <3> QED
      BY <3>1, <3>2
  <2>2. eventNo \in [{Audio} -> 0 .. MaxEvents] /\ emission \in [{Audio} -> {"idle", "drop", "retry"}]
    OBVIOUS
  <2>3. outdated = {} /\ received = 0 /\ received \in 0 .. MaxEvents /\ turnCloses \in 0 .. 1 /\ resets \in 0 .. 1
    OBVIOUS
  <2>4. recent \in Seq(Frames) /\ Len(recent) <= SilenceFrames + 1
    OBVIOUS
  <2>5. sawSpeech \in BOOLEAN /\ feeding \in BOOLEAN /\ eventsEnded \in BOOLEAN
    OBVIOUS
  <2>6. silenceFrames \in 0 .. SilenceFrames - 1 /\ closing \subseteq Closers
    OBVIOUS
  <2> QED
    BY <2>1, <2>2, <2>3, <2>4, <2>5, <2>6 DEF TurnTypeOK, Events!QueueTypeOK
<1>2. NewestBoundaryKept /\ Events!SentInOrder /\ BoundaryUnderway /\ SilenceCounted
  BY DEF NewestBoundaryKept, Events!SentInOrder, BoundaryUnderway, SilenceCounted
<1> QED
  BY <1>1, <1>2 DEF TurnInv

-----------------------------------------------------------------------------
(* The frames remembered, counted from the last one back.                   *)
LEMMA Remembered ==
  ASSUME TurnTypeOK, NEW frame \in Frames
  PROVE  /\ Remember(frame) \in Seq(Frames) /\ Len(Remember(frame)) <= SilenceFrames + 1
         /\ Len(Remember(frame)) = IF Len(recent) = SilenceFrames + 1 THEN Len(recent)
                                   ELSE Len(recent) + 1
         /\ Remember(frame)[Len(Remember(frame))] = frame
         /\ \A k \in 1 .. Len(Remember(frame)) - 1 :
              Remember(frame)[Len(Remember(frame)) - k] = recent[Len(recent) - (k - 1)]
<1> DEFINE all == Append(recent, frame)
<1>1. /\ recent \in Seq(Frames) /\ Len(recent) \in Nat /\ Len(recent) <= SilenceFrames + 1
      /\ SilenceFrames \in Nat \ {0}
  BY TurnEndAssumption DEF TurnTypeOK
<1>2. /\ all \in Seq(Frames) /\ Len(all) = Len(recent) + 1 /\ all[Len(all)] = frame
      /\ \A i \in 1 .. Len(recent) : all[i] = recent[i]
  BY <1>1
<1>3. /\ Tail(all) \in Seq(Frames) /\ Len(Tail(all)) = Len(recent)
      /\ \A i \in 1 .. Len(recent) : Tail(all)[i] = all[i + 1]
  BY <1>1
<1> HIDE DEF all
<1>4. CASE Len(all) > SilenceFrames + 1
  <2>1. Remember(frame) = Tail(all) /\ Len(recent) = SilenceFrames + 1
    BY <1>1, <1>2, <1>4 DEF Remember, all
  <2> QED
    BY <1>1, <1>2, <1>3, <2>1
<1>5. CASE ~(Len(all) > SilenceFrames + 1)
  <2>1. Remember(frame) = all /\ Len(recent) # SilenceFrames + 1
    BY <1>1, <1>2, <1>5 DEF Remember, all
  <2> QED
    BY <1>1, <1>2, <2>1
<1> QED
  BY <1>4, <1>5

(* The frames of the tracker: no event leaves or enters the channel.        *)
LEMMA TrackKeepsInv ==
  ASSUME TurnInv, ObserveSpeech \/ ObserveSilence \/ Reset
  PROVE  TurnInv'
<1>0. /\ TurnTypeOK /\ SilenceCounted /\ silenceFrames \in 0 .. SilenceFrames - 1
      /\ sawSpeech \in BOOLEAN /\ recent \in Seq(Frames) /\ Len(recent) \in Nat
      /\ SilenceFrames \in Nat \ {0} /\ "speech" \in Frames /\ "silence" \in Frames
  BY TurnEndAssumption DEF TurnInv, TurnTypeOK, Frames
<1>1. /\ UNCHANGED <<events, eventNo, emission, outdated, feeding, closing, turnCloses, received, eventsEnded>>
      /\ resets' \in 0 .. 1
  BY <1>0 DEF ObserveSpeech, ObserveSilence, Reset, eventVars, closeVars, TurnTypeOK
<1>2. NewestBoundaryKept' /\ Events!SentInOrder' /\ BoundaryUnderway' /\ Events!QueueTypeOK'
  BY <1>1 DEF TurnInv, TurnTypeOK, NewestBoundaryKept, Events!Newest, Events!SentInOrder, BoundaryUnderway, Events!QueueTypeOK
<1>3. /\ sawSpeech' \in BOOLEAN /\ silenceFrames' \in 0 .. SilenceFrames - 1
      /\ recent' \in Seq(Frames) /\ Len(recent') <= SilenceFrames + 1 /\ SilenceCounted'
  <2>1. CASE ObserveSpeech
    <3>1. sawSpeech' = TRUE /\ silenceFrames' = 0 /\ recent' = Remember("speech")
      BY <2>1 DEF ObserveSpeech
    <3>2. /\ recent' \in Seq(Frames) /\ Len(recent') <= SilenceFrames + 1
          /\ recent'[Len(recent')] = "speech" /\ Len(recent') > 0
      BY <1>0, <3>1, Remembered
    <3> QED
      BY <1>0, <3>1, <3>2 DEF SilenceCounted
  <2>2. CASE ObserveSilence
    <3>1. /\ sawSpeech' = sawSpeech /\ recent' = Remember("silence")
          /\ silenceFrames' = IF sawSpeech THEN silenceFrames + 1 ELSE silenceFrames
          /\ sawSpeech => silenceFrames + 1 < SilenceFrames
      BY <1>0, <2>2 DEF ObserveSilence, UtteranceOver
    <3>2. /\ recent' \in Seq(Frames) /\ Len(recent') <= SilenceFrames + 1 /\ Len(recent') \in Nat
          /\ Len(recent') = IF Len(recent) = SilenceFrames + 1 THEN Len(recent) ELSE Len(recent) + 1
          /\ recent'[Len(recent')] = "silence"
          /\ \A k \in 1 .. Len(recent') - 1 : recent'[Len(recent') - k] = recent[Len(recent) - (k - 1)]
      BY <1>0, <3>1, Remembered, SMTT(30)
    <3>3. CASE sawSpeech
      <4>1. silenceFrames' = silenceFrames + 1 /\ silenceFrames' \in 1 .. SilenceFrames - 1
        BY <1>0, <3>1, <3>3
      <4>2. Len(recent') > silenceFrames'
        BY <1>0, <3>2, <3>3, <4>1 DEF SilenceCounted
      <4>3. recent'[Len(recent') - silenceFrames'] = recent[Len(recent) - silenceFrames]
        BY <1>0, <3>2, <4>1, <4>2
      <4>4. ASSUME NEW k \in 0 .. silenceFrames' - 1 PROVE recent'[Len(recent') - k] = "silence"
        <5>1. CASE k = 0
          BY <1>0, <3>2, <5>1
        <5>2. CASE k # 0
          <6>1. k \in 1 .. Len(recent') - 1 /\ k - 1 \in 0 .. silenceFrames - 1
            BY <1>0, <3>2, <4>1, <4>2, <5>2
          <6> QED
            BY <1>0, <3>2, <3>3, <6>1 DEF SilenceCounted
        <5> QED
          BY <5>1, <5>2
      <4>5. recent'[Len(recent') - silenceFrames'] = "speech"
        BY <1>0, <3>3, <4>3 DEF SilenceCounted
      <4> QED
        BY <1>0, <3>1, <3>2, <3>3, <4>1, <4>2, <4>4, <4>5 DEF SilenceCounted
    <3>4. CASE ~sawSpeech
      BY <1>0, <3>1, <3>2, <3>4 DEF SilenceCounted
    <3> QED
      BY <3>3, <3>4
  <2>3. CASE Reset
    <3>1. sawSpeech' = FALSE /\ silenceFrames' = 0 /\ recent' = << >>
      BY <2>3 DEF Reset
    <3>2. recent' \in Seq(Frames) /\ Len(recent') = 0
      BY <3>1
    <3>3. SilenceCounted'
      BY <3>1 DEF SilenceCounted
    <3>4. silenceFrames' \in 0 .. SilenceFrames - 1 /\ Len(recent') <= SilenceFrames + 1
      BY <1>0, <3>1, <3>2
    <3> QED
      BY <3>1, <3>2, <3>3, <3>4
  <2> QED
    BY <2>1, <2>2, <2>3
<1>4. TurnTypeOK'
  BY <1>0, <1>1, <1>2, <1>3 DEF TurnTypeOK
<1> QED
  BY <1>2, <1>3, <1>4 DEF TurnInv

-----------------------------------------------------------------------------
(* The channel after its oldest event is gone: the others, still in order.  *)
LEMMA TailOfEvents ==
  ASSUME TurnInv, events # << >>
  PROVE  /\ Tail(events) \in Seq(Events!Items) /\ Head(events) \in Events!Items
         /\ Head(events) = events[1] /\ Len(events) \in Nat \ {0}
         /\ Len(Tail(events)) = Len(events) - 1
         /\ \A i \in 1 .. Len(events) - 1 : Tail(events)[i] = events[i + 1]
         /\ \A i \in 1 .. Len(events) : events[i].by = Audio /\ events[i].n \in 1 .. MaxEvents
<1>1. events \in Seq(Events!Items)
  BY DEF TurnInv, TurnTypeOK, Events!QueueTypeOK
<1>2. \A i \in 1 .. Len(events) : events[i] \in Events!Items
  BY <1>1
<1>3. \A i \in 1 .. Len(events) : events[i].by = Audio /\ events[i].n \in 1 .. MaxEvents
  BY <1>2 DEF Events!Items
<1> QED
  BY <1>1, <1>3

LEMMA TailOfEventsInOrder ==
  ASSUME TurnInv, events # << >>, events' = Tail(events)
  PROVE  Events!SentInOrder'
<1>1. /\ Len(events) \in Nat \ {0} /\ Len(events') = Len(events) - 1
      /\ \A i \in 1 .. Len(events) - 1 : events'[i] = events[i + 1]
  BY TailOfEvents
<1>2. ASSUME NEW i \in 1 .. Len(events'), NEW j \in 1 .. Len(events'), i < j,
             events'[i].by = events'[j].by
      PROVE  events'[i].n < events'[j].n
  <2>1. /\ i + 1 \in 1 .. Len(events) /\ j + 1 \in 1 .. Len(events) /\ i + 1 < j + 1
        /\ events'[i] = events[i + 1] /\ events'[j] = events[j + 1]
    BY <1>1, <1>2
  <2> QED
    BY <1>2, <2>1 DEF TurnInv, Events!SentInOrder
<1> QED
  BY <1>2 DEF Events!SentInOrder

(* The channel after an event newer than all of it was sent.                *)
LEMMA NewestSent ==
  ASSUME TurnInv, NEW m \in 1 .. MaxEvents,
         \A i \in 1 .. Len(events) : events[i].n < m,
         events' = Append(events, [by |-> Audio, n |-> m])
  PROVE  /\ events' \in Seq(Events!Items)
         /\ Len(events) \in Nat /\ Len(events') = Len(events) + 1
         /\ events'[Len(events')] = [by |-> Audio, n |-> m]
         /\ \A i \in 1 .. Len(events) : events'[i] = events[i]
         /\ Events!SentInOrder'
<1> DEFINE item == [by |-> Audio, n |-> m]
<1>1. events \in Seq(Events!Items) /\ item \in Events!Items
  BY DEF TurnInv, TurnTypeOK, Events!QueueTypeOK, Events!Items
<1>2. /\ events' \in Seq(Events!Items) /\ Len(events) \in Nat /\ Len(events') = Len(events) + 1
      /\ events'[Len(events')] = item
      /\ \A i \in 1 .. Len(events) : events'[i] = events[i]
  BY <1>1
<1>3. ASSUME NEW i \in 1 .. Len(events'), NEW j \in 1 .. Len(events'), i < j
      PROVE  events'[i].n < events'[j].n
  <2>1. i \in 1 .. Len(events)
    BY <1>2, <1>3
  <2>2. CASE j = Len(events')
    BY <1>2, <2>1, <2>2
  <2>3. CASE j # Len(events')
    <3>1. j \in 1 .. Len(events)
      BY <1>2, <2>3
    <3>2. events[i] \in Events!Items /\ events[j] \in Events!Items
      BY <1>1, <2>1, <3>1
    <3>3. events[i].by = events[j].by
      BY <3>2 DEF Events!Items
    <3> QED
      BY <1>2, <1>3, <2>1, <3>1, <3>3 DEF TurnInv, Events!SentInOrder
  <2> QED
    BY <2>2, <2>3
<1> QED
  BY <1>2, <1>3 DEF Events!SentInOrder

(* The event of the utterance's end, into the channel or next to it.        *)
LEMMA FireKeepsInv ==
  ASSUME TurnInv, Fire
  PROVE  TurnInv'
<1> USE TurnEndAssumption
<1>0. /\ events \in Seq(Events!Items) /\ Len(events) \in Nat
      /\ eventNo \in [{Audio} -> 0 .. MaxEvents] /\ eventNo[Audio] \in 0 .. MaxEvents
      /\ emission \in [{Audio} -> {"idle", "drop", "retry"}]
      /\ outdated \in SUBSET Events!Items /\ received \in 0 .. MaxEvents
  BY DEF TurnInv, TurnTypeOK, Events!QueueTypeOK
<1>1. /\ UNCHANGED <<resets, feeding, closing, turnCloses, received, eventsEnded>>
      /\ sawSpeech' = FALSE /\ silenceFrames' = 0 /\ recent' = << >>
  BY DEF Fire, closeVars
<1>2. SilenceCounted' /\ silenceFrames' \in 0 .. SilenceFrames - 1 /\ recent' \in Seq(Frames) /\ Len(recent') <= SilenceFrames + 1
  BY <1>1 DEF SilenceCounted
<1>3. /\ emission[Audio] = "idle" /\ eventNo[Audio] < MaxEvents
      /\ eventNo' = [eventNo EXCEPT ![Audio] = @ + 1] /\ outdated' = outdated
      /\ eventNo'[Audio] = eventNo[Audio] + 1 /\ eventNo'[Audio] \in 1 .. MaxEvents
      /\ \A i \in 1 .. Len(events) : events[i].n < eventNo'[Audio]
      /\ received < eventNo'[Audio]
  <2>1. \A i \in 1 .. Len(events) : events[i] \in Events!Items
    BY <1>0
  <2> QED
    BY <1>0, <2>1 DEF Fire, Events!Offer, TurnInv, BoundaryUnderway, Events!Items
<1>4. CASE Events!HasRoom
  <2>0. /\ events' = Append(events, [by |-> Audio, n |-> eventNo'[Audio]])
        /\ emission' = emission /\ Len(events) < EventsSize
    BY <1>0, <1>3, <1>4 DEF Fire, Events!Offer, Events!HasRoom
  <2>1. /\ events' \in Seq(Events!Items)
        /\ Len(events) \in Nat /\ Len(events') = Len(events) + 1
        /\ events'[Len(events')] = [by |-> Audio, n |-> eventNo'[Audio]]
        /\ \A i \in 1 .. Len(events) : events'[i] = events[i]
        /\ Events!SentInOrder'
    BY <1>3, <2>0, NewestSent
  <2>2. TurnTypeOK'
    <3>1. Events!QueueTypeOK'
      BY <1>0, <1>3, <2>0, <2>1 DEF Events!QueueTypeOK
    <3> QED
      BY <1>1, <1>2, <3>1 DEF TurnInv, TurnTypeOK
  <2>3. NewestBoundaryKept'
    BY <1>0, <1>1, <2>0, <2>1 DEF NewestBoundaryKept, Events!Newest
  <2>4. BoundaryUnderway'
    <3>1. ASSUME NEW i \in 1 .. Len(events')
          PROVE  received < events'[i].n /\ events'[i].n <= eventNo'[Audio]
      <4>1. CASE i = Len(events')
        BY <1>0, <1>3, <2>1, <4>1
      <4>2. CASE i # Len(events')
        <5>1. i \in 1 .. Len(events) /\ events[i] \in Events!Items
          BY <1>0, <2>1, <4>2
        <5> QED
          BY <1>0, <1>3, <2>1, <5>1, SMTT(30) DEF TurnInv, BoundaryUnderway, Events!Items
      <4> QED
        BY <4>1, <4>2
    <3> QED
      BY <1>0, <1>1, <1>3, <2>0, <3>1 DEF BoundaryUnderway
  <2> QED
    BY <1>2, <2>1, <2>2, <2>3, <2>4 DEF TurnInv
<1>5. CASE ~Events!HasRoom
  <2>0. events' = events /\ emission' = [emission EXCEPT ![Audio] = "drop"]
    BY <1>5 DEF Fire, Events!Offer
  <2>1. TurnTypeOK'
    <3>1. Events!QueueTypeOK'
      BY <1>0, <1>3, <2>0 DEF TurnInv, TurnTypeOK, Events!QueueTypeOK
    <3> QED
      BY <1>1, <1>2, <3>1 DEF TurnInv, TurnTypeOK
  <2>2. NewestBoundaryKept' /\ Events!SentInOrder'
    BY <1>0, <1>1, <2>0 DEF TurnInv, NewestBoundaryKept, Events!SentInOrder
  <2>3. BoundaryUnderway'
    <3>1. \A i \in 1 .. Len(events) : events[i].n < eventNo'[Audio] => events[i].n <= eventNo'[Audio]
      <4>1. \A i \in 1 .. Len(events) : events[i] \in Events!Items
        BY <1>0
      <4> QED
        BY <1>0, <1>3, <4>1 DEF Events!Items
    <3> QED
      BY <1>0, <1>1, <1>3, <2>0, <3>1 DEF TurnInv, BoundaryUnderway
  <2> QED
    BY <1>2, <2>1, <2>2, <2>3 DEF TurnInv
<1> QED
  BY <1>4, <1>5

(* The second and the third select.                                         *)
LEMMA DeliverEventKeepsInv ==
  ASSUME TurnInv, DeliverEvent
  PROVE  TurnInv'
<1> USE TurnEndAssumption
<1>0. /\ events \in Seq(Events!Items) /\ Len(events) \in Nat
      /\ eventNo \in [{Audio} -> 0 .. MaxEvents] /\ eventNo[Audio] \in 0 .. MaxEvents
      /\ emission \in [{Audio} -> {"idle", "drop", "retry"}]
      /\ outdated \in SUBSET Events!Items /\ received \in 0 .. MaxEvents
  BY DEF TurnInv, TurnTypeOK, Events!QueueTypeOK
<1>1. UNCHANGED <<sawSpeech, silenceFrames, recent, resets, feeding, closing, turnCloses, received, eventsEnded>>
  BY DEF DeliverEvent, closeVars, trackVars
<1>2. SilenceCounted'
  BY <1>1 DEF TurnInv, SilenceCounted
<1>3. CASE Events!DropHead(Audio)
  <2>0. /\ emission[Audio] = "drop" /\ emission' = [emission EXCEPT ![Audio] = "retry"]
        /\ eventNo' = eventNo
    BY <1>3 DEF Events!DropHead
  <2>1. CASE events = << >>
    <3>0. events' = << >> /\ outdated' = outdated
      BY <1>3, <2>1 DEF Events!DropHead
    <3> QED
      BY <1>0, <1>1, <1>2, <2>0, <2>1, <3>0
      DEF TurnInv, TurnTypeOK, Events!QueueTypeOK, NewestBoundaryKept, Events!SentInOrder, BoundaryUnderway
  <2>2. CASE events # << >>
    <3>0. events' = Tail(events) /\ outdated' = outdated \cup {Head(events)}
      BY <1>3, <2>2 DEF Events!DropHead
    <3>1. /\ events' \in Seq(Events!Items) /\ Head(events) \in Events!Items
          /\ Len(events) \in Nat \ {0} /\ Len(events') = Len(events) - 1
          /\ \A i \in 1 .. Len(events') : events'[i] = events[i + 1]
      BY <2>2, <3>0, TailOfEvents
    <3>2. TurnTypeOK'
      BY <1>0, <1>1, <2>0, <3>0, <3>1 DEF TurnInv, TurnTypeOK, Events!QueueTypeOK
    <3>3. Events!SentInOrder'
      BY <2>2, <3>0, TailOfEventsInOrder
    <3>4. NewestBoundaryKept'
      BY <1>0, <1>1, <2>0 DEF NewestBoundaryKept
    <3>5. BoundaryUnderway'
      <4>1. \A i \in 1 .. Len(events') : /\ i + 1 \in 1 .. Len(events)
                                         /\ events'[i] = events[i + 1]
        BY <3>1
      <4>2. /\ received <= eventNo[Audio] /\ received < eventNo[Audio]
            /\ \A i \in 1 .. Len(events) :
                 received < events[i].n /\ events[i].n < eventNo[Audio]
                 /\ events[i].n <= eventNo[Audio]
        BY <2>0 DEF TurnInv, BoundaryUnderway
      <4>3. Len(events') < EventsSize
        BY <3>1 DEF TurnInv, TurnTypeOK, Events!QueueTypeOK
      <4> QED
        BY <1>1, <2>0, <4>1, <4>2, <4>3 DEF BoundaryUnderway
    <3> QED
      BY <1>2, <3>2, <3>3, <3>4, <3>5 DEF TurnInv
  <2> QED
    BY <2>1, <2>2
<1>4. CASE Events!Retry(Audio)
  <2>0. /\ emission[Audio] = "retry" /\ emission' = [emission EXCEPT ![Audio] = "idle"]
        /\ eventNo' = eventNo /\ Len(events) < EventsSize
        /\ events' = Append(events, [by |-> Audio, n |-> eventNo[Audio]])
        /\ outdated' = outdated /\ received < eventNo[Audio] /\ eventNo[Audio] \in 1 .. MaxEvents
        /\ \A i \in 1 .. Len(events) : events[i].n < eventNo[Audio]
    BY <1>0, <1>4 DEF Events!Retry, Events!HasRoom, Events!Newest, TurnInv, BoundaryUnderway
  <2>1. /\ events' \in Seq(Events!Items)
        /\ Len(events') = Len(events) + 1
        /\ events'[Len(events')] = [by |-> Audio, n |-> eventNo[Audio]]
        /\ \A i \in 1 .. Len(events) : events'[i] = events[i]
        /\ Events!SentInOrder'
    BY <2>0, NewestSent
  <2>2. TurnTypeOK'
    BY <1>0, <1>1, <2>0, <2>1 DEF TurnInv, TurnTypeOK, Events!QueueTypeOK
  <2>3. NewestBoundaryKept'
    BY <1>0, <1>1, <2>0, <2>1 DEF NewestBoundaryKept, Events!Newest
  <2>4. BoundaryUnderway'
    <3>1. ASSUME NEW i \in 1 .. Len(events')
          PROVE  received < events'[i].n /\ events'[i].n <= eventNo'[Audio]
      <4>1. CASE i = Len(events')
        BY <1>0, <2>0, <2>1, <4>1
      <4>2. CASE i # Len(events')
        <5>1. i \in 1 .. Len(events)
          BY <1>0, <2>1, <4>2
        <5> QED
          BY <2>0, <2>1, <5>1 DEF TurnInv, BoundaryUnderway
      <4> QED
        BY <4>1, <4>2
    <3> QED
      BY <1>0, <1>1, <2>0, <3>1 DEF BoundaryUnderway
  <2> QED
    BY <1>2, <2>1, <2>2, <2>3, <2>4 DEF TurnInv
<1> QED
  BY <1>3, <1>4 DEF DeliverEvent

(* A receive: the boundary received is the oldest, older than what is left. *)
LEMMA ConsumeEventKeepsInv ==
  ASSUME TurnInv, ConsumeEvent
  PROVE  TurnInv'
<1> USE TurnEndAssumption
<1>0. /\ events # << >> /\ events' = Tail(events) /\ received' = Head(events).n
      /\ UNCHANGED <<eventNo, emission, outdated, sawSpeech, silenceFrames, recent, resets, feeding,
                     closing, turnCloses, eventsEnded>>
  BY DEF ConsumeEvent, Events!Take, closeVars, trackVars
<1>1. /\ events' \in Seq(Events!Items) /\ received' = events[1].n
      /\ Len(events) \in Nat \ {0} /\ Len(events') = Len(events) - 1
      /\ \A i \in 1 .. Len(events') : events'[i] = events[i + 1]
      /\ \A i \in 1 .. Len(events) : events[i].by = Audio /\ events[i].n \in 1 .. MaxEvents
  BY <1>0, TailOfEvents
<1>2. \A i \in 2 .. Len(events) : events[1].n < events[i].n
  <2>1. \A i, j \in 1 .. Len(events) :
          (i < j /\ events[i].by = events[j].by) => events[i].n < events[j].n
    BY DEF TurnInv, Events!SentInOrder
  <2>2. TAKE i \in 2 .. Len(events)
  <2>3. 1 \in 1 .. Len(events) /\ i \in 1 .. Len(events) /\ 1 < i
    BY <1>1
  <2> QED
    BY <1>1, <2>1, <2>3
<1>3. TurnTypeOK'
  BY <1>0, <1>1 DEF TurnInv, TurnTypeOK, Events!QueueTypeOK
<1>4. Events!SentInOrder'
  BY <1>0, TailOfEventsInOrder
<1>5. SilenceCounted'
  BY <1>0 DEF TurnInv, SilenceCounted
<1>6. NewestBoundaryKept'
  <2>1. SUFFICES ASSUME emission[Audio] = "idle", eventNo[Audio] > 0
                 PROVE  \/ received' = eventNo[Audio]
                        \/ events' # << >> /\ events'[Len(events')] = Events!Newest(Audio)
    BY <1>0 DEF NewestBoundaryKept, Events!Newest
  <2>2. /\ events[Len(events)].n = eventNo[Audio]
        /\ events[Len(events)] = Events!Newest(Audio)
    <3>1. received < events[1].n /\ events[1].n <= eventNo[Audio]
      BY <1>1 DEF TurnInv, BoundaryUnderway
    <3>2. received # eventNo[Audio]
      BY <1>1, <3>1 DEF TurnInv, TurnTypeOK, Events!QueueTypeOK
    <3> QED
      BY <2>1, <3>2 DEF TurnInv, NewestBoundaryKept, Events!Newest
  <2>3. CASE Len(events) = 1
    BY <1>1, <2>2, <2>3
  <2>4. CASE Len(events) > 1
    <3>1. Len(events') \in 1 .. Len(events')
      BY <1>1, <2>4
    <3>2. events'[Len(events')] = events[Len(events)]
      BY <1>1, <3>1
    <3> QED
      BY <1>1, <2>2, <3>1, <3>2
  <2> QED
    BY <1>1, <2>3, <2>4
<1>7. BoundaryUnderway'
  <2>1. \A i \in 1 .. Len(events') : events'[i] = events[i + 1] /\ i + 1 \in 2 .. Len(events)
    BY <1>1
  <2>2. 1 \in 1 .. Len(events)
    BY <1>1
  <2>3. \A i \in 1 .. Len(events') : received' < events'[i].n
    BY <1>1, <1>2, <2>1
  <2>4. \A i \in 1 .. Len(events') : events'[i].n <= eventNo[Audio]
    BY <1>1, <2>1, SMTT(30) DEF TurnInv, BoundaryUnderway
  <2>5. received' <= eventNo[Audio] /\ (emission[Audio] # "idle" => received' < eventNo[Audio])
    BY <1>1, <2>2 DEF TurnInv, BoundaryUnderway
  <2>6. emission[Audio] # "idle" => \A i \in 1 .. Len(events') : events'[i].n < eventNo[Audio]
    BY <1>1, <2>1, SMTT(30) DEF TurnInv, BoundaryUnderway
  <2>7. emission[Audio] = "retry" => Len(events') < EventsSize
    BY <1>1 DEF TurnInv, BoundaryUnderway
  <2> QED
    BY <1>0, <2>3, <2>4, <2>5, <2>6, <2>7 DEF BoundaryUnderway
<1> QED
  BY <1>3, <1>4, <1>5, <1>6, <1>7 DEF TurnInv

(* The end of the call and of the consumer touch neither.                   *)
LEMMA EndKeepsInv ==
  ASSUME TurnInv, CallEnds \/ EventsEnd \/ \E c \in Closers : Close(c)
  PROVE  TurnInv'
<1> USE DEF eventVars, trackVars
<1>1. UNCHANGED <<events, eventNo, emission, outdated, sawSpeech, silenceFrames, recent, resets, received>>
  BY DEF CallEnds, EventsEnd, Close
<1>2. /\ feeding' \in BOOLEAN /\ eventsEnded' \in BOOLEAN /\ closing' \subseteq Closers
      /\ turnCloses' \in 0 .. 1
  <2>0. /\ feeding \in BOOLEAN /\ eventsEnded \in BOOLEAN /\ closing \subseteq Closers
        /\ turnCloses \in 0 .. 1
    BY DEF TurnInv, TurnTypeOK
  <2>1. CASE CallEnds
    BY <2>0, <2>1 DEF CallEnds
  <2>2. CASE EventsEnd
    BY <2>0, <2>2 DEF EventsEnd, closeVars
  <2>3. CASE \E c \in Closers : Close(c)
    BY <2>0, <2>3 DEF Close
  <2> QED
    BY <2>1, <2>2, <2>3
<1>3. TurnTypeOK'
  <2>1. Events!QueueTypeOK'
    BY <1>1 DEF TurnInv, TurnTypeOK, Events!QueueTypeOK
  <2> QED
    BY <1>1, <1>2, <2>1 DEF TurnInv, TurnTypeOK
<1>4. NewestBoundaryKept' /\ Events!SentInOrder' /\ BoundaryUnderway' /\ SilenceCounted'
  BY <1>1 DEF TurnInv, NewestBoundaryKept, Events!Newest, Events!SentInOrder, BoundaryUnderway, SilenceCounted
<1> QED
  BY <1>3, <1>4 DEF TurnInv

LEMMA TurnStepInv == TurnInv /\ [TurnNext]_turnVars => TurnInv'
<1> SUFFICES ASSUME TurnInv, [TurnNext]_turnVars PROVE TurnInv'
  OBVIOUS
<1>1. CASE UNCHANGED turnVars
  BY <1>1 DEF turnVars, eventVars, trackVars, closeVars, TurnInv, TurnTypeOK, Events!QueueTypeOK,
              NewestBoundaryKept, Events!Newest, Events!SentInOrder, BoundaryUnderway, SilenceCounted
<1>2. CASE TurnNext
  BY <1>2, TrackKeepsInv, FireKeepsInv, DeliverEventKeepsInv, ConsumeEventKeepsInv, EndKeepsInv DEF TurnNext
<1> QED
  BY <1>1, <1>2

(* Turn boundaries, for any channel size and whatever the consumer does: the*)
(* newest was received or is waiting, they are in order, and the second try of*)
(* a send to the full channel finds room.                                   *)
THEOREM TurnInvariant == TurnSpec => []TurnInv
<1> QED
  BY TurnInitInv, TurnStepInv, PTL DEF TurnSpec

-----------------------------------------------------------------------------
(* An event is sent by Fire alone.                                          *)
LEMMA FireAfterUtterance ==
  TurnInv /\ [TurnNext]_turnVars =>
    (eventNo' # eventNo =>
       Remember("silence") = <<"speech">> \o [i \in 1 .. SilenceFrames |-> "silence"])
<1> SUFFICES ASSUME TurnInv, [TurnNext]_turnVars, eventNo' # eventNo
             PROVE  Remember("silence") = <<"speech">> \o [i \in 1 .. SilenceFrames |-> "silence"]
  OBVIOUS
<1>1. Fire
  BY DEF TurnNext, turnVars, eventVars, ObserveSpeech, ObserveSilence, DeliverEvent, Reset, CallEnds, Close,
         ConsumeEvent, EventsEnd, Events!DropHead, Events!Retry, Events!Take
<1>2. /\ TurnTypeOK /\ SilenceCounted /\ silenceFrames \in 0 .. SilenceFrames - 1
      /\ recent \in Seq(Frames) /\ Len(recent) \in Nat /\ Len(recent) <= SilenceFrames + 1
      /\ SilenceFrames \in Nat \ {0} /\ "silence" \in Frames /\ "speech" \in Frames
  BY TurnEndAssumption DEF TurnInv, TurnTypeOK, Frames
<1>3. sawSpeech /\ silenceFrames = SilenceFrames - 1
  BY <1>1, <1>2 DEF Fire, UtteranceOver
<1>4. /\ Len(recent) >= SilenceFrames
      /\ recent[Len(recent) - (SilenceFrames - 1)] = "speech"
      /\ \A k \in 0 .. SilenceFrames - 2 : recent[Len(recent) - k] = "silence"
  BY <1>2, <1>3 DEF SilenceCounted
<1> DEFINE r == Remember("silence")
           u == [i \in 1 .. SilenceFrames |-> "silence"]
           t == <<"speech">> \o u
<1>5. /\ r \in Seq(Frames) /\ Len(r) = SilenceFrames + 1 /\ r[Len(r)] = "silence"
      /\ \A k \in 1 .. Len(r) - 1 : r[Len(r) - k] = recent[Len(recent) - (k - 1)]
  BY <1>2, <1>4, Remembered
<1>6. /\ t \in Seq(Frames) /\ Len(t) = SilenceFrames + 1 /\ t[1] = "speech"
      /\ \A i \in 2 .. SilenceFrames + 1 : t[i] = "silence"
  <2>1. u \in Seq(Frames) /\ Len(u) = SilenceFrames /\ \A i \in 1 .. SilenceFrames : u[i] = "silence"
    BY <1>2
  <2>2. <<"speech">> \in Seq(Frames) /\ Len(<<"speech">>) = 1 /\ <<"speech">>[1] = "speech"
    BY <1>2
  <2> HIDE DEF u
  <2> QED
    BY <1>2, <2>1, <2>2
<1> HIDE DEF r, t
<1>7. \A i \in 1 .. SilenceFrames + 1 : r[i] = t[i]
  <2>1. ASSUME NEW i \in 1 .. SilenceFrames + 1 PROVE r[i] = t[i]
    <3>1. CASE i = SilenceFrames + 1
      BY <1>2, <1>5, <1>6, <3>1
    <3>2. CASE i # SilenceFrames + 1
      <4>1. /\ SilenceFrames + 1 - i \in 1 .. SilenceFrames
            /\ SilenceFrames + 1 - (SilenceFrames + 1 - i) = i
        BY <1>2, <3>2
      <4>2. r[i] = recent[Len(recent) - (SilenceFrames - i)]
        <5> DEFINE k == SilenceFrames + 1 - i
        <5>1. k \in 1 .. Len(r) - 1 /\ Len(r) - k = i /\ k - 1 = SilenceFrames - i
          BY <1>2, <1>5, <4>1
        <5>2. r[Len(r) - k] = recent[Len(recent) - (k - 1)]
          BY <1>5, <5>1
        <5> QED
          BY <5>1, <5>2
      <4>3. CASE i = 1
        BY <1>2, <1>4, <1>6, <4>2, <4>3
      <4>4. CASE i # 1
        <5>1. SilenceFrames - i \in 0 .. SilenceFrames - 2 /\ i \in 2 .. SilenceFrames + 1
          BY <1>2, <3>2, <4>4
        <5> QED
          BY <1>4, <1>6, <4>2, <5>1
      <4> QED
        BY <4>3, <4>4
    <3> QED
      BY <3>1, <3>2
  <2> QED
    BY <2>1
<1>8. r = t
  BY <1>5, <1>6, <1>7
<1> QED
  BY <1>8 DEF r, t

(* An event is fired only after speech and exactly SilenceFrames frames of  *)
(* silence of the same stream, none of them counted twice.                  *)
THEOREM EventsFollowUtterances == TurnSpec => EventAfterUtterance
<1>1. TurnInv /\ [TurnNext]_turnVars =>
        [eventNo' # eventNo =>
           Remember("silence") = <<"speech">> \o [i \in 1 .. SilenceFrames |-> "silence"]]_turnVars
  BY FireAfterUtterance
<1> QED
  BY <1>1, TurnInvariant, PTL DEF TurnSpec, EventAfterUtterance

-----------------------------------------------------------------------------
(* ReconnectClient.                                                         *)

(* t is s without its k-th element.                                         *)
Without(t, s, k) ==
  /\ Len(t) = Len(s) - 1
  /\ \A i \in 1 .. Len(t) : t[i] = s[IF i < k THEN i ELSE i + 1]

LEMMA UpwardsAppend ==
  ASSUME NEW s \in Seq(Items), NEW x \in Items, Upwards(s),
         \A i \in 1 .. Len(s) : s[i].by = x.by => s[i].n < x.n
  PROVE  /\ Append(s, x) \in Seq(Items) /\ Upwards(Append(s, x))
         /\ Len(Append(s, x)) = Len(s) + 1 /\ Append(s, x)[Len(s) + 1] = x
         /\ \A i \in 1 .. Len(s) : Append(s, x)[i] = s[i]
         /\ ToSet(Append(s, x)) = ToSet(s) \cup {x}
<1> DEFINE t == Append(s, x)
<1>1. /\ t \in Seq(Items) /\ Len(t) = Len(s) + 1 /\ t[Len(s) + 1] = x /\ Len(s) \in Nat
      /\ \A i \in 1 .. Len(s) : t[i] = s[i]
      /\ DOMAIN t = 1 .. Len(s) + 1 /\ DOMAIN s = 1 .. Len(s)
  OBVIOUS
<1> HIDE DEF t
<1>2. ASSUME NEW i \in 1 .. Len(t), NEW j \in 1 .. Len(t), i < j, t[i].by = t[j].by
      PROVE  t[i].n < t[j].n
  <2>1. i \in 1 .. Len(s) /\ t[i] = s[i]
    BY <1>1, <1>2
  <2>2. CASE j = Len(s) + 1
    BY <1>1, <1>2, <2>1, <2>2
  <2>3. CASE j # Len(s) + 1
    <3>1. j \in 1 .. Len(s) /\ t[j] = s[j]
      BY <1>1, <2>3
    <3> QED
      BY <1>2, <2>1, <3>1 DEF Upwards
  <2> QED
    BY <2>2, <2>3
<1>3. Upwards(t)
  BY <1>2 DEF Upwards
<1>4. ToSet(t) = ToSet(s) \cup {x}
  <2>1. 1 .. Len(s) + 1 = (1 .. Len(s)) \cup {Len(s) + 1}
    BY <1>1
  <2> QED
    BY <1>1, <2>1 DEF ToSet
<1> QED
  BY <1>1, <1>3, <1>4 DEF t

LEMMA UpwardsWithout ==
  ASSUME NEW s \in Seq(Items), NEW t \in Seq(Items), NEW k \in 1 .. Len(s), Without(t, s, k), Upwards(s)
  PROVE  /\ Upwards(t) /\ ToSet(s) \subseteq ToSet(t) \cup {s[k]}
         /\ \A i \in 1 .. Len(t) : \E j \in 1 .. Len(s) : t[i] = s[j]
<1>1. /\ Len(s) \in Nat \ {0} /\ Len(t) = Len(s) - 1 /\ k \in 1 .. Len(s)
      /\ DOMAIN t = 1 .. Len(t) /\ DOMAIN s = 1 .. Len(s)
  BY DEF Without
<1> DEFINE up(i) == IF i < k THEN i ELSE i + 1
<1>2. \A i \in 1 .. Len(t) : up(i) \in 1 .. Len(s) /\ t[i] = s[up(i)]
  BY <1>1 DEF Without
<1>3. \A i, j \in 1 .. Len(t) : i < j => up(i) < up(j)
  BY <1>1
<1>4. \A i \in 1 .. Len(s) : i # k => \E j \in 1 .. Len(t) : up(j) = i
  <2>1. ASSUME NEW i \in 1 .. Len(s), i # k PROVE \E j \in 1 .. Len(t) : up(j) = i
    <3>1. CASE i < k
      BY <1>1, <3>1, SMTT(30)
    <3>2. CASE ~(i < k)
      <4>1. i - 1 \in 1 .. Len(t) /\ up(i - 1) = i
        BY <1>1, <2>1, <3>2
      <4> QED
        BY <4>1
    <3> QED
      BY <3>1, <3>2
  <2> QED
    BY <2>1
<1> HIDE DEF up
<1>5. Upwards(t)
  BY <1>2, <1>3 DEF Upwards
<1>6. ToSet(s) \subseteq ToSet(t) \cup {s[k]}
  <2>1. ASSUME NEW i \in 1 .. Len(s) PROVE s[i] \in ToSet(t) \cup {s[k]}
    <3>1. CASE i = k
      BY <3>1
    <3>2. CASE i # k
      <4>1. PICK j \in 1 .. Len(t) : up(j) = i
        BY <1>4, <3>2
      <4>2. t[j] = s[i]
        BY <1>2, <4>1
      <4> QED
        BY <1>1, <4>2 DEF ToSet
    <3> QED
      BY <3>1, <3>2
  <2> QED
    BY <1>1, <2>1 DEF ToSet
<1> QED
  BY <1>2, <1>5, <1>6

-----------------------------------------------------------------------------
(* Two pipes, one after the other.                                          *)
LEMMA Joined ==
  ASSUME NEW d \in Seq(Items), NEW q \in Seq(Items)
  PROVE  /\ d \o q \in Seq(Items) /\ Len(d \o q) = Len(d) + Len(q)
         /\ \A i \in 1 .. Len(d) : (d \o q)[i] = d[i]
         /\ \A i \in 1 .. Len(q) : (d \o q)[Len(d) + i] = q[i]
<1>1. /\ d \o q \in Seq(Items) /\ Len(d \o q) = Len(d) + Len(q)
      /\ Len(d) \in Nat /\ Len(q) \in Nat
  OBVIOUS
<1>2. \A i \in 1 .. Len(d) + Len(q) : (d \o q)[i] = IF i <= Len(d) THEN d[i] ELSE q[i - Len(d)]
  OBVIOUS
<1>3. \A i \in 1 .. Len(d) : (d \o q)[i] = d[i]
  BY <1>1, <1>2
<1>4. ASSUME NEW i \in 1 .. Len(q) PROVE (d \o q)[Len(d) + i] = q[i]
  <2>1. /\ Len(d) + i \in 1 .. Len(d) + Len(q) /\ ~(Len(d) + i <= Len(d))
        /\ Len(d) + i - Len(d) = i
    BY <1>1
  <2> QED
    BY <1>2, <2>1
<1> QED
  BY <1>1, <1>3, <1>4

LEMMA PipeShape ==
  ASSUME NEW d \in Seq(Items), NEW h \in Seq(Items), NEW q \in Seq(Items)
  PROVE  /\ d \o h \o q \in Seq(Items) /\ Len(d \o h \o q) = Len(d) + Len(h) + Len(q)
         /\ \A i \in 1 .. Len(d) : (d \o h \o q)[i] = d[i]
         /\ \A i \in 1 .. Len(h) : (d \o h \o q)[Len(d) + i] = h[i]
         /\ \A i \in 1 .. Len(q) : (d \o h \o q)[Len(d) + Len(h) + i] = q[i]
<1> DEFINE e == d \o h
<1>1. /\ e \in Seq(Items) /\ Len(e) = Len(d) + Len(h)
      /\ \A i \in 1 .. Len(d) : e[i] = d[i]
      /\ \A i \in 1 .. Len(h) : e[Len(d) + i] = h[i]
  OBVIOUS
<1> HIDE DEF e
<1>2. /\ e \o q \in Seq(Items) /\ Len(e \o q) = Len(e) + Len(q)
      /\ \A i \in 1 .. Len(e) : (e \o q)[i] = e[i]
      /\ \A i \in 1 .. Len(q) : (e \o q)[Len(e) + i] = q[i]
  BY <1>1, Joined
<1>3. /\ Len(d) \in Nat /\ Len(h) \in Nat /\ Len(q) \in Nat
  OBVIOUS
<1>4. \A i \in 1 .. Len(d) : (e \o q)[i] = d[i]
  BY <1>1, <1>2, <1>3
<1>5. \A i \in 1 .. Len(h) : (e \o q)[Len(d) + i] = h[i]
  <2>1. \A i \in 1 .. Len(h) : Len(d) + i \in 1 .. Len(e)
    BY <1>1, <1>3
  <2> QED
    BY <1>1, <1>2, <2>1
<1>6. \A i \in 1 .. Len(q) : (e \o q)[Len(d) + Len(h) + i] = q[i]
  BY <1>1, <1>2
<1> QED
  BY <1>1, <1>2, <1>4, <1>5, <1>6 DEF e

(* Two pipes of the same length, part by part the same, are the same.       *)
LEMMA SameFrames ==
  ASSUME NEW s \in Seq(Items), NEW t \in Seq(Items), Len(s) = Len(t),
         \A i \in 1 .. Len(s) : s[i] = t[i]
  PROVE  s = t
  OBVIOUS

(* A frame at the end of the queue is at the end of the pipe.               *)
LEMMA PipeAppend ==
  ASSUME NEW d \in Seq(Items), NEW h \in Seq(Items), NEW q \in Seq(Items), NEW x \in Items
  PROVE  d \o h \o Append(q, x) = Append(d \o h \o q, x)
<1> DEFINE e == d \o h
<1>1. e \in Seq(Items) /\ Len(e) \in Nat /\ Len(q) \in Nat
  OBVIOUS
<1> HIDE DEF e
<1>2. /\ Append(q, x) \in Seq(Items) /\ Len(Append(q, x)) = Len(q) + 1
      /\ (\A i \in 1 .. Len(q) : Append(q, x)[i] = q[i]) /\ Append(q, x)[Len(q) + 1] = x
  OBVIOUS
<1>3. e \o Append(q, x) = Append(e \o q, x)
  <2> DEFINE l == e \o Append(q, x)
             f == e \o q
  <2>1. /\ f \in Seq(Items) /\ Len(f) = Len(e) + Len(q)
        /\ \A i \in 1 .. Len(e) : f[i] = e[i]
        /\ \A i \in 1 .. Len(q) : f[Len(e) + i] = q[i]
    BY <1>1
  <2>2. /\ l \in Seq(Items) /\ Len(l) = Len(e) + Len(q) + 1
        /\ \A i \in 1 .. Len(e) : l[i] = e[i]
        /\ \A i \in 1 .. Len(q) + 1 : l[Len(e) + i] = Append(q, x)[i]
    BY <1>1, <1>2
  <2> HIDE DEF l, f
  <2>3. /\ Append(f, x) \in Seq(Items) /\ Len(Append(f, x)) = Len(f) + 1
        /\ \A i \in 1 .. Len(f) : Append(f, x)[i] = f[i]
        /\ Append(f, x)[Len(f) + 1] = x
    BY <2>1
  <2>4. ASSUME NEW i \in 1 .. Len(l) PROVE l[i] = Append(f, x)[i]
    <3>1. CASE i \in 1 .. Len(e)
      BY <1>1, <2>1, <2>2, <2>3, <3>1
    <3>2. CASE i = Len(e) + Len(q) + 1
      <4>1. Len(q) + 1 \in 1 .. Len(q) + 1 /\ i = Len(e) + (Len(q) + 1)
        BY <1>1, <3>2
      <4>2. l[i] = x
        BY <1>1, <1>2, <2>2, <4>1
      <4> QED
        BY <2>1, <2>3, <3>2, <4>2
    <3>3. CASE i \notin 1 .. Len(e) /\ i # Len(e) + Len(q) + 1
      <4>1. i - Len(e) \in 1 .. Len(q) /\ i = Len(e) + (i - Len(e)) /\ i \in 1 .. Len(f)
        BY <1>1, <2>1, <2>2, <3>3
      <4>2. l[i] = q[i - Len(e)] /\ f[i] = q[i - Len(e)]
        BY <1>1, <1>2, <2>1, <2>2, <4>1
      <4> QED
        BY <2>3, <4>1, <4>2
    <3> QED
      BY <3>1, <3>2, <3>3
  <2>5. l = Append(f, x)
    BY <2>1, <2>2, <2>3, <2>4, SameFrames
  <2> QED
    BY <2>5 DEF l, f
<1> QED
  BY <1>3 DEF e

LEMMA PipeTyped ==
  ASSUME ClientTypeOK
  PROVE  /\ delivered \in Seq(Items) /\ Held \in Seq(Items) /\ queue \in Seq(Items)
         /\ Pipe \in Seq(Items) /\ Len(Pipe) = Len(delivered) + Len(Held) + Len(queue)
         /\ \A i \in 1 .. Len(Pipe) : Pipe[i] \in Items /\ Pipe[i].by \in Producers /\ Pipe[i].n \in 1 .. MaxItems
<1>1. delivered \in Seq(Items) /\ queue \in Seq(Items) /\ Held \in Seq(Items)
  <2>1. CASE writing = NoFrame
    <3>1. Held = << >>
      BY <2>1 DEF Held
    <3> QED
      BY <3>1 DEF ClientTypeOK, QueueTypeOK
  <2>2. CASE writing # NoFrame
    <3>1. Held = <<writing>> /\ writing \in Items
      BY <2>2 DEF Held, ClientTypeOK
    <3> QED
      BY <3>1 DEF ClientTypeOK, QueueTypeOK
  <2> QED
    BY <2>1, <2>2
<1>2. Pipe \in Seq(Items) /\ Len(Pipe) = Len(delivered) + Len(Held) + Len(queue)
  BY <1>1, PipeShape DEF Pipe
<1>3. \A i \in 1 .. Len(Pipe) : Pipe[i] \in Items
  BY <1>2
<1> QED
  BY <1>1, <1>2, <1>3 DEF Items

(* A pipe from which a frame went, and what else is recorded of it.         *)
LEMMA FrameGone ==
  ASSUME ClientInv, Pipe' \in Seq(Items), NEW k \in 1 .. Len(Pipe), Without(Pipe', Pipe, k),
         offered' = offered, \A p \in Producers : (step'[p] = "idle") = (step[p] = "idle"),
         dropped \cup broken \cup {Pipe[k]} \subseteq dropped' \cup broken',
         (loop = "write" <=> writing # NoFrame)'
  PROVE  (DeliveredInOrder /\ FramesAccounted /\ OnlySettled)'
<1>1. Pipe \in Seq(Items) /\ \A i \in 1 .. Len(Pipe) : Pipe[i].by \in Producers
  BY PipeTyped DEF ClientInv
<1>2. /\ Upwards(Pipe') /\ ToSet(Pipe) \subseteq ToSet(Pipe') \cup {Pipe[k]}
      /\ \A i \in 1 .. Len(Pipe') : \E j \in 1 .. Len(Pipe) : Pipe'[i] = Pipe[j]
  BY <1>1, UpwardsWithout DEF ClientInv, DeliveredInOrder
<1>3. \A p \in Producers : Settled(p)' = Settled(p)
  BY DEF Settled
<1>4. FramesAccounted'
  BY <1>2, <1>3 DEF ClientInv, FramesAccounted
<1>5. OnlySettled'
  BY <1>1, <1>2, <1>3 DEF ClientInv, OnlySettled
<1> QED
  BY <1>2, <1>4, <1>5 DEF DeliveredInOrder, Upwards

(* The same pipe.                                                           *)
LEMMA PipeKept ==
  ASSUME ClientInv, Pipe' = Pipe, UNCHANGED <<offered, step, dropped, broken>>,
         (loop = "write" <=> writing # NoFrame)'
  PROVE  (DeliveredInOrder /\ FramesAccounted /\ OnlySettled)'
<1>1. \A p : Settled(p)' = Settled(p)
  BY DEF Settled
<1>2. DeliveredInOrder'
  BY DEF ClientInv, DeliveredInOrder, Upwards
<1>3. FramesAccounted'
  BY <1>1 DEF ClientInv, FramesAccounted
<1>4. OnlySettled'
  BY <1>1 DEF ClientInv, OnlySettled
<1> QED
  BY <1>2, <1>3, <1>4

(* A new frame of p at the end of the pipe.                                 *)
LEMMA FrameSent ==
  ASSUME ClientInv, NEW p \in Producers, NEW m \in 1 .. MaxItems,
         queue' = Append(queue, [by |-> p, n |-> m]),
         UNCHANGED <<clientVars, dropped>>,
         Settled(p) = m - 1, Settled(p)' = m,
         \A q \in Producers \ {p} : Settled(q)' = Settled(q),
         \A q \in Producers : (step'[q] # "idle") => offered'[q] > 0
  PROVE  queue' \in Seq(Items) /\ (DeliveredInOrder /\ FramesAccounted /\ OnlySettled)'
<1> DEFINE x == [by |-> p, n |-> m]
<1>1. /\ delivered \in Seq(Items) /\ Held \in Seq(Items) /\ queue \in Seq(Items) /\ x \in Items
      /\ Pipe \in Seq(Items) /\ UNCHANGED <<loop, writing, delivered, broken, Held>> /\ Len(Pipe) \in Nat
      /\ \A i \in 1 .. Len(Pipe) : Pipe[i] \in Items /\ Pipe[i].by \in Producers /\ Pipe[i].n \in 1 .. MaxItems
  <2>1. x \in Items /\ UNCHANGED <<loop, writing, delivered, broken, Held>>
    BY DEF Items, clientVars, Held
  <2>2. ClientTypeOK
    BY DEF ClientInv
  <2> QED
    BY <2>1, <2>2, PipeTyped
<1> HIDE DEF x
<1>2. queue' = Append(queue, x) /\ x.by = p /\ x.n = m
  BY DEF x
<1>3. Pipe' = Append(Pipe, x)
  <2>1. Pipe' = delivered \o Held \o Append(queue, x)
    BY <1>1, <1>2 DEF Pipe
  <2> QED
    BY <1>1, <2>1, PipeAppend, SMTT(30) DEF Pipe
<1>4. \A i \in 1 .. Len(Pipe) : Pipe[i].by = p => Pipe[i].n < m
  <2>1. \A i \in 1 .. Len(Pipe) : Pipe[i].n <= Settled(Pipe[i].by) /\ Pipe[i].n \in Nat
    BY <1>1 DEF ClientInv, OnlySettled
  <2>2. Settled(p) = m - 1 /\ m \in Nat
    OBVIOUS
  <2> QED
    BY <2>1, <2>2
<1>50. Upwards(Pipe) /\ \A i \in 1 .. Len(Pipe) : Pipe[i].by = x.by => Pipe[i].n < x.n
  BY <1>2, <1>4 DEF ClientInv, DeliveredInOrder
<1>5. /\ Upwards(Pipe') /\ Len(Pipe') = Len(Pipe) + 1 /\ Pipe'[Len(Pipe) + 1] = x
      /\ \A i \in 1 .. Len(Pipe) : Pipe'[i] = Pipe[i]
      /\ ToSet(Pipe') = ToSet(Pipe) \cup {x}
  BY <1>1, <1>3, <1>50, UpwardsAppend
<1>6. FramesAccounted'
  <2>1. ASSUME NEW q \in Producers, NEW n \in 1 .. Settled(q)'
        PROVE  [by |-> q, n |-> n] \in ToSet(Pipe') \cup dropped' \cup broken'
    <3>1. CASE q = p /\ n = m
      BY <1>5, <3>1 DEF x
    <3>2. CASE ~(q = p /\ n = m)
      <4>1. n \in 1 .. Settled(q)
        BY <2>1, <3>2
      <4>2. [by |-> q, n |-> n] \in ToSet(Pipe) \cup dropped \cup broken
        BY <4>1 DEF ClientInv, FramesAccounted
      <4> QED
        BY <1>1, <1>5, <4>2
    <3> QED
      BY <3>1, <3>2
  <2> QED
    BY <2>1 DEF FramesAccounted
<1>7. OnlySettled'
  <2>1. ASSUME NEW i \in 1 .. Len(Pipe') PROVE (Pipe[i].n <= Settled(Pipe[i].by))'
    <3>1. CASE i = Len(Pipe) + 1
      <4>1. (Pipe[i].n = m)' /\ (Pipe[i].by = p)'
        BY <1>2, <1>5, <3>1
      <4>2. (Settled(Pipe[i].by) = Settled(p))'
        BY <4>1
      <4> QED
        BY <4>1, <4>2
    <3>2. CASE i # Len(Pipe) + 1
      <4>1. i \in 1 .. Len(Pipe) /\ (Pipe[i])' = Pipe[i]
        BY <1>1, <1>5, <3>2
      <4>2. Pipe[i].n <= Settled(Pipe[i].by) /\ Pipe[i].by \in Producers /\ Pipe[i].n \in Nat
        BY <1>1, <4>1 DEF ClientInv, OnlySettled
      <4>3. PICK q \in Producers : q = Pipe[i].by
        BY <4>2
      <4>4. (Settled(Pipe[i].by))' = Settled(q)'
        BY <4>1, <4>3
      <4>5. (Pipe[i].n)' = Pipe[i].n
        BY <4>1
      <4>6. CASE q = p
        BY <4>2, <4>3, <4>4, <4>5, <4>6
      <4>7. CASE q # p
        BY <4>2, <4>3, <4>4, <4>5, <4>7
      <4> QED
        BY <4>6, <4>7
    <3> QED
      BY <3>1, <3>2
  <2>2. (loop = "write" <=> writing # NoFrame)'
    BY <1>1 DEF ClientInv, OnlySettled
  <2> QED
    BY <2>1, <2>2 DEF OnlySettled
<1> QED
  BY <1>1, <1>2, <1>5, <1>6, <1>7 DEF DeliveredInOrder, Upwards

(* The queue behind its head, in the pipe.                                  *)
LEMMA QueueTail ==
  ASSUME ClientTypeOK, queue # << >>
  PROVE  /\ Head(queue) \in Items /\ Tail(queue) \in Seq(Items) /\ Head(queue) = queue[1]
         /\ Len(queue) \in Nat \ {0} /\ Len(Tail(queue)) = Len(queue) - 1
         /\ \A i \in 1 .. Len(queue) - 1 : Tail(queue)[i] = queue[i + 1]
<1>1. queue \in Seq(Items)
  BY DEF ClientTypeOK, QueueTypeOK
<1> QED
  BY <1>1

(* The sequence of the pipe after the head of the queue was dropped.        *)
LEMMA HeadDropped ==
  ASSUME NEW d \in Seq(Items), NEW h \in Seq(Items), NEW q \in Seq(Items), q # << >>
  PROVE  /\ d \o h \o Tail(q) \in Seq(Items)
         /\ Len(d) + Len(h) + 1 \in 1 .. Len(d \o h \o q)
         /\ (d \o h \o q)[Len(d) + Len(h) + 1] = Head(q)
         /\ Without(d \o h \o Tail(q), d \o h \o q, Len(d) + Len(h) + 1)
<1> DEFINE e == d \o h
           s == e \o q
           r == Tail(q)
           t == e \o r
           k == Len(e) + 1
<1>1. /\ e \in Seq(Items) /\ Len(e) = Len(d) + Len(h) /\ Len(e) \in Nat /\ Len(q) \in Nat \ {0}
      /\ r \in Seq(Items) /\ Len(r) = Len(q) - 1 /\ Head(q) = q[1]
      /\ \A i \in 1 .. Len(q) - 1 : r[i] = q[i + 1]
  OBVIOUS
<1> HIDE DEF e, r
<1>2. /\ s \in Seq(Items) /\ Len(s) = Len(e) + Len(q)
      /\ \A i \in 1 .. Len(e) : s[i] = e[i]
      /\ \A i \in 1 .. Len(q) : s[Len(e) + i] = q[i]
  BY <1>1, Joined
<1>3. /\ t \in Seq(Items) /\ Len(t) = Len(e) + (Len(q) - 1)
      /\ \A i \in 1 .. Len(e) : t[i] = e[i]
      /\ \A i \in 1 .. Len(q) - 1 : t[Len(e) + i] = r[i]
  <2>1. /\ t \in Seq(Items) /\ Len(t) = Len(e) + Len(r)
        /\ \A i \in 1 .. Len(e) : t[i] = e[i]
        /\ \A i \in 1 .. Len(r) : t[Len(e) + i] = r[i]
    BY <1>1, Joined
  <2> HIDE DEF t
  <2> QED
    BY <1>1, <2>1
<1> HIDE DEF s, t
<1>4. k \in 1 .. Len(s) /\ s[k] = Head(q)
  BY <1>1, <1>2
<1>5. ASSUME NEW i \in 1 .. Len(t) PROVE t[i] = s[IF i < k THEN i ELSE i + 1]
  <2>1. CASE i < k
    <3>1. i \in 1 .. Len(e)
      BY <1>1, <2>1
    <3>2. t[i] = e[i] /\ s[i] = e[i]
      BY <1>2, <1>3, <3>1
    <3> QED
      BY <2>1, <3>2
  <2>2. CASE ~(i < k)
    <3>1. /\ i - Len(e) \in 1 .. Len(q) - 1 /\ i = Len(e) + (i - Len(e))
          /\ (i - Len(e)) + 1 \in 1 .. Len(q) /\ i + 1 = Len(e) + ((i - Len(e)) + 1)
      BY <1>1, <1>3, <2>2
    <3>2. t[i] = r[i - Len(e)] /\ s[i + 1] = q[(i - Len(e)) + 1]
      BY <1>2, <1>3, <3>1
    <3> QED
      BY <1>1, <2>2, <3>1, <3>2
  <2> QED
    BY <2>1, <2>2
<1>6. Without(t, s, k)
  BY <1>1, <1>2, <1>3, <1>5 DEF Without
<1> QED
  BY <1>1, <1>3, <1>4, <1>6 DEF e, r, s, t

(* The pipe after the frame being written was lost.                         *)
LEMMA HeldLost ==
  ASSUME NEW d \in Seq(Items), NEW w \in Items, NEW q \in Seq(Items)
  PROVE  /\ Len(d) + 1 \in 1 .. Len(d \o <<w>> \o q) /\ (d \o <<w>> \o q)[Len(d) + 1] = w
         /\ d \o << >> \o q \in Seq(Items)
         /\ Without(d \o << >> \o q, d \o <<w>> \o q, Len(d) + 1)
<1> DEFINE s == d \o <<w>> \o q
           t == d \o << >> \o q
           k == Len(d) + 1
<1>1. /\ <<w>> \in Seq(Items) /\ Len(<<w>>) = 1 /\ <<w>>[1] = w /\ << >> \in Seq(Items) /\ Len(<< >>) = 0
      /\ Len(d) \in Nat /\ Len(q) \in Nat
  OBVIOUS
<1>2. /\ s \in Seq(Items) /\ Len(s) = Len(d) + 1 + Len(q)
      /\ \A i \in 1 .. Len(d) : s[i] = d[i]
      /\ s[Len(d) + 1] = w
      /\ \A i \in 1 .. Len(q) : s[Len(d) + 1 + i] = q[i]
  <2>1. 1 \in 1 .. Len(<<w>>)
    BY <1>1
  <2> QED
    BY <1>1, <2>1, PipeShape
<1>3. /\ t \in Seq(Items) /\ Len(t) = Len(d) + 0 + Len(q)
      /\ \A i \in 1 .. Len(d) : t[i] = d[i]
      /\ \A i \in 1 .. Len(q) : t[Len(d) + 0 + i] = q[i]
  BY <1>1, PipeShape
<1> HIDE DEF s, t
<1>4. ASSUME NEW i \in 1 .. Len(t) PROVE t[i] = s[IF i < k THEN i ELSE i + 1]
  <2>1. CASE i < k
    <3>1. i \in 1 .. Len(d)
      BY <1>1, <2>1
    <3>2. t[i] = d[i] /\ s[i] = d[i]
      BY <1>2, <1>3, <3>1
    <3> QED
      BY <2>1, <3>2
  <2>2. CASE ~(i < k)
    <3>1. i - Len(d) \in 1 .. Len(q) /\ i = Len(d) + 0 + (i - Len(d)) /\ i + 1 = Len(d) + 1 + (i - Len(d))
      BY <1>1, <1>3, <2>2
    <3>2. t[i] = q[i - Len(d)] /\ s[i + 1] = q[i - Len(d)]
      BY <1>2, <1>3, <3>1
    <3> QED
      BY <2>2, <3>2
  <2> QED
    BY <2>1, <2>2
<1>5. Without(t, s, k)
  BY <1>1, <1>2, <1>3, <1>4 DEF Without
<1> QED
  BY <1>1, <1>2, <1>3, <1>5 DEF s, t

(* The pipe does not change when its head moves from part to part.          *)
LEMMA FrameMoves ==
  ASSUME NEW d \in Seq(Items), NEW q \in Seq(Items)
  PROVE  /\ q # << >> => d \o <<Head(q)>> \o Tail(q) = d \o << >> \o q
         /\ \A w \in Items : Append(d, w) \o << >> \o q = d \o <<w>> \o q
<1>0. << >> \in Seq(Items) /\ Len(<< >>) = 0 /\ Len(d) \in Nat /\ Len(q) \in Nat
  OBVIOUS
<1>1. ASSUME q # << >> PROVE d \o <<Head(q)>> \o Tail(q) = d \o << >> \o q
  <2> DEFINE w == Head(q)
             s == d \o <<w>> \o Tail(q)
             t == d \o << >> \o q
  <2>1. /\ w \in Items /\ Len(q) \in Nat \ {0} /\ Tail(q) \in Seq(Items) /\ Len(Tail(q)) = Len(q) - 1
        /\ w = q[1] /\ \A i \in 1 .. Len(q) - 1 : Tail(q)[i] = q[i + 1]
    BY <1>1
  <2> HIDE DEF w
  <2>2. <<w>> \in Seq(Items) /\ Len(<<w>>) = 1 /\ <<w>>[1] = w /\ 1 \in 1 .. Len(<<w>>)
    BY <2>1
  <2>3. /\ s \in Seq(Items) /\ Len(s) = Len(d) + 1 + (Len(q) - 1)
        /\ \A i \in 1 .. Len(d) : s[i] = d[i]
        /\ s[Len(d) + 1] = w
        /\ \A i \in 1 .. Len(q) - 1 : s[Len(d) + 1 + i] = Tail(q)[i]
    BY <2>1, <2>2, PipeShape
  <2>4. /\ t \in Seq(Items) /\ Len(t) = Len(d) + 0 + Len(q)
        /\ \A i \in 1 .. Len(d) : t[i] = d[i]
        /\ \A i \in 1 .. Len(q) : t[Len(d) + 0 + i] = q[i]
    BY <1>0, PipeShape
  <2> HIDE DEF s, t
  <2>5. ASSUME NEW i \in 1 .. Len(s) PROVE s[i] = t[i]
    <3>1. CASE i <= Len(d)
      BY <1>0, <2>3, <2>4, <3>1
    <3>2. CASE i = Len(d) + 1
      <4>1. 1 \in 1 .. Len(q) /\ i = Len(d) + 0 + 1
        BY <1>0, <2>1, <3>2
      <4> QED
        BY <2>1, <2>3, <2>4, <3>2, <4>1
    <3>3. CASE i > Len(d) + 1
      <4>1. /\ i - Len(d) - 1 \in 1 .. Len(q) - 1 /\ i = Len(d) + 1 + (i - Len(d) - 1)
            /\ (i - Len(d) - 1) + 1 \in 1 .. Len(q) /\ i = Len(d) + 0 + ((i - Len(d) - 1) + 1)
        BY <1>0, <2>1, <2>3, <3>3
      <4> QED
        <5>1. s[i] = Tail(q)[i - Len(d) - 1]
          BY <2>3, <4>1
        <5>2. t[i] = q[(i - Len(d) - 1) + 1]
          BY <2>4, <4>1
        <5> QED
          BY <2>1, <4>1, <5>1, <5>2
    <3> QED
      BY <1>0, <2>3, <3>1, <3>2, <3>3
  <2>6. s = t
    <3>1. Len(s) = Len(t)
      BY <1>0, <2>1, <2>3, <2>4
    <3> QED
      BY <2>3, <2>4, <2>5, <3>1, SameFrames
  <2> QED
    BY <2>6 DEF s, t, w
<1>2. ASSUME NEW w \in Items PROVE Append(d, w) \o << >> \o q = d \o <<w>> \o q
  <2>1. /\ <<w>> \in Seq(Items) /\ Append(d, w) = d \o <<w>> /\ Append(d, w) \in Seq(Items)
        /\ Append(d, w) \o << >> = Append(d, w)
    OBVIOUS
  <2> QED
    BY <2>1
<1> QED
  BY <1>1, <1>2

-----------------------------------------------------------------------------
LEMMA ClientInitInv == NewReconnectClient => ClientInv
<1> SUFFICES ASSUME NewReconnectClient PROVE ClientInv
  OBVIOUS
<1> USE QueueAssumption, ClientAssumption DEF NewReconnectClient, QueueInit
<1>1. ClientTypeOK
  <2>1. queue \in Seq(Items) /\ Len(queue) = 0 /\ delivered \in Seq(Items) /\ Len(delivered) = 0
    OBVIOUS
  <2>2. Len(queue) <= Capacity /\ backoff \in 0 .. MaxBackoff
    BY <2>1
  <2>3. offered \in [Producers -> 0 .. MaxItems] /\ step \in [Producers -> {"idle", "drop", "retry"}]
    OBVIOUS
  <2>4. /\ loop \in {"check", "dial", "wait", "drain", "write", "hangup", "close", "returned"}
        /\ connected \in BOOLEAN /\ stalled \in BOOLEAN /\ stopped \in BOOLEAN /\ writing \in Items \cup {NoFrame}
        /\ broken \in SUBSET Items /\ dropped \in SUBSET Items
    OBVIOUS
  <2> QED
    BY <2>1, <2>2, <2>3, <2>4 DEF ClientTypeOK, QueueTypeOK
<1>2. Len(Pipe) = 0
  <2>1. << >> \o << >> \o << >> = << >> /\ Len(<< >>) = 0
    OBVIOUS
  <2> QED
    BY <2>1 DEF Pipe, Held
<1>3. \A p \in Producers : Settled(p) = 0 /\ step[p] = "idle"
  <2>1. \A p \in Producers : offered[p] = 0 /\ step[p] = "idle"
    OBVIOUS
  <2>2. ASSUME NEW p \in Producers PROVE Settled(p) = 0
    <3>1. Settled(p) = 0 - 0
      BY <2>1, Zenon DEF Settled
    <3> QED
      BY <3>1
  <2> QED
    BY <2>1, <2>2
<1> QED
  BY <1>1, <1>2, <1>3 DEF ClientInv, DeliveredInOrder, Upwards, FramesAccounted, OnlySettled

(* The three selects of a sender.                                           *)
LEMMA SendKeepsInv ==
  ASSUME ClientInv, NEW p \in Producers, Send(p)
  PROVE  ClientInv'
<1> USE QueueAssumption, ClientAssumption
<1>0. /\ ClientTypeOK /\ QueueTypeOK /\ offered[p] \in 0 .. MaxItems /\ queue \in Seq(Items)
      /\ offered \in [Producers -> 0 .. MaxItems] /\ step \in [Producers -> {"idle", "drop", "retry"}]
      /\ Len(queue) \in Nat /\ Len(queue) <= Capacity /\ dropped \subseteq Items
      /\ UNCHANGED clientVars /\ (loop = "write" <=> writing # NoFrame)
  BY DEF ClientInv, ClientTypeOK, QueueTypeOK, Send, OnlySettled
<1>1. UNCHANGED <<loop, backoff, connected, stalled, stopped, writing, delivered, broken, Held>>
  BY <1>0 DEF clientVars, Held
<1>2. ASSUME QueueTypeOK' PROVE ClientTypeOK'
  BY <1>0, <1>1, <1>2 DEF ClientTypeOK
<1>3. CASE Offer(p)
  <2>1. /\ step[p] = "idle" /\ offered[p] < MaxItems /\ dropped' = dropped
        /\ offered' = [offered EXCEPT ![p] = offered[p] + 1]
        /\ offered'[p] = offered[p] + 1 /\ offered[p] + 1 \in 1 .. MaxItems
        /\ \A q \in Producers \ {p} : offered'[q] = offered[q]
        /\ offered' \in [Producers -> 0 .. MaxItems]
    BY <1>0, <1>3 DEF Offer
  <2>2. CASE HasRoom
    <3>1. queue' = Append(queue, [by |-> p, n |-> offered[p] + 1]) /\ step' = step
          /\ Len(queue) < Capacity
      BY <1>3, <2>2 DEF Offer, HasRoom
    <3>2. /\ Settled(p) = (offered[p] + 1) - 1 /\ Settled(p)' = offered[p] + 1
          /\ \A q \in Producers \ {p} : Settled(q)' = Settled(q)
      <4>1. Settled(p) = (offered[p] + 1) - 1
        BY <1>0, <2>1 DEF Settled
      <4>2. Settled(p)' = offered[p] + 1
        BY <1>0, <2>1, <3>1 DEF Settled
      <4>3. \A q \in Producers \ {p} : Settled(q)' = Settled(q)
        BY <2>1, <3>1 DEF Settled
      <4> QED
        BY <4>1, <4>2, <4>3
    <3>3. \A q \in Producers : step'[q] # "idle" => offered'[q] > 0
      BY <2>1, <3>1 DEF ClientInv, OnlySettled
    <3>4. queue' \in Seq(Items) /\ (DeliveredInOrder /\ FramesAccounted /\ OnlySettled)'
      BY <1>0, <2>1, <3>1, <3>2, <3>3, FrameSent
    <3>5. Len(queue') = Len(queue) + 1
      BY <1>0, <3>1
    <3>6. QueueTypeOK'
      BY <1>0, <2>1, <3>1, <3>4, <3>5 DEF QueueTypeOK
    <3> QED
      BY <1>2, <3>4, <3>6 DEF ClientInv
  <2>3. CASE ~HasRoom
    <3>1. queue' = queue /\ step' = [step EXCEPT ![p] = "drop"]
      BY <1>3, <2>3 DEF Offer
    <3>2. QueueTypeOK'
      BY <1>0, <2>1, <3>1 DEF QueueTypeOK
    <3>3. \A q \in Producers : Settled(q)' = Settled(q)
      BY <1>0, <2>1, <3>1 DEF Settled
    <3>4. Pipe' = Pipe
      BY <1>1, <3>1 DEF Pipe
    <3>5. DeliveredInOrder'
      BY <3>4 DEF ClientInv, DeliveredInOrder, Upwards
    <3>6. FramesAccounted'
      BY <1>1, <2>1, <3>3, <3>4 DEF ClientInv, FramesAccounted
    <3>7. OnlySettled'
      <4>1. \A i \in 1 .. Len(Pipe) : Pipe[i].by \in Producers
        BY <1>0, PipeTyped
      <4>2. \A q \in Producers : step'[q] # "idle" => offered'[q] > 0
        BY <1>0, <2>1, <3>1 DEF ClientInv, OnlySettled
      <4>3. ASSUME NEW i \in 1 .. Len(Pipe) PROVE (Pipe[i].n <= Settled(Pipe[i].by))'
        <5>1. PICK q \in Producers : q = Pipe[i].by
          BY <4>1
        <5>2. Settled(Pipe[i].by)' = Settled(q)' /\ (Pipe[i].n)' = Pipe[i].n
          BY <3>4, <5>1
        <5> QED
          BY <3>3, <5>1, <5>2 DEF ClientInv, OnlySettled
      <4> QED
        BY <1>0, <1>1, <3>4, <4>2, <4>3 DEF OnlySettled
    <3> QED
      BY <1>2, <3>2, <3>5, <3>6, <3>7 DEF ClientInv
  <2> QED
    BY <2>2, <2>3
<1>4. CASE DropHead(p)
  <2>1. /\ step[p] = "drop" /\ step' = [step EXCEPT ![p] = "retry"] /\ offered' = offered
        /\ \A q \in Producers : (step'[q] = "idle") = (step[q] = "idle")
        /\ step' \in [Producers -> {"idle", "drop", "retry"}]
    BY <1>0, <1>4 DEF DropHead
  <2>2. CASE queue = << >>
    <3>1. queue' = queue /\ dropped' = dropped
      BY <1>4, <2>2 DEF DropHead
    <3>2. QueueTypeOK'
      BY <1>0, <2>1, <3>1 DEF QueueTypeOK
    <3>3. \A q \in Producers : Settled(q)' = Settled(q)
      BY <2>1 DEF Settled
    <3>4. Pipe' = Pipe
      BY <1>1, <3>1 DEF Pipe
    <3>5. DeliveredInOrder' /\ FramesAccounted'
      BY <1>1, <3>1, <3>3, <3>4 DEF ClientInv, DeliveredInOrder, Upwards, FramesAccounted
    <3>6. OnlySettled'
      <4>1. \A i \in 1 .. Len(Pipe) : Pipe[i].by \in Producers
        BY <1>0, PipeTyped
      <4>2. \A q \in Producers : step'[q] # "idle" => offered'[q] > 0
        BY <2>1 DEF ClientInv, OnlySettled
      <4>3. ASSUME NEW i \in 1 .. Len(Pipe) PROVE (Pipe[i].n <= Settled(Pipe[i].by))'
        <5>1. PICK q \in Producers : q = Pipe[i].by
          BY <4>1
        <5>2. Settled(Pipe[i].by)' = Settled(q)' /\ (Pipe[i].n)' = Pipe[i].n
          BY <3>4, <5>1
        <5> QED
          BY <3>3, <5>1, <5>2 DEF ClientInv, OnlySettled
      <4> QED
        BY <1>0, <1>1, <3>4, <4>2, <4>3 DEF OnlySettled
    <3> QED
      BY <1>2, <3>2, <3>5, <3>6 DEF ClientInv
  <2>3. CASE queue # << >>
    <3>1. queue' = Tail(queue) /\ dropped' = dropped \cup {Head(queue)}
      BY <1>4, <2>3 DEF DropHead
    <3>2. /\ Head(queue) \in Items /\ queue' \in Seq(Items) /\ Len(queue') = Len(queue) - 1
      BY <1>0, <2>3, <3>1, QueueTail
    <3>3. QueueTypeOK'
      BY <1>0, <2>1, <3>1, <3>2 DEF QueueTypeOK
    <3> DEFINE k == Len(delivered) + Len(Held) + 1
    <3>4. /\ Pipe' \in Seq(Items) /\ k \in 1 .. Len(Pipe) /\ Pipe[k] = Head(queue)
          /\ Without(Pipe', Pipe, k)
      <4>1. delivered \in Seq(Items) /\ Held \in Seq(Items)
        BY <1>0, PipeTyped
      <4>2. Pipe' = delivered \o Held \o Tail(queue)
        BY <1>1, <3>1 DEF Pipe
      <4> QED
        BY <1>0, <2>3, <4>1, <4>2, HeadDropped DEF Pipe
    <3> HIDE DEF k
    <3>5. (DeliveredInOrder /\ FramesAccounted /\ OnlySettled)'
      <4>1. /\ dropped \cup broken \cup {Pipe[k]} \subseteq dropped' \cup broken'
            /\ (loop = "write" <=> writing # NoFrame)'
        BY <1>0, <1>1, <3>1, <3>4
      <4> QED
        BY <2>1, <3>4, <4>1, FrameGone
    <3> QED
      BY <1>2, <3>3, <3>5 DEF ClientInv
  <2> QED
    BY <2>2, <2>3
<1>5. CASE Retry(p)
  <2>1. /\ step[p] = "retry" /\ step' = [step EXCEPT ![p] = "idle"] /\ offered' = offered
        /\ step'[p] = "idle" /\ \A q \in Producers \ {p} : step'[q] = step[q]
        /\ step' \in [Producers -> {"idle", "drop", "retry"}] /\ offered[p] \in 1 .. MaxItems
    BY <1>0, <1>5 DEF Retry, ClientInv, OnlySettled
  <2>2. /\ Settled(p) = offered[p] - 1 /\ Settled(p)' = offered[p]
        /\ \A q \in Producers \ {p} : Settled(q)' = Settled(q)
    BY <2>1 DEF Settled
  <2>3. \A q \in Producers : step'[q] # "idle" => offered'[q] > 0
    BY <2>1 DEF ClientInv, OnlySettled
  <2>4. CASE HasRoom
    <3>1. queue' = Append(queue, [by |-> p, n |-> offered[p]]) /\ dropped' = dropped /\ Len(queue) < Capacity
      BY <1>5, <2>4 DEF Retry, HasRoom, Newest
    <3>2. queue' \in Seq(Items) /\ (DeliveredInOrder /\ FramesAccounted /\ OnlySettled)'
      BY <1>0, <2>1, <2>2, <2>3, <3>1, FrameSent
    <3>3. Len(queue') = Len(queue) + 1
      BY <1>0, <3>1
    <3>4. QueueTypeOK'
      BY <1>0, <2>1, <3>1, <3>2, <3>3 DEF QueueTypeOK
    <3> QED
      BY <1>2, <3>2, <3>4 DEF ClientInv
  <2>5. CASE ~HasRoom
    <3>1. queue' = queue /\ dropped' = dropped \cup {[by |-> p, n |-> offered[p]]}
      BY <1>5, <2>5 DEF Retry, Newest
    <3>2. QueueTypeOK'
      BY <1>0, <2>1, <3>1 DEF QueueTypeOK, Items
    <3>3. Pipe' = Pipe
      BY <1>1, <3>1 DEF Pipe
    <3>4. DeliveredInOrder'
      BY <3>3 DEF ClientInv, DeliveredInOrder, Upwards
    <3>5. FramesAccounted'
      <4>1. ASSUME NEW q \in Producers, NEW n \in 1 .. Settled(q)'
            PROVE  [by |-> q, n |-> n] \in ToSet(Pipe') \cup dropped' \cup broken'
        <5>1. CASE q = p /\ n = offered[p]
          BY <3>1, <5>1
        <5>2. CASE ~(q = p /\ n = offered[p])
          <6>1. n \in 1 .. Settled(q)
            BY <2>1, <2>2, <4>1, <5>2
          <6> QED
            BY <1>1, <3>1, <3>3, <6>1 DEF ClientInv, FramesAccounted
        <5> QED
          BY <5>1, <5>2
      <4> QED
        BY <4>1 DEF FramesAccounted
    <3>6. OnlySettled'
      <4>1. \A i \in 1 .. Len(Pipe) : Pipe[i].by \in Producers /\ Pipe[i].n \in 1 .. MaxItems
        BY <1>0, PipeTyped
      <4>2. ASSUME NEW i \in 1 .. Len(Pipe) PROVE (Pipe[i].n <= Settled(Pipe[i].by))'
        <5>1. PICK q \in Producers : q = Pipe[i].by
          BY <4>1
        <5>2. Settled(Pipe[i].by)' = Settled(q)' /\ (Pipe[i].n)' = Pipe[i].n
          BY <3>3, <5>1
        <5>3. Pipe[i].n <= Settled(q) /\ Pipe[i].n \in Nat
          BY <4>1, <5>1 DEF ClientInv, OnlySettled
        <5>4. Pipe[i].n <= Settled(q)'
          BY <2>1, <2>2, <5>3
        <5> QED
          BY <5>2, <5>4
      <4> QED
        BY <1>0, <1>1, <2>3, <3>3, <4>2 DEF OnlySettled
    <3> QED
      BY <1>2, <3>2, <3>4, <3>5, <3>6 DEF ClientInv
  <2> QED
    BY <2>4, <2>5
<1> QED
  BY <1>3, <1>4, <1>5 DEF Send, Produce

(* The loop between two connections: no frame moves.                        *)
LEMMA DialKeepsInv ==
  ASSUME ClientInv, \/ Stop \/ PeerStalls \/ CheckStop \/ DialFails \/ DialSucceeds \/ BackoffElapses
                    \/ BackoffStopped \/ DrainStop \/ HangUp
  PROVE  ClientInv'
<1>1. /\ UNCHANGED <<queue, offered, step, dropped, writing, delivered, broken>>
      /\ (loop = "write") = (loop' = "write")
  BY DEF Stop, PeerStalls, CheckStop, DialFails, DialSucceeds, BackoffElapses, BackoffStopped, DrainStop, HangUp,
         Goto, queueVars
<1>2. QueueTypeOK'
  BY <1>1 DEF ClientInv, ClientTypeOK, QueueTypeOK
<1>3. /\ loop' \in {"check", "dial", "wait", "drain", "write", "hangup", "close", "returned"}
      /\ connected' \in BOOLEAN /\ stalled' \in BOOLEAN /\ stopped' \in BOOLEAN
  BY DEF ClientInv, ClientTypeOK,
         Stop, PeerStalls, CheckStop, DialFails, DialSucceeds, BackoffElapses, BackoffStopped, DrainStop, HangUp, Goto
<1>4. backoff' \in 0 .. MaxBackoff
  <2>1. backoff \in 0 .. MaxBackoff /\ MaxBackoff \in Nat
    BY ClientAssumption DEF ClientInv, ClientTypeOK
  <2>2. backoff' \in {backoff, 0, IF backoff < MaxBackoff THEN backoff + 1 ELSE MaxBackoff}
    BY DEF Stop, PeerStalls, CheckStop, DialFails, DialSucceeds, BackoffElapses, BackoffStopped, DrainStop, HangUp
  <2> QED
    BY <2>1, <2>2
<1>5. ClientTypeOK'
  BY <1>1, <1>2, <1>3, <1>4 DEF ClientInv, ClientTypeOK
<1>6. Pipe' = Pipe
  BY <1>1 DEF Pipe, Held
<1>7. (loop = "write" <=> writing # NoFrame)'
  BY <1>1 DEF ClientInv, OnlySettled
<1> QED
  BY <1>1, <1>5, <1>6, <1>7, PipeKept DEF ClientInv

(* drainQueue moves the head of the pipe, or loses the frame in hand.       *)
LEMMA DrainKeepsInv ==
  ASSUME ClientInv, DrainTake \/ WriteSucceeds \/ WriteFails
  PROVE  ClientInv'
<1> USE ClientAssumption
<1>0. /\ ClientTypeOK /\ QueueTypeOK /\ delivered \in Seq(Items) /\ queue \in Seq(Items)
      /\ writing \in Items \cup {NoFrame} /\ broken \subseteq Items /\ (loop = "write" <=> writing # NoFrame)
      /\ Len(queue) \in Nat /\ Len(queue) <= Capacity
  BY DEF ClientInv, ClientTypeOK, QueueTypeOK, OnlySettled
<1>1. CASE DrainTake
  <2>1. /\ loop = "drain" /\ loop' = "write" /\ queue # << >> /\ writing = NoFrame
        /\ writing' = Head(queue) /\ queue' = Tail(queue)
        /\ UNCHANGED <<offered, step, dropped, backoff, connected, stalled, stopped, delivered, broken>>
    BY <1>0, <1>1 DEF DrainTake, Goto, Take
  <2>2. /\ Head(queue) \in Items /\ queue' \in Seq(Items) /\ Len(queue') = Len(queue) - 1
    BY <1>0, <2>1, QueueTail
  <2>3. ClientTypeOK'
    <3>1. QueueTypeOK'
      BY <1>0, <2>1, <2>2, QueueAssumption DEF QueueTypeOK
    <3> QED
      BY <1>0, <2>1, <2>2, <3>1 DEF ClientTypeOK
  <2>4. Pipe' = Pipe
    <3>1. Held = << >> /\ Held' = <<Head(queue)>>
      BY <2>1, <2>2 DEF Held
    <3> QED
      BY <1>0, <2>1, <3>1, FrameMoves DEF Pipe
  <2>5. (loop = "write" <=> writing # NoFrame)'
    BY <2>1, <2>2
  <2> QED
    BY <2>1, <2>3, <2>4, <2>5, PipeKept DEF ClientInv
<1>2. CASE WriteSucceeds
  <2>1. /\ loop = "write" /\ loop' = "drain" /\ writing \in Items /\ writing' = NoFrame
        /\ delivered' = Append(delivered, writing)
        /\ UNCHANGED <<queue, offered, step, dropped, backoff, connected, stalled, stopped, broken>>
    BY <1>0, <1>2 DEF WriteSucceeds, Goto, queueVars
  <2>2. delivered' \in Seq(Items)
    BY <1>0, <2>1
  <2>3. ClientTypeOK'
    <3>1. QueueTypeOK'
      BY <1>0, <2>1 DEF QueueTypeOK
    <3> QED
      BY <1>0, <2>1, <2>2, <3>1 DEF ClientTypeOK
  <2>4. Pipe' = Pipe
    <3>1. Held = <<writing>> /\ Held' = << >>
      BY <2>1 DEF Held
    <3> QED
      BY <1>0, <2>1, <3>1, FrameMoves DEF Pipe
  <2>5. (loop = "write" <=> writing # NoFrame)'
    BY <2>1
  <2> QED
    BY <2>1, <2>3, <2>4, <2>5, PipeKept DEF ClientInv
<1>3. CASE WriteFails
  <2>1. /\ loop = "write" /\ loop' = "hangup" /\ writing \in Items /\ writing' = NoFrame
        /\ broken' = broken \cup {writing}
        /\ UNCHANGED <<queue, offered, step, dropped, backoff, connected, stalled, stopped, delivered>>
    BY <1>0, <1>3 DEF WriteFails, Goto, queueVars
  <2>2. ClientTypeOK'
    <3>1. QueueTypeOK'
      BY <1>0, <2>1 DEF QueueTypeOK
    <3> QED
      BY <1>0, <2>1, <3>1 DEF ClientTypeOK
  <2> DEFINE k == Len(delivered) + 1
  <2>3. k \in 1 .. Len(Pipe) /\ Pipe[k] = writing /\ Pipe' \in Seq(Items) /\ Without(Pipe', Pipe, k)
    <3>1. Held = <<writing>> /\ Held' = << >>
      BY <2>1 DEF Held
    <3>2. Pipe = delivered \o <<writing>> \o queue /\ Pipe' = delivered \o << >> \o queue
      BY <2>1, <3>1 DEF Pipe
    <3> QED
      BY <1>0, <2>1, <3>2, HeldLost
  <2> HIDE DEF k
  <2>4. /\ dropped \cup broken \cup {Pipe[k]} \subseteq dropped' \cup broken'
        /\ (loop = "write" <=> writing # NoFrame)'
    BY <2>1, <2>3
  <2>5. offered' = offered /\ \A p \in Producers : (step'[p] = "idle") = (step[p] = "idle")
    BY <2>1
  <2> QED
    BY <2>2, <2>3, <2>4, <2>5, FrameGone DEF ClientInv
<1> QED
  BY <1>1, <1>2, <1>3

LEMMA ReconnectStepInv == ClientInv /\ [ReconnectNext]_reconnectVars => ClientInv'
<1> SUFFICES ASSUME ClientInv, [ReconnectNext]_reconnectVars PROVE ClientInv'
  OBVIOUS
<1>1. CASE UNCHANGED reconnectVars
  <2>1. UNCHANGED <<queue, offered, step, dropped, loop, backoff, connected, stalled, stopped, writing, delivered, broken>>
    BY <1>1 DEF reconnectVars, clientVars, queueVars
  <2>2. ClientTypeOK'
    BY <2>1 DEF ClientInv, ClientTypeOK, QueueTypeOK
  <2>3. Pipe' = Pipe /\ (loop = "write" <=> writing # NoFrame)'
    BY <2>1 DEF Pipe, Held, ClientInv, OnlySettled
  <2> QED
    BY <2>1, <2>2, <2>3, PipeKept DEF ClientInv
<1>2. CASE ReconnectNext
  BY <1>2, SendKeepsInv, DialKeepsInv, DrainKeepsInv DEF ReconnectNext, connectLoop
<1> QED
  BY <1>1, <1>2

(* The send queue of the reconnecting client, for any number of senders,    *)
(* any capacity and any number of reconnects: frames of one sender are      *)
(* delivered in the order it sent them, and every frame is delivered, on    *)
(* its way, dropped for lack of room, or lost with a connection.            *)
THEOREM ClientInvariant == ReconnectSpec => []ClientInv
<1> QED
  BY ClientInitInv, ReconnectStepInv, PTL DEF ReconnectSpec

-----------------------------------------------------------------------------
(* WebSocketBridge.                                                         *)

(* Dividing by the length of a frame.                                       *)
LEMMA WholeFrames ==
  ASSUME NEW f \in Nat \ {0}, NEW k \in Nat
  PROVE  (f * k) \div f = k
<1> QED
  BY Z3

LEMMA FramesAndRest ==
  ASSUME NEW f \in Nat \ {0}, NEW k \in Nat, NEW u \in Nat, f * k <= u, u < f * k + f
  PROVE  u \div f = k
<1>1. u = f * (u \div f) + (u % f) /\ 0 <= u % f /\ u % f < f /\ u \div f \in Nat
  BY Z3
<1> DEFINE q == u \div f
<1>2. q \in Nat /\ f * q <= u /\ u < f * q + f
  BY <1>1
<1> HIDE DEF q
<1>3. ~(q < k)
  <2>1. SUFFICES ASSUME q + 1 <= k PROVE FALSE
    BY <1>2
  <2>2. f * (q + 1) <= f * k /\ f * (q + 1) = f * q + f
    BY <1>2, <2>1, Z3
  <2> QED
    BY <1>2, <2>2, Z3
<1>4. ~(k < q)
  <2>1. SUFFICES ASSUME k + 1 <= q PROVE FALSE
    BY <1>2
  <2>2. f * (k + 1) <= f * q /\ f * (k + 1) = f * k + f
    BY <1>2, <2>1, Z3
  <2> QED
    BY <1>2, <2>2, Z3
<1>5. q = k
  BY <1>2, <1>3, <1>4
<1> QED
  BY <1>5 DEF q

(* What a connection has and is answered are sequences of frames.           *)
LEMMA AnswerShape ==
  ASSUME BridgeTypeOK, NEW c \in Conns
  PROVE  /\ outBuf[c] \in Seq([of : Conns, no : Nat]) /\ sent[c] \in Seq([of : Conns, no : Nat])
         /\ Answer(c) \in Seq([of : Conns, no : Nat])
         /\ Len(sent[c]) \in Nat /\ Len(outBuf[c]) \in Nat /\ Len(Answer(c)) \in Nat
         /\ Made(c) \in Nat
         /\ conn[c] \in {"frames", "suppress", "write"} => Answer(c) = sent[c] \o outBuf[c]
         /\ conn[c] \notin {"frames", "suppress", "write"} => Answer(c) = sent[c]
         /\ Len(sent[c]) <= Len(Answer(c))
         /\ \A i \in 1 .. Len(sent[c]) : sent[c][i] = Answer(c)[i]
<1> DEFINE S == [of : Conns, no : Nat]
<1>1. outBuf[c] \in Seq(S) /\ sent[c] \in Seq(S)
  BY DEF BridgeTypeOK
<1> HIDE DEF S
<1>2. /\ Len(sent[c]) \in Nat /\ Len(outBuf[c]) \in Nat
      /\ sent[c] \o outBuf[c] \in Seq(S)
      /\ Len(sent[c] \o outBuf[c]) \in Nat /\ Len(sent[c]) <= Len(sent[c] \o outBuf[c])
      /\ \A i \in 1 .. Len(sent[c]) : (sent[c] \o outBuf[c])[i] = sent[c][i]
      /\ sent[c] \o << >> = sent[c]
  <2>1. \A s, t \in Seq(S) : /\ Len(s) \in Nat /\ Len(t) \in Nat /\ s \o t \in Seq(S)
                             /\ Len(s \o t) \in Nat /\ Len(s) <= Len(s \o t) /\ s \o << >> = s
                             /\ \A i \in 1 .. Len(s) : (s \o t)[i] = s[i]
    OBVIOUS
  <2> QED
    BY <1>1, <2>1
<1>3. /\ conn[c] \in {"frames", "suppress", "write"} => Answer(c) = sent[c] \o outBuf[c]
      /\ conn[c] \notin {"frames", "suppress", "write"} => Answer(c) = sent[c]
  BY <1>2 DEF Answer
<1>4. /\ Answer(c) \in Seq(S) /\ Len(Answer(c)) \in Nat /\ Len(sent[c]) <= Len(Answer(c))
      /\ \A i \in 1 .. Len(sent[c]) : sent[c][i] = Answer(c)[i]
  <2>1. CASE Answer(c) = sent[c]
    BY <1>1, <1>2, <2>1
  <2>2. CASE Answer(c) = sent[c] \o outBuf[c]
    BY <1>2, <2>2
  <2> QED
    BY <1>3, <2>1, <2>2
<1>5. Made(c) \in Nat
  BY <1>4 DEF Made
<1> QED
  BY <1>1, <1>2, <1>3, <1>4, <1>5 DEF S

\* What the invariant says of one connection.
ServedRight(c) ==
  /\ \A i \in 1 .. Len(Answer(c)) : Answer(c)[i] = Frame(c, i)
  /\ conn[c] = "read" => Len(sent[c]) = gotten[c] \div FrameUnits
  /\ conn[c] # "closed" => framed[c] = FrameUnits * Made(c)
  /\ smu = c => inState = Frame(c, Made(c)) /\ conn[c] \in {"suppress", "write"}
  /\ conn[c] = "suppress" => smu = c
  /\ conn[c] \in {"new", "read", "frames", "suppress", "flush"} => framed[c] <= gotten[c]
  /\ conn[c] = "read" => gotten[c] < framed[c] + FrameUnits
  /\ conn[c] = "new" => gotten[c] = 0
  /\ conn[c] = "flush" => outBuf[c] = << >>

LEMMA EachServedRight ==
  ASSUME BridgeInv
  PROVE  BridgeTypeOK /\ \A c \in Conns : ServedRight(c)
<1> QED
  BY BridgeAssumption DEF BridgeInv, OwnFramesInOrder, MutexGivenBack, FramesCounted, ServedRight

LEMMA AllServedRight == BridgeTypeOK /\ (\A c \in Conns : ServedRight(c)) => BridgeInv
<1> SUFFICES ASSUME BridgeTypeOK, \A c \in Conns : ServedRight(c) PROVE BridgeInv
  OBVIOUS
<1>1. MutexGivenBack
  BY BridgeAssumption DEF MutexGivenBack, ServedRight, BridgeTypeOK, Frame
<1>2. OwnFramesInOrder /\ FramesCounted
  BY DEF OwnFramesInOrder, FramesCounted, ServedRight
<1> QED
  BY <1>1, <1>2 DEF BridgeInv

LEMMA AllServedRightNext ==
  ASSUME BridgeTypeOK', \A c \in Conns : ServedRight(c)'
  PROVE  BridgeInv'
<1>1. MutexGivenBack'
  BY BridgeAssumption DEF MutexGivenBack, ServedRight, BridgeTypeOK, Frame
<1>2. OwnFramesInOrder' /\ FramesCounted'
  BY DEF OwnFramesInOrder, FramesCounted, ServedRight
<1> QED
  BY <1>1, <1>2 DEF BridgeInv

LEMMA BridgeInitInv == BridgeInit => BridgeInv
<1> SUFFICES ASSUME BridgeInit PROVE BridgeInv
  OBVIOUS
<1>1. BridgeTypeOK
  <2>1. inState \in [of : Conns \cup {NoConn}, no : Nat]
    BY DEF BridgeInit, Frame
  <2> QED
    BY <2>1, BridgeAssumption DEF BridgeInit, BridgeTypeOK
<1>2. ASSUME NEW c \in Conns PROVE ServedRight(c)
  <2>1. Answer(c) = << >> /\ Made(c) = 0
    BY <1>1, AnswerShape, BridgeAssumption DEF BridgeInit, Made
  <2> QED
    BY <2>1, BridgeAssumption DEF BridgeInit, ServedRight
<1> QED
  BY <1>1, <1>2, AllServedRight

(* Steps of one connection leave the others' answers alone.                 *)
LEMMA OthersServedRight ==
  ASSUME BridgeInv, NEW c \in Conns, NEW e \in Conns, e # c,
         conn'[e] = conn[e], gotten'[e] = gotten[e], framed'[e] = framed[e],
         outBuf'[e] = outBuf[e], sent'[e] = sent[e], smu' = e <=> smu = e,
         smu = e => inState' = inState
  PROVE  ServedRight(e)'
<1>1. ServedRight(e) /\ Answer(e)' = Answer(e) /\ Made(e)' = Made(e)
  BY EachServedRight DEF Answer, Made
<1> QED
  BY <1>1 DEF ServedRight

(* The client comes, speaks and leaves.                                     *)
LEMMA ReadingKeepsInv ==
  ASSUME BridgeInv, NEW c \in Conns, Upgrade(c) \/ ReadMessage(c) \/ ReadFails(c)
  PROVE  BridgeInv'
<1>00. BridgeTypeOK /\ ServedRight(c) /\ Len(sent[c]) \in Nat
  BY EachServedRight, AnswerShape
<1>0. /\ BridgeTypeOK /\ ServedRight(c) /\ framed[c] \in Nat /\ gotten[c] \in 0 .. MaxUnits
      /\ FrameUnits \in Nat \ {0} /\ MaxUnits \in Nat /\ Len(sent[c]) \in Nat
      /\ << >> \in Seq([of : Conns, no : Nat])
  <2>1. framed[c] \in 0 .. MaxUnits + FrameUnits /\ gotten[c] \in 0 .. MaxUnits
    BY <1>00 DEF BridgeTypeOK
  <2>2. FrameUnits \in Nat \ {0} /\ MaxUnits \in Nat
    BY BridgeAssumption
  <2> QED
    BY <1>00, <2>1, <2>2
<1>1. CASE Upgrade(c)
  <2>1. BridgeTypeOK'
    BY <1>0, <1>1 DEF Upgrade, GoTo, BridgeTypeOK
  <2>2. /\ conn[c] = "new" /\ conn'[c] \in {"read", "closed"}
        /\ UNCHANGED <<gotten, framed, outBuf, sent, smu, inState>>
    BY <1>0, <1>1 DEF Upgrade, GoTo, BridgeTypeOK
  <2>3. Answer(c)' = Answer(c) /\ Made(c)' = Made(c) /\ Made(c) = Len(sent[c]) /\ smu # c
    <3>1. Answer(c)' = Answer(c)
      BY <2>2 DEF Answer
    <3>2. Answer(c) = sent[c] /\ smu # c
      BY <1>0, <2>2, AnswerShape DEF ServedRight
    <3> QED
      BY <1>0, <2>2, <3>1, <3>2 DEF Made
  <2>4. framed[c] = 0 /\ gotten[c] = 0 /\ Len(sent[c]) = 0
    <3>1. gotten[c] = 0 /\ framed[c] = 0 /\ framed[c] = FrameUnits * Len(sent[c])
      BY <1>0, <2>2, <2>3 DEF ServedRight
    <3> QED
      BY <1>0, <3>1, Z3
  <2>5. ServedRight(c)'
    <3>1. 0 \div FrameUnits = 0
      BY <1>0, Z3
    <3> QED
      BY <1>0, <2>2, <2>3, <2>4, <3>1 DEF ServedRight
  <2>6. \A e \in Conns \ {c} : ServedRight(e)'
    BY <1>0, <1>1, <2>2, OthersServedRight DEF Upgrade, GoTo, BridgeTypeOK
  <2>7. \A e \in Conns : ServedRight(e)'
    BY <2>5, <2>6
  <2> QED
    BY <2>1, <2>7, AllServedRightNext
<1>2. CASE ReadMessage(c)
  <2>0. PICK n \in MessageUnits : gotten[c] + n <= MaxUnits /\ gotten' = [gotten EXCEPT ![c] = @ + n]
    BY <1>2 DEF ReadMessage
  <2>01. n \in Nat
    BY <2>0, BridgeAssumption
  <2>1. BridgeTypeOK'
    <3>1. gotten' \in [Conns -> 0 .. MaxUnits]
      BY <1>0, <2>0, <2>01, SMTT(30) DEF BridgeTypeOK
    <3>2. outBuf' \in [Conns -> Seq([of : Conns, no : Nat])]
      BY <1>0, <1>2 DEF ReadMessage, BridgeTypeOK
    <3>3. conn' \in [Conns -> {"new", "read", "frames", "suppress", "write", "flush", "closed"}]
      BY <1>0, <1>2 DEF ReadMessage, GoTo, BridgeTypeOK
    <3> QED
      BY <1>0, <1>2, <3>1, <3>2, <3>3 DEF ReadMessage, BridgeTypeOK
  <2>2. /\ conn[c] = "read" /\ conn'[c] = "frames" /\ gotten'[c] = gotten[c] + n /\ outBuf'[c] = << >>
        /\ UNCHANGED <<framed, sent, smu, inState>>
    BY <1>0, <1>2, <2>0 DEF ReadMessage, GoTo, BridgeTypeOK
  <2>3. Answer(c)' = Answer(c) /\ Made(c)' = Made(c)
    <3>1. sent[c] \in Seq([of : Conns, no : Nat])
      BY <1>0, AnswerShape
    <3>2. Answer(c)' = sent[c] \o << >> /\ Answer(c) = sent[c]
      BY <1>0, <2>2, AnswerShape DEF Answer
    <3> QED
      BY <2>2, <3>1, <3>2 DEF Made
  <2>5. ServedRight(c)'
    BY <1>0, <2>01, <2>2, <2>3 DEF ServedRight
  <2>6. \A e \in Conns \ {c} : ServedRight(e)'
    BY <1>0, <1>2, <2>0, <2>2, OthersServedRight DEF ReadMessage, GoTo, BridgeTypeOK
  <2>7. \A e \in Conns : ServedRight(e)'
    BY <2>5, <2>6
  <2> QED
    BY <2>1, <2>7, AllServedRightNext
<1>3. CASE ReadFails(c)
  <2>1. BridgeTypeOK'
    BY <1>0, <1>3 DEF ReadFails, GoTo, BridgeTypeOK
  <2>2. /\ conn[c] = "read" /\ conn'[c] = "flush" /\ outBuf'[c] = << >>
        /\ UNCHANGED <<gotten, framed, sent, smu, inState>>
    BY <1>0, <1>3 DEF ReadFails, GoTo, BridgeTypeOK
  <2>3. Answer(c)' = Answer(c) /\ Made(c)' = Made(c)
    BY <2>2 DEF Answer, Made
  <2>5. ServedRight(c)'
    BY <1>0, <2>2, <2>3 DEF ServedRight
  <2>6. \A e \in Conns \ {c} : ServedRight(e)'
    BY <1>0, <1>3, <2>2, OthersServedRight DEF ReadFails, GoTo, BridgeTypeOK
  <2>7. \A e \in Conns : ServedRight(e)'
    BY <2>5, <2>6
  <2> QED
    BY <2>1, <2>7, AllServedRightNext
<1> QED
  BY <1>1, <1>2, <1>3

(* A frame's way through the suppressor, or around it.                      *)
LEMMA FramesKeepInv ==
  ASSUME BridgeInv, NEW c \in Conns, Suppress(c) \/ Suppressed(c) \/ GoAround(c)
  PROVE  BridgeInv'
<1>0. /\ BridgeTypeOK /\ ServedRight(c) /\ framed[c] \in Nat /\ gotten[c] \in 0 .. MaxUnits
      /\ FrameUnits \in Nat \ {0} /\ MaxUnits \in Nat
      /\ Made(c) \in Nat /\ Len(Answer(c)) \in Nat /\ NoConn \notin Conns
  <2>1. BridgeTypeOK /\ ServedRight(c) /\ Made(c) \in Nat /\ Len(Answer(c)) \in Nat
    BY EachServedRight, AnswerShape
  <2>2. framed[c] \in 0 .. MaxUnits + FrameUnits /\ gotten[c] \in 0 .. MaxUnits
    BY <2>1 DEF BridgeTypeOK
  <2>3. FrameUnits \in Nat \ {0} /\ MaxUnits \in Nat /\ NoConn \notin Conns
    BY BridgeAssumption
  <2> QED
    BY <2>1, <2>2, <2>3
<1>01. conn[c] # "closed" => framed[c] \div FrameUnits = Made(c) /\ framed[c] + FrameUnits = FrameUnits * (Made(c) + 1)
  <2>1. conn[c] # "closed" => framed[c] = FrameUnits * Made(c)
    BY <1>0 DEF ServedRight
  <2>2. (FrameUnits * Made(c)) \div FrameUnits = Made(c)
    BY <1>0, WholeFrames
  <2>3. FrameUnits * Made(c) + FrameUnits = FrameUnits * (Made(c) + 1)
    BY <1>0, Z3
  <2> QED
    BY <2>1, <2>2, <2>3
<1>1. CASE Suppress(c)
  <2>00. /\ conn[c] \in {"frames", "flush"} /\ smu = NoConn /\ smu' = c
         /\ conn'[c] = IF conn[c] = "frames" THEN "suppress" ELSE "write"
         /\ inState' = Frame(c, framed[c] \div FrameUnits + 1)
         /\ framed' = [framed EXCEPT ![c] = framed[c] + FrameUnits]
         /\ framed'[c] = framed[c] + FrameUnits
         /\ UNCHANGED <<gotten, outBuf, sent>>
    BY <1>0, <1>1 DEF Suppress, Due, GoTo, BridgeTypeOK
  <2>0. /\ conn[c] \in {"frames", "flush"} /\ smu = NoConn /\ smu' = c
        /\ conn'[c] = IF conn[c] = "frames" THEN "suppress" ELSE "write"
        /\ conn[c] = "frames" => framed[c] + FrameUnits <= gotten[c]
        /\ framed[c] <= gotten[c]
        /\ inState' = Frame(c, Made(c) + 1) /\ framed'[c] = framed[c] + FrameUnits
        /\ UNCHANGED <<gotten, outBuf, sent>>
    <3>1. conn[c] = "frames" => framed[c] + FrameUnits <= gotten[c]
      BY <1>0, <1>1 DEF Suppress, Due
    <3>2. framed[c] <= gotten[c]
      BY <1>0, <2>00 DEF ServedRight
    <3> QED
      BY <1>01, <2>00, <3>1, <3>2
  <2>1. BridgeTypeOK'
    <3>1. inState' \in [of : Conns \cup {NoConn}, no : Nat]
      BY <1>0, <2>0 DEF Frame
    <3>2. framed' \in [Conns -> 0 .. MaxUnits + FrameUnits]
      <4>1. framed[c] + FrameUnits \in 0 .. MaxUnits + FrameUnits
        BY <1>0, <2>0
      <4> QED
        BY <1>0, <2>00, <4>1 DEF BridgeTypeOK
    <3> QED
      BY <1>0, <1>1, <3>1, <3>2 DEF Suppress, GoTo, BridgeTypeOK
  <2>2. Answer(c)' = Answer(c) /\ Made(c)' = Made(c) + 1
    <3>1. Answer(c)' = Answer(c)
      <4>1. CASE conn[c] = "frames"
        BY <2>0, <4>1 DEF Answer
      <4>2. CASE conn[c] = "flush"
        <5>1. outBuf[c] = << >>
          BY <1>0, <4>2 DEF ServedRight
        <5> QED
          BY <2>0, <4>2, <5>1 DEF Answer
      <4> QED
        BY <2>0, <4>1, <4>2
    <3>2. Len(Answer(c)) \in Nat
      BY <1>0, AnswerShape
    <3> QED
      BY <1>0, <2>0, <3>1, <3>2 DEF Made
  <2>5. ServedRight(c)'
    BY <1>0, <1>01, <2>0, <2>2 DEF ServedRight
  <2>6. \A e \in Conns \ {c} : ServedRight(e)'
    BY <1>0, <1>1, <2>0, OthersServedRight DEF Suppress, GoTo, BridgeTypeOK
  <2>7. \A e \in Conns : ServedRight(e)'
    BY <2>5, <2>6
  <2> QED
    BY <2>1, <2>7, AllServedRightNext
<1>2. CASE Suppressed(c)
  <2>0. /\ conn[c] \in {"suppress", "write"} /\ smu = c /\ smu' = NoConn
        /\ conn'[c] = IF conn[c] = "suppress" THEN "frames" ELSE "write"
        /\ inState = Frame(c, Made(c)) /\ outBuf'[c] = Append(outBuf[c], Frame(c, Made(c)))
        /\ framed[c] = FrameUnits * Made(c)
        /\ UNCHANGED <<gotten, framed, sent>>
    BY <1>0, <1>2 DEF Suppressed, GoTo, BridgeTypeOK, ServedRight
  <2>01. Frame(c, Made(c)) \in [of : Conns, no : Nat]
    BY <1>0 DEF Frame
  <2>1. BridgeTypeOK'
    <3>1. inState' \in [of : Conns \cup {NoConn}, no : Nat]
      BY <1>0, <1>2 DEF Suppressed, Frame
    <3>2. outBuf' \in [Conns -> Seq([of : Conns, no : Nat])]
      BY <1>0, <1>2, <2>0, <2>01 DEF Suppressed, BridgeTypeOK
    <3> QED
      BY <1>0, <1>2, <3>1, <3>2 DEF Suppressed, GoTo, BridgeTypeOK
  <2>2. /\ Answer(c)' = Append(Answer(c), Frame(c, Made(c)))
        /\ Made(c) = Len(Answer(c)) + 1 /\ Made(c)' = Made(c)
        /\ Len(Answer(c)') = Len(Answer(c)) + 1 /\ Len(Answer(c)) \in Nat
        /\ Answer(c) \in Seq([of : Conns, no : Nat])
    <3> DEFINE S == [of : Conns, no : Nat]
    <3> HIDE DEF S
    <3>1. /\ Answer(c) = sent[c] \o outBuf[c] /\ Answer(c)' = sent[c] \o outBuf'[c]
          /\ sent[c] \in Seq(S) /\ outBuf[c] \in Seq(S) /\ Answer(c) \in Seq(S)
          /\ Frame(c, Made(c)) \in S
      BY <1>0, <2>0, <2>01, AnswerShape DEF Answer, S
    <3>2. Answer(c)' = Append(Answer(c), Frame(c, Made(c)))
      <4>1. \A s, t \in Seq(S), x \in S : s \o Append(t, x) = Append(s \o t, x)
        OBVIOUS
      <4> QED
        BY <2>0, <3>1, <4>1, ZenonT(30)
    <3>3. Len(Answer(c)) \in Nat /\ Made(c) = Len(Answer(c)) + 1
      BY <1>0, <2>0 DEF Made
    <3>4. Len(Answer(c)') = Len(Answer(c)) + 1
      BY <3>1, <3>2
    <3>5. Made(c)' = Len(Answer(c)')
      BY <1>0, <2>0, <3>4, <3>3 DEF Made
    <3> QED
      BY <3>1, <3>2, <3>3, <3>4, <3>5 DEF S
  <2>3. \A i \in 1 .. Len(Answer(c)') : Answer(c)'[i] = Frame(c, i)
    BY <1>0, <2>01, <2>2 DEF ServedRight
  <2>5. ServedRight(c)'
    BY <1>0, <2>0, <2>2, <2>3 DEF ServedRight
  <2>6. \A e \in Conns \ {c} : ServedRight(e)'
    BY <1>0, <1>2, <2>0, OthersServedRight DEF Suppressed, GoTo, BridgeTypeOK
  <2>7. \A e \in Conns : ServedRight(e)'
    BY <2>5, <2>6
  <2> QED
    BY <2>1, <2>7, AllServedRightNext
<1>3. CASE GoAround(c)
  <2>00. /\ conn[c] = "frames"
         /\ framed[c] + FrameUnits <= gotten[c]
         /\ outBuf' = [outBuf EXCEPT ![c] = Append(@, Frame(c, framed[c] \div FrameUnits + 1))]
         /\ framed' = [framed EXCEPT ![c] = framed[c] + FrameUnits]
         /\ UNCHANGED <<conn, gotten, sent, smu, inState>>
    BY <1>0, <1>3 DEF GoAround, Due
  <2>0. /\ conn[c] = "frames" /\ smu # c
        /\ framed[c] + FrameUnits <= gotten[c]
        /\ outBuf'[c] = Append(outBuf[c], Frame(c, Made(c) + 1)) /\ framed'[c] = framed[c] + FrameUnits
        /\ UNCHANGED <<conn, gotten, sent, smu, inState>>
    <3>1. smu # c
      BY <1>0, <2>00 DEF ServedRight
    <3>2. framed'[c] = framed[c] + FrameUnits /\ outBuf'[c] = Append(outBuf[c], Frame(c, framed[c] \div FrameUnits + 1))
      BY <1>0, <2>00 DEF BridgeTypeOK
    <3> QED
      BY <1>01, <2>00, <3>1, <3>2
  <2>01. Frame(c, Made(c) + 1) \in [of : Conns, no : Nat]
    BY <1>0 DEF Frame
  <2>1. BridgeTypeOK'
    <3>1. framed' \in [Conns -> 0 .. MaxUnits + FrameUnits]
      <4>1. framed[c] + FrameUnits \in 0 .. MaxUnits + FrameUnits
        BY <1>0, <2>0
      <4> QED
        BY <1>0, <2>00, <4>1 DEF BridgeTypeOK
    <3>2. outBuf' \in [Conns -> Seq([of : Conns, no : Nat])]
      <4>1. outBuf' = [outBuf EXCEPT ![c] = Append(@, Frame(c, Made(c) + 1))]
        BY <1>0, <1>01, <1>3, <2>0 DEF GoAround
      <4> QED
        BY <1>0, <4>1, <2>01 DEF BridgeTypeOK
    <3> QED
      BY <1>0, <1>3, <3>1, <3>2 DEF GoAround, BridgeTypeOK
  <2>2. /\ Answer(c)' = Append(Answer(c), Frame(c, Made(c) + 1))
        /\ Made(c) = Len(Answer(c)) /\ Made(c)' = Made(c) + 1
        /\ Len(Answer(c)') = Len(Answer(c)) + 1 /\ Len(Answer(c)) \in Nat
        /\ Answer(c) \in Seq([of : Conns, no : Nat])
    <3> DEFINE S == [of : Conns, no : Nat]
    <3> HIDE DEF S
    <3>1. /\ Answer(c) = sent[c] \o outBuf[c] /\ Answer(c)' = sent[c] \o outBuf'[c]
          /\ sent[c] \in Seq(S) /\ outBuf[c] \in Seq(S) /\ Answer(c) \in Seq(S)
          /\ Frame(c, Made(c) + 1) \in S
      BY <1>0, <2>0, <2>01, AnswerShape DEF Answer, S
    <3>2. Answer(c)' = Append(Answer(c), Frame(c, Made(c) + 1))
      <4>1. \A s, t \in Seq(S), x \in S : s \o Append(t, x) = Append(s \o t, x)
        OBVIOUS
      <4> QED
        BY <2>0, <3>1, <4>1, ZenonT(30)
    <3>3. Len(Answer(c)) \in Nat /\ Made(c) = Len(Answer(c))
      BY <1>0, <2>0 DEF Made
    <3>4. Len(Answer(c)') = Len(Answer(c)) + 1
      BY <3>1, <3>2
    <3>5. Made(c)' = Len(Answer(c)')
      BY <1>0, <2>0, <3>4, <3>3 DEF Made
    <3> QED
      BY <3>1, <3>2, <3>3, <3>4, <3>5 DEF S
  <2>3. \A i \in 1 .. Len(Answer(c)') : Answer(c)'[i] = Frame(c, i)
    BY <1>0, <2>01, <2>2 DEF ServedRight
  <2>5. ServedRight(c)'
    BY <1>0, <1>01, <2>0, <2>2, <2>3 DEF ServedRight
  <2>6. \A e \in Conns \ {c} : ServedRight(e)'
    BY <1>0, <1>3, <2>0, OthersServedRight DEF GoAround, BridgeTypeOK
  <2>7. \A e \in Conns : ServedRight(e)'
    BY <2>5, <2>6
  <2> QED
    BY <2>1, <2>7, AllServedRightNext
<1> QED
  BY <1>1, <1>2, <1>3

(* The answer is written, or the connection ends.                           *)
LEMMA WritingKeepsInv ==
  ASSUME BridgeInv, NEW c \in Conns, PipelineError(c) \/ WriteMessage(c) \/ CloseEmpty(c)
  PROVE  BridgeInv'
<1>0. /\ BridgeTypeOK /\ ServedRight(c) /\ framed[c] \in Nat /\ gotten[c] \in 0 .. MaxUnits
      /\ FrameUnits \in Nat \ {0} /\ MaxUnits \in Nat
      /\ Made(c) \in Nat /\ NoConn \notin Conns
      /\ Len(sent[c]) <= Len(Answer(c)) /\ Len(sent[c]) \in Nat /\ Len(Answer(c)) \in Nat
      /\ \A i \in 1 .. Len(sent[c]) : sent[c][i] = Answer(c)[i]
  <2>1. /\ BridgeTypeOK /\ ServedRight(c) /\ Made(c) \in Nat
        /\ Len(sent[c]) <= Len(Answer(c)) /\ Len(sent[c]) \in Nat /\ Len(Answer(c)) \in Nat
        /\ \A i \in 1 .. Len(sent[c]) : sent[c][i] = Answer(c)[i]
    BY EachServedRight, AnswerShape
  <2>2. framed[c] \in 0 .. MaxUnits + FrameUnits /\ gotten[c] \in 0 .. MaxUnits
    BY <2>1 DEF BridgeTypeOK
  <2>3. FrameUnits \in Nat \ {0} /\ MaxUnits \in Nat /\ NoConn \notin Conns
    BY BridgeAssumption
  <2> QED
    BY <2>1, <2>2, <2>3
<1>1. ASSUME conn' = [conn EXCEPT ![c] = "closed"], smu # c,
             UNCHANGED <<gotten, framed, outBuf, sent, smu, inState>>
      PROVE  BridgeInv'
  <2>1. BridgeTypeOK' /\ conn'[c] = "closed"
    BY <1>0, <1>1 DEF BridgeTypeOK
  <2>2. Answer(c)' = sent[c]
    <3>1. sent[c] \in Seq([of : Conns, no : Nat])
      BY <1>0, AnswerShape
    <3>2. Answer(c)' = sent[c] \o << >>
      BY <1>1, <2>1 DEF Answer
    <3> QED
      BY <3>1, <3>2
  <2>3. \A i \in 1 .. Len(sent[c]) : sent[c][i] = Frame(c, i)
    BY <1>0, SMTT(30) DEF ServedRight
  <2>5. ServedRight(c)'
    BY <1>0, <1>1, <2>1, <2>2, <2>3 DEF ServedRight
  <2>6. \A e \in Conns \ {c} : ServedRight(e)'
    BY <1>0, <1>1, OthersServedRight DEF BridgeTypeOK
  <2>7. \A e \in Conns : ServedRight(e)'
    BY <2>5, <2>6
  <2> QED
    BY <2>1, <2>7, AllServedRightNext
<1>2. CASE PipelineError(c) \/ CloseEmpty(c)
  <2>1. conn[c] \in {"frames", "flush"}
    BY <1>2 DEF PipelineError, CloseEmpty, Due
  <2>2. smu # c
    BY <1>0, <2>1 DEF ServedRight
  <2> QED
    BY <1>1, <1>2, <2>2 DEF PipelineError, CloseEmpty, GoTo
<1>3. CASE WriteMessage(c)
  <2>0. /\ conn[c] \in {"frames", "write"} /\ smu # c
        /\ conn[c] = "frames" => ~(gotten[c] - framed[c] >= FrameUnits)
    BY <1>0, <1>3 DEF WriteMessage, ServedRight, Due
  <2>1. CASE outBuf[c] # << >> /\ GoTo(c, "closed") /\ UNCHANGED sent
    BY <1>1, <1>3, <2>0, <2>1 DEF WriteMessage, GoTo
  <2>2. CASE /\ sent' = [sent EXCEPT ![c] = @ \o outBuf[c]]
             /\ GoTo(c, IF conn[c] = "frames" THEN "read" ELSE "closed")
    <3>0. /\ sent'[c] = Answer(c) /\ conn'[c] \in {"read", "closed"}
          /\ conn'[c] = "read" => conn[c] = "frames"
          /\ UNCHANGED <<gotten, framed, outBuf, smu, inState>>
          /\ Answer(c) \in Seq([of : Conns, no : Nat])
      BY <1>0, <1>3, <2>0, <2>2, AnswerShape DEF WriteMessage, GoTo, BridgeTypeOK
    <3>1. BridgeTypeOK'
      <4>1. sent' = [sent EXCEPT ![c] = Answer(c)]
        BY <2>2, <3>0, <2>0 DEF Answer
      <4> QED
        BY <1>0, <1>3, <2>2, <3>0, <4>1, ZenonT(60) DEF WriteMessage, GoTo, BridgeTypeOK
    <3>2. Answer(c)' = Answer(c) /\ Made(c)' = Made(c) /\ Made(c) = Len(Answer(c))
      <4>1. Answer(c)' = Answer(c)
        <5>1. Answer(c)' = sent'[c] \o << >>
          BY <3>0 DEF Answer
        <5> QED
          BY <3>0, <5>1
      <4> QED
        BY <1>0, <2>0, <3>0, <4>1 DEF Made
    <3>3. conn'[c] = "read" => /\ framed[c] = FrameUnits * Len(Answer(c)) /\ framed[c] <= gotten[c]
                               /\ gotten[c] < framed[c] + FrameUnits
                               /\ Len(Answer(c)) = gotten[c] \div FrameUnits
      <4>1. SUFFICES ASSUME conn[c] = "frames"
                     PROVE  /\ framed[c] = FrameUnits * Len(Answer(c)) /\ framed[c] <= gotten[c]
                            /\ gotten[c] < framed[c] + FrameUnits
                            /\ Len(Answer(c)) = gotten[c] \div FrameUnits
        BY <3>0
      <4>2. /\ framed[c] = FrameUnits * Len(Answer(c)) /\ framed[c] <= gotten[c]
            /\ gotten[c] < framed[c] + FrameUnits
        BY <1>0, <2>0, <3>2, <4>1 DEF ServedRight
      <4>3. /\ Len(Answer(c)) \in Nat /\ FrameUnits * Len(Answer(c)) <= gotten[c]
            /\ gotten[c] < FrameUnits * Len(Answer(c)) + FrameUnits
            /\ gotten[c] \in Nat
        BY <1>0, <4>2
      <4>4. gotten[c] \div FrameUnits = Len(Answer(c))
        BY ONLY <1>0, <4>3, FramesAndRest
      <4> QED
        BY <4>2, <4>4
    <3>5. ServedRight(c)'
      BY <1>0, <2>0, <3>0, <3>2, <3>3 DEF ServedRight
    <3>6. \A e \in Conns \ {c} : ServedRight(e)'
      BY <1>0, <1>3, <2>2, <3>0, OthersServedRight DEF WriteMessage, GoTo, BridgeTypeOK
    <3>7. \A e \in Conns : ServedRight(e)'
      BY <3>5, <3>6
    <3> QED
      BY <3>1, <3>7, AllServedRightNext
  <2> QED
    BY <1>3, <2>1, <2>2 DEF WriteMessage
<1> QED
  BY <1>2, <1>3

LEMMA BridgeStepInv == BridgeInv /\ [BridgeNext]_bridgeVars => BridgeInv'
<1> SUFFICES ASSUME BridgeInv, [BridgeNext]_bridgeVars PROVE BridgeInv'
  OBVIOUS
<1>1. CASE UNCHANGED bridgeVars
  BY <1>1, ZenonT(30) DEF bridgeVars, BridgeInv, BridgeTypeOK, OwnFramesInOrder, MutexGivenBack, FramesCounted,
              Answer, Made
<1>2. CASE BridgeNext
  BY <1>2, ReadingKeepsInv, FramesKeepInv, WritingKeepsInv DEF BridgeNext, ServeWS
<1> QED
  BY <1>1, <1>2

(* Any number of connections share one suppressor: each is answered with its*)
(* own frames, in order and each once, a message is answered before the next is*)
(* read, and whoever holds the suppressor is at work on a frame of its own. *)
THEOREM BridgeInvariant == BridgeSpec => []BridgeInv
<1> QED
  BY BridgeInitInv, BridgeStepInv, PTL DEF BridgeSpec

-----------------------------------------------------------------------------
(* DeepFilterServer.                                                        *)

LEMMA ServerInitInv == ServerInit => ServerInv
<1> SUFFICES ASSUME ServerInit PROVE ServerInv
  OBVIOUS
<1> USE ServerAssumption DEF ServerInit
<1>1. ServerTypeOK
  BY DEF ServerTypeOK
<1>2. StageTells /\ WaitOnce /\ NoOrphan
  BY DEF StageTells, WaitOnce, NoOrphan
<1>3. ReadyWasServed /\ PassthroughExplained
  BY DEF ReadyWasServed, PassthroughExplained
<1> QED
  BY <1>1, <1>2, <1>3 DEF ServerInv

(* What a step does to the suppressors it is not about.                     *)
LEMMA ServerTypeStep ==
  ASSUME ServerInv, ServerNext
  PROVE  ServerTypeOK'
<1> USE ServerAssumption DEF ServerInv, ServerTypeOK, At, Answered, Unanswered, Serving, Killed, EnterOnce, Shutdown, reapVars
<1>1. ASSUME NEW d \in Starters, ServerStep(d)
      PROVE  ServerTypeOK'
  <2>1. CASE NewSuppressor(d)
    BY <2>1 DEF NewSuppressor
  <2>2. CASE StartServer(d)
    <3>1. CASE At(d, "failed") /\ UNCHANGED <<cmd, proc, watcher>>
      BY <2>2, <3>1 DEF StartServer
    <3>2. CASE At(d, "poll") /\ cmd' = [cmd EXCEPT ![d] = TRUE]
      <4>1. cmd' \in [Starters -> BOOLEAN]
        BY <3>2, Zenon
      <4>2. /\ proc' \in [Starters \cup {Manual} -> {"none", "loading", "serving", "dead", "reaped"}]
            /\ watcher' \in [Starters -> {"none", "spawned", "reaping", "exited"}]
            /\ starter' \in [Starters -> {"new", "start", "poll", "ping", "late", "ready",
                                          "kill", "reap", "failed", "closed"}]
            /\ UNCHANGED <<once, waits, unenhanced, faults>>
        BY <2>2, <3>2 DEF StartServer
      <4> QED
        BY <4>1, <4>2
    <3> QED
      BY <2>2, <3>1, <3>2 DEF StartServer
  <2>3. CASE PollExited(d) \/ PollTimer(d)
    BY <2>3 DEF PollExited, PollTimer
  <2>4. CASE Ping(d)
    BY <2>4 DEF Ping
  <2>5. CASE Watch(d)
    BY <2>5 DEF Watch, StageTells
  <2>6. CASE ReapFirst(d)
    BY <2>6 DEF ReapFirst, StageTells
  <2>7. CASE WaitReturns(d) \/ WatchEnds(d) 
    BY <2>7 DEF WaitReturns, WatchEnds
  <2>8. CASE Reaped(d) \/ KillOwn(d)
    BY <2>8 DEF Reaped, KillOwn
  <2> QED
    BY <1>1, <2>1, <2>2, <2>3, <2>4, <2>5, <2>6, <2>7, <2>8 DEF ServerStep
<1>2. ASSUME NEW d \in Starters, Deadline(d) \/ CloseServer(d) \/ Process(d) \/ Bind(d)
      PROVE  ServerTypeOK'
  <2>1. CASE Deadline(d) \/ Bind(d)
    BY <2>1 DEF Deadline, Bind
  <2>2. CASE CloseServer(d)
    BY <2>2 DEF CloseServer
  <2>3. CASE Process(d)
    BY <2>3 DEF Process
  <2> QED
    BY <1>2, <2>1, <2>2, <2>3
<1>3. ASSUME NEW p \in Starters \cup {Manual}, Crash(p)
      PROVE  ServerTypeOK'
  BY <1>3 DEF Crash
<1> QED
  BY <1>1, <1>2, <1>3 DEF ServerNext

LEMMA StageStep ==
  ASSUME ServerInv, ServerNext
  PROVE  StageTells' /\ WaitOnce' /\ NoOrphan'
<1> USE ServerAssumption DEF ServerInv, ServerTypeOK, StageTells, At, Answered, Unanswered, Serving, Killed, EnterOnce, Shutdown, reapVars
<1>1. ASSUME NEW d \in Starters, ServerStep(d)
      PROVE  StageTells' /\ WaitOnce' /\ NoOrphan'
  <2>1. CASE NewSuppressor(d)
    BY <2>1 DEF NewSuppressor, WaitOnce, NoOrphan
  <2>2. CASE StartServer(d)
    BY <2>2 DEF StartServer, WaitOnce, NoOrphan
  <2>3. CASE PollExited(d) \/ PollTimer(d)
    BY <2>3 DEF PollExited, PollTimer, WaitOnce, NoOrphan
  <2>4. CASE Ping(d)
    BY <2>4 DEF Ping, WaitOnce, NoOrphan
  <2>5. CASE Watch(d)
    BY <2>5 DEF Watch, WaitOnce, NoOrphan
  <2>6. CASE ReapFirst(d)
    BY <2>6 DEF ReapFirst, WaitOnce, NoOrphan
  <2>7. CASE WaitReturns(d) \/ WatchEnds(d)
    BY <2>7 DEF WaitReturns, WatchEnds, WaitOnce, NoOrphan
  <2>8. CASE Reaped(d) \/ KillOwn(d)
    BY <2>8 DEF Reaped, KillOwn, WaitOnce, NoOrphan
  <2> QED
    BY <1>1, <2>1, <2>2, <2>3, <2>4, <2>5, <2>6, <2>7, <2>8 DEF ServerStep
<1>2. ASSUME NEW d \in Starters, Deadline(d) \/ CloseServer(d) \/ Process(d) \/ Bind(d)
      PROVE  StageTells' /\ WaitOnce' /\ NoOrphan'
  <2>1. CASE Deadline(d) \/ Bind(d)
    BY <2>1 DEF Deadline, Bind, WaitOnce, NoOrphan
  <2>2. CASE CloseServer(d)
    BY <2>2 DEF CloseServer, WaitOnce, NoOrphan
  <2>3. CASE Process(d)
    BY <2>3 DEF Process, WaitOnce, NoOrphan
  <2> QED
    BY <1>2, <2>1, <2>2, <2>3
<1>3. ASSUME NEW p \in Starters \cup {Manual}, Crash(p)
      PROVE  StageTells' /\ WaitOnce' /\ NoOrphan'
  BY <1>3 DEF Crash, WaitOnce, NoOrphan
<1> QED
  BY <1>1, <1>2, <1>3 DEF ServerNext

(* An explanation stays one.                                                *)
LEMMA ExplainedStays ==
  ASSUME ServerInv, ServerNext, Explained
  PROVE  Explained'
<1> USE ServerAssumption DEF ServerInv, ServerTypeOK, StageTells, At, Answered, Unanswered, Serving, Killed, EnterOnce, Shutdown, reapVars
<1>0. CASE faults > 0
  <2>1. faults' >= faults
    BY DEF ServerNext, ServerStep, NewSuppressor, StartServer, PollExited, PollTimer, Ping, Watch,
           ReapFirst, WaitReturns, WatchEnds, Reaped, KillOwn, Deadline, CloseServer, Process, Bind, Crash
  <2>2. faults' \in Nat
    BY ServerTypeStep
  <2> QED
    BY <1>0, <2>1, <2>2 DEF Explained
<1>1. CASE \E d \in Starters : starter[d] \in {"late", "kill", "reap", "failed", "closed"} /\ proc[d] # "none"
  <2>0. PICK e \in Starters : starter[e] \in {"late", "kill", "reap", "failed", "closed"} /\ proc[e] # "none"
    BY <1>1
  <2> SUFFICES starter'[e] \in {"late", "kill", "reap", "failed", "closed"} /\ proc'[e] # "none"
    BY DEF Explained
  <2>1. ASSUME NEW d \in Starters, ServerStep(d)
        PROVE  starter'[e] \in {"late", "kill", "reap", "failed", "closed"} /\ proc'[e] # "none"
    BY <2>0, <2>1 DEF ServerStep, NewSuppressor, StartServer, PollExited, PollTimer, Ping, Watch,
           ReapFirst, WaitReturns, WatchEnds, Reaped, KillOwn
  <2>2. ASSUME NEW d \in Starters, Deadline(d) \/ CloseServer(d) \/ Process(d) \/ Bind(d)
        PROVE  starter'[e] \in {"late", "kill", "reap", "failed", "closed"} /\ proc'[e] # "none"
    BY <2>0, <2>2 DEF Deadline, CloseServer, Process, Bind
  <2>3. ASSUME NEW p \in Starters \cup {Manual}, Crash(p)
        PROVE  starter'[e] \in {"late", "kill", "reap", "failed", "closed"} /\ proc'[e] # "none"
    BY <2>0, <2>3 DEF Crash
  <2> QED
    BY <2>1, <2>2, <2>3 DEF ServerNext
<1> QED
  BY <1>0, <1>1 DEF Explained

(* Servers disappear by faults, by giving up and by closing.                *)
LEMMA ServedStep ==
  ASSUME ServerInv, ServerNext
  PROVE  ReadyWasServed' /\ PassthroughExplained'
<1> USE ServerAssumption DEF ServerInv, ServerTypeOK, StageTells, At, Answered, Unanswered, Killed, EnterOnce, Shutdown, reapVars
<1>1. CASE Explained
  BY <1>1, ExplainedStays DEF ReadyWasServed, PassthroughExplained
<1>2. CASE ~Explained
  <2>0. unenhanced = {} /\ ((\E d \in Starters : starter[d] = "ready") => Serving)
    BY <1>2 DEF ReadyWasServed, PassthroughExplained
  <2>1. ASSUME NEW d \in Starters, ServerStep(d)
        PROVE  ReadyWasServed' /\ PassthroughExplained'
    <3>0. unenhanced' = {}
      BY <2>0, <2>1 DEF ServerStep, NewSuppressor, StartServer, PollExited, PollTimer, Ping, Watch,
           ReapFirst, WaitReturns, WatchEnds, Reaped, KillOwn
    <3>1. CASE NewSuppressor(d) \/ Ping(d)
      <4>1. proc' = proc /\ Serving' = Serving
        BY <3>1 DEF NewSuppressor, Ping, Serving
      <4>2. starter' = [starter EXCEPT ![d] = starter'[d]] /\ (starter'[d] = "ready" => Serving)
        BY <3>1 DEF NewSuppressor, Ping
      <4> QED
        BY <2>0, <3>0, <4>1, <4>2 DEF ReadyWasServed, PassthroughExplained
    <3>2. CASE StartServer(d) \/ PollExited(d) \/ PollTimer(d) \/ Watch(d) \/ ReapFirst(d)
               \/ WaitReturns(d) \/ WatchEnds(d) \/ Reaped(d)
      <4>1. Serving => Serving'
        BY <3>2 DEF StartServer, PollExited, PollTimer, Watch, ReapFirst, WaitReturns, WatchEnds, Reaped, Serving
      <4>2. \A e \in Starters : starter'[e] = "ready" => starter[e] = "ready"
        BY <3>2 DEF StartServer, PollExited, PollTimer, Watch, ReapFirst, WaitReturns, WatchEnds, Reaped
      <4> QED
        BY <2>0, <3>0, <4>1, <4>2 DEF ReadyWasServed, PassthroughExplained
    <3>3. CASE KillOwn(d)
      BY <1>2, <3>3 DEF KillOwn, Explained
    <3> QED
      BY <2>1, <3>1, <3>2, <3>3 DEF ServerStep
  <2>2. ASSUME NEW d \in Starters, Deadline(d)
        PROVE  ReadyWasServed' /\ PassthroughExplained'
    <3>1. starter'[d] = "late" /\ proc'[d] # "none"
      BY <2>2 DEF Deadline
    <3> QED
      BY <3>1 DEF ReadyWasServed, PassthroughExplained, Explained
  <2>3. ASSUME NEW d \in Starters, CloseServer(d)
        PROVE  ReadyWasServed' /\ PassthroughExplained'
    <3>1. CASE cmd[d]
      <4>1. starter'[d] = "kill" /\ proc'[d] # "none"
        BY <2>3, <3>1 DEF CloseServer
      <4> QED
        BY <4>1 DEF ReadyWasServed, PassthroughExplained, Explained
    <3>2. CASE ~cmd[d]
      BY <2>0, <2>3, <3>2 DEF CloseServer, ReadyWasServed, PassthroughExplained, Serving
    <3> QED
      BY <3>1, <3>2
  <2>4. ASSUME NEW d \in Starters, Process(d)
        PROVE  ReadyWasServed' /\ PassthroughExplained'
    <3>1. Serving /\ proc' = proc /\ starter' = starter /\ Serving'
      BY <2>0, <2>4 DEF Process, Serving
    <3>2. unenhanced' = {} \/ faults' > 0
      BY <2>0, <2>4, <3>1 DEF Process
    <3> QED
      BY <3>1, <3>2 DEF ReadyWasServed, PassthroughExplained, Explained
  <2>5. ASSUME NEW d \in Starters, Bind(d)
        PROVE  ReadyWasServed' /\ PassthroughExplained'
    <3>1. Serving => Serving'
      BY <2>5 DEF Bind, Serving
    <3> QED
      BY <2>0, <2>5, <3>1 DEF Bind, ReadyWasServed, PassthroughExplained
  <2>6. ASSUME NEW p \in Starters \cup {Manual}, Crash(p)
        PROVE  ReadyWasServed' /\ PassthroughExplained'
    <3>1. faults' > 0
      BY <2>6 DEF Crash
    <3> QED
      BY <3>1 DEF ReadyWasServed, PassthroughExplained, Explained
  <2> QED
    BY <2>1, <2>2, <2>3, <2>4, <2>5, <2>6 DEF ServerNext
<1> QED
  BY <1>1, <1>2

LEMMA ServerStepInv == ServerInv /\ [ServerNext]_serverVars => ServerInv'
<1> SUFFICES ASSUME ServerInv, [ServerNext]_serverVars PROVE ServerInv'
  OBVIOUS
<1>1. CASE UNCHANGED serverVars
  BY <1>1 DEF serverVars, ServerInv, ServerTypeOK, StageTells, WaitOnce, NoOrphan, ReadyWasServed,
              PassthroughExplained, Explained, Serving
<1>2. CASE ServerNext
  BY <1>2, ServerTypeStep, StageStep, ServedStep DEF ServerInv
<1> QED
  BY <1>1, <1>2

(* Any number of constructors, with their watchers and Close, race for the  *)
(* server: each process is waited for once and none outlives its suppressor,*)
(* and frames go through unsuppressed only where a fault, a Close or a      *)
(* constructor that gave up explains it.                                    *)
THEOREM ServerInvariant == ServerSpec => []ServerInv
<1> QED
  BY ServerInitInv, ServerStepInv, PTL DEF ServerSpec

-----------------------------------------------------------------------------
(* RtpMonitor: the sampling goroutine and the callers of Stop.              *)

(* The alerts of a sequence of readings, and of one that is one longer.     *)
LEMMA ShownIsNat ==
  ASSUME NEW q \in Seq(Readings)
  PROVE  Shown(q) \in Nat /\ Shown(q) <= Len(q) /\ Len(q) \in Nat
<1> DEFINE D == 1 .. Len(q)
           A == {i \in D : Alerting(q[i])}
<1>1. DOMAIN q = D /\ Len(q) \in Nat
  OBVIOUS
<1>2. IsFiniteSet(D) /\ Cardinality(D) = Len(q)
  BY <1>1, FS_Interval, SMTT(30)
<1>3. A \in SUBSET D
  OBVIOUS
<1>4. IsFiniteSet(A) /\ Cardinality(A) <= Len(q) /\ Cardinality(A) \in Nat
  <2> HIDE DEF A, D
  <2> QED
    BY <1>2, <1>3, FS_Subset, FS_CardinalityType
<1>5. Shown(q) = Cardinality(A)
  BY <1>1 DEF Shown
<1> QED
  BY <1>1, <1>4, <1>5

(* An appended reading counts when it alerts.                               *)
LEMMA ShownAppend ==
  ASSUME NEW q \in Seq(Readings), NEW x \in Readings
  PROVE  Shown(Append(q, x)) = Shown(q) + (IF Alerting(x) THEN 1 ELSE 0)
<1> DEFINE t == Append(q, x)
           A == {i \in DOMAIN q : Alerting(q[i])}
           B == {i \in DOMAIN t : Alerting(t[i])}
           n == Len(q) + 1
<1>1. /\ DOMAIN q = 1 .. Len(q) /\ DOMAIN t = 1 .. n /\ Len(q) \in Nat /\ t[n] = x
      /\ \A i \in 1 .. Len(q) : t[i] = q[i]
  OBVIOUS
<1>2. B = IF Alerting(x) THEN A \cup {n} ELSE A
  <2> HIDE DEF t
  <2>1. ASSUME NEW i \in 1 .. n PROVE i \in B <=> (i \in A \/ (i = n /\ Alerting(x)))
    <3>1. CASE i = n
      BY <1>1, <3>1
    <3>2. CASE i # n
      <4>1. i \in 1 .. Len(q)
        BY <1>1, <3>2
      <4> QED
        BY <1>1, <3>2, <4>1
    <3> QED
      BY <3>1, <3>2
  <2>2. A \subseteq 1 .. n /\ B \subseteq 1 .. n /\ n \in 1 .. n
    BY <1>1
  <2> HIDE DEF A, B, n
  <2> QED
    BY <2>1, <2>2
<1>3. ~ (n \in A)
  BY <1>1
<1>4. IsFiniteSet(A)
  <2>1. IsFiniteSet(1 .. Len(q)) /\ A \in SUBSET (1 .. Len(q))
    BY <1>1, FS_Interval, SMTT(30)
  <2> HIDE DEF A
  <2> QED
    BY <2>1, FS_Subset
<1>5. Cardinality(A \cup {n}) = Cardinality(A) + 1 /\ Cardinality(A) \in Nat
  <2> HIDE DEF A, n
  <2> QED
    BY <1>3, <1>4, FS_AddElement, FS_CardinalityType
<1>6. Cardinality(B) = Cardinality(A) + (IF Alerting(x) THEN 1 ELSE 0)
  <2> HIDE DEF A, B, n
  <2> QED
    BY <1>2, <1>5
<1> QED
  BY <1>6 DEF Shown

(* A reading worse in all respects alerts too, but for a callback that says *)
(* 0 or less, and is not tuned milder.                                      *)
LEMMA WorseAlerts == WorseAlertsToo
<1> SUFFICES ASSUME NEW s \in ReadingsOf(estimator), NEW t \in ReadingsOf(estimator),
                    s.loss <= t.loss, s.jitter <= t.jitter, t.snr <= s.snr
             PROVE  /\ Alerting(s) => Alerting(t) \/ (estimator /\ t.snr <= 0)
                    /\ Wanted(s) <= Wanted(t)
  BY DEF WorseAlertsToo
<1>1. CASE estimator
  <2>1. /\ s.loss \in Nat /\ s.jitter \in Nat /\ s.snr \in Int
        /\ t.loss \in Nat /\ t.jitter \in Nat /\ t.snr \in Int
    BY <1>1, MonitorAssumption DEF ReadingsOf, Reading
  <2> QED
    BY <1>1, <2>1 DEF Alerting, Wanted, poorLossPct, poorJitterMs, poorSNRDB
<1>2. CASE ~estimator
  <2>1. /\ s.loss \in Nat /\ s.jitter \in Nat /\ s.snr = estimateSNRFromLoss(s.loss)
        /\ t.loss \in Nat /\ t.jitter \in Nat /\ t.snr = estimateSNRFromLoss(t.loss)
    BY <1>2, MonitorAssumption DEF ReadingsOf, Reading
  <2> QED
    BY <2>1 DEF Alerting, Wanted, estimateSNRFromLoss, poorLossPct, poorJitterMs, poorSNRDB
<1> QED
  BY <1>1, <1>2

(* A monitor that has not started.                                          *)
LEMMA MonitorInitInv == NewRTPMonitor => MonitorInv
<1> SUFFICES ASSUME NewRTPMonitor PROVE MonitorInv
  OBVIOUS
<1> USE MonitorAssumption DEF NewRTPMonitor
<1>1. snap \in Readings
  <2>1. PICK l \in Losses, j \in Jitters : TRUE
    OBVIOUS
  <2>2. Reading(l, j, estimateSNRFromLoss(l)) \in Readings
    BY DEF Readings, ReadingsOf
  <2>3. snap = CHOOSE s \in Readings : TRUE
    OBVIOUS
  <2> QED
    BY <2>2, <2>3, Zenon
<1>2. Shown(<< >>) = 0
  <2>1. {i \in DOMAIN << >> : Alerting(<< >>[i])} = {}
    OBVIOUS
  <2> QED
    BY <2>1, FS_EmptySet DEF Shown
<1>3. NoReport \in [snaps : Seq(Readings), alertCount : 0 .. MaxSamples, good : BOOLEAN]
  BY DEF NoReport
<1>4. MonitorTypeOK
  <2>1. << >> \in Seq(Readings) /\ 0 \in 0 .. MaxSamples /\ 0 \in 0 .. 3
    OBVIOUS
  <2>2. /\ stopAt \in [Stops -> {"before", "copy", "build", "done"}]
        /\ copied \in [Stops -> Seq(Readings)]
    BY <2>1
  <2>3. report \in [Stops -> [snaps : Seq(Readings), alertCount : 0 .. MaxSamples, good : BOOLEAN]]
    BY <1>3
  <2>4. sampler = "off" /\ stopCh = FALSE /\ snapshots = << >> /\ alerts = 0 /\ aggressiveness = 0
    OBVIOUS
  <2> QED
    BY <1>1, <2>1, <2>2, <2>3, <2>4, Zenon DEF MonitorTypeOK
<1>5. CountedAhead
  BY <1>2 DEF CountedAhead
<1>6. ReportCoversAlerts /\ TunedToLastSnapshot
  BY DEF ReportCoversAlerts, TunedToLastSnapshot
<1> QED
  BY <1>4, <1>5, <1>6, WorseAlerts DEF MonitorInv

(* What a sample reads is a reading.                                        *)
LEMMA SomeReading == ASSUME estimator \in BOOLEAN PROVE ReadingsOf(estimator) \subseteq Readings
  BY DEF Readings

(* A step of the sampling goroutine. *)
LEMMA SamplerKeepsInv ==
  ASSUME MonitorInv, Start \/ Tick \/ LoopStops \/ CountAlert \/ SetAggressiveness \/ AppendSnapshot
  PROVE  MonitorInv'
<1> USE MonitorAssumption DEF MonitorInv
<1>1. stopAt' = stopAt /\ copied' = copied /\ report' = report /\ estimator' = estimator
  BY DEF Start, Tick, LoopStops, CountAlert, SetAggressiveness, AppendSnapshot, reportVars
<1>2. Shown(snapshots) \in Nat /\ Shown(snapshots) <= Len(snapshots) /\ Len(snapshots) \in Nat
  BY ShownIsNat DEF MonitorTypeOK
<1>3. snapshots' = snapshots \/ (sampler = "append" /\ snapshots' = Append(snapshots, snap))
  BY DEF Start, Tick, LoopStops, CountAlert, SetAggressiveness, AppendSnapshot
<1>4. alerts \in Nat /\ alerts' \in Nat /\ alerts <= alerts' /\ alerts' <= MaxSamples
  BY <1>2 DEF Start, Tick, LoopStops, CountAlert, SetAggressiveness, AppendSnapshot, MonitorTypeOK, CountedAhead
<1>5. \A s \in Stops : copied[s] \in Seq(Readings) /\ Shown(copied[s]) \in Nat
  BY ShownIsNat DEF MonitorTypeOK
<1>6. MonitorTypeOK'
  <2>1. snapshots' \in Seq(Readings) /\ snap' \in Readings
    <3>1. snap' \in Readings
      BY SomeReading DEF Start, Tick, LoopStops, CountAlert, SetAggressiveness, AppendSnapshot, MonitorTypeOK
    <3>2. Append(snapshots, snap) \in Seq(Readings) /\ snapshots \in Seq(Readings)
      BY DEF MonitorTypeOK
    <3> QED
      BY <1>3, <3>1, <3>2
  <2>2. sampler' \in {"off", "select", "count", "tune", "append", "ended"} /\ stopCh' \in BOOLEAN
    BY DEF Start, Tick, LoopStops, CountAlert, SetAggressiveness, AppendSnapshot, MonitorTypeOK
  <2>3. aggressiveness' \in 0 .. 3
    BY DEF Start, Tick, LoopStops, CountAlert, SetAggressiveness, AppendSnapshot, MonitorTypeOK, Wanted
  <2> QED
    BY <1>1, <1>4, <2>1, <2>2, <2>3 DEF MonitorTypeOK
<1>7. ReportCoversAlerts'
  BY <1>1 DEF ReportCoversAlerts
<1>8. CountedAhead'
  <2>1. \A s \in Stops : stopAt'[s] = "build" => Shown(copied'[s]) <= alerts'
    BY <1>1, <1>4, <1>5 DEF CountedAhead
  <2>2. CASE AppendSnapshot
    <3>1. Shown(snapshots') = Shown(snapshots) + (IF Alerting(snap) THEN 1 ELSE 0)
      BY <2>2, ShownAppend DEF AppendSnapshot, MonitorTypeOK
    <3>2. Len(snapshots') = Len(snapshots) + 1
      BY <2>2 DEF AppendSnapshot, MonitorTypeOK
    <3> QED
      BY <1>2, <2>1, <2>2, <3>1, <3>2 DEF AppendSnapshot, CountedAhead
  <2>3. CASE Start \/ Tick \/ LoopStops
    BY <1>1, <1>2, <2>1, <2>3 DEF Start, Tick, LoopStops, CountedAhead
  <2>4. CASE CountAlert
    BY <1>1, <1>2, <2>1, <2>4 DEF CountAlert, CountedAhead
  <2>5. CASE SetAggressiveness
    BY <1>1, <1>2, <2>1, <2>5 DEF SetAggressiveness, CountedAhead
  <2> QED
    BY <2>2, <2>3, <2>4, <2>5
<1>9. TunedToLastSnapshot'
  <2>1. CASE AppendSnapshot
    <3>1. /\ Shown(snapshots') = Shown(snapshots) + (IF Alerting(snap) THEN 1 ELSE 0)
          /\ Last(snapshots') = snap
      BY <2>1, ShownAppend DEF AppendSnapshot, MonitorTypeOK, Last
    <3> QED
      BY <2>1, <3>1 DEF AppendSnapshot, CountedAhead, TunedToLastSnapshot
  <2>2. CASE Start \/ Tick \/ LoopStops \/ CountAlert \/ SetAggressiveness
    <3> QED
      BY <2>2 DEF CountedAhead, Start, Tick, LoopStops, CountAlert, SetAggressiveness, TunedToLastSnapshot
  <2> QED
    BY <2>1, <2>2
<1> QED
  BY <1>1, <1>6, <1>7, <1>8, <1>9, WorseAlerts DEF WorseAlertsToo

(* A step of a Stop. *)
LEMMA StopMonitorKeepsInv ==
  ASSUME MonitorInv, NEW s \in Stops, StopMonitor(s) \/ StopCopy(s) \/ BuildReport(s)
  PROVE  MonitorInv'
<1> USE MonitorAssumption DEF MonitorInv
<1>1. UNCHANGED <<estimator, sampler, snap, snapshots, alerts, aggressiveness>> /\ stopCh' \in BOOLEAN
  BY DEF StopMonitor, StopCopy, BuildReport, MonitorTypeOK
<1>2. /\ stopAt \in [Stops -> {"before", "copy", "build", "done"}] /\ copied \in [Stops -> Seq(Readings)]
      /\ report \in [Stops -> [snaps : Seq(Readings), alertCount : 0 .. MaxSamples, good : BOOLEAN]]
      /\ snapshots \in Seq(Readings) /\ alerts \in 0 .. MaxSamples
  BY DEF MonitorTypeOK
<1>3. Shown(snapshots) <= alerts /\ alerts \in Nat
  BY <1>2, ShownIsNat DEF CountedAhead
<1>4. TunedToLastSnapshot'
  BY <1>1 DEF TunedToLastSnapshot
<1>5. CASE StopMonitor(s)
  <2>1. copied' = copied /\ report' = report
        /\ stopAt' = [stopAt EXCEPT ![s] = "copy"]
    BY <1>5 DEF StopMonitor
  <2>2. MonitorTypeOK'
    BY <1>1, <1>2, <2>1 DEF MonitorTypeOK
  <2>3. CountedAhead' /\ ReportCoversAlerts'
    BY <1>1, <1>2, <2>1 DEF CountedAhead, ReportCoversAlerts
  <2> QED
    BY <1>1, <1>4, <2>2, <2>3, WorseAlerts DEF WorseAlertsToo
<1>6. CASE StopCopy(s)
  <2>1. /\ copied' = [copied EXCEPT ![s] = snapshots] /\ report' = report
        /\ stopAt' = [stopAt EXCEPT ![s] = "build"]
    BY <1>6 DEF StopCopy
  <2>2. MonitorTypeOK'
    BY <1>1, <1>2, <2>1 DEF MonitorTypeOK
  <2>3. CountedAhead' /\ ReportCoversAlerts'
    BY <1>1, <1>2, <1>3, <2>1 DEF CountedAhead, ReportCoversAlerts
  <2> QED
    BY <1>1, <1>4, <2>2, <2>3, WorseAlerts DEF WorseAlertsToo
<1>7. CASE BuildReport(s)
  <2> DEFINE new == [snaps |-> copied[s], alertCount |-> alerts, good |-> alerts = 0]
  <2>1. /\ copied' = copied /\ stopAt' = [stopAt EXCEPT ![s] = "done"]
        /\ report' = [report EXCEPT ![s] = new] /\ stopAt[s] = "build"
    BY <1>7 DEF BuildReport
  <2>2. new \in [snaps : Seq(Readings), alertCount : 0 .. MaxSamples, good : BOOLEAN]
    <3>1. (alerts = 0) \in BOOLEAN /\ copied[s] \in Seq(Readings)
      BY <1>2
    <3> QED
      BY <1>2, <3>1
  <2>3. MonitorTypeOK'
    <3> HIDE DEF new
    <3> QED
      BY <1>1, <1>2, <2>1, <2>2 DEF MonitorTypeOK
  <2>4. CountedAhead'
    BY <1>1, <1>2, <2>1 DEF CountedAhead
  <2>5. ReportCoversAlerts'
    <3>1. /\ new.snaps = copied[s] /\ new.alertCount = alerts /\ (new.good => alerts = 0)
          /\ Shown(copied[s]) <= alerts /\ Shown(copied[s]) \in Nat
      BY <1>2, <2>1, ShownIsNat DEF CountedAhead
    <3>2. new.alertCount >= Shown(new.snaps) /\ (new.good => Shown(new.snaps) = 0)
      <4> HIDE DEF new
      <4> QED
        BY <1>3, <3>1
    <3> HIDE DEF new
    <3>3. \A x \in Stops : /\ x = s => report'[x] = new
                           /\ x # s => report'[x] = report[x] /\ stopAt'[x] = stopAt[x]
      BY <1>2, <2>1
    <3> QED
      BY <3>2, <3>3 DEF ReportCoversAlerts
  <2> QED
    BY <1>1, <1>4, <2>3, <2>4, <2>5, WorseAlerts DEF WorseAlertsToo
<1> QED
  BY <1>5, <1>6, <1>7

(* No report counts fewer alerts than its snapshots show, and between two   *)
(* samples the pipeline is tuned to the last one, for any readings, number  *)
(* of samples and of Stops.                                                 *)
THEOREM MonitorInvariant == MonitorSpec => []MonitorInv
<1>1. NewRTPMonitor => MonitorInv
  BY MonitorInitInv
<1>2. MonitorInv /\ [MonitorNext]_monitorVars => MonitorInv'
  <2> SUFFICES ASSUME MonitorInv, [MonitorNext]_monitorVars PROVE MonitorInv'
    OBVIOUS
  <2>1. CASE Start \/ Tick \/ LoopStops \/ CountAlert \/ SetAggressiveness \/ AppendSnapshot
    BY <2>1, SamplerKeepsInv
  <2>2. CASE \E s \in Stops : StopMonitor(s) \/ StopCopy(s) \/ BuildReport(s)
    BY <2>2, StopMonitorKeepsInv
  <2>3. CASE UNCHANGED monitorVars
    <3>1. UNCHANGED <<estimator, sampler, snap, stopCh, snapshots, alerts, aggressiveness, stopAt, copied, report>>
      BY <2>3 DEF monitorVars
    <3> QED
      BY <3>1 DEF MonitorInv, MonitorTypeOK, ReportCoversAlerts, TunedToLastSnapshot, WorseAlertsToo, CountedAhead
  <2> QED
    BY <2>1, <2>2, <2>3 DEF MonitorNext
<1> QED
  BY <1>1, <1>2, PTL DEF MonitorSpec
=============================================================================
