--------------------------- MODULE SipProxyProofs ---------------------------
(***************************************************************************)
(* Proofs about the call map of the SIP proxy.                              *)
(***************************************************************************)
EXTENDS SipProxy, TLAPS

-----------------------------------------------------------------------------
(* Sequences of sessions by the sets of their elements.                     *)
LEMMA SetOfEmpty == ToSet(<< >>) = {}
<1> QED
  BY DEF ToSet

LEMMA SetOfAppend ==
  ASSUME NEW S, NEW s \in Seq(S), NEW e \in S
  PROVE  ToSet(Append(s, e)) = ToSet(s) \cup {e}
<1> DEFINE t == Append(s, e)
<1>1. /\ t \in Seq(S) /\ Len(s) \in Nat /\ Len(t) = Len(s) + 1 /\ t[Len(t)] = e
      /\ \A i \in 1 .. Len(s) : t[i] = s[i]
      /\ DOMAIN s = 1 .. Len(s) /\ DOMAIN t = 1 .. Len(t)
  OBVIOUS
<1>2. 1 .. Len(t) = 1 .. Len(s) \cup {Len(t)}
  BY <1>1
<1> HIDE DEF t
<1>3. ToSet(t) = ToSet(s) \cup {e}
  BY <1>1, <1>2 DEF ToSet
<1> QED
  BY <1>3 DEF t

LEMMA SetOfHeadAndTail ==
  ASSUME NEW S, NEW s \in Seq(S), s # << >>
  PROVE  /\ Head(s) \in S /\ Tail(s) \in Seq(S)
         /\ ToSet(s) = {Head(s)} \cup ToSet(Tail(s))
         /\ Tail(s) = << >> <=> Len(s) <= 1
<1> DEFINE t == Tail(s)
<1>1. /\ t \in Seq(S) /\ Len(s) \in Nat \ {0} /\ Len(t) = Len(s) - 1 /\ Head(s) = s[1]
      /\ \A i \in 1 .. Len(s) - 1 : t[i] = s[i + 1]
      /\ DOMAIN s = 1 .. Len(s) /\ DOMAIN t = 1 .. Len(s) - 1
      /\ Head(s) \in S
  OBVIOUS
<1>2. t = << >> <=> Len(s) <= 1
  BY <1>1
<1> HIDE DEF t
<1>3. ToSet(s) \subseteq {Head(s)} \cup ToSet(t)
  <2>1. ASSUME NEW i \in 1 .. Len(s), i # 1 PROVE s[i] \in ToSet(t)
    <3>1. i - 1 \in 1 .. Len(s) - 1 /\ t[i - 1] = s[i]
      BY <1>1, <2>1
    <3> QED
      BY <1>1, <3>1 DEF ToSet
  <2> QED
    BY <1>1, <2>1 DEF ToSet
<1>4. {Head(s)} \cup ToSet(t) \subseteq ToSet(s)
  <2>1. \A i \in 1 .. Len(s) - 1 : i + 1 \in 1 .. Len(s)
    BY <1>1
  <2>2. 1 \in 1 .. Len(s)
    BY <1>1
  <2> QED
    BY <1>1, <2>1, <2>2 DEF ToSet
<1> QED
  BY <1>1, <1>2, <1>3, <1>4 DEF t

LEMMA SetInRange ==
  ASSUME NEW S, NEW s \in Seq(S)
  PROVE  ToSet(s) \subseteq S /\ (s = << >> <=> ToSet(s) = {})
<1>1. \A i \in DOMAIN s : s[i] \in S
  OBVIOUS
<1>2. s # << >> => 1 \in DOMAIN s
  OBVIOUS
<1> QED
  BY <1>1, <1>2, SetOfEmpty DEF ToSet

-----------------------------------------------------------------------------
(* What is inductive; SocketsAccounted follows from it.                     *)
ProxyIInv == ProxyTypeOK /\ AtHand /\ OnePlace /\ StoppedOrHeld /\ OneStopper

LEMMA ProxyPromise == ProxyIInv => ProxyInv
<1> SUFFICES ASSUME ProxyIInv PROVE ProxyInv
  OBVIOUS
<1>1. ASSUME NEW i \in Ids, conn[i] = "open" \/ rtcpConn[i] = "open" PROVE Owned(i)
  BY <1>1 DEF ProxyIInv, StoppedOrHeld, Owned, Private
<1> QED
  BY <1>1 DEF ProxyIInv, ProxyInv, SocketsAccounted

LEMMA ProxyInitInv == ProxyInit => ProxyIInv
<1> SUFFICES ASSUME ProxyInit PROVE ProxyIInv
  OBVIOUS
<1> USE DEF ProxyInit, RtpInit
<1>1. ProxyTypeOK
  BY DEF ProxyTypeOK, RtpTypeOK, Steps, Loops
<1>2. /\ \A c \in Calls : ToSet(sessions[c]) = {}
      /\ \A h \in Handlers : ToSet(mine[h]) = {} /\ ToSet(todo[h]) = {}
  BY SetOfEmpty
<1>3. AtHand
  BY DEF AtHand
<1>4. OnePlace /\ StoppedOrHeld /\ OneStopper
  BY <1>2 DEF OnePlace, StoppedOrHeld, OneStopper, Owned, InMap, Private, Stopping
<1> QED
  BY <1>1, <1>3, <1>4 DEF ProxyIInv

(* A step that moves no session and unmakes no stopped one leaves the       *)
(* ownership of every session as it is.                                     *)
SocketsStay ==
  \A k \in Ids :
    /\ conn'[k] = "none" <=> conn[k] = "none"
    /\ conn[k] = "none" /\ loops[k] = {} /\ rtcpConn[k] = "none" => loops'[k] = {} /\ rtcpConn'[k] = "none"
    /\ conn[k] = "closed" /\ rtcpReady[k] /\ rtcpConn[k] # "open"
         => conn'[k] = "closed" /\ rtcpReady'[k] /\ rtcpConn'[k] # "open"

LEMMA OwnersStay ==
  ASSUME ProxyIInv, sessions' = sessions, todo' = todo, SocketsStay,
         \A g \in Handlers : ToSet(mine'[g]) \subseteq ToSet(mine[g]) /\ Private(g)' = Private(g)
  PROVE  OnePlace' /\ OneStopper' /\ StoppedOrHeld'
<1>1. /\ \A k \in Ids : InMap(k)' = InMap(k)
      /\ \A g \in Handlers : Stopping(g)' = Stopping(g)
      /\ \A g \in Handlers : Stopping(g) \subseteq Ids /\ Private(g) \subseteq Ids
  BY SetInRange, SetOfEmpty DEF InMap, Stopping, Private, ProxyIInv, ProxyTypeOK
<1>2. OneStopper'
  BY <1>1 DEF OneStopper, ProxyIInv
<1>3. OnePlace'
  <2>1. ASSUME NEW g \in Handlers, NEW k \in Private(g)'
        PROVE  /\ ~InMap(k)'
               /\ \A f \in Handlers : k \notin Stopping(f)' /\ (f # g => k \notin ToSet(mine'[f]))
    <3>1. k \in Private(g) /\ k \in Ids
      BY <1>1, <2>1
    <3>2. ~InMap(k) /\ \A f \in Handlers : k \notin Stopping(f) /\ (f # g => k \notin ToSet(mine[f]))
      BY <3>1 DEF OnePlace, ProxyIInv
    <3> QED
      BY <1>1, <3>1, <3>2
  <2>2. \A c, d \in Calls : c # d => ToSet(sessions'[c]) \cap ToSet(sessions'[d]) = {}
    BY DEF OnePlace, ProxyIInv
  <2> QED
    BY <2>1, <2>2 DEF OnePlace
<1>4. \A k \in Ids : Owned(k)' => Owned(k)
  BY <1>1 DEF Owned
<1>5. ASSUME NEW k \in Ids
      PROVE  IF conn'[k] = "none"
             THEN ~Owned(k)' /\ loops'[k] = {} /\ rtcpConn'[k] = "none"
             ELSE \/ InMap(k)' \/ \E g \in Handlers : k \in Private(g)' \cup Stopping(g)'
                  \/ conn'[k] = "closed" /\ rtcpReady'[k] /\ rtcpConn'[k] # "open"
  <2>1. CASE conn[k] = "none"
    <3>1. ~Owned(k) /\ loops[k] = {} /\ rtcpConn[k] = "none"
      BY <2>1 DEF StoppedOrHeld, ProxyIInv
    <3> QED
      BY <1>4, <2>1, <3>1 DEF SocketsStay
  <2>2. CASE conn[k] # "none"
    <3>1. \/ InMap(k) \/ \E g \in Handlers : k \in Private(g) \cup Stopping(g)
          \/ conn[k] = "closed" /\ rtcpReady[k] /\ rtcpConn[k] # "open"
      BY <2>2 DEF StoppedOrHeld, ProxyIInv
    <3> QED
      BY <1>1, <2>2, <3>1 DEF SocketsStay
  <2> QED
    BY <2>1, <2>2
<1> QED
  BY <1>2, <1>3, <1>5 DEF StoppedOrHeld

LEMMA CreatedOnce ==
  ASSUME ProxyIInv, NEW k \in Ids, Owned(k) \/ loops[k] # {} \/ rtcpConn[k] # "none"
  PROVE  conn[k] # "none"
<1> QED
  BY DEF StoppedOrHeld, ProxyIInv

(* A request, and the sessions it creates. *)
LEMMA CreateKeepsInv ==
  ASSUME ProxyIInv, NEW h \in Handlers, Request(h) \/ CreateSession(h) \/ CreateFails(h) \/ Created(h)
  PROVE  ProxyIInv'
<1> USE DEF ProxyIInv, Goto, rtpVars, handlerVars
<1>0. /\ \A c \in Calls : sessions[c] \in Seq(Ids)
      /\ \A g \in Handlers : mine[g] \in Seq(Ids) /\ todo[g] \in Seq(Ids)
  BY DEF ProxyTypeOK
<1>1. CASE Request(h)
  <2>0. PICK c \in Calls : call' = [call EXCEPT ![h] = c]
    BY <1>1 DEF Request
  <2>1. ProxyTypeOK'
    <3>1. pc' \in [Handlers -> Steps] /\ call' \in [Handlers -> Calls]
      BY <1>1, <2>0 DEF Request, ProxyTypeOK, Steps
    <3> QED
      BY <1>1, <3>1 DEF Request, ProxyTypeOK, RtpTypeOK
  <2>2. AtHand'
    BY <1>1 DEF Request, ProxyTypeOK, RtpTypeOK, AtHand, Steps
  <2>5. sessions' = sessions /\ todo' = todo /\ SocketsStay
    BY <1>1 DEF Request, SocketsStay
  <2>61. mine' = mine /\ mine[h] = << >> /\ pc[h] = "idle" /\ \A g \in Handlers \ {h} : pc'[g] = pc[g]
    BY <1>1 DEF Request, AtHand, ProxyTypeOK
  <2>6. \A g \in Handlers : ToSet(mine'[g]) \subseteq ToSet(mine[g]) /\ Private(g)' = Private(g)
    BY <2>61, SetOfEmpty DEF Private
  <2>3. OnePlace' /\ OneStopper' /\ StoppedOrHeld'
    BY <2>5, <2>6, OwnersStay
  <2> QED
    BY <2>1, <2>2, <2>3
<1>2. CASE CreateSession(h)
  <2>0. PICK i \in Ids : NewSession(i) /\ mine' = [mine EXCEPT ![h] = Append(@, i)]
    BY <1>2 DEF CreateSession
  <2>01. ToSet(mine'[h]) = ToSet(mine[h]) \cup {i} /\ mine'[h] \in Seq(Ids)
    BY <1>0, <2>0, SetOfAppend DEF ProxyTypeOK
  <2>1. ProxyTypeOK'
    BY <1>2, <2>0, <2>01 DEF CreateSession, NewSession, ProxyTypeOK, RtpTypeOK, Steps, Loops
  <2>2. AtHand'
    BY <1>2, <2>0, <2>01 DEF CreateSession, NewSession, ProxyTypeOK, RtpTypeOK, AtHand, Steps
  <2>02. /\ Private(h)' = Private(h) \cup {i} /\ \A g \in Handlers \ {h} : Private(g)' = Private(g)
         /\ \A g \in Handlers \ {h} : mine'[g] = mine[g]
         /\ \A g \in Handlers : Stopping(g)' = Stopping(g)
         /\ \A k \in Ids : InMap(k)' = InMap(k)
         /\ sessions' = sessions
    BY <1>2, <2>0, <2>01 DEF CreateSession, Private, Stopping, InMap, ProxyTypeOK
  <2>03. /\ ~Owned(i) /\ conn[i] = "none" /\ conn'[i] = "open"
         /\ \A k \in Ids \ {i} : conn'[k] = conn[k]
         /\ UNCHANGED <<rtcpConn, rtcpReady, loops>>
    BY <2>0 DEF NewSession, StoppedOrHeld, ProxyTypeOK, RtpTypeOK
  <2>3. OnePlace' /\ OneStopper'
    <3>1. \A g \in Handlers : Private(g) \subseteq Ids /\ Stopping(g) \subseteq Ids
      BY <1>0, SetInRange DEF Private, Stopping
    <3>2. OneStopper'
      BY <2>02, <3>1 DEF OneStopper
    <3>3. /\ ~InMap(i)
          /\ \A g \in Handlers : i \notin ToSet(mine[g]) /\ i \notin Stopping(g) /\ i \notin Private(g)
      BY <2>03 DEF Owned, Private
    <3>4. Private(h)' \subseteq Ids /\ \A g \in Handlers : Private(g)' \subseteq Private(g) \cup {i}
      BY <2>02, <3>1
    <3>5. ASSUME NEW g \in Handlers, NEW k \in Private(g)'
          PROVE  /\ ~InMap(k)'
                 /\ \A f \in Handlers : k \notin Stopping(f)' /\ (f # g => k \notin ToSet(mine'[f]))
      <4>1. CASE k = i
        <5>1. g = h
          BY <2>02, <3>3, <3>5, <4>1
        <5> QED
          BY <2>02, <3>3, <4>1, <5>1
      <4>2. CASE k # i
        <5>1. k \in Private(g) /\ k \in Ids
          BY <2>02, <3>1, <3>5, <4>2
        <5>2. /\ ~InMap(k)
              /\ \A f \in Handlers : k \notin Stopping(f) /\ (f # g => k \notin ToSet(mine[f]))
          BY <5>1 DEF OnePlace
        <5>3. \A f \in Handlers : ToSet(mine'[f]) \subseteq ToSet(mine[f]) \cup {i}
          BY <2>01, <2>02
        <5> QED
          BY <2>02, <4>2, <5>1, <5>2, <5>3
      <4> QED
        BY <4>1, <4>2
    <3>6. \A c, d \in Calls : c # d => ToSet(sessions'[c]) \cap ToSet(sessions'[d]) = {}
      BY <2>02 DEF OnePlace
    <3> QED
      BY <3>2, <3>5, <3>6 DEF OnePlace
  <2>4. StoppedOrHeld'
    <3>1. \A k \in Ids \ {i} : Owned(k)' = Owned(k)
      BY <2>01, <2>02 DEF Owned
    <3> QED
      BY <2>02, <2>03, <3>1 DEF StoppedOrHeld
  <2> QED
    BY <2>1, <2>2, <2>3, <2>4
<1>3. CASE CreateFails(h)
  <2>1. ProxyTypeOK'
    BY <1>3 DEF CreateFails, ProxyTypeOK, RtpTypeOK, Steps, Loops
  <2>2. AtHand'
    BY <1>3 DEF CreateFails, ProxyTypeOK, RtpTypeOK, AtHand, Steps
  <2>5. sessions' = sessions /\ todo' = todo /\ SocketsStay
    BY <1>3 DEF CreateFails, SocketsStay
  <2>61. mine' = mine /\ (mine[h] = << >>) /\ pc' = [pc EXCEPT ![h] = "idle"]
    BY <1>3 DEF CreateFails
  <2>6. \A g \in Handlers : ToSet(mine'[g]) \subseteq ToSet(mine[g]) /\ Private(g)' = Private(g)
    BY <2>61, SetOfEmpty DEF Private, ProxyTypeOK
  <2>3. OnePlace' /\ OneStopper' /\ StoppedOrHeld'
    BY <2>5, <2>6, OwnersStay
  <2> QED
    BY <2>1, <2>2, <2>3
<1>4. CASE Created(h)
  <2>1. ProxyTypeOK'
    BY <1>4 DEF Created, ProxyTypeOK, RtpTypeOK, Steps, Loops
  <2>2. AtHand'
    BY <1>4 DEF Created, ProxyTypeOK, RtpTypeOK, AtHand, Steps
  <2>5. sessions' = sessions /\ todo' = todo /\ SocketsStay
    BY <1>4 DEF Created, SocketsStay
  <2>61. mine' = mine /\ (pc[h] = "create") /\ pc' = [pc EXCEPT ![h] = "insert"]
    BY <1>4 DEF Created
  <2>6. \A g \in Handlers : ToSet(mine'[g]) \subseteq ToSet(mine[g]) /\ Private(g)' = Private(g)
    BY <2>61, SetOfEmpty DEF Private, ProxyTypeOK
  <2>3. OnePlace' /\ OneStopper' /\ StoppedOrHeld'
    BY <2>5, <2>6, OwnersStay
  <2> QED
    BY <2>1, <2>2, <2>3
<1> QED
  BY <1>1, <1>2, <1>3, <1>4

(* The two critical sections. *)
LEMMA MapKeepsInv ==
  ASSUME ProxyIInv, NEW h \in Handlers, Insert(h) \/ Take(h)
  PROVE  ProxyIInv'
<1> USE DEF ProxyIInv, Goto, rtpVars, handlerVars
<1>0. /\ \A c \in Calls : sessions[c] \in Seq(Ids)
      /\ \A g \in Handlers : mine[g] \in Seq(Ids) /\ todo[g] \in Seq(Ids)
  BY DEF ProxyTypeOK
<1>1. CASE Insert(h)
  <2>1. ProxyTypeOK'
    BY <1>1 DEF Insert, ProxyTypeOK, RtpTypeOK, Steps, Loops
  <2>2. AtHand'
    BY <1>1 DEF Insert, ProxyTypeOK, RtpTypeOK, AtHand, Steps
  <2>5. /\ Stopping(h)' = ToSet(sessions[call[h]]) /\ Stopping(h) = {} /\ Private(h) = ToSet(mine[h])
        /\ \A g \in Handlers \ {h} : Stopping(g)' = Stopping(g) /\ Private(g)' = Private(g)
    BY <1>1, SetOfEmpty DEF Insert, ProxyTypeOK, Stopping, Private, AtHand
  <2>6. /\ ToSet(sessions'[call[h]]) = ToSet(mine[h]) /\ mine' = mine
        /\ \A c \in Calls \ {call[h]} : sessions'[c] = sessions[c]
        /\ call[h] \in Calls /\ UNCHANGED rtpVars
    BY <1>1 DEF Insert, ProxyTypeOK
  <2>7. /\ \A k \in ToSet(sessions[call[h]]) : InMap(k) /\ \A g \in Handlers : k \notin Private(g) \cup Stopping(g)
        /\ \A c \in Calls \ {call[h]} : ToSet(sessions[c]) \cap ToSet(sessions[call[h]]) = {}
    BY <2>6 DEF OnePlace, OneStopper, InMap
  <2>8. ASSUME NEW k, InMap(k)' PROVE k \in Private(h) \/ (InMap(k) /\ k \notin ToSet(sessions[call[h]]))
    BY <2>5, <2>6, <2>7, <2>8 DEF InMap
  <2>81. Private(h)' = {}
    BY <1>1, <2>6 DEF Insert, Private, ProxyTypeOK
  <2>3. OnePlace' /\ OneStopper'
    <3>1. ASSUME NEW f \in Handlers, NEW g \in Handlers, f # g, NEW k \in Stopping(f)' PROVE k \notin Stopping(g)'
      BY <2>5, <2>7, <3>1 DEF OneStopper
    <3>2. ASSUME NEW g \in Handlers, NEW k \in Stopping(g)' PROVE ~InMap(k)'
      BY <2>5, <2>7, <2>8, <3>2 DEF OneStopper, OnePlace
    <3>3. ASSUME NEW c \in Calls, NEW d \in Calls, c # d, NEW k \in ToSet(sessions'[c]) PROVE k \notin ToSet(sessions'[d])
      <4>1. ASSUME NEW e \in Calls \ {call[h]} PROVE ToSet(mine[h]) \cap ToSet(sessions[e]) = {}
        BY <2>5, <4>1 DEF OnePlace, InMap
      <4> QED
        BY <2>6, <3>3, <4>1 DEF OnePlace
    <3>4. ASSUME NEW g \in Handlers, NEW k \in Private(g)'
          PROVE  ~InMap(k)' /\ \A f \in Handlers : k \notin Stopping(f)' /\ (f # g => k \notin ToSet(mine'[f]))
      <4>1. g # h /\ k \in Private(g)
        BY <2>5, <2>81, <3>4
      <4>2. /\ ~InMap(k) /\ k \notin ToSet(mine[h])
            /\ \A f \in Handlers : k \notin Stopping(f) /\ (f # g => k \notin ToSet(mine[f]))
        BY <4>1 DEF OnePlace
      <4> QED
        BY <2>5, <2>6, <2>7, <2>8, <4>2
    <3> QED
      BY <3>1, <3>2, <3>3, <3>4 DEF OnePlace, OneStopper
  <2>4. StoppedOrHeld'
    <3>3. ASSUME NEW i \in Ids PROVE Owned(i)' => Owned(i)
      BY <2>5, <2>6 DEF Owned, InMap
    <3>4. ASSUME NEW i \in Ids, InMap(i) PROVE InMap(i)' \/ i \in Stopping(h)'
      BY <2>5, <2>6, <3>4 DEF InMap
    <3>5. ASSUME NEW i \in Ids, NEW g \in Handlers, i \in Private(g) \cup Stopping(g)
          PROVE  InMap(i)' \/ i \in Private(g)' \cup Stopping(g)'
      <4>1. CASE g = h
        BY <2>5, <2>6, <3>5, <4>1 DEF InMap
      <4>2. CASE g # h
        BY <2>5, <3>5, <4>2
      <4> QED
        BY <4>1, <4>2
    <3> QED
      BY <2>6, <3>3, <3>4, <3>5 DEF StoppedOrHeld
  <2> QED
    BY <2>1, <2>2, <2>3, <2>4
<1>2. CASE Take(h)
  <2>1. ProxyTypeOK'
    BY <1>2 DEF Take, ProxyTypeOK, RtpTypeOK, Steps, Loops
  <2>2. AtHand'
    BY <1>2 DEF Take, ProxyTypeOK, RtpTypeOK, AtHand, Steps
  <2>5. /\ Stopping(h)' = ToSet(sessions[call[h]]) /\ Stopping(h) = {}
        /\ \A g \in Handlers \ {h} : Stopping(g)' = Stopping(g)
        /\ \A g \in Handlers : Private(g)' = Private(g)
    BY <1>2, SetOfEmpty DEF Take, ProxyTypeOK, Stopping, Private, AtHand
  <2>6. /\ ToSet(sessions'[call[h]]) = {} /\ mine' = mine
        /\ \A c \in Calls \ {call[h]} : sessions'[c] = sessions[c]
        /\ call[h] \in Calls /\ UNCHANGED rtpVars
    BY <1>2, SetOfEmpty DEF Take, ProxyTypeOK
  <2>7. /\ \A k \in ToSet(sessions[call[h]]) : InMap(k) /\ \A g \in Handlers : k \notin Private(g) \cup Stopping(g)
        /\ \A c \in Calls \ {call[h]} : ToSet(sessions[c]) \cap ToSet(sessions[call[h]]) = {}
    BY <2>6 DEF OnePlace, OneStopper, InMap
  <2>8. ASSUME NEW k, InMap(k)' PROVE k \in {} \/ (InMap(k) /\ k \notin ToSet(sessions[call[h]]))
    BY <2>6, <2>7, <2>8 DEF InMap
  <2>3. OnePlace' /\ OneStopper'
    <3>1. ASSUME NEW f \in Handlers, NEW g \in Handlers, f # g, NEW k \in Stopping(f)' PROVE k \notin Stopping(g)'
      BY <2>5, <2>7, <3>1 DEF OneStopper
    <3>2. ASSUME NEW g \in Handlers, NEW k \in Stopping(g)' PROVE ~InMap(k)'
      BY <2>5, <2>7, <2>8, <3>2 DEF OneStopper
    <3>3. ASSUME NEW c \in Calls, NEW d \in Calls, c # d, NEW k \in ToSet(sessions'[c]) PROVE k \notin ToSet(sessions'[d])
      BY <2>6, <3>3 DEF OnePlace
    <3>4. ASSUME NEW g \in Handlers, NEW k \in Private(g)'
          PROVE  ~InMap(k)' /\ \A f \in Handlers : k \notin Stopping(f)' /\ (f # g => k \notin ToSet(mine'[f]))
      <4>1. /\ k \in Private(g) /\ ~InMap(k)
            /\ \A f \in Handlers : k \notin Stopping(f) /\ (f # g => k \notin ToSet(mine[f]))
        BY <2>5, <3>4 DEF OnePlace
      <4> QED
        BY <2>5, <2>6, <2>7, <2>8, <4>1
    <3> QED
      BY <3>1, <3>2, <3>3, <3>4 DEF OnePlace, OneStopper
  <2>4. StoppedOrHeld'
    <3>3. ASSUME NEW i \in Ids PROVE Owned(i)' => Owned(i)
      BY <2>5, <2>6 DEF Owned, InMap
    <3>4. ASSUME NEW i \in Ids, InMap(i) PROVE InMap(i)' \/ i \in Stopping(h)'
      BY <2>5, <2>6, <3>4 DEF InMap
    <3>5. ASSUME NEW i \in Ids, NEW g \in Handlers, i \in Private(g) \cup Stopping(g)
          PROVE  i \in Private(g)' \cup Stopping(g)'
      BY <2>5, <3>5
    <3> QED
      BY <2>6, <3>3, <3>4, <3>5 DEF StoppedOrHeld
  <2> QED
    BY <2>1, <2>2, <2>3, <2>4
<1> QED
  BY <1>1, <1>2

(* Start, perhaps of a session another handler is stopping. *)
LEMMA LaunchKeepsInv ==
  ASSUME ProxyIInv, NEW h \in Handlers, LaunchSession(h) \/ Launched(h)
  PROVE  ProxyIInv'
<1> USE DEF ProxyIInv, Goto, rtpVars, handlerVars
<1>0. /\ \A c \in Calls : sessions[c] \in Seq(Ids)
      /\ \A g \in Handlers : mine[g] \in Seq(Ids) /\ todo[g] \in Seq(Ids)
  BY DEF ProxyTypeOK
<1>1. CASE LaunchSession(h)
  <2>0. /\ Head(mine[h]) \in Ids /\ Tail(mine[h]) \in Seq(Ids)
        /\ ToSet(mine[h]) = {Head(mine[h])} \cup ToSet(Tail(mine[h]))
    BY <1>0, <1>1, SetOfHeadAndTail DEF LaunchSession
  <2>1. ProxyTypeOK'
    BY <1>1, <2>0 DEF LaunchSession, Start, ProxyTypeOK, RtpTypeOK, Steps, Loops
  <2>2. AtHand'
    BY <1>1, <2>0 DEF LaunchSession, Start, ProxyTypeOK, RtpTypeOK, AtHand, Steps
  <2>4. /\ UNCHANGED <<sessions, todo, pc, conn, rtcpConn, rtcpReady>>
        /\ loops' = [loops EXCEPT ![Head(mine[h])] = Loops]
        /\ mine' = [mine EXCEPT ![h] = Tail(@)]
        /\ pc[h] = "launch"
    BY <1>1 DEF LaunchSession, Start
  <2>41. conn[Head(mine[h])] # "none"
    BY <2>0, CreatedOnce DEF Owned
  <2>5. sessions' = sessions /\ todo' = todo /\ SocketsStay
    BY <2>4, <2>41 DEF SocketsStay, ProxyTypeOK, RtpTypeOK
  <2>6. \A g \in Handlers : ToSet(mine'[g]) \subseteq ToSet(mine[g]) /\ Private(g)' = Private(g)
    BY <2>0, <2>4 DEF Private, ProxyTypeOK
  <2>3. OnePlace' /\ OneStopper' /\ StoppedOrHeld'
    BY <2>5, <2>6, OwnersStay
  <2> QED
    BY <2>1, <2>2, <2>3
<1>2. CASE Launched(h)
  <2>1. ProxyTypeOK'
    BY <1>2 DEF Launched, ProxyTypeOK, RtpTypeOK, Steps, Loops
  <2>2. AtHand'
    BY <1>2 DEF Launched, ProxyTypeOK, RtpTypeOK, AtHand, Steps
  <2>5. sessions' = sessions /\ todo' = todo /\ SocketsStay
    BY <1>2 DEF Launched, SocketsStay
  <2>6. \A g \in Handlers : ToSet(mine'[g]) \subseteq ToSet(mine[g]) /\ Private(g)' = Private(g)
    BY <1>2, SetOfEmpty DEF Launched, Private, AtHand, ProxyTypeOK
  <2>3. OnePlace' /\ OneStopper' /\ StoppedOrHeld'
    BY <2>5, <2>6, OwnersStay
  <2> QED
    BY <2>1, <2>2, <2>3
<1> QED
  BY <1>1, <1>2

(* Stop, step by step. *)
LEMMA StopKeepsInv ==
  ASSUME ProxyIInv, NEW h \in Handlers, StopSession(h) \/ StopWaitRTCP(h) \/ StopWaitDone(h)
  PROVE  ProxyIInv'
<1> USE DEF ProxyIInv, Goto, rtpVars, handlerVars
<1>0. /\ \A c \in Calls : sessions[c] \in Seq(Ids)
      /\ \A g \in Handlers : mine[g] \in Seq(Ids) /\ todo[g] \in Seq(Ids)
  BY DEF ProxyTypeOK
<1>1. CASE StopSession(h)
  <2>0. /\ todo[h] # << >> /\ Head(todo[h]) \in Ids /\ Tail(todo[h]) \in Seq(Ids)
        /\ ToSet(todo[h]) = {Head(todo[h])} \cup ToSet(Tail(todo[h]))
        /\ Tail(todo[h]) = << >> <=> Len(todo[h]) <= 1
        /\ Len(todo[h]) \in Nat
    BY <1>0, <1>1, SetOfHeadAndTail DEF StopSession, AtHand
  <2>1. ProxyTypeOK'
    BY <1>1, <2>0 DEF StopSession, StopBegin, ProxyTypeOK, RtpTypeOK, Steps, Loops
  <2>2. AtHand'
    BY <1>1, <2>0 DEF StopSession, StopBegin, ProxyTypeOK, RtpTypeOK, AtHand, Steps
  <2>4. conn[Head(todo[h])] # "none"
    BY <2>0, CreatedOnce DEF Owned, Stopping
  <2>5. sessions' = sessions /\ todo' = todo /\ SocketsStay
    BY <1>1, <2>0, <2>4 DEF StopSession, StopBegin, SocketsStay, ProxyTypeOK, RtpTypeOK
  <2>6. \A g \in Handlers : ToSet(mine'[g]) \subseteq ToSet(mine[g]) /\ Private(g)' = Private(g)
    BY <1>1 DEF StopSession, Private, ProxyTypeOK
  <2>3. OnePlace' /\ OneStopper' /\ StoppedOrHeld'
    BY <2>5, <2>6, OwnersStay
  <2> QED
    BY <2>1, <2>2, <2>3
<1>2. CASE StopWaitRTCP(h)
  <2>0. /\ todo[h] # << >> /\ Head(todo[h]) \in Ids /\ Tail(todo[h]) \in Seq(Ids)
        /\ ToSet(todo[h]) = {Head(todo[h])} \cup ToSet(Tail(todo[h]))
        /\ Tail(todo[h]) = << >> <=> Len(todo[h]) <= 1
        /\ Len(todo[h]) \in Nat
    BY <1>0, <1>2, SetOfHeadAndTail DEF StopWaitRTCP, AtHand
  <2>1. ProxyTypeOK'
    BY <1>2, <2>0 DEF StopWaitRTCP, StopRTCP, ProxyTypeOK, RtpTypeOK, Steps, Loops
  <2>2. AtHand'
    BY <1>2, <2>0 DEF StopWaitRTCP, StopRTCP, ProxyTypeOK, RtpTypeOK, AtHand, Steps
  <2>4. conn[Head(todo[h])] # "none"
    BY <2>0, CreatedOnce DEF Owned, Stopping
  <2>5. sessions' = sessions /\ todo' = todo /\ SocketsStay
    BY <1>2, <2>0, <2>4 DEF StopWaitRTCP, StopRTCP, SocketsStay, ProxyTypeOK, RtpTypeOK
  <2>6. \A g \in Handlers : ToSet(mine'[g]) \subseteq ToSet(mine[g]) /\ Private(g)' = Private(g)
    BY <1>2 DEF StopWaitRTCP, Private, ProxyTypeOK
  <2>3. OnePlace' /\ OneStopper' /\ StoppedOrHeld'
    BY <2>5, <2>6, OwnersStay
  <2> QED
    BY <2>1, <2>2, <2>3
<1>3. CASE StopWaitDone(h)
  <2>0. /\ todo[h] # << >> /\ Head(todo[h]) \in Ids /\ Tail(todo[h]) \in Seq(Ids)
        /\ ToSet(todo[h]) = {Head(todo[h])} \cup ToSet(Tail(todo[h]))
        /\ Tail(todo[h]) = << >> <=> Len(todo[h]) <= 1
        /\ Len(todo[h]) \in Nat
    BY <1>0, <1>3, SetOfHeadAndTail DEF StopWaitDone, AtHand
  <2>1. ProxyTypeOK'
    BY <1>3, <2>0 DEF StopWaitDone, StopDone, ProxyTypeOK, RtpTypeOK, Steps, Loops
  <2>2. AtHand'
    BY <1>3, <2>0 DEF StopWaitDone, StopDone, ProxyTypeOK, RtpTypeOK, AtHand, Steps
  <2>5. /\ \A g \in Handlers \ {h} : Stopping(g)' = Stopping(g)
        /\ Stopping(h) = {Head(todo[h])} \cup Stopping(h)'
        /\ \A g \in Handlers : Private(g)' = Private(g)
        /\ UNCHANGED <<sessions, mine, rtpVars>>
    BY <1>3, <2>0 DEF StopWaitDone, StopDone, ProxyTypeOK, Stopping, Private
  <2>6. LET i == Head(todo[h]) IN conn[i] = "closed" /\ rtcpReady[i] /\ rtcpConn[i] # "open"
    BY <1>3 DEF StopWaitDone, AtHand
  <2>7. \A k : InMap(k)' <=> InMap(k)
    BY <2>5 DEF InMap
  <2>3. OnePlace' /\ OneStopper'
    <3>1. \A g \in Handlers : Stopping(g)' \subseteq Stopping(g)
      BY <2>5
    <3>2. OneStopper'
      BY <2>7, <3>1 DEF OneStopper
    <3>3. ASSUME NEW g \in Handlers, NEW k \in Private(g)'
          PROVE  ~InMap(k)' /\ \A f \in Handlers : k \notin Stopping(f)' /\ (f # g => k \notin ToSet(mine'[f]))
      <4>1. /\ ~InMap(k)
            /\ \A f \in Handlers : k \notin Stopping(f) /\ (f # g => k \notin ToSet(mine[f]))
        BY <2>5, <3>3 DEF OnePlace
      <4> QED
        BY <2>5, <2>7, <3>1, <4>1
    <3>4. \A c, d \in Calls : c # d => ToSet(sessions'[c]) \cap ToSet(sessions'[d]) = {}
      BY <2>5 DEF OnePlace
    <3> QED
      BY <3>2, <3>3, <3>4 DEF OnePlace
  <2>4. StoppedOrHeld'
    <3>3. ASSUME NEW i \in Ids PROVE Owned(i)' => Owned(i)
      BY <2>5 DEF Owned, InMap
    <3>4. ASSUME NEW i \in Ids, i # Head(todo[h]), NEW g \in Handlers, i \in Private(g) \cup Stopping(g)
          PROVE  i \in Private(g)' \cup Stopping(g)'
      BY <2>5, <3>4
    <3>5. \A i \in Ids : InMap(i)' = InMap(i)
      BY <2>5 DEF InMap
    <3> QED
      BY <2>5, <2>6, <3>3, <3>4, <3>5 DEF StoppedOrHeld
  <2> QED
    BY <2>1, <2>2, <2>3, <2>4
<1> QED
  BY <1>1, <1>2, <1>3

(* The goroutines of a session. *)
LEMMA LoopsKeepInv ==
  ASSUME ProxyIInv, NEW i \in Ids, ReceiveLoopExit(i) \/ ListenRTCPBound(i) \/ ListenRTCPFailed(i) \/ ListenRTCPExit(i) \/ TickerLoopExit(i), UNCHANGED <<sessions, handlerVars>>
  PROVE  ProxyIInv'
<1> USE DEF ProxyIInv, Goto, rtpVars, handlerVars
<1>0. /\ \A c \in Calls : sessions[c] \in Seq(Ids)
      /\ \A g \in Handlers : mine[g] \in Seq(Ids) /\ todo[g] \in Seq(Ids)
  BY DEF ProxyTypeOK
<1>1. CASE ReceiveLoopExit(i)
  <2>1. ProxyTypeOK'
    BY <1>1 DEF ReceiveLoopExit, Exits, ProxyTypeOK, RtpTypeOK, Steps, Loops
  <2>2. AtHand'
    BY <1>1 DEF ReceiveLoopExit, Exits, ProxyTypeOK, RtpTypeOK, AtHand, Steps
  <2>4. conn[i] # "none"
    BY <1>1, CreatedOnce DEF ReceiveLoopExit, Exits
  <2>5. sessions' = sessions /\ todo' = todo /\ SocketsStay
    BY <1>1, <2>4 DEF ReceiveLoopExit, Exits, SocketsStay, ProxyTypeOK, RtpTypeOK
  <2>6. \A g \in Handlers : ToSet(mine'[g]) \subseteq ToSet(mine[g]) /\ Private(g)' = Private(g)
    BY DEF Private
  <2>3. OnePlace' /\ OneStopper' /\ StoppedOrHeld'
    BY <2>5, <2>6, OwnersStay
  <2> QED
    BY <2>1, <2>2, <2>3
<1>2. CASE ListenRTCPBound(i)
  <2>1. ProxyTypeOK'
    BY <1>2 DEF ListenRTCPBound, Exits, ProxyTypeOK, RtpTypeOK, Steps, Loops
  <2>2. AtHand'
    BY <1>2 DEF ListenRTCPBound, Exits, ProxyTypeOK, RtpTypeOK, AtHand, Steps
  <2>4. conn[i] # "none"
    BY <1>2, CreatedOnce DEF ListenRTCPBound, Exits
  <2>5. sessions' = sessions /\ todo' = todo /\ SocketsStay
    BY <1>2, <2>4 DEF ListenRTCPBound, Exits, SocketsStay, ProxyTypeOK, RtpTypeOK
  <2>6. \A g \in Handlers : ToSet(mine'[g]) \subseteq ToSet(mine[g]) /\ Private(g)' = Private(g)
    BY DEF Private
  <2>3. OnePlace' /\ OneStopper' /\ StoppedOrHeld'
    BY <2>5, <2>6, OwnersStay
  <2> QED
    BY <2>1, <2>2, <2>3
<1>3. CASE ListenRTCPFailed(i)
  <2>1. ProxyTypeOK'
    BY <1>3 DEF ListenRTCPFailed, Exits, ProxyTypeOK, RtpTypeOK, Steps, Loops
  <2>2. AtHand'
    BY <1>3 DEF ListenRTCPFailed, Exits, ProxyTypeOK, RtpTypeOK, AtHand, Steps
  <2>4. conn[i] # "none"
    BY <1>3, CreatedOnce DEF ListenRTCPFailed, Exits
  <2>5. sessions' = sessions /\ todo' = todo /\ SocketsStay
    BY <1>3, <2>4 DEF ListenRTCPFailed, Exits, SocketsStay, ProxyTypeOK, RtpTypeOK
  <2>6. \A g \in Handlers : ToSet(mine'[g]) \subseteq ToSet(mine[g]) /\ Private(g)' = Private(g)
    BY DEF Private
  <2>3. OnePlace' /\ OneStopper' /\ StoppedOrHeld'
    BY <2>5, <2>6, OwnersStay
  <2> QED
    BY <2>1, <2>2, <2>3
<1>4. CASE ListenRTCPExit(i)
  <2>1. ProxyTypeOK'
    BY <1>4 DEF ListenRTCPExit, Exits, ProxyTypeOK, RtpTypeOK, Steps, Loops
  <2>2. AtHand'
    BY <1>4 DEF ListenRTCPExit, Exits, ProxyTypeOK, RtpTypeOK, AtHand, Steps
  <2>4. conn[i] # "none"
    BY <1>4, CreatedOnce DEF ListenRTCPExit, Exits
  <2>5. sessions' = sessions /\ todo' = todo /\ SocketsStay
    BY <1>4, <2>4 DEF ListenRTCPExit, Exits, SocketsStay, ProxyTypeOK, RtpTypeOK
  <2>6. \A g \in Handlers : ToSet(mine'[g]) \subseteq ToSet(mine[g]) /\ Private(g)' = Private(g)
    BY DEF Private
  <2>3. OnePlace' /\ OneStopper' /\ StoppedOrHeld'
    BY <2>5, <2>6, OwnersStay
  <2> QED
    BY <2>1, <2>2, <2>3
<1>5. CASE TickerLoopExit(i)
  <2>0. PICK loop \in {"stats", "playback"} :
          loop \in loops[i] /\ loops' = [loops EXCEPT ![i] = @ \ {loop}]
    BY <1>5 DEF TickerLoopExit, Exits
  <2>1. ProxyTypeOK'
    BY <1>5, <2>0 DEF TickerLoopExit, ProxyTypeOK, RtpTypeOK, Steps, Loops
  <2>2. AtHand'
    BY <1>5, <2>0 DEF TickerLoopExit, ProxyTypeOK, RtpTypeOK, AtHand, Steps
  <2>4. conn[i] # "none"
    BY <1>5, CreatedOnce DEF TickerLoopExit, Exits
  <2>5. sessions' = sessions /\ todo' = todo /\ SocketsStay
    BY <1>5, <2>0, <2>4 DEF TickerLoopExit, SocketsStay, ProxyTypeOK, RtpTypeOK
  <2>6. \A g \in Handlers : ToSet(mine'[g]) \subseteq ToSet(mine[g]) /\ Private(g)' = Private(g)
    BY DEF Private
  <2>3. OnePlace' /\ OneStopper' /\ StoppedOrHeld'
    BY <2>5, <2>6, OwnersStay
  <2> QED
    BY <2>1, <2>2, <2>3
<1> QED
  BY <1>1, <1>2, <1>3, <1>4, <1>5

LEMMA ProxyStepInv == ProxyIInv /\ [ProxyNext]_proxyVars => ProxyIInv'
<1> SUFFICES ASSUME ProxyIInv, [ProxyNext]_proxyVars PROVE ProxyIInv'
  OBVIOUS
<1>1. CASE UNCHANGED proxyVars
  BY <1>1 DEF proxyVars, rtpVars, handlerVars, ProxyIInv, ProxyTypeOK, RtpTypeOK, AtHand, OnePlace, StoppedOrHeld,
              OneStopper, Owned, InMap, Private, Stopping
<1>2. CASE ProxyNext
  BY <1>2, CreateKeepsInv, MapKeepsInv, LaunchKeepsInv, StopKeepsInv, LoopsKeepInv DEF ProxyNext, HandlerStep, LoopStep
<1> QED
  BY <1>1, <1>2

(* For any calls, sessions and overlapping requests: a session has one place in*)
(* the map or one request that makes or stops it, no two requests stop the  *)
(* same, and an open socket always has an owner.                            *)
THEOREM ProxyInvariant == ProxySpec => []ProxyInv
<1> QED
  BY ProxyInitInv, ProxyStepInv, ProxyPromise, PTL DEF ProxySpec
=============================================================================
