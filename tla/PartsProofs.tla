---------------------------- MODULE PartsProofs ----------------------------
(* Proofs about the parts of the audio path that work alone: the agent      *)
(* stream, the adaptive voice activity detection, the level control, the    *)
(* audio pipeline and the HTTP API.  Each is proved to keep the invariant   *)
(* its run checks, for every value of its constants.                        *)
EXTENDS AgentStream, AdaptiveVad, LevelControl, AudioPipeline, HttpApi, TLAPS, FiniteSetTheorems

-----------------------------------------------------------------------------
(* The agent stream *)

(* A connection without a stream.                                           *)
LEMMA AgentInitInv == AgentInit => AgentInv
<1> SUFFICES ASSUME AgentInit PROVE AgentInv
  OBVIOUS
<1>1. /\ pipelines = << >> /\ Current = 0 /\ ~Started /\ ~Media
      /\ connected /\ closed = {} /\ orphaned = {}
  BY DEF AgentInit, Media, Started, Connected, Current
<1>2. /\ FrameUnits \in Nat \ {0} /\ FrameUnits * 0 = 0 /\ 0 \in 0 .. FrameUnits - 1
      /\ 0 \in 0 .. MaxMedia /\ 0 \in 0 .. MaxStarts /\ MaxStarts \in Nat
  BY AgentAssumption
<1>3. Connected \in CleanMedia \cup {Connected} \cup {Error(sid) : sid \in Streams \cup {NoStream}}
  OBVIOUS
<1>4. AgentTypeOK
  <2>1. pipelines \in Seq(Pipelines) /\ Len(pipelines) <= MaxStarts
    BY <1>1, <1>2
  <2> QED
    BY <1>1, <1>2, <1>3, <2>1 DEF AgentInit, AgentTypeOK
<1>5. CallAsStarted /\ AudioAccounted
  BY <1>1, <1>2 DEF AgentInit, CallAsStarted, AudioAccounted
<1>6. GainTold /\ NamedAsStarted /\ OpenAreReplaced
  BY <1>1 DEF GainTold, NamedAsStarted, OpenAreReplaced
<1> QED
  BY <1>4, <1>5, <1>6 DEF AgentInv

(* A new stream, whose pipeline takes the place of the one before. *)
LEMMA StartKeepsInv ==
  ASSUME AgentInv, NEW p \in Pipelines, Start(p)
  PROVE  AgentInv'
<1>0. /\ AgentTypeOK /\ CallAsStarted /\ AudioAccounted /\ GainTold /\ NamedAsStarted
      /\ OpenAreReplaced
  BY DEF AgentInv
<1>1. /\ pipelines' \in Seq(Pipelines) /\ Current' = Current + 1 /\ Current \in Nat
      /\ Len(pipelines') = Current' /\ Len(pipelines) = Current
      /\ pipelines'[Current'] = p /\ Started' /\ (Started <=> Current > 0)
      /\ Replaced' = Current
  BY <1>0 DEF Start, AgentTypeOK, Current, Started, Replaced
<1>2. starts \in Nat /\ starts' = starts + 1 /\ starts' \in 0 .. MaxStarts /\ Current <= starts
  BY <1>0, AgentAssumption DEF Start, AgentTypeOK, CallAsStarted
<1>3. /\ UNCHANGED <<connected, closed, seq, out, received, failures>> /\ connected
      /\ held' = 0 /\ callBypassed' = FALSE /\ state' = "STREAMING" /\ streamSID' = p.sid
      /\ agcEnabled' = (agcEnabled \/ p.agc) /\ orphaned' = orphaned \cup ({Current} \ (closed \cup {0}))
  BY DEF Start
<1>4. p.sid \in Streams /\ p.agc \in BOOLEAN /\ agcEnabled \in BOOLEAN
  BY <1>0 DEF Pipelines, AgentTypeOK
<1>5. /\ FrameUnits \in Nat \ {0} /\ held \in 0 .. FrameUnits - 1
      /\ seq \in Nat /\ received \in Nat /\ failures \in Nat
  BY <1>0, AgentAssumption DEF AgentTypeOK
<1>6. AgentTypeOK'
  <2>1. closed' \subseteq 1 .. Len(pipelines') /\ orphaned' \subseteq 1 .. Len(pipelines')
    BY <1>0, <1>1, <1>3 DEF AgentTypeOK
  <2>2. Len(pipelines') <= MaxStarts
    BY <1>1, <1>2, AgentAssumption
  <2>3. held' \in 0 .. FrameUnits - 1 /\ streamSID' \in Streams /\ agcEnabled' \in BOOLEAN
    BY <1>3, <1>4, <1>5
  <2>4. /\ connected' \in BOOLEAN /\ callBypassed' \in BOOLEAN /\ state' \in {"CREATED", "STREAMING", "COMPLETED"}
        /\ out' \in CleanMedia \cup {Connected} \cup {Error(sid) : sid \in Streams \cup {NoStream}}
    BY <1>0, <1>3 DEF AgentTypeOK
  <2>5. {seq', received', failures'} \subseteq 0 .. MaxMedia
    BY <1>0, <1>3 DEF AgentTypeOK
  <2> QED
    BY <1>0, <1>1, <1>2, <2>1, <2>2, <2>3, <2>4, <2>5 DEF AgentTypeOK
<1>7. CallAsStarted'
  <2>1. agcEnabled => Current > 0
    BY <1>0, <1>1 DEF CallAsStarted
  <2> QED
    BY <1>0, <1>1, <1>2, <1>3, <1>4, <2>1 DEF CallAsStarted
<1>8. AudioAccounted'
  <2> DEFINE S == FrameUnits * (seq + failures)
             R(n) == (FrameUnits - 1) * n
  <2>1. S \in Nat
    BY <1>5
  <2>2. R(Current) \in Nat
    BY <1>1, <1>5
  <2>3. ASSUME Started PROVE R(Current) = R(Replaced) + FrameUnits - 1 /\ R(Replaced) \in Nat
    <3>1. Replaced \in Nat /\ Current = Replaced + 1
      BY <1>1, <2>3 DEF Replaced
    <3> QED
      BY <1>5, <3>1
  <2>4. /\ S + held <= received
        /\ Started => received <= S + held + R(Replaced)
        /\ ~Started => received = 0
    BY <1>0 DEF AudioAccounted, CallAsStarted
  <2> HIDE DEF S, R
  <2>5. S + 0 <= received /\ received <= S + 0 + R(Current)
    <3>1. CASE Started
      BY <1>5, <2>1, <2>2, <2>3, <2>4, <3>1
    <3>2. CASE ~Started
      BY <1>5, <2>1, <2>2, <2>4, <3>2
    <3> QED
      BY <3>1, <3>2
  <2> USE DEF S, R
  <2> QED
    BY <1>0, <1>1, <1>3, <2>5 DEF AudioAccounted
<1>9. GainTold' /\ NamedAsStarted'
  <2>1. Media' => Media /\ Started
    BY <1>0, <1>3 DEF Media, CallAsStarted
  <2>2. Media' => Replaced' > 0
    BY <1>1, <2>1
  <2>3. GainTold'
    BY <1>0, <1>3, <2>1, <2>2 DEF GainTold
  <2>4. starts > Current => starts' > Current'
    BY <1>1, <1>2
  <2> QED
    BY <1>0, <1>3, <2>1, <2>3, <2>4 DEF NamedAsStarted
<1>10. OpenAreReplaced'
  <2>1. orphaned \cap closed = {} /\ ((1 .. Current) \ closed) \ {Current} \subseteq orphaned
        /\ orphaned \subseteq 1 .. Current
    BY <1>0, <1>1 DEF OpenAreReplaced, AgentTypeOK
  <2>2. Current' \notin orphaned'
    BY <1>1, <1>3, <2>1
  <2>3. orphaned' \cap closed' = {}
    BY <1>3, <2>1
  <2>4. ((1 .. Current') \ closed') \ {Current'} \subseteq orphaned'
    BY <1>1, <1>3, <2>1
  <2> QED
    BY <1>0, <1>3, <2>2, <2>3, <2>4 DEF OpenAreReplaced
<1> QED
  BY <1>6, <1>7, <1>8, <1>9, <1>10 DEF AgentInv

(* A payload, which completes a frame or does not. *)
LEMMA MediaKeepsInv ==
  ASSUME AgentInv, MediaPartial \/ MediaComplete \/ MediaFails
  PROVE  AgentInv'
<1>0. /\ AgentTypeOK /\ CallAsStarted /\ AudioAccounted /\ GainTold /\ NamedAsStarted
      /\ OpenAreReplaced
  BY DEF AgentInv
<1>1. /\ UNCHANGED <<connected, pipelines, closed, callBypassed, state, streamSID, agcEnabled>>
      /\ UNCHANGED <<starts, orphaned>>
      /\ connected /\ Started /\ received' = received + 1 /\ received < MaxMedia
  BY DEF MediaPartial, MediaComplete, MediaFails, Hear
<1>2. /\ FrameUnits \in Nat \ {0} /\ held \in 0 .. FrameUnits - 1 /\ MaxMedia \in Nat
      /\ seq \in Nat /\ received \in Nat /\ failures \in Nat
  BY <1>0, AgentAssumption DEF AgentTypeOK
<1>3. /\ Current' = Current /\ Replaced' = Replaced /\ Started' = Started
      /\ Current \in Nat /\ Current > 0 /\ Replaced \in Nat
  BY <1>0, <1>1 DEF Current, Replaced, Started, AgentTypeOK
<1>4. /\ pipelines[Current] \in Pipelines /\ streamSID \in Streams /\ agcEnabled \in BOOLEAN
      /\ callBypassed \in BOOLEAN
  BY <1>0, <1>1 DEF AgentTypeOK, Current, Started, CallAsStarted
<1>5. \/ MediaPartial /\ held' = held + 1 /\ held + 1 < FrameUnits /\ UNCHANGED <<seq, out, failures>>
      \/ MediaComplete /\ held' = 0 /\ held + 1 = FrameUnits /\ seq' = seq + 1 /\ failures' = failures
      \/ MediaFails /\ held' = 0 /\ held + 1 = FrameUnits /\ seq' = seq /\ failures' = failures + 1
  BY DEF MediaPartial, MediaComplete, MediaFails
<1>6. AudioAccounted'
  <2> DEFINE R == (FrameUnits - 1) * Replaced
  <2>1. R \in Nat
    BY <1>2, <1>3
  <2> DEFINE S(n) == FrameUnits * n
  <2>2. S(seq + failures + 1) = S(seq + failures) + FrameUnits /\ S(seq + failures) \in Nat
    BY <1>2
  <2>3. S(seq + failures) + held <= received /\ received <= S(seq + failures) + held + R
    BY <1>0, <1>1 DEF AudioAccounted
  <2> HIDE DEF R, S
  <2>4. S(seq' + failures') + held' <= received' /\ received' <= S(seq' + failures') + held' + R
    <3>1. CASE UNCHANGED <<seq, failures>> /\ held' = held + 1
      BY <1>1, <1>2, <2>1, <2>2, <2>3, <3>1
    <3>2. CASE seq' + failures' = seq + failures + 1 /\ held' = 0 /\ held + 1 = FrameUnits
      BY <1>1, <1>2, <2>1, <2>2, <2>3, <3>2
    <3> QED
      BY <1>2, <1>5, <3>1, <3>2
  <2> QED
    BY <1>0, <1>3, <2>4 DEF AudioAccounted, R, S
<1>7. {seq', received', failures'} \subseteq 0 .. MaxMedia /\ held' \in 0 .. FrameUnits - 1
  <2>1. seq' \in Nat /\ failures' \in Nat /\ held' \in 0 .. FrameUnits - 1 /\ received' \in 0 .. MaxMedia
    BY <1>1, <1>2, <1>5
  <2>2. PICK m \in Nat, n \in Nat : seq' = m /\ failures' = n
    BY <2>1
  <2>3. (FrameUnits - 1) * (m + n) \in Nat /\ FrameUnits * (m + n) = (FrameUnits - 1) * (m + n) + m + n
    BY <1>2
  <2>4. FrameUnits * (m + n) + held' <= received'
    BY <1>6, <2>2 DEF AudioAccounted
  <2>5. PICK h \in Nat, k \in 0 .. MaxMedia : held' = h /\ received' = k
    BY <1>2, <2>1
  <2>6. m + n <= k
    BY <1>2, <2>3, <2>4, <2>5
  <2>7. m \in 0 .. MaxMedia /\ n \in 0 .. MaxMedia
    BY <1>2, <2>6
  <2> QED
    BY <2>1, <2>2, <2>7
<1>8. ASSUME MediaComplete
      PROVE  /\ out' \in CleanMedia /\ Media' /\ out'.sid = streamSID /\ out'.by = pipelines[Current]
             /\ out'.noiseSuppression = ~callBypassed /\ out'.gain = (agcEnabled /\ ~callBypassed)
  <2>1. out' = [event |-> "clean_media", sid |-> streamSID, seq |-> seq',
                noiseSuppression |-> ~callBypassed, gain |-> agcEnabled /\ ~callBypassed,
                by |-> pipelines[Current]]
    BY <1>8 DEF MediaComplete
  <2>2. (~callBypassed) \in BOOLEAN /\ (agcEnabled /\ ~callBypassed) \in BOOLEAN /\ seq' \in Nat
    BY <1>2, <1>5
  <2>3. out' \in CleanMedia
    BY <1>4, <2>1, <2>2 DEF CleanMedia
  <2> QED
    BY <2>1, <2>3 DEF Media
<1>9. ASSUME MediaFails PROVE out' = Error(streamSID) /\ ~Media'
  BY <1>9 DEF MediaFails, Media, Error
<1>10. AgentTypeOK'
  <2>1. out' \in CleanMedia \cup {Connected} \cup {Error(sid) : sid \in Streams \cup {NoStream}}
    BY <1>0, <1>4, <1>5, <1>8, <1>9 DEF AgentTypeOK
  <2> QED
    BY <1>0, <1>1, <1>7, <2>1 DEF AgentTypeOK
<1>11. CallAsStarted'
  BY <1>0, <1>1, <1>3 DEF CallAsStarted
<1>12. GainTold' /\ NamedAsStarted'
  <2>1. CASE UNCHANGED out
    BY <1>0, <1>1, <1>3, <2>1 DEF GainTold, NamedAsStarted, Media
  <2>2. CASE MediaComplete
    BY <1>0, <1>1, <1>3, <1>8, <2>2 DEF GainTold, NamedAsStarted, CallAsStarted
  <2>3. CASE MediaFails
    BY <1>0, <1>9, <2>3 DEF GainTold, NamedAsStarted
  <2> QED
    BY <1>5, <2>1, <2>2, <2>3
<1>13. OpenAreReplaced'
  BY <1>0, <1>1, <1>3 DEF OpenAreReplaced
<1> QED
  BY <1>6, <1>10, <1>11, <1>12, <1>13 DEF AgentInv

(* A message that fails sends no audio. *)
LEMMA FailureKeepsInv ==
  ASSUME AgentInv, MessageFails \/ \E sid \in Streams : StartFails(sid)
  PROVE  AgentInv'
<1>0. /\ AgentTypeOK /\ CallAsStarted /\ AudioAccounted /\ GainTold /\ NamedAsStarted
      /\ OpenAreReplaced
  BY DEF AgentInv
<1>1. /\ UNCHANGED <<connected, pipelines, closed, callBypassed, held, state, seq, agcEnabled>>
      /\ UNCHANGED <<orphaned, received, failures>>
  <2>1. CASE MessageFails
    BY <2>1 DEF MessageFails, callVars, agentHistory
  <2>2. CASE \E sid \in Streams : StartFails(sid)
    BY <2>2 DEF StartFails
  <2> QED
    BY <2>1, <2>2
<1>2. Current' = Current /\ Replaced' = Replaced /\ Started' = Started /\ Current \in Nat
  BY <1>0, <1>1 DEF Current, Replaced, Started, AgentTypeOK
<1>3. /\ starts' \in 0 .. MaxStarts /\ starts \in Nat /\ Current <= starts /\ starts' >= starts
      /\ streamSID' \in Streams \cup {NoStream}
      /\ (streamSID' = streamSID \/ (streamSID' \in Streams /\ starts' = starts + 1))
  <2>1. starts \in 0 .. MaxStarts /\ MaxStarts \in Nat /\ streamSID \in Streams \cup {NoStream} /\ Current <= starts
    BY <1>0, AgentAssumption DEF AgentTypeOK, CallAsStarted
  <2>2. CASE MessageFails
    BY <2>1, <2>2 DEF MessageFails, callVars, agentHistory
  <2>3. CASE \E sid \in Streams : StartFails(sid)
    BY <2>1, <2>3 DEF StartFails
  <2> QED
    BY <2>2, <2>3
<1>4. PICK sid \in Streams \cup {NoStream} : out' = Error(sid)
  BY <1>0 DEF MessageFails, StartFails, AgentTypeOK
<1>5. ~Media' /\ out' \in CleanMedia \cup {Connected} \cup {Error(x) : x \in Streams \cup {NoStream}}
  BY <1>4 DEF Media, Error
<1>6. AgentTypeOK'
  BY <1>0, <1>1, <1>3, <1>5 DEF AgentTypeOK
<1>7. CallAsStarted'
  BY <1>0, <1>1, <1>2, <1>3, <1>5 DEF CallAsStarted
<1>8. AudioAccounted' /\ OpenAreReplaced'
  BY <1>0, <1>1, <1>2 DEF AudioAccounted, OpenAreReplaced
<1>9. GainTold' /\ NamedAsStarted'
  BY <1>0, <1>5 DEF GainTold, NamedAsStarted
<1> QED
  BY <1>6, <1>7, <1>8, <1>9 DEF AgentInv

(* A step that sends nothing and builds no pipeline. *)
LEMMA ControlKeepsInv ==
  ASSUME AgentInv,
         \/ \E on \in BOOLEAN : AgentSetBypass(on)
         \/ AgentStop \/ Disconnect \/ UNCHANGED agentVars
  PROVE  AgentInv'
<1>0. /\ AgentTypeOK /\ CallAsStarted /\ AudioAccounted /\ GainTold /\ NamedAsStarted
      /\ OpenAreReplaced
  BY DEF AgentInv
<1>1. /\ UNCHANGED <<pipelines, held, streamSID, seq, agcEnabled, out>>
      /\ UNCHANGED <<starts, orphaned, received, failures>>
  <2>1. CASE \E on \in BOOLEAN : AgentSetBypass(on)
    BY <2>1 DEF AgentSetBypass, agentHistory
  <2>2. CASE AgentStop
    BY <2>2 DEF AgentStop, agentHistory
  <2>3. CASE Disconnect \/ UNCHANGED agentVars
    BY <2>3 DEF Disconnect, agentVars, callVars, agentHistory
  <2> QED
    BY <2>1, <2>2, <2>3
<1>2. /\ Current' = Current /\ Replaced' = Replaced /\ Started' = Started /\ Media' = Media
      /\ Current \in Nat /\ (Started <=> Current > 0)
  BY <1>0, <1>1 DEF Current, Replaced, Started, Media, AgentTypeOK
<1>3. callBypassed' \in BOOLEAN /\ state' \in {"CREATED", "STREAMING", "COMPLETED"}
  BY <1>0 DEF AgentSetBypass, AgentStop, Disconnect, agentVars, callVars, AgentTypeOK
<1>4. /\ connected' \in BOOLEAN
      /\ \/ UNCHANGED <<connected, closed>>
         \/ closed' = IF Started THEN closed \cup {Current} ELSE closed
  BY <1>0 DEF AgentSetBypass, AgentStop, Disconnect, agentVars, AgentTypeOK, ClosePipeline
<1>5. closed' \subseteq 1 .. Len(pipelines)
  <2>1. closed \subseteq 1 .. Current /\ Current = Len(pipelines)
    BY <1>0 DEF AgentTypeOK, Current
  <2>2. Started => Current \in 1 .. Current
    BY <1>2
  <2> QED
    BY <1>4, <2>1, <2>2
<1>6. AgentTypeOK'
  BY <1>0, <1>1, <1>3, <1>4, <1>5 DEF AgentTypeOK
<1>7. OpenAreReplaced'
  <2>1. /\ orphaned \cap closed = {} /\ Current \notin orphaned
        /\ ((1 .. Current) \ closed) \ {Current} \subseteq orphaned
        /\ orphaned \subseteq 1 .. Current
    BY <1>0 DEF OpenAreReplaced, AgentTypeOK, Current
  <2>2. CASE UNCHANGED <<connected, closed>>
    BY <1>0, <1>1, <1>2, <2>2 DEF OpenAreReplaced
  <2>3. CASE closed' = IF Started THEN closed \cup {Current} ELSE closed
    <3>1. orphaned \cap closed' = {}
      BY <2>1, <2>3
    <3>2. (1 .. Current) \ closed' \subseteq orphaned
      BY <1>2, <2>1, <2>3
    <3>3. orphaned \subseteq (1 .. Current) \ closed'
      BY <2>1, <3>1
    <3>4. (1 .. Current) \ closed' = orphaned
      BY <3>2, <3>3
    <3> QED
      BY <1>0, <1>1, <1>2, <2>1, <3>1, <3>4 DEF OpenAreReplaced
  <2> QED
    BY <1>4, <2>2, <2>3
<1>8. CallAsStarted' /\ AudioAccounted' /\ GainTold' /\ NamedAsStarted'
  BY <1>0, <1>1, <1>2 DEF CallAsStarted, AudioAccounted, GainTold, NamedAsStarted
<1> QED
  BY <1>6, <1>7, <1>8 DEF AgentInv

(* In any order of messages, the audio of a connection is accounted for,    *)
(* labelled and named as it was processed, and the pipelines left open are  *)
(* those that were replaced while they ran.                                 *)
THEOREM AgentInvariant == AgentSpec => []AgentInv
<1>1. AgentInit => AgentInv
  BY AgentInitInv
<1>2. AgentInv /\ [AgentNext]_agentVars => AgentInv'
  <2> SUFFICES ASSUME AgentInv, [AgentNext]_agentVars PROVE AgentInv'
    OBVIOUS
  <2>1. CASE \E p \in Pipelines : Start(p)
    BY <2>1, StartKeepsInv
  <2>2. CASE MediaPartial \/ MediaComplete \/ MediaFails
    BY <2>2, MediaKeepsInv
  <2>3. CASE MessageFails \/ \E sid \in Streams : StartFails(sid)
    BY <2>3, FailureKeepsInv
  <2>4. CASE \/ \E on \in BOOLEAN : AgentSetBypass(on)
             \/ AgentStop \/ Disconnect \/ UNCHANGED agentVars
    BY <2>4, ControlKeepsInv
  <2> QED
    BY <2>1, <2>2, <2>3, <2>4 DEF AgentNext
<1> QED
  BY <1>1, <1>2, PTL DEF AgentSpec

-----------------------------------------------------------------------------
(* Adaptive voice activity detection *)

(* Of a finite collection of finite sets, one has no other inside it. *)
LEMMA MinimalMember ==
  ASSUME NEW D, IsFiniteSet(D), NEW F \in SUBSET (SUBSET D), F # {}
  PROVE  \E X \in F : \A Y \in F : Y \subseteq X => Y = X
<1>1. IsWellFoundedOn(StrictSubsetOrdering(D), SUBSET D)
  BY FS_StrictSubsetOrderingWellFounded, FS_FiniteSubsetsOfFinite, Zenon
<1>2. PICK X \in F : \A Y \in F : ~ (<<Y, X>> \in StrictSubsetOrdering(D))
  BY <1>1, WFMin, Zenon
<1>3. ASSUME NEW Y \in F, Y \subseteq X PROVE Y = X
  BY <1>2, <1>3 DEF StrictSubsetOrdering
<1> QED
  BY <1>3

(* A set of natural numbers that is not empty has a least element. *)
LEMMA LeastElement ==
  ASSUME NEW T \in SUBSET Nat, T # {}
  PROVE  \E n \in T : \A m \in T : n <= m
<1>1. PICK t \in T : TRUE
  OBVIOUS
<1> DEFINE D == 0 .. t
           F == {0 .. m : m \in {x \in T : x <= t}}
<1>2. IsFiniteSet(D)
  BY FS_Interval
<1>3. F \in SUBSET (SUBSET D) /\ F # {}
  BY <1>1
<1>4. PICK X \in F : \A Y \in F : Y \subseteq X => Y = X
  <2> HIDE DEF F, D
  <2> QED
    BY <1>2, <1>3, MinimalMember
<1>5. PICK n \in T : n <= t /\ X = 0 .. n
  OBVIOUS
<1>6. ASSUME NEW m \in T, m < n PROVE FALSE
  <2>1. 0 .. m \in F
    BY <1>5, <1>6
  <2>2. 0 .. m \subseteq X
    BY <1>5, <1>6
  <2>3. 0 .. m = X
    <3> HIDE DEF F
    <3> QED
      BY <1>4, <2>1, <2>2
  <2>4. n \in X /\ ~ (n \in 0 .. m)
    BY <1>5, <1>6
  <2> QED
    BY <2>3, <2>4
<1> QED
  BY <1>6

(* And a largest one, if it is bounded. *)
LEMMA LargestElement ==
  ASSUME NEW T \in SUBSET Nat, T # {}, NEW b \in Nat, \A m \in T : m <= b
  PROVE  \E n \in T : \A m \in T : m <= n
<1> DEFINE U == {b - m : m \in T}
<1>1. U \in SUBSET Nat /\ U # {}
  <2>1. PICK m \in T : TRUE
    OBVIOUS
  <2>2. b - m \in U
    BY <2>1
  <2>3. ASSUME NEW u \in U PROVE u \in Nat
    <3>1. PICK x \in T : u = b - x
      OBVIOUS
    <3> QED
      BY <3>1
  <2> QED
    BY <2>2, <2>3
<1>2. PICK u \in U : \A v \in U : u <= v
  <2> HIDE DEF U
  <2> QED
    BY <1>1, LeastElement
<1>3. PICK n \in T : u = b - n
  OBVIOUS
<1>4. ASSUME NEW m \in T PROVE m <= n
  <2>1. b - m \in U
    OBVIOUS
  <2>2. b - n <= b - m
    BY <1>2, <1>3, <2>1
  <2>3. n \in Nat /\ m \in Nat
    <3> HIDE DEF U
    <3> QED
      OBVIOUS
  <2> QED
    BY <2>2, <2>3
<1> QED
  BY <1>4

(* The energies of a window have an upper bound. *)
LEMMA WindowBounded ==
  ASSUME NEW w \in Seq(Nat)
  PROVE  \E b \in Nat : \A i \in 1 .. Len(w) : w[i] <= b
<1> DEFINE Bounded(n) == \E b \in Nat : \A i \in 1 .. n : w[i] <= b
           T == {n \in Nat : n <= Len(w) /\ ~ Bounded(n)}
<1> HIDE DEF Bounded
<1>0. Len(w) \in Nat
  OBVIOUS
<1> SUFFICES ASSUME T # {} PROVE FALSE
  <2>1. T = {} => Bounded(Len(w))
    BY <1>0
  <2> QED
    BY <2>1 DEF Bounded
<1>1. PICK n \in T : \A m \in T : n <= m
  <2>1. T \in SUBSET Nat
    OBVIOUS
  <2> HIDE DEF T
  <2> QED
    BY <2>1, LeastElement
<1>2. n \in Nat /\ n <= Len(w) /\ ~ Bounded(n)
  OBVIOUS
<1>3. n # 0
  <2>1. 0 \in Nat /\ \A i \in 1 .. 0 : w[i] <= 0
    OBVIOUS
  <2>2. Bounded(0)
    BY <2>1 DEF Bounded
  <2> QED
    BY <1>2, <2>2
<1>4. PICK b \in Nat : \A i \in 1 .. (n - 1) : w[i] <= b
  <2>1. n - 1 \in Nat /\ n - 1 <= Len(w) /\ n - 1 < n
    BY <1>0, <1>2, <1>3
  <2>2. ~ (n - 1 \in T)
    <3> HIDE DEF T
    <3> QED
      BY <1>1, <1>2, <2>1
  <2> QED
    BY <2>1, <2>2 DEF Bounded
<1>5. w[n] \in Nat /\ b + w[n] \in Nat /\ b <= b + w[n] /\ w[n] <= b + w[n]
  <2>1. n \in 1 .. Len(w)
    BY <1>0, <1>2, <1>3
  <2>2. w[n] \in Nat
    BY <2>1
  <2> QED
    BY <2>2
<1>6. ASSUME NEW i \in 1 .. n PROVE w[i] <= b + w[n]
  <2>1. CASE i = n
    BY <1>5, <2>1
  <2>2. CASE i # n
    <3>1. i \in 1 .. (n - 1) /\ i \in 1 .. Len(w)
      BY <1>0, <1>2, <2>2
    <3>2. w[i] \in Nat /\ w[i] <= b
      BY <1>4, <3>1
    <3> QED
      BY <1>5, <3>2
  <2> QED
    BY <2>1, <2>2
<1> QED
  BY <1>2, <1>5, <1>6 DEF Bounded

(* The element of any rank: as many are below it as its rank at most, and   *)
(* more than its rank are not above it.                                     *)
LEMMA RankedExists ==
  ASSUME NEW w \in Seq(Nat), NEW k \in Nat, k < Len(w)
  PROVE  /\ Ranked(w, k) \in {w[i] : i \in DOMAIN w}
         /\ Cardinality({i \in DOMAIN w : w[i] < Ranked(w, k)}) <= k
         /\ k < Cardinality({i \in DOMAIN w : w[i] <= Ranked(w, k)})
<1> DEFINE D == 1 .. Len(w)
           R == {w[i] : i \in D}
           Below(e) == {i \in D : w[i] < e}
           UpTo(e) == {i \in D : w[i] <= e}
           E == {e \in R : k < Cardinality(UpTo(e))}
<1>1. DOMAIN w = D /\ Len(w) \in Nat /\ R \in SUBSET Nat
  OBVIOUS
<1>2. IsFiniteSet(D) /\ Cardinality(D) = Len(w)
  BY <1>1, FS_Interval, SMTT(30)
<1>3. PICK b \in Nat : \A i \in D : w[i] <= b
  BY WindowBounded
<1>4. \A e \in Nat : /\ Below(e) \in SUBSET D /\ UpTo(e) \in SUBSET D
                     /\ Cardinality(Below(e)) \in Nat /\ Cardinality(UpTo(e)) \in Nat
  <2>1. ASSUME NEW S \in SUBSET D PROVE Cardinality(S) \in Nat
    <3> HIDE DEF D
    <3>1. IsFiniteSet(S)
      BY <1>2, FS_Subset
    <3> QED
      BY <3>1, FS_CardinalityType
  <2> QED
    BY <2>1
<1>5. E # {}
  <2>1. R # {} /\ \A m \in R : m <= b
    <3>1. 1 \in D
      BY <1>1
    <3> QED
      BY <1>3, <3>1
  <2>2. PICK e \in R : \A m \in R : m <= e
    <3> HIDE DEF R
    <3> QED
      BY <1>1, <2>1, LargestElement
  <2>3. UpTo(e) = D
    BY <2>2
  <2> QED
    BY <1>2, <2>3
<1>6. PICK e \in E : \A m \in E : e <= m
  <2>1. E \in SUBSET Nat
    BY <1>1
  <2> HIDE DEF E
  <2> QED
    BY <1>5, <2>1, LeastElement
<1>7. e \in R /\ e \in Nat /\ k < Cardinality(UpTo(e))
  BY <1>1
<1>8. Cardinality(Below(e)) <= k
  <2>1. CASE Below(e) = {}
    <3>1. Cardinality(Below(e)) = 0
      <4> HIDE DEF Below
      <4> QED
        BY <2>1, FS_EmptySet
    <3> QED
      BY <3>1
  <2>2. CASE Below(e) # {}
    <3> DEFINE L == {m \in R : m < e}
    <3>1. L \in SUBSET Nat /\ L # {} /\ \A m \in L : m <= b
      <4>1. PICK i \in D : w[i] < e
        BY <2>2
      <4> QED
        BY <1>1, <1>3, <4>1
    <3>2. PICK m \in L : \A n \in L : n <= m
      <4> HIDE DEF L
      <4> QED
        BY <3>1, LargestElement
    <3>3. m \in R /\ m \in Nat /\ m < e
      BY <1>1
    <3>4. UpTo(m) = Below(e)
      <4>1. ASSUME NEW i \in D PROVE w[i] <= m <=> w[i] < e
        <5>1. w[i] \in R /\ w[i] \in Nat
          BY <1>1
        <5>2. w[i] < e => w[i] <= m
          BY <3>2, <5>1
        <5>3. w[i] <= m => w[i] < e
          BY ONLY <1>7, <3>3, <5>1, SMTT(30)
        <5> QED
          BY ONLY <5>2, <5>3, Zenon
      <4> QED
        BY <4>1
    <3>5. ~ (m \in E)
      <4> HIDE DEF E, R, L
      <4> QED
        BY <1>6, <1>7, <3>3
    <3>6. ~ (k < Cardinality(UpTo(m))) /\ Cardinality(UpTo(m)) \in Nat
      BY <1>4, <3>3, <3>5
    <3>7. Cardinality(UpTo(m)) <= k
      <4> HIDE DEF UpTo
      <4> QED
        BY <3>6
    <3> QED
      BY <3>4, <3>7
  <2> QED
    BY <2>1, <2>2
<1>9. \E x \in R : Cardinality(Below(x)) <= k /\ k < Cardinality(UpTo(x))
  BY <1>7, <1>8
<1> QED
  BY <1>1, <1>9, Zenon DEF Ranked

(* A window of energies is one of natural numbers, and it is calibrated     *)
(* when it is full.                                                         *)
LEMMA WindowOfNat ==
  ASSUME NEW w \in Seq(Energies)
  PROVE  w \in Seq(Nat) /\ Len(w) \in Nat
<1>1. Len(w) \in Nat /\ w \in [1 .. Len(w) -> Energies]
  OBVIOUS
<1>2. w \in [1 .. Len(w) -> Nat]
  BY <1>1, VadAssumption
<1> QED
  BY <1>1, <1>2

(* What Calibrate keeps is a full window of energies.                       *)
LEMMA CalibratedWindow ==
  ASSUME VadTypeOK
  PROVE  /\ rmsWindow \in Seq(Energies) /\ Len(rmsWindow) \in Nat
         /\ calibrated => Len(rmsWindow) = CalibrationFrames
         /\ ~calibrated => Len(rmsWindow) < CalibrationFrames
<1>1. calibrated <=> Len(rmsWindow) = CalibrationFrames
  BY Zenon DEF VadTypeOK
<1> QED
  BY <1>1, VadAssumption DEF VadTypeOK

(* The noise floor is an energy of the window, and at most a fifth of the   *)
(* window is below it.                                                      *)
LEMMA NoiseFloorIsHeard ==
  ASSUME NEW w \in Seq(Energies), Len(w) > 0
  PROVE  /\ NoiseFloor(w) \in Nat
         /\ 5 * Cardinality({i \in DOMAIN w : w[i] < NoiseFloor(w)}) <= Len(w)
<1> DEFINE k == Len(w) \div 5
           C == Cardinality({i \in DOMAIN w : w[i] < Ranked(w, k)})
<1>1. w \in Seq(Nat) /\ Len(w) \in Nat
  BY WindowOfNat
<1>2. k \in Nat /\ k < Len(w) /\ 5 * k <= Len(w)
  BY <1>1, Z3
<1>3. Ranked(w, k) \in {w[i] : i \in DOMAIN w} /\ C <= k
  <2> HIDE DEF k
  <2> QED
    BY <1>1, <1>2, RankedExists
<1>4. C \in Nat
  <2>1. IsFiniteSet(DOMAIN w)
    BY <1>1, FS_Interval
  <2>2. IsFiniteSet({i \in DOMAIN w : w[i] < Ranked(w, k)})
    <3> HIDE DEF k
    <3> QED
      BY <2>1, FS_Subset
  <2> QED
    BY <2>2, FS_CardinalityType
<1>5. Ranked(w, k) \in Nat
  <2> HIDE DEF k
  <2> QED
    BY <1>1, <1>3
<1>6. 5 * C <= Len(w)
  <2> HIDE DEF k, C
  <2> QED
    BY <1>1, <1>2, <1>3, <1>4
<1> QED
  BY <1>5, <1>6 DEF NoiseFloor

(* A window for whose floor fewer than four fifths of the frames are bursts *)
(* has a floor of steady noise.                                             *)
LEMMA FloorIsSteadyNoise ==
  ASSUME NEW w \in Seq(Energies), Len(w) > 0, NEW e \in Energies,
         5 * Cardinality({i \in DOMAIN w : w[i] <= e}) > Len(w)
  PROVE  NoiseFloor(w) <= e
<1> DEFINE f == NoiseFloor(w)
           Steady == {i \in DOMAIN w : w[i] <= e}
           Below == {i \in DOMAIN w : w[i] < f}
<1>1. f \in Nat /\ 5 * Cardinality(Below) <= Len(w)
  BY NoiseFloorIsHeard
<1>2. w \in Seq(Nat) /\ e \in Nat /\ Len(w) \in Nat
  BY WindowOfNat, VadAssumption
<1> SUFFICES ASSUME e < f PROVE FALSE
  BY <1>1, <1>2
<1> HIDE DEF f
<1>3. Steady \in SUBSET Below
  <2>1. ASSUME NEW i \in DOMAIN w, w[i] <= e PROVE w[i] < f
    <3>1. w[i] \in Nat
      BY <1>2
    <3> QED
      BY <1>1, <1>2, <2>1, <3>1
  <2> QED
    BY <2>1
<1>4. IsFiniteSet(Below) /\ IsFiniteSet(Steady)
  <2>1. IsFiniteSet(DOMAIN w)
    BY <1>2, FS_Interval
  <2>2. Below \in SUBSET (DOMAIN w) /\ Steady \in SUBSET (DOMAIN w)
    OBVIOUS
  <2> HIDE DEF Below, Steady
  <2> QED
    BY <2>1, <2>2, FS_Subset
<1>5. Cardinality(Steady) <= Cardinality(Below) /\ Cardinality(Steady) \in Nat /\ Cardinality(Below) \in Nat
  <2> HIDE DEF Below, Steady
  <2> QED
    BY <1>3, <1>4, FS_Subset, FS_CardinalityType
<1>6. 5 * Cardinality(Steady) > Len(w)
  OBVIOUS
<1> HIDE DEF Below, Steady
<1> QED
  BY <1>1, <1>2, <1>5, <1>6

(* A detector that has heard nothing.                                       *)
LEMMA VadInitInv == VadInit => VadInv
<1> SUFFICES ASSUME VadInit PROVE VadInv
  OBVIOUS
<1> USE DEF VadInit
<1>1. VadTypeOK
  <2>1. 2 * InitialThreshold \in Nat \ {0} /\ HangoverFrames + 1 \in 0 .. (HangoverFrames + 1)
    BY VadAssumption
  <2>2. calibrated = (Len(rmsWindow) = CalibrationFrames)
    <3>1. ~ (Len(rmsWindow) = CalibrationFrames)
      BY VadAssumption
    <3> QED
      BY <3>1, Zenon
  <2>3. Len(rmsWindow) <= CalibrationFrames /\ rmsWindow \in Seq(Energies) /\ 0 \in 0 .. HangoverFrames
    BY VadAssumption
  <2> QED
    BY <2>1, <2>2, <2>3 DEF VadTypeOK, Long
<1>2. SpeechIffRecentlyLoud /\ HangoverRunsOut
  BY VadAssumption DEF SpeechIffRecentlyLoud, HangoverRunsOut, Long
<1> QED
  BY <1>1, <1>2 DEF VadInv

(* A frame of calibration. *)
LEMMA CalibrateKeepsInv ==
  ASSUME VadInv, NEW rms \in Energies, Calibrate(rms)
  PROVE  VadInv'
<1> USE VadAssumption DEF VadInv
<1>1. /\ rmsWindow' \in Seq(Energies) /\ Len(rmsWindow') = Len(rmsWindow) + 1
      /\ Len(rmsWindow) \in Nat /\ Len(rmsWindow) < CalibrationFrames
  BY CalibratedWindow DEF Calibrate
<1>2. calibrated' = (Len(rmsWindow') = CalibrationFrames) /\ Len(rmsWindow') <= CalibrationFrames
  BY <1>1 DEF Calibrate
<1>3. ThresholdRMS' \in Nat \ {0}
  <2>1. NoiseFloor(rmsWindow') \in Nat
    <3> DEFINE w == rmsWindow'
    <3>1. w \in Seq(Energies) /\ Len(w) > 0
      BY <1>1
    <3> HIDE DEF w
    <3>2. NoiseFloor(w) \in Nat
      BY <3>1, NoiseFloorIsHeard
    <3> QED
      BY <3>2 DEF w
  <2>2. ComputeThreshold(rmsWindow') \in Nat \ {0}
    BY <2>1 DEF ComputeThreshold
  <2> QED
    BY <2>2 DEF Calibrate, VadTypeOK
<1>4. VadTypeOK'
  BY <1>1, <1>2, <1>3 DEF Calibrate, VadTypeOK
<1>5. sinceLoud' = Long /\ verdict' = FALSE /\ hangover' = hangover /\ sinceLoud = Long
  BY DEF Calibrate, HangoverRunsOut
<1>6. SpeechIffRecentlyLoud' /\ HangoverRunsOut'
  BY <1>5 DEF SpeechIffRecentlyLoud, HangoverRunsOut, Long
<1> QED
  BY <1>4, <1>6

(* A frame after calibration. *)
LEMMA ClassifyKeepsInv ==
  ASSUME VadInv, NEW rms \in Energies, Classify(rms)
  PROVE  VadInv'
<1> USE VadAssumption DEF VadInv
<1> DEFINE loud == Loud(rms)
<1>1. /\ verdict' = (loud \/ hangover > 0) /\ verdict' \in BOOLEAN
      /\ hangover' = IF loud THEN HangoverFrames ELSE IF hangover > 0 THEN hangover - 1 ELSE 0
      /\ sinceLoud' = IF loud THEN 0 ELSE IF sinceLoud = Long THEN Long ELSE sinceLoud + 1
      /\ calibrated' = calibrated /\ calibrated /\ energy' = rms
      /\ UNCHANGED <<rmsWindow, ThresholdRMS, override>>
  BY DEF Classify
<1> HIDE DEF loud
<1>2. hangover \in 0 .. HangoverFrames /\ sinceLoud \in 0 .. Long
  BY DEF VadTypeOK
<1>3. hangover' \in 0 .. HangoverFrames /\ sinceLoud' \in 0 .. Long
  BY <1>1, <1>2 DEF Long
<1>4. VadTypeOK'
  BY <1>1, <1>3 DEF VadTypeOK
<1>5. HangoverRunsOut'
  BY <1>1, <1>2, <1>3 DEF HangoverRunsOut, Long
<1>6. SpeechIffRecentlyLoud'
  <2>1. verdict' <=> loud \/ hangover > 0
    BY <1>1
  <2>2. (loud \/ hangover > 0) <=> sinceLoud' <= HangoverFrames
    BY <1>1, <1>2 DEF HangoverRunsOut, Long
  <2> QED
    BY <2>1, <2>2 DEF SpeechIffRecentlyLoud
<1> QED
  BY <1>4, <1>5, <1>6

(* Once calibrated, a frame is speech exactly if it or one of the           *)
(* HangoverFrames before it was loud, whatever the thresholds, the window   *)
(* and the hangover.                                                        *)
THEOREM VadInvariant == VadSpec => []VadInv
<1>1. VadInit => VadInv
  BY VadInitInv
<1>2. VadInv /\ [VadNext]_allVadVars => VadInv'
  <2> SUFFICES ASSUME VadInv, [VadNext]_allVadVars PROVE VadInv'
    OBVIOUS
  <2>1. CASE \E rms \in Energies : IsSpeech(rms)
    BY <2>1, CalibrateKeepsInv, ClassifyKeepsInv DEF IsSpeech
  <2>2. CASE \E threshold \in Thresholds : SetThresholdRMS(threshold)
    <3>1. UNCHANGED <<rmsWindow, calibrated, hangover, verdict, energy, sinceLoud>>
      BY <2>2 DEF SetThresholdRMS, historyVars
    <3>2. ThresholdRMS' \in Nat \ {0} /\ override' \in Nat
      BY <2>2, VadAssumption DEF SetThresholdRMS, VadInv, VadTypeOK
    <3> QED
      BY <3>1, <3>2 DEF VadInv, VadTypeOK, SpeechIffRecentlyLoud, HangoverRunsOut
  <2>3. CASE VadReset
    <3> USE <2>3, VadAssumption DEF VadReset, VadInv
    <3>1. VadTypeOK'
      <4>1. ~ (Len(rmsWindow') = CalibrationFrames) /\ Len(rmsWindow') <= CalibrationFrames
        OBVIOUS
      <4>2. calibrated' = (Len(rmsWindow') = CalibrationFrames)
        BY <4>1, Zenon
      <4>3. rmsWindow' \in Seq(Energies) /\ HangoverFrames + 1 \in 0 .. (HangoverFrames + 1)
        OBVIOUS
      <4>4. /\ ThresholdRMS' \in Nat \ {0} /\ override' \in Nat /\ hangover' \in 0 .. HangoverFrames
            /\ verdict' \in BOOLEAN /\ energy' \in Energies \cup {0} /\ sinceLoud' \in 0 .. Long
        <5>1. ThresholdRMS \in Nat \ {0} /\ override \in Nat
          BY Zenon DEF VadTypeOK
        <5>2. 0 \in 0 .. HangoverFrames /\ 0 .. (HangoverFrames + 1) = 0 .. Long
          BY DEF Long
        <5>3. FALSE \in BOOLEAN /\ 0 \in Energies \cup {0} /\ Long \in 0 .. Long
          BY <4>3 DEF Long
        <5> QED
          BY <5>1, <5>2, <5>3
      <4> QED
        BY <4>1, <4>2, <4>3, <4>4, Zenon DEF VadTypeOK
    <3>2. SpeechIffRecentlyLoud' /\ HangoverRunsOut'
      BY DEF SpeechIffRecentlyLoud, HangoverRunsOut, Long
    <3> QED
      BY <3>1, <3>2
  <2>4. CASE UNCHANGED allVadVars
    BY <2>4 DEF allVadVars, vadVars, historyVars, VadInv, VadTypeOK, SpeechIffRecentlyLoud, HangoverRunsOut
  <2> QED
    BY <2>1, <2>2, <2>3, <2>4 DEF VadNext
<1> QED
  BY <1>1, <1>2, PTL DEF VadSpec

(* Bursts that fill less than four fifths of the calibration window leave   *)
(* the noise floor at the steady noise, whatever the energies.              *)
THEOREM BurstsLeaveFloor == VadSpec => BurstsDoNotRaiseFloor
<1>1. ASSUME VadInv'
      PROVE  \A e \in Energies :
               (/\ ~calibrated /\ calibrated'
                /\ 5 * Cardinality({i \in DOMAIN rmsWindow' : rmsWindow'[i] <= e})
                     > CalibrationFrames)
                 => NoiseFloor(rmsWindow') <= e
  <2> DEFINE w == rmsWindow'
  <2>1. w \in Seq(Energies) /\ (calibrated' => Len(w) = CalibrationFrames) /\ CalibrationFrames > 0
    <3>1. calibrated' <=> Len(rmsWindow') = CalibrationFrames
      BY <1>1, Zenon DEF VadInv, VadTypeOK
    <3> QED
      BY <1>1, <3>1, VadAssumption DEF VadInv, VadTypeOK
  <2> HIDE DEF w
  <2>2. ASSUME NEW e \in Energies, calibrated',
               5 * Cardinality({i \in DOMAIN w : w[i] <= e}) > CalibrationFrames
        PROVE  NoiseFloor(w) <= e
    BY <2>1, <2>2, FloorIsSteadyNoise
  <2> QED
    BY <2>2 DEF w
<1> QED
  BY <1>1, VadInvariant, PTL DEF BurstsDoNotRaiseFloor

-----------------------------------------------------------------------------
(* Level control *)

(* The cap on the gain of any level is positive and at most the larger of   *)
(* unity and MaxGain.                                                       *)
LEMMA CappedGain ==
  ASSUME NEW level \in 0 .. 33
  PROVE  effectiveMaxGain(level) \in Nat \ {0} /\ effectiveMaxGain(level) <= Greater(Unity, MaxGain)
<1>1. CASE level > 29 \/ ~ (level > 23)
  BY <1>1, LevelAssumption DEF effectiveMaxGain, Greater, Unity
<1>2. CASE level \in {24, 25, 26, 27, 28, 29}
  BY <1>2, LevelAssumption, SMTT(30) DEF effectiveMaxGain, Greater, Unity
<1> QED
  BY <1>1, <1>2

(* The gain AGC wants for a frame lies within its bounds.                   *)
LEMMA DesiredGainBounded ==
  ASSUME NEW level \in 0 .. 33, targetRMS \in Nat \ {0}, targetGain \in Nat, GainBounded
  PROVE  DesiredGain(level) \in Nat \ {0} /\ DesiredGain(level) <= Greater(Unity, MaxGain)
<1>1. CASE level = 0
  BY <1>1 DEF DesiredGain, GainBounded
<1>2. CASE level # 0
  <2> DEFINE a == targetRMS * Unity
             wanted == (a + level - 1) \div level
             cap == effectiveMaxGain(level)
  <2>1. a \in Nat \ {0}
    BY DEF Unity
  <2>2. wanted \in Nat \ {0}
    <3> HIDE DEF a
    <3> DEFINE b == a + level - 1
    <3>1. b \in Nat /\ level <= b /\ level \in Nat \ {0}
      BY <1>2, <2>1
    <3> HIDE DEF b
    <3>2. b \div level \in Nat \ {0}
      BY <3>1, Z3
    <3> QED
      BY <3>2 DEF b
  <2>3. cap \in Nat \ {0} /\ cap <= Greater(Unity, MaxGain) /\ Greater(Unity, MaxGain) \in Nat
    BY CappedGain, LevelAssumption DEF Greater, Unity
  <2>4. DesiredGain(level) = Lesser(wanted, cap)
    BY <1>2 DEF DesiredGain
  <2> HIDE DEF wanted, cap
  <2> QED
    BY <2>2, <2>3, <2>4 DEF Lesser
<1> QED
  BY <1>1, <1>2

(* A smoothed gain lies between where it was and where it goes.             *)
LEMMA SmoothedBetween ==
  ASSUME NEW from \in Nat, NEW to \in Nat
  PROVE  /\ Smoothed(from, to) \in Nat
         /\ Smoothed(from, to) <= Greater(from, to) /\ Lesser(from, to) <= Smoothed(from, to)
<1>1. AttackShare = 2
  BY LevelAssumption DEF AttackShare, AttackShareRaw
<1> QED
  BY <1>1, SMTT(30) DEF Smoothed, Greater, Lesser

(* A gained sample is clipped to the scale.                                 *)
LEMMA GainedInScale ==
  ASSUME NEW level \in 0 .. 33, NEW gain \in Nat
  PROVE  Gained(level, gain) \in 0 .. FullScale
<1> DEFINE p == level * gain
           val == p \div Unity
<1>1. p \in Nat
  OBVIOUS
<1>2. val \in Nat
  <2> HIDE DEF p
  <2> QED
    BY <1>1 DEF Unity
<1>3. softLimit(val) \in Nat
  <2> HIDE DEF val
  <2>1. CASE val <= 28
    BY <1>2, <2>1 DEF softLimit, SoftLimitThreshold
  <2>2. CASE val > 28
    <3> DEFINE a == 8 * (val - 28)
               b == val - 28 + 10
    <3>1. a \in Nat /\ b \in Nat \ {0}
      BY <1>2, <2>2
    <3>2. a \div b \in Nat
      <4> HIDE DEF a, b
      <4> QED
        BY <3>1, Z3
    <3> QED
      BY <1>2, <2>2, <3>2 DEF softLimit, SoftLimitThreshold
  <2> QED
    BY <1>2, <2>1, <2>2
<1> HIDE DEF val
<1> QED
  BY <1>3 DEF Gained, Lesser, FullScale, val

(* A share of b that is at most the whole is at most b.                     *)
LEMMA ShareAtMost ==
  ASSUME NEW a \in Nat, NEW b \in Nat, NEW c \in Nat \ {0}, a <= c
  PROVE  (a * b) \div c \in Nat /\ (a * b) \div c <= b
<1> DEFINE ab == a * b
           cb == c * b
<1>1. ab \in Nat /\ cb \in Nat
  OBVIOUS
<1>2. ab <= cb
  BY Z3
<1>3. cb \div c = b
  BY Z3
<1>4. ab \div c <= cb \div c /\ ab \div c \in Nat
  <2> HIDE DEF ab, cb
  <2> QED
    BY <1>1, <1>2, Z3
<1> QED
  BY <1>3, <1>4

(* What the limiter lets through is within its ceiling and its input.       *)
LEMMA LimitedWithin ==
  ASSUME NEW level \in 0 .. FullScale, NEW env \in 0 .. FullScale + 1, level <= env
  PROVE  /\ Limited(level, env) \in 0 .. FullScale
         /\ Limited(level, env) <= Threshold /\ Limited(level, env) <= level
<1> USE DEF FullScale, Threshold
<1>1. CASE ~ (env > 28)
  BY <1>1 DEF Limited
<1>2. CASE env > 28
  <2> DEFINE q == (level * 28) \div env
  <2>1. q \in Nat /\ q <= 28
    BY <1>2, ShareAtMost
  <2>2. q <= level
    <3>1. (28 * level) \div env <= level
      BY <1>2, ShareAtMost
    <3>2. 28 * level = level * 28
      OBVIOUS
    <3> QED
      BY <3>1, <3>2
  <2>3. Limited(level, env) = q
    BY <1>2 DEF Limited
  <2> HIDE DEF q
  <2> QED
    BY <2>1, <2>2, <2>3
<1> QED
  BY <1>1, <1>2

(* The noise floor of a level is a level.                                   *)
LEMMA FloorInScale ==
  ASSUME NEW rms \in 1 .. 33, noiseFloor \in 1 .. 33
  PROVE  Floor(rms) \in 1 .. 33
BY DEF Floor, Greater

(* A frame. *)
LEMMA FrameKeepsInv ==
  ASSUME LevelInv, NEW level \in Levels, ProcessLevel(level)
  PROVE  LevelInv'
<1> USE DEF LevelInv
<1> DEFINE rms == Greater(1, level)
           sampleOut == Gained(level, currentGain')
<1>1. level \in 0 .. 33 /\ rms \in 1 .. 33
  BY LevelAssumption DEF Greater
<1>2. targetGain' \in Nat \ {0} /\ targetGain' <= Greater(Unity, MaxGain)
  BY <1>1, DesiredGainBounded DEF ProcessLevel, LevelTypeOK
<1>3. currentGain' \in Nat \ {0} /\ currentGain' <= Greater(Unity, MaxGain)
  <2> DEFINE g == Smoothed(currentGain, targetGain')
  <2>1. currentGain \in Nat \ {0} /\ currentGain <= Greater(Unity, MaxGain)
    BY DEF LevelTypeOK, GainBounded
  <2>2. g \in Nat /\ g <= Greater(currentGain, targetGain') /\ Lesser(currentGain, targetGain') <= g
    BY <1>2, <2>1, SmoothedBetween
  <2>3. Greater(Unity, MaxGain) \in Nat
    BY LevelAssumption DEF Greater, Unity
  <2>4. currentGain' = g
    BY DEF ProcessLevel
  <2> HIDE DEF g
  <2> QED
    BY <1>2, <2>1, <2>2, <2>3, <2>4 DEF Greater, Lesser
<1>4. sampleOut \in 0 .. FullScale
  BY <1>1, <1>3, GainedInScale
<1>5. Envelope(sampleOut) \in 0 .. FullScale + 1 /\ sampleOut <= Envelope(sampleOut)
  <2> HIDE DEF sampleOut
  <2> QED
    BY <1>4 DEF Envelope, Greater, LevelTypeOK, FullScale
<1>6. /\ Limited(sampleOut, Envelope(sampleOut)) \in 0 .. FullScale
      /\ Limited(sampleOut, Envelope(sampleOut)) <= Threshold /\ Limited(sampleOut, Envelope(sampleOut)) <= sampleOut
  <2> HIDE DEF sampleOut
  <2> QED
    BY <1>4, <1>5, LimitedWithin
<1>7. /\ peak' = Envelope(sampleOut) /\ gained' = sampleOut /\ limited' = Limited(sampleOut, Envelope(sampleOut))
      /\ noiseFloor' = Floor(rms) /\ tier' = Tier(rms, Floor(rms)) /\ input' = level
      /\ UNCHANGED <<targetRMS, lowSNR, highSNR>>
  BY DEF ProcessLevel
<1>8. Floor(rms) \in 1 .. 33
  BY <1>1, FloorInScale DEF LevelTypeOK, FullScale
<1>9. tier' \in {"none", "gate", "rnnoise", "deepfilter"}
  BY <1>7 DEF Tier
<1> HIDE DEF rms, sampleOut
<1>10. LevelTypeOK'
  BY <1>1, <1>2, <1>3, <1>4, <1>5, <1>6, <1>7, <1>8, <1>9 DEF LevelTypeOK, FullScale
<1> QED
  BY <1>2, <1>3, <1>6, <1>7, <1>10 DEF GainBounded, WithinCeiling

(* Whatever is configured, said or heard, the gain stays within its bounds  *)
(* and the output within the ceiling and the input of the limiter.          *)
THEOREM LevelInvariant == LevelSpec => []LevelInv
<1>1. LevelInit => LevelInv
  BY LevelAssumption DEF LevelInit, LevelInv, LevelTypeOK, GainBounded, WithinCeiling, Unity, FullScale,
     Threshold, Greater
<1>2. LevelInv /\ [LevelNext]_levelVars => LevelInv'
  <2> SUFFICES ASSUME LevelInv, [LevelNext]_levelVars PROVE LevelInv'
    OBVIOUS
  <2>1. CASE \E l \in Levels : ProcessLevel(l)
    BY <2>1, FrameKeepsInv
  <2>2. CASE \E t \in Targets : SetTargetRMS(t)
    BY <2>2, LevelAssumption DEF SetTargetRMS, lastVars, LevelInv, LevelTypeOK, GainBounded, WithinCeiling
  <2>3. CASE SetThresholds(2, 10)
    BY <2>3 DEF SetThresholds, gainVars, lastVars, LevelInv, LevelTypeOK, GainBounded, WithinCeiling
  <2>4. CASE ResetLevels
    BY <2>4, LevelAssumption DEF ResetLevels, lastVars, LevelInv, LevelTypeOK, GainBounded, WithinCeiling,
       Unity, FullScale, Greater
  <2>5. CASE UNCHANGED levelVars
    BY <2>5 DEF levelVars, LevelInv, LevelTypeOK, GainBounded, WithinCeiling
  <2> QED
    BY <2>1, <2>2, <2>3, <2>4, <2>5 DEF LevelNext
<1> QED
  BY <1>1, <1>2, PTL DEF LevelSpec

-----------------------------------------------------------------------------
(* The audio pipeline *)

(* Products with the frame size. *)
LEMMA NextFrame ==
  ASSUME NEW n \in Nat
  PROVE  /\ InputFrame * n \in Nat /\ n <= InputFrame * n
         /\ InputFrame * (n + 1) = InputFrame * n + InputFrame
         /\ InputFrame * 0 = 0 /\ InputFrame * 1 = InputFrame
         /\ InputFrame \in Nat /\ InputFrame > 0 /\ FlushFrame \in Nat /\ FlushFrame > 0
<1>1. InputFrame \in Nat /\ InputFrame > 0 /\ FlushFrame \in Nat /\ FlushFrame > 0
  BY PipelineAssumption
<1>2. n <= InputFrame * n /\ InputFrame * n \in Nat
  BY <1>1, Z3
<1>3. InputFrame * (n + 1) = InputFrame * n + InputFrame
  BY <1>1, Z3
<1> QED
  BY <1>1, <1>2, <1>3

(* What the counters and units are when they are natural numbers. *)
CountersAreNat ==
  /\ written \in Nat /\ framesProcessed \in Nat /\ framesSuppressed \in Nat /\ framesSilent \in Nat
  /\ passed \in Nat
  /\ fed \in 0 .. MaxFed /\ data \in Nat /\ buf \in Nat /\ flushed \in Nat
  /\ errors \in Nat /\ resets \in Nat

(* The counters are natural numbers, whatever bounds they have.             *)
LEMMA TypesCount == PipelineTypeOK => CountersAreNat
<1> SUFFICES ASSUME PipelineTypeOK PROVE CountersAreNat
  OBVIOUS
<1>1. InputFrame \in Nat /\ {MaxFed, MaxErrors, MaxToggles, MaxResets} \subseteq Nat
  BY PipelineAssumption
<1>2. /\ written \in 0 .. MaxFed /\ framesProcessed \in 0 .. MaxFed
      /\ framesSuppressed \in 0 .. MaxFed /\ framesSilent \in 0 .. MaxFed /\ passed \in 0 .. MaxFed
      /\ fed \in 0 .. MaxFed /\ flushed \in 0 .. MaxFed /\ buf \in 0 .. InputFrame - 1
      /\ data \in 0 .. MaxFed + InputFrame
      /\ errors \in 0 .. MaxErrors /\ resets \in 0 .. MaxResets
  BY DEF PipelineTypeOK
<1> QED
  BY <1>1, <1>2 DEF CountersAreNat

(* The bounds of the type invariant follow from the balance. *)
LEMMA BalanceBounds ==
  ASSUME CountersAreNat, UnitsBalance
  PROVE  /\ \A n \in {framesProcessed, framesSuppressed, framesSilent, passed, written} : n \in 0 .. MaxFed
         /\ flushed \in 0 .. MaxFed /\ data \in 0 .. MaxFed
<1>1. Begun \in Nat /\ Processed \in Nat /\ Classified \in Nat
  BY DEF Begun, Processed, Classified, Holding, CountersAreNat
<1>2. /\ Begun <= InputFrame * Begun /\ InputFrame * Begun \in Nat
      /\ Processed <= InputFrame * Processed /\ InputFrame * Processed \in Nat
      /\ Classified <= InputFrame * Classified /\ InputFrame * Classified \in Nat
  BY <1>1, NextFrame
<1>3. Begun <= fed /\ Processed <= fed /\ Classified <= fed /\ flushed <= fed /\ data <= fed
  <2> DEFINE p == InputFrame * Begun
             q == InputFrame * Processed
             r == InputFrame * Classified
  <2>1. p + data + buf + flushed <= fed /\ q + data + buf <= fed /\ r + data + buf <= fed
    BY DEF UnitsBalance
  <2> HIDE DEF p, q, r
  <2> QED
    BY <1>1, <1>2, <2>1 DEF CountersAreNat, p, q, r
<1>4. /\ framesSuppressed <= Classified /\ framesSilent <= Classified /\ passed <= Classified
      /\ framesProcessed <= Processed /\ written <= Begun
  BY DEF Begun, Processed, Classified, Holding, CountersAreNat
<1> QED
  BY <1>1, <1>3, <1>4, PipelineAssumption DEF CountersAreNat

CountsKept == UNCHANGED <<wideband, Begun, Processed, Classified>>

(* A step that moves the frame in hand along its path. *)
LEMMA StageKeepsCounts ==
  ASSUME PipelineInv, UNCHANGED wideband,
         ReduceNoise \/ Gate \/ Level \/ Count \/ Write \/ ReduceNoise48 \/ Gate48 \/ Suppress48 \/ Level48
  PROVE  CountsKept
<1> USE DEF Step, Holding, NarrowPlaces, WidePlaces, Begun, Processed, Classified, CountsKept
<1>0. CountersAreNat
  BY TypesCount DEF PipelineInv
<1> USE <1>0 DEF CountersAreNat
<1>1. CASE ReduceNoise \/ Gate \/ Level \/ ReduceNoise48
  BY <1>1 DEF ReduceNoise, Gate, Level, ReduceNoise48, statVars, streamVars
<1>4. CASE Write \/ Level48
  BY <1>4 DEF Write, Level48, statVars
<1>2. CASE Count
  BY <1>2 DEF Count, streamVars
<1>3. CASE Gate48 \/ Suppress48
  BY <1>3 DEF Gate48, Suppress48, streamVars
<1> QED
  BY <1>1, <1>2, <1>3, <1>4

(* Fewer frames are fewer units. *)
LEMMA FewerFrames ==
  ASSUME NEW m \in Nat, NEW n \in Nat, m <= n
  PROVE  InputFrame * m \in Nat /\ InputFrame * n \in Nat /\ InputFrame * m <= InputFrame * n
<1>1. InputFrame \in Nat
  BY PipelineAssumption
<1> QED
  BY <1>1, Z3

(* So are the numbers of frames that have reached a stage.                  *)
LEMMA CountsAreNat == CountersAreNat => Begun \in Nat /\ Processed \in Nat /\ Classified \in Nat
BY DEF Begun, Processed, Classified, Holding, CountersAreNat

(* The balance when units move between the call, the buffer, the flushed    *)
(* and the fed ones, and when a frame is begun.                             *)
LEMMA KeptUnits ==
  ASSUME PipelineInv, NEW d \in Nat, NEW b \in Nat, NEW f \in Nat, NEW n \in Nat,
         d + b + f - n <= data + buf + flushed - fed, d + b - n <= data + buf - fed,
         InputFrame <= FlushFrame + 1 => d + b + f - n = data + buf + flushed - fed
  PROVE  /\ InputFrame * Begun + d + b + f <= n
         /\ (errors = 0 /\ InputFrame <= FlushFrame + 1) => n = InputFrame * Begun + d + b + f
         /\ InputFrame * Processed + d + b <= n /\ InputFrame * Classified + d + b <= n
<1>1. CountersAreNat /\ Begun \in Nat /\ Processed \in Nat /\ Classified \in Nat
  BY TypesCount, CountsAreNat DEF PipelineInv
<1> DEFINE p == InputFrame * Begun
           q == InputFrame * Processed
           r == InputFrame * Classified
<1>2. p \in Nat /\ q \in Nat /\ r \in Nat
  BY <1>1, NextFrame
<1>3. /\ p + data + buf + flushed <= fed
      /\ (errors = 0 /\ InputFrame <= FlushFrame + 1) => fed = p + data + buf + flushed
      /\ q + data + buf <= fed /\ r + data + buf <= fed
  BY DEF PipelineInv, UnitsBalance
<1>4. InputFrame \in Nat /\ FlushFrame \in Nat
  BY PipelineAssumption
<1> HIDE DEF p, q, r
<1>5. /\ p + d + b + f <= n
      /\ (errors = 0 /\ InputFrame <= FlushFrame + 1) => n = p + d + b + f
      /\ q + d + b <= n /\ r + d + b <= n
  BY <1>1, <1>2, <1>3, <1>4 DEF CountersAreNat
<1> QED
  BY <1>5 DEF p, q, r

(* A step that begins a frame moves one frame of units from the buffer to   *)
(* the stages.                                                              *)
LEMMA BegunUnits ==
  ASSUME PipelineInv, NEW d \in Nat, NEW n \in Nat, d - n = data - fed - InputFrame
  PROVE  /\ InputFrame * (Begun + 1) + d + buf + flushed <= n
         /\ (errors = 0 /\ InputFrame <= FlushFrame + 1) => n = InputFrame * (Begun + 1) + d + buf + flushed
         /\ InputFrame * (Processed + 1) + d + buf <= n /\ InputFrame * (Classified + 1) + d + buf <= n
<1>1. CountersAreNat /\ Begun \in Nat /\ Processed \in Nat /\ Classified \in Nat
  BY TypesCount, CountsAreNat DEF PipelineInv
<1> DEFINE p == InputFrame * Begun
           q == InputFrame * Processed
           r == InputFrame * Classified
           p1 == InputFrame * (Begun + 1)
           q1 == InputFrame * (Processed + 1)
           r1 == InputFrame * (Classified + 1)
<1>2. /\ p \in Nat /\ q \in Nat /\ r \in Nat /\ InputFrame \in Nat
      /\ p1 = p + InputFrame /\ q1 = q + InputFrame /\ r1 = r + InputFrame
  BY <1>1, NextFrame
<1>3. /\ p + data + buf + flushed <= fed
      /\ (errors = 0 /\ InputFrame <= FlushFrame + 1) => fed = p + data + buf + flushed
      /\ q + data + buf <= fed /\ r + data + buf <= fed
  BY DEF PipelineInv, UnitsBalance
<1>4. FlushFrame \in Nat
  BY PipelineAssumption
<1> HIDE DEF p, q, r, p1, q1, r1
<1>5. /\ p1 + d + buf + flushed <= n
      /\ (errors = 0 /\ InputFrame <= FlushFrame + 1) => n = p1 + d + buf + flushed
      /\ q1 + d + buf <= n /\ r1 + d + buf <= n
  BY <1>1, <1>2, <1>3, <1>4 DEF CountersAreNat
<1> QED
  BY <1>5 DEF p1, q1, r1

(* A step that keeps the counts keeps the balance if it moves units between *)
(* the call and the buffer, takes new ones, or flushes.                     *)
LEMMA KeptBalance ==
  ASSUME PipelineInv, CountsKept,
         framesProcessed' = framesProcessed \/ ~wideband,
         fed' \in Nat, data' \in Nat, buf' \in Nat, flushed' \in Nat,
         UNCHANGED <<errors, resets>>,
         data' + buf' + flushed' - fed' <= data + buf + flushed - fed,
         data' + buf' - fed' <= data + buf - fed,
         InputFrame <= FlushFrame + 1 =>
           data' + buf' + flushed' - fed' = data + buf + flushed - fed
  PROVE  UnitsBalance'
<1>1. PICK d \in Nat, b \in Nat, f \in Nat, n \in Nat :
        d = data' /\ b = buf' /\ f = flushed' /\ n = fed'
  OBVIOUS
<1>2. /\ d + b + f - n <= data + buf + flushed - fed /\ d + b - n <= data + buf - fed
      /\ InputFrame <= FlushFrame + 1 => d + b + f - n = data + buf + flushed - fed
  BY <1>1
<1>3. /\ InputFrame * Begun + d + b + f <= n
      /\ (errors = 0 /\ InputFrame <= FlushFrame + 1) => n = InputFrame * Begun + d + b + f
      /\ InputFrame * Processed + d + b <= n /\ InputFrame * Classified + d + b <= n
  BY <1>2, KeptUnits, Zenon
<1>4. /\ Begun' = Begun /\ Processed' = Processed /\ Classified' = Classified /\ wideband' = wideband
      /\ errors' = errors /\ resets' = resets
  BY DEF CountsKept
<1>5. (wideband /\ resets = 0) => Classified <= framesProcessed' /\ framesProcessed' <= Classified + errors
  BY DEF PipelineInv, UnitsBalance
<1> QED
  BY <1>1, <1>3, <1>4, <1>5, Zenon DEF UnitsBalance

(* A step that begins a frame. *)
LEMMA BegunBalance ==
  ASSUME PipelineInv, StartFrame \/ Call48, UNCHANGED wideband
  PROVE  UnitsBalance'
<1>1. CountersAreNat /\ Begun \in Nat /\ Processed \in Nat /\ Classified \in Nat /\ InputFrame \in Nat
  BY TypesCount, CountsAreNat, PipelineAssumption DEF PipelineInv
<1>2. /\ Begun' = Begun + 1 /\ Processed' = Processed + 1 /\ Classified' = Classified + 1
      /\ UNCHANGED <<wideband, errors, resets, flushed, buf>>
      /\ framesProcessed' = framesProcessed + 1 \/ ~wideband
  <2> USE <1>1 DEF Begun, Processed, Classified, Holding, NarrowPlaces, WidePlaces, CountersAreNat, PipelineInv, OnItsPath
  <2>1. CASE StartFrame
    BY <2>1 DEF StartFrame, statVars, streamVars, controlVars
  <2>2. CASE Call48
    BY <2>2 DEF Call48, controlVars
  <2> QED
    BY <2>1, <2>2
<1>3. PICK d \in Nat, n \in Nat : d = data' /\ n = fed' /\ d - n = data - fed - InputFrame
  <2>1. CASE StartFrame
    <3>1. data - InputFrame \in Nat /\ fed \in Nat
          /\ (data - InputFrame) - fed = data - fed - InputFrame
      BY <1>1, <2>1 DEF StartFrame, CountersAreNat
    <3>2. data' = data - InputFrame /\ fed' = fed
      BY <2>1 DEF StartFrame, streamVars
    <3> QED
      BY <3>1, <3>2, Zenon
  <2>2. CASE Call48
    <3>1. data \in Nat /\ fed + InputFrame \in Nat /\ data - (fed + InputFrame) = data - fed - InputFrame
      BY <1>1 DEF CountersAreNat
    <3>2. data' = data /\ fed' = fed + InputFrame
      BY <2>2 DEF Call48
    <3> QED
      BY <3>1, <3>2, Zenon
  <2> QED
    BY <2>1, <2>2
<1>4. /\ InputFrame * (Begun + 1) + d + buf + flushed <= n
      /\ (errors = 0 /\ InputFrame <= FlushFrame + 1) => n = InputFrame * (Begun + 1) + d + buf + flushed
      /\ InputFrame * (Processed + 1) + d + buf <= n /\ InputFrame * (Classified + 1) + d + buf <= n
  BY <1>3, BegunUnits, Zenon
<1>5. (wideband /\ resets = 0) =>
        Classified + 1 <= framesProcessed' /\ framesProcessed' <= Classified + 1 + errors
  <2> SUFFICES ASSUME wideband, resets = 0
               PROVE  Classified + 1 <= framesProcessed + 1 /\ framesProcessed + 1 <= Classified + 1 + errors
    BY <1>2
  <2>1. Classified <= framesProcessed /\ framesProcessed <= Classified + errors
    BY DEF PipelineInv, UnitsBalance
  <2> QED
    BY <1>1, <2>1 DEF CountersAreNat
<1>6. /\ Begun' = Begun + 1 /\ Processed' = Processed + 1 /\ Classified' = Classified + 1
      /\ wideband' = wideband /\ errors' = errors /\ resets' = resets /\ flushed' = flushed /\ buf' = buf
      /\ d = data' /\ n = fed'
  BY <1>2, <1>3
<1>7. /\ InputFrame * Begun' + data' + buf' + flushed' <= fed'
      /\ (errors' = 0 /\ InputFrame <= FlushFrame + 1)
           => fed' = InputFrame * Begun' + data' + buf' + flushed'
  BY <1>4, <1>6, Zenon
<1>8. InputFrame * Processed' + data' + buf' <= fed' /\ InputFrame * Classified' + data' + buf' <= fed'
  BY <1>4, <1>6, Zenon
<1>9. (wideband' /\ resets' = 0) =>
        Classified' <= framesProcessed' /\ framesProcessed' <= Classified' + errors'
  <2> SUFFICES ASSUME wideband', resets' = 0
               PROVE  Classified' <= framesProcessed' /\ framesProcessed' <= Classified' + errors'
    OBVIOUS
  <2>1. Classified + 1 <= framesProcessed' /\ framesProcessed' <= Classified + 1 + errors
    BY <1>5, <1>6
  <2> QED
    BY <1>6, <2>1, Zenon
<1> QED
  BY <1>7, <1>8, <1>9, Zenon DEF UnitsBalance

(* A failure and the calls that set counters back. *)
LEMMA DroppedBalance ==
  ASSUME PipelineInv, Fail \/ FlushFails \/ Reset \/ ResetStats, UNCHANGED wideband
  PROVE  UnitsBalance'
<1>1. CountersAreNat /\ Begun \in Nat /\ Processed \in Nat /\ Classified \in Nat
  BY TypesCount, CountsAreNat DEF PipelineInv
<1> DEFINE p == InputFrame * Begun
           q == InputFrame * Processed
           r == InputFrame * Classified
<1>2. p \in Nat /\ q \in Nat /\ r \in Nat /\ InputFrame * 0 = 0
  BY <1>1, NextFrame
<1>3. /\ p + data + buf + flushed <= fed
      /\ (errors = 0 /\ InputFrame <= FlushFrame + 1) => fed = p + data + buf + flushed
      /\ q + data + buf <= fed /\ r + data + buf <= fed
      /\ (wideband /\ resets = 0) =>
           Classified <= framesProcessed /\ framesProcessed <= Classified + errors
  BY DEF PipelineInv, UnitsBalance
<1>4. CASE Fail \/ FlushFails
  <2>1. /\ Begun' \in Nat /\ Processed' \in Nat /\ Classified' \in Nat
        /\ Begun' <= Begun /\ Processed' <= Processed
        /\ Classified' <= Classified /\ Classified <= Classified' + 1
    BY <1>1, <1>4 DEF Begun, Processed, Classified, Holding, NarrowPlaces, WidePlaces, CountersAreNat, Fail, FlushFails,
       statVars, streamVars
  <2>2. /\ data' = 0 /\ errors' = errors + 1 /\ buf' \in Nat /\ buf' <= buf
        /\ UNCHANGED <<wideband, fed, flushed, resets, framesProcessed>>
    BY <1>1, <1>4 DEF Fail, FlushFails, statVars, streamVars, controlVars, PipelineInv, OnItsPath, CountersAreNat
  <2>3. /\ InputFrame * Begun' <= p /\ InputFrame * Begun' \in Nat
        /\ InputFrame * Processed' <= q /\ InputFrame * Processed' \in Nat
        /\ InputFrame * Classified' <= r /\ InputFrame * Classified' \in Nat
    BY <1>1, <2>1, FewerFrames
  <2> DEFINE p1 == InputFrame * Begun'
             q1 == InputFrame * Processed'
             r1 == InputFrame * Classified'
  <2> SUFFICES /\ p1 + flushed + buf' <= fed /\ errors + 1 # 0
               /\ q1 + buf' <= fed /\ r1 + buf' <= fed
               /\ (wideband /\ resets = 0) =>
                    Classified' <= framesProcessed /\ framesProcessed <= Classified' + (errors + 1)
    BY <2>2, <2>3, <1>1 DEF UnitsBalance, CountersAreNat
  <2> HIDE DEF p, q, r, p1, q1, r1
  <2>4. p1 + flushed + buf' <= fed /\ q1 + buf' <= fed /\ r1 + buf' <= fed
    BY <1>1, <1>2, <1>3, <2>2, <2>3 DEF CountersAreNat, p1, q1, r1
  <2>5. (wideband /\ resets = 0) =>
          Classified' <= framesProcessed /\ framesProcessed <= Classified' + (errors + 1)
    <3> HIDE DEF p, q, r, p1, q1, r1
    <3>1. PICK c \in Nat : c = Classified' /\ Classified <= c + 1 /\ c <= Classified
      BY <2>1
    <3>2. ASSUME wideband, resets = 0
          PROVE  c <= framesProcessed /\ framesProcessed <= c + (errors + 1)
      <4>1. Classified <= framesProcessed /\ framesProcessed <= Classified + errors
        BY <3>2 DEF PipelineInv, UnitsBalance
      <4>2. Classified <= c + 1 /\ c <= Classified
        BY <3>1
      <4> QED
        BY <1>1, <4>1, <4>2 DEF CountersAreNat
    <3> QED
      BY <3>1, <3>2, Zenon
  <2>6. errors + 1 # 0
    BY <1>1 DEF CountersAreNat
  <2> QED
    BY <2>4, <2>5, <2>6
<1>5. CASE Reset
  <2>1. Begun' = 0 /\ Processed' = 0 /\ Classified' = 0
    BY <1>5 DEF Begun, Processed, Classified, Holding, NarrowPlaces, WidePlaces, Reset
  <2> QED
    BY <1>1, <1>2, <1>5, <2>1 DEF Reset, UnitsBalance, PipelineInv, OnItsPath, CountersAreNat, controlVars
<1>6. CASE ResetStats
  <2>1. /\ Begun' = Begun /\ Processed' \in Nat /\ Classified' \in Nat
        /\ Processed' <= Processed /\ Classified' <= Classified
    BY <1>1, <1>6 DEF Begun, Processed, Classified, Holding, NarrowPlaces, WidePlaces, CountersAreNat, ResetStats, streamVars
  <2>2. UNCHANGED <<fed, flushed, buf, data, errors>> /\ resets' # 0
    BY <1>1, <1>6 DEF ResetStats, streamVars, CountersAreNat
  <2>3. /\ InputFrame * Processed' <= q /\ InputFrame * Processed' \in Nat
        /\ InputFrame * Classified' <= r /\ InputFrame * Classified' \in Nat
    BY <1>1, <2>1, FewerFrames
  <2> DEFINE q1 == InputFrame * Processed'
             r1 == InputFrame * Classified'
  <2> SUFFICES q1 + data + buf <= fed /\ r1 + data + buf <= fed
    BY <1>3, <2>1, <2>2 DEF UnitsBalance
  <2> HIDE DEF p, q, r, q1, r1
  <2> QED
    BY <1>1, <1>2, <1>3, <2>3 DEF CountersAreNat, q1, r1
<1> QED
  BY <1>4, <1>5, <1>6

(* Every step of the pipeline keeps the balance of units.                   *)
LEMMA StepKeepsBalance ==
  ASSUME PipelineInv, PipelineNext
  PROVE  UnitsBalance'
<1>0. CountersAreNat /\ wideband' = wideband /\ InputFrame \in Nat /\ FlushFrame \in Nat
  BY TypesCount, PipelineAssumption DEF PipelineInv, PipelineNext
<1>1. CASE StartFrame \/ Call48
  BY <1>0, <1>1, BegunBalance
<1>2. CASE Fail \/ FlushFails \/ Reset \/ ResetStats
  BY <1>0, <1>2, DroppedBalance
<1>3. CASE ReduceNoise \/ Gate \/ Level \/ Count \/ Write \/ ReduceNoise48 \/ Gate48 \/ Suppress48 \/ Level48
  <2>1. CountsKept
    BY <1>0, <1>3, StageKeepsCounts
  <2>2. UNCHANGED <<data, buf, flushed, fed, errors, resets>>
    BY <1>3 DEF ReduceNoise, Gate, Level, Count, Write, ReduceNoise48, Gate48, Suppress48, Level48,
       statVars, streamVars, controlVars
  <2>3. framesProcessed' = framesProcessed \/ ~wideband
    BY <1>3 DEF ReduceNoise, Gate, Level, Count, Write, ReduceNoise48, Gate48, Suppress48, Level48,
       statVars, PipelineInv, OnItsPath, Step, WidePlaces
  <2> QED
    BY <1>0, <2>1, <2>2, <2>3, KeptBalance DEF CountersAreNat
<1>4. CASE (\E n \in Chunks : Feed(n)) \/ EndCall \/ Flush \/ \E on \in BOOLEAN : SetBypass(on)
  <2>1. CountsKept /\ framesProcessed' = framesProcessed
    BY <1>0, <1>4 DEF CountsKept, Begun, Processed, Classified, Holding, NarrowPlaces, WidePlaces, Feed, EndCall, Flush,
       SetBypass, statVars, streamVars
  <2>2. /\ fed' \in Nat /\ data' \in Nat /\ buf' \in Nat /\ flushed' \in Nat /\ UNCHANGED <<errors, resets>>
        /\ data' + buf' + flushed' - fed' <= data + buf + flushed - fed
        /\ data' + buf' - fed' <= data + buf - fed
        /\ InputFrame <= FlushFrame + 1 =>
             data' + buf' + flushed' - fed' = data + buf + flushed - fed
    <3> USE <1>0 DEF CountersAreNat, PipelineInv, OnItsPath
    <3>1. CASE \E n \in Chunks : Feed(n)
      BY <3>1, PipelineAssumption DEF Feed, controlVars
    <3>2. CASE EndCall
      BY <3>2 DEF EndCall, streamVars, controlVars
    <3>3. CASE Flush
      <4>1. buf <= InputFrame - 1
        BY DEF PipelineTypeOK
      <4> QED
        BY <3>3, <4>1 DEF Flush, controlVars
    <3>4. CASE \E on \in BOOLEAN : SetBypass(on)
      BY <3>4 DEF SetBypass, streamVars
    <3> QED
      BY <1>4, <3>1, <3>2, <3>3, <3>4
  <2> QED
    BY <2>1, <2>2, KeptBalance
<1> QED
  BY <1>1, <1>2, <1>3, <1>4 DEF PipelineNext

(* Every step keeps the frame in hand on the path its stream is on.         *)
LEMMA StepKeepsPath ==
  ASSUME PipelineInv, PipelineNext
  PROVE  OnItsPath'
<1> USE DEF PipelineInv, OnItsPath, NarrowPlaces, WidePlaces, Step
<1>0. wideband' = wideband /\ wideband \in BOOLEAN
  BY DEF PipelineNext, PipelineTypeOK
<1>1. CASE (\E n \in Chunks : Feed(n)) \/ StartFrame \/ EndCall
  BY <1>0, <1>1 DEF Feed, StartFrame, EndCall
<1>2. CASE ReduceNoise \/ Gate \/ Level \/ Count \/ Write
  BY <1>0, <1>2 DEF ReduceNoise, Gate, Level, Count, Write
<1>3. CASE Fail \/ Flush \/ FlushFails \/ Reset
  BY <1>0, <1>3 DEF Fail, Flush, FlushFails, Reset
<1>4. CASE Call48 \/ ReduceNoise48 \/ Gate48 \/ Suppress48 \/ Level48
  BY <1>0, <1>4 DEF Call48, ReduceNoise48, Gate48, Suppress48, Level48
<1>5. CASE ResetStats \/ \E on \in BOOLEAN : SetBypass(on)
  BY <1>0, <1>5 DEF ResetStats, SetBypass
<1> QED
  BY <1>1, <1>2, <1>3, <1>4, <1>5 DEF PipelineNext

(* The frame in hand, and the one written last. *)
LEMMA StepKeepsStages ==
  ASSUME PipelineInv, PipelineNext
  PROVE  StagesFollowLatch' /\ RawOrEnhanced'
<1> USE DEF PipelineInv, OnItsPath, StagesFollowLatch, RawOrEnhanced, NarrowPlaces, WidePlaces, Step
<1>0. /\ wideband' = wideband /\ wideband \in BOOLEAN /\ latched \in BOOLEAN /\ asked \in BOOLEAN
      /\ bypassed \in BOOLEAN
  BY DEF PipelineNext, PipelineTypeOK
<1>1. CASE (\E n \in Chunks : Feed(n)) \/ EndCall
  BY <1>0, <1>1 DEF Feed, EndCall, frameVars, streamVars
<1>2. CASE StartFrame
  BY <1>0, <1>2 DEF StartFrame, streamVars
<1>3. CASE ReduceNoise \/ Gate \/ Level \/ Count
  BY <1>0, <1>3 DEF ReduceNoise, Gate, Level, Count, streamVars
<1>4. CASE Write
  BY <1>0, <1>4 DEF Write
<1>5. CASE Fail \/ Flush \/ FlushFails \/ Reset
  BY <1>0, <1>5 DEF Fail, Flush, FlushFails, Reset, frameVars, streamVars
<1>6. CASE Call48 \/ ReduceNoise48 \/ Gate48 \/ Suppress48 \/ Level48
  BY <1>0, <1>6 DEF Call48, ReduceNoise48, Gate48, Suppress48, Level48
<1>7. CASE ResetStats \/ \E on \in BOOLEAN : SetBypass(on)
  BY <1>0, <1>7 DEF ResetStats, SetBypass, frameVars, streamVars
<1> QED
  BY <1>1, <1>2, <1>3, <1>4, <1>5, <1>6, <1>7 DEF PipelineNext

(* Every step keeps the statistics adding up.                               *)
LEMMA StepKeepsStats ==
  ASSUME PipelineInv, PipelineNext
  PROVE  StatsAddUp'
<1> USE DEF PipelineInv, OnItsPath, StatsAddUp, NarrowPlaces, WidePlaces, Step
<1>0. wideband' = wideband /\ CountersAreNat
  BY TypesCount DEF PipelineNext
<1>1. CASE Count
  BY <1>0, <1>1 DEF Count, CountersAreNat
<1>2. CASE Reset \/ ResetStats
  BY <1>0, <1>2 DEF Reset, ResetStats
<1>3. CASE Call48 \/ Gate48 \/ Suppress48
  BY <1>0, <1>3 DEF Call48, Gate48, Suppress48
<1>4. CASE UNCHANGED statVars
  BY <1>0, <1>4 DEF statVars
<1>5. CASE \/ \E n \in Chunks : Feed(n)
           \/ StartFrame \/ EndCall \/ ReduceNoise \/ Gate \/ Level \/ Write \/ Fail
           \/ ReduceNoise48 \/ Level48 \/ Flush \/ FlushFails \/ \E on \in BOOLEAN : SetBypass(on)
  <2>1. UNCHANGED statVars
    BY <1>5 DEF Feed, StartFrame, EndCall, ReduceNoise, Gate, Level, Write, Fail, ReduceNoise48, Level48,
       Flush, FlushFails, SetBypass
  <2> QED
    BY <1>4, <2>1
<1> QED
  BY <1>1, <1>2, <1>3, <1>5 DEF PipelineNext

(* What the balance and the path say between two calls, and of a snapshot.  *)
LEMMA BalanceMeans ==
  ASSUME CountersAreNat, OnItsPath, UnitsBalance
  PROVE  FedIsWritten /\ Stats48Ahead
<1>1. CountersAreNat /\ Begun \in Nat /\ Processed \in Nat /\ Classified \in Nat
  BY CountsAreNat
<1>2. pc = "idle" => Begun = written /\ data = 0
  BY DEF Begun, Holding, NarrowPlaces, WidePlaces, OnItsPath, CountersAreNat
<1>3. FedIsWritten
  <2> SUFFICES ASSUME pc = "idle" PROVE FedIsWritten
    BY DEF FedIsWritten
  <2> DEFINE p == InputFrame * written
  <2>1. p \in Nat /\ InputFrame * Begun = p
    BY <1>1, <1>2, NextFrame DEF CountersAreNat
  <2>2. /\ p + data + buf + flushed <= fed
        /\ (errors = 0 /\ InputFrame <= FlushFrame + 1) => fed = p + data + buf + flushed
    BY <2>1 DEF UnitsBalance
  <2> HIDE DEF p
  <2>3. p + buf + flushed <= fed /\ (p + data + buf + flushed = p + buf + flushed)
    BY <1>1, <1>2, <2>1, <2>2 DEF CountersAreNat
  <2>4. (errors = 0 /\ InputFrame <= FlushFrame + 1) => fed = p + buf + flushed
    BY <2>2, <2>3
  <2> QED
    BY <2>3, <2>4 DEF FedIsWritten, p
<1>4. Stats48Ahead
  <2> SUFFICES ASSUME wideband, resets = 0
               PROVE  /\ framesSuppressed + framesSilent + passed <= framesProcessed
                      /\ framesProcessed <= framesSuppressed + framesSilent + passed + errors + 1
    BY DEF Stats48Ahead
  <2>1. Classified <= framesProcessed /\ framesProcessed <= Classified + errors
    BY DEF UnitsBalance
  <2> QED
    BY <1>1, <2>1 DEF CountersAreNat, Classified, Holding
<1> QED
  BY <1>3, <1>4

(* The type invariant, without the bounds that follow from the balance.     *)
PipelineTypes ==
  /\ CountersAreNat
  /\ buf \in 0 .. InputFrame - 1
  /\ wideband \in BOOLEAN /\ suppressor \in BOOLEAN
  /\ latched \in BOOLEAN /\ asked \in BOOLEAN /\ bypassed \in BOOLEAN
  /\ stages \subseteq Stages /\ last \in [asked : BOOLEAN, stages : SUBSET Stages]
  /\ errors \in 0 .. MaxErrors /\ toggles \in 0 .. MaxToggles /\ resets \in 0 .. MaxResets

PipelineIInv ==
  PipelineTypes /\ OnItsPath /\ UnitsBalance /\ StagesFollowLatch /\ RawOrEnhanced /\ StatsAddUp

(* The invariant of the runs follows from what the induction carries.       *)
LEMMA IInvMeansInv == PipelineIInv => PipelineInv
<1> SUFFICES ASSUME PipelineIInv PROVE PipelineInv
  OBVIOUS
<1>1. /\ \A n \in {framesProcessed, framesSuppressed, framesSilent, passed, written} : n \in 0 .. MaxFed
      /\ flushed \in 0 .. MaxFed /\ data \in 0 .. MaxFed
  BY BalanceBounds DEF PipelineIInv, PipelineTypes
<1>2. data \in 0 .. MaxFed + InputFrame
  BY <1>1, PipelineAssumption
<1>3. pc \in {"idle", "frame", "nr", "gate", "level", "count", "write",
              "nr48", "gate48", "suppress48", "level48"}
  BY DEF PipelineIInv, OnItsPath, NarrowPlaces, WidePlaces
<1>4. fed \in 0 .. MaxFed
  BY DEF PipelineIInv, PipelineTypes, CountersAreNat
<1>5. PipelineTypeOK
  BY <1>1, <1>2, <1>3, <1>4 DEF PipelineIInv, PipelineTypes, PipelineTypeOK
<1>6. FedIsWritten /\ Stats48Ahead
  BY BalanceMeans DEF PipelineIInv, PipelineTypes
<1> QED
  BY <1>5, <1>6 DEF PipelineIInv, PipelineInv

(* Every step keeps the types, whose bounds are those of the balance.       *)
LEMMA StepKeepsTypes ==
  ASSUME PipelineInv, PipelineNext
  PROVE  PipelineTypes'
<1>1. /\ InputFrame \in Nat \ {0} /\ FlushFrame \in Nat /\ Chunks \subseteq Nat
      /\ MaxErrors \in Nat /\ MaxToggles \in Nat /\ MaxResets \in Nat /\ MaxFed \in Nat
  BY PipelineAssumption
<1>2. CountersAreNat
  BY TypesCount DEF PipelineInv
<1>3. /\ buf \in 0 .. InputFrame - 1
      /\ wideband \in BOOLEAN /\ suppressor \in BOOLEAN
      /\ latched \in BOOLEAN /\ asked \in BOOLEAN /\ bypassed \in BOOLEAN
      /\ stages \subseteq Stages /\ last \in [asked : BOOLEAN, stages : SUBSET Stages]
      /\ errors \in 0 .. MaxErrors /\ toggles \in 0 .. MaxToggles /\ resets \in 0 .. MaxResets
  BY DEF PipelineInv, PipelineTypeOK
<1>4. CountersAreNat' /\ buf' \in 0 .. InputFrame - 1
  <2> USE <1>1, <1>2, <1>3 DEF CountersAreNat
  <2>1. CASE \E n \in Chunks : Feed(n)
    BY <2>1 DEF Feed, statVars, controlVars
  <2>2. CASE StartFrame \/ EndCall \/ Flush \/ FlushFails
    BY <2>2 DEF StartFrame, EndCall, Flush, FlushFails, statVars, streamVars, controlVars
  <2>3. CASE ReduceNoise \/ Gate \/ Level \/ Write \/ ReduceNoise48 \/ Level48
    BY <2>3 DEF ReduceNoise, Gate, Level, Write, ReduceNoise48, Level48, statVars, streamVars, controlVars
  <2>4. CASE Count \/ Gate48 \/ Suppress48
    BY <2>4 DEF Count, Gate48, Suppress48, streamVars, controlVars
  <2>5. CASE Fail \/ FlushFails \/ Reset \/ ResetStats
    BY <2>5 DEF Fail, FlushFails, Reset, ResetStats, statVars, streamVars, controlVars
  <2>6. CASE Call48
    BY <2>6 DEF Call48, controlVars
  <2>7. CASE \E on \in BOOLEAN : SetBypass(on)
    BY <2>7 DEF SetBypass, statVars, streamVars
  <2> QED
    BY <2>1, <2>2, <2>3, <2>4, <2>5, <2>6, <2>7 DEF PipelineNext
<1>5. stages' \subseteq Stages /\ last' \in [asked : BOOLEAN, stages : SUBSET Stages]
  <2> USE <1>3 DEF Stages
  <2>1. CASE ReduceNoise \/ Gate \/ Level \/ Count \/ ReduceNoise48 \/ Gate48 \/ Suppress48
    BY <2>1 DEF ReduceNoise, Gate, Level, Count, ReduceNoise48, Gate48, Suppress48, Step, streamVars
  <2>2. CASE Write \/ Level48
    <3>1. stages' \subseteq Stages /\ \E st \in SUBSET Stages : last' = [asked |-> asked, stages |-> st]
      <4>1. CASE Write
        BY <4>1 DEF Write, Step
      <4>2. CASE Level48
        BY <4>2 DEF Level48
      <4> QED
        BY <2>2, <4>1, <4>2
    <3> QED
      BY <3>1
  <2>3. CASE StartFrame \/ Call48
    BY <2>3 DEF StartFrame, Call48, streamVars
  <2>4. CASE \/ \E n \in Chunks : Feed(n)
             \/ EndCall \/ Fail \/ Flush \/ FlushFails \/ Reset \/ ResetStats
             \/ \E on \in BOOLEAN : SetBypass(on)
    BY <2>4 DEF Feed, EndCall, Fail, Flush, FlushFails, Reset, ResetStats, SetBypass, frameVars, streamVars
  <2> QED
    BY <2>1, <2>2, <2>3, <2>4 DEF PipelineNext
<1>6. /\ wideband' \in BOOLEAN /\ suppressor' \in BOOLEAN
      /\ latched' \in BOOLEAN /\ asked' \in BOOLEAN /\ bypassed' \in BOOLEAN
      /\ errors' \in 0 .. MaxErrors /\ toggles' \in 0 .. MaxToggles /\ resets' \in 0 .. MaxResets
  <2>0. wideband' = wideband /\ suppressor' = suppressor
    BY DEF PipelineNext
  <2> USE <1>1, <1>3, <2>0
  <2>1. CASE ReduceNoise \/ Gate \/ Level \/ Count \/ Write \/ ReduceNoise48 \/ Gate48 \/ Suppress48 \/ Level48
    BY <2>1 DEF ReduceNoise, Gate, Level, Count, Write, ReduceNoise48, Gate48, Suppress48, Level48, controlVars
  <2>2. CASE StartFrame \/ Call48
    BY <2>2 DEF StartFrame, Call48, controlVars
  <2>3. CASE Fail \/ FlushFails
    BY <2>3 DEF Fail, FlushFails, frameVars, controlVars
  <2>4. CASE ResetStats \/ \E on \in BOOLEAN : SetBypass(on)
    BY <2>4 DEF ResetStats, SetBypass, frameVars
  <2>5. CASE (\E n \in Chunks : Feed(n)) \/ EndCall \/ Flush \/ Reset
    BY <2>5 DEF Feed, EndCall, Flush, Reset, frameVars, controlVars
  <2> QED
    BY <2>1, <2>2, <2>3, <2>4, <2>5 DEF PipelineNext
<1> QED
  BY <1>4, <1>5, <1>6 DEF PipelineTypes

(* A pipeline before its first call.                                        *)
LEMMA PipelineInitIInv == PipelineInit => PipelineIInv
<1> SUFFICES ASSUME PipelineInit PROVE PipelineIInv
  OBVIOUS
<1> USE PipelineAssumption DEF PipelineInit
<1>1. PipelineTypes
  <2>1. CountersAreNat
    BY DEF CountersAreNat
  <2>2. last \in [asked : BOOLEAN, stages : SUBSET Stages] /\ stages \subseteq Stages
    OBVIOUS
  <2>3. buf \in 0 .. InputFrame - 1 /\ MaxErrors \in Nat /\ MaxToggles \in Nat /\ MaxResets \in Nat
    OBVIOUS
  <2>4. wideband \in BOOLEAN /\ suppressor \in BOOLEAN /\ latched \in BOOLEAN /\ asked \in BOOLEAN /\ bypassed \in BOOLEAN
    BY Zenon
  <2>5. errors \in 0 .. MaxErrors /\ toggles \in 0 .. MaxToggles /\ resets \in 0 .. MaxResets
    BY <2>3
  <2> QED
    BY <2>1, <2>2, <2>3, <2>4, <2>5, Zenon DEF PipelineTypes
<1>2. OnItsPath /\ RawOrEnhanced /\ StatsAddUp
  BY DEF OnItsPath, RawOrEnhanced, StatsAddUp
<1>4. StagesFollowLatch
  BY DEF StagesFollowLatch
<1>3. UnitsBalance
  <2>1. Begun = 0 /\ Processed = 0 /\ Classified = 0
    BY DEF Begun, Processed, Classified, Holding, NarrowPlaces, WidePlaces
  <2>2. InputFrame * 0 = 0
    OBVIOUS
  <2> QED
    BY <2>1, <2>2 DEF UnitsBalance
<1> QED
  BY <1>1, <1>2, <1>3, <1>4 DEF PipelineIInv

(* Whatever the order of calls, failures, switches and resets: units are    *)
(* neither lost nor doubled, frames are treated as a whole, and the         *)
(* counters tell what was done, for every frame size and cut of the input.  *)
THEOREM PipelineInvariant == PipelineSpec => []PipelineInv
<1>1. PipelineInit => PipelineIInv
  BY PipelineInitIInv
<1>2. PipelineIInv /\ [PipelineNext]_pipelineVars => PipelineIInv'
  <2> SUFFICES ASSUME PipelineIInv, [PipelineNext]_pipelineVars PROVE PipelineIInv'
    OBVIOUS
  <2>1. CASE PipelineNext
    BY <2>1, IInvMeansInv, StepKeepsTypes, StepKeepsPath, StepKeepsBalance, StepKeepsStages, StepKeepsStats
       DEF PipelineIInv
  <2>2. CASE UNCHANGED pipelineVars
    <3>1. UNCHANGED <<wideband, suppressor, passed, buf, data, pc, latched, stages, asked, bypassed, toggles, resets,
                      framesProcessed, framesSuppressed, framesSilent, fed, written, flushed, last, errors>>
      BY <2>2 DEF pipelineVars, frameVars, controlVars, statVars, streamVars
    <3>2. PipelineTypes' /\ OnItsPath' /\ StagesFollowLatch' /\ RawOrEnhanced' /\ StatsAddUp'
      BY <3>1 DEF PipelineIInv, PipelineTypes, CountersAreNat, OnItsPath, StagesFollowLatch, RawOrEnhanced, StatsAddUp
    <3>3. Begun' = Begun /\ Processed' = Processed /\ Classified' = Classified
      BY <3>1 DEF Begun, Processed, Classified, Holding
    <3>4. UnitsBalance'
      BY <3>1, <3>3 DEF PipelineIInv, UnitsBalance
    <3> QED
      BY <3>2, <3>4 DEF PipelineIInv
  <2> QED
    BY <2>1, <2>2
<1> QED
  BY <1>1, <1>2, IInvMeansInv, PTL DEF PipelineSpec

-----------------------------------------------------------------------------
(* The HTTP API *)

(* What relates the files and the statuses of a request to its place.       *)
HttpLocalInv == HttpTypeOK /\ OnRoute /\ AnsweredAsCounted /\ NoTempLeft

(* Every step keeps the types: a plain counter that is loaded is no more    *)
(* than the number of requests.                                             *)
LEMMA HttpTypesKept ==
  ASSUME HttpTypeOK, OnRoute, NeverOvercounted, HttpNext, HttpAssumption
  PROVE  HttpTypeOK'
<1> USE DEF HttpTypeOK, Counters, requestVars
<1>1. PICK r \in Requests : \/ ServeHTTP(r) \/ Load(r) \/ Store(r) \/ Inc(r) \/ Pass(r)
                      \/ FailRequest(r) \/ Succeed(r) \/ StreamEnds(r) \/ Return(r)
  BY DEF HttpNext
<1>2. CASE ServeHTTP(r)
  <2>1. /\ at[r] = "away" /\ UNCHANGED <<stage, loaded, status, temp, json, prom>>
        /\ \E h \in {"enhance", "dir", "stream", "page"} : handler' = [handler EXCEPT ![r] = h]
    BY ONLY <1>2 DEF ServeHTTP
  <2>2. \E a \in {"load", "work", "reply"}, c \in {"total", "ok"}, d \in {200, 404, 405} : Go(r, a, c, d)
    <3>1. \/ Go(r, "load", "total", 200) \/ Go(r, "work", "ok", 200) \/ Go(r, "reply", "total", 405)
          \/ Go(r, "reply", "total", 200) \/ Go(r, "reply", "total", 404)
      BY ONLY <1>2 DEF ServeHTTP
    <3> QED
      BY ONLY <3>1
  <2> QED
    BY <2>1, <2>2, SMTT(30) DEF Go
<1>3. CASE Load(r)
  <2>1. json[counter[r]] \in 0 .. Cardinality(Requests)
    <3>1. Stored(counter[r]) \subseteq Requests BY DEF Stored
    <3>2. Cardinality(Stored(counter[r])) <= Cardinality(Requests)
      BY <3>1, FS_Subset DEF HttpAssumption
    <3>3. IsFiniteSet(Stored(counter[r])) BY <3>1, FS_Subset DEF HttpAssumption
    <3>4. Cardinality(Stored(counter[r])) \in Nat /\ Cardinality(Requests) \in Nat
      BY <3>3, FS_CardinalityType DEF HttpAssumption
    <3>5. json[counter[r]] <= Cardinality(Stored(counter[r])) /\ json[counter[r]] \in Nat
      BY DEF NeverOvercounted
    <3> QED
      BY <3>2, <3>4, <3>5
  <2> QED
    BY <1>3, <2>1 DEF Load, Go
<1>4. CASE Store(r)
  <2>1. loaded[r] \in Nat BY FS_CardinalityType DEF HttpAssumption
  <2> QED
    BY <1>4, <2>1 DEF Store, Go
<1>5. CASE Inc(r) BY <1>5, SMTT(30) DEF Inc, Go
<1>6. CASE Pass(r)
  <2>1. handler[r] = "enhance" \/ handler[r] = "dir" \/ handler[r] = "stream" BY <1>6 DEF Pass, OnRoute, Placed
  <2>4. LastStage(r) \in 1 .. 7 BY <2>1 DEF LastStage
  <2>5. stage[r] \in 1 .. 7 /\ stage[r] < LastStage(r) BY <1>6 DEF Pass
  <2>6. stage[r] + 1 \in 1 .. 7 BY ONLY <2>4, <2>5
  <2>3. Creates(r) \subseteq {"in", "out"} BY DEF Creates
  <2> QED
    BY <1>6, <2>6, <2>3 DEF Pass
<1>7. CASE FailRequest(r)
  <2>1. PICK d \in {200, 400, 500} : Go(r, "load", "failed", d) BY <1>7 DEF FailRequest
  <2> QED
    BY <1>7, <2>1 DEF FailRequest, Go
<1>8. CASE Succeed(r)
  <2>1. status' \in [Requests -> Seq({200, 400, 404, 405, 500})]
    <3>1. <<200>> \in Seq({200, 400, 404, 405, 500}) OBVIOUS
    <3>2. status[r] \in Seq({200, 400, 404, 405, 500}) OBVIOUS
    <3>3. status' = [status EXCEPT ![r] = IF handler[r] = "enhance" THEN <<200>> ELSE @]
      BY ONLY <1>8, SMTT(30) DEF Succeed
    <3>4. (IF handler[r] = "enhance" THEN <<200>> ELSE status[r]) \in Seq({200, 400, 404, 405, 500})
      BY ONLY <3>1, <3>2, ZenonT(60)
    <3>5. status \in [Requests -> Seq({200, 400, 404, 405, 500})] OBVIOUS
    <3> QED
      BY ONLY <3>3, <3>4, <3>5
  <2> QED
    BY <1>8, <2>1 DEF Succeed, Go
<1>9. CASE StreamEnds(r)
  <2>1. CASE Go(r, "inc", "ok", 200) BY <1>9, <2>1 DEF StreamEnds, Go
  <2>2. CASE Go(r, "reply", "failed", 200) BY <1>9, <2>2 DEF StreamEnds, Go
  <2> QED
    BY ONLY <1>9, <2>1, <2>2, Zenon DEF StreamEnds
<1>10. CASE Return(r)
  <2>1. status' \in [Requests -> Seq({200, 400, 404, 405, 500})]
    <3>1. due[r] \in {200, 400, 404, 405, 500} OBVIOUS
    <3>2. <<due[r]>> \in Seq({200, 400, 404, 405, 500}) BY <3>1
    <3>3. status[r] \in Seq({200, 400, 404, 405, 500}) OBVIOUS
    <3>4. status' = [status EXCEPT ![r] = IF @ = << >> THEN <<due[r]>> ELSE @]
      BY ONLY <1>10, SMTT(30) DEF Return
    <3>5. (IF status[r] = << >> THEN <<due[r]>> ELSE status[r]) \in Seq({200, 400, 404, 405, 500})
      BY ONLY <3>2, <3>3, ZenonT(60)
    <3>6. status \in [Requests -> Seq({200, 400, 404, 405, 500})] OBVIOUS
    <3> QED
      BY ONLY <3>4, <3>5, <3>6
  <2> QED
    BY <1>10, <2>1 DEF Return, Go
<1> QED
  BY ONLY <1>1, <1>2, <1>3, <1>4, <1>5, <1>6, <1>7, <1>8, <1>9, <1>10, Zenon

(* What OnRoute, AnsweredAsCounted and NoTempLeft say of one request.       *)
Settled(q) ==
  /\ Placed(q)
  /\ Len(status[q]) <= 1
  /\ at[q] = "returned" => status[q] = <<due[q]>>
  /\ (handler[q] = "enhance" /\ status[q] = <<200>>) => counter[q] = "ok"
  /\ (handler[q] = "enhance" /\ at[q] = "work" /\ stage[q] >= 6) => temp[q] = {"in", "out"}
  /\ at[q] = "returned" => temp[q] = {}

(* A request whose own fields stay is settled as before.                    *)
LEMMA SettledStays ==
  ASSUME NEW q, Settled(q), handler'[q] = handler[q], at'[q] = at[q], counter'[q] = counter[q],
         stage'[q] = stage[q], due'[q] = due[q], status'[q] = status[q], temp'[q] = temp[q]
  PROVE  Settled(q)'
BY DEF Settled, Placed

(* A step of one request changes the fields of no other.                    *)
LEMMA OthersStay ==
  ASSUME HttpTypeOK, NEW r \in Requests, NEW q \in Requests, q # r,
         \/ ServeHTTP(r) \/ Load(r) \/ Store(r) \/ Inc(r) \/ Pass(r)
         \/ FailRequest(r) \/ Succeed(r) \/ StreamEnds(r) \/ Return(r)
  PROVE  /\ handler'[q] = handler[q] /\ at'[q] = at[q] /\ counter'[q] = counter[q]
         /\ stage'[q] = stage[q] /\ due'[q] = due[q] /\ status'[q] = status[q] /\ temp'[q] = temp[q]
<1> USE DEF HttpTypeOK, requestVars
<1>1. ASSUME NEW a, NEW c, NEW d, Go(r, a, c, d)
      PROVE  at'[q] = at[q] /\ counter'[q] = counter[q] /\ due'[q] = due[q]
  BY <1>1 DEF Go
<1>2. CASE ServeHTTP(r)
  <2>1. \E a, c, d : Go(r, a, c, d)
    <3>1. \/ Go(r, "load", "total", 200) \/ Go(r, "work", "ok", 200) \/ Go(r, "reply", "total", 405)
          \/ Go(r, "reply", "total", 200) \/ Go(r, "reply", "total", 404)
      BY ONLY <1>2 DEF ServeHTTP
    <3> QED
      BY ONLY <3>1, SMTT(30)
  <2> QED
    BY <1>2, <1>1, <2>1, SMTT(30) DEF ServeHTTP
<1>3. CASE Load(r) BY <1>3, <1>1 DEF Load
<1>4. CASE Store(r) BY <1>4, <1>1 DEF Store
<1>5. CASE Inc(r) BY <1>5, <1>1 DEF Inc
<1>6. CASE Pass(r) BY <1>6 DEF Pass
<1>7. CASE FailRequest(r) BY <1>7, <1>1 DEF FailRequest
<1>8. CASE Succeed(r) BY <1>8, <1>1 DEF Succeed
<1>9. CASE StreamEnds(r) BY <1>9, <1>1 DEF StreamEnds
<1>10. CASE Return(r) BY <1>10, <1>1 DEF Return
<1> QED
  BY <1>2, <1>3, <1>4, <1>5, <1>6, <1>7, <1>8, <1>9, <1>10

(* The step of a request leaves it settled.                                 *)
LEMMA RequestSettles ==
  ASSUME HttpTypeOK, NEW r \in Requests, Settled(r),
         \/ ServeHTTP(r) \/ Load(r) \/ Store(r) \/ Inc(r) \/ Pass(r)
         \/ FailRequest(r) \/ Succeed(r) \/ StreamEnds(r) \/ Return(r)
  PROVE  Settled(r)'
<1> USE DEF HttpTypeOK, Settled, Placed, Counters, requestVars
<1>2. CASE ServeHTTP(r)
  <2>1. PICK h \in {"enhance", "dir", "stream", "page"} :
          /\ handler' = [handler EXCEPT ![r] = h]
          /\ \/ h \in {"enhance", "dir"} /\ Go(r, "load", "total", 200)
             \/ h = "stream" /\ (Go(r, "work", "ok", 200) \/ Go(r, "reply", "total", 405))
             \/ h = "page" /\ \E d \in {200, 404} : Go(r, "reply", "total", d)
    BY ONLY <1>2 DEF ServeHTTP
  <2>2. at[r] = "away" /\ UNCHANGED <<stage, loaded, status, temp, json, prom>>
    BY ONLY <1>2 DEF ServeHTTP
  <2>3. CASE h \in {"enhance", "dir"} /\ Go(r, "load", "total", 200)
    <3>1. /\ handler'[r] = h /\ at'[r] = "load" /\ counter'[r] = "total" /\ due'[r] = 200
          /\ stage'[r] = 1 /\ status'[r] = << >> /\ temp'[r] = temp[r]
      BY <2>1, <2>2, <2>3 DEF Go
    <3> QED
      BY ONLY <3>1, <2>3
  <2>4. CASE h = "stream" /\ Go(r, "work", "ok", 200)
    BY <2>1, <2>2, <2>4 DEF Go
  <2>5. CASE h = "stream" /\ Go(r, "reply", "total", 405)
    BY <2>1, <2>2, <2>5 DEF Go
  <2>6. CASE h = "page" /\ \E d \in {200, 404} : Go(r, "reply", "total", d)
    BY <2>1, <2>2, <2>6 DEF Go
  <2> QED
    BY ONLY <2>1, <2>3, <2>4, <2>5, <2>6
<1>3. CASE Load(r) BY <1>3 DEF Load, Go
<1>4. CASE Store(r) BY <1>4 DEF Store, Go
<1>5. CASE Inc(r)
  <2>1. CASE counter[r] = "total"
    <3>1. /\ handler'[r] = handler[r] /\ at'[r] = "work" /\ counter'[r] = "total" /\ due'[r] = due[r]
          /\ stage'[r] = stage[r] /\ status'[r] = status[r] /\ temp'[r] = temp[r]
      BY <1>5, <2>1 DEF Inc, Go
    <3>2. at[r] = "inc" BY <1>5 DEF Inc
    <3>3. handler[r] = "enhance" \/ handler[r] = "dir" BY <2>1, <3>2
    <3>4. status[r] = << >> BY <2>1, <3>2
    <3>5. stage[r] \in 1 .. 7 /\ temp[r] \subseteq {"in", "out"} OBVIOUS
    <3>6. handler[r] = "enhance" => (stage[r] >= 4 => "in" \in temp[r]) /\ (stage[r] >= 6 => "out" \in temp[r])
      BY <3>2
    <3> QED
      BY ONLY <2>1, <3>1, <3>3, <3>4, <3>5, <3>6
  <2>2. CASE counter[r] # "total" BY <1>5, <2>2 DEF Inc, Go
  <2> QED
    BY <2>1, <2>2
<1>6. CASE Pass(r)
  <2>1. /\ at[r] = "work" /\ stage'[r] = stage[r] + 1 /\ temp'[r] = temp[r] \cup Creates(r)
        /\ UNCHANGED <<handler, at, counter, loaded, due, status, json, prom>>
    BY <1>6 DEF Pass
  <2>2. handler[r] = "enhance" =>
          (stage[r] = 3 => "in" \in Creates(r)) /\ (stage[r] = 5 => "out" \in Creates(r))
    BY DEF Creates
  <2>3. Creates(r) \subseteq {"in", "out"} BY DEF Creates
  <2>4. /\ handler'[r] = handler[r] /\ at'[r] = "work" /\ counter'[r] = counter[r]
        /\ due'[r] = due[r] /\ status'[r] = status[r]
    BY <2>1
  <2>5. stage[r] \in 1 .. 7 /\ temp[r] \subseteq {"in", "out"} OBVIOUS
  <2>6. /\ handler[r] = "stream" \/ (handler[r] \in {"enhance", "dir"} /\ counter[r] = "total")
        /\ status[r] = << >>
        /\ handler[r] = "enhance" =>
             (stage[r] >= 4 => "in" \in temp[r]) /\ (stage[r] >= 6 => "out" \in temp[r])
    BY <2>1
  <2>7. Placed(r)' BY ONLY <2>1, <2>2, <2>4, <2>5, <2>6
  <2>8. (handler'[r] = "enhance" /\ stage'[r] >= 6) => temp'[r] = {"in", "out"}
    BY ONLY <2>1, <2>2, <2>3, <2>4, <2>5, <2>6
  <2> QED
    BY ONLY <2>4, <2>6, <2>7, <2>8
<1>7. CASE FailRequest(r) BY <1>7 DEF FailRequest, Go
<1>8. CASE Succeed(r) BY <1>8 DEF Succeed, Go, LastStage
<1>9. CASE StreamEnds(r)
  <2>1. CASE Go(r, "inc", "ok", 200) BY <1>9, <2>1 DEF StreamEnds, Go
  <2>2. CASE Go(r, "reply", "failed", 200) BY <1>9, <2>2 DEF StreamEnds, Go
  <2> QED
    BY ONLY <1>9, <2>1, <2>2 DEF StreamEnds
<1>10. CASE Return(r) BY <1>10 DEF Return, Go
<1> QED
  BY <1>2, <1>3, <1>4, <1>5, <1>6, <1>7, <1>8, <1>9, <1>10, SMTT(30)

(* Together: every step keeps what is said of the requests one by one.      *)
LEMMA RouteKept ==
  ASSUME HttpLocalInv, HttpNext
  PROVE  OnRoute' /\ AnsweredAsCounted' /\ NoTempLeft'
<1>1. PICK r \in Requests : \/ ServeHTTP(r) \/ Load(r) \/ Store(r) \/ Inc(r) \/ Pass(r)
                      \/ FailRequest(r) \/ Succeed(r) \/ StreamEnds(r) \/ Return(r)
  BY DEF HttpNext
<1>2. \A q \in Requests : Settled(q)
  BY DEF HttpLocalInv, OnRoute, AnsweredAsCounted, NoTempLeft, Settled
<1>3. ASSUME NEW q \in Requests PROVE Settled(q)'
  <2>1. CASE q = r BY <1>1, <1>2, <2>1, RequestSettles DEF HttpLocalInv
  <2>2. CASE q # r BY <1>1, <1>2, <2>2, OthersStay, SettledStays DEF HttpLocalInv
  <2> QED
    BY <2>1, <2>2
<1> QED
  BY <1>3 DEF OnRoute, AnsweredAsCounted, NoTempLeft, Settled

(* The balance of the Prometheus counters follows from their exactness: a   *)
(* request is counted among the successful or the failed ones, never both,  *)
(* and only after it is counted among the received ones.                    *)
LEMMA ExactBalances ==
  ASSUME HttpTypeOK, CountsExact, HttpAssumption
  PROVE  PrometheusBalances
<1> DEFINE T == Counted("total")  O == Counted("ok")  F == Counted("failed")
<1>1. O \subseteq T /\ F \subseteq T /\ O \cap F = {} /\ T \subseteq Requests /\ Streamed \subseteq Requests
  BY DEF Counted, HasCounted, HasStored, Streamed
<1>2. IsFiniteSet(T) /\ IsFiniteSet(O) /\ IsFiniteSet(F) /\ IsFiniteSet(Streamed)
  BY <1>1, FS_Subset DEF HttpAssumption
<1> HIDE DEF T, O, F
<1>3. IsFiniteSet(O \cup F) /\ O \cup F \subseteq T /\ IsFiniteSet(T \ (O \cup F))
  BY <1>1, <1>2, FS_Union, FS_Subset, FS_Difference
<1>4. Cardinality(O \cup F) = Cardinality(O) + Cardinality(F)
  <2>1. Cardinality(O \cup F) = Cardinality(O) + Cardinality(F) - Cardinality(O \cap F)
    BY <1>2, FS_Union
  <2>2. Cardinality(O \cap F) = 0 BY <1>1, FS_EmptySet
  <2>3. Cardinality(O) \in Nat /\ Cardinality(F) \in Nat BY <1>2, FS_CardinalityType
  <2> QED
    BY <2>1, <2>2, <2>3
<1>5. Cardinality(T \ (O \cup F)) = Cardinality(T) - Cardinality(O \cup F)
  <2>1. T \cap (O \cup F) = O \cup F
    <3>1. O \cup F \subseteq T BY <1>3
    <3> QED
      BY ONLY <3>1
  <2>2. Cardinality(T \ (O \cup F)) = Cardinality(T) - Cardinality(T \cap (O \cup F))
    BY <1>2, <1>3, FS_Difference
  <2> QED
    BY <2>1, <2>2
<1>6. /\ Cardinality(O) \in Nat /\ Cardinality(F) \in Nat /\ Cardinality(T) \in Nat
      /\ Cardinality(Streamed) \in Nat
  BY <1>2, FS_CardinalityType
<1>7. Serving = T \ (O \cup F) BY DEF Serving, T, O, F
<1>8. /\ prom.total = Cardinality(T) /\ prom.failed = Cardinality(F)
      /\ prom.ok = Cardinality(O) + Cardinality(Streamed)
  BY DEF CountsExact, T, O, F
<1> QED
  BY <1>4, <1>5, <1>6, <1>7, <1>8 DEF PrometheusBalances

(* A request is in Streamed.                                                *)
HasStreamed(q) == handler[q] = "stream" /\ counter[q] = "ok" /\ at[q] \in {"reply", "returned"}

(* What a step does to the sets its request is in: Store and Inc add it to  *)
(* the set of their counter, and no step removes it or adds it elsewhere.   *)
LEMMA RequestCounts ==
  ASSUME HttpTypeOK, NEW r \in Requests, Placed(r),
         \/ ServeHTTP(r) \/ Load(r) \/ Store(r) \/ Inc(r) \/ Pass(r)
         \/ FailRequest(r) \/ Succeed(r) \/ StreamEnds(r) \/ Return(r)
  PROVE  /\ \A c \in Counters :
              /\ HasStored(r, c)' <=> HasStored(r, c) \/ (at[r] = "store" /\ c = counter[r])
              /\ HasCounted(r, c)' <=>
                   HasCounted(r, c) \/ (at[r] = "inc" /\ handler[r] # "stream" /\ c = counter[r])
         /\ HasStreamed(r)' <=> HasStreamed(r) \/ (at[r] = "inc" /\ handler[r] = "stream")
<1> USE DEF HttpTypeOK, Placed, Counters, requestVars, HasStored, HasCounted, HasStreamed
<1>2. CASE ServeHTTP(r)
  <2>1. PICK h \in {"enhance", "dir", "stream", "page"} :
          /\ handler' = [handler EXCEPT ![r] = h]
          /\ \/ h \in {"enhance", "dir"} /\ Go(r, "load", "total", 200)
             \/ h = "stream" /\ (Go(r, "work", "ok", 200) \/ Go(r, "reply", "total", 405))
             \/ h = "page" /\ \E d \in {200, 404} : Go(r, "reply", "total", d)
    BY ONLY <1>2 DEF ServeHTTP
  <2>2. at[r] = "away" BY ONLY <1>2 DEF ServeHTTP
  <2>3. CASE h \in {"enhance", "dir"} /\ Go(r, "load", "total", 200)
    BY <2>1, <2>2, <2>3 DEF Go
  <2>4. CASE h = "stream" /\ Go(r, "work", "ok", 200)
    BY <2>1, <2>2, <2>4 DEF Go
  <2>5. CASE h = "stream" /\ Go(r, "reply", "total", 405)
    BY <2>1, <2>2, <2>5 DEF Go
  <2>6. CASE h = "page" /\ \E d \in {200, 404} : Go(r, "reply", "total", d)
    BY <2>1, <2>2, <2>6 DEF Go
  <2> QED
    BY ONLY <2>1, <2>3, <2>4, <2>5, <2>6
<1>3. CASE Load(r) BY <1>3 DEF Load, Go
<1>4. CASE Store(r) BY <1>4 DEF Store, Go
<1>5. CASE Inc(r)
  <2>1. CASE counter[r] = "total" BY <1>5, <2>1 DEF Inc, Go
  <2>2. CASE counter[r] # "total" BY <1>5, <2>2 DEF Inc, Go
  <2> QED
    BY <2>1, <2>2
<1>6. CASE Pass(r) BY <1>6 DEF Pass
<1>7. CASE FailRequest(r) BY <1>7 DEF FailRequest, Go
<1>8. CASE Succeed(r) BY <1>8 DEF Succeed, Go
<1>9. CASE StreamEnds(r)
  <2>1. CASE Go(r, "inc", "ok", 200) BY <1>9, <2>1 DEF StreamEnds, Go
  <2>2. CASE Go(r, "reply", "failed", 200) BY <1>9, <2>2 DEF StreamEnds, Go
  <2> QED
    BY ONLY <1>9, <2>1, <2>2 DEF StreamEnds
<1>10. CASE Return(r) BY <1>10 DEF Return, Go
<1> QED
  BY <1>2, <1>3, <1>4, <1>5, <1>6, <1>7, <1>8, <1>9, <1>10

(* So each set stays, or gains the request of the step, which was not in    *)
(* it.                                                                      *)
LEMMA SetsMove ==
  ASSUME HttpTypeOK, OnRoute, NEW r \in Requests,
         \/ ServeHTTP(r) \/ Load(r) \/ Store(r) \/ Inc(r) \/ Pass(r)
         \/ FailRequest(r) \/ Succeed(r) \/ StreamEnds(r) \/ Return(r)
  PROVE  /\ \A c \in Counters :
              /\ Stored(c)' = IF at[r] = "store" /\ c = counter[r] THEN Stored(c) \cup {r} ELSE Stored(c)
              /\ Counted(c)' = IF at[r] = "inc" /\ handler[r] # "stream" /\ c = counter[r]
                               THEN Counted(c) \cup {r} ELSE Counted(c)
         /\ Streamed' = IF at[r] = "inc" /\ handler[r] = "stream" THEN Streamed \cup {r} ELSE Streamed
         /\ at[r] = "store" => r \notin Stored(counter[r])
         /\ at[r] = "inc" => r \notin Counted(counter[r]) /\ r \notin Streamed
<1>1. ASSUME NEW q \in Requests, q # r
      PROVE  /\ \A c : (HasStored(q, c)' <=> HasStored(q, c)) /\ (HasCounted(q, c)' <=> HasCounted(q, c))
             /\ HasStreamed(q)' <=> HasStreamed(q)
  <2>1. handler'[q] = handler[q] /\ at'[q] = at[q] /\ counter'[q] = counter[q]
    BY <1>1, OthersStay
  <2> QED
    BY ONLY <2>1 DEF HasStored, HasCounted, HasStreamed
<1>2. /\ \A c \in Counters :
           /\ HasStored(r, c)' <=> HasStored(r, c) \/ (at[r] = "store" /\ c = counter[r])
           /\ HasCounted(r, c)' <=>
                HasCounted(r, c) \/ (at[r] = "inc" /\ handler[r] # "stream" /\ c = counter[r])
      /\ HasStreamed(r)' <=> HasStreamed(r) \/ (at[r] = "inc" /\ handler[r] = "stream")
  BY RequestCounts DEF OnRoute
<1>3. ASSUME NEW c \in Counters
      PROVE  Stored(c)' = IF at[r] = "store" /\ c = counter[r] THEN Stored(c) \cup {r} ELSE Stored(c)
  BY <1>1, <1>2 DEF Stored
<1>4. ASSUME NEW c \in Counters
      PROVE  Counted(c)' = IF at[r] = "inc" /\ handler[r] # "stream" /\ c = counter[r]
                           THEN Counted(c) \cup {r} ELSE Counted(c)
  BY <1>1, <1>2 DEF Counted
<1>5. Streamed' = IF at[r] = "inc" /\ handler[r] = "stream" THEN Streamed \cup {r} ELSE Streamed
  BY <1>1, <1>2 DEF Streamed, HasStreamed
<1>6. /\ at[r] = "store" => r \notin Stored(counter[r])
      /\ at[r] = "inc" => r \notin Counted(counter[r]) /\ r \notin Streamed
  BY DEF Stored, Counted, Streamed, HasStored, HasCounted
<1> QED
  BY <1>3, <1>4, <1>5, <1>6

(* The sets are finite, being sets of requests.                             *)
LEMMA FiniteCounts ==
  ASSUME HttpAssumption
  PROVE  /\ IsFiniteSet(Streamed) /\ Cardinality(Streamed) \in Nat
         /\ \A c : /\ IsFiniteSet(Stored(c)) /\ Cardinality(Stored(c)) \in Nat
                   /\ IsFiniteSet(Counted(c)) /\ Cardinality(Counted(c)) \in Nat
<1>1. Streamed \subseteq Requests BY DEF Streamed
<1>2. \A c : Stored(c) \subseteq Requests BY DEF Stored
<1>3. \A c : Counted(c) \subseteq Requests BY DEF Counted
<1> QED
  BY <1>1, <1>2, <1>3, FS_Subset, FS_CardinalityType DEF HttpAssumption

(* A finite set grows by one with a new element.                            *)
LEMMA OneMore ==
  ASSUME NEW S, IsFiniteSet(S), NEW r, r \notin S
  PROVE  Cardinality(S \cup {r}) = Cardinality(S) + 1
BY FS_AddElement

(* Hence the sizes of the sets stay or grow by one.                         *)
LEMMA CountsMove ==
  ASSUME HttpAssumption, HttpTypeOK, OnRoute, NEW r \in Requests,
         \/ ServeHTTP(r) \/ Load(r) \/ Store(r) \/ Inc(r) \/ Pass(r)
         \/ FailRequest(r) \/ Succeed(r) \/ StreamEnds(r) \/ Return(r)
  PROVE  /\ \A c \in Counters :
              /\ Cardinality(Stored(c))' = IF at[r] = "store" /\ c = counter[r]
                                           THEN Cardinality(Stored(c)) + 1 ELSE Cardinality(Stored(c))
              /\ Cardinality(Counted(c))' = IF at[r] = "inc" /\ handler[r] # "stream" /\ c = counter[r]
                                            THEN Cardinality(Counted(c)) + 1 ELSE Cardinality(Counted(c))
         /\ Cardinality(Streamed)' = IF at[r] = "inc" /\ handler[r] = "stream"
                                     THEN Cardinality(Streamed) + 1 ELSE Cardinality(Streamed)
<1>1. ASSUME NEW c \in Counters
      PROVE  Cardinality(Stored(c))' = IF at[r] = "store" /\ c = counter[r]
                                       THEN Cardinality(Stored(c)) + 1 ELSE Cardinality(Stored(c))
  <2>1. CASE at[r] = "store" /\ c = counter[r]
    <3>1. Stored(c)' = Stored(c) \cup {r} /\ r \notin Stored(c) BY <2>1, SetsMove
    <3>2. Cardinality(Stored(c) \cup {r}) = Cardinality(Stored(c)) + 1
      BY <3>1, OneMore, FiniteCounts
    <3> QED
      BY ONLY <2>1, <3>1, <3>2, Zenon
  <2>2. CASE ~(at[r] = "store" /\ c = counter[r])
    <3>1. Stored(c)' = Stored(c) BY <2>2, SetsMove
    <3> QED
      BY ONLY <2>2, <3>1, Zenon
  <2> QED
    BY <2>1, <2>2
<1>2. ASSUME NEW c \in Counters
      PROVE  Cardinality(Counted(c))' = IF at[r] = "inc" /\ handler[r] # "stream" /\ c = counter[r]
                                        THEN Cardinality(Counted(c)) + 1 ELSE Cardinality(Counted(c))
  <2>1. CASE at[r] = "inc" /\ handler[r] # "stream" /\ c = counter[r]
    <3>1. Counted(c)' = Counted(c) \cup {r} /\ r \notin Counted(c) BY <2>1, SetsMove
    <3>2. Cardinality(Counted(c) \cup {r}) = Cardinality(Counted(c)) + 1
      BY <3>1, OneMore, FiniteCounts
    <3> QED
      BY ONLY <2>1, <3>1, <3>2, Zenon
  <2>2. CASE ~(at[r] = "inc" /\ handler[r] # "stream" /\ c = counter[r])
    <3>1. Counted(c)' = Counted(c) BY <2>2, SetsMove
    <3> QED
      BY ONLY <2>2, <3>1, Zenon
  <2> QED
    BY <2>1, <2>2
<1>3. Cardinality(Streamed)' = IF at[r] = "inc" /\ handler[r] = "stream"
                               THEN Cardinality(Streamed) + 1 ELSE Cardinality(Streamed)
  <2>1. CASE at[r] = "inc" /\ handler[r] = "stream"
    <3>1. Streamed' = Streamed \cup {r} /\ r \notin Streamed BY <2>1, SetsMove
    <3>2. Cardinality(Streamed \cup {r}) = Cardinality(Streamed) + 1
      BY <3>1, OneMore, FiniteCounts
    <3> QED
      BY ONLY <2>1, <3>1, <3>2, Zenon
  <2>2. CASE ~(at[r] = "inc" /\ handler[r] = "stream")
    <3>1. Streamed' = Streamed BY <2>2, SetsMove
    <3> QED
      BY ONLY <2>2, <3>1, Zenon
  <2> QED
    BY <2>1, <2>2
<1> QED
  BY <1>1, <1>2, <1>3

(* The lost updates of the plain counters only lose: what is stored is one  *)
(* more than what was loaded, and the set has grown by the request that     *)
(* stores.                                                                  *)
LEMMA PlainCountsKept ==
  ASSUME HttpAssumption, HttpTypeOK, OnRoute, CountsExact, NeverOvercounted, NEW r \in Requests,
         \/ ServeHTTP(r) \/ Load(r) \/ Store(r) \/ Inc(r) \/ Pass(r)
         \/ FailRequest(r) \/ Succeed(r) \/ StreamEnds(r) \/ Return(r)
  PROVE  /\ NeverOvercounted'
         /\ \A q \in Requests : (at[q] = "store" => loaded[q] <= Cardinality(Stored(counter[q])))'
<1> DEFINE n(c) == Cardinality(Stored(c))
<1>1. \A c \in Counters : n(c) \in Nat BY FiniteCounts
<1>2. PICK m : \A c \in Counters : m[c] = Cardinality(Stored(c))'
  <2>1. \A c \in Counters : [d \in Counters |-> Cardinality(Stored(d))'][c] = Cardinality(Stored(c))'
    OBVIOUS
  <2> QED
    BY <2>1
<1>3. \A c \in Counters : m[c] = IF at[r] = "store" /\ c = counter[r] THEN n(c) + 1 ELSE n(c)
  BY <1>2, CountsMove
<1>4. \A c \in Counters : json[c] \in Nat /\ json[c] <= n(c)
  BY DEF NeverOvercounted, HttpTypeOK
<1>5. \A q \in Requests : /\ loaded[q] \in Int /\ counter[q] \in Counters
                          /\ at[q] = "store" => loaded[q] <= n(counter[q])
  BY DEF CountsExact, HttpTypeOK
<1> HIDE DEF n
<1>6. \A c \in Counters : m[c] \in Nat /\ n(c) <= m[c] BY <1>1, <1>3
<1>7. /\ json' = json \/ (at[r] = "store" /\ json' = [json EXCEPT ![counter[r]] = loaded[r] + 1])
      /\ \/ at[r] = "load" /\ loaded' = [loaded EXCEPT ![r] = json[counter[r]]]
            /\ at'[r] = "store" /\ counter'[r] = counter[r]
         \/ at[r] # "load" /\ at'[r] # "store" /\ loaded' = loaded
  <2> USE DEF HttpTypeOK, requestVars
  <2>2. CASE ServeHTTP(r)
    <3>1. \/ Go(r, "load", "total", 200) \/ Go(r, "work", "ok", 200) \/ Go(r, "reply", "total", 405)
          \/ Go(r, "reply", "total", 200) \/ Go(r, "reply", "total", 404)
      BY ONLY <2>2 DEF ServeHTTP
    <3> QED
      BY <2>2, <3>1 DEF ServeHTTP, Go
  <2>3. CASE Load(r) BY <2>3 DEF Load, Go
  <2>4. CASE Store(r) BY <2>4 DEF Store, Go
  <2>5. CASE Inc(r) BY <2>5 DEF Inc, Go
  <2>6. CASE Pass(r) BY <2>6 DEF Pass
  <2>7. CASE FailRequest(r) BY <2>7 DEF FailRequest, Go
  <2>8. CASE Succeed(r) BY <2>8 DEF Succeed, Go
  <2>9. CASE StreamEnds(r) BY <2>9 DEF StreamEnds, Go
  <2>10. CASE Return(r) BY <2>10 DEF Return, Go
  <2> QED
    BY <2>2, <2>3, <2>4, <2>5, <2>6, <2>7, <2>8, <2>9, <2>10
<1>8. ASSUME NEW c \in Counters PROVE json'[c] <= Cardinality(Stored(c))'
  <2>1. PICK j : j = json'[c] OBVIOUS
  <2>2. j <= m[c]
    <3>1. CASE json' = json BY <2>1, <3>1, <1>4, <1>6, <1>1
    <3>2. CASE at[r] = "store" /\ json' = [json EXCEPT ![counter[r]] = loaded[r] + 1]
      <4>1. j = IF c = counter[r] THEN loaded[r] + 1 ELSE json[c]
        BY <2>1, <3>2 DEF HttpTypeOK
      <4> QED
        BY ONLY <4>1, <3>2, <1>1, <1>3, <1>4, <1>5
    <3> QED
      BY <1>7, <3>1, <3>2
  <2> QED
    BY ONLY <1>2, <2>1, <2>2, Zenon
<1>9. ASSUME NEW q \in Requests, at'[q] = "store"
      PROVE  loaded'[q] <= Cardinality(Stored(counter[q]))'
  <2>1. PICK l : l = loaded'[q] OBVIOUS
  <2>2. PICK c \in Counters : c = counter'[q] /\ l <= m[c]
    <3>1. CASE q = r
      <4>1. l = json[counter[r]] /\ counter'[r] = counter[r]
        BY <1>7, <1>9, <2>1, <3>1 DEF HttpTypeOK
      <4> QED
        BY <4>1, <3>1, <1>1, <1>4, <1>5, <1>6
    <3>2. CASE q # r
      <4>1. at'[q] = at[q] /\ counter'[q] = counter[q] BY <3>2, OthersStay
      <4>2. l = loaded[q] BY <1>7, <2>1, <3>2 DEF HttpTypeOK
      <4>3. at[q] = "store" BY <4>1, <1>9
      <4>4. counter[q] \in Counters /\ loaded[q] <= m[counter[q]]
        BY ONLY <4>3, <1>1, <1>5, <1>6
      <4> QED
        BY ONLY <4>1, <4>2, <4>4, Zenon
    <3> QED
      BY <3>1, <3>2
  <2> QED
    BY ONLY <1>2, <2>1, <2>2, Zenon
<1> QED
  BY <1>8, <1>9 DEF NeverOvercounted

(* The atomic counters follow the sizes of their sets.                      *)
LEMMA AtomicCountsKept ==
  ASSUME HttpAssumption, HttpTypeOK, OnRoute, CountsExact, NEW r \in Requests,
         \/ ServeHTTP(r) \/ Load(r) \/ Store(r) \/ Inc(r) \/ Pass(r)
         \/ FailRequest(r) \/ Succeed(r) \/ StreamEnds(r) \/ Return(r)
  PROVE  /\ prom'.total = Cardinality(Counted("total"))' /\ prom'.failed = Cardinality(Counted("failed"))'
         /\ prom'.ok = Cardinality(Counted("ok"))' + Cardinality(Streamed)'
<1> DEFINE k(c) == Cardinality(Counted(c))
<1> DEFINE s == Cardinality(Streamed)
<1>1. s \in Nat /\ \A c \in Counters : k(c) \in Nat BY FiniteCounts
<1>2. PICK m : \A c \in Counters : m[c] = Cardinality(Counted(c))'
  <2>1. \A c \in Counters : [d \in Counters |-> Cardinality(Counted(d))'][c] = Cardinality(Counted(c))'
    OBVIOUS
  <2> QED
    BY <2>1
<1>3. PICK t : t = Cardinality(Streamed)' OBVIOUS
<1>4. PICK p : p = prom' OBVIOUS
<1>5. \A c \in Counters : m[c] = IF at[r] = "inc" /\ handler[r] # "stream" /\ c = counter[r]
                                 THEN k(c) + 1 ELSE k(c)
  BY <1>2, CountsMove
<1>6. t = IF at[r] = "inc" /\ handler[r] = "stream" THEN s + 1 ELSE s
  BY <1>3, CountsMove
<1>7. /\ prom["total"] = k("total") /\ prom["failed"] = k("failed") /\ prom["ok"] = k("ok") + s
      /\ prom \in [Counters -> Nat] /\ counter[r] \in Counters
      /\ at[r] = "inc" /\ handler[r] = "stream" => counter[r] = "ok"
  <2>1. prom["total"] = k("total") /\ prom["failed"] = k("failed") /\ prom["ok"] = k("ok") + s
    BY DEF CountsExact
  <2>2. prom \in [Counters -> Nat] /\ counter[r] \in Counters BY DEF HttpTypeOK
  <2>3. (at[r] = "inc" /\ handler[r] = "stream") => counter[r] = "ok" BY DEF OnRoute, Placed
  <2> QED
    BY ONLY <2>1, <2>2, <2>3
<1> HIDE DEF k, s
<1>8. p = IF at[r] = "inc" THEN [prom EXCEPT ![counter[r]] = @ + 1] ELSE prom
  <2> USE DEF requestVars
  <2>2. CASE ServeHTTP(r) BY <2>2, <1>4 DEF ServeHTTP
  <2>3. CASE Load(r) BY <2>3, <1>4 DEF Load
  <2>4. CASE Store(r) BY <2>4, <1>4 DEF Store
  <2>5. CASE Inc(r) BY <2>5, <1>4 DEF Inc
  <2>6. CASE Pass(r) BY <2>6, <1>4 DEF Pass
  <2>7. CASE FailRequest(r) BY <2>7, <1>4 DEF FailRequest
  <2>8. CASE Succeed(r) BY <2>8, <1>4 DEF Succeed
  <2>9. CASE StreamEnds(r) BY <2>9, <1>4 DEF StreamEnds
  <2>10. CASE Return(r) BY <2>10, <1>4 DEF Return
  <2> QED
    BY <2>2, <2>3, <2>4, <2>5, <2>6, <2>7, <2>8, <2>9, <2>10
<1>9. p["total"] = m["total"] /\ p["failed"] = m["failed"] /\ p["ok"] = m["ok"] + t
  BY ONLY <1>1, <1>5, <1>6, <1>7, <1>8 DEF Counters
<1>10. m["total"] = Cardinality(Counted("total"))' /\ m["failed"] = Cardinality(Counted("failed"))'
       /\ m["ok"] = Cardinality(Counted("ok"))'
  BY <1>2 DEF Counters
<1> QED
  BY ONLY <1>3, <1>4, <1>9, <1>10, Zenon

(* NewHandler repairs every field of a configuration on its own.            *)
LEMMA ConfigsRepaired == ConfigRepaired
<1> SUFFICES ASSUME NEW c \in HandlerConfigs
             PROVE  /\ Validate(NewHandler(c)) /\ NewHandler(c).sampleRate # 0 /\ NewHandler(c).channels # 0
                    /\ c.suppressor = "given" => NewHandler(c).suppressor = "given"
                    /\ \A f \in DOMAIN c \ {"suppressor"} :
                         (GoodField(c)[f] /\ c[f] # 0) => NewHandler(c)[f] = c[f]
  BY DEF ConfigRepaired
<1> DEFINE g == GoodField(c)
<1> DEFINE k == [f \in DOMAIN c |-> IF g[f] THEN c[f] ELSE Safe[f]]
<1> DEFINE n == NewHandler(c)
<1>1. DOMAIN c = {"suppressor", "sampleRate", "channels", "poolSize"} BY DEF HandlerConfigs
<1>2. /\ c.suppressor \in {"nil", "given"} /\ c.sampleRate \in {0, 8000, 44100}
      /\ c.channels \in {-1, 0, 2, 3} /\ c.poolSize \in {-1, 0, 5}
  BY DEF HandlerConfigs
<1>3. /\ g["suppressor"] = (c.suppressor # "nil")
      /\ g["sampleRate"] = (c.sampleRate \in GoodRates \cup {0})
      /\ g["channels"] = (c.channels \in 0 .. 2) /\ g["poolSize"] = (c.poolSize >= 0)
  BY DEF GoodField
<1>4. /\ Safe["suppressor"] = "passthrough" /\ Safe["sampleRate"] = 0
      /\ Safe["channels"] = 0 /\ Safe["poolSize"] = 0
  BY DEF Safe
<1> HIDE DEF g
<1>5. /\ DOMAIN k = DOMAIN c
      /\ k["suppressor"] = IF c.suppressor # "nil" THEN c.suppressor ELSE "passthrough"
      /\ k["sampleRate"] = IF c.sampleRate \in GoodRates \cup {0} THEN c.sampleRate ELSE 0
      /\ k["channels"] = IF c.channels \in 0 .. 2 THEN c.channels ELSE 0
      /\ k["poolSize"] = IF c.poolSize >= 0 THEN c.poolSize ELSE 0
  BY ONLY <1>1, <1>3, <1>4
<1>6. n = Defaults(k) BY Zenon DEF NewHandler, g
<1> HIDE DEF k, n
<1>7. /\ DOMAIN n = DOMAIN c
      /\ n["suppressor"] = IF c.suppressor # "nil" THEN c.suppressor ELSE "passthrough"
      /\ n["sampleRate"] = IF c.sampleRate \in GoodRates THEN c.sampleRate ELSE 16000
      /\ n["channels"] = IF c.channels \in 1 .. 2 THEN c.channels ELSE 1
      /\ n["poolSize"] = IF c.poolSize >= 0 THEN c.poolSize ELSE 0
  BY ONLY <1>1, <1>2, <1>5, <1>6 DEF GoodRates, Defaults
<1>8. /\ n.sampleRate # 0 /\ n.channels # 0
      /\ c.suppressor = "given" => n.suppressor = "given"
  BY ONLY <1>2, <1>7 DEF GoodRates
<1>9. ASSUME NEW f \in DOMAIN c \ {"suppressor"}, g[f], c[f] # 0 PROVE n[f] = c[f]
  <2>1. f = "sampleRate" \/ f = "channels" \/ f = "poolSize" BY <1>1
  <2>2. CASE f = "sampleRate"
    <3>1. g["sampleRate"] /\ c.sampleRate # 0 BY ONLY <1>9, <2>2, Zenon
    <3>2. c.sampleRate \in GoodRates \cup {0} BY ONLY <1>3, <3>1, Zenon
    <3>3. n["sampleRate"] = c.sampleRate BY ONLY <1>7, <3>1, <3>2
    <3> QED
      BY ONLY <2>2, <3>3, Zenon
  <2>3. CASE f = "channels"
    <3>1. g["channels"] /\ c.channels # 0 BY ONLY <1>9, <2>3, Zenon
    <3>2. c.channels \in 0 .. 2 BY ONLY <1>3, <3>1, Zenon
    <3>3. n["channels"] = c.channels BY ONLY <1>7, <3>1, <3>2
    <3> QED
      BY ONLY <2>3, <3>3, Zenon
  <2>4. CASE f = "poolSize"
    <3>1. g["poolSize"] BY ONLY <1>9, <2>4, Zenon
    <3>2. c.poolSize >= 0 BY ONLY <1>3, <3>1, Zenon
    <3>3. n["poolSize"] = c.poolSize BY ONLY <1>7, <3>2
    <3> QED
      BY ONLY <2>4, <3>3, Zenon
  <2> QED
    BY <2>1, <2>2, <2>3, <2>4
<1>10. Validate(n)
  <2>1. n["suppressor"] # "nil" /\ n["sampleRate"] \in GoodRates \cup {0}
        /\ n["channels"] \in 0 .. 2 /\ n["poolSize"] >= 0
    BY ONLY <1>2, <1>7 DEF GoodRates
  <2>2. /\ GoodField(n)["suppressor"] = (n["suppressor"] # "nil")
        /\ GoodField(n)["sampleRate"] = (n["sampleRate"] \in GoodRates \cup {0})
        /\ GoodField(n)["channels"] = (n["channels"] \in 0 .. 2)
        /\ GoodField(n)["poolSize"] = (n["poolSize"] >= 0)
    BY DEF GoodField
  <2>3. /\ GoodField(n)["suppressor"] /\ GoodField(n)["sampleRate"]
        /\ GoodField(n)["channels"] /\ GoodField(n)["poolSize"]
    BY ONLY <2>1, <2>2, Zenon
  <2>4. \A f \in DOMAIN n : f = "suppressor" \/ f = "sampleRate" \/ f = "channels" \/ f = "poolSize"
    BY ONLY <1>1, <1>7
  <2>5. \A f \in DOMAIN n : GoodField(n)[f] BY ONLY <2>3, <2>4, Zenon
  <2> QED
    BY ONLY <2>5 DEF Validate
<1>11. \A f \in DOMAIN c \ {"suppressor"} : (g[f] /\ c[f] # 0) => n[f] = c[f] BY <1>9, Zenon
<1>12. /\ Validate(NewHandler(c)) /\ NewHandler(c).sampleRate # 0 /\ NewHandler(c).channels # 0
       /\ c.suppressor = "given" => NewHandler(c).suppressor = "given"
  BY <1>8, <1>10 DEF n
<1>13. \A f \in DOMAIN c \ {"suppressor"} :
         (GoodField(c)[f] /\ c[f] # 0) => NewHandler(c)[f] = c[f]
  BY ONLY <1>11, Zenon DEF g, n
<1> QED
  BY ONLY <1>12, <1>13, Zenon

(* The extension of every codec makes the encoder choose its family.        *)
LEMMA ExtensionsFit == ExtensionFits
BY DEF ExtensionFits, CodecFamily, codecToExt, inferOutputCodec, extToMIME

(* A server that has received nothing.                                      *)
LEMMA HttpInitInv ==
  ASSUME HttpAssumption, HttpInit
  PROVE  HttpInv
<1> USE DEF HttpInit
<1>1. HttpTypeOK
  <2>1. Cardinality(Requests) \in Nat BY FS_CardinalityType DEF HttpAssumption
  <2>2. status \in [Requests -> Seq({200, 400, 404, 405, 500})] OBVIOUS
  <2> QED
    BY <2>1, <2>2 DEF HttpTypeOK, Counters
<1>2. OnRoute BY DEF OnRoute, Placed
<1>3. AnsweredAsCounted /\ NoTempLeft BY DEF AnsweredAsCounted, NoTempLeft
<1>4. /\ \A c : Stored(c) = {} /\ Counted(c) = {}
      /\ Streamed = {}
  BY DEF Stored, Counted, Streamed, HasStored, HasCounted
<1>5. Cardinality({}) = 0 BY FS_EmptySet
<1>6. CountsExact
  <2>1. prom["total"] = 0 /\ prom["ok"] = 0 /\ prom["failed"] = 0 BY DEF Counters
  <2>2. \A r \in Requests : at[r] # "store" OBVIOUS
  <2> QED
    BY ONLY <1>4, <1>5, <2>1, <2>2, SMTT(30) DEF CountsExact
<1>7. NeverOvercounted
  <2>1. \A c \in Counters : json[c] = 0 OBVIOUS
  <2> QED
    BY ONLY <1>4, <1>5, <2>1 DEF NeverOvercounted
<1> QED
  BY <1>1, <1>2, <1>3, <1>6, <1>7, ExactBalances, ConfigsRepaired, ExtensionsFit DEF HttpInv

(* What the induction carries; the balance follows from it.                 *)
HttpIInv == HttpTypeOK /\ NeverOvercounted /\ AnsweredAsCounted /\ NoTempLeft /\ OnRoute /\ CountsExact

(* Every step of a request keeps what the induction carries.                *)
LEMMA HttpKeepsInv ==
  ASSUME HttpAssumption, HttpIInv, [HttpNext]_httpVars
  PROVE  HttpIInv'
<1> USE DEF HttpIInv
<1>1. CASE HttpNext
  <2>1. PICK r \in Requests : \/ ServeHTTP(r) \/ Load(r) \/ Store(r) \/ Inc(r) \/ Pass(r)
                      \/ FailRequest(r) \/ Succeed(r) \/ StreamEnds(r) \/ Return(r)
    BY ONLY <1>1, SMTT(30) DEF HttpNext
  <2>2. HttpTypeOK' BY <1>1, HttpTypesKept
  <2>3. OnRoute' /\ AnsweredAsCounted' /\ NoTempLeft' BY <1>1, RouteKept DEF HttpLocalInv
  <2>4. NeverOvercounted' BY <2>1, PlainCountsKept
  <2>5. CountsExact'
    <3>1. \A q \in Requests : (at[q] = "store" => loaded[q] <= Cardinality(Stored(counter[q])))'
      BY <2>1, PlainCountsKept
    <3>2. /\ prom'.total = Cardinality(Counted("total"))' /\ prom'.failed = Cardinality(Counted("failed"))'
          /\ prom'.ok = Cardinality(Counted("ok"))' + Cardinality(Streamed)'
      BY <2>1, AtomicCountsKept
    <3> QED
      BY ONLY <3>1, <3>2, Zenon DEF CountsExact
  <2> QED
    BY ONLY <2>2, <2>3, <2>4, <2>5
<1>2. CASE UNCHANGED httpVars
  <2> USE <1>2 DEF httpVars
  <2>1. HttpTypeOK' BY DEF HttpTypeOK
  <2>2. OnRoute' BY DEF OnRoute, Placed
  <2>3. AnsweredAsCounted' BY DEF AnsweredAsCounted
  <2>4. NoTempLeft' BY DEF NoTempLeft
  <2>5. NeverOvercounted' BY ZenonT(30) DEF NeverOvercounted, Stored, HasStored
  <2>6. CountsExact'
    BY ZenonT(60) DEF CountsExact, Stored, Counted, Streamed, HasStored, HasCounted
  <2> QED
    BY ONLY <2>1, <2>2, <2>3, <2>4, <2>5, <2>6
<1> QED
  BY <1>1, <1>2

(* In every behaviour of the API, for every finite set of requests and      *)
(* every interleaving of their loads and stores: the plain counters never   *)
(* overcount, the Prometheus counters balance on every exit path, a request *)
(* is answered once and as it was counted, and none leaves a temporary      *)
(* file.                                                                    *)
THEOREM HttpInvariant == HttpSpec => []HttpInv
<1>1. HttpInit => HttpIInv BY HttpInitInv, HttpAssumption DEF HttpInv, HttpIInv
<1>2. HttpIInv /\ [HttpNext]_httpVars => HttpIInv' BY HttpKeepsInv, HttpAssumption
<1>3. HttpIInv => HttpInv
  BY ExactBalances, ConfigsRepaired, ExtensionsFit, HttpAssumption DEF HttpInv, HttpIInv
<1> QED
  BY <1>1, <1>2, <1>3, PTL DEF HttpSpec
=============================================================================
