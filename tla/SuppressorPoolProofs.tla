------------------------ MODULE SuppressorPoolProofs ------------------------
(***************************************************************************)
(* The suppressor pool is safe for every number of suppressors and         *)
(* sessions, over-provisioned or not, and implements SuppressorLease.      *)
(***************************************************************************)
EXTENDS SuppressorPool, FiniteSetTheorems, TLAPS

-----------------------------------------------------------------------------
LEMMA PoolInitInv == NewSuppressorPool => PoolInv
<1> SUFFICES ASSUME NewSuppressorPool PROVE PoolInv
  OBVIOUS
<1> USE PoolAssumption DEF NewSuppressorPool
<1>1. PoolTypeOK
  BY DEF PoolTypeOK
<1>2. Locked /\ Holding
  BY DEF Locked, Holding
<1>3. ExclusiveUse
  BY DEF ExclusiveUse
<1>4. Accounted
  BY DEF Accounted
<1> QED
  BY <1>1, <1>2, <1>3, <1>4 DEF PoolInv

(* Each step of a session keeps the invariant. *)
LEMMA SessionKeepsInv ==
  ASSUME PoolInv, NEW c \in Sessions, AcquireCall(c) \/ Acquire(c) \/ Release(c)
  PROVE  PoolInv'
<1> USE PoolAssumption DEF PoolInv, sessionVars, warmVars, Step
<1>1. CASE AcquireCall(c)
  <2>1. PoolTypeOK'
    BY <1>1 DEF AcquireCall, PoolTypeOK
  <2>2. Locked' /\ Holding'
    BY <1>1 DEF AcquireCall, PoolTypeOK, Locked, Holding
  <2>3. ExclusiveUse' /\ Accounted'
    BY <1>1 DEF AcquireCall, ExclusiveUse, Accounted
  <2> QED
    BY <2>1, <2>2, <2>3
<1>2. CASE AcquireReceive(c)
  <2>0. PICK s \in idle :
          /\ callPc[c] = "waiting" /\ callPc' = [callPc EXCEPT ![c] = "counting"]
          /\ idle' = idle \ {s}
          /\ held' = [held EXCEPT ![c] = s]
          /\ UNCHANGED <<closed, mu, outstanding, made, shut, warmVars, closePc>>
    BY <1>2 DEF AcquireReceive
  <2>1. PoolTypeOK'
    BY <2>0 DEF PoolTypeOK
  <2>2. Locked' /\ Holding'
    BY <2>0 DEF PoolTypeOK, Locked, Holding
  <2>3. ExclusiveUse'
    BY <2>0 DEF PoolTypeOK, ExclusiveUse
  <2>4. Accounted'
    <3> SUFFICES ASSUME NEW t \in made
                 PROVE  t \in idle' \cup shut \/ \E d \in Sessions : held'[d] = t
      BY <2>0 DEF Accounted
    <3>1. CASE t = s
      BY <3>1, <2>0 DEF PoolTypeOK
    <3>2. CASE t # s /\ t \in idle \cup shut
      BY <3>2, <2>0
    <3>3. CASE \E d \in Sessions : held[d] = t
      <4>1. PICK d \in Sessions : held[d] = t
        BY <3>3
      <4>2. held[c] = Nobody /\ t # Nobody
        BY <2>0 DEF Holding, PoolTypeOK
      <4> QED
        BY <4>1, <4>2, <2>0 DEF PoolTypeOK
    <3> QED
      BY <3>1, <3>2, <3>3 DEF Accounted
  <2> QED
    BY <2>1, <2>2, <2>3, <2>4
<1>3. CASE AcquireNil(c)
  <2>1. PoolTypeOK'
    BY <1>3 DEF AcquireNil, PoolTypeOK
  <2>2. Locked' /\ Holding'
    BY <1>3 DEF AcquireNil, PoolTypeOK, Locked, Holding
  <2>3. ExclusiveUse' /\ Accounted'
    BY <1>3 DEF AcquireNil, ExclusiveUse, Accounted
  <2> QED
    BY <2>1, <2>2, <2>3
<1>4. CASE AcquireCount(c)
  <2>1. PoolTypeOK'
    BY <1>4 DEF AcquireCount, PoolTypeOK
  <2>2. Locked' /\ Holding'
    BY <1>4 DEF AcquireCount, PoolTypeOK, Locked, Holding
  <2>3. ExclusiveUse' /\ Accounted'
    BY <1>4 DEF AcquireCount, ExclusiveUse, Accounted
  <2> QED
    BY <2>1, <2>2, <2>3
<1>5. CASE ReleaseCount(c)
  <2>1. PoolTypeOK'
    BY <1>5 DEF ReleaseCount, PoolTypeOK
  <2>2. Locked' /\ Holding'
    BY <1>5 DEF ReleaseCount, PoolTypeOK, Locked, Holding
  <2>3. ExclusiveUse' /\ Accounted'
    BY <1>5 DEF ReleaseCount, ExclusiveUse, Accounted
  <2> QED
    BY <2>1, <2>2, <2>3
<1>6. CASE ReleaseLock(c)
  <2>1. PoolTypeOK'
    BY <1>6 DEF ReleaseLock, PoolTypeOK
  <2>2. Locked'
    BY <1>6 DEF ReleaseLock, PoolTypeOK, Locked
  <2>3. Holding'
    BY <1>6 DEF ReleaseLock, PoolTypeOK, Holding
  <2>4. ExclusiveUse' /\ Accounted'
    BY <1>6 DEF ReleaseLock, ExclusiveUse, Accounted
  <2> QED
    BY <2>1, <2>2, <2>3, <2>4
<1>7. CASE ReleaseClosed(c)
  <2>0. held[c] \in made \ (idle \cup shut)
    BY <1>7 DEF ReleaseClosed, Holding, ExclusiveUse
  <2>1. PoolTypeOK'
    BY <1>7, <2>0 DEF ReleaseClosed, PoolTypeOK
  <2>2. Locked' /\ Holding'
    BY <1>7 DEF ReleaseClosed, PoolTypeOK, Locked, Holding
  <2>3. ExclusiveUse'
    BY <1>7, <2>0 DEF ReleaseClosed, PoolTypeOK, ExclusiveUse
  <2>4. Accounted'
    BY <1>7, <2>0 DEF ReleaseClosed, PoolTypeOK, Accounted
  <2> QED
    BY <2>1, <2>2, <2>3, <2>4
<1>8. CASE ReleaseSend(c)
  <2>0. held[c] \in made \ (idle \cup shut)
    BY <1>8 DEF ReleaseSend, Holding, ExclusiveUse
  <2>1. PoolTypeOK'
    BY <1>8, <2>0 DEF ReleaseSend, PoolTypeOK
  <2>2. Locked' /\ Holding'
    BY <1>8 DEF ReleaseSend, PoolTypeOK, Locked, Holding
  <2>3. ExclusiveUse'
    BY <1>8, <2>0 DEF ReleaseSend, PoolTypeOK, ExclusiveUse
  <2>4. Accounted'
    BY <1>8, <2>0 DEF ReleaseSend, PoolTypeOK, Accounted
  <2> QED
    BY <2>1, <2>2, <2>3, <2>4
<1> QED
  BY <1>1, <1>2, <1>3, <1>4, <1>5, <1>6, <1>7, <1>8 DEF Acquire, Release

(* Each step of WarmPool keeps the invariant. *)
LEMMA WarmKeepsInv ==
  ASSUME PoolInv, WarmPool
  PROVE  PoolInv'
<1> USE PoolAssumption DEF PoolInv, sessionVars, WarmReturn
<1>0. IsFiniteSet(idle) => Cardinality(idle) \in Nat
  BY FS_CardinalityType
<1>1. ASSUME NEW n \in 1 .. Size, WarmLock(n)
      PROVE  PoolInv'
  <2>0. IsFiniteSet(idle)
    BY FS_Subset DEF PoolTypeOK
  <2>1. PoolTypeOK'
    BY <1>0, <1>1, <2>0 DEF WarmLock, PoolTypeOK
  <2>2. Locked' /\ Holding'
    BY <1>1 DEF WarmLock, PoolTypeOK, Locked, Holding
  <2>3. ExclusiveUse' /\ Accounted'
    BY <1>1 DEF WarmLock, ExclusiveUse, Accounted
  <2> QED
    BY <2>1, <2>2, <2>3
<1>2. CASE WarmCount
  <2>1. PoolTypeOK'
    BY <1>2 DEF WarmCount, PoolTypeOK
  <2>2. (warmPc = "filling" => need >= 1)'
    BY <1>2 DEF WarmCount, PoolTypeOK
  <2>3. Locked' /\ Holding'
    BY <1>2, <2>2 DEF WarmCount, PoolTypeOK, Locked, Holding
  <2>4. ExclusiveUse' /\ Accounted'
    BY <1>2 DEF WarmCount, ExclusiveUse, Accounted
  <2> QED
    BY <2>1, <2>3, <2>4
<1>3. CASE WarmSend
  <2>0. PICK s \in Suppressors \ made :
          /\ warmPc = "filling"
          /\ idle' = idle \cup {s}
          /\ made' = made \cup {s}
          /\ \/ need = 1 /\ WarmReturn
             \/ need # 1 /\ need' = need - 1 /\ UNCHANGED <<warmPc, mu>>
          /\ UNCHANGED <<closed, outstanding, shut, sessionVars, closePc>>
    BY <1>3 DEF WarmSend
  <2>1. need' \in Nat /\ (warmPc = "filling" => need >= 1)'
    BY <2>0 DEF PoolTypeOK, Locked
  <2>2. PoolTypeOK'
    BY <2>0, <2>1 DEF PoolTypeOK
  <2>3. Locked' /\ Holding'
    BY <1>3, <2>0, <2>1 DEF WarmSend, PoolTypeOK, Locked, Holding
  <2>4. ExclusiveUse'
    BY <2>0 DEF PoolTypeOK, ExclusiveUse
  <2>5. Accounted'
    BY <2>0 DEF PoolTypeOK, Accounted
  <2> QED
    BY <2>2, <2>3, <2>4, <2>5
<1>4. CASE WarmFail
  <2>1. PoolTypeOK'
    BY <1>4 DEF WarmFail, PoolTypeOK
  <2>2. Locked' /\ Holding'
    BY <1>4 DEF WarmFail, PoolTypeOK, Locked, Holding
  <2>3. ExclusiveUse' /\ Accounted'
    BY <1>4 DEF WarmFail, ExclusiveUse, Accounted
  <2> QED
    BY <2>1, <2>2, <2>3
<1> QED
  BY <1>1, <1>2, <1>3, <1>4 DEF WarmPool

(* Each step of Close keeps the invariant. *)
LEMMA CloseKeepsInv ==
  ASSUME PoolInv, Close
  PROVE  PoolInv'
<1> USE PoolAssumption DEF PoolInv, sessionVars, warmVars
<1>1. CASE CloseChannel
  <2>1. PoolTypeOK'
    BY <1>1 DEF CloseChannel, PoolTypeOK
  <2>2. Locked' /\ Holding'
    BY <1>1 DEF CloseChannel, PoolTypeOK, Locked, Holding
  <2>3. ExclusiveUse' /\ Accounted'
    BY <1>1 DEF CloseChannel, ExclusiveUse, Accounted
  <2> QED
    BY <2>1, <2>2, <2>3
<1>2. CASE CloseDrain
  <2>1. PoolTypeOK'
    BY <1>2 DEF CloseDrain, PoolTypeOK
  <2>2. Locked' /\ Holding'
    BY <1>2 DEF CloseDrain, PoolTypeOK, Locked, Holding
  <2>3. ExclusiveUse'
    BY <1>2 DEF CloseDrain, PoolTypeOK, ExclusiveUse
  <2>4. Accounted'
    BY <1>2 DEF CloseDrain, PoolTypeOK, Accounted
  <2> QED
    BY <2>1, <2>2, <2>3, <2>4
<1>3. CASE CloseDone
  <2>1. PoolTypeOK'
    BY <1>3 DEF CloseDone, PoolTypeOK
  <2>2. Locked' /\ Holding'
    BY <1>3 DEF CloseDone, PoolTypeOK, Locked, Holding
  <2>3. ExclusiveUse' /\ Accounted'
    BY <1>3 DEF CloseDone, ExclusiveUse, Accounted
  <2> QED
    BY <2>1, <2>2, <2>3
<1> QED
  BY <1>1, <1>2, <1>3 DEF Close

LEMMA PoolStepInv == PoolInv /\ [PoolNext]_poolVars => PoolInv'
<1> SUFFICES ASSUME PoolInv, [PoolNext]_poolVars PROVE PoolInv'
  OBVIOUS
<1>1. CASE UNCHANGED poolVars
  <2>1. PoolTypeOK' /\ Locked' /\ Holding'
    BY <1>1 DEF poolVars, PoolInv, PoolTypeOK, Locked, Holding
  <2>2. ExclusiveUse' /\ Accounted'
    BY <1>1 DEF poolVars, PoolInv, ExclusiveUse, Accounted
  <2> QED
    BY <2>1, <2>2 DEF PoolInv
<1> QED
  BY <1>1, SessionKeepsInv, WarmKeepsInv, CloseKeepsInv DEF PoolNext

-----------------------------------------------------------------------------
(* Every step of Acquire, Release, WarmPool and Close, in any interleaving, *)
(* keeps the inductive invariant of the pool.                               *)
THEOREM PoolInvariant == PoolSpec => []PoolInv
  BY PoolInitInv, PoolStepInv, PTL DEF PoolSpec

(* The pool's state is well-typed. *)
THEOREM PoolTypeCorrect == PoolSpec => []PoolTypeOK
<1>1. PoolInv => PoolTypeOK
  BY DEF PoolInv
<1> QED
  BY <1>1, PoolInvariant, PTL

(* No suppressor is ever shared by two call legs, held while it is idle,   *)
(* or closed under a call leg that uses it.                                *)
THEOREM PoolExclusive == PoolSpec => []ExclusiveUse
<1>1. PoolInv => ExclusiveUse
  BY DEF PoolInv
<1> QED
  BY <1>1, PoolInvariant, PTL

(* After Close and the end of the last call leg, every suppressor is shut. *)
THEOREM PoolClosesAll == PoolSpec => []ClosedLeavesNothing
<1>1. PoolInv => ClosedLeavesNothing
  <2> SUFFICES ASSUME PoolInv, closePc = "closed", \A c \in Sessions : held[c] = Nobody
               PROVE  made = shut
    BY DEF ClosedLeavesNothing
  <2>1. made \subseteq shut
    BY PoolAssumption DEF PoolInv, PoolTypeOK, Locked, Accounted
  <2>2. shut \subseteq made
    BY DEF PoolInv, ExclusiveUse
  <2> QED
    BY <2>1, <2>2
<1> QED
  BY <1>1, PoolInvariant, PTL

-----------------------------------------------------------------------------
(* Refinement *)

(* The refinement mapping is single-valued: each place excludes the others. *)
LeaseDetermined ==
  \A s \in Suppressors :
    /\ s \in shut => LeaseOf(s) = "shut"
    /\ s \in idle => LeaseOf(s) = "ready"
    /\ \A c \in Sessions : held[c] = s => LeaseOf(s) = c
    /\ (s \notin idle \cup shut /\ \A c \in Sessions : held[c] # s)
         => LeaseOf(s) = "absent"

LEMMA LeaseIsDetermined == PoolInv => LeaseDetermined
<1> SUFFICES ASSUME PoolInv, NEW s \in Suppressors
             PROVE  /\ s \in shut => LeaseOf(s) = "shut"
                    /\ s \in idle => LeaseOf(s) = "ready"
                    /\ \A c \in Sessions : held[c] = s => LeaseOf(s) = c
                    /\ (s \notin idle \cup shut /\ \A c \in Sessions : held[c] # s)
                         => LeaseOf(s) = "absent"
  BY DEF LeaseDetermined
<1>1. ASSUME NEW c \in Sessions, held[c] = s
      PROVE  LeaseOf(s) = c
  <2>1. s \notin idle \cup shut /\ s # Nobody
    BY <1>1, PoolAssumption DEF PoolInv, PoolTypeOK, ExclusiveUse
  <2>2. \A d \in Sessions : held[d] = s => d = c
    BY <1>1, <2>1 DEF PoolInv, ExclusiveUse
  <2> QED
    BY <1>1, <2>1, <2>2 DEF LeaseOf
<1>2. s \in idle => s \notin shut
  BY DEF PoolInv, ExclusiveUse
<1> QED
  BY <1>1, <1>2 DEF LeaseOf

LeaseMap == [s \in Suppressors |-> LeaseOf(s)]

(* A step that moves one suppressor is an update of the abstract state. *)
LEMMA OneMoves ==
  ASSUME LeaseDetermined, LeaseDetermined', NEW s \in Suppressors,
         \A t \in Suppressors \ {s} :
           /\ t \in shut' <=> t \in shut
           /\ t \in idle' <=> t \in idle
           /\ \A c \in Sessions : held'[c] = t <=> held[c] = t
  PROVE  LeaseMap' = [LeaseMap EXCEPT ![s] = LeaseOf(s)']
<1>1. ASSUME NEW t \in Suppressors \ {s}
      PROVE  LeaseOf(t)' = LeaseOf(t)
  BY <1>1 DEF LeaseDetermined
<1> QED
  BY <1>1 DEF LeaseMap

(* A step that moves none leaves the abstract state alone. *)
LEMMA NoneMoves ==
  ASSUME UNCHANGED <<idle, shut, held>>
  PROVE  UNCHANGED LeaseMap
  BY DEF LeaseMap, LeaseOf

LEMMA LeaseStep ==
  ASSUME PoolInv, LeaseDetermined, LeaseDetermined', [PoolNext]_poolVars
  PROVE  [Lease!LeaseNext]_LeaseMap
<1> USE PoolAssumption DEF PoolInv, Step, sessionVars, warmVars
<1>1. ASSUME NEW c \in Sessions, AcquireReceive(c)
      PROVE  Lease!LeaseNext
  <2>1. PICK s \in idle : idle' = idle \ {s} /\ held' = [held EXCEPT ![c] = s]
    BY <1>1 DEF AcquireReceive
  <2>2. s \in Suppressors /\ held'[c] = s /\ held[c] = Nobody /\ shut' = shut
    BY <1>1, <2>1 DEF AcquireReceive, PoolTypeOK, Holding
  <2>3. LeaseOf(s) = "ready" /\ LeaseOf(s)' = c
    BY <2>1, <2>2 DEF LeaseDetermined
  <2>4. \A t \in Suppressors \ {s} :
           /\ t \in shut' <=> t \in shut
           /\ t \in idle' <=> t \in idle
           /\ \A d \in Sessions : held'[d] = t <=> held[d] = t
    BY <2>1, <2>2 DEF PoolTypeOK
  <2>5. LeaseMap' = [LeaseMap EXCEPT ![s] = c]
    BY <2>2, <2>3, <2>4, OneMoves
  <2> QED
    BY <2>2, <2>3, <2>5 DEF Lease!LeaseNext, Lease!Grant, LeaseMap
<1>2. ASSUME NEW c \in Sessions, ReleaseClosed(c)
      PROVE  Lease!LeaseNext
  <2>1. PICK s \in Suppressors :
          s = held[c] /\ s \in shut' /\ held' = [held EXCEPT ![c] = Nobody]
    BY <1>2 DEF ReleaseClosed, PoolTypeOK, Holding
  <2>2. LeaseOf(s) = c /\ LeaseOf(s)' = "shut"
    BY <2>1 DEF LeaseDetermined
  <2>3. \A t \in Suppressors \ {s} :
           /\ t \in shut' <=> t \in shut
           /\ t \in idle' <=> t \in idle
           /\ \A d \in Sessions : held'[d] = t <=> held[d] = t
    BY <1>2, <2>1 DEF ReleaseClosed, PoolTypeOK
  <2>4. LeaseMap' = [LeaseMap EXCEPT ![s] = "shut"]
    BY <2>1, <2>2, <2>3, OneMoves
  <2> QED
    BY <2>1, <2>2, <2>4 DEF Lease!LeaseNext, Lease!Shut, LeaseMap
<1>3. ASSUME NEW c \in Sessions, ReleaseSend(c)
      PROVE  Lease!LeaseNext
  <2>1. PICK s \in Suppressors :
          s = held[c] /\ s \in idle' /\ held' = [held EXCEPT ![c] = Nobody]
    BY <1>3 DEF ReleaseSend, PoolTypeOK, Holding
  <2>2. LeaseOf(s) = c /\ LeaseOf(s)' = "ready"
    BY <2>1 DEF LeaseDetermined
  <2>3. \A t \in Suppressors \ {s} :
           /\ t \in shut' <=> t \in shut
           /\ t \in idle' <=> t \in idle
           /\ \A d \in Sessions : held'[d] = t <=> held[d] = t
    BY <1>3, <2>1 DEF ReleaseSend, PoolTypeOK
  <2>4. LeaseMap' = [LeaseMap EXCEPT ![s] = "ready"]
    BY <2>1, <2>2, <2>3, OneMoves
  <2> QED
    BY <2>1, <2>2, <2>4 DEF Lease!LeaseNext, Lease!Return, LeaseMap
<1>4. ASSUME WarmSend
      PROVE  Lease!LeaseNext
  <2>1. PICK s \in Suppressors \ made : idle' = idle \cup {s}
    BY <1>4 DEF WarmSend
  <2>2. s \in idle' /\ s \notin idle \cup shut /\ \A c \in Sessions : held[c] # s
    BY <2>1 DEF ExclusiveUse
  <2>3. LeaseOf(s) = "absent" /\ LeaseOf(s)' = "ready"
    BY <2>1, <2>2 DEF LeaseDetermined
  <2>4. \A t \in Suppressors \ {s} :
           /\ t \in shut' <=> t \in shut
           /\ t \in idle' <=> t \in idle
           /\ \A d \in Sessions : held'[d] = t <=> held[d] = t
    BY <1>4, <2>1 DEF WarmSend
  <2>5. LeaseMap' = [LeaseMap EXCEPT ![s] = "ready"]
    BY <2>3, <2>4, OneMoves
  <2> QED
    BY <2>3, <2>5 DEF Lease!LeaseNext, Lease!Provide, LeaseMap
<1>5. ASSUME CloseDrain
      PROVE  Lease!LeaseNext
  <2>1. PICK s \in idle : idle' = idle \ {s} /\ shut' = shut \cup {s}
    BY <1>5 DEF CloseDrain
  <2>2. s \in Suppressors /\ s \in shut' /\ held' = held
    BY <1>5, <2>1 DEF CloseDrain, PoolTypeOK
  <2>3. LeaseOf(s) = "ready" /\ LeaseOf(s)' = "shut"
    BY <2>1, <2>2 DEF LeaseDetermined
  <2>4. \A t \in Suppressors \ {s} :
           /\ t \in shut' <=> t \in shut
           /\ t \in idle' <=> t \in idle
           /\ \A d \in Sessions : held'[d] = t <=> held[d] = t
    BY <2>1, <2>2
  <2>5. LeaseMap' = [LeaseMap EXCEPT ![s] = "shut"]
    BY <2>2, <2>3, <2>4, OneMoves
  <2> QED
    BY <2>2, <2>3, <2>5 DEF Lease!LeaseNext, Lease!Shut, LeaseMap
<1>6. ASSUME NEW c \in Sessions,
             \/ AcquireCall(c) \/ AcquireNil(c) \/ AcquireCount(c)
             \/ ReleaseCount(c) \/ ReleaseLock(c)
      PROVE  UNCHANGED LeaseMap
  <2>1. UNCHANGED <<idle, shut, held>>
    BY <1>6 DEF AcquireCall, AcquireNil, AcquireCount, ReleaseCount, ReleaseLock
  <2> QED
    BY <2>1, NoneMoves
<1>7. ASSUME (\E n \in 1 .. Size : WarmLock(n)) \/ WarmCount \/ WarmFail
      PROVE  UNCHANGED LeaseMap
  <2>1. UNCHANGED <<idle, shut, held>>
    BY <1>7 DEF WarmLock, WarmCount, WarmFail
  <2> QED
    BY <2>1, NoneMoves
<1>8. ASSUME CloseChannel \/ CloseDone \/ UNCHANGED poolVars
      PROVE  UNCHANGED LeaseMap
  <2>1. UNCHANGED <<idle, shut, held>>
    BY <1>8 DEF CloseChannel, CloseDone, poolVars
  <2> QED
    BY <2>1, NoneMoves
<1> QED
  BY <1>1, <1>2, <1>3, <1>4, <1>5, <1>6, <1>7, <1>8
     DEF PoolNext, Acquire, Release, WarmPool, Close

(* The pool implements SuppressorLease: every run of it, seen through      *)
(* LeaseOf, is a run of the abstract lease.                                *)
THEOREM PoolImplementsLease == PoolSpec => ImplementsLease
<1>1. NewSuppressorPool => Lease!LeaseInit
  BY PoolAssumption DEF NewSuppressorPool, Lease!LeaseInit, LeaseOf
<1>2. PoolInv /\ LeaseDetermined /\ LeaseDetermined' /\ [PoolNext]_poolVars
        => [Lease!LeaseNext]_LeaseMap
  BY LeaseStep
<1>3. PoolSpec => Lease!LeaseInit /\ [][Lease!LeaseNext]_LeaseMap
  BY <1>1, <1>2, PoolInvariant, LeaseIsDetermined, PTL DEF PoolSpec
<1> QED
  BY <1>3, PTL DEF ImplementsLease, Lease!LeaseSpec, LeaseMap
=============================================================================
