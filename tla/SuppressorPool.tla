--------------------------- MODULE SuppressorPool ---------------------------
(***************************************************************************)
(* The pool of noise suppressors shared by the call legs of one process    *)
(* (pkg/model/pool.go): a buffered channel, a mutex, and a counter of the  *)
(* suppressors that are out.  Acquire takes no lock; Release and WarmPool  *)
(* hold the mutex while they send on the channel, which blocks when it is  *)
(* full; Close drains the channel after giving the mutex back.             *)
(*                                                                         *)
(* The channel's order is not told apart: idle suppressors are             *)
(* interchangeable, Acquire resets them.  A session is a goroutine that    *)
(* acquires and releases in turn, once each.                               *)
(***************************************************************************)
EXTENDS Integers, FiniteSets

CONSTANTS
  Suppressors,     (* all suppressors that can ever be made                 *)
  Sessions,        (* the goroutines that acquire and release               *)
  Size,            (* p.size, the capacity of the channel                   *)
  Nobody,          (* holds the free mutex; also Go's nil suppressor        *)
  Warmer, Closer   (* the goroutines calling WarmPool and Close             *)

ASSUME PoolAssumption ==
  /\ IsFiniteSet(Suppressors)
  /\ Size \in Nat \ {0}
  /\ Nobody \notin Suppressors \cup Sessions
  /\ Warmer \notin Sessions \cup {Nobody, Closer}
  /\ Closer \notin Sessions \cup {Nobody}
  /\ Sessions \cap {"absent", "ready", "shut"} = {}

VARIABLES
  idle,         (* the suppressors in the channel p.pool                    *)
  closed,       (* p.closed, and with it the channel                        *)
  mu,           (* who holds p.mu                                           *)
  outstanding,  (* p.outstanding                                            *)
  made,         (* the suppressors created so far                           *)
  shut,         (* the suppressors that were closed                         *)
  callPc,       (* where each session is                                    *)
  held,         (* the suppressor each session holds                        *)
  warmPc, need, (* WarmPool: where it is, what it read and still has to add *)
  closePc       (* Close: where it is                                       *)

sessionVars == <<callPc, held>>
warmVars == <<warmPc, need>>
poolVars == <<idle, closed, mu, outstanding, made, shut, callPc, held, warmPc, need, closePc>>

PoolTypeOK ==
  /\ idle \in SUBSET Suppressors
  /\ closed \in BOOLEAN
  /\ mu \in Sessions \cup {Nobody, Warmer}
  /\ outstanding \in Nat
  /\ made \in SUBSET Suppressors
  /\ shut \in SUBSET Suppressors
  /\ callPc \in [Sessions -> {"out", "waiting", "counting", "using", "locking",
                          "sending", "refused"}]
  /\ held \in [Sessions -> Suppressors \cup {Nobody}]
  /\ warmPc \in {"off", "counting", "filling"}
  /\ need \in Nat
  /\ closePc \in {"off", "draining", "closed"}

(* NewSuppressorPool succeeded: the channel holds Size suppressors. *)
NewSuppressorPool ==
  /\ idle \in SUBSET Suppressors /\ Cardinality(idle) = Size
  /\ made = idle
  /\ closed = FALSE /\ mu = Nobody /\ outstanding = 0 /\ shut = {}
  /\ callPc = [c \in Sessions |-> "out"]
  /\ held = [c \in Sessions |-> Nobody]
  /\ warmPc = "off" /\ need = 0
  /\ closePc = "off"

-----------------------------------------------------------------------------
(* Acquire *)

Step(c, from, to) == callPc[c] = from /\ callPc' = [callPc EXCEPT ![c] = to]

AcquireCall(c) ==
  /\ Step(c, "out", "waiting")
  /\ UNCHANGED <<idle, closed, mu, outstanding, made, shut, held, warmVars, closePc>>

AcquireReceive(c) ==
  /\ Step(c, "waiting", "counting")
  /\ \E s \in idle :
       /\ idle' = idle \ {s}
       /\ held' = [held EXCEPT ![c] = s]
  /\ UNCHANGED <<closed, mu, outstanding, made, shut, warmVars, closePc>>

(* The channel is closed and drained: nil, and no suppressor for the call. *)
AcquireNil(c) ==
  /\ Step(c, "waiting", "refused")
  /\ closed /\ idle = {}
  /\ UNCHANGED <<idle, closed, mu, outstanding, made, shut, held, warmVars, closePc>>

AcquireCount(c) ==
  /\ Step(c, "counting", "using")
  /\ outstanding' = outstanding + 1
  /\ UNCHANGED <<idle, closed, mu, made, shut, held, warmVars, closePc>>

-----------------------------------------------------------------------------
(* Release: the counter first, then the mutex, then the channel. *)

ReleaseCount(c) ==
  /\ Step(c, "using", "locking")
  /\ outstanding' = IF outstanding > 0 THEN outstanding - 1 ELSE 0
  /\ UNCHANGED <<idle, closed, mu, made, shut, held, warmVars, closePc>>

ReleaseLock(c) ==
  /\ Step(c, "locking", "sending")
  /\ mu = Nobody /\ ~closed
  /\ mu' = c
  /\ UNCHANGED <<idle, closed, outstanding, made, shut, held, warmVars, closePc>>

(* Faulty: the suppressor is forgotten instead of closed. *)
ReleaseForgotten(c) ==
  /\ Step(c, "locking", "out")
  /\ mu = Nobody /\ closed
  /\ held' = [held EXCEPT ![c] = Nobody]
  /\ UNCHANGED <<idle, closed, mu, outstanding, made, shut, warmVars, closePc>>

(* The pool was closed meanwhile: the suppressor is closed, not returned.  *)
ReleaseClosed(c) ==
  /\ Step(c, "locking", "out")
  /\ mu = Nobody /\ closed
  /\ shut' = shut \cup {held[c]}
  /\ held' = [held EXCEPT ![c] = Nobody]
  /\ UNCHANGED <<idle, closed, mu, outstanding, made, warmVars, closePc>>

(* Faulty: the suppressor never goes back into the channel. *)
ReleaseLost(c) ==
  /\ Step(c, "sending", "out")
  /\ mu' = Nobody
  /\ held' = [held EXCEPT ![c] = Nobody]
  /\ UNCHANGED <<idle, closed, outstanding, made, shut, warmVars, closePc>>

(* p.pool <- s blocks while the channel is full, with the mutex held.      *)
ReleaseSend(c) ==
  /\ Step(c, "sending", "out")
  /\ Cardinality(idle) < Size
  /\ idle' = idle \cup {held[c]}
  /\ held' = [held EXCEPT ![c] = Nobody]
  /\ mu' = Nobody
  /\ UNCHANGED <<closed, outstanding, made, shut, warmVars, closePc>>

-----------------------------------------------------------------------------
(* WarmPool(n).  The calls refused up front, on a closed pool or for more  *)
(* than Size, change nothing and are left out.                             *)

WarmLock(n) ==
  /\ warmPc = "off" /\ mu = Nobody /\ ~closed /\ n <= Size
  /\ mu' = Warmer
  /\ IF Cardinality(idle) >= n
     THEN need' = 0
     ELSE need' = n - Cardinality(idle)
  /\ warmPc' = "counting"
  /\ UNCHANGED <<idle, closed, outstanding, made, shut, sessionVars, closePc>>

WarmReturn == warmPc' = "off" /\ need' = 0 /\ mu' = Nobody

WarmCount ==
  /\ warmPc = "counting"
  /\ IF outstanding >= need
     THEN WarmReturn
     ELSE warmPc' = "filling" /\ need' = need - outstanding /\ UNCHANGED mu
  /\ UNCHANGED <<idle, closed, outstanding, made, shut, sessionVars, closePc>>

WarmSend ==
  /\ warmPc = "filling" /\ Cardinality(idle) < Size
  /\ \E s \in Suppressors \ made :
       /\ idle' = idle \cup {s}
       /\ made' = made \cup {s}
  /\ IF need = 1
     THEN WarmReturn
     ELSE need' = need - 1 /\ UNCHANGED <<warmPc, mu>>
  /\ UNCHANGED <<closed, outstanding, shut, sessionVars, closePc>>

(* NewSuppressor failed. *)
WarmFail ==
  /\ warmPc = "filling"
  /\ WarmReturn
  /\ UNCHANGED <<idle, closed, outstanding, made, shut, sessionVars, closePc>>

-----------------------------------------------------------------------------
(* Close, once *)

(* Faulty: the channel is closed without the mutex. *)
CloseUnlocked ==
  /\ closePc = "off"
  /\ closed' = TRUE
  /\ closePc' = "draining"
  /\ UNCHANGED <<idle, mu, outstanding, made, shut, sessionVars, warmVars>>

CloseChannel ==
  /\ closePc = "off" /\ mu = Nobody
  /\ closed' = TRUE
  /\ closePc' = "draining"
  /\ UNCHANGED <<idle, mu, outstanding, made, shut, sessionVars, warmVars>>

CloseDrain ==
  /\ closePc = "draining"
  /\ \E s \in idle : idle' = idle \ {s} /\ shut' = shut \cup {s}
  /\ UNCHANGED <<closed, mu, outstanding, made, sessionVars, warmVars, closePc>>

CloseDone ==
  /\ closePc = "draining" /\ idle = {}
  /\ closePc' = "closed"
  /\ UNCHANGED <<idle, closed, mu, outstanding, made, shut, sessionVars, warmVars>>

-----------------------------------------------------------------------------
Acquire(c) == AcquireReceive(c) \/ AcquireNil(c) \/ AcquireCount(c)
Release(c) == ReleaseCount(c) \/ ReleaseLock(c) \/ ReleaseClosed(c) \/ ReleaseSend(c)
WarmPool == (\E n \in 1 .. Size : WarmLock(n)) \/ WarmCount \/ WarmSend \/ WarmFail
Close == CloseChannel \/ CloseDrain \/ CloseDone

PoolNext ==
  \/ \E c \in Sessions : AcquireCall(c) \/ Acquire(c) \/ Release(c)
  \/ WarmPool
  \/ Close

PoolSpec == NewSuppressorPool /\ [][PoolNext]_poolVars

(* Every call leg ends.  Receivers of a Go channel are served in order and *)
(* a Go mutex does not starve: a step that is enabled again and again      *)
(* happens.                                                                *)
PoolFairness ==
  /\ \A c \in Sessions :
       SF_poolVars(Acquire(c)) /\ SF_poolVars(Release(c))
  /\ WF_poolVars(WarmCount \/ WarmSend \/ WarmFail)
  /\ WF_poolVars(CloseDrain \/ CloseDone)

-----------------------------------------------------------------------------
(* Properties *)

(* A suppressor keeps the state of one stream: no two call legs hold the   *)
(* same one, none is held and up for grabs at once, and none is closed     *)
(* while a call leg may still process audio with it.                       *)
ExclusiveUse ==
  /\ \A c \in Sessions :
       held[c] # Nobody => held[c] \in made \ (idle \cup shut)
  /\ \A c, d \in Sessions : held[c] = held[d] /\ held[c] # Nobody => c = d
  /\ idle \cap shut = {}
  /\ idle \cup shut \subseteq made

(* Nothing is left open: when Close has returned and no call leg holds a   *)
(* suppressor, every suppressor ever made was closed.                      *)
ClosedLeavesNothing ==
  (closePc = "closed" /\ \A c \in Sessions : held[c] = Nobody) => made = shut

(* Whoever is about to send holds the mutex, and holds it on an open pool, *)
(* so that Close and a Release winding down never send on a closed channel; *)
(* WarmPool sends only as long as something is missing.                    *)
Locked ==
  /\ \A c \in Sessions : callPc[c] = "sending" => mu = c /\ ~closed
  /\ warmPc # "off" => mu = Warmer /\ ~closed
  /\ warmPc = "filling" => need >= 1
  /\ closed = (closePc # "off")
  /\ closePc = "closed" => idle = {}

(* A session holds a suppressor exactly between receive and return. *)
Holding ==
  \A c \in Sessions :
    held[c] = Nobody <=> callPc[c] \in {"out", "waiting", "refused"}

(* No suppressor is ever out of sight. *)
Accounted == \A s \in made : s \in idle \cup shut \/ \E c \in Sessions : held[c] = s

(* What the pool maintains at every step of Acquire, Release, WarmPool and *)
(* Close, whoever is in between: the safety of the pool in inductive form. *)
PoolInv == PoolTypeOK /\ Locked /\ Holding /\ ExclusiveUse /\ Accounted

(* Where a suppressor is, in the terms of SuppressorLease. *)
LeaseOf(s) ==
  IF s \in shut THEN "shut"
  ELSE IF s \in idle THEN "ready"
  ELSE IF \E c \in Sessions : held[c] = s
       THEN CHOOSE c \in Sessions : held[c] = s
       ELSE "absent"

Lease == INSTANCE SuppressorLease WITH lease <- [s \in Suppressors |-> LeaseOf(s)]

(* The pool implements SuppressorLease. *)
ImplementsLease == Lease!LeaseSpec

(* WarmPool is called "before any sessions begin": no call leg is running. *)
WarmBeforeTraffic ==
  (warmPc = "off" /\ warmPc' # "off") => \A c \in Sessions : callPc[c] = "out"

(* A Release that was called returns: sending with the mutex held does not *)
(* block for good.  This takes WarmBeforeTraffic.                          *)
ReleaseReturns ==
  \A c \in Sessions : callPc[c] \in {"locking", "sending"} ~> callPc[c] = "out"

(* A call leg that waits for a suppressor gets one, or learns that the     *)
(* pool is closed; no interleaving shrinks the pool.  So does this.        *)
AcquireServed ==
  \A c \in Sessions : callPc[c] = "waiting" ~> callPc[c] \in {"using", "refused"}
=============================================================================
