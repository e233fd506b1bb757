--------------------------- MODULE SuppressorLease ---------------------------
(***************************************************************************)
(* What the suppressor pool promises: every suppressor is at any time in   *)
(* exactly one place, and a suppressor carries the noise state of one call *)
(* leg, so it moves from one leg to another only through the pool.         *)
(***************************************************************************)

CONSTANTS
  Suppressors,
  Sessions      (* none of them is one of "absent", "ready", "shut"         *)

VARIABLE lease  (* where each suppressor is: a session, or one of the above *)

LeaseInit == lease \in [Suppressors -> {"absent", "ready"}]

Provide(s) == lease[s] = "absent" /\ lease' = [lease EXCEPT ![s] = "ready"]

Grant(s, c) == lease[s] = "ready" /\ lease' = [lease EXCEPT ![s] = c]

Return(s, c) == lease[s] = c /\ lease' = [lease EXCEPT ![s] = "ready"]

(* The pool is shut down: idle suppressors are closed at once, the others  *)
(* when their session gives them back.                                     *)
Shut(s) ==
  /\ lease[s] \in Sessions \cup {"ready"}
  /\ lease' = [lease EXCEPT ![s] = "shut"]

LeaseNext ==
  \E s \in Suppressors :
    \/ Provide(s)
    \/ \E c \in Sessions : Grant(s, c) \/ Return(s, c)
    \/ Shut(s)

LeaseSpec == LeaseInit /\ [][LeaseNext]_lease
=============================================================================
