------------------------------ MODULE MCInput ------------------------------
(* Constants for the model-checking runs of Input. *)
EXTENDS Input

(* A core with a subclassed joypad on one port and, on the other one, an   *)
(* analog pad after the NONE it should not announce.                       *)
Announcements == {[p \in Port |-> IF p = 0 THEN <<257>> ELSE <<NONE, 5>>]}
=============================================================================
