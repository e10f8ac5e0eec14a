------------------------------ MODULE MCConfig ------------------------------
(* Constants for the model-checking run of Config. *)
EXTENDS Config, TLC

CONSTANTS k1, k2, low, high

Define(key, values, default) == [key |-> key, values |-> values, default |-> default]

(* Two options, one of them announced twice with different values; a core  *)
(* that repeats both later on, or announces them in another order.         *)
Announcements ==
  {<<Define(k1, <<low, high>>, high), Define(k2, <<low>>, high), Define(k1, <<high>>, high)>>,
   <<Define(k2, <<high, low, high>>, high), Define(k1, <<low>>, low)>>}

(* Blocks that join, one that goes around the end of the address space and *)
(* joins them too, and the errors.                                         *)
Block3(data, base, size) == [data |-> data, base |-> base, size |-> size]
Tables ==
  {Block3(20, 2, 2), Block3(30, 4, 1), Block3(10, 6, 4),
   Block3(Null, 0, 2), Block3(10, -1, 2), Block3(10, 2, 0)}
=============================================================================
