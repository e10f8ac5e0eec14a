----------------------------- MODULE MCSearches -----------------------------
(* Constants for the model-checking run of Searches. *)
EXTENDS Searches

(* A number that is negative and one that does not fit one byte.           *)
Operands == {-1, 257}

Settings ==
  {[signed |-> TRUE,  width |-> 1, big |-> FALSE],
   [signed |-> FALSE, width |-> 2, big |-> FALSE],
   [signed |-> TRUE,  width |-> 2, big |-> TRUE]}

(* Nothing, one byte, and patterns with and without a repetition in them.  *)
Patterns == {<<>>, <<1>>, <<0, 0>>, <<0, 1>>, <<0, 0, 1>>, <<0, 1, 0>>}
=============================================================================
