---------------------------- MODULE HandleTable ----------------------------
(***************************************************************************)
(* What HandleAllocator promises to the holders of its handles: a handle   *)
(* names one object from its allocation until it is freed or the allocator *)
(* is reset, and from then on nothing, for ever: no later allocation makes *)
(* an old handle name something again.                                     *)
(***************************************************************************)

CONSTANT Object  \* what the program stores: pointers to memory regions

VARIABLES
  issued,  \* every handle ever given out; its holders may keep it for ever
  table    \* what the live ones of them name

vars == <<issued, table>>

Init ==
  /\ issued = {}
  /\ table = [h \in {} |-> CHOOSE o \in Object : TRUE]

Without(h) == [x \in DOMAIN table \ {h} |-> table[x]]

(* A handle nobody ever held before names the new object.                  *)
Allocate ==
  \E h \in issued' \ issued, o \in Object :
    /\ issued' = issued \union {h}
    /\ table' = [x \in DOMAIN table \union {h} |->
                   IF x = h THEN o ELSE table[x]]

Free ==
  \E h \in DOMAIN table :
    /\ table' = Without(h)
    /\ UNCHANGED issued

Reset ==
  /\ DOMAIN table' = {}
  /\ table' = [h \in {} |-> CHOOSE o \in Object : TRUE]
  /\ UNCHANGED issued

Next == Allocate \/ Free \/ Reset

Spec == Init /\ [][Next]_vars
=============================================================================
