----------------------------- MODULE CheatSets -----------------------------
(***************************************************************************)
(* hc::Set: a finite set of addresses, or the complement of one, so that   *)
(* the universal set needs no memory.  Each operation has four cases, one  *)
(* per combination of the complement flags, and each case is one of the    *)
(* merges of the standard library over two sorted vectors.  The vectors    *)
(* are sets here: that they are sorted is a property of CheatSearch.       *)
(***************************************************************************)

Plain(e)      == [elements |-> e, complemented |-> FALSE]
Complement(s) == [s EXCEPT !.complemented = ~s.complemented]

Empty     == Plain({})
Universal == Complement(Empty)

Contains(s, address) ==
  IF s.complemented THEN address \notin s.elements ELSE address \in s.elements

Union(a, b) ==
  CASE ~a.complemented /\ ~b.complemented -> Plain(a.elements \union b.elements)
    [] ~a.complemented /\ b.complemented  -> Complement(Plain(b.elements \ a.elements))
    [] a.complemented /\ ~b.complemented  -> Complement(Plain(a.elements \ b.elements))
    [] a.complemented /\ b.complemented   -> Complement(Plain(a.elements \intersect b.elements))

(* Mutant: the operands of the third merge are swapped.                    *)
IntersectionSwapped(a, b) ==
  CASE ~a.complemented /\ ~b.complemented -> Plain(a.elements \intersect b.elements)
    [] ~a.complemented /\ b.complemented  -> Plain(a.elements \ b.elements)
    [] a.complemented /\ ~b.complemented  -> Plain(a.elements \ b.elements)
    [] a.complemented /\ b.complemented   -> Complement(Plain(a.elements \union b.elements))

Intersection(a, b) ==
  CASE ~a.complemented /\ ~b.complemented -> Plain(a.elements \intersect b.elements)
    [] ~a.complemented /\ b.complemented  -> Plain(a.elements \ b.elements)
    [] a.complemented /\ ~b.complemented  -> Plain(b.elements \ a.elements)
    [] a.complemented /\ b.complemented   -> Complement(Plain(a.elements \union b.elements))

(* Mutant: the last case forgets that two complements cancel out.          *)
DifferenceComplemented(a, b) ==
  CASE ~a.complemented /\ ~b.complemented -> Plain(a.elements \ b.elements)
    [] ~a.complemented /\ b.complemented  -> Plain(a.elements \intersect b.elements)
    [] a.complemented /\ ~b.complemented  -> Complement(Plain(a.elements \union b.elements))
    [] a.complemented /\ b.complemented   -> Complement(Plain(b.elements \ a.elements))

Difference(a, b) ==
  CASE ~a.complemented /\ ~b.complemented -> Plain(a.elements \ b.elements)
    [] ~a.complemented /\ b.complemented  -> Plain(a.elements \intersect b.elements)
    [] a.complemented /\ ~b.complemented  -> Complement(Plain(a.elements \union b.elements))
    [] a.complemented /\ b.complemented   -> Plain(b.elements \ a.elements)
=============================================================================
