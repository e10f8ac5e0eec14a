-------------------------- MODULE HandleAllocator --------------------------
(***************************************************************************)
(* hc::HandleAllocator<T> of Handle.h: slots in a vector, a counter per    *)
(* slot, and a free list threaded through the freed slots.  A handle is an *)
(* offset (the slot's index plus one, 0 being the null handle) and the     *)
(* value the slot's counter had when the handle was made.                  *)
(*                                                                         *)
(* A slot's storage is a union: it holds an object or, while the slot is   *)
(* free, the index of the next free slot.  The two readings are told apart *)
(* by nothing but the free list itself, so the model keeps one value per   *)
(* slot and reads it as the code does.                                     *)
(***************************************************************************)
EXTENDS Naturals

CONSTANTS
  Object,      \* the values of T
  MaxSlots,    \* bound: slots of the vectors
  MaxCounter   \* bound: the last value of a counter

ASSUME HandleAssumption ==
  /\ Object # {}
  /\ Object \intersect Nat = {}
  /\ MaxSlots \in Nat
  /\ MaxCounter \in Nat

VARIABLES
  size,      \* _elements.size(), also _counters.size()
  element,   \* _elements: an object, or `next'
  counter,   \* _counters
  freeList,  \* _freeList: 0, or the index of the first free slot plus one
  issued     \* the handles given out: their holders keep them

vars == <<size, element, counter, freeList, issued>>

Slot == 1..MaxSlots  \* slots by offset, i.e. index plus one

Handle == Slot \X (0..MaxCounter)

-----------------------------------------------------------------------------
Init ==
  /\ size = 0
  /\ element = [s \in Slot |-> 0]
  /\ counter = [s \in Slot |-> 0]
  /\ freeList = 0
  /\ issued = {}

(* translate(): the slot exists and its counter is the handle's.           *)
Translates(h) == h[1] \in 1..size /\ h[2] = counter[h[1]]

(* Mutant: every allocation zeroes the slot's counter.                     *)
UseZeroed(s, obj) ==
  /\ element' = [element EXCEPT ![s] = obj]
  /\ issued' = issued \union {<<s, 0>>}
  /\ counter' = [counter EXCEPT ![s] = 0]

(* The slot's storage becomes the object; its handle is given out.         *)
Use(s, obj) ==
  /\ element' = [element EXCEPT ![s] = obj]
  /\ issued' = issued \union {<<s, counter[s]>>}
  /\ UNCHANGED counter

(* allocate(): the head of the free list, whose storage is read as `next'  *)
(* before the object is built over it ...                                  *)
AllocateFreed(obj) ==
  /\ freeList # 0
  /\ freeList' = element[freeList]
  /\ Use(freeList, obj)
  /\ UNCHANGED size

(* ... or a new slot at the end of the vectors, its counter zero.          *)
AllocateNew(obj) ==
  /\ freeList = 0
  /\ size < MaxSlots
  /\ size' = size + 1
  /\ Use(size + 1, obj)
  /\ UNCHANGED freeList

(* Mutant: free() does not look whether the handle translates.             *)
FreeUnchecked(h) ==
  /\ counter[h[1]] < MaxCounter
  /\ counter' = [counter EXCEPT ![h[1]] = @ + 1]
  /\ element' = [element EXCEPT ![h[1]] = freeList]
  /\ freeList' = h[1]
  /\ UNCHANGED <<size, issued>>

(* free(): nothing happens to a handle that does not translate.            *)
Free(h) ==
  /\ Translates(h)
  /\ counter[h[1]] < MaxCounter
  /\ counter' = [counter EXCEPT ![h[1]] = @ + 1]
  /\ element' = [element EXCEPT ![h[1]] = freeList]
  /\ freeList' = h[1]
  /\ UNCHANGED <<size, issued>>

(* Mutant: reset() empties the vectors and the free list.                  *)
ResetEmpties ==
  /\ size' = 0
  /\ freeList' = 0
  /\ counter' = [s \in Slot |-> 0]
  /\ UNCHANGED <<element, issued>>

(* reset(): every counter moves on; slots in use are not put on the free   *)
(* list, those already there stay there.                                   *)
Reset ==
  /\ \A s \in 1..size : counter[s] < MaxCounter
  /\ counter' = [s \in Slot |-> IF s <= size THEN counter[s] + 1
                                             ELSE counter[s]]
  /\ UNCHANGED <<size, element, freeList, issued>>

Next ==
  \/ \E obj \in Object : AllocateFreed(obj) \/ AllocateNew(obj)
  \/ \E h \in issued : Free(h)
  \/ Reset

Spec == Init /\ [][Next]_vars

-----------------------------------------------------------------------------
(* The slots on the free list are those whose storage is an index.         *)
FreeSlots == {s \in 1..size : element[s] \in Nat}

TypeOK ==
  /\ size \in 0..MaxSlots
  /\ element \in [Slot -> Object \union (0..MaxSlots)]
  /\ counter \in [Slot -> 0..MaxCounter]
  /\ freeList \in 0..MaxSlots
  /\ issued \subseteq Handle

(* A handle that stopped translating never translates again, whatever is   *)
(* allocated, freed or reset later: no holder ever sees another's object.  *)
DeadStaysDead ==
  [][\A h \in issued : ~Translates(h) => ~Translates(h)']_vars

ListSound ==
  /\ freeList # 0 => freeList \in FreeSlots
  /\ \A s \in FreeSlots : element[s] # 0 =>
       /\ element[s] \in FreeSlots \ {freeList}
       /\ \A t \in FreeSlots \ {s} : element[t] # element[s]

(* No slot is on the free list twice, and none that is in use is on it:    *)
(* two live handles never share a slot's storage, and a pointer that       *)
(* translate() hands out points at an object, never at storage that was    *)
(* given back.                                                             *)
FreeListSound ==
  /\ ListSound
  /\ \A h \in issued : Translates(h) => element[h[1]] \in Object

Named == [h \in {x \in issued : Translates(x)} |-> element[h[1]]]
Table == INSTANCE HandleTable WITH table <- Named

(* The slots, counters and free list implement the table of names.         *)
ImplementsTable == Table!Spec
=============================================================================
