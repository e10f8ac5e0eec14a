---------------------------- MODULE HandleProofs ---------------------------
(***************************************************************************)
(* Proofs about HandleAllocator, for any set of objects and any bounds.    *)
(*                                                                         *)
(* The inductive invariant is TypeOK with ListSound and IssuedBehind.      *)
(* ListSound keeps allocate() from handing out a slot in use, and is   *)
(* only preserved by free() because a handle that translates names a slot  *)
(* that is not free: that is IssuedBehind.                                 *)
(***************************************************************************)
EXTENDS HandleAllocator, TLAPS

(* A handle in somebody's hands is not ahead of its slot's counter, and    *)
(* behind it when the slot is free.                                        *)
IssuedBehind ==
  \A h \in issued :
    /\ h[1] \in 1..size
    /\ h[2] <= counter[h[1]]
    /\ h[1] \in FreeSlots => h[2] < counter[h[1]]

Inv == TypeOK /\ ListSound /\ IssuedBehind

(* The initial state satisfies the invariant: no slot, no handle.          *)
LEMMA InitInv == Init => Inv
  BY HandleAssumption
  DEF Init, Inv, TypeOK, ListSound, IssuedBehind, FreeSlots, Slot, Handle

(* A handle of somebody that translates names a slot that is not free.     *)
LEMMA TranslatingInUse ==
  ASSUME Inv, NEW h \in issued, Translates(h)
  PROVE  /\ h[1] \in 1..size
         /\ h[1] \in Slot
         /\ h[1] \notin FreeSlots
         /\ element[h[1]] \in Object
<1>1. h[1] \in 1..size /\ h[1] \in Slot /\ h \in Handle
  BY HandleAssumption DEF Inv, TypeOK, IssuedBehind, Translates, Slot
<1>2. counter[h[1]] \in Nat /\ h[2] = counter[h[1]]
  BY <1>1, HandleAssumption DEF Inv, TypeOK, Translates
<1>3. h[1] \notin FreeSlots
  BY <1>2 DEF Inv, IssuedBehind
<1>4. element[h[1]] \in Object
  BY <1>1, <1>3, HandleAssumption DEF Inv, TypeOK, FreeSlots
<1> QED BY <1>1, <1>3, <1>4

(* allocate() from the free list preserves the invariant.                  *)
LEMMA AllocateFreedInv ==
  ASSUME Inv, NEW obj \in Object, AllocateFreed(obj)
  PROVE  Inv'
<1> DEFINE s == freeList
<1> USE HandleAssumption
<1>0. /\ s \in FreeSlots /\ s \in 1..size /\ s \in Slot
      /\ element[s] \in 0..MaxSlots
      /\ obj \notin Nat
      /\ size' = size /\ counter' = counter
      /\ freeList' = element[s]
      /\ element' = [element EXCEPT ![s] = obj]
      /\ issued' = issued \union {<<s, counter[s]>>}
  BY DEF Inv, TypeOK, ListSound, FreeSlots, AllocateFreed, Use, Slot
<1>1. TypeOK'
  BY <1>0 DEF Inv, TypeOK, Handle, Slot
<1>2. FreeSlots' = FreeSlots \ {s}
  BY <1>0 DEF Inv, TypeOK, FreeSlots, Slot
<1>3. \A t \in FreeSlots : t # s => element'[t] = element[t]
  BY <1>0 DEF Inv, TypeOK, FreeSlots, Slot
<1>4. ListSound'
  <2> HIDE DEF s
  <2>1. freeList' # 0 => freeList' \in FreeSlots'
    BY <1>0, <1>2 DEF Inv, ListSound, s
  <2>2. ASSUME NEW t \in FreeSlots', element'[t] # 0
        PROVE  /\ element'[t] \in FreeSlots' \ {freeList'}
               /\ \A u \in FreeSlots' \ {t} : element'[u] # element'[t]
    <3>1. t \in FreeSlots /\ t # s /\ element'[t] = element[t]
      BY <1>2, <1>3
    <3>2. element[t] \in FreeSlots \ {s}
      BY <2>2, <3>1 DEF Inv, ListSound, s
    <3>3. element[t] # element[s]
      BY <2>2, <3>1, <1>0 DEF Inv, ListSound
    <3>4. \A u \in FreeSlots' \ {t} : element'[u] # element'[t]
      BY <2>2, <3>1, <1>2, <1>3 DEF Inv, ListSound
    <3> QED BY <3>1, <3>2, <3>3, <3>4, <1>0, <1>2
  <2> QED BY <2>1, <2>2 DEF ListSound
<1>5. IssuedBehind'
  <2>1. counter[s] \in Nat /\ s \notin FreeSlots'
    BY <1>0, <1>2 DEF Inv, TypeOK
  <2>2. ASSUME NEW h \in issued
        PROVE  /\ h[1] \in 1..size' /\ h[2] <= counter'[h[1]]
               /\ h[1] \in FreeSlots' => h[2] < counter'[h[1]]
    BY <1>0, <1>2 DEF Inv, IssuedBehind
  <2> QED BY <2>1, <2>2, <1>0 DEF IssuedBehind
<1> QED BY <1>1, <1>4, <1>5 DEF Inv

(* allocate() at the end of the vectors preserves the invariant.           *)
LEMMA AllocateNewInv ==
  ASSUME Inv, NEW obj \in Object, AllocateNew(obj)
  PROVE  Inv'
<1> DEFINE s == size + 1
<1> USE HandleAssumption
<1>0. /\ s \in Slot /\ s \notin 1..size /\ 1..size' = (1..size) \union {s}
      /\ freeList = 0 /\ freeList' = 0
      /\ size' = s /\ size' \in 0..MaxSlots /\ counter' = counter
      /\ element' = [element EXCEPT ![s] = obj]
      /\ issued' = issued \union {<<s, counter[s]>>}
      /\ obj \notin Nat
  BY DEF Inv, TypeOK, AllocateNew, Use, Slot
<1> HIDE DEF s
<1>1. TypeOK'
  BY <1>0 DEF Inv, TypeOK, Handle
<1>2. /\ FreeSlots' = FreeSlots
      /\ \A t \in FreeSlots : element'[t] = element[t]
  <2>1. \A t \in 1..size : t \in Slot /\ t # s
    BY <1>0 DEF Inv, TypeOK, Slot
  <2>2. \A t \in 1..size : element'[t] = element[t]
    BY <1>0, <2>1 DEF Inv, TypeOK
  <2>3. element'[s] \notin Nat
    BY <1>0 DEF Inv, TypeOK
  <2> QED BY <1>0, <2>2, <2>3 DEF FreeSlots
<1>3. ListSound'
  BY <1>0, <1>2 DEF Inv, ListSound
<1>4. IssuedBehind'
  <2>1. counter[s] \in Nat /\ s \notin FreeSlots' /\ s \in 1..size'
    BY <1>0, <1>2 DEF Inv, TypeOK, FreeSlots
  <2>2. ASSUME NEW h \in issued
        PROVE  /\ h[1] \in 1..size' /\ h[2] <= counter'[h[1]]
               /\ h[1] \in FreeSlots' => h[2] < counter'[h[1]]
    BY <1>0, <1>2 DEF Inv, IssuedBehind
  <2> QED BY <2>1, <2>2, <1>0 DEF IssuedBehind
<1> QED BY <1>1, <1>3, <1>4 DEF Inv

(* free() preserves the invariant: the slot it frees was not free.         *)
LEMMA FreeInv ==
  ASSUME Inv, NEW h \in issued, Free(h)
  PROVE  Inv'
<1> DEFINE s == h[1]
<1> USE HandleAssumption
<1>0. /\ s \in 1..size /\ s \in Slot /\ s \notin FreeSlots
      /\ counter[s] \in 0..MaxCounter /\ counter[s] < MaxCounter
      /\ freeList \in 0..MaxSlots
      /\ counter' = [counter EXCEPT ![s] = counter[s] + 1]
      /\ element' = [element EXCEPT ![s] = freeList]
      /\ freeList' = s /\ s # 0
      /\ size' = size /\ issued' = issued
  BY TranslatingInUse DEF Inv, TypeOK, Free, Slot
<1> HIDE DEF s
<1>1. TypeOK'
  BY <1>0 DEF Inv, TypeOK, Slot
<1>2. \A t \in 1..size : t \in Slot
  BY DEF Inv, TypeOK, Slot
<1>3. FreeSlots' = FreeSlots \union {s}
  BY <1>0, <1>2 DEF Inv, TypeOK, FreeSlots
<1>4. /\ element'[s] = freeList
      /\ \A t \in FreeSlots : t # s /\ element'[t] = element[t]
  BY <1>0, <1>2 DEF Inv, TypeOK, FreeSlots
<1>5. ListSound'
  <2>1. ASSUME NEW t \in FreeSlots', element'[t] # 0
        PROVE  /\ element'[t] \in FreeSlots' \ {freeList'}
               /\ \A u \in FreeSlots' \ {t} : element'[u] # element'[t]
    <3>1. CASE t = s
      <4>1. freeList \in FreeSlots /\ freeList # s
        BY <3>1, <2>1, <1>4, <1>0 DEF Inv, ListSound
      <4>2. \A u \in FreeSlots : element[u] # freeList
        BY <4>1, <3>1, <2>1, <1>4 DEF Inv, ListSound
      <4>3. element'[t] = freeList
        BY <3>1, <1>4
      <4>4. \A u \in FreeSlots' \ {t} : element'[u] # element'[t]
        BY <3>1, <4>2, <4>3, <1>3, <1>4
      <4>5. element'[t] \in FreeSlots' \ {freeList'}
        BY <4>1, <4>3, <1>0, <1>3
      <4> QED BY <4>4, <4>5
    <3>2. CASE t # s
      <4>1. t \in FreeSlots /\ element'[t] = element[t] /\ element[t] # 0
        BY <3>2, <2>1, <1>3, <1>4
      <4>2. element[t] \in FreeSlots \ {freeList}
        BY <4>1 DEF Inv, ListSound
      <4>3. \A u \in FreeSlots \ {t} : element[u] # element[t]
        BY <4>1 DEF Inv, ListSound
      <4> QED BY <4>1, <4>2, <4>3, <1>0, <1>3, <1>4
    <3> QED BY <3>1, <3>2
  <2> QED BY <2>1, <1>0, <1>3 DEF ListSound
<1>6. IssuedBehind'
  <2>1. ASSUME NEW x \in issued
        PROVE  /\ x[1] \in 1..size' /\ x[2] <= counter'[x[1]]
               /\ x[1] \in FreeSlots' => x[2] < counter'[x[1]]
    <3>1. /\ x[1] \in 1..size /\ x[1] \in Slot /\ x[2] \in Nat
          /\ x[2] <= counter[x[1]] /\ counter[x[1]] \in Nat
          /\ x[1] \in FreeSlots => x[2] < counter[x[1]]
      BY <1>2 DEF Inv, TypeOK, IssuedBehind, Handle
    <3>2. counter'[x[1]] = IF x[1] = s THEN counter[s] + 1 ELSE counter[x[1]]
      BY <3>1, <1>0 DEF Inv, TypeOK
    <3> QED BY <3>1, <3>2, <1>0, <1>3
  <2> QED BY <2>1, <1>0 DEF IssuedBehind
<1> QED BY <1>1, <1>5, <1>6 DEF Inv

(* reset() preserves the invariant: it only moves counters on.             *)
LEMMA ResetInv ==
  ASSUME Inv, Reset
  PROVE  Inv'
<1> USE HandleAssumption
<1>1. TypeOK'
  BY DEF Inv, TypeOK, Reset, Slot
<1>2. FreeSlots' = FreeSlots /\ element' = element /\ freeList' = freeList
  BY DEF Reset, FreeSlots
<1>3. ListSound'
  BY <1>2 DEF Inv, ListSound
<1>4. IssuedBehind'
  <2>1. ASSUME NEW h \in issued
        PROVE  /\ h[1] \in 1..size' /\ h[2] < counter'[h[1]]
               /\ h[2] \in Nat /\ counter'[h[1]] \in Nat
    BY DEF Inv, TypeOK, IssuedBehind, Reset, Slot, Handle
  <2> QED BY <2>1 DEF IssuedBehind, Reset
<1> QED BY <1>1, <1>3, <1>4 DEF Inv

(* Every step preserves the invariant.                                     *)
LEMMA NextInv == Inv /\ [Next]_vars => Inv'
<1> SUFFICES ASSUME Inv, [Next]_vars PROVE Inv'
  OBVIOUS
<1>1. ASSUME NEW obj \in Object, AllocateFreed(obj) PROVE Inv'
  BY <1>1, AllocateFreedInv
<1>2. ASSUME NEW obj \in Object, AllocateNew(obj) PROVE Inv'
  BY <1>2, AllocateNewInv
<1>3. ASSUME NEW h \in issued, Free(h) PROVE Inv'
  BY <1>3, FreeInv
<1>4. CASE Reset
  BY <1>4, ResetInv
<1>5. CASE UNCHANGED vars
  BY <1>5 DEF vars, Inv, TypeOK, ListSound, IssuedBehind, FreeSlots
<1> QED BY <1>1, <1>2, <1>3, <1>4, <1>5 DEF Next

LEMMA SpecInv == Spec => []Inv
  BY InitInv, NextInv, PTL DEF Spec

(* The allocator's variables keep their types: indices and counters stay   *)
(* inside the vectors, and the free list is never read from an object.     *)
THEOREM SpecTypeOK == Spec => []TypeOK
<1>1. Inv => TypeOK
  BY DEF Inv
<1> QED BY <1>1, SpecInv, PTL

(* The free list never holds a slot twice, nor one in use, and what        *)
(* translate() returns is an object, never a free slot's storage.          *)
THEOREM SpecFreeListSound == Spec => []FreeListSound
<1>1. Inv => FreeListSound
  BY TranslatingInUse DEF Inv, FreeListSound
<1> QED BY <1>1, SpecInv, PTL

(* A counter never goes back, and a slot never disappears.                 *)
LEMMA CountersGrow ==
  ASSUME Inv, [Next]_vars, NEW s \in 1..size
  PROVE  s \in 1..size' /\ counter'[s] \in Nat /\ counter[s] <= counter'[s]
<1> USE HandleAssumption
<1>0. s \in Slot /\ counter[s] \in Nat /\ size \in Nat
  BY DEF Inv, TypeOK, Slot
<1>1. ASSUME NEW obj \in Object, AllocateFreed(obj) \/ AllocateNew(obj)
      PROVE  s \in 1..size' /\ counter' = counter
  BY <1>0, <1>1 DEF AllocateFreed, AllocateNew, Use
<1>2. ASSUME NEW h \in issued, Free(h)
      PROVE  s \in 1..size' /\ (counter'[s] = counter[s] \/ counter'[s] = counter[s] + 1)
  BY <1>0, <1>2 DEF Free, Inv, TypeOK
<1>3. CASE Reset
  BY <1>0, <1>3 DEF Reset
<1>4. CASE UNCHANGED vars
  BY <1>0, <1>4 DEF vars
<1> QED BY <1>0, <1>1, <1>2, <1>3, <1>4 DEF Next

(* A handle whose object was freed, or dropped by reset(), never names     *)
(* anything again, through every later allocation of its slot.             *)
THEOREM SpecDeadStaysDead == Spec => DeadStaysDead
<1>1. ASSUME Inv, [Next]_vars, NEW h \in issued, ~Translates(h)
      PROVE  ~Translates(h)'
  <2>1. /\ h[1] \in 1..size /\ h[2] \in Nat /\ counter[h[1]] \in Nat
        /\ h[2] < counter[h[1]]
    BY <1>1, HandleAssumption
    DEF Inv, TypeOK, IssuedBehind, Translates, Handle, Slot
  <2>2. counter'[h[1]] \in Nat /\ counter[h[1]] <= counter'[h[1]]
    BY <1>1, <2>1, CountersGrow
  <2> QED BY <2>1, <2>2 DEF Translates
<1>2. Inv /\ [Next]_vars => [\A h \in issued : ~Translates(h) => ~Translates(h)']_vars
  BY <1>1
<1> QED BY <1>2, SpecInv, PTL DEF Spec, DeadStaysDead

-----------------------------------------------------------------------------
(* Allocation, from the free list or of a new slot, names one more object  *)
(* under a handle nobody ever had.                                         *)
LEMMA AllocateImplements ==
  ASSUME Inv, NEW obj \in Object, AllocateFreed(obj) \/ AllocateNew(obj)
  PROVE  Table!Allocate
<1> USE HandleAssumption
<1>1. PICK s \in Slot :
         /\ s \notin (1..size) \ FreeSlots
         /\ 1..size' = (1..size) \union {s}
         /\ counter' = counter
         /\ element' = [element EXCEPT ![s] = obj]
         /\ issued' = issued \union {<<s, counter[s]>>}
  <2>1. CASE AllocateFreed(obj)
    <3>1. freeList \in Slot /\ freeList \in FreeSlots /\ freeList \in 1..size
      BY <2>1 DEF AllocateFreed, Inv, TypeOK, ListSound, FreeSlots, Slot
    <3> QED BY <2>1, <3>1 DEF AllocateFreed, Use
  <2>2. CASE AllocateNew(obj)
    <3>1. /\ size + 1 \in Slot /\ size + 1 \notin 1..size
          /\ 1..size' = (1..size) \union {size + 1}
      BY <2>2 DEF AllocateNew, Inv, TypeOK, Slot
    <3> QED BY <2>2, <3>1 DEF AllocateNew, Use
  <2> QED BY <2>1, <2>2
<1> DEFINE new == <<s, counter[s]>>
<1>2. /\ new[1] = s /\ new[2] = counter[s]
      /\ counter[s] \in Nat /\ new \in issued' /\ Translates(new)'
  BY <1>1 DEF Inv, TypeOK, Translates
<1>3. \A x \in issued : x[1] \in 1..size /\ x[1] \in Slot
  BY DEF Inv, TypeOK, IssuedBehind, Slot
<1>4. new \notin issued
  <2>1. ASSUME new \in issued PROVE FALSE
    <3>1. s \in 1..size /\ (s \in FreeSlots => counter[s] < counter[s])
      BY <2>1, <1>2 DEF Inv, IssuedBehind
    <3> QED BY <3>1, <1>1, <1>2
  <2> QED BY <2>1
<1>5. \A x \in issued : Translates(x)' <=> Translates(x)
  BY <1>1, <1>3 DEF Translates
<1>6. \A x \in issued : Translates(x) => element'[x[1]] = element[x[1]]
  <2>1. ASSUME NEW x \in issued, Translates(x)
        PROVE  element'[x[1]] = element[x[1]]
    <3>1. x[1] \in (1..size) \ FreeSlots /\ x[1] \in Slot
      BY <2>1, TranslatingInUse
    <3> QED BY <3>1, <1>1 DEF Inv, TypeOK
  <2> QED BY <2>1
<1> HIDE DEF new
<1>7. element'[new[1]] = obj
  BY <1>1, <1>2 DEF Inv, TypeOK
<1>8. {x \in issued' : Translates(x)'} = {x \in issued : Translates(x)} \union {new}
  BY <1>1, <1>2, <1>5 DEF new
<1>9. Named' = [x \in DOMAIN Named \union {new} |->
                  IF x = new THEN obj ELSE Named[x]]
  BY <1>4, <1>6, <1>7, <1>8 DEF Named
<1>10. new \in issued' \ issued /\ issued' = issued \union {new}
  BY <1>1, <1>2, <1>4 DEF new
<1> QED BY <1>9, <1>10 DEF Table!Allocate

(* free() of a live handle takes just that name out of the table.          *)
LEMMA FreeImplements ==
  ASSUME Inv, NEW h \in issued, Free(h)
  PROVE  Table!Free
<1> USE HandleAssumption
<1>1. /\ Translates(h) /\ h[1] \in 1..size /\ h[1] \in Slot
      /\ counter[h[1]] \in Nat
      /\ counter' = [counter EXCEPT ![h[1]] = @ + 1]
      /\ element' = [element EXCEPT ![h[1]] = freeList]
      /\ size' = size /\ issued' = issued
  BY TranslatingInUse DEF Free, Inv, TypeOK
<1>2. ASSUME NEW x \in issued
      PROVE  /\ Translates(x)' <=> Translates(x) /\ x # h
             /\ Translates(x)' => element'[x[1]] = element[x[1]]
  <2>1. /\ x \in Handle /\ h \in Handle /\ x[1] \in Slot /\ x[2] \in Nat
        /\ x[2] <= counter[x[1]] /\ counter[x[1]] \in Nat
    BY DEF Inv, TypeOK, IssuedBehind, Handle
  <2>2. CASE x[1] = h[1]
    <3>1. counter'[x[1]] = counter[x[1]] + 1
      BY <2>1, <2>2, <1>1 DEF Inv, TypeOK
    <3>2. ~Translates(x)'
      BY <3>1, <2>1 DEF Translates
    <3>3. Translates(x) => x = h
      BY <2>1, <2>2, <1>1 DEF Translates, Handle
    <3> QED BY <3>2, <3>3
  <2>3. CASE x[1] # h[1]
    <3>1. counter'[x[1]] = counter[x[1]] /\ element'[x[1]] = element[x[1]]
      BY <2>1, <2>3, <1>1 DEF Inv, TypeOK
    <3> QED BY <3>1, <2>3, <1>1 DEF Translates
  <2> QED BY <2>2, <2>3
<1>3. {x \in issued' : Translates(x)'} = {x \in issued : Translates(x)} \ {h}
  BY <1>1, <1>2
<1>4. Named' = [x \in DOMAIN Named \ {h} |-> Named[x]]
  BY <1>2, <1>3 DEF Named
<1>5. h \in DOMAIN Named
  BY <1>1 DEF Named
<1> QED BY <1>1, <1>4, <1>5 DEF Table!Free, Table!Without

(* reset() takes every name out of the table.                              *)
LEMMA ResetImplements ==
  ASSUME Inv, Reset
  PROVE  Table!Reset
<1>1. issued' = issued
  BY DEF Reset
<1>2. \A x \in issued : ~Translates(x)'
  BY HandleAssumption
  DEF Inv, TypeOK, IssuedBehind, Reset, Translates, Slot, Handle
<1>3. {x \in issued' : Translates(x)'} = {}
  BY <1>1, <1>2
<1>4. DOMAIN Named' = {} /\ Named' = [h \in {} |-> CHOOSE o \in Object : TRUE]
  BY <1>3 DEF Named
<1> QED BY <1>1, <1>4 DEF Table!Reset

(* HandleAllocator implements HandleTable: slots, counters and free list   *)
(* are invisible behind allocate(), free(), reset() and translate().       *)
THEOREM SpecImplementsTable == Spec => ImplementsTable
<1>1. Init => Table!Init
  <2>1. Init => {x \in issued : Translates(x)} = {} /\ issued = {}
    BY DEF Init
  <2> QED BY <2>1 DEF Table!Init, Named
<1>2. Inv /\ [Next]_vars => [Table!Next]_(Table!vars)
  <2> SUFFICES ASSUME Inv, [Next]_vars PROVE [Table!Next]_(Table!vars)
    OBVIOUS
  <2>1. ASSUME NEW obj \in Object, AllocateFreed(obj) \/ AllocateNew(obj)
        PROVE  Table!Next
    BY <2>1, AllocateImplements DEF Table!Next
  <2>2. ASSUME NEW h \in issued, Free(h) PROVE Table!Next
    BY <2>2, FreeImplements DEF Table!Next
  <2>3. CASE Reset
    BY <2>3, ResetImplements DEF Table!Next
  <2>4. CASE UNCHANGED vars
    BY <2>4 DEF vars, Table!vars, Named, Translates
  <2> QED BY <2>1, <2>2, <2>3, <2>4 DEF Next
<1> QED BY <1>1, <1>2, SpecInv, PTL DEF Spec, ImplementsTable, Table!Spec
=============================================================================
