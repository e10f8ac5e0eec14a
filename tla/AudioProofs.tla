---------------------------- MODULE AudioProofs ----------------------------
(***************************************************************************)
(* Proofs about AudioPath, for a FIFO, a period and batches of any size.   *)
(***************************************************************************)
EXTENDS AudioPath, SequenceTheorems, TLAPS

-----------------------------------------------------------------------------
(* Indexes only ever run past the end once, so % is one subtraction.       *)
LEMMA Position ==
  ASSUME NEW p \in Slots, NEW k \in 0..Size
  PROVE  /\ (p + k) % Size = IF p + k < Size THEN p + k ELSE p + k - Size
         /\ (p + k) % Size \in Slots
<1>1. p + k \in 0..(2 * Size - 1) /\ p \in 0..(Size - 1) /\ k \in Nat
  BY FifoAssumption DEF Slots
<1>2. CASE p + k < Size
  BY <1>1, <1>2, FifoAssumption DEF Slots
<1>3. CASE p + k >= Size
  BY <1>1, <1>3, FifoAssumption DEF Slots
<1> QED BY <1>1, <1>2, <1>3, FifoAssumption

(* Moving on twice is moving on by the sum.                                *)
LEMMA Further ==
  ASSUME NEW p \in Slots, NEW k \in 0..Size, NEW n \in 0..(Size - k)
  PROVE  (((p + k) % Size) + n) % Size = (p + (k + n)) % Size
<1> DEFINE q == (p + k) % Size
<1>1. k + n \in 0..Size /\ n \in 0..Size /\ p \in 0..(Size - 1) /\ k \in Nat
  BY FifoAssumption DEF Slots
<1>2. /\ q = IF p + k < Size THEN p + k ELSE p + k - Size
      /\ q \in Slots
  BY Position
<1> HIDE DEF q
<1>3. (q + n) % Size = IF q + n < Size THEN q + n ELSE q + n - Size
  BY <1>1, <1>2, Position
<1> DEFINE j == k + n
<1>4. j \in 0..Size
  BY <1>1
<1>5. (p + j) % Size = IF p + j < Size THEN p + j ELSE p + j - Size
  <2> HIDE DEF j
  <2> QED BY <1>4, Position
<1>6. (q + n) % Size = (p + j) % Size
  BY <1>1, <1>2, <1>3, <1>5, FifoAssumption
<1> QED BY <1>6 DEF q

(* Where the next sample goes: right behind the newest one.                *)
Placed == last = (first + Occupied) % Size

(* What makes the FIFO safe: types, the sizes seen are still good, and     *)
(* the write index follows the occupied part.                              *)
FifoInv == TypeOK /\ NoOverrun /\ Placed

LEMMA SendSizeFits ==
  ASSUME FifoInv, main = "resample", NEW outLen \in 0..MaxBatch
  PROVE  SendSize(outLen) \in 0..avail
<1>1. /\ outLen - (outLen % 2) \in Nat
      /\ room \in Nat /\ avail \in Nat /\ room <= avail
  BY AudioAssumption, FifoAssumption DEF FifoInv, TypeOK, NoOverrun
<1> QED BY <1>1 DEF SendSize, AtMost

LEMMA ReadSizeFits ==
  ASSUME FifoInv, thread = "copy"
  PROVE  ReadSize \in 0..Occupied
BY AudioAssumption, FifoAssumption
   DEF FifoInv, TypeOK, NoOverrun, ReadSize, AtMost, Occupied

LEMMA BatchType ==
  ASSUME NEW n \in Nat, frame \in 0..(Cycle - 1)
  PROVE  /\ Q!Batch(n) \in [1..n -> Q!Sample]
         /\ Q!Batch(n) \in Seq(Q!Sample)
         /\ Len(Q!Batch(n)) = n
         /\ (frame + (n + 1) \div 2) % Cycle \in 0..(Cycle - 1)
<1>1. ASSUME NEW k \in 1..n
      PROVE  (frame + (k - 1) \div 2) % Cycle \in 0..(Cycle - 1)
  BY AudioAssumption
<1>2. Q!Batch(n) \in [1..n -> Q!Sample]
  BY <1>1 DEF Q!Batch, Q!Sample, Q!Channel
<1> QED BY <1>2, AudioAssumption

-----------------------------------------------------------------------------
(* Writing n samples that fit, as seen from the queue.                     *)
LEMMA WriteKeeps ==
  ASSUME FifoInv, NEW n \in 0..avail, Write(Q!Batch(n)), first' = first
  PROVE  /\ buffer' \in [Slots -> Q!Sample \union {Junk}]
         /\ last' \in Slots
         /\ avail' = avail - n
         /\ Placed'
<1> DEFINE head == AtMost(n, Size - last)
<1>1. n \in Nat /\ Len(Q!Batch(n)) = n /\ Q!Batch(n) \in [1..n -> Q!Sample]
  BY BatchType, FifoAssumption DEF FifoInv, TypeOK
<1>2. /\ head \in 0..n /\ last + head <= Size
      /\ last \in 0..(Size - 1) /\ avail \in 0..Size /\ first \in 0..(Size - 1)
  BY <1>1, FifoAssumption DEF FifoInv, TypeOK, Slots, AtMost
<1>3. ASSUME NEW i \in Slots
      PROVE  (IF i < n - head THEN Q!Batch(n)[head + i + 1]
              ELSE IF i \in last..(last + head - 1)
                   THEN Q!Batch(n)[i - last + 1]
                   ELSE buffer[i]) \in Q!Sample \union {Junk}
  <2> HIDE DEF head
  <2>1. CASE i < n - head
    BY <2>1, <1>1, <1>2, FifoAssumption DEF Slots
  <2>2. CASE ~(i < n - head) /\ i \in last..(last + head - 1)
    BY <2>2, <1>1, <1>2, FifoAssumption DEF Slots
  <2>3. CASE ~(i < n - head) /\ i \notin last..(last + head - 1)
    BY <2>3 DEF FifoInv, TypeOK
  <2> QED BY <2>1, <2>2, <2>3
<1>4. buffer' \in [Slots -> Q!Sample \union {Junk}]
  BY <1>1, <1>3 DEF Write
<1>5. last' = (last + n) % Size /\ avail' = avail - n
  BY <1>1 DEF Write
<1>6. last' = (first + Occupied') % Size
  <2>1. /\ Occupied' = Occupied + n /\ Occupied \in 0..Size
        /\ n \in 0..(Size - Occupied) /\ first \in Slots
    BY <1>2, <1>5, FifoAssumption DEF Occupied, Slots
  <2>2. last' = (((first + Occupied) % Size) + n) % Size
    BY <1>5 DEF FifoInv, Placed
  <2> QED BY <2>1, <2>2, Further
<1>7. last' \in Slots
  BY <1>2, <1>5, FifoAssumption DEF Slots
<1> QED BY <1>4, <1>5, <1>6, <1>7 DEF Placed

LEMMA ReadKeeps ==
  ASSUME FifoInv, NEW n \in 0..Occupied, Read(n)
  PROVE  /\ first' \in Slots
         /\ avail' = avail + n
         /\ avail' \in 0..Size
         /\ Placed'
<1>1. /\ last \in 0..(Size - 1) /\ avail \in 0..Size /\ first \in 0..(Size - 1)
      /\ n <= Size - avail
  BY FifoAssumption DEF FifoInv, TypeOK, Slots, Occupied
<1>2. first' = (first + n) % Size /\ avail' = avail + n /\ last' = last
  BY DEF Read
<1>3. first' \in Slots /\ avail' \in 0..Size
  BY <1>1, <1>2, FifoAssumption DEF Slots
<1>4. last = (first' + Occupied') % Size
  <2>1. /\ Occupied' \in 0..(Size - n) /\ Occupied = n + Occupied'
        /\ n \in 0..Size /\ first \in Slots
    BY <1>1, <1>2, FifoAssumption DEF Occupied, Slots
  <2>2. last = (first + (n + Occupied')) % Size
    BY <2>1 DEF FifoInv, Placed
  <2>3. (((first + n) % Size) + Occupied') % Size = (first + (n + Occupied')) % Size
    BY <2>1, Further
  <2> QED BY <1>2, <2>2, <2>3
<1> QED BY <1>2, <1>3, <1>4 DEF Placed

-----------------------------------------------------------------------------
THEOREM InitInv == Init => FifoInv
BY FifoAssumption, AudioAssumption
   DEF Init, FifoInit, FifoInv, TypeOK, NoOverrun, Placed, Occupied, Slots,
       Q!Sample

(* A step that touches neither the FIFO nor the two sizes seen.            *)
LEMMA AsideInv ==
  ASSUME FifoInv, UNCHANGED <<fifoVars, room, ready, thread, frame>>,
         main' \in {"start", "opened", "allocated", "starting", "loop",
                    "closing", "closed", "undo", "undone", "gone"}
                   \union {main},
         device' \in {"closed", "paused", "playing", "closing"} \union {device},
         alive' \in BOOLEAN
  PROVE  FifoInv'
BY DEF FifoInv, TypeOK, NoOverrun, Placed, Occupied, fifoVars, Slots

LEMMA FlushAsksInv ==
  ASSUME FifoInv, FlushAsks
  PROVE  FifoInv'
BY FifoAssumption
   DEF FlushAsks, MainGoes, FifoInv, TypeOK, NoOverrun, Placed, Occupied,
       fifoVars, threadVars, Slots

LEMMA FlushWritesInv ==
  ASSUME FifoInv, FlushWrites
  PROVE  FifoInv'
<1>1. PICK outLen \in 0..MaxBatch :
        /\ Write(Q!Batch(SendSize(outLen)))
        /\ frame' = (frame + (SendSize(outLen) + 1) \div 2) % Cycle
  BY DEF FlushWrites
<1> DEFINE n == SendSize(outLen)
<1>2. n \in 0..avail
  BY SendSizeFits DEF FlushWrites, MainGoes
<1> HIDE DEF n
<1>3. Write(Q!Batch(n)) /\ first' = first
  BY <1>1 DEF n, FlushWrites
<1>4. /\ buffer' \in [Slots -> Q!Sample \union {Junk}]
      /\ last' \in Slots
      /\ avail' = avail - n
      /\ Placed'
  BY <1>2, <1>3, WriteKeeps
<1>5. frame' \in 0..(Cycle - 1)
  <2>1. n \in Nat /\ frame \in 0..(Cycle - 1)
    BY <1>2, FifoAssumption DEF FifoInv, TypeOK
  <2> QED BY <1>1, <2>1, BatchType DEF n
<1>6. TypeOK'
  BY <1>2, <1>4, <1>5, FifoAssumption
     DEF FlushWrites, MainGoes, FifoInv, TypeOK, threadVars
<1>7. NoOverrun'
  BY <1>2, <1>4, FifoAssumption
     DEF FlushWrites, MainGoes, FifoInv, TypeOK, NoOverrun, Occupied, threadVars
<1> QED BY <1>4, <1>6, <1>7 DEF FifoInv

LEMMA CallbackAsksInv ==
  ASSUME FifoInv, CallbackAsks
  PROVE  FifoInv'
BY FifoAssumption
   DEF CallbackAsks, FifoInv, TypeOK, NoOverrun, Placed, Occupied, fifoVars,
       Slots

LEMMA CallbackReadsInv ==
  ASSUME FifoInv, CallbackReads
  PROVE  FifoInv'
<1> DEFINE n == ReadSize
<1>1. n \in 0..Occupied
  BY ReadSizeFits DEF CallbackReads
<1>2. Read(n)
  BY DEF CallbackReads
<1> HIDE DEF n
<1>3. /\ first' \in Slots
      /\ avail' = avail + n
      /\ avail' \in 0..Size
      /\ Placed'
  BY <1>1, <1>2, ReadKeeps
<1>4. TypeOK'
  BY <1>2, <1>3 DEF CallbackReads, Read, FifoInv, TypeOK
<1>5. NoOverrun'
  BY <1>1, <1>3, FifoAssumption
     DEF CallbackReads, FifoInv, TypeOK, NoOverrun, Occupied
<1> QED BY <1>3, <1>4, <1>5 DEF FifoInv

LEMMA NextInv ==
  ASSUME FifoInv, [Next]_vars
  PROVE  FifoInv'
<1> USE AsideInv DEF MainGoes, threadVars
<1>0. alive \in BOOLEAN
  BY DEF FifoInv, TypeOK
<1>1. CASE OpenDevice   BY <1>0, <1>1 DEF OpenDevice
<1>2. CASE InitFifo     BY <1>0, <1>2 DEF InitFifo
<1>3. CASE StartDevice  BY <1>0, <1>3 DEF StartDevice
<1>4. CASE InitSucceeds BY <1>0, <1>4 DEF InitSucceeds
<1>5. CASE InitFails    BY <1>0, <1>5 DEF InitFails
<1>6. CASE UndoDevice   BY <1>0, <1>6 DEF UndoDevice
<1>7. CASE UndoJoins    BY <1>0, <1>7 DEF UndoJoins
<1>8. CASE FlushAsks    BY <1>8, FlushAsksInv
<1>9. CASE FlushWrites  BY <1>9, FlushWritesInv
<1>10. CASE CloseDevice BY <1>0, <1>10 DEF CloseDevice
<1>11. CASE CloseJoins  BY <1>0, <1>11 DEF CloseJoins
<1>12. CASE DestroyFifo BY <1>0, <1>12 DEF DestroyFifo
<1>13. CASE CallbackAsks  BY <1>13, CallbackAsksInv
<1>14. CASE CallbackReads BY <1>14, CallbackReadsInv
<1>15. CASE UNCHANGED vars
  BY <1>0, <1>15 DEF vars, fifoVars
<1> QED
  BY <1>1, <1>2, <1>3, <1>4, <1>5, <1>6, <1>7, <1>8, <1>9, <1>10, <1>11,
     <1>12, <1>13, <1>14, <1>15 DEF Next, Main, Callback, Gone
(* Sizes, indexes and locals stay in range: _avail never wraps.            *)
THEOREM SpecTypeOK == Spec => []TypeOK
<1>1. Spec => []FifoInv
  BY InitInv, NextInv, PTL DEF Spec
<1>2. FifoInv => TypeOK
  BY DEF FifoInv
<1> QED BY <1>1, <1>2, PTL

(* What one thread has seen stays good until it acts, whatever the other   *)
(* one does in between.                                                    *)
THEOREM SpecNoOverrun == Spec => []NoOverrun
<1>1. Spec => []FifoInv
  BY InitInv, NextInv, PTL DEF Spec
<1>2. FifoInv => NoOverrun
  BY DEF FifoInv
<1> QED BY <1>1, <1>2, PTL

-----------------------------------------------------------------------------
(* Where the main thread is says whether the device may call back, whether *)
(* there is a buffer, and that nothing was written to it before the loop.  *)
Lifetimes ==
  /\ main \in {"start", "opened", "allocated", "closed", "gone"} =>
       device # "playing" /\ thread = "idle"
  /\ main \in {"starting", "loop", "resample", "closing"} => alive
  /\ main = "allocated" => alive
  /\ main \in {"closing", "undone"} => device # "playing"
  /\ main \in {"start", "opened", "allocated", "starting", "undo", "undone"} =>
       avail = Size /\ ready = 0

LEMMA LifetimesStep ==
  ASSUME FifoInv, Lifetimes, [Next]_vars
  PROVE  Lifetimes'
<1> USE DEF MainGoes, fifoVars, threadVars, Lifetimes
<1>0. Size \in Nat /\ Period \in Nat
  BY FifoAssumption, AudioAssumption
<1>1. CASE OpenDevice    BY <1>1 DEF OpenDevice
<1>2. CASE InitFifo      BY <1>2 DEF InitFifo
<1>3. CASE StartDevice   BY <1>3 DEF StartDevice
<1>4. CASE InitSucceeds  BY <1>4 DEF InitSucceeds
<1>5. CASE InitFails     BY <1>5 DEF InitFails
<1>6. CASE UndoDevice    BY <1>6 DEF UndoDevice
<1>7. CASE UndoJoins     BY <1>7 DEF UndoJoins
<1>8. CASE FlushAsks     BY <1>8 DEF FlushAsks
<1>9. CASE FlushWrites   BY <1>9 DEF FlushWrites
<1>10. CASE CloseDevice  BY <1>10 DEF CloseDevice
<1>11. CASE CloseJoins   BY <1>11 DEF CloseJoins
<1>12. CASE DestroyFifo  BY <1>12 DEF DestroyFifo
<1>13. CASE CallbackAsks  BY <1>0, <1>13 DEF CallbackAsks, Occupied
<1>14. CASE CallbackReads
  BY <1>0, <1>14 DEF CallbackReads, Read, ReadSize, AtMost, FifoInv, TypeOK
<1>15. CASE UNCHANGED vars BY <1>15 DEF vars
<1> QED
  BY <1>1, <1>2, <1>3, <1>4, <1>5, <1>6, <1>7, <1>8, <1>9, <1>10, <1>11,
     <1>12, <1>13, <1>14, <1>15 DEF Next, Main, Callback, Gone

LEMMA SpecLifetimes == Spec => [](FifoInv /\ Lifetimes)
<1>1. Init => Lifetimes
  BY DEF Init, FifoInit, Lifetimes
<1>2. FifoInv /\ Lifetimes /\ [Next]_vars => Lifetimes'
  BY LifetimesStep
<1>3. Spec => []FifoInv
  BY InitInv, NextInv, PTL DEF Spec
<1> QED BY <1>1, <1>2, <1>3, PTL DEF Spec

(* The device's thread never copies from a buffer that is not allocated,   *)
(* be it destroy() that frees it or a failed init().                       *)
THEOREM SpecDestroyAfterCallback == Spec => []DestroyAfterCallback
<1>1. FifoInv /\ Lifetimes => DestroyAfterCallback
  BY FifoAssumption, AudioAssumption
     DEF FifoInv, TypeOK, Lifetimes, DestroyAfterCallback, ReadSize, AtMost
<1> QED BY <1>1, SpecLifetimes, PTL

-----------------------------------------------------------------------------
(* A teardown, whether of destroy() or of a failed init(), step by step:   *)
(* the join waits for the callback that runs, and no other begins.         *)
Copying(m) == main = m /\ thread = "copy"
Joining(m) == main = m /\ thread = "idle"

LEMMA TeardownSteps ==
  ASSUME FifoInv, Lifetimes, [Next]_vars
  PROVE  /\ \A m \in {"closing", "undone"} :
              /\ Copying(m) => Copying(m)' \/ Joining(m)'
              /\ Copying(m) /\ CallbackReads => Joining(m)'
         /\ Joining("closing") => Joining("closing")' \/ (main = "closed")'
         /\ Joining("undone") => Joining("undone")' \/ (main = "gone")'
         /\ main = "closed" => (main = "closed" \/ main = "gone")'
         /\ main = "undo" => (main = "undo" \/ Copying("undone") \/ Joining("undone"))'
         /\ Main =>
              /\ Joining("closing") => (main = "closed")'
              /\ Joining("undone") => (main = "gone")'
              /\ main = "closed" => (main = "gone")'
              /\ main = "undo" => (Copying("undone") \/ Joining("undone"))'
<1> USE DEF Copying, Joining, MainGoes, Lifetimes
<1>1. thread \in {"idle", "copy"}
  BY DEF FifoInv, TypeOK
<1>2. CASE Main
  BY <1>1, <1>2
     DEF Main, OpenDevice, InitFifo, StartDevice, InitSucceeds, InitFails,
         UndoDevice, UndoJoins, FlushAsks, FlushWrites, CloseDevice, CloseJoins,
         DestroyFifo, CallbackReads, threadVars
<1>3. CASE CallbackAsks
  BY <1>1, <1>3
     DEF CallbackAsks, CallbackReads, Main, OpenDevice, InitFifo, StartDevice,
         InitSucceeds, InitFails, UndoDevice, UndoJoins, FlushAsks, FlushWrites,
         CloseDevice, CloseJoins, DestroyFifo
<1>4. CASE CallbackReads
  BY <1>1, <1>4
     DEF CallbackReads, Main, OpenDevice, InitFifo, StartDevice, InitSucceeds,
         InitFails, UndoDevice, UndoJoins, FlushAsks, FlushWrites, CloseDevice,
         CloseJoins, DestroyFifo
<1>5. CASE UNCHANGED vars
  BY <1>1, <1>5
     DEF vars, CallbackReads, Main, OpenDevice, InitFifo, StartDevice,
         InitSucceeds, InitFails, UndoDevice, UndoJoins, FlushAsks, FlushWrites,
         CloseDevice, CloseJoins, DestroyFifo
<1> QED BY <1>2, <1>3, <1>4, <1>5 DEF Next, Callback, Gone

(* What ENABLED has to say of the two threads, which the prover cannot     *)
(* work out: a callback that has begun can go on, and so can the main      *)
(* thread, but in the two joins while a callback runs.                     *)
ThreadsGoOn ==
  /\ thread = "copy" => ENABLED <<CallbackReads>>_vars
  /\ (main # "gone" /\ (main \in {"closing", "undone"} => thread = "idle"))
       => ENABLED <<Main>>_vars

(* Every teardown ends, given that the threads can go on: each of its      *)
(* steps leads to the next one.                                            *)
THEOREM SpecTeardownEnds == Spec /\ []ThreadsGoOn => TeardownEnds
<1> DEFINE Inv == FifoInv /\ Lifetimes
<1>1. Inv /\ [Next]_vars =>
        /\ Copying("closing") => Copying("closing")' \/ Joining("closing")'
        /\ Copying("undone") => Copying("undone")' \/ Joining("undone")'
        /\ Joining("closing") => Joining("closing")' \/ (main = "closed")'
        /\ Joining("undone") => Joining("undone")' \/ (main = "gone")'
        /\ main = "closed" => (main = "closed")' \/ (main = "gone")'
        /\ main = "undo" => (main = "undo")' \/ Copying("undone")' \/ Joining("undone")'
  BY TeardownSteps
<1>2. Inv /\ <<CallbackReads>>_vars =>
        /\ Copying("closing") => Joining("closing")'
        /\ Copying("undone") => Joining("undone")'
  BY TeardownSteps DEF Next, Callback
<1>3. Inv /\ <<Main>>_vars =>
        /\ Joining("closing") => (main = "closed")'
        /\ Joining("undone") => (main = "gone")'
        /\ main = "closed" => (main = "gone")'
        /\ main = "undo" => Copying("undone")' \/ Joining("undone")'
  BY TeardownSteps DEF Next
<1>4. ThreadsGoOn =>
        /\ Copying("closing") \/ Copying("undone") => ENABLED <<CallbackReads>>_vars
        /\ Joining("closing") \/ Joining("undone") \/ main \in {"closed", "undo"}
             => ENABLED <<Main>>_vars
  BY DEF ThreadsGoOn, Copying, Joining
<1>5. /\ main \in {"closed", "undo"} <=> main = "closed" \/ main = "undo"
      /\ main \in {"closing", "undo"} <=> main = "closing" \/ main = "undo"
      /\ Inv /\ main = "closing" => Copying("closing") \/ Joining("closing")
  BY DEF FifoInv, TypeOK, Copying, Joining
<1> HIDE DEF Inv
<1>6. Spec => []Inv
  BY SpecLifetimes DEF Inv
<1> QED BY <1>1, <1>2, <1>3, <1>4, <1>5, <1>6, PTL DEF Spec, TeardownEnds

-----------------------------------------------------------------------------
(* The ring buffer as a sequence: o samples from position f on.            *)
Ring(b, f, o) == [k \in 1..o |-> b[(f + k - 1) % Size]]

Stored == Q!Sample \union {Junk}

LEMMA RingIsSeq ==
  ASSUME NEW b \in [Slots -> Stored], NEW f \in Slots, NEW o \in 0..Size
  PROVE  /\ Ring(b, f, o) \in Seq(Stored)
         /\ Len(Ring(b, f, o)) = o
         /\ \A k \in 1..o :
              /\ Ring(b, f, o)[k] = b[(f + k - 1) % Size]
              /\ (f + k - 1) % Size \in Slots
              /\ (f + k - 1) % Size = IF f + k - 1 < Size THEN f + k - 1
                                                          ELSE f + k - 1 - Size
<1>1. ASSUME NEW k \in 1..o
      PROVE  /\ (f + k - 1) % Size \in Slots
             /\ (f + k - 1) % Size = IF f + k - 1 < Size THEN f + k - 1
                                                         ELSE f + k - 1 - Size
  <2>1. k - 1 \in 0..Size /\ f + (k - 1) = f + k - 1
    BY FifoAssumption DEF Slots
  <2> QED BY <2>1, Position
<1>2. Ring(b, f, o) \in [1..o -> Stored]
  BY <1>1 DEF Ring
<1> QED BY <1>1, <1>2, FifoAssumption DEF Ring

LEMMA ContentsIsRing ==
  ASSUME FifoInv
  PROVE  /\ Contents = Ring(buffer, first, Occupied)
         /\ buffer \in [Slots -> Stored]
         /\ first \in Slots
         /\ last \in 0..(Size - 1)
         /\ Occupied \in 0..Size
         /\ avail = Size - Occupied
BY FifoAssumption DEF FifoInv, TypeOK, Occupied, Contents, Ring, Stored, Slots

(* Writing appends.                                                        *)
LEMMA WriteAppends ==
  ASSUME FifoInv, NEW n \in 0..avail, Write(Q!Batch(n)), first' = first
  PROVE  Contents' = Contents \o Q!Batch(n)
<1> DEFINE data == Q!Batch(n)
           head == AtMost(n, Size - last)
           old == Ring(buffer, first, Occupied)
           new == Ring(buffer', first, Occupied + n)
<1>1. /\ data \in Seq(Stored) /\ Len(data) = n /\ n \in Nat
  <2>1. n \in Nat /\ frame \in 0..(Cycle - 1)
    BY FifoAssumption DEF FifoInv, TypeOK
  <2>2. data \in Seq(Q!Sample) /\ Len(data) = n
    BY <2>1, BatchType
  <2> QED BY <2>1, <2>2, SeqMonotonic DEF Stored
<1>2. /\ Contents = old
      /\ buffer \in [Slots -> Stored]
      /\ first \in Slots /\ first \in 0..(Size - 1)
      /\ last \in 0..(Size - 1)
      /\ Occupied \in 0..Size
      /\ n \in 0..(Size - Occupied)
  BY ContentsIsRing DEF Slots
<1>3. buffer' \in [Slots -> Stored] /\ avail' = avail - n
  BY WriteKeeps DEF Stored
<1>4. Contents' = new
  <2>1. Occupied' = Occupied + n
    BY <1>1, <1>3, FifoAssumption DEF FifoInv, TypeOK, Occupied
  <2> QED BY <2>1 DEF Contents, Ring
<1>5. Occupied + n \in 0..Size
  BY <1>2, FifoAssumption
<1>6. ASSUME NEW i \in Slots
      PROVE  buffer'[i] = IF i < n - head THEN data[head + i + 1]
                          ELSE IF i \in last..(last + head - 1)
                               THEN data[i - last + 1]
                               ELSE buffer[i]
  BY <1>1 DEF Write
<1>7. last = IF first + Occupied < Size THEN first + Occupied
                                        ELSE first + Occupied - Size
  BY <1>2, Position DEF FifoInv, Placed
<1>8. head = IF n <= Size - last THEN n ELSE Size - last
  BY DEF AtMost
<1> HIDE DEF data, head
<1>9. ASSUME NEW k \in 1..(Occupied + n)
      PROVE  new[k] = IF k <= Len(old) THEN old[k] ELSE data[k - Len(old)]
  <2> DEFINE i == (first + k - 1) % Size
  <2>1. /\ new[k] = buffer'[i] /\ i \in Slots
        /\ i = IF first + k - 1 < Size THEN first + k - 1
                                       ELSE first + k - 1 - Size
    BY <1>2, <1>3, <1>5, RingIsSeq
  <2>2. Len(old) = Occupied
    BY <1>2, RingIsSeq
  <2>3. i \in 0..(Size - 1)
    BY <2>1 DEF Slots
  <2>4. CASE k <= Occupied
    <3>1. old[k] = buffer[i]
      BY <1>2, <2>4, RingIsSeq
    <3> HIDE DEF i
    <3>2. ~(i < n - head) /\ i \notin last..(last + head - 1)
      BY <2>1, <2>3, <2>4, <1>2, <1>7, <1>8, FifoAssumption
    <3> QED BY <2>1, <2>2, <2>4, <3>1, <3>2, <1>6
  <2>5. CASE k > Occupied
    <3> HIDE DEF i
    <3>1. CASE i < n - head
      <4>1. head + i + 1 = k - Occupied
        BY <2>1, <2>3, <2>5, <3>1, <1>2, <1>7, <1>8, FifoAssumption
      <4> QED BY <2>1, <2>2, <2>5, <3>1, <4>1, <1>2, <1>6, FifoAssumption
    <3>2. CASE ~(i < n - head)
      <4>1. i \in last..(last + head - 1) /\ i - last + 1 = k - Occupied
        BY <2>1, <2>3, <2>5, <3>2, <1>2, <1>7, <1>8, FifoAssumption
      <4> QED BY <2>1, <2>2, <2>5, <3>2, <4>1, <1>2, <1>6, FifoAssumption
    <3> QED BY <3>1, <3>2
  <2> QED BY <2>4, <2>5, <1>2, FifoAssumption
<1>10. /\ old \in Seq(Stored) /\ Len(old) = Occupied
       /\ new \in Seq(Stored) /\ Len(new) = Occupied + n
  BY <1>2, <1>3, <1>5, RingIsSeq
<1> HIDE DEF old, new
<1>11. /\ old \o data \in Seq(Stored)
       /\ Len(old \o data) = Occupied + n
       /\ \A k \in 1..(Occupied + n) :
            (old \o data)[k] = IF k <= Len(old) THEN old[k]
                                                ELSE data[k - Len(old)]
  BY <1>1, <1>10, ConcatProperties
<1>12. new = old \o data
  BY <1>9, <1>10, <1>11, SeqEqual
<1> QED BY <1>2, <1>4, <1>12 DEF data

(* Reading takes from the head.                                            *)
LEMMA ReadTakes ==
  ASSUME FifoInv, NEW n \in 0..Occupied, Read(n)
  PROVE  /\ ReadData(n) = SubSeq(Contents, 1, n)
         /\ Contents' = SubSeq(Contents, n + 1, Occupied)
<1> DEFINE old == Ring(buffer, first, Occupied)
           f == (first + n) % Size
           new == Ring(buffer, f, Occupied - n)
           head == AtMost(n, Size - first)
<1>1. /\ Contents = old
      /\ buffer \in [Slots -> Stored]
      /\ first \in Slots /\ first \in 0..(Size - 1)
      /\ Occupied \in 0..Size /\ avail = Size - Occupied
      /\ n \in 0..Size /\ n \in Nat
      /\ Occupied - n \in 0..Size
  BY ContentsIsRing, FifoAssumption DEF Slots
<1>2. f \in Slots /\ f = IF first + n < Size THEN first + n ELSE first + n - Size
  BY <1>1, Position
<1>3. Contents' = new
  <2>1. Occupied' = Occupied - n
    BY <1>1, FifoAssumption DEF Read, Occupied
  <2>2. buffer' = buffer /\ first' = f
    BY DEF Read
  <2> QED BY <2>1, <2>2 DEF Contents, Ring
<1> HIDE DEF f
<1>4. /\ old \in Seq(Stored) /\ Len(old) = Occupied
      /\ new \in Seq(Stored) /\ Len(new) = Occupied - n
      /\ \A k \in 1..Occupied : old[k] \in Stored
  BY <1>1, <1>2, RingIsSeq, ElementOfSeq
<1>5. ASSUME NEW k \in 1..(Occupied - n)
      PROVE  new[k] = old[n + 1 + k - 1]
  <2> DEFINE j == n + k
  <2>1. j \in 1..Occupied /\ j = n + 1 + k - 1
    BY <1>1
  <2>2. /\ new[k] = buffer[(f + k - 1) % Size]
        /\ (f + k - 1) % Size = IF f + k - 1 < Size THEN f + k - 1
                                                    ELSE f + k - 1 - Size
    BY <1>1, <1>2, RingIsSeq
  <2>3. /\ old[j] = buffer[(first + j - 1) % Size]
        /\ (first + j - 1) % Size = IF first + j - 1 < Size THEN first + j - 1
                                                    ELSE first + j - 1 - Size
    <3> HIDE DEF j
    <3> QED BY <1>1, <2>1, RingIsSeq
  <2>4. (IF f + k - 1 < Size THEN f + k - 1 ELSE f + k - 1 - Size)
          = (IF first + j - 1 < Size THEN first + j - 1 ELSE first + j - 1 - Size)
    BY <1>1, <1>2, FifoAssumption DEF Slots
  <2> QED BY <2>1, <2>2, <2>3, <2>4
<1>6. ASSUME NEW k \in 1..n
      PROVE  ReadData(n)[k] = old[k]
  <2>1. /\ old[k] = buffer[(first + k - 1) % Size]
        /\ (first + k - 1) % Size = IF first + k - 1 < Size THEN first + k - 1
                                                    ELSE first + k - 1 - Size
    <3>1. k \in 1..Occupied
      BY <1>1
    <3> QED BY <3>1, <1>1, RingIsSeq
  <2>2. ReadData(n)[k] = IF k <= head THEN buffer[first + k - 1]
                                      ELSE buffer[k - head - 1]
    BY DEF ReadData
  <2>3. head = IF n <= Size - first THEN n ELSE Size - first
    BY DEF AtMost
  <2> HIDE DEF head
  <2>4. CASE k <= head
    BY <2>1, <2>2, <2>3, <2>4, <1>1, FifoAssumption
  <2>5. CASE ~(k <= head)
    <3>1. k - head - 1 = (first + k - 1) % Size
      BY <2>1, <2>3, <2>5, <1>1, FifoAssumption
    <3> QED BY <2>1, <2>2, <2>5, <3>1
  <2> QED BY <2>4, <2>5
<1>7. /\ SubSeq(old, 1, n) \in Seq(Stored) /\ Len(SubSeq(old, 1, n)) = n
      /\ \A k \in 1..n : SubSeq(old, 1, n)[k] = old[k]
      /\ SubSeq(old, n + 1, Occupied) \in Seq(Stored)
      /\ Len(SubSeq(old, n + 1, Occupied)) = Occupied - n
      /\ \A k \in 1..(Occupied - n) :
           SubSeq(old, n + 1, Occupied)[k] = old[n + 1 + k - 1]
  <2> HIDE DEF old
  <2>1. /\ 1 \in Int /\ n \in Int /\ n + 1 \in Int /\ Occupied \in Int
        /\ \A i \in 1..n : old[i] \in Stored
        /\ \A i \in (n + 1)..Occupied : old[i] \in Stored
    BY <1>1, <1>4
  <2>2. /\ SubSeq(old, 1, n) \in Seq(Stored)
        /\ Len(SubSeq(old, 1, n)) = IF 1 <= n THEN n - 1 + 1 ELSE 0
        /\ \A k \in 1..(n - 1 + 1) : SubSeq(old, 1, n)[k] = old[1 + k - 1]
    BY <2>1, SubSeqProperties
  <2>3. /\ SubSeq(old, n + 1, Occupied) \in Seq(Stored)
        /\ Len(SubSeq(old, n + 1, Occupied)) =
             IF n + 1 <= Occupied THEN Occupied - (n + 1) + 1 ELSE 0
        /\ \A k \in 1..(Occupied - (n + 1) + 1) :
             SubSeq(old, n + 1, Occupied)[k] = old[n + 1 + k - 1]
    BY <2>1, SubSeqProperties
  <2> QED BY <2>2, <2>3, <1>1
<1>8. ReadData(n) \in [1..n -> Stored]
  BY <1>1, <1>4, <1>6 DEF ReadData
<1> HIDE DEF old, new
<1>9. new = SubSeq(old, n + 1, Occupied)
  <2> DEFINE t == SubSeq(old, n + 1, Occupied)
  <2>1. t \in Seq(Stored) /\ Len(t) = Len(new)
    BY <1>4, <1>7
  <2>2. \A k \in 1..Len(new) : new[k] = t[k]
    BY <1>4, <1>5, <1>7
  <2> HIDE DEF t
  <2>3. new = t
    BY <1>4, <2>1, <2>2, SeqEqual
  <2> QED BY <2>3 DEF t
<1>10. ReadData(n) = SubSeq(old, 1, n)
  <2> DEFINE t == SubSeq(old, 1, n)
             r == ReadData(n)
  <2>1. r \in Seq(Stored) /\ Len(r) = n
    BY <1>1, <1>8
  <2>2. t \in Seq(Stored) /\ Len(t) = Len(r)
    BY <1>7, <2>1
  <2>3. \A k \in 1..Len(r) : r[k] = t[k]
    BY <1>6, <1>7, <2>1
  <2> HIDE DEF t, r
  <2>4. r = t
    BY <2>1, <2>2, <2>3, SeqEqual
  <2> QED BY <2>4 DEF t, r
<1> QED BY <1>1, <1>3, <1>9, <1>10

-----------------------------------------------------------------------------
THEOREM InitImplements == Init => Q!Init
<1> SUFFICES ASSUME Init PROVE Q!Init
  OBVIOUS
<1>1. FifoInv /\ Occupied = 0 /\ heard = <<>> /\ frame = 0
  BY InitInv, FifoAssumption DEF Init, FifoInit, Occupied
<1>2. Contents \in Seq(Stored) /\ Len(Contents) = 0
  BY <1>1, ContentsIsRing, RingIsSeq
<1>3. Contents = <<>>
  BY <1>2, EmptySeq
<1> QED BY <1>1, <1>3 DEF Q!Init

LEMMA FlushWritesPuts ==
  ASSUME FifoInv, FlushWrites
  PROVE  Q!Put
<1>1. PICK outLen \in 0..MaxBatch :
        /\ Write(Q!Batch(SendSize(outLen)))
        /\ frame' = (frame + (SendSize(outLen) + 1) \div 2) % Cycle
  BY DEF FlushWrites
<1> DEFINE n == SendSize(outLen)
<1>2. n \in 0..avail
  BY SendSizeFits DEF FlushWrites, MainGoes
<1>3. frame' = (frame + (n + 1) \div 2) % Cycle
  BY <1>1
<1> HIDE DEF n
<1>4. Contents' = Contents \o Q!Batch(n)
  <2>1. Write(Q!Batch(n)) /\ first' = first
    BY <1>1 DEF n, FlushWrites
  <2> QED BY <1>2, <2>1, WriteAppends
<1>5. n \in 0..(Size - Len(Contents))
  BY <1>2, ContentsIsRing, RingIsSeq, FifoAssumption
<1>6. heard' = heard
  BY DEF FlushWrites, threadVars
<1> QED BY <1>3, <1>4, <1>5, <1>6 DEF Q!Put

LEMMA CallbackReadsGets ==
  ASSUME FifoInv, CallbackReads
  PROVE  Q!Get
<1> DEFINE n == ReadSize
<1>1. n \in 0..Occupied
  BY ReadSizeFits DEF CallbackReads
<1>2. Read(n) /\ heard' = ReadData(n) /\ frame' = frame
  BY DEF CallbackReads
<1> HIDE DEF n
<1>3. /\ ReadData(n) = SubSeq(Contents, 1, n)
      /\ Contents' = SubSeq(Contents, n + 1, Occupied)
  BY <1>1, <1>2, ReadTakes
<1>4. Len(Contents) = Occupied
  BY ContentsIsRing, RingIsSeq
<1> QED BY <1>1, <1>2, <1>3, <1>4 DEF Q!Get

LEMMA AsideStutters ==
  ASSUME UNCHANGED <<buffer, first, avail, heard, frame>>
  PROVE  UNCHANGED Q!vars
BY DEF Q!vars, Contents, Occupied

LEMMA NextImplements ==
  ASSUME FifoInv, [Next]_vars
  PROVE  [Q!Next]_Q!vars
<1> USE AsideStutters DEF threadVars, fifoVars
<1>1. CASE FlushWrites   BY <1>1, FlushWritesPuts DEF Q!Next
<1>2. CASE CallbackReads BY <1>2, CallbackReadsGets DEF Q!Next
<1>3. CASE OpenDevice    BY <1>3 DEF OpenDevice
<1>4. CASE InitFifo      BY <1>4 DEF InitFifo
<1>5. CASE StartDevice   BY <1>5 DEF StartDevice
<1>6. CASE InitSucceeds  BY <1>6 DEF InitSucceeds
<1>7. CASE InitFails     BY <1>7 DEF InitFails
<1>8. CASE UndoDevice    BY <1>8 DEF UndoDevice
<1>9. CASE UndoJoins     BY <1>9 DEF UndoJoins
<1>10. CASE FlushAsks    BY <1>10 DEF FlushAsks
<1>11. CASE CloseDevice  BY <1>11 DEF CloseDevice
<1>12. CASE CloseJoins   BY <1>12 DEF CloseJoins
<1>13. CASE DestroyFifo  BY <1>13 DEF DestroyFifo
<1>14. CASE CallbackAsks BY <1>14 DEF CallbackAsks
<1>15. CASE UNCHANGED vars BY <1>15 DEF vars
<1> QED
  BY <1>1, <1>2, <1>3, <1>4, <1>5, <1>6, <1>7, <1>8, <1>9, <1>10, <1>11,
     <1>12, <1>13, <1>14, <1>15 DEF Next, Main, Callback, Gone

(* Two threads that ask and act in separate critical sections, on indexes  *)
(* that wrap: what comes out is what went in, in order, each sample once.  *)
THEOREM SpecImplementsQueue == Spec => ImplementsQueue
<1>1. Spec => []FifoInv
  BY InitInv, NextInv, PTL DEF Spec
<1> QED
  BY <1>1, InitImplements, NextImplements, PTL
     DEF Spec, ImplementsQueue, Q!Spec
-----------------------------------------------------------------------------
Side(k) == IF k % 2 = 1 THEN "L" ELSE "R"

(* Everything that moves is a whole number of frames, and the queue starts *)
(* with a left sample.                                                     *)
Aligned ==
  /\ Occupied % 2 = 0
  /\ main = "resample" => room % 2 = 0
  /\ thread = "copy" => ready % 2 = 0
  /\ \A k \in 1..Occupied : Contents[k] \in Q!Sample /\ Contents[k][1] = Side(k)
  /\ StereoAligned

LEMMA BatchAligned ==
  ASSUME NEW n \in Nat, FifoInv, NEW k \in 1..n
  PROVE  Q!Batch(n)[k] \in Q!Sample /\ Q!Batch(n)[k][1] = Side(k)
<1>1. Q!Batch(n) \in [1..n -> Q!Sample]
  BY BatchType DEF FifoInv, TypeOK
<1> QED BY <1>1 DEF Q!Batch, Side

LEMMA SideShift ==
  ASSUME NEW m \in Nat, m % 2 = 0, NEW k \in Nat
  PROVE  Side(m + k) = Side(k)
BY DEF Side

LEMMA InitAligned == Init => Aligned
<1> SUFFICES ASSUME Init PROVE Aligned
  OBVIOUS
<1>1. Occupied = 0 /\ main = "start" /\ thread = "idle" /\ heard = <<>>
  BY FifoAssumption DEF Init, FifoInit, Occupied
<1> QED BY <1>1 DEF Aligned, StereoAligned

LEMMA FlushAsksAligned ==
  ASSUME FifoInv, Aligned, FlushAsks
  PROVE  Aligned'
<1>1. room' = Size - Occupied /\ Occupied \in 0..Size
  BY ContentsIsRing, FifoAssumption DEF FlushAsks
<1>2. room' % 2 = 0
  BY <1>1, FifoAssumption, StereoAssumption DEF Aligned
<1> QED
  BY <1>2 DEF Aligned, StereoAligned, FlushAsks, MainGoes, fifoVars, threadVars,
              Contents, Occupied

LEMMA FlushWritesAligned ==
  ASSUME FifoInv, Aligned, FlushWrites
  PROVE  Aligned'
<1>1. PICK outLen \in 0..MaxBatch : Write(Q!Batch(SendSize(outLen)))
  BY DEF FlushWrites
<1> DEFINE n == SendSize(outLen)
<1>2. n \in 0..avail /\ n \in Nat /\ avail \in 0..Size
  BY SendSizeFits, FifoAssumption DEF FlushWrites, MainGoes, FifoInv, TypeOK
<1>3. n % 2 = 0
  <2>1. room % 2 = 0 /\ room \in Nat
    BY FifoAssumption DEF FlushWrites, MainGoes, Aligned, FifoInv, TypeOK
  <2>2. outLen - (outLen % 2) \in Nat /\ (outLen - (outLen % 2)) % 2 = 0
    BY AudioAssumption
  <2> QED BY <2>1, <2>2 DEF SendSize, AtMost
<1> HIDE DEF n
<1>4. Write(Q!Batch(n)) /\ first' = first
  BY <1>1 DEF n, FlushWrites
<1>5. Contents' = Contents \o Q!Batch(n) /\ avail' = avail - n
  BY <1>2, <1>4, WriteAppends, WriteKeeps
<1>6. Occupied' = Occupied + n /\ Occupied \in Nat
  BY <1>2, <1>5, FifoAssumption DEF Occupied
<1>7. /\ Contents \in Seq(Stored) /\ Len(Contents) = Occupied
      /\ Q!Batch(n) \in Seq(Stored) /\ Len(Q!Batch(n)) = n
  <2>1. Q!Batch(n) \in Seq(Q!Sample) /\ Len(Q!Batch(n)) = n
    BY <1>2, BatchType DEF FifoInv, TypeOK
  <2> QED BY <2>1, SeqMonotonic, ContentsIsRing, RingIsSeq DEF Stored
<1>8. ASSUME NEW k \in 1..Occupied'
      PROVE  Contents'[k] \in Q!Sample /\ Contents'[k][1] = Side(k)
  <2>1. Contents'[k] = IF k <= Occupied THEN Contents[k]
                                        ELSE Q!Batch(n)[k - Occupied]
    BY <1>5, <1>6, <1>7, ConcatProperties
  <2>2. CASE k <= Occupied
    BY <2>1, <2>2, <1>6 DEF Aligned
  <2>3. CASE k > Occupied
    <3> DEFINE j == k - Occupied
    <3>1. j \in 1..n /\ j \in Nat /\ k = Occupied + j
      BY <2>3, <1>2, <1>6
    <3>2. Contents'[k] = Q!Batch(n)[j]
      BY <2>1, <2>3, <1>6
    <3> HIDE DEF j
    <3>3. Q!Batch(n)[j] \in Q!Sample /\ Q!Batch(n)[j][1] = Side(j)
      BY <1>2, <3>1, BatchAligned
    <3>4. Side(k) = Side(j)
      BY <3>1, <1>6, SideShift DEF Aligned
    <3> QED BY <3>2, <3>3, <3>4
  <2> QED BY <2>2, <2>3, <1>6
<1>9. Occupied' % 2 = 0
  BY <1>2, <1>3, <1>6 DEF Aligned
<1>10. /\ main' = "loop" /\ thread' = thread /\ ready' = ready
       /\ heard' = heard
  BY DEF FlushWrites, MainGoes, threadVars
<1> QED BY <1>8, <1>9, <1>10 DEF Aligned, StereoAligned

LEMMA CallbackAsksAligned ==
  ASSUME FifoInv, Aligned, CallbackAsks
  PROVE  Aligned'
BY DEF Aligned, StereoAligned, CallbackAsks, fifoVars, Contents, Occupied

LEMMA CallbackReadsAligned ==
  ASSUME FifoInv, Aligned, CallbackReads
  PROVE  Aligned'
<1> DEFINE n == ReadSize
<1>1. n \in 0..Occupied /\ Occupied \in 0..Size /\ n \in Nat
  BY ReadSizeFits, ContentsIsRing, FifoAssumption DEF CallbackReads
<1>2. n % 2 = 0
  BY StereoAssumption DEF CallbackReads, Aligned, ReadSize, AtMost
<1>3. Read(n) /\ heard' = ReadData(n)
  BY DEF CallbackReads
<1> HIDE DEF n
<1>4. /\ heard' = SubSeq(Contents, 1, n)
      /\ Contents' = SubSeq(Contents, n + 1, Occupied)
      /\ Occupied' = Occupied - n
  BY <1>1, <1>3, ReadTakes, ReadKeeps, ContentsIsRing, FifoAssumption DEF Occupied
<1>5. /\ \A i \in 1..n : Contents[i] \in Stored
      /\ \A i \in (n + 1)..Occupied : Contents[i] \in Stored
      /\ 1 \in Int /\ n \in Int /\ n + 1 \in Int /\ Occupied \in Int
  BY <1>1 DEF Aligned, Stored
<1>6. ASSUME NEW k \in 1..Occupied'
      PROVE  Contents'[k] \in Q!Sample /\ Contents'[k][1] = Side(k)
  <2> DEFINE j == n + k
  <2>1. /\ k \in 1..(Occupied - (n + 1) + 1) /\ k \in Nat
        /\ j \in 1..Occupied /\ j = n + 1 + k - 1
    BY <1>1, <1>4
  <2>2. \A i \in 1..(Occupied - (n + 1) + 1) :
          SubSeq(Contents, n + 1, Occupied)[i] = Contents[n + 1 + i - 1]
    BY <1>5, SubSeqProperties
  <2>3. Contents'[k] = Contents[j]
    BY <1>4, <2>1, <2>2
  <2>4. Side(j) = Side(k)
    BY <1>1, <1>2, <2>1, SideShift
  <2> HIDE DEF j
  <2> QED BY <2>1, <2>3, <2>4 DEF Aligned
<1>7. /\ Len(heard') = n
      /\ \A k \in 1..n : heard'[k] = Contents[k]
  <2>1. /\ Len(SubSeq(Contents, 1, n)) = IF 1 <= n THEN n - 1 + 1 ELSE 0
        /\ \A k \in 1..(n - 1 + 1) : SubSeq(Contents, 1, n)[k] = Contents[1 + k - 1]
    BY <1>5, SubSeqProperties
  <2> QED BY <2>1, <1>1, <1>4
<1>8. StereoAligned'
  <2>1. \A k \in 1..n : heard'[k] # Junk /\ heard'[k][1] = Side(k)
    BY <1>1, <1>7, StereoAssumption DEF Aligned
  <2> QED BY <2>1, <1>2, <1>7 DEF StereoAligned, Side
<1>9. Occupied' % 2 = 0
  BY <1>1, <1>2, <1>4 DEF Aligned
<1>10. main' = main /\ room' = room /\ thread' = "idle"
  BY DEF CallbackReads
<1> QED BY <1>6, <1>8, <1>9, <1>10 DEF Aligned

LEMMA AsideAligned ==
  ASSUME Aligned, UNCHANGED <<fifoVars, room, threadVars>>,
         main' # "resample" \/ main' = main
  PROVE  Aligned'
BY DEF Aligned, StereoAligned, fifoVars, threadVars, Contents, Occupied

LEMMA NextAligned ==
  ASSUME FifoInv, Aligned, [Next]_vars
  PROVE  Aligned'
<1> USE AsideAligned DEF MainGoes
<1>1. CASE OpenDevice   BY <1>1 DEF OpenDevice
<1>2. CASE InitFifo     BY <1>2 DEF InitFifo
<1>3. CASE StartDevice  BY <1>3 DEF StartDevice
<1>4. CASE InitSucceeds BY <1>4 DEF InitSucceeds
<1>5. CASE InitFails    BY <1>5 DEF InitFails
<1>6. CASE UndoDevice   BY <1>6 DEF UndoDevice
<1>7. CASE UndoJoins    BY <1>7 DEF UndoJoins
<1>8. CASE FlushAsks    BY <1>8, FlushAsksAligned
<1>9. CASE FlushWrites  BY <1>9, FlushWritesAligned
<1>10. CASE CloseDevice BY <1>10 DEF CloseDevice
<1>11. CASE CloseJoins  BY <1>11 DEF CloseJoins
<1>12. CASE DestroyFifo BY <1>12 DEF DestroyFifo
<1>13. CASE CallbackAsks  BY <1>13, CallbackAsksAligned
<1>14. CASE CallbackReads BY <1>14, CallbackReadsAligned
<1>15. CASE UNCHANGED vars BY <1>15 DEF vars, fifoVars, threadVars
<1> QED
  BY <1>1, <1>2, <1>3, <1>4, <1>5, <1>6, <1>7, <1>8, <1>9, <1>10, <1>11,
     <1>12, <1>13, <1>14, <1>15 DEF Next, Main, Callback, Gone

(* Left stays left, whatever is dropped for want of room and however short *)
(* the callback finds the FIFO.                                            *)
THEOREM SpecStereoAligned == Spec => []StereoAligned
<1>1. Spec => []FifoInv
  BY InitInv, NextInv, PTL DEF Spec
<1>2. Aligned => StereoAligned
  BY DEF Aligned
<1> QED BY <1>1, <1>2, InitAligned, NextAligned, PTL DEF Spec
=============================================================================
