-------------------------------- MODULE Fifo -------------------------------
(***************************************************************************)
(* hc::Fifo, the ring buffer between the emulation and the sound card.     *)
(* Each method holds the FIFO's mutex from its first to its last line, so  *)
(* each is one step; nothing holds it from one method to the next.         *)
(* The unit is the 16-bit sample: every size the code passes is an even    *)
(* number of bytes.                                                        *)
(***************************************************************************)
EXTENDS Integers, Sequences

CONSTANTS
  Size,  \* _size, in samples
  Junk   \* what malloc leaves in the buffer

ASSUME FifoAssumption == Size \in Nat \ {0}

VARIABLES
  buffer,  \* _buffer
  first,   \* _first: index of the oldest sample
  last,    \* _last: index the next sample is written at
  avail    \* _avail: room left

fifoVars == <<buffer, first, last, avail>>

Slots == 0..(Size - 1)

AtMost(a, b) == IF a <= b THEN a ELSE b

FifoInit ==
  /\ buffer = [i \in Slots |-> Junk]
  /\ first = 0
  /\ last = 0
  /\ avail = Size

Occupied == Size - avail

(* The two memcpy of read(): up to the end of the buffer, then from its    *)
(* start.                                                                  *)
ReadData(n) ==
  LET head == AtMost(n, Size - first)
  IN  [k \in 1..n |-> IF k <= head THEN buffer[first + k - 1]
                                   ELSE buffer[k - head - 1]]

Read(n) ==
  /\ first' = (first + n) % Size
  /\ avail' = avail + n
  /\ UNCHANGED <<buffer, last>>

(* Mutant: the second memcpy copies from the start of the data again.      *)
WriteRestarts(data) ==
  LET n    == Len(data)
      head == AtMost(n, Size - last)
  IN  /\ buffer' = [i \in Slots |->
                      IF i < n - head THEN data[i + 1]
                      ELSE IF i \in last..(last + head - 1)
                           THEN data[i - last + 1]
                           ELSE buffer[i]]
      /\ last' = (last + n) % Size
      /\ avail' = avail - n

(* The two memcpy of write(); the second one comes last.                   *)
Write(data) ==
  LET n    == Len(data)
      head == AtMost(n, Size - last)
  IN  /\ buffer' = [i \in Slots |->
                      IF i < n - head THEN data[head + i + 1]
                      ELSE IF i \in last..(last + head - 1)
                           THEN data[i - last + 1]
                           ELSE buffer[i]]
      /\ last' = (last + n) % Size
      /\ avail' = avail - n

(* The samples in the buffer, oldest first.                                *)
Contents == [k \in 1..Occupied |-> buffer[(first + k - 1) % Size]]
=============================================================================
