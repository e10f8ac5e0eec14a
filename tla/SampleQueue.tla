---------------------------- MODULE SampleQueue ----------------------------
(***************************************************************************)
(* What the audio FIFO promises to the thread that resamples and to the    *)
(* thread that feeds the sound card: a bounded queue.  Samples come out in *)
(* the order they went in, each once, and only if they went in.            *)
(***************************************************************************)
EXTENDS Naturals, Sequences

CONSTANTS
  Capacity,  \* samples the queue holds when it is full
  Cycle      \* bound: frames are numbered modulo Cycle

VARIABLES
  queue,  \* samples accepted and not yet delivered, oldest first
  heard,  \* the samples of the last delivery
  frame   \* number of the next frame the queue is offered

vars == <<queue, heard, frame>>

Channel == {"L", "R"}
Sample  == Channel \X (0..(Cycle - 1))

(* Interleaved stereo: the left sample of each frame, then its right one.  *)
Batch(n) ==
  [k \in 1..n |-> <<IF k % 2 = 1 THEN "L" ELSE "R",
                    (frame + (k - 1) \div 2) % Cycle>>]

Init == queue = <<>> /\ heard = <<>> /\ frame = 0

(* The start of a batch, possibly nothing, joins the tail of the queue;    *)
(* the frames it holds are not offered again.                              *)
Put ==
  \E n \in 0..(Capacity - Len(queue)) :
    /\ queue' = queue \o Batch(n)
    /\ frame' = (frame + (n + 1) \div 2) % Cycle
    /\ UNCHANGED heard

(* Some samples, possibly none, leave from its head.                       *)
Get ==
  \E n \in 0..Len(queue) :
    /\ heard' = SubSeq(queue, 1, n)
    /\ queue' = SubSeq(queue, n + 1, Len(queue))
    /\ UNCHANGED frame

Next == Put \/ Get

Spec == Init /\ [][Next]_vars
=============================================================================
