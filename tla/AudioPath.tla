----------------------------- MODULE AudioPath -----------------------------
(***************************************************************************)
(* The two threads around the audio FIFO and the life of the FIFO itself.  *)
(*                                                                         *)
(* The main thread initialises the device, runs frames, and after each one *)
(* Audio::flush asks the FIFO for its free space, resamples, and writes    *)
(* what fitted; at the end it closes the device and frees the buffer.  The *)
(* SDL audio thread calls Application::audioCallback, which asks how much  *)
(* is there and then reads it.  Each asks and acts in two critical         *)
(* sections, with the other thread in between.                             *)
(***************************************************************************)
EXTENDS Fifo

CONSTANTS
  Period,       \* samples one callback asks for (len / 2)
  MaxBatch,     \* bound: samples one flush has to write
  Cycle,        \* bound: frames are numbered modulo Cycle
  InitMayFail   \* can init() fail after the device was started?

ASSUME AudioAssumption ==
  /\ Period \in Nat \ {0}
  /\ MaxBatch \in Nat
  /\ Cycle \in Nat \ {0}
  /\ InitMayFail \in BOOLEAN

VARIABLES
  main,    \* where the main thread is
  room,    \* flush's local `avail'
  device,  \* the SDL audio device
  thread,  \* the audio thread: idle, or between occupied() and read()
  ready,   \* audioCallback's local `avail'
  heard,   \* the samples the last callback took from the FIFO
  alive,   \* is the buffer allocated?
  frame    \* number of the next frame the FIFO takes

vars == <<buffer, first, last, avail,
          main, room, device, thread, ready, heard, alive, frame>>

(* The queue the ring buffer is meant to be, and the samples it carries.   *)
Q == INSTANCE SampleQueue WITH Capacity <- Size, queue <- Contents

(* The FIFO holds two periods of 1024 frames; what malloc leaves in it is  *)
(* told apart from every sample that is written.                           *)
ASSUME StereoAssumption ==
  /\ Period % 2 = 0
  /\ Size % 2 = 0
  /\ Junk \notin Q!Sample

Init ==
  /\ FifoInit
  /\ main = "start"
  /\ room = 0
  /\ device = "closed"
  /\ thread = "idle"
  /\ ready = 0
  /\ heard = <<>>
  /\ alive = FALSE
  /\ frame = 0

threadVars == <<thread, ready, heard>>

MainGoes(from, to) == main = from /\ main' = to

-----------------------------------------------------------------------------
(* Application::init: open the device (paused), allocate, start it.        *)
OpenDevice ==
  /\ MainGoes("start", "opened")
  /\ device' = "paused"
  /\ UNCHANGED <<fifoVars, threadVars, room, alive, frame>>

InitFifo ==
  /\ MainGoes("opened", "allocated")
  /\ alive' = TRUE
  /\ UNCHANGED <<fifoVars, threadVars, room, device, frame>>

StartDevice ==
  /\ MainGoes("allocated", "starting")
  /\ device' = "playing"
  /\ UNCHANGED <<fifoVars, threadVars, room, alive, frame>>

InitSucceeds ==
  /\ MainGoes("starting", "loop")
  /\ UNCHANGED <<fifoVars, threadVars, room, device, alive, frame>>

(* The Undo list runs backwards: the FIFO, added after the device, is      *)
(* freed first, while the device may still call back.                      *)
InitFails ==
  /\ InitMayFail
  /\ MainGoes("starting", "undo")
  /\ alive' = FALSE
  /\ UNCHANGED <<fifoVars, threadVars, room, device, frame>>

UndoDevice ==
  /\ MainGoes("undo", "undone")
  /\ device' = "closing"
  /\ UNCHANGED <<fifoVars, threadVars, room, alive, frame>>

UndoJoins ==
  /\ MainGoes("undone", "gone")
  /\ thread = "idle"
  /\ device' = "closed"
  /\ UNCHANGED <<fifoVars, threadVars, room, alive, frame>>

-----------------------------------------------------------------------------
(* Mutant: flush() takes the FIFO's size for its free space.               *)
FlushAsksSize ==
  /\ MainGoes("loop", "resample")
  /\ room' = Size
  /\ UNCHANGED <<fifoVars, threadVars, device, alive, frame>>

(* Audio::flush.  The free space is read once, before resampling.          *)
FlushAsks ==
  /\ MainGoes("loop", "resample")
  /\ room' = avail
  /\ UNCHANGED <<fifoVars, threadVars, device, alive, frame>>

(* Mutant: an odd number of samples is not cut off.                        *)
SendSizeOdd(outLen) == AtMost(outLen, room)

(* The resampler yields any number of samples; an odd one is cut off, and  *)
(* what does not fit in the space seen above is dropped.                   *)
SendSize(outLen) == AtMost(outLen - (outLen % 2), room)

FlushWrites ==
  /\ MainGoes("resample", "loop")
  /\ \E outLen \in 0..MaxBatch :
       LET n == SendSize(outLen)
       IN  /\ Write(Q!Batch(n))
           /\ frame' = (frame + (n + 1) \div 2) % Cycle
  /\ UNCHANGED <<first, threadVars, room, device, alive>>

-----------------------------------------------------------------------------
(* Mutant: destroy() frees the FIFO before it closes the device.           *)
CloseDeviceLate ==
  /\ MainGoes("loop", "closing")
  /\ device' = "closing"
  /\ alive' = FALSE
  /\ UNCHANGED <<fifoVars, threadVars, room, frame>>

(* Application::destroy: SDL_CloseAudioDevice keeps the callback from      *)
(* being called again and waits for the one that runs; then free().        *)
CloseDevice ==
  /\ MainGoes("loop", "closing")
  /\ device' = "closing"
  /\ UNCHANGED <<fifoVars, threadVars, room, alive, frame>>

(* SDL_CloseAudioDevice() returns as soon as no callback runs.             *)
CloseJoins ==
  /\ MainGoes("closing", "closed")
  /\ thread = "idle"
  /\ device' = "closed"
  /\ UNCHANGED <<fifoVars, threadVars, room, alive, frame>>

DestroyFifo ==
  /\ MainGoes("closed", "gone")
  /\ alive' = FALSE
  /\ UNCHANGED <<fifoVars, threadVars, room, device, frame>>

-----------------------------------------------------------------------------
(* Mutant: a device being closed still calls back.                         *)
CallbackAsksWhileClosing ==
  /\ device \in {"playing", "closing"}
  /\ thread = "idle"
  /\ thread' = "copy"
  /\ ready' = Occupied
  /\ UNCHANGED <<fifoVars, main, room, device, heard, alive, frame>>

(* Application::audioCallback.                                             *)
CallbackAsks ==
  /\ device = "playing"
  /\ thread = "idle"
  /\ thread' = "copy"
  /\ ready' = Occupied
  /\ UNCHANGED <<fifoVars, main, room, device, heard, alive, frame>>

(* A short FIFO is read to its end and the rest of the stream is zeroed.   *)
ReadSize == AtMost(ready, Period)

CallbackReads ==
  /\ thread = "copy"
  /\ thread' = "idle"
  /\ heard' = ReadData(ReadSize)
  /\ Read(ReadSize)
  /\ UNCHANGED <<main, room, device, ready, alive, frame>>

-----------------------------------------------------------------------------
Main ==
  \/ OpenDevice \/ InitFifo \/ StartDevice
  \/ InitSucceeds \/ InitFails \/ UndoDevice \/ UndoJoins
  \/ FlushAsks \/ FlushWrites
  \/ CloseDevice \/ CloseJoins \/ DestroyFifo

Callback == CallbackAsks \/ CallbackReads

Gone == main = "gone" /\ thread = "idle" /\ UNCHANGED vars

Next == Main \/ Callback \/ Gone

(* Each thread is scheduled; neither ever waits for the other but for the  *)
(* join.  That the user quits, or init fails, is not assumed.              *)
Spec == Init /\ [][Next]_vars /\ WF_vars(Main) /\ WF_vars(CallbackReads)

-----------------------------------------------------------------------------
TypeOK ==
  /\ buffer \in [Slots -> Q!Sample \union {Junk}]
  /\ first \in Slots
  /\ last \in Slots
  /\ avail \in 0..Size
  /\ main \in {"start", "opened", "allocated", "starting", "loop", "resample",
               "closing", "closed", "undo", "undone", "gone"}
  /\ room \in 0..Size
  /\ device \in {"closed", "paused", "playing", "closing"}
  /\ thread \in {"idle", "copy"}
  /\ ready \in 0..Size
  /\ alive \in BOOLEAN
  /\ frame \in 0..(Cycle - 1)

(* Check then act, in two critical sections, is safe: what flush() saw     *)
(* free is still free when it writes, what the callback saw occupied is    *)
(* still there when it reads.  The unsigned _avail never wraps and neither *)
(* memcpy leaves the buffer.                                               *)
NoOverrun ==
  /\ main = "resample" => room <= avail
  /\ thread = "copy" => ready <= Occupied

(* Left stays left: whatever is cut off or dropped, what the device gets   *)
(* starts with a left sample and holds whole frames, never junk.           *)
StereoAligned ==
  /\ Len(heard) % 2 = 0
  /\ \A k \in 1..Len(heard) :
       /\ heard[k] # Junk
       /\ heard[k][1] = IF k % 2 = 1 THEN "L" ELSE "R"

(* The device's thread never copies from a buffer that is not allocated:   *)
(* destroy() frees it when no callback runs any more, and while a failed   *)
(* init() is undone, which frees it first, there is nothing to copy yet.   *)
DestroyAfterCallback == thread = "copy" /\ ReadSize > 0 => alive

(* The ring buffer, written and read by two threads, is a queue.           *)
ImplementsQueue == Q!Spec

(* Tearing down waits for the callback, and does not wait for ever.        *)
TeardownEnds == main \in {"closing", "undo"} ~> main = "gone"
=============================================================================
