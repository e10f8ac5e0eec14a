------------------------- MODULE ApplicationProofs -------------------------
(***************************************************************************)
(* Proofs about Application, for any user, any core and any scripts.       *)
(***************************************************************************)
EXTENDS Application, SequenceTheorems, TLAPS

-----------------------------------------------------------------------------
(* The stack's three operations.                                           *)
LEMMA StackOperations ==
  ASSUME stack \in Seq(Frame), stack # <<>>
  PROVE  /\ Len(stack) \in Nat \ {0}
         /\ Top \in Frame
         /\ Callers \in Seq(Frame)
         /\ Len(Callers) = Len(stack) - 1
         /\ \A i \in 1..(Len(stack) - 1) : Callers[i] = stack[i]
<1>1. Len(stack) \in Nat \ {0}
  BY EmptySeq
<1>2. \A i \in 1..(Len(stack) - 1) : stack[i] \in Frame
  BY <1>1, ElementOfSeq
<1>3. Top \in Frame
  BY <1>1, ElementOfSeq DEF Top
<1>4. /\ Callers \in Seq(Frame)
      /\ Len(Callers) = IF 1 <= Len(stack) - 1 THEN Len(stack) - 1 - 1 + 1 ELSE 0
      /\ \A i \in 1..(Len(stack) - 1 - 1 + 1) : Callers[i] = stack[1 + i - 1]
  <2>1. 1 \in Int /\ Len(stack) - 1 \in Int
    BY <1>1
  <2> QED BY <1>2, <2>1, SubSeqProperties DEF Callers
<1>5. ASSUME NEW i \in 1..(Len(stack) - 1)
      PROVE  Callers[i] = stack[i]
  <2>1. i \in 1..(Len(stack) - 1 - 1 + 1) /\ 1 + i - 1 = i
    BY <1>1
  <2> QED BY <1>4, <2>1
<1>6. Len(Callers) = Len(stack) - 1
  <2> DEFINE l == Len(stack)
             c == Len(Callers)
  <2>1. l \in Nat \ {0} /\ c = IF 1 <= l - 1 THEN l - 1 - 1 + 1 ELSE 0
    BY <1>1, <1>4
  <2> HIDE DEF l, c
  <2>2. c = l - 1
    BY <2>1
  <2> QED BY <2>2 DEF l, c
<1> QED BY <1>1, <1>3, <1>4, <1>5, <1>6

LEMMA GoOperations ==
  ASSUME stack \in Seq(Frame), stack # <<>>, NEW p \in PC \ {"ctx"}
  PROVE  /\ Go(p) \in Seq(Frame)
         /\ Len(Go(p)) = Len(stack)
         /\ Go(p)[Len(stack)] = [Top EXCEPT !.pc = p]
         /\ \A i \in 1..(Len(stack) - 1) : Go(p)[i] = stack[i]
<1>1. [Top EXCEPT !.pc = p] \in Frame
  BY StackOperations DEF Frame
<1> QED BY <1>1, StackOperations DEF Go

LEMMA EntryType ==
  ASSUME NEW m \in LC!Method
  PROVE  Entry(m) \in PC /\ (Entry(m) = "ctx" => m \in CallsCoreFirst)
BY DEF Entry, PC, CallsCoreFirst

LEMMA CallType ==
  ASSUME TypeOK, NEW m \in LC!Method, NEW base \in Seq(Frame), Call(m, base)
  PROVE  stack' \in Seq(Frame) /\ result' \in BOOLEAN
<1>1. [m |-> m, from |-> state, pc |-> Entry(m)] \in Frame
  BY EntryType DEF Frame, TypeOK
<1>2. Append(base, [m |-> m, from |-> state, pc |-> Entry(m)]) \in Seq(Frame)
  BY <1>1
<1> QED BY <1>2 DEF Call, TypeOK

LEMMA TargetType ==
  ASSUME NEW m \in LC!Method, NEW s \in LC!State
  PROVE  LC!Target(m, s) \in LC!State
BY DEF LC!Target, LC!State, LC!Method

-----------------------------------------------------------------------------
(* A step that only moves the top frame on, or returns from it.            *)
LEMMA MovesType ==
  ASSUME TypeOK, stack # <<>>,
         \/ \E p \in PC \ {"ctx"} : stack' = Go(p) /\ UNCHANGED result
         \/ \E r \in BOOLEAN : Return(r),
         state' \in LC!State, core' \in CoreState,
         timer' \in {"stopped", "running", "paused"},
         UNCHANGED <<phase, done, quits>>
  PROVE  TypeOK'
<1>1. stack' \in Seq(Frame) /\ result' \in BOOLEAN
  BY StackOperations, GoOperations DEF TypeOK, Return
<1> QED BY <1>1 DEF TypeOK

LEMMA LifeCycleStepType ==
  ASSUME TypeOK, LifeCycleStep
  PROVE  TypeOK'
<1>1. CASE CoreAccepts
  <2>1. stack # <<>> /\ Top \in Frame
    BY <1>1, StackOperations DEF CoreAccepts, At, TypeOK
  <2>2. core' \in CoreState
    <3>1. core' = Leaves[Top.m] /\ core = Needs[Top.m] /\ core \in CoreState
      BY <1>1 DEF CoreAccepts, Accepts, TypeOK
    <3>2. Top.m \in CallsCoreFirst
      BY <1>1, <2>1 DEF CoreAccepts, At, Frame
    <3> QED BY <3>1, <3>2 DEF Leaves, CoreState, CallsCoreFirst
  <2> QED BY <1>1, <2>1, <2>2, MovesType DEF CoreAccepts, TypeOK, PC
<1>2. CASE CoreRefuses
  BY <1>2, MovesType DEF CoreRefuses, At, TypeOK, PC
<1>3. ASSUME NEW m \in LC!Method, ScriptCall(m)
      PROVE  TypeOK'
  <2>1. Go("called") \in Seq(Frame)
    BY <1>3, GoOperations DEF ScriptCall, At, TypeOK, PC
  <2>2. stack' \in Seq(Frame) /\ result' \in BOOLEAN
    BY <1>3, <2>1, CallType DEF ScriptCall
  <2> QED BY <1>3, <2>2 DEF ScriptCall, TypeOK
<1>4. CASE Finish
  <2>1. stack # <<>> /\ Top \in Frame /\ Top.m # "run"
    BY <1>4, StackOperations DEF Finish, Broadcast, At, TypeOK
  <2>2. state' \in LC!State
    BY <1>4, <2>1, TargetType DEF Finish, Frame
  <2>3. timer' \in {"stopped", "running", "paused"}
    BY <1>4 DEF Finish, TimerAfter, TypeOK
  <2> QED BY <1>4, <2>1, <2>2, <2>3, MovesType DEF Finish, TypeOK
<1>5. CASE ResetRefused
  BY <1>5, MovesType DEF ResetRefused, Broadcast, At, TypeOK
<1>6. CASE QuitUnloads
  <2>1. Go("quit") \in Seq(Frame)
    BY <1>6, GoOperations DEF QuitUnloads, At, TypeOK, PC
  <2>2. (IF Top.from = "ConsoleLoaded" THEN "unloadCore" ELSE "unloadGame")
          \in LC!Method
    BY DEF LC!Method
  <2>3. stack' \in Seq(Frame) /\ result' \in BOOLEAN
    BY <1>6, <2>1, <2>2, CallType DEF QuitUnloads
  <2> QED BY <1>6, <2>3 DEF QuitUnloads, TypeOK
<1>7. CASE QuitAgain
  <2>1. CASE result
    <3>1. Go("return") \in Seq(Frame)
      BY <1>7, GoOperations DEF QuitAgain, At, TypeOK, PC
    <3>2. "quit" \in LC!Method
      BY DEF LC!Method
    <3>3. stack' \in Seq(Frame) /\ result' \in BOOLEAN
      BY <1>7, <2>1, <3>1, <3>2, CallType DEF QuitAgain
    <3> QED BY <1>7, <3>3 DEF QuitAgain, TypeOK
  <2>2. CASE ~result
    BY <1>7, <2>2, MovesType DEF QuitAgain, At, TypeOK
  <2> QED BY <2>1, <2>2
<1>8. CASE QuitReturns
  BY <1>8, MovesType DEF QuitReturns, At, TypeOK
<1> QED BY <1>1, <1>2, <1>3, <1>4, <1>5, <1>6, <1>7, <1>8 DEF LifeCycleStep

LEMMA LoopStepType ==
  ASSUME TypeOK, LoopStep
  PROVE  TypeOK'
<1>0. <<>> \in Seq(Frame) /\ "quit" \in LC!Method
  BY EmptySeq DEF LC!Method
<1>1. CASE PollQuit
  <2>1. stack' \in Seq(Frame) /\ result' \in BOOLEAN
    BY <1>0, <1>1, CallType DEF PollQuit
  <2> QED BY <1>1, <2>1, AppAssumption DEF PollQuit, TypeOK
<1>2. CASE QuitPolled
  BY <1>2 DEF QuitPolled, TypeOK
<1>3. CASE EndPoll
  BY <1>3 DEF EndPoll, TypeOK
<1>4. CASE RunFrame
  <2>1. [m |-> "run", from |-> state, pc |-> "event"] \in Frame
    BY DEF Frame, PC, TypeOK
  <2>2. stack' \in Seq(Frame)
    BY <1>4, <2>1 DEF RunFrame
  <2> QED BY <1>4, <2>2 DEF RunFrame, TypeOK
<1>5. CASE FrameRun
  BY <1>0, <1>5 DEF FrameRun, TypeOK
<1>6. CASE NoFrame
  BY <1>6 DEF NoFrame, TypeOK
<1>7. ASSUME NEW m \in LC!Method, UserCall(m)
      PROVE  TypeOK'
  <2>1. stack' \in Seq(Frame) /\ result' \in BOOLEAN
    BY <1>0, <1>7, CallType DEF UserCall
  <2> QED BY <1>7, <2>1 DEF UserCall, TypeOK
<1>8. CASE EndDraw
  BY <1>8 DEF EndDraw, TypeOK
<1> QED BY <1>1, <1>2, <1>3, <1>4, <1>5, <1>6, <1>7, <1>8 DEF LoopStep

LEMMA InitType == Init => TypeOK
<1>1. <<>> \in Seq(Frame)
  BY EmptySeq
<1>2. Init => quits \in 0..MaxQuits
  BY AppAssumption DEF Init
<1> QED BY <1>1, <1>2, Zenon DEF Init, TypeOK, CoreState, LC!State

LEMMA NextType == TypeOK /\ [Next]_vars => TypeOK'
<1>1. TypeOK /\ UNCHANGED vars => TypeOK'
  BY DEF TypeOK, vars
<1> QED BY <1>1, LifeCycleStepType, LoopStepType DEF Next, Exited

(* Whatever the user, the core and the scripts do, every frame of the call *)
(* stack is a method that was called in a state of the machine.            *)
THEOREM SpecTypeOK == Spec => []TypeOK
BY InitType, NextType, PTL DEF Spec

(* What follows needs no fairness: it holds of every behaviour of the      *)
(* initial states and the steps alone.                                     *)
Runs == Init /\ [][Next]_vars

-----------------------------------------------------------------------------
(* With considerate scripts the calls on the stack are one call of the     *)
(* loop or of the user and what its callbacks call, or a chain of quit()   *)
(* calls with one unload on top.  What concerns the front-end needs that   *)
(* it unloads a core when it is told to.                                   *)
CoreOf(s) ==
  CASE s \in {"Start", "Quit"} -> "none"
    [] s = "ConsoleLoaded"     -> "loaded"
    [] s \in LC!InGame         -> "game"

TimerOf(s) ==
  CASE s = "GameRunning" -> "running"
    [] s = "GamePaused"  -> "paused"
    [] OTHER             -> "stopped"

Agree(s) ==
  /\ state = s
  /\ timer = TimerOf(s)
  /\ CoreUnloads => core = CoreOf(s)

(* What quit() calls in state s, and where that leads.                     *)
Unload(s) == IF s = "ConsoleLoaded" THEN "unloadCore" ELSE "unloadGame"
Below(s)  == IF s = "ConsoleLoaded" THEN "Start" ELSE "ConsoleLoaded"

Shape(f) ==
  \/ f.m = "run" /\ f.pc \in Told /\ f.from = "GameRunning"
  \/ /\ f.m \in CallsCoreFirst /\ f.pc \in {"ctx"} \union Told
     /\ LC!Handles(f.m, f.from)
  \/ /\ f.m \in {"startGame", "pauseGame", "resumeGame", "resetGame"}
     /\ f.pc \in Told
     /\ LC!Handles(f.m, f.from)
  \/ f.m = "unloadCore" /\ f.pc = "assign" /\ f.from = "ConsoleLoaded" /\ ~CoreUnloads
  \/ f.m = "quit" /\ f.pc = "assign" /\ f.from = "Start"
  \/ /\ f.m = "quit" /\ f.pc \in {"unload", "quit", "return"}
     /\ f.from \in LC!InGame \union {"ConsoleLoaded"}

(* g is the call f waits for: a step of quit()'s chain, or a callback's.   *)
Calls(f, g) ==
  \/ f.m = "quit" /\ f.pc = "quit" /\ g.m = Unload(f.from) /\ g.from = f.from
  \/ f.m = "quit" /\ f.pc = "return" /\ g.m = "quit" /\ g.from = Below(f.from)
  \/ /\ f.pc = "called" /\ g.from = f.from
     /\ \/ f.m = "run" /\ g.m \in {"pauseGame", "resetGame"}
        \/ /\ f.m \in {"pauseGame", "resumeGame", "resetGame", "step"}
           /\ g.m \in {"resetGame", "step"}

(* The core, the timer and the last result, as the top frame finds them.   *)
Found(f) ==
  CASE f.pc \in Told /\ f.m \in CallsCoreFirst ->
         /\ state = f.from
         /\ timer = TimerOf(f.from)
         /\ CoreUnloads => core = Leaves[f.m]
    [] f.pc = "called" /\ f.m = "run" ->
         Agree(state) /\ state \in {"GamePaused", "GameRunning"}
    [] f.pc = "quit" ->
         /\ Agree(IF result THEN Below(f.from) ELSE f.from)
         /\ result \/ f.from \in LC!InGame
    [] f.pc = "return" -> result /\ Agree("Quit")
    [] OTHER -> Agree(f.from)

Running == stack # <<>> /\ stack[1].m = "run"

Chain ==
  /\ \A i \in 1..Len(stack) : Shape(stack[i])
  /\ \A i \in 1..(Len(stack) - 1) : Calls(stack[i], stack[i + 1])
  /\ IF stack = <<>> THEN Agree(state) ELSE Found(Top)
  /\ phase \in {"poll", "frame", "draw", "exit"} => stack = <<>>
  /\ phase = "running" <=> Running

-----------------------------------------------------------------------------
LEMMA TopShape ==
  ASSUME TypeOK, Chain, stack # <<>>
  PROVE  /\ Shape(Top) /\ Found(Top) /\ Top \in Frame
         /\ Top.m = "run" <=> Running /\ Len(stack) = 1
<1>1. Len(stack) \in Nat \ {0} /\ Top \in Frame
  BY StackOperations DEF TypeOK
<1>2. Shape(Top) /\ Found(Top)
  BY <1>1 DEF Chain, Top
<1>3. ASSUME Len(stack) = 1
      PROVE  Top.m = "run" <=> Running
  BY <1>3 DEF Top, Running
<1>4. ASSUME Len(stack) # 1
      PROVE  Top.m # "run"
  <2>1. /\ Len(stack) - 1 \in 1..(Len(stack) - 1)
        /\ (Len(stack) - 1) + 1 = Len(stack)
    BY <1>1, <1>4
  <2>2. Calls(stack[Len(stack) - 1], stack[(Len(stack) - 1) + 1])
    BY <2>1 DEF Chain
  <2> QED BY <2>1, <2>2 DEF Calls, Top, Unload
<1> QED BY <1>1, <1>2, <1>3, <1>4

(* What the scripts' assumption leaves to a callback.                      *)
LEMMA ReturningCalls ==
  ASSUME NEW m \in LC!Method, NEW s \in LC!State, LC!Handles(m, s), LC!Target(m, s) = s
  PROVE  m \in {"resetGame", "step"} /\ s \in {"GamePaused", "GameRunning"}
BY DEF LC!Handles, LC!Sources, LC!Target, LC!Method, LC!State, LC!InGame

LEMMA CallbackCalls ==
  ASSUME ConsiderateScripts, TypeOK, Chain, At("event"), NEW m \in LC!Method,
         <<EventOf(Top.m), m>> \in ScriptCalls, LC!Handles(m, state)
  PROVE  /\ state = Top.from /\ Agree(state)
         /\ \/ Top.m = "run" /\ m \in {"pauseGame", "resetGame"}
            \/ /\ Top.m \in {"pauseGame", "resumeGame", "resetGame", "step"}
               /\ m \in {"resetGame", "step"}
<1>1. /\ Shape(Top) /\ Found(Top) /\ Top \in Frame /\ Top.pc = "event"
  BY TopShape DEF At
<1>2. state = Top.from /\ state \in LC!State
  BY <1>1 DEF Found, Agree, Told, TypeOK
<1>3. CASE Top.m = "run"
  <2>1. state = "GameRunning" /\ Agree(state)
    BY <1>1, <1>3 DEF Shape, Found, Agree, Told, CallsCoreFirst
  <2>2. /\ "step" \in LC!Method \ {"quit"} /\ "GamePaused" \in LC!State
        /\ EventOf("step") = EventOf(Top.m) /\ LC!Handles("step", "GamePaused")
    BY <1>3 DEF EventOf, LC!Method, LC!State, LC!Handles, LC!Sources
  <2>3. LC!Handles(m, "GamePaused") => LC!Target(m, "GamePaused") = "GamePaused"
    BY <2>2 DEF ConsiderateScripts
  <2>4. m \in {"pauseGame", "resetGame"}
    BY <2>1, <2>3 DEF LC!Handles, LC!Sources, LC!Target, LC!Method, LC!State, LC!InGame
  <2> QED BY <1>2, <1>3, <2>1, <2>4
<1>4. CASE Top.m # "run"
  <2>1. PICK n \in LC!Method \ {"quit"} : n = Top.m /\ LC!Handles(n, state)
    BY <1>1, <1>2, <1>4 DEF Shape, Frame, Told, CallsCoreFirst, LC!Method
  <2>2. n # "unloadGame" /\ LC!Target(m, state) = state
    BY <1>2, <2>1 DEF ConsiderateScripts
  <2>3. m \in {"resetGame", "step"} /\ state \in {"GamePaused", "GameRunning"}
    BY <1>2, <2>2, ReturningCalls
  <2>4. n \in {"pauseGame", "resumeGame", "resetGame", "step"}
    BY <2>1, <2>2, <2>3 DEF LC!Handles, LC!Sources, LC!Method
  <2>5. Agree(state)
    <3>1. CASE n = "step"
      BY <1>1, <1>2, <2>1, <2>3, <3>1
         DEF Found, Agree, Told, CallsCoreFirst, Leaves, CoreOf, LC!InGame
    <3>2. CASE n # "step"
      BY <1>1, <1>2, <2>1, <2>4, <3>2 DEF Found, Told, CallsCoreFirst
    <3> QED BY <3>1, <3>2
  <2> QED BY <1>2, <2>1, <2>3, <2>4, <2>5
<1> QED BY <1>3, <1>4

(* A frame that moves on, with nothing on top of it.                       *)
LEMMA GoChain ==
  ASSUME TypeOK, Chain, stack # <<>>, NEW p \in PC \ {"ctx"}, stack' = Go(p),
         NEW f, f = [Top EXCEPT !.pc = p], Shape(f), Found(f)', phase' = phase
  PROVE  Chain'
<1> DEFINE n == Len(stack)
<1>1. /\ n \in Nat \ {0} /\ Len(stack') = n /\ stack'[n] = f
      /\ \A i \in 1..(n - 1) : stack'[i] = stack[i]
      /\ Top \in Frame /\ stack' \in Seq(Frame)
  BY StackOperations, GoOperations DEF TypeOK
<1>2. f.m = Top.m /\ f.from = Top.from
  BY <1>1 DEF Frame
<1>3. stack' # <<>> /\ Top' = f
  BY <1>1, EmptySeq DEF Top
<1> HIDE DEF n
<1>4. ASSUME NEW i \in 1..n
      PROVE  Shape(stack'[i])
  <2>1. CASE i = n
    BY <1>1, <2>1
  <2>2. CASE i # n
    <3>1. i \in 1..(n - 1)
      BY <1>1, <2>2
    <3> QED BY <1>1, <3>1 DEF n, Chain
  <2> QED BY <2>1, <2>2
<1>5. ASSUME NEW i \in 1..(n - 1)
      PROVE  Calls(stack'[i], stack'[i + 1])
  <2>1. Calls(stack[i], stack[i + 1]) /\ stack'[i] = stack[i]
    BY <1>1 DEF n, Chain
  <2>2. CASE i + 1 = n
    <3>1. stack'[i + 1] = f /\ stack[i + 1] = Top
      BY <1>1, <2>2 DEF n, Top
    <3> QED BY <1>2, <2>1, <3>1 DEF Calls
  <2>3. CASE i + 1 # n
    <3>1. i + 1 \in 1..(n - 1)
      BY <1>1, <2>3
    <3>2. stack'[i + 1] = stack[i + 1]
      BY <1>1, <3>1
    <3> QED BY <2>1, <3>2
  <2> QED BY <2>2, <2>3
<1>6. Running' <=> Running
  <2>1. CASE n = 1
    BY <1>1, <1>2, <1>3, <2>1 DEF n, Running, Top
  <2>2. CASE n # 1
    <3>1. 1 \in 1..(n - 1)
      BY <1>1, <2>2
    <3>2. stack'[1] = stack[1]
      BY <1>1, <3>1
    <3> QED BY <1>3, <3>2 DEF Running
  <2> QED BY <2>1, <2>2
<1> QED BY <1>1, <1>3, <1>4, <1>5, <1>6 DEF Chain

(* A call on top of the stack, or of the frame that just moved on.         *)
LEMMA PushChain ==
  ASSUME TypeOK, NEW base \in Seq(Frame), NEW g \in Frame,
         stack' = Append(base, g),
         \A i \in 1..Len(base) : Shape(base[i]),
         \A i \in 1..(Len(base) - 1) : Calls(base[i], base[i + 1]),
         base # <<>> => Calls(base[Len(base)], g),
         g.m # "run", Shape(g), Found(g)',
         phase' \in {"quitting", "running", "drawn"},
         phase' = "running" <=> base # <<>> /\ base[1].m = "run"
  PROVE  Chain'
<1> DEFINE n == Len(base)
<1>1. /\ n \in Nat /\ Len(stack') = n + 1 /\ stack'[n + 1] = g
      /\ \A i \in 1..n : stack'[i] = base[i]
  OBVIOUS
<1>2. stack' # <<>> /\ Top' = g
  BY <1>1, EmptySeq DEF Top
<1>3. n = 0 <=> base = <<>>
  BY EmptySeq
<1> HIDE DEF n
<1>4. ASSUME NEW i \in 1..(n + 1)
      PROVE  Shape(stack'[i])
  <2>1. CASE i = n + 1
    BY <1>1, <2>1
  <2>2. CASE i \in 1..n
    BY <1>1, <2>2 DEF n
  <2> QED BY <1>1, <2>1, <2>2
<1>5. ASSUME NEW i \in 1..n
      PROVE  Calls(stack'[i], stack'[i + 1])
  <2>1. CASE i = n
    BY <1>1, <1>3, <2>1 DEF n
  <2>2. CASE i # n
    <3>1. i \in 1..(n - 1) /\ i + 1 \in 1..n
      BY <1>1, <2>2
    <3> QED BY <1>1, <3>1 DEF n
  <2> QED BY <2>1, <2>2
<1>6. phase' = "running" <=> Running'
  <2>1. CASE n = 0
    BY <1>1, <1>3, <2>1 DEF Running
  <2>2. CASE n # 0
    BY <1>1, <1>2, <1>3, <2>2 DEF Running
  <2> QED BY <2>1, <2>2
<1>7. Len(stack') - 1 = n
  BY <1>1
<1> QED BY <1>1, <1>2, <1>4, <1>5, <1>6, <1>7 DEF Chain

(* A call that returns to the loop, or to the quit() or the callback that  *)
(* made it.                                                                *)
LEMMA ReturnChain ==
  ASSUME TypeOK, Chain, stack # <<>>, Top.m # "run", phase' = phase,
         NEW r \in BOOLEAN, Return(r),
         NEW s, s = IF r THEN LC!Target(Top.m, Top.from) ELSE Top.from, Agree(s)',
         r \/ (Top.m # "unloadCore" /\ (Top.m = "quit" => Top.from \in LC!InGame))
  PROVE  Chain'
<1> DEFINE n == Len(stack)
<1>1. /\ n \in Nat \ {0} /\ Top \in Frame /\ Shape(Top)
      /\ stack' \in Seq(Frame) /\ Len(stack') = n - 1 /\ result' = r
      /\ \A i \in 1..(n - 1) : stack'[i] = stack[i]
      /\ n = 1 => ~Running
  BY StackOperations, TopShape DEF TypeOK, Return
<1> HIDE DEF n
<1>2. /\ \A i \in 1..(n - 1) : Shape(stack'[i])
      /\ \A i \in 1..(n - 1 - 1) : Calls(stack'[i], stack'[i + 1])
  BY <1>1 DEF Chain, n
<1>3. CASE n = 1
  <2>1. stack' = <<>>
    BY <1>1, <1>3, EmptySeq
  <2>2. Agree(state)'
    BY DEF Agree
  <2> QED BY <1>1, <1>2, <2>1, <2>2 DEF Chain, Running
<1>4. CASE n # 1
  <2>0. PICK f : f = stack[n - 1]
    OBVIOUS
  <2>1. stack' # <<>> /\ Top' = f /\ stack'[1] = stack[1] /\ Shape(f)
    BY <1>1, <1>2, <1>4, <2>0, EmptySeq DEF Top
  <2>2. Calls(f, Top)
    BY <1>1, <1>4, <2>0 DEF Chain, n, Top
  <2>3. ASSUME f.pc = "quit"
        PROVE  Found(f)'
    <3>1. Top.m = Unload(f.from) /\ Top.from = f.from
      BY <2>2, <2>3 DEF Calls
    <3>2. f.from \in LC!InGame \union {"ConsoleLoaded"}
      BY <2>1, <2>3 DEF Shape, Told
    <3>3. s = IF r THEN Below(f.from) ELSE f.from
      BY <3>1, <3>2 DEF Unload, Below, LC!Target, LC!InGame
    <3>4. r \/ f.from \in LC!InGame
      BY <3>1, <3>2 DEF Unload
    <3>5. f.m = "quit"
      BY <2>2, <2>3 DEF Calls
    <3> QED BY <1>1, <2>3, <3>3, <3>4, <3>5 DEF Found, Told
  <2>4. ASSUME f.pc = "return"
        PROVE  Found(f)'
    <3>1. Top.m = "quit" /\ Top.from = Below(f.from)
      BY <2>2, <2>4 DEF Calls
    <3>2. r
      BY <3>1 DEF Below, LC!InGame
    <3>3. s = "Quit"
      BY <3>1, <3>2 DEF LC!Target
    <3> QED BY <1>1, <2>4, <3>2, <3>3 DEF Found, Told
  <2>8. ASSUME f.pc = "called"
        PROVE  Found(f)'
    <3>1. /\ Top.from = f.from /\ LC!Handles(Top.m, f.from)
          /\ state' = s /\ timer' = TimerOf(s) /\ (CoreUnloads => core' = CoreOf(s))
      <4>1. Top.from = f.from /\ Top.m \in {"pauseGame", "resetGame", "step"}
        BY <2>2, <2>8 DEF Calls
      <4> QED BY <1>1, <4>1 DEF Shape, Agree, CallsCoreFirst
    <3>2. CASE f.m = "run"
      <4>1. Top.m \in {"pauseGame", "resetGame"} /\ f.from = "GameRunning"
        BY <2>1, <2>2, <2>8, <3>2 DEF Calls, Shape, CallsCoreFirst
      <4>2. s \in {"GamePaused", "GameRunning"}
        BY <3>1, <4>1 DEF LC!Target
      <4> QED BY <2>8, <3>1, <3>2, <4>2 DEF Found, Agree, CallsCoreFirst
    <3>3. CASE f.m # "run"
      <4>1. /\ f.m \in {"pauseGame", "resumeGame", "resetGame", "step"}
            /\ Top.m \in {"resetGame", "step"}
        BY <2>2, <2>8, <3>3 DEF Calls
      <4>2. s = f.from /\ f.from \in {"GamePaused", "GameRunning"}
        BY <3>1, <4>1 DEF LC!Handles, LC!Sources, LC!Target
      <4>3. CASE f.m = "step"
        BY <2>8, <3>1, <4>2, <4>3
           DEF Found, Told, CallsCoreFirst, Leaves, CoreOf, LC!InGame
      <4>4. CASE f.m # "step"
        BY <2>8, <3>1, <4>1, <4>2, <4>4 DEF Found, Agree, Told, CallsCoreFirst
      <4> QED BY <4>3, <4>4
    <3> QED BY <3>2, <3>3
  <2>5. Found(f)'
    BY <2>2, <2>3, <2>4, <2>8 DEF Calls
  <2>6. /\ phase' = "running" <=> Running'
        /\ phase' \notin {"poll", "frame", "draw", "exit"}
    BY <1>1, <2>1 DEF Running, Chain
  <2>7. /\ \A i \in 1..Len(stack') : Shape(stack'[i])
        /\ \A i \in 1..(Len(stack') - 1) : Calls(stack'[i], stack'[i + 1])
    BY <1>1, <1>2
  <2> QED BY <2>1, <2>5, <2>6, <2>7 DEF Chain
<1> QED BY <1>3, <1>4

-----------------------------------------------------------------------------
(* A call of the loop or of the user, from an empty stack.                 *)
LEMMA OuterCallChain ==
  ASSUME TypeOK, Chain, stack = <<>>, NEW m \in LC!Method, Call(m, <<>>),
         phase' \in {"quitting", "drawn"}, UNCHANGED <<state, core, timer>>
  PROVE  Chain'
<1>0. Agree(state)
  BY DEF Chain
<1>1. CASE LC!Handles(m, state)
  <2>1. PICK g : g = [m |-> m, from |-> state, pc |-> Entry(m)]
    OBVIOUS
  <2>2. /\ g \in Frame /\ stack' = Append(<<>>, g) /\ g.m = m
        /\ g.from = state /\ g.pc = Entry(m)
    BY <1>1, <2>1, EntryType DEF Call, TypeOK, Frame
  <2>3. Shape(g)
    BY <1>1, <2>2 DEF Shape, Told, Entry, CallsCoreFirst, LC!Method, LC!Handles,
                      LC!Sources, LC!State, LC!InGame, TypeOK
  <2>4. g.pc \notin {"called", "quit", "return"} /\ (g.m \in CallsCoreFirst => g.pc = "ctx")
    BY <2>2 DEF Entry, CallsCoreFirst
  <2>5. Found(g)'
    BY <1>0, <2>2, <2>4 DEF Found, Agree, Told
  <2>6. m # "run"
    BY DEF LC!Method
  <2>7. PICK b \in Seq(Frame) : b = <<>> /\ Len(b) = 0
    BY EmptySeq
  <2>8. /\ \A i \in 1..Len(b) : Shape(b[i])
        /\ \A i \in 1..(Len(b) - 1) : Calls(b[i], b[i + 1])
    BY <2>7
  <2> QED BY <2>2, <2>3, <2>5, <2>6, <2>7, <2>8, PushChain
<1>2. CASE ~LC!Handles(m, state)
  <2>1. stack' = <<>>
    BY <1>2 DEF Call
  <2>2. Agree(state)'
    BY <1>0 DEF Agree
  <2> QED BY <2>1, <2>2, EmptySeq DEF Chain, Running
<1> QED BY <1>1, <1>2

(* A call of quit() or of a callback, in the state its caller found.       *)
LEMMA InnerCallChain ==
  ASSUME TypeOK, Chain, stack # <<>>,
         NEW p \in {"called", "quit", "return"}, NEW m \in LC!Method, Call(m, Go(p)),
         LC!Handles(m, state), Agree(state),
         NEW f, f = [Top EXCEPT !.pc = p], Shape(f),
         NEW g, g = [m |-> m, from |-> state, pc |-> Entry(m)], Calls(f, g),
         phase' = phase, UNCHANGED <<state, core, timer>>
  PROVE  Chain'
<1> DEFINE n == Len(stack)
<1>1. p \in PC \ {"ctx"}
  BY DEF PC
<1>2. /\ n \in Nat \ {0} /\ Go(p) \in Seq(Frame) /\ Len(Go(p)) = n
      /\ Go(p)[n] = f /\ \A i \in 1..(n - 1) : Go(p)[i] = stack[i]
      /\ Top \in Frame
  BY <1>1, StackOperations, GoOperations DEF TypeOK
<1>3. /\ g \in Frame /\ stack' = Append(Go(p), g) /\ g.m = m
      /\ g.from = state /\ g.pc = Entry(m)
  BY EntryType DEF Call, TypeOK, Frame
<1>4. Shape(g)
  BY <1>3 DEF Shape, Told, Entry, CallsCoreFirst, LC!Method, LC!Handles,
              LC!Sources, LC!State, LC!InGame, TypeOK
<1>5. g.pc \notin {"called", "quit", "return"} /\ (g.m \in CallsCoreFirst => g.pc = "ctx")
  BY <1>3 DEF Entry, CallsCoreFirst
<1>6. Found(g)'
  BY <1>3, <1>5 DEF Found, Agree, Told
<1>7. f.m = Top.m /\ f.from = Top.from
  BY <1>2 DEF Frame
<1> DEFINE b == Go(p)
<1>9. \A i \in 1..n : Shape(b[i])
  <2> SUFFICES ASSUME NEW i \in 1..n PROVE Shape(b[i])
    OBVIOUS
  <2>1. CASE i = n
    BY <1>2, <2>1
  <2>2. CASE i # n
    BY <1>2, <2>2 DEF Chain
  <2> QED BY <2>1, <2>2
<1>10. \A i \in 1..(n - 1) : Calls(b[i], b[i + 1])
  <2> SUFFICES ASSUME NEW i \in 1..(n - 1) PROVE Calls(b[i], b[i + 1])
    OBVIOUS
  <2>1. Calls(stack[i], stack[i + 1]) /\ b[i] = stack[i]
    BY <1>2 DEF Chain
  <2>2. CASE i + 1 = n
    <3>1. stack[i + 1] = Top /\ b[i + 1] = f
      BY <1>2, <2>2 DEF Top
    <3> QED BY <1>7, <2>1, <3>1 DEF Calls
  <2>3. CASE i + 1 # n
    <3>1. i + 1 \in 1..(n - 1)
      BY <1>2, <2>3
    <3> QED BY <1>2, <2>1, <3>1
  <2> QED BY <2>2, <2>3
<1>11. m # "run"
  BY DEF LC!Method
<1>12. b[1].m = stack[1].m
  <2>1. CASE n = 1
    BY <1>2, <1>7, <2>1 DEF Top
  <2>2. CASE n # 1
    BY <1>2, <2>2
  <2> QED BY <2>1, <2>2
<1>13. /\ phase' \in {"quitting", "running", "drawn"}
       /\ phase' = "running" <=> b # <<>> /\ b[1].m = "run"
  <2>1. b # <<>>
    BY <1>2, EmptySeq
  <2> QED BY <1>12, <2>1 DEF Chain, Running, TypeOK
<1> HIDE DEF b, n
<1>14. Calls(b[Len(b)], g) /\ Len(b) = n
  BY <1>2 DEF b
<1> QED
  BY <1>2, <1>3, <1>4, <1>6, <1>9, <1>10, <1>11, <1>13, <1>14, PushChain
     DEF b

-----------------------------------------------------------------------------
(* The state a method ends in asks of the core what the method's call to   *)
(* the front-end left, and of the timer what the handler did to it.        *)
LEMMA TargetCore ==
  ASSUME NEW s \in LC!State, NEW m \in LC!Method \ {"quit"}, LC!Handles(m, s)
  PROVE  CoreOf(LC!Target(m, s)) =
           IF m \in CallsCoreFirst THEN Leaves[m] ELSE CoreOf(s)
<1> USE DEF LC!Handles, LC!Sources, LC!InGame
<1>1. CASE m = "loadCore"
  BY <1>1 DEF LC!Target, CoreOf, Leaves, CallsCoreFirst
<1>2. CASE m = "loadGame"
  BY <1>2 DEF LC!Target, CoreOf, Leaves, CallsCoreFirst
<1>3. CASE m = "unloadGame"
  BY <1>3 DEF LC!Target, CoreOf, Leaves, CallsCoreFirst
<1>4. CASE m = "unloadCore"
  BY <1>4 DEF LC!Target, CoreOf, Leaves, CallsCoreFirst
<1>5. CASE m = "step"
  BY <1>5 DEF LC!Target, CoreOf, Leaves, CallsCoreFirst
<1>6. CASE m = "startGame"
  BY <1>6 DEF LC!Target, CoreOf, CallsCoreFirst
<1>7. CASE m = "pauseGame"
  BY <1>7 DEF LC!Target, CoreOf, CallsCoreFirst
<1>8. CASE m = "resumeGame"
  BY <1>8 DEF LC!Target, CoreOf, CallsCoreFirst
<1>9. CASE m = "resetGame"
  BY <1>9 DEF LC!Target, CoreOf, CallsCoreFirst
<1> QED BY <1>1, <1>2, <1>3, <1>4, <1>5, <1>6, <1>7, <1>8, <1>9 DEF LC!Method

LEMMA TargetTimer ==
  ASSUME NEW s \in LC!State, NEW m \in LC!Method \ {"quit"}, LC!Handles(m, s),
         timer = TimerOf(s)
  PROVE  TimerAfter(m) = TimerOf(LC!Target(m, s))
<1> USE DEF LC!Handles, LC!Sources, LC!InGame
<1>1. CASE m \in {"loadCore", "loadGame", "unloadCore", "unloadGame"}
  <2>1. LC!Target(m, s) \in {"ConsoleLoaded", "GameLoaded", "Start"}
    BY <1>1 DEF LC!Target
  <2>2. TimerOf(LC!Target(m, s)) = "stopped"
    BY <2>1 DEF TimerOf
  <2>3. m = "unloadGame" \/ s \in {"Start", "ConsoleLoaded"}
    BY <1>1
  <2>4. TimerAfter(m) = "stopped"
    BY <1>1, <2>3 DEF TimerOf, TimerAfter
  <2> QED BY <2>2, <2>4
<1>2. CASE m = "step"
  BY <1>2 DEF LC!Target, TimerOf, TimerAfter
<1>3. CASE m = "startGame"
  BY <1>3 DEF LC!Target, TimerOf, TimerAfter
<1>4. CASE m = "pauseGame"
  BY <1>4 DEF LC!Target, TimerOf, TimerAfter
<1>5. CASE m = "resumeGame"
  BY <1>5 DEF LC!Target, TimerOf, TimerAfter
<1>6. CASE m = "resetGame"
  BY <1>6 DEF LC!Target, TimerOf, TimerAfter
<1> QED BY <1>1, <1>2, <1>3, <1>4, <1>5, <1>6 DEF LC!Method

LEMMA LifeCycleStepChain ==
  ASSUME ConsiderateScripts, TypeOK, Chain, LifeCycleStep
  PROVE  Chain'
<1>0. stack # <<>> /\ Top \in Frame /\ Shape(Top) /\ Found(Top) /\ phase' = phase
  BY TopShape DEF LifeCycleStep, CoreAccepts, CoreRefuses, ScriptCall, Finish,
                  Broadcast, ResetRefused, QuitUnloads, QuitAgain, QuitReturns, At
<1>1. CASE CoreAccepts
  <2>1. PICK f : f = [Top EXCEPT !.pc = "event"]
    OBVIOUS
  <2>2. f.m = Top.m /\ f.from = Top.from /\ f.pc = "event" /\ "event" \in PC \ {"ctx"}
    BY <1>0, <2>1 DEF Frame, PC
  <2>3. Top.m \in CallsCoreFirst /\ Agree(Top.from) /\ Top.pc = "ctx"
    BY <1>0, <1>1 DEF CoreAccepts, At, Shape, Found, Told
  <2>4. Shape(f)
    BY <1>0, <2>2, <2>3 DEF Shape, CallsCoreFirst, Told
  <2>5. Found(f)'
    BY <1>1, <2>2, <2>3 DEF CoreAccepts, Found, Agree, Told
  <2>6. stack' = Go("event")
    BY <1>1 DEF CoreAccepts
  <2> QED BY <1>0, <2>1, <2>2, <2>4, <2>5, <2>6, GoChain
<1>2. CASE CoreRefuses
  <2>1. Top.m \in CallsCoreFirst /\ Agree(Top.from) /\ LC!Handles(Top.m, Top.from)
    BY <1>0, <1>2 DEF CoreRefuses, At, Shape, Found, Told
  <2>2. CoreUnloads => core = Needs[Top.m]
    BY <2>1 DEF Agree, CoreOf, Needs, LC!Handles, LC!Sources, LC!InGame,
                CallsCoreFirst
  <2>3. Top.m = "unloadCore" => ~CoreUnloads
    BY <1>2, <2>2 DEF CoreUnloads, CoreRefuses, Refuses
  <2>4. CASE Top.m = "step"
    <3>1. PICK f : f = [Top EXCEPT !.pc = "event"]
      OBVIOUS
    <3>2. f.m = "step" /\ f.from = Top.from /\ f.pc = "event" /\ "event" \in PC \ {"ctx"}
      BY <1>0, <2>4, <3>1 DEF Frame, PC
    <3>3. Shape(f)
      BY <2>1, <2>4, <3>2 DEF Shape, CallsCoreFirst, Told
    <3>4. Found(f)'
      BY <1>2, <2>1, <2>2, <2>4, <3>2
         DEF CoreRefuses, Found, Agree, CallsCoreFirst, Needs, Leaves, Told
    <3>5. stack' = Go("event")
      BY <1>2, <2>4 DEF CoreRefuses
    <3> QED BY <1>0, <3>1, <3>2, <3>3, <3>4, <3>5, GoChain
  <2>6. CASE Top.m = "unloadCore"
    <3>1. PICK f : f = [Top EXCEPT !.pc = "assign"]
      OBVIOUS
    <3>2. /\ f.m = "unloadCore" /\ f.from = Top.from /\ f.pc = "assign"
          /\ "assign" \in PC \ {"ctx"}
      BY <1>0, <2>6, <3>1 DEF Frame, PC
    <3>3. f.from = "ConsoleLoaded"
      BY <2>1, <2>6, <3>2 DEF LC!Handles, LC!Sources
    <3>4. Shape(f)
      BY <2>3, <2>6, <3>2, <3>3 DEF Shape
    <3>5. stack' = Go("assign") /\ UNCHANGED <<state, core, timer>>
      BY <1>2, <2>6 DEF CoreRefuses
    <3>6. Found(f)'
      BY <2>1, <3>2, <3>5 DEF Found, Agree, Told
    <3> QED BY <1>0, <3>1, <3>2, <3>4, <3>5, <3>6, GoChain
  <2>5. CASE Top.m \notin {"step", "unloadCore"}
    <3>1. Return(FALSE) /\ UNCHANGED <<state, core, timer>>
      BY <1>2, <2>5 DEF CoreRefuses
    <3>2. PICK s : s = Top.from
      OBVIOUS
    <3>3. Agree(s)'
      BY <2>1, <3>1, <3>2 DEF Agree
    <3>4. Top.m # "quit" /\ Top.m # "run"
      BY <2>1 DEF CallsCoreFirst
    <3> QED BY <1>0, <2>5, <3>1, <3>2, <3>3, <3>4, ReturnChain
  <2> QED BY <2>4, <2>5, <2>6
<1>3. ASSUME NEW m \in LC!Method, ScriptCall(m)
      PROVE  Chain'
  <2>1. /\ At("event") /\ Top.pc = "event" /\ <<EventOf(Top.m), m>> \in ScriptCalls
        /\ Call(m, Go("called")) /\ UNCHANGED <<state, core, timer>>
    BY <1>3 DEF ScriptCall, At
  <2>2. PICK f : f = [Top EXCEPT !.pc = "called"]
    OBVIOUS
  <2>3. f.m = Top.m /\ f.from = Top.from /\ f.pc = "called" /\ "called" \in PC \ {"ctx"}
    BY <1>0, <2>2 DEF Frame, PC
  <2>4. Shape(f)
    BY <1>0, <2>1, <2>3 DEF Shape, Told
  <2>5. CASE LC!Handles(m, state)
    <3>1. /\ state = Top.from /\ Agree(state)
          /\ \/ Top.m = "run" /\ m \in {"pauseGame", "resetGame"}
             \/ /\ Top.m \in {"pauseGame", "resumeGame", "resetGame", "step"}
                /\ m \in {"resetGame", "step"}
      BY <2>1, <2>5, CallbackCalls
    <3>2. PICK g : g = [m |-> m, from |-> state, pc |-> Entry(m)]
      OBVIOUS
    <3>3. g.m = m /\ g.from = state
      BY <3>2
    <3>4. Calls(f, g)
      BY <2>3, <3>1, <3>3 DEF Calls
    <3> QED BY <1>0, <2>1, <2>2, <2>4, <2>5, <3>1, <3>2, <3>4, InnerCallChain
  <2>6. CASE ~LC!Handles(m, state)
    <3>1. stack' = Go("called")
      BY <2>1, <2>6 DEF Call
    <3>2. CASE Top.m = "run"
      <4>1. Agree("GameRunning")
        BY <1>0, <2>1, <3>2 DEF Shape, Found, Told, CallsCoreFirst
      <4>2. Found(f)'
        BY <2>1, <2>3, <3>2, <4>1 DEF Found, Agree, Told, CallsCoreFirst
      <4> QED BY <1>0, <2>2, <2>3, <2>4, <3>1, <4>2, GoChain
    <3>3. CASE Top.m # "run"
      <4>1. Found(f)'
        BY <1>0, <2>1, <2>3, <3>3 DEF Found, Agree, Told
      <4> QED BY <1>0, <2>2, <2>3, <2>4, <3>1, <4>1, GoChain
    <3> QED BY <3>2, <3>3
  <2> QED BY <2>5, <2>6
<1>4. CASE Finish
  <2>1. Top.m # "run" /\ Return(TRUE)
    BY <1>4 DEF Finish
  <2>2. PICK s : s = LC!Target(Top.m, Top.from)
    OBVIOUS
  <2>3. state' = s /\ core' = core
    BY <1>4, <2>2 DEF Finish
  <2>4. ASSUME Top.m = "quit"
        PROVE  Agree(s)'
    <3>1. Top.pc = "assign" /\ Top.from = "Start"
      BY <1>0, <1>4, <2>4 DEF Finish, Broadcast, At, Shape, CallsCoreFirst
    <3>2. s = "Quit" /\ Agree("Start") /\ timer' = timer
      BY <1>0, <1>4, <2>2, <2>4, <3>1 DEF Found, Finish, LC!Target, Told
    <3> QED BY <2>3, <3>2 DEF Agree, CoreOf, TimerOf, LC!InGame
  <2>6. ASSUME Top.m = "unloadCore", Top.pc = "assign"
        PROVE  Agree(s)'
    <3>1. Top.from = "ConsoleLoaded" /\ ~CoreUnloads
      BY <1>0, <2>6 DEF Shape, Told
    <3>2. s = "Start" /\ Agree("ConsoleLoaded") /\ timer' = timer
      BY <1>0, <1>4, <2>2, <2>6, <3>1 DEF Found, Finish, LC!Target, Told
    <3> QED BY <2>3, <3>1, <3>2 DEF Agree, TimerOf
  <2>5. ASSUME Top.m # "quit", ~(Top.m = "unloadCore" /\ Top.pc = "assign")
        PROVE  Agree(s)'
    <3>1. PICK m, r : m = Top.m /\ r = Top.from
      OBVIOUS
    <3>2. /\ m \in LC!Method \ {"quit"} /\ r \in LC!State
          /\ Top.pc \in Told /\ LC!Handles(m, r)
      BY <1>0, <1>4, <2>1, <2>5, <3>1
         DEF Frame, Shape, Finish, Broadcast, At, CallsCoreFirst, Told
    <3>3. /\ CoreUnloads => core = IF m \in CallsCoreFirst THEN Leaves[m] ELSE CoreOf(r)
          /\ timer = TimerOf(r)
      BY <1>0, <2>1, <3>1, <3>2 DEF Found, Agree, Told
    <3>4. s = LC!Target(m, r) /\ timer' = TimerAfter(m)
      BY <1>4, <2>2, <3>1, <3>2 DEF Finish, Told
    <3> QED BY <2>3, <3>2, <3>3, <3>4, TargetCore, TargetTimer DEF Agree
  <2>7. Agree(s)'
    BY <2>4, <2>5, <2>6
  <2> QED BY <1>0, <2>1, <2>2, <2>7, ReturnChain
<1>5. CASE ResetRefused
  <2>1. /\ Top.m = "resetGame" /\ Return(FALSE)
        /\ UNCHANGED <<state, core, timer>>
    BY <1>5 DEF ResetRefused
  <2>2. Agree(Top.from)
    BY <1>0, <2>1 DEF Shape, Found, CallsCoreFirst, Told
  <2>3. PICK s : s = Top.from
    OBVIOUS
  <2>4. Agree(s)'
    BY <2>1, <2>2, <2>3 DEF Agree
  <2> QED BY <1>0, <2>1, <2>3, <2>4, ReturnChain
<1>6. CASE QuitUnloads
  <2>1. Top.m = "quit" /\ Top.from \in LC!InGame \union {"ConsoleLoaded"}
    BY <1>0, <1>6 DEF QuitUnloads, At, Shape, CallsCoreFirst, Told
  <2>2. Agree(Top.from) /\ state = Top.from
    BY <1>0, <1>6, <2>1 DEF QuitUnloads, At, Found, CallsCoreFirst, Agree, Told
  <2>3. PICK m : m = Unload(Top.from)
    OBVIOUS
  <2>4. /\ m \in LC!Method /\ m # "quit" /\ LC!Handles(m, state)
        /\ Call(m, Go("quit"))
    BY <1>6, <2>1, <2>2, <2>3
       DEF QuitUnloads, Unload, LC!Method, LC!Handles, LC!Sources, LC!InGame
  <2>5. PICK f, g : /\ f = [Top EXCEPT !.pc = "quit"]
                    /\ g = [m |-> m, from |-> state, pc |-> Entry(m)]
    OBVIOUS
  <2>6. Calls(f, g) /\ Shape(f)
    BY <1>0, <2>1, <2>2, <2>3, <2>5 DEF Calls, Frame, Shape
  <2>7. UNCHANGED <<state, core, timer>> /\ Agree(state)
    BY <1>6, <2>2 DEF QuitUnloads
  <2> QED BY <1>0, <2>1, <2>4, <2>5, <2>6, <2>7, InnerCallChain
<1>7. CASE QuitAgain
  <2>1. /\ Top.m = "quit" /\ Top.from \in LC!InGame \union {"ConsoleLoaded"}
        /\ Top.pc = "quit"
    BY <1>0, <1>7 DEF QuitAgain, At, Shape, CallsCoreFirst, Told
  <2>2. /\ Agree(IF result THEN Below(Top.from) ELSE Top.from)
        /\ result \/ Top.from \in LC!InGame
    BY <1>0, <2>1 DEF Found, Told
  <2>3. UNCHANGED <<state, core, timer>>
    BY <1>7 DEF QuitAgain
  <2>4. CASE result
    <3>1. Call("quit", Go("return")) /\ Agree(state) /\ state = Below(Top.from)
      BY <1>7, <2>2, <2>4 DEF QuitAgain, Agree
    <3>2. /\ "quit" \in LC!Method /\ LC!Handles("quit", state)
          /\ state # "Quit"
      BY <3>1 DEF Below, LC!Method, LC!Handles, LC!Sources, LC!State
    <3>3. PICK f, g : /\ f = [Top EXCEPT !.pc = "return"]
                      /\ g = [m |-> "quit", from |-> state, pc |-> Entry("quit")]
      OBVIOUS
    <3>4. Calls(f, g) /\ Shape(f)
      BY <1>0, <2>1, <3>1, <3>3 DEF Calls, Frame, Shape
    <3> QED BY <1>0, <2>1, <2>3, <3>1, <3>2, <3>3, <3>4, InnerCallChain
  <2>5. CASE ~result
    <3>1. Return(FALSE) /\ Agree(Top.from) /\ Top.from \in LC!InGame
      BY <1>7, <2>2, <2>5 DEF QuitAgain
    <3>2. PICK s : s = Top.from
      OBVIOUS
    <3>3. Agree(s)'
      BY <2>3, <3>1, <3>2 DEF Agree
    <3> QED BY <1>0, <2>1, <3>1, <3>2, <3>3, ReturnChain
  <2> QED BY <2>4, <2>5
<1>8. CASE QuitReturns
  <2>1. Top.m = "quit" /\ Top.pc = "return"
    BY <1>0, <1>8 DEF QuitReturns, At, Shape, CallsCoreFirst, Told
  <2>2. result /\ Agree("Quit")
    BY <1>0, <2>1 DEF Found, Told
  <2>3. Return(TRUE) /\ UNCHANGED <<state, core, timer>>
    BY <1>8, <2>2 DEF QuitReturns, TypeOK
  <2>4. PICK s : s = "Quit"
    OBVIOUS
  <2>5. s = LC!Target(Top.m, Top.from) /\ Agree(s)'
    BY <2>1, <2>2, <2>3, <2>4 DEF LC!Target, Agree
  <2> QED BY <1>0, <2>1, <2>3, <2>5, ReturnChain
<1> QED BY <1>1, <1>2, <1>3, <1>4, <1>5, <1>6, <1>7, <1>8 DEF LifeCycleStep

LEMMA LoopStepChain ==
  ASSUME TypeOK, Chain, LoopStep
  PROVE  Chain'
<1>0. "quit" \in LC!Method
  BY DEF LC!Method
<1>1. CASE PollQuit
  <2>1. stack = <<>> /\ phase' \in {"quitting", "drawn"}
    BY <1>1 DEF PollQuit, Chain
  <2> QED BY <1>0, <1>1, <2>1, OuterCallChain DEF PollQuit
<1>2. CASE QuitPolled \/ EndPoll \/ NoFrame \/ EndDraw
  <2>1. /\ stack = <<>> /\ stack' = <<>> /\ phase' # "running"
        /\ UNCHANGED <<state, core, timer>>
    BY <1>2 DEF QuitPolled, EndPoll, NoFrame, EndDraw, Chain
  <2>2. Agree(state)'
    BY <2>1 DEF Chain, Agree
  <2> QED BY <2>1, <2>2, EmptySeq DEF Chain, Running
<1>3. CASE RunFrame
  <2>1. PICK g : g = [m |-> "run", from |-> state, pc |-> "event"]
    OBVIOUS
  <2>2. /\ stack' = <<g>> /\ Len(stack') = 1 /\ stack'[1] = g /\ stack' # <<>>
        /\ Top' = g /\ g.m = "run" /\ g.pc = "event" /\ g.from = "GameRunning"
    BY <1>3, <2>1 DEF RunFrame, Top
  <2>3. Shape(g)
    BY <2>2 DEF Shape, Told
  <2>4. Agree("GameRunning")
    BY <1>3 DEF RunFrame, Chain, Agree
  <2>5. Found(g)'
    BY <1>3, <2>2, <2>4 DEF RunFrame, Found, Agree, CallsCoreFirst, Told
  <2>6. Running' /\ phase' = "running"
    BY <1>3, <2>2 DEF Running, RunFrame
  <2> QED BY <2>2, <2>3, <2>5, <2>6 DEF Chain
<1>4. CASE FrameRun
  <2>1. /\ stack # <<>> /\ Top.m = "run" /\ stack' = <<>> /\ phase' = "draw"
        /\ UNCHANGED <<state, core, timer>>
    BY <1>4 DEF FrameRun, Broadcast, At
  <2>2. Agree(state)
    BY <2>1, TopShape DEF Shape, Found, Agree, CallsCoreFirst, Told
  <2>3. Agree(state)'
    BY <2>1, <2>2 DEF Agree
  <2> QED BY <2>1, <2>3, EmptySeq DEF Chain, Running
<1>5. ASSUME NEW m \in LC!Method, UserCall(m)
      PROVE  Chain'
  <2>1. stack = <<>> /\ phase' \in {"quitting", "drawn"}
    BY <1>5 DEF UserCall, Chain
  <2> QED BY <1>5, <2>1, OuterCallChain DEF UserCall
<1> QED BY <1>1, <1>2, <1>3, <1>4, <1>5 DEF LoopStep

LEMMA InitChain == Init => Chain
<1> SUFFICES ASSUME Init PROVE Chain
  OBVIOUS
<1>1. stack = <<>> /\ phase = "poll"
  BY DEF Init
<1>2. Agree(state)
  BY DEF Init, Agree, CoreOf, TimerOf, LC!InGame
<1> QED BY <1>1, <1>2, EmptySeq DEF Chain, Running

LEMMA NextChain ==
  ASSUME ConsiderateScripts, TypeOK, Chain, [Next]_vars
  PROVE  Chain'
<1>1. CASE UNCHANGED vars
  BY <1>1 DEF vars, Chain, Running, Top, Found, Agree
<1> QED BY <1>1, LifeCycleStepChain, LoopStepChain DEF Next, Exited

LEMMA RunsChain ==
  ASSUME ConsiderateScripts
  PROVE  Runs => [](TypeOK /\ Chain)
<1>1. TypeOK /\ Chain /\ [Next]_vars => TypeOK' /\ Chain'
  BY NextType, NextChain
<1> QED BY <1>1, InitType, InitChain, PTL DEF Runs

-----------------------------------------------------------------------------
LEMMA RunsConsistent ==
  ASSUME ConsiderateScripts, CoreUnloads
  PROVE  Runs => []Consistent
<1>1. Chain => Consistent
  BY DEF Chain, Agree, CoreOf, TimerOf, Consistent, CoreInStep, TimerInStep
<1> QED BY <1>1, RunsChain, PTL

(* Between two calls the state machine's state says what the front-end has *)
(* loaded and what _runningTime does, whatever considerate callbacks call  *)
(* and the front-end refuses apart from unloading the core.                *)
THEOREM SpecConsistent ==
  ASSUME ConsiderateScripts, CoreUnloads
  PROVE  Spec => []Consistent
BY RunsConsistent, PTL DEF Runs, Spec

-----------------------------------------------------------------------------
LEMMA PhaseOfLifeCycleStep ==
  ASSUME LifeCycleStep
  PROVE  stack # <<>> /\ phase' = phase
BY DEF LifeCycleStep, CoreAccepts, CoreRefuses, ScriptCall, Finish, Broadcast,
       ResetRefused, QuitUnloads, QuitAgain, QuitReturns, At

LEMMA RunsCallsInProtocol ==
  ASSUME ConsiderateScripts, CoreUnloads
  PROVE  Runs => CallsInProtocol
<1> DEFINE P == /\ At("ctx") => core = Needs[Top.m]
                /\ (/\ Broadcast /\ Top.m = "resetGame"
                    /\ Len(stack') < Len(stack)) => core = Needs["resetGame"]
                /\ (phase = "frame" /\ phase' = "running") => core = "game"
<1>1. ASSUME TypeOK, Chain, [Next]_vars
      PROVE  [P]_vars
  <2>1. ASSUME At("ctx")
        PROVE  core = Needs[Top.m]
    <3>1. Shape(Top) /\ Found(Top) /\ Top.pc = "ctx"
      BY <1>1, <2>1, TopShape DEF At
    <3>2. /\ Top.m \in CallsCoreFirst /\ Agree(Top.from)
          /\ LC!Handles(Top.m, Top.from)
      BY <3>1 DEF Shape, Found, Told
    <3> QED
      BY <3>2 DEF Agree, CoreOf, Needs, LC!Handles, LC!Sources, LC!InGame,
                  CallsCoreFirst
  <2>2. ASSUME Broadcast, Top.m = "resetGame"
        PROVE  core = Needs["resetGame"]
    <3>1. Shape(Top) /\ Found(Top)
      BY <1>1, <2>2, TopShape DEF Broadcast, At
    <3>2. LC!Handles("resetGame", Top.from) /\ Agree(Top.from)
      BY <2>2, <3>1 DEF Shape, Found, CallsCoreFirst, Told
    <3> QED
      BY <3>2 DEF Agree, CoreOf, Needs, LC!Handles, LC!Sources, LC!InGame
  <2>3. ASSUME phase = "frame", phase' = "running"
        PROVE  core = "game"
    <3>1. RunFrame
      BY <1>1, <2>3, PhaseOfLifeCycleStep
         DEF Next, LoopStep, PollQuit, QuitPolled, EndPoll, FrameRun, NoFrame,
             UserCall, EndDraw, Exited, vars
    <3> QED BY <1>1, <2>3, <3>1 DEF RunFrame, Chain, Agree, CoreOf, LC!InGame
  <2> QED BY <2>1, <2>2, <2>3
<1>2. Runs => [][P]_vars
  BY <1>1, RunsChain, PTL DEF Runs
<1> QED BY <1>2 DEF CallsInProtocol

(* Each of the three kinds of call to the front-end finds the core as the  *)
(* libretro protocol wants it.                                             *)
THEOREM SpecCallsInProtocol ==
  ASSUME ConsiderateScripts, CoreUnloads
  PROVE  Spec => CallsInProtocol
BY RunsCallsInProtocol, PTL DEF Runs, Spec

-----------------------------------------------------------------------------
(* The call that leaves the stack empty: quit() or another method returned *)
(* true in its target state, or it returned false where it started.        *)
LEMMA LastReturn ==
  ASSUME TypeOK, Chain, Next, stack # <<>>, stack' = <<>>,
         Top.m # "run"
  PROVE  /\ LC!Handles(Top.m, Top.from)
         /\ state' = IF result' THEN LC!Target(Top.m, Top.from) ELSE Top.from
<1>0. /\ Shape(Top) /\ Found(Top) /\ LifeCycleStep
      /\ \A p \in PC \ {"ctx"} : Go(p) # <<>>
  <2>1. LifeCycleStep
    BY EmptySeq
       DEF Next, LoopStep, PollQuit, QuitPolled, EndPoll, RunFrame, FrameRun,
           NoFrame, UserCall, EndDraw, Exited, Chain, vars
  <2>2. \A p \in PC \ {"ctx"} : Go(p) # <<>>
    BY GoOperations, StackOperations, EmptySeq DEF TypeOK
  <2> QED BY <2>1, <2>2, TopShape
<1>1. /\ ~CoreAccepts /\ ~QuitUnloads
      /\ QuitAgain => ~result
      /\ \A m \in LC!Method : ~ScriptCall(m)
  <2>1. ASSUME NEW p \in PC \ {"ctx"}, NEW m \in LC!Method, Call(m, Go(p))
        PROVE  FALSE
    <3>1. Go(p) # <<>> /\ Go(p) \in Seq(Frame)
      BY <1>0, GoOperations DEF TypeOK
    <3>2. [m |-> m, from |-> state, pc |-> Entry(m)] \in Frame
      BY EntryType DEF Frame, TypeOK
    <3> QED BY <2>1, <3>1, <3>2, EmptySeq DEF Call
  <2>2. {"event", "called", "quit", "return"} \subseteq PC \ {"ctx"}
    BY DEF PC
  <2>3. {"quit", "unloadCore", "unloadGame"} \subseteq LC!Method
    BY DEF LC!Method
  <2>4. ~CoreAccepts
    BY <1>0, <2>2 DEF CoreAccepts
  <2>5. ~QuitUnloads
    BY <2>1, <2>2, <2>3 DEF QuitUnloads
  <2>6. QuitAgain => ~result
    BY <2>1, <2>2, <2>3 DEF QuitAgain
  <2>7. \A m \in LC!Method : ~ScriptCall(m)
    BY <2>1, <2>2 DEF ScriptCall
  <2> QED BY <2>4, <2>5, <2>6, <2>7
<1>2. CASE CoreRefuses
  <2>1. /\ Top.m \in CallsCoreFirst /\ Agree(Top.from)
        /\ LC!Handles(Top.m, Top.from)
    BY <1>0, <1>2 DEF CoreRefuses, At, Shape, Found, Told
  <2>2. Top.m # "unloadCore" /\ Top.m # "step"
    BY <1>0, <1>2 DEF CoreRefuses, PC
  <2> QED BY <1>2, <2>1, <2>2 DEF CoreRefuses, Return, Agree
<1>3. CASE Finish
  <2>1. LC!Handles(Top.m, Top.from)
    BY <1>0, <1>3
       DEF Finish, Broadcast, At, Shape, CallsCoreFirst, LC!Handles, LC!Sources,
           LC!State, Told
  <2> QED BY <1>3, <2>1 DEF Finish, Return
<1>4. CASE ResetRefused
  <2>1. Agree(Top.from) /\ LC!Handles(Top.m, Top.from)
    BY <1>0, <1>4
       DEF ResetRefused, Shape, Found, CallsCoreFirst, LC!Handles, LC!Sources, Told
  <2> QED BY <1>4, <2>1 DEF ResetRefused, Return, Agree
<1>5. CASE QuitAgain \/ QuitReturns
  <2>1. /\ Top.m = "quit" /\ Top.pc \in {"quit", "return"}
        /\ Top.from \in LC!InGame \union {"ConsoleLoaded"}
    BY <1>0, <1>5 DEF QuitAgain, QuitReturns, At, Shape, CallsCoreFirst, Told
  <2>2. LC!Handles(Top.m, Top.from) /\ LC!Target(Top.m, Top.from) = "Quit"
    BY <2>1 DEF LC!Handles, LC!Sources, LC!Target, LC!State, LC!InGame
  <2>3. CASE QuitAgain
    BY <1>0, <1>1, <2>1, <2>2, <2>3 DEF QuitAgain, At, Found, Agree, Return, Told
  <2>4. CASE QuitReturns
    BY <1>0, <2>1, <2>2, <2>4 DEF QuitReturns, At, Found, Agree, Return, Told
  <2> QED BY <1>5, <2>3, <2>4
<1> QED BY <1>0, <1>1, <1>2, <1>3, <1>4, <1>5 DEF LifeCycleStep

LEMMA RunsQuitAllOrNothing ==
  ASSUME ConsiderateScripts
  PROVE  Runs => QuitAllOrNothing
<1> DEFINE P == (/\ Len(stack) = 1 /\ Top.m = "quit" /\ stack' = <<>>)
                => state' = IF result' THEN "Quit" ELSE Top.from
<1>1. ASSUME TypeOK, Chain, [Next]_vars
      PROVE  [P]_vars
  <2>1. ASSUME Next, Len(stack) = 1, Top.m = "quit", stack' = <<>>
        PROVE  state' = IF result' THEN "Quit" ELSE Top.from
    <3>1. stack # <<>>
      BY <1>1, <2>1, EmptySeq
    <3>2. LC!Target(Top.m, Top.from) = "Quit"
      BY <2>1 DEF LC!Target
    <3> QED BY <1>1, <2>1, <3>1, <3>2, LastReturn
  <2> QED BY <1>1, <2>1
<1>2. Runs => [][P]_vars
  BY <1>1, RunsChain, PTL DEF Runs
<1> QED BY <1>2 DEF QuitAllOrNothing

(* quit() ends in Quit, or returns false with the state it started from,   *)
(* however its chain of unloads goes.                                      *)
THEOREM SpecQuitAllOrNothing ==
  ASSUME ConsiderateScripts
  PROVE  Spec => QuitAllOrNothing
BY RunsQuitAllOrNothing, PTL DEF Runs, Spec

-----------------------------------------------------------------------------
(* The outermost call stays what it is, and keeps the state it was entered *)
(* in.                                                                     *)
SameCall(f, g) == f.m = g.m /\ f.from = g.from

LEMMA BottomKept ==
  ASSUME TypeOK, stack # <<>>
  PROVE  /\ \A p \in PC \ {"ctx"} :
              /\ Go(p) \in Seq(Frame) /\ Go(p) # <<>>
              /\ SameCall(Go(p)[1], stack[1])
              /\ \A m \in LC!Method :
                   Call(m, Go(p)) => stack' # <<>> /\ SameCall(stack'[1], stack[1])
         /\ Callers # <<>> => SameCall(Callers[1], stack[1])
<1> DEFINE n == Len(stack)
<1>1. /\ n \in Nat \ {0} /\ Top \in Frame /\ Callers \in Seq(Frame)
      /\ Len(Callers) = n - 1 /\ \A i \in 1..(n - 1) : Callers[i] = stack[i]
  BY StackOperations DEF TypeOK
<1>2. ASSUME NEW p \in PC \ {"ctx"}
      PROVE  /\ Go(p) \in Seq(Frame) /\ Go(p) # <<>> /\ Len(Go(p)) = n
             /\ SameCall(Go(p)[1], stack[1])
  <2>1. /\ Go(p) \in Seq(Frame) /\ Len(Go(p)) = n
        /\ Go(p)[n] = [Top EXCEPT !.pc = p]
        /\ \A i \in 1..(n - 1) : Go(p)[i] = stack[i]
    BY GoOperations DEF TypeOK
  <2>2. Go(p) # <<>>
    BY <1>1, <2>1, EmptySeq
  <2>3. CASE n = 1
    BY <1>1, <2>1, <2>3 DEF Frame, Top, SameCall
  <2>4. CASE n # 1
    BY <1>1, <2>1, <2>4 DEF SameCall
  <2> HIDE DEF n
  <2> QED BY <2>1, <2>2, <2>3, <2>4
<1> HIDE DEF n
<1>3. ASSUME NEW p \in PC \ {"ctx"}, NEW m \in LC!Method, Call(m, Go(p))
      PROVE  stack' # <<>> /\ SameCall(stack'[1], stack[1])
  <2>1. PICK b \in Seq(Frame), g \in Frame :
          /\ b = Go(p) /\ g = [m |-> m, from |-> state, pc |-> Entry(m)]
    BY <1>2, EntryType DEF Frame, TypeOK
  <2>2. Len(b) = n /\ b # <<>> /\ SameCall(b[1], stack[1])
    BY <1>2, <2>1
  <2>3. Append(b, g) # <<>> /\ Append(b, g)[1] = b[1]
    BY <1>1, <2>2, EmptySeq
  <2>4. stack' = Append(b, g) \/ stack' = b
    BY <1>3, <2>1 DEF Call
  <2> QED BY <2>2, <2>3, <2>4
<1>4. Callers # <<>> => SameCall(Callers[1], stack[1])
  <2>1. CASE n = 1
    BY <1>1, <2>1, EmptySeq
  <2>2. CASE n # 1
    BY <1>1, <2>2 DEF SameCall
  <2> QED BY <2>1, <2>2
<1> QED BY <1>2, <1>3, <1>4

LEMMA OutermostKept ==
  ASSUME TypeOK, Chain, Next, stack # <<>>, stack' # <<>>
  PROVE  SameCall(stack'[1], stack[1])
<1>0. /\ {"event", "called", "assign", "quit", "return"} \subseteq PC \ {"ctx"}
      /\ {"quit", "unloadCore", "unloadGame"} \subseteq LC!Method
  BY DEF PC, LC!Method
<1>1. ASSUME NEW r, Return(r)
      PROVE  SameCall(stack'[1], stack[1])
  BY <1>1, BottomKept DEF Return
<1>2. ASSUME NEW p \in PC \ {"ctx"}, stack' = Go(p)
      PROVE  SameCall(stack'[1], stack[1])
  BY <1>2, BottomKept
<1>3. ASSUME NEW p \in PC \ {"ctx"}, NEW m \in LC!Method, Call(m, Go(p))
      PROVE  SameCall(stack'[1], stack[1])
  BY <1>3, BottomKept
<1>4. CASE LifeCycleStep
  <2>1. CASE CoreAccepts \/ CoreRefuses
    BY <1>0, <1>1, <1>2, <2>1 DEF CoreAccepts, CoreRefuses
  <2>2. CASE Finish \/ ResetRefused \/ QuitReturns
    BY <1>1, <2>2 DEF Finish, ResetRefused, QuitReturns
  <2>3. CASE QuitUnloads
    BY <1>0, <1>3, <2>3 DEF QuitUnloads
  <2>4. CASE QuitAgain
    BY <1>0, <1>1, <1>3, <2>4 DEF QuitAgain
  <2>5. ASSUME NEW m \in LC!Method, ScriptCall(m)
        PROVE  SameCall(stack'[1], stack[1])
    BY <1>0, <1>3, <2>5 DEF ScriptCall
  <2> QED BY <1>4, <2>1, <2>2, <2>3, <2>4, <2>5 DEF LifeCycleStep
<1>5. CASE LoopStep \/ Exited
  BY <1>5 DEF LoopStep, PollQuit, QuitPolled, EndPoll, RunFrame, FrameRun,
              NoFrame, UserCall, EndDraw, Exited, vars, Chain, SameCall
<1> QED BY <1>4, <1>5 DEF Next

(* The call that leaves the stack empty is the outermost one.              *)
LEMMA LastIsAlone ==
  ASSUME TypeOK, Chain, Next, stack # <<>>, stack' = <<>>
  PROVE  Len(stack) = 1
<1>1. CASE FrameRun
  BY <1>1 DEF FrameRun
<1>2. CASE ~FrameRun
  <2>1. LifeCycleStep
    BY <1>2 DEF Next, LoopStep, PollQuit, QuitPolled, EndPoll, RunFrame,
                NoFrame, UserCall, EndDraw, Exited, Chain, vars
  <2>2. Callers = <<>>
    <3>1. \A p \in PC \ {"ctx"}, m \in LC!Method :
             stack' # Go(p) /\ ~Call(m, Go(p))
      BY BottomKept
    <3>2. /\ {"event", "called", "quit", "return"} \subseteq PC \ {"ctx"}
          /\ "assign" \in PC \ {"ctx"}
          /\ {"quit", "unloadCore", "unloadGame"} \subseteq LC!Method
      BY DEF PC, LC!Method
    <3>3. \E r : Return(r)
      BY <2>1, <3>1, <3>2
         DEF LifeCycleStep, CoreAccepts, CoreRefuses, ScriptCall,
             Finish, ResetRefused, QuitUnloads, QuitAgain, QuitReturns
    <3> QED BY <3>3 DEF Return
  <2> QED BY <2>2, StackOperations, EmptySeq DEF TypeOK
<1> QED BY <1>1, <1>2

(* A call from the loop or the user starts in the settled state.           *)
LEMMA OutermostEnters ==
  ASSUME TypeOK, Chain, Next, stack = <<>>
  PROVE  state' = state /\ (stack' # <<>> => stack'[1].from = state)
<1>1. ~LifeCycleStep
  BY PhaseOfLifeCycleStep
<1>2. ASSUME NEW m \in LC!Method, Call(m, <<>>)
      PROVE  stack' # <<>> => stack'[1].from = state
  <2>1. PICK g \in Frame : g = [m |-> m, from |-> state, pc |-> Entry(m)]
    BY EntryType DEF Frame, TypeOK
  <2>2. Append(<<>>, g)[1] = g /\ g.from = state
    BY <2>1
  <2> QED BY <1>2, <2>1, <2>2 DEF Call
<1>3. "quit" \in LC!Method
  BY DEF LC!Method
<1>4. CASE PollQuit
  BY <1>2, <1>3, <1>4 DEF PollQuit
<1>5. ASSUME NEW m \in LC!Method, UserCall(m)
      PROVE  state' = state /\ (stack' # <<>> => stack'[1].from = state)
  BY <1>2, <1>5 DEF UserCall
<1>6. CASE RunFrame
  BY <1>6 DEF RunFrame
<1>7. CASE QuitPolled \/ EndPoll \/ FrameRun \/ NoFrame \/ EndDraw \/ Exited
  BY <1>7 DEF QuitPolled, EndPoll, FrameRun, NoFrame, EndDraw, Exited, vars
<1> QED BY <1>1, <1>4, <1>5, <1>6, <1>7 DEF Next, LoopStep

LEMMA RunsImplementsLifeCycle ==
  ASSUME ConsiderateScripts
  PROVE  Runs => ImplementsLifeCycle
<1>1. Init => LC!Init
  BY DEF Init, SettledState, LC!Init
<1>2. ASSUME TypeOK, Chain, [Next]_vars
      PROVE  [LC!Next]_SettledState
  <2>1. CASE UNCHANGED vars
    BY <2>1 DEF vars, SettledState
  <2>2. CASE Next /\ stack = <<>>
    BY <1>2, <2>2, OutermostEnters DEF SettledState
  <2>3. CASE Next /\ stack # <<>> /\ stack' # <<>>
    BY <1>2, <2>3, OutermostKept DEF SettledState, SameCall
  <2>4. CASE Next /\ stack # <<>> /\ stack' = <<>>
    <3>1. Top = stack[1] /\ Top \in Frame
      <4>1. Len(stack) = 1
        BY <1>2, <2>4, LastIsAlone
      <4> QED BY <1>2, <2>4, <4>1, StackOperations DEF Top, TypeOK
    <3>2. CASE Top.m = "run"
      <4>1. FrameRun
        <5>1. phase = "running" /\ Top.pc \in Told
          BY <1>2, <2>4, <3>2, TopShape DEF Shape, Chain, CallsCoreFirst
        <5>2. ~LifeCycleStep
          <6>1. ~CoreAccepts /\ ~CoreRefuses /\ ~Finish /\ ~ResetRefused
            BY <3>2, <5>1
               DEF CoreAccepts, CoreRefuses, Finish, ResetRefused, At, Told
          <6>2. ~QuitUnloads /\ ~QuitAgain /\ ~QuitReturns
            BY <5>1 DEF QuitUnloads, QuitAgain, QuitReturns, At, Told
          <6>3. ASSUME NEW m \in LC!Method, ScriptCall(m)
                PROVE  FALSE
            <7>1. "called" \in PC \ {"ctx"}
              BY DEF PC
            <7> QED BY <1>2, <2>4, <6>3, <7>1, BottomKept DEF ScriptCall
          <6> QED BY <6>1, <6>2, <6>3 DEF LifeCycleStep
        <5> QED
          BY <2>4, <5>1, <5>2
             DEF Next, LoopStep, PollQuit, QuitPolled, EndPoll, RunFrame, NoFrame,
                 UserCall, EndDraw, Exited
      <4>2. state \in {"GamePaused", "GameRunning"} /\ Top.from = "GameRunning"
        BY <1>2, <2>4, <3>2, TopShape DEF Shape, Found, Agree, Told, CallsCoreFirst
      <4>3. /\ "pauseGame" \in LC!Method /\ "GameRunning" \in LC!Sources["pauseGame"]
            /\ LC!Target("pauseGame", "GameRunning") = "GamePaused"
        BY DEF LC!Method, LC!Sources, LC!Target
      <4>4. SettledState = "GameRunning" /\ SettledState' = state
        BY <2>4, <3>1, <4>1, <4>2 DEF FrameRun, SettledState
      <4> QED BY <4>2, <4>3, <4>4 DEF LC!Next, LC!Move, LC!Handles
    <3>3. CASE Top.m # "run"
      <4>1. /\ LC!Handles(Top.m, Top.from)
            /\ state' = IF result' THEN LC!Target(Top.m, Top.from) ELSE Top.from
        BY <1>2, <2>4, <3>3, LastReturn
      <4>2. Top.m \in LC!Method
        BY <3>1, <3>3 DEF Frame
      <4> QED BY <2>4, <3>1, <4>1, <4>2 DEF SettledState, LC!Next, LC!Move
    <3> QED BY <3>2, <3>3
  <2> QED BY <1>2, <2>1, <2>2, <2>3, <2>4
<1> QED BY <1>1, <1>2, RunsChain, PTL DEF Runs, ImplementsLifeCycle, LC!Spec

(* The generated code, with its chained calls and its late assignments,    *)
(* implements the atomic state machine that LifeCycle.fsm declares.        *)
THEOREM SpecImplementsLifeCycle ==
  ASSUME ConsiderateScripts
  PROVE  Spec => ImplementsLifeCycle
BY RunsImplementsLifeCycle, PTL DEF Runs, Spec

-----------------------------------------------------------------------------
LEMMA TargetAnnounced ==
  ASSUME NEW s \in LC!State, NEW m \in LC!Method, LC!Handles(m, s)
  PROVE  LC!CanTransitionTo(s, LC!Target(m, s))
<1> USE DEF LC!Handles, LC!Sources, LC!InGame, LC!State
<1>1. CASE m \in {"loadCore", "loadGame", "startGame", "pauseGame", "resumeGame"}
  BY <1>1 DEF LC!Target, LC!CanTransitionTo
<1>2. CASE m = "resetGame"
  BY <1>2 DEF LC!Target, LC!CanTransitionTo
<1>3. CASE m \in {"step", "unloadCore"}
  BY <1>3 DEF LC!Target, LC!CanTransitionTo
<1>4. CASE m = "unloadGame"
  BY <1>4 DEF LC!Target, LC!CanTransitionTo
<1>5. CASE m = "quit"
  BY <1>5 DEF LC!Target, LC!CanTransitionTo
<1> QED BY <1>1, <1>2, <1>3, <1>4, <1>5 DEF LC!Method

LEMMA RunsAssignmentsAllowed ==
  ASSUME ConsiderateScripts
  PROVE  Runs => AssignmentsAllowed
<1>1. ASSUME TypeOK, Chain, [Next]_vars
      PROVE  [LC!CanTransitionTo(state, state')]_state
  <2>1. CASE Finish
    <3>1. /\ Shape(Top) /\ Found(Top) /\ Top \in Frame /\ Top.m # "run"
          /\ Top.pc \in {"event", "called", "assign"}
      BY <1>1, <2>1, TopShape DEF Finish, Broadcast, At
    <3>2. state = Top.from /\ LC!Handles(Top.m, Top.from)
      BY <3>1 DEF Shape, Found, Agree, CallsCoreFirst, LC!Handles, LC!Sources,
                  LC!State, Told
    <3>3. Top.m \in LC!Method /\ Top.from \in LC!State
      BY <3>1 DEF Frame
    <3> QED BY <2>1, <3>2, <3>3, TargetAnnounced DEF Finish
  <2>2. CASE ~Finish
    BY <1>1, <2>2
       DEF Next, LifeCycleStep, CoreAccepts, CoreRefuses, ScriptCall,
           ResetRefused, QuitUnloads, QuitAgain, QuitReturns, LoopStep,
           PollQuit, QuitPolled, EndPoll, RunFrame, FrameRun, NoFrame,
           UserCall, EndDraw, Exited, vars
  <2> QED BY <2>1, <2>2
<1>2. Runs => [][LC!CanTransitionTo(state, state')]_state
  BY <1>1, RunsChain, PTL DEF Runs
<1> QED BY <1>2 DEF AssignmentsAllowed

(* Every assignment to __state, those of quit()'s nested calls included,   *)
(* is one that canTransitionTo announces.                                  *)
THEOREM SpecAssignmentsAllowed ==
  ASSUME ConsiderateScripts
  PROVE  Spec => AssignmentsAllowed
BY RunsAssignmentsAllowed, PTL DEF Runs, Spec

-----------------------------------------------------------------------------
(* Only the quit() of a closed window is ever on the stack, and while it   *)
(* is, run() waits for it.                                                 *)
Methods(s) == {s[i].m : i \in 1..Len(s)}

EndInStep ==
  /\ DoneWhenQuit
  /\ phase = "poll" => ~done
  /\ phase = "exit" => done
  /\ phase = "quitting" /\ stack = <<>> => (result <=> state = "Quit")
  /\ phase = "quitting" /\ stack # <<>> => stack[1].m = "quit"
  /\ phase # "quitting" => "quit" \notin Methods(stack)

LEMMA MethodsKept ==
  ASSUME TypeOK, stack # <<>>
  PROVE  /\ Top.m \in Methods(stack)
         /\ Methods(Callers) \subseteq Methods(stack)
         /\ \A p \in PC \ {"ctx"} :
              /\ Methods(Go(p)) \subseteq Methods(stack)
              /\ \A m \in LC!Method :
                   Call(m, Go(p)) =>
                     Methods(stack') \subseteq Methods(stack)
                                       \union (IF LC!Handles(m, state) THEN {m} ELSE {})
<1> DEFINE n == Len(stack)
<1>1. /\ n \in Nat \ {0} /\ Top \in Frame /\ Callers \in Seq(Frame)
      /\ Len(Callers) = n - 1 /\ \A i \in 1..(n - 1) : Callers[i] = stack[i]
  BY StackOperations DEF TypeOK
<1>2. Top.m \in Methods(stack)
  BY <1>1 DEF Methods, Top
<1>3. Methods(Callers) \subseteq Methods(stack)
  BY <1>1 DEF Methods
<1>4. ASSUME NEW p \in PC \ {"ctx"}
      PROVE  /\ Go(p) \in Seq(Frame) /\ Len(Go(p)) = n
             /\ Methods(Go(p)) \subseteq Methods(stack)
  <2>1. /\ Go(p) \in Seq(Frame) /\ Len(Go(p)) = n
        /\ Go(p)[n] = [Top EXCEPT !.pc = p]
        /\ \A i \in 1..(n - 1) : Go(p)[i] = stack[i]
    BY GoOperations DEF TypeOK
  <2>2. Go(p)[n].m = stack[n].m
    BY <1>1, <2>1 DEF Frame, Top
  <2>3. ASSUME NEW i \in 1..n
        PROVE  Go(p)[i].m = stack[i].m
    <3>1. n \in Nat /\ (i = n \/ i \in 1..(n - 1))
      BY <1>1
    <3> HIDE DEF n
    <3> QED BY <2>1, <2>2, <3>1
  <2> QED BY <2>1, <2>3 DEF Methods
<1>5. ASSUME NEW p \in PC \ {"ctx"}, NEW m \in LC!Method, Call(m, Go(p))
      PROVE  Methods(stack') \subseteq Methods(stack)
                               \union (IF LC!Handles(m, state) THEN {m} ELSE {})
  <2>1. PICK b \in Seq(Frame), g \in Frame :
          /\ b = Go(p) /\ g = [m |-> m, from |-> state, pc |-> Entry(m)]
    BY <1>4, EntryType DEF Frame, TypeOK
  <2>2. Methods(b) \subseteq Methods(stack) /\ g.m = m
    BY <1>4, <2>1
  <2>3. Methods(Append(b, g)) \subseteq Methods(b) \union {m}
    BY <2>2 DEF Methods
  <2> QED BY <1>5, <2>1, <2>2, <2>3 DEF Call
<1> QED BY <1>2, <1>3, <1>4, <1>5

(* Nothing but a quit() is called in Quit, or leads there.                 *)
LEMMA NotQuit ==
  ASSUME TypeOK, Chain, stack # <<>>, Top.m # "quit"
  PROVE  state # "Quit" /\ (Finish => state' # "Quit")
<1>1. Shape(Top) /\ Found(Top) /\ Top \in Frame
  BY TopShape
<1>2. CASE Top.m = "run"
  BY <1>1, <1>2 DEF Shape, Found, Agree, Told, CallsCoreFirst, Finish
<1>3. CASE Top.m # "run"
  <2>1. /\ LC!Handles(Top.m, Top.from) /\ state = Top.from
        /\ Top.m \in LC!Method
    BY <1>1, <1>3 DEF Shape, Found, Agree, Told, CallsCoreFirst, Frame,
                      LC!Handles, LC!Sources
  <2>2. Top.from # "Quit"
    BY <2>1 DEF LC!Handles, LC!Sources, LC!InGame, LC!State, LC!Method
  <2>3. LC!Target(Top.m, Top.from) # "Quit"
    BY <2>1, <2>2 DEF LC!Target, LC!Method
  <2> QED BY <2>1, <2>2, <2>3 DEF Finish
<1> QED BY <1>2, <1>3

LEMMA LifeCycleStepEnd ==
  ASSUME ConsiderateScripts, TypeOK, Chain, EndInStep, LifeCycleStep
  PROVE  EndInStep'
<1>1. stack # <<>> /\ phase' = phase /\ done' = done
  BY PhaseOfLifeCycleStep
     DEF LifeCycleStep, CoreAccepts, CoreRefuses, ScriptCall, Finish,
         ResetRefused, QuitUnloads, QuitAgain, QuitReturns
<1>2. phase \in {"quitting", "running", "drawn"}
  BY <1>1 DEF Chain, TypeOK
<1>3. CASE phase = "quitting"
  <2>1. stack[1].m = "quit"
    BY <1>1, <1>3 DEF EndInStep
  <2>2. stack' # <<>> => stack'[1].m = "quit"
    BY <1>1, <2>1, OutermostKept DEF SameCall, Next
  <2>3. ASSUME stack' = <<>>
        PROVE  result' <=> state' = "Quit"
    <3>1. Top.m = "quit"
      BY <1>1, <2>1, <2>3, LastIsAlone DEF Top, Next
    <3>2. /\ LC!Handles("quit", Top.from) /\ LC!Target("quit", Top.from) = "Quit"
          /\ state' = IF result' THEN LC!Target("quit", Top.from) ELSE Top.from
      BY <1>1, <2>3, <3>1, LastReturn DEF Next, LC!Target
    <3>3. result' \in BOOLEAN /\ Top.from # "Quit"
      BY <3>2, LifeCycleStepType DEF LC!Handles, LC!Sources, TypeOK
    <3> QED BY <3>2, <3>3
  <2> QED BY <1>1, <1>3, <2>2, <2>3 DEF EndInStep, DoneWhenQuit
<1>4. CASE phase \in {"running", "drawn"}
  <2>1. "quit" \notin Methods(stack) /\ Top.m # "quit"
    BY <1>1, <1>4, MethodsKept DEF EndInStep
  <2>2. "quit" \notin Methods(stack')
    <3>1. /\ {"event", "called", "assign", "quit", "return"} \subseteq PC \ {"ctx"}
          /\ {"quit", "unloadCore", "unloadGame"} \subseteq LC!Method
      BY DEF PC, LC!Method
    <3>2. ~QuitUnloads /\ ~QuitAgain /\ ~QuitReturns
      BY <1>1, <2>1, TopShape
         DEF QuitUnloads, QuitAgain, QuitReturns, At, Shape, CallsCoreFirst, Told
    <3>3. ASSUME NEW m \in LC!Method, ScriptCall(m)
          PROVE  "quit" \notin Methods(stack')
      <4>1. LC!Handles(m, state) => m # "quit"
        BY <3>3, CallbackCalls DEF ScriptCall
      <4> QED BY <1>1, <2>1, <3>1, <3>3, <4>1, MethodsKept DEF ScriptCall
    <3>4. CASE CoreAccepts \/ CoreRefuses \/ Finish \/ ResetRefused
      <4>1. stack' = Callers \/ \E p \in PC \ {"ctx"} : stack' = Go(p)
        BY <3>1, <3>4
           DEF CoreAccepts, CoreRefuses, Finish, ResetRefused, Return
      <4> QED BY <1>1, <2>1, <4>1, MethodsKept
    <3> QED BY <3>2, <3>3, <3>4 DEF LifeCycleStep
  <2>3. state # "Quit" /\ state' # "Quit"
    BY <1>1, <2>1, NotQuit
       DEF LifeCycleStep, CoreAccepts, CoreRefuses, ScriptCall,
           ResetRefused, QuitUnloads, QuitAgain, QuitReturns
  <2> QED BY <1>1, <1>4, <2>2, <2>3 DEF EndInStep, DoneWhenQuit
<1> QED BY <1>2, <1>3, <1>4

(* A poll of one event, and no quit() from the prompt: what run() needs.   *)
LEMMA LoopStepEnd ==
  ASSUME BurstQuits = FALSE, "quit" \notin ReplMethods,
         TypeOK, Chain, EndInStep, LoopStep
  PROVE  EndInStep'
<1>0. \A s : s = <<>> => Methods(s) = {}
  BY EmptySeq DEF Methods
<1>1. ASSUME NEW m \in LC!Method, Call(m, <<>>)
      PROVE  /\ stack' = <<>> => ~LC!Handles(m, state) /\ ~result'
             /\ stack' # <<>> => stack'[1].m = m
             /\ Methods(stack') \subseteq {m}
  <2>1. PICK g \in Frame : g = [m |-> m, from |-> state, pc |-> Entry(m)]
    BY EntryType DEF Frame, TypeOK
  <2>2. /\ Append(<<>>, g) # <<>> /\ Append(<<>>, g)[1] = g /\ g.m = m
        /\ Methods(Append(<<>>, g)) = {m}
    BY <2>1, EmptySeq DEF Methods
  <2> QED BY <1>0, <1>1, <2>1, <2>2 DEF Call
<1>2. CASE PollQuit
  <2>1. "quit" \in LC!Method /\ LC!Handles("quit", state)
    BY <1>2 DEF PollQuit, EndInStep, DoneWhenQuit, TypeOK, LC!Method, LC!Handles,
                LC!Sources
  <2> QED BY <1>1, <1>2, <2>1 DEF PollQuit, EndInStep, DoneWhenQuit
<1>3. CASE QuitPolled
  BY <1>0, <1>3 DEF QuitPolled, EndInStep, DoneWhenQuit
<1>4. CASE EndPoll \/ NoFrame \/ EndDraw
  BY <1>0, <1>4 DEF EndPoll, NoFrame, EndDraw, EndInStep, DoneWhenQuit, Chain
<1>5. CASE RunFrame
  <2>1. PICK g \in Frame : g = [m |-> "run", from |-> state, pc |-> "event"]
    BY DEF Frame, PC, TypeOK
  <2>2. stack' = <<g>> /\ g.m = "run"
    BY <1>5, <2>1 DEF RunFrame
  <2>3. Methods(stack') = {"run"}
    BY <2>2 DEF Methods
  <2> QED BY <1>5, <2>3 DEF RunFrame, EndInStep, DoneWhenQuit
<1>6. CASE FrameRun
  BY <1>0, <1>6 DEF FrameRun, EndInStep, DoneWhenQuit
<1>7. ASSUME NEW m \in LC!Method, UserCall(m)
      PROVE  EndInStep'
  <2>1. m # "quit"
    BY <1>7 DEF UserCall, ButtonEnabled
  <2>2. "quit" \notin Methods(stack')
    BY <1>1, <1>7, <2>1 DEF UserCall
  <2> QED BY <1>7, <2>2 DEF UserCall, EndInStep, DoneWhenQuit
<1> QED BY <1>2, <1>3, <1>4, <1>5, <1>6, <1>7 DEF LoopStep

LEMMA InitEndInStep == Init => EndInStep
BY EmptySeq DEF Init, EndInStep, DoneWhenQuit, Methods

LEMMA NextEndInStep ==
  ASSUME ConsiderateScripts, BurstQuits = FALSE, "quit" \notin ReplMethods,
         TypeOK, Chain, EndInStep, [Next]_vars
  PROVE  EndInStep'
<1>1. UNCHANGED vars => EndInStep'
  BY DEF vars, EndInStep, DoneWhenQuit, Methods
<1> QED BY <1>1, LifeCycleStepEnd, LoopStepEnd DEF Next, Exited

LEMMA RunsEndInStep ==
  ASSUME ConsiderateScripts, BurstQuits = FALSE, "quit" \notin ReplMethods
  PROVE  Runs => [](TypeOK /\ Chain /\ EndInStep)
<1>1. TypeOK /\ Chain /\ EndInStep /\ [Next]_vars => EndInStep'
  BY NextEndInStep
<1> QED BY <1>1, InitEndInStep, RunsChain, PTL DEF Runs

LEMMA RunsDoneWhenQuit ==
  ASSUME ConsiderateScripts, BurstQuits = FALSE, "quit" \notin ReplMethods
  PROVE  Runs => []DoneWhenQuit
<1>1. EndInStep => DoneWhenQuit
  BY DEF EndInStep
<1> QED BY <1>1, RunsEndInStep, PTL

(* run() has been told of the end exactly when the machine is in its final *)
(* state, unless a script calls quit() or one poll finds two closed        *)
(* windows: whatever quit()'s chain of unloads does on its way.            *)
THEOREM SpecDoneWhenQuit ==
  ASSUME ConsiderateScripts, BurstQuits = FALSE, "quit" \notin ReplMethods
  PROVE  Spec => []DoneWhenQuit
BY RunsDoneWhenQuit, PTL DEF Runs, Spec

-----------------------------------------------------------------------------
(* What is left of run() in the final state: the quit()s that return, the  *)
(* rest of the loop's last turn.                                           *)
Ahead ==
  CASE phase = "quitting" -> 4 + Len(stack)
    [] phase = "frame"    -> 3
    [] phase = "draw"     -> 2
    [] phase = "drawn"    -> 1
    [] phase = "exit"     -> 0

Leaving(n) == state = "Quit" /\ Ahead \in 0..n

LEMMA StackInQuit ==
  ASSUME TypeOK, Chain, EndInStep, state = "Quit"
  PROVE  /\ phase \notin {"poll", "running"}
         /\ phase # "quitting" => stack = <<>>
         /\ stack # <<>> => Top.m = "quit" /\ Top.pc = "return" /\ result
         /\ Len(stack) \in 0..2
<1>1. ASSUME stack # <<>>
      PROVE  /\ Top.m = "quit" /\ Top.pc = "return" /\ result
             /\ Top.from \in LC!InGame \union {"ConsoleLoaded"}
  <2>1. Top.m = "quit" /\ Shape(Top) /\ Found(Top)
    BY <1>1, TopShape, NotQuit
  <2>2. Top.pc \notin {"assign", "unload", "quit"}
    BY <2>1 DEF Shape, Found, Agree, Told, CallsCoreFirst, Below, LC!InGame
  <2> QED BY <2>1, <2>2 DEF Shape, Found, Told, CallsCoreFirst
<1>2. phase # "quitting" => stack = <<>>
  BY <1>1, MethodsKept DEF EndInStep
<1>3. Len(stack) \in 0..2
  <2> SUFFICES ASSUME Len(stack) \notin 0..2 PROVE FALSE
    OBVIOUS
  <2>0. Len(stack) \in Nat /\ Len(stack) > 2
    <3> DEFINE l == Len(stack)
    <3>1. l \in Nat /\ l \notin 0..2
      BY LenProperties DEF TypeOK
    <3> HIDE DEF l
    <3>2. l \in Nat /\ l > 2
      BY <3>1
    <3> QED BY <3>2 DEF l
  <2> DEFINE n == Len(stack)
             f == stack[n - 1]
             g == stack[n - 2]
  <2>1. stack # <<>> /\ n \in Nat
    BY <2>0, EmptySeq
  <2>2. Calls(f, Top) /\ Calls(g, f) /\ Shape(f) /\ Shape(g)
    <3>1. /\ n - 1 \in 1..Len(stack) /\ n - 2 \in 1..Len(stack)
          /\ n - 1 \in 1..(Len(stack) - 1) /\ n - 2 \in 1..(Len(stack) - 1)
          /\ (n - 1) + 1 = n /\ (n - 2) + 1 = n - 1
      BY <2>0
    <3>2. \A i \in 1..(Len(stack) - 1) : Calls(stack[i], stack[i + 1])
      BY DEF Chain
    <3>3. Calls(stack[n - 1], stack[n]) /\ Calls(stack[n - 2], stack[n - 1])
      BY <3>1, <3>2
    <3>4. Shape(f) /\ Shape(g)
      BY <3>1 DEF Chain
    <3> QED BY <3>3, <3>4 DEF Top
  <2> HIDE DEF f, g
  <2>3. f.m = "quit" /\ f.pc = "return" /\ Top.from = Below(f.from)
    BY <1>1, <2>1, <2>2 DEF Calls, Unload
  <2>4. f.from \in LC!InGame
    BY <1>1, <2>1, <2>2, <2>3 DEF Below, Shape, CallsCoreFirst, Told, LC!InGame
  <2>5. f.from = Below(g.from)
    BY <2>2, <2>3 DEF Calls, Unload
  <2> QED BY <2>4, <2>5 DEF Below, LC!InGame
<1>4. phase \notin {"poll", "running"}
  BY <1>2, EmptySeq DEF EndInStep, DoneWhenQuit, Chain, Running
<1> QED BY <1>1, <1>2, <1>3, <1>4

(* Every step of the program takes it nearer to its end.                   *)
LEMMA LeavingSteps ==
  ASSUME BurstQuits = FALSE, TypeOK, Chain, EndInStep, Next, NEW n \in 1..6, Leaving(n)
  PROVE  Leaving(n - 1)'
<1>1. /\ state = "Quit" /\ Ahead \in 0..n
      /\ \A m \in LC!Method : ~LC!Handles(m, state)
  BY DEF Leaving, LC!Handles, LC!Sources, LC!Method, LC!State, LC!InGame
<1>2. CASE phase = "quitting" /\ stack # <<>>
  <2>1. /\ Top.m = "quit" /\ Top.pc = "return"
        /\ Len(stack) \in Nat \ {0} /\ Len(Callers) = Len(stack) - 1
    BY <1>1, <1>2, StackInQuit, StackOperations DEF TypeOK
  <2>2. QuitReturns
    BY <1>2, <2>1
       DEF Next, LifeCycleStep, CoreAccepts, CoreRefuses, ScriptCall, Finish,
           Broadcast, ResetRefused, QuitUnloads, QuitAgain, At, LoopStep,
           PollQuit, QuitPolled, EndPoll, RunFrame, FrameRun, NoFrame, UserCall,
           EndDraw, Exited
  <2>3. phase' = phase /\ stack' = Callers /\ state' = state
    BY <2>2 DEF QuitReturns, Return
  <2>4. Ahead = 4 + Len(stack) /\ Ahead' = 4 + Len(stack')
    BY <1>2, <2>3 DEF Ahead
  <2>5. Len(stack') = Len(stack) - 1
    BY <2>1, <2>3
  <2> QED BY <1>1, <2>1, <2>3, <2>4, <2>5 DEF Leaving
<1>3. CASE phase # "quitting" \/ stack = <<>>
  <2>1. stack = <<>> /\ phase \notin {"poll", "running"} /\ ~LifeCycleStep
    BY <1>1, <1>3, StackInQuit, PhaseOfLifeCycleStep
  <2>2. ASSUME NEW m \in LC!Method, Call(m, <<>>)
        PROVE  stack' = <<>>
    BY <1>1, <2>2 DEF Call
  <2>3. CASE phase = "quitting"
    <3>1. QuitPolled
      BY <2>1, <2>3
         DEF Next, LoopStep, PollQuit, EndPoll, RunFrame, FrameRun, NoFrame,
             UserCall, EndDraw, Exited
    <3>2. phase' = "frame" /\ state' = state
      BY <3>1 DEF QuitPolled
    <3> QED BY <1>1, <2>1, <2>3, <3>2, EmptySeq DEF Leaving, Ahead
  <2>4. CASE phase = "frame"
    <3>1. NoFrame
      BY <1>1, <2>1, <2>4
         DEF Next, LoopStep, PollQuit, EndPoll, QuitPolled, RunFrame, FrameRun,
             UserCall, EndDraw, Exited
    <3> QED BY <1>1, <2>4, <3>1 DEF NoFrame, Leaving, Ahead
  <2>5. CASE phase \in {"draw", "drawn"}
    <3>1. done
      BY <1>1, <2>5 DEF EndInStep, DoneWhenQuit
    <3>2. (\E m \in LC!Method : UserCall(m)) \/ EndDraw
      BY <2>1, <2>5
         DEF Next, LoopStep, PollQuit, EndPoll, QuitPolled, RunFrame, FrameRun,
             NoFrame, Exited
    <3>3. /\ state' = state
          /\ \/ phase = "draw" /\ phase' = "drawn"
             \/ phase' = "exit"
      BY <3>1, <3>2 DEF UserCall, EndDraw
    <3> QED BY <1>1, <2>5, <3>3 DEF Leaving, Ahead
  <2>6. CASE phase = "exit"
    <3>1. UNCHANGED vars
      BY <2>1, <2>6
         DEF Next, LoopStep, PollQuit, EndPoll, QuitPolled, RunFrame, FrameRun,
             NoFrame, UserCall, EndDraw, Exited
    <3> QED BY <1>1, <2>6, <3>1 DEF vars, Leaving, Ahead
  <2> QED BY <2>1, <2>3, <2>4, <2>5, <2>6 DEF TypeOK
<1> QED BY <1>2, <1>3

LEMMA LeavingStarts ==
  ASSUME TypeOK, Chain, EndInStep, state = "Quit"
  PROVE  Leaving(6) /\ (Leaving(0) => phase = "exit")
<1>1. /\ phase \in {"quitting", "frame", "draw", "drawn", "exit"}
      /\ Len(stack) \in 0..2
  BY StackInQuit DEF TypeOK
<1>2. Ahead \in 0..6 /\ (phase # "exit" => Ahead # 0)
  <2>1. CASE phase = "quitting"
    <3> DEFINE l == Len(stack)
    <3>1. Ahead = 4 + l /\ l \in 0..2
      BY <1>1, <2>1 DEF Ahead
    <3> HIDE DEF l
    <3> QED BY <2>1, <3>1
  <2>2. CASE phase # "quitting"
    BY <1>1, <2>2 DEF Ahead
  <2> QED BY <2>1, <2>2
<1> QED BY <1>2 DEF Leaving
-----------------------------------------------------------------------------
(* The events.  At most one frame of a call stack has told the views of a  *)
(* state that is not assigned yet; what a callback called above it returns *)
(* to that state.                                                          *)
Leads(f)    == LC!Target(f.m, f.from)
MoversIn(b) == {i \in DOMAIN b : Moves(b[i])}

LastIn(b)   == CHOOSE i \in MoversIn(b) : \A k \in MoversIn(b) : k <= i

HeardIn(b, s) == IF MoversIn(b) = {} THEN s ELSE Leads(b[LastIn(b)])

Halting(b) == \A i \in MoversIn(b) : b[i].m \in {"pauseGame", "resumeGame"}

Lone(b) ==
  \A i \in MoversIn(b) : \A k \in 1..Len(b) :
    i < k => b[k].m \in {"resetGame", "step"} /\ b[i].m \in {"pauseGame", "resumeGame"}

InOrder ==
  IF At("event")' /\ stack' # stack
  THEN /\ Heard \in Before(Top.m')
       /\ Heard' = IF Moves(Top') THEN LC!Target(Top.m', Heard) ELSE Heard
  ELSE Heard' \in {Heard, "Quit"}

LEMMA HeardIs ==
  ASSUME NEW b \in Seq(Frame), Lone(b), NEW s
  PROVE  /\ MoversIn(b) = {} => HeardIn(b, s) = s
         /\ \A i \in MoversIn(b) : HeardIn(b, s) = Leads(b[i])
<1>1. ASSUME NEW i \in MoversIn(b)
      PROVE  HeardIn(b, s) = Leads(b[i])
  <2>1. \A k \in MoversIn(b) : k \in 1..Len(b) /\ k \in Int /\ Moves(b[k])
    BY LenProperties DEF MoversIn
  <2>2. ASSUME NEW k \in MoversIn(b)
        PROVE  k = i
    <3>1. ~(i < k) /\ ~(k < i)
      BY <2>1 DEF Lone, Moves
    <3> QED BY <2>1, <3>1
  <2>3. LastIn(b) = i
    <3>1. MoversIn(b) = {i} /\ i <= i
      BY <2>1, <2>2
    <3> QED BY <3>1 DEF LastIn
  <2> QED BY <2>3 DEF HeardIn
<1> QED BY <1>1 DEF HeardIn

LEMMA HeardEmpty ==
  ASSUME NEW s
  PROVE  Lone(<<>>) /\ HeardIn(<<>>, s) = s
<1>1. MoversIn(<<>>) = {}
  BY EmptySeq DEF MoversIn
<1> QED BY <1>1 DEF Lone, HeardIn

LEMMA AppendLone ==
  ASSUME NEW b \in Seq(Frame), NEW f \in Frame
  PROVE  /\ MoversIn(Append(b, f)) =
              MoversIn(b) \union (IF Moves(f) THEN {Len(b) + 1} ELSE {})
         /\ Lone(Append(b, f)) <=>
              Lone(b) /\ (MoversIn(b) # {} => f.m \in {"resetGame", "step"} /\ Halting(b))
<1> DEFINE n == Len(b)
           a == Append(b, f)
<1>1. /\ n \in Nat /\ Len(a) = n + 1 /\ a[n + 1] = f /\ DOMAIN a = 1..(n + 1)
      /\ DOMAIN b = 1..n /\ \A i \in 1..n : a[i] = b[i]
  BY LenProperties
<1> HIDE DEF n, a
<1>2. MoversIn(a) = MoversIn(b) \union (IF Moves(f) THEN {n + 1} ELSE {})
  <2>1. \A i : i \in 1..(n + 1) <=> i \in 1..n \/ i = n + 1
    BY <1>1
  <2>2. n + 1 \notin 1..n
    BY <1>1
  <2> QED BY <1>1, <2>1, <2>2 DEF MoversIn
<1>3. ASSUME Lone(a)
      PROVE  Lone(b) /\ (MoversIn(b) # {} => f.m \in {"resetGame", "step"} /\ Halting(b))
  <2>1. \A i \in MoversIn(b) : i \in 1..n /\ i \in MoversIn(a) /\ i < n + 1
    BY <1>1, <1>2 DEF MoversIn
  <2>2. \A k \in 1..n : k \in 1..(n + 1)
    BY <1>1
  <2>3. Lone(b)
    BY <1>1, <1>3, <2>1, <2>2 DEF Lone, n
  <2>4. n + 1 \in 1..(n + 1)
    BY <1>1
  <2>5. \A i \in MoversIn(b) : f.m \in {"resetGame", "step"} /\ b[i].m \in {"pauseGame", "resumeGame"}
    BY <1>1, <1>3, <2>1, <2>4 DEF Lone
  <2> QED BY <2>3, <2>5 DEF Halting
<1>4. ASSUME Lone(b), MoversIn(b) # {} => f.m \in {"resetGame", "step"} /\ Halting(b),
             NEW i \in MoversIn(a), NEW k \in 1..(n + 1), i < k
      PROVE  a[k].m \in {"resetGame", "step"} /\ a[i].m \in {"pauseGame", "resumeGame"}
  <2>1. i # n + 1
    BY <1>1, <1>4
  <2>2. i \in MoversIn(b) /\ i \in 1..n /\ a[i] = b[i]
    BY <1>1, <1>2, <2>1 DEF MoversIn
  <2>3. CASE k = n + 1
    BY <1>1, <1>4, <2>2, <2>3 DEF Halting
  <2>4. CASE k # n + 1
    <3>1. k \in 1..n /\ a[k] = b[k]
      BY <1>1, <2>4
    <3> QED BY <1>4, <2>2, <3>1 DEF Lone, n
  <2> QED BY <2>3, <2>4
<1>5. Lone(a) <=> Lone(b) /\ (MoversIn(b) # {} => f.m \in {"resetGame", "step"} /\ Halting(b))
  BY <1>1, <1>3, <1>4 DEF Lone
<1> QED BY <1>2, <1>5 DEF a, n

LEMMA HeardAppend ==
  ASSUME NEW b \in Seq(Frame), NEW f \in Frame, Lone(Append(b, f)), NEW s
  PROVE  HeardIn(Append(b, f), s) = IF Moves(f) THEN Leads(f) ELSE HeardIn(b, s)
<1>1. /\ Lone(b) /\ Append(b, f) \in Seq(Frame)
      /\ MoversIn(Append(b, f)) = MoversIn(b) \union (IF Moves(f) THEN {Len(b) + 1} ELSE {})
      /\ Append(b, f)[Len(b) + 1] = f
      /\ \A i \in MoversIn(b) : Append(b, f)[i] = b[i]
  BY AppendLone, LenProperties DEF MoversIn
<1>2. CASE Moves(f)
  <2>1. Len(b) + 1 \in MoversIn(Append(b, f))
    BY <1>1, <1>2
  <2>2. HeardIn(Append(b, f), s) = Leads(Append(b, f)[Len(b) + 1])
    BY <1>1, <2>1, HeardIs
  <2> QED BY <1>1, <1>2, <2>2
<1>3. CASE ~Moves(f) /\ MoversIn(b) = {}
  BY <1>1, <1>3, HeardIs
<1>4. CASE ~Moves(f) /\ MoversIn(b) # {}
  <2>1. PICK i : i \in MoversIn(b) /\ i \in MoversIn(Append(b, f))
    BY <1>1, <1>4
  <2>2. /\ HeardIn(b, s) = Leads(b[i])
        /\ HeardIn(Append(b, f), s) = Leads(Append(b, f)[i])
    BY <1>1, <2>1, HeardIs
  <2> QED BY <1>1, <1>4, <2>1, <2>2
<1> QED BY <1>2, <1>3, <1>4

LEMMA HeardNow == Heard = HeardIn(stack, state)
<1>1. Movers = MoversIn(stack)
  BY DEF Movers, MoversIn
<1>2. Last = LastIn(stack)
  BY <1>1 DEF Last, LastIn
<1> QED BY <1>1, <1>2 DEF Heard, HeardIn, Leads

LEMMA HeardPrimed ==
  /\ Heard' = HeardIn(stack', state')
  /\ stack' = stack /\ state' = state => Heard' = Heard
<1>1. Movers' = MoversIn(stack')
  BY DEF Movers, MoversIn
<1>2. Last' = LastIn(stack')
  BY <1>1 DEF Last, LastIn
<1>3. Heard' = HeardIn(stack', state')
  BY <1>1, <1>2 DEF Heard, HeardIn, Leads, LC!Target
<1> QED BY <1>3, HeardNow

(* What is below the top frame, and what that leaves of what was heard.    *)
LEMMA HeardTop ==
  ASSUME TypeOK, Lone(stack), stack # <<>>
  PROVE  /\ Callers \in Seq(Frame) /\ Top \in Frame /\ Lone(Callers)
         /\ MoversIn(Callers) # {} => Top.m \in {"resetGame", "step"} /\ Halting(Callers)
         /\ Heard = IF Moves(Top) THEN Leads(Top) ELSE HeardIn(Callers, state)
         /\ MoversIn(Callers) = {} => \A s : HeardIn(Callers, s) = s
         /\ MoversIn(Callers) # {} =>
              /\ HeardIn(Callers, state) \in {"GamePaused", "GameRunning"}
              /\ \A s : HeardIn(Callers, s) = HeardIn(Callers, state)
<1>1. /\ Callers \in Seq(Frame) /\ Top \in Frame
      /\ Len(stack) \in Nat \ {0} /\ Len(Callers) = Len(stack) - 1
      /\ \A i \in 1..(Len(stack) - 1) : Callers[i] = stack[i]
  BY StackOperations DEF TypeOK
<1>2. stack = Append(Callers, Top)
  <2> DEFINE n == Len(stack)
             c == Callers
             a == Append(c, Top)
  <2>0. n \in Nat \ {0} /\ c \in Seq(Frame) /\ Len(c) = n - 1 /\ Top \in Frame
    BY <1>1
  <2>1. a \in Seq(Frame) /\ Len(a) = Len(c) + 1 /\ a[Len(c) + 1] = Top
        /\ \A i \in 1..Len(c) : a[i] = c[i]
    BY <2>0
  <2>2. stack \in Seq(Frame) /\ stack[n] = Top /\ \A i \in 1..(n - 1) : c[i] = stack[i]
    BY <1>1 DEF TypeOK, Top
  <2>3. Len(stack) = Len(a)
    BY <2>0, <2>1
  <2>4. ASSUME NEW i \in 1..Len(stack)
        PROVE  stack[i] = a[i]
    <3>1. CASE i = n
      BY <2>0, <2>1, <2>2, <3>1
    <3>2. CASE i # n
      <4>1. i \in 1..(n - 1)
        BY <2>0, <2>4, <3>2
      <4> QED BY <2>0, <2>1, <2>2, <4>1
    <3> QED BY <3>1, <3>2
  <2> QED BY <2>1, <2>2, <2>3, <2>4, SeqEqual
<1>3. /\ Lone(Callers)
      /\ MoversIn(Callers) # {} => Top.m \in {"resetGame", "step"} /\ Halting(Callers)
  BY <1>1, <1>2, AppendLone
<1>4. Heard = HeardIn(stack, state)
  BY HeardNow
<1>5. Heard = IF Moves(Top) THEN Leads(Top) ELSE HeardIn(Callers, state)
  <2>1. HeardIn(Append(Callers, Top), state)
          = IF Moves(Top) THEN Leads(Top) ELSE HeardIn(Callers, state)
    BY <1>1, <1>2, HeardAppend
  <2> QED BY <1>2, <1>4, <2>1
<1>6. MoversIn(Callers) = {} => \A s : HeardIn(Callers, s) = s
  BY <1>1, <1>3, HeardIs
<1>7. ASSUME MoversIn(Callers) # {}
      PROVE  /\ HeardIn(Callers, state) \in {"GamePaused", "GameRunning"}
             /\ \A s : HeardIn(Callers, s) = HeardIn(Callers, state)
  <2>1. PICK i : i \in MoversIn(Callers)
    BY <1>7
  <2>2. \A s : HeardIn(Callers, s) = Leads(Callers[i])
    BY <1>1, <1>3, <2>1, HeardIs
  <2>3. Callers[i].m \in {"pauseGame", "resumeGame"}
    BY <1>3, <1>7, <2>1 DEF Halting
  <2>4. Leads(Callers[i]) \in {"GamePaused", "GameRunning"}
    BY <2>3 DEF Leads, LC!Target
  <2> QED BY <2>2, <2>4
<1> QED BY <1>1, <1>3, <1>5, <1>6, <1>7
(* The top frame moves on, or returns, and what it told stays told.        *)
LEMMA GoOrder ==
  ASSUME TypeOK, Lone(stack), stack # <<>>, NEW p \in PC \ {"ctx"}, state' = state,
         Top.pc \in Told <=> p \in Told
  PROVE  /\ Go(p) \in Seq(Frame) /\ Lone(Go(p))
         /\ \A s : HeardIn(Go(p), s) = IF Moves(Top) THEN Leads(Top)
                                       ELSE HeardIn(Callers, s)
         /\ MoversIn(Go(p)) # {} => Halting(Callers) /\ (MoversIn(Callers) # {} \/ Moves(Top))
         /\ Halting(Go(p)) <=>
              Halting(Callers) /\ (Moves(Top) => Top.m \in {"pauseGame", "resumeGame"})
<1>1. PICK f : f = [Top EXCEPT !.pc = p]
  OBVIOUS
<1>2. /\ f \in Frame /\ f.m = Top.m /\ f.from = Top.from /\ f.pc = p
      /\ Callers \in Seq(Frame) /\ Top \in Frame
      /\ Go(p) = Append(Callers, f) /\ Go(p) \in Seq(Frame)
  <2>1. Top \in Frame /\ Callers \in Seq(Frame)
    BY StackOperations DEF TypeOK
  <2>2. Go(p) \in Seq(Frame)
    BY GoOperations DEF TypeOK
  <2> QED BY <1>1, <2>1, <2>2 DEF Frame, Go
<1>3. Moves(f) <=> Moves(Top)
  BY <1>2 DEF Moves
<1>4. Leads(f) = Leads(Top)
  BY <1>2 DEF Leads
<1>5. /\ Lone(Callers)
      /\ MoversIn(Callers) # {} => Top.m \in {"resetGame", "step"} /\ Halting(Callers)
  BY HeardTop
<1>6. Lone(Go(p))
  BY <1>2, <1>5, AppendLone
<1>7. \A s : HeardIn(Go(p), s) = IF Moves(Top) THEN Leads(Top) ELSE HeardIn(Callers, s)
  BY <1>2, <1>3, <1>4, <1>6, HeardAppend
<1>8. MoversIn(Go(p)) = MoversIn(Callers) \union (IF Moves(f) THEN {Len(Callers) + 1} ELSE {})
  BY <1>2, AppendLone
<1>9. /\ Append(Callers, f)[Len(Callers) + 1] = f
      /\ \A i \in MoversIn(Callers) : Append(Callers, f)[i] = Callers[i]
  BY <1>2, LenProperties DEF MoversIn
<1>10. Halting(Go(p)) <=>
         Halting(Callers) /\ (Moves(Top) => Top.m \in {"pauseGame", "resumeGame"})
  BY <1>2, <1>3, <1>8, <1>9 DEF Halting
<1>11. MoversIn(Callers) = {} => Halting(Callers)
  BY DEF Halting
<1> QED BY <1>2, <1>3, <1>5, <1>6, <1>7, <1>8, <1>10, <1>11

(* A method called on top of what has been heard so far.                   *)
LEMMA CallOrder ==
  ASSUME TypeOK, NEW b \in Seq(Frame), Lone(b), NEW m \in LC!Method, Call(m, b),
         LC!Handles(m, state), Heard = HeardIn(b, state), state' = state,
         MoversIn(b) # {} => m \in {"resetGame", "step"} /\ Halting(b)
  PROVE  Lone(stack') /\ InOrder
<1>1. PICK g : g = [m |-> m, from |-> state, pc |-> Entry(m)]
  OBVIOUS
<1>2. /\ g \in Frame /\ g.m = m /\ g.from = state /\ g.pc = Entry(m)
      /\ stack' = Append(b, g)
  BY <1>1, EntryType DEF Call, Frame, TypeOK
<1>3. Lone(stack')
  BY <1>2, AppendLone
<1>4. Top' = g /\ stack' # <<>>
  BY <1>2, EmptySeq, LenProperties DEF Top
<1>5. Heard' = IF Moves(g) THEN Leads(g) ELSE Heard
  <2>1. HeardIn(Append(b, g), state) = IF Moves(g) THEN Leads(g) ELSE HeardIn(b, state)
    BY <1>2, <1>3, HeardAppend
  <2>2. Heard' = HeardIn(stack', state')
    BY HeardPrimed
  <2> QED BY <1>2, <2>1, <2>2
<1>6. CASE g.pc = "event"
  <2>1. MoversIn(b) = {} => Heard = state
    BY HeardIs
  <2>2. MoversIn(b) # {} => Heard \in {"GamePaused", "GameRunning"}
    <3> SUFFICES ASSUME MoversIn(b) # {} PROVE Heard \in {"GamePaused", "GameRunning"}
      OBVIOUS
    <3>1. PICK i : i \in MoversIn(b)
      OBVIOUS
    <3>2. Heard = Leads(b[i]) /\ b[i].m \in {"pauseGame", "resumeGame"}
      BY <3>1, HeardIs DEF Halting
    <3> QED BY <3>2 DEF Leads, LC!Target
  <2>3. Heard \in Before(m)
    <3>1. CASE m \in {"resetGame", "step"}
      <4>1. state \in {"GamePaused", "GameRunning"}
        BY <3>1 DEF LC!Handles, LC!Sources
      <4> QED BY <2>1, <2>2, <3>1, <4>1 DEF Before
    <3>2. CASE m \notin {"resetGame", "step"}
      <4>1. m # "run" /\ Heard = state
        BY <2>1, <3>2 DEF LC!Method
      <4> QED BY <3>2, <4>1 DEF Before, LC!Handles
    <3> QED BY <3>1, <3>2
  <2>4. Moves(g) => Heard' = LC!Target(m, Heard)
    <3>1. Moves(g) => Heard = state
      BY <1>2, <2>1 DEF Moves
    <3> QED BY <1>2, <1>5, <3>1 DEF Leads
  <2>5. stack' = stack => Heard' = Heard
    BY HeardPrimed
  <2>6. Top.m' = m
    BY <1>2, <1>4
  <2>7. Heard' = IF Moves(g) THEN LC!Target(m, Heard) ELSE Heard
    BY <1>5, <2>4
  <2> QED BY <1>3, <1>4, <1>6, <2>3, <2>5, <2>6, <2>7 DEF InOrder, At
<1>7. CASE g.pc # "event"
  <2>1. ~Moves(g)
    BY <1>2, <1>7 DEF Moves, Told, Entry
  <2> QED BY <1>3, <1>4, <1>5, <1>7, <2>1 DEF InOrder, At
<1> QED BY <1>6, <1>7
LEMMA ReturnOrder ==
  ASSUME TypeOK, Chain, Lone(stack), stack # <<>>, NEW r, Return(r),
         Top.pc # "event" \/ Top.m # "run",
         \/ state' = state /\ ~Moves(Top)
         \/ state' = Leads(Top) /\ (~Moves(Top) => state' \in {state, "Quit"})
  PROVE  Lone(stack') /\ InOrder
<1>1. /\ Lone(Callers) /\ stack' = Callers /\ Callers \in Seq(Frame)
      /\ Heard = IF Moves(Top) THEN Leads(Top) ELSE HeardIn(Callers, state)
      /\ Heard' = HeardIn(Callers, state')
  BY HeardTop, HeardPrimed DEF Return
<1>2. MoversIn(Callers) = {} => Heard' \in {Heard, "Quit"}
  <2> SUFFICES ASSUME MoversIn(Callers) = {} PROVE Heard' \in {Heard, "Quit"}
    OBVIOUS
  <2>1. \A s : HeardIn(Callers, s) = s
    BY HeardTop
  <2> QED BY <1>1, <2>1
<1>3. MoversIn(Callers) # {} => Heard' = Heard
  <2> SUFFICES ASSUME MoversIn(Callers) # {} PROVE Heard' = Heard
    OBVIOUS
  <2>1. ~Moves(Top)
    BY HeardTop DEF Moves
  <2>2. \A s : HeardIn(Callers, s) = HeardIn(Callers, state)
    BY HeardTop
  <2> QED BY <1>1, <2>1, <2>2
<1>4. ~At("event")'
  <2> DEFINE n == Len(stack)
  <2>1. /\ n \in Nat \ {0} /\ Len(Callers) = n - 1
        /\ \A i \in 1..(n - 1) : Callers[i] = stack[i]
    BY StackOperations DEF TypeOK
  <2>2. CASE n = 1
    BY <1>1, <2>1, <2>2, EmptySeq DEF At
  <2>3. CASE n # 1
    <3>1. n - 1 \in 1..(n - 1) /\ (n - 1) + 1 = n
      BY <2>1, <2>3
    <3>2. Calls(stack[n - 1], stack[(n - 1) + 1])
      BY <3>1 DEF Chain
    <3>3. stack[n - 1].pc # "event"
      BY <3>2 DEF Calls
    <3>4. Top' = stack[n - 1]
      BY <1>1, <2>1, <3>1 DEF Top
    <3> QED BY <3>3, <3>4 DEF At
  <2> QED BY <2>2, <2>3
<1> QED BY <1>1, <1>2, <1>3, <1>4 DEF InOrder
(* The front-end has answered: the method broadcasts its event.            *)
LEMMA TellOrder ==
  ASSUME TypeOK, Chain, Lone(stack), At("ctx"), stack' = Go("event"), state' = state
  PROVE  Lone(stack') /\ InOrder
<1>1. PICK f : f = [Top EXCEPT !.pc = "event"]
  OBVIOUS
<1>2. /\ stack # <<>> /\ Top \in Frame /\ Callers \in Seq(Frame) /\ Lone(Callers)
      /\ f \in Frame /\ f.m = Top.m /\ f.from = Top.from /\ f.pc = "event"
      /\ stack' = Append(Callers, f)
  BY <1>1, HeardTop DEF At, Go, Frame, PC
<1>3. /\ Top.m \in CallsCoreFirst /\ LC!Handles(Top.m, Top.from) /\ state = Top.from
  BY <1>2, TopShape DEF At, Shape, Found, Agree, Told
<1>4. ~Moves(Top)
  BY DEF At, Moves, Told
<1>5. /\ Heard = HeardIn(Callers, state)
      /\ MoversIn(Callers) # {} => /\ Top.m \in {"resetGame", "step"} /\ Halting(Callers)
                                   /\ Heard \in {"GamePaused", "GameRunning"}
      /\ MoversIn(Callers) = {} => Heard = state
  BY <1>2, <1>4, HeardTop
<1>6. Lone(stack')
  <2>1. MoversIn(Callers) # {} => f.m \in {"resetGame", "step"} /\ Halting(Callers)
    BY <1>2, <1>5
  <2>2. Lone(Append(Callers, f))
    BY <1>2, <2>1, AppendLone
  <2> QED BY <1>2, <2>2
<1>7. Top' = f /\ At("event")' /\ stack' # stack
  <2>1. Top' = f /\ stack' # <<>>
    BY <1>2, EmptySeq, LenProperties DEF Top
  <2>2. Top # f
    BY <1>2 DEF At
  <2>3. stack' = stack => Top' = Top
    BY DEF Top
  <2> QED BY <1>2, <2>1, <2>2, <2>3 DEF At
<1>8. Heard' = IF Moves(f) THEN Leads(f) ELSE Heard
  <2>1. HeardIn(Append(Callers, f), state)
          = IF Moves(f) THEN Leads(f) ELSE HeardIn(Callers, state)
    BY <1>2, <1>6, HeardAppend
  <2> QED BY <1>2, <1>5, <2>1, HeardPrimed
<1>9. Heard \in Before(Top.m)
  <2>1. CASE Top.m = "step"
    BY <1>3, <1>5, <2>1 DEF Before, LC!Handles, LC!Sources
  <2>2. CASE Top.m # "step"
    BY <1>3, <1>5, <2>2 DEF Before, LC!Handles, CallsCoreFirst
  <2> QED BY <2>1, <2>2
<1>10. Moves(f) => Leads(f) = LC!Target(f.m, Heard)
  BY <1>2, <1>3, <1>5 DEF Moves, Leads
<1>11. Top.m' = f.m
  BY <1>7
<1> QED BY <1>2, <1>6, <1>7, <1>8, <1>9, <1>10, <1>11 DEF InOrder

LEMMA LifeCycleStepOrder ==
  ASSUME ConsiderateScripts, CoreUnloads, TypeOK, Chain, Lone(stack), LifeCycleStep
  PROVE  Lone(stack') /\ InOrder
<1>0. stack # <<>> /\ Top \in Frame /\ Shape(Top) /\ Found(Top)
  BY TopShape DEF LifeCycleStep, CoreAccepts, CoreRefuses, ScriptCall, Finish,
                  Broadcast, ResetRefused, QuitUnloads, QuitAgain, QuitReturns, At
<1>1. CASE CoreAccepts
  BY <1>1, TellOrder DEF CoreAccepts
<1>2. CASE CoreRefuses
  <2>1. Top.m \in CallsCoreFirst /\ Agree(Top.from) /\ LC!Handles(Top.m, Top.from)
    BY <1>0, <1>2 DEF CoreRefuses, At, Shape, Found, Told
  <2>2. Top.m # "unloadCore"
    <3> SUFFICES ASSUME Top.m = "unloadCore" PROVE FALSE
      OBVIOUS
    <3>1. core = Needs["unloadCore"]
      BY <2>1 DEF Agree, CoreOf, Needs, LC!Handles, LC!Sources, LC!InGame
    <3> QED BY <1>2, <3>1 DEF CoreUnloads, CoreRefuses, Refuses
  <2>3. CASE Top.m = "step"
    BY <1>2, <2>3, TellOrder DEF CoreRefuses
  <2>4. CASE Top.m # "step"
    <3>1. Return(FALSE) /\ state' = state
      BY <1>2, <2>2, <2>4 DEF CoreRefuses
    <3>2. ~Moves(Top) /\ Top.pc # "event"
      BY <1>2 DEF CoreRefuses, At, Moves, Told
    <3> QED BY <1>0, <3>1, <3>2, ReturnOrder
  <2> QED BY <2>3, <2>4
<1>3. ASSUME NEW m \in LC!Method, ScriptCall(m)
      PROVE  Lone(stack') /\ InOrder
  <2>1. /\ At("event") /\ Top.pc = "event" /\ <<EventOf(Top.m), m>> \in ScriptCalls
        /\ Call(m, Go("called")) /\ state' = state /\ "called" \in PC \ {"ctx"}
    BY <1>3 DEF ScriptCall, At, PC
  <2>2. PICK b : b = Go("called")
    OBVIOUS
  <2>3. /\ b \in Seq(Frame) /\ Lone(b)
        /\ \A s : HeardIn(b, s) = IF Moves(Top) THEN Leads(Top) ELSE HeardIn(Callers, s)
        /\ MoversIn(b) # {} => Halting(Callers) /\ (MoversIn(Callers) # {} \/ Moves(Top))
        /\ Halting(b) <=>
             Halting(Callers) /\ (Moves(Top) => Top.m \in {"pauseGame", "resumeGame"})
    BY <1>0, <2>1, <2>2, GoOrder DEF Told
  <2>4. Heard = HeardIn(b, state)
    BY <1>0, <2>3, HeardTop
  <2>5. CASE LC!Handles(m, state)
    <3>1. \/ Top.m = "run" /\ m \in {"pauseGame", "resetGame"}
          \/ /\ Top.m \in {"pauseGame", "resumeGame", "resetGame", "step"}
             /\ m \in {"resetGame", "step"}
      BY <2>1, <2>5, CallbackCalls
    <3>2. Top.m = "run" => ~Moves(Top) /\ MoversIn(Callers) = {}
      BY <1>0, HeardTop DEF Moves
    <3>3. MoversIn(b) # {} => m \in {"resetGame", "step"} /\ Halting(b)
      BY <2>3, <3>1, <3>2 DEF Moves
    <3> QED BY <2>1, <2>2, <2>3, <2>4, <2>5, <3>3, CallOrder
  <2>6. CASE ~LC!Handles(m, state)
    <3>1. stack' = b
      BY <2>1, <2>2, <2>6 DEF Call
    <3>2. Heard' = Heard
      BY <2>1, <2>4, <3>1, HeardPrimed
    <3>3. ~At("event")'
      <4>1. Len(stack) \in Nat \ {0} /\ Len(b) = Len(stack) /\ b[Len(stack)] = [Top EXCEPT !.pc = "called"]
        BY <1>0, <2>1, <2>2, StackOperations, GoOperations DEF TypeOK
      <4>2. Top' = [Top EXCEPT !.pc = "called"]
        BY <3>1, <4>1 DEF Top
      <4> QED BY <1>0, <4>2 DEF At, Frame
    <3> QED BY <2>3, <3>1, <3>2, <3>3 DEF InOrder
  <2> QED BY <2>5, <2>6
<1>4. CASE Finish
  <2>1. Top.m # "run" /\ Return(TRUE) /\ state' = Leads(Top)
    BY <1>4 DEF Finish, Leads
  <2>2. ASSUME ~Moves(Top)
        PROVE  state' \in {state, "Quit"}
    <3>1. CASE Top.m = "quit"
      BY <2>1, <3>1 DEF Leads, LC!Target
    <3>2. CASE Top.m # "quit"
      <4>1. Top.pc \in Told /\ Top.m \in {"resetGame", "step"}
        BY <1>0, <1>4, <2>1, <2>2, <3>2 DEF Finish, Broadcast, At, Told, Shape, Moves
      <4>2. LC!Handles(Top.m, Top.from)
        BY <1>0, <4>1 DEF Shape, CallsCoreFirst
      <4>3. state = Top.from
        BY <1>0, <4>1 DEF Found, Agree, CallsCoreFirst, Told
      <4> QED BY <2>1, <4>1, <4>2, <4>3 DEF Leads, LC!Target, LC!Handles, LC!Sources
    <3> QED BY <3>1, <3>2
  <2> QED BY <1>0, <2>1, <2>2, ReturnOrder
<1>5. CASE ResetRefused
  <2>1. Top.m = "resetGame" /\ Return(FALSE) /\ state' = state /\ ~Moves(Top)
    BY <1>5 DEF ResetRefused, Moves
  <2> QED BY <1>0, <2>1, ReturnOrder
<1>6. CASE QuitUnloads \/ QuitAgain \/ QuitReturns
  <2>1. Top.m = "quit" /\ Top.pc \in {"unload", "quit", "return"} /\ ~Moves(Top) /\ state' = state
    BY <1>0, <1>6 DEF QuitUnloads, QuitAgain, QuitReturns, At, Shape, CallsCoreFirst, Told, Moves
  <2>2. MoversIn(Callers) = {} /\ Heard = state
    BY <1>0, <2>1, HeardTop
  <2>3. ASSUME NEW r, Return(r)
        PROVE  Lone(stack') /\ InOrder
    BY <1>0, <2>1, <2>3, ReturnOrder
  <2>4. ASSUME NEW p \in {"quit", "return"}, NEW m \in LC!Method, Call(m, Go(p)),
               LC!Handles(m, state)
        PROVE  Lone(stack') /\ InOrder
    <3>1. PICK b : b = Go(p)
      OBVIOUS
    <3>2. /\ b \in Seq(Frame) /\ Lone(b) /\ MoversIn(b) = {}
          /\ \A s : HeardIn(b, s) = HeardIn(Callers, s)
      BY <1>0, <2>1, <2>2, <2>4, <3>1, GoOrder DEF PC, Told
    <3>3. HeardIn(b, state) = state
      BY <1>0, <2>2, <3>2, HeardTop
    <3> QED BY <2>1, <2>2, <2>4, <3>1, <3>2, <3>3, CallOrder
  <2>5. CASE QuitUnloads
    <3>1. Top.from \in LC!InGame \union {"ConsoleLoaded"} /\ state = Top.from
      BY <1>0, <2>1, <2>5 DEF QuitUnloads, At, Shape, Found, Agree, CallsCoreFirst, Told
    <3>2. /\ Unload(state) \in LC!Method /\ LC!Handles(Unload(state), state)
          /\ Call(Unload(state), Go("quit"))
      BY <2>5, <3>1 DEF QuitUnloads, Unload, LC!Method, LC!Handles, LC!Sources, LC!InGame
    <3> QED BY <2>4, <3>2
  <2>6. CASE QuitAgain
    <3>1. CASE result
      <4>1. state = Below(Top.from)
        BY <1>0, <2>1, <2>6, <3>1 DEF QuitAgain, At, Found, Agree, Told
      <4>2. "quit" \in LC!Method /\ LC!Handles("quit", state) /\ Call("quit", Go("return"))
        BY <2>6, <3>1, <4>1 DEF QuitAgain, Below, LC!Method, LC!Handles, LC!Sources, LC!State
      <4> QED BY <2>4, <4>2
    <3>2. CASE ~result
      BY <2>3, <2>6, <3>2 DEF QuitAgain
    <3> QED BY <3>1, <3>2
  <2>7. CASE QuitReturns
    BY <2>3, <2>7 DEF QuitReturns
  <2> QED BY <1>6, <2>5, <2>6, <2>7
<1> QED BY <1>1, <1>2, <1>3, <1>4, <1>5, <1>6 DEF LifeCycleStep
LEMMA LoopStepOrder ==
  ASSUME TypeOK, Chain, Lone(stack), LoopStep
  PROVE  Lone(stack') /\ InOrder
<1>0. /\ <<>> \in Seq(Frame) /\ Lone(<<>>) /\ MoversIn(<<>>) = {}
      /\ \A s : HeardIn(<<>>, s) = s
  BY EmptySeq, HeardEmpty DEF MoversIn
<1>1. state' = state
  BY DEF LoopStep, PollQuit, QuitPolled, EndPoll, RunFrame, FrameRun, NoFrame,
         UserCall, EndDraw
<1>2. ASSUME stack' = <<>>, Heard = state
      PROVE  Lone(stack') /\ InOrder
  <2>1. Heard' = Heard
    BY <1>0, <1>1, <1>2, HeardPrimed
  <2> QED BY <1>0, <1>2, <2>1 DEF InOrder, At
<1>3. ASSUME stack = <<>>
      PROVE  Heard = state
  BY <1>0, <1>3, HeardNow
<1>4. ASSUME stack = <<>>, NEW m \in LC!Method, Call(m, <<>>)
      PROVE  Lone(stack') /\ InOrder
  <2>1. CASE LC!Handles(m, state)
    BY <1>0, <1>1, <1>3, <1>4, <2>1, CallOrder
  <2>2. CASE ~LC!Handles(m, state)
    BY <1>2, <1>3, <1>4, <2>2 DEF Call
  <2> QED BY <2>1, <2>2
<1>5. CASE PollQuit
  BY <1>4, <1>5 DEF PollQuit, Chain, LC!Method
<1>6. ASSUME NEW m \in LC!Method, UserCall(m)
      PROVE  Lone(stack') /\ InOrder
  BY <1>4, <1>6 DEF UserCall, Chain
<1>7. CASE QuitPolled \/ EndPoll \/ NoFrame \/ EndDraw
  <2>1. stack = <<>> /\ stack' = <<>>
    BY <1>7 DEF QuitPolled, EndPoll, NoFrame, EndDraw, Chain
  <2> QED BY <1>2, <1>3, <2>1
<1>8. CASE RunFrame
  <2>1. PICK g : g = [m |-> "run", from |-> state, pc |-> "event"]
    OBVIOUS
  <2>2. /\ g \in Frame /\ g.m = "run" /\ g.pc = "event" /\ stack' = <<g>>
        /\ stack = <<>> /\ state = "GameRunning"
    BY <1>8, <2>1 DEF RunFrame, Frame, PC, TypeOK, Chain
  <2>3. <<g>> = Append(<<>>, g) /\ Len(<<g>>) = 1 /\ <<g>>[1] = g /\ <<g>> # <<>>
    OBVIOUS
  <2>4. ~Moves(g)
    BY <2>2 DEF Moves
  <2>5. Lone(stack')
    BY <1>0, <2>2, <2>3, AppendLone
  <2>6. Heard = "GameRunning" /\ Heard' = Heard
    <3>1. HeardIn(Append(<<>>, g), state) = HeardIn(<<>>, state)
      BY <1>0, <2>2, <2>3, <2>4, <2>5, HeardAppend
    <3> QED BY <1>0, <1>1, <1>3, <2>2, <2>3, <3>1, HeardPrimed
  <2>7. Top' = g
    BY <2>2, <2>3 DEF Top
  <2> QED BY <2>2, <2>4, <2>5, <2>6, <2>7 DEF InOrder, Before
<1>9. CASE FrameRun
  <2>1. stack # <<>> /\ Top.m = "run" /\ stack' = <<>>
    BY <1>9 DEF FrameRun, Broadcast, At
  <2>2. Heard = state
    BY <2>1, HeardTop DEF Moves
  <2> QED BY <1>2, <2>1, <2>2
<1> QED BY <1>5, <1>6, <1>7, <1>8, <1>9 DEF LoopStep

LEMMA RunsEventsInOrder ==
  ASSUME ConsiderateScripts, CoreUnloads
  PROVE  Runs => EventsInOrder
<1>1. Init => Lone(stack)
  BY HeardEmpty DEF Init
<1>2. TypeOK /\ Chain /\ Lone(stack) /\ [Next]_vars => Lone(stack)' /\ [InOrder]_vars
  <2> SUFFICES ASSUME TypeOK, Chain, Lone(stack), [Next]_vars
               PROVE  Lone(stack') /\ [InOrder]_vars
    BY DEF Lone, MoversIn
  <2>1. CASE UNCHANGED vars
    BY <2>1 DEF vars
  <2>2. CASE LifeCycleStep
    BY <2>2, LifeCycleStepOrder
  <2>3. CASE LoopStep
    BY <2>3, LoopStepOrder
  <2> QED BY <2>1, <2>2, <2>3 DEF Next, Exited
<1>3. Runs => [](TypeOK /\ Chain)
  BY RunsChain, PTL
<1>4. Runs => [][InOrder]_vars
  BY <1>1, <1>2, <1>3, PTL DEF Runs
<1>5. [InOrder]_vars => [ IF At("event")' /\ stack' # stack
                          THEN /\ Heard \in Before(Top.m')
                               /\ Heard' = IF Moves(Top') THEN LC!Target(Top.m', Heard)
                                           ELSE Heard
                          ELSE Heard' \in {Heard, "Quit"} ]_vars
  BY DEF InOrder
<1> QED BY <1>4, <1>5, PTL DEF EventsInOrder

(* Every event finds the views in a state it may come in, whichever method *)
(* or callback caused it, and the views learn of every change but the end: *)
(* the views' picture of the program is never wrong when they are called.  *)
THEOREM SpecEventsInOrder ==
  ASSUME ConsiderateScripts, CoreUnloads
  PROVE  Spec => EventsInOrder
BY RunsEventsInOrder, PTL DEF Runs, Spec
=============================================================================
