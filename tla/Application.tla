---------------------------- MODULE Application ----------------------------
(***************************************************************************)
(* hc::Application as the context of the state machine: the main loop, the *)
(* handlers the generated LifeCycle methods call, the libretro front-end   *)
(* they drive, and the Lua callbacks of the opened console, which run in   *)
(* the middle of a handler and may call the state machine again.           *)
(*                                                                         *)
(* Everything runs on one thread; what makes it hard is that a LifeCycle   *)
(* method assigns __state only AFTER its handler returned, so the C++ call *)
(* stack is state: `stack' holds one frame per active LifeCycle method.    *)
(***************************************************************************)
EXTENDS Naturals, Sequences

CONSTANTS
  ReplMethods,  \* LifeCycle methods the user's Lua code may call while drawing
  ScriptCalls,  \* pairs <<event, method>>: what a console's callbacks may call
  MayFail,      \* LifeCycle methods whose front-end call the core may refuse
  BurstQuits,   \* can one poll of the event queue deliver several SDL_QUIT?
  MaxQuits,     \* bound: SDL_QUIT events in a behaviour
  MaxDepth      \* bound: stack frames below which a callback still calls

VARIABLES
  state,   \* LifeCycle::__state
  core,    \* the lrcpp front-end: no core, a core, a core with its game
  timer,   \* _runningTime: stopped, running or paused
  stack,   \* active LifeCycle methods, outermost first
  result,  \* what the LifeCycle method that returned last returned
  phase,   \* where run() is in its loop
  done,    \* the local of run() that ends the loop
  quits    \* SDL_QUIT events delivered so far

vars == <<state, core, timer, stack, result, phase, done, quits>>

(* What an observer between two outermost calls takes for the state.       *)
SettledState == IF stack = <<>> THEN state ELSE stack[1].from

LC == INSTANCE LifeCycle WITH state <- SettledState

CoreState == {"none", "loaded", "game"}
Event == {"onCoreLoaded", "onGameLoaded", "onGameStarted", "onGamePaused",
          "onGameResumed", "onGameReset", "onFrame", "onGameUnloaded",
          "onCoreUnloaded"}

ASSUME AppAssumption ==
  /\ ReplMethods \subseteq LC!Method \ {"startGame"}
  /\ ScriptCalls \subseteq Event \X (LC!Method \ {"startGame"})
  /\ MayFail \subseteq LC!Method
  /\ BurstQuits \in BOOLEAN
  /\ MaxQuits \in Nat
  /\ MaxDepth \in Nat

-----------------------------------------------------------------------------
(* The lrcpp front-end, as the handlers use it: each call needs the core   *)
(* in one state and leaves it in another, or fails and changes nothing.    *)
Needs ==
  [loadCore |-> "none", loadGame |-> "loaded", step |-> "game",
   resetGame |-> "game", unloadGame |-> "game", unloadCore |-> "loaded"]

Leaves ==
  [loadCore |-> "loaded", loadGame |-> "game", step |-> "game",
   resetGame |-> "game", unloadGame |-> "loaded", unloadCore |-> "none"]

Accepts(m) == core = Needs[m]
Refuses(m) == core # Needs[m] \/ m \in MayFail

(* The event a handler broadcasts to the views; Control::onXxx forwards it *)
(* to the Lua callback of the same name.  "run" is retro_run in the loop.  *)
EventOf(m) ==
  CASE m = "loadCore"   -> "onCoreLoaded"
    [] m = "loadGame"   -> "onGameLoaded"
    [] m = "startGame"  -> "onGameStarted"
    [] m = "pauseGame"  -> "onGamePaused"
    [] m = "resumeGame" -> "onGameResumed"
    [] m = "resetGame"  -> "onGameReset"
    [] m \in {"step", "run"} -> "onFrame"
    [] m = "unloadGame" -> "onGameUnloaded"
    [] m = "unloadCore" -> "onCoreUnloaded"

-----------------------------------------------------------------------------
(* Stack frames.  pc tells how far the method is:                          *)
(*   ctx     about to make the handler's front-end call                    *)
(*   event   broadcasting the event, the Lua callback still to run         *)
(*   called  the Lua callback has made its call                            *)
(*   assign  nothing left but the assignment to __state                    *)
(*   unload, quit, return   the steps of quit()'s chain of calls           *)
PC == {"ctx", "event", "called", "assign", "unload", "quit", "return"}

(* The handlers that call the front-end before they broadcast.             *)
CallsCoreFirst == {"loadCore", "loadGame", "step", "unloadGame", "unloadCore"}

Frame ==
  {f \in [m : LC!Method \union {"run"}, from : LC!State, pc : PC] :
     f.pc = "ctx" => f.m \in CallsCoreFirst}

Top     == stack[Len(stack)]
Callers == SubSeq(stack, 1, Len(stack) - 1)
At(p)   == stack # <<>> /\ Top.pc = p
Go(p)   == Append(Callers, [Top EXCEPT !.pc = p])

Return(r) == stack' = Callers /\ result' = r

Entry(m) ==
  CASE m \in CallsCoreFirst             -> "ctx"
    [] m = "quit" /\ state = "Start"    -> "assign"
    [] m = "quit" /\ state # "Start"    -> "unload"
    [] OTHER                            -> "event"

(* Mutant: step() without its switch on __state.                           *)
CallUnguarded(m, base) ==
  IF LC!Handles(m, state) \/ m = "step"
  THEN /\ stack' = Append(base, [m |-> m, from |-> state, pc |-> Entry(m)])
       /\ UNCHANGED result
  ELSE /\ stack' = base
       /\ result' = FALSE

(* Calling a LifeCycle method on top of `base': the switch on __state      *)
(* either enters a case or returns false at once.                          *)
Call(m, base) ==
  IF LC!Handles(m, state)
  THEN /\ stack' = Append(base, [m |-> m, from |-> state, pc |-> Entry(m)])
       /\ UNCHANGED result
  ELSE /\ stack' = base
       /\ result' = FALSE

-----------------------------------------------------------------------------
Init ==
  /\ state = "Start"
  /\ core = "none"
  /\ timer = "stopped"
  /\ stack = <<>>
  /\ result = FALSE
  /\ phase = "poll"
  /\ done = FALSE
  /\ quits = 0

(* The front-end call of loadCore, loadGame, step, unloadGame, unloadCore. *)
CoreAccepts ==
  /\ At("ctx")
  /\ Accepts(Top.m)
  /\ core' = Leaves[Top.m]
  /\ stack' = Go("event")
  /\ UNCHANGED <<state, timer, result, phase, done, quits>>

(* Mutant: unloadGame() ignores its handler's result, as unloadCore() does. *)
CoreRefusesIgnored ==
  /\ At("ctx")
  /\ Refuses(Top.m)
  /\ CASE Top.m = "step" -> stack' = Go("event") /\ UNCHANGED result
       [] Top.m \in {"unloadCore", "unloadGame"}
                         -> stack' = Go("assign") /\ UNCHANGED result
       [] OTHER          -> Return(FALSE)
  /\ UNCHANGED <<state, core, timer, phase, done, quits>>

(* A refused step still broadcasts onFrame; a refused unloadCore skips its *)
(* event but the state machine ignores the handler's result and assigns    *)
(* the new state all the same; the other methods return false.             *)
CoreRefuses ==
  /\ At("ctx")
  /\ Refuses(Top.m)
  /\ CASE Top.m = "step"       -> stack' = Go("event") /\ UNCHANGED result
       [] Top.m = "unloadCore" -> stack' = Go("assign") /\ UNCHANGED result
       [] OTHER                -> Return(FALSE)
  /\ UNCHANGED <<state, core, timer, phase, done, quits>>

(* The Lua callback calls the state machine, at most once per event.       *)
ScriptCall(m) ==
  /\ At("event")
  /\ <<EventOf(Top.m), m>> \in ScriptCalls
  /\ Len(stack) < MaxDepth
  /\ Call(m, Go("called"))
  /\ UNCHANGED <<state, core, timer, phase, done, quits>>

(* What Application's own onGameXxx does to _runningTime after the         *)
(* broadcast to the views.                                                 *)
TimerAfter(m) ==
  CASE m = "startGame"                          -> "running"
    [] m = "pauseGame" /\ timer = "running"     -> "paused"
    [] m = "resumeGame" /\ timer = "paused"     -> "running"
    [] m = "unloadGame"                         -> "stopped"
    [] OTHER                                    -> timer

Broadcast == At("event") \/ At("called")

(* The handler returns true and the method assigns __state.  Of resetGame  *)
(* the GameRunning case does not look at what frontend.reset() returned.   *)
Finish ==
  /\ Broadcast \/ At("assign")
  /\ Top.m # "run"
  /\ Top.m = "resetGame" => Accepts("resetGame") \/ Top.from = "GameRunning"
  /\ timer' = IF Top.pc = "assign" THEN timer ELSE TimerAfter(Top.m)
  /\ state' = LC!Target(Top.m, Top.from)
  /\ Return(TRUE)
  /\ UNCHANGED <<core, phase, done, quits>>

(* frontend.reset() comes after the broadcast; in GamePaused its failure   *)
(* makes resetGame() return false.                                         *)
ResetRefused ==
  /\ Broadcast
  /\ Top.m = "resetGame" /\ Top.from = "GamePaused"
  /\ Refuses("resetGame")
  /\ Return(FALSE)
  /\ UNCHANGED <<state, core, timer, phase, done, quits>>

(* quit(): unloadGame() && quit(), or unloadCore() && quit().              *)
QuitUnloads ==
  /\ At("unload")
  /\ Call(IF Top.from = "ConsoleLoaded" THEN "unloadCore" ELSE "unloadGame",
          Go("quit"))
  /\ UNCHANGED <<state, core, timer, phase, done, quits>>

(* Mutant: quit() unloads the game and returns, without the && quit().     *)
QuitAgainOnce ==
  /\ At("quit")
  /\ Return(result)
  /\ UNCHANGED <<state, core, timer, phase, done, quits>>

QuitAgain ==
  /\ At("quit")
  /\ IF result THEN Call("quit", Go("return")) ELSE Return(FALSE)
  /\ UNCHANGED <<state, core, timer, phase, done, quits>>

QuitReturns ==
  /\ At("return")
  /\ Return(result)
  /\ UNCHANGED <<state, core, timer, phase, done, quits>>

LifeCycleStep ==
  \/ CoreAccepts \/ CoreRefuses
  \/ \E m \in LC!Method : ScriptCall(m)
  \/ Finish \/ ResetRefused
  \/ QuitUnloads \/ QuitAgain \/ QuitReturns

-----------------------------------------------------------------------------
(* Application::run().                                                     *)
PollQuit ==
  /\ phase = "poll"
  /\ quits < MaxQuits
  /\ quits' = quits + 1
  /\ phase' = "quitting"
  /\ Call("quit", <<>>)
  /\ UNCHANGED <<state, core, timer, done>>

(* Mutant: run() does not keep what quit() returned.                       *)
QuitPolledForgets ==
  /\ phase = "quitting" /\ stack = <<>>
  /\ phase' = IF BurstQuits THEN "poll" ELSE "frame"
  /\ UNCHANGED <<state, core, timer, stack, result, done, quits>>

QuitPolled ==
  /\ phase = "quitting" /\ stack = <<>>
  /\ done' = result
  /\ phase' = IF BurstQuits THEN "poll" ELSE "frame"
  /\ UNCHANGED <<state, core, timer, stack, result, quits>>

EndPoll ==
  /\ phase = "poll"
  /\ phase' = "frame"
  /\ UNCHANGED <<state, core, timer, stack, result, done, quits>>

(* Mutant: run() only checks that the game is not paused.                  *)
RunFrameUnlessPaused ==
  /\ phase = "frame"
  /\ state # "GamePaused"
  /\ phase' = "running"
  /\ stack' = <<[m |-> "run", from |-> state, pc |-> "event"]>>
  /\ UNCHANGED <<state, core, timer, result, done, quits>>

(* A frame is due: frontend.run(), whose result is not looked at, the      *)
(* audio flush, and onFrame for every view.                                *)
RunFrame ==
  /\ phase = "frame"
  /\ state = "GameRunning"
  /\ phase' = "running"
  /\ stack' = <<[m |-> "run", from |-> state, pc |-> "event"]>>
  /\ UNCHANGED <<state, core, timer, result, done, quits>>

FrameRun ==
  /\ phase = "running"
  /\ Len(stack) = 1 /\ Broadcast /\ Top.m = "run"
  /\ stack' = <<>>
  /\ phase' = "draw"
  /\ UNCHANGED <<state, core, timer, result, done, quits>>

(* No game runs, or _nextFrameTime has not come.                           *)
NoFrame ==
  /\ phase = "frame"
  /\ phase' = "draw"
  /\ UNCHANGED <<state, core, timer, stack, result, done, quits>>

(* The buttons of Control::onDraw.  The file dialog Load Game opens stays  *)
(* open, so its choice arrives in any state.                               *)
ButtonEnabled(m) ==
  CASE m = "loadCore"   -> state = "Start"
    [] m = "loadGame"   -> TRUE
    [] m = "pauseGame"  -> state = "GameRunning"
    [] m = "resumeGame" -> state = "GamePaused"
    [] m = "startGame"  -> /\ state \notin {"GameRunning", "GamePaused"}
                           /\ LC!CanTransitionTo(state, "GameRunning")
    [] m = "step"       -> state = "GamePaused"
    [] m = "resetGame"  -> state \in LC!InGame
    [] m = "unloadGame" -> state \in LC!InGame
    [] m = "unloadCore" -> LC!CanTransitionTo(state, "Start")
    [] m = "quit"       -> FALSE

(* One click, or one line typed in the Lua prompt, per drawn frame.        *)
UserCall(m) ==
  /\ phase = "draw"
  /\ m \in ReplMethods \/ ButtonEnabled(m)
  /\ phase' = "drawn"
  /\ Call(m, <<>>)
  /\ UNCHANGED <<state, core, timer, done, quits>>

EndDraw ==
  /\ phase \in {"draw", "drawn"} /\ stack = <<>>
  /\ phase' = IF done THEN "exit" ELSE "poll"
  /\ UNCHANGED <<state, core, timer, stack, result, done, quits>>

LoopStep ==
  \/ PollQuit \/ QuitPolled \/ EndPoll
  \/ RunFrame \/ FrameRun \/ NoFrame
  \/ \E m \in LC!Method : UserCall(m)
  \/ EndDraw

Exited == phase = "exit" /\ UNCHANGED vars

Next == LifeCycleStep \/ LoopStep \/ Exited

(* One thread that never blocks: while a step is possible one is taken.    *)
(* Nothing is assumed of the user, the core or the scripts.                *)
Spec == Init /\ [][Next]_vars /\ WF_vars(Next)

-----------------------------------------------------------------------------
(* What the theorems ask of the consoles' scripts.  A callback may call    *)
(* anything that the method it hears of has no case for in its state, and  *)
(* of the others what returns to that state, but not while a game goes.    *)
(* What onFrame may call after a step is then what it may call in run().   *)
ConsiderateScripts ==
  \A c \in ScriptCalls, m \in LC!Method \ {"quit"}, s \in LC!State :
    (EventOf(m) = c[1] /\ LC!Handles(m, s) /\ LC!Handles(c[2], s))
      => m # "unloadGame" /\ LC!Target(c[2], s) = s

(* What they ask of the front-end: it never refuses to unload a core.      *)
CoreUnloads == "unloadCore" \notin MayFail

-----------------------------------------------------------------------------
TypeOK ==
  /\ state \in LC!State
  /\ core \in CoreState
  /\ timer \in {"stopped", "running", "paused"}
  /\ stack \in Seq(Frame)
  /\ result \in BOOLEAN
  /\ phase \in {"poll", "quitting", "frame", "running", "draw", "drawn", "exit"}
  /\ done \in BOOLEAN
  /\ quits \in 0..MaxQuits

CoreInStep ==
  core = CASE state \in {"Start", "Quit"} -> "none"
           [] state = "ConsoleLoaded"     -> "loaded"
           [] state \in LC!InGame         -> "game"

TimerInStep ==
  timer = CASE state = "GameRunning" -> "running"
            [] state = "GamePaused"  -> "paused"
            [] OTHER                 -> "stopped"

(* "LifeCycle.fsm [...] making sure the application is always in a         *)
(* consistent state": between calls, the state machine's state says what   *)
(* the front-end has loaded, and _runningTime, which paces the frames,     *)
(* runs exactly while the game runs and holds its time while it is paused. *)
Consistent == stack = <<>> => CoreInStep /\ TimerInStep

(* The core is never entered in a state the libretro protocol forbids:     *)
(* no retro_run or retro_reset without a game, no load over a load.  The   *)
(* three conjuncts are the steps that call the front-end.                  *)
CallsInProtocol ==
  [][ /\ At("ctx") => core = Needs[Top.m]
      /\ (/\ Broadcast /\ Top.m = "resetGame"
          /\ Len(stack') < Len(stack)) => core = Needs["resetGame"]
      /\ (phase = "frame" /\ phase' = "running") => core = "game" ]_vars

(* A chain of unloads that fails half way leaves no half-closed program:   *)
(* quit() ends in Quit, or returns false with the state it started from.   *)
QuitAllOrNothing ==
  [][ (/\ Len(stack) = 1 /\ Top.m = "quit" /\ stack' = <<>>)
      => state' = IF result' THEN "Quit" ELSE Top.from ]_vars

(* What the views take for the state: they go by the events.  The method   *)
(* that broadcasts one assigns __state when all of them have heard it and  *)
(* the calls made from their callbacks have returned.                      *)
Told     == {"event", "called"}
Moves(f) == f.pc \in Told /\ f.m \notin {"run", "step", "resetGame"}
Movers   == {i \in DOMAIN stack : Moves(stack[i])}

Last     == CHOOSE i \in Movers : \A k \in Movers : k <= i

Heard == IF Movers = {} THEN state ELSE LC!Target(stack[Last].m, stack[Last].from)

(* The states in which a view expects the event of a method.               *)
Before(m) ==
  CASE m \in {"run", "step", "resetGame"} -> {"GamePaused", "GameRunning"}
    [] OTHER                              -> LC!Sources[m]

(* "Views must [...] have methods that follow the application life-cycle": *)
(* an event finds its view in a state it may come in, also when the        *)
(* callback of another made the call, and apart from the events, and from  *)
(* the end, nothing happens behind the views' backs: no method broadcasts  *)
(* and then fails, and none moves on without a word.                       *)
EventsInOrder ==
  [][ IF At("event")' /\ stack' # stack
      THEN /\ Heard \in Before(Top.m')
           /\ Heard' = IF Moves(Top') THEN LC!Target(Top.m', Heard) ELSE Heard
      ELSE Heard' \in {Heard, "Quit"} ]_vars

(* The raw assignments to __state, nested calls included, follow the table *)
(* canTransitionTo offers to the GUI.                                      *)
AssignmentsAllowed == [][LC!CanTransitionTo(state, state')]_state

(* The generated code, with its nested calls and late assignments, behaves *)
(* as the atomic state machine that LifeCycle.fsm declares.                *)
ImplementsLifeCycle == LC!Spec

(* run() knows of the end: outside of a quit() that is under way, its done *)
(* is what the last one returned, and is set exactly in the final state.   *)
(* Before that nothing ends the loop, and in it nothing can be missed.     *)
DoneWhenQuit == phase # "quitting" => (done <=> state = "Quit")

(* Once the state machine is in Quit, which no method leaves, run() ends   *)
(* and the program is torn down.                                           *)
QuitEndsLoop == state = "Quit" ~> phase = "exit"
=============================================================================
