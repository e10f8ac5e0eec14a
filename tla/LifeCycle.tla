----------------------------- MODULE LifeCycle -----------------------------
(***************************************************************************)
(* The finite state machine that LifeCycle.fsm declares and that the FSM   *)
(* compiler turns into LifeCycle.cpp: the states, the methods, where each  *)
(* method may be called from and where it leads.  A call is one step here, *)
(* whatever it does in between: this is what the class promises to the     *)
(* rest of the program.  Application models what the generated code does   *)
(* call by call, and is checked to implement this module.                  *)
(***************************************************************************)

VARIABLE state  \* LifeCycle::__state, seen between two outermost calls

State == {"Start", "ConsoleLoaded", "GameLoaded", "GamePaused",
          "GameRunning", "Quit"}

Method == {"loadCore", "loadGame", "startGame", "pauseGame", "resumeGame",
           "resetGame", "step", "unloadGame", "unloadCore", "quit"}

InGame == {"GameLoaded", "GamePaused", "GameRunning"}

(* The states whose case label the method's switch has. *)
Sources ==
  [loadCore   |-> {"Start"},
   loadGame   |-> {"ConsoleLoaded"},
   startGame  |-> {"GameLoaded"},
   pauseGame  |-> {"GameRunning"},
   resumeGame |-> {"GamePaused"},
   resetGame  |-> {"GamePaused", "GameRunning"},
   step       |-> {"GamePaused"},
   unloadGame |-> InGame,
   unloadCore |-> {"ConsoleLoaded"},
   quit       |-> State \ {"Quit"}]

Handles(m, s) == s \in Sources[m]

(* The state the method assigns when its context call succeeds.  Of the    *)
(* methods with several sources only resetGame returns to where it was.    *)
Target(m, s) ==
  CASE m = "loadCore"   -> "ConsoleLoaded"
    [] m = "loadGame"   -> "GameLoaded"
    [] m = "startGame"  -> "GameRunning"
    [] m = "pauseGame"  -> "GamePaused"
    [] m = "resumeGame" -> "GameRunning"
    [] m = "resetGame"  -> s
    [] m = "step"       -> "GamePaused"
    [] m = "unloadGame" -> "ConsoleLoaded"
    [] m = "unloadCore" -> "Start"
    [] m = "quit"       -> "Quit"

(* canTransitionTo: the table the generated class offers to the GUI.       *)
CanTransitionTo(s, t) ==
  t \in CASE s = "Start"         -> {"ConsoleLoaded", "Quit"}
          [] s = "ConsoleLoaded" -> {"GameLoaded", "Quit", "Start"}
          [] s = "GameLoaded"    -> {"ConsoleLoaded", "GameRunning", "Quit"}
          [] s = "GamePaused"    -> {"ConsoleLoaded", "GamePaused",
                                     "GameRunning", "Quit"}
          [] s = "GameRunning"   -> {"ConsoleLoaded", "GamePaused",
                                     "GameRunning", "Quit"}
          [] s = "Quit"          -> {}

-----------------------------------------------------------------------------
Init == state = "Start"

(* A call that succeeds.  One that is refused, by the switch or by the     *)
(* context, leaves the state alone and is a stuttering step.               *)
Move(m) ==
  /\ Handles(m, state)
  /\ state' = Target(m, state)

Next == \E m \in Method : Move(m)

Spec == Init /\ [][Next]_state

-----------------------------------------------------------------------------
TypeOK == state \in State

(* The table and the methods were written out separately by the compiler:  *)
(* whatever a method does to the state, canTransitionTo had announced it.  *)
TransitionsAllowed == [][CanTransitionTo(state, state')]_state

(* Quit is final: no method leaves it.                                     *)
QuitIsFinal == [][state # "Quit"]_state
=============================================================================
