-------------------------------- MODULE Pads --------------------------------
(***************************************************************************)
(* hc::Controller and hc::VirtualController: what one game controller      *)
(* holds for the core, as SDL's events and its widgets change it.          *)
(*                                                                         *)
(* A direction has several sources: the d-pad and, with "Analog to         *)
(* digital" checked, both sticks, which share the four directions.  Each   *)
(* source writes _state[] on its own, and an axis remembers in _lastDir[]  *)
(* the button it wrote last so that its next event can release it.         *)
(***************************************************************************)
EXTENDS Integers

CONSTANTS
  Axis,         \* the axes that move
  Button,       \* the buttons that have a switch of their own
  Level,        \* the values an axis event may have: int16_t
  Sensitivity   \* _sensitivity, in hundredths

Stick   == {"LEFTX", "LEFTY", "RIGHTX", "RIGHTY"}
Trigger == {"TRIGGERLEFT", "TRIGGERRIGHT"}
Int16   == -32768..32767

ASSUME PadsAssumption ==
  /\ Axis \subseteq Stick \union Trigger
  /\ Level \subseteq Int16
  /\ 0 \in Level
  /\ Sensitivity \subseteq 0..100
  /\ 50 \in Sensitivity

VARIABLES
  virtual,      \* is it the controller the keyboard plays?
  pressed,      \* _state
  analogs,      \* _analogs
  lastDir,      \* _lastDir
  digital,      \* _digital
  sensitivity,  \* _sensitivity
  held,         \* external: the switches that are down, keys of the virtual one
  unheard       \* history: axes that moved while _digital was off, not since

padsVars == <<virtual, pressed, analogs, lastDir, digital, sensitivity, held, unheard>>

None == "none"

(* The two ends of an axis.  A trigger has one, whatever its value.        *)
Positive ==
  [LEFTX |-> "RIGHT", LEFTY |-> "DOWN", RIGHTX |-> "RIGHT", RIGHTY |-> "DOWN",
   TRIGGERLEFT |-> "L2", TRIGGERRIGHT |-> "R2"]
Negative ==
  [LEFTX |-> "LEFT", LEFTY |-> "UP", RIGHTX |-> "LEFT", RIGHTY |-> "UP",
   TRIGGERLEFT |-> "L2", TRIGGERRIGHT |-> "R2"]

Ends == {Positive[a] : a \in Axis} \union {Negative[a] : a \in Axis}

(* Controller::Controller().                                               *)
PadsInit ==
  /\ virtual \in BOOLEAN
  /\ pressed = {}
  /\ analogs = [a \in Axis |-> 0]
  /\ lastDir = [a \in Axis |-> None]
  /\ digital = FALSE
  /\ sensitivity = 50
  /\ held = {}
  /\ unheard = {}

-----------------------------------------------------------------------------
(* process(SDL_ControllerButtonEvent): _state follows the last event.      *)
ButtonEvent(b) ==
  /\ ~virtual
  /\ IF b \in held
     THEN held' = held \ {b}      /\ pressed' = pressed \ {b}
     ELSE held' = held \union {b} /\ pressed' = pressed \union {b}
  /\ UNCHANGED <<virtual, analogs, lastDir, digital, sensitivity, unheard>>

(* 32767 * (1 - _sensitivity), truncated.                                  *)
Threshold == (32767 * (100 - sensitivity)) \div 100

Beyond(v) == v < -Threshold \/ v > Threshold

(* The local `button' of the handler.                                      *)
Pointed(a, v) ==
  IF a \in Trigger \/ v > Threshold THEN Positive[a]
  ELSE IF v < -Threshold THEN Negative[a] ELSE None

(* Mutant: the button the axis pressed before is not released.             *)
AxisEventSticky(a, v) ==
  /\ ~virtual
  /\ a \in Trigger => v >= 0
  /\ analogs' = [analogs EXCEPT ![a] = v]
  /\ IF digital
     THEN /\ pressed' = pressed \union (IF Beyond(v) THEN {Pointed(a, v)} ELSE {})
          /\ lastDir' = [lastDir EXCEPT ![a] = Pointed(a, v)]
          /\ unheard' = unheard \ {a}
     ELSE /\ unheard' = unheard \union {a}
          /\ UNCHANGED <<pressed, lastDir>>
  /\ UNCHANGED <<virtual, digital, sensitivity, held>>

(* process(SDL_ControllerAxisEvent).                                       *)
AxisEvent(a, v) ==
  /\ ~virtual
  /\ a \in Trigger => v >= 0
  /\ analogs' = [analogs EXCEPT ![a] = v]
  /\ IF digital
     THEN /\ pressed' = (pressed \ {lastDir[a]})
                          \union (IF Beyond(v) THEN {Pointed(a, v)} ELSE {})
          /\ lastDir' = [lastDir EXCEPT ![a] = Pointed(a, v)]
          /\ unheard' = unheard \ {a}
     ELSE /\ unheard' = unheard \union {a}
          /\ UNCHANGED <<pressed, lastDir>>
  /\ UNCHANGED <<virtual, digital, sensitivity, held>>

(* VirtualController::process(): a key that is not a repeat.  The four     *)
(* arrows also move the left stick, to its end or back to the centre.      *)
ArrowValue(a, b, down) ==
  IF ~down THEN 0 ELSE IF b = Positive[a] THEN 32767 ELSE -32767

VirtualKey(b) ==
  LET down == b \notin held IN
  /\ virtual
  /\ held' = IF down THEN held \union {b} ELSE held \ {b}
  /\ pressed' = IF down THEN pressed \union {b} ELSE pressed \ {b}
  /\ analogs' = [a \in Axis |->
                   IF a \in {"LEFTX", "LEFTY"} /\ b \in {Positive[a], Negative[a]}
                   THEN ArrowValue(a, b, down) ELSE analogs[a]]
  /\ UNCHANGED <<virtual, lastDir, digital, sensitivity, unheard>>

(* draw(): the checkbox and the slider.                                    *)
CheckDigital ==
  /\ digital' = ~digital
  /\ UNCHANGED <<virtual, pressed, analogs, lastDir, sensitivity, held, unheard>>

SlideSensitivity(s) ==
  /\ sensitivity' = s
  /\ UNCHANGED <<virtual, pressed, analogs, lastDir, digital, held, unheard>>

PadEvent ==
  \/ \E b \in Button : ButtonEvent(b) \/ VirtualKey(b)
  \/ \E a \in Axis, v \in Level : AxisEvent(a, v)

PadWidget == CheckDigital \/ \E s \in Sensitivity : SlideSensitivity(s)

PadsNext == PadEvent \/ PadWidget

-----------------------------------------------------------------------------
PadsTypeOK ==
  /\ virtual \in BOOLEAN
  /\ pressed \subseteq Button \union Ends
  /\ analogs \in [Axis -> Int16]
  /\ lastDir \in [Axis -> Ends \union {None}]
  /\ digital \in BOOLEAN
  /\ sensitivity \in Sensitivity
  /\ held \subseteq Button
  /\ unheard \subseteq Axis

(* Input::state() of a port that has this controller.                      *)
JoypadState(b) == IF b \in pressed THEN 32767 ELSE 0

Toward(a, b) ==
  \/ analogs[a] > 0 /\ b = Positive[a]
  \/ analogs[a] < 0 /\ b = Negative[a]

(* The core never sees a button that nobody presses: the switch is down,   *)
(* or an axis is off its centre toward it, or an axis that pressed it has  *)
(* moved while "Analog to digital" was off.  On the virtual controller the *)
(* buttons are exactly the keys, and a stick is off its centre only        *)
(* toward an arrow that is down.                                           *)
NoGhostButtons ==
  /\ \A b \in Button \union Ends :
       JoypadState(b) # 0 =>
         \/ b \in held
         \/ \E a \in Axis : Toward(a, b) \/ (a \in unheard /\ lastDir[a] = b)
  /\ virtual =>
       /\ pressed = held
       /\ \A a \in Axis, b \in Ends : Toward(a, b) => b \in held
=============================================================================
