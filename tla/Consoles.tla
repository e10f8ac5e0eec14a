------------------------------ MODULE Consoles ------------------------------
(***************************************************************************)
(* The console list of hc::Control: the consoles Lua scripts register, the *)
(* one the user opens, and the callbacks that are called on it by its      *)
(* INDEX in a vector that every new console sorts again.                   *)
(*                                                                         *)
(* Console names are numbers here, in the order of std::string, and no two *)
(* consoles have the same one: those std::sort() leaves in any order.  The *)
(* vector is then the set of its elements.                                 *)
(***************************************************************************)
EXTENDS Integers, FiniteSets

CONSTANTS
  Console,    \* the consoles there are, by name
  Initial,    \* those the start-up scripts register
  MaxLists    \* bound: lists of extensions that are counted

ASSUME ConsolesAssumption ==
  /\ Console \subseteq Nat
  /\ IsFiniteSet(Console)
  /\ Initial \subseteq Console
  /\ MaxLists \in Nat \ {0}

VARIABLES
  consoles,    \* _consoles
  chosen,      \* _selected
  console,     \* _opened
  extensions,  \* _extensions: how many cores' extensions it lists
  wanted,      \* history: the console the user loaded, or Nobody
  prompted,    \* history: was the core loaded without one?
  shifted      \* history: was a console sorted before it since?

consolesVars ==
  <<consoles, chosen, console, extensions, wanted, prompted, shifted>>

Nobody == -1

(* Where the sorted vector has c.                                          *)
Position(c) == Cardinality({d \in consoles : d < c})

(* Control::Control() and the start-up scripts.                            *)
ConsolesInit ==
  /\ consoles = Initial
  /\ chosen = 0
  /\ console = -1
  /\ extensions = 0
  /\ wanted = Nobody
  /\ prompted = FALSE
  /\ shifted = FALSE

-----------------------------------------------------------------------------
(* hc.control:addConsole(), typed in the prompt.                           *)
AddConsole(c) ==
  /\ c \notin consoles
  /\ consoles' = consoles \union {c}
  /\ shifted' = (shifted \/ c < wanted)
  /\ UNCHANGED <<chosen, console, extensions, wanted, prompted>>

(* onDraw(): the combo.                                                    *)
ChooseConsole(c) ==
  /\ c \in consoles
  /\ chosen' = Position(c)
  /\ UNCHANGED <<consoles, console, extensions, wanted, prompted, shifted>>

(* Mutant: the console is noted after its callback has loaded the core.    *)
OpenConsoleLate(c) ==
  /\ c \in consoles
  /\ chosen = Position(c)
  /\ wanted' = c
  /\ shifted' = FALSE
  /\ UNCHANGED <<consoles, chosen, console, extensions, prompted>>

(* The Load Console button, enabled in state Start, of the console chosen. *)
OpenConsole(c) ==
  /\ c \in consoles
  /\ chosen = Position(c)
  /\ console' = chosen
  /\ wanted' = c
  /\ shifted' = FALSE
  /\ UNCHANGED <<consoles, chosen, extensions, prompted>>

(* setSystemInfo(), from loadCore(): the core's extensions are appended.   *)
AppendExtensions ==
  /\ extensions' = IF extensions < MaxLists THEN extensions + 1 ELSE extensions
  /\ prompted' = (wanted = Nobody)
  /\ UNCHANGED <<consoles, chosen, console, wanted, shifted>>

(* onCoreUnloaded(), after the console's own callback.                     *)
CloseConsole ==
  /\ console' = -1
  /\ extensions' = 0
  /\ wanted' = Nobody
  /\ shifted' = FALSE
  /\ UNCHANGED <<consoles, chosen, prompted>>

-----------------------------------------------------------------------------
ConsolesTypeOK ==
  /\ consoles \subseteq Console
  /\ chosen \in Nat
  /\ console \in Nat \union {-1}
  /\ extensions \in 0..MaxLists
  /\ wanted \in Console \union {Nobody}
  /\ prompted \in BOOLEAN
  /\ shifted \in BOOLEAN

(* callConsoleMethod() indexes _consoles with _opened.                     *)
Indexed(c) == c \in consoles /\ console = Position(c)
=============================================================================
