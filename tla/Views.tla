------------------------------- MODULE Views -------------------------------
(***************************************************************************)
(* hc::Desktop and the views that read a game's memory: the memory         *)
(* selector, the debugger, and the windows they open on the fly, each of   *)
(* them drawn in a loop over a set that the windows themselves change.     *)
(*                                                                         *)
(* A view is told of a game's end only while the desktop manages it, and   *)
(* the desktop forgets every view whose window was closed.  What could go  *)
(* wrong is a window that reads the memory of a game that is gone.         *)
(*                                                                         *)
(* A region of memory is known by the game it belongs to, or as Kept if it *)
(* was no loaded game's when it was made; a handle (see HandleTable) by    *)
(* the window or the Lua object it was made for.                           *)
(***************************************************************************)
EXTENDS Naturals

CONSTANTS
  Selector,   \* Application::_memorySelector
  Debugger,   \* Application::_debugger
  Pool,       \* bound: the views and Lua objects created on the fly
  MaxGames,   \* bound: games loaded in a behaviour
  CoreTicks   \* does the core send HC_EVENT_TICK to its debugger?

Top == {Selector, Debugger}

ASSUME ViewsAssumption ==
  /\ Selector # Debugger
  /\ Top \intersect Pool = {}
  /\ MaxGames \in Nat
  /\ CoreTicks \in BOOLEAN

VARIABLES
  views,     \* Desktop::_views
  opened,    \* those of them with props->opened
  object,    \* what was made of each member of the pool
  regions,   \* MemorySelector::_regions
  table,     \* MemorySelector::_handleAllocator: what live handles name
  attached,  \* Debugger::_debuggerIf: the game it came with, or 0
  game,      \* games loaded so far
  loaded,    \* is the last of them still loaded?
  phase,     \* between draws, in Desktop::onDraw, or blocked in tick()
  todo       \* the views the draw loop has still to come to

vars == <<views, opened, object, regions, table, attached, game, loaded,
          phase, todo>>

Game == 1..MaxGames

(* The games whose memory may be read.                                     *)
Live == IF loaded THEN {game} ELSE {}

(* A region made of a pointer that a script kept from an earlier game.     *)
Kept   == 0
Region == Game \union {Kept}

(* MemoryWatch, Cpu and Disasm are views; MemoryHandle is a Lua object.    *)
Kind == {"none", "watch", "script", "cpu", "disasm"}

Object == [kind : Kind, game : 0..MaxGames, valid : BOOLEAN]

(* A member of the pool that nothing was made of yet.                      *)
Unborn == [kind |-> "none", game |-> 0, valid |-> FALSE]

Windows(kinds) == {v \in views \intersect Pool : object[v].kind \in kinds}

Translates(v) == v \in DOMAIN table

-----------------------------------------------------------------------------
Init ==
  /\ views = Top
  /\ opened = Top
  /\ object = [v \in Pool |-> Unborn]
  /\ regions = {}
  /\ table = [v \in {} |-> 0]
  /\ attached = 0
  /\ game = 0
  /\ loaded = FALSE
  /\ phase = "run"
  /\ todo = {}

(* loadGame() and Debugger::onGameLoaded(): a core with a debugger         *)
(* interface publishes its regions.  It is called between draws, or in the *)
(* middle of one by the Control view or the Lua prompt.                    *)
LoadGame ==
  /\ phase # "blocked"
  /\ ~loaded
  /\ game < MaxGames
  /\ game' = game + 1
  /\ loaded' = TRUE
  /\ \/ UNCHANGED <<attached, regions>>
     \/ /\ Debugger \in views
        /\ attached' = game'
        /\ regions' = regions \union {game'}
  /\ UNCHANGED <<views, opened, object, table, phase, todo>>

(* hc.config:addMemory(), from any callback or the prompt, with a game or  *)
(* without: MemorySelector::add() is called whether it is shown or not.    *)
(* The pointer is what the script gives, and getMemoryMap() still has      *)
(* those of the games that the core had before.                            *)
AddMemory ==
  /\ phase # "blocked"
  /\ \E r \in Live \union {Kept} : regions' = regions \union {r}
  /\ UNCHANGED <<views, opened, object, table, attached, game, loaded, phase, todo>>

Invalidate ==
  object' = [v \in Pool |->
               IF v \in Windows({"cpu", "disasm"})
               THEN [object[v] EXCEPT !.valid = FALSE] ELSE object[v]]

(* Mutant: MemorySelector::onGameUnloaded() does not reset its handles.    *)
UnloadGameKeepsHandles ==
  /\ phase # "blocked"
  /\ loaded
  /\ loaded' = FALSE
  /\ regions' = IF Selector \in views THEN {} ELSE regions
  /\ attached' = IF Debugger \in views THEN 0 ELSE attached
  /\ Invalidate
  /\ UNCHANGED <<views, opened, table, game, phase, todo>>

(* unloadGame(): the front-end has freed the game, then the views are told. *)
(* They do not depend on one another here, so their order does not matter. *)
UnloadGame ==
  /\ phase # "blocked"
  /\ loaded
  /\ loaded' = FALSE
  /\ IF Selector \in views
     THEN regions' = {} /\ table' = [v \in {} |-> 0]
     ELSE UNCHANGED <<regions, table>>
  /\ attached' = IF Debugger \in views THEN 0 ELSE attached
  /\ Invalidate
  /\ UNCHANGED <<views, opened, game, phase, todo>>

(* Mutant: a MemoryHandle is used again for another region.                *)
LuaIndexAgain(v, r) ==
  /\ phase # "blocked"
  /\ object[v].kind \in {"none", "script"}
  /\ r \in regions
  /\ object' = [object EXCEPT ![v] = [Unborn EXCEPT !.kind = "script"]]
  /\ table' = [x \in DOMAIN table \union {v} |-> IF x = v THEN r ELSE table[x]]
  /\ UNCHANGED <<views, opened, regions, attached, game, loaded, phase, todo>>

(* hc.memory.xxx: a handle for Lua, wrapped in a MemoryHandle.             *)
LuaIndex(v, r) ==
  /\ phase # "blocked"
  /\ object[v] = Unborn
  /\ r \in regions
  /\ object' = [object EXCEPT ![v] = [Unborn EXCEPT !.kind = "script"]]
  /\ table' = [x \in DOMAIN table \union {v} |-> IF x = v THEN r ELSE table[x]]
  /\ UNCHANGED <<views, opened, regions, attached, game, loaded, phase, todo>>

(* The core calls Debugger::tick() from retro_run.  _paused is true from   *)
(* the constructor on and nothing resets it: the wait is for ever.         *)
Tick ==
  /\ CoreTicks
  /\ phase = "run"
  /\ loaded /\ attached = game
  /\ phase' = "blocked"
  /\ UNCHANGED <<views, opened, object, regions, table, attached, game, loaded, todo>>

-----------------------------------------------------------------------------
(* Desktop::onDraw().  First the Open buttons of the closed top views ...  *)
BeginDraw ==
  /\ phase = "run"
  /\ phase' = "draw"
  /\ todo' = views
  /\ \E clicked \in SUBSET ((Top \intersect views) \ opened) :
       opened' = opened \union clicked
  /\ UNCHANGED <<views, object, regions, table, attached, game, loaded>>

(* Mutant: the loop does not advance past a window that is closed.         *)
SkipStays(v) ==
  /\ phase = "draw"
  /\ v \in todo
  /\ todo' = IF v \in opened THEN todo \ {v} ELSE todo
  /\ opened' \in {opened, opened \ {v}}
  /\ UNCHANGED <<views, object, regions, table, attached, game, loaded, phase>>

(* ... then the windows.  One that is closed, or collapsed, is not drawn;  *)
(* its cross works all the same.                                           *)
Skip(v) ==
  /\ phase = "draw"
  /\ v \in todo
  /\ todo' = todo \ {v}
  /\ opened' \in {opened, opened \ {v}}
  /\ UNCHANGED <<views, object, regions, table, attached, game, loaded, phase>>

(* Mutant: MemoryWatch::onDraw() returns without removing the view.        *)
ShowForever(v) ==
  /\ phase = "draw"
  /\ v \in todo /\ v \in opened
  /\ todo' = todo \ {v}
  /\ opened' \in {opened, opened \ {v}}
  /\ UNCHANGED <<views, object, regions, table, attached, game, loaded, phase>>

(* onDraw() of a window.  A watch whose handle does not translate any more *)
(* has itself removed.                                                     *)
Show(v) ==
  /\ phase = "draw"
  /\ v \in todo /\ v \in opened
  /\ todo' = todo \ {v}
  /\ opened' \in IF v \in Windows({"watch"}) /\ ~Translates(v)
                 THEN {opened \ {v}}
                 ELSE {opened, opened \ {v}}
  /\ UNCHANGED <<views, object, regions, table, attached, game, loaded, phase>>

(* A click in v's window makes a view, which Desktop::addView() inserts in *)
(* the set being iterated.  That may rehash it: the iteration goes on in a *)
(* new order, so any of the other views may be skipped or come again.      *)
AddView(v, w, new) ==
  /\ phase = "draw"
  /\ v \in todo /\ v \in opened
  /\ object[w] = Unborn
  /\ object' = [object EXCEPT ![w] = new]
  /\ views' = views \union {w}
  /\ opened' = opened \union {w}
  /\ todo' \in SUBSET (views' \ {v})
  /\ UNCHANGED <<regions, attached, game, loaded, phase>>

ViewMemory(w, r) ==
  /\ r \in regions
  /\ AddView(Selector, w, [Unborn EXCEPT !.kind = "watch"])
  /\ table' = [x \in DOMAIN table \union {w} |-> IF x = w THEN r ELSE table[x]]

ViewCpu(w) ==
  /\ attached # 0
  /\ AddView(Debugger, w,
       [Unborn EXCEPT !.kind = "cpu", !.game = attached, !.valid = TRUE])
  /\ UNCHANGED table

Disassemble(c, w) ==
  /\ c \in Windows({"cpu"}) /\ object[c].valid
  /\ AddView(c, w, [object[c] EXCEPT !.kind = "disasm"])
  /\ UNCHANGED table

(* ... and last the sweep: every closed view is erased, top or not, and    *)
(* deleted if it was made on the fly.                                      *)
EndDraw ==
  /\ phase = "draw"
  /\ todo = {}
  /\ phase' = "run"
  /\ views' = opened
  /\ UNCHANGED <<opened, object, regions, table, attached, game, loaded, todo>>

Draw ==
  \/ BeginDraw
  \/ \E v \in views : Skip(v) \/ Show(v)
  \/ \E w \in Pool, r \in regions : ViewMemory(w, r)
  \/ \E w \in Pool : ViewCpu(w)
  \/ \E c, w \in Pool : Disassemble(c, w)
  \/ EndDraw

Blocked == phase = "blocked" /\ UNCHANGED vars

Next ==
  \/ LoadGame \/ AddMemory \/ UnloadGame
  \/ \E v \in Pool, r \in regions : LuaIndex(v, r)
  \/ Tick \/ Blocked
  \/ Draw

(* run() draws again and again: a draw that has begun goes on and ends.    *)
(* Nothing is assumed of the user, the core or the scripts.                *)
Spec == Init /\ [][Next]_vars /\ WF_vars(Draw)

-----------------------------------------------------------------------------
TypeOK ==
  /\ views \subseteq Top \union Pool
  /\ opened \subseteq views
  /\ object \in [Pool -> Object]
  /\ regions \subseteq Region
  /\ DOMAIN table \subseteq Pool
  /\ \A v \in DOMAIN table : table[v] \in Region
  /\ attached \in 0..MaxGames
  /\ game \in 0..MaxGames
  /\ loaded \in BOOLEAN
  /\ loaded => game \in Game
  /\ phase \in {"run", "draw", "blocked"}
  /\ todo \subseteq views

(* The games whose memory the next drawing, frame or Lua statement reads.  *)
ReadByHandles  == (regions \union {table[v] : v \in DOMAIN table}) \ {Kept}
ReadByDebugger == IF Debugger \in views THEN {attached} \ {0} ELSE {}
ReadByWindows  == {object[v].game : v \in {x \in Windows({"cpu", "disasm"}) : object[x].valid}}

(* Nobody reads the memory of a game that is no longer loaded, as long as  *)
(* the memory selector, which alone ends the handles, has not been closed, *)
(* and but for the regions that a script made of a pointer that was stale  *)
(* already: nothing checks it.                                             *)
NoStaleReads ==
  (IF Selector \in views THEN ReadByHandles ELSE {})
    \union ReadByDebugger \union ReadByWindows
  \subseteq Live

(* The selector keeps to what its HandleAllocator promises: a window or a  *)
(* Lua object gets one handle, when it is made, for a region; it names     *)
(* that region until the game ends, and nothing ever after.                *)
Handles ==
  INSTANCE HandleTable
    WITH Object <- Region,
         issued <- {v \in Pool : object[v].kind \in {"watch", "script"}}

UsesHandleTable == Handles!Spec

(* Every drawing ends, whatever windows its windows add to the set that it *)
(* goes through, and however often that brings it back to the others.      *)
DrawingEnds == phase = "draw" ~> phase = "run"

(* The windows on a game's memory go away after the game, if they are      *)
(* looked at or closed: the drawing that finds a handle dead closes its    *)
(* window, and a window once closed is swept away.                         *)
DeadWatchesGo ==
  \A w \in Pool :
    ([]<><<Show(w)>>_vars \/ []<>(w \notin opened)) =>
      ((w \in Windows({"watch"}) /\ ~Translates(w)) ~> w \notin views)

(* "In any case, the core must never lock into an execution loop that      *)
(* prevents the user from interacting with the front-end": the desktop is  *)
(* drawn again and again.                                                  *)
FrontEndResponds == []<>(phase = "draw")
=============================================================================
