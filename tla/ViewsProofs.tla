---------------------------- MODULE ViewsProofs ----------------------------
(***************************************************************************)
(* Proofs about Views, for any number of windows and games.                *)
(***************************************************************************)
EXTENDS Views, TLAPS

(* NoStaleReads, one conjunct per reader.                                  *)
Readers ==
  /\ Selector \in views =>
       /\ regions \subseteq Live \union {Kept}
       /\ \A v \in DOMAIN table : table[v] \in Live \union {Kept}
  /\ Debugger \in views => attached = 0 \/ attached \in Live
  /\ \A v \in Windows({"cpu", "disasm"}) : object[v].valid => object[v].game \in Live

LEMMA UnbornType == Unborn \in Object
BY ViewsAssumption DEF Unborn, Object, Kind, Top

LEMMA InitInv == Init => TypeOK /\ Readers
<1> SUFFICES ASSUME Init PROVE TypeOK /\ Readers
  OBVIOUS
<1>1. TypeOK
  <2>1. object \in [Pool -> Object]
    BY UnbornType DEF Init
  <2>2. DOMAIN table = {}
    BY DEF Init
  <2>3. 0 \in 0..MaxGames
    BY ViewsAssumption
  <2> QED BY <2>1, <2>2, <2>3 DEF Init, TypeOK
<1>2. Readers
  BY DEF Init, Readers, Windows, Unborn
<1> QED BY <1>1, <1>2

(* A new view or Lua object, and the handle it may hold.                   *)
LEMMA AddViewInv ==
  ASSUME TypeOK, Readers, NEW v, NEW w \in Pool, NEW new \in Object,
         AddView(v, w, new),
         new.kind \in {"cpu", "disasm"} => new.game \in Live,
         table' = table \/ \E r \in regions :
           /\ Selector \in views
           /\ table' = [x \in DOMAIN table \union {w} |-> IF x = w THEN r ELSE table[x]]
  PROVE  TypeOK' /\ Readers'
<1>1. TypeOK'
  BY DEF TypeOK, AddView
<1>2. Selector \in views' => Selector \in views
  BY ViewsAssumption DEF AddView, Top
<1>3. Debugger \in views' => Debugger \in views
  BY ViewsAssumption DEF AddView, Top
<1>4. ASSUME Selector \in views'
      PROVE  /\ regions' \subseteq Live' \union {Kept}
             /\ \A x \in DOMAIN table' : table'[x] \in Live' \union {Kept}
  BY <1>2, <1>4 DEF AddView, Readers, Live
<1>5. ASSUME NEW x \in Windows({"cpu", "disasm"})', object'[x].valid
      PROVE  object'[x].game \in Live'
  <2>1. CASE x = w
    BY <1>5, <2>1 DEF AddView, TypeOK, Windows, Live
  <2>2. CASE x # w
    BY <1>5, <2>2 DEF AddView, TypeOK, Windows, Live, Readers
  <2> QED BY <2>1, <2>2
<1>6. Debugger \in views' => attached' = 0 \/ attached' \in Live'
  BY <1>3 DEF AddView, Readers, Live
<1> QED BY <1>1, <1>4, <1>5, <1>6 DEF Readers

LEMMA DrawInv ==
  ASSUME TypeOK, Readers, Draw
  PROVE  TypeOK' /\ Readers'
<1>1. CASE BeginDraw
  BY <1>1 DEF BeginDraw, TypeOK, Readers, Live, Windows
<1>2. ASSUME NEW v \in views, Skip(v) \/ Show(v)
      PROVE  TypeOK' /\ Readers'
  <2>1. opened' \subseteq opened /\ todo' \subseteq todo
    BY <1>2 DEF Skip, Show
  <2>2. UNCHANGED <<views, object, regions, table, attached, game, loaded, phase>>
    BY <1>2 DEF Skip, Show
  <2> QED BY <2>1, <2>2 DEF TypeOK, Readers, Live, Windows
<1>3. ASSUME NEW w \in Pool, NEW r \in regions, ViewMemory(w, r)
      PROVE  TypeOK' /\ Readers'
  <2>1. PICK new : new = [Unborn EXCEPT !.kind = "watch"]
    OBVIOUS
  <2>2. new \in Object /\ new.kind = "watch"
    BY <2>1, UnbornType DEF Object, Kind
  <2>3. Selector \in views
    BY <1>3 DEF ViewMemory, AddView, TypeOK
  <2> QED BY <1>3, <2>1, <2>2, <2>3, AddViewInv DEF ViewMemory
<1>4. ASSUME NEW w \in Pool, ViewCpu(w)
      PROVE  TypeOK' /\ Readers'
  <2>1. PICK new : new = [Unborn EXCEPT !.kind = "cpu", !.game = attached,
                                        !.valid = TRUE]
    OBVIOUS
  <2>2. new \in Object /\ new.game = attached
    BY <2>1, UnbornType DEF Object, Kind, TypeOK
  <2>3. Debugger \in views
    BY <1>4 DEF ViewCpu, AddView, TypeOK
  <2>4. attached \in Live
    BY <1>4, <2>3 DEF ViewCpu, Readers
  <2> QED BY <1>4, <2>1, <2>2, <2>4, AddViewInv DEF ViewCpu
<1>5. ASSUME NEW c \in Pool, NEW w \in Pool, Disassemble(c, w)
      PROVE  TypeOK' /\ Readers'
  <2>1. PICK new : new = [object[c] EXCEPT !.kind = "disasm"]
    OBVIOUS
  <2>2. new \in Object /\ new.game = object[c].game
    BY <2>1 DEF Object, Kind, TypeOK
  <2>3. object[c].game \in Live
    BY <1>5 DEF Disassemble, Readers, Windows
  <2> QED BY <1>5, <2>1, <2>2, <2>3, AddViewInv DEF Disassemble
<1>6. CASE EndDraw
  BY <1>6 DEF EndDraw, TypeOK, Readers, Live, Windows
<1> QED BY <1>1, <1>2, <1>3, <1>4, <1>5, <1>6 DEF Draw

LEMMA NextInv ==
  ASSUME TypeOK, Readers, [Next]_vars
  PROVE  TypeOK' /\ Readers'
<1>1. CASE LoadGame
  <2>0. game' \in Game /\ Game \subseteq 0..MaxGames
    BY <1>1, ViewsAssumption DEF LoadGame, TypeOK, Game
  <2>1. TypeOK'
    BY <1>1, <2>0 DEF LoadGame, TypeOK, Region
  <2>2. Live = {} /\ Live' = {game'}
    BY <1>1 DEF LoadGame, Live
  <2>3. Readers'
    BY <1>1, <2>2 DEF LoadGame, TypeOK, Readers, Windows
  <2> QED BY <2>1, <2>3
<1>2. CASE AddMemory
  <2>1. TypeOK'
    BY <1>2 DEF AddMemory, TypeOK, Live, Region
  <2>2. Readers'
    BY <1>2 DEF AddMemory, Readers, Live, Windows
  <2> QED BY <2>1, <2>2
<1>3. CASE UnloadGame
  <2>1. object' \in [Pool -> Object]
    BY <1>3 DEF UnloadGame, Invalidate, TypeOK, Object
  <2>2. TypeOK'
    <3>1. attached' \in 0..MaxGames
      BY <1>3, ViewsAssumption DEF UnloadGame, TypeOK
    <3>2. /\ regions' \subseteq Region /\ DOMAIN table' \subseteq Pool
          /\ \A v \in DOMAIN table' : table'[v] \in Region
      BY <1>3 DEF UnloadGame, TypeOK
    <3> QED BY <1>3, <2>1, <3>1, <3>2 DEF UnloadGame, TypeOK
  <2>3. ASSUME NEW v \in Windows({"cpu", "disasm"})'
        PROVE  ~object'[v].valid
    BY <1>3, <2>3 DEF UnloadGame, Invalidate, Windows, TypeOK, Object
  <2>4. Readers'
    BY <1>3, <2>3 DEF UnloadGame, Readers
  <2> QED BY <2>2, <2>4
<1>4. ASSUME NEW v \in Pool, NEW r \in regions, LuaIndex(v, r)
      PROVE  TypeOK' /\ Readers'
  <2>1. object' \in [Pool -> Object] /\ object'[v].kind = "script"
    BY <1>4, UnbornType DEF LuaIndex, TypeOK, Object, Kind
  <2>2. TypeOK'
    BY <1>4, <2>1 DEF LuaIndex, TypeOK
  <2>3. ASSUME NEW x \in Windows({"cpu", "disasm"})'
        PROVE  x # v /\ x \in Windows({"cpu", "disasm"}) /\ object'[x] = object[x]
    BY <1>4, <2>1, <2>3 DEF LuaIndex, Windows, TypeOK
  <2>4. Readers'
    BY <1>4, <2>3 DEF LuaIndex, Readers, Live
  <2> QED BY <2>2, <2>4
<1>5. CASE Tick \/ Blocked \/ UNCHANGED vars
  BY <1>5 DEF Tick, Blocked, vars, TypeOK, Readers, Live, Windows
<1> QED BY <1>1, <1>2, <1>3, <1>4, <1>5, DrawInv DEF Next

LEMMA SpecInv == Spec => [](TypeOK /\ Readers)
BY InitInv, NextInv, PTL DEF Spec

(* The desktop's sets and the objects made on the fly keep their types.    *)
THEOREM SpecTypeOK == Spec => []TypeOK
BY SpecInv, PTL

(* Until the memory selector's window is closed, no window, no frame and   *)
(* no Lua object reads the memory of a game that is not loaded any more.   *)
THEOREM SpecNoStaleReads == Spec => []NoStaleReads
<1>1. TypeOK /\ Readers => NoStaleReads
  BY DEF Readers, NoStaleReads, ReadByHandles, ReadByDebugger, ReadByWindows, Live
<1> QED BY <1>1, SpecInv, PTL

-----------------------------------------------------------------------------
(* The windows and the Lua objects that hold a handle.                     *)
Holders == {v \in Pool : object[v].kind \in {"watch", "script"}}

(* Something new that gets a handle for r.                                 *)
Issues(w, r, new) ==
  /\ object[w] = Unborn
  /\ object' = [object EXCEPT ![w] = new]
  /\ table' = [x \in DOMAIN table \union {w} |-> IF x = w THEN r ELSE table[x]]

(* Its handle is one that nobody held before.                              *)
LEMMA IssueStep ==
  ASSUME TypeOK, NEW w \in Pool, NEW r \in regions, NEW new,
         new.kind \in {"watch", "script"}, Issues(w, r, new)
  PROVE  Handles!Allocate
<1>1. w \notin Holders
  BY DEF Issues, Holders, Unborn
<1>2. Holders' = Holders \union {w}
  BY DEF Issues, Holders, TypeOK
<1>3. r \in Region
  BY DEF TypeOK
<1> QED BY <1>1, <1>2, <1>3 DEF Issues, Handles!Allocate, Holders

LEMMA HoldersKept ==
  ASSUME TypeOK, NEW w \in Pool, object[w] = Unborn, NEW new,
         new.kind \notin {"watch", "script"}, object' = [object EXCEPT ![w] = new]
  PROVE  Holders' = Holders
BY DEF Holders, TypeOK, Unborn

LEMMA HandlesStep ==
  ASSUME TypeOK, [Next]_vars
  PROVE  Handles!Next \/ (Holders' = Holders /\ table' = table)
<1>1. ASSUME NEW w \in Pool, NEW r \in regions, ViewMemory(w, r)
      PROVE  Handles!Allocate
  <2>1. PICK new : new = [Unborn EXCEPT !.kind = "watch"]
    OBVIOUS
  <2>2. new.kind = "watch"
    BY <2>1 DEF Unborn
  <2>3. Issues(w, r, new)
    BY <1>1, <2>1 DEF ViewMemory, AddView, Issues
  <2> QED BY <2>2, <2>3, IssueStep
<1>2. ASSUME NEW v \in Pool, NEW r \in regions, LuaIndex(v, r)
      PROVE  Handles!Allocate
  <2>1. PICK new : new = [Unborn EXCEPT !.kind = "script"]
    OBVIOUS
  <2>2. new.kind = "script"
    BY <2>1 DEF Unborn
  <2>3. Issues(v, r, new)
    BY <1>2, <2>1 DEF LuaIndex, Issues
  <2> QED BY <2>2, <2>3, IssueStep
<1>3. ASSUME NEW w \in Pool, ViewCpu(w)
      PROVE  Holders' = Holders /\ table' = table
  <2>1. PICK new : new = [Unborn EXCEPT !.kind = "cpu", !.game = attached,
                                        !.valid = TRUE]
    OBVIOUS
  <2>2. new.kind = "cpu"
    BY <2>1 DEF Unborn
  <2> QED BY <1>3, <2>1, <2>2, HoldersKept DEF ViewCpu, AddView
<1>4. ASSUME NEW c \in Pool, NEW w \in Pool, Disassemble(c, w)
      PROVE  Holders' = Holders /\ table' = table
  <2>1. PICK new : new = [object[c] EXCEPT !.kind = "disasm"]
    OBVIOUS
  <2>2. new.kind = "disasm"
    BY <2>1 DEF TypeOK, Object
  <2> QED BY <1>4, <2>1, <2>2, HoldersKept DEF Disassemble, AddView
<1>5. CASE UnloadGame
  <2>1. \A v \in Pool : object'[v].kind = object[v].kind
    BY <1>5 DEF UnloadGame, Invalidate, TypeOK, Object
  <2>2. Holders' = Holders
    BY <2>1 DEF Holders
  <2>3. CASE Selector \in views
    <3>1. table' = [v \in {} |-> 0]
      BY <1>5, <2>3 DEF UnloadGame
    <3>2. table' = [h \in {} |-> CHOOSE o \in Region : TRUE] /\ DOMAIN table' = {}
      BY <3>1
    <3> QED BY <2>2, <3>2 DEF Handles!Next, Handles!Reset, Holders
  <2>4. CASE Selector \notin views
    BY <1>5, <2>2, <2>4 DEF UnloadGame
  <2> QED BY <2>3, <2>4
<1>6. CASE LoadGame \/ AddMemory \/ Tick \/ Blocked \/ UNCHANGED vars
  BY <1>6 DEF LoadGame, AddMemory, Tick, Blocked, vars, Holders
<1>7. CASE BeginDraw \/ (\E v \in views : Skip(v) \/ Show(v)) \/ EndDraw
  BY <1>7 DEF BeginDraw, Skip, Show, EndDraw, Holders
<1> QED BY <1>1, <1>2, <1>3, <1>4, <1>5, <1>6, <1>7 DEF Next, Draw, Handles!Next

(* The windows and the Lua objects use the selector's handles as           *)
(* HandleTable has it, which is what HandleAllocator was shown to promise: *)
(* whoever holds a handle reads the region it was made for, or nothing.    *)
THEOREM SpecUsesHandleTable == Spec => UsesHandleTable
<1>1. Init => Handles!Init
  <2> SUFFICES ASSUME Init PROVE Handles!Init
    OBVIOUS
  <2>1. Holders = {}
    BY DEF Init, Holders, Unborn
  <2>2. table = [h \in {} |-> CHOOSE o \in Region : TRUE]
    BY DEF Init
  <2> QED BY <2>1, <2>2 DEF Handles!Init, Holders
<1>2. TypeOK /\ [Next]_vars => [Handles!Next]_(Handles!vars)
  BY HandlesStep DEF Handles!vars, Holders
<1> QED BY <1>1, <1>2, SpecInv, PTL DEF Spec, UsesHandleTable, Handles!Spec

-----------------------------------------------------------------------------
(* A watch without a handle, and a window that waits to be swept.          *)
Dead(w)    == w \in Windows({"watch"}) /\ ~Translates(w)
Closing(w) == w \in views /\ w \notin opened

(* Between two drawings every view that is left is open.                   *)
Swept == phase # "draw" => views = opened

LEMMA SweptStep ==
  ASSUME TypeOK, Swept, [Next]_vars
  PROVE  Swept'
<1> SUFFICES ASSUME phase' # "draw" PROVE views' = opened'
  BY DEF Swept
<1>1. CASE LoadGame \/ AddMemory \/ UnloadGame \/ Tick \/ Blocked \/ UNCHANGED vars
  BY <1>1 DEF Swept, LoadGame, AddMemory, UnloadGame, Tick, Blocked, vars
<1>2. ASSUME NEW v \in Pool, NEW r \in regions, LuaIndex(v, r)
      PROVE  views' = opened'
  BY <1>2 DEF Swept, LuaIndex
<1>3. CASE Draw
  <2>1. EndDraw
    BY <1>3 DEF Draw, BeginDraw, Skip, Show, ViewMemory, ViewCpu, Disassemble, AddView
  <2> QED BY <2>1 DEF EndDraw
<1> QED BY <1>1, <1>2, <1>3 DEF Next

(* A handle is never given back to a watch, nor a window to a view.        *)
LEMMA DeadStep ==
  ASSUME TypeOK, NEW w \in Pool, Dead(w), [Next]_vars
  PROVE  Dead(w)' \/ (w \notin views)'
<1>0. /\ w \in views /\ object[w].kind = "watch" /\ w \notin DOMAIN table
      /\ \A v \in Pool : object[v] = Unborn => v # w
  BY DEF Dead, Windows, Translates, Unborn
<1> SUFFICES ASSUME w \in views' PROVE object'[w].kind = "watch" /\ w \notin DOMAIN table'
  BY DEF Dead, Windows, Translates
<1>1. ASSUME NEW v, NEW x \in Pool, NEW new, AddView(v, x, new)
      PROVE  x # w /\ object'[w].kind = "watch"
  BY <1>0, <1>1 DEF AddView, TypeOK
<1>2. ASSUME NEW x \in Pool, NEW r \in regions, ViewMemory(x, r)
      PROVE  object'[w].kind = "watch" /\ w \notin DOMAIN table'
  BY <1>0, <1>1, <1>2 DEF ViewMemory
<1>3. ASSUME NEW x \in Pool, ViewCpu(x) \/ \E c \in Pool : Disassemble(c, x)
      PROVE  object'[w].kind = "watch" /\ w \notin DOMAIN table'
  BY <1>0, <1>1, <1>3 DEF ViewCpu, Disassemble
<1>4. CASE BeginDraw \/ (\E v \in views : Skip(v) \/ Show(v)) \/ EndDraw
  BY <1>0, <1>4 DEF BeginDraw, Skip, Show, EndDraw
<1>5. CASE LoadGame \/ AddMemory \/ Tick \/ Blocked \/ UNCHANGED vars
  BY <1>0, <1>5 DEF LoadGame, AddMemory, Tick, Blocked, vars
<1>6. CASE UnloadGame
  BY <1>0, <1>6 DEF UnloadGame, Invalidate, TypeOK, Object
<1>7. ASSUME NEW v \in Pool, NEW r \in regions, LuaIndex(v, r)
      PROVE  object'[w].kind = "watch" /\ w \notin DOMAIN table'
  BY <1>0, <1>7 DEF LuaIndex, TypeOK
<1> QED BY <1>2, <1>3, <1>4, <1>5, <1>6, <1>7 DEF Next, Draw

(* A window that was made on the fly is not opened again.                  *)
LEMMA ClosingStep ==
  ASSUME TypeOK, NEW w \in Pool, object[w] # Unborn, Closing(w), [Next]_vars
  PROVE  Closing(w)' \/ (w \notin views)'
<1>1. w \notin Top
  BY ViewsAssumption
<1>2. ASSUME NEW v, NEW x \in Pool, NEW new, AddView(v, x, new)
      PROVE  w \notin opened'
  BY <1>2 DEF AddView, Closing
<1> QED
  BY <1>1, <1>2
     DEF Closing, Next, LoadGame, AddMemory, UnloadGame, LuaIndex, Tick,
         Blocked, Draw, BeginDraw, Skip, Show, ViewMemory, ViewCpu, Disassemble,
         EndDraw, vars

(* The windows on a game's memory that are looked at or closed go away     *)
(* after the game: a watch that is dead stays so, the drawing that finds   *)
(* it dead closes it, nothing opens it again, and the drawing that is      *)
(* under way ends, which is DrawingEnds, with the sweep.                   *)
THEOREM SpecDeadWatchesGo == Spec /\ DrawingEnds => DeadWatchesGo
<1> SUFFICES
      ASSUME NEW w \in Pool
      PROVE  Spec /\ DrawingEnds =>
               (([]<><<Show(w)>>_vars \/ []<>(w \notin opened)) =>
                  ((w \in Windows({"watch"}) /\ ~Translates(w)) ~> w \notin views))
  BY DEF DeadWatchesGo
<1> DEFINE Inv == TypeOK /\ Swept
           D   == Dead(w)
           G   == w \notin views
           C   == w \notin opened
<1>1. Spec => []Inv
  <2>1. Init => Swept
    BY DEF Init, Swept
  <2> QED BY <2>1, SweptStep, SpecInv, PTL DEF Spec
<1>2. Inv /\ D /\ [Next]_vars => D' \/ G'
  BY DeadStep
<1>3. D /\ <<Show(w)>>_vars => C'
  BY DEF Show, Dead, Windows
<1>4. Inv /\ D /\ C /\ [Next]_vars => C' \/ G'
  <2>1. Dead(w) => object[w] # Unborn /\ w \in views
    BY DEF Dead, Windows, Unborn
  <2> QED BY <2>1, ClosingStep DEF Closing
<1>5. Inv /\ D /\ C => phase = "draw" /\ ~(phase = "run")
  BY DEF Swept, Dead, Windows
<1>6. D <=> w \in Windows({"watch"}) /\ ~Translates(w)
  BY DEF Dead
<1> HIDE DEF Inv
<1> QED BY <1>1, <1>2, <1>3, <1>4, <1>5, <1>6, PTL DEF Spec, DrawingEnds
=============================================================================
