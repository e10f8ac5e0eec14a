---------------------------- MODULE CheatSearch ----------------------------
(***************************************************************************)
(* The cheat search of hc.cheats: start() takes a region of memory, and    *)
(* each next() takes a snapshot of it, filters the snapshot against a      *)
(* number or against the snapshot before, and keeps the addresses that     *)
(* were candidates so far and pass the filter.                             *)
(*                                                                         *)
(* doFilter() reads multi-byte values with a rolling window: it assembles  *)
(* the first value from its bytes and then shifts one byte in per address. *)
(* Values are kept as the unsigned pattern of their bytes; the signed      *)
(* types differ in comparisons only.                                       *)
(***************************************************************************)
EXTENDS Integers, Sequences, CheatSets

CONSTANTS
  Base,      \* the region's address
  Size,      \* its size in bytes
  Byte,      \* bound: the bytes found in memory
  Operand,   \* bound: the numbers next() is given
  Setting,   \* bound: the settings start() is given
  Operator   \* bound: the operators next() is given

Width == {1, 2, 4, 8}

ASSUME CheatAssumption ==
  /\ Base \in Nat
  /\ Size \in Nat \ {0}
  /\ Byte \subseteq 0..255
  /\ Operand \subseteq Int
  /\ Setting \subseteq [signed : BOOLEAN, width : Width, big : BOOLEAN]
  /\ Operator \subseteq {"<", "<=", ">", ">=", "==", "~="}

VARIABLES
  memory,    \* the region, as the game changes it
  alive,     \* does cheats.memory's handle still translate?
  settings,  \* cheats.settings
  current,   \* cheats.current
  set,       \* cheats.set
  pc,        \* no search, between two calls, in doFilter's loop, crashed
  filter,    \* doFilter's arguments
  address, value1, value2, found,  \* its locals; found is `result'
  mine       \* a set the user's Lua code made of others

searchVars == <<alive, settings, current, set>>
filterVars == <<filter, address, value1, value2, found>>
vars == <<memory, searchVars, pc, filterVars, mine>>

Region   == Base..(Base + Size - 1)
Memory   == [Region -> Byte]
NoMemory == [a \in {} |-> 0]

-----------------------------------------------------------------------------
(* 256 ^ w.                                                                *)
Modulus(w) ==
  CASE w = 1 -> 256
    [] w = 2 -> 256 * 256
    [] w = 4 -> 256 * 256 * 256 * 256
    [] w = 8 -> 256 * 256 * 256 * 256 * 256 * 256 * 256 * 256

(* The bytes of a value, the least significant first.                      *)
Little(b0, b1) == b0 + 256 * b1
Little4(b0, b1, b2, b3) == Little(b0, b1) + 65536 * Little(b2, b3)

(* first(): a value assembled from the bytes at an address.                *)
First(m, a, s) ==
  LET b(k) == m[a + (IF s.big THEN s.width - 1 - k ELSE k)]
  IN  CASE s.width = 1 -> m[a]
        [] s.width = 2 -> Little(b(0), b(1))
        [] s.width = 4 -> Little4(b(0), b(1), b(2), b(3))
        [] s.width = 8 -> Little4(b(0), b(1), b(2), b(3)) +
                            Modulus(4) * Little4(b(4), b(5), b(6), b(7))

(* Mutant: next() shifts in the byte at the address itself.                *)
FollowingSameByte(v, m, a, s) ==
  LET byte == m[a]
  IN  CASE s.width = 1 -> m[a]
        [] s.width # 1 /\ s.big  -> ((v * 256) % Modulus(s.width)) + byte
        [] s.width # 1 /\ ~s.big -> v \div 256 + byte * (Modulus(s.width) \div 256)

(* next(): the value at an address from the value at the address before.   *)
Following(v, m, a, s) ==
  LET byte == m[a + s.width - 1]
  IN  CASE s.width = 1 -> m[a]
        [] s.width # 1 /\ s.big  -> ((v * 256) % Modulus(s.width)) + byte
        [] s.width # 1 /\ ~s.big -> v \div 256 + byte * (Modulus(s.width) \div 256)

(* The value the type T gives to a pattern of bytes.                       *)
Typed(v, s) ==
  IF s.signed /\ 2 * v >= Modulus(s.width) THEN v - Modulus(s.width) ELSE v

Compare(op, v1, v2, s) ==
  LET a == Typed(v1, s)
      b == Typed(v2, s)
  IN  CASE op = "<"  -> a < b
        [] op = "<=" -> a <= b
        [] op = ">"  -> a > b
        [] op = ">=" -> a >= b
        [] op = "==" -> a = b
        [] op = "~=" -> a # b

(* The second operand is a number, truncated to the type, or a snapshot,  *)
(* read at the address.                                                    *)
Number(n)     == [number |-> n, memory |-> NoMemory]
PreviousOne   == [number |-> 0, memory |-> current]
IsNumber(x)   == x.memory = NoMemory

FirstOf(x, a, s) ==
  IF IsNumber(x) THEN x.number % Modulus(s.width) ELSE First(x.memory, a, s)

FollowingOf(v, x, a, s) ==
  IF IsNumber(x) THEN v ELSE Following(v, x.memory, a, s)

NoFilter == [memory |-> NoMemory, operator |-> "==", operand |-> Number(0)]

Init ==
  /\ memory \in Memory
  /\ alive = FALSE
  /\ settings \in Setting
  /\ current = NoMemory
  /\ set = Empty
  /\ pc = "none"
  /\ filter = NoFilter
  /\ address = 0 /\ value1 = 0 /\ value2 = 0 /\ found = <<>>
  /\ mine = Empty

-----------------------------------------------------------------------------
(* The game runs between two calls: Lua code is never interrupted.         *)
Between == pc \in {"none", "idle"}

GameWrites ==
  /\ Between
  /\ \E a \in Region, b \in Byte : memory' = [memory EXCEPT ![a] = b]
  /\ UNCHANGED <<searchVars, pc, filterVars, mine>>

(* The handle dies with its game; `memory' is the next game's from now on. *)
GameEnds ==
  /\ Between
  /\ alive' = FALSE
  /\ UNCHANGED <<memory, settings, current, set, pc, filterVars, mine>>

(* hc.cheats.start(hc.memory.xxx, settings).                               *)
Start(s) ==
  /\ Between
  /\ alive' = TRUE
  /\ settings' = s
  /\ current' = memory
  /\ set' = Universal
  /\ pc' = "idle"
  /\ UNCHANGED <<memory, filterVars, mine>>

(* A dead handle has base and size 0.                                      *)
Snapshot     == IF alive THEN memory ELSE NoMemory
SnapshotSize == IF alive THEN Size ELSE 0

Conclude(elements, taken) ==
  /\ current' = taken
  /\ set' = Intersection(set, Plain(elements))
  /\ pc' = "idle"
  /\ filter' = NoFilter
  /\ address' = 0 /\ value1' = 0 /\ value2' = 0 /\ found' = <<>>
  /\ UNCHANGED <<memory, alive, settings, mine>>

(* Snapshots of different shapes: the filter returns a null pointer, which *)
(* l_filter() pushes.                                                      *)
NextCrashes ==
  /\ pc = "idle"
  /\ DOMAIN current # DOMAIN Snapshot
  /\ pc' = "crashed"
  /\ UNCHANGED <<memory, searchVars, filterVars, mine>>

NextTooSmall(x) ==
  /\ pc = "idle"
  /\ IsNumber(x) \/ DOMAIN current = DOMAIN Snapshot
  /\ SnapshotSize < settings.width
  /\ Conclude({}, Snapshot)

NextBegins(op, x) ==
  /\ pc = "idle"
  /\ IsNumber(x) \/ DOMAIN current = DOMAIN Snapshot
  /\ SnapshotSize >= settings.width
  /\ pc' = "loop"
  /\ filter' = [memory |-> Snapshot, operator |-> op, operand |-> x]
  /\ address' = Base
  /\ value1' = First(Snapshot, Base, settings)
  /\ value2' = FirstOf(x, Base, settings)
  /\ found' = <<>>
  /\ UNCHANGED <<memory, searchVars, mine>>

-----------------------------------------------------------------------------
(* doFilter()'s loop.                                                      *)
LoopEnd == Base + Size - settings.width + 1

FoundNow ==
  IF Compare(filter.operator, value1, value2, settings)
  THEN Append(found, address)
  ELSE found

(* Mutant: the address is advanced before it is added.                     *)
FilterStepAddsNext ==
  /\ pc = "loop"
  /\ address + 1 < LoopEnd
  /\ found' = IF FoundNow # found THEN Append(found, address + 1) ELSE found
  /\ address' = address + 1
  /\ value1' = Following(value1, filter.memory, address + 1, settings)
  /\ value2' = FollowingOf(value2, filter.operand, address + 1, settings)
  /\ UNCHANGED <<memory, searchVars, pc, filter, mine>>

FilterStep ==
  /\ pc = "loop"
  /\ address + 1 < LoopEnd
  /\ found' = FoundNow
  /\ address' = address + 1
  /\ value1' = Following(value1, filter.memory, address + 1, settings)
  /\ value2' = FollowingOf(value2, filter.operand, address + 1, settings)
  /\ UNCHANGED <<memory, searchVars, pc, filter, mine>>

(* Mutant: the set is replaced, not narrowed.                              *)
FilterEndsAnew ==
  /\ pc = "loop"
  /\ address + 1 >= LoopEnd
  /\ current' = filter.memory
  /\ set' = Plain({FoundNow[k] : k \in DOMAIN FoundNow})
  /\ pc' = "idle"
  /\ filter' = NoFilter
  /\ address' = 0 /\ value1' = 0 /\ value2' = 0 /\ found' = <<>>
  /\ UNCHANGED <<memory, alive, settings, mine>>

FilterEnds ==
  /\ pc = "loop"
  /\ address + 1 >= LoopEnd
  /\ Conclude({FoundNow[k] : k \in DOMAIN FoundNow}, filter.memory)

-----------------------------------------------------------------------------
(* What Lua code can make of the set M.list() returned and one of its own. *)
SetOp == {"take", "complement", "+", "*", "-", "reversed -"}

Apply(op, a, b) ==
  CASE op = "take"       -> b
    [] op = "complement" -> Complement(a)
    [] op = "+"          -> Union(a, b)
    [] op = "*"          -> Intersection(a, b)
    [] op = "-"          -> Difference(a, b)
    [] op = "reversed -" -> Difference(b, a)

Combine(op) ==
  /\ pc = "idle"
  /\ mine' = Apply(op, mine, set)
  /\ UNCHANGED <<memory, searchVars, pc, filterVars>>

Crashed == pc = "crashed" /\ UNCHANGED vars

Next ==
  \/ GameWrites \/ GameEnds
  \/ \E s \in Setting : Start(s)
  \/ NextCrashes
  \/ \E x \in {Number(n) : n \in Operand} \union {PreviousOne} :
       NextTooSmall(x) \/ \E op \in Operator : NextBegins(op, x)
  \/ FilterStep \/ FilterEnds
  \/ \E op \in SetOp : Combine(op)
  \/ Crashed

Spec == Init /\ [][Next]_vars

-----------------------------------------------------------------------------
CheatSet == [elements : SUBSET Region, complemented : BOOLEAN]

TypeOK ==
  /\ memory \in Memory
  /\ alive \in BOOLEAN
  /\ settings \in Setting
  /\ current \in Memory \union {NoMemory}
  /\ set \in CheatSet
  /\ pc \in {"none", "idle", "loop", "crashed"}
  /\ mine \in CheatSet
  /\ pc = "loop" =>
       /\ filter.memory \in Memory
       /\ filter.operator \in Operator
       /\ filter.operand \in [number : Int, memory : Memory \union {NoMemory}]
       /\ address \in Base..(LoopEnd - 1)
       /\ found \in Seq(Region)

(* The window that is rolled over the bytes, one byte in and one byte out  *)
(* per address, always shows the value that is at the address.             *)
WindowExact ==
  pc = "loop" =>
    /\ value1 = First(filter.memory, address, settings)
    /\ value2 = FirstOf(filter.operand, address, settings)

(* contains() and the merges need sorted vectors, and add() only appends.  *)
FoundAscends ==
  pc = "loop" =>
    /\ \A i, j \in 1..Len(found) : i < j => found[i] < found[j]
    /\ \A i \in 1..Len(found) : found[i] < address

Passes(a) ==
  /\ a + settings.width - 1 \in Region
  /\ Compare(filter.operator, First(filter.memory, a, settings),
             FirstOf(filter.operand, a, settings), settings)

(* next() keeps exactly the candidates whose value, read in full from the  *)
(* snapshot, compares as asked with the number or with the value before.   *)
NextNarrows ==
  [][ (pc = "loop" /\ pc' = "idle") =>
        \A a \in Region : Contains(set', a) <=> Contains(set, a) /\ Passes(a) ]_vars

Meant(op, x, y) ==
  CASE op = "take"       -> y
    [] op = "complement" -> ~x
    [] op = "+"          -> x \/ y
    [] op = "*"          -> x /\ y
    [] op = "-"          -> x /\ ~y
    [] op = "reversed -" -> y /\ ~x

(* Lua's operators on sets are those of set theory, complements included.  *)
AlgebraHolds ==
  [][ \A op \in SetOp : Combine(op) =>
        \A a \in Region :
          Contains(mine', a) <=> Meant(op, Contains(mine, a), Contains(set, a)) ]_vars
=============================================================================
