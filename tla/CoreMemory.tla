----------------------------- MODULE CoreMemory -----------------------------
(***************************************************************************)
(* hc::CoreMemory: blocks of a core's memory that a script concatenates    *)
(* into one region with hc.config:addMemory(), and the loops of peek() and *)
(* poke(), which look for the block that has an address.                   *)
(*                                                                         *)
(* Addresses and sizes are unsigned words.  A block is a piece of the      *)
(* host's memory; its offset, which addBlock() stores, is never used.      *)
(***************************************************************************)
EXTENDS Integers, SequencesExt

CONSTANTS
  Word,      \* two to the bits of a uint64_t
  Host,      \* the host's addresses
  Null,      \* the null pointer
  Table,     \* bound: the tables a script passes to addMemory()
  MaxBlocks  \* bound: how many of them

Address == 0..(Word - 1)

ASSUME MemoryAssumption ==
  /\ Word \in Nat \ {0}
  /\ Host \subseteq Nat
  /\ Null \notin Nat
  /\ Table \subseteq [data : Host \union {Null}, base : Int, size : Int]
  /\ \A t \in Table : t.base < Word /\ t.size < Word
  /\ MaxBlocks \in Nat

VARIABLES
  _base, _size, _blocks,  \* the region's members
  tables,                 \* history: what it was made of
  phase,                  \* no region, in addMemory(), there is a region,
                          \* in the loop, after the loop
  address,                \* peek()'s and poke()'s argument
  rest,                   \* the argument as the loop changes it
  at,                     \* the loop's block
  found                   \* the host's address of the byte, or Null

regionVars == <<_base, _size, _blocks, tables>>
accessVars == <<address, rest, at, found>>
memoryVars == <<regionVars, phase, accessVars>>

Block == [data : Host, size : Address]

(* Sums and differences of words.                                          *)
Plus(a, b)  == IF a + b < Word THEN a + b ELSE a + b - Word
Minus(a, b) == IF b <= a THEN a - b ELSE a - b + Word

NoRegion == _base' = 0 /\ _size' = 0 /\ _blocks' = <<>> /\ tables' = <<>>
NoAccess == address' = 0 /\ rest' = 0 /\ at' = 1 /\ found' = Null

MemoryInit ==
  /\ _base = 0 /\ _size = 0 /\ _blocks = <<>> /\ tables = <<>>
  /\ phase = "none"
  /\ address = 0 /\ rest = 0 /\ at = 1 /\ found = Null

-----------------------------------------------------------------------------
(* l_addMemory(): one table after the other.                               *)
AddMemory ==
  /\ phase = "none"
  /\ phase' = "adding"
  /\ UNCHANGED <<regionVars, accessVars>>

Valid(t) == t.data # Null /\ t.base >= 0 /\ t.size > 0

(* Mutant: a gap before the block is let through.                          *)
ContiguousOrAbove(t) == _blocks = <<>> \/ t.base >= Plus(_base, _size)

Contiguous(t) == _blocks = <<>> \/ t.base = Plus(_base, _size)

(* addBlock().  Memory fits the address space: the sizes do not overflow.  *)
AddBlock(t) ==
  /\ phase = "adding"
  /\ Len(_blocks) < MaxBlocks
  /\ Valid(t) /\ Contiguous(t)
  /\ _size + t.size < Word
  /\ _base' = IF _blocks = <<>> THEN t.base ELSE _base
  /\ _size' = _size + t.size
  /\ _blocks' = Append(_blocks, [data |-> t.data, size |-> t.size])
  /\ tables' = Append(tables, t)
  /\ UNCHANGED <<phase, accessVars>>

(* Any error deletes the region.                                           *)
AddMemoryFails(t) ==
  /\ phase = "adding"
  /\ ~(Valid(t) /\ Contiguous(t))
  /\ NoRegion
  /\ phase' = "none"
  /\ UNCHANGED accessVars

AddMemoryEnds ==
  /\ phase = "adding"
  /\ _blocks # <<>>
  /\ phase' = "region"
  /\ UNCHANGED <<regionVars, accessVars>>

(* MemorySelector::onGameUnloaded().                                       *)
RemoveMemory ==
  /\ NoRegion
  /\ NoAccess
  /\ phase' = "none"

-----------------------------------------------------------------------------
(* peek() and poke() have the same loop.                                   *)
Access(a) ==
  /\ phase = "region"
  /\ phase' = "loop"
  /\ address' = a
  /\ rest' = Minus(a, _base)
  /\ at' = 1
  /\ found' = Null
  /\ UNCHANGED regionVars

NextBlock ==
  /\ phase = "loop"
  /\ at \in DOMAIN _blocks
  /\ rest >= _blocks[at].size
  /\ rest' = rest - _blocks[at].size
  /\ at' = at + 1
  /\ UNCHANGED <<regionVars, phase, address, found>>

Hit ==
  /\ phase = "loop"
  /\ at \in DOMAIN _blocks
  /\ rest < _blocks[at].size
  /\ found' = _blocks[at].data + rest
  /\ phase' = "done"
  /\ UNCHANGED <<regionVars, address, rest, at>>

(* peek() returns zero, poke() changes nothing.                            *)
Miss ==
  /\ phase = "loop"
  /\ at = Len(_blocks) + 1
  /\ phase' = "done"
  /\ UNCHANGED <<regionVars, accessVars>>

AccessEnds ==
  /\ phase = "done"
  /\ phase' = "region"
  /\ NoAccess
  /\ UNCHANGED regionVars

MemoryNext ==
  \/ AddMemory \/ AddMemoryEnds
  \/ \E t \in Table : AddBlock(t) \/ AddMemoryFails(t)
  \/ \E a \in Address : Access(a)
  \/ NextBlock \/ Hit \/ Miss \/ AccessEnds

-----------------------------------------------------------------------------
MemoryTypeOK ==
  /\ _base \in Address /\ _size \in Address
  /\ _blocks \in Seq(Block)
  /\ tables \in Seq(Table)
  /\ phase \in {"none", "adding", "region", "loop", "done"}
  /\ address \in Address /\ rest \in Address
  /\ at \in 1..(Len(_blocks) + 1)
  /\ found \in Nat \union {Null}

Has(t, a) == Minus(a, t.base) < t.size

ByteExact ==
  IF \E i \in DOMAIN tables : Has(tables[i], address)
  THEN \E i \in DOMAIN tables :
         /\ Has(tables[i], address)
         /\ found = tables[i].data + Minus(address, tables[i].base)
  ELSE found = Null

(* The byte found for an address is the one that the script's table for    *)
(* the address says, and an address of no table has none; the check that   *)
(* l_peek() and l_poke() make first, against the region's size, agrees.    *)
AccessExact ==
  phase = "done" =>
    /\ ByteExact
    /\ found # Null <=> Minus(address, _base) < _size
=============================================================================
