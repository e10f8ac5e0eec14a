----------------------------- MODULE MemoryFind -----------------------------
(***************************************************************************)
(* hc::Memory::find, the search for a sequence of bytes that every region  *)
(* of memory inherits and that scripts call as memory:find(start, bytes).  *)
(*                                                                         *)
(* The other operations of a region take addresses of the CPU's address    *)
(* space, in which it begins at base().  The search goes byte by byte, and *)
(* a step here is one comparison, because what matters besides the result  *)
(* is which addresses it hands to peek() on the way.                       *)
(***************************************************************************)
EXTENDS Naturals, Sequences

CONSTANTS
  Octet,    \* values of a byte
  Bases,    \* where a region may begin
  MaxSize,  \* bound: size() of a region; 0 is what a dead handle answers
  Limit,    \* bound: the last address peek() has an answer for
  Sought,   \* the sequences of bytes that scripts look for
  Starts    \* the addresses they look from

ASSUME FindAssumption ==
  /\ Bases \subseteq Nat
  /\ MaxSize \in Nat /\ Limit \in Nat
  /\ \A b \in Bases : b + MaxSize <= Limit
  /\ Sought \subseteq Seq(Octet)
  /\ Starts \subseteq Nat

VARIABLES
  base, size,  \* of the region
  content,     \* what peek() of the region answers for each address
  bytes,       \* the bytes looked for
  begin,       \* *start, as the caller set it
  place,       \* i of the outer loop; when found, what *start was set to
  offset,      \* j of the inner loop
  search       \* where find() is

regionVars == <<base, size, content>>
findVars   == <<regionVars, bytes, begin, place, offset, search>>

Length == Len(bytes)

(* `end', the bound of the outer loop.                                     *)
End == size - Length + 1

FindInit ==
  /\ base \in Bases
  /\ size \in 0..MaxSize
  /\ content \in [0..Limit -> Octet]
  /\ bytes = <<>>
  /\ begin = 0 /\ place = 0 /\ offset = 0
  /\ search = "idle"

(* Nothing is looked for that is empty or longer than the region.          *)
Find(sought, start) ==
  /\ search \in {"idle", "found", "missing"}
  /\ bytes' = sought
  /\ begin' = start
  /\ place' = start
  /\ search' = IF Len(sought) < 1 \/ Len(sought) > size THEN "missing" ELSE "first"
  /\ UNCHANGED <<regionVars, offset>>

(* An address whose byte is the first one looked for is compared further.  *)
CompareFirst ==
  /\ search = "first" /\ place < End
  /\ IF content[place] = bytes[1]
     THEN offset' = 1 /\ search' = "rest" /\ UNCHANGED place
     ELSE place' = place + 1 /\ UNCHANGED <<offset, search>>
  /\ UNCHANGED <<regionVars, bytes, begin>>

(* Mutant: the search goes on behind the bytes it has compared.            *)
CompareNextSkips ==
  /\ search = "rest" /\ offset < Length
  /\ IF bytes[offset + 1] = content[place + offset]
     THEN offset' = offset + 1 /\ UNCHANGED <<place, search>>
     ELSE place' = place + offset /\ search' = "first" /\ UNCHANGED offset
  /\ UNCHANGED <<regionVars, bytes, begin>>

CompareNext ==
  /\ search = "rest" /\ offset < Length
  /\ IF bytes[offset + 1] = content[place + offset]
     THEN offset' = offset + 1 /\ UNCHANGED <<place, search>>
     ELSE place' = place + 1 /\ search' = "first" /\ UNCHANGED offset
  /\ UNCHANGED <<regionVars, bytes, begin>>

Finds ==
  /\ search = "rest" /\ offset = Length
  /\ search' = "found"
  /\ UNCHANGED <<regionVars, bytes, begin, place, offset>>

Misses ==
  /\ search = "first" /\ place >= End
  /\ search' = "missing"
  /\ UNCHANGED <<regionVars, bytes, begin, place, offset>>

FindNext ==
  \/ \E sought \in Sought, start \in Starts : Find(sought, start)
  \/ CompareFirst \/ CompareNext
  \/ Finds \/ Misses

FindSpec == FindInit /\ [][FindNext]_findVars

-----------------------------------------------------------------------------
FindTypeOK ==
  /\ base \in Bases
  /\ size \in 0..MaxSize
  /\ content \in [0..Limit -> Octet]
  /\ bytes \in Seq(Octet)
  /\ begin \in Nat /\ place \in Nat /\ offset \in Nat
  /\ search \in {"idle", "first", "rest", "found", "missing"}

(* The bytes looked for are at x, all of them in the region.               *)
Holds(x) ==
  /\ base <= x /\ x + Length <= base + size
  /\ \A k \in 1..Length : content[x + (k - 1)] = bytes[k]

(* The result: the least address from *start on at which the bytes are,    *)
(* and nothing only when there is none.                                    *)
FirstMatch ==
  /\ search = "found" =>
       /\ begin <= place /\ Holds(place)
       /\ \A x \in 0..Limit : begin <= x /\ x < place => ~Holds(x)
  /\ search = "missing" =>
       \A x \in 0..Limit : begin <= x => ~Holds(x)

Inside(x) == base <= x /\ x < base + size

(* What find() is about to read is in the region, as the core may expect.  *)
PeeksInside ==
  /\ (search = "first" /\ place < End) => Inside(place)
  /\ (search = "rest" /\ offset < Length) => Inside(place + offset)

(* The loop's end is the region's if it begins at 0, and nothing else      *)
(* bounds what is read.  So in a region that begins at 0 find() returns    *)
(* the first match, those that overlap with a false start or end with the  *)
(* region included, and a search that starts at or above its region's base *)
(* reads nothing but the region: "`v1.peek`: A function that can read      *)
(* bytes from the memory region.  The address will be inside the           *)
(* base_address - base_address + size - 1 range."                          *)
FindExact ==
  /\ (base = 0 /\ Length > 0) => FirstMatch
  /\ base <= begin => PeeksInside
=============================================================================
