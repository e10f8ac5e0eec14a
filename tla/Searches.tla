------------------------------ MODULE Searches ------------------------------
(***************************************************************************)
(* The two searches that scripts can make in a region of memory: the one   *)
(* for bytes, memory:find(), and the one that narrows down the addresses   *)
(* of a value from frame to frame, hc.cheats.  They share no state: what   *)
(* either finds, it finds whatever the other did.                          *)
(***************************************************************************)
EXTENDS CheatSearch, MemoryFind

VARIABLE
  part  \* bound: the search of this behaviour

searchesVars == <<vars, findVars, part>>

(* What the other search would look at is one thing or another.            *)
Any(S) == CHOOSE x \in S : TRUE

SearchesInit ==
  /\ part \in {"cheats", "find"}
  /\ Init
  /\ part # "cheats" =>
       memory = [a \in Region |-> Any(Byte)] /\ settings = Any(Setting)
  /\ FindInit
  /\ part # "find" =>
       base = Any(Bases) /\ size = 0 /\ content = [a \in 0..Limit |-> Any(Octet)]

SearchesNext ==
  \/ part = "cheats" /\ Next /\ UNCHANGED <<findVars, part>>
  \/ part = "find" /\ FindNext /\ UNCHANGED <<vars, part>>

SearchesSpec == SearchesInit /\ [][SearchesNext]_searchesVars
=============================================================================
