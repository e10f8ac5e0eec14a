---------------------------- MODULE InputProofs ----------------------------
(***************************************************************************)
(* Proofs about Devices and Input.                                         *)
(*                                                                         *)
(* Facts says what relates SDL's list, the queue and the controllers: an   *)
(* ADDED event is about a connected controller that was never opened, a    *)
(* REMOVED event about one that was and is gone, and nothing occurs twice  *)
(* in any of the lists.  It makes the lists sets, so that every handler's  *)
(* effect can be stated on the ranges of the sequences it changes.         *)
(***************************************************************************)
EXTENDS Input, SequenceTheorems, WellFoundedInduction, TLAPS

-----------------------------------------------------------------------------
(* Induction, as a fact about sets.                                        *)
Less == {ss \in Nat \X Nat : ss[1] < ss[2]}

LEMMA LessIsWellFounded == IsWellFoundedOn(Less, Nat)
BY NatLessThanWellFounded, Zenon DEF OpToRel, Less

LEMMA Induction ==
  ASSUME NEW S \in SUBSET Nat, 0 \in S, \A n \in S : n + 1 \in S
  PROVE  S = Nat
<1> SUFFICES ASSUME Nat \ S # {} PROVE FALSE
  OBVIOUS
<1>1. PICK n \in Nat \ S : \A m \in Nat \ S : <<m, n>> \notin Less
  BY LessIsWellFounded, WFMin
<1>2. n # 0 /\ n - 1 \in Nat /\ <<n - 1, n>> \in Less
  BY DEF Less
<1>3. n - 1 \in S
  BY <1>1, <1>2
<1> QED BY <1>1, <1>2, <1>3

(* The types a port keeps are numbers: Kept's recursion is a function      *)
(* that exists, and whose values are sequences.                            *)
KeptUpTo(ids, g, n) ==
  g = [i \in 0..n |-> IF i = 0 THEN <<>>
                      ELSE IF ids[i] # NONE THEN Append(g[i - 1], ids[i])
                           ELSE g[i - 1]]

LEMMA KeptExists ==
  ASSUME NEW ids
  PROVE  \A n \in Nat : \E g : KeptUpTo(ids, g, n)
<1> DEFINE S == {n \in Nat : \E g : KeptUpTo(ids, g, n)}
<1>1. 0 \in S
  <2> DEFINE g == [i \in 0..0 |-> <<>>]
  <2>1. KeptUpTo(ids, g, 0)
    BY DEF KeptUpTo
  <2> QED BY <2>1
<1>2. ASSUME NEW n \in S
      PROVE  n + 1 \in S
  <2>1. PICK g : KeptUpTo(ids, g, n)
    OBVIOUS
  <2> DEFINE next == IF ids[n + 1] # NONE THEN Append(g[n], ids[n + 1]) ELSE g[n]
             h == [i \in 0..(n + 1) |-> IF i = n + 1 THEN next ELSE g[i]]
             k == [i \in 0..(n + 1) |-> IF i = 0 THEN <<>>
                      ELSE IF ids[i] # NONE THEN Append(h[i - 1], ids[i])
                           ELSE h[i - 1]]
  <2>2. ASSUME NEW i \in 0..(n + 1)
        PROVE  h[i] = k[i]
    <3>1. CASE i = n + 1
      <4>1. i - 1 = n /\ n \in 0..(n + 1) /\ n # n + 1 /\ i # 0
        BY <3>1
      <4>2. h[i - 1] = g[n]
        BY <4>1
      <4>3. h[i] = next
        BY <3>1
      <4> HIDE DEF h
      <4> QED BY <3>1, <4>1, <4>2, <4>3
    <3>2. CASE i # n + 1
      <4>1. i \in 0..n
        BY <3>2
      <4>2. h[i] = g[i]
        BY <3>2
      <4>3. i # 0 => h[i - 1] = g[i - 1]
        BY <4>1
      <4>4. g[i] = IF i = 0 THEN <<>>
                   ELSE IF ids[i] # NONE THEN Append(g[i - 1], ids[i])
                        ELSE g[i - 1]
        BY <2>1, <4>1 DEF KeptUpTo
      <4> HIDE DEF h
      <4> QED BY <4>2, <4>3, <4>4
    <3> QED BY <3>1, <3>2
  <2>3. h = k
    BY <2>2
  <2> HIDE DEF h
  <2>4. KeptUpTo(ids, h, n + 1)
    BY <2>3 DEF KeptUpTo
  <2> QED BY <2>4
<1> HIDE DEF S
<1>3. S = Nat
  <2>1. S \in SUBSET Nat
    BY DEF S
  <2> QED BY <1>1, <1>2, <2>1, Induction
<1> QED BY <1>3 DEF S

LEMMA KeptIsLast ==
  ASSUME NEW ids
  PROVE  Kept(ids) = (CHOOSE g : KeptUpTo(ids, g, Len(ids)))[Len(ids)]
BY DEF Kept, KeptUpTo

LEMMA KeptIs ==
  ASSUME NEW ids \in Seq(Nat)
  PROVE  Kept(ids) \in Seq(Nat)
<1> DEFINE n == Len(ids)
           g == CHOOSE h : KeptUpTo(ids, h, n)
           S == {i \in Nat : i <= n => g[i] \in Seq(Nat)}
<1>1. n \in Nat /\ \A i \in 1..n : ids[i] \in Nat
  BY LenProperties, ElementOfSeq
<1>2. Kept(ids) = g[n]
  BY KeptIsLast
<1>3. KeptUpTo(ids, g, n)
  BY <1>1, KeptExists
<1> HIDE DEF g, n
<1>4. 0 \in S
  BY <1>1, <1>3 DEF KeptUpTo
<1>5. ASSUME NEW i \in S
      PROVE  i + 1 \in S
  <2> SUFFICES ASSUME i + 1 <= n PROVE g[i + 1] \in Seq(Nat)
    OBVIOUS
  <2>1. /\ i + 1 \in 1..n /\ i + 1 \in 0..n /\ i + 1 # 0 /\ (i + 1) - 1 = i
        /\ g[i] \in Seq(Nat)
    BY <1>1
  <2>2. g[i + 1] = IF ids[i + 1] # NONE THEN Append(g[i], ids[i + 1]) ELSE g[i]
    BY <1>3, <2>1 DEF KeptUpTo
  <2>3. Append(g[i], ids[i + 1]) \in Seq(Nat)
    BY <1>1, <2>1, AppendProperties
  <2> QED BY <2>1, <2>2, <2>3
<1> HIDE DEF S
<1>6. S = Nat
  <2>1. S \in SUBSET Nat
    BY DEF S
  <2> QED BY <1>4, <1>5, <2>1, Induction
<1> QED BY <1>1, <1>2, <1>6 DEF S

-----------------------------------------------------------------------------
(* Sequences without repetitions.                                          *)
LEMMA AroundIndex ==
  ASSUME NEW S, NEW s \in Seq(S), NEW i \in 1..Len(s)
  PROVE  /\ SubSeq(s, 1, i - 1) \in Seq(S)
         /\ Len(SubSeq(s, 1, i - 1)) = i - 1
         /\ \A k \in 1..(i - 1) : SubSeq(s, 1, i - 1)[k] = s[k]
         /\ SubSeq(s, i + 1, Len(s)) \in Seq(S)
         /\ Len(SubSeq(s, i + 1, Len(s))) = Len(s) - i
         /\ \A k \in 1..(Len(s) - i) : SubSeq(s, i + 1, Len(s))[k] = s[k + i]
<1>1. \A k \in 1..Len(s) : s[k] \in S
  BY ElementOfSeq
<1>2. Len(s) \in Nat /\ i \in Int
  BY LenProperties
<1>3. \A k \in 1..(i - 1) : s[k] \in S
  BY <1>1, <1>2
<1>4. \A k \in (i + 1)..Len(s) : s[k] \in S
  BY <1>1, <1>2
<1>5. /\ SubSeq(s, 1, i - 1) \in Seq(S)
      /\ Len(SubSeq(s, 1, i - 1)) = IF 1 <= i - 1 THEN (i - 1) - 1 + 1 ELSE 0
      /\ \A k \in 1..((i - 1) - 1 + 1) : SubSeq(s, 1, i - 1)[k] = s[1 + k - 1]
  BY <1>2, <1>3, SubSeqProperties
<1>6. /\ SubSeq(s, i + 1, Len(s)) \in Seq(S)
      /\ Len(SubSeq(s, i + 1, Len(s)))
           = IF i + 1 <= Len(s) THEN Len(s) - (i + 1) + 1 ELSE 0
      /\ \A k \in 1..(Len(s) - (i + 1) + 1) :
           SubSeq(s, i + 1, Len(s))[k] = s[i + 1 + k - 1]
  BY <1>2, <1>4, SubSeqProperties
<1>7. /\ Len(SubSeq(s, 1, i - 1)) = i - 1
      /\ Len(SubSeq(s, i + 1, Len(s))) = Len(s) - i
  BY <1>2, <1>5, <1>6
<1>8. \A k \in 1..(i - 1) : SubSeq(s, 1, i - 1)[k] = s[k]
  <2> TAKE k \in 1..(i - 1)
  <2>1. 1 + k - 1 = k /\ k \in 1..((i - 1) - 1 + 1)
    BY <1>2
  <2> QED BY <1>5, <2>1
<1>9. \A k \in 1..(Len(s) - i) : SubSeq(s, i + 1, Len(s))[k] = s[k + i]
  <2> TAKE k \in 1..(Len(s) - i)
  <2>1. i + 1 + k - 1 = k + i /\ k \in 1..(Len(s) - (i + 1) + 1)
    BY <1>2
  <2> QED BY <1>6, <2>1
<1> QED BY <1>5, <1>6, <1>7, <1>8, <1>9

LEMMA RemoveAtIs ==
  ASSUME NEW S, NEW s \in Seq(S), NEW i \in 1..Len(s)
  PROVE  /\ RemoveAt(s, i) \in Seq(S)
         /\ Len(RemoveAt(s, i)) = Len(s) - 1
         /\ \A k \in 1..(Len(s) - 1) :
              RemoveAt(s, i)[k] = IF k < i THEN s[k] ELSE s[k + 1]
<1> DEFINE a == SubSeq(s, 1, i - 1)
           b == SubSeq(s, i + 1, Len(s))
<1>1. /\ a \in Seq(S) /\ Len(a) = i - 1
      /\ \A k \in 1..(i - 1) : a[k] = s[k]
      /\ b \in Seq(S) /\ Len(b) = Len(s) - i
      /\ \A k \in 1..(Len(s) - i) : b[k] = s[k + i]
  BY AroundIndex
<1>2. RemoveAt(s, i) = a \o b
  BY DEF RemoveAt
<1> HIDE DEF a, b
<1>3. Len(s) \in Nat
  BY LenProperties
<1>4. /\ a \o b \in Seq(S)
      /\ Len(a \o b) = Len(a) + Len(b)
      /\ \A k \in 1..(Len(a) + Len(b)) :
           (a \o b)[k] = IF k <= Len(a) THEN a[k] ELSE b[k - Len(a)]
  BY <1>1, ConcatProperties
<1>5. \A k \in 1..(Len(s) - 1) : (a \o b)[k] = IF k < i THEN s[k] ELSE s[k + 1]
  <2> TAKE k \in 1..(Len(s) - 1)
  <2>1. (a \o b)[k] = IF k <= i - 1 THEN a[k] ELSE b[k - (i - 1)]
    BY <1>1, <1>3, <1>4
  <2>2. CASE k < i
    BY <1>1, <1>3, <2>1, <2>2
  <2>3. CASE ~(k < i)
    <3>1. k - (i - 1) \in 1..(Len(s) - i) /\ k - (i - 1) + i = k + 1
      BY <1>3, <2>3
    <3>2. b[k - (i - 1)] = s[k + 1]
      BY <1>1, <3>1
    <3> QED BY <1>3, <2>1, <2>3, <3>2
  <2> QED BY <2>2, <2>3
<1> QED BY <1>1, <1>2, <1>3, <1>4, <1>5

LEMMA RangeIs ==
  ASSUME NEW S, NEW s \in Seq(S)
  PROVE  /\ DOMAIN s = 1..Len(s) /\ Len(s) \in Nat
         /\ Range(s) = {s[k] : k \in 1..Len(s)}
         /\ Range(s) \subseteq S
  BY LenProperties, ElementOfSeq DEF Range

LEMMA Removal ==
  ASSUME NEW S, NEW s \in Seq(S), IsInjective(s), NEW i \in DOMAIN s
  PROVE  /\ RemoveAt(s, i) \in Seq(S)
         /\ Len(RemoveAt(s, i)) = Len(s) - 1
         /\ IsInjective(RemoveAt(s, i))
         /\ Range(RemoveAt(s, i)) = Range(s) \ {s[i]}
<1> DEFINE r == RemoveAt(s, i)
<1>1. i \in 1..Len(s) /\ Len(s) \in Nat
  BY RangeIs
<1>2. /\ r \in Seq(S) /\ Len(r) = Len(s) - 1
      /\ \A k \in 1..(Len(s) - 1) : r[k] = IF k < i THEN s[k] ELSE s[k + 1]
  BY <1>1, RemoveAtIs
<1> HIDE DEF r
<1>3. \A j, k \in 1..Len(s) : s[j] = s[k] => j = k
  BY RangeIs DEF IsInjective
<1>4. DOMAIN r = 1..(Len(s) - 1)
  BY <1>2, RangeIs
<1>5. IsInjective(r)
  <2> SUFFICES ASSUME NEW j \in 1..(Len(s) - 1), NEW k \in 1..(Len(s) - 1), r[j] = r[k]
               PROVE  j = k
    BY <1>4 DEF IsInjective
  <2>1. r[j] = s[IF j < i THEN j ELSE j + 1] /\ r[k] = s[IF k < i THEN k ELSE k + 1]
    BY <1>2
  <2>2. /\ (IF j < i THEN j ELSE j + 1) \in 1..Len(s)
        /\ (IF k < i THEN k ELSE k + 1) \in 1..Len(s)
    BY <1>1
  <2>3. (IF j < i THEN j ELSE j + 1) = (IF k < i THEN k ELSE k + 1)
    BY <1>3, <2>1, <2>2
  <2> QED BY <1>1, <2>3
<1>6. Range(r) \subseteq Range(s) \ {s[i]}
  <2> SUFFICES ASSUME NEW j \in 1..(Len(s) - 1)
               PROVE  r[j] \in Range(s) /\ r[j] # s[i]
    BY <1>4 DEF Range
  <2> DEFINE at == IF j < i THEN j ELSE j + 1
  <2>1. r[j] = s[at]
    BY <1>2
  <2>2. at \in 1..Len(s) /\ at # i
    BY <1>1
  <2> HIDE DEF at
  <2> QED BY <1>1, <1>3, <2>1, <2>2, RangeIs
<1>7. Range(s) \ {s[i]} \subseteq Range(r)
  <2> SUFFICES ASSUME NEW k \in 1..Len(s), k # i PROVE s[k] \in Range(r)
    BY RangeIs DEF Range
  <2> DEFINE at == IF k < i THEN k ELSE k - 1
  <2>1. at \in 1..(Len(s) - 1) /\ k = IF at < i THEN at ELSE at + 1
    BY <1>1
  <2> HIDE DEF at
  <2>2. r[at] = s[k]
    BY <1>2, <2>1
  <2> QED BY <1>4, <2>1, <2>2 DEF Range
<1> QED BY <1>2, <1>5, <1>6, <1>7 DEF r

LEMMA Adding ==
  ASSUME NEW S, NEW s \in Seq(S), IsInjective(s), NEW x \in S, x \notin Range(s)
  PROVE  /\ Append(s, x) \in Seq(S)
         /\ Len(Append(s, x)) = Len(s) + 1
         /\ IsInjective(Append(s, x))
         /\ Range(Append(s, x)) = Range(s) \union {x}
<1> DEFINE r == Append(s, x)
<1>1. /\ r \in Seq(S) /\ Len(r) = Len(s) + 1
      /\ \A k \in 1..Len(s) : r[k] = s[k]
      /\ r[Len(s) + 1] = x
  BY AppendProperties
<1> HIDE DEF r
<1>2. Len(s) \in Nat /\ DOMAIN s = 1..Len(s) /\ DOMAIN r = 1..(Len(s) + 1)
  BY <1>1, RangeIs
<1>3. \A k \in 1..(Len(s) + 1) : k \in 1..Len(s) \/ k = Len(s) + 1
  BY <1>2
<1>4. Range(r) = Range(s) \union {x}
  <2>1. Range(r) \subseteq Range(s) \union {x}
    BY <1>1, <1>2, <1>3 DEF Range
  <2>2. x \in Range(r)
    BY <1>1, <1>2 DEF Range
  <2>3. \A k \in 1..Len(s) : s[k] \in Range(r)
    BY <1>1, <1>2 DEF Range
  <2> QED BY <1>2, <2>1, <2>2, <2>3 DEF Range
<1>5. \A k \in 1..Len(s) : r[k] # x
  BY <1>1, <1>2 DEF Range
<1>6. IsInjective(r)
  BY <1>1, <1>2, <1>3, <1>5 DEF IsInjective
<1> QED BY <1>1, <1>4, <1>6 DEF r

LEMMA Polling ==
  ASSUME NEW S, NEW s \in Seq(S), IsInjective(s), s # <<>>
  PROVE  /\ Head(s) \in Range(s)
         /\ Tail(s) \in Seq(S)
         /\ IsInjective(Tail(s))
         /\ Range(Tail(s)) = Range(s) \ {Head(s)}
<1> DEFINE r == Tail(s)
<1>1. /\ r \in Seq(S) /\ Len(r) = Len(s) - 1
      /\ \A k \in 1..Len(r) : r[k] = s[k + 1]
  BY HeadTailProperties
<1> HIDE DEF r
<1>2. Len(s) \in Nat /\ DOMAIN s = 1..Len(s) /\ DOMAIN r = 1..(Len(s) - 1)
  BY <1>1, RangeIs
<1>3. Len(s) # 0
  BY EmptySeq
<1>4. Head(s) = s[1] /\ 1 \in DOMAIN s
  BY <1>2, <1>3
<1>5. \A j, k \in 1..Len(s) : s[j] = s[k] => j = k
  BY <1>2 DEF IsInjective
<1>6. \A k \in 1..(Len(s) - 1) : k + 1 \in 1..Len(s) /\ k + 1 # 1 /\ r[k] = s[k + 1]
  BY <1>1, <1>2
<1>7. \A k \in 1..Len(s) : k # 1 => k - 1 \in 1..(Len(s) - 1) /\ r[k - 1] = s[k]
  <2> TAKE k \in 1..Len(s)
  <2> HAVE k # 1
  <2>1. k - 1 \in 1..(Len(s) - 1) /\ (k - 1) + 1 = k
    BY <1>2
  <2> QED BY <1>6, <2>1
<1>8. IsInjective(r)
  <2> SUFFICES ASSUME NEW j \in 1..(Len(s) - 1), NEW k \in 1..(Len(s) - 1), r[j] = r[k]
               PROVE  j = k
    BY <1>2 DEF IsInjective
  <2>1. j + 1 = k + 1
    BY <1>5, <1>6
  <2> QED BY <1>2, <2>1
<1>9. Range(r) \subseteq Range(s) \ {Head(s)}
  BY <1>2, <1>4, <1>5, <1>6 DEF Range
<1>10. Range(s) \ {Head(s)} \subseteq Range(r)
  BY <1>2, <1>4, <1>7 DEF Range
<1> QED BY <1>1, <1>4, <1>8, <1>9, <1>10 DEF r, Range

(* The queue's instance of Adding.                                         *)
Event == [type : {"added", "removed"}, which : Nat]

LEMMA Posting ==
  ASSUME events \in Seq(Event), IsInjective(events), NEW e \in Event,
         e \notin Range(events), events' = Append(events, e)
  PROVE  /\ events' \in Seq(Event)
         /\ IsInjective(events')
         /\ Range(events') = Range(events) \union {e}
BY Adding

-----------------------------------------------------------------------------
(* The invariant of Devices.                                               *)
Facts ==
  /\ IsInjective(connected) /\ IsInjective(events) /\ IsInjective(controllers)
  /\ \A id \in Range(connected) : id < plugged
  /\ \A e \in Range(events) : e.which < plugged
  /\ \A e \in Range(events) : e.type = "added" =>
       e.which \in Range(connected) /\ \A o \in opened : o._id # e.which
  /\ \A e \in Range(events) : e.type = "removed" =>
       e.which \notin Range(connected) /\ \E o \in opened : o._id = e.which
  /\ \A o \in opened : o._id < plugged
  /\ \A o, q \in opened : o._id = q._id => o = q
  /\ Range(controllers) \subseteq opened \union {Virtual}

DInv == DevicesTypeOK /\ Facts

LEMMA EventsAre ==
  ASSUME DInv
  PROVE  /\ \A e \in Range(events) :
              e \in Event
         /\ \A e \in Range(events) :
              e = Added(e.which) \/ e = Removed(e.which)
         /\ Range(connected) \subseteq Nat
         /\ Range(controllers) \subseteq Controller \union {Virtual}
         /\ plugged \in Nat
<1>1. \A e \in Range(events) : e \in Event
  BY RangeIs DEF DInv, DevicesTypeOK, Event
<1>2. \A e \in Range(events) : e = Added(e.which) \/ e = Removed(e.which)
  BY <1>1 DEF Event, Added, Removed
<1> QED BY <1>1, <1>2, RangeIs DEF DInv, DevicesTypeOK, Event

LEMMA OpenIs ==
  ASSUME DInv, NEW id \in Nat
  PROVE  Open(id) <=> \E c \in Range(controllers) : c._id = id /\ c \in opened
<1>1. Open(id) <=> \E c \in Range(controllers) : c._id = id
  BY DEF Open, Ids, Range
<1>2. Virtual._id # id
  BY DEF Virtual
<1> QED BY <1>1, <1>2 DEF DInv, Facts

LEMMA PlugInKeeps ==
  ASSUME DInv, PlugIn
  PROVE  /\ DInv'
         /\ Range(connected') = Range(connected) \union {plugged}
         /\ Range(events') = Range(events) \union {Added(plugged)}
<1>1. plugged \in Nat /\ plugged' = plugged + 1 /\ plugged' \in 0..Plugs
  BY DevicesAssumption DEF DInv, DevicesTypeOK, PlugIn
<1>2. /\ plugged \notin Range(connected)
      /\ Added(plugged) \notin Range(events)
  BY <1>1 DEF DInv, Facts, Added
<1>3. /\ connected \in Seq(Nat) /\ IsInjective(connected)
      /\ events \in Seq(Event)
      /\ IsInjective(events)
      /\ Added(plugged) \in Event
  BY <1>1 DEF DInv, DevicesTypeOK, Event, Facts, Added
<1>4. /\ connected' \in Seq(Nat) /\ IsInjective(connected')
      /\ Range(connected') = Range(connected) \union {plugged}
  BY <1>1, <1>2, <1>3, Adding DEF PlugIn
<1>5. /\ events' \in Seq(Event)
      /\ IsInjective(events')
      /\ Range(events') = Range(events) \union {Added(plugged)}
  BY <1>2, <1>3, Posting DEF PlugIn
<1>6. DevicesTypeOK'
  BY <1>1, <1>4, <1>5 DEF DInv, DevicesTypeOK, Event, PlugIn
<1>7. /\ \A id \in Range(connected) : id < plugged + 1
      /\ \A e \in Range(events) : e.which < plugged + 1
      /\ \A o \in opened : o._id < plugged + 1
  BY <1>1, EventsAre DEF DInv, DevicesTypeOK, Event, Facts, Controller
<1>8. /\ \A o \in opened : o._id # plugged
      /\ \A e \in Range(events) : e.which # plugged
  BY <1>1, EventsAre DEF DInv, DevicesTypeOK, Event, Facts, Controller
<1>9. Added(plugged).which = plugged /\ Added(plugged).type = "added"
  BY DEF Added
<1>10. plugged < plugged + 1
  BY <1>1
<1>11. Facts'
  BY <1>1, <1>4, <1>5, <1>7, <1>8, <1>9, <1>10 DEF DInv, Facts, PlugIn
<1> QED BY <1>4, <1>5, <1>6, <1>11 DEF DInv

LEMMA UnplugKeeps ==
  ASSUME DInv, NEW k \in DOMAIN connected, Unplug(k)
  PROVE  /\ DInv'
         /\ Range(connected') = Range(connected) \ {connected[k]}
         /\ \A n \in Nat : Removed(n) \in Range(events') <=>
              Removed(n) \in Range(events) \/ (n = connected[k] /\ Open(n))
<1> DEFINE id == connected[k]
<1>1. /\ connected \in Seq(Nat) /\ IsInjective(connected)
      /\ events \in Seq(Event) /\ IsInjective(events)
  BY DEF DInv, DevicesTypeOK, Event, Facts
<1>2. id \in Range(connected) /\ id \in Nat /\ id < plugged
  BY EventsAre DEF DInv, Facts, Range
<1>3. /\ connected' \in Seq(Nat) /\ IsInjective(connected')
      /\ Range(connected') = Range(connected) \ {id}
  BY <1>1, Removal DEF Unplug
<1>4. UNCHANGED <<plugged, controllers, selected, opened>>
  BY DEF Unplug
<1>5. \A e \in Range(events) : e.type = "removed" => e.which # id
  BY <1>2 DEF DInv, Facts
<1>6. CASE Open(id) /\ events' = Append(events, Removed(id))
  <2>1. \E o \in opened : o._id = id
    BY <1>2, <1>6, OpenIs
  <2>2. Removed(id) \notin Range(events) /\ Removed(id) \in Event
    BY <1>2, <1>5 DEF Event, Removed
  <2>3. /\ events' \in Seq(Event) /\ IsInjective(events')
        /\ Range(events') = Range(events) \union {Removed(id)}
    BY <1>1, <1>6, <2>2, Posting
  <2>4. Removed(id).which = id /\ Removed(id).type = "removed"
    BY DEF Removed
  <2>5. \A e \in Range(events) : e.type = "added" => e.which # id
    BY <2>1 DEF DInv, Facts
  <2> HIDE DEF id
  <2>6. DevicesTypeOK'
    BY <1>3, <1>4, <2>3 DEF DInv, DevicesTypeOK, Event
  <2>7. Facts'
    BY <1>2, <1>3, <1>4, <2>1, <2>3, <2>4, <2>5 DEF DInv, Facts
  <2>8. \A n \in Nat : Removed(n) = Removed(id) <=> n = id
    BY DEF Removed
  <2> QED BY <1>3, <1>6, <2>3, <2>6, <2>7, <2>8 DEF DInv, id
<1>7. CASE /\ ~Open(id)
           /\ \A n \in Nat : Removed(n) \in Range(events') <=> Removed(n) \in Range(events)
           /\ events' \in Seq(Event) /\ IsInjective(events')
           /\ Range(events') \subseteq Range(events)
           /\ Added(id) \notin Range(events')
  <2>1. \A e \in Range(events') : e.type = "added" => e.which # id
    BY <1>7, EventsAre DEF Added, Removed
  <2> HIDE DEF id
  <2>2. DevicesTypeOK'
    BY <1>3, <1>4, <1>7 DEF DInv, DevicesTypeOK, Event
  <2>3. Facts'
    BY <1>3, <1>4, <1>7, <2>1 DEF DInv, Facts
  <2> QED BY <1>3, <1>7, <2>2, <2>3 DEF DInv, id
<1>8. CASE ~Open(id) /\ Added(id) \notin Range(events) /\ events' = events
  BY <1>1, <1>7, <1>8
<1>9. ASSUME NEW i \in DOMAIN events, ~Open(id), events[i] = Added(id),
             events' = RemoveAt(events, i)
      PROVE  /\ DInv'
             /\ Range(connected') = Range(connected) \ {id}
             /\ \A n \in Nat : Removed(n) \in Range(events') <=>
                  Removed(n) \in Range(events) \/ (n = id /\ Open(n))
  <2>1. /\ events' \in Seq(Event) /\ IsInjective(events')
        /\ Range(events') = Range(events) \ {Added(id)}
    BY <1>1, <1>9, Removal
  <2>2. \A n \in Nat : Removed(n) # Added(id)
    BY DEF Removed, Added
  <2> QED BY <1>7, <1>9, <2>1, <2>2
<1> QED BY <1>6, <1>8, <1>9 DEF Unplug

LEMMA PolledKeeps ==
  ASSUME DInv, NEW type, Polled(type)
  PROVE  /\ events' \in Seq(Event)
         /\ IsInjective(events')
         /\ Head(events) \in Range(events)
         /\ Range(events') = Range(events) \ {Head(events)}
         /\ Head(events).which \in Nat
BY Polling, EventsAre DEF DInv, DevicesTypeOK, Event, Facts, Polled

LEMMA PolledAlone ==
  ASSUME DInv, NEW type, Polled(type), UNCHANGED <<connected, plugged, controllers, opened>>,
         selected' \in 0..(Len(controllers) + 1)
  PROVE  DInv'
<1>1. /\ events' \in Seq(Event)
      /\ IsInjective(events') /\ Range(events') \subseteq Range(events)
  BY PolledKeeps
<1>2. DevicesTypeOK'
  BY <1>1 DEF DInv, DevicesTypeOK, Event
<1>3. Facts'
  BY <1>1 DEF DInv, Facts
<1> QED BY <1>2, <1>3 DEF DInv

LEMMA NewControllerIs ==
  ASSUME DInv, NEW name \in Name, Polled("added")
  PROVE  /\ NewController(name) \in Controller
         /\ NewController(name)._id = Head(events).which
         /\ NewController(name)._id \in Range(connected)
         /\ \A o \in opened : o._id # NewController(name)._id
         /\ NewController(name) \notin Range(controllers)
<1> DEFINE e == Head(events)
<1>1. e \in Range(events) /\ e.type = "added" /\ e.which \in Nat
  BY PolledKeeps DEF Polled
<1>2. e.which \in Range(connected) /\ \A o \in opened : o._id # e.which
  BY <1>1 DEF DInv, Facts
<1>3. DOMAIN connected = 1..Len(connected) /\ Len(connected) \in Nat
  BY RangeIs DEF DInv, DevicesTypeOK
<1>4. \E k \in DOMAIN connected : connected[k] = e.which
  BY <1>2 DEF Range
<1>5. DeviceIndex(e.which) \in Nat
  BY <1>3, <1>4 DEF DeviceIndex
<1>6. NewController(name) \in Controller /\ NewController(name)._id = e.which
  BY <1>1, <1>5 DEF NewController, Controller
<1>7. NewController(name) # Virtual
  BY <1>1, <1>6 DEF Virtual
<1> QED BY <1>2, <1>6, <1>7 DEF DInv, Facts

LEMMA AddKeeps ==
  ASSUME DInv, NEW name \in Name, AddController(name)
  PROVE  /\ DInv'
         /\ Range(controllers') = Range(controllers) \union {NewController(name)}
<1> DEFINE c == NewController(name)
<1>1. /\ c \in Controller /\ c._id = Head(events).which
      /\ c._id \in Range(connected)
      /\ \A o \in opened : o._id # c._id
      /\ c \notin Range(controllers)
  BY NewControllerIs DEF AddController
<1>2. /\ controllers' = Append(controllers, c) /\ opened' = opened \union {c}
      /\ UNCHANGED <<connected, plugged, selected>>
      /\ Head(events).type = "added"
  BY DEF AddController, Polled
<1>3. /\ events' \in Seq(Event)
      /\ IsInjective(events')
      /\ Head(events) \in Range(events)
      /\ Range(events') = Range(events) \ {Head(events)}
  BY PolledKeeps DEF AddController
<1> HIDE DEF c
<1>4. /\ controllers \in Seq(Controller \union {Virtual}) /\ IsInjective(controllers)
      /\ Len(controllers) \in Nat
  BY RangeIs DEF DInv, DevicesTypeOK, Event, Facts
<1>5. /\ controllers' \in Seq(Controller \union {Virtual})
      /\ Len(controllers') = Len(controllers) + 1
      /\ IsInjective(controllers')
      /\ Range(controllers') = Range(controllers) \union {c}
  BY <1>1, <1>2, <1>4, Adding
<1>6. \A e \in Range(events') : e.type = "added" => e.which # c._id
  <2> TAKE e \in Range(events')
  <2> HAVE e.type = "added"
  <2>1. e \in Range(events) /\ e # Head(events)
    BY <1>3
  <2>2. e = Added(e.which) /\ Head(events) = Added(Head(events).which)
    BY <1>2, <1>3, <2>1, EventsAre DEF Added, Removed
  <2> QED BY <1>1, <2>1, <2>2
<1>7. selected' \in 0..(Len(controllers') + 1)
  BY <1>2, <1>4, <1>5 DEF DInv, DevicesTypeOK, Event
<1>8. DevicesTypeOK'
  BY <1>1, <1>2, <1>3, <1>5, <1>7 DEF DInv, DevicesTypeOK, Event
<1>9. c._id < plugged
  BY <1>1 DEF DInv, Facts
<1>10. Facts'
  BY <1>1, <1>2, <1>3, <1>5, <1>6, <1>9 DEF DInv, Facts
<1> QED BY <1>5, <1>8, <1>10 DEF DInv, c

LEMMA RemoveKeeps ==
  ASSUME DInv, NEW i \in DOMAIN controllers, RemoveController(i)
  PROVE  /\ DInv'
         /\ Range(controllers') = Range(controllers) \ {controllers[i]}
<1>1. /\ controllers \in Seq(Controller \union {Virtual}) /\ IsInjective(controllers)
      /\ Len(controllers) \in Nat /\ DOMAIN controllers = 1..Len(controllers)
  BY RangeIs DEF DInv, DevicesTypeOK, Event, Facts
<1>2. /\ controllers' \in Seq(Controller \union {Virtual})
      /\ Len(controllers') = Len(controllers) - 1
      /\ IsInjective(controllers')
      /\ Range(controllers') = Range(controllers) \ {controllers[i]}
  BY <1>1, Removal DEF RemoveController
<1>3. /\ events' \in Seq(Event)
      /\ IsInjective(events') /\ Range(events') \subseteq Range(events)
  BY PolledKeeps DEF RemoveController
<1>4. UNCHANGED <<connected, plugged, opened>>
  BY DEF RemoveController
<1>5. selected' \in 0..(Len(controllers') + 1)
  <2>1. selected \in 0..(Len(controllers) + 1)
    BY DEF DInv, DevicesTypeOK
  <2>2. selected' = IF selected = Len(controllers) + 1 THEN selected - 1 ELSE selected
    BY DEF RemoveController
  <2> QED BY <1>1, <1>2, <2>1, <2>2
<1>6. DevicesTypeOK'
  BY <1>2, <1>3, <1>4, <1>5 DEF DInv, DevicesTypeOK, Event
<1>7. Facts'
  BY <1>2, <1>3, <1>4 DEF DInv, Facts
<1> QED BY <1>2, <1>6, <1>7 DEF DInv

-----------------------------------------------------------------------------
(* Until a controller is added after a removal, the list is exact.         *)
Awaited == {c._id : c \in {o \in opened : o._id \in Range(connected)
                                          \/ Removed(o._id) \in Range(events)}}

Straight == \A c \in opened : c._deviceIndex = c._id

LEMMA IdsAre ==
  ASSUME NEW s, Range(s) \subseteq Controller \union {Virtual}
  PROVE  Ids(s) \ {-1} = {c._id : c \in Range(s) \ {Virtual}}
<1>1. Ids(s) = {c._id : c \in Range(s)}
  BY DEF Ids, Range
<1>2. \A c \in Range(s) : c._id = -1 <=> c = Virtual
  BY DEF Controller, Virtual
<1> QED BY <1>1, <1>2

LEMMA PlugInExact ==
  ASSUME DInv, HotPlugExact, PlugIn
  PROVE  HotPlugExact'
<1>1. /\ Range(connected') = Range(connected) \union {plugged}
      /\ Range(events') = Range(events) \union {Added(plugged)}
  BY PlugInKeeps
<1>2. \A o \in opened : o._id # plugged /\ Removed(o._id) # Added(plugged)
  BY EventsAre DEF DInv, DevicesTypeOK, Facts, Controller, Added, Removed
<1>3. opened' = opened /\ controllers' = controllers
  BY DEF PlugIn
<1>4. Awaited' = Awaited
  BY <1>1, <1>2, <1>3 DEF Awaited
<1> QED BY <1>3, <1>4 DEF HotPlugExact, Awaited, Ids

LEMMA UnplugExact ==
  ASSUME DInv, HotPlugExact, NEW k \in DOMAIN connected, Unplug(k)
  PROVE  HotPlugExact'
<1> DEFINE id == connected[k]
<1>1. id \in Range(connected) /\ id \in Nat
  BY EventsAre DEF Range
<1>2. /\ Range(connected') = Range(connected) \ {id}
      /\ \A n \in Nat : Removed(n) \in Range(events') <=>
           Removed(n) \in Range(events) \/ (n = id /\ Open(n))
  BY UnplugKeeps
<1>3. opened' = opened /\ controllers' = controllers
  BY DEF Unplug
<1>4. \A o \in opened : o._id \in Nat
  BY DEF DInv, DevicesTypeOK, Controller
<1>5. \A o \in opened : o._id = id => Open(id)
  <2> SUFFICES ASSUME NEW o \in opened, o._id = id PROVE Open(id)
    OBVIOUS
  <2>1. o._id \in Awaited
    BY <1>1 DEF Awaited
  <2> QED BY <2>1 DEF HotPlugExact, Awaited, Open
<1> HIDE DEF id
<1>6. \A o \in opened :
        (o._id \in Range(connected') \/ Removed(o._id) \in Range(events'))
          <=> (o._id \in Range(connected) \/ Removed(o._id) \in Range(events))
  BY <1>1, <1>2, <1>4, <1>5
<1>7. Awaited' = Awaited
  BY <1>3, <1>6 DEF Awaited
<1> QED BY <1>3, <1>7 DEF HotPlugExact, Awaited, Ids

LEMMA AddExact ==
  ASSUME DInv, HotPlugExact, NEW name \in Name, AddController(name)
  PROVE  HotPlugExact'
<1> DEFINE c == NewController(name)
<1>1. /\ DInv' /\ Range(controllers') = Range(controllers) \union {c}
  BY AddKeeps
<1>2. /\ c \in Controller /\ c._id \in Range(connected)
      /\ c \notin Range(controllers)
  BY NewControllerIs DEF AddController
<1>3. /\ opened' = opened \union {c} /\ connected' = connected
      /\ Head(events).type = "added"
  BY DEF AddController, Polled
<1>4. Range(events') = Range(events) \ {Head(events)}
  BY PolledKeeps DEF AddController
<1> HIDE DEF c
<1>5. \A n : Removed(n) # Head(events)
  BY <1>3 DEF Removed
<1>6. Awaited' = Awaited \union {c._id}
  BY <1>2, <1>3, <1>4, <1>5 DEF Awaited
<1>7. c # Virtual
  BY <1>2 DEF Controller, Virtual
<1>8. (Ids(controllers) \ {-1})' = (Ids(controllers) \ {-1}) \union {c._id}
  <2>1. /\ Range(controllers) \subseteq Controller \union {Virtual}
        /\ Range(controllers') \subseteq Controller \union {Virtual}
    BY <1>1, <1>2, EventsAre
  <2>2. /\ Ids(controllers) \ {-1} = {d._id : d \in Range(controllers) \ {Virtual}}
        /\ Ids(controllers') \ {-1} = {d._id : d \in Range(controllers') \ {Virtual}}
    BY <2>1, IdsAre
  <2> QED BY <1>1, <1>7, <2>2
<1> QED BY <1>6, <1>8 DEF HotPlugExact, Awaited

LEMMA FailExact ==
  ASSUME DInv, HotPlugExact, AddControllerFails
  PROVE  HotPlugExact'
<1>1. /\ opened' = opened /\ connected' = connected /\ controllers' = controllers
      /\ Head(events).type = "added"
  BY DEF AddControllerFails, Polled
<1>2. Range(events') = Range(events) \ {Head(events)}
  BY PolledKeeps DEF AddControllerFails
<1>3. \A n : Removed(n) # Head(events)
  BY <1>1 DEF Removed
<1>4. Awaited' = Awaited
  BY <1>1, <1>2, <1>3 DEF Awaited
<1> QED BY <1>1, <1>4 DEF HotPlugExact, Awaited, Ids

(* The instance id that leaves is the index of the controller that goes.   *)
LEMMA Leaving ==
  ASSUME DInv, Polled("removed")
  PROVE  /\ Head(events) = Removed(Head(events).which)
         /\ Head(events).which \notin Range(connected)
         /\ \E o \in opened : o._id = Head(events).which
         /\ Range(events') = Range(events) \ {Removed(Head(events).which)}
<1>1. Head(events).type = "removed"
  BY DEF Polled
<1>2. /\ Head(events) \in Range(events)
      /\ Range(events') = Range(events) \ {Head(events)}
  BY PolledKeeps
<1>3. Head(events) = Removed(Head(events).which)
  BY <1>1, <1>2, EventsAre DEF Added, Removed
<1> QED BY <1>1, <1>2, <1>3 DEF DInv, Facts

LEMMA RemoveExact ==
  ASSUME DInv, HotPlugExact, Straight, NEW i \in DOMAIN controllers, RemoveController(i)
  PROVE  HotPlugExact'
<1> DEFINE id == Head(events).which
           c  == controllers[i]
<1>1. /\ DInv' /\ Range(controllers') = Range(controllers) \ {c}
  BY RemoveKeeps
<1>2. /\ id \notin Range(connected)
      /\ Range(events') = Range(events) \ {Removed(id)}
      /\ id \in Nat
  BY Leaving, PolledKeeps DEF RemoveController
<1>3. /\ c \in Range(controllers) /\ c._deviceIndex = id
      /\ opened' = opened /\ connected' = connected
  BY DEF RemoveController, Destroys, Range
<1> HIDE DEF c, id
<1>4. c # Virtual
  BY <1>2, <1>3 DEF Virtual
<1>5. c \in opened /\ c._id = id
  BY <1>3, <1>4 DEF DInv, Facts, Straight
<1>6. \A n \in Nat : Removed(n) = Removed(id) <=> n = id
  BY DEF Removed
<1>7. \A o \in opened : o._id \in Nat
  BY DEF DInv, DevicesTypeOK, Controller
<1>8. Awaited' = Awaited \ {id}
  BY <1>2, <1>3, <1>6, <1>7 DEF Awaited
<1>9. \A d \in Range(controllers) \ {Virtual} : d._id = id => d = c
  BY <1>5 DEF DInv, Facts
<1>10. (Ids(controllers) \ {-1})' = (Ids(controllers) \ {-1}) \ {id}
  <2>1. /\ Range(controllers) \subseteq Controller \union {Virtual}
        /\ Range(controllers') \subseteq Controller \union {Virtual}
    BY <1>1, EventsAre
  <2>2. /\ Ids(controllers) \ {-1} = {d._id : d \in Range(controllers) \ {Virtual}}
        /\ Ids(controllers') \ {-1} = {d._id : d \in Range(controllers') \ {Virtual}}
    BY <2>1, IdsAre
  <2> QED BY <1>1, <1>3, <1>4, <1>5, <1>9, <2>2
<1> QED BY <1>8, <1>10 DEF HotPlugExact, Awaited

LEMMA RemoveNothingExact ==
  ASSUME DInv, HotPlugExact, Straight, RemoveNothing
  PROVE  FALSE
<1> DEFINE id == Head(events).which
<1>1. /\ Polled("removed")
      /\ \A i \in DOMAIN controllers : controllers[i]._deviceIndex # id
  BY DEF RemoveNothing, Destroys
<1>2. /\ Head(events) = Removed(id) /\ Head(events) \in Range(events)
      /\ \E o \in opened : o._id = id
      /\ id \in Nat
  BY <1>1, Leaving, PolledKeeps
<1> HIDE DEF id
<1>3. id \in Awaited
  BY <1>2 DEF Awaited
<1>4. Open(id)
  BY <1>3 DEF HotPlugExact, Awaited, Open
<1>5. PICK c \in Range(controllers) : c._id = id /\ c \in opened
  BY <1>2, <1>4, OpenIs
<1>6. c._deviceIndex = id
  BY <1>5 DEF Straight
<1> QED BY <1>1, <1>6 DEF Range

-----------------------------------------------------------------------------
(* The invariant of both.                                                  *)
Lists == IsInjective(sorted) /\ Range(sorted) = Range(controllers)

PortFacts(p) ==
  LET shown == ports[p].selectedType + 1 IN
  /\ types[p] # <<>> /\ types[p][1] = NONE
  /\ shown \in DOMAIN types[p]
  /\ ports[p].type = Masked(types[p][shown])
  /\ ports[p].type # NONE => told[p] = types[p][shown]
  /\ ports[p].controller # Nobody => ports[p].type = JOYPAD

Ports == core = "loaded" /\ ~missed => \A p \in Port : PortFacts(p)

(* Once Input heard of a core, whatever its ports have is listed.          *)
Alive == heard => \A p \in Port :
           ports[p].controller \in Range(controllers) \union {Nobody}

Exact == Straight => HotPlugExact

Inv == DInv /\ TypeOK /\ Lists /\ Ports /\ Alive /\ Exact

LEMMA MaskedNone == Masked(NONE) = NONE /\ NONE # JOYPAD
BY DEF Masked, NONE, JOYPAD

LEMMA InitInv == Init => Inv
<1> SUFFICES ASSUME Init PROVE Inv
  OBVIOUS
<1>1. /\ Range(<<>>) = {} /\ Range(<<Virtual>>) = {Virtual}
      /\ IsInjective(<<>>) /\ IsInjective(<<Virtual>>)
      /\ Len(<<Virtual>>) = 1
  BY DEF Range, IsInjective
<1>2. DInv
  BY <1>1, DevicesAssumption DEF Init, DevicesInit, DInv, DevicesTypeOK, Facts
<1>3. TypeOK
  <2>1. ports \in [Port -> [selectedType : Nat, selectedDevice : Nat \union {-1},
                            type : Nat,
                            controller : Controller \union {Virtual, Nobody, Wild}]]
    BY DEF Init, Disconnected, Uninitialised, NONE, JOYPAD
  <2>2. types \in [Port -> Seq(Nat)] /\ told \in [Port -> Nat]
    BY DEF Init, JOYPAD
  <2>3. core \in {"none", "loading", "loaded"}
    BY DEF Init
  <2>4. managed \in BOOLEAN /\ heard \in BOOLEAN /\ missed \in BOOLEAN
    BY DEF Init
  <2>5. sorted \in Seq(Controller \union {Virtual})
    BY <1>2 DEF DInv, DevicesTypeOK, Init, DevicesInit
  <2> QED BY <1>2, <2>1, <2>2, <2>3, <2>4, <2>5 DEF DInv, TypeOK
<1>4. Lists
  BY <1>1 DEF Init, DevicesInit, Lists
<1>5. Ports /\ Alive
  BY DEF Init, Ports, Alive
<1>6. HotPlugExact
  <2>1. Ids(controllers) = {-1}
    BY DEF Init, DevicesInit, Ids, Virtual
  <2> QED BY <2>1 DEF Init, DevicesInit, HotPlugExact
<1> QED BY <1>2, <1>3, <1>4, <1>5, <1>6 DEF Inv, Exact

(* The parts of Inv that only one of the two components can change.        *)
LEMMA DevicesOnly ==
  ASSUME Inv, DInv', UNCHANGED inputVars, controllers' = controllers, Exact'
  PROVE  Inv'
<1>1. TypeOK'
  BY DEF Inv, TypeOK, DInv, inputVars, viewVars
<1>2. Lists'
  BY DEF Inv, Lists, inputVars
<1>3. Ports' /\ Alive'
  BY DEF Inv, Ports, PortFacts, Alive, inputVars, viewVars
<1> QED BY <1>1, <1>2, <1>3 DEF Inv

LEMMA InputOnly ==
  ASSUME Inv, UNCHANGED devicesVars, UNCHANGED sorted, TypeOK', Ports', Alive'
  PROVE  Inv'
<1>1. DInv'
  BY DEF Inv, DInv, DevicesTypeOK, Facts, devicesVars
<1>2. Lists'
  BY DEF Inv, Lists, devicesVars
<1>3. Exact'
  BY DEF Inv, Exact, Straight, HotPlugExact, devicesVars, Ids
<1> QED BY <1>1, <1>2, <1>3 DEF Inv

LEMMA StraightBefore ==
  ASSUME opened \subseteq opened', Straight'
  PROVE  Straight
BY DEF Straight

LEMMA InsertionIs ==
  ASSUME Inv, NEW c \in Controller, c \notin Range(sorted), DeviceInserted(c)
  PROVE  /\ sorted' \in Seq(Controller \union {Virtual})
         /\ IsInjective(sorted')
         /\ Range(sorted') = Range(sorted) \union {c}
         /\ UNCHANGED <<core, types, ports, told, viewVars>>
<1>1. PICK s \in [1..(Len(sorted) + 1) -> Range(sorted) \union {c}] :
        /\ Range(s) = Range(sorted) \union {c}
        /\ \A i, j \in DOMAIN s : i < j => NotAfter(s[i], s[j])
        /\ sorted' = s
  BY DEF DeviceInserted
<1>2. sorted \in Seq(Controller \union {Virtual})
  BY DEF Inv, TypeOK
<1>3. Range(sorted) \subseteq Controller \union {Virtual} /\ Len(sorted) \in Nat
  BY <1>2, RangeIs
<1>4. s \in [1..(Len(sorted) + 1) -> Controller \union {Virtual}]
  BY <1>1, <1>3
<1>5. s \in Seq(Controller \union {Virtual})
  BY <1>3, <1>4, SeqDef
<1>6. IsInjective(s)
  <2> SUFFICES ASSUME NEW i \in 1..(Len(sorted) + 1), NEW j \in 1..(Len(sorted) + 1), i # j
               PROVE  s[i] # s[j]
    BY DEF IsInjective
  <2>1. i < j \/ j < i
    BY <1>3
  <2> QED BY <1>1, <2>1 DEF NotAfter
<1> QED BY <1>1, <1>5, <1>6 DEF DeviceInserted

LEMMA ProcessAddedInv ==
  ASSUME Inv, ProcessAdded
  PROVE  Inv'
<1>1. PICK name \in Name : AddController(name) /\ DeviceInserted(NewController(name))
  BY DEF ProcessAdded
<1> DEFINE c == NewController(name)
<1>2. DInv' /\ Range(controllers') = Range(controllers) \union {c}
  BY <1>1, AddKeeps DEF Inv
<1>3. c \in Controller /\ c \notin Range(controllers)
  BY <1>1, NewControllerIs DEF Inv, AddController
<1>4. /\ sorted' \in Seq(Controller \union {Virtual})
      /\ IsInjective(sorted')
      /\ Range(sorted') = Range(sorted) \union {c}
      /\ UNCHANGED <<core, types, ports, told, viewVars>>
  BY <1>1, <1>3, InsertionIs DEF Inv, Lists
<1> HIDE DEF c
<1>5. TypeOK'
  BY <1>2, <1>4 DEF Inv, TypeOK, DInv, viewVars
<1>6. Lists'
  BY <1>2, <1>4 DEF Inv, Lists
<1>7. Ports' /\ Alive'
  BY <1>2, <1>4 DEF Inv, Ports, PortFacts, Alive, viewVars
<1>8. Exact'
  <2>1. opened \subseteq opened'
    BY <1>1 DEF AddController
  <2> QED BY <1>1, <2>1, StraightBefore, AddExact DEF Inv, Exact
<1> QED BY <1>2, <1>5, <1>6, <1>7, <1>8 DEF Inv

LEMMA ProcessRemovedInv ==
  ASSUME Inv, ProcessRemoved
  PROVE  Inv'
<1>1. PICK i \in DOMAIN controllers :
        RemoveController(i) /\ DeviceRemoved(controllers[i])
  BY DEF ProcessRemoved
<1> DEFINE c == controllers[i]
<1>2. DInv' /\ Range(controllers') = Range(controllers) \ {c}
  BY <1>1, RemoveKeeps DEF Inv
<1>3. PICK k \in DOMAIN sorted : sorted[k] = c /\ sorted' = RemoveAt(sorted, k)
  BY <1>1 DEF DeviceRemoved
<1>4. /\ sorted' \in Seq(Controller \union {Virtual})
      /\ IsInjective(sorted')
      /\ Range(sorted') = Range(sorted) \ {c}
  BY <1>3, Removal DEF Inv, TypeOK, Lists
<1>5. /\ ports' = [p \in Port |->
                     IF ports[p].controller = c THEN Disconnected ELSE ports[p]]
      /\ UNCHANGED <<core, types, told, viewVars>>
  BY <1>1 DEF DeviceRemoved
<1> HIDE DEF c
<1>6. TypeOK'
  BY <1>2, <1>4, <1>5 DEF Inv, TypeOK, DInv, Disconnected, NONE, viewVars
<1>7. Lists'
  BY <1>2, <1>4 DEF Inv, Lists
<1>8. Ports'
  <2> SUFFICES ASSUME core = "loaded", ~missed, NEW p \in Port PROVE PortFacts(p)'
    BY <1>5 DEF Ports, viewVars
  <2>1. PortFacts(p)
    BY DEF Inv, Ports
  <2>2. CASE ports[p].controller = c
    <3>1. ports'[p] = Disconnected /\ types'[p] = types[p]
      BY <1>5, <2>2
    <3>2. types[p] \in Seq(Nat)
      BY DEF Inv, TypeOK
    <3>3. 1 \in DOMAIN types[p]
      BY <2>1, <3>2, EmptySeq, RangeIs DEF PortFacts
    <3> QED BY <2>1, <3>1, <3>3, MaskedNone DEF PortFacts, Disconnected
  <2>3. CASE ports[p].controller # c
    <3>1. ports'[p] = ports[p]
      BY <1>5, <2>3
    <3> QED BY <1>2, <1>5, <2>1, <2>3, <3>1 DEF PortFacts
  <2> QED BY <2>2, <2>3
<1>9. Exact'
  <2>1. opened \subseteq opened'
    BY <1>1 DEF RemoveController
  <2> QED BY <1>1, <2>1, StraightBefore, RemoveExact DEF Inv, Exact
<1>10. Alive'
  <2> SUFFICES ASSUME heard, NEW p \in Port
               PROVE  ports'[p].controller \in Range(controllers') \union {Nobody}
    BY <1>5 DEF Alive, viewVars
  <2>1. ports[p].controller \in Range(controllers) \union {Nobody}
    BY DEF Inv, Alive
  <2>2. ports'[p] = IF ports[p].controller = c THEN Disconnected ELSE ports[p]
    BY <1>5
  <2> QED BY <1>2, <2>1, <2>2 DEF Disconnected
<1> QED BY <1>2, <1>6, <1>7, <1>8, <1>9, <1>10 DEF Inv

LEMMA ProcessOtherInv ==
  ASSUME Inv, ProcessOther
  PROVE  Inv'
<1>1. UNCHANGED inputVars
  BY DEF ProcessOther
<1>2. selected \in 0..(Len(controllers) + 1)
  BY DEF Inv, DInv, DevicesTypeOK
<1>3. CASE AddControllerFails
  <2>1. /\ Polled("added") /\ selected' = selected
        /\ UNCHANGED <<connected, plugged, controllers, opened>>
    BY <1>3 DEF AddControllerFails
  <2>2. DInv'
    BY <1>2, <2>1, PolledAlone DEF Inv
  <2>3. Exact'
    BY <1>3, <2>1, StraightBefore, FailExact DEF Inv, Exact
  <2> QED BY <1>1, <2>1, <2>2, <2>3, DevicesOnly
<1>4. CASE RemoveNothing
  <2>1. /\ Polled("removed") /\ selected' = selected
        /\ UNCHANGED <<connected, plugged, controllers, opened>>
    BY <1>4 DEF RemoveNothing
  <2>2. DInv'
    BY <1>2, <2>1, PolledAlone DEF Inv
  <2>3. Exact'
    BY <1>4, <2>1, StraightBefore, RemoveNothingExact DEF Inv, Exact
  <2> QED BY <1>1, <2>1, <2>2, <2>3, DevicesOnly
<1> QED BY <1>3, <1>4 DEF ProcessOther

LEMMA ExactStutters ==
  ASSUME Exact, UNCHANGED <<connected, plugged, events, controllers, opened>>
  PROVE  Exact'
<1>1. Straight' = Straight
  BY DEF Straight
<1>2. Range(connected)' = Range(connected) /\ Range(events)' = Range(events)
      /\ opened' = opened /\ Ids(controllers)' = Ids(controllers)
  BY DEF Range, Ids
<1>3. HotPlugExact' = HotPlugExact
  BY <1>2 DEF HotPlugExact
<1> QED BY <1>1, <1>3 DEF Exact

LEMMA SDLInv ==
  ASSUME Inv, UNCHANGED inputVars,
         \/ PlugIn
         \/ \E k \in DOMAIN connected : Unplug(k)
         \/ \E k \in 0..(Len(controllers) + 1) : SelectDevice(k)
  PROVE  Inv'
<1>1. CASE PlugIn
  <2>1. opened' = opened /\ controllers' = controllers
    BY <1>1 DEF PlugIn
  <2>2. Exact'
    BY <1>1, <2>1, StraightBefore, PlugInExact DEF Inv, Exact
  <2> QED BY <1>1, <2>1, <2>2, PlugInKeeps, DevicesOnly DEF Inv
<1>2. ASSUME NEW k \in DOMAIN connected, Unplug(k)
      PROVE  Inv'
  <2>1. opened' = opened /\ controllers' = controllers
    BY <1>2 DEF Unplug
  <2>2. Exact'
    BY <1>2, <2>1, StraightBefore, UnplugExact DEF Inv, Exact
  <2> QED BY <1>2, <2>1, <2>2, UnplugKeeps, DevicesOnly DEF Inv
<1>3. ASSUME NEW k \in 0..(Len(controllers) + 1), SelectDevice(k)
      PROVE  Inv'
  <2>1. /\ UNCHANGED <<connected, plugged, events, controllers, opened>>
        /\ selected' \in 0..(Len(controllers) + 1)
    BY <1>3 DEF SelectDevice
  <2>2. DInv'
    BY <2>1 DEF Inv, DInv, DevicesTypeOK, Facts
  <2>3. UNCHANGED <<connected, plugged, events, controllers, opened>>
    BY <2>1
  <2>4. Exact'
    BY <2>3, ExactStutters DEF Inv
  <2> QED BY <2>1, <2>2, <2>4, DevicesOnly
<1> QED BY <1>1, <1>2, <1>3

LEMMA LoadCoreInv ==
  ASSUME Inv, LoadCore
  PROVE  Inv'
<1>1. TypeOK'
  BY DEF Inv, TypeOK, DevicesTypeOK, LoadCore, JOYPAD, devicesVars, viewVars
<1>2. Ports' /\ Alive'
  BY DEF Inv, Ports, Alive, LoadCore, devicesVars, viewVars
<1> QED BY <1>1, <1>2, InputOnly DEF LoadCore

(* What a view that hears of no core leaves as it is.                      *)
LEMMA Unheard ==
  ASSUME Inv, ~managed, UNCHANGED <<ports, types>>, Notified,
         UNCHANGED <<devicesVars, sorted, told, managed>>,
         core' \in {"none", "loading", "loaded"}
  PROVE  Inv'
<1>1. heard' = heard /\ missed' = TRUE
  BY DEF Inv, TypeOK, Notified
<1>2. TypeOK'
  BY <1>1 DEF Inv, TypeOK, DevicesTypeOK, devicesVars
<1>3. Ports'
  BY <1>1 DEF Ports
<1>4. Alive'
  BY <1>1 DEF Inv, Alive, devicesVars
<1> QED BY <1>2, <1>3, <1>4, InputOnly

LEMMA CloseViewInv ==
  ASSUME Inv, CloseView
  PROVE  Inv'
<1>1. TypeOK'
  BY DEF Inv, TypeOK, DevicesTypeOK, CloseView, devicesVars
<1>2. Ports' /\ Alive'
  BY DEF Inv, Ports, PortFacts, Alive, CloseView, devicesVars
<1> QED BY <1>1, <1>2, InputOnly DEF CloseView

LEMMA OnCoreLoadedInv ==
  ASSUME Inv, OnCoreLoaded
  PROVE  Inv'
<1> SUFFICES ASSUME /\ managed
                    /\ ports' = [p \in Port |-> Disconnected]
                    /\ types' = [p \in Port |-> <<NONE, JOYPAD>> \o types[p]]
             PROVE  Inv'
  BY Unheard DEF OnCoreLoaded
<1>0. /\ ports' = [p \in Port |-> Disconnected]
      /\ types' = [p \in Port |-> <<NONE, JOYPAD>> \o types[p]]
  OBVIOUS
<1>1. \A p \in Port :
        /\ <<NONE, JOYPAD>> \o types[p] \in Seq(Nat)
        /\ Len(<<NONE, JOYPAD>> \o types[p]) >= 2
        /\ (<<NONE, JOYPAD>> \o types[p])[1] = NONE
  <2> TAKE p \in Port
  <2> DEFINE t == types[p]
             u == <<NONE, JOYPAD>>
  <2>1. t \in Seq(Nat) /\ Len(t) \in Nat
    BY LenProperties DEF Inv, TypeOK
  <2>2. u \in Seq(Nat) /\ Len(u) = 2 /\ u[1] = NONE
    BY DEF NONE, JOYPAD
  <2> HIDE DEF t, u
  <2>3. /\ u \o t \in Seq(Nat) /\ Len(u \o t) = Len(u) + Len(t)
        /\ \A k \in 1..(Len(u) + Len(t)) :
             (u \o t)[k] = IF k <= Len(u) THEN u[k] ELSE t[k - Len(u)]
    BY <2>1, <2>2, ConcatProperties
  <2>4. 1 \in 1..(Len(u) + Len(t)) /\ 1 <= Len(u)
    BY <2>1, <2>2
  <2>5. (u \o t)[1] = NONE
    BY <2>2, <2>3, <2>4
  <2>6. Len(u \o t) >= 2
    BY <2>1, <2>2, <2>3
  <2> QED BY <2>3, <2>5, <2>6 DEF t, u
<1>2. /\ types' \in [Port -> Seq(Nat)]
      /\ \A p \in Port : Len(types'[p]) >= 2 /\ types'[p][1] = NONE
  BY <1>0, <1>1
<1>3. TypeOK'
  BY <1>0, <1>2 DEF Inv, TypeOK, DevicesTypeOK, OnCoreLoaded, Notified, devicesVars,
                    Disconnected, NONE
<1>4. Ports'
  <2> SUFFICES ASSUME NEW p \in Port PROVE PortFacts(p)'
    BY DEF Ports
  <2>1. types'[p] \in Seq(Nat) /\ Len(types'[p]) >= 2 /\ types'[p][1] = NONE
    BY <1>2
  <2>2. 1 \in DOMAIN types'[p] /\ types'[p] # <<>>
    BY <2>1, RangeIs
  <2>3. ports'[p] = Disconnected
    BY <1>0
  <2> QED BY <2>1, <2>2, <2>3, MaskedNone DEF PortFacts, Disconnected
<1>5. Alive'
  BY <1>0 DEF Alive, Disconnected
<1> QED BY <1>3, <1>4, <1>5, InputOnly DEF OnCoreLoaded

LEMMA OnCoreUnloadedInv ==
  ASSUME Inv, OnCoreUnloaded
  PROVE  Inv'
<1> SUFFICES ASSUME /\ ports' = [p \in Port |-> Disconnected]
                    /\ types' = [p \in Port |-> <<>>]
             PROVE  Inv'
  BY Unheard DEF OnCoreUnloaded
<1>1. TypeOK'
  BY DEF Inv, TypeOK, DevicesTypeOK, OnCoreUnloaded, Notified, devicesVars,
         Disconnected, NONE
<1>2. Ports' /\ Alive'
  BY DEF Ports, Alive, OnCoreUnloaded, Disconnected
<1> QED BY <1>1, <1>2, InputOnly DEF OnCoreUnloaded

LEMMA SetControllerInfoInv ==
  ASSUME Inv, NEW info \in Announcement, SetControllerInfo(info)
  PROVE  Inv'
<1>1. \A p \in Port :
        /\ types[p] \o Kept(info[p]) \in Seq(Nat)
        /\ DOMAIN types[p] \subseteq DOMAIN (types[p] \o Kept(info[p]))
        /\ \A k \in DOMAIN types[p] : (types[p] \o Kept(info[p]))[k] = types[p][k]
  <2> TAKE p \in Port
  <2> DEFINE t == types[p]
             u == Kept(info[p])
  <2>1. t \in Seq(Nat) /\ u \in Seq(Nat)
    <3>1. info[p] \in Seq(Nat)
      BY InputAssumption
    <3> QED BY <3>1, KeptIs DEF Inv, TypeOK
  <2> HIDE DEF t, u
  <2>2. Len(t) \in Nat /\ Len(u) \in Nat /\ DOMAIN t = 1..Len(t)
    BY <2>1, LenProperties
  <2>3. /\ t \o u \in Seq(Nat) /\ Len(t \o u) = Len(t) + Len(u)
        /\ \A k \in 1..(Len(t) + Len(u)) :
             (t \o u)[k] = IF k <= Len(t) THEN t[k] ELSE u[k - Len(t)]
    BY <2>1, ConcatProperties
  <2>4. DOMAIN (t \o u) = 1..(Len(t) + Len(u))
    BY <2>3, LenProperties
  <2>5. \A k \in 1..Len(t) : k \in 1..(Len(t) + Len(u)) /\ k <= Len(t)
    BY <2>2
  <2> QED BY <2>2, <2>3, <2>4, <2>5 DEF t, u
<1>2. types' \in [Port -> Seq(Nat)]
  BY <1>1 DEF SetControllerInfo
<1>3. TypeOK'
  BY <1>2 DEF Inv, TypeOK, DevicesTypeOK, SetControllerInfo, devicesVars, viewVars
<1>4. Ports'
  <2> SUFFICES ASSUME core = "loaded", ~missed, NEW p \in Port PROVE PortFacts(p)'
    BY DEF Ports, SetControllerInfo, viewVars
  <2>1. PortFacts(p)
    BY DEF Inv, Ports
  <2>2. /\ DOMAIN types[p] \subseteq DOMAIN types'[p]
        /\ \A k \in DOMAIN types[p] : types'[p][k] = types[p][k]
        /\ types'[p] \in Seq(Nat) /\ types[p] \in Seq(Nat)
    BY <1>1 DEF SetControllerInfo, Inv, TypeOK
  <2>3. 1 \in DOMAIN types[p]
    BY <2>1, <2>2, EmptySeq, RangeIs DEF PortFacts
  <2>4. types'[p] # <<>>
    BY <2>2, <2>3
  <2>5. UNCHANGED <<ports, told>>
    BY DEF SetControllerInfo
  <2> QED BY <2>1, <2>2, <2>3, <2>4, <2>5 DEF PortFacts
<1>5. Alive'
  BY DEF Inv, Alive, SetControllerInfo, devicesVars, viewVars
<1> QED BY <1>3, <1>4, <1>5, InputOnly DEF SetControllerInfo

LEMMA ChooseTypeInv ==
  ASSUME Inv, NEW q \in Port, NEW k \in DOMAIN types[q], ChooseType(q, k)
  PROVE  Inv'
<1>1. /\ types[q] \in Seq(Nat) /\ ports \in [Port -> [selectedType : Nat,
           selectedDevice : Nat \union {-1}, type : Nat,
           controller : Controller \union {Virtual, Nobody, Wild}]]
      /\ told \in [Port -> Nat]
  BY DEF Inv, TypeOK
<1>2. k \in Nat /\ k - 1 \in Nat /\ types[q][k] \in Nat
  BY <1>1, RangeIs, ElementOfSeq
<1>3. Masked(types[q][k]) \in Nat
  BY <1>2 DEF Masked
<1> DEFINE new == [selectedType |-> k - 1, selectedDevice |-> -1,
                   type |-> Masked(types[q][k]), controller |-> Nobody]
<1>4. /\ ports' = [ports EXCEPT ![q] = new]
      /\ told' = [told EXCEPT ![q] = types[q][k]]
      /\ UNCHANGED <<devicesVars, core, types, sorted, viewVars>>
  BY DEF ChooseType
<1>5. TypeOK'
  <2>1. new \in [selectedType : Nat, selectedDevice : Nat \union {-1}, type : Nat,
                 controller : Controller \union {Virtual, Nobody, Wild}]
    BY <1>2, <1>3
  <2> HIDE DEF new
  <2>2. ports' \in [Port -> [selectedType : Nat, selectedDevice : Nat \union {-1},
                             type : Nat,
                             controller : Controller \union {Virtual, Nobody, Wild}]]
    BY <1>1, <1>4, <2>1
  <2>3. told' \in [Port -> Nat]
    BY <1>1, <1>2, <1>4
  <2> QED BY <1>4, <2>2, <2>3 DEF Inv, TypeOK, DevicesTypeOK, devicesVars, viewVars
<1>6. Ports'
  <2> SUFFICES ASSUME core = "loaded", ~missed, NEW p \in Port PROVE PortFacts(p)'
    BY <1>4 DEF Ports, viewVars
  <2>1. PortFacts(p)
    BY DEF Inv, Ports
  <2>2. CASE p = q
    <3>1. ports'[p] = new /\ told'[p] = types[p][k]
      BY <1>1, <1>4, <2>2
    <3>2. new.selectedType + 1 = k /\ k \in DOMAIN types[p]
      BY <1>2, <2>2
    <3> QED BY <1>4, <2>1, <2>2, <3>1, <3>2 DEF PortFacts, devicesVars
  <2>3. CASE p # q
    <3>1. ports'[p] = ports[p] /\ told'[p] = told[p]
      BY <1>1, <1>4, <2>3
    <3> QED BY <1>4, <2>1, <3>1 DEF PortFacts, devicesVars
  <2> QED BY <2>2, <2>3
<1>7. Alive'
  <2> HIDE DEF new
  <2>1. \A p \in Port : ports'[p] = IF p = q THEN new ELSE ports[p]
    BY <1>1, <1>4
  <2>2. new.controller = Nobody
    BY DEF new
  <2> QED BY <1>4, <2>1, <2>2 DEF Inv, Alive, devicesVars, viewVars
<1> QED BY <1>4, <1>5, <1>6, <1>7, InputOnly

LEMMA ChooseDeviceInv ==
  ASSUME Inv, NEW q \in Port, NEW k \in DOMAIN sorted, ChooseDevice(q, k)
  PROVE  Inv'
<1>1. ports \in [Port -> [selectedType : Nat,
           selectedDevice : Nat \union {-1}, type : Nat,
           controller : Controller \union {Virtual, Nobody, Wild}]]
  BY DEF Inv, TypeOK
<1>2. /\ k \in Nat /\ k - 1 \in Nat
      /\ sorted[k] \in Controller \union {Virtual}
      /\ sorted[k] \in Range(controllers)
  <2>1. sorted \in Seq(Controller \union {Virtual}) /\ Range(sorted) = Range(controllers)
    BY DEF Inv, TypeOK, Lists
  <2>2. k \in 1..Len(sorted)
    BY <2>1
  <2>3. k \in Nat /\ k - 1 \in Nat
    BY <2>1, <2>2
  <2>4. sorted[k] \in Controller \union {Virtual}
    <3> DEFINE S == Controller \union {Virtual}
    <3>1. sorted \in Seq(S)
      BY <2>1
    <3> HIDE DEF S
    <3>2. sorted[k] \in S
      BY <2>2, <3>1, ElementOfSeq
    <3> QED BY <3>2 DEF S
  <2>5. sorted[k] \in Range(controllers)
    BY <2>1 DEF Range
  <2> QED BY <2>3, <2>4, <2>5
<1>3. /\ ports' = [ports EXCEPT ![q].selectedDevice = k - 1, ![q].controller = sorted[k]]
      /\ ports[q].type = JOYPAD
      /\ UNCHANGED <<devicesVars, core, types, sorted, told, viewVars>>
  BY DEF ChooseDevice
<1>4. TypeOK'
  <2>1. ports' \in [Port -> [selectedType : Nat, selectedDevice : Nat \union {-1},
                             type : Nat,
                             controller : Controller \union {Virtual, Nobody, Wild}]]
    BY <1>1, <1>2, <1>3
  <2> QED BY <1>3, <2>1 DEF Inv, TypeOK, DevicesTypeOK, devicesVars, viewVars
<1>5. Ports'
  <2> SUFFICES ASSUME core = "loaded", ~missed, NEW p \in Port PROVE PortFacts(p)'
    BY <1>3 DEF Ports, viewVars
  <2>1. PortFacts(p)
    BY DEF Inv, Ports
  <2>2. CASE p = q
    <3>1. /\ ports'[p].selectedType = ports[p].selectedType
          /\ ports'[p].type = ports[p].type
          /\ ports'[p].controller = sorted[k]
      BY <1>1, <1>3, <2>2
    <3> QED BY <1>2, <1>3, <2>1, <2>2, <3>1 DEF PortFacts, devicesVars
  <2>3. CASE p # q
    <3>1. ports'[p] = ports[p]
      BY <1>1, <1>3, <2>3
    <3> QED BY <1>3, <2>1, <3>1 DEF PortFacts, devicesVars
  <2> QED BY <2>2, <2>3
<1>6. Alive'
  <2>1. \A p \in Port : ports'[p].controller
                           = IF p = q THEN sorted[k] ELSE ports[p].controller
    BY <1>1, <1>3
  <2> QED BY <1>2, <1>3, <2>1 DEF Inv, Alive, devicesVars, viewVars
<1> QED BY <1>3, <1>4, <1>5, <1>6, InputOnly

LEMMA StutterInv ==
  ASSUME Inv, UNCHANGED vars
  PROVE  Inv'
<1>1. DInv'
  BY DEF Inv, DInv, DevicesTypeOK, Facts, vars, devicesVars
<1>2. Exact'
  BY ExactStutters DEF Inv, vars, devicesVars
<1> QED BY <1>1, <1>2, DevicesOnly DEF vars, devicesVars

LEMMA NextInv == Inv /\ [Next]_vars => Inv'
<1> SUFFICES ASSUME Inv, [Next]_vars PROVE Inv'
  OBVIOUS
<1>1. CASE UNCHANGED vars
  BY <1>1, StutterInv
<1>2. CASE Next
  BY <1>2, SDLInv, ProcessAddedInv, ProcessRemovedInv, ProcessOtherInv, LoadCoreInv,
     OnCoreLoadedInv, OnCoreUnloadedInv, CloseViewInv, SetControllerInfoInv, ChooseTypeInv,
     ChooseDeviceInv
  DEF Next
<1> QED BY <1>1, <1>2

LEMMA SpecInv == Spec => []Inv
BY InitInv, NextInv, PTL DEF Spec

-----------------------------------------------------------------------------
(* Every list, index and port stays in range, for any number of            *)
(* controllers, ports, names and announced types.                          *)
THEOREM SpecTypeOK == Spec => []TypeOK
<1>1. Inv => TypeOK
  BY DEF Inv
<1> QED BY <1>1, SpecInv, PTL

(* No port of a loaded core has a controller that Devices deleted, unless  *)
(* Input's window was closed before any core was loaded.                   *)
THEOREM SpecPortsAlive == Spec => []PortsAlive
<1>1. Inv => PortsAlive
  BY DEF Inv, Lists, Alive, PortsAlive
<1> QED BY <1>1, SpecInv, PTL

(* Every port that is not None is of the type its combo shows and the core *)
(* was told, until a core comes or goes with the window closed.            *)
THEOREM SpecPortsCoherent == Spec => []PortsCoherent
<1>1. Inv => PortsCoherent
  BY DEF Inv, Ports, PortFacts, PortsCoherent
<1> QED BY <1>1, SpecInv, PTL

(* The list is what is plugged in until a controller is added after        *)
(* another was removed.                                                    *)
THEOREM SpecExactUntilReplugged == Spec => []ExactUntilReplugged
<1>1. Inv => ExactUntilReplugged
  BY DEF Inv, Exact, Straight, ExactUntilReplugged
<1> QED BY <1>1, SpecInv, PTL

(* A port keeps its controller until the user, the core's end or that      *)
(* controller's own removal takes it away.                                 *)
THEOREM SpecKeepsController == Spec => KeepsController
<1> DEFINE Keeps ==
      controllers' # controllers =>
        \A p \in Port : LET held == ports[p].controller IN
          ports'[p].controller
            = IF held \in Range(controllers) \ Range(controllers')
              THEN Nobody ELSE held
<1>1. Inv /\ [Next]_vars => [Keeps]_vars
  <2> SUFFICES ASSUME Inv, [Next]_vars, controllers' # controllers, NEW p \in Port
               PROVE  ports'[p].controller
                        = IF ports[p].controller \in Range(controllers) \ Range(controllers')
                          THEN Nobody ELSE ports[p].controller
    OBVIOUS
  <2>1. ProcessAdded \/ ProcessRemoved
    BY DEF Next, vars, devicesVars, PlugIn, Unplug, SelectDevice, ProcessOther,
           AddControllerFails, RemoveNothing, LoadCore, OnCoreLoaded, OnCoreUnloaded,
           CloseView, SetControllerInfo, ChooseType, ChooseDevice
  <2>2. CASE ProcessAdded
    <3>1. PICK name \in Name :
            AddController(name) /\ DeviceInserted(NewController(name))
      BY <2>2 DEF ProcessAdded
    <3>2. Range(controllers) \subseteq Range(controllers')
      BY <3>1, AddKeeps DEF Inv
    <3>3. ports' = ports
      BY <3>1 DEF DeviceInserted
    <3> QED BY <3>2, <3>3
  <2>3. CASE ProcessRemoved
    <3>1. PICK i \in DOMAIN controllers :
            RemoveController(i) /\ DeviceRemoved(controllers[i])
      BY <2>3 DEF ProcessRemoved
    <3>2. /\ Range(controllers') = Range(controllers) \ {controllers[i]}
          /\ controllers[i] \in Range(controllers)
      BY <3>1, RemoveKeeps DEF Inv, Range
    <3>3. ports'[p].controller
            = IF ports[p].controller = controllers[i] THEN Nobody
              ELSE ports[p].controller
      BY <3>1 DEF DeviceRemoved, Disconnected
    <3> QED BY <3>2, <3>3
  <2> QED BY <2>1, <2>2, <2>3
<1> QED BY <1>1, SpecInv, PTL DEF Spec, KeepsController
=============================================================================
