---------------------------- MODULE ConfigProofs ----------------------------
(***************************************************************************)
(* Config's invariants, for any options, announcements, tables and width   *)
(* of addresses.                                                           *)
(***************************************************************************)
EXTENDS Config, SequenceTheorems, WellFoundedInduction, TLAPS

-----------------------------------------------------------------------------
(* Induction, as a fact about sets: every one of numbers has a least, and  *)
(* one that has a bound has a greatest.                                    *)
Less == {ss \in Nat \X Nat : ss[1] < ss[2]}

LEMMA LessIsWellFounded == IsWellFoundedOn(Less, Nat)
BY NatLessThanWellFounded, Zenon DEF OpToRel, Less

LEMMA Least ==
  ASSUME NEW S \in SUBSET Nat, S # {}
  PROVE  \E n \in S : \A m \in S : n <= m
<1>1. PICK n \in S : \A m \in S : <<m, n>> \notin Less
  BY LessIsWellFounded, WFMin
<1>2. \A m \in S : ~(m < n)
  BY <1>1 DEF Less
<1> QED BY <1>1, <1>2

LEMMA Greatest ==
  ASSUME NEW n \in Nat, NEW S \in SUBSET (1..n), S # {}
  PROVE  \E m \in S : \A k \in S : k <= m
<1> DEFINE T == {n - k : k \in S}
<1>1. T \in SUBSET Nat /\ T # {}
  <2>1. \A k \in S : k \in Int /\ n - k \in Nat
    OBVIOUS
  <2>2. PICK k : k \in S
    OBVIOUS
  <2>3. n - k \in T
    BY <2>2
  <2> QED BY <2>1, <2>3
<1>2. PICK t \in T : \A u \in T : t <= u
  BY <1>1, Least
<1>3. PICK m \in S : t = n - m
  OBVIOUS
<1>4. ASSUME NEW k \in S
      PROVE  k <= m
  <2>1. n - m <= n - k
    BY <1>2, <1>3
  <2> QED BY <2>1
<1> QED BY <1>3, <1>4

-----------------------------------------------------------------------------
(* Sequences of options.                                                   *)
Joined(s, t, u) ==
  /\ Len(u) = Len(s) + Len(t)
  /\ \A i \in DOMAIN s : u[i] = s[i]
  /\ \A i \in DOMAIN t : u[Len(s) + i] = t[i]
  /\ \A i \in DOMAIN u : i \in DOMAIN s \/ (i - Len(s) \in DOMAIN t /\ u[i] = t[i - Len(s)])

LEMMA Concatenated ==
  ASSUME NEW S, NEW s \in Seq(S), NEW t \in Seq(S)
  PROVE  s \o t \in Seq(S) /\ Joined(s, t, s \o t)
BY ConcatProperties DEF Joined

LEMMA FirstAt ==
  ASSUME NEW a, NEW key, NEW i, a[i].key = key, \A j \in 1..(i - 1) : a[j].key # key
  PROVE  IsFirst(a, key, i)
BY DEF IsFirst

(* The default's index is well defined: among finitely many values equal   *)
(* to the default there is a last one.                                     *)
LEMMA DefaultIs ==
  ASSUME NEW d \in Definition
  PROVE  Default(d) \in DOMAIN d.values /\ IsDefault(d, Default(d))
<1> DEFINE v == d.values
           n == Len(v)
           S == {i \in 1..n : v[i] = d.default}
<1>1. v \in Seq(Value) /\ v # <<>> /\ n \in Nat \ {0} /\ DOMAIN v = 1..n
  BY EmptySeq, LenProperties DEF Definition
<1>2. \E i \in DOMAIN v : IsDefault(d, i)
  <2>1. CASE S = {}
    <3>1. 1 \in DOMAIN v /\ \A j \in DOMAIN v : v[j] # d.default
      BY <1>1, <2>1
    <3> QED BY <3>1 DEF IsDefault
  <2>2. CASE S # {}
    <3>1. PICK m \in S : \A k \in S : k <= m
      <4> HIDE DEF n, v
      <4> QED BY <1>1, <2>2, Greatest
    <3>2. \A j \in (m + 1)..n : v[j] # d.default
      <4> SUFFICES ASSUME NEW j \in (m + 1)..n, v[j] = d.default PROVE FALSE
        OBVIOUS
      <4> HIDE DEF v, n
      <4>1. m \in 1..n
        OBVIOUS
      <4>2. j \in S
        BY <1>1, <4>1
      <4> QED BY <1>1, <3>1, <4>1, <4>2
    <3>3. m \in DOMAIN v /\ v[m] = d.default
      BY <1>1
    <3> QED BY <3>2, <3>3 DEF IsDefault
  <2> QED BY <2>1, <2>2
<1> QED BY <1>2 DEF Default

(* What is announced, as options.                                          *)
LEMMA NewOptions ==
  ASSUME NEW a \in Announcement
  PROVE  LET new == [i \in DOMAIN a |-> NewOption(a[i])] IN
         /\ new \in Seq(Option)
         /\ Len(new) = Len(a)
         /\ \A i \in DOMAIN a : /\ new[i].key = a[i].key
                                /\ new[i].values = a[i].values
                                /\ new[i].selected \in DOMAIN new[i].values
<1>1. a \in Seq(Definition)
  BY OptionsAssumption
<1>2. ASSUME NEW i \in DOMAIN a
      PROVE  /\ NewOption(a[i]) \in Option
             /\ NewOption(a[i]).key = a[i].key
             /\ NewOption(a[i]).values = a[i].values
             /\ NewOption(a[i]).selected \in DOMAIN NewOption(a[i]).values
  <2>1. a[i] \in Definition
    BY <1>1, ElementOfSeq
  <2>2. Default(a[i]) \in DOMAIN a[i].values
    BY <2>1, DefaultIs
  <2>3. a[i].values \in Seq(Value) \ {<<>>} /\ a[i].key \in Key
    BY <2>1 DEF Definition
  <2>4. Default(a[i]) \in Nat
    BY <2>2, <2>3
  <2> QED BY <2>2, <2>3, <2>4 DEF NewOption, Option
<1> DEFINE new == [i \in DOMAIN a |-> NewOption(a[i])]
<1>3. DOMAIN a = 1..Len(a) /\ Len(a) \in Nat
  BY <1>1
<1>4. new \in [1..Len(a) -> Option]
  BY <1>2, <1>3
<1>5. new \in Seq(Option) /\ Len(new) = Len(a)
  BY <1>3, <1>4, IsASeq
<1> QED BY <1>2, <1>5

LEMMA FirstIs ==
  ASSUME NEW a \in Announcement, NEW key \in Keys(a)
  PROVE  First(a, key) \in DOMAIN a /\ IsFirst(a, key, First(a, key))
<1> DEFINE n == Len(a)
           S == {i \in 1..n : a[i].key = key}
<1>1. a \in Seq(Definition)
  BY OptionsAssumption
<1>2. n \in Nat /\ DOMAIN a = 1..n
  BY <1>1, LenProperties
<1>3. S \in SUBSET Nat /\ S # {}
  BY <1>2 DEF Keys
<1>4. PICK i \in S : \A j \in S : i <= j
  BY <1>3, Least
<1>5. ASSUME NEW j \in 1..(i - 1)
      PROVE  a[j].key # key
  <2> HIDE DEF n
  <2>1. i \in 1..n /\ j \in 1..n /\ ~(i <= j)
    BY <1>2
  <2> QED BY <1>4, <2>1
<1>6. i \in DOMAIN a /\ a[i].key = key
  BY <1>2
<1>7. i \in DOMAIN a /\ IsFirst(a, key, i)
  BY <1>5, <1>6, FirstAt
<1> QED BY <1>7 DEF First

-----------------------------------------------------------------------------
(* The options' invariant.  The core knows nothing of keys nobody          *)
(* announced, and knows the truth already while it starts a game.          *)
Knowing ==
  /\ \A key \in Key \ DOMAIN coreMap : known[key] = Unread
  /\ core = "starting" \/ (core = "game" /\ ~optionsUpdated) =>
       \A key \in DOMAIN coreMap \ quiet :
         known[key] # Unread => known[key] = Current(key)

(* KeysFindOptions, in two parts: the map is one of the options, and the   *)
(* options are those that were announced.                                  *)
Mapped ==
  /\ DOMAIN coreMap = Keys(coreOptions)
  /\ \A key \in DOMAIN coreMap :
       coreMap[key] \in DOMAIN coreOptions /\ IsFirst(coreOptions, key, coreMap[key])

Faithful ==
  ~missed =>
    /\ Len(announced) = Len(coreOptions)
    /\ \A i \in DOMAIN coreOptions : /\ coreOptions[i].key = announced[i].key
                                     /\ coreOptions[i].values = announced[i].values

OInv == OptionsTypeOK /\ Mapped /\ Faithful /\ Knowing

LEMMA Finding ==
  ASSUME OInv
  PROVE  KeysFindOptions
<1>1. Mapped /\ coreOptions \in Seq(Option) /\ announced \in Seq(Definition)
  BY DEF OInv, OptionsTypeOK
<1>2. ASSUME ~missed
      PROVE  /\ DOMAIN coreMap = Keys(announced)
             /\ \A key \in DOMAIN coreMap :
                  /\ IsFirst(announced, key, coreMap[key])
                  /\ coreOptions[coreMap[key]].values = announced[coreMap[key]].values
  <2>1. DOMAIN announced = DOMAIN coreOptions
    BY <1>1, <1>2, LenProperties DEF OInv, Faithful
  <2>2. \A i \in DOMAIN coreOptions : /\ coreOptions[i].key = announced[i].key
                                     /\ coreOptions[i].values = announced[i].values
    BY <1>2 DEF OInv, Faithful
  <2>3. Keys(announced) = Keys(coreOptions)
    BY <2>1, <2>2 DEF Keys
  <2>4. ASSUME NEW key \in DOMAIN coreMap
        PROVE  /\ IsFirst(announced, key, coreMap[key])
               /\ coreOptions[coreMap[key]].values = announced[coreMap[key]].values
    <3>1. coreMap[key] \in DOMAIN coreOptions /\ IsFirst(coreOptions, key, coreMap[key])
      BY <1>1 DEF Mapped
    <3>2. \A j \in 1..(coreMap[key] - 1) : j \in DOMAIN coreOptions
      BY <1>1, <3>1
    <3> QED BY <2>2, <3>1, <3>2 DEF IsFirst
  <2> QED BY <1>1, <2>3, <2>4 DEF Mapped
<1> QED BY <1>1, <1>2 DEF Mapped, KeysFindOptions

(* Nothing is told of an option but its value.                             *)
LEMMA MapIs ==
  ASSUME OInv, NEW key \in DOMAIN coreMap
  PROVE  /\ key \in Key
         /\ coreMap[key] \in DOMAIN coreOptions
         /\ coreOptions[coreMap[key]] \in Option
         /\ coreOptions[coreMap[key]].key = key
         /\ Current(key) \in Value
<1>1. /\ key \in Key
      /\ coreMap[key] \in DOMAIN coreOptions
      /\ coreOptions[coreMap[key]].key = key
  BY DEF OInv, OptionsTypeOK, Mapped, IsFirst
<1>2. coreOptions \in Seq(Option)
  BY DEF OInv, OptionsTypeOK
<1>3. coreOptions[coreMap[key]] \in Option
  BY <1>1, <1>2, ElementOfSeq
<1>4. coreOptions[coreMap[key]].selected \in DOMAIN coreOptions[coreMap[key]].values
  BY <1>1 DEF OInv, OptionsTypeOK
<1>5. coreOptions[coreMap[key]].values \in Seq(Value)
  BY <1>3 DEF Option
<1>6. Current(key) \in Value
  BY <1>4, <1>5, ElementOfSeq DEF Current
<1> QED BY <1>1, <1>3, <1>6

(* An option that changes keeps its key and its values.                    *)
LEMMA Changing ==
  ASSUME OInv, NEW i \in DOMAIN coreOptions, NEW o \in Option,
         o.key = coreOptions[i].key, o.values = coreOptions[i].values,
         o.selected \in DOMAIN o.values,
         coreOptions' = [coreOptions EXCEPT ![i] = o],
         UNCHANGED <<core, coreMap, announced, missed>>
  PROVE  /\ coreOptions' \in Seq(Option)
         /\ \A j \in DOMAIN coreOptions' :
              coreOptions'[j].selected \in DOMAIN coreOptions'[j].values
         /\ Mapped' /\ Faithful'
         /\ \A key \in DOMAIN coreMap : coreMap[key] # i => Current(key)' = Current(key)
<1>1. coreOptions \in Seq(Option)
  BY DEF OInv, OptionsTypeOK
<1>2. coreOptions' \in Seq(Option) /\ DOMAIN coreOptions' = DOMAIN coreOptions
  BY <1>1, ExceptSeq
<1>3. \A j \in DOMAIN coreOptions : /\ coreOptions'[j].key = coreOptions[j].key
                                   /\ (j # i => coreOptions'[j] = coreOptions[j])
                                   /\ (j = i => coreOptions'[j] = o)
  BY <1>1
<1>4. \A j \in DOMAIN coreOptions' :
        coreOptions'[j].selected \in DOMAIN coreOptions'[j].values
  BY <1>2, <1>3 DEF OInv, OptionsTypeOK
<1>5. Keys(coreOptions') = Keys(coreOptions)
  BY <1>2, <1>3 DEF Keys
<1>6. ASSUME NEW key \in DOMAIN coreMap
      PROVE  coreMap[key] \in DOMAIN coreOptions' /\ IsFirst(coreOptions', key, coreMap[key])
  <2>1. coreMap[key] \in DOMAIN coreOptions /\ IsFirst(coreOptions, key, coreMap[key])
    BY DEF OInv, Mapped
  <2>2. \A j \in 1..(coreMap[key] - 1) : j \in DOMAIN coreOptions
    BY <1>1, <2>1
  <2> QED BY <1>2, <1>3, <2>1, <2>2 DEF IsFirst
<1>7. Mapped'
  BY <1>5, <1>6 DEF OInv, Mapped
<1>8. ASSUME NEW key \in DOMAIN coreMap, coreMap[key] # i
      PROVE  Current(key)' = Current(key)
  BY <1>3, <1>8 DEF Current, OInv, Mapped
<1>9. Faithful'
  <2>1. Len(coreOptions') = Len(coreOptions)
    BY <1>1, <1>2, LenProperties
  <2> QED BY <1>2, <1>3, <2>1 DEF OInv, Faithful
<1> QED BY <1>2, <1>4, <1>7, <1>8, <1>9

LEMMA AllReadIs ==
  ASSUME OInv
  PROVE  /\ AllRead \in [Key -> Value \union {Unread}]
         /\ \A key \in DOMAIN coreMap : AllRead[key] = Current(key)
         /\ \A key \in Key \ DOMAIN coreMap : AllRead[key] = Unread
BY MapIs DEF AllRead

LEMMA SetCoreOptionsInv ==
  ASSUME OInv, NEW a \in Announcement, SetCoreOptions(a)
  PROVE  OInv'
<1> DEFINE new == [i \in DOMAIN a |-> NewOption(a[i])]
<1> DEFINE n == Len(coreOptions)
<1>1. coreOptions \in Seq(Option) /\ n \in Nat /\ DOMAIN coreOptions = 1..n
  BY DEF OInv, OptionsTypeOK
<1>2. /\ new \in Seq(Option) /\ Len(new) = Len(a)
      /\ \A i \in DOMAIN a : /\ new[i].key = a[i].key
                             /\ new[i].values = a[i].values
                             /\ new[i].selected \in DOMAIN new[i].values
  BY NewOptions
<1>3. coreOptions' = coreOptions \o new
  BY DEF SetCoreOptions
<1>4. a \in Seq(Definition) /\ DOMAIN a = 1..Len(a) /\ Len(a) \in Nat
  BY OptionsAssumption
<1>5. DOMAIN new = DOMAIN a
  OBVIOUS
<1> HIDE DEF new
<1>6. /\ coreOptions' \in Seq(Option)
      /\ Len(coreOptions') = n + Len(a)
      /\ \A i \in 1..n : coreOptions'[i] = coreOptions[i]
      /\ \A i \in DOMAIN a : coreOptions'[n + i] = new[i]
      /\ \A i \in DOMAIN coreOptions' :
           i \in 1..n \/ (i - n \in DOMAIN a /\ coreOptions'[i] = new[i - n])
  <2>1. coreOptions' \in Seq(Option) /\ Joined(coreOptions, new, coreOptions')
    BY <1>1, <1>2, <1>3, Concatenated
  <2> QED BY <1>1, <1>2, <1>5, <2>1 DEF Joined
<1>7. DOMAIN coreOptions' = 1..(n + Len(a))
  BY <1>6
<1>8. \A i \in DOMAIN coreOptions' :
        coreOptions'[i].selected \in DOMAIN coreOptions'[i].values
  BY <1>1, <1>2, <1>6 DEF OInv, OptionsTypeOK
<1>9. Keys(coreOptions') = Keys(coreOptions) \union Keys(a)
  <2>1. ASSUME NEW key \in Keys(coreOptions') PROVE key \in Keys(coreOptions) \union Keys(a)
    <3>1. PICK i \in DOMAIN coreOptions' : key = coreOptions'[i].key
      BY <2>1 DEF Keys
    <3>2. CASE i \in 1..n
      BY <1>1, <1>6, <3>1, <3>2 DEF Keys
    <3>3. CASE i - n \in DOMAIN a /\ coreOptions'[i] = new[i - n]
      BY <1>2, <3>1, <3>3 DEF Keys
    <3> QED BY <1>6, <3>2, <3>3
  <2>2. ASSUME NEW key \in Keys(coreOptions) PROVE key \in Keys(coreOptions')
    <3>1. PICK i \in 1..n : key = coreOptions[i].key
      BY <1>1 DEF Keys
    <3>2. i \in DOMAIN coreOptions' /\ coreOptions'[i].key = key
      BY <1>1, <1>4, <1>6, <1>7, <3>1
    <3> QED BY <3>2 DEF Keys
  <2>3. ASSUME NEW key \in Keys(a) PROVE key \in Keys(coreOptions')
    <3>1. PICK i \in DOMAIN a : key = a[i].key
      BY DEF Keys
    <3>2. n + i \in DOMAIN coreOptions'
      BY <1>1, <1>4, <1>7, <3>1
    <3>3. coreOptions'[n + i] = new[i] /\ new[i].key = a[i].key
      BY <1>2, <1>6, <3>1
    <3> QED BY <3>1, <3>2, <3>3 DEF Keys
  <2> QED BY <2>1, <2>2, <2>3
<1>10. /\ DOMAIN coreMap' = DOMAIN coreMap \union Keys(a)
       /\ \A key \in DOMAIN coreMap : coreMap'[key] = coreMap[key]
       /\ \A key \in Keys(a) \ DOMAIN coreMap : coreMap'[key] = n + First(a, key)
  BY DEF SetCoreOptions
<1>11. DOMAIN coreMap = Keys(coreOptions)
  BY DEF OInv, Mapped
<1>12. ASSUME NEW key \in DOMAIN coreMap'
       PROVE  coreMap'[key] \in DOMAIN coreOptions' /\ IsFirst(coreOptions', key, coreMap'[key])
  <2>1. CASE key \in DOMAIN coreMap
    <3>1. coreMap[key] \in 1..n /\ IsFirst(coreOptions, key, coreMap[key])
      BY <1>1, <2>1 DEF OInv, Mapped
    <3>2. coreMap'[key] = coreMap[key]
      BY <1>10, <2>1
    <3> QED BY <1>1, <1>4, <1>6, <1>7, <3>1, <3>2 DEF IsFirst
  <2>2. CASE key \notin DOMAIN coreMap
    <3>1. key \in Keys(a)
      BY <1>10, <2>2
    <3>2. First(a, key) \in DOMAIN a /\ IsFirst(a, key, First(a, key))
      BY <3>1, FirstIs
    <3> DEFINE f == First(a, key)
    <3>3. coreMap'[key] = n + f
      BY <1>10, <2>2, <3>1
    <3>4. f \in 1..Len(a) /\ f \in Nat
      BY <1>4, <3>2
    <3>5. \A j \in 1..(f - 1) : j \in DOMAIN a /\ a[j].key # key
      BY <1>4, <3>2, <3>4 DEF IsFirst
    <3>6. \A j \in 1..n : coreOptions[j].key # key
      BY <1>1, <1>11, <2>2 DEF Keys
    <3>7. a[f].key = key
      BY <3>2 DEF IsFirst
    <3> HIDE DEF f
    <3>8. n + f \in DOMAIN coreOptions'
      BY <1>1, <1>4, <1>7, <3>4
    <3>9. coreOptions'[n + f].key = key
      BY <1>2, <1>4, <1>6, <3>4, <3>7
    <3>10. ASSUME NEW j \in 1..((n + f) - 1)
           PROVE  coreOptions'[j].key # key
      <4>1. CASE j \in 1..n
        BY <1>6, <3>6, <4>1
      <4>2. CASE j \notin 1..n
        <5>1. j - n \in 1..(f - 1) /\ j \in Nat
          BY <1>1, <3>4, <4>2
        <5>2. j - n \in DOMAIN a /\ a[j - n].key # key
          BY <3>5, <5>1
        <5>3. coreOptions'[n + (j - n)] = new[j - n]
          BY <1>6, <5>2
        <5>4. n + (j - n) = j
          BY <1>1, <5>1
        <5> QED BY <1>2, <5>2, <5>3, <5>4
      <4> QED BY <4>1, <4>2
    <3>11. IsFirst(coreOptions', key, n + f)
      BY <3>9, <3>10, FirstAt
    <3> QED BY <3>3, <3>8, <3>11
  <2> QED BY <2>1, <2>2
<1>13. Mapped'
  BY <1>9, <1>10, <1>11, <1>12 DEF Mapped
<1>14. Keys(a) \subseteq Key
  <2>1. ASSUME NEW i \in DOMAIN a PROVE a[i].key \in Key
    <3>1. a[i] \in Definition
      BY <1>4, ElementOfSeq
    <3> QED BY <3>1 DEF Definition
  <2> QED BY <2>1 DEF Keys
<1>15. OptionsTypeOK'
  <2>1. announced \in Seq(Definition) /\ announced' = announced \o a
    BY DEF OInv, OptionsTypeOK, SetCoreOptions
  <2>2. announced' \in Seq(Definition)
    BY <1>4, <2>1, Concatenated
  <2>3. UNCHANGED <<core, optionsUpdated, known, quiet, managed, missed>>
    BY DEF SetCoreOptions, viewVars
  <2> QED BY <1>6, <1>8, <1>10, <1>14, <2>2, <2>3 DEF OInv, OptionsTypeOK
<1>16. ASSUME NEW key \in DOMAIN coreMap PROVE Current(key)' = Current(key)
  <2>1. coreMap[key] \in 1..n /\ coreMap'[key] = coreMap[key]
    BY <1>1, <1>10 DEF OInv, Mapped
  <2> QED BY <1>6, <2>1 DEF Current
<1>17. Knowing'
  <2>1. UNCHANGED <<core, optionsUpdated, known, quiet>>
    BY DEF SetCoreOptions
  <2>2. \A key \in Key \ DOMAIN coreMap : known[key] = Unread
    BY DEF OInv, Knowing
  <2>3. \A key \in Key \ DOMAIN coreMap' : known'[key] = Unread
    BY <1>10, <2>1, <2>2
  <2>4. ASSUME core = "starting" \/ (core = "game" /\ ~optionsUpdated),
               NEW key \in DOMAIN coreMap' \ quiet, known[key] # Unread
        PROVE  known[key] = Current(key)'
    <3>1. key \in DOMAIN coreMap
      BY <1>10, <1>14, <2>2, <2>4
    <3> QED BY <1>16, <2>4, <3>1 DEF OInv, Knowing
  <2> QED BY <2>1, <2>3, <2>4 DEF Knowing
<1>18. Faithful'
  <2>1. announced \in Seq(Definition) /\ announced' = announced \o a /\ missed' = missed
    BY DEF OInv, OptionsTypeOK, SetCoreOptions, viewVars
  <2> SUFFICES ASSUME ~missed
               PROVE  /\ Len(announced') = Len(coreOptions')
                      /\ \A i \in DOMAIN coreOptions' :
                           /\ coreOptions'[i].key = announced'[i].key
                           /\ coreOptions'[i].values = announced'[i].values
    BY <2>1 DEF Faithful
  <2>2. /\ Len(announced) = n
        /\ \A i \in 1..n : /\ coreOptions[i].key = announced[i].key
                           /\ coreOptions[i].values = announced[i].values
    BY <1>1 DEF OInv, Faithful
  <2>3. /\ Len(announced') = n + Len(a)
        /\ \A i \in 1..n : announced'[i] = announced[i]
        /\ \A i \in DOMAIN a : announced'[n + i] = a[i]
    <3>1. Joined(announced, a, announced') /\ DOMAIN announced = 1..n
      BY <1>4, <2>1, <2>2, Concatenated, LenProperties
    <3> QED BY <2>2, <3>1 DEF Joined
  <2>4. ASSUME NEW i \in DOMAIN coreOptions'
        PROVE  /\ coreOptions'[i].key = announced'[i].key
               /\ coreOptions'[i].values = announced'[i].values
    <3>1. CASE i \in 1..n
      BY <1>6, <2>2, <2>3, <3>1
    <3>2. CASE i \notin 1..n
      <4>1. i - n \in DOMAIN a /\ coreOptions'[i] = new[i - n]
        BY <1>6, <3>2
      <4>2. announced'[n + (i - n)] = a[i - n]
        BY <2>3, <4>1
      <4>3. n + (i - n) = i
        BY <1>1, <1>7
      <4> QED BY <1>2, <4>1, <4>2, <4>3
    <3> QED BY <3>1, <3>2
  <2> QED BY <1>6, <2>3, <2>4
<1> QED BY <1>13, <1>15, <1>17, <1>18 DEF OInv

(* Neither before the first core nor after any of them.                    *)
Nothing ==
  /\ coreOptions = <<>> /\ DOMAIN coreMap = {} /\ core = "none"
  /\ known = [key \in Key |-> Unread] /\ quiet = {} /\ optionsUpdated = FALSE
  /\ announced = <<>> /\ managed \in BOOLEAN /\ missed \in BOOLEAN

LEMMA NothingIs == Nothing => OInv
<1> SUFFICES ASSUME Nothing PROVE OInv
  OBVIOUS
<1>1. /\ coreOptions \in Seq(Option) /\ DOMAIN coreOptions = {}
      /\ announced \in Seq(Definition) /\ Len(announced) = Len(coreOptions)
  BY EmptySeq DEF Nothing
<1>2. known \in [Key -> Value \union {Unread}]
  BY DEF Nothing
<1>3. OptionsTypeOK
  BY <1>1, <1>2 DEF Nothing, OptionsTypeOK
<1>4. Mapped
  BY <1>1 DEF Nothing, Mapped, Keys
<1>5. Knowing
  BY DEF Nothing, Knowing
<1>6. Faithful
  BY <1>1 DEF Faithful
<1> QED BY <1>3, <1>4, <1>5, <1>6 DEF OInv

LEMMA SetCoreOptionsDisplayInv ==
  ASSUME OInv, NEW q \in Key, NEW visible \in BOOLEAN, SetCoreOptionsDisplay(q, visible)
  PROVE  OInv'
<1> DEFINE o == [coreOptions[coreMap[q]] EXCEPT !.visible = visible]
<1>1. /\ q \in DOMAIN coreMap
      /\ coreOptions' = [coreOptions EXCEPT ![coreMap[q]] = o]
      /\ UNCHANGED <<core, coreMap, announced, optionsUpdated, known, quiet, managed, missed>>
  BY DEF SetCoreOptionsDisplay, viewVars
<1>2. /\ coreMap[q] \in DOMAIN coreOptions
      /\ coreOptions[coreMap[q]] \in Option
      /\ coreOptions[coreMap[q]].selected \in DOMAIN coreOptions[coreMap[q]].values
  BY <1>1, MapIs DEF OInv, OptionsTypeOK
<1>3. /\ o \in Option
      /\ o.key = coreOptions[coreMap[q]].key
      /\ o.values = coreOptions[coreMap[q]].values
      /\ o.selected = coreOptions[coreMap[q]].selected
  BY <1>2 DEF Option
<1> HIDE DEF o
<1>4. /\ coreOptions' \in Seq(Option)
      /\ \A j \in DOMAIN coreOptions' :
           coreOptions'[j].selected \in DOMAIN coreOptions'[j].values
      /\ Mapped' /\ Faithful'
      /\ \A key \in DOMAIN coreMap : coreMap[key] # coreMap[q] => Current(key)' = Current(key)
  BY <1>1, <1>2, <1>3, Changing
<1>5. ASSUME NEW key \in DOMAIN coreMap PROVE Current(key)' = Current(key)
  <2>1. CASE coreMap[key] = coreMap[q]
    <3>1. coreOptions \in Seq(Option)
      BY DEF OInv, OptionsTypeOK
    <3>2. coreOptions'[coreMap[q]] = o
      BY <1>1, <1>2, <3>1
    <3> QED BY <1>1, <1>3, <2>1, <3>2 DEF Current
  <2> QED BY <1>4, <2>1
<1>6. OptionsTypeOK'
  BY <1>1, <1>4 DEF OInv, OptionsTypeOK
<1>7. Knowing'
  BY <1>1, <1>5 DEF OInv, Knowing
<1> QED BY <1>4, <1>6, <1>7 DEF OInv

(* The steps that leave the options and the map alone.                     *)
LEMMA ReadingInv ==
  ASSUME OInv, UNCHANGED <<coreOptions, coreMap, announced, missed>>,
         OptionsTypeOK', Knowing'
  PROVE  OInv'
BY DEF OInv, Mapped, Faithful, Keys, IsFirst

LEMMA CurrentStays ==
  ASSUME UNCHANGED <<coreOptions, coreMap>>, NEW key
  PROVE  Current(key)' = Current(key)
BY DEF Current

LEMMA GetVariableInv ==
  ASSUME OInv, NEW q \in Key, GetVariable(q)
  PROVE  OInv'
<1>1. /\ q \in DOMAIN coreMap
      /\ known' = [known EXCEPT ![q] = Current(q)]
      /\ quiet' = quiet \ {q}
      /\ UNCHANGED <<core, coreOptions, coreMap, announced, optionsUpdated, managed, missed>>
  BY DEF GetVariable, tableVars, viewVars
<1>2. Current(q) \in Value
  BY <1>1, MapIs
<1>3. OptionsTypeOK'
  BY <1>1, <1>2 DEF OInv, OptionsTypeOK
<1>4. known \in [Key -> Value \union {Unread}] /\ DOMAIN coreMap \subseteq Key
  BY DEF OInv, OptionsTypeOK
<1>5. Knowing'
  <2>1. ASSUME NEW key \in Key \ DOMAIN coreMap' PROVE known'[key] = Unread
    BY <1>1, <1>4 DEF OInv, Knowing
  <2>2. ASSUME core = "starting" \/ (core = "game" /\ ~optionsUpdated),
               NEW key \in DOMAIN coreMap' \ quiet', known'[key] # Unread
        PROVE  known'[key] = Current(key)'
    <3>1. Current(key)' = Current(key) /\ key \in DOMAIN coreMap
      BY <1>1, CurrentStays
    <3>2. CASE key = q
      BY <1>1, <1>4, <3>1, <3>2
    <3>3. CASE key # q
      BY <1>1, <1>4, <2>2, <3>1, <3>3 DEF OInv, Knowing
    <3> QED BY <3>2, <3>3
  <2> QED BY <1>1, <2>1, <2>2 DEF Knowing
<1> QED BY <1>1, <1>3, <1>5, ReadingInv

(* Everything is read again.                                               *)
LEMMA AllReadInv ==
  ASSUME OInv, UNCHANGED <<coreOptions, coreMap, announced, managed, missed>>,
         known' = AllRead, quiet' = {}, optionsUpdated' \in BOOLEAN,
         core' \in {"starting", "game"}
  PROVE  OInv'
<1>1. OptionsTypeOK'
  BY AllReadIs DEF OInv, OptionsTypeOK
<1>2. Knowing'
  <2>1. \A key \in DOMAIN coreMap : Current(key)' = Current(key)
    BY CurrentStays
  <2> QED BY <2>1, AllReadIs DEF Knowing
<1> QED BY <1>1, <1>2, ReadingInv

LEMMA GetVariableUpdateInv ==
  ASSUME OInv, GetVariableUpdate
  PROVE  OInv'
<1>1. /\ core \in {"starting", "game"}
      /\ optionsUpdated' = FALSE
      /\ UNCHANGED <<core, coreOptions, coreMap, announced, managed, missed>>
  BY DEF GetVariableUpdate, tableVars, viewVars
<1>2. CASE optionsUpdated
  BY <1>1, <1>2, AllReadInv DEF GetVariableUpdate
<1>3. CASE ~optionsUpdated
  <2>1. UNCHANGED <<known, quiet>>
    BY <1>3 DEF GetVariableUpdate
  <2>2. OptionsTypeOK'
    BY <1>1, <2>1 DEF OInv, OptionsTypeOK
  <2>3. \A key \in DOMAIN coreMap : Current(key)' = Current(key)
    BY <1>1, CurrentStays
  <2>4. Knowing'
    BY <1>1, <1>3, <2>1, <2>3 DEF OInv, Knowing
  <2> QED BY <1>1, <2>2, <2>4, ReadingInv
<1> QED BY <1>2, <1>3

LEMMA LifeInv ==
  ASSUME OInv,
         \/ LoadCore \/ OnCoreLoaded \/ LoadGame \/ LoadGameFails \/ OnGameLoaded
         \/ OnGameUnloaded \/ OnCoreUnloaded \/ CloseView
  PROVE  OInv'
<1>1. CASE LoadGame
  <2>1. optionsUpdated' \in BOOLEAN
    BY <1>1 DEF LoadGame, OInv, OptionsTypeOK
  <2> QED BY <1>1, <2>1, AllReadInv DEF LoadGame, tableVars, viewVars
<1>2. CASE LoadCore \/ OnCoreLoaded \/ LoadGameFails \/ OnGameUnloaded
  <2>1. /\ UNCHANGED <<coreOptions, coreMap, announced, optionsUpdated, known, quiet,
                      managed, missed>>
        /\ core' \in {"loading", "core"}
    BY <1>2 DEF LoadCore, OnCoreLoaded, LoadGameFails, OnGameUnloaded, tableVars, viewVars
  <2>2. OptionsTypeOK'
    BY <2>1 DEF OInv, OptionsTypeOK
  <2>3. Knowing'
    BY <2>1 DEF OInv, Knowing
  <2> QED BY <2>1, <2>2, <2>3, ReadingInv
<1>3. CASE OnGameLoaded
  <2>1. /\ UNCHANGED <<coreOptions, coreMap, announced, known, quiet, managed, missed>>
        /\ core = "starting" /\ core' = "game"
        /\ optionsUpdated' = FALSE \/ optionsUpdated' = optionsUpdated
    BY <1>3 DEF OnGameLoaded, tableVars, viewVars
  <2>2. OptionsTypeOK'
    BY <2>1 DEF OInv, OptionsTypeOK
  <2>3. \A key \in DOMAIN coreMap : Current(key)' = Current(key)
    BY <2>1, CurrentStays
  <2>4. Knowing'
    BY <2>1, <2>3 DEF OInv, Knowing
  <2> QED BY <2>1, <2>2, <2>4, ReadingInv
<1>4. CASE CloseView
  <2>1. /\ UNCHANGED <<core, coreOptions, coreMap, announced, optionsUpdated, known, quiet,
                      missed>>
        /\ managed' = FALSE
    BY <1>4 DEF CloseView, tableVars
  <2>2. OptionsTypeOK'
    BY <2>1 DEF OInv, OptionsTypeOK
  <2>3. \A key \in DOMAIN coreMap : Current(key)' = Current(key)
    BY <2>1, CurrentStays
  <2>4. Knowing'
    BY <2>1, <2>3 DEF OInv, Knowing
  <2> QED BY <2>1, <2>2, <2>4, ReadingInv
<1>5. CASE OnCoreUnloaded
  <2>1. /\ core' = "none" /\ known' = [key \in Key |-> Unread] /\ quiet' = {}
        /\ announced' = <<>> /\ missed' = (missed \/ ~managed) /\ managed' = managed
    BY <1>5 DEF OnCoreUnloaded, CoreGoes, NoneRead
  <2>2. missed' \in BOOLEAN /\ managed' \in BOOLEAN
    BY <2>1 DEF OInv, OptionsTypeOK
  <2>3. CASE /\ coreOptions' = <<>> /\ coreMap' = [key \in {} |-> 0]
             /\ optionsUpdated' = FALSE
    <3>1. Nothing'
      BY <2>1, <2>2, <2>3 DEF Nothing
    <3>2. (Nothing => OInv)'
      BY NothingIs, PTL
    <3> QED BY <3>1, <3>2
  <2>4. CASE ~managed /\ UNCHANGED <<coreOptions, coreMap, optionsUpdated>>
    <3>1. <<>> \in Seq(Definition)
      BY EmptySeq
    <3>2. OptionsTypeOK'
      <4>1. known' \in [Key -> Value \union {Unread}]
        BY <2>1
      <4> QED BY <2>1, <2>2, <2>4, <3>1, <4>1 DEF OInv, OptionsTypeOK
    <3>3. Mapped'
      BY <2>4 DEF OInv, Mapped, Keys, IsFirst
    <3>4. Faithful'
      BY <2>1, <2>4 DEF Faithful
    <3>5. Knowing'
      BY <2>1 DEF Knowing
    <3> QED BY <3>2, <3>3, <3>4, <3>5 DEF OInv
  <2> QED BY <1>5, <2>3, <2>4 DEF OnCoreUnloaded
<1> QED BY <1>1, <1>2, <1>3, <1>4, <1>5

(* The user and the scripts.                                               *)
LEMMA SelectedIs ==
  ASSUME OInv, NEW i \in DOMAIN coreOptions, NEW s \in DOMAIN coreOptions[i].values,
         coreOptions' = [coreOptions EXCEPT ![i].selected = s],
         UNCHANGED <<core, coreMap, announced, missed>>
  PROVE  /\ coreOptions' \in Seq(Option)
         /\ \A j \in DOMAIN coreOptions' :
              coreOptions'[j].selected \in DOMAIN coreOptions'[j].values
         /\ Mapped' /\ Faithful'
         /\ \A key \in DOMAIN coreMap : coreMap[key] # i => Current(key)' = Current(key)
<1> DEFINE o == [coreOptions[i] EXCEPT !.selected = s]
<1>1. coreOptions[i] \in Option
  BY ElementOfSeq DEF OInv, OptionsTypeOK
<1>2. coreOptions[i].values \in Seq(Value)
  BY <1>1 DEF Option
<1>3. s \in Nat
  BY <1>2
<1>4. /\ o \in Option
      /\ o.key = coreOptions[i].key /\ o.values = coreOptions[i].values
      /\ o.selected \in DOMAIN o.values
  BY <1>1, <1>3 DEF Option
<1>5. coreOptions' = [coreOptions EXCEPT ![i] = o]
  OBVIOUS
<1> HIDE DEF o
<1> QED BY <1>4, <1>5, Changing

LEMMA ChooseValueInv ==
  ASSUME OInv, NEW i \in DOMAIN coreOptions, NEW s \in DOMAIN coreOptions[i].values,
         ChooseValue(i, s)
  PROVE  OInv'
<1>1. /\ core \notin {"starting"}
      /\ coreOptions' = [coreOptions EXCEPT ![i].selected = s]
      /\ optionsUpdated' = TRUE
      /\ UNCHANGED <<core, coreMap, announced, known, quiet, managed, missed>>
  BY DEF ChooseValue, UserActs, viewVars
<1>2. /\ coreOptions' \in Seq(Option)
      /\ \A j \in DOMAIN coreOptions' :
           coreOptions'[j].selected \in DOMAIN coreOptions'[j].values
      /\ Mapped' /\ Faithful'
  BY <1>1, SelectedIs
<1>3. OptionsTypeOK'
  BY <1>1, <1>2 DEF OInv, OptionsTypeOK
<1>4. Knowing'
  BY <1>1 DEF OInv, Knowing
<1> QED BY <1>2, <1>3, <1>4 DEF OInv

LEMMA LuaSetCoreOptionInv ==
  ASSUME OInv, NEW q \in Key, NEW chosen, LuaSetCoreOption(q, chosen)
  PROVE  OInv'
<1>1. /\ core # "starting"
      /\ q \in DOMAIN coreMap
      /\ quiet' = quiet \union {q}
      /\ UNCHANGED <<core, coreMap, announced, optionsUpdated, known, managed, missed>>
  BY DEF LuaSetCoreOption, UserActs, viewVars
<1>2. PICK s \in DOMAIN coreOptions[coreMap[q]].values :
        coreOptions' = [coreOptions EXCEPT ![coreMap[q]].selected = s]
  BY DEF LuaSetCoreOption, Selects
<1>3. coreMap[q] \in DOMAIN coreOptions
  BY <1>1, MapIs
<1>4. /\ coreOptions' \in Seq(Option)
      /\ \A j \in DOMAIN coreOptions' :
           coreOptions'[j].selected \in DOMAIN coreOptions'[j].values
      /\ Mapped' /\ Faithful'
      /\ \A key \in DOMAIN coreMap : coreMap[key] # coreMap[q] => Current(key)' = Current(key)
  BY <1>1, <1>2, <1>3, SelectedIs
<1>5. OptionsTypeOK'
  BY <1>1, <1>4 DEF OInv, OptionsTypeOK
<1>6. ASSUME NEW key \in DOMAIN coreMap, key # q PROVE coreMap[key] # coreMap[q]
  BY <1>1, <1>6, MapIs
<1>7. Knowing'
  BY <1>1, <1>4, <1>6 DEF OInv, Knowing
<1> QED BY <1>4, <1>5, <1>7 DEF OInv

LEMMA OptionsStutter ==
  ASSUME OInv, UNCHANGED optionsVars
  PROVE  OInv'
<1>1. UNCHANGED <<core, coreOptions, coreMap, announced, optionsUpdated, known, quiet,
                   managed, missed>>
  BY DEF optionsVars, tableVars, viewVars
<1>2. OptionsTypeOK'
  BY <1>1 DEF OInv, OptionsTypeOK
<1>3. \A key \in DOMAIN coreMap : Current(key)' = Current(key)
  BY <1>1, CurrentStays
<1>4. Knowing'
  BY <1>1, <1>3 DEF OInv, Knowing
<1> QED BY <1>1, <1>2, <1>4, ReadingInv

-----------------------------------------------------------------------------
(* The region's invariant.  A block starts at an offset from the region's  *)
(* base; blocks follow each other and end at the region's size.            *)
Start(i) == Minus(tables[i].base, _base)

Placed ==
  /\ Len(tables) = Len(_blocks)
  /\ _blocks = <<>> => _base = 0 /\ _size = 0
  /\ \A i \in 1..Len(tables) :
       /\ _blocks[i] = [data |-> tables[i].data, size |-> tables[i].size]
       /\ tables[i].base \in Address /\ tables[i].size \in Address \ {0}
       /\ Start(i) + tables[i].size <= _size
  /\ \A i, j \in 1..Len(tables) : i < j => Start(i) + tables[i].size <= Start(j)
  /\ \A i \in 1..Len(tables) : i < Len(tables) => Start(i) + tables[i].size = Start(i + 1)
  /\ Len(tables) > 0 => /\ Start(1) = 0
                        /\ Start(Len(tables)) + tables[Len(tables)].size = _size

(* What the loop has subtracted so far is where its block starts.          *)
Offset == Minus(address, _base)

Looking ==
  /\ phase \in {"none", "adding", "region"} => at = 1
  /\ phase = "loop" =>
       IF at <= Len(tables) THEN Start(at) <= Offset /\ rest = Offset - Start(at)
       ELSE _size <= Offset
  /\ phase = "loop" => Len(tables) > 0 /\ found = Null
  /\ phase \in {"region", "done"} => Len(tables) > 0
  /\ phase = "none" => Len(tables) = 0
  /\ phase = "done" =>
       \/ /\ at \in 1..Len(tables)
          /\ Start(at) <= Offset /\ Offset < Start(at) + tables[at].size
          /\ found = tables[at].data + (Offset - Start(at))
       \/ found = Null /\ _size <= Offset

MInv == MemoryTypeOK /\ Placed /\ Looking

LEMMA Constants ==
  /\ Word \in Nat /\ Word > 0
  /\ Null \notin Nat
  /\ Host \subseteq Nat
  /\ \A t \in Table : /\ t.base \in Int /\ t.size \in Int /\ t.data \in Host \union {Null}
                      /\ t.base < Word /\ t.size < Word
BY MemoryAssumption

LEMMA Words ==
  ASSUME NEW a \in Address, NEW b \in Address
  PROVE  Minus(a, b) \in Address /\ Plus(a, b) \in Address
BY Constants DEF Minus, Plus, Address

(* Where an address is in a table, and where in the region.                *)
LEMMA Shifted ==
  ASSUME NEW a \in Address, NEW b \in Address, NEW c \in Address
  PROVE  LET off == Minus(a, c)  start == Minus(b, c) IN
         Minus(a, b) = IF start <= off THEN off - start ELSE off - start + Word
BY Constants DEF Minus, Address

LEMMA AddressIs == Address \subseteq Nat
BY Constants DEF Address

LEMMA BlockIs ==
  ASSUME MInv, NEW i \in 1..Len(tables)
  PROVE  /\ tables[i].base \in Address /\ tables[i].size \in Address
         /\ Start(i) \in Address /\ Start(i) + tables[i].size <= _size
         /\ tables[i].size > 0
         /\ tables[i].data \in Nat
         /\ i \in DOMAIN _blocks
         /\ _blocks[i].size = tables[i].size /\ _blocks[i].data = tables[i].data
<1>1. /\ tables[i].base \in Address /\ tables[i].size \in Address \ {0}
      /\ Start(i) + tables[i].size <= _size
      /\ _blocks[i] = [data |-> tables[i].data, size |-> tables[i].size]
      /\ i \in 1..Len(_blocks) /\ _blocks \in Seq(Block) /\ _base \in Address
  BY DEF MInv, Placed, MemoryTypeOK
<1>2. Start(i) \in Address
  BY <1>1, Words DEF Start
<1>3. _blocks[i].data \in Host
  <2>1. _blocks[i] \in Block
    BY <1>1, ElementOfSeq
  <2> QED BY <2>1 DEF Block
<1>4. _blocks[i].size = tables[i].size /\ _blocks[i].data = tables[i].data
  BY <1>1
<1>5. tables[i].data \in Nat
  BY <1>3, <1>4, Constants
<1>6. i \in DOMAIN _blocks
  BY <1>1
<1>7. tables[i].size \in Nat /\ tables[i].size # 0
  BY <1>1, AddressIs
<1> QED BY <1>1, <1>2, <1>4, <1>5, <1>6, <1>7

LEMMA HasIs ==
  ASSUME MInv, NEW i \in 1..Len(tables)
  PROVE  /\ Has(tables[i], address) <=> (Start(i) <= Offset /\ Offset < Start(i) + tables[i].size)
         /\ Has(tables[i], address) => Minus(address, tables[i].base) = Offset - Start(i)
<1>1. /\ tables[i].base \in Address /\ tables[i].size \in Address
      /\ Start(i) + tables[i].size <= _size
      /\ address \in Address /\ _base \in Address /\ _size \in Address
  BY DEF MInv, Placed, MemoryTypeOK
<1>2. Start(i) \in Address /\ Offset \in Address
  BY <1>1, Words DEF Start, Offset
<1>3. Minus(address, tables[i].base)
        = IF Start(i) <= Offset THEN Offset - Start(i) ELSE Offset - Start(i) + Word
  BY <1>1, Shifted DEF Start, Offset
<1> QED BY <1>1, <1>2, <1>3, Constants DEF Has, Address

LEMMA ExactIs == MInv => AccessExact
<1> DEFINE BoundsAgree == found # Null <=> Minus(address, _base) < _size
<1> SUFFICES ASSUME MInv, phase = "done" PROVE ByteExact /\ BoundsAgree
  BY DEF AccessExact
<1>1. /\ tables \in Seq(Table) /\ Len(tables) \in Nat /\ DOMAIN tables = 1..Len(tables)
      /\ _size \in Address /\ address \in Address /\ _base \in Address
  BY DEF MInv, MemoryTypeOK
<1>2. Offset \in Address /\ Offset \in Int /\ _size \in Int
  BY <1>1, Words DEF Offset, Address
<1>3. CASE /\ at \in 1..Len(tables)
           /\ Start(at) <= Offset /\ Offset < Start(at) + tables[at].size
           /\ found = tables[at].data + (Offset - Start(at))
  <2>1. Has(tables[at], address) /\ Minus(address, tables[at].base) = Offset - Start(at)
    BY <1>3, HasIs
  <2>2. ByteExact
    BY <1>1, <1>3, <2>1 DEF ByteExact
  <2>3. /\ Start(at) \in Nat /\ tables[at].size \in Nat /\ tables[at].data \in Nat
        /\ Start(at) + tables[at].size <= _size
    BY <1>3, BlockIs, AddressIs
  <2>6. found \in Nat
    BY <1>2, <1>3, <2>3
  <2>7. Offset < _size
    BY <1>2, <1>3, <2>3
  <2>8. BoundsAgree
    BY <2>6, <2>7, Constants DEF Offset
  <2> QED BY <2>2, <2>8
<1>4. CASE found = Null /\ _size <= Offset
  <2>1. ASSUME NEW i \in 1..Len(tables) PROVE ~Has(tables[i], address)
    <3>1. /\ Start(i) \in Nat /\ tables[i].size \in Nat
          /\ Start(i) + tables[i].size <= _size
      BY BlockIs, AddressIs
    <3> QED BY <1>2, <1>4, <3>1, HasIs
  <2>2. ByteExact
    BY <1>1, <1>4, <2>1 DEF ByteExact
  <2>3. BoundsAgree
    BY <1>2, <1>4 DEF Offset
  <2> QED BY <2>2, <2>3
<1> QED BY <1>3, <1>4 DEF MInv, Looking

(* A block is added at the end of the region.                              *)
LEMMA BackAgain ==
  ASSUME NEW b \in Address, NEW s \in Address
  PROVE  Minus(Plus(b, s), b) = s /\ Minus(b, b) = 0
BY Constants DEF Minus, Plus, Address

LEMMA AddBlockInv ==
  ASSUME MInv, NEW t \in Table, AddBlock(t)
  PROVE  MInv'
<1>0. PICK n \in Nat : n = Len(tables)
  BY DEF MInv, MemoryTypeOK
<1>1. /\ phase = "adding" /\ phase' = phase
      /\ Valid(t) /\ Contiguous(t) /\ _size + t.size < Word
      /\ _base' = IF _blocks = <<>> THEN t.base ELSE _base
      /\ _size' = _size + t.size
      /\ _blocks' = Append(_blocks, [data |-> t.data, size |-> t.size])
      /\ tables' = Append(tables, t)
      /\ UNCHANGED <<address, rest, at, found>>
  BY DEF AddBlock, accessVars
<1>2. /\ _base \in Address /\ _size \in Address
      /\ _blocks \in Seq(Block) /\ tables \in Seq(Table)
      /\ n = Len(_blocks) /\ n \in Nat
  BY <1>0 DEF MInv, MemoryTypeOK, Placed
<1>3. /\ t.data \in Host /\ t.base \in Address /\ t.size \in Address /\ t.size > 0
      /\ t.size \in Nat
  BY <1>1, Constants DEF Valid, Address
<1>4. [data |-> t.data, size |-> t.size] \in Block
  BY <1>3 DEF Block
<1>5. /\ _blocks' \in Seq(Block) /\ Len(_blocks') = n + 1
      /\ \A i \in 1..n : _blocks'[i] = _blocks[i]
      /\ _blocks'[n + 1] = [data |-> t.data, size |-> t.size]
  BY <1>1, <1>2, <1>4, AppendProperties
<1>6. /\ tables' \in Seq(Table) /\ Len(tables') = n + 1
      /\ \A i \in 1..n : tables'[i] = tables[i]
      /\ tables'[n + 1] = t
  <2>1. tables' = Append(tables, t) /\ tables \in Seq(Table) /\ t \in Table
    BY <1>1, <1>2
  <2> QED BY <1>0, <2>1, AppendProperties
<1>7. _size' \in Address /\ _base' \in Address
  <2>1. _size \in Nat /\ _size + t.size \in Nat
    BY <1>2, <1>3, AddressIs
  <2> QED BY <1>1, <1>2, <1>3, <2>1, Constants DEF Address
<1>8. MemoryTypeOK'
  <2>1. at \in 1..(Len(_blocks) + 1) /\ address \in Address /\ rest \in Address
        /\ found \in Nat \union {Null}
        /\ phase \in {"none", "adding", "region", "loop", "done"}
    BY DEF MInv, MemoryTypeOK
  <2>2. at' \in 1..(Len(_blocks') + 1)
    BY <1>1, <1>2, <1>5, <2>1
  <2> QED BY <1>1, <1>5, <1>6, <1>7, <2>1, <2>2 DEF MemoryTypeOK
<1>9. /\ \A i \in 1..n : Start(i)' = Start(i)
      /\ Start(n + 1)' = _size
      /\ n = 0 => _size = 0
  <2>1. CASE n = 0
    <3>1. _blocks = <<>>
      BY <1>2, <2>1, EmptySeq
    <3>2. _size = 0 /\ _base' = t.base
      BY <1>0, <1>1, <3>1 DEF MInv, Placed
    <3>3. Start(n + 1)' = Minus(t.base, t.base)
      BY <1>6, <3>2 DEF Start
    <3> QED BY <1>3, <2>1, <3>2, <3>3, BackAgain
  <2>2. CASE n # 0
    <3>1. _blocks # <<>>
      BY <1>2, <2>2
    <3>2. _base' = _base /\ t.base = Plus(_base, _size)
      BY <1>1, <3>1 DEF Contiguous
    <3>3. \A i \in 1..n : Start(i)' = Start(i)
      BY <1>6, <3>2 DEF Start
    <3>4. Start(n + 1)' = Minus(t.base, _base)
      BY <1>6, <3>2 DEF Start
    <3> QED BY <1>2, <2>2, <3>2, <3>3, <3>4, BackAgain
  <2> QED BY <2>1, <2>2
<1>10. \A i \in 1..n : /\ Start(i) \in Nat /\ tables[i].size \in Nat
                       /\ Start(i) + tables[i].size <= _size
  BY <1>0, BlockIs, AddressIs
<1>11. \A i \in 1..(n + 1) : i \in 1..n \/ i = n + 1
  BY <1>2
<1>12. _size \in Nat
  BY <1>2, AddressIs
<1>13. ASSUME NEW i \in 1..(n + 1)
       PROVE  /\ _blocks'[i] = [data |-> tables'[i].data, size |-> tables'[i].size]
              /\ tables'[i].base \in Address /\ tables'[i].size \in Address \ {0}
              /\ Start(i)' + tables'[i].size <= _size'
  <2>1. CASE i \in 1..n
    <3>1. /\ _blocks[i] = [data |-> tables[i].data, size |-> tables[i].size]
          /\ tables[i].base \in Address /\ tables[i].size \in Address \ {0}
      BY <1>0, <2>1 DEF MInv, Placed
    <3>2. Start(i)' + tables'[i].size <= _size'
      BY <1>1, <1>3, <1>6, <1>9, <1>10, <1>12, <2>1
    <3> QED BY <1>5, <1>6, <2>1, <3>1, <3>2
  <2>2. CASE i = n + 1
    BY <1>1, <1>3, <1>5, <1>6, <1>9, <1>12, <2>2
  <2> QED BY <1>11, <2>1, <2>2
<1>14. ASSUME NEW i \in 1..(n + 1), NEW j \in 1..(n + 1), i < j
       PROVE  Start(i)' + tables'[i].size <= Start(j)'
  <2>1. i \in 1..n
    BY <1>2, <1>14
  <2>2. CASE j \in 1..n
    BY <1>0, <1>6, <1>9, <1>14, <2>1, <2>2 DEF MInv, Placed
  <2>3. CASE j = n + 1
    BY <1>6, <1>9, <1>10, <2>1, <2>3
  <2> QED BY <1>11, <2>2, <2>3
<1>15. ASSUME NEW i \in 1..(n + 1), i < n + 1
       PROVE  Start(i)' + tables'[i].size = Start(i + 1)'
  <2>1. i \in 1..n
    BY <1>2, <1>15
  <2>2. CASE i = n
    BY <1>0, <1>6, <1>9, <2>1, <2>2 DEF MInv, Placed
  <2>3. CASE i # n
    <3>1. i < n /\ i + 1 \in 1..n
      BY <1>2, <2>1, <2>3
    <3>2. Start(i) + tables[i].size = Start(i + 1)
      BY <1>0, <2>1, <3>1 DEF MInv, Placed
    <3> QED BY <1>6, <1>9, <2>1, <3>1, <3>2
  <2> QED BY <2>2, <2>3
<1>16. Start(1)' = 0
  <2>1. CASE n = 0
    BY <1>9, <2>1
  <2>2. CASE n # 0
    <3>1. n > 0 /\ 1 \in 1..n
      BY <1>2, <2>2
    <3>2. Start(1) = 0
      BY <1>0, <3>1 DEF MInv, Placed
    <3> QED BY <1>9, <3>1, <3>2
  <2> QED BY <2>1, <2>2
<1>17. Start(n + 1)' + tables'[n + 1].size = _size'
  BY <1>1, <1>6, <1>9
<1>18. _blocks' # <<>>
  BY <1>2, <1>5
<1>19. Placed'
  BY <1>5, <1>6, <1>13, <1>14, <1>15, <1>16, <1>17, <1>18 DEF Placed
<1>20. Looking'
  BY <1>1 DEF MInv, Looking
<1> QED BY <1>8, <1>19, <1>20 DEF MInv

LEMMA MemoryInitInv == MemoryInit => MInv
<1> SUFFICES ASSUME MemoryInit PROVE MInv
  OBVIOUS
<1>1. /\ _base = 0 /\ _size = 0 /\ _blocks = <<>> /\ tables = <<>> /\ phase = "none"
      /\ address = 0 /\ rest = 0 /\ at = 1 /\ found = Null
  BY DEF MemoryInit
<1>2. 0 \in Address
  BY Constants DEF Address
<1>3. <<>> \in Seq(Block) /\ <<>> \in Seq(Table) /\ Len(<<>>) = 0
  BY EmptySeq
<1>4. MemoryTypeOK
  BY <1>1, <1>2, <1>3 DEF MemoryTypeOK
<1>5. Placed
  BY <1>1, <1>3 DEF Placed
<1>6. Looking
  BY <1>1, <1>3 DEF Looking
<1> QED BY <1>4, <1>5, <1>6 DEF MInv

(* No region, whatever there was.                                          *)
LEMMA NoRegionInv ==
  ASSUME NoRegion, phase' = "none", 
         NoAccess \/ (UNCHANGED accessVars /\ MInv /\ phase = "adding")
  PROVE  MInv'
<1>1. _base' = 0 /\ _size' = 0 /\ _blocks' = <<>> /\ tables' = <<>> /\ phase' = "none"
  BY DEF NoRegion
<1>2. 0 \in Address
  BY Constants DEF Address
<1>3. <<>> \in Seq(Block) /\ <<>> \in Seq(Table) /\ Len(<<>>) = 0
  BY EmptySeq
<1>4. /\ address' \in Address /\ rest' \in Address
      /\ found' \in Nat \union {Null}
  BY <1>2 DEF NoAccess, accessVars, MInv, MemoryTypeOK
<1>5. at' = 1
  BY DEF NoAccess, accessVars, MInv, Looking
<1>6. MemoryTypeOK'
  BY <1>1, <1>2, <1>3, <1>4, <1>5 DEF MemoryTypeOK
<1>7. Placed'
  BY <1>1, <1>3 DEF Placed
<1>8. Looking'
  BY <1>1, <1>3, <1>5 DEF Looking
<1> QED BY <1>6, <1>7, <1>8 DEF MInv

(* The steps that leave the region alone.                                  *)
LEMMA RegionStays ==
  ASSUME MInv, UNCHANGED regionVars
  PROVE  /\ Placed'
         /\ _base' = _base /\ _size' = _size /\ _blocks' = _blocks /\ tables' = tables
         /\ \A i : Start(i)' = Start(i)
BY DEF MInv, Placed, Start, regionVars

LEMMA AccessingInv ==
  ASSUME MInv, \/ AddMemory \/ AddMemoryEnds \/ Miss \/ AccessEnds \/ UNCHANGED memoryVars
  PROVE  MInv'
<1>1. UNCHANGED regionVars
  BY DEF AddMemory, AddMemoryEnds, Miss, AccessEnds, memoryVars
<1>2. Len(tables) = Len(_blocks) /\ _blocks \in Seq(Block) /\ 0 \in Address
  BY Constants DEF MInv, Placed, MemoryTypeOK, Address
<1>3. CASE AddMemory \/ AddMemoryEnds \/ AccessEnds
  <2>1. \/ UNCHANGED accessVars /\ phase \in {"none", "adding"}
        \/ NoAccess
    BY <1>3 DEF AddMemory, AddMemoryEnds, AccessEnds
  <2>2. at' = 1 /\ address' \in Address /\ rest' \in Address /\ found' \in Nat \union {Null}
    BY <1>2, <2>1 DEF NoAccess, accessVars, MInv, MemoryTypeOK, Looking
  <2>3. /\ phase' \in {"adding", "region"}
        /\ phase' = "region" => Len(tables) > 0
    <3>1. _blocks # <<>> => Len(_blocks) > 0
      BY <1>2, EmptySeq
    <3>2. phase = "done" => Len(tables) > 0
      BY DEF MInv, Looking
    <3> QED BY <1>2, <1>3, <3>1, <3>2 DEF AddMemory, AddMemoryEnds, AccessEnds
  <2>4. MemoryTypeOK'
    BY <1>1, <1>2, <2>2, <2>3, RegionStays DEF MInv, MemoryTypeOK
  <2>5. Looking'
    BY <1>1, <2>2, <2>3, RegionStays DEF Looking
  <2> QED BY <1>1, <2>4, <2>5, RegionStays DEF MInv
<1>4. CASE Miss
  <2>1. phase = "loop" /\ at = Len(_blocks) + 1 /\ phase' = "done" /\ UNCHANGED accessVars
    BY <1>4 DEF Miss
  <2>2. MemoryTypeOK'
    BY <1>1, <2>1, RegionStays DEF MInv, MemoryTypeOK, accessVars
  <2>3. Offset' = Offset
    BY <1>1, <2>1, RegionStays DEF Offset, accessVars
  <2>4. Looking'
    BY <1>1, <1>2, <2>1, <2>3, RegionStays DEF MInv, Looking, accessVars
  <2> QED BY <1>1, <2>2, <2>4, RegionStays DEF MInv
<1>5. CASE UNCHANGED memoryVars
  <2>1. UNCHANGED accessVars /\ phase' = phase
    BY <1>5 DEF memoryVars
  <2>2. MemoryTypeOK'
    BY <1>1, <2>1, RegionStays DEF MInv, MemoryTypeOK, accessVars
  <2>3. Offset' = Offset /\ Start(at)' = Start(at)
    BY <1>1, <2>1, RegionStays DEF Offset, Start, accessVars
  <2>4. Looking'
    BY <1>1, <2>1, <2>3, RegionStays DEF MInv, Looking, accessVars
  <2> QED BY <1>1, <2>2, <2>4, RegionStays DEF MInv
<1> QED BY <1>3, <1>4, <1>5

LEMMA AccessInv ==
  ASSUME MInv, NEW a \in Address, Access(a)
  PROVE  MInv'
<1>1. /\ phase = "region" /\ phase' = "loop"
      /\ address' = a /\ rest' = Minus(a, _base) /\ at' = 1 /\ found' = Null
      /\ UNCHANGED regionVars
  BY DEF Access
<1>2. Len(tables) = Len(_blocks) /\ _blocks \in Seq(Block) /\ _base \in Address
  BY DEF MInv, Placed, MemoryTypeOK
<1>3. Minus(a, _base) \in Address /\ Minus(a, _base) \in Nat
  BY <1>2, Words, AddressIs
<1>4. MemoryTypeOK'
  BY <1>1, <1>2, <1>3, RegionStays DEF MInv, MemoryTypeOK
<1>5. Len(tables) > 0 /\ Start(1) = 0 /\ Len(tables) \in Nat
  BY <1>1, <1>2 DEF MInv, Placed, Looking
<1>6. Offset' = Minus(a, _base)
  BY <1>1, RegionStays DEF Offset
<1>7. Start(at)' = 0
  BY <1>1, <1>5, RegionStays DEF Start
<1>8. 1 <= Len(tables)
  BY <1>5
<1>9. Looking'
  BY <1>1, <1>3, <1>5, <1>6, <1>7, <1>8, RegionStays DEF Looking
<1> QED BY <1>1, <1>4, <1>9, RegionStays DEF MInv

(* The loop at a block.                                                    *)
LEMMA LoopIs ==
  ASSUME MInv, phase = "loop", at \in DOMAIN _blocks
  PROVE  /\ at \in 1..Len(tables) /\ Len(tables) \in Nat
         /\ Start(at) \in Nat /\ Offset \in Nat
         /\ Start(at) <= Offset /\ rest = Offset - Start(at)
         /\ _blocks[at].size = tables[at].size /\ _blocks[at].data = tables[at].data
         /\ tables[at].size \in Nat /\ tables[at].data \in Nat
<1>1. /\ at \in 1..Len(tables) /\ Len(tables) \in Nat
      /\ address \in Address /\ _base \in Address
  BY DEF MInv, Placed, MemoryTypeOK
<1>2. Start(at) <= Offset /\ rest = Offset - Start(at)
  BY <1>1 DEF MInv, Looking
<1>3. Offset \in Nat
  BY <1>1, Words, AddressIs DEF Offset
<1> QED BY <1>1, <1>2, <1>3, BlockIs, AddressIs

LEMMA HitInv ==
  ASSUME MInv, Hit
  PROVE  MInv'
<1>1. /\ phase = "loop" /\ phase' = "done" /\ at \in DOMAIN _blocks
      /\ rest < _blocks[at].size /\ found' = _blocks[at].data + rest
      /\ UNCHANGED regionVars /\ UNCHANGED <<address, rest, at>>
  BY DEF Hit
<1>2. /\ at \in 1..Len(tables) /\ Len(tables) \in Nat
      /\ Start(at) \in Nat /\ Offset \in Nat
      /\ Start(at) <= Offset /\ rest = Offset - Start(at)
      /\ _blocks[at].size = tables[at].size /\ _blocks[at].data = tables[at].data
      /\ tables[at].size \in Nat /\ tables[at].data \in Nat
  BY <1>1, LoopIs
<1>3. Offset < Start(at) + tables[at].size /\ rest \in Nat
  BY <1>1, <1>2
<1>4. found' \in Nat /\ found' = tables[at].data + (Offset - Start(at))
  BY <1>1, <1>2, <1>3
<1>5. MemoryTypeOK'
  BY <1>1, <1>4, RegionStays DEF MInv, MemoryTypeOK
<1>6. Offset' = Offset /\ Start(at)' = Start(at)
  BY <1>1, RegionStays DEF Offset, Start
<1>7. at \in 1..Len(tables) /\ Len(tables) > 0
  BY <1>2
<1>8. Looking'
  BY <1>1, <1>2, <1>3, <1>4, <1>6, <1>7, RegionStays DEF Looking
<1> QED BY <1>1, <1>5, <1>8, RegionStays DEF MInv

LEMMA NextBlockInv ==
  ASSUME MInv, NextBlock
  PROVE  MInv'
<1>1. /\ phase = "loop" /\ phase' = "loop" /\ at \in DOMAIN _blocks
      /\ rest >= _blocks[at].size /\ rest' = rest - _blocks[at].size /\ at' = at + 1
      /\ UNCHANGED regionVars /\ UNCHANGED <<address, found>>
  BY DEF NextBlock
<1>2. /\ at \in 1..Len(tables) /\ Len(tables) \in Nat
      /\ Start(at) \in Nat /\ Offset \in Nat
      /\ Start(at) <= Offset /\ rest = Offset - Start(at)
      /\ _blocks[at].size = tables[at].size /\ _blocks[at].data = tables[at].data
      /\ tables[at].size \in Nat /\ tables[at].data \in Nat
  BY <1>1, LoopIs
<1>3. rest' \in Address /\ at' \in 1..(Len(_blocks) + 1)
  <2>1. rest \in 0..(Word - 1) /\ Len(_blocks) = Len(tables)
    BY DEF MInv, MemoryTypeOK, Address, Placed
  <2>2. rest - tables[at].size >= 0 /\ rest - tables[at].size <= rest
    BY <1>1, <1>2
  <2>3. rest' \in 0..(Word - 1)
    BY <1>1, <1>2, <2>1, <2>2, Constants
  <2> QED BY <1>1, <1>2, <2>1, <2>3 DEF Address
<1>4. MemoryTypeOK'
  BY <1>1, <1>3, RegionStays DEF MInv, MemoryTypeOK
<1>5. Offset' = Offset /\ Start(at)' = Start(at + 1)
  BY <1>1, RegionStays DEF Offset, Start
<1>6. CASE at < Len(tables)
  <2>1. Start(at) + tables[at].size = Start(at + 1) /\ at + 1 <= Len(tables)
    BY <1>2, <1>6 DEF MInv, Placed
  <2>2. Start(at + 1) <= Offset /\ rest' = Offset - Start(at + 1)
    BY <1>1, <1>2, <2>1
  <2>3. Looking'
    BY <1>1, <1>2, <1>5, <2>1, <2>2, RegionStays DEF MInv, Looking
  <2> QED BY <1>1, <1>4, <2>3, RegionStays DEF MInv
<1>7. CASE at = Len(tables)
  <2>1. Start(at) + tables[at].size = _size
    BY <1>2, <1>7 DEF MInv, Placed
  <2>2. _size <= Offset /\ ~(at + 1 <= Len(tables))
    BY <1>1, <1>2, <1>7, <2>1
  <2>3. Looking'
    BY <1>1, <1>2, <1>5, <2>2, RegionStays DEF MInv, Looking
  <2> QED BY <1>1, <1>4, <2>3, RegionStays DEF MInv
<1> QED BY <1>2, <1>6, <1>7

LEMMA MemoryNextInv ==
  ASSUME MInv, MemoryNext
  PROVE  MInv'
<1>1. CASE AddMemory \/ AddMemoryEnds \/ Miss \/ AccessEnds
  BY <1>1, AccessingInv
<1>2. ASSUME NEW t \in Table, AddBlock(t) PROVE MInv'
  BY <1>2, AddBlockInv
<1>3. ASSUME NEW t \in Table, AddMemoryFails(t) PROVE MInv'
  BY <1>3, NoRegionInv DEF AddMemoryFails
<1>4. ASSUME NEW a \in Address, Access(a) PROVE MInv'
  BY <1>4, AccessInv
<1>5. CASE NextBlock
  BY <1>5, NextBlockInv
<1>6. CASE Hit
  BY <1>6, HitInv
<1> QED BY <1>1, <1>2, <1>3, <1>4, <1>5, <1>6 DEF MemoryNext

-----------------------------------------------------------------------------
Inv == OInv /\ MInv /\ selector \in BOOLEAN

LEMMA InitInv == Init => Inv
<1> SUFFICES ASSUME Init PROVE Inv
  OBVIOUS
<1>1. OInv
  BY NothingIs DEF Init, OptionsInit, Nothing, NoneRead
<1> QED BY <1>1, MemoryInitInv DEF Init, Inv

LEMMA NextInv == Inv /\ [Next]_vars => Inv'
<1> SUFFICES ASSUME Inv, [Next]_vars PROVE Inv'
  OBVIOUS
<1>1. OInv /\ MInv /\ selector \in BOOLEAN
  BY DEF Inv
<1>2. CASE GameEnds
  <2>1. OInv' /\ selector' = selector
    BY <1>1, <1>2, LifeInv DEF GameEnds
  <2>2. MInv'
    BY <1>1, <1>2, NoRegionInv, AccessingInv DEF GameEnds, RemoveMemory
  <2> QED BY <1>1, <2>1, <2>2 DEF Inv
<1>3. CASE CloseSelector
  BY <1>1, <1>3, OptionsStutter, AccessingInv DEF CloseSelector, Inv
<1>4. CASE UNCHANGED <<memoryVars, selector>> /\ OInv'
  BY <1>1, <1>4, AccessingInv DEF Inv
<1>5. CASE UNCHANGED vars
  BY <1>1, <1>5, OptionsStutter, AccessingInv DEF Inv, vars
<1>6. CASE UNCHANGED <<optionsVars, selector>> /\ MemoryNext
  BY <1>1, <1>6, OptionsStutter, MemoryNextInv DEF Inv
<1>7. ASSUME NEW a \in Announcement, SetCoreOptions(a), UNCHANGED <<memoryVars, selector>>
      PROVE  Inv'
  BY <1>1, <1>4, <1>7, SetCoreOptionsInv
<1>8. ASSUME NEW key \in Key, NEW visible \in BOOLEAN, SetCoreOptionsDisplay(key, visible),
             UNCHANGED <<memoryVars, selector>>
      PROVE  Inv'
  BY <1>1, <1>4, <1>8, SetCoreOptionsDisplayInv
<1>9. ASSUME NEW key \in Key, GetVariable(key), UNCHANGED <<memoryVars, selector>>
      PROVE  Inv'
  BY <1>1, <1>4, <1>9, GetVariableInv
<1>10. CASE GetVariableUpdate /\ UNCHANGED <<memoryVars, selector>>
  BY <1>1, <1>4, <1>10, GetVariableUpdateInv
<1>11. CASE /\ UNCHANGED <<memoryVars, selector>>
            /\ LoadCore \/ OnCoreLoaded \/ LoadGame \/ LoadGameFails \/ OnGameLoaded
                 \/ OnCoreUnloaded \/ CloseView
  BY <1>1, <1>4, <1>11, LifeInv
<1>12. ASSUME NEW i \in DOMAIN coreOptions, NEW s \in DOMAIN coreOptions[i].values,
              ChooseValue(i, s), UNCHANGED <<memoryVars, selector>>
       PROVE  Inv'
  BY <1>1, <1>4, <1>12, ChooseValueInv
<1>13. ASSUME NEW key \in Key, NEW chosen \in Value \union 0..MaxIndex,
              LuaSetCoreOption(key, chosen), UNCHANGED <<memoryVars, selector>>
       PROVE  Inv'
  BY <1>1, <1>4, <1>13, LuaSetCoreOptionInv
<1> QED BY <1>2, <1>3, <1>5, <1>6, <1>7, <1>8, <1>9, <1>10, <1>11, <1>12, <1>13 DEF Next

LEMMA SpecInv == Spec => []Inv
BY InitInv, NextInv, PTL DEF Spec

-----------------------------------------------------------------------------
(* Every index stays in its list and the loop of peek() in the region.     *)
THEOREM SpecTypeOK == Spec => []TypeOK
<1>1. Inv => TypeOK
  BY DEF Inv, OInv, MInv, TypeOK
<1> QED BY <1>1, SpecInv, PTL

(* A key leads to the first definition the current core announced of it,   *)
(* unless a core went while Config's window was closed; then still to an   *)
(* option that has it.                                                     *)
THEOREM SpecKeysFindOptions == Spec => []KeysFindOptions
<1>1. Inv => KeysFindOptions
  BY Finding DEF Inv
<1> QED BY <1>1, SpecInv, PTL

(* A game is played with the options' values, or is about to be told.      *)
THEOREM SpecInformed == Spec => []Informed
<1>1. Inv => Informed
  BY DEF Inv, OInv, Knowing, Informed
<1> QED BY <1>1, SpecInv, PTL

(* peek() and poke() find the byte that the script's tables say, for any   *)
(* number and sizes of blocks, around the end of the address space too,    *)
(* and the bounds that scripts are checked against are those of the blocks.*)
THEOREM SpecAccessExact == Spec => []AccessExact
<1>1. Inv => AccessExact
  BY ExactIs DEF Inv
<1> QED BY <1>1, SpecInv, PTL
=============================================================================
