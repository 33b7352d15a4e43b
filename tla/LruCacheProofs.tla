--------------------------- MODULE LruCacheProofs ---------------------------
(***************************************************************************)
(* That map and list of the cache agree, that what is cached is what was   *)
(* used last, and that a hit is current, for every set of keys and values  *)
(* and every capacity.                                                     *)
(***************************************************************************)
EXTENDS LruCache, TLAPS

-----------------------------------------------------------------------------
(* Sequences.                                                              *)

(* The smaller and the larger of two numbers. *)
LEMMA MinMax ==
  ASSUME NEW a \in Int, NEW b \in Int
  PROVE  /\ Min({a, b}) = IF a <= b THEN a ELSE b
         /\ Max({a, b}) = IF a <= b THEN b ELSE a
<1>1. \E x \in {a, b} : \A y \in {a, b} : x <= y
  OBVIOUS
<1>2. Min({a, b}) \in {a, b} /\ \A y \in {a, b} : Min({a, b}) <= y
  BY <1>1 DEF Min
<1>3. \E x \in {a, b} : \A y \in {a, b} : x >= y
  OBVIOUS
<1>4. Max({a, b}) \in {a, b} /\ \A y \in {a, b} : Max({a, b}) >= y
  BY <1>3 DEF Max
<1> QED
  BY <1>2, <1>4

(* One sequence after another. *)
LEMMA ConcatFacts ==
  ASSUME NEW S, NEW a \in Seq(S), NEW b \in Seq(S)
  PROVE  /\ a \o b \in Seq(S) /\ Len(a \o b) = Len(a) + Len(b)
         /\ \A i \in 1..Len(a) + Len(b) : (a \o b)[i] = IF i <= Len(a) THEN a[i] ELSE b[i - Len(a)]
<1>1. a \o b \in Seq(S)
  OBVIOUS
<1>2. Len(a \o b) = Len(a) + Len(b)
  OBVIOUS
<1> QED
  BY <1>1, <1>2

(* A sequence without the element at p. *)
LEMMA RemoveAtFacts ==
  ASSUME NEW S, NEW s \in Seq(S), NEW p \in 1..Len(s)
  PROVE  /\ RemoveAt(s, p) \in Seq(S) /\ Len(RemoveAt(s, p)) = Len(s) - 1
         /\ \A i \in 1..Len(s) - 1 : RemoveAt(s, p)[i] = IF i < p THEN s[i] ELSE s[i + 1]
<1> DEFINE a == SubSeq(s, 1, p - 1)
           b == SubSeq(s, p + 1, Len(s))
<1>1. a \in Seq(S) /\ Len(a) = p - 1 /\ \A i \in 1..p - 1 : a[i] = s[i]
  OBVIOUS
<1>2. b \in Seq(S) /\ Len(b) = Len(s) - p /\ \A i \in 1..Len(s) - p : b[i] = s[p + i]
  OBVIOUS
<1>3. RemoveAt(s, p) = a \o b
  BY DEF RemoveAt
<1> HIDE DEF a, b
<1>4. /\ a \o b \in Seq(S) /\ Len(a \o b) = Len(s) - 1
      /\ \A i \in 1..Len(s) - 1 : (a \o b)[i] = IF i <= p - 1 THEN a[i] ELSE b[i - (p - 1)]
  <2>1. Len(a) + Len(b) = Len(s) - 1
    BY <1>1, <1>2
  <2>2. /\ a \o b \in Seq(S) /\ Len(a \o b) = Len(a) + Len(b)
        /\ \A i \in 1..Len(a) + Len(b) : (a \o b)[i] = IF i <= Len(a) THEN a[i] ELSE b[i - Len(a)]
    BY <1>1, <1>2, ConcatFacts
  <2>3. Len(a) = p - 1
    BY <1>1
  <2> QED
    BY <2>1, <2>2, <2>3, Zenon
<1>5. ASSUME NEW i \in 1..Len(s) - 1 PROVE (a \o b)[i] = IF i < p THEN s[i] ELSE s[i + 1]
  <2>1. (a \o b)[i] = IF i <= p - 1 THEN a[i] ELSE b[i - (p - 1)]
    BY <1>4
  <2>2. CASE i < p
    <3>1. i \in 1..p - 1 /\ i <= p - 1
      BY <2>2
    <3> QED
      BY <1>1, <2>1, <2>2, <3>1, Zenon
  <2>3. CASE ~(i < p)
    <3>1. i - (p - 1) \in 1..Len(s) - p /\ ~(i <= p - 1) /\ p + (i - (p - 1)) = i + 1
      BY <2>3
    <3>2. b[i - (p - 1)] = s[p + (i - (p - 1))]
      BY <1>2, <3>1, Zenon
    <3> QED
      BY <2>1, <2>3, <3>1, <3>2, Zenon
  <2> QED
    BY <2>2, <2>3, Zenon
<1> QED
  BY <1>3, <1>4, <1>5

(* Sequence t is s with x in front. *)
Pushed(t, x, s) ==
  /\ Len(t) = Len(s) + 1 /\ t[1] = x
  /\ \A i \in 2..Len(s) + 1 : t[i] = s[i - 1]

LEMMA FrontFacts ==
  ASSUME NEW S, NEW s \in Seq(S), NEW x \in S
  PROVE  <<x>> \o s \in Seq(S) /\ Pushed(<<x>> \o s, x, s)
  BY DEF Pushed

(* A sequence cut after m elements. *)
LEMMA CutFacts ==
  ASSUME NEW S, NEW s \in Seq(S), NEW m \in 0..Len(s)
  PROVE  /\ SubSeq(s, 1, m) \in Seq(S) /\ Len(SubSeq(s, 1, m)) = m
         /\ \A i \in 1..m : SubSeq(s, 1, m)[i] = s[i]
  OBVIOUS

(* The one place of an element of a sequence without repetitions. *)
LEMMA RemoveFirstFacts ==
  ASSUME NEW S, NEW s \in Seq(S), NEW x,
         \A i, j \in 1..Len(s) : s[i] = s[j] => i = j
  PROVE  /\ \A p \in 1..Len(s) : s[p] = x => RemoveFirst(s, x) = RemoveAt(s, p)
         /\ (\A p \in 1..Len(s) : s[p] # x) => RemoveFirst(s, x) = s
<1>1. ASSUME NEW p \in 1..Len(s), s[p] = x PROVE RemoveFirst(s, x) = RemoveAt(s, p)
  <2>1. {i \in 1..Len(s) : s[i] = x} = {p}
    BY <1>1
  <2>2. Min({p}) = p
    BY DEF Min
  <2>3. SelectInSeq(s, LAMBDA v : v = x) = p
    BY <2>1, <2>2 DEF SelectInSeq
  <2> QED
    BY <1>1, <2>3 DEF RemoveFirst
<1>2. ASSUME \A p \in 1..Len(s) : s[p] # x PROVE RemoveFirst(s, x) = s
  BY <1>2 DEF RemoveFirst
<1> QED
  BY <1>1, <1>2

(* Sequence t is s with the element at p moved to the front, as x. *)
Moved(t, x, s, p) ==
  /\ Len(t) = Len(s) /\ t[1] = x
  /\ \A i \in 2..Len(s) : t[i] = IF i <= p THEN s[i - 1] ELSE s[i]

LEMMA MoveFacts ==
  ASSUME NEW S, NEW s \in Seq(S), NEW p \in 1..Len(s), NEW x \in S
  PROVE  <<x>> \o RemoveAt(s, p) \in Seq(S) /\ Moved(<<x>> \o RemoveAt(s, p), x, s, p)
<1> DEFINE r == RemoveAt(s, p)
           t == <<x>> \o r
<1>1. /\ r \in Seq(S) /\ Len(r) = Len(s) - 1
      /\ \A i \in 1..Len(s) - 1 : r[i] = IF i < p THEN s[i] ELSE s[i + 1]
  BY RemoveAtFacts
<1> HIDE DEF r
<1>2. t \in Seq(S) /\ Pushed(t, x, r)
  BY <1>1, FrontFacts
<1> HIDE DEF t
<1>3. ASSUME NEW i \in 2..Len(s) PROVE t[i] = IF i <= p THEN s[i - 1] ELSE s[i]
  <2>1. t[i] = r[i - 1] /\ i - 1 \in 1..Len(s) - 1
    BY <1>1, <1>2 DEF Pushed
  <2>2. r[i - 1] = IF i - 1 < p THEN s[i - 1] ELSE s[(i - 1) + 1]
    BY <1>1, <2>1
  <2>3. (i - 1) + 1 = i /\ (i - 1 < p <=> i <= p)
    OBVIOUS
  <2> QED
    BY <2>1, <2>2, <2>3, Zenon
<1>4. Moved(t, x, s, p)
  BY <1>1, <1>2, <1>3 DEF Moved, Pushed
<1> QED
  BY <1>2, <1>4 DEF t, r

-----------------------------------------------------------------------------
(* The inductive invariant.                                                *)

Item == [key : Keys, value : Values]

Distinct == \A i, j \in 1..Len(used) : used[i] = used[j] => i = j

(* The list is a beginning of the order of use, in which no key comes      *)
(* twice; that is what an eviction from its end relies on.                 *)
LInv ==
  /\ TypeOK /\ Distinct
  /\ items = KeysOf(order)
  /\ Len(order) <= Len(used) /\ Len(order) <= IF capacity <= 1 THEN 1 ELSE capacity
  /\ \A i \in 1..Len(order) : order[i].key = used[i] /\ order[i].value = latest[order[i].key]

(* The invariant implies what the run checks. *)
LEMMA LInvImplies == LInv => TypeOK /\ MapMatchesList /\ MostRecentlyUsed /\ HitsAreLatest
<1> SUFFICES ASSUME LInv PROVE TypeOK /\ MapMatchesList /\ MostRecentlyUsed /\ HitsAreLatest
  OBVIOUS
<1>1. DOMAIN order = 1..Len(order) /\ Len(order) \in Nat /\ Len(used) \in Nat /\ capacity \in Nat
  BY CapacitiesAssumption DEF LInv, TypeOK
<1>2. MapMatchesList
  <2>1. ASSUME NEW i \in 1..Len(order), NEW j \in 1..Len(order), order[i].key = order[j].key
        PROVE  i = j
    <3>1. i \in 1..Len(used) /\ j \in 1..Len(used) /\ used[i] = used[j]
      BY <1>1, <2>1 DEF LInv
    <3> QED
      BY <3>1 DEF LInv, Distinct
  <2> QED
    BY <1>1, <2>1 DEF MapMatchesList, LInv
<1>3. MostRecentlyUsed
  <2>1. Max({capacity, 1}) = IF capacity <= 1 THEN 1 ELSE capacity
    <3>1. capacity \in Int /\ 1 \in Int
      BY <1>1
    <3> QED
      BY <3>1, MinMax, Zenon
  <2>2. Max({capacity, 1}) \in Int
    BY <1>1, <2>1
  <2>3. Min({Len(used), Max({capacity, 1})}) =
          IF Len(used) <= Max({capacity, 1}) THEN Len(used) ELSE Max({capacity, 1})
    <3>1. Len(used) \in Int
      BY <1>1
    <3> QED
      BY <2>2, <3>1, MinMax, Zenon
  <2>4. Len(order) <= Min({Len(used), Max({capacity, 1})})
    BY <2>1, <2>3 DEF LInv
  <2> QED
    BY <1>1, <2>4 DEF MostRecentlyUsed, LInv
<1>4. HitsAreLatest
  BY <1>1 DEF HitsAreLatest, LInv
<1> QED
  BY <1>2, <1>3, <1>4 DEF LInv

(* What LInv says of the types, in the forms the steps need. *)
LEMMA LTypes ==
  ASSUME LInv
  PROVE  /\ order \in Seq(Item) /\ used \in Seq(Keys)
         /\ Len(order) \in Nat /\ Len(used) \in Nat /\ capacity \in Nat
         /\ DOMAIN order = 1..Len(order) /\ \A i \in 1..Len(order) : order[i] \in Item
         /\ items \subseteq Keys
<1>1. order \in Seq(Item) /\ used \in Seq(Keys) /\ items \subseteq Keys /\ capacity \in Nat
  BY CapacitiesAssumption DEF LInv, TypeOK, Item
<1> QED
  BY <1>1

(* A key in the map has one place, the same in the list and in the order   *)
(* of use.                                                                 *)
LEMMA PlaceFacts ==
  ASSUME LInv, NEW k \in items
  PROVE  /\ Place(k) \in 1..Len(order) /\ order[Place(k)].key = k
         /\ Place(k) \in 1..Len(used) /\ used[Place(k)] = k
<1>1. \E i \in DOMAIN order : order[i].key = k
  BY DEF LInv, KeysOf
<1>2. Place(k) \in DOMAIN order /\ order[Place(k)].key = k
  BY <1>1 DEF Place
<1> QED
  BY <1>2, LTypes DEF LInv

(* The order of use after a key is used. *)
LEMMA UsesFacts ==
  ASSUME used \in Seq(Keys), Distinct, NEW k \in Keys, Uses(k)
  PROVE  /\ used' \in Seq(Keys) /\ Distinct' /\ used'[1] = k /\ Len(used') >= Len(used) /\ Len(used') >= 1
         /\ \A p \in 1..Len(used) : used[p] = k =>
              /\ Len(used') = Len(used)
              /\ \A i \in 2..Len(used) : used'[i] = IF i <= p THEN used[i - 1] ELSE used[i]
         /\ (\A p \in 1..Len(used) : used[p] # k) =>
              /\ Len(used') = Len(used) + 1
              /\ \A i \in 2..Len(used) + 1 : used'[i] = used[i - 1]
<1>1. used' = <<k>> \o RemoveFirst(used, k)
  BY DEF Uses
<1>2. ASSUME NEW p \in 1..Len(used), used[p] = k
      PROVE  /\ used' \in Seq(Keys) /\ Len(used') = Len(used) /\ used'[1] = k /\ Distinct'
             /\ \A i \in 2..Len(used) : used'[i] = IF i <= p THEN used[i - 1] ELSE used[i]
  <2>1. RemoveFirst(used, k) = RemoveAt(used, p)
    BY <1>2, RemoveFirstFacts DEF Distinct
  <2>2. /\ used' \in Seq(Keys) /\ Len(used') = Len(used) /\ used'[1] = k
        /\ \A i \in 2..Len(used) : used'[i] = IF i <= p THEN used[i - 1] ELSE used[i]
    <3>1. used' \in Seq(Keys) /\ Moved(used', k, used, p)
      BY <1>1, <1>2, <2>1, MoveFacts
    <3> QED
      BY <3>1 DEF Moved
  <2>3. \A i \in 2..Len(used) : used'[i] # k
    <3> TAKE i \in 2..Len(used)
    <3>1. CASE i <= p
      <4>1. i - 1 \in 1..Len(used) /\ i - 1 # p
        BY <3>1
      <4> QED
        BY <1>2, <2>2, <3>1, <4>1 DEF Distinct
    <3>2. CASE ~(i <= p)
      <4>1. i \in 1..Len(used) /\ i # p
        BY <3>2
      <4> QED
        BY <1>2, <2>2, <3>2, <4>1 DEF Distinct
    <3> QED
      BY <3>1, <3>2
  <2>4. \A i, j \in 2..Len(used) : used'[i] = used'[j] => i = j
    <3> DEFINE from(i) == IF i <= p THEN i - 1 ELSE i
    <3>1. \A i \in 2..Len(used) : from(i) \in 1..Len(used) /\ used'[i] = used[from(i)]
      BY <2>2
    <3>2. \A i, j \in 2..Len(used) : from(i) = from(j) /\ from(i) # p /\ from(j) # p => i = j
      OBVIOUS
    <3>3. \A i \in 2..Len(used) : from(i) # p
      OBVIOUS
    <3> QED
      BY <3>1, <3>2, <3>3 DEF Distinct
  <2>5. \A i \in 1..Len(used') : i = 1 \/ i \in 2..Len(used)
    BY <2>2
  <2>6. Distinct'
    BY <2>2, <2>3, <2>4, <2>5 DEF Distinct
  <2> QED
    BY <2>2, <2>6
<1>3. ASSUME \A p \in 1..Len(used) : used[p] # k
      PROVE  /\ used' \in Seq(Keys) /\ Len(used') = Len(used) + 1 /\ used'[1] = k /\ Distinct'
             /\ \A i \in 2..Len(used) + 1 : used'[i] = used[i - 1]
  <2>1. RemoveFirst(used, k) = used
    BY <1>3, RemoveFirstFacts DEF Distinct
  <2>2. /\ used' \in Seq(Keys) /\ Len(used') = Len(used) + 1 /\ used'[1] = k
        /\ \A i \in 2..Len(used) + 1 : used'[i] = used[i - 1]
    <3>1. used' \in Seq(Keys) /\ Pushed(used', k, used)
      BY <1>1, <2>1, FrontFacts
    <3> QED
      BY <3>1 DEF Pushed
  <2>3. \A i \in 2..Len(used) + 1 : i - 1 \in 1..Len(used)
    OBVIOUS
  <2>4. \A i \in 1..Len(used') : i = 1 \/ i \in 2..Len(used) + 1
    BY <2>2
  <2>5. \A i, j \in 2..Len(used) + 1 : used'[i] = used'[j] => i = j
    <3> TAKE i, j \in 2..Len(used) + 1
    <3> HAVE used'[i] = used'[j]
    <3>1. i - 1 = j - 1
      BY <2>2, <2>3 DEF Distinct
    <3> QED
      BY <3>1
  <2>6. \A i \in 2..Len(used) + 1 : used'[i] # k
    BY <1>3, <2>2, <2>3
  <2> QED
    BY <2>2, <2>4, <2>5, <2>6 DEF Distinct
<1> QED
  BY <1>2, <1>3

-----------------------------------------------------------------------------
(* The steps.                                                              *)

(* What a step has to establish, with the types. *)
LEMMA LInvAfter ==
  ASSUME capacity' \in Capacities, order' \in Seq(Item), used' \in Seq(Keys),
         latest' \in [Keys -> Values \cup {Nothing}], Distinct', items' = KeysOf(order'),
         Len(order') <= Len(used'), Len(order') <= IF capacity' <= 1 THEN 1 ELSE capacity',
         \A i \in 1..Len(order') : order'[i].key = used'[i] /\ order'[i].value = latest'[order'[i].key]
  PROVE  LInv'
<1>1. items' \subseteq Keys
  BY DEF KeysOf, Item
<1> QED
  BY <1>1 DEF LInv, TypeOK, Item

(* A hit, or a Put of a key that is there: element and key move to the     *)
(* front together.                                                         *)
LEMMA Touch ==
  ASSUME LInv, NEW k \in items, NEW item \in Item, item.key = k, item.value = latest'[k],
         order' = ToFront(k, item), Uses(k), UNCHANGED <<capacity, items>>,
         latest' \in [Keys -> Values \cup {Nothing}],
         \A j \in Keys : j # k => latest'[j] = latest[j]
  PROVE  LInv'
<1> DEFINE p == Place(k)
<1>1. p \in 1..Len(order) /\ order[p].key = k /\ p \in 1..Len(used) /\ used[p] = k
  BY PlaceFacts
<1>2. /\ order \in Seq(Item) /\ used \in Seq(Keys) /\ Len(order) \in Nat /\ Len(used) \in Nat
      /\ k \in Keys /\ Distinct /\ \A i \in 1..Len(order) : order[i] \in Item
  BY LTypes DEF LInv
<1> HIDE DEF p
<1>3. order' \in Seq(Item) /\ Moved(order', item, order, p)
  BY <1>1, <1>2, MoveFacts DEF ToFront, p
<1>4. /\ Len(order') = Len(order) /\ order'[1] = item
      /\ \A i \in 2..Len(order) : order'[i] = IF i <= p THEN order[i - 1] ELSE order[i]
  BY <1>3 DEF Moved
<1>5. /\ used' \in Seq(Keys) /\ Distinct' /\ used'[1] = k /\ Len(used') = Len(used)
      /\ \A i \in 2..Len(used) : used'[i] = IF i <= p THEN used[i - 1] ELSE used[i]
  BY <1>1, <1>2, UsesFacts
<1>6. Len(order) <= Len(used)
  BY DEF LInv
<1>7. ASSUME NEW i \in 1..Len(order')
      PROVE  order'[i].key = used'[i] /\ order'[i].value = latest'[order'[i].key]
  <2>1. CASE i = 1
    BY <1>4, <1>5, <2>1
  <2>2. ASSUME i # 1, NEW h \in 1..Len(order), h # p, order'[i] = order[h], used'[i] = used[h]
        PROVE  order'[i].key = used'[i] /\ order'[i].value = latest'[order'[i].key]
    <3>1. order[h].key = used[h] /\ order[h].value = latest[order[h].key] /\ order[h].key \in Keys
      BY <1>2, <2>2 DEF LInv, Item
    <3>2. h \in 1..Len(used)
      BY <1>2, <1>6
    <3>3. order[h].key # k
      BY <1>1, <2>2, <3>1, <3>2 DEF LInv, Distinct
    <3> QED
      BY <2>2, <3>1, <3>3
  <2>3. CASE i # 1 /\ i <= p
    <3>1. i \in 2..Len(order) /\ i \in 2..Len(used) /\ i - 1 \in 1..Len(order) /\ i - 1 # p
      BY <1>1, <1>2, <1>4, <1>6, <2>3
    <3> QED
      BY <1>4, <1>5, <2>2, <2>3, <3>1
  <2>4. CASE i # 1 /\ ~(i <= p)
    <3>1. i \in 2..Len(order) /\ i \in 2..Len(used) /\ i \in 1..Len(order) /\ i # p
      BY <1>1, <1>2, <1>4, <1>6, <2>4
    <3> QED
      BY <1>4, <1>5, <2>2, <2>4, <3>1
  <2> QED
    BY <2>1, <2>3, <2>4
<1>8. items' = KeysOf(order')
  <2>1. DOMAIN order' = 1..Len(order) /\ DOMAIN order = 1..Len(order)
    BY <1>2, <1>3, <1>4
  <2>2. ASSUME NEW i \in 1..Len(order) PROVE \E h \in 1..Len(order) : order'[h].key = order[i].key
    <3>1. CASE i = p
      BY <1>1, <1>2, <1>4, <3>1
    <3>2. CASE i < p
      <4>1. i + 1 \in 2..Len(order) /\ i + 1 <= p /\ (i + 1) - 1 = i /\ i + 1 \in 1..Len(order)
        BY <1>1, <1>2, <3>2
      <4> QED
        BY <1>4, <4>1
    <3>3. CASE i > p
      <4>1. i \in 2..Len(order) /\ ~(i <= p)
        BY <1>1, <1>2, <3>3
      <4> QED
        BY <1>4, <4>1
    <3> QED
      BY <1>1, <1>2, <3>1, <3>2, <3>3
  <2>3. ASSUME NEW i \in 1..Len(order) PROVE \E h \in 1..Len(order) : order[h].key = order'[i].key
    <3>1. CASE i = 1
      BY <1>1, <1>4, <3>1
    <3>2. CASE i # 1
      <4>1. i \in 2..Len(order) /\ i - 1 \in 1..Len(order)
        BY <1>2, <3>2
      <4> QED
        BY <1>4, <4>1
    <3> QED
      BY <3>1, <3>2
  <2>4. KeysOf(order') = KeysOf(order)
    <3>1. \A x : x \in KeysOf(order') <=> \E i \in 1..Len(order) : x = order'[i].key
      BY <2>1 DEF KeysOf
    <3>2. \A x : x \in KeysOf(order) <=> \E i \in 1..Len(order) : x = order[i].key
      BY <2>1 DEF KeysOf
    <3>3. ASSUME NEW x \in KeysOf(order') PROVE x \in KeysOf(order)
      <4>1. PICK i \in 1..Len(order) : x = order'[i].key
        BY <3>1
      <4>2. PICK h \in 1..Len(order) : order[h].key = order'[i].key
        BY <2>3
      <4> QED
        BY <3>2, <4>1, <4>2, Zenon
    <3>4. ASSUME NEW x \in KeysOf(order) PROVE x \in KeysOf(order')
      <4>1. PICK i \in 1..Len(order) : x = order[i].key
        BY <3>2
      <4>2. PICK h \in 1..Len(order) : order'[h].key = order[i].key
        BY <2>2
      <4> QED
        BY <3>1, <4>1, <4>2, Zenon
    <3> QED
      BY <3>3, <3>4, Zenon
  <2> QED
    BY <2>4 DEF LInv
<1>9. Len(order') <= Len(used') /\ Len(order') <= IF capacity' <= 1 THEN 1 ELSE capacity'
  BY <1>4, <1>5 DEF LInv
<1>10. capacity' \in Capacities
  BY DEF LInv, TypeOK
<1> QED
  BY <1>3, <1>5, <1>7, <1>8, <1>9, <1>10, LInvAfter

(* Evictions from the back leave a beginning of the list. *)
LEMMA EvictedFacts ==
  ASSUME LInv, NEW n \in Nat
  PROVE  /\ Evicted(n) \in Seq(Item) /\ Len(Evicted(n)) \in Nat
         /\ Len(Evicted(n)) <= n /\ Len(Evicted(n)) <= Len(order)
         /\ \A i \in 1..Len(Evicted(n)) : Evicted(n)[i] = order[i]
         /\ KeysOf(Evicted(n)) \subseteq items
<1> DEFINE m == Min({n, Len(order)})
           s == Evicted(n)
<1>1. order \in Seq(Item) /\ Len(order) \in Nat /\ DOMAIN order = 1..Len(order)
  BY LTypes
<1>2. m = IF n <= Len(order) THEN n ELSE Len(order)
  <2>1. n \in Int /\ Len(order) \in Int
    BY <1>1
  <2> QED
    BY <2>1, MinMax, Zenon
<1> HIDE DEF m
<1>3. m \in 0..Len(order) /\ m <= n /\ m \in Nat
  <2>1. CASE n <= Len(order)
    <3>1. m = n
      BY <1>2, <2>1, Zenon
    <3> QED
      BY <1>1, <2>1, <3>1
  <2>2. CASE ~(n <= Len(order))
    <3>1. m = Len(order)
      BY <1>2, <2>2, Zenon
    <3> QED
      BY <1>1, <2>2, <3>1
  <2> QED
    BY <2>1, <2>2
<1>4. s = SubSeq(order, 1, m)
  BY DEF Evicted, m
<1>5. s \in Seq(Item) /\ Len(s) = m /\ \A i \in 1..m : s[i] = order[i]
  BY <1>1, <1>3, <1>4, CutFacts
<1> HIDE DEF s
<1>6. KeysOf(s) \subseteq KeysOf(order)
  <2>1. DOMAIN s = 1..m /\ \A i \in 1..m : i \in DOMAIN order
    BY <1>1, <1>3, <1>5
  <2> QED
    BY <1>5, <2>1 DEF KeysOf
<1> QED
  BY <1>3, <1>5, <1>6 DEF s, LInv

(* A Put of a key that is not there. *)
LEMMA InsertStep ==
  ASSUME LInv, NEW k \in Keys, NEW v \in Values, k \notin items, Insert(k, v), Uses(k),
         latest' = [latest EXCEPT ![k] = v], UNCHANGED capacity
  PROVE  LInv'
<1> DEFINE kept == Evicted(Room)
           item == [key |-> k, value |-> v]
<1>1. /\ order \in Seq(Item) /\ used \in Seq(Keys) /\ Len(order) \in Nat /\ Len(used) \in Nat
      /\ DOMAIN order = 1..Len(order) /\ Distinct /\ Len(order) <= Len(used) /\ capacity \in Nat
      /\ capacity \in Capacities /\ latest \in [Keys -> Values \cup {Nothing}] /\ items = KeysOf(order)
      /\ \A i \in 1..Len(order) : order[i] \in Item
  BY LTypes DEF LInv, TypeOK
<1>2. Room = IF capacity <= 1 THEN 0 ELSE capacity - 1
  <2>1. capacity - 1 \in Int /\ 0 \in Int
    BY <1>1
  <2>2. Room = IF capacity - 1 <= 0 THEN 0 ELSE capacity - 1
    BY <2>1, MinMax, Zenon DEF Room
  <2> QED
    BY <1>1, <2>2
<1>3. Room \in Nat
  BY <1>1, <1>2
<1>4. /\ kept \in Seq(Item) /\ Len(kept) \in Nat /\ Len(kept) <= Room /\ Len(kept) <= Len(order)
      /\ \A i \in 1..Len(kept) : kept[i] = order[i]
      /\ KeysOf(kept) \subseteq items
  BY <1>3, EvictedFacts
<1>5. item \in Item /\ item.key = k /\ item.value = v
  BY DEF Item
<1>6. /\ order' = <<item>> \o kept
      /\ items' = (items \ (KeysOf(order) \ KeysOf(kept))) \cup {k}
  BY DEF Insert
<1> HIDE DEF kept, item
<1>7. order' \in Seq(Item) /\ Pushed(order', item, kept)
  BY <1>4, <1>5, <1>6, FrontFacts
<1>8. /\ Len(order') = Len(kept) + 1 /\ order'[1] = item
      /\ \A i \in 2..Len(kept) + 1 : order'[i] = kept[i - 1]
  BY <1>7 DEF Pushed
<1>9. \A i \in 1..Len(order) : used[i] = order[i].key /\ used[i] # k /\ i \in 1..Len(used)
  <2> TAKE i \in 1..Len(order)
  <2>1. order[i].key = used[i] /\ i \in 1..Len(used)
    BY <1>1 DEF LInv
  <2>2. order[i].key \in items
    BY <1>1 DEF KeysOf
  <2> QED
    BY <2>1, <2>2
<1>10. /\ used' \in Seq(Keys) /\ Distinct' /\ used'[1] = k /\ Len(order') <= Len(used')
       /\ \A i \in 2..Len(kept) + 1 : used'[i] = used[i - 1]
  <2>1. CASE \E p \in 1..Len(used) : used[p] = k
    <3>1. PICK p \in 1..Len(used) : used[p] = k
      BY <2>1
    <3>2. /\ used' \in Seq(Keys) /\ Distinct' /\ used'[1] = k /\ Len(used') = Len(used)
          /\ \A i \in 2..Len(used) : used'[i] = IF i <= p THEN used[i - 1] ELSE used[i]
      BY <1>1, <3>1, UsesFacts
    <3>3. p > Len(order)
      BY <1>1, <1>9, <3>1
    <3>4. \A i \in 2..Len(kept) + 1 : i \in 2..Len(used) /\ i <= p
      BY <1>1, <1>4, <3>1, <3>3
    <3>5. Len(kept) + 1 <= Len(used)
      BY <1>1, <1>4, <3>1, <3>3
    <3> QED
      BY <1>8, <3>2, <3>4, <3>5
  <2>2. CASE \A p \in 1..Len(used) : used[p] # k
    <3>1. /\ used' \in Seq(Keys) /\ Distinct' /\ used'[1] = k /\ Len(used') = Len(used) + 1
          /\ \A i \in 2..Len(used) + 1 : used'[i] = used[i - 1]
      BY <1>1, <2>2, UsesFacts
    <3>2. Len(kept) + 1 <= Len(used) + 1 /\ \A i \in 2..Len(kept) + 1 : i \in 2..Len(used) + 1
      BY <1>1, <1>4
    <3> QED
      BY <1>8, <3>1, <3>2
  <2> QED
    BY <2>1, <2>2
<1>11. ASSUME NEW i \in 1..Len(order')
       PROVE  order'[i].key = used'[i] /\ order'[i].value = latest'[order'[i].key]
  <2>1. CASE i = 1
    BY <1>1, <1>5, <1>8, <1>10, <2>1
  <2>2. CASE i # 1
    <3> DEFINE h == i - 1
    <3>1. i \in 2..Len(kept) + 1 /\ h \in 1..Len(kept) /\ h \in 1..Len(order)
      BY <1>1, <1>4, <1>8, <2>2
    <3>2. order'[i] = order[h] /\ used'[i] = used[h]
      BY <1>4, <1>8, <1>10, <3>1
    <3> HIDE DEF h
    <3>3. order[h].key = used[h] /\ order[h].value = latest[order[h].key] /\ order[h].key \in Keys
      BY <1>1, <3>1 DEF LInv, Item
    <3>4. order[h].key # k
      BY <1>9, <3>1, <3>3
    <3> QED
      BY <1>1, <3>2, <3>3, <3>4
  <2> QED
    BY <2>1, <2>2
<1>12. items' = KeysOf(order')
  <2>1. DOMAIN order' = 1..Len(kept) + 1 /\ DOMAIN kept = 1..Len(kept)
    BY <1>4, <1>7, <1>8
  <2>2. \A i \in 1..Len(kept) : i + 1 \in 2..Len(kept) + 1 /\ i + 1 \in 1..Len(kept) + 1 /\ (i + 1) - 1 = i
    BY <1>4
  <2>3. \A i \in 1..Len(kept) + 1 : i = 1 \/ (i \in 2..Len(kept) + 1 /\ i - 1 \in 1..Len(kept))
    BY <1>4
  <2>4. items' = KeysOf(kept) \cup {k}
    BY <1>1, <1>4, <1>6
  <2>5. KeysOf(order') \subseteq KeysOf(kept) \cup {k}
    BY <1>5, <1>8, <2>1, <2>3 DEF KeysOf
  <2>6. k \in KeysOf(order')
    <3>1. 1 \in 1..Len(kept) + 1
      BY <1>4
    <3> QED
      BY <1>5, <1>8, <2>1, <3>1 DEF KeysOf
  <2>7. KeysOf(kept) \subseteq KeysOf(order')
    <3>1. ASSUME NEW i \in 1..Len(kept) PROVE kept[i].key \in KeysOf(order')
      <4>1. order'[i + 1] = kept[i] /\ i + 1 \in DOMAIN order'
        BY <1>8, <2>1, <2>2
      <4> QED
        BY <4>1 DEF KeysOf
    <3> QED
      BY <2>1, <3>1 DEF KeysOf
  <2> QED
    BY <2>4, <2>5, <2>6, <2>7
<1>13. Len(order') <= IF capacity' <= 1 THEN 1 ELSE capacity'
  BY <1>1, <1>2, <1>4, <1>8
<1>14. latest' \in [Keys -> Values \cup {Nothing}] /\ capacity' \in Capacities
  BY <1>1
<1> QED
  BY <1>7, <1>10, <1>11, <1>12, <1>13, <1>14, LInvAfter

(* Remove: element and key leave list, map and order of use together. *)
LEMMA DelistStep ==
  ASSUME LInv, NEW k \in Keys, Delist(k)
  PROVE  LInv'
<1> DEFINE p == Place(k)
           n == Len(order) - 1
           m == Len(used) - 1
<1>1. k \in items /\ items' = items \ {k} /\ UNCHANGED <<capacity, latest>>
  BY DEF Delist
<1>2. p \in 1..Len(order) /\ order[p].key = k /\ p \in 1..Len(used) /\ used[p] = k
  BY <1>1, PlaceFacts
<1>3. /\ order \in Seq(Item) /\ used \in Seq(Keys) /\ Len(order) \in Nat /\ Len(used) \in Nat
      /\ DOMAIN order = 1..Len(order) /\ Distinct /\ Len(order) <= Len(used) /\ capacity \in Nat
      /\ capacity \in Capacities /\ latest \in [Keys -> Values \cup {Nothing}] /\ items = KeysOf(order)
  BY LTypes DEF LInv, TypeOK
<1>4. order' = RemoveAt(order, p)
  BY DEF Delist
<1> HIDE DEF p
<1>5. used' = RemoveAt(used, p)
  <2>1. RemoveFirst(used, k) = RemoveAt(used, p)
    BY <1>2, <1>3, RemoveFirstFacts DEF Distinct
  <2> QED
    BY <2>1 DEF Delist
<1>6. /\ order' \in Seq(Item) /\ Len(order') = n
      /\ \A i \in 1..n : order'[i] = IF i < p THEN order[i] ELSE order[i + 1]
  BY <1>2, <1>3, <1>4, RemoveAtFacts
<1>7. /\ used' \in Seq(Keys) /\ Len(used') = m
      /\ \A i \in 1..m : used'[i] = IF i < p THEN used[i] ELSE used[i + 1]
  BY <1>2, <1>3, <1>5, RemoveAtFacts
<1> DEFINE from(i) == IF i < p THEN i ELSE i + 1
<1>8. /\ \A i \in 1..m : from(i) \in 1..Len(used) /\ from(i) # p /\ used'[i] = used[from(i)]
      /\ \A i \in 1..n : from(i) \in 1..Len(order) /\ order'[i] = order[from(i)] /\ i \in 1..m
      /\ \A i, j \in 1..m : from(i) = from(j) => i = j
  BY <1>2, <1>3, <1>6, <1>7
<1> HIDE DEF n, m, from
<1>9. Distinct'
  <2>1. ASSUME NEW i \in 1..m, NEW j \in 1..m, used'[i] = used'[j] PROVE i = j
    <3>1. from(i) = from(j)
      BY <1>3, <1>8, <2>1 DEF Distinct
    <3> QED
      BY <1>8, <3>1
  <2> QED
    BY <1>7, <2>1 DEF Distinct
<1>10. ASSUME NEW i \in 1..n
       PROVE  order'[i].key = used'[i] /\ order'[i].value = latest'[order'[i].key]
  BY <1>1, <1>8 DEF LInv
<1>11. \A i \in 1..Len(order) : i = p \/ \E h \in 1..n : from(h) = i
  <2> TAKE i \in 1..Len(order)
  <2>1. CASE i < p
    <3>1. i \in 1..n /\ from(i) = i
      BY <1>2, <1>3, <2>1 DEF n, from
    <3> QED
      BY <3>1
  <2>2. CASE i > p
    <3>1. i - 1 \in 1..n /\ from(i - 1) = i
      BY <1>2, <1>3, <2>2 DEF n, from
    <3> QED
      BY <3>1
  <2> QED
    BY <1>2, <1>3, <2>1, <2>2
<1>12. items' = KeysOf(order')
  <2>1. DOMAIN order' = 1..n
    BY <1>6
  <2>2. ASSUME NEW i \in 1..n PROVE order'[i].key \in items \ {k}
    <3>1. order'[i].key \in items
      BY <1>3, <1>8 DEF KeysOf
    <3>2. order'[i].key # k
      <4>1. i \in 1..m /\ order'[i].key = used'[i]
        BY <1>8, <1>10
      <4>2. from(i) \in 1..Len(used) /\ from(i) # p /\ used'[i] = used[from(i)]
        BY <1>8, <4>1
      <4>3. used[from(i)] # used[p]
        BY <1>2, <1>3, <4>2 DEF Distinct
      <4> QED
        BY <1>2, <4>1, <4>2, <4>3, Zenon
    <3> QED
      BY <3>1, <3>2
  <2>3. ASSUME NEW x \in items, x # k PROVE \E i \in 1..n : order'[i].key = x
    <3>1. PICK i \in 1..Len(order) : order[i].key = x
      BY <1>3 DEF KeysOf
    <3>2. PICK h \in 1..n : from(h) = i
      BY <1>2, <1>11, <2>3, <3>1
    <3> QED
      BY <1>8, <3>1, <3>2
  <2>4. \A x : x \in KeysOf(order') <=> \E i \in 1..n : order'[i].key = x
    BY <2>1, Zenon DEF KeysOf
  <2>5. \A x \in KeysOf(order') : x \in items \ {k}
    BY <2>2, <2>4, Zenon
  <2>6. \A x \in items \ {k} : x \in KeysOf(order')
    BY <2>3, <2>4
  <2> QED
    BY <1>1, <2>5, <2>6
<1>13. Len(order') <= Len(used') /\ Len(order') <= IF capacity' <= 1 THEN 1 ELSE capacity'
  BY <1>1, <1>3, <1>6, <1>7 DEF n, m, LInv
<1> QED
  BY <1>1, <1>3, <1>6, <1>7, <1>9, <1>10, <1>12, <1>13, LInvAfter

(* SetCapacity keeps a beginning of the list. *)
LEMMA CapacityStep ==
  ASSUME LInv, NEW c \in Capacities, SetCapacity(c)
  PROVE  LInv'
<1> DEFINE kept == Evicted(c)
<1>1. /\ used \in Seq(Keys) /\ Len(used) \in Nat /\ Len(order) \in Nat /\ Len(order) <= Len(used)
      /\ c \in Nat /\ items = KeysOf(order) /\ Distinct /\ latest \in [Keys -> Values \cup {Nothing}]
  BY LTypes, CapacitiesAssumption DEF LInv, TypeOK
<1>2. /\ kept \in Seq(Item) /\ Len(kept) \in Nat /\ Len(kept) <= c /\ Len(kept) <= Len(order)
      /\ \A i \in 1..Len(kept) : kept[i] = order[i]
      /\ KeysOf(kept) \subseteq items
  BY <1>1, EvictedFacts
<1>3. /\ capacity' = c /\ order' = kept /\ items' = items \ (KeysOf(order) \ KeysOf(kept))
      /\ UNCHANGED <<used, latest>>
  BY DEF SetCapacity
<1> HIDE DEF kept
<1>4. items' = KeysOf(order')
  BY <1>1, <1>2, <1>3
<1>5. \A i \in 1..Len(order') : order'[i].key = used'[i] /\ order'[i].value = latest'[order'[i].key]
  BY <1>1, <1>2, <1>3 DEF LInv
<1>6. Len(order') <= Len(used') /\ Len(order') <= IF capacity' <= 1 THEN 1 ELSE capacity'
  BY <1>1, <1>2, <1>3
<1>7. Distinct'
  BY <1>1, <1>3 DEF Distinct
<1> QED
  BY <1>1, <1>2, <1>3, <1>4, <1>5, <1>6, <1>7, LInvAfter

(* Every method keeps the invariant. *)
LEMMA LInvNext == LInv /\ [Next]_vars => LInv'
<1> SUFFICES ASSUME LInv, [Next]_vars PROVE LInv'
  OBVIOUS
<1>1. ASSUME NEW k \in Keys, Get(k) PROVE LInv'
  <2>1. /\ k \in items /\ order' = ToFront(k, Element(k)) /\ Uses(k)
        /\ UNCHANGED <<capacity, items>> /\ latest' = latest
    BY <1>1 DEF Get
  <2>2. Place(k) \in 1..Len(order) /\ order[Place(k)].key = k
    BY <2>1, PlaceFacts
  <2>3. Element(k) \in Item /\ Element(k).key = k /\ Element(k).value = latest[k]
    BY <2>2, LTypes DEF Element, LInv
  <2>4. latest \in [Keys -> Values \cup {Nothing}]
    BY DEF LInv, TypeOK
  <2> QED
    BY <2>1, <2>3, <2>4, Touch
<1>2. ASSUME NEW k \in Keys, NEW v \in Values, Put(k, v) PROVE LInv'
  <2>1. Uses(k) /\ latest' = [latest EXCEPT ![k] = v] /\ UNCHANGED capacity
    BY <1>2 DEF Put
  <2>2. CASE k \in items
    <3> DEFINE item == [key |-> k, value |-> v]
    <3>1. order' = ToFront(k, item) /\ UNCHANGED items
      BY <1>2, <2>2 DEF Put, Update
    <3>2. item \in Item /\ item.key = k /\ item.value = v
      BY DEF Item
    <3>3. /\ latest' \in [Keys -> Values \cup {Nothing}] /\ latest'[k] = v
          /\ \A j \in Keys : j # k => latest'[j] = latest[j]
      BY <2>1 DEF LInv, TypeOK
    <3> HIDE DEF item
    <3> QED
      BY <2>1, <2>2, <3>1, <3>2, <3>3, Touch
  <2>3. CASE k \notin items
    BY <1>2, <2>1, <2>3, InsertStep DEF Put
  <2> QED
    BY <2>2, <2>3
<1>3. ASSUME NEW k \in Keys, Delist(k) PROVE LInv'
  BY <1>3, DelistStep
<1>4. CASE Clear
  <2>1. order' = <<>> /\ used' = <<>> /\ items' = {} /\ UNCHANGED <<capacity, latest>>
    BY <1>4 DEF Clear
  <2>2. /\ order' \in Seq(Item) /\ used' \in Seq(Keys) /\ Len(order') = 0 /\ Len(used') = 0
        /\ KeysOf(order') = {}
    BY <2>1 DEF KeysOf
  <2>3. capacity' \in Capacities /\ capacity' \in Nat /\ latest' \in [Keys -> Values \cup {Nothing}]
    BY <2>1, LTypes DEF LInv, TypeOK
  <2>4. Distinct'
    BY <2>2 DEF Distinct
  <2> QED
    BY <2>1, <2>2, <2>3, <2>4, LInvAfter
<1>5. ASSUME NEW c \in Capacities, SetCapacity(c) PROVE LInv'
  BY <1>5, CapacityStep
<1>6. CASE UNCHANGED vars
  BY <1>6 DEF vars, LInv, TypeOK, Distinct, KeysOf
<1> QED
  BY <1>1, <1>2, <1>3, <1>4, <1>5, <1>6 DEF Next

(* A new cache is empty. *)
LEMMA LInvInit == Init => LInv
<1> SUFFICES ASSUME Init PROVE LInv
  OBVIOUS
<1>1. order = <<>> /\ used = <<>> /\ items = {} /\ capacity \in Nat /\ capacity \in Capacities
  BY CapacitiesAssumption DEF Init
<1>2. /\ order \in Seq([key : Keys, value : Values]) /\ used \in Seq(Keys)
      /\ Len(order) = 0 /\ Len(used) = 0 /\ KeysOf(order) = {}
  BY <1>1 DEF KeysOf
<1>3. latest \in [Keys -> Values \cup {Nothing}]
  BY DEF Init
<1> QED
  BY <1>1, <1>2, <1>3 DEF LInv, TypeOK, Distinct

-----------------------------------------------------------------------------
(* The theorems, for every set of keys and values and every capacity.      *)

(* TypeOK: an element never has a value that was not put, and the capacity *)
(* is always one that was asked for.                                       *)
THEOREM TypeCorrect == Spec => []TypeOK
  BY LInvInit, LInvNext, LInvImplies, PTL DEF Spec

(* MapMatchesList: no sequence of Get, Put, Remove, Clear and SetCapacity  *)
(* leaves a key in the map without its one element, or the other way round.*)
THEOREM MapCorrect == Spec => []MapMatchesList
  BY LInvInit, LInvNext, LInvImplies, PTL DEF Spec

(* MostRecentlyUsed: what the cache holds is a beginning of the order in   *)
(* which keys were used, so the evictions of Put and SetCapacity take the  *)
(* least recently used, and it holds no more than its capacity, or one.    *)
THEOREM RecencyCorrect == Spec => []MostRecentlyUsed
  BY LInvInit, LInvNext, LInvImplies, PTL DEF Spec

(* HitsAreLatest: a hit returns the value that was put last. *)
THEOREM HitsCorrect == Spec => []HitsAreLatest
  BY LInvInit, LInvNext, LInvImplies, PTL DEF Spec
=============================================================================
