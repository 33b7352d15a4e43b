------------------------------ MODULE LruCache ------------------------------
(***************************************************************************)
(* The cache of values (cache.go): a map from keys to elements of a list   *)
(* that is kept in order of use.  Every method holds the cache's own lock  *)
(* from beginning to end, so a method is one step.                         *)
(***************************************************************************)
EXTENDS Integers, Sequences, SequencesExt, FiniteSetsExt

CONSTANTS Keys, Values,
          Capacities,  \* the capacities given to newLRUCache and SetCapacity
          Nothing      \* the value of a key that was never put

ASSUME CapacitiesAssumption == Capacities \subseteq Nat
ASSUME NothingAssumption == Nothing \notin Values

VARIABLES
  capacity,
  items,   \* the keys of the map
  order,   \* the list, most recently used first
  used,    \* history: the keys ever put and not removed, last used first
  latest   \* history: what was last put under each key

vars == <<capacity, items, order, used, latest>>

-----------------------------------------------------------------------------
KeysOf(s) == {s[i].key : i \in DOMAIN s}

(* Where the list has the element that the map leads to. *)
Place(k) == CHOOSE i \in DOMAIN order : order[i].key = k

Element(k) == order[Place(k)]

(* MoveToFront of the element of k, with the value it has from then on. *)
ToFront(k, item) == <<item>> \o RemoveAt(order, Place(k))

(* k is the key that was used last. *)
Uses(k) == used' = <<k>> \o RemoveFirst(used, k)

(* Mutant: the elements that were used last are the ones to go. *)
Evicted_Newest(n) ==
  SubSeq(order, Len(order) - Min({n, Len(order)}) + 1, Len(order))

(* The list when evictOldest has left at most n elements. *)
Evicted(n) == SubSeq(order, 1, Min({n, Len(order)}))

-----------------------------------------------------------------------------
(* newLRUCache *)
Init ==
  /\ capacity \in Capacities
  /\ items = {} /\ order = <<>>
  /\ used = <<>> /\ latest = [k \in Keys |-> Nothing]

(* A hit moves the element to the front; a miss changes nothing. *)
Get(k) ==
  /\ k \in items
  /\ order' = ToFront(k, Element(k)) /\ Uses(k)
  /\ UNCHANGED <<capacity, items, latest>>

(* Mutant: the element moves and keeps its value. *)
Update_KeepsValue(k, v) == order' = ToFront(k, Element(k)) /\ UNCHANGED items

(* A key in the map gets the new value. *)
Update(k, v) == order' = ToFront(k, [key |-> k, value |-> v]) /\ UNCHANGED items

(* How many elements may stay when one is to be added. *)
Room == Max({capacity - 1, 0})

(* Another key is pushed to the front when there is room. *)
Insert(k, v) ==
  LET kept == Evicted(Room)
  IN  /\ order' = <<[key |-> k, value |-> v]>> \o kept
      /\ items' = (items \ (KeysOf(order) \ KeysOf(kept))) \cup {k}

Put(k, v) ==
  /\ IF k \in items THEN Update(k, v) ELSE Insert(k, v)
  /\ Uses(k) /\ latest' = [latest EXCEPT ![k] = v]
  /\ UNCHANGED capacity

(* Mutant: the key leaves the map and its element stays in the list. *)
Delist_MapOnly(k) ==
  /\ k \in items /\ items' = items \ {k} /\ used' = RemoveFirst(used, k)
  /\ UNCHANGED <<capacity, order, latest>>

(* lruCache.Remove *)
Delist(k) ==
  /\ k \in items
  /\ items' = items \ {k}
  /\ order' = RemoveAt(order, Place(k))
  /\ used' = RemoveFirst(used, k)
  /\ UNCHANGED <<capacity, latest>>

Clear ==
  /\ items' = {} /\ order' = <<>> /\ used' = <<>>
  /\ UNCHANGED <<capacity, latest>>

(* Mutant: one less than what was asked for. *)
SetCapacity_OffByOne(c) ==
  /\ capacity' = c - 1
  /\ order' = Evicted(c) /\ items' = items \ (KeysOf(order) \ KeysOf(Evicted(c)))
  /\ UNCHANGED <<used, latest>>

SetCapacity(c) ==
  /\ capacity' = c
  /\ order' = Evicted(c) /\ items' = items \ (KeysOf(order) \ KeysOf(Evicted(c)))
  /\ UNCHANGED <<used, latest>>

Next ==
  \/ \E k \in Keys : Get(k) \/ Delist(k)
  \/ \E k \in Keys, v \in Values : Put(k, v)
  \/ Clear
  \/ \E c \in Capacities : SetCapacity(c)

Spec == Init /\ [][Next]_vars

-----------------------------------------------------------------------------
(* Types. *)
TypeOK ==
  /\ capacity \in Capacities /\ items \subseteq Keys
  /\ order \in Seq([key : Keys, value : Values])
  /\ used \in Seq(Keys) /\ latest \in [Keys -> Values \cup {Nothing}]

(* Map and list agree: the map has a key exactly when the list has one     *)
(* element for it, so no key is cached twice and none is lost to both.     *)
MapMatchesList ==
  /\ items = KeysOf(order)
  /\ \A i, j \in DOMAIN order : order[i].key = order[j].key => i = j

(* What is cached is exactly the most recently used keys, in that order,   *)
(* among all that were put and not removed, and as many as the capacity    *)
(* allows: an eviction takes the oldest.  A capacity of 0 still lets the   *)
(* value in that was put last (Put tests the length before it adds).       *)
MostRecentlyUsed ==
  /\ Len(order) <= Min({Len(used), Max({capacity, 1})})
  /\ \A i \in DOMAIN order : order[i].key = used[i]

(* A hit returns the value of the last Put of that key. *)
HitsAreLatest == \A i \in DOMAIN order : order[i].value = latest[order[i].key]
=============================================================================
