--------------------------- MODULE KeyIndexProofs ---------------------------
(***************************************************************************)
(* That the secondary index and the cached key order are exact and have    *)
(* their types, for every set of keys, fields and values and every number  *)
(* of Puts.                                                                *)
(***************************************************************************)
EXTENDS KeyIndex, FiniteSetTheorems, TLAPS

(* The keys that have value v in field f when the entries are e. *)
Having(e, f, v) == {k \in Keys : e[k].offset # 0 /\ e[k].attributes[f] = v}

(* The value map that field f should have then. *)
Exact(e, f) ==
  LET live == {k \in Keys : e[k].offset # 0}
  IN  [v \in {e[k].attributes[f] : k \in live} \ {NoValue} |->
         {k \in live : e[k].attributes[f] = v}]

(* What an entry contributes: a key that is not there has no attributes. *)
EntriesOK ==
  /\ entries \in [Keys -> Entry]
  /\ \A k \in Keys : entries[k].offset = 0 => entries[k] = NoEntry

IInv == EntriesOK /\ puts \in Nat /\ SecondaryExact

(* It lists the values that some key has. *)
LEMMA ExactParts ==
  ASSUME NEW e, NEW f
  PROVE  /\ \A v : v \in DOMAIN Exact(e, f) <=> v # NoValue /\ Having(e, f, v) # {}
         /\ \A v \in DOMAIN Exact(e, f) : Exact(e, f)[v] = Having(e, f, v)
         /\ Exact(e, f) = [v \in DOMAIN Exact(e, f) |-> Exact(e, f)[v]]
  BY DEF Exact, Having

(* Taking a key out of an exact value map, as removeFromSecondary does,    *)
(* gives the map of the entries without that key.                          *)
LEMMA RemoveExact ==
  ASSUME EntriesOK, NEW k \in Keys, NEW f \in Indexed
  PROVE  Exact([entries EXCEPT ![k] = NoEntry], f) =
           IF entries[k].attributes[f] = NoValue
             THEN Exact(entries, f)
             ELSE Removed(Exact(entries, f), entries[k].attributes[f], k)
<1> DEFINE e == [entries EXCEPT ![k] = NoEntry]
           v == entries[k].attributes[f]
           old == Exact(entries, f)
           new == Exact(e, f)
<1>1. NoEntry.offset = 0 /\ NoEntry.attributes[f] = NoValue
  BY FieldsAssumption DEF NoEntry
<1>2. /\ \A j \in Keys : j # k => e[j] = entries[j]
      /\ e[k] = NoEntry
  BY DEF EntriesOK
<1>3. entries[k].offset = 0 => v = NoValue
  BY <1>1 DEF EntriesOK
<1> HIDE DEF e
<1>4. \A w : w # NoValue /\ w # v => Having(e, f, w) = Having(entries, f, w)
  BY <1>1, <1>2 DEF Having
<1>5. v # NoValue => k \in Having(entries, f, v) /\ Having(e, f, v) = Having(entries, f, v) \ {k}
  BY <1>1, <1>2, <1>3 DEF Having
<1>6. /\ \A w : w \in DOMAIN old <=> w # NoValue /\ Having(entries, f, w) # {}
      /\ \A w \in DOMAIN old : old[w] = Having(entries, f, w)
      /\ old = [w \in DOMAIN old |-> old[w]]
  BY ExactParts
<1>7. /\ \A w : w \in DOMAIN new <=> w # NoValue /\ Having(e, f, w) # {}
      /\ \A w \in DOMAIN new : new[w] = Having(e, f, w)
      /\ new = [w \in DOMAIN new |-> new[w]]
  BY ExactParts
<1> HIDE DEF new, old, v
<1>8. CASE v = NoValue
  <2>1. DOMAIN new = DOMAIN old
    BY <1>4, <1>6, <1>7, <1>8
  <2>2. \A w \in DOMAIN old : new[w] = old[w]
    BY <1>4, <1>6, <1>7, <1>8, <2>1
  <2>3. new = old
    BY <1>6, <1>7, <2>1, <2>2
  <2> QED
    BY <1>8, <2>3 DEF new, old, e, v
<1>9. CASE v # NoValue
  <2>1. v \in DOMAIN old
    BY <1>5, <1>6, <1>9
  <2>2. DOMAIN new = DOMAIN old \ (IF v \in DOMAIN old /\ old[v] \subseteq {k} THEN {v} ELSE {})
    <3>1. \A w : w # v => (w \in DOMAIN new <=> w \in DOMAIN old)
      BY <1>4, <1>6, <1>7
    <3>2. v \in DOMAIN new <=> ~(old[v] \subseteq {k})
      BY <1>5, <1>6, <1>7, <1>9, <2>1
    <3> QED
      BY <2>1, <3>1, <3>2
  <2>3. \A w \in DOMAIN new : new[w] = IF w = v THEN old[w] \ {k} ELSE old[w]
    BY <1>4, <1>5, <1>6, <1>7, <1>9, <2>2
  <2>4. new = Removed(old, v, k)
    BY <1>7, <2>2, <2>3 DEF Removed
  <2> QED
    BY <1>9, <2>4 DEF new, old, e, v
<1> QED
  BY <1>8, <1>9

(* Adding an absent key to an exact value map, as addToSecondary does. *)
LEMMA AddExact ==
  ASSUME NEW e \in [Keys -> Entry], NEW k \in Keys, NEW f \in Indexed, NEW entry \in Entry,
         e[k] = NoEntry, entry.offset # 0
  PROVE  Exact([e EXCEPT ![k] = entry], f) =
           IF entry.attributes[f] = NoValue
             THEN Exact(e, f)
             ELSE Added(Exact(e, f), entry.attributes[f], k)
<1> DEFINE a == [e EXCEPT ![k] = entry]
           v == entry.attributes[f]
           old == Exact(e, f)
           new == Exact(a, f)
<1>1. NoEntry.offset = 0
  BY DEF NoEntry
<1>2. /\ \A j \in Keys : j # k => a[j] = e[j]
      /\ a[k] = entry
  OBVIOUS
<1> HIDE DEF a
<1>3. \A w : w # v => Having(a, f, w) = Having(e, f, w)
  BY <1>1, <1>2 DEF Having
<1>4. Having(a, f, v) = Having(e, f, v) \cup {k}
  BY <1>1, <1>2 DEF Having
<1>5. /\ \A w : w \in DOMAIN old <=> w # NoValue /\ Having(e, f, w) # {}
      /\ \A w \in DOMAIN old : old[w] = Having(e, f, w)
      /\ old = [w \in DOMAIN old |-> old[w]]
  BY ExactParts
<1>6. /\ \A w : w \in DOMAIN new <=> w # NoValue /\ Having(a, f, w) # {}
      /\ \A w \in DOMAIN new : new[w] = Having(a, f, w)
      /\ new = [w \in DOMAIN new |-> new[w]]
  BY ExactParts
<1> HIDE DEF new, old, v
<1>7. CASE v = NoValue
  <2>1. DOMAIN new = DOMAIN old
    BY <1>3, <1>5, <1>6, <1>7
  <2>2. \A w \in DOMAIN old : new[w] = old[w]
    BY <1>3, <1>5, <1>6, <1>7, <2>1
  <2>3. new = old
    BY <1>5, <1>6, <2>1, <2>2
  <2> QED
    BY <1>7, <2>3 DEF new, old, a, v
<1>8. CASE v # NoValue
  <2>1. DOMAIN new = DOMAIN old \cup {v}
    <3>1. \A w : w # v => (w \in DOMAIN new <=> w \in DOMAIN old)
      BY <1>3, <1>5, <1>6
    <3>2. v \in DOMAIN new
      BY <1>4, <1>6, <1>8
    <3> QED
      BY <3>1, <3>2
  <2>2. \A w \in DOMAIN new :
          new[w] = (IF w \in DOMAIN old THEN old[w] ELSE {}) \cup (IF w = v THEN {k} ELSE {})
    BY <1>3, <1>4, <1>5, <1>6, <2>1
  <2>3. new = Added(old, v, k)
    BY <1>6, <2>1, <2>2 DEF Added
  <2> QED
    BY <1>8, <2>3 DEF new, old, a, v
<1> QED
  BY <1>7, <1>8

(* Put and Delete keep the secondary index exact. *)
LEMMA SecondaryNext == IInv /\ [Next]_vars => IInv'
<1> SUFFICES ASSUME IInv, [Next]_vars PROVE IInv'
  OBVIOUS
<1>1. \A f \in Indexed : byAttribute[f] = Exact(entries, f)
  BY DEF IInv, SecondaryExact, Exact, Live
<1>2. NoEntry \in Entry /\ NoEntry.offset = 0
  BY DEF NoEntry, Entry, Attributes
<1>3. ASSUME \A f \in Indexed : byAttribute'[f] = Exact(entries', f)
      PROVE  SecondaryExact'
  BY <1>3 DEF SecondaryExact, Exact, Live
<1>4. ASSUME NEW k \in Keys, Delete(k) PROVE IInv'
  <2>1. EntriesOK'
    BY <1>2, <1>4 DEF Delete, IInv, EntriesOK
  <2>2. \A f \in Indexed : byAttribute'[f] = Exact(entries', f)
    BY <1>1, <1>4, RemoveExact DEF Delete, removeFromSecondary, IInv
  <2> QED
    BY <1>3, <1>4, <2>1, <2>2 DEF IInv, Delete
<1>5. ASSUME NEW k \in Keys, NEW a \in Attributes, Put(k, a) PROVE IInv'
  <2> DEFINE entry == [offset |-> puts + 1, attributes |-> a]
             e == [entries EXCEPT ![k] = NoEntry]
  <2>1. entry \in Entry /\ entry.offset # 0 /\ entry.attributes = a
    BY DEF IInv, Entry
  <2>2. e \in [Keys -> Entry] /\ e[k] = NoEntry /\ [e EXCEPT ![k] = entry] = [entries EXCEPT ![k] = entry]
    BY <1>2 DEF IInv, EntriesOK
  <2>3. entries' = [entries EXCEPT ![k] = entry] /\ puts' \in Nat
    BY <1>5 DEF Put, IInv
  <2> HIDE DEF entry, e
  <2>4. EntriesOK'
    BY <2>1, <2>3 DEF IInv, EntriesOK
  <2>5. ASSUME NEW f \in Indexed PROVE byAttribute'[f] = Exact(entries', f)
    <3> DEFINE mid == removeFromSecondary(byAttribute, k, entries[k].attributes)
    <3>1. mid[f] = Exact(e, f)
      BY <1>1, RemoveExact DEF removeFromSecondary, IInv, e
    <3>2. byAttribute' = addToSecondary(mid, k, a)
      BY <1>5 DEF Put
    <3> HIDE DEF mid
    <3>3. byAttribute'[f] = IF a[f] = NoValue THEN mid[f] ELSE Added(mid[f], a[f], k)
      BY <3>2 DEF addToSecondary
    <3>4. Exact(entries', f) = IF a[f] = NoValue THEN Exact(e, f) ELSE Added(Exact(e, f), a[f], k)
      <4>1. Exact([e EXCEPT ![k] = entry], f) =
              IF entry.attributes[f] = NoValue THEN Exact(e, f)
              ELSE Added(Exact(e, f), entry.attributes[f], k)
        BY <2>1, <2>2, AddExact
      <4> QED
        BY <2>1, <2>2, <2>3, <4>1, Zenon
    <3> QED
      BY <3>1, <3>3, <3>4
  <2> QED
    BY <1>3, <2>3, <2>4, <2>5 DEF IInv
<1>6. CASE KeysSortedByOffset \/ UNCHANGED vars
  BY <1>6 DEF KeysSortedByOffset, vars, IInv, EntriesOK, SecondaryExact, Live
<1> QED
  BY <1>4, <1>5, <1>6 DEF Next

(* KeysBy, CountBy and AttributeValues answer exactly, after any sequence  *)
(* of Puts that overwrite, Deletes and scans (index.go, addToSecondary and *)
(* removeFromSecondary).                                                   *)
THEOREM SecondaryCorrect == Spec => []SecondaryExact
<1>1. Init => IInv
  <2> SUFFICES ASSUME Init PROVE IInv
    OBVIOUS
  <2>1. EntriesOK /\ Live = {}
    BY DEF Init, EntriesOK, NoEntry, Entry, Attributes, Live
  <2>2. SecondaryExact
    BY <2>1 DEF Init, SecondaryExact
  <2> QED
    BY <2>1, <2>2 DEF IInv, Init
<1>2. IInv => SecondaryExact
  BY DEF IInv
<1> QED
  BY <1>1, <1>2, SecondaryNext, PTL DEF Spec

(* The list that KeysSortedByOffset serves from its cache is the one it    *)
(* would compute: no Put or Delete slips in between (index.go:90).         *)
THEOREM SortedCorrect == Spec => []SortedFresh
<1>1. Init => SortedFresh
  <2> SUFFICES ASSUME Init PROVE sortedKeys \in SortedByOffset(Live)
    BY DEF SortedFresh
  <2>1. Live = {}
    BY DEF Init, Live, NoEntry
  <2>2. Cardinality(Live) = 0
    BY <2>1, FS_EmptySet
  <2> QED
    BY <2>1, <2>2 DEF Init, SortedByOffset
<1>2. SortedFresh /\ [Next]_vars => SortedFresh'
  <2> SUFFICES ASSUME SortedFresh, [Next]_vars PROVE SortedFresh'
    OBVIOUS
  <2>1. CASE UNCHANGED <<entries, sortedKeys, sortedDirty>>
    BY <2>1 DEF SortedFresh, Fresh, SortedByOffset, Live
  <2>2. CASE /\ sortedKeys' \in SortedByOffset(Live) /\ UNCHANGED entries
    BY <2>2 DEF SortedFresh, SortedByOffset, Live
  <2>3. CASE sortedDirty' = TRUE
    BY <2>3 DEF SortedFresh, Fresh
  <2> QED
    BY <2>1, <2>2, <2>3 DEF Next, Put, Delete, KeysSortedByOffset, vars
<1> QED
  BY <1>1, <1>2, PTL DEF Spec

-----------------------------------------------------------------------------
(* Types.                                                                  *)

(* What the types rest on: there are only finitely many live keys, so the  *)
(* sorted list is a sequence; the value maps have their types because they *)
(* are exact.                                                              *)
TInv ==
  /\ IInv /\ IsFiniteSet(Live)
  /\ DOMAIN byAttribute = Indexed
  /\ sortedKeys \in Seq(Keys) /\ sortedDirty \in BOOLEAN
  /\ puts \in 0..MaxPuts

(* The sorted list of finitely many keys is a sequence of them. *)
LEMMA SortedType ==
  ASSUME NEW S \in SUBSET Keys, IsFiniteSet(S), NEW s \in SortedByOffset(S)
  PROVE  s \in Seq(Keys)
<1>1. Cardinality(S) \in Nat
  BY FS_CardinalityType
<1>2. s \in [1..Cardinality(S) -> Keys]
  BY DEF SortedByOffset
<1> QED
  BY <1>1, <1>2

(* Put makes at most one more key live, Delete none. *)
LEMMA TypeNext == TInv /\ [Next]_vars => TInv'
<1> SUFFICES ASSUME TInv, [Next]_vars PROVE TInv'
  OBVIOUS
<1>1. IInv' /\ IsFiniteSet(Live) /\ EntriesOK /\ Live \subseteq Keys
  BY SecondaryNext DEF TInv, IInv, Live
<1>2. ASSUME NEW k \in Keys, NEW a \in Attributes, Put(k, a) PROVE TInv'
  <2>1. Live' \subseteq Live \cup {k}
    BY <1>1, <1>2 DEF Put, Live, EntriesOK
  <2>2. IsFiniteSet(Live')
    BY <1>1, <2>1, FS_AddElement, FS_Subset
  <2>3. puts' \in 0..MaxPuts /\ DOMAIN byAttribute' = Indexed
    BY <1>2, MaxPutsAssumption DEF Put, TInv, addToSecondary
  <2> QED
    BY <1>1, <1>2, <2>2, <2>3 DEF TInv, Put
<1>3. ASSUME NEW k \in Keys, Delete(k) PROVE TInv'
  <2>1. Live' \subseteq Live
    BY <1>1, <1>3 DEF Delete, Live, EntriesOK, NoEntry
  <2>2. IsFiniteSet(Live')
    BY <1>1, <2>1, FS_Subset
  <2> QED
    BY <1>1, <1>3, <2>2 DEF TInv, Delete, removeFromSecondary
<1>4. CASE KeysSortedByOffset
  <2>1. sortedKeys' \in Seq(Keys) /\ sortedDirty' \in BOOLEAN
    BY <1>1, <1>4, SortedType DEF KeysSortedByOffset, TInv
  <2> QED
    BY <1>1, <1>4, <2>1 DEF TInv, KeysSortedByOffset, Live
<1>5. CASE UNCHANGED vars
  BY <1>1, <1>5 DEF vars, TInv, Live
<1> QED
  BY <1>2, <1>3, <1>4, <1>5 DEF Next

(* TypeOK: the value maps of the secondary index never hold a value that   *)
(* is not set or a key that is not one, and the cached order is always a   *)
(* sequence of keys, for every number of keys.                             *)
THEOREM TypeCorrect == Spec => []TypeOK
<1>1. Init => TInv
  <2> SUFFICES ASSUME Init PROVE TInv
    OBVIOUS
  <2>1. EntriesOK /\ Live = {}
    BY DEF Init, EntriesOK, NoEntry, Entry, Attributes, Live
  <2>2. SecondaryExact
    BY <2>1 DEF Init, SecondaryExact
  <2>3. IsFiniteSet(Live)
    BY <2>1, FS_EmptySet
  <2>4. sortedKeys \in Seq(Keys) /\ puts \in Nat /\ puts \in 0..MaxPuts
    BY MaxPutsAssumption DEF Init
  <2>5. sortedDirty \in BOOLEAN /\ DOMAIN byAttribute = Indexed
    BY DEF Init
  <2> QED
    BY <2>1, <2>2, <2>3, <2>4, <2>5 DEF TInv, IInv
<1>2. TInv => TypeOK
  <2> SUFFICES ASSUME TInv, NEW f \in Indexed
               PROVE  /\ DOMAIN byAttribute[f] \subseteq AttrValues
                      /\ \A v \in DOMAIN byAttribute[f] : byAttribute[f][v] \subseteq Keys
    BY DEF TInv, IInv, EntriesOK, TypeOK
  <2>1. \A k \in Live : entries[k].attributes[f] \in AttrValues \cup {NoValue}
    BY FieldsAssumption DEF TInv, IInv, EntriesOK, Entry, Attributes, Live
  <2>2. byAttribute[f] = [v \in {entries[k].attributes[f] : k \in Live} \ {NoValue} |->
                            {k \in Live : entries[k].attributes[f] = v}]
    BY DEF TInv, IInv, SecondaryExact
  <2> QED
    BY <2>1, <2>2 DEF Live
<1> QED
  BY <1>1, <1>2, TypeNext, PTL DEF Spec
=============================================================================
