------------------------------ MODULE KeyIndex ------------------------------
(***************************************************************************)
(* The in-memory index (index.go): the entries, the secondary index over   *)
(* the indexed attribute fields, and the cached list of keys in disk       *)
(* order.  An index is born empty (newIndex) and lives through Puts and    *)
(* Deletes, whoever makes them: the recovery scan, the client, or the      *)
(* copying loop of a compaction.  All of them put a key at the offset of   *)
(* the record just appended or scanned, so offsets only grow.              *)
(***************************************************************************)
EXTENDS Integers, Sequences, FiniteSets

CONSTANTS Keys,
          Fields,      \* the attribute names in use
          Indexed,     \* Options.IndexedFields
          AttrValues,  \* the attribute values in use
          NoValue,     \* the value of an attribute that is not set
          MaxPuts      \* bound on Put

ASSUME FieldsAssumption == Indexed \subseteq Fields /\ NoValue \notin AttrValues
ASSUME MaxPutsAssumption == MaxPuts \in Nat

VARIABLES
  entries,      \* offset and attributes of each key
  byAttribute,  \* field -> value -> keys; only values that some key has are there
  sortedKeys,   \* the keys in disk order, as last computed
  sortedDirty,  \* whether a Put or a Delete came after that
  puts          \* the Puts so far; the next record is at puts + 1

vars == <<entries, byAttribute, sortedKeys, sortedDirty, puts>>

-----------------------------------------------------------------------------
Attributes == [Fields -> AttrValues \cup {NoValue}]

Entry == [offset : Nat, attributes : Attributes]

(* The entry of a key that is not there: records start at 1. *)
NoEntry == [offset |-> 0, attributes |-> [f \in Fields |-> NoValue]]

Live == {k \in Keys : entries[k].offset # 0}

(* The value map of one field with k added under v. *)
Added(values, v, k) ==
  [w \in DOMAIN values \cup {v} |->
     (IF w \in DOMAIN values THEN values[w] ELSE {}) \cup (IF w = v THEN {k} ELSE {})]

(* Mutant: a value stays when the last key that had it is gone. *)
Removed_KeepsEmpty(values, v, k) ==
  [w \in DOMAIN values |-> IF w = v THEN values[w] \ {k} ELSE values[w]]

(* The value map of one field with k taken from under v; a value that no  *)
(* key has any more is dropped.                                           *)
Removed(values, v, k) ==
  [w \in DOMAIN values \ (IF v \in DOMAIN values /\ values[v] \subseteq {k} THEN {v} ELSE {}) |->
     IF w = v THEN values[w] \ {k} ELSE values[w]]

addToSecondary(secondary, k, attributes) ==
  [f \in Indexed |-> IF attributes[f] = NoValue
                       THEN secondary[f]
                       ELSE Added(secondary[f], attributes[f], k)]

removeFromSecondary(secondary, k, attributes) ==
  [f \in Indexed |-> IF attributes[f] = NoValue
                       THEN secondary[f]
                       ELSE Removed(secondary[f], attributes[f], k)]

(* sort.Slice by record offset; offsets differ, so there is one result. *)
SortedByOffset(S) ==
  {s \in [1..Cardinality(S) -> S] :
     \A i, j \in 1..Cardinality(S) : i < j => entries[s[i]].offset < entries[s[j]].offset}

-----------------------------------------------------------------------------
(* newIndex *)
Init ==
  /\ entries = [k \in Keys |-> NoEntry]
  /\ byAttribute = [f \in Indexed |-> [v \in {} |-> {}]]
  /\ sortedKeys = <<>> /\ sortedDirty = FALSE
  /\ puts = 0

(* Mutant: overwriting a key leaves the cached order alone. *)
Put_KeepsOrder(k, attributes) ==
  /\ puts < MaxPuts /\ puts' = puts + 1
  /\ byAttribute' =
       addToSecondary(removeFromSecondary(byAttribute, k, entries[k].attributes), k, attributes)
  /\ entries' = [entries EXCEPT ![k] = [offset |-> puts + 1, attributes |-> attributes]]
  /\ sortedDirty' = (sortedDirty \/ k \notin Live)
  /\ UNCHANGED sortedKeys

(* Mutant: the offset is taken before the append. *)
Put_EarlyOffset(k, attributes) ==
  /\ puts < MaxPuts /\ puts' = puts + 1
  /\ byAttribute' =
       addToSecondary(removeFromSecondary(byAttribute, k, entries[k].attributes), k, attributes)
  /\ entries' = [entries EXCEPT ![k] = [offset |-> puts - 1, attributes |-> attributes]]
  /\ sortedDirty' = TRUE
  /\ UNCHANGED sortedKeys

(* A key that is not there has no attributes, so removing its old entry    *)
(* from the secondary index changes nothing.                               *)
Put(k, attributes) ==
  /\ puts < MaxPuts /\ puts' = puts + 1
  /\ byAttribute' =
       addToSecondary(removeFromSecondary(byAttribute, k, entries[k].attributes), k, attributes)
  /\ entries' = [entries EXCEPT ![k] = [offset |-> puts + 1, attributes |-> attributes]]
  /\ sortedDirty' = TRUE
  /\ UNCHANGED sortedKeys

Delete(k) ==
  /\ k \in Live
  /\ byAttribute' = removeFromSecondary(byAttribute, k, entries[k].attributes)
  /\ entries' = [entries EXCEPT ![k] = NoEntry]
  /\ sortedDirty' = TRUE
  /\ UNCHANGED <<sortedKeys, puts>>

(* Whether the cached list can be used. *)
Fresh == ~sortedDirty /\ Len(sortedKeys) = Cardinality(Live)

(* A copy of the cached list is returned; first it is computed if need be. *)
KeysSortedByOffset ==
  /\ \/ Fresh /\ UNCHANGED <<sortedKeys, sortedDirty>>
     \/ ~Fresh /\ sortedKeys' \in SortedByOffset(Live) /\ sortedDirty' = FALSE
  /\ UNCHANGED <<entries, byAttribute, puts>>

Next ==
  \/ \E k \in Keys, a \in Attributes : Put(k, a)
  \/ \E k \in Keys : Delete(k)
  \/ KeysSortedByOffset

Spec == Init /\ [][Next]_vars

-----------------------------------------------------------------------------
(* Types; the value maps have indexed fields and values only. *)
TypeOK ==
  /\ entries \in [Keys -> Entry]
  /\ DOMAIN byAttribute = Indexed
  /\ \A f \in Indexed : /\ DOMAIN byAttribute[f] \subseteq AttrValues
                        /\ \A v \in DOMAIN byAttribute[f] : byAttribute[f][v] \subseteq Keys
  /\ sortedKeys \in Seq(Keys) /\ sortedDirty \in BOOLEAN
  /\ puts \in 0..MaxPuts

(* KeysBy, CountBy and AttributeValues are exact after any overwriting and *)
(* deleting: an indexed field lists the values that live keys have, and    *)
(* under each value the live keys that have it, and nothing else.          *)
SecondaryExact ==
  \A f \in Indexed :
    byAttribute[f] = [v \in {entries[k].attributes[f] : k \in Live} \ {NoValue} |->
                        {k \in Live : entries[k].attributes[f] = v}]

(* What KeysSortedByOffset returns from its cache is every live key, once, *)
(* in disk order: a ForEach or a Compact that starts now misses no key.    *)
SortedFresh == Fresh => sortedKeys \in SortedByOffset(Live)
=============================================================================
