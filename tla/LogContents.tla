----------------------------- MODULE LogContents -----------------------------
(***************************************************************************)
(* What a log means.  A log is a sequence of records (log.go, logRecord);  *)
(* a record gives a key a value, or is a tombstone.  The store's contents  *)
(* are what the last record of each key says.  Replay and ReplayIndex are  *)
(* the reference definitions that the record-by-record recovery scan of    *)
(* Store.recover is compared with.                                         *)
(***************************************************************************)
EXTENDS Integers, Sequences

CONSTANTS Keys,     \* the keys a client uses
          Values,   \* the values a client writes
          Absent    \* the value of a tombstone, and of a key that is not there

ASSUME AbsentAssumption == Absent \notin Values

(* A tombstone (deleted flag, empty value) is a record whose value is Absent. *)
Record == [key : Keys, val : Values \cup {Absent}]

Contents == [Keys -> Values \cup {Absent}]

NoContents == [k \in Keys |-> Absent]

NoIndex == [k \in Keys |-> 0]

(* The place, among the first n records, of the last one about k, if any. *)
LastOf(recs, n, k) ==
  {i \in 1..n : recs[i].key = k /\ \A j \in i + 1..n : recs[j].key # k}

(* The element of a set that has one. *)
The(S) == CHOOSE x \in S : TRUE

(* The contents that the first n records of recs stand for. *)
Replay(recs, n) ==
  [k \in Keys |-> IF LastOf(recs, n, k) = {}
                    THEN Absent
                    ELSE recs[The(LastOf(recs, n, k))].val]

(* The index over the first n records: where the live record of a key is, *)
(* or 0 when the key is absent.                                           *)
ReplayIndex(recs, n) ==
  [k \in Keys |-> IF Replay(recs, n)[k] = Absent
                    THEN 0
                    ELSE The(LastOf(recs, n, k))]
=============================================================================
