------------------------- MODULE StoreThreadsProofs -------------------------
(***************************************************************************)
(* That the cache is coherent, that Gets return current values and that a  *)
(* ForEach visits what it must while it is the only one, for any number of *)
(* goroutines and any keys and values, with Puts, Deletes, compactions and *)
(* a Close among them.                                                     *)
(***************************************************************************)
EXTENDS StoreThreads, FiniteSetTheorems, TLAPS

(* The parts of the state that matter have their types. *)
Shape ==
  /\ pc = [t \in Threads |-> pc[t]] /\ key \in [Threads -> Keys \cup {Blank}]
  /\ got \in [Threads -> Values \cup {Absent}]
  /\ cache \in [Keys -> Values \cup {Absent}]
  /\ records \in Seq(Record) /\ IsFiniteSet(Live)

(* The index points to a record of each key that is there, with its value. *)
Indexed ==
  /\ kv \in Contents /\ index \in [Keys -> 0..Len(records)]
  /\ \A k \in Keys : /\ index[k] = 0 <=> kv[k] = Absent
                     /\ index[k] # 0 => records[index[k]] = [key |-> k, val |-> kv[k]]

(* Where a Get is once it has looked at the cache; it holds the read lock. *)
Reading == {"read", "fill", "answer", "fail"}

ReadersHold == \A t \in Threads : pc[t] \in Reading => t \in readers

(* What a goroutine knows of its key: a Get that goes to the log has an    *)
(* entry to read, one that has read has the current value.                 *)
Knows(t) ==
  /\ pc[t] \in {"get", "read", "fill", "answer", "mutate"} => key[t] \in Keys
  /\ pc[t] = "read" => index[key[t]] # 0
  /\ pc[t] \in {"fill", "answer"} => got[t] = kv[key[t]]

IInv ==
  /\ Shape /\ Indexed /\ ReadersHold /\ CacheCoherent
  /\ \A t \in Threads : Knows(t)

(* A step that leaves what is shared alone and takes one goroutine to a    *)
(* place outside of Get and of the writers, whether it gives the lock up   *)
(* or waits for it, keeps the invariant.                                   *)
LEMMA Elsewhere ==
  ASSUME IInv, NEW t \in Threads, NEW p,
         p \notin Reading \cup {"get", "mutate"},
         pc' = [pc EXCEPT ![t] = p],
         UNCHANGED <<records, index, cache, kv>>,
         \A u \in readers : u # t => u \in readers',
         key' \in [Threads -> Keys \cup {Blank}], got' \in [Threads -> Values \cup {Absent}],
         \A u \in Threads : u # t => key'[u] = key[u] /\ got'[u] = got[u]
  PROVE  IInv'
<1>1. Live' = Live
  BY DEF Live
<1>2. Shape'
  BY <1>1 DEF IInv, Shape
<1>3. Indexed' /\ CacheCoherent'
  BY DEF IInv, Indexed, CacheCoherent
<1>4. pc'[t] = p /\ \A u \in Threads : u # t => pc'[u] = pc[u]
  BY DEF IInv, Shape
<1>5. ReadersHold'
  BY <1>4 DEF IInv, ReadersHold
<1>6. ASSUME NEW u \in Threads PROVE Knows(u)'
  BY <1>4 DEF IInv, Knows, Reading
<1> QED
  BY <1>2, <1>3, <1>5, <1>6 DEF IInv

(* A step that changes nothing the invariant speaks of. *)
LEMMA Still ==
  ASSUME IInv, UNCHANGED <<pc, key, got, readers, records, index, cache, kv>>
  PROVE  IInv'
  BY DEF IInv, Shape, Live, Indexed, ReadersHold, CacheCoherent, Knows, Reading

(* A goroutine inside Get moves on, holding the lock. *)
LEMMA GetMoves ==
  ASSUME IInv, NEW t \in Threads, NEW p, p # "mutate",
         pc' = [pc EXCEPT ![t] = p],
         UNCHANGED <<records, index, kv>>, CacheCoherent',
         cache' \in [Keys -> Values \cup {Absent}],
         \A u \in readers : u \in readers', p \in Reading => t \in readers',
         key' = [key EXCEPT ![t] = key'[t]], key'[t] \in Keys,
         got' = [got EXCEPT ![t] = got'[t]], got'[t] \in Values \cup {Absent},
         p = "read" => index[key'[t]] # 0,
         p \in {"fill", "answer"} => got'[t] = kv[key'[t]]
  PROVE  IInv'
<1>1. Live' = Live
  BY DEF Live
<1>2. Shape'
  BY <1>1 DEF IInv, Shape
<1>3. Indexed'
  BY DEF IInv, Indexed
<1>4. pc'[t] = p /\ \A u \in Threads : u # t => pc'[u] = pc[u]
  BY DEF IInv, Shape
<1>5. ReadersHold'
  BY <1>4 DEF IInv, ReadersHold
<1>6. \A u \in Threads : u # t => key'[u] = key[u] /\ got'[u] = got[u]
  BY DEF IInv, Shape
<1>7. ASSUME NEW u \in Threads PROVE Knows(u)'
  BY <1>4, <1>6 DEF IInv, Knows
<1> QED
  BY <1>2, <1>3, <1>5, <1>7 DEF IInv

(* The steps of a Get, from the cache lookup to the fill (store.go, Get). *)
LEMMA GetStep ==
  ASSUME IInv, NEW t \in Threads,
         (\E k \in Keys : GetCall(t, k)) \/ GetCache(t) \/ GetRead(t) \/ GetFill(t)
  PROVE  IInv'
<1>1. /\ kv \in Contents
      /\ \A k \in Keys : /\ index[k] = 0 <=> kv[k] = Absent
                         /\ index[k] # 0 => records[index[k]] = [key |-> k, val |-> kv[k]]
  BY DEF Indexed, IInv
<1>2. Knows(t) /\ Shape /\ ReadersHold
  BY DEF IInv
<1>3. ASSUME NEW k \in Keys, GetCall(t, k) PROVE IInv'
  <2>1. UNCHANGED <<records, index, cache, kv, got>> /\ pc' = [pc EXCEPT ![t] = "get"]
    BY <1>3 DEF GetCall, state, Go
  <2>2. key' = [key EXCEPT ![t] = k]
    BY <1>3 DEF GetCall
  <2>3. key'[t] = k /\ got'[t] = got[t] /\ got[t] \in Values \cup {Absent}
    BY <1>2, <2>1, <2>2 DEF Shape
  <2>4. got' = [got EXCEPT ![t] = got'[t]] /\ cache' \in [Keys -> Values \cup {Absent}]
    BY <1>2, <2>1 DEF Shape
  <2>5. CacheCoherent'
    BY <2>1 DEF IInv, CacheCoherent
  <2>6. \A u \in readers : u \in readers'
    BY <1>3 DEF GetCall, RLock
  <2> QED
    BY <1>3, <2>1, <2>2, <2>3, <2>4, <2>5, <2>6, GetMoves DEF Reading
<1>4. CASE GetCache(t)
  <2> DEFINE p == IF cache[key[t]] # Absent \/ index[key[t]] = 0 THEN "answer" ELSE "read"
  <2>1. UNCHANGED <<records, index, cache, kv, key, readers>> /\ pc' = [pc EXCEPT ![t] = p]
    BY <1>4 DEF GetCache, state, mu, Go
  <2>2. got' = [got EXCEPT ![t] = cache[key[t]]] /\ t \in readers
    BY <1>4 DEF GetCache
  <2>3. key[t] \in Keys
    BY <1>2, <1>4 DEF GetCache, Knows
  <2>4. cache[key[t]] \in {kv[key[t]], Absent}
    BY <2>3 DEF IInv, CacheCoherent
  <2>5. got'[t] = cache[key[t]] /\ got'[t] \in Values \cup {Absent}
    BY <1>2, <2>2, <2>3 DEF Shape
  <2>6. key' = [key EXCEPT ![t] = key'[t]] /\ key'[t] = key[t]
    BY <1>2, <2>1 DEF Shape
  <2>7. CacheCoherent' /\ cache' \in [Keys -> Values \cup {Absent}]
    BY <1>2, <2>1 DEF IInv, CacheCoherent, Shape
  <2>8. p = "answer" => got'[t] = kv[key'[t]]
    <3>1. CASE cache[key[t]] # Absent
      BY <2>4, <2>5, <2>6, <3>1
    <3>2. CASE cache[key[t]] = Absent /\ index[key[t]] = 0
      <4>1. kv[key[t]] = Absent
        BY <1>1, <2>3, <3>2
      <4> QED
        BY <2>5, <2>6, <3>2, <4>1
    <3>3. CASE cache[key[t]] = Absent /\ index[key[t]] # 0
      BY <3>3
    <3> QED
      BY <3>1, <3>2, <3>3
  <2>9. p \in {"answer", "read"} /\ (p = "read" => index[key'[t]] # 0)
    BY <2>6
  <2> HIDE DEF p
  <2> QED
    BY <2>1, <2>2, <2>3, <2>5, <2>6, <2>7, <2>8, <2>9, GetMoves
<1>5. CASE GetRead(t)
  <2>1. UNCHANGED <<records, index, cache, kv, key, readers>> /\ pc[t] = "read"
    BY <1>5 DEF GetRead, state, mu
  <2>2. key[t] \in Keys /\ index[key[t]] # 0 /\ t \in readers
    BY <1>2, <2>1 DEF Knows, ReadersHold, Reading
  <2>3. records[index[key[t]]].val = kv[key[t]] /\ kv[key[t]] \in Values \cup {Absent}
    <3>1. records[index[key[t]]] = [key |-> key[t], val |-> kv[key[t]]]
      BY <1>1, <2>2
    <3> QED
      BY <1>1, <2>2, <3>1 DEF Contents
  <2>4. key' = [key EXCEPT ![t] = key'[t]] /\ key'[t] = key[t]
    BY <1>2, <2>1 DEF Shape
  <2>5. CacheCoherent' /\ cache' \in [Keys -> Values \cup {Absent}]
    BY <1>2, <2>1 DEF IInv, CacheCoherent, Shape
  <2>6. CASE pc' = [pc EXCEPT ![t] = "fill"] /\ got' = [got EXCEPT ![t] = records[index[key[t]]].val]
    <3>1. got'[t] = kv[key[t]] /\ got' = [got EXCEPT ![t] = got'[t]]
      BY <1>2, <2>3, <2>6 DEF Shape
    <3> QED
      BY <2>1, <2>2, <2>3, <2>4, <2>5, <2>6, <3>1, GetMoves
  <2>7. CASE pc' = [pc EXCEPT ![t] = "fail"] /\ UNCHANGED got
    <3>1. got'[t] \in Values \cup {Absent} /\ got' = [got EXCEPT ![t] = got'[t]]
      BY <1>2, <2>7 DEF Shape
    <3> QED
      BY <2>1, <2>2, <2>4, <2>5, <2>7, <3>1, GetMoves
  <2> QED
    BY <1>5, <2>6, <2>7 DEF GetRead, Go
<1>6. CASE GetFill(t)
  <2>1. /\ UNCHANGED <<records, index, kv, key, got, readers>> /\ pc[t] = "fill"
        /\ pc' = [pc EXCEPT ![t] = "answer"]
    BY <1>6 DEF GetFill, locals, mu, Go
  <2>2. key[t] \in Keys /\ got[t] = kv[key[t]] /\ t \in readers
    BY <1>2, <2>1 DEF Knows, ReadersHold, Reading
  <2>3. PICK out \in SUBSET (Keys \ {key[t]}) :
          cache' = [j \in Keys |-> IF j = key[t] THEN got[t] ELSE IF j \in out THEN Absent ELSE cache[j]]
    BY <1>6 DEF GetFill, Filled
  <2>4. CacheCoherent'
    BY <2>1, <2>2, <2>3 DEF IInv, CacheCoherent
  <2>5. got[t] \in Values \cup {Absent}
    BY <1>2 DEF Shape
  <2>6. cache' \in [Keys -> Values \cup {Absent}]
    BY <1>2, <2>3, <2>5 DEF Shape
  <2>7. /\ key' = [key EXCEPT ![t] = key'[t]] /\ key'[t] = key[t]
        /\ got' = [got EXCEPT ![t] = got'[t]] /\ got'[t] = got[t]
    BY <1>2, <2>1 DEF Shape
  <2> QED
    BY <2>1, <2>2, <2>4, <2>5, <2>6, <2>7, GetMoves
<1> QED
  BY <1>3, <1>4, <1>5, <1>6

(* While a writer is in its section no Get has anything in its hands. *)
LEMMA Alone ==
  ASSUME IInv, readers = {}
  PROVE  \A t \in Threads : pc[t] \notin Reading
  BY DEF IInv, ReadersHold

(* A Put or Delete in its section (store.go, Put and Delete): the log      *)
(* grows by a record, the index follows it, the cache forgets the key.     *)
LEMMA MutateStep ==
  ASSUME IInv, NEW t \in Threads, Mutate(t)
  PROVE  IInv'
<1> DEFINE k == key[t]
           v == got[t]
<1>1. /\ pc[t] = "mutate" /\ readers = {} /\ pc' = [pc EXCEPT ![t] = Home(t)]
      /\ key' = [key EXCEPT ![t] = Blank] /\ got' = [got EXCEPT ![t] = Absent]
  BY DEF Mutate, Exclusive, Go
<1>2. Shape /\ Indexed /\ k \in Keys /\ v \in Values \cup {Absent}
  BY <1>1 DEF IInv, Knows, Shape
<1>3. Home(t) \in {"select", "idle"}
  BY DEF Home
<1>4. /\ key' \in [Threads -> Keys \cup {Blank}] /\ got' \in [Threads -> Values \cup {Absent}]
      /\ \A u \in Threads : u # t => key'[u] = key[u] /\ got'[u] = got[u]
  BY <1>1, <1>2 DEF Shape
<1>5. CASE UNCHANGED state
  BY <1>1, <1>3, <1>4, <1>5, Elsewhere DEF state, Reading
<1>6. CASE Write(k, v)
  <2> DEFINE r == [key |-> k, val |-> v]
             n == Len(records)
  <2>1. r \in Record /\ records \in Seq(Record) /\ n \in Nat
    BY <1>2 DEF Record, Shape
  <2>2. /\ records' = Append(records, r) /\ kv' = [kv EXCEPT ![k] = v]
        /\ index' = [index EXCEPT ![k] = IF v = Absent THEN 0 ELSE n + 1]
        /\ cache' = [cache EXCEPT ![k] = Absent]
    BY <1>6 DEF Write
  <2>3. records' \in Seq(Record) /\ Len(records') = n + 1
    BY <2>1, <2>2
  <2>4. Indexed'
    <3>1. /\ kv \in Contents /\ index \in [Keys -> 0..n]
          /\ \A j \in Keys : /\ index[j] = 0 <=> kv[j] = Absent
                             /\ index[j] # 0 => records[index[j]] = [key |-> j, val |-> kv[j]]
      BY <1>2 DEF Indexed
    <3>2. records'[n + 1] = r /\ \A i \in 1..n : records'[i] = records[i]
      BY <2>1, <2>2
    <3> HIDE DEF n, k, v
    <3>3. kv' \in Contents /\ index' \in [Keys -> 0..n + 1]
      BY <1>2, <2>1, <2>2, <3>1 DEF Contents
    <3>4. ASSUME NEW j \in Keys
          PROVE  /\ index'[j] = 0 <=> kv'[j] = Absent
                 /\ index'[j] # 0 => records'[index'[j]] = [key |-> j, val |-> kv'[j]]
      <4>1. CASE j = k
        <5>1. kv'[j] = v /\ index'[j] = IF v = Absent THEN 0 ELSE n + 1
          BY <1>2, <2>2, <3>1, <4>1 DEF Contents
        <5> QED
          BY <2>1, <3>2, <4>1, <5>1
      <4>2. CASE j # k
        <5>1. kv'[j] = kv[j] /\ index'[j] = index[j] /\ index[j] \in 0..n
          BY <2>2, <3>1, <4>2 DEF Contents
        <5>2. index[j] # 0 => records'[index[j]] = records[index[j]]
          BY <2>1, <3>2, <5>1
        <5> QED
          BY <3>1, <5>1, <5>2
      <4> QED
        BY <4>1, <4>2
    <3> QED
      BY <2>3, <3>3, <3>4 DEF Indexed
  <2>5. IsFiniteSet(Live')
    <3>1. index \in [Keys -> 0..n]
      BY <1>2 DEF Indexed
    <3>2. IsFiniteSet(Live \cup {k})
      BY <1>2, FS_AddElement DEF Shape
    <3>3. Live' \subseteq Live \cup {k}
      BY <2>2, <3>1 DEF Live
    <3> QED
      BY <3>2, <3>3, FS_Subset
  <2>6. Shape'
    BY <1>1, <1>2, <1>3, <1>4, <2>2, <2>3, <2>5 DEF Shape
  <2>7. kv \in Contents
    BY <1>2 DEF Indexed
  <2>8. CacheCoherent'
    BY <1>2, <2>2, <2>7 DEF IInv, CacheCoherent, Contents, Shape
  <2>9. \A u \in Threads : pc'[u] \notin Reading /\ ((pc'[u] = pc[u] /\ key'[u] = key[u]) \/ pc'[u] = Home(t))
    BY <1>1, <1>2, <1>3, <1>4, Alone DEF Shape, Reading
  <2>10. ReadersHold'
    BY <2>9 DEF ReadersHold
  <2>11. ASSUME NEW u \in Threads PROVE Knows(u)'
    BY <1>3, <2>9 DEF IInv, Knows, Reading
  <2> QED
    BY <2>4, <2>6, <2>8, <2>10, <2>11 DEF IInv
<1> QED
  BY <1>5, <1>6 DEF Mutate

(* The order by offset lists the live keys, each of them once. *)
LEMMA ListsTheLive ==
  ASSUME Shape, Indexed, NEW s \in SortedByOffset
  PROVE  /\ Len(s) \in Nat /\ s \in [1..Len(s) -> Live]
         /\ \A i, j \in 1..Len(s) : s[i] = s[j] => i = j
         /\ \A k \in Live : \E i \in 1..Len(s) : s[i] = k
<1> DEFINE c == Cardinality(Live)
<1>1. c \in Nat /\ IsFiniteSet(Live)
  BY FS_CardinalityType DEF Shape
<1>2. s \in [1..c -> Live] /\ \A i, j \in 1..c : i < j => index[s[i]] < index[s[j]]
  BY DEF SortedByOffset
<1>3. index \in [Keys -> 0..Len(records)] /\ Len(records) \in Nat
  BY DEF Indexed, Shape
<1>4. \A k \in Live : index[k] \in Int
  BY <1>3 DEF Live
<1> HIDE DEF c
<1>5. ASSUME NEW i \in 1..c, NEW j \in 1..c, s[i] = s[j] PROVE i = j
  <2>1. index[s[i]] \in Int /\ index[s[j]] \in Int
    BY <1>2, <1>4
  <2>2. ~(i < j) /\ ~(j < i)
    BY <1>2, <1>5, <2>1
  <2> QED
    BY <1>1, <2>2
<1>6. s \in Injection(1..c, Live)
  BY <1>2, <1>5 DEF Injection, IsInjective
<1>7. Cardinality(1..c) = c
  BY <1>1, FS_Interval
<1>8. s \in Surjection(1..c, Live)
  BY <1>1, <1>6, <1>7, FS_Injection DEF c
<1>9. Len(s) = c
  BY <1>1, <1>2
<1> QED
  BY <1>1, <1>2, <1>5, <1>8, <1>9 DEF Surjection

(* The(S) is the element of S when S has one. *)
LEMMA TheElement == \A x : The({x}) = x
  BY DEF The

(* Compaction's new log says of every key what the old one said, and its   *)
(* index points into it.                                                   *)
LEMMA RewriteKeeps ==
  ASSUME Shape, Indexed, NEW s \in SortedByOffset
  PROVE  /\ Rewritten(s) \in Seq(Record) /\ Len(Rewritten(s)) = Len(s)
         /\ ReplayIndex(Rewritten(s), Len(s)) \in [Keys -> 0..Len(s)]
         /\ \A k \in Keys :
              LET i == ReplayIndex(Rewritten(s), Len(s))[k]
              IN  /\ i = 0 <=> kv[k] = Absent
                  /\ i # 0 => Rewritten(s)[i] = [key |-> k, val |-> kv[k]]
<1> DEFINE R == Rewritten(s)
           n == Len(s)
<1>1. /\ n \in Nat /\ s \in [1..n -> Live]
      /\ \A i, j \in 1..n : s[i] = s[j] => i = j
      /\ \A k \in Live : \E i \in 1..n : s[i] = k
  BY ListsTheLive
<1>2. /\ kv \in Contents
      /\ \A k \in Keys : /\ index[k] = 0 <=> kv[k] = Absent
                         /\ index[k] # 0 => records[index[k]] = [key |-> k, val |-> kv[k]]
  BY DEF Indexed
<1> HIDE DEF n
<1>3. R = [i \in 1..n |-> records[index[s[i]]]]
  BY DEF Rewritten, n
<1> HIDE DEF R
<1>4. ASSUME NEW i \in 1..n
      PROVE  s[i] \in Keys /\ R[i] = [key |-> s[i], val |-> kv[s[i]]] /\ R[i] \in Record
  <2>1. s[i] \in Keys /\ index[s[i]] # 0
    BY <1>1 DEF Live
  <2>2. R[i] = [key |-> s[i], val |-> kv[s[i]]]
    BY <1>2, <1>3, <2>1
  <2>3. kv[s[i]] \in Values \cup {Absent}
    BY <1>2, <2>1 DEF Contents
  <2> QED
    BY <2>1, <2>2, <2>3 DEF Record
<1>5. R \in [1..n -> Record]
  BY <1>3, <1>4
<1>6. R \in Seq(Record) /\ Len(R) = n
  BY <1>1, <1>5
<1>7. ASSUME NEW i \in 1..n PROVE R[i].key = s[i] /\ R[i].val = kv[s[i]]
  <2>1. R[i] = [key |-> s[i], val |-> kv[s[i]]]
    BY <1>4
  <2> QED
    BY <2>1
<1>8. ASSUME NEW k \in Keys
      PROVE  LET i == ReplayIndex(R, n)[k]
             IN  /\ i \in 0..n
                 /\ i = 0 <=> kv[k] = Absent
                 /\ i # 0 => R[i] = [key |-> k, val |-> kv[k]]
  <2>1. CASE k \in Live
    <3>1. PICK i \in 1..n : s[i] = k
      BY <1>1, <2>1
    <3>2. \A j \in 1..n : R[j].key = k <=> j = i
      BY <1>1, <1>7, <3>1
    <3>3. i \in LastOf(R, n, k)
      BY <1>1, <3>1, <3>2 DEF LastOf
    <3>4. LastOf(R, n, k) = {i}
      BY <3>2, <3>3 DEF LastOf
    <3>5. The(LastOf(R, n, k)) = i
      BY <3>4, TheElement
    <3>6. kv[k] # Absent
      BY <1>2, <2>1 DEF Live
    <3>7. Replay(R, n)[k] = kv[k]
      BY <1>7, <3>1, <3>3, <3>5 DEF Replay
    <3>8. ReplayIndex(R, n)[k] = i
      BY <3>5, <3>6, <3>7 DEF ReplayIndex
    <3>9. R[i] = [key |-> k, val |-> kv[k]]
      BY <1>4, <3>1
    <3> QED
      BY <1>1, <3>6, <3>8, <3>9
  <2>2. CASE k \notin Live
    <3>1. \A j \in 1..n : R[j].key # k
      BY <1>1, <1>7, <2>2
    <3>2. LastOf(R, n, k) = {}
      BY <3>1 DEF LastOf
    <3>3. kv[k] = Absent
      BY <1>2, <2>2 DEF Live
    <3>4. ReplayIndex(R, n)[k] = 0
      BY <3>2 DEF Replay, ReplayIndex
    <3> QED
      BY <1>1, <3>3, <3>4
  <2> QED
    BY <2>1, <2>2
<1>9. ReplayIndex(R, n) \in [Keys -> 0..n]
  <2>1. ReplayIndex(R, n) = [k \in Keys |-> ReplayIndex(R, n)[k]]
    BY DEF ReplayIndex
  <2> QED
    BY <1>8, <2>1
<1> QED
  BY <1>6, <1>8, <1>9 DEF R, n

(* Compaction (store.go, compactLocked), or its failure on a closed log. *)
LEMMA CompactStep ==
  ASSUME IInv, NEW t \in Threads, Compact(t)
  PROVE  IInv'
<1>1. readers = {} /\ pc' = [pc EXCEPT ![t] = "compacted"] /\ UNCHANGED <<kv, key, got>>
  BY DEF Compact, Exclusive, Go, locals
<1>2. Shape /\ Indexed
  BY DEF IInv
<1>3. CASE UNCHANGED <<records, index, cache>>
  BY <1>1, <1>2, <1>3, Elsewhere DEF Reading, Shape
<1>4. ASSUME NEW s \in SortedByOffset, records' = Rewritten(s),
             index' = ReplayIndex(Rewritten(s), Len(s)), cache' = NoCache
      PROVE  IInv'
  <2>1. /\ records' \in Seq(Record) /\ Len(records') = Len(s)
        /\ index' \in [Keys -> 0..Len(s)]
        /\ \A k \in Keys : /\ index'[k] = 0 <=> kv[k] = Absent
                           /\ index'[k] # 0 => records'[index'[k]] = [key |-> k, val |-> kv[k]]
    BY <1>2, <1>4, RewriteKeeps
  <2>2. Indexed'
    BY <1>1, <1>2, <2>1 DEF Indexed
  <2>4. \A k \in Keys : index'[k] = 0 <=> kv[k] = Absent
    BY <2>1
  <2>5. \A k \in Keys : index[k] = 0 <=> kv[k] = Absent
    BY <1>2 DEF Indexed
  <2>6. Live' = Live
    BY <2>4, <2>5 DEF Live
  <2>7. Shape'
    BY <1>1, <1>2, <1>4, <2>1, <2>6 DEF Shape, NoCache
  <2>8. CacheCoherent'
    BY <1>4 DEF CacheCoherent, NoCache
  <2>9. \A u \in Threads : pc'[u] \notin Reading /\ (pc'[u] = pc[u] \/ pc'[u] = "compacted")
    BY <1>1, <1>2, Alone DEF Shape, Reading
  <2>10. ReadersHold'
    BY <2>9 DEF ReadersHold
  <2>11. ASSUME NEW u \in Threads PROVE Knows(u)'
    BY <1>1, <2>9 DEF IInv, Knows, Reading
  <2> QED
    BY <2>2, <2>7, <2>8, <2>10, <2>11 DEF IInv
<1> QED
  BY <1>3, <1>4 DEF Compact

(* A Put or Delete waits for the lock with its key in hand. *)
LEMMA MutateCallStep ==
  ASSUME IInv, NEW t \in Threads, NEW k \in Keys, NEW v \in Values \cup {Absent},
         MutateCall(t, k, v)
  PROVE  IInv'
<1>1. /\ UNCHANGED <<records, index, cache, kv, readers>> /\ pc' = [pc EXCEPT ![t] = "mutate"]
      /\ key' = [key EXCEPT ![t] = k] /\ got' = [got EXCEPT ![t] = v]
  BY DEF MutateCall, Lock, Go, state
<1>2. Shape'
  BY <1>1 DEF IInv, Shape, Live
<1>3. Indexed' /\ CacheCoherent'
  BY <1>1 DEF IInv, Indexed, CacheCoherent
<1>4. /\ pc'[t] = "mutate" /\ key'[t] = k
      /\ \A u \in Threads : u # t => pc'[u] = pc[u] /\ key'[u] = key[u] /\ got'[u] = got[u]
  BY <1>1 DEF IInv, Shape
<1>5. ReadersHold'
  BY <1>1, <1>4 DEF IInv, ReadersHold, Reading
<1>6. ASSUME NEW u \in Threads PROVE Knows(u)'
  BY <1>1, <1>4 DEF IInv, Knows
<1> QED
  BY <1>2, <1>3, <1>5, <1>6 DEF IInv

(* The other steps take their goroutine elsewhere and leave the log, the   *)
(* index and the cache alone.                                              *)
LEMMA OtherStep ==
  ASSUME IInv, NEW t \in Threads,
         \/ GetReturn(t) \/ ForEachCall(t) \/ OrderCheck(t) \/ OrderMake(t) \/ OrderStore(t)
         \/ OrderCopy(t) \/ EachNext(t) \/ EachVisit(t) \/ SyncCall(t) \/ SyncLog(t)
         \/ CompactCall(t) \/ CompactReturn(t) \/ CloseCall(t) \/ CloseWait(t) \/ CloseLog(t)
         \/ TaskExit(t) \/ (t = "syncTask" /\ SyncTick)
         \/ (t = "compactionTask" /\ CompactionTick)
  PROVE  IInv'
<1> DEFINE Out(p) == /\ pc' = [pc EXCEPT ![t] = p] /\ UNCHANGED <<records, index, cache, kv>>
                     /\ \A u \in readers : u # t => u \in readers'
           Places == {"idle", "select", "order", "copy", "make", "store", "each", "visit", "sync",
                      "compact", "compacted", "wait", "close", "exited"}
<1>1. Home(t) \in Places
  BY DEF Home
<1>2. ASSUME NEW p \in Places, Out(p), UNCHANGED <<key, got>> PROVE IInv'
  <2>1. p \notin Reading \cup {"get", "mutate"}
    BY DEF Reading
  <2>2. key' \in [Threads -> Keys \cup {Blank}] /\ got' \in [Threads -> Values \cup {Absent}]
    BY <1>2 DEF IInv, Shape
  <2> QED
    BY <1>2, <2>1, <2>2, Elsewhere
<1>3. CASE GetReturn(t)
  <2>1. Out(Home(t)) /\ key' = [key EXCEPT ![t] = Blank] /\ got' = [got EXCEPT ![t] = Absent]
    BY <1>3 DEF GetReturn, RUnlock, Go, state
  <2>2. /\ key' \in [Threads -> Keys \cup {Blank}] /\ got' \in [Threads -> Values \cup {Absent}]
        /\ \A u \in Threads : u # t => key'[u] = key[u] /\ got'[u] = got[u]
    BY <2>1 DEF IInv, Shape
  <2>3. Home(t) \notin Reading \cup {"get", "mutate"}
    BY DEF Home, Reading
  <2> QED
    BY <2>1, <2>2, <2>3, Elsewhere
<1>4. CASE ForEachCall(t)
  <2>1. Out("order") /\ UNCHANGED <<key, got>>
    BY <1>4 DEF ForEachCall, RLock, Go, state
  <2> QED
    BY <1>2, <2>1
<1>5. CASE OrderCheck(t)
  <2>1. (Out("copy") \/ Out("make")) /\ UNCHANGED <<key, got>>
    BY <1>5 DEF OrderCheck, Go, state, mu
  <2> QED
    BY <1>2, <2>1
<1>6. CASE OrderMake(t)
  <2>1. Out("store") /\ UNCHANGED <<key, got>>
    BY <1>6 DEF OrderMake, Go, state, mu, locals
  <2> QED
    BY <1>2, <2>1
<1>7. CASE OrderStore(t)
  <2>1. UNCHANGED <<records, index, cache, kv, readers, key, got>>
        /\ (UNCHANGED pc \/ pc' = [pc EXCEPT ![t] = "copy"])
    BY <1>7 DEF OrderStore, Go, state, mu
  <2>2. CASE UNCHANGED pc
    BY <2>1, <2>2, Still
  <2>3. CASE pc' = [pc EXCEPT ![t] = "copy"]
    BY <1>2, <2>1, <2>3
  <2> QED
    BY <2>1, <2>2, <2>3
<1>8. CASE OrderCopy(t)
  <2>1. Out("each") /\ UNCHANGED <<key, got>>
    BY <1>8 DEF OrderCopy, RUnlock, Go, state
  <2> QED
    BY <1>2, <2>1
<1>9. CASE EachNext(t)
  <2>1. (Out("visit") \/ Out(Home(t))) /\ UNCHANGED <<key, got>>
    BY <1>9 DEF EachNext, RLock, Go, state, mu
  <2> QED
    BY <1>1, <1>2, <2>1
<1>10. CASE EachVisit(t)
  <2>1. (Out("each") \/ Out(Home(t))) /\ UNCHANGED <<key, got>>
    BY <1>10 DEF EachVisit, RUnlock, Go, state
  <2> QED
    BY <1>1, <1>2, <2>1
<1>11. CASE SyncCall(t) \/ (t = "syncTask" /\ SyncTick)
  <2>1. Out("sync") /\ UNCHANGED <<key, got>>
    BY <1>11 DEF SyncCall, SyncTick, Lock, Go, state, locals
  <2> QED
    BY <1>2, <2>1
<1>12. CASE CompactCall(t) \/ (t = "compactionTask" /\ CompactionTick)
  <2>1. Out("compact") /\ UNCHANGED <<key, got>>
    BY <1>12 DEF CompactCall, CompactionTick, Compacts, Lock, Go, state, locals
  <2> QED
    BY <1>2, <2>1
<1>13. CASE SyncLog(t) \/ CloseLog(t)
  <2>1. Out(Home(t)) /\ UNCHANGED <<key, got>>
    BY <1>13 DEF SyncLog, CloseLog, Exclusive, Go, state, locals
  <2> QED
    BY <1>1, <1>2, <2>1
<1>14. CASE CompactReturn(t)
  <2>1. Out(Home(t)) /\ UNCHANGED <<key, got>>
    BY <1>14 DEF CompactReturn, Go, state, mu, locals
  <2> QED
    BY <1>1, <1>2, <2>1
<1>15. CASE CloseCall(t) \/ CloseWait(t) \/ TaskExit(t)
  <2>1. (Out("wait") \/ Out("close") \/ Out("exited")) /\ UNCHANGED <<key, got>>
    BY <1>15 DEF CloseCall, CloseWait, TaskExit, Lock, Go, state, mu, locals
  <2> QED
    BY <1>2, <2>1
<1> QED
  BY <1>3, <1>4, <1>5, <1>6, <1>7, <1>8, <1>9, <1>10, <1>11, <1>12, <1>13, <1>14, <1>15

(* A new store: nothing in the log, in the index or in the cache. *)
LEMMA Begins ==
  ASSUME Init
  PROVE  IInv
<1>1. records \in Seq(Record) /\ Len(records) = 0
  BY DEF Init
<1>2. Indexed
  BY <1>1 DEF Init, Indexed, NoIndex, NoContents, Contents
<1>3. Live = {}
  BY DEF Live, Init, NoIndex
<1>4. IsFiniteSet(Live)
  BY <1>3, FS_EmptySet
<1>5. Shape
  BY <1>1, <1>4 DEF Init, Shape, NoCache
<1>6. \A t \in Threads : pc[t] \in {"select", "idle"}
  BY DEF Init
<1>7. ReadersHold /\ (\A t \in Threads : Knows(t)) /\ CacheCoherent
  BY <1>6 DEF Init, ReadersHold, Reading, Knows, CacheCoherent, NoCache
<1> QED
  BY <1>2, <1>5, <1>7 DEF IInv

(* Every step of a goroutine of the store keeps the invariant. *)
LEMMA Inductive ==
  ASSUME IInv, [Next]_vars
  PROVE  IInv'
<1>1. ASSUME NEW t \in Threads, Call(t) PROVE IInv'
  BY <1>1, GetStep, MutateCallStep, OtherStep DEF Call
<1>2. ASSUME NEW t \in Threads, Step(t) PROVE IInv'
  BY <1>2, GetStep, OtherStep DEF Step
<1>3. ASSUME NEW t \in Threads, Section(t) PROVE IInv'
  BY <1>3, MutateStep, CompactStep, OtherStep DEF Section
<1>4. ASSUME NEW t \in Threads, TaskExit(t) PROVE IInv'
  BY <1>4, OtherStep
<1>5. CASE SyncTick
  <2>1. "syncTask" \in Threads
    BY <1>5 DEF SyncTick, Threads
  <2> QED
    BY <1>5, <2>1, OtherStep
<1>6. CASE CompactionTick
  <2>1. "compactionTask" \in Threads
    BY <1>6 DEF CompactionTick, Threads
  <2> QED
    BY <1>6, <2>1, OtherStep
<1>7. CASE UNCHANGED vars
  BY <1>7, Still DEF vars, mu, state, locals
<1> QED
  BY <1>1, <1>2, <1>3, <1>4, <1>5, <1>6, <1>7 DEF Next, Finished

(* What the cache holds of a key is its current value, in every state of   *)
(* any number of goroutines: the fill under the read lock of Store.Get     *)
(* never races a Put, a Delete or a compaction.                            *)
THEOREM CacheCorrect == Spec => []CacheCoherent
<1>1. Init => IInv
  BY Begins
<1>2. IInv /\ [Next]_vars => IInv'
  BY Inductive
<1>3. IInv => CacheCoherent
  BY DEF IInv
<1> QED
  BY <1>1, <1>2, <1>3, PTL DEF Spec

(* What Store.Get returns, from the cache or from the log, is the value of *)
(* the key while the call holds the lock.                                  *)
THEOREM GetsCorrect == Spec => []GetsCurrent
<1>1. Init => IInv
  BY Begins
<1>2. IInv /\ [Next]_vars => IInv'
  BY Inductive
<1>3. IInv => GetsCurrent
  BY DEF IInv, Knows, GetsCurrent
<1> QED
  BY <1>1, <1>2, <1>3, PTL DEF Spec

-----------------------------------------------------------------------------
(* Types, and the ForEach that shares the memoised order with nobody.      *)

(* Where a ForEach is. *)
Iterating == {"order", "make", "store", "copy", "each", "visit"}

(* A list has a place for each live key, and each live key has its place. *)
Covers(s) ==
  /\ Len(s) = Cardinality(Live)
  /\ \A k \in Live : \E i \in 1..Len(s) : s[i] = k

(* The types of what the lock, the flags and the bound are made of. *)
Outer ==
  /\ readers \subseteq Threads /\ waiting \subseteq Threads /\ blocked \subseteq Threads
  /\ logOpen \in BOOLEAN /\ locked \in BOOLEAN /\ closed \in BOOLEAN /\ compacting \in BOOLEAN
  /\ mutations \in 0..MaxMutations

(* The types of what ForEach works with.  A position counts only while the *)
(* shared slice is filled, and what is due is live.                        *)
Inner ==
  /\ sortedKeys \in Seq(Keys \cup {Blank}) /\ sortedDirty \in BOOLEAN
  /\ list \in [Threads -> Seq(Keys \cup {Blank})]
  /\ pos \in [Threads -> Nat] /\ due \in [Threads -> SUBSET Keys]
  /\ \A t \in Threads : /\ pos[t] <= Len(list[t]) /\ due[t] \subseteq Live
                        /\ pc[t] # "store" => pos[t] = 0
                        /\ pc[t] = "visit" => list[t] # <<>>

(* A key order that is not dirty covers the live keys. *)
Memo == ~sortedDirty => Covers(sortedKeys)

(* What a ForEach relies on: while it sorts, fills and copies the order it *)
(* holds the read lock and the order is its own; from then on its list has *)
(* whatever is due.                                                        *)
Iterates(t) ==
  /\ pc[t] \in Iterating => t \in Iterators
  /\ pc[t] \in {"make", "store", "copy"} => t \in readers
  /\ pc[t] \in {"make", "store"} => Covers(list[t]) /\ sortedDirty
  /\ pc[t] = "store" => /\ Len(sortedKeys) = Len(list[t])
                        /\ \A i \in 1..pos[t] : sortedKeys[i] = list[t][i]
  /\ pc[t] = "copy" => ~sortedDirty
  /\ pc[t] \in {"each", "visit"} => \A k \in due[t] : \E i \in 1..Len(list[t]) : list[t][i] = k

FInv == Memo /\ \A t \in Threads : Iterates(t)

(* The lock only ever knows goroutines of the store. *)
LEMMA LockTypes ==
  ASSUME Outer, NEW t \in Threads,
         Lock(t) \/ RLock(t) \/ RUnlock(t) \/ Exclusive(t) \/ UNCHANGED mu
  PROVE  readers' \subseteq Threads /\ waiting' \subseteq Threads /\ blocked' \subseteq Threads
<1>1. readers \subseteq Threads /\ waiting \subseteq Threads /\ blocked \subseteq Threads
  BY DEF Outer
<1>2. CASE Lock(t)
  BY <1>1, <1>2 DEF Lock
<1>3. CASE RLock(t)
  BY <1>1, <1>3 DEF RLock
<1>4. CASE RUnlock(t)
  BY <1>1, <1>4 DEF RUnlock
<1>5. CASE Exclusive(t)
  BY <1>1, <1>5 DEF Exclusive
<1>6. CASE UNCHANGED mu
  BY <1>1, <1>6 DEF mu
<1> QED
  BY <1>2, <1>3, <1>4, <1>5, <1>6

(* What every action does to the lock, the flags and the bound. *)
LEMMA OuterNext ==
  ASSUME Outer, [Next]_vars
  PROVE  Outer'
<1> DEFINE Locks(t) == Lock(t) \/ RLock(t) \/ RUnlock(t) \/ Exclusive(t) \/ UNCHANGED mu
           Same == UNCHANGED <<logOpen, closed, compacting, locked, mutations>>
<1>0. /\ logOpen \in BOOLEAN /\ locked \in BOOLEAN /\ closed \in BOOLEAN /\ compacting \in BOOLEAN
      /\ mutations \in 0..MaxMutations /\ MaxMutations \in Nat
  BY BoundAssumption DEF Outer
<1>1. ASSUME NEW t \in Threads, Locks(t), logOpen' \in BOOLEAN, locked' \in BOOLEAN,
             closed' \in BOOLEAN, compacting' \in BOOLEAN, mutations' \in 0..MaxMutations
      PROVE  Outer'
  <2>1. readers' \subseteq Threads /\ waiting' \subseteq Threads /\ blocked' \subseteq Threads
    BY <1>1, LockTypes
  <2> QED
    BY <1>1, <2>1 DEF Outer
<1>2. ASSUME NEW t \in Threads, Locks(t), Same PROVE Outer'
  BY <1>0, <1>1, <1>2
<1> HIDE DEF Locks
<1>3. ASSUME NEW t \in Threads, Call(t) PROVE Outer'
  <2>1. ASSUME NEW k \in Keys, GetCall(t, k) PROVE Outer'
    BY <1>2, <2>1 DEF GetCall, state, flags, Locks
  <2>2. ASSUME NEW k \in Keys, NEW v \in Values \cup {Absent}, MutateCall(t, k, v) PROVE Outer'
    <3>1. /\ Lock(t) /\ UNCHANGED <<logOpen, closed, compacting, locked>>
          /\ mutations < MaxMutations /\ mutations' = mutations + 1
      BY <2>2 DEF MutateCall, state, flags
    <3>2. mutations' \in 0..MaxMutations
      BY <1>0, <3>1
    <3> QED
      BY <1>0, <1>1, <3>1, <3>2 DEF Locks
  <2>3. CASE ForEachCall(t)
    BY <1>2, <2>3 DEF ForEachCall, state, flags, Locks
  <2>4. CASE SyncCall(t)
    BY <1>2, <2>4 DEF SyncCall, state, flags, Locks
  <2>5. CASE CompactCall(t)
    <3>1. Lock(t) /\ compacting' = TRUE /\ UNCHANGED <<logOpen, closed, locked, mutations>>
      BY <2>5 DEF CompactCall, Compacts, state
    <3> QED
      BY <1>0, <1>1, <3>1 DEF Locks
  <2>6. CASE CloseCall(t)
    <3>1. UNCHANGED mu /\ closed' = TRUE /\ UNCHANGED <<logOpen, compacting, locked, mutations>>
      BY <2>6 DEF CloseCall, state
    <3> QED
      BY <1>0, <1>1, <3>1 DEF Locks
  <2> QED
    BY <1>3, <2>1, <2>2, <2>3, <2>4, <2>5, <2>6 DEF Call
<1>4. ASSUME NEW t \in Threads, Step(t) PROVE Outer'
  <2>1. CASE GetCache(t) \/ GetRead(t) \/ GetFill(t) \/ GetReturn(t)
    <3>1. Same /\ Locks(t)
      BY <2>1 DEF GetCache, GetRead, GetFill, GetReturn, state, flags, Locks
    <3> QED
      BY <1>2, <3>1
  <2>2. CASE OrderCheck(t) \/ OrderMake(t) \/ OrderStore(t) \/ OrderCopy(t)
    <3>1. Same /\ Locks(t)
      BY <2>2 DEF OrderCheck, OrderMake, OrderStore, OrderCopy, state, flags, Locks
    <3> QED
      BY <1>2, <3>1
  <2>3. CASE EachNext(t) \/ EachVisit(t) \/ CloseWait(t)
    <3>1. Same /\ Locks(t)
      BY <2>3 DEF EachNext, EachVisit, CloseWait, state, flags, Locks
    <3> QED
      BY <1>2, <3>1
  <2>4. CASE CompactReturn(t)
    <3>1. UNCHANGED mu /\ compacting' = FALSE /\ UNCHANGED <<logOpen, closed, locked, mutations>>
      BY <2>4 DEF CompactReturn, state
    <3> QED
      BY <1>0, <1>1, <3>1 DEF Locks
  <2> QED
    BY <1>4, <2>1, <2>2, <2>3, <2>4 DEF Step
<1>5. ASSUME NEW t \in Threads, Section(t) PROVE Outer'
  <2>1. CASE Mutate(t)
    <3>1. UNCHANGED logOpen
      BY <2>1 DEF Mutate, Write, state
    <3>2. Exclusive(t) /\ UNCHANGED <<flags, mutations>>
      BY <2>1 DEF Mutate
    <3> QED
      BY <1>2, <3>1, <3>2 DEF flags, Locks
  <2>2. CASE SyncLog(t)
    BY <1>2, <2>2 DEF SyncLog, state, flags, Locks
  <2>3. CASE Compact(t)
    <3>1. Exclusive(t) /\ UNCHANGED <<closed, compacting, locked, mutations>>
      BY <2>3 DEF Compact, flags
    <3>2. logOpen' = logOpen \/ logOpen' = (Live = {})
      BY <2>3 DEF Compact
    <3>3. logOpen' \in BOOLEAN
      BY <1>0, <3>2
    <3> QED
      BY <1>0, <1>1, <3>1, <3>3 DEF Locks
  <2>4. CASE CloseLog(t)
    <3>1. /\ Exclusive(t) /\ logOpen' = FALSE /\ locked' = FALSE
          /\ UNCHANGED <<closed, compacting, mutations>>
      BY <2>4 DEF CloseLog
    <3> QED
      BY <1>0, <1>1, <3>1 DEF Locks
  <2> QED
    BY <1>5, <2>1, <2>2, <2>3, <2>4 DEF Section
<1>6. ASSUME NEW t \in Threads, TaskExit(t) PROVE Outer'
  BY <1>2, <1>6 DEF TaskExit, state, flags, Locks
<1>7. CASE SyncTick
  <2>1. "syncTask" \in Threads /\ Lock("syncTask") /\ Same
    BY <1>7 DEF SyncTick, Threads, state, flags
  <2> QED
    BY <1>2, <2>1 DEF Locks
<1>8. CASE CompactionTick
  <2>1. /\ "compactionTask" \in Threads /\ Lock("compactionTask") /\ compacting' = TRUE
        /\ UNCHANGED <<logOpen, closed, locked, mutations>>
    BY <1>8 DEF CompactionTick, Compacts, Threads, state
  <2> QED
    BY <1>0, <1>1, <2>1 DEF Locks
<1>9. CASE UNCHANGED vars
  BY <1>9 DEF vars, mu, state, flags, Outer
<1> QED
  BY <1>3, <1>4, <1>5, <1>6, <1>7, <1>8, <1>9 DEF Next, Finished

(* The places outside of ForEach. *)
Outside ==
  {"idle", "get", "read", "fill", "answer", "fail", "mutate", "sync", "compact", "compacted",
   "wait", "close", "select", "exited"}

(* Goroutine t goes to a place outside of ForEach and touches nothing that *)
(* a ForEach uses.                                                         *)
Aside(t, p) ==
  /\ p \in Outside /\ pc[t] # "store" /\ pc' = [pc EXCEPT ![t] = p]
  /\ UNCHANGED <<sortedKeys, sortedDirty, index, list, pos, due>>
  /\ \A u \in readers : u # t => u \in readers'

(* The actions that do, and the only ones that do not. *)
LEMMA AsideOrNot ==
  ASSUME [Next]_vars
  PROVE  \/ \E t \in Threads, p \in Outside : Aside(t, p)
         \/ \E t \in Threads : \/ ForEachCall(t) \/ OrderCheck(t) \/ OrderMake(t) \/ OrderStore(t)
                               \/ OrderCopy(t) \/ EachNext(t) \/ EachVisit(t)
                               \/ Mutate(t) \/ Compact(t)
         \/ UNCHANGED vars
<1> DEFINE Goes == \E t \in Threads, p \in Outside : Aside(t, p)
           Not(t) == \/ ForEachCall(t) \/ OrderCheck(t) \/ OrderMake(t) \/ OrderStore(t)
                     \/ OrderCopy(t) \/ EachNext(t) \/ EachVisit(t)
                     \/ Mutate(t) \/ Compact(t)
<1>1. ASSUME NEW t \in Threads, NEW p \in Outside, pc[t] # "store",
             pc' = [pc EXCEPT ![t] = p], UNCHANGED order,
             UNCHANGED <<index, list, pos, due>>,
             Lock(t) \/ RLock(t) \/ RUnlock(t) \/ Exclusive(t) \/ UNCHANGED mu
      PROVE  Goes
  <2>1. \A u \in readers : u # t => u \in readers'
    BY <1>1 DEF Lock, RLock, RUnlock, Exclusive, mu
  <2>2. Aside(t, p)
    BY <1>1, <2>1 DEF Aside, order
  <2> QED
    BY <2>2
<1>2. ASSUME NEW t \in Threads PROVE Home(t) \in Outside
  BY DEF Home, Outside
<1> HIDE DEF Goes
<1>3. ASSUME NEW t \in Threads, Call(t), ~ForEachCall(t) PROVE Goes
  <2>1. ASSUME NEW k \in Keys, GetCall(t, k) PROVE Goes
    <3>1. /\ pc[t] = "idle" /\ pc' = [pc EXCEPT ![t] = "get"] /\ RLock(t)
          /\ UNCHANGED order /\ UNCHANGED <<index, list, pos, due>>
      BY <2>1 DEF GetCall, Enters, Go, state
    <3> QED
      BY <1>1, <3>1 DEF Outside
  <2>2. ASSUME NEW k \in Keys, NEW v \in Values \cup {Absent}, MutateCall(t, k, v) PROVE Goes
    <3>1. /\ pc[t] = "idle" /\ pc' = [pc EXCEPT ![t] = "mutate"] /\ Lock(t)
          /\ UNCHANGED order /\ UNCHANGED <<index, list, pos, due>>
      BY <2>2 DEF MutateCall, Enters, Go, state
    <3> QED
      BY <1>1, <3>1 DEF Outside
  <2>3. CASE SyncCall(t) \/ CompactCall(t)
    <3>1. /\ pc[t] = "idle" /\ Lock(t)
          /\ pc' = [pc EXCEPT ![t] = "sync"] \/ pc' = [pc EXCEPT ![t] = "compact"]
          /\ UNCHANGED order /\ UNCHANGED <<index, list, pos, due>>
      BY <2>3 DEF SyncCall, CompactCall, Compacts, Enters, Go, state, locals
    <3> QED
      BY <1>1, <3>1 DEF Outside
  <2>4. CASE CloseCall(t)
    <3>1. /\ pc[t] = "idle" /\ pc' = [pc EXCEPT ![t] = "wait"] /\ UNCHANGED mu
          /\ UNCHANGED order /\ UNCHANGED <<index, list, pos, due>>
      BY <2>4 DEF CloseCall, Enters, Go, state, locals
    <3> QED
      BY <1>1, <3>1 DEF Outside
  <2> QED
    BY <1>3, <2>1, <2>2, <2>3, <2>4 DEF Call
<1>4. ASSUME NEW t \in Threads, GetCache(t) \/ GetRead(t) \/ GetFill(t) \/ GetReturn(t) PROVE Goes
  <2>1. CASE GetCache(t)
    <3>1. /\ pc[t] = "get" /\ UNCHANGED mu
          /\ pc' = [pc EXCEPT ![t] = "answer"] \/ pc' = [pc EXCEPT ![t] = "read"]
          /\ UNCHANGED order /\ UNCHANGED <<index, list, pos, due>>
      BY <2>1 DEF GetCache, Go, state
    <3> QED
      BY <1>1, <3>1 DEF Outside
  <2>2. CASE GetRead(t)
    <3>1. /\ pc[t] = "read" /\ UNCHANGED mu
          /\ pc' = [pc EXCEPT ![t] = "fill"] \/ pc' = [pc EXCEPT ![t] = "fail"]
          /\ UNCHANGED order /\ UNCHANGED <<index, list, pos, due>>
      BY <2>2 DEF GetRead, Go, state
    <3> QED
      BY <1>1, <3>1 DEF Outside
  <2>3. CASE GetFill(t)
    <3>1. /\ pc[t] = "fill" /\ UNCHANGED mu /\ pc' = [pc EXCEPT ![t] = "answer"]
          /\ UNCHANGED order /\ UNCHANGED <<index, list, pos, due>>
      BY <2>3 DEF GetFill, Go, locals
    <3> QED
      BY <1>1, <3>1 DEF Outside
  <2>4. CASE GetReturn(t)
    <3>1. /\ pc[t] # "store" /\ RUnlock(t) /\ pc' = [pc EXCEPT ![t] = Home(t)]
          /\ UNCHANGED order /\ UNCHANGED <<index, list, pos, due>>
      BY <2>4 DEF GetReturn, Go, state
    <3> QED
      BY <1>1, <1>2, <3>1
  <2> QED
    BY <1>4, <2>1, <2>2, <2>3, <2>4
<1>5. ASSUME NEW t \in Threads, CompactReturn(t) \/ CloseWait(t) PROVE Goes
  <2>1. CASE CompactReturn(t)
    <3>1. /\ pc[t] = "compacted" /\ UNCHANGED mu /\ pc' = [pc EXCEPT ![t] = Home(t)]
          /\ UNCHANGED order /\ UNCHANGED <<index, list, pos, due>>
      BY <2>1 DEF CompactReturn, Go, state, locals
    <3> QED
      BY <1>1, <1>2, <3>1
  <2>2. CASE CloseWait(t)
    <3>1. /\ pc[t] = "wait" /\ Lock(t) /\ pc' = [pc EXCEPT ![t] = "close"]
          /\ UNCHANGED order /\ UNCHANGED <<index, list, pos, due>>
      BY <2>2 DEF CloseWait, Go, state, locals
    <3> QED
      BY <1>1, <3>1 DEF Outside
  <2> QED
    BY <1>5, <2>1, <2>2
<1>6. ASSUME NEW t \in Threads, SyncLog(t) \/ CloseLog(t) PROVE Goes
  <2>1. /\ pc[t] # "store" /\ Exclusive(t) /\ pc' = [pc EXCEPT ![t] = Home(t)]
        /\ UNCHANGED order /\ UNCHANGED <<index, list, pos, due>>
    BY <1>6 DEF SyncLog, CloseLog, Go, state, locals
  <2> QED
    BY <1>1, <1>2, <2>1
<1>7. ASSUME NEW t \in Threads, TaskExit(t) PROVE Goes
  <2>1. /\ pc[t] = "select" /\ UNCHANGED mu /\ pc' = [pc EXCEPT ![t] = "exited"]
        /\ UNCHANGED order /\ UNCHANGED <<index, list, pos, due>>
    BY <1>7 DEF TaskExit, Go, state, locals
  <2> QED
    BY <1>1, <2>1 DEF Outside
<1>8. ASSUME SyncTick PROVE Goes
  <2>1. /\ "syncTask" \in Threads /\ pc["syncTask"] = "select" /\ Lock("syncTask")
        /\ pc' = [pc EXCEPT !["syncTask"] = "sync"]
        /\ UNCHANGED order /\ UNCHANGED <<index, list, pos, due>>
    BY <1>8 DEF SyncTick, Threads, Go, state, locals
  <2> QED
    BY <1>1, <2>1 DEF Outside
<1>9. ASSUME CompactionTick PROVE Goes
  <2>1. /\ "compactionTask" \in Threads /\ pc["compactionTask"] = "select" /\ Lock("compactionTask")
        /\ pc' = [pc EXCEPT !["compactionTask"] = "compact"]
        /\ UNCHANGED order /\ UNCHANGED <<index, list, pos, due>>
    BY <1>9 DEF CompactionTick, Compacts, Threads, Go, state, locals
  <2> QED
    BY <1>1, <2>1 DEF Outside
<1>10. ASSUME NEW t \in Threads, Call(t) \/ Step(t) \/ Section(t) \/ TaskExit(t) PROVE Goes \/ Not(t)
  <2>1. CASE Call(t)
    BY <1>3, <2>1
  <2>2. CASE Step(t)
    BY <1>4, <1>5, <2>2 DEF Step
  <2>3. CASE Section(t)
    BY <1>6, <2>3 DEF Section
  <2> QED
    BY <1>7, <1>10, <2>1, <2>2, <2>3
<1> HIDE DEF Not
<1>11. Goes \/ (\E t \in Threads : Not(t)) \/ UNCHANGED vars
  BY <1>8, <1>9, <1>10 DEF Next, Finished
<1> QED
  BY <1>11 DEF Goes, Not

(* A step aside leaves every ForEach where it was. *)
LEMMA AsideKeeps ==
  ASSUME Shape, Inner, NEW t \in Threads, NEW p \in Outside, Aside(t, p)
  PROVE  Inner' /\ (FInv => FInv')
<1>1. Live' = Live /\ UNCHANGED <<sortedKeys, sortedDirty, list, pos, due>>
  BY DEF Live, Aside
<1>2. pc'[t] = p /\ \A u \in Threads : u # t => pc'[u] = pc[u]
  BY DEF Shape, Aside
<1>3. pc[t] # "store" /\ p \notin Iterating
  BY DEF Aside, Outside, Iterating
<1>4. ASSUME NEW u \in Threads
      PROVE  /\ pos'[u] <= Len(list'[u]) /\ due'[u] \subseteq Live'
             /\ pc'[u] # "store" => pos'[u] = 0
             /\ pc'[u] = "visit" => list'[u] # <<>>
  BY <1>1, <1>2, <1>3 DEF Inner, Iterating
<1>5. Inner'
  BY <1>1, <1>4 DEF Inner
<1>6. ASSUME FInv PROVE FInv'
  <2>1. Memo'
    BY <1>1, <1>6 DEF FInv, Memo, Covers
  <2>2. ASSUME NEW u \in Threads PROVE Iterates(u)'
    <3>1. CASE u = t
      BY <1>2, <1>3, <3>1 DEF Iterates, Iterating
    <3>2. CASE u # t
      <4>1. Iterates(u) /\ pc'[u] = pc[u] /\ (u \in readers => u \in readers')
        BY <1>2, <1>6, <3>2 DEF FInv, Aside
      <4> QED
        BY <1>1, <4>1 DEF Iterates, Covers
    <3> QED
      BY <3>1, <3>2
  <2> QED
    BY <2>1, <2>2 DEF FInv
<1> QED
  BY <1>5, <1>6

(* One client iterates at a time: what the guarantee of ForEach needs. *)
OneIterator == \A t, u \in Iterators : t = u

(* While no reader holds the lock nobody sorts, fills or copies the order. *)
LEMMA NobodyOrders ==
  ASSUME FInv, readers = {}
  PROVE  \A t \in Threads : pc[t] \notin {"make", "store", "copy"}
  BY DEF FInv, Iterates

(* ForEach begins: what is live now is due. *)
LEMMA ForEachCallKeeps ==
  ASSUME Shape, Inner, NEW t \in Threads, ForEachCall(t)
  PROVE  Inner' /\ (FInv => FInv')
<1>1. /\ UNCHANGED <<index, sortedKeys, sortedDirty, list, pos>> /\ due' = [due EXCEPT ![t] = Live]
      /\ pc' = [pc EXCEPT ![t] = "order"] /\ pc[t] = "idle" /\ t \in Iterators
  BY DEF ForEachCall, state, order, Go, Enters
<1>2. \A u \in readers : u \in readers'
  BY DEF ForEachCall, RLock
<1>3. Live' = Live /\ Live \subseteq Keys
  BY <1>1 DEF Live
<1>4. pc'[t] = "order" /\ \A u \in Threads : u # t => pc'[u] = pc[u]
  BY <1>1 DEF Shape
<1>5. due'[t] = Live /\ \A u \in Threads : u # t => due'[u] = due[u]
  BY <1>1 DEF Inner
<1>6. due' \in [Threads -> SUBSET Keys]
  BY <1>1, <1>3 DEF Inner
<1>7. ASSUME NEW u \in Threads
      PROVE  /\ pos'[u] <= Len(list'[u]) /\ due'[u] \subseteq Live'
             /\ pc'[u] # "store" => pos'[u] = 0
             /\ pc'[u] = "visit" => list'[u] # <<>>
  BY <1>1, <1>3, <1>4, <1>5 DEF Inner
<1>8. Inner'
  BY <1>1, <1>6, <1>7 DEF Inner
<1>9. ASSUME FInv PROVE FInv'
  <2>1. Memo'
    BY <1>1, <1>3, <1>9 DEF FInv, Memo, Covers
  <2>2. ASSUME NEW u \in Threads PROVE Iterates(u)'
    <3>1. CASE u = t
      BY <1>1, <1>4, <3>1 DEF Iterates
    <3>2. CASE u # t
      <4>1. Iterates(u) /\ pc'[u] = pc[u] /\ due'[u] = due[u]
        BY <1>4, <1>5, <1>9, <3>2 DEF FInv
      <4> QED
        BY <1>1, <1>2, <1>3, <4>1 DEF Iterates, Covers
    <3> QED
      BY <3>1, <3>2
  <2> QED
    BY <2>1, <2>2 DEF FInv
<1> QED
  BY <1>8, <1>9

(* The sorted keys cover the live ones. *)
LEMMA SortedCovers ==
  ASSUME Shape, Indexed, NEW s \in SortedByOffset
  PROVE  Covers(s) /\ s \in Seq(Keys \cup {Blank})
<1>1. /\ Len(s) \in Nat /\ s \in [1..Len(s) -> Live]
      /\ \A k \in Live : \E i \in 1..Len(s) : s[i] = k
  BY ListsTheLive
<1>2. Cardinality(Live) \in Nat
  BY FS_CardinalityType DEF Shape
<1>3. s \in [1..Cardinality(Live) -> Live]
  BY DEF SortedByOffset
<1>4. Len(s) = Cardinality(Live)
  BY <1>2, <1>3
<1>5. s \in [1..Len(s) -> Keys \cup {Blank}]
  BY <1>1 DEF Live
<1> QED
  BY <1>1, <1>4, <1>5 DEF Covers

(* The order is memoised, or the keys are sorted (KeysSortedByOffset). *)
LEMMA OrderCheckKeeps ==
  ASSUME Shape, Indexed, Inner, NEW t \in Threads, OrderCheck(t)
  PROVE  Inner' /\ (FInv => FInv')
<1>1. /\ UNCHANGED <<index, sortedKeys, sortedDirty, pos, due, readers>>
      /\ pc[t] = "order" /\ t \in readers
  BY DEF OrderCheck, state, order, mu
<1>2. Live' = Live
  BY <1>1 DEF Live
<1>3. PICK p \in {"copy", "make"} :
        /\ pc' = [pc EXCEPT ![t] = p]
        /\ p = "copy" => ~sortedDirty /\ UNCHANGED list
        /\ p = "make" => /\ sortedDirty \/ Len(sortedKeys) # Cardinality(Live)
                         /\ \E s \in SortedByOffset : list' = [list EXCEPT ![t] = s]
  BY DEF OrderCheck, Go
<1>4. pc'[t] = p /\ \A u \in Threads : u # t => pc'[u] = pc[u]
  BY <1>3 DEF Shape
<1>5. /\ list' \in [Threads -> Seq(Keys \cup {Blank})] /\ pos[t] = 0
      /\ \A u \in Threads : u # t => list'[u] = list[u]
      /\ p = "make" => Covers(list'[t])
  <2>1. list \in [Threads -> Seq(Keys \cup {Blank})] /\ pos[t] = 0
    BY <1>1 DEF Inner
  <2>2. CASE p = "copy"
    BY <1>3, <2>1, <2>2
  <2>3. CASE p = "make"
    <3>1. PICK s \in SortedByOffset : list' = [list EXCEPT ![t] = s]
      BY <1>3, <2>3
    <3>2. Covers(s) /\ s \in Seq(Keys \cup {Blank})
      BY SortedCovers
    <3> QED
      BY <2>1, <3>1, <3>2
  <2> QED
    BY <2>2, <2>3
<1>6. Len(list'[t]) \in Nat
  BY <1>5
<1>7. ASSUME NEW u \in Threads
      PROVE  /\ pos'[u] <= Len(list'[u]) /\ due'[u] \subseteq Live'
             /\ pc'[u] # "store" => pos'[u] = 0
             /\ pc'[u] = "visit" => list'[u] # <<>>
  BY <1>1, <1>2, <1>3, <1>4, <1>5, <1>6 DEF Inner
<1>8. Inner'
  BY <1>1, <1>5, <1>7 DEF Inner
<1>9. ASSUME FInv PROVE FInv'
  <2>1. Memo'
    BY <1>1, <1>2, <1>9 DEF FInv, Memo, Covers
  <2>2. p = "make" => sortedDirty
    BY <1>3, <1>9 DEF FInv, Memo, Covers
  <2>3. t \in Iterators
    BY <1>1, <1>9 DEF FInv, Iterates, Iterating
  <2>4. ASSUME NEW u \in Threads PROVE Iterates(u)'
    <3>1. CASE u = t
      <4>1. p = "make" => Covers(list[t])'
        BY <1>2, <1>5 DEF Covers
      <4> QED
        BY <1>1, <1>3, <1>4, <2>2, <2>3, <3>1, <4>1 DEF Iterates
    <3>2. CASE u # t
      <4>1. Iterates(u) /\ pc'[u] = pc[u] /\ list'[u] = list[u]
        BY <1>4, <1>5, <1>9, <3>2 DEF FInv
      <4> QED
        BY <1>1, <1>2, <4>1 DEF Iterates, Covers
    <3> QED
      BY <3>1, <3>2
  <2> QED
    BY <2>1, <2>4 DEF FInv
<1> QED
  BY <1>8, <1>9

(* With one client that iterates the others are outside of ForEach. *)
LEMMA OthersOutside ==
  ASSUME OneIterator, FInv, NEW t \in Threads, pc[t] \in Iterating
  PROVE  \A u \in Threads : u # t => pc[u] \notin Iterating
  BY DEF OneIterator, FInv, Iterates

(* The memoised slice is replaced by a blank one. *)
LEMMA OrderMakeKeeps ==
  ASSUME Shape, Inner, NEW t \in Threads, OrderMake(t)
  PROVE  Inner' /\ (OneIterator /\ FInv => FInv')
<1>1. /\ UNCHANGED <<index, sortedDirty, list, pos, due, readers>> /\ pc[t] = "make"
      /\ pc' = [pc EXCEPT ![t] = "store"]
      /\ sortedKeys' = [i \in 1..Len(list[t]) |-> Blank]
  BY DEF OrderMake, state, mu, locals, Go
<1>2. Live' = Live
  BY <1>1 DEF Live
<1>3. pc'[t] = "store" /\ \A u \in Threads : u # t => pc'[u] = pc[u]
  BY <1>1 DEF Shape
<1>4. Len(list[t]) \in Nat /\ pos[t] = 0
  BY <1>1 DEF Inner
<1>5. sortedKeys' \in Seq(Keys \cup {Blank}) /\ Len(sortedKeys') = Len(list[t])
  BY <1>1, <1>4
<1>6. ASSUME NEW u \in Threads
      PROVE  /\ pos'[u] <= Len(list'[u]) /\ due'[u] \subseteq Live'
             /\ pc'[u] # "store" => pos'[u] = 0
             /\ pc'[u] = "visit" => list'[u] # <<>>
  BY <1>1, <1>2, <1>3 DEF Inner
<1>7. Inner'
  BY <1>1, <1>5, <1>6 DEF Inner
<1>8. ASSUME OneIterator, FInv PROVE FInv'
  <2>1. Iterates(t) /\ pc[t] \in Iterating
    BY <1>1, <1>8 DEF FInv, Iterating
  <2>2. sortedDirty /\ t \in readers /\ t \in Iterators /\ Covers(list[t])
    BY <1>1, <2>1 DEF Iterates
  <2>3. Memo'
    BY <1>1, <2>2 DEF Memo
  <2>4. ASSUME NEW u \in Threads PROVE Iterates(u)'
    <3>1. CASE u = t
      <4>1. Covers(list[t])'
        BY <1>1, <1>2, <2>2 DEF Covers
      <4>2. \A i \in 1..pos'[t] : sortedKeys'[i] = list'[t][i]
        BY <1>1, <1>4
      <4> QED
        BY <1>1, <1>3, <1>5, <2>2, <3>1, <4>1, <4>2 DEF Iterates
    <3>2. CASE u # t
      <4>1. pc'[u] \notin Iterating
        BY <1>3, <1>8, <2>1, <3>2, OthersOutside
      <4> QED
        BY <4>1 DEF Iterates, Iterating
    <3> QED
      BY <3>1, <3>2
  <2> QED
    BY <2>3, <2>4 DEF FInv
<1> QED
  BY <1>7, <1>8

(* It is filled key by key and then declared clean. *)
LEMMA OrderStoreKeeps ==
  ASSUME Shape, Inner, NEW t \in Threads, OrderStore(t)
  PROVE  Inner' /\ (OneIterator /\ FInv => FInv')
<1> DEFINE n == pos[t] + 1
<1>1. UNCHANGED <<index, list, due, readers>> /\ pc[t] = "store" /\ Live' = Live
  BY DEF OrderStore, state, mu, Live
<1>2. /\ pos \in [Threads -> Nat] /\ pos[t] <= Len(list[t]) /\ Len(list[t]) \in Nat
      /\ sortedKeys \in Seq(Keys \cup {Blank}) /\ list[t] \in Seq(Keys \cup {Blank})
  BY DEF Inner
<1>3. CASE pos[t] < Len(list[t])
  <2>1. /\ sortedKeys' = [sortedKeys EXCEPT ![n] = list[t][n]]
        /\ pos' = [pos EXCEPT ![t] = n] /\ UNCHANGED <<pc, sortedDirty>>
    BY <1>3 DEF OrderStore
  <2>2. n \in 1..Len(list[t]) /\ n \in Nat
    BY <1>2, <1>3
  <2>3. list[t][n] \in Keys \cup {Blank}
    BY <1>2, <2>2
  <2> HIDE DEF n
  <2>4. sortedKeys' \in Seq(Keys \cup {Blank}) /\ Len(sortedKeys') = Len(sortedKeys)
    <3> DEFINE x == list[t][n]
               S == Keys \cup {Blank}
               m == Len(sortedKeys)
    <3>1. m \in Nat /\ sortedKeys \in [1..m -> S] /\ x \in S /\ sortedKeys' = [sortedKeys EXCEPT ![n] = x]
      BY <1>2, <2>1, <2>3
    <3> HIDE DEF x, S, m
    <3>2. sortedKeys' \in [1..m -> S]
      BY <3>1
    <3>3. sortedKeys' \in Seq(S) /\ Len(sortedKeys') = m
      BY <3>1, <3>2
    <3> QED
      BY <3>3 DEF S, m
  <2>5. /\ pos' \in [Threads -> Nat] /\ pos'[t] = n
        /\ \A u \in Threads : u # t => pos'[u] = pos[u]
    BY <1>2, <2>1, <2>2
  <2>6. ASSUME NEW u \in Threads
        PROVE  /\ pos'[u] <= Len(list'[u]) /\ due'[u] \subseteq Live'
               /\ pc'[u] # "store" => pos'[u] = 0
               /\ pc'[u] = "visit" => list'[u] # <<>>
    <3>1. CASE u = t
      BY <1>1, <2>1, <2>2, <2>5, <3>1 DEF Inner
    <3>2. CASE u # t
      BY <1>1, <2>1, <2>5, <3>2 DEF Inner
    <3> QED
      BY <3>1, <3>2
  <2>7. Inner'
    BY <1>1, <2>1, <2>4, <2>5, <2>6 DEF Inner
  <2>8. ASSUME OneIterator, FInv PROVE FInv'
    <3>1. Iterates(t) /\ pc[t] \in Iterating
      BY <1>1, <2>8 DEF FInv, Iterating
    <3>2. /\ sortedDirty /\ t \in readers /\ t \in Iterators /\ Covers(list[t])
          /\ Len(sortedKeys) = Len(list[t]) /\ \A i \in 1..pos[t] : sortedKeys[i] = list[t][i]
      BY <1>1, <3>1 DEF Iterates
    <3>3. Memo'
      BY <2>1, <3>2 DEF Memo
    <3>4. ASSUME NEW u \in Threads PROVE Iterates(u)'
      <4>1. CASE u = t
        <5>1. Covers(list[t])'
          BY <1>1, <3>2 DEF Covers
        <5>2. ASSUME NEW i \in 1..n PROVE sortedKeys'[i] = list[t][i]
          <6>1. i \in 1..Len(sortedKeys)
            BY <2>2, <3>2
          <6>2. CASE i = n
            BY <1>2, <2>1, <6>1, <6>2
          <6>3. CASE i # n
            <7>1. i \in 1..pos[t]
              BY <1>2, <6>3 DEF n
            <7>2. sortedKeys'[i] = sortedKeys[i]
              BY <1>2, <2>1, <6>1, <6>3
            <7> QED
              BY <3>2, <7>1, <7>2
          <6> QED
            BY <6>2, <6>3
        <5> QED
          BY <1>1, <2>1, <2>4, <2>5, <3>2, <4>1, <5>1, <5>2 DEF Iterates
      <4>2. CASE u # t
        <5>1. pc'[u] \notin Iterating
          BY <2>1, <2>8, <3>1, <4>2, OthersOutside
        <5> QED
          BY <5>1 DEF Iterates, Iterating
      <4> QED
        BY <4>1, <4>2
    <3> QED
      BY <3>3, <3>4 DEF FInv
  <2> QED
    BY <2>7, <2>8
<1>4. CASE ~(pos[t] < Len(list[t]))
  <2>1. /\ sortedDirty' = FALSE /\ pc' = [pc EXCEPT ![t] = "copy"]
        /\ pos' = [pos EXCEPT ![t] = 0] /\ UNCHANGED sortedKeys
    BY <1>4 DEF OrderStore, Go
  <2>2. /\ pos' \in [Threads -> Nat] /\ pos'[t] = 0
        /\ \A u \in Threads : u # t => pos'[u] = pos[u]
    BY <1>2, <2>1
  <2>3. pc'[t] = "copy" /\ \A u \in Threads : u # t => pc'[u] = pc[u]
    BY <2>1 DEF Shape
  <2>4. ASSUME NEW u \in Threads
        PROVE  /\ pos'[u] <= Len(list'[u]) /\ due'[u] \subseteq Live'
               /\ pc'[u] # "store" => pos'[u] = 0
               /\ pc'[u] = "visit" => list'[u] # <<>>
    <3>1. CASE u = t
      <4>1. due[t] \subseteq Live
        BY DEF Inner
      <4> QED
        BY <1>1, <1>2, <2>2, <2>3, <3>1, <4>1, SMTT(30)
    <3>2. CASE u # t
      BY <1>1, <2>2, <2>3, <3>2 DEF Inner
    <3> QED
      BY <3>1, <3>2
  <2>5. Inner'
    BY <1>1, <2>1, <2>2, <2>4 DEF Inner
  <2>6. ASSUME OneIterator, FInv PROVE FInv'
    <3>1. Iterates(t) /\ pc[t] \in Iterating
      BY <1>1, <2>6 DEF FInv, Iterating
    <3>2. /\ t \in readers /\ t \in Iterators /\ Covers(list[t])
          /\ Len(sortedKeys) = Len(list[t]) /\ \A i \in 1..pos[t] : sortedKeys[i] = list[t][i]
      BY <1>1, <3>1 DEF Iterates
    <3>3. pos[t] = Len(list[t])
      BY <1>2, <1>4
    <3>4. Covers(sortedKeys)
      BY <3>2, <3>3 DEF Covers
    <3>5. Memo'
      BY <1>1, <2>1, <3>4 DEF Memo, Covers
    <3>6. ASSUME NEW u \in Threads PROVE Iterates(u)'
      <4>1. CASE u = t
        BY <1>1, <2>1, <2>3, <3>2, <4>1 DEF Iterates
      <4>2. CASE u # t
        <5>1. pc'[u] \notin Iterating
          BY <2>3, <2>6, <3>1, <4>2, OthersOutside
        <5> QED
          BY <5>1 DEF Iterates, Iterating
      <4> QED
        BY <4>1, <4>2
    <3> QED
      BY <3>5, <3>6 DEF FInv
  <2> QED
    BY <2>5, <2>6
<1> QED
  BY <1>3, <1>4

(* The copy that the caller gets has whatever is due. *)
LEMMA OrderCopyKeeps ==
  ASSUME Shape, Inner, NEW t \in Threads, OrderCopy(t)
  PROVE  Inner' /\ (FInv => FInv')
<1>1. /\ UNCHANGED <<index, sortedKeys, sortedDirty, pos, due>> /\ pc[t] = "copy"
      /\ pc' = [pc EXCEPT ![t] = "each"] /\ list' = [list EXCEPT ![t] = sortedKeys]
      /\ readers' = readers \ {t} /\ Live' = Live
  BY DEF OrderCopy, RUnlock, state, order, Go, Live
<1>2. pc'[t] = "each" /\ \A u \in Threads : u # t => pc'[u] = pc[u]
  BY <1>1 DEF Shape
<1>3. /\ list' \in [Threads -> Seq(Keys \cup {Blank})] /\ pos[t] = 0 /\ list'[t] = sortedKeys
      /\ \A u \in Threads : u # t => list'[u] = list[u]
  <2>1. /\ list \in [Threads -> Seq(Keys \cup {Blank})] /\ pos[t] = 0
        /\ sortedKeys \in Seq(Keys \cup {Blank})
    BY <1>1 DEF Inner
  <2> QED
    BY <1>1, <2>1
<1>4. Len(list'[t]) \in Nat
  BY <1>3
<1>5. ASSUME NEW u \in Threads
      PROVE  /\ pos'[u] <= Len(list'[u]) /\ due'[u] \subseteq Live'
             /\ pc'[u] # "store" => pos'[u] = 0
             /\ pc'[u] = "visit" => list'[u] # <<>>
  BY <1>1, <1>2, <1>3, <1>4 DEF Inner
<1>6. Inner'
  BY <1>1, <1>3, <1>5 DEF Inner
<1>7. ASSUME FInv PROVE FInv'
  <2>1. Memo' /\ Iterates(t)
    BY <1>1, <1>7 DEF FInv, Memo, Covers
  <2>2. Covers(sortedKeys) /\ t \in Iterators
    BY <1>1, <1>7 DEF FInv, Memo, Iterates, Iterating
  <2>3. ASSUME NEW u \in Threads PROVE Iterates(u)'
    <3>1. CASE u = t
      <4>1. \A k \in due'[t] : \E i \in 1..Len(list'[t]) : list'[t][i] = k
        BY <1>1, <1>3, <2>2 DEF Inner, Covers
      <4> QED
        BY <1>2, <2>2, <3>1, <4>1 DEF Iterates
    <3>2. CASE u # t
      <4>1. Iterates(u) /\ pc'[u] = pc[u] /\ list'[u] = list[u] /\ (u \in readers => u \in readers')
        BY <1>1, <1>2, <1>3, <1>7, <3>2 DEF FInv
      <4> QED
        BY <1>1, <4>1 DEF Iterates, Covers
    <3> QED
      BY <3>1, <3>2
  <2> QED
    BY <2>1, <2>3 DEF FInv
<1> QED
  BY <1>6, <1>7

(* ForEach takes the lock for its next key, or has come to its end. *)
LEMMA EachNextKeeps ==
  ASSUME Shape, Inner, NEW t \in Threads, EachNext(t)
  PROVE  Inner' /\ (FInv => FInv')
<1>1. UNCHANGED <<index, sortedKeys, sortedDirty, list, pos>> /\ pc[t] = "each" /\ Live' = Live
  BY DEF EachNext, state, order, Live
<1>2. \A u \in readers : u \in readers'
  BY DEF EachNext, RLock, mu
<1>3. PICK p \in {"visit", "idle", "select"} :
        /\ pc' = [pc EXCEPT ![t] = p]
        /\ p = "visit" => list[t] # <<>> /\ UNCHANGED due
        /\ p # "visit" => due' = [due EXCEPT ![t] = {}]
  <2>1. CASE list[t] # <<>>
    BY <2>1 DEF EachNext, Go
  <2>2. CASE list[t] = <<>>
    <3>1. Home(t) \in {"idle", "select"}
      BY DEF Home
    <3>2. pc' = [pc EXCEPT ![t] = Home(t)] /\ due' = [due EXCEPT ![t] = {}]
      BY <2>2 DEF EachNext, Go
    <3> QED
      BY <3>1, <3>2
  <2> QED
    BY <2>1, <2>2
<1>4. pc'[t] = p /\ \A u \in Threads : u # t => pc'[u] = pc[u]
  BY <1>3 DEF Shape
<1>5. /\ due' \in [Threads -> SUBSET Keys] /\ due'[t] \subseteq due[t]
      /\ \A u \in Threads : u # t => due'[u] = due[u]
  <2>1. due \in [Threads -> SUBSET Keys]
    BY DEF Inner
  <2> QED
    BY <1>3, <2>1
<1>6. ASSUME NEW u \in Threads
      PROVE  /\ pos'[u] <= Len(list'[u]) /\ due'[u] \subseteq Live'
             /\ pc'[u] # "store" => pos'[u] = 0
             /\ pc'[u] = "visit" => list'[u] # <<>>
  <2>1. CASE u = t
    BY <1>1, <1>3, <1>4, <1>5, <2>1 DEF Inner
  <2>2. CASE u # t
    BY <1>1, <1>4, <1>5, <2>2 DEF Inner
  <2> QED
    BY <2>1, <2>2
<1>7. Inner'
  BY <1>1, <1>5, <1>6 DEF Inner
<1>8. ASSUME FInv PROVE FInv'
  <2>1. Memo'
    BY <1>1, <1>8 DEF FInv, Memo, Covers
  <2>2. ASSUME NEW u \in Threads PROVE Iterates(u)'
    <3>1. Iterates(u)
      BY <1>8 DEF FInv
    <3>2. CASE u = t
      BY <1>1, <1>4, <1>5, <3>1, <3>2 DEF Iterates, Iterating
    <3>3. CASE u # t
      <4>1. pc'[u] = pc[u] /\ due'[u] = due[u] /\ (u \in readers => u \in readers')
        BY <1>2, <1>4, <1>5, <3>3
      <4> QED
        BY <1>1, <3>1, <4>1 DEF Iterates, Covers
    <3> QED
      BY <3>2, <3>3
  <2> QED
    BY <2>1, <2>2 DEF FInv
<1> QED
  BY <1>7, <1>8

(* A key is visited or passed over; nothing that is due gets lost. *)
LEMMA EachVisitKeeps ==
  ASSUME Shape, Inner, NEW t \in Threads, EachVisit(t)
  PROVE  Inner' /\ (FInv => FInv')
<1> DEFINE k == Head(list[t])
           rest == Tail(list[t])
<1>1. UNCHANGED <<index, sortedKeys, sortedDirty, pos>> /\ pc[t] = "visit" /\ Live' = Live
  BY DEF EachVisit, state, order, Live
<1>2. \A u \in readers : u # t => u \in readers'
  BY DEF EachVisit, RUnlock
<1>3. /\ list \in [Threads -> Seq(Keys \cup {Blank})] /\ list[t] # <<>> /\ pos[t] = 0
      /\ due \in [Threads -> SUBSET Keys] /\ due[t] \subseteq Live
  BY <1>1 DEF Inner
<1>4. /\ rest \in Seq(Keys \cup {Blank}) /\ Len(rest) = Len(list[t]) - 1 /\ k = list[t][1]
      /\ \A i \in 1..Len(rest) : rest[i] = list[t][i + 1]
  <2>1. list[t] \in Seq(Keys \cup {Blank}) /\ list[t] # <<>>
    BY <1>3
  <2> QED
    BY <2>1
<1>5. PICK p \in {"each", "idle", "select"} :
        /\ pc' = [pc EXCEPT ![t] = p]
        /\ p # "each" => list' = [list EXCEPT ![t] = <<>>] /\ due' = [due EXCEPT ![t] = {}]
        /\ p = "each" => /\ list' = [list EXCEPT ![t] = rest]
                         /\ due' = IF k \in Live THEN [due EXCEPT ![t] = @ \ {k}] ELSE due
  <2>1. Home(t) \in {"idle", "select"}
    BY DEF Home
  <2>2. \/ /\ pc' = [pc EXCEPT ![t] = Home(t)] /\ list' = [list EXCEPT ![t] = <<>>]
           /\ due' = [due EXCEPT ![t] = {}]
        \/ /\ pc' = [pc EXCEPT ![t] = "each"] /\ list' = [list EXCEPT ![t] = rest]
           /\ due' = IF k \in Live THEN [due EXCEPT ![t] = @ \ {k}] ELSE due
    BY DEF EachVisit, Go
  <2> HIDE DEF k, rest
  <2> QED
    BY <2>1, <2>2
<1> HIDE DEF k, rest
<1>6. pc'[t] = p /\ \A u \in Threads : u # t => pc'[u] = pc[u]
  BY <1>5 DEF Shape
<1>7. /\ due' \in [Threads -> SUBSET Keys] /\ due'[t] \subseteq due[t]
      /\ p = "each" => k \notin due'[t]
      /\ \A u \in Threads : u # t => due'[u] = due[u]
  <2>1. CASE p # "each"
    BY <1>3, <1>5, <2>1
  <2>2. CASE p = "each" /\ k \in Live
    <3>1. due' = [due EXCEPT ![t] = due[t] \ {k}]
      BY <1>5, <2>2
    <3> QED
      BY <1>3, <3>1
  <2>3. CASE p = "each" /\ k \notin Live
    <3>1. due' = due
      BY <1>5, <2>3
    <3> QED
      BY <1>3, <2>3, <3>1
  <2> QED
    BY <2>1, <2>2, <2>3
<1>8. /\ list' \in [Threads -> Seq(Keys \cup {Blank})] /\ (p = "each" => list'[t] = rest)
      /\ \A u \in Threads : u # t => list'[u] = list[u]
  <2>1. CASE p # "each"
    <3>1. list' = [list EXCEPT ![t] = <<>>]
      BY <1>5, <2>1
    <3>2. <<>> \in Seq(Keys \cup {Blank})
      OBVIOUS
    <3> QED
      BY <1>3, <2>1, <3>1, <3>2
  <2>2. CASE p = "each"
    BY <1>3, <1>4, <1>5, <2>2
  <2> QED
    BY <2>1, <2>2
<1>9. Len(list'[t]) \in Nat
  BY <1>8
<1>10. ASSUME NEW u \in Threads
       PROVE  /\ pos'[u] <= Len(list'[u]) /\ due'[u] \subseteq Live'
              /\ pc'[u] # "store" => pos'[u] = 0
              /\ pc'[u] = "visit" => list'[u] # <<>>
  <2>1. CASE u = t
    BY <1>1, <1>3, <1>6, <1>7, <1>9, <2>1
  <2>2. CASE u # t
    BY <1>1, <1>6, <1>7, <1>8, <2>2 DEF Inner
  <2> QED
    BY <2>1, <2>2
<1>11. Inner'
  BY <1>1, <1>7, <1>8, <1>10 DEF Inner
<1>12. ASSUME FInv PROVE FInv'
  <2>1. Memo'
    BY <1>1, <1>12 DEF FInv, Memo, Covers
  <2>2. ASSUME NEW u \in Threads PROVE Iterates(u)'
    <3>1. Iterates(u)
      BY <1>12 DEF FInv
    <3>2. CASE u = t
      <4>1. ASSUME p = "each", NEW j \in due'[t] PROVE \E i \in 1..Len(list'[t]) : list'[t][i] = j
        <5>1. j \in due[t] /\ j # k
          BY <1>7, <4>1
        <5>2. PICK i \in 1..Len(list[t]) : list[t][i] = j
          BY <1>1, <3>1, <3>2, <5>1 DEF Iterates
        <5>3. Len(list[t]) \in Nat /\ i # 1
          <6>1. i # 1
            BY <1>4, <5>1, <5>2, Zenon
          <6>2. list[t] \in Seq(Keys \cup {Blank})
            BY <1>3
          <6> QED
            BY <6>1, <6>2
        <5>4. i - 1 \in 1..Len(rest) /\ (i - 1) + 1 = i
          BY <1>4, <5>2, <5>3
        <5>5. rest[i - 1] = j
          BY <1>4, <5>2, <5>4
        <5> QED
          BY <1>8, <4>1, <5>4, <5>5
      <4> QED
        BY <1>1, <1>6, <3>1, <3>2, <4>1 DEF Iterates, Iterating
    <3>3. CASE u # t
      <4>1. /\ pc'[u] = pc[u] /\ due'[u] = due[u] /\ list'[u] = list[u]
            /\ (u \in readers => u \in readers')
        BY <1>2, <1>6, <1>7, <1>8, <3>3
      <4> QED
        BY <1>1, <3>1, <4>1 DEF Iterates, Covers
    <3> QED
      BY <3>2, <3>3
  <2> QED
    BY <2>1, <2>2 DEF FInv
<1> QED
  BY <1>11, <1>12

(* A Put or Delete: the order gets dirty, and a key that is deleted is no  *)
(* longer due.                                                             *)
LEMMA MutateKeeps ==
  ASSUME Shape, Indexed, Inner, NEW t \in Threads, Mutate(t),
         key[t] \in Keys, got[t] \in Values \cup {Absent}
  PROVE  Inner' /\ (FInv => FInv')
<1> DEFINE k == key[t]
           v == got[t]
           n == Len(records)
<1>1. /\ pc[t] = "mutate" /\ readers = {} /\ pc' = [pc EXCEPT ![t] = Home(t)]
      /\ UNCHANGED <<list, pos>> /\ Home(t) \in {"idle", "select"}
  BY DEF Mutate, Exclusive, Go, Home
<1>2. CASE UNCHANGED <<order, state, due>>
  <2>1. Home(t) \in Outside /\ Aside(t, Home(t))
    BY <1>1, <1>2 DEF Aside, Outside, order, state
  <2> QED
    BY <2>1, AsideKeeps
<1>3. CASE Write(k, v)
  <2>1. /\ index' = [index EXCEPT ![k] = IF v = Absent THEN 0 ELSE n + 1]
        /\ sortedDirty' = TRUE /\ UNCHANGED sortedKeys
        /\ due' = IF v = Absent THEN [u \in Threads |-> due[u] \ {k}] ELSE due
    BY <1>3 DEF Write
  <2>2. index \in [Keys -> 0..n] /\ n \in Nat /\ due \in [Threads -> SUBSET Keys]
    BY DEF Indexed, Shape, Inner
  <2>3. pc'[t] = Home(t) /\ \A u \in Threads : u # t => pc'[u] = pc[u]
    BY <1>1 DEF Shape
  <2>4. ASSUME NEW j \in Keys PROVE j \in Live' <=> IF j = k THEN v # Absent ELSE j \in Live
    BY <2>1, <2>2, SMTT(30) DEF Live
  <2> HIDE DEF k, v, n
  <2>5. ASSUME NEW u \in Threads
        PROVE  due'[u] \subseteq Keys /\ due'[u] \subseteq due[u] /\ due'[u] \subseteq Live'
    <3>1. due[u] \subseteq Live /\ due[u] \subseteq Keys
      BY <2>2 DEF Inner
    <3>2. CASE v = Absent
      <4>1. due'[u] = due[u] \ {k}
        BY <2>1, <3>2
      <4> QED
        BY <2>4, <3>1, <4>1
    <3>3. CASE v # Absent
      <4>1. due'[u] = due[u]
        BY <2>1, <3>3
      <4> QED
        BY <2>4, <3>1, <3>3, <4>1
    <3> QED
      BY <3>2, <3>3
  <2>6. due' \in [Threads -> SUBSET Keys]
    <3>1. due' = [u \in Threads |-> due'[u]]
      BY <2>1, <2>2
    <3> QED
      BY <2>5, <3>1
  <2>7. ASSUME NEW u \in Threads
        PROVE  /\ pos'[u] <= Len(list'[u]) /\ due'[u] \subseteq Live'
               /\ pc'[u] # "store" => pos'[u] = 0
               /\ pc'[u] = "visit" => list'[u] # <<>>
    <3>1. CASE u = t
      BY <1>1, <2>3, <2>5, <3>1 DEF Inner
    <3>2. CASE u # t
      BY <1>1, <2>3, <2>5, <3>2 DEF Inner
    <3> QED
      BY <3>1, <3>2
  <2>8. Inner'
    BY <1>1, <2>1, <2>6, <2>7 DEF Inner
  <2>9. ASSUME FInv PROVE FInv'
    <3>1. Memo'
      BY <2>1 DEF Memo
    <3>2. ASSUME NEW u \in Threads PROVE Iterates(u)'
      <4>1. Iterates(u) /\ pc[u] \notin {"make", "store", "copy"}
        BY <1>1, <2>9, NobodyOrders DEF FInv
      <4>2. pc'[u] = pc[u] \/ pc'[u] \in {"idle", "select"}
        BY <1>1, <2>3
      <4> QED
        BY <1>1, <2>5, <4>1, <4>2 DEF Iterates, Iterating
    <3> QED
      BY <3>1, <3>2 DEF FInv
  <2> QED
    BY <2>8, <2>9
<1> QED
  BY <1>2, <1>3 DEF Mutate

(* The keys a compaction keeps are the live ones. *)
LEMMA RewriteLive ==
  ASSUME Shape, Indexed, NEW s \in SortedByOffset
  PROVE  Live = {k \in Keys : ReplayIndex(Rewritten(s), Len(s))[k] # 0}
<1> DEFINE I == ReplayIndex(Rewritten(s), Len(s))
<1>1. \A k \in Keys : I[k] = 0 <=> kv[k] = Absent
  BY RewriteKeeps
<1>2. \A k \in Keys : index[k] = 0 <=> kv[k] = Absent
  BY DEF Indexed
<1> HIDE DEF I
<1>3. Live = {k \in Keys : I[k] # 0}
  BY <1>1, <1>2 DEF Live
<1> QED
  BY <1>3 DEF I

(* A compaction leaves the same keys live, and an order that is dirty or   *)
(* covers them (index.ReplaceAll); so does its failure on a closed log.    *)
LEMMA CompactKeeps ==
  ASSUME Shape, Indexed, Inner, NEW t \in Threads, Compact(t)
  PROVE  Inner' /\ (FInv => FInv')
<1>1. /\ pc[t] = "compact" /\ readers = {} /\ pc' = [pc EXCEPT ![t] = "compacted"]
      /\ UNCHANGED <<list, pos, due>>
  BY DEF Compact, Exclusive, Go, locals
<1>2. /\ Live' = Live /\ sortedKeys' \in Seq(Keys \cup {Blank}) /\ sortedDirty' \in BOOLEAN
      /\ ~sortedDirty' => Covers(sortedKeys')
  <2>1. CASE logOpen
    <3>1. PICK s \in SortedByOffset : index' = ReplayIndex(Rewritten(s), Len(s))
      BY <2>1 DEF Compact
    <3>2. Live' = Live
      BY <3>1, RewriteLive DEF Live
    <3>3. sortedKeys' = <<>> /\ sortedDirty' = (Live # {})
      BY <2>1 DEF Compact
    <3>4. Live = {} => Covers(<<>>)
      BY FS_EmptySet DEF Covers
    <3>5. <<>> \in Seq(Keys \cup {Blank}) /\ sortedDirty' \in BOOLEAN
      BY <3>3
    <3> QED
      BY <3>2, <3>3, <3>4, <3>5
  <2>2. CASE ~logOpen
    <3>1. sortedKeys' \in SortedByOffset /\ sortedDirty' = FALSE /\ UNCHANGED index
      BY <2>2 DEF Compact
    <3>2. Covers(sortedKeys') /\ sortedKeys' \in Seq(Keys \cup {Blank})
      BY <3>1, SortedCovers
    <3> QED
      BY <3>1, <3>2 DEF Live
  <2> QED
    BY <2>1, <2>2
<1>3. pc'[t] = "compacted" /\ \A u \in Threads : u # t => pc'[u] = pc[u]
  BY <1>1 DEF Shape
<1>4. ASSUME NEW u \in Threads
      PROVE  /\ pos'[u] <= Len(list'[u]) /\ due'[u] \subseteq Live'
             /\ pc'[u] # "store" => pos'[u] = 0
             /\ pc'[u] = "visit" => list'[u] # <<>>
  BY <1>1, <1>2, <1>3 DEF Inner
<1>5. Inner'
  BY <1>1, <1>2, <1>4 DEF Inner
<1>6. ASSUME FInv PROVE FInv'
  <2>1. Memo'
    BY <1>2 DEF Memo, Covers
  <2>2. ASSUME NEW u \in Threads PROVE Iterates(u)'
    <3>1. Iterates(u) /\ pc[u] \notin {"make", "store", "copy"}
      BY <1>1, <1>6, NobodyOrders DEF FInv
    <3>2. pc'[u] = pc[u] \/ pc'[u] = "compacted"
      BY <1>3
    <3> QED
      BY <1>1, <3>1, <3>2 DEF Iterates, Iterating
  <2> QED
    BY <2>1, <2>2 DEF FInv
<1> QED
  BY <1>5, <1>6

(* Every step keeps the types, and with one client that iterates what its  *)
(* ForEach relies on.                                                      *)
LEMMA InnerNext ==
  ASSUME IInv, Inner, [Next]_vars
  PROVE  Inner' /\ (OneIterator /\ FInv => FInv')
<1>1. Shape /\ Indexed
  BY DEF IInv
<1>2. ASSUME NEW t \in Threads, NEW p \in Outside, Aside(t, p)
      PROVE  Inner' /\ (OneIterator /\ FInv => FInv')
  BY <1>1, <1>2, AsideKeeps
<1>3. ASSUME NEW t \in Threads, \/ ForEachCall(t) \/ OrderCheck(t) \/ OrderCopy(t)
                                \/ EachNext(t) \/ EachVisit(t) \/ Compact(t)
      PROVE  Inner' /\ (OneIterator /\ FInv => FInv')
  BY <1>1, <1>3, ForEachCallKeeps, OrderCheckKeeps, OrderCopyKeeps, EachNextKeeps,
     EachVisitKeeps, CompactKeeps
<1>4. ASSUME NEW t \in Threads, OrderMake(t) \/ OrderStore(t)
      PROVE  Inner' /\ (OneIterator /\ FInv => FInv')
  BY <1>1, <1>4, OrderMakeKeeps, OrderStoreKeeps
<1>5. ASSUME NEW t \in Threads, Mutate(t)
      PROVE  Inner' /\ (OneIterator /\ FInv => FInv')
  <2>1. key[t] \in Keys /\ got[t] \in Values \cup {Absent}
    BY <1>5 DEF IInv, Knows, Shape, Mutate
  <2> QED
    BY <1>1, <1>5, <2>1, MutateKeeps
<1>6. ASSUME UNCHANGED vars PROVE Inner' /\ (OneIterator /\ FInv => FInv')
  <2>1. UNCHANGED <<sortedKeys, sortedDirty, index, list, pos, due, pc, readers>> /\ Live' = Live
    BY <1>6 DEF vars, mu, order, state, locals, Live
  <2>2. Inner'
    BY <2>1 DEF Inner
  <2>3. FInv => FInv'
    BY <2>1 DEF FInv, Memo, Iterates, Covers
  <2> QED
    BY <2>2, <2>3
<1>7. \/ \E t \in Threads, p \in Outside : Aside(t, p)
      \/ \E t \in Threads : \/ ForEachCall(t) \/ OrderCheck(t) \/ OrderMake(t) \/ OrderStore(t)
                            \/ OrderCopy(t) \/ EachNext(t) \/ EachVisit(t)
                            \/ Mutate(t) \/ Compact(t)
      \/ UNCHANGED vars
  BY AsideOrNot
<1> QED
  BY <1>2, <1>3, <1>4, <1>5, <1>6, <1>7

(* In the beginning nobody iterates and the empty order is right. *)
LEMMA InnerInit ==
  ASSUME Init
  PROVE  Outer /\ Inner /\ FInv
<1>1. Live = {}
  BY DEF Live, Init, NoIndex
<1>2. Outer
  <2>1. readers = {} /\ waiting = {} /\ blocked = {}
    BY DEF Init
  <2>2. logOpen = TRUE /\ locked = TRUE /\ closed = FALSE /\ compacting = FALSE
    BY DEF Init
  <2>3. mutations = 0
    BY DEF Init
  <2>4. mutations \in 0..MaxMutations
    BY <2>3, BoundAssumption
  <2> QED
    BY <2>1, <2>2, <2>4 DEF Outer
<1>3. <<>> \in Seq(Keys \cup {Blank}) /\ Len(<<>>) = 0
  OBVIOUS
<1>4. \A t \in Threads : pc[t] \in {"select", "idle"} /\ list[t] = <<>> /\ pos[t] = 0 /\ due[t] = {}
  BY DEF Init
<1>5. /\ list \in [Threads -> Seq(Keys \cup {Blank})]
      /\ pos \in [Threads -> Nat] /\ due \in [Threads -> SUBSET Keys]
  BY <1>3 DEF Init
<1>6. sortedKeys \in Seq(Keys \cup {Blank}) /\ sortedDirty \in BOOLEAN
  BY <1>3 DEF Init
<1>7. Inner
  BY <1>3, <1>4, <1>5, <1>6 DEF Inner
<1>8. Covers(sortedKeys)
  BY <1>1, <1>3, FS_EmptySet DEF Covers, Init
<1>9. FInv
  BY <1>4, <1>8 DEF FInv, Memo, Iterates, Iterating
<1> QED
  BY <1>2, <1>7, <1>9

(* Every variable keeps its type, whatever goroutines there are and        *)
(* however their accesses to the memoised order interleave: a position     *)
(* never leaves its list, an index entry never leaves the log, and what a  *)
(* ForEach has yet to visit is live.                                       *)
THEOREM TypeCorrect == Spec => []TypeOK
<1> DEFINE TInv == IInv /\ Outer /\ Inner
<1>1. Init => TInv
  BY Begins, InnerInit
<1>2. TInv /\ [Next]_vars => TInv'
  BY Inductive, OuterNext, InnerNext
<1>3. TInv => TypeOK
  <2> SUFFICES ASSUME TInv PROVE TypeOK
    OBVIOUS
  <2>1. kv \in Contents /\ index \in [Keys -> 0..Len(records)]
    BY DEF Indexed, IInv
  <2>2. records \in Seq(Record) /\ cache \in [Keys -> Values \cup {Absent}]
    BY DEF IInv, Shape
  <2>3. {logOpen, locked, closed, compacting} \subseteq BOOLEAN
    BY DEF Outer
  <2>4. \A t \in Threads : pos[t] \in 0..Len(list[t]) /\ due[t] \subseteq Live
    BY DEF Inner
  <2> QED
    BY <2>1, <2>2, <2>3, <2>4 DEF TypeOK, Outer, Inner
<1> QED
  BY <1>1, <1>2, <1>3, PTL DEF Spec

(* With one client that calls ForEach, and any others that put, delete,    *)
(* compact and close, a ForEach that comes to its end has visited every    *)
(* key that was live all the time.  With two it need not: their calls of   *)
(* KeysSortedByOffset share the slice that they fill.                      *)
THEOREM ForEachCorrect ==
  ASSUME OneIterator
  PROVE  Spec => []ForEachComplete
<1> DEFINE EInv == IInv /\ Inner /\ FInv
<1>1. Init => EInv
  BY Begins, InnerInit
<1>2. EInv /\ [Next]_vars => EInv'
  BY Inductive, InnerNext
<1>3. EInv => ForEachComplete
  <2> SUFFICES ASSUME EInv, NEW t \in Threads, pc[t] = "each", list[t] = <<>> PROVE due[t] = {}
    BY DEF ForEachComplete
  <2>1. \A k \in due[t] : \E i \in 1..Len(list[t]) : list[t][i] = k
    BY DEF FInv, Iterates
  <2> QED
    BY <2>1
<1> QED
  BY <1>1, <1>2, <1>3, PTL DEF Spec
=============================================================================
