---------------------------- MODULE StoreThreads ----------------------------
(***************************************************************************)
(* The goroutines of one Store: clients in Get, Put, Delete, ForEach,      *)
(* Sync, Compact and Close, the sync task and the compaction task.  What   *)
(* they share is the log, the index with its memoised key order, the cache *)
(* and the flags closed and compacting.                                    *)
(*                                                                         *)
(* Under Store.mu held for writing nothing else of the store runs, so an   *)
(* exclusive section is one action; under Store.mu held for reading the    *)
(* sections of several goroutines interleave, one action per access to     *)
(* what they share.  Disk failures and crashes are DurableStore's.         *)
(***************************************************************************)
EXTENDS LogContents, FiniteSets

CONSTANTS Clients,       \* goroutines that call the store
          Iterators,     \* those of them that call ForEach
          Tasks,         \* background goroutines the options start
          Blank,         \* the empty string of a slice just made
          MaxMutations   \* bound on Put and Delete

ASSUME ThreadsAssumption ==
  /\ Iterators \subseteq Clients
  /\ Tasks \subseteq {"syncTask", "compactionTask"}
  /\ Clients \cap Tasks = {}
ASSUME BlankAssumption == Blank \notin Keys
ASSUME BoundAssumption == MaxMutations \in Nat

VARIABLES
  readers,     \* goroutines that hold mu for reading
  waiting,     \* goroutines inside mu.Lock
  blocked,     \* goroutines inside mu.RLock, behind a waiting writer
  records,     \* s.log: the records of the file
  logOpen,     \* whether that file is open
  index,       \* s.index.entries: where the live record of each key is
  sortedKeys,  \* s.index.sortedKeys
  sortedDirty, \* s.index.sortedDirty
  cache,       \* s.cache: the values it holds
  closed,      \* s.closed, and the context that Close cancels
  compacting,  \* s.compacting
  locked,      \* whether the process holds the lock file
  pc,          \* where each goroutine is
  key,         \* the key it is about
  got,         \* the value it writes or has read
  list,        \* the keys a ForEach has sorted, or has still to visit
  pos,         \* how many of them are stored in sortedKeys
  kv,          \* history: the contents
  due,         \* history: keys live ever since a ForEach began, not visited yet
  mutations    \* Put and Delete calls so far

mu      == <<readers, waiting, blocked>>
order   == <<sortedKeys, sortedDirty>>
state   == <<records, logOpen, index, cache, kv>>
flags   == <<closed, compacting, locked>>
locals  == <<key, got, list, pos, due>>
vars    == <<mu, order, state, flags, pc, locals, mutations>>

Threads == Clients \cup Tasks

NoCache == [k \in Keys |-> Absent]

Init ==
  /\ readers = {} /\ waiting = {} /\ blocked = {}
  /\ records = <<>> /\ index = NoIndex /\ cache = NoCache /\ kv = NoContents
  /\ sortedKeys = <<>> /\ sortedDirty = FALSE
  /\ logOpen = TRUE /\ locked = TRUE /\ closed = FALSE /\ compacting = FALSE
  /\ pc = [t \in Threads |-> IF t \in Tasks THEN "select" ELSE "idle"]
  /\ key = [t \in Threads |-> Blank] /\ got = [t \in Threads |-> Absent]
  /\ list = [t \in Threads |-> <<>>] /\ pos = [t \in Threads |-> 0]
  /\ due = [t \in Threads |-> {}]
  /\ mutations = 0

-----------------------------------------------------------------------------
(* sync.RWMutex: a writer that waits holds back the readers that come      *)
(* after it, and lets all of them in when it unlocks.                      *)

Lock(t) == waiting' = waiting \cup {t} /\ UNCHANGED <<readers, blocked>>

RLock(t) ==
  /\ IF waiting = {} THEN readers' = readers \cup {t} /\ UNCHANGED blocked
                     ELSE blocked' = blocked \cup {t} /\ UNCHANGED readers
  /\ UNCHANGED waiting

RUnlock(t) == readers' = readers \ {t} /\ UNCHANGED <<waiting, blocked>>

(* The whole of a section under Lock, its Unlock included. *)
Exclusive(t) ==
  /\ t \in waiting /\ readers = {}
  /\ waiting' = waiting \ {t} /\ readers' = blocked /\ blocked' = {}

Go(t, place) == pc' = [pc EXCEPT ![t] = place]

(* Where a goroutine is when the call it makes has returned. *)
Home(t) == IF t \in Tasks THEN "select" ELSE "idle"

(* A client calls: when the store is closed it gets ErrStoreClosed. *)
Enters(t) == t \in Clients /\ pc[t] = "idle" /\ ~closed

-----------------------------------------------------------------------------
(* Get.                                                                    *)

GetCall(t, k) ==
  /\ Enters(t) /\ RLock(t) /\ Go(t, "get")
  /\ key' = [key EXCEPT ![t] = k]
  /\ UNCHANGED <<order, state, flags, got, list, pos, due, mutations>>

(* The cache answers, or the index says where to read. *)
GetCache(t) ==
  /\ pc[t] = "get" /\ t \in readers
  /\ got' = [got EXCEPT ![t] = cache[key[t]]]
  /\ Go(t, IF cache[key[t]] # Absent \/ index[key[t]] = 0 THEN "answer" ELSE "read")
  /\ UNCHANGED <<mu, order, state, flags, key, list, pos, due, mutations>>

(* A read from a closed file is an error. *)
GetRead(t) ==
  /\ pc[t] = "read"
  /\ \/ /\ logOpen /\ Go(t, "fill")
        /\ got' = [got EXCEPT ![t] = records[index[key[t]]].val]
     \/ ~logOpen /\ Go(t, "fail") /\ UNCHANGED got
  /\ UNCHANGED <<mu, order, state, flags, key, list, pos, due, mutations>>

(* The value goes to the cache, which may evict others for it. *)
Filled(k, v) == {[j \in Keys |-> IF j = k THEN v ELSE IF j \in out THEN Absent ELSE cache[j]] :
                   out \in SUBSET (Keys \ {k})}

(* Mutant: the read lock is given up before the cache is filled. *)
GetFill_Unlocked(t) ==
  \/ /\ pc[t] = "fill" /\ t \in readers /\ RUnlock(t)
     /\ UNCHANGED <<order, state, flags, pc, locals, mutations>>
  \/ /\ pc[t] = "fill" /\ t \notin readers
     /\ cache' \in Filled(key[t], got[t]) /\ Go(t, Home(t))
     /\ UNCHANGED <<mu, order, records, logOpen, index, kv, flags, locals, mutations>>

GetFill(t) ==
  /\ pc[t] = "fill" /\ cache' \in Filled(key[t], got[t])
  /\ Go(t, "answer")
  /\ UNCHANGED <<mu, order, records, logOpen, index, kv, flags, locals, mutations>>

GetReturn(t) ==
  /\ pc[t] \in {"answer", "fail"} /\ RUnlock(t) /\ Go(t, Home(t))
  /\ key' = [key EXCEPT ![t] = Blank] /\ got' = [got EXCEPT ![t] = Absent]
  /\ UNCHANGED <<order, state, flags, list, pos, due, mutations>>

-----------------------------------------------------------------------------
(* Put and Delete.                                                         *)

MutateCall(t, k, v) ==
  /\ Enters(t) /\ Lock(t) /\ Go(t, "mutate")
  /\ mutations < MaxMutations /\ mutations' = mutations + 1
  /\ key' = [key EXCEPT ![t] = k] /\ got' = [got EXCEPT ![t] = v]
  /\ UNCHANGED <<order, state, flags, list, pos, due>>

(* Mutant: Put leaves the cached value where it is. *)
Write_KeepsCache(k, v) ==
  /\ records' = Append(records, [key |-> k, val |-> v])
  /\ index' = [index EXCEPT ![k] = IF v = Absent THEN 0 ELSE Len(records) + 1]
  /\ sortedDirty' = TRUE
  /\ kv' = [kv EXCEPT ![k] = v]
  /\ due' = IF v = Absent THEN [u \in Threads |-> due[u] \ {k}] ELSE due
  /\ UNCHANGED <<cache, sortedKeys, logOpen>>

(* Mutant: the offset is taken after the append. *)
Write_LateOffset(k, v) ==
  /\ records' = Append(records, [key |-> k, val |-> v])
  /\ index' = [index EXCEPT ![k] = IF v = Absent THEN 0 ELSE Len(records) + 2]
  /\ sortedDirty' = TRUE
  /\ cache' = [cache EXCEPT ![k] = Absent]
  /\ kv' = [kv EXCEPT ![k] = v]
  /\ due' = IF v = Absent THEN [u \in Threads |-> due[u] \ {k}] ELSE due
  /\ UNCHANGED <<sortedKeys, logOpen>>

(* Append a record, change the index, drop the cached value. *)
Write(k, v) ==
  /\ records' = Append(records, [key |-> k, val |-> v])
  /\ index' = [index EXCEPT ![k] = IF v = Absent THEN 0 ELSE Len(records) + 1]
  /\ sortedDirty' = TRUE
  /\ cache' = [cache EXCEPT ![k] = Absent]
  /\ kv' = [kv EXCEPT ![k] = v]
  /\ due' = IF v = Absent THEN [u \in Threads |-> due[u] \ {k}] ELSE due
  /\ UNCHANGED <<sortedKeys, logOpen>>

(* A Delete of no key and an append to a closed file are errors. *)
Mutate(t) ==
  /\ pc[t] = "mutate" /\ Exclusive(t) /\ Go(t, Home(t))
  /\ IF logOpen /\ (got[t] = Absent => index[key[t]] # 0)
       THEN Write(key[t], got[t])
       ELSE UNCHANGED <<order, state, due>>
  /\ key' = [key EXCEPT ![t] = Blank] /\ got' = [got EXCEPT ![t] = Absent]
  /\ UNCHANGED <<flags, list, pos, mutations>>

-----------------------------------------------------------------------------
(* ForEach.                                                                *)

Live == {k \in Keys : index[k] # 0}

(* The live keys in the order of their records; offsets differ, so there   *)
(* is one such sequence.                                                   *)
SortedByOffset ==
  {s \in [1..Cardinality(Live) -> Live] :
     \A i, j \in 1..Cardinality(Live) : i < j => index[s[i]] < index[s[j]]}

ForEachCall(t) ==
  /\ t \in Iterators /\ Enters(t) /\ RLock(t) /\ Go(t, "order")
  /\ due' = [due EXCEPT ![t] = Live]
  /\ UNCHANGED <<order, state, flags, key, got, list, pos, mutations>>

(* KeysSortedByOffset: the order is memoised, or the keys are sorted. *)
OrderCheck(t) ==
  /\ pc[t] = "order" /\ t \in readers
  /\ IF ~sortedDirty /\ Len(sortedKeys) = Cardinality(Live)
       THEN Go(t, "copy") /\ UNCHANGED list
       ELSE Go(t, "make") /\ \E s \in SortedByOffset : list' = [list EXCEPT ![t] = s]
  /\ UNCHANGED <<mu, order, state, flags, key, got, pos, due, mutations>>

(* The shared slice is replaced by a blank one. *)
OrderMake(t) ==
  /\ pc[t] = "make" /\ Go(t, "store")
  /\ sortedKeys' = [i \in 1..Len(list[t]) |-> Blank]
  /\ UNCHANGED <<mu, sortedDirty, state, flags, locals, mutations>>

(* Mutant: the last key is not stored. *)
OrderStore_OffByOne(t) ==
  /\ pc[t] = "store"
  /\ IF pos[t] + 1 < Len(list[t])
       THEN /\ sortedKeys' = [sortedKeys EXCEPT ![pos[t] + 1] = list[t][pos[t] + 1]]
            /\ pos' = [pos EXCEPT ![t] = @ + 1] /\ UNCHANGED <<pc, sortedDirty>>
       ELSE /\ sortedDirty' = FALSE /\ Go(t, "copy")
            /\ pos' = [pos EXCEPT ![t] = 0] /\ UNCHANGED sortedKeys
  /\ UNCHANGED <<mu, state, flags, key, got, list, due, mutations>>

(* It is filled key by key and declared clean. *)
OrderStore(t) ==
  /\ pc[t] = "store"
  /\ IF pos[t] < Len(list[t])
       THEN /\ sortedKeys' = [sortedKeys EXCEPT ![pos[t] + 1] = list[t][pos[t] + 1]]
            /\ pos' = [pos EXCEPT ![t] = @ + 1] /\ UNCHANGED <<pc, sortedDirty>>
       ELSE /\ sortedDirty' = FALSE /\ Go(t, "copy")
            /\ pos' = [pos EXCEPT ![t] = 0] /\ UNCHANGED sortedKeys
  /\ UNCHANGED <<mu, state, flags, key, got, list, due, mutations>>

(* The caller gets a copy of it, and unlocks. *)
OrderCopy(t) ==
  /\ pc[t] = "copy" /\ Go(t, "each")
  /\ list' = [list EXCEPT ![t] = sortedKeys]
  /\ RUnlock(t)
  /\ UNCHANGED <<order, state, flags, key, got, pos, due, mutations>>

(* The next key is looked at under a lock of its own, until none is left. *)
EachNext(t) ==
  /\ pc[t] = "each"
  /\ IF list[t] # <<>>
       THEN RLock(t) /\ Go(t, "visit") /\ UNCHANGED due
       ELSE Go(t, Home(t)) /\ due' = [due EXCEPT ![t] = {}] /\ UNCHANGED mu
  /\ UNCHANGED <<order, state, flags, key, got, list, pos, mutations>>

(* A key that is live is read and handed to fn, one that is not is passed  *)
(* over; when the read or fn fails ForEach returns the error.              *)
EachVisit(t) ==
  /\ pc[t] = "visit" /\ t \in readers /\ RUnlock(t)
  /\ LET k == Head(list[t])
     IN  \E fnFails \in BOOLEAN :
         IF k \in Live /\ (~logOpen \/ fnFails)
           THEN /\ Go(t, Home(t)) /\ list' = [list EXCEPT ![t] = <<>>]
                /\ due' = [due EXCEPT ![t] = {}]
           ELSE /\ Go(t, "each") /\ list' = [list EXCEPT ![t] = Tail(@)]
                /\ due' = IF k \in Live THEN [due EXCEPT ![t] = @ \ {k}] ELSE due
  /\ UNCHANGED <<order, state, flags, key, got, pos, mutations>>

-----------------------------------------------------------------------------
(* Sync, Compact and Close.                                                *)

SyncCall(t) ==
  /\ Enters(t) /\ Lock(t) /\ Go(t, "sync")
  /\ UNCHANGED <<order, state, flags, locals, mutations>>

SyncLog(t) ==
  /\ pc[t] = "sync" /\ Exclusive(t) /\ Go(t, Home(t))
  /\ UNCHANGED <<order, state, flags, locals, mutations>>

(* A second caller gets ErrCompactionInProgress. *)
Compacts(t) ==
  /\ ~closed /\ ~compacting /\ compacting' = TRUE
  /\ Lock(t) /\ Go(t, "compact")

CompactCall(t) ==
  /\ Enters(t) /\ Compacts(t)
  /\ UNCHANGED <<order, state, closed, locked, locals, mutations>>

(* The new log has the live records, of keys s, in their order. *)
Rewritten(s) == [i \in 1..Len(s) |-> records[index[s[i]]]]

(* With the log closed by Close the first read fails; with nothing to read *)
(* it is the second close of the log that fails, and the log is reopened.  *)
Compact(t) ==
  /\ pc[t] = "compact" /\ Exclusive(t) /\ Go(t, "compacted")
  /\ IF logOpen
       THEN /\ \E s \in SortedByOffset :
                 records' = Rewritten(s) /\ index' = ReplayIndex(Rewritten(s), Len(s))
            /\ cache' = NoCache
            /\ sortedKeys' = <<>> /\ sortedDirty' = (Live # {})
            /\ UNCHANGED logOpen
       ELSE /\ logOpen' = (Live = {})
            /\ sortedKeys' \in SortedByOffset /\ sortedDirty' = FALSE
            /\ UNCHANGED <<records, index, cache>>
  /\ UNCHANGED <<kv, flags, locals, mutations>>

CompactReturn(t) ==
  /\ pc[t] = "compacted" /\ compacting' = FALSE /\ Go(t, Home(t))
  /\ UNCHANGED <<mu, order, state, closed, locked, locals, mutations>>

(* Close marks the store closed and cancels the tasks; a second Close      *)
(* returns at once.                                                        *)
CloseCall(t) ==
  /\ Enters(t) /\ closed' = TRUE /\ Go(t, "wait")
  /\ UNCHANGED <<mu, order, state, compacting, locked, locals, mutations>>

(* It waits for the tasks to end. *)
CloseWait(t) ==
  /\ pc[t] = "wait" /\ \A u \in Tasks : pc[u] = "exited"
  /\ Lock(t) /\ Go(t, "close")
  /\ UNCHANGED <<order, state, flags, locals, mutations>>

(* Then it closes the log and releases the lock file. *)
CloseLog(t) ==
  /\ pc[t] = "close" /\ Exclusive(t) /\ Go(t, Home(t))
  /\ logOpen' = FALSE /\ locked' = FALSE
  /\ UNCHANGED <<order, records, index, cache, kv, closed, compacting, locals, mutations>>

-----------------------------------------------------------------------------
(* The background tasks.                                                   *)

SyncTick ==
  /\ "syncTask" \in Tasks /\ pc["syncTask"] = "select"
  /\ Lock("syncTask") /\ Go("syncTask", "sync")
  /\ UNCHANGED <<order, state, flags, locals, mutations>>

(* NeedsCompaction says so when enough of the log is dead. *)
CompactionTick ==
  /\ "compactionTask" \in Tasks /\ pc["compactionTask"] = "select"
  /\ waiting = {} /\ Len(records) > Cardinality(Live)
  /\ Compacts("compactionTask")
  /\ UNCHANGED <<order, state, closed, locked, locals, mutations>>

(* Mutant: a task looks at its ticker only. *)
TaskExit_Never(t) == FALSE /\ UNCHANGED vars

TaskExit(t) ==
  /\ t \in Tasks /\ pc[t] = "select" /\ closed /\ Go(t, "exited")
  /\ UNCHANGED <<mu, order, state, flags, locals, mutations>>

-----------------------------------------------------------------------------
(* What goroutine t does once it has called. *)
Step(t) ==
  \/ GetCache(t) \/ GetRead(t) \/ GetFill(t) \/ GetReturn(t)
  \/ OrderCheck(t) \/ OrderMake(t) \/ OrderStore(t) \/ OrderCopy(t)
  \/ EachNext(t) \/ EachVisit(t)
  \/ CompactReturn(t) \/ CloseWait(t)

(* The steps that wait for every reader to be gone. *)
Section(t) == Mutate(t) \/ SyncLog(t) \/ Compact(t) \/ CloseLog(t)

Call(t) ==
  \/ \E k \in Keys : GetCall(t, k)
  \/ \E k \in Keys, v \in Values \cup {Absent} : MutateCall(t, k, v)
  \/ ForEachCall(t) \/ SyncCall(t) \/ CompactCall(t) \/ CloseCall(t)

(* The store is closed and every call has returned. *)
Finished ==
  /\ closed /\ \A t \in Threads : pc[t] \in {"idle", "exited"}
  /\ UNCHANGED vars

Next ==
  \/ \E t \in Threads : Call(t) \/ Step(t) \/ Section(t) \/ TaskExit(t)
  \/ SyncTick \/ CompactionTick
  \/ Finished

Spec == Init /\ [][Next]_vars

(* A goroutine that can run does run.  A goroutine waiting in mu.Lock gets *)
(* its turn, as the mutex hands itself over to whoever starves, and select *)
(* does not pass over a context that stays cancelled for ever.             *)
Fairness ==
  \A t \in Threads :
    WF_vars(Step(t)) /\ SF_vars(Section(t)) /\ SF_vars(TaskExit(t))

FairSpec == Spec /\ Fairness

-----------------------------------------------------------------------------
(* Properties.                                                             *)

(* Every variable has its type. *)
TypeOK ==
  /\ readers \subseteq Threads /\ waiting \subseteq Threads /\ blocked \subseteq Threads
  /\ records \in Seq(Record) /\ index \in [Keys -> 0..Len(records)]
  /\ cache \in [Keys -> Values \cup {Absent}] /\ kv \in Contents
  /\ sortedKeys \in Seq(Keys \cup {Blank}) /\ sortedDirty \in BOOLEAN
  /\ {logOpen, locked, closed, compacting} \subseteq BOOLEAN
  /\ \A t \in Threads : pos[t] \in 0..Len(list[t]) /\ due[t] \subseteq Live
  /\ mutations \in 0..MaxMutations

(* What the cache holds of a key is the key's current value, also while    *)
(* Gets that have read the log are about to fill it: a Put cannot come     *)
(* between such a read and the fill (the comment in Store.Get).            *)
CacheCoherent == \A k \in Keys : cache[k] \in {kv[k], Absent}

(* The answer of a Get is the value of its key while it still holds the    *)
(* lock, from the cache or from the log, across compactions: Gets are      *)
(* linearizable with Puts and Deletes.                                     *)
GetsCurrent == \A t \in Threads : pc[t] = "answer" => got[t] = kv[key[t]]

(* A ForEach that comes to its end has visited every key that was live all *)
(* the time since it was called, whatever was written, deleted or          *)
(* compacted meanwhile.                                                    *)
ForEachComplete == \A t \in Threads : pc[t] = "each" /\ list[t] = <<>> => due[t] = {}

(* README.md: "Only one process may open a database path at a time": this  *)
(* process has no log open that holds anything once it has released the    *)
(* lock file.                                                              *)
DataUnderLock == logOpen /\ Live # {} => locked

(* Every call of a client returns, and a Close among them ends the tasks. *)
CallsReturn ==
  /\ \A t \in Clients : pc[t] # "idle" ~> pc[t] = "idle"
  /\ \A t \in Tasks : closed ~> pc[t] = "exited"
=============================================================================
