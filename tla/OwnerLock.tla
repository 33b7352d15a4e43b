----------------------------- MODULE OwnerLock ------------------------------
(***************************************************************************)
(* The lock that gives a database path to one opener at a time (lock.go):  *)
(* Open and Close of stores, in one process or several, and runs of the    *)
(* downgrade tool on the path as their source.  The lock belongs to a      *)
(* file, not to a name, so it matters which file an opener has open.       *)
(***************************************************************************)
EXTENDS Naturals, FiniteSets

CONSTANTS Openers,  \* stores and downgrade runs
          Inodes,   \* the files that may come to be named <path>.lock
          NoFile, NoOne

ASSUME NoFileAssumption == NoFile \notin Inodes
ASSUME NoOneAssumption  == NoOne \notin Openers

VARIABLES lockFile,  \* the file named <path>.lock
          fd,        \* the lock file each opener has open
          holder,    \* who holds the operating system's lock on each file
          pc         \* where each opener is

vars == <<lockFile, fd, holder, pc>>

Init ==
  /\ lockFile \in Inodes \cup {NoFile}
  /\ fd = [p \in Openers |-> NoFile] /\ holder = [i \in Inodes |-> NoOne]
  /\ pc = [p \in Openers |-> "idle"]

Goto(p, place) == pc' = [pc EXCEPT ![p] = place]

(* acquireFileLock: OpenFile with O_CREATE. *)
OpenLockFile(p) ==
  /\ pc[p] = "idle" /\ Goto(p, "opened")
  /\ \/ lockFile # NoFile /\ UNCHANGED lockFile
     \/ lockFile = NoFile /\ lockFile' \in {i \in Inodes : \A q \in Openers : fd[q] # i}
  /\ fd' = [fd EXCEPT ![p] = lockFile'] /\ UNCHANGED holder

(* tryLockFile; when another holds the lock, or on another error, the file *)
(* is closed and Open fails.                                               *)
TryLock(p) ==
  /\ pc[p] = "opened" /\ UNCHANGED lockFile
  /\ \/ /\ holder[fd[p]] = NoOne /\ holder' = [holder EXCEPT ![fd[p]] = p]
        /\ Goto(p, "locked") /\ UNCHANGED fd
     \/ Goto(p, "idle") /\ fd' = [fd EXCEPT ![p] = NoFile] /\ UNCHANGED holder

(* Mutant: Open returns the error of openAppendLog and keeps the lock. *)
OpenLog_Leaks(p) ==
  /\ pc[p] = "locked" /\ UNCHANGED <<lockFile, holder>>
  /\ \/ Goto(p, "using") /\ UNCHANGED fd
     \/ Goto(p, "idle") /\ fd' = [fd EXCEPT ![p] = NoFile]

(* The log is opened; when that or the recovery fails the lock is released.*)
OpenLog(p) ==
  /\ pc[p] = "locked" /\ (Goto(p, "using") \/ Goto(p, "releasing"))
  /\ UNCHANGED <<lockFile, fd, holder>>

(* Close, or the end of a downgrade: first the log is closed. *)
CloseLog(p) ==
  /\ pc[p] = "using" /\ Goto(p, "releasing") /\ UNCHANGED <<lockFile, fd, holder>>

(* release: unlockFile, which may fail, and then file.Close all the same. *)
Unlock(p) ==
  /\ pc[p] = "releasing" /\ Goto(p, "unlocked") /\ UNCHANGED <<lockFile, fd>>
  /\ holder' = [holder EXCEPT ![fd[p]] = NoOne] \/ UNCHANGED holder

(* The operating system takes back what p still holds. *)
Released(p) == [i \in Inodes |-> IF holder[i] = p THEN NoOne ELSE holder[i]]

(* Mutant: the lock file is removed. *)
CloseLockFile_Removes(p) ==
  /\ pc[p] = "unlocked" /\ Goto(p, "idle") /\ lockFile' = NoFile
  /\ fd' = [fd EXCEPT ![p] = NoFile] /\ holder' = Released(p)

CloseLockFile(p) ==
  /\ pc[p] = "unlocked" /\ Goto(p, "idle") /\ UNCHANGED lockFile
  /\ fd' = [fd EXCEPT ![p] = NoFile] /\ holder' = Released(p)

(* The process dies: the operating system closes its files, which releases *)
(* the locks on them.                                                      *)
Crash(p) ==
  /\ pc[p] # "idle" /\ Goto(p, "idle") /\ fd' = [fd EXCEPT ![p] = NoFile]
  /\ holder' = Released(p) /\ UNCHANGED lockFile

Act(p) ==
  \/ OpenLockFile(p) \/ TryLock(p) \/ OpenLog(p) \/ CloseLog(p)
  \/ Unlock(p) \/ CloseLockFile(p) \/ Crash(p)

Next == \E p \in Openers : Act(p)

Spec == Init /\ [][Next]_vars

-----------------------------------------------------------------------------
(* Every variable has its type. *)
TypeOK ==
  /\ lockFile \in Inodes \cup {NoFile}
  /\ fd \in [Openers -> Inodes \cup {NoFile}]
  /\ holder \in [Inodes -> Openers \cup {NoOne}]
  /\ pc \in [Openers -> {"idle", "opened", "locked", "using", "releasing", "unlocked"}]

(* "Only one process may open a database path at a time": at most one      *)
(* opener is between taking the lock and giving it up, which includes all  *)
(* the time it has the log open.                                           *)
OneOwner ==
  \A p, q \in Openers :
    {pc[p], pc[q]} \subseteq {"locked", "using", "releasing"} => p = q

(* "Locks are released automatically when a process exits": a lock is held *)
(* by an opener that still has its file open, so an idle path can be       *)
(* opened.                                                                 *)
HeldByTheLiving ==
  \A i \in Inodes : holder[i] # NoOne =>
    fd[holder[i]] = i /\ pc[holder[i]] \in {"locked", "using", "releasing", "unlocked"}

(* Why there is one owner: all who have the lock file open have the file   *)
(* that is named so, and who owns the path holds the lock on it.           *)
LockInv ==
  /\ TypeOK
  /\ \A p \in Openers : pc[p] # "idle" => fd[p] = lockFile /\ lockFile \in Inodes
  /\ \A p \in Openers : pc[p] \in {"locked", "using", "releasing"} => holder[lockFile] = p
  /\ HeldByTheLiving
=============================================================================
