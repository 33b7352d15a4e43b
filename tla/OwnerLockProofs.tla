-------------------------- MODULE OwnerLockProofs ---------------------------
(* At most one opener owns a path, for any number of openers. *)
EXTENDS OwnerLock, TLAPS

(* The lock starts free, with or without a lock file of an earlier owner. *)
LEMMA LockInit == Init => LockInv
  BY NoFileAssumption, NoOneAssumption DEF Init, LockInv, TypeOK, HeldByTheLiving

(* No step of Open, Close, release or a crash breaks LockInv: none of them *)
(* changes the file behind the name once there is one.                     *)
LEMMA LockStep == LockInv /\ [Next]_vars => LockInv'
<1> SUFFICES ASSUME LockInv, [Next]_vars PROVE LockInv'
  OBVIOUS
<1> USE NoFileAssumption, NoOneAssumption
<1>1. ASSUME NEW p \in Openers, OpenLockFile(p) PROVE LockInv'
  BY <1>1 DEF OpenLockFile, Goto, LockInv, TypeOK, HeldByTheLiving
<1>2. ASSUME NEW p \in Openers, TryLock(p) PROVE LockInv'
  BY <1>2 DEF TryLock, Goto, LockInv, TypeOK, HeldByTheLiving
<1>3. ASSUME NEW p \in Openers, OpenLog(p) PROVE LockInv'
  BY <1>3 DEF OpenLog, Goto, LockInv, TypeOK, HeldByTheLiving
<1>4. ASSUME NEW p \in Openers, CloseLog(p) PROVE LockInv'
  BY <1>4 DEF CloseLog, Goto, LockInv, TypeOK, HeldByTheLiving
<1>5. ASSUME NEW p \in Openers, Unlock(p) PROVE LockInv'
  BY <1>5 DEF Unlock, Goto, LockInv, TypeOK, HeldByTheLiving
<1>6. ASSUME NEW p \in Openers, CloseLockFile(p) PROVE LockInv'
  BY <1>6 DEF CloseLockFile, Released, Goto, LockInv, TypeOK, HeldByTheLiving
<1>7. ASSUME NEW p \in Openers, Crash(p) PROVE LockInv'
  BY <1>7 DEF Crash, Released, Goto, LockInv, TypeOK, HeldByTheLiving
<1>8. CASE UNCHANGED vars
  BY <1>8 DEF vars, LockInv, TypeOK, HeldByTheLiving
<1> QED
  BY <1>1, <1>2, <1>3, <1>4, <1>5, <1>6, <1>7, <1>8 DEF Next, Act

(* Two owners would both hold the lock on the one lock file. *)
LEMMA LockInvOneOwner == LockInv => OneOwner
  BY DEF LockInv, OneOwner

(* acquireFileLock and release give the path to at most one opener. *)
THEOREM OwnerCorrect == Spec => []OneOwner
  BY LockInit, LockStep, LockInvOneOwner, PTL DEF Spec

(* A lock never outlives the opener that took it: whoever holds one is     *)
(* alive, past taking it, and has that very lock file open.                *)
THEOREM LivingCorrect == Spec => []HeldByTheLiving
<1>1. LockInv => HeldByTheLiving
  BY DEF LockInv
<1> QED
  BY <1>1, LockInit, LockStep, PTL DEF Spec
=============================================================================
