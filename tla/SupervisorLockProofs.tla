------------------------ MODULE SupervisorLockProofs ------------------------
(***************************************************************************)
(* What the lock of SupervisorLock guarantees, for any number of programs, *)
(* pids, deaths and faults.                                                *)
(***************************************************************************)
EXTENDS SupervisorLock, TLAPS

\* The inductive invariant.
LockIInv == LockTypeOK /\ LockInv

USE DEF NoFile, Goes, Ends, Alive

\* The root without a lock satisfies it.
LEMMA LockInitInv == LockInit => LockIInv
<1> USE ProcessAssumption, LockBoundAssumption
<1> SUFFICES ASSUME LockInit PROVE LockIInv
  OBVIOUS
<1>1. LockTypeOK
  <2>1. lock \in [by : Process \cup {NULL}, pid : Pid \cup {NULL}]
    BY DEF LockInit
  <2>2. deaths \in 0..MaxDeaths /\ faults \in 0..MaxFaults
    BY DEF LockInit
  <2> QED
    BY <2>1, <2>2 DEF LockInit, LockTypeOK
<1>2. LockInv
  BY DEF LockInit, LockInv, Acquiring, Holds
<1> QED
  BY <1>1, <1>2 DEF LockIInv

\* Every step keeps the types.
LEMMA LockTypeStep == LockTypeOK /\ [LockNext]_lockVars => LockTypeOK'
<1> USE ProcessAssumption, LockBoundAssumption DEF LockTypeOK
<1> SUFFICES ASSUME LockTypeOK, [LockNext]_lockVars PROVE LockTypeOK'
  OBVIOUS
<1>1. CASE UNCHANGED lockVars
  BY <1>1 DEF lockVars
<1>2. ASSUME NEW p \in Process, Start(p) PROVE LockTypeOK'
  BY <1>2 DEF Start
<1>3. ASSUME NEW p \in Process, CreateLock(p) PROVE LockTypeOK'
  BY <1>3 DEF CreateLock
<1>4. ASSUME NEW p \in Process, LockExists(p) PROVE LockTypeOK'
  BY <1>4 DEF LockExists
<1>5. ASSUME NEW p \in Process, WriteLock(p) PROVE LockTypeOK'
  BY <1>5 DEF WriteLock
<1>6. ASSUME NEW p \in Process, ReadOwner(p) PROVE LockTypeOK'
  BY <1>6 DEF ReadOwner
<1>7. ASSUME NEW p \in Process, FindOwnerDead(p) PROVE LockTypeOK'
  BY <1>7 DEF FindOwnerDead
<1>8. ASSUME NEW p \in Process, ClearLock(p) PROVE LockTypeOK'
  BY <1>8 DEF ClearLock
<1>9. ASSUME NEW p \in Process, Refused(p) PROVE LockTypeOK'
  BY <1>9 DEF Refused
<1>10. ASSUME NEW p \in Process, Recovered(p) PROVE LockTypeOK'
  BY <1>10 DEF Recovered
<1>11. ASSUME NEW p \in Process, RecoveryRaises(p) PROVE LockTypeOK'
  BY <1>11 DEF RecoveryRaises
<1>12. ASSUME NEW p \in Process, Shutdown(p) PROVE LockTypeOK'
  BY <1>12 DEF Shutdown
<1>13. ASSUME NEW p \in Process, Release(p) PROVE LockTypeOK'
  BY <1>13 DEF Release
<1>14. ASSUME NEW p \in Process, Die(p) PROVE LockTypeOK'
  BY <1>14 DEF Die
<1> QED
  BY <1>1, <1>2, <1>3, <1>4, <1>5, <1>6, <1>7, <1>8, <1>9, <1>10, <1>11, <1>12, <1>13, <1>14
     DEF LockNext, Step

\* Every step keeps the bookkeeping of the lock: a file is created only where
\* there is none, its pid is read before it is unlinked, and it is unlinked
\* only by its holder or after every holder was found dead.
LEMMA LockInvStep == LockIInv /\ [LockNext]_lockVars => LockInv'
<1> USE ProcessAssumption DEF LockTypeOK, LockInv, Acquiring, Holds
<1> SUFFICES ASSUME LockTypeOK, LockInv, [LockNext]_lockVars PROVE LockInv'
  BY DEF LockIInv
<1>1. CASE UNCHANGED lockVars
  BY <1>1 DEF lockVars
<1>2. ASSUME NEW p \in Process, Start(p) PROVE LockInv'
  <2>1. overlapped' = (overlapped \/ (p \notin ApiOnly /\ \E q \in Process : Acquiring(q)))
    BY <1>2 DEF Start
  <2>2. ~overlapped' =>
            ~overlapped /\ (p \notin ApiOnly => \A q \in Process : ~Acquiring(q))
    BY <2>1
  <2>3. /\ pc[p] = "off"
        /\ pc' = [pc EXCEPT ![p] = IF p \in ApiOnly THEN "recover" ELSE "open"]
        /\ \A q \in Process \ {p} : pid'[q] = pid[q]
        /\ UNCHANGED <<owner, lock>>
    BY <1>2 DEF Start
  <2> QED
    BY <2>2, <2>3
<1>3. ASSUME NEW p \in Process, CreateLock(p) PROVE LockInv'
  BY <1>3 DEF CreateLock
<1>4. ASSUME NEW p \in Process, LockExists(p) PROVE LockInv'
  BY <1>4 DEF LockExists
<1>5. ASSUME NEW p \in Process, WriteLock(p) PROVE LockInv'
  BY <1>5 DEF WriteLock
<1>6. ASSUME NEW p \in Process, ReadOwner(p) PROVE LockInv'
  BY <1>6 DEF ReadOwner
<1>7. ASSUME NEW p \in Process, FindOwnerDead(p) PROVE LockInv'
  BY <1>7 DEF FindOwnerDead, PidIsAlive
<1>8. ASSUME NEW p \in Process, ClearLock(p) PROVE LockInv'
  BY <1>8 DEF ClearLock
<1>9. ASSUME NEW p \in Process, Refused(p) PROVE LockInv'
  BY <1>9 DEF Refused
<1>10. ASSUME NEW p \in Process, Recovered(p) PROVE LockInv'
  BY <1>10 DEF Recovered
<1>11. ASSUME NEW p \in Process, RecoveryRaises(p) PROVE LockInv'
  BY <1>11 DEF RecoveryRaises
<1>12. ASSUME NEW p \in Process, Shutdown(p) PROVE LockInv'
  BY <1>12 DEF Shutdown
<1>13. ASSUME NEW p \in Process, Release(p) PROVE LockInv'
  BY <1>13 DEF Release
<1>14. ASSUME NEW p \in Process, Die(p) PROVE LockInv'
  BY <1>14 DEF Die
<1> QED
  BY <1>1, <1>2, <1>3, <1>4, <1>5, <1>6, <1>7, <1>8, <1>9, <1>10, <1>11, <1>12, <1>13, <1>14
     DEF LockNext, Step

\* So it holds always.
LEMMA LockInvariant == LockSpec => []LockIInv
<1>1. LockIInv /\ [LockNext]_lockVars => LockIInv'
  BY LockTypeStep, LockInvStep DEF LockIInv
<1> QED
  BY LockInitInv, <1>1, PTL DEF LockSpec

\* The variables of the lock and of its processes keep their types.
THEOREM LockTypes == LockSpec => []LockTypeOK
<1>1. LockIInv => LockTypeOK
  BY DEF LockIInv
<1> QED
  BY LockInvariant, <1>1, PTL

\* Programs of one user whose starts do not overlap never hold the lock at the
\* same time, whichever of them dies, fails to recover or shuts down, and
\* whatever pids the system gives them.
THEOREM LockExcludes == LockSpec => []OneHolder
<1>1. LockIInv => OneHolder
  BY DEF LockIInv, LockInv, OneHolder
<1> QED
  BY LockInvariant, <1>1, PTL
=============================================================================
