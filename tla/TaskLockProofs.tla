---------------------------- MODULE TaskLockProofs ----------------------------
(***************************************************************************)
(* The lock of ovp_runtime.py serialises the commands on a task until one  *)
(* is killed or holds the lock past LOCK_STALE_SECONDS, for any set of     *)
(* processes and any number of commands.                                   *)
(***************************************************************************)
EXTENDS TaskLock, TLAPS

\* Until a command is killed or too slow, the lock file marks the one running
\* command and its copy of the manifest is the one on disk.
THEOREM LockInvariant == Spec => []LockInv
<1> USE DEF Undisturbed, LockInv, TypeOK, NoLostUpdate, Inside,
        LockStates, Steps, NoUpdates
<1>1. Init => LockInv
  BY DEF Init
<1>2. LockInv /\ [Next]_vars => LockInv'
  <2> SUFFICES ASSUME LockInv, [Next]_vars PROVE LockInv'
    OBVIOUS
  <2> USE DEF Goto
  <2>1. CASE GrowStale
    BY <2>1 DEF GrowStale
  <2>2. ASSUME NEW p \in Procs, Start(p) PROVE LockInv'
    BY <2>2 DEF Start
  <2>3. ASSUME NEW p \in Procs, Acquire(p) PROVE LockInv'
    BY <2>3 DEF Acquire
  <2>4. ASSUME NEW p \in Procs, FindLocked(p) PROVE LockInv'
    BY <2>4 DEF FindLocked
  <2>5. ASSUME NEW p \in Procs, Stat(p) PROVE LockInv'
    BY <2>5 DEF Stat
  <2>6. ASSUME NEW p \in Procs, GiveUp(p) PROVE LockInv'
    BY <2>6 DEF GiveUp
  <2>7. ASSUME NEW p \in Procs, UnlinkStale(p) PROVE LockInv'
    BY <2>7 DEF UnlinkStale
  <2>8. ASSUME NEW p \in Procs, Load(p) PROVE LockInv'
    BY <2>8 DEF Load
  <2>9. ASSUME NEW p \in Procs, Save(p) PROVE LockInv'
    BY <2>9 DEF Save
  <2>10. ASSUME NEW p \in Procs, Refuse(p) PROVE LockInv'
    BY <2>10 DEF Refuse
  <2>11. ASSUME NEW p \in Procs, Release(p) PROVE LockInv'
    BY <2>11 DEF Release
  <2>12. ASSUME NEW p \in Procs, Crash(p) PROVE LockInv'
    BY <2>12 DEF Crash, Disturb
  <2>13. CASE Overrun
    BY <2>13 DEF Overrun, Disturb
  <2>14. CASE UNCHANGED vars
    BY <2>14 DEF vars
  <2> QED
    BY <2>1, <2>2, <2>3, <2>4, <2>5, <2>6, <2>7, <2>8, <2>9, <2>10, <2>11,
       <2>12, <2>13, <2>14 DEF Next, Command
<1> QED
  BY <1>1, <1>2, PTL DEF Spec

\* No two commands on the same task are ever under "with _task_lock" together.
THEOREM LockExcludes == Spec => []MutualExclusion
<1>1. LockInv => MutualExclusion
  BY DEF LockInv, MutualExclusion
<1> QED
  BY <1>1, LockInvariant, PTL

\* No transition that was saved is overwritten by a stale copy of the manifest.
THEOREM LockKeepsUpdates == Spec => []NoLostUpdate
<1>1. LockInv => NoLostUpdate
  BY DEF LockInv, NoLostUpdate, Undisturbed
<1> QED
  BY <1>1, LockInvariant, PTL

\* Until then a command is one atomic update of the manifest on disk: nothing but
\* a save changes it, and a save adds its update to what is there, not to what
\* was there when the command loaded it.  OvpRuntime, whose commands keep no copy,
\* takes that for granted.
THEOREM UpdatesAreAtomic ==
  Spec => [][Undisturbed
               => \E p \in Procs :
                    manifest' = [manifest EXCEPT ![p] = @ + 1]]_manifest
<1>1. LockInv /\ [Next]_vars
        => [Undisturbed
              => \E p \in Procs :
                   manifest' = [manifest EXCEPT ![p] = @ + 1]]_manifest
  <2> SUFFICES ASSUME LockInv, [Next]_vars, Undisturbed, manifest' # manifest
               PROVE  \E p \in Procs : manifest' = [manifest EXCEPT ![p] = @ + 1]
    OBVIOUS
  <2>1. PICK p \in Procs : Save(p)
    BY DEF Next, Command, vars, GrowStale, Overrun, Start, Crash, Acquire,
           FindLocked, Stat, GiveUp, UnlinkStale, Load, Refuse, Release
  <2>2. copy[p] = manifest
    BY <2>1 DEF Save, LockInv
  <2> QED
    BY <2>1, <2>2 DEF Save
<1> QED
  BY <1>1, LockInvariant, PTL DEF Spec
===============================================================================
