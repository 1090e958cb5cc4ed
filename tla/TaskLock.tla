------------------------------- MODULE TaskLock -------------------------------
(***************************************************************************)
(* The per-task lock of the OVP runtime (ovp_runtime.py, _task_lock) and   *)
(* the read-modify-write of the task manifest it is there to protect.      *)
(*                                                                         *)
(* The lock is a file made with O_CREAT | O_EXCL.  A waiter that finds it  *)
(* reads its modification time; a lock older than LOCK_STALE_SECONDS is    *)
(* unlinked and the waiter tries again, a younger one is polled until      *)
(* LOCK_WAIT_SECONDS have passed.  The holder unlinks the path when its    *)
(* command ends, whoever made the file that is there by then.              *)
(*                                                                         *)
(* The manifest is abstracted to the number of updates of each process it  *)
(* holds: a command loads it, adds one update of its own and saves the     *)
(* whole copy back.                                                        *)
(***************************************************************************)
EXTENDS Naturals

CONSTANTS
    Procs,        \* the processes that run commands on one task
    MaxOps,           \* bound: commands a process completes
    MaxDisturbances   \* bound: commands killed, or slower than the stale limit

ASSUME TaskLockAssumption ==
    /\ MaxOps \in Nat
    /\ MaxDisturbances \in Nat

VARIABLES
    lock,      \* the lock file: absent, young, or older than the stale limit
    creator,   \* the process whose open() made the lock file that is there
    pc,        \* what each process does next
    copy,      \* the manifest as each process loaded it
    manifest,  \* the manifest on disk: how many updates of each process
    done,      \* how many saves of each process returned
    disturbances  \* commands killed or too slow so far

vars == <<lock, creator, pc, copy, manifest, done, disturbances>>

LockStates == {"absent", "young", "stale"}

\* "idle" no command; "open" about to open O_EXCL; "stat" found the file;
\* "unlink" saw a stale time; "load" and "save" hold the lock; "release" saved.
Steps == {"idle", "open", "stat", "unlink", "load", "save", "release"}

\* The command body: the statements under "with _task_lock(...)".
Inside(p) == pc[p] \in {"load", "save", "release"}

Goto(p, step) == pc' = [pc EXCEPT ![p] = step]

NoUpdates == [p \in Procs |-> 0]

-------------------------------------------------------------------------------

Init ==
    /\ lock = "absent"
    /\ creator \in Procs
    /\ pc = [p \in Procs |-> "idle"]
    /\ copy = [p \in Procs |-> NoUpdates]
    /\ manifest = NoUpdates
    /\ done = NoUpdates
    /\ disturbances = 0

\* A command on the task starts; the deadline is set.
Start(p) ==
    /\ pc[p] = "idle"
    /\ done[p] < MaxOps
    /\ Goto(p, "open")
    /\ UNCHANGED <<lock, creator, copy, manifest, done, disturbances>>

\* Mutant: the file is created without O_EXCL.
AcquireWithoutExcl(p) ==
    /\ pc[p] = "open"
    /\ lock' = "young"
    /\ creator' = p
    /\ Goto(p, "load")
    /\ UNCHANGED <<copy, manifest, done, disturbances>>

\* os.open(O_CREAT | O_EXCL) succeeds only when no lock file is there.
Acquire(p) ==
    /\ pc[p] = "open"
    /\ lock = "absent"
    /\ lock' = "young"
    /\ creator' = p
    /\ Goto(p, "load")
    /\ UNCHANGED <<copy, manifest, done, disturbances>>

\* FileExistsError: look at the file next.
FindLocked(p) ==
    /\ pc[p] = "open"
    /\ lock # "absent"
    /\ Goto(p, "stat")
    /\ UNCHANGED <<lock, creator, copy, manifest, done, disturbances>>

\* Mutant: the comparison of the age with the limit is dropped.
StatAnyAge(p) ==
    /\ pc[p] = "stat"
    /\ Goto(p, IF lock # "absent" THEN "unlink" ELSE "open")
    /\ UNCHANGED <<lock, creator, copy, manifest, done, disturbances>>

\* stat(): the file went away (FileNotFoundError: try again), is stale
\* (unlink it next), or is young (sleep and try again).
Stat(p) ==
    /\ pc[p] = "stat"
    /\ Goto(p, IF lock = "stale" THEN "unlink" ELSE "open")
    /\ UNCHANGED <<lock, creator, copy, manifest, done, disturbances>>

\* stat() finds a young file after the deadline: RuntimeError, "locked".
GiveUp(p) ==
    /\ pc[p] = "stat"
    /\ lock = "young"
    /\ Goto(p, "idle")
    /\ UNCHANGED <<lock, creator, copy, manifest, done, disturbances>>

\* Mutant: a stale lock is polled like a young one and never removed.
UnlinkNothing(p) ==
    /\ pc[p] = "unlink"
    /\ Goto(p, "open")
    /\ UNCHANGED <<lock, creator, copy, manifest, done, disturbances>>

\* unlink() removes the file that is at the path now, which need not be the
\* one whose time was read; a file already gone is FileNotFoundError.
UnlinkStale(p) ==
    /\ pc[p] = "unlink"
    /\ lock' = "absent"
    /\ Goto(p, "open")
    /\ UNCHANGED <<creator, copy, manifest, done, disturbances>>

\* _load_manifest
Load(p) ==
    /\ pc[p] = "load"
    /\ copy' = [copy EXCEPT ![p] = manifest]
    /\ Goto(p, "save")
    /\ UNCHANGED <<lock, creator, manifest, done, disturbances>>

\* _save_manifest: the whole copy with this command's update, atomically.
Save(p) ==
    /\ pc[p] = "save"
    /\ manifest' = [copy[p] EXCEPT ![p] = @ + 1]
    /\ done' = [done EXCEPT ![p] = @ + 1]
    /\ Goto(p, "release")
    /\ UNCHANGED <<lock, creator, copy, disturbances>>

\* The body raises or returns before it saves: the finally clause still runs.
Refuse(p) ==
    /\ pc[p] \in {"load", "save"}
    /\ Goto(p, "release")
    /\ UNCHANGED <<lock, creator, copy, manifest, done, disturbances>>

\* finally: the path is unlinked whoever made the file that is there.
Release(p) ==
    /\ pc[p] = "release"
    /\ lock' = "absent"
    /\ Goto(p, "idle")
    /\ UNCHANGED <<creator, copy, manifest, done, disturbances>>

-------------------------------------------------------------------------------
(* What the processes do not decide. *)

\* More than LOCK_STALE_SECONDS pass since the file was made, by a process that
\* is no longer in its command: it was killed, or lost the file and went on.
GrowStale ==
    /\ lock = "young"
    /\ ~ Inside(creator)
    /\ lock' = "stale"
    /\ UNCHANGED <<creator, pc, copy, manifest, done, disturbances>>

Disturb ==
    /\ disturbances < MaxDisturbances
    /\ disturbances' = disturbances + 1

\* The same under a command that is still running.
Overrun ==
    /\ lock = "young"
    /\ Inside(creator)
    /\ Disturb
    /\ lock' = "stale"
    /\ UNCHANGED <<creator, pc, copy, manifest, done>>

\* A process is killed: nothing runs its finally clause.
Crash(p) ==
    /\ pc[p] # "idle"
    /\ Disturb
    /\ Goto(p, "idle")
    /\ UNCHANGED <<lock, creator, copy, manifest, done>>

Command(p) ==
    \/ Acquire(p)
    \/ FindLocked(p)
    \/ Stat(p)
    \/ GiveUp(p)
    \/ UnlinkStale(p)
    \/ Load(p)
    \/ Save(p)
    \/ Refuse(p)
    \/ Release(p)

Next ==
    \/ GrowStale
    \/ Overrun
    \/ \E p \in Procs : Start(p) \/ Command(p) \/ Crash(p)

\* A running command makes progress, time passes, and a process that has work
\* left tries again.  The operating system schedules all three; nothing
\* prevents a waiter from losing every race for the file.
Fairness ==
    /\ WF_vars(GrowStale)
    /\ \A p \in Procs : WF_vars(Start(p)) /\ WF_vars(Command(p))

Spec == Init /\ [][Next]_vars

FairSpec == Spec /\ Fairness

-------------------------------------------------------------------------------
(* Properties *)

TypeOK ==
    /\ lock \in LockStates
    /\ creator \in Procs
    /\ pc \in [Procs -> Steps]
    /\ copy \in [Procs -> [Procs -> Nat]]
    /\ manifest \in [Procs -> Nat]
    /\ done \in [Procs -> Nat]
    /\ disturbances \in Nat

Undisturbed == disturbances = 0

\* At most one process is in the body of "with _task_lock", as long as no
\* command was killed or ran past the stale limit.
MutualExclusion ==
    Undisturbed => \A p, q \in Procs : Inside(p) /\ Inside(q) => p = q

\* As long as that holds every save that returned is still in the manifest: no
\* command overwrote another's transition with a copy it had loaded before.
NoLostUpdate ==
    Undisturbed => \A p \in Procs : manifest[p] = done[p]

\* The same with no condition, as the documentation has it: "concurrent state
\* transitions do not silently overwrite each other".
NothingOverwritten ==
    \A p \in Procs : manifest[p] = done[p]

\* Until then the lock file is exactly the mark of the one command that runs, it
\* is not old, nobody is about to unlink it, and the copy the command is about
\* to write back is the manifest on disk.  This is what makes the properties
\* above inductive.
LockInv ==
    /\ TypeOK
    /\ Undisturbed =>
        /\ lock \in {"absent", "young"}
        /\ \A p \in Procs :
            /\ pc[p] # "unlink"
            /\ Inside(p) <=> lock = "young" /\ creator = p
            /\ pc[p] = "save" => copy[p] = manifest
        /\ NoLostUpdate

\* A lock file does not outlive its command for ever: it is removed again,
\* whatever crashed, as long as some process still has work for the task.
LockIsFreed ==
    lock # "absent" ~> \/ lock = "absent"
                       \/ \A p \in Procs : done[p] >= MaxOps
===============================================================================
