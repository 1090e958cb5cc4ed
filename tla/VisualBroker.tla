----------------------------- MODULE VisualBroker -----------------------------
(***************************************************************************)
(* The visual broker (visual_broker.py): launch, capture and stop of one   *)
(* Godot process per session.                                              *)
(*                                                                         *)
(* A session is a state file under the Git common directory, so all        *)
(* worktrees of a repository share it.  It records the pid of the process  *)
(* and its identity, the time it was started, because a pid is given to    *)
(* another process as soon as its own has gone.  The three commands take   *)
(* no lock: each reads the file, acts on the pid, and may write the file.  *)
(*                                                                         *)
(* A process is its place in the order of all processes started, which is  *)
(* also its identity.  A picture is the process whose window it shows.     *)
(***************************************************************************)
EXTENDS Naturals, Sequences

CONSTANTS
    Users,         \* the processes that run broker commands
    Sessions,      \* session names
    Worktrees,     \* the worktrees of the repository
    Contents,      \* what a worktree may hold
    Commits,       \* the contents that are committed and clean
    Pids,          \* process ids of the operating system
    Windows,       \* the platform: Windows or Linux
    MaxStarts,     \* bound: processes started
    MaxDisturbances  \* bound: disturbances

\* A command is killed; two run on one session at the same time; a pid goes to a
\* new process while a command is about to act on it; the operating system refuses
\* to end a process or to write a state file.  Of the visual review: another file
\* cannot be written; a worker touches what is under review.
Kinds == {"crash", "overlap", "reuse", "refused", "fault", "work"}

ASSUME VisualBrokerAssumption ==
    /\ Commits \subseteq Contents
    /\ Windows \in BOOLEAN
    /\ MaxStarts \in Nat
    /\ MaxDisturbances \in Nat

VARIABLES
    disk,      \* what each worktree holds
    born,      \* the processes started so far
    table,     \* the process that has each pid, 0 when none has
    signals,   \* <<s, i>>: a command on session s told process i to end
    record,    \* the state file of each session
    at,        \* what each user's command does next
    call,      \* its session and worktree
    seen,      \* the state file as it was read, or as launch will write it
    outcome,   \* the status it returned
    disturbed  \* what has gone wrong so far, in order

vars == <<disk, born, table, signals, record, at, call, seen, outcome, disturbed>>

Processes == 1..Len(born)
Happened == {disturbed[k] : k \in 1..Len(disturbed)}

Godot(s, w) == [kind |-> "godot", session |-> s, root |-> w, shows |-> disk[w]]
Foreign == [kind |-> "foreign"]

NoRecord == [status |-> "none"]
Record(status, w, pid, i) ==
    [status |-> status, root |-> w, pid |-> pid, identity |-> i]

\* "settle" sleeps after Popen; "save" is about to write RUNNING; "grab" is about
\* to capture; "close" to post WM_CLOSE, "kill" to send SIGTERM; "closing" and
\* "killing" wait for the process to go; "stopped" is about to write STOPPED.
Steps == {"idle", "spawn", "settle", "save", "grab", "close", "closing", "kill",
          "killing", "stopped"}
Outcomes == {"none", "PASS", "FAIL", "UNKNOWN", "raised"}

\* _process_identity: 0 when no process has the pid.
Identity(pid) == table[pid]

\* _owned_process, of a state file that is RUNNING.
Owned(file) ==
    /\ file.status = "RUNNING"
    /\ Identity(file.pid) = file.identity

\* The command holds a pid it has checked, and acts on that pid later.
HasPid(u, pid) ==
    /\ at[u] \in {"grab", "close", "closing", "kill", "killing"}
    /\ seen[u].pid = pid

\* A process just started has the pid reserved while its Popen object lives.
Reserved(pid) ==
    \E u \in Users : at[u] \in {"settle", "save"} /\ seen[u].pid = pid

Disturb(kind) ==
    /\ Len(disturbed) < MaxDisturbances
    /\ disturbed' = Append(disturbed, kind)

DisturbIf(condition, kind) ==
    IF condition THEN Disturb(kind) ELSE UNCHANGED disturbed

-------------------------------------------------------------------------------

Init ==
    /\ disk \in [Worktrees -> Commits]
    /\ born = <<>>
    /\ table = [pid \in Pids |-> 0]
    /\ signals = {}
    /\ record = [s \in Sessions |-> NoRecord]
    /\ at = [u \in Users |-> "idle"]
    /\ call \in [Users -> Sessions \X Worktrees]
    /\ seen = [u \in Users |-> NoRecord]
    /\ outcome = [u \in Users |-> "none"]
    /\ disturbed = <<>>

Goto(u, step) == at' = [at EXCEPT ![u] = step]

\* The command ends with a status, or an exception, and what it knows is gone.
Return(u, status) ==
    /\ Goto(u, "idle")
    /\ outcome' = [outcome EXCEPT ![u] = status]
    /\ seen' = [seen EXCEPT ![u] = NoRecord]

\* The command goes on with what it needs of the state file.
Proceed(u, step, needed) ==
    /\ Goto(u, step)
    /\ outcome' = [outcome EXCEPT ![u] = "none"]
    /\ seen' = [seen EXCEPT ![u] = needed]

\* A command of u on session s is given from worktree w.
Enter(u, s, w) ==
    /\ at[u] = "idle"
    /\ call' = [call EXCEPT ![u] = <<s, w>>]
    /\ DisturbIf(\E v \in Users \ {u} : at[v] # "idle" /\ call[v][1] = s, "overlap")
    /\ UNCHANGED <<disk, born, table, signals, record>>

Signal(u, i) == signals' = signals \union {<<call[u][1], i>>}

\* The new process i takes a free pid.
Take(pid, i) ==
    /\ i <= MaxStarts
    /\ table[pid] = 0
    /\ ~ Reserved(pid)
    /\ table' = [table EXCEPT ![pid] = i]
    /\ DisturbIf(\E u \in Users : HasPid(u, pid), "reuse")

-------------------------------------------------------------------------------
(* launch *)

\* A session whose recorded process still runs is not launched again.
Launch(u, s, w) ==
    /\ Enter(u, s, w)
    /\ IF Owned(record[s])
       THEN Return(u, "raised")
       ELSE Proceed(u, "spawn", NoRecord)

\* Popen, then the startup wait.
Spawn(u) ==
    /\ at[u] = "spawn"
    /\ born' = Append(born, Godot(call[u][1], call[u][2]))
    /\ \E pid \in Pids :
        /\ Take(pid, Len(born'))
        /\ seen' = [seen EXCEPT ![u] = Record("RUNNING", call[u][2], pid, Len(born'))]
    /\ Goto(u, "settle")
    /\ UNCHANGED <<disk, signals, record, call, outcome>>

\* poll() and the identity reader: a process that has exited fails the launch,
\* one that has an identity is recorded next.
Settle(u) ==
    /\ at[u] = "settle"
    /\ IF Identity(seen[u].pid) = 0
       THEN Return(u, "FAIL")
       ELSE Goto(u, "save") /\ UNCHANGED <<seen, outcome>>
    /\ UNCHANGED <<disk, born, table, signals, record, call, disturbed>>

\* Mutant: such a process is left alone.
SettleUnidentifiedLeft(u) ==
    /\ at[u] = "settle"
    /\ Return(u, "FAIL")
    /\ UNCHANGED <<disk, born, table, signals, record, call, disturbed>>

\* The identity is unavailable: the process is told to end and not recorded.
SettleUnidentified(u) ==
    /\ at[u] = "settle"
    /\ Signal(u, seen[u].identity)
    /\ Return(u, "FAIL")
    /\ UNCHANGED <<disk, born, table, record, call, disturbed>>

SaveRunning(u) ==
    /\ at[u] = "save"
    /\ record' = [record EXCEPT ![call[u][1]] = seen[u]]
    /\ Return(u, "PASS")
    /\ UNCHANGED <<disk, born, table, signals, call, disturbed>>

-------------------------------------------------------------------------------
(* capture *)

\* The process must be the recorded one; the worktree need not.
Capture(u, s, w) ==
    /\ Enter(u, s, w)
    /\ IF ~ Owned(record[s])
       THEN Return(u, "raised")
       ELSE IF Windows
       THEN Proceed(u, "grab", record[s])
       ELSE Return(u, "UNKNOWN")

\* The window of the process that has the pid now, when there is one.
Grab(u) ==
    /\ at[u] = "grab"
    /\ table[seen[u].pid] # 0
    /\ Return(u, "PASS")
    /\ UNCHANGED <<disk, born, table, signals, record, call, disturbed>>

\* The process has no window or is gone, or the grab fails.
GrabNothing(u) ==
    /\ at[u] = "grab"
    /\ Return(u, "UNKNOWN")
    /\ UNCHANGED <<disk, born, table, signals, record, call, disturbed>>

-------------------------------------------------------------------------------
(* stop *)

\* Mutant: the pid is used without comparing the identity.
StopAnyPid(u, s, w) ==
    /\ Enter(u, s, w)
    /\ IF record[s].status = "RUNNING"
       THEN Proceed(u, IF Windows THEN "close" ELSE "kill", record[s])
       ELSE Return(u, IF record[s].status = "STOPPED" THEN "PASS" ELSE "raised")

\* A stopped session needs nothing; a process that is not the recorded one is
\* refused; so is a session that does not exist.
Stop(u, s, w) ==
    /\ Enter(u, s, w)
    /\ IF Owned(record[s])
       THEN Proceed(u, IF Windows THEN "close" ELSE "kill", record[s])
       ELSE Return(u, IF record[s].status = "STOPPED" THEN "PASS" ELSE "raised")

\* WM_CLOSE to the window of the process that has the pid, if it has one.
Close(u) ==
    /\ at[u] = "close"
    /\ \/ table[seen[u].pid] # 0 /\ Signal(u, table[seen[u].pid])
       \/ UNCHANGED signals
    /\ Goto(u, "closing")
    /\ UNCHANGED <<disk, born, table, record, call, seen, outcome, disturbed>>

\* A poll finds that no process has the pid.
Gone(u) ==
    /\ at[u] \in {"closing", "killing"}
    /\ Identity(seen[u].pid) = 0
    /\ Goto(u, "stopped")
    /\ UNCHANGED <<disk, born, table, signals, record, call, seen, outcome, disturbed>>

\* The polls found a process each time until the timeout.
CloseTimesOut(u) ==
    /\ at[u] = "closing"
    /\ Goto(u, "kill")
    /\ UNCHANGED <<disk, born, table, signals, record, call, seen, outcome, disturbed>>

\* os.kill(pid, SIGTERM), to the process that has the pid now.
Kill(u) ==
    /\ at[u] = "kill"
    /\ IF table[seen[u].pid] = 0
       THEN Goto(u, "stopped") /\ UNCHANGED signals
       ELSE Goto(u, "killing") /\ Signal(u, table[seen[u].pid])
    /\ UNCHANGED <<disk, born, table, record, call, seen, outcome, disturbed>>

\* Mutant: a stop that timed out is recorded like one that did not.
KillTimesOutStopped(u) ==
    /\ at[u] = "killing"
    /\ Goto(u, "stopped")
    /\ UNCHANGED <<disk, born, table, signals, record, call, seen, outcome, disturbed>>

\* The process is still there after the second timeout.
KillTimesOut(u) ==
    /\ at[u] = "killing"
    /\ Return(u, "FAIL")
    /\ UNCHANGED <<disk, born, table, signals, record, call, disturbed>>

\* The copy that was read is written back as STOPPED.
SaveStopped(u) ==
    /\ at[u] = "stopped"
    /\ record' = [record EXCEPT ![call[u][1]] = [seen[u] EXCEPT !.status = "STOPPED"]]
    /\ Return(u, "PASS")
    /\ UNCHANGED <<disk, born, table, signals, call, disturbed>>

-------------------------------------------------------------------------------
(* What the broker does not decide. *)

Exit(pid) ==
    /\ table[pid] # 0
    /\ table' = [table EXCEPT ![pid] = 0]
    /\ UNCHANGED <<disk, born, signals, record, at, call, seen, outcome, disturbed>>

StartForeign(pid) ==
    /\ born' = Append(born, Foreign)
    /\ Take(pid, Len(born'))
    /\ UNCHANGED <<disk, signals, record, at, call, seen, outcome>>

\* A command is killed between two of its steps.
Crash(u) ==
    /\ at[u] # "idle"
    /\ Disturb("crash")
    /\ Return(u, "raised")
    /\ UNCHANGED <<disk, born, table, signals, record, call>>

\* The identity is unavailable, and the failure to end the process is swallowed;
\* SIGTERM fails and the process is still there; or a state file is not written.
Refused(u) ==
    /\ at[u] \in {"settle", "kill", "save", "stopped"}
    /\ at[u] = "kill" => Identity(seen[u].pid) # 0
    /\ Disturb("refused")
    /\ Return(u, IF at[u] \in {"settle", "kill"} THEN "FAIL" ELSE "raised")
    /\ UNCHANGED <<disk, born, table, signals, record, call>>

Begin(u, s, w) == Launch(u, s, w) \/ Capture(u, s, w) \/ Stop(u, s, w)

\* The steps of a command that has begun, the grab left aside.
Continue(u) ==
    \/ Spawn(u)
    \/ Settle(u)
    \/ SettleUnidentified(u)
    \/ SaveRunning(u)
    \/ GrabNothing(u)
    \/ Close(u)
    \/ Gone(u)
    \/ CloseTimesOut(u)
    \/ Kill(u)
    \/ KillTimesOut(u)
    \/ SaveStopped(u)
    \/ Refused(u)

System == \E pid \in Pids : Exit(pid) \/ StartForeign(pid)

Edit(w) ==
    /\ \E c \in Contents : disk' = [disk EXCEPT ![w] = c]
    /\ UNCHANGED <<born, table, signals, record, at, call, seen, outcome, disturbed>>

Next ==
    \/ System
    \/ \E w \in Worktrees : Edit(w)
    \/ \E u \in Users :
        \/ \E s \in Sessions, w \in Worktrees : Begin(u, s, w)
        \/ Continue(u)
        \/ Grab(u)
        \/ Crash(u)

Spec == Init /\ [][Next]_vars

-------------------------------------------------------------------------------
(* Properties *)

Files == [status : {"RUNNING", "STOPPED"}, root : Worktrees, pid : Pids, identity : Nat]

Born ==
    [kind : {"godot"}, session : Sessions, root : Worktrees, shows : Contents]
        \union {Foreign}

TypeOK ==
    /\ disk \in [Worktrees -> Contents]
    /\ born \in Seq(Born)
    /\ table \in [Pids -> Nat]
    /\ signals \subseteq Sessions \X Nat
    /\ record \in [Sessions -> Files \union {NoRecord}]
    /\ at \in [Users -> Steps]
    /\ call \in [Users -> Sessions \X Worktrees]
    /\ seen \in [Users -> Files \union {NoRecord}]
    /\ outcome \in [Users -> Outcomes]
    /\ disturbed \in Seq(Kinds)

Alive(i) == \E pid \in Pids : table[pid] = i

Signalled(i) == \E s \in Sessions : <<s, i>> \in signals

\* Only a process the broker launched for that session is ever told to end,
\* unless a pid changes hands while a command holds it: crashes, overlapping
\* commands and state files of processes long gone do not make it kill another.
SignalsOwn ==
    "reuse" \notin Happened =>
        \A signal \in signals :
            /\ signal[2] \in Processes
            /\ born[signal[2]].kind = "godot"
            /\ born[signal[2]].session = signal[1]

\* When a session is recorded as STOPPED the process it had is gone, however
\* commands overlap and whatever is killed.
StoppedIsGone ==
    \A s \in Sessions :
        record[s].status = "STOPPED" => ~ Alive(record[s].identity)

Launching(i) == \E u \in Users : at[u] \in {"settle", "save"} /\ seen[u].identity = i

\* As long as no command is killed, no two run on one session at a time, and the
\* operating system refuses no command, every Godot process the broker started and
\* has not told to end can still be stopped: its session records it, or its launch
\* is about to.
LiveIsRecorded ==
    Happened \intersect {"crash", "overlap", "refused"} = {} =>
        \A i \in Processes :
            Alive(i) /\ born[i].kind = "godot" /\ ~ Signalled(i) =>
                \/ Launching(i)
                \/ /\ record[born[i].session].status = "RUNNING"
                   /\ record[born[i].session].identity = i

-------------------------------------------------------------------------------
(* The inductive invariant *)

\* What the steps of each command need the file they know to be.
Launched(u) == at[u] \in {"settle", "save"}
Acting(u) == at[u] \in {"grab", "close", "closing", "kill", "killing", "stopped"}

\* A file names a Godot process of its session, which has had no other pid.
Names(file, s) ==
    /\ file.status = "RUNNING" \/ file.status = "STOPPED"
    /\ file.identity \in Processes
    /\ born[file.identity].kind = "godot"
    /\ born[file.identity].session = s
    /\ \A pid \in Pids : table[pid] = file.identity => pid = file.pid

RecordsName ==
    \A s \in Sessions :
        record[s] # NoRecord =>
            /\ Names(record[s], s)
            /\ record[s].status = "STOPPED" => ~ Alive(record[s].identity)

CommandNames(u) ==
    /\ at[u] \in {"idle", "spawn"} => seen[u] = NoRecord
    /\ Launched(u) \/ Acting(u) =>
        seen[u] # NoRecord /\ seen[u].status = "RUNNING" /\ Names(seen[u], call[u][1])
    /\ Launched(u) => table[seen[u].pid] \in {0, seen[u].identity}
    /\ at[u] = "stopped" => ~ Alive(seen[u].identity)

CommandsName == \A u \in Users : CommandNames(u)

\* A pid that a command holds has not gone to another process.
PidsKept ==
    "reuse" \notin Happened =>
        \A u \in Users, pid \in Pids :
            HasPid(u, pid) => table[pid] \in {0, seen[u].identity}

\* One command per session: the file is as that command read it, and while it
\* launches, the process the file names is gone.
OnePerSession ==
    "overlap" \notin Happened =>
        \A u \in Users :
            /\ \A v \in Users : at[u] # "idle" /\ at[v] # "idle" /\ call[u][1] = call[v][1]
                                    => u = v
            /\ Acting(u) => record[call[u][1]] = seen[u]
            /\ at[u] = "spawn" \/ Launched(u) =>
                record[call[u][1]] = NoRecord \/ ~ Alive(record[call[u][1]].identity)

BrokerInv ==
    /\ TypeOK
    /\ \A pid \in Pids : table[pid] \in {0} \union Processes
    /\ RecordsName
    /\ CommandsName
    /\ PidsKept
    /\ SignalsOwn
    /\ OnePerSession
    /\ LiveIsRecorded
===============================================================================
