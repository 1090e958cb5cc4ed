----------------------------- MODULE VisualProofs -----------------------------
(***************************************************************************)
(* What the broker of visual_broker.py may do to processes, and what the   *)
(* review of ovp_visual_review.py on top of it may accept, for any users,  *)
(* sessions, worktrees and pids, and any number of processes.              *)
(***************************************************************************)
EXTENDS VisualReview, TLAPS

\* Which steps write what.
LEMMA Writers ==
    ASSUME [Next]_vars
    PROVE  /\ UNCHANGED <<born, table>> \/ (\E u \in Users : Spawn(u)) \/ System
           /\ UNCHANGED record \/ \E u \in Users : SaveRunning(u) \/ SaveStopped(u)
           /\ \/ UNCHANGED signals
              \/ \E u \in Users : SettleUnidentified(u) \/ Close(u) \/ Kill(u)
           /\ \/ UNCHANGED disturbed
              \/ \E u \in Users :
                    \/ \E s \in Sessions, w \in Worktrees : Begin(u, s, w)
                    \/ Spawn(u) \/ Crash(u) \/ Refused(u)
              \/ System
<1>1. ASSUME NEW u \in Users, NEW s \in Sessions, NEW w \in Worktrees, Begin(u, s, w)
      PROVE  UNCHANGED <<born, table, record, signals>>
  BY <1>1 DEF Begin, Launch, Capture, Stop, Enter
<1>2. ASSUME NEW u \in Users, Spawn(u)
      PROVE  UNCHANGED <<record, signals>>
  BY <1>2 DEF Spawn
<1>3. ASSUME NEW u \in Users, SaveRunning(u) \/ SaveStopped(u)
      PROVE  UNCHANGED <<born, table, signals, disturbed>>
  BY <1>3 DEF SaveRunning, SaveStopped
<1>4. ASSUME NEW u \in Users, SettleUnidentified(u) \/ Close(u) \/ Kill(u)
      PROVE  UNCHANGED <<born, table, record, disturbed>>
  BY <1>4 DEF SettleUnidentified, Close, Kill
<1>5. ASSUME NEW u \in Users, Crash(u) \/ Refused(u)
      PROVE  UNCHANGED <<born, table, record, signals>>
  BY <1>5 DEF Crash, Refused
<1>6. ASSUME NEW u \in Users, \/ Settle(u) \/ Grab(u) \/ GrabNothing(u) \/ Gone(u)
                              \/ CloseTimesOut(u) \/ KillTimesOut(u)
      PROVE  UNCHANGED <<born, table, record, signals, disturbed>>
  BY <1>6 DEF Settle, Grab, GrabNothing, Gone, CloseTimesOut, KillTimesOut
<1>7. ASSUME (\E w \in Worktrees : Edit(w)) \/ UNCHANGED vars
      PROVE  UNCHANGED <<born, table, record, signals, disturbed>>
  BY <1>7 DEF Edit, vars
<1>8. System => UNCHANGED <<record, signals>>
  BY DEF System, Exit, StartForeign
<1> QED
  BY <1>1, <1>2, <1>3, <1>4, <1>5, <1>6, <1>7, <1>8 DEF Next, Continue

\* What any step does to the processes: one ends, or a new one takes a pid.
Grows ==
    \/ /\ born' = born
       /\ \A pid \in Pids : table'[pid] \in {table[pid], 0}
    \/ /\ \E b \in Born : born' = Append(born, b)
       /\ \A pid \in Pids : table'[pid] \in {table[pid], Len(born) + 1}

LEMMA NextGrows == BrokerInv /\ [Next]_vars => Grows
<1> SUFFICES ASSUME BrokerInv, [Next]_vars PROVE Grows
  OBVIOUS
<1> USE DEF BrokerInv, TypeOK
<1>1. ASSUME NEW pid \in Pids, StartForeign(pid) PROVE Grows
  <2>1. Foreign \in Born /\ born' = Append(born, Foreign)
    BY <1>1 DEF StartForeign, Born
  <2>2. Len(born') = Len(born) + 1
    BY <2>1
  <2> QED
    BY <1>1, <2>1, <2>2 DEF Grows, StartForeign, Take
<1>2. ASSUME NEW u \in Users, Spawn(u) PROVE Grows
  <2>1. Godot(call[u][1], call[u][2]) \in Born
    BY DEF Born, Godot
  <2>2. born' = Append(born, Godot(call[u][1], call[u][2]))
    BY <1>2 DEF Spawn
  <2>3. Len(born') = Len(born) + 1
    BY <2>1, <2>2
  <2> QED
    BY <1>2, <2>1, <2>2, <2>3 DEF Grows, Spawn, Take
<1>3. ASSUME NEW pid \in Pids, Exit(pid) PROVE Grows
  BY <1>3 DEF Exit, Grows
<1>4. ASSUME UNCHANGED <<born, table>> PROVE Grows
  BY <1>4 DEF Grows
<1> QED
  BY <1>1, <1>2, <1>3, <1>4, Writers DEF System

\* A file goes on naming its process, and a process that has gone stays gone.
LEMMA NamesStay ==
    ASSUME BrokerInv, Grows, NEW f, NEW s, Names(f, s)
    PROVE  /\ Names(f, s)'
           /\ ~ Alive(f.identity) => ~ Alive(f.identity)'
<1> USE DEF BrokerInv, TypeOK, Names, Processes, Alive
<1>1. f.identity \in 1..Len(born) /\ Len(born) \in Nat
  OBVIOUS
<1>2. CASE born' = born /\ \A pid \in Pids : table'[pid] \in {table[pid], 0}
  BY <1>1, <1>2
<1>3. CASE /\ \E b \in Born : born' = Append(born, b)
           /\ \A pid \in Pids : table'[pid] \in {table[pid], Len(born) + 1}
  <2>1. PICK b \in Born : born' = Append(born, b)
    BY <1>3
  <2>2. Len(born') = Len(born) + 1
    BY <2>1
  <2>3. born'[f.identity] = born[f.identity]
    BY <2>1, <1>1
  <2>4. f.identity # Len(born) + 1
    BY <1>1
  <2> QED
    BY <1>1, <1>3, <2>2, <2>3, <2>4
<1> QED
  BY <1>2, <1>3 DEF Grows

\* What has gone wrong stays on record, and a disturbance adds its kind.
LEMMA DisturbRecords ==
    ASSUME TypeOK, NEW kind \in Kinds, Disturb(kind)
    PROVE  Happened' = Happened \union {kind} /\ disturbed' \in Seq(Kinds)
<1> USE DEF TypeOK, Disturb
<1>1. disturbed' = Append(disturbed, kind) /\ Len(disturbed) \in Nat
  OBVIOUS
<1>2. Len(disturbed') = Len(disturbed) + 1 /\ disturbed'[Len(disturbed) + 1] = kind
  BY <1>1
<1>3. \A k \in 1..Len(disturbed) : disturbed'[k] = disturbed[k]
  BY <1>1
<1>4. \A k \in 1..(Len(disturbed) + 1) :
        k \in 1..Len(disturbed) \/ k = Len(disturbed) + 1
  BY <1>1
<1> QED
  BY <1>1, <1>2, <1>3, <1>4 DEF Happened

LEMMA DisturbIfRecords ==
    ASSUME TypeOK, NEW kind \in Kinds, NEW condition \in BOOLEAN, DisturbIf(condition, kind)
    PROVE  /\ Happened \subseteq Happened'
           /\ condition => kind \in Happened'
           /\ disturbed' \in Seq(Kinds)
<1>1. CASE condition
  BY <1>1, DisturbRecords DEF DisturbIf
<1>2. CASE ~ condition
  BY <1>2 DEF DisturbIf, Happened, TypeOK
<1> QED
  BY <1>1, <1>2

\* A command that begins on a session that has one running is an overlap.
LEMMA EnterRecords ==
    ASSUME TypeOK, NEW u \in Users, NEW s \in Sessions, NEW w \in Worktrees, Enter(u, s, w)
    PROVE  /\ Happened \subseteq Happened'
           /\ "overlap" \notin Happened' =>
                \A v \in Users \ {u} : at[v] # "idle" => call[v][1] # s
           /\ disturbed' \in Seq(Kinds)
  BY DisturbIfRecords DEF Enter, Kinds

\* So is a pid taken from under a command a reuse.
LEMMA TakeRecords ==
    ASSUME TypeOK, NEW pid \in Pids, NEW i, Take(pid, i)
    PROVE  /\ Happened \subseteq Happened'
           /\ "reuse" \notin Happened' => \A u \in Users : ~ HasPid(u, pid)
           /\ disturbed' \in Seq(Kinds)
  BY DisturbIfRecords DEF Take, Kinds

\* What the first step of a command does.
Begins(u, s, w, step, status, known) ==
    /\ Enter(u, s, w)
    /\ at' = [at EXCEPT ![u] = step]
    /\ outcome' = [outcome EXCEPT ![u] = status]
    /\ seen' = [seen EXCEPT ![u] = known]
    /\ \/ step = "idle" /\ known = NoRecord
       \/ step = "spawn" /\ known = NoRecord /\ ~ Owned(record[s])
       \/ /\ step \in {"grab", "close", "kill"}
          /\ known = record[s]
          /\ Owned(record[s])

LEMMA BeginBegins ==
    ASSUME NEW u \in Users, NEW s \in Sessions, NEW w \in Worktrees, Begin(u, s, w)
    PROVE  \E step \in Steps, status \in Outcomes, known \in {NoRecord, record[s]} :
                Begins(u, s, w, step, status, known)
<1> USE DEF Begins, Return, Proceed, Goto, Steps, Outcomes
<1>1. CASE Launch(u, s, w)
  BY <1>1 DEF Launch
<1>2. CASE Capture(u, s, w)
  BY <1>2 DEF Capture
<1>3. CASE Stop(u, s, w)
  <2>1. CASE Owned(record[s])
    BY <1>3, <2>1 DEF Stop
  <2>2. CASE ~ Owned(record[s])
    BY <1>3, <2>2 DEF Stop
  <2> QED
    BY <2>1, <2>2
<1> QED
  BY <1>1, <1>2, <1>3 DEF Begin

LEMMA TypesKept == BrokerInv /\ [Next]_vars => TypeOK'
<1> SUFFICES ASSUME BrokerInv, [Next]_vars PROVE TypeOK'
  OBVIOUS
<1> USE DEF BrokerInv, TypeOK
<1> USE DEF Return, Proceed, Goto, Signal, Steps, Outcomes
<1>1. ASSUME NEW u \in Users, NEW s \in Sessions, NEW w \in Worktrees, Begin(u, s, w)
      PROVE TypeOK'
  <2>1. PICK step \in Steps, status \in Outcomes, known \in {NoRecord, record[s]} :
            Begins(u, s, w, step, status, known)
    BY <1>1, BeginBegins
  <2>2. disturbed' \in Seq(Kinds)
    BY <2>1, EnterRecords DEF Begins
  <2> QED
    BY <2>1, <2>2 DEF Begins, Enter
<1>4. ASSUME NEW u \in Users, Spawn(u) PROVE TypeOK'
  <2>1. Godot(call[u][1], call[u][2]) \in Born
    BY DEF Born, Godot
  <2>2. born' \in Seq(Born) /\ Len(born') \in Nat
    BY <1>4, <2>1 DEF Spawn
  <2>3. PICK pid \in Pids :
          /\ Take(pid, Len(born'))
          /\ seen' = [seen EXCEPT ![u] = Record("RUNNING", call[u][2], pid, Len(born'))]
    BY <1>4 DEF Spawn
  <2>4. Record("RUNNING", call[u][2], pid, Len(born')) \in Files
    BY <2>2 DEF Record, Files
  <2>5. disturbed' \in Seq(Kinds)
    BY <2>3, TakeRecords
  <2> QED
    BY <1>4, <2>2, <2>3, <2>4, <2>5 DEF Spawn, Take
<1>5. ASSUME NEW u \in Users, Settle(u) PROVE TypeOK'
  BY <1>5 DEF Settle
<1>6. ASSUME NEW u \in Users, SettleUnidentified(u) PROVE TypeOK'
  <2>1. seen[u] \in Files
    BY <1>6 DEF SettleUnidentified, CommandsName, CommandNames, Launched
  <2> QED
    BY <1>6, <2>1 DEF SettleUnidentified, Files
<1>7. ASSUME NEW u \in Users, SaveRunning(u) PROVE TypeOK'
  BY <1>7 DEF SaveRunning
<1>8. ASSUME NEW u \in Users, Grab(u) \/ GrabNothing(u) PROVE TypeOK'
  BY <1>8 DEF Grab, GrabNothing
<1>9. ASSUME NEW u \in Users, Close(u) \/ Kill(u) PROVE TypeOK'
  <2>1. seen[u] \in Files
    BY <1>9 DEF Close, Kill, CommandsName, CommandNames, Acting
  <2>2. table[seen[u].pid] \in Nat
    BY <2>1 DEF Files
  <2>3. CASE Close(u)
    BY <2>2, <2>3 DEF Close
  <2>4. CASE Kill(u) /\ table[seen[u].pid] = 0
    BY <2>4 DEF Kill
  <2>5. CASE Kill(u) /\ table[seen[u].pid] # 0
    <3>1. signals' \subseteq Sessions \X Nat
      BY <2>2, <2>5 DEF Kill
    <3> QED
      BY <2>5, <3>1 DEF Kill
  <2> QED
    BY <1>9, <2>3, <2>4, <2>5
<1>10. ASSUME NEW u \in Users, Gone(u) \/ CloseTimesOut(u) PROVE TypeOK'
  BY <1>10 DEF Gone, CloseTimesOut
<1>11. ASSUME NEW u \in Users, KillTimesOut(u) PROVE TypeOK'
  BY <1>11 DEF KillTimesOut
<1>12. ASSUME NEW u \in Users, SaveStopped(u) PROVE TypeOK'
  <2>1. seen[u] \in Files
    BY <1>12 DEF SaveStopped, CommandsName, CommandNames, Acting
  <2>2. [seen[u] EXCEPT !.status = "STOPPED"] \in Files
    BY <2>1 DEF Files
  <2> QED
    BY <1>12, <2>2 DEF SaveStopped
<1>13. ASSUME NEW pid \in Pids, Exit(pid) PROVE TypeOK'
  BY <1>13 DEF Exit
<1>14. ASSUME NEW pid \in Pids, StartForeign(pid) PROVE TypeOK'
  <2>1. born' \in Seq(Born) /\ Len(born') \in Nat
    BY <1>14 DEF StartForeign, Born
  <2>2. disturbed' \in Seq(Kinds)
    BY <1>14, TakeRecords DEF StartForeign
  <2> QED
    BY <1>14, <2>1, <2>2 DEF StartForeign, Take
<1>15. ASSUME NEW u \in Users, Crash(u) \/ Refused(u) PROVE TypeOK'
  <2>1. disturbed' \in Seq(Kinds)
    BY <1>15, DisturbRecords DEF Crash, Refused, Kinds
  <2> QED
    BY <1>15, <2>1 DEF Crash, Refused
<1>16. ASSUME NEW w \in Worktrees, Edit(w) PROVE TypeOK'
  BY <1>16 DEF Edit
<1>17. CASE UNCHANGED vars
  BY <1>17 DEF vars
<1> QED
  BY <1>1, <1>4, <1>5, <1>6, <1>7, <1>8, <1>9, <1>10, <1>11, <1>12, <1>13, <1>14,
     <1>15, <1>16, <1>17 DEF Next, System, Continue

LEMMA PidsStay == BrokerInv /\ Grows => \A pid \in Pids : table'[pid] \in {0} \union Processes'
<1> SUFFICES ASSUME BrokerInv, Grows PROVE \A pid \in Pids : table'[pid] \in {0} \union Processes'
  OBVIOUS
<1> USE DEF BrokerInv, TypeOK, Processes
<1>1. CASE born' = born /\ \A pid \in Pids : table'[pid] \in {table[pid], 0}
  BY <1>1
<1>2. CASE /\ \E b \in Born : born' = Append(born, b)
           /\ \A pid \in Pids : table'[pid] \in {table[pid], Len(born) + 1}
  <2>1. Len(born') = Len(born) + 1 /\ Len(born) \in Nat
    BY <1>2
  <2> QED
    BY <1>2, <2>1
<1> QED
  BY <1>1, <1>2 DEF Grows

\* The files name their processes: a command writes what it launched, or marks
\* as STOPPED what it has seen gone.
LEMMA RecordsStay == BrokerInv /\ [Next]_vars => RecordsName'
<1> SUFFICES ASSUME BrokerInv, [Next]_vars PROVE RecordsName'
  OBVIOUS
<1> USE DEF BrokerInv
<1>1. Grows
  BY NextGrows
<1>2. CASE UNCHANGED record
  <2> SUFFICES ASSUME NEW s \in Sessions, record[s] # NoRecord
               PROVE  /\ Names(record[s], s)'
                      /\ record[s].status = "STOPPED" => ~ Alive(record[s].identity)'
    BY <1>2 DEF RecordsName
  <2>1. PICK f : f = record[s]
    OBVIOUS
  <2>2. Names(f, s) /\ (f.status = "STOPPED" => ~ Alive(f.identity))
    BY <2>1 DEF RecordsName
  <2>3. Names(f, s)' /\ (~ Alive(f.identity) => ~ Alive(f.identity)')
    BY <1>1, <2>2, NamesStay
  <2>4. record'[s] = f
    BY <1>2, <2>1
  <2> QED
    BY <2>1, <2>2, <2>3, <2>4 DEF Names, Alive
<1>3. ASSUME NEW u \in Users, SaveRunning(u) \/ SaveStopped(u) PROVE RecordsName'
  <2>1. PICK f : f = seen[u]
    OBVIOUS
  <2>2. PICK t : t = call[u][1]
    OBVIOUS
  <2>3. Names(f, t) /\ f.status = "RUNNING" /\ f \in Files
    BY <1>3, <2>1, <2>2 DEF SaveRunning, SaveStopped, CommandsName, CommandNames, Launched, Acting, TypeOK
  <2>4. UNCHANGED <<born, table>>
    BY <1>3 DEF SaveRunning, SaveStopped
  <2> SUFFICES ASSUME NEW s \in Sessions, record'[s] # NoRecord
               PROVE  /\ Names(record[s], s)'
                      /\ record'[s].status = "STOPPED" => ~ Alive(record[s].identity)'
    BY DEF RecordsName
  <2>5. CASE s # t
    <3>1. record'[s] = record[s]
      BY <1>3, <2>2, <2>5 DEF SaveRunning, SaveStopped, TypeOK
    <3> QED
      BY <3>1, <2>4 DEF RecordsName, Names, Alive, Processes
  <2>6. CASE s = t /\ SaveRunning(u)
    <3>1. record'[s] = f
      BY <2>1, <2>2, <2>6 DEF SaveRunning, TypeOK
    <3> QED
      BY <3>1, <2>3, <2>4, <2>6 DEF Names, Alive, Processes
  <2>7. CASE s = t /\ SaveStopped(u)
    <3>1. record'[s] = [f EXCEPT !.status = "STOPPED"]
      BY <2>1, <2>2, <2>7 DEF SaveStopped, TypeOK
    <3>2. /\ record'[s].status = "STOPPED"
          /\ record'[s].identity = f.identity
          /\ record'[s].pid = f.pid
      BY <3>1, <2>3 DEF Files
    <3>3. ~ Alive(f.identity)
      BY <2>1, <2>7 DEF SaveStopped, CommandsName, CommandNames
    <3> QED
      BY <3>2, <3>3, <2>3, <2>4, <2>7 DEF Names, Alive, Processes
  <2> QED
    BY <1>3, <2>5, <2>6, <2>7
<1> QED
  BY <1>2, <1>3, Writers

\* Names of a file known in both states, for the file of a command.
LEMMA KnownStays ==
    ASSUME BrokerInv, Grows, NEW u \in Users, Names(seen[u], call[u][1]),
           seen'[u] = seen[u], call'[u] = call[u]
    PROVE  /\ Names(seen[u], call[u][1])'
           /\ ~ Alive(seen[u].identity) => ~ Alive(seen[u].identity)'
<1>1. PICK f : f = seen[u]
  OBVIOUS
<1>2. PICK s : s = call[u][1]
  OBVIOUS
<1>3. Names(f, s)
  BY <1>1, <1>2
<1>4. Names(f, s)' /\ (~ Alive(f.identity) => ~ Alive(f.identity)')
  BY <1>3, NamesStay
<1> QED
  BY <1>1, <1>2, <1>4 DEF Names, Alive

\* A step is a command's of one user, or the system's, and leaves the others alone.
Same(v) == at'[v] = at[v] /\ call'[v] = call[v] /\ seen'[v] = seen[v]
Acts(v) ==
    \/ \E s \in Sessions, w \in Worktrees : Begin(v, s, w)
    \/ Continue(v) \/ Grab(v) \/ Crash(v)

LEMMA OneActs ==
    ASSUME BrokerInv, [Next]_vars, NEW v \in Users
    PROVE  Same(v) \/ Acts(v)
<1> USE DEF BrokerInv, TypeOK, Same, Return, Goto
<1>1. ASSUME NEW u \in Users, u # v, NEW s \in Sessions, NEW w \in Worktrees, Begin(u, s, w)
      PROVE Same(v)
  <2>1. PICK step \in Steps, status \in Outcomes, known \in {NoRecord, record[s]} :
            Begins(u, s, w, step, status, known)
    BY <1>1, BeginBegins
  <2> QED
    BY <1>1, <2>1 DEF Begins, Enter
<1>2. ASSUME NEW u \in Users, u # v, Continue(u) \/ Grab(u) \/ Crash(u) PROVE Same(v)
  <2>1. CASE Spawn(u)
    BY <1>2, <2>1 DEF Spawn
  <2>2. CASE Settle(u) \/ SettleUnidentified(u) \/ SaveRunning(u)
    BY <1>2, <2>2 DEF Settle, SettleUnidentified, SaveRunning
  <2>3. CASE GrabNothing(u) \/ Grab(u) \/ Crash(u) \/ Refused(u)
    BY <1>2, <2>3 DEF GrabNothing, Grab, Crash, Refused
  <2>4. CASE Close(u) \/ Gone(u) \/ CloseTimesOut(u)
    BY <1>2, <2>4 DEF Close, Gone, CloseTimesOut
  <2>5. CASE Kill(u) \/ KillTimesOut(u) \/ SaveStopped(u)
    BY <1>2, <2>5 DEF Kill, KillTimesOut, SaveStopped
  <2> QED
    BY <1>2, <2>1, <2>2, <2>3, <2>4, <2>5 DEF Continue
<1>3. ASSUME System \/ (\E w \in Worktrees : Edit(w)) \/ UNCHANGED vars PROVE Same(v)
  BY <1>3 DEF System, Exit, StartForeign, Edit, vars
<1> QED
  BY <1>1, <1>2, <1>3 DEF Next, Acts

LEMMA HappenedStays == BrokerInv /\ [Next]_vars => Happened \subseteq Happened'
<1> SUFFICES ASSUME BrokerInv, [Next]_vars PROVE Happened \subseteq Happened'
  OBVIOUS
<1> USE DEF BrokerInv
<1>1. ASSUME NEW u \in Users, NEW s \in Sessions, NEW w \in Worktrees, Begin(u, s, w)
      PROVE Happened \subseteq Happened'
  BY <1>1, BeginBegins, EnterRecords DEF Begins
<1>2. ASSUME NEW u \in Users, Spawn(u) PROVE Happened \subseteq Happened'
  BY <1>2, TakeRecords DEF Spawn
<1>3. ASSUME NEW pid \in Pids, StartForeign(pid) PROVE Happened \subseteq Happened'
  BY <1>3, TakeRecords DEF StartForeign
<1>4. ASSUME NEW u \in Users, Crash(u) \/ Refused(u) PROVE Happened \subseteq Happened'
  BY <1>4, DisturbRecords DEF Crash, Refused, Kinds
<1>5. ASSUME UNCHANGED disturbed PROVE Happened \subseteq Happened'
  BY <1>5 DEF Happened
<1>6. ASSUME NEW pid \in Pids, Exit(pid) PROVE Happened \subseteq Happened'
  BY <1>5, <1>6 DEF Exit
<1> QED
  BY <1>1, <1>2, <1>3, <1>4, <1>5, <1>6, Writers DEF System

\* A new process gets a pid that no launch has, and that no other command holds
\* unless that is on record.
LEMMA PidsTaken ==
    ASSUME BrokerInv, [Next]_vars, NEW pid \in Pids, table'[pid] \notin {table[pid], 0}
    PROVE  /\ ~ Reserved(pid)
           /\ "reuse" \notin Happened' => \A u \in Users : ~ HasPid(u, pid)
<1> USE DEF BrokerInv, TypeOK
<1>1. ASSUME NEW q \in Pids, NEW i, Take(q, i)
      PROVE  /\ ~ Reserved(pid)
             /\ "reuse" \notin Happened' => \A u \in Users : ~ HasPid(u, pid)
  <2>1. q = pid
    BY <1>1 DEF Take
  <2> QED
    BY <1>1, <2>1, TakeRecords DEF Take
<1>2. ASSUME NEW q \in Pids, Exit(q) PROVE FALSE
  BY <1>2 DEF Exit
<1>3. ASSUME UNCHANGED table PROVE FALSE
  BY <1>3
<1>4. ASSUME NEW u \in Users, Spawn(u) PROVE \E q \in Pids : \E i : Take(q, i)
  BY <1>4 DEF Spawn
<1>5. ASSUME NEW q \in Pids, StartForeign(q) PROVE \E i : Take(q, i)
  BY <1>5 DEF StartForeign
<1> QED
  BY <1>1, <1>2, <1>3, <1>4, <1>5, Writers DEF System

\* Whatever the others do, what a command knows of its process stays true.
LEMMA OthersStay ==
    ASSUME BrokerInv, [Next]_vars, NEW v \in Users, Same(v)
    PROVE  CommandNames(v)'
<1> USE DEF CommandNames, Same
<1>1. CommandNames(v) /\ Grows
  BY NextGrows DEF BrokerInv, CommandsName
<1>2. CASE ~ (Launched(v) \/ Acting(v))
  BY <1>1, <1>2 DEF Launched, Acting
<1>3. CASE Launched(v) \/ Acting(v)
  <2>1. /\ Names(seen[v], call[v][1])'
        /\ ~ Alive(seen[v].identity) => ~ Alive(seen[v].identity)'
    BY <1>1, <1>3, KnownStays
  <2>2. ASSUME Launched(v) PROVE table'[seen[v].pid] \in {0, seen[v].identity}
    <3>1. seen[v].pid \in Pids
      BY <1>1, <1>3 DEF BrokerInv, TypeOK, Files
    <3>2. Reserved(seen[v].pid)
      BY <2>2 DEF Reserved, Launched
    <3> QED
      BY <1>1, <2>2, <3>1, <3>2, PidsTaken
  <2> QED
    BY <1>1, <1>3, <2>1, <2>2 DEF Launched, Acting
<1> QED
  BY <1>2, <1>3

\* A launch has named its process since Popen, the other commands since they read
\* the file.
LEMMA CommandsStay == BrokerInv /\ [Next]_vars => CommandsName'
<1> SUFFICES ASSUME BrokerInv, [Next]_vars, NEW v \in Users PROVE CommandNames(v)'
  BY DEF CommandsName
<1>0. CommandNames(v) /\ Grows /\ TypeOK
  BY NextGrows DEF BrokerInv, CommandsName
<1>1. ASSUME NEW s \in Sessions, NEW w \in Worktrees, Begin(v, s, w) PROVE CommandNames(v)'
  <2>1. PICK step \in Steps, status \in Outcomes, known \in {NoRecord, record[s]} :
            Begins(v, s, w, step, status, known)
    BY <1>1, BeginBegins
  <2>2. /\ at'[v] = step /\ seen'[v] = known /\ call'[v] = <<s, w>>
        /\ UNCHANGED <<born, table>>
    BY <1>0, <2>1 DEF Begins, Enter, TypeOK
  <2>3. Owned(record[s]) => Names(record[s], s) /\ record[s].status = "RUNNING"
    BY DEF BrokerInv, RecordsName, Owned, NoRecord
  <2>4. CASE step \in {"idle", "spawn"}
    BY <2>1, <2>2, <2>4 DEF Begins, CommandNames, Launched, Acting
  <2>5. CASE step \in {"grab", "close", "kill"}
    BY <2>1, <2>2, <2>3, <2>5
       DEF Begins, CommandNames, Launched, Acting, Names, Processes, NoRecord
  <2> QED
    BY <2>1, <2>4, <2>5 DEF Begins
<1>2. ASSUME Spawn(v) PROVE CommandNames(v)'
  <2>1. PICK pid \in Pids :
          /\ Take(pid, Len(born'))
          /\ seen' = [seen EXCEPT ![v] = Record("RUNNING", call[v][2], pid, Len(born'))]
    BY <1>2 DEF Spawn
  <2>2. /\ at'[v] = "settle" /\ call'[v] = call[v]
        /\ born' = Append(born, Godot(call[v][1], call[v][2]))
    BY <1>0, <1>2 DEF Spawn, Goto, TypeOK
  <2>3. Len(born') = Len(born) + 1 /\ Len(born) \in Nat
    BY <1>0, <2>2 DEF TypeOK
  <2>4. born'[Len(born')] = Godot(call[v][1], call[v][2])
    BY <1>0, <2>2, <2>3 DEF TypeOK
  <2>5. seen'[v] = Record("RUNNING", call[v][2], pid, Len(born'))
    BY <1>0, <2>1 DEF TypeOK
  <2>6. \A q \in Pids : table'[q] = Len(born') <=> q = pid
    <3>1. table' = [table EXCEPT ![pid] = Len(born')]
      BY <2>1 DEF Take
    <3>2. \A q \in Pids : table[q] \in 0..Len(born)
      BY <2>3 DEF BrokerInv, Processes
    <3> QED
      BY <1>0, <2>3, <3>1, <3>2 DEF TypeOK
  <2> QED
    BY <2>2, <2>3, <2>4, <2>5, <2>6
       DEF CommandNames, Launched, Acting, Names, Record, Godot, Processes, NoRecord
<1>3. ASSUME at'[v] = "idle", seen'[v] = NoRecord PROVE CommandNames(v)'
  BY <1>3 DEF CommandNames, Launched, Acting
<1>4. ASSUME Launched(v) \/ Acting(v), Launched(v)' \/ Acting(v)', Launched(v)' => Launched(v),
             UNCHANGED <<born, table>>, seen'[v] = seen[v], call'[v] = call[v],
             at'[v] = "stopped" => table[seen[v].pid] = 0
      PROVE CommandNames(v)'
  <2>1. Names(seen[v], call[v][1])'
    BY <1>0, <1>4 DEF CommandNames, Names, Processes
  <2>2. table[seen[v].pid] = 0 => ~ Alive(seen[v].identity)
    BY <1>0, <1>4 DEF CommandNames, Names, Alive, Processes
  <2>3. at'[v] \notin {"idle", "spawn"}
    BY <1>4 DEF Launched, Acting
  <2> QED
    BY <1>0, <1>4, <2>1, <2>2, <2>3 DEF CommandNames, Alive
<1>5. ASSUME Settle(v) \/ SettleUnidentified(v) \/ SaveRunning(v) PROVE CommandNames(v)'
  BY <1>0, <1>3, <1>4, <1>5
     DEF Settle, SettleUnidentified, SaveRunning, Return, Goto, TypeOK, Launched, Acting
<1>6. ASSUME \/ Grab(v) \/ GrabNothing(v) \/ KillTimesOut(v) \/ SaveStopped(v)
             \/ Crash(v) \/ Refused(v)
      PROVE CommandNames(v)'
  BY <1>0, <1>3, <1>6
     DEF Grab, GrabNothing, KillTimesOut, SaveStopped, Crash, Refused, Return, Goto, TypeOK
<1>7. ASSUME Close(v) \/ Gone(v) \/ CloseTimesOut(v) \/ Kill(v) PROVE CommandNames(v)'
  BY <1>0, <1>4, <1>7
     DEF Close, Gone, CloseTimesOut, Kill, Goto, Identity, TypeOK, Launched, Acting
<1> QED
  BY <1>1, <1>2, <1>5, <1>6, <1>7, OneActs, OthersStay DEF Acts, Continue

\* A pid is checked when the command reads the file, and kept until a reuse.
LEMMA PidsKeptStay == BrokerInv /\ [Next]_vars => PidsKept'
<1> SUFFICES ASSUME BrokerInv, [Next]_vars, "reuse" \notin Happened',
                    NEW v \in Users, NEW pid \in Pids, HasPid(v, pid)'
             PROVE  table'[pid] \in {0, seen'[v].identity}
  BY DEF PidsKept
<1>0. TypeOK /\ "reuse" \notin Happened
  BY HappenedStays DEF BrokerInv
<1>1. ASSUME HasPid(v, pid), seen'[v] = seen[v]
      PROVE  table'[pid] \in {0, seen'[v].identity}
  <2>1. table[pid] \in {0, seen[v].identity}
    BY <1>0, <1>1 DEF BrokerInv, PidsKept
  <2>2. table'[pid] \in {table[pid], 0}
    BY <1>1, PidsTaken
  <2> QED
    BY <1>1, <2>1, <2>2
<1>2. CASE Same(v)
  BY <1>1, <1>2 DEF Same, HasPid
<1>3. ASSUME NEW s \in Sessions, NEW w \in Worktrees, Begin(v, s, w)
      PROVE  table'[pid] \in {0, seen'[v].identity}
  <2>1. PICK step \in Steps, status \in Outcomes, known \in {NoRecord, record[s]} :
            Begins(v, s, w, step, status, known)
    BY <1>3, BeginBegins
  <2>2. at'[v] = step /\ seen'[v] = known /\ UNCHANGED table
    BY <1>0, <2>1 DEF Begins, Enter, TypeOK
  <2> QED
    BY <2>1, <2>2 DEF Begins, HasPid, Owned, Identity
<1>4. ASSUME Continue(v) \/ Grab(v) \/ Crash(v),
             at'[v] \in {"closing", "kill", "killing"}
      PROVE  seen'[v] = seen[v] /\ at[v] \in {"close", "closing", "kill"}
  BY <1>0, <1>4 DEF Continue, Grab, Crash, Refused, Spawn, Settle, SettleUnidentified, SaveRunning,
     GrabNothing, Close, Gone, CloseTimesOut, Kill, KillTimesOut, SaveStopped, Return,
     Goto, TypeOK
<1>5. ASSUME Continue(v) \/ Grab(v) \/ Crash(v)
      PROVE  at'[v] \in {"idle", "settle", "save", "stopped", "closing", "kill", "killing"}
  BY <1>0, <1>5 DEF Continue, Grab, Crash, Refused, Spawn, Settle, SettleUnidentified, SaveRunning,
     GrabNothing, Close, Gone, CloseTimesOut, Kill, KillTimesOut, SaveStopped, Return,
     Goto, TypeOK
<1>6. ASSUME Continue(v) \/ Grab(v) \/ Crash(v) PROVE HasPid(v, pid) /\ seen'[v] = seen[v]
  BY <1>4, <1>5, <1>6 DEF HasPid
<1> QED
  BY <1>1, <1>2, <1>3, <1>6, OneActs DEF Acts

LEMMA BornStay ==
    ASSUME BrokerInv, Grows, NEW i \in Processes
    PROVE  i \in Processes' /\ born'[i] = born[i]
<1> USE DEF BrokerInv, TypeOK, Processes
<1>1. CASE born' = born
  BY <1>1
<1>2. CASE \E b \in Born : born' = Append(born, b)
  <2>1. PICK b \in Born : born' = Append(born, b)
    BY <1>2
  <2>2. Len(born') = Len(born) + 1 /\ Len(born) \in Nat
    BY <2>1
  <2> QED
    BY <2>1, <2>2
<1> QED
  BY <1>1, <1>2 DEF Grows

\* A command signals the process it named when it read the file or launched.
LEMMA SignalsStay == BrokerInv /\ [Next]_vars => SignalsOwn'
<1> DEFINE Own(signal) == /\ signal[2] \in Processes
                          /\ born[signal[2]].kind = "godot"
                          /\ born[signal[2]].session = signal[1]
<1> SUFFICES ASSUME BrokerInv, [Next]_vars, "reuse" \notin Happened',
                    NEW signal \in signals'
             PROVE  Own(signal)'
  BY DEF SignalsOwn
<1>0. TypeOK /\ Grows /\ "reuse" \notin Happened
  BY NextGrows, HappenedStays DEF BrokerInv
<1>1. CASE signal \in signals
  <2>1. Own(signal)
    BY <1>0, <1>1 DEF BrokerInv, SignalsOwn
  <2> QED
    BY <1>0, <2>1, BornStay
<1>2. ASSUME NEW u \in Users, SettleUnidentified(u) \/ Close(u) \/ Kill(u), signal \notin signals
      PROVE  Own(signal)'
  <2>1. signal = <<call[u][1], seen[u].identity>>
    <3>1. CASE SettleUnidentified(u)
      BY <1>2, <3>1 DEF SettleUnidentified, Signal
    <3>2. CASE Close(u) \/ Kill(u)
      <4>1. HasPid(u, seen[u].pid) /\ seen[u].pid \in Pids
        BY <1>0, <3>2
           DEF Close, Kill, HasPid, BrokerInv, CommandsName, CommandNames, Acting, TypeOK, Files
      <4>2. signal = <<call[u][1], table[seen[u].pid]>> /\ table[seen[u].pid] # 0
        BY <1>2, <3>2 DEF Close, Kill, Signal
      <4> QED
        BY <1>0, <4>1, <4>2 DEF BrokerInv, PidsKept
    <3> QED
      BY <1>2, <3>1, <3>2
  <2>2. Names(seen[u], call[u][1])
    BY <1>2 DEF SettleUnidentified, Close, Kill, BrokerInv, CommandsName, CommandNames,
       Launched, Acting
  <2>3. born' = born
    BY <1>2 DEF SettleUnidentified, Close, Kill
  <2> QED
    BY <2>1, <2>2, <2>3 DEF Names, Processes
<1>3. ASSUME UNCHANGED signals PROVE signal \in signals
  BY <1>3
<1> QED
  BY <1>1, <1>2, <1>3, Writers

\* Only a command that ends writes a file, that of its own session.
LEMMA RecordWritten ==
    ASSUME BrokerInv, [Next]_vars, NEW s \in Sessions, record'[s] # record[s]
    PROVE  \E v \in Users : (SaveRunning(v) \/ SaveStopped(v)) /\ call[v][1] = s
<1> USE DEF BrokerInv, TypeOK
<1>1. ASSUME NEW v \in Users, SaveRunning(v) \/ SaveStopped(v) PROVE call[v][1] = s
  BY <1>1 DEF SaveRunning, SaveStopped
<1>2. ASSUME UNCHANGED record PROVE FALSE
  BY <1>2
<1> QED
  BY <1>1, <1>2, Writers

\* A command that goes on keeps its session.
LEMMA CallStays ==
    ASSUME TypeOK, NEW u \in Users, Continue(u) \/ Grab(u) \/ Crash(u)
    PROVE  at[u] # "idle" /\ call' = call
  BY DEF Continue, Refused, Grab, Crash, Spawn, Settle, SettleUnidentified, SaveRunning,
     GrabNothing,
     Close, Gone, CloseTimesOut, Kill, KillTimesOut, SaveStopped

\* No two commands get onto one session without that being an overlap.
LEMMA OneStays ==
    ASSUME BrokerInv, [Next]_vars, "overlap" \notin Happened', NEW u \in Users, NEW v \in Users,
           at'[u] # "idle", at'[v] # "idle", call'[u][1] = call'[v][1]
    PROVE  u = v
<1>0. TypeOK /\ "overlap" \notin Happened /\ OnePerSession
  BY HappenedStays DEF BrokerInv
<1>1. ASSUME NEW x \in Users, NEW y \in Users, NEW s \in Sessions, NEW w \in Worktrees,
             Begin(x, s, w), at'[y] # "idle", call'[x][1] = call'[y][1]
      PROVE  x = y
  <2>1. PICK step \in Steps, status \in Outcomes, known \in {NoRecord, record[s]} :
            Begins(x, s, w, step, status, known)
    BY <1>1, BeginBegins
  <2>2. "overlap" \notin Happened' => \A z \in Users \ {x} : at[z] # "idle" => call[z][1] # s
    BY <1>0, <2>1, EnterRecords DEF Begins
  <2>3. call'[x][1] = s /\ (y # x => at'[y] = at[y] /\ call'[y] = call[y])
    BY <1>0, <2>1 DEF Begins, Enter, TypeOK
  <2> QED
    BY <1>1, <2>2, <2>3
<1>2. ASSUME NEW x \in Users, at'[x] # "idle",
             ~ \E s \in Sessions, w \in Worktrees : Begin(x, s, w)
      PROVE  at[x] # "idle" /\ call'[x] = call[x]
  BY <1>0, <1>2, OneActs, CallStays DEF Same, Acts
<1> QED
  BY <1>0, <1>1, <1>2 DEF OnePerSession

\* Under one command per session nobody else writes its file.
LEMMA FileStays ==
    ASSUME BrokerInv, [Next]_vars, "overlap" \notin Happened, NEW u \in Users, at[u] # "idle",
           ~ SaveRunning(u), ~ SaveStopped(u)
    PROVE  record'[call[u][1]] = record[call[u][1]]
<1>1. TypeOK /\ OnePerSession
  BY DEF BrokerInv
<1>2. ASSUME NEW v \in Users, SaveRunning(v) \/ SaveStopped(v) PROVE call[v][1] # call[u][1]
  BY <1>1, <1>2 DEF OnePerSession, SaveRunning, SaveStopped
<1>3. call[u][1] \in Sessions
  BY <1>1 DEF TypeOK
<1> QED
  BY <1>2, <1>3, RecordWritten

\* A process that a launch has replaced does not come back.
LEMMA ReplacedStays ==
    ASSUME BrokerInv, Grows, NEW s \in Sessions, record'[s] = record[s],
           record[s] = NoRecord \/ ~ Alive(record[s].identity)
    PROVE  record'[s] = NoRecord \/ ~ Alive(record[s].identity)'
<1>1. PICK f : f = record[s]
  OBVIOUS
<1>2. f = NoRecord \/ Names(f, s)
  BY <1>1 DEF BrokerInv, RecordsName
<1>3. f = NoRecord \/ ~ Alive(f.identity)'
  BY <1>1, <1>2, NamesStay
<1> QED
  BY <1>1, <1>3 DEF Alive

LEMMA OnePerSessionStays == BrokerInv /\ [Next]_vars => OnePerSession'
<1> SUFFICES ASSUME BrokerInv, [Next]_vars, "overlap" \notin Happened', NEW u \in Users
             PROVE  /\ Acting(u)' => record'[call'[u][1]] = seen'[u]
                    /\ at'[u] = "spawn" \/ Launched(u)' =>
                        \/ record'[call'[u][1]] = NoRecord
                        \/ ~ Alive(record[call[u][1]].identity)'
  BY OneStays DEF OnePerSession
<1>0. TypeOK /\ "overlap" \notin Happened /\ OnePerSession /\ Grows
  BY HappenedStays, NextGrows DEF BrokerInv
<1>1. ASSUME at[u] # "idle", ~ SaveRunning(u), ~ SaveStopped(u), call'[u] = call[u],
             Acting(u)' => Acting(u) /\ seen'[u] = seen[u],
             at'[u] = "spawn" \/ Launched(u)' => at[u] = "spawn" \/ Launched(u)
      PROVE  /\ Acting(u)' => record'[call'[u][1]] = seen'[u]
             /\ at'[u] = "spawn" \/ Launched(u)' =>
                 \/ record'[call'[u][1]] = NoRecord
                 \/ ~ Alive(record[call[u][1]].identity)'
  <2>1. PICK s \in Sessions : s = call[u][1]
    BY <1>0 DEF TypeOK
  <2>2. record'[s] = record[s]
    BY <1>0, <1>1, <2>1, FileStays
  <2>3. record[s] = NoRecord \/ ~ Alive(record[s].identity)
            => record'[s] = NoRecord \/ ~ Alive(record[s].identity)'
    BY <1>0, <2>2, ReplacedStays
  <2> QED
    BY <1>0, <1>1, <2>1, <2>2, <2>3 DEF OnePerSession, Alive
<1>2. CASE at'[u] = "idle"
  BY <1>2 DEF Acting, Launched
<1>3. CASE Same(u)
  BY <1>0, <1>1, <1>2, <1>3
     DEF Same, Acting, Launched, SaveRunning, SaveStopped, Return, Goto, TypeOK
<1>4. ASSUME NEW s \in Sessions, NEW w \in Worktrees, Begin(u, s, w)
      PROVE  /\ Acting(u)' => record'[call'[u][1]] = seen'[u]
             /\ at'[u] = "spawn" \/ Launched(u)' =>
                 \/ record'[call'[u][1]] = NoRecord
                 \/ ~ Alive(record[call[u][1]].identity)'
  <2>1. PICK step \in Steps, status \in Outcomes, known \in {NoRecord, record[s]} :
            Begins(u, s, w, step, status, known)
    BY <1>4, BeginBegins
  <2>2. /\ at'[u] = step /\ seen'[u] = known /\ call'[u] = <<s, w>>
        /\ UNCHANGED <<born, table, record>>
    BY <1>0, <2>1 DEF Begins, Enter, TypeOK
  <2>3. ~ Owned(record[s]) => record[s] = NoRecord \/ ~ Alive(record[s].identity)
    BY DEF Owned, Identity, BrokerInv, RecordsName, Names, Alive
  <2> QED
    BY <2>1, <2>2, <2>3 DEF Begins, Acting, Launched, Alive
<1>5. ASSUME Continue(u) \/ Grab(u) \/ Crash(u), at'[u] # "idle"
      PROVE  /\ ~ SaveRunning(u) /\ ~ SaveStopped(u)
             /\ Acting(u)' => Acting(u) /\ seen'[u] = seen[u]
             /\ at'[u] = "spawn" \/ Launched(u)' => at[u] = "spawn" \/ Launched(u)
  BY <1>0, <1>5 DEF Continue, Grab, Crash, Refused, Spawn, Settle, SettleUnidentified, SaveRunning,
     GrabNothing, Close, Gone, CloseTimesOut, Kill, KillTimesOut, SaveStopped, Return,
     Goto, TypeOK, Acting, Launched
<1>6. CASE Continue(u) \/ Grab(u) \/ Crash(u)
  BY <1>0, <1>1, <1>2, <1>5, <1>6, CallStays
<1> QED
  BY <1>3, <1>4, <1>6, OneActs DEF Acts

LEMMA SignalsGrow == BrokerInv /\ [Next]_vars => signals \subseteq signals'
<1> SUFFICES ASSUME BrokerInv, [Next]_vars PROVE signals \subseteq signals'
  OBVIOUS
<1>1. ASSUME NEW u \in Users, SettleUnidentified(u) \/ Close(u) \/ Kill(u)
      PROVE signals \subseteq signals'
  BY <1>1 DEF SettleUnidentified, Close, Kill, Signal
<1> QED
  BY <1>1, Writers

\* A launch that has started a process goes on to record it, or tells it to end.
LEMMA LaunchGoesOn ==
    ASSUME BrokerInv, [Next]_vars, Happened' \intersect {"crash", "refused"} = {},
           NEW u \in Users, Launched(u),
           NEW i, i = seen[u].identity, Alive(i)', ~ Signalled(i)'
    PROVE  \/ Launched(u)' /\ seen'[u] = seen[u]
           \/ SaveRunning(u)
<1>0. TypeOK /\ CommandNames(u) /\ call[u][1] \in Sessions
  BY DEF BrokerInv, CommandsName, TypeOK
<1>1. CASE Same(u)
  BY <1>1 DEF Same, Launched
<1>2. CASE \E s \in Sessions, w \in Worktrees : Begin(u, s, w)
  BY <1>2 DEF Begin, Launch, Capture, Stop, Enter, Launched
<1>3. CASE Crash(u) \/ Refused(u)
  BY <1>0, <1>3, DisturbRecords DEF Crash, Refused, Kinds
<1>4. CASE SettleUnidentified(u)
  BY <1>0, <1>4 DEF SettleUnidentified, Signal, Signalled
<1>5. CASE Settle(u)
  <2>1. CASE Identity(seen[u].pid) = 0
    <3>1. UNCHANGED <<born, table>>
      BY <1>5 DEF Settle
    <3> QED
      BY <1>0, <2>1, <3>1 DEF CommandNames, Names, Alive, Identity, Processes
  <2>2. CASE Identity(seen[u].pid) # 0
    BY <1>0, <1>5, <2>2 DEF Settle, Launched, Goto, TypeOK
  <2> QED
    BY <2>1, <2>2
<1> QED
  BY <1>1, <1>2, <1>3, <1>4, <1>5, OneActs DEF Acts, Continue, Spawn, SaveRunning, Grab,
     GrabNothing, Close, Gone, CloseTimesOut, Kill, KillTimesOut, SaveStopped, Launched

\* A running process stays on record: the launch hands it to the file, and only a
\* stop that has seen it gone, or a launch that found it gone, writes that file.
LEMMA LiveStays == BrokerInv /\ [Next]_vars => LiveIsRecorded'
<1> DEFINE Recorded(i) == /\ record[born[i].session].status = "RUNNING"
                          /\ record[born[i].session].identity = i
<1> SUFFICES ASSUME BrokerInv, [Next]_vars, Happened' \intersect {"crash", "overlap", "refused"} = {},
                    NEW i \in Processes', Alive(i)', born'[i].kind = "godot", ~ Signalled(i)'
             PROVE  Launching(i)' \/ Recorded(i)'
  BY DEF LiveIsRecorded
<1>0. /\ TypeOK /\ Grows /\ OnePerSession /\ LiveIsRecorded /\ CommandsName
      /\ Happened \intersect {"crash", "overlap", "refused"} = {}
  BY HappenedStays, NextGrows DEF BrokerInv
<1>1. CASE i \notin Processes
  <2>1. ASSUME NEW u \in Users, Spawn(u) PROVE Launching(i)'
    <3>1. i = Len(born')
      BY <1>0, <1>1, <2>1 DEF Spawn, Processes, TypeOK
    <3>2. at'[u] = "settle" /\ seen'[u].identity = Len(born')
      BY <1>0, <2>1 DEF Spawn, Goto, Record, TypeOK
    <3> QED
      BY <3>1, <3>2 DEF Launching
  <2>2. ASSUME NEW pid \in Pids, StartForeign(pid) PROVE FALSE
    <3>1. born'[i] = Foreign
      BY <1>0, <1>1, <2>2 DEF StartForeign, Processes, TypeOK
    <3> QED
      BY <3>1 DEF Foreign
  <2>3. ASSUME UNCHANGED born PROVE FALSE
    BY <1>1, <2>3 DEF Processes
  <2>4. ASSUME NEW pid \in Pids, Exit(pid) PROVE FALSE
    BY <2>3, <2>4 DEF Exit
  <2> QED
    BY <2>1, <2>2, <2>3, <2>4, Writers DEF System
<1>2. CASE i \in Processes
  <2>1. born'[i] = born[i]
    BY <1>0, <1>2, BornStay
  <2>2. Alive(i)
    BY <1>0, <1>2 DEF Alive, Grows, Processes, TypeOK
  <2>3. ~ Signalled(i)
    BY SignalsGrow DEF Signalled
  <2>4. Launching(i) \/ Recorded(i)
    BY <1>0, <1>2, <2>1, <2>2, <2>3 DEF LiveIsRecorded
  <2>5. CASE Launching(i)
    <3>1. PICK u \in Users : Launched(u) /\ seen[u].identity = i
      BY <2>5 DEF Launching, Launched
    <3>2. CASE Launched(u)' /\ seen'[u] = seen[u]
      BY <3>1, <3>2 DEF Launching, Launched
    <3>3. CASE SaveRunning(u)
      <4>1. record'[call[u][1]] = seen[u]
        BY <1>0, <3>3 DEF SaveRunning, TypeOK
      <4>2. born[i].session = call[u][1] /\ seen[u].status = "RUNNING"
        BY <1>0, <3>1 DEF CommandsName, CommandNames, Names
      <4> QED
        BY <2>1, <3>1, <4>1, <4>2
    <3> QED
      BY <1>0, <3>1, <3>2, <3>3, LaunchGoesOn
  <2>6. CASE Recorded(i)
    <3>1. PICK s : s = born[i].session
      OBVIOUS
    <3>2. s \in Sessions
      <4>1. born[i] \in Born
        BY <1>0, <1>2 DEF TypeOK, Processes
      <4> QED
        BY <2>1, <3>1, <4>1 DEF Born, Foreign
    <3>3. CASE record'[s] = record[s]
      BY <2>1, <2>6, <3>1, <3>3
    <3>4. CASE record'[s] # record[s]
      <4>1. PICK v \in Users : (SaveRunning(v) \/ SaveStopped(v)) /\ call[v][1] = s
        BY <3>2, <3>4, RecordWritten
      <4>2. CASE SaveRunning(v)
        BY <1>0, <2>2, <2>6, <3>1, <4>1, <4>2
           DEF SaveRunning, OnePerSession, Launched, NoRecord
      <4>3. CASE SaveStopped(v)
        BY <1>0, <2>2, <2>6, <3>1, <4>1, <4>3
           DEF SaveStopped, OnePerSession, Acting, CommandsName, CommandNames
      <4> QED
        BY <4>1, <4>2, <4>3
    <3> QED
      BY <3>3, <3>4
  <2> QED
    BY <2>4, <2>5, <2>6
<1> QED
  BY <1>1, <1>2

LEMMA InitHolds == Init => BrokerInv
<1> SUFFICES ASSUME Init PROVE BrokerInv
  OBVIOUS
<1> USE VisualBrokerAssumption DEF Init, VisualBrokerAssumption
<1>1. TypeOK
  BY DEF TypeOK, Steps, Outcomes, Born, Kinds
<1>2. Happened = {} /\ Processes = {}
  BY DEF Happened, Processes
<1>3. \A i : i # 0 => ~ Alive(i)
  BY DEF Alive
<1>4. RecordsName /\ CommandsName /\ PidsKept
  BY DEF RecordsName, CommandsName, CommandNames, PidsKept, Launched, Acting, HasPid
<1>5. SignalsOwn /\ OnePerSession /\ LiveIsRecorded
  BY <1>2 DEF SignalsOwn, OnePerSession, LiveIsRecorded, Launched, Acting
<1> QED
  BY <1>1, <1>4, <1>5 DEF BrokerInv

LEMMA BrokerStays == BrokerInv /\ [Next]_vars => BrokerInv'
<1>1. BrokerInv /\ [Next]_vars => \A pid \in Pids : table'[pid] \in {0} \union Processes'
  BY NextGrows, PidsStay
<1> QED
  BY <1>1, TypesKept, RecordsStay, CommandsStay, PidsKeptStay, SignalsStay,
     OnePerSessionStays, LiveStays DEF BrokerInv

\* The files and the commands of the broker always name the processes they began
\* with, however commands overlap, pids are reused and commands are killed.
THEOREM BrokerInductive == Spec => []BrokerInv
  BY InitHolds, BrokerStays, PTL DEF Spec

\* The broker tells no process to end but those it launched for the session.
THEOREM BrokerSignalsOwn == Spec => []SignalsOwn
<1>1. BrokerInv => SignalsOwn
  BY DEF BrokerInv
<1> QED
  BY <1>1, BrokerInductive, PTL

\* A session recorded as STOPPED has no process left.
THEOREM BrokerStops == Spec => []StoppedIsGone
<1>1. BrokerInv => StoppedIsGone
  BY DEF BrokerInv, RecordsName, StoppedIsGone, NoRecord
<1> QED
  BY <1>1, BrokerInductive, PTL

\* A process the broker left running can be stopped, as long as no command was
\* killed and none overlapped another on its session.
THEOREM BrokerRecordsLive == Spec => []LiveIsRecorded
<1>1. BrokerInv => LiveIsRecorded
  BY DEF BrokerInv
<1> QED
  BY <1>1, BrokerInductive, PTL

-------------------------------------------------------------------------------
(* The review: the broker goes on under it. *)

\* A step of the review that is none of the broker's changes what is on disk, or
\* ends a command that is idle.
Elsewhere ==
    /\ UNCHANGED <<born, table, signals, record, at, call, seen>>
    /\ disk' \in [Worktrees -> Contents]
    /\ outcome' \in [Users -> Outcomes]
    /\ disturbed' \in Seq(Kinds)
    /\ Happened \subseteq Happened'

LEMMA ElsewhereKeeps == BrokerInv /\ Elsewhere => BrokerInv' /\ Grows
<1> SUFFICES ASSUME BrokerInv, Elsewhere PROVE BrokerInv' /\ Grows
  OBVIOUS
<1> USE DEF BrokerInv, Elsewhere
<1>1. TypeOK' /\ Grows
  BY DEF TypeOK, Grows
<1>2. \A pid \in Pids : table'[pid] \in {0} \union Processes'
  BY DEF Processes
<1>3. RecordsName' /\ CommandsName'
  BY DEF RecordsName, CommandsName, CommandNames, Names, Alive, Processes, Launched, Acting
<1>4. PidsKept'
  BY DEF PidsKept, HasPid
<1>5. SignalsOwn'
  BY DEF SignalsOwn, Processes
<1>6. OnePerSession'
  BY DEF OnePerSession, Launched, Acting, Alive
<1>7. LiveIsRecorded'
  <2>1. Happened' \intersect {"crash", "overlap", "refused"} = {} =>
            Happened \intersect {"crash", "overlap", "refused"} = {}
    OBVIOUS
  <2> QED
    BY <2>1 DEF LiveIsRecorded, Processes, Alive, Signalled, Launching
<1> QED
  BY <1>1, <1>2, <1>3, <1>4, <1>5, <1>6, <1>7

LEMMA BusyRecords ==
    ASSUME TypeOK, NEW u \in Users, NEW t, NEW sessions, DisturbIf(Busy(u, t, sessions), "overlap")
    PROVE  /\ Happened \subseteq Happened'
           /\ "overlap" \notin Happened' => ~ Busy(u, t, sessions)
           /\ disturbed' \in Seq(Kinds)
<1>1. PICK busy \in BOOLEAN : busy <=> Busy(u, t, sessions)
  OBVIOUS
<1>2. DisturbIf(busy, "overlap") /\ "overlap" \in Kinds
  BY <1>1 DEF DisturbIf, Kinds
<1> QED
  BY <1>1, <1>2, DisturbIfRecords

LEMMA MovesRecord ==
    ASSUME TypeOK, NEW t \in Tasks, WorkerMoves(t)
    PROVE  /\ Happened \subseteq Happened'
           /\ "work" \notin Happened' => state[t] = "WORKING"
           /\ disturbed' \in Seq(Kinds)
<1>1. PICK b \in BOOLEAN : b <=> state[t] # "WORKING"
  OBVIOUS
<1>2. DisturbIf(b, "work") /\ "work" \in Kinds
  BY <1>1 DEF WorkerMoves, DisturbIf, Kinds
<1> QED
  BY <1>1, <1>2, DisturbIfRecords

\* Every step of the review is one of the broker's, or leaves its processes,
\* files and commands alone.
LEMMA BrokerOrElsewhere ==
    ASSUME ReviewInv, [ReviewNext]_reviewVars
    PROVE  [Next]_vars \/ Elsewhere
<1> USE DEF ReviewInv, BrokerInv
<1>0. TypeOK
  OBVIOUS
<1>1. CASE BrokerMoves
  BY <1>1 DEF BrokerMoves, Next
<1>2. ASSUME NEW u \in Users, BridgeLaunch(u) \/ BridgeCapture(u) \/ BridgeStop(u)
      PROVE  [Next]_vars
  <2>1. work[u] \in Captures
    BY <1>2 DEF BridgeLaunch, BridgeCapture, BridgeStop, Returned, ReviewTypeOK, WorkOK, Capturing
  <2>2. work[u].session \in Sessions /\ work[u].task \in Worktrees
    BY <2>1 DEF Captures, Tasks
  <2>3. Begin(u, work[u].session, work[u].task)
    BY <1>2 DEF BridgeLaunch, BridgeCapture, BridgeStop, Begin
  <2> QED
    BY <2>2, <2>3 DEF Next
<1>3. ASSUME NEW u \in Users, BridgeGrab(u) PROVE [Next]_vars
  BY <1>3 DEF BridgeGrab, Next
<1>4. ASSUME NEW t \in Tasks, Resume(t) \/ Report(t) \/ Sweep(t) PROVE UNCHANGED vars
  BY <1>4 DEF Resume, Report, Sweep, broker, vars
<1>5. ASSUME NEW t \in Tasks, WorkerMoves(t) PROVE Elsewhere
  <2>1. disk' \in [Worktrees -> Contents]
    BY <1>0, <1>5 DEF WorkerMoves, TypeOK, Tasks
  <2> QED
    BY <1>0, <1>5, <2>1, MovesRecord DEF WorkerMoves, Elsewhere, TypeOK
<1>6. ASSUME NEW u \in Users, NEW t \in Tasks, NEW s \in Sessions, CaptureContext(u, t, s)
      PROVE  Elsewhere
  BY <1>0, <1>6, BusyRecords DEF CaptureContext, broker, Elsewhere, TypeOK
<1>7. ASSUME NEW u \in Users, NEW t \in Tasks, NEW d \in Decisions, ReviewContext(u, t, d)
      PROVE  Elsewhere
  BY <1>0, <1>7, BusyRecords DEF ReviewContext, broker, Elsewhere, TypeOK
<1>8. ASSUME NEW u \in Users, BridgeFault(u) PROVE Elsewhere
  BY <1>0, <1>8, DisturbRecords DEF BridgeFault, broker, Elsewhere, TypeOK, Kinds
<1>9. ASSUME NEW u \in Users, \/ BridgeCopy(u) \/ BridgeSkip(u) \/ BridgeClear(u)
                              \/ BridgeRecord(u) \/ Judge(u) \/ JudgeTooLate(u) \/ Rewrite(u)
      PROVE  UNCHANGED vars
  BY <1>9 DEF BridgeCopy, BridgeSkip, BridgeClear, BridgeRecord, Judge, JudgeTooLate, Rewrite,
     broker, vars
<1>10. ASSUME NEW u \in Users, BridgeCrash(u) PROVE [Next]_vars \/ Elsewhere
  <2>1. CASE at[u] # "idle"
    BY <1>10, <2>1 DEF BridgeCrash, Crash, Next
  <2>2. CASE at[u] = "idle"
    <3>1. seen[u] = NoRecord
      BY <2>2 DEF CommandsName, CommandNames
    <3>2. at' = at /\ seen' = seen /\ outcome' \in [Users -> Outcomes]
      BY <1>0, <1>10, <2>2, <3>1 DEF BridgeCrash, Return, Goto, TypeOK, Outcomes
    <3>3. Happened \subseteq Happened' /\ disturbed' \in Seq(Kinds)
      BY <1>0, <1>10, DisturbRecords DEF BridgeCrash, Kinds
    <3> QED
      BY <1>0, <1>10, <3>2, <3>3 DEF BridgeCrash, Elsewhere, TypeOK
  <2> QED
    BY <2>1, <2>2
<1>11. CASE UNCHANGED reviewVars
  BY <1>11 DEF reviewVars, broker, vars
<1> QED
  BY <1>1, <1>2, <1>3, <1>4, <1>5, <1>6, <1>7, <1>8, <1>9, <1>10, <1>11 DEF ReviewNext

LEMMA ReviewKeepsBroker ==
    ASSUME ReviewInv, [ReviewNext]_reviewVars
    PROVE  BrokerInv' /\ Grows /\ Happened \subseteq Happened'
  BY BrokerOrElsewhere, ElsewhereKeeps, BrokerStays, NextGrows, HappenedStays
     DEF ReviewInv, Elsewhere

\* Which steps of the review write what.
Written ==
    /\ UNCHANGED disk \/ \E t \in Tasks : WorkerMoves(t)
    /\ \/ UNCHANGED <<state, receipt, cited>>
       \/ \E t \in Tasks : Resume(t) \/ Report(t)
       \/ \E u \in Users : Judge(u)
    /\ \/ UNCHANGED temp
       \/ \E t \in Tasks : Sweep(t)
       \/ \E u \in Users : BridgeGrab(u) \/ BridgeClear(u)
    /\ UNCHANGED evidence \/ \E u \in Users : BridgeRecord(u) \/ Rewrite(u)
    /\ UNCHANGED file \/ \E u \in Users : BridgeCopy(u)

LEMMA ReviewWriters == ASSUME [ReviewNext]_reviewVars PROVE Written
<1>1. ASSUME UNCHANGED <<disk, state, receipt, temp, file, evidence, cited>> PROVE Written
  BY <1>1 DEF Written
<1>2. ASSUME NEW u \in Users, Continue(u) \/ Grab(u) \/ Crash(u) PROVE UNCHANGED disk
  BY <1>2 DEF Continue, Grab, Crash, Refused, Spawn, Settle, SettleUnidentified, SaveRunning,
     GrabNothing, Close, Gone, CloseTimesOut, Kill, KillTimesOut, SaveStopped
<1>3. CASE BrokerMoves
  <2>1. UNCHANGED disk
    BY <1>2, <1>3 DEF BrokerMoves, System, Exit, StartForeign
  <2> QED
    BY <1>1, <1>3, <2>1 DEF Written, BrokerMoves
<1>4. ASSUME NEW t \in Tasks, Resume(t) \/ Report(t) PROVE Written
  BY <1>4 DEF Written, Resume, Report, broker
<1>5. ASSUME NEW t \in Tasks, WorkerMoves(t) PROVE Written
  BY <1>5 DEF Written, WorkerMoves
<1>6. ASSUME NEW t \in Tasks, Sweep(t) PROVE Written
  BY <1>6 DEF Written, Sweep, broker
<1>7. ASSUME NEW u \in Users, BridgeLaunch(u) \/ BridgeCapture(u) \/ BridgeStop(u) PROVE Written
  <2>1. UNCHANGED disk
    BY <1>7 DEF BridgeLaunch, BridgeCapture, BridgeStop, Launch, Capture, Stop, Enter
  <2> QED
    BY <1>1, <1>7, <2>1 DEF Written, BridgeLaunch, BridgeCapture, BridgeStop
<1>8. ASSUME NEW u \in Users, BridgeGrab(u) PROVE Written
  <2>1. UNCHANGED disk
    BY <1>2, <1>8 DEF BridgeGrab
  <2> QED
    BY <1>8, <2>1 DEF Written, BridgeGrab
<1>9. ASSUME NEW u \in Users, BridgeCopy(u) PROVE Written
  BY <1>9 DEF Written, BridgeCopy, broker
<1>10. ASSUME NEW u \in Users, BridgeClear(u) PROVE Written
  BY <1>10 DEF Written, BridgeClear, broker
<1>11. ASSUME NEW u \in Users, BridgeRecord(u) \/ Rewrite(u) PROVE Written
  BY <1>11 DEF Written, BridgeRecord, Rewrite, broker
<1>12. ASSUME NEW u \in Users, Judge(u) PROVE Written
  BY <1>12 DEF Written, Judge, broker
<1>13. ASSUME NEW u \in Users,
              \/ BridgeSkip(u) \/ BridgeFault(u) \/ JudgeTooLate(u) \/ BridgeCrash(u)
       PROVE  Written
  BY <1>1, <1>13 DEF Written, BridgeSkip, BridgeFault, JudgeTooLate, BridgeCrash, broker
<1>14. ASSUME NEW u \in Users, NEW t \in Tasks, NEW s \in Sessions, CaptureContext(u, t, s)
       PROVE  Written
  BY <1>1, <1>14 DEF Written, CaptureContext, broker
<1>15. ASSUME NEW u \in Users, NEW t \in Tasks, NEW d \in Decisions, ReviewContext(u, t, d)
       PROVE  Written
  BY <1>1, <1>15 DEF Written, ReviewContext, broker
<1>16. CASE UNCHANGED reviewVars
  BY <1>1, <1>16 DEF Written, reviewVars, broker
<1> QED
  BY <1>3, <1>4, <1>5, <1>6, <1>7, <1>8, <1>9, <1>10, <1>11, <1>12, <1>13, <1>14, <1>15, <1>16
     DEF ReviewNext

\* Where a step takes a bridge command that it is about.
Moves(u) ==
    \/ /\ \E t \in Tasks, s \in Sessions : CaptureContext(u, t, s)
       /\ next'[u] = "launch"
    \/ /\ \E t \in Tasks, d \in Decisions : ReviewContext(u, t, d)
       /\ next'[u] = "judge"
    \/ BridgeLaunch(u)
    \/ BridgeCapture(u)
    \/ BridgeGrab(u)
    \/ BridgeStop(u)
    \/ BridgeCopy(u)
    \/ BridgeSkip(u)
    \/ BridgeClear(u)
    \/ Judge(u)
    \/ Continue(u) /\ next'[u] = next[u] /\ work'[u] = work[u]
    \/ next'[u] = "idle" /\ work'[u] = NoWork /\ at'[u] = "idle"

\* It leaves the commands of the others as they are.
Waits(v) == Same(v) /\ outcome'[v] = outcome[v] /\ next'[v] = next[v] /\ work'[v] = work[v]

LEMMA OneMoves ==
    ASSUME ReviewInv, [ReviewNext]_reviewVars, NEW v \in Users
    PROVE  Waits(v) \/ Moves(v)
<1>0. /\ TypeOK
      /\ next \in [Users -> BridgeSteps]
      /\ work \in [Users -> Captures \union Judgements \union {NoWork}]
      /\ \A u \in Users : Calls(u)
  BY DEF ReviewInv, BrokerInv, ReviewTypeOK, WorkOK
<1>1. ASSUME UNCHANGED <<next, work>>, NEW u \in Users, Continue(u)
      PROVE  Waits(v) \/ Moves(v)
  <2>1. CASE u = v
    BY <1>1, <2>1 DEF Moves
  <2>2. CASE u # v
    BY <1>0, <1>1, <2>2 DEF Waits, Same, Continue, Refused, Spawn, Settle, SettleUnidentified,
       SaveRunning, GrabNothing, Close, Gone, CloseTimesOut, Kill, KillTimesOut, SaveStopped,
       Return, Goto, TypeOK
  <2> QED
    BY <2>1, <2>2
<1>2. CASE BrokerMoves
  <2>1. ASSUME System PROVE Waits(v)
    BY <1>2, <2>1 DEF BrokerMoves, System, Exit, StartForeign, Waits, Same
  <2> QED
    BY <1>1, <1>2, <2>1 DEF BrokerMoves
<1>3. ASSUME NEW t \in Tasks, Resume(t) \/ Report(t) \/ WorkerMoves(t) \/ Sweep(t)
      PROVE  Waits(v)
  BY <1>3 DEF Resume, Report, WorkerMoves, Sweep, broker, Waits, Same
<1>4. ASSUME NEW u \in Users, NEW t \in Tasks, NEW s \in Sessions, CaptureContext(u, t, s)
      PROVE  Waits(v) \/ Moves(v)
  <2>1. CASE u = v
    BY <1>0, <1>4, <2>1 DEF CaptureContext, Then, Moves
  <2>2. CASE u # v
    BY <1>0, <1>4, <2>2 DEF CaptureContext, Then, broker, Waits, Same
  <2> QED
    BY <2>1, <2>2
<1>5. ASSUME NEW u \in Users, NEW t \in Tasks, NEW d \in Decisions, ReviewContext(u, t, d)
      PROVE  Waits(v) \/ Moves(v)
  <2>1. CASE u = v
    BY <1>0, <1>5, <2>1 DEF ReviewContext, Then, Moves
  <2>2. CASE u # v
    BY <1>0, <1>5, <2>2 DEF ReviewContext, Then, broker, Waits, Same
  <2> QED
    BY <2>1, <2>2
<1>6. ASSUME NEW u \in Users, BridgeLaunch(u) \/ BridgeCapture(u) \/ BridgeStop(u), u # v
      PROVE  Waits(v)
  <2>1. next'[v] = next[v] /\ work'[v] = work[v] /\ call'[v] = call[v]
    BY <1>0, <1>6 DEF BridgeLaunch, BridgeCapture, BridgeStop, Launch, Capture, Stop, Enter,
       Then, TypeOK
  <2>2. CASE BridgeLaunch(u)
    BY <1>0, <1>6, <2>1, <2>2
       DEF BridgeLaunch, Launch, Return, Proceed, Goto, Waits, Same, TypeOK
  <2>3. CASE BridgeCapture(u)
    BY <1>0, <1>6, <2>1, <2>3
       DEF BridgeCapture, Capture, Return, Proceed, Goto, Waits, Same, TypeOK
  <2>4. CASE BridgeStop(u)
    BY <1>0, <1>6, <2>1, <2>4
       DEF BridgeStop, Stop, Return, Proceed, Goto, Waits, Same, TypeOK
  <2> QED
    BY <1>6, <2>2, <2>3, <2>4
<1>7. ASSUME NEW u \in Users, BridgeGrab(u), u # v
      PROVE  Waits(v)
  BY <1>0, <1>7 DEF BridgeGrab, Grab, Return, Goto, Waits, Same, TypeOK
<1>8. ASSUME NEW u \in Users, u # v,
             \/ BridgeCopy(u) \/ BridgeSkip(u) \/ BridgeClear(u) \/ BridgeRecord(u)
             \/ BridgeFault(u) \/ Judge(u) \/ JudgeTooLate(u) \/ Rewrite(u)
      PROVE  Waits(v)
  BY <1>0, <1>8 DEF BridgeCopy, BridgeSkip, BridgeClear, BridgeRecord, BridgeFault, Judge,
     JudgeTooLate, Rewrite, EndBridge, Then, broker, Waits, Same
<1>9. ASSUME NEW u \in Users, BridgeCrash(u) PROVE Waits(v) \/ Moves(v)
  BY <1>0, <1>9 DEF BridgeCrash, EndBridge, Then, Return, Goto, Waits, Same, TypeOK, Moves
<1>10. ASSUME BridgeRecord(v) \/ BridgeFault(v) \/ JudgeTooLate(v) \/ Rewrite(v)
       PROVE  Moves(v)
  <2>1. next'[v] = "idle" /\ work'[v] = NoWork /\ at' = at
    BY <1>0, <1>10 DEF BridgeRecord, BridgeFault, JudgeTooLate, Rewrite, EndBridge, Then, broker
  <2>2. at[v] = "idle"
    BY <1>0, <1>10 DEF BridgeRecord, BridgeFault, JudgeTooLate, Rewrite, Returned, Calls,
       TypeOK, Steps
  <2> QED
    BY <2>1, <2>2 DEF Moves
<1>11. CASE UNCHANGED reviewVars
  BY <1>11 DEF reviewVars, broker, Waits, Same
<1>12. ASSUME \/ BridgeLaunch(v) \/ BridgeCapture(v) \/ BridgeGrab(v) \/ BridgeStop(v)
              \/ BridgeCopy(v) \/ BridgeSkip(v) \/ BridgeClear(v) \/ Judge(v)
       PROVE  Moves(v)
  BY <1>12 DEF Moves
<1> QED
  BY <1>2, <1>3, <1>4, <1>5, <1>6, <1>7, <1>8, <1>9, <1>10, <1>11, <1>12 DEF ReviewNext

\* A bridge command that goes on keeps what fits its step.
Fits(step, job) ==
    \/ /\ step \in {"launch", "launched", "captured", "stopped", "clear", "record"}
       /\ job \in Captures
    \/ step \in {"judge", "rewrite"} /\ job \in Judgements
    \/ step = "idle" /\ job = NoWork

LEMMA ThenFits ==
    ASSUME WorkOK, NEW u \in Users, NEW step, NEW job, Then(u, step, job), Fits(step, job)
    PROVE  WorkOK'
<1>1. step \in BridgeSteps
  BY DEF Fits, BridgeSteps
<1>2. job \in Captures \union Judgements \union {NoWork}
  BY DEF Fits
<1>3. next' \in [Users -> BridgeSteps] /\ next'[u] = step /\ \A v \in Users \ {u} : next'[v] = next[v]
  BY <1>1 DEF Then, WorkOK
<1>4. /\ work' \in [Users -> Captures \union Judgements \union {NoWork}]
      /\ work'[u] = job /\ \A v \in Users \ {u} : work'[v] = work[v]
  BY <1>2 DEF Then, WorkOK
<1>5. /\ Capturing(u)' => job \in Captures
      /\ Judging(u)' => job \in Judgements
  BY <1>3 DEF Fits, Capturing, Judging
<1> QED
  BY <1>3, <1>4, <1>5 DEF WorkOK, Capturing, Judging

LEMMA WorksFit ==
    ASSUME ReviewInv, [ReviewNext]_reviewVars
    PROVE  WorkOK'
<1>0. WorkOK /\ TypeOK /\ receipt \in [Tasks -> Commits] /\ temp \in [Tasks -> Nat]
  BY DEF ReviewInv, ReviewTypeOK, BrokerInv
<1>1. ASSUME NEW u \in Users, EndBridge(u) PROVE WorkOK'
  BY <1>0, <1>1, ThenFits DEF EndBridge, Fits
<1>2. ASSUME UNCHANGED <<next, work>> PROVE WorkOK'
  BY <1>0, <1>2 DEF WorkOK, Capturing, Judging
<1>3. ASSUME NEW u \in Users, NEW t \in Tasks, NEW s \in Sessions, CaptureContext(u, t, s)
      PROVE  WorkOK'
  <2>1. Work(t, s) \in Captures
    BY <1>0 DEF Work, Captures, Statuses
  <2> QED
    BY <1>0, <1>3, <2>1, ThenFits DEF CaptureContext, Fits
<1>4. ASSUME NEW u \in Users, NEW t \in Tasks, NEW d \in Decisions, ReviewContext(u, t, d)
      PROVE  WorkOK'
  <2>1. evidence[t] \in Evidences
    BY <1>4 DEF ReviewContext, ReviewInv, ReviewTypeOK
  <2>2. Judgement(t, d) \in Judgements
    BY <2>1 DEF Judgement, Judgements
  <2> QED
    BY <1>0, <1>4, <2>2, ThenFits DEF ReviewContext, Fits
<1>5. ASSUME NEW u \in Users, \/ BridgeLaunch(u) \/ BridgeCapture(u) \/ BridgeStop(u)
                              \/ BridgeCopy(u) \/ BridgeSkip(u) \/ BridgeClear(u)
      PROVE  work[u] \in Captures /\ Status(u) \in Statuses
  <2>1. Capturing(u)
    BY <1>5 DEF BridgeLaunch, BridgeCapture, BridgeStop, BridgeCopy, BridgeSkip, BridgeClear,
       Returned, Capturing
  <2>2. Status(u) \in Statuses
    BY <1>0 DEF Status, Statuses, TypeOK, Outcomes
  <2> QED
    BY <1>0, <2>1, <2>2 DEF WorkOK
<1>6. ASSUME NEW u \in Users,
             BridgeLaunch(u) \/ BridgeCapture(u) \/ BridgeSkip(u) \/ BridgeClear(u)
      PROVE  WorkOK'
  <2>1. PICK step \in {"launched", "captured", "clear", "record"} : Then(u, step, work[u])
    BY <1>6 DEF BridgeLaunch, BridgeCapture, BridgeSkip, BridgeClear
  <2>2. Fits(step, work[u])
    BY <1>5, <1>6 DEF Fits
  <2> QED
    BY <1>0, <2>1, <2>2, ThenFits
<1>7. ASSUME NEW u \in Users, BridgeStop(u) PROVE WorkOK'
  <2>1. [work[u] EXCEPT !.capture = Status(u)] \in Captures
    BY <1>5, <1>7 DEF Captures
  <2> QED
    BY <1>0, <1>7, <2>1, ThenFits DEF BridgeStop, Fits
<1>8. ASSUME NEW u \in Users, BridgeCopy(u) PROVE WorkOK'
  <2>1. PICK job : job = work[u]
    OBVIOUS
  <2>2. job \in Captures /\ Status(u) \in Statuses
    BY <1>5, <1>8, <2>1
  <2>3. temp[job.task] \in Nat
    BY <1>0, <2>2 DEF Captures
  <2>4. PICK a \in Nat : Then(u, "clear", [job EXCEPT !.stop = Status(u), !.artifact = a])
    BY <1>8, <2>1, <2>3 DEF BridgeCopy
  <2>5. [job EXCEPT !.stop = Status(u), !.artifact = a] \in Captures
    BY <2>2 DEF Captures
  <2> QED
    BY <1>0, <2>4, <2>5, ThenFits DEF Fits
<1>9. ASSUME NEW u \in Users, Judge(u) PROVE WorkOK'
  <2>1. work[u] \in Judgements
    BY <1>0, <1>9 DEF Judge, WorkOK, Judging
  <2> QED
    BY <1>0, <1>9, <2>1, ThenFits DEF Judge, Fits
<1>10. CASE BrokerMoves
  BY <1>2, <1>10 DEF BrokerMoves
<1>11. ASSUME NEW t \in Tasks, Resume(t) \/ Report(t) \/ WorkerMoves(t) \/ Sweep(t)
       PROVE  WorkOK'
  BY <1>2, <1>11 DEF Resume, Report, WorkerMoves, Sweep
<1>12. ASSUME NEW u \in Users, BridgeGrab(u) PROVE WorkOK'
  BY <1>2, <1>12 DEF BridgeGrab
<1>13. ASSUME NEW u \in Users, \/ BridgeRecord(u) \/ BridgeFault(u) \/ JudgeTooLate(u)
                               \/ Rewrite(u) \/ BridgeCrash(u)
       PROVE  WorkOK'
  BY <1>1, <1>13 DEF BridgeRecord, BridgeFault, JudgeTooLate, Rewrite, BridgeCrash
<1>14. CASE UNCHANGED reviewVars
  BY <1>2, <1>14 DEF reviewVars
<1> QED
  BY <1>3, <1>4, <1>6, <1>7, <1>8, <1>9, <1>10, <1>11, <1>12, <1>13, <1>14 DEF ReviewNext

LEMMA ReviewTypesKept ==
    ASSUME ReviewInv, [ReviewNext]_reviewVars
    PROVE  ReviewTypeOK'
<1>0. ReviewTypeOK /\ WorkOK /\ TypeOK /\ Written
  BY ReviewWriters DEF ReviewInv, ReviewTypeOK, BrokerInv
<1> USE DEF ReviewTypeOK
<1>1. /\ state' \in [Tasks -> {"WORKING", "REVIEW_READY"} \union Decisions]
      /\ receipt' \in [Tasks -> Commits]
      /\ cited' \in [Tasks -> Nat]
  <2>1. ASSUME NEW u \in Users, Judge(u)
        PROVE  /\ state' \in [Tasks -> {"WORKING", "REVIEW_READY"} \union Decisions]
               /\ receipt' \in [Tasks -> Commits]
               /\ cited' \in [Tasks -> Nat]
    <3>1. PICK job : job = work[u]
      OBVIOUS
    <3>2. job.task \in Tasks /\ job.decision \in Decisions /\ job.read.artifact \in Nat
      BY <1>0, <2>1, <3>1 DEF Judge, WorkOK, Judging, Judgements, Evidences
    <3>3. /\ state' = state \/ state' = [state EXCEPT ![job.task] = job.decision]
          /\ \/ cited' = cited
             \/ \E a \in Nat : cited' = [cited EXCEPT ![job.task] = a]
      BY <2>1, <3>1, <3>2 DEF Judge
    <3> QED
      BY <1>0, <2>1, <3>2, <3>3 DEF Judge
  <2>2. ASSUME NEW t \in Tasks, Resume(t)
        PROVE  /\ state' \in [Tasks -> {"WORKING", "REVIEW_READY"} \union Decisions]
               /\ receipt' \in [Tasks -> Commits]
               /\ cited' \in [Tasks -> Nat]
    BY <1>0, <2>2 DEF Resume
  <2>3. ASSUME NEW t \in Tasks, Report(t)
        PROVE  /\ state' \in [Tasks -> {"WORKING", "REVIEW_READY"} \union Decisions]
               /\ receipt' \in [Tasks -> Commits]
               /\ cited' \in [Tasks -> Nat]
    BY <1>0, <2>3 DEF Report
  <2>4. CASE UNCHANGED <<state, receipt, cited>>
    BY <1>0, <2>4
  <2> QED
    BY <1>0, <2>1, <2>2, <2>3, <2>4 DEF Written
<1>2. temp' \in [Tasks -> Nat]
  <2>1. ASSUME NEW u \in Users, BridgeGrab(u) PROVE temp' \in [Tasks -> Nat]
    <3>1. seen[u] # NoRecord
      BY <2>1 DEF BridgeGrab, Grab, ReviewInv, BrokerInv, CommandsName, CommandNames, Acting
    <3>2. table[seen[u].pid] \in Nat
      BY <1>0, <3>1 DEF TypeOK, Files
    <3> QED
      BY <1>0, <2>1, <3>2 DEF BridgeGrab
  <2>2. ASSUME NEW u \in Users, BridgeClear(u) PROVE temp' \in [Tasks -> Nat]
    BY <1>0, <2>2 DEF BridgeClear
  <2>3. ASSUME NEW t \in Tasks, Sweep(t) PROVE temp' \in [Tasks -> Nat]
    BY <1>0, <2>3 DEF Sweep
  <2> QED
    BY <1>0, <2>1, <2>2, <2>3 DEF Written
<1>3. file' \in [Tasks -> [Commits -> Nat]]
  <2>1. ASSUME NEW u \in Users, BridgeCopy(u) PROVE file' \in [Tasks -> [Commits -> Nat]]
    <3>1. PICK job : job = work[u]
      OBVIOUS
    <3>2. job \in Captures
      BY <1>0, <2>1, <3>1 DEF BridgeCopy, Returned, WorkOK, Capturing
    <3>3. \/ file' = file
          \/ file' = [file EXCEPT ![job.task][job.head] = temp[job.task]]
      BY <2>1, <3>1 DEF BridgeCopy
    <3>4. job.task \in Tasks /\ job.head \in Commits /\ temp[job.task] \in Nat
      BY <1>0, <3>2 DEF Captures
    <3>5. PICK row : row = [file[job.task] EXCEPT ![job.head] = temp[job.task]]
      OBVIOUS
    <3>6. row \in [Commits -> Nat]
      BY <1>0, <3>4, <3>5
    <3>7. file' = file \/ file' = [file EXCEPT ![job.task] = row]
      BY <3>3, <3>5
    <3> QED
      BY <1>0, <3>6, <3>7
  <2> QED
    BY <1>0, <2>1 DEF Written
<1>4. evidence' \in [Tasks -> Evidences \union {NoEvidence}]
  <2>1. ASSUME NEW u \in Users, BridgeRecord(u)
        PROVE  evidence' \in [Tasks -> Evidences \union {NoEvidence}]
    <3>1. work[u] \in Captures
      BY <1>0, <2>1 DEF BridgeRecord, WorkOK, Capturing
    <3>2. Evidence(work[u]) \in Evidences
      BY <3>1 DEF Captures, Evidence, Evidences
    <3> QED
      BY <1>0, <2>1, <3>2 DEF BridgeRecord
  <2>2. ASSUME NEW u \in Users, Rewrite(u)
        PROVE  evidence' \in [Tasks -> Evidences \union {NoEvidence}]
    <3>1. work[u].read \in Evidences
      BY <1>0, <2>2 DEF Rewrite, WorkOK, Judging, Judgements
    <3> QED
      BY <1>0, <2>2, <3>1 DEF Rewrite
  <2> QED
    BY <1>0, <2>1, <2>2 DEF Written
<1> QED
  BY <1>1, <1>2, <1>3, <1>4, WorksFit

\* A broker's command that goes on stays among the steps of its kind.
LEMMA ContinueSteps ==
    ASSUME TypeOK, NEW v \in Users, Continue(v)
    PROVE  /\ call' = call
           /\ \/ at[v] \in {"spawn", "settle", "save"} /\ at'[v] \in {"settle", "save", "idle"}
              \/ at[v] = "grab" /\ at'[v] = "idle"
              \/ /\ at[v] \in {"close", "closing", "kill", "killing", "stopped"}
                 /\ at'[v] \in {"closing", "kill", "killing", "stopped", "idle"}
  BY DEF Continue, Refused, Spawn, Settle, SettleUnidentified, SaveRunning,
       GrabNothing,
     Close, Gone,
     CloseTimesOut, Kill, KillTimesOut, SaveStopped, Return, Goto, TypeOK

\* What the first step of each command of the bridge leaves behind.
LEMMA BridgeCalls ==
    ASSUME TypeOK, NEW v \in Users, NEW s \in Sessions, NEW w \in Worktrees,
           Launch(v, s, w) \/ Capture(v, s, w) \/ Stop(v, s, w)
    PROVE  /\ at[v] = "idle" /\ call'[v] = <<s, w>>
           /\ Launch(v, s, w) =>
                at'[v] = "spawn" \/ (at'[v] = "idle" /\ outcome'[v] = "raised")
           /\ Capture(v, s, w) =>
                at'[v] = "idle" \/ (at'[v] = "grab" /\ seen'[v] = record[s])
           /\ Stop(v, s, w) => at'[v] \in {"idle", "close", "kill"}
<1>0. v \in DOMAIN at /\ v \in DOMAIN outcome /\ v \in DOMAIN seen
  BY DEF TypeOK
<1>1. at[v] = "idle" /\ call'[v] = <<s, w>>
  BY DEF Launch, Capture, Stop, Enter, TypeOK
<1>2. ASSUME Launch(v, s, w) PROVE at'[v] = "spawn" \/ (at'[v] = "idle" /\ outcome'[v] = "raised")
  <2>1. \/ at' = [at EXCEPT ![v] = "spawn"]
        \/ at' = [at EXCEPT ![v] = "idle"] /\ outcome' = [outcome EXCEPT ![v] = "raised"]
    BY <1>2 DEF Launch, Return, Proceed, Goto
  <2> QED
    BY <1>0, <2>1
<1>3. ASSUME Capture(v, s, w) PROVE at'[v] = "idle" \/ (at'[v] = "grab" /\ seen'[v] = record[s])
  <2>1. \/ at' = [at EXCEPT ![v] = "idle"]
        \/ at' = [at EXCEPT ![v] = "grab"] /\ seen' = [seen EXCEPT ![v] = record[s]]
    BY <1>3 DEF Capture, Return, Proceed, Goto
  <2> QED
    BY <1>0, <2>1
<1>4. ASSUME Stop(v, s, w) PROVE at'[v] \in {"idle", "close", "kill"}
  <2>1. \E step \in {"idle", "close", "kill"} : at' = [at EXCEPT ![v] = step]
    <3>1. CASE Owned(record[s])
      BY <1>4, <3>1 DEF Stop, Proceed, Goto
    <3>2. CASE ~ Owned(record[s])
      BY <1>4, <3>2 DEF Stop, Return, Goto
    <3> QED
      BY <3>1, <3>2
  <2> QED
    BY <1>0, <2>1
<1> QED
  BY <1>1, <1>2, <1>3, <1>4

\* A bridge command has begun no command of the broker, or the one it waits for.
LEMMA BridgeCallsStay ==
    ASSUME ReviewInv, [ReviewNext]_reviewVars, NEW v \in Users
    PROVE  Calls(v)'
<1>0. TypeOK /\ WorkOK /\ Calls(v) /\ at[v] \in Steps
  BY DEF ReviewInv, BrokerInv, ReviewTypeOK, TypeOK
<1>1. CASE Waits(v)
  BY <1>0, <1>1 DEF Waits, Same, Calls
<1>2. ASSUME at'[v] = "idle" PROVE Calls(v)'
  BY <1>2 DEF Calls
<1>3. ASSUME at' = at, next[v] \in {"clear", "judge"} \/ at[v] = "idle" PROVE at'[v] = "idle"
  BY <1>0, <1>3 DEF Calls, Steps
<1>4. ASSUME NEW t \in Tasks, NEW s \in Sessions, CaptureContext(v, t, s) PROVE at'[v] = "idle"
  BY <1>3, <1>4 DEF CaptureContext, broker
<1>5. ASSUME NEW t \in Tasks, NEW d \in Decisions, ReviewContext(v, t, d) PROVE at'[v] = "idle"
  BY <1>3, <1>5 DEF ReviewContext, broker
<1>6. ASSUME BridgeCopy(v) \/ BridgeSkip(v) \/ BridgeClear(v) \/ Judge(v) PROVE at'[v] = "idle"
  BY <1>3, <1>6 DEF BridgeCopy, BridgeSkip, BridgeClear, Judge, Returned, broker
<1>7. ASSUME BridgeGrab(v) PROVE at'[v] = "idle"
  BY <1>0, <1>7 DEF BridgeGrab, Grab, Return, Goto, TypeOK
<1>8. ASSUME Continue(v), next'[v] = next[v], work'[v] = work[v] PROVE Calls(v)'
  BY <1>0, <1>8, ContinueSteps DEF Calls
<1>9. ASSUME BridgeLaunch(v) \/ BridgeCapture(v) \/ BridgeStop(v) PROVE Calls(v)'
  <2>1. PICK job : job = work[v]
    OBVIOUS
  <2>2. job \in Captures
    BY <1>0, <1>9, <2>1 DEF BridgeLaunch, BridgeCapture, BridgeStop, Returned, WorkOK, Capturing
  <2>3. job.session \in Sessions /\ job.task \in Worktrees
    BY <2>2 DEF Captures, Tasks
  <2>4. CASE BridgeLaunch(v)
    <3>1. next'[v] = "launched" /\ work'[v] = job /\ Launch(v, job.session, job.task)
      BY <1>0, <2>1, <2>4 DEF BridgeLaunch, Then, WorkOK
    <3> QED
      BY <1>0, <2>3, <3>1, BridgeCalls DEF Calls
  <2>5. CASE BridgeCapture(v)
    <3>1. next'[v] = "captured" /\ work'[v] = job /\ Capture(v, job.session, job.task)
      BY <1>0, <2>1, <2>5 DEF BridgeCapture, Then, WorkOK
    <3> QED
      BY <1>0, <2>3, <3>1, BridgeCalls DEF Calls
  <2>6. CASE BridgeStop(v)
    <3>1. /\ next'[v] = "stopped" /\ work'[v] = [job EXCEPT !.capture = Status(v)]
          /\ Stop(v, job.session, job.task)
      BY <1>0, <2>1, <2>6 DEF BridgeStop, Then, WorkOK
    <3>2. work'[v].session = job.session /\ work'[v].task = job.task
      BY <2>2, <3>1 DEF Captures
    <3> QED
      BY <1>0, <2>3, <3>1, <3>2, BridgeCalls DEF Calls
  <2> QED
    BY <1>9, <2>4, <2>5, <2>6
<1> QED
  BY <1>1, <1>2, <1>4, <1>5, <1>6, <1>7, <1>8, <1>9, OneMoves DEF Moves

-------------------------------------------------------------------------------
(* What a quiet review may rely on. *)

LEMMA QuietStays ==
    ASSUME ReviewInv, [ReviewNext]_reviewVars, Quiet'
    PROVE  Quiet /\ QuietInv
  BY ReviewKeepsBroker DEF Quiet, ReviewInv

LEMMA PicturesStay ==
    ASSUME BrokerInv, Grows, NEW i, NEW t, NEW c
    PROVE  /\ Pictures(i, t, c) => Pictures(i, t, c)'
           /\ NoneOrPictures(i, t, c) => NoneOrPictures(i, t, c)'
  BY BornStay DEF Pictures, NoneOrPictures

\* The command's task and session stay as they were, but for what it does itself.
LEMMA TaskKept ==
    ASSUME ReviewInv, [ReviewNext]_reviewVars, Quiet', NEW v \in Users, ~ Judge(v),
           Capturing(v) \/ next[v] = "judge", NEW t \in Tasks, t = work[v].task
    PROVE  state'[t] = "REVIEW_READY" /\ receipt'[t] = receipt[t]
<1>0. /\ Written /\ OneBridge /\ state[t] = "REVIEW_READY" /\ next[v] # "idle"
      /\ ReviewTypeOK
  BY QuietStays, ReviewWriters
     DEF QuietInv, CaptureTrue, JudgeTrue, Capturing, Judging, ReviewInv
<1>1. ASSUME NEW q \in Tasks, Resume(q) \/ Report(q)
      PROVE  state'[t] = "REVIEW_READY" /\ receipt'[t] = receipt[t]
  <2>1. q # t
    BY <1>0, <1>1 DEF Resume, Report
  <2> QED
    BY <1>0, <1>1, <2>1 DEF Resume, Report, ReviewTypeOK
<1>2. ASSUME NEW u \in Users, Judge(u)
      PROVE  state'[t] = "REVIEW_READY" /\ receipt'[t] = receipt[t]
  <2>1. work[u].task # t
    BY <1>0, <1>2 DEF Judge, OneBridge
  <2> QED
    BY <1>0, <1>2, <2>1 DEF Judge, ReviewTypeOK
<1> QED
  BY <1>0, <1>1, <1>2 DEF Written

LEMMA TempKept ==
    ASSUME ReviewInv, [ReviewNext]_reviewVars, Quiet', NEW v \in Users, ~ BridgeGrab(v),
           Capturing(v), NEW t \in Tasks, t = work[v].task
    PROVE  temp'[t] \in {temp[t], 0}
<1>0. Written /\ OneBridge /\ next[v] # "idle" /\ ReviewTypeOK
  BY QuietStays, ReviewWriters DEF QuietInv, Capturing, ReviewInv
<1>1. ASSUME NEW u \in Users, BridgeGrab(u) PROVE temp'[t] \in {temp[t], 0}
  <2>1. next[u] = "captured" => work[u].task # t
    BY <1>0, <1>1 DEF OneBridge
  <2> QED
    BY <1>0, <1>1, <2>1 DEF BridgeGrab, ReviewTypeOK
<1>2. ASSUME NEW u \in Users, BridgeClear(u) PROVE temp'[t] \in {temp[t], 0}
  BY <1>0, <1>2 DEF BridgeClear, ReviewTypeOK
<1>3. ASSUME NEW q \in Tasks, Sweep(q) PROVE temp'[t] \in {temp[t], 0}
  BY <1>0, <1>3 DEF Sweep, ReviewTypeOK
<1> QED
  BY <1>0, <1>1, <1>2, <1>3 DEF Written

LEMMA RecordKept ==
    ASSUME ReviewInv, [ReviewNext]_reviewVars, Quiet', NEW v \in Users, at[v] = "idle",
           Capturing(v), NEW s \in Sessions, s = work[v].session
    PROVE  record'[s] = record[s]
<1>0. OneBridge /\ next[v] # "idle" /\ BrokerInv /\ \A u \in Users : Calls(u)
  BY QuietStays DEF QuietInv, Capturing, ReviewInv
<1>1. ASSUME NEW u \in Users, SaveRunning(u) \/ SaveStopped(u), call[u][1] = s PROVE FALSE
  <2>1. Capturing(u) /\ next[u] # "idle" /\ work[u].session = s /\ u # v
    BY <1>0, <1>1 DEF SaveRunning, SaveStopped, Calls, Capturing
  <2> QED
    BY <1>0, <2>1 DEF OneBridge
<1>2. CASE [Next]_vars
  BY <1>0, <1>1, <1>2, RecordWritten
<1>3. CASE Elsewhere
  BY <1>3 DEF Elsewhere
<1> QED
  BY <1>2, <1>3, BrokerOrElsewhere

\* What a capture has besides the process goes on being of the head it read.
Kept(job, t, c) ==
    /\ state[t] = "REVIEW_READY"
    /\ c = receipt[t]
    /\ NoneOrPictures(temp[t], t, c)
    /\ NoneOrPictures(job.artifact, t, c)

LEMMA CaptureKept ==
    ASSUME ReviewInv, [ReviewNext]_reviewVars, Quiet', NEW v \in Users, Capturing(v),
           ~ BridgeGrab(v), NEW job, job = work[v],
           NEW t \in Tasks, t = job.task, NEW c \in Commits, c = job.head
    PROVE  /\ Kept(job, t, c)
           /\ Kept(job, t, c)'
<1>1. BrokerInv /\ Grows /\ QuietInv /\ next[v] # "judge"
  BY ReviewKeepsBroker, QuietStays DEF ReviewInv, Capturing
<1>2. Kept(job, t, c)
  BY <1>1 DEF QuietInv, CaptureTrue, Kept
<1>3. state'[t] = "REVIEW_READY" /\ receipt'[t] = receipt[t]
  BY <1>1, TaskKept DEF Judge
<1>4. temp'[t] \in {temp[t], 0}
  BY TempKept
<1>5. NoneOrPictures(temp[t], t, c)'
  <2>1. PICK i : i = temp[t]
    OBVIOUS
  <2>2. NoneOrPictures(i, t, c)'
    BY <1>1, <1>2, <2>1, PicturesStay DEF Kept
  <2> QED
    BY <1>4, <2>1, <2>2 DEF NoneOrPictures, Pictures
<1>6. NoneOrPictures(job.artifact, t, c)'
  BY <1>1, <1>2, PicturesStay DEF Kept
<1> QED
  BY <1>2, <1>3, <1>5, <1>6 DEF Kept

\* What the capture knows of the process it launched, under names that do not move.
Knows(u, t, s, c) ==
    /\ at[u] \in {"settle", "save", "grab"} => Pictures(seen[u].identity, t, c)
    /\ next[u] = "launched" /\ at[u] = "idle" /\ outcome[u] = "PASS" =>
        /\ record[s].status = "RUNNING"
        /\ Pictures(record[s].identity, t, c)

LEMMA CaptureParts ==
    ASSUME NEW v \in Users, NEW job, job = work'[v], Kept(job, job.task, job.head)',
           Knows(v, job.task, job.session, job.head)'
    PROVE  CaptureTrue(v)'
  BY DEF CaptureTrue, Kept, Knows

LEMMA KnowsWaiting ==
    ASSUME ReviewInv, [ReviewNext]_reviewVars, Quiet', NEW v \in Users, Capturing(v), Waits(v),
           NEW job \in Captures, job = work[v]
    PROVE  Knows(v, job.task, job.session, job.head)'
<1>1. BrokerInv /\ Grows /\ QuietInv /\ job.session \in Sessions
  BY ReviewKeepsBroker, QuietStays DEF ReviewInv, Captures
<1>2. Knows(v, job.task, job.session, job.head)
  BY <1>1 DEF QuietInv, CaptureTrue, Knows
<1>3. PICK i : i = seen[v].identity
  OBVIOUS
<1>4. PICK j : j = record[job.session].identity
  OBVIOUS
<1>5. at[v] = "idle" => record'[job.session] = record[job.session]
  BY <1>1, RecordKept
<1>6. /\ Pictures(i, job.task, job.head) => Pictures(i, job.task, job.head)'
      /\ Pictures(j, job.task, job.head) => Pictures(j, job.task, job.head)'
  BY <1>1, PicturesStay
<1> QED
  BY <1>2, <1>3, <1>4, <1>5, <1>6 DEF Knows, Waits, Same, Pictures

LEMMA CaptureWaiting ==
    ASSUME ReviewInv, [ReviewNext]_reviewVars, Quiet', NEW v \in Users, Waits(v)
    PROVE  CaptureTrue(v)'
<1> SUFFICES ASSUME Capturing(v)' PROVE CaptureTrue(v)'
  BY DEF CaptureTrue
<1>1. Capturing(v) /\ work'[v] = work[v]
  BY DEF Capturing, Waits
<1>2. PICK job \in Captures : job = work[v]
  BY <1>1 DEF ReviewInv, ReviewTypeOK, WorkOK
<1>3. ~ BridgeGrab(v)
  <2>1. ASSUME BridgeGrab(v) PROVE at[v] = "grab" /\ at'[v] = "idle"
    BY <2>1 DEF BridgeGrab, Grab, Return, Goto, ReviewInv, BrokerInv, TypeOK
  <2> QED
    BY <2>1 DEF Waits, Same
<1>4. job.task \in Tasks /\ job.head \in Commits
  BY DEF Captures
<1>5. Kept(job, job.task, job.head)'
  BY <1>1, <1>2, <1>3, <1>4, CaptureKept
<1> QED
  BY <1>1, <1>2, <1>5, KnowsWaiting, CaptureParts

\* The launch starts the process when the worktree holds what the receipt says.
LEMMA KnowsSpawned ==
    ASSUME ReviewInv, [ReviewNext]_reviewVars, Quiet', NEW v \in Users, Spawn(v), next[v] = "launched",
           NEW job \in Captures, job = work[v]
    PROVE  Knows(v, job.task, job.session, job.head)'
<1>1. /\ QuietInv /\ TypeOK /\ Calls(v) /\ Capturing(v) /\ job.task \in Tasks
  BY QuietStays DEF ReviewInv, BrokerInv, Captures, Capturing
<1>2. call[v] = <<job.session, job.task>>
  BY <1>1 DEF Spawn, Calls
<1>3. disk[job.task] = job.head
  BY <1>1 DEF QuietInv, CaptureTrue, ReceiptKept
<1>4. born' = Append(born, Godot(job.session, job.task))
  BY <1>2 DEF Spawn
<1>5. Len(born') = Len(born) + 1 /\ Len(born) \in Nat
      /\ born'[Len(born')] = Godot(job.session, job.task)
  BY <1>1, <1>4 DEF TypeOK
<1>6. at'[v] = "settle" /\ seen'[v].identity = Len(born')
  BY <1>1 DEF Spawn, Goto, Record, TypeOK
<1> QED
  BY <1>3, <1>5, <1>6 DEF Knows, Pictures, Processes, Godot

LEMMA KnowsGoingOn ==
    ASSUME ReviewInv, [ReviewNext]_reviewVars, Quiet', NEW v \in Users, Continue(v),
           Capturing(v), next'[v] = next[v], NEW job \in Captures, job = work[v]
    PROVE  Knows(v, job.task, job.session, job.head)'
<1>0. /\ TypeOK /\ Calls(v) /\ Knows(v, job.task, job.session, job.head)
      /\ job.session \in Sessions
  BY QuietStays DEF ReviewInv, BrokerInv, QuietInv, CaptureTrue, Knows, Captures
<1>1. CASE Spawn(v)
  BY <1>0, <1>1, KnowsSpawned DEF Spawn, Calls
<1>2. CASE Settle(v) \/ SettleUnidentified(v)
  <2>1. born' = born
    BY <1>2 DEF Settle, SettleUnidentified
  <2>2. \/ at'[v] = "idle" /\ outcome'[v] = "FAIL"
        \/ at'[v] = "save" /\ seen'[v] = seen[v]
    BY <1>0, <1>2 DEF Settle, SettleUnidentified, Return, Goto, TypeOK
  <2>3. at[v] = "settle"
    BY <1>2 DEF Settle, SettleUnidentified
  <2> QED
    BY <1>0, <2>1, <2>2, <2>3 DEF Knows, Pictures, Processes
<1>3. CASE SaveRunning(v)
  <2>1. call[v] = <<job.session, job.task>> /\ at[v] = "save"
    BY <1>0, <1>3 DEF SaveRunning, Calls
  <2>2. born' = born /\ record'[job.session] = seen[v] /\ at'[v] = "idle"
    BY <1>0, <1>3, <2>1 DEF SaveRunning, Return, Goto, TypeOK
  <2>3. seen[v].status = "RUNNING"
    BY <2>1 DEF ReviewInv, BrokerInv, CommandsName, CommandNames, Launched
  <2> QED
    BY <1>0, <2>1, <2>2, <2>3 DEF Knows, Pictures, Processes
<1>4. CASE at[v] \in {"grab", "close", "closing", "kill", "killing", "stopped"}
  <2>1. next[v] # "launched"
    BY <1>0, <1>4 DEF Calls
  <2>2. at'[v] \notin {"settle", "save", "grab"}
    BY <1>0, <1>4, ContinueSteps
  <2> QED
    BY <2>1, <2>2 DEF Knows
<1>5. CASE Refused(v)
  <2>1. born' = born /\ at'[v] = "idle" /\ outcome'[v] \in {"FAIL", "raised"}
    BY <1>0, <1>5 DEF Refused, Return, Goto, TypeOK
  <2> QED
    BY <1>0, <2>1 DEF Knows, Calls
<1> QED
  BY <1>1, <1>2, <1>3, <1>4, <1>5
     DEF Continue, GrabNothing, Close, Gone, CloseTimesOut, Kill, KillTimesOut, SaveStopped

\* The picture taken is of the process that was recorded.
LEMMA GrabTrue ==
    ASSUME ReviewInv, [ReviewNext]_reviewVars, Quiet', NEW v \in Users, BridgeGrab(v)
    PROVE  CaptureTrue(v)'
<1>0. /\ TypeOK /\ Calls(v) /\ QuietInv /\ Quiet /\ WorkOK /\ ReviewTypeOK /\ PidsKept
  BY QuietStays DEF ReviewInv, BrokerInv, ReviewTypeOK
<1>1. at[v] = "grab" /\ next[v] = "captured" /\ Capturing(v)
  BY <1>0 DEF BridgeGrab, Grab, Calls, Capturing
<1>2. PICK job \in Captures : job = work[v]
  BY <1>0, <1>1 DEF WorkOK
<1>3. job.task \in Tasks /\ work' = work /\ next' = next /\ state' = state /\ receipt' = receipt
  BY <1>2 DEF BridgeGrab, Captures
<1>4. born' = born /\ at'[v] = "idle"
  BY <1>0 DEF BridgeGrab, Grab, Return, Goto, TypeOK
<1>5. /\ Kept(job, job.task, job.head)
      /\ Pictures(seen[v].identity, job.task, job.head)
  BY <1>0, <1>1, <1>2 DEF QuietInv, CaptureTrue, Kept
<1>6. table[seen[v].pid] = seen[v].identity
  <2>1. seen[v] # NoRecord
    BY <1>1 DEF ReviewInv, BrokerInv, CommandsName, CommandNames, Acting
  <2>2. seen[v].pid \in Pids /\ HasPid(v, seen[v].pid)
    BY <1>0, <1>1, <2>1 DEF TypeOK, Files, HasPid
  <2>3. table[seen[v].pid] # 0
    BY DEF BridgeGrab, Grab
  <2>4. "reuse" \notin Happened
    BY <1>0 DEF Quiet
  <2> QED
    BY <1>0, <2>2, <2>3, <2>4 DEF PidsKept
<1>7. temp'[job.task] = seen[v].identity
  BY <1>0, <1>1, <1>2, <1>3, <1>6 DEF BridgeGrab, ReviewTypeOK
<1>8. Kept(job, job.task, job.head)'
  BY <1>3, <1>4, <1>5, <1>7 DEF Kept, NoneOrPictures, Pictures, Processes
<1>9. Knows(v, job.task, job.session, job.head)'
  BY <1>1, <1>3, <1>4 DEF Knows
<1> QED
  BY <1>2, <1>3, <1>8, <1>9, CaptureParts

\* The capture begins in a clean worktree.
LEMMA ContextTrue ==
    ASSUME ReviewInv, [ReviewNext]_reviewVars, Quiet', NEW v \in Users, NEW t \in Tasks,
           NEW s \in Sessions, CaptureContext(v, t, s)
    PROVE  CaptureTrue(v)'
<1>1. WorkOK /\ state' = state /\ receipt' = receipt /\ temp' = temp /\ at'[v] = "idle"
  BY DEF ReviewInv, ReviewTypeOK, CaptureContext, broker
<1>2. next'[v] = "launch" /\ work'[v] = Work(t, s)
  BY <1>1 DEF CaptureContext, Then, WorkOK
<1>3. state[t] = "REVIEW_READY" /\ temp[t] = 0
  BY DEF CaptureContext, Context, AtReceipt
<1>4. Kept(Work(t, s), t, receipt[t])'
  BY <1>1, <1>3 DEF Kept, NoneOrPictures, Work
<1> QED
  BY <1>1, <1>2, <1>4 DEF CaptureTrue, Kept, Work

\* The other steps of a capture.
LEMMA CaptureGoesOn ==
    ASSUME ReviewInv, [ReviewNext]_reviewVars, Quiet', NEW v \in Users,
           \/ BridgeLaunch(v) \/ BridgeCapture(v) \/ BridgeStop(v)
           \/ BridgeCopy(v) \/ BridgeSkip(v) \/ BridgeClear(v)
           \/ Continue(v) /\ Capturing(v) /\ next'[v] = next[v] /\ work'[v] = work[v]
    PROVE  CaptureTrue(v)'
<1>0. /\ TypeOK /\ Calls(v) /\ QuietInv /\ WorkOK /\ BrokerInv /\ Grows
      /\ at[v] \in Steps
  BY QuietStays, ReviewKeepsBroker DEF ReviewInv, BrokerInv, ReviewTypeOK, TypeOK
<1>1. Capturing(v)
  BY DEF Capturing, BridgeLaunch, BridgeCapture, BridgeStop, BridgeCopy, BridgeSkip,
     BridgeClear, Returned
<1>2. PICK job \in Captures : job = work[v]
  BY <1>0, <1>1 DEF WorkOK
<1>3. job.task \in Tasks /\ job.session \in Sessions /\ job.head \in Commits
  BY <1>2 DEF Captures
<1>4. ~ BridgeGrab(v)
  <2>1. ASSUME BridgeGrab(v) PROVE at[v] = "grab" /\ next[v] = "captured"
                                   /\ outcome'[v] = "PASS" /\ next'[v] = "captured"
    BY <1>0, <2>1 DEF BridgeGrab, Grab, Return, Goto, TypeOK, Calls
  <2>2. ASSUME at[v] = "grab", next[v] = "captured", Continue(v) PROVE outcome'[v] = "UNKNOWN"
    BY <1>0, <2>2 DEF Continue, Refused, Spawn, Settle, SettleUnidentified, SaveRunning,
       GrabNothing,
       Close, Gone, CloseTimesOut, Kill, KillTimesOut, SaveStopped, Return, TypeOK
  <2>3. ASSUME BridgeLaunch(v) \/ BridgeCapture(v) \/ BridgeStop(v) PROVE at[v] = "idle"
    BY <2>3 DEF BridgeLaunch, BridgeCapture, BridgeStop, Launch, Capture, Stop, Enter
  <2>4. ASSUME BridgeCopy(v) \/ BridgeSkip(v) \/ BridgeClear(v)
        PROVE  at[v] = "idle" \/ next[v] # "captured"
    BY <2>4 DEF BridgeCopy, BridgeSkip, BridgeClear, Returned
  <2> QED
    BY <2>1, <2>2, <2>3, <2>4
<1>5. Kept(job, job.task, job.head) /\ Kept(job, job.task, job.head)'
  BY <1>1, <1>2, <1>3, <1>4, CaptureKept
<1>6. ASSUME Continue(v), next'[v] = next[v], work'[v] = work[v] PROVE CaptureTrue(v)'
  BY <1>1, <1>2, <1>5, <1>6, KnowsGoingOn, CaptureParts
<1>7. ASSUME work'[v] = job, at'[v] = "idle", next'[v] # "launched" PROVE CaptureTrue(v)'
  BY <1>5, <1>7, CaptureParts DEF Knows
<1>8. CASE BridgeLaunch(v)
  <2>1. next'[v] = "launched" /\ work'[v] = job /\ Launch(v, job.session, job.task)
    BY <1>0, <1>2, <1>8 DEF BridgeLaunch, Then, WorkOK
  <2>2. at'[v] = "spawn" \/ (at'[v] = "idle" /\ outcome'[v] = "raised")
    BY <1>0, <1>3, <2>1, BridgeCalls DEF Tasks
  <2>3. Knows(v, job.task, job.session, job.head)'
    BY <2>2 DEF Knows
  <2> QED
    BY <1>5, <2>1, <2>3, CaptureParts
<1>9. CASE BridgeCapture(v)
  <2>1. /\ next'[v] = "captured" /\ work'[v] = job /\ Capture(v, job.session, job.task)
        /\ next[v] = "launched" /\ at[v] = "idle" /\ outcome[v] = "PASS"
    BY <1>0, <1>2, <1>9 DEF BridgeCapture, Returned, Then, WorkOK
  <2>2. at'[v] = "idle" \/ (at'[v] = "grab" /\ seen'[v] = record[job.session])
    BY <1>0, <1>3, <2>1, BridgeCalls DEF Tasks
  <2>3. Pictures(record[job.session].identity, job.task, job.head)
    BY <1>0, <1>1, <1>2, <2>1 DEF QuietInv, CaptureTrue
  <2>4. born' = born
    BY <2>1 DEF Capture, Enter
  <2>5. Knows(v, job.task, job.session, job.head)'
    BY <2>1, <2>2, <2>3, <2>4 DEF Knows, Pictures, Processes
  <2> QED
    BY <1>5, <2>1, <2>5, CaptureParts
<1>10. CASE BridgeStop(v)
  <2>1. /\ next'[v] = "stopped" /\ work'[v] = [job EXCEPT !.capture = Status(v)]
        /\ Stop(v, job.session, job.task)
    BY <1>0, <1>2, <1>10 DEF BridgeStop, Then, WorkOK
  <2>2. at'[v] \in {"idle", "close", "kill"}
    BY <1>0, <1>3, <2>1, BridgeCalls DEF Tasks
  <2>3. PICK new : new = [job EXCEPT !.capture = Status(v)]
    OBVIOUS
  <2>4. /\ new.task = job.task /\ new.head = job.head /\ new.session = job.session
        /\ new.artifact = job.artifact
    BY <2>3 DEF Captures
  <2>5. Kept(new, new.task, new.head)' /\ Knows(v, new.task, new.session, new.head)'
    BY <1>5, <2>1, <2>2, <2>4 DEF Kept, Knows
  <2> QED
    BY <2>1, <2>3, <2>5, CaptureParts
<1>11. CASE BridgeCopy(v)
  <2>1. PICK a : /\ a \in {temp[job.task], 0}
                 /\ Then(v, "clear", [job EXCEPT !.stop = Status(v), !.artifact = a])
    BY <1>2, <1>11 DEF BridgeCopy
  <2>2. PICK new : new = [job EXCEPT !.stop = Status(v), !.artifact = a]
    OBVIOUS
  <2>3. next'[v] = "clear" /\ work'[v] = new /\ at'[v] = "idle"
    BY <1>0, <1>11, <2>1, <2>2 DEF Then, WorkOK, BridgeCopy, Returned, broker
  <2>4. /\ new.task = job.task /\ new.head = job.head /\ new.session = job.session
        /\ new.artifact = a
    BY <2>2 DEF Captures
  <2>5. NoneOrPictures(a, job.task, job.head)
    BY <1>5, <2>1 DEF Kept, NoneOrPictures
  <2>6. NoneOrPictures(a, job.task, job.head)'
    BY <1>0, <2>5, PicturesStay
  <2>7. Kept(new, new.task, new.head)' /\ Knows(v, new.task, new.session, new.head)'
    BY <1>5, <2>3, <2>4, <2>6 DEF Kept, Knows
  <2> QED
    BY <2>3, <2>7, CaptureParts
<1>12. CASE BridgeSkip(v)
  BY <1>0, <1>2, <1>7, <1>12 DEF BridgeSkip, Returned, Then, WorkOK, broker
<1>13. CASE BridgeClear(v)
  <2>1. at[v] = "idle"
    BY <1>0, <1>13 DEF BridgeClear, Calls, Steps
  <2> QED
    BY <1>0, <1>2, <1>7, <1>13, <2>1 DEF BridgeClear, Then, WorkOK, broker
<1> QED
  BY <1>6, <1>8, <1>9, <1>10, <1>11, <1>12, <1>13

LEMMA CapturesStayTrue ==
    ASSUME ReviewInv, [ReviewNext]_reviewVars, Quiet', NEW v \in Users
    PROVE  CaptureTrue(v)'
<1>1. WorkOK
  BY DEF ReviewInv, ReviewTypeOK
<1>2. ASSUME next'[v] \in {"idle", "judge", "rewrite"} PROVE CaptureTrue(v)'
  BY <1>2 DEF CaptureTrue, Capturing
<1>3. ASSUME Judge(v) PROVE next'[v] = "rewrite"
  BY <1>1, <1>3 DEF Judge, Then, WorkOK
<1>4. CASE Continue(v) /\ next'[v] = next[v] /\ work'[v] = work[v]
  <2>1. CASE Capturing(v)
    BY <1>4, <2>1, CaptureGoesOn
  <2>2. CASE ~ Capturing(v)
    BY <1>4, <2>2 DEF CaptureTrue, Capturing
  <2> QED
    BY <2>1, <2>2
<1> QED
  BY <1>2, <1>3, <1>4, OneMoves, CaptureWaiting, ContextTrue, GrabTrue, CaptureGoesOn DEF Moves

LEMMA HeadsStay ==
    ASSUME BrokerInv, Grows, NEW kept, NEW t, OfItsHead(kept, t)
    PROVE  OfItsHead(kept, t)'
<1>1. kept = NoEvidence \/ NoneOrPictures(kept.artifact, t, kept.head)
  BY DEF OfItsHead
<1>2. kept = NoEvidence \/ NoneOrPictures(kept.artifact, t, kept.head)'
  BY <1>1, PicturesStay
<1> QED
  BY <1>2 DEF OfItsHead

\* The decision under way, under names that do not move.
Judged(u, job) ==
    /\ OfItsHead(job.read, job.task)
    /\ next[u] = "judge" =>
        /\ state[job.task] = "REVIEW_READY"
        /\ job.decision = "ACCEPTED" => job.read.head = receipt[job.task] /\ job.read.artifact # 0

LEMMA JudgementsStayTrue ==
    ASSUME ReviewInv, [ReviewNext]_reviewVars, Quiet', NEW v \in Users
    PROVE  JudgeTrue(v)'
<1> SUFFICES ASSUME Judging(v)' PROVE JudgeTrue(v)'
  BY DEF JudgeTrue
<1>0. /\ TypeOK /\ QuietInv /\ WorkOK /\ BrokerInv /\ Grows /\ ReviewTypeOK
  BY QuietStays, ReviewKeepsBroker DEF ReviewInv, BrokerInv, ReviewTypeOK, TypeOK
<1>1. ASSUME NEW job, job = work'[v], Judged(v, job)' PROVE JudgeTrue(v)'
  BY <1>1 DEF JudgeTrue, Judged
<1>2. ASSUME Judging(v), work'[v] = work[v], next'[v] = next[v], ~ Judge(v)
      PROVE  JudgeTrue(v)'
  <2>1. PICK job \in Judgements : job = work[v]
    BY <1>0, <1>2 DEF WorkOK
  <2>2. job.task \in Tasks /\ Judged(v, job)
    BY <1>0, <1>2, <2>1 DEF QuietInv, JudgeTrue, Judged, Judgements
  <2>3. OfItsHead(job.read, job.task)'
    BY <1>0, <2>2, HeadsStay DEF Judged
  <2>4. next[v] = "judge" => state'[job.task] = "REVIEW_READY" /\ receipt'[job.task] = receipt[job.task]
    BY <1>2, <2>1, <2>2, TaskKept
  <2>5. Judged(v, job)'
    BY <1>2, <2>2, <2>3, <2>4 DEF Judged
  <2> QED
    BY <1>1, <1>2, <2>1, <2>5
<1>3. ASSUME Judge(v) PROVE next[v] = "judge" /\ next'[v] = "rewrite" /\ work'[v] = work[v]
  BY <1>0, <1>3 DEF Judge, Then, WorkOK
<1>4. CASE Waits(v)
  BY <1>2, <1>3, <1>4 DEF Waits, Judging
<1>5. CASE Judge(v)
  <2>1. PICK job : job = work[v]
    OBVIOUS
  <2>2. OfItsHead(job.read, job.task)
    BY <1>0, <1>3, <1>5, <2>1 DEF QuietInv, JudgeTrue, Judging
  <2>3. OfItsHead(job.read, job.task)'
    BY <1>0, <2>2, HeadsStay
  <2>4. Judged(v, job)'
    BY <1>3, <1>5, <2>3 DEF Judged
  <2> QED
    BY <1>1, <1>3, <1>5, <2>1, <2>4
<1>6. ASSUME NEW t \in Tasks, NEW d \in Decisions, ReviewContext(v, t, d) PROVE JudgeTrue(v)'
  <2>1. PICK kept : kept = evidence[t]
    OBVIOUS
  <2>2. next'[v] = "judge" /\ work'[v] = [task |-> t, session |-> "none", decision |-> d, read |-> kept]
    BY <1>0, <1>6, <2>1 DEF ReviewContext, Then, WorkOK, Judgement
  <2>3. OfItsHead(kept, t)'
    BY <1>0, <2>1, HeadsStay DEF QuietInv
  <2>4. state[t] = "REVIEW_READY" /\ state' = state /\ receipt' = receipt
    BY <1>6 DEF ReviewContext, Context
  <2>5. d = "ACCEPTED" => kept.head = receipt[t] /\ kept.artifact # 0
    BY <1>6, <2>1 DEF ReviewContext, Confirmed
  <2>6. PICK job : job = [task |-> t, session |-> "none", decision |-> d, read |-> kept]
    OBVIOUS
  <2>7. Judged(v, job)'
    BY <2>3, <2>4, <2>5, <2>6 DEF Judged
  <2> QED
    BY <1>1, <2>2, <2>6, <2>7
<1>7. ASSUME Continue(v), next'[v] = next[v], work'[v] = work[v] PROVE JudgeTrue(v)'
  <2>1. CASE Judge(v)
    BY <1>5, <2>1
  <2>2. CASE ~ Judge(v)
    BY <1>2, <1>7, <2>2 DEF Judging
  <2> QED
    BY <2>1, <2>2
<1>8. ASSUME BridgeLaunch(v) \/ BridgeCapture(v) \/ BridgeStop(v) \/ BridgeCopy(v)
             \/ BridgeSkip(v) \/ BridgeClear(v)
      PROVE  FALSE
  <2>1. next'[v] \in {"launched", "captured", "stopped", "clear", "record"}
    BY <1>0, <1>8 DEF BridgeLaunch, BridgeCapture, BridgeStop, BridgeCopy, BridgeSkip,
       BridgeClear, Then, WorkOK
  <2> QED
    BY <2>1 DEF Judging
<1>9. ASSUME BridgeGrab(v) PROVE JudgeTrue(v)'
  <2>1. work' = work /\ next' = next
    BY <1>9 DEF BridgeGrab
  <2> QED
    BY <1>2, <1>5, <2>1 DEF Judging
<1>10. ASSUME next'[v] \in {"launch", "idle"} PROVE FALSE
  BY <1>10 DEF Judging
<1> QED
  BY <1>4, <1>5, <1>6, <1>7, <1>8, <1>9, <1>10, OneMoves DEF Moves

\* A command that goes on keeps its task and session; one that begins has them
\* to itself, or that is on record.
LEMMA BridgeGoesOn ==
    ASSUME ReviewInv, [ReviewNext]_reviewVars, NEW v \in Users, next'[v] # "idle"
    PROVE  \/ /\ next[v] # "idle"
              /\ work'[v].task = work[v].task
              /\ Capturing(v)' => Capturing(v) /\ work'[v].session = work[v].session
           \/ \E t \in Tasks, s \in Sessions : CaptureContext(v, t, s)
           \/ \E t \in Tasks, d \in Decisions : ReviewContext(v, t, d)
<1>0. TypeOK /\ WorkOK
  BY DEF ReviewInv, BrokerInv, ReviewTypeOK
<1>1. CASE Waits(v)
  BY <1>1 DEF Waits, Capturing
<1>2. ASSUME BridgeStop(v) \/ BridgeCopy(v)
      PROVE  /\ Capturing(v)
             /\ work'[v].task = work[v].task /\ work'[v].session = work[v].session
  <2>1. Capturing(v)
    BY <1>2 DEF BridgeStop, BridgeCopy, Returned, Capturing
  <2>2. PICK job \in Captures : job = work[v]
    BY <1>0, <2>1 DEF WorkOK
  <2>3. \/ work'[v] = [job EXCEPT !.capture = Status(v)]
        \/ \E a : work'[v] = [job EXCEPT !.stop = Status(v), !.artifact = a]
    BY <1>0, <1>2, <2>2 DEF BridgeStop, BridgeCopy, Then, WorkOK
  <2> QED
    BY <2>1, <2>2, <2>3 DEF Captures
<1>3. ASSUME BridgeLaunch(v) \/ BridgeCapture(v) \/ BridgeSkip(v) \/ BridgeClear(v)
      PROVE  Capturing(v) /\ work'[v] = work[v]
  BY <1>0, <1>3 DEF BridgeLaunch, BridgeCapture, BridgeSkip, BridgeClear, Returned, Then,
     WorkOK, Capturing
<1>4. ASSUME BridgeGrab(v) PROVE work' = work /\ next' = next
  BY <1>4 DEF BridgeGrab
<1>5. ASSUME Judge(v) PROVE next[v] = "judge" /\ next'[v] = "rewrite" /\ work'[v] = work[v]
  BY <1>0, <1>5 DEF Judge, Then, WorkOK
<1> QED
  BY <1>1, <1>2, <1>3, <1>4, <1>5, OneMoves DEF Moves, Capturing

LEMMA OneBridgeStays ==
    ASSUME ReviewInv, [ReviewNext]_reviewVars, Quiet'
    PROVE  OneBridge'
<1>0. OneBridge /\ WorkOK /\ TypeOK /\ "overlap" \notin Happened'
  BY QuietStays DEF QuietInv, ReviewInv, ReviewTypeOK, BrokerInv, Quiet
<1> DEFINE Apart(u, v) ==
        /\ work[u].task # work[v].task
        /\ Capturing(u) /\ Capturing(v) => work[u].session # work[v].session
<1>1. ASSUME NEW u \in Users, NEW v \in Users, u # v, next'[v] # "idle",
             NEW t \in Tasks, NEW s \in Sessions, CaptureContext(u, t, s)
      PROVE  Apart(u, v)' /\ Apart(v, u)'
  <2>1. ~ Busy(u, t, {s})
    BY <1>0, <1>1, BusyRecords DEF CaptureContext
  <2>2. /\ next'[v] = next[v] /\ work'[v] = work[v]
        /\ work'[u] = Work(t, s)
    BY <1>0, <1>1 DEF CaptureContext, Then, WorkOK
  <2>3. work[v].task # t /\ work[v].session # s
    BY <1>1, <2>1, <2>2 DEF Busy
  <2> QED
    BY <2>2, <2>3 DEF Work
<1>2. ASSUME NEW u \in Users, NEW v \in Users, u # v, next'[v] # "idle",
             NEW t \in Tasks, NEW d \in Decisions, ReviewContext(u, t, d)
      PROVE  Apart(u, v)' /\ Apart(v, u)'
  <2>1. ~ Busy(u, t, {})
    BY <1>0, <1>2, BusyRecords DEF ReviewContext
  <2>2. /\ next'[v] = next[v] /\ work'[v] = work[v]
        /\ work'[u] = Judgement(t, d) /\ next'[u] = "judge"
    BY <1>0, <1>2 DEF ReviewContext, Then, WorkOK
  <2>3. work[v].task # t
    BY <1>2, <2>1, <2>2 DEF Busy
  <2> QED
    BY <2>2, <2>3 DEF Judgement, Capturing
<1> SUFFICES ASSUME NEW u \in Users, NEW v \in Users, u # v, next'[u] # "idle", next'[v] # "idle"
             PROVE  Apart(u, v)'
  BY DEF OneBridge
<1>3. CASE /\ next[u] # "idle" /\ next[v] # "idle"
           /\ work'[u].task = work[u].task /\ work'[v].task = work[v].task
           /\ Capturing(u)' => Capturing(u) /\ work'[u].session = work[u].session
           /\ Capturing(v)' => Capturing(v) /\ work'[v].session = work[v].session
  BY <1>0, <1>3 DEF OneBridge
<1> QED
  BY <1>1, <1>2, <1>3, BridgeGoesOn

\* The worktree of a task with a receipt moves in no quiet step.
LEMMA ReceiptsStay ==
    ASSUME ReviewInv, [ReviewNext]_reviewVars, Quiet'
    PROVE  ReceiptKept'
<1>0. ReceiptKept /\ Written /\ TypeOK /\ ReviewTypeOK /\ "work" \notin Happened'
  BY QuietStays, ReviewWriters DEF QuietInv, ReviewInv, BrokerInv, Quiet
<1>1. ASSUME NEW t \in Tasks, WorkerMoves(t) PROVE ReceiptKept'
  <2>1. state[t] = "WORKING" /\ state' = state /\ receipt' = receipt
    BY <1>0, <1>1, MovesRecord DEF WorkerMoves
  <2>2. \A q \in Tasks \ {t} : disk'[q] = disk[q]
    BY <1>0, <1>1 DEF WorkerMoves, TypeOK, Tasks
  <2> QED
    BY <1>0, <2>1, <2>2 DEF ReceiptKept
<1>2. ASSUME UNCHANGED disk, NEW t \in Tasks, Resume(t) \/ Report(t) PROVE ReceiptKept'
  BY <1>0, <1>2 DEF ReceiptKept, Resume, Report, ReviewTypeOK
<1>3. ASSUME UNCHANGED disk, NEW u \in Users, Judge(u) PROVE ReceiptKept'
  <2>1. \A t \in Tasks : state'[t] = state[t] \/ state[t] = "REVIEW_READY"
    BY <1>0, <1>3 DEF Judge, ReviewTypeOK
  <2> QED
    BY <1>0, <1>3, <2>1 DEF ReceiptKept, Judge
<1>4. CASE UNCHANGED <<disk, state, receipt, cited>>
  BY <1>0, <1>4 DEF ReceiptKept
<1>5. ASSUME NEW t \in Tasks, Resume(t) \/ Report(t) PROVE UNCHANGED disk
  BY <1>5 DEF Resume, Report, broker
<1>6. ASSUME NEW u \in Users, Judge(u) PROVE UNCHANGED disk
  BY <1>6 DEF Judge, broker
<1> QED
  BY <1>0, <1>1, <1>2, <1>3, <1>4, <1>5, <1>6 DEF Written

\* What is written as evidence was of its head, and stays it.
LEMMA EvidenceStays ==
    ASSUME ReviewInv, [ReviewNext]_reviewVars, Quiet', NEW t \in Tasks
    PROVE  OfItsHead(evidence[t], t)'
<1>0. /\ QuietInv /\ Written /\ BrokerInv /\ Grows /\ ReviewTypeOK /\ WorkOK
  BY QuietStays, ReviewWriters, ReviewKeepsBroker DEF ReviewInv, ReviewTypeOK
<1>1. ASSUME NEW kept, kept = evidence'[t], OfItsHead(kept, t) PROVE OfItsHead(evidence[t], t)'
  <2>1. OfItsHead(kept, t)'
    BY <1>0, <1>1, HeadsStay
  <2> QED
    BY <1>1, <2>1 DEF OfItsHead
<1>2. CASE evidence'[t] = evidence[t]
  BY <1>0, <1>1, <1>2 DEF QuietInv
<1>3. ASSUME NEW u \in Users, BridgeRecord(u) PROVE OfItsHead(evidence[t], t)'
  <2>1. PICK job : job = work[u]
    OBVIOUS
  <2>2. CASE job.task = t
    <3>1. evidence'[t] = Evidence(job)
      BY <1>0, <1>3, <2>1, <2>2 DEF BridgeRecord, ReviewTypeOK
    <3>2. NoneOrPictures(job.artifact, t, job.head)
      BY <1>0, <1>3, <2>1, <2>2 DEF BridgeRecord, QuietInv, CaptureTrue, Capturing
    <3> QED
      BY <1>1, <3>1, <3>2 DEF Evidence, OfItsHead
  <2>3. CASE job.task # t
    BY <1>0, <1>2, <1>3, <2>1, <2>3 DEF BridgeRecord, ReviewTypeOK
  <2> QED
    BY <2>2, <2>3
<1>4. ASSUME NEW u \in Users, Rewrite(u) PROVE OfItsHead(evidence[t], t)'
  <2>1. PICK job : job = work[u]
    OBVIOUS
  <2>2. CASE job.task = t
    <3>1. evidence'[t] = job.read
      BY <1>0, <1>4, <2>1, <2>2 DEF Rewrite, ReviewTypeOK
    <3>2. OfItsHead(job.read, t)
      BY <1>0, <1>4, <2>1, <2>2 DEF Rewrite, QuietInv, JudgeTrue, Judging
    <3> QED
      BY <1>1, <3>1, <3>2
  <2>3. CASE job.task # t
    BY <1>0, <1>2, <1>4, <2>1, <2>3 DEF Rewrite, ReviewTypeOK
  <2> QED
    BY <2>2, <2>3
<1> QED
  BY <1>0, <1>2, <1>3, <1>4 DEF Written

\* An acceptance cites what its review has read, and nothing undoes it.
LEMMA AcceptedStay ==
    ASSUME ReviewInv, [ReviewNext]_reviewVars, Quiet', NEW t \in Tasks, state'[t] = "ACCEPTED"
    PROVE  Pictures(cited[t], t, receipt[t])'
<1>0. /\ QuietInv /\ Written /\ BrokerInv /\ Grows /\ ReviewTypeOK /\ WorkOK
  BY QuietStays, ReviewWriters, ReviewKeepsBroker DEF ReviewInv, ReviewTypeOK
<1>1. ASSUME NEW i, i = cited'[t], Pictures(i, t, receipt'[t])
      PROVE  Pictures(cited[t], t, receipt[t])'
  <2>1. PICK c : c = receipt'[t]
    OBVIOUS
  <2>2. Pictures(i, t, c)'
    BY <1>0, <1>1, <2>1, PicturesStay
  <2> QED
    BY <1>1, <2>1, <2>2 DEF Pictures
<1>2. CASE state[t] = "ACCEPTED" /\ cited'[t] = cited[t] /\ receipt'[t] = receipt[t]
  <2>1. Pictures(cited[t], t, receipt[t])
    BY <1>0, <1>2 DEF QuietInv
  <2> QED
    BY <1>1, <1>2, <2>1
<1>3. ASSUME NEW u \in Users, Judge(u) PROVE Pictures(cited[t], t, receipt[t])'
  <2>1. PICK job : job = work[u]
    OBVIOUS
  <2>2. job.task \in Tasks /\ state[job.task] = "REVIEW_READY"
    BY <1>0, <1>3, <2>1 DEF Judge, WorkOK, Judging, Judgements
  <2>3. CASE job.task = t /\ state'[t] # state[t]
    <3>1. job.decision = "ACCEPTED" /\ cited'[t] = job.read.artifact /\ receipt'[t] = receipt[t]
      BY <1>0, <1>3, <2>1, <2>2, <2>3 DEF Judge, ReviewTypeOK
    <3>2. /\ OfItsHead(job.read, t) /\ job.read.head = receipt[t] /\ job.read.artifact # 0
      BY <1>0, <1>3, <2>1, <2>3, <3>1 DEF Judge, Judging, QuietInv, JudgeTrue
    <3>3. job.read # NoEvidence
      BY <1>0, <1>3, <2>1 DEF Judge, WorkOK, Judging, Judgements, Evidences, NoEvidence
    <3>4. Pictures(job.read.artifact, t, receipt[t])
      BY <3>2, <3>3 DEF OfItsHead, NoneOrPictures
    <3> QED
      BY <1>1, <3>1, <3>2, <3>4
  <2>4. CASE job.task # t \/ state'[t] = state[t]
    <3>1. state'[t] = state[t] /\ cited'[t] = cited[t] /\ receipt'[t] = receipt[t]
      BY <1>0, <1>3, <2>1, <2>2, <2>4 DEF Judge, ReviewTypeOK
    <3> QED
      BY <1>2, <3>1
  <2> QED
    BY <2>3, <2>4
<1>4. ASSUME NEW q \in Tasks, Resume(q) \/ Report(q) PROVE Pictures(cited[t], t, receipt[t])'
  BY <1>0, <1>2, <1>4 DEF Resume, Report, ReviewTypeOK
<1>5. CASE UNCHANGED <<state, receipt, cited>>
  BY <1>2, <1>5
<1> QED
  BY <1>0, <1>3, <1>4, <1>5 DEF Written

LEMMA ReviewStays == ReviewInv /\ [ReviewNext]_reviewVars => ReviewInv'
<1> SUFFICES ASSUME ReviewInv, [ReviewNext]_reviewVars PROVE ReviewInv'
  OBVIOUS
<1>1. BrokerInv' /\ ReviewTypeOK' /\ \A u \in Users : Calls(u)'
  BY ReviewKeepsBroker, ReviewTypesKept, BridgeCallsStay
<1>2. ASSUME Quiet' PROVE QuietInv'
  BY <1>2, OneBridgeStays, ReceiptsStay, CapturesStayTrue, JudgementsStayTrue, EvidenceStays,
     AcceptedStay DEF QuietInv
<1> QED
  BY <1>1, <1>2 DEF ReviewInv

LEMMA ReviewInitHolds == ReviewInit => ReviewInv
<1> SUFFICES ASSUME ReviewInit PROVE ReviewInv
  OBVIOUS
<1>1. BrokerInv
  BY InitHolds DEF ReviewInit
<1>2. /\ \A u \in Users : next[u] = "idle" /\ at[u] = "idle"
      /\ \A t \in Tasks : state[t] = "WORKING" /\ evidence[t] = NoEvidence
  BY DEF ReviewInit, Init
<1>3. WorkOK
  BY DEF ReviewInit, WorkOK, BridgeSteps, Capturing, Judging
<1>4. ReviewTypeOK
  BY <1>3 DEF ReviewInit, Init, Tasks, ReviewTypeOK
<1>5. \A u \in Users : Calls(u)
  BY <1>2 DEF Calls
<1>6. QuietInv
  BY <1>2 DEF QuietInv, OneBridge, ReceiptKept, CaptureTrue, JudgeTrue, Capturing, Judging,
     OfItsHead
<1> QED
  BY <1>1, <1>4, <1>5, <1>6 DEF ReviewInv

\* Whatever the review does with the broker's commands, what each of them knows of
\* its process is true; and as long as nothing but crashes and faults has happened,
\* every picture on its way from a window to an acceptance is of the head it is
\* kept under.
THEOREM ReviewInductive == ReviewSpec => []ReviewInv
  BY ReviewInitHolds, ReviewStays, PTL DEF ReviewSpec

\* An acceptance cites a picture of the accepted head.
THEOREM ReviewIsPictured == ReviewSpec => []QuietlyPictured
<1>1. ReviewInv => QuietlyPictured
  BY DEF ReviewInv, QuietlyPictured, Quiet, QuietInv
<1> QED
  BY <1>1, ReviewInductive, PTL

\* What the broker promises of the processes it is told to end, and of the
\* sessions it records, holds under the review as it does under any caller.
THEOREM ReviewKeepsProcesses == ReviewSpec => [](SignalsOwn /\ StoppedIsGone /\ LiveIsRecorded)
<1>1. ReviewInv => SignalsOwn /\ StoppedIsGone /\ LiveIsRecorded
  BY DEF ReviewInv, BrokerInv, RecordsName, StoppedIsGone, NoRecord
<1> QED
  BY <1>1, ReviewInductive, PTL
===============================================================================
