------------------------ MODULE BudgetGovernorProofs ------------------------
(***************************************************************************)
(* Proofs about BudgetGovernor and QuotaObservations, for any processes,   *)
(* scenarios, costs, budgets and lengths of the history: what the ledgers  *)
(* say of the runs that write them, which lanes a role is sent to, and     *)
(* what the status file keeps.                                             *)
(***************************************************************************)
EXTENDS BudgetGovernor, FiniteSetTheorems, SequenceTheorems,
        WellFoundedInduction, TLAPS

-----------------------------------------------------------------------------
(***************************************************************************)
(* The history of the allowance.                                           *)
(***************************************************************************)
Observations == [at : Nat, reset : Nat, remaining : Nat]

(* rows are the last of the rows of all, as many as the history has.       *)
LastRows(rows, all) ==
    /\ Len(rows) = IF Len(all) < MaxHistory THEN Len(all) ELSE MaxHistory
    /\ \A i \in 1..Len(rows) : rows[i] = all[Len(all) - Len(rows) + i]

Quiet == disturbed \intersect {"overlap", "crash"} = {}

QuotaTypeOK ==
    /\ setup \in Scenarios /\ now \in Nat
    /\ status \in Seq(Observations) /\ made \in Seq(Observations)
    /\ sync \in [Syncers -> {"idle", "open", "write"}]
    /\ kept \in [Syncers -> Seq(Observations)]
    /\ \A u \in Syncers : sync[u] # "idle" => kept[u] # <<>>

(* One sync at a time carries the history from the file to the file.       *)
QuotaInv ==
    /\ QuotaTypeOK
    /\ Quiet =>
        /\ \A u, v \in Syncers : sync[u] # "idle" /\ sync[v] # "idle" => u = v
        /\ \A u \in Syncers : sync[u] # "idle" =>
                LastRows(kept[u], Append(made, kept[u][Len(kept[u])]))
        /\ (\A u \in Syncers : sync[u] # "write") => LastRows(status, made)

(* rows are the end of all, in the same order.                             *)
EndOf(rows, all) ==
    /\ Len(rows) <= Len(all)
    /\ \A i \in 1..Len(rows) : rows[i] = all[Len(all) - Len(rows) + i]

(* The last rows are rows, and the last of them is the one just added.     *)
LEMMA LastOfAppend ==
    ASSUME NEW S, NEW s \in Seq(S), NEW o \in S
    PROVE  LET t == LastOf(Append(s, o), MaxHistory)
           IN /\ t \in Seq(S) /\ t # <<>> /\ t[Len(t)] = o
              /\ EndOf(t, Append(s, o))
<1> DEFINE a == Append(s, o)
           t == LastOf(a, MaxHistory)
<1>1. MaxHistory \in Nat /\ MaxHistory > 0 /\ Len(s) \in Nat
  BY QuotaAssumption, LenProperties
<1>2. a \in Seq(S) /\ Len(a) = Len(s) + 1 /\ a[Len(s) + 1] = o
  BY AppendProperties
<1> HIDE DEF a
<1>3. CASE Len(a) <= MaxHistory
  <2>1. t = a
    BY <1>3 DEF LastOf
  <2>2. EndOf(t, a)
    BY <2>1, <1>1, <1>2 DEF EndOf
  <2>3. t \in Seq(S) /\ t # <<>> /\ t[Len(t)] = o
    BY <2>1, <1>1, <1>2
  <2> QED
    BY <2>2, <2>3 DEF a
<1>4. CASE ~ (Len(a) <= MaxHistory)
  <2> DEFINE d == Len(a) - MaxHistory
  <2>1. t = SubSeq(a, d + 1, Len(a))
    BY <1>4 DEF LastOf
  <2>2. /\ d \in Nat /\ d > 0 /\ d + 1 \in Int /\ Len(a) \in Int /\ d + 1 <= Len(a)
        /\ Len(a) - (d + 1) + 1 = MaxHistory
    BY <1>1, <1>2, <1>4
  <2>3. \A i \in (d + 1)..Len(a) : a[i] \in S
    BY <1>2, <2>2, ElementOfSeq
  <2> HIDE DEF d
  <2>4. /\ SubSeq(a, d + 1, Len(a)) \in Seq(S)
        /\ Len(SubSeq(a, d + 1, Len(a))) =
             IF d + 1 <= Len(a) THEN Len(a) - (d + 1) + 1 ELSE 0
        /\ \A i \in 1 .. Len(a) - (d + 1) + 1 :
             SubSeq(a, d + 1, Len(a))[i] = a[d + 1 + i - 1]
    BY <2>2, <2>3, SubSeqProperties
  <2>5. /\ t \in Seq(S) /\ Len(t) = MaxHistory
        /\ \A i \in 1..MaxHistory : t[i] = a[d + i]
    BY <2>1, <2>2, <2>4
  <2>6. t # <<>> /\ t[Len(t)] = o
    BY <2>5, <1>1, <1>2 DEF d
  <2>7. Len(t) <= Len(a) /\ \A i \in 1..Len(t) : t[i] = a[Len(a) - Len(t) + i]
    BY <2>5, <1>1, <1>2, <1>4 DEF d
  <2> QED
    BY <2>5, <2>6, <2>7 DEF a, EndOf
<1> QED
  BY <1>3, <1>4

(* They are the last of all rows, when those they are added to are.        *)
LEMMA LastRowsAppend ==
    ASSUME NEW S, NEW s \in Seq(S), NEW m \in Seq(S), NEW o \in S, LastRows(s, m)
    PROVE  LastRows(LastOf(Append(s, o), MaxHistory), Append(m, o))
<1> DEFINE a == Append(s, o)
           b == Append(m, o)
           t == LastOf(a, MaxHistory)
<1>1. /\ MaxHistory \in Nat /\ MaxHistory > 0
      /\ Len(s) \in Nat /\ Len(m) \in Nat
  BY QuotaAssumption, LenProperties
<1>2. /\ a \in Seq(S) /\ Len(a) = Len(s) + 1 /\ a[Len(s) + 1] = o
      /\ \A i \in 1..Len(s) : a[i] = s[i]
  BY AppendProperties
<1>3. /\ b \in Seq(S) /\ Len(b) = Len(m) + 1 /\ b[Len(m) + 1] = o
      /\ \A i \in 1..Len(m) : b[i] = m[i]
  BY AppendProperties
<1>4. /\ Len(s) = IF Len(m) < MaxHistory THEN Len(m) ELSE MaxHistory
      /\ \A i \in 1..Len(s) : s[i] = m[Len(m) - Len(s) + i]
  BY DEF LastRows
<1> HIDE DEF a, b
<1>5. PICK k \in Nat, n \in Nat :
        k = Len(s) /\ n = Len(m) /\ Len(a) = k + 1 /\ Len(b) = n + 1 /\ k <= n
  BY <1>1, <1>2, <1>3, <1>4
<1>6. /\ Len(b) \in Nat /\ Len(a) \in Nat /\ Len(a) <= Len(b)
      /\ \A i \in 1..Len(a) : a[i] = b[Len(b) - Len(a) + i]
  <2>1. PICK gap \in Nat : gap = n - k
    BY <1>1, <1>5
  <2>2. ASSUME NEW i \in 1..Len(s)
        PROVE  a[i] = b[gap + i]
    <3>1. a[i] = s[i] /\ s[i] = m[Len(m) - Len(s) + i]
      BY <1>2, <1>4
    <3>2. gap + i \in 1..Len(m) /\ Len(m) - Len(s) + i = gap + i
      BY <1>5, <2>1
    <3> QED
      BY <1>3, <3>1, <3>2
  <2>3. a[Len(s) + 1] = b[gap + (Len(s) + 1)]
    <3>1. gap + (Len(s) + 1) = Len(m) + 1
      BY <1>5, <2>1
    <3> QED
      BY <1>2, <1>3, <3>1
  <2>4. \A i \in 1..Len(a) : i \in 1..Len(s) \/ i = Len(s) + 1
    BY <1>1, <1>5
  <2>5. \A i \in 1..Len(a) : a[i] = b[gap + i]
    BY <2>2, <2>3, <2>4
  <2> QED
    BY <1>5, <2>1, <2>5
<1>7. CASE Len(a) <= MaxHistory
  <2>1. t = a
    BY <1>7 DEF LastOf
  <2>2. Len(a) = IF Len(b) < MaxHistory THEN Len(b) ELSE MaxHistory
    BY <1>1, <1>4, <1>5, <1>7
  <2>3. LastRows(a, b)
    BY <2>2, <1>6 DEF LastRows
  <2> QED
    BY <2>1, <2>3 DEF a, b
<1>8. CASE ~ (Len(a) <= MaxHistory)
  <2> DEFINE d == Len(a) - MaxHistory
  <2>1. t = SubSeq(a, d + 1, Len(a))
    BY <1>8 DEF LastOf
  <2>2. /\ d \in Nat /\ d > 0 /\ d + 1 \in Int /\ Len(a) \in Int /\ d + 1 <= Len(a)
        /\ Len(a) - (d + 1) + 1 = MaxHistory
    BY <1>1, <1>5, <1>8
  <2>3. \A i \in (d + 1)..Len(a) : a[i] \in S
    BY <1>2, <2>2, ElementOfSeq
  <2> HIDE DEF d
  <2>4. /\ Len(SubSeq(a, d + 1, Len(a))) =
             IF d + 1 <= Len(a) THEN Len(a) - (d + 1) + 1 ELSE 0
        /\ \A i \in 1 .. Len(a) - (d + 1) + 1 :
             SubSeq(a, d + 1, Len(a))[i] = a[d + 1 + i - 1]
    BY <2>2, <2>3, SubSeqProperties
  <2>5. Len(t) = MaxHistory /\ \A i \in 1..MaxHistory : t[i] = a[d + i]
    BY <2>1, <2>2, <2>4
  <2>6. Len(t) = IF Len(b) < MaxHistory THEN Len(b) ELSE MaxHistory
    BY <2>5, <1>1, <1>4, <1>5, <1>8
  <2>7. ASSUME NEW i \in 1..Len(t)
        PROVE  t[i] = b[Len(b) - Len(t) + i]
    <3>1. i \in 1..MaxHistory /\ i \in Int /\ d + MaxHistory = Len(a)
      BY <1>1, <1>5, <2>5 DEF d
    <3>2. t[i] = a[d + i] /\ d + i \in 1..Len(a)
      BY <1>1, <2>2, <2>5, <3>1
    <3>3. a[d + i] = b[Len(b) - Len(a) + (d + i)]
      BY <3>2, <1>6
    <3>4. Len(b) - Len(a) + (d + i) = Len(b) - Len(t) + i
      <4>1. Len(t) = MaxHistory /\ Len(a) = d + MaxHistory /\ Len(b) = n + 1
        BY <1>5, <2>5, <3>1
      <4>2. PICK h \in Int, j \in Int, e \in Int : h = MaxHistory /\ j = i /\ e = d
        BY <1>1, <2>2, <3>1
      <4>3. (n + 1) - (e + h) + (e + j) = (n + 1) - h + j
        OBVIOUS
      <4> QED
        BY <4>1, <4>2, <4>3
    <3> QED
      BY <3>2, <3>3, <3>4
  <2>8. LastRows(t, b)
    BY <2>6, <2>7 DEF LastRows
  <2> QED
    BY <2>8 DEF a, b
<1> QED
  BY <1>7, <1>8

(* The last rows of a sequence are a suffix of it.                         *)
LEMMA LastRowsSuffix ==
    ASSUME NEW S, NEW s \in Seq(S), NEW m \in Seq(S), LastRows(s, m)
    PROVE  IsSuffix(s, m)
<1> DEFINE r == Reverse(s)
           q == Reverse(m)
           n == Len(s)
<1>1. n \in Nat /\ Len(m) \in Nat /\ n <= Len(m) /\ MaxHistory \in Nat
  BY QuotaAssumption, LenProperties DEF LastRows
<1>2. /\ \A i \in 1..n : s[n - i + 1] \in S
      /\ \A i \in 1..Len(m) : m[Len(m) - i + 1] \in S
  BY <1>1, ElementOfSeq
<1>3. /\ r = [i \in 1..n |-> s[n - i + 1]]
      /\ q = [i \in 1..Len(m) |-> m[Len(m) - i + 1]]
  BY DEF Reverse
<1>4. r \in Seq(S) /\ Len(r) = n /\ \A i \in 1..n : r[i] = s[n - i + 1]
  BY <1>1, <1>2, <1>3
<1>5. q \in Seq(S) /\ Len(q) = Len(m) /\ \A i \in 1..Len(m) : q[i] = m[Len(m) - i + 1]
  BY <1>1, <1>2, <1>3
<1> HIDE DEF r, q
<1>6. \A i \in 1..n : r[i] = q[i]
  <2> SUFFICES ASSUME NEW i \in 1..n PROVE r[i] = q[i]
    OBVIOUS
  <2>1. i \in Int /\ n - i + 1 \in 1..n /\ i \in 1..Len(m)
    BY <1>1
  <2>2. s[n - i + 1] = m[Len(m) - n + (n - i + 1)]
    BY <2>1 DEF LastRows
  <2>3. Len(m) - n + (n - i + 1) = Len(m) - i + 1
    BY <2>1, <1>1
  <2> QED
    BY <2>1, <2>2, <2>3, <1>4, <1>5
<1>7. SubSeq(r, 1, n) = SubSeq(q, 1, n)
  <2>1. /\ \A i \in 1..n : r[i] \in S /\ q[i] \in S
        /\ 1 \in Int /\ n \in Int
    BY <1>1, <1>4, <1>6, ElementOfSeq
  <2>2. /\ SubSeq(r, 1, n) \in Seq(S) /\ Len(SubSeq(r, 1, n)) = n
        /\ \A i \in 1..n : SubSeq(r, 1, n)[i] = r[i]
    BY <2>1, <1>1, SubSeqProperties
  <2>3. /\ SubSeq(q, 1, n) \in Seq(S) /\ Len(SubSeq(q, 1, n)) = n
        /\ \A i \in 1..n : SubSeq(q, 1, n)[i] = q[i]
    BY <2>1, <1>1, SubSeqProperties
  <2> QED
    BY <2>2, <2>3, <1>6, SeqEqual
<1> QED
  BY <1>1, <1>4, <1>5, <1>7 DEF IsSuffix, IsPrefix, r, q

-----------------------------------------------------------------------------
LEMMA QuotaInitially == Init => QuotaInv
<1> SUFFICES ASSUME Init PROVE QuotaInv
  OBVIOUS
<1> USE DEF Init, QuotaInit
<1>1. <<>> \in Seq(Observations) /\ Len(<<>>) = 0
  BY EmptySeq
<1>2. QuotaTypeOK
  BY <1>1 DEF QuotaTypeOK
<1>3. LastRows(status, made)
  BY <1>1, QuotaAssumption DEF LastRows
<1> QED
  BY <1>2, <1>3 DEF QuotaInv

(* A sync that starts carries the history it has read.                     *)
LEMMA QuotaRead ==
    ASSUME QuotaInv, NEW u \in Syncers, SyncRead(u), UNCHANGED setup
    PROVE  QuotaInv'
<1>1. PICK remaining \in Percents, left \in Horizons :
        SyncMoves(u, "open",
                  LastOf(Append(status, Observation(remaining, left)), MaxHistory))
  BY DEF SyncRead
<1>2. PICK o : o = Observation(remaining, left)
  OBVIOUS
<1>3. PICK rows : rows = LastOf(Append(status, o), MaxHistory)
  OBVIOUS
<1>4. o \in Observations
  BY <1>2, QuotaAssumption DEF Observation, Observations, QuotaInv, QuotaTypeOK
<1>5. /\ sync' = [sync EXCEPT ![u] = "open"]
      /\ kept' = [kept EXCEPT ![u] = rows]
  BY <1>1, <1>2, <1>3 DEF SyncMoves
<1>6. /\ sync[u] = "idle" /\ UNCHANGED <<now, status, made, setup>>
      /\ DisturbIf(Syncing # {}, "overlap")
  BY DEF SyncRead
<1>8. status \in Seq(Observations) /\ made \in Seq(Observations)
  BY DEF QuotaInv, QuotaTypeOK
<1>9. rows \in Seq(Observations) /\ rows # <<>> /\ rows[Len(rows)] = o
  BY <1>3, <1>4, <1>8, LastOfAppend
<1>10. QuotaTypeOK'
  BY <1>5, <1>6, <1>9 DEF QuotaInv, QuotaTypeOK
<1>11. ASSUME Quiet'
       PROVE  /\ Quiet /\ \A v \in Syncers : sync[v] = "idle"
  <2>1. Syncing = {} /\ disturbed' = disturbed
    BY <1>6, <1>11 DEF DisturbIf, Disturb, Quiet
  <2> QED
    BY <2>1, <1>11 DEF Quiet, Syncing
<1>12. ASSUME Quiet'
       PROVE  LastRows(rows, Append(made, rows[Len(rows)])) /\ LastRows(status, made)
  <2>1. LastRows(status, made)
    BY <1>11, <1>12 DEF QuotaInv
  <2>2. LastRows(rows, Append(made, o))
    BY <2>1, <1>3, <1>4, <1>8, LastRowsAppend
  <2> QED
    BY <2>1, <2>2, <1>9
<1>13. ASSUME Quiet'
       PROVE  /\ \A v, w \in Syncers : sync'[v] # "idle" /\ sync'[w] # "idle" => v = w
              /\ \A v \in Syncers : sync'[v] # "idle" => v = u /\ kept'[v] = rows
              /\ \A v \in Syncers : sync'[v] # "write"
  BY <1>5, <1>11, <1>13 DEF QuotaInv, QuotaTypeOK
<1> QED
  <2>1. ASSUME Quiet', NEW v \in Syncers, sync'[v] # "idle"
        PROVE  LastRows(kept'[v], Append(made', kept'[v][Len(kept'[v])]))
    <3>1. kept'[v] = rows /\ made' = made
      BY <1>6, <1>13, <2>1
    <3> QED
      BY <3>1, <1>12, <2>1
  <2>2. ASSUME Quiet' PROVE LastRows(status', made')
    BY <1>6, <1>12, <2>2
  <2>3. /\ Quiet' => \A v \in Syncers : sync'[v] # "idle" =>
                        LastRows(kept'[v], Append(made', kept'[v][Len(kept'[v])]))
        /\ Quiet' => LastRows(status', made')
    BY <2>1, <2>2
  <2> QED
    BY <2>3, <1>10, <1>13 DEF QuotaInv, LastRows

LEMMA QuotaOpen ==
    ASSUME QuotaInv, NEW u \in Syncers, SyncOpen(u), UNCHANGED setup
    PROVE  QuotaInv'
<1>1. /\ sync[u] = "open" /\ sync' = [sync EXCEPT ![u] = "write"]
      /\ kept' = [kept EXCEPT ![u] = kept[u]] /\ status' = <<>>
      /\ UNCHANGED <<now, made, disturbed, setup>>
  BY DEF SyncOpen, SyncMoves
<1>2. kept' = kept
  BY <1>1 DEF QuotaInv, QuotaTypeOK
<1>3. <<>> \in Seq(Observations)
  BY EmptySeq
<1>4. QuotaTypeOK'
  BY <1>1, <1>2, <1>3 DEF QuotaInv, QuotaTypeOK
<1>5. \A v \in Syncers : sync'[v] # "idle" => sync[v] # "idle"
  BY <1>1 DEF QuotaInv, QuotaTypeOK
<1>6. sync'[u] = "write"
  BY <1>1 DEF QuotaInv, QuotaTypeOK
<1>7. ASSUME Quiet'
      PROVE  /\ \A v, w \in Syncers : sync'[v] # "idle" /\ sync'[w] # "idle" => v = w
             /\ \A v \in Syncers : sync'[v] # "idle" =>
                    LastRows(kept[v], Append(made, kept[v][Len(kept[v])]))
  BY <1>1, <1>5, <1>7 DEF QuotaInv, Quiet
<1>8. ASSUME Quiet', NEW v \in Syncers, sync'[v] # "idle"
      PROVE  LastRows(kept'[v], Append(made', kept'[v][Len(kept'[v])]))
  BY <1>1, <1>2, <1>7, <1>8
<1>9. ASSUME Quiet'
      PROVE  \A v \in Syncers : sync'[v] # "idle" =>
                LastRows(kept'[v], Append(made', kept'[v][Len(kept'[v])]))
  BY <1>8, <1>9
<1> QED
  BY <1>4, <1>6, <1>7, <1>9 DEF QuotaInv, LastRows

LEMMA QuotaWrite ==
    ASSUME QuotaInv, NEW u \in Syncers, SyncWrite(u), UNCHANGED setup
    PROVE  QuotaInv'
<1>1. /\ sync[u] = "write" /\ sync' = [sync EXCEPT ![u] = "idle"]
      /\ kept' = [kept EXCEPT ![u] = <<>>] /\ status' = kept[u]
      /\ made' = Append(made, kept[u][Len(kept[u])])
      /\ UNCHANGED <<now, disturbed, setup>>
  BY DEF SyncWrite, SyncMoves
<1>2. /\ kept[u] \in Seq(Observations) /\ kept[u] # <<>>
      /\ made \in Seq(Observations) /\ <<>> \in Seq(Observations)
  BY <1>1, EmptySeq DEF QuotaInv, QuotaTypeOK
<1>3. made' \in Seq(Observations)
  <2>1. PICK rows \in Seq(Observations) : rows = kept[u]
    BY <1>2
  <2>2. Len(rows) \in 1..Len(rows)
    BY <1>2, <2>1, EmptySeq, LenProperties
  <2>3. PICK n \in 1..Len(rows) : n = Len(rows)
    BY <2>2
  <2>4. PICK o \in Observations : o = rows[Len(rows)]
    BY <2>3, ElementOfSeq
  <2> QED
    BY <1>1, <1>2, <2>1, <2>4, AppendProperties
<1>4. QuotaTypeOK'
  BY <1>1, <1>2, <1>3 DEF QuotaInv, QuotaTypeOK
<1>5. /\ \A v \in Syncers : v # u => sync'[v] = sync[v]
      /\ sync'[u] = "idle"
  BY <1>1 DEF QuotaInv, QuotaTypeOK
<1>6. ASSUME Quiet'
      PROVE  /\ \A v \in Syncers : sync'[v] = "idle"
             /\ LastRows(status', made')
  <2>1. Quiet
    BY <1>1, <1>6 DEF Quiet
  <2>2. \A v \in Syncers : sync'[v] = "idle"
    BY <2>1, <1>1, <1>5 DEF QuotaInv
  <2>3. LastRows(kept[u], Append(made, kept[u][Len(kept[u])]))
    BY <2>1, <1>1 DEF QuotaInv
  <2> QED
    BY <2>2, <2>3, <1>1
<1> QED
  <2>1. Quiet' => LastRows(status', made')
    BY <1>6
  <2> QED
    BY <1>4, <1>6, <2>1 DEF QuotaInv, LastRows

LEMMA QuotaCrash ==
    ASSUME QuotaInv, NEW u \in Syncers, SyncCrash(u), UNCHANGED setup
    PROVE  QuotaInv'
<1>1. /\ sync' = [sync EXCEPT ![u] = "idle"] /\ kept' = [kept EXCEPT ![u] = <<>>]
      /\ disturbed' = disturbed \union {"crash"}
      /\ UNCHANGED <<now, status, made, setup>>
  BY DEF SyncCrash, SyncMoves, Disturb
<1>2. ~ Quiet'
  BY <1>1 DEF Quiet
<1>3. QuotaTypeOK'
  BY <1>1, EmptySeq DEF QuotaInv, QuotaTypeOK
<1> QED
  BY <1>2, <1>3 DEF QuotaInv

(* Whatever leaves the history alone and only adds disturbances keeps it.  *)
LEMMA QuotaFrame ==
    ASSUME QuotaInv, now' \in Nat, UNCHANGED <<status, sync, kept, made, setup>>,
           disturbed \subseteq disturbed'
    PROVE  QuotaInv'
<1>1. QuotaTypeOK'
  BY DEF QuotaInv, QuotaTypeOK
<1>2. Quiet' => Quiet
  BY DEF Quiet
<1> QED
  BY <1>1, <1>2 DEF QuotaInv, LastRows

LEMMA RunsOnlyDisturb ==
    ASSUME NEW p, Plan(p) \/ Work(p) \/ Crash(p)
    PROVE  disturbed \subseteq disturbed'
<1> USE DEF Disturb
<1>1. CASE Plan(p)
  BY <1>1 DEF Plan
<1>2. CASE Crash(p)
  BY <1>2 DEF Crash
<1>3. CASE Abort(p) \/ Finish(p)
  BY <1>3 DEF Abort, Finish
<1>4. ASSUME NEW role \in Roles,
             \/ GovernorThread(p, role) \/ Return(p, role)
             \/ Collect(p, role) \/ CollectFault(p, role)
      PROVE  disturbed \subseteq disturbed'
  BY <1>4 DEF GovernorThread, Answer, Fail, Unsent, UncountedCall, LogPass,
              LogPassFault, LogError, LogErrorFault, Return, Collect, CollectFault
<1> QED
  BY <1>1, <1>2, <1>3, <1>4 DEF Work

LEMMA QuotaInductive == QuotaInv /\ [Next]_vars => QuotaInv'
<1> SUFFICES ASSUME QuotaInv, [Next]_vars PROVE QuotaInv'
  OBVIOUS
<1>1. CASE QuotaStep
  <2>1. UNCHANGED setup
    BY <1>1 DEF QuotaStep
  <2>2. CASE Tick(setup.times)
    <3>1. setup \in Scenarios /\ setup.times \subseteq Nat
      BY GovernorAssumption DEF QuotaInv, QuotaTypeOK
    <3> QED
      BY <2>1, <2>2, <3>1, QuotaFrame DEF Tick
  <2>3. ASSUME NEW u \in setup.syncers, Sync(u)
        PROVE  QuotaInv'
    <3>1. u \in Syncers
      BY GovernorAssumption DEF QuotaInv, QuotaTypeOK
    <3> QED
      BY <2>1, <2>3, <3>1, QuotaRead, QuotaOpen, QuotaWrite, QuotaCrash DEF Sync
  <2> QED
    BY <1>1, <2>2, <2>3 DEF QuotaStep
<1>2. CASE RunStep
  <2>1. UNCHANGED <<quotaVars, setup>> /\ now \in Nat
    BY <1>2 DEF RunStep, QuotaInv, QuotaTypeOK
  <2>2. PICK p \in setup.procs : Plan(p) \/ Work(p) \/ Crash(p)
    BY <1>2 DEF RunStep
  <2> QED
    BY <2>1, <2>2, RunsOnlyDisturb, QuotaFrame DEF quotaVars
<1>3. CASE UNCHANGED vars
  BY <1>3, QuotaFrame DEF vars, quotaVars, QuotaInv, QuotaTypeOK
<1> QED
  BY <1>1, <1>2, <1>3 DEF Next

(***************************************************************************)
(* As long as syncs follow each other and none is killed, the status file  *)
(* holds the last observations, as many as the history has room for, or is *)
(* being written.                                                          *)
(***************************************************************************)
THEOREM HistoryIsKept == Spec => []HistoryKept
<1>1. QuotaInv => HistoryKept
  <2> SUFFICES ASSUME QuotaInv, Quiet, \A u \in Syncers : sync[u] # "write"
               PROVE  /\ IsSuffix(status, made)
                      /\ Len(status) = IF Len(made) < MaxHistory THEN Len(made)
                                                                ELSE MaxHistory
    BY DEF HistoryKept, Quiet
  <2>1. LastRows(status, made) /\ status \in Seq(Observations) /\ made \in Seq(Observations)
    BY DEF QuotaInv, QuotaTypeOK
  <2>2. IsSuffix(status, made)
    BY <2>1, LastRowsSuffix
  <2> QED
    BY <2>1, <2>2 DEF LastRows
<1> QED
  BY <1>1, QuotaInitially, QuotaInductive, PTL DEF Spec

-----------------------------------------------------------------------------
(***************************************************************************)
(* What less of the allowance means for the budget.                        *)
(***************************************************************************)
(* rows are in the order of their times, none of which is to come.         *)
InOrder(rows, t) ==
    /\ \A i \in DOMAIN rows : rows[i].at <= t
    /\ \A i, j \in DOMAIN rows : i <= j => rows[i].at <= rows[j].at

TimesInv ==
    /\ QuotaInv
    /\ InOrder(status, now)
    /\ \A u \in Syncers : InOrder(kept[u], now)

LEMMA NothingIsInOrder == \A t : InOrder(<<>>, t)
<1>1. DOMAIN <<>> = {}
  OBVIOUS
<1> QED
  BY <1>1 DEF InOrder

LEMMA InOrderLater ==
    ASSUME NEW rows \in Seq(Observations), NEW s \in Nat, NEW t \in Nat, s <= t,
           InOrder(rows, s)
    PROVE  InOrder(rows, t)
<1>1. \A i \in DOMAIN rows : rows[i] \in Observations
  BY LenProperties, ElementOfSeq
<1>2. \A i \in DOMAIN rows : rows[i].at \in Nat
  BY <1>1 DEF Observations
<1> QED
  BY <1>2 DEF InOrder

LEMMA AddedInOrder ==
    ASSUME NEW rows \in Seq(Observations), NEW t \in Nat, InOrder(rows, t),
           NEW o \in Observations, o.at = t
    PROVE  InOrder(LastOf(Append(rows, o), MaxHistory), t)
<1>1. PICK a : a = Append(rows, o)
  OBVIOUS
<1>2. /\ a \in Seq(Observations) /\ Len(a) = Len(rows) + 1 /\ a[Len(rows) + 1] = o
      /\ \A i \in 1..Len(rows) : a[i] = rows[i]
      /\ Len(rows) \in Nat
  BY <1>1, AppendProperties, LenProperties
<1>3. \A i \in 1..(Len(rows) + 1) : a[i].at \in Nat
  <2>1. \A i \in 1..(Len(rows) + 1) : a[i] \in Observations
    BY <1>2, ElementOfSeq
  <2> QED
    BY <2>1 DEF Observations
<1>4. \A i \in 1..(Len(rows) + 1) : a[i].at <= t
  <2>1. \A i \in 1..Len(rows) : a[i].at <= t
    BY <1>2, LenProperties DEF InOrder
  <2> QED
    BY <2>1, <1>2
<1>5. \A i, j \in 1..(Len(rows) + 1) : i <= j => a[i].at <= a[j].at
  <2> SUFFICES ASSUME NEW i \in 1..(Len(rows) + 1), NEW j \in 1..(Len(rows) + 1), i <= j
               PROVE  a[i].at <= a[j].at
    OBVIOUS
  <2>1. CASE j = Len(rows) + 1
    BY <2>1, <1>2, <1>4
  <2>2. CASE j # Len(rows) + 1
    <3>1. i \in 1..Len(rows) /\ j \in 1..Len(rows)
      BY <2>2, <1>2
    <3> QED
      BY <3>1, <1>2, LenProperties DEF InOrder
  <2> QED
    BY <2>1, <2>2
<1>6. PICK b : b = LastOf(Append(rows, o), MaxHistory)
  OBVIOUS
<1>7. b \in Seq(Observations) /\ EndOf(b, Append(rows, o))
  BY <1>6, LastOfAppend
<1>8. DOMAIN b = 1..Len(b) /\ Len(b) \in Nat
  BY <1>7, LenProperties
<1>9. /\ Len(b) <= Len(rows) + 1
      /\ \A i \in 1..Len(b) : b[i] = a[Len(rows) + 1 - Len(b) + i]
  <2>1. EndOf(b, a)
    BY <1>1, <1>7
  <2> QED
    BY <2>1, <1>2 DEF EndOf
<1>10. PICK d \in Nat : d = Len(rows) + 1 - Len(b)
  <2>1. Len(rows) + 1 - Len(b) \in Nat
    BY <1>2, <1>8, <1>9
  <2> QED
    BY <2>1
<1>11. \A i \in 1..Len(b) : d + i \in 1..(Len(rows) + 1) /\ b[i] = a[d + i]
  BY <1>2, <1>8, <1>9, <1>10
<1>12. \A i \in DOMAIN b : b[i].at <= t
  BY <1>4, <1>8, <1>11
<1>13. ASSUME NEW i \in DOMAIN b, NEW j \in DOMAIN b, i <= j
       PROVE  b[i].at <= b[j].at
  <2>1. /\ d + i \in 1..(Len(rows) + 1) /\ d + j \in 1..(Len(rows) + 1)
        /\ b[i] = a[d + i] /\ b[j] = a[d + j] /\ d + i <= d + j
    BY <1>8, <1>11, <1>13, <1>2
  <2> QED
    BY <2>1, <1>5
<1> QED
  BY <1>6, <1>12, <1>13 DEF InOrder

LEMMA TimesInductive == TimesInv /\ [Next]_vars => TimesInv'
<1> SUFFICES ASSUME TimesInv, [Next]_vars PROVE TimesInv'
  OBVIOUS
<1>1. QuotaInv /\ QuotaInv'
  BY QuotaInductive DEF TimesInv
<1>2. /\ now \in Nat /\ now' \in Nat /\ status \in Seq(Observations)
      /\ kept \in [Syncers -> Seq(Observations)]
  BY <1>1 DEF QuotaInv, QuotaTypeOK
<1>3. CASE UNCHANGED quotaVars
  BY <1>1, <1>3 DEF TimesInv, quotaVars
<1>4. CASE Tick(setup.times)
  <2>1. now <= now' /\ UNCHANGED <<status, kept>>
    BY <1>1, <1>2, <1>4, GovernorAssumption DEF Tick, QuotaInv, QuotaTypeOK
  <2>2. InOrder(status, now')
    BY <1>2, <2>1, InOrderLater DEF TimesInv
  <2>3. \A u \in Syncers : InOrder(kept[u], now')
    BY <1>2, <2>1, InOrderLater DEF TimesInv
  <2> QED
    BY <1>1, <2>1, <2>2, <2>3 DEF TimesInv
<1>5. ASSUME NEW u \in Syncers, Sync(u)
      PROVE  TimesInv'
  <2>1. now' = now
    BY <1>5 DEF Sync, SyncRead, SyncOpen, SyncWrite, SyncCrash
  <2>2. InOrder(kept[u], now) /\ InOrder(status, now)
    BY DEF TimesInv
  <2>3. InOrder(status', now)
    <3>1. status' \in {status, <<>>, kept[u]}
      BY <1>5 DEF Sync, SyncRead, SyncOpen, SyncWrite, SyncCrash
    <3> QED
      BY <2>2, <3>1, NothingIsInOrder
  <2>4. CASE SyncRead(u)
    <3>1. PICK remaining \in Percents, left \in Horizons :
            SyncMoves(u, "open",
                      LastOf(Append(status, Observation(remaining, left)), MaxHistory))
      BY <2>4 DEF SyncRead
    <3>2. PICK o : o = Observation(remaining, left)
      OBVIOUS
    <3>3. o \in Observations /\ o.at = now
      BY <1>2, <3>2, QuotaAssumption DEF Observation, Observations
    <3>4. PICK rows : rows = LastOf(Append(status, o), MaxHistory)
      OBVIOUS
    <3>5. InOrder(rows, now)
      BY <1>2, <2>2, <3>3, <3>4, AddedInOrder
    <3>6. kept' = [kept EXCEPT ![u] = rows]
      BY <3>1, <3>2, <3>4 DEF SyncMoves
    <3> QED
      BY <1>1, <1>2, <2>1, <2>3, <3>5, <3>6 DEF TimesInv
  <2>5. CASE SyncOpen(u) \/ SyncWrite(u) \/ SyncCrash(u)
    <3>1. PICK rows \in {kept[u], <<>>} : kept' = [kept EXCEPT ![u] = rows]
      BY <2>5 DEF SyncOpen, SyncWrite, SyncCrash, SyncMoves
    <3>2. InOrder(rows, now)
      BY <2>2, NothingIsInOrder
    <3> QED
      BY <1>1, <1>2, <2>1, <2>3, <3>1, <3>2 DEF TimesInv
  <2> QED
    BY <1>5, <2>4, <2>5 DEF Sync
<1> QED
  BY <1>1, <1>3, <1>4, <1>5, GovernorAssumption DEF Next, QuotaStep, RunStep, vars,
     QuotaInv, QuotaTypeOK

(* Among the rows of a window the last row is the latest, and there is an  *)
(* earliest one.                                                           *)
LEMMA LatestIsLast ==
    ASSUME NEW rows \in Seq(Observations), rows # <<>>, NEW t, InOrder(rows, t)
    PROVE  Latest(rows) = Len(rows)
<1>1. PICK n \in Nat : n = Len(rows) /\ n > 0 /\ DOMAIN rows = 1..n
  BY EmptySeq, LenProperties
<1>2. \A i \in 1..n : rows[i] \in Observations
  BY <1>1, ElementOfSeq
<1>3. \A i \in 1..n : rows[i].at \in Nat
  BY <1>2 DEF Observations
<1>4. \A j \in 1..n : rows[j].at < rows[n].at \/ (rows[j].at = rows[n].at /\ j <= n)
  BY <1>1, <1>3 DEF InOrder
<1>5. ASSUME NEW i \in 1..n,
             \A j \in 1..n : rows[j].at < rows[i].at \/ (rows[j].at = rows[i].at /\ j <= i)
      PROVE  i = n
  <2>1. rows[n].at < rows[i].at \/ (rows[n].at = rows[i].at /\ n <= i)
    BY <1>1, <1>5
  <2>2. rows[i].at <= rows[n].at
    BY <1>1 DEF InOrder
  <2> QED
    BY <1>1, <1>3, <2>1, <2>2
<1>6. (CHOOSE i \in 1..n :
          \A j \in 1..n : rows[j].at < rows[i].at \/ (rows[j].at = rows[i].at /\ j <= i)) = n
  BY <1>1, <1>4, <1>5
<1> QED
  BY <1>1, <1>6 DEF Latest

LEMMA LeastNatural ==
    ASSUME NEW T, T \subseteq Nat, T # {}
    PROVE  \E x \in T : \A y \in T : x <= y
<1>1. \A x, y \in Nat : <<y, x>> \in OpToRel(<, Nat) <=> y < x
  BY DEF OpToRel
<1>2. PICK x \in T : \A y \in T : ~ (<<y, x>> \in OpToRel(<, Nat))
  <2>1. PICK R : R = OpToRel(<, Nat)
    OBVIOUS
  <2>2. IsWellFoundedOn(R, Nat)
    BY <2>1, NatLessThanWellFounded
  <2>3. \E x \in T : \A y \in T : ~ (<<y, x>> \in R)
    BY ONLY <2>2, T \subseteq Nat, T # {}, WFMin
  <2> QED
    BY <2>1, <2>3
<1>3. \A y \in T : x \in Nat /\ y \in Nat /\ ~ (y < x)
  BY <1>1, <1>2
<1> QED
  BY <1>3

First(rows, W, e) ==
    /\ e \in W
    /\ \A j \in W : rows[e].at < rows[j].at \/ (rows[e].at = rows[j].at /\ e <= j)

LEMMA EarliestIsFirst ==
    ASSUME NEW rows, NEW W, NEW e, W \subseteq Nat, \A i \in W : rows[i].at \in Nat,
           W = Window(rows), First(rows, W, e)
    PROVE  Earliest(rows) = e
<1>1. \A i \in W : First(rows, W, i) => i = e
  BY DEF First
<1>2. (CHOOSE i \in W :
          \A j \in W : rows[i].at < rows[j].at \/ (rows[i].at = rows[j].at /\ i <= j)) = e
  BY <1>1 DEF First
<1> QED
  BY <1>2 DEF Earliest

(* Less is left at the last observation, everything else is as it was.     *)
Lowered(rows, less) == [rows EXCEPT ![Latest(rows)].remaining = less]

LEMMA LessIsPressed ==
    ASSUME NEW rows \in Seq(Observations), rows # <<>>, NEW t, InOrder(rows, t),
           NEW less \in Nat, less <= rows[Latest(rows)].remaining,
           NEW other, other = Lowered(rows, less)
    PROVE  /\ Latest(other) = Latest(rows)
           /\ other[Latest(rows)].remaining = less
           /\ other[Latest(rows)].reset = rows[Latest(rows)].reset
           /\ rows[Latest(rows)] \in Observations
           /\ Elapsed(rows) \in Nat /\ Elapsed(other) = Elapsed(rows)
           /\ Burned(rows) \in Nat /\ Burned(other) \in Nat /\ Burned(rows) <= Burned(other)
<1>1. PICK n \in Nat : n = Len(rows) /\ n > 0 /\ DOMAIN rows = 1..n
  BY EmptySeq, LenProperties
<1>2. Latest(rows) = n
  BY <1>1, LatestIsLast
<1>3. \A i \in 1..n : rows[i] \in Observations
  BY <1>1, ElementOfSeq
<1>4. \A i \in 1..n : rows[i].at \in Nat /\ rows[i].reset \in Nat /\ rows[i].remaining \in Nat
  BY <1>3 DEF Observations
<1>5. PICK last \in Observations : last = rows[n]
  BY <1>1, <1>3
<1>6. PICK row : /\ row = [last EXCEPT !.remaining = less]
                 /\ row \in Observations /\ row.at = rows[n].at /\ row.reset = rows[n].reset
                 /\ row.remaining = less
  <2>1. PICK row : row = [last EXCEPT !.remaining = less]
    OBVIOUS
  <2>2. /\ row \in Observations /\ row.at = last.at /\ row.reset = last.reset
        /\ row.remaining = less
    BY <2>1 DEF Observations
  <2> QED
    BY <1>5, <2>1, <2>2
<1>7. other = [rows EXCEPT ![n] = row]
  BY <1>2, <1>5, <1>6 DEF Lowered
<1>8. /\ other \in Seq(Observations) /\ Len(other) = n
      /\ \A i \in 1..n : other[i] = IF i = n THEN row ELSE rows[i]
  <2>1. n \in 1..Len(rows) /\ Len(rows) = n
    BY <1>1
  <2>2. PICK k \in 1..Len(rows) : k = n
    BY <2>1
  <2>3. /\ [rows EXCEPT ![k] = row] \in Seq(Observations)
        /\ Len([rows EXCEPT ![k] = row]) = Len(rows)
        /\ \A j \in 1..Len(rows) :
             [rows EXCEPT ![k] = row][j] = IF j = k THEN row ELSE rows[j]
    BY <1>6, ExceptSeq
  <2> QED
    BY <1>7, <2>1, <2>2, <2>3
<1>9. DOMAIN other = 1..n /\ other # <<>>
  BY <1>1, <1>8, LenProperties, EmptySeq
<1>10. /\ \A i \in 1..n : other[i].at = rows[i].at /\ other[i].reset = rows[i].reset
       /\ \A i \in 1..n : i # n => other[i] = rows[i]
       /\ other[n] = row
  <2>1. other[n] = row /\ \A i \in 1..n : i # n => other[i] = rows[i]
    BY <1>1, <1>8
  <2>2. \A i \in 1..n : i = n => other[i].at = rows[i].at /\ other[i].reset = rows[i].reset
    BY <2>1, <1>6
  <2> QED
    BY <2>1, <2>2
<1>11. InOrder(other, t)
  BY <1>1, <1>9, <1>10 DEF InOrder
<1>12. Latest(other) = n
  BY <1>8, <1>9, <1>11, LatestIsLast
<1>13. PICK W : W = Window(rows)
  OBVIOUS
<1>14. Window(other) = W
  BY <1>1, <1>2, <1>9, <1>10, <1>12, <1>13 DEF Window
<1>15. W \subseteq 1..n /\ n \in W
  BY <1>1, <1>2, <1>4, <1>13 DEF Window, Gap, ToleranceHours, LookbackHours
<1>16. PICK e \in W : \A j \in W : e <= j
  <2>1. W \subseteq Nat /\ W # {}
    BY <1>15
  <2> QED
    BY <2>1, LeastNatural
<1>17. First(rows, W, e) /\ First(other, W, e)
  <2>1. ASSUME NEW j \in W
        PROVE  /\ rows[e].at < rows[j].at \/ (rows[e].at = rows[j].at /\ e <= j)
               /\ other[e].at < other[j].at \/ (other[e].at = other[j].at /\ e <= j)
    <3>1. e \in 1..n /\ j \in 1..n /\ e <= j
      BY <1>15, <1>16
    <3>2. rows[e].at <= rows[j].at
      BY <3>1, <1>1 DEF InOrder
    <3> QED
      BY <3>1, <3>2, <1>4, <1>10
  <2> QED
    BY <2>1 DEF First
<1>18. Earliest(rows) = e /\ Earliest(other) = e
  <2>1. W \subseteq Nat /\ \A i \in W : rows[i].at \in Nat /\ other[i].at \in Nat
    BY <1>4, <1>10, <1>15
  <2>2. Earliest(rows) = e
    BY <2>1, <1>13, <1>17, EarliestIsFirst
  <2>3. Earliest(other) = e
    BY <2>1, <1>14, <1>17, EarliestIsFirst
  <2> QED
    BY <2>2, <2>3
<1>19. e \in 1..n /\ rows[e].at <= rows[n].at
  BY <1>1, <1>15 DEF InOrder
<1>20. Elapsed(rows) \in Nat /\ Elapsed(other) = Elapsed(rows)
  BY <1>1, <1>2, <1>4, <1>10, <1>12, <1>18, <1>19 DEF Elapsed
<1>21. /\ Burned(rows) = IF rows[e].remaining - rows[n].remaining > 0
                         THEN rows[e].remaining - rows[n].remaining ELSE 0
       /\ Burned(other) = IF other[e].remaining - less > 0
                          THEN other[e].remaining - less ELSE 0
  <2>1. Burned(rows) = IF rows[e].remaining - rows[n].remaining > 0
                       THEN rows[e].remaining - rows[n].remaining ELSE 0
    BY <1>2, <1>18 DEF Burned
  <2>2. Burned(other) = IF other[e].remaining - other[n].remaining > 0
                        THEN other[e].remaining - other[n].remaining ELSE 0
    BY <1>12, <1>18 DEF Burned
  <2>3. other[n].remaining = less
    BY <1>6, <1>10
  <2> QED
    BY <2>1, <2>2, <2>3
<1>22. Burned(rows) \in Nat /\ Burned(other) \in Nat /\ Burned(rows) <= Burned(other)
  <2>1. /\ rows[e].remaining \in Nat /\ rows[n].remaining \in Nat
        /\ less <= rows[n].remaining
    BY <1>1, <1>2, <1>4, <1>19
  <2>2. PICK a \in Nat, b \in Nat : a = rows[e].remaining /\ b = rows[n].remaining
    BY <2>1
  <2>3. less <= b /\ Burned(rows) = IF a - b > 0 THEN a - b ELSE 0
    BY <1>21, <2>1, <2>2
  <2>4. CASE e = n
    <3>1. a = b /\ other[e].remaining = less
      BY <2>2, <2>4, <1>6, <1>10
    <3>2. Burned(other) = IF less - less > 0 THEN less - less ELSE 0
      BY <1>21, <3>1
    <3> QED
      BY <2>3, <3>1, <3>2
  <2>5. CASE e # n
    <3>1. other[e].remaining = a
      BY <2>2, <2>5, <1>10, <1>19
    <3>2. Burned(other) = IF a - less > 0 THEN a - less ELSE 0
      BY <1>21, <3>1
    <3> QED
      BY <2>3, <3>2
  <2> QED
    BY <2>4, <2>5
<1> QED
  BY <1>1, <1>2, <1>3, <1>6, <1>10, <1>12, <1>20, <1>22

-----------------------------------------------------------------------------
(***************************************************************************)
(* The threads of the runs.                                                *)
(***************************************************************************)
Distinct(s) == \A i, j \in DOMAIN s : s[i] = s[j] => i = j

ThreadRecords ==
    [step : {"off", "calling", "answered", "failed", "returned", "done"},
     todo : Seq(Lanes), calls : {0, 1},
     result : {"none", "exhausted", "broken", "failed", "unsent"} \cup Lanes,
     lost : BOOLEAN]

Runs ==
    [kind : {"none", "governor", "swarm"}, sensitivity : Sensitivities \cup {"none"},
     state : {"idle", "refused", "running", "aborting", "failed", "ended", "killed"}]

(* A thread of the governor that may use these lanes, its rows in the      *)
(* ledger of Luna, and the lanes the governor's ledger says answered it    *)
(* and failed it.                                                          *)
Governed(t, lanes, rows, passed, failed) ==
    /\ Distinct(t.todo) /\ ToSet(t.todo) \subseteq lanes
    /\ t.step # "returned"
    /\ t.lost => t.calls = 1
    /\ t.lost \/ t.calls = 0 => rows = {}
    /\ ~ t.lost /\ t.calls = 1 => \E row : rows = {row}
    /\ t.step # "done" => t.result = "none" /\ passed = {}
    /\ t.step = "off" => t.calls = 0
    /\ t.step \in {"calling", "answered", "failed"} =>
        /\ t.todo # <<>>
        /\ failed = lanes \ ToSet(t.todo)
        /\ Luna \in ToSet(t.todo) /\ (t.step = "calling" \/ Head(t.todo) # Luna) =>
                t.calls = 0
    /\ t.step = "done" =>
        /\ passed = {t.result} \cap Lanes
        /\ t.result = "exhausted" => failed = lanes

(* A thread of the swarm and its rows.                                     *)
Swarmed(t, rows) ==
    /\ t.step \in {"off", "calling", "returned", "done"}
    /\ t.step = "off" => t.calls = 0
    /\ t.step = "calling" => t.calls = 0 /\ t.todo = <<Luna>>
    /\ t.result # "exhausted"
    /\ t.step = "done" => \E row : rows = {row}
    /\ t.step # "done" => rows = {}

(* A thread, given what its process runs.                                  *)
Kept(kind, t, lanes, rows, passed, failed) ==
    /\ kind = "none" => t = NoThread /\ rows = {} /\ passed = {} /\ failed = {}
    /\ kind = "governor" => Governed(t, lanes, rows, passed, failed)
    /\ kind = "swarm" => Swarmed(t, rows)

RoleInv(p, role) ==
    Kept(run[p].kind, thread[p][role], Available(run[p].sensitivity),
         CallsOf(p, role), LanesWith(p, role, "PASS"), LanesWith(p, role, "ERROR"))

RunInv(p) ==
    /\ run[p].kind = "none" <=> run[p].state = "idle"
    /\ run[p].kind # "none" => run[p].sensitivity \in Sensitivities
    /\ run[p].state = "ended" => \A role \in Roles : thread[p][role].step \in {"off", "done"}

GovernorInv ==
    /\ setup \in Scenarios
    /\ run \in [Procs -> Runs]
    /\ thread \in [Procs -> [Roles -> ThreadRecords]]
    /\ \A p \in Procs : RunInv(p)
    /\ \A p \in Procs, role \in Roles : RoleInv(p, role)

-----------------------------------------------------------------------------
(* Taking the first element from a sequence without repetitions.           *)
LEMMA TailDistinct ==
    ASSUME NEW S, NEW s \in Seq(S), s # <<>>, Distinct(s)
    PROVE  /\ Head(s) \in ToSet(s) /\ Tail(s) \in Seq(S) /\ Distinct(Tail(s))
           /\ ToSet(Tail(s)) = ToSet(s) \ {Head(s)}
<1> DEFINE n == Len(s)
           t == Tail(s)
<1>1. /\ n \in Nat /\ n > 0 /\ DOMAIN s = 1..n /\ Head(s) = s[1]
  BY EmptySeq, LenProperties
<1>2. /\ t \in Seq(S) /\ Len(t) = n - 1 /\ DOMAIN t = 1..(n - 1)
      /\ \A i \in 1..(n - 1) : t[i] = s[i + 1]
  BY <1>1, HeadTailProperties, LenProperties
<1> HIDE DEF n, t
<1>3. \A i \in 1..(n - 1) : i + 1 \in 1..n /\ i + 1 # 1 /\ i \in Int
  BY <1>1
<1>4. Distinct(t) /\ ToSet(t) \subseteq ToSet(s) \ {Head(s)}
  <2>1. ASSUME NEW i \in 1..(n - 1), NEW j \in 1..(n - 1), t[i] = t[j]
        PROVE  i = j
    <3>1. s[i + 1] = s[j + 1] /\ i + 1 \in DOMAIN s /\ j + 1 \in DOMAIN s
      BY <1>1, <1>2, <1>3, <2>1
    <3>2. i + 1 = j + 1
      BY <3>1 DEF Distinct
    <3> QED
      BY <3>2, <1>3
  <2>2. ASSUME NEW i \in 1..(n - 1)
        PROVE  t[i] \in ToSet(s) \ {Head(s)}
    <3>1. t[i] = s[i + 1] /\ i + 1 \in DOMAIN s /\ 1 \in DOMAIN s /\ i + 1 # 1
      BY <1>1, <1>2, <1>3
    <3>2. s[i + 1] # s[1]
      BY <3>1 DEF Distinct
    <3> QED
      BY <3>1, <3>2, <1>1 DEF ToSet
  <2> QED
    BY <2>1, <2>2, <1>2 DEF Distinct, ToSet
<1>5. ASSUME NEW x \in ToSet(s), x # Head(s)
      PROVE  x \in ToSet(t)
  <2>1. PICK i \in 1..n : x = s[i]
    BY <1>1 DEF ToSet
  <2>2. i # 1
    BY <1>1, <1>5, <2>1
  <2>3. i - 1 \in 1..(n - 1) /\ (i - 1) + 1 = i
    BY <1>1, <2>2
  <2>4. t[i - 1] = s[i]
    BY <1>2, <2>3
  <2> QED
    BY <1>2, <2>1, <2>3, <2>4 DEF ToSet
<1> QED
  BY <1>1, <1>2, <1>3, <1>4, <1>5 DEF ToSet, t

(* Adding a lane, if it is enabled, to a sequence that has it not.         *)
LEMMA JoinLane ==
    ASSUME NEW A, NEW s \in Seq(Lanes), Distinct(s), NEW x \in Lanes, x \notin ToSet(s),
           NEW e, e = IF x \in A THEN <<x>> ELSE <<>>
    PROVE  /\ s \o e \in Seq(Lanes) /\ Distinct(s \o e)
           /\ ToSet(s \o e) = ToSet(s) \cup ({x} \cap A)
<1>1. CASE x \in A
  <2> DEFINE n == Len(s)
             t == s \o e
  <2>1. e = <<x>> /\ e \in Seq(Lanes) /\ Len(e) = 1 /\ e[1] = x
    BY <1>1
  <2>2. n \in Nat /\ DOMAIN s = 1..n
    BY LenProperties
  <2>3. /\ t \in Seq(Lanes) /\ Len(t) = n + 1
        /\ \A i \in 1..(n + 1) : t[i] = IF i <= n THEN s[i] ELSE e[i - n]
    BY <2>1, ConcatProperties
  <2>4. DOMAIN t = 1..(n + 1)
    BY <2>3, LenProperties
  <2>5. t[n + 1] = x /\ \A i \in 1..n : t[i] = s[i]
    BY <2>1, <2>2, <2>3
  <2> HIDE DEF n, t
  <2>6. \A i \in 1..n : s[i] # x
    BY <2>2 DEF ToSet
  <2>7. Distinct(t)
    <3> SUFFICES ASSUME NEW i \in 1..(n + 1), NEW j \in 1..(n + 1), t[i] = t[j]
                 PROVE  i = j
      BY <2>4 DEF Distinct
    <3>1. CASE i = n + 1 \/ j = n + 1
      BY <3>1, <2>2, <2>5, <2>6
    <3>2. CASE i \in 1..n /\ j \in 1..n
      BY <3>2, <2>2, <2>5 DEF Distinct
    <3> QED
      BY <3>1, <3>2, <2>2
  <2>8. ToSet(t) = ToSet(s) \cup {x}
    <3>1. ToSet(t) \subseteq ToSet(s) \cup {x}
      BY <2>2, <2>4, <2>5 DEF ToSet
    <3>2. x \in ToSet(t)
      BY <2>2, <2>4, <2>5 DEF ToSet
    <3>3. ToSet(s) \subseteq ToSet(t)
      BY <2>2, <2>4, <2>5 DEF ToSet
    <3> QED
      BY <3>1, <3>2, <3>3
  <2> QED
    BY <2>3, <2>7, <2>8, <1>1 DEF t
<1>2. CASE x \notin A
  BY <1>2, ConcatEmptySeq
<1> QED
  BY <1>1, <1>2

LEMMA AvailableLanes ==
    ASSUME setup \in Scenarios, NEW sensitivity
    PROVE  /\ Available(sensitivity) \subseteq Lanes
           /\ sensitivity \in Sensitivities =>
                \A lane \in Available(sensitivity) : Permitted(lane, sensitivity)
<1>1. setup.lanes \subseteq Lanes
  BY GovernorAssumption
<1> QED
  BY <1>1 DEF Available, Permitted, Sensitivities, Lanes, Luna

(* Every order of the lanes names each of them once.                       *)
LEMMA LaneOrderIsComplete ==
    ASSUME NEW role, NEW mode
    PROVE  LET order == LaneOrder(role, mode)
           IN /\ Lanes = {order[1], order[2], order[3], order[4], order[5]}
              /\ \A i, j \in 1..5 : order[i] = order[j] => i = j
<1>1. PICK order : order = LaneOrder(role, mode)
  OBVIOUS
<1>2. \/ order = <<"openrouter-hy3-free", "nvidia-fleet", "empero-free", Luna, "local">>
      \/ order = <<"nvidia-fleet", "openrouter-hy3-free", "empero-free", Luna, "local">>
      \/ order = <<"openrouter-hy3-free", "nvidia-fleet", "empero-free", "local", Luna>>
      \/ order = <<"nvidia-fleet", "openrouter-hy3-free", "local", "empero-free", Luna>>
      \/ order = <<"nvidia-fleet", Luna, "openrouter-hy3-free", "local", "empero-free">>
  BY <1>1 DEF LaneOrder
<1>3. Lanes = {order[1], order[2], order[3], order[4], order[5]}
  BY <1>2 DEF Lanes, Luna
<1>4. \A i, j \in 1..5 : order[i] = order[j] => i = j
  <2>1. /\ order[1] # order[2] /\ order[1] # order[3] /\ order[1] # order[4]
        /\ order[1] # order[5] /\ order[2] # order[3] /\ order[2] # order[4]
        /\ order[2] # order[5] /\ order[3] # order[4] /\ order[3] # order[5]
        /\ order[4] # order[5]
    BY <1>2 DEF Luna
  <2> QED
    BY <2>1
<1> QED
  BY <1>1, <1>3, <1>4

(* A role is offered the lanes that are available, each of them once.      *)
LEMMA LanesForIsAvailable ==
    ASSUME setup \in Scenarios, NEW role, NEW mode, NEW sensitivity
    PROVE  /\ LanesFor(role, mode, sensitivity) \in Seq(Lanes)
           /\ Distinct(LanesFor(role, mode, sensitivity))
           /\ ToSet(LanesFor(role, mode, sensitivity)) = Available(sensitivity)
<1>1. PICK A : A = Available(sensitivity)
  OBVIOUS
<1>2. PICK order : order = LaneOrder(role, mode)
  OBVIOUS
<1>3. A \subseteq Lanes
  BY <1>1, AvailableLanes
<1>4. /\ Lanes = {order[1], order[2], order[3], order[4], order[5]}
      /\ \A i, j \in 1..5 : order[i] = order[j] => i = j
  BY <1>2, LaneOrderIsComplete
<1>5. PICK e1 : e1 = IF order[1] \in A THEN <<order[1]>> ELSE <<>>
  OBVIOUS
<1>6. PICK e2 : e2 = IF order[2] \in A THEN <<order[2]>> ELSE <<>>
  OBVIOUS
<1>7. PICK e3 : e3 = IF order[3] \in A THEN <<order[3]>> ELSE <<>>
  OBVIOUS
<1>8. PICK e4 : e4 = IF order[4] \in A THEN <<order[4]>> ELSE <<>>
  OBVIOUS
<1>9. PICK e5 : e5 = IF order[5] \in A THEN <<order[5]>> ELSE <<>>
  OBVIOUS
<1>10. LanesFor(role, mode, sensitivity) = (((e1 \o e2) \o e3) \o e4) \o e5
  BY <1>1, <1>2, <1>5, <1>6, <1>7, <1>8, <1>9 DEF LanesFor
<1>11. PICK x1, x2, x3, x4, x5 \in Lanes :
        /\ x1 = order[1] /\ x2 = order[2] /\ x3 = order[3] /\ x4 = order[4] /\ x5 = order[5]
  BY <1>4
<1>12. /\ Lanes = {x1, x2, x3, x4, x5}
       /\ x2 # x1 /\ x3 \notin {x1, x2} /\ x4 \notin {x1, x2, x3}
       /\ x5 \notin {x1, x2, x3, x4}
  BY <1>4, <1>11
<1>13. e1 \in Seq(Lanes) /\ Distinct(e1) /\ ToSet(e1) = {x1} \cap A
  <2>1. CASE x1 \in A
    <3>1. e1 = <<x1>> /\ DOMAIN e1 = 1..1 /\ e1[1] = x1
      BY <2>1, <1>5, <1>11
    <3> QED
      BY <3>1, <2>1 DEF Distinct, ToSet
  <2>2. CASE x1 \notin A
    <3>1. e1 = <<>> /\ DOMAIN e1 = {}
      BY <2>2, <1>5, <1>11
    <3> QED
      BY <3>1, <2>2, EmptySeq DEF Distinct, ToSet
  <2> QED
    BY <2>1, <2>2
<1>14. PICK s2 : s2 = e1 \o e2
  OBVIOUS
<1>15. s2 \in Seq(Lanes) /\ Distinct(s2) /\ ToSet(s2) = ToSet(e1) \cup ({x2} \cap A)
  <2>1. e2 = IF x2 \in A THEN <<x2>> ELSE <<>>
    BY <1>6, <1>11
  <2>2. x2 \notin ToSet(e1)
    BY <1>12, <1>13
  <2> QED
    BY <2>1, <2>2, <1>13, <1>14, JoinLane
<1>16. PICK s3 : s3 = s2 \o e3
  OBVIOUS
<1>17. s3 \in Seq(Lanes) /\ Distinct(s3) /\ ToSet(s3) = ToSet(s2) \cup ({x3} \cap A)
  <2>1. e3 = IF x3 \in A THEN <<x3>> ELSE <<>>
    BY <1>7, <1>11
  <2>2. x3 \notin ToSet(s2)
    BY <1>12, <1>13, <1>15
  <2> QED
    BY <2>1, <2>2, <1>15, <1>16, JoinLane
<1>18. PICK s4 : s4 = s3 \o e4
  OBVIOUS
<1>19. s4 \in Seq(Lanes) /\ Distinct(s4) /\ ToSet(s4) = ToSet(s3) \cup ({x4} \cap A)
  <2>1. e4 = IF x4 \in A THEN <<x4>> ELSE <<>>
    BY <1>8, <1>11
  <2>2. x4 \notin ToSet(s3)
    BY <1>12, <1>13, <1>15, <1>17
  <2> QED
    BY <2>1, <2>2, <1>17, <1>18, JoinLane
<1>20. PICK s5 : s5 = s4 \o e5
  OBVIOUS
<1>21. s5 \in Seq(Lanes) /\ Distinct(s5) /\ ToSet(s5) = ToSet(s4) \cup ({x5} \cap A)
  <2>1. e5 = IF x5 \in A THEN <<x5>> ELSE <<>>
    BY <1>9, <1>11
  <2>2. x5 \notin ToSet(s4)
    BY <1>12, <1>13, <1>15, <1>17, <1>19
  <2> QED
    BY <2>1, <2>2, <1>19, <1>20, JoinLane
<1>22. ToSet(s5) = A
  BY <1>3, <1>12, <1>13, <1>15, <1>17, <1>19, <1>21
<1>23. LanesFor(role, mode, sensitivity) = s5
  BY <1>10, <1>14, <1>16, <1>18, <1>20
<1> QED
  BY <1>1, <1>21, <1>22, <1>23

-----------------------------------------------------------------------------
(* What a row adds to the ledgers.                                         *)
LEMMA CountAdds ==
    ASSUME NEW p, NEW role, NEW credits, usage' = usage \cup {UsageRow(p, role, credits)}
    PROVE  /\ CallsOf(p, role)' = CallsOf(p, role) \cup {UsageRow(p, role, credits)}
           /\ \A q, r : q # p \/ r # role => CallsOf(q, r)' = CallsOf(q, r)
  BY DEF CallsOf, UsageRow

LEMMA LogAdds ==
    ASSUME NEW p, NEW role, NEW outcome, Lane(p, role) \in Lanes,
           ledger' = ledger \cup {LedgerRow(p, role, outcome)}
    PROVE  /\ LanesWith(p, role, outcome)' = LanesWith(p, role, outcome) \cup {Lane(p, role)}
           /\ \A q, r, o : q # p \/ r # role \/ o # outcome =>
                LanesWith(q, r, o)' = LanesWith(q, r, o)
<1>1. PICK lane \in Lanes : lane = Lane(p, role)
  OBVIOUS
<1>2. ledger' = ledger \cup {[run |-> p, role |-> role, lane |-> lane, status |-> outcome]}
  BY <1>1 DEF LedgerRow
<1>3. \A q, r, o, l : [run |-> q, role |-> r, lane |-> l, status |-> o] \in ledger' <=>
        \/ [run |-> q, role |-> r, lane |-> l, status |-> o] \in ledger
        \/ q = p /\ r = role /\ l = lane /\ o = outcome
  BY <1>2
<1> QED
  BY <1>1, <1>3 DEF LanesWith

(* The ledgers stay as they are.                                           *)
LEMMA LedgersStay ==
    /\ UNCHANGED usage => \A q, r : CallsOf(q, r)' = CallsOf(q, r)
    /\ UNCHANGED ledger => \A q, r, o : LanesWith(q, r, o)' = LanesWith(q, r, o)
<1>1. UNCHANGED usage => \A q, r : CallsOf(q, r)' = CallsOf(q, r)
  BY DEF CallsOf
<1>2. UNCHANGED ledger => \A q, r, o : LanesWith(q, r, o)' = LanesWith(q, r, o)
  BY DEF LanesWith
<1> QED
  BY <1>1, <1>2

LEMMA SetupStays ==
    ASSUME UNCHANGED setup
    PROVE  \A sensitivity : Available(sensitivity)' = Available(sensitivity)
  BY DEF Available

(* A step of one thread that keeps what is said of it keeps the invariant. *)
LEMMA ThreadStep ==
    ASSUME GovernorInv, UNCHANGED <<setup, run>>,
           NEW p \in Procs, NEW role \in Roles, run[p].state # "ended",
           NEW t \in ThreadRecords, Moves(p, role, t),
           \A q, r : q # p \/ r # role =>
             /\ CallsOf(q, r)' = CallsOf(q, r)
             /\ \A o : LanesWith(q, r, o)' = LanesWith(q, r, o),
           Kept(run[p].kind, t, Available(run[p].sensitivity), CallsOf(p, role)',
                LanesWith(p, role, "PASS")', LanesWith(p, role, "ERROR")')
    PROVE  GovernorInv'
<1>1. /\ thread' \in [Procs -> [Roles -> ThreadRecords]]
      /\ thread'[p][role] = t
      /\ \A q \in Procs, r \in Roles : q # p \/ r # role => thread'[q][r] = thread[q][r]
  BY DEF GovernorInv, Moves
<1>2. \A sensitivity : Available(sensitivity)' = Available(sensitivity)
  BY SetupStays
<1>3. ASSUME NEW q \in Procs
      PROVE  RunInv(q)'
  <2>1. RunInv(q) /\ run' = run
    BY DEF GovernorInv
  <2>2. q # p => \A r \in Roles : thread'[q][r] = thread[q][r]
    BY <1>1
  <2> QED
    BY <2>1, <2>2 DEF RunInv
<1>4. ASSUME NEW q \in Procs, NEW r \in Roles
      PROVE  RoleInv(q, r)'
  <2>1. CASE q = p /\ r = role
    BY <2>1, <1>1, <1>2 DEF RoleInv
  <2>2. CASE q # p \/ r # role
    <3>1. RoleInv(q, r)
      BY DEF GovernorInv
    <3>2. /\ thread'[q][r] = thread[q][r] /\ run' = run
          /\ CallsOf(q, r)' = CallsOf(q, r)
          /\ LanesWith(q, r, "PASS")' = LanesWith(q, r, "PASS")
          /\ LanesWith(q, r, "ERROR")' = LanesWith(q, r, "ERROR")
      BY <2>2, <1>1
    <3> QED
      BY <3>1, <3>2, <1>2 DEF RoleInv
  <2> QED
    BY <2>1, <2>2
<1> QED
  BY <1>1, <1>3, <1>4 DEF GovernorInv

(* A step of a run that leaves its threads alone.                          *)
LEMMA StateStep ==
    ASSUME GovernorInv, UNCHANGED <<setup, thread, usage, ledger>>,
           NEW p \in Procs, run[p].state # "idle",
           NEW s \in {"aborting", "failed", "ended", "killed"},
           run' = [run EXCEPT ![p].state = s],
           s = "ended" => \A role \in Roles : thread[p][role].step \in {"off", "done"}
    PROVE  GovernorInv'
<1>1. /\ run' \in [Procs -> Runs]
      /\ \A q \in Procs : /\ run'[q].kind = run[q].kind
                          /\ run'[q].sensitivity = run[q].sensitivity
                          /\ run'[q].state = IF q = p THEN s ELSE run[q].state
  <2>1. run[p] \in Runs
    BY DEF GovernorInv
  <2>2. PICK r : r = [run[p] EXCEPT !.state = s]
    OBVIOUS
  <2>3. r \in Runs /\ r.kind = run[p].kind /\ r.sensitivity = run[p].sensitivity /\ r.state = s
    BY <2>1, <2>2 DEF Runs
  <2>4. run' = [run EXCEPT ![p] = r]
    BY <2>2
  <2> QED
    BY <2>3, <2>4 DEF GovernorInv
<1>2. /\ \A sensitivity : Available(sensitivity)' = Available(sensitivity)
      /\ \A q, r : CallsOf(q, r)' = CallsOf(q, r)
      /\ \A q, r, o : LanesWith(q, r, o)' = LanesWith(q, r, o)
  BY SetupStays, LedgersStay
<1>3. \A q \in Procs : RunInv(q)'
  BY <1>1 DEF GovernorInv, RunInv
<1>4. \A q \in Procs, r \in Roles : RoleInv(q, r)'
  BY <1>1, <1>2 DEF GovernorInv, RoleInv
<1> QED
  BY <1>1, <1>3, <1>4 DEF GovernorInv

(* What a plan starts from and makes of it.                                *)
LEMMA Started ==
    ASSUME GovernorInv, UNCHANGED setup, NEW p \in Procs, run[p].state = "idle",
           NEW kind \in {"governor", "swarm"}, NEW sensitivity \in Sensitivities,
           NEW planned, StartRun(p, kind, sensitivity, planned),
           \A role \in DOMAIN planned :
             /\ planned[role] \in Seq(Lanes)
             /\ kind = "governor" => /\ Distinct(planned[role])
                                     /\ ToSet(planned[role]) = Available(sensitivity)
             /\ kind = "swarm" => planned[role] = <<Luna>>
    PROVE  GovernorInv'
<1>1. PICK state \in {"refused", "running"} :
        /\ run' = [run EXCEPT ![p] = [kind |-> kind, sensitivity |-> sensitivity,
                                      state |-> state]]
        /\ state = "running" => \A role \in DOMAIN planned : planned[role] # <<>>
  BY DEF StartRun
<1>2. /\ run' \in [Procs -> Runs]
      /\ run'[p].kind = kind /\ run'[p].sensitivity = sensitivity /\ run'[p].state = state
      /\ \A q \in Procs : q # p => run'[q] = run[q]
  BY <1>1 DEF GovernorInv, Runs
<1>3. PICK f : f = [role \in Roles |->
              IF run'[p].state = "running" /\ role \in DOMAIN planned
              THEN [NoThread EXCEPT !.step = "calling", !.todo = planned[role]]
              ELSE NoThread]
  OBVIOUS
<1>4. thread' = [thread EXCEPT ![p] = f] /\ UNCHANGED <<usage, ledger>>
  BY <1>3 DEF StartRun
<1>5. NoThread \in ThreadRecords
  BY EmptySeq DEF NoThread, ThreadRecords
<1>6. \A role \in Roles :
        \/ f[role] = NoThread
        \/ /\ state = "running" /\ role \in DOMAIN planned
           /\ f[role] = [NoThread EXCEPT !.step = "calling", !.todo = planned[role]]
  BY <1>2, <1>3
<1>7. \A role \in Roles :
        \/ f[role] = NoThread
        \/ /\ planned[role] # <<>> /\ role \in DOMAIN planned
           /\ f[role] = [step |-> "calling", todo |-> planned[role], calls |-> 0,
                         result |-> "none", lost |-> FALSE]
  BY <1>1, <1>6 DEF NoThread
<1>8. ASSUME NEW role \in Roles
      PROVE  f[role] \in ThreadRecords
  <2>1. CASE f[role] = NoThread
    BY <2>1, <1>5
  <2>2. CASE f[role] # NoThread
    <3>1. PICK todo : todo = planned[role]
      OBVIOUS
    <3>2. role \in DOMAIN planned
      BY <2>2, <1>7, Zenon
    <3>3. todo \in Seq(Lanes)
      BY <3>1, <3>2
    <3>4. f[role] = [step |-> "calling", todo |-> todo, calls |-> 0,
                     result |-> "none", lost |-> FALSE]
      BY <2>2, <3>1, <1>7, Zenon
    <3> QED
      BY <3>3, <3>4 DEF ThreadRecords
  <2> QED
    BY <2>1, <2>2
<1>9. /\ thread' \in [Procs -> [Roles -> ThreadRecords]]
      /\ \A role \in Roles : thread'[p][role] = f[role]
      /\ \A q \in Procs : q # p => thread'[q] = thread[q]
  <2>1. f \in [Roles -> ThreadRecords]
    BY ONLY <1>3, <1>8
  <2> QED
    BY <2>1, <1>4 DEF GovernorInv
<1>10. /\ \A any : Available(any)' = Available(any)
       /\ \A q, r : CallsOf(q, r)' = CallsOf(q, r)
       /\ \A q, r, o : LanesWith(q, r, o)' = LanesWith(q, r, o)
  BY <1>4, SetupStays, LedgersStay
<1>11. ASSUME NEW q \in Procs
       PROVE  RunInv(q)'
  <2>1. CASE q = p
    BY <2>1, <1>2 DEF RunInv
  <2>2. CASE q # p
    BY <2>2, <1>2, <1>9 DEF RunInv, GovernorInv
  <2> QED
    BY <2>1, <2>2
<1>12. ASSUME NEW q \in Procs, NEW role \in Roles
       PROVE  RoleInv(q, role)'
  <2>1. CASE q # p
    <3>1. RoleInv(q, role)
      BY DEF GovernorInv
    <3>2. thread'[q][role] = thread[q][role] /\ run'[q] = run[q]
      BY <2>1, <1>2, <1>9
    <3> QED
      BY <3>1, <3>2, <1>10 DEF RoleInv
  <2>2. CASE q = p
    <3>1. /\ CallsOf(p, role) = {} /\ LanesWith(p, role, "PASS") = {}
          /\ LanesWith(p, role, "ERROR") = {}
      BY DEF GovernorInv, RunInv, RoleInv, Kept
    <3>2. Kept(kind, f[role], Available(sensitivity), {}, {}, {})
      <4>1. CASE f[role] = NoThread
        <5>1. /\ NoThread.step = "off" /\ NoThread.todo = <<>> /\ NoThread.calls = 0
              /\ NoThread.result = "none" /\ NoThread.lost = FALSE
          BY DEF NoThread
        <5>2. Distinct(<<>>) /\ ToSet(<<>>) = {}
          BY DEF Distinct, ToSet
        <5> QED
          BY <4>1, <5>1, <5>2 DEF Kept, Governed, Swarmed
      <4>2. CASE f[role] # NoThread
        <5>1. PICK u : u = f[role]
          OBVIOUS
        <5>2. PICK todo : todo = planned[role]
          OBVIOUS
        <5>3. role \in DOMAIN planned /\ todo # <<>>
          BY <4>2, <5>2, <1>7, Zenon
        <5>4. u = [step |-> "calling", todo |-> todo, calls |-> 0,
                   result |-> "none", lost |-> FALSE]
          BY <4>2, <5>1, <5>2, <1>7, Zenon
        <5>5. /\ u.step = "calling" /\ u.todo = planned[role] /\ u.calls = 0
              /\ u.result = "none" /\ u.lost = FALSE /\ planned[role] # <<>>
              /\ role \in DOMAIN planned
          BY <5>2, <5>3, <5>4
        <5>6. CASE kind = "governor"
          <6>1. Distinct(u.todo) /\ ToSet(u.todo) = Available(sensitivity)
            BY <5>5, <5>6
          <6>2. Governed(u, Available(sensitivity), {}, {}, {})
            BY <5>5, <6>1 DEF Governed
          <6> QED
            BY <5>1, <5>6, <6>2 DEF Kept
        <5>7. CASE kind = "swarm"
          BY <5>1, <5>5, <5>7 DEF Kept, Swarmed
        <5> QED
          BY <5>6, <5>7
      <4> QED
        BY <4>1, <4>2
    <3> QED
      BY <2>2, <3>1, <3>2, <1>2, <1>9, <1>10 DEF RoleInv
  <2> QED
    BY <2>1, <2>2
<1> QED
  BY <1>2, <1>9, <1>11, <1>12 DEF GovernorInv

-----------------------------------------------------------------------------
(* The thread that moves.                                                  *)
LEMMA ThreadAt ==
    ASSUME GovernorInv, NEW p \in Procs, NEW role \in Roles, NEW kind, NEW step,
           At(p, kind, role, step)
    PROVE  /\ thread[p][role] \in ThreadRecords /\ thread[p][role].step = step
           /\ run[p].kind = kind /\ run[p].state # "ended" /\ run[p].state # "idle"
           /\ Kept(kind, thread[p][role], Available(run[p].sensitivity), CallsOf(p, role),
                   LanesWith(p, role, "PASS"), LanesWith(p, role, "ERROR"))
  BY DEF GovernorInv, RoleInv, At

(* A thread after a call, in its parts.                                    *)
LEMMA CalledParts ==
    ASSUME NEW p, NEW role, NEW step, NEW t \in ThreadRecords, t = thread[p][role],
           step \in {"answered", "failed", "returned"},
           Lane(p, role) = Luna => t.calls = 0,
           NEW u, u = Called(p, role, step)
    PROVE  /\ u \in ThreadRecords /\ u.step = step /\ u.todo = t.todo
           /\ u.result = t.result /\ u.lost = t.lost
           /\ Lane(p, role) = Luna => u.calls = 1
           /\ Lane(p, role) # Luna => u.calls = t.calls
<1>1. PICK n : n = IF Lane(p, role) = Luna THEN t.calls + 1 ELSE t.calls
  OBVIOUS
<1>2. n \in {0, 1} /\ (Lane(p, role) = Luna => n = 1) /\ (Lane(p, role) # Luna => n = t.calls)
  BY <1>1 DEF ThreadRecords
<1>3. u = [t EXCEPT !.step = step, !.calls = n]
  BY <1>1 DEF Called
<1>4. u = [step |-> step, todo |-> t.todo, calls |-> n, result |-> t.result, lost |-> t.lost]
  BY <1>3 DEF ThreadRecords
<1> QED
  BY <1>2, <1>4 DEF ThreadRecords

LEMMA WentParts ==
    ASSUME NEW p, NEW role, NEW t \in ThreadRecords, t = thread[p][role],
           NEW step \in {"answered", "failed", "returned", "done", "calling"},
           NEW u, u = Went(p, role, step)
    PROVE  /\ u \in ThreadRecords /\ u.step = step /\ u.todo = t.todo
           /\ u.result = t.result /\ u.lost = t.lost /\ u.calls = t.calls
<1>1. u = [t EXCEPT !.step = step]
  BY DEF Went
<1> QED
  BY <1>1 DEF ThreadRecords

(* The lane a thread of the governor is at.                                *)
LEMMA LaneParts ==
    ASSUME NEW p, NEW role, NEW t \in ThreadRecords, t = thread[p][role], t.todo # <<>>,
           Distinct(t.todo)
    PROVE  /\ Lane(p, role) = Head(t.todo) /\ Lane(p, role) \in Lanes
           /\ Lane(p, role) \in ToSet(t.todo)
           /\ Tail(t.todo) \in Seq(Lanes) /\ Distinct(Tail(t.todo))
           /\ ToSet(Tail(t.todo)) = ToSet(t.todo) \ {Lane(p, role)}
<1>1. PICK s \in Seq(Lanes) : s = t.todo
  BY DEF ThreadRecords
<1>2. Lane(p, role) = Head(s)
  BY <1>1 DEF Lane
<1>3. /\ Head(s) \in ToSet(s) /\ Tail(s) \in Seq(Lanes) /\ Distinct(Tail(s))
      /\ ToSet(Tail(s)) = ToSet(s) \ {Head(s)}
  BY <1>1, TailDistinct
<1>4. Head(s) \in Lanes
  BY <1>1, HeadTailProperties
<1> QED
  BY <1>1, <1>2, <1>3, <1>4

(* A call of the governor, whatever becomes of it, whose row is written.   *)
LEMMA CallCounted ==
    ASSUME GovernorInv, UNCHANGED <<setup, run, ledger>>, NEW p \in Procs, NEW role \in Roles,
           At(p, "governor", role, "calling"), NEW step \in {"answered", "failed"},
           Moves(p, role, Called(p, role, step)),
           IF Lane(p, role) = Luna THEN CountCall(p, role) ELSE UNCHANGED usage
    PROVE  GovernorInv'
<1>1. PICK t \in ThreadRecords : t = thread[p][role]
  BY ThreadAt
<1>2. PICK lanes : lanes = Available(run[p].sensitivity)
  OBVIOUS
<1>3. /\ t.step = "calling" /\ run[p].kind = "governor" /\ run[p].state # "ended"
      /\ Governed(t, lanes, CallsOf(p, role),
                  LanesWith(p, role, "PASS"), LanesWith(p, role, "ERROR"))
  BY <1>1, <1>2, ThreadAt DEF Kept
<1>4. t.todo # <<>> /\ Distinct(t.todo) /\ (Luna \in ToSet(t.todo) => t.calls = 0)
  BY <1>3 DEF Governed
<1>5. Lane(p, role) = Head(t.todo) /\ Lane(p, role) \in ToSet(t.todo)
  BY <1>1, <1>4, LaneParts
<1>6. Lane(p, role) = Luna => t.calls = 0
  BY <1>4, <1>5
<1>7. PICK u : u = Called(p, role, step)
  OBVIOUS
<1>8. /\ u \in ThreadRecords /\ u.step = step /\ u.todo = t.todo
      /\ u.result = t.result /\ u.lost = t.lost
      /\ Lane(p, role) = Luna => u.calls = 1
      /\ Lane(p, role) # Luna => u.calls = t.calls
  BY <1>1, <1>6, <1>7, CalledParts
<1>9. \A q, r, o : LanesWith(q, r, o)' = LanesWith(q, r, o)
  BY LedgersStay
<1>10. CASE Lane(p, role) = Luna
  <2>1. PICK credits \in Credits : usage' = usage \cup {UsageRow(p, role, credits)}
    BY <1>10 DEF CountCall
  <2>2. /\ CallsOf(p, role)' = CallsOf(p, role) \cup {UsageRow(p, role, credits)}
        /\ \A q, r : q # p \/ r # role => CallsOf(q, r)' = CallsOf(q, r)
    BY <2>1, CountAdds
  <2>3. t.calls = 0 /\ ~ t.lost /\ CallsOf(p, role) = {}
    BY <1>3, <1>6, <1>10 DEF Governed
  <2>4. \E row : CallsOf(p, role)' = {row}
    BY <2>2, <2>3
  <2>5. Governed(u, lanes, CallsOf(p, role)',
                 LanesWith(p, role, "PASS")', LanesWith(p, role, "ERROR")')
    BY <1>3, <1>5, <1>8, <1>9, <1>10, <2>3, <2>4 DEF Governed
  <2> QED
    BY <1>2, <1>3, <1>7, <1>8, <1>9, <2>2, <2>5, ThreadStep DEF Kept
<1>11. CASE Lane(p, role) # Luna
  <2>1. \A q, r : CallsOf(q, r)' = CallsOf(q, r)
    BY <1>11, LedgersStay
  <2>2. Governed(u, lanes, CallsOf(p, role)',
                 LanesWith(p, role, "PASS")', LanesWith(p, role, "ERROR")')
    BY <1>3, <1>5, <1>8, <1>9, <1>11, <2>1 DEF Governed
  <2> QED
    BY <1>2, <1>3, <1>7, <1>8, <1>9, <2>1, <2>2, ThreadStep DEF Kept
<1> QED
  BY <1>10, <1>11

(* A thread of the governor moves on, and the Luna ledger stays as it is.  *)
LEMMA GovernorThreadMoves ==
    ASSUME GovernorInv, UNCHANGED <<setup, run, usage>>, NEW p \in Procs, NEW role \in Roles,
           run[p].kind = "governor", run[p].state # "ended",
           NEW u \in ThreadRecords, Moves(p, role, u),
           \A q, r, o : q # p \/ r # role => LanesWith(q, r, o)' = LanesWith(q, r, o),
           Governed(u, Available(run[p].sensitivity), CallsOf(p, role),
                    LanesWith(p, role, "PASS")', LanesWith(p, role, "ERROR")')
    PROVE  GovernorInv'
<1>1. \A q, r : CallsOf(q, r)' = CallsOf(q, r)
  BY LedgersStay
<1>2. Kept(run[p].kind, u, Available(run[p].sensitivity), CallsOf(p, role)',
           LanesWith(p, role, "PASS")', LanesWith(p, role, "ERROR")')
  BY <1>1 DEF Kept
<1> QED
  BY <1>1, <1>2, ThreadStep

LEMMA CallNotCounted ==
    ASSUME GovernorInv, UNCHANGED <<setup, run>>, NEW p \in Procs, NEW role \in Roles,
           Unsent(p, role) \/ UncountedCall(p, role)
    PROVE  GovernorInv'
<1>1. At(p, "governor", role, "calling") /\ UNCHANGED <<usage, ledger>>
  BY DEF Unsent, UncountedCall
<1>2. PICK t \in ThreadRecords : t = thread[p][role]
  BY <1>1, ThreadAt
<1>3. PICK lanes : lanes = Available(run[p].sensitivity)
  OBVIOUS
<1>4. /\ t.step = "calling" /\ run[p].kind = "governor" /\ run[p].state # "ended"
      /\ Governed(t, lanes, CallsOf(p, role),
                  LanesWith(p, role, "PASS"), LanesWith(p, role, "ERROR"))
  BY <1>1, <1>2, <1>3, ThreadAt DEF Kept
<1>5. t.todo # <<>> /\ Distinct(t.todo) /\ (Luna \in ToSet(t.todo) => t.calls = 0)
  BY <1>4 DEF Governed
<1>6. Lane(p, role) = Head(t.todo) /\ Lane(p, role) \in ToSet(t.todo)
  BY <1>2, <1>5, LaneParts
<1>7. \A q, r, o : LanesWith(q, r, o)' = LanesWith(q, r, o)
  BY <1>1, LedgersStay
<1>8. CASE Unsent(p, role)
  <2>1. PICK u : u = Went(p, role, "failed")
    OBVIOUS
  <2>2. /\ u \in ThreadRecords /\ u.step = "failed" /\ u.todo = t.todo
        /\ u.result = t.result /\ u.lost = t.lost /\ u.calls = t.calls
    BY <1>2, <2>1, WentParts
  <2>3. Governed(u, lanes, CallsOf(p, role),
                 LanesWith(p, role, "PASS")', LanesWith(p, role, "ERROR")')
    BY <1>4, <1>7, <2>2 DEF Governed
  <2>4. Moves(p, role, u)
    BY <1>8, <2>1 DEF Unsent
  <2> QED
    BY <1>1, <1>3, <1>4, <1>7, <2>2, <2>3, <2>4, GovernorThreadMoves
<1>9. CASE UncountedCall(p, role)
  <2>1. Lane(p, role) = Luna
    BY <1>9 DEF UncountedCall
  <2>2. t.calls = 0 /\ ~ t.lost /\ CallsOf(p, role) = {}
    BY <1>4, <1>5, <1>6, <2>1 DEF Governed
  <2>3. PICK c : c = Called(p, role, "failed")
    OBVIOUS
  <2>4. /\ c \in ThreadRecords /\ c.step = "failed" /\ c.todo = t.todo
        /\ c.result = t.result /\ c.calls = 1
    BY <1>2, <2>1, <2>2, <2>3, CalledParts
  <2>5. PICK u : u = [c EXCEPT !.lost = TRUE]
    OBVIOUS
  <2>6. /\ u \in ThreadRecords /\ u.step = "failed" /\ u.todo = t.todo
        /\ u.result = t.result /\ u.calls = 1 /\ u.lost
    BY <2>4, <2>5 DEF ThreadRecords
  <2>7. Governed(u, lanes, CallsOf(p, role),
                 LanesWith(p, role, "PASS")', LanesWith(p, role, "ERROR")')
    BY <1>4, <1>6, <1>7, <2>1, <2>2, <2>6 DEF Governed
  <2>8. Moves(p, role, u)
    BY <1>9, <2>3, <2>5 DEF UncountedCall
  <2> QED
    BY <1>1, <1>3, <1>4, <1>7, <2>6, <2>7, <2>8, GovernorThreadMoves
<1> QED
  BY <1>8, <1>9

(* An answer is logged and used, or neither.                               *)
LEMMA AnswerLogged ==
    ASSUME GovernorInv, UNCHANGED <<setup, run>>, NEW p \in Procs, NEW role \in Roles,
           LogPass(p, role) \/ LogPassFault(p, role)
    PROVE  GovernorInv'
<1>1. At(p, "governor", role, "answered") /\ UNCHANGED usage
  BY DEF LogPass, LogPassFault
<1>2. PICK t \in ThreadRecords : t = thread[p][role]
  BY <1>1, ThreadAt
<1>3. PICK lanes : lanes = Available(run[p].sensitivity)
  OBVIOUS
<1>4. /\ t.step = "answered" /\ run[p].kind = "governor" /\ run[p].state # "ended"
      /\ Governed(t, lanes, CallsOf(p, role),
                  LanesWith(p, role, "PASS"), LanesWith(p, role, "ERROR"))
  BY <1>1, <1>2, <1>3, ThreadAt DEF Kept
<1>5. t.todo # <<>> /\ Distinct(t.todo) /\ LanesWith(p, role, "PASS") = {}
  BY <1>4 DEF Governed
<1>6. PICK lane \in Lanes : lane = Lane(p, role)
  BY <1>2, <1>5, LaneParts
<1>7. CASE LogPass(p, role)
  <2>1. PICK w : w = Went(p, role, "done")
    OBVIOUS
  <2>2. /\ w \in ThreadRecords /\ w.step = "done" /\ w.todo = t.todo
        /\ w.lost = t.lost /\ w.calls = t.calls
    BY <1>2, <2>1, WentParts
  <2>3. PICK u : u = [w EXCEPT !.result = lane]
    OBVIOUS
  <2>4. /\ u \in ThreadRecords /\ u.step = "done" /\ u.todo = t.todo
        /\ u.result = lane /\ u.lost = t.lost /\ u.calls = t.calls
    BY <2>2, <2>3 DEF ThreadRecords
  <2>5. /\ LanesWith(p, role, "PASS")' = LanesWith(p, role, "PASS") \cup {lane}
        /\ \A q, r, o : q # p \/ r # role \/ o # "PASS" =>
              LanesWith(q, r, o)' = LanesWith(q, r, o)
    BY <1>6, <1>7, LogAdds DEF LogPass
  <2>6. lane # "exhausted" /\ LanesWith(p, role, "PASS")' = {lane} \cap Lanes
    BY <1>5, <2>5 DEF Lanes, Luna
  <2>7. Governed(u, lanes, CallsOf(p, role),
                 LanesWith(p, role, "PASS")', LanesWith(p, role, "ERROR")')
    BY <1>4, <2>4, <2>6 DEF Governed
  <2>8. Moves(p, role, u)
    BY <1>6, <1>7, <2>1, <2>3 DEF LogPass
  <2> QED
    BY <1>1, <1>3, <1>4, <2>4, <2>5, <2>7, <2>8, GovernorThreadMoves
<1>8. CASE LogPassFault(p, role)
  <2>1. PICK u : u = Went(p, role, "failed")
    OBVIOUS
  <2>2. /\ u \in ThreadRecords /\ u.step = "failed" /\ u.todo = t.todo
        /\ u.result = t.result /\ u.lost = t.lost /\ u.calls = t.calls
    BY <1>2, <2>1, WentParts
  <2>3. \A q, r, o : LanesWith(q, r, o)' = LanesWith(q, r, o)
    BY <1>8, LedgersStay DEF LogPassFault
  <2>4. Governed(u, lanes, CallsOf(p, role),
                 LanesWith(p, role, "PASS")', LanesWith(p, role, "ERROR")')
    BY <1>4, <2>2, <2>3 DEF Governed
  <2>5. Moves(p, role, u)
    BY <1>8, <2>1 DEF LogPassFault
  <2> QED
    BY <1>1, <1>3, <1>4, <2>2, <2>3, <2>4, <2>5, GovernorThreadMoves
<1> QED
  BY <1>7, <1>8

(* A failure is logged, and the next lane tried; or the thread ends.       *)
LEMMA FailureLogged ==
    ASSUME GovernorInv, UNCHANGED <<setup, run>>, NEW p \in Procs, NEW role \in Roles,
           LogError(p, role) \/ LogErrorFault(p, role)
    PROVE  GovernorInv'
<1>1. At(p, "governor", role, "failed") /\ UNCHANGED usage
  BY DEF LogError, LogErrorFault
<1>2. PICK t \in ThreadRecords : t = thread[p][role]
  BY <1>1, ThreadAt
<1>3. PICK lanes : lanes = Available(run[p].sensitivity)
  OBVIOUS
<1>4. /\ t.step = "failed" /\ run[p].kind = "governor" /\ run[p].state # "ended"
      /\ Governed(t, lanes, CallsOf(p, role),
                  LanesWith(p, role, "PASS"), LanesWith(p, role, "ERROR"))
  BY <1>1, <1>2, <1>3, ThreadAt DEF Kept
<1>5. /\ t.todo # <<>> /\ Distinct(t.todo) /\ LanesWith(p, role, "PASS") = {}
      /\ ToSet(t.todo) \subseteq lanes /\ t.result = "none"
      /\ LanesWith(p, role, "ERROR") = lanes \ ToSet(t.todo)
      /\ Luna \in ToSet(t.todo) /\ Head(t.todo) # Luna => t.calls = 0
  BY <1>4 DEF Governed
<1>6. PICK lane \in Lanes : lane = Lane(p, role)
  BY <1>2, <1>5, LaneParts
<1>7. PICK rest : rest = Tail(t.todo)
  OBVIOUS
<1>8. /\ lane = Head(t.todo) /\ lane \in ToSet(t.todo)
      /\ rest \in Seq(Lanes) /\ Distinct(rest) /\ ToSet(rest) = ToSet(t.todo) \ {lane}
  BY <1>2, <1>5, <1>6, <1>7, LaneParts
<1>9. "exhausted" \notin Lanes /\ "broken" \notin Lanes
  BY DEF Lanes, Luna
<1>10. CASE LogError(p, role)
  <2>1. /\ LanesWith(p, role, "ERROR")' = LanesWith(p, role, "ERROR") \cup {lane}
        /\ \A q, r, o : q # p \/ r # role \/ o # "ERROR" =>
              LanesWith(q, r, o)' = LanesWith(q, r, o)
    <3>1. ledger' = ledger \cup {LedgerRow(p, role, "ERROR")}
      BY <1>10 DEF LogError
    <3>2. Lane(p, role) \in Lanes
      BY <1>6
    <3>3. /\ LanesWith(p, role, "ERROR")' = LanesWith(p, role, "ERROR") \cup {Lane(p, role)}
          /\ \A q, r, o : q # p \/ r # role \/ o # "ERROR" =>
                LanesWith(q, r, o)' = LanesWith(q, r, o)
      BY <3>1, <3>2, LogAdds
    <3> QED
      BY <1>6, <3>3
  <2>2. LanesWith(p, role, "ERROR")' = lanes \ ToSet(rest)
    BY <1>5, <1>8, <2>1
  <2>3. LanesWith(p, role, "PASS")' = {}
    BY <1>5, <2>1
  <2>4. CASE rest = <<>>
    <3>1. PICK w : w = Went(p, role, "done")
      OBVIOUS
    <3>2. /\ w \in ThreadRecords /\ w.step = "done" /\ w.todo = t.todo
          /\ w.lost = t.lost /\ w.calls = t.calls
      BY <1>2, <3>1, WentParts
    <3>3. PICK u : u = [w EXCEPT !.result = "exhausted"]
      OBVIOUS
    <3>4. /\ u \in ThreadRecords /\ u.step = "done" /\ u.todo = t.todo
          /\ u.result = "exhausted" /\ u.lost = t.lost /\ u.calls = t.calls
      BY <3>2, <3>3 DEF ThreadRecords
    <3>5. ToSet(rest) = {}
      BY <2>4 DEF ToSet
    <3>6. Governed(u, lanes, CallsOf(p, role),
                   LanesWith(p, role, "PASS")', LanesWith(p, role, "ERROR")')
      BY <1>4, <1>9, <2>2, <2>3, <3>4, <3>5 DEF Governed
    <3>7. Moves(p, role, u)
      BY <1>2, <1>7, <1>10, <2>4, <3>1, <3>3 DEF LogError
    <3> QED
      BY <1>1, <1>3, <1>4, <2>1, <3>4, <3>6, <3>7, GovernorThreadMoves
  <2>5. CASE rest # <<>>
    <3>1. PICK w : w = Went(p, role, "calling")
      OBVIOUS
    <3>2. /\ w \in ThreadRecords /\ w.step = "calling" /\ w.result = t.result
          /\ w.lost = t.lost /\ w.calls = t.calls
      BY <1>2, <3>1, WentParts
    <3>3. PICK u : u = [w EXCEPT !.todo = rest]
      OBVIOUS
    <3>4. /\ u \in ThreadRecords /\ u.step = "calling" /\ u.todo = rest
          /\ u.result = t.result /\ u.lost = t.lost /\ u.calls = t.calls
      BY <1>8, <3>2, <3>3 DEF ThreadRecords
    <3>5. Luna \in ToSet(rest) => t.calls = 0
      BY <1>5, <1>8
    <3>6. Governed(u, lanes, CallsOf(p, role),
                   LanesWith(p, role, "PASS")', LanesWith(p, role, "ERROR")')
      BY <1>4, <1>5, <1>8, <2>2, <2>3, <2>5, <3>4, <3>5 DEF Governed
    <3>7. Moves(p, role, u)
      BY <1>2, <1>7, <1>10, <2>5, <3>1, <3>3 DEF LogError
    <3> QED
      BY <1>1, <1>3, <1>4, <2>1, <3>4, <3>6, <3>7, GovernorThreadMoves
  <2> QED
    BY <2>4, <2>5
<1>11. CASE LogErrorFault(p, role)
  <2>1. PICK w : w = Went(p, role, "done")
    OBVIOUS
  <2>2. /\ w \in ThreadRecords /\ w.step = "done" /\ w.todo = t.todo
        /\ w.lost = t.lost /\ w.calls = t.calls
    BY <1>2, <2>1, WentParts
  <2>3. PICK u : u = [w EXCEPT !.result = "broken"]
    OBVIOUS
  <2>4. /\ u \in ThreadRecords /\ u.step = "done" /\ u.todo = t.todo
        /\ u.result = "broken" /\ u.lost = t.lost /\ u.calls = t.calls
    BY <2>2, <2>3 DEF ThreadRecords
  <2>5. \A q, r, o : LanesWith(q, r, o)' = LanesWith(q, r, o)
    BY <1>11, LedgersStay DEF LogErrorFault
  <2>6. Governed(u, lanes, CallsOf(p, role),
                 LanesWith(p, role, "PASS")', LanesWith(p, role, "ERROR")')
    BY <1>4, <1>5, <1>9, <2>4, <2>5 DEF Governed
  <2>7. Moves(p, role, u)
    BY <1>11, <2>1, <2>3 DEF LogErrorFault
  <2> QED
    BY <1>1, <1>3, <1>4, <2>4, <2>5, <2>6, <2>7, GovernorThreadMoves
<1> QED
  BY <1>10, <1>11

(* A thread of the swarm returns, and what it returned is collected.       *)
LEMMA SwarmThread ==
    ASSUME GovernorInv, UNCHANGED <<setup, run>>, NEW p \in Procs, NEW role \in Roles,
           Return(p, role) \/ Collect(p, role)
    PROVE  GovernorInv'
<1>1. \A q, r, o : LanesWith(q, r, o)' = LanesWith(q, r, o)
  BY LedgersStay DEF Return, Collect
<1>2. CASE Return(p, role)
  <2>1. At(p, "swarm", role, "calling") /\ UNCHANGED usage
    BY <1>2 DEF Return
  <2>2. PICK t \in ThreadRecords : t = thread[p][role]
    BY <2>1, ThreadAt
  <2>3. /\ t.step = "calling" /\ run[p].kind = "swarm" /\ run[p].state # "ended"
        /\ Swarmed(t, CallsOf(p, role))
    BY <2>1, <2>2, ThreadAt DEF Kept
  <2>4. /\ t.calls = 0 /\ CallsOf(p, role) = {}
    BY <2>3 DEF Swarmed
  <2>5. PICK result \in {Luna, "failed", "unsent"} :
          Moves(p, role, [(IF result = "unsent" THEN Went(p, role, "returned")
                                                ELSE Called(p, role, "returned"))
                           EXCEPT !.result = result])
    BY <1>2 DEF Return
  <2>6. PICK w : w = IF result = "unsent" THEN Went(p, role, "returned")
                                          ELSE Called(p, role, "returned")
    OBVIOUS
  <2>7. w \in ThreadRecords /\ w.step = "returned"
    <3>1. CASE result = "unsent"
      BY <2>2, <2>6, <3>1, WentParts
    <3>2. CASE result # "unsent"
      BY <2>2, <2>4, <2>6, <3>2, CalledParts
    <3> QED
      BY <3>1, <3>2
  <2>8. PICK u : u = [w EXCEPT !.result = result]
    OBVIOUS
  <2>9. u \in ThreadRecords /\ u.step = "returned" /\ u.result = result
    BY <2>7, <2>8 DEF ThreadRecords, Lanes
  <2>10. Moves(p, role, u)
    BY <2>5, <2>6, <2>8
  <2>11. \A q, r : CallsOf(q, r)' = CallsOf(q, r)
    BY <2>1, LedgersStay
  <2>12. Swarmed(u, CallsOf(p, role)')
    BY <2>4, <2>9, <2>11 DEF Swarmed, Luna
  <2> QED
    BY <1>1, <2>3, <2>9, <2>10, <2>11, <2>12, ThreadStep DEF Kept
<1>3. CASE Collect(p, role)
  <2>1. At(p, "swarm", role, "returned")
    BY <1>3 DEF Collect
  <2>2. PICK t \in ThreadRecords : t = thread[p][role]
    BY <2>1, ThreadAt
  <2>3. /\ t.step = "returned" /\ run[p].kind = "swarm" /\ run[p].state # "ended"
        /\ Swarmed(t, CallsOf(p, role))
    BY <2>1, <2>2, ThreadAt DEF Kept
  <2>4. CallsOf(p, role) = {} /\ t.result # "exhausted"
    BY <2>3 DEF Swarmed
  <2>5. \E credits : usage' = usage \cup {UsageRow(p, role, credits)}
    BY <1>3 DEF Collect, CountCall
  <2>6. PICK credits : usage' = usage \cup {UsageRow(p, role, credits)}
    BY <2>5
  <2>7. /\ CallsOf(p, role)' = CallsOf(p, role) \cup {UsageRow(p, role, credits)}
        /\ \A q, r : q # p \/ r # role => CallsOf(q, r)' = CallsOf(q, r)
    BY <2>6, CountAdds
  <2>8. PICK u : u = Went(p, role, "done")
    OBVIOUS
  <2>9. u \in ThreadRecords /\ u.step = "done" /\ u.result = t.result
    BY <2>2, <2>8, WentParts
  <2>10. Moves(p, role, u)
    BY <1>3, <2>8 DEF Collect
  <2>11. \E row : CallsOf(p, role)' = {row}
    BY <2>4, <2>7
  <2>12. Swarmed(u, CallsOf(p, role)')
    BY <2>4, <2>9, <2>11 DEF Swarmed
  <2> QED
    BY <1>1, <2>3, <2>7, <2>9, <2>10, <2>12, ThreadStep DEF Kept
<1> QED
  BY <1>2, <1>3

LEMMA GovernorInitially == Init => GovernorInv
<1> SUFFICES ASSUME Init PROVE GovernorInv
  OBVIOUS
<1>1. /\ setup \in Scenarios /\ usage = {} /\ ledger = {}
      /\ run = [p \in Procs |-> NoRun]
      /\ thread = [p \in Procs |-> [role \in Roles |-> NoThread]]
  BY DEF Init
<1>2. NoRun \in Runs /\ NoRun.kind = "none" /\ NoRun.state = "idle"
  BY DEF NoRun, Runs
<1>3. NoThread \in ThreadRecords
  BY EmptySeq DEF NoThread, ThreadRecords
<1>4. /\ run \in [Procs -> Runs]
      /\ \A p \in Procs : run[p].kind = "none" /\ run[p].state = "idle"
  BY <1>1, <1>2
<1>5. /\ thread \in [Procs -> [Roles -> ThreadRecords]]
      /\ \A p \in Procs, role \in Roles : thread[p][role] = NoThread
  BY <1>1, <1>3
<1>6. /\ \A p, role : CallsOf(p, role) = {}
      /\ \A p, role, outcome : LanesWith(p, role, outcome) = {}
  BY <1>1 DEF CallsOf, LanesWith
<1>7. \A p \in Procs : RunInv(p)
  BY <1>4 DEF RunInv
<1>8. \A p \in Procs, role \in Roles : RoleInv(p, role)
  BY <1>4, <1>5, <1>6 DEF RoleInv, Kept
<1> QED
  BY <1>1, <1>4, <1>5, <1>7, <1>8 DEF GovernorInv

LEMMA PlanStarts ==
    ASSUME GovernorInv, UNCHANGED setup, NEW p \in Procs, Plan(p)
    PROVE  GovernorInv'
<1>1. setup \in Scenarios
  BY DEF GovernorInv
<1>2. CASE GovernorPlan(p)
  <2>1. PICK task \in setup.tasks, sensitivity \in Sensitivities :
          LET mode == IF sensitivity = "secret" THEN "normal" ELSE Budget.mode
          IN StartRun(p, "governor", sensitivity,
                      [role \in Selected(task, Cap("governor", mode)) |->
                          LanesFor(role, mode, sensitivity)])
    BY <1>2 DEF GovernorPlan
  <2>2. PICK mode : mode = IF sensitivity = "secret" THEN "normal" ELSE Budget.mode
    OBVIOUS
  <2>3. PICK planned : planned = [role \in Selected(task, Cap("governor", mode)) |->
                                    LanesFor(role, mode, sensitivity)]
    OBVIOUS
  <2>4. StartRun(p, "governor", sensitivity, planned)
    BY <2>1, <2>2, <2>3
  <2>5. \A role \in DOMAIN planned :
           /\ planned[role] \in Seq(Lanes) /\ Distinct(planned[role])
           /\ ToSet(planned[role]) = Available(sensitivity)
    <3> SUFFICES ASSUME NEW role \in DOMAIN planned
                 PROVE  /\ planned[role] \in Seq(Lanes) /\ Distinct(planned[role])
                        /\ ToSet(planned[role]) = Available(sensitivity)
      OBVIOUS
    <3>1. planned[role] = LanesFor(role, mode, sensitivity)
      BY <2>3
    <3> QED
      BY <1>1, <3>1, LanesForIsAvailable
  <2>6. run[p].state = "idle"
    BY <1>2 DEF GovernorPlan
  <2> QED
    BY <2>4, <2>5, <2>6, Started
<1>3. CASE SwarmPlan(p)
  <2>1. PICK task \in setup.tasks, sensitivity \in Sensitivities \ {"secret"} :
          StartRun(p, "swarm", sensitivity,
                   [role \in Selected(task, Cap("swarm", Budget.mode)) |-> <<Luna>>])
    BY <1>3 DEF SwarmPlan
  <2>2. PICK planned :
          planned = [role \in Selected(task, Cap("swarm", Budget.mode)) |-> <<Luna>>]
    OBVIOUS
  <2>3. StartRun(p, "swarm", sensitivity, planned)
    BY <2>1, <2>2
  <2>4. <<Luna>> \in Seq(Lanes)
    BY DEF Lanes
  <2>5. \A role \in DOMAIN planned : planned[role] = <<Luna>> /\ planned[role] \in Seq(Lanes)
    BY <2>2, <2>4
  <2>6. run[p].state = "idle"
    BY <1>3 DEF SwarmPlan
  <2> QED
    BY <2>3, <2>5, <2>6, Started
<1> QED
  BY <1>2, <1>3 DEF Plan

LEMMA GovernorInductive == GovernorInv /\ [Next]_vars => GovernorInv'
<1> SUFFICES ASSUME GovernorInv, [Next]_vars PROVE GovernorInv'
  OBVIOUS
<1>1. CASE UNCHANGED <<setup, runVars>>
  <2>1. UNCHANGED <<setup, run, thread, usage, ledger>>
    BY <1>1 DEF runVars
  <2>2. /\ \A sensitivity : Available(sensitivity)' = Available(sensitivity)
        /\ \A q, r : CallsOf(q, r)' = CallsOf(q, r)
        /\ \A q, r, o : LanesWith(q, r, o)' = LanesWith(q, r, o)
    BY <2>1, SetupStays, LedgersStay
  <2> QED
    BY <2>1, <2>2 DEF GovernorInv, RunInv, RoleInv
<1>2. CASE RunStep
  <2>1. UNCHANGED setup
    BY <1>2 DEF RunStep
  <2>2. PICK p \in setup.procs : Plan(p) \/ Work(p) \/ Crash(p)
    BY <1>2 DEF RunStep
  <2>3. p \in Procs
    BY GovernorAssumption DEF GovernorInv
  <2>4. CASE Plan(p)
    BY <2>1, <2>3, <2>4, PlanStarts
  <2>5. CASE Crash(p) \/ Abort(p) \/ Finish(p)
    <3>1. PICK s \in {"failed", "ended", "killed"} :
            /\ run' = [run EXCEPT ![p].state = s]
            /\ s = "ended" => \A role \in Roles : thread[p][role].step \in {"off", "done"}
      BY <2>5 DEF Crash, Abort, Finish
    <3>2. run[p].state # "idle" /\ UNCHANGED <<thread, usage, ledger>>
      BY <2>5 DEF Crash, Abort, Finish
    <3> QED
      BY <2>1, <2>3, <3>1, <3>2, StateStep
  <2>6. ASSUME NEW role \in Roles, GovernorThread(p, role)
        PROVE  GovernorInv'
    <3>1. UNCHANGED run
      BY <2>6 DEF GovernorThread, Answer, Fail, Unsent, UncountedCall, LogPass,
                  LogPassFault, LogError, LogErrorFault
    <3>2. CASE Answer(p, role)
      BY <2>1, <2>3, <3>1, <3>2, CallCounted DEF Answer
    <3>3. CASE Fail(p, role)
      BY <2>1, <2>3, <3>1, <3>3, CallCounted DEF Fail
    <3>4. CASE Unsent(p, role) \/ UncountedCall(p, role)
      BY <2>1, <2>3, <3>1, <3>4, CallNotCounted
    <3>5. CASE LogPass(p, role) \/ LogPassFault(p, role)
      BY <2>1, <2>3, <3>1, <3>5, AnswerLogged
    <3>6. CASE LogError(p, role) \/ LogErrorFault(p, role)
      BY <2>1, <2>3, <3>1, <3>6, FailureLogged
    <3> QED
      BY <2>6, <3>2, <3>3, <3>4, <3>5, <3>6 DEF GovernorThread
  <2>7. ASSUME NEW role \in Roles, Return(p, role) \/ Collect(p, role)
        PROVE  GovernorInv'
    <3>1. UNCHANGED run
      BY <2>7 DEF Return, Collect
    <3> QED
      BY <2>1, <2>3, <2>7, <3>1, SwarmThread
  <2>8. ASSUME NEW role \in Roles, CollectFault(p, role)
        PROVE  GovernorInv'
    <3>1. /\ run' = [run EXCEPT ![p].state = "aborting"] /\ run[p].state # "idle"
          /\ UNCHANGED <<thread, usage, ledger>>
      BY <2>8 DEF CollectFault
    <3> QED
      BY <2>1, <2>3, <3>1, StateStep
  <2> QED
    BY <2>2, <2>4, <2>5, <2>6, <2>7, <2>8 DEF Work
<1> QED
  BY <1>1, <1>2 DEF Next, QuotaStep, vars, runVars

(***************************************************************************)
(* GovernorInv holds of every reachable state: the ledgers and the thread  *)
(* of every role of every process agree, however the threads interleave,   *)
(* whatever cannot be written and whoever is killed.                       *)
(***************************************************************************)
THEOREM GovernorInvariant == Spec => []GovernorInv
  BY GovernorInitially, GovernorInductive, PTL DEF Spec

(***************************************************************************)
(* A lane that is still to be tried is one the router will let the payload *)
(* go to: the plan and the check before each call agree on consent and     *)
(* sensitivity.                                                            *)
(***************************************************************************)
THEOREM OfferedIsPermitted == Spec => []PlannedIsPermitted
<1>1. GovernorInv => PlannedIsPermitted
  <2> SUFFICES ASSUME GovernorInv, NEW p \in Procs, NEW role \in Roles,
                      run[p].kind = "governor", NEW lane \in ToSet(thread[p][role].todo)
               PROVE  Permitted(lane, run[p].sensitivity)
    BY DEF PlannedIsPermitted
  <2>1. PICK sensitivity \in Sensitivities : sensitivity = run[p].sensitivity
    BY DEF GovernorInv, RunInv
  <2>2. lane \in Available(sensitivity)
    BY <2>1 DEF GovernorInv, RoleInv, Kept, Governed
  <2> QED
    BY <2>1, <2>2, AvailableLanes DEF GovernorInv
<1> QED
  BY <1>1, GovernorInvariant, PTL

(***************************************************************************)
(* A call of Luna that was made is in its ledger once, unless its row      *)
(* could not be written, and no role calls Luna twice.                     *)
(***************************************************************************)
THEOREM CallsAreCounted == Spec => []LunaIsCounted
<1>1. Cardinality({}) = 0 /\ \A row : Cardinality({row}) = 1
  BY FS_EmptySet, FS_Singleton
<1>2. GovernorInv => LunaIsCounted
  <2> SUFFICES ASSUME GovernorInv, NEW p \in Procs, NEW role \in Roles
               PROVE  LET t == thread[p][role]
                          rows == Cardinality(CallsOf(p, role))
                      IN /\ t.calls <= 1
                         /\ run[p].kind = "governor" => rows = (IF t.lost THEN 0 ELSE t.calls)
                         /\ run[p].kind = "swarm" => rows <= 1
                         /\ run[p].kind = "swarm" /\ run[p].state = "ended" => rows >= t.calls
    BY DEF LunaIsCounted
  <2>1. PICK t \in ThreadRecords : t = thread[p][role]
    BY DEF GovernorInv
  <2>2. t.calls \in {0, 1}
    BY DEF ThreadRecords
  <2>3. PICK rows : rows = CallsOf(p, role)
    OBVIOUS
  <2>4. ASSUME run[p].kind = "governor"
        PROVE  Cardinality(rows) = (IF t.lost THEN 0 ELSE t.calls)
    <3>1. /\ t.lost \/ t.calls = 0 => rows = {}
          /\ ~ t.lost /\ t.calls = 1 => \E row : rows = {row}
      BY <2>1, <2>3, <2>4 DEF GovernorInv, RoleInv, Kept, Governed
    <3> QED
      BY <1>1, <2>2, <3>1
  <2>5. ASSUME run[p].kind = "swarm"
        PROVE  /\ Cardinality(rows) <= 1
               /\ run[p].state = "ended" => Cardinality(rows) >= t.calls
    <3>1. /\ t.step = "done" => \E row : rows = {row}
          /\ t.step # "done" => rows = {}
          /\ t.step = "off" => t.calls = 0
      BY <2>1, <2>3, <2>5 DEF GovernorInv, RoleInv, Kept, Swarmed
    <3>2. run[p].state = "ended" => t.step \in {"off", "done"}
      BY <2>1 DEF GovernorInv, RunInv
    <3>3. /\ t.step = "done" => Cardinality(rows) = 1
          /\ t.step # "done" => Cardinality(rows) = 0
      BY <1>1, <3>1
    <3>4. CASE t.step = "done"
      <4>1. Cardinality(rows) = 1
        BY <3>3, <3>4
      <4> QED
        BY <4>1, <2>2
    <3>5. CASE t.step # "done"
      <4>1. Cardinality(rows) = 0
        BY <3>3, <3>5
      <4>2. run[p].state = "ended" => t.calls = 0
        BY <3>1, <3>2, <3>5
      <4> QED
        BY <4>1, <4>2, <2>2
    <3> QED
      BY <3>4, <3>5
  <2> QED
    BY <2>1, <2>2, <2>3, <2>4, <2>5
<1> QED
  BY <1>2, GovernorInvariant, PTL

(***************************************************************************)
(* A role is answered by a lane if and only if the governor's ledger says  *)
(* so, and says so of this lane alone.                                     *)
(***************************************************************************)
THEOREM AnswersAreLogged == Spec => []AnsweredIsLogged
<1>1. GovernorInv => AnsweredIsLogged
  <2> SUFFICES ASSUME GovernorInv, NEW p \in Procs, NEW role \in Roles,
                      run[p].kind = "governor"
               PROVE  LanesWith(p, role, "PASS") = {thread[p][role].result} \cap Lanes
    BY DEF AnsweredIsLogged
  <2>1. PICK t : t = thread[p][role]
    OBVIOUS
  <2>2. /\ t.step # "done" => t.result = "none" /\ LanesWith(p, role, "PASS") = {}
        /\ t.step = "done" => LanesWith(p, role, "PASS") = {t.result} \cap Lanes
    BY <2>1 DEF GovernorInv, RoleInv, Kept, Governed
  <2>3. "none" \notin Lanes
    BY DEF Lanes, Luna
  <2> QED
    BY <2>1, <2>2, <2>3
<1> QED
  BY <1>1, GovernorInvariant, PTL

(***************************************************************************)
(* The lanes logged as failed and those still to be tried are all a role   *)
(* may use: it is only given up once each of them was tried and logged.    *)
(***************************************************************************)
THEOREM LanesAreExhausted == Spec => []EveryLaneIsTried
<1>1. GovernorInv => EveryLaneIsTried
  <2> SUFFICES ASSUME GovernorInv, NEW p \in Procs, NEW role \in Roles
               PROVE  LET t == thread[p][role]
                      IN /\ t.result = "exhausted" =>
                              LanesWith(p, role, "ERROR") = Available(run[p].sensitivity)
                         /\ run[p].kind = "governor" /\ t.step = "calling" =>
                              LanesWith(p, role, "ERROR") =
                                Available(run[p].sensitivity) \ ToSet(t.todo)
    BY DEF EveryLaneIsTried
  <2>1. PICK t : t = thread[p][role]
    OBVIOUS
  <2>2. Kept(run[p].kind, t, Available(run[p].sensitivity), CallsOf(p, role),
             LanesWith(p, role, "PASS"), LanesWith(p, role, "ERROR"))
    BY <2>1 DEF GovernorInv, RoleInv
  <2>3. run[p].kind \in {"none", "governor", "swarm"}
    BY DEF GovernorInv, Runs
  <2>4. run[p].kind = "none" => t.result = "none" /\ t.step = "off"
    BY <2>2 DEF Kept, NoThread
  <2>5. run[p].kind = "swarm" => t.result # "exhausted"
    BY <2>2 DEF Kept, Swarmed
  <2>6. run[p].kind = "governor" =>
          /\ t.result = "exhausted" =>
                LanesWith(p, role, "ERROR") = Available(run[p].sensitivity)
          /\ t.step = "calling" =>
                LanesWith(p, role, "ERROR") = Available(run[p].sensitivity) \ ToSet(t.todo)
    BY <2>2 DEF Kept, Governed
  <2> QED
    BY <2>1, <2>3, <2>4, <2>5, <2>6
<1> QED
  BY <1>1, GovernorInvariant, PTL

LEMMA TimesMonotone ==
    \A a, b \in Int, c \in Nat : a <= b => a * c <= b * c
<1> SUFFICES ASSUME NEW a \in Int, NEW b \in Int, NEW c \in Nat, a <= b
             PROVE  a * c <= b * c
  OBVIOUS
<1>1. PICK d \in Nat : d = b - a
  OBVIOUS
<1>2. d * c \in Nat
  OBVIOUS
<1>3. b * c = a * c + d * c
  BY <1>1
<1>4. a * c \in Int /\ b * c \in Int
  OBVIOUS
<1> QED
  BY <1>2, <1>3, <1>4

(* The burn state is no better with less left and more burned.             *)
LEMMA StateIsMonotone ==
    ASSUME NEW more \in Nat, NEW less \in Nat, less <= more,
           NEW burned \in Nat, NEW faster \in Nat, burned <= faster,
           NEW left \in Nat, left > 0, NEW elapsed \in Nat,
           NEW x, x = BurnState(more, left, burned, elapsed),
           NEW y, y = BurnState(less, left, faster, elapsed)
    PROVE  /\ x \in {"critical", "conserve", "aggressive", "normal"}
           /\ y \in {"critical", "conserve", "aggressive", "normal"}
           /\ x = "critical" => y = "critical"
           /\ x = "conserve" => y \in {"critical", "conserve"}
           /\ y = "aggressive" => x = "aggressive"
<1> DEFINE Critical(r, b) ==
               \/ r <= ReservePercent /\ left > 1
               \/ /\ elapsed > 0
                  /\ r * elapsed <= b * left \/ RatioAtLeast(3, 2, r, left, b, elapsed)
           Conserve(r, b) ==
               /\ elapsed > 0
               /\ \/ ProjectedBelow(ReservePercent, r, left, b, elapsed)
                  \/ RatioAtLeast(23, 20, r, left, b, elapsed)
           Aggressive(r, b) ==
               \/ /\ elapsed > 0 /\ r >= 20
                  /\ \/ ~ ProjectedBelow(20, r, left, b, elapsed)
                     \/ RatioAtMost(3, 5, r, left, b, elapsed)
               \/ /\ ~ (elapsed > 0)
                  /\ (left <= 24 /\ r >= 35) \/ (left <= 6 /\ r >= 15)
           State(r, b) ==
               IF Critical(r, b) THEN "critical"
               ELSE IF Conserve(r, b) THEN "conserve"
               ELSE IF Aggressive(r, b) THEN "aggressive" ELSE "normal"
<1>1. x = State(more, burned) /\ y = State(less, faster)
  BY DEF BurnState
<1>2. /\ Spendable(more) \in Nat /\ Spendable(less) \in Nat
      /\ Spendable(less) <= Spendable(more)
  BY DEF Spendable, ReservePercent
<1>3. PICK m \in Nat, l \in Nat : m = Spendable(more) /\ l = Spendable(less) /\ l <= m
  BY <1>2
<1>4. /\ less * elapsed <= more * elapsed /\ burned * left <= faster * left
      /\ less * elapsed \in Nat /\ more * elapsed \in Nat
      /\ burned * left \in Nat /\ faster * left \in Nat
  BY TimesMonotone
<1>5. \A a, b \in Nat : burned > 0 /\ b * burned * left >= a * m * elapsed =>
                        faster > 0 /\ b * faster * left >= a * l * elapsed
  <2> SUFFICES ASSUME NEW a \in Nat, NEW b \in Nat, burned > 0,
                      b * burned * left >= a * m * elapsed
               PROVE  faster > 0 /\ b * faster * left >= a * l * elapsed
    OBVIOUS
  <2>1. b * burned <= b * faster /\ a * l <= a * m
    <3>1. burned * b <= faster * b /\ l * a <= m * a
      BY <1>3, TimesMonotone
    <3> QED
      BY <3>1
  <2>2. /\ b * burned \in Int /\ b * faster \in Int /\ a * l \in Int /\ a * m \in Int
    OBVIOUS
  <2>3. PICK bb \in Int, bf \in Int, al \in Int, am \in Int :
          bb = b * burned /\ bf = b * faster /\ al = a * l /\ am = a * m
    BY <2>2
  <2>4. bb * left <= bf * left /\ al * elapsed <= am * elapsed
    BY <2>1, <2>3, TimesMonotone
  <2>5. bb * left \in Int /\ bf * left \in Int /\ al * elapsed \in Int /\ am * elapsed \in Int
    OBVIOUS
  <2>6. bb * left >= am * elapsed
    BY <2>3
  <2>7. bf * left >= al * elapsed
    BY <2>4, <2>5, <2>6
  <2> QED
    BY <2>3, <2>7
<1>6. \A a, b \in Nat : RatioAtLeast(a, b, more, left, burned, elapsed) =>
                        RatioAtLeast(a, b, less, left, faster, elapsed)
  BY <1>3, <1>5 DEF RatioAtLeast
<1>7. \A a, b \in Nat : faster = 0 \/ (l > 0 /\ b * faster * left <= a * l * elapsed) =>
                        burned = 0 \/ (m > 0 /\ b * burned * left <= a * m * elapsed)
  <2> SUFFICES ASSUME NEW a \in Nat, NEW b \in Nat, l > 0, faster # 0,
                      b * faster * left <= a * l * elapsed
               PROVE  m > 0 /\ b * burned * left <= a * m * elapsed
    OBVIOUS
  <2>1. b * burned <= b * faster /\ a * l <= a * m
    <3>1. burned * b <= faster * b /\ l * a <= m * a
      BY <1>3, TimesMonotone
    <3> QED
      BY <3>1
  <2>2. /\ b * burned \in Int /\ b * faster \in Int /\ a * l \in Int /\ a * m \in Int
    OBVIOUS
  <2>3. PICK bb \in Int, bf \in Int, al \in Int, am \in Int :
          bb = b * burned /\ bf = b * faster /\ al = a * l /\ am = a * m
    BY <2>2
  <2>4. bb * left <= bf * left /\ al * elapsed <= am * elapsed
    BY <2>1, <2>3, TimesMonotone
  <2>5. bb * left \in Int /\ bf * left \in Int /\ al * elapsed \in Int /\ am * elapsed \in Int
    OBVIOUS
  <2>6. bf * left <= al * elapsed
    BY <2>3
  <2>7. bb * left <= am * elapsed
    BY <2>4, <2>5, <2>6
  <2> QED
    BY <1>3, <2>3, <2>7
<1>8. \A a, b \in Nat : RatioAtMost(a, b, less, left, faster, elapsed) =>
                        RatioAtMost(a, b, more, left, burned, elapsed)
  BY <1>3, <1>7 DEF RatioAtMost
<1>9. \A percent \in Nat : ProjectedBelow(percent, more, left, burned, elapsed) =>
                           ProjectedBelow(percent, less, left, faster, elapsed)
  <2> SUFFICES ASSUME NEW percent \in Nat, (more - percent) * elapsed < burned * left
               PROVE  (less - percent) * elapsed < faster * left
    BY DEF ProjectedBelow
  <2>1. PICK h \in Int, k \in Int : h = less - percent /\ k = more - percent /\ h <= k
    OBVIOUS
  <2>2. h * elapsed <= k * elapsed /\ h * elapsed \in Int /\ k * elapsed \in Int
    BY <2>1, TimesMonotone
  <2>3. k * elapsed < burned * left
    BY <2>1
  <2> QED
    BY <2>1, <2>2, <2>3, <1>4
<1>10. Critical(more, burned) => Critical(less, faster)
  <2>1. more * elapsed <= burned * left => less * elapsed <= faster * left
    BY <1>4
  <2>2. RatioAtLeast(3, 2, more, left, burned, elapsed) =>
        RatioAtLeast(3, 2, less, left, faster, elapsed)
    BY <1>6
  <2>3. more <= ReservePercent => less <= ReservePercent
    BY DEF ReservePercent
  <2> QED
    BY <2>1, <2>2, <2>3
<1>11. Conserve(more, burned) => Conserve(less, faster)
  <2>1. ProjectedBelow(ReservePercent, more, left, burned, elapsed) =>
        ProjectedBelow(ReservePercent, less, left, faster, elapsed)
    BY <1>9 DEF ReservePercent
  <2>2. RatioAtLeast(23, 20, more, left, burned, elapsed) =>
        RatioAtLeast(23, 20, less, left, faster, elapsed)
    BY <1>6
  <2> QED
    BY <2>1, <2>2
<1>12. Aggressive(less, faster) => Aggressive(more, burned)
  <2>1. ProjectedBelow(20, more, left, burned, elapsed) =>
        ProjectedBelow(20, less, left, faster, elapsed)
    BY <1>9
  <2>2. RatioAtMost(3, 5, less, left, faster, elapsed) =>
        RatioAtMost(3, 5, more, left, burned, elapsed)
    BY <1>8
  <2>3. /\ less >= 20 => more >= 20
        /\ less >= 35 => more >= 35
        /\ less >= 15 => more >= 15
    OBVIOUS
  <2> QED
    BY <2>1, <2>2, <2>3
<1> HIDE DEF Critical, Conserve, Aggressive
<1> QED
  BY <1>1, <1>10, <1>11, <1>12

(* Where Luna stands in the orders.                                        *)
LEMMA LunaPositions ==
    ASSUME NEW role, NEW mode
    PROVE  LunaPosition(role, mode) =
             IF role \in {"recon", "test_writer", "release_auditor"} THEN 4
             ELSE IF mode \in {"critical", "conserve"} THEN 5 ELSE 2
<1>1. PICK order : order = LaneOrder(role, mode)
  OBVIOUS
<1>2. \A i, j \in 1..5 : order[i] = order[j] => i = j
  BY <1>1, LaneOrderIsComplete
<1>3. ASSUME NEW k \in 1..5, order[k] = Luna
      PROVE  LunaPosition(role, mode) = k
  <2>1. (CHOOSE i \in 1..5 : order[i] = Luna) = k
    BY <1>2, <1>3
  <2> QED
    BY <1>1, <2>1 DEF LunaPosition
<1>4. order[IF role \in {"recon", "test_writer", "release_auditor"} THEN 4
            ELSE IF mode \in {"critical", "conserve"} THEN 5 ELSE 2] = Luna
  <2>1. CASE role \in {"recon", "test_writer", "release_auditor"}
    <3>1. \/ order = <<"openrouter-hy3-free", "nvidia-fleet", "empero-free", Luna, "local">>
          \/ order = <<"nvidia-fleet", "openrouter-hy3-free", "empero-free", Luna, "local">>
      BY <2>1, <1>1 DEF LaneOrder
    <3>2. order[4] = Luna
      BY <3>1
    <3> QED
      BY <2>1, <3>2
  <2>2. CASE role \notin {"recon", "test_writer", "release_auditor"} /\ mode = "critical"
    <3>1. order = <<"openrouter-hy3-free", "nvidia-fleet", "empero-free", "local", Luna>>
      BY <2>2, <1>1 DEF LaneOrder
    <3>2. order[5] = Luna
      BY <3>1
    <3> QED
      BY <2>2, <3>2
  <2>3. CASE role \notin {"recon", "test_writer", "release_auditor"} /\ mode = "conserve"
    <3>1. order = <<"nvidia-fleet", "openrouter-hy3-free", "local", "empero-free", Luna>>
      BY <2>3, <1>1 DEF LaneOrder
    <3>2. order[5] = Luna
      BY <3>1
    <3> QED
      BY <2>3, <3>2
  <2>4. CASE role \notin {"recon", "test_writer", "release_auditor"}
              /\ mode \notin {"critical", "conserve"}
    <3>1. order = <<"nvidia-fleet", Luna, "openrouter-hy3-free", "local", "empero-free">>
      BY <2>4, <1>1 DEF LaneOrder
    <3>2. order[2] = Luna
      BY <3>1
    <3> QED
      BY <2>4, <3>2
  <2> QED
    BY <2>1, <2>2, <2>3, <2>4
<1> QED
  BY <1>3, <1>4

(* A budget of a stricter mode spends no more.                             *)
LEMMA StricterSpendsNoMore ==
    ASSUME NEW worse, NEW budget,
           worse.mode \in Modes, budget.mode \in Modes,
           worse.max \in BOOLEAN, budget.max \in BOOLEAN,
           budget.mode = "critical" => worse.mode = "critical",
           budget.mode = "conserve" => worse.mode # "normal",
           worse.max => budget.max
    PROVE  SpendsNoMore(worse, budget)
<1>1. \A kind \in {"governor", "swarm"} : Cap(kind, worse.mode) <= Cap(kind, budget.mode)
  BY DEF Cap, Modes
<1>2. ASSUME NEW role \in Roles
      PROVE  EffortRank(Effort(role, worse)) <= EffortRank(Effort(role, budget))
  <2> DEFINE low == role \in {"recon", "test_writer"}
             Rank(b) == IF b.mode = "conserve" THEN 2
                        ELSE IF b.mode = "critical" THEN IF low THEN 1 ELSE 2
                        ELSE IF low THEN 2 ELSE IF b.max THEN 4 ELSE 3
  <2>1. /\ EffortRank("medium") = 1 /\ EffortRank("high") = 2
        /\ EffortRank("xhigh") = 3 /\ EffortRank("max") = 4
    BY DEF EffortRank
  <2>2. ASSUME NEW b, b.mode \in Modes
        PROVE  EffortRank(Effort(role, b)) = Rank(b)
    <3>1. CASE b.mode = "conserve"
      <4>1. Effort(role, b) = "high"
        BY <3>1 DEF Effort
      <4> QED
        BY <2>1, <3>1, <4>1
    <3>2. CASE b.mode = "critical" /\ low
      <4>1. Effort(role, b) = "medium"
        BY <3>2 DEF Effort
      <4> QED
        BY <2>1, <3>2, <4>1
    <3>3. CASE b.mode = "critical" /\ ~ low
      <4>1. Effort(role, b) = "high"
        BY <3>3 DEF Effort
      <4> QED
        BY <2>1, <3>3, <4>1
    <3>4. CASE b.mode = "normal" /\ low
      <4>1. Effort(role, b) = "high"
        BY <3>4 DEF Effort
      <4> QED
        BY <2>1, <3>4, <4>1
    <3>5. CASE b.mode = "normal" /\ ~ low /\ b.max
      <4>1. Effort(role, b) = "max"
        BY <3>5 DEF Effort
      <4> QED
        BY <2>1, <3>5, <4>1
    <3>6. CASE b.mode = "normal" /\ ~ low /\ ~ b.max
      <4>1. Effort(role, b) = "xhigh"
        BY <3>6 DEF Effort
      <4> QED
        BY <2>1, <3>6, <4>1
    <3> QED
      BY <2>2, <3>1, <3>2, <3>3, <3>4, <3>5, <3>6 DEF Modes
  <2>3. Rank(worse) <= Rank(budget)
    BY DEF Modes
  <2> QED
    BY <2>2, <2>3
<1>3. ASSUME NEW role \in Roles
      PROVE  LunaPosition(role, worse.mode) >= LunaPosition(role, budget.mode)
  <2>1. PICK w : w = worse.mode
    OBVIOUS
  <2>2. PICK b : b = budget.mode
    OBVIOUS
  <2>3. b \in {"critical", "conserve"} => w \in {"critical", "conserve"}
    BY <2>1, <2>2 DEF Modes
  <2>4. LunaPosition(role, w) >= LunaPosition(role, b)
    BY <2>3, LunaPositions
  <2> QED
    BY <2>1, <2>2, <2>4
<1> QED
  BY <1>1, <1>2, <1>3 DEF SpendsNoMore

(***************************************************************************)
(* Had less been left at the last observation, the budget would not be     *)
(* laxer in any respect: whatever was observed, whenever and however often *)
(* syncs overlapped or were killed.                                        *)
(***************************************************************************)
THEOREM LessIsStricter == Spec => []WorseIsStricter
<1>1. Init => TimesInv
  <2> SUFFICES ASSUME Init PROVE TimesInv
    OBVIOUS
  <2>1. status = <<>> /\ \A u \in Syncers : kept[u] = <<>>
    BY DEF Init, QuotaInit
  <2> QED
    BY <2>1, QuotaInitially, NothingIsInOrder DEF TimesInv
<1>2. TimesInv => WorseIsStricter
  <2> SUFFICES ASSUME TimesInv, Calibrated(status, now), NEW less \in Percents,
                      less <= status[Latest(status)].remaining,
                      NEW rows, rows = Lowered(status, less)
               PROVE  SpendsNoMore(BudgetOf(Pressure(rows, now), less), Budget)
    BY DEF WorseIsStricter, Lowered
  <2>1. /\ status \in Seq(Observations) /\ status # <<>> /\ InOrder(status, now)
        /\ now \in Nat /\ less \in Nat
    <3>1. status \in Seq(Observations) /\ InOrder(status, now) /\ now \in Nat
      BY DEF TimesInv, QuotaInv, QuotaTypeOK
    <3>2. status # <<>>
      BY DEF Calibrated
    <3>3. less \in Nat
      BY ONLY QuotaAssumption, less \in Percents
    <3> QED
      BY <3>1, <3>2, <3>3
  <2>2. PICK n : n = Latest(status)
    OBVIOUS
  <2>3. /\ Latest(rows) = n /\ rows[n].remaining = less /\ rows[n].reset = status[n].reset
        /\ status[n] \in Observations
        /\ Elapsed(status) \in Nat /\ Elapsed(rows) = Elapsed(status)
        /\ Burned(status) \in Nat /\ Burned(rows) \in Nat /\ Burned(status) <= Burned(rows)
    <3>1. PICK s \in Seq(Observations) : s = status
      BY <2>1
    <3>2. PICK t : t = now
      OBVIOUS
    <3>3. /\ s # <<>> /\ InOrder(s, t) /\ less \in Nat /\ less <= s[Latest(s)].remaining
          /\ rows = Lowered(s, less)
      BY <2>1, <3>1, <3>2
    <3>4. /\ Latest(rows) = Latest(s)
          /\ rows[Latest(s)].remaining = less
          /\ rows[Latest(s)].reset = s[Latest(s)].reset
          /\ s[Latest(s)] \in Observations
          /\ Elapsed(s) \in Nat /\ Elapsed(rows) = Elapsed(s)
          /\ Burned(s) \in Nat /\ Burned(rows) \in Nat /\ Burned(s) <= Burned(rows)
      BY <3>3, LessIsPressed
    <3> QED
      BY <2>2, <3>1, <3>4
  <2>4. PICK last \in Observations : last = status[n]
    BY <2>3
  <2>5. last.remaining \in Nat /\ last.reset \in Nat
    BY DEF Observations
  <2>6. less <= last.remaining /\ last.reset > now
    BY <2>2, <2>4 DEF Calibrated
  <2>7. PICK left \in Nat : left = last.reset - now /\ left > 0
    BY <2>1, <2>5, <2>6
  <2>8. PICK more \in Nat, burned \in Nat, faster \in Nat, elapsed \in Nat :
          /\ more = last.remaining /\ burned = Burned(status) /\ faster = Burned(rows)
          /\ elapsed = Elapsed(status) /\ burned <= faster /\ less <= more
    BY <2>3, <2>5, <2>6
  <2>9. PICK x : x = BurnState(more, left, burned, elapsed)
    OBVIOUS
  <2>10. PICK y : y = BurnState(less, left, faster, elapsed)
    OBVIOUS
  <2>11. /\ x \in {"critical", "conserve", "aggressive", "normal"}
         /\ y \in {"critical", "conserve", "aggressive", "normal"}
         /\ x = "critical" => y = "critical"
         /\ x = "conserve" => y \in {"critical", "conserve"}
         /\ y = "aggressive" => x = "aggressive"
    <3>1. /\ less \in Nat /\ less <= more /\ burned <= faster /\ left > 0
          /\ x = BurnState(more, left, burned, elapsed)
          /\ y = BurnState(less, left, faster, elapsed)
      BY <2>1, <2>7, <2>8, <2>9, <2>10
    <3> QED
      BY ONLY <3>1, more \in Nat, burned \in Nat, faster \in Nat, elapsed \in Nat,
              left \in Nat, StateIsMonotone
  <2>12. Pressure(status, now) = x
    BY <2>2, <2>4, <2>7, <2>8, <2>9 DEF Pressure
  <2>13. Pressure(rows, now) = y
    BY <2>3, <2>4, <2>7, <2>8, <2>10 DEF Pressure
  <2>14. PICK budget : budget = Budget
    OBVIOUS
  <2>15. budget = BudgetOf(x, more)
    BY <2>2, <2>4, <2>8, <2>12, <2>14 DEF Budget
  <2>16. PICK worse : worse = BudgetOf(y, less)
    OBVIOUS
  <2>17. /\ budget.mode = ModeOf(x) /\ budget.max = (x = "aggressive" /\ more >= 15)
         /\ worse.mode = ModeOf(y) /\ worse.max = (y = "aggressive" /\ less >= 15)
    BY <2>15, <2>16 DEF BudgetOf
  <2>18. SpendsNoMore(worse, budget)
    <3>1. worse.mode \in Modes /\ budget.mode \in Modes
      BY <2>11, <2>17 DEF ModeOf, Modes
    <3>2. worse.max \in BOOLEAN /\ budget.max \in BOOLEAN /\ (worse.max => budget.max)
      <4>1. y = "aggressive" /\ less >= 15 => x = "aggressive" /\ more >= 15
        BY <2>1, <2>8, <2>11
      <4> QED
        BY <2>17, <4>1, Zenon
    <3>3. /\ budget.mode = "critical" => worse.mode = "critical"
          /\ budget.mode = "conserve" => worse.mode # "normal"
      BY <2>11, <2>17 DEF ModeOf
    <3> QED
      BY <3>1, <3>2, <3>3, StricterSpendsNoMore
  <2> QED
    BY <2>13, <2>14, <2>16, <2>18
<1> QED
  BY <1>1, <1>2, TimesInductive, PTL DEF Spec
=============================================================================
