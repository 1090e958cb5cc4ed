---------------------------- MODULE RecordProofs ----------------------------
(***************************************************************************)
(* Proofs about the parts that keep records: SkillFeedback, for any        *)
(* commands, events and bound; VendorUpdate, for any updates, pins and     *)
(* bound; and EvalPromotion, for any cases and runs and any number of      *)
(* promotions: the verdict is a lexicographic order of hard gates,         *)
(* stability and efficiency, so promotions never undo one another.         *)
(***************************************************************************)
EXTENDS SkillFeedback, EvalPromotion, VendorUpdate, FiniteSetTheorems, TLAPS

FeedbackTypeOK ==
    /\ lines \in Seq(FeedbackEvents \cup {TornLine})
    /\ IsFiniteSet(Range(lines))
    /\ open \in BOOLEAN /\ (open => lines # <<>>)
    /\ recorder \in [Recorders -> {"idle", "append", "stats"}]
    /\ feedback \in [Recorders -> FeedbackEvents \cup {TornLine}]
    /\ loaded \in [Recorders -> SUBSET FeedbackEvents]
    /\ crowded \in BOOLEAN /\ current \in BOOLEAN

(* While every line parses, what a command is about to count is in the     *)
(* ledger, and what is counted is the statistics of some of its events.    *)
Counted ==
    /\ \A c \in Recorders : recorder[c] # "idle" => feedback[c] \in FeedbackEvents
    /\ TornLine \notin Range(lines) =>
        /\ \A c \in Recorders :
            /\ loaded[c] \subseteq Range(lines)
            /\ recorder[c] = "stats" => feedback[c] \in Range(lines)
        /\ \E events \in SUBSET Range(lines) : stats = BuildStats(events)

(* One command at a time has loaded all there is, so that what it writes   *)
(* is the statistics of the whole ledger.                                  *)
InTurn ==
    ~crowded /\ TornLine \notin Range(lines) =>
        /\ \A c, d \in Recorders : recorder[c] # "idle" /\ recorder[d] # "idle" => c = d
        /\ \A c \in Recorders : recorder[c] # "idle" => Loadable(Range(lines))
        /\ \A c \in Recorders : recorder[c] = "append" =>
                /\ loaded[c] = Range(lines)
                /\ \A f \in Range(lines) : f.receipt # feedback[c].receipt
        /\ \A c \in Recorders : recorder[c] = "stats" =>
                Range(lines) = loaded[c] \cup {feedback[c]}
        /\ current /\ (\A c \in Recorders : recorder[c] = "idle") =>
                Loadable(Range(lines)) /\ stats = BuildStats(Range(lines))

FeedbackInv == FeedbackTypeOK /\ Counted /\ InTurn

-----------------------------------------------------------------------------
LEMMA RangeOfAppend ==
  ASSUME NEW S, NEW s \in Seq(S), NEW x \in S
  PROVE  Append(s, x) \in Seq(S) /\ Range(Append(s, x)) = Range(s) \cup {x}
<1>1. /\ Append(s, x) \in Seq(S)
      /\ DOMAIN Append(s, x) = DOMAIN s \cup {Len(s) + 1}
      /\ \A i \in DOMAIN s : Append(s, x)[i] = s[i]
      /\ Append(s, x)[Len(s) + 1] = x
  OBVIOUS
<1> QED
  BY <1>1, Zenon DEF Range

(* The ledger gains one line, or its open last line is spoiled for good.   *)
LEMMA LineWritten ==
  ASSUME FeedbackTypeOK, NEW x \in FeedbackEvents \cup {TornLine},
         lines' = Written(x)
  PROVE  /\ lines' \in Seq(FeedbackEvents \cup {TornLine}) /\ lines' # <<>>
         /\ IsFiniteSet(Range(lines'))
         /\ TornLine \notin Range(lines') =>
              TornLine \notin Range(lines) /\ Range(lines') = Range(lines) \cup {x}
<1>1. CASE ~open
  <2>1. lines' = Append(lines, x)
    BY <1>1 DEF Written
  <2>2. lines' \in Seq(FeedbackEvents \cup {TornLine}) /\ Range(lines') = Range(lines) \cup {x}
    BY <2>1, RangeOfAppend DEF FeedbackTypeOK
  <2>3. IsFiniteSet(Range(lines) \cup {x})
    BY FS_AddElement DEF FeedbackTypeOK
  <2>4. lines' # <<>>
    BY <2>1 DEF FeedbackTypeOK
  <2> QED
    BY <2>2, <2>3, <2>4
<1>2. CASE open
  <2>1. /\ lines \in Seq(FeedbackEvents \cup {TornLine}) /\ lines # <<>>
        /\ lines' = [lines EXCEPT ![Len(lines)] = TornLine]
    BY <1>2 DEF Written, FeedbackTypeOK
  <2>2. /\ lines' \in Seq(FeedbackEvents \cup {TornLine}) /\ lines' # <<>>
        /\ DOMAIN lines' = DOMAIN lines /\ Len(lines) \in DOMAIN lines
        /\ lines'[Len(lines)] = TornLine
        /\ \A i \in DOMAIN lines : lines'[i] = lines[i] \/ lines'[i] = TornLine
    BY <2>1
  <2>3. TornLine \in Range(lines') /\ Range(lines') \in SUBSET (Range(lines) \cup {TornLine})
    BY <2>2, Zenon DEF Range
  <2>4. IsFiniteSet(Range(lines) \cup {TornLine})
    BY FS_AddElement DEF FeedbackTypeOK
  <2>5. IsFiniteSet(Range(lines'))
    BY <2>3, <2>4, FS_Subset, Zenon
  <2> QED
    BY <2>2, <2>3, <2>5
<1> QED
  BY <1>1, <1>2 DEF FeedbackTypeOK

LEMMA FeedbackStarts == FeedbackInit => FeedbackInv
<1> SUFFICES ASSUME FeedbackInit PROVE FeedbackInv
  OBVIOUS
<1>1. Range(lines) = {}
  BY DEF FeedbackInit, Range
<1>2. lines \in Seq(FeedbackEvents \cup {TornLine})
  BY DEF FeedbackInit
<1>3. FeedbackTypeOK
  BY <1>1, <1>2, FS_EmptySet DEF FeedbackInit, FeedbackTypeOK
<1>4. Counted
  BY <1>1 DEF FeedbackInit, Counted
<1>5. InTurn
  BY <1>1 DEF FeedbackInit, InTurn, Loadable
<1> QED
  BY <1>3, <1>4, <1>5 DEF FeedbackInv

(* What one command has just counted is part of the ledger.                *)
LEMMA FeedbackSteps == FeedbackInv /\ [FeedbackNext]_feedbackVars => FeedbackInv'
<1> SUFFICES ASSUME FeedbackInv, [FeedbackNext]_feedbackVars PROVE FeedbackInv'
  OBVIOUS
<1> USE DEF FeedbackInv
<1>1. ASSUME NEW c \in Recorders, NEW e \in FeedbackEvents, LoadLedger(c, e)
      PROVE FeedbackInv'
  <2> USE <1>1 DEF LoadLedger
  <2>1. Range(lines) \subseteq FeedbackEvents
    <3>1. Range(lines) \subseteq FeedbackEvents \cup {TornLine}
      BY DEF FeedbackTypeOK, Range
    <3> QED
      BY <3>1 DEF Loadable
  <2>2. FeedbackTypeOK'
    BY <2>1 DEF FeedbackTypeOK
  <2>3. Counted'
    BY <2>1 DEF Counted, FeedbackTypeOK
  <2>4. InTurn'
    <3> SUFFICES ASSUME ~crowded' PROVE InTurn'
      BY DEF InTurn
    <3>1. \A d \in Recorders : recorder[d] = "idle"
      BY DEF FeedbackTypeOK
    <3>2. /\ \A d \in Recorders : recorder'[d] # "idle" => d = c
          /\ recorder'[c] = (IF e \in Range(lines) THEN "stats" ELSE "append")
          /\ feedback'[c] = e /\ loaded'[c] = Range(lines)
      BY <3>1 DEF FeedbackTypeOK
    <3>3. e \notin Range(lines) => \A f \in Range(lines) : f.receipt # e.receipt
      OBVIOUS
    <3>4. Loadable(Range(lines)) /\ lines' = lines
      OBVIOUS
    <3> QED
      BY <3>2, <3>3, <3>4 DEF InTurn, Loadable
  <2> QED
    BY <2>2, <2>3, <2>4
<1>2. ASSUME NEW c \in Recorders, AppendLine(c) PROVE FeedbackInv'
  <2> USE <1>2 DEF AppendLine
  <2>1. feedback[c] \in FeedbackEvents
    BY DEF Counted
  <2>2. /\ lines' \in Seq(FeedbackEvents \cup {TornLine})
        /\ IsFiniteSet(Range(lines'))
        /\ TornLine \notin Range(lines') =>
             /\ TornLine \notin Range(lines)
             /\ Range(lines') = Range(lines) \cup {feedback[c]}
    BY <2>1, LineWritten
  <2>3. FeedbackTypeOK'
    BY <2>2 DEF FeedbackTypeOK
  <2>4. Counted'
    BY <2>2 DEF Counted, FeedbackTypeOK, BuildStats
  <2>5. InTurn'
    BY <2>1, <2>2, EventsAreWhole DEF InTurn, FeedbackTypeOK, Loadable
  <2> QED
    BY <2>3, <2>4, <2>5
<1>3. ASSUME NEW c \in Recorders, WriteStats(c) PROVE FeedbackInv'
  <2> USE <1>3 DEF WriteStats, EndRecord
  <2>1. FeedbackTypeOK'
    BY DEF FeedbackTypeOK
  <2>2. TornLine \notin Range(lines) => loaded[c] \cup {feedback[c]} \in SUBSET Range(lines)
    BY DEF Counted, FeedbackTypeOK
  <2>3. Counted'
    BY <2>2 DEF Counted, FeedbackTypeOK
  <2>4. InTurn'
    BY DEF InTurn, FeedbackTypeOK
  <2> QED
    BY <2>1, <2>3, <2>4
<1>4. ASSUME NEW c \in Recorders, KilledRecording(c) PROVE FeedbackInv'
  <2> USE <1>4 DEF KilledRecording, EndRecord
  <2>1. FeedbackTypeOK'
    BY DEF FeedbackTypeOK
  <2>2. Counted'
    BY DEF Counted, FeedbackTypeOK, BuildStats
  <2>3. InTurn'
    BY DEF InTurn, FeedbackTypeOK
  <2> QED
    BY <2>1, <2>2, <2>3
<1>5. ASSUME NEW c \in Recorders, KilledAppending(c) PROVE FeedbackInv'
  <2> USE <1>5 DEF KilledAppending, EndRecord
  <2>0. PICK x \in {feedback[c], TornLine} : lines' = Written(x)
    OBVIOUS
  <2>1. /\ lines' \in Seq(FeedbackEvents \cup {TornLine}) /\ lines' # <<>>
        /\ IsFiniteSet(Range(lines'))
        /\ TornLine \notin Range(lines') =>
             TornLine \notin Range(lines) /\ Range(lines') = Range(lines) \cup {x}
    BY <2>0, LineWritten DEF FeedbackTypeOK
  <2>2. FeedbackTypeOK'
    BY <2>1 DEF FeedbackTypeOK
  <2>3. Counted'
    BY <2>1 DEF Counted, FeedbackTypeOK, BuildStats
  <2>4. InTurn'
    <3> SUFFICES ASSUME ~crowded', TornLine \notin Range(lines')  PROVE InTurn'
      BY DEF InTurn
    <3>1. InTurn /\ ~crowded /\ TornLine \notin Range(lines) /\ ~current'
      BY <2>1
    <3>2. \A d \in Recorders : recorder'[d] = "idle"
      BY <3>1 DEF InTurn, FeedbackTypeOK
    <3> QED
      BY <3>1, <3>2 DEF InTurn
  <2> QED
    BY <2>2, <2>3, <2>4
<1>6. CASE UNCHANGED feedbackVars
  <2> USE <1>6 DEF feedbackVars
  <2>1. FeedbackTypeOK'
    BY DEF FeedbackTypeOK
  <2>2. Counted'
    BY DEF Counted, BuildStats
  <2>3. InTurn'
    <3>1. InTurn
      OBVIOUS
    <3>2. /\ lines' = lines /\ stats' = stats /\ recorder' = recorder
          /\ feedback' = feedback /\ loaded' = loaded /\ open' = open
          /\ crowded' = crowded /\ current' = current
      OBVIOUS
    <3> HIDE <1>6
    <3> QED
      BY <3>1, <3>2 DEF InTurn, Loadable
  <2> QED
    BY <2>1, <2>2, <2>3
<1> QED
  BY <1>1, <1>2, <1>3, <1>4, <1>5, <1>6 DEF FeedbackNext

(* The inductive invariant, for any commands that overlap and are killed.  *)
THEOREM FeedbackInvariant == FeedbackSpec => []FeedbackInv
  BY FeedbackStarts, FeedbackSteps, PTL DEF FeedbackSpec

(* The statistics never count what is not in the ledger, nor anything      *)
(* twice, however many commands overlap and wherever they are killed, as   *)
(* long as every line of the ledger parses.                                *)
THEOREM StatisticsAreBacked == FeedbackSpec => []StatsAreBacked
<1>1. FeedbackInv => StatsAreBacked
  <2> SUFFICES ASSUME FeedbackInv, TornLine \notin Range(lines),
                      NEW skill \in DOMAIN stats
               PROVE  /\ stats[skill].uses <= Cardinality(
                            {e \in Range(lines) : skill \in e.skills})
                      /\ \A s \in DOMAIN stats[skill].outcomes :
                            \E e \in Range(lines) : skill \in e.skills /\ e.status = s
    BY DEF StatsAreBacked
  <2>1. PICK events \in SUBSET Range(lines) : stats = BuildStats(events)
    BY DEF FeedbackInv, Counted
  <2> DEFINE counted == {e \in events : skill \in e.skills}
             recorded == {e \in Range(lines) : skill \in e.skills}
  <2>2. skill \in UNION {e.skills : e \in events}
    BY <2>1 DEF BuildStats
  <2>3. stats[skill] = [uses |-> Cardinality(counted),
                        outcomes |-> [s \in {e.status : e \in counted} |->
                                       Cardinality({e \in counted : e.status = s})]]
    BY <2>1, <2>2, Zenon DEF BuildStats
  <2>4. IsFiniteSet(recorded) /\ counted \in SUBSET recorded
    <3>1. recorded \in SUBSET Range(lines) /\ IsFiniteSet(Range(lines))
      BY DEF FeedbackInv, FeedbackTypeOK
    <3>2. IsFiniteSet(recorded)
      BY <3>1, FS_Subset, Zenon
    <3> QED
      BY <3>2
  <2>5. Cardinality(counted) <= Cardinality(recorded)
    BY <2>4, FS_Subset, Zenon
  <2>6. \A s \in DOMAIN stats[skill].outcomes : \E e \in recorded : e.status = s
    BY <2>3
  <2> QED
    BY <2>3, <2>5, <2>6
<1> QED
  BY <1>1, FeedbackInvariant, PTL

(* While commands follow one another and every line parses, one that       *)
(* reported PASS has left the statistics of the whole ledger.              *)
THEOREM StatisticsFollow == FeedbackSpec => []StatsFollowLedger
<1>1. FeedbackInv => StatsFollowLedger
  BY DEF FeedbackInv, InTurn, StatsFollowLedger
<1> QED
  BY <1>1, FeedbackInvariant, PTL

-----------------------------------------------------------------------------
VendorTypeOK ==
    /\ updater \in [Updaters -> {"idle", "staged", "moved", "dropping", "leaving"}]
    /\ staged \in [Updaters -> Pins \cup {Absent, Torn}]
    /\ replaced \in [Updaters -> BOOLEAN]
    /\ packing \in {"idle", "reading"}
    /\ mixed \in BOOLEAN /\ untidy \in BOOLEAN

(* Nobody is at work but u, if anybody.                                    *)
OnlyOne ==
    /\ \A u, v \in Updaters : updater[u] # "idle" /\ updater[v] # "idle" => u = v
    /\ \A u \in Updaters : updater[u] # "idle" => packing = "idle"

(* Where the snapshots are at each step of an update.                      *)
InStep ==
    \A u \in Updaters :
        /\ updater[u] = "staged" => backup = Absent
        /\ updater[u] = "moved" =>
                root = Absent /\ backup \in (IF replaced[u] THEN Pins ELSE {Absent})
        /\ updater[u] \in {"staged", "moved"} => staged[u] \in Pins
        /\ updater[u] = "dropping" => root \in Pins

Whole ==
    /\ root \in Pins \cup {Absent} /\ backup \in Pins \cup {Absent, Torn}
    /\ backup = Torn => root \in Pins

(* When every update could clear up, it leaves the root alone behind.      *)
Tidy ==
    ~untidy =>
        /\ (\A u \in Updaters : updater[u] \in {"idle", "leaving"}) => backup = Absent
        /\ \A u \in Updaters : updater[u] = "idle" => staged[u] = Absent

Archive ==
    /\ packing = "reading" => taken = {root} /\ root \in Pins
    /\ packing = "reading" /\ extra => untidy
    /\ published # NoArchive =>
        /\ \E pin \in Pins : published.vendor = {pin}
        /\ published.extra => untidy

VendorInv ==
    /\ VendorTypeOK
    /\ ~mixed => OnlyOne /\ InStep /\ Whole /\ Tidy /\ Archive

-----------------------------------------------------------------------------
LEMMA VendorStarts == VendorInit => VendorInv
  BY NoPinIsTorn DEF VendorInit, VendorInv, VendorTypeOK, OnlyOne, InStep, Whole,
       Tidy, Archive, Absent, Torn

LEMMA VendorSteps == VendorInv /\ [VendorNext]_vendorVars => VendorInv'
<1> SUFFICES ASSUME VendorInv, [VendorNext]_vendorVars PROVE VendorInv'
  OBVIOUS
<1> USE NoPinIsTorn DEF VendorInv, VendorTypeOK, OnlyOne, InStep, Whole, Tidy, Archive,
      Absent, Torn, Goto, packVars, updateVars
<1>1. ASSUME NEW u \in Updaters, NEW pin \in Pins, StageUpdate(u, pin)
      PROVE VendorInv'
  BY <1>1 DEF StageUpdate
<1>2. ASSUME NEW u \in Updaters, MoveAway(u) PROVE VendorInv'
  BY <1>2 DEF MoveAway
<1>3. ASSUME NEW u \in Updaters, Install(u) PROVE VendorInv'
  BY <1>3 DEF Install
<1>4. ASSUME NEW u \in Updaters, RollBack(u) PROVE VendorInv'
  BY <1>4 DEF RollBack, MustReturn
<1>5. ASSUME NEW u \in Updaters, RollBackFails(u) PROVE VendorInv'
  BY <1>5 DEF RollBackFails, MustReturn
<1>6. ASSUME NEW u \in Updaters, DropBackup(u) PROVE VendorInv'
  BY <1>6 DEF DropBackup
<1>7. ASSUME NEW u \in Updaters, DropFails(u) PROVE VendorInv'
  BY <1>7 DEF DropFails
<1>8. ASSUME NEW u \in Updaters, NothingToDrop(u) PROVE VendorInv'
  BY <1>8 DEF NothingToDrop
<1>9. ASSUME NEW u \in Updaters, Leave(u) PROVE VendorInv'
  BY <1>9 DEF Leave
<1>10. ASSUME NEW u \in Updaters, KillUpdate(u) PROVE VendorInv'
  BY <1>10 DEF KillUpdate
<1>11. CASE CollectPayload
  BY <1>11 DEF CollectPayload
<1>12. CASE PublishArchive
  BY <1>12 DEF PublishArchive
<1>13. CASE AbandonArchive
  BY <1>13 DEF AbandonArchive
<1>14. CASE UNCHANGED vendorVars
  BY <1>14 DEF vendorVars
<1> QED
  BY <1>1, <1>2, <1>3, <1>4, <1>5, <1>6, <1>7, <1>8, <1>9, <1>10, <1>11, <1>12, <1>13,
     <1>14 DEF VendorNext

THEOREM VendorInvariant == VendorSpec => []VendorInv
  BY VendorStarts, VendorSteps, PTL DEF VendorSpec

(* While programs follow one another, an archive that was published holds  *)
(* one whole snapshot, and nothing besides unless an update was killed or  *)
(* could not clear up.                                                     *)
THEOREM ArchiveIsWhole == VendorSpec => []PackagedIsWhole
<1>1. VendorInv => PackagedIsWhole
  BY DEF VendorInv, Archive, PackagedIsWhole
<1> QED
  BY <1>1, VendorInvariant, PTL

(* While programs follow one another, wherever an update fails or is       *)
(* killed the root or the backup is a whole snapshot.                      *)
THEOREM SnapshotSurvives == VendorSpec => VendorNeverLost
<1> DEFINE Kept == ~mixed' /\ (root \in Pins \/ backup \in Pins) =>
                        (root' \in Pins \/ backup' \in Pins) /\ root' # Torn
<1>1. VendorInv /\ VendorInv' /\ [VendorNext]_vendorVars => [Kept]_vendorVars
  <2> SUFFICES ASSUME VendorInv, VendorInv', VendorNext, ~mixed',
                      root \in Pins \/ backup \in Pins
               PROVE  (root' \in Pins \/ backup' \in Pins) /\ root' # Torn
    BY DEF vendorVars
  <2>1. ~mixed
    BY DEF VendorNext, VendorInv, VendorTypeOK, StageUpdate, MoveAway, Install, RollBack,
           RollBackFails, DropBackup, DropFails, NothingToDrop, Leave, KillUpdate,
           CollectPayload, PublishArchive, AbandonArchive, packVars, updateVars
  <2>2. Whole' /\ Whole /\ InStep
    BY <2>1 DEF VendorInv
  <2> USE <2>1, <2>2, NoPinIsTorn DEF Whole, InStep, Absent, Torn, packVars, updateVars
  <2>3. ASSUME NEW u \in Updaters, MoveAway(u) PROVE root' \in Pins \/ backup' \in Pins
    BY <2>3 DEF MoveAway
  <2>4. ASSUME NEW u \in Updaters, Install(u) PROVE root' \in Pins \/ backup' \in Pins
    BY <2>4 DEF Install
  <2>5. ASSUME NEW u \in Updaters, RollBack(u) PROVE root' \in Pins \/ backup' \in Pins
    BY <2>5 DEF RollBack, MustReturn
  <2>6. ASSUME NEW u \in Updaters, DropBackup(u) PROVE root' \in Pins \/ backup' \in Pins
    BY <2>6 DEF DropBackup
  <2>7. root' \in Pins \/ backup' \in Pins
    BY <2>3, <2>4, <2>5, <2>6 DEF VendorNext, StageUpdate, RollBackFails, DropFails,
       NothingToDrop, Leave, KillUpdate, CollectPayload, PublishArchive, AbandonArchive
  <2> QED
    BY <2>7
<1> QED
  BY <1>1, VendorInvariant, PTL DEF VendorSpec, VendorNeverLost

-----------------------------------------------------------------------------
(***************************************************************************)
(* Evaluation results and their promotion.                                 *)
(***************************************************************************)
Rank(r, g) == StatusRank[r.outcome[g]]

(* What every result that build_eval_result returns is.                    *)
IsResult(r) ==
    /\ r.case \in Cases
    /\ \A g \in HardGates(r.case) : Rank(r, g) \in 0..3
    /\ UnknownCount(r) \in Nat /\ Cardinality(r.failures) \in Nat
    /\ r.repairs \in Nat
    /\ r.tokens \in Nat \cup {Null} /\ r.time \in Nat \cup {Null}

LEMMA BuiltIsResult ==
    ASSUME NEW run \in Runs PROVE IsResult(BuildEvalResult(run))
<1> DEFINE r == BuildEvalResult(run)
           case == run.case
<1>1. /\ case \in Cases /\ run.repairs \in Nat
      /\ run.tokens \in Nat \cup {Null} /\ run.time \in Nat \cup {Null}
      /\ IsFiniteSet(run.signatures)
      /\ \A g \in DOMAIN run.seen : run.seen[g] \in {"PASS", "WARN", "UNKNOWN", "FAIL"}
  BY RunsAreRuns DEF Null
<1>2. /\ r.case = case /\ r.repairs = run.repairs /\ r.tokens = run.tokens /\ r.time = run.time
      /\ r.outcome = [g \in Gates(case) |->
                        IF g \in DOMAIN run.seen THEN run.seen[g] ELSE "UNKNOWN"]
      /\ r.failures = {<<g, r.outcome[g]>> :
                        g \in {h \in HardGates(case) : r.outcome[h] \in {"FAIL", "UNKNOWN"}}}
                     \cup run.signatures
  BY DEF BuildEvalResult
<1> HIDE DEF r
<1>3. HardGates(case) \subseteq Gates(case)
  BY <1>1, CasesAreCases DEF HardGates, Gates
<1>4. IsFiniteSet(HardGates(case))
  <2>1. IsFiniteSet(case.proof) /\ IsFiniteSet(case.required)
    BY <1>1, CasesAreCases, FS_Subset
  <2> QED
    BY <2>1, FS_Union DEF HardGates
<1>5. \A g \in HardGates(case) : Rank(r, g) \in 0..3
  BY <1>1, <1>2, <1>3 DEF Rank, StatusRank
<1>6. UnknownCount(r) \in Nat
  <2>1. IsFiniteSet({g \in HardGates(case) : r.outcome[g] = "UNKNOWN"})
    BY <1>4, FS_Subset
  <2> QED
    BY <1>2, <2>1, FS_CardinalityType DEF UnknownCount
<1>7. Cardinality(r.failures) \in Nat
  <2> DEFINE Open == {h \in HardGates(case) : r.outcome[h] \in {"FAIL", "UNKNOWN"}}
  <2>1. IsFiniteSet(Open)
    BY <1>4, FS_Subset
  <2>2. IsFiniteSet({<<g, r.outcome[g]>> : g \in Open})
    <3> DEFINE f == [g \in Open |-> <<g, r.outcome[g]>>]
    <3>1. {f[g] : g \in Open} = {<<g, r.outcome[g]>> : g \in Open}
      OBVIOUS
    <3>2. f \in Surjection(Open, {f[g] : g \in Open})
      BY DEF Surjection
    <3>3. IsFiniteSet({f[g] : g \in Open})
      BY <2>1, <3>2, FS_Surjection
    <3> QED
      BY <3>1, <3>3
  <2> DEFINE Named == {<<g, r.outcome[g]>> : g \in Open}
  <2>3. r.failures = Named \cup run.signatures
    BY <1>2
  <2> HIDE DEF Named
  <2>4. IsFiniteSet(Named \cup run.signatures)
    BY <1>1, <2>2, FS_Union DEF Named
  <2> QED
    BY <2>3, <2>4, FS_CardinalityType
<1> QED
  BY <1>1, <1>2, <1>5, <1>6, <1>7 DEF IsResult, r

-----------------------------------------------------------------------------
(* The order behind the verdict.                                           *)
HardAtLeast(old, new) ==
    \A g \in HardGates(old.case) : Rank(new, g) >= Rank(old, g)
HardMore(old, new) == \E g \in HardGates(old.case) : Rank(new, g) > Rank(old, g)

StabilityAtLeast(old, new) ==
    /\ UnknownCount(new) <= UnknownCount(old)
    /\ new.repairs <= old.repairs
    /\ Cardinality(new.failures) <= Cardinality(old.failures)
StabilityMore(old, new) ==
    /\ StabilityAtLeast(old, new)
    /\ \/ UnknownCount(new) < UnknownCount(old)
       \/ new.repairs < old.repairs
       \/ Cardinality(new.failures) < Cardinality(old.failures)

EfficiencyMore(old, new) ==
    /\ new.tokens <= old.tokens /\ new.time <= old.time
    /\ new.tokens < old.tokens \/ new.time < old.time

Measured(r) == r.tokens # Null /\ r.time # Null

Preferred(old, new) ==
    /\ old.case = new.case /\ HardAtLeast(old, new)
    /\ \/ HardMore(old, new)
       \/ StabilityMore(old, new)
       \/ StabilityAtLeast(old, new) /\ EfficiencyMore(old, new)

(* No verdict but REJECT when a hard gate falls.                           *)
LEMMA PromotedKeepsGates ==
    ASSUME NEW old, NEW new, IsResult(old), IsResult(new),
           Verdict(old, new) = "PROMOTE_CANDIDATE"
    PROVE  old.case = new.case /\ HardAtLeast(old, new)
<1>1. old.case = new.case /\ ~Worsens(HardDelta(old, new))
  BY DEF Verdict
<1>2. \A g \in HardGates(old.case) : Rank(new, g) - Rank(old, g) \in HardDelta(old, new)
  BY DEF HardDelta, Rank
<1> QED
  BY <1>1, <1>2 DEF Worsens, HardAtLeast, IsResult

(* With everything measured the verdict is the order.                      *)
LEMMA VerdictIsPreference ==
    ASSUME NEW old, NEW new, IsResult(old), IsResult(new), Measured(old), Measured(new),
           Verdict(old, new) = "PROMOTE_CANDIDATE"
    PROVE  Preferred(old, new)
<1>1. old.case = new.case /\ HardAtLeast(old, new)
  BY PromotedKeepsGates
<1>2. Improves(HardDelta(old, new)) => HardMore(old, new)
  <2> SUFFICES ASSUME Improves(HardDelta(old, new)) PROVE HardMore(old, new)
    OBVIOUS
  <2>1. PICK g \in HardGates(old.case) : Rank(new, g) - Rank(old, g) > 0
    BY DEF Improves, HardDelta, Rank
  <2> QED
    BY <1>1, <2>1 DEF HardMore, IsResult
<1> DEFINE u == LowerIsBetter(UnknownCount(old), UnknownCount(new))
           p == LowerIsBetter(old.repairs, new.repairs)
           f == LowerIsBetter(Cardinality(old.failures), Cardinality(new.failures))
           t == LowerIsBetter(old.tokens, new.tokens)
           w == LowerIsBetter(old.time, new.time)
<1>3. ASSUME NEW a \in Nat, NEW b \in Nat
      PROVE  /\ LowerIsBetter(a, b) >= 0 <=> b <= a
             /\ LowerIsBetter(a, b) > 0 <=> b < a
             /\ LowerIsBetter(a, b) \in Int
  BY DEF LowerIsBetter, Null
<1>4. /\ u >= 0 <=> UnknownCount(new) <= UnknownCount(old)
      /\ u > 0 <=> UnknownCount(new) < UnknownCount(old)
      /\ p >= 0 <=> new.repairs <= old.repairs
      /\ p > 0 <=> new.repairs < old.repairs
      /\ f >= 0 <=> Cardinality(new.failures) <= Cardinality(old.failures)
      /\ f > 0 <=> Cardinality(new.failures) < Cardinality(old.failures)
      /\ t >= 0 <=> new.tokens <= old.tokens
      /\ t > 0 <=> new.tokens < old.tokens
      /\ w >= 0 <=> new.time <= old.time
      /\ w > 0 <=> new.time < old.time
      /\ u \in Int /\ p \in Int /\ f \in Int /\ t \in Int /\ w \in Int
  BY <1>3 DEF IsResult, Measured
<1>5. StabilityDelta(old, new) = {u, p, f} /\ EfficiencyDelta(old, new) = {t, w}
  BY DEF StabilityDelta, EfficiencyDelta
<1> HIDE DEF u, p, f, t, w
<1>6. Improves(StabilityDelta(old, new)) => StabilityMore(old, new)
  BY <1>4, <1>5 DEF Improves, StabilityMore, StabilityAtLeast
<1>7. ~Worsens(StabilityDelta(old, new)) => StabilityAtLeast(old, new)
  BY <1>4, <1>5 DEF Worsens, StabilityAtLeast
<1>8. Improves(EfficiencyDelta(old, new)) => EfficiencyMore(old, new)
  BY <1>4, <1>5 DEF Improves, EfficiencyMore
<1> QED
  BY <1>1, <1>2, <1>6, <1>7, <1>8 DEF Verdict, Preferred

LEMMA PreferenceIsTransitive ==
    ASSUME NEW a, NEW b, NEW c, IsResult(a), IsResult(b), IsResult(c),
           Measured(a), Measured(b), Measured(c), Preferred(a, b), Preferred(b, c)
    PROVE  Preferred(a, c)
<1>1. a.case = c.case /\ HardAtLeast(a, c)
  BY DEF Preferred, HardAtLeast, IsResult
<1>2. HardMore(a, b) \/ HardMore(b, c) => HardMore(a, c)
  BY DEF Preferred, HardAtLeast, HardMore, IsResult
<1>3. StabilityAtLeast(a, b) /\ StabilityAtLeast(b, c) =>
        /\ StabilityAtLeast(a, c)
        /\ StabilityMore(a, b) \/ StabilityMore(b, c) => StabilityMore(a, c)
  BY DEF StabilityAtLeast, StabilityMore, IsResult
<1>4. EfficiencyMore(a, b) /\ EfficiencyMore(b, c) => EfficiencyMore(a, c)
  BY DEF EfficiencyMore, IsResult, Measured
<1> QED
  BY <1>1, <1>2, <1>3, <1>4 DEF Preferred, StabilityMore

LEMMA PreferenceIsStrict ==
    ASSUME NEW a, NEW b, IsResult(a), IsResult(b), Measured(a), Measured(b),
           Preferred(a, b)
    PROVE  ~Preferred(b, a)
<1>1. HardAtLeast(b, a) => ~HardMore(a, b)
  BY DEF Preferred, HardAtLeast, HardMore, IsResult
<1>2. ~HardMore(b, a)
  BY DEF Preferred, HardAtLeast, HardMore, IsResult
<1>3. StabilityAtLeast(b, a) => ~StabilityMore(a, b)
  BY DEF StabilityAtLeast, StabilityMore, IsResult
<1>4. StabilityAtLeast(a, b) => ~StabilityMore(b, a)
  BY DEF StabilityAtLeast, StabilityMore, IsResult
<1>5. EfficiencyMore(a, b) => ~EfficiencyMore(b, a)
  BY DEF EfficiencyMore, IsResult, Measured
<1> QED
  BY <1>1, <1>2, <1>3, <1>4, <1>5 DEF Preferred, StabilityMore

-----------------------------------------------------------------------------
Champions == past \cup {champion}

EvalInv ==
    /\ \A r \in Champions : IsResult(r)
    /\ \A old \in past : old.case = champion.case /\ HardAtLeast(old, champion)
    /\ (\A r \in Champions : Measured(r)) => \A old \in past : Preferred(old, champion)

LEMMA EvalStarts == EvalInit => EvalInv
  BY BuiltIsResult DEF EvalInit, EvalInv, Champions

LEMMA EvalSteps == EvalInv /\ [EvalNext]_evalVars => EvalInv'
<1> SUFFICES ASSUME EvalInv, [EvalNext]_evalVars PROVE EvalInv'
  OBVIOUS
<1>1. CASE UNCHANGED evalVars
  BY <1>1 DEF evalVars, EvalInv, Champions, Preferred, HardAtLeast, HardMore, Rank,
              StabilityMore, StabilityAtLeast, EfficiencyMore, Measured, IsResult
<1>2. ASSUME NEW run \in Runs, Promote(run) PROVE EvalInv'
  <2>1. /\ champion' = BuildEvalResult(run) /\ past' = Champions
        /\ Verdict(champion, champion') = "PROMOTE_CANDIDATE"
    BY <1>2 DEF Promote, Champions
  <2> DEFINE new == champion'
  <2>2. IsResult(new)
    BY <2>1, BuiltIsResult
  <2>3. champion.case = new.case /\ HardAtLeast(champion, new)
    BY <2>1, <2>2, PromotedKeepsGates DEF EvalInv, Champions
  <2> HIDE DEF new
  <2>4. \A r \in Champions' : IsResult(r)
    BY <2>1, <2>2 DEF EvalInv, Champions, new
  <2>5. \A old \in past' : old.case = new.case /\ HardAtLeast(old, new)
    BY <2>1, <2>2, <2>3 DEF EvalInv, Champions, HardAtLeast, IsResult
  <2>6. (\A r \in Champions' : Measured(r)) => \A old \in past' : Preferred(old, new)
    <3> SUFFICES ASSUME \A r \in Champions' : Measured(r), NEW old \in past'
                 PROVE  Preferred(old, new)
      OBVIOUS
    <3>1. Champions' = Champions \cup {new}
      BY <2>1 DEF Champions, new
    <3>2. Measured(new) /\ Measured(champion) /\ Measured(old) /\ old \in Champions
      BY <2>1, <3>1 DEF Champions
    <3>3. Preferred(champion, new)
      BY <2>1, <2>2, <3>2, VerdictIsPreference DEF EvalInv, Champions, new
    <3>4. CASE old = champion
      BY <3>3, <3>4
    <3>5. CASE old \in past
      <4>1. Preferred(old, champion)
        BY <3>1, <3>5 DEF EvalInv
      <4> QED
        BY <2>2, <3>2, <3>3, <4>1, PreferenceIsTransitive DEF EvalInv, Champions
    <3> QED
      BY <3>2, <3>4, <3>5 DEF Champions
  <2> QED
    BY <2>4, <2>5, <2>6 DEF EvalInv, new
<1> QED
  BY <1>1, <1>2 DEF EvalNext

THEOREM EvalInvariant == EvalSpec => []EvalInv
  BY EvalStarts, EvalSteps, PTL DEF EvalSpec

(* Over any number of promotions, with whatever measures missing, no hard  *)
(* gate is ever in a worse status than under an earlier champion.          *)
THEOREM GatesAreKept == EvalSpec => []GatesNeverFall
<1>1. EvalInv => GatesNeverFall
  BY DEF EvalInv, HardAtLeast, Rank, GatesNeverFall, Champions, IsResult
<1> QED
  BY <1>1, EvalInvariant, PTL

(* When everything is measured the comparison has no cycle: an earlier     *)
(* champion is never a candidate against a later one.                      *)
THEOREM ComparisonHasNoCycle == EvalSpec => []NoComeback
<1>1. EvalInv => NoComeback
  <2> SUFFICES ASSUME EvalInv, \A r \in Champions : Measured(r), NEW old \in past,
                      Verdict(champion, old) = "PROMOTE_CANDIDATE"
               PROVE  FALSE
    BY DEF NoComeback, Champions, Measured
  <2>1. /\ IsResult(old) /\ IsResult(champion) /\ Measured(old) /\ Measured(champion)
        /\ Preferred(old, champion)
    BY DEF EvalInv, Champions
  <2>2. Preferred(champion, old)
    BY <2>1, VerdictIsPreference
  <2> QED
    BY <2>1, <2>2, PreferenceIsStrict
<1> QED
  BY <1>1, EvalInvariant, PTL

-----------------------------------------------------------------------------
(* The status of a built result.                                           *)
LEMMA BuiltIsHonest ==
    ASSUME NEW run \in Runs, NEW r, r = BuildEvalResult(run)
    PROVE  /\ r.status = "PASS" <=> \A g \in Gates(r.case) : r.outcome[g] = "PASS"
           /\ r.status = "PASS" /\ r.case.proof # {} => r.proof_status = "PROVEN"
           /\ r.status = AggregateStatus({[required |-> g \in HardGates(r.case),
                                           status |-> r.outcome[g]] :
                                              g \in Gates(r.case)}, {})
<1> DEFINE checks == {[required |-> g \in HardGates(r.case), status |-> r.outcome[g]] :
                          g \in Gates(r.case)}
<1>1. /\ r.status = RequiredStatus(checks)
      /\ r.proof_status = ProofStatus({r.outcome[g] : g \in r.case.proof})
      /\ r.outcome = [g \in Gates(r.case) |->
                        IF g \in DOMAIN run.seen THEN run.seen[g] ELSE "UNKNOWN"]
  BY DEF BuildEvalResult
<1>2. \A g \in Gates(r.case) : r.outcome[g] \in {"PASS", "WARN", "UNKNOWN", "FAIL"}
  BY <1>1, RunsAreRuns
<1>3. \A c \in checks : c.status \in {"PASS", "WARN", "UNKNOWN", "FAIL"}
  BY <1>2
<1>4. \A g \in Gates(r.case) :
        \E c \in checks : c.status = r.outcome[g] /\ (c.required <=> g \in HardGates(r.case))
  <2> TAKE g \in Gates(r.case)
  <2> WITNESS [required |-> g \in HardGates(r.case), status |-> r.outcome[g]] \in checks
  <2> QED
    OBVIOUS
<1>5. \A c \in checks : \E g \in Gates(r.case) : c.status = r.outcome[g]
  OBVIOUS
<1> HIDE DEF checks
<1>6. RequiredStatus(checks) = AggregateStatus(checks, {})
  BY <1>3 DEF RequiredStatus, AggregateStatus
<1>7. RequiredStatus(checks) = "PASS" <=> \A c \in checks : c.status = "PASS"
  BY <1>3 DEF RequiredStatus
<1>8. r.status = "PASS" <=> \A g \in Gates(r.case) : r.outcome[g] = "PASS"
  BY <1>1, <1>4, <1>5, <1>7
<1>9. ASSUME r.status = "PASS", r.case.proof # {} PROVE r.proof_status = "PROVEN"
  <2>1. {r.outcome[g] : g \in r.case.proof} = {"PASS"}
    BY <1>8, <1>9 DEF Gates
  <2> QED
    BY <1>1, <2>1 DEF ProofStatus
<1> QED
  BY <1>1, <1>6, <1>8, <1>9 DEF checks

(* A champion that says PASS was observed to pass at every gate, and the   *)
(* two status contracts agree about it.                                    *)
THEOREM PassIsWhatWasSeen == EvalSpec => []PassIsObserved
<1> DEFINE Built == \E run \in Runs : champion = BuildEvalResult(run)
<1>1. EvalInit => Built
  BY DEF EvalInit
<1>2. Built /\ [EvalNext]_evalVars => Built'
  BY DEF EvalNext, Promote, evalVars
<1>3. Built => PassIsObserved
  BY BuiltIsHonest DEF PassIsObserved
<1> QED
  BY <1>1, <1>2, <1>3, PTL DEF EvalSpec
=============================================================================
