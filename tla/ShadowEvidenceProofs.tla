------------------------ MODULE ShadowEvidenceProofs ------------------------
(***************************************************************************)
(* Proofs about ShadowEvidence, for any commands, receipts, shadows and    *)
(* outcomes: what holds of the ledger whatever commands overlap, and what  *)
(* holds while they follow one another; then about StrategyShadow, for any *)
(* registries, facts, qualifications and requests: what the capability     *)
(* snapshot has to do with the outcomes that end up in the ledger.         *)
(***************************************************************************)
EXTENDS StrategyShadow, TLAPS

(* An event append_event may be given: an outcome fits the shadow in it.   *)
Sound(e) ==
    /\ e.type \in {"SHADOW_CAPTURED", "OUTCOME_JOINED"}
    /\ e.receipt \in Receipts
    /\ e.type = "OUTCOME_JOINED" => Fits(e.route, e.strategy, e.candidate, e.shadow)

Unique(events) ==
    \A e, f \in events : e.type = f.type /\ e.receipt = f.receipt => e = f

Captured(e, events) ==
    \E k \in events : /\ k.type = "SHADOW_CAPTURED"
                      /\ k.receipt = e.receipt /\ k.shadow = e.shadow

(* What no interleaving breaks: of the file, and of every reading of it.   *)
SoundFiles ==
    /\ \A e \in ledger : Sound(e)
    /\ Unique(ledger)
    /\ \A c \in Commands : Unique(seen[c]) /\ \A e \in seen[c] : Sound(e)
    /\ \A c \in Commands : step[c] # "idle" => Sound(event[c])

(* What holds while commands follow one another.                           *)
OneCommand == \A c, d \in Commands : step[c] # "idle" /\ step[d] # "idle" => c = d
FreshReading == \A c \in Commands : step[c] = "append" => seen[c] = ledger
CapturedFirst ==
    \A c \in Commands : step[c] # "idle" /\ event[c].type = "OUTCOME_JOINED" =>
        Captured(event[c], ledger)
NoOrphan == \A e \in ledger : e.type = "OUTCOME_JOINED" => Captured(e, ledger)

LedgerInv ==
    /\ step \in [Commands -> {"idle", "load", "append"}]
    /\ event \in [Commands -> {event[c] : c \in Commands}]
    /\ seen \in [Commands -> {seen[c] : c \in Commands}]
    /\ overlapped \in BOOLEAN
    /\ SoundFiles
    /\ Undisturbed => /\ OneCommand /\ FreshReading /\ CapturedFirst /\ NoOrphan
                      /\ answered \subseteq ledger

-----------------------------------------------------------------------------
LEMMA LedgerStarts == LedgerInit => LedgerInv
  BY DEF LedgerInit, LedgerInv, SoundFiles, Unique, Undisturbed, OneCommand,
         FreshReading, CapturedFirst, NoOrphan

(* The events that capture and join build are sound.                       *)
LEMMA CaptureIsSound ==
    ASSUME NEW r \in Receipts, NEW s PROVE Sound(Capture(r, s))
  BY DEF Sound, Capture

LEMMA JoinedIsSound ==
    ASSUME NEW r \in Receipts, NEW s, NEW route, NEW strategy, NEW candidate, NEW o,
           Fits(route, strategy, candidate, s)
    PROVE  Sound(Joined(r, s, route, strategy, candidate, o))
  BY DEF Sound, Joined

LEMMA CaptureStep ==
    ASSUME LedgerInv, NEW c \in Commands, NEW r \in Receipts, NEW s,
           StartCapture(c, r, s)
    PROVE  LedgerInv'
<1>1. Sound(Capture(r, s)) /\ Capture(r, s).type = "SHADOW_CAPTURED"
  BY CaptureIsSound DEF Capture
<1>2. SoundFiles'
  BY <1>1 DEF LedgerInv, SoundFiles, StartCapture
<1>3. Undisturbed' => Undisturbed /\ \A d \in Commands \ {c} : step[d] = "idle"
  BY DEF LedgerInv, StartCapture, Overlap, Undisturbed
<1>4. Undisturbed' => (OneCommand /\ FreshReading)'
  BY <1>3 DEF LedgerInv, StartCapture, OneCommand, FreshReading
<1>5. Undisturbed' => (CapturedFirst /\ NoOrphan)'
  BY <1>1, <1>3 DEF LedgerInv, StartCapture, CapturedFirst, NoOrphan, Captured
<1> QED
  BY <1>2, <1>3, <1>4, <1>5 DEF LedgerInv, StartCapture, Overlap

LEMMA JoinStep ==
    ASSUME LedgerInv, NEW c \in Commands, NEW r \in Receipts, NEW route, NEW strategy,
           NEW candidate, NEW o, StartJoin(c, r, route, strategy, candidate, o)
    PROVE  LedgerInv'
<1>1. PICK k \in Captures(ledger, r) :
        /\ Fits(route, strategy, candidate, k.shadow)
        /\ event' = [event EXCEPT ![c] =
                        Joined(r, k.shadow, route, strategy, candidate, o)]
  BY DEF StartJoin
<1> DEFINE e == Joined(r, k.shadow, route, strategy, candidate, o)
<1>2. Sound(e)
  BY <1>1, JoinedIsSound
<1>3. Captured(e, ledger)
  BY <1>1 DEF Captured, Captures, Joined
<1> HIDE DEF e
<1>4. event' = [event EXCEPT ![c] = e]
  BY <1>1 DEF e
<1>5. SoundFiles'
  BY <1>2, <1>4 DEF LedgerInv, SoundFiles, StartJoin
<1>6. Undisturbed' => Undisturbed /\ \A d \in Commands \ {c} : step[d] = "idle"
  BY DEF LedgerInv, StartJoin, Overlap, Undisturbed
<1>7. Undisturbed' => (OneCommand /\ FreshReading)'
  BY <1>6 DEF LedgerInv, StartJoin, OneCommand, FreshReading
<1>8. Undisturbed' => (CapturedFirst /\ NoOrphan)'
  <2> SUFFICES ASSUME Undisturbed' PROVE (CapturedFirst /\ NoOrphan)'
    OBVIOUS
  <2>1. \A d \in Commands : step'[d] # "idle" => d = c
    BY <1>6 DEF LedgerInv, StartJoin
  <2>2. event'[c] = e /\ ledger' = ledger
    BY <1>4 DEF LedgerInv, StartJoin
  <2> QED
    BY <1>3, <1>6, <2>1, <2>2 DEF LedgerInv, CapturedFirst, NoOrphan, Captured
<1> QED
  BY <1>4, <1>5, <1>6, <1>7, <1>8 DEF LedgerInv, StartJoin, Overlap

LEMMA LoadStep ==
    ASSUME LedgerInv, NEW c \in Commands, LoadAgain(c) PROVE LedgerInv'
<1>1. SoundFiles'
  BY DEF LedgerInv, LoadAgain, SoundFiles
<1>2. Undisturbed' => (OneCommand /\ FreshReading /\ CapturedFirst /\ NoOrphan)'
  BY DEF LedgerInv, LoadAgain, Undisturbed, OneCommand, FreshReading, CapturedFirst,
         NoOrphan, Captured
<1> QED
  BY <1>1, <1>2 DEF LedgerInv, LoadAgain, Undisturbed

(* What is left when a command ends and the file is as it was.             *)
LEMMA LeaveStep ==
    ASSUME LedgerInv, NEW c \in Commands, step[c] # "idle", Leave(c), UNCHANGED ledger,
           answered' \subseteq answered \cup ledger
    PROVE  LedgerInv'
<1>1. SoundFiles'
  BY DEF LedgerInv, Leave, SoundFiles, Unique
<1>2. Undisturbed' => (OneCommand /\ FreshReading /\ CapturedFirst /\ NoOrphan)'
  BY DEF LedgerInv, Leave, Undisturbed, OneCommand, FreshReading, CapturedFirst,
         NoOrphan, Captured
<1> QED
  BY <1>1, <1>2 DEF LedgerInv, Leave, Undisturbed

(* The replacement of the file.                                            *)
LEMMA AppendStep ==
    ASSUME LedgerInv, NEW c \in Commands, AppendEvent(c) PROVE LedgerInv'
<1>1. Sound(event[c])
  BY DEF LedgerInv, SoundFiles, AppendEvent
<1>2. ledger' = seen[c] \cup {event[c]}
  BY DEF AppendEvent
<1>3. (\A e \in ledger : Sound(e))' /\ Unique(ledger)'
  BY <1>1, <1>2 DEF LedgerInv, SoundFiles, AppendEvent, Unique, SameId
<1>4. SoundFiles'
  BY <1>3 DEF LedgerInv, SoundFiles, AppendEvent, Leave, Unique
<1>5. ASSUME Undisturbed' PROVE Undisturbed /\ ledger' = ledger \cup {event[c]}
  BY <1>2, <1>5 DEF LedgerInv, AppendEvent, Leave, Undisturbed, FreshReading
<1>6. Undisturbed' => (OneCommand /\ FreshReading /\ CapturedFirst)'
  BY <1>5 DEF LedgerInv, AppendEvent, Leave, OneCommand, FreshReading, CapturedFirst
<1>7. Undisturbed' => NoOrphan'
  BY <1>5 DEF LedgerInv, AppendEvent, NoOrphan, CapturedFirst, Captured
<1>8. Undisturbed' => (answered \subseteq ledger)'
  BY <1>5 DEF LedgerInv, AppendEvent
<1> QED
  BY <1>4, <1>6, <1>7, <1>8 DEF LedgerInv, AppendEvent, Leave

LEMMA LedgerSteps == LedgerInv /\ [LedgerNext]_ledgerVars => LedgerInv'
<1> SUFFICES ASSUME LedgerInv, [LedgerNext]_ledgerVars PROVE LedgerInv'
  OBVIOUS
<1>1. CASE UNCHANGED ledgerVars
  BY <1>1 DEF ledgerVars, LedgerInv, SoundFiles, Unique, Undisturbed, OneCommand,
              FreshReading, CapturedFirst, NoOrphan, Captured
<1>2. ASSUME NEW c \in Commands, JoinSome(c) PROVE LedgerInv'
  BY <1>2, JoinStep DEF JoinSome
<1>3. ASSUME NEW c \in Commands, Continue(c) PROVE LedgerInv'
  <2>1. CASE LoadAgain(c)
    BY <2>1, LoadStep
  <2>2. CASE AppendEvent(c)
    BY <2>2, AppendStep
  <2>3. CASE AppendUnchanged(c)
    <3>1. answered' \subseteq answered \cup seen[c] /\ step[c] = "append"
      BY <2>3 DEF AppendUnchanged, SameId
    <3>2. SoundFiles' /\ ledger' = ledger
      BY <2>3 DEF AppendUnchanged, Leave, LedgerInv, SoundFiles, Unique
    <3>3. Undisturbed' => answered' \subseteq answered \cup ledger
      BY <2>3, <3>1 DEF AppendUnchanged, Leave, LedgerInv, Undisturbed, FreshReading
    <3>4. Undisturbed' => (OneCommand /\ FreshReading /\ CapturedFirst /\ NoOrphan)'
      BY <2>3 DEF AppendUnchanged, LedgerInv, Leave, Undisturbed, OneCommand,
                  FreshReading, CapturedFirst, NoOrphan, Captured
    <3> QED
      BY <2>3, <3>2, <3>3, <3>4 DEF LedgerInv, AppendUnchanged, Leave, Undisturbed
  <2>4. CASE AppendRefused(c)
    BY <2>4, LeaveStep DEF AppendRefused
  <2>5. CASE Killed(c)
    BY <2>5, LeaveStep DEF Killed
  <2> QED
    BY <1>3, <2>1, <2>2, <2>3, <2>4, <2>5 DEF Continue
<1> QED
  BY <1>1, <1>2, <1>3, CaptureStep DEF LedgerNext

(* The inductive invariant of the ledger.                                  *)
THEOREM LedgerInvariant == LedgerSpec => []LedgerInv
  BY LedgerStarts, LedgerSteps, PTL DEF LedgerSpec

-----------------------------------------------------------------------------
(* The parts of LedgerTypeOK are parts of the inductive invariant.         *)
THEOREM LedgerIsTyped == LedgerSpec => []LedgerTypeOK
<1>1. LedgerInv => LedgerTypeOK
  BY DEF LedgerInv, SoundFiles, Sound, LedgerTypeOK
<1> QED
  BY <1>1, LedgerInvariant, PTL

(* No interleaving of capture and join commands, each reading the whole    *)
(* file and replacing it, puts two captures or two outcomes of one receipt *)
(* into the ledger.                                                        *)
THEOREM IdsAreUnique == LedgerSpec => []OneEventPerId
<1>1. LedgerInv => OneEventPerId
  BY DEF LedgerInv, SoundFiles, Unique, OneEventPerId
<1> QED
  BY <1>1, LedgerInvariant, PTL

(* No interleaving joins an outcome to a candidate that was blocked, or to *)
(* another strategy's.                                                     *)
THEOREM OutcomesAreBound == LedgerSpec => []JoinsAreBound
<1>1. LedgerInv => JoinsAreBound
  BY DEF LedgerInv, SoundFiles, Sound, Fits, JoinsAreBound
<1> QED
  BY <1>1, LedgerInvariant, PTL

(* A ledger that satisfies the invariant can be materialized.              *)
LEMMA InvMaterializes == LedgerInv => LedgerMaterializes
<1> SUFFICES ASSUME LedgerInv, Undisturbed, NEW e \in ledger
             PROVE  /\ \E k \in Captures(ledger, e.receipt) :
                          Captures(ledger, e.receipt) = {k}
                    /\ \A j \in Joins(ledger, e.receipt) :
                          /\ Joins(ledger, e.receipt) = {j}
                          /\ \A k \in Captures(ledger, e.receipt) :
                              /\ j.shadow = k.shadow
                              /\ Fits(j.route, j.strategy, j.candidate, k.shadow)
  BY DEF LedgerMaterializes, Materializes
<1>1. PICK k \in ledger : k.type = "SHADOW_CAPTURED" /\ k.receipt = e.receipt
  BY DEF LedgerInv, SoundFiles, Sound, NoOrphan, Captured
<1>2. Captures(ledger, e.receipt) = {k}
  BY <1>1 DEF Captures, LedgerInv, SoundFiles, Unique
<1>3. ASSUME NEW j \in Joins(ledger, e.receipt)
      PROVE  /\ Joins(ledger, e.receipt) = {j}
             /\ j.shadow = k.shadow
             /\ Fits(j.route, j.strategy, j.candidate, k.shadow)
  <2>1. j \in ledger /\ j.type = "OUTCOME_JOINED" /\ j.receipt = e.receipt
    BY DEF Joins
  <2>2. Joins(ledger, e.receipt) = {j}
    BY <2>1 DEF Joins, LedgerInv, SoundFiles, Unique
  <2>3. j.shadow = k.shadow
    BY <1>1, <2>1 DEF LedgerInv, NoOrphan, Captured, SoundFiles, Unique
  <2> QED
    BY <2>1, <2>2, <2>3 DEF LedgerInv, SoundFiles, Sound
<1> QED
  BY <1>2, <1>3

(* While commands follow one another, killed or not, every receipt of the  *)
(* ledger can be materialized.                                             *)
THEOREM SequentialMaterializes == LedgerSpec => []LedgerMaterializes
  BY InvMaterializes, LedgerInvariant, PTL

(* While commands follow one another, what a command reported as recorded  *)
(* is in the ledger from then on.                                          *)
THEOREM SequentialKeeps == LedgerSpec => []AnsweredIsKept
<1>1. LedgerInv => AnsweredIsKept
  BY DEF LedgerInv, AnsweredIsKept
<1> QED
  BY <1>1, LedgerInvariant, PTL

-----------------------------------------------------------------------------
(***************************************************************************)
(* From the snapshot to the ledger.                                        *)
(***************************************************************************)
(* The snapshot is of a valid registry and of a world that has been.       *)
Taken(snap) ==
    \E v \in DOMAIN Registries : \E world \in SUBSET Facts, probing \in BOOLEAN,
            broken \in Faults(v) :
        /\ RegistryOK(Registries[v])
        /\ snap = BuildSnapshot(v, Registries[v], Qualifications, world, broken, probing)

(* The comparison is of a request, with such a snapshot of that world.     *)
Compared(s, world) ==
    \E q \in Requests, v \in DOMAIN Registries : \E probing \in BOOLEAN, broken \in Faults(v) :
        /\ RegistryOK(Registries[v]) /\ world \in SUBSET Facts
        /\ s = CompareShadow(q.intent, q.authority, Registries[v],
                    BuildSnapshot(v, Registries[v], Qualifications, world, broken, probing))

Founded(s) == \E world \in SUBSET Facts : Compared(s, world)

(* Whatever a file or a command holds comes from a comparison.             *)
ShadowInv ==
    /\ version \in DOMAIN Registries
    /\ snapshot = NoSnapshot \/ Taken(snapshot)
    /\ file = NoFile \/ Compared(file.shadow, file.seen)
    /\ \A e \in ledger : Founded(e.shadow)
    /\ \A c \in Commands : \A e \in seen[c] : Founded(e.shadow)
    /\ \A c \in Commands : step[c] # "idle" => Founded(event[c].shadow)

LEMMA ShadowStarts == Init => LedgerInv /\ ShadowInv
  BY LedgerStarts DEF Init, LedgerInit, ShadowInv

(* Each command of the pipeline is a step of the ledger or leaves it alone. *)
LEMMA ShadowStepsLedger == LedgerInv /\ [Next]_shadowVars => LedgerInv'
<1> SUFFICES ASSUME LedgerInv, [Next]_shadowVars PROVE LedgerInv'
  OBVIOUS
<1>1. CASE UNCHANGED ledgerVars
  BY <1>1, LedgerSteps
<1>2. ASSUME NEW c \in Commands, NEW r \in Receipts, CaptureFile(c, r) PROVE LedgerInv'
  BY <1>2, CaptureStep DEF CaptureFile
<1>3. ASSUME NEW c \in Commands, JoinOutcome(c) \/ GoOn(c) PROVE LedgerInv'
  BY <1>3, LedgerSteps DEF JoinOutcome, GoOn, LedgerNext
<1> QED
  BY <1>1, <1>2, <1>3 DEF Next, shadowVars, RegistryEdited, TakeSnapshot, WriteComparison

(* What a comparison is made of: the snapshot that was taken.              *)
LEMMA ComparisonIsFounded ==
    ASSUME ShadowInv, NEW q \in Requests, WriteComparison(q.intent, q.authority)
    PROVE  Compared(file'.shadow, file'.seen)
<1>1. PICK v \in DOMAIN Registries, world \in SUBSET Facts, probing \in BOOLEAN :
        \E broken \in Faults(v) :
            /\ RegistryOK(Registries[v])
            /\ snapshot = BuildSnapshot(v, Registries[v], Qualifications, world, broken,
                                        probing)
  BY DEF ShadowInv, Taken, WriteComparison
<1>2. snapshot.registry = v /\ snapshot.seen = world
  BY <1>1 DEF BuildSnapshot
<1>3. version = v
  BY <1>2 DEF WriteComparison, ResolverAccepts
<1>4. /\ file'.shadow = CompareShadow(q.intent, q.authority, Registries[v], snapshot)
      /\ file'.seen = world
  BY <1>2, <1>3 DEF WriteComparison
<1> QED
  BY <1>1, <1>4 DEF Compared

(* Founded speaks of nothing that changes.                                 *)
LEMMA FoundedFiles ==
    ASSUME LedgerInv,
           /\ version' \in DOMAIN Registries
           /\ (snapshot = NoSnapshot \/ Taken(snapshot))'
           /\ (file = NoFile \/ Compared(file.shadow, file.seen))',
           \A e \in ledger' : Founded(e.shadow),
           \A c \in Commands : \A e \in seen'[c] : Founded(e.shadow),
           \A c \in Commands : step'[c] # "idle" => Founded(event'[c].shadow)
    PROVE  ShadowInv'
  BY DEF ShadowInv

(* A command keeps to the comparisons in the files it read.                *)
LEMMA CommandIsFounded ==
    ASSUME LedgerInv, ShadowInv, NEW c \in Commands,
           \/ \E r \in Receipts : CaptureFile(c, r)
           \/ JoinOutcome(c) \/ GoOn(c)
    PROVE  ShadowInv'
<1>1. UNCHANGED <<version, snapshot, file>>
  BY DEF CaptureFile, JoinOutcome, GoOn
<1>2. /\ version' \in DOMAIN Registries
      /\ (snapshot = NoSnapshot \/ Taken(snapshot))'
      /\ (file = NoFile \/ Compared(file.shadow, file.seen))'
  BY <1>1 DEF ShadowInv, Taken, Compared
<1>3. ASSUME NEW r \in Receipts, CaptureFile(c, r) PROVE ShadowInv'
  <2>1. Founded(file.shadow)
    BY <1>3 DEF ShadowInv, CaptureFile, Founded, Compared
  <2>2. /\ event' = [event EXCEPT ![c] = Capture(r, file.shadow)]
        /\ seen' = [seen EXCEPT ![c] = ledger]
        /\ step' = [step EXCEPT ![c] = "append"] /\ UNCHANGED ledger
    BY <1>3 DEF CaptureFile, StartCapture
  <2>3. Capture(r, file.shadow).shadow = file.shadow
    BY DEF Capture
  <2>4. /\ \A e \in ledger' : Founded(e.shadow)
        /\ \A d \in Commands : \A e \in seen'[d] : Founded(e.shadow)
    BY <2>2 DEF ShadowInv, LedgerInv
  <2>5. \A d \in Commands : step'[d] # "idle" => Founded(event'[d].shadow)
    BY <2>1, <2>2, <2>3 DEF ShadowInv, LedgerInv
  <2> QED
    BY <1>2, <2>4, <2>5, FoundedFiles
<1>4. ASSUME JoinOutcome(c) PROVE ShadowInv'
  <2>1. PICK r \in Receipts, route \in {"legacy", "g3_candidate"},
             strategy \in Strategies \cup {LegacyStrategy},
             candidate \in Strategies \cup {None}, o \in Outcomes :
        StartJoin(c, r, route, strategy, candidate, o)
    BY <1>4 DEF JoinOutcome, JoinSome
  <2>2. PICK k \in Captures(ledger, r) :
            event' = [event EXCEPT ![c] = Joined(r, k.shadow, route, strategy, candidate, o)]
    BY <2>1 DEF StartJoin
  <2>3. /\ seen' = seen /\ step' = [step EXCEPT ![c] = "load"] /\ UNCHANGED ledger
    BY <2>1 DEF StartJoin
  <2>4. Founded(Joined(r, k.shadow, route, strategy, candidate, o).shadow)
    BY DEF Joined, Captures, ShadowInv
  <2>5. /\ \A e \in ledger' : Founded(e.shadow)
        /\ \A d \in Commands : \A e \in seen'[d] : Founded(e.shadow)
    BY <2>3 DEF ShadowInv
  <2>6. \A d \in Commands : step'[d] # "idle" => Founded(event'[d].shadow)
    BY <2>2, <2>3, <2>4 DEF ShadowInv, LedgerInv
  <2> QED
    BY <1>2, <2>5, <2>6, FoundedFiles
<1>5. ASSUME LoadAgain(c) PROVE ShadowInv'
  BY <1>2, <1>5, FoundedFiles DEF LoadAgain, ShadowInv, LedgerInv
<1>6. ASSUME Continue(c), ~ LoadAgain(c) PROVE ShadowInv'
  <2>1. Leave(c)
    BY <1>6 DEF Continue, AppendEvent, AppendUnchanged, AppendRefused, Killed
  <2>2. \A e \in ledger' : Founded(e.shadow)
    BY <1>6 DEF Continue, AppendEvent, AppendUnchanged, AppendRefused, Killed, ShadowInv
  <2> QED
    BY <1>2, <2>1, <2>2, FoundedFiles DEF Leave, ShadowInv, LedgerInv
<1> QED
  BY <1>3, <1>4, <1>5, <1>6 DEF GoOn

(* Whatever the steps between the commands, the ledger and every command   *)
(* only ever hold comparisons with a snapshot that was really taken.       *)
LEMMA ShadowSteps == LedgerInv /\ ShadowInv /\ [Next]_shadowVars => ShadowInv'
<1> SUFFICES ASSUME LedgerInv, ShadowInv, [Next]_shadowVars PROVE ShadowInv'
  OBVIOUS
<1>1. CASE UNCHANGED <<snapshot, file, ledgerVars>>  /\ version' \in DOMAIN Registries
  BY <1>1 DEF ShadowInv, Taken, Compared, Founded, ledgerVars
<1>2. ASSUME NEW world \in SUBSET Facts, NEW probing \in BOOLEAN,
             NEW broken \in Faults(version), TakeSnapshot(world, probing, broken)
      PROVE  ShadowInv'
  <2>1. Taken(snapshot)'
    BY <1>2 DEF Taken, TakeSnapshot, ShadowInv
  <2> QED
    BY <1>2, <2>1, FoundedFiles DEF TakeSnapshot, ShadowInv, ledgerVars, Compared
<1>3. ASSUME NEW q \in Requests, WriteComparison(q.intent, q.authority) PROVE ShadowInv'
  BY <1>3, ComparisonIsFounded, FoundedFiles
     DEF WriteComparison, ShadowInv, ledgerVars, Taken, Compared
<1>4. ASSUME NEW c \in Commands,
             (\E r \in Receipts : CaptureFile(c, r)) \/ JoinOutcome(c) \/ GoOn(c)
      PROVE  ShadowInv'
  BY <1>4, CommandIsFounded
<1>5. ASSUME NEW v \in DOMAIN Registries, RegistryEdited(v) PROVE ShadowInv'
  BY <1>5, <1>1 DEF RegistryEdited
<1> QED
  BY <1>1, <1>2, <1>3, <1>4, <1>5 DEF Next, shadowVars, ShadowInv

(* What holds of the ledger alone goes on to hold when comparisons are     *)
(* captured from a file that is rewritten under the commands.              *)
THEOREM ShadowInvariant == Spec => [](LedgerInv /\ ShadowInv)
  BY ShadowStarts, ShadowStepsLedger, ShadowSteps, PTL DEF Spec

(* Ids stay unique, outcomes stay bound to their capture, and while the    *)
(* commands follow one another the ledger can be materialized and keeps    *)
(* what it was answered to keep, in the whole pipeline.                    *)
THEOREM PipelineKeepsLedger ==
    Spec => [](OneEventPerId /\ LedgerMaterializes /\ AnsweredIsKept)
<1>1. LedgerInv => OneEventPerId /\ AnsweredIsKept
  BY DEF LedgerInv, SoundFiles, Unique, OneEventPerId, AnsweredIsKept
<1> QED
  BY <1>1, InvMaterializes, ShadowInvariant, PTL

(* A probed capability, or one that declares PROBED itself, is all that    *)
(* makes a feature of a READY strategy.                                    *)
LEMMA ProbedIsThere ==
    ASSUME NEW m, NEW world, NEW broken, ProbeManifest(m, world, broken) = "PROBED",
           m.declared # "PROBED"
    PROVE  /\ m.probe # NoProbe /\ m.probe.all \subseteq world
           /\ \A g \in m.probe.groups : g \cap world # {}
  BY DEF ProbeManifest

(* The state of a capability in a snapshot of a valid registry.            *)
LEMMA StateInSnapshot ==
    ASSUME NEW v, NEW manifests, RegistryOK(manifests), NEW records, NEW world, NEW broken,
           NEW probing \in BOOLEAN, NEW m \in manifests,
           NEW snap, snap = BuildSnapshot(v, manifests, records, world, broken, probing)
    PROVE  snap.states[m.id] = IF probing THEN ProbeManifest(m, world, m.id \in broken)
                                          ELSE m.declared
<1>1. (CHOOSE n \in manifests : n.id = m.id) = m
  BY DEF RegistryOK
<1>2. snap.states = [id \in {n.id : n \in manifests} |->
                        LET x == CHOOSE n \in manifests : n.id = id
                        IN  IF probing THEN ProbeManifest(x, world, id \in broken)
                            ELSE x.declared]
  BY DEF BuildSnapshot
<1>3. m.id \in {n.id : n \in manifests}
  OBVIOUS
<1>4. snap.states[m.id] = LET x == CHOOSE n \in manifests : n.id = m.id
                          IN  IF probing THEN ProbeManifest(x, world, m.id \in broken)
                              ELSE x.declared
  BY <1>2, <1>3
<1> QED
  BY <1>1, <1>4

(* What the resolver asks before it calls a strategy other than BLOCKED.   *)
LEMMA NotBlocked ==
    ASSUME NEW strategy, NEW manifests, NEW snap, NEW intent, NEW authority,
           BuildCandidate(strategy, manifests, snap, intent, authority) # "BLOCKED"
    PROVE  /\ intent.work_mode = "modify" => strategy # "direct-agent-with-tools"
           /\ Shape(strategy).permissions \subseteq authority.permissions
           /\ \A f \in RequiredFeatures(intent) \cup Shape(strategy).extra :
                BindingForFeature(f, manifests, snap, intent, authority) # {}
  BY DEF BuildCandidate, CandidateState, Bindings

(* A READY strategy has for each feature a capability in state PROBED.     *)
LEMMA ReadyIsProbed ==
    ASSUME NEW strategy, NEW manifests, NEW snap, NEW intent, NEW authority,
           BuildCandidate(strategy, manifests, snap, intent, authority) = "READY"
    PROVE  \A f \in RequiredFeatures(intent) \cup Shape(strategy).extra :
                \E m \in BindingForFeature(f, manifests, snap, intent, authority) :
                    snap.states[m.id] = "PROBED"
  BY DEF BuildCandidate, CandidateState, Bindings

(* When no manifest of the registry claims to be PROBED without a probe,   *)
(* as none that is shipped does, a strategy that the comparison file calls *)
(* READY needs no feature whose capability was not there when the snapshot *)
(* was taken, however often registry, world and snapshot have changed      *)
(* before and since.                                                       *)
THEOREM ReadyWasThere ==
    ASSUME \A v \in DOMAIN Registries : \A m \in Registries[v] : m.declared # "PROBED"
    PROVE  Spec => []ReadyIsBacked
<1>1. ShadowInv => ReadyIsBacked
  <2> SUFFICES ASSUME ShadowInv, file # NoFile,
                      NEW strategy \in DOMAIN file.shadow.candidates,
                      file.shadow.candidates[strategy] = "READY"
               PROVE  LET s == file.shadow
                      IN  /\ \A f \in RequiredFeatures(s.intent) \cup Shape(strategy).extra :
                            \E m \in Registries[s.registry] :
                                /\ f \in m.features
                                /\ s.intent.sensitivity \in m.sensitivities
                                /\ m.probe # NoProbe /\ m.probe.all \subseteq file.seen
                                /\ \A g \in m.probe.groups : g \cap file.seen # {}
                                /\ \/ m.network # "required"
                                   \/ "network" \in s.authority.permissions
                                /\ PolicyOf(m, s.intent.sensitivity)
                                        \subseteq s.authority.policies
                          /\ Shape(strategy).permissions \subseteq s.authority.permissions
                          /\ s.intent.work_mode = "modify" =>
                                strategy # "direct-agent-with-tools"
    BY DEF ReadyIsBacked
  <2>1. PICK q \in Requests, v \in DOMAIN Registries, probing \in BOOLEAN :
            \E broken \in Faults(v) :
                /\ RegistryOK(Registries[v])
                /\ file.shadow = CompareShadow(q.intent, q.authority, Registries[v],
                        BuildSnapshot(v, Registries[v], Qualifications, file.seen, broken,
                                      probing))
    BY DEF ShadowInv, Compared
  <2>2. PICK broken, snap :
            /\ broken \in Faults(v)
            /\ snap = BuildSnapshot(v, Registries[v], Qualifications, file.seen, broken,
                                    probing)
            /\ file.shadow = CompareShadow(q.intent, q.authority, Registries[v], snap)
    BY <2>1
  <2>3. /\ file.shadow.intent = q.intent /\ file.shadow.authority = q.authority
        /\ file.shadow.registry = v
        /\ BuildCandidate(strategy, Registries[v], snap, q.intent, q.authority) = "READY"
    BY <2>2 DEF CompareShadow, BuildSnapshot, BuildStrategyCandidates
  <2>4. /\ q.intent.work_mode = "modify" => strategy # "direct-agent-with-tools"
        /\ Shape(strategy).permissions \subseteq q.authority.permissions
    BY <2>3, NotBlocked
  <2>5. ASSUME NEW f \in RequiredFeatures(q.intent) \cup Shape(strategy).extra
        PROVE  \E m \in Registries[v] :
                /\ f \in m.features
                /\ q.intent.sensitivity \in m.sensitivities
                /\ m.probe # NoProbe /\ m.probe.all \subseteq file.seen
                /\ \A g \in m.probe.groups : g \cap file.seen # {}
                /\ m.network # "required" \/ "network" \in q.authority.permissions
                /\ PolicyOf(m, q.intent.sensitivity) \subseteq q.authority.policies
    <3>1. PICK m \in BindingForFeature(f, Registries[v], snap, q.intent, q.authority) :
            snap.states[m.id] = "PROBED"
      BY <2>3, ReadyIsProbed
    <3>2. /\ m \in Registries[v]
          /\ ManifestCompatible(m, f, q.intent, q.authority)
      BY DEF BindingForFeature
    <3>3. ProbeManifest(m, file.seen, m.id \in broken) = "PROBED"
      BY <2>1, <2>2, <3>1, <3>2, StateInSnapshot
    <3>4. /\ m.probe # NoProbe /\ m.probe.all \subseteq file.seen
          /\ \A g \in m.probe.groups : g \cap file.seen # {}
      BY <3>2, <3>3, ProbedIsThere
    <3> QED
      BY <3>2, <3>4 DEF ManifestCompatible
  <2> QED
    BY <2>3, <2>4, <2>5
<1> QED
  BY <1>1, ShadowInvariant, PTL

(* Whatever commands overlap, and whatever has become of the registry and  *)
(* of the machine since the comparison: an outcome in the ledger that is   *)
(* not of the legacy route is of a strategy the comparison allowed.        *)
THEOREM OnlyAllowedIsExecuted == Spec => []ExecutedWasAllowed
<1>1. LedgerInv /\ ShadowInv => ExecutedWasAllowed
  <2> SUFFICES ASSUME LedgerInv, ShadowInv, NEW e \in ledger,
                      e.type = "OUTCOME_JOINED", e.route # "legacy"
               PROVE  LET s == e.shadow
                      IN  /\ e.strategy \in DOMAIN s.candidates
                          /\ Shape(e.strategy).permissions \subseteq s.authority.permissions
                          /\ s.intent.work_mode = "modify" =>
                                e.strategy # "direct-agent-with-tools"
                          /\ \A f \in RequiredFeatures(s.intent) \cup Shape(e.strategy).extra :
                                \E m \in Registries[s.registry] :
                                    /\ f \in m.features
                                    /\ s.states[m.id] \notin {"UNAVAILABLE", "RETIRED"}
                                    /\ \/ m.network # "required"
                                       \/ "network" \in s.authority.permissions
    BY DEF ExecutedWasAllowed
  <2>1. e.strategy \in DOMAIN e.shadow.candidates
        /\ e.shadow.candidates[e.strategy] # "BLOCKED"
    BY DEF LedgerInv, SoundFiles, Sound, Fits
  <2>2. \E q \in Requests, v \in DOMAIN Registries : \E snap :
            /\ snap.registry = v
            /\ e.shadow = CompareShadow(q.intent, q.authority, Registries[v], snap)
    <3>1. PICK world \in SUBSET Facts : Compared(e.shadow, world)
      BY DEF ShadowInv, Founded
    <3>2. PICK q \in Requests, v \in DOMAIN Registries : \E probing \in BOOLEAN, broken \in Faults(v) :
            e.shadow = CompareShadow(q.intent, q.authority, Registries[v],
                BuildSnapshot(v, Registries[v], Qualifications, world, broken, probing))
      BY <3>1 DEF Compared
    <3>3. PICK probing, broken, snap :
            /\ snap = BuildSnapshot(v, Registries[v], Qualifications, world, broken, probing)
            /\ e.shadow = CompareShadow(q.intent, q.authority, Registries[v], snap)
      BY <3>2
    <3>4. snap.registry = v
      BY <3>3 DEF BuildSnapshot
    <3> QED
      BY <3>3, <3>4
  <2>3. PICK q, v, snap :
            /\ q \in Requests /\ v \in DOMAIN Registries
            /\ snap.registry = v
            /\ e.shadow = CompareShadow(q.intent, q.authority, Registries[v], snap)
    BY <2>2
  <2>4. /\ e.shadow.intent = q.intent /\ e.shadow.authority = q.authority
        /\ e.shadow.registry = v /\ e.shadow.states = snap.states
        /\ BuildCandidate(e.strategy, Registries[v], snap, q.intent, q.authority) # "BLOCKED"
    BY <2>1, <2>3 DEF CompareShadow, BuildStrategyCandidates
  <2>5. /\ q.intent.work_mode = "modify" => e.strategy # "direct-agent-with-tools"
        /\ Shape(e.strategy).permissions \subseteq q.authority.permissions
        /\ \A f \in RequiredFeatures(q.intent) \cup Shape(e.strategy).extra :
            BindingForFeature(f, Registries[v], snap, q.intent, q.authority) # {}
    BY <2>4, NotBlocked
  <2>6. ASSUME NEW f \in RequiredFeatures(q.intent) \cup Shape(e.strategy).extra
        PROVE  \E m \in Registries[v] :
                /\ f \in m.features
                /\ snap.states[m.id] \notin {"UNAVAILABLE", "RETIRED"}
                /\ m.network # "required" \/ "network" \in q.authority.permissions
    <3>1. PICK m : m \in BindingForFeature(f, Registries[v], snap, q.intent, q.authority)
      BY <2>5
    <3> QED
      BY <3>1 DEF BindingForFeature, ManifestCompatible
  <2> QED
    BY <2>1, <2>4, <2>5, <2>6
<1> QED
  BY <1>1, ShadowInvariant, PTL

=============================================================================
