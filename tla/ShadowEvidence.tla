--------------------------- MODULE ShadowEvidence ---------------------------
(***************************************************************************)
(* The shadow evidence ledger: shadow_evidence.py.  `capture` records a    *)
(* shadow comparison under a receipt id, `join` adds the outcome of what   *)
(* was really executed, `materialize` reads receipts back.  Commands are   *)
(* processes that share one file and take no lock: each reads the whole    *)
(* ledger and later replaces it by what it read and one more line.         *)
(*                                                                         *)
(* A shadow is a record with at least candidates, a function from the      *)
(* strategies offered to READY, CONDITIONAL or BLOCKED; the record is its  *)
(* own digest.  The id of a candidate is its strategy.  Observation times  *)
(* are left out, as event identity leaves them out.  The ledger is a set:  *)
(* no reader looks at the order of the lines.                              *)
(***************************************************************************)
EXTENDS FiniteSets

CONSTANTS Commands, Receipts, Shadows, Outcomes,
          Strategies,    \* the strategies a shadow may offer
          LegacyStrategy \* the name a legacy execution goes by

ASSUME ShadowsOffer ==
    \A s \in Shadows : \E offered \in SUBSET Strategies :
        s.candidates \in [offered -> {"READY", "CONDITIONAL", "BLOCKED"}]
ASSUME LegacyIsNotOffered == LegacyStrategy \notin Strategies

None == "none"
NoEvent == [type |-> None]

VARIABLES ledger,       \* the events in the file
          step,         \* what each command does next
          event,        \* the event each command wants to append
          seen,         \* the ledger as each command last read it
          answered,     \* events that some command has reported recorded
          overlapped    \* two commands were at work at the same time

ledgerVars == <<ledger, step, event, seen, answered, overlapped>>

-----------------------------------------------------------------------------
Capture(r, s) == [type |-> "SHADOW_CAPTURED", receipt |-> r, shadow |-> s]

Joined(r, s, route, strategy, candidate, outcome) ==
    [type |-> "OUTCOME_JOINED", receipt |-> r, shadow |-> s,
     route |-> route, strategy |-> strategy, candidate |-> candidate,
     outcome |-> outcome]

Captures(events, r) == {e \in events : e.type = "SHADOW_CAPTURED" /\ e.receipt = r}
Joins(events, r) == {e \in events : e.type = "OUTCOME_JOINED" /\ e.receipt = r}

(* Mutant of Fits: a blocked candidate may have been executed.             *)
FitsBlocked(route, strategy, candidate, s) ==
    IF route = "legacy" THEN candidate = None
    ELSE candidate \in DOMAIN s.candidates /\ candidate = strategy

(* An execution fits a shadow: a legacy one names no candidate, a G3 one   *)
(* names a captured candidate that was not blocked, by its strategy.       *)
Fits(route, strategy, candidate, s) ==
    IF route = "legacy" THEN candidate = None
    ELSE /\ candidate \in DOMAIN s.candidates
         /\ candidate = strategy
         /\ s.candidates[candidate] # "BLOCKED"

(* The two result contracts a joined outcome may come in, and what is kept *)
(* of one: its kind and status.                                            *)
NormalizedOK(outcome) ==
    \/ /\ outcome.kind = "result-v1.1"
       /\ outcome.status \in {"PASS", "WARN", "UNKNOWN", "FAIL", "SKIPPED"}
    \/ /\ outcome.kind = "eval-result-v0.1"
       /\ outcome.status \in {"PASS", "WARN", "UNKNOWN", "FAIL"}

(* Mutant of SameId: the whole event is its identity.                      *)
SameEvent(events, e) == {f \in events : f = e}

(* The event with the same event_id, if the file has one.                  *)
SameId(events, e) == {f \in events : f.type = e.type /\ f.receipt = e.receipt}

-----------------------------------------------------------------------------
LedgerInit ==
    /\ ledger = {}
    /\ step = [c \in Commands |-> "idle"]
    /\ event = [c \in Commands |-> NoEvent]
    /\ seen = [c \in Commands |-> {}]
    /\ answered = {}
    /\ overlapped = FALSE

Overlap(c) == overlapped' = (overlapped \/ \E d \in Commands \ {c} : step[d] # "idle")

(* capture: the event is built and append_event loads the ledger.          *)
StartCapture(c, r, s) ==
    /\ step[c] = "idle"
    /\ event' = [event EXCEPT ![c] = Capture(r, s)]
    /\ seen' = [seen EXCEPT ![c] = ledger]
    /\ step' = [step EXCEPT ![c] = "append"]
    /\ Overlap(c)
    /\ UNCHANGED <<ledger, answered>>

(* join: the ledger is read, it must hold exactly one capture of the       *)
(* receipt, and the outcome is bound to that capture.  A different outcome *)
(* that is already joined is refused.                                      *)
StartJoin(c, r, route, strategy, candidate, outcome) ==
    /\ step[c] = "idle" /\ NormalizedOK(outcome)
    /\ \E k \in Captures(ledger, r) :
        /\ Captures(ledger, r) = {k}
        /\ Fits(route, strategy, candidate, k.shadow)
        /\ LET e == Joined(r, k.shadow, route, strategy, candidate, outcome)
           IN  /\ Joins(ledger, r) \subseteq {e}
               /\ event' = [event EXCEPT ![c] = e]
    /\ step' = [step EXCEPT ![c] = "load"]
    /\ Overlap(c)
    /\ UNCHANGED <<ledger, seen, answered>>

(* append_event of a join loads the ledger again, and looks for its own    *)
(* event only.                                                             *)
LoadAgain(c) ==
    /\ step[c] = "load"
    /\ seen' = [seen EXCEPT ![c] = ledger]
    /\ step' = [step EXCEPT ![c] = "append"]
    /\ UNCHANGED <<ledger, event, answered, overlapped>>

(* The process is gone, and with it what it remembered.                    *)
Leave(c) ==
    /\ step' = [step EXCEPT ![c] = "idle"]
    /\ event' = [event EXCEPT ![c] = NoEvent]
    /\ seen' = [seen EXCEPT ![c] = {}]
    /\ UNCHANGED overlapped

(* Mutant of AppendEvent: only the outcome lines are carried over.         *)
AppendDroppingCaptures(c) ==
    /\ step[c] = "append" /\ SameId(seen[c], event[c]) = {}
    /\ ledger' = {e \in seen[c] : e.type = "OUTCOME_JOINED"} \cup {event[c]}
    /\ answered' \in {answered, answered \cup {event[c]}}
    /\ Leave(c)

(* Mutant of AppendEvent: reported before the file is replaced.            *)
AppendLate(c) ==
    /\ step[c] = "append" /\ SameId(seen[c], event[c]) = {}
    /\ ledger' \in {ledger, seen[c] \cup {event[c]}}
    /\ answered' = answered \cup {event[c]}
    /\ Leave(c)

(* A new event: the file is replaced at once by what was read and the      *)
(* event, and APPENDED is reported, unless the process is killed first.    *)
AppendEvent(c) ==
    /\ step[c] = "append" /\ SameId(seen[c], event[c]) = {}
    /\ ledger' = seen[c] \cup {event[c]}
    /\ answered' \in {answered, answered \cup {event[c]}}
    /\ Leave(c)

(* The event is in the file already: UNCHANGED is reported.                *)
AppendUnchanged(c) ==
    /\ step[c] = "append" /\ event[c] \in SameId(seen[c], event[c])
    /\ answered' = answered \cup {event[c]}
    /\ UNCHANGED ledger
    /\ Leave(c)

(* An event with the same id and other contents is in the file: refused.   *)
AppendRefused(c) ==
    /\ step[c] = "append"
    /\ SameId(seen[c], event[c]) # {} /\ event[c] \notin seen[c]
    /\ UNCHANGED <<ledger, answered>>
    /\ Leave(c)

(* The process is killed before the replacement: the file is untouched.    *)
Killed(c) ==
    /\ step[c] # "idle"
    /\ UNCHANGED <<ledger, answered>>
    /\ Leave(c)

Continue(c) ==
    LoadAgain(c) \/ AppendEvent(c) \/ AppendUnchanged(c) \/ AppendRefused(c) \/ Killed(c)

JoinSome(c) ==
    \E r \in Receipts, outcome \in Outcomes :
        \/ StartJoin(c, r, "legacy", LegacyStrategy, None, outcome)
        \/ \E strategy, candidate \in Strategies :
                StartJoin(c, r, "g3_candidate", strategy, candidate, outcome)

LedgerNext ==
    \E c \in Commands :
        \/ \E r \in Receipts, s \in Shadows : StartCapture(c, r, s)
        \/ JoinSome(c)
        \/ Continue(c)

LedgerSpec == LedgerInit /\ [][LedgerNext]_ledgerVars

-----------------------------------------------------------------------------
(* materialize without --receipt-id succeeds on these events.              *)
Materializes(events) ==
    \A e \in events :
        /\ \E k \in Captures(events, e.receipt) : Captures(events, e.receipt) = {k}
        /\ \A j \in Joins(events, e.receipt) :
            /\ Joins(events, e.receipt) = {j}
            /\ \A k \in Captures(events, e.receipt) :
                j.shadow = k.shadow /\ Fits(j.route, j.strategy, j.candidate, k.shadow)

(* Nobody has interfered: at most one command was at work at any time.     *)
Undisturbed == ~overlapped

LedgerTypeOK ==
    /\ \A e \in ledger : e.type \in {"SHADOW_CAPTURED", "OUTCOME_JOINED"}
    /\ \A e \in ledger : e.receipt \in Receipts
    /\ step \in [Commands -> {"idle", "load", "append"}]
    /\ overlapped \in BOOLEAN

(* One capture and one outcome of a receipt at most, also when commands    *)
(* overlap: no interleaving puts two events of one id into the file.       *)
OneEventPerId ==
    \A e, f \in ledger : e.type = f.type /\ e.receipt = f.receipt => e = f

(* Every outcome in the file fits the shadow whose digest it carries: a    *)
(* legacy outcome is never a candidate's, and no outcome is joined to a    *)
(* candidate that was BLOCKED or is another strategy's, also when commands *)
(* overlap.                                                                *)
JoinsAreBound ==
    \A e \in ledger : e.type = "OUTCOME_JOINED" =>
        IF e.route = "legacy" THEN e.candidate = None
        ELSE /\ e.candidate \in DOMAIN e.shadow.candidates
             /\ e.strategy = e.candidate
             /\ e.shadow.candidates[e.candidate] # "BLOCKED"

(* While commands follow one another, killed or not, the whole ledger can  *)
(* be materialized: no outcome is an orphan and none is bound to another   *)
(* capture than the one in the file.                                       *)
LedgerMaterializes == Undisturbed => Materializes(ledger)

(* While commands follow one another, no event that a command reported as  *)
(* recorded is ever missing from the ledger.                               *)
AnsweredIsKept == Undisturbed => answered \subseteq ledger
=============================================================================
