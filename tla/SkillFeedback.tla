---------------------------- MODULE SkillFeedback ----------------------------
(***************************************************************************)
(* Feedback about the skills a task used (record_skill_feedback.py): a     *)
(* ledger that is appended to, and statistics built from it that the skill *)
(* selector reads.  A command loads the ledger, appends its event, and     *)
(* rewrites the statistics from what it loaded and its event.  Commands    *)
(* share the two files without a lock.                                     *)
(*                                                                         *)
(* An event is [receipt, status, skills]; repair cycles and tokens are     *)
(* summed like uses and left out.  An append that is cut short leaves the  *)
(* last line open, with a part of the event or all of it but the newline;  *)
(* what is appended next is glued to it, and the line does not parse.      *)
(***************************************************************************)
EXTENDS Integers, Sequences, FiniteSets, Functions

CONSTANTS Recorders, FeedbackEvents,
          MaxLines  \* bound: lines of the ledger

TornLine == [receipt |-> "torn"]

ASSUME EventsAreWhole == TornLine \notin FeedbackEvents

VARIABLES lines,      \* the lines of the ledger
          open,       \* the last line has no newline
          stats,      \* the statistics file
          recorder,   \* what each command does next
          feedback,   \* the event each command records
          loaded,     \* the events each command loaded
          crowded,    \* two commands were at work at the same time
          current     \* the last command to end had reported PASS

feedbackVars == <<lines, open, stats, recorder, feedback, loaded, crowded, current>>

(* load_events: every line parses and no receipt has two contents.         *)
Loadable(events) ==
    /\ TornLine \notin events
    /\ \A e, f \in events : e.receipt = f.receipt => e = f

BuildStats(events) ==
    [skill \in UNION {e.skills : e \in events} |->
        LET of == {e \in events : skill \in e.skills}
        IN  [uses |-> Cardinality(of),
             outcomes |-> [s \in {e.status : e \in of} |->
                            Cardinality({e \in of : e.status = s})]]]

FeedbackInit ==
    /\ lines = <<>> /\ open = FALSE /\ stats = BuildStats({})
    /\ recorder = [c \in Recorders |-> "idle"]
    /\ feedback = [c \in Recorders |-> TornLine]
    /\ loaded = [c \in Recorders |-> {}]
    /\ crowded = FALSE /\ current = TRUE

(* The ledger is loaded; a receipt that is there with other contents is    *)
(* refused, one that is there with the same goes on to the statistics.     *)
LoadLedger(c, e) ==
    /\ recorder[c] = "idle"
    /\ Loadable(Range(lines))
    /\ \A f \in Range(lines) : f.receipt = e.receipt => f = e
    /\ recorder' = [recorder EXCEPT ![c] =
                        IF e \in Range(lines) THEN "stats" ELSE "append"]
    /\ feedback' = [feedback EXCEPT ![c] = e]
    /\ loaded' = [loaded EXCEPT ![c] = Range(lines)]
    /\ crowded' = (crowded \/ \E d \in Recorders : recorder[d] # "idle")
    /\ UNCHANGED <<lines, open, stats, current>>

(* The ledger after x was written to its end.                              *)
Written(x) ==
    IF open THEN [lines EXCEPT ![Len(lines)] = TornLine] ELSE Append(lines, x)

AppendLine(c) ==
    /\ recorder[c] = "append" /\ Len(lines) < MaxLines
    /\ lines' = Written(feedback[c]) /\ open' = FALSE
    /\ recorder' = [recorder EXCEPT ![c] = "stats"]
    /\ UNCHANGED <<stats, feedback, loaded, crowded, current>>

EndRecord(c) ==
    /\ recorder' = [recorder EXCEPT ![c] = "idle"]
    /\ feedback' = [feedback EXCEPT ![c] = TornLine]
    /\ loaded' = [loaded EXCEPT ![c] = {}]
    /\ UNCHANGED crowded

(* Mutant of WriteStats: the event itself is not counted.                  *)
WriteStatsLoaded(c) ==
    /\ recorder[c] = "stats"
    /\ stats' = BuildStats(loaded[c])
    /\ current' = TRUE
    /\ UNCHANGED <<lines, open>>
    /\ EndRecord(c)

(* Mutant of WriteStats: a killed command may leave statistics that count  *)
(* the event before it is in the ledger.                                   *)
WriteStatsEarly(c) ==
    /\ recorder[c] \in {"append", "stats"}
    /\ stats' = BuildStats(loaded[c] \cup {feedback[c]})
    /\ current' = (recorder[c] = "stats")
    /\ UNCHANGED <<lines, open>>
    /\ EndRecord(c)

(* The statistics are replaced at once and PASS is reported.               *)
WriteStats(c) ==
    /\ recorder[c] = "stats"
    /\ stats' = BuildStats(loaded[c] \cup {feedback[c]})
    /\ current' = TRUE
    /\ UNCHANGED <<lines, open>>
    /\ EndRecord(c)

KilledRecording(c) ==
    /\ recorder[c] # "idle"
    /\ current' = FALSE
    /\ UNCHANGED <<lines, open, stats>>
    /\ EndRecord(c)

(* The command is killed, or the disk is full, in the middle of its line   *)
(* or just before the newline.                                             *)
KilledAppending(c) ==
    /\ recorder[c] = "append" /\ Len(lines) < MaxLines
    /\ \E x \in {feedback[c], TornLine} : lines' = Written(x)
    /\ open' = TRUE
    /\ current' = FALSE
    /\ UNCHANGED stats
    /\ EndRecord(c)

FeedbackNext ==
    \E c \in Recorders :
        \/ \E e \in FeedbackEvents : LoadLedger(c, e)
        \/ AppendLine(c) \/ WriteStats(c)
        \/ KilledRecording(c) \/ KilledAppending(c)

FeedbackSpec == FeedbackInit /\ [][FeedbackNext]_feedbackVars

-----------------------------------------------------------------------------
(* While every line of the ledger parses, the statistics never count an    *)
(* outcome that is not in it, and none twice, however commands overlap and *)
(* wherever they are killed.                                               *)
StatsAreBacked ==
    TornLine \notin Range(lines) =>
        \A skill \in DOMAIN stats :
            /\ stats[skill].uses <=
                  Cardinality({e \in Range(lines) : skill \in e.skills})
            /\ \A s \in DOMAIN stats[skill].outcomes :
                  \E e \in Range(lines) : skill \in e.skills /\ e.status = s

(* While commands follow one another and every line parses, the statistics *)
(* are those of the whole ledger, and it loads, whenever the last command  *)
(* reported PASS, also when it only repeated an event whose first          *)
(* recording was killed half way.                                          *)
StatsFollowLedger ==
    /\ TornLine \notin Range(lines)
    /\ ~crowded /\ current /\ \A c \in Recorders : recorder[c] = "idle"
    => Loadable(Range(lines)) /\ stats = BuildStats(Range(lines))
=============================================================================
