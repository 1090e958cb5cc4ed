\* Two commands and two receipts; up to three champions; two updates.
SPECIFICATION Spec
CONSTANTS
  Recorders = {c1, c2}
  FeedbackEvents <- MCFeedbackEvents
  MaxLines = 4
  Cases <- MCCases
  Runs <- MCRuns
  MaxPromotions = 2
  Updaters = {u1, u2}
  Pins = {"pin1", "pin2"}
  MaxUpdates = 3
INVARIANTS StatsAreBacked StatsFollowLedger GatesNeverFall NoComeback PassIsObserved PackagedIsWhole
PROPERTY VendorNeverLost
\* Every bound may be used up.
CHECK_DEADLOCK FALSE
