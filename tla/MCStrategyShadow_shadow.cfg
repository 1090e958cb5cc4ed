\* Two commands on one receipt; the registry and the keys change under them.
SPECIFICATION Spec
CONSTANTS
  c1 = c1
  c2 = c2
  Commands <- MCCommands
  Receipts <- MCReceipts
  Shadows <- AllShadows
  Outcomes <- MCOutcomes
  Strategies <- MCStrategies
  LegacyStrategy = "legacy-live-route"
  Registries <- MCRegistries
  Facts <- MCFacts
  Qualifications <- MCQualifications
  Requests <- MCRequests
  MaxChanges = 1
  MaxSnapshots = 1
  MaxCompares = 2
  MaxCommands = 3
SYMMETRY Symmetry
INVARIANTS OneEventPerId LedgerMaterializes AnsweredIsKept ReadyIsBacked ExecutedWasAllowed
\* The commands may all be done and the bounds used up.
CHECK_DEADLOCK FALSE
