SPECIFICATION Spec
CONSTANTS
  UserLabels <- MCLabels
  Old <- MCOld
  OldFile <- MCFile
  Slates = {"s0"}
  Scanners = {"t1"}
  MaxPath = 2
  MaxChild = 1
  MaxIds = 2
  MaxReceives = 1
INVARIANTS
  RestoredIsNamed
  EntryOfOutput
PROPERTIES
  PathKept
