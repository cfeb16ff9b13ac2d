SPECIFICATION Spec

CONSTANTS
  a = a
  b = b
  c = c
  a1 = a1
  a2 = a2
  b1 = b1
  c1 = c1
  Locality = {a, b, c}
  Place = {a1, a2, b1, c1}
  Home <- Homes
  Birth = a1
  Migration = {m1, m2}
  NoMigration = NoMigration
  Write = {w1}
  MaxMailbox = 1
  MaxRedirects = 1
  Refusing = {"freeze", "prepare", "commit"}
  Impatient = {"freeze", "prepare", "activate", "retire", "rollbackSource", "rollbackDestination"}
  Dropping = {"freeze", "prepare", "activate", "retire", "rollbackSource", "rollbackDestination"}
  Expiry = "settled"

INVARIANT OneResident
INVARIANT AckedWritesSurvive
INVARIANT DirectoryPointsToState
INVARIANT ReportedMoveIsFinal

\* The clients of a behaviour are finitely many: it ends.
CHECK_DEADLOCK FALSE
