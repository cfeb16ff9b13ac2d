SPECIFICATION FairSpec

CONSTANTS
  a = a
  b = b
  c = c
  a1 = a1
  a2 = a2
  b1 = b1
  c1 = c1
  Locality = {a, b}
  Place = {a1, b1}
  Home <- Homes
  Birth = a1
  Migration = {m1, m2}
  NoMigration = NoMigration
  Write = {w1}
  MaxMailbox = 1
  MaxRedirects = 1
  Refusing = {"freeze"}
  Impatient = {"prepare", "commit"}
  Dropping = {"freeze"}
  Expiry = "any"

INVARIANT EpochNamesLocation
PROPERTY ClosedObjectReopens

\* The clients of a behaviour are finitely many: it ends.
CHECK_DEADLOCK FALSE
