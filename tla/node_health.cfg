CONSTANTS
  Names = {n1, n2}
  Addresses = {a1, a2}
  Testers = {t1, t2}
  MaxEdits = 4
SPECIFICATION FairSpec
INVARIANTS TypeOK PassIsCurrent
PROPERTY HealthConverges
