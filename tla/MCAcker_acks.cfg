SPECIFICATION FairSpec
CONSTANTS
  Parties = {p1, p2, p3, p4}
  Primary = p1
  Faulty = {p4}
  Behind = {p2}
  Threshold = 3
  Gap = 2
  First = 1
  MaxSeq = 4
  Modulus = 100
INVARIANTS
  TypeOK
  ConfirmedIsHeld
  WithinGap
  WaitsForAReason
PROPERTY
  PrimaryGoesOn
CHECK_DEADLOCK FALSE
