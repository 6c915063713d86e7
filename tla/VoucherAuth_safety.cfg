SPECIFICATION Spec
CONSTANTS
  s1 = s1
  s2 = s2
  s3 = s3
  t1 = t1
  t2 = t2
  Session = {s1, s2, s3}
  MaxInterim = 0
  MaxDuplicates = 0
  MaxLosses = 0
  Toggle = {t1}
  Duration = 3
  MaxTime = 5
SYMMETRY MCSymmetry
INVARIANTS
  ExpiredIsOver
PROPERTIES
  ClosedUntilToggled
  OverIsOver
