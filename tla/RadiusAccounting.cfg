SPECIFICATION AcctFairSpec
CONSTANTS
  s1 = s1
  s2 = s2
  Session = {s1, s2}
  MaxInterim = 2
  MaxDuplicates = 2
  MaxLosses = 1
INVARIANT
  StoppedIsTrue
PROPERTIES
  SettledIsFinal
  EndedIsStopped
