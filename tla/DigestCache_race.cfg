SPECIFICATION Spec
CONSTANTS
  Tasks = {t1, t2}
  MaxDigest = 3
  MaxTime = 1
  MaxAge = 1
  Valid <- MCValid
SYMMETRY Symmetry
INVARIANTS
  NotBehindStat
