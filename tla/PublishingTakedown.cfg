\* Two takedowns, no attempt beginning while one is under way, and the reconciler
\* under fairness.  Attempts are bounded, so a behaviour ends.
SPECIFICATION FairSpec
CONSTANTS
  Versions = {v1}
  NoVersion = NoVersion
  MaxRows = 3
  Publishers = {u1}
  Takers = {t1, t2}
  Passes = {p1}
  Dies = TRUE
  Serial = TRUE
  Overlaps = FALSE
INVARIANTS StampedMeansGone
PROPERTIES FreesTheSlot
CHECK_DEADLOCK FALSE
