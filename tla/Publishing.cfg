\* Two publishers and two passes, and every failure.  Attempts are bounded, so a
\* behaviour ends.
SPECIFICATION Spec
CONSTANTS
  Versions = {v1, v2}
  NoVersion = NoVersion
  MaxRows = 3
  Publishers = {u1, u2}
  Takers = {}
  Passes = {p1}
  Dies = TRUE
  Serial = FALSE
  Overlaps = TRUE
SYMMETRY Symmetry
INVARIANTS OnlyDecidedServes OneWriter
PROPERTY KeepsTheSlot
CHECK_DEADLOCK FALSE
