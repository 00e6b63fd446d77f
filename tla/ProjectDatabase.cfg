\* Two provisionings of one claim, the switch, and both deletes.  Claims are
\* bounded, so a behaviour may end.
SPECIFICATION Spec
CONSTANTS
  Calls = {c1, c2}
  Deleters = {d1, d2}
  MaxClaims = 1
  HardDeletes = TRUE
SYMMETRY Symmetry
INVARIANTS  ReadyIsComplete 
PROPERTIES SaltTellsTheTruth
CHECK_DEADLOCK FALSE
