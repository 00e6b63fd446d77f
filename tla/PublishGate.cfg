\* Saves, claims and edits are bounded, so a behaviour may end.
SPECIFICATION Spec
CONSTANTS
  Opens = {o1, o2}
  Sends = {s1}
  Configs <- MCConfigs
  Seeded <- MCSeeded
  Cap = 1
  MaxSaves = 2
  MaxRuns = 2
  MaxEdits = 1
SYMMETRY Symmetry
INVARIANTS PublishedWasExamined
PROPERTIES AnswersStand
CHECK_DEADLOCK FALSE
