\* Switches between two projects where every call answers and no process dies.
\* Starts are bounded, so a behaviour ends.
SPECIFICATION Spec
CONSTANTS
  Apps = {a1, a2}
  Names = {n1, n2, n3}
  Edits = {e1}
  MaxStarts = 3
  Strikes = 2
  Unanswering = FALSE
  Cancels = FALSE
  RegistrySweep = FALSE
  NoApp = NoApp
  NoName = NoName
SYMMETRY Symmetry
INVARIANTS WorkingContainerStands WrittenBackFirst
CHECK_DEADLOCK FALSE
