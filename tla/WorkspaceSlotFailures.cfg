\* Every failure at once on one container name: nothing need answer, requests are
\* cancelled, the API dies, and the registry sweep runs; the detached routines and
\* the worker are fair.  Starts are bounded, so a behaviour ends.
SPECIFICATION FairSpec
CONSTANTS
  Apps = {a1, a2}
  Names = {n1}
  Edits = {e1}
  MaxStarts = 2
  Strikes = 2
  Unanswering = TRUE
  Cancels = TRUE
  RegistrySweep = TRUE
  NoApp = NoApp
  NoName = NoName
INVARIANTS TypeOK NoOrphan EachProjectItsOwn OneRun
PROPERTIES DebtsSettle
CHECK_DEADLOCK FALSE
