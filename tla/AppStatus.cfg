\* One owner's tab and one administrator.  Saves, copies and attempts are
\* bounded, so a behaviour may end.
SPECIFICATION Spec
CONSTANTS
  Tabs = {t1}
  Admins = {a1}
  MaxCommits = 2
  MaxSubs = 3
  MaxAttempts = 2
  CopyTries = 1
INVARIANTS ApprovalStands QueueHoldsItsCopy BarredStaysBarred CopyIsNotTriedForEver
CHECK_DEADLOCK FALSE
