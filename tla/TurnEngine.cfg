\* One Build chat and one Plan chat of another project, two turns.  Messages are
\* bounded, so a behaviour ends.
SPECIFICATION FairSpec
CONSTANTS
  BuildChats = {b}
  PlanChats = {p}
  GenericChats = {}
  Second = {p}
  MaxTurns = 2
  Limit = 2
  Retries = 1
  Ceiling = 2
  Budget = 4
  ReplySteps = 2
  MaxAsks = 1
  MeterFails = FALSE
  NoChat = NoChat
INVARIANTS TypeOK OneEnding OneReplyAtATime LetsGo SpendReachesTheMeter OvershootIsBounded
PROPERTIES CompletedIsComplete TurnsEnd
CHECK_DEADLOCK FALSE
