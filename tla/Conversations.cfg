SPECIFICATION FairSpec
CONSTANTS
  c1 = c1
  Chats = {c1}
  ProjectChats = {c1}
  Files = {f1}
  CodeLane = {f1}
  Uses <- MCUses
  Keys = {k1, k2}
  Uploads = {u1}
  Sends = {s1}
  MaxFiles = 1
  IdleDays = 1
  RestDays = 2
  PerPass = 1
  NoChat = NoChat
  NoFile = NoFile
  NoKey = NoKey
INVARIANT RowsHaveTheirBytes
PROPERTIES SentFilesStand TouchedStays IdleChatsGo
