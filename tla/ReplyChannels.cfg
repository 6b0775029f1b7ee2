CONSTANTS
  e1 = e1
  h1 = h1
  h2 = h2
  Replies = {e1}
  Kinds <- OneEvent
  Types = {"SLACK", "SMS", "TEST", "ZAMMAD"}
  EnvAllows = {"SLACK", "ZAMMAD"}
  Unsure = {"SLACK"}
  Editable = {"SLACK", "SMS"}
  Preset = {"SMS"}
  Handlers = {h1, h2}
  NoHandler = NoHandler
  NoReply = NoReply
  NoTarget = NoTarget
  MaxPosts = 2
  MaxEdits = 2
  MaxFaults = 1
SPECIFICATION FairSpec
INVARIANTS
  TypeOK
  OncePerClaim
  BindingKept
  LogMatchesSent
  SuccessMeansAllTried
PROPERTIES
  ReplyIsSettled
CHECK_DEADLOCK FALSE
