\* Two commands, lists of up to two, a server that blocks on two unread lines.
SPECIFICATION FairSpec
CONSTANTS
  Cmd = {status, add}
  BodyKinds = {"element", "noColon", "noSpace"}
  MaxList = 2
  Window = 2
INVARIANTS
  InSync
  ReplyMatchesRequest
PROPERTIES
  ImplementsSession
  CallReturns
