\* Messages both ways, never overwritten; either process may abort, or crash, and start again.
CONSTANTS
  Server = Server
  Client = Client
  news = news
  state = state
  Names = {news, state}
  Types <- PlainOnly
  Listened <- PlainOnly
  Repliers = {Client}
  MaxSent <- SentTwoAndOne
  Closable = {Client}
  MaxRestarts = 1
SPECIFICATION Spec
INVARIANTS
  TypeOK
  PlainExactlyOnceInOrder
PROPERTIES
  FifoLinkSpec
  RowsLeaveForInbox
\* The program stops when both objects are deleted or both processes aborted.
CHECK_DEADLOCK FALSE
