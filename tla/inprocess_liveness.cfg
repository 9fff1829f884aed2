\* The Server sends up to two messages, the Client answers once or sends
\* one of its own; both objects may be destroyed at any moment.
CONSTANTS
  Server = Server
  Client = Client
  Types = {ask}
  Listened = {ask}
  Repliers = {Server, Client}
  MaxSent <- SentTwoAndOne
  Closable = {Server, Client}
SPECIFICATION FairSpec
PROPERTIES
  EveryMessageHandled
  ReceiveThreadStops
  SendThreadStops
\* The program stops when both objects are deleted.
CHECK_DEADLOCK FALSE
