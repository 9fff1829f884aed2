\* Only the Client's listeners send; the sockets hold one frame, and both
\* objects may be destroyed with messages under way.
CONSTANTS
  Server = Server
  Client = Client
  Types = {ask}
  Listened = {ask}
  Repliers = {Client}
  EmptyTypes = {}
  Garbage = Garbage
  Recreatable = {}
  Capacity = 1
  MaxSent <- SentTwoAndOne
  Closable = {Server, Client}
SPECIFICATION FairSpec
PROPERTIES
  EveryMessageHandled
  DestructorReturnsOrStuck
\* The program stops when both objects are deleted.
CHECK_DEADLOCK FALSE
