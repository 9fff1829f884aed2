\* One message from the Server; both objects are destroyed, as in the tests.
CONSTANTS
  Server = Server
  Client = Client
  Types = {ask}
  Listened = {ask}
  Repliers = {Server, Client}
  MaxSent <- SentOneAndNone
  Closable = {Server, Client}
SPECIFICATION FairSpec
PROPERTY DestructorReturns
\* The program stops when both objects are deleted.
CHECK_DEADLOCK FALSE
