\* Both ends submit up to two messages each, as replies or on their own, and
\* both objects may be destroyed at any moment.
CONSTANTS
  Server = Server
  Client = Client
  Types = {ask}
  Listened = {ask}
  Repliers = {Server, Client}
  MaxSent <- SentBoth
  Closable = {Server, Client}
SPECIFICATION Spec
SYMMETRY RoleSymmetry
INVARIANTS
  TypeOK
  ExactlyOnePlace
  SleepsOnlyWhenEmpty
  SendsOnlyBatches
  BatchesInOrder
PROPERTIES
  FetchEmptiesChannel
  LinkSpec
\* The program stops when both objects are deleted.
CHECK_DEADLOCK FALSE
