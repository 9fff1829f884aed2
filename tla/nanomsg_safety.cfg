\* Messages with and without payload both ways, sockets that hold less than
\* they are sent; the Client is deleted at any moment and created again.
CONSTANTS
  Server = Server
  Client = Client
  Types = {ask, empty}
  Listened = {ask}
  Repliers = {Server, Client}
  EmptyTypes = {empty}
  Garbage = Garbage
  Recreatable = {Client}
  Capacity = 2
  MaxSent <- SentTwoAndOne
  Closable = {Client}
SPECIFICATION Spec
INVARIANTS
  TypeOK
  ExactlyOnceInOrder
  WholeMessages
  GenuineUnlessCut
PROPERTY FifoLinkSpec
\* The program stops when the Server blocks in nn_send for ever.
CHECK_DEADLOCK FALSE
