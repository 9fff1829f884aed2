\* Listeners at both ends send; the sockets hold one frame.
CONSTANTS
  Server = Server
  Client = Client
  Types = {ask}
  Listened = {ask}
  Repliers = {Server, Client}
  EmptyTypes = {}
  Garbage = Garbage
  Recreatable = {}
  Capacity = 1
  MaxSent <- SentThree
  Closable = {}
SPECIFICATION FairSpec
PROPERTIES
  HandledOrGridlock
\* Gridlock stops the program.
CHECK_DEADLOCK FALSE
