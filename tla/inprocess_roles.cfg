\* Three objects on one channel, constructed and deleted at any moment.
CONSTANTS
  Objects = {a, b, c}
  Server = Server
  Client = Client
  AutoRole = AutoRole
  Asked = {AutoRole, Server, Client}
  MaxSent = 1
SPECIFICATION Spec
INVARIANTS
  TypeOK
  FirstComerServes
  OnlyFromPeers
  NothingDoubled
PROPERTY RendezvousSpec
SYMMETRY ObjectsAreAlike
\* The program stops when every object has been deleted.
CHECK_DEADLOCK FALSE
