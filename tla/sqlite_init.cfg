\* Three processes that construct, delete and crash at any moment.
CONSTANTS
  Objects = {a, b, c}
  Server = Server
  Client = Client
  AutoRole = AutoRole
  Asked = {AutoRole, Server, Client}
SPECIFICATION Spec
INVARIANTS
  TypeOK
  OneAutoServer
  FailsForACause
  ApartOnlyIfStranded
PROPERTIES
  RemovesOwnFile
  RendezvousSpec
\* The program stops when every object is gone.
CHECK_DEADLOCK FALSE
