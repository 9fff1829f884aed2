----------------------------- MODULE SqliteInit -----------------------------
(***************************************************************************)
(* The construction and deletion of IPCMediumDefault objects on one        *)
(* channel name, each in a process of its own: the folder, the database    *)
(* file, the role, the tables, and the removal of the file by a Server     *)
(* (src/ipc_medium_default.cpp, with GetPetuniaFolder of src/petunia.cpp   *)
(* and the POSIX half of src/osutils.cpp).                                 *)
(*                                                                         *)
(* A file that is removed while connections are open to it lives on for    *)
(* them, as POSIX has it; the next open under the same path makes another. *)
(* Every statement of the constructor is its own transaction, and several  *)
(* processes run theirs in any order.                                      *)
(***************************************************************************)
EXTENDS Naturals, FiniteSets

CONSTANTS
  Objects,       \* the objects constructed on the channel, each once
  Server, Client, AutoRole,  \* the members of ConnectionRole
  Asked          \* the roles the application asks for

ASSUME SqliteInitAssumption ==
  /\ IsFiniteSet(Objects)
  /\ Server # Client /\ AutoRole \notin {Server, Client}
  /\ "none" \notin {Server, Client}
  /\ Asked \subseteq {Server, Client, AutoRole}

Roles == {Server, Client}

\* There are never more files than objects; 0 is no file.
Files == 1..Cardinality(Objects)

VARIABLES
  careful,  \* the application asks for Auto, constructs one object at a time,
            \* and only while at most one lives, deletes the Server last, and
            \* no process crashes
  pc,       \* pc[o]    : where the constructor or destructor of o is
  asked,    \* asked[o] : the role the application asks for
  role,     \* role[o]  : m_connection_role
  folder,   \* the Petunia folder exists
  path,     \* the file under the channel's path
  newest,   \* the file created last
  schema,   \* schema[f]: how many of the statements that make the two tables
            \*            and their indices have been executed on f
  made,     \* made[o]  : how many of them o has executed
  conn,     \* conn[o]  : the file o has opened
  met,      \* history: the objects whose construction or deletion overlapped
            \*          with the construction of o
  stranded  \* history: the path of o's file was removed while o had it open

vars == <<careful, asked, pc, role, folder, path, newest, schema, made, conn, met, stranded>>

\* The statements of InitializeDatabase, in order: both tables are there
\* after the second.
Statements == 4
TablesMade == 2

PCs == {"unborn",
        "exists",   \* FolderExists, called by GetPetuniaFolder
        "create",   \* FolderExists, called by CreateFolder
        "mkdir",
        "open",
        "look",     \* tableExists("to_client")
        "tables",   \* creating the tables and indices
        "prepare",  \* CreateStatements
        "alive",
        "closed",   \* in the destructor, the connection closed
        "dead",
        "nofolder", "failed",  \* the constructor has thrown
        "crashed"}

Constructing ==
  {o \in Objects : pc[o] \in {"exists", "create", "mkdir", "open", "look", "tables", "prepare"}}

Alive == {o \in Objects : pc[o] = "alive"}

Busy == Constructing \union {o \in Objects : pc[o] = "closed"}

Init ==
  /\ pc = [o \in Objects |-> "unborn"]
  /\ asked \in [Objects -> Asked]
  /\ careful \in {c \in BOOLEAN : c => \A o \in Objects : asked[o] = AutoRole}
  /\ role = asked
  /\ folder = FALSE
  /\ path = 0
  /\ newest = 0
  /\ schema = [f \in Files |-> 0]
  /\ made = [o \in Objects |-> 0]
  /\ conn = [o \in Objects |-> 0]
  /\ met = [o \in Objects |-> {}]
  /\ stranded = [o \in Objects |-> FALSE]

Moves(o, from, to) ==
  /\ pc[o] = from
  /\ pc' = [pc EXCEPT ![o] = to]

-----------------------------------------------------------------------------
(* The constructor.                                                        *)

Construct(o) ==
  /\ careful => Busy = {} /\ Cardinality(Alive) < 2
  /\ Moves(o, "unborn", "exists")
  /\ met' = [p \in Objects |-> IF p = o THEN Busy
                               ELSE IF p \in Constructing THEN met[p] \union {o}
                               ELSE met[p]]
  /\ UNCHANGED <<careful, asked, role, folder, path, newest, schema, made, conn, stranded>>

\* GetPetuniaFolder looks for the folder, and so does CreateFolder.
FindFolder(o) ==
  /\ \/ Moves(o, "exists", IF folder THEN "open" ELSE "create")
     \/ Moves(o, "create", IF folder THEN "open" ELSE "mkdir")
  /\ UNCHANGED <<careful, asked, role, folder, path, newest, schema, made, conn, met, stranded>>

\* mkdir fails when the folder is there by now; GetPetuniaFolder then
\* returns nullptr as a std::string, which throws.
MakeFolder(o) ==
  /\ Moves(o, "mkdir", IF folder THEN "nofolder" ELSE "open")
  /\ folder' = TRUE
  /\ UNCHANGED <<careful, asked, role, path, newest, schema, made, conn, met, stranded>>

\* Faulty variant: a Server starts with a new file.
OpenFresh(o) ==
  /\ Moves(o, "open", "look")
  /\ path' = IF path = 0 \/ role[o] = Server THEN newest + 1 ELSE path
  /\ newest' = IF path' = path THEN newest ELSE path'
  /\ conn' = [conn EXCEPT ![o] = path']
  /\ UNCHANGED <<careful, asked, role, folder, schema, made, met, stranded>>

\* sqlite3_open makes the file when there is none.
Open(o) ==
  /\ Moves(o, "open", "look")
  /\ path' = IF path = 0 THEN newest + 1 ELSE path
  /\ newest' = IF path = 0 THEN newest + 1 ELSE newest
  /\ conn' = [conn EXCEPT ![o] = path']
  /\ UNCHANGED <<careful, asked, role, folder, schema, made, met, stranded>>

\* Faulty variant: Auto is not resolved.
LookOnly(o) ==
  /\ Moves(o, "look", IF schema[conn[o]] > 0 THEN "prepare" ELSE "tables")
  /\ UNCHANGED <<careful, asked, role, folder, path, newest, schema, made, conn, met, stranded>>

\* Faulty variant: only a Server creates the tables.
LookByRole(o) ==
  LET created == schema[conn[o]] > 0
  IN  /\ Moves(o, "look", IF created \/ role[o] = Client THEN "prepare" ELSE "tables")
      /\ role' = [role EXCEPT ![o] = IF @ # AutoRole THEN @ ELSE IF created THEN Client ELSE Server]
      /\ UNCHANGED <<careful, asked, folder, path, newest, schema, made, conn, met, stranded>>

\* tableExists, and the role that follows from it with Auto.
Look(o) ==
  LET created == schema[conn[o]] > 0
  IN  /\ Moves(o, "look", IF created THEN "prepare" ELSE "tables")
      /\ role' = [role EXCEPT ![o] = IF @ # AutoRole THEN @ ELSE IF created THEN Client ELSE Server]
      /\ UNCHANGED <<careful, asked, folder, path, newest, schema, made, conn, met, stranded>>

\* Faulty variant: CREATE TABLE IF NOT EXISTS, and the same for the indices.
CreateTablesIfMissing(o) ==
  /\ Moves(o, "tables", IF made[o] + 1 = Statements THEN "prepare" ELSE "tables")
  /\ made' = [made EXCEPT ![o] = @ + 1]
  /\ schema' = [schema EXCEPT ![conn[o]] = IF @ > made[o] THEN @ ELSE @ + 1]
  /\ UNCHANGED <<careful, asked, role, folder, path, newest, conn, met, stranded>>

\* One CREATE statement: it throws when another process has executed it.
CreateTables(o) ==
  LET f == conn[o]
      mine == made[o] = schema[f]
  IN  /\ Moves(o, "tables", IF ~mine THEN "failed"
                            ELSE IF made[o] + 1 = Statements THEN "prepare"
                            ELSE "tables")
      /\ made' = IF mine THEN [made EXCEPT ![o] = @ + 1] ELSE made
      /\ schema' = IF mine THEN [schema EXCEPT ![f] = @ + 1] ELSE schema
      /\ UNCHANGED <<careful, asked, role, folder, path, newest, conn, met, stranded>>

\* CreateStatements names both tables, and throws when one is missing.
Prepare(o) ==
  /\ Moves(o, "prepare", IF schema[conn[o]] >= TablesMade THEN "alive" ELSE "failed")
  /\ UNCHANGED <<careful, asked, role, folder, path, newest, schema, made, conn, met, stranded>>

-----------------------------------------------------------------------------
(* The destructor, and crashes.                                            *)

Close(o) ==
  /\ careful => Busy = {} /\ (role[o] = Server => Alive = {o})
  /\ Moves(o, "alive", "closed")
  /\ met' = [p \in Objects |-> IF p \in Constructing THEN met[p] \union {o} ELSE met[p]]
  /\ UNCHANGED <<careful, asked, role, folder, path, newest, schema, made, conn, stranded>>

\* Faulty variant: the file is removed whatever the role.
Removes(o) == TRUE

\* if (m_connection_role == Server): the connection has been closed before.
RemovesChannel(o) == role[o] = Server

\* TryDeleteChannel removes what is under the path now.
TryDeleteChannel(o) ==
  /\ Moves(o, "closed", "dead")
  /\ IF RemovesChannel(o) /\ path # 0
       THEN /\ path' = 0
            /\ stranded' = [p \in Objects |-> stranded[p] \/ (p # o /\ conn[p] = path)]
       ELSE UNCHANGED <<path, stranded>>
  /\ UNCHANGED <<careful, asked, role, folder, newest, schema, made, conn, met>>

\* Only the folder and the files survive.
Crash(o) ==
  /\ ~careful
  /\ o \in Busy \union Alive
  /\ pc' = [pc EXCEPT ![o] = "crashed"]
  /\ UNCHANGED <<careful, asked, role, folder, path, newest, schema, made, conn, met, stranded>>

Next ==
  \E o \in Objects :
    \/ Construct(o) \/ FindFolder(o) \/ MakeFolder(o) \/ Open(o) \/ Look(o)
    \/ CreateTables(o) \/ Prepare(o)
    \/ Close(o) \/ TryDeleteChannel(o) \/ Crash(o)

Spec == Init /\ [][Next]_vars

-----------------------------------------------------------------------------

TypeOK ==
  /\ careful \in BOOLEAN
  /\ asked \in [Objects -> Asked]
  /\ pc \in [Objects -> PCs]
  /\ role \in [Objects -> Roles \union {AutoRole}]
  /\ folder \in BOOLEAN
  /\ newest \in {0} \union Files
  /\ path \in {0, newest}
  /\ schema \in [Files -> 0..Statements]
  /\ made \in [Objects -> 0..Statements]
  /\ conn \in [Objects -> 0..newest]
  /\ met \in [Objects -> SUBSET Objects]
  /\ stranded \in [Objects -> BOOLEAN]
  /\ \A o \in Alive : role[o] \in Roles

\* However many processes look for the tables before any has made them, a
\* file never has two living objects that both concluded they were the
\* Server: CREATE TABLE, which only one of them gets past, decides.
OneAutoServer ==
  \A o, p \in Alive :
    /\ o # p /\ asked[o] = AutoRole /\ asked[p] = AutoRole
    /\ role[o] = Server /\ role[p] = Server
    => conn[o] # conn[p]

\* A constructor fails over the folder only if another object was being
\* constructed at the same time, and over the tables only if another was
\* being constructed or deleted, or if a process crashed after it had made
\* the first table of the file and before the second: nothing can be
\* constructed on such a file any more.
FailsForACause ==
  \A o \in Objects :
    /\ pc[o] = "nofolder" => met[o] # {}
    /\ pc[o] = "failed" =>
         \/ met[o] # {}
         \/ \E p \in Objects :
              pc[p] = "crashed" /\ conn[p] = conn[o] /\ made[p] \in 1..(TablesMade - 1)

\* Two living objects that have different files open, and so never hear of
\* each other, are apart because the file of one was removed while it had it
\* open.
ApartOnlyIfStranded ==
  \A o, p \in Alive : conn[o] # conn[p] => stranded[o] \/ stranded[p]

\* The destructor of a Server removes the file it had open and no other,
\* unless another Server had been deleted before it.
RemovesOwnFile ==
  [][\A o \in Objects : pc[o] = "closed" /\ path' # path /\ pc'[o] = "dead" =>
       \/ conn[o] = path
       \/ \E p \in Objects \ {o} : role[p] = Server /\ pc[p] = "dead"]_vars

\* Used with care, the objects of a channel are one Server and one Client at
\* most, with one file open, however often they are deleted and others
\* constructed: the module implements Rendezvous.
Meeting == INSTANCE Rendezvous WITH
  Places <- {0} \union Files,
  role <- [o \in Objects |-> IF o \in Alive THEN role[o] ELSE "none"],
  place <- conn

RendezvousSpec ==
  /\ careful => Meeting!Init
  /\ [][careful => [Meeting!Next]_(Meeting!meetingVars)]_vars

=============================================================================
