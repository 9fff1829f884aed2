--------------------------- MODULE InprocessRoles ---------------------------
(***************************************************************************)
(* The construction and deletion of IPCMediumInprocess objects on one      *)
(* channel name, any number of them and from several threads: the choice   *)
(* of the role, and the queues in static maps, which outlive the objects   *)
(* (src/ipc_medium_inprocess.cpp).  The static maps and their locks belong *)
(* to all channels of the process: the constructors of other channels      *)
(* insert into them at any moment.                                         *)
(*                                                                         *)
(* What the Petunia objects above do is reduced to its effect on the       *)
(* queues: messages are submitted to an outbox, swapped with the queue of  *)
(* the other role, and fetched; InprocessPair has the detail.              *)
(***************************************************************************)
EXTENDS Naturals, FiniteSets, SequencesExt

CONSTANTS
  Objects,       \* the objects constructed on the channel, each once
  Server, Client, AutoRole,  \* the members of ConnectionRole
  Asked,         \* the roles the application asks for
  MaxSent        \* bound: the messages submitted by each object

ASSUME InprocessRolesAssumption ==
  /\ Server # Client /\ AutoRole \notin {Server, Client}
  /\ "none" \notin {Server, Client}
  /\ Asked \subseteq {Server, Client, AutoRole}
  /\ MaxSent \in Nat

Roles == {Server, Client}

Opposite(r) == IF r = Server THEN Client ELSE Server

VARIABLES
  careful, \* the application asks for Auto, constructs one object after the
           \* other, whatever their channels, and never more than two of this
  pc,      \* pc[o]    : where o is in its life
  asked,   \* asked[o] : the role the application asks for
  role,    \* role[o]  : m_connection_role
  elsewhere, \* an object of another channel is changing s_to_server_messages,
             \* s_to_server_lock held
  exists,  \* the receiving roles whose static map has a queue for the channel
  queue,   \* queue[r] : that queue
  outbox,  \* outbox[o]: submitted at o and not sent
  sent,    \* sent[o]  : how many messages o has submitted
  got,     \* history: the messages o has fetched
  before,  \* history: the objects constructed before the construction of o began
  blurred  \* history: the objects that asked for Auto and looked for a Server
           \* while an object of another channel was inserting

vars == <<careful, asked, pc, role, elsewhere, exists, queue, outbox, sent, got,
          before, blurred>>

PCs == {"unborn",
        "detect",     \* entering InitializeRole
        "toServer",   \* entering EnsureToServerChannelExists
        "inserting",  \* changing s_to_server_messages, s_to_server_lock held
        "toClient",   \* entering EnsureToClientChannelExists
        "alive",
        "dead"}

Constructing == {o \in Objects : pc[o] \in {"detect", "toServer", "inserting", "toClient"}}

Alive == {o \in Objects : pc[o] = "alive"}

Dead == {o \in Objects : pc[o] = "dead"}

\* s_to_server_lock is free: nobody is changing s_to_server_messages.
Unlocked == ~elsewhere /\ \A p \in Objects : pc[p] # "inserting"

Init ==
  /\ pc = [o \in Objects |-> "unborn"]
  /\ asked \in [Objects -> Asked]
  /\ careful \in {c \in BOOLEAN : c => \A o \in Objects : asked[o] = AutoRole}
  /\ role = asked
  /\ elsewhere = FALSE
  /\ exists = {}
  /\ queue = [r \in Roles |-> <<>>]
  /\ outbox = [o \in Objects |-> <<>>]
  /\ sent = [o \in Objects |-> 0]
  /\ got = [o \in Objects |-> <<>>]
  /\ before = [o \in Objects |-> {}]
  /\ blurred = {}

Moves(o, from, to) ==
  /\ pc[o] = from
  /\ pc' = [pc EXCEPT ![o] = to]

\* A constructor on another channel begins to insert a queue into the map,
\* which may move everything that is in it, and is done.
InsertElsewhere ==
  /\ Unlocked
  /\ careful => Constructing = {}
  /\ elsewhere' = TRUE
  /\ UNCHANGED <<careful, asked, pc, role, exists, queue, outbox, sent, got, before, blurred>>

InsertedElsewhere ==
  /\ elsewhere
  /\ elsewhere' = FALSE
  /\ UNCHANGED <<careful, asked, pc, role, exists, queue, outbox, sent, got, before, blurred>>

Construct(o) ==
  /\ careful => Constructing = {} /\ ~elsewhere /\ Cardinality(Alive \union Dead) < 2
  /\ Moves(o, "unborn", "detect")
  /\ before' = [before EXCEPT ![o] = Alive \union Dead]
  /\ UNCHANGED <<careful, asked, role, elsewhere, exists, queue, outbox, sent, got, blurred>>

\* Faulty variant: the map is searched for something else.
FoundNothing == {FALSE}

\* What find on s_to_server_messages may answer: it takes no lock, and a
\* thread that is inserting meanwhile, for whatever channel, leaves the answer
\* open.  (It may also end the process, and with it everything that could go
\* wrong here.)
Found == IF Unlocked THEN {Server \in exists} ELSE BOOLEAN

Looks(o) ==
  /\ Moves(o, "detect", "toServer")
  /\ blurred' = IF elsewhere /\ asked[o] = AutoRole THEN blurred \union {o} ELSE blurred
  /\ UNCHANGED <<careful, asked, elsewhere, exists, queue, outbox, sent, got, before>>

\* Faulty variant: the answer is read the wrong way round.
DetectReversed(o) ==
  /\ Looks(o)
  /\ \E found \in Found :
       role' = [role EXCEPT ![o] = IF @ # AutoRole THEN @ ELSE IF found THEN Server ELSE Client]

\* Faulty variant: Auto is left for the threads to make something of.
DetectLater(o) == Looks(o) /\ UNCHANGED role

\* With Auto, the first to come is the Server.
Detect(o) ==
  /\ Looks(o)
  /\ \E found \in Found :
       role' = [role EXCEPT ![o] = IF @ # AutoRole THEN @ ELSE IF found THEN Client ELSE Server]

EnsureToServer(o) ==
  /\ Unlocked
  /\ Moves(o, "toServer", IF Server \in exists THEN "toClient" ELSE "inserting")
  /\ UNCHANGED <<careful, asked, role, elsewhere, exists, queue, outbox, sent, got, before,
                 blurred>>

InsertToServer(o) ==
  /\ Moves(o, "inserting", "toClient")
  /\ exists' = exists \union {Server}
  /\ UNCHANGED <<careful, asked, role, elsewhere, queue, outbox, sent, got, before, blurred>>

EnsureToClient(o) ==
  /\ Moves(o, "toClient", "alive")
  /\ exists' = exists \union {Client}
  /\ UNCHANGED <<careful, asked, role, elsewhere, queue, outbox, sent, got, before, blurred>>

Submit(o) ==
  /\ pc[o] = "alive"
  /\ sent[o] < MaxSent
  /\ sent' = [sent EXCEPT ![o] = @ + 1]
  /\ outbox' = [outbox EXCEPT ![o] = Append(@, <<o, sent'[o]>>)]
  /\ UNCHANGED <<careful, asked, pc, role, elsewhere, exists, queue, got, before, blurred>>

\* Faulty variant: the maps of the two directions are mixed up.
OwnQueue(o) == role[o]

SendQueueOf(o) == Opposite(role[o])

\* Whatever is in the queue comes back, whoever put it there.
SendMessages(o) ==
  /\ pc[o] = "alive"
  /\ SendQueueOf(o) = Server => Unlocked
  /\ outbox[o] # <<>>
  /\ queue' = [queue EXCEPT ![SendQueueOf(o)] = outbox[o]]
  /\ outbox' = [outbox EXCEPT ![o] = queue[SendQueueOf(o)]]
  /\ UNCHANGED <<careful, asked, pc, role, elsewhere, exists, sent, got, before, blurred>>

\* Faulty variant: the queue is copied and not emptied.
ReceiveCopy(o) ==
  /\ pc[o] = "alive"
  /\ queue[role[o]] # <<>>
  /\ got' = [got EXCEPT ![o] = @ \o queue[role[o]]]
  /\ UNCHANGED <<careful, asked, pc, role, elsewhere, exists, queue, outbox, sent, before,
                 blurred>>

\* The inbox is empty when it is swapped in, and distributed at once here.
ReceiveMessages(o) ==
  /\ pc[o] = "alive"
  /\ role[o] = Server => Unlocked
  /\ queue[role[o]] # <<>>
  /\ got' = [got EXCEPT ![o] = @ \o queue[role[o]]]
  /\ queue' = [queue EXCEPT ![role[o]] = <<>>]
  /\ UNCHANGED <<careful, asked, pc, role, elsewhere, exists, outbox, sent, before,
                 blurred>>

\* Neither the destructor of the medium nor anyone else touches the maps.
Delete(o) ==
  /\ Moves(o, "alive", "dead")
  /\ outbox' = [outbox EXCEPT ![o] = <<>>]
  /\ UNCHANGED <<careful, asked, role, elsewhere, exists, queue, sent, got, before,
                 blurred>>

Next ==
  \/ InsertElsewhere \/ InsertedElsewhere
  \/ \E o \in Objects :
       \/ Construct(o) \/ Detect(o)
       \/ EnsureToServer(o) \/ InsertToServer(o) \/ EnsureToClient(o)
       \/ Submit(o) \/ SendMessages(o) \/ ReceiveMessages(o) \/ Delete(o)

Spec == Init /\ [][Next]_vars

-----------------------------------------------------------------------------

TypeOK ==
  /\ careful \in BOOLEAN
  /\ pc \in [Objects -> PCs]
  /\ asked \in [Objects -> Asked]
  /\ role \in [Objects -> Roles \union {AutoRole}]
  /\ \A o \in Objects : pc[o] \notin {"unborn", "detect"} => role[o] \in Roles
  /\ elsewhere \in BOOLEAN
  /\ exists \subseteq Roles
  /\ queue \in [Roles -> Seq(Objects \X Nat)]
  /\ outbox \in [Objects -> Seq(Objects \X Nat)]
  /\ sent \in [Objects -> 0..MaxSent]
  /\ got \in [Objects -> Seq(Objects \X Nat)]
  /\ before \in [Objects -> SUBSET Objects]
  /\ blurred \subseteq Objects

\* Both queues are there for whoever sends or receives: the iterators that
\* SendMessages and ReceiveMessages dereference without a test are valid,
\* and the queues are never replaced once somebody may hold messages.
QueuesExist == Alive \union Dead # {} => exists = Roles

\* An object that asks for Auto does not become a Server when another was
\* constructed before it, nor a Client when it is the first, however the
\* constructors of the channel overlap, although none of them takes the lock
\* to look: only the constructor of another channel, which inserts while it
\* looks, can make it err.
FirstComerServes ==
  \A o \in Objects : asked[o] = AutoRole /\ o \notin blurred =>
    /\ role[o] = Server => before[o] = {}
    /\ role[o] = Client => \E p \in Objects \ {o} : pc[p] \notin {"unborn", "detect", "toServer"}

\* An object only ever fetches messages submitted at objects of the other
\* role, although unsent batches are taken over from object to object.
OnlyFromPeers ==
  \A o \in Objects : \A m \in ToSet(got[o]) : role[m[1]] = Opposite(role[o])

\* Where messages are: outboxes, the two static queues, and what has been
\* fetched.
Holders == ({"outbox", "got"} \X Objects) \union ({"queue"} \X Roles)

Holding(h) ==
  CASE h[1] = "outbox" -> outbox[h[2]]
    [] h[1] = "got"    -> got[h[2]]
    [] h[1] = "queue"  -> queue[h[2]]

\* No message is fetched twice, or is in two places at once, even when an
\* object takes back a batch that a deleted one has left in the queue.
NothingDoubled ==
  \A h, k \in Holders : \A i \in DOMAIN Holding(h), j \in DOMAIN Holding(k) :
    Holding(h)[i] = Holding(k)[j] => h = k /\ i = j

\* Two objects that ask for Auto, constructed one after the other, become
\* one Server and one Client: with a careful application the module
\* implements Rendezvous.
Meeting == INSTANCE Rendezvous WITH
  Places <- {"queues"},
  role <- [o \in Objects |-> IF o \in Alive THEN role[o] ELSE "none"],
  place <- [o \in Objects |-> "queues"]

RendezvousSpec ==
  /\ careful => Meeting!Init
  /\ [][careful => [Meeting!Next]_(Meeting!meetingVars)]_vars

=============================================================================
