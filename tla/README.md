# Petunia in TLA+

Petunia is a small C++ library for pair communication: two `Petunia` objects,
one in the Server role and one in the Client role, exchange typed messages
through an interchangeable medium. This directory holds TLA+ modules for the
parts of it that are hard to test, TLC configurations that check them on small
instances, and TLAPS proofs for every instance.

Paths below are relative to the repository.

## The system

| Part | Source | State | Operations |
|---|---|---|---|
| Petunia object | `src/petunia.cpp` | two queues, `m_send_lock`, `m_receive_lock`, a condition variable, `m_running` (plain `bool`), two threads, the listener map | `SendMessage`, `UpdateMessage`, `Distribute`, `SendThreadLoop`, `ReceiveThreadLoop`, `TerminateMQThread` |
| Listener registry | `src/petunia.cpp:136-180` | name to list of functions, unlocked | `AddListener`, `RemoveListeners`, `Clear`, `ClearListeners` |
| Inprocess medium | `src/ipc_medium_inprocess.cpp` | per channel name two static queues, each direction with a static mutex | `SendMessages`, `ReceiveMessages` (queue swaps), `InitializeRole` |
| Nanomsg medium | `src/ipc_medium_nanomsg.cpp` | one nanomsg PAIR socket | `SendMessages` (two frames per message), `ReceiveMessages` |
| Default medium | `src/ipc_medium_default.cpp` | one SQLite file with a table per direction, one connection per object | `InitializeDatabase`, `SendMessages`, `ReceiveMessages`, `TryDeleteChannel` |
| Message, IPCMedium, OSUtils | `src/message.cpp`, `src/ipc_medium.cpp`, `src/osutils.cpp` | type, payload, overwrite flag; channel name and role | accessors, file and folder helpers |

How they interact: the application and the listeners call `SendMessage`, which
pushes under `m_send_lock` and notifies the send thread. The send thread keeps
that lock while it runs `SendMessages` of the medium. The receive thread calls
`ReceiveMessages` and, when something came, `Distribute`, which runs the
listeners; a listener may call `SendMessage` on its own object. The media share
state: static queues, a pair of sockets, or a database file. The destructor
clears `m_running`, notifies, and joins both threads.

What is hard, and the properties that make each part correct:

* **Petunia object**: wakeups against pushes and against the destructor, two
  unsynchronised reads of `m_running`, a listener that waits for a lock the send
  thread takes again and again. No message may be left behind in a queue for
  want of a wakeup; the medium is called with work only; both threads end.
* **Inprocess medium**: `swap` does not only move a batch forward, it also
  brings back what the receiver has not fetched. Nothing may be lost or doubled,
  batches must stay internally ordered, and everything must still arrive.
* **Nanomsg medium**: a message is two frames with two blocking points, one
  of them with `m_send_lock` held. Types and payloads may not get out of step,
  messages arrive in order, and the ways of blocking for ever must be known.
* **Listener registry**: a map read by the receive thread and written by the
  application and by listeners, without a lock; iterators kept over a callback.
* **Roles and lifetime** (`InitializeRole`, `InitializeDatabase`): an `Auto`
  role is decided by checking a shared map or file and acting on it later, the map
  being shared with all other channels; the
  static queues and their messages outlive the objects.
* **Default medium**: two threads share one connection, its transactions and its
  locks, in any of which a statement may throw; rows are selected and deleted in two transactions; overwriting updates rows
  that may be being read.

`PROJECT.json` lists the hazards one by one, each at its line.

## The modules

| Module | What it is |
|---|---|
| `Messages` | endpoints, peers, messages |
| `Petunia` | one action per step of the object's two threads and of the application; the calls into the medium left open |
| `InprocessPair` | two `Petunia` objects over the Inprocess medium, and its properties |
| `NanomsgPair` | two `Petunia` objects over the Nanomsg medium, and its properties |
| `SqlitePair` | two `Petunia` objects over the Default medium, with crashes and restarts |
| `Listeners` | the listener registry of one object, statement by statement |
| `InprocessRoles` | construction, roles and deletion of Inprocess objects on one channel name |
| `SqliteInit` | construction, roles and deletion of Default objects on one path |
| `PairLink` | abstract: every message is handled at most once, by the other end, and never disappears |
| `FifoLink` | abstract: messages are handled in order, but may be lost on the way |
| `Dispatcher` | abstract: each message goes to whoever is registered when its turn comes |
| `Rendezvous` | abstract: a channel has one Server and one Client at most, in one place |
| `InprocessPairProofs`, `InprocessLinkProofs` | theorems about `InprocessPair` |
| `InprocessRolesProofs`, `SqliteInitProofs`, `ListenersProofs` | theorems about `InprocessRoles`, `SqliteInit` and `Listeners` |
| `NanomsgPairProofs`, `SqlitePairProofs` | theorems about `NanomsgPair` and `SqlitePair` |
| `QueueLemmas` | lemmas about queues: pushing, popping, concatenating, filtering |
| `MCInprocessPair`, `MCNanomsgPair`, `MCSqlitePair`, `MCInprocessRoles` | instances for TLC |

`InprocessPair`, `NanomsgPair` and `SqlitePair` extend `Petunia`, supply the two
medium calls, and compose both ends with what connects them. `Listeners`,
`InprocessRoles` and `SqliteInit` stand on their own: each takes up what the pairs
assume (a fixed set of listeners; fixed roles; a medium that is there), and
reduces the rest of the object to what it does to the state at hand.

### Petunia and the code

`outbox`, `inbox` and `running` are `m_outbox_queue`, `m_inbox_queue` and
`m_running`; `sendPC`, `recvPC` and `appPC` say where the threads are. `sent`
and `handled` are histories: what was passed to `SendMessage`, and what
`Distribute` popped. A message carries the position of its `SendMessage` call
(`seq`); its payload is left out.

`m_send_lock` is not a variable: the send thread holds it exactly at `ready`,
`blocking` and `sending`, and the only other section under it is `SendMessage`,
one action whose guard is that the send thread does not hold it. The wait is
`SendAcquire` (lock, evaluate the predicate), `SendBlock` (release and block in
one step) and `NotifyAll` or `SpuriousWakeup`. Between `SendAcquire` and
`SendBlock` the mutex is held but the thread is not blocked yet: a notification
that is not sent under the mutex is lost there. `m_receive_lock` is used by the
receive thread alone and is left out.

`Distribute` pops one message and runs its listener, if the type has one; the
listener either does nothing visible or calls `SendMessage` (`Reply`, a step of
its own because it waits for the lock). The destructor is `StopRunning`,
`StopNotify` and `JoinAndDelete`, because other threads run in between.

`m_running` is read and written without synchronisation, which the language
calls undefined. Each loop calls lock functions the compiler cannot see
through, so it reads the variable anew each time, and a `bool` is read
and written in one piece; the model has every interleaving of those accesses.

Listeners are registered before messages arrive, as in the tests, at most one
per type; `Listeners` does without that assumption. `UpdateMessage` differs from
`SendMessage` in a flag that only the Default medium reads: see `SqlitePair`.

### InprocessPair and the code

`channel[e]` is the static queue `e` receives from, for one channel name and
explicit roles. `SendMessages` and `ReceiveMessages` are one critical section
each. When the peer has not fetched the last batch, the batch returns to the
outbox and the new one takes its place: messages of different batches may
overtake each other, any number of times, and the send thread keeps swapping
as long as the outbox is not empty. The code nowhere promises an order, and no
property here claims one between batches.

### NanomsgPair and the code

`pipe[e]` is the queue of frames towards `e`, `held[e]` the type read and not
yet followed by its payload, `sendPart[e]` the frame sent next. The sockets are
external: they are modelled from how the code uses them, as bounded FIFO queues
(`Capacity` frames in each direction) that exist while the two sockets are
connected, lose what is under way when one of them is closed, and block
`nn_send` when full or not connected, `nn_recv` without `NN_DONTWAIT` when empty.
`EmptyTypes` are the types sent with an empty payload: `recv` then returns 0,
which `ReceiveMessages` takes for failure, and the message is dropped.

The two source files of the Nanomsg and the Default medium define different
classes under one name, `Petunia::IPCInternalMedium`, so that a program that links
both may run either code for both. The model is of the class in
`ipc_medium_nanomsg.cpp`, as in a program that links that one only.

A deleted Client may be created again on the address (`Recreate`), once the Server
has noticed that it is gone. The frames of the old connection are lost, but the
Server's send thread may be between its two frames, and its receive thread
waiting for a payload: the new connection then begins in the middle of a message
(`cut`). From there on the code reads whatever frame comes as what it expects. A
payload read as a type is `Garbage`; a frame read as a payload has the type that
is held, and number 0 if it was a type frame; the loop ends at an empty payload
read as a type. `GenuineUnlessCut` says that this is the only way to get wrong
messages, and `FifoLinkSpec` that `FifoLink` is implemented until it happens.

### SqlitePair and the code

`table[e]` is the committed contents of the table `e` receives from (`to_client`
for the Client), in the order of `row_id`: an `INTEGER PRIMARY KEY` grows
with every insertion while there are rows, and a table scan follows it. `txn[e]`
says which of the two threads of `e` is in a transaction on their common
connection, `selected[e]` is `delete_reference_id` as a number of rows. A type
is a record of the listener name and the overwrite flag, which `UpdateMessage`
(`src/petunia.cpp:43-47`) sets before it does what `SendMessage` does.

`BEGIN` is a step of its own, because the other thread of the object may be in a
transaction: SQLite then refuses it, and `CppSQLite3` throws. No function on the
stack of either thread catches, so that `std::terminate` ends the process, at some
moment: `thrown[e]` says whose transactions have ended this way, `Terminates` is
the end (`aborted`), and until then the other threads go on.

`lock[e]` is the lock that the connection of `e` keeps on the file. `BEGIN` takes
none, since it is deferred. A `SELECT` takes a shared lock, which it gives back at its
end outside a transaction, and which stays until `COMMIT` when the send thread has one
open on the same connection. The first statement that writes (`WriteLock`) takes the
reserved lock, which one connection has at a time. When the other has it, the
statement waits (`busy_timeout`, 30 seconds, taken to be enough), unless its own
connection has a shared lock: the other cannot commit while that is there, so
SQLite does not wait and returns `SQLITE_BUSY`
(`third_party/sqlite3/include/sqlite3/sqlite3.h:2509-2523`), and `CppSQLite3` throws.
`COMMIT` (`CommitLock`) writes to the file when the other connection has no lock.
The statements from the first that writes to `COMMIT` are one step with it: another
connection sees committed rows only, and the other thread of the same connection
reads the other table. `SELECT` is one step as well: the scan holds its lock until the
last row. `clobbered` is a history of the messages that overwrote a row already
selected.

A process may crash between any two steps and be started again (`Crash`,
`Restart`, at most `MaxRestarts` times). The outbox and the inbox are gone; the
committed rows are there, the rows it had selected included. The code sets
`journal_mode = OFF` (line 26), so that SQLite has nothing to roll a half-written
transaction back with. A process that ends, by an exception or a crash, while it
may be executing `COMMIT`, that is with the reserved lock and nobody else reading,
leaves the file either as before or malformed (`Ends`). No row of a malformed
file can be read again: the tables are taken to be empty, every statement but `BEGIN`
throws (`StatementFails`), and nobody is started on it. That SQLite notices is
an assumption about the engine.

Both objects are constructed with explicit roles and find the tables there. On
POSIX systems the file that the Server's destructor removes remains what it was
for a Client that has it open. `SqliteInit` is about the rest.

### Listeners and the code

`map[n]` is the entry of `m_message_listeners` for `n`: 0, or a list identified by
the call of `AddListener` that made it. A list holds its function (`filled`) or is
still empty; it never holds two, because a second `AddListener` for the name does
not get that far. `pc[t]` is the statement the receive thread (`recv`) or the
application (`app`) is about to execute: `test` to `next` in `Distribute` (lines
122-129), `search` to `push` in `AddListener` (139-145), `look` and `erase` in
`RemoveListeners` (152-154), `clear` in `ClearListeners`. Listeners call these
functions from `call`; `back` is where they return to.

The map is a `std::unordered_map`: an insertion may rehash it, and a rehash
invalidates all iterators. When it does is for the library to decide, so `Insert`
may or may not put the iterators that are used again after other code has run
(`Iterators`) into `stale`; `find` makes its own fresh.

Some uses are undefined: `push_front` on the null list, an iterator whose entry has
been erased or that a rehash has invalidated, `front` or `pop` on an empty queue.
The model stops there and records which it was (`broken`). That libraries keep the
nodes of the map where they are, so that using an iterator after a rehash does no harm
with them, is nothing the code can rely on. Two accesses of the
map at the same time are undefined as well; the steps are those of a build in
which each access takes effect at once, so that what the properties promise of
overlapping calls holds of such builds only. `misuse` records what the users of
the object did that leads there, adding a listener from within a listener included:
`BrokenForACause` says that nothing else does.

`DispatcherSpec` is the refinement of `Dispatcher`, as long as the application does
not call `Distribute`. A message is dispatched when
`find` misses it or `begin` enters its list; a name is registered while its list
is in the map and holds the function. In particular a message that arrives before
its listener, or between `insert` and `push_front`, is given to nobody, and
is not kept.

### InprocessRoles and the code

Any number of objects, each constructed once. `exists` says in which of the two
static maps the channel has a queue; `queue[r]` is the queue that role `r` receives
from. `Detect` is the unlocked look at `s_to_server_messages` (line 68): while
another thread inserts (lines 37-39), the answer is left open. The map is that of
all channels of the process, so the other thread may construct an object of the
same channel (`inserting`) or of any other (`elsewhere`, `InsertElsewhere`), which is
all that is modelled of other channels; both hold `s_to_server_lock`, for which senders
and receivers in that direction wait. `blurred` is a history of the Auto objects that
looked while another channel's constructor inserted: they may become anything,
also a second Server (`FirstComerServes` says that only they may). Sending
and receiving are one step each, with what they do to the queues. A destructor
leaves maps and queues alone, so that a later object finds them: with
`AutoRole` it is a Client although no Server lives (`FirstComerServes`), finds
messages in its queue, and may take an unfetched batch of a deleted object back
into its own outbox. `careful`, chosen at the start, restricts the application to
`AutoRole`, one construction at a time whatever the channel, and two objects of this
one; `RendezvousSpec`, the refinement of `Rendezvous`, is about such applications.

### SqliteInit and the code

Any number of processes, each with one object. `path` is the file under the
channel's path, `conn[o]` the file `o` has open, which may be another by now;
`schema[f]` counts the `CREATE` statements (lines 46-49) executed on `f`,
`made[o]` those that `o` has executed. The constructor is `FindFolder` (twice:
`petunia.cpp:104` and `osutils.cpp:80`), `MakeFolder`, `Open`, `Look` (lines
30-44), `CreateTables` once per statement, `Prepare` (`CreateStatements`); it
fails (`failed`, `nofolder`) where the code throws. The destructor is `Close`
and `TryDeleteChannel`. `met` and `stranded` are histories: whose construction
or deletion overlapped, and whether the file was removed while open.

A crash stops a process between two statements and leaves the folder and the file.
That a crash inside a statement may leave a malformed file is in `SqlitePair`.
`remove` succeeds at the first try here, when there is a file. `careful`, chosen at
the start, restricts the application to `AutoRole`, one construction or deletion at a
time, two living objects at most, the Server deleted last, and no crash;
`RendezvousSpec` is about such applications.

## The runs

| Run | Instance | Shows |
|---|---|---|
| `inprocess_safety` | 2 messages each way, both destroyed at any moment | all safety properties of `InprocessPair`, and that it implements `PairLink` |
| `inprocess_liveness` | 2 and 1 messages, both destroyed at any moment | every message is handled while both objects live; the receive thread ends; the send thread ends unless it was about to block |
| `inprocess_destructor` | 1 message | **violated**: the destructor may never return |
| `nanomsg_safety` | 2 and 1 messages, with and without payload, 2 frames per direction, listeners at both ends send, Client deleted and created again | frames stay in step; delivery is exactly once and in order while both objects live; messages are genuine and `FifoLink` is implemented unless a connection began in the middle of a message |
| `nanomsg_liveness` | 2 and 1 messages, 1 frame per direction, only one end's listeners send, both destroyed at any moment | every message is handled while both objects live, however little the sockets hold; the destructor returns or hangs in one of the three ways `DestructorStuck` lists |
| `nanomsg_gridlock` | 3 messages each way, 1 frame per direction, listeners at both ends send | every message is handled, or both ends block each other in `nn_send` |
| `sqlite_fifo` | 2 and 1 messages, Client destroyed, processes may abort, crash and start again (1 restart) | without `UpdateMessage`: exactly once and in order until a restart, `FifoLink` is implemented throughout, and a committed row is lost only with the whole file, when a process ends with the reserved lock while nobody reads |
| `sqlite_update` | 3 messages one way, sent and updated under two names | the latest contents arrive unless overwritten in a selected row or a process was ended, never older ones after newer; the object that only receives is never ended by an exception |
| `sqlite_twoway` | 1 message each way | **violated**: a process is ended by a nested `BEGIN` |
| `inprocess_roles` | 3 objects, any roles asked for, 1 message each, constructed and deleted in any order; constructors of other channels at any moment | the first to ask for Auto serves, unless it looks while another channel's constructor inserts; messages go between the roles and are never doubled, over generations of objects; two Auto objects constructed one after the other implement `Rendezvous` |
| `sqlite_init` | 3 processes, any roles asked for, constructing, deleting and crashing in any order | one Auto Server per file; why constructors fail, objects are apart, files are removed; used with care, Auto objects implement `Rendezvous` over several generations of the file |
| `listeners` | 2 names, 2 messages, 3 additions, 2 removals, the application calls everything | undefined behaviour, iterators invalidated by a rehash included, and lost registrations have one of the causes named; `Dispatcher` is implemented as long as the application does not call `Distribute` |

**Bounds.** `MaxSent[e]` bounds the `SendMessage` calls at `e`, by the application
and by listeners together; `Closable` names the objects that may be destroyed.
Two messages in one direction are the least for a batch to meet an unfetched
one, come back, and be pushed behind; two each way let both directions do it at
once with replies. Gridlock needs three messages at each end: one handled and
answered, one in `nn_send`, one being submitted by the listener. One frame of
capacity is the tightest socket; with two a message can be under way whole. In
`nanomsg_safety` a destroyed Client leaves the Server with lost frames, a
half-sent message and a half-received one. Three messages in `sqlite_update` allow a
row of one name between two of another, all three overwritten or repeated, and
an update at each point between `SELECT` and `DELETE`.

One re-creation of the Client already meets a Server in each of the four states of
being between two frames or not, at either thread. One restart allows a crash at
each step of either process, before or after any message. Three objects are the
least for two to overlap in their construction while a third has been, or is
being, deleted. In `Listeners` two names tell one's own removal from another's,
three additions allow a name to be removed and added again while another thread
holds its entry, and two removals allow both threads to erase at once.

**Symmetry.** `inprocess_safety` permutes the two roles: they only select the
queues. `inprocess_roles` permutes the objects, which no definition tells apart; its
properties are invariants and a property of single steps. The liveness runs use no
symmetry.

**Deadlock** is checked where the program cannot stop (`sqlite_update`: the process
that only receives polls for ever). Elsewhere it can: both objects deleted, both
processes ended, or threads blocked for ever in the ways the properties name. In the runs of
`Listeners`, `InprocessRoles` and `SqliteInit` it stops when nothing more arrives and
every bounded call has been made, or when every object is gone.

**Fairness.** Each thread that can run does (weak fairness per thread, the
scheduler's promise), the sockets are connected and a disconnection is
noticed, a destructor that has begun goes on, and a process in which a thread has
thrown ends. `Reply` has strong fairness: a
listener that waits for `m_send_lock` competes with a send thread which, over the
Inprocess medium, may release and take it again without pause while the peer
does not fetch. `std::mutex` does not promise that the listener ever gets it;
that it does is the assumption, and the delivery of messages rests on it.
Nothing is assumed of `AppSend`, `StopRunning` and `SpuriousWakeup`.

### What the violations show

`TerminateMQThread` (`src/petunia.cpp:91-99`) sets `m_running = false` and calls
`notify_all` without holding `m_send_lock`. If both happen when the send thread
has found the predicate of line 71 false and has not blocked yet, the
notification reaches nobody, the thread blocks for ever, and `join` in line 96
does not return. The tests end with `delete client; delete server;`
(`test/PetuniaTests.cpp:47-48`) and take for granted that both return.
`SendThreadStops` shows that this is the only moment at which it can go wrong
over the Inprocess medium.

Over Nanomsg the destructor has two more ways to hang: the send thread is in
`nn_send` (lines 40 and 41) while the peer is gone or no longer receives, or
the receive thread waits for a payload (line 60) that was lost with the peer.

`sqlite_twoway`: the README offers pair communication between processes over a
SQLite database. An object begins a transaction for what it sends under
`m_send_lock` (`src/ipc_medium_default.cpp:167`) and another for what it deletes
without that lock (line 156), both on its one connection. With a message in each
direction both can be open at once, and the process ends.

`LatestArrives` of `sqlite_update` has an exception that the code has too: an
`UpdateMessage` whose `UPDATE` runs between the peer's `SELECT` and `DELETE`
changes a row that is deleted unread (`SELECT` at line 221, `DELETE` at 233).

### What the conditions show

Some properties that hold name the cases in which the program fails; the runs
reach each of them.

* `BrokenForACause`: `AddListener` keeps a list of functions per name, returns its
  length, and `Distribute` runs through it, but a second call for a name that is
  registered leaves `list` null (`src/petunia.cpp:138-145`) and pushes onto it.
  A listener may not remove itself, since `Distribute` goes on using the entry, and
  may not add another, since the insertion may rehash the map under `Distribute`.
* `FailsForACause`: the POSIX `CreateFolder` (`src/osutils.cpp:84`) takes any failure of
  `mkdir` for one, also that the folder is there by now; its Windows counterpart
  (line 49) does not. `GetPetuniaFolder` then returns `nullptr` as a `std::string`
  (`src/petunia.cpp:108`), which throws out of the constructor. And a process that
  ends between two `CREATE TABLE` statements makes the channel's file unusable.
* `RemovesOwnFile` and `ApartOnlyIfStranded`: a second Server's destructor removes a
  file that is not its own, and objects are left that never hear of each other.
* `FirstComerServes`: an Auto object on an Inprocess channel whose objects are all
  gone becomes a Client of nobody. One that is constructed while another thread
  constructs an object of some other channel may become a second Server.
* `SilentObjectsSurvive`: an object that submits may be ended even when its peer submits
  nothing. Its `BEGIN` (line 167) takes no lock; before the first `INSERT` (line 198) its
  receive thread may poll on the same connection (line 221), which leaves a shared lock
  there. If the peer is deleting what it has read (line 159), the `INSERT` does not
  wait for it but fails with `SQLITE_BUSY`, and nobody catches the exception.
* `RowsLeaveForInbox`: with `journal_mode = OFF`, rows that were committed long ago are
  lost when either process ends in the middle of another `COMMIT`.

## What is proved

### InprocessPair

For `InprocessPair`, for all types, any number of messages and any choice of
closable objects; the assumptions are those named in `Messages` and `Petunia`
(two different roles; sets and bounds of the right kind).

| Theorem | Property |
|---|---|
| `TypeCorrect` | `TypeOK`: queues never carry a message of the other direction |
| `NoMessageSleepsIn` | `SleepsOnlyWhenEmpty` |
| `NeverSendsNothing` | `SendsOnlyBatches` |
| `FetchedOnce` | `FetchEmptiesChannel` |
| `NothingLostOrDuplicated` | `ExactlyOnePlace` |
| `BatchesStayInOrder` | `BatchesInOrder` |
| `QueuesHandedOver` | `HandOver` |
| `PairImplementsLink` | `LinkSpec` |

The argument has two parts. *Control* (`InprocessPairProofs`): none of
`SleepsOnlyWhenEmpty`, `SendsOnlyBatches` and `FetchEmptiesChannel` is inductive.
A send thread enters `sending` from `ready`, so the invariant must know that at
`ready` there is work unless the object is being destroyed (`ReadyHasWork`); the
channel is empty after a fetch because the inbox swapped into it is, so it must
know that the receive thread returns to the medium with an empty inbox
(`InboxDrained`). *Conservation* (`InprocessLinkProofs`): each step affects the
messages of one direction at most, and in one of four ways, submitted, swapped
out, swapped in, handled (`OneDirectionMoves`). Each keeps every message in
exactly one place, given that a new message differs from all earlier ones,
which `SentNumbered` provides. Order within a batch and the refinement follow
from the same case split: a new message has a higher number than any in the
outbox, swaps exchange ordered queues, and a handled message leaves the
messages in flight because it is in no other place.

### InprocessRoles

For any set of objects, any roles asked for and any bound, careful application
or not.

| Theorem | Property |
|---|---|
| `TypeCorrect` | `TypeOK` |
| `QueuesAreThere` | `QueuesExist` |
| `FirstIsServer` | `FirstComerServes`: for all Auto objects but those in `blurred` |
| `FetchedFromPeers` | `OnlyFromPeers` |
| `MessagesNotDoubled` | `NothingDoubled` |
| `CarefulObjectsMeet` | `RendezvousSpec`: the refinement of `Rendezvous` |

The roles are assumed to differ from each other and from what an object without a
role has (`"none"`), as the enumerators of `ConnectionRole` and an object whose
constructor has not got that far do.

`MapsInv` is what makes the unlocked look harmless among the constructors of one
channel: while one of them inserts, no queue is there yet, so nobody has been
constructed, and whatever `find` answers is right for one who came first or second.
Nothing like it holds of the constructors of other channels, which insert at any
time: hence `blurred`. `RolesInv`
adds what an object knew when it chose. `CargoInv` strengthens `OnlyFromPeers`
to outboxes and queues.

`PlacesInv` takes the contents of all places, outboxes, queues and what was fetched, as
one function (`Contents`), so that a step is one of four changes of it: a value pushed,
two entries swapped, one moved behind another, one dropped. Each keeps the values
apart (`DistinctPush` to `DistinctDrop`), pushing because no message has a higher number
than the object that submitted it has counted to (`sent`), also when its queue is gone.

`CareInv` says that a careful application constructs at most two objects, that
what the later one found done (`before`) is the construction of the earlier one,
and that the role follows from it: who found nobody is the Server. Care extends to the other channels of the process, so that nobody looks while
one of them inserts. So the two never have one role, which is what `Rendezvous` asks of who joins
(`RolesDifferWithCare`).

### SqliteInit

For any finite set of processes and any roles asked for, careful application or not.

| Theorem | Property |
|---|---|
| `TypeCorrect` | `TypeOK`: never more files than objects |
| `OneServerConcludes` | `OneAutoServer` |
| `ApartByRemoval` | `ApartOnlyIfStranded` |
| `ServerRemovesOwnFile` | `RemovesOwnFile` |
| `FailuresHaveACause` | `FailsForACause` |
| `CarefulObjectsMeet` | `RendezvousSpec`: the refinement of `Rendezvous` |

The heart is `FileInv`: whoever executes the first `CREATE TABLE` on a file executes
all that are ever executed on it, since the others fail at their first. So
`schema` is what that one object has made, an Auto Server has made everything, and a
file with one table and no one at work has been left by a crash. `PathInv` says
that an object has open what is under the path unless its file was removed, by a
Server that is dead. `AloneInv` says that one who has met nobody is the only one
busy.

The refinement rests on two invariants of careful applications. `SoloInv`: one object
is busy at a time and none has met another, from which it follows by `FailsForACause`
that no constructor fails. `PairInv`: those who live have different roles and one of
them is the Server; they have open what is under the path; without them nothing is under
the path, unless someone is about to make the tables or to remove the file. So an object
that finds the tables finds those of a living Server, and one that makes them is alone.

### Listeners

For any names and any number of messages and calls.

| Theorem | Property |
|---|---|
| `TypeCorrect` | `TypeOK` |
| `BrokenOnlyForACause` | `BrokenForACause` |
| `RegistrationsKept` | `RegistrationsLast` |
| `DispatcherImplemented` | `DispatcherSpec`: the refinement of `Dispatcher` |

None of the three invariants is inductive. `ReliesInv` says for each statement that what
it is about to use is there, or that what took it away has been noted; it rests on
`NotedInv` (whatever two threads do at once has been noted when the second began) and
`HandInv` (a thread in a listener has a message and a list at hand, and returns to
Distribute). `GrownInv` is about rehashes: an addition made by a listener, or
while the other thread is in `Distribute` or `RemoveListeners`, has been noted before
it inserts, so that nobody holds an iterator that has gone stale without a note.
`AddedInv` follows one addition from `find` to `push_front`. The refinement needs two
facts more: no list is under two names (`ListsInv`), so that
`push_front` registers one name at most, and what the receive thread is about to
pop is what it has copied (`InboxInv`), so that `pop` is no step of `Dispatcher`.

### NanomsgPair

For any types, empty payloads or not, any capacity of the sockets, any number of
messages and any choice of objects that are created again.

| Theorem | Property |
|---|---|
| `TypeCorrect` | `TypeOK` |
| `MessagesStayWhole` | `WholeMessages` |
| `GenuineMessages` | `GenuineUnlessCut` |
| `MessagesArriveOnce` | `ExactlyOnceInOrder` |
| `PairImplementsFifoLink` | `FifoLinkSpec`: the refinement of `FifoLink` |

`BoxInv` says that the outbox holds the last of the messages submitted, which are
numbered, and is not empty between the two frames of a message. So a frame is of the
message that comes after those passed on. `MidCall` says that an object is deleted only
between the calls of its medium; then `LinkInv` follows: without a connection nothing
is under way, and not both ends of a direction are in the middle of a message. This is
why a connection that begins with neither end in the middle begins with an empty stream.
`FlowInv` takes the two properties together, for each direction: each step leaves the
stream of frames as it is, adds a whole message at its end or takes one from its head
(`FlowCore` to `FlowRecreate`). They need each other: what the receiver puts together
is genuine because the payload it waits for is that of the message it holds.

`ExactlyOnceInOrder` compares queues after taking out the messages without
payload. `FreshInv` adds what makes it inductive: as long as nobody has been
deleted, no connection began in the middle of a message, because nobody has
begun one before the first connection. Then each step moves one message from the
head of a queue to the end of the next, or drops one without payload, and the
messages with payload, read from `handled` to the outbox, remain those submitted
(`Settled`). The refinement needs no invariant beyond those above: a step takes
the next message in a row, submits one, or loses some.

### SqlitePair

For any types, any number of messages, crashes and restarts.

| Theorem | Property |
|---|---|
| `TypeCorrect` | `TypeOK` |
| `PlainMessagesArriveOnce` | `PlainExactlyOnceInOrder` |
| `RowsAreNotLost` | `RowsLeaveForInbox` |
| `OlderNeverAfterNewer` | `NeverGoesBack` |
| `PairImplementsFifoLink` | `FifoLinkSpec`, provided that no type is sent with `UpdateMessage`: `FifoLink` knows no overwriting |
| `ReceiversSurvive` | `SilentObjectsSurvive` |

The argument takes one direction at a time. What a step does to it is one of nine
things (`DirectionStep`): nothing, a message submitted, the outbox written, the rows
read, the rows deleted, a message handled, all rows lost with the file, or what a
restart costs the sender or the reader; `BaseInv` has the facts about threads and queues
that this case split needs, above all that between `SELECT` and `DELETE` the receive thread does
nothing else, so that nothing is read twice and the inbox that is read into is empty.
Four invariants are then about one direction each:

* `PlainAt`: the plain messages of `handled`, the inbox, the rows not read yet and the
  outbox, in this order, are those submitted, until a restart or the loss of the file.
  A transaction may change other rows, but leaves the plain ones where they are and adds its own at the end.
* `ReadAt`: plain rows that are read and not deleted are in the inbox, restarts or not,
  so that `DELETE` takes away none that has not arrived.
* `OrderAt`: messages of one name come in order all the way, where a row that was read
  may be newer than its copy in the inbox, but not than what follows it.
* `LinkedAt`: without overwriting, the inbox and the rows not read are together the
  table while rows are selected, so that a crash of the reader takes nothing
  out of the link but what it gives back.

`SilentAt` is about an object that has submitted nothing: its send thread never gets to
the medium, so that only its receive thread begins transactions, after it has read what
there is. Its `SELECT` is then part of no transaction and leaves no shared lock, and
its `DELETE` may wait for the other's lock.

### Recursion over queues

Two of the model's functions are recursive: `Filter` (`Messages`), with which
the properties pick messages out of a queue, and `WriteAll` (`SqlitePair`), the
loop over the outbox. The provers cannot use the library's induction theorems,
which take an operator as a parameter, but they can use induction over a *set*
of numbers or of queues: `NatSets` and `QueueSets` of `QueueLemmas` follow from
the fact that < is well-founded on the natural numbers. With them, the
recursions are shown to have one solution each, and what they do to `Append`,
`Tail` and `\o` is shown by induction over the queue.

### Only model-checked

All safety invariants, action properties and refinements of the passing runs are
proved. What rests on TLC alone is liveness under fairness, which is out of the
reach of TLAPS: `EveryMessageHandled`, `ReceiveThreadStops`, `SendThreadStops`
(`InprocessPair`), `EveryMessageHandled`, `DestructorReturnsOrStuck`,
`HandledOrGridlock` (`NanomsgPair`) and `LatestArrives` (`SqlitePair`).

`HandOver` and `QueuesExist` are proved only: the other control invariants rest on the
first, and the second follows from `MapsInv`.

## Not modelled

* The flood: `ReceiveMessages` of the Nanomsg medium does not return while frames keep
  coming (`ipc_medium_nanomsg.cpp:56`); the runs bound the messages.
* Two Nanomsg objects of the Auto role, which both connect (line 24) and never meet.
* A `Message` object submitted twice, whose overwrite flag `UpdateMessage` changes
  while it is in the outbox (`petunia.cpp:45`).
* A listener that calls `Distribute` again from within `Distribute`.
* What a data race on the listener map or the inbox does within one access.
* `FileExists`, `GetTemporaryFolder` and the Windows half of `OSUtils`; the
  byte layout of payloads; the accessors of `Message` and `IPCMedium`.
* The SQLite engine, CppSQLite3, nanomsg and googletest (third-party code), but
  for how the media use them, and the tests.
