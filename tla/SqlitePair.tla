----------------------------- MODULE SqlitePair -----------------------------
(***************************************************************************)
(* Two Petunia objects in two processes, connected by IPCMediumDefault     *)
(* (src/ipc_medium_default.cpp), one constructed with the Server role and  *)
(* one with the Client role, the tables being there.                       *)
(*                                                                         *)
(* A channel is a SQLite file with one table per direction.  Each object   *)
(* has one connection, which its send thread and its receive thread share; *)
(* a connection has at most one transaction, and BEGIN inside another one  *)
(* is an error.  BEGIN takes no lock: the first statement that reads takes *)
(* a shared one, the first that writes the reserved one, which one         *)
(* connection has at a time, and a transaction keeps them until COMMIT,    *)
(* which waits until nobody else reads.  A connection that wants to write  *)
(* waits for the other (busy_timeout, taken to be long enough), unless it  *)
(* has a shared lock already: that is an error at once, since the other    *)
(* may be waiting for it.                                                  *)
(*                                                                         *)
(* An error is an exception that nobody catches: it ends the process.  A   *)
(* process may also crash at any moment, and be started again on the file  *)
(* it left behind.  The database keeps no journal, so that the end of a    *)
(* process in the middle of COMMIT may leave a malformed file, of which    *)
(* nothing can be read again.                                              *)
(***************************************************************************)
EXTENDS Petunia, SequencesExt

\* A type is the listener name of a message and how it was submitted: with
\* UpdateMessage, which sets the overwrite mode, or with SendMessage.
CONSTANTS
  Names,       \* the listener names
  MaxRestarts  \* bound: how many times a process is started again

ASSUME SqliteAssumption ==
  /\ Types \subseteq [name : Names, overwrite : BOOLEAN]
  /\ MaxRestarts \in Nat

VARIABLES
  table,     \* table[e]   : the committed rows of the table e receives from
  txn,       \* txn[e]     : who is in a transaction on the connection of e
  selected,  \* selected[e]: how many rows the receive thread of e has read
             \*              and not yet deleted
  lock,      \* lock[e]    : the lock the connection of e keeps on the file
  thrown,    \* thrown[e]  : whose transactions have ended in an exception
  aborted,   \* aborted[e] : an exception or a crash has ended the process of e
  malformed, \* half a transaction has been left in the file
  restarts,  \* how many times a process has been started again
  clobbered  \* history: the messages written into rows already selected

mediumVars ==
  <<table, txn, selected, lock, thrown, aborted, malformed, restarts, clobbered>>

vars == <<outbox, inbox, running, sendPC, recvPC, appPC, sent, handled,
          table, txn, selected, lock, thrown, aborted, malformed, restarts, clobbered>>

PairInit ==
  /\ Init
  /\ table = [e \in Endpoints |-> <<>>]
  /\ txn = [e \in Endpoints |-> "none"]
  /\ selected = [e \in Endpoints |-> 0]
  /\ lock = [e \in Endpoints |-> "none"]
  /\ thrown = [e \in Endpoints |-> {}]
  /\ aborted = [e \in Endpoints |-> FALSE]
  /\ malformed = FALSE
  /\ restarts = 0
  /\ clobbered = {}

\* The thread called user throws.  It never gets any further; the other
\* threads of the process do, until the process ends.
Throws(e, user) ==
  /\ thrown' = [thrown EXCEPT ![e] = @ \union {user}]
  /\ UNCHANGED <<table, txn, selected, lock, aborted, malformed, restarts, clobbered>>

\* BEGIN on the connection of e, by the thread called user.
Begin(e, user) ==
  /\ user \notin thrown[e]
  /\ \/ /\ txn[e] = "none"
        /\ txn' = [txn EXCEPT ![e] = user]
        /\ UNCHANGED <<table, selected, lock, thrown, aborted, malformed, restarts, clobbered>>
     \/ txn[e] # "none" /\ Throws(e, user)
  /\ UNCHANGED coreVars

\* Faulty variant: busy_timeout is not set, so that no statement waits.
WriteLockNoWait(e, user) ==
  /\ txn[e] = user /\ user \notin thrown[e] /\ ~malformed
  /\ lock[e] # "reserved"
  /\ \/ /\ lock[Peer(e)] # "reserved"
        /\ lock' = [lock EXCEPT ![e] = "reserved"]
        /\ UNCHANGED <<table, txn, selected, thrown, aborted, malformed, restarts, clobbered>>
     \/ lock[Peer(e)] = "reserved" /\ Throws(e, user)
  /\ UNCHANGED coreVars

\* The first statement that writes takes the reserved lock.  While the other
\* connection has it, this one waits, or fails when it has a shared lock.
WriteLock(e, user) ==
  /\ txn[e] = user /\ user \notin thrown[e] /\ ~malformed
  /\ lock[e] # "reserved"
  /\ \/ /\ lock[Peer(e)] # "reserved"
        /\ lock' = [lock EXCEPT ![e] = "reserved"]
        /\ UNCHANGED <<table, txn, selected, thrown, aborted, malformed, restarts, clobbered>>
     \/ /\ lock[Peer(e)] = "reserved" /\ lock[e] = "shared"
        /\ Throws(e, user)
  /\ UNCHANGED coreVars

\* COMMIT writes to the file when the other connection does not read.
CommitLock(e, user) ==
  /\ txn[e] = user /\ user \notin thrown[e] /\ ~malformed
  /\ lock[e] = "reserved" /\ lock[Peer(e)] = "none"
  /\ txn' = [txn EXCEPT ![e] = "none"]
  /\ lock' = [lock EXCEPT ![e] = "none"]
  /\ UNCHANGED <<thrown, aborted, malformed, restarts>>

-----------------------------------------------------------------------------
(* SendMessages, entered at sendPC "sending" with m_send_lock held.        *)

\* Faulty variant: the statements of the two roles are mixed up.
OwnTable(e) == e

\* The table that the INSERT and the UPDATE of e write to.
SendTableOf(e) == Peer(e)

SameName(m, r) == r.type.name = m.type.name

\* Faulty variants of WriteSendingMessage: the UPDATE changes one row only,
\* or nothing is inserted when it changes none.
WriteFirst(rows, m) ==
  LET pending == {i \in DOMAIN rows : SameName(m, rows[i])}
  IN  IF m.type.overwrite /\ pending # {}
        THEN [rows EXCEPT ![Min(pending)] = m]
        ELSE Append(rows, m)

WriteOnlyOver(rows, m) ==
  IF m.type.overwrite
    THEN [i \in DOMAIN rows |-> IF SameName(m, rows[i]) THEN m ELSE rows[i]]
    ELSE Append(rows, m)

\* WriteSendingMessage: in overwrite mode the message replaces the contents
\* of every row of its name; when there is none it is inserted.
WriteSendingMessage(rows, m) ==
  IF m.type.overwrite /\ \E i \in DOMAIN rows : SameName(m, rows[i])
    THEN [i \in DOMAIN rows |-> IF SameName(m, rows[i]) THEN m ELSE rows[i]]
    ELSE Append(rows, m)

\* SendMessages writes the messages of the outbox one after another.
WriteAll(rows, box) ==
  LET written[i \in 0..Len(box)] ==
        IF i = 0 THEN rows ELSE WriteSendingMessage(written[i - 1], box[i])
  IN  written[Len(box)]

SendBegin(e) ==
  /\ sendPC[e] = "sending"
  /\ txn[e] # "send"
  /\ Begin(e, "send")

\* The loop over the outbox and COMMIT.  From the first message on nobody else
\* writes, so that the rows are those that WriteLock has found.
SendCommit(e) ==
  LET to == SendTableOf(e)
      rows == WriteAll(table[to], outbox[e])
  IN  /\ CommitLock(e, "send")
      /\ SendMoves(e, "sending", "check")
      /\ table' = [table EXCEPT ![to] = rows]
      /\ clobbered' = clobbered \cup {rows[i] : i \in {j \in 1..selected[to] :
                                                         rows[j] # table[to][j]}}
      /\ outbox' = [outbox EXCEPT ![e] = <<>>]
      /\ UNCHANGED selected
      /\ UnchangedBySendLoop

SendMessages(e) == SendBegin(e) \/ WriteLock(e, "send") \/ SendCommit(e)

-----------------------------------------------------------------------------
(* ReceiveMessages, entered at recvPC "receive".                           *)

\* SELECT: all rows are read and pushed.  A transaction that the send thread
\* has begun on the connection keeps the shared lock.
Select(e) ==
  /\ selected[e] = 0
  /\ ~malformed
  /\ "delete" \notin thrown[e]
  /\ lock' = [lock EXCEPT ![e] = IF txn[e] # "none" /\ @ = "none" THEN "shared" ELSE @]
  /\ IF table[e] # <<>>
       THEN /\ RecvMoves(e, "receive", "receive")
            /\ inbox' = [inbox EXCEPT ![e] = @ \o table[e]]
            /\ selected' = [selected EXCEPT ![e] = Len(table[e])]
       ELSE /\ RecvMoves(e, "receive", "check")
            /\ UNCHANGED <<inbox, selected>>
  /\ UNCHANGED <<table, txn, thrown, aborted, malformed, restarts, clobbered>>
  /\ UNCHANGED <<outbox, running, sendPC, appPC, sent, handled>>

DeleteBegin(e) ==
  /\ recvPC[e] = "receive"
  /\ selected[e] > 0
  /\ txn[e] # "delete"
  /\ Begin(e, "delete")

\* Faulty variants: DELETE without WHERE, or with < instead of <=.
AllRows(e) == Len(table[e])
RowsBefore(e) == selected[e] - 1

\* How many rows have a row_id up to the last one selected: only e deletes
\* from its table, and new rows have higher ids.
OldRows(e) == selected[e]

\* DELETE and COMMIT.
DeleteOldMessages(e) ==
  /\ CommitLock(e, "delete")
  /\ RecvMoves(e, "receive", "distribute")
  /\ table' = [table EXCEPT ![e] = SubSeq(@, OldRows(e) + 1, Len(@))]
  /\ selected' = [selected EXCEPT ![e] = 0]
  /\ UNCHANGED clobbered
  /\ UNCHANGED <<outbox, inbox, running, sendPC, appPC, sent, handled>>

ReceiveMessages(e) ==
  Select(e) \/ DeleteBegin(e) \/ WriteLock(e, "delete") \/ DeleteOldMessages(e)

-----------------------------------------------------------------------------
(* The end of a process, and its restart.                                  *)

\* A statement that reads or writes a malformed file throws; BEGIN does not.
StatementFails(e) ==
  /\ malformed
  /\ \/ txn[e] = "send" /\ "send" \notin thrown[e] /\ Throws(e, "send")
     \/ recvPC[e] = "receive" /\ "delete" \notin thrown[e] /\ Throws(e, "delete")
  /\ UNCHANGED coreVars

\* Nothing of the process survives but the file.  There is no journal to roll
\* a transaction back with: when COMMIT is being executed, what was written of
\* it stays, and no row can be read any more.
Ends(e) ==
  /\ aborted' = [aborted EXCEPT ![e] = TRUE]
  /\ lock' = [lock EXCEPT ![e] = "none"]
  /\ \/ UNCHANGED <<table, selected, malformed>>
     \/ /\ lock[e] = "reserved" /\ lock[Peer(e)] = "none"
        /\ malformed' = TRUE
        /\ table' = [f \in Endpoints |-> <<>>]
        /\ selected' = [f \in Endpoints |-> 0]
  /\ UNCHANGED <<txn, thrown, restarts, clobbered>>
  /\ UNCHANGED coreVars

\* std::terminate, called for the exception, ends the process.
Terminates(e) == thrown[e] # {} /\ Ends(e)

Crash(e) ==
  /\ restarts < MaxRestarts
  /\ appPC[e] # "deleted"
  /\ Ends(e)

\* Faulty variant: the new process finds no tables and creates them again.
FreshTables == [e \in Endpoints |-> <<>>]

\* InitializeDatabase finds the tables and leaves them as they are.
TablesFound == table

\* A new process opens the file of a channel whose tables are there; on a
\* malformed file it fails at once.
Restart(e) ==
  /\ aborted[e]
  /\ ~malformed
  /\ restarts < MaxRestarts
  /\ restarts' = restarts + 1
  /\ table' = TablesFound
  /\ outbox' = [outbox EXCEPT ![e] = <<>>]
  /\ inbox' = [inbox EXCEPT ![e] = <<>>]
  /\ running' = [running EXCEPT ![e] = TRUE]
  /\ sendPC' = [sendPC EXCEPT ![e] = "check"]
  /\ recvPC' = [recvPC EXCEPT ![e] = "check"]
  /\ appPC' = [appPC EXCEPT ![e] = "open"]
  /\ txn' = [txn EXCEPT ![e] = "none"]
  /\ selected' = [selected EXCEPT ![e] = 0]
  /\ thrown' = [thrown EXCEPT ![e] = {}]
  /\ aborted' = [aborted EXCEPT ![e] = FALSE]
  /\ UNCHANGED <<lock, malformed, clobbered, sent, handled>>

-----------------------------------------------------------------------------

EndpointStep(e) ==
  /\ ~aborted[e]
  /\ \/ CoreStep(e) /\ UNCHANGED mediumVars
     \/ SendMessages(e)
     \/ ReceiveMessages(e)
     \/ StatementFails(e)
     \/ Terminates(e)
     \/ Crash(e)

Next == \E e \in Endpoints : EndpointStep(e) \/ Restart(e)

Spec == PairInit /\ [][Next]_vars

\* Fairness as in InprocessPair; the threads of a process that has ended
\* take no steps, and a process ends in which a thread has thrown.
Fairness ==
  \A e \in Endpoints :
    LET Alive == ~aborted[e] /\ UNCHANGED mediumVars
    IN  /\ WF_vars((SendThread(e) /\ Alive) \/ (SendMessages(e) /\ ~aborted[e]))
        /\ WF_vars((RecvThread(e) /\ Alive) \/ (ReceiveMessages(e) /\ ~aborted[e]))
        /\ SF_vars(Reply(e) /\ Alive)
        /\ WF_vars(Terminate(e) /\ Alive)
        /\ WF_vars(Terminates(e) /\ ~aborted[e])

FairSpec == Spec /\ Fairness

-----------------------------------------------------------------------------
(* Safety.                                                                 *)

\* The variables have their types, and the rows selected are there.
TypeOK ==
  /\ outbox \in [Endpoints -> Seq(Message)]
  /\ inbox \in [Endpoints -> Seq(Message)]
  /\ sent \in [Endpoints -> Seq(Message)]
  /\ handled \in [Endpoints -> Seq(Message)]
  /\ running \in [Endpoints -> BOOLEAN]
  /\ sendPC \in [Endpoints -> SendPCs]
  /\ recvPC \in [Endpoints -> RecvPCs]
  /\ appPC \in [Endpoints -> AppPCs]
  /\ txn \in [Endpoints -> {"none", "send", "delete"}]
  /\ lock \in [Endpoints -> {"none", "shared", "reserved"}]
  /\ thrown \in [Endpoints -> SUBSET {"send", "delete"}]
  /\ aborted \in [Endpoints -> BOOLEAN]
  /\ malformed \in BOOLEAN
  /\ restarts \in 0..MaxRestarts
  /\ clobbered \subseteq Message
  /\ \A e \in Endpoints :
       /\ table[e] \in Seq(MessageFrom(Peer(e)))
       /\ selected[e] \in 0..Len(table[e])

\* The messages submitted at e and not yet popped by its peer, in order: rows
\* that have been selected are in the inbox already.
InTransit(e) ==
  inbox[Peer(e)]
    \o SubSeq(table[Peer(e)], selected[Peer(e)] + 1, Len(table[Peer(e)]))
    \o outbox[e]

\* The messages whose name is never used with UpdateMessage.
PlainMessage ==
  {m \in Message : \A t \in Types : t.overwrite => t.name # m.type.name}

Plain(q) == Filter(q, PlainMessage)

\* Messages under names that are never overwritten are handled exactly once
\* and in order, although rows are read and deleted in two transactions,
\* even when the process at either end aborts, as long as none is restarted
\* and the file is whole.
PlainExactlyOnceInOrder ==
  restarts = 0 /\ ~malformed => \A e \in Endpoints :
    Plain(handled[Peer(e)] \o InTransit(e)) = Plain(sent[e])

\* Whatever is overwritten when, a receiver that has handled a message never
\* handles an older one of the same name afterwards.
NeverGoesBack ==
  \A e \in Endpoints : \A i, j \in DOMAIN handled[e] :
    i < j /\ SameName(handled[e][i], handled[e][j]) => handled[e][i].seq <= handled[e][j].seq

\* A committed row leaves its table only when the receiver has it in its
\* inbox, whatever overwrites, aborts, crashes and is started again, with one
\* exception: all are lost with the file, when a process ends that has the
\* reserved lock and nobody else reads.
RowsLeaveForInbox ==
  [][\A e \in Endpoints : \A m \in ToSet(Plain(table[e])) :
       \/ m \in ToSet(table'[e]) \union ToSet(inbox'[e])
       \/ malformed' /\ \E f \in Endpoints : lock[f] = "reserved" /\ aborted'[f]]_vars

\* Without UpdateMessage the pair implements FifoLink: whatever crashes and
\* is started again, nothing is handled twice or out of order.
Link == INSTANCE FifoLink WITH queue <- [e \in Endpoints |-> InTransit(e)]

FifoLinkSpec == Link!Spec

\* An object that has submitted nothing is never ended by an exception, as
\* long as the file is whole, however it polls and deletes while its peer
\* writes, aborts and is started again: it always waits for its locks.
SilentObjectsSurvive ==
  ~malformed => \A e \in Endpoints : sent[e] = <<>> => thrown[e] = {}

\* No receive thread is ended by an exception: two processes can communicate
\* over the file.
ReceiveThreadsSurvive == \A e \in Endpoints : "delete" \notin thrown[e]

-----------------------------------------------------------------------------
(* Liveness, under FairSpec.                                               *)

\* Every message, or a later one of its name that has overwritten it, is
\* eventually handled, while no object is being destroyed and no process has
\* aborted.  One thing loses an update: it was written into a row that the
\* receiver had read but not yet deleted.
LatestArrives ==
  \A e \in Endpoints : \A n \in 1..MaxSent[e] :
    Len(sent[e]) >= n ~>
      \/ \E i \in DOMAIN handled[Peer(e)] :
           LET m == handled[Peer(e)][i]
           IN  m.seq >= n /\ SameName(m, sent[e][n])
      \/ \E m \in clobbered : m.from = e /\ m.seq >= n /\ SameName(m, sent[e][n])
      \/ \E f \in Endpoints : appPC[f] # "open" \/ aborted[f]

=============================================================================
