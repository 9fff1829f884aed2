------------------------------- MODULE Petunia -------------------------------
(***************************************************************************)
(* The Petunia object (src/petunia.cpp): its two queues, the send thread   *)
(* with its mutex and condition variable, the receive thread that          *)
(* distributes what it receives, and the application thread that submits   *)
(* messages and destroys the object.  The two calls into the medium are    *)
(* left open: a module that extends this one supplies SendMessages, taken  *)
(* at sendPC "sending", and ReceiveMessages, taken at recvPC "receive".    *)
(*                                                                         *)
(* An operator marked "Faulty variant" is no part of the specification: it *)
(* is a mistake the code could have made, kept to show which property      *)
(* notices it.                                                             *)
(***************************************************************************)
EXTENDS Messages

CONSTANTS
  Listened,  \* the types that have a listener before any message arrives
  Repliers,  \* the endpoints whose listeners may call SendMessage
  MaxSent,   \* bound: MaxSent[e] is the number of SendMessage calls at e
  Closable   \* bound: the endpoints the application may destroy

ASSUME PetuniaAssumption ==
  /\ Listened \subseteq Types
  /\ Repliers \subseteq Endpoints
  /\ MaxSent \in [Endpoints -> Nat]
  /\ Closable \subseteq Endpoints

VARIABLES
  outbox,   \* outbox[e] : m_outbox_queue
  inbox,    \* inbox[e]  : m_inbox_queue
  running,  \* running[e]: m_running
  sendPC,   \* sendPC[e] : where SendThreadLoop is
  recvPC,   \* recvPC[e] : where ReceiveThreadLoop is
  appPC,    \* appPC[e]  : where the application is in the object's lifetime
  sent,     \* history: the messages passed to SendMessage
  handled   \* history: the messages Distribute has popped

coreVars == <<outbox, inbox, running, sendPC, recvPC, appPC, sent, handled>>

(***************************************************************************)
(* The send thread holds m_send_lock from the moment it has acquired it    *)
(* until it blocks in the condition variable or goes round its loop.       *)
(* Every other critical section of that mutex is a single action below.    *)
(***************************************************************************)
SendPCs == {"check",     \* about to read m_running in the while condition
            "lock",      \* acquiring m_send_lock, first or after a wakeup
            "ready",     \* the wait is over; lock held
            "blocking",  \* the predicate was false, not blocked yet; lock held
            "waiting",   \* blocked in the condition variable; lock released
            "sending",   \* inside SendEnqueuedMessages; lock held
            "done"}

HoldsSendLock(e) == sendPC[e] \in {"ready", "blocking", "sending"}

RecvPCs == {"check",       \* about to read m_running in the while condition
            "receive",     \* inside EnqueueReceivedMessages
            "distribute",  \* at the loop condition of Distribute
            "reply",       \* in a listener that is calling SendMessage
            "done"}

AppPCs == {"open",      \* using the object
           "stopping",  \* TerminateMQThread has cleared m_running
           "joining",   \* it has notified and joins the two threads
           "deleted"}   \* the threads and the medium are deleted

Init ==
  /\ outbox = [e \in Endpoints |-> <<>>]
  /\ inbox = [e \in Endpoints |-> <<>>]
  /\ running = [e \in Endpoints |-> TRUE]
  /\ sendPC = [e \in Endpoints |-> "check"]
  /\ recvPC = [e \in Endpoints |-> "check"]
  /\ appPC = [e \in Endpoints |-> "open"]
  /\ sent = [e \in Endpoints |-> <<>>]
  /\ handled = [e \in Endpoints |-> <<>>]

-----------------------------------------------------------------------------
(* Submitting a message.                                                   *)

\* Faulty variant: SendMessage pushes the message and wakes nobody.
NotifyNobody(e) == sendPC[e]

\* notify_all releases a thread that is blocked in the condition variable;
\* it has to take the mutex again.  Any other thread is unaffected.
NotifyAll(e) == IF sendPC[e] = "waiting" THEN "lock" ELSE sendPC[e]

\* SendMessage runs entirely under m_send_lock.
SendMessage(e, t) ==
  LET m == [from |-> e, seq |-> Len(sent[e]) + 1, type |-> t]
  IN  /\ ~HoldsSendLock(e)
      /\ outbox' = [outbox EXCEPT ![e] = Append(@, m)]
      /\ sent' = [sent EXCEPT ![e] = Append(@, m)]
      /\ sendPC' = [sendPC EXCEPT ![e] = NotifyAll(e)]

\* The bound on submissions; a listener that is about to call SendMessage
\* has its call reserved.
HasQuota(e) ==
  Len(sent[e]) + (IF recvPC[e] = "reply" THEN 1 ELSE 0) < MaxSent[e]

AppSend(e) ==
  /\ appPC[e] = "open"
  /\ HasQuota(e)
  /\ \E t \in Types : SendMessage(e, t)
  /\ UNCHANGED <<inbox, running, recvPC, appPC, handled>>

-----------------------------------------------------------------------------
(* SendThreadLoop.                                                         *)

SendMoves(e, from, to) ==
  /\ sendPC[e] = from
  /\ sendPC' = [sendPC EXCEPT ![e] = to]

UnchangedBySendLoop == UNCHANGED <<inbox, running, recvPC, appPC, sent, handled>>

\* while (m_running): read without the mutex.
SendLoopTest(e) ==
  /\ SendMoves(e, "check", IF running[e] THEN "lock" ELSE "done")
  /\ UNCHANGED outbox
  /\ UnchangedBySendLoop

\* Faulty variants of the wait predicate: one that does not look at
\* m_running, one that wants two messages.
WaitForMessage(e) == Len(outbox[e]) > 0

WaitForTwo(e) == Len(outbox[e]) > 1 \/ ~running[e]

WaitPredicate(e) == Len(outbox[e]) > 0 \/ ~running[e]

\* Take m_send_lock, on entry or when woken, and evaluate the predicate.
SendAcquire(e) ==
  /\ SendMoves(e, "lock", IF WaitPredicate(e) THEN "ready" ELSE "blocking")
  /\ UNCHANGED outbox
  /\ UnchangedBySendLoop

\* Release the mutex and block, atomically.
SendBlock(e) ==
  /\ SendMoves(e, "blocking", "waiting")
  /\ UNCHANGED outbox
  /\ UnchangedBySendLoop

\* std::condition_variable may wake a thread that nobody notified.
SpuriousWakeup(e) ==
  /\ SendMoves(e, "waiting", "lock")
  /\ UNCHANGED outbox
  /\ UnchangedBySendLoop

\* Faulty variant: the second look at m_running is left out.
SendUntested(e) ==
  /\ SendMoves(e, "ready", "sending")
  /\ UNCHANGED outbox
  /\ UnchangedBySendLoop

\* if (m_running), then SendEnqueuedMessages; the mutex is released at the
\* end of the loop body either way.
SendTest(e) ==
  /\ SendMoves(e, "ready", IF running[e] THEN "sending" ELSE "check")
  /\ UNCHANGED outbox
  /\ UnchangedBySendLoop

SendThread(e) ==
  SendLoopTest(e) \/ SendAcquire(e) \/ SendBlock(e) \/ SendTest(e)

-----------------------------------------------------------------------------
(* ReceiveThreadLoop.  m_receive_lock is taken by this thread alone.       *)

RecvMoves(e, from, to) ==
  /\ recvPC[e] = from
  /\ recvPC' = [recvPC EXCEPT ![e] = to]

\* Faulty variant: while (true).
RecvForever(e) == TRUE

RecvContinues(e) == running[e]

RecvLoopTest(e) ==
  /\ RecvMoves(e, "check", IF RecvContinues(e) THEN "receive" ELSE "done")
  /\ UNCHANGED <<outbox, inbox, running, sendPC, appPC, sent, handled>>

\* Faulty variant: Distribute leaves the message at the front of the queue.
DistributeWithoutPop(e) ==
  /\ inbox[e] # <<>>
  /\ RecvMoves(e, "distribute", "check")
  /\ handled' = [handled EXCEPT ![e] = Append(@, Head(inbox[e]))]
  /\ UNCHANGED <<outbox, inbox, running, sendPC, appPC, sent>>

\* One round of the loop of Distribute: pop the front message and, when its
\* type has a listener, run the listener, which may answer on this endpoint.
\* A message nobody listens to is dropped.
Distribute(e) ==
  /\ inbox[e] # <<>>
  /\ inbox' = [inbox EXCEPT ![e] = Tail(@)]
  /\ handled' = [handled EXCEPT ![e] = Append(@, Head(inbox[e]))]
  /\ \/ RecvMoves(e, "distribute", "distribute")
     \/ /\ e \in Repliers
        /\ Head(inbox[e]).type \in Listened
        /\ HasQuota(e)
        /\ RecvMoves(e, "distribute", "reply")
  /\ UNCHANGED <<outbox, running, sendPC, appPC, sent>>

\* The listener's call of SendMessage, then back into Distribute.
Reply(e) ==
  /\ RecvMoves(e, "reply", "distribute")
  /\ \E t \in Types : SendMessage(e, t)
  /\ UNCHANGED <<inbox, running, appPC, handled>>

\* Faulty variant: Distribute may return with messages left in the queue.
DistributeEndEarly(e) ==
  /\ RecvMoves(e, "distribute", "check")
  /\ UNCHANGED <<outbox, inbox, running, sendPC, appPC, sent, handled>>

\* The loop of Distribute ends, and with it the body of the thread's loop.
DistributeEnd(e) ==
  /\ inbox[e] = <<>>
  /\ RecvMoves(e, "distribute", "check")
  /\ UNCHANGED <<outbox, inbox, running, sendPC, appPC, sent, handled>>

RecvThread(e) == RecvLoopTest(e) \/ Distribute(e) \/ DistributeEnd(e)

-----------------------------------------------------------------------------
(* ~Petunia.  TerminateMQThread takes no lock: m_running is cleared and    *)
(* the condition variable is notified whatever the send thread is doing.   *)

AppMoves(e, from, to) ==
  /\ appPC[e] = from
  /\ appPC' = [appPC EXCEPT ![e] = to]

StopRunning(e) ==
  /\ e \in Closable
  /\ AppMoves(e, "open", "stopping")
  /\ running' = [running EXCEPT ![e] = FALSE]
  /\ UNCHANGED <<outbox, inbox, sendPC, recvPC, sent, handled>>

StopNotify(e) ==
  /\ AppMoves(e, "stopping", "joining")
  /\ sendPC' = [sendPC EXCEPT ![e] = NotifyAll(e)]
  /\ UNCHANGED <<outbox, inbox, running, recvPC, sent, handled>>

\* Both joins return, then the threads and the medium are deleted.  The
\* messages left in the two queues perish with the object.
JoinAndDelete(e) ==
  /\ recvPC[e] = "done"
  /\ sendPC[e] = "done"
  /\ AppMoves(e, "joining", "deleted")
  /\ UNCHANGED <<outbox, inbox, running, sendPC, recvPC, sent, handled>>

Terminate(e) == StopNotify(e) \/ JoinAndDelete(e)

\* The steps of a Petunia object that do not touch its medium.
CoreStep(e) ==
  \/ AppSend(e)
  \/ SendThread(e)
  \/ SpuriousWakeup(e)
  \/ RecvThread(e)
  \/ Reply(e)
  \/ StopRunning(e)
  \/ Terminate(e)

=============================================================================
