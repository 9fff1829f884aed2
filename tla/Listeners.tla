------------------------------ MODULE Listeners ------------------------------
(***************************************************************************)
(* The listener registry of a Petunia object (src/petunia.cpp): a map from *)
(* names to lists of functions that the application changes, the receive   *)
(* thread reads in Distribute, and listeners change from within Distribute,*)
(* all without a lock.  Distribute is public, too.                         *)
(*                                                                         *)
(* A statement that touches the map, a list or the inbox is a step.  Where *)
(* the code would use a null list, an invalid iterator or an empty queue,  *)
(* the behaviour is undefined and the object stops here (broken).          *)
(* Collisions of two threads inside one statement are left out; they need  *)
(* one of the overlaps that misuse notes.                                  *)
(*                                                                         *)
(* The map is a std::unordered_map.  Erasing an entry invalidates the      *)
(* iterators to it and does not free the list it points to.  Inserting one *)
(* may rehash the map, which invalidates all iterators: when it does is    *)
(* for the library to decide.                                              *)
(***************************************************************************)
EXTENDS Naturals, Sequences

CONSTANTS
  Names,           \* listener names
  MaxMessages,     \* bound: the messages that arrive
  MaxAdds,         \* bound: the calls of AddListener
  MaxRemovals      \* bound: the calls of RemoveListeners and Clear

ASSUME ListenersAssumption ==
  /\ Names # {}
  /\ MaxMessages \in Nat /\ MaxAdds \in Nat /\ MaxRemovals \in Nat

Threads == {"recv", "app"}

Message == [seq : 1..MaxMessages, name : Names]

\* The k-th call of AddListener makes list k, if it makes one; 0 is no list.
Lists == 1..MaxAdds

\* The iterators that are used again after other code has run: search of
\* Distribute and search of RemoveListeners, one of each in every thread.
Iterators == Threads \X {"Distribute", "RemoveListeners"}

VARIABLES
  pc,        \* pc[t]   : the statement t is about to execute
  back,      \* back[t] : where t goes on when its call returns
  arg,       \* arg[t]  : the name a call of t is about
  msg,       \* msg[t]  : the message Distribute has at hand
  found,     \* found[t]: search->second of Distribute
  list,      \* list[t] : the list that AddListener makes, or 0
  inbox,     \* m_inbox_queue
  map,       \* m_message_listeners: map[n] is the list of n, or 0
  stale,     \* the iterators that a rehash has invalidated
  filled,    \* the lists that hold their function; the others are empty
  adds,      \* how many times AddListener has been called
  removals,  \* how many times RemoveListeners or Clear has been called
  arrived,   \* how many messages have arrived
  broken,    \* the undefined behaviour met, or "no"
  given,     \* history: the messages given to a listener
  misuse     \* history: what the application and the listeners have done that
             \*          the code does not stand (see Doing and the calls below)

vars == <<pc, back, arg, msg, found, list, inbox, map, stale, filled, adds, removals,
          arrived, broken, given, misuse>>

callVars == <<back, arg, list>>
registryVars == <<map, stale, filled>>
boundVars == <<adds, removals, arrived>>

PCs == {"idle",
        "test", "front", "pop", "find", "begin", "call", "next",  \* Distribute
        "search", "insert", "push",                               \* AddListener
        "look", "erase",                                          \* RemoveListeners
        "clear"}                                                  \* ClearListeners

Init ==
  /\ pc = [t \in Threads |-> "idle"]
  /\ back = [t \in Threads |-> "idle"]
  /\ arg \in [Threads -> {CHOOSE n \in Names : TRUE}]
  /\ msg = [t \in Threads |-> <<>>]
  /\ found = [t \in Threads |-> 0]
  /\ list = [t \in Threads |-> 0]
  /\ inbox = <<>>
  /\ map = [n \in Names |-> 0]
  /\ stale = {}
  /\ filled = {}
  /\ adds = 0 /\ removals = 0 /\ arrived = 0
  /\ broken = "no"
  /\ given = <<>>
  /\ misuse = {}

Moves(t, from, to) ==
  /\ broken = "no"
  /\ pc[t] = from
  /\ pc' = [pc EXCEPT ![t] = to]

\* The statement of t at from has undefined behaviour.
Breaks(t, from, how) ==
  /\ broken = "no"
  /\ pc[t] = from
  /\ broken' = how
  /\ UNCHANGED pc

Other(t) == CHOOSE u \in Threads : u # t

\* What another thread that begins to do something meets t doing.
Doing(t) ==
  CASE pc[t] \in {"search", "insert", "push"} -> {"overlapping add"}
    [] pc[t] \in {"look", "erase", "clear"} -> {"overlapping removal"}
    [] OTHER -> {}

-----------------------------------------------------------------------------
(* The receive thread's loop, and Distribute.                              *)

\* ReceiveMessages has put a batch into the inbox; Distribute is called.  The
\* inbox is empty then unless the application calls Distribute; a medium that
\* pushes, as those for nanomsg and SQLite do, appends to what is left.
Receive ==
  /\ Moves("recv", "idle", "test")
  /\ \E k \in 1..(MaxMessages - arrived) : \E names \in [1..k -> Names] :
       /\ inbox' = inbox \o [i \in 1..k |-> [seq |-> arrived + i, name |-> names[i]]]
       /\ arrived' = arrived + k
  /\ misuse' = misuse \union Doing("app")
  /\ UNCHANGED <<callVars, msg, found, registryVars, adds, removals, broken, given>>

\* The application calls Distribute itself.
CallDistribute ==
  /\ Moves("app", "idle", "test")
  /\ misuse' = misuse \union {"distribute"} \union Doing("recv")
  /\ UNCHANGED <<callVars, msg, found, inbox, registryVars, boundVars, broken, given>>

LoopTest(t) ==
  /\ Moves(t, "test", IF inbox = <<>> THEN "idle" ELSE "front")
  /\ UNCHANGED <<callVars, msg, found, inbox, registryVars, boundVars, broken, given, misuse>>

Front(t) ==
  /\ IF inbox = <<>>
       THEN Breaks(t, "front", "empty queue") /\ UNCHANGED msg
       ELSE /\ Moves(t, "front", "pop")
            /\ msg' = [msg EXCEPT ![t] = <<Head(inbox)>>]
            /\ UNCHANGED broken
  /\ UNCHANGED <<callVars, found, inbox, registryVars, boundVars, given, misuse>>

\* Faulty variant: the message stays in the queue.
PopNothing(t) ==
  /\ Moves(t, "pop", "find")
  /\ UNCHANGED <<callVars, msg, found, inbox, registryVars, boundVars, broken, given, misuse>>

Pop(t) ==
  /\ IF inbox = <<>>
       THEN Breaks(t, "pop", "empty queue") /\ UNCHANGED inbox
       ELSE /\ Moves(t, "pop", "find")
            /\ inbox' = Tail(inbox)
            /\ UNCHANGED broken
  /\ UNCHANGED <<callVars, msg, found, registryVars, boundVars, given, misuse>>

NameOf(t) == msg[t][1].name

\* Faulty variant: search is used without comparing it with end().
FindUntested(t) ==
  /\ Moves(t, "find", "begin")
  /\ found' = [found EXCEPT ![t] = map[NameOf(t)]]
  /\ stale' = stale \ {<<t, "Distribute">>}
  /\ UNCHANGED <<callVars, msg, inbox, map, filled, boundVars, broken, given, misuse>>

Find(t) ==
  /\ Moves(t, "find", IF map[NameOf(t)] = 0 THEN "test" ELSE "begin")
  /\ found' = [found EXCEPT ![t] = map[NameOf(t)]]
  /\ stale' = stale \ {<<t, "Distribute">>}
  /\ UNCHANGED <<callVars, msg, inbox, map, filled, boundVars, broken, given, misuse>>

\* The entry search points to is gone; one made later is not the same.
Erased(t) == map[NameOf(t)] # found[t]

\* What makes the use of search undefined.
Harm(t) ==
  CASE Erased(t) -> "erased entry"
    [] ~Erased(t) /\ <<t, "Distribute">> \in stale -> "stale iterator"
    [] OTHER -> "no"

\* search->second->begin(): a list holds one function, or none as yet.
Begin(t) ==
  /\ pc[t] = "begin"
  /\ IF Harm(t) # "no"
       THEN Breaks(t, "begin", Harm(t)) /\ UNCHANGED given
       ELSE /\ Moves(t, "begin", IF found[t] \in filled THEN "call" ELSE "test")
            /\ given' = IF found[t] \in filled THEN given \o msg[t] ELSE given
            /\ UNCHANGED broken
  /\ UNCHANGED <<callVars, msg, found, inbox, registryVars, boundVars, misuse>>

\* The listener has done what it wanted.
Return(t) ==
  /\ Moves(t, "call", "next")
  /\ UNCHANGED <<callVars, msg, found, inbox, registryVars, boundVars, broken, given, misuse>>

\* ++it, and search->second->end().
Advance(t) ==
  /\ pc[t] = "next"
  /\ IF Harm(t) # "no"
       THEN Breaks(t, "next", Harm(t))
       ELSE Moves(t, "next", "test") /\ UNCHANGED broken
  /\ UNCHANGED <<callVars, msg, found, inbox, registryVars, boundVars, given, misuse>>

-----------------------------------------------------------------------------
(* Calls of AddListener, RemoveListeners and Clear.                        *)

\* t calls a function: the application at any time, a listener from within
\* Distribute.
Calls(t, to) ==
  \/ /\ t = "app" /\ Moves(t, "idle", to)
     /\ back' = [back EXCEPT ![t] = "idle"]
  \/ /\ Moves(t, "call", to)
     /\ back' = [back EXCEPT ![t] = "next"]

Overlaps(t, how) == IF pc[Other(t)] = "idle" THEN {} ELSE {how}

\* A listener that adds another lets the map rehash under Distribute.
CallAddListener(t) ==
  /\ adds < MaxAdds
  /\ adds' = adds + 1
  /\ list' = [list EXCEPT ![t] = adds']
  /\ Calls(t, "search")
  /\ \E n \in Names :
       /\ arg' = [arg EXCEPT ![t] = n]
       /\ misuse' = misuse \union Overlaps(t, "overlapping add")
                           \union (IF map[n] = 0 THEN {} ELSE {"added twice"})
                           \union (IF pc[t] = "call" THEN {"nested add"} ELSE {})
  /\ UNCHANGED <<msg, found, inbox, registryVars, removals, arrived, broken, given>>

\* Faulty variant: a new list is made in any case.
SearchUntested(t) ==
  /\ Moves(t, "search", "insert")
  /\ UNCHANGED <<callVars, msg, found, inbox, registryVars, boundVars, broken, given, misuse>>

\* Faulty variant: == for !=.
SearchReversed(t) ==
  /\ IF map[arg[t]] = 0
       THEN Breaks(t, "search", "null list")
       ELSE Moves(t, "search", "insert") /\ UNCHANGED broken
  /\ UNCHANGED <<callVars, msg, found, inbox, registryVars, boundVars, given, misuse>>

\* A list is made when the name is not there.  When it is, list stays null,
\* and push_front is called on it.
Search(t) ==
  /\ IF map[arg[t]] # 0
       THEN Breaks(t, "search", "null list")
       ELSE Moves(t, "search", "insert") /\ UNCHANGED broken
  /\ UNCHANGED <<callVars, msg, found, inbox, registryVars, boundVars, given, misuse>>

\* insert keeps an entry that is there by now, and does not rehash then.
Insert(t) ==
  /\ Moves(t, "insert", "push")
  /\ IF map[arg[t]] = 0
       THEN map' = [map EXCEPT ![arg[t]] = list[t]] /\ stale' \in {stale, Iterators}
       ELSE UNCHANGED <<map, stale>>
  /\ UNCHANGED <<callVars, msg, found, inbox, filled, boundVars, broken, given, misuse>>

PushFront(t) ==
  /\ Moves(t, "push", back[t])
  /\ filled' = filled \union {list[t]}
  /\ UNCHANGED <<callVars, msg, found, inbox, map, stale, boundVars, broken, given, misuse>>

\* A listener that removes its own name pulls the entry from under Distribute.
CallRemoval(t, to, names) ==
  /\ removals < MaxRemovals
  /\ removals' = removals + 1
  /\ Calls(t, to)
  /\ misuse' = misuse \union Overlaps(t, "overlapping removal")
                      \union (IF pc[t] = "call" /\ NameOf(t) \in names
                                THEN {"own removal"} ELSE {})
  /\ UNCHANGED <<list, msg, found, inbox, registryVars, adds, arrived, broken, given>>

CallRemoveListeners(t) ==
  \E n \in Names :
    /\ CallRemoval(t, "look", {n})
    /\ arg' = [arg EXCEPT ![t] = n]

CallClear(t) == CallRemoval(t, "clear", Names) /\ UNCHANGED arg

Look(t) ==
  /\ Moves(t, "look", IF map[arg[t]] = 0 THEN back[t] ELSE "erase")
  /\ stale' = stale \ {<<t, "RemoveListeners">>}
  /\ UNCHANGED <<callVars, msg, found, inbox, map, filled, boundVars, broken, given, misuse>>

\* The entry may be gone by now, or the map have been rehashed.
Erase(t) ==
  /\ IF map[arg[t]] = 0 \/ <<t, "RemoveListeners">> \in stale
       THEN /\ Breaks(t, "erase", IF map[arg[t]] = 0 THEN "erased entry" ELSE "stale iterator")
            /\ UNCHANGED map
       ELSE /\ Moves(t, "erase", back[t])
            /\ map' = [map EXCEPT ![arg[t]] = 0]
            /\ UNCHANGED broken
  /\ UNCHANGED <<callVars, msg, found, inbox, stale, filled, boundVars, given, misuse>>

\* Clear is ClearPromises, which does nothing, and ClearListeners.
ClearListeners(t) ==
  /\ Moves(t, "clear", back[t])
  /\ map' = [n \in Names |-> 0]
  /\ UNCHANGED <<callVars, msg, found, inbox, stale, filled, boundVars, broken, given, misuse>>

Next ==
  \/ Receive \/ CallDistribute
  \/ \E t \in Threads :
       \/ LoopTest(t) \/ Front(t) \/ Pop(t) \/ Find(t) \/ Begin(t) \/ Return(t) \/ Advance(t)
       \/ CallAddListener(t) \/ Search(t) \/ Insert(t) \/ PushFront(t)
       \/ CallRemoveListeners(t) \/ CallClear(t) \/ Look(t) \/ Erase(t) \/ ClearListeners(t)

Spec == Init /\ [][Next]_vars

-----------------------------------------------------------------------------

TypeOK ==
  /\ pc \in [Threads -> PCs]
  /\ back \in [Threads -> {"idle", "next"}]
  /\ arg \in [Threads -> Names]
  /\ msg \in [Threads -> {<<>>} \union {<<m>> : m \in Message}]
  /\ found \in [Threads -> {0} \union Lists]
  /\ list \in [Threads -> {0} \union Lists]
  /\ \A t \in Threads : pc[t] \in {"begin", "call", "next"} => found[t] # 0
  /\ inbox \in Seq(Message)
  /\ map \in [Names -> {0} \union Lists]
  /\ stale \subseteq Iterators
  /\ filled \subseteq Lists
  /\ adds \in 0..MaxAdds /\ removals \in 0..MaxRemovals /\ arrived \in 0..MaxMessages
  /\ broken \in {"no", "null list", "erased entry", "stale iterator", "empty queue"}
  /\ given \in Seq(Message)
  /\ misuse \subseteq {"distribute", "added twice", "nested add", "own removal",
                       "overlapping add", "overlapping removal"}

\* AddListener, RemoveListeners, Clear and Distribute never use a null list,
\* an erased entry, an iterator that a rehash has invalidated or an empty
\* queue unless the user asks for it: by adding a listener for a name that
\* has one, by adding a listener from within another, by removing a listener
\* from within itself, by adding or removing while messages are distributed,
\* or by calling Distribute.  In particular, a listener may remove others,
\* and between two batches the application may do anything once.
BrokenForACause ==
  /\ broken = "null list" => misuse \intersect {"added twice", "overlapping add"} # {}
  /\ broken = "erased entry" => misuse \intersect {"own removal", "overlapping removal"} # {}
  /\ broken = "stale iterator" => misuse \intersect {"nested add", "overlapping add"} # {}
  /\ broken = "empty queue" => "distribute" \in misuse

\* A listener that has been added stays in the map until somebody removes
\* listeners, unless two calls of AddListener overlap: then one of them may
\* return although its listener is never called.
RegistrationsLast ==
  removals = 0 /\ "overlapping add" \notin misuse =>
    \A l \in filled : \E n \in Names : map[n] = l

\* As long as the application does not call Distribute, the object implements
\* Dispatcher: messages are dispatched one by one in order, however the
\* application and the listeners change the map in between.  A message counts
\* as dispatched when its name is not found or its list is entered, a name as
\* registered while its list is in the map and holds the function.
Dispatching == INSTANCE Dispatcher WITH
  registered <- {n \in Names : map[n] \in filled},
  waiting <- IF pc["recv"] \in {"find", "begin"} THEN msg["recv"] \o inbox ELSE inbox

DispatcherSpec ==
  /\ Dispatching!Init
  /\ [][ "distribute" \notin misuse' => [Dispatching!Next]_(Dispatching!dispatcherVars)]_vars

=============================================================================
