--------------------------- MODULE ListenersProofs ---------------------------
(***************************************************************************)
(* Proofs about Listeners, for any names and any number of messages and    *)
(* calls.                                                                  *)
(***************************************************************************)
EXTENDS Listeners, SequenceTheorems, TLAPS

-----------------------------------------------------------------------------
(* Where a thread is.                                                      *)

Adding == {"search", "insert", "push"}
Removing == {"look", "erase", "clear"}

\* t has called AddListener, RemoveListeners or Clear from within a listener.
Nested(t) == pc[t] \in Adding \union Removing /\ back[t] = "next"

\* t is at a list of Distribute, or in a listener.
InList(t) == pc[t] \in {"begin", "call", "next"} \/ Nested(t)

\* t has a message at hand.
Holding(t) == pc[t] \in {"pop", "find"} \/ InList(t)

InDistribute(t) == pc[t] \in {"test", "front"} \/ Holding(t)

-----------------------------------------------------------------------------
(* The inductive invariant.                                                *)

\* What a thread has at hand.
HandAt(t) ==
  /\ Holding(t) => msg[t] # <<>>
  /\ InList(t) => found[t] # 0
  /\ pc[t] \in Adding => list[t] # 0
  /\ t = "recv" /\ pc[t] \in Adding \union Removing => back[t] = "next"

HandInv == \A t \in Threads : HandAt(t)

\* What two threads do at once has been noted.
NotedInv ==
  /\ \A t \in Threads : t = "app" /\ InDistribute(t) => "distribute" \in misuse
  /\ \A t, u \in Threads : t # u =>
       /\ pc[t] \in Adding /\ pc[u] \in Adding => "overlapping add" \in misuse
       /\ pc[t] \in Removing /\ (InDistribute(u) \/ pc[u] \in Removing)
            => "overlapping removal" \in misuse

\* What a thread relies on is there, or what took it away has been noted.
ReliesAt(t) ==
  /\ pc[t] \in {"look", "erase"} /\ back[t] = "next" /\ arg[t] = NameOf(t)
       => "own removal" \in misuse
  /\ pc[t] = "clear" /\ back[t] = "next" => "own removal" \in misuse
  /\ InList(t) /\ Erased(t) => misuse \intersect {"own removal", "overlapping removal"} # {}
  /\ pc[t] = "search" /\ map[arg[t]] # 0
       => misuse \intersect {"added twice", "overlapping add"} # {}
  /\ pc[t] = "erase" /\ map[arg[t]] = 0 => "overlapping removal" \in misuse
  /\ pc[t] \in {"front", "pop"} /\ inbox = <<>> => "distribute" \in misuse

ReliesInv == \A t \in Threads : ReliesAt(t)

\* An addition that may invalidate iterators in use has been noted.
Grown == misuse \intersect {"nested add", "overlapping add"} # {}

GrownInv ==
  /\ \A t \in Threads : pc[t] \in Adding /\ back[t] = "next" => "nested add" \in misuse
  /\ \A t, u \in Threads :
       t # u /\ pc[t] \in Adding /\ (InDistribute(u) \/ pc[u] \in Removing) => Grown
  /\ \A t \in Threads :
       /\ InList(t) /\ <<t, "Distribute">> \in stale => Grown
       /\ pc[t] = "erase" /\ <<t, "RemoveListeners">> \in stale => Grown

\* While nothing has been removed and additions do not overlap, the name of
\* an addition is free until its list is inserted, and has that list then.
AddedInv ==
  removals = 0 /\ "overlapping add" \notin misuse =>
    /\ \A t \in Threads : pc[t] \notin Removing
    /\ \A t \in Threads : pc[t] = "insert" => map[arg[t]] = 0
    /\ \A t \in Threads : pc[t] = "push" => map[arg[t]] = list[t]
    /\ \A l \in filled : \E n \in Names : map[n] = l

\* No list is in the map twice, nor there before it is inserted.
ListsInv ==
  /\ \A n \in Names : map[n] <= adds
  /\ \A n, k \in Names : map[n] = map[k] /\ map[n] # 0 => n = k
  /\ \A t \in Threads : pc[t] \in Adding => list[t] <= adds
  /\ \A t \in Threads : pc[t] \in {"search", "insert"} => \A n \in Names : map[n] # list[t]
  /\ \A t, u \in Threads :
       t # u /\ pc[t] \in Adding /\ pc[u] \in Adding => list[t] # list[u]

\* Unless the application distributes, the receive thread has emptied the
\* inbox when it is idle, and has at hand what it is about to pop.
InboxInv ==
  "distribute" \notin misuse =>
    \A t \in Threads : t = "recv" =>
      /\ pc[t] = "idle" => inbox = <<>>
      /\ pc[t] = "front" => inbox # <<>>
      /\ pc[t] = "pop" => inbox # <<>> /\ msg[t] = <<Head(inbox)>>

-----------------------------------------------------------------------------
(* What the steps do, thread by thread.                                    *)

\* There are two threads.
LEMMA OtherThread ==
  ASSUME NEW t \in Threads
  PROVE  /\ Other(t) \in Threads /\ Other(t) # t
         /\ \A u \in Threads : u # t => u = Other(t)
<1>1. \E u \in Threads : u # t
  BY DEF Threads
<1>2. Other(t) \in Threads /\ Other(t) # t
  BY <1>1 DEF Other
<1> QED
  BY <1>2 DEF Threads

\* The other thread stays where it is, with what it has at hand.
Alone(t) ==
  \A u \in Threads \ {t} :
    /\ pc'[u] = pc[u] /\ back'[u] = back[u] /\ arg'[u] = arg[u]
    /\ msg'[u] = msg[u] /\ found'[u] = found[u] /\ list'[u] = list[u]

\* Steps of Distribute that change nothing but where the thread is.
LEMMA WalkEffects ==
  ASSUME TypeOK, NEW t \in Threads, LoopTest(t) \/ Return(t) \/ Advance(t)
  PROVE  /\ Alone(t)
         /\ UNCHANGED <<back, arg, msg, found, list, inbox, map, filled, adds, removals,
                        arrived, given, misuse>>
         /\ pc' \in [Threads -> PCs]
         /\ UNCHANGED stale
         /\ broken' \in {broken, "erased entry", "stale iterator"}
         /\ broken' # broken => pc[t] = "next" /\ broken' = Harm(t)
         /\ \/ pc[t] = "test" /\ pc'[t] = "idle" /\ inbox = <<>>
            \/ pc[t] = "test" /\ pc'[t] = "front" /\ inbox # <<>>
            \/ pc[t] = "call" /\ pc'[t] = "next"
            \/ pc[t] = "next" /\ pc'[t] \in {"test", "next"}
<1> USE DEF Alone, Moves, Breaks, callVars, registryVars, boundVars, PCs
<1>1. CASE LoopTest(t)
  BY <1>1 DEF LoopTest, TypeOK
<1>2. CASE Return(t)
  BY <1>2 DEF Return, TypeOK
<1>3. CASE Advance(t)
  BY <1>3 DEF Advance, Harm, TypeOK
<1> QED
  BY <1>1, <1>2, <1>3

\* front() copies the first message, or there is none.
LEMMA FrontEffects ==
  ASSUME TypeOK, NEW t \in Threads, Front(t)
  PROVE  /\ Alone(t)
         /\ UNCHANGED stale
         /\ UNCHANGED <<back, arg, found, list, inbox, map, filled, adds, removals,
                        arrived, given, misuse>>
         /\ pc[t] = "front"
         /\ \/ /\ inbox = <<>> /\ broken' = "empty queue" /\ UNCHANGED <<pc, msg>>
            \/ /\ inbox # <<>> /\ UNCHANGED broken
               /\ pc' = [pc EXCEPT ![t] = "pop"]
               /\ msg' = [msg EXCEPT ![t] = <<Head(inbox)>>]
BY DEF Front, Alone, Moves, Breaks, callVars, registryVars, boundVars, TypeOK

\* pop() removes the first message, or there is none.
LEMMA PopEffects ==
  ASSUME TypeOK, NEW t \in Threads, Pop(t)
  PROVE  /\ Alone(t)
         /\ UNCHANGED stale
         /\ UNCHANGED <<back, arg, msg, found, list, map, filled, adds, removals,
                        arrived, given, misuse>>
         /\ pc[t] = "pop"
         /\ \/ /\ inbox = <<>> /\ broken' = "empty queue" /\ UNCHANGED <<pc, inbox>>
            \/ /\ inbox # <<>> /\ UNCHANGED broken
               /\ pc' = [pc EXCEPT ![t] = "find"]
               /\ inbox' = Tail(inbox)
BY DEF Pop, Alone, Moves, Breaks, callVars, registryVars, boundVars, TypeOK

\* find() keeps the list of the name, if it has one.
LEMMA FindEffects ==
  ASSUME TypeOK, NEW t \in Threads, Find(t)
  PROVE  /\ Alone(t)
         /\ UNCHANGED <<back, arg, msg, list, inbox, map, filled, adds, removals,
                        arrived, broken, given, misuse>>
         /\ pc[t] = "find"
         /\ pc' = [pc EXCEPT ![t] = IF map[NameOf(t)] = 0 THEN "test" ELSE "begin"]
         /\ found' = [found EXCEPT ![t] = map[NameOf(t)]]
         /\ stale' = stale \ {<<t, "Distribute">>}
BY DEF Find, Alone, Moves, callVars, registryVars, boundVars, TypeOK

\* begin() enters the list found, unless its entry is gone.
LEMMA BeginEffects ==
  ASSUME TypeOK, NEW t \in Threads, Begin(t)
  PROVE  /\ Alone(t)
         /\ UNCHANGED stale
         /\ UNCHANGED <<back, arg, msg, found, list, inbox, map, filled, adds, removals,
                        arrived, misuse>>
         /\ pc[t] = "begin"
         /\ \/ /\ Harm(t) \in {"erased entry", "stale iterator"} /\ broken' = Harm(t)
               /\ UNCHANGED <<pc, given>>
            \/ /\ ~Erased(t) /\ UNCHANGED broken
               /\ pc' = [pc EXCEPT ![t] = IF found[t] \in filled THEN "call" ELSE "test"]
               /\ given' = IF found[t] \in filled THEN given \o msg[t] ELSE given
BY DEF Begin, Harm, Alone, Moves, Breaks, callVars, registryVars, boundVars, TypeOK

\* A batch arrives.
LEMMA ReceiveEffects ==
  ASSUME TypeOK, Receive, NEW t \in Threads, t = "recv"
  PROVE  /\ Alone(t)
         /\ UNCHANGED stale
         /\ UNCHANGED <<back, arg, msg, found, list, map, filled, adds, removals,
                        broken, given>>
         /\ pc[t] = "idle" /\ pc' = [pc EXCEPT ![t] = "test"]
         /\ inbox' \in Seq(Message) /\ arrived' \in 0..MaxMessages
         /\ inbox' # <<>>
         /\ misuse' = misuse \union Doing(Other(t))
<1> USE ListenersAssumption
<1>1. PICK k \in 1..(MaxMessages - arrived) : \E names \in [1..k -> Names] :
        /\ inbox' = inbox \o [i \in 1..k |-> [seq |-> arrived + i, name |-> names[i]]]
        /\ arrived' = arrived + k
  BY DEF Receive
<1>2. PICK names \in [1..k -> Names] :
        /\ inbox' = inbox \o [i \in 1..k |-> [seq |-> arrived + i, name |-> names[i]]]
        /\ arrived' = arrived + k
  BY <1>1
<1> DEFINE batch == [i \in 1..k |-> [seq |-> arrived + i, name |-> names[i]]]
<1>3. arrived \in Nat /\ k \in Nat \ {0} /\ arrived + k <= MaxMessages
  <2>1. arrived \in 0..MaxMessages
    BY DEF TypeOK
  <2> QED
    BY <2>1
<1>4. inbox' = inbox \o batch
  BY <1>2
<1>5. batch \in [1..k -> Message]
  BY <1>3 DEF Message
<1>6. batch \in Seq(Message) /\ Len(batch) = k
  BY <1>3, <1>5, SeqDef
<1>7. inbox \in Seq(Message)
  BY DEF TypeOK
<1> HIDE DEF batch
<1>8. inbox' \in Seq(Message) /\ inbox' # <<>>
  <2>1. inbox' \in Seq(Message) /\ Len(inbox') = Len(inbox) + Len(batch)
    BY <1>4, <1>6, <1>7, ConcatProperties
  <2>2. Len(inbox') # 0
    BY <2>1, <1>3, <1>6, <1>7, LenProperties
  <2> QED
    BY <2>1, <2>2
<1>9. Other(t) = "app"
  BY OtherThread DEF Threads
<1>10. arrived' \in 0..MaxMessages
  BY <1>2, <1>3
<1>11. /\ Moves("recv", "idle", "test") /\ misuse' = misuse \union Doing("app")
       /\ UNCHANGED <<callVars, msg, found, registryVars, adds, removals, broken, given>>
  BY DEF Receive
<1>12. /\ pc[t] = "idle" /\ pc' = [pc EXCEPT ![t] = "test"]
       /\ UNCHANGED stale
       /\ UNCHANGED <<back, arg, msg, found, list, map, filled, adds, removals, broken, given>>
  BY <1>11 DEF Moves, callVars, registryVars
<1>13. Alone(t)
  BY <1>12 DEF Alone, TypeOK
<1> QED
  BY <1>8, <1>9, <1>10, <1>11, <1>12, <1>13

\* The application calls Distribute, and that is noted.
LEMMA CallDistributeEffects ==
  ASSUME TypeOK, CallDistribute, NEW t \in Threads, t = "app"
  PROVE  /\ Alone(t)
         /\ UNCHANGED stale
         /\ UNCHANGED <<back, arg, msg, found, list, inbox, map, filled, adds, removals,
                        arrived, broken, given>>
         /\ pc[t] = "idle" /\ pc' = [pc EXCEPT ![t] = "test"]
         /\ misuse' = misuse \union {"distribute"} \union Doing(Other(t))
<1>1. Other(t) = "recv"
  BY OtherThread DEF Threads
<1> QED
  BY <1>1 DEF CallDistribute, Alone, Moves, callVars, registryVars, boundVars, TypeOK

\* Where a call of AddListener, RemoveListeners or Clear leads.
CallMoves(t, to) ==
  /\ pc[t] \in {"idle", "call"} /\ (pc[t] = "idle" => t = "app")
  /\ pc' = [pc EXCEPT ![t] = to]
  /\ back' = [back EXCEPT ![t] = IF pc[t] = "idle" THEN "idle" ELSE "next"]

\* A call of AddListener takes the next list, and notes what it meets.
LEMMA CallAddListenerEffects ==
  ASSUME TypeOK, NEW t \in Threads, CallAddListener(t)
  PROVE  /\ Alone(t) /\ CallMoves(t, "search")
         /\ UNCHANGED stale
         /\ UNCHANGED <<msg, found, inbox, map, filled, removals, arrived, broken, given>>
         /\ adds < MaxAdds /\ adds' = adds + 1
         /\ list' = [list EXCEPT ![t] = adds + 1]
         /\ \E n \in Names :
              /\ arg' = [arg EXCEPT ![t] = n]
              /\ misuse' = misuse \union Overlaps(t, "overlapping add")
                                  \union (IF map[n] = 0 THEN {} ELSE {"added twice"})
                                  \union (IF pc[t] = "call" THEN {"nested add"} ELSE {})
BY DEF CallAddListener, Calls, CallMoves, Alone, Moves, registryVars, TypeOK

\* A call of RemoveListeners or Clear notes what it meets.
LEMMA CallRemovalEffects ==
  ASSUME TypeOK, NEW t \in Threads, CallRemoveListeners(t) \/ CallClear(t)
  PROVE  /\ Alone(t)
         /\ UNCHANGED stale
         /\ UNCHANGED <<msg, found, list, inbox, map, filled, adds, arrived, broken, given>>
         /\ removals < MaxRemovals /\ removals' = removals + 1
         /\ \E names :
              /\ misuse' = misuse \union Overlaps(t, "overlapping removal")
                                  \union (IF pc[t] = "call" /\ NameOf(t) \in names
                                            THEN {"own removal"} ELSE {})
              /\ \/ /\ CallMoves(t, "look")
                    /\ \E n \in Names : names = {n} /\ arg' = [arg EXCEPT ![t] = n]
                 \/ /\ CallMoves(t, "clear")
                    /\ names = Names /\ UNCHANGED arg
<1>1. ASSUME NEW to, NEW names, CallRemoval(t, to, names)
      PROVE  /\ CallMoves(t, to)
             /\ \A u \in Threads \ {t} : pc'[u] = pc[u] /\ back'[u] = back[u]
             /\ UNCHANGED stale
             /\ UNCHANGED <<list, msg, found, inbox, map, filled, adds, arrived, broken, given>>
             /\ removals < MaxRemovals /\ removals' = removals + 1
             /\ misuse' = misuse \union Overlaps(t, "overlapping removal")
                                 \union (IF pc[t] = "call" /\ NameOf(t) \in names
                                           THEN {"own removal"} ELSE {})
  BY <1>1 DEF CallRemoval, Calls, CallMoves, Moves, registryVars, TypeOK
<1>2. CASE CallRemoveListeners(t)
  <2>1. PICK n \in Names : CallRemoval(t, "look", {n}) /\ arg' = [arg EXCEPT ![t] = n]
    BY <1>2 DEF CallRemoveListeners
  <2>2. \A u \in Threads \ {t} : arg'[u] = arg[u]
    BY <2>1 DEF TypeOK
  <2> QED
    BY <1>1, <2>1, <2>2 DEF Alone
<1>3. CASE CallClear(t)
  BY <1>1, <1>3 DEF CallClear, Alone
<1> QED
  BY <1>2, <1>3

\* AddListener goes on with a new list when the name has none.
LEMMA SearchEffects ==
  ASSUME TypeOK, NEW t \in Threads, Search(t)
  PROVE  /\ Alone(t)
         /\ UNCHANGED stale
         /\ UNCHANGED <<back, arg, msg, found, list, inbox, map, filled, adds, removals,
                        arrived, given, misuse>>
         /\ pc[t] = "search"
         /\ \/ /\ map[arg[t]] # 0 /\ broken' = "null list" /\ UNCHANGED pc
            \/ /\ map[arg[t]] = 0 /\ UNCHANGED broken
               /\ pc' = [pc EXCEPT ![t] = "insert"]
BY DEF Search, Alone, Moves, Breaks, callVars, registryVars, boundVars, TypeOK

\* insert() puts the new list under the name, unless it has one.
LEMMA InsertEffects ==
  ASSUME TypeOK, NEW t \in Threads, Insert(t)
  PROVE  /\ Alone(t)
         /\ UNCHANGED <<back, arg, msg, found, list, inbox, filled, adds, removals,
                        arrived, broken, given, misuse>>
         /\ pc[t] = "insert" /\ pc' = [pc EXCEPT ![t] = "push"]
         /\ map' = IF map[arg[t]] = 0 THEN [map EXCEPT ![arg[t]] = list[t]] ELSE map
         /\ stale' \in {stale, Iterators}
BY DEF Insert, Alone, Moves, callVars, boundVars, TypeOK

\* push_front() fills the list, and AddListener returns.
LEMMA PushFrontEffects ==
  ASSUME TypeOK, NEW t \in Threads, PushFront(t)
  PROVE  /\ Alone(t)
         /\ UNCHANGED stale
         /\ UNCHANGED <<back, arg, msg, found, list, inbox, map, adds, removals,
                        arrived, broken, given, misuse>>
         /\ pc[t] = "push" /\ pc' = [pc EXCEPT ![t] = back[t]]
         /\ filled' = filled \union {list[t]}
BY DEF PushFront, Alone, Moves, callVars, boundVars, TypeOK

\* RemoveListeners returns when the name is not there.
LEMMA LookEffects ==
  ASSUME TypeOK, NEW t \in Threads, Look(t)
  PROVE  /\ Alone(t)
         /\ UNCHANGED <<back, arg, msg, found, list, inbox, map, filled, adds, removals,
                        arrived, broken, given, misuse>>
         /\ pc[t] = "look"
         /\ pc' = [pc EXCEPT ![t] = IF map[arg[t]] = 0 THEN back[t] ELSE "erase"]
         /\ stale' = stale \ {<<t, "RemoveListeners">>}
BY DEF Look, Alone, Moves, callVars, registryVars, boundVars, TypeOK

\* erase() takes the entry out, unless it is gone.
LEMMA EraseEffects ==
  ASSUME TypeOK, NEW t \in Threads, Erase(t)
  PROVE  /\ Alone(t)
         /\ UNCHANGED stale
         /\ UNCHANGED <<back, arg, msg, found, list, inbox, filled, adds, removals,
                        arrived, given, misuse>>
         /\ pc[t] = "erase"
         /\ \/ /\ map[arg[t]] = 0 /\ broken' = "erased entry" /\ UNCHANGED <<pc, map>>
            \/ /\ <<t, "RemoveListeners">> \in stale /\ broken' = "stale iterator"
               /\ UNCHANGED <<pc, map>>
            \/ /\ map[arg[t]] # 0 /\ UNCHANGED broken
               /\ pc' = [pc EXCEPT ![t] = back[t]]
               /\ map' = [map EXCEPT ![arg[t]] = 0]
BY DEF Erase, Alone, Moves, Breaks, callVars, boundVars, TypeOK

\* ClearListeners empties the map.
LEMMA ClearEffects ==
  ASSUME TypeOK, NEW t \in Threads, ClearListeners(t)
  PROVE  /\ Alone(t)
         /\ UNCHANGED stale
         /\ UNCHANGED <<back, arg, msg, found, list, inbox, filled, adds, removals,
                        arrived, broken, given, misuse>>
         /\ pc[t] = "clear" /\ pc' = [pc EXCEPT ![t] = back[t]]
         /\ map' = [n \in Names |-> 0]
BY DEF ClearListeners, Alone, Moves, callVars, boundVars, TypeOK

-----------------------------------------------------------------------------
(* What a thread has at hand, and types.                                   *)

\* The message that a thread has at hand has a listener's name.
LEMMA NameOfType ==
  ASSUME TypeOK, NEW t \in Threads, msg[t] # <<>>
  PROVE  NameOf(t) \in Names /\ msg[t] = <<msg[t][1]>> /\ msg[t][1] \in Message
<1>1. PICK m \in Message : msg[t] = <<m>>
  BY DEF TypeOK
<1>2. m.name \in Names
  BY DEF Message
<1> QED
  BY <1>1, <1>2 DEF NameOf

\* The counters are numbers.
LEMMA Counters ==
  ASSUME TypeOK
  PROVE  adds \in Nat /\ removals \in Nat /\ arrived \in Nat
<1>1. adds \in 0..MaxAdds /\ removals \in 0..MaxRemovals /\ arrived \in 0..MaxMessages
  BY DEF TypeOK
<1> QED
  BY <1>1

\* A step of one thread leaves what the other has at hand.
LEMMA HandAlone ==
  ASSUME NEW t \in Threads, Alone(t), NEW u \in Threads, u # t, HandAt(u)
  PROVE  HandAt(u)'
BY DEF Alone, HandAt, Holding, InList, Nested

\* Calls keep what the caller has at hand.
LEMMA HandCalls ==
  ASSUME TypeOK, HandInv, NEW t \in Threads, NEW to \in Adding \union Removing, CallMoves(t, to),
         UNCHANGED <<msg, found>>, to \in Adding => list'[t] # 0
  PROVE  HandAt(t)'
BY DEF TypeOK, HandInv, HandAt, CallMoves, Holding, InList, Nested, Adding, Removing,
   Threads

\* Every step keeps HandInv.
LEMMA HandStep ==
  ASSUME TypeOK, HandInv, Next
  PROVE  HandInv'
<1> DEFINE Good(t) == Alone(t) /\ HandAt(t)'
<1>1. \A t \in Threads : Good(t) => HandInv'
  BY HandAlone DEF HandInv
<1>2. /\ pc \in [Threads -> PCs] /\ back \in [Threads -> {"idle", "next"}]
      /\ DOMAIN msg = Threads /\ DOMAIN found = Threads /\ DOMAIN list = Threads
  BY DEF TypeOK
<1>3. \A t \in Threads : HandAt(t)
  BY DEF HandInv
<1> USE DEF HandAt, Holding, InList, Nested, Adding, Removing
<1>4. ASSUME NEW t \in Threads, t = "recv", Receive
     PROVE  Good(t)
  BY <1>4, <1>2, <1>3, ReceiveEffects
<1>5. ASSUME NEW t \in Threads, t = "app", CallDistribute
     PROVE  Good(t)
  BY <1>5, <1>2, <1>3, CallDistributeEffects
<1>6. ASSUME NEW t \in Threads, LoopTest(t) \/ Return(t) \/ Advance(t)
     PROVE  Good(t)
  BY <1>6, <1>2, <1>3, WalkEffects
<1>7. ASSUME NEW t \in Threads, Front(t)
     PROVE  Good(t)
  <2>1. <<Head(inbox)>> # <<>>
    OBVIOUS
  <2> QED
    BY <1>7, <2>1, <1>2, <1>3, FrontEffects
<1>8. ASSUME NEW t \in Threads, Pop(t)
     PROVE  Good(t)
  BY <1>8, <1>2, <1>3, PopEffects
<1>9. ASSUME NEW t \in Threads, Find(t)
     PROVE  Good(t)
  BY <1>9, <1>2, <1>3, FindEffects
<1>10. ASSUME NEW t \in Threads, Begin(t)
      PROVE  Good(t)
  BY <1>10, <1>2, <1>3, BeginEffects
<1>11. ASSUME NEW t \in Threads, CallAddListener(t)
       PROVE  Good(t)
  <2>1. list'[t] # 0
    <3>1. adds + 1 # 0
      BY Counters
    <3>2. list' = [list EXCEPT ![t] = adds + 1]
      BY <1>11, CallAddListenerEffects
    <3> QED
      BY <1>2, <3>1, <3>2
  <2> QED
    BY <1>11, <2>1, CallAddListenerEffects, HandCalls
<1>12. ASSUME NEW t \in Threads, CallRemoveListeners(t) \/ CallClear(t)
      PROVE  Good(t)
  BY <1>12, <1>2, <1>3, CallRemovalEffects, HandCalls
<1>13. ASSUME NEW t \in Threads, Search(t)
      PROVE  Good(t)
  BY <1>13, <1>2, <1>3, SearchEffects
<1>14. ASSUME NEW t \in Threads, Insert(t)
      PROVE  Good(t)
  BY <1>14, <1>2, <1>3, InsertEffects
<1>15. ASSUME NEW t \in Threads, PushFront(t)
      PROVE  Good(t)
  BY <1>15, <1>2, <1>3, PushFrontEffects
<1>16. ASSUME NEW t \in Threads, Look(t)
      PROVE  Good(t)
  BY <1>16, <1>2, <1>3, LookEffects
<1>17. ASSUME NEW t \in Threads, Erase(t)
      PROVE  Good(t)
  BY <1>17, <1>2, <1>3, EraseEffects
<1>18. ASSUME NEW t \in Threads, ClearListeners(t)
      PROVE  Good(t)
  BY <1>18, <1>2, <1>3, ClearEffects
<1> HIDE DEF Good
<1> QED
  BY <1>1, <1>4, <1>5, <1>6, <1>7, <1>8, <1>9, <1>10, <1>11, <1>12, <1>13, <1>14,
     <1>15, <1>16, <1>17, <1>18 DEF Next, Threads

\* TypeOK in parts: where the threads are, what they have at hand, what they
\* share.
ControlOK ==
  /\ pc \in [Threads -> PCs]
  /\ back \in [Threads -> {"idle", "next"}]
  /\ broken \in {"no", "null list", "erased entry", "stale iterator", "empty queue"}
  /\ misuse \subseteq {"distribute", "added twice", "nested add", "own removal",
                       "overlapping add", "overlapping removal"}

ArgumentsOK ==
  /\ arg \in [Threads -> Names]
  /\ found \in [Threads -> {0} \union Lists]
  /\ list \in [Threads -> {0} \union Lists]

MessagesOK ==
  /\ msg \in [Threads -> {<<>>} \union {<<m>> : m \in Message}]
  /\ inbox \in Seq(Message)
  /\ given \in Seq(Message)

RegistryOK ==
  /\ map \in [Names -> {0} \union Lists]
  /\ stale \subseteq Iterators
  /\ filled \subseteq Lists
  /\ adds \in 0..MaxAdds /\ removals \in 0..MaxRemovals /\ arrived \in 0..MaxMessages

\* What a call meets is one of the kinds of misuse.
LEMMA KindsOfMisuse ==
  ASSUME NEW t \in Threads
  PROVE  Doing(t) \subseteq {"overlapping add", "overlapping removal"}
BY DEF Doing

\* Every step keeps the types.
LEMMA TypeStep ==
  ASSUME TypeOK, HandInv, Next
  PROVE  TypeOK'
<1>0. /\ MaxAdds \in Nat /\ MaxRemovals \in Nat
      /\ adds \in 0..MaxAdds /\ removals \in 0..MaxRemovals
  BY ListenersAssumption DEF TypeOK
<1>1. \A t \in Threads : HandAt(t) /\ HandAt(t)'
  BY HandStep DEF HandInv
<1>2. \A t \in Threads : Holding(t) => NameOf(t) \in Names /\ msg[t] \in Seq(Message)
  <2> SUFFICES ASSUME NEW t \in Threads, Holding(t)
               PROVE  NameOf(t) \in Names /\ msg[t] \in Seq(Message)
    OBVIOUS
  <2>1. NameOf(t) \in Names /\ msg[t] = <<msg[t][1]>> /\ msg[t][1] \in Message
    BY <1>1, NameOfType DEF HandAt
  <2>2. <<msg[t][1]>> \in Seq(Message)
    BY <2>1
  <2> QED
    BY <2>1, <2>2
<1>3. \A t \in Threads : pc'[t] \in {"begin", "call", "next"} => found'[t] # 0
  BY <1>1 DEF HandAt, InList
<1>4. ControlOK /\ ArgumentsOK /\ MessagesOK /\ RegistryOK
  BY DEF TypeOK, ControlOK, ArgumentsOK, MessagesOK, RegistryOK
<1>5. SUFFICES (ControlOK /\ ArgumentsOK /\ MessagesOK /\ RegistryOK)'
  BY <1>3 DEF TypeOK, ControlOK, ArgumentsOK, MessagesOK, RegistryOK
<1>6. ASSUME NEW t \in Threads, t = "recv", Receive
      PROVE  (ControlOK /\ ArgumentsOK /\ MessagesOK /\ RegistryOK)'
  <2>1. ControlOK'
    <3>1. Doing(Other(t)) \subseteq {"overlapping add", "overlapping removal"}
      BY KindsOfMisuse, OtherThread
    <3>2. /\ pc' = [pc EXCEPT ![t] = "test"] /\ UNCHANGED <<back, broken>>
          /\ misuse' = misuse \union Doing(Other(t))
      BY <1>6, ReceiveEffects
    <3> QED
      BY <1>4, <3>1, <3>2 DEF ControlOK, PCs
  <2>2. ArgumentsOK'
    BY <1>6, <1>4, ReceiveEffects DEF ArgumentsOK
  <2>3. MessagesOK'
    BY <1>6, <1>4, ReceiveEffects DEF MessagesOK
  <2>4. RegistryOK'
    BY <1>6, <1>4, ReceiveEffects DEF RegistryOK
  <2> QED
    BY <2>1, <2>2, <2>3, <2>4
<1>7. ASSUME NEW t \in Threads, t = "app", CallDistribute
      PROVE  (ControlOK /\ ArgumentsOK /\ MessagesOK /\ RegistryOK)'
  <2>1. ControlOK'
    <3>1. Doing(Other(t)) \subseteq {"overlapping add", "overlapping removal"}
      BY KindsOfMisuse, OtherThread
    <3>2. /\ pc' = [pc EXCEPT ![t] = "test"] /\ UNCHANGED <<back, broken>>
          /\ misuse' = misuse \union {"distribute"} \union Doing(Other(t))
      BY <1>7, CallDistributeEffects
    <3> QED
      BY <1>4, <3>1, <3>2 DEF ControlOK, PCs
  <2>2. ArgumentsOK'
    BY <1>7, <1>4, CallDistributeEffects DEF ArgumentsOK
  <2>3. MessagesOK'
    BY <1>7, <1>4, CallDistributeEffects DEF MessagesOK
  <2>4. RegistryOK'
    BY <1>7, <1>4, CallDistributeEffects DEF RegistryOK
  <2> QED
    BY <2>1, <2>2, <2>3, <2>4
<1>8. ASSUME NEW t \in Threads, LoopTest(t) \/ Return(t) \/ Advance(t)
      PROVE  (ControlOK /\ ArgumentsOK /\ MessagesOK /\ RegistryOK)'
  <2>1. ControlOK'
    BY <1>8, <1>4, WalkEffects DEF ControlOK, PCs
  <2>2. ArgumentsOK'
    BY <1>8, <1>4, WalkEffects DEF ArgumentsOK
  <2>3. MessagesOK'
    BY <1>8, <1>4, WalkEffects DEF MessagesOK
  <2>4. RegistryOK'
    BY <1>8, <1>4, WalkEffects DEF RegistryOK
  <2> QED
    BY <2>1, <2>2, <2>3, <2>4
<1>9. ASSUME NEW t \in Threads, Front(t)
      PROVE  (ControlOK /\ ArgumentsOK /\ MessagesOK /\ RegistryOK)'
  <2>1. ControlOK'
    BY <1>9, <1>4, FrontEffects DEF ControlOK, PCs
  <2>2. ArgumentsOK'
    BY <1>9, <1>4, FrontEffects DEF ArgumentsOK
  <2>3. MessagesOK'
    <3>1. inbox # <<>> => Head(inbox) \in Message
      BY <1>4, HeadTailProperties DEF MessagesOK
    <3> QED
      BY <1>9, <1>4, <3>1, FrontEffects DEF MessagesOK
  <2>4. RegistryOK'
    BY <1>9, <1>4, FrontEffects DEF RegistryOK
  <2> QED
    BY <2>1, <2>2, <2>3, <2>4
<1>10. ASSUME NEW t \in Threads, Pop(t)
       PROVE  (ControlOK /\ ArgumentsOK /\ MessagesOK /\ RegistryOK)'
  <2>1. ControlOK'
    BY <1>10, <1>4, PopEffects DEF ControlOK, PCs
  <2>2. ArgumentsOK'
    BY <1>10, <1>4, PopEffects DEF ArgumentsOK
  <2>3. MessagesOK'
    <3>1. inbox # <<>> => Tail(inbox) \in Seq(Message)
      BY <1>4, HeadTailProperties DEF MessagesOK
    <3> QED
      BY <1>10, <1>4, <3>1, PopEffects DEF MessagesOK
  <2>4. RegistryOK'
    BY <1>10, <1>4, PopEffects DEF RegistryOK
  <2> QED
    BY <2>1, <2>2, <2>3, <2>4
<1>11. ASSUME NEW t \in Threads, Find(t)
       PROVE  (ControlOK /\ ArgumentsOK /\ MessagesOK /\ RegistryOK)'
  <2>1. ControlOK'
    BY <1>11, <1>4, FindEffects DEF ControlOK, PCs
  <2>2. ArgumentsOK'
    <3>1. map[NameOf(t)] \in {0} \union Lists
      BY <1>11, <1>2, <1>4, FindEffects DEF RegistryOK, Holding
    <3> QED
      BY <1>11, <1>4, <3>1, FindEffects DEF ArgumentsOK
  <2>3. MessagesOK'
    BY <1>11, <1>4, FindEffects DEF MessagesOK
  <2>4. RegistryOK'
    BY <1>11, <1>4, FindEffects DEF RegistryOK
  <2> QED
    BY <2>1, <2>2, <2>3, <2>4
<1>12. ASSUME NEW t \in Threads, Begin(t)
       PROVE  (ControlOK /\ ArgumentsOK /\ MessagesOK /\ RegistryOK)'
  <2>1. ControlOK'
    BY <1>12, <1>4, BeginEffects DEF ControlOK, PCs
  <2>2. ArgumentsOK'
    BY <1>12, <1>4, BeginEffects DEF ArgumentsOK
  <2>3. MessagesOK'
    <3>1. given \o msg[t] \in Seq(Message)
      BY <1>12, <1>2, <1>4, BeginEffects, ConcatProperties DEF MessagesOK, Holding, InList
    <3> QED
      BY <1>12, <1>4, <3>1, BeginEffects DEF MessagesOK
  <2>4. RegistryOK'
    BY <1>12, <1>4, BeginEffects DEF RegistryOK
  <2> QED
    BY <2>1, <2>2, <2>3, <2>4
<1>13. ASSUME NEW t \in Threads, CallAddListener(t)
       PROVE  (ControlOK /\ ArgumentsOK /\ MessagesOK /\ RegistryOK)'
  <2>1. ControlOK'
    <3>1. Overlaps(t, "overlapping add") \subseteq {"overlapping add"}
      BY DEF Overlaps
    <3>2. CallMoves(t, "search") /\ UNCHANGED broken
      BY <1>13, CallAddListenerEffects
    <3>3. misuse' \subseteq misuse \union {"overlapping add", "added twice", "nested add"}
      <4>1. PICK n \in Names :
              misuse' = misuse \union Overlaps(t, "overlapping add")
                               \union (IF map[n] = 0 THEN {} ELSE {"added twice"})
                               \union (IF pc[t] = "call" THEN {"nested add"} ELSE {})
        BY <1>13, CallAddListenerEffects
      <4>2. /\ (IF map[n] = 0 THEN {} ELSE {"added twice"}) \subseteq {"added twice"}
            /\ (IF pc[t] = "call" THEN {"nested add"} ELSE {}) \subseteq {"nested add"}
        OBVIOUS
      <4> QED
        BY <3>1, <4>1, <4>2
    <3> QED
      BY <1>4, <3>2, <3>3 DEF ControlOK, CallMoves, PCs
  <2>2. ArgumentsOK'
    <3>0. adds < MaxAdds
      BY <1>13, CallAddListenerEffects
    <3>1. adds + 1 \in Lists
      BY <1>0, <3>0 DEF Lists
    <3>2. list' = [list EXCEPT ![t] = adds + 1] /\ UNCHANGED found
      BY <1>13, CallAddListenerEffects
    <3>3. \E n \in Names : arg' = [arg EXCEPT ![t] = n]
      BY <1>13, CallAddListenerEffects
    <3> QED
      BY <1>4, <3>1, <3>2, <3>3 DEF ArgumentsOK
  <2>3. MessagesOK'
    BY <1>13, <1>4, CallAddListenerEffects DEF MessagesOK
  <2>4. RegistryOK'
    <3>1. /\ adds < MaxAdds /\ adds' = adds + 1
          /\ UNCHANGED <<map, stale, filled, removals, arrived>>
      BY <1>13, CallAddListenerEffects
    <3>2. adds' \in 0..MaxAdds
      BY <1>0, <3>1
    <3> QED
      BY <1>4, <3>1, <3>2 DEF RegistryOK
  <2> QED
    BY <2>1, <2>2, <2>3, <2>4
<1>14. ASSUME NEW t \in Threads, CallRemoveListeners(t) \/ CallClear(t)
       PROVE  (ControlOK /\ ArgumentsOK /\ MessagesOK /\ RegistryOK)'
  <2>1. ControlOK'
    <3>1. Overlaps(t, "overlapping removal") \subseteq {"overlapping removal"}
      BY DEF Overlaps
    <3>2. (CallMoves(t, "look") \/ CallMoves(t, "clear")) /\ UNCHANGED broken
      BY <1>14, CallRemovalEffects
    <3>3. misuse' \subseteq misuse \union {"overlapping removal", "own removal"}
      BY <1>14, <3>1, CallRemovalEffects
    <3> QED
      BY <1>4, <3>2, <3>3 DEF ControlOK, CallMoves, PCs
  <2>2. ArgumentsOK'
    BY <1>14, <1>4, CallRemovalEffects DEF ArgumentsOK
  <2>3. MessagesOK'
    BY <1>14, <1>4, CallRemovalEffects DEF MessagesOK
  <2>4. RegistryOK'
    <3>1. /\ removals < MaxRemovals /\ removals' = removals + 1
          /\ UNCHANGED <<map, stale, filled, adds, arrived>>
      BY <1>14, CallRemovalEffects
    <3>2. removals' \in 0..MaxRemovals
      BY <1>0, <3>1
    <3> QED
      BY <1>4, <3>1, <3>2 DEF RegistryOK
  <2> QED
    BY <2>1, <2>2, <2>3, <2>4
<1>15. ASSUME NEW t \in Threads, Search(t)
       PROVE  (ControlOK /\ ArgumentsOK /\ MessagesOK /\ RegistryOK)'
  <2>1. ControlOK'
    BY <1>15, <1>4, SearchEffects DEF ControlOK, PCs
  <2>2. ArgumentsOK'
    BY <1>15, <1>4, SearchEffects DEF ArgumentsOK
  <2>3. MessagesOK'
    BY <1>15, <1>4, SearchEffects DEF MessagesOK
  <2>4. RegistryOK'
    BY <1>15, <1>4, SearchEffects DEF RegistryOK
  <2> QED
    BY <2>1, <2>2, <2>3, <2>4
<1>16. ASSUME NEW t \in Threads, Insert(t)
       PROVE  (ControlOK /\ ArgumentsOK /\ MessagesOK /\ RegistryOK)'
  <2>1. ControlOK'
    BY <1>16, <1>4, InsertEffects DEF ControlOK, PCs
  <2>2. ArgumentsOK'
    BY <1>16, <1>4, InsertEffects DEF ArgumentsOK
  <2>3. MessagesOK'
    BY <1>16, <1>4, InsertEffects DEF MessagesOK
  <2>4. RegistryOK'
    <3>1. list[t] \in {0} \union Lists
      BY <1>4 DEF ArgumentsOK
    <3> QED
      BY <1>16, <1>4, <3>1, InsertEffects DEF RegistryOK
  <2> QED
    BY <2>1, <2>2, <2>3, <2>4
<1>17. ASSUME NEW t \in Threads, PushFront(t)
       PROVE  (ControlOK /\ ArgumentsOK /\ MessagesOK /\ RegistryOK)'
  <2>1. ControlOK'
    BY <1>17, <1>4, PushFrontEffects DEF ControlOK, PCs
  <2>2. ArgumentsOK'
    BY <1>17, <1>4, PushFrontEffects DEF ArgumentsOK
  <2>3. MessagesOK'
    BY <1>17, <1>4, PushFrontEffects DEF MessagesOK
  <2>4. RegistryOK'
    <3>1. list[t] \in Lists
      BY <1>17, <1>1, <1>4, PushFrontEffects DEF ArgumentsOK, HandAt, Adding
    <3> QED
      BY <1>17, <1>4, <3>1, PushFrontEffects DEF RegistryOK
  <2> QED
    BY <2>1, <2>2, <2>3, <2>4
<1>18. ASSUME NEW t \in Threads, Look(t)
       PROVE  (ControlOK /\ ArgumentsOK /\ MessagesOK /\ RegistryOK)'
  <2>1. ControlOK'
    <3>1. /\ pc' = [pc EXCEPT ![t] = IF map[arg[t]] = 0 THEN back[t] ELSE "erase"]
          /\ UNCHANGED <<back, broken, misuse>>
      BY <1>18, LookEffects
    <3> QED
      BY <1>4, <3>1 DEF ControlOK, PCs
  <2>2. ArgumentsOK'
    BY <1>18, <1>4, LookEffects DEF ArgumentsOK
  <2>3. MessagesOK'
    BY <1>18, <1>4, LookEffects DEF MessagesOK
  <2>4. RegistryOK'
    BY <1>18, <1>4, LookEffects DEF RegistryOK
  <2> QED
    BY <2>1, <2>2, <2>3, <2>4
<1>19. ASSUME NEW t \in Threads, Erase(t)
       PROVE  (ControlOK /\ ArgumentsOK /\ MessagesOK /\ RegistryOK)'
  <2>1. ControlOK'
    BY <1>19, <1>4, EraseEffects DEF ControlOK, PCs
  <2>2. ArgumentsOK'
    BY <1>19, <1>4, EraseEffects DEF ArgumentsOK
  <2>3. MessagesOK'
    BY <1>19, <1>4, EraseEffects DEF MessagesOK
  <2>4. RegistryOK'
    BY <1>19, <1>4, EraseEffects DEF RegistryOK
  <2> QED
    BY <2>1, <2>2, <2>3, <2>4
<1>20. ASSUME NEW t \in Threads, ClearListeners(t)
       PROVE  (ControlOK /\ ArgumentsOK /\ MessagesOK /\ RegistryOK)'
  <2>1. ControlOK'
    BY <1>20, <1>4, ClearEffects DEF ControlOK, PCs
  <2>2. ArgumentsOK'
    BY <1>20, <1>4, ClearEffects DEF ArgumentsOK
  <2>3. MessagesOK'
    BY <1>20, <1>4, ClearEffects DEF MessagesOK
  <2>4. RegistryOK'
    BY <1>20, <1>4, ClearEffects DEF RegistryOK
  <2> QED
    BY <2>1, <2>2, <2>3, <2>4
<1> QED
  BY <1>6, <1>7, <1>8, <1>9, <1>10, <1>11, <1>12, <1>13, <1>14, <1>15, <1>16, <1>17,
     <1>18, <1>19, <1>20 DEF Next, Threads

-----------------------------------------------------------------------------
(* What two threads do at once has been noted.                             *)

\* A step of one thread that begins nothing new needs no note.
LEMMA NotedQuietly ==
  ASSUME NotedInv, NEW t \in Threads, Alone(t), misuse \subseteq misuse',
         pc'[t] \in Adding => pc[t] \in Adding,
         pc'[t] \in Removing => pc[t] \in Removing,
         InDistribute(t)' => InDistribute(t)
  PROVE  NotedInv'
<1>1. \A u \in Threads : u # t =>
        /\ pc'[u] = pc[u]
        /\ InDistribute(u)' <=> InDistribute(u)
  BY DEF Alone, InDistribute, Holding, InList, Nested
<1> QED
  BY <1>1 DEF NotedInv

\* A thread that begins an addition, a removal or a distribution notes what
\* it meets.
LEMMA NotedBeginning ==
  ASSUME NotedInv, NEW t \in Threads, Alone(t), misuse \subseteq misuse',
         InDistribute(t)' /\ t = "app" => "distribute" \in misuse',
         pc'[t] \in Adding /\ pc[Other(t)] \in Adding => "overlapping add" \in misuse',
         pc'[t] \in Removing /\ (InDistribute(Other(t)) \/ pc[Other(t)] \in Removing)
           => "overlapping removal" \in misuse',
         pc[Other(t)] \in Removing /\ (InDistribute(t)' \/ pc'[t] \in Removing)
           => "overlapping removal" \in misuse'
  PROVE  NotedInv'
<1>1. /\ Other(t) \in Threads /\ Other(t) # t
      /\ \A u \in Threads : u # t => u = Other(t)
  BY OtherThread
<1>2. /\ pc'[Other(t)] = pc[Other(t)]
      /\ InDistribute(Other(t))' <=> InDistribute(Other(t))
  <2> DEFINE o == Other(t)
  <2>1. /\ pc'[o] = pc[o] /\ back'[o] = back[o] /\ o' = o
    BY <1>1 DEF Alone, Other
  <2> HIDE DEF o
  <2>2. InDistribute(o)' <=> InDistribute(o)
    BY <2>1 DEF InDistribute, Holding, InList, Nested
  <2> QED
    BY <2>1, <2>2 DEF o
<1> QED
  BY <1>1, <1>2 DEF NotedInv

\* Every step keeps NotedInv.
LEMMA NotedStep ==
  ASSUME TypeOK, HandInv, NotedInv, Next
  PROVE  NotedInv'
<1>1. /\ pc \in [Threads -> PCs] /\ back \in [Threads -> {"idle", "next"}]
  BY DEF TypeOK
<1>2. \A t \in Threads : Other(t) \in Threads /\ Other(t) # t
  BY OtherThread
<1>3. \A t \in Threads : t = "app" /\ InDistribute(t) => "distribute" \in misuse
  BY DEF NotedInv
<1>4. \A t \in Threads : pc[Other(t)] \in Removing /\ (InDistribute(t) \/ pc[t] \in Removing)
                           => "overlapping removal" \in misuse
  BY <1>2 DEF NotedInv
<1>5. \A t \in Threads : InDistribute(Other(t)) \/ pc[Other(t)] \in Adding \union Removing
                           => pc[Other(t)] # "idle"
  BY DEF InDistribute, Holding, InList, Nested, Adding, Removing
<1>6. ASSUME NEW t \in Threads, t = "recv", Receive
      PROVE  NotedInv'
  <2>1. /\ Alone(t) /\ pc' = [pc EXCEPT ![t] = "test"]
        /\ misuse' = misuse \union Doing(Other(t))
    BY <1>6, ReceiveEffects
  <2>2. pc[Other(t)] \in Removing => "overlapping removal" \in misuse'
    BY <2>1 DEF Doing, Removing
  <2> QED
    BY <1>1, <1>6, <2>1, <2>2, NotedBeginning DEF Adding, Removing
<1>7. ASSUME NEW t \in Threads, t = "app", CallDistribute
      PROVE  NotedInv'
  <2>1. /\ Alone(t) /\ pc' = [pc EXCEPT ![t] = "test"]
        /\ misuse' = misuse \union {"distribute"} \union Doing(Other(t))
    BY <1>7, CallDistributeEffects
  <2>2. pc[Other(t)] \in Removing => "overlapping removal" \in misuse'
    BY <2>1 DEF Doing, Removing
  <2> QED
    BY <1>1, <1>7, <2>1, <2>2, NotedBeginning DEF Adding, Removing
<1>8. ASSUME NEW t \in Threads, CallAddListener(t)
      PROVE  NotedInv'
  <2>1. Alone(t) /\ CallMoves(t, "search")
    BY <1>8, CallAddListenerEffects
  <2>2. /\ misuse \subseteq misuse'
        /\ pc[Other(t)] # "idle" => "overlapping add" \in misuse'
    BY <1>8, CallAddListenerEffects DEF Overlaps
  <2>3. pc'[t] = "search" /\ (InDistribute(t)' => InDistribute(t))
    BY <1>1, <2>1 DEF CallMoves, InDistribute, Holding, InList, Nested, Adding, Removing
  <2> QED
    BY <1>2, <1>3, <1>4, <1>5, <2>1, <2>2, <2>3, NotedBeginning DEF Removing
<1>9. ASSUME NEW t \in Threads, CallRemoveListeners(t) \/ CallClear(t)
      PROVE  NotedInv'
  <2>1. Alone(t) /\ (CallMoves(t, "look") \/ CallMoves(t, "clear"))
    BY <1>9, CallRemovalEffects
  <2>2. /\ misuse \subseteq misuse'
        /\ pc[Other(t)] # "idle" => "overlapping removal" \in misuse'
    BY <1>9, CallRemovalEffects DEF Overlaps
  <2>3. pc'[t] \in {"look", "clear"} /\ (InDistribute(t)' => InDistribute(t))
    BY <1>1, <2>1 DEF CallMoves, InDistribute, Holding, InList, Nested, Adding, Removing
  <2> QED
    BY <1>2, <1>3, <1>4, <1>5, <2>1, <2>2, <2>3, NotedBeginning DEF Adding
<1>10. ASSUME NEW t \in Threads, LoopTest(t) \/ Return(t) \/ Advance(t)
       PROVE  NotedInv'
  BY <1>1, <1>10, WalkEffects, NotedQuietly DEF InDistribute, Holding, InList, Nested,
     Adding, Removing
<1>11. ASSUME NEW t \in Threads, Front(t)
       PROVE  NotedInv'
  BY <1>1, <1>11, FrontEffects, NotedQuietly DEF InDistribute, Holding, InList, Nested,
     Adding, Removing
<1>12. ASSUME NEW t \in Threads, Pop(t)
       PROVE  NotedInv'
  BY <1>1, <1>12, PopEffects, NotedQuietly DEF InDistribute, Holding, InList, Nested,
     Adding, Removing
<1>13. ASSUME NEW t \in Threads, Find(t)
       PROVE  NotedInv'
  BY <1>1, <1>13, FindEffects, NotedQuietly DEF InDistribute, Holding, InList, Nested,
     Adding, Removing
<1>14. ASSUME NEW t \in Threads, Begin(t)
       PROVE  NotedInv'
  BY <1>1, <1>14, BeginEffects, NotedQuietly DEF InDistribute, Holding, InList, Nested,
     Adding, Removing
<1>15. ASSUME NEW t \in Threads, Search(t)
       PROVE  NotedInv'
  BY <1>1, <1>15, SearchEffects, NotedQuietly DEF InDistribute, Holding, InList, Nested,
     Adding, Removing
<1>16. ASSUME NEW t \in Threads, Insert(t)
       PROVE  NotedInv'
  BY <1>1, <1>16, InsertEffects, NotedQuietly DEF InDistribute, Holding, InList, Nested,
     Adding, Removing
<1>17. ASSUME NEW t \in Threads, PushFront(t)
       PROVE  NotedInv'
  BY <1>1, <1>17, PushFrontEffects, NotedQuietly DEF InDistribute, Holding, InList, Nested,
     Adding, Removing
<1>18. ASSUME NEW t \in Threads, Look(t)
       PROVE  NotedInv'
  BY <1>1, <1>18, LookEffects, NotedQuietly DEF InDistribute, Holding, InList, Nested,
     Adding, Removing
<1>19. ASSUME NEW t \in Threads, Erase(t)
       PROVE  NotedInv'
  BY <1>1, <1>19, EraseEffects, NotedQuietly DEF InDistribute, Holding, InList, Nested,
     Adding, Removing
<1>20. ASSUME NEW t \in Threads, ClearListeners(t)
       PROVE  NotedInv'
  BY <1>1, <1>20, ClearEffects, NotedQuietly DEF InDistribute, Holding, InList, Nested,
     Adding, Removing
<1> QED
  BY <1>6, <1>7, <1>8, <1>9, <1>10, <1>11, <1>12, <1>13, <1>14, <1>15, <1>16, <1>17,
     <1>18, <1>19, <1>20 DEF Next, Threads

-----------------------------------------------------------------------------
(* What the threads rely on.                                               *)

\* A step that does not touch the map nor empty the inbox leaves to the other
\* thread what it relies on.
LEMMA ReliesAlone ==
  ASSUME NEW t \in Threads, Alone(t), NEW u \in Threads, u # t, ReliesAt(u),
         UNCHANGED map, misuse \subseteq misuse', inbox' = <<>> => inbox = <<>>
  PROVE  ReliesAt(u)'
BY DEF Alone, ReliesAt, InList, Nested, Erased, NameOf

\* Insertion leaves to the other thread what it relies on, unless that adds.
LEMMA ReliesInsert ==
  ASSUME TypeOK, HandInv, NotedInv, ReliesInv, NEW t \in Threads, Insert(t),
         NEW u \in Threads
  PROVE  ReliesAt(u)'
<1>1. /\ pc[t] = "insert" /\ pc' = [pc EXCEPT ![t] = "push"]
      /\ map' = IF map[arg[t]] = 0 THEN [map EXCEPT ![arg[t]] = list[t]] ELSE map
      /\ UNCHANGED <<back, arg, msg, found, inbox, misuse>>
  BY InsertEffects
<1>2. /\ pc \in [Threads -> PCs] /\ DOMAIN map = Names /\ arg[u] \in Names /\ arg[t] \in Names
  BY DEF TypeOK
<1>3. list[t] # 0 /\ (InList(u) => found[u] # 0 /\ NameOf(u) \in Names)
  BY <1>1, NameOfType DEF HandInv, HandAt, Holding, Adding
<1>4. u # t /\ pc[u] = "search" => "overlapping add" \in misuse
  BY <1>1 DEF NotedInv, Adding
<1>5. ReliesAt(u)
  BY DEF ReliesInv
<1>6. InList(u)' <=> InList(u)
  BY <1>1, <1>2 DEF InList, Nested, Adding
<1>7. NameOf(u)' = NameOf(u)
  BY <1>1 DEF NameOf
<1>8. InList(u) /\ Erased(u)' => Erased(u)
  BY <1>1, <1>2, <1>3, <1>7 DEF Erased
<1> QED
  BY <1>1, <1>2, <1>3, <1>4, <1>5, <1>6, <1>7, <1>8 DEF ReliesAt

\* A thread that erases an entry from under the other has noted it.
LEMMA ReliesErase ==
  ASSUME TypeOK, HandInv, NotedInv, ReliesInv, NEW t \in Threads, Erase(t),
         NEW u \in Threads
  PROVE  ReliesAt(u)'
<1>1. /\ pc[t] = "erase" /\ Alone(t)
      /\ UNCHANGED <<back, arg, msg, found, inbox, misuse>>
      /\ \/ UNCHANGED <<pc, map>>
         \/ /\ pc' = [pc EXCEPT ![t] = back[t]]
            /\ map' = [map EXCEPT ![arg[t]] = 0]
  BY EraseEffects
<1>2. /\ pc \in [Threads -> PCs] /\ back \in [Threads -> {"idle", "next"}]
      /\ DOMAIN map = Names /\ arg[u] \in Names /\ arg[t] \in Names
  BY DEF TypeOK
<1>3. InList(u) => NameOf(u) \in Names
  BY NameOfType DEF HandInv, HandAt, Holding
<1>4. u # t /\ (InDistribute(u) \/ pc[u] \in Removing) => "overlapping removal" \in misuse
  BY <1>1 DEF NotedInv, Removing
<1>5. ReliesAt(u)
  BY DEF ReliesInv
<1>6. NameOf(u)' = NameOf(u)
  BY <1>1 DEF NameOf
<1>7. CASE u # t
  <2>1. pc'[u] = pc[u] /\ (InList(u)' <=> InList(u))
    BY <1>1, <1>7 DEF Alone, InList, Nested
  <2> QED
    BY <1>1, <1>2, <1>4, <1>5, <1>6, <1>7, <2>1 DEF ReliesAt, InDistribute, Holding,
       Removing
<1>8. CASE u = t
  <2>1. InList(u)' => InList(u) /\ back[u] = "next"
    BY <1>1, <1>2, <1>8 DEF InList, Nested, Removing
  <2>2. InList(u) /\ arg[u] # NameOf(u) => map'[NameOf(u)] = map[NameOf(u)]
    BY <1>1, <1>2, <1>3, <1>8
  <2> QED
    BY <1>1, <1>2, <1>5, <1>6, <1>8, <2>1, <2>2 DEF ReliesAt, Erased
<1> QED
  BY <1>7, <1>8

\* A thread that clears the map under the other has noted it.
LEMMA ReliesClear ==
  ASSUME TypeOK, HandInv, NotedInv, ReliesInv, NEW t \in Threads, ClearListeners(t),
         NEW u \in Threads
  PROVE  ReliesAt(u)'
<1>1. /\ pc[t] = "clear" /\ Alone(t)
      /\ UNCHANGED <<back, arg, msg, found, inbox, misuse>>
      /\ pc' = [pc EXCEPT ![t] = back[t]]
      /\ map' = [n \in Names |-> 0]
  BY ClearEffects
<1>2. /\ pc \in [Threads -> PCs] /\ back \in [Threads -> {"idle", "next"}]
      /\ arg[u] \in Names
  BY DEF TypeOK
<1>3. u # t /\ (InDistribute(u) \/ pc[u] \in Removing) => "overlapping removal" \in misuse
  BY <1>1 DEF NotedInv, Removing
<1>4. ReliesAt(u)
  BY DEF ReliesInv
<1>5. NameOf(u)' = NameOf(u)
  BY <1>1 DEF NameOf
<1>6. CASE u # t
  <2>1. pc'[u] = pc[u] /\ (InList(u)' <=> InList(u))
    BY <1>1, <1>6 DEF Alone, InList, Nested
  <2> QED
    BY <1>1, <1>2, <1>3, <1>4, <1>5, <1>6, <2>1 DEF ReliesAt, InDistribute, Holding,
       Removing
<1>7. CASE u = t
  <2>1. InList(u)' => back[u] = "next"
    BY <1>1, <1>2, <1>7 DEF InList, Nested, Removing
  <2> QED
    BY <1>1, <1>2, <1>4, <1>5, <1>7, <2>1 DEF ReliesAt
<1> QED
  BY <1>6, <1>7

\* Every step keeps ReliesInv.
LEMMA ReliesStep ==
  ASSUME TypeOK, HandInv, NotedInv, ReliesInv, Next
  PROVE  ReliesInv'
<1> DEFINE Good(t) == /\ Alone(t) /\ UNCHANGED map /\ misuse \subseteq misuse'
                      /\ inbox' = <<>> => inbox = <<>>
                      /\ ReliesAt(t)'
<1>1. \A t \in Threads : Good(t) => ReliesInv'
  BY ReliesAlone DEF ReliesInv
<1>2. /\ pc \in [Threads -> PCs] /\ back \in [Threads -> {"idle", "next"}]
      /\ DOMAIN arg = Threads /\ DOMAIN found = Threads /\ DOMAIN msg = Threads
  BY DEF TypeOK
<1>3. \A t \in Threads : ReliesAt(t) /\ (InList(t) => NameOf(t) \in Names)
  BY NameOfType DEF ReliesInv, HandInv, HandAt, Holding
<1>4. ASSUME NEW t \in Threads, t = "recv", Receive
      PROVE  Good(t)
  <2>1. /\ Alone(t) /\ pc' = [pc EXCEPT ![t] = "test"] /\ UNCHANGED map
        /\ inbox' # <<>> /\ misuse \subseteq misuse'
    BY <1>4, ReceiveEffects
  <2> QED
    BY <1>2, <2>1 DEF ReliesAt, InList, Nested, Adding, Removing
<1>5. ASSUME NEW t \in Threads, t = "app", CallDistribute
      PROVE  Good(t)
  <2>1. /\ Alone(t) /\ pc' = [pc EXCEPT ![t] = "test"] /\ UNCHANGED <<map, inbox>>
        /\ misuse \subseteq misuse'
    BY <1>5, CallDistributeEffects
  <2> QED
    BY <1>2, <2>1 DEF ReliesAt, InList, Nested, Adding, Removing
<1>6. ASSUME NEW t \in Threads, CallAddListener(t)
      PROVE  Good(t)
  <2>1. /\ Alone(t) /\ CallMoves(t, "search") /\ misuse \subseteq misuse'
        /\ UNCHANGED <<msg, found, inbox, map>>
    BY <1>6, CallAddListenerEffects
  <2>2. PICK n \in Names :
          /\ arg' = [arg EXCEPT ![t] = n]
          /\ map[n] # 0 => "added twice" \in misuse'
    BY <1>6, CallAddListenerEffects
  <2>3. pc'[t] = "search" /\ (InList(t)' => InList(t)) /\ arg'[t] = n
    BY <1>2, <2>1, <2>2 DEF CallMoves, InList, Nested
  <2>4. NameOf(t)' = NameOf(t) /\ (Erased(t)' <=> Erased(t))
    BY <2>1 DEF NameOf, Erased
  <2> QED
    BY <1>3, <2>1, <2>2, <2>3, <2>4 DEF ReliesAt
<1>7. ASSUME NEW t \in Threads, CallRemoveListeners(t) \/ CallClear(t)
      PROVE  Good(t)
  <2>1. Alone(t) /\ UNCHANGED <<msg, found, inbox, map>>
    BY <1>7, CallRemovalEffects
  <2>2. PICK names :
          /\ misuse' = misuse \union Overlaps(t, "overlapping removal")
                              \union (IF pc[t] = "call" /\ NameOf(t) \in names
                                        THEN {"own removal"} ELSE {})
          /\ \/ /\ CallMoves(t, "look")
                /\ \E n \in Names : names = {n} /\ arg' = [arg EXCEPT ![t] = n]
             \/ /\ CallMoves(t, "clear")
                /\ names = Names /\ UNCHANGED arg
    BY <1>7, CallRemovalEffects
  <2>3. /\ misuse \subseteq misuse'
        /\ pc[t] = "call" /\ NameOf(t) \in names => "own removal" \in misuse'
    BY <2>2
  <2>4. /\ pc'[t] \in {"look", "clear"} /\ (InList(t)' => InList(t))
        /\ back'[t] = "next" => pc[t] = "call"
    BY <1>2, <2>2 DEF CallMoves, InList, Nested
  <2>5. pc'[t] = "look" => names = {arg'[t]}
    BY <1>2, <2>2 DEF CallMoves
  <2>6. pc'[t] = "clear" => names = Names
    BY <1>2, <2>2 DEF CallMoves
  <2>7. NameOf(t)' = NameOf(t) /\ (Erased(t)' <=> Erased(t))
    BY <2>1 DEF NameOf, Erased
  <2>8. pc[t] = "call" => NameOf(t) \in Names
    BY <1>3 DEF InList
  <2> QED
    BY <1>3, <2>1, <2>3, <2>4, <2>5, <2>6, <2>7, <2>8 DEF ReliesAt
<1>8. ASSUME NEW t \in Threads, LoopTest(t) \/ Return(t) \/ Advance(t)
      PROVE  Good(t)
  BY <1>2, <1>3, <1>8, WalkEffects DEF ReliesAt, InList, Nested, Erased, NameOf,
     Adding, Removing
<1>9. ASSUME NEW t \in Threads, Front(t)
      PROVE  Good(t)
  BY <1>2, <1>3, <1>9, FrontEffects DEF ReliesAt, InList, Nested, Erased, NameOf,
     Adding, Removing
<1>10. ASSUME NEW t \in Threads, Find(t)
       PROVE  Good(t)
  <2>1. /\ Alone(t) /\ pc'[t] \in {"test", "begin"}
        /\ UNCHANGED <<map, inbox, msg, misuse>> /\ found'[t] = map[NameOf(t)]
    BY <1>2, <1>10, FindEffects
  <2>2. ~Erased(t)'
    BY <2>1 DEF Erased, NameOf
  <2> QED
    BY <2>1, <2>2 DEF ReliesAt
<1>11. ASSUME NEW t \in Threads, Begin(t)
       PROVE  Good(t)
  BY <1>2, <1>3, <1>11, BeginEffects DEF ReliesAt, InList, Nested, Erased, NameOf,
     Adding, Removing
<1>12. ASSUME NEW t \in Threads, Search(t)
       PROVE  Good(t)
  BY <1>2, <1>3, <1>12, SearchEffects DEF ReliesAt, InList, Nested, Erased, NameOf,
     Adding, Removing
<1>13. ASSUME NEW t \in Threads, PushFront(t)
       PROVE  Good(t)
  BY <1>2, <1>3, <1>13, PushFrontEffects DEF ReliesAt, InList, Nested, Erased, NameOf,
     Adding, Removing
<1>14. ASSUME NEW t \in Threads, Look(t)
       PROVE  Good(t)
  BY <1>2, <1>3, <1>14, LookEffects DEF ReliesAt, InList, Nested, Erased, NameOf,
     Adding, Removing
<1>15. ASSUME NEW t \in Threads, Pop(t)
       PROVE  ReliesInv'
  <2>1. /\ Alone(t) /\ pc[t] = "pop" /\ UNCHANGED <<map, misuse>>
        /\ \/ UNCHANGED <<pc, inbox>>
           \/ pc' = [pc EXCEPT ![t] = "find"]
        /\ UNCHANGED <<arg, msg, found, back>>
    BY <1>15, PopEffects
  <2>2. ReliesAt(t)'
    BY <1>2, <1>3, <2>1 DEF ReliesAt, InList, Nested, Erased, NameOf,
     Adding, Removing
  <2>3. ASSUME NEW u \in Threads, u # t
        PROVE  ReliesAt(u)'
    <3>1. pc[u] \in {"front", "pop"} => "distribute" \in misuse
      BY <2>1, <2>3 DEF NotedInv, InDistribute, Holding, Threads
    <3>2. pc'[u] = pc[u] /\ (InList(u)' <=> InList(u)) /\ (Erased(u)' <=> Erased(u))
          /\ NameOf(u)' = NameOf(u)
      BY <2>1, <2>3 DEF Alone, InList, Nested, Erased, NameOf
    <3> QED
      BY <1>3, <2>1, <3>1, <3>2 DEF ReliesAt
  <2> QED
    BY <2>2, <2>3 DEF ReliesInv
<1>16. ASSUME NEW t \in Threads, Insert(t) \/ Erase(t) \/ ClearListeners(t)
       PROVE  ReliesInv'
  BY <1>16, ReliesInsert, ReliesErase, ReliesClear DEF ReliesInv
<1> HIDE DEF Good
<1> QED
  BY <1>1, <1>4, <1>5, <1>6, <1>7, <1>8, <1>9, <1>10, <1>11, <1>12, <1>13, <1>14,
     <1>15, <1>16 DEF Next, Threads

-----------------------------------------------------------------------------
(* What a rehash may do.                                                   *)

\* A step that begins nothing new and invalidates no iterator.
LEMMA GrownQuietly ==
  ASSUME GrownInv, NEW t \in Threads, Alone(t), misuse \subseteq misuse', stale' \subseteq stale,
         pc'[t] \in Adding => pc[t] \in Adding /\ back'[t] = back[t],
         pc'[t] \in Removing => pc[t] \in Removing,
         InDistribute(t)' => InDistribute(t),
         InList(t)' => InList(t) \/ <<t, "Distribute">> \notin stale',
         pc'[t] = "erase" => pc[t] = "erase" \/ <<t, "RemoveListeners">> \notin stale'
  PROVE  GrownInv'
<1>1. \A u \in Threads : u # t =>
        /\ pc'[u] = pc[u] /\ back'[u] = back[u]
        /\ InDistribute(u)' <=> InDistribute(u)
        /\ InList(u)' <=> InList(u)
  BY DEF Alone, InDistribute, Holding, InList, Nested
<1>2. Grown => Grown'
  BY DEF Grown
<1>3. \A u \in Threads : pc'[u] \in Adding /\ back'[u] = "next" => "nested add" \in misuse'
  BY <1>1 DEF GrownInv
<1>4. \A u, v \in Threads :
        u # v /\ pc'[u] \in Adding /\ (InDistribute(v)' \/ pc'[v] \in Removing) => Grown'
  BY <1>1, <1>2 DEF GrownInv
<1>5. \A u \in Threads :
        /\ InList(u)' /\ <<u, "Distribute">> \in stale' => Grown'
        /\ pc'[u] = "erase" /\ <<u, "RemoveListeners">> \in stale' => Grown'
  BY <1>1, <1>2 DEF GrownInv
<1> QED
  BY <1>3, <1>4, <1>5 DEF GrownInv

\* A thread that begins something notes the additions that it meets, and
\* those that it makes itself.
LEMMA GrownBeginning ==
  ASSUME GrownInv, NEW t \in Threads, Alone(t), misuse \subseteq misuse', UNCHANGED stale,
         pc'[t] \in Adding /\ back'[t] = "next" => "nested add" \in misuse',
         pc'[t] \in Adding /\ (InDistribute(Other(t)) \/ pc[Other(t)] \in Removing) => Grown',
         pc[Other(t)] \in Adding => Grown',
         InList(t)' => InList(t), pc'[t] # "erase"
  PROVE  GrownInv'
<1> DEFINE o == Other(t)
<1>1. o \in Threads /\ o # t /\ \A u \in Threads : u # t => u = o
  BY OtherThread
<1> HIDE DEF o
<1>2. /\ pc'[o] = pc[o] /\ back'[o] = back[o]
      /\ InDistribute(o)' <=> InDistribute(o)
      /\ InList(o)' <=> InList(o)
  <2>1. /\ pc'[o] = pc[o] /\ back'[o] = back[o] /\ o' = o
    BY <1>1 DEF Alone, Other, o
  <2> QED
    BY <2>1 DEF InDistribute, Holding, InList, Nested
<1>3. Grown => Grown'
  BY DEF Grown
<1>4. /\ pc'[t] \in Adding /\ (InDistribute(o) \/ pc[o] \in Removing) => Grown'
      /\ pc[o] \in Adding => Grown'
  BY DEF o
<1>5. \A u \in Threads : pc'[u] \in Adding /\ back'[u] = "next" => "nested add" \in misuse'
  BY <1>1, <1>2 DEF GrownInv
<1>6. \A u, v \in Threads :
        u # v /\ pc'[u] \in Adding /\ (InDistribute(v)' \/ pc'[v] \in Removing) => Grown'
  BY <1>1, <1>2, <1>4
<1>7. \A u \in Threads :
        /\ InList(u)' /\ <<u, "Distribute">> \in stale' => Grown'
        /\ pc'[u] = "erase" /\ <<u, "RemoveListeners">> \in stale' => Grown'
  BY <1>1, <1>2, <1>3 DEF GrownInv
<1> QED
  BY <1>5, <1>6, <1>7 DEF GrownInv

\* Every step keeps GrownInv.
LEMMA GrownStep ==
  ASSUME TypeOK, HandInv, GrownInv, Next
  PROVE  GrownInv'
<1>1. /\ pc \in [Threads -> PCs] /\ back \in [Threads -> {"idle", "next"}]
  BY DEF TypeOK
<1>2. \A t \in Threads : Other(t) \in Threads /\ Other(t) # t
  BY OtherThread
<1>3. \A t \in Threads : pc[Other(t)] \in Adding /\ InDistribute(t) => Grown
  BY <1>2 DEF GrownInv
<1>4. \A t \in Threads : InDistribute(t) \/ pc[t] \in Adding \union Removing => pc[t] # "idle"
  BY DEF InDistribute, Holding, InList, Nested, Adding, Removing
<1>5. misuse \subseteq misuse' /\ Grown => Grown'
  BY DEF Grown
<1>6. ASSUME NEW t \in Threads, t = "recv", Receive
      PROVE  GrownInv'
  <2>1. /\ Alone(t) /\ pc' = [pc EXCEPT ![t] = "test"] /\ UNCHANGED stale
        /\ misuse' = misuse \union Doing(Other(t))
    BY <1>6, ReceiveEffects
  <2>2. pc[Other(t)] \in Adding => Grown'
    BY <2>1 DEF Doing, Adding, Grown
  <2>3. pc'[t] = "test" /\ ~InList(t)'
    BY <1>1, <2>1 DEF InList, Nested, Adding, Removing
  <2> QED
    BY <2>1, <2>2, <2>3, GrownBeginning DEF Adding
<1>7. ASSUME NEW t \in Threads, t = "app", CallDistribute
      PROVE  GrownInv'
  <2>1. /\ Alone(t) /\ pc' = [pc EXCEPT ![t] = "test"] /\ UNCHANGED stale
        /\ misuse' = misuse \union {"distribute"} \union Doing(Other(t))
    BY <1>7, CallDistributeEffects
  <2>2. pc[Other(t)] \in Adding => Grown'
    BY <2>1 DEF Doing, Adding, Grown
  <2>3. pc'[t] = "test" /\ ~InList(t)'
    BY <1>1, <2>1 DEF InList, Nested, Adding, Removing
  <2> QED
    BY <2>1, <2>2, <2>3, GrownBeginning DEF Adding
<1>8. ASSUME NEW t \in Threads, CallAddListener(t)
      PROVE  GrownInv'
  <2>1. Alone(t) /\ CallMoves(t, "search") /\ UNCHANGED stale
    BY <1>8, CallAddListenerEffects
  <2>2. /\ misuse \subseteq misuse'
        /\ pc[Other(t)] # "idle" => "overlapping add" \in misuse'
        /\ pc[t] = "call" => "nested add" \in misuse'
    BY <1>8, CallAddListenerEffects DEF Overlaps
  <2>3. /\ pc'[t] = "search" /\ (InList(t)' => InList(t))
        /\ back'[t] = "next" => pc[t] = "call"
    BY <1>1, <2>1 DEF CallMoves, InList, Nested, Adding, Removing
  <2>4. pc[Other(t)] # "idle" => Grown'
    BY <2>2 DEF Grown
  <2>5. InDistribute(Other(t)) \/ pc[Other(t)] \in Adding \union Removing => Grown'
    BY <1>2, <1>4, <2>4
  <2> QED
    BY <2>1, <2>2, <2>3, <2>5, GrownBeginning
<1>9. ASSUME NEW t \in Threads, CallRemoveListeners(t) \/ CallClear(t)
      PROVE  GrownInv'
  <2>1. Alone(t) /\ (CallMoves(t, "look") \/ CallMoves(t, "clear")) /\ UNCHANGED stale
    BY <1>9, CallRemovalEffects
  <2>2. misuse \subseteq misuse'
    BY <1>9, CallRemovalEffects
  <2>3. pc'[t] \in {"look", "clear"} /\ (InList(t)' => InList(t))
    BY <1>1, <2>1 DEF CallMoves, InList, Nested, Adding, Removing
  <2>4. pc[Other(t)] \in Adding => Grown
    <3>1. CASE pc[t] = "call"
      BY <1>3, <3>1 DEF InDistribute, Holding, InList
    <3>2. CASE pc[t] = "idle"
      <4>1. t = "app" /\ Other(t) = "recv"
        BY <1>2, <2>1, <3>2 DEF CallMoves, Threads
      <4>2. pc[Other(t)] \in Adding => back[Other(t)] = "next"
        BY <1>2, <4>1 DEF HandInv, HandAt
      <4> QED
        BY <1>2, <4>2 DEF GrownInv, Grown
    <3> QED
      BY <2>1, <3>1, <3>2 DEF CallMoves
  <2> QED
    BY <1>5, <2>1, <2>2, <2>3, <2>4, GrownBeginning DEF Adding
<1>10. ASSUME NEW t \in Threads, Insert(t)
       PROVE  GrownInv'
  <2>1. /\ pc[t] = "insert" /\ pc' = [pc EXCEPT ![t] = "push"] /\ Alone(t)
        /\ UNCHANGED <<back, misuse>>
    BY <1>10, InsertEffects
  <2>2. \A u \in Threads :
          /\ pc'[u] \in Adding <=> pc[u] \in Adding
          /\ pc'[u] \in Removing <=> pc[u] \in Removing
          /\ pc'[u] = "erase" <=> pc[u] = "erase"
          /\ InDistribute(u)' <=> InDistribute(u)
          /\ InList(u)' <=> InList(u)
    BY <1>1, <2>1 DEF InDistribute, Holding, InList, Nested, Adding, Removing
  <2>3. Grown' <=> Grown
    BY <2>1 DEF Grown
  <2>4. \A u \in Threads : u # t /\ (InList(u) \/ pc[u] = "erase") => Grown
    BY <2>1 DEF GrownInv, InDistribute, Holding, Adding, Removing
  <2>5. InList(t) => Grown
    BY <2>1 DEF GrownInv, Grown, InList, Nested, Adding
  <2>6. pc[t] # "erase"
    BY <2>1
  <2> QED
    BY <2>1, <2>2, <2>3, <2>4, <2>5, <2>6 DEF GrownInv
<1> USE DEF InDistribute, Holding, InList, Nested, Adding, Removing
<1>11. ASSUME NEW t \in Threads, LoopTest(t) \/ Return(t) \/ Advance(t)
       PROVE  GrownInv'
  BY <1>1, <1>11, WalkEffects, GrownQuietly
<1>12. ASSUME NEW t \in Threads, Front(t)
       PROVE  GrownInv'
  BY <1>1, <1>12, FrontEffects, GrownQuietly
<1>13. ASSUME NEW t \in Threads, Pop(t)
       PROVE  GrownInv'
  BY <1>1, <1>13, PopEffects, GrownQuietly
<1>14. ASSUME NEW t \in Threads, Find(t)
       PROVE  GrownInv'
  BY <1>1, <1>14, FindEffects, GrownQuietly
<1>15. ASSUME NEW t \in Threads, Begin(t)
       PROVE  GrownInv'
  BY <1>1, <1>15, BeginEffects, GrownQuietly
<1>16. ASSUME NEW t \in Threads, Search(t)
       PROVE  GrownInv'
  BY <1>1, <1>16, SearchEffects, GrownQuietly
<1>17. ASSUME NEW t \in Threads, PushFront(t)
       PROVE  GrownInv'
  BY <1>1, <1>17, PushFrontEffects, GrownQuietly
<1>18. ASSUME NEW t \in Threads, Look(t)
       PROVE  GrownInv'
  BY <1>1, <1>18, LookEffects, GrownQuietly
<1>19. ASSUME NEW t \in Threads, Erase(t)
       PROVE  GrownInv'
  BY <1>1, <1>19, EraseEffects, GrownQuietly
<1>20. ASSUME NEW t \in Threads, ClearListeners(t)
       PROVE  GrownInv'
  BY <1>1, <1>20, ClearEffects, GrownQuietly
<1> QED
  BY <1>6, <1>7, <1>8, <1>9, <1>10, <1>11, <1>12, <1>13, <1>14, <1>15, <1>16, <1>17,
     <1>18, <1>19, <1>20 DEF Next, Threads

\* The object breaks only where a thread misses what it relies on.
LEMMA BrokenStep ==
  ASSUME TypeOK, HandInv, ReliesInv, GrownInv, BrokenForACause, Next
  PROVE  BrokenForACause'
<1>1. \A t \in Threads : ReliesAt(t)
  BY DEF ReliesInv
<1>2. ASSUME UNCHANGED broken, misuse \subseteq misuse'
      PROVE  BrokenForACause'
  BY <1>2 DEF BrokenForACause
<1>0. \A t \in Threads : InList(t) =>
         /\ Harm(t) = "erased entry" =>
              misuse \intersect {"own removal", "overlapping removal"} # {}
         /\ Harm(t) = "stale iterator" =>
              misuse \intersect {"nested add", "overlapping add"} # {}
         /\ Harm(t) \in {"no", "erased entry", "stale iterator"}
  BY <1>1 DEF GrownInv, Grown, Harm, ReliesAt
<1>3. ASSUME NEW t \in Threads, t = "recv", Receive
      PROVE  BrokenForACause'
  BY <1>2, <1>3, ReceiveEffects
<1>4. ASSUME NEW t \in Threads, t = "app", CallDistribute
      PROVE  BrokenForACause'
  BY <1>2, <1>4, CallDistributeEffects
<1>5. ASSUME NEW t \in Threads, CallAddListener(t)
      PROVE  BrokenForACause'
  BY <1>2, <1>5, CallAddListenerEffects
<1>6. ASSUME NEW t \in Threads, CallRemoveListeners(t) \/ CallClear(t)
      PROVE  BrokenForACause'
  BY <1>2, <1>6, CallRemovalEffects
<1>7. ASSUME NEW t \in Threads, Find(t)
      PROVE  BrokenForACause'
  BY <1>2, <1>7, FindEffects
<1>8. ASSUME NEW t \in Threads, Insert(t)
      PROVE  BrokenForACause'
  BY <1>2, <1>8, InsertEffects
<1>9. ASSUME NEW t \in Threads, PushFront(t)
      PROVE  BrokenForACause'
  BY <1>2, <1>9, PushFrontEffects
<1>10. ASSUME NEW t \in Threads, Look(t)
       PROVE  BrokenForACause'
  BY <1>2, <1>10, LookEffects
<1>11. ASSUME NEW t \in Threads, ClearListeners(t)
       PROVE  BrokenForACause'
  BY <1>2, <1>11, ClearEffects
<1>12. ASSUME NEW t \in Threads, LoopTest(t) \/ Return(t) \/ Advance(t)
       PROVE  BrokenForACause'
  <2>1. broken' # broken => pc[t] = "next" /\ broken' = Harm(t)
    BY <1>12, WalkEffects
  <2>2. misuse' = misuse
    BY <1>12, WalkEffects
  <2> QED
    BY <1>2, <1>0, <2>1, <2>2 DEF BrokenForACause, InList
<1>13. ASSUME NEW t \in Threads, Front(t)
       PROVE  BrokenForACause'
  BY <1>1, <1>2, <1>13, FrontEffects DEF BrokenForACause, ReliesAt, InList
<1>14. ASSUME NEW t \in Threads, Pop(t)
       PROVE  BrokenForACause'
  BY <1>1, <1>2, <1>14, PopEffects DEF BrokenForACause, ReliesAt, InList
<1>15. ASSUME NEW t \in Threads, Begin(t)
       PROVE  BrokenForACause'
  <2>1. broken' # broken => pc[t] = "begin" /\ broken' = Harm(t)
    BY <1>15, BeginEffects
  <2>2. misuse' = misuse
    BY <1>15, BeginEffects
  <2> QED
    BY <1>2, <1>0, <2>1, <2>2 DEF BrokenForACause, InList
<1>16. ASSUME NEW t \in Threads, Search(t)
       PROVE  BrokenForACause'
  BY <1>1, <1>2, <1>16, SearchEffects DEF BrokenForACause, ReliesAt, InList
<1>17. ASSUME NEW t \in Threads, Erase(t)
       PROVE  BrokenForACause'
  <2>1. pc[t] = "erase" /\ <<t, "RemoveListeners">> \in stale => Grown
    BY DEF GrownInv
  <2> QED
    BY <1>1, <1>2, <1>17, <2>1, EraseEffects DEF BrokenForACause, ReliesAt, Grown
<1> QED
  BY <1>3, <1>4, <1>5, <1>6, <1>7, <1>8, <1>9, <1>10, <1>11, <1>12, <1>13, <1>14,
     <1>15, <1>16, <1>17 DEF Next, Threads

-----------------------------------------------------------------------------
(* Additions.                                                              *)

\* 0 is no list.
LEMMA NoListIsZero ==
  ASSUME NEW l \in Lists
  PROVE  l # 0
BY ListenersAssumption DEF Lists

\* A step that touches neither the map nor the lists keeps AddedInv.
LEMMA AddedQuietly ==
  ASSUME AddedInv, NEW t \in Threads, Alone(t), UNCHANGED <<map, filled, removals>>,
         misuse \subseteq misuse',
         pc'[t] \in Removing => pc[t] \in Removing,
         pc'[t] = "insert" => map[arg'[t]] = 0,
         pc'[t] # "push"
  PROVE  AddedInv'
<1> SUFFICES ASSUME removals' = 0, "overlapping add" \notin misuse'
             PROVE  /\ \A u \in Threads : pc'[u] \notin Removing
                    /\ \A u \in Threads : pc'[u] = "insert" => map'[arg'[u]] = 0
                    /\ \A u \in Threads : pc'[u] = "push" => map'[arg'[u]] = list'[u]
                    /\ \A l \in filled' : \E n \in Names : map'[n] = l
  BY DEF AddedInv
<1> QED
  BY DEF AddedInv, Alone

\* Every step keeps AddedInv.
LEMMA AddedStep ==
  ASSUME TypeOK, HandInv, NotedInv, AddedInv, Next
  PROVE  AddedInv'
<1>1. /\ pc \in [Threads -> PCs] /\ back \in [Threads -> {"idle", "next"}]
      /\ DOMAIN map = Names /\ filled \subseteq Lists
      /\ \A t \in Threads : arg[t] \in Names
  BY DEF TypeOK
<1>2. ASSUME NEW t \in Threads, t = "recv", Receive
      PROVE  AddedInv'
  BY <1>1, <1>2, ReceiveEffects, AddedQuietly DEF Removing
<1>3. ASSUME NEW t \in Threads, t = "app", CallDistribute
      PROVE  AddedInv'
  BY <1>1, <1>3, CallDistributeEffects, AddedQuietly DEF Removing
<1>4. ASSUME NEW t \in Threads, CallAddListener(t)
      PROVE  AddedInv'
  <2>1. /\ Alone(t) /\ CallMoves(t, "search") /\ misuse \subseteq misuse'
        /\ UNCHANGED <<map, filled, removals>>
    BY <1>4, CallAddListenerEffects
  <2>2. pc'[t] = "search"
    BY <1>1, <2>1 DEF CallMoves
  <2> QED
    BY <2>1, <2>2, AddedQuietly DEF Removing
<1>5. ASSUME NEW t \in Threads, CallRemoveListeners(t) \/ CallClear(t)
      PROVE  AddedInv'
  <2>1. removals' = removals + 1
    BY <1>5, CallRemovalEffects
  <2>2. removals' # 0
    BY <2>1, Counters
  <2> QED
    BY <2>2 DEF AddedInv
<1>6. ASSUME NEW t \in Threads, LoopTest(t) \/ Return(t) \/ Advance(t)
      PROVE  AddedInv'
  BY <1>1, <1>6, WalkEffects, AddedQuietly DEF Removing
<1>7. ASSUME NEW t \in Threads, Front(t)
      PROVE  AddedInv'
  BY <1>1, <1>7, FrontEffects, AddedQuietly DEF Removing
<1>8. ASSUME NEW t \in Threads, Pop(t)
      PROVE  AddedInv'
  BY <1>1, <1>8, PopEffects, AddedQuietly DEF Removing
<1>9. ASSUME NEW t \in Threads, Find(t)
      PROVE  AddedInv'
  BY <1>1, <1>9, FindEffects, AddedQuietly DEF Removing
<1>10. ASSUME NEW t \in Threads, Begin(t)
       PROVE  AddedInv'
  BY <1>1, <1>10, BeginEffects, AddedQuietly DEF Removing
<1>11. ASSUME NEW t \in Threads, Search(t)
       PROVE  AddedInv'
  BY <1>1, <1>11, SearchEffects, AddedQuietly DEF Removing
<1>12. ASSUME NEW t \in Threads, Insert(t)
       PROVE  AddedInv'
  <2>1. /\ pc[t] = "insert" /\ pc' = [pc EXCEPT ![t] = "push"]
        /\ map' = IF map[arg[t]] = 0 THEN [map EXCEPT ![arg[t]] = list[t]] ELSE map
        /\ UNCHANGED <<arg, list, filled, removals, misuse>>
    BY <1>12, InsertEffects
  <2> SUFFICES ASSUME removals = 0, "overlapping add" \notin misuse
               PROVE  /\ \A u \in Threads : pc'[u] \notin Removing
                      /\ \A u \in Threads : pc'[u] = "insert" => map'[arg[u]] = 0
                      /\ \A u \in Threads : pc'[u] = "push" => map'[arg[u]] = list[u]
                      /\ \A l \in filled : \E k \in Names : map'[k] = l
    BY <2>1 DEF AddedInv
  <2>2. map[arg[t]] = 0 /\ map'[arg[t]] = list[t]
    BY <1>1, <2>1 DEF AddedInv
  <2>3. \A u \in Threads : u # t => pc'[u] = pc[u] /\ pc[u] \notin Adding
    BY <1>1, <2>1 DEF NotedInv, Adding
  <2>4. \A l \in filled : \E k \in Names : map'[k] = l
    <3> SUFFICES ASSUME NEW l \in filled
                 PROVE  \E k \in Names : map'[k] = l
      OBVIOUS
    <3>1. PICK k \in Names : map[k] = l
      BY DEF AddedInv
    <3>2. l # 0
      BY <1>1, NoListIsZero
    <3> QED
      BY <1>1, <2>1, <2>2, <3>1, <3>2
  <2>5. pc'[t] = "push" /\ \A u \in Threads : pc[u] \notin Removing
    BY <1>1, <2>1 DEF AddedInv
  <2> QED
    BY <2>2, <2>3, <2>4, <2>5 DEF Adding, Removing
<1>13. ASSUME NEW t \in Threads, PushFront(t)
       PROVE  AddedInv'
  <2>1. /\ Alone(t) /\ pc[t] = "push" /\ pc' = [pc EXCEPT ![t] = back[t]]
        /\ filled' = filled \union {list[t]}
        /\ UNCHANGED <<arg, list, map, removals, misuse>>
    BY <1>13, PushFrontEffects
  <2>2. pc'[t] \in {"idle", "next"} /\ \A u \in Threads : u # t => pc'[u] = pc[u]
    BY <1>1, <2>1
  <2> SUFFICES ASSUME removals = 0, "overlapping add" \notin misuse
               PROVE  /\ \A u \in Threads : pc'[u] \notin Removing
                      /\ \A u \in Threads : pc'[u] = "insert" => map[arg[u]] = 0
                      /\ \A u \in Threads : pc'[u] = "push" => map[arg[u]] = list[u]
                      /\ \A l \in filled' : \E k \in Names : map[k] = l
    BY <2>1 DEF AddedInv
  <2>3. \A l \in filled' : \E k \in Names : map[k] = l
    BY <1>1, <2>1 DEF AddedInv
  <2> QED
    BY <2>2, <2>3 DEF AddedInv, Removing
<1>14. ASSUME NEW t \in Threads, Look(t) \/ Erase(t) \/ ClearListeners(t)
       PROVE  AddedInv'
  <2>1. pc[t] \in Removing /\ UNCHANGED <<removals, misuse>>
    BY <1>14, LookEffects, EraseEffects, ClearEffects DEF Removing
  <2> QED
    BY <2>1 DEF AddedInv
<1> QED
  BY <1>2, <1>3, <1>4, <1>5, <1>6, <1>7, <1>8, <1>9, <1>10, <1>11, <1>12, <1>13, <1>14
     DEF Next, Threads

-----------------------------------------------------------------------------
(* Which lists are where.                                                  *)

\* Lists are numbers.
LEMMA ListsAreNumbers ==
  ASSUME TypeOK
  PROVE  /\ \A n \in Names : map[n] \in Nat
         /\ \A t \in Threads : list[t] \in Nat
<1>1. {0} \union Lists \subseteq Nat
  BY DEF Lists
<1>2. map \in [Names -> {0} \union Lists] /\ list \in [Threads -> {0} \union Lists]
  BY DEF TypeOK
<1> QED
  BY <1>1, <1>2

\* A step that changes no list and begins no addition keeps ListsInv.
LEMMA ListsQuietly ==
  ASSUME ListsInv, NEW t \in Threads, Alone(t), UNCHANGED <<map, list, adds>>,
         pc'[t] \in Adding => pc[t] \in Adding,
         pc'[t] \in {"search", "insert"} => pc[t] \in {"search", "insert"}
  PROVE  ListsInv'
<1> SUFFICES /\ \A u \in Threads : pc'[u] \in Adding => list[u] <= adds
             /\ \A u \in Threads : pc'[u] \in {"search", "insert"} =>
                  \A n \in Names : map[n] # list[u]
             /\ \A u, v \in Threads :
                  u # v /\ pc'[u] \in Adding /\ pc'[v] \in Adding => list[u] # list[v]
  BY DEF ListsInv
<1>1. \A u \in Threads : u # t => pc'[u] = pc[u]
  BY DEF Alone
<1> QED
  BY <1>1 DEF ListsInv

\* Every step keeps ListsInv.
LEMMA ListsStep ==
  ASSUME TypeOK, HandInv, ListsInv, Next
  PROVE  ListsInv'
<1>1. /\ pc \in [Threads -> PCs] /\ back \in [Threads -> {"idle", "next"}]
      /\ DOMAIN map = Names /\ DOMAIN list = Threads
      /\ \A t \in Threads : arg[t] \in Names
  BY DEF TypeOK
<1>2. /\ adds \in Nat /\ \A n \in Names : map[n] \in Nat
      /\ \A u \in Threads : list[u] \in Nat
  BY Counters, ListsAreNumbers
<1>3. ASSUME NEW t \in Threads, t = "recv", Receive
      PROVE  ListsInv'
  BY <1>1, <1>3, ReceiveEffects, ListsQuietly DEF Adding
<1>4. ASSUME NEW t \in Threads, t = "app", CallDistribute
      PROVE  ListsInv'
  BY <1>1, <1>4, CallDistributeEffects, ListsQuietly DEF Adding
<1>5. ASSUME NEW t \in Threads, CallAddListener(t)
      PROVE  ListsInv'
  <2>1. /\ Alone(t) /\ UNCHANGED map /\ adds' = adds + 1
        /\ list' = [list EXCEPT ![t] = adds + 1]
    BY <1>5, CallAddListenerEffects
  <2>2. list'[t] = adds + 1 /\ \A u \in Threads : u # t => list'[u] = list[u] /\ pc'[u] = pc[u]
    BY <1>1, <2>1 DEF Alone
  <2>3. \A n \in Names : map[n] <= adds' /\ map[n] # adds'
    BY <1>2, <2>1 DEF ListsInv
  <2>4. \A u \in Threads : u # t /\ pc'[u] \in Adding => list'[u] <= adds' /\ list'[u] # adds'
    BY <1>2, <2>1, <2>2 DEF ListsInv
  <2>5. \A u \in Threads : u # t /\ pc'[u] \in {"search", "insert"} =>
                            \A n \in Names : map[n] # list'[u]
    BY <2>2 DEF ListsInv
  <2>6. list'[t] = adds' /\ list'[t] <= adds'
    BY <1>2, <2>1, <2>2
  <2>7. /\ \A n \in Names : map'[n] <= adds'
        /\ \A n, k \in Names : map'[n] = map'[k] /\ map'[n] # 0 => n = k
    BY <2>1, <2>3 DEF ListsInv
  <2>8. \A u \in Threads : pc'[u] \in Adding => list'[u] <= adds'
    BY <2>4, <2>6
  <2>9. \A u \in Threads : pc'[u] \in {"search", "insert"} =>
                            \A n \in Names : map'[n] # list'[u]
    BY <2>1, <2>3, <2>5, <2>6
  <2>10. \A u, v \in Threads :
           u # v /\ pc'[u] \in Adding /\ pc'[v] \in Adding => list'[u] # list'[v]
    BY <2>2, <2>4, <2>6, OtherThread
  <2> QED
    BY <2>7, <2>8, <2>9, <2>10 DEF ListsInv
<1>6. ASSUME NEW t \in Threads, CallRemoveListeners(t) \/ CallClear(t)
      PROVE  ListsInv'
  BY <1>1, <1>6, CallRemovalEffects, ListsQuietly DEF CallMoves, Adding
<1>7. ASSUME NEW t \in Threads, LoopTest(t) \/ Return(t) \/ Advance(t)
      PROVE  ListsInv'
  BY <1>1, <1>7, WalkEffects, ListsQuietly DEF Adding
<1>8. ASSUME NEW t \in Threads, Front(t)
      PROVE  ListsInv'
  BY <1>1, <1>8, FrontEffects, ListsQuietly DEF Adding
<1>9. ASSUME NEW t \in Threads, Pop(t)
      PROVE  ListsInv'
  BY <1>1, <1>9, PopEffects, ListsQuietly DEF Adding
<1>10. ASSUME NEW t \in Threads, Find(t)
       PROVE  ListsInv'
  BY <1>1, <1>10, FindEffects, ListsQuietly DEF Adding
<1>11. ASSUME NEW t \in Threads, Begin(t)
       PROVE  ListsInv'
  BY <1>1, <1>11, BeginEffects, ListsQuietly DEF Adding
<1>12. ASSUME NEW t \in Threads, Search(t)
       PROVE  ListsInv'
  BY <1>1, <1>12, SearchEffects, ListsQuietly DEF Adding
<1>13. ASSUME NEW t \in Threads, PushFront(t)
       PROVE  ListsInv'
  BY <1>1, <1>13, PushFrontEffects, ListsQuietly DEF Adding
<1>14. ASSUME NEW t \in Threads, Look(t)
       PROVE  ListsInv'
  BY <1>1, <1>14, LookEffects, ListsQuietly DEF Adding
<1>15. ASSUME NEW t \in Threads, Insert(t)
       PROVE  ListsInv'
  <2>1. /\ pc[t] = "insert" /\ pc' = [pc EXCEPT ![t] = "push"]
        /\ map' = IF map[arg[t]] = 0 THEN [map EXCEPT ![arg[t]] = list[t]] ELSE map
        /\ UNCHANGED <<list, adds>>
    BY <1>15, InsertEffects
  <2>2. pc'[t] = "push" /\ \A u \in Threads : u # t => pc'[u] = pc[u]
    BY <1>1, <2>1
  <2>3. /\ list[t] <= adds /\ \A k \in Names : map[k] # list[t]
        /\ \A u \in Threads : u # t /\ pc[u] \in Adding => list[u] # list[t]
    BY <2>1 DEF ListsInv, Adding
  <2>4. \A k \in Names : map'[k] = map[k] \/ (k = arg[t] /\ map'[k] = list[t])
    <3>1. CASE map[arg[t]] = 0
      BY <1>1, <2>1, <3>1
    <3>2. CASE map[arg[t]] # 0
      BY <2>1, <3>2
    <3> QED
      BY <3>1, <3>2
  <2>5. \A k \in Names : map'[k] <= adds
    BY <2>3, <2>4 DEF ListsInv
  <2>6. \A j, k \in Names : map'[j] = map'[k] /\ map'[j] # 0 => j = k
    BY <2>3, <2>4 DEF ListsInv
  <2>7. \A u \in Threads : pc'[u] \in Adding => list[u] <= adds
    BY <2>2, <2>3 DEF ListsInv
  <2>8. \A u \in Threads : pc'[u] \in {"search", "insert"} =>
                            \A k \in Names : map'[k] # list[u]
    BY <2>2, <2>3, <2>4 DEF ListsInv, Adding
  <2>9. \A u, v \in Threads :
          u # v /\ pc'[u] \in Adding /\ pc'[v] \in Adding => list[u] # list[v]
    BY <2>2, <2>3, OtherThread
  <2> QED
    BY <2>1, <2>5, <2>6, <2>7, <2>8, <2>9 DEF ListsInv
<1>16. ASSUME NEW t \in Threads, Erase(t) \/ ClearListeners(t)
       PROVE  ListsInv'
  <2>1. /\ pc[t] \in Removing /\ Alone(t) /\ UNCHANGED <<list, adds>>
        /\ UNCHANGED pc \/ pc' = [pc EXCEPT ![t] = back[t]]
        /\ \A k \in Names : map'[k] \in {0, map[k]}
    BY <1>1, <1>16, EraseEffects, ClearEffects DEF Removing
  <2>2. pc'[t] \notin Adding
    BY <1>1, <2>1 DEF Adding, Removing
  <2>3. \A u \in Threads : pc'[u] \in Adding => u # t /\ pc[u] = pc'[u] /\ list[u] # 0
    BY <2>1, <2>2 DEF Alone, HandInv, HandAt
  <2>4. \A k \in Names : map'[k] <= adds
    BY <1>2, <2>1 DEF ListsInv
  <2>5. \A j, k \in Names : map'[j] = map'[k] /\ map'[j] # 0 => j = k
    BY <2>1 DEF ListsInv
  <2>6. \A u \in Threads : pc'[u] \in Adding => list[u] <= adds
    BY <2>3 DEF ListsInv
  <2>7. \A u \in Threads : pc'[u] \in {"search", "insert"} =>
                            \A k \in Names : map'[k] # list[u]
    BY <2>1, <2>3 DEF ListsInv, Adding
  <2>8. \A u, v \in Threads :
          u # v /\ pc'[u] \in Adding /\ pc'[v] \in Adding => list[u] # list[v]
    BY <2>3 DEF ListsInv
  <2> QED
    BY <2>1, <2>4, <2>5, <2>6, <2>7, <2>8 DEF ListsInv
<1> QED
  BY <1>3, <1>4, <1>5, <1>6, <1>7, <1>8, <1>9, <1>10, <1>11, <1>12, <1>13, <1>14,
     <1>15, <1>16 DEF Next, Threads

-----------------------------------------------------------------------------
(* The inbox while only the receive thread distributes.                    *)

\* Every step keeps InboxInv.
LEMMA InboxStep ==
  ASSUME TypeOK, HandInv, NotedInv, InboxInv, Next
  PROVE  InboxInv'
<1> DEFINE At(t) == /\ pc[t] = "idle" => inbox = <<>>
                    /\ pc[t] = "front" => inbox # <<>>
                    /\ pc[t] = "pop" => inbox # <<>> /\ msg[t] = <<Head(inbox)>>
<1>1. /\ pc \in [Threads -> PCs] /\ back \in [Threads -> {"idle", "next"}]
      /\ DOMAIN msg = Threads
  BY DEF TypeOK
<1>2. ASSUME NEW t \in Threads, misuse \subseteq misuse', t = "recv" /\ At(t) => At(t)',
             t = "app" => Alone(t) /\ UNCHANGED inbox
      PROVE  InboxInv'
  BY <1>2 DEF InboxInv, Alone, Threads
<1>3. "recv" \in Threads
  BY DEF Threads
<1>4. ASSUME NEW t \in Threads, t = "recv", pc[t] \in Adding \union Removing
      PROVE  back[t] = "next"
  BY <1>4 DEF HandInv, HandAt
<1>5. ASSUME NEW t \in Threads, t = "recv", Receive
      PROVE  InboxInv'
  BY <1>1, <1>2, <1>5, ReceiveEffects
<1>6. ASSUME NEW t \in Threads, t = "app", CallDistribute
      PROVE  InboxInv'
  BY <1>6, CallDistributeEffects DEF InboxInv
<1>7. ASSUME NEW t \in Threads, CallAddListener(t)
      PROVE  InboxInv'
  <2>1. Alone(t) /\ CallMoves(t, "search") /\ misuse \subseteq misuse' /\ UNCHANGED inbox
    BY <1>7, CallAddListenerEffects
  <2>2. pc'[t] = "search"
    BY <1>1, <2>1 DEF CallMoves
  <2> QED
    BY <1>2, <2>1, <2>2
<1>8. ASSUME NEW t \in Threads, CallRemoveListeners(t) \/ CallClear(t)
      PROVE  InboxInv'
  <2>1. /\ Alone(t) /\ (CallMoves(t, "look") \/ CallMoves(t, "clear"))
        /\ misuse \subseteq misuse' /\ UNCHANGED inbox
    BY <1>8, CallRemovalEffects
  <2>2. pc'[t] \in {"look", "clear"}
    BY <1>1, <2>1 DEF CallMoves
  <2> QED
    BY <1>2, <2>1, <2>2
<1>9. ASSUME NEW t \in Threads, LoopTest(t) \/ Return(t) \/ Advance(t)
      PROVE  InboxInv'
  BY <1>1, <1>2, <1>9, WalkEffects
<1>10. ASSUME NEW t \in Threads, Find(t)
       PROVE  InboxInv'
  BY <1>1, <1>2, <1>10, FindEffects
<1>11. ASSUME NEW t \in Threads, Begin(t)
       PROVE  InboxInv'
  BY <1>1, <1>2, <1>11, BeginEffects
<1>12. ASSUME NEW t \in Threads, Search(t)
       PROVE  InboxInv'
  BY <1>1, <1>2, <1>4, <1>12, SearchEffects DEF Adding, Removing
<1>13. ASSUME NEW t \in Threads, Insert(t)
       PROVE  InboxInv'
  BY <1>1, <1>2, <1>4, <1>13, InsertEffects DEF Adding, Removing
<1>14. ASSUME NEW t \in Threads, PushFront(t)
       PROVE  InboxInv'
  BY <1>1, <1>2, <1>4, <1>14, PushFrontEffects DEF Adding, Removing
<1>15. ASSUME NEW t \in Threads, Look(t)
       PROVE  InboxInv'
  BY <1>1, <1>2, <1>4, <1>15, LookEffects DEF Adding, Removing
<1>16. ASSUME NEW t \in Threads, Erase(t)
       PROVE  InboxInv'
  BY <1>1, <1>2, <1>4, <1>16, EraseEffects DEF Adding, Removing
<1>17. ASSUME NEW t \in Threads, ClearListeners(t)
       PROVE  InboxInv'
  BY <1>1, <1>2, <1>4, <1>17, ClearEffects DEF Adding, Removing
<1>18. ASSUME NEW t \in Threads, Front(t)
       PROVE  InboxInv'
  <2>1. pc[t] = "front" /\ Alone(t) /\ UNCHANGED <<misuse, inbox>>
    BY <1>18, FrontEffects
  <2>2. CASE t = "app"
    BY <1>2, <2>1, <2>2
  <2>3. CASE t = "recv"
    <3>1. \/ UNCHANGED <<pc, msg>>
          \/ /\ inbox # <<>> /\ pc' = [pc EXCEPT ![t] = "pop"]
             /\ msg' = [msg EXCEPT ![t] = <<Head(inbox)>>]
      BY <1>18, FrontEffects
    <3> QED
      BY <1>1, <1>2, <2>1, <2>3, <3>1
  <2> QED
    BY <2>2, <2>3 DEF Threads
<1>19. ASSUME NEW t \in Threads, Pop(t)
       PROVE  InboxInv'
  <2>1. /\ pc[t] = "pop" /\ Alone(t) /\ UNCHANGED <<misuse, msg>>
        /\ UNCHANGED <<pc, inbox>> \/ pc' = [pc EXCEPT ![t] = "find"]
    BY <1>19, PopEffects
  <2>2. CASE t = "app"
    BY <2>1, <2>2 DEF NotedInv, InDistribute, Holding, InboxInv
  <2>3. CASE t = "recv"
    BY <1>1, <1>2, <2>1, <2>3
  <2> QED
    BY <2>2, <2>3 DEF Threads
<1> QED
  BY <1>5, <1>6, <1>7, <1>8, <1>9, <1>10, <1>11, <1>12, <1>13, <1>14, <1>15, <1>16,
     <1>17, <1>18, <1>19, <1>3 DEF Next, Threads

-----------------------------------------------------------------------------
(* The dispatcher.                                                         *)

\* What Dispatching has for registered and for waiting.
Registered == {n \in Names : map[n] \in filled}

Waiting == IF pc["recv"] \in {"find", "begin"} THEN msg["recv"] \o inbox ELSE inbox

\* A thread in a listener or in a call of its own leaves what is waiting.
LEMMA WaitingStays ==
  ASSUME NEW t \in Threads, Alone(t), UNCHANGED <<inbox, msg>>,
         pc'[t] \in {"find", "begin"} <=> pc[t] \in {"find", "begin"}
  PROVE  UNCHANGED Waiting
<1>1. pc'["recv"] \in {"find", "begin"} <=> pc["recv"] \in {"find", "begin"}
  BY DEF Alone, Threads
<1> QED
  BY <1>1 DEF Waiting

\* What a step means to the dispatcher.
DispatcherMoves ==
  \/ UNCHANGED <<Registered, Waiting, given>>
  \/ /\ \E n \in Names : Registered' = Registered \union {n}
     /\ UNCHANGED <<Waiting, given>>
  \/ Registered' \subseteq Registered /\ UNCHANGED <<Waiting, given>>
  \/ Waiting = <<>> /\ Waiting' # <<>> /\ UNCHANGED <<Registered, given>>
  \/ /\ Waiting # <<>> /\ Waiting' = Tail(Waiting) /\ UNCHANGED Registered
     /\ given' = IF Head(Waiting).name \in Registered
                    THEN Append(given, Head(Waiting)) ELSE given

\* Those are the steps of Dispatcher.
LEMMA DispatcherMovesAreSteps ==
  ASSUME DispatcherMoves
  PROVE  [Dispatching!Next]_(Dispatching!dispatcherVars)
<1> USE DEF Registered, Waiting
<1>1. CASE UNCHANGED <<Registered, Waiting, given>>
  BY <1>1 DEF Dispatching!dispatcherVars
<1>2. CASE /\ \E n \in Names : Registered' = Registered \union {n}
           /\ UNCHANGED <<Waiting, given>>
  BY <1>2 DEF Dispatching!Next, Dispatching!Register
<1>3. CASE Registered' \subseteq Registered /\ UNCHANGED <<Waiting, given>>
  BY <1>3 DEF Dispatching!Next, Dispatching!Unregister
<1>4. CASE Waiting = <<>> /\ Waiting' # <<>> /\ UNCHANGED <<Registered, given>>
  BY <1>4 DEF Dispatching!Next, Dispatching!Arrive
<1>5. CASE /\ Waiting # <<>> /\ Waiting' = Tail(Waiting) /\ UNCHANGED Registered
           /\ given' = IF Head(Waiting).name \in Registered
                          THEN Append(given, Head(Waiting)) ELSE given
  BY <1>5 DEF Dispatching!Next, Dispatching!Dispatch
<1> QED
  BY <1>1, <1>2, <1>3, <1>4, <1>5 DEF DispatcherMoves

\* Taking a message out of the inbox and putting it first changes nothing.
LEMMA HeadAndTail ==
  ASSUME NEW S, NEW s \in Seq(S), s # <<>>
  PROVE  <<Head(s)>> \o Tail(s) = s
OBVIOUS

\* The message at hand is the first of those that wait.
LEMMA FirstWaiting ==
  ASSUME NEW S, NEW m \in S, NEW s \in Seq(S), NEW g \in Seq(S)
  PROVE  /\ <<m>> \o s # <<>> /\ Head(<<m>> \o s) = m /\ Tail(<<m>> \o s) = s
         /\ g \o <<m>> = Append(g, m)
OBVIOUS

\* While only the receive thread distributes, every step is one of those.
LEMMA DispatcherStep ==
  ASSUME TypeOK, HandInv, NotedInv, ListsInv, InboxInv, Next, "distribute" \notin misuse'
  PROVE  DispatcherMoves
<1>1. /\ pc \in [Threads -> PCs] /\ back \in [Threads -> {"idle", "next"}]
      /\ DOMAIN msg = Threads /\ DOMAIN map = Names
      /\ \A t \in Threads : arg[t] \in Names
      /\ inbox \in Seq(Message) /\ given \in Seq(Message)
  BY DEF TypeOK
<1>2. 0 \notin filled
  BY NoListIsZero DEF TypeOK
<1>3. ASSUME NEW t \in Threads, misuse \subseteq misuse', InDistribute(t)
      PROVE  t = "recv"
  BY <1>3 DEF NotedInv, Threads
<1>4. ASSUME NEW t \in Threads, t = "recv", Receive
      PROVE  DispatcherMoves
  <2>1. /\ pc[t] = "idle" /\ pc' = [pc EXCEPT ![t] = "test"] /\ inbox' # <<>>
        /\ UNCHANGED <<map, filled, given>> /\ misuse \subseteq misuse'
    BY <1>4, ReceiveEffects
  <2>2. inbox = <<>>
    BY <1>4, <2>1 DEF InboxInv
  <2>3. Waiting = <<>> /\ Waiting' # <<>>
    BY <1>1, <1>4, <2>1, <2>2 DEF Waiting
  <2> QED
    BY <2>1, <2>3 DEF DispatcherMoves, Registered
<1>5. ASSUME NEW t \in Threads, t = "app", CallDistribute
      PROVE  DispatcherMoves
  BY <1>5, CallDistributeEffects
<1>6. ASSUME NEW t \in Threads, Alone(t), UNCHANGED <<inbox, msg, map, filled, given>>,
             pc'[t] \in {"find", "begin"} <=> pc[t] \in {"find", "begin"}
      PROVE  DispatcherMoves
  BY <1>6, WaitingStays DEF DispatcherMoves, Registered
<1>7. ASSUME NEW t \in Threads, LoopTest(t) \/ Return(t) \/ Advance(t)
      PROVE  DispatcherMoves
  BY <1>6, <1>7, WalkEffects
<1>8. ASSUME NEW t \in Threads, Front(t)
      PROVE  DispatcherMoves
  <2>1. /\ Alone(t) /\ pc[t] = "front" /\ UNCHANGED <<inbox, map, filled, given, misuse>>
        /\ UNCHANGED pc \/ pc' = [pc EXCEPT ![t] = "pop"]
    BY <1>8, FrontEffects
  <2>2. t = "recv"
    BY <1>3, <2>1 DEF InDistribute
  <2>3. UNCHANGED Waiting
    BY <1>1, <2>1, <2>2 DEF Waiting
  <2> QED
    BY <2>1, <2>3 DEF DispatcherMoves, Registered
<1>9. ASSUME NEW t \in Threads, Pop(t)
      PROVE  DispatcherMoves
  <2>1. /\ Alone(t) /\ pc[t] = "pop" /\ UNCHANGED <<msg, map, filled, given, misuse>>
        /\ \/ UNCHANGED <<pc, inbox>>
           \/ inbox # <<>> /\ pc' = [pc EXCEPT ![t] = "find"] /\ inbox' = Tail(inbox)
    BY <1>9, PopEffects
  <2>2. t = "recv"
    BY <1>3, <2>1 DEF InDistribute, Holding
  <2>3. msg[t] = <<Head(inbox)>>
    BY <2>1, <2>2 DEF InboxInv
  <2>4. inbox # <<>> => msg[t] \o Tail(inbox) = inbox
    BY <1>1, <2>3, HeadAndTail
  <2>5. UNCHANGED Waiting
    BY <1>1, <2>1, <2>2, <2>4 DEF Waiting
  <2> QED
    BY <2>1, <2>5 DEF DispatcherMoves, Registered
<1>10. ASSUME NEW t \in Threads, Find(t)
       PROVE  DispatcherMoves
  <2>1. /\ pc[t] = "find" /\ UNCHANGED <<inbox, msg, map, filled, given, misuse>>
        /\ pc' = [pc EXCEPT ![t] = IF map[NameOf(t)] = 0 THEN "test" ELSE "begin"]
    BY <1>10, FindEffects
  <2>2. t = "recv"
    BY <1>3, <2>1 DEF InDistribute, Holding
  <2>3. NameOf(t) \in Names /\ msg[t] = <<msg[t][1]>> /\ msg[t][1] \in Message
    BY <2>1, NameOfType DEF HandInv, HandAt, Holding
  <2>4. CASE map[NameOf(t)] = 0
    <3>1. Waiting = <<msg[t][1]>> \o inbox /\ Waiting' = inbox
      BY <1>1, <2>1, <2>2, <2>3, <2>4 DEF Waiting
    <3>2. Waiting # <<>> /\ Waiting' = Tail(Waiting) /\ Head(Waiting) = msg[t][1]
      BY <1>1, <2>3, <3>1, FirstWaiting
    <3>3. Head(Waiting).name \notin Registered
      BY <1>2, <2>4, <3>2 DEF Registered, NameOf
    <3> QED
      BY <2>1, <3>2, <3>3 DEF DispatcherMoves, Registered
  <2>5. CASE map[NameOf(t)] # 0
    <3>1. UNCHANGED Waiting
      BY <1>1, <2>1, <2>2, <2>5 DEF Waiting
    <3> QED
      BY <2>1, <3>1 DEF DispatcherMoves, Registered
  <2> QED
    BY <2>4, <2>5
<1>11. ASSUME NEW t \in Threads, Begin(t)
       PROVE  DispatcherMoves
  <2>1. /\ pc[t] = "begin" /\ Alone(t) /\ UNCHANGED <<inbox, msg, map, filled, misuse>>
        /\ \/ UNCHANGED <<pc, given>>
           \/ /\ map[NameOf(t)] = found[t]
              /\ pc' = [pc EXCEPT ![t] = IF found[t] \in filled THEN "call" ELSE "test"]
              /\ given' = IF found[t] \in filled THEN given \o msg[t] ELSE given
    BY <1>11, BeginEffects DEF Erased
  <2>2. t = "recv"
    BY <1>3, <2>1 DEF InDistribute, Holding, InList
  <2>3. NameOf(t) \in Names /\ msg[t] = <<msg[t][1]>> /\ msg[t][1] \in Message
    BY <2>1, NameOfType DEF HandInv, HandAt, Holding, InList
  <2>4. CASE UNCHANGED <<pc, given>>
    BY <1>6, <2>1, <2>4
  <2>5. CASE /\ map[NameOf(t)] = found[t]
             /\ pc' = [pc EXCEPT ![t] = IF found[t] \in filled THEN "call" ELSE "test"]
             /\ given' = IF found[t] \in filled THEN given \o msg[t] ELSE given
    <3>1. Waiting = <<msg[t][1]>> \o inbox /\ Waiting' = inbox
      BY <1>1, <2>1, <2>2, <2>3, <2>5 DEF Waiting
    <3>2. /\ Waiting # <<>> /\ Waiting' = Tail(Waiting) /\ Head(Waiting) = msg[t][1]
          /\ given \o msg[t] = Append(given, Head(Waiting))
      <4>1. PICK m : m \in Message /\ m = msg[t][1] /\ msg[t] = <<m>>
        BY <2>3
      <4> QED
        BY <1>1, <3>1, <4>1, FirstWaiting
    <3>3. Head(Waiting).name \in Registered <=> found[t] \in filled
      BY <2>3, <2>5, <3>2 DEF Registered, NameOf
    <3>4. UNCHANGED Registered
      BY <2>1 DEF Registered
    <3>5. given' = IF Head(Waiting).name \in Registered
                     THEN Append(given, Head(Waiting)) ELSE given
      BY <2>5, <3>2, <3>3
    <3> QED
      BY <3>2, <3>4, <3>5 DEF DispatcherMoves
  <2> QED
    BY <2>1, <2>4, <2>5
<1>12. ASSUME NEW t \in Threads, CallAddListener(t)
       PROVE  DispatcherMoves
  <2>1. Alone(t) /\ CallMoves(t, "search") /\ UNCHANGED <<inbox, msg, map, filled, given>>
    BY <1>12, CallAddListenerEffects
  <2> QED
    BY <1>1, <1>6, <2>1 DEF CallMoves
<1>13. ASSUME NEW t \in Threads, CallRemoveListeners(t) \/ CallClear(t)
       PROVE  DispatcherMoves
  <2>1. /\ Alone(t) /\ (CallMoves(t, "look") \/ CallMoves(t, "clear"))
        /\ UNCHANGED <<inbox, msg, map, filled, given>>
    BY <1>13, CallRemovalEffects
  <2> QED
    BY <1>1, <1>6, <2>1 DEF CallMoves
<1>14. ASSUME NEW t \in Threads, Search(t)
       PROVE  DispatcherMoves
  BY <1>1, <1>6, <1>14, SearchEffects
<1>15. ASSUME NEW t \in Threads, Look(t)
       PROVE  DispatcherMoves
  BY <1>1, <1>6, <1>15, LookEffects
<1>16. ASSUME NEW t \in Threads, Insert(t)
       PROVE  DispatcherMoves
  <2>1. /\ pc[t] = "insert" /\ pc' = [pc EXCEPT ![t] = "push"] /\ Alone(t)
        /\ map' = IF map[arg[t]] = 0 THEN [map EXCEPT ![arg[t]] = list[t]] ELSE map
        /\ UNCHANGED <<inbox, msg, filled, given>>
    BY <1>16, InsertEffects
  <2>2. UNCHANGED Waiting
    BY <1>1, <2>1, WaitingStays
  <2>3. CASE map[arg[t]] # 0 \/ list[t] \notin filled
    <3>1. \A n \in Names : map'[n] \in filled <=> map[n] \in filled
      BY <1>1, <1>2, <2>1, <2>3
    <3> QED
      BY <2>1, <2>2, <3>1 DEF DispatcherMoves, Registered
  <2>4. CASE map[arg[t]] = 0 /\ list[t] \in filled
    <3>1. \A n \in Names : map'[n] \in filled <=> map[n] \in filled \/ n = arg[t]
      BY <1>1, <2>1, <2>4
    <3>2. Registered' = Registered \union {arg[t]}
      BY <1>1, <2>1, <3>1 DEF Registered
    <3> QED
      BY <1>1, <2>1, <2>2, <3>2 DEF DispatcherMoves
  <2> QED
    BY <2>3, <2>4
<1>17. ASSUME NEW t \in Threads, PushFront(t)
       PROVE  DispatcherMoves
  <2>1. /\ pc[t] = "push" /\ pc' = [pc EXCEPT ![t] = back[t]] /\ Alone(t)
        /\ filled' = filled \union {list[t]}
        /\ UNCHANGED <<inbox, msg, map, given>>
    BY <1>17, PushFrontEffects
  <2>2. UNCHANGED Waiting
    BY <1>1, <2>1, WaitingStays
  <2>3. list[t] # 0
    BY <2>1 DEF HandInv, HandAt, Adding
  <2>4. CASE \E n \in Names : map[n] = list[t]
    <3>1. PICK n \in Names : map[n] = list[t]
      BY <2>4
    <3>2. \A k \in Names : map[k] = list[t] <=> k = n
      BY <2>3, <3>1 DEF ListsInv
    <3>3. Registered' = Registered \union {n}
      BY <2>1, <3>2 DEF Registered
    <3> QED
      BY <2>1, <2>2, <3>3 DEF DispatcherMoves
  <2>5. CASE ~\E n \in Names : map[n] = list[t]
    <3>1. UNCHANGED Registered
      BY <2>1, <2>5 DEF Registered
    <3> QED
      BY <2>1, <2>2, <3>1 DEF DispatcherMoves
  <2> QED
    BY <2>4, <2>5
<1>18. ASSUME NEW t \in Threads, Erase(t) \/ ClearListeners(t)
       PROVE  DispatcherMoves
  <2>1. /\ pc[t] \in {"erase", "clear"} /\ Alone(t)
        /\ UNCHANGED pc \/ pc' = [pc EXCEPT ![t] = back[t]]
        /\ \A n \in Names : map'[n] \in {0, map[n]}
        /\ UNCHANGED <<inbox, msg, filled, given>>
    BY <1>1, <1>18, EraseEffects, ClearEffects
  <2>2. UNCHANGED Waiting
    BY <1>1, <2>1, WaitingStays
  <2>3. Registered' \subseteq Registered
    BY <1>2, <2>1 DEF Registered
  <2> QED
    BY <2>1, <2>2, <2>3 DEF DispatcherMoves
<1> QED
  BY <1>4, <1>5, <1>7, <1>8, <1>9, <1>10, <1>11, <1>12, <1>13, <1>14, <1>15, <1>16,
     <1>17, <1>18 DEF Next, Threads

-----------------------------------------------------------------------------
(* Theorems.                                                               *)

IInv ==
  /\ TypeOK /\ HandInv /\ NotedInv /\ ReliesInv /\ GrownInv /\ AddedInv /\ ListsInv
  /\ InboxInv /\ BrokenForACause

\* The inductive invariant holds at first.
LEMMA InitIInv ==
  ASSUME Init
  PROVE  IInv
<1> USE ListenersAssumption DEF Init
<1>1. \A t \in Threads : pc[t] = "idle"
  OBVIOUS
<1>2. TypeOK
  <2>1. (CHOOSE n \in Names : TRUE) \in Names
    OBVIOUS
  <2>2. arg \in [Threads -> Names]
    BY <2>1
  <2> QED
    BY <2>2 DEF TypeOK, PCs
<1>3. HandInv
  BY <1>1 DEF HandInv, HandAt, Holding, InList, Nested, Adding, Removing
<1>4. NotedInv
  BY <1>1 DEF NotedInv, InDistribute, Holding, InList, Nested, Adding, Removing
<1>5. ReliesInv
  BY <1>1 DEF ReliesInv, ReliesAt, InList, Nested, Adding, Removing
<1>6. AddedInv
  BY <1>1 DEF AddedInv, Removing
<1>7. ListsInv
  BY <1>1 DEF ListsInv, Adding
<1>8. InboxInv
  BY <1>1 DEF InboxInv
<1>9. BrokenForACause
  BY DEF BrokenForACause
<1>10. GrownInv
  BY <1>1 DEF GrownInv, InDistribute, Holding, InList, Nested, Adding, Removing
<1> QED
  BY <1>2, <1>3, <1>4, <1>5, <1>6, <1>7, <1>8, <1>9, <1>10 DEF IInv

\* Every step keeps the inductive invariant.
LEMMA NextIInv ==
  ASSUME IInv, [Next]_vars
  PROVE  IInv'
<1>1. CASE Next
  BY <1>1, HandStep, TypeStep, NotedStep, ReliesStep, GrownStep, AddedStep, ListsStep,
     InboxStep, BrokenStep DEF IInv
<1>2. CASE UNCHANGED vars
  BY <1>2 DEF vars, IInv, TypeOK, HandInv, HandAt, NotedInv, ReliesInv, ReliesAt, GrownInv, Grown,
     AddedInv, ListsInv, InboxInv, BrokenForACause, InDistribute, Holding, InList, Nested,
     Erased, NameOf
<1> QED
  BY <1>1, <1>2

\* The inductive invariant holds.
LEMMA InductiveInvariant == Spec => []IInv
<1> QED
  BY InitIInv, NextIInv, PTL DEF Spec

\* The registry, the inbox and what the threads have at hand have their types.
THEOREM TypeCorrect == Spec => []TypeOK
<1>1. IInv => TypeOK
  BY DEF IInv
<1> QED
  BY <1>1, InductiveInvariant, PTL

\* For any names and any number of messages and calls: Distribute, AddListener,
\* RemoveListeners and Clear never use a null list, an erased entry, an iterator
\* that a rehash has invalidated or an empty queue unless the user has done what
\* the code does not stand; adding a listener from within another is part of it.
THEOREM BrokenOnlyForACause == Spec => []BrokenForACause
<1>1. IInv => BrokenForACause
  BY DEF IInv
<1> QED
  BY <1>1, InductiveInvariant, PTL

\* A listener added stays in the map until listeners are removed, unless two
\* calls of AddListener overlap.
THEOREM RegistrationsKept == Spec => []RegistrationsLast
<1>1. IInv => RegistrationsLast
  BY DEF IInv, AddedInv, RegistrationsLast
<1> QED
  BY <1>1, InductiveInvariant, PTL

\* As long as the application does not call Distribute, the object implements
\* Dispatcher, whatever is added and removed in the meantime.
THEOREM DispatcherImplemented == Spec => DispatcherSpec
<1>1. Init => Dispatching!Init
  <2> SUFFICES ASSUME Init
               PROVE  Dispatching!Init
    OBVIOUS
  <2>1. Registered = {} /\ Waiting = <<>> /\ given = <<>>
    BY DEF Init, Registered, Waiting, Threads
  <2> QED
    BY <2>1 DEF Dispatching!Init, Registered, Waiting
<1>2. ASSUME IInv, [Next]_vars, "distribute" \notin misuse'
      PROVE  [Dispatching!Next]_(Dispatching!dispatcherVars)
  <2>1. CASE Next
    BY <1>2, <2>1, DispatcherStep, DispatcherMovesAreSteps DEF IInv
  <2>2. CASE UNCHANGED vars
    BY <2>2, DispatcherMovesAreSteps DEF vars, DispatcherMoves, Registered, Waiting
  <2> QED
    BY <1>2, <2>1, <2>2
<1>3. IInv /\ [Next]_vars
        => ["distribute" \notin misuse' => [Dispatching!Next]_(Dispatching!dispatcherVars)]_vars
  BY <1>2
<1> QED
  BY <1>1, <1>3, InductiveInvariant, PTL DEF Spec, DispatcherSpec

=============================================================================
