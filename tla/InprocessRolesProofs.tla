------------------------- MODULE InprocessRolesProofs -------------------------
(***************************************************************************)
(* Proofs about InprocessRoles, for any number of objects and any roles    *)
(* asked for: the roles, the messages, and the refinement of Rendezvous by *)
(* careful applications.                                                   *)
(***************************************************************************)
EXTENDS InprocessRoles, SequenceTheorems, FiniteSetTheorems, TLAPS

-----------------------------------------------------------------------------
(* Roles and queues.                                                       *)

\* The roles are two, and Auto is none of them.
LEMMA OppositeIsOther ==
  \A r \in Roles : Opposite(r) \in Roles /\ Opposite(r) # r /\ Opposite(Opposite(r)) = r
BY InprocessRolesAssumption DEF Opposite, Roles

\* What the queues hold: an object and the number of one of its messages.
Held == Objects \X Nat

\* The elements of an appended queue.
LEMMA ElementsPushed ==
  ASSUME NEW s \in Seq(Held), NEW x \in Held
  PROVE  ToSet(Append(s, x)) = ToSet(s) \union {x}
<1>1. \A i \in 1..Len(s) : Append(s, x)[i] = s[i]
  OBVIOUS
<1>2. Append(s, x)[Len(s) + 1] = x /\ DOMAIN Append(s, x) = 1..(Len(s) + 1)
  OBVIOUS
<1> QED
  BY <1>1, <1>2 DEF ToSet

\* The elements of a concatenated queue.
LEMMA ElementsJoined ==
  ASSUME NEW s \in Seq(Held), NEW u \in Seq(Held)
  PROVE  ToSet(s \o u) = ToSet(s) \union ToSet(u)
<1>1. DOMAIN (s \o u) = 1..(Len(s) + Len(u))
  OBVIOUS
<1>2. \A i \in 1..Len(s) : (s \o u)[i] = s[i]
  OBVIOUS
<1>3. \A i \in 1..Len(u) : (s \o u)[Len(s) + i] = u[i]
  OBVIOUS
<1>4. \A i \in 1..(Len(s) + Len(u)) : i \in 1..Len(s) \/ i - Len(s) \in 1..Len(u)
  OBVIOUS
<1>5. ToSet(s \o u) \subseteq ToSet(s) \union ToSet(u)
  <2> SUFFICES ASSUME NEW i \in 1..(Len(s) + Len(u))
               PROVE  (s \o u)[i] \in ToSet(s) \union ToSet(u)
    BY <1>1 DEF ToSet
  <2>1. CASE i \in 1..Len(s)
    BY <2>1, <1>2 DEF ToSet
  <2>2. CASE i - Len(s) \in 1..Len(u)
    <3>1. (s \o u)[Len(s) + (i - Len(s))] = u[i - Len(s)] /\ Len(s) + (i - Len(s)) = i
      BY <2>2, <1>3
    <3> QED
      BY <2>2, <3>1 DEF ToSet
  <2> QED
    BY <2>1, <2>2, <1>4
<1>6. ToSet(s) \union ToSet(u) \subseteq ToSet(s \o u)
  <2>1. ToSet(s) \subseteq ToSet(s \o u)
    BY <1>1, <1>2 DEF ToSet
  <2>2. ToSet(u) \subseteq ToSet(s \o u)
    <3> SUFFICES ASSUME NEW i \in 1..Len(u) PROVE u[i] \in ToSet(s \o u)
      BY DEF ToSet
    <3>1. Len(s) + i \in DOMAIN (s \o u) /\ (s \o u)[Len(s) + i] = u[i]
      BY <1>1, <1>3
    <3> QED
      BY <3>1 DEF ToSet
  <2> QED
    BY <2>1, <2>2
<1> QED
  BY <1>5, <1>6

\* The elements of a queue are messages.
LEMMA QueuesHeld ==
  ASSUME TypeOK
  PROVE  /\ \A o \in Objects : ToSet(outbox[o]) \subseteq Held /\ ToSet(got[o]) \subseteq Held
         /\ \A r \in Roles : ToSet(queue[r]) \subseteq Held
<1>1. \A s \in Seq(Held) : ToSet(s) \subseteq Held
  BY DEF ToSet
<1>2. /\ \A o \in Objects : outbox[o] \in Seq(Held) /\ got[o] \in Seq(Held)
      /\ \A r \in Roles : queue[r] \in Seq(Held)
  BY DEF TypeOK, Held
<1> HIDE DEF Held
<1> QED
  BY <1>1, <1>2

-----------------------------------------------------------------------------
(* Type correctness.                                                       *)

\* Every step preserves the types.
LEMMA TypeStep == TypeOK /\ [Next]_vars => TypeOK'
<1> SUFFICES ASSUME TypeOK, [Next]_vars PROVE TypeOK'
  OBVIOUS
<1> USE DEF Held
<1>1. CASE UNCHANGED vars \/ InsertElsewhere \/ InsertedElsewhere
  BY <1>1 DEF TypeOK, vars, InsertElsewhere, InsertedElsewhere
<1>2. ASSUME NEW o \in Objects, Construct(o) PROVE TypeOK'
  BY <1>2 DEF Construct, Moves, TypeOK, PCs, Alive, Dead
<1>3. ASSUME NEW o \in Objects, Detect(o) PROVE TypeOK'
  <2>1. role' \in [Objects -> Roles \union {AutoRole}] /\ role'[o] \in Roles
    BY <1>3 DEF Detect, Looks, TypeOK, Roles
  <2>2. \A p \in Objects \ {o} : role'[p] = role[p] /\ pc'[p] = pc[p]
    BY <1>3 DEF Detect, Looks, Moves, TypeOK
  <2> QED
    BY <1>3, <2>1, <2>2 DEF Detect, Looks, Moves, TypeOK, PCs
<1>4. ASSUME NEW o \in Objects, EnsureToServer(o) PROVE TypeOK'
  BY <1>4 DEF EnsureToServer, Moves, TypeOK, PCs
<1>5. ASSUME NEW o \in Objects, InsertToServer(o) \/ EnsureToClient(o) PROVE TypeOK'
  BY <1>5 DEF InsertToServer, EnsureToClient, Moves, TypeOK, PCs, Roles
<1>6. ASSUME NEW o \in Objects, Submit(o) PROVE TypeOK'
  <2>1. /\ sent' = [sent EXCEPT ![o] = sent[o] + 1]
        /\ outbox' = [outbox EXCEPT ![o] = Append(outbox[o], <<o, sent[o] + 1>>)]
        /\ sent[o] + 1 \in 0..MaxSent
    BY <1>6, InprocessRolesAssumption DEF Submit, TypeOK
  <2>2. <<o, sent[o] + 1>> \in Objects \X Nat
    BY <2>1, InprocessRolesAssumption
  <2>3. /\ sent' \in [Objects -> 0..MaxSent]
        /\ outbox' \in [Objects -> Seq(Objects \X Nat)]
    BY <2>1, <2>2 DEF TypeOK
  <2> QED
    BY <1>6, <2>3 DEF Submit, TypeOK
<1>7. ASSUME NEW o \in Objects, SendMessages(o) PROVE TypeOK'
  <2>1. role[o] \in Roles /\ SendQueueOf(o) \in Roles
    BY <1>7, OppositeIsOther DEF SendMessages, SendQueueOf, TypeOK
  <2> QED
    BY <1>7, <2>1 DEF SendMessages, TypeOK
<1>8. ASSUME NEW o \in Objects, ReceiveMessages(o) PROVE TypeOK'
  <2>1. role[o] \in Roles
    BY <1>8 DEF ReceiveMessages, TypeOK
  <2>2. got[o] \o queue[role[o]] \in Seq(Objects \X Nat)
    BY <2>1 DEF TypeOK
  <2>3. got' \in [Objects -> Seq(Objects \X Nat)]
    BY <1>8, <2>2 DEF ReceiveMessages, TypeOK
  <2>4. queue' \in [Roles -> Seq(Objects \X Nat)]
    BY <1>8, <2>1 DEF ReceiveMessages, TypeOK
  <2> QED
    BY <1>8, <2>3, <2>4 DEF ReceiveMessages, TypeOK
<1>9. ASSUME NEW o \in Objects, Delete(o) PROVE TypeOK'
  <2>1. outbox' \in [Objects -> Seq(Objects \X Nat)]
    BY <1>9 DEF Delete, TypeOK
  <2>2. /\ pc' \in [Objects -> PCs]
        /\ \A p \in Objects : pc'[p] \notin {"unborn", "detect"} => role'[p] \in Roles
    BY <1>9 DEF Delete, Moves, TypeOK, PCs
  <2> QED
    BY <1>9, <2>1, <2>2 DEF Delete, TypeOK
<1> QED
  BY <1>1, <1>2, <1>3, <1>4, <1>5, <1>6, <1>7, <1>8, <1>9 DEF Next

\* Every reachable state is well typed; in particular, no object goes beyond
\* InitializeRole without being a Server or a Client.
THEOREM TypeCorrect == Spec => []TypeOK
<1>1. Init => TypeOK
  <2> SUFFICES ASSUME Init PROVE TypeOK
    OBVIOUS
  <2>1. careful \in BOOLEAN /\ elsewhere \in BOOLEAN
    BY Zenon DEF Init
  <2>2. /\ asked \in [Objects -> Asked]
        /\ pc \in [Objects -> PCs] /\ \A o \in Objects : pc[o] = "unborn"
    BY DEF Init, PCs
  <2>3. role \in [Objects -> Roles \union {AutoRole}]
    BY <2>2, InprocessRolesAssumption DEF Init, Roles
  <2>4. /\ queue \in [Roles -> Seq(Objects \X Nat)]
        /\ outbox \in [Objects -> Seq(Objects \X Nat)] /\ got \in [Objects -> Seq(Objects \X Nat)]
    BY DEF Init
  <2>5. exists \subseteq Roles /\ sent \in [Objects -> 0..MaxSent]
    BY InprocessRolesAssumption DEF Init
  <2>6. before \in [Objects -> SUBSET Objects] /\ blurred \subseteq Objects
    BY DEF Init
  <2> QED
    BY <2>1, <2>2, <2>3, <2>4, <2>5, <2>6 DEF TypeOK
<1> QED
  BY <1>1, TypeStep, PTL DEF Spec

-----------------------------------------------------------------------------
(* The static maps and the roles.                                          *)

\* The places behind the insertion into s_to_server_messages.
Passed == {"toClient", "alive", "dead"}

\* The queue of the Server is there exactly when an object has passed its
\* creation, which is never under way then; the queue of the Client is there
\* for every object that has been constructed.
MapsInv ==
  /\ Server \in exists <=> \E o \in Objects : pc[o] \in Passed
  /\ \A o \in Objects : pc[o] = "inserting" => Server \notin exists
  /\ \A o, p \in Objects : pc[o] = "inserting" /\ pc[p] = "inserting" => o = p
  /\ \A o \in Objects : pc[o] \in {"alive", "dead"} => Client \in exists

\* What an object knew of others when it chose its role.
RolesInv ==
  /\ \A o \in Objects : pc[o] \in {"unborn", "detect"} => role[o] = asked[o]
  /\ \A o \in Objects : \A p \in before[o] : pc[p] \in {"alive", "dead"}
  /\ FirstComerServes

\* Every step preserves what is known of the maps.
LEMMA MapsStep == TypeOK /\ MapsInv /\ [Next]_vars => MapsInv'
<1> SUFFICES ASSUME TypeOK, MapsInv, [Next]_vars PROVE MapsInv'
  OBVIOUS
<1> USE InprocessRolesAssumption DEF Passed, Moves
<1>1. CASE UNCHANGED vars \/ InsertElsewhere \/ InsertedElsewhere
  BY <1>1 DEF MapsInv, vars, InsertElsewhere, InsertedElsewhere
<1>2. ASSUME NEW o \in Objects, Construct(o) \/ Detect(o) PROVE MapsInv'
  <2>1. /\ pc[o] \in {"unborn", "detect"} /\ pc'[o] \in {"detect", "toServer"}
        /\ \A p \in Objects \ {o} : pc'[p] = pc[p]
        /\ exists' = exists
    BY <1>2 DEF Construct, Detect, Looks, TypeOK
  <2>2. \A p \in Objects : /\ pc'[p] \in Passed <=> pc[p] \in Passed
                           /\ pc'[p] = "inserting" <=> pc[p] = "inserting"
                           /\ pc'[p] \in {"alive", "dead"} <=> pc[p] \in {"alive", "dead"}
    BY <2>1
  <2> HIDE DEF Passed, Moves
  <2> QED
    BY <2>1, <2>2 DEF MapsInv
<1>3. ASSUME NEW o \in Objects, EnsureToServer(o) PROVE MapsInv'
  BY <1>3 DEF EnsureToServer, Unlocked, MapsInv, TypeOK
<1>4. ASSUME NEW o \in Objects, InsertToServer(o) PROVE MapsInv'
  BY <1>4 DEF InsertToServer, MapsInv, TypeOK
<1>5. ASSUME NEW o \in Objects, EnsureToClient(o) PROVE MapsInv'
  BY <1>5 DEF EnsureToClient, MapsInv, TypeOK
<1>6. ASSUME NEW o \in Objects, Submit(o) \/ SendMessages(o) \/ ReceiveMessages(o) PROVE MapsInv'
  BY <1>6 DEF Submit, SendMessages, ReceiveMessages, MapsInv
<1>7. ASSUME NEW o \in Objects, Delete(o) PROVE MapsInv'
  BY <1>7 DEF Delete, MapsInv, TypeOK
<1> QED
  BY <1>1, <1>2, <1>3, <1>4, <1>5, <1>6, <1>7 DEF Next

\* What is known of the maps holds in every reachable state.
LEMMA MapsInvariant == Spec => []MapsInv
<1>1. Init => MapsInv
  BY DEF Init, MapsInv, Passed
<1> QED
  BY <1>1, MapsStep, TypeCorrect, PTL DEF Spec

\* Whoever sends or receives finds both queues.
THEOREM QueuesAreThere == Spec => []QueuesExist
<1>1. TypeOK /\ MapsInv => QueuesExist
  BY DEF TypeOK, MapsInv, QueuesExist, Alive, Dead, Passed, Roles
<1> QED
  BY <1>1, TypeCorrect, MapsInvariant, PTL

\* Every step preserves what is known of the roles.
LEMMA RolesStep == TypeOK /\ MapsInv /\ RolesInv /\ [Next]_vars => RolesInv'
<1> SUFFICES ASSUME TypeOK, MapsInv, RolesInv, [Next]_vars PROVE RolesInv'
  OBVIOUS
<1> USE InprocessRolesAssumption DEF Moves, FirstComerServes
<1>1. CASE UNCHANGED vars \/ InsertElsewhere \/ InsertedElsewhere
  BY <1>1 DEF RolesInv, vars, InsertElsewhere, InsertedElsewhere
<1>2. ASSUME NEW o \in Objects, Construct(o) PROVE RolesInv'
  <2>1. role[o] = asked[o] /\ role' = role /\ asked' = asked /\ blurred' = blurred
    BY <1>2 DEF Construct, RolesInv
  <2>2. \A p \in Objects \ {o} : before'[p] = before[p] /\ pc'[p] = pc[p]
    BY <1>2 DEF Construct, TypeOK
  <2>3. before'[o] = Alive \union Dead /\ pc[o] = "unborn" /\ pc'[o] = "detect"
    BY <1>2 DEF Construct, TypeOK
  <2>4. \A p \in Objects : \A q \in before'[p] : pc'[q] \in {"alive", "dead"}
    BY <2>2, <2>3 DEF RolesInv, Alive, Dead, TypeOK
  <2>5. \A p \in Objects \ {o} : pc[p] \notin {"unborn", "detect", "toServer"}
                                   => pc'[p] \notin {"unborn", "detect", "toServer"}
    BY <2>2
  <2>6. FirstComerServes'
    <3> SUFFICES ASSUME NEW p \in Objects, asked[p] = AutoRole, p \notin blurred
                 PROVE  /\ role[p] = Server => before'[p] = {}
                        /\ role[p] = Client => \E q \in Objects \ {p} :
                             pc'[q] \notin {"unborn", "detect", "toServer"}
      BY <2>1
    <3>1. p = o => role[p] \notin {Server, Client}
      BY <2>1
    <3>2. p # o => before'[p] = before[p]
      BY <2>2
    <3> QED
      BY <3>1, <3>2, <2>2, <2>3 DEF RolesInv
  <2> QED
    BY <2>1, <2>2, <2>3, <2>4, <2>6 DEF RolesInv
<1>3. ASSUME NEW o \in Objects, Detect(o) PROVE RolesInv'
  <2>1. /\ pc[o] = "detect" /\ pc'[o] = "toServer" /\ UNCHANGED <<asked, before>>
        /\ \A p \in Objects \ {o} : role'[p] = role[p] /\ pc'[p] = pc[p]
    BY <1>3 DEF Detect, Looks, TypeOK
  <2>2. PICK found \in Found : role'[o] = IF role[o] # AutoRole THEN role[o]
                                          ELSE IF found THEN Client ELSE Server
    BY <1>3 DEF Detect, Looks, TypeOK
  <2>3. role[o] = asked[o]
    BY <2>1 DEF RolesInv
  <2>4. ~elsewhere /\ ~found => before[o] = {}
    BY <2>1, <2>2 DEF Found, Unlocked, MapsInv, RolesInv, TypeOK, Passed
  <2>5. ~elsewhere /\ found =>
          \E p \in Objects \ {o} : pc[p] \notin {"unborn", "detect", "toServer"}
    BY <2>1, <2>2 DEF Found, Unlocked, MapsInv, Passed
  <2>6. \A p \in Objects : \A q \in before'[p] : pc'[q] \in {"alive", "dead"}
    BY <2>1 DEF RolesInv, TypeOK
  <2>7. \A p \in Objects : pc[p] \notin {"unborn", "detect", "toServer"}
                             => pc'[p] \notin {"unborn", "detect", "toServer"}
    BY <2>1
  <2>9. /\ \A p \in Objects : p \notin blurred' => p \notin blurred
        /\ asked[o] = AutoRole /\ o \notin blurred' => ~elsewhere
    BY <1>3 DEF Detect, Looks
  <2>10. FirstComerServes'
    <3> SUFFICES ASSUME NEW p \in Objects, asked[p] = AutoRole, p \notin blurred'
                 PROVE  /\ role'[p] = Server => before[p] = {}
                        /\ role'[p] = Client => \E q \in Objects \ {p} :
                             pc'[q] \notin {"unborn", "detect", "toServer"}
      BY <2>1
    <3>1. CASE p = o
      BY <3>1, <2>9, <2>2, <2>3, <2>4, <2>5, <2>7
    <3>2. CASE p # o
      BY <3>2, <2>1, <2>7, <2>9 DEF RolesInv
    <3> QED
      BY <3>1, <3>2
  <2> QED
    BY <2>1, <2>6, <2>10 DEF RolesInv
<1>4. ASSUME NEW o \in Objects,
             EnsureToServer(o) \/ InsertToServer(o) \/ EnsureToClient(o) \/ Delete(o)
      PROVE  RolesInv'
  <2>1. UNCHANGED <<asked, role, before, blurred>>
    BY <1>4 DEF EnsureToServer, InsertToServer, EnsureToClient, Delete
  <2>2. /\ pc[o] \in {"toServer", "inserting", "toClient", "alive"}
        /\ pc'[o] \in {"inserting", "toClient", "alive", "dead"}
        /\ pc[o] = "alive" => pc'[o] = "dead"
        /\ \A p \in Objects \ {o} : pc'[p] = pc[p]
    BY <1>4 DEF EnsureToServer, InsertToServer, EnsureToClient, Delete, TypeOK
  <2>3. \A p \in Objects : \A q \in before'[p] : pc'[q] \in {"alive", "dead"}
    BY <2>1, <2>2 DEF RolesInv, TypeOK
  <2>4. \A p \in Objects : pc[p] \notin {"unborn", "detect", "toServer"}
                             => pc'[p] \notin {"unborn", "detect", "toServer"}
    BY <2>2
  <2>5. FirstComerServes'
    BY <2>1, <2>4 DEF RolesInv
  <2>6. \A p \in Objects : pc'[p] \in {"unborn", "detect"} => pc[p] \in {"unborn", "detect"}
    BY <2>2
  <2> QED
    BY <2>1, <2>3, <2>5, <2>6 DEF RolesInv
<1>5. ASSUME NEW o \in Objects, Submit(o) \/ SendMessages(o) \/ ReceiveMessages(o) PROVE RolesInv'
  BY <1>5 DEF Submit, SendMessages, ReceiveMessages, RolesInv
<1> QED
  BY <1>1, <1>2, <1>3, <1>4, <1>5 DEF Next

\* What is known of the roles holds in every reachable state.
LEMMA RolesInvariant == Spec => []RolesInv
<1>1. Init => RolesInv
  BY InprocessRolesAssumption DEF Init, RolesInv, FirstComerServes
<1> QED
  BY <1>1, RolesStep, TypeCorrect, MapsInvariant, PTL DEF Spec

\* However the constructors of the channel interleave, an object that asks
\* for Auto is the Server only if none was there before, and the Client only
\* if another is on its way or there: unless it looked while a constructor of
\* another channel was inserting into the map that they share.
THEOREM FirstIsServer == Spec => []FirstComerServes
BY RolesInvariant, PTL DEF RolesInv

-----------------------------------------------------------------------------
(* Messages travel between the roles.                                      *)

\* m was submitted at an object of role r that has been constructed.
SubmittedAt(m, r) == pc[m[1]] \in {"alive", "dead"} /\ role[m[1]] = r

\* The messages of the outboxes and queues are of one role each.
CargoInv ==
  /\ \A o \in Objects : \A m \in ToSet(outbox[o]) : SubmittedAt(m, role[o])
  /\ \A r \in Roles : \A m \in ToSet(queue[r]) : SubmittedAt(m, Opposite(r))
  /\ \A o \in Objects : \A m \in ToSet(got[o]) : SubmittedAt(m, Opposite(role[o]))
  /\ \A o \in Objects : pc[o] \notin {"alive", "dead"} => outbox[o] = <<>> /\ got[o] = <<>>

\* A step that moves no message and changes the role of no constructed object
\* preserves what is known of the messages.
LEMMA CargoStays ==
  ASSUME TypeOK, TypeOK', CargoInv, UNCHANGED <<queue, got>>,
         \A o \in Objects : outbox'[o] \in {outbox[o], <<>>},
         \A o \in Objects : /\ pc[o] \in {"alive", "dead"} <=> pc'[o] \in {"alive", "dead"}
                            /\ pc[o] \in {"alive", "dead"} => role'[o] = role[o]
  PROVE  CargoInv'
<1>1. \A m \in Held, r \in Roles : SubmittedAt(m, r) => SubmittedAt(m, r)'
  BY DEF Held, SubmittedAt
<1>2. /\ \A o \in Objects : ToSet(outbox[o]) \subseteq Held /\ ToSet(got[o]) \subseteq Held
      /\ \A r \in Roles : ToSet(queue[r]) \subseteq Held
  BY QueuesHeld
<1>3. ToSet(<<>>) = {}
  BY DEF ToSet
<1>4. \A o \in Objects : pc[o] \in {"alive", "dead"} =>
        role[o] \in Roles /\ Opposite(role[o]) \in Roles
  BY OppositeIsOther DEF TypeOK
<1>5. \A o \in Objects : \A m \in ToSet(outbox'[o]) : SubmittedAt(m, role[o])'
  <2> SUFFICES ASSUME NEW o \in Objects, NEW m \in ToSet(outbox'[o]) PROVE SubmittedAt(m, role[o])'
    OBVIOUS
  <2>1. outbox'[o] = outbox[o] /\ m \in ToSet(outbox[o])
    BY <1>3
  <2>2. pc[o] \in {"alive", "dead"} /\ role'[o] = role[o]
    BY <2>1, <1>3 DEF CargoInv
  <2>3. SubmittedAt(m, role[o])
    BY <2>1 DEF CargoInv
  <2> QED
    BY <1>1, <1>2, <1>4, <2>1, <2>2, <2>3
<1>6. \A r \in Roles : \A m \in ToSet(queue'[r]) : SubmittedAt(m, Opposite(r))'
  BY <1>1, <1>2, OppositeIsOther DEF CargoInv
<1>7. \A o \in Objects : \A m \in ToSet(got'[o]) : SubmittedAt(m, Opposite(role[o]))'
  <2> SUFFICES ASSUME NEW o \in Objects, NEW m \in ToSet(got[o])
               PROVE  SubmittedAt(m, Opposite(role[o]))'
    OBVIOUS
  <2>1. pc[o] \in {"alive", "dead"} /\ role'[o] = role[o]
    BY <1>3 DEF CargoInv
  <2>2. SubmittedAt(m, Opposite(role[o]))
    BY DEF CargoInv
  <2> QED
    BY <1>1, <1>2, <1>4, <2>1, <2>2
<1>8. \A o \in Objects :
        pc'[o] \notin {"alive", "dead"} => outbox'[o] = <<>> /\ got'[o] = <<>>
  BY DEF CargoInv
<1> QED
  BY <1>5, <1>6, <1>7, <1>8 DEF CargoInv

\* Every step preserves what is known of the messages.
LEMMA CargoStep == TypeOK /\ TypeOK' /\ CargoInv /\ [Next]_vars => CargoInv'
<1> SUFFICES ASSUME TypeOK, TypeOK', CargoInv, [Next]_vars PROVE CargoInv'
  OBVIOUS
<1>e. ToSet(<<>>) = {}
  BY DEF ToSet
<1>1. CASE UNCHANGED vars \/ InsertElsewhere \/ InsertedElsewhere
  BY <1>1, CargoStays DEF vars, InsertElsewhere, InsertedElsewhere
<1>2. ASSUME NEW o \in Objects,
             Construct(o) \/ Detect(o) \/ EnsureToServer(o) \/ InsertToServer(o) \/ Delete(o)
      PROVE  CargoInv'
  <2>1. /\ UNCHANGED <<queue, got>>
        /\ \A p \in Objects : outbox'[p] \in {outbox[p], <<>>}
        /\ \A p \in Objects : /\ pc[p] \in {"alive", "dead"} <=> pc'[p] \in {"alive", "dead"}
                              /\ pc[p] \in {"alive", "dead"} => role'[p] = role[p]
    BY <1>2 DEF Construct, Detect, Looks, EnsureToServer, InsertToServer, Delete, Moves, TypeOK
  <2> QED
    BY <2>1, CargoStays
<1>3. ASSUME NEW o \in Objects, EnsureToClient(o) PROVE CargoInv'
  <2>1. /\ \A p \in Objects : pc[p] \in {"alive", "dead"} => pc'[p] \in {"alive", "dead"}
        /\ UNCHANGED <<role, queue, outbox, got>>
    BY <1>3 DEF EnsureToClient, Moves, TypeOK
  <2>2. \A m \in Held, r \in Roles : SubmittedAt(m, r) => SubmittedAt(m, r)'
    BY <2>1 DEF Held, SubmittedAt
  <2>3. /\ \A p \in Objects : ToSet(outbox[p]) \subseteq Held /\ ToSet(got[p]) \subseteq Held
        /\ \A r \in Roles : ToSet(queue[r]) \subseteq Held
    BY QueuesHeld
  <2>4. \A p \in Objects : pc[p] \in {"alive", "dead"} =>
          role[p] \in Roles /\ Opposite(role[p]) \in Roles
    BY OppositeIsOther DEF TypeOK
  <2>5. \A p \in Objects : pc[p] \notin {"alive", "dead"} =>
          ToSet(outbox[p]) = {} /\ ToSet(got[p]) = {}
    BY <1>e DEF CargoInv
  <2>6. \A p \in Objects : \A m \in ToSet(outbox[p]) : SubmittedAt(m, role[p])'
    BY <2>1, <2>2, <2>3, <2>4, <2>5 DEF CargoInv
  <2>7. \A p \in Objects : \A m \in ToSet(got[p]) : SubmittedAt(m, Opposite(role[p]))'
    BY <2>1, <2>2, <2>3, <2>4, <2>5 DEF CargoInv
  <2>8. \A r \in Roles : \A m \in ToSet(queue[r]) : SubmittedAt(m, Opposite(r))'
    BY <2>2, <2>3, OppositeIsOther DEF CargoInv
  <2>9. \A p \in Objects : pc'[p] \notin {"alive", "dead"} => outbox[p] = <<>> /\ got[p] = <<>>
    BY <2>1 DEF CargoInv
  <2> QED
    BY <2>1, <2>6, <2>7, <2>8, <2>9 DEF CargoInv
<1>4. ASSUME NEW o \in Objects, Submit(o) PROVE CargoInv'
  <2> DEFINE x == <<o, sent[o] + 1>>
  <2>1. /\ pc[o] = "alive" /\ UNCHANGED <<pc, role, queue, got>>
        /\ outbox' = [outbox EXCEPT ![o] = Append(outbox[o], x)]
    BY <1>4 DEF Submit, TypeOK
  <2>2. x \in Held /\ x[1] = o /\ outbox[o] \in Seq(Held)
    <3>1. sent[o] + 1 \in Nat
      BY InprocessRolesAssumption DEF TypeOK
    <3>2. outbox[o] \in Seq(Held)
      BY DEF TypeOK, Held
    <3> QED
      BY <3>1, <3>2 DEF Held
  <2> HIDE DEF x
  <2>3. ToSet(outbox'[o]) = ToSet(outbox[o]) \union {x}
    BY <2>1, <2>2, ElementsPushed DEF TypeOK
  <2>4. SubmittedAt(x, role[o])
    BY <2>1, <2>2 DEF SubmittedAt
  <2>5. \A p \in Objects \ {o} : outbox'[p] = outbox[p]
    BY <2>1 DEF TypeOK
  <2>6. \A m, r : SubmittedAt(m, r)' <=> SubmittedAt(m, r)
    BY <2>1 DEF SubmittedAt
  <2> QED
    BY <2>1, <2>3, <2>4, <2>5, <2>6 DEF CargoInv
<1>5. ASSUME NEW o \in Objects, SendMessages(o) PROVE CargoInv'
  <2> DEFINE q == SendQueueOf(o)
  <2>1. /\ pc[o] = "alive" /\ UNCHANGED <<pc, role, got>>
        /\ queue' = [queue EXCEPT ![q] = outbox[o]]
        /\ outbox' = [outbox EXCEPT ![o] = queue[q]]
    BY <1>5 DEF SendMessages
  <2>2. role[o] \in Roles /\ q \in Roles /\ Opposite(q) = role[o]
    BY <2>1, OppositeIsOther DEF SendQueueOf, TypeOK
  <2> HIDE DEF q
  <2>3. /\ queue'[q] = outbox[o] /\ \A r \in Roles \ {q} : queue'[r] = queue[r]
        /\ outbox'[o] = queue[q] /\ \A p \in Objects \ {o} : outbox'[p] = outbox[p]
    BY <2>1, <2>2 DEF TypeOK
  <2>4. \A m, r : SubmittedAt(m, r)' <=> SubmittedAt(m, r)
    BY <2>1 DEF SubmittedAt
  <2>5. \A p \in Objects : \A m \in ToSet(outbox'[p]) : SubmittedAt(m, role[p])
    BY <2>2, <2>3 DEF CargoInv
  <2>6. \A r \in Roles : \A m \in ToSet(queue'[r]) : SubmittedAt(m, Opposite(r))
    BY <2>2, <2>3 DEF CargoInv
  <2>7. \A p \in Objects : pc[p] \notin {"alive", "dead"} => outbox'[p] = <<>> /\ got[p] = <<>>
    BY <2>1, <2>3 DEF CargoInv
  <2> QED
    BY <2>1, <2>4, <2>5, <2>6, <2>7 DEF CargoInv
<1>6. ASSUME NEW o \in Objects, ReceiveMessages(o) PROVE CargoInv'
  <2> DEFINE q == queue[role[o]]
  <2>1. /\ pc[o] = "alive" /\ UNCHANGED <<pc, role, outbox>>
        /\ got' = [got EXCEPT ![o] = got[o] \o q]
        /\ queue' = [queue EXCEPT ![role[o]] = <<>>]
    BY <1>6 DEF ReceiveMessages
  <2>2. role[o] \in Roles /\ \A m \in ToSet(q) : SubmittedAt(m, Opposite(role[o]))
    BY <2>1 DEF CargoInv, TypeOK
  <2>3. got[o] \in Seq(Held) /\ q \in Seq(Held)
    BY <2>2 DEF TypeOK, Held
  <2> HIDE DEF q
  <2>4. /\ got'[o] = got[o] \o q /\ \A p \in Objects \ {o} : got'[p] = got[p]
        /\ queue'[role[o]] = <<>> /\ \A r \in Roles \ {role[o]} : queue'[r] = queue[r]
    BY <2>1, <2>2 DEF TypeOK
  <2>5. ToSet(got'[o]) = ToSet(got[o]) \union ToSet(q)
    BY <2>3, <2>4, ElementsJoined
  <2>6. \A m, r : SubmittedAt(m, r)' <=> SubmittedAt(m, r)
    BY <2>1 DEF SubmittedAt
  <2>7. \A p \in Objects : \A m \in ToSet(got'[p]) : SubmittedAt(m, Opposite(role[p]))
    BY <2>2, <2>4, <2>5 DEF CargoInv
  <2>8. \A r \in Roles : \A m \in ToSet(queue'[r]) : SubmittedAt(m, Opposite(r))
    BY <2>4, <1>e DEF CargoInv
  <2>9. \A p \in Objects : pc[p] \notin {"alive", "dead"} => outbox[p] = <<>> /\ got'[p] = <<>>
    BY <2>1, <2>4 DEF CargoInv
  <2> QED
    BY <2>1, <2>6, <2>7, <2>8, <2>9 DEF CargoInv
<1> QED
  BY <1>1, <1>2, <1>3, <1>4, <1>5, <1>6 DEF Next

\* An object only fetches what objects of the other role have submitted,
\* although queues and their messages outlive the objects and unsent batches
\* are taken over from one object to another.
THEOREM FetchedFromPeers == Spec => []OnlyFromPeers
<1>1. Init => CargoInv
  BY DEF Init, CargoInv, ToSet
<1>2. CargoInv => OnlyFromPeers
  BY DEF CargoInv, OnlyFromPeers, SubmittedAt
<1> QED
  BY <1>1, <1>2, CargoStep, TypeCorrect, PTL DEF Spec


-----------------------------------------------------------------------------
(* Every message is in one place.                                          *)

\* No value occurs twice in the sequences A[h].
Distinct(A) ==
  \A h, k \in DOMAIN A : \A i \in DOMAIN A[h], j \in DOMAIN A[k] :
    A[h][i] = A[k][j] => h = k /\ i = j

\* Pushing a value that occurs nowhere, as SendMessage does.
LEMMA DistinctPush ==
  ASSUME NEW H, NEW S, NEW A \in [H -> Seq(S)], NEW a \in H, NEW x \in S, Distinct(A),
         \A h \in H : \A i \in DOMAIN A[h] : A[h][i] # x
  PROVE  Distinct([A EXCEPT ![a] = Append(A[a], x)])
<1> DEFINE B == [A EXCEPT ![a] = Append(A[a], x)]
           n == Len(A[a])
<1>1. A[a] \in Seq(S) /\ n \in Nat /\ DOMAIN A[a] = 1..n
  BY LenProperties
<1>2. /\ DOMAIN Append(A[a], x) = 1..(n + 1) /\ Append(A[a], x)[n + 1] = x
      /\ \A i \in 1..n : Append(A[a], x)[i] = A[a][i]
  BY <1>1, AppendProperties, LenProperties
<1>3. /\ DOMAIN B = H /\ B[a] = Append(A[a], x)
      /\ \A h \in H \ {a} : B[h] = A[h]
  OBVIOUS
<1> HIDE DEF B, n
<1>4. \A h \in H : \A i \in DOMAIN B[h] :
        \/ i \in DOMAIN A[h] /\ B[h][i] = A[h][i]
        \/ h = a /\ i = n + 1 /\ B[h][i] = x
  <2> SUFFICES ASSUME NEW h \in H, NEW i \in DOMAIN B[h]
               PROVE  \/ i \in DOMAIN A[h] /\ B[h][i] = A[h][i]
                      \/ h = a /\ i = n + 1 /\ B[h][i] = x
    OBVIOUS
  <2>1. CASE h = a
    BY <2>1, <1>1, <1>2, <1>3
  <2>2. CASE h # a
    BY <2>2, <1>3
  <2> QED
    BY <2>1, <2>2
<1> SUFFICES ASSUME NEW h \in H, NEW k \in H, NEW i \in DOMAIN B[h], NEW j \in DOMAIN B[k],
                    B[h][i] = B[k][j]
             PROVE  h = k /\ i = j
  BY <1>3 DEF Distinct, B
<1> QED
  BY <1>4 DEF Distinct

\* Exchanging two sequences, as SendMessages does.
LEMMA DistinctSwap ==
  ASSUME NEW H, NEW A, DOMAIN A = H, NEW a \in H, NEW b \in H, a # b, Distinct(A)
  PROVE  Distinct([A EXCEPT ![a] = A[b], ![b] = A[a]])
<1> DEFINE B == [A EXCEPT ![a] = A[b], ![b] = A[a]]
           from(h) == IF h = a THEN b ELSE IF h = b THEN a ELSE h
<1>1. DOMAIN B = H /\ \A h \in H : B[h] = A[from(h)] /\ from(h) \in H
  OBVIOUS
<1>2. \A h, k \in H : from(h) = from(k) => h = k
  OBVIOUS
<1> HIDE DEF B, from
<1> SUFFICES ASSUME NEW h \in H, NEW k \in H, NEW i \in DOMAIN B[h], NEW j \in DOMAIN B[k],
                    B[h][i] = B[k][j]
             PROVE  h = k /\ i = j
  BY <1>1 DEF Distinct, B
<1>3. from(h) = from(k) /\ i = j
  BY <1>1 DEF Distinct
<1> QED
  BY <1>2, <1>3

\* Moving a whole sequence behind another, as ReceiveMessages does.
LEMMA DistinctMove ==
  ASSUME NEW H, NEW S, NEW A \in [H -> Seq(S)], NEW a \in H, NEW b \in H, a # b, Distinct(A)
  PROVE  Distinct([A EXCEPT ![a] = A[a] \o A[b], ![b] = <<>>])
<1> DEFINE B == [A EXCEPT ![a] = A[a] \o A[b], ![b] = <<>>]
           n == Len(A[a])
           m == Len(A[b])
           both == A[a] \o A[b]
<1>1. /\ A[a] \in Seq(S) /\ n \in Nat /\ DOMAIN A[a] = 1..n
      /\ A[b] \in Seq(S) /\ m \in Nat /\ DOMAIN A[b] = 1..m
  BY LenProperties
<1>2. /\ both \in Seq(S) /\ Len(both) = n + m
      /\ \A i \in 1..(n + m) : both[i] = IF i <= n THEN A[a][i] ELSE A[b][i - n]
  BY <1>1, ConcatProperties
<1>3. DOMAIN both = 1..(n + m)
  BY <1>2, LenProperties
<1>4. /\ DOMAIN B = H /\ B[a] = both /\ B[b] = <<>>
      /\ \A h \in H \ {a, b} : B[h] = A[h]
  OBVIOUS
<1>5. DOMAIN B[b] = {}
  BY <1>4
<1> HIDE DEF B, n, m, both
<1>6. \A h \in H : \A i \in DOMAIN B[h] :
        h # b /\ \/ i \in DOMAIN A[h] /\ B[h][i] = A[h][i]
                 \/ h = a /\ i \in Int /\ i - n \in DOMAIN A[b] /\ B[h][i] = A[b][i - n]
  <2> SUFFICES ASSUME NEW h \in H, NEW i \in DOMAIN B[h]
               PROVE  h # b /\ \/ i \in DOMAIN A[h] /\ B[h][i] = A[h][i]
                               \/ /\ h = a /\ i \in Int /\ i - n \in DOMAIN A[b]
                                  /\ B[h][i] = A[b][i - n]
    OBVIOUS
  <2>1. CASE h = a
    <3>1. i \in 1..(n + m) /\ B[h][i] = IF i <= n THEN A[a][i] ELSE A[b][i - n]
      BY <2>1, <1>2, <1>3, <1>4
    <3>2. CASE i <= n
      BY <2>1, <3>1, <3>2, <1>1
    <3>3. CASE ~(i <= n)
      BY <2>1, <3>1, <3>3, <1>1
    <3> QED
      BY <3>2, <3>3
  <2>2. CASE h # a
    BY <2>2, <1>4, <1>5
  <2> QED
    BY <2>1, <2>2
<1> SUFFICES ASSUME NEW h \in H, NEW k \in H, NEW i \in DOMAIN B[h], NEW j \in DOMAIN B[k],
                    B[h][i] = B[k][j]
             PROVE  h = k /\ i = j
  BY <1>4 DEF Distinct, B
<1>7. CASE i \in DOMAIN A[h] /\ B[h][i] = A[h][i] /\ j \in DOMAIN A[k] /\ B[k][j] = A[k][j]
  <2>1. DOMAIN A = H
    OBVIOUS
  <2>2. A[h][i] = A[k][j]
    BY <1>7
  <2> QED
    BY <1>7, <2>1, <2>2 DEF Distinct
<1>8. CASE /\ h = a /\ i \in Int /\ i - n \in DOMAIN A[b] /\ B[h][i] = A[b][i - n]
           /\ k = a /\ j \in Int /\ j - n \in DOMAIN A[b] /\ B[k][j] = A[b][j - n]
  <2>1. i - n = j - n
    BY <1>8 DEF Distinct
  <2> QED
    BY <1>1, <1>8, <2>1
<1>9. CASE \/ /\ i \in DOMAIN A[h] /\ B[h][i] = A[h][i]
              /\ j - n \in DOMAIN A[b] /\ B[k][j] = A[b][j - n]
           \/ /\ j \in DOMAIN A[k] /\ B[k][j] = A[k][j]
              /\ i - n \in DOMAIN A[b] /\ B[h][i] = A[b][i - n]
  <2>1. h # b /\ k # b
    BY <1>6
  <2> QED
    BY <1>9, <2>1 DEF Distinct
<1> QED
  BY <1>6, <1>7, <1>8, <1>9

\* Emptying a sequence, as the destructor does.
LEMMA DistinctDrop ==
  ASSUME NEW H, NEW A, DOMAIN A = H, NEW a \in H, Distinct(A)
  PROVE  Distinct([A EXCEPT ![a] = <<>>])
BY DEF Distinct

\* The contents of all places.
Contents == [h \in Holders |-> Holding(h)]

\* No message occurs twice, and each was submitted.
PlacesInv ==
  /\ Distinct(Contents)
  /\ \A h \in Holders : \A m \in ToSet(Contents[h]) : m[2] <= sent[m[1]]

\* What is in which place.
PlacesHold ==
  /\ Contents \in [Holders -> Seq(Held)]
  /\ \A o \in Objects : /\ <<"outbox", o>> \in Holders /\ Contents[<<"outbox", o>>] = outbox[o]
                        /\ <<"got", o>> \in Holders /\ Contents[<<"got", o>>] = got[o]
  /\ \A r \in Roles : <<"queue", r>> \in Holders /\ Contents[<<"queue", r>>] = queue[r]

\* The places hold what they are named after.
LEMMA PlacesAre == TypeOK => PlacesHold
<1> SUFFICES ASSUME TypeOK PROVE PlacesHold
  OBVIOUS
<1>1. \A o \in Objects : /\ <<"outbox", o>> \in Holders /\ Holding(<<"outbox", o>>) = outbox[o]
                         /\ <<"got", o>> \in Holders /\ Holding(<<"got", o>>) = got[o]
  BY DEF Holders, Holding
<1>2. \A r \in Roles : <<"queue", r>> \in Holders /\ Holding(<<"queue", r>>) = queue[r]
  BY DEF Holders, Holding
<1>3. \A h \in Holders : \/ \E o \in Objects : h = <<"outbox", o>> \/ h = <<"got", o>>
                         \/ \E r \in Roles : h = <<"queue", r>>
  BY DEF Holders
<1>4. /\ \A o \in Objects : outbox[o] \in Seq(Held) /\ got[o] \in Seq(Held)
      /\ \A r \in Roles : queue[r] \in Seq(Held)
  BY DEF TypeOK, Held
<1>5. \A h \in Holders : Holding(h) \in Seq(Held)
  BY <1>1, <1>2, <1>3, <1>4
<1> QED
  BY <1>1, <1>2, <1>5 DEF Contents, PlacesHold

\* Each place is one of these.
LEMMA EachPlace ==
  ASSUME NEW h \in Holders
  PROVE  \/ \E o \in Objects : h = <<"outbox", o>> \/ h = <<"got", o>>
         \/ \E r \in Roles : h = <<"queue", r>>
BY DEF Holders

\* The contents after a step that changes the outbox of o.
LEMMA OutboxChanges ==
  ASSUME TypeOK, TypeOK', NEW o \in Objects, NEW q,
         outbox' = [outbox EXCEPT ![o] = q], UNCHANGED <<queue, got>>
  PROVE  Contents' = [Contents EXCEPT ![<<"outbox", o>>] = q]
<1> DEFINE a == <<"outbox", o>>
           B == [Contents EXCEPT ![a] = q]
<1>p. PlacesHold /\ PlacesHold'
  BY PlacesAre, PTL
<1>1. outbox'[o] = q /\ \A p \in Objects \ {o} : outbox'[p] = outbox[p]
  BY DEF TypeOK
<1>2. \A h \in Holders : Contents'[h] = B[h]
  <2> SUFFICES ASSUME NEW h \in Holders PROVE Contents'[h] = B[h]
    OBVIOUS
  <2>1. CASE \E p \in Objects : h = <<"outbox", p>>
    <3>1. PICK p \in Objects : h = <<"outbox", p>>
      BY <2>1
    <3>2. Contents'[h] = outbox'[p] /\ Contents[h] = outbox[p] /\ (h = a <=> p = o)
      BY <3>1, <1>p DEF PlacesHold
    <3> QED
      BY <3>2, <1>1, <1>p DEF PlacesHold
  <2>2. CASE \/ \E p \in Objects : h = <<"got", p>>
             \/ \E r \in Roles : h = <<"queue", r>>
    <3>1. h # a
      BY <2>2
    <3>2. Contents'[h] = Contents[h]
      <4>1. ASSUME NEW p \in Objects, h = <<"got", p>> PROVE Contents'[h] = Contents[h]
        BY <4>1, <1>p DEF PlacesHold
      <4>2. ASSUME NEW r \in Roles, h = <<"queue", r>> PROVE Contents'[h] = Contents[h]
        BY <4>2, <1>p DEF PlacesHold
      <4> QED
        BY <2>2, <4>1, <4>2
    <3> QED
      BY <3>1, <3>2, <1>p DEF PlacesHold
  <2> QED
    BY <2>1, <2>2, EachPlace
<1>3. Contents' \in [Holders -> Seq(Held)]
  BY <1>p DEF PlacesHold
<1>4. DOMAIN B = Holders
  BY <1>p DEF PlacesHold
<1> QED
  BY <1>2, <1>3, <1>4

\* The contents after SendMessages.
LEMMA OutboxSwaps ==
  ASSUME TypeOK, TypeOK', NEW o \in Objects, NEW r \in Roles,
         outbox' = [outbox EXCEPT ![o] = queue[r]], queue' = [queue EXCEPT ![r] = outbox[o]],
         UNCHANGED got
  PROVE  Contents' = [Contents EXCEPT ![<<"outbox", o>>] = Contents[<<"queue", r>>],
                                      ![<<"queue", r>>] = Contents[<<"outbox", o>>]]
<1> DEFINE a == <<"outbox", o>>
           b == <<"queue", r>>
           B == [Contents EXCEPT ![a] = Contents[b], ![b] = Contents[a]]
<1>p. PlacesHold /\ PlacesHold'
  BY PlacesAre, PTL
<1>1. /\ outbox'[o] = queue[r] /\ \A p \in Objects \ {o} : outbox'[p] = outbox[p]
      /\ queue'[r] = outbox[o] /\ \A s \in Roles \ {r} : queue'[s] = queue[s]
  BY DEF TypeOK
<1>2. a \in Holders /\ b \in Holders /\ a # b /\ DOMAIN Contents = Holders
      /\ Contents[a] = outbox[o] /\ Contents[b] = queue[r]
  BY <1>p DEF PlacesHold
<1>3. \A h \in Holders : Contents'[h] = B[h]
  <2> SUFFICES ASSUME NEW h \in Holders PROVE Contents'[h] = B[h]
    OBVIOUS
  <2>1. CASE h = a
    BY <2>1, <1>1, <1>2, <1>p DEF PlacesHold
  <2>2. CASE h = b
    BY <2>2, <1>1, <1>2, <1>p DEF PlacesHold
  <2>3. CASE h # a /\ h # b
    <3>1. Contents'[h] = Contents[h]
      <4>1. ASSUME NEW p \in Objects, h = <<"outbox", p>> PROVE Contents'[h] = Contents[h]
        <5>1. p # o /\ Contents'[h] = outbox'[p] /\ Contents[h] = outbox[p]
          BY <2>3, <4>1, <1>p DEF PlacesHold
        <5> QED
          BY <5>1, <1>1
      <4>2. ASSUME NEW p \in Objects, h = <<"got", p>> PROVE Contents'[h] = Contents[h]
        BY <4>2, <1>p DEF PlacesHold
      <4>3. ASSUME NEW s \in Roles, h = <<"queue", s>> PROVE Contents'[h] = Contents[h]
        <5>1. s # r /\ Contents'[h] = queue'[s] /\ Contents[h] = queue[s]
          BY <2>3, <4>3, <1>p DEF PlacesHold
        <5> QED
          BY <5>1, <1>1
      <4> QED
        BY <4>1, <4>2, <4>3, EachPlace
    <3>2. B[h] = Contents[h]
      BY <2>3, <1>2
    <3> QED
      BY <3>1, <3>2
  <2> QED
    BY <2>1, <2>2, <2>3
<1>4. Contents' \in [Holders -> Seq(Held)]
  BY <1>p DEF PlacesHold
<1>5. DOMAIN B = Holders
  BY <1>2
<1> QED
  BY <1>3, <1>4, <1>5

\* The contents after ReceiveMessages.
LEMMA QueueFetched ==
  ASSUME TypeOK, TypeOK', NEW o \in Objects, NEW r \in Roles,
         got' = [got EXCEPT ![o] = got[o] \o queue[r]], queue' = [queue EXCEPT ![r] = <<>>],
         UNCHANGED outbox
  PROVE  Contents' = [Contents EXCEPT
                       ![<<"got", o>>] = Contents[<<"got", o>>] \o Contents[<<"queue", r>>],
                       ![<<"queue", r>>] = <<>>]
<1> DEFINE a == <<"got", o>>
           b == <<"queue", r>>
           both == got[o] \o queue[r]
           B == [Contents EXCEPT ![a] = Contents[a] \o Contents[b], ![b] = <<>>]
<1>p. PlacesHold /\ PlacesHold'
  BY PlacesAre, PTL
<1>1. /\ got'[o] = both /\ \A p \in Objects \ {o} : got'[p] = got[p]
      /\ queue'[r] = <<>> /\ \A s \in Roles \ {r} : queue'[s] = queue[s]
  BY DEF TypeOK
<1>2. /\ a \in Holders /\ b \in Holders /\ a # b /\ DOMAIN Contents = Holders
      /\ Contents[a] \o Contents[b] = both
  BY <1>p DEF PlacesHold
<1>3. DOMAIN B = Holders /\ B = [h \in Holders |-> B[h]] /\ B[a] = both /\ B[b] = <<>>
      /\ \A h \in Holders : h # a /\ h # b => B[h] = Contents[h]
  BY <1>2
<1> HIDE DEF B, both
<1>4. \A h \in Holders : Contents'[h] = B[h]
  <2> SUFFICES ASSUME NEW h \in Holders PROVE Contents'[h] = B[h]
    OBVIOUS
  <2>1. CASE h = a
    BY <2>1, <1>1, <1>3, <1>p DEF PlacesHold
  <2>2. CASE h = b
    BY <2>2, <1>1, <1>3, <1>p DEF PlacesHold
  <2>3. CASE h # a /\ h # b
    <3>1. Contents'[h] = Contents[h]
      <4>1. ASSUME NEW p \in Objects, h = <<"got", p>> PROVE Contents'[h] = Contents[h]
        <5>1. p # o /\ Contents'[h] = got'[p] /\ Contents[h] = got[p]
          BY <2>3, <4>1, <1>p DEF PlacesHold
        <5> QED
          BY <5>1, <1>1
      <4>2. ASSUME NEW p \in Objects, h = <<"outbox", p>> PROVE Contents'[h] = Contents[h]
        BY <4>2, <1>p DEF PlacesHold
      <4>3. ASSUME NEW s \in Roles, h = <<"queue", s>> PROVE Contents'[h] = Contents[h]
        <5>1. s # r /\ Contents'[h] = queue'[s] /\ Contents[h] = queue[s]
          BY <2>3, <4>3, <1>p DEF PlacesHold
        <5> QED
          BY <5>1, <1>1
      <4> QED
        BY <4>1, <4>2, <4>3, EachPlace
    <3> QED
      BY <2>3, <1>3, <3>1
  <2> QED
    BY <2>1, <2>2, <2>3
<1>5. Contents' \in [Holders -> Seq(Held)]
  BY <1>p DEF PlacesHold
<1>6. Contents' = B
  BY <1>3, <1>4, <1>5
<1> QED
  BY <1>6 DEF B

\* A step that leaves queues and counters alone, or empties an outbox.
LEMMA PlacesStay ==
  ASSUME TypeOK, TypeOK', PlacesInv, NEW o \in Objects, UNCHANGED <<queue, got, sent>>,
         outbox' \in {outbox, [outbox EXCEPT ![o] = <<>>]}
  PROVE  PlacesInv'
<1>1. PlacesHold
  BY PlacesAre
<1>2. CASE outbox' = outbox
  <2>1. Contents' = Contents
    BY <1>2 DEF Contents, Holding
  <2> QED
    BY <2>1 DEF PlacesInv
<1>3. CASE outbox' = [outbox EXCEPT ![o] = <<>>]
  <2> DEFINE a == <<"outbox", o>>
             none == <<>>
  <2>1. Contents' = [Contents EXCEPT ![a] = none]
    BY <1>3, OutboxChanges
  <2>2. DOMAIN Contents = Holders /\ a \in Holders
    BY <1>1 DEF PlacesHold
  <2>3. ToSet(none) = {}
    BY DEF ToSet
  <2> HIDE DEF a, none
  <2>4. Distinct([Contents EXCEPT ![a] = none])
    BY <2>2, DistinctDrop DEF PlacesInv, none
  <2>5. \A h \in Holders : Contents'[h] \in {Contents[h], none}
    BY <2>1, <2>2
  <2>6. \A h \in Holders : \A m \in ToSet(Contents'[h]) : m[2] <= sent'[m[1]]
    BY <2>3, <2>5 DEF PlacesInv
  <2> QED
    BY <2>1, <2>4, <2>6 DEF PlacesInv
<1> QED
  BY <1>2, <1>3

\* Every step keeps each message in one place.
LEMMA PlacesStep == TypeOK /\ TypeOK' /\ PlacesInv /\ [Next]_vars => PlacesInv'
<1> SUFFICES ASSUME TypeOK, TypeOK', PlacesInv, [Next]_vars PROVE PlacesInv'
  OBVIOUS
<1>p. PlacesHold
  BY PlacesAre
<1>d. DOMAIN Contents = Holders /\ Contents \in [Holders -> Seq(Held)]
  BY <1>p DEF PlacesHold
<1>1. CASE UNCHANGED vars \/ InsertElsewhere \/ InsertedElsewhere
  <2>1. UNCHANGED <<outbox, got, queue, sent>>
    BY <1>1 DEF vars, InsertElsewhere, InsertedElsewhere
  <2>2. Contents' = Contents
    BY <2>1 DEF Contents, Holding
  <2> QED
    BY <2>1, <2>2 DEF PlacesInv
<1>2. ASSUME NEW o \in Objects,
             \/ Construct(o) \/ Detect(o) \/ EnsureToServer(o) \/ InsertToServer(o)
             \/ EnsureToClient(o) \/ Delete(o)
      PROVE  PlacesInv'
  <2>1. /\ UNCHANGED <<queue, got, sent>>
        /\ outbox' \in {outbox, [outbox EXCEPT ![o] = <<>>]}
    BY <1>2 DEF Construct, Detect, Looks, EnsureToServer, InsertToServer, EnsureToClient, Delete
  <2> QED
    BY <2>1, PlacesStay
<1>3. ASSUME NEW o \in Objects, Submit(o) PROVE PlacesInv'
  <2> DEFINE a == <<"outbox", o>>
             x == <<o, sent[o] + 1>>
  <2>1. /\ sent' = [sent EXCEPT ![o] = sent[o] + 1]
        /\ outbox' = [outbox EXCEPT ![o] = Append(outbox[o], x)]
        /\ UNCHANGED <<queue, got>>
    BY <1>3 DEF Submit, TypeOK
  <2>2. sent \in [Objects -> Nat]
    BY InprocessRolesAssumption DEF TypeOK
  <2>3. x \in Held /\ x[1] = o /\ x[2] = sent[o] + 1
    BY <2>2 DEF Held
  <2>4. a \in Holders /\ Contents[a] = outbox[o] /\ outbox[o] \in Seq(Held)
    BY <1>p DEF PlacesHold, TypeOK, Held
  <2>5. Contents' = [Contents EXCEPT ![a] = Append(Contents[a], x)]
    BY <2>1, <2>4, OutboxChanges
  <2> HIDE DEF a, x
  <2>6. \A h \in Holders : ToSet(Contents[h]) \subseteq Held
    BY <1>d DEF ToSet
  <2>7. \A h \in Holders : x \notin ToSet(Contents[h])
    BY <2>2, <2>3 DEF PlacesInv
  <2>8. Distinct(Contents')
    <3>1. \A h \in Holders : \A i \in DOMAIN Contents[h] : Contents[h][i] # x
      BY <2>7 DEF ToSet
    <3> QED
      BY <1>d, <2>3, <2>4, <2>5, <3>1, DistinctPush DEF PlacesInv
  <2>9. \A h \in Holders : \A m \in ToSet(Contents'[h]) : m \in ToSet(Contents[h]) \/ m = x
    BY <1>d, <2>3, <2>4, <2>5, ElementsPushed
  <2>10. \A m \in Held : m[1] \in Objects /\ m[2] \in Nat
    BY DEF Held
  <2>11. \A p \in Objects : sent'[p] \in Nat /\ sent[p] \in Nat /\ sent[p] <= sent'[p]
    BY <2>1, <2>2
  <2>12. sent'[o] = sent[o] + 1
    BY <2>1, <2>2
  <2>13. \A h \in Holders : \A m \in ToSet(Contents'[h]) : m[2] <= sent'[m[1]]
    <3> SUFFICES ASSUME NEW h \in Holders, NEW m \in ToSet(Contents'[h]) PROVE m[2] <= sent'[m[1]]
      OBVIOUS
    <3>1. CASE m = x
      BY <3>1, <2>2, <2>3, <2>12
    <3>2. CASE m \in ToSet(Contents[h])
      <4>1. m[2] <= sent[m[1]] /\ m[1] \in Objects /\ m[2] \in Nat
        BY <3>2, <2>6, <2>10 DEF PlacesInv
      <4> QED
        BY <4>1, <2>11
    <3> QED
      BY <3>1, <3>2, <2>9
  <2> QED
    BY <2>8, <2>13 DEF PlacesInv
<1>4. ASSUME NEW o \in Objects, SendMessages(o) PROVE PlacesInv'
  <2> DEFINE r == SendQueueOf(o)
             a == <<"outbox", o>>
             b == <<"queue", r>>
  <2>1. /\ queue' = [queue EXCEPT ![r] = outbox[o]]
        /\ outbox' = [outbox EXCEPT ![o] = queue[r]]
        /\ UNCHANGED <<got, sent>> /\ pc[o] = "alive"
    BY <1>4 DEF SendMessages
  <2>2. r \in Roles
    BY <2>1, OppositeIsOther DEF SendQueueOf, TypeOK
  <2> HIDE DEF r
  <2>3. a \in Holders /\ b \in Holders /\ a # b
    BY <1>p, <2>2 DEF PlacesHold
  <2>4. Contents' = [Contents EXCEPT ![a] = Contents[b], ![b] = Contents[a]]
    BY <2>1, <2>2, OutboxSwaps
  <2> HIDE DEF a, b
  <2>5. Distinct(Contents')
    BY <1>d, <2>3, <2>4, DistinctSwap DEF PlacesInv
  <2>6. \A h \in Holders : \E k \in Holders : Contents'[h] = Contents[k]
    BY <1>d, <2>3, <2>4
  <2>7. \A h \in Holders : \A m \in ToSet(Contents'[h]) : m[2] <= sent'[m[1]]
    BY <2>1, <2>6 DEF PlacesInv
  <2> QED
    BY <2>5, <2>7 DEF PlacesInv
<1>5. ASSUME NEW o \in Objects, ReceiveMessages(o) PROVE PlacesInv'
  <2> DEFINE r == role[o]
             a == <<"got", o>>
             b == <<"queue", r>>
             none == <<>>
  <2>1. /\ got' = [got EXCEPT ![o] = got[o] \o queue[r]]
        /\ queue' = [queue EXCEPT ![r] = none]
        /\ UNCHANGED <<outbox, sent>> /\ pc[o] = "alive"
    BY <1>5 DEF ReceiveMessages
  <2>2. r \in Roles
    BY <2>1 DEF TypeOK
  <2> HIDE DEF r
  <2>3. a \in Holders /\ b \in Holders /\ a # b
    BY <1>p, <2>2 DEF PlacesHold
  <2>4. Contents' = [Contents EXCEPT ![a] = Contents[a] \o Contents[b], ![b] = none]
    BY <2>1, <2>2, QueueFetched
  <2>5. ToSet(none) = {}
    BY DEF ToSet
  <2> HIDE DEF a, b
  <2>6. Distinct(Contents')
    BY <1>d, <2>3, <2>4, DistinctMove DEF PlacesInv
  <2> HIDE DEF none
  <2>7. Contents[a] \in Seq(Held) /\ Contents[b] \in Seq(Held)
    BY <1>d, <2>3
  <2>8. ToSet(Contents[a] \o Contents[b]) = ToSet(Contents[a]) \union ToSet(Contents[b])
    BY <2>7, ElementsJoined
  <2> DEFINE both == Contents[a] \o Contents[b]
  <2> HIDE DEF both
  <2>9. \A h \in Holders : Contents'[h] \in {Contents[h], both, none}
    BY <1>d, <2>3, <2>4 DEF both
  <2>10. \A h \in Holders : \A m \in ToSet(Contents'[h]) :
           \E k \in Holders : m \in ToSet(Contents[k])
    BY <2>3, <2>5, <2>8, <2>9 DEF both
  <2>11. \A h \in Holders : \A m \in ToSet(Contents'[h]) : m[2] <= sent'[m[1]]
    BY <2>1, <2>10 DEF PlacesInv
  <2> QED
    BY <2>6, <2>11 DEF PlacesInv
<1> QED
  BY <1>1, <1>2, <1>3, <1>4, <1>5 DEF Next

\* No message is ever in two places or twice in one: none is fetched twice
\* by any objects, although unsent batches come back from the static queues,
\* also to objects that did not submit them.
THEOREM MessagesNotDoubled == Spec => []NothingDoubled
<1>1. Init => PlacesInv
  <2> SUFFICES ASSUME Init PROVE PlacesInv
    OBVIOUS
  <2>1. \A h \in Holders : Holding(h) = <<>>
    <3>1. \A o \in Objects : outbox[o] = <<>> /\ got[o] = <<>>
      BY DEF Init
    <3>2. \A r \in Roles : queue[r] = <<>>
      BY DEF Init
    <3> QED
      BY <3>1, <3>2, EachPlace DEF Holding
  <2>2. DOMAIN Contents = Holders /\ \A h \in Holders : Contents[h] = <<>>
    BY <2>1 DEF Contents
  <2>3. Distinct(Contents)
    BY <2>2 DEF Distinct
  <2>4. \A h \in Holders : ToSet(Contents[h]) = {}
    BY <2>2 DEF ToSet
  <2> QED
    BY <2>3, <2>4 DEF PlacesInv
<1>2. PlacesInv => NothingDoubled
  <2>1. DOMAIN Contents = Holders /\ \A h \in Holders : Contents[h] = Holding(h)
    BY DEF Contents
  <2> QED
    BY <2>1 DEF PlacesInv, Distinct, NothingDoubled
<1> QED
  BY <1>1, <1>2, PlacesStep, TypeCorrect, PTL DEF Spec

-----------------------------------------------------------------------------
(* A careful application brings one Server and one Client together.        *)

\* The objects whose construction has begun, and those it has ended for.
Begun == {o \in Objects : pc[o] # "unborn"}

Built == Alive \union Dead

\* With a careful application at most two objects are ever constructed, one
\* after the other; the first is the Server and the second the Client.
CareInv ==
  careful =>
    /\ \A o \in Objects : asked[o] = AutoRole
    /\ \A o, p \in Constructing : o = p
    /\ elsewhere => Constructing = {}
    /\ \A o, p, q \in Begun : o = p \/ o = q \/ p = q
    /\ \A o \in Constructing : before[o] = Built
    /\ \A o \in Objects : o \notin before[o]
    /\ \A o, p \in Begun : o # p => (o \in before[p] <=> p \notin before[o])
    /\ \A o \in Objects : pc[o] \notin {"unborn", "detect"} =>
         role[o] = IF before[o] = {} THEN Server ELSE Client

\* A set of which any three elements are not all different, but two are, has
\* two elements.
LEMMA TwoElements ==
  ASSUME NEW S, NEW a \in S, NEW b \in S, a # b, \A x, y, z \in S : x = y \/ x = z \/ y = z
  PROVE  Cardinality(S) = 2
<1>1. IsFiniteSet({a}) /\ Cardinality({a}) = 1
  BY FS_Singleton
<1>2. Cardinality({a} \union {b}) = 2
  BY <1>1, FS_AddElement
<1>3. S = {a} \union {b}
  OBVIOUS
<1> QED
  BY <1>2, <1>3

\* The two objects that are there have different roles.
LEMMA RolesDifferWithCare ==
  ASSUME TypeOK, RolesInv, CareInv, careful, NEW o \in Objects, NEW p \in Objects, o # p,
         pc[o] \notin {"unborn", "detect"}, pc[p] \notin {"unborn", "detect"}
  PROVE  role[o] # role[p]
<1>1. \A x \in Objects : \A y \in before[x] : y \in Begun
  BY DEF RolesInv, TypeOK, Begun
<1>2. o \in Begun /\ p \in Begun
  BY DEF Begun
<1>3. (o \in before[p] => before[o] = {}) /\ (p \in before[o] => before[p] = {})
  BY <1>1, <1>2 DEF CareInv
<1>4. o \in before[p] \/ p \in before[o]
  BY <1>2 DEF CareInv
<1>5. \A x \in {o, p} : role[x] = IF before[x] = {} THEN Server ELSE Client
  BY DEF CareInv
<1>6. CASE o \in before[p]
  <2>1. before[o] = {} /\ before[p] # {}
    BY <1>3, <1>6
  <2> QED
    BY <1>5, <2>1, InprocessRolesAssumption
<1>7. CASE p \in before[o]
  <2>1. before[p] = {} /\ before[o] # {}
    BY <1>3, <1>7
  <2> QED
    BY <1>5, <2>1, InprocessRolesAssumption
<1> QED
  BY <1>4, <1>6, <1>7

\* A step preserves CareInv when no object begins or completes its
\* construction or chooses its role.
LEMMA CareStays ==
  ASSUME TypeOK, CareInv, UNCHANGED <<careful, asked, role, before>>,
         elsewhere' => elsewhere \/ ~careful \/ Constructing = {},
         \A o \in Objects : /\ pc'[o] = "unborn" <=> pc[o] = "unborn"
                            /\ pc'[o] = "detect" <=> pc[o] = "detect"
                            /\ pc'[o] \in {"alive", "dead"} <=> pc[o] \in {"alive", "dead"},
         pc' \in [Objects -> PCs]
  PROVE  CareInv'
<1>1. Begun' = Begun
  BY DEF Begun
<1>2. Built' = Built
  BY DEF Built, Alive, Dead
<1>3. Constructing = {o \in Objects : pc[o] \notin {"unborn", "alive", "dead"}}
  BY DEF Constructing, TypeOK, PCs
<1>4. Constructing' = {o \in Objects : pc'[o] \notin {"unborn", "alive", "dead"}}
  BY DEF Constructing, PCs
<1>5. Constructing' = Constructing
  BY <1>3, <1>4
<1> QED
  BY <1>1, <1>2, <1>5 DEF CareInv

\* Every step preserves what a careful application relies on.
LEMMA CareStep == TypeOK /\ TypeOK' /\ MapsInv /\ RolesInv /\ CareInv /\ [Next]_vars => CareInv'
<1> SUFFICES ASSUME TypeOK, TypeOK', MapsInv, RolesInv, CareInv, [Next]_vars PROVE CareInv'
  OBVIOUS
<1>b. \A x \in Objects : \A y \in before[x] : pc[y] \in {"alive", "dead"} /\ y \in Objects
  BY DEF RolesInv, TypeOK
<1>1. CASE UNCHANGED vars \/ InsertElsewhere \/ InsertedElsewhere
  <2>1. /\ UNCHANGED <<careful, asked, role, before, pc>>
        /\ elsewhere' => elsewhere \/ ~careful \/ Constructing = {}
    BY <1>1 DEF vars, InsertElsewhere, InsertedElsewhere
  <2> QED
    BY <2>1, CareStays DEF TypeOK
<1>2. ASSUME NEW o \in Objects, Construct(o) PROVE CareInv'
  <2>1. /\ UNCHANGED <<careful, asked, role>>
        /\ pc[o] = "unborn" /\ pc'[o] = "detect" /\ \A p \in Objects \ {o} : pc'[p] = pc[p]
        /\ before'[o] = Built /\ \A p \in Objects \ {o} : before'[p] = before[p]
        /\ careful => Constructing = {} /\ ~elsewhere' /\ Cardinality(Built) < 2
    BY <1>2 DEF Construct, Moves, TypeOK, Built
  <2> SUFFICES ASSUME careful PROVE CareInv'
    BY <2>1 DEF CareInv
  <2>2. /\ Begun' = Begun \union {o} /\ o \notin Begun /\ Built' = Built
        /\ Constructing' = Constructing \union {o} /\ Constructing = {}
    BY <2>1 DEF Begun, Built, Constructing, Alive, Dead
  <2>3. Begun = Built
    BY <2>2 DEF Begun, Built, Constructing, Alive, Dead, TypeOK, PCs
  <2>4. \A p, q \in Begun : p = q
    <3> SUFFICES ASSUME NEW p \in Begun, NEW q \in Begun, p # q PROVE FALSE
      OBVIOUS
    <3>1. Cardinality(Built) = 2
      BY <2>3, TwoElements DEF CareInv
    <3> QED
      BY <3>1, <2>1
  <2>5. \A p, q, r \in Begun' : p = q \/ p = r \/ q = r
    BY <2>2, <2>4
  <2>6. \A p \in Begun : p \in before'[o] /\ o \notin before'[p] /\ p # o
    BY <1>b, <2>1, <2>2, <2>3 DEF Begun
  <2>7. \A p \in Objects : p \notin before'[p]
    BY <2>1, <2>2, <2>3 DEF CareInv
  <2>8. \A p, q \in Begun' : p # q => (p \in before'[q] <=> q \notin before'[p])
    BY <2>2, <2>4, <2>6
  <2>9. \A p \in Objects : pc'[p] \notin {"unborn", "detect"} =>
          role'[p] = IF before'[p] = {} THEN Server ELSE Client
    BY <2>1 DEF CareInv
  <2> QED
    BY <2>1, <2>2, <2>5, <2>7, <2>8, <2>9 DEF CareInv
<1>3. ASSUME NEW o \in Objects, Detect(o) PROVE CareInv'
  <2>1. /\ pc[o] = "detect" /\ pc'[o] = "toServer"
        /\ UNCHANGED <<careful, asked, before, elsewhere>>
        /\ \A p \in Objects \ {o} : role'[p] = role[p] /\ pc'[p] = pc[p]
    BY <1>3 DEF Detect, Looks, Moves, TypeOK
  <2>2. PICK found \in Found : role'[o] = IF role[o] # AutoRole THEN role[o]
                                          ELSE IF found THEN Client ELSE Server
    BY <1>3 DEF Detect, Looks, TypeOK
  <2> SUFFICES ASSUME careful PROVE CareInv'
    BY <2>1 DEF CareInv
  <2>3. Begun' = Begun /\ Built' = Built /\ Constructing' = Constructing
    BY <2>1 DEF Begun, Built, Constructing, Alive, Dead
  <2>4. role[o] = AutoRole
    BY <2>1 DEF CareInv, RolesInv
  <2>5. o \in Constructing /\ before[o] = Built /\ ~elsewhere
    BY <2>1 DEF CareInv, Constructing
  <2>6. \A p \in Objects : pc[p] = "inserting" \/ pc[p] \in Passed => p \in Built
    BY <2>1, <2>5 DEF CareInv, Constructing, Passed, Built, Alive, Dead
  <2>7. found <=> Built # {}
    <3>1. \A p \in Objects : pc[p] # "inserting"
      BY <2>6 DEF Built, Alive, Dead
    <3>2. found <=> Server \in exists
      BY <3>1, <2>2, <2>5 DEF Found, Unlocked
    <3>3. Server \in exists <=> Built # {}
      BY <2>6 DEF MapsInv, Passed, Built, Alive, Dead
    <3> QED
      BY <3>2, <3>3
  <2>8. role'[o] = IF before[o] = {} THEN Server ELSE Client
    BY <2>2, <2>4, <2>5, <2>7
  <2>9. \A p \in Objects : pc'[p] \notin {"unborn", "detect"} =>
          role'[p] = IF before'[p] = {} THEN Server ELSE Client
    BY <2>1, <2>8 DEF CareInv
  <2> QED
    BY <2>1, <2>3, <2>9 DEF CareInv
<1>4. ASSUME NEW o \in Objects, EnsureToClient(o) PROVE CareInv'
  <2>1. /\ pc[o] = "toClient" /\ pc'[o] = "alive" /\ \A p \in Objects \ {o} : pc'[p] = pc[p]
        /\ UNCHANGED <<careful, asked, role, before>>
    BY <1>4 DEF EnsureToClient, Moves, TypeOK
  <2> SUFFICES ASSUME careful PROVE CareInv'
    BY <2>1 DEF CareInv
  <2>2. Begun' = Begun
    BY <2>1 DEF Begun
  <2>3. Constructing' = {}
    BY <2>1 DEF CareInv, Constructing
  <2>4. \A p \in Objects : pc'[p] \notin {"unborn", "detect"} => pc[p] \notin {"unborn", "detect"}
    BY <2>1
  <2> QED
    BY <2>1, <2>2, <2>3, <2>4 DEF CareInv
<1>5. ASSUME NEW o \in Objects,
             \/ EnsureToServer(o) \/ InsertToServer(o) \/ Delete(o)
             \/ Submit(o) \/ SendMessages(o) \/ ReceiveMessages(o)
      PROVE  CareInv'
  <2>1. UNCHANGED <<careful, asked, role, before, elsewhere>>
    BY <1>5 DEF EnsureToServer, InsertToServer, Delete, Submit, SendMessages, ReceiveMessages
  <2>2. \A p \in Objects : /\ pc'[p] = "unborn" <=> pc[p] = "unborn"
                           /\ pc'[p] = "detect" <=> pc[p] = "detect"
                           /\ pc'[p] \in {"alive", "dead"} <=> pc[p] \in {"alive", "dead"}
    BY <1>5 DEF EnsureToServer, InsertToServer, Delete, Submit, SendMessages, ReceiveMessages,
                Moves, TypeOK
  <2>3. pc' \in [Objects -> PCs]
    BY DEF TypeOK
  <2> QED
    BY <2>1, <2>2, <2>3, CareStays
<1> QED
  BY <1>1, <1>2, <1>3, <1>4, <1>5 DEF Next

\* What a careful application relies on holds in every reachable state.
LEMMA CareInvariant == Spec => []CareInv
<1>1. Init => CareInv
  BY DEF Init, CareInv, Constructing, Begun
<1> QED
  BY <1>1, CareStep, TypeCorrect, MapsInvariant, RolesInvariant, PTL DEF Spec

\* The refinement mapping: the roles of the objects that live.
MeetingRoles == [o \in Objects |-> IF o \in Alive THEN role[o] ELSE "none"]

\* The objects present at the meeting are those that live.
LEMMA PresentAreAlive == TypeOK => Meeting!Present = Alive
BY InprocessRolesAssumption DEF Meeting!Present, Alive, TypeOK, Roles

\* Every step of a careful application is one of Rendezvous, or changes
\* nothing there.
LEMMA MeetingStep ==
  TypeOK /\ RolesInv /\ CareInv /\ careful /\ Next
    => Meeting!Next \/ UNCHANGED Meeting!meetingVars
<1> SUFFICES ASSUME TypeOK, RolesInv, CareInv, careful, Next
             PROVE  Meeting!Next \/ UNCHANGED Meeting!meetingVars
  OBVIOUS
<1> DEFINE places == [o \in Objects |-> "queues"]
<1>1. ASSUME MeetingRoles' = MeetingRoles PROVE UNCHANGED Meeting!meetingVars
  BY <1>1 DEF Meeting!meetingVars, MeetingRoles
<1>2. ASSUME NEW o \in Objects, EnsureToClient(o) PROVE Meeting!Next
  <2>1. /\ pc[o] = "toClient" /\ pc'[o] = "alive" /\ \A p \in Objects \ {o} : pc'[p] = pc[p]
        /\ role' = role
    BY <1>2 DEF EnsureToClient, Moves, TypeOK
  <2>2. Alive' = Alive \union {o} /\ o \notin Alive
    BY <2>1 DEF Alive
  <2>3. role[o] \in {Server, Client}
    BY <2>1 DEF TypeOK, Roles
  <2>4. \A p \in Alive : MeetingRoles[p] # role[o] /\ places[p] = "queues"
    BY <2>1, <2>2, RolesDifferWithCare DEF MeetingRoles, Alive
  <2>5. MeetingRoles' = [MeetingRoles EXCEPT ![o] = role[o]]
    BY <2>1, <2>2 DEF MeetingRoles
  <2>6. places = [places EXCEPT ![o] = "queues"]
    OBVIOUS
  <2>7. Meeting!Join(o)
    BY <2>2, <2>3, <2>4, <2>5, <2>6, PresentAreAlive DEF Meeting!Join, MeetingRoles
  <2> QED
    BY <2>7 DEF Meeting!Next
<1>3. ASSUME NEW o \in Objects, Delete(o) PROVE Meeting!Next
  <2>1. /\ pc[o] = "alive" /\ pc'[o] = "dead" /\ \A p \in Objects \ {o} : pc'[p] = pc[p]
        /\ role' = role
    BY <1>3 DEF Delete, Moves, TypeOK
  <2>2. Alive' = Alive \ {o} /\ o \in Alive
    BY <2>1 DEF Alive
  <2>3. MeetingRoles' = [MeetingRoles EXCEPT ![o] = "none"]
    BY <2>1, <2>2 DEF MeetingRoles
  <2>4. Meeting!Leave(o)
    BY <2>2, <2>3, PresentAreAlive DEF Meeting!Leave, MeetingRoles
  <2> QED
    BY <2>4 DEF Meeting!Next
<1>4. ASSUME NEW o \in Objects,
             \/ Construct(o) \/ Detect(o) \/ EnsureToServer(o) \/ InsertToServer(o)
             \/ Submit(o) \/ SendMessages(o) \/ ReceiveMessages(o)
      PROVE  MeetingRoles' = MeetingRoles
  <2>1. Alive' = Alive
    BY <1>4 DEF Construct, Detect, Looks, EnsureToServer, InsertToServer, Submit, SendMessages,
                ReceiveMessages, Moves, TypeOK, Alive
  <2>2. \A p \in Alive : role'[p] = role[p]
    BY <1>4 DEF Construct, Detect, Looks, EnsureToServer, InsertToServer, Submit, SendMessages,
                ReceiveMessages, Moves, TypeOK, Alive
  <2> QED
    BY <2>1, <2>2 DEF MeetingRoles
<1>5. ASSUME InsertElsewhere \/ InsertedElsewhere PROVE MeetingRoles' = MeetingRoles
  BY <1>5 DEF InsertElsewhere, InsertedElsewhere, MeetingRoles, Alive
<1> QED
  BY <1>1, <1>2, <1>3, <1>4, <1>5 DEF Next

\* When the application asks for Auto and constructs two objects at most, one
\* after the other, they become one Server and one Client of the same queues:
\* the module implements Rendezvous, however many objects there could be.
THEOREM CarefulObjectsMeet == Spec => RendezvousSpec
<1>1. Init => Meeting!Init
  BY DEF Init, Meeting!Init, Alive
<1>2. TypeOK /\ RolesInv /\ CareInv /\ [Next]_vars
        => [careful => [Meeting!Next]_(Meeting!meetingVars)]_vars
  BY MeetingStep
<1> QED
  BY <1>1, <1>2, TypeCorrect, RolesInvariant, CareInvariant, PTL DEF Spec, RendezvousSpec

=============================================================================
