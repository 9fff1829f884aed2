--------------------------- MODULE SqliteInitProofs ---------------------------
(***************************************************************************)
(* Proofs about SqliteInit, for any number of processes and any roles      *)
(* asked for: roles, files and failures whatever the application does, and *)
(* the refinement of Rendezvous by careful applications.                   *)
(***************************************************************************)
EXTENDS SqliteInit, FiniteSetTheorems, TLAPS

-----------------------------------------------------------------------------
(* The inductive invariant.                                                *)

\* The places before sqlite3_open.
Early == {"unborn", "exists", "create", "mkdir", "open"}

\* The objects that have opened a file.
Connected == {o \in Objects : conn[o] # 0}

\* What an object has at each place of its life.
LifeInv ==
  \A o \in Objects :
    /\ pc[o] \in Early \union {"nofolder"} => conn[o] = 0
    /\ pc[o] \in Early \union {"look", "nofolder"} => made[o] = 0
    /\ pc[o] \in Early \union {"look"} => role[o] = asked[o]
    /\ conn[o] = 0 => made[o] = 0
    /\ pc[o] \in {"look", "tables", "prepare", "alive", "closed", "dead", "failed"} => conn[o] # 0
    /\ pc[o] \in {"tables", "prepare", "alive", "closed", "dead", "failed"} => role[o] \in Roles
    /\ pc[o] = "tables" => made[o] < Statements
    /\ made[o] \in 1..(Statements - 1) => pc[o] \in {"tables", "crashed"}
    /\ asked[o] = AutoRole /\ role[o] = Server /\ pc[o] \in {"prepare", "alive"}
         => made[o] = Statements

\* There are as many files as are needed, and each has been made by one
\* object, which has executed all the statements that were executed on it.
FileInv ==
  /\ newest <= Cardinality(Connected)
  /\ \A f \in Files : f > newest => schema[f] = 0
  /\ \A o \in Objects : made[o] > 0 => made[o] = schema[conn[o]]
  /\ \A f \in Files : schema[f] > 0 => \E o \in Objects : conn[o] = f /\ made[o] = schema[f]
  /\ \A o, p \in Objects : made[o] > 0 /\ made[p] > 0 /\ conn[o] = conn[p] => o = p

\* An object whose file has not been removed by another has open what is
\* under the path.
PathInv ==
  \A o \in Objects :
    /\ conn[o] # 0 /\ ~stranded[o] /\ pc[o] # "dead" => conn[o] = path
    /\ stranded[o] => \E p \in Objects \ {o} : role[p] = Server /\ pc[p] = "dead"

\* An object that has met no other is alone, and finds the folder and the
\* schema as it left them, or complete, or as a crash has left them.
AloneInv ==
  /\ \A o \in Constructing : met[o] = {} => Busy \subseteq {o}
  /\ \A o \in Objects : pc[o] = "mkdir" /\ folder => met[o] # {}
  /\ \A o \in Objects : pc[o] = "tables" /\ met[o] = {} => made[o] = schema[conn[o]]
  /\ \A o \in Objects : pc[o] = "prepare" => schema[conn[o]] > 0
  /\ FailsForACause

-----------------------------------------------------------------------------
(* Counting the files.                                                     *)

\* There are at most as many connected objects as objects, and one more when
\* one connects.
LEMMA ConnectedCount ==
  ASSUME NEW c \in [Objects -> Nat], NEW o \in Objects, c[o] = 0, NEW n \in Nat, n # 0
  PROVE  LET before == {p \in Objects : c[p] # 0}
             after == {p \in Objects : [c EXCEPT ![o] = n][p] # 0}
         IN  /\ Cardinality(before) \in Nat
             /\ Cardinality(after) = Cardinality(before) + 1
             /\ Cardinality(after) <= Cardinality(Objects)
             /\ Cardinality(Objects) \in Nat
<1> DEFINE before == {p \in Objects : c[p] # 0}
           after == {p \in Objects : [c EXCEPT ![o] = n][p] # 0}
<1>1. after = before \union {o} /\ o \notin before
  OBVIOUS
<1>2. before \subseteq Objects /\ after \subseteq Objects
  OBVIOUS
<1> HIDE DEF before, after
<1>3. IsFiniteSet(before)
  BY <1>2, SqliteInitAssumption, FS_Subset
<1>4. Cardinality(after) = Cardinality(before) + 1 /\ Cardinality(before) \in Nat
  BY <1>1, <1>3, FS_AddElement, FS_CardinalityType
<1>5. Cardinality(after) <= Cardinality(Objects) /\ Cardinality(Objects) \in Nat
  BY <1>2, SqliteInitAssumption, FS_Subset, FS_CardinalityType
<1> QED
  BY <1>4, <1>5 DEF before, after

-----------------------------------------------------------------------------
(* Types, lives and files.                                                 *)

\* The objects are a number, and a file that is open is one of the files.
LEMMA OpenFiles ==
  /\ Cardinality(Objects) \in Nat
  /\ TypeOK => newest \in Nat /\ \A o \in Objects : conn[o] # 0 => conn[o] \in Files
<1>1. Cardinality(Objects) \in Nat
  BY SqliteInitAssumption, FS_CardinalityType
<1>2. ASSUME TypeOK
      PROVE  newest \in Nat /\ \A o \in Objects : conn[o] # 0 => conn[o] \in Files
  <2>1. newest \in Nat /\ newest <= Cardinality(Objects)
    BY <1>1, <1>2 DEF TypeOK, Files
  <2>2. \A o \in Objects : conn[o] \in 0..newest
    BY <1>2 DEF TypeOK
  <2> QED
    BY <1>1, <2>1, <2>2 DEF Files
<1> QED
  BY <1>1, <1>2

\* Every step preserves types, lives and files.
LEMMA LifeStep ==
  ASSUME TypeOK, LifeInv, FileInv, [Next]_vars
  PROVE  TypeOK' /\ LifeInv' /\ FileInv'
<1> USE SqliteInitAssumption DEF Moves, Early, PCs, Statements, TablesMade, Roles
<1>0. CASE UNCHANGED vars
  <2>1. TypeOK'
    BY <1>0 DEF vars, TypeOK, Alive
  <2>2. LifeInv'
    BY <1>0 DEF vars, LifeInv
  <2>3. FileInv'
    BY <1>0 DEF vars, FileInv, Connected
  <2> QED
    BY <2>1, <2>2, <2>3
<1>1. ASSUME NEW o \in Objects, Construct(o) \/ FindFolder(o) \/ MakeFolder(o)
      PROVE  TypeOK' /\ LifeInv' /\ FileInv'
  <2>1. /\ UNCHANGED <<careful, asked, role, path, newest, schema, made, conn, stranded>>
        /\ folder' \in BOOLEAN /\ met' \in [Objects -> SUBSET Objects]
        /\ pc' \in [Objects -> PCs]
        /\ pc[o] \in Early /\ pc'[o] \in Early \union {"nofolder"}
        /\ \A p \in Objects \ {o} : pc'[p] = pc[p]
    <3>1. CASE Construct(o)
      <4>1. met' \in [Objects -> SUBSET Objects]
        BY <3>1 DEF Construct, TypeOK, Busy, Constructing
      <4> QED
        BY <3>1, <4>1 DEF Construct, TypeOK
    <3>2. CASE FindFolder(o)
      BY <3>2 DEF FindFolder, TypeOK
    <3>3. CASE MakeFolder(o)
      BY <3>3 DEF MakeFolder, TypeOK
    <3> QED
      BY <1>1, <3>1, <3>2, <3>3
  <2>2. TypeOK'
    BY <2>1 DEF TypeOK, Alive
  <2>3. LifeInv'
    BY <2>1 DEF LifeInv
  <2>4. FileInv'
    BY <2>1 DEF FileInv, Connected
  <2> QED
    BY <2>2, <2>3, <2>4
<1>2. ASSUME NEW o \in Objects, Open(o) PROVE TypeOK' /\ LifeInv' /\ FileInv'
  <2>1. /\ UNCHANGED <<careful, asked, role, folder, schema, made, met, stranded>>
        /\ pc[o] = "open" /\ pc' = [pc EXCEPT ![o] = "look"]
        /\ conn' = [conn EXCEPT ![o] = path']
        /\ path' = newest' /\ newest' # 0
        /\ newest' \in {newest, newest + 1}
        /\ newest \in Nat /\ newest' \in Nat
    BY <1>2 DEF Open, TypeOK, Files
  <2>2. conn[o] = 0 /\ made[o] = 0 /\ conn \in [Objects -> Nat]
    BY <2>1 DEF LifeInv, TypeOK
  <2>3. /\ newest' <= Cardinality(Connected') 
        /\ Cardinality(Connected') <= Cardinality(Objects)
        /\ Cardinality(Objects) \in Nat /\ Cardinality(Connected') \in Nat
    <3>1. path' \in Nat /\ path' # 0
      BY <2>1
    <3>2. Connected' = {p \in Objects : [conn EXCEPT ![o] = path'][p] # 0}
      BY <2>1 DEF Connected
    <3>3. /\ Cardinality(Connected) \in Nat
          /\ Cardinality(Connected') = Cardinality(Connected) + 1
          /\ Cardinality(Connected') <= Cardinality(Objects) /\ Cardinality(Objects) \in Nat
      BY <2>2, <3>1, <3>2, ConnectedCount DEF Connected
    <3> QED
      BY <2>1, <3>3 DEF FileInv
  <2>4. newest' \in Files
    BY <2>1, <2>3 DEF Files
  <2>5. TypeOK'
    BY <2>1, <2>4 DEF TypeOK, Alive
  <2>6. LifeInv'
    BY <2>1, <2>2 DEF LifeInv, TypeOK
  <2>7. \A f \in Files : f > newest' => schema[f] = 0
    BY <2>1 DEF FileInv, Files
  <2>8. \A p \in Objects : made[p] > 0 => p # o /\ conn'[p] = conn[p]
    BY <2>1, <2>2 DEF TypeOK
  <2>9. \A f \in Files : schema[f] > 0 => \E p \in Objects : conn'[p] = f /\ made[p] = schema[f]
    <3> SUFFICES ASSUME NEW f \in Files, schema[f] > 0
                 PROVE  \E p \in Objects : conn'[p] = f /\ made[p] = schema[f]
      OBVIOUS
    <3>1. PICK p \in Objects : conn[p] = f /\ made[p] = schema[f]
      BY DEF FileInv
    <3> QED
      BY <2>8, <3>1
  <2>10. FileInv'
    BY <2>1, <2>3, <2>7, <2>8, <2>9 DEF FileInv
  <2> QED
    BY <2>5, <2>6, <2>10
<1>3. ASSUME NEW o \in Objects, Look(o) PROVE TypeOK' /\ LifeInv' /\ FileInv'
  <2>1. /\ UNCHANGED <<careful, asked, folder, path, newest, schema, made, conn, met, stranded>>
        /\ pc[o] = "look"
        /\ pc' = [pc EXCEPT ![o] = IF schema[conn[o]] > 0 THEN "prepare" ELSE "tables"]
        /\ role' = [role EXCEPT ![o] = IF role[o] # AutoRole THEN role[o]
                                       ELSE IF schema[conn[o]] > 0 THEN Client ELSE Server]
    BY <1>3 DEF Look, TypeOK
  <2>2. role'[o] \in Roles /\ role' \in [Objects -> Roles \union {AutoRole}]
    BY <2>1 DEF TypeOK
  <2>3. made[o] = 0 /\ conn[o] # 0
    BY <2>1 DEF LifeInv
  <2>4. TypeOK'
    BY <2>1, <2>2 DEF TypeOK, Alive
  <2>5. asked[o] = AutoRole /\ role'[o] = Server /\ pc'[o] \in {"prepare", "alive"} => FALSE
    BY <2>1, <1>3 DEF TypeOK, Look, LifeInv
  <2>6. LifeInv'
    BY <2>1, <2>2, <2>3, <2>5 DEF LifeInv, TypeOK
  <2>7. FileInv'
    BY <2>1 DEF FileInv, Connected
  <2> QED
    BY <2>4, <2>6, <2>7
<1>4. ASSUME NEW o \in Objects, CreateTables(o) PROVE TypeOK' /\ LifeInv' /\ FileInv'
  <2> DEFINE f == conn[o]
  <2>1. /\ UNCHANGED <<careful, asked, role, folder, path, newest, conn, met, stranded>>
        /\ pc[o] = "tables" /\ made[o] < Statements
        /\ f \in Files /\ made[o] \in 0..Statements /\ schema[f] \in 0..Statements
    <3>1. f # 0
      BY <1>4 DEF CreateTables, LifeInv
    <3>2. f \in Files
      BY <3>1, OpenFiles
    <3> QED
      BY <1>4, <3>2 DEF CreateTables, LifeInv, TypeOK
  <2>2. CASE made[o] # schema[f]
    <3>1. /\ pc' = [pc EXCEPT ![o] = "failed"] /\ made' = made /\ schema' = schema
      BY <1>4, <2>2 DEF CreateTables
    <3>2. made[o] = 0
      BY <2>1, <2>2 DEF FileInv
    <3>3. TypeOK'
      BY <2>1, <3>1 DEF TypeOK, Alive
    <3>4. LifeInv'
      BY <2>1, <3>1, <3>2 DEF LifeInv, TypeOK
    <3>5. FileInv'
      BY <2>1, <3>1 DEF FileInv, Connected
    <3> QED
      BY <3>3, <3>4, <3>5
  <2>3. CASE made[o] = schema[f]
    <3>1. /\ pc' = [pc EXCEPT ![o] = IF made[o] + 1 = Statements THEN "prepare" ELSE "tables"]
          /\ made' = [made EXCEPT ![o] = made[o] + 1]
          /\ schema' = [schema EXCEPT ![f] = schema[f] + 1]
      BY <1>4, <2>3 DEF CreateTables
    <3>2. made'[o] = schema'[f] /\ made'[o] \in 1..Statements
      BY <2>1, <2>3, <3>1 DEF TypeOK
    <3>3. TypeOK'
      BY <2>1, <2>3, <3>1 DEF TypeOK, Alive, LifeInv
    <3>4. LifeInv'
      BY <2>1, <3>1 DEF LifeInv, TypeOK
    <3>5. \A p \in Objects \ {o} : made'[p] = made[p] /\ (made[p] > 0 => conn[p] # f)
      <4> SUFFICES ASSUME NEW p \in Objects \ {o}, made[p] > 0, conn[p] = f PROVE FALSE
        BY <3>1 DEF TypeOK
      <4>1. made[p] = schema[f]
        BY DEF FileInv
      <4>2. made[o] > 0
        BY <2>3, <4>1
      <4> QED
        BY <4>2 DEF FileInv
    <3>6. \A g \in Files \ {f} : schema'[g] = schema[g]
      BY <3>1 DEF TypeOK
    <3>7. f <= newest /\ newest \in Nat
      BY DEF TypeOK, Files
    <3>8. \A p \in Objects : conn[p] # 0 => conn[p] \in Files
      BY OpenFiles
    <3>9. \A p \in Objects : made'[p] > 0 => made'[p] = schema'[conn[p]]
      <4> SUFFICES ASSUME NEW p \in Objects \ {o}, made[p] > 0 PROVE made[p] = schema'[conn[p]]
        BY <3>2, <3>5
      <4>1. conn[p] # f /\ conn[p] # 0 /\ made[p] = schema[conn[p]]
        BY <3>5 DEF FileInv, LifeInv, TypeOK
      <4> QED
        BY <3>6, <3>8, <4>1
    <3>10. \A g \in Files : schema'[g] > 0 =>
             \E p \in Objects : conn[p] = g /\ made'[p] = schema'[g]
      <4> SUFFICES ASSUME NEW g \in Files \ {f}, schema[g] > 0
                   PROVE  \E p \in Objects : conn[p] = g /\ made'[p] = schema[g]
        BY <3>2, <3>6
      <4>1. PICK p \in Objects : conn[p] = g /\ made[p] = schema[g]
        BY DEF FileInv
      <4> QED
        BY <3>5, <4>1
    <3>11. \A g \in Files : g > newest => schema'[g] = 0
      BY <2>1, <3>6, <3>7 DEF FileInv, Files
    <3>12. \A p, q \in Objects : made'[p] > 0 /\ made'[q] > 0 /\ conn[p] = conn[q] => p = q
      BY <3>5 DEF FileInv
    <3>13. newest' <= Cardinality(Connected')
      BY <2>1 DEF FileInv, Connected
    <3>14. FileInv'
      BY <2>1, <3>9, <3>10, <3>11, <3>12, <3>13 DEF FileInv
    <3> QED
      BY <3>3, <3>4, <3>14
  <2> QED
    BY <2>2, <2>3
<1>5. ASSUME NEW o \in Objects, Prepare(o) PROVE TypeOK' /\ LifeInv' /\ FileInv'
  <2>1. /\ UNCHANGED <<careful, asked, role, folder, path, newest, schema, made, conn, met,
                        stranded>>
        /\ pc[o] = "prepare"
        /\ pc' = [pc EXCEPT ![o] = "alive"] \/ pc' = [pc EXCEPT ![o] = "failed"]
    BY <1>5 DEF Prepare
  <2>2. role[o] \in Roles
    BY <2>1 DEF LifeInv
  <2>3. TypeOK'
    BY <2>1, <2>2 DEF TypeOK, Alive
  <2>4. LifeInv'
    BY <2>1 DEF LifeInv, TypeOK
  <2>5. FileInv'
    BY <2>1 DEF FileInv, Connected
  <2> QED
    BY <2>3, <2>4, <2>5
<1>6. ASSUME NEW o \in Objects, Close(o) \/ TryDeleteChannel(o)
      PROVE  TypeOK' /\ LifeInv' /\ FileInv'
  <2>1. /\ UNCHANGED <<careful, asked, role, folder, newest, schema, made, conn>>
        /\ path' \in {path, 0}
        /\ met' \in [Objects -> SUBSET Objects] /\ stranded' \in [Objects -> BOOLEAN]
        /\ \/ pc[o] = "alive" /\ pc' = [pc EXCEPT ![o] = "closed"]
           \/ pc[o] = "closed" /\ pc' = [pc EXCEPT ![o] = "dead"]
    <3>1. CASE Close(o)
      <4>1. met' \in [Objects -> SUBSET Objects]
        BY <3>1 DEF Close, TypeOK
      <4> QED
        BY <3>1, <4>1 DEF Close, TypeOK
    <3>2. CASE TryDeleteChannel(o)
      <4>1. stranded' \in [Objects -> BOOLEAN] /\ path' \in {path, 0}
        BY <3>2 DEF TryDeleteChannel, TypeOK
      <4> QED
        BY <3>2, <4>1 DEF TryDeleteChannel, TypeOK
    <3> QED
      BY <1>6, <3>1, <3>2
  <2>2. TypeOK'
    BY <2>1 DEF TypeOK, Alive
  <2>3. LifeInv'
    BY <2>1 DEF LifeInv, TypeOK
  <2>4. FileInv'
    BY <2>1 DEF FileInv, Connected
  <2> QED
    BY <2>2, <2>3, <2>4
<1>7. ASSUME NEW o \in Objects, Crash(o) PROVE TypeOK' /\ LifeInv' /\ FileInv'
  <2>1. /\ UNCHANGED <<careful, asked, role, folder, path, newest, schema, made, conn, met,
                        stranded>>
        /\ pc' = [pc EXCEPT ![o] = "crashed"]
    BY <1>7 DEF Crash
  <2>2. TypeOK'
    BY <2>1 DEF TypeOK, Alive
  <2>3. LifeInv'
    BY <2>1 DEF LifeInv, TypeOK
  <2>4. FileInv'
    BY <2>1 DEF FileInv, Connected
  <2> QED
    BY <2>2, <2>3, <2>4
<1> QED
  BY <1>0, <1>1, <1>2, <1>3, <1>4, <1>5, <1>6, <1>7 DEF Next

\* Types, lives and files in every reachable state.
LEMMA LifeInvariant == Spec => [](TypeOK /\ LifeInv /\ FileInv)
<1>1. Init => TypeOK /\ LifeInv /\ FileInv
  <2> SUFFICES ASSUME Init PROVE TypeOK /\ LifeInv /\ FileInv
    OBVIOUS
  <2> USE SqliteInitAssumption DEF Init, Early, PCs, Statements, Roles
  <2>1. TypeOK
    <3>1. /\ role \in [Objects -> Roles \union {AutoRole}] /\ pc \in [Objects -> PCs]
          /\ conn \in [Objects -> 0..newest] /\ made \in [Objects -> 0..Statements]
          /\ met \in [Objects -> SUBSET Objects] /\ stranded \in [Objects -> BOOLEAN]
      OBVIOUS
    <3>2. schema \in [Files -> 0..Statements] /\ Alive = {}
      BY DEF Alive
    <3> QED
      BY <3>1, <3>2 DEF TypeOK
  <2>2. LifeInv
    BY DEF LifeInv
  <2>3. Connected = {}
    BY DEF Connected
  <2>4. FileInv
    BY <2>3, FS_EmptySet DEF FileInv
  <2> QED
    BY <2>1, <2>2, <2>4
<1> QED
  BY <1>1, LifeStep, PTL DEF Spec

\* Every reachable state is well typed; in particular, every living object is
\* a Server or a Client, and there are never more files than objects.
THEOREM TypeCorrect == Spec => []TypeOK
BY LifeInvariant, PTL

\* A file has one living object at most that concluded it was the Server,
\* whoever looked for the tables before they were made.
THEOREM OneServerConcludes == Spec => []OneAutoServer
<1>1. TypeOK /\ LifeInv /\ FileInv => OneAutoServer
  BY DEF TypeOK, LifeInv, FileInv, OneAutoServer, Alive, Statements
<1> QED
  BY <1>1, LifeInvariant, PTL

-----------------------------------------------------------------------------
(* The path.                                                               *)

\* Every step preserves what is known of the path.
LEMMA PathStep ==
  ASSUME TypeOK, LifeInv, PathInv, [Next]_vars
  PROVE  PathInv'
<1> USE DEF Moves, Early
<1>0. CASE UNCHANGED vars
  BY <1>0 DEF vars, PathInv
<1>1. ASSUME NEW o \in Objects, Construct(o) \/ FindFolder(o) \/ MakeFolder(o)
      PROVE  PathInv'
  <2>1. /\ UNCHANGED <<role, path, conn, stranded>>
        /\ pc[o] # "dead" /\ pc'[o] # "dead" /\ \A p \in Objects \ {o} : pc'[p] = pc[p]
    BY <1>1 DEF Construct, FindFolder, MakeFolder, TypeOK
  <2> QED
    BY <2>1 DEF PathInv
<1>2. ASSUME NEW o \in Objects, Open(o) PROVE PathInv'
  <2>1. /\ UNCHANGED <<role, stranded>> /\ pc[o] = "open" /\ pc'[o] = "look"
        /\ \A p \in Objects \ {o} : pc'[p] = pc[p] /\ conn'[p] = conn[p]
        /\ conn'[o] = path' /\ (path = 0 \/ path' = path)
    BY <1>2 DEF Open, TypeOK
  <2> QED
    BY <2>1 DEF PathInv
<1>3. ASSUME NEW o \in Objects, Look(o) PROVE PathInv'
  <2>1. /\ UNCHANGED <<path, conn, stranded>> /\ pc[o] = "look" /\ pc'[o] # "dead"
        /\ \A p \in Objects \ {o} : pc'[p] = pc[p] /\ role'[p] = role[p]
    BY <1>3 DEF Look, TypeOK
  <2> QED
    BY <2>1 DEF PathInv
<1>4. ASSUME NEW o \in Objects, CreateTables(o) \/ Prepare(o) \/ Close(o) PROVE PathInv'
  <2>1. /\ UNCHANGED <<role, path, conn, stranded>>
        /\ pc[o] # "dead" /\ pc'[o] # "dead" /\ \A p \in Objects \ {o} : pc'[p] = pc[p]
    BY <1>4 DEF CreateTables, Prepare, Close, TypeOK
  <2> QED
    BY <2>1 DEF PathInv
<1>5. ASSUME NEW o \in Objects, TryDeleteChannel(o) PROVE PathInv'
  <2>1. /\ UNCHANGED <<role, conn>> /\ pc[o] = "closed" /\ pc'[o] = "dead"
        /\ \A p \in Objects \ {o} : pc'[p] = pc[p]
    BY <1>5 DEF TryDeleteChannel, TypeOK
  <2>2. CASE RemovesChannel(o) /\ path # 0
    <3>1. /\ role[o] = Server
          /\ \A p \in Objects : stranded'[p] = (stranded[p] \/ (p # o /\ conn[p] = path))
      BY <1>5, <2>2 DEF TryDeleteChannel, RemovesChannel
    <3>2. \A p \in Objects :
            stranded'[p] => \E q \in Objects \ {p} : role[q] = Server /\ pc'[q] = "dead"
      <4> SUFFICES ASSUME NEW p \in Objects, stranded'[p]
                   PROVE  \E q \in Objects \ {p} : role[q] = Server /\ pc'[q] = "dead"
        OBVIOUS
      <4>1. CASE p # o
        BY <4>1, <2>1, <3>1
      <4>2. CASE stranded[p]
        <5>1. PICK q \in Objects \ {p} : role[q] = Server /\ pc[q] = "dead"
          BY <4>2 DEF PathInv
        <5> QED
          BY <5>1, <2>1
      <4> QED
        BY <4>1, <4>2, <3>1
    <3>3. \A p \in Objects : ~(conn[p] # 0 /\ ~stranded'[p] /\ pc'[p] # "dead")
      BY <2>1, <3>1 DEF PathInv
    <3> QED
      BY <2>1, <3>2, <3>3 DEF PathInv
  <2>3. CASE ~(RemovesChannel(o) /\ path # 0)
    <3>1. UNCHANGED <<path, stranded>>
      BY <1>5, <2>3 DEF TryDeleteChannel
    <3> QED
      BY <2>1, <3>1 DEF PathInv
  <2> QED
    BY <2>2, <2>3
<1>6. ASSUME NEW o \in Objects, Crash(o) PROVE PathInv'
  <2>1. /\ UNCHANGED <<role, path, conn, stranded>>
        /\ pc[o] # "dead" /\ \A p \in Objects \ {o} : pc'[p] = pc[p]
    BY <1>6 DEF Crash, Busy, Constructing, Alive, TypeOK
  <2> QED
    BY <2>1 DEF PathInv
<1> QED
  BY <1>0, <1>1, <1>2, <1>3, <1>4, <1>5, <1>6 DEF Next

\* What is known of the path holds in every reachable state.
LEMMA PathInvariant == Spec => []PathInv
<1>1. Init => PathInv
  BY DEF Init, PathInv
<1> QED
  BY <1>1, PathStep, LifeInvariant, PTL DEF Spec

\* Two living objects have different files open only because the file of one
\* of them was removed under it.
THEOREM ApartByRemoval == Spec => []ApartOnlyIfStranded
<1>1. LifeInv /\ PathInv => ApartOnlyIfStranded
  BY DEF LifeInv, PathInv, ApartOnlyIfStranded, Alive
<1> QED
  BY <1>1, LifeInvariant, PathInvariant, PTL

\* A Server removes no file but its own, unless another Server was deleted.
THEOREM ServerRemovesOwnFile == Spec => RemovesOwnFile
<1> DEFINE Removal ==
      \A o \in Objects : pc[o] = "closed" /\ path' # path /\ pc'[o] = "dead" =>
        \/ conn[o] = path
        \/ \E p \in Objects \ {o} : role[p] = Server /\ pc[p] = "dead"
<1>1. LifeInv /\ PathInv => [Removal]_vars
  BY DEF LifeInv, PathInv
<1> QED
  BY <1>1, LifeInvariant, PathInvariant, PTL DEF Spec, RemovesOwnFile

-----------------------------------------------------------------------------
(* Failing constructors.                                                   *)

\* Every step preserves what is known of an object that has met no other.
LEMMA AloneStep ==
  ASSUME TypeOK, LifeInv, FileInv, AloneInv, LifeInv', [Next]_vars
  PROVE  AloneInv'
<1> USE DEF Moves
<1> DEFINE Places == {"exists", "create", "mkdir", "open", "look", "tables", "prepare"}
<1>0. CASE UNCHANGED vars
  BY <1>0 DEF vars, AloneInv, Constructing, Busy, FailsForACause
<1>1. ASSUME NEW o \in Objects, Construct(o) PROVE AloneInv'
  <2>1. /\ UNCHANGED <<folder, schema, made, conn>> /\ pc[o] = "unborn" /\ pc'[o] = "exists"
        /\ \A p \in Objects \ {o} : pc'[p] = pc[p]
        /\ met'[o] = Busy
        /\ \A p \in Objects \ {o} :
             met'[p] = IF p \in Constructing THEN met[p] \union {o} ELSE met[p]
    BY <1>1 DEF Construct, TypeOK
  <2>2. \A p \in Constructing' : met'[p] = {} => p = o /\ Busy = {}
    BY <2>1 DEF Constructing
  <2>3. Busy' = Busy \union {o}
    BY <2>1 DEF Busy, Constructing
  <2>4. \A p \in Objects : met'[p] = {} => p = o \/ met[p] = {}
    BY <2>1
  <2>5. FailsForACause'
    <3> SUFFICES ASSUME NEW p \in Objects, pc'[p] = "failed", met'[p] = {}
                 PROVE  \E q \in Objects : /\ pc'[q] = "crashed" /\ conn[q] = conn[p]
                                          /\ made[q] \in 1..(TablesMade - 1)
      BY <2>1, <2>4 DEF FailsForACause, AloneInv
    <3>1. p # o /\ pc[p] = "failed" /\ met[p] = {}
      BY <2>1
    <3>2. PICK q \in Objects : /\ pc[q] = "crashed" /\ conn[q] = conn[p]
                              /\ made[q] \in 1..(TablesMade - 1)
      BY <3>1 DEF AloneInv, FailsForACause
    <3> QED
      BY <2>1, <3>2
  <2> QED
    BY <2>1, <2>2, <2>3, <2>4, <2>5 DEF AloneInv
<1>2. ASSUME NEW o \in Objects, Close(o) PROVE AloneInv'
  <2>1. /\ UNCHANGED <<folder, schema, made, conn>> /\ pc[o] = "alive" /\ pc'[o] = "closed"
        /\ \A p \in Objects \ {o} : pc'[p] = pc[p]
        /\ \A p \in Objects : met'[p] = IF p \in Constructing THEN met[p] \union {o} ELSE met[p]
    BY <1>2 DEF Close, TypeOK
  <2>2. \A p \in Constructing' : met'[p] # {}
    BY <2>1 DEF Constructing
  <2>3. \A p \in Objects : met'[p] = {} => met[p] = {}
    BY <2>1
  <2>4. FailsForACause'
    <3> SUFFICES ASSUME NEW p \in Objects, pc'[p] = "failed", met'[p] = {}
                 PROVE  \E q \in Objects : /\ pc'[q] = "crashed" /\ conn[q] = conn[p]
                                          /\ made[q] \in 1..(TablesMade - 1)
      BY <2>1, <2>3 DEF FailsForACause, AloneInv
    <3>1. p # o /\ pc[p] = "failed" /\ met[p] = {}
      BY <2>1
    <3>2. PICK q \in Objects : /\ pc[q] = "crashed" /\ conn[q] = conn[p]
                              /\ made[q] \in 1..(TablesMade - 1)
      BY <3>1 DEF AloneInv, FailsForACause
    <3> QED
      BY <2>1, <3>2
  <2> QED
    BY <2>1, <2>2, <2>3, <2>4 DEF AloneInv
<1>3. ASSUME NEW o \in Objects, FindFolder(o) \/ MakeFolder(o) \/ Open(o)
      PROVE  AloneInv'
  <2>1. /\ UNCHANGED <<schema, made, met>>
        /\ pc[o] \in {"exists", "create", "mkdir", "open"}
        /\ pc'[o] \in {"create", "mkdir", "open", "look", "nofolder"}
        /\ pc'[o] = "mkdir" => ~folder'
        /\ pc'[o] = "nofolder" => pc[o] = "mkdir" /\ folder
        /\ folder' # folder => pc[o] = "mkdir"
        /\ \A p \in Objects \ {o} : pc'[p] = pc[p] /\ conn'[p] = conn[p]
    BY <1>3 DEF FindFolder, MakeFolder, Open, TypeOK
  <2>2. Constructing' \subseteq Constructing /\ Busy' \subseteq Busy
    BY <2>1 DEF Busy, Constructing
  <2>3. made[o] = 0
    BY <2>1 DEF LifeInv, Early
  <2>4. FailsForACause'
    BY <2>1, <2>3 DEF AloneInv, FailsForACause, TablesMade
  <2>5. \A p \in Objects : pc'[p] = "mkdir" /\ folder' => met[p] # {}
    <3> SUFFICES ASSUME NEW p \in Objects \ {o}, pc[p] = "mkdir", folder', met[p] = {}
                 PROVE  FALSE
      BY <2>1
    <3>1. pc[o] = "mkdir"
      BY <2>1 DEF AloneInv
    <3> QED
      BY <3>1 DEF AloneInv, Constructing, Busy
  <2> QED
    BY <2>1, <2>2, <2>4, <2>5 DEF AloneInv
<1>4. ASSUME NEW o \in Objects, Look(o) PROVE AloneInv'
  <2>1. /\ UNCHANGED <<folder, schema, made, conn, met>> /\ pc[o] = "look"
        /\ pc'[o] = IF schema[conn[o]] > 0 THEN "prepare" ELSE "tables"
        /\ \A p \in Objects \ {o} : pc'[p] = pc[p]
        /\ conn[o] \in Files /\ made[o] = 0
    BY <1>4, OpenFiles DEF Look, TypeOK, LifeInv, Early
  <2>2. Constructing' \subseteq Constructing /\ Busy' \subseteq Busy
    BY <2>1 DEF Busy, Constructing
  <2>3. ~(schema[conn[o]] > 0) => schema[conn[o]] = 0
    BY <2>1 DEF TypeOK, Statements
  <2>4. FailsForACause'
    BY <2>1 DEF AloneInv, FailsForACause
  <2> QED
    BY <2>1, <2>2, <2>3, <2>4 DEF AloneInv
<1>5. ASSUME NEW o \in Objects, CreateTables(o) PROVE AloneInv'
  <2> DEFINE f == conn[o]
  <2>1. /\ UNCHANGED <<folder, conn, met>>
        /\ pc[o] = "tables" /\ pc'[o] \in {"failed", "tables", "prepare"}
        /\ \A p \in Objects \ {o} : pc'[p] = pc[p] /\ made'[p] = made[p]
        /\ f \in Files
    BY <1>5, OpenFiles DEF CreateTables, TypeOK, LifeInv
  <2>2. Constructing' \subseteq Constructing /\ Busy' \subseteq Busy
    BY <2>1 DEF Busy, Constructing
  <2>3. CASE made[o] # schema[f]
    <3>1. pc'[o] = "failed" /\ schema' = schema /\ made' = made /\ met[o] # {}
      BY <1>5, <2>1, <2>3 DEF CreateTables, TypeOK, AloneInv
    <3>2. FailsForACause'
      BY <2>1, <3>1 DEF AloneInv, FailsForACause
    <3> QED
      BY <2>1, <2>2, <3>1, <3>2 DEF AloneInv
  <2>4. CASE made[o] = schema[f]
    <3>1. /\ pc'[o] # "failed" /\ made'[o] = made[o] + 1 /\ schema'[f] = made[o] + 1
          /\ \A g \in Files \ {f} : schema'[g] = schema[g]
          /\ made[o] \in Nat
      BY <1>5, <2>1, <2>4 DEF CreateTables, TypeOK, Statements
    <3>2. \A p \in Objects \ {o} : pc[p] = "tables" => met[p] # {}
      BY <2>1 DEF AloneInv, Constructing, Busy
    <3>3. \A p \in Objects : pc'[p] = "prepare" => schema'[conn[p]] > 0
      <4> SUFFICES ASSUME NEW p \in Objects, pc'[p] = "prepare" PROVE schema'[conn[p]] > 0
        OBVIOUS
      <4>1. CASE conn[p] = f
        BY <3>1, <4>1
      <4>2. CASE conn[p] # f
        <5>1. p # o /\ pc[p] = "prepare" /\ schema[conn[p]] > 0
          BY <2>1, <4>2 DEF AloneInv
        <5>2. conn[p] \in Files
          BY <5>1, OpenFiles DEF LifeInv
        <5> QED
          BY <3>1, <4>2, <5>1, <5>2
      <4> QED
        BY <4>1, <4>2
    <3>4. FailsForACause'
      BY <2>1, <3>1 DEF AloneInv, FailsForACause
    <3>5. \A p \in Objects : pc'[p] = "tables" /\ met[p] = {} => made'[p] = schema'[conn[p]]
      BY <2>1, <3>1, <3>2
    <3> QED
      BY <2>1, <2>2, <3>3, <3>4, <3>5 DEF AloneInv
  <2> QED
    BY <2>3, <2>4
<1>6. ASSUME NEW o \in Objects, Prepare(o) PROVE AloneInv'
  <2>1. /\ UNCHANGED <<folder, schema, made, conn, met>> /\ pc[o] = "prepare"
        /\ pc'[o] = IF schema[conn[o]] >= TablesMade THEN "alive" ELSE "failed"
        /\ \A p \in Objects \ {o} : pc'[p] = pc[p]
        /\ conn[o] \in Files /\ schema[conn[o]] > 0
    BY <1>6, OpenFiles DEF Prepare, TypeOK, LifeInv, AloneInv
  <2>2. Constructing' \subseteq Constructing /\ Busy' \subseteq Busy
    BY <2>1 DEF Busy, Constructing
  <2>3. ASSUME pc'[o] = "failed", met[o] = {}
        PROVE  \E p \in Objects : /\ pc'[p] = "crashed" /\ conn[p] = conn[o]
                                  /\ made[p] \in 1..(TablesMade - 1)
    <3>1. PICK p \in Objects : conn[p] = conn[o] /\ made[p] = schema[conn[o]]
      BY <2>1 DEF FileInv
    <3>2. made[p] \in 1..(TablesMade - 1)
      BY <2>1, <2>3, <3>1 DEF TypeOK, Statements, TablesMade
    <3>3. pc[p] \in {"tables", "crashed"}
      BY <3>2 DEF LifeInv, Statements, TablesMade
    <3>4. pc[p] # "tables"
      BY <2>1, <2>3 DEF AloneInv, Constructing, Busy
    <3> QED
      BY <2>1, <3>1, <3>2, <3>3, <3>4
  <2>4. FailsForACause'
    BY <2>1, <2>3 DEF AloneInv, FailsForACause
  <2> QED
    BY <2>1, <2>2, <2>4 DEF AloneInv
<1>7. ASSUME NEW o \in Objects, TryDeleteChannel(o) \/ Crash(o) PROVE AloneInv'
  <2>1. /\ UNCHANGED <<folder, schema, made, conn, met>>
        /\ pc[o] \notin {"crashed", "failed"} /\ pc'[o] \in {"dead", "crashed"}
        /\ \A p \in Objects \ {o} : pc'[p] = pc[p]
    BY <1>7 DEF TryDeleteChannel, Crash, Busy, Constructing, Alive, TypeOK
  <2>2. Constructing' \subseteq Constructing /\ Busy' \subseteq Busy
    BY <2>1 DEF Busy, Constructing
  <2>3. FailsForACause'
    BY <2>1 DEF AloneInv, FailsForACause
  <2> QED
    BY <2>1, <2>2, <2>3 DEF AloneInv
<1> QED
  BY <1>0, <1>1, <1>2, <1>3, <1>4, <1>5, <1>6, <1>7 DEF Next

\* A constructor fails over the folder only if it overlaps with another, and
\* over the tables only if it overlaps with another or with a destructor, or
\* if a crash has left a file with one of the tables.
THEOREM FailuresHaveACause == Spec => []FailsForACause
<1>1. Init => AloneInv
  BY DEF Init, AloneInv, Constructing, FailsForACause
<1>2. AloneInv => FailsForACause
  BY DEF AloneInv
<1> QED
  BY <1>1, <1>2, AloneStep, LifeInvariant, PTL DEF Spec

-----------------------------------------------------------------------------
(* A careful application brings one Server and one Client together.        *)

\* The places of those who have opened the file and are still constructing.
Opened == {"look", "tables", "prepare"}

\* With a careful application one object at a time is constructed or deleted
\* and none meets another.
SoloInv ==
  /\ \A o \in Objects : asked[o] = AutoRole /\ met[o] = {} /\ pc[o] # "crashed"
  /\ \A o, p \in Busy : o = p

\* The objects that live have different roles, one of them is the Server, and
\* during a construction it is the only one.  They have open what is under the
\* path, which is complete; without them the path is free, unless someone is
\* about to make the tables, or to remove the file.
PairInv ==
  /\ \A o, p \in Alive : o # p => role[o] # role[p]
  /\ Alive # {} => \E o \in Alive : role[o] = Server
  /\ Constructing # {} => \A p \in Alive : role[p] = Server
  /\ \A o \in Alive : conn[o] = path /\ schema[path] > 0
  /\ \A o \in Objects : pc[o] \in Opened => conn[o] = path
  /\ \A o \in Objects : pc[o] = "look" /\ Alive = {} => schema[path] = 0
  /\ \A o \in Objects : pc[o] \in {"tables", "prepare"} => (role[o] = Server <=> Alive = {})
  /\ \A o \in Objects : pc[o] = "closed" /\ role[o] = Server => Alive = {}
  /\ path # 0 /\ Alive = {} =>
       \E o \in Objects : pc[o] \in Opened \/ (pc[o] = "closed" /\ role[o] = Server)

CareInv == careful => SoloInv /\ PairInv

\* Of one living object the Server is all.
LEMMA OnlyServer ==
  ASSUME TypeOK, Cardinality(Alive) < 2, NEW s \in Alive, NEW p \in Alive
  PROVE  p = s
<1> SUFFICES ASSUME p # s PROVE FALSE
  OBVIOUS
<1>1. IsFiniteSet(Alive)
  BY SqliteInitAssumption, FS_Subset DEF Alive
<1>2. IsFiniteSet({s}) /\ Cardinality({s}) = 1
  BY FS_Singleton
<1>3. IsFiniteSet({s} \union {p}) /\ Cardinality({s} \union {p}) = 2
  BY <1>2, FS_AddElement
<1>4. {s} \union {p} \subseteq Alive
  OBVIOUS
<1>5. Cardinality({s} \union {p}) <= Cardinality(Alive) /\ Cardinality(Alive) \in Nat
  BY <1>1, <1>4, FS_Subset, FS_CardinalityType
<1> QED
  BY <1>3, <1>5

\* A constructor does not fail with a careful application.
LEMMA CarefulSucceeds ==
  ASSUME SoloInv, AloneInv', UNCHANGED met, NEW o \in Objects,
         \A p \in Objects \ {o} : pc'[p] = pc[p], pc'[o] # "crashed"
  PROVE  pc'[o] # "failed"
BY DEF SoloInv, AloneInv, FailsForACause

\* Every step preserves that one object at a time is busy.
LEMMA SoloStep ==
  ASSUME TypeOK, SoloInv, careful, [Next]_vars
  PROVE  SoloInv'
<1> USE DEF Moves
<1>0. CASE UNCHANGED vars
  BY <1>0 DEF vars, SoloInv, Busy, Constructing
<1>1. ASSUME NEW o \in Objects, Construct(o) PROVE SoloInv'
  <2>1. /\ UNCHANGED asked /\ pc[o] = "unborn" /\ pc'[o] = "exists" /\ Busy = {}
        /\ \A p \in Objects \ {o} : pc'[p] = pc[p]
    BY <1>1 DEF Construct, TypeOK
  <2>2. \A p \in Objects : met'[p] = {}
    <3>1. Constructing = {}
      BY <2>1 DEF Busy
    <3>2. \A p \in Objects : met'[p] = IF p = o THEN Busy
                                      ELSE IF p \in Constructing THEN met[p] \union {o} ELSE met[p]
      BY <1>1 DEF Construct
    <3> QED
      BY <2>1, <3>1, <3>2 DEF SoloInv
  <2>3. Busy' = {o}
    BY <2>1 DEF Busy, Constructing
  <2> QED
    BY <2>1, <2>2, <2>3 DEF SoloInv
<1>2. ASSUME NEW o \in Objects, Close(o) PROVE SoloInv'
  <2>1. /\ UNCHANGED asked /\ pc[o] = "alive" /\ pc'[o] = "closed" /\ Busy = {}
        /\ \A p \in Objects \ {o} : pc'[p] = pc[p]
    BY <1>2 DEF Close, TypeOK
  <2>2. \A p \in Objects : met'[p] = {}
    <3>1. Constructing = {}
      BY <2>1 DEF Busy
    <3>2. \A p \in Objects : met'[p] = IF p \in Constructing THEN met[p] \union {o} ELSE met[p]
      BY <1>2 DEF Close
    <3> QED
      BY <3>1, <3>2 DEF SoloInv
  <2>3. Busy' = {o}
    BY <2>1 DEF Busy, Constructing
  <2> QED
    BY <2>1, <2>2, <2>3 DEF SoloInv
<1>3. ASSUME NEW o \in Objects,
             \/ FindFolder(o) \/ MakeFolder(o) \/ Open(o) \/ Look(o)
             \/ CreateTables(o) \/ Prepare(o) \/ TryDeleteChannel(o)
      PROVE  SoloInv'
  <2>1. /\ UNCHANGED <<asked, met>> /\ o \in Busy /\ pc'[o] # "crashed"
        /\ \A p \in Objects \ {o} : pc'[p] = pc[p]
    <3>1. CASE FindFolder(o) \/ MakeFolder(o) \/ Open(o) \/ Look(o)
      BY <3>1 DEF FindFolder, MakeFolder, Open, Look, Busy, Constructing, TypeOK
    <3>2. CASE CreateTables(o) \/ Prepare(o) \/ TryDeleteChannel(o)
      BY <3>2 DEF CreateTables, Prepare, TryDeleteChannel, Busy, Constructing, TypeOK
    <3> QED
      BY <1>3, <3>1, <3>2
  <2>2. Busy' \subseteq Busy
    BY <2>1 DEF Busy, Constructing
  <2> QED
    BY <2>1, <2>2 DEF SoloInv
<1>4. ASSUME NEW o \in Objects, Crash(o) PROVE SoloInv'
  BY <1>4 DEF Crash
<1> QED
  BY <1>0, <1>1, <1>2, <1>3, <1>4 DEF Next

\* Every step of a careful application preserves what is known of the pair.
LEMMA PairStep ==
  ASSUME TypeOK, LifeInv, FileInv, TypeOK', LifeInv', AloneInv', SoloInv, PairInv, careful,
         [Next]_vars
  PROVE  PairInv'
<1> USE SqliteInitAssumption DEF Moves, Opened
<1>0. CASE UNCHANGED vars
  BY <1>0 DEF vars, PairInv, Alive, Constructing
<1>1. ASSUME NEW o \in Objects, Construct(o) PROVE PairInv'
  <2>1. /\ UNCHANGED <<role, path, schema, conn>> /\ pc[o] = "unborn" /\ pc'[o] = "exists"
        /\ Busy = {} /\ Cardinality(Alive) < 2
        /\ \A p \in Objects \ {o} : pc'[p] = pc[p]
    BY <1>1 DEF Construct, TypeOK
  <2>2. Alive' = Alive
    BY <2>1 DEF Alive
  <2>3. \A p \in Alive : role[p] = Server
    BY <2>1, OnlyServer DEF PairInv
  <2>4. \A p \in Objects : pc'[p] \in Opened \union {"closed"} => pc'[p] = pc[p]
    BY <2>1
  <2>5. \A p \in Objects : pc[p] \notin Opened \union {"closed"}
    BY <2>1 DEF Busy, Constructing
  <2>6. path # 0 /\ Alive = {} => FALSE
    BY <2>5 DEF PairInv
  <2> QED
    BY <2>1, <2>2, <2>3, <2>4, <2>5, <2>6 DEF PairInv
<1>2. ASSUME NEW o \in Objects, FindFolder(o) \/ MakeFolder(o) PROVE PairInv'
  <2>1. /\ UNCHANGED <<role, path, schema, conn>>
        /\ pc[o] \in {"exists", "create", "mkdir"}
        /\ pc'[o] \in {"create", "mkdir", "open", "nofolder"}
        /\ \A p \in Objects \ {o} : pc'[p] = pc[p]
    BY <1>2 DEF FindFolder, MakeFolder, TypeOK
  <2>2. Alive' = Alive /\ Constructing' \subseteq Constructing
    BY <2>1 DEF Alive, Constructing
  <2>3. \A p \in Objects : pc'[p] \in Opened \union {"closed"} => pc'[p] = pc[p]
    BY <2>1
  <2>4. \A p \in Objects : pc[p] \in Opened \union {"closed"} => pc'[p] = pc[p]
    BY <2>1
  <2> QED
    BY <2>1, <2>2, <2>3, <2>4 DEF PairInv
<1>3. ASSUME NEW o \in Objects, Open(o) PROVE PairInv'
  <2>1. /\ UNCHANGED <<role, schema>> /\ pc[o] = "open" /\ pc'[o] = "look"
        /\ \A p \in Objects \ {o} : pc'[p] = pc[p] /\ conn'[p] = conn[p]
        /\ conn'[o] = path' /\ path' = IF path = 0 THEN newest + 1 ELSE path
    BY <1>3 DEF Open, TypeOK
  <2>2. Alive' = Alive /\ Constructing' = Constructing /\ o \in Constructing /\ o \notin Alive
    BY <2>1 DEF Alive, Constructing
  <2>3. \A p \in Objects \ {o} : pc[p] \notin Opened \union {"closed"}
    BY <2>1 DEF SoloInv, Busy, Constructing
  <2>4. Alive # {} => path' = path
    BY <2>1 DEF PairInv, LifeInv, Alive
  <2>5. Alive = {} => schema[path'] = 0
    <3> SUFFICES ASSUME Alive = {} PROVE schema[path'] = 0
      OBVIOUS
    <3>1. path = 0
      BY <2>1, <2>3 DEF PairInv
    <3>2. path' = newest + 1 /\ newest \in Nat
      BY <2>1, <3>1, OpenFiles
    <3>3. path' \in Files
      BY <2>1, <3>2 DEF TypeOK, Files
    <3> QED
      BY <3>2, <3>3 DEF FileInv, Files
  <2>6. \A p \in Alive : conn'[p] = path' /\ schema[path'] > 0
    <3> SUFFICES ASSUME NEW p \in Alive PROVE conn'[p] = path' /\ schema[path'] > 0
      OBVIOUS
    <3>1. p \in Objects \ {o} /\ conn[p] = path /\ schema[path] > 0
      BY <2>2 DEF PairInv, Alive
    <3> QED
      BY <2>1, <2>4, <3>1
  <2>7. \A p \in Objects \ {o} : pc'[p] \notin Opened \union {"closed"}
    BY <2>1, <2>3
  <2>8. /\ \A p \in Objects : pc'[p] \in Opened => p = o
        /\ \A p \in Objects : pc'[p] \notin {"tables", "prepare", "closed"}
    BY <2>1, <2>7
  <2> QED
    BY <2>1, <2>2, <2>5, <2>6, <2>8 DEF PairInv
<1>4. ASSUME NEW o \in Objects, Look(o) PROVE PairInv'
  <2>1. /\ UNCHANGED <<path, schema, conn>> /\ pc[o] = "look" /\ pc'[o] \in {"tables", "prepare"}
        /\ \A p \in Objects \ {o} : pc'[p] = pc[p] /\ role'[p] = role[p]
        /\ role'[o] = IF role[o] # AutoRole THEN role[o]
                      ELSE IF schema[conn[o]] > 0 THEN Client ELSE Server
    BY <1>4 DEF Look, TypeOK
  <2>2. Alive' = Alive /\ Constructing' = Constructing /\ o \in Constructing /\ o \notin Alive
    BY <2>1 DEF Alive, Constructing
  <2>3. \A p \in Objects \ {o} : pc[p] \notin Opened \union {"closed"}
    BY <2>1 DEF SoloInv, Busy, Constructing
  <2>4. role[o] = AutoRole /\ conn[o] = path
    BY <2>1 DEF PairInv, LifeInv, SoloInv
  <2>5. schema[path] > 0 <=> Alive # {}
    <3>1. Alive # {} => schema[path] > 0
      BY DEF PairInv
    <3>2. Alive = {} => schema[path] = 0
      BY <2>1 DEF PairInv
    <3> QED
      BY <3>1, <3>2
  <2>6. role'[o] = Server <=> Alive = {}
    BY <2>1, <2>4, <2>5
  <2>7. \A p \in Alive : role'[p] = role[p]
    BY <2>1, <2>2 DEF Alive
  <2>8. \A p \in Objects : pc'[p] \in Opened => p = o
    BY <2>1, <2>3
  <2>9. \A p \in Objects : pc'[p] # "look" /\ pc'[p] # "closed"
    BY <2>1, <2>3
  <2> QED
    BY <2>1, <2>2, <2>4, <2>6, <2>7, <2>8, <2>9 DEF PairInv
<1>5. ASSUME NEW o \in Objects, CreateTables(o) PROVE PairInv'
  <2>1. /\ UNCHANGED <<role, path, conn, met>> /\ pc[o] = "tables"
        /\ pc'[o] \in {"failed", "tables", "prepare"}
        /\ \A p \in Objects \ {o} : pc'[p] = pc[p]
    BY <1>5 DEF CreateTables, TypeOK
  <2>2. pc'[o] \in {"tables", "prepare"}
    BY <2>1, CarefulSucceeds
  <2>3. Alive' = Alive /\ Constructing' = Constructing /\ o \in Constructing /\ o \notin Alive
    BY <2>1, <2>2 DEF Alive, Constructing
  <2>4. \A p \in Objects \ {o} : pc[p] \notin Opened \union {"closed"}
    BY <2>1 DEF SoloInv, Busy, Constructing
  <2>5. schema[path] > 0 => schema'[path] > 0
    <3>1. conn[o] = path /\ conn[o] \in Files
      BY <2>1, OpenFiles DEF PairInv, LifeInv
    <3>2. schema' = schema \/ schema' = [schema EXCEPT ![conn[o]] = schema[conn[o]] + 1]
      BY <1>5 DEF CreateTables
    <3> QED
      BY <3>1, <3>2 DEF TypeOK, Statements
  <2>6. \A p \in Objects : pc'[p] \in Opened => p = o
    BY <2>1, <2>4
  <2>7. \A p \in Objects : pc'[p] # "look" /\ pc'[p] # "closed"
    BY <2>1, <2>2, <2>4
  <2> QED
    BY <2>1, <2>2, <2>3, <2>5, <2>6, <2>7 DEF PairInv
<1>6. ASSUME NEW o \in Objects, Prepare(o) PROVE PairInv'
  <2>1. /\ UNCHANGED <<role, path, schema, conn, met>> /\ pc[o] = "prepare"
        /\ pc'[o] \in {"alive", "failed"}
        /\ pc'[o] = "alive" => schema[conn[o]] >= TablesMade
        /\ \A p \in Objects \ {o} : pc'[p] = pc[p]
    BY <1>6 DEF Prepare, TypeOK
  <2>2. pc'[o] = "alive"
    BY <2>1, CarefulSucceeds
  <2>3. Alive' = Alive \union {o} /\ o \in Constructing /\ o \notin Alive
    BY <2>1, <2>2 DEF Alive, Constructing
  <2>4. \A p \in Objects \ {o} : pc[p] \notin Opened \union {"closed"} /\ p \notin Constructing
    BY <2>1 DEF SoloInv, Busy, Constructing
  <2>5. conn[o] = path /\ schema[path] > 0
    <3>1. conn[o] = path /\ conn[o] \in Files
      BY <2>1, OpenFiles DEF PairInv, LifeInv
    <3> QED
      BY <2>1, <2>2, <3>1 DEF TypeOK, Statements, TablesMade
  <2>6. role[o] = Server <=> Alive = {}
    BY <2>1 DEF PairInv
  <2>7. \A p \in Alive : role[p] = Server
    BY <2>3 DEF PairInv
  <2>8. Constructing' = {}
    BY <2>1, <2>2, <2>4 DEF Constructing
  <2>9. \A p \in Objects : pc'[p] \notin Opened \union {"closed"}
    BY <2>1, <2>2, <2>4
  <2>10. \A p, q \in Alive' : p # q => role[p] # role[q]
    BY <2>3, <2>6, <2>7 DEF PairInv
  <2>11. \E p \in Alive' : role[p] = Server
    BY <2>3, <2>6, <2>7
  <2>12. \A p \in Alive' : conn[p] = path /\ schema[path] > 0
    BY <2>3, <2>5 DEF PairInv
  <2> QED
    BY <2>1, <2>3, <2>8, <2>9, <2>10, <2>11, <2>12 DEF PairInv
<1>7. ASSUME NEW o \in Objects, Close(o) PROVE PairInv'
  <2>1. /\ UNCHANGED <<role, path, schema, conn>> /\ pc[o] = "alive" /\ pc'[o] = "closed"
        /\ Busy = {} /\ (role[o] = Server => Alive = {o})
        /\ \A p \in Objects \ {o} : pc'[p] = pc[p]
    BY <1>7 DEF Close, TypeOK
  <2>2. Alive' = Alive \ {o} /\ Constructing' = {} /\ o \in Alive
    BY <2>1 DEF Alive, Constructing, Busy
  <2>3. \A p \in Objects \ {o} : pc'[p] \notin Opened \union {"closed"}
    BY <2>1 DEF Busy, Constructing
  <2>4. \A p \in Objects : pc'[p] \notin Opened /\ (pc'[p] = "closed" => p = o)
    BY <2>1, <2>3
  <2>5. Alive' # {} => \E p \in Alive' : role[p] = Server
    BY <2>1, <2>2 DEF PairInv
  <2>6. Alive' = {} => role[o] = Server
    BY <2>2 DEF PairInv
  <2> QED
    BY <2>1, <2>2, <2>4, <2>5, <2>6 DEF PairInv
<1>8. ASSUME NEW o \in Objects, TryDeleteChannel(o) PROVE PairInv'
  <2>1. /\ UNCHANGED <<role, schema, conn>> /\ pc[o] = "closed" /\ pc'[o] = "dead"
        /\ \A p \in Objects \ {o} : pc'[p] = pc[p]
    BY <1>8 DEF TryDeleteChannel, TypeOK
  <2>2. path' = IF role[o] = Server /\ path # 0 THEN 0 ELSE path
    BY <1>8 DEF TryDeleteChannel, RemovesChannel
  <2>3. Alive' = Alive
    BY <2>1 DEF Alive
  <2>4. \A p \in Objects \ {o} : pc[p] \notin Opened \union {"closed"} /\ p \notin Constructing
    BY <2>1 DEF SoloInv, Busy, Constructing
  <2>5. Constructing' = {}
    BY <2>1, <2>4 DEF Constructing
  <2>6. \A p \in Objects : pc'[p] \notin Opened \union {"closed"}
    BY <2>1, <2>4
  <2>7. role[o] = Server => Alive = {}
    BY <2>1 DEF PairInv
  <2>8. path' # 0 => Alive # {}
    <3>1. path # 0 /\ Alive = {} => role[o] = Server
      BY <2>1, <2>4 DEF PairInv
    <3> QED
      BY <2>2, <3>1
  <2>9. \A p \in Alive : conn[p] = path' /\ schema[path'] > 0
    BY <2>2, <2>7 DEF PairInv
  <2> QED
    BY <2>1, <2>3, <2>5, <2>6, <2>8, <2>9 DEF PairInv
<1>9. ASSUME NEW o \in Objects, Crash(o) PROVE PairInv'
  BY <1>9 DEF Crash
<1> QED
  BY <1>0, <1>1, <1>2, <1>3, <1>4, <1>5, <1>6, <1>7, <1>8, <1>9 DEF Next

\* What a careful application relies on holds in every reachable state.
LEMMA CareInvariant == Spec => [](CareInv /\ AloneInv)
<1>1. Init => CareInv
  <2> SUFFICES ASSUME Init PROVE CareInv
    OBVIOUS
  <2>1. Alive = {} /\ Constructing = {} /\ Busy = {}
    BY DEF Init, Alive, Constructing, Busy
  <2>2. SoloInv \/ ~careful
    BY <2>1 DEF Init, SoloInv
  <2>3. PairInv
    BY <2>1 DEF Init, PairInv, Opened
  <2> QED
    BY <2>2, <2>3 DEF CareInv
<1>2. Init => AloneInv
  BY DEF Init, AloneInv, Constructing, FailsForACause
<1>3. TypeOK /\ LifeInv /\ FileInv /\ TypeOK' /\ LifeInv' /\ CareInv /\ AloneInv /\ [Next]_vars
        => CareInv' /\ AloneInv'
  <2> SUFFICES ASSUME TypeOK, LifeInv, FileInv, TypeOK', LifeInv', CareInv, AloneInv, [Next]_vars
               PROVE  CareInv' /\ AloneInv'
    OBVIOUS
  <2>1. AloneInv'
    BY AloneStep
  <2>2. careful' = careful
    BY DEF Next, vars, Construct, FindFolder, MakeFolder, Open, Look, CreateTables, Prepare,
           Close, TryDeleteChannel, Crash
  <2>3. careful => SoloInv' /\ PairInv'
    BY <2>1, SoloStep, PairStep DEF CareInv
  <2> QED
    BY <2>1, <2>2, <2>3 DEF CareInv
<1> QED
  BY <1>1, <1>2, <1>3, LifeInvariant, PTL DEF Spec

\* The refinement mapping: the roles of the objects that live.
MeetingRoles == [o \in Objects |-> IF o \in Alive THEN role[o] ELSE "none"]

\* The objects present at the meeting are those that live.
LEMMA PresentAreAlive == TypeOK => Meeting!Present = Alive
BY SqliteInitAssumption DEF Meeting!Present, Alive, TypeOK, Roles

\* Every step of a careful application is one of Rendezvous, or changes
\* nothing there.
LEMMA MeetingStep ==
  TypeOK /\ TypeOK' /\ LifeInv /\ CareInv /\ AloneInv' /\ careful /\ Next
    => Meeting!Next \/ UNCHANGED Meeting!meetingVars
<1> SUFFICES ASSUME TypeOK, TypeOK', LifeInv, CareInv, AloneInv', careful, Next
             PROVE  Meeting!Next \/ UNCHANGED Meeting!meetingVars
  OBVIOUS
<1>c. SoloInv /\ PairInv
  BY DEF CareInv
<1>1. ASSUME MeetingRoles' = MeetingRoles, conn' = conn PROVE UNCHANGED Meeting!meetingVars
  BY <1>1 DEF Meeting!meetingVars, MeetingRoles
<1>2. ASSUME NEW o \in Objects, Open(o) PROVE Meeting!Next
  <2>1. /\ pc[o] = "open" /\ pc'[o] = "look" /\ \A p \in Objects \ {o} : pc'[p] = pc[p]
        /\ role' = role /\ \A p \in Objects \ {o} : conn'[p] = conn[p]
    BY <1>2 DEF Open, Moves, TypeOK
  <2>2. Alive' = Alive /\ o \notin Alive
    BY <2>1 DEF Alive
  <2>3. MeetingRoles' = MeetingRoles
    BY <2>1, <2>2 DEF MeetingRoles
  <2>4. \A p \in Alive : conn'[p] = conn[p]
    BY <2>1, <2>2 DEF Alive
  <2>5. conn' \in [Objects -> {0} \union Files]
    <3>1. Cardinality(Objects) \in Nat
      BY OpenFiles
    <3>2. newest' \in Nat /\ newest' <= Cardinality(Objects) /\ conn' \in [Objects -> 0..newest']
      BY <3>1 DEF TypeOK, Files
    <3>3. 0..newest' \subseteq {0} \union Files
      BY <3>1, <3>2 DEF Files
    <3> QED
      BY <3>2, <3>3
  <2>6. Meeting!Wander
    BY <2>3, <2>4, <2>5, PresentAreAlive DEF Meeting!Wander, MeetingRoles
  <2> QED
    BY <2>6 DEF Meeting!Next
<1>3. ASSUME NEW o \in Objects, Prepare(o) PROVE Meeting!Next
  <2>1. /\ pc[o] = "prepare" /\ pc'[o] \in {"alive", "failed"}
        /\ \A p \in Objects \ {o} : pc'[p] = pc[p]
        /\ UNCHANGED <<role, conn, met>>
    BY <1>3 DEF Prepare, Moves, TypeOK
  <2>2. pc'[o] = "alive"
    BY <1>c, <2>1, CarefulSucceeds
  <2>3. Alive' = Alive \union {o} /\ o \notin Alive
    BY <2>1, <2>2 DEF Alive
  <2>4. role[o] \in {Server, Client} /\ conn[o] # 0 /\ conn[o] = path
    BY <1>c, <2>1 DEF LifeInv, Roles, PairInv, Opened
  <2>5. conn[o] \in {0} \union Files
    BY <2>4, OpenFiles
  <2>6. \A p \in Alive : role[p] # role[o] /\ conn[p] = conn[o]
    <3>1. o \in Constructing
      BY <2>1 DEF Constructing
    <3>2. \A p \in Alive : role[p] = Server /\ conn[p] = path
      BY <1>c, <3>1 DEF PairInv
    <3>3. Alive # {} => role[o] # Server
      BY <1>c, <2>1 DEF PairInv
    <3> QED
      BY <2>4, <3>2, <3>3
  <2>7. MeetingRoles' = [MeetingRoles EXCEPT ![o] = role[o]]
    BY <2>1, <2>3 DEF MeetingRoles
  <2>8. conn' = [conn EXCEPT ![o] = conn[o]]
    BY <2>1 DEF TypeOK
  <2>9. \A p \in Alive : MeetingRoles[p] # role[o] /\ conn[p] = conn[o]
    BY <2>6 DEF MeetingRoles, Alive
  <2>10. Meeting!Join(o)
    BY <2>3, <2>4, <2>5, <2>7, <2>8, <2>9, PresentAreAlive DEF Meeting!Join, MeetingRoles
  <2> QED
    BY <2>10 DEF Meeting!Next
<1>4. ASSUME NEW o \in Objects, Close(o) PROVE Meeting!Next
  <2>1. /\ pc[o] = "alive" /\ pc'[o] = "closed" /\ \A p \in Objects \ {o} : pc'[p] = pc[p]
        /\ UNCHANGED <<role, conn>>
    BY <1>4 DEF Close, Moves, TypeOK
  <2>2. Alive' = Alive \ {o} /\ o \in Alive
    BY <2>1 DEF Alive
  <2>3. MeetingRoles' = [MeetingRoles EXCEPT ![o] = "none"]
    BY <2>1, <2>2 DEF MeetingRoles
  <2>4. Meeting!Leave(o)
    BY <2>1, <2>2, <2>3, PresentAreAlive DEF Meeting!Leave, MeetingRoles
  <2> QED
    BY <2>4 DEF Meeting!Next
<1>5. ASSUME NEW o \in Objects,
             \/ Construct(o) \/ FindFolder(o) \/ MakeFolder(o) \/ Look(o)
             \/ CreateTables(o) \/ TryDeleteChannel(o)
      PROVE  MeetingRoles' = MeetingRoles /\ conn' = conn
  <2>1. /\ conn' = conn /\ pc[o] # "alive" /\ pc'[o] # "alive"
        /\ \A p \in Objects \ {o} : pc'[p] = pc[p] /\ role'[p] = role[p]
    <3>1. CASE Construct(o) \/ FindFolder(o) \/ MakeFolder(o)
      BY <3>1 DEF Construct, FindFolder, MakeFolder, Moves, TypeOK
    <3>2. CASE Look(o)
      BY <3>2 DEF Look, Moves, TypeOK
    <3>3. CASE CreateTables(o) \/ TryDeleteChannel(o)
      BY <3>3 DEF CreateTables, TryDeleteChannel, Moves, TypeOK
    <3> QED
      BY <1>5, <3>1, <3>2, <3>3
  <2>2. Alive' = Alive /\ o \notin Alive
    BY <2>1 DEF Alive
  <2> QED
    BY <2>1, <2>2 DEF MeetingRoles
<1>6. ASSUME NEW o \in Objects, Crash(o) PROVE FALSE
  BY <1>6 DEF Crash
<1> QED
  BY <1>1, <1>2, <1>3, <1>4, <1>5, <1>6 DEF Next

\* When the application asks for Auto, constructs and deletes one object at a
\* time, has two at most, and deletes the Server last, those that live are
\* one Server and one Client with one file open, over any number of
\* generations of the file: the module implements Rendezvous.
THEOREM CarefulObjectsMeet == Spec => RendezvousSpec
<1>1. Init => Meeting!Init
  <2> SUFFICES ASSUME Init PROVE Meeting!Init
    OBVIOUS
  <2>1. Alive = {} /\ conn \in [Objects -> {0} \union Files]
    BY DEF Init, Alive
  <2> QED
    BY <2>1 DEF Meeting!Init
<1>2. TypeOK /\ TypeOK' /\ LifeInv /\ CareInv /\ AloneInv' /\ [Next]_vars
        => [careful => [Meeting!Next]_(Meeting!meetingVars)]_vars
  BY MeetingStep
<1> QED
  BY <1>1, <1>2, LifeInvariant, CareInvariant, PTL DEF Spec, RendezvousSpec

=============================================================================
