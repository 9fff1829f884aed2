-------------------------- MODULE SqlitePairProofs --------------------------
(***************************************************************************)
(* Proofs about SqlitePair: types, messages that are never overwritten,    *)
(* and messages that are, the refinement of FifoLink, and who is never ended  *)
(* by an exception.                                                        *)
(*                                                                         *)
(* The argument looks at one direction of the channel at a time: the       *)
(* messages submitted at d are in the outbox of d, in the table its peer   *)
(* receives from, in the inbox of the peer, or have been handled there.    *)
(***************************************************************************)
EXTENDS SqlitePair, QueueLemmas

-----------------------------------------------------------------------------
(* Writing the outbox into a table.                                        *)

\* The rows after the first n messages, as WriteAll computes them.
WrittenBy(f, rows, box, n) ==
  f = [i \in 0..n |-> IF i = 0 THEN rows ELSE WriteSendingMessage(f[i - 1], box[i])]

\* The recursion of WriteAll has a solution.
LEMMA WrittenExists ==
  ASSUME NEW rows, NEW box, NEW m \in Nat
  PROVE  \E f : WrittenBy(f, rows, box, m)
<1> DEFINE T == {n \in Nat : \E f : WrittenBy(f, rows, box, n)}
<1>1. 0 \in T
  <2> DEFINE f == [i \in 0..0 |-> rows]
  <2>1. WrittenBy(f, rows, box, 0)
    BY DEF WrittenBy
  <2> QED
    BY <2>1
<1>2. ASSUME NEW n \in T PROVE n + 1 \in T
  <2>1. PICK f : WrittenBy(f, rows, box, n)
    OBVIOUS
  <2> DEFINE last == WriteSendingMessage(f[n], box[n + 1])
             g == [i \in 0..(n + 1) |-> IF i = n + 1 THEN last ELSE f[i]]
  <2>2. \A i \in 0..n :
          f[i] = IF i = 0 THEN rows ELSE WriteSendingMessage(f[i - 1], box[i])
    BY <2>1 DEF WrittenBy
  <2>3. \A i \in 0..n : g[i] = f[i]
    OBVIOUS
  <2>4. g[n + 1] = last
    OBVIOUS
  <2> HIDE DEF last
  <2>5. ASSUME NEW i \in 0..(n + 1)
        PROVE  g[i] = IF i = 0 THEN rows ELSE WriteSendingMessage(g[i - 1], box[i])
    <3>1. CASE i = n + 1
      <4>1. i # 0 /\ i - 1 = n /\ n \in 0..n
        BY <3>1
      <4>2. g[i - 1] = f[n]
        BY <2>3, <4>1
      <4> HIDE DEF g
      <4> QED
        BY <2>4, <3>1, <4>1, <4>2 DEF last
    <3>2. CASE i \in 0..n
      <4>1. g[i] = f[i] /\ (i # 0 => g[i - 1] = f[i - 1])
        BY <2>3, <3>2
      <4> HIDE DEF g
      <4> QED
        BY <2>2, <3>2, <4>1
    <3> QED
      BY <3>1, <3>2
  <2>6. WrittenBy(g, rows, box, n + 1)
    <3>1. g = [i \in 0..(n + 1) |-> g[i]]
      OBVIOUS
    <3> HIDE DEF g
    <3> QED
      BY <2>5, <3>1 DEF WrittenBy
  <2> QED
    BY <2>6
<1>3. T = Nat
  <2> HIDE DEF T
  <2>1. T \subseteq Nat
    BY DEF T
  <2> QED
    BY <1>1, <1>2, <2>1, NatSets
<1> QED
  BY <1>3

\* Two solutions, for two queues that begin alike, agree as far as that.
LEMMA WrittenUnique ==
  ASSUME NEW rows, NEW box, NEW more, NEW m \in Nat, NEW n \in Nat, m <= n, NEW f, NEW g,
         WrittenBy(f, rows, box, m), WrittenBy(g, rows, more, n),
         \A i \in 1..m : box[i] = more[i]
  PROVE  f[m] = g[m]
<1> DEFINE T == {k \in Nat : k <= m => f[k] = g[k]}
<1>1. \A k \in 0..m : f[k] = IF k = 0 THEN rows ELSE WriteSendingMessage(f[k - 1], box[k])
  BY DEF WrittenBy
<1>2. \A k \in 0..n : g[k] = IF k = 0 THEN rows ELSE WriteSendingMessage(g[k - 1], more[k])
  BY DEF WrittenBy
<1>3. 0 \in T
  BY <1>1, <1>2
<1>4. ASSUME NEW k \in T PROVE k + 1 \in T
  <2> SUFFICES ASSUME k + 1 <= m PROVE f[k + 1] = g[k + 1]
    OBVIOUS
  <2>1. /\ k + 1 \in 0..m /\ k + 1 \in 0..n /\ k + 1 # 0 /\ (k + 1) - 1 = k /\ f[k] = g[k]
        /\ box[k + 1] = more[k + 1]
    OBVIOUS
  <2> QED
    BY <1>1, <1>2, <2>1
<1>5. T = Nat
  <2> HIDE DEF T
  <2>1. T \subseteq Nat
    BY DEF T
  <2> QED
    BY <1>3, <1>4, <2>1, NatSets
<1> QED
  BY <1>5

\* WriteAll is the last value of a solution.
LEMMA WriteAllIsWritten ==
  ASSUME NEW S, NEW box \in Seq(S), NEW rows
  PROVE  \E f : WrittenBy(f, rows, box, Len(box)) /\ WriteAll(rows, box) = f[Len(box)]
<1> DEFINE f == CHOOSE g : WrittenBy(g, rows, box, Len(box))
<1>1. Len(box) \in Nat
  BY LenProperties
<1>2. WrittenBy(f, rows, box, Len(box))
  BY <1>1, WrittenExists
<1>3. WriteAll(rows, box) = f[Len(box)]
  BY DEF WriteAll, WrittenBy
<1> QED
  BY <1>2, <1>3

\* An empty outbox leaves the table alone.
LEMMA WriteNothing ==
  ASSUME NEW rows
  PROVE  WriteAll(rows, <<>>) = rows
<1>1. <<>> \in Seq({}) /\ Len(<<>>) = 0
  BY EmptySeq
<1>2. PICK f : WrittenBy(f, rows, <<>>, 0) /\ WriteAll(rows, <<>>) = f[0]
  BY <1>1, WriteAllIsWritten
<1> QED
  BY <1>2 DEF WrittenBy

\* The last message of the outbox is written last.
LEMMA WritePush ==
  ASSUME NEW S, NEW box \in Seq(S), NEW m \in S, NEW rows
  PROVE  WriteAll(rows, Append(box, m)) = WriteSendingMessage(WriteAll(rows, box), m)
<1> DEFINE more == Append(box, m)
           n == Len(box)
<1>1. n \in Nat /\ more \in Seq(S) /\ Len(more) = n + 1 /\ more[n + 1] = m
      /\ \A i \in 1..n : box[i] = more[i]
  BY AppendProperties, LenProperties
<1>2. PICK f : WrittenBy(f, rows, box, n) /\ WriteAll(rows, box) = f[n]
  BY WriteAllIsWritten
<1>3. PICK g : WrittenBy(g, rows, more, n + 1) /\ WriteAll(rows, more) = g[n + 1]
  BY <1>1, WriteAllIsWritten
<1> HIDE DEF more, n
<1>4. n <= n + 1 /\ n + 1 \in Nat /\ n + 1 \in 0..(n + 1) /\ n + 1 # 0 /\ (n + 1) - 1 = n
  BY <1>1
<1>5. f[n] = g[n]
  BY <1>1, <1>2, <1>3, <1>4, WrittenUnique
<1>6. g[n + 1] = WriteSendingMessage(g[n], more[n + 1])
  BY <1>3, <1>4 DEF WrittenBy
<1> QED
  BY <1>1, <1>2, <1>3, <1>5, <1>6 DEF more

\* What writing one message does: it is appended, or every row of its name
\* becomes that message.
LEMMA WriteOne ==
  ASSUME NEW S, NEW rows \in Seq(S), NEW m \in S
  PROVE  \/ WriteSendingMessage(rows, m) = Append(rows, m)
         \/ /\ m.type.overwrite
            /\ WriteSendingMessage(rows, m) \in Seq(S)
            /\ Len(WriteSendingMessage(rows, m)) = Len(rows)
            /\ \A i \in 1..Len(rows) :
                 WriteSendingMessage(rows, m)[i] = IF SameName(m, rows[i]) THEN m ELSE rows[i]
<1>1. CASE m.type.overwrite /\ \E i \in DOMAIN rows : SameName(m, rows[i])
  <2> DEFINE w == [i \in 1..Len(rows) |-> IF SameName(m, rows[i]) THEN m ELSE rows[i]]
  <2>1. Len(rows) \in Nat /\ DOMAIN rows = 1..Len(rows) /\ \A i \in 1..Len(rows) : rows[i] \in S
    BY LenProperties, ElementOfSeq
  <2>2. WriteSendingMessage(rows, m) = w
    BY <1>1, <2>1 DEF WriteSendingMessage
  <2>3. w \in [1..Len(rows) -> S]
    BY <2>1
  <2>4. w \in Seq(S) /\ Len(w) = Len(rows)
    BY <2>1, <2>3
  <2>5. \A i \in 1..Len(rows) : w[i] = IF SameName(m, rows[i]) THEN m ELSE rows[i]
    OBVIOUS
  <2> HIDE DEF w
  <2> QED
    BY <1>1, <2>2, <2>4, <2>5
<1>2. CASE ~(m.type.overwrite /\ \E i \in DOMAIN rows : SameName(m, rows[i]))
  BY <1>2 DEF WriteSendingMessage
<1> QED
  BY <1>1, <1>2

\* w is rows with messages of box written into it: no row is gone, and each
\* is what it was or a message of box.
Written(S, rows, box, w) ==
  /\ w \in Seq(S) /\ Len(rows) <= Len(w)
  /\ \A i \in 1..Len(w) : (i <= Len(rows) /\ w[i] = rows[i]) \/ w[i] \in Range(box)

\* Writing the outbox keeps the type of the table and deletes no row.
LEMMA WritePoints ==
  ASSUME NEW S
  PROVE  \A rows, box \in Seq(S) : Written(S, rows, box, WriteAll(rows, box))
<1> SUFFICES ASSUME NEW rows \in Seq(S)
             PROVE  \A box \in Seq(S) : Written(S, rows, box, WriteAll(rows, box))
  OBVIOUS
<1> DEFINE Q == {box \in Seq(S) : Written(S, rows, box, WriteAll(rows, box))}
<1>1. <<>> \in Q
  <2>1. Written(S, rows, <<>>, rows)
    BY LenProperties DEF Written
  <2> QED
    BY <2>1, EmptySeq, WriteNothing
<1>2. ASSUME NEW box \in Q, NEW m \in S PROVE Append(box, m) \in Q
  <2> DEFINE w == WriteAll(rows, box)
             v == WriteSendingMessage(w, m)
             more == Append(box, m)
  <2>1. box \in Seq(S) /\ more \in Seq(S) /\ WriteAll(rows, more) = v
    BY Pushed, WritePush
  <2>2. Range(more) = Range(box) \union {m}
    BY <2>1, RangePush
  <2>3. w \in Seq(S) /\ Len(rows) <= Len(w) /\ Len(rows) \in Nat /\ Len(w) \in Nat
        /\ \A i \in 1..Len(w) : (i <= Len(rows) /\ w[i] = rows[i]) \/ w[i] \in Range(box)
    BY LenProperties DEF Written
  <2>4. \/ v = Append(w, m)
        \/ /\ v \in Seq(S) /\ Len(v) = Len(w)
           /\ \A i \in 1..Len(w) : v[i] = IF SameName(m, w[i]) THEN m ELSE w[i]
    BY <2>3, WriteOne
  <2> HIDE DEF w, v, more
  <2>5. CASE v = Append(w, m)
    <3>1. /\ v \in Seq(S) /\ Len(v) = Len(w) + 1 /\ v[Len(w) + 1] = m
          /\ \A i \in 1..Len(w) : v[i] = w[i]
      BY <2>3, <2>5, Pushed
    <3>2. Len(rows) <= Len(v)
      BY <2>3, <3>1
    <3>3. ASSUME NEW i \in 1..Len(v)
          PROVE  (i <= Len(rows) /\ v[i] = rows[i]) \/ v[i] \in Range(more)
      <4>1. i = Len(w) + 1 \/ i \in 1..Len(w)
        BY <2>3, <3>1
      <4> QED
        BY <2>2, <2>3, <3>1, <4>1
    <3>4. Written(S, rows, more, v)
      BY <3>1, <3>2, <3>3 DEF Written
    <3> QED
      BY <2>1, <3>4 DEF more
  <2>6. CASE /\ v \in Seq(S) /\ Len(v) = Len(w)
             /\ \A i \in 1..Len(w) : v[i] = IF SameName(m, w[i]) THEN m ELSE w[i]
    <3>1. ASSUME NEW i \in 1..Len(v)
          PROVE  (i <= Len(rows) /\ v[i] = rows[i]) \/ v[i] \in Range(more)
      BY <2>2, <2>3, <2>6
    <3>2. Written(S, rows, more, v)
      BY <2>3, <2>6, <3>1 DEF Written
    <3> QED
      BY <2>1, <3>2 DEF more
  <2> QED
    BY <2>4, <2>5, <2>6
<1>3. Q = Seq(S)
  <2> HIDE DEF Q
  <2>1. Q \subseteq Seq(S)
    BY DEF Q
  <2> QED
    BY <1>1, <1>2, <2>1, QueueSets
<1> QED
  BY <1>3

\* Without UpdateMessage the outbox is appended to the table.
LEMMA WriteAppends ==
  ASSUME NEW S, \A m \in S : ~m.type.overwrite
  PROVE  \A rows, box \in Seq(S) : WriteAll(rows, box) = rows \o box
<1> SUFFICES ASSUME NEW rows \in Seq(S)
             PROVE  \A box \in Seq(S) : WriteAll(rows, box) = rows \o box
  OBVIOUS
<1> DEFINE Q == {box \in Seq(S) : WriteAll(rows, box) = rows \o box}
<1>1. <<>> \in Q
  BY EmptySeq, WriteNothing, ConcatEmptySeq
<1>2. ASSUME NEW box \in Q, NEW m \in S PROVE Append(box, m) \in Q
  <2> DEFINE w == rows \o box
             more == Append(box, m)
  <2>1. /\ box \in Seq(S) /\ more \in Seq(S) /\ WriteAll(rows, box) = w
        /\ WriteAll(rows, more) = WriteSendingMessage(WriteAll(rows, box), m)
    BY Pushed, WritePush
  <2>2. WriteSendingMessage(w, m) = Append(w, m)
    BY DEF WriteSendingMessage
  <2>3. rows \o more = Append(w, m)
    BY <2>1, TailAdded
  <2> HIDE DEF w, more
  <2>4. more \in Q
    BY <2>1, <2>2, <2>3
  <2> QED
    BY <2>4 DEF more
<1>3. Q = Seq(S)
  <2> HIDE DEF Q
  <2>1. Q \subseteq Seq(S)
    BY DEF Q
  <2> QED
    BY <1>1, <1>2, <2>1, QueueSets
<1> QED
  BY <1>3

\* A message whose name is never used with UpdateMessage does not overwrite,
\* and is not of the name of one that does.
LEMMA PlainIsSent ==
  ASSUME NEW m \in Message
  PROVE  /\ m \in PlainMessage => ~m.type.overwrite
         /\ m.type.overwrite =>
              \A r : (SameName(m, r) => r \notin PlainMessage) /\ m \notin PlainMessage
BY DEF PlainMessage, SameName, Message

\* Of the rows after the first k, writing changes none that is plain and adds
\* the plain messages of the outbox, in order; none of the first k that is
\* plain is changed.
LEMMA WritePlain ==
  ASSUME NEW k \in Nat
  PROVE  \A rows, box \in Seq(Message) : k <= Len(rows) =>
           /\ Plain(SubSeq(WriteAll(rows, box), k + 1, Len(WriteAll(rows, box)))) =
                Plain(SubSeq(rows, k + 1, Len(rows)) \o box)
           /\ \A i \in 1..Len(rows) :
                \/ WriteAll(rows, box)[i] = rows[i]
                \/ WriteAll(rows, box)[i] \notin PlainMessage /\ rows[i] \notin PlainMessage
<1> DEFINE Kept(q) == Filter(SubSeq(q, k + 1, Len(q)), PlainMessage)
           Like(q, r) == \A i \in 1..Len(r) :
                           q[i] = r[i] \/ (q[i] \notin PlainMessage /\ r[i] \notin PlainMessage)
           Push(q, m) == IF m \in PlainMessage THEN Append(q, m) ELSE q
<1>1. ASSUME NEW w \in Seq(Message), NEW m \in Message, k <= Len(w)
      PROVE  /\ Kept(WriteSendingMessage(w, m)) = Push(Kept(w), m)
             /\ Like(WriteSendingMessage(w, m), w)
  <2> DEFINE v == WriteSendingMessage(w, m)
             a == SubSeq(w, k + 1, Len(w))
             b == SubSeq(v, k + 1, Len(v))
             n == Len(w) - k
  <2>1. Len(w) \in Nat /\ k \in 0..Len(w) /\ n \in Nat
    BY <1>1, LenProperties
  <2>2. a \in Seq(Message) /\ Len(a) = n /\ \A i \in 1..n : a[i] = w[k + i]
    BY <2>1, After
  <2>3. Kept(w) = Filter(a, PlainMessage) /\ Kept(v) = Filter(b, PlainMessage)
    OBVIOUS
  <2>4. \/ v = Append(w, m)
        \/ /\ m.type.overwrite /\ v \in Seq(Message) /\ Len(v) = Len(w)
           /\ \A i \in 1..Len(w) : v[i] = IF SameName(m, w[i]) THEN m ELSE w[i]
    BY WriteOne
  <2> HIDE DEF v, Kept
  <2>5. CASE v = Append(w, m)
    <3>1. /\ v \in Seq(Message) /\ Len(v) = Len(w) + 1 /\ v[Len(w) + 1] = m
          /\ \A i \in 1..Len(w) : v[i] = w[i]
      BY <2>5, Pushed
    <3>2. k \in 0..Len(v)
      BY <2>1, <3>1
    <3>3. b \in Seq(Message) /\ Len(b) = Len(v) - k /\ \A i \in 1..(Len(v) - k) : b[i] = v[k + i]
      BY <3>1, <3>2, After
    <3>4. Append(a, m) \in Seq(Message) /\ Len(Append(a, m)) = n + 1 /\ Append(a, m)[n + 1] = m
          /\ \A i \in 1..n : Append(a, m)[i] = a[i]
      <4> HIDE DEF a, n
      <4> QED
        BY <2>2, Pushed
    <3>5. b = Append(a, m)
      <4> DEFINE c == Append(a, m)
      <4>1. ASSUME NEW i \in 1..Len(b) PROVE b[i] = c[i]
        <5>1. i = n + 1 \/ i \in 1..n
          BY <2>1, <3>1, <3>3
        <5>2. CASE i = n + 1
          <6>1. b[i] = v[Len(w) + 1]
            BY <2>1, <3>1, <3>3, <5>2
          <6> QED
            BY <3>1, <3>4, <5>2, <6>1
        <5>3. CASE i \in 1..n
          <6>1. b[i] = v[k + i] /\ k + i \in 1..Len(w)
            BY <2>1, <3>1, <3>3, <5>3
          <6> QED
            BY <2>2, <3>1, <3>4, <5>3, <6>1
        <5> QED
          BY <5>1, <5>2, <5>3
      <4>2. Len(b) = Len(c)
        BY <2>1, <3>1, <3>3, <3>4
      <4> HIDE DEF c, b
      <4>3. c \in Seq(Message)
        BY <3>4 DEF c
      <4>4. b = c
        BY <3>3, <4>1, <4>2, <4>3, SeqEqual
      <4> QED
        BY <4>4 DEF c
    <3>6. Kept(v) = Push(Kept(w), m)
      <4> HIDE DEF a, b
      <4> QED
        BY <2>2, <2>3, <3>5, FilterPush
    <3> QED
      BY <3>1, <3>6 DEF v
  <2>6. CASE /\ m.type.overwrite /\ v \in Seq(Message) /\ Len(v) = Len(w)
             /\ \A i \in 1..Len(w) : v[i] = IF SameName(m, w[i]) THEN m ELSE w[i]
    <3>1. m \notin PlainMessage /\ \A r : SameName(m, r) => r \notin PlainMessage
      BY <2>6, PlainIsSent
    <3>2. Like(v, w)
      BY <2>6, <3>1
    <3>3. b \in Seq(Message) /\ Len(b) = n /\ \A i \in 1..n : b[i] = v[k + i]
      BY <2>1, <2>6, After
    <3>4. Alike(PlainMessage, a, b)
      <4> SUFFICES ASSUME NEW i \in 1..n
                   PROVE  a[i] = b[i] \/ (a[i] \notin PlainMessage /\ b[i] \notin PlainMessage)
        BY <2>2, <3>3 DEF Alike
      <4>1. k + i \in 1..Len(w) /\ a[i] = w[k + i] /\ b[i] = v[k + i]
        BY <2>1, <2>2, <3>3
      <4> QED
        BY <3>2, <4>1
    <3>5. Kept(v) = Kept(w)
      <4> HIDE DEF a, b
      <4> QED
        BY <2>2, <2>3, <3>3, <3>4, FilterSame
    <3> QED
      BY <3>1, <3>2, <3>5 DEF v
  <2> QED
    BY <2>4, <2>5, <2>6
<1>2. \A q \in Seq(Message) : \A m \in Message :
        Filter(Append(q, m), PlainMessage) = Push(Filter(q, PlainMessage), m)
  BY FilterPush
<1>3. \A q, r \in Seq(Message) : \A m \in Message : q \o Append(r, m) = Append(q \o r, m)
  BY TailAdded
<1>4. \A rows, box \in Seq(Message) : Written(Message, rows, box, WriteAll(rows, box))
  BY WritePoints
<1> HIDE DEF Kept, Push
<1> SUFFICES ASSUME NEW rows \in Seq(Message), k <= Len(rows)
             PROVE  \A box \in Seq(Message) :
                      /\ Kept(WriteAll(rows, box)) =
                           Filter(SubSeq(rows, k + 1, Len(rows)) \o box, PlainMessage)
                      /\ Like(WriteAll(rows, box), rows)
  BY DEF Plain, Kept
<1> DEFINE rest == SubSeq(rows, k + 1, Len(rows))
           Fine(box) == /\ Kept(WriteAll(rows, box)) = Filter(rest \o box, PlainMessage)
                        /\ Like(WriteAll(rows, box), rows)
           Q == {box \in Seq(Message) : Fine(box)}
<1>5. Len(rows) \in Nat /\ rest \in Seq(Message)
  <2>1. Len(rows) \in Nat /\ k \in 0..Len(rows)
    BY LenProperties
  <2> QED
    BY <2>1, After
<1>6. Kept(rows) = Filter(rest, PlainMessage)
  BY DEF Kept
<1> HIDE DEF rest
<1>7. <<>> \in Q
  <2>1. rest \o <<>> = rest
    BY <1>5, ConcatEmptySeq
  <2>2. Fine(<<>>)
    BY <1>6, <2>1, WriteNothing
  <2> QED
    BY <2>2, EmptySeq
<1>8. ASSUME NEW box \in Q, NEW m \in Message PROVE Append(box, m) \in Q
  <2> DEFINE w == WriteAll(rows, box)
             v == WriteSendingMessage(w, m)
             more == Append(box, m)
             q == rest \o box
  <2>1. /\ box \in Seq(Message) /\ more \in Seq(Message)
        /\ WriteAll(rows, more) = WriteSendingMessage(WriteAll(rows, box), m)
    BY Pushed, WritePush
  <2>2. Fine(box)
    OBVIOUS
  <2>3. w \in Seq(Message) /\ Len(rows) <= Len(w) /\ Len(w) \in Nat
    BY <1>4, <2>1, LenProperties DEF Written
  <2>4. k <= Len(w)
    BY <1>5, <2>3
  <2>5. Kept(v) = Push(Kept(w), m) /\ Like(v, w)
    <3> HIDE DEF v, w, Like
    <3> QED
      BY <1>1, <2>3, <2>4 DEF v
  <2>6. rest \o more = Append(q, m) /\ q \in Seq(Message)
    BY <1>3, <1>5, <2>1, ConcatProperties
  <2>7. Filter(Append(q, m), PlainMessage) = Push(Filter(q, PlainMessage), m)
    <3> HIDE DEF q
    <3> QED
      BY <1>2, <2>6
  <2>8. Like(v, rows)
    <3>1. Like(v, w) /\ Like(w, rows)
      BY <2>2, <2>5
    <3> HIDE DEF v, w
    <3>2. \A i \in 1..Len(rows) : i \in 1..Len(w)
      BY <1>5, <2>3
    <3> QED
      BY <3>1, <3>2
  <2>9. Fine(more)
    <3>1. Kept(w) = Filter(q, PlainMessage)
      BY <2>2
    <3> HIDE DEF Like, q
    <3>2. Kept(v) = Filter(rest \o more, PlainMessage)
      BY <2>5, <2>6, <2>7, <3>1
    <3> QED
      BY <2>1, <2>8, <3>2
  <2> QED
    BY <2>1, <2>9
<1>9. Q = Seq(Message)
  <2> HIDE DEF Q
  <2>1. Q \subseteq Seq(Message)
    BY DEF Q
  <2> QED
    BY <1>7, <1>8, <2>1, QueueSets
<1> QED
  BY <1>9 DEF rest

-----------------------------------------------------------------------------
(* Messages of one name in order.                                          *)

\* Of two messages of a name in q the later one is not older.
Ordered(q) ==
  \A i, j \in 1..Len(q) : i < j /\ SameName(q[i], q[j]) => q[i].seq <= q[j].seq

\* m is not older than a, if they are of one name.
Precedes(a, m) == SameName(a, m) => a.seq <= m.seq

\* No message in r is older than one of its name in q.
Before(q, r) == \A a \in Range(q), b \in Range(r) : Precedes(a, b)

\* A message that comes last and is not older.
LEMMA OrderedPush ==
  ASSUME NEW q \in Seq(Message), NEW m \in Message
  PROVE  Ordered(Append(q, m)) <=> Ordered(q) /\ \A a \in Range(q) : Precedes(a, m)
<1> DEFINE r == Append(q, m)
           n == Len(q)
<1>1. /\ n \in Nat /\ r \in Seq(Message) /\ Len(r) = n + 1 /\ r[n + 1] = m
      /\ \A i \in 1..n : r[i] = q[i]
  BY Pushed, LenProperties
<1>2. /\ \A i \in 1..n : q[i] \in Range(q)
      /\ \A x \in Range(q) : \E i \in 1..n : q[i] = x
  BY RangeIs
<1> HIDE DEF r, n
<1>3. ASSUME Ordered(q), \A a \in Range(q) : Precedes(a, m)
      PROVE  Ordered(r)
  <2> SUFFICES ASSUME NEW i \in 1..(n + 1), NEW j \in 1..(n + 1), i < j, SameName(r[i], r[j])
               PROVE  r[i].seq <= r[j].seq
    BY <1>1 DEF Ordered
  <2>1. i \in 1..n /\ (j = n + 1 \/ j \in 1..n) /\ r[i] = q[i]
    BY <1>1
  <2>2. CASE j = n + 1
    BY <1>1, <1>2, <1>3, <2>1, <2>2 DEF Precedes
  <2>3. CASE j \in 1..n
    BY <1>1, <1>3, <2>1, <2>3 DEF Ordered, n
  <2> QED
    BY <2>1, <2>2, <2>3
<1>4. ASSUME Ordered(r) PROVE Ordered(q) /\ \A a \in Range(q) : Precedes(a, m)
  <2>1. Ordered(q)
    <3> SUFFICES ASSUME NEW i \in 1..n, NEW j \in 1..n, i < j, SameName(q[i], q[j])
                 PROVE  q[i].seq <= q[j].seq
      BY DEF Ordered, n
    <3>1. i \in 1..Len(r) /\ j \in 1..Len(r) /\ r[i] = q[i] /\ r[j] = q[j]
      BY <1>1
    <3> QED
      BY <1>4, <3>1 DEF Ordered
  <2>2. ASSUME NEW a \in Range(q) PROVE Precedes(a, m)
    <3>1. PICK i \in 1..n : q[i] = a
      BY <1>2
    <3>2. i \in 1..Len(r) /\ n + 1 \in 1..Len(r) /\ i < n + 1 /\ r[i] = a /\ r[n + 1] = m
      BY <1>1, <3>1
    <3> QED
      BY <1>4, <3>2 DEF Ordered, Precedes
  <2> QED
    BY <2>1, <2>2
<1> QED
  BY <1>3, <1>4 DEF r

\* A message that comes first.
LEMMA OrderedPop ==
  ASSUME NEW q \in Seq(Message), q # <<>>, Ordered(q)
  PROVE  Ordered(Tail(q)) /\ \A b \in Range(Tail(q)) : Precedes(Head(q), b)
<1> DEFINE t == Tail(q)
           n == Len(q)
<1>1. /\ n \in Nat \ {0} /\ Head(q) = q[1] /\ t \in Seq(Message) /\ Len(t) = n - 1
      /\ \A i \in 1..Len(t) : t[i] = q[i + 1]
  BY Popped
<1> HIDE DEF t, n
<1>2. ASSUME NEW i \in 1..Len(t), NEW j \in 1..Len(t), i < j, SameName(t[i], t[j])
      PROVE  t[i].seq <= t[j].seq
  <2>1. /\ i + 1 \in 1..n /\ j + 1 \in 1..n /\ i + 1 < j + 1
        /\ t[i] = q[i + 1] /\ t[j] = q[j + 1]
    BY <1>1, <1>2
  <2> QED
    BY <1>2, <2>1 DEF Ordered, n
<1>3. ASSUME NEW b \in Range(t) PROVE Precedes(Head(q), b)
  <2>1. PICK i \in 1..Len(t) : t[i] = b
    BY <1>1, <1>3, RangeIs
  <2>2. 1 \in 1..n /\ i + 1 \in 1..n /\ 1 < i + 1 /\ b = q[i + 1]
    BY <1>1, <2>1
  <2> QED
    BY <1>1, <2>2 DEF Ordered, Precedes, n
<1> QED
  BY <1>2, <1>3 DEF Ordered, t

\* The end of a queue.
LEMMA OrderedAfter ==
  ASSUME NEW q \in Seq(Message), NEW k \in 0..Len(q)
  PROVE  /\ Ordered(q) => Ordered(SubSeq(q, k + 1, Len(q)))
         /\ Range(SubSeq(q, k + 1, Len(q))) \subseteq Range(q)
<1> DEFINE r == SubSeq(q, k + 1, Len(q))
           n == Len(q)
<1>1. n \in Nat /\ r \in Seq(Message) /\ Len(r) = n - k /\ \A i \in 1..(n - k) : r[i] = q[k + i]
  BY After, LenProperties
<1>2. \A i \in 1..n : q[i] \in Range(q)
  BY RangeIs
<1> HIDE DEF r, n
<1>3. ASSUME Ordered(q), NEW i \in 1..Len(r), NEW j \in 1..Len(r), i < j, SameName(r[i], r[j])
      PROVE  r[i].seq <= r[j].seq
  <2>1. k + i \in 1..n /\ k + j \in 1..n /\ k + i < k + j /\ r[i] = q[k + i] /\ r[j] = q[k + j]
    BY <1>1, <1>3 DEF n
  <2> QED
    BY <1>3, <2>1 DEF Ordered, n
<1>4. ASSUME NEW x \in Range(r) PROVE x \in Range(q)
  <2>1. PICK i \in 1..Len(r) : r[i] = x
    BY <1>1, <1>4, RangeIs
  <2>2. k + i \in 1..n /\ x = q[k + i]
    BY <1>1, <2>1 DEF n
  <2> QED
    BY <1>2, <2>2
<1> QED
  BY <1>3, <1>4 DEF Ordered, r, n

\* Writing an outbox of which no message is older than a row of its name
\* leaves the rows of each name in order.
LEMMA WriteOrdered ==
  \A rows, box \in Seq(Message) :
    Ordered(rows) /\ Ordered(box) /\ Before(rows, box) => Ordered(WriteAll(rows, box))
<1>1. \A rows, box \in Seq(Message) : Written(Message, rows, box, WriteAll(rows, box))
  BY WritePoints
<1> SUFFICES ASSUME NEW rows \in Seq(Message), Ordered(rows)
             PROVE  \A box \in Seq(Message) :
                      Ordered(box) /\ Before(rows, box) => Ordered(WriteAll(rows, box))
  OBVIOUS
<1> DEFINE Fine(box) == Ordered(box) /\ Before(rows, box) => Ordered(WriteAll(rows, box))
           Q == {box \in Seq(Message) : Fine(box)}
<1>2. <<>> \in Q
  BY WriteNothing, EmptySeq
<1>3. ASSUME NEW box \in Q, NEW m \in Message PROVE Append(box, m) \in Q
  <2> DEFINE w == WriteAll(rows, box)
             v == WriteSendingMessage(w, m)
             more == Append(box, m)
  <2>1. /\ box \in Seq(Message) /\ more \in Seq(Message)
        /\ WriteAll(rows, more) = WriteSendingMessage(WriteAll(rows, box), m)
    BY Pushed, WritePush
  <2>2. Range(more) = Range(box) \union {m}
    BY <2>1, RangePush
  <2> SUFFICES ASSUME Ordered(more), Before(rows, more) PROVE Ordered(v)
    BY <2>1
  <2>3. Ordered(box) /\ \A a \in Range(box) : Precedes(a, m)
    BY <2>1, OrderedPush
  <2>4. Before(rows, box) /\ \A a \in Range(rows) : Precedes(a, m)
    BY <2>2 DEF Before
  <2>5. Ordered(w)
    BY <2>3, <2>4
  <2>6. w \in Seq(Message) /\ \A a \in Range(w) : a \in Range(rows) \/ a \in Range(box)
    <3>1. Written(Message, rows, box, w)
      BY <1>1, <2>1
    <3> HIDE DEF w
    <3>2. w \in Seq(Message)
      BY <3>1 DEF Written
    <3>3. ASSUME NEW a \in Range(w) PROVE a \in Range(rows) \/ a \in Range(box)
      <4>1. PICK i \in 1..Len(w) : w[i] = a
        BY <3>2, <3>3, RangeIs
      <4>2. CASE i <= Len(rows) /\ w[i] = rows[i]
        <5>1. i \in 1..Len(rows) /\ a = rows[i]
          BY <4>1, <4>2, LenProperties
        <5> QED
          BY <5>1, RangeIs
      <4> QED
        BY <3>1, <4>1, <4>2 DEF Written
    <3> QED
      BY <3>2, <3>3
  <2>7. \A a \in Range(w) : Precedes(a, m)
    BY <2>3, <2>4, <2>6
  <2> HIDE DEF w, Fine
  <2>8. CASE v = Append(w, m)
    BY <2>5, <2>6, <2>7, <2>8, OrderedPush
  <2>9. CASE /\ v \in Seq(Message) /\ Len(v) = Len(w)
             /\ \A i \in 1..Len(w) : v[i] = IF SameName(m, w[i]) THEN m ELSE w[i]
    <3> HIDE DEF v
    <3> SUFFICES ASSUME NEW i \in 1..Len(w), NEW j \in 1..Len(w), i < j, SameName(v[i], v[j])
                 PROVE  v[i].seq <= v[j].seq
      BY <2>9 DEF Ordered
    <3>1. m.seq \in Nat
      BY DEF Message
    <3>2. CASE SameName(m, w[i])
      <4>1. v[i] = m /\ v[j] = m
        BY <2>9, <3>2 DEF SameName
      <4> QED
        BY <3>1, <4>1
    <3>3. CASE ~SameName(m, w[i])
      <4>1. v[i] = w[i] /\ v[j] = w[j]
        BY <2>9, <3>3 DEF SameName
      <4> QED
        BY <2>5, <4>1 DEF Ordered
    <3> QED
      BY <3>2, <3>3
  <2> QED
    BY <2>6, <2>8, <2>9, WriteOne
<1>4. Q = Seq(Message)
  <2> HIDE DEF Q
  <2>1. Q \subseteq Seq(Message)
    BY DEF Q
  <2> QED
    BY <1>2, <1>3, <2>1, QueueSets
<1> QED
  BY <1>4

-----------------------------------------------------------------------------
(* What the steps do.                                                      *)

\* TypeOK in parts: where the threads are, and what is in the queues.
ControlOK ==
  /\ running \in [Endpoints -> BOOLEAN]
  /\ sendPC \in [Endpoints -> SendPCs]
  /\ recvPC \in [Endpoints -> RecvPCs]
  /\ appPC \in [Endpoints -> AppPCs]
  /\ txn \in [Endpoints -> {"none", "send", "delete"}]
  /\ lock \in [Endpoints -> {"none", "shared", "reserved"}]
  /\ thrown \in [Endpoints -> SUBSET {"send", "delete"}]
  /\ aborted \in [Endpoints -> BOOLEAN]
  /\ malformed \in BOOLEAN
  /\ restarts \in 0..MaxRestarts

QueuesOK ==
  /\ outbox \in [Endpoints -> Seq(Message)]
  /\ inbox \in [Endpoints -> Seq(Message)]
  /\ sent \in [Endpoints -> Seq(Message)]
  /\ handled \in [Endpoints -> Seq(Message)]
  /\ table \in [Endpoints -> Seq(Message)]
  /\ selected \in [Endpoints -> Nat]

\* A step that leaves the queues and the tables alone.
Quiet == UNCHANGED <<outbox, inbox, sent, handled, table, selected, clobbered>>

\* The application or a listener of e submits m.
Submits(e, m) ==
  /\ m.from = e /\ m.seq = Len(sent[e]) + 1 /\ m \in Message
  /\ outbox' = [outbox EXCEPT ![e] = Append(outbox[e], m)]
  /\ sent' = [sent EXCEPT ![e] = Append(sent[e], m)]
  /\ UNCHANGED <<inbox, handled, table, selected, clobbered>>

\* Distribute pops a message.
Handles(e) ==
  /\ inbox[e] # <<>> /\ recvPC[e] = "distribute"
  /\ inbox' = [inbox EXCEPT ![e] = Tail(inbox[e])]
  /\ handled' = [handled EXCEPT ![e] = Append(handled[e], Head(inbox[e]))]
  /\ UNCHANGED <<outbox, sent, table, selected, clobbered>>

\* The outbox is written into the table of the peer.
Commits(e) ==
  /\ table' = [table EXCEPT ![Peer(e)] = WriteAll(table[Peer(e)], outbox[e])]
  /\ outbox' = [outbox EXCEPT ![e] = <<>>]
  /\ UNCHANGED <<inbox, sent, handled, selected>>

\* All rows are read.
Selects(e) ==
  /\ recvPC[e] = "receive" /\ selected[e] = 0
  /\ inbox' = [inbox EXCEPT ![e] = inbox[e] \o table[e]]
  /\ selected' = [selected EXCEPT ![e] = Len(table[e])]
  /\ UNCHANGED <<outbox, sent, handled, table, clobbered>>

\* The rows that were read are deleted.
Deletes(e) ==
  /\ table' = [table EXCEPT ![e] = SubSeq(table[e], selected[e] + 1, Len(table[e]))]
  /\ selected' = [selected EXCEPT ![e] = 0]
  /\ UNCHANGED <<outbox, inbox, sent, handled, clobbered>>

\* A process begins with empty queues.
Restarts(e) ==
  /\ restarts' = restarts + 1
  /\ outbox' = [outbox EXCEPT ![e] = <<>>]
  /\ inbox' = [inbox EXCEPT ![e] = <<>>]
  /\ selected' = [selected EXCEPT ![e] = 0]
  /\ UNCHANGED <<sent, handled, table, clobbered>>

\* The file is malformed, and no row can be read any more.
Tears(e) ==
  /\ malformed' /\ lock[e] = "reserved" /\ aborted'[e]
  /\ table' = [f \in Endpoints |-> <<>>] /\ selected' = [f \in Endpoints |-> 0]
  /\ UNCHANGED <<outbox, inbox, sent, handled, clobbered>>

\* SendMessage makes a message of the caller.
LEMMA SendMessageSubmits ==
  ASSUME ControlOK, QueuesOK, NEW e \in Endpoints, NEW t \in Types, SendMessage(e, t),
         UNCHANGED <<inbox, handled, mediumVars>>
  PROVE  (\E m : Submits(e, m)) /\ sendPC' \in [Endpoints -> SendPCs]
<1> DEFINE m == [from |-> e, seq |-> Len(sent[e]) + 1, type |-> t]
<1>1. Len(sent[e]) \in Nat
  BY LenProperties DEF QueuesOK
<1>2. m.from = e /\ m.seq = Len(sent[e]) + 1 /\ m \in Message
  BY <1>1 DEF Message
<1>3. Submits(e, m)
  BY <1>2 DEF SendMessage, Submits, mediumVars
<1>4. sendPC' \in [Endpoints -> SendPCs]
  BY DEF SendMessage, NotifyAll, ControlOK, SendPCs
<1> QED
  BY <1>3, <1>4

\* What a step outside the medium does.
LEMMA CoreEffects ==
  ASSUME ControlOK, QueuesOK, NEW e \in Endpoints, CoreStep(e), UNCHANGED mediumVars
  PROVE  ControlOK' /\ (Quiet \/ Handles(e) \/ \E m : Submits(e, m))
<1> USE DEF Quiet
<1>1. CASE AppSend(e)
  BY <1>1, SendMessageSubmits DEF AppSend, ControlOK, mediumVars
<1>2. CASE SendThread(e)
  BY <1>2 DEF SendThread, SendLoopTest, SendAcquire, SendBlock, SendTest, SendMoves,
     UnchangedBySendLoop, ControlOK, SendPCs, mediumVars
<1>3. CASE SpuriousWakeup(e)
  BY <1>3 DEF SpuriousWakeup, SendMoves, UnchangedBySendLoop, ControlOK, SendPCs, mediumVars
<1>4. CASE RecvLoopTest(e)
  BY <1>4 DEF RecvLoopTest, RecvMoves, ControlOK, RecvPCs, mediumVars
<1>5. CASE Distribute(e)
  BY <1>5 DEF Distribute, RecvMoves, Handles, ControlOK, RecvPCs, mediumVars
<1>6. CASE DistributeEnd(e)
  BY <1>6 DEF DistributeEnd, RecvMoves, ControlOK, RecvPCs, mediumVars
<1>7. CASE Reply(e)
  <2>1. recvPC' \in [Endpoints -> RecvPCs]
    BY <1>7 DEF Reply, RecvMoves, ControlOK, RecvPCs
  <2> QED
    BY <1>7, <2>1, SendMessageSubmits DEF Reply, ControlOK, mediumVars
<1>8. CASE StopRunning(e)
  BY <1>8 DEF StopRunning, AppMoves, ControlOK, AppPCs, mediumVars
<1>9. CASE Terminate(e)
  BY <1>9 DEF Terminate, StopNotify, JoinAndDelete, NotifyAll, AppMoves, ControlOK,
     AppPCs, SendPCs, mediumVars
<1> QED
  BY <1>1, <1>2, <1>3, <1>4, <1>5, <1>6, <1>7, <1>8, <1>9 DEF CoreStep, RecvThread

\* A BEGIN, the locks and the exceptions leave the queues alone.
Prepares(e) ==
  \/ SendBegin(e) \/ DeleteBegin(e) \/ StatementFails(e)
  \/ WriteLock(e, "send") \/ WriteLock(e, "delete")

LEMMA BeginEffects ==
  ASSUME ControlOK, NEW e \in Endpoints, Prepares(e)
  PROVE  ControlOK' /\ Quiet /\ UNCHANGED <<recvPC, restarts, malformed>>
<1>1. CASE SendBegin(e) \/ DeleteBegin(e)
  BY <1>1 DEF SendBegin, DeleteBegin, Begin, Throws, coreVars, ControlOK, Quiet
<1>2. CASE StatementFails(e)
  <2>1. PICK u \in {"send", "delete"} : Throws(e, u) /\ UNCHANGED coreVars
    BY <1>2 DEF StatementFails
  <2> QED
    BY <2>1 DEF Throws, coreVars, ControlOK, Quiet
<1>3. ASSUME NEW u \in {"send", "delete"}, WriteLock(e, u)
      PROVE  ControlOK' /\ Quiet /\ UNCHANGED <<recvPC, restarts, malformed>>
  BY <1>3 DEF WriteLock, Throws, coreVars, ControlOK, Quiet
<1> QED
  BY <1>1, <1>2, <1>3 DEF Prepares

\* So does the end of a process, unless it leaves a malformed file.
LEMMA EndEffects ==
  ASSUME ControlOK, NEW e \in Endpoints, Ends(e)
  PROVE  /\ ControlOK' /\ UNCHANGED <<recvPC, restarts>> /\ (malformed => malformed')
         /\ Quiet \/ Tears(e)
<1>1. UNCHANGED <<outbox, inbox, sent, handled, clobbered, running, sendPC, recvPC, appPC,
                  txn, thrown, restarts>>
      /\ aborted' = [aborted EXCEPT ![e] = TRUE] /\ lock' = [lock EXCEPT ![e] = "none"]
  BY DEF Ends, coreVars
<1>2. CASE UNCHANGED <<table, selected, malformed>>
  BY <1>1, <1>2 DEF ControlOK, Quiet
<1>3. CASE /\ malformed' = TRUE /\ lock[e] = "reserved"
           /\ table' = [f \in Endpoints |-> <<>>] /\ selected' = [f \in Endpoints |-> 0]
  BY <1>1, <1>3 DEF ControlOK, Tears
<1> QED
  BY <1>2, <1>3 DEF Ends

\* What the second transaction of SendMessages does.
LEMMA CommitEffects ==
  ASSUME ControlOK, NEW e \in Endpoints, SendCommit(e)
  PROVE  /\ ControlOK' /\ Commits(e) /\ UNCHANGED <<recvPC, restarts, malformed>>
         /\ clobbered' = clobbered \cup
              {WriteAll(table[Peer(e)], outbox[e])[i] : i \in
                {j \in 1..selected[Peer(e)] :
                   WriteAll(table[Peer(e)], outbox[e])[j] # table[Peer(e)][j]}}
BY DEF SendCommit, CommitLock, SendTableOf, SendMoves, UnchangedBySendLoop, ControlOK, SendPCs,
   Commits

\* What SELECT does.
LEMMA SelectEffects ==
  ASSUME ControlOK, QueuesOK, NEW e \in Endpoints, Select(e)
  PROVE  /\ ControlOK' /\ UNCHANGED <<restarts, malformed>>
         /\ recvPC[e] = "receive" /\ selected[e] = 0 /\ ~malformed
         /\ \/ table[e] # <<>> /\ Selects(e) /\ UNCHANGED recvPC
            \/ table[e] = <<>> /\ Quiet /\ recvPC' = [recvPC EXCEPT ![e] = "check"]
<1> DEFINE kept == IF txn[e] # "none" /\ lock[e] = "none" THEN "shared" ELSE lock[e]
<1>0. lock' = [lock EXCEPT ![e] = kept] /\ lock' \in [Endpoints -> {"none", "shared", "reserved"}]
  <2>1. lock' = [lock EXCEPT ![e] = kept]
    BY DEF Select
  <2>2. kept \in {"none", "shared", "reserved"}
    BY DEF ControlOK
  <2> HIDE DEF kept
  <2> QED
    BY <2>1, <2>2 DEF ControlOK
<1> HIDE DEF kept
<1>1. CASE table[e] # <<>>
  <2>1. recvPC' = recvPC /\ recvPC[e] = "receive" /\ selected[e] = 0
    <3>1. recvPC[e] = "receive" /\ recvPC' = [recvPC EXCEPT ![e] = "receive"] /\ selected[e] = 0
      BY <1>1 DEF Select, RecvMoves
    <3> QED
      BY <3>1 DEF ControlOK
  <2> QED
    BY <1>0, <1>1, <2>1 DEF Select, ControlOK, Selects
<1>2. CASE table[e] = <<>>
  BY <1>0, <1>2 DEF Select, RecvMoves, ControlOK, RecvPCs, Quiet
<1> QED
  BY <1>1, <1>2

\* What DELETE does.
LEMMA DeleteEffects ==
  ASSUME ControlOK, NEW e \in Endpoints, DeleteOldMessages(e)
  PROVE  /\ ControlOK' /\ Deletes(e) /\ UNCHANGED <<restarts, malformed>>
         /\ recvPC' = [recvPC EXCEPT ![e] = "distribute"]
BY DEF DeleteOldMessages, CommitLock, OldRows, RecvMoves, ControlOK, RecvPCs, Deletes

\* What starting a process again does.
LEMMA RestartEffects ==
  ASSUME ControlOK, NEW e \in Endpoints, Restart(e)
  PROVE  /\ ControlOK' /\ Restarts(e) /\ UNCHANGED malformed
         /\ recvPC' = [recvPC EXCEPT ![e] = "check"]
BY SqliteAssumption DEF Restart, TablesFound, ControlOK, SendPCs, RecvPCs, AppPCs, Restarts

-----------------------------------------------------------------------------
(* Where the receive thread is, and what it has read.                      *)

\* A malformed file never becomes whole again.
LEMMA MalformedStays ==
  ASSUME ControlOK, QueuesOK, Next
  PROVE  malformed => malformed'
<1>1. ASSUME NEW e \in Endpoints, CoreStep(e) /\ UNCHANGED mediumVars PROVE UNCHANGED malformed
  BY <1>1 DEF mediumVars
<1> QED
  BY <1>1, BeginEffects, EndEffects, CommitEffects, SelectEffects, DeleteEffects, RestartEffects
     DEF Next, EndpointStep, SendMessages, ReceiveMessages, Prepares, Terminates, Crash

\* Before the rows are read the inbox is empty, unless they will never be;
\* rows stay selected only until they are deleted, in the same call.
PhaseAt(e) ==
  /\ recvPC[e] \in {"check", "done"} => inbox[e] = <<>>
  /\ recvPC[e] = "receive" /\ selected[e] = 0 /\ ~malformed => inbox[e] = <<>>
  /\ selected[e] # 0 => recvPC[e] = "receive"

Phases == \A e \in Endpoints : PhaseAt(e)

\* A step of one object that keeps its own phase keeps that of the other.
LEMMA PhaseAlone ==
  ASSUME Phases, NEW e \in Endpoints, PhaseAt(e)', malformed => malformed',
         \A f \in Endpoints : f # e =>
           recvPC'[f] = recvPC[f] /\ inbox'[f] = inbox[f] /\ selected'[f] = selected[f]
  PROVE  Phases'
<1> SUFFICES ASSUME NEW f \in Endpoints, f # e PROVE PhaseAt(f)'
  BY DEF Phases
<1>1. PhaseAt(f)
  BY DEF Phases
<1>2. recvPC'[f] = recvPC[f] /\ inbox'[f] = inbox[f] /\ selected'[f] = selected[f]
  OBVIOUS
<1> QED
  BY <1>1, <1>2 DEF PhaseAt

\* Every step keeps the phases.
LEMMA PhaseStep ==
  ASSUME ControlOK, QueuesOK, Phases, Next
  PROVE  Phases'
<1>1. \A e \in Endpoints : PhaseAt(e)
  BY DEF Phases
<1>2. DOMAIN recvPC = Endpoints /\ DOMAIN inbox = Endpoints /\ DOMAIN selected = Endpoints
      /\ malformed \in BOOLEAN
  BY DEF ControlOK, QueuesOK
<1>0. malformed => malformed'
  BY MalformedStays
<1>3. ASSUME UNCHANGED <<recvPC, inbox, selected>> PROVE Phases'
  <2> SUFFICES ASSUME NEW e \in Endpoints PROVE PhaseAt(e)'
    BY DEF Phases
  <2> QED
    BY <1>1, <1>3, <1>0 DEF PhaseAt
<1>4. ASSUME NEW e \in Endpoints, CoreStep(e), UNCHANGED mediumVars
      PROVE  Phases'
  <2>1. selected' = selected
    BY <1>4 DEF mediumVars
  <2>2. CASE AppSend(e) \/ SendThread(e) \/ SpuriousWakeup(e) \/ StopRunning(e) \/ Terminate(e)
    <3>1. UNCHANGED <<recvPC, inbox>>
      BY <2>2 DEF AppSend, SendThread, SendLoopTest, SendAcquire, SendBlock, SendTest,
         SpuriousWakeup, UnchangedBySendLoop, StopRunning, Terminate, StopNotify, JoinAndDelete
    <3> QED
      BY <1>3, <2>1, <3>1
  <2>3. CASE RecvLoopTest(e)
    <3>1. /\ recvPC[e] = "check" /\ inbox' = inbox
          /\ recvPC'[e] \in {"receive", "done"}
          /\ \A f \in Endpoints : f # e => recvPC'[f] = recvPC[f]
      BY <1>2, <2>3 DEF RecvLoopTest, RecvMoves
    <3>2. PhaseAt(e)'
      BY <1>1, <2>1, <3>1 DEF PhaseAt
    <3> QED
      BY <2>1, <3>1, <3>2, <1>0, PhaseAlone
  <2>4. CASE Distribute(e)
    <3>1. /\ recvPC[e] = "distribute" /\ recvPC'[e] \in {"distribute", "reply"}
          /\ \A f \in Endpoints : f # e => recvPC'[f] = recvPC[f] /\ inbox'[f] = inbox[f]
      BY <1>2, <2>4 DEF Distribute, RecvMoves
    <3>2. PhaseAt(e)'
      BY <1>1, <2>1, <3>1 DEF PhaseAt
    <3> QED
      BY <2>1, <3>1, <3>2, <1>0, PhaseAlone
  <2>5. CASE DistributeEnd(e)
    <3>1. /\ recvPC[e] = "distribute" /\ inbox[e] = <<>> /\ inbox' = inbox
          /\ recvPC'[e] = "check"
          /\ \A f \in Endpoints : f # e => recvPC'[f] = recvPC[f]
      BY <1>2, <2>5 DEF DistributeEnd, RecvMoves
    <3>2. PhaseAt(e)'
      BY <1>1, <2>1, <3>1 DEF PhaseAt
    <3> QED
      BY <2>1, <3>1, <3>2, <1>0, PhaseAlone
  <2>6. CASE Reply(e)
    <3>1. /\ recvPC[e] = "reply" /\ inbox' = inbox /\ recvPC'[e] = "distribute"
          /\ \A f \in Endpoints : f # e => recvPC'[f] = recvPC[f]
      BY <1>2, <2>6 DEF Reply, RecvMoves
    <3>2. PhaseAt(e)'
      BY <1>1, <2>1, <3>1 DEF PhaseAt
    <3> QED
      BY <2>1, <3>1, <3>2, <1>0, PhaseAlone
  <2> QED
    BY <1>4, <2>2, <2>3, <2>4, <2>5, <2>6 DEF CoreStep, RecvThread
<1>5. ASSUME NEW e \in Endpoints, Prepares(e) PROVE Phases'
  BY <1>3, <1>5, BeginEffects DEF Quiet
<1>10. ASSUME NEW e \in Endpoints, Ends(e) PROVE Phases'
  <2>1. CASE Quiet
    BY <1>3, <1>10, <2>1, EndEffects DEF Quiet
  <2>2. CASE Tears(e)
    <3>1. UNCHANGED <<recvPC, inbox>> /\ malformed' /\ \A f \in Endpoints : selected'[f] = 0
      BY <1>10, <2>2, EndEffects DEF Tears
    <3> SUFFICES ASSUME NEW f \in Endpoints PROVE PhaseAt(f)'
      BY DEF Phases
    <3> QED
      BY <1>1, <3>1 DEF PhaseAt
  <2> QED
    BY <1>10, <2>1, <2>2, EndEffects
<1>6. ASSUME NEW e \in Endpoints, SendCommit(e) PROVE Phases'
  BY <1>3, <1>6, CommitEffects DEF Commits
<1>7. ASSUME NEW e \in Endpoints, Select(e) PROVE Phases'
  <2>1. CASE table[e] # <<>> /\ Selects(e) /\ UNCHANGED recvPC
    <3>1. Len(table[e]) \in Nat \ {0}
      <4>1. table[e] \in Seq(Message) /\ table[e] # <<>>
        BY <2>1 DEF QueuesOK
      <4> QED
        BY <4>1, Popped
    <3>2. /\ recvPC[e] = "receive" /\ recvPC' = recvPC
          /\ selected' = [selected EXCEPT ![e] = Len(table[e])]
          /\ inbox' = [inbox EXCEPT ![e] = inbox[e] \o table[e]]
      BY <2>1 DEF Selects
    <3>3. /\ selected'[e] # 0
          /\ \A f \in Endpoints : f # e => selected'[f] = selected[f] /\ inbox'[f] = inbox[f]
      BY <1>2, <3>1, <3>2
    <3>4. PhaseAt(e)'
      BY <3>2, <3>3 DEF PhaseAt
    <3> QED
      BY <3>2, <3>3, <3>4, <1>0, PhaseAlone
  <2>2. CASE Quiet /\ recvPC' = [recvPC EXCEPT ![e] = "check"]
    <3>1. /\ UNCHANGED <<inbox, selected>> /\ recvPC'[e] = "check"
          /\ \A f \in Endpoints : f # e => recvPC'[f] = recvPC[f]
      BY <1>2, <2>2 DEF Quiet
    <3>2. recvPC[e] = "receive" /\ selected[e] = 0 /\ ~malformed
      BY <1>7, SelectEffects
    <3>3. PhaseAt(e)'
      BY <1>1, <3>1, <3>2 DEF PhaseAt
    <3> QED
      BY <3>1, <3>3, <1>0, PhaseAlone
  <2> QED
    BY <1>7, <2>1, <2>2, SelectEffects
<1>8. ASSUME NEW e \in Endpoints, DeleteOldMessages(e) PROVE Phases'
  <2>1. /\ inbox' = inbox /\ recvPC'[e] = "distribute" /\ selected'[e] = 0
        /\ \A f \in Endpoints : f # e => recvPC'[f] = recvPC[f] /\ selected'[f] = selected[f]
    BY <1>2, <1>8, DeleteEffects DEF Deletes
  <2>2. PhaseAt(e)'
    BY <2>1 DEF PhaseAt
  <2> QED
    BY <2>1, <2>2, <1>0, PhaseAlone
<1>9. ASSUME NEW e \in Endpoints, Restart(e) PROVE Phases'
  <2> DEFINE none == <<>>
  <2>1. Restarts(e) /\ recvPC' = [recvPC EXCEPT ![e] = "check"]
    BY <1>9, RestartEffects
  <2>2. inbox' = [inbox EXCEPT ![e] = none] /\ selected' = [selected EXCEPT ![e] = 0]
    BY <2>1 DEF Restarts
  <2> HIDE DEF none
  <2>3. /\ recvPC'[e] = "check" /\ inbox'[e] = none /\ selected'[e] = 0
        /\ \A f \in Endpoints : f # e =>
             recvPC'[f] = recvPC[f] /\ inbox'[f] = inbox[f] /\ selected'[f] = selected[f]
    BY <1>2, <2>1, <2>2
  <2>4. PhaseAt(e)'
    BY <2>3 DEF PhaseAt, none
  <2> QED
    BY <2>3, <2>4, <1>0, PhaseAlone
<1> QED
  BY <1>4, <1>5, <1>6, <1>7, <1>8, <1>9, <1>10
     DEF Next, EndpointStep, SendMessages, ReceiveMessages, Prepares, Terminates, Crash

-----------------------------------------------------------------------------
(* One direction of the channel.                                           *)

\* The parts of the direction from d: what its sender has, the table, and
\* what its receiver has.
SenderSame(d) == outbox'[d] = outbox[d] /\ sent'[d] = sent[d]
TableSame(d) == table'[Peer(d)] = table[Peer(d)]
ReaderSame(d) ==
  /\ selected'[Peer(d)] = selected[Peer(d)]
  /\ inbox'[Peer(d)] = inbox[Peer(d)] /\ handled'[Peer(d)] = handled[Peer(d)]

Rests(d) == SenderSame(d) /\ TableSame(d) /\ ReaderSame(d)

Gets(d) ==
  \E m \in Message :
    /\ m.from = d /\ m.seq = Len(sent[d]) + 1
    /\ outbox'[d] = Append(outbox[d], m) /\ sent'[d] = Append(sent[d], m)
    /\ TableSame(d) /\ ReaderSame(d)

Gives(d) ==
  LET p == Peer(d)
  IN  /\ inbox[p] # <<>> /\ selected[p] = 0
      /\ inbox'[p] = Tail(inbox[p]) /\ handled'[p] = Append(handled[p], Head(inbox[p]))
      /\ selected'[p] = selected[p] /\ SenderSame(d) /\ TableSame(d)

Writes(d) ==
  /\ table'[Peer(d)] = WriteAll(table[Peer(d)], outbox[d]) /\ outbox'[d] = <<>>
  /\ sent'[d] = sent[d] /\ ReaderSame(d)

Reads(d) ==
  LET p == Peer(d)
  IN  /\ selected[p] = 0 /\ inbox[p] = <<>>
      /\ inbox'[p] = table[p] /\ selected'[p] = Len(table[p])
      /\ handled'[p] = handled[p] /\ SenderSame(d) /\ TableSame(d)

Forgets(d) ==
  LET p == Peer(d)
  IN  /\ table'[p] = SubSeq(table[p], selected[p] + 1, Len(table[p])) /\ selected'[p] = 0
      /\ inbox'[p] = inbox[p] /\ handled'[p] = handled[p] /\ SenderSame(d)

SenderLost(d) ==
  /\ restarts' = restarts + 1
  /\ outbox'[d] = <<>> /\ sent'[d] = sent[d] /\ TableSame(d) /\ ReaderSame(d)

ReaderLost(d) ==
  LET p == Peer(d)
  IN  /\ restarts' = restarts + 1
      /\ inbox'[p] = <<>> /\ selected'[p] = 0
      /\ handled'[p] = handled[p] /\ SenderSame(d) /\ TableSame(d)

Torn(d) ==
  LET p == Peer(d)
  IN  /\ malformed' /\ \E f \in Endpoints : lock[f] = "reserved" /\ aborted'[f]
      /\ table'[p] = <<>> /\ selected'[p] = 0
      /\ inbox'[p] = inbox[p] /\ handled'[p] = handled[p] /\ SenderSame(d)

DirectionStep(d) ==
  \/ /\ UNCHANGED restarts
     /\ \/ Rests(d) \/ Gets(d) \/ Gives(d) \/ Writes(d)
        \/ Reads(d) \/ Forgets(d) \/ Torn(d)
  \/ SenderLost(d) \/ ReaderLost(d)

\* Every step is a step of both directions.
LEMMA Directions ==
  ASSUME ControlOK, QueuesOK, Phases, Next, NEW d \in Endpoints
  PROVE  DirectionStep(d)
<1> DEFINE p == Peer(d)
           none == <<>>
<1>1. p \in Endpoints /\ p # d /\ Peer(p) = d /\ \A e \in Endpoints : e = d \/ e = p
  BY PeerIsOther
<1>2. /\ DOMAIN outbox = Endpoints /\ DOMAIN inbox = Endpoints /\ DOMAIN sent = Endpoints
      /\ DOMAIN handled = Endpoints /\ DOMAIN table = Endpoints /\ DOMAIN selected = Endpoints
  BY DEF QueuesOK
<1>3. PhaseAt(p)
  BY <1>1 DEF Phases
<1> HIDE DEF p, none
<1>4. Peer(d) = p
  BY DEF p
<1>5. ASSUME Quiet, UNCHANGED restarts PROVE DirectionStep(d)
  BY <1>5 DEF Quiet, DirectionStep, Rests, SenderSame, TableSame, ReaderSame
<1>6. ASSUME NEW e \in Endpoints, CoreStep(e), UNCHANGED mediumVars
      PROVE  DirectionStep(d)
  <2>1. restarts' = restarts
    BY <1>6 DEF mediumVars
  <2>2. ASSUME Handles(e) PROVE DirectionStep(d)
    <3>1. /\ inbox[e] # <<>> /\ recvPC[e] = "distribute"
          /\ inbox' = [inbox EXCEPT ![e] = Tail(inbox[e])]
          /\ handled' = [handled EXCEPT ![e] = Append(handled[e], Head(inbox[e]))]
          /\ UNCHANGED <<outbox, sent, table, selected>>
      BY <2>2 DEF Handles
    <3>2. CASE e = p
      <4>1. Gives(d)
        BY <1>2, <1>3, <1>4, <3>1, <3>2 DEF Gives, SenderSame, TableSame, PhaseAt
      <4> QED
        BY <2>1, <4>1 DEF DirectionStep
    <3>3. CASE e = d
      <4>1. Rests(d)
        BY <1>1, <1>2, <1>4, <3>1, <3>3 DEF Rests, SenderSame, TableSame, ReaderSame
      <4> QED
        BY <2>1, <4>1 DEF DirectionStep
    <3> QED
      BY <1>1, <3>2, <3>3
  <2>3. ASSUME NEW m, Submits(e, m) PROVE DirectionStep(d)
    <3>1. /\ m.from = e /\ m.seq = Len(sent[e]) + 1 /\ m \in Message
          /\ outbox' = [outbox EXCEPT ![e] = Append(outbox[e], m)]
          /\ sent' = [sent EXCEPT ![e] = Append(sent[e], m)]
          /\ UNCHANGED <<inbox, handled, table, selected>>
      BY <2>3 DEF Submits
    <3>2. CASE e = d
      <4>1. Gets(d)
        BY <1>2, <1>4, <3>1, <3>2 DEF Gets, TableSame, ReaderSame
      <4> QED
        BY <2>1, <4>1 DEF DirectionStep
    <3>3. CASE e = p
      <4>1. Rests(d)
        BY <1>1, <1>2, <1>4, <3>1, <3>3 DEF Rests, SenderSame, TableSame, ReaderSame
      <4> QED
        BY <2>1, <4>1 DEF DirectionStep
    <3> QED
      BY <1>1, <3>2, <3>3
  <2> QED
    BY <1>5, <1>6, <2>1, <2>2, <2>3, CoreEffects
<1>7. ASSUME NEW e \in Endpoints, Prepares(e) PROVE DirectionStep(d)
  BY <1>5, <1>7, BeginEffects
<1>12. ASSUME NEW e \in Endpoints, Ends(e) PROVE DirectionStep(d)
  <2>1. CASE Tears(e)
    <3>1. Torn(d)
      BY <1>1, <1>4, <2>1 DEF Tears, Torn, SenderSame
    <3> QED
      BY <1>12, <3>1, EndEffects DEF DirectionStep
  <2> QED
    BY <1>5, <1>12, <2>1, EndEffects
<1>8. ASSUME NEW e \in Endpoints, SendCommit(e) PROVE DirectionStep(d)
  <2>1. /\ table' = [table EXCEPT ![Peer(e)] = WriteAll(table[Peer(e)], outbox[e])]
        /\ outbox' = [outbox EXCEPT ![e] = none]
        /\ UNCHANGED <<inbox, sent, handled, selected, restarts>>
    BY <1>8, CommitEffects DEF Commits, none
  <2>2. CASE e = d
    <3>1. outbox'[d] = none /\ table'[p] = WriteAll(table[p], outbox[d])
      BY <1>1, <1>2, <1>4, <2>1, <2>2
    <3>2. Writes(d)
      BY <1>4, <2>1, <3>1 DEF Writes, ReaderSame, none
    <3> QED
      BY <2>1, <3>2 DEF DirectionStep
  <2>3. CASE e = p
    <3>1. Rests(d)
      BY <1>1, <1>2, <1>4, <2>1, <2>3 DEF Rests, SenderSame, TableSame, ReaderSame
    <3> QED
      BY <2>1, <3>1 DEF DirectionStep
  <2> QED
    BY <1>1, <2>2, <2>3
<1>9. ASSUME NEW e \in Endpoints, Select(e) PROVE DirectionStep(d)
  <2>1. recvPC[e] = "receive" /\ selected[e] = 0 /\ ~malformed /\ restarts' = restarts
    BY <1>9, SelectEffects
  <2>2. ASSUME Selects(e) PROVE DirectionStep(d)
    <3>1. /\ inbox' = [inbox EXCEPT ![e] = inbox[e] \o table[e]]
          /\ selected' = [selected EXCEPT ![e] = Len(table[e])]
          /\ UNCHANGED <<outbox, sent, handled, table>>
      BY <2>2 DEF Selects
    <3>2. CASE e = p
      <4>1. inbox[p] = <<>> /\ selected[p] = 0
        BY <1>3, <2>1, <3>2 DEF PhaseAt
      <4>2. inbox[p] \o table[p] = table[p]
        <5>1. table[p] \in Seq(Message)
          BY <1>1 DEF QueuesOK
        <5> QED
          BY <4>1, <5>1, ConcatEmptySeq
      <4>3. inbox'[p] = table[p] /\ selected'[p] = Len(table[p])
        BY <1>1, <1>2, <3>1, <3>2, <4>2
      <4>4. Reads(d)
        BY <1>4, <3>1, <4>1, <4>3 DEF Reads, SenderSame, TableSame
      <4> QED
        BY <2>1, <4>4 DEF DirectionStep
    <3>3. CASE e = d
      <4>1. Rests(d)
        BY <1>1, <1>2, <1>4, <3>1, <3>3 DEF Rests, SenderSame, TableSame, ReaderSame
      <4> QED
        BY <2>1, <4>1 DEF DirectionStep
    <3> QED
      BY <1>1, <3>2, <3>3
  <2> QED
    BY <1>5, <1>9, <2>1, <2>2, SelectEffects
<1>10. ASSUME NEW e \in Endpoints, DeleteOldMessages(e) PROVE DirectionStep(d)
  <2>1. /\ table' = [table EXCEPT ![e] = SubSeq(table[e], selected[e] + 1, Len(table[e]))]
        /\ selected' = [selected EXCEPT ![e] = 0]
        /\ UNCHANGED <<outbox, inbox, sent, handled, restarts>>
    BY <1>10, DeleteEffects DEF Deletes
  <2>2. CASE e = p
    <3>1. Forgets(d)
      BY <1>2, <1>4, <2>1, <2>2 DEF Forgets, SenderSame
    <3> QED
      BY <2>1, <3>1 DEF DirectionStep
  <2>3. CASE e = d
    <3>1. Rests(d)
      BY <1>1, <1>2, <1>4, <2>1, <2>3 DEF Rests, SenderSame, TableSame, ReaderSame
    <3> QED
      BY <2>1, <3>1 DEF DirectionStep
  <2> QED
    BY <1>1, <2>2, <2>3
<1>11. ASSUME NEW e \in Endpoints, Restart(e) PROVE DirectionStep(d)
  <2>1. Restarts(e)
    BY <1>11, RestartEffects
  <2>2. /\ restarts' = restarts + 1
        /\ outbox' = [outbox EXCEPT ![e] = none]
        /\ inbox' = [inbox EXCEPT ![e] = none]
        /\ selected' = [selected EXCEPT ![e] = 0]
        /\ UNCHANGED <<sent, handled, table>>
    BY <2>1 DEF Restarts, none
  <2>3. CASE e = d
    <3>1. outbox'[d] = none /\ inbox'[p] = inbox[p] /\ selected'[p] = selected[p]
      BY <1>1, <1>2, <2>2, <2>3
    <3>2. SenderLost(d)
      BY <1>4, <2>2, <3>1 DEF SenderLost, TableSame, ReaderSame, none
    <3> QED
      BY <3>2 DEF DirectionStep
  <2>4. CASE e = p
    <3>1. outbox'[d] = outbox[d] /\ inbox'[p] = none /\ selected'[p] = 0
      BY <1>1, <1>2, <2>2, <2>4
    <3>2. ReaderLost(d)
      BY <1>4, <2>2, <3>1 DEF ReaderLost, SenderSame, TableSame, none
    <3> QED
      BY <3>2 DEF DirectionStep
  <2> QED
    BY <1>1, <2>3, <2>4
<1> QED
  BY <1>6, <1>7, <1>8, <1>9, <1>10, <1>11, <1>12
     DEF Next, EndpointStep, SendMessages, ReceiveMessages, Prepares, Terminates, Crash

\* Every step keeps where the threads may be.
LEMMA ControlStep ==
  ASSUME ControlOK, QueuesOK, Next
  PROVE  ControlOK'
BY CoreEffects, BeginEffects, EndEffects, CommitEffects, SelectEffects, DeleteEffects,
   RestartEffects
   DEF Next, EndpointStep, SendMessages, ReceiveMessages, Prepares, Terminates, Crash

\* Every step keeps the types of the queues and the tables.
LEMMA QueuesStep ==
  ASSUME ControlOK, QueuesOK, \A d \in Endpoints : selected[Peer(d)] <= Len(table[Peer(d)]), Next
  PROVE  QueuesOK'
<1> DEFINE none == <<>>
<1>1. /\ none \in Seq(Message) /\ \A q \in Seq(Message) : Len(q) \in Nat
      /\ \A q, r \in Seq(Message) : q \o r \in Seq(Message)
  BY EmptySeq, LenProperties, ConcatProperties
<1>2. \A q \in Seq(Message) : \A m \in Message : Append(q, m) \in Seq(Message)
  BY Pushed
<1>3. \A q \in Seq(Message) : q # none => Head(q) \in Message /\ Tail(q) \in Seq(Message)
  BY Popped
<1>4. \A rows, box \in Seq(Message) : WriteAll(rows, box) \in Seq(Message)
  <2>1. \A rows, box \in Seq(Message) : Written(Message, rows, box, WriteAll(rows, box))
    BY WritePoints
  <2> QED
    BY <2>1 DEF Written
<1>5. \A q \in Seq(Message) : \A k \in 0..Len(q) : SubSeq(q, k + 1, Len(q)) \in Seq(Message)
  BY After
<1> HIDE DEF none
<1>6. \A e \in Endpoints :
        /\ outbox[e] \in Seq(Message) /\ inbox[e] \in Seq(Message) /\ sent[e] \in Seq(Message)
        /\ handled[e] \in Seq(Message) /\ table[e] \in Seq(Message) /\ Peer(e) \in Endpoints
  BY PeerIsOther DEF QueuesOK
<1>7. ASSUME Quiet PROVE QueuesOK'
  BY <1>7 DEF Quiet, QueuesOK
<1>8. ASSUME NEW e \in Endpoints, Handles(e) PROVE QueuesOK'
  <2> DEFINE t == Tail(inbox[e])
             h == Append(handled[e], Head(inbox[e]))
  <2>1. t \in Seq(Message) /\ h \in Seq(Message)
    BY <1>2, <1>3, <1>6, <1>8 DEF Handles, none
  <2>2. inbox' = [inbox EXCEPT ![e] = t] /\ handled' = [handled EXCEPT ![e] = h]
        /\ UNCHANGED <<outbox, sent, table, selected>>
    BY <1>8 DEF Handles
  <2> HIDE DEF t, h
  <2> QED
    BY <2>1, <2>2 DEF QueuesOK
<1>9. ASSUME NEW e \in Endpoints, NEW m, Submits(e, m) PROVE QueuesOK'
  <2> DEFINE b == Append(outbox[e], m)
             s == Append(sent[e], m)
  <2>1. b \in Seq(Message) /\ s \in Seq(Message)
    BY <1>2, <1>6, <1>9 DEF Submits
  <2>2. outbox' = [outbox EXCEPT ![e] = b] /\ sent' = [sent EXCEPT ![e] = s]
        /\ UNCHANGED <<inbox, handled, table, selected>>
    BY <1>9 DEF Submits
  <2> HIDE DEF b, s
  <2> QED
    BY <2>1, <2>2 DEF QueuesOK
<1>10. ASSUME NEW e \in Endpoints, SendCommit(e) PROVE QueuesOK'
  <2> DEFINE w == WriteAll(table[Peer(e)], outbox[e])
  <2>1. w \in Seq(Message)
    BY <1>4, <1>6
  <2>2. table' = [table EXCEPT ![Peer(e)] = w] /\ outbox' = [outbox EXCEPT ![e] = none]
        /\ UNCHANGED <<inbox, sent, handled, selected>>
    BY <1>10, CommitEffects DEF Commits, none
  <2> HIDE DEF w
  <2> QED
    BY <1>1, <2>1, <2>2 DEF QueuesOK
<1>11. ASSUME NEW e \in Endpoints, Select(e) PROVE QueuesOK'
  <2> DEFINE x == inbox[e] \o table[e]
             n == Len(table[e])
  <2>1. x \in Seq(Message) /\ n \in Nat
    BY <1>1, <1>6
  <2>2. CASE Selects(e)
    <3>1. inbox' = [inbox EXCEPT ![e] = x] /\ selected' = [selected EXCEPT ![e] = n]
          /\ UNCHANGED <<outbox, sent, handled, table>>
      BY <2>2 DEF Selects
    <3> HIDE DEF x, n
    <3> QED
      BY <2>1, <3>1 DEF QueuesOK
  <2> QED
    BY <1>7, <1>11, <2>2, SelectEffects
<1>12. ASSUME NEW e \in Endpoints, DeleteOldMessages(e) PROVE QueuesOK'
  <2> DEFINE r == SubSeq(table[e], selected[e] + 1, Len(table[e]))
  <2>1. selected[e] \in 0..Len(table[e])
    <3>1. Peer(Peer(e)) = e /\ Peer(e) \in Endpoints /\ Len(table[e]) \in Nat /\ selected[e] \in Nat
      BY <1>1, <1>6, PeerIsOther DEF QueuesOK
    <3>2. selected[e] <= Len(table[e])
      BY <3>1
    <3> QED
      BY <3>1, <3>2
  <2>2. r \in Seq(Message)
    BY <1>5, <1>6, <2>1
  <2>3. table' = [table EXCEPT ![e] = r] /\ selected' = [selected EXCEPT ![e] = 0]
        /\ UNCHANGED <<outbox, inbox, sent, handled>>
    BY <1>12, DeleteEffects DEF Deletes
  <2> HIDE DEF r
  <2> QED
    BY <2>2, <2>3 DEF QueuesOK
<1>13. ASSUME NEW e \in Endpoints, Restart(e) PROVE QueuesOK'
  <2>1. /\ outbox' = [outbox EXCEPT ![e] = none] /\ inbox' = [inbox EXCEPT ![e] = none]
        /\ selected' = [selected EXCEPT ![e] = 0] /\ UNCHANGED <<sent, handled, table>>
    BY <1>13, RestartEffects DEF Restarts, none
  <2> QED
    BY <1>1, <2>1 DEF QueuesOK
<1>14. ASSUME NEW e \in Endpoints, Tears(e) PROVE QueuesOK'
  <2>1. /\ table' = [f \in Endpoints |-> none] /\ selected' = [f \in Endpoints |-> 0]
        /\ UNCHANGED <<outbox, inbox, sent, handled>>
    BY <1>14 DEF Tears, none
  <2> QED
    BY <1>1, <2>1 DEF QueuesOK
<1> QED
  BY <1>7, <1>8, <1>9, <1>10, <1>11, <1>12, <1>13, <1>14, CoreEffects, BeginEffects, EndEffects
     DEF Next, EndpointStep, SendMessages, ReceiveMessages, Prepares, Terminates, Crash

\* The messages of a direction are those of its sender, and the rows selected
\* are there.
ShapeAt(d) ==
  /\ outbox[d] \in Seq(MessageFrom(d))
  /\ table[Peer(d)] \in Seq(MessageFrom(d))
  /\ selected[Peer(d)] \in 0..Len(table[Peer(d)])

Shapes == \A d \in Endpoints : ShapeAt(d)

\* Every step of a direction keeps its shape.
LEMMA ShapeStep ==
  ASSUME QueuesOK, NEW d \in Endpoints, ShapeAt(d), DirectionStep(d)
  PROVE  ShapeAt(d)'
<1> DEFINE M == MessageFrom(d)
           p == Peer(d)
           T == table[p]
           B == outbox[d]
           k == selected[p]
           none == <<>>
<1>1. T \in Seq(M) /\ B \in Seq(M) /\ k \in 0..Len(T) /\ Len(T) \in Nat
  BY LenProperties DEF ShapeAt
<1>2. none \in Seq(M) /\ 0 \in 0..Len(T) /\ Len(T) \in 0..Len(T)
  BY <1>1, EmptySeq
<1>3. ASSUME NEW b \in Seq(M), NEW t \in Seq(M), NEW i \in 0..Len(t),
             outbox'[d] = b, table'[p] = t, selected'[p] = i
      PROVE  ShapeAt(d)'
  BY <1>3 DEF ShapeAt
<1>4. CASE Rests(d) \/ Gives(d)
  <2>1. outbox'[d] = B /\ table'[p] = T /\ selected'[p] = k
    BY <1>4 DEF Rests, Gives, SenderSame, TableSame, ReaderSame
  <2> HIDE DEF T, B, k, M
  <2> QED
    BY <1>1, <1>3, <2>1
<1>5. CASE Gets(d)
  <2>1. PICK m \in Message : m.from = d /\ outbox'[d] = Append(B, m)
                             /\ TableSame(d) /\ ReaderSame(d)
    BY <1>5 DEF Gets
  <2>2. m \in M
    BY <2>1 DEF Message, MessageFrom
  <2>3. Append(B, m) \in Seq(M) /\ table'[p] = T /\ selected'[p] = k
    BY <1>1, <2>1, <2>2, Pushed DEF TableSame, ReaderSame
  <2> HIDE DEF T, B, k, M
  <2> QED
    BY <1>1, <1>3, <2>1, <2>3
<1>6. CASE Writes(d)
  <2> DEFINE w == WriteAll(T, B)
  <2>1. Written(M, T, B, w)
    <3>1. \A rows, box \in Seq(M) : Written(M, rows, box, WriteAll(rows, box))
      BY WritePoints
    <3> HIDE DEF T, B, M
    <3> QED
      BY <1>1, <3>1
  <2>2. outbox'[d] = none /\ table'[p] = w /\ selected'[p] = k
    BY <1>6 DEF Writes, ReaderSame
  <2> HIDE DEF T, B, k, M, w, none
  <2>3. w \in Seq(M) /\ Len(w) \in Nat /\ Len(T) <= Len(w)
    BY <2>1, LenProperties DEF Written
  <2>4. k \in 0..Len(w)
    BY <1>1, <2>3
  <2> QED
    BY <1>2, <1>3, <2>2, <2>3, <2>4
<1>7. CASE Reads(d)
  <2>1. outbox'[d] = B /\ table'[p] = T /\ selected'[p] = Len(T)
    BY <1>7 DEF Reads, SenderSame, TableSame
  <2> HIDE DEF T, B, M
  <2> QED
    BY <1>1, <1>2, <1>3, <2>1
<1>8. CASE Forgets(d)
  <2> DEFINE r == SubSeq(T, k + 1, Len(T))
  <2>1. outbox'[d] = B /\ table'[p] = r /\ selected'[p] = 0
    BY <1>8 DEF Forgets, SenderSame
  <2>2. r \in Seq(M) /\ Len(r) \in Nat
    <3>1. r \in Seq(M)
      BY <1>1, After
    <3> QED
      BY <3>1, LenProperties
  <2> HIDE DEF T, B, k, M, r
  <2>3. 0 \in 0..Len(r)
    BY <2>2
  <2> QED
    BY <1>1, <1>3, <2>1, <2>2, <2>3
<1>9. CASE SenderLost(d)
  <2>1. outbox'[d] = none /\ table'[p] = T /\ selected'[p] = k
    BY <1>9 DEF SenderLost, TableSame, ReaderSame
  <2> HIDE DEF T, B, k, M, none
  <2> QED
    BY <1>1, <1>2, <1>3, <2>1
<1>10. CASE ReaderLost(d)
  <2>1. outbox'[d] = B /\ table'[p] = T /\ selected'[p] = 0
    BY <1>10 DEF ReaderLost, SenderSame, TableSame
  <2> HIDE DEF T, B, k, M
  <2> QED
    BY <1>1, <1>2, <1>3, <2>1
<1>11. CASE Torn(d)
  <2>1. outbox'[d] = B /\ table'[p] = none /\ selected'[p] = 0
    BY <1>11 DEF Torn, SenderSame
  <2>2. Len(none) = 0 /\ 0 \in 0..0
    BY EmptySeq
  <2> HIDE DEF B, M, none
  <2> QED
    BY <1>1, <1>2, <1>3, <2>1, <2>2
<1> QED
  BY <1>4, <1>5, <1>6, <1>7, <1>8, <1>9, <1>10, <1>11 DEF DirectionStep

\* What holds of every reachable state whatever the messages are.
BaseInv ==
  /\ ControlOK
  /\ QueuesOK
  /\ Phases
  /\ Shapes
  /\ clobbered \subseteq Message

\* It holds initially.
LEMMA BaseInit == PairInit => BaseInv
<1> SUFFICES ASSUME PairInit PROVE BaseInv
  OBVIOUS
<1> USE DEF PairInit, Init
<1> DEFINE none == <<>>
<1>1. none \in Seq(Message) /\ \A d : none \in Seq(MessageFrom(d))
  BY EmptySeq
<1>2. Len(none) = 0
  BY EmptySeq
<1>3. ControlOK
  <2>1. /\ running \in [Endpoints -> BOOLEAN] /\ aborted \in [Endpoints -> BOOLEAN]
        /\ malformed \in BOOLEAN
    OBVIOUS
  <2>2. restarts \in 0..MaxRestarts
    BY SqliteAssumption
  <2>3. /\ sendPC \in [Endpoints -> SendPCs] /\ recvPC \in [Endpoints -> RecvPCs]
        /\ appPC \in [Endpoints -> AppPCs] /\ txn \in [Endpoints -> {"none", "send", "delete"}]
        /\ lock \in [Endpoints -> {"none", "shared", "reserved"}]
        /\ thrown \in [Endpoints -> SUBSET {"send", "delete"}]
    BY DEF SendPCs, RecvPCs, AppPCs
  <2> QED
    BY <2>1, <2>2, <2>3 DEF ControlOK
<1>4. /\ outbox = [e \in Endpoints |-> none] /\ inbox = [e \in Endpoints |-> none]
      /\ sent = [e \in Endpoints |-> none] /\ handled = [e \in Endpoints |-> none]
      /\ table = [e \in Endpoints |-> none] /\ selected = [e \in Endpoints |-> 0]
      /\ recvPC = [e \in Endpoints |-> "check"]
  OBVIOUS
<1>5. Phases
  BY <1>4 DEF Phases, PhaseAt
<1> HIDE DEF none, PairInit, Init
<1>6. QueuesOK
  BY <1>1, <1>4 DEF QueuesOK
<1>7. Shapes
  BY <1>1, <1>2, <1>4, PeerIsOther DEF Shapes, ShapeAt
<1> QED
  BY <1>3, <1>5, <1>6, <1>7 DEF PairInit, BaseInv

\* Every step keeps it.
LEMMA BaseStep ==
  ASSUME BaseInv, Next
  PROVE  BaseInv'
<1> USE DEF BaseInv
<1>1. \A d \in Endpoints : DirectionStep(d)
  BY Directions
<1>2. Shapes'
  <2> SUFFICES ASSUME NEW d \in Endpoints PROVE ShapeAt(d)'
    BY DEF Shapes
  <2> QED
    BY <1>1, ShapeStep DEF Shapes
<1>3. ControlOK' /\ Phases'
  BY ControlStep, PhaseStep
<1>4. QueuesOK'
  <2>1. \A d \in Endpoints : selected[Peer(d)] <= Len(table[Peer(d)])
    BY DEF Shapes, ShapeAt
  <2> QED
    BY <2>1, QueuesStep
<1>5. (clobbered \subseteq Message)'
  <2>1. ASSUME NEW e \in Endpoints, SendCommit(e) PROVE clobbered' \subseteq Message
    <3> DEFINE p == Peer(e)
               T == table[p]
               w == WriteAll(T, outbox[e])
    <3>1. T \in Seq(Message) /\ outbox[e] \in Seq(Message) /\ selected[p] \in 0..Len(T)
          /\ Len(T) \in Nat
      BY PeerIsOther, LenProperties DEF QueuesOK, Shapes, ShapeAt
    <3>2. Written(Message, T, outbox[e], w)
      <4>1. \A rows, box \in Seq(Message) : Written(Message, rows, box, WriteAll(rows, box))
        BY WritePoints
      <4> HIDE DEF T
      <4> QED
        BY <3>1, <4>1
    <3>3. clobbered' = clobbered \cup {w[i] : i \in {j \in 1..selected[p] : w[j] # T[j]}}
      BY <2>1, CommitEffects
    <3> HIDE DEF p, T, w
    <3>4. w \in Seq(Message) /\ Len(w) \in Nat /\ Len(T) <= Len(w)
      BY <3>2, LenProperties DEF Written
    <3>5. \A i \in 1..selected[p] : w[i] \in Message
      <4> TAKE i \in 1..selected[p]
      <4>1. i \in 1..Len(w)
        BY <3>1, <3>4
      <4> QED
        BY <3>4, <4>1, ElementOfSeq
    <3> QED
      BY <3>3, <3>5
  <2>2. ASSUME ~\E e \in Endpoints : SendCommit(e) PROVE clobbered' = clobbered
    BY <2>2, CoreEffects, BeginEffects, EndEffects, SelectEffects, DeleteEffects, RestartEffects
       DEF Next, EndpointStep, SendMessages, ReceiveMessages, Prepares, Terminates, Crash,
           Quiet, Tears, Handles, Submits, Selects, Deletes, Restarts
  <2> QED
    BY <2>1, <2>2
<1> QED
  BY <1>2, <1>3, <1>4, <1>5

\* It holds of every reachable state.
LEMMA BaseHolds == Spec => []BaseInv
<1>1. BaseInv /\ UNCHANGED vars => BaseInv'
  BY DEF BaseInv, ControlOK, QueuesOK, Phases, PhaseAt, Shapes, ShapeAt, vars
<1>2. BaseInv /\ [Next]_vars => BaseInv'
  BY <1>1, BaseStep
<1> QED
  BY <1>2, BaseInit, PTL DEF Spec

\* The variables have their types and the rows selected are there, for any
\* number of messages of any types and any number of crashes and restarts.
THEOREM TypeCorrect == Spec => []TypeOK
<1>1. BaseInv => TypeOK
  <2> SUFFICES ASSUME BaseInv PROVE TypeOK
    OBVIOUS
  <2>1. \A e \in Endpoints : /\ table[e] \in Seq(MessageFrom(Peer(e)))
                             /\ selected[e] \in 0..Len(table[e])
    <3> TAKE e \in Endpoints
    <3>1. Peer(e) \in Endpoints /\ Peer(Peer(e)) = e
      BY PeerIsOther
    <3> QED
      BY <3>1 DEF BaseInv, Shapes, ShapeAt
  <2> QED
    BY <2>1 DEF BaseInv, ControlOK, QueuesOK, TypeOK
<1> QED
  BY <1>1, BaseHolds, PTL

-----------------------------------------------------------------------------
(* Messages that are never overwritten.                                    *)

\* Of what was handled, what is in the inbox, the rows not read and the
\* outbox, one after the other, the messages in K are those submitted.
InOrder(K, h, x, r, b, s) == Filter(h \o ((x \o r) \o b), K) = Filter(s, K)

\* What the steps of a direction make of that.
LEMMA InOrderSteps ==
  ASSUME NEW S, NEW K
  PROVE  \A h, x, r, b, s \in Seq(S) : InOrder(K, h, x, r, b, s) =>
           /\ \A m \in S : InOrder(K, h, x, r, Append(b, m), Append(s, m))
           /\ x # <<>> => InOrder(K, Append(h, Head(x)), Tail(x), r, b, s)
           /\ \A w \in Seq(S) : Filter(w, K) = Filter(r \o b, K) => InOrder(K, h, x, w, <<>>, s)
           /\ x = <<>> => InOrder(K, h, r, <<>>, b, s)
<1> DEFINE Q == Seq(S)
           Cat(q, r) == q \o r
           Push(q, m) == Append(q, m)
           Kept(q) == Filter(q, K)
           none == <<>>
<1>1. none \in Q /\ \A q, r \in Q : Cat(q, r) \in Q
  BY EmptySeq, ConcatProperties
<1>2. \A q, r, t \in Q : Cat(Cat(q, r), t) = Cat(q, Cat(r, t))
  BY ConcatAssociative
<1>3. \A q \in Q : Cat(q, none) = q /\ Cat(none, q) = q
  BY ConcatEmptySeq
<1>4. \A q, r \in Q : \A m \in S : Cat(q, Push(r, m)) = Push(Cat(q, r), m)
  BY TailAdded
<1>5. \A h, q \in Q : q # none => Cat(Push(h, Head(q)), Tail(q)) = Cat(h, q)
  BY HeadMoves
<1>6. \A q, r \in Q : Kept(Cat(q, r)) = Cat(Kept(q), Kept(r))
  BY FilterConcat
<1>7. \A q \in Q : \A m \in S : Kept(Push(q, m)) = IF m \in K THEN Push(Kept(q), m) ELSE Kept(q)
  BY FilterPush
<1>8. \A q \in Q : Kept(q) \in Q
  BY FilterSeq
<1>9. \A q \in Q : q # none => Head(q) \in S /\ Tail(q) \in Q
  BY Popped
<1>10. \A q \in Q : \A m \in S : Push(q, m) \in Q
  BY Pushed
<1>11. \A h, x, r, b, s : InOrder(K, h, x, r, b, s) <=>
                            Kept(Cat(h, Cat(Cat(x, r), b))) = Kept(s)
  BY DEF InOrder
<1> HIDE DEF Q, Cat, Push, Kept, none
<1>12. ASSUME NEW h \in Q, NEW x \in Q, NEW r \in Q, NEW b \in Q, NEW s \in Q,
              InOrder(K, h, x, r, b, s)
       PROVE  /\ \A m \in S : InOrder(K, h, x, r, Push(b, m), Push(s, m))
              /\ x # none => InOrder(K, Push(h, Head(x)), Tail(x), r, b, s)
              /\ \A w \in Q : Kept(w) = Kept(Cat(r, b)) => InOrder(K, h, x, w, none, s)
              /\ x = none => InOrder(K, h, r, none, b, s)
  <2> DEFINE a == Cat(x, r)
  <2>1. a \in Q /\ Cat(a, b) \in Q /\ Kept(Cat(h, Cat(a, b))) = Kept(s)
    BY <1>1, <1>11, <1>12
  <2>2. ASSUME NEW m \in S PROVE InOrder(K, h, x, r, Push(b, m), Push(s, m))
    <3>1. Cat(h, Cat(a, Push(b, m))) = Push(Cat(h, Cat(a, b)), m)
      <4> HIDE DEF a
      <4> QED
        BY <1>4, <2>1
    <3>2. Kept(Push(Cat(h, Cat(a, b)), m)) = Kept(Push(s, m))
      <4> HIDE DEF a
      <4>1. Cat(h, Cat(a, b)) \in Q
        BY <1>1, <2>1
      <4> QED
        BY <1>7, <2>1, <4>1
    <3> QED
      BY <1>11, <3>1, <3>2
  <2>3. ASSUME x # none PROVE InOrder(K, Push(h, Head(x)), Tail(x), r, b, s)
    <3> DEFINE g == Push(h, Head(x))
               t == Tail(x)
    <3>1. t \in Q /\ g \in Q /\ Cat(g, t) = Cat(h, x)
      BY <1>5, <1>9, <1>10, <2>3
    <3> HIDE DEF g, t
    <3>2. Cat(t, r) \in Q /\ Cat(r, b) \in Q
      BY <1>1, <3>1
    <3>3. Cat(g, Cat(Cat(t, r), b)) = Cat(Cat(g, t), Cat(r, b))
      BY <1>2, <3>1, <3>2
    <3>4. Cat(h, Cat(Cat(x, r), b)) = Cat(Cat(h, x), Cat(r, b))
      BY <1>2, <3>2
    <3>5. InOrder(K, g, t, r, b, s)
      BY <1>11, <2>1, <3>1, <3>3, <3>4
    <3> QED
      BY <3>5 DEF g, t
  <2>4. ASSUME NEW w \in Q, Kept(w) = Kept(Cat(r, b)) PROVE InOrder(K, h, x, w, none, s)
    <3>1. Cat(x, w) \in Q /\ Cat(r, b) \in Q /\ Cat(Cat(x, w), none) = Cat(x, w)
      BY <1>1, <1>3
    <3>2. Cat(a, b) = Cat(x, Cat(r, b))
      BY <1>2
    <3>3. Kept(Cat(x, w)) = Kept(Cat(x, Cat(r, b)))
      BY <1>6, <2>4, <3>1
    <3>4. Kept(Cat(h, Cat(x, w))) = Kept(Cat(h, Cat(x, Cat(r, b))))
      BY <1>1, <1>6, <3>1, <3>3
    <3> QED
      BY <1>11, <2>1, <3>1, <3>2, <3>4
  <2>5. ASSUME x = none PROVE InOrder(K, h, r, none, b, s)
    BY <1>3, <1>11, <2>1, <2>5
  <2> QED
    BY <2>2, <2>3, <2>4, <2>5
<1> QED
  BY <1>12 DEF Q, Push, Kept, Cat, none

\* The rows of the table that are not read yet.
Unread(d) == SubSeq(table[Peer(d)], selected[Peer(d)] + 1, Len(table[Peer(d)]))

PlainAt(d) ==
  restarts = 0 /\ ~malformed =>
    InOrder(PlainMessage, handled[Peer(d)], inbox[Peer(d)], Unread(d), outbox[d], sent[d])

\* What becomes of the unread rows.
LEMMA UnreadSteps ==
  ASSUME QueuesOK, NEW d \in Endpoints, ShapeAt(d)
  PROVE  /\ Unread(d) \in Seq(Message)
         /\ TableSame(d) /\ selected'[Peer(d)] = selected[Peer(d)] => Unread(d)' = Unread(d)
         /\ TableSame(d) /\ selected'[Peer(d)] = 0 => Unread(d)' = table[Peer(d)]
         /\ Reads(d) => Unread(d) = table[Peer(d)] /\ Unread(d)' = <<>>
         /\ Forgets(d) => Unread(d)' = Unread(d)
         /\ Torn(d) => Unread(d)' = <<>>
<1> DEFINE p == Peer(d)
           T == table[p]
           k == selected[p]
<1>1. T \in Seq(Message) /\ k \in 0..Len(T) /\ Len(T) \in Nat
  BY PeerIsOther, LenProperties DEF QueuesOK, ShapeAt
<1>2. Unread(d) = SubSeq(T, k + 1, Len(T))
  BY DEF Unread
<1>3. Unread(d)' = SubSeq(table'[p], selected'[p] + 1, Len(table'[p]))
  BY DEF Unread
<1>4. Unread(d) \in Seq(Message)
  BY <1>1, <1>2, After
<1>5. SubSeq(T, 0 + 1, Len(T)) = T
  BY <1>1, AfterNone
<1>6. SubSeq(T, Len(T) + 1, Len(T)) = <<>>
  <2>1. Len(T) \in 0..Len(T)
    BY <1>1
  <2>2. SubSeq(T, Len(T) + 1, Len(T)) \in Seq(Message)
        /\ Len(SubSeq(T, Len(T) + 1, Len(T))) = Len(T) - Len(T)
    <3> HIDE DEF T
    <3> QED
      BY <1>1, <2>1, After
  <2> QED
    BY <1>1, <2>2, EmptySeq
<1>7. ASSUME Reads(d) PROVE Unread(d) = T /\ Unread(d)' = <<>>
  <2>1. k = 0 /\ selected'[p] = Len(T) /\ table'[p] = T
    BY <1>7 DEF Reads, TableSame
  <2> QED
    BY <1>2, <1>3, <1>5, <1>6, <2>1
<1>8. ASSUME Forgets(d) PROVE Unread(d)' = Unread(d)
  <2>1. selected'[p] = 0 /\ table'[p] = Unread(d)
    BY <1>2, <1>8 DEF Forgets
  <2>2. SubSeq(Unread(d), 0 + 1, Len(Unread(d))) = Unread(d)
    BY <1>4, AfterNone
  <2> QED
    BY <1>3, <2>1, <2>2
<1>9. ASSUME TableSame(d), selected'[p] = 0 PROVE Unread(d)' = T
  BY <1>3, <1>5, <1>9 DEF TableSame
<1>10. ASSUME TableSame(d), selected'[p] = k PROVE Unread(d)' = Unread(d)
  BY <1>2, <1>3, <1>10 DEF TableSame
<1>11. ASSUME Torn(d) PROVE Unread(d)' = <<>>
  <2> DEFINE none == <<>>
  <2>1. none \in Seq({}) /\ Len(none) = 0
    BY EmptySeq
  <2>2. SubSeq(none, 0 + 1, Len(none)) = none
    BY <2>1, AfterNone
  <2>3. table'[p] = none /\ selected'[p] = 0
    BY <1>11 DEF Torn
  <2> HIDE DEF none
  <2>4. Unread(d)' = none
    BY <1>3, <2>2, <2>3
  <2> QED
    BY <2>4 DEF none
<1> QED
  BY <1>4, <1>7, <1>8, <1>9, <1>10, <1>11

\* What writing makes of the unread rows.
LEMMA UnreadWrites ==
  ASSUME QueuesOK, NEW d \in Endpoints, ShapeAt(d), Writes(d)
  PROVE  /\ Unread(d)' \in Seq(Message)
         /\ Plain(Unread(d)') = Plain(Unread(d) \o outbox[d])
<1> DEFINE p == Peer(d)
           T == table[p]
           k == selected[p]
           B == outbox[d]
           w == WriteAll(T, B)
<1>1. T \in Seq(Message) /\ B \in Seq(Message) /\ k \in 0..Len(T) /\ Len(T) \in Nat
  BY PeerIsOther, LenProperties DEF QueuesOK, ShapeAt
<1>2. Unread(d) = SubSeq(T, k + 1, Len(T)) /\ Unread(d)' = SubSeq(w, k + 1, Len(w))
  BY DEF Unread, Writes, ReaderSame
<1>3. Written(Message, T, B, w)
  <2>1. \A rows, box \in Seq(Message) : Written(Message, rows, box, WriteAll(rows, box))
    BY WritePoints
  <2> HIDE DEF T, B
  <2> QED
    BY <1>1, <2>1
<1>4. Plain(SubSeq(w, k + 1, Len(w))) = Plain(SubSeq(T, k + 1, Len(T)) \o B)
  <2> HIDE DEF T, B, k
  <2>1. k \in Nat /\ k <= Len(T)
    BY <1>1
  <2> QED
    BY <1>1, <2>1, WritePlain
<1>5. SubSeq(w, k + 1, Len(w)) \in Seq(Message)
  <2> HIDE DEF T, B, k, w
  <2>1. w \in Seq(Message) /\ Len(w) \in Nat /\ Len(T) <= Len(w)
    BY <1>3, LenProperties DEF Written
  <2>2. k \in 0..Len(w)
    BY <1>1, <2>1
  <2> QED
    BY <2>1, <2>2, After
<1> QED
  BY <1>2, <1>4, <1>5

\* Every step of a direction keeps its messages that are never overwritten.
LEMMA PlainStep ==
  ASSUME QueuesOK, restarts \in Nat, NEW d \in Endpoints, ShapeAt(d), PlainAt(d),
         DirectionStep(d), malformed => malformed'
  PROVE  PlainAt(d)'
<1> DEFINE p == Peer(d)
           K == PlainMessage
           h == handled[p]
           x == inbox[p]
           r == Unread(d)
           b == outbox[d]
           s == sent[d]
<1>1. /\ h \in Seq(Message) /\ x \in Seq(Message) /\ b \in Seq(Message) /\ s \in Seq(Message)
      /\ r \in Seq(Message) /\ p \in Endpoints
  BY PeerIsOther, UnreadSteps DEF QueuesOK
<1> SUFFICES ASSUME restarts' = 0, ~malformed'
             PROVE  InOrder(K, handled'[p], inbox'[p], Unread(d)', outbox'[d], sent'[d])
  BY DEF PlainAt
<1>2. /\ restarts = 0 /\ ~malformed
      /\ Rests(d) \/ Gets(d) \/ Gives(d) \/ Writes(d) \/ Reads(d) \/ Forgets(d)
  BY DEF DirectionStep, SenderLost, ReaderLost, Torn
<1>3. InOrder(K, h, x, r, b, s)
  BY <1>2 DEF PlainAt
<1>4. \A h1, x1, r1, b1, s1 \in Seq(Message) : InOrder(K, h1, x1, r1, b1, s1) =>
        /\ \A m \in Message : InOrder(K, h1, x1, r1, Append(b1, m), Append(s1, m))
        /\ x1 # <<>> => InOrder(K, Append(h1, Head(x1)), Tail(x1), r1, b1, s1)
        /\ \A w \in Seq(Message) :
             Filter(w, K) = Filter(r1 \o b1, K) => InOrder(K, h1, x1, w, <<>>, s1)
        /\ x1 = <<>> => InOrder(K, h1, r1, <<>>, b1, s1)
  BY InOrderSteps
<1>5. CASE Rests(d)
  <2>1. /\ handled'[p] = h /\ inbox'[p] = x /\ Unread(d)' = r /\ outbox'[d] = b
        /\ sent'[d] = s
    BY <1>5, UnreadSteps DEF Rests, SenderSame, ReaderSame
  <2> QED
    BY <1>3, <2>1
<1>6. CASE Gets(d)
  <2>1. PICK m \in Message : /\ outbox'[d] = Append(b, m) /\ sent'[d] = Append(s, m)
                             /\ TableSame(d) /\ ReaderSame(d)
    BY <1>6 DEF Gets
  <2>2. handled'[p] = h /\ inbox'[p] = x /\ Unread(d)' = r
    BY <2>1, UnreadSteps DEF ReaderSame
  <2> HIDE DEF h, x, r, b, s
  <2>3. InOrder(K, h, x, r, Append(b, m), Append(s, m))
    BY <1>1, <1>3, <1>4
  <2> QED
    BY <2>1, <2>2, <2>3
<1>7. CASE Gives(d)
  <2>1. /\ x # <<>> /\ inbox'[p] = Tail(x) /\ handled'[p] = Append(h, Head(x))
        /\ Unread(d)' = r /\ outbox'[d] = b /\ sent'[d] = s
    BY <1>7, UnreadSteps DEF Gives, SenderSame
  <2> HIDE DEF h, x, r, b, s
  <2>2. InOrder(K, Append(h, Head(x)), Tail(x), r, b, s)
    BY <1>1, <1>3, <1>4, <2>1
  <2> QED
    BY <2>1, <2>2
<1>8. CASE Writes(d)
  <2> DEFINE w == Unread(d)'
  <2>1. handled'[p] = h /\ inbox'[p] = x /\ outbox'[d] = <<>> /\ sent'[d] = s
    BY <1>8 DEF Writes, ReaderSame
  <2>2. w \in Seq(Message) /\ Filter(w, K) = Filter(r \o b, K)
    BY <1>8, UnreadWrites DEF Plain
  <2> HIDE DEF h, x, r, b, s, w
  <2>3. InOrder(K, h, x, w, <<>>, s)
    BY <1>1, <1>3, <1>4, <2>2
  <2> QED
    BY <2>1, <2>3 DEF w
<1>9. CASE Reads(d)
  <2>1. /\ x = <<>> /\ inbox'[p] = r /\ handled'[p] = h /\ Unread(d)' = <<>>
        /\ outbox'[d] = b /\ sent'[d] = s
    BY <1>9, UnreadSteps DEF Reads, SenderSame
  <2> HIDE DEF h, x, r, b, s
  <2>2. InOrder(K, h, r, <<>>, b, s)
    BY <1>1, <1>3, <1>4, <2>1
  <2> QED
    BY <2>1, <2>2
<1>10. CASE Forgets(d)
  <2>1. /\ handled'[p] = h /\ inbox'[p] = x /\ Unread(d)' = r /\ outbox'[d] = b
        /\ sent'[d] = s
    BY <1>10, UnreadSteps DEF Forgets, SenderSame
  <2> QED
    BY <1>3, <2>1
<1> QED
  BY <1>2, <1>5, <1>6, <1>7, <1>8, <1>9, <1>10

\* Messages under names that are never overwritten are handled exactly once
\* and in order, for any number of messages and whichever process aborts, as
\* long as none is started again and the file is whole.
THEOREM PlainMessagesArriveOnce == Spec => []PlainExactlyOnceInOrder
<1> DEFINE PlainInv == \A d \in Endpoints : PlainAt(d)
<1>1. PairInit => PlainInv
  <2> SUFFICES ASSUME PairInit, NEW d \in Endpoints PROVE PlainAt(d)
    OBVIOUS
  <2> DEFINE none == <<>>
  <2>1. none \in Seq({}) /\ Len(none) = 0
    BY EmptySeq
  <2>2. SubSeq(none, 0 + 1, Len(none)) = none /\ none \o none = none
    BY <2>1, AfterNone, ConcatEmptySeq
  <2>3. /\ handled[Peer(d)] = none /\ inbox[Peer(d)] = none /\ outbox[d] = none
        /\ sent[d] = none /\ table[Peer(d)] = none /\ selected[Peer(d)] = 0
    BY PeerIsOther DEF PairInit, Init
  <2> HIDE DEF none
  <2> QED
    BY <2>2, <2>3 DEF PlainAt, InOrder, Unread
<1>2. BaseInv /\ PlainInv /\ [Next]_vars => PlainInv'
  <2> SUFFICES ASSUME BaseInv, PlainInv, [Next]_vars, NEW d \in Endpoints PROVE PlainAt(d)'
    OBVIOUS
  <2>1. CASE Next
    <3>1. restarts \in Nat
      BY DEF BaseInv, ControlOK
    <3> QED
      BY <2>1, <3>1, Directions, PlainStep, MalformedStays DEF BaseInv, Shapes
  <2>2. CASE UNCHANGED vars
    BY <2>2 DEF PlainAt, Unread, vars
  <2> QED
    BY <2>1, <2>2
<1>3. PlainInv => PlainExactlyOnceInOrder
  BY DEF PlainAt, PlainExactlyOnceInOrder, InOrder, Plain, InTransit, Unread
<1> HIDE DEF PlainInv
<1> QED
  BY <1>1, <1>2, <1>3, BaseHolds, PTL DEF Spec

\* Plain rows that have been read, and are not deleted yet, are in the inbox.
ReadAt(d) ==
  \A i \in 1..selected[Peer(d)] :
    table[Peer(d)][i] \in PlainMessage => table[Peer(d)][i] \in Range(inbox[Peer(d)])

\* What writing makes of the rows that are there: a plain one stays.
LEMMA RowsWritten ==
  ASSUME QueuesOK, NEW d \in Endpoints, Writes(d)
  PROVE  LET T == table[Peer(d)]
             w == table'[Peer(d)]
         IN  /\ Len(T) <= Len(w) /\ w \in Seq(Message)
             /\ \A i \in 1..Len(T) : w[i] = T[i]
                                     \/ (w[i] \notin PlainMessage /\ T[i] \notin PlainMessage)
<1> DEFINE T == table[Peer(d)]
           B == outbox[d]
           w == WriteAll(T, B)
<1>1. T \in Seq(Message) /\ B \in Seq(Message) /\ Len(T) \in Nat
  BY PeerIsOther, LenProperties DEF QueuesOK
<1>2. Written(Message, T, B, w)
  <2>1. \A rows, box \in Seq(Message) : Written(Message, rows, box, WriteAll(rows, box))
    BY WritePoints
  <2> HIDE DEF T, B
  <2> QED
    BY <1>1, <2>1
<1>3. \A i \in 1..Len(T) : w[i] = T[i] \/ (w[i] \notin PlainMessage /\ T[i] \notin PlainMessage)
  <2>1. 0 \in Nat /\ 0 <= Len(T)
    BY <1>1
  <2> HIDE DEF T, B
  <2> QED
    BY <1>1, <2>1, WritePlain
<1>4. table'[Peer(d)] = w
  BY DEF Writes
<1> QED
  BY <1>2, <1>3, <1>4 DEF Written

\* Every step of a direction keeps that.
LEMMA ReadStep ==
  ASSUME QueuesOK, NEW d \in Endpoints, ShapeAt(d), ReadAt(d), DirectionStep(d)
  PROVE  ReadAt(d)'
<1> DEFINE p == Peer(d)
           T == table[p]
           k == selected[p]
<1>1. T \in Seq(Message) /\ k \in 0..Len(T) /\ Len(T) \in Nat
  BY PeerIsOther, LenProperties DEF QueuesOK, ShapeAt
<1>2. CASE Rests(d) \/ Gets(d) \/ SenderLost(d)
  <2>1. table'[p] = T /\ selected'[p] = k /\ inbox'[p] = inbox[p]
    BY <1>2 DEF Rests, Gets, SenderLost, TableSame, ReaderSame
  <2> QED
    BY <2>1 DEF ReadAt
<1>3. CASE Gives(d) \/ Forgets(d) \/ ReaderLost(d) \/ Torn(d)
  <2>1. selected'[p] = 0
    BY <1>3 DEF Gives, Forgets, ReaderLost, Torn
  <2> QED
    BY <2>1 DEF ReadAt
<1>4. CASE Reads(d)
  <2>1. table'[p] = T /\ inbox'[p] = T /\ selected'[p] = Len(T)
    BY <1>4 DEF Reads, TableSame
  <2>2. \A i \in 1..Len(T) : T[i] \in Range(T)
    BY <1>1, RangeIs
  <2> QED
    BY <2>1, <2>2 DEF ReadAt
<1>5. CASE Writes(d)
  <2> DEFINE w == table'[p]
  <2>1. selected'[p] = k /\ inbox'[p] = inbox[p]
    BY <1>5 DEF Writes, ReaderSame
  <2>2. \A i \in 1..Len(T) : w[i] = T[i] \/ (w[i] \notin PlainMessage /\ T[i] \notin PlainMessage)
    BY <1>5, RowsWritten
  <2>3. \A i \in 1..k : T[i] \in PlainMessage => T[i] \in Range(inbox[p])
    BY DEF ReadAt
  <2>4. \A i \in 1..k : w[i] \in PlainMessage => w[i] \in Range(inbox[p])
    <3> HIDE DEF T, k, w
    <3> QED
      BY <1>1, <2>2, <2>3
  <2> QED
    BY <2>1, <2>4 DEF ReadAt
<1> QED
  BY <1>2, <1>3, <1>4, <1>5 DEF DirectionStep

\* A plain row that leaves the table is in the inbox, or the file is torn.
LEMMA RowsLeave ==
  ASSUME QueuesOK, NEW d \in Endpoints, ShapeAt(d), ReadAt(d), DirectionStep(d),
         NEW m \in Range(table[Peer(d)]), m \in PlainMessage
  PROVE  m \in Range(table'[Peer(d)]) \/ m \in Range(inbox'[Peer(d)]) \/ Torn(d)
<1> DEFINE p == Peer(d)
           T == table[p]
           k == selected[p]
<1>1. T \in Seq(Message) /\ k \in 0..Len(T) /\ Len(T) \in Nat
  BY PeerIsOther, LenProperties DEF QueuesOK, ShapeAt
<1>2. PICK i \in 1..Len(T) : T[i] = m
  BY <1>1, RangeIs
<1>3. CASE TableSame(d)
  BY <1>3 DEF TableSame
<1>4. CASE Writes(d)
  <2> DEFINE w == table'[p]
  <2>1. w \in Seq(Message) /\ Len(w) \in Nat /\ Len(T) <= Len(w)
        /\ \A j \in 1..Len(T) :
             w[j] = T[j] \/ (w[j] \notin PlainMessage /\ T[j] \notin PlainMessage)
    BY <1>4, RowsWritten, LenProperties
  <2>2. i \in 1..Len(w) /\ w[i] = m
    BY <1>1, <1>2, <2>1
  <2>3. w[i] \in Range(w)
    BY <2>1, <2>2, RangeIs
  <2> QED
    BY <2>2, <2>3
<1>5. CASE Forgets(d)
  <2> DEFINE r == SubSeq(T, k + 1, Len(T))
  <2>1. table'[p] = r /\ inbox'[p] = inbox[p]
    BY <1>5 DEF Forgets
  <2>2. CASE i <= k
    <3>1. i \in 1..k
      BY <1>1, <1>2, <2>2
    <3> QED
      BY <1>2, <2>1, <3>1 DEF ReadAt
  <2>3. CASE ~(i <= k)
    <3>1. r \in Seq(Message) /\ Len(r) = Len(T) - k /\ \A j \in 1..(Len(T) - k) : r[j] = T[k + j]
      BY <1>1, After
    <3> HIDE DEF T, k, r
    <3>2. i - k \in 1..Len(r) /\ i - k \in 1..(Len(T) - k) /\ k + (i - k) = i
      BY <1>1, <1>2, <2>3, <3>1
    <3>3. r[i - k] = m
      BY <1>2, <3>1, <3>2
    <3>4. m \in Range(r)
      BY <3>1, <3>2, <3>3, RangeIs
    <3> QED
      BY <2>1, <3>4 DEF T, k, r
  <2> QED
    BY <2>2, <2>3
<1> QED
  BY <1>3, <1>4, <1>5
     DEF DirectionStep, Rests, Gets, Gives, Reads, SenderLost, ReaderLost

\* A committed row that is never overwritten leaves its table only when the
\* receiver has it in its inbox, whatever aborts, crashes and is started again,
\* unless the whole file is lost, in a process that ends with the reserved lock.
THEOREM RowsAreNotLost == Spec => RowsLeaveForInbox
<1> DEFINE ReadInv == \A d \in Endpoints : ReadAt(d)
           Lost == malformed' /\ \E f \in Endpoints : lock[f] = "reserved" /\ aborted'[f]
           Leave == \A e \in Endpoints : \A m \in ToSet(Plain(table[e])) :
                      \/ m \in ToSet(table'[e]) \union ToSet(inbox'[e])
                      \/ malformed' /\ \E f \in Endpoints : lock[f] = "reserved" /\ aborted'[f]
<1>1. PairInit => ReadInv
  BY PeerIsOther DEF PairInit, ReadAt
<1>2. BaseInv /\ ReadInv /\ [Next]_vars => ReadInv'
  <2> SUFFICES ASSUME BaseInv, ReadInv, [Next]_vars, NEW d \in Endpoints PROVE ReadAt(d)'
    OBVIOUS
  <2>1. CASE Next
    BY <2>1, Directions, ReadStep DEF BaseInv, Shapes
  <2>2. CASE UNCHANGED vars
    BY <2>2 DEF ReadAt, vars
  <2> QED
    BY <2>1, <2>2
<1>3. BaseInv /\ ReadInv /\ [Next]_vars => [Leave]_vars
  <2> SUFFICES ASSUME BaseInv, ReadInv, Next, NEW e \in Endpoints,
                      NEW m \in ToSet(Plain(table[e]))
               PROVE  m \in ToSet(table'[e]) \/ m \in ToSet(inbox'[e]) \/ Lost
    OBVIOUS
  <2> DEFINE d == Peer(e)
  <2>1. d \in Endpoints /\ Peer(d) = e
    BY PeerIsOther
  <2>2. DirectionStep(d) /\ ShapeAt(d) /\ ReadAt(d) /\ QueuesOK
    BY <2>1, Directions DEF BaseInv, Shapes
  <2>3. \A q : ToSet(q) = Range(q)
    BY DEF ToSet, Range
  <2>4. m \in Range(table[e]) /\ m \in PlainMessage
    <3>1. \A q \in Seq(Message) : Range(Filter(q, PlainMessage)) = Range(q) \cap PlainMessage
      BY FilterRange
    <3>2. table[e] \in Seq(Message)
      BY <2>2 DEF QueuesOK
    <3>3. m \in Range(Filter(table[e], PlainMessage))
      BY <2>3 DEF Plain
    <3> QED
      BY <3>1, <3>2, <3>3
  <2> HIDE DEF d
  <2> QED
    BY <2>1, <2>2, <2>3, <2>4, RowsLeave DEF Torn
<1> HIDE DEF ReadInv
<1> QED
  BY <1>1, <1>2, <1>3, BaseHolds, PTL DEF Spec, RowsLeaveForInbox

-----------------------------------------------------------------------------
(* Messages that are overwritten.                                          *)

\* In the direction from d the messages of a name come in order: those
\* handled, those in the inbox, the rows and the outbox; a row that has been
\* read may be newer than its copy in the inbox, but not than what follows.
OrderAt(d) ==
  LET h == handled[Peer(d)]
      x == inbox[Peer(d)]
      t == table[Peer(d)]
      b == outbox[d]
  IN  /\ Ordered(h) /\ Ordered(x) /\ Ordered(t) /\ Ordered(b)
      /\ Before(h, x) /\ Before(h, t) /\ Before(h, b)
      /\ Before(x, Unread(d)) /\ Before(x, b) /\ Before(t, b)
      /\ \A m \in (Range(h) \union Range(x)) \union (Range(t) \union Range(b)) :
           m.seq <= Len(sent[d])

\* What is in the table and in its unread rows after writing.
LEMMA RowsFrom ==
  ASSUME QueuesOK, NEW d \in Endpoints, ShapeAt(d), Writes(d)
  PROVE  /\ Range(table'[Peer(d)]) \subseteq Range(table[Peer(d)]) \union Range(outbox[d])
         /\ Range(Unread(d)') \subseteq Range(Unread(d)) \union Range(outbox[d])
<1> DEFINE T == table[Peer(d)]
           k == selected[Peer(d)]
           B == outbox[d]
           w == WriteAll(T, B)
           r == SubSeq(T, k + 1, Len(T))
           v == SubSeq(w, k + 1, Len(w))
<1>1. T \in Seq(Message) /\ B \in Seq(Message) /\ k \in 0..Len(T) /\ Len(T) \in Nat
  BY PeerIsOther, LenProperties DEF QueuesOK, ShapeAt
<1>2. table'[Peer(d)] = w /\ Unread(d) = r /\ Unread(d)' = v
  BY DEF Unread, Writes, ReaderSame
<1>3. Written(Message, T, B, w)
  <2>1. \A rows, box \in Seq(Message) : Written(Message, rows, box, WriteAll(rows, box))
    BY WritePoints
  <2> HIDE DEF T, B
  <2> QED
    BY <1>1, <2>1
<1> HIDE DEF T, B, w, k
<1>4. w \in Seq(Message) /\ Len(w) \in Nat /\ Len(T) <= Len(w)
      /\ \A i \in 1..Len(w) : (i <= Len(T) /\ w[i] = T[i]) \/ w[i] \in Range(B)
  BY <1>3, LenProperties DEF Written
<1>5. ASSUME NEW m \in Range(w) PROVE m \in Range(T) \/ m \in Range(B)
  <2>1. PICK i \in 1..Len(w) : w[i] = m
    BY <1>4, RangeIs
  <2>2. CASE i <= Len(T) /\ w[i] = T[i]
    <3>1. i \in 1..Len(T)
      BY <1>1, <2>1, <2>2
    <3> QED
      BY <1>1, <2>1, <2>2, <3>1, RangeIs
  <2> QED
    BY <1>4, <2>1, <2>2
<1>6. r \in Seq(Message) /\ Len(r) = Len(T) - k /\ \A i \in 1..(Len(T) - k) : r[i] = T[k + i]
  BY <1>1, After
<1>7. k \in 0..Len(w)
  BY <1>1, <1>4
<1>8. v \in Seq(Message) /\ Len(v) = Len(w) - k /\ \A i \in 1..(Len(w) - k) : v[i] = w[k + i]
  BY <1>4, <1>7, After
<1> HIDE DEF r, v
<1>9. ASSUME NEW m \in Range(v) PROVE m \in Range(r) \/ m \in Range(B)
  <2>1. PICK i \in 1..Len(v) : v[i] = m
    BY <1>8, RangeIs
  <2>2. k + i \in 1..Len(w) /\ w[k + i] = m
    BY <1>1, <1>4, <1>8, <2>1
  <2>3. CASE k + i <= Len(T) /\ w[k + i] = T[k + i]
    <3>1. i \in 1..Len(r) /\ r[i] = m
      BY <1>1, <1>6, <2>1, <2>2, <2>3
    <3> QED
      BY <1>6, <3>1, RangeIs
  <2> QED
    BY <1>4, <2>2, <2>3
<1> QED
  BY <1>2, <1>5, <1>9 DEF T, B

\* Every step of a direction keeps the order.
LEMMA OrderStep ==
  ASSUME QueuesOK, NEW d \in Endpoints, ShapeAt(d), OrderAt(d), DirectionStep(d)
  PROVE  OrderAt(d)'
<1> DEFINE p == Peer(d)
           h == handled[p]
           x == inbox[p]
           t == table[p]
           b == outbox[d]
           s == sent[d]
           r == Unread(d)
           none == <<>>
           Fine(h1, x1, t1, r1, b1, n) ==
             /\ Ordered(h1) /\ Ordered(x1) /\ Ordered(t1) /\ Ordered(b1)
             /\ Before(h1, x1) /\ Before(h1, t1) /\ Before(h1, b1)
             /\ Before(x1, r1) /\ Before(x1, b1) /\ Before(t1, b1)
             /\ \A m \in (Range(h1) \union Range(x1)) \union (Range(t1) \union Range(b1)) :
                  m.seq <= n
<1>1. /\ h \in Seq(Message) /\ x \in Seq(Message) /\ b \in Seq(Message) /\ s \in Seq(Message)
      /\ t \in Seq(Message) /\ r \in Seq(Message) /\ p \in Endpoints /\ Len(s) \in Nat
  BY PeerIsOther, LenProperties, UnreadSteps DEF QueuesOK
<1>2. Fine(h, x, t, r, b, Len(s))
  BY DEF OrderAt
<1>3. ASSUME Fine(handled'[p], inbox'[p], table'[p], Unread(d)', outbox'[d], Len(sent'[d]))
      PROVE  OrderAt(d)'
  BY <1>3 DEF OrderAt
<1>4. Ordered(none) /\ Range(none) = {} /\ \A q : Before(q, none) /\ Before(none, q)
  <2>1. Len(none) = 0
    BY EmptySeq
  <2>2. Range(none) = {}
    BY RangeEmpty
  <2> HIDE DEF none
  <2> QED
    BY <2>1, <2>2 DEF Ordered, Before
<1>5. Range(r) \subseteq Range(t)
  <2>1. selected[p] \in 0..Len(t)
    BY DEF ShapeAt
  <2> QED
    BY <1>1, <2>1, OrderedAfter DEF Unread
<1>6. \A q \in Seq(Message) : Range(q) \subseteq Message
  BY RangeIs
<1>7. CASE Rests(d)
  <2>1. /\ handled'[p] = h /\ inbox'[p] = x /\ table'[p] = t /\ Unread(d)' = r
        /\ outbox'[d] = b /\ sent'[d] = s
    BY <1>7, UnreadSteps DEF Rests, SenderSame, ReaderSame, TableSame
  <2> QED
    BY <1>2, <1>3, <2>1
<1>8. CASE Gets(d)
  <2>1. PICK m \in Message : /\ m.seq = Len(s) + 1
                             /\ outbox'[d] = Append(b, m) /\ sent'[d] = Append(s, m)
                             /\ TableSame(d) /\ ReaderSame(d)
    BY <1>8 DEF Gets
  <2>2. handled'[p] = h /\ inbox'[p] = x /\ table'[p] = t /\ Unread(d)' = r
    BY <2>1, UnreadSteps DEF ReaderSame, TableSame
  <2> DEFINE c == Append(b, m)
             n == Len(Append(s, m))
  <2>3. Range(c) = Range(b) \union {m} /\ n = Len(s) + 1
    BY <1>1, Pushed, RangePush
  <2>4. (\A a \in Range(b) : Precedes(a, m)) => (Ordered(b) => Ordered(c))
    BY <1>1, OrderedPush
  <2> HIDE DEF c, n, h, x, t, r, b, s
  <2>5. \A a \in (Range(h) \union Range(x)) \union (Range(t) \union Range(b)) :
          a.seq \in Nat /\ a.seq <= Len(s)
    BY <1>1, <1>2, <1>6 DEF Message
  <2>6. /\ \A a \in Range(h) : Precedes(a, m)
        /\ \A a \in Range(x) : Precedes(a, m)
        /\ \A a \in Range(t) : Precedes(a, m)
        /\ \A a \in Range(b) : Precedes(a, m)
    BY <1>1, <2>1, <2>5 DEF Precedes
  <2>7. Before(h, c) /\ Before(x, c) /\ Before(t, c) /\ Ordered(c)
    BY <1>2, <2>3, <2>4, <2>6 DEF Before
  <2>8. \A a \in (Range(h) \union Range(x)) \union (Range(t) \union Range(c)) : a.seq <= n
    BY <1>1, <2>1, <2>3, <2>5
  <2>9. Fine(h, x, t, r, c, n)
    BY <1>2, <2>7, <2>8
  <2> HIDE DEF Fine
  <2> QED
    BY <1>3, <2>1, <2>2, <2>9 DEF c, n
<1>9. CASE Gives(d)
  <2> DEFINE g == Append(h, Head(x))
             y == Tail(x)
             a == Head(x)
  <2>1. /\ x # none /\ inbox'[p] = y /\ handled'[p] = g
        /\ table'[p] = t /\ outbox'[d] = b /\ sent'[d] = s /\ selected[p] = 0
        /\ Unread(d)' = r
    BY <1>9, UnreadSteps DEF Gives, SenderSame, TableSame
  <2>2. r = t
    BY <1>1, <2>1, AfterNone DEF Unread
  <2>3. a \in Message /\ a \in Range(x) /\ Range(y) \subseteq Range(x)
    BY <1>1, <2>1, Popped, RangePop
  <2>4. Range(g) = Range(h) \union {a}
    BY <1>1, <2>3, RangePush
  <2>5. Ordered(y) /\ \A m \in Range(y) : Precedes(a, m)
    BY <1>1, <1>2, <2>1, OrderedPop
  <2>6. Ordered(g)
    <3>1. \A m \in Range(h) : Precedes(m, a)
      BY <1>2, <2>3 DEF Before
    <3> QED
      BY <1>1, <1>2, <2>3, <3>1, OrderedPush
  <2> HIDE DEF g, y, a, h, x, t, r, b, s
  <2>7. Before(g, y) /\ Before(g, t) /\ Before(g, b) /\ Before(y, r) /\ Before(y, b)
    BY <1>2, <2>2, <2>3, <2>4, <2>5 DEF Before
  <2>8. \A m \in (Range(g) \union Range(y)) \union (Range(t) \union Range(b)) : m.seq <= Len(s)
    BY <1>2, <2>3, <2>4
  <2>9. Fine(g, y, t, r, b, Len(s))
    BY <1>2, <2>5, <2>6, <2>7, <2>8
  <2> HIDE DEF Fine
  <2> QED
    BY <1>3, <2>1, <2>9
<1>10. CASE Writes(d)
  <2> DEFINE w == table'[p]
             v == Unread(d)'
  <2>1. handled'[p] = h /\ inbox'[p] = x /\ outbox'[d] = none /\ sent'[d] = s
    BY <1>10 DEF Writes, ReaderSame
  <2>2. Range(w) \subseteq Range(t) \union Range(b) /\ Range(v) \subseteq Range(r) \union Range(b)
    BY <1>10, RowsFrom
  <2>3. Ordered(w)
    <3>1. w = WriteAll(t, b)
      BY <1>10 DEF Writes
    <3> HIDE DEF w, t, b
    <3> QED
      BY <1>1, <1>2, <3>1, WriteOrdered
  <2> HIDE DEF w, v, h, x, t, r, b, s, none
  <2>4. Before(h, w) /\ Before(x, v)
    BY <1>2, <2>2 DEF Before
  <2>5. \A m \in (Range(h) \union Range(x)) \union (Range(w) \union Range(none)) : m.seq <= Len(s)
    BY <1>2, <1>4, <2>2
  <2>6. Fine(h, x, w, v, none, Len(s))
    BY <1>2, <1>4, <2>3, <2>4, <2>5
  <2> HIDE DEF Fine
  <2> QED
    BY <1>3, <2>1, <2>6 DEF w, v
<1>11. CASE Reads(d)
  <2>1. /\ handled'[p] = h /\ inbox'[p] = t /\ table'[p] = t /\ Unread(d)' = none
        /\ outbox'[d] = b /\ sent'[d] = s
    BY <1>11, UnreadSteps DEF Reads, SenderSame, TableSame
  <2> HIDE DEF h, x, t, r, b, s, none
  <2>2. Fine(h, t, t, none, b, Len(s))
    BY <1>2, <1>4
  <2> HIDE DEF Fine
  <2> QED
    BY <1>3, <2>1, <2>2
<1>12. CASE Forgets(d)
  <2>1. /\ handled'[p] = h /\ inbox'[p] = x /\ table'[p] = r /\ Unread(d)' = r
        /\ outbox'[d] = b /\ sent'[d] = s
    BY <1>12, UnreadSteps DEF Forgets, SenderSame, Unread
  <2>2. Ordered(r)
    <3>1. selected[p] \in 0..Len(t)
      BY DEF ShapeAt
    <3> QED
      BY <1>1, <1>2, <3>1, OrderedAfter DEF Unread
  <2> HIDE DEF h, x, t, r, b, s
  <2>3. Before(h, r) /\ Before(r, b)
    BY <1>2, <1>5 DEF Before
  <2>4. Fine(h, x, r, r, b, Len(s))
    BY <1>2, <1>5, <2>2, <2>3
  <2> HIDE DEF Fine
  <2> QED
    BY <1>3, <2>1, <2>4
<1>13. CASE SenderLost(d)
  <2>1. /\ handled'[p] = h /\ inbox'[p] = x /\ table'[p] = t /\ Unread(d)' = r
        /\ outbox'[d] = none /\ sent'[d] = s
    BY <1>13, UnreadSteps DEF SenderLost, ReaderSame, TableSame
  <2> HIDE DEF h, x, t, r, b, s, none
  <2>2. Fine(h, x, t, r, none, Len(s))
    BY <1>2, <1>4
  <2> HIDE DEF Fine
  <2> QED
    BY <1>3, <2>1, <2>2
<1>14. CASE ReaderLost(d)
  <2>1. /\ handled'[p] = h /\ inbox'[p] = none /\ table'[p] = t /\ Unread(d)' = t
        /\ outbox'[d] = b /\ sent'[d] = s
    BY <1>14, UnreadSteps DEF ReaderLost, SenderSame, TableSame
  <2> HIDE DEF h, x, t, r, b, s, none
  <2>2. Fine(h, none, t, t, b, Len(s))
    BY <1>2, <1>4
  <2> HIDE DEF Fine
  <2> QED
    BY <1>3, <2>1, <2>2
<1>15. CASE Torn(d)
  <2>1. /\ handled'[p] = h /\ inbox'[p] = x /\ table'[p] = none /\ Unread(d)' = none
        /\ outbox'[d] = b /\ sent'[d] = s
    BY <1>15, UnreadSteps DEF Torn, SenderSame
  <2> HIDE DEF h, x, t, r, b, s, none
  <2>2. Fine(h, x, none, none, b, Len(s))
    BY <1>2, <1>4
  <2> HIDE DEF Fine
  <2> QED
    BY <1>3, <2>1, <2>2
<1> QED
  BY <1>7, <1>8, <1>9, <1>10, <1>11, <1>12, <1>13, <1>14, <1>15 DEF DirectionStep

\* A receiver never handles an older message of a name after a newer one,
\* whatever is overwritten when, whichever process aborts and is started
\* again.
THEOREM OlderNeverAfterNewer == Spec => []NeverGoesBack
<1> DEFINE OrderInv == \A d \in Endpoints : OrderAt(d)
<1>1. PairInit => OrderInv
  <2> SUFFICES ASSUME PairInit, NEW d \in Endpoints PROVE OrderAt(d)
    OBVIOUS
  <2> DEFINE none == <<>>
  <2>1. /\ handled[Peer(d)] = none /\ inbox[Peer(d)] = none /\ outbox[d] = none
        /\ table[Peer(d)] = none
    BY PeerIsOther DEF PairInit, Init
  <2>2. Len(none) = 0 /\ Range(none) = {}
    BY EmptySeq, RangeEmpty
  <2> HIDE DEF none
  <2>3. Ordered(none) /\ \A q : Before(q, none) /\ Before(none, q)
    BY <2>2 DEF Ordered, Before
  <2> QED
    BY <2>1, <2>2, <2>3 DEF OrderAt
<1>2. BaseInv /\ OrderInv /\ [Next]_vars => OrderInv'
  <2> SUFFICES ASSUME BaseInv, OrderInv, [Next]_vars, NEW d \in Endpoints PROVE OrderAt(d)'
    OBVIOUS
  <2>1. CASE Next
    BY <2>1, Directions, OrderStep DEF BaseInv, Shapes
  <2>2. CASE UNCHANGED vars
    BY <2>2 DEF OrderAt, Unread, vars
  <2> QED
    BY <2>1, <2>2
<1>3. BaseInv /\ OrderInv => NeverGoesBack
  <2> SUFFICES ASSUME BaseInv, OrderInv, NEW e \in Endpoints,
                      NEW i \in DOMAIN handled[e], NEW j \in DOMAIN handled[e],
                      i < j, SameName(handled[e][i], handled[e][j])
               PROVE  handled[e][i].seq <= handled[e][j].seq
    BY DEF NeverGoesBack
  <2>1. Peer(e) \in Endpoints /\ Peer(Peer(e)) = e
    BY PeerIsOther
  <2>2. OrderAt(Peer(e))
    BY <2>1
  <2>3. Ordered(handled[e])
    BY <2>1, <2>2 DEF OrderAt
  <2>4. DOMAIN handled[e] = 1..Len(handled[e])
    BY LenProperties DEF BaseInv, QueuesOK
  <2> QED
    BY <2>3, <2>4 DEF Ordered
<1> HIDE DEF OrderInv
<1> QED
  BY <1>1, <1>2, <1>3, BaseHolds, PTL DEF Spec

-----------------------------------------------------------------------------
(* Without UpdateMessage the pair implements FifoLink.                     *)

NoUpdates == \A t \in Types : ~t.overwrite

\* Rows that have been read and not deleted are in the inbox, and nothing
\* else is.
LinkedAt(d) == selected[Peer(d)] # 0 => inbox[Peer(d)] \o Unread(d) = table[Peer(d)]

\* Without UpdateMessage writing appends the outbox to the rows, read or not.
LEMMA WritesAppend ==
  ASSUME NoUpdates, QueuesOK, NEW d \in Endpoints, ShapeAt(d), Writes(d)
  PROVE  /\ table'[Peer(d)] = table[Peer(d)] \o outbox[d]
         /\ Unread(d)' = Unread(d) \o outbox[d]
<1> DEFINE T == table[Peer(d)]
           B == outbox[d]
<1>1. T \in Seq(Message) /\ B \in Seq(Message) /\ Unread(d) \in Seq(Message)
  BY PeerIsOther, UnreadSteps DEF QueuesOK
<1>2. (\A m \in Message : ~m.type.overwrite) /\ Message \subseteq PlainMessage
  BY DEF NoUpdates, Message, PlainMessage
<1>3. \A rows, box \in Seq(Message) : WriteAll(rows, box) = rows \o box
  BY <1>2, WriteAppends
<1>4. \A q \in Seq(Message) : Plain(q) = q
  BY <1>2, FilterAll DEF Plain
<1>5. table'[Peer(d)] = WriteAll(T, B)
  BY DEF Writes
<1>6. Unread(d)' \in Seq(Message) /\ Plain(Unread(d)') = Plain(Unread(d) \o B)
  BY UnreadWrites
<1>7. Unread(d) \o B \in Seq(Message)
  <2> DEFINE r == Unread(d)
  <2>1. r \in Seq(Message)
    BY <1>1
  <2> HIDE DEF r, B
  <2>2. r \o B \in Seq(Message)
    BY <1>1, <2>1, ConcatProperties
  <2> QED
    BY <2>2 DEF r
<1> HIDE DEF T, B
<1>8. table'[Peer(d)] = T \o B
  BY <1>1, <1>3, <1>5
<1>9. Unread(d)' = Unread(d) \o B
  BY <1>4, <1>6, <1>7
<1> QED
  BY <1>8, <1>9 DEF T, B

\* What the steps of a direction make of its messages under way: except for
\* those submitted and handled, they stay, or consecutive ones are lost.
LEMMA LinkSteps ==
  ASSUME NoUpdates, QueuesOK, NEW d \in Endpoints, ShapeAt(d), LinkedAt(d)
  PROVE  /\ InTransit(d) \in Seq(Message) /\ Remains(InTransit(d), InTransit(d))
         /\ DirectionStep(d) => Gets(d) \/ Gives(d) \/ Remains(InTransit(d)', InTransit(d))
         /\ DirectionStep(d) => LinkedAt(d)'
<1> DEFINE p == Peer(d)
           x == inbox[p]
           r == Unread(d)
           t == table[p]
           b == outbox[d]
           none == <<>>
           Q == Seq(Message)
           Cat(q, v) == q \o v
<1>1. x \in Q /\ r \in Q /\ t \in Q /\ b \in Q /\ none \in Q
  BY PeerIsOther, UnreadSteps, EmptySeq DEF QueuesOK
<1>2. \A q, v \in Q : Cat(q, v) \in Q
  BY ConcatProperties
<1>3. \A q, v, w \in Q : Cat(Cat(q, v), w) = Cat(q, Cat(v, w))
  BY ConcatAssociative
<1>4. \A q \in Q : Cat(q, none) = q /\ Cat(none, q) = q
  BY ConcatEmptySeq
<1>5. \A q, v \in Q : Remains(q, Cat(q, v)) /\ Remains(v, Cat(q, v)) /\ Remains(q, q)
  BY RemainsOfTwo
<1>6. InTransit(d) = Cat(Cat(x, r), b)
  BY DEF InTransit, Unread
<1>7. InTransit(d)' = Cat(Cat(inbox'[p], Unread(d)'), outbox'[d])
  BY DEF InTransit, Unread
<1>8. LinkedAt(d) <=> (selected[p] # 0 => Cat(x, r) = t)
  BY DEF LinkedAt
<1>9. LinkedAt(d)' <=> (selected'[p] # 0 => Cat(inbox'[p], Unread(d)') = table'[p])
  BY DEF LinkedAt
<1>10. selected[p] = 0 => r = t
  BY <1>1, AfterNone DEF Unread
<1>11. InTransit(d) \in Seq(Message) /\ Remains(InTransit(d), InTransit(d))
  <2> HIDE DEF x, r, b, Cat, Q
  <2>1. InTransit(d) \in Q /\ Remains(InTransit(d), InTransit(d))
    BY <1>1, <1>2, <1>5, <1>6
  <2> QED
    BY <2>1 DEF Q
<1>12. CASE Rests(d)
  <2>1. /\ inbox'[p] = x /\ table'[p] = t /\ Unread(d)' = r /\ outbox'[d] = b
        /\ selected'[p] = selected[p]
    BY <1>12, UnreadSteps DEF Rests, SenderSame, ReaderSame, TableSame
  <2> HIDE DEF x, r, t, b, Cat, Q
  <2> QED
    BY <1>6, <1>7, <1>8, <1>9, <1>11, <2>1
<1>13. CASE Gets(d)
  <2>1. inbox'[p] = x /\ table'[p] = t /\ Unread(d)' = r /\ selected'[p] = selected[p]
    BY <1>13, UnreadSteps DEF Gets, ReaderSame, TableSame
  <2> HIDE DEF x, r, t, b, Cat, Q
  <2> QED
    BY <1>8, <1>9, <1>11, <1>13, <2>1
<1>14. CASE Gives(d)
  <2>1. selected'[p] = 0
    BY <1>14 DEF Gives
  <2> QED
    BY <1>9, <1>11, <1>14, <2>1
<1>15. CASE Writes(d)
  <2>1. /\ inbox'[p] = x /\ table'[p] = Cat(t, b) /\ Unread(d)' = Cat(r, b)
        /\ outbox'[d] = none /\ selected'[p] = selected[p]
    BY <1>15, WritesAppend DEF Writes, ReaderSame
  <2> HIDE DEF x, r, t, b, none, Cat, Q
  <2>2. Cat(x, Cat(r, b)) = Cat(Cat(x, r), b) /\ Cat(x, Cat(r, b)) \in Q
    BY <1>1, <1>2, <1>3
  <2>3. InTransit(d)' = InTransit(d)
    BY <1>4, <1>6, <1>7, <2>1, <2>2
  <2>4. selected'[p] # 0 => Cat(inbox'[p], Unread(d)') = table'[p]
    BY <1>8, <2>1, <2>2
  <2> QED
    BY <1>9, <1>11, <2>3, <2>4
<1>16. CASE Reads(d)
  <2>1. /\ x = none /\ selected[p] = 0 /\ inbox'[p] = t /\ Unread(d)' = none
        /\ outbox'[d] = b /\ table'[p] = t
    BY <1>16, UnreadSteps DEF Reads, SenderSame, TableSame
  <2> HIDE DEF x, r, t, b, none, Cat, Q
  <2>2. InTransit(d)' = InTransit(d)
    BY <1>1, <1>4, <1>6, <1>7, <1>10, <2>1
  <2>3. Cat(inbox'[p], Unread(d)') = table'[p]
    BY <1>1, <1>4, <2>1
  <2> QED
    BY <1>9, <1>11, <2>2, <2>3
<1>17. CASE Forgets(d)
  <2>1. inbox'[p] = x /\ Unread(d)' = r /\ outbox'[d] = b /\ selected'[p] = 0
    BY <1>17, UnreadSteps DEF Forgets, SenderSame
  <2> HIDE DEF x, r, t, b, Cat, Q
  <2> QED
    BY <1>6, <1>7, <1>9, <1>11, <2>1
<1>18. CASE SenderLost(d)
  <2>1. /\ inbox'[p] = x /\ table'[p] = t /\ Unread(d)' = r /\ outbox'[d] = none
        /\ selected'[p] = selected[p]
    BY <1>18, UnreadSteps DEF SenderLost, ReaderSame, TableSame
  <2> HIDE DEF x, r, t, b, none, Cat, Q
  <2>2. InTransit(d)' = Cat(x, r) /\ Cat(x, r) \in Q
    BY <1>1, <1>2, <1>4, <1>7, <2>1
  <2>3. Remains(Cat(x, r), Cat(Cat(x, r), b))
    BY <1>1, <1>5, <2>2
  <2> QED
    BY <1>6, <1>8, <1>9, <1>11, <2>1, <2>2, <2>3
<1>19. CASE ReaderLost(d)
  <2>1. /\ inbox'[p] = none /\ Unread(d)' = t /\ outbox'[d] = b /\ selected'[p] = 0
    BY <1>19, UnreadSteps DEF ReaderLost, SenderSame, TableSame
  <2> HIDE DEF x, r, t, b, none, Cat, Q
  <2>2. InTransit(d)' = Cat(t, b) /\ Cat(t, b) \in Q
    BY <1>1, <1>2, <1>4, <1>7, <2>1
  <2>3. CASE selected[p] = 0
    <3>1. InTransit(d) = Cat(x, Cat(t, b))
      BY <1>1, <1>3, <1>6, <1>10, <2>3
    <3> QED
      BY <1>1, <1>5, <1>9, <1>11, <2>1, <2>2, <3>1
  <2>4. CASE selected[p] # 0
    <3>1. InTransit(d) = Cat(t, b)
      BY <1>6, <1>8, <2>4
    <3> QED
      BY <1>9, <1>11, <2>1, <2>2, <3>1
  <2> QED
    BY <2>3, <2>4
<1>20. CASE Torn(d)
  <2>1. inbox'[p] = x /\ Unread(d)' = none /\ outbox'[d] = b /\ selected'[p] = 0
    BY <1>20, UnreadSteps DEF Torn, SenderSame
  <2>2. \A a, y, c \in Q : Remains(Cat(a, c), Cat(Cat(a, y), c))
    BY RemainsOfThree
  <2> HIDE DEF x, r, t, b, none, Cat, Q
  <2>3. InTransit(d)' = Cat(x, b)
    BY <1>1, <1>4, <1>7, <2>1
  <2>4. Remains(Cat(x, b), Cat(Cat(x, r), b))
    BY <1>1, <2>2
  <2> QED
    BY <1>6, <1>9, <1>11, <2>1, <2>3, <2>4
<1> QED
  BY <1>11, <1>12, <1>13, <1>14, <1>15, <1>16, <1>17, <1>18, <1>19, <1>20 DEF DirectionStep

\* The queues of the link, as the refinement mapping puts them together.
QueueMap == [e \in Endpoints |-> InTransit(e)]

\* The link's endpoints are the endpoints, and it may lose what is between
\* the two ends that remain of a queue.
LEMMA LinkEndpoints ==
  /\ Link!Endpoints = Endpoints /\ \A e \in Endpoints : Link!Peer(e) = Peer(e)
  /\ \A r, q : Remains(r, q) => r \in Link!Remainders(q)
<1>1. ASSUME NEW r, NEW q, Remains(r, q)
      PROVE  r \in Link!Remainders(q)
  <2>1. PICK i \in 0..Len(q) : \E j \in i..Len(q) :
               r = SubSeq(q, 1, i) \o SubSeq(q, j + 1, Len(q))
    BY <1>1 DEF Remains
  <2>2. r \in {SubSeq(q, 1, i) \o SubSeq(q, j + 1, Len(q)) : j \in i..Len(q)}
    BY <2>1
  <2> QED
    BY <2>1, <2>2 DEF Link!Remainders
<1>2. Link!Endpoints = Endpoints /\ \A e \in Endpoints : Link!Peer(e) = Peer(e)
  BY DEF Endpoints, Link!Endpoints, Peer, Link!Peer
<1> QED
  BY <1>1, <1>2

\* A step that at most loses messages of either direction is a step of the
\* link.
LEMMA LinkLoses ==
  ASSUME UNCHANGED <<sent, handled>>, \A e \in Endpoints : Remains(InTransit(e)', InTransit(e))
  PROVE  Link!Next
<1>1. Server \in Endpoints /\ Client \in Endpoints /\ Endpoints = {Server, Client}
      /\ Server # Client
  BY RolesDiffer DEF Endpoints
<1>2. QueueMap' = [QueueMap EXCEPT ![Server] = InTransit(Server)', ![Client] = InTransit(Client)']
  BY <1>1 DEF QueueMap
<1>3. QueueMap[Server] = InTransit(Server) /\ QueueMap[Client] = InTransit(Client)
  BY <1>1 DEF QueueMap
<1>4. /\ InTransit(Server)' \in Link!Remainders(QueueMap[Server])
      /\ InTransit(Client)' \in Link!Remainders(QueueMap[Client])
  BY <1>1, <1>3, LinkEndpoints
<1>5. Link!Lose
  BY <1>2, <1>4 DEF Link!Lose, QueueMap
<1> QED
  BY <1>5 DEF Link!Next

\* A message submitted enters the link.
LEMMA LinkSubmits ==
  ASSUME QueuesOK, Shapes, NEW e \in Endpoints, NEW m, Submits(e, m)
  PROVE  Link!Next
<1> DEFINE p == Peer(e)
           q == InTransit(e)
           b == outbox[e]
<1>1. p \in Endpoints /\ p # e /\ Peer(p) = e /\ \A f \in Endpoints : f # e => f = p
  BY PeerIsOther
<1>2. /\ m \in Message /\ m.from = e /\ m.seq = Len(sent[e]) + 1
      /\ sent' = [sent EXCEPT ![e] = Append(sent[e], m)]
      /\ outbox'[e] = Append(b, m) /\ outbox'[p] = outbox[p]
      /\ UNCHANGED <<inbox, handled, table, selected>>
  BY <1>1 DEF Submits, QueuesOK
<1>3. m.type \in Types /\ m = [from |-> e, seq |-> Len(sent[e]) + 1, type |-> m.type]
  BY <1>2 DEF Message
<1>4. InTransit(p)' = InTransit(p)
  BY <1>1, <1>2 DEF InTransit
<1>5. InTransit(e)' = Append(q, m)
  <2> DEFINE x == inbox[p]
             r == Unread(e)
             y == x \o r
  <2>1. x \in Seq(Message) /\ r \in Seq(Message) /\ b \in Seq(Message)
    BY <1>1, UnreadSteps DEF QueuesOK, Shapes
  <2>2. q = y \o b /\ InTransit(e)' = y \o Append(b, m)
    BY <1>2 DEF InTransit, Unread
  <2>3. y \in Seq(Message)
    <3> HIDE DEF x, r
    <3> QED
      BY <2>1, ConcatProperties
  <2> HIDE DEF b, q, y
  <2>4. \A a, c \in Seq(Message) : a \o Append(c, m) = Append(a \o c, m)
    BY <1>2, TailAdded
  <2> QED
    BY <2>1, <2>2, <2>3, <2>4
<1>6. QueueMap' = [QueueMap EXCEPT ![e] = Append(QueueMap[e], m)]
  <2> HIDE DEF q
  <2>1. QueueMap[e] = q
    BY DEF QueueMap, q
  <2> QED
    BY <1>1, <1>4, <1>5, <2>1 DEF QueueMap
<1>7. Link!Submit(e)
  BY <1>2, <1>3, <1>6 DEF Link!Submit, QueueMap
<1> QED
  BY <1>7, LinkEndpoints DEF Link!Next

\* A message handled leaves the link at its head.
LEMMA LinkHandles ==
  ASSUME QueuesOK, Shapes, NEW e \in Endpoints, Handles(e)
  PROVE  Link!Next
<1> DEFINE p == Peer(e)
           q == InTransit(p)
           x == inbox[e]
           h == Head(x)
<1>1. p \in Endpoints /\ p # e /\ Peer(p) = e /\ \A f \in Endpoints : f # p => f = e
  BY PeerIsOther
<1>2. /\ x # <<>> /\ inbox'[e] = Tail(x) /\ inbox'[p] = inbox[p]
      /\ handled' = [handled EXCEPT ![e] = Append(handled[e], h)]
      /\ UNCHANGED <<outbox, sent, table, selected>>
  BY <1>1 DEF Handles, QueuesOK
<1>3. InTransit(e)' = InTransit(e)
  BY <1>1, <1>2 DEF InTransit
<1>4. q # <<>> /\ Head(q) = h /\ InTransit(p)' = Tail(q)
  <2> DEFINE r == Unread(p)
             b == outbox[p]
             y == x \o r
  <2>1. x \in Seq(Message) /\ r \in Seq(Message) /\ b \in Seq(Message)
    BY <1>1, UnreadSteps DEF QueuesOK, Shapes
  <2>2. q = y \o b /\ InTransit(p)' = (Tail(x) \o r) \o b
    BY <1>1, <1>2 DEF InTransit, Unread
  <2>3. y # <<>> /\ Head(y) = Head(x) /\ Tail(y) = Tail(x) \o r /\ y \in Seq(Message)
    <3> HIDE DEF x, r
    <3> QED
      BY <1>2, <2>1, HeadOfConcat, ConcatProperties
  <2>4. y \o b # <<>> /\ Head(y \o b) = Head(y) /\ Tail(y \o b) = Tail(y) \o b
    <3> HIDE DEF y, b
    <3> QED
      BY <2>1, <2>3, HeadOfConcat
  <2> QED
    BY <2>2, <2>3, <2>4
<1> HIDE DEF q, h, x
<1>5. QueueMap[p] = q
  BY <1>1 DEF QueueMap, q
<1>6. QueueMap' = [QueueMap EXCEPT ![p] = Tail(QueueMap[p])]
  BY <1>1, <1>3, <1>4, <1>5 DEF QueueMap
<1>7. Link!Handle(e)
  <2>1. Link!Peer(e) = p
    BY LinkEndpoints
  <2> QED
    BY <1>2, <1>4, <1>5, <1>6, <2>1 DEF Link!Handle, QueueMap
<1> QED
  BY <1>7, LinkEndpoints DEF Link!Next

\* The reachable states without UpdateMessage.
LinkInv == \A d \in Endpoints : LinkedAt(d)

\* Every step is a step of the link.
LEMMA StepImplements ==
  ASSUME NoUpdates, BaseInv, LinkInv, Next
  PROVE  Link!Next
<1> USE DEF BaseInv
<1>1. CASE UNCHANGED <<sent, handled>>
  <2> SUFFICES ASSUME NEW d \in Endpoints PROVE Remains(InTransit(d)', InTransit(d))
    BY <1>1, LinkLoses
  <2>1. DirectionStep(d) /\ ShapeAt(d) /\ LinkedAt(d)
    BY Directions DEF Shapes, LinkInv
  <2>2. sent[d] \in Seq(Message) /\ handled[Peer(d)] \in Seq(Message)
    BY PeerIsOther DEF QueuesOK
  <2>3. ~Gets(d)
    <3>1. \A m \in Message : Len(Append(sent[d], m)) = Len(sent[d]) + 1 /\ Len(sent[d]) \in Nat
      BY <2>2, Pushed, LenProperties
    <3>2. \A m \in Message : Append(sent[d], m) # sent[d]
      BY <3>1
    <3> QED
      BY <1>1, <3>2 DEF Gets
  <2>4. ~Gives(d)
    <3>1. \A m \in Message : /\ Len(Append(handled[Peer(d)], m)) = Len(handled[Peer(d)]) + 1
                             /\ Len(handled[Peer(d)]) \in Nat
      BY <2>2, Pushed, LenProperties
    <3>2. \A m \in Message : Append(handled[Peer(d)], m) # handled[Peer(d)]
      BY <3>1
    <3>3. inbox[Peer(d)] # <<>> => Head(inbox[Peer(d)]) \in Message
      <4>1. inbox[Peer(d)] \in Seq(Message)
        BY PeerIsOther DEF QueuesOK
      <4> QED
        BY <4>1, Popped
    <3> QED
      BY <1>1, <3>2, <3>3 DEF Gives
  <2> QED
    BY <2>1, <2>3, <2>4, LinkSteps
<1>2. CASE ~UNCHANGED <<sent, handled>>
  <2>1. \E e \in Endpoints : Handles(e) \/ \E m : Submits(e, m)
    BY <1>2, CoreEffects, BeginEffects, EndEffects, CommitEffects, SelectEffects,
       DeleteEffects, RestartEffects
       DEF Next, EndpointStep, SendMessages, ReceiveMessages, Prepares, Terminates, Crash,
           Quiet, Tears, Commits, Selects, Deletes, Restarts
  <2> QED
    BY <2>1, LinkSubmits, LinkHandles
<1> QED
  BY <1>1, <1>2

\* The refinement: while no message is submitted with UpdateMessage, whatever
\* the two processes do, abort, crash or start again, is something a link may
\* do that loses messages but keeps their order and repeats none.
THEOREM PairImplementsFifoLink ==
  ASSUME \A t \in Types : ~t.overwrite
  PROVE  Spec => FifoLinkSpec
<1>1. NoUpdates
  BY DEF NoUpdates
<1>2. PairInit => Link!Init /\ LinkInv
  <2> SUFFICES ASSUME PairInit PROVE Link!Init /\ LinkInv
    OBVIOUS
  <2> DEFINE none == <<>>
  <2>1. none \in Seq({}) /\ Len(none) = 0
    BY EmptySeq
  <2>2. none \o none = none /\ SubSeq(none, 0 + 1, Len(none)) = none
    BY <2>1, ConcatEmptySeq, AfterNone
  <2>3. \A e \in Endpoints :
          /\ inbox[Peer(e)] = none /\ table[Peer(e)] = none /\ outbox[e] = none
          /\ selected[Peer(e)] = 0
    BY PeerIsOther DEF PairInit, Init
  <2>4. sent = [e \in Endpoints |-> none] /\ handled = [e \in Endpoints |-> none]
    BY DEF PairInit, Init
  <2> HIDE DEF none
  <2>5. \A e \in Endpoints : InTransit(e) = none
    BY <2>2, <2>3 DEF InTransit
  <2>6. Link!Init
    BY <2>4, <2>5, LinkEndpoints DEF Link!Init, none
  <2> QED
    BY <2>3, <2>6 DEF LinkInv, LinkedAt
<1>3. BaseInv /\ LinkInv /\ [Next]_vars => LinkInv'
  <2> SUFFICES ASSUME BaseInv, LinkInv, [Next]_vars, NEW d \in Endpoints PROVE LinkedAt(d)'
    BY DEF LinkInv
  <2>1. CASE Next
    BY <1>1, <2>1, Directions, LinkSteps DEF BaseInv, Shapes, LinkInv
  <2>2. CASE UNCHANGED vars
    BY <2>2 DEF LinkInv, LinkedAt, Unread, vars
  <2> QED
    BY <2>1, <2>2
<1>4. BaseInv /\ LinkInv /\ [Next]_vars => [Link!Next]_(Link!linkVars)
  <2>1. UNCHANGED vars => UNCHANGED Link!linkVars
    BY DEF vars, Link!linkVars, InTransit
  <2> QED
    BY <1>1, <2>1, StepImplements
<1> QED
  BY <1>2, <1>3, <1>4, BaseHolds, PTL DEF Spec, FifoLinkSpec, Link!Spec

-----------------------------------------------------------------------------
(* Who submits nothing is not ended by an exception.                       *)

\* An object that has submitted nothing has nothing to send, so that only its
\* receive thread begins transactions; that one has read the rows by then, so
\* that its first statement writes, and no SELECT is part of a transaction.
SilentAt(e) ==
  /\ outbox[e] = <<>> /\ sendPC[e] # "sending"
  /\ sendPC[e] = "ready" => ~running[e]
  /\ txn[e] \in {"none", "delete"} /\ (txn[e] = "delete" => selected[e] # 0)
  /\ lock[e] # "shared" /\ thrown[e] = {}

Silent(e) == ~malformed /\ sent[e] = <<>> => SilentAt(e)

\* Whoever has submitted nothing after a step had not before; what a step
\* leaves alone of an object stays as it was.
LEMMA SilentSame ==
  ASSUME NEW e \in Endpoints, Silent(e), malformed => malformed',
         sent'[e] = sent[e], outbox'[e] = outbox[e], sendPC'[e] = sendPC[e],
         running'[e] = running[e], txn'[e] = txn[e], lock'[e] = lock[e], thrown'[e] = thrown[e],
         ~malformed' => selected'[e] = selected[e]
  PROVE  Silent(e)'
BY DEF Silent, SilentAt

\* Steps of the objects outside the medium.
LEMMA SilentCore ==
  ASSUME ControlOK, QueuesOK, NEW e \in Endpoints, Silent(e), CoreStep(e), UNCHANGED mediumVars
  PROVE  Silent(e)'
<1>1. /\ DOMAIN outbox = Endpoints /\ DOMAIN recvPC = Endpoints /\ DOMAIN sendPC = Endpoints
      /\ DOMAIN running = Endpoints /\ DOMAIN sent = Endpoints
  BY DEF QueuesOK, ControlOK
<1>2. UNCHANGED <<txn, lock, thrown, selected, malformed>>
  BY DEF mediumVars
<1>3. CASE AppSend(e) \/ Reply(e)
  <2>1. \E t \in Types : SendMessage(e, t)
    BY <1>3 DEF AppSend, Reply
  <2>2. PICK m \in Message : sent'[e] = Append(sent[e], m)
    <3>1. \E m : Submits(e, m)
      BY <1>3, <2>1, SendMessageSubmits DEF AppSend, Reply
    <3> QED
      BY <1>1, <3>1 DEF Submits
  <2>3. sent'[e] # <<>>
    <3>1. \A q \in Seq(Message) : Append(q, m) # <<>>
      <4>1. \A q \in Seq(Message) : Len(Append(q, m)) = Len(q) + 1 /\ Len(q) \in Nat
        BY Pushed, LenProperties
      <4>2. Len(<<>>) = 0
        BY EmptySeq
      <4> QED
        BY <4>1, <4>2
    <3> QED
      BY <2>2, <3>1 DEF QueuesOK
  <2> QED
    BY <2>3 DEF Silent
<1>4. CASE ~(AppSend(e) \/ Reply(e))
  <2>1. sent' = sent /\ outbox' = outbox
    BY <1>4 DEF CoreStep, SendThread, SendLoopTest, SendAcquire, SendBlock, SendTest,
       SpuriousWakeup, SendMoves, UnchangedBySendLoop, RecvThread, RecvLoopTest, Distribute,
       DistributeEnd, StopRunning, Terminate, StopNotify, JoinAndDelete
  <2> SUFFICES ASSUME ~malformed, sent[e] = <<>>, SilentAt(e)
               PROVE  sendPC'[e] # "sending" /\ (sendPC'[e] = "ready" => ~running'[e])
    BY <1>2, <2>1 DEF Silent, SilentAt
  <2>2. Len(outbox[e]) = 0
    BY EmptySeq DEF SilentAt
  <2>3. CASE SendLoopTest(e) \/ SendBlock(e) \/ SpuriousWakeup(e)
    BY <1>1, <2>3 DEF SendLoopTest, SendBlock, SpuriousWakeup, SendMoves
  <2>4. CASE SendAcquire(e)
    <3>1. /\ running' = running
          /\ sendPC'[e] = IF WaitPredicate(e) THEN "ready" ELSE "blocking"
      BY <1>1, <2>4 DEF SendAcquire, SendMoves, UnchangedBySendLoop
    <3>2. WaitPredicate(e) => ~running[e]
      BY <2>2 DEF WaitPredicate
    <3> QED
      BY <3>1, <3>2
  <2>5. CASE SendTest(e)
    <3>1. ~running[e] /\ sendPC'[e] = "check"
      BY <1>1, <2>5 DEF SendTest, SendMoves, SilentAt
    <3> QED
      BY <3>1
  <2>6. CASE RecvThread(e)
    <3>1. UNCHANGED <<sendPC, running>>
      BY <1>4, <2>6 DEF RecvThread, RecvLoopTest, Distribute, DistributeEnd, RecvMoves
    <3> QED
      BY <3>1 DEF SilentAt
  <2>7. CASE StopRunning(e)
    <3>1. sendPC' = sendPC /\ running'[e] = FALSE
      BY <1>1, <2>7 DEF StopRunning
    <3> QED
      BY <3>1 DEF SilentAt
  <2>8. CASE Terminate(e)
    <3>1. running' = running /\ (sendPC'[e] = sendPC[e] \/ sendPC'[e] = "lock")
      BY <1>1, <2>8 DEF Terminate, StopNotify, JoinAndDelete, NotifyAll
    <3> QED
      BY <3>1 DEF SilentAt
  <2> QED
    BY <1>4, <2>3, <2>4, <2>5, <2>6, <2>7, <2>8 DEF CoreStep, SendThread
<1> QED
  BY <1>3, <1>4

\* Steps of an object in the medium.
LEMMA SilentMedium ==
  ASSUME ControlOK, QueuesOK, NEW e \in Endpoints, Silent(e),
         Prepares(e) \/ SendCommit(e) \/ Select(e) \/ DeleteOldMessages(e) \/ Restart(e)
  PROVE  Silent(e)'
<1> DEFINE none == <<>>
<1>1. /\ DOMAIN outbox = Endpoints /\ DOMAIN sendPC = Endpoints /\ DOMAIN running = Endpoints
      /\ DOMAIN selected = Endpoints /\ DOMAIN txn = Endpoints /\ DOMAIN lock = Endpoints
      /\ DOMAIN thrown = Endpoints /\ malformed \in BOOLEAN
  BY DEF QueuesOK, ControlOK
<1>2. sent' = sent /\ malformed' = malformed
  BY BeginEffects, CommitEffects, SelectEffects, DeleteEffects, RestartEffects
     DEF Quiet, Commits, Selects, Deletes, Restarts
<1>3. SilentAt(e) <=>
        /\ outbox[e] = none /\ sendPC[e] # "sending"
        /\ sendPC[e] = "ready" => ~running[e]
        /\ txn[e] \in {"none", "delete"} /\ (txn[e] = "delete" => selected[e] # 0)
        /\ lock[e] # "shared" /\ thrown[e] = {}
  BY DEF SilentAt
<1>4. SilentAt(e)' <=>
        /\ outbox'[e] = none /\ sendPC'[e] # "sending"
        /\ sendPC'[e] = "ready" => ~running'[e]
        /\ txn'[e] \in {"none", "delete"} /\ (txn'[e] = "delete" => selected'[e] # 0)
        /\ lock'[e] # "shared" /\ thrown'[e] = {}
  BY DEF SilentAt
<1> SUFFICES ASSUME ~malformed, sent[e] = none, SilentAt(e) PROVE SilentAt(e)'
  BY <1>2 DEF Silent
<1> HIDE DEF none
<1>5. CASE SendBegin(e) \/ StatementFails(e) \/ WriteLock(e, "send") \/ SendCommit(e)
  BY <1>3, <1>5 DEF SendBegin, StatementFails, WriteLock, SendCommit, CommitLock
<1>6. CASE DeleteBegin(e)
  <2>1. txn[e] = "none" /\ selected[e] > 0
    BY <1>3, <1>6 DEF DeleteBegin
  <2>2. /\ UNCHANGED coreVars /\ UNCHANGED <<selected, lock, thrown>>
        /\ txn' = [txn EXCEPT ![e] = "delete"]
    BY <1>6, <2>1 DEF DeleteBegin, Begin
  <2> QED
    BY <1>1, <1>3, <1>4, <2>1, <2>2 DEF coreVars
<1>7. CASE WriteLock(e, "delete")
  <2>1. /\ UNCHANGED coreVars /\ UNCHANGED <<selected, txn, thrown>>
        /\ lock' = [lock EXCEPT ![e] = "reserved"]
    BY <1>3, <1>7 DEF WriteLock
  <2> QED
    BY <1>1, <1>3, <1>4, <2>1 DEF coreVars
<1>8. CASE Select(e)
  <2>1. txn[e] = "none"
    BY <1>3, <1>8 DEF Select
  <2>2. UNCHANGED <<txn, thrown, outbox, running, sendPC>>
    BY <1>8 DEF Select
  <2>3. lock'[e] = lock[e]
    BY <1>1, <1>8, <2>1 DEF Select
  <2> QED
    BY <1>3, <1>4, <2>1, <2>2, <2>3
<1>9. CASE DeleteOldMessages(e)
  <2>1. /\ UNCHANGED <<thrown, outbox, running, sendPC>>
        /\ txn'[e] = "none" /\ lock'[e] = "none"
    BY <1>1, <1>9 DEF DeleteOldMessages, CommitLock
  <2> QED
    BY <1>3, <1>4, <2>1
<1>10. CASE Restart(e)
  <2>1. /\ outbox'[e] = none /\ sendPC'[e] = "check" /\ txn'[e] = "none"
        /\ lock' = lock /\ thrown'[e] = {}
    BY <1>1, <1>10 DEF Restart, none
  <2> QED
    BY <1>3, <1>4, <2>1
<1> QED
  BY <1>5, <1>6, <1>7, <1>8, <1>9, <1>10 DEF Prepares

\* The end of a process.
LEMMA SilentEnds ==
  ASSUME ControlOK, NEW e \in Endpoints, Silent(e), Ends(e)
  PROVE  Silent(e)'
<1>1. malformed => malformed'
  BY EndEffects
<1>2. UNCHANGED <<sent, outbox, sendPC, running, txn, thrown>>
  BY DEF Ends, coreVars
<1>3. lock'[e] = "none"
  BY DEF Ends, ControlOK
<1>4. ~malformed' => selected' = selected
  BY DEF Ends
<1> QED
  BY <1>1, <1>2, <1>3, <1>4 DEF Silent, SilentAt

\* Steps of the other object.
LEMMA SilentAlone ==
  ASSUME ControlOK, QueuesOK, NEW e \in Endpoints, Silent(e), NEW f \in Endpoints, f # e,
         \/ CoreStep(f) /\ UNCHANGED mediumVars
         \/ Prepares(f) \/ SendCommit(f) \/ Select(f) \/ DeleteOldMessages(f)
         \/ Ends(f) \/ Restart(f)
  PROVE  Silent(e)'
<1>1. /\ DOMAIN outbox = Endpoints /\ DOMAIN sendPC = Endpoints /\ DOMAIN running = Endpoints
      /\ DOMAIN selected = Endpoints /\ DOMAIN txn = Endpoints /\ DOMAIN lock = Endpoints
      /\ DOMAIN thrown = Endpoints /\ DOMAIN sent = Endpoints
  BY DEF QueuesOK, ControlOK
<1>2. CASE CoreStep(f) /\ UNCHANGED mediumVars
  <2>1. UNCHANGED <<txn, lock, thrown, selected, malformed>>
    BY <1>2 DEF mediumVars
  <2>2. CASE AppSend(f) \/ Reply(f)
    <3>1. sent'[e] = sent[e] /\ outbox'[e] = outbox[e] /\ sendPC'[e] = sendPC[e]
          /\ running' = running
      BY <1>1, <2>2 DEF AppSend, Reply, SendMessage, NotifyAll
    <3> QED
      BY <2>1, <3>1, SilentSame
  <2>3. CASE SendThread(f) \/ SpuriousWakeup(f)
    <3>1. UNCHANGED <<sent, outbox, running>> /\ sendPC'[e] = sendPC[e]
      BY <1>1, <2>3 DEF SendThread, SendLoopTest, SendAcquire, SendBlock, SendTest,
         SpuriousWakeup, SendMoves, UnchangedBySendLoop
    <3> QED
      BY <2>1, <3>1, SilentSame
  <2>4. CASE RecvLoopTest(f) \/ Distribute(f) \/ DistributeEnd(f)
    <3>1. UNCHANGED <<sent, outbox, running, sendPC>>
      BY <2>4 DEF RecvLoopTest, Distribute, DistributeEnd
    <3> QED
      BY <2>1, <3>1, SilentSame
  <2>5. CASE StopRunning(f) \/ Terminate(f)
    <3>1. UNCHANGED <<sent, outbox>> /\ running'[e] = running[e] /\ sendPC'[e] = sendPC[e]
      BY <1>1, <2>5 DEF StopRunning, Terminate, StopNotify, JoinAndDelete, NotifyAll
    <3> QED
      BY <2>1, <3>1, SilentSame
  <2> QED
    BY <1>2, <2>2, <2>3, <2>4, <2>5 DEF CoreStep, RecvThread
<1>3. CASE SendBegin(f) \/ DeleteBegin(f)
  <2>1. UNCHANGED coreVars /\ UNCHANGED <<selected, lock, malformed>>
        /\ txn'[e] = txn[e] /\ thrown'[e] = thrown[e]
    BY <1>1, <1>3 DEF SendBegin, DeleteBegin, Begin, Throws
  <2> QED
    BY <2>1, SilentSame DEF coreVars
<1>4. CASE StatementFails(f)
  <2>1. UNCHANGED coreVars /\ UNCHANGED <<selected, lock, malformed, txn>>
        /\ thrown'[e] = thrown[e]
    BY <1>1, <1>4 DEF StatementFails, Throws
  <2> QED
    BY <2>1, SilentSame DEF coreVars
<1>5. CASE WriteLock(f, "send") \/ WriteLock(f, "delete")
  <2>1. UNCHANGED coreVars /\ UNCHANGED <<selected, malformed, txn>>
        /\ lock'[e] = lock[e] /\ thrown'[e] = thrown[e]
    BY <1>1, <1>5 DEF WriteLock, Throws
  <2> QED
    BY <2>1, SilentSame DEF coreVars
<1>6. CASE SendCommit(f)
  <2>1. UNCHANGED <<sent, running, selected, malformed, thrown>>
        /\ outbox'[e] = outbox[e] /\ sendPC'[e] = sendPC[e] /\ txn'[e] = txn[e]
        /\ lock'[e] = lock[e]
    BY <1>1, <1>6 DEF SendCommit, CommitLock, SendMoves, UnchangedBySendLoop
  <2> QED
    BY <2>1, SilentSame
<1>7. CASE Select(f)
  <2>1. UNCHANGED <<sent, outbox, sendPC, running, txn, thrown, malformed>>
        /\ lock'[e] = lock[e] /\ selected'[e] = selected[e]
    BY <1>1, <1>7 DEF Select
  <2> QED
    BY <2>1, SilentSame
<1>8. CASE DeleteOldMessages(f)
  <2>1. UNCHANGED <<sent, outbox, sendPC, running, thrown, malformed>>
        /\ lock'[e] = lock[e] /\ selected'[e] = selected[e] /\ txn'[e] = txn[e]
    BY <1>1, <1>8 DEF DeleteOldMessages, CommitLock
  <2> QED
    BY <2>1, SilentSame
<1>9. CASE Ends(f)
  <2>1. UNCHANGED <<sent, outbox, sendPC, running, txn, thrown>> /\ lock'[e] = lock[e]
        /\ (~malformed' => selected' = selected)
    BY <1>1, <1>9 DEF Ends, coreVars
  <2>2. malformed => malformed'
    BY <1>9, EndEffects
  <2> QED
    BY <2>1, <2>2, SilentSame
<1>10. CASE Restart(f)
  <2>1. UNCHANGED <<sent, lock, malformed>> /\ outbox'[e] = outbox[e] /\ sendPC'[e] = sendPC[e]
        /\ running'[e] = running[e] /\ txn'[e] = txn[e] /\ thrown'[e] = thrown[e]
        /\ selected'[e] = selected[e]
    BY <1>1, <1>10 DEF Restart
  <2> QED
    BY <2>1, SilentSame
<1> QED
  BY <1>2, <1>3, <1>4, <1>5, <1>6, <1>7, <1>8, <1>9, <1>10 DEF Prepares

\* An object that has submitted nothing is not ended by an exception as long
\* as the file is whole, whatever its peer submits and whichever process
\* crashes and is started again.
THEOREM ReceiversSurvive == Spec => []SilentObjectsSurvive
<1> DEFINE SilentInv == \A e \in Endpoints : Silent(e)
<1>1. PairInit => SilentInv
  BY DEF PairInit, Init, Silent, SilentAt
<1>2. BaseInv /\ SilentInv /\ [Next]_vars => SilentInv'
  <2> SUFFICES ASSUME BaseInv, SilentInv, [Next]_vars, NEW e \in Endpoints PROVE Silent(e)'
    OBVIOUS
  <2>1. ControlOK /\ QueuesOK /\ Silent(e)
    BY DEF BaseInv
  <2>2. CASE Next
    <3>1. PICK f \in Endpoints :
             \/ CoreStep(f) /\ UNCHANGED mediumVars
             \/ Prepares(f) \/ SendCommit(f) \/ Select(f) \/ DeleteOldMessages(f)
             \/ Ends(f) \/ Restart(f)
      BY <2>2 DEF Next, EndpointStep, SendMessages, ReceiveMessages, Prepares, Terminates, Crash
    <3>2. CASE f = e
      BY <2>1, <3>1, <3>2, SilentCore, SilentMedium, SilentEnds
    <3>3. CASE f # e
      BY <2>1, <3>1, <3>3, SilentAlone
    <3> QED
      BY <3>2, <3>3
  <2>3. CASE UNCHANGED vars
    BY <2>3 DEF Silent, SilentAt, vars
  <2> QED
    BY <2>2, <2>3
<1>3. SilentInv => SilentObjectsSurvive
  BY DEF Silent, SilentAt, SilentObjectsSurvive
<1> HIDE DEF SilentInv
<1> QED
  BY <1>1, <1>2, <1>3, BaseHolds, PTL DEF Spec

=============================================================================
