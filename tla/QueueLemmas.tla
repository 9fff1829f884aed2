----------------------------- MODULE QueueLemmas -----------------------------
(***************************************************************************)
(* What the proofs about the media need to know of queues: pushing,        *)
(* popping, concatenating, and filtering.                                  *)
(***************************************************************************)
EXTENDS Messages, SequenceTheorems, WellFoundedInduction, TLAPS

-----------------------------------------------------------------------------
(* Endpoints and queues.                                                   *)

\* Each endpoint has one peer, another endpoint, whose peer it is.
LEMMA PeerIsOther ==
  ASSUME NEW e \in Endpoints
  PROVE  /\ Peer(e) \in Endpoints /\ Peer(e) # e /\ Peer(Peer(e)) = e
         /\ \A f \in Endpoints : f # e => f = Peer(e)
BY RolesDiffer DEF Endpoints, Peer

\* What pushing to a queue does.
LEMMA Pushed ==
  ASSUME NEW S, NEW q \in Seq(S), NEW x \in S
  PROVE  /\ Append(q, x) \in Seq(S) /\ Append(q, x) # <<>>
         /\ Len(Append(q, x)) = Len(q) + 1 /\ Append(q, x)[Len(q) + 1] = x
         /\ \A i \in 1..Len(q) : Append(q, x)[i] = q[i]
BY AppendProperties

\* What popping from a queue does.
LEMMA Popped ==
  ASSUME NEW S, NEW q \in Seq(S), q # <<>>
  PROVE  /\ Head(q) \in S /\ Head(q) = q[1] /\ Tail(q) \in Seq(S)
         /\ Len(q) \in Nat \ {0} /\ Len(Tail(q)) = Len(q) - 1
         /\ \A i \in 1..Len(Tail(q)) : Tail(q)[i] = q[i + 1]
BY HeadTailProperties, EmptySeq

\* Sequences of one element and of two.
LEMMA Short ==
  ASSUME NEW S, NEW x \in S, NEW y \in S
  PROVE  /\ <<x>> \in Seq(S) /\ Len(<<x>>) = 1 /\ <<x>>[1] = x
         /\ <<x>> \o <<y>> \in Seq(S) /\ Len(<<x>> \o <<y>>) = 2
         /\ (<<x>> \o <<y>>)[1] = x /\ (<<x>> \o <<y>>)[2] = y
<1> DEFINE a == <<x>>
           b == <<y>>
<1>1. a \in Seq(S) /\ Len(a) = 1 /\ a[1] = x /\ b \in Seq(S) /\ Len(b) = 1 /\ b[1] = y
  OBVIOUS
<1> HIDE DEF a, b
<1>2. /\ a \o b \in Seq(S) /\ Len(a \o b) = 1 + 1
      /\ \A i \in 1..(1 + 1) : (a \o b)[i] = IF i <= 1 THEN a[i] ELSE b[i - 1]
  BY <1>1, ConcatProperties
<1>3. (a \o b)[1] = x /\ (a \o b)[2] = y
  BY <1>1, <1>2
<1> QED
  BY <1>1, <1>2, <1>3 DEF a, b

\* A message moved from the head of one queue to the end of another is still
\* between the same messages.
LEMMA HeadMoves ==
  ASSUME NEW S, NEW h \in Seq(S), NEW q \in Seq(S), q # <<>>
  PROVE  Append(h, Head(q)) \o Tail(q) = h \o q
<1> DEFINE x == Head(q)
           r == Tail(q)
           one == <<x>>
<1>1. x \in S /\ r \in Seq(S) /\ q = one \o r
  BY HeadTailProperties
<1>2. one \in Seq(S)
  BY <1>1, Short
<1>3. Append(h, x) = h \o one
  BY <1>1, AppendIsConcat
<1> HIDE DEF x, r, one
<1>4. (h \o one) \o r = h \o (one \o r)
  BY <1>1, <1>2, ConcatAssociative
<1> QED
  BY <1>1, <1>3, <1>4 DEF x, r

\* A message added to the last of two queues is added after both.
LEMMA TailAdded ==
  ASSUME NEW S, NEW h \in Seq(S), NEW q \in Seq(S), NEW x \in S
  PROVE  h \o Append(q, x) = Append(h \o q, x)
<1> DEFINE one == <<x>>
<1>1. one \in Seq(S) /\ h \o q \in Seq(S)
  BY Short, ConcatProperties
<1>2. Append(q, x) = q \o one /\ Append(h \o q, x) = (h \o q) \o one
  BY <1>1, AppendIsConcat
<1> HIDE DEF one
<1>3. (h \o q) \o one = h \o (q \o one)
  BY <1>1, ConcatAssociative
<1> QED
  BY <1>2, <1>3

-----------------------------------------------------------------------------
(* Induction over the length of a queue.                                   *)

\* A set of numbers with 0 and with the successor of each is Nat: induction
\* for a property written as a set.
LEMMA NatSets ==
  ASSUME NEW T \in SUBSET Nat, 0 \in T, \A n \in T : n + 1 \in T
  PROVE  T = Nat
<1> DEFINE R == OpToRel(<, Nat)
           U == Nat \ T
<1> SUFFICES ASSUME U # {} PROVE FALSE
  OBVIOUS
<1>1. IsWellFoundedOn(R, Nat)
  BY NatLessThanWellFounded
<1>2. PICK x \in U : \A y \in U : ~ (<<y, x>> \in R)
  <2>1. U \subseteq Nat
    OBVIOUS
  <2> HIDE DEF R, U
  <2> QED
    BY <1>1, <2>1, WFMin
<1>3. \A y \in U : ~(y < x)
  BY <1>2 DEF OpToRel
<1>4. x # 0 /\ x \in Nat
  OBVIOUS
<1>5. x - 1 \in Nat /\ x - 1 < x /\ (x - 1) + 1 = x
  BY <1>4
<1>6. x - 1 \in T
  BY <1>3, <1>5
<1> QED
  BY <1>5, <1>6

\* A set of queues with the empty one, and with every queue that is one of
\* them with an element pushed, has all queues: induction over queues.
LEMMA QueueSets ==
  ASSUME NEW S, NEW Q \in SUBSET Seq(S), <<>> \in Q,
         \A q \in Q : \A x \in S : Append(q, x) \in Q
  PROVE  Q = Seq(S)
<1> DEFINE T == {n \in Nat : \A q \in Seq(S) : Len(q) = n => q \in Q}
<1>1. 0 \in T
  BY EmptySeq
<1>2. ASSUME NEW n \in T PROVE n + 1 \in T
  <2> SUFFICES ASSUME NEW q \in Seq(S), Len(q) = n + 1 PROVE q \in Q
    OBVIOUS
  <2>1. q # <<>> /\ n \in Nat
    BY EmptySeq
  <2>2. PICK r \in Seq(S), x \in S : q = Append(r, x)
    BY <2>1, SequenceEmptyOrAppend
  <2>3. Len(r) = n
    BY <2>1, <2>2, AppendProperties, LenProperties
  <2> QED
    BY <2>2, <2>3
<1>3. T = Nat
  <2> HIDE DEF T
  <2>1. T \subseteq Nat
    BY DEF T
  <2> QED
    BY <1>1, <1>2, <2>1, NatSets
<1> QED
  BY <1>3, LenProperties

-----------------------------------------------------------------------------
(* Queues in a row.                                                        *)

\* The head of a queue that is not empty is the head of what it begins.
LEMMA HeadOfConcat ==
  ASSUME NEW S, NEW x \in Seq(S), NEW y \in Seq(S), x # <<>>
  PROVE  /\ x \o y # <<>> /\ Head(x \o y) = Head(x)
         /\ Tail(x \o y) = Tail(x) \o y
<1> DEFINE h == Head(x)
           t == Tail(x)
           q == x \o y
           n == Len(x) + Len(y)
<1>1. h \in S /\ t \in Seq(S) /\ Len(x) \in Nat \ {0} /\ Len(y) \in Nat /\ h = x[1]
  BY Popped, LenProperties
<1>2. /\ q \in Seq(S) /\ Len(q) = n
      /\ \A i \in 1..n : q[i] = IF i <= Len(x) THEN x[i] ELSE y[i - Len(x)]
  BY ConcatProperties
<1>3. q # <<>> /\ q[1] = h
  <2>1. 1 \in 1..n /\ 1 <= Len(x) /\ n # 0
    BY <1>1
  <2> HIDE DEF q, n, h
  <2> QED
    BY <1>1, <1>2, <2>1, EmptySeq
<1>4. Head(q) = h
  <2> HIDE DEF q, h
  <2> QED
    BY <1>2, <1>3, Popped
<1>5. Tail(q) \in Seq(S) /\ Len(Tail(q)) = n - 1 /\ \A i \in 1..(n - 1) : Tail(q)[i] = q[i + 1]
  <2> HIDE DEF q, n
  <2> QED
    BY <1>2, <1>3, Popped
<1>6. t \o y \in Seq(S) /\ Len(t \o y) = n - 1
      /\ \A i \in 1..(n - 1) : (t \o y)[i] = IF i <= Len(t) THEN t[i] ELSE y[i - Len(t)]
  <2>1. Len(t) = Len(x) - 1 /\ Len(t) + Len(y) = n - 1
    BY <1>1, Popped
  <2> HIDE DEF t, n
  <2> QED
    BY <1>1, <2>1, ConcatProperties
<1>7. ASSUME NEW i \in 1..(n - 1)
      PROVE  Tail(q)[i] = (t \o y)[i]
  <2>1. Len(t) = Len(x) - 1 /\ \A j \in 1..Len(t) : t[j] = x[j + 1]
    BY Popped
  <2> HIDE DEF t, q
  <2>2. Tail(q)[i] = q[i + 1] /\ i + 1 \in 1..n
    BY <1>1, <1>5
  <2>3. q[i + 1] = IF i + 1 <= Len(x) THEN x[i + 1] ELSE y[(i + 1) - Len(x)]
    BY <1>2, <2>2
  <2>4. (t \o y)[i] = IF i <= Len(t) THEN t[i] ELSE y[i - Len(t)]
    BY <1>6
  <2>5. CASE i + 1 <= Len(x)
    <3>1. i \in 1..Len(t) /\ i <= Len(t)
      BY <1>1, <2>1, <2>5
    <3> QED
      BY <2>1, <2>2, <2>3, <2>4, <2>5, <3>1
  <2>6. CASE ~(i + 1 <= Len(x))
    <3>1. ~(i <= Len(t)) /\ i - Len(t) = (i + 1) - Len(x)
      BY <1>1, <2>1, <2>6
    <3> QED
      BY <2>2, <2>3, <2>4, <2>6, <3>1
  <2> QED
    BY <2>5, <2>6
<1>8. Tail(q) = t \o y
  <2> DEFINE a == Tail(q)
             b == t \o y
  <2>1. a \in Seq(S) /\ b \in Seq(S) /\ Len(a) = n - 1 /\ Len(b) = n - 1
        /\ \A i \in 1..(n - 1) : a[i] = b[i]
    BY <1>5, <1>6, <1>7
  <2> HIDE DEF a, b, n
  <2>2. a = b
    BY <2>1, SeqEqual
  <2> QED
    BY <2>2 DEF a, b
<1> QED
  BY <1>3, <1>4, <1>8

\* The parts of a concatenation are its subsequences.
LEMMA SubSeqsOfConcat ==
  ASSUME NEW S, NEW x \in Seq(S), NEW y \in Seq(S)
  PROVE  /\ SubSeq(x \o y, 1, Len(x)) = x
         /\ SubSeq(x \o y, Len(x) + 1, Len(x \o y)) = y
<1> DEFINE q == x \o y
           a == SubSeq(q, 1, Len(x))
           b == SubSeq(q, Len(x) + 1, Len(q))
<1>1. /\ q \in Seq(S) /\ Len(q) = Len(x) + Len(y) /\ Len(x) \in Nat /\ Len(y) \in Nat
      /\ \A i \in 1..(Len(x) + Len(y)) : q[i] = IF i <= Len(x) THEN x[i] ELSE y[i - Len(x)]
  BY ConcatProperties, LenProperties
<1> HIDE DEF q
<1>2. \A i \in 1..Len(q) : q[i] \in S
  BY <1>1, ElementOfSeq
<1>3. /\ a \in Seq(S) /\ Len(a) = IF 1 <= Len(x) THEN Len(x) - 1 + 1 ELSE 0
      /\ \A i \in 1..(Len(x) - 1 + 1) : a[i] = q[1 + i - 1]
  <2>1. \A i \in 1..Len(x) : q[i] \in S
    BY <1>1, <1>2
  <2> QED
    BY <1>1, <2>1, SubSeqProperties
<1>4. /\ b \in Seq(S)
      /\ Len(b) = IF Len(x) + 1 <= Len(q) THEN Len(q) - (Len(x) + 1) + 1 ELSE 0
      /\ \A i \in 1..(Len(q) - (Len(x) + 1) + 1) : b[i] = q[(Len(x) + 1) + i - 1]
  <2>1. \A i \in (Len(x) + 1)..Len(q) : q[i] \in S
    BY <1>1, <1>2
  <2> QED
    BY <1>1, <2>1, SubSeqProperties
<1> HIDE DEF a, b
<1>5. Len(a) = Len(x) /\ \A i \in 1..Len(a) : a[i] = x[i]
  <2>1. Len(a) = Len(x)
    BY <1>1, <1>3
  <2>2. ASSUME NEW i \in 1..Len(a) PROVE a[i] = x[i]
    <3>1. a[i] = q[1 + i - 1] /\ 1 + i - 1 = i /\ i <= Len(x)
      BY <1>1, <1>3, <2>1
    <3> QED
      BY <1>1, <2>1, <3>1
  <2> QED
    BY <2>1, <2>2
<1>6. Len(b) = Len(y)
  BY <1>1, <1>4
<1>7. ASSUME NEW i \in 1..Len(b) PROVE b[i] = y[i]
  <2>1. b[i] = q[(Len(x) + 1) + i - 1] /\ (Len(x) + 1) + i - 1 = Len(x) + i
    BY <1>1, <1>4, <1>6
  <2>2. q[Len(x) + i] = y[(Len(x) + i) - Len(x)]
    BY <1>1, <1>6
  <2>3. (Len(x) + i) - Len(x) = i
    BY <1>1
  <2> QED
    BY <2>1, <2>2, <2>3
<1>8. a = x
  BY <1>3, <1>5, SeqEqual
<1>9. b = y
  BY <1>4, <1>6, <1>7, SeqEqual
<1> QED
  BY <1>8, <1>9 DEF a, b, q

\* r is what is left of q when consecutive elements, possibly none, are lost.
Remains(r, q) ==
  \E i \in 0..Len(q) : \E j \in i..Len(q) : r = SubSeq(q, 1, i) \o SubSeq(q, j + 1, Len(q))

\* Losing the middle of three queues.
LEMMA RemainsOfThree ==
  ASSUME NEW S, NEW x \in Seq(S), NEW y \in Seq(S), NEW z \in Seq(S)
  PROVE  Remains(x \o z, (x \o y) \o z)
<1> DEFINE v == x \o y
           w == y \o z
           q == v \o z
           i == Len(x)
           j == Len(v)
<1>1. v \in Seq(S) /\ w \in Seq(S) /\ q = x \o w
  BY ConcatProperties, ConcatAssociative
<1>2. Len(v) = Len(x) + Len(y) /\ Len(x) \in Nat /\ Len(y) \in Nat /\ Len(z) \in Nat
  BY ConcatProperties, LenProperties
<1>3. Len(q) = Len(v) + Len(z)
  <2> HIDE DEF v
  <2> QED
    BY <1>1, ConcatProperties
<1>4. SubSeq(q, 1, i) = x
  <2>1. SubSeq(x \o w, 1, Len(x)) = x
    <3> HIDE DEF w
    <3> QED
      BY <1>1, SubSeqsOfConcat
  <2> HIDE DEF q, w
  <2> QED
    BY <1>1, <2>1
<1>5. SubSeq(q, j + 1, Len(q)) = z
  <2> HIDE DEF v
  <2> QED
    BY <1>1, SubSeqsOfConcat
<1> HIDE DEF v, q
<1>6. i \in 0..Len(q) /\ j \in i..Len(q)
  BY <1>2, <1>3
<1>7. x \o z = SubSeq(q, 1, i) \o SubSeq(q, j + 1, Len(q))
  BY <1>4, <1>5
<1> HIDE DEF i, j
<1>8. Remains(x \o z, q)
  BY <1>6, <1>7 DEF Remains
<1> QED
  BY <1>8 DEF q, v

\* Losing the end of a queue, its beginning, or nothing.
LEMMA RemainsOfTwo ==
  ASSUME NEW S, NEW x \in Seq(S), NEW y \in Seq(S)
  PROVE  Remains(x, x \o y) /\ Remains(y, x \o y) /\ Remains(x, x)
<1> DEFINE none == <<>>
           q == x \o y
<1>1. none \in Seq(S) /\ q \in Seq(S)
  BY EmptySeq, ConcatProperties
<1>2. \A s \in Seq(S) : s \o none = s /\ none \o s = s
  BY ConcatEmptySeq
<1>3. \A a, b, c \in Seq(S) : Remains(a \o c, (a \o b) \o c)
  BY RemainsOfThree
<1> HIDE DEF none
<1>4. Remains(x \o none, (x \o y) \o none) /\ Remains(none \o y, (none \o x) \o y)
      /\ Remains(x \o none, (x \o none) \o none)
  BY <1>1, <1>3
<1>5. (x \o y) \o none = x \o y /\ x \o none = x /\ none \o y = y /\ none \o x = x
  BY <1>1, <1>2
<1> HIDE DEF q
<1> QED
  BY <1>4, <1>5

\* Three queues in a row.
InRow(x, d, b) == (x \o d) \o b

\* Of three queues in a row, the head of the last moves to the end of the
\* second.
LEMMA SendInRow ==
  ASSUME NEW S
  PROVE  \A x, d, b \in Seq(S) :
           b # <<>> => InRow(x, Append(d, Head(b)), Tail(b)) = InRow(x, d, b)
<1>1. \A q, r, s \in Seq(S) : (q \o r) \o s = q \o (r \o s)
  BY ConcatAssociative
<1>2. \A d, b \in Seq(S) : b # <<>> => Append(d, Head(b)) \o Tail(b) = d \o b
  BY HeadMoves
<1> SUFFICES ASSUME NEW x \in Seq(S), NEW d \in Seq(S), NEW b \in Seq(S), b # <<>>
             PROVE  InRow(x, Append(d, Head(b)), Tail(b)) = InRow(x, d, b)
  OBVIOUS
<1> DEFINE a == Append(d, Head(b))
           t == Tail(b)
<1>3. a \in Seq(S) /\ t \in Seq(S)
  BY Popped, Pushed
<1>4. a \o t = d \o b
  BY <1>2
<1> HIDE DEF a, t
<1>5. (x \o a) \o t = x \o (a \o t) /\ (x \o d) \o b = x \o (d \o b)
  BY <1>1, <1>3
<1> QED
  BY <1>4, <1>5 DEF a, t, InRow

\* Of three queues in a row, the head of the second moves to the end of the
\* first, or is lost.
LEMMA TakeInRow ==
  ASSUME NEW S
  PROVE  \A x, d, b \in Seq(S) : \A m \in S :
           /\ InRow(Append(x, m), d, b) = InRow(x, <<m>> \o d, b)
           /\ Remains(InRow(x, d, b), InRow(x, <<m>> \o d, b))
<1>1. \A q, r, s \in Seq(S) : (q \o r) \o s = q \o (r \o s)
  BY ConcatAssociative
<1>2. \A m \in S : <<m>> \in Seq(S)
  BY Short
<1>3. \A x \in Seq(S) : \A m \in S : Append(x, m) = x \o <<m>>
  BY AppendIsConcat
<1>4. \A x, o, c \in Seq(S) : Remains(x \o c, (x \o o) \o c)
  BY RemainsOfThree
<1>5. \A q, r \in Seq(S) : q \o r \in Seq(S)
  BY ConcatProperties
<1> SUFFICES ASSUME NEW x \in Seq(S), NEW d \in Seq(S), NEW b \in Seq(S), NEW m \in S
             PROVE  /\ InRow(Append(x, m), d, b) = InRow(x, <<m>> \o d, b)
                    /\ Remains(InRow(x, d, b), InRow(x, <<m>> \o d, b))
  OBVIOUS
<1> DEFINE o == <<m>>
           a == Append(x, m)
           c == d \o b
<1>6. o \in Seq(S) /\ a = x \o o /\ c \in Seq(S)
  BY <1>2, <1>3, <1>5
<1> HIDE DEF o, a
<1>7. x \o o \in Seq(S) /\ o \o d \in Seq(S)
  BY <1>5, <1>6
<1>8. (x \o o) \o d = x \o (o \o d)
  BY <1>1, <1>6
<1>9. (x \o d) \o b = x \o c
  BY <1>1
<1>10. ((x \o o) \o d) \o b = (x \o o) \o c
  BY <1>1, <1>7
<1> HIDE DEF c
<1>11. Remains(x \o c, (x \o o) \o c)
  BY <1>4, <1>6
<1> QED
  BY <1>6, <1>8, <1>9, <1>10, <1>11 DEF o, a, InRow

-----------------------------------------------------------------------------
(* What is in a queue.                                                     *)

\* The elements of a queue, by their positions.
LEMMA RangeIs ==
  ASSUME NEW S, NEW q \in Seq(S)
  PROVE  /\ \A i \in 1..Len(q) : q[i] \in Range(q)
         /\ \A x \in Range(q) : x \in S /\ \E i \in 1..Len(q) : q[i] = x
<1>1. DOMAIN q = 1..Len(q) /\ \A i \in 1..Len(q) : q[i] \in S
  BY LenProperties, ElementOfSeq
<1> QED
  BY <1>1 DEF Range

\* Nothing is in the empty queue.
LEMMA RangeEmpty == Range(<<>>) = {}
BY DEF Range

\* Pushing adds the element.
LEMMA RangePush ==
  ASSUME NEW S, NEW q \in Seq(S), NEW x \in S
  PROVE  Range(Append(q, x)) = Range(q) \union {x}
<1> DEFINE r == Append(q, x)
           n == Len(q)
<1>1. n \in Nat /\ DOMAIN q = 1..n
  BY LenProperties
<1>2. r \in Seq(S) /\ Len(r) = n + 1 /\ r[n + 1] = x /\ \A i \in 1..n : r[i] = q[i]
  BY AppendProperties
<1> HIDE DEF r
<1>3. DOMAIN r = 1..(n + 1)
  BY <1>2, LenProperties
<1> HIDE DEF n
<1>4. ASSUME NEW y \in Range(r) PROVE y \in Range(q) \union {x}
  <2>1. PICK i \in 1..(n + 1) : y = r[i]
    BY <1>3, <1>4 DEF Range
  <2> QED
    BY <1>1, <1>2, <2>1 DEF Range
<1>5. ASSUME NEW y \in Range(q) PROVE y \in Range(r)
  <2>1. PICK i \in 1..n : y = q[i]
    BY <1>1, <1>5 DEF Range
  <2>2. i \in 1..(n + 1)
    BY <1>1
  <2> QED
    BY <1>2, <1>3, <2>1, <2>2 DEF Range
<1>6. x \in Range(r)
  <2>1. n + 1 \in 1..(n + 1)
    BY <1>1
  <2> QED
    BY <1>2, <1>3, <2>1 DEF Range
<1> QED
  BY <1>4, <1>5, <1>6 DEF r

\* Popping takes the head and adds nothing.
LEMMA RangePop ==
  ASSUME NEW S, NEW q \in Seq(S), q # <<>>
  PROVE  Head(q) \in Range(q) /\ Range(Tail(q)) \subseteq Range(q)
<1> DEFINE t == Tail(q)
<1>1. /\ Head(q) = q[1] /\ t \in Seq(S) /\ Len(q) \in Nat \ {0} /\ Len(t) = Len(q) - 1
      /\ \A i \in 1..Len(t) : t[i] = q[i + 1]
  BY Popped
<1> HIDE DEF t
<1>2. Head(q) \in Range(q)
  <2>1. 1 \in 1..Len(q)
    BY <1>1
  <2> QED
    BY <1>1, <2>1, RangeIs
<1>3. ASSUME NEW x \in Range(t) PROVE x \in Range(q)
  <2>1. PICK i \in 1..Len(t) : t[i] = x
    BY <1>1, <1>3, RangeIs
  <2>2. i + 1 \in 1..Len(q) /\ x = q[i + 1]
    BY <1>1, <2>1
  <2> QED
    BY <2>2, RangeIs
<1> QED
  BY <1>2, <1>3 DEF t

\* The elements of a queue after the first k.
LEMMA After ==
  ASSUME NEW S, NEW q \in Seq(S), NEW k \in 0..Len(q)
  PROVE  /\ SubSeq(q, k + 1, Len(q)) \in Seq(S)
         /\ Len(SubSeq(q, k + 1, Len(q))) = Len(q) - k
         /\ \A i \in 1..(Len(q) - k) : SubSeq(q, k + 1, Len(q))[i] = q[k + i]
<1> DEFINE r == SubSeq(q, k + 1, Len(q))
<1>1. Len(q) \in Nat /\ \A i \in (k + 1)..Len(q) : q[i] \in S
  BY LenProperties, ElementOfSeq
<1>2. /\ r \in Seq(S)
      /\ Len(r) = IF k + 1 <= Len(q) THEN Len(q) - (k + 1) + 1 ELSE 0
      /\ \A i \in 1..(Len(q) - (k + 1) + 1) : r[i] = q[(k + 1) + i - 1]
  BY <1>1, SubSeqProperties
<1> HIDE DEF r
<1>3. Len(r) = Len(q) - k
  BY <1>1, <1>2
<1>4. ASSUME NEW i \in 1..(Len(q) - k) PROVE r[i] = q[k + i]
  <2>1. (k + 1) + i - 1 = k + i /\ i \in 1..(Len(q) - (k + 1) + 1)
    BY <1>1
  <2> QED
    BY <1>2, <2>1
<1> QED
  BY <1>2, <1>3, <1>4 DEF r

\* All of a queue comes after its first 0 elements.
LEMMA AfterNone ==
  ASSUME NEW S, NEW q \in Seq(S)
  PROVE  SubSeq(q, 0 + 1, Len(q)) = q
BY SubSeqFull

-----------------------------------------------------------------------------
(* Filtering.                                                              *)

\* The first n elements of q filtered, as Filter computes it.
KeptBy(f, q, K, n) ==
  f = [i \in 0..n |->
         IF i = 0 THEN <<>>
         ELSE IF q[i] \in K THEN Append(f[i - 1], q[i]) ELSE f[i - 1]]

\* The recursion of Filter has a solution.
LEMMA KeptExists ==
  ASSUME NEW q, NEW K, NEW m \in Nat
  PROVE  \E f : KeptBy(f, q, K, m)
<1> DEFINE T == {n \in Nat : \E f : KeptBy(f, q, K, n)}
<1>1. 0 \in T
  <2> DEFINE f == [i \in 0..0 |-> <<>>]
  <2>1. KeptBy(f, q, K, 0)
    BY DEF KeptBy
  <2> QED
    BY <2>1
<1>2. ASSUME NEW n \in T PROVE n + 1 \in T
  <2>1. PICK f : KeptBy(f, q, K, n)
    OBVIOUS
  <2> DEFINE last == IF q[n + 1] \in K THEN Append(f[n], q[n + 1]) ELSE f[n]
             g == [i \in 0..(n + 1) |-> IF i = n + 1 THEN last ELSE f[i]]
  <2>2. \A i \in 0..n : f[i] = IF i = 0 THEN <<>>
                               ELSE IF q[i] \in K THEN Append(f[i - 1], q[i]) ELSE f[i - 1]
    BY <2>1 DEF KeptBy
  <2>3. \A i \in 0..n : g[i] = f[i]
    OBVIOUS
  <2>4. g[n + 1] = last
    OBVIOUS
  <2> HIDE DEF last
  <2>5. ASSUME NEW i \in 0..(n + 1)
        PROVE  g[i] = IF i = 0 THEN <<>>
                      ELSE IF q[i] \in K THEN Append(g[i - 1], q[i]) ELSE g[i - 1]
    <3>1. CASE i = n + 1
      <4>1. i # 0 /\ i - 1 = n /\ n \in 0..n
        BY <3>1
      <4>2. g[i - 1] = f[n]
        BY <2>3, <4>1
      <4> HIDE DEF g
      <4> QED
        BY <2>4, <3>1, <4>1, <4>2 DEF last
    <3>2. CASE i \in 0..n
      <4>1. g[i] = f[i] /\ (i # 0 => g[i - 1] = f[i - 1])
        BY <2>3, <3>2
      <4> HIDE DEF g
      <4> QED
        BY <2>2, <3>2, <4>1
    <3> QED
      BY <3>1, <3>2
  <2>6. KeptBy(g, q, K, n + 1)
    <3>1. g = [i \in 0..(n + 1) |-> g[i]]
      OBVIOUS
    <3> HIDE DEF g
    <3> QED
      BY <2>5, <3>1 DEF KeptBy
  <2> QED
    BY <2>6
<1>3. T = Nat
  <2> HIDE DEF T
  <2>1. T \subseteq Nat
    BY DEF T
  <2> QED
    BY <1>1, <1>2, <2>1, NatSets
<1> QED
  BY <1>3

\* Two solutions agree as far as both go.
LEMMA KeptUnique ==
  ASSUME NEW q, NEW K, NEW m \in Nat, NEW n \in Nat, m <= n, NEW f, NEW g,
         KeptBy(f, q, K, m), KeptBy(g, q, K, n)
  PROVE  f[m] = g[m]
<1> DEFINE T == {k \in Nat : k <= m => f[k] = g[k]}
<1>1. \A k \in 0..m : f[k] = IF k = 0 THEN <<>>
                             ELSE IF q[k] \in K THEN Append(f[k - 1], q[k]) ELSE f[k - 1]
  BY DEF KeptBy
<1>2. \A k \in 0..n : g[k] = IF k = 0 THEN <<>>
                             ELSE IF q[k] \in K THEN Append(g[k - 1], q[k]) ELSE g[k - 1]
  BY DEF KeptBy
<1>3. 0 \in T
  BY <1>1, <1>2
<1>4. ASSUME NEW k \in T PROVE k + 1 \in T
  <2> SUFFICES ASSUME k + 1 <= m PROVE f[k + 1] = g[k + 1]
    OBVIOUS
  <2>1. k + 1 \in 0..m /\ k + 1 \in 0..n /\ k + 1 # 0 /\ (k + 1) - 1 = k /\ f[k] = g[k]
    OBVIOUS
  <2> QED
    BY <1>1, <1>2, <2>1
<1>5. T = Nat
  <2> HIDE DEF T
  <2>1. T \subseteq Nat
    BY DEF T
  <2> QED
    BY <1>3, <1>4, <2>1, NatSets
<1> QED
  BY <1>5

\* Filter is the last value of a solution.
LEMMA FilterIsKept ==
  ASSUME NEW S, NEW q \in Seq(S), NEW K
  PROVE  \E f : KeptBy(f, q, K, Len(q)) /\ Filter(q, K) = f[Len(q)]
<1> DEFINE f == CHOOSE g : KeptBy(g, q, K, Len(q))
<1>1. Len(q) \in Nat
  BY LenProperties
<1>2. KeptBy(f, q, K, Len(q))
  BY <1>1, KeptExists
<1>3. Filter(q, K) = f[Len(q)]
  BY DEF Filter, KeptBy
<1> QED
  BY <1>2, <1>3

\* Nothing is left of nothing.
LEMMA FilterEmpty ==
  ASSUME NEW K
  PROVE  Filter(<<>>, K) = <<>>
<1>1. <<>> \in Seq({}) /\ Len(<<>>) = 0
  BY EmptySeq
<1>2. PICK f : KeptBy(f, <<>>, K, 0) /\ Filter(<<>>, K) = f[0]
  BY <1>1, FilterIsKept
<1> QED
  BY <1>2 DEF KeptBy

\* An element pushed is kept or not.
LEMMA FilterPush ==
  ASSUME NEW S, NEW q \in Seq(S), NEW x \in S, NEW K
  PROVE  Filter(Append(q, x), K) =
           IF x \in K THEN Append(Filter(q, K), x) ELSE Filter(q, K)
<1> DEFINE r == Append(q, x)
           n == Len(q)
<1>1. n \in Nat /\ r \in Seq(S) /\ Len(r) = n + 1 /\ r[n + 1] = x
      /\ \A i \in 1..n : r[i] = q[i]
  BY AppendProperties, LenProperties
<1>2. PICK f : KeptBy(f, q, K, n) /\ Filter(q, K) = f[n]
  BY FilterIsKept
<1>3. PICK g : KeptBy(g, r, K, n + 1) /\ Filter(r, K) = g[n + 1]
  BY <1>1, FilterIsKept
<1> HIDE DEF r, n
<1>4. \A i \in 0..(n + 1) : g[i] = IF i = 0 THEN <<>>
                             ELSE IF r[i] \in K THEN Append(g[i - 1], r[i]) ELSE g[i - 1]
  BY <1>3 DEF KeptBy
<1> DEFINE h == [i \in 0..n |-> g[i]]
<1>5. \A i \in 0..n : h[i] = IF i = 0 THEN <<>>
                             ELSE IF q[i] \in K THEN Append(h[i - 1], q[i]) ELSE h[i - 1]
  <2> SUFFICES ASSUME NEW i \in 0..n
               PROVE  h[i] = IF i = 0 THEN <<>>
                             ELSE IF q[i] \in K THEN Append(h[i - 1], q[i]) ELSE h[i - 1]
    OBVIOUS
  <2>1. h[i] = g[i] /\ i \in 0..(n + 1) /\ (i # 0 => i \in 1..n /\ h[i - 1] = g[i - 1])
    BY <1>1
  <2> HIDE DEF h
  <2> QED
    BY <1>1, <1>4, <2>1
<1>6. KeptBy(h, q, K, n)
  <2>1. h = [i \in 0..n |-> h[i]]
    OBVIOUS
  <2> HIDE DEF h
  <2> QED
    BY <1>5, <2>1 DEF KeptBy
<1>7. f[n] = h[n] /\ h[n] = g[n]
  <2>1. h[n] = g[n]
    BY <1>1
  <2> HIDE DEF h
  <2>2. f[n] = h[n]
    BY <1>1, <1>2, <1>6, KeptUnique
  <2> QED
    BY <2>1, <2>2
<1>8. g[n + 1] = IF x \in K THEN Append(g[n], x) ELSE g[n]
  <2>1. n + 1 \in 0..(n + 1) /\ n + 1 # 0 /\ (n + 1) - 1 = n
    BY <1>1
  <2> QED
    BY <1>1, <1>4, <2>1
<1> QED
  BY <1>2, <1>3, <1>7, <1>8 DEF r

\* What is kept is a queue of the elements of K.
LEMMA FilterType ==
  ASSUME NEW S, NEW q \in Seq(S), NEW K
  PROVE  Filter(q, K) \in Seq(S \cap K)
<1> DEFINE Q == {s \in Seq(S) : Filter(s, K) \in Seq(S \cap K)}
<1>1. <<>> \in Q
  BY FilterEmpty, EmptySeq
<1>2. ASSUME NEW s \in Q, NEW x \in S PROVE Append(s, x) \in Q
  <2>1. s \in Seq(S) /\ Filter(s, K) \in Seq(S \cap K)
    OBVIOUS
  <2>2. Append(s, x) \in Seq(S)
    BY <2>1
  <2>3. CASE x \in K
    <3>1. Filter(Append(s, x), K) = Append(Filter(s, K), x)
      BY <2>1, <2>3, FilterPush
    <3>2. x \in S \cap K
      BY <2>3
    <3> QED
      BY <2>1, <2>2, <3>1, <3>2
  <2>4. CASE x \notin K
    <3>1. Filter(Append(s, x), K) = Filter(s, K)
      BY <2>1, <2>4, FilterPush
    <3> QED
      BY <2>1, <2>2, <3>1
  <2> QED
    BY <2>3, <2>4
<1>3. Q = Seq(S)
  <2> HIDE DEF Q
  <2>1. Q \subseteq Seq(S)
    BY DEF Q
  <2> QED
    BY <1>1, <1>2, <2>1, QueueSets
<1> QED
  BY <1>3

\* A queue filtered is a queue of the same kind.
LEMMA FilterSeq ==
  ASSUME NEW S, NEW q \in Seq(S), NEW K
  PROVE  Filter(q, K) \in Seq(S)
<1>1. Filter(q, K) \in Seq(S \cap K)
  BY FilterType
<1> QED
  BY <1>1

\* Filtering one queue after another.
LEMMA FilterConcat ==
  ASSUME NEW S, NEW q \in Seq(S), NEW r \in Seq(S), NEW K
  PROVE  Filter(q \o r, K) = Filter(q, K) \o Filter(r, K)
<1> DEFINE Q == {s \in Seq(S) : Filter(q \o s, K) = Filter(q, K) \o Filter(s, K)}
<1>1. \A s \in Seq(S) : Filter(s, K) \in Seq(S)
  BY FilterSeq
<1>2. <<>> \in Q
  <2>1. q \o <<>> = q /\ Filter(q, K) \o <<>> = Filter(q, K) /\ <<>> \in Seq(S)
    BY <1>1, ConcatEmptySeq, EmptySeq
  <2> QED
    BY <2>1, FilterEmpty
<1>3. ASSUME NEW s \in Q, NEW x \in S PROVE Append(s, x) \in Q
  <2> DEFINE k == Filter(q, K)
             l == Filter(s, K)
             c == q \o s
             a == Append(s, x)
  <2>1. s \in Seq(S) /\ Filter(c, K) = k \o l /\ c \in Seq(S) /\ a \in Seq(S)
    BY ConcatProperties, AppendProperties
  <2>2. k \in Seq(S) /\ l \in Seq(S)
    BY <1>1, <2>1
  <2>3. q \o a = Append(c, x)
    BY <2>1, TailAdded
  <2>4. Filter(Append(c, x), K) = IF x \in K THEN Append(Filter(c, K), x) ELSE Filter(c, K)
    <3>1. \A z \in Seq(S) :
            Filter(Append(z, x), K) = IF x \in K THEN Append(Filter(z, K), x) ELSE Filter(z, K)
      BY FilterPush
    <3> HIDE DEF c
    <3> QED
      BY <2>1, <3>1
  <2>5. Filter(a, K) = IF x \in K THEN Append(l, x) ELSE l
    BY <2>1, FilterPush
  <2>6. k \o Append(l, x) = Append(k \o l, x)
    <3> HIDE DEF k, l
    <3> QED
      BY <2>2, TailAdded
  <2> HIDE DEF k, l, c
  <2>7. Filter(q \o a, K) = k \o Filter(a, K)
    <3> HIDE DEF a
    <3> QED
      BY <2>1, <2>3, <2>4, <2>5, <2>6
  <2> QED
    BY <2>1, <2>7 DEF k
<1>4. Q = Seq(S)
  <2> HIDE DEF Q
  <2>1. Q \subseteq Seq(S)
    BY DEF Q
  <2> QED
    BY <1>2, <1>3, <2>1, QueueSets
<1> QED
  BY <1>4

\* Filtering a queue that is all of K changes nothing.
LEMMA FilterAll ==
  ASSUME NEW S, NEW K, S \subseteq K
  PROVE  \A q \in Seq(S) : Filter(q, K) = q
<1> DEFINE Q == {s \in Seq(S) : Filter(s, K) = s}
<1>1. <<>> \in Q
  BY FilterEmpty, EmptySeq
<1>2. ASSUME NEW s \in Q, NEW x \in S PROVE Append(s, x) \in Q
  <2>1. s \in Seq(S) /\ Filter(s, K) = s
    OBVIOUS
  <2>2. Append(s, x) \in Seq(S)
    BY <2>1, AppendProperties
  <2>3. Filter(Append(s, x), K) = IF x \in K THEN Append(Filter(s, K), x) ELSE Filter(s, K)
    BY <2>1, FilterPush
  <2>4. x \in K
    OBVIOUS
  <2> QED
    BY <2>1, <2>2, <2>3, <2>4
<1>3. Q = Seq(S)
  <2> HIDE DEF Q
  <2>1. Q \subseteq Seq(S)
    BY DEF Q
  <2> QED
    BY <1>1, <1>2, <2>1, QueueSets
<1> QED
  BY <1>3

\* The element that Filter decides about first.
LEMMA FilterFirst ==
  ASSUME NEW S, NEW x \in S, NEW q \in Seq(S), NEW K
  PROVE  Filter(<<x>> \o q, K) =
           IF x \in K THEN <<x>> \o Filter(q, K) ELSE Filter(q, K)
<1> DEFINE one == <<x>>
           none == <<>>
<1>1. one \in Seq(S) /\ one = Append(none, x) /\ none \in Seq(S)
  BY EmptySeq
<1>2. Filter(none, K) = none
  BY FilterEmpty
<1>3. Filter(Append(none, x), K) = IF x \in K THEN Append(none, x) ELSE none
  <2> HIDE DEF none
  <2> QED
    BY <1>1, <1>2, FilterPush
<1>4. Filter(q, K) \in Seq(S) /\ none \o Filter(q, K) = Filter(q, K)
  BY FilterSeq, ConcatEmptySeq
<1> HIDE DEF one, none
<1>5. Filter(one \o q, K) = Filter(one, K) \o Filter(q, K)
  <2>1. \A z \in Seq(S) : Filter(z \o q, K) = Filter(z, K) \o Filter(q, K)
    BY FilterConcat
  <2> QED
    BY <1>1, <2>1
<1> QED
  BY <1>1, <1>3, <1>4, <1>5 DEF one

\* An element that comes last in all of a sequence and in what is left of it.
LEMMA FilterPushBoth ==
  ASSUME NEW S, NEW K, NEW g \in Seq(S), NEW q \in Seq(S), NEW s \in Seq(S), NEW x \in S
  PROVE  g \o Filter(q, K) = Filter(s, K)
           => g \o Filter(Append(q, x), K) = Filter(Append(s, x), K)
<1> DEFINE l == Filter(q, K)
<1>1. l \in Seq(S)
  BY FilterSeq
<1>2. g \o Append(l, x) = Append(g \o l, x)
  <2> HIDE DEF l
  <2> QED
    BY <1>1, TailAdded
<1>3. Filter(Append(q, x), K) = IF x \in K THEN Append(l, x) ELSE l
  BY FilterPush
<1>4. Filter(Append(s, x), K) = IF x \in K THEN Append(Filter(s, K), x) ELSE Filter(s, K)
  BY FilterPush
<1> QED
  BY <1>2, <1>3, <1>4

\* Queues that differ only in elements that are not in K.
Alike(K, q, r) ==
  /\ Len(q) = Len(r)
  /\ \A i \in 1..Len(q) : q[i] = r[i] \/ (q[i] \notin K /\ r[i] \notin K)

\* Elements that are not in K may be exchanged for others that are not.
LEMMA FilterSame ==
  ASSUME NEW S, NEW K
  PROVE  \A q, r \in Seq(S) : Alike(K, q, r) => Filter(q, K) = Filter(r, K)
<1> DEFINE Q == {q \in Seq(S) : \A r \in Seq(S) : Alike(K, q, r) => Filter(q, K) = Filter(r, K)}
<1>1. <<>> \in Q
  <2> SUFFICES ASSUME NEW r \in Seq(S), Alike(K, <<>>, r) PROVE r = <<>>
    BY EmptySeq
  <2> QED
    BY EmptySeq DEF Alike
<1>2. ASSUME NEW q \in Q, NEW x \in S PROVE Append(q, x) \in Q
  <2> DEFINE a == Append(q, x)
             n == Len(q)
  <2>1. q \in Seq(S) /\ n \in Nat /\ a \in Seq(S) /\ Len(a) = n + 1 /\ a[n + 1] = x
        /\ \A i \in 1..n : a[i] = q[i]
    BY Pushed, LenProperties
  <2> SUFFICES ASSUME NEW r \in Seq(S), Alike(K, a, r) PROVE Filter(a, K) = Filter(r, K)
    BY <2>1
  <2> HIDE DEF a, n
  <2>2. Len(r) = n + 1
    BY <2>1 DEF Alike
  <2>3. r # <<>>
    BY <2>1, <2>2, EmptySeq
  <2>4. PICK s \in Seq(S), y \in S : r = Append(s, y)
    BY <2>3, SequenceEmptyOrAppend
  <2>5. Len(s) = n /\ r[n + 1] = y /\ \A i \in 1..n : r[i] = s[i]
    <3>1. Len(s) \in Nat /\ Len(r) = Len(s) + 1 /\ r[Len(s) + 1] = y
          /\ \A i \in 1..Len(s) : r[i] = s[i]
      BY <2>4, Pushed, LenProperties
    <3> QED
      BY <2>1, <2>2, <3>1
  <2>6. Alike(K, q, s)
    <3> SUFFICES ASSUME NEW i \in 1..n PROVE q[i] = s[i] \/ (q[i] \notin K /\ s[i] \notin K)
      BY <2>5 DEF n, Alike
    <3>1. i \in 1..Len(a) /\ a[i] = q[i] /\ r[i] = s[i]
      BY <2>1, <2>5
    <3> QED
      BY <3>1 DEF Alike
  <2>7. x = y \/ (x \notin K /\ y \notin K)
    <3>1. n + 1 \in 1..Len(a)
      BY <2>1
    <3> QED
      BY <2>1, <2>5, <3>1 DEF Alike
  <2>8. Filter(q, K) = Filter(s, K)
    BY <2>4, <2>6
  <2>9. Filter(a, K) = IF x \in K THEN Append(Filter(q, K), x) ELSE Filter(q, K)
    BY <2>1, FilterPush DEF a
  <2>10. Filter(r, K) = IF y \in K THEN Append(Filter(s, K), y) ELSE Filter(s, K)
    BY <2>4, FilterPush
  <2> QED
    BY <2>7, <2>8, <2>9, <2>10
<1>3. Q = Seq(S)
  <2> HIDE DEF Q
  <2>1. Q \subseteq Seq(S)
    BY DEF Q
  <2> QED
    BY <1>1, <1>2, <2>1, QueueSets
<1> QED
  BY <1>3

\* What is left is in the queue and in K.
LEMMA FilterRange ==
  ASSUME NEW S, NEW K
  PROVE  \A q \in Seq(S) : Range(Filter(q, K)) = Range(q) \cap K
<1> DEFINE Q == {q \in Seq(S) : Range(Filter(q, K)) = Range(q) \cap K}
<1>1. <<>> \in Q
  BY FilterEmpty, EmptySeq, RangeEmpty
<1>2. ASSUME NEW q \in Q, NEW x \in S PROVE Append(q, x) \in Q
  <2> DEFINE f == Filter(q, K)
             a == Append(q, x)
  <2>1. q \in Seq(S) /\ Range(f) = Range(q) \cap K /\ a \in Seq(S)
    BY Pushed
  <2>2. f \in Seq(S)
    BY <2>1, FilterSeq
  <2>3. Range(a) = Range(q) \union {x}
    BY <2>1, RangePush
  <2>4. Filter(a, K) = IF x \in K THEN Append(f, x) ELSE f
    BY <2>1, FilterPush
  <2> HIDE DEF f
  <2>5. Range(Append(f, x)) = Range(f) \union {x}
    BY <2>2, RangePush
  <2> HIDE DEF a
  <2>6. Range(Filter(a, K)) = Range(a) \cap K
    <3>1. CASE x \in K
      BY <2>1, <2>3, <2>4, <2>5, <3>1
    <3>2. CASE x \notin K
      BY <2>1, <2>3, <2>4, <3>2
    <3> QED
      BY <3>1, <3>2
  <2> QED
    BY <2>1, <2>6 DEF a
<1>3. Q = Seq(S)
  <2> HIDE DEF Q
  <2>1. Q \subseteq Seq(S)
    BY DEF Q
  <2> QED
    BY <1>1, <1>2, <2>1, QueueSets
<1> QED
  BY <1>3

-----------------------------------------------------------------------------
(* What has come of what was submitted, and what is to come.               *)

\* What has been handled and what is in the inbox, all of it from K,
\* followed by what is under way, is what was submitted.
Settled(K, g, x, d, b, s) ==
  /\ x \in Seq(K)
  /\ (g \o x) \o Filter(d \o b, K) = Filter(s, K)

\* A message submitted goes to the end of both.
LEMMA SettledSubmit ==
  ASSUME NEW S, NEW K
  PROVE  \A g, x, d, b, s \in Seq(S) : \A m \in S :
           Settled(K, g, x, d, b, s) => Settled(K, g, x, d, Append(b, m), Append(s, m))
<1> DEFINE Q == Seq(S)
           Cat(q, r) == q \o r
           Push(q, m) == Append(q, m)
           Kept(q) == Filter(q, K)
<1>1. \A q, r \in Q : Cat(q, r) \in Q
  BY ConcatProperties
<1>2. \A q, r \in Q : \A m \in S : Cat(q, Push(r, m)) = Push(Cat(q, r), m)
  BY TailAdded
<1>3. \A h, q, s \in Q : \A m \in S :
        Cat(h, Kept(q)) = Kept(s) => Cat(h, Kept(Push(q, m))) = Kept(Push(s, m))
  BY FilterPushBoth
<1>4. \A g, x, d, b, s : Settled(K, g, x, d, b, s) <=>
                           x \in Seq(K) /\ Cat(Cat(g, x), Kept(Cat(d, b))) = Kept(s)
  BY DEF Settled
<1> HIDE DEF Q, Cat, Push, Kept
<1>5. ASSUME NEW g \in Q, NEW x \in Q, NEW d \in Q, NEW b \in Q, NEW s \in Q, NEW m \in S,
             Settled(K, g, x, d, b, s)
      PROVE  Settled(K, g, x, d, Push(b, m), Push(s, m))
  <2>1. Cat(g, x) \in Q /\ Cat(d, b) \in Q /\ Cat(d, Push(b, m)) = Push(Cat(d, b), m)
    BY <1>1, <1>2
  <2>2. Cat(Cat(g, x), Kept(Cat(d, b))) = Kept(s) /\ x \in Seq(K)
    BY <1>4, <1>5
  <2>3. Cat(Cat(g, x), Kept(Push(Cat(d, b), m))) = Kept(Push(s, m))
    BY <1>3, <2>1, <2>2
  <2> QED
    BY <1>4, <2>1, <2>2, <2>3
<1> QED
  BY <1>5 DEF Q, Push

\* A message handled stays where it was.
LEMMA SettledHandle ==
  ASSUME NEW S, NEW K, NEW g \in Seq(S), NEW x \in Seq(S), NEW d, NEW b, NEW s,
         x # <<>>, Settled(K, g, x, d, b, s)
  PROVE  Settled(K, Append(g, Head(x)), Tail(x), d, b, s)
<1>1. Append(g, Head(x)) \o Tail(x) = g \o x
  BY HeadMoves
<1>2. Tail(x) \in Seq(K)
  BY Popped DEF Settled
<1> QED
  BY <1>1, <1>2 DEF Settled

\* A message whose payload is sent leaves the outbox for the sockets.
LEMMA SettledSend ==
  ASSUME NEW M, NEW K, NEW g, NEW x, NEW d \in Seq(M), NEW b \in Seq(M), NEW s,
         b # <<>>, Settled(K, g, x, d, b, s)
  PROVE  Settled(K, g, x, Append(d, Head(b)), Tail(b), s)
<1>1. Append(d, Head(b)) \o Tail(b) = d \o b
  BY HeadMoves
<1> QED
  BY <1>1 DEF Settled

\* A message taken from what is under way comes into the inbox if it is in K.
LEMMA SettledTake ==
  ASSUME NEW S, NEW K
  PROVE  \A g, x, d, b \in Seq(S) : \A s : \A m \in S :
           Settled(K, g, x, <<m>> \o d, b, s)
             => Settled(K, g, IF m \in K THEN Append(x, m) ELSE x, d, b, s)
<1> DEFINE Q == Seq(S)
           One(m) == <<m>>
           Cat(q, r) == q \o r
           Push(q, m) == Append(q, m)
           Kept(q) == Filter(q, K)
<1>1. \A q, r \in Q : Cat(q, r) \in Q
  BY ConcatProperties
<1>2. \A q, r, t \in Q : Cat(Cat(q, r), t) = Cat(q, Cat(r, t))
  BY ConcatAssociative
<1>3. \A m \in S : \A q \in Q : Kept(Cat(One(m), q)) =
                                  IF m \in K THEN Cat(One(m), Kept(q)) ELSE Kept(q)
  BY FilterFirst
<1>4. \A m \in S : One(m) \in Q
  BY Short
<1>5. \A q \in Q : Kept(q) \in Q
  BY FilterSeq
<1>6. \A q \in Q : \A m \in S : Push(q, m) = Cat(q, One(m))
  BY AppendIsConcat
<1>7. \A x \in Seq(K) : \A m \in K : Push(x, m) \in Seq(K)
  BY Pushed
<1>8. \A g, x, d, b, s : Settled(K, g, x, d, b, s) <=>
                           x \in Seq(K) /\ Cat(Cat(g, x), Kept(Cat(d, b))) = Kept(s)
  BY DEF Settled
<1> HIDE DEF Q, One, Cat, Push, Kept
<1>9. ASSUME NEW g \in Q, NEW x \in Q, NEW d \in Q, NEW b \in Q, NEW s, NEW m \in S,
             Settled(K, g, x, Cat(One(m), d), b, s)
      PROVE  Settled(K, g, IF m \in K THEN Push(x, m) ELSE x, d, b, s)
  <2> DEFINE h == Cat(g, x)
             q == Cat(d, b)
             l == Kept(q)
             o == One(m)
  <2>1. h \in Q /\ q \in Q /\ o \in Q /\ Cat(Cat(o, d), b) = Cat(o, q)
    BY <1>1, <1>2, <1>4
  <2>2. Cat(h, Kept(Cat(o, q))) = Kept(s) /\ x \in Seq(K)
    BY <1>8, <1>9, <2>1
  <2>3. l \in Q
    BY <1>5, <2>1
  <2>4. CASE m \in K
    <3>1. Cat(g, Push(x, m)) = Cat(h, o)
      BY <1>2, <1>6, <2>1
    <3>2. Kept(Cat(o, q)) = Cat(o, l)
      BY <1>3, <2>1, <2>4
    <3>3. Cat(Cat(h, o), l) = Cat(h, Cat(o, l))
      BY <1>2, <2>1, <2>3
    <3>4. Push(x, m) \in Seq(K)
      BY <1>7, <2>2, <2>4
    <3> QED
      BY <1>8, <2>2, <2>4, <3>1, <3>2, <3>3, <3>4
  <2>5. CASE m \notin K
    <3>1. Kept(Cat(o, q)) = l
      BY <1>3, <2>1, <2>5
    <3> QED
      BY <1>8, <2>2, <2>5, <3>1
  <2> QED
    BY <2>4, <2>5
<1> QED
  BY <1>9 DEF Q, One, Cat, Push

=============================================================================
