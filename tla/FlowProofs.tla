------------------------------ MODULE FlowProofs ------------------------------
(***************************************************************************)
(* Proofs about the two ends of the browser's transport, which do not      *)
(* share any state. The buffered sender: every byte is handed over once    *)
(* and in order, and promises are settled as they should be, for sends,    *)
(* segments and queues of every length. FlattenSeq is defined by recursion *)
(* over the queue, so its facts are proved by induction, from the          *)
(* well-foundedness of < on the numbers; what is to be proved of every     *)
(* number or sequence is there stated as the set of those that have it.    *)
(* Back-pressure: the client never silences the backend for good.          *)
(***************************************************************************)
EXTENDS BufferedSender, Backpressure, WellFoundedInduction, SequenceTheorems, TLAPS

----------------------------------------------------------------------------
(* Induction.                                                               *)

\* A set of numbers that is not empty has a least member.
LEMMA LeastOf ==
  ASSUME NEW T, T \subseteq Nat, T # {}
  PROVE  \E m \in T : \A n \in T : m <= n
<1> DEFINE R == OpToRel(<, Nat)
<1>1. IsWellFoundedOn(R, Nat)
  BY NatLessThanWellFounded
<1>2. \A x, y \in Nat : y < x => <<y, x>> \in R
  BY DEF OpToRel
<1> HIDE DEF R
<1>3. PICK m \in T : \A y \in T : ~(<<y, m>> \in R)
  BY <1>1, WFMin
<1>4. ASSUME NEW n \in T PROVE m <= n
  <2>1. m \in Nat /\ n \in Nat /\ ~(n < m)
    BY <1>2, <1>3
  <2> QED BY <2>1
<1> QED BY <1>4

\* Induction, over sets: a set that holds zero and every successor holds every number.
LEMMA Induct ==
  ASSUME NEW S, 0 \in S, \A n \in Nat : n \in S => n + 1 \in S
  PROVE  Nat \subseteq S
<1> DEFINE T == Nat \ S
<1> SUFFICES ASSUME T # {} PROVE FALSE
  OBVIOUS
<1>1. PICK m \in T : \A n \in T : m <= n
  BY LeastOf
<1>2. m # 0 /\ m \in Nat /\ m - 1 \in Nat /\ m - 1 \notin T
  BY <1>1
<1>3. m - 1 \in S
  BY <1>2
<1>4. m \in S
  BY <1>2, <1>3
<1> QED BY <1>4

----------------------------------------------------------------------------
(* FlattenSeq, and the bytes that wait in the queue.                        *)

\* The recursion by which SequencesExt defines FlattenSeq.
Flattens(f, q, n) == f = [i \in 1 .. n |-> IF i = 1 THEN q[i] ELSE f[i - 1] \o q[i]]

\* A solution f of the recursion by which FlattenSeq is defined satisfies it at each index.
LEMMA FlattenAt ==
  ASSUME NEW q, NEW n \in Nat, NEW f, Flattens(f, q, n), NEW i \in 1 .. n
  PROVE  f[i] = IF i = 1 THEN q[i] ELSE f[i - 1] \o q[i]
<1> DEFINE G == [j \in 1 .. n |-> IF j = 1 THEN q[j] ELSE f[j - 1] \o q[j]]
<1>1. f = G
  BY DEF Flattens
<1>2. G[i] = IF i = 1 THEN q[i] ELSE f[i - 1] \o q[i]
  OBVIOUS
<1> HIDE DEF G
<1> QED BY <1>1, <1>2

\* The recursion of FlattenSeq has a solution, of every length.
LEMMA FlattenExists ==
  ASSUME NEW q PROVE \A n \in Nat : \E f : Flattens(f, q, n)
<1> DEFINE S == {n \in Nat : \E f : Flattens(f, q, n)}
<1>1. 0 \in S
  <2> DEFINE e == [i \in 1 .. 0 |-> q]
  <2>1. Flattens(e, q, 0)
    BY DEF Flattens
  <2> QED BY <2>1
<1>2. ASSUME NEW n \in Nat, n \in S PROVE n + 1 \in S
  <2>1. PICK f : Flattens(f, q, n)
    BY <1>2
  <2> DEFINE g == [i \in 1 .. n + 1 |->
                    IF i <= n THEN f[i] ELSE IF n = 0 THEN q[1] ELSE f[n] \o q[n + 1]]
  <2>2. \A i \in 1 .. n + 1 : g[i] = IF i = 1 THEN q[i] ELSE g[i - 1] \o q[i]
    <3> TAKE i \in 1 .. n + 1
    <3>1. CASE i <= n
      <4>1. f[i] = IF i = 1 THEN q[i] ELSE f[i - 1] \o q[i]
        BY <2>1, <3>1, FlattenAt
      <4> QED BY <3>1, <4>1
    <3>2. CASE i = n + 1
      BY <3>2
    <3> QED BY <3>1, <3>2
  <2>3. Flattens(g, q, n + 1)
    <3>1. g = [i \in 1 .. n + 1 |-> g[i]]
      OBVIOUS
    <3> HIDE DEF g
    <3> QED BY <2>2, <3>1 DEF Flattens
  <2> QED BY <2>3
<1> HIDE DEF S
<1>3. Nat \subseteq S
  BY <1>1, <1>2, Induct
<1> QED BY <1>3 DEF S

\* Solutions of it for two sequences that agree on a prefix agree there.
LEMMA FlattenUnique ==
  ASSUME NEW q, NEW r, NEW n \in Nat, NEW m \in Nat, n <= m, \A i \in 1 .. n : q[i] = r[i],
         NEW f, NEW g, Flattens(f, q, n), Flattens(g, r, m)
  PROVE  \A i \in 1 .. n : f[i] = g[i]
<1> DEFINE S == {k \in Nat : k \in 1 .. n => f[k] = g[k]}
<1>1. 0 \in S
  OBVIOUS
<1>2. ASSUME NEW k \in Nat, k \in S PROVE k + 1 \in S
  <2>1. CASE k + 1 \in 1 .. n
    <3>1. f[k + 1] = IF k + 1 = 1 THEN q[k + 1] ELSE f[k + 1 - 1] \o q[k + 1]
      BY <2>1, FlattenAt
    <3>2. k + 1 \in 1 .. m
      BY <2>1
    <3>3. g[k + 1] = IF k + 1 = 1 THEN r[k + 1] ELSE g[k + 1 - 1] \o r[k + 1]
      BY <3>2, FlattenAt
    <3>4. k + 1 = 1 \/ f[k] = g[k]
      BY <1>2, <2>1
    <3> QED BY <2>1, <3>1, <3>3, <3>4
  <2> QED BY <2>1
<1> HIDE DEF S
<1>3. Nat \subseteq S
  BY <1>1, <1>2, Induct
<1> QED BY <1>3 DEF S

\* So the function chosen in FlattenSeq is a solution.
LEMMA FlattenIs ==
  ASSUME NEW q, Len(q) \in Nat \ {0}
  PROVE  \E f : Flattens(f, q, Len(q)) /\ FlattenSeq(q) = f[Len(q)]
<1> DEFINE F == CHOOSE f : f = [i \in 1 .. Len(q) |-> IF i = 1 THEN q[i] ELSE f[i - 1] \o q[i]]
<1>1. \E f : f = [i \in 1 .. Len(q) |-> IF i = 1 THEN q[i] ELSE f[i - 1] \o q[i]]
  BY FlattenExists DEF Flattens
<1>2. F = [i \in 1 .. Len(q) |-> IF i = 1 THEN q[i] ELSE F[i - 1] \o q[i]]
  BY <1>1, Zenon
<1>3. FlattenSeq(q) = F[Len(q)]
  BY Zenon DEF FlattenSeq
<1>4. Flattens(F, q, Len(q))
  BY <1>2, Zenon DEF Flattens
<1> QED BY <1>3, <1>4, Zenon

\* An item of the queue.
QItem == [kind : {"data", "flush", "close"}, data : Bytes]
\* The data of the items, one by one.
DataOf(q) == [i \in 1 .. Len(q) |-> q[i].data]

\* Nothing waits in an empty queue.
LEMMA WaitingEmpty == Waiting(<<>>) = <<>>
<1>1. Len(DataOf(<<>>)) = 0 /\ DataOf(<<>>) = <<>>
  BY DEF DataOf
<1> QED BY <1>1 DEF Waiting, FlattenSeq, DataOf

\* One more element: what it adds to the flattened sequence.
LEMMA FlattenAppend ==
  ASSUME NEW n \in Nat, NEW q, NEW r, Len(q) = n, Len(r) = n + 1, \A i \in 1 .. n : q[i] = r[i]
  PROVE  FlattenSeq(r) = IF n = 0 THEN r[1] ELSE FlattenSeq(q) \o r[n + 1]
<1>1. PICK g : Flattens(g, r, Len(r)) /\ FlattenSeq(r) = g[Len(r)]
  <2>1. Len(r) \in Nat \ {0}
    OBVIOUS
  <2> QED BY <2>1, FlattenIs
<1>2. Flattens(g, r, n + 1) /\ FlattenSeq(r) = g[n + 1]
  BY <1>1
<1>3. g[n + 1] = IF n + 1 = 1 THEN r[n + 1] ELSE g[n + 1 - 1] \o r[n + 1]
  <2> DEFINE m == n + 1
  <2>1. m \in Nat /\ m \in 1 .. m /\ Flattens(g, r, m)
    BY <1>2
  <2> HIDE DEF m
  <2>2. g[m] = IF m = 1 THEN r[m] ELSE g[m - 1] \o r[m]
    BY <2>1, FlattenAt
  <2> QED BY <2>2 DEF m
<1>4. CASE n = 0
  BY <1>2, <1>3, <1>4
<1>5. CASE n # 0
  <2>1. Len(q) \in Nat \ {0}
    BY <1>5
  <2>2. PICK f : Flattens(f, q, Len(q)) /\ FlattenSeq(q) = f[Len(q)]
    BY <2>1, FlattenIs
  <2>3. Flattens(f, q, n) /\ FlattenSeq(q) = f[n]
    BY <2>2
  <2>4. f[n] = g[n]
    <3> DEFINE m == n + 1
    <3>1. m \in Nat /\ n <= m /\ Flattens(g, r, m) /\ n \in 1 .. n
      BY <1>2, <1>5
    <3> HIDE DEF m
    <3>2. \A i \in 1 .. n : f[i] = g[i]
      BY ONLY n \in Nat, \A i \in 1 .. n : q[i] = r[i], <3>1, <2>3, FlattenUnique
    <3> QED BY <3>1, <3>2
  <2>5. n + 1 - 1 = n /\ n + 1 # 1
    BY <1>5
  <2>6. g[n + 1] = g[n] \o r[n + 1]
    BY <1>3, <2>5
  <2> QED BY <1>2, <1>5, <2>3, <2>4, <2>6
<1> QED BY <1>4, <1>5

\* One more queued item: what it adds to the waiting bytes.
LEMMA WaitingAppend ==
  ASSUME NEW q \in Seq(QItem), NEW it \in QItem
  PROVE  Waiting(Append(q, it)) = IF q = <<>> THEN it.data ELSE Waiting(q) \o it.data
<1> DEFINE n == Len(q)
           a == Append(q, it)
<1>1. n \in Nat /\ Len(a) = n + 1 /\ a[n + 1] = it /\ \A i \in 1 .. n : a[i] = q[i]
  BY AppendProperties
<1>2. Len(DataOf(q)) = n /\ Len(DataOf(a)) = n + 1
  BY <1>1 DEF DataOf
<1>3. DataOf(a)[n + 1] = it.data /\ \A i \in 1 .. n : DataOf(q)[i] = DataOf(a)[i]
  BY <1>1 DEF DataOf
<1>4. q = <<>> <=> n = 0
  BY EmptySeq
<1>5. Waiting(q) = FlattenSeq(DataOf(q)) /\ Waiting(a) = FlattenSeq(DataOf(a))
  BY DEF Waiting, DataOf
<1> HIDE DEF n, a
<1>6. FlattenSeq(DataOf(a)) =
        IF n = 0 THEN DataOf(a)[1] ELSE FlattenSeq(DataOf(q)) \o DataOf(a)[n + 1]
  <2> DEFINE p == DataOf(q)
             r == DataOf(a)
  <2>1. n \in Nat /\ Len(p) = n /\ Len(r) = n + 1 /\ \A i \in 1 .. n : p[i] = r[i]
    BY <1>1, <1>2, <1>3
  <2> HIDE DEF p, r
  <2>2. FlattenSeq(r) = IF n = 0 THEN r[1] ELSE FlattenSeq(p) \o r[n + 1]
    BY ONLY <2>1, FlattenAppend
  <2> QED BY <2>2 DEF p, r
<1>7. Waiting(a) = IF q = <<>> THEN it.data ELSE Waiting(q) \o it.data
  BY <1>1, <1>3, <1>4, <1>5, <1>6
<1> QED BY <1>7 DEF a

\* Induction over sequences, by Append, over sets.
LEMMA SeqInduct ==
  ASSUME NEW S, NEW T, <<>> \in T, \A q \in Seq(S), e \in S : q \in T => Append(q, e) \in T
  PROVE  Seq(S) \subseteq T
<1> DEFINE N == {n \in Nat : \A q \in Seq(S) : Len(q) = n => q \in T}
<1>1. 0 \in N
  BY EmptySeq
<1>2. ASSUME NEW n \in Nat, n \in N PROVE n + 1 \in N
  <2>1. ASSUME NEW q \in Seq(S), Len(q) = n + 1 PROVE q \in T
    <3>1. q # <<>>
      BY <2>1
    <3>2. PICK p \in Seq(S), e \in S : q = Append(p, e)
      BY <3>1, SequenceEmptyOrAppend
    <3>3. Len(p) = n
      BY <2>1, <3>2
    <3> QED BY <1>2, <3>2, <3>3
  <2> QED BY <2>1
<1> HIDE DEF N
<1>3. Nat \subseteq N
  BY <1>1, <1>2, Induct
<1> QED BY <1>3 DEF N

\* The data of an item are bytes.
LEMMA ItemData == \A it \in QItem : it.data \in Bytes
  BY DEF QItem

\* What waits are bytes.
LEMMA WaitingType == ASSUME NEW q \in Seq(QItem) PROVE Waiting(q) \in Bytes
<1> DEFINE T == {p \in Seq(QItem) : Waiting(p) \in Bytes}
<1>1. <<>> \in T
  BY WaitingEmpty, EmptySeq DEF Bytes
<1>2. ASSUME NEW p \in Seq(QItem), NEW e \in QItem, p \in T PROVE Append(p, e) \in T
  <2>1. Waiting(p) \in Seq(Sends) /\ e.data \in Seq(Sends)
    BY <1>2, ItemData DEF Bytes
  <2>2. Waiting(p) \o e.data \in Seq(Sends)
    BY <2>1, ConcatProperties
  <2>3. Waiting(Append(p, e)) \in Seq(Sends)
    BY <2>1, <2>2, WaitingAppend
  <2>4. Append(p, e) \in Seq(QItem)
    BY AppendProperties
  <2> QED BY <2>3, <2>4 DEF Bytes
<1> HIDE DEF T
<1>3. Seq(QItem) \subseteq T
  BY <1>1, <1>2, SeqInduct
<1> QED BY <1>3 DEF T

\* The last item's bytes are the last to wait.
LEMMA WaitingLast ==
  ASSUME NEW q \in Seq(QItem), NEW it \in QItem
  PROVE  Waiting(Append(q, it)) = Waiting(q) \o it.data
  BY WaitingAppend, WaitingEmpty, ItemData, ConcatEmptySeq DEF Bytes

\* Concatenation of bytes: its type and length.
LEMMA BytesConcat ==
  ASSUME NEW s \in Bytes, NEW t \in Bytes
  PROVE  s \o t \in Bytes /\ Len(s \o t) = Len(s) + Len(t)
  BY ConcatProperties DEF Bytes

\* Concatenation of bytes is associative.
LEMMA BytesAssociative ==
  ASSUME NEW s \in Bytes, NEW t \in Bytes, NEW u \in Bytes
  PROVE  (s \o t) \o u = s \o (t \o u)
  BY ConcatAssociative DEF Bytes

\* The first item's bytes are the first to wait.
LEMMA WaitingHead ==
  ASSUME NEW q \in Seq(QItem), q # <<>>
  PROVE  Waiting(q) = Head(q).data \o Waiting(Tail(q))
<1> DEFINE T == {p \in Seq(QItem) : p # <<>> => Waiting(p) = Head(p).data \o Waiting(Tail(p))}
<1>1. <<>> \in T
  OBVIOUS
<1>2. ASSUME NEW p \in Seq(QItem), NEW e \in QItem, p \in T PROVE Append(p, e) \in T
  <2>1. Waiting(Append(p, e)) = Waiting(p) \o e.data
    BY WaitingLast
  <2>2. CASE p = <<>>
    <3>1. Head(Append(p, e)) = e /\ Tail(Append(p, e)) = <<>>
      BY <2>2, HeadTailAppend
    <3>2. <<>> \o e.data = e.data /\ e.data \o <<>> = e.data
      BY ItemData, ConcatEmptySeq DEF Bytes
    <3>3. Waiting(Append(p, e)) = Head(Append(p, e)).data \o Waiting(Tail(Append(p, e)))
      BY <2>1, <2>2, <3>1, <3>2, WaitingEmpty
    <3> QED BY <3>3, AppendProperties
  <2>3. CASE p # <<>>
    <3>1. Head(Append(p, e)) = Head(p) /\ Tail(Append(p, e)) = Append(Tail(p), e)
      BY <2>3, HeadTailAppend
    <3>2. Head(p) \in QItem /\ Tail(p) \in Seq(QItem)
      BY <2>3, HeadTailProperties
    <3>3. Waiting(Append(Tail(p), e)) = Waiting(Tail(p)) \o e.data
      BY <3>2, WaitingLast
    <3>4. Waiting(p) = Head(p).data \o Waiting(Tail(p))
      BY <1>2, <2>3
    <3>5. (Head(p).data \o Waiting(Tail(p))) \o e.data = Head(p).data \o (Waiting(Tail(p)) \o e.data)
      <4>1. Head(p).data \in Bytes /\ Waiting(Tail(p)) \in Bytes /\ e.data \in Bytes
        BY <3>2, ItemData, WaitingType
      <4> QED BY <4>1, BytesAssociative
    <3>6. Waiting(Append(p, e)) = Head(Append(p, e)).data \o Waiting(Tail(Append(p, e)))
      BY <2>1, <3>1, <3>3, <3>4, <3>5
    <3> QED BY <3>6, AppendProperties
  <2> QED BY <2>2, <2>3
<1> HIDE DEF T
<1>3. Seq(QItem) \subseteq T
  BY <1>1, <1>2, SeqInduct
<1> QED BY <1>3 DEF T

\* A byte of a concatenation is of one of its parts.
LEMMA ToSetConcat ==
  ASSUME NEW s \in Bytes, NEW t \in Bytes
  PROVE  ToSet(s \o t) \subseteq ToSet(s) \union ToSet(t)
<1> SUFFICES ASSUME NEW i \in DOMAIN (s \o t) PROVE (s \o t)[i] \in ToSet(s) \union ToSet(t)
  BY DEF ToSet
<1>1. /\ s \o t \in Bytes /\ Len(s \o t) = Len(s) + Len(t)
      /\ \A j \in 1 .. Len(s) + Len(t) : (s \o t)[j] = IF j <= Len(s) THEN s[j] ELSE t[j - Len(s)]
  BY ConcatProperties DEF Bytes
<1>2. /\ DOMAIN (s \o t) = 1 .. Len(s) + Len(t) /\ DOMAIN s = 1 .. Len(s) /\ DOMAIN t = 1 .. Len(t)
      /\ Len(s) \in Nat /\ Len(t) \in Nat
  BY <1>1, LenProperties DEF Bytes
<1> QED BY <1>1, <1>2 DEF ToSet

\* A byte that waits is of a queued item.
LEMMA ToSetWaiting ==
  ASSUME NEW q \in Seq(QItem), NEW i \in ToSet(Waiting(q))
  PROVE  \E k \in 1 .. Len(q) : i \in ToSet(q[k].data)
<1> DEFINE T == {p \in Seq(QItem) :
                   \A b \in ToSet(Waiting(p)) : \E k \in 1 .. Len(p) : b \in ToSet(p[k].data)}
<1>1. <<>> \in T
  BY WaitingEmpty DEF ToSet
<1>2. ASSUME NEW p \in Seq(QItem), NEW e \in QItem, p \in T PROVE Append(p, e) \in T
  <2>1. ASSUME NEW b \in ToSet(Waiting(Append(p, e)))
        PROVE  \E k \in 1 .. Len(Append(p, e)) : b \in ToSet(Append(p, e)[k].data)
    <3>1. b \in ToSet(Waiting(p)) \/ b \in ToSet(e.data)
      BY WaitingLast, WaitingType, ItemData, ToSetConcat
    <3>2. /\ Len(p) \in Nat /\ Len(Append(p, e)) = Len(p) + 1 /\ Append(p, e)[Len(p) + 1] = e
          /\ \A k \in 1 .. Len(p) : Append(p, e)[k] = p[k]
      BY AppendProperties
    <3>3. CASE b \in ToSet(Waiting(p))
      <4>1. PICK k \in 1 .. Len(p) : b \in ToSet(p[k].data)
        BY <1>2, <3>3
      <4>2. k \in 1 .. Len(p) + 1 /\ b \in ToSet(Append(p, e)[k].data)
        BY <3>2, <4>1
      <4> QED BY <3>2, <4>2
    <3>4. CASE b \in ToSet(e.data)
      <4>1. Len(p) + 1 \in 1 .. Len(p) + 1
        BY <3>2
      <4> QED BY <3>2, <3>4, <4>1
    <3> QED BY <3>1, <3>3, <3>4
  <2> QED BY <2>1, AppendProperties
<1> HIDE DEF T
<1>3. Seq(QItem) \subseteq T
  BY <1>1, <1>2, SeqInduct
<1> QED BY <1>3 DEF T

----------------------------------------------------------------------------
(* Gathering (appendBuffer).                                                *)

\* Min is the smaller one.
LEMMA MinOf == \A a, b \in Nat : Min({a, b}) = IF a <= b THEN a ELSE b
<1> SUFFICES ASSUME NEW a \in Nat, NEW b \in Nat PROVE Min({a, b}) = IF a <= b THEN a ELSE b
  OBVIOUS
<1> DEFINE m == IF a <= b THEN a ELSE b
<1>1. m \in {a, b} /\ \A y \in {a, b} : m <= y
  OBVIOUS
<1>2. \A x \in {a, b} : (\A y \in {a, b} : x <= y) => x = m
  OBVIOUS
<1>3. Min({a, b}) \in {a, b} /\ \A y \in {a, b} : Min({a, b}) <= y
  BY <1>1 DEF Min
<1> QED BY <1>2, <1>3

\* appendBuffer takes all of the data or fills the segment, and takes some of it.
LEMMA FitsIs ==
  ASSUME NEW gathered \in Bytes, NEW data \in Bytes, Len(gathered) < MaxSegSize
  PROVE  /\ Fits(gathered, data) \in 0 .. Len(data)
         /\ Len(gathered) + Fits(gathered, data) <= MaxSegSize
         /\ Fits(gathered, data) = Len(data) \/ Len(gathered) + Fits(gathered, data) = MaxSegSize
         /\ data # <<>> => Fits(gathered, data) # 0
<1>1. Len(gathered) \in Nat /\ Len(data) \in Nat /\ MaxSegSize \in Nat
  BY SenderAssumption, LenProperties DEF Bytes
<1>2. data # <<>> => Len(data) # 0
  BY EmptySeq DEF Bytes
<1>3. MaxSegSize - Len(gathered) \in Nat
  BY <1>1
<1>4. Fits(gathered, data) = IF MaxSegSize - Len(gathered) <= Len(data)
                             THEN MaxSegSize - Len(gathered) ELSE Len(data)
  BY <1>1, <1>3, MinOf DEF Fits
<1> QED BY <1>1, <1>2, <1>3, <1>4

\* The buffer after appendBuffer.
Taken(gathered, data) == gathered \o SubSeq(data, 1, Fits(gathered, data))

\* A sequence cut in two: the parts, and that together they are it.
LEMMA SplitData ==
  ASSUME NEW data \in Bytes, NEW n \in 0 .. Len(data)
  PROVE  /\ SubSeq(data, 1, n) \in Bytes /\ Len(SubSeq(data, 1, n)) = n
         /\ SubSeq(data, n + 1, Len(data)) \in Bytes
         /\ n = Len(data) => SubSeq(data, n + 1, Len(data)) = <<>>
         /\ SubSeq(data, 1, n) \o SubSeq(data, n + 1, Len(data)) = data
         /\ ToSet(SubSeq(data, 1, n)) \subseteq ToSet(data)
         /\ \A j \in 1 .. Len(SubSeq(data, n + 1, Len(data))) :
              j + n \in 1 .. Len(data) /\ SubSeq(data, n + 1, Len(data))[j] = data[j + n]
<1>1. Len(data) \in Nat /\ n \in Nat /\ n <= Len(data) /\ DOMAIN data = 1 .. Len(data)
  BY LenProperties DEF Bytes
<1>2. \A i \in 1 .. Len(data) : data[i] \in Sends
  BY ElementOfSeq DEF Bytes
<1> DEFINE f == SubSeq(data, 1, n)
           l == SubSeq(data, n + 1, Len(data))
<1>3. f \in Seq(Sends) /\ Len(f) = n /\ \A i \in 1 .. n : f[i] = data[i]
  <2>1. \A i \in 1 .. n : data[i] \in Sends
    BY <1>1, <1>2
  <2>2. /\ SubSeq(data, 1, n) \in Seq(Sends)
        /\ Len(SubSeq(data, 1, n)) = IF 1 <= n THEN n - 1 + 1 ELSE 0
        /\ \A i \in 1 .. n - 1 + 1 : SubSeq(data, 1, n)[i] = data[1 + i - 1]
    BY <1>1, <2>1, SubSeqProperties
  <2> QED BY <1>1, <2>2
<1>4. /\ l \in Seq(Sends) /\ Len(l) = Len(data) - n
      /\ \A i \in 1 .. Len(data) - n : l[i] = data[i + n]
  <2>1. \A i \in n + 1 .. Len(data) : data[i] \in Sends
    BY <1>1, <1>2
  <2> DEFINE m == n + 1
  <2>2. m \in Int /\ Len(data) \in Int
    BY <1>1
  <2> HIDE DEF m
  <2>3. /\ SubSeq(data, m, Len(data)) \in Seq(Sends)
        /\ Len(SubSeq(data, m, Len(data))) = IF m <= Len(data) THEN Len(data) - m + 1 ELSE 0
        /\ \A i \in 1 .. Len(data) - m + 1 : SubSeq(data, m, Len(data))[i] = data[m + i - 1]
    BY <2>1, <2>2, SubSeqProperties DEF m
  <2>4. l = SubSeq(data, m, Len(data))
    BY DEF m
  <2>5. Len(l) = Len(data) - n
    <3>1. CASE n < Len(data)
      <4>1. m <= Len(data) /\ Len(data) - m + 1 = Len(data) - n
        BY <1>1, <3>1 DEF m
      <4> HIDE DEF l
      <4> QED BY <2>3, <2>4, <4>1
    <3>2. CASE n = Len(data)
      <4>1. ~(m <= Len(data)) /\ Len(data) - n = 0
        BY <1>1, <3>2 DEF m
      <4> HIDE DEF l
      <4> QED BY <2>3, <2>4, <4>1
    <3>3. n < Len(data) \/ n = Len(data)
      <4>1. \A a, b \in Nat : a <= b => a < b \/ a = b
        OBVIOUS
      <4>2. Len(data) \in Nat /\ n \in Nat /\ n <= Len(data)
        BY <1>1
      <4> HIDE DEF f, l
      <4> QED BY <4>1, <4>2
    <3> HIDE DEF l
    <3> QED BY <3>1, <3>2, <3>3
  <2>6. Len(data) - m + 1 = Len(data) - n /\ \A i \in Int : m + i - 1 = i + n
    BY <1>1 DEF m
  <2>7. ASSUME NEW i \in 1 .. Len(data) - n PROVE l[i] = data[i + n]
    <3>1. SubSeq(data, m, Len(data))[i] = data[m + i - 1]
      BY <2>3, <2>6
    <3> QED BY <3>1, <2>4, <2>6
  <2>8. l \in Seq(Sends)
    BY <2>3, <2>4
  <2> HIDE DEF l
  <2> QED BY <2>5, <2>7, <2>8
<1>5. f \o l = data
  <2>1. 1 \in 1 .. Len(data) + 1 /\ n \in 1 - 1 .. Len(data) /\ Len(data) \in n .. Len(data)
    BY <1>1
  <2>2. data \in Seq(Sends)
    BY DEF Bytes
  <2>3. f \o l = SubSeq(data, 1, Len(data))
    BY <2>1, <2>2, ConcatAdjacentSubSeq
  <2> QED BY <2>2, <2>3, SubSeqFull
<1>6. n = Len(data) => l = <<>>
  BY <1>1, SubSeqEmpty
<1>7. ToSet(f) \subseteq ToSet(data)
  <2>1. DOMAIN f = 1 .. n
    BY <1>3, LenProperties
  <2> QED BY <1>1, <1>3, <2>1 DEF ToSet
<1>8. \A j \in 1 .. Len(l) : j + n \in 1 .. Len(data) /\ l[j] = data[j + n]
  <2> HIDE DEF l
  <2> QED BY <1>1, <1>4
<1>9. f \in Bytes /\ l \in Bytes
  BY <1>3, <1>4 DEF Bytes
<1> QED BY <1>3, <1>5, <1>6, <1>7, <1>8, <1>9

\* What a gathering takes and leaves: nothing is lost, and only a full segment leaves bytes.
LEMMA TakenAndLeft ==
  ASSUME NEW gathered \in Bytes, NEW data \in Bytes, Len(gathered) < MaxSegSize
  PROVE  /\ Taken(gathered, data) \in Bytes /\ Leftover(gathered, data) \in Bytes
         /\ Taken(gathered, data) \o Leftover(gathered, data) = gathered \o data
         /\ Len(Taken(gathered, data)) <= MaxSegSize
         /\ Len(Taken(gathered, data)) = MaxSegSize \/ Leftover(gathered, data) = <<>>
         /\ ToSet(Taken(gathered, data)) \subseteq ToSet(gathered) \union ToSet(data)
         /\ \A j \in 1 .. Len(Leftover(gathered, data)) :
              \E m \in 1 .. Len(data) : Leftover(gathered, data)[j] = data[m]
         /\ data # <<>> => Taken(gathered, data) # <<>>
<1> DEFINE n == Fits(gathered, data)
           f == SubSeq(data, 1, n)
           l == SubSeq(data, n + 1, Len(data))
<1>1. /\ n \in 0 .. Len(data) /\ Len(gathered) + n <= MaxSegSize
      /\ n = Len(data) \/ Len(gathered) + n = MaxSegSize
      /\ data # <<>> => n # 0
  BY FitsIs
<1>2. Taken(gathered, data) = gathered \o f /\ Leftover(gathered, data) = l
  BY DEF Taken, Leftover
<1>3. Len(gathered) \in Nat /\ Len(data) \in Nat
  BY LenProperties DEF Bytes
<1> HIDE DEF n
<1>4. /\ f \in Bytes /\ Len(f) = n /\ l \in Bytes
      /\ n = Len(data) => l = <<>>
      /\ f \o l = data
      /\ ToSet(f) \subseteq ToSet(data)
      /\ \A j \in 1 .. Len(l) : j + n \in 1 .. Len(data) /\ l[j] = data[j + n]
  BY <1>1, SplitData
<1> HIDE DEF f, l
<1>5. gathered \o f \in Bytes /\ Len(gathered \o f) = Len(gathered) + n
  BY <1>4, BytesConcat
<1>6. (gathered \o f) \o l = gathered \o data
  BY <1>4, BytesAssociative
<1>7. ToSet(gathered \o f) \subseteq ToSet(gathered) \union ToSet(data)
  BY <1>4, ToSetConcat
<1>8. \A j \in 1 .. Len(l) : \E m \in 1 .. Len(data) : l[j] = data[m]
  BY <1>4
<1>9. n # 0 => gathered \o f # <<>>
  <2> SUFFICES ASSUME n # 0, gathered \o f = <<>> PROVE FALSE
    OBVIOUS
  <2>1. Len(gathered \o f) = 0
    OBVIOUS
  <2> QED BY <2>1, <1>1, <1>3, <1>5
<1> QED BY <1>1, <1>2, <1>3, <1>4, <1>5, <1>6, <1>7, <1>8, <1>9

\* What a gathering does to the state of the loop.
LEMMA GatherStep ==
  ASSUME NEW gathered \in Bytes, NEW data \in Bytes, Len(gathered) < MaxSegSize,
         data # <<>>, Gather(gathered, data), requests \in 0 .. MaxBufferedRequests
  PROVE  /\ segment' \in Bytes /\ buffer' \in Bytes /\ rest' \in Bytes
         /\ segment' \o buffer' \o rest' = gathered \o data
         /\ Len(buffer') < MaxSegSize /\ Len(segment') <= MaxSegSize
         /\ requests' \in 0 .. MaxBufferedRequests /\ flusher' = "none"
         /\ \/ loop' = "sending" /\ segment' # <<>> /\ buffer' = <<>>
            \/ loop' = "waiting" /\ segment' = <<>> /\ buffer' # <<>> /\ rest' = <<>>
         /\ ToSet(segment') \union ToSet(buffer') \subseteq ToSet(gathered) \union ToSet(data)
         /\ \A j \in 1 .. Len(rest') : \E m \in 1 .. Len(data) : rest'[j] = data[m]
<1> DEFINE w == Taken(gathered, data)
           l == Leftover(gathered, data)
<1>1. /\ w \in Bytes /\ l \in Bytes /\ w \o l = gathered \o data /\ Len(w) <= MaxSegSize
      /\ Len(w) = MaxSegSize \/ l = <<>>
      /\ ToSet(w) \subseteq ToSet(gathered) \union ToSet(data)
      /\ \A j \in 1 .. Len(l) : \E m \in 1 .. Len(data) : l[j] = data[m]
      /\ w # <<>>
  BY TakenAndLeft
<1>2. /\ rest' = l
      /\ IF Len(w) = MaxSegSize
         THEN Export(w, "none")
         ELSE /\ buffer' = w /\ loop' = "waiting" /\ segment' = <<>> /\ flusher' = "none"
              /\ UNCHANGED requests
  BY DEF Gather, Taken
<1>3. <<>> \in Bytes /\ ToSet(<<>>) = {} /\ Len(<<>>) = 0
  BY EmptySeq DEF Bytes, ToSet
<1>4. MaxSegSize \in Nat \ {0} /\ MaxBufferedRequests \in Nat /\ Len(w) \in Nat
  BY <1>1, SenderAssumption, LenProperties DEF Bytes
<1>5. w \o <<>> = w /\ <<>> \o w = w
  BY <1>1, ConcatEmptySeq DEF Bytes
<1> HIDE DEF w, l
<1>6. CASE Len(w) = MaxSegSize
  <2>1. loop' = "sending" /\ segment' = w /\ flusher' = "none" /\ buffer' = <<>> /\ requests' = 0
    BY <1>2, <1>6 DEF Export
  <2>2. segment' \o buffer' \o rest' = gathered \o data
    BY <1>1, <1>2, <1>5, <2>1
  <2> QED BY <1>1, <1>2, <1>3, <1>4, <1>6, <2>1, <2>2
<1>7. CASE Len(w) # MaxSegSize
  <2>1. segment' \o buffer' \o rest' = gathered \o data
    BY <1>1, <1>2, <1>5, <1>7
  <2>2. Len(w) < MaxSegSize
    BY <1>1, <1>4, <1>7
  <2> QED BY <1>1, <1>2, <1>3, <1>4, <1>7, <2>1, <2>2
<1> QED BY <1>6, <1>7

\* The next send is one of which nothing has been heard.
LEMMA NextSendIs ==
  ASSUME MoreSends PROVE NextSend \in Sends /\ promise[NextSend] = "none"
<1> DEFINE T == {i \in Sends : promise[i] = "none"}
<1>1. T # {} /\ T \subseteq Nat /\ MaxSends \in Nat
  BY SenderAssumption DEF MoreSends, Sends
<1>2. PICK m \in T : \A n \in T : m <= n
  BY <1>1, LeastOf
<1>3. \A j \in 1 .. m - 1 : promise[j] # "none"
  <2> SUFFICES ASSUME NEW j \in 1 .. m - 1, promise[j] = "none" PROVE FALSE
    OBVIOUS
  <2>1. m \in 1 .. MaxSends /\ j \in 1 .. MaxSends /\ j < m
    BY <1>1, <1>2 DEF Sends
  <2>2. j \in T
    BY <2>1 DEF Sends
  <2> QED BY <1>1, <1>2, <2>1, <2>2
<1>4. \E i \in Sends : promise[i] = "none" /\ \A j \in 1 .. i - 1 : promise[j] # "none"
  BY <1>2, <1>3
<1> QED BY <1>4 DEF NextSend

----------------------------------------------------------------------------
(* The inductive invariant.                                                 *)

\* The bytes the loop has in hand.
Pipeline == segment \o buffer \o rest
\* The sends whose data the queue holds.
Held(q) == {q[k].data[1] : k \in {j \in 1 .. Len(q) : q[j].kind = "data"}}
\* An item of data is not empty and of one send; the others carry none.
Whole(q) ==
  \A k \in 1 .. Len(q) :
    IF q[k].kind = "data"
    THEN q[k].data # <<>> /\ \A j \in 1 .. Len(q[k].data) : q[k].data[j] = q[k].data[1]
    ELSE q[k].data = <<>>
\* No send has two items.
Distinct(q) ==
  \A k, l \in 1 .. Len(q) :
    k # l /\ q[k].kind = "data" /\ q[l].kind = "data" => q[k].data[1] # q[l].data[1]

\* Only a busy loop has bytes left to gather, and what it sends for a flush leaves none.
LoopState ==
  /\ loop # "sending" => rest = <<>> /\ flusher = "none"
  /\ loop = "sending" => buffer = <<>>
  /\ flusher # "none" => rest = <<>>
\* Where close() is. Until its flush is fetched that is the last item queued; once it is
\* done the queue and the buffer are empty, and nothing can enter them again.
ClosePhase ==
  /\ closing = "no" => ~closed /\ flusher # "close" /\ \A k \in 1 .. Len(queue) : queue[k].kind # "close"
  /\ closing # "no" => closed /\ ~timer
  /\ closing = "flushing" =>
       IF queue = <<>> THEN flusher = "close"
       ELSE /\ flusher # "close"
            /\ \A k \in 1 .. Len(queue) : queue[k].kind = "close" <=> k = Len(queue)
  /\ closing \in {"flushed", "done"} => queue = <<>> /\ buffer = <<>> /\ loop # "sending"
  /\ loop = "ended" <=> closing = "done"
\* Without a timer all that is queued is followed by a flush.
FlushDue ==
  closing = "no" /\ ~timer =>
     IF queue = <<>> THEN buffer = <<>> /\ rest = <<>> ELSE queue[Len(queue)].kind = "flush"
\* The sends in the queue are pending and not yet among the callbacks.
QueueItems ==
  /\ Whole(queue) /\ Distinct(queue)
  /\ \A i \in Held(queue) : promise[i] = "pending" /\ i \notin callbacks
\* The loop's bytes are of the sends among the callbacks; what is left to gather is of
\* one of them; none of them is resolved, and a send that lost a segment is rejected.
CallbackState ==
  /\ ToSet(segment) \subseteq callbacks /\ ToSet(buffer) \subseteq callbacks
  /\ rest # <<>> => rest[1] \in callbacks
  /\ \A j \in 1 .. Len(rest) : rest[j] = rest[1]
  /\ \A i \in callbacks : promise[i] \in {"pending", "rejected"}
  /\ \A i \in lost : promise[i] = "rejected"
\* A pending send is queued or among the callbacks, and these have bytes in the loop.
Promised ==
  /\ callbacks # {} => segment # <<>> \/ buffer # <<>>
  /\ \A i \in Sends : promise[i] = "pending" => i \in callbacks \union Held(queue)
\* The inductive invariant.
SenderInv ==
  TypeOK /\ LoopState /\ ClosePhase /\ FlushDue /\ QueueItems /\ CallbackState /\ Promised
  /\ NothingLostOrReordered

----------------------------------------------------------------------------
(* The queue.                                                               *)

\* What appending an item does to the queue and to what is derived from it.
LEMMA Enqueued ==
  ASSUME NEW q \in Seq(QItem), NEW it \in QItem
  PROVE  /\ Append(q, it) \in Seq(QItem) /\ Append(q, it) # <<>>
         /\ Len(q) \in Nat /\ Len(Append(q, it)) = Len(q) + 1
         /\ \A k \in 1 .. Len(q) : Append(q, it)[k] = q[k]
         /\ Append(q, it)[Len(q) + 1] = it
         /\ Waiting(Append(q, it)) = Waiting(q) \o it.data
         /\ Held(Append(q, it)) = IF it.kind = "data" THEN Held(q) \union {it.data[1]} ELSE Held(q)
<1> DEFINE a == Append(q, it)
           n == Len(q)
<1>1. /\ a \in Seq(QItem) /\ a # <<>> /\ n \in Nat /\ Len(a) = n + 1 /\ a[n + 1] = it
      /\ \A k \in 1 .. n : a[k] = q[k]
  BY AppendProperties
<1>2. Waiting(a) = Waiting(q) \o it.data
  BY WaitingLast
<1> HIDE DEF a, n
<1>3. 1 .. n + 1 = 1 .. n \union {n + 1}
  BY <1>1
<1>4. Held(a) = IF it.kind = "data" THEN Held(q) \union {it.data[1]} ELSE Held(q)
  <2>1. \A x : x \in Held(a) <=> \E k \in 1 .. n + 1 : a[k].kind = "data" /\ x = a[k].data[1]
    BY <1>1 DEF Held
  <2>2. \A x : x \in Held(q) <=> \E k \in 1 .. n : q[k].kind = "data" /\ x = q[k].data[1]
    BY DEF Held, n
  <2>3. \A x : x \in Held(a) <=> x \in Held(q) \/ (it.kind = "data" /\ x = it.data[1])
    BY <1>1, <1>3, <2>1, <2>2
  <2> QED BY <2>3
<1> QED BY <1>1, <1>2, <1>4 DEF a, n

\* What taking the first item does to them.
LEMMA Dequeued ==
  ASSUME NEW q \in Seq(QItem), q # <<>>
  PROVE  /\ Tail(q) \in Seq(QItem) /\ Head(q) \in QItem /\ Head(q) = q[1]
         /\ Len(q) \in Nat \ {0} /\ Len(Tail(q)) = Len(q) - 1
         /\ \A k \in 1 .. Len(Tail(q)) : Tail(q)[k] = q[k + 1]
         /\ Waiting(q) = Head(q).data \o Waiting(Tail(q))
         /\ Tail(q) = <<>> <=> Len(q) = 1
         /\ Held(q) = IF Head(q).kind = "data" THEN Held(Tail(q)) \union {Head(q).data[1]} ELSE Held(Tail(q))
         /\ Distinct(q) => Distinct(Tail(q))
         /\ Distinct(q) /\ Head(q).kind = "data" => Head(q).data[1] \notin Held(Tail(q))
         /\ Whole(q) => Whole(Tail(q))
<1> DEFINE t == Tail(q)
           n == Len(q)
<1>1. /\ t \in Seq(QItem) /\ Head(q) \in QItem /\ Head(q) = q[1] /\ n \in Nat \ {0} /\ Len(t) = n - 1
      /\ \A k \in 1 .. n - 1 : t[k] = q[k + 1]
  BY HeadTailProperties, EmptySeq
<1>2. Waiting(q) = Head(q).data \o Waiting(t)
  BY WaitingHead
<1>3. t = <<>> <=> n = 1
  BY <1>1, EmptySeq
<1> HIDE DEF t, n
<1>4. \A x : x \in Held(t) <=> \E k \in 1 .. n - 1 : q[k + 1].kind = "data" /\ x = q[k + 1].data[1]
  <2>1. \A x : x \in Held(t) <=> \E k \in 1 .. n - 1 : t[k].kind = "data" /\ x = t[k].data[1]
    BY <1>1 DEF Held
  <2>2. \A k \in 1 .. n - 1 : t[k].kind = q[k + 1].kind /\ t[k].data[1] = q[k + 1].data[1]
    BY <1>1
  <2> QED BY ONLY <2>1, <2>2
<1>5. \A x : x \in Held(q) <=> \E k \in 1 .. n : q[k].kind = "data" /\ x = q[k].data[1]
  BY DEF Held, n
<1>6. Held(q) = IF Head(q).kind = "data" THEN Held(t) \union {Head(q).data[1]} ELSE Held(t)
  <2>1. ASSUME NEW x \in Held(q) PROVE x \in Held(t) \/ (Head(q).kind = "data" /\ x = Head(q).data[1])
    <3>1. PICK k \in 1 .. n : q[k].kind = "data" /\ x = q[k].data[1]
      BY <1>5
    <3>2. k = 1 \/ (k - 1 \in 1 .. n - 1 /\ k - 1 + 1 = k)
      BY <1>1
    <3> QED BY <1>1, <1>4, <3>1, <3>2
  <2>2. ASSUME NEW x \in Held(t) PROVE x \in Held(q)
    <3>1. PICK k \in 1 .. n - 1 : q[k + 1].kind = "data" /\ x = q[k + 1].data[1]
      BY <1>4
    <3>2. k + 1 \in 1 .. n
      BY <1>1
    <3> QED BY <1>5, <3>1, <3>2
  <2>3. Head(q).kind = "data" => Head(q).data[1] \in Held(q)
    BY <1>1, <1>5
  <2> QED BY <2>1, <2>2, <2>3
<1>7. \A k \in 1 .. n - 1 : k + 1 \in 1 .. n /\ k + 1 # 1
  BY <1>1
<1>8. Distinct(q) => Distinct(t)
  <2> SUFFICES ASSUME Distinct(q), NEW k \in 1 .. n - 1, NEW l \in 1 .. n - 1, k # l,
                      t[k].kind = "data", t[l].kind = "data"
               PROVE  t[k].data[1] # t[l].data[1]
    BY <1>1 DEF Distinct
  <2>1. k + 1 \in 1 .. n /\ l + 1 \in 1 .. n /\ k + 1 # l + 1 /\ t[k] = q[k + 1] /\ t[l] = q[l + 1]
    BY <1>1
  <2>2. q[k + 1].data[1] # q[l + 1].data[1]
    BY <2>1 DEF Distinct, n
  <2> QED BY <2>1, <2>2
<1>9. Distinct(q) /\ Head(q).kind = "data" => Head(q).data[1] \notin Held(t)
  <2> SUFFICES ASSUME Distinct(q), q[1].kind = "data", NEW k \in 1 .. n - 1, q[k + 1].kind = "data"
               PROVE  q[k + 1].data[1] # q[1].data[1]
    BY <1>1, <1>4
  <2>1. k + 1 \in 1 .. n /\ 1 \in 1 .. n /\ k + 1 # 1
    BY <1>1
  <2> QED BY <2>1 DEF Distinct, n
<1>10. Whole(q) => Whole(t)
  BY <1>1, <1>7 DEF Whole, n
<1> QED BY <1>1, <1>2, <1>3, <1>6, <1>8, <1>9, <1>10 DEF t, n

\* Appending keeps the items whole and of distinct sends.
LEMMA EnqueuedItems ==
  ASSUME NEW q \in Seq(QItem), NEW it \in QItem, Whole(q), Distinct(q),
         IF it.kind = "data"
         THEN /\ it.data # <<>> /\ \A j \in 1 .. Len(it.data) : it.data[j] = it.data[1]
              /\ it.data[1] \notin Held(q)
         ELSE it.data = <<>>
  PROVE  Whole(Append(q, it)) /\ Distinct(Append(q, it))
<1> DEFINE a == Append(q, it)
           n == Len(q)
<1>1. n \in Nat /\ Len(a) = n + 1 /\ a[n + 1] = it /\ \A k \in 1 .. n : a[k] = q[k]
  BY Enqueued
<1> HIDE DEF a, n
<1>2. ASSUME NEW k \in 1 .. n + 1 PROVE k = n + 1 \/ k \in 1 .. n
  BY <1>1
<1>3. Whole(a)
  BY <1>1, <1>2 DEF Whole, n
<1>4. \A k \in 1 .. n : it.kind = "data" /\ q[k].kind = "data" => q[k].data[1] # it.data[1]
  BY DEF Held, n
<1>5. ASSUME NEW k \in 1 .. n + 1, NEW l \in 1 .. n + 1, k # l, a[k].kind = "data", a[l].kind = "data"
      PROVE  a[k].data[1] # a[l].data[1]
  <2>1. CASE k \in 1 .. n /\ l \in 1 .. n
    <3>1. q[k].data[1] # q[l].data[1]
      BY <1>1, <1>5, <2>1 DEF Distinct, n
    <3> QED BY <1>1, <2>1, <3>1
  <2>2. CASE k = n + 1 /\ l \in 1 .. n
    BY <1>1, <1>4, <1>5, <2>2
  <2>3. CASE k \in 1 .. n /\ l = n + 1
    BY <1>1, <1>4, <1>5, <2>3
  <2> QED BY <1>2, <1>5, <2>1, <2>2, <2>3
<1>6. Distinct(a)
  BY <1>1, <1>5 DEF Distinct
<1> QED BY <1>3, <1>6 DEF a

\* A flush item has no data.
LEMMA Flushes == Flush \in QItem /\ Flush.kind = "flush" /\ Flush.data = <<>>
  BY EmptySeq DEF Flush, Item, QItem, Bytes

\* Nor has the item of close().
LEMMA Closes ==
  LET it == Item("close", <<>>) IN it \in QItem /\ it.kind = "close" /\ it.data = <<>>
  BY EmptySeq DEF Item, QItem, Bytes

\* The queue's type, by the name used here.
LEMMA QueueType == ASSUME TypeOK PROVE queue \in Seq(QItem)
  BY DEF TypeOK, QItem

\* The empty sequence is neutral.
LEMMA BytesNoneAtAll == \A s \in Bytes : s \o <<>> = s /\ <<>> \o s = s
  BY ConcatEmptySeq DEF Bytes

\* Appending an item without data changes neither the waiting bytes nor the held sends.
LEMMA EnqueuedFlush ==
  ASSUME NEW q \in Seq(QItem), NEW it \in QItem, it.kind # "data", it.data = <<>>
  PROVE  /\ Append(q, it) \in Seq(QItem) /\ Append(q, it) # <<>>
         /\ Len(q) \in Nat /\ Len(Append(q, it)) = Len(q) + 1
         /\ \A k \in 1 .. Len(q) : Append(q, it)[k] = q[k]
         /\ Append(q, it)[Len(q) + 1] = it
         /\ Waiting(Append(q, it)) = Waiting(q)
         /\ Held(Append(q, it)) = Held(q)
         /\ Whole(q) /\ Distinct(q) => Whole(Append(q, it)) /\ Distinct(Append(q, it))
<1>1. /\ Append(q, it) \in Seq(QItem) /\ Append(q, it) # <<>>
      /\ Len(q) \in Nat /\ Len(Append(q, it)) = Len(q) + 1
      /\ \A k \in 1 .. Len(q) : Append(q, it)[k] = q[k]
      /\ Append(q, it)[Len(q) + 1] = it
  BY Enqueued
<1>2. Waiting(Append(q, it)) = Waiting(q) \o it.data
  BY Enqueued
<1>3. Waiting(q) \o it.data = Waiting(q)
  BY WaitingType, BytesNoneAtAll
<1>4. Held(Append(q, it)) = Held(q)
  BY Enqueued
<1>5. Whole(q) /\ Distinct(q) => Whole(Append(q, it)) /\ Distinct(Append(q, it))
  BY EnqueuedItems
<1> QED BY <1>1, <1>2, <1>3, <1>4, <1>5

\* The bytes that left the queue, grouped as they are given out and in the loop's hands.
LEMMA GivenType ==
  TypeOK => /\ handed \o segment \o buffer \o rest \in Bytes
            /\ handed \o segment \o buffer \o rest = handed \o Pipeline
            /\ Pipeline \in Bytes
<1> SUFFICES ASSUME TypeOK
             PROVE  /\ handed \o segment \o buffer \o rest \in Bytes
                    /\ handed \o segment \o buffer \o rest = handed \o Pipeline
                    /\ Pipeline \in Bytes
  OBVIOUS
<1>1. handed \in Bytes /\ segment \in Bytes /\ buffer \in Bytes /\ rest \in Bytes
  BY DEF TypeOK
<1>2. handed \o segment \in Bytes /\ segment \o buffer \in Bytes /\ (handed \o segment) \o buffer \in Bytes
  BY <1>1, BytesConcat
<1>3. (handed \o segment) \o buffer = handed \o (segment \o buffer)
  BY <1>1, BytesAssociative
<1>4. (handed \o (segment \o buffer)) \o rest = handed \o ((segment \o buffer) \o rest)
  <2> DEFINE t == segment \o buffer
  <2>1. t \in Bytes
    BY <1>2
  <2> HIDE DEF t
  <2>2. (handed \o t) \o rest = handed \o (t \o rest)
    BY <1>1, <2>1, BytesAssociative
  <2> QED BY <2>2 DEF t
<1> QED BY <1>1, <1>2, <1>3, <1>4, BytesConcat DEF Pipeline

\* NothingLostOrReordered, with the bytes in the loop's hands taken together.
Regrouped == accepted = (handed \o Pipeline) \o Waiting(queue)

\* NothingLostOrReordered, with the loop's bytes grouped.
LEMMA RegroupIs == TypeOK => (NothingLostOrReordered <=> Regrouped)
  BY GivenType DEF NothingLostOrReordered, Regrouped

----------------------------------------------------------------------------
(* The steps of the callers.                                                *)

\* send() keeps the invariant: the bytes go to the end of the queue, of a send that has none there.
LEMMA SendInv ==
  ASSUME SenderInv, Send
  PROVE  SenderInv'
<1>1. PICK n \in 1 .. MaxLength :
        LET data == [j \in 1 .. n |-> NextSend]
        IN  /\ accepted' = accepted \o data
            /\ queue' = Append(queue, Item("data", data)) \o IF SendFlushes THEN <<Flush>> ELSE <<>>
  BY DEF Send
<1> DEFINE data == [j \in 1 .. n |-> NextSend]
           it == Item("data", data)
           q == Append(queue, it)
<1>2. /\ MoreSends /\ ~closed
      /\ promise' = [promise EXCEPT ![NextSend] = "pending"]
      /\ requests' = (IF SendFlushes THEN 0 ELSE requests + 1)
      /\ timer' = ~SendFlushes
      /\ UNCHANGED <<buffer, closed, closing, loop, segment, callbacks, rest, flusher, handed, lost>>
  BY DEF Send, ArmTimer, loopVars
<1>3. NextSend \in Sends /\ promise[NextSend] = "none"
  BY <1>2, NextSendIs
<1>4. n \in Nat \ {0}
  BY SenderAssumption
<1>5. /\ data \in Bytes /\ data # <<>> /\ Len(data) = n /\ data[1] = NextSend
      /\ \A j \in 1 .. Len(data) : data[j] = data[1]
  BY <1>3, <1>4 DEF Bytes
<1>6. accepted' = accepted \o data /\ queue' = q \o IF SendFlushes THEN <<Flush>> ELSE <<>>
  BY <1>1
<1> HIDE DEF data
<1>7. it \in QItem /\ it.kind = "data" /\ it.data = data
  BY <1>5 DEF Item, QItem
<1> HIDE DEF it
<1>8. /\ TypeOK /\ LoopState /\ ClosePhase /\ FlushDue /\ QueueItems /\ CallbackState /\ Promised
      /\ NothingLostOrReordered /\ queue \in Seq(QItem)
  BY QueueType DEF SenderInv
<1>9. NextSend \notin Held(queue) /\ NextSend \notin callbacks /\ NextSend \notin lost
  BY <1>3, <1>8 DEF QueueItems, CallbackState
<1>10. /\ q \in Seq(QItem) /\ q # <<>> /\ Len(queue) \in Nat /\ Len(q) = Len(queue) + 1
       /\ \A k \in 1 .. Len(queue) : q[k] = queue[k]
       /\ q[Len(queue) + 1] = it
       /\ Waiting(q) = Waiting(queue) \o data
       /\ Held(q) = Held(queue) \union {NextSend}
  BY <1>5, <1>7, <1>8, Enqueued
<1>11. Whole(q) /\ Distinct(q)
  BY <1>5, <1>7, <1>8, <1>9, EnqueuedItems DEF QueueItems
<1>12. queue' = IF SendFlushes THEN Append(q, Flush) ELSE q
  BY <1>6, <1>10, Flushes, AppendIsConcat, ConcatEmptySeq
<1>13. \A k \in 1 .. Len(q) : closing = "no" => q[k].kind # "close"
  BY <1>7, <1>8, <1>10 DEF ClosePhase
<1> HIDE DEF q
<1>14. /\ Append(q, Flush) \in Seq(QItem) /\ Append(q, Flush) # <<>>
       /\ Len(q) \in Nat /\ Len(Append(q, Flush)) = Len(q) + 1
       /\ \A k \in 1 .. Len(q) : Append(q, Flush)[k] = q[k]
       /\ Append(q, Flush)[Len(q) + 1] = Flush
       /\ Waiting(Append(q, Flush)) = Waiting(q)
       /\ Held(Append(q, Flush)) = Held(q)
       /\ Whole(Append(q, Flush)) /\ Distinct(Append(q, Flush))
  BY <1>10, <1>11, Flushes, EnqueuedFlush
<1>16. Waiting(q) \in Bytes /\ Waiting(queue) \in Bytes
  BY <1>8, <1>10, WaitingType
<1>17. /\ queue' \in Seq(QItem) /\ queue' # <<>> /\ Waiting(queue') = Waiting(queue) \o data
       /\ Held(queue') = Held(queue) \union {NextSend} /\ Whole(queue') /\ Distinct(queue')
       /\ SendFlushes => queue'[Len(queue')].kind = "flush"
       /\ closing = "no" => \A k \in 1 .. Len(queue') : queue'[k].kind # "close"
  <2>1. CASE SendFlushes
    <3>1. \A k \in 1 .. Len(q) + 1 : k = Len(q) + 1 \/ k \in 1 .. Len(q)
      BY <1>14
    <3>2. closing = "no" => \A k \in 1 .. Len(q) + 1 : Append(q, Flush)[k].kind # "close"
      BY <1>13, <1>14, <3>1, Flushes
    <3> QED BY <1>10, <1>12, <1>14, <2>1, <3>2, Flushes
  <2>2. CASE ~SendFlushes
    BY <1>10, <1>11, <1>12, <1>13, <2>2
  <2> QED BY <2>1, <2>2
<1>18. TypeOK'
  <2>1. promise' \in [Sends -> {"none", "pending", "resolved", "rejected"}]
    BY <1>2, <1>3, <1>8 DEF TypeOK
  <2>2. accepted' \in Bytes
    BY <1>5, <1>6, <1>8, BytesConcat DEF TypeOK
  <2>3. requests' \in 0 .. MaxBufferedRequests
    BY <1>2, <1>8, SenderAssumption DEF TypeOK, SendFlushes
  <2> QED BY <1>2, <1>8, <1>17, <2>1, <2>2, <2>3 DEF TypeOK, QItem, SendFlushes
<1>19. LoopState'
  BY <1>2, <1>8 DEF LoopState
<1>20. ClosePhase' /\ FlushDue'
  BY <1>2, <1>8, <1>17 DEF ClosePhase, FlushDue
<1>21. QueueItems'
  BY <1>2, <1>3, <1>8, <1>9, <1>17 DEF QueueItems, TypeOK
<1>22. CallbackState'
  BY <1>2, <1>3, <1>8, <1>9 DEF CallbackState, TypeOK
<1>23. Promised'
  BY <1>2, <1>3, <1>8, <1>17 DEF Promised, TypeOK
<1>24. NothingLostOrReordered'
  <2> DEFINE g == handed \o segment \o buffer \o rest
  <2>1. g \in Bytes /\ accepted = g \o Waiting(queue)
    BY <1>8, GivenType DEF NothingLostOrReordered
  <2>2. g' = g
    BY <1>2
  <2> HIDE DEF g
  <2>3. (g \o Waiting(queue)) \o data = g \o (Waiting(queue) \o data)
    BY <1>5, <1>16, <2>1, BytesAssociative
  <2>4. accepted' = g' \o Waiting(queue')
    BY <1>6, <1>17, <2>1, <2>2, <2>3
  <2> QED BY <2>4 DEF NothingLostOrReordered, g
<1> QED BY <1>18, <1>19, <1>20, <1>21, <1>22, <1>23, <1>24 DEF SenderInv

\* A send after close() is rejected and enters nothing.
LEMMA SendRefusedInv ==
  ASSUME SenderInv, SendRefused PROVE SenderInv'
<1>1. /\ MoreSends
      /\ promise' = [promise EXCEPT ![NextSend] = "rejected"]
      /\ UNCHANGED <<accepted, queue, buffer, requests, timer, closed, closing, loop, segment,
                     callbacks, rest, flusher, handed, lost>>
  BY DEF SendRefused, loopVars
<1>2. NextSend \in Sends /\ promise[NextSend] = "none"
  BY <1>1, NextSendIs
<1>3. /\ TypeOK /\ LoopState /\ ClosePhase /\ FlushDue /\ QueueItems /\ CallbackState /\ Promised
      /\ NothingLostOrReordered
  BY DEF SenderInv
<1>4. NextSend \notin Held(queue) /\ NextSend \notin callbacks
  BY <1>2, <1>3 DEF QueueItems, CallbackState
<1>5. TypeOK'
  BY <1>1, <1>2, <1>3 DEF TypeOK
<1>6. LoopState' /\ ClosePhase' /\ FlushDue' /\ NothingLostOrReordered'
  BY <1>1, <1>3 DEF LoopState, ClosePhase, FlushDue, NothingLostOrReordered
<1>7. QueueItems'
  BY <1>1, <1>2, <1>3, <1>4 DEF QueueItems, TypeOK
<1>8. CallbackState'
  BY <1>1, <1>2, <1>3, <1>4 DEF CallbackState, TypeOK
<1>9. Promised'
  BY <1>1, <1>2, <1>3 DEF Promised, TypeOK
<1> QED BY <1>3, <1>5, <1>6, <1>7, <1>8, <1>9 DEF SenderInv

\* The timer queues a flush; it is off once close() was called.
LEMMA TimerFiresInv ==
  ASSUME SenderInv, TimerFires PROVE SenderInv'
<1>1. /\ timer /\ timer' = FALSE /\ requests' = 0 /\ queue' = Append(queue, Flush)
      /\ UNCHANGED <<promise, accepted, buffer, closed, closing, loop, segment,
                     callbacks, rest, flusher, handed, lost>>
  BY DEF TimerFires, loopVars
<1>2. /\ TypeOK /\ LoopState /\ ClosePhase /\ FlushDue /\ QueueItems /\ CallbackState /\ Promised
      /\ NothingLostOrReordered /\ queue \in Seq(QItem)
  BY QueueType DEF SenderInv
<1>3. closing = "no"
  BY <1>1, <1>2 DEF ClosePhase
<1>4. /\ queue' \in Seq(QItem) /\ queue' # <<>> /\ Waiting(queue') = Waiting(queue)
      /\ Held(queue') = Held(queue) /\ Whole(queue') /\ Distinct(queue')
      /\ Len(queue) \in Nat /\ Len(queue') = Len(queue) + 1 /\ queue'[Len(queue) + 1] = Flush
      /\ \A k \in 1 .. Len(queue) : queue'[k] = queue[k]
  BY <1>1, <1>2, Flushes, EnqueuedFlush DEF QueueItems
<1>5. \A k \in 1 .. Len(queue) + 1 : k = Len(queue) + 1 \/ k \in 1 .. Len(queue)
  BY <1>4
<1>6. \A k \in 1 .. Len(queue') : queue'[k].kind # "close"
  BY <1>2, <1>3, <1>4, <1>5, Flushes DEF ClosePhase
<1>7. TypeOK'
  <2>1. requests' \in 0 .. MaxBufferedRequests
    BY <1>1, SenderAssumption
  <2>3. timer' \in BOOLEAN
    BY <1>1
  <2>2. queue' \in Seq([kind : {"data", "flush", "close"}, data : Bytes])
    BY <1>4 DEF QItem
  <2> QED BY <1>1, <1>2, <2>1, <2>2, <2>3 DEF TypeOK
<1>8. LoopState' /\ ClosePhase' /\ FlushDue'
  BY <1>1, <1>2, <1>3, <1>4, <1>6, Flushes DEF LoopState, ClosePhase, FlushDue
<1>9. QueueItems' /\ CallbackState' /\ Promised'
  BY <1>1, <1>2, <1>4 DEF QueueItems, CallbackState, Promised
<1>10. NothingLostOrReordered'
  BY <1>1, <1>2, <1>4 DEF NothingLostOrReordered
<1> QED BY <1>7, <1>8, <1>9, <1>10 DEF SenderInv

\* close() queues its flush as the last item there will be.
LEMMA CloseInv ==
  ASSUME SenderInv, Close PROVE SenderInv'
<1> DEFINE it == Item("close", <<>>)
<1>1. /\ ~closed /\ closed' = TRUE /\ timer' = FALSE /\ queue' = queue \o <<it>> /\ closing' = "flushing"
      /\ UNCHANGED <<promise, accepted, buffer, requests, loop, segment,
                     callbacks, rest, flusher, handed, lost>>
  <2>1. CloseFlush # <<>> /\ CloseFlush = <<it>>
    BY DEF CloseFlush
  <2> QED BY <2>1 DEF Close, loopVars
<1>2. /\ TypeOK /\ LoopState /\ ClosePhase /\ FlushDue /\ QueueItems /\ CallbackState /\ Promised
      /\ NothingLostOrReordered /\ queue \in Seq(QItem)
  BY QueueType DEF SenderInv
<1>3. it \in QItem /\ it.kind = "close" /\ it.data = <<>>
  BY Closes
<1> HIDE DEF it
<1>4. closing = "no"
  BY <1>1, <1>2 DEF ClosePhase
<1>5. queue' = Append(queue, it)
  BY <1>1, <1>2, <1>3, AppendIsConcat
<1>6. /\ queue' \in Seq(QItem) /\ queue' # <<>> /\ Waiting(queue') = Waiting(queue)
      /\ Held(queue') = Held(queue) /\ Whole(queue') /\ Distinct(queue')
      /\ Len(queue) \in Nat /\ Len(queue') = Len(queue) + 1 /\ queue'[Len(queue) + 1] = it
      /\ \A k \in 1 .. Len(queue) : queue'[k] = queue[k]
  BY <1>2, <1>3, <1>5, EnqueuedFlush DEF QueueItems
<1>7. \A k \in 1 .. Len(queue) + 1 : k = Len(queue) + 1 \/ (k \in 1 .. Len(queue) /\ k # Len(queue) + 1)
  BY <1>6
<1>8. \A k \in 1 .. Len(queue') : queue'[k].kind = "close" <=> k = Len(queue')
  BY <1>2, <1>3, <1>4, <1>6, <1>7 DEF ClosePhase
<1>9. TypeOK'
  BY <1>1, <1>2, <1>6 DEF TypeOK, QItem
<1>10. LoopState' /\ ClosePhase' /\ FlushDue'
  BY <1>1, <1>2, <1>4, <1>6, <1>8 DEF LoopState, ClosePhase, FlushDue
<1>11. QueueItems' /\ CallbackState' /\ Promised'
  BY <1>1, <1>2, <1>6 DEF QueueItems, CallbackState, Promised
<1>12. NothingLostOrReordered'
  BY <1>1, <1>2, <1>6 DEF NothingLostOrReordered
<1> QED BY <1>9, <1>10, <1>11, <1>12 DEF SenderInv

\* When close() goes on, the queue and the buffer are empty: the reset drops nothing.
LEMMA CloseEndsInv ==
  ASSUME SenderInv, CloseEnds PROVE SenderInv'
<1>1. /\ TypeOK /\ LoopState /\ ClosePhase /\ FlushDue /\ QueueItems /\ CallbackState /\ Promised
      /\ NothingLostOrReordered
  BY DEF SenderInv
<1>2. /\ closing = "flushed" /\ closing' = "done" /\ buffer' = <<>> /\ requests' = 0
      /\ loop' = (IF queue = <<>> /\ loop = "waiting" THEN "ended" ELSE loop)
      /\ UNCHANGED <<promise, accepted, queue, timer, closed, segment, callbacks, rest, flusher, handed, lost>>
  BY DEF CloseEnds
<1>3. queue = <<>> /\ buffer = <<>> /\ loop = "waiting" /\ closed /\ ~timer /\ segment = <<>>
  BY <1>1, <1>2 DEF ClosePhase, TypeOK
<1>4. buffer' = buffer /\ loop' = "ended"
  BY <1>2, <1>3
<1>5. TypeOK'
  BY <1>1, <1>2, <1>3, <1>4, SenderAssumption DEF TypeOK
<1>6. LoopState' /\ ClosePhase' /\ FlushDue'
  BY <1>1, <1>2, <1>3, <1>4 DEF LoopState, ClosePhase, FlushDue
<1>7. QueueItems' /\ CallbackState' /\ Promised'
  BY <1>1, <1>2, <1>4 DEF QueueItems, CallbackState, Promised
<1>8. NothingLostOrReordered'
  BY <1>1, <1>2, <1>4 DEF NothingLostOrReordered
<1> QED BY <1>5, <1>6, <1>7, <1>8 DEF SenderInv

----------------------------------------------------------------------------
(* The steps of the loop.                                                   *)

\* What a fetch of the loop starts from and takes from the queue.
LEMMA FetchFrom ==
  ASSUME SenderInv, Fetch
  PROVE  /\ queue \in Seq(QItem) /\ queue # <<>> /\ queue' = Tail(queue) /\ queue' \in Seq(QItem)
         /\ Head(queue) \in QItem
         /\ loop = "waiting" /\ segment = <<>> /\ rest = <<>> /\ flusher = "none"
         /\ closing \in {"no", "flushing"} /\ (closing = "no") = ~closed
         /\ Whole(queue') /\ Distinct(queue')
         /\ closing = "no" => Head(queue).kind # "close" /\ \A k \in 1 .. Len(queue') : queue'[k].kind # "close"
         /\ closing = "flushing" /\ Head(queue).kind = "close" => queue' = <<>>
         /\ closing = "flushing" /\ Head(queue).kind # "close" =>
              queue' # <<>> /\ \A k \in 1 .. Len(queue') : queue'[k].kind = "close" <=> k = Len(queue')
         /\ closing = "no" /\ ~timer => IF queue' = <<>> THEN Head(queue).kind = "flush"
                                        ELSE queue'[Len(queue')].kind = "flush"
         /\ UNCHANGED <<promise, accepted, timer, closed, handed, lost>>
<1>1. /\ TypeOK /\ LoopState /\ ClosePhase /\ FlushDue /\ QueueItems /\ queue \in Seq(QItem)
  BY QueueType DEF SenderInv
<1>2. /\ loop = "waiting" /\ queue # <<>> /\ queue' = Tail(queue)
      /\ UNCHANGED <<promise, accepted, timer, closed, handed, lost>>
  BY DEF Fetch
<1>3. /\ queue' \in Seq(QItem) /\ Head(queue) \in QItem /\ Head(queue) = queue[1]
      /\ Len(queue) \in Nat \ {0} /\ Len(queue') = Len(queue) - 1
      /\ \A k \in 1 .. Len(queue') : queue'[k] = queue[k + 1]
      /\ queue' = <<>> <=> Len(queue) = 1
      /\ Whole(queue') /\ Distinct(queue')
  BY <1>1, <1>2, Dequeued DEF QueueItems
<1>4. segment = <<>> /\ rest = <<>> /\ flusher = "none"
  BY <1>1, <1>2 DEF TypeOK, LoopState
<1>5. closing \in {"no", "flushing"} /\ (closing = "no") = ~closed
  BY <1>1, <1>2 DEF ClosePhase, TypeOK
<1>6. \A k \in 1 .. Len(queue') : k + 1 \in 1 .. Len(queue) /\ (k = Len(queue') <=> k + 1 = Len(queue))
  BY <1>3
<1>7. 1 \in 1 .. Len(queue)
  BY <1>3
<1>8. closing = "no" => Head(queue).kind # "close" /\ \A k \in 1 .. Len(queue') : queue'[k].kind # "close"
  BY <1>1, <1>3, <1>6, <1>7 DEF ClosePhase
<1>9. ASSUME closing = "flushing" PROVE \A k \in 1 .. Len(queue) : queue[k].kind = "close" <=> k = Len(queue)
  BY <1>1, <1>2, <1>9 DEF ClosePhase
<1>10. closing = "flushing" /\ Head(queue).kind = "close" => queue' = <<>>
  BY <1>3, <1>7, <1>9
<1>11. closing = "flushing" /\ Head(queue).kind # "close" =>
         queue' # <<>> /\ \A k \in 1 .. Len(queue') : queue'[k].kind = "close" <=> k = Len(queue')
  BY <1>3, <1>6, <1>7, <1>9
<1>12. closing = "no" /\ ~timer => IF queue' = <<>> THEN Head(queue).kind = "flush"
                                   ELSE queue'[Len(queue')].kind = "flush"
  <2> SUFFICES ASSUME closing = "no", ~timer
               PROVE  IF queue' = <<>> THEN Head(queue).kind = "flush"
                      ELSE queue'[Len(queue')].kind = "flush"
    OBVIOUS
  <2>1. queue[Len(queue)].kind = "flush"
    BY <1>1, <1>2 DEF FlushDue
  <2>2. CASE queue' = <<>>
    BY <1>3, <2>1, <2>2
  <2>3. CASE queue' # <<>>
    <3>1. Len(queue') \in 1 .. Len(queue') /\ Len(queue') + 1 = Len(queue)
      BY <1>3, <2>3
    <3> QED BY <1>3, <2>1, <2>3, <3>1
  <2> QED BY <2>2, <2>3
<1> QED BY <1>1, <1>2, <1>3, <1>4, <1>5, <1>8, <1>10, <1>11, <1>12

\* A fetched flush of an empty buffer.
LEMMA FetchIdleInv ==
  ASSUME SenderInv, Fetch, FetchFlush, buffer = <<>> PROVE SenderInv'
<1>1. /\ TypeOK /\ LoopState /\ ClosePhase /\ FlushDue /\ QueueItems /\ CallbackState /\ Promised
      /\ NothingLostOrReordered
  BY DEF SenderInv
<1>2. /\ queue \in Seq(QItem) /\ queue # <<>> /\ queue' = Tail(queue) /\ queue' \in Seq(QItem)
      /\ Head(queue) \in QItem /\ loop = "waiting" /\ segment = <<>> /\ rest = <<>> /\ flusher = "none"
      /\ Whole(queue') /\ Distinct(queue')
      /\ UNCHANGED <<promise, accepted, timer, closed, handed, lost>>
  BY FetchFrom
<1>3. /\ Head(queue).kind \in {"flush", "close"}
      /\ closing' = (IF Head(queue).kind = "close" THEN "flushed" ELSE closing)
      /\ UNCHANGED <<buffer, requests, loop, segment, flusher, callbacks, rest>>
  BY DEF FetchFlush
<1>4. Head(queue).data = <<>> /\ Held(queue') = Held(queue) /\ Waiting(queue') = Waiting(queue)
  <2>1. Len(queue) \in Nat \ {0} /\ Head(queue) = queue[1]
    BY <1>2, Dequeued
  <2>2. Head(queue).data = <<>>
    BY <1>1, <1>3, <2>1 DEF QueueItems, Whole
  <2>3. Waiting(queue) = Head(queue).data \o Waiting(queue') /\ Waiting(queue') \in Bytes
    BY <1>2, Dequeued, WaitingType
  <2>4. Held(queue') = Held(queue)
    BY <1>2, <1>3, Dequeued
  <2> QED BY <2>2, <2>3, <2>4, BytesNoneAtAll
<1>5. TypeOK'
  BY <1>1, <1>2, <1>3 DEF TypeOK, QItem
<1>6. LoopState'
  BY <1>1, <1>2, <1>3 DEF LoopState
<1>7. ClosePhase'
  <2>1. CASE closing = "no"
    BY <1>1, <1>2, <1>3, <2>1, FetchFrom DEF ClosePhase
  <2>2. CASE closing = "flushing"
    BY <1>1, <1>2, <1>3, <2>2, FetchFrom DEF ClosePhase
  <2> QED BY <2>1, <2>2, FetchFrom
<1>8. FlushDue'
  BY <1>1, <1>2, <1>3, FetchFrom DEF FlushDue, ClosePhase
<1>9. QueueItems' /\ CallbackState' /\ Promised'
  BY <1>1, <1>2, <1>3, <1>4 DEF QueueItems, CallbackState, Promised
<1>10. NothingLostOrReordered'
  BY <1>1, <1>2, <1>3, <1>4 DEF NothingLostOrReordered
<1> QED BY <1>5, <1>6, <1>7, <1>8, <1>9, <1>10 DEF SenderInv

\* A fetched flush hands over the buffer.
LEMMA FetchExportInv ==
  ASSUME SenderInv, Fetch, FetchFlush, buffer # <<>> PROVE SenderInv'
<1>1. /\ TypeOK /\ LoopState /\ ClosePhase /\ FlushDue /\ QueueItems /\ CallbackState /\ Promised
      /\ NothingLostOrReordered
  BY DEF SenderInv
<1>2. /\ queue \in Seq(QItem) /\ queue # <<>> /\ queue' = Tail(queue) /\ queue' \in Seq(QItem)
      /\ Head(queue) \in QItem /\ loop = "waiting" /\ segment = <<>> /\ rest = <<>> /\ flusher = "none"
      /\ Whole(queue') /\ Distinct(queue')
      /\ UNCHANGED <<promise, accepted, timer, closed, handed, lost>>
  BY FetchFrom
<1>3. /\ Head(queue).kind \in {"flush", "close"}
      /\ loop' = "sending" /\ segment' = buffer /\ flusher' = Head(queue).kind
      /\ buffer' = <<>> /\ requests' = 0
      /\ UNCHANGED <<closing, callbacks, rest>>
  BY DEF FetchFlush, Export
<1>4. Held(queue') = Held(queue) /\ Waiting(queue') = Waiting(queue)
  <2>1. Len(queue) \in Nat \ {0} /\ Head(queue) = queue[1]
    BY <1>2, Dequeued
  <2>2. Head(queue).data = <<>>
    BY <1>1, <1>3, <2>1 DEF QueueItems, Whole
  <2>3. Waiting(queue) = Head(queue).data \o Waiting(queue') /\ Waiting(queue') \in Bytes
    BY <1>2, Dequeued, WaitingType
  <2>4. Held(queue') = Held(queue)
    BY <1>2, <1>3, Dequeued
  <2> QED BY <2>2, <2>3, <2>4, BytesNoneAtAll
<1>5. <<>> \in Bytes /\ Len(<<>>) = 0 /\ ToSet(<<>>) = {}
  BY EmptySeq DEF Bytes, ToSet
<1>6. TypeOK'
  <2>1. requests' \in 0 .. MaxBufferedRequests
    BY <1>3, SenderAssumption
  <2>2. Len(buffer') < MaxSegSize /\ Len(segment') <= MaxSegSize
    <3>1. Len(buffer) \in Nat /\ Len(buffer) < MaxSegSize
      BY <1>1, LenProperties DEF TypeOK, Bytes
    <3> QED BY <1>3, <1>5, <3>1, SenderAssumption
  <2>3. queue' \in Seq([kind : {"data", "flush", "close"}, data : Bytes])
    BY <1>2 DEF QItem
  <2> QED BY <1>1, <1>2, <1>3, <1>5, <2>1, <2>2, <2>3 DEF TypeOK
<1>7. LoopState'
  BY <1>2, <1>3 DEF LoopState
<1>8. ClosePhase'
  <2>1. CASE closing = "no"
    BY <1>1, <1>2, <1>3, <2>1, FetchFrom DEF ClosePhase
  <2>2. CASE closing = "flushing"
    BY <1>1, <1>2, <1>3, <2>2, FetchFrom DEF ClosePhase
  <2> QED BY <2>1, <2>2, FetchFrom
<1>9. FlushDue'
  BY <1>1, <1>2, <1>3, FetchFrom DEF FlushDue, ClosePhase
<1>10. QueueItems' /\ CallbackState'
  BY <1>1, <1>2, <1>3, <1>4, <1>5 DEF QueueItems, CallbackState
<1>11. Promised'
  BY <1>1, <1>2, <1>3, <1>4 DEF Promised
<1>12. NothingLostOrReordered'
  <2>1. Pipeline = buffer /\ Pipeline' = buffer
    <3>1. buffer \in Bytes
      BY <1>1 DEF TypeOK
    <3> QED BY <1>2, <1>3, <1>5, <3>1, BytesNoneAtAll DEF Pipeline
  <2>2. Regrouped'
    BY <1>1, <1>2, <1>4, <2>1, RegroupIs DEF Regrouped
  <2> QED BY <1>6, <2>2, RegroupIs, PTL
<1> QED BY <1>6, <1>7, <1>8, <1>9, <1>10, <1>11, <1>12 DEF SenderInv

\* Fetched data: their send moves from the queue to the callbacks.
LEMMA FetchDataInv ==
  ASSUME SenderInv, Fetch, FetchData PROVE SenderInv'
<1>1. /\ TypeOK /\ LoopState /\ ClosePhase /\ FlushDue /\ QueueItems /\ CallbackState /\ Promised
      /\ NothingLostOrReordered
  BY DEF SenderInv
<1>2. /\ queue \in Seq(QItem) /\ queue # <<>> /\ queue' = Tail(queue) /\ queue' \in Seq(QItem)
      /\ Head(queue) \in QItem /\ loop = "waiting" /\ segment = <<>> /\ rest = <<>> /\ flusher = "none"
      /\ Whole(queue') /\ Distinct(queue')
      /\ UNCHANGED <<promise, accepted, timer, closed, handed, lost>>
  BY FetchFrom
<1> DEFINE data == Head(queue).data
           i == data[1]
<1>3. Head(queue).kind = "data" /\ callbacks' = callbacks \union {i} /\ Gather(buffer, data) /\ UNCHANGED closing
  BY DEF FetchData
<1>4. data \in Bytes
  BY <1>2, ItemData
<1>5. data # <<>> /\ \A j \in 1 .. Len(data) : data[j] = i
  <2>1. Len(queue) \in Nat \ {0} /\ Head(queue) = queue[1]
    BY <1>2, Dequeued
  <2> QED BY <1>1, <1>3, <2>1 DEF QueueItems, Whole
<1>6. /\ Held(queue) = Held(queue') \union {i} /\ i \notin Held(queue')
      /\ Waiting(queue) = data \o Waiting(queue') /\ Waiting(queue') \in Bytes
  BY <1>1, <1>2, <1>3, Dequeued, WaitingType DEF QueueItems
<1> HIDE DEF data
<1>7. i \in Sends /\ promise[i] = "pending" /\ i \notin callbacks /\ ToSet(data) \subseteq {i}
  <2>1. Len(data) \in Nat \ {0} /\ DOMAIN data = 1 .. Len(data)
    BY <1>4, <1>5, EmptySeq, LenProperties DEF Bytes
  <2>2. i \in Sends
    BY <1>4, <2>1, ElementOfSeq DEF Bytes
  <2> QED BY <1>1, <1>5, <1>6, <2>1, <2>2 DEF QueueItems, ToSet
<1> HIDE DEF i
<1>8. buffer \in Bytes /\ Len(buffer) < MaxSegSize /\ requests \in 0 .. MaxBufferedRequests
  BY <1>1 DEF TypeOK
<1>9. /\ segment' \in Bytes /\ buffer' \in Bytes /\ rest' \in Bytes
      /\ segment' \o buffer' \o rest' = buffer \o data
      /\ Len(buffer') < MaxSegSize /\ Len(segment') <= MaxSegSize
      /\ requests' \in 0 .. MaxBufferedRequests /\ flusher' = "none"
      /\ \/ loop' = "sending" /\ segment' # <<>> /\ buffer' = <<>>
         \/ loop' = "waiting" /\ segment' = <<>> /\ buffer' # <<>> /\ rest' = <<>>
      /\ ToSet(segment') \union ToSet(buffer') \subseteq ToSet(buffer) \union ToSet(data)
      /\ \A j \in 1 .. Len(rest') : \E m \in 1 .. Len(data) : rest'[j] = data[m]
  BY <1>3, <1>4, <1>5, <1>8, GatherStep
<1>10. TypeOK'
  <2>1. queue' \in Seq([kind : {"data", "flush", "close"}, data : Bytes])
    BY <1>2 DEF QItem
  <2>2. callbacks' \subseteq Sends
    BY <1>1, <1>3, <1>7 DEF TypeOK
  <2> QED BY <1>1, <1>2, <1>3, <1>9, <2>1, <2>2 DEF TypeOK
<1>11. LoopState'
  BY <1>9 DEF LoopState
<1>12. ClosePhase'
  <2>1. CASE closing = "no"
    BY <1>1, <1>2, <1>3, <1>9, <2>1, FetchFrom DEF ClosePhase
  <2>2. CASE closing = "flushing"
    BY <1>1, <1>2, <1>3, <1>9, <2>2, FetchFrom DEF ClosePhase
  <2> QED BY <2>1, <2>2, FetchFrom
<1>13. FlushDue'
  BY <1>2, <1>3, FetchFrom DEF FlushDue
<1>14. QueueItems'
  BY <1>1, <1>2, <1>3, <1>6 DEF QueueItems
<1>15. CallbackState'
  <2>1. \A j \in 1 .. Len(rest') : rest'[j] = i
    BY <1>5, <1>9
  <2>2. rest' # <<>> => 1 \in 1 .. Len(rest')
    BY <1>9, EmptySeq DEF Bytes
  <2>3. ToSet(segment') \subseteq callbacks' /\ ToSet(buffer') \subseteq callbacks'
    BY <1>1, <1>3, <1>7, <1>9 DEF CallbackState
  <2>4. \A c \in callbacks' : promise'[c] \in {"pending", "rejected"}
    BY <1>1, <1>2, <1>3, <1>7 DEF CallbackState
  <2>5. \A c \in lost' : promise'[c] = "rejected"
    BY <1>1, <1>2 DEF CallbackState
  <2>6. rest' # <<>> => rest'[1] \in callbacks'
    BY <1>3, <2>1, <2>2
  <2>7. \A j \in 1 .. Len(rest') : rest'[j] = rest'[1]
    <3>1. (\E j \in 1 .. Len(rest') : TRUE) => rest'[1] = i
      BY <1>9, <2>1, <2>2, LenProperties DEF Bytes
    <3> QED BY <2>1, <3>1
  <2> QED BY <2>3, <2>4, <2>5, <2>6, <2>7 DEF CallbackState
<1>16. Promised'
  BY <1>1, <1>2, <1>3, <1>6, <1>9 DEF Promised
<1>17. NothingLostOrReordered'
  <2>1. Pipeline = buffer /\ Pipeline' = buffer \o data
    <3>1. Pipeline = buffer
      BY <1>2, <1>8, BytesNoneAtAll DEF Pipeline
    <3>2. Pipeline' = buffer \o data
      BY <1>9 DEF Pipeline
    <3> QED BY <3>1, <3>2
  <2>2. accepted = (handed \o buffer) \o (data \o Waiting(queue'))
    BY <1>1, <1>6, <2>1, RegroupIs DEF Regrouped
  <2>3. (handed \o buffer) \o (data \o Waiting(queue')) = ((handed \o buffer) \o data) \o Waiting(queue')
    <3> DEFINE g == handed \o buffer
    <3>1. g \in Bytes
      BY <1>1, <1>8, BytesConcat DEF TypeOK
    <3> HIDE DEF g
    <3>2. (g \o data) \o Waiting(queue') = g \o (data \o Waiting(queue'))
      BY <1>4, <1>6, <3>1, BytesAssociative
    <3> QED BY <3>2 DEF g
  <2>4. (handed \o buffer) \o data = handed \o (buffer \o data)
    BY <1>1, <1>4, <1>8, BytesAssociative DEF TypeOK
  <2>5. Regrouped'
    BY <1>2, <2>1, <2>2, <2>3, <2>4 DEF Regrouped
  <2> QED BY <1>10, <2>5, RegroupIs, PTL
<1> QED BY <1>10, <1>11, <1>12, <1>13, <1>14, <1>15, <1>16, <1>17 DEF SenderInv

\* Every fetch keeps the invariant.
LEMMA FetchInv ==
  ASSUME SenderInv, Fetch PROVE SenderInv'
<1>1. FetchFlush \/ FetchData
  BY DEF Fetch
<1> QED BY <1>1, FetchIdleInv, FetchExportInv, FetchDataInv

----------------------------------------------------------------------------
(* The transport's answer.                                                  *)

\* What the transport's answer does to the promises and the callbacks.
LEMMA Settling ==
  ASSUME SenderInv, TransportDone
  PROVE  /\ promise' \in [Sends -> {"none", "pending", "resolved", "rejected"}]
         /\ \A i \in Sends : i \notin callbacks => promise'[i] = promise[i]
         /\ \A i \in Sends : promise'[i] = "pending" =>
              promise[i] = "pending" /\ (i \in callbacks => i \in callbacks')
         /\ callbacks' \subseteq callbacks /\ lost' \subseteq Sends
         /\ \A i \in callbacks' : promise'[i] \in {"pending", "rejected"}
         /\ \A i \in lost' : promise'[i] = "rejected"
         /\ rest = <<>> => callbacks' = {}
         /\ rest # <<>> => callbacks' = {rest[1]}
<1>1. /\ TypeOK /\ CallbackState /\ callbacks \subseteq Sends
      /\ promise \in [Sends -> {"none", "pending", "resolved", "rejected"}]
  BY DEF SenderInv, TypeOK
<1>2. callbacks' = callbacks \ Completed
  BY DEF TransportDone
<1>3. rest # <<>> => Head(rest) = rest[1]
  BY <1>1, HeadTailProperties DEF TypeOK, Bytes
<1>4. Completed = {i \in callbacks : rest = <<>> \/ i # rest[1]}
  BY <1>3 DEF Completed
<1>5. (rest = <<>> => callbacks' = {}) /\ (rest # <<>> => callbacks' = {rest[1]})
  BY <1>1, <1>2, <1>4 DEF CallbackState
<1>6. \A i \in callbacks : promise[i] \in {"pending", "rejected"}
  BY <1>1 DEF CallbackState
<1>7. (\A i \in lost : promise[i] = "rejected") /\ ToSet(segment) \subseteq callbacks /\ lost \subseteq Sends
  BY <1>1 DEF CallbackState, TypeOK
<1>8. CASE /\ promise' = [i \in Sends |-> IF i \in Completed /\ promise[i] = "pending"
                                          THEN "resolved" ELSE promise[i]]
           /\ UNCHANGED lost
  <2>1. Completed \subseteq callbacks
    BY <1>4
  <2>2. \A i \in Sends : promise'[i] = IF i \in Completed /\ promise[i] = "pending"
                                       THEN "resolved" ELSE promise[i]
    BY <1>8
  <2>3. promise' \in [Sends -> {"none", "pending", "resolved", "rejected"}]
    BY <1>1, <1>8
  <2>4. \A i \in lost' : promise'[i] = "rejected"
    BY <1>7, <1>8, <2>2
  <2> QED BY <1>1, <1>2, <1>5, <1>6, <1>7, <1>8, <2>1, <2>2, <2>3, <2>4
<1>9. CASE /\ promise' = [i \in Sends |-> IF i \in callbacks /\ promise[i] = "pending"
                                          THEN "rejected" ELSE promise[i]]
           /\ lost' = lost \union ToSet(segment)
  <2>1. \A i \in Sends : promise'[i] = IF i \in callbacks /\ promise[i] = "pending"
                                       THEN "rejected" ELSE promise[i]
    BY <1>9
  <2>2. promise' \in [Sends -> {"none", "pending", "resolved", "rejected"}]
    BY <1>1, <1>9
  <2>3. \A i \in lost' : promise'[i] = "rejected"
    BY <1>1, <1>6, <1>7, <1>9, <2>1
  <2>4. lost' \subseteq Sends
    BY <1>1, <1>7, <1>9
  <2> QED BY <1>1, <1>2, <1>5, <1>6, <2>1, <2>2, <2>3, <2>4
<1> QED BY <1>8, <1>9 DEF TransportDone

\* The transport's answer, and the gathering of the rest, keep the invariant.
LEMMA TransportDoneInv ==
  ASSUME SenderInv, TransportDone PROVE SenderInv'
<1>1. /\ TypeOK /\ LoopState /\ ClosePhase /\ FlushDue /\ QueueItems /\ CallbackState /\ Promised
      /\ NothingLostOrReordered /\ queue \in Seq(QItem)
  BY QueueType DEF SenderInv
<1>2. /\ loop = "sending" /\ handed' = handed \o segment
      /\ closing' = (IF flusher = "close" THEN "flushed" ELSE closing)
      /\ IF rest = <<>>
         THEN /\ loop' = "waiting" /\ segment' = <<>> /\ flusher' = "none"
              /\ UNCHANGED <<buffer, requests, rest>>
         ELSE Gather(<<>>, rest)
      /\ UNCHANGED <<accepted, queue, timer, closed>>
  BY DEF TransportDone
<1>3. /\ handed \in Bytes /\ segment \in Bytes /\ rest \in Bytes /\ buffer = <<>>
      /\ <<>> \in Bytes /\ Len(<<>>) = 0 /\ ToSet(<<>>) = {}
      /\ requests \in 0 .. MaxBufferedRequests /\ MaxSegSize \in Nat \ {0}
  BY <1>1, <1>2, EmptySeq, SenderAssumption DEF TypeOK, LoopState, Bytes, ToSet
<1>4. flusher = "close" => closing = "flushing" /\ queue = <<>> /\ rest = <<>>
  BY <1>1, <1>2 DEF ClosePhase, LoopState, TypeOK
<1>5. closing \in {"no", "flushing"}
  BY <1>1, <1>2 DEF ClosePhase, TypeOK
<1>6. /\ segment' \in Bytes /\ buffer' \in Bytes /\ rest' \in Bytes
      /\ segment' \o buffer' \o rest' = rest
      /\ Len(buffer') < MaxSegSize /\ Len(segment') <= MaxSegSize
      /\ requests' \in 0 .. MaxBufferedRequests /\ flusher' = "none"
      /\ \/ loop' = "sending" /\ segment' # <<>> /\ buffer' = <<>>
         \/ loop' = "waiting" /\ segment' = <<>> /\ rest' = <<>>
      /\ rest = <<>> => buffer' = <<>> /\ segment' = <<>> /\ rest' = <<>>
      /\ rest # <<>> => segment' # <<>> \/ buffer' # <<>>
      /\ ToSet(segment') \union ToSet(buffer') \subseteq ToSet(rest)
      /\ \A j \in 1 .. Len(rest') : \E m \in 1 .. Len(rest) : rest'[j] = rest[m]
  <2>1. CASE rest = <<>>
    <3>1. <<>> \o <<>> \o <<>> = <<>>
      BY <1>3, BytesNoneAtAll
    <3> QED BY <1>2, <1>3, <2>1, <3>1
  <2>2. CASE rest # <<>>
    <3>1. Gather(<<>>, rest) /\ Len(<<>>) < MaxSegSize
      BY <1>2, <1>3, <2>2
    <3>2. <<>> \o rest = rest
      BY <1>3, BytesNoneAtAll
    <3> QED BY <1>3, <2>2, <3>1, <3>2, GatherStep
  <2> QED BY <2>1, <2>2
<1>7. TypeOK'
  <2>1. callbacks' \subseteq Sends /\ lost' \subseteq Sends
        /\ promise' \in [Sends -> {"none", "pending", "resolved", "rejected"}]
    BY <1>1, Settling DEF TypeOK
  <2>2. handed' \in Bytes
    BY <1>2, <1>3, BytesConcat
  <2> QED BY <1>1, <1>2, <1>6, <2>1, <2>2 DEF TypeOK
<1>8. LoopState'
  BY <1>6 DEF LoopState
<1>9. ClosePhase'
  <2>1. CASE flusher = "close"
    BY <1>1, <1>2, <1>4, <1>6, <2>1 DEF ClosePhase
  <2>2. CASE flusher # "close"
    BY <1>1, <1>2, <1>5, <1>6, <2>2 DEF ClosePhase
  <2> QED BY <2>1, <2>2
<1>10. FlushDue'
  BY <1>1, <1>2, <1>6 DEF FlushDue
<1>11. QueueItems'
  <2>1. \A i \in Held(queue) : promise[i] = "pending" /\ i \notin callbacks
    BY <1>1 DEF QueueItems
  <2>2. \A i \in Held(queue) : i \in Sends
    <3> SUFFICES ASSUME NEW k \in 1 .. Len(queue), queue[k].kind = "data" PROVE queue[k].data[1] \in Sends
      BY DEF Held
    <3>1. queue[k] \in QItem
      BY <1>1, ElementOfSeq
    <3>2. queue[k].data \in Bytes /\ queue[k].data # <<>>
      BY <1>1, <3>1, ItemData DEF QueueItems, Whole
    <3>3. 1 \in 1 .. Len(queue[k].data)
      BY <3>2, EmptySeq DEF Bytes
    <3> QED BY <3>2, <3>3, ElementOfSeq DEF Bytes
  <2>3. \A i \in Held(queue) : promise'[i] = "pending" /\ i \notin callbacks'
    BY <2>1, <2>2, Settling
  <2> QED BY <1>1, <1>2, <2>3 DEF QueueItems
<1>12. CallbackState'
  <2>1. ToSet(rest) \subseteq callbacks' /\ \A m \in 1 .. Len(rest) : rest[m] \in callbacks'
    <3>1. CASE rest = <<>>
      BY <1>3, <3>1
    <3>2. CASE rest # <<>>
      <4>1. callbacks' = {rest[1]} /\ DOMAIN rest = 1 .. Len(rest)
        BY <1>3, <3>2, Settling, LenProperties DEF Bytes
      <4> QED BY <1>1, <4>1 DEF CallbackState, ToSet
    <3> QED BY <3>1, <3>2
  <2>2. \A j \in 1 .. Len(rest') : rest'[j] \in callbacks' /\ rest'[j] = rest[1]
    BY <1>1, <1>6, <2>1 DEF CallbackState
  <2>3. rest' # <<>> => 1 \in 1 .. Len(rest')
    BY <1>6, EmptySeq DEF Bytes
  <2>4. rest' # <<>> => rest'[1] \in callbacks'
    BY <2>2, <2>3
  <2>5. \A j \in 1 .. Len(rest') : rest'[j] = rest'[1]
    <3>1. (\E j \in 1 .. Len(rest') : TRUE) => rest'[1] = rest[1]
      BY <1>6, <2>2, LenProperties DEF Bytes
    <3> QED BY <2>2, <3>1
  <2>6. ToSet(segment') \subseteq callbacks' /\ ToSet(buffer') \subseteq callbacks'
    BY <1>6, <2>1
  <2> QED BY <2>4, <2>5, <2>6, Settling DEF CallbackState
<1>13. Promised'
  <2>1. callbacks' # {} => segment' # <<>> \/ buffer' # <<>>
    BY <1>6, Settling
  <2> QED BY <1>1, <1>2, <2>1, Settling DEF Promised
<1>14. NothingLostOrReordered'
  <2>1. Pipeline = segment \o rest /\ Pipeline' = rest
    BY <1>3, <1>6, BytesNoneAtAll DEF Pipeline
  <2>2. (handed \o segment) \o rest = handed \o (segment \o rest)
    BY <1>3, BytesAssociative
  <2>3. Regrouped
    BY <1>1, RegroupIs
  <2>4. Regrouped'
    BY <1>2, <2>1, <2>2, <2>3 DEF Regrouped
  <2> QED BY <1>7, <2>4, RegroupIs, PTL
<1> QED BY <1>7, <1>8, <1>9, <1>10, <1>11, <1>12, <1>13, <1>14 DEF SenderInv

----------------------------------------------------------------------------
(* The theorems.                                                            *)

\* The initial state satisfies the invariant.
LEMMA InitInv == Init => SenderInv
<1> SUFFICES ASSUME Init PROVE SenderInv
  OBVIOUS
<1>1. <<>> \in Bytes /\ Len(<<>>) = 0 /\ ToSet(<<>>) = {}
      /\ <<>> \in Seq([kind : {"data", "flush", "close"}, data : Bytes])
  BY EmptySeq DEF Bytes, ToSet
<1>2. Held(<<>>) = {}
  BY <1>1 DEF Held
<1>3. TypeOK
  <2>1. 0 \in 0 .. MaxBufferedRequests /\ 0 < MaxSegSize /\ 0 <= MaxSegSize
    BY SenderAssumption
  <2>2. timer \in BOOLEAN /\ closed \in BOOLEAN
    BY DEF Init
  <2> QED BY <1>1, <2>1, <2>2 DEF Init, TypeOK
<1>4. LoopState /\ ClosePhase /\ FlushDue
  BY <1>1 DEF Init, LoopState, ClosePhase, FlushDue
<1>5. QueueItems
  BY <1>1, <1>2 DEF Init, QueueItems, Whole, Distinct
<1>6. CallbackState /\ Promised
  BY <1>1 DEF Init, CallbackState, Promised
<1>7. NothingLostOrReordered
  <2>1. <<>> \o <<>> = <<>>
    BY <1>1, BytesNoneAtAll
  <2> QED BY <2>1, WaitingEmpty DEF Init, NothingLostOrReordered
<1> QED BY <1>3, <1>4, <1>5, <1>6, <1>7 DEF SenderInv

\* Every step keeps it.
LEMMA NextInv == SenderInv /\ [Next]_vars => SenderInv'
<1> SUFFICES ASSUME SenderInv, [Next]_vars PROVE SenderInv'
  OBVIOUS
<1>1. CASE Send          BY <1>1, SendInv
<1>2. CASE SendRefused   BY <1>2, SendRefusedInv
<1>3. CASE TimerFires    BY <1>3, TimerFiresInv
<1>4. CASE Close         BY <1>4, CloseInv
<1>5. CASE CloseEnds     BY <1>5, CloseEndsInv
<1>6. CASE Fetch         BY <1>6, FetchInv
<1>7. CASE TransportDone BY <1>7, TransportDoneInv
<1>8. CASE UNCHANGED vars
  <2>1. UNCHANGED <<promise, accepted, queue, buffer, requests, timer, closed, closing, loop, segment,
                    callbacks, rest, flusher, handed, lost>>
    BY <1>8 DEF vars, loopVars
  <2>2. TypeOK'
    BY <2>1 DEF SenderInv, TypeOK
  <2>3. LoopState' /\ ClosePhase' /\ FlushDue'
    BY <2>1 DEF SenderInv, LoopState, ClosePhase, FlushDue
  <2>4. QueueItems' /\ CallbackState' /\ Promised' /\ NothingLostOrReordered'
    BY <2>1 DEF SenderInv, QueueItems, CallbackState, Promised, NothingLostOrReordered
  <2> QED BY <2>2, <2>3, <2>4 DEF SenderInv
<1> QED BY <1>1, <1>2, <1>3, <1>4, <1>5, <1>6, <1>7, <1>8 DEF Next

\* The invariant holds in every reachable state.
LEMMA SenderInvariant == Spec => []SenderInv
  BY InitInv, NextInv, PTL DEF Spec

\* Every variable of the sender keeps its type: segments are never longer than
\* maxSegSize, and the transport is busy exactly while it has one.
THEOREM SenderTypes == Spec => []TypeOK
<1>1. SenderInv => TypeOK
  BY DEF SenderInv
<1> QED BY <1>1, SenderInvariant, PTL

\* Whatever the lengths of the sends, of the segments and of the queue, the flushes and
\* the failures: the transport is given every accepted byte once and in order.
THEOREM NothingIsLost == Spec => []NothingLostOrReordered
<1>1. SenderInv => NothingLostOrReordered
  BY DEF SenderInv
<1> QED BY <1>1, SenderInvariant, PTL

\* A byte that waits is of a send the queue holds.
LEMMA HeldBytes ==
  ASSUME NEW q \in Seq(QItem), Whole(q), NEW i \in ToSet(Waiting(q)) PROVE i \in Held(q)
<1>1. PICK k \in 1 .. Len(q) : i \in ToSet(q[k].data)
  BY ToSetWaiting
<1>2. q[k].data \in Bytes
  BY ItemData, ElementOfSeq
<1>3. PICK j \in 1 .. Len(q[k].data) : i = q[k].data[j]
  BY <1>1, <1>2, LenProperties DEF ToSet, Bytes
<1>4. q[k].data # <<>>
  BY <1>2, <1>3, EmptySeq DEF Bytes
<1>5. q[k].kind = "data" /\ i = q[k].data[1]
  BY <1>3, <1>4 DEF Whole
<1> QED BY <1>5 DEF Held

\* A promise of send() is resolved only when all of the send's bytes went out and no
\* segment with one of them failed.
THEOREM ResolvedWasSent == Spec => []ResolvedMeansSent
<1>1. SenderInv => ResolvedMeansSent
  <2> SUFFICES ASSUME SenderInv, NEW i \in Sends, promise[i] = "resolved"
               PROVE  i \notin lost /\ i \notin ToSet(segment \o buffer \o rest \o Waiting(queue))
    BY DEF ResolvedMeansSent
  <2>1. TypeOK /\ QueueItems /\ CallbackState /\ queue \in Seq(QItem)
    BY QueueType DEF SenderInv
  <2>2. segment \in Bytes /\ buffer \in Bytes /\ rest \in Bytes /\ Waiting(queue) \in Bytes
    BY <2>1, WaitingType DEF TypeOK
  <2>3. i \notin lost /\ i \notin callbacks /\ i \notin Held(queue)
    BY <2>1 DEF CallbackState, QueueItems
  <2>4. ToSet(rest) \subseteq callbacks
    <3>1. DOMAIN rest = 1 .. Len(rest)
      BY <2>2, LenProperties DEF Bytes
    <3> QED BY <2>1, <2>2, <3>1 DEF CallbackState, ToSet
  <2>5. ToSet(segment \o buffer) \subseteq callbacks /\ segment \o buffer \in Bytes
    BY <2>1, <2>2, ToSetConcat, BytesConcat DEF CallbackState
  <2>6. ToSet(segment \o buffer \o rest) \subseteq callbacks /\ segment \o buffer \o rest \in Bytes
    BY <2>2, <2>4, <2>5, ToSetConcat, BytesConcat
  <2>7. ToSet(segment \o buffer \o rest \o Waiting(queue)) \subseteq callbacks \union Held(queue)
    BY <2>1, <2>2, <2>6, ToSetConcat, HeldBytes DEF QueueItems
  <2> QED BY <2>3, <2>7
<1> QED BY <1>1, SenderInvariant, PTL

\* With the loop idle and the queue empty, what is gathered or promised has its timer.
THEOREM NothingIsForgotten == Spec => []NothingForgotten
<1>1. SenderInv => NothingForgotten
  <2> SUFFICES ASSUME SenderInv, loop = "waiting", queue = <<>>, closing = "no", ~timer
               PROVE  buffer = <<>> /\ \A i \in Sends : promise[i] # "pending"
    BY DEF NothingForgotten
  <2>1. buffer = <<>> /\ segment = <<>>
    BY DEF SenderInv, FlushDue, TypeOK
  <2>2. callbacks = {} /\ Held(queue) = {}
    BY <2>1, EmptySeq DEF SenderInv, Promised, Held
  <2> QED BY <2>1, <2>2 DEF SenderInv, Promised
<1> QED BY <1>1, SenderInvariant, PTL

\* When close() is done the loop has ended and no promise is left pending.
THEOREM CloseHasSettled == Spec => []CloseSettles
<1>1. SenderInv => CloseSettles
  <2> SUFFICES ASSUME SenderInv, closing = "done"
               PROVE  loop = "ended" /\ \A i \in Sends : promise[i] # "pending"
    BY DEF CloseSettles
  <2>1. loop = "ended" /\ buffer = <<>> /\ queue = <<>> /\ segment = <<>>
    BY DEF SenderInv, ClosePhase, TypeOK
  <2>2. callbacks = {} /\ Held(queue) = {}
    BY <2>1, EmptySeq DEF SenderInv, Promised, Held
  <2> QED BY <2>1, <2>2 DEF SenderInv, Promised
<1> QED BY <1>1, SenderInvariant, PTL

----------------------------------------------------------------------------
(* Back-pressure, for any message size, threshold and factor.               *)

\* What arrived is unpacked or waiting: resetting both counts loses nothing.
Accounted == received = unpacked + backlog

\* Only an attached client pauses.
PausesAttached == paused => attached

PauseInv == PauseTypeOK /\ Accounted /\ PausesAttached /\ PausedMeansBacklog

USE BackpressureAssumption

LEMMA PauseInitInv == PauseInit => PauseInv
<1> SUFFICES ASSUME PauseInit PROVE PauseInv
  OBVIOUS
<1>1. control \in Seq(Controls)
  BY DEF PauseInit
<1>2. paused = FALSE /\ attached = FALSE /\ senderPaused = FALSE
  BY DEF PauseInit
<1>3. received = 0 /\ unpacked = 0 /\ backlog = 0 /\ wire = 0 /\ sent = 0
  BY DEF PauseInit
<1>4. PausedMeansBacklog /\ PausesAttached
  BY <1>2 DEF PausedMeansBacklog, PausesAttached
<1>5. Accounted
  BY <1>3 DEF Accounted
<1>6. paused \in BOOLEAN /\ attached \in BOOLEAN /\ senderPaused \in BOOLEAN
  BY <1>2
<1> QED BY <1>1, <1>3, <1>4, <1>5, <1>6 DEF PauseInv, PauseTypeOK

\* Unpacking the last byte of the backlog brings the counts together, and then
\* there is no reason to pause.
LEMMA CaughtUp ==
  ASSUME PauseInv, NEW n \in 1 .. backlog
  PROVE  /\ unpacked + n <= received
         /\ backlog - n = received - (unpacked + n)
         /\ backlog - n \in Nat /\ unpacked + n \in Nat
         /\ (backlog - n = 0 <=> unpacked + n >= received)
  BY DEF PauseInv, PauseTypeOK, Accounted

LEMMA UnpackInv == PauseInv /\ Unpack => PauseInv'
<1> SUFFICES ASSUME PauseInv, Unpack PROVE PauseInv'
  OBVIOUS
<1>1. PICK n \in 1 .. backlog :
        LET u == unpacked + UnpackedSize(n)
            caughtUp == u >= received
        IN  /\ backlog' = backlog - n
            /\ received' = IF caughtUp THEN 0 ELSE received
            /\ unpacked' = IF caughtUp THEN 0 ELSE u
            /\ IF attached /\ paused # ShouldPause(received', unpacked')
               THEN paused' = ~paused /\ control' = control \o Request(~paused)
               ELSE UNCHANGED <<paused, control>>
            /\ UNCHANGED <<attached, wire, senderPaused, sent>>
  BY DEF Unpack
<1> DEFINE caught == unpacked + n >= received
<1>2. /\ backlog' = backlog - n
      /\ received' = IF caught THEN 0 ELSE received
      /\ unpacked' = IF caught THEN 0 ELSE unpacked + n
      /\ UNCHANGED <<attached, wire, senderPaused, sent>>
  BY <1>1 DEF UnpackedSize
<1>3. /\ unpacked + n <= received /\ backlog - n = received - (unpacked + n)
      /\ backlog - n \in Nat /\ unpacked + n \in Nat
      /\ (backlog - n = 0 <=> caught)
  BY CaughtUp
<1>4. received' \in Nat /\ unpacked' \in Nat /\ backlog' \in Nat
  BY <1>2, <1>3 DEF PauseInv, PauseTypeOK
<1>5. received' = unpacked' + backlog'
  <2>1. CASE caught
    BY <2>1, <1>2, <1>3
  <2>2. CASE ~caught
    BY <2>2, <1>2, <1>3 DEF PauseInv, PauseTypeOK
  <2> QED BY <2>1, <2>2
<1>6. ShouldPause(received', unpacked') => backlog' # 0
  BY <1>2, <1>3 DEF ShouldPause
<1>7. CASE attached /\ paused # ShouldPause(received', unpacked')
  <2>1. paused' = ~paused /\ control' = control \o Request(~paused)
    BY <1>1, <1>7
  <2>2. paused' \in BOOLEAN
    BY <2>1
  <2>3. Request(~paused) \in Seq(Controls)
    BY DEF Request, Controls
  <2>4. control' \in Seq(Controls)
    BY <2>1, <2>3 DEF PauseInv, PauseTypeOK
  <2>5. paused' => ShouldPause(received', unpacked')
    BY <2>1, <1>7 DEF PauseInv, PauseTypeOK, ShouldPause
  <2>6. paused' => backlog' > 0
    BY <2>5, <1>6, <1>4
  <2>7. paused' => attached'
    BY <1>2, <1>7
  <2> QED BY <2>2, <2>4, <2>6, <2>7, <1>2, <1>4, <1>5
          DEF PauseInv, PauseTypeOK, Accounted, PausesAttached, PausedMeansBacklog
<1>8. CASE ~(attached /\ paused # ShouldPause(received', unpacked'))
  <2>1. UNCHANGED <<paused, control>>
    BY <1>1, <1>8
  <2>2. paused => ShouldPause(received', unpacked')
    BY <1>8 DEF PauseInv, PauseTypeOK, PausesAttached, ShouldPause
  <2>3. paused' => backlog' > 0
    BY <2>1, <2>2, <1>6, <1>4
  <2> QED BY <2>1, <2>3, <1>2, <1>4, <1>5
          DEF PauseInv, PauseTypeOK, Accounted, PausesAttached, PausedMeansBacklog
<1> QED BY <1>7, <1>8

LEMMA PauseStepInv == PauseInv /\ [PauseNext]_pauseVars => PauseInv'
<1> SUFFICES ASSUME PauseInv, [PauseNext]_pauseVars PROVE PauseInv'
  OBVIOUS
<1> USE DEF PauseInv, PauseTypeOK, Accounted, PausesAttached, PausedMeansBacklog
<1>1. CASE Arrive
  BY <1>1 DEF Arrive
<1>2. CASE Attach
  BY <1>2 DEF Attach
<1>3. CASE Unpack
  BY <1>3, UnpackInv
<1>4. CASE HandleControl
  <2>1. control' \in Seq(Controls)
    BY <1>4 DEF HandleControl
  <2>2. senderPaused' \in BOOLEAN
    BY <1>4 DEF HandleControl
  <2> QED BY <2>1, <2>2, <1>4 DEF HandleControl, browserVars
<1>5. CASE Write
  BY <1>5 DEF Write, browserVars
<1>6. CASE UNCHANGED pauseVars
  BY <1>6 DEF pauseVars, browserVars
<1> QED BY <1>1, <1>2, <1>3, <1>4, <1>5, <1>6 DEF PauseNext

\* A client that has unpacked everything that arrived has asked the backend to
\* resume (socket.js, inboundUnpacked): for any message sizes, threshold and factor.
THEOREM NeverPausedForGood == PauseSpec => []PausedMeansBacklog
<1>1. PauseInit => PauseInv
  BY PauseInitInv
<1>2. PauseInv /\ [PauseNext]_pauseVars => PauseInv'
  BY PauseStepInv
<1>3. PauseInv => PausedMeansBacklog
  BY DEF PauseInv
<1> QED BY <1>1, <1>2, <1>3, PTL DEF PauseSpec

----------------------------------------------------------------------------
(* Pauses and resumes alternate.                                            *)

\* The request before position i: what the backend has, or the control before.
Before(q, held, i) == IF i = 1 THEN IF held THEN "pause" ELSE "resume" ELSE q[i - 1]
Alternates(q, held) == \A i \in 1 .. Len(q) : q[i] # Before(q, held, i)
AgreesWith(q, held, p) == p = IF q = <<>> THEN held ELSE q[Len(q)] = "pause"

LEMMA PauseAgreedUnfolded ==
  PauseAgreed <=> AgreesWith(control, senderPaused, paused) /\ Alternates(control, senderPaused)
  BY DEF PauseAgreed, AgreesWith, Alternates, Before, Last

LEMMA RequestKeeps ==
  ASSUME NEW q \in Seq(Controls), NEW held \in BOOLEAN, NEW p \in BOOLEAN,
         AgreesWith(q, held, p), Alternates(q, held)
  PROVE  AgreesWith(q \o Request(~p), held, ~p) /\ Alternates(q \o Request(~p), held)
<1> DEFINE r == IF ~p THEN "pause" ELSE "resume"
           s == Append(q, r)
<1>1. q \o Request(~p) = s
  BY DEF Request, Controls
<1>2. /\ Len(s) = Len(q) + 1 /\ s[Len(q) + 1] = r /\ s # <<>>
      /\ \A i \in 1 .. Len(q) : s[i] = q[i]
  BY DEF Controls
<1>3. AgreesWith(s, held, ~p)
  BY <1>2 DEF AgreesWith
<1>4. ASSUME NEW i \in 1 .. Len(s) PROVE s[i] # Before(s, held, i)
  <2>1. CASE i \in 1 .. Len(q)
    <3>1. Before(s, held, i) = Before(q, held, i)
      BY <2>1, <1>2 DEF Before
    <3> QED BY <3>1, <2>1, <1>2 DEF Alternates
  <2>2. CASE i = Len(q) + 1 /\ q = <<>>
    BY <2>2, <1>2 DEF Before, AgreesWith
  <2>3. CASE i = Len(q) + 1 /\ q # <<>>
    <3>1. Before(s, held, i) = q[Len(q)]
      BY <2>3, <1>2 DEF Before
    <3>2. q[Len(q)] \in Controls
      BY <2>3
    <3> QED BY <3>1, <3>2, <2>3, <1>2 DEF AgreesWith, Controls
  <2> QED BY <2>1, <2>2, <2>3, <1>2
<1> HIDE DEF s, r
<1> QED BY <1>1, <1>3, <1>4 DEF Alternates

LEMMA HandledKeeps ==
  ASSUME NEW q \in Seq(Controls), NEW held \in BOOLEAN, NEW p \in BOOLEAN, q # <<>>,
         AgreesWith(q, held, p), Alternates(q, held)
  PROVE  AgreesWith(Tail(q), Head(q) = "pause", p) /\ Alternates(Tail(q), Head(q) = "pause")
<1>1. /\ Len(Tail(q)) = Len(q) - 1 /\ Head(q) = q[1]
      /\ \A i \in 1 .. Len(Tail(q)) : Tail(q)[i] = q[i + 1]
      /\ \A i \in 1 .. Len(q) : q[i] \in Controls
      /\ Len(q) \in Nat /\ Len(q) > 0
  OBVIOUS
<1>2. AgreesWith(Tail(q), Head(q) = "pause", p)
  <2>1. CASE Len(q) = 1
    <3>1. Tail(q) = <<>>
      <4>1. Tail(q) \in Seq(Controls) /\ Len(Tail(q)) = 0
        BY <2>1, <1>1
      <4> QED BY <4>1, EmptySeq
    <3>2. p = (Head(q) = "pause")
      BY <2>1, <1>1 DEF AgreesWith
    <3> QED BY <3>1, <3>2, Zenon DEF AgreesWith
  <2>2. CASE Len(q) # 1
    <3>1. Tail(q) # <<>> /\ Tail(q)[Len(Tail(q))] = q[Len(q)]
      BY <2>2, <1>1
    <3> QED BY <3>1 DEF AgreesWith
  <2> QED BY <2>1, <2>2
<1>3. ASSUME NEW i \in 1 .. Len(Tail(q))
      PROVE  Tail(q)[i] # Before(Tail(q), Head(q) = "pause", i)
  <2>1. q[i + 1] # Before(q, held, i + 1) /\ Before(q, held, i + 1) = q[i]
    BY <1>1 DEF Alternates, Before
  <2>2. Before(Tail(q), Head(q) = "pause", i) = q[i]
    <3>1. CASE i = 1
      BY <3>1, <1>1 DEF Before, Controls
    <3>2. CASE i # 1
      BY <3>2, <1>1 DEF Before
    <3> QED BY <3>1, <3>2
  <2> QED BY <2>1, <2>2, <1>1
<1> QED BY <1>2, <1>3 DEF Alternates

\* The backend always ends up as paused as the client is, and the client never
\* repeats itself (socket.js, streamPaused; handler.go, handleControl).
THEOREM PausesAlternate == PauseSpec => []PauseAgreed
<1> DEFINE A == AgreesWith(control, senderPaused, paused) /\ Alternates(control, senderPaused)
<1>1. ASSUME PauseInit PROVE A
  <2>1. control = <<>> /\ senderPaused = FALSE /\ paused = FALSE
    BY <1>1 DEF PauseInit
  <2>2. AgreesWith(control, senderPaused, paused)
    BY <2>1, Zenon DEF AgreesWith
  <2>3. Alternates(control, senderPaused)
    BY <2>1 DEF Alternates
  <2> QED BY <2>2, <2>3
<1>2. ASSUME PauseInv, A, [PauseNext]_pauseVars PROVE A'
  <2> USE DEF PauseInv, PauseTypeOK
  <2>1. CASE Unpack
    <3>1. \/ UNCHANGED <<paused, control, senderPaused>>
          \/ /\ paused' = ~paused /\ control' = control \o Request(~paused)
             /\ UNCHANGED senderPaused
      BY <2>1 DEF Unpack
    <3>2. CASE UNCHANGED <<paused, control, senderPaused>>
      BY <3>2, <1>2 DEF AgreesWith, Alternates, Before
    <3>3. CASE /\ paused' = ~paused /\ control' = control \o Request(~paused)
               /\ UNCHANGED senderPaused
      <4>1. /\ AgreesWith(control \o Request(~paused), senderPaused, ~paused)
            /\ Alternates(control \o Request(~paused), senderPaused)
        BY <1>2, RequestKeeps
      <4> QED BY <4>1, <3>3
    <3> QED BY <3>1, <3>2, <3>3
  <2>2. CASE HandleControl
    <3>1. /\ control # <<>> /\ control' = Tail(control)
          /\ senderPaused' = (Head(control) = "pause") /\ UNCHANGED paused
      BY <2>2 DEF HandleControl, browserVars
    <3>2. /\ AgreesWith(Tail(control), Head(control) = "pause", paused)
          /\ Alternates(Tail(control), Head(control) = "pause")
      BY <1>2, <3>1, HandledKeeps
    <3> QED BY <3>1, <3>2
  <2>3. CASE UNCHANGED <<paused, control, senderPaused>>
    BY <2>3, <1>2 DEF AgreesWith, Alternates, Before
  <2>4. Arrive \/ Attach \/ Write \/ UNCHANGED pauseVars => UNCHANGED <<paused, control, senderPaused>>
    BY DEF Arrive, Attach, Write, pauseVars, browserVars
  <2> QED BY <1>2, <2>1, <2>2, <2>3, <2>4 DEF PauseNext
<1>3. A => PauseAgreed
  BY PauseAgreedUnfolded
<1>4. PauseInv /\ [PauseNext]_pauseVars => PauseInv'
  BY PauseStepInv
<1>5. PauseInit => PauseInv
  BY PauseInitInv
<1> QED BY <1>1, <1>2, <1>3, <1>4, <1>5, PTL DEF PauseSpec

============================================================================
