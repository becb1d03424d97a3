--------------------------- MODULE FlvRingProofs ---------------------------
(***************************************************************************)
(* Facts about the operators of FlvRing, for any ring and cache size and   *)
(* any number of viewers, that the proofs about both viewer bridges use:   *)
(* what compacting the client table keeps, that the ring shows the bytes   *)
(* of the stream as long as they are not overwritten, and that the cache   *)
(* is the beginning of the stream.                                         *)
(***************************************************************************)
EXTENDS FlvRing, TLAPS, FiniteSetTheorems, SequenceTheorems, WellFoundedInduction

-----------------------------------------------------------------------------
\* The least number principle, from the well-foundedness of finite sets: it
\* stands in for the induction theorems, which take an operator.
LEMMA LeastNumber ==
    ASSUME NEW T \in SUBSET Nat, NEW n \in T
    PROVE  \E m \in T : \A k \in T : m \leq k
<1> DEFINE Below(m) == 0..m
<1> DEFINE U == {Below(m) : m \in {k \in T : k \leq n}}
<1>1. IsFiniteSet(Below(n))
  BY FS_Interval
<1>2. U \subseteq SUBSET Below(n) /\ U # {}
  OBVIOUS
<1>3. \E x \in U : \A y \in U : ~(<<y, x>> \in StrictSubsetOrdering(Below(n)))
  <2>1. IsWellFoundedOn(StrictSubsetOrdering(Below(n)), FiniteSubsetsOf(Below(n)))
    BY FS_StrictSubsetOrderingWellFounded
  <2>2. FiniteSubsetsOf(Below(n)) = SUBSET Below(n)
    BY <1>1, FS_FiniteSubsetsOfFinite
  <2> HIDE DEF U, Below
  <2> QED
    BY <1>2, <2>1, <2>2, WFMin
<1>4. PICK m \in T : /\ m \leq n
                     /\ \A k \in T : k \leq n => ~(<<Below(k), Below(m)>> \in StrictSubsetOrdering(Below(n)))
  BY <1>3
<1>5. ASSUME NEW k \in T, k < m PROVE FALSE
  <2>1. <<Below(k), Below(m)>> \in StrictSubsetOrdering(Below(n))
    BY <1>4, <1>5 DEF StrictSubsetOrdering
  <2> QED
    BY <2>1, <1>4, <1>5
<1> QED
  BY <1>4, <1>5

\* The slots of a table that are kept have an order.
Ordered(f, m) == \A i, j \in 1..m : i < j => f[i] < f[j]

\* A set of slots can be listed in order; its size is at most theirs.
LEMMA Enumeration ==
    ASSUME NEW n \in Nat, NEW K \in SUBSET (1..n)
    PROVE  /\ IsFiniteSet(K) /\ Cardinality(K) \in 0..n
           /\ \E f \in Bijection(1..Cardinality(K), K) : Ordered(f, Cardinality(K))
<1> DEFINE Enumerates(m, f, h) == f \in Bijection(1..m, K \intersect (1..h)) /\ Ordered(f, m)
<1> DEFINE Bad == {h \in 0..n : ~\E m \in 0..h : \E f : Enumerates(m, f, h)}
<1>1. Bad = {}
  <2> SUFFICES ASSUME Bad # {} PROVE FALSE
    OBVIOUS
  <2>1. PICK h \in Bad : \A k \in Bad : h \leq k
    <3> HIDE DEF Bad
    <3>1. Bad \in SUBSET Nat
      BY DEF Bad
    <3> QED
      BY <3>1, LeastNumber
  <2>2. h # 0
    <3>1. \E f : Enumerates(0, f, 0)
      <4>1. Enumerates(0, [i \in 1..0 |-> 0], 0)
        BY DEF Bijection, Injection, Surjection, IsInjective, Ordered
      <4> QED
        BY <4>1
    <3> HIDE DEF Enumerates
    <3> QED
      BY <3>1, <2>1
  <2>3. h - 1 \in 0..n /\ h - 1 \notin Bad
    BY <2>1, <2>2
  <2>4. PICK m \in 0..(h - 1) : \E f : Enumerates(m, f, h - 1)
    <3> HIDE DEF Enumerates
    <3> QED
      BY <2>3
  <2> PICK f : Enumerates(m, f, h - 1)
    BY <2>4
  <2>5. CASE h \notin K
    <3>1. K \intersect (1..h) = K \intersect (1..(h - 1))
      BY <2>5
    <3>2. Enumerates(m, f, h)
      BY <3>1
    <3> HIDE DEF Enumerates
    <3> QED
      BY <3>2, <2>1
  <2>6. CASE h \in K
    <3> DEFINE g == [i \in 1..(m + 1) |-> IF i = m + 1 THEN h ELSE f[i]]
    <3>1. f \in [1..m -> K \intersect (1..(h - 1))]
      BY DEF Bijection, Injection
    <3>2. \A i, j \in 1..m : f[i] = f[j] => i = j
      BY DEF Bijection, Injection, IsInjective
    <3>3. \A t \in K \intersect (1..(h - 1)) : \E i \in 1..m : f[i] = t
      BY DEF Bijection, Surjection
    <3>4. g \in [1..(m + 1) -> K \intersect (1..h)]
      BY <3>1, <2>6
    <3>5. \A i, j \in 1..(m + 1) : g[i] = g[j] => i = j
      BY <3>1, <3>2
    <3>6. \A t \in K \intersect (1..h) : \E i \in 1..(m + 1) : g[i] = t
      <4>1. g[m + 1] = h /\ \A i \in 1..m : g[i] = f[i]
        OBVIOUS
      <4> QED
        BY <4>1, <3>3
    <3>7. Ordered(g, m + 1)
      <4>1. Ordered(f, m)
        OBVIOUS
      <4> QED
        BY <3>1, <4>1 DEF Ordered
    <3>8. Enumerates(m + 1, g, h)
      BY <3>4, <3>5, <3>6, <3>7 DEF Bijection, Injection, Surjection, IsInjective
    <3> HIDE DEF Enumerates, g
    <3> QED
      BY <3>8, <2>1
  <2> QED
    BY <2>5, <2>6
<1>2. PICK m \in 0..n : \E f : Enumerates(m, f, n)
  <2> HIDE DEF Enumerates
  <2> QED
    BY <1>1
<1> PICK f : Enumerates(m, f, n)
  BY <1>2
<1>3. K \intersect (1..n) = K
  OBVIOUS
<1>4. f \in Bijection(1..m, K) /\ Ordered(f, m)
  BY <1>3
<1>5. ExistsBijection(1..m, K)
  BY <1>4 DEF ExistsBijection
<1>6. Cardinality(K) = m
  BY <1>5, FS_CountingElements
<1>7. IsFiniteSet(K)
  <2>1. IsFiniteSet(1..n)
    BY FS_Interval
  <2> QED
    BY <2>1, FS_Subset
<1> QED
  BY <1>4, <1>6, <1>7

\* The table K holds the slots of the viewers in kept, each once.
KeptOnce(K, kept) ==
    \E m \in 0..Len(clients) : \E o \in [1..m -> DOMAIN clients] :
        /\ DOMAIN K = 1..m /\ \A i \in 1..m : K[i] = clients[o[i]]
        /\ \A i, j \in 1..m : o[i] = o[j] => i = j
        /\ \A i \in 1..m : clients[o[i]].v \in kept
        /\ \A j \in DOMAIN clients : clients[j].v \in kept => \E i \in 1..m : o[i] = j

\* Compacting the table keeps exactly the slots of the viewers that stay.
LEMMA KeptSlots == ASSUME NEW S, clients \in Seq(S), NEW kept PROVE KeptOnce(Kept(kept), kept)
<1> DEFINE K == {i \in DOMAIN clients : clients[i].v \in kept}
           m == Cardinality(K)
           o == CHOOSE f \in Bijection(1..m, K) : \A i, j \in 1..m : i < j => f[i] < f[j]
<1>1. Len(clients) \in Nat /\ DOMAIN clients = 1..Len(clients)
  OBVIOUS
<1>2. K \in SUBSET (1..Len(clients))
  BY <1>1
<1>3. m \in 0..Len(clients) /\ \E f \in Bijection(1..m, K) : Ordered(f, m)
  <2> HIDE DEF K
  <2> QED
    BY <1>1, <1>2, Enumeration
<1>4. o \in Bijection(1..m, K)
  <2> HIDE DEF K, m
  <2> QED
    BY <1>3 DEF Ordered
<1>5. DOMAIN Kept(kept) = 1..m /\ \A i \in 1..m : Kept(kept)[i] = clients[o[i]]
  BY DEF Kept
<1> HIDE DEF o, m
<1>6. o \in [1..m -> K] /\ (\A i, j \in 1..m : o[i] = o[j] => i = j) /\ \A t \in K : \E i \in 1..m : o[i] = t
  <2> HIDE DEF K
  <2> QED
    BY <1>4 DEF Bijection, Injection, Surjection, IsInjective
<1>7. o \in [1..m -> DOMAIN clients]
  BY <1>6
<1>8. \A i \in 1..m : clients[o[i]].v \in kept
  BY <1>6
<1>9. \A j \in DOMAIN clients : clients[j].v \in kept => \E i \in 1..m : o[i] = j
  BY <1>6
<1>10. m \in 0..Len(clients) /\ \A i, j \in 1..m : o[i] = o[j] => i = j
  BY <1>3, <1>6
<1> HIDE DEF K
<1>11. m \in 0..Len(clients)
  BY <1>10
<1> SUFFICES \E k \in 0..Len(clients) : \E f \in [1..k -> DOMAIN clients] :
               /\ DOMAIN Kept(kept) = 1..k /\ \A i \in 1..k : Kept(kept)[i] = clients[f[i]]
               /\ \A i, j \in 1..k : f[i] = f[j] => i = j
               /\ \A i \in 1..k : clients[f[i]].v \in kept
               /\ \A j \in DOMAIN clients : clients[j].v \in kept => \E i \in 1..k : f[i] = j
  BY DEF KeptOnce
<1> WITNESS m \in 0..Len(clients), o \in [1..m -> DOMAIN clients]
<1> QED
  BY <1>5, <1>7, <1>8, <1>9, <1>10

-----------------------------------------------------------------------------
\* Places of the ring less than a round apart are different.
LEMMA Places ==
    ASSUME NEW n \in Nat \ {0}, NEW a \in Nat, NEW b \in Nat, a < b, b < a + n
    PROVE  a % n \in 0..(n - 1) /\ b % n \in 0..(n - 1) /\ a % n # b % n
<1>1. a = n * (a \div n) + (a % n) /\ a % n \in 0..(n - 1) /\ a \div n \in Int
  OBVIOUS
<1>2. b = n * (b \div n) + (b % n) /\ b % n \in 0..(n - 1) /\ b \div n \in Int
  OBVIOUS
<1>3. ASSUME a % n = b % n PROVE FALSE
  <2> DEFINE x == a \div n
             y == b \div n
  <2>1. x \in Int /\ y \in Int /\ b - a = n * y - n * x
    BY <1>1, <1>2, <1>3
  <2> HIDE DEF x, y
  <2>2. b - a = n * (y - x)
    BY <2>1
  <2>3. y - x \in Int
    BY <2>1
  <2>4. CASE y - x \leq 0
    <3>1. \A d \in Int : d \leq 0 => n * d \leq 0
      OBVIOUS
    <3> QED
      BY <2>2, <2>3, <2>4, <3>1
  <2>5. CASE y - x \geq 1
    <3>1. \A d \in Int : d \geq 1 => n * d \geq n
      OBVIOUS
    <3> QED
      BY <2>2, <2>3, <2>5, <3>1
  <2> QED
    BY <2>3, <2>4, <2>5
<1> QED
  BY <1>1, <1>2, <1>3

\* n bytes of session s from position a on.
Slice(s, a, n) == [i \in 1..n |-> <<s, a + i - 1>>]

\* The ring has every byte of the stream that is not a round old, and the
\* cache is its beginning.
RingHolds == \A p \in 0..(total - 1) : total - p \leq Cap => buf[p % Cap] = <<session, p>>
CacheHolds == header = Slice(session, 0, Least(total, HeaderCacheSize))

\* Concatenation and parts under names of their own: the provers expand the
\* operators of Sequences position by position and then lose equalities.
Cat(x, y) == x \o y
Part(x, l, u) == SubSeq(x, l, u)

\* A run of the stream is a sequence of its bytes.
LEMMA SliceSeq ==
    ASSUME NEW s \in Nat, NEW a \in Nat, NEW n \in Nat
    PROVE  /\ Slice(s, a, n) \in Seq(Nat \X Nat) /\ Len(Slice(s, a, n)) = n
           /\ \A i \in 1..n : Slice(s, a, n)[i] = <<s, a + i - 1>>
BY DEF Slice

\* A run of no bytes is empty.
LEMMA SliceNothing ==
    ASSUME NEW s \in Nat, NEW a \in Nat
    PROVE  Slice(s, a, 0) = <<>>
BY DEF Slice

\* Two adjacent runs of the stream are one.
LEMMA SliceConcat ==
    \A s, a, n, b, m, t \in Nat :
        b = a + n /\ t = n + m => Cat(Slice(s, a, n), Slice(s, b, m)) = Slice(s, a, t)
<1> TAKE s \in Nat, a \in Nat, n \in Nat, b \in Nat, m \in Nat, t \in Nat
<1> HAVE b = a + n /\ t = n + m
<1> DEFINE x == Slice(s, a, n)
           y == Slice(s, b, m)
           z == Slice(s, a, t)
<1>1. x \in Seq(Nat \X Nat) /\ Len(x) = n /\ \A i \in 1..n : x[i] = <<s, a + i - 1>>
  BY DEF Slice
<1>2. y \in Seq(Nat \X Nat) /\ Len(y) = m /\ \A i \in 1..m : y[i] = <<s, b + i - 1>>
  BY DEF Slice
<1>3. z \in Seq(Nat \X Nat) /\ Len(z) = n + m /\ \A i \in 1..(n + m) : z[i] = <<s, a + i - 1>>
  BY DEF Slice
<1> HIDE DEF x, y, z
<1>4. /\ x \o y \in Seq(Nat \X Nat) /\ Len(x \o y) = n + m
      /\ \A i \in 1..(n + m) : (x \o y)[i] = IF i \leq n THEN x[i] ELSE y[i - n]
  BY <1>1, <1>2, ConcatProperties
<1>5. ASSUME NEW i \in 1..(n + m) PROVE (x \o y)[i] = z[i]
  <2>1. z[i] = <<s, a + i - 1>>
    BY <1>3
  <2>2. CASE i \leq n
    <3>1. i \in 1..n
      BY <2>2
    <3>2. (x \o y)[i] = x[i]
      BY <1>4, <2>2
    <3> QED
      BY <2>1, <3>1, <3>2, <1>1
  <2>3. CASE ~(i \leq n)
    <3>1. (x \o y)[i] = y[i - n]
      BY <1>4, <2>3
    <3>2. i - n \in 1..m /\ b + (i - n) - 1 = a + i - 1
      BY <2>3
    <3>3. y[i - n] = <<s, b + (i - n) - 1>>
      BY <3>2, <1>2
    <3> QED
      BY <2>1, <3>1, <3>2, <3>3
  <2> QED
    BY <2>2, <2>3
<1>6. x \o y = z
  BY <1>3, <1>4, <1>5, SeqEqual
<1> QED
  BY <1>6 DEF x, y, z, Cat

\* A part of a run is a run.
LEMMA SliceSub ==
    \A s, a, n, l, u, b, r \in Nat :
        l \geq 1 /\ u \leq n /\ u = l + r - 1 /\ b = a + l - 1
          => Part(Slice(s, a, n), l, u) = Slice(s, b, r)
<1> TAKE s \in Nat, a \in Nat, n \in Nat, l \in Nat, u \in Nat, b \in Nat, r \in Nat
<1> HAVE l \geq 1 /\ u \leq n /\ u = l + r - 1 /\ b = a + l - 1
<1> DEFINE x == Slice(s, a, n)
           y == Slice(s, b, r)
           z == SubSeq(x, l, u)
<1>1. x \in Seq(Nat \X Nat) /\ Len(x) = n /\ \A i \in 1..n : x[i] = <<s, a + i - 1>>
  BY DEF Slice
<1>2. y \in Seq(Nat \X Nat) /\ Len(y) = r /\ \A i \in 1..r : y[i] = <<s, b + i - 1>>
  BY DEF Slice
<1> HIDE DEF x, y
<1>3. \A i \in l..u : x[i] \in Nat \X Nat
  BY <1>1
<1>4. z \in Seq(Nat \X Nat) /\ Len(z) = r /\ \A i \in 1..r : z[i] = x[l + i - 1]
  BY <1>3, SubSeqProperties
<1>5. ASSUME NEW i \in 1..r PROVE z[i] = y[i]
  <2>1. l + i - 1 \in 1..n /\ a + (l + i - 1) - 1 = b + i - 1
    OBVIOUS
  <2>2. x[l + i - 1] = <<s, a + (l + i - 1) - 1>>
    BY <2>1, <1>1
  <2> QED
    BY <2>1, <2>2, <1>2, <1>4
<1> HIDE DEF z
<1>6. z = y
  BY <1>2, <1>4, <1>5, SeqEqual
<1> QED
  BY <1>6 DEF x, y, z, Part

\* What a client received, a beginning and a run from j on, after more of
\* either: the run is empty until the beginning is complete.
LEMMA SliceGrow ==
    ASSUME NEW s, NEW h, NEW r, NEW j, NEW k, NEW f, NEW p,
           s \in Nat, h \in Nat, r \in Nat, j \in Nat, k \in Nat, f \in Nat, p \in Nat,
           r = 0 \/ k = 0, p = j + k
    PROVE  Cat(Cat(Slice(s, 0, h), Slice(s, j, k)), Cat(Slice(s, h, r), Slice(s, p, f)))
             = Cat(Slice(s, 0, h + r), Slice(s, j, k + f))
<1> SUFFICES ASSUME NEW x \in Nat, NEW y \in Nat, x = h + r, y = k + f
             PROVE  Cat(Cat(Slice(s, 0, h), Slice(s, j, k)), Cat(Slice(s, h, r), Slice(s, p, f)))
                      = Cat(Slice(s, 0, x), Slice(s, j, y))
  OBVIOUS
<1> DEFINE S == Nat \X Nat
           a == Slice(s, 0, h)
           b == Slice(s, j, k)
           c == Slice(s, h, r)
           d == Slice(s, p, f)
<1>1. a \in Seq(S) /\ b \in Seq(S) /\ c \in Seq(S) /\ d \in Seq(S)
  <2>1. 0 \in Nat
    OBVIOUS
  <2> QED
    BY <2>1, SliceSeq
<1>2. Cat(a, c) = Slice(s, 0, x)
  <2>1. 0 \in Nat /\ h = 0 + h
    OBVIOUS
  <2> QED
    BY <2>1, SliceConcat
<1>3. Cat(b, d) = Slice(s, j, y)
  BY SliceConcat
<1>4. r = 0 => c = <<>>
  BY SliceNothing
<1>5. k = 0 => b = <<>>
  BY SliceNothing
<1> HIDE DEF a, b, c, d, S
<1>6. Cat(Cat(a, b), Cat(c, d)) = Cat(Cat(a, c), Cat(b, d))
  <2>1. CASE r = 0
    <3>1. Cat(c, d) = d /\ Cat(a, c) = a
      BY <2>1, <1>4, <1>1, ConcatEmptySeq DEF Cat
    <3>2. Cat(Cat(a, b), d) = Cat(a, Cat(b, d))
      BY <1>1, ConcatAssociative DEF Cat
    <3> QED
      BY <3>1, <3>2
  <2>2. CASE k = 0
    <3>1. Cat(a, b) = a /\ Cat(b, d) = d
      BY <2>2, <1>5, <1>1, ConcatEmptySeq DEF Cat
    <3>2. Cat(Cat(a, c), d) = Cat(a, Cat(c, d))
      BY <1>1, ConcatAssociative DEF Cat
    <3> QED
      BY <3>1, <3>2
  <2> QED
    BY <2>1, <2>2
<1> QED
  BY <1>2, <1>3, <1>6 DEF a, b, c, d

-----------------------------------------------------------------------------
\* ring_write: after a message the ring still has the latest bytes.
LEMMA RingHoldsAfter ==
    ASSUME RingHolds, total \in Nat, session \in Nat, NEW n \in 1..MaxMsg,
           buf' = RingWrite(Message(n)), total' = total + n, session' = session
    PROVE  RingHolds'
<1> USE RingAssumption
<1>1. Len(Message(n)) = n /\ \A j \in 1..n : Message(n)[j] = <<session, total + j - 1>>
  BY DEF Message
<1> SUFFICES ASSUME NEW p \in 0..(total' - 1), total' - p \leq Cap
             PROVE  buf'[p % Cap] = <<session', p>>
  BY Zenon DEF RingHolds
<1> USE total' = total + n, session' = session
<1> DEFINE i == p % Cap
           At(j) == (total + j - 1) % Cap = i
<1>2. i \in 0..(Cap - 1)
  OBVIOUS
<1>3. buf'[i] = IF \E j \in 1..n : At(j) THEN Message(n)[CHOOSE j \in 1..n : At(j)] ELSE buf[i]
  BY <1>1, <1>2 DEF RingWrite
<1>4. CASE p \geq total
  <2>1. p - total + 1 \in 1..n /\ total + (p - total + 1) - 1 = p
    BY <1>4
  <2>2. At(p - total + 1)
    BY <2>1
  <2>3. ASSUME NEW j \in 1..n, At(j) PROVE total + j - 1 = p
    <3> DEFINE q == total + j - 1
    <3>1. q \in Nat /\ q % Cap = p % Cap /\ q < p + Cap /\ p < q + Cap
      BY <2>3, <1>4
    <3> HIDE DEF q
    <3>2. Cap \in Nat \ {0} /\ p \in Nat
      OBVIOUS
    <3> HIDE DEF q
    <3>3. ~(q < p) /\ ~(p < q)
      BY <3>1, <3>2, Places
    <3>4. q = p
      BY <3>1, <3>2, <3>3
    <3> QED
      BY <3>4 DEF q
  <2> DEFINE k == CHOOSE j \in 1..n : At(j)
  <2>4. k \in 1..n /\ At(k)
    BY <2>1, <2>2
  <2> HIDE DEF k
  <2>5. total + k - 1 = p
    BY <2>3, <2>4
  <2>6. buf'[i] = Message(n)[k]
    BY <1>3, <2>1, <2>2 DEF k
  <2> QED
    BY <2>4, <2>5, <2>6, <1>1
<1>5. CASE p < total
  <2>1. ASSUME NEW j \in 1..n, At(j) PROVE FALSE
    <3> DEFINE q == total + j - 1
    <3>1. q \in Nat /\ q % Cap = p % Cap /\ q < p + Cap /\ p < q
      BY <2>1, <1>5
    <3>2. Cap \in Nat \ {0} /\ p \in Nat
      OBVIOUS
    <3> HIDE DEF q
    <3> QED
      BY <3>1, <3>2, Places
  <2>2. buf'[i] = buf[i]
    BY <1>3, <2>1
  <2>3. p \in 0..(total - 1) /\ total - p \leq Cap
    BY <1>5
  <2> QED
    BY <2>2, <2>3 DEF RingHolds
<1> QED
  BY <1>4, <1>5

\* The cache stays the beginning of the stream.
LEMMA CacheHoldsAfter ==
    ASSUME CacheHolds, total \in Nat, session \in Nat, NEW n \in 1..MaxMsg,
           header' = CacheHeader(Message(n)), total' = total + n, session' = session
    PROVE  /\ CacheHolds' /\ header' = Slice(session, 0, Least(total + n, HeaderCacheSize))
           /\ Len(header) = Least(total, HeaderCacheSize)
           /\ Len(header') = Least(total + n, HeaderCacheSize)
<1> USE RingAssumption
<1>1. Message(n) = Slice(session, total, n)
  BY DEF Message, Slice
<1> DEFINE h == Least(total, HeaderCacheSize)
           k == Least(n, HeaderCacheSize - h)
<1>2. h \in Nat /\ k \in 0..n /\ h + k = Least(total + n, HeaderCacheSize) /\ (k = 0 \/ h = total)
  BY DEF Least
<1> HIDE DEF h
<1>3. header = Slice(session, 0, h) /\ Len(header) = h
  <2>1. 0 \in Nat
    OBVIOUS
  <2> QED
    BY <1>2, <2>1, SliceSeq DEF CacheHolds, h
<1>4. Len(Message(n)) = n
  BY <1>1, SliceSeq
<1>5. Part(Message(n), 1, k) = Slice(session, total, k)
  <2> HIDE DEF k
  <2>1. k \in Nat /\ k \leq n /\ n \in Nat /\ 1 \in Nat /\ k = 1 + k - 1 /\ total = total + 1 - 1
    BY <1>2
  <2>2. Part(Slice(session, total, n), 1, k) = Slice(session, total, k)
    BY <2>1, SliceSub
  <2> QED
    BY <1>1, <2>2
<1>6. header' = Cat(Slice(session, 0, h), Slice(session, total, k))
  BY <1>3, <1>4, <1>5 DEF CacheHeader, Cat, Part
<1> HIDE DEF k
<1>7. Slice(session, total, k) = Slice(session, h, k)
  <2>1. CASE h = total
    BY <2>1, <1>2
  <2>2. CASE k = 0
    BY <2>2 DEF Slice
  <2> QED
    BY <1>2, <2>1, <2>2
<1>8. header' = Slice(session, 0, h + k)
  <2>1. h \in Nat /\ k \in Nat /\ 0 \in Nat /\ h = 0 + h /\ h + k \in Nat
    BY <1>2
  <2>2. Cat(Slice(session, 0, h), Slice(session, h, k)) = Slice(session, 0, h + k)
    BY <2>1, SliceConcat
  <2> QED
    BY <2>2, <1>6, <1>7
<1>9. Len(header') = h + k
  <2>1. h + k \in Nat /\ 0 \in Nat
    BY <1>2
  <2> QED
    BY <2>1, <1>8, SliceSeq
<1>10. CacheHolds'
  BY <1>2, <1>8 DEF CacheHolds
<1> QED
  BY <1>2, <1>3, <1>8, <1>9, <1>10 DEF h

-----------------------------------------------------------------------------
\* A read of the ring shows the stream if nothing of it is a round old.
LEMMA ReadIs ==
    ASSUME RingHolds', session \in Nat, session' = session, total' \in Nat,
           NEW c \in Nat, NEW k \in Nat, c + k \leq total', k = 0 \/ total' - c \leq Cap
    PROVE  RingRead(c, k) = Slice(session, c, k)
<1>1. ASSUME NEW i \in 1..k PROVE buf'[(c + i - 1) % Cap] = <<session, c + i - 1>>
  <2> DEFINE q == c + i - 1
  <2>1. q \in 0..(total' - 1) /\ total' - q \leq Cap
    <3>1. Cap \in Nat
      BY RingAssumption
    <3>2. total' - c \leq Cap
      OBVIOUS
    <3>3. i \in Nat /\ 1 \leq i /\ i \leq k
      OBVIOUS
    <3>4. ASSUME NEW t \in Nat, c + k \leq t, t - c \leq Cap
          PROVE  q \in 0..(t - 1) /\ t - q \leq Cap
      BY <3>1, <3>3, <3>4
    <3> QED
      BY <3>2, <3>4
  <2> HIDE DEF q
  <2>2. buf'[q % Cap] = <<session', q>>
    BY <2>1 DEF RingHolds
  <2> QED
    BY <2>2 DEF q
<1> QED
  BY <1>1, Zenon DEF RingRead, Slice

\* drain_client_locked: what one client is sent.  r bytes of the cache and f
\* bytes of the ring, the latter only once the cache is out.
LEMMA DrainIs ==
    ASSUME session \in Nat, session' = session, total' \in Nat,
           NEW hl \in Nat, header' = Slice(session, 0, hl), RingHolds',
           NEW c, c.hdrOff \in Nat, c.hdrOff \leq hl, c.hdrSent \in BOOLEAN,
           NEW room \in Nat, NEW continue, NEW p \in Nat, p = Place(c, room, continue), p \leq total'
    PROVE  \E r \in Nat, f \in Nat :
             /\ r = Replayed(c, room) /\ f = FromRing(c, room, continue)
             /\ c.hdrOff + r \leq hl /\ p + f \leq total'
             /\ c.hdrSent => r = 0
             /\ ReplayDone(c, room) <=> (c.hdrSent \/ c.hdrOff + r = hl)
             /\ ~ReplayDone(c, room) => f = 0
             /\ f = 0 \/ total' - p \leq Cap
                  => Sent(c, room, continue) = Cat(Slice(session, c.hdrOff, r), Slice(session, p, f))
<1> DEFINE r == Replayed(c, room)
           f == FromRing(c, room, continue)
<1>1. Len(header') = hl
  <2>1. 0 \in Nat
    OBVIOUS
  <2> QED
    BY <2>1, SliceSeq
<1>2. r \in Nat /\ c.hdrOff + r \leq hl /\ (c.hdrSent => r = 0) /\ r \leq room
  BY <1>1 DEF Replayed, Least
<1>3. ReplayDone(c, room) <=> (c.hdrSent \/ c.hdrOff + r = hl)
  BY <1>1 DEF ReplayDone
<1> HIDE DEF r
<1>4. f = IF ReplayDone(c, room) THEN Least(room - r, total' - p) ELSE 0
  BY DEF FromRing, r
<1>5. f \in Nat /\ p + f \leq total' /\ (~ReplayDone(c, room) => f = 0)
  BY <1>2, <1>4 DEF Least
<1> HIDE DEF f
<1>6. f = 0 \/ total' - p \leq Cap => RingRead(p, f) = Slice(session, p, f)
  BY <1>5, ReadIs
<1>7. Part(header', c.hdrOff + 1, c.hdrOff + r) = Slice(session, c.hdrOff, r)
  <2> DEFINE l == c.hdrOff + 1
             u == c.hdrOff + r
             b == c.hdrOff
  <2>1. /\ 0 \in Nat /\ l \in Nat /\ u \in Nat /\ b \in Nat /\ r \in Nat
        /\ l \geq 1 /\ u \leq hl /\ u = l + r - 1 /\ b = 0 + l - 1
    BY <1>2
  <2> HIDE DEF l, u, b
  <2>2. Part(Slice(session, 0, hl), l, u) = Slice(session, b, r)
    BY <2>1, SliceSub
  <2> QED
    BY <2>2 DEF l, u, b
<1>8. Sent(c, room, continue) = Cat(Part(header', c.hdrOff + 1, c.hdrOff + r), RingRead(p, f))
  BY DEF Sent, Cat, Part, r, f
<1>9. f = 0 \/ total' - p \leq Cap
        => Sent(c, room, continue) = Cat(Slice(session, c.hdrOff, r), Slice(session, p, f))
  BY <1>6, <1>7, <1>8
<1>10. r = Replayed(c, room) /\ f = FromRing(c, room, continue)
  BY DEF r, f
<1> HIDE DEF r, f
<1> QED
  BY <1>2, <1>3, <1>5, <1>9, <1>10

-----------------------------------------------------------------------------
\* What is received only grows.
LEMMA CatGrows ==
    ASSUME NEW S, NEW x \in Seq(S), NEW y \in Seq(S)
    PROVE  Cat(x, y) \in Seq(S) /\ IsPrefix(x, Cat(x, y))
<1> DEFINE z == Cat(x, y)
<1>1. /\ z \in Seq(S) /\ Len(z) = Len(x) + Len(y)
      /\ \A i \in 1..(Len(x) + Len(y)) : z[i] = IF i \leq Len(x) THEN x[i] ELSE y[i - Len(x)]
  BY ConcatProperties DEF Cat
<1> HIDE DEF z
<1>2. Len(x) \in Nat /\ Len(y) \in Nat
  BY LenProperties
<1>3. \A i \in 1..Len(x) : z[i] = x[i] /\ x[i] \in S
  BY <1>1, <1>2
<1>4. SubSeq(x, 1, Len(x)) = x
  BY SubSeqFull
<1>5. /\ SubSeq(z, 1, Len(x)) \in Seq(S) /\ Len(SubSeq(z, 1, Len(x))) = Len(x)
      /\ \A i \in 1..Len(x) : SubSeq(z, 1, Len(x))[i] = z[i]
  <2>1. \A i \in 1..Len(x) : z[i] \in S
    BY <1>3
  <2> QED
    BY <1>2, <2>1, SubSeqProperties
<1>6. SubSeq(z, 1, Len(x)) = x
  BY <1>3, <1>5, SeqEqual
<1>7. Len(x) \leq Len(z)
  BY <1>1, <1>2
<1> QED
  BY <1>1, <1>4, <1>6, <1>7 DEF IsPrefix, z

\* A longer stream of the same session extends a shorter one.
LEMMA SlicePrefix ==
    ASSUME NEW s \in Nat, NEW n \in Nat, NEW t \in Nat, n \leq t
    PROVE  IsPrefix(Slice(s, 0, n), Slice(s, 0, t)) /\ (n < t => Slice(s, 0, n) # Slice(s, 0, t))
<1>1. 0 \in Nat /\ t - n \in Nat /\ n = 0 + n /\ t = n + (t - n)
  OBVIOUS
<1> DEFINE d == t - n
<1>2. Cat(Slice(s, 0, n), Slice(s, n, d)) = Slice(s, 0, t)
  <2> HIDE DEF d
  <2>1. d \in Nat /\ t = n + d
    BY <1>1 DEF d
  <2> QED
    BY <1>1, <2>1, SliceConcat
<1>3. Slice(s, 0, n) \in Seq(Nat \X Nat) /\ Slice(s, n, d) \in Seq(Nat \X Nat)
  BY <1>1, SliceSeq
<1>4. IsPrefix(Slice(s, 0, n), Slice(s, 0, t))
  BY <1>2, <1>3, CatGrows
<1>5. Len(Slice(s, 0, n)) = n /\ Len(Slice(s, 0, t)) = t
  BY <1>1, SliceSeq
<1> QED
  BY <1>4, <1>5

\* A table with one slot per viewer has as many slots as viewers.
LEMMA OneSlotEach ==
    ASSUME NEW S, clients \in Seq(S),
           \A i, j \in DOMAIN clients : clients[i].v = clients[j].v => i = j
    PROVE  IsFiniteSet(Members) /\ Len(clients) = Cardinality(Members)
<1> DEFINE n == Len(clients)
           f == [i \in 1..n |-> clients[i].v]
<1>1. n \in Nat /\ DOMAIN clients = 1..n
  BY LenProperties
<1>2. f \in Bijection(1..n, Members)
  <2>1. f \in [1..n -> Members]
    BY <1>1 DEF Members
  <2>2. \A i, j \in 1..n : f[i] = f[j] => i = j
    BY <1>1
  <2>3. \A t \in Members : \E i \in 1..n : f[i] = t
    BY <1>1 DEF Members
  <2> HIDE DEF f, n
  <2> QED
    BY <2>1, <2>2, <2>3 DEF Bijection, Injection, Surjection, IsInjective
<1> HIDE DEF f, n
<1>3. ExistsBijection(1..n, Members)
  BY <1>2 DEF ExistsBijection
<1>4. Cardinality(Members) = n
  BY <1>1, <1>3, FS_CountingElements
<1>5. IsFiniteSet(Members)
  <2>1. IsFiniteSet(1..n)
    BY <1>1, FS_Interval
  <2> QED
    BY <2>1, <1>2, FS_Surjection DEF Bijection, ExistsSurjection
<1> QED
  BY <1>4, <1>5 DEF n

-----------------------------------------------------------------------------
\* The table after a message: the kept slots in order, each one drained.
DrainedTo(D, kept, room, continue) ==
    \E m \in 0..Len(clients) : \E o \in [1..m -> DOMAIN clients] :
        /\ DOMAIN D = 1..m /\ Len(D) = m
        /\ \A T : (\A i \in 1..m : D[i] \in T) => D \in Seq(T)
        /\ \A i \in 1..m : D[i] = Drained(clients[o[i]], room[clients[o[i]].v], continue)
        /\ \A i, j \in 1..m : o[i] = o[j] => i = j
        /\ \A i \in 1..m : clients[o[i]].v \in kept
        /\ \A j \in DOMAIN clients : clients[j].v \in kept => \E i \in 1..m : o[i] = j

\* Draining changes what is in a slot and not whose it is.
LEMMA DrainedSlots ==
    ASSUME NEW S, NEW kept, NEW room, NEW continue, NEW D,
           clients \in Seq(S), D = DrainedClients(kept, room, continue)
    PROVE  DrainedTo(D, kept, room, continue)
<1> DEFINE K == Kept(kept)
<1> HIDE DEF K
<1>1. KeptOnce(K, kept)
  BY KeptSlots DEF K
<1>2. PICK m \in 0..Len(clients) : \E o \in [1..m -> DOMAIN clients] :
             /\ DOMAIN K = 1..m /\ \A i \in 1..m : K[i] = clients[o[i]]
             /\ \A i, j \in 1..m : o[i] = o[j] => i = j
             /\ \A i \in 1..m : clients[o[i]].v \in kept
             /\ \A j \in DOMAIN clients : clients[j].v \in kept => \E i \in 1..m : o[i] = j
  BY <1>1, Zenon DEF KeptOnce
<1> PICK o \in [1..m -> DOMAIN clients] :
             /\ DOMAIN K = 1..m /\ \A i \in 1..m : K[i] = clients[o[i]]
             /\ \A i, j \in 1..m : o[i] = o[j] => i = j
             /\ \A i \in 1..m : clients[o[i]].v \in kept
             /\ \A j \in DOMAIN clients : clients[j].v \in kept => \E i \in 1..m : o[i] = j
  BY <1>2
<1>3. D = [i \in DOMAIN K |-> Drained(K[i], room[K[i].v], continue)]
  BY DEF DrainedClients, K
<1>4. DOMAIN K = 1..m /\ \A i \in 1..m : K[i] = clients[o[i]]
  OBVIOUS
<1>5. D = [i \in 1..m |-> Drained(clients[o[i]], room[clients[o[i]].v], continue)]
  BY <1>3, <1>4, Zenon
<1>6. /\ DOMAIN D = 1..m
      /\ \A i \in 1..m : D[i] = Drained(clients[o[i]], room[clients[o[i]].v], continue)
  BY <1>5
<1>7. D = [i \in 1..m |-> D[i]]
  BY <1>5
<1>8. Len(D) = m
  BY <1>7
<1>9. ASSUME NEW T, \A i \in 1..m : D[i] \in T PROVE D \in Seq(T)
  BY <1>7, <1>9
<1> QED
  BY <1>6, <1>8, <1>9 DEF DrainedTo

\* What the viewers received is a function on them.
LEMMA GotType ==
    ASSUME NEW kept, NEW room, NEW continue, NEW T, NEW g, g = GotAfter(kept, room, continue),
           \A v \in Viewers : g[v] \in T
    PROVE  g \in [Viewers -> T]
BY Zenon DEF GotAfter

\* The fields of a drained client.
LEMMA DrainedFields ==
    ASSUME NEW c, NEW V, NEW X, NEW Y, NEW Z,
           c \in [v : V, cursor : X, hdrSent : Y, hdrOff : Z], NEW room, NEW continue
    PROVE  /\ Drained(c, room, continue).v = c.v
           /\ Drained(c, room, continue).cursor = Place(c, room, continue) + FromRing(c, room, continue)
           /\ Drained(c, room, continue).hdrSent = ReplayDone(c, room)
           /\ Drained(c, room, continue).hdrOff = c.hdrOff + Replayed(c, room)
           /\ DOMAIN Drained(c, room, continue) = DOMAIN c
           /\ Drained(c, room, continue)
                = [v |-> c.v, cursor |-> Drained(c, room, continue).cursor,
                   hdrSent |-> Drained(c, room, continue).hdrSent,
                   hdrOff |-> Drained(c, room, continue).hdrOff]
<1> DEFINE a == Place(c, room, continue) + FromRing(c, room, continue)
           b == ReplayDone(c, room)
           h == c.hdrOff + Replayed(c, room)
<1>1. Drained(c, room, continue) = [c EXCEPT !.hdrOff = h, !.hdrSent = b, !.cursor = a]
  BY DEF Drained
<1> HIDE DEF a, b, h
<1>2. Drained(c, room, continue) = [v |-> c.v, cursor |-> a, hdrSent |-> b, hdrOff |-> h]
  BY <1>1
<1> QED
  BY <1>2 DEF a, b, h

\* What a client has after a message: its slot is found by its descriptor.
LEMMA GotIs ==
    ASSUME \A i, j \in DOMAIN clients : clients[i].v = clients[j].v => i = j,
           NEW kept, NEW room, NEW continue, NEW j \in DOMAIN clients,
           clients[j].v \in kept, clients[j].v \in Viewers
    PROVE  GotAfter(kept, room, continue)[clients[j].v]
             = Cat(got[clients[j].v], Sent(clients[j], room[clients[j].v], continue))
<1> DEFINE v == clients[j].v
           k == CHOOSE i \in DOMAIN clients : clients[i].v = v
<1>1. k = j
  BY Zenon
<1>2. GotAfter(kept, room, continue)[v] = Cat(got[v], Sent(clients[k], room[v], continue))
  BY Zenon DEF GotAfter, Cat
<1> QED
  BY <1>1, <1>2, Zenon
=============================================================================
