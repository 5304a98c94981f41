----------------------------- MODULE TdqProofs -----------------------------
(***************************************************************************)
(* The safety of RunQueue and Tdq for every number of threads, queues and   *)
(* priorities.                                                              *)
(***************************************************************************)
EXTENDS Tdq, TLAPS, SequenceTheorems, FiniteSetTheorems, WellFoundedInduction
-----------------------------------------------------------------------------
(* What the operators of RunQueue preserve, for any number of queues and of *)
(* threads: the facts Tdq's invariants rest on.                             *)

\* Least elements exist: the bit searches return a bit that is set.  Initial
\* segments of the naturals are finite, so strict inclusion of them is
\* well-founded; the smallest segment ends at the least element.
LEMMA MinOfNats ==
  ASSUME NEW T \in SUBSET Nat, T # {}
  PROVE  /\ Min(T) \in T
         /\ \A y \in T : Min(T) <= y
<1> DEFINE U == {0 .. n : n \in T}
<1>1. U \subseteq FiniteSubsetsOf(Nat) /\ U # {}
  <2>1. \A n \in T : IsFiniteSet(0 .. n) /\ 0 .. n \in SUBSET Nat
    BY FS_Interval
  <2> QED
    BY <2>1 DEF FiniteSubsetsOf
<1>2. PICK u \in U : \A v \in U : ~ (<<v, u>> \in StrictSubsetOrdering(Nat))
  BY <1>1, FS_StrictSubsetOrderingWellFounded, WFMin
<1>3. PICK x \in T : u = 0 .. x
  OBVIOUS
<1>4. ASSUME NEW y \in T, y < x
      PROVE  FALSE
  <2>1. 0 .. y \subseteq 0 .. x /\ x \in 0 .. x /\ x \notin 0 .. y
    BY <1>4
  <2>2. <<0 .. y, 0 .. x>> \in StrictSubsetOrdering(Nat)
    BY <2>1 DEF StrictSubsetOrdering
  <2> QED
    BY <2>2, <1>2, <1>3
<1>5. \A y \in T : x <= y
  BY <1>4
<1> QED
  BY <1>5 DEF Min

\* A part of a sequence, possibly empty, that does not leave it.
LEMMA Part ==
  ASSUME NEW S, NEW q \in Seq(S), NEW m \in 1 .. Len(q) + 1,
         NEW n \in m - 1 .. Len(q)
  PROVE  /\ SubSeq(q, m, n) \in Seq(S)
         /\ Len(SubSeq(q, m, n)) = n - m + 1
         /\ \A j \in 1 .. n - m + 1 : SubSeq(q, m, n)[j] = q[m + j - 1]
<1>1. Len(q) \in Nat
  BY LenProperties
<1>2. m \in Int /\ n \in Int /\ m - 1 <= n
  BY <1>1
<1>3. \A i \in m .. n : q[i] \in S
  BY <1>1, ElementOfSeq
<1> QED
  BY <1>2, <1>3, SubSeqProperties

\* Concatenation, by where an element comes from.
LEMMA Concat ==
  ASSUME NEW S, NEW a \in Seq(S), NEW b \in Seq(S)
  PROVE  /\ a \o b \in Seq(S)
         /\ Len(a \o b) = Len(a) + Len(b)
         /\ \A j \in 1 .. Len(a) : (a \o b)[j] = a[j]
         /\ \A j \in 1 .. Len(b) : (a \o b)[Len(a) + j] = b[j]
<1>1. Len(a) \in Nat /\ Len(b) \in Nat
  BY LenProperties
<1>2. /\ a \o b \in Seq(S) /\ Len(a \o b) = Len(a) + Len(b)
      /\ \A j \in 1 .. Len(a) + Len(b) :
            (a \o b)[j] = IF j <= Len(a) THEN a[j] ELSE b[j - Len(a)]
  BY ConcatProperties
<1>3. \A j \in 1 .. Len(a) : (a \o b)[j] = a[j]
  BY <1>1, <1>2
<1>4. \A j \in 1 .. Len(b) : (a \o b)[Len(a) + j] = b[j]
  BY <1>1, <1>2
<1> QED
  BY <1>2, <1>3, <1>4

\* An element between two sequences.
LEMMA Between ==
  ASSUME NEW S, NEW a \in Seq(S), NEW e \in S, NEW b \in Seq(S)
  PROVE  /\ a \o <<e>> \o b \in Seq(S)
         /\ Len(a \o <<e>> \o b) = Len(a) + 1 + Len(b)
         /\ \A j \in 1 .. Len(a) : (a \o <<e>> \o b)[j] = a[j]
         /\ (a \o <<e>> \o b)[Len(a) + 1] = e
         /\ \A j \in 1 .. Len(b) : (a \o <<e>> \o b)[Len(a) + 1 + j] = b[j]
<1>1. <<e>> \in Seq(S) /\ Len(<<e>>) = 1 /\ <<e>>[1] = e
  OBVIOUS
<1>2. Len(a) \in Nat /\ Len(b) \in Nat
  BY LenProperties
<1>3. PICK c \in Seq(S) : c = a \o <<e>>
  BY <1>1, ConcatProperties
<1>4. /\ Len(c) = Len(a) + 1
      /\ \A j \in 1 .. Len(a) + 1 :
            c[j] = IF j <= Len(a) THEN a[j] ELSE <<e>>[j - Len(a)]
  BY <1>1, <1>3, ConcatProperties
<1>5. /\ c \o b \in Seq(S) /\ Len(c \o b) = Len(c) + Len(b)
      /\ \A j \in 1 .. Len(c) + Len(b) :
            (c \o b)[j] = IF j <= Len(c) THEN c[j] ELSE b[j - Len(c)]
  BY ConcatProperties
<1>6. (c \o b)[Len(a) + 1] = e
  BY <1>1, <1>2, <1>4, <1>5
<1>7. \A j \in 1 .. Len(a) : (c \o b)[j] = a[j]
  BY <1>2, <1>4, <1>5
<1>8. \A j \in 1 .. Len(b) : (c \o b)[Len(a) + 1 + j] = b[j]
  BY <1>2, <1>4, <1>5
<1> QED
  BY <1>3, <1>4, <1>5, <1>6, <1>7, <1>8

\* A thread enters a queue: what was there keeps its order around it.
LEMMA InsertAtFacts ==
  ASSUME NEW S, NEW q \in Seq(S), NEW e \in S, NEW k \in 1 .. Len(q) + 1
  PROVE  /\ InsertAt(q, k, e) \in Seq(S)
         /\ Len(InsertAt(q, k, e)) = Len(q) + 1
         /\ \A j \in 1 .. Len(q) + 1 :
              InsertAt(q, k, e)[j] = IF j < k THEN q[j]
                                     ELSE IF j = k THEN e ELSE q[j - 1]
<1>6. Len(q) \in Nat
  BY LenProperties
<1>1. PICK a \in Seq(S) : /\ a = SubSeq(q, 1, k - 1) /\ Len(a) = k - 1
                          /\ \A j \in 1 .. k - 1 : a[j] = q[j]
  <2>1. 1 \in 1 .. Len(q) + 1 /\ k - 1 \in 1 - 1 .. Len(q)
    BY <1>6
  <2>2. /\ SubSeq(q, 1, k - 1) \in Seq(S)
        /\ Len(SubSeq(q, 1, k - 1)) = (k - 1) - 1 + 1
        /\ \A j \in 1 .. (k - 1) - 1 + 1 : SubSeq(q, 1, k - 1)[j] = q[1 + j - 1]
    BY <2>1, Part
  <2>3. (k - 1) - 1 + 1 = k - 1 /\ \A j \in 1 .. k - 1 : 1 + j - 1 = j
    BY <1>6
  <2> QED
    BY <2>2, <2>3
<1>2. PICK b \in Seq(S) : /\ b = SubSeq(q, k, Len(q)) /\ Len(b) = Len(q) - k + 1
                          /\ \A j \in 1 .. Len(q) - k + 1 : b[j] = q[k + j - 1]
  <2>1. Len(q) \in k - 1 .. Len(q)
    BY <1>6
  <2>2. /\ SubSeq(q, k, Len(q)) \in Seq(S)
        /\ Len(SubSeq(q, k, Len(q))) = Len(q) - k + 1
        /\ \A j \in 1 .. Len(q) - k + 1 : SubSeq(q, k, Len(q))[j] = q[k + j - 1]
    BY <2>1, Part
  <2> QED
    BY <2>2
<1>3. PICK r : r = a \o <<e>> \o b
  OBVIOUS
<1>4. /\ r \in Seq(S) /\ Len(r) = Len(a) + 1 + Len(b)
      /\ \A j \in 1 .. Len(a) : r[j] = a[j]
      /\ r[Len(a) + 1] = e
      /\ \A j \in 1 .. Len(b) : r[Len(a) + 1 + j] = b[j]
  BY <1>3, Between
<1>5. InsertAt(q, k, e) = r
  BY <1>1, <1>2, <1>3 DEF InsertAt
<1>7. \A j \in 1 .. Len(q) + 1 :
        r[j] = IF j < k THEN q[j] ELSE IF j = k THEN e ELSE q[j - 1]
  <2> SUFFICES ASSUME NEW j \in 1 .. Len(q) + 1
      PROVE r[j] = IF j < k THEN q[j] ELSE IF j = k THEN e ELSE q[j - 1]
    OBVIOUS
  <2>1. CASE j < k
    BY <2>1, <1>1, <1>4, <1>6
  <2>2. CASE j = k
    BY <2>2, <1>1, <1>4, <1>6
  <2>3. CASE j > k
    <3>1. j - k \in 1 .. Len(b) /\ Len(a) + 1 + (j - k) = j
      BY <2>3, <1>1, <1>2, <1>6
    <3>2. r[j] = b[j - k]
      BY <3>1, <1>4
    <3>3. b[j - k] = q[j - 1]
      <4>1. j - k \in 1 .. Len(q) - k + 1 /\ k + (j - k) - 1 = j - 1
        BY <3>1, <2>3, <1>2, <1>6
      <4> QED
        BY <4>1, <1>2
    <3> QED
      BY <3>2, <3>3, <2>3, <1>6
  <2> QED
    BY <2>1, <2>2, <2>3, <1>6
<1> QED
  BY <1>1, <1>2, <1>4, <1>5, <1>6, <1>7

\* A thread leaves a queue: the ones behind it close up.
LEMMA RemoveAtFacts ==
  ASSUME NEW S, NEW q \in Seq(S), NEW k \in 1 .. Len(q)
  PROVE  /\ RemoveAt(q, k) \in Seq(S)
         /\ Len(RemoveAt(q, k)) = Len(q) - 1
         /\ \A j \in 1 .. Len(q) - 1 :
              RemoveAt(q, k)[j] = IF j < k THEN q[j] ELSE q[j + 1]
<1>4. Len(q) \in Nat
  BY LenProperties
<1>1. PICK a \in Seq(S) : /\ a = SubSeq(q, 1, k - 1) /\ Len(a) = k - 1
                          /\ \A j \in 1 .. k - 1 : a[j] = q[j]
  <2>1. 1 \in 1 .. Len(q) + 1 /\ k - 1 \in 1 - 1 .. Len(q)
    BY <1>4
  <2>2. /\ SubSeq(q, 1, k - 1) \in Seq(S)
        /\ Len(SubSeq(q, 1, k - 1)) = (k - 1) - 1 + 1
        /\ \A j \in 1 .. (k - 1) - 1 + 1 : SubSeq(q, 1, k - 1)[j] = q[1 + j - 1]
    BY <2>1, Part
  <2>3. (k - 1) - 1 + 1 = k - 1 /\ \A j \in 1 .. k - 1 : 1 + j - 1 = j
    BY <1>4
  <2> QED
    BY <2>2, <2>3
<1>2. PICK b \in Seq(S) : /\ b = SubSeq(q, k + 1, Len(q)) /\ Len(b) = Len(q) - k
                          /\ \A j \in 1 .. Len(q) - k : b[j] = q[k + j]
  <2>1. k + 1 \in 1 .. Len(q) + 1 /\ Len(q) \in (k + 1) - 1 .. Len(q)
    BY <1>4
  <2>2. /\ SubSeq(q, k + 1, Len(q)) \in Seq(S)
        /\ Len(SubSeq(q, k + 1, Len(q))) = Len(q) - (k + 1) + 1
        /\ \A j \in 1 .. Len(q) - (k + 1) + 1 :
              SubSeq(q, k + 1, Len(q))[j] = q[(k + 1) + j - 1]
    BY <2>1, Part
  <2>3. /\ Len(q) - (k + 1) + 1 = Len(q) - k
        /\ \A j \in 1 .. Len(q) - k : (k + 1) + j - 1 = k + j
    BY <1>4
  <2>4. \A j \in 1 .. Len(q) - k : SubSeq(q, k + 1, Len(q))[j] = q[k + j]
    BY <2>2, <2>3
  <2>5. Len(SubSeq(q, k + 1, Len(q))) = Len(q) - k
    BY <2>2, <2>3
  <2> QED
    BY <2>2, <2>4, <2>5
<1>3. PICK r \in Seq(S) :
        /\ r = a \o b /\ Len(r) = Len(a) + Len(b)
        /\ \A j \in 1 .. Len(a) : r[j] = a[j]
        /\ \A j \in 1 .. Len(b) : r[Len(a) + j] = b[j]
  <2>1. /\ a \o b \in Seq(S) /\ Len(a \o b) = Len(a) + Len(b)
        /\ \A j \in 1 .. Len(a) : (a \o b)[j] = a[j]
        /\ \A j \in 1 .. Len(b) : (a \o b)[Len(a) + j] = b[j]
    BY Concat
  <2> QED
    BY <2>1
<1>5. \A j \in 1 .. Len(q) - 1 : r[j] = IF j < k THEN q[j] ELSE q[j + 1]
  <2> SUFFICES ASSUME NEW j \in 1 .. Len(q) - 1
      PROVE r[j] = IF j < k THEN q[j] ELSE q[j + 1]
    OBVIOUS
  <2>1. CASE j < k
    BY <2>1, <1>1, <1>3, <1>4
  <2>2. CASE j >= k
    <3>1. j - (k - 1) \in 1 .. Len(b) /\ Len(a) + (j - (k - 1)) = j
      BY <2>2, <1>1, <1>2, <1>4
    <3>2. r[j] = b[j - (k - 1)]
      BY <3>1, <1>3
    <3>3. b[j - (k - 1)] = q[j + 1]
      <4>1. j - (k - 1) \in 1 .. Len(q) - k /\ k + (j - (k - 1)) = j + 1
        BY <3>1, <2>2, <1>2, <1>4
      <4> QED
        BY <4>1, <1>2
    <3> QED
      BY <3>2, <3>3, <2>2, <1>4
  <2> QED
    BY <2>1, <2>2, <1>4
<1>6. RemoveAt(q, k) = r
  BY <1>1, <1>2, <1>3 DEF RemoveAt
<1>7. Len(r) = Len(q) - 1
  <2>1. Len(r) = (k - 1) + (Len(q) - k)
    BY <1>1, <1>2, <1>3
  <2> QED
    BY <2>1, <1>4
<1> QED
  BY <1>5, <1>6, <1>7
-----------------------------------------------------------------------------
\* Insertion adds the thread to the members and keeps a queue without twins.
LEMMA InsertMembers ==
  ASSUME NEW S, NEW q \in Seq(S), NEW e \in S, NEW k \in 1 .. Len(q) + 1
  PROVE  /\ ToSet(InsertAt(q, k, e)) = ToSet(q) \cup {e}
         /\ InsertAt(q, k, e) # <<>>
         /\ IsInjective(q) /\ e \notin ToSet(q) => IsInjective(InsertAt(q, k, e))
<1>1. PICK r \in Seq(S) :
        /\ r = InsertAt(q, k, e) /\ Len(r) = Len(q) + 1
        /\ \A j \in 1 .. Len(q) + 1 :
             r[j] = IF j < k THEN q[j] ELSE IF j = k THEN e ELSE q[j - 1]
  BY InsertAtFacts
<1>2. /\ Len(q) \in Nat /\ DOMAIN q = 1 .. Len(q)
      /\ DOMAIN r = 1 .. Len(q) + 1
  BY <1>1, LenProperties
<1>3. ToSet(r) \subseteq ToSet(q) \cup {e}
  <2> SUFFICES ASSUME NEW j \in 1 .. Len(q) + 1
      PROVE r[j] \in ToSet(q) \cup {e}
    BY <1>2 DEF ToSet
  <2>1. CASE j < k
    BY <2>1, <1>1, <1>2 DEF ToSet
  <2>2. CASE j = k
    BY <2>2, <1>1
  <2>3. CASE j > k
    BY <2>3, <1>1, <1>2 DEF ToSet
  <2> QED
    BY <2>1, <2>2, <2>3, <1>2
<1>4. e \in ToSet(r)
  BY <1>1, <1>2 DEF ToSet
<1>5. ToSet(q) \subseteq ToSet(r)
  <2> SUFFICES ASSUME NEW j \in 1 .. Len(q)
      PROVE q[j] \in ToSet(r)
    BY <1>2 DEF ToSet
  <2>1. CASE j < k
    <3>1. j \in 1 .. Len(q) + 1 /\ r[j] = q[j]
      BY <2>1, <1>1, <1>2
    <3> QED
      BY <3>1, <1>2 DEF ToSet
  <2>2. CASE j >= k
    <3>1. j + 1 \in 1 .. Len(q) + 1 /\ (j + 1) - 1 = j /\ ~ (j + 1 < k) /\ j + 1 # k
      BY <2>2, <1>2
    <3>2. r[j + 1] = q[j]
      BY <3>1, <1>1
    <3> QED
      BY <3>1, <3>2, <1>2 DEF ToSet
  <2> QED
    BY <2>1, <2>2, <1>2
<1>6. ASSUME IsInjective(q), e \notin ToSet(q),
             NEW x \in 1 .. Len(q) + 1, NEW y \in 1 .. Len(q) + 1, r[x] = r[y]
      PROVE  x = y
  <2>1. \A u, v \in 1 .. Len(q) : q[u] = q[v] => u = v
    BY <1>6, <1>2 DEF IsInjective
  <2>2. \A u \in 1 .. Len(q) : q[u] # e
    BY <1>6, <1>2 DEF ToSet
  <2>3. \A j \in 1 .. Len(q) + 1 :
          /\ j < k => j \in 1 .. Len(q) /\ r[j] = q[j]
          /\ j = k => r[j] = e
          /\ j > k => j - 1 \in 1 .. Len(q) /\ r[j] = q[j - 1]
    BY <1>1, <1>2
  <2>4. CASE x = k \/ y = k
    BY <2>2, <2>3, <2>4, <1>6, <1>2
  <2>5. CASE x < k /\ y < k
    BY <2>1, <2>3, <2>5, <1>6
  <2>6. CASE x > k /\ y > k
    <3>1. x - 1 = y - 1
      BY <2>1, <2>3, <2>6, <1>6
    <3> QED
      BY <3>1, <1>2
  <2>7. CASE x < k /\ y > k
    <3>1. x = y - 1
      BY <2>1, <2>3, <2>7, <1>6
    <3> QED
      BY <3>1, <2>7, <1>2
  <2>8. CASE x > k /\ y < k
    <3>1. x - 1 = y
      BY <2>1, <2>3, <2>8, <1>6
    <3> QED
      BY <3>1, <2>8, <1>2
  <2> QED
    BY <2>4, <2>5, <2>6, <2>7, <2>8, <1>2
<1>7. IsInjective(q) /\ e \notin ToSet(q) => IsInjective(r)
  BY <1>6, <1>2 DEF IsInjective
<1> QED
  BY <1>1, <1>2, <1>3, <1>4, <1>5, <1>7, EmptySeq

\* Removal takes exactly the thread at the position from a queue without twins.
LEMMA RemoveMembers ==
  ASSUME NEW S, NEW q \in Seq(S), IsInjective(q), NEW k \in 1 .. Len(q)
  PROVE  /\ ToSet(RemoveAt(q, k)) = ToSet(q) \ {q[k]}
         /\ IsInjective(RemoveAt(q, k))
<1>1. PICK r \in Seq(S) :
        /\ r = RemoveAt(q, k) /\ Len(r) = Len(q) - 1
        /\ \A j \in 1 .. Len(q) - 1 : r[j] = IF j < k THEN q[j] ELSE q[j + 1]
  BY RemoveAtFacts
<1>2. /\ Len(q) \in Nat /\ DOMAIN q = 1 .. Len(q)
      /\ DOMAIN r = 1 .. Len(q) - 1
  BY <1>1, LenProperties
<1>3. \A u, v \in 1 .. Len(q) : q[u] = q[v] => u = v
  BY <1>2 DEF IsInjective
<1>4. \A j \in 1 .. Len(q) - 1 :
        /\ j < k => j \in 1 .. Len(q) /\ r[j] = q[j] /\ j # k
        /\ j >= k => j + 1 \in 1 .. Len(q) /\ r[j] = q[j + 1] /\ j + 1 # k
  BY <1>1, <1>2
<1>5. ToSet(r) \subseteq ToSet(q) \ {q[k]}
  <2> SUFFICES ASSUME NEW j \in 1 .. Len(q) - 1
      PROVE r[j] \in ToSet(q) \ {q[k]}
    BY <1>2 DEF ToSet
  <2>1. CASE j < k
    BY <2>1, <1>2, <1>3, <1>4 DEF ToSet
  <2>2. CASE j >= k
    BY <2>2, <1>2, <1>3, <1>4 DEF ToSet
  <2> QED
    BY <2>1, <2>2, <1>2
<1>6. ToSet(q) \ {q[k]} \subseteq ToSet(r)
  <2> SUFFICES ASSUME NEW j \in 1 .. Len(q), j # k
      PROVE q[j] \in ToSet(r)
    BY <1>2 DEF ToSet
  <2>1. CASE j < k
    <3>1. j \in 1 .. Len(q) - 1
      BY <2>1, <1>2
    <3> QED
      BY <3>1, <2>1, <1>2, <1>4 DEF ToSet
  <2>2. CASE j > k
    <3>1. j - 1 \in 1 .. Len(q) - 1 /\ j - 1 >= k /\ (j - 1) + 1 = j
      BY <2>2, <1>2
    <3>2. r[j - 1] = q[j]
      BY <3>1, <1>4
    <3> QED
      BY <3>1, <3>2, <1>2 DEF ToSet
  <2> QED
    BY <2>1, <2>2, <1>2
<1>7. ASSUME NEW x \in 1 .. Len(q) - 1, NEW y \in 1 .. Len(q) - 1, r[x] = r[y]
      PROVE  x = y
  <2>1. CASE x < k /\ y < k
    BY <2>1, <1>3, <1>4, <1>7
  <2>2. CASE x >= k /\ y >= k
    <3>1. x + 1 = y + 1
      BY <2>2, <1>3, <1>4, <1>7
    <3> QED
      BY <3>1, <1>2
  <2>3. CASE x < k /\ y >= k
    <3>1. x = y + 1
      BY <2>3, <1>3, <1>4, <1>7
    <3> QED
      BY <3>1, <2>3, <1>2
  <2>4. CASE x >= k /\ y < k
    <3>1. x + 1 = y
      BY <2>4, <1>3, <1>4, <1>7
    <3> QED
      BY <3>1, <2>4, <1>2
  <2> QED
    BY <2>1, <2>2, <2>3, <2>4, <1>2
<1>8. IsInjective(r)
  BY <1>7, <1>2 DEF IsInjective
<1> QED
  BY <1>1, <1>5, <1>6, <1>8
-----------------------------------------------------------------------------
\* A run queue in order: its status word says which queues hold a thread, and
\* no thread is linked twice into one of them.
RunqOK(rq) ==
  /\ rq \in RunQ
  /\ \A i \in Index : /\ i \in rq.rq_status <=> rq.rq_queues[i] # <<>>
                      /\ IsInjective(rq.rq_queues[i])

\* An initialised run queue is in order and empty.
LEMMA InitOK ==
  /\ RunqOK(runq_init)
  /\ \A i \in Index : ToSet(runq_init.rq_queues[i]) = {}
<1>1. runq_init \in RunQ
  BY EmptySeq DEF runq_init, RunQ
<1>2. DOMAIN <<>> = {}
  BY EmptySeq, LenProperties
<1> QED
  BY <1>1, <1>2 DEF RunqOK, runq_init, IsInjective, ToSet

\* Every way to enter a queue names a place in it.
LEMMA InsertPositionOK ==
  ASSUME NEW q \in Seq(Thread), NEW td, NEW priority, NEW flags
  PROVE  InsertPosition(q, td, priority, flags) \in 1 .. Len(q) + 1
<1> DEFINE T == {i \in 1 .. Len(q) : priority[q[i]] <= priority[td]} \cup {Len(q) + 1}
<1>1. Len(q) \in Nat
  BY LenProperties
<1>2. T \in SUBSET Nat /\ T # {} /\ T \subseteq 1 .. Len(q) + 1
  BY <1>1
<1>3. SortedPosition(q, td, priority) \in 1 .. Len(q) + 1
  <2> HIDE DEF T
  <2>1. Min(T) \in T
    BY <1>2, MinOfNats
  <2> QED
    BY <2>1, <1>2 DEF SortedPosition, T
<1> QED
  BY <1>1, <1>3 DEF InsertPosition, FifoPosition

\* runq_add_pri links the thread into queue i and touches no other queue.
LEMMA AddFacts ==
  ASSUME NEW rq, RunqOK(rq), NEW td \in Thread, NEW i \in Index,
         NEW priority, NEW flags, td \notin ToSet(rq.rq_queues[i])
  PROVE  LET r == runq_add_pri(rq, td, i, priority, flags)
         IN  /\ RunqOK(r)
             /\ ToSet(r.rq_queues[i]) = ToSet(rq.rq_queues[i]) \cup {td}
             /\ \A j \in Index : j # i => r.rq_queues[j] = rq.rq_queues[j]
<1> DEFINE q == rq.rq_queues[i]
           k == InsertPosition(q, td, priority, flags)
           r == runq_add_pri(rq, td, i, priority, flags)
<1>1. /\ rq \in [rq_status : SUBSET Index, rq_queues : [Index -> Seq(Thread)]]
      /\ \A j \in Index : /\ j \in rq.rq_status <=> rq.rq_queues[j] # <<>>
                          /\ IsInjective(rq.rq_queues[j])
  BY DEF RunqOK, RunQ
<1>2. q \in Seq(Thread) /\ IsInjective(q)
  BY <1>1
<1>3. k \in 1 .. Len(q) + 1
  BY <1>2, InsertPositionOK
<1>4. PICK n \in Seq(Thread) : n = InsertAt(q, k, td)
  BY <1>2, <1>3, InsertAtFacts
<1>5. /\ ToSet(n) = ToSet(q) \cup {td}
      /\ n # <<>>
      /\ IsInjective(n)
  BY <1>2, <1>3, <1>4, InsertMembers
<1>6. /\ r \in RunQ
      /\ r.rq_status = rq.rq_status \cup {i}
      /\ r.rq_queues = [rq.rq_queues EXCEPT ![i] = n]
  BY <1>1, <1>4 DEF runq_add_pri, runq_setbit, RunQ
<1> HIDE DEF r, k
<1>7. RunqOK(r)
  BY <1>1, <1>5, <1>6 DEF RunqOK
<1>8. r.rq_queues[i] = n /\ \A j \in Index : j # i => r.rq_queues[j] = rq.rq_queues[j]
  BY <1>1, <1>6
<1> QED
  BY <1>5, <1>7, <1>8 DEF r

\* runq_remove unlinks the thread from queue i and touches no other queue.
LEMMA RemoveFacts ==
  ASSUME NEW rq, RunqOK(rq), NEW td \in Thread, NEW i \in Index,
         td \in ToSet(rq.rq_queues[i])
  PROVE  LET r == runq_remove(rq, td, i)
         IN  /\ RunqOK(r)
             /\ ToSet(r.rq_queues[i]) = ToSet(rq.rq_queues[i]) \ {td}
             /\ \A j \in Index : j # i => r.rq_queues[j] = rq.rq_queues[j]
<1> DEFINE q == rq.rq_queues[i]
           k == PositionOf(q, td)
           r == runq_remove(rq, td, i)
<1>1. /\ rq \in [rq_status : SUBSET Index, rq_queues : [Index -> Seq(Thread)]]
      /\ \A j \in Index : /\ j \in rq.rq_status <=> rq.rq_queues[j] # <<>>
                          /\ IsInjective(rq.rq_queues[j])
  BY DEF RunqOK, RunQ
<1>2. q \in Seq(Thread) /\ IsInjective(q)
  BY <1>1
<1>3. k \in 1 .. Len(q) /\ q[k] = td
  <2>1. \E j \in 1 .. Len(q) : q[j] = td
    BY <1>2, LenProperties DEF ToSet
  <2> QED
    BY <2>1 DEF PositionOf
<1>4. PICK n \in Seq(Thread) : n = RemoveAt(q, k)
  BY <1>2, <1>3, RemoveAtFacts
<1>5. ToSet(n) = ToSet(q) \ {td} /\ IsInjective(n)
  BY <1>2, <1>3, <1>4, RemoveMembers
<1>6. r = [rq_status |-> IF n = <<>> THEN rq.rq_status \ {i} ELSE rq.rq_status,
           rq_queues |-> [rq.rq_queues EXCEPT ![i] = n]]
  BY <1>1, <1>4 DEF runq_remove, runq_clrbit
<1>7. i \in rq.rq_status
  BY <1>1, <1>3, <1>2, EmptySeq
<1> HIDE DEF r, k
<1>8. RunqOK(r)
  BY <1>1, <1>4, <1>5, <1>6, <1>7 DEF RunqOK, RunQ
<1>9. r.rq_queues[i] = n /\ \A j \in Index : j # i => r.rq_queues[j] = rq.rq_queues[j]
  BY <1>1, <1>6
<1> QED
  BY <1>5, <1>8, <1>9 DEF r

\* The searches return a set bit, so a choice is the head of a real queue.
LEMMA FindbitFacts ==
  ASSUME NEW rq, RunqOK(rq), rq.rq_status # {}, NEW idx \in Index
  PROVE  /\ runq_findbit(rq) \in rq.rq_status
         /\ runq_findbit_from(rq, idx) \in rq.rq_status
<1>1. rq.rq_status \in SUBSET Nat
  BY DEF RunqOK, RunQ, Index
<1>2. Min(rq.rq_status) \in rq.rq_status
  BY <1>1, MinOfNats
<1>3. ASSUME NEW ahead \in SUBSET rq.rq_status, ahead # {}
      PROVE  Min(ahead) \in rq.rq_status
  BY <1>1, <1>3, MinOfNats
<1> QED
  BY <1>2, <1>3 DEF runq_findbit, runq_findbit_from

\* A set bit names a queue whose head is one of its threads.
LEMMA HeadMember ==
  ASSUME NEW rq, RunqOK(rq), NEW i \in rq.rq_status
  PROVE  i \in Index /\ Head(rq.rq_queues[i]) \in ToSet(rq.rq_queues[i])
<1>1. i \in Index /\ rq.rq_queues[i] \in Seq(Thread) /\ rq.rq_queues[i] # <<>>
  BY DEF RunqOK, RunQ
<1>2. Len(rq.rq_queues[i]) \in Nat \ {0}
  BY <1>1, EmptySeq
<1>3. 1 \in DOMAIN rq.rq_queues[i] /\ Head(rq.rq_queues[i]) = rq.rq_queues[i][1]
  BY <1>1, <1>2, LenProperties
<1> QED
  BY <1>1, <1>3 DEF ToSet

\* runq_choose and runq_choose_from return a linked thread, or NULL from an
\* empty run queue only.
LEMMA ChooseFacts ==
  ASSUME NEW rq, RunqOK(rq), NEW idx \in Index,
         NEW t \in {runq_choose(rq), runq_choose_from(rq, idx)}
  PROVE  \/ t = NoThread /\ rq.rq_status = {}
         \/ \E i \in Index : t \in ToSet(rq.rq_queues[i])
<1>1. CASE rq.rq_status = {}
  BY <1>1 DEF runq_choose, runq_choose_from, runq_check
<1>2. CASE rq.rq_status # {}
  BY <1>2, FindbitFacts, HeadMember DEF runq_choose, runq_choose_from, runq_check
<1> QED
  BY <1>1, <1>2
-----------------------------------------------------------------------------
(* The thread queue.                                                        *)

\* The queues agree with what the threads say of themselves, and the two
\* indices are in step.  Every helper keeps this, also in the middle of a
\* handler, where OneRunning does not hold.
QueuesOK(q) ==
  /\ \A c \in Class : RunqOK(q.rq[c])
  /\ \A c \in Class, i \in Index, t \in Thread :
       t \in ToSet(q.rq[c].rq_queues[i]) <=>
         q.state[t] = "runq" /\ q.runq[t] = c /\ q.rqindex[t] = i
  /\ \A t \in Thread : q.state[t] = "runq" => q.runq[t] \in Class
  /\ q.idx \in {q.ridx, (q.ridx + 1) % RQ_NQS}

Base(q) == q \in CpuState /\ QueuesOK(q)

OnlyCurRuns(q) ==
  \A t \in Thread : q.state[t] = "running" <=> (q.cur = t /\ q.leaving = "no")

\* The inductive invariant.
Inv == Base(s) /\ OnlyCurRuns(s)
-----------------------------------------------------------------------------
\* Arithmetic of the indices: each names a queue.
LEMMA ModIndex == \A x \in Int : x % RQ_NQS \in Index
BY RunQueueAssumption DEF Index

\* runq_add's queue for a priority exists: RQ_NQS * RQ_PPQ cover them all.
LEMMA PriIndexOK == \A p \in 0 .. PRI_MAX_IDLE : PriIndex(p) \in Index
<1> SUFFICES ASSUME NEW p \in 0 .. PRI_MAX_IDLE
    PROVE  PriIndex(p) \in Index
  OBVIOUS
<1>1. p \in Nat /\ p < RQ_NQS * RQ_PPQ /\ RQ_PPQ \in Nat \ {0} /\ RQ_NQS \in Nat \ {0}
  BY RunQueueAssumption, TdqAssumption
<1>2. PICK d \in Int : d = p \div RQ_PPQ
  BY <1>1
<1>3. d >= 0 /\ d * RQ_PPQ <= p
  BY <1>1, <1>2
<1>4. d < RQ_NQS
  BY <1>1, <1>3
<1> QED
  BY <1>2, <1>3, <1>4, RunQueueAssumption DEF PriIndex, Index

\* Whatever the priority, the flags and the draw, tdq_runq_add names a queue.
LEMMA EntryIndexOK ==
  ASSUME NEW q \in CpuState, NEW t \in Thread, NEW flags, NEW rnd \in Rnd
  PROVE  EntryIndex(q, t, flags, rnd) \in Index
<1>1. q.prio[t] \in 0 .. PRI_MAX_IDLE /\ q.idx \in Index /\ q.ridx \in Index
  BY TdqAssumption DEF CpuState
<1>2. PRI_BATCH_RANGE \in Nat \ {0} /\ RQ_NQS \in Nat \ {0} /\ Index \subseteq Int
  BY TdqAssumption, RunQueueAssumption DEF PRI_BATCH_RANGE, Index
<1>3. BatchPri(q.prio[t], rnd) \in Int
  BY <1>1, TdqAssumption DEF BatchPri, SplatterPri, Rnd
<1>4. ASSUME NEW pri \in Int
      PROVE  TimeshareIndex(q, pri, flags) \in Index
  <2>1. PICK x \in Int : x = RQ_NQS * (pri - PRI_MIN_BATCH)
    BY <1>2, TdqAssumption
  <2>6. PICK z \in Int : z = x \div PRI_BATCH_RANGE
    BY <2>1, <1>2
  <2>7. PICK d \in Int : d = q.idx
    BY <1>1, <1>2
  <2>2. PICK y \in Int : y = z + d
    OBVIOUS
  <2>3. PICK i \in Index : i = y % RQ_NQS
    BY ModIndex
  <2>4. (i + 255) % 256 \in Int
    BY <1>2
  <2>5. ((i + 255) % 256) % RQ_NQS \in Index
    BY <2>4, ModIndex
  <2> QED
    BY <2>1, <2>6, <2>7, <2>2, <2>3, <2>5, <1>1 DEF TimeshareIndex
<1> QED
  BY <1>1, <1>3, <1>4, PriIndexOK DEF EntryIndex
-----------------------------------------------------------------------------
\* Handlers that touch no queue and queue no thread keep the queues in order.
LEMMA SameQueues ==
  ASSUME NEW q, Base(q), NEW r \in CpuState,
         r.rq = q.rq, r.runq = q.runq, r.rqindex = q.rqindex,
         r.idx = q.idx, r.ridx = q.ridx,
         \A t \in Thread : r.state[t] = "runq" <=> q.state[t] = "runq"
  PROVE  Base(r)
BY DEF Base, QueuesOK

\* Any change to a queue and to what its thread says of itself is well typed.
LEMMA LinkTyped ==
  ASSUME NEW q \in CpuState, NEW t \in Thread, NEW c \in Class, NEW a \in RunQ,
         NEW i \in Index, NEW b \in BOOLEAN, NEW n \in Int
  PROVE  [q EXCEPT !.rq[c] = a, !.state[t] = "runq", !.runq[t] = c,
                   !.rqindex[t] = i, !.xfer[t] = b, !.transferable = n] \in CpuState
BY DEF CpuState

\* tdq_runq_add queues a thread that is on no queue.
LEMMA RunqAddOK ==
  ASSUME NEW q, Base(q), NEW t \in Thread, q.state[t] # "runq",
         NEW flags, NEW rnd \in Rnd, NEW r, r = tdq_runq_add(q, t, flags, rnd)
  PROVE  /\ Base(r)
         /\ r.state = [q.state EXCEPT ![t] = "runq"]
         /\ r.cur = q.cur /\ r.leaving = q.leaving /\ r.load = q.load
         /\ r.sysload = q.sysload
<1>1. q \in CpuState /\ QueuesOK(q)
  BY DEF Base
<1>2. PICK c \in Class : c = RunqClass(q.prio[t])
  BY DEF RunqClass, Class
<1>3. PICK i \in Index : i = EntryIndex(q, t, flags, rnd)
  BY <1>1, EntryIndexOK
<1>4. PICK a : a = runq_add_pri(q.rq[c], t, i, q.prio, flags)
  OBVIOUS
<1>5. t \notin ToSet(q.rq[c].rq_queues[i]) /\ RunqOK(q.rq[c])
  BY <1>1 DEF QueuesOK
<1>6. /\ RunqOK(a)
      /\ ToSet(a.rq_queues[i]) = ToSet(q.rq[c].rq_queues[i]) \cup {t}
      /\ \A j \in Index : j # i => a.rq_queues[j] = q.rq[c].rq_queues[j]
  BY <1>4, <1>5, AddFacts
<1>7. PICK b \in BOOLEAN : b = (q.xfer[t] \/ ~ q.pinned[t])
  OBVIOUS
<1>8. PICK n \in Int : n = IF q.pinned[t] THEN q.transferable ELSE q.transferable + 1
  BY <1>1 DEF CpuState
<1>9. r = [q EXCEPT !.rq[c] = a, !.state[t] = "runq", !.runq[t] = c,
                    !.rqindex[t] = i, !.xfer[t] = b, !.transferable = n]
  BY <1>2, <1>3, <1>4, <1>7, <1>8 DEF tdq_runq_add
<1>10. r \in CpuState
  <2>1. a \in RunQ
    BY <1>6 DEF RunqOK
  <2>2. [q EXCEPT !.rq[c] = a, !.state[t] = "runq", !.runq[t] = c,
                  !.rqindex[t] = i, !.xfer[t] = b, !.transferable = n] \in CpuState
    BY <1>1, <2>1, LinkTyped, Zenon
  <2> QED
    BY <1>9, <2>2
<1>11. /\ r.rq = [q.rq EXCEPT ![c] = a]
       /\ r.state = [q.state EXCEPT ![t] = "runq"]
       /\ r.runq = [q.runq EXCEPT ![t] = c]
       /\ r.rqindex = [q.rqindex EXCEPT ![t] = i]
       /\ r.cur = q.cur /\ r.leaving = q.leaving /\ r.load = q.load
       /\ r.sysload = q.sysload
       /\ r.idx = q.idx /\ r.ridx = q.ridx
  BY <1>1, <1>9 DEF CpuState
<1>12. /\ q.rq \in [Class -> RunQ] /\ DOMAIN q.state = Thread
       /\ DOMAIN q.runq = Thread /\ DOMAIN q.rqindex = Thread
  BY <1>1 DEF CpuState
<1>13. QueuesOK(r)
  <2>1. \A d \in Class : RunqOK(r.rq[d])
    BY <1>1, <1>6, <1>11, <1>12 DEF QueuesOK
  <2>2. ASSUME NEW d \in Class, NEW j \in Index, NEW u \in Thread
        PROVE  u \in ToSet(r.rq[d].rq_queues[j]) <=>
                 r.state[u] = "runq" /\ r.runq[u] = d /\ r.rqindex[u] = j
    <3>1. u \in ToSet(q.rq[d].rq_queues[j]) <=>
            q.state[u] = "runq" /\ q.runq[u] = d /\ q.rqindex[u] = j
      BY <1>1 DEF QueuesOK
    <3>2. ToSet(r.rq[d].rq_queues[j]) =
            IF d = c /\ j = i THEN ToSet(q.rq[d].rq_queues[j]) \cup {t}
                              ELSE ToSet(q.rq[d].rq_queues[j])
      BY <1>6, <1>11, <1>12
    <3>3. CASE u = t
      BY <3>1, <3>2, <3>3, <1>11, <1>12
    <3>4. CASE u # t
      BY <3>1, <3>2, <3>4, <1>11, <1>12
    <3> QED
      BY <3>3, <3>4
  <2>3. \A u \in Thread : r.state[u] = "runq" => r.runq[u] \in Class
    BY <1>1, <1>11, <1>12 DEF QueuesOK
  <2> QED
    BY <2>1, <2>2, <2>3, <1>1, <1>11 DEF QueuesOK
<1> QED
  BY <1>10, <1>11, <1>13 DEF Base

\* Without a position a thread can be anywhere: which queue it is on.
LEMMA QueuedWhere ==
  ASSUME NEW q, Base(q), NEW t \in Thread, q.state[t] = "runq"
  PROVE  /\ q.runq[t] \in Class /\ q.rqindex[t] \in Index
         /\ t \in ToSet(q.rq[q.runq[t]].rq_queues[q.rqindex[t]])
BY DEF Base, QueuesOK, CpuState

\* So is any change that takes a thread off a queue.
LEMMA UnlinkTyped ==
  ASSUME NEW q \in CpuState, NEW t \in Thread, NEW c \in Class, NEW a \in RunQ,
         NEW i \in Index, NEW n \in Int
  PROVE  [q EXCEPT !.rq[c] = a, !.ridx = i, !.runq[t] = "none", !.rqindex[t] = 0,
                   !.xfer[t] = FALSE, !.transferable = n] \in CpuState
<1>1. 0 \in Index
  BY RunQueueAssumption DEF Index
<1> QED
  BY <1>1 DEF CpuState

\* tdq_runq_rem unlinks a queued thread; the caller says what becomes of it.
LEMMA RunqRemOK ==
  ASSUME NEW q, Base(q), NEW t \in Thread, q.state[t] = "runq",
         NEW r, r = tdq_runq_rem(q, t),
         NEW p \in CpuState, NEW x \in {"off", "running"},
         p.rq = r.rq, p.runq = r.runq, p.rqindex = r.rqindex,
         p.idx = r.idx, p.ridx = r.ridx, p.state = [q.state EXCEPT ![t] = x]
  PROVE  Base(p)
<1>1. q \in CpuState /\ QueuesOK(q)
  BY DEF Base
<1>11. PICK c \in Class : c = q.runq[t]
  BY QueuedWhere
<1>12. PICK i \in Index : i = q.rqindex[t]
  BY QueuedWhere
<1>2. t \in ToSet(q.rq[c].rq_queues[i])
  BY <1>11, <1>12, QueuedWhere
<1>3. PICK a : a = runq_remove(q.rq[c], t, i)
  OBVIOUS
<1>4. /\ RunqOK(a)
      /\ ToSet(a.rq_queues[i]) = ToSet(q.rq[c].rq_queues[i]) \ {t}
      /\ \A j \in Index : j # i => a.rq_queues[j] = q.rq[c].rq_queues[j]
  <2>1. RunqOK(q.rq[c])
    BY <1>1, <1>2 DEF QueuesOK
  <2> QED
    BY <1>2, <1>3, <2>1, RemoveFacts
<1>5. /\ p.rq = [q.rq EXCEPT ![c] = a]
      /\ p.runq = [q.runq EXCEPT ![t] = "none"]
      /\ p.rqindex = [q.rqindex EXCEPT ![t] = 0]
      /\ p.idx = q.idx
  BY <1>1, <1>3, <1>11, <1>12 DEF CpuState, tdq_runq_rem
<1>6. /\ q.rq \in [Class -> RunQ] /\ DOMAIN q.state = Thread
      /\ DOMAIN q.runq = Thread /\ DOMAIN q.rqindex = Thread
  BY <1>1 DEF CpuState
<1>7. p.idx \in {p.ridx, (p.ridx + 1) % RQ_NQS}
  <2>1. \/ r.ridx = q.ridx
        \/ q.idx # q.ridx /\ r.ridx = (q.ridx + 1) % RQ_NQS
    BY <1>1 DEF CpuState, tdq_runq_rem, runq_next_idx
  <2> QED
    BY <2>1, <1>1, <1>5 DEF QueuesOK
<1>8. \A d \in Class : RunqOK(p.rq[d])
  BY <1>1, <1>4, <1>5, <1>6 DEF QueuesOK
<1>9. ASSUME NEW d \in Class, NEW j \in Index, NEW u \in Thread
      PROVE  u \in ToSet(p.rq[d].rq_queues[j]) <=>
               p.state[u] = "runq" /\ p.runq[u] = d /\ p.rqindex[u] = j
  <2>1. u \in ToSet(q.rq[d].rq_queues[j]) <=>
          q.state[u] = "runq" /\ q.runq[u] = d /\ q.rqindex[u] = j
    BY <1>1 DEF QueuesOK
  <2>2. ToSet(p.rq[d].rq_queues[j]) =
          IF d = c /\ j = i THEN ToSet(q.rq[d].rq_queues[j]) \ {t}
                            ELSE ToSet(q.rq[d].rq_queues[j])
    BY <1>4, <1>5, <1>6
  <2>3. CASE u = t
    BY <2>1, <2>2, <2>3, <1>5, <1>6, <1>11, <1>12
  <2>4. CASE u # t
    BY <2>1, <2>2, <2>4, <1>5, <1>6
  <2> QED
    BY <2>3, <2>4
<1>10. \A u \in Thread : p.state[u] = "runq" => p.runq[u] \in Class
  BY <1>1, <1>5, <1>6 DEF QueuesOK
<1> QED
  BY <1>7, <1>8, <1>9, <1>10 DEF Base, QueuesOK
-----------------------------------------------------------------------------
\* tdq_choose returns a queued thread or nothing.
LEMMA ChooseOK ==
  ASSUME NEW q, Base(q), NEW t, t = tdq_choose(q)
  PROVE  t = NoThread \/ (t \in Thread /\ q.state[t] = "runq")
<1>1. \A c \in Class : RunqOK(q.rq[c]) /\ q.rq[c] \in RunQ
  BY DEF Base, QueuesOK, RunqOK
<1>2. q.ridx \in Index /\ 0 \in Index
  BY RunQueueAssumption DEF Base, CpuState, Index
<1>3. t = NoThread \/ \E c \in Class, i \in Index : t \in ToSet(q.rq[c].rq_queues[i])
  BY <1>1, <1>2, ChooseFacts DEF tdq_choose, Class
<1>4. ASSUME NEW c \in Class, NEW i \in Index, t \in ToSet(q.rq[c].rq_queues[i])
      PROVE  t \in Thread /\ q.state[t] = "runq"
  <2>1. q.rq[c].rq_queues[i] \in Seq(Thread)
    BY <1>1 DEF RunQ
  <2>2. t \in Thread
    BY <2>1, <1>4, LenProperties, ElementOfSeq DEF ToSet
  <2> QED
    BY <2>2, <1>4 DEF Base, QueuesOK
<1> QED
  BY <1>3, <1>4

\* Every priority fits tdq_lowpri.
LEMMA PrioOK ==
  ASSUME NEW q \in CpuState
  PROVE  /\ \A t \in Thread : q.prio[t] \in 0 .. PRI_MAX_IDLE
         /\ CurPrio(q) \in 0 .. PRI_MAX_IDLE /\ PRI_MAX_IDLE \in 0 .. PRI_MAX_IDLE
<1>1. \A t \in Thread : q.prio[t] \in 0 .. PRI_MAX_IDLE
  BY TdqAssumption DEF CpuState
<1>2. PRI_MAX_IDLE \in 0 .. PRI_MAX_IDLE
  BY TdqAssumption
<1>3. q.cur = IdleThread \/ q.cur \in Thread
  BY DEF CpuState
<1> QED
  BY <1>1, <1>2, <1>3 DEF CurPrio

\* tdq_setlowpri changes tdq_lowpri alone.
LEMMA SetlowpriOK ==
  ASSUME NEW q, Base(q), NEW r, r = tdq_setlowpri(q)
  PROVE  Base(r) /\ r.state = q.state /\ r.cur = q.cur /\ r.leaving = q.leaving
<1>1. q \in CpuState
  BY DEF Base
<1>2. PICK t : t = tdq_choose(q)
  OBVIOUS
<1>3. t = NoThread \/ (t \in Thread /\ q.state[t] = "runq")
  BY <1>2, ChooseOK
<1>4. PICK p \in 0 .. PRI_MAX_IDLE :
         p = IF t = NoThread \/ q.prio[t] > CurPrio(q) THEN CurPrio(q) ELSE q.prio[t]
  BY <1>1, <1>3, PrioOK
<1>5. r = [q EXCEPT !.lowpri = p]
  BY <1>2, <1>4 DEF tdq_setlowpri
<1>6. r \in CpuState
  BY <1>1, <1>5 DEF CpuState
<1>7. /\ r.rq = q.rq /\ r.runq = q.runq /\ r.rqindex = q.rqindex
      /\ r.idx = q.idx /\ r.ridx = q.ridx
      /\ r.state = q.state /\ r.cur = q.cur /\ r.leaving = q.leaving
  BY <1>1, <1>5 DEF CpuState
<1> QED
  BY <1>6, <1>7, SameQueues

\* tdq_add queues a thread that is off and counts it.
LEMMA LoadTyped ==
  ASSUME NEW q \in CpuState, NEW n \in Int, NEW m \in Int
  PROVE  [q EXCEPT !.load = n, !.sysload = m] \in CpuState
BY DEF CpuState

LEMMA AddOK ==
  ASSUME NEW q, Base(q), NEW t \in Thread, q.state[t] # "runq",
         NEW flags, NEW rnd \in Rnd, NEW r, r = tdq_add(q, t, flags, rnd)
  PROVE  /\ Base(r)
         /\ r.state = [q.state EXCEPT ![t] = "runq"]
         /\ r.cur = q.cur /\ r.leaving = q.leaving
<1>1. q \in CpuState
  BY DEF Base
<1>2. PICK p \in 0 .. PRI_MAX_IDLE :
        p = IF q.prio[t] < q.lowpri THEN q.prio[t] ELSE q.lowpri
  BY <1>1, PrioOK DEF CpuState
<1>3. PICK q1 : q1 = [q EXCEPT !.lowpri = p]
  OBVIOUS
<1>4. q1 \in CpuState
  BY <1>1, <1>3 DEF CpuState
<1>5. /\ q1.rq = q.rq /\ q1.runq = q.runq /\ q1.rqindex = q.rqindex
      /\ q1.idx = q.idx /\ q1.ridx = q.ridx
      /\ q1.state = q.state /\ q1.cur = q.cur /\ q1.leaving = q.leaving
  BY <1>1, <1>3 DEF CpuState
<1>6. Base(q1)
  BY <1>4, <1>5, SameQueues
<1>7. PICK q2 : q2 = tdq_runq_add(q1, t, flags, rnd)
  OBVIOUS
<1>8. /\ Base(q2) /\ q2.state = [q.state EXCEPT ![t] = "runq"]
      /\ q2.cur = q.cur /\ q2.leaving = q.leaving
  BY <1>5, <1>6, <1>7, RunqAddOK
<1>10. q2 \in CpuState
  BY <1>8 DEF Base
<1>13. PICK m \in Int : m = IF t \in NoLoad THEN q2.sysload ELSE q2.sysload + 1
  BY <1>10 DEF CpuState
<1>9. r = [q2 EXCEPT !.load = q2.load + 1, !.sysload = m]
  BY <1>2, <1>3, <1>7, <1>13 DEF tdq_add, tdq_load_add
<1>11. r \in CpuState
  <2>1. [q2 EXCEPT !.load = q2.load + 1, !.sysload = m] \in CpuState
    <3>1. q2.load + 1 \in Int
      BY <1>10 DEF CpuState
    <3> QED
      BY <1>10, <3>1, LoadTyped, Zenon
  <2> QED
    BY <1>9, <2>1
<1>12. /\ r.rq = q2.rq /\ r.runq = q2.runq /\ r.rqindex = q2.rqindex
       /\ r.idx = q2.idx /\ r.ridx = q2.ridx
       /\ r.state = q2.state /\ r.cur = q2.cur /\ r.leaving = q2.leaving
  BY <1>9, <1>10 DEF CpuState
<1> QED
  BY <1>8, <1>11, <1>12, SameQueues

\* tdq_runq_rem leaves a well typed state and moves no thread by itself.
LEMMA RunqRemTyped ==
  ASSUME NEW q, Base(q), NEW t \in Thread, q.state[t] = "runq",
         NEW r, r = tdq_runq_rem(q, t)
  PROVE  /\ r \in CpuState
         /\ r.state = q.state /\ r.cur = q.cur /\ r.leaving = q.leaving
         /\ r.prio = q.prio
<1>1. q \in CpuState
  BY DEF Base
<1>2. PICK c \in Class : c = q.runq[t]
  BY QueuedWhere
<1>3. PICK i \in Index : i = q.rqindex[t]
  BY QueuedWhere
<1>4. PICK a \in RunQ : a = runq_remove(q.rq[c], t, i)
  <2>1. RunqOK(q.rq[c]) /\ t \in ToSet(q.rq[c].rq_queues[i])
    BY <1>2, <1>3, QueuedWhere DEF Base, QueuesOK
  <2>2. RunqOK(runq_remove(q.rq[c], t, i))
    BY <2>1, RemoveFacts
  <2> QED
    BY <2>2 DEF RunqOK
<1>5. PICK j \in Index : j = IF c = "timeshare" /\ q.idx # q.ridx
                             THEN runq_next_idx(q.rq[c], t, i, q.ridx) ELSE q.ridx
  <2>1. q.ridx \in Index /\ (i + 1) % RQ_NQS \in Index
    BY <1>1, ModIndex DEF CpuState, Index
  <2> QED
    BY <2>1 DEF runq_next_idx
<1>6. PICK n \in Int : n = IF q.xfer[t] THEN q.transferable - 1 ELSE q.transferable
  BY <1>1 DEF CpuState
<1>7. r = [q EXCEPT !.rq[c] = a, !.ridx = j, !.runq[t] = "none", !.rqindex[t] = 0,
                    !.xfer[t] = FALSE, !.transferable = n]
  BY <1>2, <1>3, <1>4, <1>5, <1>6 DEF tdq_runq_rem
<1>8. [q EXCEPT !.rq[c] = a, !.ridx = j, !.runq[t] = "none", !.rqindex[t] = 0,
                !.xfer[t] = FALSE, !.transferable = n] \in CpuState
  BY <1>1, UnlinkTyped, Zenon
<1>9. r \in CpuState
  BY <1>7, <1>8
<1> QED
  BY <1>1, <1>7, <1>9 DEF CpuState

\* sched_rem takes a queued thread off the processor.
LEMMA SchedRemOK ==
  ASSUME NEW q, Base(q), NEW t \in Thread, q.state[t] = "runq",
         NEW r, r = sched_rem(q, t)
  PROVE  /\ Base(r) /\ r.state = [q.state EXCEPT ![t] = "off"]
         /\ r.cur = q.cur /\ r.leaving = q.leaving
<1>1. PICK q1 : q1 = tdq_runq_rem(q, t)
  OBVIOUS
<1>2. /\ q1 \in CpuState
      /\ q1.state = q.state /\ q1.cur = q.cur /\ q1.leaving = q.leaving
  BY <1>1, RunqRemTyped
<1>10. PICK m \in Int : m = IF t \in NoLoad THEN q1.sysload ELSE q1.sysload - 1
  BY <1>2 DEF CpuState
<1>3. PICK q2 : q2 = [q1 EXCEPT !.load = q1.load - 1, !.sysload = m, !.state[t] = "off"]
  OBVIOUS
<1>4. q2 \in CpuState
  <2>1. q1 \in CpuState /\ q1.load - 1 \in Int
    BY <1>2 DEF CpuState
  <2> QED
    BY <2>1, <1>3 DEF CpuState
<1>5. /\ q2.rq = q1.rq /\ q2.runq = q1.runq /\ q2.rqindex = q1.rqindex
      /\ q2.idx = q1.idx /\ q2.ridx = q1.ridx
      /\ q2.state = [q.state EXCEPT ![t] = "off"]
      /\ q2.cur = q.cur /\ q2.leaving = q.leaving
  BY <1>2, <1>3 DEF CpuState
<1>6. Base(q2)
  BY <1>1, <1>4, <1>5, RunqRemOK
<1>7. r = IF q.prio[t] = q.lowpri THEN tdq_setlowpri(q2) ELSE q2
  <2>1. q2 = [tdq_load_rem(q1, t) EXCEPT !.state[t] = "off"]
    BY <1>2, <1>3, <1>10 DEF tdq_load_rem, CpuState
  <2> QED
    BY <2>1, <1>1 DEF sched_rem
<1>8. CASE q.prio[t] = q.lowpri
  BY <1>5, <1>6, <1>7, <1>8, SetlowpriOK
<1>9. CASE q.prio[t] # q.lowpri
  BY <1>5, <1>6, <1>7, <1>9
<1> QED
  BY <1>8, <1>9

\* What choosethread writes is well typed.
LEMMA ChosenTyped ==
  ASSUME NEW q \in CpuState, NEW t \in Thread, NEW p \in 0 .. PRI_MAX_IDLE
  PROVE  [q EXCEPT !.lowpri = p, !.cur = t, !.state[t] = "running"] \in CpuState
BY DEF CpuState

\* choosethread: with nothing running, the chosen thread is the one that runs.
LEMMA ChoosethreadOK ==
  ASSUME NEW q, Base(q), \A t \in Thread : q.state[t] # "running",
         q.leaving = "no", NEW r, r = sched_choose(q, tdq_choose(q))
  PROVE  Base(r) /\ OnlyCurRuns(r)
<1>1. q \in CpuState
  BY DEF Base
<1>2. PICK t : t = tdq_choose(q)
  OBVIOUS
<1>3. CASE t = NoThread
  <2>1. r = [q EXCEPT !.lowpri = PRI_MAX_IDLE, !.cur = IdleThread]
    BY <1>2, <1>3 DEF sched_choose
  <2>2. r \in CpuState
    BY <1>1, <2>1, PrioOK DEF CpuState
  <2>3. /\ r.rq = q.rq /\ r.runq = q.runq /\ r.rqindex = q.rqindex
        /\ r.idx = q.idx /\ r.ridx = q.ridx /\ r.state = q.state
        /\ r.cur = IdleThread
    BY <1>1, <2>1 DEF CpuState
  <2>4. Base(r)
    BY <2>2, <2>3, SameQueues
  <2> QED
    BY <2>3, <2>4, TdqAssumption DEF OnlyCurRuns
<1>4. ASSUME t # NoThread
      PROVE  Base(r) /\ OnlyCurRuns(r)
  <2>1. PICK u \in Thread : u = t /\ q.state[u] = "runq"
    BY <1>2, <1>4, ChooseOK
  <2>2. PICK q1 : q1 = tdq_runq_rem(q, u)
    OBVIOUS
  <2>3. q1 \in CpuState /\ q1.state = q.state /\ q1.leaving = "no"
    BY <2>1, <2>2, RunqRemTyped
  <2>4. PICK p \in 0 .. PRI_MAX_IDLE : p = q.prio[u]
    BY <1>1, PrioOK
  <2>5. r = [q1 EXCEPT !.lowpri = p, !.cur = u, !.state[u] = "running"]
    BY <1>2, <1>4, <2>1, <2>2, <2>4 DEF sched_choose
  <2>9. r \in CpuState
    <3>1. [q1 EXCEPT !.lowpri = p, !.cur = u, !.state[u] = "running"] \in CpuState
      BY <2>3, ChosenTyped, Zenon
    <3> QED
      BY <3>1, <2>5
  <2>6. /\ r.rq = q1.rq /\ r.runq = q1.runq /\ r.rqindex = q1.rqindex
        /\ r.idx = q1.idx /\ r.ridx = q1.ridx
        /\ r.state = [q.state EXCEPT ![u] = "running"]
        /\ r.cur = u /\ r.leaving = "no"
    BY <2>3, <2>5 DEF CpuState
  <2>7. Base(r)
    BY <2>1, <2>2, <2>6, <2>9, RunqRemOK
  <2>8. DOMAIN q.state = Thread
    BY <1>1 DEF CpuState
  <2> QED
    BY <2>6, <2>7, <2>8 DEF OnlyCurRuns
<1> QED
  BY <1>3, <1>4
-----------------------------------------------------------------------------
\* The first lines of sched_switch clear flags only.
LEMMA ClearFlagsOK ==
  ASSUME NEW q, Base(q), NEW r, r = ClearFlags(q)
  PROVE  Base(r) /\ r.state = q.state /\ r.cur = q.cur /\ r.leaving = q.leaving
<1>1. q \in CpuState
  BY DEF Base
<1>2. r \in CpuState
  BY <1>1 DEF ClearFlags, CpuState
<1>3. /\ r.rq = q.rq /\ r.runq = q.runq /\ r.rqindex = q.rqindex
      /\ r.idx = q.idx /\ r.ridx = q.ridx
      /\ r.state = q.state /\ r.cur = q.cur /\ r.leaving = q.leaving
  BY <1>1 DEF ClearFlags, CpuState
<1> QED
  BY <1>2, <1>3, SameQueues

\* An outgoing thread that can run is queued: then nothing runs.
LEMMA RequeuedOK ==
  ASSUME NEW q, Base(q), OnlyCurRuns(q), q.leaving = "no",
         NEW preempt, NEW rnd \in Rnd, NEW r, r = Requeued(q, preempt, rnd)
  PROVE  /\ Base(r) /\ r.leaving = "no"
         /\ \A t \in Thread : r.state[t] # "running"
<1>1. PICK q1 : q1 = ClearFlags(q)
  OBVIOUS
<1>2. Base(q1) /\ q1.state = q.state /\ q1.cur = q.cur /\ q1.leaving = "no"
  BY <1>1, ClearFlagsOK
<1>3. CASE q.cur = IdleThread
  <2>1. r = q1
    BY <1>1, <1>3 DEF Requeued
  <2> QED
    BY <2>1, <1>2, <1>3, TdqAssumption DEF OnlyCurRuns
<1>4. CASE q.cur # IdleThread
  <2>1. PICK t \in Thread : t = q.cur
    BY <1>4 DEF Base, CpuState
  <2>2. q1.state[t] # "runq" /\ \A u \in Thread : u # t => q1.state[u] # "running"
    BY <2>1, <1>2 DEF OnlyCurRuns
  <2>3. PICK flags : r = tdq_runq_add(q1, t, flags, rnd)
    BY <1>1, <1>4, <2>1 DEF Requeued
  <2>4. /\ Base(r) /\ r.leaving = "no"
        /\ r.state = [q1.state EXCEPT ![t] = "runq"]
    BY <1>2, <2>2, <2>3, RunqAddOK
  <2>5. DOMAIN q1.state = Thread
    BY <1>2 DEF Base, CpuState
  <2> QED
    BY <2>2, <2>4, <2>5
<1> QED
  BY <1>3, <1>4

\* A whole sched_switch of a thread that can still run.
LEMMA SwitchOK ==
  ASSUME NEW q, Base(q), OnlyCurRuns(q), q.leaving = "no",
         NEW preempt, NEW rnd \in Rnd, NEW q1, q1 = Requeued(q, preempt, rnd),
         NEW r, r = sched_choose(q1, tdq_choose(q1))
  PROVE  Base(r) /\ OnlyCurRuns(r)
BY RequeuedOK, ChoosethreadOK

\* What a thread that leaves the processor writes is well typed.
LEMMA OffTyped ==
  ASSUME NEW q \in CpuState, NEW t \in Thread, NEW n \in Int, NEW m \in Int
  PROVE  [q EXCEPT !.load = n, !.sysload = m, !.state[t] = "off"] \in CpuState
BY DEF CpuState

\* An outgoing thread that leaves: nothing runs.
LEMMA SwitchLeaveOK ==
  ASSUME NEW q, Base(q), OnlyCurRuns(q), q.leaving = "no", q.cur # IdleThread,
         NEW r, r = SwitchLeave(q)
  PROVE  /\ Base(r) /\ r.leaving = "no"
         /\ \A t \in Thread : r.state[t] # "running"
<1>1. PICK q1 : q1 = ClearFlags(q)
  OBVIOUS
<1>2. Base(q1) /\ q1.state = q.state /\ q1.cur = q.cur /\ q1.leaving = "no"
  BY <1>1, ClearFlagsOK
<1>3. q1 \in CpuState /\ q1.load - 1 \in Int
  BY <1>2 DEF Base, CpuState
<1>4. PICK t \in Thread : t = q.cur
  BY DEF Base, CpuState
<1>5. q1.state[t] # "runq" /\ \A u \in Thread : u # t => q1.state[u] # "running"
  BY <1>2, <1>4 DEF OnlyCurRuns
<1>13. PICK m \in Int : m = IF t \in NoLoad THEN q1.sysload ELSE q1.sysload - 1
  BY <1>3 DEF CpuState
<1>6. r = [q1 EXCEPT !.load = q1.load - 1, !.sysload = m, !.state[t] = "off"]
  BY <1>1, <1>3, <1>4, <1>13 DEF SwitchLeave, tdq_load_rem, CpuState
<1>7. r \in CpuState
  <2>1. [q1 EXCEPT !.load = q1.load - 1, !.sysload = m, !.state[t] = "off"] \in CpuState
    BY <1>3, OffTyped, Zenon
  <2> QED
    BY <1>6, <2>1
<1>8. /\ r.rq = q1.rq /\ r.runq = q1.runq /\ r.rqindex = q1.rqindex
      /\ r.idx = q1.idx /\ r.ridx = q1.ridx
      /\ r.state = [q1.state EXCEPT ![t] = "off"] /\ r.leaving = q1.leaving
  BY <1>3, <1>6 DEF CpuState
<1>9. DOMAIN q1.state = Thread
  BY <1>3 DEF CpuState
<1>10. \A u \in Thread : r.state[u] = "runq" <=> q1.state[u] = "runq"
  BY <1>5, <1>8, <1>9
<1>12. Base(q1)
  BY <1>2
<1>11. Base(r)
  <2>1. /\ r.rq = q1.rq /\ r.runq = q1.runq /\ r.rqindex = q1.rqindex
        /\ r.idx = q1.idx /\ r.ridx = q1.ridx
    BY <1>8
  <2> QED
    BY <1>12, <1>7, <2>1, <1>10, SameQueues, Zenon
<1> QED
  BY <1>2, <1>5, <1>8, <1>9, <1>11

\* The flags of sched_setpreempt are well typed.
LEMMA FlagsTyped ==
  ASSUME NEW q \in CpuState, NEW a \in BOOLEAN, NEW b \in BOOLEAN
  PROVE  [q EXCEPT !.needresched = a, !.owepreempt = b] \in CpuState
BY DEF CpuState

\* sched_add of a thread that is off, by this processor or another.
LEMMA AddHereOK ==
  ASSUME NEW q, Base(q), NEW t \in Thread, q.state[t] # "runq",
         NEW flags, NEW rnd \in Rnd, NEW r, r = AddHere(q, t, flags, rnd)
  PROVE  /\ Base(r) /\ r.state = [q.state EXCEPT ![t] = "runq"]
         /\ r.cur = q.cur /\ r.leaving = q.leaving
<1>1. PICK q1 : q1 = tdq_add(q, t, flags, rnd)
  OBVIOUS
<1>2. /\ Base(q1) /\ q1.state = [q.state EXCEPT ![t] = "runq"]
      /\ q1.cur = q.cur /\ q1.leaving = q.leaving
  BY <1>1, AddOK
<1>3. q1 \in CpuState
  BY <1>2 DEF Base
<1>4. PICK a \in BOOLEAN : a = (q1.needresched \/ q1.prio[t] < CurPrio(q1))
  OBVIOUS
<1>5. PICK b \in BOOLEAN :
        b = (q1.owepreempt \/ sched_shouldpreempt(q1.prio[t], CurPrio(q1), FALSE))
  OBVIOUS
<1>6. r = [q1 EXCEPT !.needresched = a, !.owepreempt = b]
  BY <1>1, <1>4, <1>5 DEF AddHere, sched_setpreempt
<1>7. r \in CpuState
  <2>1. [q1 EXCEPT !.needresched = a, !.owepreempt = b] \in CpuState
    BY <1>3, FlagsTyped, Zenon
  <2> QED
    BY <1>6, <2>1
<1>8. /\ r.rq = q1.rq /\ r.runq = q1.runq /\ r.rqindex = q1.rqindex
      /\ r.idx = q1.idx /\ r.ridx = q1.ridx
      /\ r.state = q1.state /\ r.cur = q1.cur /\ r.leaving = q1.leaving
  BY <1>3, <1>6 DEF CpuState
<1> QED
  BY <1>2, <1>7, <1>8, SameQueues

\* The same with an IPI in place of the flags.
LEMMA AddRemoteOK ==
  ASSUME NEW q, Base(q), NEW t \in Thread, q.state[t] # "runq",
         NEW flags, NEW rnd \in Rnd, NEW woken,
         NEW r, r = AddRemote(q, t, flags, rnd, woken)
  PROVE  /\ Base(r) /\ r.state = [q.state EXCEPT ![t] = "runq"]
         /\ r.cur = q.cur /\ r.leaving = q.leaving
<1>1. PICK q1 : q1 = tdq_add(q, t, flags, rnd)
  OBVIOUS
<1>2. /\ Base(q1) /\ q1.state = [q.state EXCEPT ![t] = "runq"]
      /\ q1.cur = q.cur /\ q1.leaving = q.leaving
  BY <1>1, AddOK
<1>3. q1 \in CpuState
  BY <1>2 DEF Base
<1>4. r = q1 \/ r = [q1 EXCEPT !.ipipending = TRUE, !.ipi = TRUE]
  BY <1>1 DEF AddRemote, tdq_notify
<1>5. r \in CpuState
  <2>1. [q1 EXCEPT !.ipipending = TRUE, !.ipi = TRUE] \in CpuState
    BY <1>3 DEF CpuState
  <2> QED
    BY <1>3, <1>4, <2>1
<1>6. /\ r.rq = q1.rq /\ r.runq = q1.runq /\ r.rqindex = q1.rqindex
      /\ r.idx = q1.idx /\ r.ridx = q1.ridx
      /\ r.state = q1.state /\ r.cur = q1.cur /\ r.leaving = q1.leaving
  BY <1>3, <1>4 DEF CpuState
<1> QED
  BY <1>2, <1>5, <1>6, SameQueues
-----------------------------------------------------------------------------
\* The order of positions is total and well-founded: the first one exists.
LEMMA FirstSlotOK ==
  ASSUME NEW A \in SUBSET (Index \X Nat), A # {}
  PROVE  FirstSlot(A) \in A
<1>7. \A a \in A : a[1] \in Nat /\ a[2] \in Nat
  BY RunQueueAssumption DEF Index
<1>8. ASSUME NEW T \in SUBSET Nat, T # {}
      PROVE  \E m \in T : \A x \in T : m <= x
  <2>1. Min(T) \in T /\ \A x \in T : Min(T) <= x
    BY <1>8, MinOfNats
  <2> QED
    BY <2>1
<1>1. PICK T : T = {a[1] : a \in A}
  OBVIOUS
<1>9. T \in SUBSET Nat /\ T # {}
  BY <1>1, <1>7
<1>2. PICK m \in T : \A x \in T : m <= x
  BY <1>8, <1>9
<1>3. PICK U : U = {a[2] : a \in {b \in A : b[1] = m}}
  OBVIOUS
<1>10. U \in SUBSET Nat /\ U # {}
  BY <1>1, <1>3, <1>7
<1>4. PICK n \in U : \A x \in U : n <= x
  BY <1>8, <1>10
<1>5. PICK a \in A : a[1] = m /\ a[2] = n
  BY <1>3
<1>6. ASSUME NEW b \in A
      PROVE  Before(a, b)
  <2>1. b[1] \in T /\ m <= b[1]
    BY <1>1, <1>2
  <2>2. b[1] = m => n <= b[2]
    BY <1>3, <1>4
  <2>3. b[1] \in Nat /\ m \in Nat
    BY <1>7, <1>9
  <2> QED
    BY <1>5, <2>1, <2>2, <2>3 DEF Before
<1> QED
  BY <1>6 DEF FirstSlot

\* tdq_steal returns a queued thread or nothing, from whichever pass.
LEMMA StealOK ==
  ASSUME NEW q, Base(q), NEW t, t = tdq_steal(q), t # NoThread
  PROVE  t \in Thread /\ q.state[t] = "runq"
<1> DEFINE Queued(u) == u = NoThread \/ (u \in Thread /\ q.state[u] = "runq")
<1>1. ASSUME NEW c \in Class, NEW i \in Int, NEW A \in SUBSET Slots(q.rq[c], i),
             A # {}
      PROVE  Queued(At(q.rq[c], FirstSlot(A)))
  <2>1. Cardinality(Thread) \in Nat
    BY TdqAssumption, FS_CardinalityType
  <2>2. A \in SUBSET (Index \X Nat)
    BY <1>1, <2>1 DEF Slots
  <2>3. PICK a \in A : a = FirstSlot(A)
    BY <1>1, <2>2, FirstSlotOK
  <2>4. /\ a[1] \in Index /\ a[2] \in 1 .. Cardinality(Thread)
        /\ a[2] <= Len(q.rq[c].rq_queues[a[1]])
    BY <1>1 DEF Slots
  <2>5. PICK j \in Index : j = a[1]
    BY <2>4
  <2>6. q.rq[c].rq_queues[j] \in Seq(Thread)
    BY DEF Base, CpuState, RunQ
  <2>7. a[2] \in 1 .. Len(q.rq[c].rq_queues[j])
    BY <2>1, <2>4, <2>5, <2>6, LenProperties
  <2>8. At(q.rq[c], a) = q.rq[c].rq_queues[j][a[2]]
    BY <2>5 DEF At
  <2>9. At(q.rq[c], a) \in Thread /\ At(q.rq[c], a) \in ToSet(q.rq[c].rq_queues[j])
    BY <2>6, <2>7, <2>8, LenProperties, ElementOfSeq DEF ToSet
  <2> QED
    BY <2>3, <2>9 DEF Base, QueuesOK
<1>2. \A c \in Class : Queued(runq_steal(q, c))
  <2> SUFFICES ASSUME NEW c \in Class
      PROVE  Queued(runq_steal(q, c))
    OBVIOUS
  <2> DEFINE ok == {a \in Slots(q.rq[c], 0) : CanSteal(q, At(q.rq[c], a))}
  <2>1. ok \in SUBSET Slots(q.rq[c], 0)
    OBVIOUS
  <2>2. runq_steal(q, c) = IF ok = {} THEN NoThread ELSE At(q.rq[c], FirstSlot(ok))
    BY DEF runq_steal
  <2> HIDE DEF ok
  <2> QED
    BY <2>1, <2>2, <1>1
<1>3. Queued(runq_steal_from(q, "timeshare", q.ridx))
  <2> DEFINE rq == q.rq["timeshare"]
             pass1 == Slots(rq, q.ridx)
             pass2 == IF q.ridx = 0 THEN {} ELSE Slots(rq, 0)
             skip1 == IF pass1 = {} THEN {} ELSE {FirstSlot(pass1)}
             skip2 == IF pass1 = {} /\ pass2 # {} THEN {FirstSlot(pass2)} ELSE {}
             Ok(slots) == {a \in slots : CanSteal(q, At(rq, a))}
             only == IF Cardinality(pass1) + Cardinality(pass2) = 1
                     THEN Ok(pass1 \cup pass2) ELSE {}
  <2>1. runq_steal_from(q, "timeshare", q.ridx) =
          IF Ok(pass1 \ skip1) # {} THEN At(rq, FirstSlot(Ok(pass1 \ skip1)))
          ELSE IF Ok(pass2 \ skip2) # {} THEN At(rq, FirstSlot(Ok(pass2 \ skip2)))
          ELSE IF only # {} THEN At(rq, FirstSlot(only))
          ELSE NoThread
    BY DEF runq_steal_from
  <2>2. q.ridx \in Int /\ "timeshare" \in Class /\ q.ridx >= 0
    BY DEF Base, CpuState, Index, Class
  <2>3. Slots(rq, q.ridx) \subseteq Slots(rq, 0)
    BY <2>2 DEF Slots, Index
  <2>4. /\ Ok(pass1 \ skip1) \in SUBSET Slots(rq, 0)
        /\ Ok(pass2 \ skip2) \in SUBSET Slots(rq, 0)
        /\ only \in SUBSET Slots(rq, 0)
    BY <2>3
  <2>5. \A A \in SUBSET Slots(rq, 0) : A # {} => Queued(At(rq, FirstSlot(A)))
    BY <2>2, <1>1
  <2> HIDE DEF rq, Ok, only, pass1, pass2, skip1, skip2
  <2>6. Ok(pass1 \ skip1) # {} => Queued(At(rq, FirstSlot(Ok(pass1 \ skip1))))
    BY <2>4, <2>5
  <2>7. Ok(pass2 \ skip2) # {} => Queued(At(rq, FirstSlot(Ok(pass2 \ skip2))))
    BY <2>4, <2>5
  <2>8. only # {} => Queued(At(rq, FirstSlot(only)))
    BY <2>4, <2>5
  <2>9. Queued(NoThread)
    OBVIOUS
  <2> HIDE DEF Queued
  <2> QED
    BY <2>1, <2>6, <2>7, <2>8, <2>9
<1> QED
  BY <1>2, <1>3 DEF tdq_steal, Class
-----------------------------------------------------------------------------
\* Handlers that change neither the queues nor what runs.
LEMMA Unmoved ==
  ASSUME NEW q, Base(q), OnlyCurRuns(q), NEW r \in CpuState,
         r.rq = q.rq, r.runq = q.runq, r.rqindex = q.rqindex,
         r.idx = q.idx, r.ridx = q.ridx,
         r.state = q.state, r.cur = q.cur, r.leaving = q.leaving
  PROVE  Base(r) /\ OnlyCurRuns(r)
BY SameQueues DEF OnlyCurRuns

\* A thread that is not running arrives on a queue or leaves one.
LEMMA Moved ==
  ASSUME NEW q \in CpuState, OnlyCurRuns(q), NEW t \in Thread,
         q.state[t] # "running", NEW x \in {"off", "runq"}, NEW r,
         r.state = [q.state EXCEPT ![t] = x], r.cur = q.cur, r.leaving = q.leaving
  PROVE  OnlyCurRuns(r)
BY DEF CpuState, OnlyCurRuns

\* tdq_setup establishes the invariant.
LEMMA InitInv == Init => Inv
<1> SUFFICES ASSUME Init
    PROVE  Inv
  OBVIOUS
<1>1. PICK p \in [Thread -> Prio] :
    s = [rq |-> [c \in Class |-> runq_init], idx |-> 0, ridx |-> 0,
         load |-> 0, sysload |-> 0, transferable |-> 0, lowpri |-> PRI_MAX_IDLE,
         ipipending |-> FALSE, ipi |-> FALSE, cur |-> IdleThread, leaving |-> "no",
         needresched |-> FALSE, sliceend |-> FALSE, owepreempt |-> FALSE,
         state |-> [t \in Thread |-> "off"], prio |-> p,
         runq |-> [t \in Thread |-> "none"],
         rqindex |-> [t \in Thread |-> 0],
         xfer |-> [t \in Thread |-> FALSE],
         pinned |-> [t \in Thread |-> FALSE],
         slice |-> [t \in Thread |-> 0]]
  BY DEF Init
<1>2. 0 \in Index /\ PRI_MAX_IDLE \in 0 .. PRI_MAX_IDLE
  BY RunQueueAssumption, TdqAssumption DEF Index
<1>3. runq_init \in RunQ
  BY InitOK DEF RunqOK
<1>4. s \in CpuState
  BY <1>1, <1>2, <1>3 DEF CpuState
<1>5. QueuesOK(s)
  BY <1>1, InitOK DEF QueuesOK
<1>6. OnlyCurRuns(s)
  BY <1>1, TdqAssumption DEF OnlyCurRuns
<1> QED
  BY <1>4, <1>5, <1>6 DEF Inv, Base

\* sched_switch of a thread that can run, in each handler that calls it.
LEMMA SwitchRunnableInv ==
  ASSUME Inv, Here, NEW q, Base(q), OnlyCurRuns(q), q.leaving = "no",
         NEW preempt, SwitchRunnable(q, preempt)
  PROVE  Inv'
<1>1. PICK rnd \in Rnd : \E q1 \in {Requeued(q, preempt, rnd)} : RunNext(q1)
  BY DEF SwitchRunnable
<1>2. PICK q1 : /\ q1 = Requeued(q, preempt, rnd)
                /\ s' = sched_choose(q1, tdq_choose(q1))
  BY <1>1 DEF RunNext
<1>3. Base(s') /\ OnlyCurRuns(s')
  BY <1>2, SwitchOK
<1> QED
  BY <1>3 DEF Inv

\* The handlers that do nothing but switch.
LEMMA SwitchInv ==
  ASSUME Inv, Ast \/ CriticalExit \/ SchedRelinquish \/ IdleSwitch
  PROVE  Inv'
<1>1. \E preempt \in BOOLEAN : SwitchRunnable(s, preempt)
  BY DEF Ast, CriticalExit, SchedRelinquish, IdleSwitch
<1>2. Base(s) /\ OnlyCurRuns(s) /\ Here /\ s.leaving = "no"
  BY DEF Inv, Ast, CriticalExit, SchedRelinquish, IdleSwitch, Running, Here
<1> QED
  BY <1>1, <1>2, SwitchRunnableInv

\* The IPI handler switches at once or leaves the switch to critical_exit.
LEMMA SchedPreemptInv ==
  ASSUME Inv, SchedPreempt
  PROVE  Inv'
<1>1. Base(s) /\ OnlyCurRuns(s) /\ Here /\ s.leaving = "no" /\ s \in CpuState
  BY DEF Inv, Base, SchedPreempt, Here
<1>2. PICK q : q = [s EXCEPT !.ipipending = FALSE, !.ipi = FALSE]
  OBVIOUS
<1>3. /\ q \in CpuState
      /\ q.rq = s.rq /\ q.runq = s.runq /\ q.rqindex = s.rqindex
      /\ q.idx = s.idx /\ q.ridx = s.ridx
      /\ q.state = s.state /\ q.cur = s.cur /\ q.leaving = s.leaving
  BY <1>1, <1>2 DEF CpuState
<1>4. Base(q) /\ OnlyCurRuns(q)
  BY <1>1, <1>3, Unmoved
<1>5. s' = q \/ s' = [q EXCEPT !.owepreempt = TRUE] \/ SwitchRunnable(q, TRUE)
  BY <1>2 DEF SchedPreempt
<1>6. CASE s' = q
  BY <1>4, <1>6 DEF Inv
<1>7. CASE s' = [q EXCEPT !.owepreempt = TRUE]
  <2>1. s' \in CpuState
    BY <1>3, <1>7 DEF CpuState
  <2>2. /\ s'.rq = q.rq /\ s'.runq = q.runq /\ s'.rqindex = q.rqindex
        /\ s'.idx = q.idx /\ s'.ridx = q.ridx
        /\ s'.state = q.state /\ s'.cur = q.cur /\ s'.leaving = q.leaving
    BY <1>3, <1>7 DEF CpuState
  <2>3. Base(s') /\ OnlyCurRuns(s')
    BY <1>4, <2>1, <2>2, Unmoved
  <2> QED
    BY <2>3 DEF Inv
<1>8. CASE SwitchRunnable(q, TRUE)
  BY <1>1, <1>3, <1>4, <1>8, SwitchRunnableInv
<1> QED
  BY <1>5, <1>6, <1>7, <1>8

\* The outgoing thread sleeps, exits or is sent away.
LEMMA SwitchSleepInv ==
  ASSUME Inv, SwitchSleep
  PROVE  Inv'
<1>1. /\ Base(s) /\ OnlyCurRuns(s) /\ s.leaving = "no" /\ s.cur # IdleThread
  BY DEF Inv, SwitchSleep, Running, Here
<1>2. PICK q : q = SwitchLeave(s)
  OBVIOUS
<1>3. /\ Base(q) /\ q.leaving = "no"
      /\ \A t \in Thread : q.state[t] # "running"
  BY <1>1, <1>2, SwitchLeaveOK
<1>4. CASE s' = [q EXCEPT !.leaving = "steal"]
  <2>1. q \in CpuState
    BY <1>3 DEF Base
  <2>2. s' \in CpuState
    BY <2>1, <1>4 DEF CpuState
  <2>3. /\ s'.rq = q.rq /\ s'.runq = q.runq /\ s'.rqindex = q.rqindex
        /\ s'.idx = q.idx /\ s'.ridx = q.ridx
        /\ s'.state = q.state /\ s'.leaving = "steal"
    BY <2>1, <1>4 DEF CpuState
  <2>4. Base(s')
    BY <1>3, <2>2, <2>3, SameQueues
  <2> QED
    BY <1>3, <2>3, <2>4 DEF Inv, OnlyCurRuns
<1>5. CASE s' = sched_choose(q, tdq_choose(q))
  <2>1. Base(s') /\ OnlyCurRuns(s')
    BY <1>3, <1>5, ChoosethreadOK
  <2> QED
    BY <2>1 DEF Inv
<1> QED
  BY <1>2, <1>4, <1>5 DEF SwitchSleep, RunNext

\* SwitchLeave, with the binding of the outgoing thread undone.
Unbound(q, t, x) == [q EXCEPT !.leaving = x, !.pinned[t] = FALSE]

\* It moves nothing.
LEMMA UnboundOK ==
  ASSUME NEW q, Base(q), NEW t \in Thread, NEW x \in {"no", "migrate"},
         NEW r, r = Unbound(q, t, x)
  PROVE  Base(r) /\ r.state = q.state /\ r.leaving = x
<1>1. q \in CpuState
  BY DEF Base
<1>2. r \in CpuState
  BY <1>1 DEF CpuState, Unbound
<1>3. /\ r.rq = q.rq /\ r.runq = q.runq /\ r.rqindex = q.rqindex
      /\ r.idx = q.idx /\ r.ridx = q.ridx /\ r.state = q.state /\ r.leaving = x
  BY <1>1 DEF CpuState, Unbound
<1> QED
  BY <1>2, <1>3, SameQueues

\* An exiting thread is followed by the next one at once.
LEMMA SchedThrowInv ==
  ASSUME Inv, SchedThrow
  PROVE  Inv'
<1>1. /\ Base(s) /\ OnlyCurRuns(s) /\ s.leaving = "no" /\ s.cur # IdleThread
  BY DEF Inv, SchedThrow, Running, Here
<1>2. PICK q : q = SwitchLeave(s)
  OBVIOUS
<1>3. /\ Base(q) /\ q.leaving = "no"
      /\ \A t \in Thread : q.state[t] # "running"
  BY <1>1, <1>2, SwitchLeaveOK
<1>4. PICK t \in Thread : t = s.cur
  BY <1>1 DEF Base, CpuState
<1>5. PICK r : r = Unbound(q, t, "no")
  OBVIOUS
<1>10. Base(r) /\ r.state = q.state /\ r.leaving = "no"
  <2>1. Base(q) /\ "no" \in {"no", "migrate"}
    BY <1>3
  <2> QED
    BY <2>1, <1>5, UnboundOK
<1>6. /\ Base(r) /\ r.leaving = "no"
      /\ \A u \in Thread : r.state[u] # "running"
  BY <1>3, <1>10
<1>7. r = [q EXCEPT !.pinned[s.cur] = FALSE]
  <2>1. q \in CpuState /\ q.leaving = "no"
    BY <1>3 DEF Base
  <2> QED
    BY <2>1, <1>4, <1>5 DEF CpuState, Unbound
<1>8. s' = sched_choose(r, tdq_choose(r))
  BY <1>2, <1>7 DEF SchedThrow, RunNext
<1>9. Base(s') /\ OnlyCurRuns(s')
  BY <1>6, <1>8, ChoosethreadOK
<1> QED
  BY <1>9 DEF Inv

\* A migrating thread leaves the processor with nothing running.
LEMMA SchedMigrateInv ==
  ASSUME Inv, SchedMigrate
  PROVE  Inv'
<1>1. /\ Base(s) /\ OnlyCurRuns(s) /\ s.leaving = "no" /\ s.cur # IdleThread
  BY DEF Inv, SchedMigrate, Running, Here
<1>2. PICK q : q = SwitchLeave(s)
  OBVIOUS
<1>3. Base(q) /\ \A t \in Thread : q.state[t] # "running"
  BY <1>1, <1>2, SwitchLeaveOK
<1>4. PICK t \in Thread : t = s.cur
  BY <1>1 DEF Base, CpuState
<1>5. s' = Unbound(q, t, "migrate")
  BY <1>2, <1>4 DEF SchedMigrate, Unbound
<1>6. Base(s') /\ s'.state = q.state /\ s'.leaving = "migrate"
  <2>1. Base(q) /\ "migrate" \in {"no", "migrate"}
    BY <1>3
  <2> QED
    BY <2>1, <1>5, UnboundOK
<1> QED
  BY <1>3, <1>6 DEF Inv, OnlyCurRuns

\* The lock is held again: the switch that was under way ends.
LEMMA RelockOK ==
  ASSUME NEW q, Base(q), OnlyCurRuns(q), q.leaving # "no",
         NEW r, r = [q EXCEPT !.leaving = "no"]
  PROVE  /\ Base(r) /\ r.state = q.state /\ r.leaving = "no"
         /\ \A t \in Thread : r.state[t] # "running"
<1>1. q \in CpuState
  BY DEF Base
<1>2. r \in CpuState
  BY <1>1 DEF CpuState
<1>3. /\ r.rq = q.rq /\ r.runq = q.runq /\ r.rqindex = q.rqindex
      /\ r.idx = q.idx /\ r.ridx = q.ridx /\ r.state = q.state /\ r.leaving = "no"
  BY <1>1 DEF CpuState
<1>4. Base(r)
  BY <1>2, <1>3, SameQueues
<1> QED
  BY <1>3, <1>4 DEF OnlyCurRuns

\* The switch ends with the thread tdq_choose finds by then.
LEMMA SwitchFinishInv ==
  ASSUME Inv, SwitchFinish
  PROVE  Inv'
<1>1. PICK r : r = [s EXCEPT !.leaving = "no"]
  OBVIOUS
<1>2. s' = sched_choose(r, tdq_choose(r))
  BY <1>1 DEF SwitchFinish, RunNext
<1>3. /\ Base(r) /\ r.leaving = "no"
      /\ \A t \in Thread : r.state[t] # "running"
  BY <1>1, RelockOK DEF Inv, SwitchFinish
<1>4. Base(s') /\ OnlyCurRuns(s')
  BY <1>2, <1>3, ChoosethreadOK
<1> QED
  BY <1>4 DEF Inv

\* It ends with a stolen thread on the queue.
LEMMA SwitchFinishStolenInv ==
  ASSUME Inv, NEW t \in Thread, SwitchFinishStolen(t)
  PROVE  Inv'
<1>1. PICK r : r = [s EXCEPT !.leaving = "no"]
  OBVIOUS
<1>2. /\ Base(r) /\ r.leaving = "no" /\ r.state = s.state
      /\ \A u \in Thread : r.state[u] # "running"
  BY <1>1, RelockOK DEF Inv, SwitchFinishStolen
<1>3. PICK rnd \in Rnd :
        \E q \in {tdq_add(r, t, {"YIELDING"}, rnd)} : s' = sched_choose(q, tdq_choose(q))
  BY <1>1 DEF SwitchFinishStolen, RunNext
<1>4. PICK q : /\ q = tdq_add(r, t, {"YIELDING"}, rnd)
               /\ s' = sched_choose(q, tdq_choose(q))
  BY <1>3
<1>5. r.state[t] # "runq"
  BY <1>2 DEF SwitchFinishStolen, Off
<1>6. Base(q) /\ q.state = [r.state EXCEPT ![t] = "runq"] /\ q.leaving = "no"
  <2>1. q = tdq_add(r, t, {"YIELDING"}, rnd) /\ Base(r) /\ r.leaving = "no"
    BY <1>2, <1>4
  <2> QED
    BY <2>1, <1>5, AddOK
<1>7. DOMAIN r.state = Thread
  BY <1>2 DEF Base, CpuState
<1>8. \A u \in Thread : q.state[u] # "running"
  BY <1>2, <1>6, <1>7
<1>9. Base(s') /\ OnlyCurRuns(s')
  BY <1>4, <1>6, <1>8, ChoosethreadOK
<1> QED
  BY <1>9 DEF Inv
-----------------------------------------------------------------------------
\* A thread comes to the processor: woken, created or moved from another one.
LEMMA ArriveInv ==
  ASSUME Inv, NEW q, Base(q), OnlyCurRuns(q), NEW t \in Thread,
         q.state[t] \in {"off", "inbound"}, NEW flags, NEW rnd \in Rnd,
         \/ s' = tdq_add(q, t, flags, rnd)
         \/ s' = AddHere(q, t, flags, rnd)
         \/ \E woken \in BOOLEAN : s' = AddRemote(q, t, flags, rnd, woken)
  PROVE  Inv'
<1>1. q.state[t] # "runq" /\ q.state[t] # "running" /\ q \in CpuState
  BY DEF Base
<1>2. /\ Base(s') /\ s'.state = [q.state EXCEPT ![t] = "runq"]
      /\ s'.cur = q.cur /\ s'.leaving = q.leaving
  BY <1>1, AddOK, AddHereOK, AddRemoteOK
<1>3. OnlyCurRuns(s')
  <2>1. "runq" \in {"off", "runq"}
    OBVIOUS
  <2> QED
    BY <2>1, <1>1, <1>2, Moved
<1> QED
  BY <1>2, <1>3 DEF Inv

\* ts_slice belongs to the clock alone.
SetSlice(q, t, n) == [q EXCEPT !.slice[t] = n]

\* It moves nothing.
LEMMA SetSliceOK ==
  ASSUME NEW q, Base(q), OnlyCurRuns(q), NEW t \in Thread, NEW n \in Int,
         NEW r, r = SetSlice(q, t, n)
  PROVE  Base(r) /\ OnlyCurRuns(r) /\ r.state = q.state
<1>1. q \in CpuState
  BY DEF Base
<1>2. r \in CpuState
  BY <1>1 DEF CpuState, SetSlice
<1>3. /\ r.rq = q.rq /\ r.runq = q.runq /\ r.rqindex = q.rqindex
      /\ r.idx = q.idx /\ r.ridx = q.ridx
      /\ r.state = q.state /\ r.cur = q.cur /\ r.leaving = q.leaving
  BY <1>1 DEF CpuState, SetSlice
<1> QED
  BY <1>2, <1>3, Unmoved

\* The length of a slice is a number for every load.
LEMMA TdqSliceOK == \A load \in Int : tdq_slice(load) \in Int
<1> SUFFICES ASSUME NEW load \in Int
    PROVE  tdq_slice(load) \in Int
  OBVIOUS
<1>1. sched_slice \in Int /\ sched_slice_min \in Int
  BY TdqAssumption
<1>2. load - 1 > 1 => sched_slice \div (load - 1) \in Int
  BY <1>1
<1> QED
  BY <1>1, <1>2 DEF tdq_slice

\* A sleeping thread is woken.
LEMMA SchedWakeupInv ==
  ASSUME Inv, NEW t \in Thread, SchedWakeup(t)
  PROVE  Inv'
<1>1. Base(s) /\ OnlyCurRuns(s) /\ s.state[t] = "off"
  BY DEF Inv, SchedWakeup, Off
<1>2. PICK q : q = SetSlice(s, t, 0)
  OBVIOUS
<1>3. Base(q) /\ OnlyCurRuns(q) /\ q.state[t] = "off"
  BY <1>1, <1>2, SetSliceOK
<1>4. PICK rnd \in Rnd :
        \/ s' = AddHere(q, t, {}, rnd)
        \/ \E woken \in BOOLEAN : s' = AddRemote(q, t, {}, rnd, woken)
  BY <1>2 DEF SchedWakeup, SetSlice
<1> QED
  BY <1>3, <1>4, ArriveInv

\* A new thread starts.
LEMMA SchedForkInv ==
  ASSUME Inv, NEW t \in Thread, SchedFork(t)
  PROVE  Inv'
<1>1. Base(s) /\ OnlyCurRuns(s) /\ s.state[t] = "off"
  BY DEF Inv, SchedFork, Off
<1>2. PICK n \in Int : n = tdq_slice(s.sysload) - sched_slice_min
  BY <1>1, TdqSliceOK, TdqAssumption DEF Base, CpuState
<1>3. PICK q : q = SetSlice(s, t, n)
  OBVIOUS
<1>4. Base(q) /\ OnlyCurRuns(q) /\ q.state[t] = "off"
  BY <1>1, <1>3, SetSliceOK
<1>5. PICK rnd \in Rnd : s' = AddHere(q, t, {}, rnd)
  BY <1>2, <1>3 DEF SchedFork, SetSlice
<1> QED
  BY <1>4, <1>5, ArriveInv

\* The balancer brings a thread.
LEMMA BalanceInInv ==
  ASSUME Inv, NEW t \in Thread, BalanceIn(t)
  PROVE  Inv'
<1>1. Base(s) /\ OnlyCurRuns(s) /\ s.state[t] = "off"
  BY DEF Inv, BalanceIn, Off
<1>2. PICK rnd \in Rnd :
        \/ s' = tdq_add(s, t, {"YIELDING"}, rnd)
        \/ \E woken \in BOOLEAN : s' = AddRemote(s, t, {"YIELDING"}, rnd, woken)
  BY DEF BalanceIn
<1> QED
  BY <1>1, <1>2, ArriveInv

\* The idle processor brings a thread and switches to it.
LEMMA StealByIdleInv ==
  ASSUME Inv, NEW t \in Thread, StealByIdle(t)
  PROVE  Inv'
<1>1. /\ Base(s) /\ OnlyCurRuns(s) /\ s.state[t] = "off"
      /\ s \in CpuState /\ Here /\ s.leaving = "no"
  BY DEF Inv, Base, StealByIdle, Off, Here
<1>2. PICK rnd \in Rnd :
        \E q \in {tdq_add(s, t, {"YIELDING"}, rnd)} : SwitchRunnable(q, FALSE)
  BY DEF StealByIdle
<1>3. PICK q : q = tdq_add(s, t, {"YIELDING"}, rnd) /\ SwitchRunnable(q, FALSE)
  BY <1>2
<1>4. s.state[t] # "runq" /\ s.state[t] # "running" /\ "runq" \in {"off", "runq"}
  BY <1>1
<1>5. /\ Base(q) /\ q.state = [s.state EXCEPT ![t] = "runq"]
      /\ q.cur = s.cur /\ q.leaving = s.leaving
  <2>1. Base(s) /\ s.state[t] # "runq"
    BY <1>1
  <2>2. q = tdq_add(s, t, {"YIELDING"}, rnd)
    BY <1>3
  <2> QED
    BY <2>1, <2>2, AddOK
<1>6. OnlyCurRuns(q)
  BY <1>1, <1>4, <1>5, Moved
<1> QED
  BY <1>1, <1>3, <1>5, <1>6, SwitchRunnableInv

\* A thread is on its way here: nothing moves on this processor.
LEMMA PreemptedElsewhereInv ==
  ASSUME Inv, NEW t \in Thread, PreemptedElsewhere(t)
  PROVE  Inv'
<1>1. Base(s) /\ OnlyCurRuns(s) /\ s \in CpuState /\ s.state[t] = "off"
  BY DEF Inv, Base, PreemptedElsewhere, Off
<1>2. s' = [s EXCEPT !.state[t] = "inbound"]
  BY DEF PreemptedElsewhere
<1>3. s' \in CpuState
  BY <1>1, <1>2 DEF CpuState
<1>4. /\ s'.rq = s.rq /\ s'.runq = s.runq /\ s'.rqindex = s.rqindex
      /\ s'.idx = s.idx /\ s'.ridx = s.ridx
      /\ s'.state = [s.state EXCEPT ![t] = "inbound"]
      /\ s'.cur = s.cur /\ s'.leaving = s.leaving
  BY <1>1, <1>2 DEF CpuState
<1>5. DOMAIN s.state = Thread
  BY <1>1 DEF CpuState
<1>6. \A u \in Thread : /\ s'.state[u] = "runq" <=> s.state[u] = "runq"
                        /\ s'.state[u] = "running" <=> s.state[u] = "running"
  BY <1>1, <1>4, <1>5
<1>8. \A u \in Thread : s'.state[u] = "runq" <=> s.state[u] = "runq"
  BY <1>6
<1>7. Base(s')
  BY <1>1, <1>3, <1>4, <1>8, SameQueues
<1> QED
  BY <1>1, <1>4, <1>6, <1>7 DEF Inv, OnlyCurRuns

\* It arrives.
LEMMA MigrateInInv ==
  ASSUME Inv, NEW t \in Thread, MigrateIn(t)
  PROVE  Inv'
<1>1. Base(s) /\ OnlyCurRuns(s) /\ s.state[t] \in {"off", "inbound"}
  BY DEF Inv, MigrateIn
<1>2. PICK rnd \in Rnd :
        \E woken \in BOOLEAN :
          s' = AddRemote(s, t, {"OURSELF", "YIELDING", "PREEMPTED"}, rnd, woken)
  BY DEF MigrateIn
<1> QED
  BY <1>1, <1>2, ArriveInv

\* td_pinned alone.
SetPinned(q, t, b) == [q EXCEPT !.pinned[t] = b]

\* It moves nothing.
LEMMA SetPinnedOK ==
  ASSUME NEW q, Base(q), OnlyCurRuns(q), NEW t \in Thread, NEW b \in BOOLEAN,
         NEW r, r = SetPinned(q, t, b)
  PROVE  Base(r) /\ OnlyCurRuns(r) /\ r.state = q.state
<1>1. q \in CpuState
  BY DEF Base
<1>2. r \in CpuState
  BY <1>1 DEF CpuState, SetPinned
<1>3. /\ r.rq = q.rq /\ r.runq = q.runq /\ r.rqindex = q.rqindex
      /\ r.idx = q.idx /\ r.ridx = q.ridx
      /\ r.state = q.state /\ r.cur = q.cur /\ r.leaving = q.leaving
  BY <1>1 DEF CpuState, SetPinned
<1> QED
  BY <1>2, <1>3, Unmoved

\* A thread that was not preempted is sent here, bound or not.
LEMMA YieldInInv ==
  ASSUME Inv, NEW t \in Thread, YieldIn(t)
  PROVE  Inv'
<1>1. Base(s) /\ OnlyCurRuns(s) /\ s.state[t] = "off"
  BY DEF Inv, YieldIn, Off
<1>2. PICK b \in BOOLEAN, rnd \in Rnd, woken \in BOOLEAN :
        s' = AddRemote(SetPinned(s, t, b), t, {"OURSELF", "YIELDING"}, rnd, woken)
  BY DEF YieldIn, SetPinned
<1>3. PICK q : q = SetPinned(s, t, b)
  OBVIOUS
<1>4. Base(q) /\ OnlyCurRuns(q) /\ q.state[t] \in {"off", "inbound"}
  BY <1>1, <1>3, SetPinnedOK
<1>5. PICK flags : s' = AddRemote(q, t, flags, rnd, woken)
  BY <1>2, <1>3
<1> QED
  BY <1>4, <1>5, ArriveInv

\* A thread leaves for another processor.
LEMMA StolenAwayInv ==
  ASSUME Inv, StolenAway
  PROVE  Inv'
<1>1. PICK t : t = tdq_steal(s) /\ t # NoThread /\ s' = sched_rem(s, t)
  BY DEF StolenAway
<1>2. Base(s) /\ OnlyCurRuns(s) /\ s \in CpuState
  BY DEF Inv, Base
<1>3. t \in Thread /\ s.state[t] = "runq"
  BY <1>1, <1>2, StealOK
<1>4. /\ Base(s') /\ s'.state = [s.state EXCEPT ![t] = "off"]
      /\ s'.cur = s.cur /\ s'.leaving = s.leaving
  BY <1>1, <1>2, <1>3, SchedRemOK
<1>5. s.state[t] # "running" /\ "off" \in {"off", "runq"}
  BY <1>3
<1>6. OnlyCurRuns(s')
  BY <1>2, <1>3, <1>4, <1>5, Moved
<1> QED
  BY <1>4, <1>6 DEF Inv
-----------------------------------------------------------------------------
\* td_priority alone: no queue and no thread moves.
SetPrio(q, t, p) == [q EXCEPT !.prio[t] = p]

\* It moves nothing.
LEMMA SetPrioOK ==
  ASSUME NEW q, Base(q), NEW t \in Thread, NEW p \in Prio,
         NEW r, r = SetPrio(q, t, p)
  PROVE  /\ Base(r) /\ r.state = q.state /\ r.cur = q.cur /\ r.leaving = q.leaving
         /\ OnlyCurRuns(q) => OnlyCurRuns(r)
<1>1. q \in CpuState
  BY DEF Base
<1>2. r \in CpuState
  BY <1>1 DEF CpuState, SetPrio
<1>3. /\ r.rq = q.rq /\ r.runq = q.runq /\ r.rqindex = q.rqindex
      /\ r.idx = q.idx /\ r.ridx = q.ridx
      /\ r.state = q.state /\ r.cur = q.cur /\ r.leaving = q.leaving
  BY <1>1 DEF CpuState, SetPrio
<1> QED
  BY <1>2, <1>3, SameQueues DEF OnlyCurRuns

\* tdq_setlowpri at the end of a handler.
LEMMA SetlowpriInv ==
  ASSUME NEW q, Base(q), OnlyCurRuns(q), s' = tdq_setlowpri(q)
  PROVE  Inv'
<1>1. /\ Base(s') /\ s'.state = q.state
      /\ s'.cur = q.cur /\ s'.leaving = q.leaving
  BY SetlowpriOK
<1> QED
  BY <1>1 DEF Inv, OnlyCurRuns

\* sched_thread_priority, for each place the thread can be in.
LEMMA SetPriorityInv ==
  ASSUME Inv, NEW t \in Thread, NEW p \in Prio, SetPriority(t, p)
  PROVE  Inv'
<1>1. Base(s) /\ OnlyCurRuns(s) /\ s \in CpuState
  BY DEF Inv, Base
<1>2. PICK q1 : q1 = SetPrio(s, t, p)
  OBVIOUS
<1>3. Base(q1) /\ OnlyCurRuns(q1) /\ q1 \in CpuState
  BY <1>1, <1>2, SetPrioOK DEF Base
<1>4. CASE MustRequeue(t, p)
  <2>1. s.state[t] = "runq" /\ s.state[t] # "running" /\ "off" \in {"off", "runq"}
    BY <1>4 DEF MustRequeue
  <2>2. PICK q2 : q2 = sched_rem(s, t)
    OBVIOUS
  <2>3. /\ Base(q2) /\ q2.state = [s.state EXCEPT ![t] = "off"]
        /\ q2.cur = s.cur /\ q2.leaving = s.leaving
    BY <1>1, <2>1, <2>2, SchedRemOK
  <2>4. OnlyCurRuns(q2)
    BY <1>1, <2>1, <2>3, Moved
  <2>5. PICK qr : qr = SetPrio(q2, t, p)
    OBVIOUS
  <2>6. Base(qr) /\ OnlyCurRuns(qr) /\ qr.state = q2.state
    BY <2>3, <2>4, <2>5, SetPrioOK
  <2>7. qr.state[t] = "off"
    BY <1>1, <2>3, <2>6 DEF CpuState
  <2>8. \/ \E rnd \in Rnd :
             \/ s' = AddHere(qr, t, {"BORROWING"}, rnd)
             \/ \E woken \in BOOLEAN : s' = AddRemote(qr, t, {"BORROWING"}, rnd, woken)
        \/ s' = qr
    BY <1>4, <2>2, <2>5 DEF SetPriority, SetPrio
  <2>9. CASE s' = qr
    BY <2>6, <2>9 DEF Inv
  <2> QED
    BY <2>6, <2>7, <2>8, <2>9, ArriveInv
<1>5. CASE ~ MustRequeue(t, p)
  <2>1. \/ s' = q1 \/ s' = tdq_setlowpri(q1)
        \/ p \in 0 .. PRI_MAX_IDLE /\ s' = [q1 EXCEPT !.lowpri = p]
    BY <1>2, <1>5, TdqAssumption DEF SetPriority, SetPrio
  <2>2. CASE s' = q1
    BY <1>3, <2>2 DEF Inv
  <2>3. CASE s' = tdq_setlowpri(q1)
    BY <1>3, <2>3, SetlowpriInv
  <2>4. CASE p \in 0 .. PRI_MAX_IDLE /\ s' = [q1 EXCEPT !.lowpri = p]
    <3>1. s' \in CpuState
      BY <1>3, <2>4 DEF CpuState
    <3>2. /\ s'.rq = q1.rq /\ s'.runq = q1.runq /\ s'.rqindex = q1.rqindex
          /\ s'.idx = q1.idx /\ s'.ridx = q1.ridx
          /\ s'.state = q1.state /\ s'.cur = q1.cur /\ s'.leaving = q1.leaving
      BY <1>3, <2>4 DEF CpuState
    <3>3. Base(s') /\ OnlyCurRuns(s')
      BY <1>3, <3>1, <3>2, Unmoved
    <3> QED
      BY <3>3 DEF Inv
  <2> QED
    BY <2>1, <2>2, <2>3, <2>4
<1> QED
  BY <1>4, <1>5

\* A thread is requeued from another processor to this one.
LEMMA RequeuedInInv ==
  ASSUME Inv, NEW t \in Thread, RequeuedIn(t)
  PROVE  Inv'
<1>1. Base(s) /\ OnlyCurRuns(s) /\ s.state[t] = "off"
  BY DEF Inv, RequeuedIn, Off
<1>2. PICK p \in Prio, flags \in {{}, {"BORROWING"}}, rnd \in Rnd :
        \/ s' = AddHere(SetPrio(s, t, p), t, flags, rnd)
        \/ \E woken \in BOOLEAN : s' = AddRemote(SetPrio(s, t, p), t, flags, rnd, woken)
  BY DEF RequeuedIn, SetPrio
<1>3. PICK q : q = SetPrio(s, t, p)
  OBVIOUS
<1>4. Base(q) /\ OnlyCurRuns(q) /\ q.state[t] \in {"off", "inbound"}
  BY <1>1, <1>3, SetPrioOK
<1>5. PICK f : \/ s' = AddHere(q, t, f, rnd)
               \/ \E woken \in BOOLEAN : s' = AddRemote(q, t, f, rnd, woken)
  BY <1>2, <1>3
<1> QED
  BY <1>4, <1>5, ArriveInv

\* What sched_affinity does to the running thread.
Asked(q, b) == [q EXCEPT !.needresched = TRUE, !.ipi = b]

LEMMA AskedTyped ==
  ASSUME NEW q \in CpuState, NEW b \in BOOLEAN
  PROVE  Asked(q, b) \in CpuState
BY DEF CpuState, Asked

LEMMA AskedSame ==
  ASSUME NEW q \in CpuState, NEW b \in BOOLEAN, NEW r, r = Asked(q, b)
  PROVE  /\ r \in CpuState
         /\ r.rq = q.rq /\ r.runq = q.runq /\ r.rqindex = q.rqindex
         /\ r.idx = q.idx /\ r.ridx = q.ridx /\ r.state = q.state
         /\ r.cur = q.cur /\ r.leaving = q.leaving /\ r.lowpri = q.lowpri
         /\ r.load = q.load /\ r.sysload = q.sysload
         /\ r.xfer = q.xfer /\ r.transferable = q.transferable
         /\ r.pinned = q.pinned /\ r.prio = q.prio
<1>1. r \in CpuState
  BY AskedTyped, Zenon
<1> QED
  BY <1>1 DEF CpuState, Asked

\* sched_affinity requeues a queued thread, or sends it away, and asks the running
\* one to switch.
LEMMA AffinityCases ==
  ASSUME Inv, NEW t \in Thread, SchedAffinity(t)
  PROVE  \/ /\ s.state[t] = "runq"
            /\ \/ s' = sched_rem(s, t)
               \/ \E rnd \in Rnd :
                    \/ s' = AddHere(sched_rem(s, t), t, {}, rnd)
                    \/ \E woken \in BOOLEAN :
                         s' = AddRemote(sched_rem(s, t), t, {}, rnd, woken)
         \/ \E b \in BOOLEAN : s' = Asked(s, b)
<1>1. CASE s.state[t] = "runq" /\ ~ (Running /\ s.cur = t)
  BY <1>1 DEF SchedAffinity
<1>2. CASE Running /\ s.cur = t
  <2>1. s.state[t] # "runq"
    BY <1>2 DEF Inv, OnlyCurRuns, Running, Here
  <2>2. PICK self \in BOOLEAN :
          s' = [s EXCEPT !.needresched = TRUE, !.ipi = s.ipi \/ ~ self]
    BY <1>2, <2>1 DEF SchedAffinity
  <2>3. PICK b \in BOOLEAN : b = (s.ipi \/ ~ self)
    OBVIOUS
  <2> QED
    BY <2>2, <2>3 DEF Asked
<1> QED
  BY <1>1, <1>2 DEF SchedAffinity

LEMMA SchedAffinityInv ==
  ASSUME Inv, NEW t \in Thread, SchedAffinity(t)
  PROVE  Inv'
<1>1. Base(s) /\ OnlyCurRuns(s) /\ s \in CpuState
  BY DEF Inv, Base
<1>3. ASSUME NEW b \in BOOLEAN, s' = Asked(s, b)
      PROVE  Inv'
  <2>1. /\ s' \in CpuState
        /\ s'.rq = s.rq /\ s'.runq = s.runq /\ s'.rqindex = s.rqindex
        /\ s'.idx = s.idx /\ s'.ridx = s.ridx /\ s'.state = s.state
        /\ s'.cur = s.cur /\ s'.leaving = s.leaving
    BY <1>1, <1>3, AskedSame
  <2>2. Base(s') /\ OnlyCurRuns(s')
    BY <1>1, <2>1, Unmoved
  <2> QED
    BY <2>2 DEF Inv
<1>2. CASE s.state[t] = "runq"
  <2>1. s.state[t] # "running" /\ "off" \in {"off", "runq"}
    BY <1>2
  <2>2. PICK q : q = sched_rem(s, t)
    OBVIOUS
  <2>3. /\ Base(q) /\ q.state = [s.state EXCEPT ![t] = "off"]
        /\ q.cur = s.cur /\ q.leaving = s.leaving
    BY <1>1, <1>2, <2>2, SchedRemOK
  <2>4. OnlyCurRuns(q)
    BY <1>1, <2>1, <2>3, Moved
  <2>5. q.state[t] \in {"off", "inbound"}
    BY <1>1, <2>3 DEF CpuState
  <2>6. CASE s' = q
    BY <2>3, <2>4, <2>6 DEF Inv
  <2>8. ASSUME NEW rnd \in Rnd, NEW f,
               \/ s' = AddHere(q, t, f, rnd)
               \/ \E woken \in BOOLEAN : s' = AddRemote(q, t, f, rnd, woken)
        PROVE  Inv'
    BY <2>3, <2>4, <2>5, <2>8, ArriveInv
  <2> QED
    BY <1>3, <2>2, <2>6, <2>8, AffinityCases
<1> QED
  BY <1>2, <1>3, AffinityCases

\* A return to user mode.
LEMMA SchedUserretInv ==
  ASSUME Inv, NEW p \in Prio, SchedUserret(p)
  PROVE  Inv'
<1>1. Base(s) /\ OnlyCurRuns(s)
  BY DEF Inv
<1>2. PICK t \in Thread : t = s.cur
  BY <1>1 DEF Base, CpuState, SchedUserret, Running
<1>3. PICK q : q = SetPrio(s, t, p)
  OBVIOUS
<1>4. Base(q) /\ OnlyCurRuns(q)
  BY <1>1, <1>3, SetPrioOK
<1>5. s' = tdq_setlowpri(q)
  BY <1>2, <1>3 DEF SchedUserret, SetPrio
<1> QED
  BY <1>4, <1>5, SetlowpriInv

\* sched_bind and sched_unbind.
LEMMA SchedBindInv ==
  ASSUME Inv, SchedBind \/ SchedUnbind
  PROVE  Inv'
<1>1. Base(s) /\ OnlyCurRuns(s) /\ s \in CpuState
  BY DEF Inv, Base
<1>2. PICK t \in Thread : t = s.cur
  BY <1>1 DEF CpuState, SchedBind, SchedUnbind, Running
<1>3. PICK b \in BOOLEAN : s' = [s EXCEPT !.pinned[t] = b]
  BY <1>2 DEF SchedBind, SchedUnbind
<1>4. s' \in CpuState
  BY <1>1, <1>3 DEF CpuState
<1>5. /\ s'.rq = s.rq /\ s'.runq = s.runq /\ s'.rqindex = s.rqindex
      /\ s'.idx = s.idx /\ s'.ridx = s.ridx
      /\ s'.state = s.state /\ s'.cur = s.cur /\ s'.leaving = s.leaving
  BY <1>1, <1>3 DEF CpuState
<1>6. Base(s') /\ OnlyCurRuns(s')
  BY <1>1, <1>4, <1>5, Unmoved
<1> QED
  BY <1>6 DEF Inv

\* The indices rotate and stay one queue apart at most.
LEMMA RotateOK ==
  ASSUME NEW q, Base(q), NEW r, r = Rotate(q)
  PROVE  /\ Base(r) /\ r.state = q.state /\ r.cur = q.cur /\ r.leaving = q.leaving
<1>1. q \in CpuState /\ QueuesOK(q)
  BY DEF Base
<1>2. CASE q.idx # q.ridx
  BY <1>2 DEF Rotate
<1>3. CASE q.idx = q.ridx
  <2>1. PICK i \in Index : i = NextIdx(q.idx)
    BY <1>1, ModIndex DEF CpuState, NextIdx, Index
  <2>2. PICK j \in Index :
          j = IF q.rq["timeshare"].rq_queues[q.ridx] = <<>> THEN i ELSE q.ridx
    BY <1>1, <2>1 DEF CpuState
  <2>3. r = [q EXCEPT !.idx = i, !.ridx = j]
    BY <1>3, <2>1, <2>2 DEF Rotate
  <2>4. [q EXCEPT !.idx = i, !.ridx = j] \in CpuState
    BY <1>1 DEF CpuState
  <2>5. /\ r.rq = q.rq /\ r.runq = q.runq /\ r.rqindex = q.rqindex
        /\ r.state = q.state /\ r.cur = q.cur /\ r.leaving = q.leaving
        /\ r.idx = i /\ r.ridx = j
    BY <1>1, <2>3 DEF CpuState
  <2>6. i \in {j, (j + 1) % RQ_NQS}
    BY <1>3, <2>1, <2>2 DEF NextIdx
  <2> QED
    BY <1>1, <2>3, <2>4, <2>5, <2>6 DEF Base, QueuesOK
<1> QED
  BY <1>2, <1>3

\* The tick rotates the indices and charges the slice.
LEMMA SchedClockInv ==
  ASSUME Inv, SchedClock
  PROVE  Inv'
<1>1. Base(s) /\ OnlyCurRuns(s) /\ s \in CpuState
  BY DEF Inv, Base
<1>2. PICK q : q = Rotate(s)
  OBVIOUS
<1>3. Base(q) /\ OnlyCurRuns(q) /\ q \in CpuState
  BY <1>1, <1>2, RotateOK DEF Base, OnlyCurRuns
<1>4. CASE q.cur = IdleThread
  BY <1>2, <1>3, <1>4 DEF SchedClock, Inv
<1>5. CASE q.cur # IdleThread
  <2>1. PICK t \in Thread : t = q.cur
    BY <1>3, <1>5 DEF CpuState
  <2>2. PICK n \in Int : n = q.slice[t] + 1
    BY <1>3 DEF CpuState
  <2>3. PICK q1 : q1 = SetSlice(q, t, 0)
    OBVIOUS
  <2>4. PICK q2 : q2 = SetSlice(q, t, n)
    OBVIOUS
  <2>5. Base(q1) /\ OnlyCurRuns(q1) /\ q1 \in CpuState
    BY <1>3, <2>3, SetSliceOK DEF Base
  <2>6. Base(q2) /\ OnlyCurRuns(q2)
    BY <1>3, <2>4, SetSliceOK
  <2>7. \/ s' = [q1 EXCEPT !.needresched = TRUE, !.sliceend = TRUE]
        \/ s' = q2
    BY <1>2, <1>3, <1>5, <2>1, <2>2, <2>3, <2>4 DEF SchedClock, SetSlice
  <2>8. CASE s' = q2
    BY <2>6, <2>8 DEF Inv
  <2>9. CASE s' = [q1 EXCEPT !.needresched = TRUE, !.sliceend = TRUE]
    <3>1. s' \in CpuState
      BY <2>5, <2>9 DEF CpuState
    <3>2. /\ s'.rq = q1.rq /\ s'.runq = q1.runq /\ s'.rqindex = q1.rqindex
          /\ s'.idx = q1.idx /\ s'.ridx = q1.ridx
          /\ s'.state = q1.state /\ s'.cur = q1.cur /\ s'.leaving = q1.leaving
      BY <2>5, <2>9 DEF CpuState
    <3>3. Base(s') /\ OnlyCurRuns(s')
      BY <2>5, <3>1, <3>2, Unmoved
    <3> QED
      BY <3>3 DEF Inv
  <2> QED
    BY <2>7, <2>8, <2>9
<1> QED
  BY <1>4, <1>5
-----------------------------------------------------------------------------
\* Every step keeps the invariant.
LEMMA NextInv == Inv /\ [Next]_vars => Inv'
<1> SUFFICES ASSUME Inv, [Next]_vars
    PROVE  Inv'
  OBVIOUS
<1>1. CASE Ast \/ CriticalExit \/ SchedRelinquish \/ IdleSwitch
  BY <1>1, SwitchInv
<1>2. CASE SchedPreempt
  BY <1>2, SchedPreemptInv
<1>3. CASE SwitchSleep
  BY <1>3, SwitchSleepInv
<1>4. CASE SchedThrow
  BY <1>4, SchedThrowInv
<1>5. CASE SchedMigrate
  BY <1>5, SchedMigrateInv
<1>6. CASE SwitchFinish
  BY <1>6, SwitchFinishInv
<1>7. CASE SchedBind \/ SchedUnbind
  BY <1>7, SchedBindInv
<1>8. CASE SchedClock
  BY <1>8, SchedClockInv
<1>9. CASE StolenAway
  BY <1>9, StolenAwayInv
<1>10. ASSUME NEW t \in Thread, SwitchFinishStolen(t)
       PROVE  Inv'
  BY <1>10, SwitchFinishStolenInv
<1>11. ASSUME NEW t \in Thread, SchedWakeup(t)
       PROVE  Inv'
  BY <1>11, SchedWakeupInv
<1>12. ASSUME NEW t \in Thread, SchedFork(t)
       PROVE  Inv'
  BY <1>12, SchedForkInv
<1>13. ASSUME NEW t \in Thread, StealByIdle(t)
       PROVE  Inv'
  BY <1>13, StealByIdleInv
<1>14. ASSUME NEW t \in Thread, BalanceIn(t)
       PROVE  Inv'
  BY <1>14, BalanceInInv
<1>15. ASSUME NEW t \in Thread, NEW p \in Prio, SetPriority(t, p)
       PROVE  Inv'
  BY <1>15, SetPriorityInv
<1>16. ASSUME NEW p \in Prio, SchedUserret(p)
       PROVE  Inv'
  BY <1>16, SchedUserretInv
<1>17. ASSUME NEW t \in Thread,
              \/ PreemptedElsewhere(t) \/ MigrateIn(t) \/ YieldIn(t)
              \/ RequeuedIn(t) \/ SchedAffinity(t)
       PROVE  Inv'
  BY <1>17, PreemptedElsewhereInv, MigrateInInv, YieldInInv, RequeuedInInv,
     SchedAffinityInv
<1>18. CASE UNCHANGED vars
  BY <1>18 DEF vars, Inv, Base, QueuesOK, OnlyCurRuns
<1> QED
  BY <1>1, <1>2, <1>3, <1>4, <1>5, <1>6, <1>7, <1>8, <1>9, <1>10, <1>11,
     <1>12, <1>13, <1>14, <1>15, <1>16, <1>17, <1>18 DEF Next

\* The inductive invariant holds in every reachable state.
THEOREM Invariance == Spec => []Inv
BY InitInv, NextInv, PTL DEF Spec

\* Every variable keeps its type: no index leaves the array of queues, through
\* any sequence of insertions, removals, rotations and priority changes.
THEOREM TypeCorrect == Spec => []TypeOK
<1>1. Inv => TypeOK
  BY DEF Inv, Base, TypeOK
<1> QED
  BY <1>1, Invariance, PTL

\* rq_status says which queues hold a thread: runq_choose, which takes the
\* head of the first queue whose bit is set, always finds one (its KASSERT).
THEOREM StatusCorrect == Spec => []StatusMatchesQueues
<1>1. Inv => StatusMatchesQueues
  BY DEF Inv, Base, QueuesOK, RunqOK, StatusMatchesQueues
<1> QED
  BY <1>1, Invariance, PTL

\* ts_runq and td_rqindex always name the one queue a thread is linked into:
\* runq_remove_idx never unlinks a thread from a queue it is not on.
THEOREM MembershipCorrect == Spec => []QueueMembership
<1>1. Inv => QueueMembership
  BY DEF Inv, Base, QueuesOK, RunqOK, QueueMembership
<1> QED
  BY <1>1, Invariance, PTL

\* At most one thread runs, the one in pc_curthread: no wakeup, theft or
\* priority change in the middle of a switch gives the processor two.
THEOREM OneRunningCorrect == Spec => []OneRunning
<1>1. Inv => OneRunning
  BY DEF Inv, OnlyCurRuns, OneRunning
<1> QED
  BY <1>1, Invariance, PTL

\* The insert index never runs more than one queue ahead of the remove index.
THEOREM WindowCorrect == Spec => []RotationWindow
<1>1. Inv => RotationWindow
  BY DEF Inv, Base, QueuesOK, RotationWindow
<1> QED
  BY <1>1, Invariance, PTL
-----------------------------------------------------------------------------
(* The counters, the published priority and the class of a queue.           *)

\* The queued threads that may move, and all threads the processor has.
Xferable(q) == {t \in Thread : q.xfer[t]}
Present(q)  == {t \in Thread : q.state[t] \in {"runq", "running"}}

\* What tdq_runq_add and tdq_runq_rem keep, also in the middle of a handler:
\* ts_runq and TSF_XFERABLE belong to the queued threads alone, so that neither
\* a binding nor an exit changes what is counted.
Tallied(q) ==
  /\ \A t \in Thread : q.runq[t] = "none" <=> q.state[t] # "runq"
  /\ \A t \in Thread : q.xfer[t] <=> q.state[t] = "runq" /\ ~ q.pinned[t]
  /\ \A t \in Thread : /\ q.runq[t] = "timeshare" => q.prio[t] >= PRI_MIN_BATCH
                       /\ q.runq[t] = "idle" => q.prio[t] >= PRI_MIN_IDLE
  /\ q.transferable = Cardinality(Xferable(q))

Loaded(q) ==
  /\ q.load = Cardinality(Present(q))
  /\ q.sysload = Cardinality(Present(q) \ NoLoad)

\* A processor in the middle of a switch has no running thread to cover.
Covers(q) == q.leaving = "no" => q.lowpri <= CurPrio(q)

\* Inductive together with Inv.
CountInv == Tallied(s) /\ Loaded(s) /\ Covers(s)

\* The counted sets are finite.
LEMMA CountedFinite ==
  ASSUME NEW q
  PROVE  /\ IsFiniteSet(Xferable(q)) /\ IsFiniteSet(Present(q))
         /\ IsFiniteSet(Present(q) \ NoLoad)
<1>1. IsFiniteSet(Thread)
  BY TdqAssumption
<1>2. /\ Xferable(q) \subseteq Thread /\ Present(q) \subseteq Thread
      /\ Present(q) \ NoLoad \subseteq Thread
  BY DEF Xferable, Present
<1> QED
  BY <1>1, <1>2, FS_Subset

\* Priorities compare as numbers.
LEMMA PrioInt == ASSUME NEW q \in CpuState, NEW t \in Thread PROVE q.prio[t] \in Int
<1>1. q.prio[t] \in 0 .. PRI_MAX_IDLE
  BY PrioOK
<1> QED
  BY <1>1

\* Handlers that move no thread and give no queued one another priority.
LEMMA SameTally ==
  ASSUME NEW q \in CpuState, Tallied(q), NEW r \in CpuState,
         r.state = q.state, r.runq = q.runq, r.xfer = q.xfer,
         r.transferable = q.transferable,
         \A t \in Thread : q.state[t] = "runq" =>
           (r.pinned[t] <=> q.pinned[t]) /\ r.prio[t] >= q.prio[t]
  PROVE  Tallied(r)
<1>1. Xferable(r) = Xferable(q)
  BY DEF Xferable
<1>2. ASSUME NEW t \in Thread
      PROVE  /\ r.runq[t] = "timeshare" => r.prio[t] >= PRI_MIN_BATCH
             /\ r.runq[t] = "idle" => r.prio[t] >= PRI_MIN_IDLE
  <2>1. q.runq[t] # "none" => q.prio[t] <= r.prio[t]
    BY DEF Tallied
  <2>2. q.prio[t] \in Int /\ r.prio[t] \in Int
    BY PrioInt
  <2>3. PRI_MIN_BATCH \in Int /\ PRI_MIN_IDLE \in Int
    BY TdqAssumption DEF PRI_MIN_IDLE
  <2> QED
    BY <2>1, <2>2, <2>3 DEF Tallied
<1> QED
  BY <1>1, <1>2 DEF Tallied

\* The fields that tdq_runq_add changes, and those it does not.
Added(q, t, flags, rnd, r) ==
  /\ r.runq = [q.runq EXCEPT ![t] = RunqClass(q.prio[t])]
  /\ r.rqindex = [q.rqindex EXCEPT ![t] = EntryIndex(q, t, flags, rnd)]
  /\ r.load = q.load /\ r.sysload = q.sysload /\ r.lowpri = q.lowpri /\ r.prio = q.prio
  /\ r.pinned = q.pinned /\ r.idx = q.idx /\ r.ridx = q.ridx
  /\ \E b \in BOOLEAN : \E n :
       /\ b = (q.xfer[t] \/ ~ q.pinned[t])
       /\ n = IF q.pinned[t] THEN q.transferable ELSE q.transferable + 1
       /\ r.xfer = [q.xfer EXCEPT ![t] = b] /\ r.transferable = n

LEMMA RunqAddFields ==
  ASSUME NEW q \in CpuState, NEW t \in Thread, NEW flags, NEW rnd \in Rnd,
         NEW r, r = tdq_runq_add(q, t, flags, rnd)
  PROVE  Added(q, t, flags, rnd, r)
<1>1. PICK c : c = RunqClass(q.prio[t])
  OBVIOUS
<1>2. PICK i : i = EntryIndex(q, t, flags, rnd)
  OBVIOUS
<1>3. PICK a : a = runq_add_pri(q.rq[c], t, i, q.prio, flags)
  OBVIOUS
<1>4. PICK b \in BOOLEAN : b = (q.xfer[t] \/ ~ q.pinned[t])
  OBVIOUS
<1>5. PICK n : n = IF q.pinned[t] THEN q.transferable ELSE q.transferable + 1
  OBVIOUS
<1>6. r = [q EXCEPT !.rq[c] = a, !.state[t] = "runq", !.runq[t] = c,
                    !.rqindex[t] = i, !.xfer[t] = b, !.transferable = n]
  BY <1>1, <1>2, <1>3, <1>4, <1>5 DEF tdq_runq_add
<1>7. /\ r.runq = [q.runq EXCEPT ![t] = c] /\ r.rqindex = [q.rqindex EXCEPT ![t] = i]
      /\ r.xfer = [q.xfer EXCEPT ![t] = b] /\ r.transferable = n
      /\ r.load = q.load
      /\ r.sysload = q.sysload /\ r.lowpri = q.lowpri /\ r.prio = q.prio
      /\ r.pinned = q.pinned /\ r.idx = q.idx /\ r.ridx = q.ridx
  BY <1>6 DEF CpuState
<1> QED
  BY <1>1, <1>2, <1>4, <1>5, <1>7 DEF Added

\* A thread enters a queue of its own class, and is counted unless it is pinned.
LEMMA RunqAddTally ==
  ASSUME NEW q, Base(q), Tallied(q), NEW t \in Thread, q.state[t] # "runq",
         NEW flags, NEW rnd \in Rnd, NEW r, r = tdq_runq_add(q, t, flags, rnd)
  PROVE  Tallied(r)
<1>1. q \in CpuState
  BY DEF Base
<1>2. Base(r) /\ r.state = [q.state EXCEPT ![t] = "runq"]
  BY RunqAddOK
<1>4. /\ DOMAIN q.state = Thread /\ DOMAIN q.runq = Thread /\ DOMAIN q.xfer = Thread
      /\ q.prio[t] \in Int /\ PRI_MIN_BATCH \in Int /\ PRI_MAX_BATCH \in Int
  <2>1. DOMAIN q.state = Thread /\ DOMAIN q.runq = Thread /\ DOMAIN q.xfer = Thread
    BY <1>1 DEF CpuState
  <2>2. q.prio[t] \in Int
    BY <1>1, PrioInt
  <2> QED
    BY <2>1, <2>2, TdqAssumption
<1>5. ~ q.xfer[t]
  BY DEF Tallied
<1>3. /\ r.runq = [q.runq EXCEPT ![t] = RunqClass(q.prio[t])]
      /\ \A u \in Thread : u # t => (r.xfer[u] <=> q.xfer[u])
      /\ r.xfer[t] <=> ~ q.pinned[t]
      /\ r.transferable = IF q.pinned[t] THEN q.transferable ELSE q.transferable + 1
      /\ r.prio = q.prio /\ r.pinned = q.pinned
  <2>1. /\ r.runq = [q.runq EXCEPT ![t] = RunqClass(q.prio[t])]
        /\ r.prio = q.prio /\ r.pinned = q.pinned
        /\ \E b \in BOOLEAN : \E n :
             /\ b = (q.xfer[t] \/ ~ q.pinned[t])
             /\ n = IF q.pinned[t] THEN q.transferable ELSE q.transferable + 1
             /\ r.xfer = [q.xfer EXCEPT ![t] = b] /\ r.transferable = n
    <3>1. Added(q, t, flags, rnd, r)
      BY <1>1, RunqAddFields
    <3> QED
      BY <3>1 DEF Added
  <2>5. PICK b \in BOOLEAN : \E n :
             /\ b = (q.xfer[t] \/ ~ q.pinned[t])
             /\ n = IF q.pinned[t] THEN q.transferable ELSE q.transferable + 1
             /\ r.xfer = [q.xfer EXCEPT ![t] = b] /\ r.transferable = n
    BY <2>1
  <2>2. PICK n :
             /\ b = (q.xfer[t] \/ ~ q.pinned[t])
             /\ n = IF q.pinned[t] THEN q.transferable ELSE q.transferable + 1
             /\ r.xfer = [q.xfer EXCEPT ![t] = b] /\ r.transferable = n
    BY <2>5
  <2>3. \A u \in Thread : u # t => r.xfer[u] = q.xfer[u]
    BY <2>2, <1>4
  <2>4. r.xfer[t] <=> ~ q.pinned[t]
    BY <2>2, <1>4, <1>5
  <2> QED
    BY <2>1, <2>2, <2>3, <2>4
<1>6. ASSUME NEW u \in Thread
      PROVE  /\ r.runq[u] = "none" <=> r.state[u] # "runq"
             /\ r.xfer[u] <=> r.state[u] = "runq" /\ ~ r.pinned[u]
             /\ r.runq[u] = "timeshare" => r.prio[u] >= PRI_MIN_BATCH
             /\ r.runq[u] = "idle" => r.prio[u] >= PRI_MIN_IDLE
  <2>1. CASE u = t
    <3>1. r.runq[t] = RunqClass(q.prio[t]) /\ r.state[t] = "runq"
      BY <1>2, <1>3, <1>4
    <3>2. /\ RunqClass(q.prio[t]) # "none"
          /\ RunqClass(q.prio[t]) = "timeshare" => q.prio[t] >= PRI_MIN_BATCH
          /\ RunqClass(q.prio[t]) = "idle" => q.prio[t] >= PRI_MIN_IDLE
      BY <1>4 DEF RunqClass, PRI_MIN_IDLE
    <3> QED
      BY <2>1, <3>1, <3>2, <1>3, <1>5
  <2>2. CASE u # t
    <3>1. r.runq[u] = q.runq[u] /\ r.state[u] = q.state[u] /\ (r.xfer[u] <=> q.xfer[u])
      BY <2>2, <1>2, <1>3, <1>4
    <3> QED
      BY <3>1, <1>3 DEF Tallied
  <2> QED
    BY <2>1, <2>2
<1>7. r.transferable = Cardinality(Xferable(r))
  <2>1. q.transferable = Cardinality(Xferable(q)) /\ t \notin Xferable(q)
    BY <1>5 DEF Tallied, Xferable
  <2>2. Xferable(r) = IF q.pinned[t] THEN Xferable(q) ELSE Xferable(q) \cup {t}
    BY <1>3, <1>5 DEF Xferable
  <2>3. Cardinality(Xferable(q) \cup {t}) = Cardinality(Xferable(q)) + 1
    BY <2>1, CountedFinite, FS_AddElement
  <2> QED
    BY <2>1, <2>2, <2>3, <1>3
<1> QED
  BY <1>6, <1>7 DEF Tallied

\* The fields that tdq_runq_rem changes, and those it does not.
Removed(q, t, r) ==
  /\ r.runq = [q.runq EXCEPT ![t] = "none"]
  /\ r.rqindex = [q.rqindex EXCEPT ![t] = 0]
  /\ r.xfer = [q.xfer EXCEPT ![t] = FALSE]
  /\ r.transferable = IF q.xfer[t] THEN q.transferable - 1 ELSE q.transferable
  /\ r.load = q.load /\ r.sysload = q.sysload /\ r.lowpri = q.lowpri /\ r.prio = q.prio
  /\ r.pinned = q.pinned /\ r.idx = q.idx

LEMMA RunqRemFields ==
  ASSUME NEW q, Base(q), NEW t \in Thread, q.state[t] = "runq",
         NEW r, r = tdq_runq_rem(q, t)
  PROVE  Removed(q, t, r)
<1>1. q \in CpuState
  BY DEF Base
<1>2. PICK c : c = q.runq[t]
  OBVIOUS
<1>3. PICK a : a = runq_remove(q.rq[c], t, q.rqindex[t])
  OBVIOUS
<1>4. PICK j : j = IF c = "timeshare" /\ q.idx # q.ridx
                   THEN runq_next_idx(q.rq[c], t, q.rqindex[t], q.ridx) ELSE q.ridx
  OBVIOUS
<1>5. PICK n : n = IF q.xfer[t] THEN q.transferable - 1 ELSE q.transferable
  OBVIOUS
<1>6. r = [q EXCEPT !.rq[c] = a, !.ridx = j, !.runq[t] = "none", !.rqindex[t] = 0,
                    !.xfer[t] = FALSE, !.transferable = n]
  BY <1>2, <1>3, <1>4, <1>5 DEF tdq_runq_rem
<1>7. /\ r.runq = [q.runq EXCEPT ![t] = "none"] /\ r.rqindex = [q.rqindex EXCEPT ![t] = 0]
      /\ r.xfer = [q.xfer EXCEPT ![t] = FALSE] /\ r.transferable = n
      /\ r.load = q.load
      /\ r.sysload = q.sysload /\ r.lowpri = q.lowpri /\ r.prio = q.prio
      /\ r.pinned = q.pinned /\ r.idx = q.idx
  BY <1>1, <1>6 DEF CpuState
<1> QED
  BY <1>5, <1>7 DEF Removed

\* A thread leaves its queue, and is no longer counted among those that may move.
LEMMA RunqRemTally ==
  ASSUME NEW q, Base(q), Tallied(q), NEW t \in Thread, q.state[t] = "runq",
         NEW r, r = tdq_runq_rem(q, t),
         NEW p, NEW x \in {"off", "running"},
         p.runq = r.runq, p.xfer = r.xfer, p.transferable = r.transferable,
         p.prio = r.prio, p.pinned = r.pinned, p.state = [q.state EXCEPT ![t] = x]
  PROVE  Tallied(p)
<1>1. q \in CpuState
  BY DEF Base
<1>3. DOMAIN q.state = Thread /\ DOMAIN q.runq = Thread /\ DOMAIN q.xfer = Thread
  BY <1>1 DEF CpuState
<1>2. /\ r.runq = [q.runq EXCEPT ![t] = "none"]
      /\ \A u \in Thread : u # t => (r.xfer[u] <=> q.xfer[u])
      /\ ~ r.xfer[t]
      /\ r.transferable = IF q.xfer[t] THEN q.transferable - 1 ELSE q.transferable
      /\ r.prio = q.prio /\ r.pinned = q.pinned
  <2>1. /\ r.runq = [q.runq EXCEPT ![t] = "none"]
        /\ r.xfer = [q.xfer EXCEPT ![t] = FALSE]
        /\ r.transferable = IF q.xfer[t] THEN q.transferable - 1 ELSE q.transferable
        /\ r.prio = q.prio /\ r.pinned = q.pinned
    <3>1. Removed(q, t, r)
      BY RunqRemFields
    <3> QED
      BY <3>1 DEF Removed
  <2>2. ~ r.xfer[t] /\ \A u \in Thread : u # t => r.xfer[u] = q.xfer[u]
    BY <2>1, <1>3
  <2> QED
    BY <2>1, <2>2
<1>4. ASSUME NEW u \in Thread
      PROVE  /\ p.runq[u] = "none" <=> p.state[u] # "runq"
             /\ p.xfer[u] <=> p.state[u] = "runq" /\ ~ p.pinned[u]
             /\ p.runq[u] = "timeshare" => p.prio[u] >= PRI_MIN_BATCH
             /\ p.runq[u] = "idle" => p.prio[u] >= PRI_MIN_IDLE
  <2>1. CASE u = t
    BY <2>1, <1>2, <1>3
  <2>2. CASE u # t
    <3>1. p.runq[u] = q.runq[u] /\ p.state[u] = q.state[u] /\ (p.xfer[u] <=> q.xfer[u])
      BY <2>2, <1>2, <1>3
    <3> QED
      BY <3>1, <1>2 DEF Tallied
  <2> QED
    BY <2>1, <2>2
<1>5. p.transferable = Cardinality(Xferable(p))
  <2>1. q.transferable = Cardinality(Xferable(q))
    BY DEF Tallied
  <2>2. Xferable(p) = Xferable(q) \ {t} /\ (t \in Xferable(q) <=> q.xfer[t])
    BY <1>2 DEF Xferable
  <2>3. Cardinality(Xferable(q) \ {t}) =
          IF t \in Xferable(q) THEN Cardinality(Xferable(q)) - 1
          ELSE Cardinality(Xferable(q))
    BY CountedFinite, FS_RemoveElement
  <2> QED
    BY <2>1, <2>2, <2>3, <1>2
<1> QED
  BY <1>4, <1>5 DEF Tallied

\* tdq_setlowpri publishes a priority that covers the running thread, and
\* changes nothing else.
LEMMA SetlowpriTally ==
  ASSUME NEW q, Base(q), NEW r, r = tdq_setlowpri(q)
  PROVE  /\ Tallied(q) => Tallied(r)
         /\ Loaded(q) => Loaded(r)
         /\ r.lowpri <= CurPrio(r)
         /\ r.prio = q.prio /\ r.load = q.load /\ r.sysload = q.sysload /\ r.cur = q.cur
<1>1. q \in CpuState /\ r \in CpuState
  BY SetlowpriOK DEF Base
<1>2. PICK t : t = tdq_choose(q)
  OBVIOUS
<1>3. t = NoThread \/ (t \in Thread /\ q.state[t] = "runq")
  BY <1>2, ChooseOK
<1>4. PICK p \in 0 .. PRI_MAX_IDLE :
         p = IF t = NoThread \/ q.prio[t] > CurPrio(q) THEN CurPrio(q) ELSE q.prio[t]
  BY <1>1, <1>3, PrioOK
<1>5. r = [q EXCEPT !.lowpri = p]
  BY <1>2, <1>4 DEF tdq_setlowpri
<1>6. /\ r.state = q.state /\ r.runq = q.runq /\ r.xfer = q.xfer
      /\ r.transferable = q.transferable /\ r.pinned = q.pinned /\ r.prio = q.prio
      /\ r.load = q.load /\ r.sysload = q.sysload /\ r.cur = q.cur /\ r.lowpri = p
  BY <1>1, <1>5 DEF CpuState
<1>7. p <= CurPrio(q)
  <2>1. CurPrio(q) \in Int /\ (t # NoThread => q.prio[t] \in Int)
    BY <1>1, <1>3, PrioOK
  <2> QED
    BY <1>4, <2>1
<1>8. CurPrio(r) = CurPrio(q)
  BY <1>6 DEF CurPrio
<1>9. Tallied(q) => Tallied(r)
  <2>1. \A u \in Thread : q.prio[u] <= r.prio[u]
    BY <1>1, <1>6, PrioOK
  <2> QED
    BY <1>1, <1>6, <2>1, SameTally
<1> QED
  BY <1>6, <1>7, <1>8, <1>9 DEF Loaded, Present

\* tdq_load and tdq_sysload are one more or one less when a thread comes or
\* goes, the latter unless the thread is not to be counted.
LEMMA LoadChanges ==
  ASSUME NEW q \in CpuState, Loaded(q), NEW t \in Thread, NEW r
  PROVE  /\ (/\ r.state = [q.state EXCEPT ![t] = "runq"] /\ t \notin Present(q)
             /\ r.load = q.load + 1
             /\ r.sysload = (IF t \in NoLoad THEN q.sysload ELSE q.sysload + 1))
              => Loaded(r)
         /\ (/\ r.state = [q.state EXCEPT ![t] = "off"] /\ t \in Present(q)
             /\ r.load = q.load - 1
             /\ r.sysload = (IF t \in NoLoad THEN q.sysload ELSE q.sysload - 1))
              => Loaded(r)
<1>1. DOMAIN q.state = Thread
  BY DEF CpuState
<1>4. /\ q.load = Cardinality(Present(q)) /\ IsFiniteSet(Present(q))
      /\ q.sysload = Cardinality(Present(q) \ NoLoad)
      /\ IsFiniteSet(Present(q) \ NoLoad)
  BY CountedFinite DEF Loaded
<1>2. ASSUME r.state = [q.state EXCEPT ![t] = "runq"], t \notin Present(q),
             r.load = q.load + 1,
             r.sysload = IF t \in NoLoad THEN q.sysload ELSE q.sysload + 1
      PROVE  Loaded(r)
  <2>1. Present(r) = Present(q) \cup {t}
    BY <1>1, <1>2 DEF Present
  <2>2. Cardinality(Present(r)) = Cardinality(Present(q)) + 1
    BY <2>1, <1>2, <1>4, FS_AddElement
  <2>3. CASE t \in NoLoad
    <3>1. Present(r) \ NoLoad = Present(q) \ NoLoad
      BY <2>1, <2>3
    <3> QED
      BY <1>2, <1>4, <2>2, <2>3, <3>1 DEF Loaded
  <2>4. CASE t \notin NoLoad
    <3>1. /\ Present(r) \ NoLoad = (Present(q) \ NoLoad) \cup {t}
          /\ t \notin Present(q) \ NoLoad
      BY <2>1, <2>4, <1>2
    <3>2. Cardinality(Present(r) \ NoLoad) = Cardinality(Present(q) \ NoLoad) + 1
      BY <3>1, <1>4, FS_AddElement
    <3> QED
      BY <1>2, <1>4, <2>2, <2>4, <3>2 DEF Loaded
  <2> QED
    BY <2>3, <2>4
<1>3. ASSUME r.state = [q.state EXCEPT ![t] = "off"], t \in Present(q),
             r.load = q.load - 1,
             r.sysload = IF t \in NoLoad THEN q.sysload ELSE q.sysload - 1
      PROVE  Loaded(r)
  <2>1. Present(r) = Present(q) \ {t}
    BY <1>1, <1>3 DEF Present
  <2>2. Cardinality(Present(r)) = Cardinality(Present(q)) - 1
    BY <2>1, <1>3, <1>4, FS_RemoveElement
  <2>3. CASE t \in NoLoad
    <3>1. Present(r) \ NoLoad = Present(q) \ NoLoad
      BY <2>1, <2>3
    <3> QED
      BY <1>3, <1>4, <2>2, <2>3, <3>1 DEF Loaded
  <2>4. CASE t \notin NoLoad
    <3>1. /\ Present(r) \ NoLoad = (Present(q) \ NoLoad) \ {t}
          /\ t \in Present(q) \ NoLoad
      BY <2>1, <2>4, <1>3
    <3>2. Cardinality(Present(r) \ NoLoad) = Cardinality(Present(q) \ NoLoad) - 1
      BY <3>1, <1>4, FS_RemoveElement
    <3> QED
      BY <1>3, <1>4, <2>2, <2>4, <3>2 DEF Loaded
  <2> QED
    BY <2>3, <2>4
<1> QED
  BY <1>2, <1>3

\* The number of threads stays the same when one that is present moves.
LEMMA LoadStays ==
  ASSUME NEW q \in CpuState, Loaded(q), NEW t \in Thread, NEW r,
         NEW x \in {"runq", "running"},
         r.state = [q.state EXCEPT ![t] = x], t \in Present(q),
         r.load = q.load, r.sysload = q.sysload
  PROVE  Loaded(r)
<1>1. DOMAIN q.state = Thread
  BY DEF CpuState
<1>2. Present(r) = Present(q)
  BY <1>1 DEF Present
<1> QED
  BY <1>2 DEF Loaded

\* tdq_add counts the thread that comes.
LEMMA AddTally ==
  ASSUME NEW q, Base(q), Tallied(q), NEW t \in Thread,
         q.state[t] \in {"off", "inbound"},
         NEW flags, NEW rnd \in Rnd, NEW r, r = tdq_add(q, t, flags, rnd)
  PROVE  /\ Tallied(r) /\ r.prio = q.prio /\ r.cur = q.cur
         /\ Loaded(q) => Loaded(r)
         /\ Covers(q) => Covers(r)
<1>1. q \in CpuState
  BY DEF Base
<1>2. PICK p \in 0 .. PRI_MAX_IDLE :
        p = IF q.prio[t] < q.lowpri THEN q.prio[t] ELSE q.lowpri
  BY <1>1, PrioOK DEF CpuState
<1>3. PICK q1 : q1 = [q EXCEPT !.lowpri = p]
  OBVIOUS
<1>4. q1 \in CpuState
  BY <1>1, <1>3 DEF CpuState
<1>5. /\ q1.rq = q.rq /\ q1.runq = q.runq /\ q1.rqindex = q.rqindex
      /\ q1.idx = q.idx /\ q1.ridx = q.ridx /\ q1.lowpri = p /\ q1.load = q.load
      /\ q1.sysload = q.sysload
      /\ q1.state = q.state /\ q1.cur = q.cur /\ q1.leaving = q.leaving
      /\ q1.xfer = q.xfer /\ q1.transferable = q.transferable
      /\ q1.pinned = q.pinned /\ q1.prio = q.prio
  BY <1>1, <1>3 DEF CpuState
<1>6. Base(q1)
  BY <1>4, <1>5, SameQueues
<1>7. Tallied(q1)
  <2>1. \A u \in Thread : q1.prio[u] >= q.prio[u]
    BY <1>1, <1>5, PrioOK
  <2> QED
    BY <1>1, <1>4, <1>5, <2>1, SameTally
<1>8. PICK q2 : q2 = tdq_runq_add(q1, t, flags, rnd)
  OBVIOUS
<1>9. /\ Base(q2) /\ q2 \in CpuState
      /\ q2.state = [q.state EXCEPT ![t] = "runq"]
      /\ q2.cur = q.cur /\ q2.leaving = q.leaving
  BY <1>5, <1>6, <1>8, RunqAddOK DEF Base
<1>10. Tallied(q2) /\ q2.load = q.load /\ q2.sysload = q.sysload /\ q2.lowpri = p /\ q2.prio = q.prio
  <2>1. Tallied(q2)
    BY <1>5, <1>6, <1>7, <1>8, RunqAddTally
  <2>2. Added(q1, t, flags, rnd, q2)
    BY <1>4, <1>8, RunqAddFields
  <2> QED
    BY <2>1, <2>2, <1>5 DEF Added
<1>17. PICK m : m = IF t \in NoLoad THEN q2.sysload ELSE q2.sysload + 1
  OBVIOUS
<1>11. r = [q2 EXCEPT !.load = q2.load + 1, !.sysload = m]
  BY <1>2, <1>3, <1>8, <1>17 DEF tdq_add, tdq_load_add
<1>12. /\ r.state = q2.state /\ r.runq = q2.runq /\ r.xfer = q2.xfer
       /\ r.transferable = q2.transferable /\ r.pinned = q2.pinned /\ r.prio = q2.prio
       /\ r.load = q.load + 1 /\ r.lowpri = p /\ r.cur = q.cur /\ r.leaving = q.leaving
       /\ r.sysload = m
  BY <1>9, <1>10, <1>11 DEF CpuState
<1>13. r \in CpuState
  BY AddOK DEF Base
<1>14. Tallied(r)
  <2>1. \A u \in Thread : r.prio[u] >= q2.prio[u]
    BY <1>9, <1>12, PrioOK
  <2> QED
    BY <1>9, <1>10, <1>12, <1>13, <2>1, SameTally
<1>15. Loaded(q) => Loaded(r)
  <2>1. /\ r.state = [q.state EXCEPT ![t] = "runq"] /\ r.load = q.load + 1
        /\ r.sysload = IF t \in NoLoad THEN q.sysload ELSE q.sysload + 1
    BY <1>9, <1>10, <1>12, <1>17
  <2>2. t \notin Present(q)
    BY DEF Present
  <2> QED
    BY <1>1, <2>1, <2>2, LoadChanges
<1>16. Covers(q) => Covers(r)
  <2>1. p <= q.lowpri /\ q.lowpri \in Int /\ CurPrio(q) \in Int
    BY <1>1, <1>2, PrioOK DEF CpuState
  <2>2. CurPrio(r) = CurPrio(q)
    BY <1>10, <1>12 DEF CurPrio
  <2> QED
    BY <2>1, <2>2, <1>12 DEF Covers
<1> QED
  BY <1>10, <1>12, <1>14, <1>15, <1>16

\* sched_rem counts the thread that goes.
LEMMA SchedRemTally ==
  ASSUME NEW q, Base(q), Tallied(q), Loaded(q), Covers(q),
         NEW t \in Thread, q.state[t] = "runq", NEW r, r = sched_rem(q, t)
  PROVE  Tallied(r) /\ Loaded(r) /\ Covers(r) /\ r.prio = q.prio
<1>1. PICK q1 : q1 = tdq_runq_rem(q, t)
  OBVIOUS
<1>2. /\ q \in CpuState /\ q1 \in CpuState
      /\ q1.state = q.state /\ q1.cur = q.cur /\ q1.leaving = q.leaving
  BY <1>1, RunqRemTyped DEF Base
<1>3. q1.load = q.load /\ q1.sysload = q.sysload /\ q1.lowpri = q.lowpri /\ q1.prio = q.prio
  <2>1. Removed(q, t, q1)
    BY <1>1, RunqRemFields
  <2> QED
    BY <2>1 DEF Removed
<1>14. PICK m \in Int : m = IF t \in NoLoad THEN q1.sysload ELSE q1.sysload - 1
  BY <1>2 DEF CpuState
<1>4. PICK q2 : q2 = [q1 EXCEPT !.load = q1.load - 1, !.sysload = m, !.state[t] = "off"]
  OBVIOUS
<1>5. q2 \in CpuState
  <2>1. q1 \in CpuState /\ q1.load - 1 \in Int
    BY <1>2 DEF CpuState
  <2> QED
    BY <2>1, <1>4, OffTyped
<1>6. /\ q2.rq = q1.rq /\ q2.runq = q1.runq /\ q2.rqindex = q1.rqindex
      /\ q2.idx = q1.idx /\ q2.ridx = q1.ridx /\ q2.xfer = q1.xfer
      /\ q2.transferable = q1.transferable /\ q2.pinned = q1.pinned
      /\ q2.prio = q1.prio /\ q2.lowpri = q1.lowpri
      /\ q2.state = [q.state EXCEPT ![t] = "off"]
      /\ q2.cur = q.cur /\ q2.leaving = q.leaving
  BY <1>2, <1>4 DEF CpuState
<1>7. Base(q2)
  <2>1. /\ q2.rq = q1.rq /\ q2.runq = q1.runq /\ q2.rqindex = q1.rqindex
        /\ q2.idx = q1.idx /\ q2.ridx = q1.ridx
        /\ q2.state = [q.state EXCEPT ![t] = "off"]
    BY <1>6
  <2> QED
    BY <1>1, <1>5, <2>1, RunqRemOK
<1>8. Tallied(q2)
  <2>1. /\ q2.runq = q1.runq /\ q2.xfer = q1.xfer
        /\ q2.transferable = q1.transferable /\ q2.pinned = q1.pinned
        /\ q2.prio = q1.prio /\ q2.state = [q.state EXCEPT ![t] = "off"]
    BY <1>6
  <2> QED
    BY <1>1, <2>1, RunqRemTally
<1>9. Loaded(q2)
  <2>1. q2.load = q1.load - 1 /\ q2.sysload = m
    BY <1>2, <1>4 DEF CpuState
  <2>2. /\ q2.load = q.load - 1
        /\ q2.sysload = IF t \in NoLoad THEN q.sysload ELSE q.sysload - 1
    BY <2>1, <1>3, <1>14
  <2>3. t \in Present(q)
    BY DEF Present
  <2> QED
    BY <2>2, <2>3, <1>2, <1>6, LoadChanges
<1>10. Covers(q2) /\ q2.prio = q.prio
  BY <1>3, <1>6 DEF Covers, CurPrio
<1>11. r = IF q.prio[t] = q.lowpri THEN tdq_setlowpri(q2) ELSE q2
  <2>1. q2 = [tdq_load_rem(q1, t) EXCEPT !.state[t] = "off"]
    BY <1>2, <1>4, <1>14 DEF tdq_load_rem, CpuState
  <2> QED
    BY <2>1, <1>1 DEF sched_rem
<1>12. CASE r = q2
  BY <1>8, <1>9, <1>10, <1>12
<1>13. CASE r = tdq_setlowpri(q2)
  BY <1>7, <1>8, <1>9, <1>10, <1>13, SetlowpriTally DEF Covers
<1> QED
  BY <1>11, <1>12, <1>13

\* choosethread moves a thread from its queue to the processor and publishes
\* the priority of what runs now, whatever was published before.
LEMMA ChooseTally ==
  ASSUME NEW q, Base(q), Tallied(q), Loaded(q), NEW r, r = sched_choose(q, tdq_choose(q))
  PROVE  Tallied(r) /\ Loaded(r) /\ Covers(r)
<1>1. q \in CpuState
  BY DEF Base
<1>2. PICK t : t = tdq_choose(q)
  OBVIOUS
<1>3. CASE t = NoThread
  <2>1. r = [q EXCEPT !.lowpri = PRI_MAX_IDLE, !.cur = IdleThread]
    BY <1>2, <1>3 DEF sched_choose
  <2>2. r \in CpuState
    BY <1>1, <2>1, PrioOK DEF CpuState
  <2>3. /\ r.state = q.state /\ r.runq = q.runq /\ r.xfer = q.xfer
        /\ r.transferable = q.transferable /\ r.pinned = q.pinned /\ r.prio = q.prio
        /\ r.load = q.load
        /\ r.sysload = q.sysload /\ r.lowpri = PRI_MAX_IDLE /\ r.cur = IdleThread
    BY <1>1, <2>1 DEF CpuState
  <2>4. Tallied(r)
    <3>1. \A u \in Thread : r.prio[u] >= q.prio[u]
      BY <1>1, <2>3, PrioOK
    <3> QED
      BY <1>1, <2>2, <2>3, <3>1, SameTally
  <2> QED
    BY <2>3, <2>4, TdqAssumption DEF Loaded, Present, Covers, CurPrio
<1>4. CASE t # NoThread
  <2>1. PICK u \in Thread : u = t /\ q.state[u] = "runq"
    BY <1>2, <1>4, ChooseOK
  <2>2. PICK q1 : q1 = tdq_runq_rem(q, u)
    OBVIOUS
  <2>3. q1 \in CpuState /\ q1.state = q.state
    BY <2>1, <2>2, RunqRemTyped
  <2>4. PICK p : p = q.prio[u]
    OBVIOUS
  <2>5. r = [q1 EXCEPT !.lowpri = p, !.cur = u, !.state[u] = "running"]
    BY <1>2, <1>4, <2>1, <2>2, <2>4 DEF sched_choose
  <2>6. /\ r.runq = q1.runq /\ r.xfer = q1.xfer /\ r.transferable = q1.transferable
        /\ r.pinned = q1.pinned /\ r.prio = q1.prio /\ r.load = q1.load
        /\ r.sysload = q1.sysload
        /\ r.state = [q.state EXCEPT ![u] = "running"] /\ r.cur = u /\ r.lowpri = p
    BY <2>3, <2>5 DEF CpuState
  <2>7. q1.prio = q.prio /\ q1.load = q.load /\ q1.sysload = q.sysload
    <3>1. Removed(q, u, q1)
      BY <2>1, <2>2, RunqRemFields
    <3> QED
      BY <3>1 DEF Removed
  <2>8. Tallied(r)
    BY <2>1, <2>2, <2>6, RunqRemTally
  <2>9. Loaded(r)
    <3>1. u \in Present(q)
      BY <2>1 DEF Present
    <3> QED
      BY <1>1, <2>6, <2>7, <3>1, LoadStays
  <2>10. r.lowpri <= CurPrio(r)
    <3>1. CurPrio(r) = q.prio[u] /\ q.prio[u] \in Int
      BY <1>1, <2>6, <2>7, PrioOK, TdqAssumption DEF CurPrio
    <3> QED
      BY <2>4, <2>6, <3>1
  <2> QED
    BY <2>8, <2>9, <2>10 DEF Covers
<1> QED
  BY <1>3, <1>4

\* The flags count nothing.
LEMMA ClearFlagsTally ==
  ASSUME NEW q, Base(q), Tallied(q), Loaded(q), NEW r, r = ClearFlags(q)
  PROVE  Tallied(r) /\ Loaded(r)
<1>1. q \in CpuState /\ r \in CpuState
  BY ClearFlagsOK DEF Base
<1>2. /\ r.state = q.state /\ r.runq = q.runq /\ r.xfer = q.xfer /\ r.load = q.load
      /\ r.sysload = q.sysload
      /\ r.transferable = q.transferable /\ r.pinned = q.pinned /\ r.prio = q.prio
  BY <1>1 DEF ClearFlags, CpuState
<1>3. \A u \in Thread : r.prio[u] >= q.prio[u]
  BY <1>1, <1>2, PrioOK
<1> QED
  BY <1>1, <1>2, <1>3, SameTally DEF Loaded, Present

\* The outgoing thread that can run was counted and stays so.
LEMMA RequeuedTally ==
  ASSUME NEW q, Base(q), OnlyCurRuns(q), q.leaving = "no", Tallied(q), Loaded(q),
         NEW preempt, NEW rnd \in Rnd, NEW r, r = Requeued(q, preempt, rnd)
  PROVE  Tallied(r) /\ Loaded(r)
<1>1. PICK q1 : q1 = ClearFlags(q)
  OBVIOUS
<1>2. /\ Base(q1) /\ q1 \in CpuState /\ q1.state = q.state
      /\ Tallied(q1) /\ Loaded(q1)
  BY <1>1, ClearFlagsOK, ClearFlagsTally DEF Base
<1>3. CASE q.cur = IdleThread
  BY <1>1, <1>2, <1>3 DEF Requeued
<1>4. CASE q.cur # IdleThread
  <2>1. PICK t \in Thread : t = q.cur
    BY <1>4 DEF Base, CpuState
  <2>2. q1.state[t] = "running"
    BY <2>1, <1>2 DEF OnlyCurRuns
  <2>3. PICK flags : r = tdq_runq_add(q1, t, flags, rnd)
    BY <1>1, <1>4, <2>1 DEF Requeued
  <2>4. q1.state[t] # "runq" /\ t \in Present(q1)
    BY <2>2 DEF Present
  <2>5. r.state = [q1.state EXCEPT ![t] = "runq"] /\ r.load = q1.load /\ r.sysload = q1.sysload
    BY <1>2, <2>3, <2>4, RunqAddOK
  <2>6. Tallied(r)
    BY <1>2, <2>3, <2>4, RunqAddTally
  <2>7. Loaded(r)
    <3>1. "runq" \in {"runq", "running"}
      OBVIOUS
    <3> QED
      BY <1>2, <2>4, <2>5, <3>1, LoadStays
  <2> QED
    BY <2>6, <2>7
<1> QED
  BY <1>3, <1>4

\* The outgoing thread that leaves takes its load with it.
LEMMA SwitchLeaveTally ==
  ASSUME NEW q, Base(q), OnlyCurRuns(q), q.leaving = "no", q.cur # IdleThread,
         Tallied(q), Loaded(q), NEW r, r = SwitchLeave(q)
  PROVE  /\ Tallied(r) /\ Loaded(r)
         /\ \A t \in Thread : t = q.cur => r.state[t] = "off"
<1>1. PICK q1 : q1 = ClearFlags(q)
  OBVIOUS
<1>2. /\ q1 \in CpuState /\ q1.state = q.state /\ q1.cur = q.cur
      /\ Tallied(q1) /\ Loaded(q1)
  BY <1>1, ClearFlagsOK, ClearFlagsTally DEF Base
<1>3. PICK t \in Thread : t = q.cur
  BY DEF Base, CpuState
<1>4. q1.state[t] = "running"
  BY <1>2, <1>3 DEF OnlyCurRuns
<1>5. r \in CpuState
  BY SwitchLeaveOK DEF Base
<1>11. PICK m : m = IF t \in NoLoad THEN q1.sysload ELSE q1.sysload - 1
  OBVIOUS
<1>6. r = [q1 EXCEPT !.load = q1.load - 1, !.sysload = m, !.state[t] = "off"]
  BY <1>1, <1>2, <1>3, <1>11 DEF SwitchLeave, tdq_load_rem, CpuState
<1>7. /\ r.state = [q1.state EXCEPT ![t] = "off"] /\ r.load = q1.load - 1
      /\ r.sysload = m
      /\ r.runq = q1.runq /\ r.xfer = q1.xfer /\ r.transferable = q1.transferable
      /\ r.pinned = q1.pinned /\ r.prio = q1.prio
  BY <1>2, <1>6 DEF CpuState
<1>8. DOMAIN q1.state = Thread
  BY <1>2 DEF CpuState
<1>9. Tallied(r)
  <2>1. \A u \in Thread : r.state[u] = "runq" <=> q1.state[u] = "runq"
    BY <1>4, <1>7, <1>8
  <2>2. Xferable(r) = Xferable(q1)
    BY <1>7 DEF Xferable
  <2> QED
    BY <1>2, <1>7, <2>1, <2>2 DEF Tallied
<1>10. Loaded(r)
  <2>1. t \in Present(q1)
    BY <1>4 DEF Present
  <2> QED
    BY <1>2, <1>7, <1>11, <2>1, LoadChanges
<1> QED
  BY <1>3, <1>7, <1>8, <1>9, <1>10

\* sched_add, with the flags or the IPI that follow it.
LEMMA ArriveTally ==
  ASSUME NEW q, Base(q), Tallied(q), Loaded(q), Covers(q),
         NEW t \in Thread, q.state[t] \in {"off", "inbound"}, NEW flags,
         NEW rnd \in Rnd, NEW r,
         \/ r = tdq_add(q, t, flags, rnd)
         \/ r = AddHere(q, t, flags, rnd)
         \/ \E woken \in BOOLEAN : r = AddRemote(q, t, flags, rnd, woken)
  PROVE  Tallied(r) /\ Loaded(r) /\ Covers(r) /\ r.prio = q.prio
<1>1. PICK q1 : q1 = tdq_add(q, t, flags, rnd)
  OBVIOUS
<1>2. Tallied(q1) /\ Loaded(q1) /\ Covers(q1) /\ q1.prio = q.prio
  <2>1. Tallied(q1)
    BY <1>1, AddTally
  <2>2. Loaded(q1)
    BY <1>1, AddTally
  <2>3. Covers(q1)
    BY <1>1, AddTally
  <2>4. q1.prio = q.prio
    BY <1>1, AddTally
  <2> QED
    BY <2>1, <2>2, <2>3, <2>4
<1>3. q.state[t] # "runq"
  OBVIOUS
<1>4. q1 \in CpuState /\ r \in CpuState
  <2>1. q1 \in CpuState
    BY <1>1, <1>3, AddOK DEF Base
  <2>2. CASE r = tdq_add(q, t, flags, rnd)
    BY <1>1, <2>1, <2>2
  <2>3. CASE r = AddHere(q, t, flags, rnd)
    <3>1. Base(r)
      BY <1>3, <2>3, AddHereOK
    <3> QED
      BY <2>1, <3>1 DEF Base
  <2>4. CASE \E woken \in BOOLEAN : r = AddRemote(q, t, flags, rnd, woken)
    <3>1. PICK woken \in BOOLEAN : r = AddRemote(q, t, flags, rnd, woken)
      BY <2>4
    <3>2. Base(r)
      BY <1>3, <3>1, AddRemoteOK
    <3> QED
      BY <2>1, <3>2 DEF Base
  <2> QED
    BY <2>1, <2>2, <2>3, <2>4
<1>5. \/ r = q1
      \/ r = [q1 EXCEPT !.needresched = @ \/ q1.prio[t] < CurPrio(q1),
                !.owepreempt = @ \/ sched_shouldpreempt(q1.prio[t], CurPrio(q1), FALSE)]
      \/ r = [q1 EXCEPT !.ipipending = TRUE, !.ipi = TRUE]
  BY <1>1 DEF AddHere, AddRemote, sched_setpreempt, tdq_notify
<1>9. \/ r = q1
      \/ \E x, y : r = [q1 EXCEPT !.needresched = x, !.owepreempt = y]
      \/ r = [q1 EXCEPT !.ipipending = TRUE, !.ipi = TRUE]
  BY <1>5
<1>6. /\ r.state = q1.state /\ r.runq = q1.runq /\ r.xfer = q1.xfer /\ r.load = q1.load
      /\ r.sysload = q1.sysload
      /\ r.transferable = q1.transferable /\ r.pinned = q1.pinned /\ r.prio = q1.prio
      /\ r.lowpri = q1.lowpri /\ r.cur = q1.cur /\ r.leaving = q1.leaving
  <2>1. CASE r = q1
    BY <1>4, <2>1
  <2>2. CASE \E x, y : r = [q1 EXCEPT !.needresched = x, !.owepreempt = y]
    BY <1>4, <2>2 DEF CpuState
  <2>3. CASE r = [q1 EXCEPT !.ipipending = TRUE, !.ipi = TRUE]
    BY <1>4, <2>3 DEF CpuState
  <2> QED
    BY <1>9, <2>1, <2>2, <2>3
<1>7. \A u \in Thread : r.prio[u] >= q1.prio[u]
  BY <1>4, <1>6, PrioOK
<1>8. Tallied(r)
  BY <1>2, <1>4, <1>6, <1>7, SameTally
<1> QED
  BY <1>2, <1>6, <1>8 DEF Loaded, Present, Covers, CurPrio

\* Handlers that touch nothing which is counted or published.
LEMMA SameCounts ==
  ASSUME NEW q \in CpuState, Tallied(q), Loaded(q), NEW r \in CpuState,
         r.state = q.state, r.runq = q.runq, r.xfer = q.xfer, r.load = q.load,
         r.sysload = q.sysload,
         r.transferable = q.transferable, r.pinned = q.pinned, r.prio = q.prio
  PROVE  /\ Tallied(r) /\ Loaded(r)
         /\ Covers(q) /\ r.lowpri = q.lowpri /\ r.cur = q.cur /\ r.leaving = q.leaving
              => Covers(r)
<1>1. \A u \in Thread : r.prio[u] >= q.prio[u]
  BY PrioOK
<1>2. Tallied(r)
  BY <1>1, SameTally
<1> QED
  BY <1>2 DEF Loaded, Present, Covers, CurPrio

\* tdq_setup: nothing to count.
LEMMA InitCounts == Init => CountInv
<1> SUFFICES ASSUME Init
    PROVE  CountInv
  OBVIOUS
<1>1. /\ s.state = [t \in Thread |-> "off"] /\ s.runq = [t \in Thread |-> "none"]
      /\ s.xfer = [t \in Thread |-> FALSE] /\ s.load = 0
      /\ s.sysload = 0 /\ s.transferable = 0
      /\ s.lowpri = PRI_MAX_IDLE /\ s.cur = IdleThread
  BY DEF Init
<1>2. Xferable(s) = {} /\ Present(s) = {}
  BY <1>1 DEF Xferable, Present
<1>3. Covers(s)
  BY <1>1, TdqAssumption DEF Covers, CurPrio
<1> QED
  BY <1>1, <1>2, <1>3, FS_EmptySet DEF CountInv, Tallied, Loaded

\* A whole sched_switch of a thread that can run.
LEMMA SwitchRunnableCounts ==
  ASSUME NEW q, Base(q), OnlyCurRuns(q), q.leaving = "no", Tallied(q), Loaded(q),
         NEW preempt, SwitchRunnable(q, preempt)
  PROVE  CountInv'
<1>1. PICK rnd \in Rnd : \E q1 \in {Requeued(q, preempt, rnd)} : RunNext(q1)
  BY DEF SwitchRunnable
<1>2. PICK q1 : /\ q1 = Requeued(q, preempt, rnd)
                /\ s' = sched_choose(q1, tdq_choose(q1))
  BY <1>1 DEF RunNext
<1>3. Base(q1) /\ Tallied(q1) /\ Loaded(q1)
  BY <1>2, RequeuedOK, RequeuedTally
<1> QED
  BY <1>2, <1>3, ChooseTally DEF CountInv

\* The handlers that switch, at once or after the IPI's flag is cleared.
LEMMA SwitchCounts ==
  ASSUME Inv, CountInv,
         Ast \/ CriticalExit \/ SchedRelinquish \/ IdleSwitch \/ SchedPreempt
  PROVE  CountInv'
<1>1. /\ Base(s) /\ OnlyCurRuns(s) /\ s \in CpuState /\ s.leaving = "no"
      /\ Tallied(s) /\ Loaded(s) /\ Covers(s)
  BY DEF Inv, Base, CountInv, Ast, CriticalExit, SchedRelinquish, IdleSwitch,
         SchedPreempt, Running, Here
<1>2. CASE ~ SchedPreempt
  <2>1. \E preempt \in BOOLEAN : SwitchRunnable(s, preempt)
    BY <1>2 DEF Ast, CriticalExit, SchedRelinquish, IdleSwitch
  <2> QED
    BY <1>1, <2>1, SwitchRunnableCounts
<1>3. CASE SchedPreempt
  <2>1. PICK q : q = [s EXCEPT !.ipipending = FALSE, !.ipi = FALSE]
    OBVIOUS
  <2>2. /\ q \in CpuState
        /\ q.rq = s.rq /\ q.rqindex = s.rqindex /\ q.idx = s.idx /\ q.ridx = s.ridx
        /\ q.state = s.state /\ q.runq = s.runq /\ q.xfer = s.xfer /\ q.load = s.load
        /\ q.sysload = s.sysload
        /\ q.transferable = s.transferable /\ q.pinned = s.pinned /\ q.prio = s.prio
        /\ q.lowpri = s.lowpri /\ q.cur = s.cur /\ q.leaving = s.leaving
    BY <1>1, <2>1 DEF CpuState
  <2>3. Tallied(q) /\ Loaded(q) /\ Covers(q) /\ Base(q) /\ OnlyCurRuns(q)
    BY <1>1, <2>2, SameCounts, Unmoved
  <2>4. s' = q \/ s' = [q EXCEPT !.owepreempt = TRUE] \/ SwitchRunnable(q, TRUE)
    BY <1>3, <2>1 DEF SchedPreempt
  <2>5. CASE s' = q
    BY <2>3, <2>5 DEF CountInv
  <2>6. CASE s' = [q EXCEPT !.owepreempt = TRUE]
    <3>1. /\ s' \in CpuState
          /\ s'.state = q.state /\ s'.runq = q.runq /\ s'.xfer = q.xfer
          /\ s'.load = q.load
          /\ s'.sysload = q.sysload /\ s'.transferable = q.transferable
          /\ s'.pinned = q.pinned /\ s'.prio = q.prio
          /\ s'.lowpri = q.lowpri /\ s'.cur = q.cur /\ s'.leaving = q.leaving
      BY <2>2, <2>6 DEF CpuState
    <3> QED
      BY <2>2, <2>3, <3>1, SameCounts DEF CountInv
  <2>7. CASE SwitchRunnable(q, TRUE)
    BY <1>1, <2>2, <2>3, <2>7, SwitchRunnableCounts
  <2> QED
    BY <2>4, <2>5, <2>6, <2>7
<1> QED
  BY <1>2, <1>3

\* Undoing the binding of a thread that is on no queue counts nothing.
LEMMA UnboundTally ==
  ASSUME NEW q, Base(q), Tallied(q), Loaded(q), NEW t \in Thread,
         q.state[t] # "runq", NEW x \in {"no", "migrate"}, NEW r, r = Unbound(q, t, x)
  PROVE  Tallied(r) /\ Loaded(r)
<1>1. q \in CpuState /\ r \in CpuState
  BY UnboundOK DEF Base
<1>2. /\ r.state = q.state /\ r.runq = q.runq /\ r.xfer = q.xfer /\ r.load = q.load
      /\ r.sysload = q.sysload
      /\ r.transferable = q.transferable /\ r.prio = q.prio
      /\ r.pinned = [q.pinned EXCEPT ![t] = FALSE]
  BY <1>1 DEF CpuState, Unbound
<1>3. \A u \in Thread : q.state[u] = "runq" =>
        (r.pinned[u] <=> q.pinned[u]) /\ r.prio[u] >= q.prio[u]
  <2>1. DOMAIN q.pinned = Thread
    BY <1>1 DEF CpuState
  <2>2. \A u \in Thread : r.prio[u] >= q.prio[u]
    BY <1>1, <1>2, PrioOK
  <2> QED
    BY <1>2, <2>1, <2>2
<1> QED
  BY <1>1, <1>2, <1>3, SameTally DEF Loaded, Present

\* The outgoing thread sleeps, exits or is sent away.
LEMMA LeaveCounts ==
  ASSUME Inv, CountInv, SwitchSleep \/ SchedThrow \/ SchedMigrate
  PROVE  CountInv'
<1>1. /\ Base(s) /\ OnlyCurRuns(s) /\ s.leaving = "no" /\ s.cur # IdleThread
      /\ Tallied(s) /\ Loaded(s)
  BY DEF Inv, CountInv, SwitchSleep, SchedThrow, SchedMigrate, Running, Here
<1>2. PICK q : q = SwitchLeave(s)
  OBVIOUS
<1>3. Base(q) /\ q \in CpuState /\ q.leaving = "no"
  BY <1>1, <1>2, SwitchLeaveOK DEF Base
<1>4. PICK t \in Thread : t = s.cur
  BY <1>1 DEF Base, CpuState
<1>5. Tallied(q) /\ Loaded(q) /\ q.state[t] = "off"
  BY <1>1, <1>2, <1>4, SwitchLeaveTally
<1>6. q.state[t] # "runq"
  BY <1>5
<1>7. CASE SwitchSleep
  <2>1. s' = [q EXCEPT !.leaving = "steal"] \/ s' = sched_choose(q, tdq_choose(q))
    BY <1>2, <1>7 DEF SwitchSleep, RunNext
  <2>2. CASE s' = [q EXCEPT !.leaving = "steal"]
    <3>1. /\ s' \in CpuState
          /\ s'.state = q.state /\ s'.runq = q.runq /\ s'.xfer = q.xfer
          /\ s'.load = q.load
          /\ s'.sysload = q.sysload /\ s'.transferable = q.transferable
          /\ s'.pinned = q.pinned /\ s'.prio = q.prio /\ s'.leaving = "steal"
      BY <1>3, <2>2 DEF CpuState
    <3> QED
      BY <1>3, <1>5, <3>1, SameCounts DEF CountInv, Covers
  <2>3. CASE s' = sched_choose(q, tdq_choose(q))
    BY <1>3, <1>5, <2>3, ChooseTally DEF CountInv
  <2> QED
    BY <2>1, <2>2, <2>3
<1>8. CASE SchedThrow
  <2>1. PICK r : r = Unbound(q, t, "no")
    OBVIOUS
  <2>2. Base(r) /\ Tallied(r) /\ Loaded(r)
    <3>1. "no" \in {"no", "migrate"}
      OBVIOUS
    <3> QED
      BY <1>3, <1>5, <1>6, <2>1, <3>1, UnboundOK, UnboundTally
  <2>3. r = [q EXCEPT !.pinned[s.cur] = FALSE]
    BY <1>3, <1>4, <2>1 DEF CpuState, Unbound
  <2>4. s' = sched_choose(r, tdq_choose(r))
    BY <1>2, <1>8, <2>3 DEF SchedThrow, RunNext
  <2> QED
    BY <2>2, <2>4, ChooseTally DEF CountInv
<1>9. CASE SchedMigrate
  <2>1. s' = Unbound(q, t, "migrate")
    BY <1>2, <1>4, <1>9 DEF SchedMigrate, Unbound
  <2>2. Tallied(s') /\ Loaded(s') /\ s'.leaving = "migrate"
    <3>1. "migrate" \in {"no", "migrate"}
      OBVIOUS
    <3> QED
      BY <1>3, <1>5, <1>6, <2>1, <3>1, UnboundOK, UnboundTally
  <2> QED
    BY <2>2 DEF CountInv, Covers
<1> QED
  BY <1>7, <1>8, <1>9

\* Taking the lock again counts nothing.
LEMMA RelockTally ==
  ASSUME NEW q \in CpuState, Tallied(q), Loaded(q), NEW r, r = [q EXCEPT !.leaving = "no"]
  PROVE  Tallied(r) /\ Loaded(r)
<1>1. /\ r \in CpuState
      /\ r.state = q.state /\ r.runq = q.runq /\ r.xfer = q.xfer /\ r.load = q.load
      /\ r.sysload = q.sysload
      /\ r.transferable = q.transferable /\ r.pinned = q.pinned /\ r.prio = q.prio
  BY DEF CpuState
<1> QED
  BY <1>1, SameCounts

\* The second half of a switch, with or without a stolen thread.
LEMMA FinishCounts ==
  ASSUME Inv, CountInv,
         SwitchFinish \/ \E t \in Thread : SwitchFinishStolen(t)
  PROVE  CountInv'
<1>1. PICK r : r = [s EXCEPT !.leaving = "no"]
  OBVIOUS
<1>2. Base(s) /\ OnlyCurRuns(s) /\ s.leaving # "no" /\ s \in CpuState
  BY DEF Inv, Base, SwitchFinish, SwitchFinishStolen
<1>3. Base(r) /\ r.state = s.state /\ Tallied(r) /\ Loaded(r)
  BY <1>1, <1>2, RelockOK, RelockTally DEF CountInv
<1>4. CASE SwitchFinish
  <2>1. s' = sched_choose(r, tdq_choose(r))
    BY <1>1, <1>4 DEF SwitchFinish, RunNext
  <2> QED
    BY <1>3, <2>1, ChooseTally DEF CountInv
<1>5. ASSUME NEW t \in Thread, SwitchFinishStolen(t)
      PROVE  CountInv'
  <2>1. PICK rnd \in Rnd :
          \E q \in {tdq_add(r, t, {"YIELDING"}, rnd)} : s' = sched_choose(q, tdq_choose(q))
    BY <1>1, <1>5 DEF SwitchFinishStolen, RunNext
  <2>2. PICK q : /\ q = tdq_add(r, t, {"YIELDING"}, rnd)
                 /\ s' = sched_choose(q, tdq_choose(q))
    BY <2>1
  <2>3. r.state[t] = "off" /\ r.state[t] # "runq"
    BY <1>3, <1>5 DEF SwitchFinishStolen, Off
  <2>4. q = tdq_add(r, t, {"YIELDING"}, rnd)
    BY <2>2
  <2>5. Base(q) /\ Tallied(q) /\ Loaded(q)
    <3>1. Base(q)
      BY <1>3, <2>3, <2>4, AddOK
    <3>2. Tallied(q)
      BY <1>3, <2>3, <2>4, AddTally
    <3>3. Loaded(q)
      BY <1>3, <2>3, <2>4, AddTally
    <3> QED
      BY <3>1, <3>2, <3>3
  <2> QED
    BY <2>2, <2>5, ChooseTally DEF CountInv
<1> QED
  BY <1>4, <1>5

\* ts_slice is not counted.
LEMMA SetSliceTally ==
  ASSUME NEW q \in CpuState, Tallied(q), Loaded(q), Covers(q), NEW t \in Thread,
         NEW n \in Int, NEW r, r = SetSlice(q, t, n)
  PROVE  Tallied(r) /\ Loaded(r) /\ Covers(r) /\ r \in CpuState
<1>1. /\ r \in CpuState
      /\ r.state = q.state /\ r.runq = q.runq /\ r.xfer = q.xfer /\ r.load = q.load
      /\ r.sysload = q.sysload
      /\ r.transferable = q.transferable /\ r.pinned = q.pinned /\ r.prio = q.prio
      /\ r.lowpri = q.lowpri /\ r.cur = q.cur /\ r.leaving = q.leaving
  BY DEF CpuState, SetSlice
<1> QED
  BY <1>1, SameCounts

\* Threads come: woken, created, or brought by the balancer or the idle loop.
LEMMA ArriveCounts ==
  ASSUME Inv, CountInv, NEW t \in Thread,
         SchedWakeup(t) \/ SchedFork(t) \/ BalanceIn(t) \/ StealByIdle(t)
  PROVE  CountInv'
<1>1. /\ Base(s) /\ OnlyCurRuns(s) /\ s \in CpuState /\ s.state[t] = "off"
      /\ Tallied(s) /\ Loaded(s) /\ Covers(s)
  BY DEF Inv, Base, CountInv, SchedWakeup, SchedFork, BalanceIn, StealByIdle, Off
<1>2. CASE SchedWakeup(t)
  <2>1. PICK q : q = SetSlice(s, t, 0)
    OBVIOUS
  <2>2. /\ Base(q) /\ q.state[t] = "off"
        /\ Tallied(q) /\ Loaded(q) /\ Covers(q)
    BY <1>1, <2>1, SetSliceOK, SetSliceTally
  <2>3. PICK rnd \in Rnd :
          \/ s' = AddHere(q, t, {}, rnd)
          \/ \E woken \in BOOLEAN : s' = AddRemote(q, t, {}, rnd, woken)
    BY <1>2, <2>1 DEF SchedWakeup, SetSlice
  <2> QED
    BY <2>2, <2>3, ArriveTally DEF CountInv
<1>3. CASE SchedFork(t)
  <2>1. PICK n \in Int : n = tdq_slice(s.sysload) - sched_slice_min
    BY <1>1, TdqSliceOK, TdqAssumption DEF CpuState
  <2>2. PICK q : q = SetSlice(s, t, n)
    OBVIOUS
  <2>3. /\ Base(q) /\ q.state[t] = "off"
        /\ Tallied(q) /\ Loaded(q) /\ Covers(q)
    BY <1>1, <2>2, SetSliceOK, SetSliceTally
  <2>4. PICK rnd \in Rnd : s' = AddHere(q, t, {}, rnd)
    BY <1>3, <2>1, <2>2 DEF SchedFork, SetSlice
  <2> QED
    BY <2>3, <2>4, ArriveTally DEF CountInv
<1>4. CASE BalanceIn(t)
  <2>1. PICK rnd \in Rnd :
          \/ s' = tdq_add(s, t, {"YIELDING"}, rnd)
          \/ \E woken \in BOOLEAN : s' = AddRemote(s, t, {"YIELDING"}, rnd, woken)
    BY <1>4 DEF BalanceIn
  <2> QED
    BY <1>1, <2>1, ArriveTally DEF CountInv
<1>5. CASE StealByIdle(t)
  <2>1. PICK rnd \in Rnd :
          \E q \in {tdq_add(s, t, {"YIELDING"}, rnd)} : SwitchRunnable(q, FALSE)
    BY <1>5 DEF StealByIdle
  <2>2. PICK q : q = tdq_add(s, t, {"YIELDING"}, rnd) /\ SwitchRunnable(q, FALSE)
    BY <2>1
  <2>3. /\ q = tdq_add(s, t, {"YIELDING"}, rnd) /\ s.leaving = "no"
        /\ s.state[t] # "runq" /\ s.state[t] # "running" /\ "runq" \in {"off", "runq"}
    BY <1>1, <1>5, <2>2 DEF StealByIdle, Here
  <2>4. /\ Base(q) /\ q.state = [s.state EXCEPT ![t] = "runq"]
        /\ q.cur = s.cur /\ q.leaving = s.leaving
    BY <1>1, <2>3, AddOK
  <2>5. OnlyCurRuns(q)
    BY <1>1, <2>3, <2>4, Moved
  <2>6. Tallied(q) /\ Loaded(q)
    BY <1>1, <2>3, AddTally
  <2> QED
    BY <2>2, <2>3, <2>4, <2>5, <2>6, SwitchRunnableCounts
<1> QED
  BY <1>2, <1>3, <1>4, <1>5

\* A thread leaves for another processor.
LEMMA StolenAwayCounts ==
  ASSUME Inv, CountInv, StolenAway
  PROVE  CountInv'
<1>1. PICK t : t = tdq_steal(s) /\ t # NoThread /\ s' = sched_rem(s, t)
  BY DEF StolenAway
<1>2. Base(s)
  BY DEF Inv
<1>3. t \in Thread /\ s.state[t] = "runq"
  BY <1>1, <1>2, StealOK
<1> QED
  BY <1>1, <1>2, <1>3, SchedRemTally DEF CountInv

\* A thread that is on no queue, or becomes less important, keeps what is counted.
LEMMA SetPrioTally ==
  ASSUME NEW q, Base(q), Tallied(q), Loaded(q), NEW t \in Thread, NEW p \in Prio,
         q.state[t] = "runq" => p >= q.prio[t], NEW r, r = SetPrio(q, t, p)
  PROVE  /\ Tallied(r) /\ Loaded(r) /\ r.prio = [q.prio EXCEPT ![t] = p]
         /\ r.lowpri = q.lowpri /\ r.leaving = q.leaving /\ r.cur = q.cur
         /\ Covers(q) /\ q.cur # t => Covers(r)
<1>1. q \in CpuState /\ r \in CpuState
  BY SetPrioOK DEF Base
<1>2. /\ r.state = q.state /\ r.runq = q.runq /\ r.xfer = q.xfer /\ r.load = q.load
      /\ r.sysload = q.sysload
      /\ r.transferable = q.transferable /\ r.pinned = q.pinned
      /\ r.prio = [q.prio EXCEPT ![t] = p]
      /\ r.lowpri = q.lowpri /\ r.leaving = q.leaving /\ r.cur = q.cur
  BY <1>1 DEF CpuState, SetPrio
<1>3. DOMAIN q.prio = Thread
  BY <1>1 DEF CpuState
<1>4. \A u \in Thread : q.state[u] = "runq" => r.prio[u] >= q.prio[u]
  <2>1. \A u \in Thread : q.prio[u] >= q.prio[u]
    BY <1>1, PrioOK
  <2> QED
    BY <1>2, <1>3, <2>1
<1>5. Tallied(r) /\ Loaded(r)
  BY <1>1, <1>2, <1>4, SameTally DEF Loaded, Present
<1>6. q.cur # t => CurPrio(r) = CurPrio(q)
  <2>1. q.cur = IdleThread \/ q.cur \in Thread
    BY <1>1 DEF CpuState
  <2> QED
    BY <1>2, <1>3, <2>1 DEF CurPrio
<1> QED
  BY <1>2, <1>5, <1>6 DEF Covers

\* Binding a thread that is on no queue counts nothing.
LEMMA SetPinnedTally ==
  ASSUME NEW q, Base(q), Tallied(q), Loaded(q), Covers(q), NEW t \in Thread,
         q.state[t] # "runq", NEW b \in BOOLEAN, NEW r, r = SetPinned(q, t, b)
  PROVE  Tallied(r) /\ Loaded(r) /\ Covers(r)
<1>1. q \in CpuState
  BY DEF Base
<1>2. r \in CpuState
  BY <1>1 DEF CpuState, SetPinned
<1>3. /\ r.state = q.state /\ r.runq = q.runq /\ r.xfer = q.xfer /\ r.load = q.load
      /\ r.sysload = q.sysload /\ r.transferable = q.transferable /\ r.prio = q.prio
      /\ r.pinned = [q.pinned EXCEPT ![t] = b]
      /\ r.lowpri = q.lowpri /\ r.cur = q.cur /\ r.leaving = q.leaving
  BY <1>1 DEF CpuState, SetPinned
<1>4. \A u \in Thread : q.state[u] = "runq" =>
        (r.pinned[u] <=> q.pinned[u]) /\ r.prio[u] >= q.prio[u]
  <2>1. DOMAIN q.pinned = Thread
    BY <1>1 DEF CpuState
  <2>2. \A u \in Thread : r.prio[u] >= q.prio[u]
    BY <1>1, <1>3, PrioOK
  <2> QED
    BY <1>3, <2>1, <2>2
<1>5. Tallied(r)
  BY <1>1, <1>2, <1>3, <1>4, SameTally
<1> QED
  BY <1>3, <1>5 DEF Loaded, Present, Covers, CurPrio

\* A thread on its way here is not counted, and is when it arrives; so is one
\* requeued from another processor.
LEMMA SentCounts ==
  ASSUME Inv, CountInv, NEW t \in Thread,
         PreemptedElsewhere(t) \/ MigrateIn(t) \/ YieldIn(t) \/ RequeuedIn(t)
  PROVE  CountInv'
<1>1. /\ Base(s) /\ OnlyCurRuns(s) /\ s \in CpuState
      /\ Tallied(s) /\ Loaded(s) /\ Covers(s)
  BY DEF Inv, Base, CountInv
<1>2. s.state[t] \in {"off", "inbound"} /\ s.state[t] # "runq"
  BY DEF PreemptedElsewhere, MigrateIn, YieldIn, RequeuedIn, Off
<1>3. CASE PreemptedElsewhere(t)
  <2>1. s' = [s EXCEPT !.state[t] = "inbound"] /\ s.state[t] = "off"
    BY <1>3 DEF PreemptedElsewhere, Off
  <2>2. /\ s'.runq = s.runq /\ s'.xfer = s.xfer /\ s'.load = s.load
        /\ s'.sysload = s.sysload /\ s'.transferable = s.transferable
        /\ s'.prio = s.prio /\ s'.pinned = s.pinned /\ s'.lowpri = s.lowpri
        /\ s'.cur = s.cur /\ s'.leaving = s.leaving
        /\ s'.state = [s.state EXCEPT ![t] = "inbound"]
    BY <1>1, <2>1 DEF CpuState
  <2>3. DOMAIN s.state = Thread
    BY <1>1 DEF CpuState
  <2>4. \A u \in Thread : s'.state[u] = "runq" <=> s.state[u] = "runq"
    BY <2>1, <2>2, <2>3
  <2>5. Present(s') = Present(s) /\ Xferable(s') = Xferable(s)
    BY <2>1, <2>2, <2>3 DEF Present, Xferable
  <2>6. Tallied(s')
    BY <1>1, <2>2, <2>4, <2>5 DEF Tallied
  <2> QED
    BY <1>1, <2>2, <2>5, <2>6 DEF CountInv, Loaded, Covers, CurPrio
<1>4. CASE MigrateIn(t)
  <2>1. PICK rnd \in Rnd :
          \E woken \in BOOLEAN :
            s' = AddRemote(s, t, {"OURSELF", "YIELDING", "PREEMPTED"}, rnd, woken)
    BY <1>4 DEF MigrateIn
  <2> QED
    BY <1>1, <1>2, <2>1, ArriveTally DEF CountInv
<1>5. CASE YieldIn(t)
  <2>1. PICK b \in BOOLEAN, rnd \in Rnd, woken \in BOOLEAN :
          s' = AddRemote(SetPinned(s, t, b), t, {"OURSELF", "YIELDING"}, rnd, woken)
    BY <1>5 DEF YieldIn, SetPinned
  <2>2. PICK q : q = SetPinned(s, t, b)
    OBVIOUS
  <2>3. /\ Base(q) /\ q.state[t] \in {"off", "inbound"}
        /\ Tallied(q) /\ Loaded(q) /\ Covers(q)
    BY <1>1, <1>2, <2>2, SetPinnedOK, SetPinnedTally
  <2>4. PICK f : s' = AddRemote(q, t, f, rnd, woken)
    BY <2>1, <2>2
  <2> QED
    BY <2>3, <2>4, ArriveTally DEF CountInv
<1>6. CASE RequeuedIn(t)
  <2>1. PICK p \in Prio, flags \in {{}, {"BORROWING"}}, rnd \in Rnd :
          \/ s' = AddHere(SetPrio(s, t, p), t, flags, rnd)
          \/ \E woken \in BOOLEAN : s' = AddRemote(SetPrio(s, t, p), t, flags, rnd, woken)
    BY <1>6 DEF RequeuedIn, SetPrio
  <2>2. PICK q : q = SetPrio(s, t, p)
    OBVIOUS
  <2>3. s.cur # t /\ (s.state[t] = "runq" => p >= s.prio[t])
    BY <1>2, <1>6 DEF RequeuedIn, Off
  <2>4. Base(q) /\ q.state[t] \in {"off", "inbound"}
    BY <1>1, <1>2, <2>2, SetPrioOK
  <2>5. Tallied(q) /\ Loaded(q) /\ (Covers(s) /\ s.cur # t => Covers(q))
    BY <1>1, <2>2, <2>3, SetPrioTally
  <2>6. PICK f : \/ s' = AddHere(q, t, f, rnd)
                 \/ \E woken \in BOOLEAN : s' = AddRemote(q, t, f, rnd, woken)
    BY <2>1, <2>2
  <2> QED
    BY <1>1, <2>3, <2>4, <2>5, <2>6, ArriveTally DEF CountInv
<1> QED
  BY <1>3, <1>4, <1>5, <1>6

\* A thread that sched_affinity takes off the queue leaves the counts with it, and
\* is counted again if it stays.
LEMMA SchedAffinityCounts ==
  ASSUME Inv, CountInv, NEW t \in Thread, SchedAffinity(t)
  PROVE  CountInv'
<1>1. /\ Base(s) /\ s \in CpuState /\ Tallied(s) /\ Loaded(s) /\ Covers(s)
  BY DEF Inv, Base, CountInv
<1>2. ASSUME NEW b \in BOOLEAN, s' = Asked(s, b)
      PROVE  CountInv'
  <2>1. /\ s' \in CpuState
        /\ s'.runq = s.runq /\ s'.state = s.state /\ s'.cur = s.cur
        /\ s'.leaving = s.leaving /\ s'.lowpri = s.lowpri /\ s'.load = s.load
        /\ s'.sysload = s.sysload /\ s'.xfer = s.xfer
        /\ s'.transferable = s.transferable
        /\ s'.pinned = s.pinned /\ s'.prio = s.prio
    BY <1>1, <1>2, AskedSame
  <2> QED
    BY <1>1, <2>1, SameCounts DEF CountInv
<1>3. CASE s.state[t] = "runq"
  <2>2. PICK q : q = sched_rem(s, t)
    OBVIOUS
  <2>3. Base(q) /\ q.state = [s.state EXCEPT ![t] = "off"]
    BY <1>1, <1>3, <2>2, SchedRemOK
  <2>4. Tallied(q) /\ Loaded(q) /\ Covers(q)
    BY <1>1, <1>3, <2>2, SchedRemTally
  <2>5. q.state[t] \in {"off", "inbound"}
    BY <1>1, <2>3 DEF CpuState
  <2>6. CASE s' = q
    BY <2>4, <2>6 DEF CountInv
  <2>7. ASSUME NEW rnd \in Rnd, NEW f,
               \/ s' = AddHere(q, t, f, rnd)
               \/ \E woken \in BOOLEAN : s' = AddRemote(q, t, f, rnd, woken)
        PROVE  CountInv'
    BY <2>3, <2>4, <2>5, <2>7, ArriveTally DEF CountInv
  <2> QED
    BY <1>2, <2>2, <2>6, <2>7, AffinityCases
<1> QED
  BY <1>2, <1>3, AffinityCases

\* sched_thread_priority: the published priority is lowered with the running
\* thread's and searched again when that thread was the one it stood for.
LEMMA SetPriorityCounts ==
  ASSUME Inv, CountInv, NEW t \in Thread, NEW p \in Prio, SetPriority(t, p)
  PROVE  CountInv'
<1>1. /\ Base(s) /\ OnlyCurRuns(s) /\ s \in CpuState
      /\ Tallied(s) /\ Loaded(s) /\ Covers(s)
  BY DEF Inv, Base, CountInv
<1>2. s.prio[t] \in Int /\ p \in 0 .. PRI_MAX_IDLE /\ s.lowpri \in Int /\ p \in Int
  BY <1>1, PrioOK, TdqAssumption DEF CpuState
<1>3. CASE MustRequeue(t, p)
  <2>1. s.state[t] = "runq"
    BY <1>3 DEF MustRequeue
  <2>2. PICK q2 : q2 = sched_rem(s, t)
    OBVIOUS
  <2>3. /\ Base(q2) /\ q2.state = [s.state EXCEPT ![t] = "off"]
        /\ q2.cur = s.cur /\ q2.leaving = s.leaving
    BY <1>1, <2>1, <2>2, SchedRemOK
  <2>4. Tallied(q2) /\ Loaded(q2) /\ Covers(q2)
    BY <1>1, <2>1, <2>2, SchedRemTally
  <2>5. PICK qr : qr = SetPrio(q2, t, p)
    OBVIOUS
  <2>6. q2.state[t] = "off" /\ q2.state[t] # "runq"
    BY <1>1, <2>3 DEF CpuState
  <2>7. Base(qr) /\ qr.state[t] = "off"
    <3>1. Base(qr) /\ qr.state = q2.state
      BY <2>3, <2>5, SetPrioOK
    <3> QED
      BY <2>6, <3>1
  <2>8. s.leaving = "no" => s.cur # t
    BY <1>1, <2>1 DEF OnlyCurRuns
  <2>9. Tallied(qr) /\ Loaded(qr) /\ Covers(qr)
    <3>1. /\ Tallied(qr) /\ Loaded(qr) /\ qr.leaving = q2.leaving
          /\ Covers(q2) /\ q2.cur # t => Covers(qr)
      <4>1. q2.state[t] = "runq" => p >= q2.prio[t]
        BY <2>6
      <4>2. Tallied(qr)
        BY <2>3, <2>4, <2>5, <4>1, SetPrioTally
      <4>3. Loaded(qr)
        BY <2>3, <2>4, <2>5, <4>1, SetPrioTally
      <4>4. qr.leaving = q2.leaving
        BY <2>3, <2>5, SetPrioOK
      <4>5. Covers(q2) /\ q2.cur # t => Covers(qr)
        BY <2>3, <2>4, <2>5, <4>1, SetPrioTally
      <4> QED
        BY <4>2, <4>3, <4>4, <4>5
    <3> QED
      BY <2>3, <2>4, <2>8, <3>1 DEF Covers
  <2>10. \/ \E rnd \in Rnd :
              \/ s' = AddHere(qr, t, {"BORROWING"}, rnd)
              \/ \E woken \in BOOLEAN : s' = AddRemote(qr, t, {"BORROWING"}, rnd, woken)
         \/ s' = qr
    BY <1>3, <2>2, <2>5 DEF SetPriority, SetPrio
  <2>11. CASE s' = qr
    BY <2>9, <2>11 DEF CountInv
  <2> QED
    BY <2>7, <2>9, <2>10, <2>11, ArriveTally DEF CountInv
<1>4. CASE ~ MustRequeue(t, p)
  <2>1. PICK q1 : q1 = SetPrio(s, t, p)
    OBVIOUS
  <2>2. Base(q1) /\ q1 \in CpuState /\ q1.state = s.state
    BY <1>1, <2>1, SetPrioOK DEF Base
  <2>3. s.state[t] = "runq" => p >= s.prio[t]
    BY <1>2, <1>4 DEF MustRequeue
  <2>4. /\ Tallied(q1) /\ Loaded(q1) /\ q1.prio = [s.prio EXCEPT ![t] = p]
        /\ q1.lowpri = s.lowpri /\ q1.leaving = s.leaving /\ q1.cur = s.cur
        /\ Covers(s) /\ s.cur # t => Covers(q1)
    BY <1>1, <2>1, <2>3, SetPrioTally
  <2>5. CASE s.state[t] # "running"
    <3>1. s' = q1
      BY <1>4, <2>1, <2>5 DEF SetPriority, SetPrio
    <3>2. s.leaving = "no" => s.cur # t
      BY <1>1, <2>5 DEF OnlyCurRuns
    <3> QED
      BY <1>1, <2>4, <3>1, <3>2 DEF CountInv, Covers
  <2>6. CASE s.state[t] = "running"
    <3>1. s.cur = t /\ CurPrio(q1) = p
      <4>1. s.cur = t
        BY <1>1, <2>6 DEF OnlyCurRuns
      <4>2. DOMAIN s.prio = Thread
        BY <1>1 DEF CpuState
      <4> QED
        BY <4>1, <4>2, <2>4, TdqAssumption DEF CurPrio
    <3>2. \/ s' = [q1 EXCEPT !.lowpri = p]
          \/ s' = tdq_setlowpri(q1)
          \/ s' = q1 /\ p >= s.lowpri
      BY <1>2, <1>4, <2>1, <2>6 DEF SetPriority, SetPrio
    <3>3. CASE s' = [q1 EXCEPT !.lowpri = p]
      <4>1. /\ s' \in CpuState
            /\ s'.state = q1.state /\ s'.runq = q1.runq /\ s'.xfer = q1.xfer
            /\ s'.load = q1.load
            /\ s'.sysload = q1.sysload /\ s'.transferable = q1.transferable
            /\ s'.pinned = q1.pinned /\ s'.prio = q1.prio
            /\ s'.lowpri = p /\ s'.cur = q1.cur
        BY <1>2, <2>2, <3>3 DEF CpuState
      <4>2. Tallied(s') /\ Loaded(s')
        BY <2>2, <2>4, <4>1, SameCounts
      <4>3. s'.lowpri <= CurPrio(s')
        BY <1>2, <3>1, <4>1 DEF CurPrio
      <4> QED
        BY <4>2, <4>3 DEF CountInv, Covers
    <3>4. CASE s' = tdq_setlowpri(q1)
      BY <2>2, <2>4, <3>4, SetlowpriTally DEF CountInv, Covers
    <3>5. CASE s' = q1 /\ p >= s.lowpri
      <4>1. s'.lowpri <= CurPrio(s')
        BY <1>2, <2>4, <3>1, <3>5
      <4> QED
        BY <2>4, <3>5, <4>1 DEF CountInv, Covers
    <3> QED
      BY <3>2, <3>3, <3>4, <3>5
  <2> QED
    BY <2>5, <2>6
<1> QED
  BY <1>3, <1>4

\* A return to user mode publishes again.
LEMMA SchedUserretCounts ==
  ASSUME Inv, CountInv, NEW p \in Prio, SchedUserret(p)
  PROVE  CountInv'
<1>1. /\ Base(s) /\ OnlyCurRuns(s) /\ s.leaving = "no" /\ s.cur # IdleThread
      /\ Tallied(s) /\ Loaded(s)
  BY DEF Inv, CountInv, SchedUserret, Running, Here
<1>2. PICK t \in Thread : t = s.cur
  BY <1>1 DEF Base, CpuState
<1>3. s.state[t] # "runq"
  BY <1>1, <1>2 DEF OnlyCurRuns
<1>4. PICK q : q = SetPrio(s, t, p)
  OBVIOUS
<1>5. Base(q) /\ Tallied(q) /\ Loaded(q)
  BY <1>1, <1>3, <1>4, SetPrioOK, SetPrioTally
<1>6. s' = tdq_setlowpri(q)
  BY <1>2, <1>4 DEF SchedUserret, SetPrio
<1> QED
  BY <1>5, <1>6, SetlowpriTally DEF CountInv, Covers

\* Binding the running thread counts nothing: TSF_XFERABLE is set when it is queued.
LEMMA SchedBindCounts ==
  ASSUME Inv, CountInv, SchedBind \/ SchedUnbind
  PROVE  CountInv'
<1>1. /\ OnlyCurRuns(s) /\ s \in CpuState /\ s.leaving = "no"
      /\ Tallied(s) /\ Loaded(s) /\ Covers(s)
  BY DEF Inv, Base, CountInv, SchedBind, SchedUnbind, Running, Here
<1>2. PICK t \in Thread : t = s.cur
  BY <1>1 DEF CpuState, SchedBind, SchedUnbind, Running
<1>3. PICK b \in BOOLEAN : s' = [s EXCEPT !.pinned[t] = b]
  BY <1>2 DEF SchedBind, SchedUnbind
<1>4. /\ s' \in CpuState /\ s'.pinned = [s.pinned EXCEPT ![t] = b]
      /\ s'.state = s.state /\ s'.runq = s.runq /\ s'.xfer = s.xfer
      /\ s'.load = s.load
      /\ s'.sysload = s.sysload /\ s'.transferable = s.transferable /\ s'.prio = s.prio
      /\ s'.lowpri = s.lowpri /\ s'.cur = s.cur /\ s'.leaving = s.leaving
  BY <1>1, <1>3 DEF CpuState
<1>5. \A u \in Thread : s.state[u] = "runq" =>
        (s'.pinned[u] <=> s.pinned[u]) /\ s'.prio[u] >= s.prio[u]
  <2>1. s.state[t] # "runq" /\ DOMAIN s.pinned = Thread
    BY <1>1, <1>2 DEF OnlyCurRuns, CpuState
  <2>2. \A u \in Thread : s.prio[u] >= s.prio[u]
    BY <1>1, PrioOK
  <2> QED
    BY <1>4, <2>1, <2>2
<1>6. Tallied(s')
  BY <1>1, <1>4, <1>5, SameTally
<1> QED
  BY <1>1, <1>4, <1>6 DEF CountInv, Loaded, Present, Covers, CurPrio

\* The tick counts nothing.
LEMMA SchedClockCounts ==
  ASSUME Inv, CountInv, SchedClock
  PROVE  CountInv'
<1>1. /\ Base(s) /\ s \in CpuState /\ Tallied(s) /\ Loaded(s) /\ Covers(s)
  BY DEF Inv, Base, CountInv
<1>2. PICK q : q = Rotate(s)
  OBVIOUS
<1>3. q \in CpuState
  BY <1>1, <1>2, RotateOK DEF Base
<1>4. /\ q.state = s.state /\ q.runq = s.runq /\ q.xfer = s.xfer /\ q.load = s.load
      /\ q.sysload = s.sysload
      /\ q.transferable = s.transferable /\ q.pinned = s.pinned /\ q.prio = s.prio
      /\ q.lowpri = s.lowpri /\ q.cur = s.cur /\ q.leaving = s.leaving
  BY <1>1, <1>2 DEF Rotate, CpuState
<1>5. Tallied(q) /\ Loaded(q) /\ Covers(q)
  BY <1>1, <1>3, <1>4, SameCounts
<1>6. s' \in CpuState
  BY SchedClockInv DEF Inv, Base
<1>7. /\ s'.state = q.state /\ s'.runq = q.runq /\ s'.xfer = q.xfer /\ s'.load = q.load
      /\ s'.sysload = q.sysload
      /\ s'.transferable = q.transferable /\ s'.pinned = q.pinned /\ s'.prio = q.prio
      /\ s'.lowpri = q.lowpri /\ s'.cur = q.cur /\ s'.leaving = q.leaving
  BY <1>2, <1>3 DEF SchedClock, CpuState
<1> QED
  BY <1>3, <1>5, <1>6, <1>7, SameCounts DEF CountInv

\* Every step keeps the counts.
LEMMA NextCounts == Inv /\ CountInv /\ [Next]_vars => CountInv'
<1> SUFFICES ASSUME Inv, CountInv, [Next]_vars
    PROVE  CountInv'
  OBVIOUS
<1>1. CASE Ast \/ CriticalExit \/ SchedRelinquish \/ IdleSwitch \/ SchedPreempt
  BY <1>1, SwitchCounts
<1>2. CASE SwitchSleep \/ SchedThrow \/ SchedMigrate
  BY <1>2, LeaveCounts
<1>3. CASE SwitchFinish \/ \E t \in Thread : SwitchFinishStolen(t)
  BY <1>3, FinishCounts
<1>4. CASE SchedBind \/ SchedUnbind
  BY <1>4, SchedBindCounts
<1>5. CASE SchedClock
  BY <1>5, SchedClockCounts
<1>6. CASE StolenAway
  BY <1>6, StolenAwayCounts
<1>7. ASSUME NEW t \in Thread,
             SchedWakeup(t) \/ SchedFork(t) \/ BalanceIn(t) \/ StealByIdle(t)
      PROVE  CountInv'
  BY <1>7, ArriveCounts
<1>8. ASSUME NEW t \in Thread, NEW p \in Prio, SetPriority(t, p)
      PROVE  CountInv'
  BY <1>8, SetPriorityCounts
<1>9. ASSUME NEW p \in Prio, SchedUserret(p)
      PROVE  CountInv'
  BY <1>9, SchedUserretCounts
<1>10. ASSUME NEW t \in Thread,
              PreemptedElsewhere(t) \/ MigrateIn(t) \/ YieldIn(t) \/ RequeuedIn(t)
       PROVE  CountInv'
  BY <1>10, SentCounts
<1>11. ASSUME NEW t \in Thread, SchedAffinity(t)
       PROVE  CountInv'
  BY <1>11, SchedAffinityCounts
<1>12. CASE UNCHANGED vars
  BY <1>12 DEF vars, CountInv, Tallied, Loaded, Covers, Xferable, Present, CurPrio
<1> QED
  BY <1>1, <1>2, <1>3, <1>4, <1>5, <1>6, <1>7, <1>8, <1>9, <1>10, <1>11, <1>12
     DEF Next

\* The counts hold in every reachable state.
THEOREM CountInvariance == Spec => []CountInv
<1>1. Init => CountInv
  BY InitCounts
<1>2. Inv /\ CountInv /\ [Next]_vars => CountInv'
  BY NextCounts
<1> QED
  BY <1>1, <1>2, Invariance, PTL DEF Spec

\* tdq_load is the number of threads that run or are queued and tdq_sysload that
\* of those without TDF_NOLOAD, on every path through a switch, a theft, an
\* arrival or a change of priority or cpuset: the idle loop and the balancer
\* never take a busy processor for an idle one.
THEOREM LoadCorrect == Spec => []LoadExact
<1>1. CountInv => LoadExact
  BY DEF CountInv, Loaded, Present, LoadExact
<1> QED
  BY <1>1, CountInvariance, PTL

\* tdq_transferable is the number of queued threads that are not pinned: a
\* thread pinned or freed after it was queued would break it, and none is.
THEOREM TransferableCorrect == Spec => []TransferableExact
<1>1. ASSUME CountInv
      PROVE  TransferableExact
  <2>1. Xferable(s) = {t \in Thread : s.state[t] = "runq" /\ ~ s.pinned[t]}
    BY <1>1 DEF CountInv, Tallied, Xferable
  <2> QED
    BY <1>1, <2>1 DEF CountInv, Tallied, TransferableExact
<1> QED
  BY <1>1, CountInvariance, PTL

\* No thread is on a queue of a worse class than its own, whatever priorities it
\* is lent while it waits: the KASSERTs of tdq_choose.
THEOREM ClassCorrect == Spec => []ClassOfQueue
<1>1. CountInv => ClassOfQueue
  BY DEF CountInv, Tallied, ClassOfQueue
<1> QED
  BY <1>1, CountInvariance, PTL

\* tdq_lowpri, which is read without the lock, is never less important than the
\* running thread.
THEOREM LowpriCorrect == Spec => []LowpriCovers
<1>1. CountInv => LowpriCovers
  BY DEF CountInv, Covers, LowpriCovers, Here
<1> QED
  BY <1>1, CountInvariance, PTL
-----------------------------------------------------------------------------
(* The queue that drains.                                                   *)

\* Thread t waits on timeshare queue i.
Waits(q, t, i) == q.state[t] = "runq" /\ q.runq[t] = "timeshare" /\ q.rqindex[t] = i

\* From q to r no thread joins timeshare queue i, but those in the set who.
OnlyJoin(q, r, i, who) ==
  \A t \in Thread : Waits(r, t, i) => Waits(q, t, i) \/ t \in who

\* One queue back is another queue, in a ring of u_char indices without a seam.
LEMMA OneBack ==
  ASSUME NEW i \in Index, RQ_NQS # 1
  PROVE  ((i + 255) % 256) % RQ_NQS # i
<1>1. RQ_NQS \in Nat \ {0} /\ 256 % RQ_NQS = 0 /\ i \in 0 .. RQ_NQS - 1
  BY RunQueueAssumption, TdqAssumption DEF Index
<1>2. RQ_NQS <= 256
  BY <1>1
<1>3. CASE i = 0
  <2>1. 255 % RQ_NQS # 0
    BY <1>1, <1>2
  <2> QED
    BY <2>1, <1>3
<1>4. CASE i # 0
  <2>1. (i + 255) % 256 = i - 1
    BY <1>1, <1>2, <1>4
  <2>2. (i - 1) % RQ_NQS = i - 1
    BY <1>1, <1>4
  <2> QED
    BY <2>1, <2>2, <1>1
<1> QED
  BY <1>3, <1>4

\* While a queue drains, a thread that neither borrows nor was preempted enters
\* another one.
LEMMA EntryElsewhere ==
  ASSUME NEW q \in CpuState, NEW t \in Thread, NEW flags, NEW rnd \in Rnd,
         flags \cap {"BORROWING", "PREEMPTED"} = {}, q.idx # q.ridx,
         RunqClass(q.prio[t]) = "timeshare"
  PROVE  EntryIndex(q, t, flags, rnd) # q.ridx
<1>1. q.idx \in Index /\ q.ridx \in Index
  BY DEF CpuState
<1>2. RQ_NQS # 1
  BY <1>1 DEF Index
<1>3. PICK i : i = ((RQ_NQS * (BatchPri(q.prio[t], rnd) - PRI_MIN_BATCH))
                      \div PRI_BATCH_RANGE + q.idx) % RQ_NQS
  OBVIOUS
<1>4. EntryIndex(q, t, flags, rnd) = IF i = q.ridx THEN ((i + 255) % 256) % RQ_NQS ELSE i
  BY <1>3 DEF EntryIndex, TimeshareIndex
<1>5. i = q.ridx => ((i + 255) % 256) % RQ_NQS # q.ridx
  BY <1>1, <1>2, OneBack
<1> QED
  BY <1>4, <1>5

\* tdq_runq_add puts one thread on a queue, the draining one only if it borrows
\* a priority or was preempted.
LEMMA RunqAddJoins ==
  ASSUME NEW q, Base(q), NEW t \in Thread, q.state[t] # "runq",
         NEW flags, NEW rnd \in Rnd, NEW r, r = tdq_runq_add(q, t, flags, rnd)
  PROVE  /\ \A i \in Index : OnlyJoin(q, r, i, {t})
         /\ flags \cap {"BORROWING", "PREEMPTED"} = {} /\ q.idx # q.ridx
              => OnlyJoin(q, r, q.ridx, {})
<1>1. q \in CpuState
  BY DEF Base
<1>2. r.state = [q.state EXCEPT ![t] = "runq"]
  BY RunqAddOK
<1>3. /\ r.runq = [q.runq EXCEPT ![t] = RunqClass(q.prio[t])]
      /\ r.rqindex = [q.rqindex EXCEPT ![t] = EntryIndex(q, t, flags, rnd)]
  <2>1. Added(q, t, flags, rnd, r)
    BY <1>1, RunqAddFields
  <2> QED
    BY <2>1 DEF Added
<1>4. DOMAIN q.state = Thread /\ DOMAIN q.runq = Thread /\ DOMAIN q.rqindex = Thread
  BY <1>1 DEF CpuState
<1>5. ASSUME NEW u \in Thread, u # t, NEW i, Waits(r, u, i)
      PROVE  Waits(q, u, i)
  BY <1>2, <1>3, <1>4, <1>5 DEF Waits
<1>6. ASSUME flags \cap {"BORROWING", "PREEMPTED"} = {}, q.idx # q.ridx
      PROVE  ~ Waits(r, t, q.ridx)
  <2>1. r.runq[t] = RunqClass(q.prio[t]) /\ r.rqindex[t] = EntryIndex(q, t, flags, rnd)
    BY <1>3, <1>4
  <2> QED
    BY <2>1, <1>1, <1>6, EntryElsewhere DEF Waits
<1> QED
  BY <1>5, <1>6 DEF OnlyJoin

\* sched_add, from this processor or another, does the same.
LEMMA ArriveJoins ==
  ASSUME NEW q, Base(q), NEW t \in Thread, q.state[t] \in {"off", "inbound"},
         NEW flags, NEW rnd \in Rnd, NEW r,
         \/ r = tdq_add(q, t, flags, rnd)
         \/ r = AddHere(q, t, flags, rnd)
         \/ \E woken \in BOOLEAN : r = AddRemote(q, t, flags, rnd, woken)
  PROVE  /\ \A i \in Index : OnlyJoin(q, r, i, {t})
         /\ flags \cap {"BORROWING", "PREEMPTED"} = {} /\ q.idx # q.ridx
              => OnlyJoin(q, r, q.ridx, {})
<1>1. q \in CpuState /\ q.state[t] # "runq"
  BY DEF Base
<1>2. PICK p \in 0 .. PRI_MAX_IDLE :
        p = IF q.prio[t] < q.lowpri THEN q.prio[t] ELSE q.lowpri
  BY <1>1, PrioOK DEF CpuState
<1>3. PICK q1 : q1 = [q EXCEPT !.lowpri = p]
  OBVIOUS
<1>4. /\ q1 \in CpuState
      /\ q1.rq = q.rq /\ q1.runq = q.runq /\ q1.rqindex = q.rqindex
      /\ q1.idx = q.idx /\ q1.ridx = q.ridx /\ q1.state = q.state
  BY <1>1, <1>3 DEF CpuState
<1>5. Base(q1)
  BY <1>4, SameQueues
<1>6. PICK q2 : q2 = tdq_runq_add(q1, t, flags, rnd)
  OBVIOUS
<1>7. Base(q2)
  BY <1>1, <1>4, <1>5, <1>6, RunqAddOK
<1>8. /\ \A i \in Index : OnlyJoin(q1, q2, i, {t})
      /\ flags \cap {"BORROWING", "PREEMPTED"} = {} /\ q1.idx # q1.ridx
           => OnlyJoin(q1, q2, q1.ridx, {})
  BY <1>1, <1>4, <1>5, <1>6, RunqAddJoins
<1>9. PICK q3 : q3 = tdq_add(q, t, flags, rnd)
  OBVIOUS
<1>14. PICK m : m = IF t \in NoLoad THEN q2.sysload ELSE q2.sysload + 1
  OBVIOUS
<1>10. q3 = [q2 EXCEPT !.load = q2.load + 1, !.sysload = m]
  BY <1>2, <1>3, <1>6, <1>9, <1>14 DEF tdq_add, tdq_load_add
<1>11. q3.state = q2.state /\ q3.runq = q2.runq /\ q3.rqindex = q2.rqindex /\ q3 \in CpuState
  <2>1. q2 \in CpuState
    BY <1>7 DEF Base
  <2>2. q3 \in CpuState
    BY <1>1, <1>9, AddOK DEF Base
  <2> QED
    BY <2>1, <2>2, <1>10 DEF CpuState
<1>12. \/ r = q3
       \/ r = [q3 EXCEPT !.needresched = @ \/ q3.prio[t] < CurPrio(q3),
                 !.owepreempt = @ \/ sched_shouldpreempt(q3.prio[t], CurPrio(q3), FALSE)]
       \/ r = [q3 EXCEPT !.ipipending = TRUE, !.ipi = TRUE]
  BY <1>9 DEF AddHere, AddRemote, sched_setpreempt, tdq_notify
<1>13. r.state = q2.state /\ r.runq = q2.runq /\ r.rqindex = q2.rqindex
  BY <1>11, <1>12 DEF CpuState
<1> QED
  BY <1>4, <1>8, <1>13 DEF OnlyJoin, Waits

\* choosethread lets no thread join a queue.
LEMMA ChooseJoins ==
  ASSUME NEW q, Base(q), NEW r, r = sched_choose(q, tdq_choose(q)), NEW i
  PROVE  OnlyJoin(q, r, i, {})
<1>1. q \in CpuState
  BY DEF Base
<1>2. PICK t : t = tdq_choose(q)
  OBVIOUS
<1>3. CASE t = NoThread
  <2>1. r = [q EXCEPT !.lowpri = PRI_MAX_IDLE, !.cur = IdleThread]
    BY <1>2, <1>3 DEF sched_choose
  <2>2. r.state = q.state /\ r.runq = q.runq /\ r.rqindex = q.rqindex
    BY <1>1, <2>1 DEF CpuState
  <2> QED
    BY <2>2 DEF OnlyJoin, Waits
<1>4. CASE t # NoThread
  <2>1. PICK u \in Thread : u = t /\ q.state[u] = "runq"
    BY <1>2, <1>4, ChooseOK
  <2>2. PICK q1 : q1 = tdq_runq_rem(q, u)
    OBVIOUS
  <2>3. q1 \in CpuState /\ q1.state = q.state
    BY <2>1, <2>2, RunqRemTyped
  <2>4. /\ q1.runq = [q.runq EXCEPT ![u] = "none"]
        /\ q1.rqindex = [q.rqindex EXCEPT ![u] = 0]
    <3>1. Removed(q, u, q1)
      BY <2>1, <2>2, RunqRemFields
    <3> QED
      BY <3>1 DEF Removed
  <2>5. r = [q1 EXCEPT !.lowpri = q.prio[u], !.cur = u, !.state[u] = "running"]
    BY <1>2, <1>4, <2>1, <2>2 DEF sched_choose
  <2>6. /\ r.runq = q1.runq /\ r.rqindex = q1.rqindex
        /\ r.state = [q.state EXCEPT ![u] = "running"]
    BY <2>3, <2>5 DEF CpuState
  <2>7. DOMAIN q.state = Thread /\ DOMAIN q.runq = Thread /\ DOMAIN q.rqindex = Thread
    BY <1>1 DEF CpuState
  <2> QED
    BY <2>4, <2>6, <2>7 DEF OnlyJoin, Waits
<1> QED
  BY <1>3, <1>4

\* sched_rem lets none join either.
LEMMA SchedRemJoins ==
  ASSUME NEW q, Base(q), NEW t \in Thread, q.state[t] = "runq",
         NEW r, r = sched_rem(q, t), NEW i
  PROVE  OnlyJoin(q, r, i, {})
<1>1. PICK q1 : q1 = tdq_runq_rem(q, t)
  OBVIOUS
<1>2. q \in CpuState /\ q1 \in CpuState /\ q1.state = q.state
  BY <1>1, RunqRemTyped DEF Base
<1>3. /\ q1.runq = [q.runq EXCEPT ![t] = "none"]
      /\ q1.rqindex = [q.rqindex EXCEPT ![t] = 0]
  <2>1. Removed(q, t, q1)
    BY <1>1, RunqRemFields
  <2> QED
    BY <2>1 DEF Removed
<1>4. PICK q2 : q2 = [tdq_load_rem(q1, t) EXCEPT !.state[t] = "off"]
  OBVIOUS
<1>5. r.runq = q1.runq /\ r.rqindex = q1.rqindex
  <2>1. r = q2 \/ \E p : r = [q2 EXCEPT !.lowpri = p]
    BY <1>1, <1>4 DEF sched_rem, tdq_setlowpri
  <2>2. q2.runq = q1.runq /\ q2.rqindex = q1.rqindex
    BY <1>2, <1>4 DEF tdq_load_rem, CpuState
  <2>3. DOMAIN q2 = DOMAIN q1
    BY <1>2, <1>4 DEF tdq_load_rem
  <2> QED
    BY <1>2, <2>1, <2>2, <2>3 DEF CpuState
<1>6. r.state = [q.state EXCEPT ![t] = "off"]
  BY SchedRemOK
<1>7. DOMAIN q.state = Thread /\ DOMAIN q.runq = Thread /\ DOMAIN q.rqindex = Thread
  BY <1>2 DEF CpuState
<1> QED
  BY <1>3, <1>5, <1>6, <1>7 DEF OnlyJoin, Waits

\* It moves the remove index only if the thread was the last on the queue that
\* drains.
LEMMA SchedRemIndices ==
  ASSUME NEW q, Base(q), NEW t \in Thread, q.state[t] = "runq",
         NEW r, r = sched_rem(q, t)
  PROVE  r.idx = q.idx /\ (r.ridx = q.ridx \/ Waits(q, t, q.ridx))
<1>1. PICK q1 : q1 = tdq_runq_rem(q, t)
  OBVIOUS
<1>2. q \in CpuState /\ q1 \in CpuState
  BY <1>1, RunqRemTyped DEF Base
<1>3. q1.idx = q.idx
  <2>1. Removed(q, t, q1)
    BY <1>1, RunqRemFields
  <2> QED
    BY <2>1 DEF Removed
<1>4. q1.ridx = q.ridx \/ Waits(q, t, q.ridx)
  <2>1. q1.ridx = IF q.runq[t] = "timeshare" /\ q.idx # q.ridx
                  THEN runq_next_idx(q.rq[q.runq[t]], t, q.rqindex[t], q.ridx)
                  ELSE q.ridx
    BY <1>1, <1>2 DEF tdq_runq_rem, CpuState
  <2> QED
    BY <2>1 DEF runq_next_idx, Waits
<1>5. PICK q2 : q2 = [tdq_load_rem(q1, t) EXCEPT !.state[t] = "off"]
  OBVIOUS
<1>6. q2.idx = q1.idx /\ q2.ridx = q1.ridx /\ DOMAIN q2 = DOMAIN q1
  BY <1>2, <1>5 DEF tdq_load_rem, CpuState
<1>7. r = q2 \/ \E p : r = [q2 EXCEPT !.lowpri = p]
  BY <1>1, <1>5 DEF sched_rem, tdq_setlowpri
<1>8. r.idx = q1.idx /\ r.ridx = q1.ridx
  BY <1>2, <1>6, <1>7 DEF CpuState
<1> QED
  BY <1>3, <1>4, <1>8

\* The outgoing thread goes back to the draining queue only when it was preempted
\* before its slice ended.
LEMMA RequeuedJoins ==
  ASSUME NEW q, Base(q), OnlyCurRuns(q), q.leaving = "no", q.idx # q.ridx,
         NEW preempt, NEW rnd \in Rnd, NEW r, r = Requeued(q, preempt, rnd)
  PROVE  OnlyJoin(q, r, q.ridx, IF q.sliceend THEN {} ELSE {q.cur})
<1>1. PICK q1 : q1 = ClearFlags(q)
  OBVIOUS
<1>2. Base(q1) /\ q \in CpuState
  BY <1>1, ClearFlagsOK DEF Base
<1>3. /\ q1.state = q.state /\ q1.runq = q.runq /\ q1.rqindex = q.rqindex
      /\ q1.idx = q.idx /\ q1.ridx = q.ridx
  BY <1>1, <1>2 DEF ClearFlags, CpuState
<1>4. CASE q.cur = IdleThread
  BY <1>1, <1>3, <1>4 DEF Requeued, OnlyJoin, Waits
<1>5. CASE q.cur # IdleThread
  <2>1. PICK t \in Thread : t = q.cur
    BY <1>2, <1>5 DEF CpuState
  <2>2. q1.state[t] # "runq"
    BY <2>1, <1>3 DEF OnlyCurRuns
  <2>3. PICK flags : /\ r = tdq_runq_add(q1, t, flags, rnd)
                     /\ q.sliceend => flags = {"OURSELF", "YIELDING"}
    BY <1>1, <1>5, <2>1 DEF Requeued
  <2>4. q.ridx \in Index
    BY <1>2 DEF CpuState
  <2>5. r = tdq_runq_add(q1, t, flags, rnd)
    BY <2>3
  <2>6. /\ OnlyJoin(q1, r, q.ridx, {t})
        /\ flags \cap {"BORROWING", "PREEMPTED"} = {} => OnlyJoin(q1, r, q.ridx, {})
    BY <1>2, <1>3, <2>2, <2>4, <2>5, RunqAddJoins
  <2>7. q.sliceend => flags \cap {"BORROWING", "PREEMPTED"} = {}
    BY <2>3
  <2> QED
    BY <1>3, <2>1, <2>6, <2>7 DEF OnlyJoin, Waits
<1> QED
  BY <1>4, <1>5

\* Who may join the draining queue in a step.
Drains ==
  s.idx # s.ridx =>
    \A t \in Thread : Waits(s', t, s.ridx) =>
      \/ Waits(s, t, s.ridx)
      \/ s.cur = t /\ ~ s.sliceend
      \/ s.state[t] = "inbound"
      \/ s'.prio[t] < s.prio[t]

\* A whole switch.
LEMMA SwitchRunnableDrains ==
  ASSUME NEW q, Base(q), OnlyCurRuns(q), q.leaving = "no", q.idx # q.ridx,
         NEW preempt, SwitchRunnable(q, preempt)
  PROVE  OnlyJoin(q, s', q.ridx, IF q.sliceend THEN {} ELSE {q.cur})
<1>1. PICK rnd \in Rnd : \E q1 \in {Requeued(q, preempt, rnd)} : RunNext(q1)
  BY DEF SwitchRunnable
<1>2. PICK q1 : /\ q1 = Requeued(q, preempt, rnd)
                /\ s' = sched_choose(q1, tdq_choose(q1))
  BY <1>1 DEF RunNext
<1>3. q1 = Requeued(q, preempt, rnd)
  BY <1>2
<1>4. Base(q1) /\ OnlyJoin(q, q1, q.ridx, IF q.sliceend THEN {} ELSE {q.cur})
  BY <1>3, RequeuedOK, RequeuedJoins
<1>5. OnlyJoin(q1, s', q.ridx, {})
  BY <1>2, <1>4, ChooseJoins
<1> QED
  BY <1>4, <1>5 DEF OnlyJoin

\* The handlers that switch.
LEMMA SwitchDrains ==
  ASSUME Inv, Ast \/ CriticalExit \/ SchedRelinquish \/ IdleSwitch \/ SchedPreempt
  PROVE  Drains
<1> SUFFICES ASSUME s.idx # s.ridx
    PROVE  OnlyJoin(s, s', s.ridx, IF s.sliceend THEN {} ELSE {s.cur})
  BY DEF Drains, OnlyJoin
<1>1. Base(s) /\ OnlyCurRuns(s) /\ s \in CpuState /\ s.leaving = "no"
  BY DEF Inv, Base, Ast, CriticalExit, SchedRelinquish, IdleSwitch, SchedPreempt,
         Running, Here
<1>2. CASE ~ SchedPreempt
  <2>1. \E preempt \in BOOLEAN : SwitchRunnable(s, preempt)
    BY <1>2 DEF Ast, CriticalExit, SchedRelinquish, IdleSwitch
  <2> QED
    BY <1>1, <2>1, SwitchRunnableDrains
<1>3. CASE SchedPreempt
  <2>1. PICK q : q = [s EXCEPT !.ipipending = FALSE, !.ipi = FALSE]
    OBVIOUS
  <2>2. /\ q \in CpuState /\ q.rq = s.rq /\ q.runq = s.runq /\ q.rqindex = s.rqindex
        /\ q.idx = s.idx /\ q.ridx = s.ridx /\ q.state = s.state
        /\ q.cur = s.cur /\ q.leaving = s.leaving /\ q.sliceend = s.sliceend
    BY <1>1, <2>1 DEF CpuState
  <2>3. Base(q) /\ OnlyCurRuns(q)
    BY <1>1, <2>2, Unmoved
  <2>4. s' = q \/ s' = [q EXCEPT !.owepreempt = TRUE] \/ SwitchRunnable(q, TRUE)
    BY <1>3, <2>1 DEF SchedPreempt
  <2>5. CASE s' = q \/ s' = [q EXCEPT !.owepreempt = TRUE]
    BY <2>2, <2>5 DEF CpuState, OnlyJoin, Waits
  <2>6. CASE SwitchRunnable(q, TRUE)
    <3>1. OnlyJoin(q, s', s.ridx, IF s.sliceend THEN {} ELSE {s.cur})
      BY <1>1, <2>2, <2>3, <2>6, SwitchRunnableDrains
    <3> QED
      BY <2>2, <3>1 DEF OnlyJoin, Waits
  <2> QED
    BY <2>4, <2>5, <2>6
<1> QED
  BY <1>2, <1>3

\* A thread that leaves the processor joins no queue.
LEMMA SwitchLeaveJoins ==
  ASSUME NEW q, Base(q), q.cur \in Thread, NEW r, r = SwitchLeave(q), NEW i
  PROVE  OnlyJoin(q, r, i, {})
<1>1. q \in CpuState
  BY DEF Base
<1>2. PICK q1 : q1 = tdq_load_rem(ClearFlags(q), q.cur)
  OBVIOUS
<1>3. /\ q1.state = q.state /\ q1.runq = q.runq /\ q1.rqindex = q.rqindex
      /\ DOMAIN q1 = DOMAIN q
  BY <1>1, <1>2 DEF ClearFlags, tdq_load_rem, CpuState
<1>4. PICK t \in Thread : t = q.cur
  OBVIOUS
<1>5. r = [q1 EXCEPT !.state[t] = "off"]
  BY <1>2, <1>4 DEF SwitchLeave
<1>6. /\ r.state = [q.state EXCEPT ![t] = "off"]
      /\ r.runq = q.runq /\ r.rqindex = q.rqindex
  BY <1>1, <1>3, <1>5 DEF CpuState
<1>7. DOMAIN q.state = Thread
  BY <1>1 DEF CpuState
<1> QED
  BY <1>6, <1>7 DEF OnlyJoin, Waits

\* Nor when it sleeps, exits or is sent away.
LEMMA LeaveDrains ==
  ASSUME Inv, SwitchSleep \/ SchedThrow \/ SchedMigrate
  PROVE  Drains
<1>1. /\ Base(s) /\ OnlyCurRuns(s) /\ s.leaving = "no" /\ s.cur # IdleThread
  BY DEF Inv, SwitchSleep, SchedThrow, SchedMigrate, Running, Here
<1>2. PICK q : q = SwitchLeave(s)
  OBVIOUS
<1>3. Base(q) /\ q \in CpuState /\ q.leaving = "no"
  BY <1>1, <1>2, SwitchLeaveOK DEF Base
<1>4. PICK t \in Thread : t = s.cur
  BY <1>1 DEF Base, CpuState
<1>5. OnlyJoin(s, q, s.ridx, {})
  BY <1>1, <1>2, <1>4, SwitchLeaveJoins
<1>6. OnlyJoin(q, s', s.ridx, {})
  <2>1. CASE SwitchSleep
    <3>1. s' = [q EXCEPT !.leaving = "steal"] \/ s' = sched_choose(q, tdq_choose(q))
      BY <1>2, <2>1 DEF SwitchSleep, RunNext
    <3>2. CASE s' = [q EXCEPT !.leaving = "steal"]
      BY <1>3, <3>2 DEF CpuState, OnlyJoin, Waits
    <3>3. CASE s' = sched_choose(q, tdq_choose(q))
      BY <1>3, <3>3, ChooseJoins
    <3> QED
      BY <3>1, <3>2, <3>3
  <2>2. CASE SchedThrow
    <3>1. PICK r : r = Unbound(q, t, "no")
      OBVIOUS
    <3>2. Base(r)
      <4>1. "no" \in {"no", "migrate"}
        OBVIOUS
      <4> QED
        BY <1>3, <3>1, <4>1, UnboundOK
    <3>3. r = [q EXCEPT !.pinned[s.cur] = FALSE]
      BY <1>3, <1>4, <3>1 DEF CpuState, Unbound
    <3>4. s' = sched_choose(r, tdq_choose(r))
      BY <1>2, <2>2, <3>3 DEF SchedThrow, RunNext
    <3>5. OnlyJoin(r, s', s.ridx, {})
      BY <3>2, <3>4, ChooseJoins
    <3>6. r.state = q.state /\ r.runq = q.runq /\ r.rqindex = q.rqindex
      BY <1>3, <3>1 DEF CpuState, Unbound
    <3> QED
      BY <3>5, <3>6 DEF OnlyJoin, Waits
  <2>3. CASE SchedMigrate
    <3>1. s' = Unbound(q, t, "migrate")
      BY <1>2, <1>4, <2>3 DEF SchedMigrate, Unbound
    <3> QED
      BY <1>3, <3>1 DEF CpuState, Unbound, OnlyJoin, Waits
  <2> QED
    BY <2>1, <2>2, <2>3
<1> QED
  BY <1>5, <1>6 DEF Drains, OnlyJoin

\* The second half of a switch brings a stolen thread at most, not to that queue.
LEMMA FinishDrains ==
  ASSUME Inv, SwitchFinish \/ \E t \in Thread : SwitchFinishStolen(t)
  PROVE  Drains
<1> SUFFICES ASSUME s.idx # s.ridx
    PROVE  OnlyJoin(s, s', s.ridx, {})
  BY DEF Drains, OnlyJoin
<1>1. PICK r : r = [s EXCEPT !.leaving = "no"]
  OBVIOUS
<1>2. Base(s) /\ OnlyCurRuns(s) /\ s.leaving # "no" /\ s \in CpuState
  BY DEF Inv, Base, SwitchFinish, SwitchFinishStolen
<1>3. /\ Base(r) /\ r.state = s.state /\ r.runq = s.runq /\ r.rqindex = s.rqindex
      /\ r.idx = s.idx /\ r.ridx = s.ridx
  BY <1>1, <1>2, RelockOK DEF CpuState
<1>4. CASE SwitchFinish
  <2>1. s' = sched_choose(r, tdq_choose(r))
    BY <1>1, <1>4 DEF SwitchFinish, RunNext
  <2>2. OnlyJoin(r, s', s.ridx, {})
    BY <1>3, <2>1, ChooseJoins
  <2> QED
    BY <1>3, <2>2 DEF OnlyJoin, Waits
<1>5. ASSUME NEW t \in Thread, SwitchFinishStolen(t)
      PROVE  OnlyJoin(s, s', s.ridx, {})
  <2>1. PICK rnd \in Rnd :
          \E q \in {tdq_add(r, t, {"YIELDING"}, rnd)} : s' = sched_choose(q, tdq_choose(q))
    BY <1>1, <1>5 DEF SwitchFinishStolen, RunNext
  <2>2. PICK q : /\ q = tdq_add(r, t, {"YIELDING"}, rnd)
                 /\ s' = sched_choose(q, tdq_choose(q))
    BY <2>1
  <2>3. r.state[t] = "off" /\ r.state[t] # "runq"
    BY <1>3, <1>5 DEF SwitchFinishStolen, Off
  <2>4. q = tdq_add(r, t, {"YIELDING"}, rnd)
    BY <2>2
  <2>5. Base(q)
    BY <1>3, <2>3, <2>4, AddOK
  <2>6. OnlyJoin(r, q, s.ridx, {})
    <3>1. {"YIELDING"} \cap {"BORROWING", "PREEMPTED"} = {} /\ r.idx # r.ridx
      BY <1>3
    <3>2. OnlyJoin(r, q, r.ridx, {})
      BY <1>3, <2>3, <2>4, <3>1, ArriveJoins
    <3> QED
      BY <1>3, <3>2
  <2>7. OnlyJoin(q, s', s.ridx, {})
    BY <2>2, <2>5, ChooseJoins
  <2> QED
    BY <1>3, <2>6, <2>7 DEF OnlyJoin, Waits
<1> QED
  BY <1>4, <1>5

\* Nor do threads that come go there.
LEMMA ArriveDrains ==
  ASSUME Inv, NEW t \in Thread,
         SchedWakeup(t) \/ SchedFork(t) \/ BalanceIn(t) \/ StealByIdle(t)
  PROVE  Drains
<1> SUFFICES ASSUME s.idx # s.ridx
    PROVE  OnlyJoin(s, s', s.ridx, {})
  BY DEF Drains, OnlyJoin
<1>1. Base(s) /\ OnlyCurRuns(s) /\ s \in CpuState /\ s.state[t] = "off"
  BY DEF Inv, Base, SchedWakeup, SchedFork, BalanceIn, StealByIdle, Off
<1>2. {} \cap {"BORROWING", "PREEMPTED"} = {} /\ {"YIELDING"} \cap {"BORROWING", "PREEMPTED"} = {}
  OBVIOUS
<1>3. CASE SchedWakeup(t) \/ SchedFork(t)
  <2>1. PICK n \in Int : n = tdq_slice(s.sysload) - sched_slice_min
    BY <1>1, TdqSliceOK, TdqAssumption DEF CpuState
  <2>2. \E q \in {SetSlice(s, t, 0), SetSlice(s, t, n)}, rnd \in Rnd :
          \/ s' = AddHere(q, t, {}, rnd)
          \/ \E woken \in BOOLEAN : s' = AddRemote(q, t, {}, rnd, woken)
    BY <1>3, <2>1 DEF SchedWakeup, SchedFork, SetSlice
  <2>3. PICK q \in {SetSlice(s, t, 0), SetSlice(s, t, n)}, rnd \in Rnd :
          \/ s' = AddHere(q, t, {}, rnd)
          \/ \E woken \in BOOLEAN : s' = AddRemote(q, t, {}, rnd, woken)
    BY <2>2
  <2>4. PICK m \in Int : q = SetSlice(s, t, m)
    BY <2>3
  <2>5. Base(q)
    BY <1>1, <2>4, SetSliceOK
  <2>6. /\ q.state = s.state /\ q.runq = s.runq /\ q.rqindex = s.rqindex
        /\ q.idx = s.idx /\ q.ridx = s.ridx
    BY <1>1, <2>4 DEF SetSlice, CpuState
  <2>7. OnlyJoin(q, s', q.ridx, {})
    BY <1>1, <1>2, <2>3, <2>5, <2>6, ArriveJoins
  <2> QED
    BY <2>6, <2>7 DEF OnlyJoin, Waits
<1>4. CASE BalanceIn(t)
  <2>1. PICK rnd \in Rnd :
          \/ s' = tdq_add(s, t, {"YIELDING"}, rnd)
          \/ \E woken \in BOOLEAN : s' = AddRemote(s, t, {"YIELDING"}, rnd, woken)
    BY <1>4 DEF BalanceIn
  <2> QED
    BY <1>1, <1>2, <2>1, ArriveJoins
<1>5. CASE StealByIdle(t)
  <2>1. PICK rnd \in Rnd :
          \E q \in {tdq_add(s, t, {"YIELDING"}, rnd)} : SwitchRunnable(q, FALSE)
    BY <1>5 DEF StealByIdle
  <2>2. PICK q : q = tdq_add(s, t, {"YIELDING"}, rnd) /\ SwitchRunnable(q, FALSE)
    BY <2>1
  <2>3. /\ q = tdq_add(s, t, {"YIELDING"}, rnd)
        /\ s.state[t] # "runq" /\ s.state[t] # "running" /\ "runq" \in {"off", "runq"}
        /\ s.leaving = "no" /\ s.cur = IdleThread
    BY <1>1, <1>5, <2>2 DEF StealByIdle, Here
  <2>4. /\ Base(q) /\ q.state = [s.state EXCEPT ![t] = "runq"]
        /\ q.cur = s.cur /\ q.leaving = s.leaving
    BY <1>1, <2>3, AddOK
  <2>5. OnlyCurRuns(q)
    BY <1>1, <2>3, <2>4, Moved
  <2>6. OnlyJoin(s, q, s.ridx, {})
    BY <1>1, <1>2, <2>3, ArriveJoins
  <2>7. q.idx = s.idx /\ q.ridx = s.ridx
    <3>1. PICK q0 : /\ q = tdq_load_add(tdq_runq_add(q0, t, {"YIELDING"}, rnd), t)
                    /\ q0 = [s EXCEPT !.lowpri = IF s.prio[t] < @ THEN s.prio[t] ELSE @]
      BY <2>3 DEF tdq_add
    <3>2. q0 \in CpuState /\ q0.idx = s.idx /\ q0.ridx = s.ridx
      BY <1>1, <3>1, PrioOK DEF CpuState
    <3>3. PICK q2 : q2 = tdq_runq_add(q0, t, {"YIELDING"}, rnd)
      OBVIOUS
    <3>4. q2.idx = s.idx /\ q2.ridx = s.ridx /\ q2 = tdq_runq_add(q0, t, {"YIELDING"}, rnd)
      <4>1. Added(q0, t, {"YIELDING"}, rnd, q2)
        BY <3>2, <3>3, RunqAddFields
      <4> QED
        BY <4>1, <3>2, <3>3 DEF Added
    <3>5. \E m : q = [q2 EXCEPT !.load = @ + 1, !.sysload = m]
      BY <3>1, <3>3 DEF tdq_load_add
    <3>6. DOMAIN q2 = DOMAIN q0
      BY <3>3 DEF tdq_runq_add
    <3> QED
      BY <3>2, <3>4, <3>5, <3>6 DEF CpuState
  <2>8. OnlyJoin(q, s', q.ridx, IF q.sliceend THEN {} ELSE {q.cur})
    BY <2>2, <2>3, <2>4, <2>5, <2>7, SwitchRunnableDrains
  <2>9. q.cur \notin Thread
    BY <2>3, <2>4, TdqAssumption
  <2> QED
    BY <2>6, <2>7, <2>8, <2>9 DEF OnlyJoin
<1> QED
  BY <1>3, <1>4, <1>5

\* A priority that gets worse, or that of a thread not queued, moves nothing; one
\* that gets better may take the thread to the draining queue.
LEMMA SetPriorityDrains ==
  ASSUME Inv, CountInv, NEW t \in Thread, NEW p \in Prio, SetPriority(t, p)
  PROVE  Drains
<1>1. Base(s) /\ s \in CpuState /\ Tallied(s) /\ Loaded(s) /\ Covers(s) /\ OnlyCurRuns(s)
  BY DEF Inv, Base, CountInv
<1>2. CASE MustRequeue(t, p)
  <2>1. s.state[t] = "runq" /\ p < s.prio[t]
    BY <1>2 DEF MustRequeue
  <2>2. PICK q2 : q2 = sched_rem(s, t)
    OBVIOUS
  <2>3. /\ Base(q2) /\ q2.state = [s.state EXCEPT ![t] = "off"] /\ q2 \in CpuState
        /\ q2.cur = s.cur /\ q2.leaving = s.leaving
    BY <1>1, <2>1, <2>2, SchedRemOK DEF Base
  <2>4. Tallied(q2) /\ Loaded(q2) /\ Covers(q2) /\ q2.prio = s.prio
    BY <1>1, <2>1, <2>2, SchedRemTally
  <2>5. OnlyJoin(s, q2, s.ridx, {})
    BY <1>1, <2>1, <2>2, SchedRemJoins
  <2>6. PICK qr : qr = SetPrio(q2, t, p)
    OBVIOUS
  <2>7. q2.state[t] = "off" /\ q2.state[t] # "runq"
    BY <1>1, <2>3 DEF CpuState
  <2>8. /\ Base(qr) /\ qr.state = q2.state /\ qr.runq = q2.runq /\ qr.rqindex = q2.rqindex
        /\ qr.prio = [s.prio EXCEPT ![t] = p]
    BY <2>3, <2>4, <2>6, SetPrioOK DEF CpuState, SetPrio
  <2>9. s.leaving = "no" => s.cur # t
    BY <1>1, <2>1 DEF OnlyCurRuns
  <2>10. Tallied(qr) /\ Loaded(qr) /\ Covers(qr)
    <3>1. /\ Tallied(qr) /\ Loaded(qr) /\ qr.leaving = q2.leaving
          /\ Covers(q2) /\ q2.cur # t => Covers(qr)
      <4>1. q2.state[t] = "runq" => p >= q2.prio[t]
        BY <2>7
      <4>2. Tallied(qr)
        BY <2>3, <2>4, <2>6, <4>1, SetPrioTally
      <4>3. Loaded(qr)
        BY <2>3, <2>4, <2>6, <4>1, SetPrioTally
      <4>4. qr.leaving = q2.leaving
        BY <2>3, <2>6, SetPrioOK
      <4>5. Covers(q2) /\ q2.cur # t => Covers(qr)
        BY <2>3, <2>4, <2>6, <4>1, SetPrioTally
      <4> QED
        BY <4>2, <4>3, <4>4, <4>5
    <3> QED
      BY <2>3, <2>4, <2>9, <3>1 DEF Covers
  <2>11. \/ \E rnd \in Rnd :
              \/ s' = AddHere(qr, t, {"BORROWING"}, rnd)
              \/ \E woken \in BOOLEAN : s' = AddRemote(qr, t, {"BORROWING"}, rnd, woken)
         \/ s' = qr
    BY <1>2, <2>2, <2>6 DEF SetPriority, SetPrio
  <2>12. s.ridx \in Index /\ qr.state[t] = "off"
    BY <1>1, <2>7, <2>8 DEF CpuState
  <2>13. OnlyJoin(qr, s', s.ridx, {t}) /\ s'.prio = qr.prio
    <3>1. CASE s' = qr
      BY <3>1 DEF OnlyJoin
    <3>2. CASE s' # qr
      BY <2>8, <2>10, <2>11, <2>12, <3>2, ArriveJoins, ArriveTally
    <3> QED
      BY <3>1, <3>2
  <2>14. s'.prio[t] = p
    BY <1>1, <2>8, <2>13 DEF CpuState
  <2> QED
    BY <2>1, <2>5, <2>8, <2>13, <2>14 DEF Drains, OnlyJoin, Waits
<1>3. CASE ~ MustRequeue(t, p)
  <2>1. s'.state = s.state /\ s'.runq = s.runq /\ s'.rqindex = s.rqindex
    <3>1. PICK q1 : q1 = [s EXCEPT !.prio[t] = p]
      OBVIOUS
    <3>2. s' = q1 \/ \E x : s' = [q1 EXCEPT !.lowpri = x]
      BY <1>3, <3>1 DEF SetPriority, tdq_setlowpri
    <3>3. /\ q1.state = s.state /\ q1.runq = s.runq /\ q1.rqindex = s.rqindex
          /\ q1 \in CpuState
      BY <1>1, <3>1 DEF CpuState
    <3> QED
      BY <3>2, <3>3 DEF CpuState
  <2> QED
    BY <2>1 DEF Drains, Waits
<1> QED
  BY <1>2, <1>3

\* A thread sent here joins the draining queue only if it was preempted there or
\* has been given a better priority.
LEMMA SentDrains ==
  ASSUME Inv, CountInv, NEW t \in Thread,
         PreemptedElsewhere(t) \/ MigrateIn(t) \/ YieldIn(t) \/ RequeuedIn(t)
  PROVE  Drains
<1>1. /\ Base(s) /\ OnlyCurRuns(s) /\ s \in CpuState
      /\ Tallied(s) /\ Loaded(s) /\ Covers(s)
  BY DEF Inv, Base, CountInv
<1>2. s.state[t] \in {"off", "inbound"} /\ s.state[t] # "runq" /\ s.ridx \in Index
  BY <1>1 DEF PreemptedElsewhere, MigrateIn, YieldIn, RequeuedIn, Off, CpuState
<1>3. CASE PreemptedElsewhere(t)
  <2>1. s' = [s EXCEPT !.state[t] = "inbound"]
    BY <1>3 DEF PreemptedElsewhere
  <2>2. /\ s'.runq = s.runq /\ s'.rqindex = s.rqindex
        /\ s'.state = [s.state EXCEPT ![t] = "inbound"] /\ DOMAIN s.state = Thread
    BY <1>1, <2>1 DEF CpuState
  <2> QED
    BY <2>2 DEF Drains, Waits
<1>4. CASE MigrateIn(t)
  <2>1. PICK rnd \in Rnd :
          \E woken \in BOOLEAN :
            s' = AddRemote(s, t, {"OURSELF", "YIELDING", "PREEMPTED"}, rnd, woken)
    BY <1>4 DEF MigrateIn
  <2>2. OnlyJoin(s, s', s.ridx, {t})
    BY <1>1, <1>2, <2>1, ArriveJoins
  <2> QED
    BY <1>4, <2>2 DEF Drains, OnlyJoin, MigrateIn
<1>5. CASE YieldIn(t)
  <2>1. PICK b \in BOOLEAN, rnd \in Rnd, woken \in BOOLEAN :
          s' = AddRemote(SetPinned(s, t, b), t, {"OURSELF", "YIELDING"}, rnd, woken)
    BY <1>5 DEF YieldIn, SetPinned
  <2>2. PICK q : q = SetPinned(s, t, b)
    OBVIOUS
  <2>3. Base(q) /\ q.state[t] \in {"off", "inbound"}
    BY <1>1, <1>2, <2>2, SetPinnedOK
  <2>4. /\ q.state = s.state /\ q.runq = s.runq /\ q.rqindex = s.rqindex
        /\ q.idx = s.idx /\ q.ridx = s.ridx
    BY <1>1, <2>2 DEF SetPinned, CpuState
  <2>5. PICK f : /\ s' = AddRemote(q, t, f, rnd, woken)
                 /\ f \cap {"BORROWING", "PREEMPTED"} = {}
    BY <2>1, <2>2
  <2>6. q.idx # q.ridx => OnlyJoin(q, s', q.ridx, {})
    BY <2>3, <2>5, ArriveJoins
  <2> QED
    BY <2>4, <2>6 DEF Drains, OnlyJoin, Waits
<1>6. CASE RequeuedIn(t)
  <2>1. PICK p \in Prio, flags \in {{}, {"BORROWING"}}, rnd \in Rnd :
          /\ IF flags = {} THEN p = s.prio[t] ELSE p < s.prio[t]
          /\ \/ s' = AddHere(SetPrio(s, t, p), t, flags, rnd)
             \/ \E woken \in BOOLEAN :
                  s' = AddRemote(SetPrio(s, t, p), t, flags, rnd, woken)
    BY <1>6 DEF RequeuedIn, SetPrio
  <2>2. PICK q : q = SetPrio(s, t, p)
    OBVIOUS
  <2>3. s.cur # t /\ (s.state[t] = "runq" => p >= s.prio[t])
    BY <1>2, <1>6 DEF RequeuedIn, Off
  <2>4. Base(q) /\ q.state[t] \in {"off", "inbound"}
    BY <1>1, <1>2, <2>2, SetPrioOK
  <2>5. Tallied(q) /\ Loaded(q) /\ (Covers(s) /\ s.cur # t => Covers(q))
    BY <1>1, <2>2, <2>3, SetPrioTally
  <2>6. /\ q.state = s.state /\ q.runq = s.runq /\ q.rqindex = s.rqindex
        /\ q.idx = s.idx /\ q.ridx = s.ridx /\ q.prio = [s.prio EXCEPT ![t] = p]
        /\ DOMAIN s.prio = Thread
    BY <1>1, <2>2 DEF SetPrio, CpuState
  <2>7. PICK f : /\ f = flags
                 /\ \/ s' = AddHere(q, t, f, rnd)
                    \/ \E woken \in BOOLEAN : s' = AddRemote(q, t, f, rnd, woken)
    BY <2>1, <2>2
  <2>11. q.ridx \in Index
    BY <1>2, <2>6
  <2>12. \/ s' = AddHere(q, t, f, rnd)
         \/ \E woken \in BOOLEAN : s' = AddRemote(q, t, f, rnd, woken)
    BY <2>7
  <2>8. /\ OnlyJoin(q, s', q.ridx, {t})
        /\ f \cap {"BORROWING", "PREEMPTED"} = {} /\ q.idx # q.ridx
             => OnlyJoin(q, s', q.ridx, {})
    <3>1. OnlyJoin(q, s', q.ridx, {t})
      BY <2>4, <2>11, <2>12, ArriveJoins
    <3>2. f \cap {"BORROWING", "PREEMPTED"} = {} /\ q.idx # q.ridx
             => OnlyJoin(q, s', q.ridx, {})
      BY <2>4, <2>12, ArriveJoins
    <3> QED
      BY <3>1, <3>2
  <2>9. CASE flags = {}
    BY <2>6, <2>7, <2>8, <2>9 DEF Drains, OnlyJoin, Waits
  <2>10. CASE flags # {}
    <3>1. s'.prio = q.prio
      BY <1>1, <2>3, <2>4, <2>5, <2>7, ArriveTally
    <3>2. s'.prio[t] < s.prio[t]
      BY <2>1, <2>6, <2>10, <3>1
    <3> QED
      BY <2>6, <2>8, <3>2 DEF Drains, OnlyJoin, Waits
  <2> QED
    BY <2>9, <2>10
<1> QED
  BY <1>3, <1>4, <1>5, <1>6

\* Nor does sched_affinity put a thread there.
LEMMA SchedAffinityDrains ==
  ASSUME Inv, NEW t \in Thread, SchedAffinity(t)
  PROVE  Drains
<1>1. Base(s) /\ s \in CpuState
  BY DEF Inv, Base
<1>2. ASSUME NEW b \in BOOLEAN, s' = Asked(s, b)
      PROVE  Drains
  BY <1>1, <1>2, AskedSame DEF Drains, Waits
<1>3. CASE s.state[t] = "runq"
  <2>1. PICK q : q = sched_rem(s, t)
    OBVIOUS
  <2>2. Base(q) /\ q.state = [s.state EXCEPT ![t] = "off"]
    BY <1>1, <1>3, <2>1, SchedRemOK
  <2>3. q.state[t] \in {"off", "inbound"} /\ s.ridx \in Index
    BY <1>1, <2>2 DEF CpuState
  <2>4. OnlyJoin(s, q, s.ridx, {})
    BY <1>1, <1>3, <2>1, SchedRemJoins
  <2>5. CASE s' = q
    BY <2>4, <2>5 DEF Drains, OnlyJoin
  <2>6. q.idx = s.idx /\ (q.ridx = s.ridx \/ Waits(s, t, s.ridx))
    BY <1>1, <1>3, <2>1, SchedRemIndices
  <2>7. ASSUME NEW rnd \in Rnd,
               \/ s' = AddHere(q, t, {}, rnd)
               \/ \E woken \in BOOLEAN : s' = AddRemote(q, t, {}, rnd, woken)
        PROVE  Drains
    <3> DEFINE none == {}
    <3>1. /\ OnlyJoin(q, s', s.ridx, {t})
          /\ none \cap {"BORROWING", "PREEMPTED"} = {} /\ q.idx # q.ridx
               => OnlyJoin(q, s', q.ridx, {})
      <4>1. PICK f : f = {}
        OBVIOUS
      <4>2. \/ s' = AddHere(q, t, f, rnd)
            \/ \E woken \in BOOLEAN : s' = AddRemote(q, t, f, rnd, woken)
        BY <2>7, <4>1
      <4>3. f \cap {"BORROWING", "PREEMPTED"} = {} /\ q.idx # q.ridx
               => OnlyJoin(q, s', q.ridx, {})
        BY <2>2, <2>3, <4>2, ArriveJoins
      <4>4. OnlyJoin(q, s', s.ridx, {t})
        BY <2>2, <2>3, <4>2, ArriveJoins
      <4> QED
        BY <4>1, <4>3, <4>4
    <3>2. CASE Waits(s, t, s.ridx)
      BY <2>4, <3>1, <3>2 DEF Drains, OnlyJoin
    <3>3. CASE q.ridx = s.ridx
      BY <2>4, <2>6, <3>1, <3>3 DEF Drains, OnlyJoin
    <3> QED
      BY <2>6, <3>2, <3>3
  <2> QED
    BY <1>2, <2>1, <2>5, <2>7, AffinityCases
<1> QED
  BY <1>2, <1>3, AffinityCases

\* Every step, through any handler.
LEMMA NextDrains == Inv /\ CountInv /\ Next => Drains
<1> SUFFICES ASSUME Inv, CountInv, Next
    PROVE  Drains
  OBVIOUS
<1>1. Base(s) /\ s \in CpuState
  BY DEF Inv, Base
<1>2. CASE Ast \/ CriticalExit \/ SchedRelinquish \/ IdleSwitch \/ SchedPreempt
  BY <1>2, SwitchDrains
<1>3. CASE SwitchSleep \/ SchedThrow \/ SchedMigrate
  BY <1>3, LeaveDrains
<1>4. CASE SwitchFinish \/ \E t \in Thread : SwitchFinishStolen(t)
  BY <1>4, FinishDrains
<1>5. CASE SchedBind \/ SchedUnbind
  <2>1. s'.state = s.state /\ s'.runq = s.runq /\ s'.rqindex = s.rqindex
    BY <1>1, <1>5 DEF SchedBind, SchedUnbind, CpuState
  <2> QED
    BY <2>1 DEF Drains, Waits
<1>6. CASE SchedClock
  <2>1. PICK q : q = Rotate(s)
    OBVIOUS
  <2>2. q.state = s.state /\ q.runq = s.runq /\ q.rqindex = s.rqindex /\ DOMAIN q = DOMAIN s
    BY <1>1, <2>1 DEF Rotate, CpuState
  <2>3. s'.state = q.state /\ s'.runq = q.runq /\ s'.rqindex = q.rqindex
    BY <1>1, <1>6, <2>1, <2>2 DEF SchedClock, CpuState
  <2> QED
    BY <2>2, <2>3 DEF Drains, Waits
<1>7. CASE StolenAway
  <2>1. PICK t : t = tdq_steal(s) /\ t # NoThread /\ s' = sched_rem(s, t)
    BY <1>7 DEF StolenAway
  <2>2. t \in Thread /\ s.state[t] = "runq"
    BY <1>1, <2>1, StealOK
  <2>3. OnlyJoin(s, s', s.ridx, {})
    BY <1>1, <2>1, <2>2, SchedRemJoins
  <2> QED
    BY <2>3 DEF Drains, OnlyJoin
<1>8. ASSUME NEW t \in Thread,
             SchedWakeup(t) \/ SchedFork(t) \/ BalanceIn(t) \/ StealByIdle(t)
      PROVE  Drains
  BY <1>8, ArriveDrains
<1>9. ASSUME NEW t \in Thread, NEW p \in Prio, SetPriority(t, p)
      PROVE  Drains
  BY <1>9, SetPriorityDrains
<1>10. ASSUME NEW p \in Prio, SchedUserret(p)
       PROVE  Drains
  <2>1. PICK q : q = [s EXCEPT !.prio[s.cur] = p]
    OBVIOUS
  <2>2. /\ q.state = s.state /\ q.runq = s.runq /\ q.rqindex = s.rqindex
        /\ DOMAIN q = DOMAIN s
    BY <1>1, <2>1 DEF CpuState
  <2>3. \E x : s' = [q EXCEPT !.lowpri = x]
    BY <1>10, <2>1 DEF SchedUserret, tdq_setlowpri
  <2>4. s'.state = q.state /\ s'.runq = q.runq /\ s'.rqindex = q.rqindex
    BY <1>1, <2>2, <2>3 DEF CpuState
  <2> QED
    BY <2>2, <2>4 DEF Drains, Waits
<1>11. ASSUME NEW t \in Thread,
              PreemptedElsewhere(t) \/ MigrateIn(t) \/ YieldIn(t) \/ RequeuedIn(t)
       PROVE  Drains
  BY <1>11, SentDrains
<1>12. ASSUME NEW t \in Thread, SchedAffinity(t)
       PROVE  Drains
  BY <1>12, SchedAffinityDrains
<1> QED
  BY <1>2, <1>3, <1>4, <1>5, <1>6, <1>7, <1>8, <1>9, <1>10, <1>11, <1>12 DEF Next

\* While the queue at ridx drains, it gains only a thread that was preempted
\* before its slice ended, on this processor or on the one that sends it here,
\* or one that is made more important; every other insertion, of whatever
\* priority and draw, goes somewhere else in the ring.
THEOREM DrainingCorrect == Spec => DrainingQueueShrinks
<1>1. ASSUME Inv, CountInv, Inv', [Next]_vars
      PROVE  [s.idx # s.ridx /\ s'.ridx = s.ridx =>
                LET q  == ToSet(s.rq["timeshare"].rq_queues[s.ridx])
                    q1 == ToSet(s'.rq["timeshare"].rq_queues[s.ridx])
                IN  \A t \in q1 \ q : \/ s.cur = t /\ ~ s.sliceend
                                     \/ s.state[t] = "inbound"
                                     \/ s'.prio[t] < s.prio[t]]_vars
  <2> SUFFICES ASSUME Next, s.idx # s.ridx,
                      NEW t \in ToSet(s'.rq["timeshare"].rq_queues[s.ridx]),
                      t \notin ToSet(s.rq["timeshare"].rq_queues[s.ridx])
      PROVE  \/ s.cur = t /\ ~ s.sliceend
             \/ s.state[t] = "inbound"
             \/ s'.prio[t] < s.prio[t]
    BY <1>1 DEF vars
  <2>1. Drains
    BY <1>1, NextDrains
  <2>2. "timeshare" \in Class /\ s.ridx \in Index /\ s' \in CpuState
    BY <1>1 DEF Class, Inv, Base, CpuState
  <2>3. t \in Thread
    <3>1. s'.rq["timeshare"].rq_queues[s.ridx] \in Seq(Thread)
      BY <2>2 DEF CpuState, RunQ
    <3> QED
      BY <3>1, LenProperties, ElementOfSeq DEF ToSet
  <2>4. Waits(s', t, s.ridx) /\ ~ Waits(s, t, s.ridx)
    BY <1>1, <2>2, <2>3 DEF Inv, Base, QueuesOK, Waits
  <2> QED
    BY <2>1, <2>3, <2>4 DEF Drains
<1> QED
  BY <1>1, Invariance, CountInvariance, PTL DEF Spec, DrainingQueueShrinks
=============================================================================
