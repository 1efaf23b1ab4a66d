--------------------------- MODULE SequenceLemmas ---------------------------
(***************************************************************************)
(* Facts about numbers and sequences that the proofs of several components *)
(* need and the library does not state.                                    *)
(***************************************************************************)
EXTENDS Integers, Sequences, SequenceTheorems, WellFoundedInduction, TLAPS

\* A set of numbers that is not empty has a least one.
LEMMA Least ==
    ASSUME NEW T, T \subseteq Nat, T # {}
    PROVE  \E x \in T : \A y \in T : x <= y
<1>. DEFINE R == OpToRel(<, Nat)
<1>1. \E x \in T : \A y \in T : ~(<<y, x>> \in R)
  BY NatLessThanWellFounded, WFMin, Zenon
<1>2. \A x \in Nat : \A y \in Nat : <<y, x>> \notin R => x <= y
  <2>1. \A x \in Nat : \A y \in Nat : <<y, x>> \notin R => ~(y < x)
    BY DEF OpToRel
  <2>. HIDE DEF R
  <2>2. QED
    BY <2>1
<1>. HIDE DEF R
<1>3. PICK x \in T : \A y \in T : <<y, x>> \notin R
  BY <1>1, Zenon
<1>4. \A y \in T : x <= y
  BY <1>2, <1>3, Zenon
<1>5. QED
  BY <1>4

\* A sequence is one over any set that has its elements.
LEMMA SeqElements ==
    ASSUME NEW S, NEW T, NEW s \in Seq(S), \A i \in 1..Len(s) : s[i] \in T
    PROVE  s \in Seq(T)
OBVIOUS

\* A sequence of one element.
LEMMA OneElement ==
    ASSUME NEW S, NEW s \in Seq(S), Len(s) = 1
    PROVE  s[1] \in S /\ s = <<s[1]>>
<1>1. s[1] \in S
  OBVIOUS
<1>2. \A x \in S : <<x>> \in Seq(S) /\ Len(<<x>>) = 1 /\ <<x>>[1] = x
  OBVIOUS
<1>3. \A t \in Seq(S) : Len(t) = 1 /\ t[1] = s[1] => s = t
  BY SeqEqual
<1>4. QED
  BY <1>1, <1>2, <1>3

\* A part of a sequence holds what the sequence holds.
LEMMA PartOfSeq ==
    ASSUME NEW S, NEW s \in Seq(S), NEW m \in Nat \ {0}, NEW n \in Int, n <= Len(s)
    PROVE  SubSeq(s, m, n) \in Seq(S)
<1>1. Len(s) \in Nat
  BY LenProperties
<1>2. \A i \in m..n : s[i] \in S
  BY <1>1, ElementOfSeq
<1>3. m \in Int
  OBVIOUS
<1>4. QED
  BY <1>2, <1>3, SubSeqProperties

\* An element in front of a sequence.
LEMMA PushProperties ==
    ASSUME NEW S, NEW s \in Seq(S), NEW f \in S
    PROVE  /\ <<f>> \o s \in Seq(S)
           /\ Len(s) \in Nat
           /\ Len(<<f>> \o s) = Len(s) + 1
           /\ (<<f>> \o s)[1] = f
           /\ \A i \in 2..(Len(s) + 1) : (<<f>> \o s)[i] = s[i - 1]
<1>1. <<f>> \in Seq(S) /\ Len(<<f>>) = 1 /\ <<f>>[1] = f
  OBVIOUS
<1>2. Len(s) \in Nat
  BY LenProperties
<1>3. /\ <<f>> \o s \in Seq(S)
      /\ Len(<<f>> \o s) = Len(<<f>>) + Len(s)
      /\ \A i \in 1..Len(<<f>>) + Len(s) :
           (<<f>> \o s)[i] = IF i <= Len(<<f>>) THEN <<f>>[i]
                             ELSE s[i - Len(<<f>>)]
  BY <1>1, ConcatProperties
<1>. DEFINE one == <<f>>
            both == one \o s
<1>4. QED
  <2>1. /\ one[1] = f /\ Len(one) = 1 /\ both \in Seq(S)
        /\ Len(both) = Len(one) + Len(s)
        /\ \A i \in 1..Len(one) + Len(s) :
             both[i] = IF i <= Len(one) THEN one[i] ELSE s[i - Len(one)]
    BY <1>1, <1>3
  <2>2. SUFFICES /\ both \in Seq(S) /\ Len(s) \in Nat /\ Len(both) = Len(s) + 1
                 /\ both[1] = f
                 /\ \A i \in 2..(Len(s) + 1) : both[i] = s[i - 1]
    OBVIOUS
  <2>. HIDE DEF one, both
  <2>3. QED
    BY <1>2, <2>1

\* What is behind the first element.
LEMMA PopProperties ==
    ASSUME NEW S, NEW s \in Seq(S), s # <<>>
    PROVE  /\ Head(s) \in S /\ Tail(s) \in Seq(S)
           /\ Len(s) \in Nat \ {0}
           /\ Len(Tail(s)) = Len(s) - 1
           /\ Head(s) = s[1]
           /\ \A i \in 1..Len(Tail(s)) : Tail(s)[i] = s[i + 1]
<1>1. Len(s) \in Nat \ {0}
  BY EmptySeq
<1>2. Head(s) = s[1]
  OBVIOUS
<1>3. QED
  BY <1>1, <1>2, HeadTailProperties
------------------------------------------------------------------------------
(* Concatenation                                                           *)

LEMMA ConcatEmpty ==
    ASSUME NEW S, NEW s \in Seq(S)
    PROVE  <<>> \o s = s /\ s \o <<>> = s
<1>. DEFINE none == <<>>
<1>1. none \in Seq(S) /\ Len(none) = 0 /\ Len(s) \in Nat
  BY LenProperties
<1>. HIDE DEF none
<1>2. /\ none \o s \in Seq(S) /\ Len(none \o s) = Len(none) + Len(s)
      /\ \A i \in 1..Len(none) + Len(s) :
           (none \o s)[i] = IF i <= Len(none) THEN none[i] ELSE s[i - Len(none)]
  BY <1>1, ConcatProperties
<1>3. /\ s \o none \in Seq(S) /\ Len(s \o none) = Len(s) + Len(none)
      /\ \A i \in 1..Len(s) + Len(none) :
           (s \o none)[i] = IF i <= Len(s) THEN s[i] ELSE none[i - Len(s)]
  BY <1>1, ConcatProperties
<1>4. none \o s = s
  <2>. DEFINE t == none \o s
  <2>1. t \in Seq(S) /\ Len(t) = Len(s) /\ \A i \in 1..Len(t) : t[i] = s[i]
    <3>1. t \in Seq(S) /\ Len(t) = Len(s)
      BY <1>1, <1>2
    <3>2. \A i \in 1..Len(s) : ~(i <= 0) /\ i - 0 = i /\ i \in 1..0 + Len(s)
      BY <1>1
    <3>3. QED
      BY <1>1, <1>2, <3>1, <3>2
  <2>. HIDE DEF t
  <2>2. t = s
    BY <2>1, SeqEqual
  <2>3. QED
    BY <2>2 DEF t
<1>5. s \o none = s
  <2>. DEFINE t == s \o none
  <2>1. t \in Seq(S) /\ Len(t) = Len(s) /\ \A i \in 1..Len(t) : t[i] = s[i]
    BY <1>1, <1>3
  <2>. HIDE DEF t
  <2>2. t = s
    BY <2>1, SeqEqual
  <2>3. QED
    BY <2>2 DEF t
<1>6. QED
  BY <1>4, <1>5 DEF none

\* The elements of a concatenation of sequences of lengths m and n.
Joined(u, s, t, m, n) ==
    /\ Len(u) = m + n
    /\ \A i \in 1..m : u[i] = s[i]
    /\ \A i \in (m + 1)..(m + n) : u[i] = t[i - m]

LEMMA ConcatAt ==
    ASSUME NEW S, NEW s \in Seq(S), NEW t \in Seq(S)
    PROVE  s \o t \in Seq(S) /\ Joined(s \o t, s, t, Len(s), Len(t))
<1>. DEFINE u == s \o t
<1>1. PICK m, n : m = Len(s) /\ n = Len(t)
  OBVIOUS
<1>2. m \in Nat /\ n \in Nat
  BY <1>1, LenProperties
<1>3. /\ u \in Seq(S) /\ Len(u) = m + n
      /\ \A i \in 1..m + n : u[i] = IF i <= m THEN s[i] ELSE t[i - m]
  BY <1>1, ConcatProperties
<1>4. /\ \A i \in 1..m : i \in 1..m + n /\ i <= m
      /\ \A i \in (m + 1)..(m + n) : i \in 1..m + n /\ ~(i <= m)
  BY <1>2
<1>. HIDE DEF u
<1>5. Joined(u, s, t, m, n)
  BY <1>2, <1>3, <1>4 DEF Joined
<1>6. QED
  BY <1>1, <1>3, <1>5 DEF u

LEMMA ConcatAssoc ==
    ASSUME NEW S, NEW a \in Seq(S), NEW b \in Seq(S), NEW c \in Seq(S)
    PROVE  (a \o b) \o c = a \o (b \o c)
<1>. DEFINE ab == a \o b
            bc == b \o c
            l == ab \o c
            r == a \o bc
<1>1. PICK i, j, k : i = Len(a) /\ j = Len(b) /\ k = Len(c)
  OBVIOUS
<1>2. /\ i \in Nat /\ j \in Nat /\ k \in Nat
      /\ ab \in Seq(S) /\ Joined(ab, a, b, i, j)
      /\ bc \in Seq(S) /\ Joined(bc, b, c, j, k)
  BY <1>1, ConcatAt, LenProperties
<1>. HIDE DEF ab, bc
<1>3. PICK p, q : p = i + j /\ q = j + k
  OBVIOUS
<1>4. /\ l \in Seq(S) /\ Joined(l, ab, c, p, k)
      /\ r \in Seq(S) /\ Joined(r, a, bc, i, q)
  <2>1. Len(ab) = p /\ Len(bc) = q
    BY <1>2, <1>3 DEF Joined
  <2>2. l \in Seq(S) /\ Joined(l, ab, c, Len(ab), Len(c))
    BY <1>2, ConcatAt
  <2>3. r \in Seq(S) /\ Joined(r, a, bc, Len(a), Len(bc))
    BY <1>2, ConcatAt
  <2>4. QED
    BY <1>1, <2>1, <2>2, <2>3
<1>. HIDE DEF l, r
<1>5. Len(l) = p + k /\ Len(l) = Len(r)
  BY <1>2, <1>3, <1>4 DEF Joined
<1>6. ASSUME NEW n \in 1..Len(l)
      PROVE  l[n] = r[n]
  <2>1. CASE n <= i
    <3>1. n \in 1..i /\ n \in 1..p
      BY <1>2, <1>3, <1>5, <2>1
    <3>2. l[n] = ab[n] /\ ab[n] = a[n] /\ r[n] = a[n]
      BY <1>2, <1>4, <3>1 DEF Joined
    <3>3. QED
      BY <3>2
  <2>2. CASE i < n /\ n <= p
    <3>1. /\ n \in 1..p /\ n \in (i + 1)..(i + j) /\ n \in (i + 1)..(i + q)
          /\ n - i \in 1..j
      BY <1>2, <1>3, <1>5, <2>2
    <3>2. /\ l[n] = ab[n] /\ ab[n] = b[n - i]
          /\ r[n] = bc[n - i] /\ bc[n - i] = b[n - i]
      BY <1>2, <1>4, <3>1 DEF Joined
    <3>3. QED
      BY <3>2
  <2>3. CASE p < n
    <3>1. /\ n \in (p + 1)..(p + k) /\ n \in (i + 1)..(i + q)
          /\ n - i \in (j + 1)..(j + k) /\ (n - i) - j = n - p
      BY <1>2, <1>3, <1>5, <2>3
    <3>2. /\ l[n] = c[n - p] /\ r[n] = bc[n - i]
          /\ bc[n - i] = c[(n - i) - j]
      BY <1>2, <1>4, <3>1 DEF Joined
    <3>3. QED
      BY <3>1, <3>2
  <2>4. n \in Nat /\ i \in Nat /\ p \in Nat
    BY <1>2, <1>3, <1>5
  <2>5. QED
    BY <2>1, <2>2, <2>3, <2>4
<1>7. l = r
  BY <1>4, <1>5, <1>6, SeqEqual
<1>8. QED
  BY <1>7 DEF l, r, ab, bc

\* A sequence cut in two.
LEMMA CutInTwo ==
    ASSUME NEW S, NEW s \in Seq(S), NEW n \in 0..Len(s)
    PROVE  /\ SubSeq(s, 1, n) \in Seq(S) /\ SubSeq(s, n + 1, Len(s)) \in Seq(S)
           /\ SubSeq(s, 1, n) \o SubSeq(s, n + 1, Len(s)) = s
<1>. DEFINE a == SubSeq(s, 1, n)
            b == SubSeq(s, n + 1, Len(s))
            t == a \o b
<1>1. PICK l \in Nat : l = Len(s)
  BY LenProperties
<1>2. n \in Nat /\ n <= l
  BY <1>1
<1>3. /\ a \in Seq(S) /\ Len(a) = n
      /\ \A i \in 1..n : a[i] = s[i]
  <2>1. \A i \in 1..n : s[i] \in S
    BY <1>1, <1>2, ElementOfSeq
  <2>2. /\ a \in Seq(S) /\ Len(a) = IF 1 <= n THEN n - 1 + 1 ELSE 0
        /\ \A i \in 1..(n - 1 + 1) : a[i] = s[1 + i - 1]
    BY <1>2, <2>1, SubSeqProperties
  <2>3. (IF 1 <= n THEN n - 1 + 1 ELSE 0) = n /\ n - 1 + 1 = n
        /\ \A i \in 1..n : 1 + i - 1 = i
    BY <1>2
  <2>. HIDE DEF a
  <2>4. QED
    BY <2>2, <2>3
<1>4. /\ b \in Seq(S) /\ Len(b) = l - n
      /\ \A i \in 1..(l - n) : b[i] = s[n + i]
  <2>. DEFINE m == n + 1
  <2>1. m \in Nat /\ l \in Int
    BY <1>2
  <2>2. \A i \in m..l : s[i] \in S
    BY <1>1, <1>2, ElementOfSeq
  <2>. HIDE DEF m
  <2>3. /\ SubSeq(s, m, l) \in Seq(S)
        /\ Len(SubSeq(s, m, l)) = IF m <= l THEN l - m + 1 ELSE 0
        /\ \A i \in 1..(l - m + 1) : SubSeq(s, m, l)[i] = s[m + i - 1]
    BY <2>1, <2>2, SubSeqProperties
  <2>4. /\ (IF m <= l THEN l - m + 1 ELSE 0) = l - n /\ l - m + 1 = l - n
        /\ \A i \in 1..(l - n) : m + i - 1 = n + i
    BY <1>2 DEF m
  <2>5. b = SubSeq(s, m, l)
    BY <1>1 DEF m
  <2>. HIDE DEF b
  <2>6. QED
    BY <2>3, <2>4, <2>5
<1>. HIDE DEF a, b
<1>5. /\ t \in Seq(S) /\ Len(t) = n + (l - n)
      /\ \A i \in 1..n : t[i] = a[i]
      /\ \A i \in (n + 1)..(n + (l - n)) : t[i] = b[i - n]
  <2>1. t \in Seq(S) /\ Joined(t, a, b, Len(a), Len(b))
    BY <1>3, <1>4, ConcatAt
  <2>. HIDE DEF t
  <2>2. t \in Seq(S) /\ Joined(t, a, b, n, l - n)
    BY <1>3, <1>4, <2>1
  <2>3. QED
    BY <2>2 DEF Joined
<1>. HIDE DEF t
<1>6. Len(t) = l /\ \A i \in 1..l : t[i] = s[i]
  <2>1. n + (l - n) = l
    BY <1>2
  <2>2. ASSUME NEW i \in 1..l
        PROVE  t[i] = s[i]
    <3>1. CASE i <= n
      BY <1>2, <1>3, <1>5, <3>1
    <3>2. CASE n < i
      <4>1. i \in (n + 1)..l /\ i - n \in 1..(l - n) /\ n + (i - n) = i
        BY <1>2, <3>2
      <4>2. t[i] = b[i - n] /\ b[i - n] = s[n + (i - n)]
        BY <1>4, <1>5, <2>1, <4>1
      <4>3. QED
        BY <4>1, <4>2
    <3>3. QED
      BY <1>2, <3>1, <3>2
  <2>3. QED
    BY <1>5, <2>1, <2>2
<1>7. t = s
  BY <1>1, <1>5, <1>6, SeqEqual
<1>8. QED
  BY <1>3, <1>4, <1>7 DEF a, b, t
==============================================================================
