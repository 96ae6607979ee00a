----------------------------- MODULE SequenceLemmas -----------------------------
(***************************************************************************)
(* Induction, and what it shows of the operators that are defined by       *)
(* recursion.  The library's induction theorems take the property as an    *)
(* operator; here it is a set, of the numbers that have the property, and  *)
(* a recursion's step is a function.                                       *)
(***************************************************************************)
EXTENDS SequencesExt, SequenceTheorems, WellFoundedInduction, TLAPS

\* A set of numbers that has 0 and with each number the next has them all.
LEMMA SetInduction ==
  ASSUME NEW P \in SUBSET Nat, 0 \in P, \A n \in P : n + 1 \in P
  PROVE  P = Nat
<1> SUFFICES ASSUME Nat \ P # {} PROVE FALSE
  OBVIOUS
<1> DEFINE R == OpToRel(<, Nat)
           T == Nat \ P
<1>1. T \subseteq Nat /\ T # {}
  OBVIOUS
<1>2. PICK x \in T : \A y \in T : ~ (<<y, x>> \in R)
  <2> HIDE DEF R, T
  <2>1. IsWellFoundedOn(R, Nat)
    BY NatLessThanWellFounded DEF R
  <2> QED BY <1>1, <2>1, WFMin
<1>3. x \in Nat /\ x # 0
  OBVIOUS
<1>4. x - 1 \in Nat /\ (x - 1) + 1 = x
  BY <1>3
<1>5. x - 1 \in T
  BY <1>4
<1>6. <<x - 1, x>> \in R
  BY <1>3, <1>4 DEF OpToRel
<1> QED BY <1>2, <1>5, <1>6

\* Numbers have a smallest one.
LEMMA Smallest ==
  ASSUME NEW T \in SUBSET Nat, T # {}
  PROVE  \E x \in T : \A y \in T : x <= y
<1> DEFINE R == OpToRel(<, Nat)
<1>1. PICK x \in T : \A y \in T : ~ (<<y, x>> \in R)
  <2> HIDE DEF R
  <2>1. IsWellFoundedOn(R, Nat)
    BY NatLessThanWellFounded DEF R
  <2> QED BY <2>1, WFMin
<1>2. \A y \in T : ~ (y < x)
  BY <1>1 DEF OpToRel
<1> QED BY <1>2

\* f is what a recursion computes for the numbers up to n.
Computes(f, base, step, n) == f[0] = base /\ \A i \in 0 .. n - 1 : f[i + 1] = step[<<f[i], i>>]

\* A recursion over the numbers up to n has a result.
LEMMA FiniteRecursion ==
  ASSUME NEW S, NEW base \in S, NEW step \in [S \X Nat -> S], NEW n \in Nat
  PROVE  \E f \in [0 .. n -> S] : Computes(f, base, step, n)
<1> USE DEF Computes
<1> DEFINE Good(m) == \E f \in [0 .. m -> S] : Computes(f, base, step, m)
           P == {m \in Nat : Good(m)}
<1>1. 0 \in P
  <2> DEFINE f == [i \in 0 .. 0 |-> base]
  <2>1. f \in [0 .. 0 -> S] /\ f[0] = base /\ \A i \in 0 .. 0 - 1 : f[i + 1] = step[<<f[i], i>>]
    OBVIOUS
  <2>2. Good(0)
    BY <2>1
  <2> QED BY <2>2
<1>2. ASSUME NEW m \in P PROVE m + 1 \in P
  <2>1. PICK f \in [0 .. m -> S] : f[0] = base /\ \A i \in 0 .. m - 1 : f[i + 1] = step[<<f[i], i>>]
    BY <1>2
  <2> DEFINE g == [i \in 0 .. m + 1 |-> IF i = m + 1 THEN step[<<f[m], m>>] ELSE f[i]]
  <2>2. m \in Nat /\ f[m] \in S /\ step[<<f[m], m>>] \in S
    OBVIOUS
  <2>3. g \in [0 .. m + 1 -> S] /\ g[0] = base
    BY <2>1, <2>2
  <2>4. ASSUME NEW i \in 0 .. (m + 1) - 1 PROVE g[i + 1] = step[<<g[i], i>>]
    <3>1. i \in 0 .. m /\ i + 1 \in 0 .. m + 1 /\ i \in 0 .. m + 1 /\ i # m + 1
      BY <2>2
    <3>2. g[i] = f[i]
      BY <3>1
    <3>3. CASE i = m
      BY <3>1, <3>2, <3>3
    <3>4. CASE i # m
      <4>1. i \in 0 .. m - 1 /\ i + 1 # m + 1
        BY <2>2, <3>1, <3>4
      <4>2. g[i + 1] = f[i + 1]
        BY <3>1, <4>1
      <4> QED BY <2>1, <3>2, <4>1, <4>2
    <3> QED BY <3>3, <3>4
  <2>5. Good(m + 1)
    BY <2>3, <2>4
  <2>6. m + 1 \in Nat
    BY <2>2
  <2> HIDE DEF Good
  <2> QED BY <2>5, <2>6
<1>3. P = Nat
  <2> HIDE DEF P
  <2>1. P \in SUBSET Nat
    BY DEF P
  <2> QED BY <1>1, <1>2, <2>1, SetInduction
<1> QED BY <1>3

\* f is what a recursion computes for every number.
ComputesAll(f, base, step) == f[0] = base /\ \A i \in Nat : f[i + 1] = step[<<f[i], i>>]

\* A recursion over all the numbers has a result.
LEMMA Recursion ==
  ASSUME NEW S, NEW base \in S, NEW step \in [S \X Nat -> S]
  PROVE  \E f \in [Nat -> S] : ComputesAll(f, base, step)
<1> DEFINE Good(f, n) == Computes(f, base, step, n)
           part(n) == CHOOSE f \in [0 .. n -> S] : Good(f, n)
           all == [n \in Nat |-> part(n)[n]]
<1>1. ASSUME NEW n \in Nat PROVE part(n) \in [0 .. n -> S] /\ Good(part(n), n)
  <2>1. \E f \in [0 .. n -> S] : Good(f, n)
    BY FiniteRecursion
  <2> QED BY <2>1
<1>2. ASSUME NEW n \in Nat PROVE \A i \in 0 .. n : part(n + 1)[i] = part(n)[i]
  <2> DEFINE P == {i \in Nat : i <= n => part(n + 1)[i] = part(n)[i]}
  <2> HIDE DEF part
  <2>1. /\ part(n)[0] = base /\ \A i \in 0 .. n - 1 : part(n)[i + 1] = step[<<part(n)[i], i>>]
        /\ part(n + 1)[0] = base
        /\ \A i \in 0 .. (n + 1) - 1 : part(n + 1)[i + 1] = step[<<part(n + 1)[i], i>>]
    BY <1>1 DEF Computes
  <2>2. 0 \in P
    BY <2>1
  <2>3. ASSUME NEW i \in P PROVE i + 1 \in P
    <3>1. CASE i + 1 <= n
      <4>1. i \in 0 .. n - 1 /\ i \in 0 .. (n + 1) - 1 /\ i <= n
        BY <3>1
      <4>2. part(n + 1)[i] = part(n)[i]
        BY <4>1
      <4>3. part(n + 1)[i + 1] = step[<<part(n + 1)[i], i>>] /\ part(n)[i + 1] = step[<<part(n)[i], i>>]
        BY <2>1, <4>1
      <4> QED BY <4>2, <4>3
    <3> QED BY <3>1
  <2>4. P = Nat
    <3>1. P \in SUBSET Nat
      OBVIOUS
    <3> HIDE DEF P
    <3> QED BY <2>2, <2>3, <3>1, SetInduction
  <2> QED BY <2>4
<1> HIDE DEF part
<1>3. all \in [Nat -> S] /\ all[0] = base
  <2>1. \A n \in Nat : part(n)[n] \in S
    BY <1>1
  <2>2. part(0)[0] = base
    BY <1>1 DEF Computes
  <2> QED BY <2>1, <2>2
<1>4. ASSUME NEW i \in Nat PROVE all[i + 1] = step[<<all[i], i>>]
  <2>1. i + 1 \in Nat /\ i \in 0 .. (i + 1) - 1 /\ i \in 0 .. i
    OBVIOUS
  <2>2. part(i + 1)[i + 1] = step[<<part(i + 1)[i], i>>]
    BY <1>1, <2>1 DEF Computes
  <2>3. part(i + 1)[i] = part(i)[i]
    BY <1>2, <2>1
  <2> QED BY <2>1, <2>2, <2>3
<1> HIDE DEF all
<1> QED BY <1>3, <1>4 DEF ComputesAll

-----------------------------------------------------------------------------
(* FlattenSeq, all the elements of a sequence of sequences.                *)

LEMMA FlattenRecursion ==
  ASSUME NEW S, NEW s \in Seq(Seq(S)), s # <<>>
  PROVE  \E f \in [1 .. Len(s) -> Seq(S)] :
            /\ f = [i \in 1 .. Len(s) |-> IF i = 1 THEN s[i] ELSE f[i - 1] \o s[i]]
            /\ FlattenSeq(s) = f[Len(s)]
<1> DEFINE n == Len(s)
           part == [p \in Seq(S) \X Nat |-> IF p[2] + 2 \in 1 .. n THEN p[1] \o s[p[2] + 2] ELSE p[1]]
<1>1. n \in Nat /\ n >= 1 /\ 1 \in 1 .. n /\ s[1] \in Seq(S)
  OBVIOUS
<1>2. part \in [Seq(S) \X Nat -> Seq(S)]
  OBVIOUS
<1>3. PICK g \in [Nat -> Seq(S)] : g[0] = s[1] /\ \A i \in Nat : g[i + 1] = part[<<g[i], i>>]
  <2> HIDE DEF part
  <2>1. \E g \in [Nat -> Seq(S)] : ComputesAll(g, s[1], part)
    BY <1>1, <1>2, Recursion
  <2> QED BY <2>1 DEF ComputesAll
<1> DEFINE f == [i \in 1 .. n |-> g[i - 1]]
           Is(h) == h = [i \in 1 .. Len(s) |-> IF i = 1 THEN s[i] ELSE h[i - 1] \o s[i]]
           result == CHOOSE h : Is(h)
<1>4. ASSUME NEW i \in 1 .. n, i # 1 PROVE f[i] = f[i - 1] \o s[i]
  <2>1. i - 2 \in Nat /\ i - 1 \in 1 .. n /\ (i - 2) + 1 = i - 1 /\ (i - 2) + 2 = i
    BY <1>1, <1>4
  <2>2. f[i] = g[i - 1] /\ f[i - 1] = g[i - 2] /\ g[i - 2] \in Seq(S)
    BY <2>1
  <2>3. g[i - 1] = part[<<g[i - 2], i - 2>>]
    <3> HIDE DEF part, f
    <3>1. PICK k \in Nat : k = i - 2 /\ k + 1 = i - 1
      BY <2>1
    <3>2. g[k + 1] = part[<<g[k], k>>]
      BY <1>3, <3>1
    <3> QED BY <3>1, <3>2
  <2>4. part[<<g[i - 2], i - 2>>] = g[i - 2] \o s[i]
    BY <2>1, <2>2
  <2> QED BY <2>2, <2>3, <2>4
<1>5. Is(f)
  <2>1. f[1] = s[1]
    BY <1>1, <1>3
  <2> QED BY <1>1, <1>4, <2>1
<1> HIDE DEF f
<1>6. Is(result)
  <2> HIDE DEF Is
  <2> QED BY <1>5
<1>7. FlattenSeq(s) = result[n]
  BY <1>1 DEF FlattenSeq
<1> HIDE DEF result
<1>8. result \in [1 .. n -> Seq(S)]
  <2> DEFINE P == {i \in Nat : i + 1 \in 1 .. n => result[i + 1] \in Seq(S)}
  <2>1. 0 \in P
    BY <1>1, <1>6
  <2>2. ASSUME NEW i \in P PROVE i + 1 \in P
    <3>1. CASE (i + 1) + 1 \in 1 .. n
      <4>1. i + 1 \in 1 .. n /\ (i + 1) + 1 # 1 /\ ((i + 1) + 1) - 1 = i + 1
        BY <1>1, <3>1
      <4>2. result[i + 1] \in Seq(S) /\ s[(i + 1) + 1] \in Seq(S)
        BY <3>1, <4>1
      <4>3. result[(i + 1) + 1] = result[i + 1] \o s[(i + 1) + 1]
        BY <1>6, <3>1, <4>1
      <4>4. result[(i + 1) + 1] \in Seq(S)
        BY <4>2, <4>3
      <4> QED BY <4>4
    <3> QED BY <3>1
  <2>3. P = Nat
    <3>1. P \in SUBSET Nat
      OBVIOUS
    <3> HIDE DEF P
    <3> QED BY <2>1, <2>2, <3>1, SetInduction
  <2>4. ASSUME NEW i \in 1 .. n PROVE result[i] \in Seq(S)
    <3>1. i - 1 \in Nat /\ (i - 1) + 1 = i
      OBVIOUS
    <3>2. i - 1 \in P
      <4> HIDE DEF P
      <4> QED BY <2>3, <3>1
    <3> QED BY <3>1, <3>2
  <2> QED BY <1>6, <2>4
<1> QED BY <1>6, <1>7, <1>8

\* A sequence and its last element.
LEMMA Appended ==
  ASSUME NEW T, NEW s \in Seq(T), NEW x \in T
  PROVE  /\ Append(s, x) \in Seq(T) /\ Append(s, x) # <<>> /\ Len(s) \in Nat
         /\ Len(Append(s, x)) = Len(s) + 1 /\ Append(s, x)[Len(s) + 1] = x
         /\ \A i \in 1 .. Len(s) : Append(s, x)[i] = s[i]
         /\ Append(s, x) = [i \in 1 .. Len(s) + 1 |-> IF i = Len(s) + 1 THEN x ELSE s[i]]
<1> DEFINE t == [i \in 1 .. Len(s) + 1 |-> IF i = Len(s) + 1 THEN x ELSE s[i]]
<1>1. t \in Seq(T)
  BY IsASeq
<1>2. Append(s, x) = t
  <2> DEFINE u == Append(s, x)
  <2>1. u \in Seq(T) /\ Len(u) = Len(s) + 1 /\ Len(t) = Len(s) + 1 /\ Len(s) \in Nat
    BY <1>1
  <2>2. \A i \in 1 .. Len(s) + 1 : u[i] = t[i]
    OBVIOUS
  <2> HIDE DEF u, t
  <2>3. u = t
    BY <1>1, <2>1, <2>2
  <2> QED BY <2>3 DEF u
<1> QED BY <1>2

LEMMA AllButLast ==
  ASSUME NEW T, NEW s \in Seq(T), NEW n \in Nat, Len(s) = n + 1
  PROVE  /\ SubSeq(s, 1, n) \in Seq(T) /\ Len(SubSeq(s, 1, n)) = n /\ s[n + 1] \in T
         /\ s = Append(SubSeq(s, 1, n), s[n + 1])
         /\ \A i \in 1 .. n : SubSeq(s, 1, n)[i] = s[i]
OBVIOUS

LEMMA SameElements ==
  ASSUME NEW T, NEW s \in Seq(T), NEW t \in Seq(T), Len(s) = Len(t), \A i \in 1 .. Len(s) : s[i] = t[i]
  PROVE  s = t
OBVIOUS

LEMMA FirstAndRest ==
  ASSUME NEW T, NEW x \in T, NEW s \in Seq(T), NEW t \in Seq(T), NEW n \in Nat,
         Len(s) = n, Len(t) = n + 1, t[1] = x, \A i \in 1 .. n : t[i + 1] = s[i]
  PROVE  t = <<x>> \o s
<1>1. <<x>> \o s \in Seq(T) /\ Len(<<x>> \o s) = n + 1
  OBVIOUS
<1>2. (<<x>> \o s)[1] = x /\ \A i \in 1 .. n : (<<x>> \o s)[i + 1] = s[i]
  OBVIOUS
<1>3. \A i \in 1 .. n + 1 : t[i] = (<<x>> \o s)[i]
  <2> TAKE i \in 1 .. n + 1
  <2>1. CASE i = 1
    BY <1>2, <2>1
  <2>2. CASE i # 1
    <3>1. i - 1 \in 1 .. n /\ (i - 1) + 1 = i
      BY <2>2
    <3>2. t[(i - 1) + 1] = s[i - 1] /\ (<<x>> \o s)[(i - 1) + 1] = s[i - 1]
      BY <1>2, <3>1
    <3> QED BY <3>1, <3>2
  <2> QED BY <2>1, <2>2
<1> QED BY <1>1, <1>3, SameElements

\* The rest of a sequence after its first n elements.
LEMMA Rest ==
  ASSUME NEW S, NEW s \in Seq(S), NEW n \in 0 .. Len(s)
  PROVE  /\ SubSeq(s, 1, n) \in Seq(S) /\ Len(SubSeq(s, 1, n)) = n
         /\ \A i \in 1 .. n : SubSeq(s, 1, n)[i] = s[i]
         /\ SubSeq(s, n + 1, Len(s)) \in Seq(S) /\ Len(SubSeq(s, n + 1, Len(s))) = Len(s) - n
         /\ \A i \in 1 .. Len(s) - n : SubSeq(s, n + 1, Len(s))[i] = s[n + i]
OBVIOUS

LEMMA Joined ==
  ASSUME NEW S, NEW s \in Seq(S), NEW t \in Seq(S)
  PROVE  /\ s \o t \in Seq(S) /\ Len(s \o t) = Len(s) + Len(t)
         /\ \A i \in 1 .. Len(s) : (s \o t)[i] = s[i]
         /\ \A i \in 1 .. Len(t) : (s \o t)[Len(s) + i] = t[i]
OBVIOUS

\* A sequence without its k-th element.
LEMMA RemovedAt ==
  ASSUME NEW S, NEW s \in Seq(S), NEW k \in 1 .. Len(s)
  PROVE  /\ RemoveAt(s, k) \in Seq(S) /\ Len(RemoveAt(s, k)) = Len(s) - 1
         /\ \A i \in 1 .. Len(s) - 1 : RemoveAt(s, k)[i] = IF i < k THEN s[i] ELSE s[i + 1]
<1>1. k - 1 \in 0 .. Len(s) /\ Len(s) \in Nat /\ (k - 1) + 1 = k
  OBVIOUS
<1> DEFINE c == SubSeq(s, 1, k - 1)
           d == SubSeq(s, k + 1, Len(s))
<1>2. c \in Seq(S) /\ Len(c) = k - 1 /\ \A i \in 1 .. k - 1 : c[i] = s[i]
  BY <1>1, Rest
<1>3. d \in Seq(S) /\ Len(d) = Len(s) - k /\ \A i \in 1 .. Len(s) - k : d[i] = s[k + i]
  BY <1>1, Rest
<1> HIDE DEF c, d
<1>4. PICK a \in Seq(S) : a = c
  BY <1>2
<1>5. PICK b \in Seq(S) : b = d
  BY <1>3
<1>7. RemoveAt(s, k) = a \o b
  BY <1>4, <1>5, Zenon DEF RemoveAt, c, d
<1>6. Len(a) = k - 1 /\ Len(b) = Len(s) - k
  BY <1>2, <1>3, <1>4, <1>5, Zenon
<1>8. /\ a \o b \in Seq(S) /\ Len(a \o b) = Len(a) + Len(b)
      /\ \A i \in 1 .. Len(a) : (a \o b)[i] = a[i]
      /\ \A i \in 1 .. Len(b) : (a \o b)[Len(a) + i] = b[i]
  BY Joined
<1>9. ASSUME NEW i \in 1 .. Len(s) - 1
      PROVE  (a \o b)[i] = IF i < k THEN s[i] ELSE s[i + 1]
  <2>1. CASE i < k
    <3>1. i \in 1 .. Len(a) /\ i \in 1 .. k - 1
      BY <1>1, <1>2, <1>4, <2>1
    <3> QED BY <1>2, <1>8, <1>4, <2>1, <3>1
  <2>2. CASE ~(i < k)
    <3> DEFINE j == i + 1 - k
    <3>1. j \in 1 .. Len(b) /\ j \in 1 .. Len(s) - k /\ Len(a) + j = i /\ k + j = i + 1
      BY <1>1, <1>6, <2>2
    <3> HIDE DEF j
    <3>2. (a \o b)[Len(a) + j] = b[j] /\ b[j] = s[k + j]
      BY <1>3, <1>8, <1>5, <3>1
    <3> QED BY <2>2, <3>1, <3>2
  <2> QED BY <2>1, <2>2
<1>10. Len(a \o b) = Len(s) - 1
  <2>1. Len(a \o b) = Len(a) + Len(b)
    BY <1>8, Zenon
  <2> QED BY <1>1, <1>6, <2>1
<1> QED BY <1>7, <1>8, <1>9, <1>10, Zenon

LEMMA HeadAndRest ==
  ASSUME NEW S, NEW s \in Seq(S), NEW n \in 0 .. Len(s)
  PROVE  SubSeq(s, 1, n) \o SubSeq(s, n + 1, Len(s)) = s
<1> DEFINE a == SubSeq(s, 1, n)
           b == SubSeq(s, n + 1, Len(s))
<1>1. /\ a \in Seq(S) /\ Len(a) = n /\ \A i \in 1 .. n : a[i] = s[i]
      /\ b \in Seq(S) /\ Len(b) = Len(s) - n /\ \A i \in 1 .. Len(s) - n : b[i] = s[n + i]
  BY Rest
<1> HIDE DEF a, b
<1>2. a \o b \in Seq(S) /\ Len(a \o b) = Len(s)
  <2>1. a \o b \in Seq(S) /\ Len(a \o b) = Len(a) + Len(b)
    BY <1>1, Joined
  <2>2. Len(s) \in Nat
    OBVIOUS
  <2> QED BY <1>1, <2>1, <2>2
<1>3. /\ \A i \in 1 .. Len(a) : (a \o b)[i] = a[i]
      /\ \A i \in 1 .. Len(b) : (a \o b)[Len(a) + i] = b[i]
  BY <1>1, Joined
<1>4. \A i \in 1 .. Len(s) : (a \o b)[i] = s[i]
  <2> SUFFICES ASSUME NEW i \in 1 .. Len(s) PROVE (a \o b)[i] = s[i]
    OBVIOUS
  <2>1. CASE i <= n
    BY <1>1, <1>3, <2>1
  <2>2. CASE ~(i <= n)
    <3>1. i - n \in 1 .. Len(b) /\ Len(a) + (i - n) = i /\ n + (i - n) = i
      BY <1>1, <2>2
    <3>2. (a \o b)[Len(a) + (i - n)] = b[i - n] /\ b[i - n] = s[n + (i - n)]
      BY <1>1, <1>3, <3>1
    <3> QED BY <3>1, <3>2
  <2> QED BY <2>1, <2>2
<1>5. a \o b = s
  BY <1>2, <1>4, SeqEqual
<1> QED BY <1>5 DEF a, b

LEMMA Regroup ==
  ASSUME NEW T, NEW p \in Seq(T), NEW q \in Seq(T), NEW r \in Seq(T)
  PROVE  (p \o q) \o r = p \o (q \o r)
OBVIOUS

\* No sequence has no elements.
LEMMA FlattenEmpty == FlattenSeq(<<>>) = <<>>
BY DEF FlattenSeq

\* The elements of the sequences are elements of the whole.
LEMMA FlattenType ==
  ASSUME NEW S, NEW s \in Seq(Seq(S))
  PROVE  FlattenSeq(s) \in Seq(S)
<1>1. CASE s = <<>>
  <2>1. FlattenSeq(s) = <<>>
    BY <1>1, FlattenEmpty, Zenon
  <2> QED BY <2>1
<1>2. CASE s # <<>>
  <2>1. Len(s) \in 1 .. Len(s)
    BY <1>2
  <2>2. PICK f \in [1 .. Len(s) -> Seq(S)] : FlattenSeq(s) = f[Len(s)]
    BY <1>2, FlattenRecursion, Zenon
  <2> QED BY <2>1, <2>2
<1> QED BY <1>1, <1>2

\* One sequence more at the end.
LEMMA FlattenAppend ==
  ASSUME NEW S, NEW s \in Seq(Seq(S)), NEW x \in Seq(S)
  PROVE  FlattenSeq(Append(s, x)) = FlattenSeq(s) \o x
<1> DEFINE t == Append(s, x)
           n == Len(s)
<1>1. /\ t \in Seq(Seq(S)) /\ t # <<>> /\ n \in Nat /\ Len(t) = n + 1 /\ t[n + 1] = x
      /\ \A i \in 1 .. n : t[i] = s[i]
  BY Appended
<1> HIDE DEF t
<1>2. PICK g \in [1 .. Len(t) -> Seq(S)] :
         /\ g = [i \in 1 .. Len(t) |-> IF i = 1 THEN t[i] ELSE g[i - 1] \o t[i]]
         /\ FlattenSeq(t) = g[Len(t)]
  BY <1>1, FlattenRecursion
<1>3. CASE s = <<>>
  <2>1. FlattenSeq(t) = x
    BY <1>1, <1>2, <1>3
  <2>2. FlattenSeq(s) \o x = x
    BY <1>3, FlattenEmpty
  <2> QED BY <2>1, <2>2 DEF t
<1>4. CASE s # <<>>
  <2>1. PICK f \in [1 .. Len(s) -> Seq(S)] :
           /\ f = [i \in 1 .. Len(s) |-> IF i = 1 THEN s[i] ELSE f[i - 1] \o s[i]]
           /\ FlattenSeq(s) = f[Len(s)]
    BY <1>4, FlattenRecursion
  <2> DEFINE P == {i \in Nat : i + 1 \in 1 .. n => g[i + 1] = f[i + 1]}
  <2>2. 0 \in P
    BY <1>1, <1>2, <2>1
  <2>3. ASSUME NEW i \in P PROVE i + 1 \in P
    <3>1. CASE (i + 1) + 1 \in 1 .. n
      <4>1. /\ i + 1 \in 1 .. n /\ (i + 1) + 1 # 1 /\ ((i + 1) + 1) - 1 = i + 1
            /\ (i + 1) + 1 \in 1 .. Len(t)
        BY <1>1, <3>1
      <4>2. g[i + 1] = f[i + 1] /\ t[(i + 1) + 1] = s[(i + 1) + 1]
        BY <1>1, <3>1, <4>1
      <4>3. g[(i + 1) + 1] = g[i + 1] \o t[(i + 1) + 1]
        BY <1>2, <4>1
      <4>4. f[(i + 1) + 1] = f[i + 1] \o s[(i + 1) + 1]
        BY <2>1, <3>1, <4>1
      <4>5. g[(i + 1) + 1] = f[(i + 1) + 1]
        BY <4>2, <4>3, <4>4
      <4> QED BY <4>5
    <3> QED BY <3>1
  <2>4. P = Nat
    <3>1. P \in SUBSET Nat
      OBVIOUS
    <3> HIDE DEF P
    <3> QED BY <2>2, <2>3, <3>1, SetInduction
  <2>5. n - 1 \in Nat /\ (n - 1) + 1 = n /\ n \in 1 .. n
    BY <1>1, <1>4
  <2>6. n - 1 \in P
    <3> HIDE DEF P
    <3> QED BY <2>4, <2>5
  <2>7. g[n] = f[n]
    BY <2>5, <2>6
  <2>8. g[n + 1] = g[n] \o x
    <3>1. n + 1 \in 1 .. Len(t) /\ n + 1 # 1 /\ (n + 1) - 1 = n
      BY <1>1, <2>5
    <3> QED BY <1>1, <1>2, <3>1
  <2> QED BY <1>1, <1>2, <2>1, <2>7, <2>8 DEF t
<1> QED BY <1>3, <1>4

\* One sequence.
LEMMA FlattenOne ==
  ASSUME NEW S, NEW x \in Seq(S)
  PROVE  FlattenSeq(<<x>>) = x
<1>1. <<>> \in Seq(Seq(S)) /\ <<x>> = Append(<<>>, x) /\ <<>> \o x = x
  OBVIOUS
<1> QED BY <1>1, FlattenAppend, FlattenEmpty

\* Two sequences of sequences, one after the other.
LEMMA FlattenConcat ==
  ASSUME NEW S, NEW s \in Seq(Seq(S)), NEW t \in Seq(Seq(S))
  PROVE  FlattenSeq(s \o t) = FlattenSeq(s) \o FlattenSeq(t)
<1> DEFINE P == {n \in Nat : \A u \in Seq(Seq(S)) : Len(u) = n => FlattenSeq(s \o u) = FlattenSeq(s) \o FlattenSeq(u)}
<1>1. 0 \in P
  <2> SUFFICES ASSUME NEW u \in Seq(Seq(S)), Len(u) = 0 PROVE FlattenSeq(s \o u) = FlattenSeq(s) \o FlattenSeq(u)
    OBVIOUS
  <2>1. u = <<>> /\ s \o u = s /\ FlattenSeq(u) = <<>> /\ FlattenSeq(s) \in Seq(S)
    BY FlattenEmpty, FlattenType
  <2> QED BY <2>1
<1>2. ASSUME NEW n \in P PROVE n + 1 \in P
  <2> SUFFICES ASSUME NEW u \in Seq(Seq(S)), Len(u) = n + 1
               PROVE  FlattenSeq(s \o u) = FlattenSeq(s) \o FlattenSeq(u)
    OBVIOUS
  <2> DEFINE v == SubSeq(u, 1, n)
             x == u[n + 1]
  <2>1. n \in Nat /\ v \in Seq(Seq(S)) /\ Len(v) = n /\ x \in Seq(S) /\ u = Append(v, x)
    OBVIOUS
  <2>2. FlattenSeq(s \o v) = FlattenSeq(s) \o FlattenSeq(v)
    BY <1>2, <2>1
  <2> HIDE DEF v, x
  <2>3. s \o v \in Seq(Seq(S)) /\ s \o u = Append(s \o v, x)
    BY <2>1, SMTT(30)
  <2>4. FlattenSeq(s \o u) = FlattenSeq(s \o v) \o x /\ FlattenSeq(u) = FlattenSeq(v) \o x
    <3>1. FlattenSeq(Append(s \o v, x)) = FlattenSeq(s \o v) \o x
      BY <2>1, <2>3, FlattenAppend
    <3>2. FlattenSeq(Append(v, x)) = FlattenSeq(v) \o x
      BY <2>1, FlattenAppend
    <3> QED BY <2>1, <2>3, <3>1, <3>2, Zenon
  <2>5. FlattenSeq(s) \in Seq(S) /\ FlattenSeq(v) \in Seq(S)
    BY <2>1, FlattenType
  <2> HIDE DEF P
  <2>6. PICK a \in Seq(S), b \in Seq(S) : a = FlattenSeq(s) /\ b = FlattenSeq(v)
    BY <2>5
  <2>7. (a \o b) \o x = a \o (b \o x)
    <3>1. x \in Seq(S)
      BY <2>1
    <3> QED BY <3>1
  <2> QED BY <2>2, <2>4, <2>6, <2>7
<1>3. P = Nat
  <2>1. P \in SUBSET Nat
    OBVIOUS
  <2> HIDE DEF P
  <2> QED BY <1>1, <1>2, <2>1, SetInduction
<1>4. Len(t) \in P
  <2> HIDE DEF P
  <2> QED BY <1>3
<1> QED BY <1>4

\* More at the end of the last sequence.
LEMMA FlattenLonger ==
  ASSUME NEW S, NEW v \in Seq(Seq(S)), NEW b \in Seq(S), NEW x \in Seq(S)
  PROVE  FlattenSeq(Append(v, b \o x)) = FlattenSeq(Append(v, b)) \o x
<1> DEFINE a == FlattenSeq(v)
<1>1. a \in Seq(S) /\ b \o x \in Seq(S)
  BY FlattenType
<1>2. FlattenSeq(Append(v, b)) = a \o b /\ FlattenSeq(Append(v, b \o x)) = a \o (b \o x)
  BY <1>1, FlattenAppend
<1> HIDE DEF a
<1>3. (a \o b) \o x = a \o (b \o x)
  <2>1. a \in Seq(S)
    BY <1>1
  <2> QED BY <2>1
<1> QED BY <1>2, <1>3
=============================================================================
