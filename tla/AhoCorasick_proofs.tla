-------------------------- MODULE AhoCorasick_proofs --------------------------
(***************************************************************************)
(* Proofs about AhoCorasick: the loop of BuildFailureLinks links every     *)
(* node to its longest proper suffix in the trie, and one pass of Search   *)
(* then finds every pattern of a text and nothing else, for any symbols,   *)
(* patterns and texts.  What the recursive functions of the model compute  *)
(* is proved by the well-foundedness of < on Nat.                          *)
(***************************************************************************)
EXTENDS AhoCorasick, FiniteSetTheorems, SequenceTheorems, TLAPS

-----------------------------------------------------------------------------
(* Induction                                                               *)

\* Every set of numbers that is not empty has a least element.
LEMMA LeastNumber ==
    ASSUME NEW S \in SUBSET Nat, S # {}
    PROVE  \E n \in S : \A m \in S : n <= m
  <1>1. \E R : IsWellFoundedOn(R, Nat) /\ \A x, y \in Nat : <<y, x>> \in R <=> y < x
    <2> DEFINE R == OpToRel(<, Nat)
    <2>1. IsWellFoundedOn(R, Nat)
      BY NatLessThanWellFounded
    <2>2. \A x, y \in Nat : <<y, x>> \in R <=> y < x
      BY DEF OpToRel
    <2> HIDE DEF R
    <2>3. QED
      BY <2>1, <2>2
  <1>2. PICK R : IsWellFoundedOn(R, Nat) /\ \A x, y \in Nat : <<y, x>> \in R <=> y < x
    BY <1>1
  <1>3. \E x \in S : \A y \in S : ~(<<y, x>> \in R)
    BY <1>2, WFMin
  <1>4. PICK n \in S : \A y \in S : ~(<<y, n>> \in R)
    BY <1>3
  <1>5. ASSUME NEW m \in S PROVE n <= m
    <2>1. m \in Nat /\ n \in Nat
      OBVIOUS
    <2>2. <<m, n>> \in R <=> m < n
      BY <1>2, <2>1
    <2>3. QED
      BY <1>4, <2>1, <2>2
  <1>6. QED
    BY <1>5

\* A set of numbers that has 0, and n + 1 if it has n, has all of them.
LEMMA NumberInduction ==
    ASSUME NEW S, 0 \in S, \A n \in Nat : n \in S => n + 1 \in S
    PROVE  Nat \subseteq S
  <1> SUFFICES ASSUME Nat \ S # {} PROVE FALSE
    OBVIOUS
  <1>1. PICK n \in Nat \ S : \A m \in Nat \ S : n <= m
    BY LeastNumber
  <1>2. n # 0 /\ n - 1 \in Nat /\ (n - 1) + 1 = n
    OBVIOUS
  <1>3. n - 1 \in S
    BY <1>1, <1>2
  <1>4. QED
    BY <1>2, <1>3

-----------------------------------------------------------------------------
(* Strings                                                                 *)

\* A prefix agrees with the string at every place it has.
LEMMA PrefixMeans ==
    ASSUME NEW A, NEW s \in Seq(A), NEW t \in Seq(A)
    PROVE  IsPrefix(s, t) <=> Len(s) <= Len(t) /\ \A i \in 1..Len(s) : s[i] = t[i]
  <1>0. Len(s) \in Nat /\ Len(t) \in Nat
    OBVIOUS
  <1>1. CASE Len(s) <= Len(t)
    <2>1. SubSeq(s, 1, Len(s)) = s
      BY SubSeqFull
    <2> DEFINE u == SubSeq(t, 1, Len(s))
    <2>2. u \in Seq(A) /\ Len(u) = Len(s) /\ \A i \in 1..Len(s) : u[i] = t[i]
      BY <1>0, <1>1
    <2> HIDE DEF u
    <2>3. s = u <=> \A i \in 1..Len(s) : s[i] = t[i]
      BY <2>2, SeqEqual
    <2>4. QED
      BY <1>1, <2>1, <2>3 DEF IsPrefix, u
  <1>2. CASE ~(Len(s) <= Len(t))
    BY <1>2 DEF IsPrefix
  <1>3. QED
    BY <1>1, <1>2

\* Reverse, place by place.
LEMMA ReverseIs ==
    ASSUME NEW A, NEW s \in Seq(A)
    PROVE  /\ Reverse(s) \in Seq(A) /\ Len(Reverse(s)) = Len(s)
           /\ \A i \in 1..Len(s) : Reverse(s)[i] = s[Len(s) - i + 1]
  <1>1. Reverse(s) = [i \in 1..Len(s) |-> s[(Len(s) - i) + 1]]
    BY DEF Reverse
  <1>2. \A i \in 1..Len(s) : (Len(s) - i) + 1 \in 1..Len(s)
    OBVIOUS
  <1>3. Reverse(s) \in [1..Len(s) -> A]
    BY <1>1, <1>2
  <1>4. Reverse(s) \in Seq(A)
    BY <1>3, SeqDef, LenProperties
  <1>5. Len(Reverse(s)) = Len(s)
    BY <1>3, <1>4, LenProperties
  <1>6. QED
    BY <1>1, <1>4, <1>5

\* The place of a symbol counted from the end, as suffixes compare it.
LEMMA SuffixMeans ==
    ASSUME NEW A, NEW s \in Seq(A), NEW t \in Seq(A)
    PROVE  IsSuffix(s, t) <=>
               Len(s) <= Len(t) /\ \A i \in 0..Len(s) - 1 : s[Len(s) - i] = t[Len(t) - i]
  <1>0. Len(s) \in Nat /\ Len(t) \in Nat
    OBVIOUS
  <1> DEFINE r == Reverse(s)  q == Reverse(t)
  <1>1. r \in Seq(A) /\ Len(r) = Len(s) /\ \A i \in 1..Len(s) : r[i] = s[Len(s) - i + 1]
    BY ReverseIs
  <1>2. q \in Seq(A) /\ Len(q) = Len(t) /\ \A i \in 1..Len(t) : q[i] = t[Len(t) - i + 1]
    BY ReverseIs
  <1>3. IsSuffix(s, t) <=> IsPrefix(r, q)
    BY DEF IsSuffix
  <1> HIDE DEF r, q
  <1>4. IsPrefix(r, q) <=> Len(s) <= Len(t) /\ \A i \in 1..Len(s) : r[i] = q[i]
    BY <1>1, <1>2, PrefixMeans
  <1>5. ASSUME Len(s) <= Len(t)
        PROVE  (\A i \in 1..Len(s) : r[i] = q[i]) <=>
                   \A i \in 0..Len(s) - 1 : s[Len(s) - i] = t[Len(t) - i]
    <2>1. ASSUME \A i \in 1..Len(s) : r[i] = q[i], NEW i \in 0..Len(s) - 1
          PROVE  s[Len(s) - i] = t[Len(t) - i]
      <3>1. i + 1 \in 1..Len(s) /\ i + 1 \in 1..Len(t)
        BY <1>0, <1>5
      <3>2. Len(s) - (i + 1) + 1 = Len(s) - i /\ Len(t) - (i + 1) + 1 = Len(t) - i
        BY <1>0
      <3>3. QED
        BY <1>1, <1>2, <2>1, <3>1, <3>2
    <2>2. ASSUME \A i \in 0..Len(s) - 1 : s[Len(s) - i] = t[Len(t) - i], NEW i \in 1..Len(s)
          PROVE  r[i] = q[i]
      <3>1. i - 1 \in 0..Len(s) - 1 /\ i \in 1..Len(t)
        BY <1>0, <1>5
      <3>2. Len(s) - (i - 1) = Len(s) - i + 1 /\ Len(t) - (i - 1) = Len(t) - i + 1
        BY <1>0
      <3>3. QED
        BY <1>1, <1>2, <2>2, <3>1, <3>2
    <2>3. QED
      BY <2>1, <2>2
  <1>6. QED
    BY <1>3, <1>4, <1>5

\* Of two suffixes of a string the shorter is a suffix of the longer.
LEMMA SuffixesNest ==
    ASSUME NEW A, NEW s \in Seq(A), NEW u \in Seq(A), NEW t \in Seq(A),
           IsSuffix(s, t), IsSuffix(u, t), Len(s) <= Len(u)
    PROVE  IsSuffix(s, u) /\ (Len(s) = Len(u) => s = u)
  <1>0. Len(s) \in Nat /\ Len(t) \in Nat /\ Len(u) \in Nat
    OBVIOUS
  <1>1. \A i \in 0..Len(s) - 1 : s[Len(s) - i] = t[Len(t) - i]
    BY SuffixMeans
  <1>2. \A i \in 0..Len(u) - 1 : u[Len(u) - i] = t[Len(t) - i]
    BY SuffixMeans
  <1>3. \A i \in 0..Len(s) - 1 : s[Len(s) - i] = u[Len(u) - i]
    BY <1>0, <1>1, <1>2
  <1>4. IsSuffix(s, u)
    BY <1>3, SuffixMeans
  <1>5. ASSUME Len(s) = Len(u) PROVE s = u
    <2>1. ASSUME NEW j \in 1..Len(s) PROVE s[j] = u[j]
      <3>1. Len(s) - j \in 0..Len(s) - 1 /\ Len(s) - (Len(s) - j) = j
        BY <1>0
      <3>2. QED
        BY <1>3, <1>5, <3>1
    <2>2. QED
      BY <1>5, <2>1, SeqEqual
  <1>6. QED
    BY <1>4, <1>5

\* Being a suffix is an order, with <<>> below every string.
LEMMA SuffixOrder ==
    ASSUME NEW A, NEW s \in Seq(A), NEW t \in Seq(A)
    PROVE  /\ IsSuffix(<<>>, s) /\ IsSuffix(s, s)
           /\ IsSuffix(s, t) => Len(s) <= Len(t)
           /\ IsSuffix(s, t) => (IsStrictSuffix(s, t) <=> Len(s) < Len(t))
           /\ \A u \in Seq(A) : IsSuffix(s, t) /\ IsSuffix(t, u) => IsSuffix(s, u)
  <1>0. Len(s) \in Nat /\ Len(t) \in Nat /\ <<>> \in Seq(A) /\ Len(<<>>) = 0
    OBVIOUS
  <1>1. IsSuffix(<<>>, s)
    <2>1. Len(<<>>) <= Len(s) /\ \A i \in 0..Len(<<>>) - 1 : <<>>[Len(<<>>) - i] = s[Len(s) - i]
      BY <1>0
    <2>2. QED
      BY <1>0, <2>1, SuffixMeans
  <1>2. IsSuffix(s, s) /\ IsSuffix(t, t)
    BY <1>0, SuffixMeans
  <1>3. IsSuffix(s, t) => Len(s) <= Len(t)
    BY SuffixMeans
  <1>4. IsSuffix(s, t) => (IsStrictSuffix(s, t) <=> Len(s) < Len(t))
    <2>1. IsSuffix(s, t) /\ Len(s) = Len(t) => s = t
      BY <1>0, <1>2, SuffixesNest
    <2>2. QED
      BY <1>0, <1>3, <2>1 DEF IsStrictSuffix
  <1>5. ASSUME NEW u \in Seq(A), IsSuffix(s, t), IsSuffix(t, u) PROVE IsSuffix(s, u)
    <2>0. Len(u) \in Nat /\ Len(s) <= Len(t) /\ Len(t) <= Len(u)
      BY <1>5, SuffixMeans
    <2>1. \A i \in 0..Len(s) - 1 : s[Len(s) - i] = t[Len(t) - i]
      BY <1>5, SuffixMeans
    <2>2. \A i \in 0..Len(t) - 1 : t[Len(t) - i] = u[Len(u) - i]
      BY <1>5, SuffixMeans
    <2>3. \A i \in 0..Len(s) - 1 : s[Len(s) - i] = u[Len(u) - i]
      BY <1>0, <2>0, <2>1, <2>2
    <2>4. QED
      BY <1>0, <2>0, <2>3, SuffixMeans
  <1>6. QED
    BY <1>1, <1>2, <1>3, <1>4, <1>5

\* All but the last symbol.
LEMMA AllButLast ==
    ASSUME NEW A, NEW s \in Seq(A), s # <<>>
    PROVE  /\ Front(s) \in Seq(A) /\ Len(Front(s)) = Len(s) - 1
           /\ Last(s) \in A /\ s = Append(Front(s), Last(s))
           /\ Front(s) = SubSeq(s, 1, Len(s) - 1)
  <1>0. Len(s) \in Nat \ {0}
    OBVIOUS
  <1>1. Front(s) \in Seq(A) /\ Len(Front(s)) = Len(s) - 1
    <2>1. \A i \in 1..Len(s) - 1 : s[i] \in A
      BY <1>0
    <2>2. PICK n \in Nat : n = Len(s) - 1
      BY <1>0
    <2>3. SubSeq(s, 1, n) \in Seq(A) /\ Len(SubSeq(s, 1, n)) = IF 1 <= n THEN n - 1 + 1 ELSE 0
      BY <2>1, <2>2, SubSeqProperties, 1 \in Int, n \in Int
    <2>4. Len(SubSeq(s, 1, n)) = n
      BY <2>3
    <2>5. QED
      BY <2>2, <2>3, <2>4 DEF Front
  <1>2. Last(s) \in A
    BY <1>0 DEF Last
  <1>3. \A i \in 1..Len(s) - 1 : Front(s)[i] = s[i]
    BY <1>0 DEF Front
  <1> DEFINE u == Append(Front(s), Last(s))
  <1>4. u \in Seq(A) /\ Len(u) = Len(s)
    BY <1>0, <1>1, <1>2, AppendProperties
  <1>5. ASSUME NEW i \in 1..Len(s) PROVE u[i] = s[i]
    <2>1. CASE i = Len(s)
      BY <1>0, <1>1, <1>2, <2>1, AppendProperties DEF Last
    <2>2. CASE i # Len(s)
      <3>1. i \in 1..Len(s) - 1
        BY <1>0, <2>2
      <3>2. u[i] = Front(s)[i]
        BY <1>1, <1>2, <3>1, AppendProperties
      <3>3. QED
        BY <1>3, <3>1, <3>2
    <2>3. QED
      BY <2>1, <2>2
  <1> HIDE DEF u
  <1>6. s = u
    BY <1>4, <1>5, SeqEqual
  <1>7. QED
    BY <1>1, <1>2, <1>6 DEF Front, u

\* A suffix may be compared without the last symbol.
LEMMA AppendSuffix ==
    ASSUME NEW A, NEW s \in Seq(A), NEW t \in Seq(A), NEW c \in A, NEW d \in A
    PROVE  IsSuffix(Append(s, c), Append(t, d)) <=> c = d /\ IsSuffix(s, t)
  <1>0. Len(s) \in Nat /\ Len(t) \in Nat
    OBVIOUS
  <1> DEFINE a == Append(s, c)  b == Append(t, d)
  <1>1. a \in Seq(A) /\ Len(a) = Len(s) + 1 /\ a[Len(s) + 1] = c
        /\ \A i \in 1..Len(s) : a[i] = s[i]
    BY AppendProperties
  <1>2. b \in Seq(A) /\ Len(b) = Len(t) + 1 /\ b[Len(t) + 1] = d
        /\ \A i \in 1..Len(t) : b[i] = t[i]
    BY AppendProperties
  <1> HIDE DEF a, b
  <1>3. IsSuffix(a, b) <=> Len(s) <= Len(t) /\ \A i \in 0..Len(s) : a[Len(s) + 1 - i] = b[Len(t) + 1 - i]
    <2>1. IsSuffix(a, b) <=> Len(a) <= Len(b) /\ \A i \in 0..Len(a) - 1 : a[Len(a) - i] = b[Len(b) - i]
      <3>1. a \in Seq(A) /\ b \in Seq(A)
        BY <1>1, <1>2
      <3>2. QED
        BY ONLY <3>1, SuffixMeans
    <2>2. Len(a) <= Len(b) <=> Len(s) <= Len(t)
      BY <1>0, <1>1, <1>2
    <2>3. Len(a) - 1 = Len(s)
      BY <1>0, <1>1
    <2>4. QED
      BY <1>1, <1>2, <2>1, <2>2, <2>3
  <1>4. IsSuffix(s, t) <=> Len(s) <= Len(t) /\ \A i \in 0..Len(s) - 1 : s[Len(s) - i] = t[Len(t) - i]
    BY SuffixMeans
  <1>5. ASSUME Len(s) <= Len(t), \A i \in 0..Len(s) : a[Len(s) + 1 - i] = b[Len(t) + 1 - i]
        PROVE  c = d /\ IsSuffix(s, t)
    <2>1. c = d
      <3>1. a[Len(s) + 1 - 0] = b[Len(t) + 1 - 0]
        BY <1>0, <1>5
      <3>2. Len(s) + 1 - 0 = Len(s) + 1 /\ Len(t) + 1 - 0 = Len(t) + 1
        BY <1>0
      <3>3. QED
        BY <1>1, <1>2, <3>1, <3>2
    <2>2. ASSUME NEW i \in 0..Len(s) - 1 PROVE s[Len(s) - i] = t[Len(t) - i]
      <3>1. i + 1 \in 0..Len(s) /\ Len(s) + 1 - (i + 1) = Len(s) - i
            /\ Len(t) + 1 - (i + 1) = Len(t) - i
        BY <1>0
      <3>2. Len(s) - i \in 1..Len(s) /\ Len(t) - i \in 1..Len(t)
        BY <1>0, <1>5
      <3>3. a[Len(s) + 1 - (i + 1)] = b[Len(t) + 1 - (i + 1)]
        BY <1>5, <3>1
      <3>4. QED
        BY <1>1, <1>2, <3>1, <3>2, <3>3
    <2>3. QED
      BY <1>4, <1>5, <2>1, <2>2
  <1>6. ASSUME c = d, IsSuffix(s, t), NEW i \in 0..Len(s)
        PROVE  a[Len(s) + 1 - i] = b[Len(t) + 1 - i]
    <2>0. Len(s) <= Len(t)
      BY <1>4, <1>6
    <2>1. CASE i = 0
      <3>1. Len(s) + 1 - i = Len(s) + 1 /\ Len(t) + 1 - i = Len(t) + 1
        BY <1>0, <2>1
      <3>2. QED
        BY <1>1, <1>2, <1>6, <3>1
    <2>2. CASE i # 0
      <3>1. i - 1 \in 0..Len(s) - 1 /\ Len(s) + 1 - i = Len(s) - (i - 1)
            /\ Len(t) + 1 - i = Len(t) - (i - 1)
        BY <1>0, <2>2
      <3>2. Len(s) - (i - 1) \in 1..Len(s) /\ Len(t) - (i - 1) \in 1..Len(t)
        BY <1>0, <2>0, <2>2
      <3>3. s[Len(s) - (i - 1)] = t[Len(t) - (i - 1)]
        BY <1>4, <1>6, <3>1
      <3>4. QED
        BY <1>1, <1>2, <3>1, <3>2, <3>3
    <2>3. QED
      BY <2>1, <2>2
  <1>7. IsSuffix(a, b) <=> c = d /\ IsSuffix(s, t)
    BY <1>3, <1>4, <1>5, <1>6
  <1>8. QED
    BY <1>7 DEF a, b

\* All but the last symbol, as a prefix.
LEMMA FrontIsPrefix ==
    ASSUME NEW A, NEW s \in Seq(A), s # <<>>
    PROVE  IsPrefix(Front(s), s)
  <1>1. Front(s) \in Seq(A) /\ Len(Front(s)) = Len(s) - 1 /\ Len(s) \in Nat
        /\ Last(s) \in A /\ s = Append(Front(s), Last(s))
    BY AllButLast
  <1>2. \A i \in 1..Len(Front(s)) : Append(Front(s), Last(s))[i] = Front(s)[i]
    BY <1>1, AppendProperties
  <1>3. \A i \in 1..Len(Front(s)) : Front(s)[i] = s[i]
    BY <1>1, <1>2
  <1>4. Len(Front(s)) <= Len(s)
    BY <1>1
  <1>5. QED
    BY <1>1, <1>3, <1>4, PrefixMeans

\* A set of suffixes of a string has one longest element.
LEMMA LongestSuffix ==
    ASSUME NEW A, NEW t \in Seq(A), NEW S \in SUBSET Seq(A), S # {},
           \A s \in S : IsSuffix(s, t)
    PROVE  /\ LongestIn(S) \in S
           /\ \A s \in S : IsSuffix(s, LongestIn(S))
           /\ \A x \in S : (\A s \in S : Len(s) <= Len(x)) => x = LongestIn(S)
  <1>0. \A s \in S : Len(s) \in Nat /\ Len(t) \in Nat /\ Len(s) <= Len(t)
    <2> TAKE s \in S
    <2>1. s \in Seq(A) /\ IsSuffix(s, t)
      OBVIOUS
    <2>2. QED
      BY <2>1, SuffixMeans
  <1>1. \E x \in S : \A s \in S : Len(s) <= Len(x)
    <2> DEFINE D == {Len(t) - Len(s) : s \in S}
    <2>1. D \in SUBSET Nat /\ D # {}
      BY <1>0
    <2> HIDE DEF D
    <2>2. PICK d \in D : \A e \in D : d <= e
      BY <2>1, LeastNumber
    <2>3. PICK x \in S : d = Len(t) - Len(x)
      BY DEF D
    <2>4. ASSUME NEW s \in S PROVE Len(s) <= Len(x)
      <3>1. Len(t) - Len(s) \in D
        BY DEF D
      <3>2. Len(t) - Len(x) <= Len(t) - Len(s)
        BY <2>2, <2>3, <3>1
      <3>3. QED
        BY <1>0, <3>2
    <2>5. QED
      BY <2>4
  <1> DEFINE y == LongestIn(S)
  <1>2. y \in S /\ \A s \in S : Len(s) <= Len(y)
    BY <1>1 DEF LongestIn
  <1> HIDE DEF y
  <1>3. ASSUME NEW s \in S PROVE IsSuffix(s, y)
    <2>1. /\ s \in Seq(A) /\ y \in Seq(A) /\ IsSuffix(s, t) /\ IsSuffix(y, t)
          /\ Len(s) <= Len(y)
      BY <1>2
    <2>2. QED
      BY <2>1, SuffixesNest
  <1>4. ASSUME NEW x \in S, \A s \in S : Len(s) <= Len(x) PROVE x = y
    <2>1. /\ x \in Seq(A) /\ y \in Seq(A) /\ IsSuffix(x, t) /\ IsSuffix(y, t)
          /\ Len(x) <= Len(y) /\ Len(x) = Len(y)
      BY <1>0, <1>2, <1>4
    <2>2. QED
      BY <2>1, SuffixesNest
  <1>5. QED
    BY <1>2, <1>3, <1>4 DEF y

-----------------------------------------------------------------------------
(* Following the links                                                     *)

\* The nodes are strings, and have all their prefixes.
Strings(A) ==
    /\ Nodes \subseteq Seq(A)
    /\ <<>> \in Nodes
    /\ \A n \in Nodes : \A s \in Seq(A) : IsPrefix(s, n) => s \in Nodes

\* f is the longest proper suffix of m that is a node.
LinksTo(m, f) ==
    /\ f \in Nodes
    /\ IsStrictSuffix(f, m)
    /\ \A s \in Nodes : IsStrictSuffix(s, m) => IsSuffix(s, f)

\* Links lead to shorter nodes, and from there on they are right.
LinksLead(A) ==
    /\ Strings(A)
    /\ fail \in [Nodes -> Nodes]
    /\ \A m \in Nodes : m # <<>> => Len(fail[m]) < Len(m)
    /\ \A m \in Nodes : fail[m] = <<>> \/ LinksTo(fail[m], fail[fail[m]])

\* Where a search that is at m can go on with c, and the root.
Bases(m, c) == {s \in Nodes : IsSuffix(s, m) /\ (s = <<>> \/ Append(s, c) \in Nodes)}

\* The bases of m are suffixes of m, and the root is one of them.
LEMMA BasesAre ==
    ASSUME NEW A, LinksLead(A), NEW m \in Nodes, NEW c
    PROVE  /\ Bases(m, c) \in SUBSET Seq(A) /\ <<>> \in Bases(m, c)
           /\ \A s \in Bases(m, c) : IsSuffix(s, m) /\ Len(s) <= Len(m)
  <1>1. m \in Seq(A) /\ <<>> \in Nodes /\ IsSuffix(<<>>, m) /\ Nodes \subseteq Seq(A)
    BY SuffixOrder DEF LinksLead, Strings
  <1>2. \A s \in Bases(m, c) : s \in Seq(A) /\ IsSuffix(s, m)
    BY <1>1 DEF Bases
  <1>3. \A s \in Bases(m, c) : Len(s) <= Len(m)
    BY <1>1, <1>2, SuffixOrder
  <1>4. QED
    BY <1>1, <1>2, <1>3 DEF Bases

\* The loop over failure links ends at the longest suffix that can go on.
LEMMA FallbackIsLongest ==
    ASSUME NEW A, LinksLead(A), NEW n \in Nodes, NEW c,
           n = <<>> \/ LinksTo(n, fail[n])
    PROVE  Fallback(n, c) = LongestIn(Bases(n, c))
  <1> DEFINE Stuck(m) == m # <<>> /\ Append(m, c) \notin Nodes
             g == [m \in Nodes |-> IF Stuck(m) THEN LongestIn(Bases(fail[m], c)) ELSE m]
  <1>0. Nodes \subseteq Seq(A) /\ fail \in [Nodes -> Nodes]
    BY DEF LinksLead, Strings
  <1>1. ASSUME NEW m \in Nodes, m = <<>> \/ LinksTo(m, fail[m])
        PROVE  g[m] = LongestIn(Bases(m, c))
    <2>0. m \in Seq(A) /\ IsSuffix(m, m)
      BY <1>0, SuffixOrder
    <2>1. CASE ~Stuck(m)
      <3>1. m \in Bases(m, c)
        BY <2>0, <2>1 DEF Bases
      <3>2. m = LongestIn(Bases(m, c))
        BY <2>0, <3>1, BasesAre, LongestSuffix
      <3>3. QED
        BY <2>1, <3>2
    <2>2. CASE Stuck(m)
      <3>1. LinksTo(m, fail[m])
        BY <1>1, <2>2
      <3>2. ASSUME NEW s \in Nodes, s = <<>> \/ Append(s, c) \in Nodes
            PROVE  IsSuffix(s, m) <=> IsSuffix(s, fail[m])
        <4>1. s # m \/ s = <<>>
          BY <2>2, <3>2
        <4>2. s \in Seq(A) /\ fail[m] \in Seq(A) /\ IsSuffix(fail[m], m)
          BY <1>0, <3>1 DEF LinksTo, IsStrictSuffix
        <4>3. IsSuffix(s, fail[m]) => IsSuffix(s, m)
          BY <2>0, <4>2, SuffixOrder
        <4>4. IsSuffix(s, m) /\ s # m => IsSuffix(s, fail[m])
          BY <3>1 DEF LinksTo, IsStrictSuffix
        <4>5. QED
          BY <2>2, <4>1, <4>3, <4>4
      <3>3. Bases(m, c) = Bases(fail[m], c)
        BY <3>2 DEF Bases
      <3>4. QED
        BY <2>2, <3>3
    <2>3. QED
      BY <2>1, <2>2
  <1>2. ASSUME NEW m \in Nodes, Stuck(m) PROVE g[m] = g[fail[m]]
    <2>1. fail[m] \in Nodes /\ (fail[m] = <<>> \/ LinksTo(fail[m], fail[fail[m]]))
      BY <1>0 DEF LinksLead
    <2>2. g[fail[m]] = LongestIn(Bases(fail[m], c))
      BY <1>1, <2>1
    <2>3. QED
      BY <1>2, <2>2
  <1>3. g = [m \in Nodes |-> IF Stuck(m) THEN g[fail[m]] ELSE m]
    <2>1. \A m \in Nodes : g[m] = IF Stuck(m) THEN g[fail[m]] ELSE m
      BY <1>2
    <2> DEFINE h == [m \in Nodes |-> IF Stuck(m) THEN g[fail[m]] ELSE m]
    <2>2. \A m \in Nodes : g[m] = h[m]
      BY <2>1
    <2>3. DOMAIN g = Nodes /\ DOMAIN h = Nodes
      OBVIOUS
    <2>4. g = [m \in Nodes |-> g[m]] /\ h = [m \in Nodes |-> h[m]]
      OBVIOUS
    <2> HIDE DEF g, h
    <2>5. g = h
      BY <2>2, <2>4
    <2>6. QED
      BY <2>5 DEF h
  <1>4. g[n] = LongestIn(Bases(n, c))
    BY <1>1
  <1>g. \A m \in Nodes : ~Stuck(m) => g[m] = m
    OBVIOUS
  <1> HIDE DEF g
  <1>5. \E b : /\ b = [m \in Nodes |-> IF Stuck(m) THEN b[fail[m]] ELSE m]
               /\ Fallback(n, c) = b[n]
    <2> DEFINE b == CHOOSE b : b = [m \in Nodes |-> IF Stuck(m) THEN b[fail[m]] ELSE m]
    <2>1. b = [m \in Nodes |-> IF Stuck(m) THEN b[fail[m]] ELSE m]
      BY <1>3
    <2>2. Fallback(n, c) = b[n]
      BY DEF Fallback
    <2> HIDE DEF b
    <2>3. QED
      BY <2>1, <2>2
  <1>6. PICK b : /\ b = [m \in Nodes |-> IF Stuck(m) THEN b[fail[m]] ELSE m]
                 /\ Fallback(n, c) = b[n]
    BY <1>5
  <1>7. \A m \in Nodes : b[m] = g[m]
    <2> SUFFICES ASSUME {m \in Nodes : b[m] # g[m]} # {} PROVE FALSE
      OBVIOUS
    <2> DEFINE D == {Len(m) : m \in {x \in Nodes : b[x] # g[x]}}
    <2>0. \A m \in Nodes : Len(m) \in Nat
      BY <1>0
    <2>1. D \in SUBSET Nat /\ D # {}
      BY <2>0
    <2> HIDE DEF D
    <2>2. PICK d \in D : \A e \in D : d <= e
      BY <2>1, LeastNumber
    <2>3. PICK m \in Nodes : b[m] # g[m] /\ d = Len(m)
      BY DEF D
    <2>4. b[m] = IF Stuck(m) THEN b[fail[m]] ELSE m
      BY <1>6
    <2>5. CASE Stuck(m)
      <3>1. fail[m] \in Nodes /\ Len(fail[m]) < Len(m) /\ Len(m) \in Nat /\ Len(fail[m]) \in Nat
        BY <1>0, <2>5 DEF LinksLead
      <3>2. b[fail[m]] # g[fail[m]]
        BY <1>2, <2>3, <2>4, <2>5
      <3>3. Len(fail[m]) \in D
        BY <3>1, <3>2 DEF D
      <3>4. QED
        BY <2>2, <2>3, <3>1, <3>3
    <2>6. CASE ~Stuck(m)
      BY <1>g, <2>3, <2>4, <2>6
    <2>7. QED
      BY <2>5, <2>6
  <1>8. QED
    BY <1>4, <1>6, <1>7

\* From a node that has its link, Goto finds the longest node that is a suffix
\* of the node and the symbol.
LEMMA GotoIsLongest ==
    ASSUME NEW A, LinksLead(A), NEW n \in Nodes, NEW c \in A,
           n = <<>> \/ LinksTo(n, fail[n])
    PROVE  /\ Goto(n, c) \in Nodes
           /\ IsSuffix(Goto(n, c), Append(n, c))
           /\ \A s \in Nodes : IsSuffix(s, Append(n, c)) => IsSuffix(s, Goto(n, c))
  <1>0. Nodes \subseteq Seq(A) /\ <<>> \in Nodes /\ n \in Seq(A) /\ Append(n, c) \in Seq(A)
    BY AppendProperties DEF LinksLead, Strings
  <1> DEFINE S == Bases(n, c)  b == LongestIn(S)  m == Append(b, c)
  <1>1. Fallback(n, c) = b
    BY FallbackIsLongest
  <1>2. /\ S \in SUBSET Seq(A) /\ <<>> \in S
        /\ \A s \in S : IsSuffix(s, n)
    BY BasesAre
  <1>3. b \in S /\ \A s \in S : IsSuffix(s, b)
    <2> HIDE DEF S
    <2>1. S # {}
      BY <1>2
    <2>2. QED
      BY <1>0, <1>2, <2>1, LongestSuffix
  <1>4. b \in Seq(A) /\ b \in Nodes /\ IsSuffix(b, n)
    BY <1>2, <1>3 DEF Bases
  <1>5. m \in Seq(A) /\ IsSuffix(m, Append(n, c))
    BY <1>0, <1>4, AppendProperties, AppendSuffix
  <1>6. Goto(n, c) = IF m \in Nodes THEN m ELSE <<>>
    BY <1>1 DEF Goto
  <1> HIDE DEF b, S
  <1>7. ASSUME NEW s \in Nodes, s # <<>>, IsSuffix(s, Append(n, c))
        PROVE  m \in Nodes /\ IsSuffix(s, m)
    <2>1. PICK f \in Seq(A), d \in A : s = Append(f, d) /\ IsPrefix(f, s)
      BY <1>0, <1>7, AllButLast, FrontIsPrefix
    <2>2. f \in Nodes
      BY <2>1 DEF LinksLead, Strings
    <2>3. d = c /\ IsSuffix(f, n)
      <3>1. IsSuffix(Append(f, d), Append(n, c))
        BY <1>7, <2>1
      <3>2. QED
        BY <1>0, <3>1, AppendSuffix
    <2>4. f \in S
      BY <2>1, <2>2, <2>3 DEF S, Bases
    <2>5. IsSuffix(f, b)
      BY <1>3, <2>4
    <2>6. IsSuffix(s, m)
      <3>1. IsSuffix(Append(f, c), Append(b, c))
        BY <1>4, <2>5, AppendSuffix
      <3>2. QED
        BY <2>1, <2>3, <3>1
    <2>7. m \in Nodes
      <3>1. CASE b # <<>>
        BY <1>3, <3>1 DEF S, Bases
      <3>2. CASE b = <<>>
        <4>1. IsSuffix(f, b) /\ Len(f) \in Nat /\ Len(b) = 0
          BY <2>5, <3>2
        <4>2. Len(f) <= Len(b)
          BY <1>4, <4>1, SuffixOrder
        <4>3. f = <<>>
          BY <4>1, <4>2
        <4>4. m = s
          BY <2>1, <2>3, <3>2, <4>3
        <4>5. QED
          BY <4>4
      <3>3. QED
        BY <3>1, <3>2
    <2>8. QED
      BY <2>6, <2>7
  <1>8. Goto(n, c) \in Nodes /\ IsSuffix(Goto(n, c), Append(n, c))
    BY <1>0, <1>5, <1>6, SuffixOrder
  <1>9. ASSUME NEW s \in Nodes, IsSuffix(s, Append(n, c)) PROVE IsSuffix(s, Goto(n, c))
    <2>1. CASE s = <<>>
      BY <1>0, <1>8, <2>1, SuffixOrder
    <2>2. CASE s # <<>>
      BY <1>6, <1>7, <1>9, <2>2
    <2>3. QED
      BY <2>1, <2>2
  <1>10. QED
    BY <1>8, <1>9

-----------------------------------------------------------------------------
(* The trie                                                                *)

\* Of two prefixes of a string the shorter is a prefix of the longer.
LEMMA PrefixesNest ==
    ASSUME NEW A, NEW s \in Seq(A), NEW u \in Seq(A), NEW t \in Seq(A),
           IsPrefix(s, t), IsPrefix(u, t), Len(s) <= Len(u)
    PROVE  IsPrefix(s, u) /\ (Len(s) = Len(u) => s = u)
  <1>0. Len(s) \in Nat /\ Len(t) \in Nat /\ Len(u) \in Nat
    OBVIOUS
  <1>1. \A i \in 1..Len(s) : s[i] = t[i]
    BY PrefixMeans
  <1>2. \A i \in 1..Len(u) : u[i] = t[i]
    BY PrefixMeans
  <1>3. \A i \in 1..Len(s) : s[i] = u[i]
    BY <1>0, <1>1, <1>2
  <1>4. QED
    BY <1>3, PrefixMeans, SeqEqual

\* Being a prefix is an order; the prefixes of a string are its SubSeqs from 1.
LEMMA PrefixOrder ==
    ASSUME NEW A, NEW s \in Seq(A), NEW t \in Seq(A)
    PROVE  /\ IsPrefix(<<>>, s) /\ IsPrefix(s, s)
           /\ IsPrefix(s, t) => Len(s) <= Len(t)
           /\ IsPrefix(s, t) => (IsStrictPrefix(s, t) <=> Len(s) < Len(t))
           /\ \A u \in Seq(A) : IsPrefix(s, t) /\ IsPrefix(t, u) => IsPrefix(s, u)
           /\ \A k \in 0..Len(s) : /\ SubSeq(s, 1, k) \in Seq(A)
                                   /\ Len(SubSeq(s, 1, k)) = k
                                   /\ IsPrefix(SubSeq(s, 1, k), s)
  <1>0. Len(s) \in Nat /\ Len(t) \in Nat /\ <<>> \in Seq(A) /\ Len(<<>>) = 0
    OBVIOUS
  <1>1. IsPrefix(<<>>, s)
    <2>1. Len(<<>>) <= Len(s) /\ \A i \in 1..Len(<<>>) : <<>>[i] = s[i]
      BY <1>0
    <2>2. QED
      BY <1>0, <2>1, PrefixMeans
  <1>2. IsPrefix(s, s) /\ IsPrefix(t, t)
    BY <1>0, PrefixMeans
  <1>3. IsPrefix(s, t) => Len(s) <= Len(t)
    BY PrefixMeans
  <1>4. IsPrefix(s, t) => (IsStrictPrefix(s, t) <=> Len(s) < Len(t))
    <2>1. IsPrefix(s, t) /\ Len(s) = Len(t) => s = t
      BY <1>0, <1>2, PrefixesNest
    <2>2. QED
      BY <1>0, <1>3, <2>1 DEF IsStrictPrefix
  <1>5. ASSUME NEW u \in Seq(A), IsPrefix(s, t), IsPrefix(t, u) PROVE IsPrefix(s, u)
    <2>0. Len(u) \in Nat /\ Len(s) <= Len(t) /\ Len(t) <= Len(u)
      BY <1>5, PrefixMeans
    <2>1. \A i \in 1..Len(s) : s[i] = t[i]
      BY <1>5, PrefixMeans
    <2>2. \A i \in 1..Len(t) : t[i] = u[i]
      BY <1>5, PrefixMeans
    <2>3. \A i \in 1..Len(s) : s[i] = u[i]
      BY <1>0, <2>0, <2>1, <2>2
    <2>4. QED
      BY <1>0, <2>0, <2>3, PrefixMeans
  <1>6. ASSUME NEW k \in 0..Len(s)
        PROVE  /\ SubSeq(s, 1, k) \in Seq(A) /\ Len(SubSeq(s, 1, k)) = k
               /\ IsPrefix(SubSeq(s, 1, k), s)
    <2>0. k \in Nat /\ k <= Len(s)
      BY <1>0
    <2>1. \A i \in 1..k : s[i] \in A
      BY <1>0, <2>0
    <2> DEFINE u == SubSeq(s, 1, k)
    <2>2. /\ u \in Seq(A) /\ Len(u) = IF 1 <= k THEN k - 1 + 1 ELSE 0
          /\ \A i \in 1..k - 1 + 1 : u[i] = s[1 + i - 1]
      BY <2>0, <2>1, SubSeqProperties, 1 \in Int, k \in Int
    <2> HIDE DEF u
    <2>3. Len(u) = k
      BY <2>0, <2>2
    <2>4. \A i \in 1..Len(u) : u[i] = s[i]
      BY <2>0, <2>2, <2>3
    <2>5. IsPrefix(u, s)
      BY <2>0, <2>2, <2>3, <2>4, PrefixMeans
    <2>6. QED
      BY <2>2, <2>3, <2>5 DEF u
  <1>7. QED
    BY <1>1, <1>2, <1>3, <1>4, <1>5, <1>6

\* What AddPattern is given.
PatternsFit(A, patterns) ==
    /\ patterns \subseteq Seq(A)
    /\ IsFiniteSet(patterns)
    /\ <<>> \notin patterns

\* The trie is finite, holds the patterns, and every prefix of what it holds.
LEMMA TrieIs ==
    ASSUME NEW A, NEW patterns, PatternsFit(A, patterns)
    PROVE  /\ Trie(patterns) \subseteq Seq(A)
           /\ <<>> \in Trie(patterns) /\ patterns \subseteq Trie(patterns)
           /\ IsFiniteSet(Trie(patterns))
           /\ \A n \in Trie(patterns) : \A s \in Seq(A) : IsPrefix(s, n) => s \in Trie(patterns)
  <1>1. ASSUME NEW p \in patterns
        PROVE  /\ Prefixes(p) \subseteq Seq(A) /\ p \in Prefixes(p) /\ IsFiniteSet(Prefixes(p))
               /\ \A s \in Prefixes(p) : IsPrefix(s, p)
               /\ \A s \in Seq(A) : IsPrefix(s, p) => s \in Prefixes(p)
    <2>0. p \in Seq(A) /\ Len(p) \in Nat
      BY DEF PatternsFit
    <2>1. ASSUME NEW s \in Seq(A), IsPrefix(s, p) PROVE s \in Prefixes(p)
      <3>1. Len(s) \in 0..Len(p)
        BY <2>0, <2>1, PrefixOrder
      <3> DEFINE u == SubSeq(p, 1, Len(s))
      <3>2. u \in Seq(A) /\ Len(u) = Len(s) /\ IsPrefix(u, p)
        BY <2>0, <3>1, PrefixOrder
      <3> HIDE DEF u
      <3>3. s = u
        <4>1. Len(s) <= Len(u)
          BY <3>2
        <4>2. QED
          BY <2>0, <2>1, <3>2, <4>1, PrefixesNest
      <3>4. QED
        BY <3>1, <3>3 DEF Prefixes, u
    <2>2. \A s \in Prefixes(p) : s \in Seq(A) /\ IsPrefix(s, p)
      <3>1. \A k \in 0..Len(p) : SubSeq(p, 1, k) \in Seq(A) /\ IsPrefix(SubSeq(p, 1, k), p)
        BY <2>0, PrefixOrder
      <3>2. QED
        BY <3>1 DEF Prefixes
    <2>3. IsPrefix(p, p)
      BY <2>0, PrefixOrder
    <2>4. IsFiniteSet(Prefixes(p))
      <3> DEFINE f == [k \in 0..Len(p) |-> SubSeq(p, 1, k)]
      <3>1. f \in Surjection(0..Len(p), Prefixes(p))
        BY DEF Surjection, Prefixes
      <3>2. IsFiniteSet(0..Len(p))
        BY <2>0, FS_Interval
      <3>3. QED
        BY <3>1, <3>2, FS_Surjection
    <2>5. QED
      BY <2>0, <2>1, <2>2, <2>3, <2>4
  <1> DEFINE G == {Prefixes(p) : p \in patterns}
  <1>2. IsFiniteSet(Trie(patterns))
    <2>1. IsFiniteSet(G)
      <3> DEFINE f == [p \in patterns |-> Prefixes(p)]
      <3>1. f \in Surjection(patterns, G)
        BY DEF Surjection
      <3>2. QED
        BY <3>1, FS_Surjection DEF PatternsFit
    <2>2. \A T \in G : IsFiniteSet(T)
      BY <1>1
    <2>3. IsFiniteSet(UNION G)
      <3> HIDE DEF G
      <3>1. QED
        BY <2>1, <2>2, FS_UNION
    <2>4. IsFiniteSet({<<>>})
      BY FS_Singleton
    <2>5. QED
      BY <2>3, <2>4, FS_Union DEF Trie
  <1>3. \A n \in Trie(patterns) : n = <<>> \/ \E p \in patterns : n \in Prefixes(p)
    BY DEF Trie
  <1>4. Trie(patterns) \subseteq Seq(A)
    <2>1. <<>> \in Seq(A)
      OBVIOUS
    <2>2. \A p \in patterns : Prefixes(p) \subseteq Seq(A)
      BY <1>1
    <2>3. QED
      BY <1>3, <2>1, <2>2
  <1>5. patterns \subseteq Trie(patterns)
    BY <1>1 DEF Trie
  <1>6. ASSUME NEW n \in Trie(patterns), NEW s \in Seq(A), IsPrefix(s, n)
        PROVE  s \in Trie(patterns)
    <2>1. CASE n = <<>>
      <3>1. n \in Seq(A) /\ Len(n) = 0 /\ Len(s) \in Nat
        BY <2>1
      <3>2. Len(s) <= 0
        <4>1. Len(s) <= Len(n)
          BY <1>6, <3>1, PrefixOrder
        <4>2. QED
          BY <3>1, <4>1
      <3>3. s = <<>>
        BY <3>1, <3>2
      <3>4. QED
        BY <3>3 DEF Trie
    <2>2. CASE \E p \in patterns : n \in Prefixes(p)
      <3>1. PICK p \in patterns : n \in Prefixes(p)
        BY <2>2
      <3>2. n \in Seq(A) /\ p \in Seq(A) /\ IsPrefix(n, p)
        BY <1>1, <3>1 DEF PatternsFit
      <3>3. IsPrefix(s, p)
        BY <1>6, <3>2, PrefixOrder
      <3>4. s \in Prefixes(p)
        BY <1>1, <3>3
      <3>5. QED
        BY <3>4 DEF Trie
    <2>3. QED
      BY <1>3, <2>1, <2>2
  <1>7. QED
    BY <1>2, <1>4, <1>5, <1>6 DEF Trie

\* SetToSeq of a finite set lists every element once.
LEMMA SetToSeqIs ==
    ASSUME NEW S, IsFiniteSet(S)
    PROVE  /\ SetToSeq(S) \in Seq(S)
           /\ \A x \in S : \E i \in 1..Len(SetToSeq(S)) : SetToSeq(S)[i] = x
           /\ \A i, j \in 1..Len(SetToSeq(S)) : SetToSeq(S)[i] = SetToSeq(S)[j] => i = j
  <1>1. Cardinality(S) \in Nat /\ ExistsBijection(1..Cardinality(S), S)
    BY FS_CardinalityType
  <1>2. PICK g \in [1..Cardinality(S) -> S] : IsInjective(g)
    BY <1>1 DEF ExistsBijection, Bijection, Injection, IsInjective
  <1> DEFINE f == SetToSeq(S)
  <1>3. f \in [1..Cardinality(S) -> S] /\ IsInjective(f)
    BY <1>2 DEF SetToSeq
  <1>4. f \in Seq(S) /\ Len(f) = Cardinality(S)
    <2> HIDE DEF f
    <2>1. f \in Seq(S)
      BY <1>1, <1>3, SeqDef
    <2>2. QED
      BY <1>1, <1>3, <2>1, LenProperties
  <1>5. \A i, j \in 1..Len(f) : f[i] = f[j] => i = j
    <2> HIDE DEF f
    <2>1. QED
      BY <1>3, <1>4 DEF IsInjective
  <1>6. f \in Surjection(1..Cardinality(S), S)
    <2> HIDE DEF f
    <2>1. f \in Injection(1..Cardinality(S), S)
      BY <1>3 DEF IsInjective, Injection
    <2>2. IsFiniteSet(1..Cardinality(S)) /\ Cardinality(1..Cardinality(S)) = Cardinality(S)
      BY <1>1, FS_Interval
    <2>3. QED
      BY <2>1, <2>2, FS_Injection
  <1>7. \A x \in S : \E i \in 1..Len(f) : f[i] = x
    <2> HIDE DEF f
    <2>1. QED
      BY <1>4, <1>6 DEF Surjection
  <1>8. QED
    BY <1>4, <1>5, <1>7

-----------------------------------------------------------------------------
(* Building the links                                                      *)

\* A node behind one of the queue: it has no link yet.
Waiting(n) == \E i \in DOMAIN queue : IsStrictPrefix(queue[i], n)

\* The queue is in order of length, over two lengths at most; none of its
\* nodes is behind another, and no node with a link is much longer.
QueueFits ==
    /\ queue \in Seq(Nodes)
    /\ \A i \in DOMAIN queue : queue[i] # <<>>
    /\ \A i, j \in DOMAIN queue : IsPrefix(queue[i], queue[j]) => i = j
    /\ \A i, j \in DOMAIN queue : i <= j => /\ Len(queue[i]) <= Len(queue[j])
                                            /\ Len(queue[j]) <= Len(queue[i]) + 1
    /\ \A n \in Nodes : ~Waiting(n) => \A i \in DOMAIN queue : Len(n) <= Len(queue[i]) + 1

\* What BuildFailureLinks has for a node.
NodeFits(n, patterns) ==
    IF n = <<>> \/ Waiting(n)
    THEN fail[n] = <<>> /\ output[n] = {n} \cap patterns
    ELSE LinksTo(n, fail[n]) /\ output[n] = {p \in patterns : IsSuffix(p, n)}

\* The trie of the patterns, with the links that are done.
MatcherInv(patterns) ==
    /\ Nodes = Trie(patterns)
    /\ fail \in [Nodes -> Nodes]
    /\ output \in [Nodes -> SUBSET patterns]
    /\ QueueFits
    /\ \A n \in Nodes : NodeFits(n, patterns)

\* AddPattern for every pattern: the children of the root link to it.
LEMMA MatcherStarts ==
    ASSUME NEW A, NEW patterns, PatternsFit(A, patterns), StartMatcher(patterns)
    PROVE  MatcherInv(patterns)'
  <1> DEFINE trie == Trie(patterns)  S == {n \in trie : Len(n) = 1}  q == SetToSeq(S)
  <1>1. /\ fail' = [n \in trie |-> <<>>] /\ output' = [n \in trie |-> {n} \cap patterns]
        /\ queue' = q
    BY DEF StartMatcher
  <1>2. /\ trie \subseteq Seq(A) /\ <<>> \in trie /\ patterns \subseteq trie /\ IsFiniteSet(trie)
        /\ \A n \in trie : \A s \in Seq(A) : IsPrefix(s, n) => s \in trie
    BY TrieIs
  <1> HIDE DEF trie
  <1>3. Nodes' = trie
    BY <1>1 DEF Nodes
  <1>4. fail' \in [trie -> trie] /\ output' \in [trie -> SUBSET patterns]
    BY <1>1, <1>2
  <1>5. /\ q \in Seq(S)
        /\ \A x \in S : \E i \in 1..Len(q) : q[i] = x
        /\ \A i, j \in 1..Len(q) : q[i] = q[j] => i = j
    <2>1. IsFiniteSet(S)
      BY <1>2, FS_Subset
    <2> HIDE DEF S
    <2>2. QED
      BY <2>1, SetToSeqIs
  <1> HIDE DEF q
  <1>6. S \subseteq trie /\ S \subseteq Seq(A) /\ \A s \in S : Len(s) = 1 /\ s # <<>>
    BY <1>2
  <1>a. \A n \in trie : Len(n) = 1 => n \in S
    OBVIOUS
  <1> HIDE DEF S
  <1>7. DOMAIN queue' = 1..Len(q) /\ \A i \in DOMAIN queue' : queue'[i] \in S
    BY <1>1, <1>5
  <1>8. ASSUME NEW n \in trie
        PROVE  Waiting(n)' <=> Len(n) > 1
    <2>0. n \in Seq(A) /\ Len(n) \in Nat
      BY <1>2
    <2>1. ASSUME NEW i \in DOMAIN queue', IsStrictPrefix(queue'[i], n) PROVE Len(n) > 1
      <3>1. queue'[i] \in Seq(A) /\ Len(queue'[i]) = 1 /\ IsPrefix(queue'[i], n)
        BY <1>6, <1>7, <2>1 DEF IsStrictPrefix
      <3>2. Len(queue'[i]) < Len(n)
        BY <2>0, <2>1, <3>1, PrefixOrder
      <3>3. QED
        BY <3>1, <3>2
    <2>2. ASSUME Len(n) > 1 PROVE \E i \in DOMAIN queue' : IsStrictPrefix(queue'[i], n)
      <3>1. PICK u \in Seq(A) : Len(u) = 1 /\ IsPrefix(u, n)
        <4>1. 1 \in 0..Len(n)
          BY <2>0, <2>2
        <4>2. QED
          BY <2>0, <4>1, PrefixOrder
      <3>2. u \in S
        BY <1>2, <1>a, <3>1
      <3>3. PICK i \in 1..Len(q) : q[i] = u
        BY <1>5, <3>2
      <3>4. IsStrictPrefix(u, n)
        BY <2>0, <2>2, <3>1, PrefixOrder
      <3>5. QED
        BY <1>1, <1>7, <3>3, <3>4
    <2>3. QED
      BY <2>1, <2>2 DEF Waiting
  <1>9. QueueFits'
    <2>1. queue' \in Seq(trie)
      BY <1>1, <1>5, <1>6, SeqMonotonic
    <2>2. ASSUME NEW i \in DOMAIN queue', NEW j \in DOMAIN queue', IsPrefix(queue'[i], queue'[j])
          PROVE  i = j
      <3>1. PICK u \in S, v \in S : u = queue'[i] /\ v = queue'[j]
        BY <1>7
      <3>2. u \in Seq(A) /\ v \in Seq(A) /\ Len(u) = Len(v) /\ Len(u) = 1 /\ IsPrefix(u, v)
        BY <1>6, <2>2, <3>1
      <3>3. ~(Len(u) < Len(v))
        BY <3>2
      <3>4. ~IsStrictPrefix(u, v)
        BY <3>2, <3>3, PrefixOrder
      <3>5. u = v
        BY <3>2, <3>4 DEF IsStrictPrefix
      <3>6. QED
        BY <1>1, <1>5, <1>7, <3>1, <3>5
    <2>3. \A i, j \in DOMAIN queue' : i <= j => /\ Len(queue'[i]) <= Len(queue'[j])
                                                /\ Len(queue'[j]) <= Len(queue'[i]) + 1
      <3>1. \A i \in DOMAIN queue' : Len(queue'[i]) = 1
        BY <1>6, <1>7
      <3>2. QED
        BY <3>1
    <2>4. \A n \in trie : ~Waiting(n)' => \A i \in DOMAIN queue' : Len(n) <= Len(queue'[i]) + 1
      <3> SUFFICES ASSUME NEW n \in trie, ~Waiting(n)', NEW i \in DOMAIN queue'
                   PROVE  Len(n) <= Len(queue'[i]) + 1
        OBVIOUS
      <3>1. Len(n) \in Nat /\ Len(queue'[i]) = 1 /\ ~(Len(n) > 1)
        BY <1>2, <1>6, <1>7, <1>8
      <3>2. QED
        BY <3>1
    <2>5. \A i \in DOMAIN queue' : queue'[i] # <<>>
      BY <1>6, <1>7
    <2>6. QED
      BY <1>3, <2>1, <2>2, <2>3, <2>4, <2>5 DEF QueueFits
  <1>10. ASSUME NEW n \in trie PROVE NodeFits(n, patterns)'
    <2>0. n \in Seq(A) /\ Len(n) \in Nat /\ fail'[n] = <<>> /\ output'[n] = {n} \cap patterns
      BY <1>1, <1>2
    <2>1. CASE n = <<>> \/ Waiting(n)'
      BY <2>0, <2>1 DEF NodeFits
    <2>2. CASE ~(n = <<>> \/ Waiting(n)')
      <3>1. Len(n) = 1
        <4>1. ~(Len(n) > 1)
          BY <1>8, <2>2
        <4>2. Len(n) # 0
          BY <2>0, <2>2
        <4>3. QED
          BY <2>0, <4>1, <4>2
      <3>2. ASSUME NEW s \in trie, IsStrictSuffix(s, n) PROVE s = <<>>
        <4>1. s \in Seq(A) /\ Len(s) \in Nat /\ IsSuffix(s, n)
          BY <1>2, <3>2 DEF IsStrictSuffix
        <4>2. Len(s) < Len(n)
          BY <2>0, <3>2, <4>1, SuffixOrder
        <4>3. QED
          BY <3>1, <4>1, <4>2
      <3>3. PICK e \in trie : e = <<>>
        BY <1>2
      <3>4. e \in Seq(A) /\ IsSuffix(e, n) /\ IsSuffix(e, e) /\ e # n /\ IsSuffix(n, n)
        BY <1>2, <2>0, <2>2, <3>3, SuffixOrder
      <3>5. LinksTo(n, e)'
        BY <1>3, <3>2, <3>3, <3>4 DEF LinksTo, IsStrictSuffix
      <3>6. {p \in patterns : IsSuffix(p, n)} = {n} \cap patterns
        <4>1. ASSUME NEW p \in patterns, IsSuffix(p, n) PROVE p = n
          <5>1. p \in trie /\ p # <<>>
            BY <1>2 DEF PatternsFit
          <5>2. QED
            BY <3>2, <4>1, <5>1 DEF IsStrictSuffix
        <4>2. QED
          BY <3>4, <4>1
      <3>7. fail'[n] = e
        BY <2>0, <3>3
      <3>8. QED
        BY <2>0, <2>2, <3>5, <3>6, <3>7 DEF NodeFits
    <2>3. QED
      BY <2>1, <2>2
  <1>11. QED
    BY <1>3, <1>4, <1>9, <1>10 DEF MatcherInv, trie

\* Links that are there lead to nodes that have theirs.
LEMMA MatcherLinks ==
    ASSUME NEW A, NEW patterns, PatternsFit(A, patterns), MatcherInv(patterns)
    PROVE  LinksLead(A)
  <1>1. Strings(A)
    BY TrieIs DEF MatcherInv, Strings
  <1>2. fail \in [Nodes -> Nodes] /\ Nodes \subseteq Seq(A) /\ \A n \in Nodes : Len(n) \in Nat
    BY <1>1 DEF MatcherInv, Strings
  <1>3. ASSUME NEW m \in Nodes, m # <<>> PROVE Len(fail[m]) < Len(m)
    <2>1. CASE Waiting(m)
      <3>1. fail[m] = <<>>
        BY <2>1 DEF MatcherInv, NodeFits
      <3>2. Len(fail[m]) = 0 /\ Len(m) \in Nat /\ Len(m) # 0
        BY <1>2, <1>3, <3>1
      <3>3. QED
        BY <3>2
    <2>2. CASE ~Waiting(m)
      <3>1. LinksTo(m, fail[m])
        BY <1>3, <2>2 DEF MatcherInv, NodeFits
      <3>2. IsStrictSuffix(fail[m], m) /\ IsSuffix(fail[m], m) /\ fail[m] \in Seq(A) /\ m \in Seq(A)
        BY <1>2, <3>1 DEF LinksTo, IsStrictSuffix
      <3>3. QED
        BY <3>2, SuffixOrder
    <2>3. QED
      BY <2>1, <2>2
  <1>4. ASSUME NEW m \in Nodes, fail[m] # <<>> PROVE LinksTo(fail[m], fail[fail[m]])
    <2>1. ~Waiting(m)
      BY <1>4 DEF MatcherInv, NodeFits
    <2>2. fail[m] \in Nodes
      BY <1>2
    <2>3. CASE m = <<>>
      BY <1>4, <2>3 DEF MatcherInv, NodeFits
    <2>4. CASE m # <<>>
      <3>1. ~Waiting(fail[m])
        <4> SUFFICES ASSUME NEW i \in DOMAIN queue, IsStrictPrefix(queue[i], fail[m]) PROVE FALSE
          BY DEF Waiting
        <4>1. queue[i] \in Nodes
          BY DEF MatcherInv, QueueFits
        <4>2. queue[i] \in Seq(A) /\ fail[m] \in Seq(A) /\ IsPrefix(queue[i], fail[m])
          BY <1>2, <2>2, <4>1 DEF IsStrictPrefix
        <4>3. Len(queue[i]) < Len(fail[m])
          BY <4>2, PrefixOrder
        <4>4. Len(m) <= Len(queue[i]) + 1
          BY <2>1 DEF MatcherInv, QueueFits
        <4>5. Len(fail[m]) < Len(m)
          BY <1>3, <2>4
        <4>6. Len(m) \in Nat /\ Len(fail[m]) \in Nat /\ Len(queue[i]) \in Nat
          BY <1>2, <2>2, <4>1
        <4>7. QED
          BY <4>3, <4>4, <4>5, <4>6
      <3>2. QED
        BY <1>4, <2>2, <3>1 DEF MatcherInv, NodeFits
    <2>5. QED
      BY <2>3, <2>4
  <1>5. QED
    BY <1>1, <1>2, <1>3, <1>4 DEF LinksLead

\* The nodes of the queue, and the children of its head.
LEMMA QueueFacts ==
    ASSUME NEW A, NEW patterns, PatternsFit(A, patterns), MatcherInv(patterns),
           queue # <<>>, NEW h, h = Head(queue)
    PROVE  /\ Nodes \subseteq Seq(A) /\ \A n \in Nodes : Len(n) \in Nat
           /\ \A n \in Nodes : \A s \in Seq(A) : IsPrefix(s, n) => s \in Nodes
           /\ Len(queue) \in Nat \ {0} /\ DOMAIN queue = 1..Len(queue)
           /\ h = queue[1] /\ h \in Nodes /\ h # <<>> /\ ~Waiting(h)
           /\ \A i \in DOMAIN queue : /\ queue[i] \in Nodes /\ Len(h) <= Len(queue[i])
                                      /\ Len(queue[i]) <= Len(h) + 1
           /\ \A i \in DOMAIN queue : IsPrefix(h, queue[i]) \/ IsPrefix(queue[i], h) => i = 1
           /\ \A m \in Children(h) : m \in Nodes /\ Len(m) = Len(h) + 1 /\ IsStrictPrefix(h, m)
           /\ \A m \in Nodes : Len(m) = Len(h) + 1 /\ IsPrefix(h, m) => m \in Children(h)
           /\ IsFiniteSet(Children(h))
  <1>1. /\ Nodes \subseteq Seq(A) /\ IsFiniteSet(Nodes)
        /\ \A n \in Nodes : \A s \in Seq(A) : IsPrefix(s, n) => s \in Nodes
    BY TrieIs DEF MatcherInv
  <1>2. /\ queue \in Seq(Nodes) /\ Len(queue) \in Nat \ {0} /\ DOMAIN queue = 1..Len(queue)
        /\ h = queue[1] /\ 1 \in DOMAIN queue
    BY DEF MatcherInv, QueueFits
  <1>3. \A i \in DOMAIN queue : queue[i] \in Nodes
    BY <1>2
  <1>4. h \in Nodes /\ h # <<>>
    BY <1>2, <1>3 DEF MatcherInv, QueueFits
  <1>5. \A n \in Nodes : Len(n) \in Nat
    BY <1>1
  <1>6. \A i \in DOMAIN queue : /\ Len(h) <= Len(queue[i]) /\ Len(queue[i]) <= Len(h) + 1
    <2>1. \A i \in DOMAIN queue : 1 <= i
      BY <1>2
    <2>2. QED
      BY <1>2, <2>1 DEF MatcherInv, QueueFits
  <1>7. \A i \in DOMAIN queue : IsPrefix(h, queue[i]) \/ IsPrefix(queue[i], h) => i = 1
    BY <1>2 DEF MatcherInv, QueueFits
  <1>8. ~Waiting(h)
    <2> SUFFICES ASSUME NEW i \in DOMAIN queue, IsStrictPrefix(queue[i], h) PROVE FALSE
      BY DEF Waiting
    <2>1. i = 1
      BY <1>7 DEF IsStrictPrefix
    <2>2. QED
      BY <1>2, <2>1 DEF IsStrictPrefix
  <1>9. ASSUME NEW m \in Children(h)
        PROVE  m \in Nodes /\ Len(m) = Len(h) + 1 /\ IsStrictPrefix(h, m)
    <2>1. m \in Nodes /\ Len(m) = Len(h) + 1 /\ IsPrefix(h, m)
      BY DEF Children
    <2>2. m # h
      BY <1>4, <1>5, <2>1
    <2>3. QED
      BY <2>1, <2>2 DEF IsStrictPrefix
  <1>10. IsFiniteSet(Children(h))
    <2>1. Children(h) \in SUBSET Nodes
      BY DEF Children
    <2>2. QED
      BY <1>1, <2>1, FS_Subset
  <1>11. \A m \in Nodes : Len(m) = Len(h) + 1 /\ IsPrefix(h, m) => m \in Children(h)
    BY DEF Children
  <1>12. QED
    BY <1>1, <1>2, <1>3, <1>4, <1>5, <1>6, <1>7, <1>8, <1>9, <1>10, <1>11

\* The queue after one turn: its tail, and the children of its head.
LEMMA QueueGrows ==
    ASSUME NEW A, NEW patterns, PatternsFit(A, patterns), MatcherInv(patterns),
           BuildFailureLinks, NEW h, h = Head(queue)
    PROVE  /\ queue' \in Seq(Nodes)
           /\ \A i \in DOMAIN queue' :
                 \/ i + 1 \in DOMAIN queue /\ queue'[i] = queue[i + 1]
                 \/ i >= Len(queue) /\ queue'[i] \in Children(h)
           /\ \A i, j \in DOMAIN queue' :
                 queue'[i] \in Children(h) /\ queue'[i] = queue'[j]
                 /\ i >= Len(queue) /\ j >= Len(queue) => i = j
           /\ \A i \in DOMAIN queue : i # 1 => \E j \in DOMAIN queue' : queue'[j] = queue[i]
           /\ \A m \in Children(h) : \E j \in DOMAIN queue' : queue'[j] = m
  <1> DEFINE L == SetToSeq(Children(h))  N == Len(queue)
  <1>1. queue # <<>> /\ queue' = Tail(queue) \o L
    BY DEF BuildFailureLinks
  <1>2. IsFiniteSet(Children(h)) /\ Children(h) \subseteq Nodes
    BY <1>1, QueueFacts
  <1>3. /\ L \in Seq(Children(h)) /\ L \in Seq(Nodes)
        /\ \A x \in Children(h) : \E i \in 1..Len(L) : L[i] = x
        /\ \A i, j \in 1..Len(L) : L[i] = L[j] => i = j
    BY <1>2, SetToSeqIs, SeqMonotonic
  <1> HIDE DEF L
  <1>4. Len(L) \in Nat /\ N \in Nat \ {0} /\ \A i \in 1..Len(L) : L[i] \in Children(h)
    BY <1>1, <1>3, QueueFacts
  <1>5. queue \in Seq(Nodes) /\ DOMAIN queue = 1..N
    BY <1>1, QueueFacts DEF MatcherInv, QueueFits
  <1>6. /\ Tail(queue) \in Seq(Nodes) /\ Len(Tail(queue)) = N - 1
        /\ \A i \in 1..N - 1 : Tail(queue)[i] = queue[i + 1]
    BY <1>1, <1>5, HeadTailProperties
  <1>7. /\ queue' \in Seq(Nodes) /\ Len(queue') = (N - 1) + Len(L)
        /\ \A i \in 1..(N - 1) + Len(L) :
              queue'[i] = IF i <= N - 1 THEN Tail(queue)[i] ELSE L[i - (N - 1)]
    BY <1>1, <1>3, <1>6, ConcatProperties
  <1>8. DOMAIN queue' = 1..(N - 1) + Len(L)
    BY <1>7
  <1>9. \A i \in 1..N - 1 : i \in DOMAIN queue' /\ queue'[i] = queue[i + 1]
    BY <1>4, <1>6, <1>7, <1>8
  <1>10. \A i \in 1..Len(L) : i + (N - 1) \in DOMAIN queue' /\ queue'[i + (N - 1)] = L[i]
    <2> TAKE i \in 1..Len(L)
    <2>1. i + (N - 1) \in 1..(N - 1) + Len(L) /\ ~(i + (N - 1) <= N - 1)
          /\ (i + (N - 1)) - (N - 1) = i
      BY <1>4
    <2>2. QED
      BY <1>7, <1>8, <2>1
  <1>11. ASSUME NEW i \in DOMAIN queue'
         PROVE  \/ i + 1 \in DOMAIN queue /\ queue'[i] = queue[i + 1]
                \/ /\ i >= N /\ i - (N - 1) \in 1..Len(L)
                   /\ queue'[i] = L[i - (N - 1)] /\ queue'[i] \in Children(h)
    <2>1. CASE i <= N - 1
      <3>1. i \in 1..N - 1 /\ i + 1 \in 1..N
        BY <1>4, <1>8, <2>1
      <3>2. QED
        BY <1>5, <1>9, <3>1
    <2>2. CASE ~(i <= N - 1)
      <3>1. i - (N - 1) \in 1..Len(L) /\ i >= N
        BY <1>4, <1>8, <2>2
      <3>2. QED
        BY <1>4, <1>7, <1>8, <2>2, <3>1
    <2>3. QED
      BY <2>1, <2>2
  <1>12. ASSUME NEW i \in DOMAIN queue', NEW j \in DOMAIN queue',
                queue'[i] = queue'[j], i >= N, j >= N
         PROVE  i = j
    <2>1. \A k \in DOMAIN queue : k <= N
      BY <1>4, <1>5
    <2>2. i \in Nat /\ j \in Nat /\ ~(i + 1 \in DOMAIN queue) /\ ~(j + 1 \in DOMAIN queue)
      BY <1>4, <1>8, <1>12, <2>1
    <2>3. /\ i - (N - 1) \in 1..Len(L) /\ queue'[i] = L[i - (N - 1)]
          /\ j - (N - 1) \in 1..Len(L) /\ queue'[j] = L[j - (N - 1)]
      BY <1>11, <2>2
    <2>4. i - (N - 1) = j - (N - 1)
      <3>1. PICK x \in 1..Len(L), y \in 1..Len(L) :
               /\ x = i - (N - 1) /\ y = j - (N - 1)
               /\ queue'[i] = L[x] /\ queue'[j] = L[y]
        BY <2>3
      <3>2. L[x] = L[y]
        BY <1>12, <3>1
      <3>3. x = y
        BY <1>3, <3>2
      <3>4. QED
        BY <3>1, <3>3
    <2>5. QED
      BY <1>4, <2>2, <2>4
  <1>13. ASSUME NEW i \in DOMAIN queue, i # 1
         PROVE  \E j \in DOMAIN queue' : queue'[j] = queue[i]
    <2>1. i - 1 \in 1..N - 1 /\ (i - 1) + 1 = i
      BY <1>4, <1>5, <1>13
    <2>2. QED
      BY <1>9, <2>1
  <1>14. \A m \in Children(h) : \E j \in DOMAIN queue' : queue'[j] = m
    BY <1>3, <1>10
  <1>15. QED
    BY <1>7, <1>11, <1>12, <1>13, <1>14

\* A turn links the children of the head, and no other node.
LEMMA WaitingChanges ==
    ASSUME NEW A, NEW patterns, PatternsFit(A, patterns), MatcherInv(patterns),
           BuildFailureLinks, NEW h, h = Head(queue), NEW n \in Nodes
    PROVE  /\ n \in Children(h) => Waiting(n) /\ ~Waiting(n)'
           /\ n \notin Children(h) => (Waiting(n)' <=> Waiting(n))
  <1>0. queue # <<>>
    BY DEF BuildFailureLinks
  <1>1. /\ Nodes \subseteq Seq(A) /\ n \in Seq(A) /\ Len(n) \in Nat /\ h \in Nodes /\ h \in Seq(A)
        /\ Len(h) \in Nat /\ 1 \in DOMAIN queue /\ h = queue[1]
        /\ \A i \in DOMAIN queue : queue[i] \in Seq(A)
        /\ \A m \in Children(h) : m \in Seq(A) /\ Len(m) = Len(h) + 1 /\ IsStrictPrefix(h, m)
    BY <1>0, QueueFacts
  <1>2. ASSUME NEW s \in Seq(A), IsStrictPrefix(s, n), n \in Children(h)
        PROVE  IsPrefix(s, h) /\ s \notin Children(h)
    <2>1. IsPrefix(s, n) /\ Len(s) < Len(n) /\ Len(s) \in Nat /\ IsPrefix(h, n)
          /\ Len(n) = Len(h) + 1
      BY <1>1, <1>2, PrefixOrder DEF IsStrictPrefix
    <2>2. Len(s) <= Len(h)
      BY <1>1, <2>1
    <2>3. IsPrefix(s, h)
      BY <1>1, <2>1, <2>2, PrefixesNest
    <2>4. QED
      BY <1>1, <2>1, <2>2, <2>3
  <1>3. ASSUME n \in Children(h) PROVE Waiting(n) /\ ~Waiting(n)'
    <2>1. Waiting(n)
      BY <1>1, <1>3 DEF Waiting
    <2>2. ASSUME NEW i \in DOMAIN queue', IsStrictPrefix(queue'[i], n) PROVE FALSE
      <3>1. CASE i + 1 \in DOMAIN queue /\ queue'[i] = queue[i + 1]
        <4>1. IsPrefix(queue[i + 1], h)
          BY <1>1, <1>2, <1>3, <2>2, <3>1
        <4>2. i + 1 = 1
          BY <1>0, <3>1, <4>1, QueueFacts
        <4>3. i \in Nat \ {0}
          <5>1. queue' \in Seq(Nodes)
            BY <1>0, QueueGrows
          <5>2. QED
            BY <5>1
        <4>4. QED
          BY <4>2, <4>3
      <3>2. CASE queue'[i] \in Children(h)
        BY <1>1, <1>2, <1>3, <2>2, <3>2
      <3>3. QED
        BY <3>1, <3>2, QueueGrows
    <2>3. QED
      BY <2>1, <2>2 DEF Waiting
  <1>4. ASSUME n \notin Children(h), Waiting(n) PROVE Waiting(n)'
    <2>1. PICK i \in DOMAIN queue : IsStrictPrefix(queue[i], n)
      BY <1>4 DEF Waiting
    <2>2. CASE i # 1
      <3>1. \E j \in DOMAIN queue' : queue'[j] = queue[i]
        BY <2>2, QueueGrows
      <3>2. QED
        BY <2>1, <3>1 DEF Waiting
    <2>3. CASE i = 1
      <3>1. IsStrictPrefix(h, n) /\ IsPrefix(h, n) /\ Len(h) < Len(n)
        BY <1>1, <2>1, <2>3, PrefixOrder DEF IsStrictPrefix
      <3>2. Len(h) + 1 \in 0..Len(n)
        BY <1>1, <3>1
      <3>3. PICK c \in Seq(A) : Len(c) = Len(h) + 1 /\ IsPrefix(c, n)
        <4>1. \A k \in 0..Len(n) : /\ SubSeq(n, 1, k) \in Seq(A)
                                   /\ Len(SubSeq(n, 1, k)) = k
                                   /\ IsPrefix(SubSeq(n, 1, k), n)
          BY <1>1, PrefixOrder
        <4>2. QED
          BY <3>2, <4>1
      <3>4. Len(h) <= Len(c)
        BY <1>1, <3>3
      <3>5. c \in Nodes /\ IsPrefix(h, c)
        BY <1>0, <1>1, <3>1, <3>3, <3>4, PrefixesNest, QueueFacts
      <3>6. c \in Children(h)
        BY <1>0, <3>3, <3>5, QueueFacts
      <3>7. IsStrictPrefix(c, n)
        BY <1>4, <3>3, <3>6 DEF IsStrictPrefix
      <3>8. \E j \in DOMAIN queue' : queue'[j] = c
        BY <3>6, QueueGrows
      <3>9. QED
        BY <3>7, <3>8 DEF Waiting
    <2>4. QED
      BY <2>2, <2>3
  <1>5. ASSUME Waiting(n)' PROVE Waiting(n)
    <2>1. PICK i \in DOMAIN queue' : IsStrictPrefix(queue'[i], n)
      BY <1>5 DEF Waiting
    <2>2. CASE i + 1 \in DOMAIN queue /\ queue'[i] = queue[i + 1]
      BY <2>1, <2>2 DEF Waiting
    <2>3. CASE queue'[i] \in Children(h)
      <3>1. PICK c \in Children(h) : c = queue'[i]
        BY <2>3
      <3>2. /\ c \in Seq(A) /\ IsPrefix(c, n) /\ IsPrefix(h, c) /\ Len(c) < Len(n)
            /\ Len(c) = Len(h) + 1
        BY <1>1, <2>1, <3>1, PrefixOrder DEF IsStrictPrefix
      <3>3. IsPrefix(h, n) /\ Len(h) < Len(n)
        BY <1>1, <3>2, PrefixOrder
      <3>4. IsStrictPrefix(h, n)
        BY <1>1, <3>3, PrefixOrder
      <3>5. QED
        BY <1>1, <3>4 DEF Waiting
    <2>4. QED
      BY <2>2, <2>3, QueueGrows
  <1>6. QED
    BY <1>3, <1>4, <1>5

\* A turn leaves the queue in order.
LEMMA QueueKept ==
    ASSUME NEW A, NEW patterns, PatternsFit(A, patterns), MatcherInv(patterns),
           BuildFailureLinks
    PROVE  Nodes' = Nodes /\ QueueFits'
  <1>0. queue # <<>>
    BY DEF BuildFailureLinks
  <1> DEFINE N == Len(queue)
  <1>1. PICK h : h = Head(queue)
    OBVIOUS
  <1>2. Nodes' = Nodes
    BY DEF BuildFailureLinks, Nodes, MatcherInv
  <1>3. /\ Nodes \subseteq Seq(A) /\ \A n \in Nodes : Len(n) \in Nat
        /\ N \in Nat \ {0} /\ DOMAIN queue = 1..N /\ h \in Nodes /\ h # <<>> /\ h = queue[1]
        /\ \A i \in DOMAIN queue : queue[i] \in Nodes
        /\ \A m \in Children(h) : m \in Nodes /\ Len(m) = Len(h) + 1 /\ IsPrefix(h, m)
    BY <1>0, <1>1, QueueFacts DEF IsStrictPrefix
  <1>4. queue' \in Seq(Nodes) /\ \A i \in DOMAIN queue' : i \in Nat \ {0} /\ queue'[i] \in Nodes
    <2>1. queue' \in Seq(Nodes)
      BY <1>1, QueueGrows
    <2>2. QED
      BY <2>1
  <1>5. ASSUME NEW i \in DOMAIN queue'
        PROVE  \/ /\ i + 1 \in DOMAIN queue /\ queue'[i] = queue[i + 1] /\ i < N
                  /\ ~IsPrefix(h, queue'[i]) /\ ~IsPrefix(queue'[i], h)
               \/ i >= N /\ queue'[i] \in Children(h)
    <2>1. CASE i + 1 \in DOMAIN queue /\ queue'[i] = queue[i + 1]
      <3>1. i + 1 # 1 /\ i < N
        BY <1>3, <1>4, <2>1
      <3>2. ~IsPrefix(h, queue[i + 1]) /\ ~IsPrefix(queue[i + 1], h)
        BY <1>0, <1>1, <2>1, <3>1, QueueFacts
      <3>3. QED
        BY <2>1, <3>1, <3>2
    <2>2. QED
      BY <1>1, <2>1, QueueGrows
  <1>6. ASSUME NEW i \in DOMAIN queue'
        PROVE  Len(h) <= Len(queue'[i]) /\ Len(queue'[i]) <= Len(h) + 1
    <2>1. CASE i + 1 \in DOMAIN queue /\ queue'[i] = queue[i + 1]
      BY <1>0, <1>1, <2>1, QueueFacts
    <2>2. CASE queue'[i] \in Children(h)
      <3>1. Len(queue'[i]) = Len(h) + 1 /\ Len(h) \in Nat
        BY <1>3, <2>2
      <3>2. QED
        BY <3>1
    <2>3. QED
      BY <1>5, <2>1, <2>2
  <1>7. \A i \in DOMAIN queue' : queue'[i] # <<>>
    <2> TAKE i \in DOMAIN queue'
    <2>1. Len(h) \in Nat \ {0} /\ Len(queue'[i]) \in Nat
      BY <1>3, <1>4
    <2>2. Len(queue'[i]) # 0
      BY <1>6, <2>1
    <2>3. QED
      BY <2>2
  <1>8. ASSUME NEW i \in DOMAIN queue', NEW j \in DOMAIN queue', IsPrefix(queue'[i], queue'[j])
        PROVE  i = j
    <2>0. PICK u \in Nodes, v \in Nodes : u = queue'[i] /\ v = queue'[j]
      BY <1>4
    <2>1. u \in Seq(A) /\ v \in Seq(A) /\ h \in Seq(A) /\ IsPrefix(u, v)
          /\ Len(u) \in Nat /\ Len(v) \in Nat /\ Len(h) \in Nat
      BY <1>3, <1>8, <2>0
    <2>2. CASE i < N /\ j < N
      <3>1. i + 1 \in DOMAIN queue /\ j + 1 \in DOMAIN queue
            /\ u = queue[i + 1] /\ v = queue[j + 1]
        BY <1>3, <1>4, <1>5, <2>0, <2>2
      <3>2. i + 1 = j + 1
        BY <2>1, <3>1 DEF MatcherInv, QueueFits
      <3>3. QED
        BY <1>4, <3>2
    <2>3. CASE u \in Children(h) /\ j < N
      <3>1. ~IsPrefix(h, v) /\ IsPrefix(h, u)
        BY <1>3, <1>4, <1>5, <2>0, <2>3
      <3>2. QED
        BY <2>1, <3>1, PrefixOrder
    <2>4. CASE i < N /\ v \in Children(h)
      <3>1. ~IsPrefix(h, u) /\ ~IsPrefix(u, h) /\ IsPrefix(h, v)
        BY <1>3, <1>4, <1>5, <2>0, <2>4
      <3>2. CASE Len(u) <= Len(h)
        BY <2>1, <3>1, <3>2, PrefixesNest
      <3>3. CASE Len(h) <= Len(u)
        BY <2>1, <3>1, <3>3, PrefixesNest
      <3>4. QED
        BY <2>1, <3>2, <3>3
    <2>5. CASE i >= N /\ j >= N
      <3>1. u \in Children(h) /\ v \in Children(h)
        BY <1>3, <1>4, <1>5, <2>0, <2>5
      <3>2. ~(Len(u) < Len(v))
        BY <1>3, <2>1, <3>1
      <3>3. u = v
        BY <2>1, <3>2, PrefixOrder DEF IsStrictPrefix
      <3>4. QED
        BY <1>1, <2>0, <2>5, <3>1, <3>3, QueueGrows
    <2>6. QED
      BY <1>3, <1>4, <1>5, <2>0, <2>2, <2>3, <2>4, <2>5
  <1>9. ASSUME NEW i \in DOMAIN queue', NEW j \in DOMAIN queue', i <= j
        PROVE  Len(queue'[i]) <= Len(queue'[j]) /\ Len(queue'[j]) <= Len(queue'[i]) + 1
    <2>0. Len(queue'[i]) \in Nat /\ Len(queue'[j]) \in Nat /\ Len(h) \in Nat
      BY <1>3, <1>4
    <2>1. Len(queue'[j]) <= Len(queue'[i]) + 1
      BY <1>6, <2>0
    <2>2. CASE j < N
      <3>0. i \in Nat /\ j \in Nat /\ i < N /\ i + 1 <= j + 1
        BY <1>3, <1>4, <1>9, <2>2
      <3>1. i + 1 \in DOMAIN queue /\ j + 1 \in DOMAIN queue
            /\ queue'[i] = queue[i + 1] /\ queue'[j] = queue[j + 1]
        BY <1>3, <1>5, <2>2, <3>0
      <3>2. Len(queue[i + 1]) <= Len(queue[j + 1])
        <4>1. \A k, l \in DOMAIN queue : k <= l => Len(queue[k]) <= Len(queue[l])
          BY DEF MatcherInv, QueueFits
        <4>2. PICK k \in DOMAIN queue, l \in DOMAIN queue : k = i + 1 /\ l = j + 1
          BY <3>1
        <4>3. Len(queue[k]) <= Len(queue[l])
          BY <3>0, <4>1, <4>2
        <4>4. QED
          BY <4>2, <4>3
      <3>3. QED
        BY <2>1, <3>1, <3>2
    <2>3. CASE queue'[j] \in Children(h)
      <3>1. Len(queue'[j]) = Len(h) + 1
        BY <1>3, <2>3
      <3>2. QED
        BY <1>6, <2>0, <2>1, <3>1
    <2>4. QED
      BY <1>3, <1>5, <2>2, <2>3
  <1>10. ASSUME NEW n \in Nodes, ~Waiting(n)', NEW i \in DOMAIN queue'
         PROVE  Len(n) <= Len(queue'[i]) + 1
    <2>0. Len(n) \in Nat /\ Len(h) \in Nat /\ Len(queue'[i]) \in Nat
      BY <1>3, <1>4
    <2>1. CASE n \in Children(h)
      <3>1. Len(n) = Len(h) + 1
        BY <1>3, <2>1
      <3>2. QED
        BY <1>6, <2>0, <3>1
    <2>2. CASE n \notin Children(h)
      <3>1. ~Waiting(n)
        BY <1>1, <1>10, <2>2, WaitingChanges
      <3>2. Len(n) <= Len(h) + 1
        <4>1. \A j \in DOMAIN queue : Len(n) <= Len(queue[j]) + 1
          BY <3>1 DEF MatcherInv, QueueFits
        <4>2. 1 \in DOMAIN queue
          BY <1>3
        <4>3. QED
          BY <1>3, <4>1, <4>2
      <3>3. QED
        BY <1>6, <2>0, <3>2
    <2>3. QED
      BY <2>1, <2>2
  <1>11. QED
    BY <1>2, <1>4, <1>7, <1>8, <1>9, <1>10 DEF QueueFits

\* The link of a child is right if those of shorter nodes are.
LEMMA LinkIsRight ==
    ASSUME NEW A, LinksLead(A), NEW h \in Nodes, h # <<>>, LinksTo(h, fail[h]),
           NEW m \in Nodes, Len(m) = Len(h) + 1, IsPrefix(h, m)
    PROVE  LinksTo(m, Goto(fail[h], Last(m)))
  <1>0. /\ Nodes \subseteq Seq(A) /\ fail \in [Nodes -> Nodes]
        /\ \A n \in Nodes : \A s \in Seq(A) : IsPrefix(s, n) => s \in Nodes
    BY DEF LinksLead, Strings
  <1>1. PICK c \in A : c = Last(m) /\ m = Append(h, c)
    <2>0. m \in Seq(A) /\ h \in Seq(A) /\ Len(h) \in Nat /\ m # <<>>
      BY <1>0
    <2>1. PICK f \in Seq(A), d \in A :
             /\ m = Append(f, d) /\ d = Last(m) /\ IsPrefix(f, m) /\ Len(f) = Len(m) - 1
      BY <2>0, AllButLast, FrontIsPrefix
    <2>2. Len(f) = Len(h)
      BY <2>0, <2>1
    <2>3. f = h
      <3>1. Len(f) <= Len(h)
        BY <2>0, <2>2
      <3>2. QED
        BY <2>0, <2>1, <2>2, <3>1, PrefixesNest
    <2>4. QED
      BY <2>1, <2>3
  <1>2. PICK f \in Nodes : f = fail[h]
    BY <1>0
  <1>3. h \in Seq(A) /\ f \in Seq(A) /\ m \in Seq(A) /\ Len(h) \in Nat /\ Len(f) \in Nat
    BY <1>0
  <1>4. IsSuffix(f, h) /\ IsStrictSuffix(f, h) /\ Len(f) < Len(h)
    BY <1>2, <1>3, SuffixOrder DEF LinksTo, IsStrictSuffix
  <1>5. f = <<>> \/ LinksTo(f, fail[f])
    BY <1>2 DEF LinksLead
  <1> DEFINE g == Goto(f, c)
  <1>6. /\ g \in Nodes /\ IsSuffix(g, Append(f, c))
        /\ \A s \in Nodes : IsSuffix(s, Append(f, c)) => IsSuffix(s, g)
    BY <1>5, GotoIsLongest
  <1> HIDE DEF g
  <1>7. IsStrictSuffix(g, m)
    <2>1. Append(f, c) \in Seq(A) /\ Len(Append(f, c)) = Len(f) + 1 /\ g \in Seq(A)
      BY <1>0, <1>3, <1>6, AppendProperties
    <2>2. IsSuffix(Append(f, c), m)
      BY <1>1, <1>3, <1>4, AppendSuffix
    <2>3. IsSuffix(g, m)
      BY <1>3, <1>6, <2>1, <2>2, SuffixOrder
    <2>4. Len(g) <= Len(f) + 1 /\ Len(g) \in Nat
      <3>1. PICK a \in Seq(A) : a = Append(f, c)
        BY <2>1
      <3>2. IsSuffix(g, a)
        BY <1>6, <3>1
      <3>3. Len(g) <= Len(a)
        BY <2>1, <3>2, SuffixOrder
      <3>4. QED
        BY <2>1, <3>1, <3>3
    <2>5. Len(g) < Len(m)
      BY <1>3, <1>4, <2>4
    <2>6. QED
      BY <1>3, <2>1, <2>3, <2>5, SuffixOrder
  <1>8. ASSUME NEW s \in Nodes, IsStrictSuffix(s, m) PROVE IsSuffix(s, g)
    <2>1. s \in Seq(A) /\ g \in Seq(A)
      BY <1>0, <1>6
    <2>2. CASE s = <<>>
      BY <2>1, <2>2, SuffixOrder
    <2>3. CASE s # <<>>
      <3>1. PICK a \in Seq(A), d \in A : s = Append(a, d) /\ IsPrefix(a, s)
        BY <2>1, <2>3, AllButLast, FrontIsPrefix
      <3>2. a \in Nodes
        BY <1>0, <3>1
      <3>3. IsSuffix(Append(a, d), Append(h, c)) /\ s # m
        BY <1>1, <1>8, <3>1 DEF IsStrictSuffix
      <3>4. d = c /\ IsSuffix(a, h)
        BY <1>3, <3>1, <3>3, AppendSuffix
      <3>5. IsStrictSuffix(a, h)
        BY <1>1, <3>1, <3>3, <3>4 DEF IsStrictSuffix
      <3>6. IsSuffix(a, f)
        BY <1>2, <3>2, <3>5 DEF LinksTo
      <3>7. IsSuffix(Append(a, c), Append(f, c))
        BY <1>3, <3>1, <3>6, AppendSuffix
      <3>8. QED
        BY <1>6, <3>1, <3>4, <3>7
    <2>4. QED
      BY <2>2, <2>3
  <1>9. QED
    BY <1>1, <1>2, <1>6, <1>7, <1>8 DEF LinksTo, g

\* Every turn of the loop of BuildFailureLinks keeps MatcherInv.
LEMMA MatcherKept ==
    ASSUME NEW A, NEW patterns, PatternsFit(A, patterns), MatcherInv(patterns),
           BuildFailureLinks
    PROVE  MatcherInv(patterns)'
  <1>0. queue # <<>>
    BY DEF BuildFailureLinks
  <1>1. PICK h : h = Head(queue)
    OBVIOUS
  <1>2. Nodes' = Nodes /\ QueueFits'
    BY QueueKept
  <1>3. LinksLead(A)
    BY MatcherLinks
  <1>4. /\ Nodes \subseteq Seq(A) /\ \A n \in Nodes : Len(n) \in Nat
        /\ h \in Nodes /\ h # <<>> /\ ~Waiting(h)
        /\ \A i \in DOMAIN queue : queue[i] \in Nodes /\ Len(h) <= Len(queue[i])
        /\ \A m \in Children(h) : m \in Nodes /\ Len(m) = Len(h) + 1 /\ IsPrefix(h, m)
    BY <1>0, <1>1, QueueFacts DEF IsStrictPrefix
  <1>5. LinksTo(h, fail[h])
    BY <1>4 DEF MatcherInv, NodeFits
  <1> DEFINE C == Children(h)  link == [m \in C |-> Goto(fail[h], Last(m))]
  <1>6. \A m \in C : LinksTo(m, link[m]) /\ link[m] \in Nodes
    BY <1>3, <1>4, <1>5, LinkIsRight DEF LinksTo
  <1>7. /\ fail' = [m \in Nodes |-> IF m \in C THEN link[m] ELSE fail[m]]
        /\ output' = [m \in Nodes |-> IF m \in C THEN output[m] \cup output[link[m]] ELSE output[m]]
    BY <1>1 DEF BuildFailureLinks
  <1>8. fail \in [Nodes -> Nodes] /\ output \in [Nodes -> SUBSET patterns] /\ Nodes = Trie(patterns)
    BY DEF MatcherInv
  <1> HIDE DEF C, link
  <1>9. fail' \in [Nodes -> Nodes] /\ output' \in [Nodes -> SUBSET patterns]
    BY <1>6, <1>7, <1>8
  <1>10. ASSUME NEW n \in Nodes PROVE NodeFits(n, patterns)'
    <2>0. NodeFits(n, patterns)
      BY DEF MatcherInv
    <2>1. CASE n \notin C
      <3>1. fail'[n] = fail[n] /\ output'[n] = output[n]
        BY <1>7, <2>1
      <3>2. Waiting(n)' <=> Waiting(n)
        BY <1>1, <2>1, WaitingChanges DEF C
      <3>3. LinksTo(n, fail[n]) => LinksTo(n, fail[n])'
        <4>1. PICK f : f = fail[n]
          OBVIOUS
        <4>2. LinksTo(n, f) => LinksTo(n, f)'
          BY <1>2 DEF LinksTo
        <4>3. fail'[n] = f
          BY <3>1, <4>1
        <4>4. QED
          BY <4>1, <4>2, <4>3
      <3>4. QED
        BY <2>0, <3>1, <3>2, <3>3 DEF NodeFits
    <2>2. CASE n \in C
      <3>1. Waiting(n) /\ ~Waiting(n)'
        BY <1>1, <2>2, WaitingChanges DEF C
      <3>2. output[n] = {n} \cap patterns
        BY <2>0, <3>1 DEF NodeFits
      <3>3. PICK f \in Nodes : f = link[n] /\ LinksTo(n, f)
        BY <1>6, <2>2
      <3>4. fail'[n] = f /\ output'[n] = ({n} \cap patterns) \cup output[f]
        BY <1>7, <2>2, <3>2, <3>3
      <3>5. LinksTo(n, f)'
        BY <1>2, <3>3 DEF LinksTo
      <3>6. /\ n \in Seq(A) /\ f \in Seq(A) /\ IsSuffix(f, n) /\ Len(f) < Len(n)
            /\ Len(n) = Len(h) + 1 /\ Len(f) \in Nat /\ Len(n) \in Nat /\ n # <<>>
            /\ Len(h) \in Nat /\ IsSuffix(n, n)
        <4>1. n \in Seq(A) /\ f \in Seq(A) /\ Len(n) = Len(h) + 1 /\ Len(h) \in Nat
          BY <1>4, <2>2 DEF C
        <4>2. IsSuffix(f, n) /\ Len(f) < Len(n) /\ IsSuffix(n, n)
          BY <3>3, <4>1, SuffixOrder DEF LinksTo, IsStrictSuffix
        <4>3. n # <<>>
          BY <4>1
        <4>4. QED
          BY <4>1, <4>2, <4>3
      <3>7. output[f] = {p \in patterns : IsSuffix(p, f)}
        <4>1. CASE f = <<>>
          <5>1. output[f] = {}
            BY <4>1 DEF MatcherInv, NodeFits, PatternsFit
          <5>2. ASSUME NEW p \in patterns, IsSuffix(p, f) PROVE FALSE
            <6>1. p \in Seq(A) /\ p # <<>> /\ Len(f) = 0
              BY <4>1 DEF PatternsFit
            <6>2. Len(p) <= Len(f)
              BY <3>6, <5>2, <6>1, SuffixOrder
            <6>3. Len(p) \in Nat /\ Len(p) # 0
              BY <6>1
            <6>4. QED
              BY <6>1, <6>2, <6>3
          <5>3. QED
            BY <5>1, <5>2
        <4>2. CASE f # <<>>
          <5>1. ~Waiting(f)
            <6> SUFFICES ASSUME NEW i \in DOMAIN queue, IsStrictPrefix(queue[i], f) PROVE FALSE
              BY DEF Waiting
            <6>1. queue[i] \in Seq(A) /\ Len(h) <= Len(queue[i]) /\ Len(queue[i]) \in Nat
              BY <1>4
            <6>2. Len(queue[i]) < Len(f)
              BY <3>6, <6>1, PrefixOrder DEF IsStrictPrefix
            <6>3. QED
              BY <3>6, <6>1, <6>2
          <5>2. QED
            BY <4>2, <5>1 DEF MatcherInv, NodeFits
        <4>3. QED
          BY <4>1, <4>2
      <3>8. ASSUME NEW p \in patterns
            PROVE  IsSuffix(p, n) <=> p = n \/ IsSuffix(p, f)
        <4>1. p \in Nodes /\ p \in Seq(A)
          BY <1>4, <1>8, TrieIs
        <4>2. IsSuffix(p, n) /\ p # n => IsSuffix(p, f)
          BY <3>3, <4>1 DEF LinksTo, IsStrictSuffix
        <4>3. IsSuffix(p, f) => IsSuffix(p, n)
          BY <3>6, <4>1, SuffixOrder
        <4>4. QED
          BY <3>6, <4>2, <4>3
      <3>9. output'[n] = {p \in patterns : IsSuffix(p, n)}
        BY <3>4, <3>7, <3>8
      <3>10. QED
        BY <3>1, <3>4, <3>5, <3>6, <3>9 DEF NodeFits
    <2>3. QED
      BY <2>1, <2>2
  <1>11. QED
    BY <1>2, <1>8, <1>9, <1>10 DEF MatcherInv

\* The strings in output at their own node are the patterns.
LEMMA PatternsShow ==
    ASSUME NEW A, NEW patterns, PatternsFit(A, patterns), MatcherInv(patterns)
    PROVE  {p \in Nodes : p \in output[p]} = patterns
  <1>1. Nodes \subseteq Seq(A) /\ patterns \subseteq Nodes /\ output \in [Nodes -> SUBSET patterns]
    BY TrieIs DEF MatcherInv
  <1>2. ASSUME NEW p \in patterns PROVE p \in output[p]
    <2>1. p \in Nodes /\ p \in Seq(A) /\ IsSuffix(p, p) /\ NodeFits(p, patterns)
      BY <1>1, SuffixOrder DEF MatcherInv
    <2>2. QED
      BY <2>1 DEF NodeFits
  <1>3. QED
    BY <1>1, <1>2

\* When the queue is empty, every link is the longest suffix that is a node and
\* every node has all the patterns that end there.
LEMMA MatcherDone ==
    ASSUME NEW A, NEW patterns, PatternsFit(A, patterns), MatcherInv(patterns), queue = <<>>
    PROVE  /\ LinksAreRight(Nodes, patterns)
           /\ \A n \in Nodes : output[n] = {p \in patterns : IsSuffix(p, n)}
           /\ \A n \in Nodes : n = <<>> \/ LinksTo(n, fail[n])
  <1>0. Nodes \subseteq Seq(A) /\ <<>> \in Nodes
    BY TrieIs DEF MatcherInv
  <1>1. \A n \in Nodes : ~Waiting(n)
    <2>1. DOMAIN queue = {}
      OBVIOUS
    <2>2. QED
      BY <2>1 DEF Waiting
  <1>2. \A n \in Nodes \ {<<>>} : LinksTo(n, fail[n]) /\ output[n] = {p \in patterns : IsSuffix(p, n)}
    BY <1>1 DEF MatcherInv, NodeFits
  <1>3. ASSUME NEW n \in Nodes, n = <<>> PROVE output[n] = {p \in patterns : IsSuffix(p, n)}
    <2>1. output[n] = {}
      BY <1>3 DEF MatcherInv, NodeFits, PatternsFit
    <2>2. ASSUME NEW p \in patterns, IsSuffix(p, n) PROVE FALSE
      <3>1. p \in Seq(A) /\ p # <<>> /\ Len(n) = 0 /\ n \in Seq(A) /\ Len(p) \in Nat
        BY <1>3 DEF PatternsFit
      <3>2. Len(p) <= Len(n)
        BY <2>2, <3>1, SuffixOrder
      <3>3. Len(p) # 0
        BY <3>1
      <3>4. QED
        BY <3>1, <3>2, <3>3
    <2>3. QED
      BY <2>1, <2>2
  <1>4. ASSUME NEW n \in Nodes \ {<<>>}
        PROVE  fail[n] = LongestIn({s \in Nodes : IsStrictSuffix(s, n)})
    <2> DEFINE S == {s \in Nodes : IsStrictSuffix(s, n)}
    <2>1. PICK f \in Nodes : f = fail[n] /\ LinksTo(n, f)
      BY <1>2 DEF LinksTo
    <2>2. f \in S /\ \A s \in S : IsSuffix(s, f)
      BY <2>1 DEF LinksTo
    <2>3. S \in SUBSET Seq(A) /\ n \in Seq(A) /\ \A s \in S : IsSuffix(s, n)
      BY <1>0 DEF IsStrictSuffix
    <2> HIDE DEF S
    <2>4. \A s \in S : Len(s) <= Len(f)
      <3> TAKE s \in S
      <3>1. s \in Seq(A) /\ f \in Seq(A) /\ IsSuffix(s, f)
        BY <2>2, <2>3
      <3>2. QED
        BY <3>1, SuffixOrder
    <2>5. f = LongestIn(S)
      BY <2>2, <2>3, <2>4, LongestSuffix
    <2>6. QED
      BY <2>1, <2>5 DEF S
  <1>5. QED
    BY <1>2, <1>3, <1>4 DEF LinksAreRight

-----------------------------------------------------------------------------
(* Using the matcher                                                       *)

\* What has been read after one more symbol.
LEMMA NextPrefix ==
    ASSUME NEW A, NEW text \in Seq(A), NEW k \in 1..Len(text)
    PROVE  /\ SubSeq(text, 1, k - 1) \in Seq(A) /\ text[k] \in A
           /\ SubSeq(text, 1, k) = Append(SubSeq(text, 1, k - 1), text[k])
  <1>0. k \in Nat /\ k - 1 \in 0..Len(text) /\ k \in 0..Len(text) /\ Len(text) \in Nat
    OBVIOUS
  <1>1. PICK s \in Seq(A), t \in Seq(A) :
            /\ s = SubSeq(text, 1, k - 1) /\ Len(s) = k - 1 /\ IsPrefix(s, text)
            /\ t = SubSeq(text, 1, k) /\ Len(t) = k /\ IsPrefix(t, text)
    <2>1. \A j \in 0..Len(text) : \E s \in Seq(A) :
              s = SubSeq(text, 1, j) /\ Len(s) = j /\ IsPrefix(s, text)
      BY PrefixOrder
    <2>2. PICK s \in Seq(A) : s = SubSeq(text, 1, k - 1) /\ Len(s) = k - 1 /\ IsPrefix(s, text)
      BY <1>0, <2>1
    <2>3. PICK t \in Seq(A) : t = SubSeq(text, 1, k) /\ Len(t) = k /\ IsPrefix(t, text)
      BY <1>0, <2>1
    <2>4. QED
      BY <2>2, <2>3
  <1>2. text[k] \in A
    OBVIOUS
  <1>3. PICK u : u = Append(s, text[k])
    OBVIOUS
  <1>4. /\ u \in Seq(A) /\ Len(u) = k /\ u[k] = text[k]
        /\ \A i \in 1..k - 1 : u[i] = s[i]
    <2>1. /\ u \in Seq(A) /\ Len(u) = Len(s) + 1 /\ u[Len(s) + 1] = text[k]
          /\ \A i \in 1..Len(s) : u[i] = s[i]
      BY <1>2, <1>3, AppendProperties
    <2>2. Len(s) + 1 = k
      BY <1>0, <1>1
    <2>3. QED
      BY <1>1, <2>1, <2>2
  <1>5. \A i \in 1..k - 1 : s[i] = text[i]
    BY <1>1, PrefixMeans
  <1>6. \A i \in 1..k : t[i] = text[i]
    BY <1>1, PrefixMeans
  <1>7. ASSUME NEW i \in 1..k PROVE u[i] = t[i]
    <2>1. i = k \/ i \in 1..k - 1
      BY <1>0
    <2>2. QED
      BY <1>4, <1>5, <1>6, <2>1
  <1>8. u = t
    BY <1>1, <1>4, <1>7, SeqEqual
  <1>9. QED
    BY <1>1, <1>2, <1>3, <1>8

\* After k symbols the search is at the longest node that ends there.
LEMMA SearchIsAtLongest ==
    ASSUME NEW A, NEW patterns, PatternsFit(A, patterns), MatcherInv(patterns), queue = <<>>,
           NEW text \in Seq(A)
    PROVE  \E node \in [0..Len(text) -> Nodes] :
              /\ Found(text) = UNION {output[node[k]] : k \in 1..Len(text)}
              /\ \A k \in 0..Len(text) :
                    /\ IsSuffix(node[k], SubSeq(text, 1, k))
                    /\ \A s \in Nodes : IsSuffix(s, SubSeq(text, 1, k)) => IsSuffix(s, node[k])
  <1>0. /\ Nodes \subseteq Seq(A) /\ <<>> \in Nodes /\ Len(text) \in Nat
        /\ \A m \in Nodes : \A s \in Seq(A) : IsPrefix(s, m) => s \in Nodes
    BY TrieIs DEF MatcherInv
  <1> DEFINE T(k) == SubSeq(text, 1, k)
             S(k) == {s \in Nodes : IsSuffix(s, T(k))}
             At(k, x) == /\ x \in Nodes /\ IsSuffix(x, T(k))
                         /\ \A s \in Nodes : IsSuffix(s, T(k)) => IsSuffix(s, x)
             g == [k \in 0..Len(text) |-> LongestIn(S(k))]
  <1>1. \A k \in 0..Len(text) : T(k) \in Seq(A)
    BY PrefixOrder
  <1>2. ASSUME NEW k \in 0..Len(text) PROVE At(k, g[k])
    <2>1. T(k) \in Seq(A) /\ IsSuffix(<<>>, T(k))
      BY <1>1, SuffixOrder
    <2>2. S(k) \in SUBSET Seq(A) /\ S(k) # {} /\ \A s \in S(k) : IsSuffix(s, T(k))
      BY <1>0, <2>1
    <2>3. LongestIn(S(k)) \in S(k) /\ \A s \in S(k) : IsSuffix(s, LongestIn(S(k)))
      <3> HIDE DEF S
      <3>1. QED
        BY <2>1, <2>2, LongestSuffix
    <2>4. At(k, LongestIn(S(k)))
      <3>1. PICK x \in S(k) : x = LongestIn(S(k)) /\ \A s \in S(k) : IsSuffix(s, x)
        BY <2>3
      <3>2. At(k, x)
        BY <3>1
      <3>3. QED
        BY <3>1, <3>2
    <2>5. g[k] = LongestIn(S(k))
      OBVIOUS
    <2> HIDE DEF g, S, At
    <2>6. QED
      BY <2>4, <2>5
  <1> HIDE DEF g
  \* there is only one such node
  <1>3. ASSUME NEW k \in 0..Len(text), NEW x, NEW y, At(k, x), At(k, y) PROVE x = y
    <2>1. x \in Seq(A) /\ y \in Seq(A) /\ IsSuffix(x, y) /\ IsSuffix(y, x)
      BY <1>0, <1>3
    <2>2. Len(x) <= Len(y) /\ Len(y) <= Len(x) /\ IsSuffix(y, y)
      BY <2>1, SuffixOrder
    <2>3. Len(x) = Len(y)
      BY <2>1, <2>2
    <2>4. QED
      BY <2>1, <2>2, <2>3, SuffixesNest
  <1>4. ASSUME NEW k \in 1..Len(text), NEW n, At(k - 1, n)
        PROVE  At(k, Goto(n, text[k]))
    <2>1. PICK t \in Seq(A), c \in A : t = T(k - 1) /\ c = text[k] /\ T(k) = Append(t, c)
      BY NextPrefix
    <2>2. n \in Nodes /\ n \in Seq(A) /\ (n = <<>> \/ LinksTo(n, fail[n]))
      BY <1>0, <1>4, MatcherDone
    <2>3. PICK y \in Nodes : y = Goto(n, c) /\ IsSuffix(y, Append(n, c))
                             /\ \A s \in Nodes : IsSuffix(s, Append(n, c)) => IsSuffix(s, y)
      BY <2>2, MatcherLinks, GotoIsLongest
    <2>4. y \in Seq(A) /\ Append(n, c) \in Seq(A) /\ Append(t, c) \in Seq(A)
      BY <1>0, <2>2, AppendProperties
    <2>5. IsSuffix(y, Append(t, c))
      <3>1. IsSuffix(n, t)
        BY <1>4, <2>1
      <3>2. IsSuffix(Append(n, c), Append(t, c))
        BY <2>2, <3>1, AppendSuffix
      <3>3. QED
        BY <2>3, <2>4, <3>2, SuffixOrder
    <2>6. ASSUME NEW s \in Nodes, IsSuffix(s, Append(t, c)) PROVE IsSuffix(s, y)
      <3>0. s \in Seq(A)
        BY <1>0
      <3>1. CASE s = <<>>
        BY <2>4, <3>1, SuffixOrder
      <3>2. CASE s # <<>>
        <4>1. PICK a \in Seq(A), d \in A : s = Append(a, d) /\ IsPrefix(a, s)
          BY <3>0, <3>2, AllButLast, FrontIsPrefix
        <4>2. a \in Nodes
          BY <1>0, <4>1
        <4>3. IsSuffix(Append(a, d), Append(t, c))
          BY <2>6, <4>1
        <4>4. d = c /\ IsSuffix(a, t)
          BY <4>1, <4>3, AppendSuffix
        <4>5. IsSuffix(a, n)
          BY <1>4, <2>1, <4>2, <4>4
        <4>6. IsSuffix(Append(a, c), Append(n, c))
          BY <2>2, <4>1, <4>5, AppendSuffix
        <4>7. QED
          BY <2>3, <4>1, <4>4, <4>6
      <3>3. QED
        BY <3>1, <3>2
    <2>7. PICK u : u = T(k) /\ u = Append(t, c)
      BY <2>1
    <2>8. IsSuffix(y, u) /\ \A s \in Nodes : IsSuffix(s, u) => IsSuffix(s, y)
      BY <2>5, <2>6, <2>7
    <2>9. y = Goto(n, text[k])
      BY <2>1, <2>3
    <2> HIDE DEF T
    <2>10. At(k, y)
      BY <2>7, <2>8
    <2> HIDE DEF At
    <2>11. QED
      BY <2>9, <2>10
  <1>5. At(0, <<>>)
    <2>1. T(0) = <<>>
      OBVIOUS
    <2>2. PICK e \in Nodes : e = <<>>
      BY <1>0
    <2>3. e \in Seq(A) /\ IsSuffix(e, e)
      BY <1>0, <2>2, SuffixOrder
    <2>4. T(0) = e
      BY <2>1, <2>2
    <2> HIDE DEF T
    <2>5. At(0, e)
      BY <2>3, <2>4
    <2>6. QED
      BY <2>2, <2>5
  <1> HIDE DEF At
  <1>6. \A k \in 0..Len(text) : g[k] = IF k = 0 THEN <<>> ELSE Goto(g[k - 1], text[k])
    <2> TAKE k \in 0..Len(text)
    <2>1. CASE k = 0
      BY <1>2, <1>3, <1>5, <2>1
    <2>2. CASE k # 0
      <3>1. k \in 1..Len(text) /\ k - 1 \in 0..Len(text)
        BY <1>0, <2>2
      <3>2. At(k, Goto(g[k - 1], text[k]))
        BY <1>2, <1>4, <3>1
      <3>3. QED
        BY <1>2, <1>3, <2>2, <3>2
    <2>3. QED
      BY <2>1, <2>2
  <1>7. g = [k \in 0..Len(text) |-> IF k = 0 THEN <<>> ELSE Goto(g[k - 1], text[k])]
    <2>1. g = [k \in 0..Len(text) |-> g[k]]
      BY DEF g
    <2>2. [k \in 0..Len(text) |-> g[k]] =
          [k \in 0..Len(text) |-> IF k = 0 THEN <<>> ELSE Goto(g[k - 1], text[k])]
      BY ONLY <1>6, Zenon
    <2>3. QED
      BY ONLY <2>1, <2>2, Zenon
  <1> DEFINE Searching(f) ==
                 f = [k \in 0..Len(text) |-> IF k = 0 THEN <<>> ELSE Goto(f[k - 1], text[k])]
             Finding(f) == Found(text) = UNION {output[f[k]] : k \in 1..Len(text)}
  <1>8. \E f : Searching(f) /\ Finding(f)
    <2> DEFINE node == CHOOSE f : f = [k \in 0..Len(text) |->
                                         IF k = 0 THEN <<>> ELSE Goto(f[k - 1], text[k])]
    <2>1. Searching(node)
      BY <1>7
    <2>2. Finding(node)
      BY DEF Found
    <2> HIDE DEF node, Searching, Finding
    <2>3. QED
      BY <2>1, <2>2
  <1>9. PICK b : Searching(b) /\ Finding(b)
    BY <1>8
  <1>10. \A k \in Nat : k \in 0..Len(text) => At(k, b[k])
    <2> DEFINE I == {k \in Nat : k \in 0..Len(text) => At(k, b[k])}
    <2>0. \A k \in 0..Len(text) : b[k] = IF k = 0 THEN <<>> ELSE Goto(b[k - 1], text[k])
      BY <1>9
    <2>1. 0 \in I
      <3>1. b[0] = <<>>
        BY <1>0, <2>0
      <3>2. QED
        BY <1>5, <3>1
    <2>2. ASSUME NEW k \in Nat, k \in I PROVE k + 1 \in I
      <3>1. SUFFICES ASSUME k + 1 \in 0..Len(text) PROVE At(k + 1, b[k + 1])
        OBVIOUS
      <3>2. k + 1 \in 1..Len(text) /\ k \in 0..Len(text) /\ (k + 1) - 1 = k /\ k + 1 # 0
        BY <1>0, <3>1
      <3>3. At((k + 1) - 1, b[k])
        BY <2>2, <3>2
      <3>4. At(k + 1, Goto(b[k], text[k + 1]))
        BY <1>4, <3>2, <3>3
      <3>5. b[k + 1] = Goto(b[k], text[k + 1])
        BY <2>0, <3>1, <3>2
      <3>6. QED
        BY <3>4, <3>5
    <2> HIDE DEF I
    <2>3. Nat \subseteq I
      BY <2>1, <2>2, NumberInduction
    <2>4. QED
      BY <2>3 DEF I
  <1>11. \A k \in 0..Len(text) : At(k, b[k])
    BY <1>0, <1>10
  <1>12. b \in [0..Len(text) -> Nodes]
    <2>1. \A k \in 0..Len(text) : b[k] \in Nodes
      BY <1>11 DEF At
    <2>2. b = [k \in 0..Len(text) |-> b[k]]
      BY <1>9
    <2>3. QED
      BY <2>1, <2>2
  <1>13. QED
    BY <1>9, <1>11, <1>12 DEF At

\* One pass of AhoCorasick::Search (search.cpp) finds the patterns that occur in
\* the text and no others, however they overlap or contain each other.
THEOREM OnePassFindsAll ==
    ASSUME NEW A, NEW patterns, PatternsFit(A, patterns), MatcherInv(patterns), queue = <<>>,
           NEW text \in Seq(A)
    PROVE  Found(text) = {p \in patterns : Occurs(p, text)}
  <1>0. Nodes \subseteq Seq(A) /\ patterns \subseteq Nodes /\ Len(text) \in Nat
    BY TrieIs DEF MatcherInv
  <1>1. PICK node \in [0..Len(text) -> Nodes] :
           /\ Found(text) = UNION {output[node[k]] : k \in 1..Len(text)}
           /\ \A k \in 0..Len(text) :
                 /\ IsSuffix(node[k], SubSeq(text, 1, k))
                 /\ \A s \in Nodes : IsSuffix(s, SubSeq(text, 1, k)) => IsSuffix(s, node[k])
    BY SearchIsAtLongest
  <1>2. ASSUME NEW k \in 1..Len(text)
        PROVE  output[node[k]] = {p \in patterns : IsSuffix(p, SubSeq(text, 1, k))}
    <2>1. k \in 0..Len(text) /\ node[k] \in Nodes
      BY <1>0, <1>1
    <2>2. SubSeq(text, 1, k) \in Seq(A)
      BY <2>1, PrefixOrder
    <2>3. output[node[k]] = {p \in patterns : IsSuffix(p, node[k])}
      BY <2>1, MatcherDone
    <2>4. ASSUME NEW p \in patterns
          PROVE  IsSuffix(p, node[k]) <=> IsSuffix(p, SubSeq(text, 1, k))
      <3>1. p \in Nodes /\ p \in Seq(A) /\ node[k] \in Seq(A)
        BY <1>0, <2>1
      <3>2. IsSuffix(node[k], SubSeq(text, 1, k))
        BY <1>1, <2>1
      <3>3. IsSuffix(p, node[k]) => IsSuffix(p, SubSeq(text, 1, k))
        BY <2>2, <3>1, <3>2, SuffixOrder
      <3>4. QED
        BY <1>1, <2>1, <3>1, <3>3
    <2>5. QED
      BY <2>3, <2>4
  <1>3. ASSUME NEW p \in patterns
        PROVE  (\E k \in 1..Len(text) : IsSuffix(p, SubSeq(text, 1, k))) <=> Occurs(p, text)
    <2>0. p \in Seq(A) /\ Len(p) \in Nat /\ Len(p) # 0
      BY <1>0 DEF PatternsFit
    <2>1. ASSUME NEW k \in 1..Len(text), NEW i \in 0..Len(text) - Len(p), k = i + Len(p)
          PROVE  IsSuffix(p, SubSeq(text, 1, k)) <=> SubSeq(text, i + 1, i + Len(p)) = p
      <3>1. PICK t \in Seq(A) : t = SubSeq(text, 1, k) /\ Len(t) = k /\ \A j \in 1..k : t[j] = text[j]
        <4>1. k \in 0..Len(text)
          BY <1>0
        <4>2. PICK t \in Seq(A) : t = SubSeq(text, 1, k) /\ Len(t) = k /\ IsPrefix(t, text)
          BY <4>1, PrefixOrder
        <4>3. \A j \in 1..k : t[j] = text[j]
          BY <4>2, PrefixMeans
        <4>4. QED
          BY <4>2, <4>3
      <3>2. PICK u \in Seq(A) : /\ u = SubSeq(text, i + 1, i + Len(p)) /\ Len(u) = Len(p)
                                /\ \A j \in 1..Len(p) : u[j] = text[i + j]
        <4>1. PICK a \in Int, b \in Int : a = i + 1 /\ b = i + Len(p)
          BY <1>0, <2>0
        <4>2. \A j \in a..b : text[j] \in A
          BY <1>0, <2>0, <4>1
        <4>3. /\ SubSeq(text, a, b) \in Seq(A)
              /\ Len(SubSeq(text, a, b)) = IF a <= b THEN b - a + 1 ELSE 0
              /\ \A j \in 1..b - a + 1 : SubSeq(text, a, b)[j] = text[a + j - 1]
          BY <4>2, SubSeqProperties
        <4>4. a <= b /\ b - a + 1 = Len(p) /\ \A j \in 1..Len(p) : a + j - 1 = i + j
          BY <1>0, <2>0, <4>1
        <4>5. PICK u : u = SubSeq(text, a, b)
          OBVIOUS
        <4>6. u \in Seq(A) /\ Len(u) = Len(p) /\ \A j \in 1..Len(p) : u[j] = text[a + j - 1]
          BY <4>3, <4>4, <4>5
        <4>7. \A j \in 1..Len(p) : u[j] = text[i + j]
          BY <4>4, <4>6
        <4>8. QED
          BY <4>1, <4>5, <4>6, <4>7
      <3>3. u = p <=> \A j \in 1..Len(p) : p[j] = text[i + j]
        BY <2>0, <3>2, SeqEqual
      <3>4. IsSuffix(p, t) <=> \A j \in 0..Len(p) - 1 : p[Len(p) - j] = t[k - j]
        <4>1. Len(p) <= k
          BY <1>0, <2>0, <2>1
        <4>2. IsSuffix(p, t) <=> /\ Len(p) <= Len(t)
                                 /\ \A j \in 0..Len(p) - 1 : p[Len(p) - j] = t[Len(t) - j]
          BY ONLY <2>0, t \in Seq(A), SuffixMeans
        <4>3. QED
          BY <3>1, <4>1, <4>2
      <3>5. ASSUME \A j \in 0..Len(p) - 1 : p[Len(p) - j] = t[k - j], NEW j \in 1..Len(p)
            PROVE  p[j] = text[i + j]
        <4>1. /\ Len(p) - j \in 0..Len(p) - 1 /\ Len(p) - (Len(p) - j) = j
              /\ k - (Len(p) - j) = i + j /\ i + j \in 1..k
          BY <1>0, <2>0, <2>1
        <4>2. QED
          BY <3>1, <3>5, <4>1
      <3>6. ASSUME \A j \in 1..Len(p) : p[j] = text[i + j], NEW j \in 0..Len(p) - 1
            PROVE  p[Len(p) - j] = t[k - j]
        <4>1. Len(p) - j \in 1..Len(p) /\ i + (Len(p) - j) = k - j /\ k - j \in 1..k
          BY <1>0, <2>0, <2>1
        <4>2. QED
          BY <3>1, <3>6, <4>1
      <3>7. QED
        BY <3>1, <3>2, <3>3, <3>4, <3>5, <3>6
    <2>2. ASSUME NEW k \in 1..Len(text), IsSuffix(p, SubSeq(text, 1, k))
          PROVE  k - Len(p) \in 0..Len(text) - Len(p) /\ k = (k - Len(p)) + Len(p)
      <3>1. k \in 0..Len(text)
        BY <1>0
      <3>2. PICK t \in Seq(A) : t = SubSeq(text, 1, k) /\ Len(t) = k
        BY <3>1, PrefixOrder
      <3>3. Len(p) <= Len(t)
        BY <2>0, <2>2, <3>2, SuffixOrder
      <3>4. QED
        BY <1>0, <2>0, <3>2, <3>3
    <2>3. ASSUME NEW i \in 0..Len(text) - Len(p) PROVE i + Len(p) \in 1..Len(text)
      BY <1>0, <2>0
    <2>4. QED
      BY <2>1, <2>2, <2>3 DEF Occurs
  <1>4. UNION {output[node[k]] : k \in 1..Len(text)} =
        {p \in patterns : \E k \in 1..Len(text) : IsSuffix(p, SubSeq(text, 1, k))}
    BY <1>2
  <1>5. Found(text) = {p \in patterns : \E k \in 1..Len(text) : IsSuffix(p, SubSeq(text, 1, k))}
    BY <1>1, <1>4
  <1>6. QED
    BY ONLY <1>3, <1>5, Zenon
===============================================================================
