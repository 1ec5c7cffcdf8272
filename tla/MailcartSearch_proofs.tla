------------------------- MODULE MailcartSearch_proofs -------------------------
(***************************************************************************)
(* Proofs about MailcartSearch: types and bounds of a search, that its     *)
(* matcher is right and finds what occurs, that its results are in order   *)
(* and wanted, and that it misses nothing, for any mailbox, query, limit   *)
(* and page sizes.                                                         *)
(***************************************************************************)
EXTENDS MailcartSearch, AhoCorasick_proofs

-----------------------------------------------------------------------------
(* Loops over a sequence                                                   *)

\* g[i] is what a loop makes of the places from i on: pre[i], unless it skips i,
\* and what it makes from nxt[i] on.
Turn(g, i, pre, nxt, skip) == IF i \in skip THEN g[nxt[i]] ELSE pre[i] \o g[nxt[i]]
Unfolds(g, n, pre, nxt, skip) ==
    \A i \in 1..n + 1 : g[i] = IF i > n THEN <<>> ELSE Turn(g, i, pre, nxt, skip)

Advances(A, n, pre, nxt) ==
    \A i \in 1..n : pre[i] \in Seq(A) /\ nxt[i] \in i + 1..n + 1

\* Such a loop can be run.
LEMMA LoopExists ==
    ASSUME NEW A, NEW n \in Nat, NEW pre, NEW nxt, NEW skip, Advances(A, n, pre, nxt)
    PROVE  \E g \in [1..n + 1 -> Seq(A)] : Unfolds(g, n, pre, nxt, skip)
  <1> DEFINE Fits(g, i) == g[i] = IF i > n THEN <<>> ELSE Turn(g, i, pre, nxt, skip)
             Tails(k) == \E g \in [1..n + 1 -> Seq(A)] : \A i \in n + 1 - k..n + 1 : Fits(g, i)
             I == {k \in Nat : k <= n => Tails(k)}
  <1>1. 0 \in I
    <2> DEFINE g == [i \in 1..n + 1 |-> <<>>]
    <2>1. g \in [1..n + 1 -> Seq(A)]
      BY EmptySeq
    <2>2. \A i \in n + 1 - 0..n + 1 : i \in 1..n + 1 /\ i > n
      OBVIOUS
    <2>3. \A i \in n + 1 - 0..n + 1 : Fits(g, i)
      BY <2>2
    <2> HIDE DEF g, Fits
    <2>4. Tails(0)
      BY <2>1, <2>3
    <2>5. QED
      BY <2>4
  <1>2. ASSUME NEW k \in Nat, k \in I PROVE k + 1 \in I
    <2>1. SUFFICES ASSUME k + 1 <= n PROVE Tails(k + 1)
      OBVIOUS
    <2>2. PICK g \in [1..n + 1 -> Seq(A)] : \A i \in n + 1 - k..n + 1 : Fits(g, i)
      BY <1>2, <2>1
    <2>3. PICK j \in 1..n : j = n - k
      BY <2>1
    <2>4. /\ pre[j] \in Seq(A) /\ nxt[j] \in j + 1..n + 1 /\ nxt[j] \in 1..n + 1
          /\ nxt[j] # j
      BY <2>3 DEF Advances
    <2>5. Turn(g, j, pre, nxt, skip) \in Seq(A)
      BY <2>4, ConcatProperties DEF Turn
    <2> DEFINE h == [g EXCEPT ![j] = Turn(g, j, pre, nxt, skip)]
    <2>6. /\ h \in [1..n + 1 -> Seq(A)] /\ h[j] = Turn(g, j, pre, nxt, skip)
          /\ \A i \in 1..n + 1 : i # j => h[i] = g[i]
      <3> HIDE DEF Fits
      <3>1. j \in 1..n + 1
        OBVIOUS
      <3>2. QED
        BY <2>5, <3>1
    <2> HIDE DEF h, Fits
    <2>7. ASSUME NEW i \in n + 1 - (k + 1)..n + 1 PROVE Fits(h, i)
      <3>1. CASE i = j
        <4>1. h[nxt[j]] = g[nxt[j]]
          BY <2>4, <2>6
        <4>2. ~(j > n)
          OBVIOUS
        <4>3. Fits(h, j)
          BY <2>6, <4>1, <4>2 DEF Fits, Turn
        <4>4. QED
          BY <3>1, <4>3
      <3>2. CASE i # j
        <4>1. i \in n + 1 - k..n + 1 /\ i \in 1..n + 1 /\ i > j
          BY <2>1, <2>3, <3>2
        <4>2. Fits(g, i)
          BY <2>2, <4>1
        <4>3. h[i] = g[i]
          BY <2>6, <3>2, <4>1
        <4>4. ~(i > n) => i \in 1..n /\ nxt[i] \in i + 1..n + 1
          BY <4>1 DEF Advances
        <4>5. ~(i > n) => nxt[i] \in 1..n + 1 /\ nxt[i] # j
          BY <4>1, <4>4
        <4>6. ~(i > n) => h[nxt[i]] = g[nxt[i]]
          BY <2>6, <4>5
        <4>7. QED
          BY <4>2, <4>3, <4>6 DEF Fits, Turn
      <3>3. QED
        BY <3>1, <3>2
    <2>8. QED
      BY <2>6, <2>7
  <1> HIDE DEF Tails
  <1>3. n \in I
    <2> HIDE DEF I
    <2>1. Nat \subseteq I
      BY <1>1, <1>2, NumberInduction
    <2>2. QED
      BY <2>1
  <1>4. Tails(n)
    BY <1>3
  <1>5. n + 1 - n = 1
    OBVIOUS
  <1>6. QED
    BY <1>4, <1>5 DEF Unfolds, Tails

\* What it makes is a sequence, and with one piece for each place at most it is
\* no longer than what it reads.
LEMMA LoopMakesSeq ==
    ASSUME NEW A, NEW n \in Nat, NEW pre, NEW nxt, NEW skip, Advances(A, n, pre, nxt),
           NEW g, Unfolds(g, n, pre, nxt, skip)
    PROVE  /\ g[1] \in Seq(A)
           /\ (\A i \in 1..n : Len(pre[i]) <= 1) => Len(g[1]) <= n
  <1> DEFINE Short == \A i \in 1..n : Len(pre[i]) <= 1
             Good(i) == g[i] \in Seq(A) /\ (Short => Len(g[i]) <= n + 1 - i)
             I == {k \in Nat : \A i \in 1..n + 1 : i >= n + 1 - k => Good(i)}
  <1>1. 0 \in I
    <2>1. ASSUME NEW i \in 1..n + 1, i >= n + 1 - 0 PROVE Good(i)
      <3>1. i > n /\ n + 1 - i = 0
        BY <2>1
      <3>2. g[i] = <<>>
        BY <3>1 DEF Unfolds
      <3>3. g[i] \in Seq(A) /\ Len(g[i]) = 0
        BY <3>2
      <3>4. QED
        BY <3>1, <3>3
    <2> HIDE DEF Good
    <2>2. QED
      BY <2>1
  <1>2. ASSUME NEW k \in Nat, k \in I PROVE k + 1 \in I
    <2>1. ASSUME NEW i \in 1..n + 1, i >= n + 1 - (k + 1) PROVE Good(i)
      <3>1. CASE i >= n + 1 - k
        BY <1>2, <3>1
      <3>2. CASE i > n
        <4>1. i >= n + 1 - k
          BY <3>2
        <4>2. QED
          BY <1>2, <4>1
      <3>3. CASE ~(i >= n + 1 - k) /\ ~(i > n)
        <4>1. i \in 1..n /\ i = n - k
          BY <2>1, <3>3
        <4>2. pre[i] \in Seq(A) /\ nxt[i] \in i + 1..n + 1
          BY <4>1 DEF Advances
        <4>3. PICK m \in 1..n + 1 : m = nxt[i] /\ m >= n + 1 - k /\ m >= i + 1
          BY <4>1, <4>2
        <4>4. Good(m)
          BY <1>2, <4>3
        <4>5. g[i] = IF i \in skip THEN g[m] ELSE pre[i] \o g[m]
          <5>1. g[i] = IF i > n THEN <<>> ELSE IF i \in skip THEN g[nxt[i]] ELSE pre[i] \o g[nxt[i]]
            BY DEF Unfolds, Turn
          <5>2. QED
            BY <3>3, <4>3, <5>1
        <4>6. g[m] \in Seq(A) /\ (Short => Len(g[m]) <= n + 1 - m)
          BY <4>4
        <4>7. /\ g[i] \in Seq(A)
              /\ Len(g[i]) = Len(g[m]) \/ Len(g[i]) = Len(pre[i]) + Len(g[m])
          BY <4>2, <4>5, <4>6, ConcatProperties
        <4>8. Short => Len(pre[i]) <= 1
          BY <4>1
        <4>9. Len(pre[i]) \in Nat /\ Len(g[m]) \in Nat
          BY <4>2, <4>6
        <4> HIDE DEF Short
        <4>10. Short => Len(g[i]) <= n + 1 - i
          <5>1. PICK p \in Nat, q \in Nat : p = Len(pre[i]) /\ q = Len(g[m])
            BY <4>9
          <5>2. p <= 1 /\ q <= n + 1 - m => p + q <= n + 1 - i /\ q <= n + 1 - i
            BY <4>3
          <5>3. QED
            BY <4>6, <4>7, <4>8, <5>1, <5>2
        <4>11. QED
          BY <4>7, <4>10
      <3>4. QED
        BY <3>1, <3>2, <3>3
    <2> HIDE DEF Good
    <2>2. QED
      BY <2>1
  <1> HIDE DEF Good
  <1>3. n \in I
    <2> HIDE DEF I
    <2>1. Nat \subseteq I
      BY <1>1, <1>2, NumberInduction
    <2>2. QED
      BY <2>1
  <1>4. 1 \in 1..n + 1 /\ 1 >= n + 1 - n
    OBVIOUS
  <1>5. Good(1)
    BY <1>3, <1>4
  <1>6. n + 1 - 1 = n
    OBVIOUS
  <1>7. QED
    BY <1>5, <1>6 DEF Good

\* V are the places a loop looks at from place i on.
Walk(V, i, n, nxt) ==
    /\ V \subseteq i..n
    /\ i <= n => i \in V
    /\ \A v \in V : nxt[v] <= n => nxt[v] \in V
    /\ \A v, w \in V : v < w => nxt[v] <= w

\* The places, in order, that a loop takes the elements of r from.
Picks(e, V, r, pre, skip) ==
    /\ e \in Seq(V) /\ Len(e) = Len(r)
    /\ \A j, k \in 1..Len(e) : j < k => e[j] < e[k]
    /\ \A k \in 1..Len(e) : e[k] \notin skip /\ pre[e[k]] = <<r[k]>>
    /\ \A v \in V : v \notin skip /\ pre[v] # <<>> => \E k \in 1..Len(e) : e[k] = v

\* One more place in front.
LEMMA PicksFurther ==
    ASSUME NEW A, NEW n \in Nat, NEW pre, NEW nxt, NEW skip,
           NEW i \in 1..n, NEW m \in i + 1..n + 1, nxt[i] = m,
           NEW V, Walk(V, m, n, nxt), NEW r \in Seq(A), NEW e, Picks(e, V, r, pre, skip),
           pre[i] \in Seq(A), Len(pre[i]) <= 1,
           NEW q, q = IF i \in skip THEN r ELSE pre[i] \o r
    PROVE  Walk(V \cup {i}, i, n, nxt) /\ \E f : Picks(f, V \cup {i}, q, pre, skip)
  <1> DEFINE W == V \cup {i}
  <1>1. V \subseteq m..n /\ V \subseteq W /\ i \in W /\ \A v \in V : v > i
    BY DEF Walk
  <1>2. Walk(W, i, n, nxt)
    <2>1. W \subseteq i..n
      BY <1>1
    <2>2. \A v \in W : nxt[v] <= n => nxt[v] \in W
      BY <1>1 DEF Walk
    <2>3. \A v, w \in W : v < w => nxt[v] <= w
      <3>1. TAKE v, w \in W
      <3>2. HAVE v < w
      <3>3. w \in V
        BY <1>1, <3>2
      <3>4. CASE v = i
        BY <1>1, <3>3, <3>4
      <3>5. CASE v \in V
        BY <3>2, <3>3, <3>5 DEF Walk
      <3>6. QED
        BY <3>4, <3>5
    <2>4. QED
      BY <2>1, <2>2, <2>3 DEF Walk
  <1>3. e \in Seq(V) /\ Len(e) \in Nat /\ Len(e) = Len(r) /\ e \in Seq(W)
        /\ \A k \in 1..Len(e) : e[k] \in V
    <2>1. e \in Seq(V) /\ Len(e) = Len(r)
      BY DEF Picks
    <2>2. e \in Seq(W)
      <3> HIDE DEF W
      <3>1. QED
        BY <1>1, <2>1, SeqMonotonic
    <2>3. QED
      BY <2>1, <2>2
  <1>4. CASE i \in skip \/ pre[i] = <<>>
    <2>1. q = r
      <3>1. CASE i \in skip
        BY <3>1
      <3>2. CASE pre[i] = <<>>
        <4>1. <<>> \o r = r
          BY ConcatEmptySeq
        <4>2. QED
          BY <3>2, <4>1
      <3>3. QED
        BY <1>4, <3>1, <3>2
    <2>2. \A v \in W : v \notin skip /\ pre[v] # <<>> => \E k \in 1..Len(e) : e[k] = v
      BY <1>4 DEF Picks
    <2> HIDE DEF W
    <2>3. Picks(e, W, q, pre, skip)
      BY <1>3, <2>1, <2>2 DEF Picks
    <2>4. QED
      BY <1>2, <2>3 DEF W
  <1>5. CASE i \notin skip /\ pre[i] # <<>>
    <2>1. PICK a \in A : pre[i] = <<a>>
      <3>0. PICK s \in Seq(A) : s = pre[i] /\ Len(s) <= 1 /\ s # <<>>
        BY <1>5
      <3>1. PICK l \in Nat : l = Len(s) /\ l <= 1 /\ l # 0
        <4>1. Len(s) \in Nat /\ Len(s) # 0
          BY <3>0, EmptySeq
        <4>2. QED
          BY <3>0, <4>1
      <3>2. Len(s) = 1
        BY <3>1
      <3>3. s[1] \in A
        <4>1. \A k \in 1..Len(s) : s[k] \in A
          BY <3>0
        <4>2. 1 \in 1..Len(s)
          BY <3>2
        <4>3. QED
          BY <4>1, <4>2
      <3>4. s = <<s[1]>>
        <4>1. PICK a \in A : a = s[1]
          BY <3>3
        <4>2. <<a>> \in Seq(A) /\ Len(<<a>>) = 1 /\ <<a>>[1] = a
          OBVIOUS
        <4>3. \A k \in 1..Len(s) : s[k] = <<a>>[k]
          BY <3>2, <4>1, <4>2
        <4>4. s = <<a>>
          BY <3>2, <4>2, <4>3, SeqEqual
        <4>5. QED
          BY <4>1, <4>4
      <3>5. QED
        BY <3>0, <3>3, <3>4
    <2>2. /\ <<a>> \in Seq(A) /\ Len(<<a>>) = 1 /\ <<a>>[1] = a
          /\ <<i>> \in Seq(W) /\ Len(<<i>>) = 1 /\ <<i>>[1] = i
      <3>1. i \in W
        BY <1>1
      <3> HIDE DEF W
      <3>2. QED
        BY <3>1
    <2>3. PICK one \in Seq(A) : one = <<a>> /\ Len(one) = 1 /\ one[1] = a
      BY <2>2
    <2>4. PICK ones \in Seq(W) : ones = <<i>> /\ Len(ones) = 1 /\ ones[1] = i
      <3> HIDE DEF W
      <3>1. QED
        BY <2>2
    <2>5. PICK h \in Seq(A) : h = q /\ h = one \o r /\ Len(h) = 1 + Len(r)
             /\ \A k \in 1..1 + Len(r) : h[k] = IF k <= 1 THEN one[k] ELSE r[k - 1]
      <3>1. /\ one \o r \in Seq(A) /\ Len(one \o r) = Len(one) + Len(r)
            /\ \A k \in 1..Len(one) + Len(r) : (one \o r)[k] =
                  IF k <= Len(one) THEN one[k] ELSE r[k - Len(one)]
        BY ConcatProperties
      <3>2. q = one \o r
        BY <1>5, <2>1, <2>3
      <3>3. QED
        BY <2>3, <3>1, <3>2
    <2>6. PICK f \in Seq(W) : Len(f) = 1 + Len(e)
             /\ \A k \in 1..1 + Len(e) : f[k] = IF k <= 1 THEN ones[k] ELSE e[k - 1]
      <3> HIDE DEF W
      <3>1. /\ ones \o e \in Seq(W) /\ Len(ones \o e) = Len(ones) + Len(e)
            /\ \A k \in 1..Len(ones) + Len(e) : (ones \o e)[k] =
                  IF k <= Len(ones) THEN ones[k] ELSE e[k - Len(ones)]
        BY <1>3, ConcatProperties
      <3>2. QED
        BY <2>4, <3>1
    <2>7. f[1] = i /\ h[1] = a
          /\ \A k \in 2..Len(f) : k - 1 \in 1..Len(e) /\ f[k] = e[k - 1] /\ h[k] = r[k - 1]
      BY <1>3, <2>3, <2>4, <2>5, <2>6
    <2>8. Len(f) = Len(h) /\ Len(f) \in Nat
      BY <1>3, <2>5, <2>6
    <2> HIDE DEF W
    <2>9. \A j, k \in 1..Len(f) : j < k => f[j] < f[k]
      <3>1. TAKE j, k \in 1..Len(f)
      <3>2. HAVE j < k
      <3>3. k \in 2..Len(f) /\ k - 1 \in 1..Len(e) /\ f[k] = e[k - 1]
        BY <2>7, <3>2
      <3>4. CASE j = 1
        BY <1>1, <1>3, <2>7, <3>3, <3>4
      <3>5. CASE j # 1
        <4>1. j \in 2..Len(f) /\ j - 1 \in 1..Len(e) /\ f[j] = e[j - 1] /\ j - 1 < k - 1
          BY <2>7, <3>2, <3>5
        <4>2. \A x, y \in 1..Len(e) : x < y => e[x] < e[y]
          BY DEF Picks
        <4>3. QED
          BY <3>3, <4>1, <4>2
      <3>6. QED
        BY <3>4, <3>5
    <2>10. \A k \in 1..Len(f) : f[k] \notin skip /\ pre[f[k]] = <<h[k]>>
      <3>1. TAKE k \in 1..Len(f)
      <3>2. CASE k = 1
        BY <1>5, <2>1, <2>7, <3>2
      <3>3. CASE k # 1
        <4>1. PICK l \in 1..Len(e) : l = k - 1 /\ f[k] = e[l] /\ h[k] = r[l]
          <5>1. k \in 2..Len(f)
            BY <3>3
          <5>2. QED
            BY <2>7, <5>1
        <4>2. e[l] \notin skip /\ pre[e[l]] = <<r[l]>>
          BY DEF Picks
        <4>3. QED
          BY <4>1, <4>2
      <3>4. QED
        BY <3>2, <3>3
    <2>11. \A v \in W : v \notin skip /\ pre[v] # <<>> => \E k \in 1..Len(f) : f[k] = v
      <3>1. TAKE v \in W
      <3>2. HAVE v \notin skip /\ pre[v] # <<>>
      <3>3. CASE v = i
        <4>1. 1 \in 1..Len(f)
          BY <2>6, <1>3
        <4>2. QED
          BY <2>7, <3>3, <4>1
      <3>4. CASE v \in V
        <4>1. PICK k \in 1..Len(e) : e[k] = v
          BY <3>2, <3>4 DEF Picks
        <4>2. k + 1 \in 2..Len(f) /\ (k + 1) - 1 = k
          BY <1>3, <2>6
        <4>3. f[k + 1] = v
          BY <2>7, <4>1, <4>2
        <4>4. QED
          BY <2>8, <4>2, <4>3
      <3>5. QED
        BY <3>3, <3>4 DEF W
    <2>12. Picks(f, W, h, pre, skip)
      BY <2>8, <2>9, <2>10, <2>11 DEF Picks
    <2>13. QED
      BY <1>2, <2>5, <2>12 DEF W
  <1>6. QED
    BY <1>4, <1>5

\* A loop that makes one element of a place at most takes them from the places
\* it looks at, in order.
LEMMA LoopPicks ==
    ASSUME NEW A, NEW n \in Nat, NEW pre, NEW nxt, NEW skip, Advances(A, n, pre, nxt),
           \A i \in 1..n : Len(pre[i]) <= 1,
           NEW g, Unfolds(g, n, pre, nxt, skip)
    PROVE  \E V, e : Walk(V, 1, n, nxt) /\ Picks(e, V, g[1], pre, skip)
  <1> DEFINE Good(i) == g[i] \in Seq(A) /\ \E V, e : Walk(V, i, n, nxt) /\ Picks(e, V, g[i], pre, skip)
             I == {k \in Nat : \A i \in 1..n + 1 : i >= n + 1 - k => Good(i)}
  <1>0. Good(n + 1)
    <2>1. g[n + 1] = <<>>
      BY DEF Unfolds
    <2>2. Walk({}, n + 1, n, nxt)
      BY DEF Walk
    <2>3. <<>> \in Seq({}) /\ Len(<<>>) = 0 /\ <<>> \in Seq(A)
      BY EmptySeq
    <2>4. Picks(<<>>, {}, <<>>, pre, skip)
      BY <2>3 DEF Picks
    <2>5. QED
      BY <2>1, <2>2, <2>3, <2>4
  <1>1. 0 \in I
    <2>1. \A i \in 1..n + 1 : i >= n + 1 - 0 => i = n + 1
      OBVIOUS
    <2> HIDE DEF Good
    <2>2. QED
      BY <1>0, <2>1
  <1>2. ASSUME NEW k \in Nat, k \in I PROVE k + 1 \in I
    <2>1. ASSUME NEW i \in 1..n + 1, i >= n + 1 - (k + 1) PROVE Good(i)
      <3>1. CASE i >= n + 1 - k
        BY <1>2, <3>1
      <3>2. CASE i = n + 1
        BY <1>0, <3>2
      <3>3. CASE ~(i >= n + 1 - k) /\ i # n + 1
        <4>1. i \in 1..n /\ i = n - k
          BY <2>1, <3>3
        <4>2. pre[i] \in Seq(A) /\ nxt[i] \in i + 1..n + 1 /\ Len(pre[i]) <= 1
          BY <4>1 DEF Advances
        <4>3. PICK m \in i + 1..n + 1 : m = nxt[i]
          BY <4>2
        <4>4. m \in 1..n + 1 /\ m >= n + 1 - k
          BY <4>1, <4>3
        <4>5. Good(m)
          BY <1>2, <4>4
        <4>6. PICK r \in Seq(A) : r = g[m]
          BY <4>5
        <4>7. PICK V, e : Walk(V, m, n, nxt) /\ Picks(e, V, r, pre, skip)
          BY <4>5, <4>6
        <4>8. g[i] = IF i \in skip THEN r ELSE pre[i] \o r
          <5>1. g[i] = IF i > n THEN <<>> ELSE IF i \in skip THEN g[nxt[i]] ELSE pre[i] \o g[nxt[i]]
            BY DEF Unfolds, Turn
          <5>2. ~(i > n)
            BY <4>1
          <5>3. QED
            BY <4>3, <4>6, <5>1, <5>2
        <4>9. g[i] \in Seq(A)
          BY <4>2, <4>8, ConcatProperties
        <4>10. Walk(V \cup {i}, i, n, nxt) /\ \E f : Picks(f, V \cup {i}, g[i], pre, skip)
          <5>1. PICK q : q = g[i] /\ q = IF i \in skip THEN r ELSE pre[i] \o r
            BY <4>8
          <5>2. Walk(V \cup {i}, i, n, nxt) /\ \E f : Picks(f, V \cup {i}, q, pre, skip)
            BY <4>1, <4>2, <4>3, <4>7, <5>1, PicksFurther
          <5>3. QED
            BY <5>1, <5>2
        <4>11. QED
          BY <4>9, <4>10
      <3>4. QED
        BY <3>1, <3>2, <3>3
    <2> HIDE DEF Good
    <2>2. QED
      BY <2>1
  <1> HIDE DEF Good
  <1>3. n \in I
    <2> HIDE DEF I
    <2>1. Nat \subseteq I
      BY <1>1, <1>2, NumberInduction
    <2>2. QED
      BY <2>1
  <1>4. 1 \in 1..n + 1 /\ 1 >= n + 1 - n
    OBVIOUS
  <1>5. Good(1)
    BY <1>3, <1>4
  <1>6. QED
    BY <1>5 DEF Good

\* Two loops of the same shape make the same.
LEMMA LoopIsOne ==
    ASSUME NEW n \in Nat, NEW A, NEW pre, NEW nxt, NEW skip, Advances(A, n, pre, nxt),
           NEW g, NEW h, Unfolds(g, n, pre, nxt, skip), Unfolds(h, n, pre, nxt, skip)
    PROVE  g[1] = h[1]
  <1> DEFINE I == {k \in Nat : \A i \in 1..n + 1 : i >= n + 1 - k => g[i] = h[i]}
  <1>1. 0 \in I
    <2>1. \A i \in 1..n + 1 : i >= n + 1 - 0 => i > n
      OBVIOUS
    <2>2. \A i \in 1..n + 1 : i > n => g[i] = <<>> /\ h[i] = <<>>
      BY DEF Unfolds
    <2>3. QED
      BY <2>1, <2>2
  <1>2. ASSUME NEW k \in Nat, k \in I PROVE k + 1 \in I
    <2>1. ASSUME NEW i \in 1..n + 1, i >= n + 1 - (k + 1) PROVE g[i] = h[i]
      <3>1. CASE i >= n + 1 - k
        BY <1>2, <3>1
      <3>2. CASE i > n
        BY <3>2 DEF Unfolds
      <3>3. CASE ~(i >= n + 1 - k) /\ ~(i > n)
        <4>1. i \in 1..n /\ i = n - k
          BY <2>1, <3>3
        <4>2. nxt[i] \in i + 1..n + 1
          BY <4>1 DEF Advances
        <4>3. g[nxt[i]] = h[nxt[i]]
          BY <1>2, <4>1, <4>2
        <4>4. /\ g[i] = IF i > n THEN <<>> ELSE Turn(g, i, pre, nxt, skip)
              /\ h[i] = IF i > n THEN <<>> ELSE Turn(h, i, pre, nxt, skip)
          BY DEF Unfolds
        <4>5. QED
          BY <3>3, <4>3, <4>4 DEF Turn
      <3>4. QED
        BY <3>1, <3>2, <3>3
    <2>2. QED
      BY <2>1
  <1>3. n \in I
    <2> HIDE DEF I
    <2>1. Nat \subseteq I
      BY <1>1, <1>2, NumberInduction
    <2>2. QED
      BY <2>1
  <1>4. QED
    BY <1>3

\* The places after each.
Following(n) == [i \in 1..n |-> i + 1]

\* A loop that goes on with the next place.
LEMMA FollowingIs == \A n \in Nat : \A i \in 1..n : Following(n)[i] = i + 1
  BY DEF Following

\* A walk that leaves out no place.
LEMMA WalkIsAll ==
    ASSUME NEW n \in Nat, NEW nxt, \A i \in 1..n : nxt[i] = i + 1,
           NEW V, Walk(V, 1, n, nxt)
    PROVE  V = 1..n
  <1> DEFINE I == {k \in Nat : k + 1 <= n => k + 1 \in V}
  <1>1. 0 \in I
    BY DEF Walk
  <1>2. ASSUME NEW k \in Nat, k \in I PROVE k + 1 \in I
    <2>1. SUFFICES ASSUME (k + 1) + 1 <= n PROVE (k + 1) + 1 \in V
      OBVIOUS
    <2>2. k + 1 \in V /\ k + 1 \in 1..n
      BY <1>2, <2>1
    <2>3. nxt[k + 1] = (k + 1) + 1
      BY <2>2
    <2>4. QED
      BY <2>1, <2>2, <2>3 DEF Walk
  <1>3. Nat \subseteq I
    <2> HIDE DEF I
    <2>1. QED
      BY <1>1, <1>2, NumberInduction
  <1>4. ASSUME NEW i \in 1..n PROVE i \in V
    <2>1. i - 1 \in I /\ (i - 1) + 1 = i
      BY <1>3
    <2>2. QED
      BY <2>1
  <1>5. QED
    BY <1>4 DEF Walk

\* Each place is passed by one step of a walk.
LEMMA WalkCovers ==
    ASSUME NEW n \in Nat, NEW nxt, \A i \in 1..n : nxt[i] \in i + 1..n + 1,
           NEW V, Walk(V, 1, n, nxt)
    PROVE  /\ \A i \in 1..n : \E v \in V : v <= i /\ i < nxt[v]
           /\ \A i \in 1..n, v, w \in V :
                 v <= i /\ i < nxt[v] /\ w <= i /\ i < nxt[w] => v = w
  <1>0. V \subseteq 1..n /\ \A v \in V : nxt[v] \in v + 1..n + 1
    BY DEF Walk
  <1> DEFINE Covered(i) == \E v \in V : v <= i /\ i < nxt[v]
             I == {k \in Nat : k + 1 <= n => Covered(k + 1)}
  <1>1. 0 \in I
    <2>1. SUFFICES ASSUME 1 <= n PROVE Covered(1)
      OBVIOUS
    <2>2. 1 \in V
      BY <2>1 DEF Walk
    <2>3. nxt[1] \in 1 + 1..n + 1
      BY <1>0, <2>2
    <2>4. QED
      BY <2>2, <2>3
  <1>2. ASSUME NEW k \in Nat, k \in I PROVE k + 1 \in I
    <2>1. SUFFICES ASSUME (k + 1) + 1 <= n PROVE Covered((k + 1) + 1)
      OBVIOUS
    <2>2. PICK v \in V : v <= k + 1 /\ k + 1 < nxt[v]
      BY <1>2, <2>1
    <2>3. PICK m \in v + 1..n + 1 : m = nxt[v]
      BY <1>0
    <2>4. v \in 1..n
      BY <1>0
    <2>5. CASE (k + 1) + 1 < m
      BY <2>2, <2>3, <2>4, <2>5
    <2>6. CASE ~((k + 1) + 1 < m)
      <3>1. m = (k + 1) + 1 /\ m <= n
        BY <2>1, <2>2, <2>3, <2>6
      <3>2. m \in V
        BY <2>3, <3>1 DEF Walk
      <3>3. nxt[m] \in m + 1..n + 1
        BY <1>0, <3>2
      <3>4. m <= m /\ m < nxt[m]
        BY <3>1, <3>3
      <3>5. QED
        BY <3>1, <3>2, <3>4
    <2>7. QED
      BY <2>5, <2>6
  <1> HIDE DEF Covered
  <1>3. Nat \subseteq I
    <2> HIDE DEF I
    <2>1. QED
      BY <1>1, <1>2, NumberInduction
  <1>4. ASSUME NEW i \in 1..n PROVE Covered(i)
    <2>1. i - 1 \in I /\ (i - 1) + 1 = i
      BY <1>3
    <2>2. QED
      BY <2>1
  <1>5. ASSUME NEW i \in 1..n, NEW v \in V, NEW w \in V,
               v <= i, i < nxt[v], w <= i, i < nxt[w]
        PROVE  v = w
    <2>1. v \in 1..n /\ w \in 1..n /\ nxt[v] \in v + 1..n + 1 /\ nxt[w] \in w + 1..n + 1
      BY <1>0
    <2>2. (v < w => nxt[v] <= w) /\ (w < v => nxt[w] <= v)
      BY DEF Walk
    <2>3. QED
      BY <1>5, <2>1, <2>2
  <1>6. QED
    BY <1>4, <1>5 DEF Covered

-----------------------------------------------------------------------------
(* Sets of places, in order                                                *)

\* e has the elements of a set of numbers, in order.
Enumerates(e, K) ==
    /\ e \in Seq(K)
    /\ \A j, k \in 1..Len(e) : j < k => e[j] < e[k]
    /\ \A v \in K : \E k \in 1..Len(e) : e[k] = v

\* Every set of places can be enumerated.
LEMMA EnumerationExists ==
    ASSUME NEW n \in Nat, NEW K, K \subseteq 1..n
    PROVE  \E e : Enumerates(e, K)
  <1> DEFINE pre == [i \in 1..n |-> <<i>>]
             skip == 1..n \ K
  <1>1. PICK nxt : nxt = Following(n) /\ \A i \in 1..n : nxt[i] = i + 1
    BY FollowingIs
  <1>2. \A i \in 1..n : pre[i] \in Seq(1..n) /\ Len(pre[i]) <= 1 /\ pre[i] # <<>>
    <2>1. \A i \in 1..n : pre[i] = <<i>>
      OBVIOUS
    <2>2. \A i \in 1..n : <<i>> \in Seq(1..n) /\ Len(<<i>>) <= 1 /\ <<i>> # <<>>
      OBVIOUS
    <2> HIDE DEF pre
    <2>3. QED
      BY <2>1, <2>2
  <1> HIDE DEF pre, skip
  <1>3. Advances(1..n, n, pre, nxt)
    BY <1>1, <1>2 DEF Advances
  <1>4. PICK g : Unfolds(g, n, pre, nxt, skip)
    BY <1>3, LoopExists
  <1>5. PICK V, e : Walk(V, 1, n, nxt) /\ Picks(e, V, g[1], pre, skip)
    <2>1. \A i \in 1..n : Len(pre[i]) <= 1
      BY <1>2
    <2>2. QED
      BY <1>3, <1>4, <2>1, LoopPicks
  <1>6. V = 1..n
    BY <1>1, <1>5, WalkIsAll
  <1>7. e \in Seq(1..n) /\ (\A k \in 1..Len(e) : e[k] \in K)
    <2>1. e \in Seq(1..n) /\ \A k \in 1..Len(e) : e[k] \notin skip
      BY <1>5, <1>6 DEF Picks
    <2>2. \A k \in 1..Len(e) : e[k] \in 1..n
      BY <2>1
    <2>3. \A v \in 1..n : v \notin skip => v \in K
      BY DEF skip
    <2>4. QED
      BY <2>1, <2>2, <2>3
  <1>8. e \in Seq(K)
    <2>1. Len(e) \in Nat /\ e = [k \in 1..Len(e) |-> e[k]]
      BY <1>7
    <2>2. e \in [1..Len(e) -> K]
      BY <1>7, <2>1
    <2>3. QED
      BY <2>1, <2>2
  <1>9. \A v \in K : v \in 1..n /\ v \notin skip
    BY DEF skip
  <1>10. \A v \in K : \E k \in 1..Len(e) : e[k] = v
    BY <1>2, <1>5, <1>6, <1>9 DEF Picks
  <1>11. \A j, k \in 1..Len(e) : j < k => e[j] < e[k]
    BY <1>5 DEF Picks
  <1>12. QED
    BY <1>8, <1>10, <1>11 DEF Enumerates

\* Counting places up to one of them finds it in the enumeration.
LEMMA EnumerationCounts ==
    ASSUME NEW n \in Nat, NEW K, K \subseteq 1..n, NEW e, Enumerates(e, K)
    PROVE  /\ Cardinality(K) = Len(e)
           /\ \A k \in 1..Len(e) : (CHOOSE i \in K : Cardinality(K \cap (1..i)) = k) = e[k]
  <1>1. PICK l \in Nat : l = Len(e)
    BY DEF Enumerates
  <1>2. /\ \A k \in 1..l : e[k] \in K /\ e[k] \in 1..n
        /\ \A j, k \in 1..l : j < k => e[j] < e[k]
        /\ \A v \in K : \E k \in 1..l : e[k] = v
    <2>1. \A k \in 1..l : e[k] \in K
      BY <1>1 DEF Enumerates
    <2>2. QED
      BY <1>1, <2>1 DEF Enumerates
  <1>3. ASSUME NEW m \in 0..l, NEW M, M \subseteq K, \A k \in 1..l : e[k] \in M <=> k <= m
        PROVE  Cardinality(M) = m
    <2> DEFINE f == [k \in 1..m |-> e[k]]
    <2>1. f \in [1..m -> M]
      BY <1>3
    <2>2. \A j, k \in 1..m : f[j] = f[k] => j = k
      <3>1. TAKE j, k \in 1..m
      <3>2. HAVE f[j] = f[k]
      <3>3. e[j] = e[k] /\ j \in 1..l /\ k \in 1..l
        BY <3>2
      <3>4. ~(j < k) /\ ~(k < j)
        BY <1>2, <3>3
      <3>5. QED
        BY <3>4
    <2>3. \A v \in M : \E k \in 1..m : f[k] = v
      <3>1. TAKE v \in M
      <3>2. PICK k \in 1..l : e[k] = v
        BY <1>2, <1>3
      <3>3. k \in 1..m
        BY <1>3, <3>2
      <3>4. QED
        BY <3>2, <3>3
    <2> HIDE DEF f
    <2>4. f \in Bijection(1..m, M)
      BY <2>1, <2>2, <2>3 DEF Bijection, Injection, Surjection, IsInjective
    <2>5. ExistsBijection(1..m, M)
      BY <2>4 DEF ExistsBijection
    <2>6. IsFiniteSet(1..m) /\ Cardinality(1..m) = m
      <3>1. m \in Int /\ 1 \in Int /\ m \in Nat
        OBVIOUS
      <3>2. IsFiniteSet(1..m) /\ Cardinality(1..m) = IF 1 > m THEN 0 ELSE m - 1 + 1
        BY <3>1, FS_Interval
      <3>3. QED
        BY <3>1, <3>2
    <2>7. QED
      BY <2>5, <2>6, FS_Bijection
  <1>4. Cardinality(K) = l
    BY <1>2, <1>3
  <1>5. ASSUME NEW k \in 1..l PROVE Cardinality(K \cap (1..e[k])) = k
    <2>1. PICK M : M = K \cap (1..e[k])
      OBVIOUS
    <2>2. ASSUME NEW j \in 1..l PROVE e[j] \in M <=> j <= k
      <3>1. e[j] \in K /\ e[j] \in 1..n /\ e[k] \in 1..n
        BY <1>2
      <3>2. j < k => e[j] < e[k]
        BY <1>2
      <3>3. k < j => e[k] < e[j]
        BY <1>2
      <3>4. QED
        BY <2>1, <3>1, <3>2, <3>3
    <2>3. M \subseteq K /\ k \in 0..l
      BY <2>1
    <2>4. Cardinality(M) = k
      BY <1>3, <2>2, <2>3
    <2>5. QED
      BY <2>1, <2>4
  <1>6. ASSUME NEW k \in 1..l
        PROVE  (CHOOSE i \in K : Cardinality(K \cap (1..i)) = k) = e[k]
    <2>1. e[k] \in K /\ Cardinality(K \cap (1..e[k])) = k
      BY <1>2, <1>5
    <2>2. ASSUME NEW i \in K, Cardinality(K \cap (1..i)) = k PROVE i = e[k]
      <3>1. PICK j \in 1..l : e[j] = i
        BY <1>2
      <3>2. Cardinality(K \cap (1..i)) = j
        BY <1>5, <3>1
      <3>3. QED
        BY <2>2, <3>1, <3>2
    <2>3. QED
      BY <2>1, <2>2
  <1>7. QED
    BY <1>1, <1>4, <1>6

-----------------------------------------------------------------------------
(* The words of a text, and NormalizeSearchText                            *)

\* The places whose lexemes are no superfluous white space.
Kept(s) == {i \in DOMAIN s : ~Superfluous(s, i)}

\* Words, from an enumeration of the places that are kept.
LEMMA WordsAre ==
    ASSUME NEW B, NEW s \in Seq(B), NEW e, Enumerates(e, Kept(s))
    PROVE  Words(s) = [k \in 1..Len(e) |-> Lower[s[e[k]]]]
  <1>1. PICK K : K = Kept(s)
    OBVIOUS
  <1>2. PICK n \in Nat : n = Len(s) /\ DOMAIN s = 1..n
    OBVIOUS
  <1>3. K \subseteq 1..n
    BY <1>1, <1>2 DEF Kept
  <1>4. /\ Cardinality(K) = Len(e)
        /\ \A k \in 1..Len(e) : (CHOOSE i \in K : Cardinality(K \cap (1..i)) = k) = e[k]
    BY <1>1, <1>3, EnumerationCounts
  <1>5. Words(s) = [k \in 1..Cardinality(K) |->
                      Lower[s[CHOOSE i \in K : Cardinality(K \cap (1..i)) = k]]]
    BY <1>1 DEF Words, Kept
  <1>6. QED
    BY <1>4, <1>5

\* White space, for the provers, which take no string of it.
Space == " "

\* What makes white space superfluous.
LEMMA SuperfluousIs ==
    \A s, i : Superfluous(s, i) <=>
        /\ s[i] = Space
        /\ (\A j \in 1..i : s[j] = Space) \/ (\A j \in i..Len(s) : s[j] = Space) \/ s[i + 1] = Space
  BY Zenon DEF Superfluous, Space

\* The text u without some of its superfluous white space is t, whose places have
\* the numbers f in u.
Thins(B, u, t, f) ==
    /\ u \in Seq(B) /\ t \in Seq(B) /\ f \in Seq(1..Len(u)) /\ Len(f) = Len(t)
    /\ \A j, k \in 1..Len(t) : j < k => f[j] < f[k]
    /\ \A k \in 1..Len(t) : t[k] = u[f[k]]
    /\ \A i \in 1..Len(u) : Superfluous(u, i) \/ \E k \in 1..Len(t) : f[k] = i

\* What is superfluous remains so.
LEMMA ThinningKeepsSuperfluous ==
    ASSUME NEW B, NEW u, NEW t, NEW f, Thins(B, u, t, f)
    PROVE  \A k \in 1..Len(t) : Superfluous(t, k) <=> Superfluous(u, f[k])
  <1> DEFINE F == {i \in 1..Len(u) : \E k \in 1..Len(t) : f[k] = i}
  <1>n. PICK n \in Nat : n = Len(u)
    BY DEF Thins
  <1>l. PICK l \in Nat : l = Len(t)
    BY DEF Thins
  <1>1. /\ \A k \in 1..l : f[k] \in F /\ f[k] \in 1..n /\ t[k] = u[f[k]]
        /\ \A j, k \in 1..l : j < k => f[j] < f[k]
        /\ \A i \in F : \E k \in 1..l : f[k] = i
    <2>1. f \in Seq(1..n) /\ Len(f) = l
      BY <1>n, <1>l DEF Thins
    <2>2. \A k \in 1..l : f[k] \in 1..n
      BY <2>1
    <2>3. QED
      BY <1>n, <1>l, <2>2 DEF Thins
  <1>a. \A i \in 1..n : i \notin F => Superfluous(u, i)
    BY <1>n, <1>l DEF Thins
  <1> HIDE DEF F
  <1>2. \A i \in 1..n : i \notin F => u[i] = Space
    BY <1>a, SuperfluousIs
  <1>3. \A j, k \in 1..l : f[j] <= f[k] <=> j <= k
    <2>1. TAKE j, k \in 1..l
    <2>2. (j < k => f[j] < f[k]) /\ (k < j => f[k] < f[j]) /\ f[j] \in 1..n /\ f[k] \in 1..n
      BY <1>1
    <2>3. QED
      BY <2>2
  <1>4. SUFFICES ASSUME NEW k \in 1..l PROVE Superfluous(t, k) <=> Superfluous(u, f[k])
    BY <1>l
  <1>5. PICK p \in 1..n : p = f[k] /\ t[k] = u[p]
    BY <1>1
  <1>6. (\A j \in 1..k : t[j] = Space) <=> (\A i \in 1..p : u[i] = Space)
    <2>1. ASSUME \A j \in 1..k : t[j] = Space, NEW i \in 1..p PROVE u[i] = Space
      <3>1. i \in 1..n
        BY <1>5
      <3>2. CASE i \notin F
        BY <1>2, <3>1, <3>2
      <3>3. CASE i \in F
        <4>1. PICK j \in 1..l : f[j] = i
          BY <1>1, <3>3
        <4>2. j <= k
          BY <1>3, <1>5, <4>1
        <4>3. j \in 1..k
          BY <4>2
        <4>4. QED
          BY <1>1, <2>1, <4>1, <4>3
      <3>4. QED
        BY <3>2, <3>3
    <2>2. ASSUME \A i \in 1..p : u[i] = Space, NEW j \in 1..k PROVE t[j] = Space
      <3>1. j \in 1..l /\ j <= k
        OBVIOUS
      <3>2. f[j] <= f[k] /\ f[j] \in 1..n
        BY <1>1, <1>3, <3>1
      <3>3. f[j] \in 1..p
        BY <1>5, <3>2
      <3>4. QED
        BY <1>1, <2>2, <3>1, <3>3
    <2>3. QED
      BY <2>1, <2>2
  <1>7. (\A j \in k..l : t[j] = Space) <=> (\A i \in p..n : u[i] = Space)
    <2>1. ASSUME \A j \in k..l : t[j] = Space, NEW i \in p..n PROVE u[i] = Space
      <3>1. i \in 1..n
        BY <1>5
      <3>2. CASE i \notin F
        BY <1>2, <3>1, <3>2
      <3>3. CASE i \in F
        <4>1. PICK j \in 1..l : f[j] = i
          BY <1>1, <3>3
        <4>2. k <= j
          BY <1>3, <1>5, <4>1
        <4>3. j \in k..l
          BY <4>2
        <4>4. QED
          BY <1>1, <2>1, <4>1, <4>3
      <3>4. QED
        BY <3>2, <3>3
    <2>2. ASSUME \A i \in p..n : u[i] = Space, NEW j \in k..l PROVE t[j] = Space
      <3>1. j \in 1..l /\ k <= j
        OBVIOUS
      <3>2. f[k] <= f[j] /\ f[j] \in 1..n
        BY <1>1, <1>3, <3>1
      <3>3. f[j] \in p..n
        BY <1>5, <3>2
      <3>4. QED
        BY <1>1, <2>2, <3>1, <3>3
    <2>3. QED
      BY <2>1, <2>2
  <1>8. t[k] = Space /\ k = l => \A j \in k..l : t[j] = Space
    OBVIOUS
  <1>9. u[p] = Space /\ p = n => \A i \in p..n : u[i] = Space
    OBVIOUS
  <1>10. /\ Superfluous(t, k) <=> t[k] = Space /\
               ((\A j \in 1..k : t[j] = Space) \/ (\A j \in k..l : t[j] = Space) \/ t[k + 1] = Space)
         /\ Superfluous(u, p) <=> u[p] = Space /\
               ((\A j \in 1..p : u[j] = Space) \/ (\A j \in p..n : u[j] = Space) \/ u[p + 1] = Space)
    BY <1>n, <1>l, SuperfluousIs
  <1>11. ASSUME k < l, t[k + 1] = Space PROVE u[p + 1] = Space
    <2>1. PICK q \in 1..n : q = f[k + 1] /\ p < q /\ t[k + 1] = u[q]
      <3>1. k + 1 \in 1..l /\ k < k + 1
        BY <1>11
      <3>2. f[k] < f[k + 1] /\ f[k + 1] \in 1..n /\ t[k + 1] = u[f[k + 1]]
        BY <1>1, <3>1
      <3>3. QED
        BY <1>5, <3>2
    <2>2. p + 1 \in 1..n /\ p + 1 <= q
      BY <2>1
    <2>3. CASE p + 1 \notin F
      BY <1>2, <2>2, <2>3
    <2>4. CASE p + 1 \in F
      <3>1. PICK j \in 1..l : f[j] = p + 1
        BY <1>1, <2>4
      <3>2. j <= k + 1 /\ ~(j <= k)
        <4>1. k + 1 \in 1..l
          BY <1>11
        <4>2. f[j] <= f[k + 1] /\ ~(f[j] <= f[k])
          BY <1>5, <2>1, <2>2, <3>1
        <4>3. QED
          BY <1>3, <4>1, <4>2
      <3>3. j = k + 1
        BY <3>2
      <3>4. QED
        BY <1>11, <2>1, <3>1, <3>3
    <2>5. QED
      BY <2>3, <2>4
  <1>12. ASSUME k < l, p < n, u[p] = Space, u[p + 1] = Space, t[k + 1] # Space
         PROVE  \A i \in 1..p : u[i] = Space
    <2>1. PICK q \in 1..n : q = f[k + 1] /\ p < q /\ t[k + 1] = u[q]
      <3>1. k + 1 \in 1..l /\ k < k + 1
        BY <1>12
      <3>2. f[k] < f[k + 1] /\ f[k + 1] \in 1..n /\ t[k + 1] = u[f[k + 1]]
        BY <1>1, <3>1
      <3>3. QED
        BY <1>5, <3>2
    <2>2. q # p + 1
      BY <1>12, <2>1
    <2>3. PICK i \in 1..n : i = q - 1 /\ p < i /\ i < q
      BY <2>1, <2>2
    <2>4. i \notin F
      <3>1. SUFFICES ASSUME NEW j \in 1..l, f[j] = i PROVE FALSE
        BY <1>1
      <3>2. k + 1 \in 1..l
        BY <1>12
      <3>3. ~(f[j] <= f[k]) /\ ~(f[k + 1] <= f[j])
        BY <1>5, <2>1, <2>3, <3>1
      <3>4. ~(j <= k) /\ ~(k + 1 <= j)
        BY <1>3, <3>2, <3>3
      <3>5. QED
        BY <3>4
    <2>5. Superfluous(u, i)
      BY <1>a, <2>4
    <2>6. i + 1 = q /\ q \in i..n /\ u[q] # Space
      BY <1>12, <2>1, <2>3
    <2>7. \A j \in 1..i : u[j] = Space
      BY <1>n, <2>5, <2>6, SuperfluousIs
    <2>8. QED
      BY <2>3, <2>7
  <1>13. ASSUME Superfluous(t, k) PROVE Superfluous(u, p)
    <2>1. k = l \/ k < l
      OBVIOUS
    <2>2. QED
      BY <1>5, <1>6, <1>7, <1>8, <1>10, <1>11, <1>13, <2>1
  <1>14. ASSUME Superfluous(u, p) PROVE Superfluous(t, k)
    <2>1. (k = l \/ k < l) /\ (p = n \/ p < n)
      OBVIOUS
    <2>2. QED
      BY <1>5, <1>6, <1>7, <1>8, <1>9, <1>10, <1>12, <1>14, <2>1
  <1>15. QED
    BY <1>5, <1>13, <1>14

\* So a text keeps its words.
LEMMA ThinningKeepsWords ==
    ASSUME NEW B, NEW u, NEW t, NEW f, Thins(B, u, t, f)
    PROVE  Words(t) = Words(u)
  <1>0. u \in Seq(B) /\ t \in Seq(B)
    BY DEF Thins
  <1>1. PICK n \in Nat : n = Len(u) /\ DOMAIN u = 1..n
    BY <1>0
  <1>2. PICK l \in Nat : l = Len(t) /\ DOMAIN t = 1..l
    BY <1>0
  <1>3. \A k \in 1..l : Superfluous(t, k) <=> Superfluous(u, f[k])
    BY <1>2, ThinningKeepsSuperfluous
  <1>4. PICK K : K = Kept(u)
    OBVIOUS
  <1>5. PICK L : L = Kept(t)
    OBVIOUS
  <1>a. \A i : i \in K <=> i \in 1..n /\ ~Superfluous(u, i)
    BY <1>1, <1>4 DEF Kept
  <1>b. \A k : k \in L <=> k \in 1..l /\ ~Superfluous(t, k)
    BY <1>2, <1>5 DEF Kept
  <1>6. PICK e : Enumerates(e, L)
    BY <1>b, EnumerationExists
  <1>7. PICK m \in Nat : m = Len(e)
    BY <1>6 DEF Enumerates
  <1>8. /\ \A k \in 1..m : e[k] \in L
        /\ \A j, k \in 1..m : j < k => e[j] < e[k]
        /\ \A v \in L : \E k \in 1..m : e[k] = v
    <2>1. e \in Seq(L)
      BY <1>6 DEF Enumerates
    <2>2. QED
      BY <1>6, <1>7, <2>1 DEF Enumerates
  <1>9. /\ \A k \in 1..l : f[k] \in 1..n /\ t[k] = u[f[k]]
        /\ \A j, k \in 1..l : j < k => f[j] < f[k]
        /\ \A i \in 1..n : Superfluous(u, i) \/ \E k \in 1..l : f[k] = i
    <2>1. f \in Seq(1..n) /\ Len(f) = l
      BY <1>1, <1>2 DEF Thins
    <2>2. \A k \in 1..l : f[k] \in 1..n
      BY <2>1
    <2>3. QED
      BY <1>1, <1>2, <2>2 DEF Thins
  <1> DEFINE g == [k \in 1..m |-> f[e[k]]]
  <1>10. Len(g) = m /\ \A k \in 1..m : g[k] = f[e[k]] /\ e[k] \in 1..l
    BY <1>b, <1>8
  <1>11. \A k \in 1..m : g[k] \in K
    BY <1>1, <1>3, <1>a, <1>b, <1>8, <1>9, <1>10
  <1>12. g \in Seq(K)
    <2>1. g \in [1..m -> K]
      BY <1>11
    <2> HIDE DEF g
    <2>2. QED
      BY <2>1
  <1> HIDE DEF g
  <1>13. ASSUME NEW j \in 1..m, NEW k \in 1..m, j < k PROVE g[j] < g[k]
    <2>1. e[j] < e[k]
      BY <1>8, <1>13
    <2>2. e[j] \in 1..l /\ e[k] \in 1..l /\ g[j] = f[e[j]] /\ g[k] = f[e[k]]
      BY <1>10
    <2>3. f[e[j]] < f[e[k]]
      BY <1>9, <2>1, <2>2
    <2>4. QED
      BY <2>2, <2>3
  <1>14. ASSUME NEW v \in K PROVE \E k \in 1..m : g[k] = v
    <2>1. v \in 1..n /\ ~Superfluous(u, v)
      BY <1>1, <1>a
    <2>2. PICK j \in 1..l : f[j] = v
      BY <1>9, <2>1
    <2>3. j \in L
      BY <1>3, <1>b, <2>1, <2>2
    <2>4. PICK k \in 1..m : e[k] = j
      BY <1>8, <2>3
    <2>5. QED
      BY <1>10, <2>2, <2>4
  <1>15. Enumerates(g, K)
    BY <1>10, <1>12, <1>13, <1>14 DEF Enumerates
  <1>16. Words(t) = [k \in 1..m |-> Lower[t[e[k]]]]
    BY <1>0, <1>5, <1>6, <1>7, WordsAre
  <1>17. Words(u) = [k \in 1..m |-> Lower[u[g[k]]]]
    <2>1. Words(u) = [k \in 1..Len(g) |-> Lower[u[g[k]]]]
      BY <1>0, <1>4, <1>15, WordsAre
    <2>2. QED
      BY <1>10, <2>1
  <1>18. \A k \in 1..m : t[e[k]] = u[g[k]]
    BY <1>9, <1>10
  <1>19. QED
    BY <1>16, <1>17, <1>18

\* IsSpace is white space.
LEMMA SpaceIs == \A c : IsSpace(c) <=> c = Space
  BY Zenon DEF IsSpace, Space

\* What the loop of NormalizeSearchText makes of each place, and what it skips.
Lowered(s) == [i \in 1..Len(s) |-> <<Lower[s[i]]>>]
Doubled(s) == {i \in 1..Len(s) : i < Len(s) /\ IsSpace(s[i]) /\ IsSpace(s[i + 1])}

\* It is a loop over these pieces.
LEMMA NormalizeUnfolds ==
    ASSUME NEW B, NEW value \in Seq(B), NEW s \in Seq(B), s = Strip(value)
    PROVE  /\ Advances({Lower[c] : c \in B}, Len(s), Lowered(s), Following(Len(s)))
           /\ \A i \in 1..Len(s) : Lowered(s)[i] = <<Lower[s[i]]>>
           /\ \E g : /\ Unfolds(g, Len(s), Lowered(s), Following(Len(s)), Doubled(s))
                     /\ NormalizeSearchText(value) = g[1]
  <1> DEFINE A == {Lower[c] : c \in B}
             Collapses(f) ==
                f = [i \in 1..Len(s) + 1 |->
                        CASE i > Len(s) -> <<>>
                          [] i < Len(s) /\ IsSpace(s[i]) /\ IsSpace(s[i + 1]) -> f[i + 1]
                          [] OTHER -> <<Lower[s[i]]>> \o f[i + 1]]
  <1>1. PICK n \in Nat : n = Len(s) /\ \A i \in 1..n : s[i] \in B
    OBVIOUS
  <1>2. PICK nxt : nxt = Following(n) /\ \A i \in 1..n : nxt[i] = i + 1
    BY FollowingIs
  <1>3. PICK pre : pre = Lowered(s) /\ \A i \in 1..n : pre[i] = <<Lower[s[i]]>>
    <2>1. \A i \in 1..Len(s) : Lowered(s)[i] = <<Lower[s[i]]>>
      BY DEF Lowered
    <2>2. QED
      BY <1>1, <2>1
  <1>4. PICK skip : skip = Doubled(s)
    OBVIOUS
  <1>5. \A i \in 1..n : i \in skip <=> i < Len(s) /\ IsSpace(s[i]) /\ IsSpace(s[i + 1])
    BY <1>1, <1>4 DEF Doubled
  <1>6. Advances(A, n, pre, nxt)
    <2>1. ASSUME NEW i \in 1..n PROVE pre[i] \in Seq(A) /\ nxt[i] \in i + 1..n + 1
      <3>1. \A a \in A : <<a>> \in Seq(A)
        OBVIOUS
      <3>2. Lower[s[i]] \in A
        BY <1>1
      <3> HIDE DEF A
      <3>3. pre[i] \in Seq(A)
        BY <1>3, <3>1, <3>2
      <3>4. nxt[i] \in i + 1..n + 1
        BY <1>2
      <3>5. QED
        BY <3>3, <3>4
    <2>2. QED
      BY <2>1 DEF Advances
  <1>7. ASSUME NEW f, NEW i \in 1..n + 1
        PROVE  (CASE i > Len(s) -> <<>>
                  [] i < Len(s) /\ IsSpace(s[i]) /\ IsSpace(s[i + 1]) -> f[i + 1]
                  [] OTHER -> <<Lower[s[i]]>> \o f[i + 1])
               = IF i > n THEN <<>> ELSE Turn(f, i, pre, nxt, skip)
    <2>1. CASE i > Len(s)
      BY <1>1, <2>1
    <2>2. CASE ~(i > Len(s))
      <3>1. i \in 1..n /\ nxt[i] = i + 1 /\ pre[i] = <<Lower[s[i]]>> /\ ~(i > n)
        BY <1>1, <1>2, <1>3, <2>2
      <3>2. CASE i \in skip
        BY <1>5, <2>2, <3>1, <3>2 DEF Turn
      <3>3. CASE i \notin skip
        BY <1>5, <2>2, <3>1, <3>3 DEF Turn
      <3>4. QED
        BY <3>2, <3>3
    <2>3. QED
      BY <2>1, <2>2
  <1>8. \A f : Collapses(f) => Unfolds(f, n, pre, nxt, skip)
    <2>1. ASSUME NEW f, Collapses(f), NEW i \in 1..n + 1
          PROVE  f[i] = IF i > n THEN <<>> ELSE Turn(f, i, pre, nxt, skip)
      <3>1. f[i] = CASE i > Len(s) -> <<>>
                     [] i < Len(s) /\ IsSpace(s[i]) /\ IsSpace(s[i + 1]) -> f[i + 1]
                     [] OTHER -> <<Lower[s[i]]>> \o f[i + 1]
        BY <1>1, <2>1
      <3>2. QED
        BY <1>7, <3>1
    <2> HIDE DEF Collapses
    <2>2. QED
      BY <2>1 DEF Unfolds
  <1>9. \E f : Collapses(f)
    <2>1. PICK f \in [1..n + 1 -> Seq(A)] : Unfolds(f, n, pre, nxt, skip)
      <3> HIDE DEF A
      <3>1. QED
        BY <1>6, LoopExists
    <2>2. \A i \in 1..n + 1 :
             f[i] = CASE i > Len(s) -> <<>>
                      [] i < Len(s) /\ IsSpace(s[i]) /\ IsSpace(s[i + 1]) -> f[i + 1]
                      [] OTHER -> <<Lower[s[i]]>> \o f[i + 1]
      BY <1>7, <2>1 DEF Unfolds
    <2>3. f = [i \in 1..n + 1 |-> f[i]]
      OBVIOUS
    <2>4. Collapses(f)
      BY <1>1, <2>2, <2>3
    <2> HIDE DEF Collapses
    <2>5. QED
      BY <2>4
  <1> DEFINE c == CHOOSE f : Collapses(f)
  <1>10. NormalizeSearchText(value) = c[1]
    BY DEF NormalizeSearchText
  <1> HIDE DEF Collapses
  <1>11. Unfolds(c, n, pre, nxt, skip)
    BY <1>8, <1>9
  <1> HIDE DEF c
  <1>12. QED
    BY <1>1, <1>2, <1>3, <1>4, <1>6, <1>10, <1>11

\* Of a text that neither starts nor ends with white space, it makes the words.
LEMMA CollapsedIs ==
    ASSUME NEW B, NEW value \in Seq(B), NEW s \in Seq(B), s = Strip(value),
           s # <<>> => s[1] # Space /\ s[Len(s)] # Space
    PROVE  NormalizeSearchText(value) = Words(s)
  <1>1. PICK n \in Nat : n = Len(s) /\ DOMAIN s = 1..n
    OBVIOUS
  <1>2. PICK nxt : nxt = Following(n) /\ \A i \in 1..n : nxt[i] = i + 1
    BY FollowingIs
  <1>3. PICK pre : pre = Lowered(s)
    OBVIOUS
  <1>4. PICK skip : skip = Doubled(s)
    OBVIOUS
  <1>5. PICK K : K = Kept(s)
    OBVIOUS
  <1>6. PICK g : /\ Advances({Lower[c] : c \in B}, n, pre, nxt)
                 /\ \A i \in 1..n : pre[i] = <<Lower[s[i]]>>
                 /\ Unfolds(g, n, pre, nxt, skip) /\ NormalizeSearchText(value) = g[1]
    BY <1>1, <1>2, <1>3, <1>4, NormalizeUnfolds
  <1>7. \A i \in 1..n : Len(pre[i]) <= 1 /\ pre[i] # <<>>
    <2>1. \A c : Len(<<c>>) <= 1 /\ <<c>> # <<>>
      OBVIOUS
    <2>2. QED
      BY <1>6, <2>1
  <1>8. PICK V, e : Walk(V, 1, n, nxt) /\ Picks(e, V, g[1], pre, skip)
    BY <1>6, <1>7, LoopPicks
  <1>9. V = 1..n
    BY <1>2, <1>8, WalkIsAll
  <1>10. \A i \in 1..n : i \in skip <=> i < n /\ s[i] = Space /\ s[i + 1] = Space
    BY <1>1, <1>4, SpaceIs DEF Doubled
  <1>11. \A i \in 1..n : Superfluous(s, i) <=> i \in skip
    <2>1. ASSUME NEW i \in 1..n PROVE Superfluous(s, i) <=> i \in skip
      <3>1. s[1] # Space /\ s[n] # Space /\ 1 \in 1..i /\ n \in i..n
        <4>1. s # <<>>
          BY <1>1
        <4>2. QED
          BY <1>1, <4>1
      <3>2. i = n => s[i] # Space
        BY <3>1
      <3>3. i < n \/ i = n
        OBVIOUS
      <3>4. QED
        BY <1>1, <1>10, <3>1, <3>2, <3>3, SuperfluousIs
    <2>2. QED
      BY <2>1
  <1>12. \A i : i \in K <=> i \in 1..n /\ i \notin skip
    BY <1>1, <1>5, <1>11 DEF Kept
  <1>13. PICK r : r = g[1]
    OBVIOUS
  <1>14. /\ e \in Seq(1..n) /\ Len(e) = Len(r)
         /\ \A j, k \in 1..Len(e) : j < k => e[j] < e[k]
         /\ \A k \in 1..Len(e) : e[k] \notin skip /\ pre[e[k]] = <<r[k]>>
         /\ \A v \in 1..n : v \notin skip /\ pre[v] # <<>> => \E k \in 1..Len(e) : e[k] = v
    <2>1. Picks(e, 1..n, r, pre, skip)
      BY <1>8, <1>9, <1>13
    <2>2. QED
      BY <2>1 DEF Picks
  <1>15. Enumerates(e, K)
    <2>1. PICK m \in Nat : m = Len(e) /\ e = [k \in 1..m |-> e[k]]
      <3>1. PICK S : e \in Seq(S)
        BY <1>14
      <3>2. Len(e) \in Nat /\ e = [k \in 1..Len(e) |-> e[k]]
        BY <3>1
      <3>3. QED
        BY <3>2
    <2>2. \A k \in 1..m : e[k] \in K
      BY <1>12, <1>14, <2>1
    <2>3. e \in [1..m -> K]
      BY <2>1, <2>2
    <2>4. e \in Seq(K)
      BY <2>3
    <2>5. \A v \in K : \E k \in 1..Len(e) : e[k] = v
      BY <1>7, <1>12, <1>14
    <2>6. QED
      BY <1>14, <2>4, <2>5 DEF Enumerates
  <1>16. Words(s) = [k \in 1..Len(e) |-> Lower[s[e[k]]]]
    BY <1>5, <1>15, WordsAre
  <1>17. r \in Seq({Lower[c] : c \in B})
    BY <1>6, <1>13, LoopMakesSeq
  <1>18. \A k \in 1..Len(e) : r[k] = Lower[s[e[k]]]
    <2>1. TAKE k \in 1..Len(e)
    <2>2. PICK i \in 1..n : i = e[k]
      BY <1>14
    <2>3. <<r[k]>> = <<Lower[s[i]]>>
      BY <1>6, <1>14, <2>2
    <2>4. QED
      BY <2>2, <2>3
  <1>19. r = [k \in 1..Len(e) |-> Lower[s[e[k]]]]
    <2>1. r = [k \in 1..Len(r) |-> r[k]]
      BY <1>17
    <2>2. QED
      BY <1>14, <1>18, <2>1
  <1>20. QED
    BY <1>6, <1>13, <1>16, <1>19

\* Strip takes what is superfluous at the ends.
LEMMA StripThins ==
    ASSUME NEW B, NEW s \in Seq(B)
    PROVE  /\ Strip(s) \in Seq(B)
           /\ Strip(s) # <<>> => Strip(s)[1] # Space /\ Strip(s)[Len(Strip(s))] # Space
           /\ \E f : Thins(B, s, Strip(s), f)
  <1> DEFINE solid == {i \in DOMAIN s : ~IsSpace(s[i])}
             first == CHOOSE i \in solid : \A j \in solid : i <= j
             last == CHOOSE i \in solid : \A j \in solid : i >= j
  <1>0. PICK n \in Nat : n = Len(s) /\ DOMAIN s = 1..n /\ \A i \in 1..n : s[i] \in B
    OBVIOUS
  <1>1. \A i : i \in solid <=> i \in 1..n /\ s[i] # Space
    BY <1>0, SpaceIs
  <1>2. CASE solid = {}
    <2>1. Strip(s) = <<>>
      BY <1>2 DEF Strip
    <2>2. \A i \in 1..n : Superfluous(s, i)
      <3>1. \A j \in 1..n : s[j] = Space
        BY <1>1, <1>2
      <3>2. QED
        BY <1>0, <3>1, SuperfluousIs
    <2>3. <<>> \in Seq(B) /\ <<>> \in Seq(1..n) /\ Len(<<>>) = 0
      BY EmptySeq
    <2>4. Thins(B, s, <<>>, <<>>)
      BY <1>0, <2>2, <2>3 DEF Thins
    <2>5. QED
      BY <2>1, <2>3, <2>4
  <1>3. CASE solid # {}
    <2>0. solid \subseteq 1..n /\ solid \in SUBSET Nat
      BY <1>1
    <2>1. first \in solid /\ \A j \in solid : first <= j
      <3>1. \E i \in solid : \A j \in solid : i <= j
        <4> HIDE DEF solid
        <4>1. QED
          BY <1>3, <2>0, LeastNumber
      <3>2. QED
        BY <3>1
    <2>2. last \in solid /\ \A j \in solid : last >= j
      <3>1. \E i \in solid : \A j \in solid : i >= j
        <4> HIDE DEF solid
        <4>0. PICK k \in solid : TRUE
          BY <1>3
        <4>1. PICK R : R = {n - i : i \in solid} /\ R \in SUBSET Nat /\ R # {}
          <5> DEFINE R == {n - i : i \in solid}
          <5>1. n - k \in R
            BY <4>0
          <5>2. \A d \in R : d \in Nat
            <6>1. \A i \in solid : n - i \in Nat
              BY <2>0
            <6>2. QED
              BY <6>1
          <5> HIDE DEF R
          <5>3. R \in SUBSET Nat /\ R # {}
            BY <5>1, <5>2
          <5>4. QED
            BY <5>3 DEF R
        <4>2. PICK d \in R : \A e \in R : d <= e
          BY <4>1, LeastNumber
        <4>3. PICK i \in solid : d = n - i
          BY <4>1
        <4>4. ASSUME NEW j \in solid PROVE i >= j
          <5>1. d <= n - j
            BY <4>1, <4>2
          <5>2. QED
            BY <2>0, <4>3, <5>1
        <4>5. QED
          BY <4>4
      <3>2. QED
        BY <3>1
    <2>3. Strip(s) = SubSeq(s, first, last)
      BY <1>3 DEF Strip
    <2> HIDE DEF first, last, solid
    <2>4. PICK a \in 1..n, b \in 1..n :
             /\ Strip(s) = SubSeq(s, a, b) /\ a \in solid /\ b \in solid
             /\ \A j \in solid : a <= j /\ j <= b
      <3>1. PICK a \in 1..n : a = first
        BY <2>0, <2>1
      <3>2. PICK b \in 1..n : b = last
        BY <2>0, <2>2
      <3>3. \A j \in solid : a <= j /\ b >= j
        BY <2>1, <2>2, <3>1, <3>2
      <3>4. \A j \in solid : j \in 1..n
        BY <2>0
      <3>5. \A j \in solid : j <= b
        BY <3>3, <3>4
      <3>6. QED
        BY <2>1, <2>2, <2>3, <3>1, <3>2, <3>3, <3>5
    <2>5. PICK l \in Nat : l = b - a + 1
      BY <2>4
    <2>6. PICK t : t = Strip(s)
      OBVIOUS
    <2>7. t \in Seq(B) /\ Len(t) = l /\ \A k \in 1..l : t[k] = s[a + k - 1]
      <3>1. \A i \in a..b : s[i] \in B
        BY <1>0
      <3>2. a <= b + 1
        BY <2>5
      <3>3. /\ SubSeq(s, a, b) \in Seq(B)
            /\ Len(SubSeq(s, a, b)) = IF a <= b THEN b - a + 1 ELSE 0
            /\ \A k \in 1..b - a + 1 : SubSeq(s, a, b)[k] = s[a + k - 1]
        BY <1>0, <3>1, SubSeqProperties
      <3>4. a <= b
        BY <2>4
      <3>5. QED
        BY <2>4, <2>5, <2>6, <3>3, <3>4
    <2> DEFINE f == [k \in 1..l |-> a + k - 1]
    <2>8. \A k \in 1..l : f[k] = a + k - 1 /\ f[k] \in 1..n
      BY <2>5
    <2>9. f \in Seq(1..n) /\ Len(f) = l
      <3>1. f \in [1..l -> 1..n]
        BY <2>8
      <3>2. Len(f) = l
        OBVIOUS
      <3> HIDE DEF f
      <3>3. QED
        BY <3>1, <3>2
    <2> HIDE DEF f
    <2>10. \A j, k \in 1..l : j < k => f[j] < f[k]
      BY <2>8
    <2>11. \A k \in 1..l : t[k] = s[f[k]]
      BY <2>7, <2>8
    <2>12. ASSUME NEW i \in 1..n PROVE Superfluous(s, i) \/ \E k \in 1..l : f[k] = i
      <3>1. CASE i < a
        <4>1. \A j \in 1..i : j \in 1..n /\ ~(a <= j)
          BY <3>1
        <4>2. \A j \in 1..i : s[j] = Space
          BY <1>1, <2>4, <4>1
        <4>3. s[i] = Space
          BY <4>2
        <4>4. QED
          BY <4>2, <4>3, SuperfluousIs
      <3>2. CASE i > b
        <4>1. \A j \in i..n : j \in 1..n /\ ~(j <= b)
          BY <3>2
        <4>2. \A j \in i..n : s[j] = Space
          BY <1>1, <2>4, <4>1
        <4>3. s[i] = Space
          BY <4>2
        <4>4. QED
          BY <1>0, <4>2, <4>3, SuperfluousIs
      <3>3. CASE ~(i < a) /\ ~(i > b)
        <4>1. i - a + 1 \in 1..l /\ a + (i - a + 1) - 1 = i
          BY <2>5, <3>3
        <4>2. f[i - a + 1] = i
          BY <2>8, <4>1
        <4>3. QED
          BY <4>1, <4>2
      <3>4. QED
        BY <3>1, <3>2, <3>3
    <2>13. Thins(B, s, t, f)
      <3>1. f \in Seq(1..Len(s)) /\ s \in Seq(B)
        BY <1>0, <2>9
      <3>2. QED
        BY <1>0, <2>7, <2>9, <2>10, <2>11, <2>12, <3>1 DEF Thins
    <2>14. t[1] # Space /\ t[l] # Space
      <3>1. 1 \in 1..l /\ l \in 1..l /\ a + 1 - 1 = a /\ a + l - 1 = b
        BY <2>4, <2>5
      <3>2. t[1] = s[a] /\ t[l] = s[b]
        BY <2>7, <3>1
      <3>3. QED
        BY <1>1, <2>4, <3>2
    <2>15. QED
      BY <2>6, <2>7, <2>13, <2>14
  <1>4. QED
    BY <1>2, <1>3

\* NormalizeSearchText makes a text of lower case symbols.
LEMMA NormalizedIs ==
    ASSUME NEW B, NEW value \in Seq(B)
    PROVE  NormalizeSearchText(value) \in Seq({Lower[c] : c \in B})
  <1>1. PICK s \in Seq(B) : s = Strip(value)
    BY StripThins
  <1>2. PICK n \in Nat : n = Len(s)
    OBVIOUS
  <1>3. PICK pre, nxt, skip : pre = Lowered(s) /\ nxt = Following(n) /\ skip = Doubled(s)
    OBVIOUS
  <1>4. PICK g : /\ Advances({Lower[c] : c \in B}, n, pre, nxt)
                 /\ \A i \in 1..n : pre[i] = <<Lower[s[i]]>>
                 /\ Unfolds(g, n, pre, nxt, skip) /\ NormalizeSearchText(value) = g[1]
    BY <1>1, <1>2, <1>3, NormalizeUnfolds
  <1>5. ASSUME NEW i \in 1..n PROVE Len(pre[i]) <= 1
    <2>1. PICK c : c = Lower[s[i]]
      OBVIOUS
    <2>2. pre[i] = <<c>>
      BY <1>4, <2>1
    <2>3. Len(<<c>>) = 1
      OBVIOUS
    <2>4. QED
      BY <2>2, <2>3
  <1>6. PICK A : A = {Lower[c] : c \in B}
    OBVIOUS
  <1>7. Advances(A, n, pre, nxt) /\ Unfolds(g, n, pre, nxt, skip)
    BY <1>4, <1>6
  <1>8. \A i \in 1..n : Len(pre[i]) <= 1
    BY <1>5
  <1>9. g[1] \in Seq(A)
    BY <1>7, <1>8, LoopMakesSeq
  <1>10. QED
    BY <1>4, <1>6, <1>9

\* NormalizeSearchText makes the words of a text.
LEMMA NormalizedIsWords ==
    ASSUME NEW B, NEW value \in Seq(B)
    PROVE  NormalizeSearchText(value) = Words(value)
  <1>1. PICK s \in Seq(B) : s = Strip(value)
    BY StripThins
  <1>2. s # <<>> => s[1] # Space /\ s[Len(s)] # Space
    BY <1>1, StripThins
  <1>3. PICK f : Thins(B, value, s, f)
    BY <1>1, StripThins
  <1>4. NormalizeSearchText(value) = Words(s)
    BY <1>1, <1>2, CollapsedIs
  <1>5. Words(s) = Words(value)
    BY <1>3, ThinningKeepsWords
  <1>6. QED
    BY <1>4, <1>5

-----------------------------------------------------------------------------
(* StripHtml, and what a reader sees                                       *)

\* The least of a set of places.
LEMMA LeastPlace ==
    ASSUME NEW P \in SUBSET Nat, P # {}
    PROVE  LET p == CHOOSE j \in P : \A k \in P : j <= k IN p \in P /\ \A k \in P : p <= k
  BY LeastNumber

\* The ends of tags from place i on, and where DropTags goes on after i.
TagEnds(d, i) == {j \in i..Len(d) : d[j] \in Tags \cup {">"}}
TagEnd(d, i) == CHOOSE j \in TagEnds(d, i) : \A k \in TagEnds(d, i) : j <= k
TagOpens(d, i) ==
    /\ d[i] \in Tags \cup {"<"}
    /\ TagEnds(d, i) # {}
    /\ ~(d[i] = "<" /\ TagEnd(d, i) = i + 1 /\ d[i + 1] = ">")
TagPieces(d) == [i \in 1..Len(d) |-> IF TagOpens(d, i) THEN <<Space>> ELSE <<d[i]>>]
TagNexts(d) == [i \in 1..Len(d) |-> IF TagOpens(d, i) THEN TagEnd(d, i) + 1 ELSE i + 1]

\* The first end of a tag is where it must be, if there is one.
LEMMA TagEndIs ==
    ASSUME NEW B, NEW d \in Seq(B), NEW i \in 1..Len(d), TagEnds(d, i) # {}
    PROVE  /\ TagEnd(d, i) \in i..Len(d) /\ d[TagEnd(d, i)] \in Tags \cup {">"}
           /\ \A j \in i..Len(d) : d[j] \in Tags \cup {">"} => TagEnd(d, i) <= j
  <1>1. PICK P : P = TagEnds(d, i)
    OBVIOUS
  <1>2. PICK n \in Nat : n = Len(d)
    OBVIOUS
  <1>3. \A j : j \in P <=> j \in i..n /\ d[j] \in Tags \cup {">"}
    BY <1>1, <1>2 DEF TagEnds
  <1>4. P \in SUBSET Nat /\ P # {}
    BY <1>1, <1>2, <1>3
  <1>5. PICK e : e = TagEnd(d, i) /\ e = CHOOSE j \in P : \A k \in P : j <= k
    BY <1>1 DEF TagEnd
  <1>6. e \in P /\ \A k \in P : e <= k
    BY <1>4, <1>5, LeastPlace
  <1>7. QED
    BY <1>2, <1>3, <1>5, <1>6

\* DropTags is a loop over these pieces.
LEMMA DropTagsUnfolds ==
    ASSUME NEW B, NEW d \in Seq(B)
    PROVE  /\ Advances(B \cup {Space}, Len(d), TagPieces(d), TagNexts(d))
           /\ \E g : Unfolds(g, Len(d), TagPieces(d), TagNexts(d), {}) /\ DropTags(d) = g[1]
  <1> DEFINE A == B \cup {Space}
             Drops(f) ==
                f = [i \in 1..Len(d) + 1 |->
                        CASE i > Len(d) -> <<>>
                          [] i <= Len(d) /\ TagOpens(d, i) -> <<Space>> \o f[TagEnd(d, i) + 1]
                          [] OTHER -> <<d[i]>> \o f[i + 1]]
  <1>1. PICK n \in Nat : n = Len(d) /\ \A i \in 1..n : d[i] \in B
    OBVIOUS
  <1>2. PICK nxt : nxt = TagNexts(d)
    OBVIOUS
  <1>3. PICK pre : pre = TagPieces(d)
    OBVIOUS
  <1>4. \A i \in 1..n : nxt[i] = IF TagOpens(d, i) THEN TagEnd(d, i) + 1 ELSE i + 1
    BY <1>1, <1>2 DEF TagNexts
  <1>5. \A i \in 1..n : pre[i] = IF TagOpens(d, i) THEN <<Space>> ELSE <<d[i]>>
    BY <1>1, <1>3 DEF TagPieces
  <1>6. Advances(A, n, pre, nxt)
    <2>1. ASSUME NEW i \in 1..n PROVE pre[i] \in Seq(A) /\ nxt[i] \in i + 1..n + 1
      <3>1. \A a \in A : <<a>> \in Seq(A)
        OBVIOUS
      <3>2. d[i] \in A /\ Space \in A
        BY <1>1
      <3> HIDE DEF A
      <3>3. pre[i] \in Seq(A)
        BY <1>5, <3>1, <3>2
      <3>4. TagOpens(d, i) => TagEnd(d, i) \in i..n
        BY <1>1, TagEndIs DEF TagOpens
      <3>5. nxt[i] \in i + 1..n + 1
        BY <1>4, <3>4
      <3>6. QED
        BY <3>3, <3>5
    <2>2. QED
      BY <2>1 DEF Advances
  <1>7. ASSUME NEW f, NEW i \in 1..n + 1
        PROVE  (CASE i > Len(d) -> <<>>
                  [] i <= Len(d) /\ TagOpens(d, i) -> <<Space>> \o f[TagEnd(d, i) + 1]
                  [] OTHER -> <<d[i]>> \o f[i + 1])
               = IF i > n THEN <<>> ELSE Turn(f, i, pre, nxt, {})
    <2>1. CASE i > Len(d)
      BY <1>1, <2>1
    <2>2. CASE ~(i > Len(d))
      <3>1. i \in 1..n /\ i <= Len(d) /\ ~(i > n)
        BY <1>1, <2>2
      <3>2. CASE TagOpens(d, i)
        <4>1. nxt[i] = TagEnd(d, i) + 1 /\ pre[i] = <<Space>>
          BY <1>4, <1>5, <3>1, <3>2
        <4>2. QED
          BY <2>2, <3>1, <3>2, <4>1 DEF Turn
      <3>3. CASE ~TagOpens(d, i)
        <4>1. nxt[i] = i + 1 /\ pre[i] = <<d[i]>>
          BY <1>4, <1>5, <3>1, <3>3
        <4>2. QED
          BY <2>2, <3>1, <3>3, <4>1 DEF Turn
      <3>4. QED
        BY <3>2, <3>3
    <2>3. QED
      BY <2>1, <2>2
  <1>8. \A f : Drops(f) => Unfolds(f, n, pre, nxt, {})
    <2>1. ASSUME NEW f, Drops(f), NEW i \in 1..n + 1
          PROVE  f[i] = IF i > n THEN <<>> ELSE Turn(f, i, pre, nxt, {})
      <3>1. f[i] = CASE i > Len(d) -> <<>>
                     [] i <= Len(d) /\ TagOpens(d, i) -> <<Space>> \o f[TagEnd(d, i) + 1]
                     [] OTHER -> <<d[i]>> \o f[i + 1]
        BY <1>1, <2>1
      <3>2. QED
        BY <1>7, <3>1
    <2> HIDE DEF Drops
    <2>2. QED
      BY <2>1 DEF Unfolds
  <1>9. \E f : Drops(f)
    <2>1. PICK f \in [1..n + 1 -> Seq(A)] : Unfolds(f, n, pre, nxt, {})
      <3> HIDE DEF A
      <3>1. QED
        BY <1>6, LoopExists
    <2>2. \A i \in 1..n + 1 :
             f[i] = CASE i > Len(d) -> <<>>
                      [] i <= Len(d) /\ TagOpens(d, i) -> <<Space>> \o f[TagEnd(d, i) + 1]
                      [] OTHER -> <<d[i]>> \o f[i + 1]
      BY <1>7, <2>1 DEF Unfolds
    <2>3. f = [i \in 1..n + 1 |-> f[i]]
      OBVIOUS
    <2>4. Drops(f)
      BY <1>1, <2>2, <2>3
    <2> HIDE DEF Drops
    <2>5. QED
      BY <2>4
  <1> DEFINE c == CHOOSE f : Drops(f)
  <1>10. DropTags(d) = c[1]
    BY Zenon DEF DropTags, TagOpens, TagEnd, TagEnds, Space
  <1> HIDE DEF Drops
  <1>11. Unfolds(c, n, pre, nxt, {})
    BY <1>8, <1>9
  <1> HIDE DEF c
  <1>12. QED
    BY <1>1, <1>2, <1>3, <1>6, <1>10, <1>11

\* The reference definition of what DropTags takes out, place by place.
InsideTag(d, i) ==
    \/ d[i] \in Tags
    \/ \E a \in 1..i :
          /\ d[a] = "<"
          /\ \E e \in i..Len(d) :
                /\ d[e] \in Tags \cup {">"}
                /\ \A j \in a..e - 1 : d[j] \notin Tags \cup {">"}
                /\ ~(d[e] = ">" /\ e = a + 1)
\* The text with white space for each lexeme inside a tag.
TagsShown(d) == [i \in 1..Len(d) |-> IF InsideTag(d, i) THEN Space ELSE d[i]]

\* A lone "<" is no tag and ends none.
LEMMA TagSymbols == "<" \notin Tags \cup {">"}
  BY DEF Tags, Closing

\* The loop takes a place out if and only if it is inside a tag.
LEMMA InsideTagIs ==
    ASSUME NEW B, NEW d \in Seq(B), NEW V, Walk(V, 1, Len(d), TagNexts(d)),
           NEW v \in V, NEW i \in 1..Len(d), v <= i, i < TagNexts(d)[v]
    PROVE  InsideTag(d, i) <=> TagOpens(d, v)
  <1>1. PICK n \in Nat : n = Len(d)
    OBVIOUS
  <1>2. PICK nxt : nxt = TagNexts(d)
    OBVIOUS
  <1>3. V \subseteq 1..n /\ v \in 1..n /\ Walk(V, 1, n, nxt)
    BY <1>1, <1>2 DEF Walk
  <1>4. \A w \in 1..n : nxt[w] = IF TagOpens(d, w) THEN TagEnd(d, w) + 1 ELSE w + 1
    BY <1>1, <1>2 DEF TagNexts
  <1>5. PICK X : X = Tags \cup {">"}
    OBVIOUS
  <1>6. \A w \in 1..n : TagEnds(d, w) # {} =>
            /\ TagEnd(d, w) \in w..n /\ d[TagEnd(d, w)] \in X
            /\ \A j \in w..n : d[j] \in X => TagEnd(d, w) <= j
    BY <1>1, <1>5, TagEndIs
  <1>7. ASSUME TagOpens(d, v) PROVE InsideTag(d, i)
    <2>1. PICK e \in v..n : /\ e = TagEnd(d, v) /\ d[e] \in X
                            /\ \A j \in v..n : d[j] \in X => e <= j
      BY <1>3, <1>6, <1>7 DEF TagOpens
    <2>2. i <= e
      BY <1>2, <1>3, <1>4, <1>7, <2>1
    <2>3. CASE d[v] \in Tags
      <3>1. e <= v
        BY <1>3, <1>5, <2>1, <2>3
      <3>2. i = v
        BY <1>3, <2>1, <2>2, <3>1
      <3>3. QED
        BY <2>3, <3>2 DEF InsideTag
    <2>4. CASE d[v] = "<"
      <3>1. ~(d[e] = ">" /\ e = v + 1)
        BY <1>7, <2>1, <2>4 DEF TagOpens
      <3>2. \A j \in v..e - 1 : d[j] \notin X
        <4>1. TAKE j \in v..e - 1
        <4>2. j \in v..n /\ ~(e <= j)
          BY <1>3, <2>1
        <4>3. QED
          BY <2>1, <4>2
      <3>3. e \in i..n /\ v \in 1..i
        BY <1>3, <2>1, <2>2
      <3>4. QED
        BY <1>1, <1>5, <2>1, <2>4, <3>1, <3>2, <3>3 DEF InsideTag
    <2>5. QED
      BY <1>7, <2>3, <2>4 DEF TagOpens
  <1>8. ASSUME InsideTag(d, i) PROVE TagOpens(d, v)
    <2>1. CASE d[i] \in Tags
      <3>0. d[i] # "<" /\ d[i] \in X /\ d[i] \in Tags \cup {"<"}
        BY <1>5, <2>1, TagSymbols
      <3>1. TagEnds(d, i) # {}
        BY <1>1, <1>5, <3>0 DEF TagEnds
      <3>2. TagOpens(d, i)
        BY <3>0, <3>1 DEF TagOpens
      <3>3. CASE TagOpens(d, v)
        BY <3>3
      <3>4. CASE ~TagOpens(d, v)
        <4>1. i = v
          BY <1>1, <1>2, <1>3, <1>4, <3>4
        <4>2. QED
          BY <3>2, <4>1
      <3>5. QED
        BY <3>3, <3>4
    <2>2. ASSUME NEW a \in 1..i, d[a] = "<", NEW e \in i..n, d[e] \in X,
                 \A j \in a..e - 1 : d[j] \notin X, ~(d[e] = ">" /\ e = a + 1)
          PROVE  TagOpens(d, v)
      <3>1. a \in 1..n /\ e \in a..n /\ i <= e /\ a <= i
        BY <1>1
      <3>2. TagEnds(d, a) # {}
        <4>1. e \in TagEnds(d, a)
          BY <1>1, <1>5, <2>2, <3>1 DEF TagEnds
        <4>2. QED
          BY <4>1
      <3>3. PICK c \in a..n : /\ c = TagEnd(d, a) /\ d[c] \in X
                              /\ \A j \in a..n : d[j] \in X => c <= j
        BY <1>6, <3>1, <3>2
      <3>4. c = e
        <4>1. c <= e
          BY <2>2, <3>1, <3>3
        <4>2. c \notin a..e - 1
          BY <2>2, <3>3
        <4>3. QED
          BY <3>1, <3>3, <4>1, <4>2
      <3>5. TagOpens(d, a)
        BY <2>2, <3>2, <3>3, <3>4 DEF TagOpens
      <3>6. nxt[a] = e + 1
        BY <1>4, <3>1, <3>3, <3>4, <3>5
      <3>7. \A j \in 1..n : nxt[j] \in j + 1..n + 1
        BY <1>1, <1>2, DropTagsUnfolds DEF Advances
      <3>8. PICK w \in V : w <= a /\ a < nxt[w]
        BY <1>3, <3>1, <3>7, WalkCovers
      <3>9. w \in 1..n
        BY <1>3
      <3>10. CASE w = a
        <4>1. v = a
          <5>1. a <= i /\ i < nxt[a] /\ a \in V
            BY <3>1, <3>6, <3>10
          <5>2. QED
            BY <1>1, <1>2, <1>3, <3>7, <5>1, WalkCovers
        <4>2. QED
          BY <3>5, <4>1
      <3>11. CASE w # a
        <4>1. TagOpens(d, w)
          BY <1>4, <3>8, <3>9, <3>11
        <4>2. PICK x \in w..n : /\ x = TagEnd(d, w) /\ d[x] \in X
                                /\ \A j \in w..n : d[j] \in X => x <= j
          BY <1>6, <3>9, <4>1 DEF TagOpens
        <4>3. nxt[w] = x + 1
          BY <1>4, <3>9, <4>1, <4>2
        <4>4. a <= x
          BY <3>8, <3>9, <4>2, <4>3
        <4>5. x \notin a..e - 1
          BY <2>2, <4>2
        <4>6. e <= x
          BY <3>1, <4>2, <4>4, <4>5
        <4>7. i < nxt[w] /\ w <= i
          BY <3>1, <3>8, <3>9, <4>2, <4>3, <4>6
        <4>8. v = w
          BY <1>1, <1>2, <1>3, <3>7, <4>7, WalkCovers
        <4>9. QED
          BY <4>1, <4>8
      <3>12. QED
        BY <3>10, <3>11
    <2>3. QED
      BY <1>1, <1>5, <1>8, <2>1, <2>2 DEF InsideTag
  <1>9. QED
    BY <1>7, <1>8

\* Each step of a loop leaves the last place of u that it passes, and the others
\* are white space, as that one is.
LeavesLast(u, V, n, pre, nxt) ==
    /\ \A v \in V : pre[v] = <<u[nxt[v] - 1]>>
    /\ \A v \in V, i \in 1..n : v <= i /\ i < nxt[v] - 1 => u[i] = Space /\ u[i + 1] = Space

\* Such a loop thins the text.
LEMMA LoopThins ==
    ASSUME NEW n \in Nat, NEW A, NEW pre, NEW nxt, Advances(A, n, pre, nxt),
           NEW V, Walk(V, 1, n, nxt), NEW t, NEW e, Picks(e, V, t, pre, {}),
           NEW u, LeavesLast(u, V, n, pre, nxt), u \in Seq(A), t \in Seq(A), Len(u) = n
    PROVE  \E f : Thins(A, u, t, f)
  <1>1. PICK l \in Nat : l = Len(t)
    OBVIOUS
  <1>2. V \subseteq 1..n /\ \A i \in 1..n : nxt[i] \in i + 1..n + 1
    BY DEF Walk, Advances
  <1>3. /\ \A k \in 1..l : e[k] \in V /\ pre[e[k]] = <<t[k]>>
        /\ \A j, k \in 1..l : j < k => e[j] < e[k]
        /\ \A v \in V : \E k \in 1..l : e[k] = v
    <2>1. e \in Seq(V) /\ Len(e) = l
      BY <1>1 DEF Picks
    <2>2. \A k \in 1..l : e[k] \in V
      BY <2>1
    <2>3. \A v \in V : pre[v] # <<>>
      <3>1. \A a : <<a>> # <<>>
        OBVIOUS
      <3>2. QED
        BY <3>1 DEF LeavesLast
    <2>4. QED
      BY <1>1, <2>1, <2>2, <2>3 DEF Picks
  <1> DEFINE f == [k \in 1..l |-> nxt[e[k]] - 1]
  <1>4. \A k \in 1..l : f[k] = nxt[e[k]] - 1 /\ f[k] \in e[k]..n /\ e[k] \in 1..n
    <2>1. ASSUME NEW k \in 1..l PROVE nxt[e[k]] - 1 \in e[k]..n /\ e[k] \in 1..n
      <3>1. PICK v \in 1..n : v = e[k]
        BY <1>2, <1>3
      <3>2. PICK m \in v + 1..n + 1 : m = nxt[v]
        BY <1>2
      <3>3. m - 1 \in v..n
        OBVIOUS
      <3>4. QED
        BY <3>1, <3>2, <3>3
    <2>2. QED
      BY <2>1
  <1>5. f \in Seq(1..n) /\ Len(f) = l
    <2>1. \A k \in 1..l : f[k] \in 1..n
      BY <1>4
    <2>2. f = [k \in 1..l |-> f[k]]
      OBVIOUS
    <2>3. Len(f) = l
      OBVIOUS
    <2> HIDE DEF f
    <2>4. f \in [1..l -> 1..n]
      BY <2>1, <2>2
    <2>5. QED
      BY <2>3, <2>4
  <1> HIDE DEF f
  <1>6. ASSUME NEW j \in 1..l, NEW k \in 1..l, j < k PROVE f[j] < f[k]
    <2>1. PICK v \in V, w \in V : v = e[j] /\ w = e[k] /\ v < w
      BY <1>3, <1>6
    <2>2. nxt[v] <= w
      BY <2>1 DEF Walk
    <2>3. v \in 1..n /\ w \in 1..n /\ nxt[v] \in v + 1..n + 1
      BY <1>2
    <2>4. f[j] = nxt[v] - 1 /\ f[k] \in w..n
      BY <1>4, <2>1
    <2>5. QED
      BY <2>2, <2>3, <2>4
  <1>7. \A k \in 1..l : t[k] = u[f[k]]
    <2>1. TAKE k \in 1..l
    <2>2. PICK v \in V : v = e[k]
      BY <1>3
    <2>3. <<t[k]>> = <<u[nxt[v] - 1]>>
      BY <1>3, <2>2 DEF LeavesLast
    <2>4. t[k] = u[nxt[v] - 1]
      BY <2>3
    <2>5. QED
      BY <1>4, <2>2, <2>4
  <1>8. ASSUME NEW i \in 1..n PROVE Superfluous(u, i) \/ \E k \in 1..l : f[k] = i
    <2>1. \A x \in 1..n : nxt[x] \in x + 1..n + 1
      BY <1>2
    <2>2. \A x \in 1..n : \E v \in V : v <= x /\ x < nxt[v]
      BY <2>1, WalkCovers
    <2>3. PICK v \in V : v <= i /\ i < nxt[v]
      BY <2>2
    <2>4. PICK k \in 1..l : e[k] = v
      BY <1>3
    <2>5. PICK m \in v + 1..n + 1 : m = nxt[v]
      BY <1>2
    <2>6. f[k] = m - 1
      BY <1>4, <2>4, <2>5
    <2>7. CASE i = m - 1
      BY <2>6, <2>7
    <2>8. CASE i # m - 1
      <3>1. i < m - 1
        BY <2>3, <2>5, <2>8
      <3>2. u[i] = Space /\ u[i + 1] = Space
        BY <2>3, <2>5, <3>1 DEF LeavesLast
      <3>3. QED
        BY <3>2, SuperfluousIs
    <2>9. QED
      BY <2>7, <2>8
  <1>9. QED
    <2>1. f \in Seq(1..Len(u)) /\ u \in Seq(A) /\ t \in Seq(A) /\ Len(f) = Len(t)
      BY <1>1, <1>5
    <2>2. Thins(A, u, t, f)
      BY <1>1, <1>6, <1>7, <1>8, <2>1 DEF Thins
    <2>3. QED
      BY <2>2

\* DropTags thins the text in which all of a tag is white space.
LEMMA TagsThin ==
    ASSUME NEW B, NEW d \in Seq(B)
    PROVE  \E f : Thins(B \cup {Space}, TagsShown(d), DropTags(d), f)
  <1>1. PICK n \in Nat : n = Len(d) /\ \A i \in 1..n : d[i] \in B
    OBVIOUS
  <1>2. PICK nxt : nxt = TagNexts(d)
    OBVIOUS
  <1>3. PICK pre : pre = TagPieces(d)
    OBVIOUS
  <1>4. PICK A : A = B \cup {Space}
    OBVIOUS
  <1>5. PICK g : Advances(A, n, pre, nxt) /\ Unfolds(g, n, pre, nxt, {}) /\ DropTags(d) = g[1]
    BY <1>1, <1>2, <1>3, <1>4, DropTagsUnfolds
  <1>6. \A i \in 1..n : pre[i] = IF TagOpens(d, i) THEN <<Space>> ELSE <<d[i]>>
    BY <1>1, <1>3 DEF TagPieces
  <1>7. \A i \in 1..n : nxt[i] = IF TagOpens(d, i) THEN TagEnd(d, i) + 1 ELSE i + 1
    BY <1>1, <1>2 DEF TagNexts
  <1>8. \A i \in 1..n : Len(pre[i]) <= 1
    <2>1. \A a : Len(<<a>>) <= 1
      OBVIOUS
    <2>2. QED
      BY <1>6, <2>1
  <1>9. PICK V, e : Walk(V, 1, n, nxt) /\ Picks(e, V, g[1], pre, {})
    BY <1>5, <1>8, LoopPicks
  <1>10. PICK u : u = TagsShown(d)
    OBVIOUS
  <1>11. u \in Seq(A) /\ Len(u) = n /\ \A i \in 1..n : u[i] = IF InsideTag(d, i) THEN Space ELSE d[i]
    <2>1. u = [i \in 1..n |-> IF InsideTag(d, i) THEN Space ELSE d[i]]
      BY <1>1, <1>10 DEF TagsShown
    <2>2. \A i \in 1..n : (IF InsideTag(d, i) THEN Space ELSE d[i]) \in A
      BY <1>1, <1>4
    <2>3. u \in [1..n -> A]
      BY <2>1, <2>2
    <2>4. u \in Seq(A) /\ Len(u) = n
      BY <2>3
    <2>5. QED
      BY <2>1, <2>4
  <1>12. V \subseteq 1..n /\ \A i \in 1..n : nxt[i] \in i + 1..n + 1
    BY <1>5, <1>9 DEF Walk, Advances
  <1>13. \A v \in V, i \in 1..n : v <= i /\ i < nxt[v] => (InsideTag(d, i) <=> TagOpens(d, v))
    BY <1>1, <1>2, <1>9, InsideTagIs
  <1>14. ASSUME NEW v \in V PROVE pre[v] = <<u[nxt[v] - 1]>>
    <2>1. PICK m \in v + 1..n + 1 : m = nxt[v] /\ v \in 1..n
      BY <1>12
    <2>2. m - 1 \in 1..n /\ v <= m - 1 /\ m - 1 < m
      BY <2>1
    <2>3. InsideTag(d, m - 1) <=> TagOpens(d, v)
      BY <1>13, <2>1, <2>2
    <2>4. CASE TagOpens(d, v)
      BY <1>6, <1>11, <2>1, <2>2, <2>3, <2>4
    <2>5. CASE ~TagOpens(d, v)
      <3>1. m - 1 = v
        BY <1>7, <2>1, <2>5
      <3>2. QED
        BY <1>6, <1>11, <2>1, <2>2, <2>3, <2>5, <3>1
    <2>6. QED
      BY <2>4, <2>5
  <1>15. ASSUME NEW v \in V, NEW i \in 1..n, v <= i, i < nxt[v] - 1
         PROVE  u[i] = Space /\ u[i + 1] = Space
    <2>1. PICK m \in v + 1..n + 1 : m = nxt[v] /\ v \in 1..n
      BY <1>12
    <2>2. i < m /\ i + 1 < m /\ v <= i + 1 /\ i + 1 \in 1..n /\ m # v + 1
      BY <1>15, <2>1
    <2>3. TagOpens(d, v)
      BY <1>7, <2>1, <2>2
    <2>4. InsideTag(d, i) /\ InsideTag(d, i + 1)
      BY <1>13, <1>15, <2>1, <2>2, <2>3
    <2>5. QED
      BY <1>11, <2>2, <2>4
  <1>16. LeavesLast(u, V, n, pre, nxt)
    BY <1>14, <1>15 DEF LeavesLast
  <1>17. PICK t : t = g[1] /\ t \in Seq(A)
    BY <1>5, LoopMakesSeq
  <1>18. \E f : Thins(A, u, t, f)
    BY <1>5, <1>9, <1>11, <1>16, <1>17, LoopThins
  <1>19. QED
    BY <1>4, <1>5, <1>10, <1>17, <1>18

\* The ends of a block that opens at i, and where DropBlocks goes on after i.
BlockEnds(s, i) == {j \in i + 1..Len(s) : s[j] = Closing[s[i]]}
BlockEnd(s, i) == CHOOSE j \in BlockEnds(s, i) : \A k \in BlockEnds(s, i) : j <= k
BlockOpens(s, i) == s[i] \in DOMAIN Closing /\ BlockEnds(s, i) # {}
BlockPieces(s) == [i \in 1..Len(s) |-> IF BlockOpens(s, i) THEN <<Space>> ELSE <<s[i]>>]
BlockNexts(s) == [i \in 1..Len(s) |-> IF BlockOpens(s, i) THEN 1 + BlockEnd(s, i) ELSE i + 1]

\* The first end of a block is behind its start.
LEMMA BlockEndIs ==
    ASSUME NEW B, NEW s \in Seq(B), NEW i \in 1..Len(s), BlockOpens(s, i)
    PROVE  BlockEnd(s, i) \in i + 1..Len(s) /\ Closes(s, i) = BlockEnd(s, i)
  <1>1. PICK P : P = BlockEnds(s, i)
    OBVIOUS
  <1>2. PICK n \in Nat : n = Len(s)
    OBVIOUS
  <1>3. P # {} /\ P \subseteq i + 1..n
    BY <1>1, <1>2 DEF BlockEnds, BlockOpens
  <1>4. P \in SUBSET Nat /\ P # {}
    BY <1>2, <1>3
  <1>5. PICK e : e = BlockEnd(s, i) /\ e = CHOOSE j \in P : \A k \in P : j <= k
    BY <1>1 DEF BlockEnd
  <1>6. e \in P
    BY <1>4, <1>5, LeastPlace
  <1>7. Closes(s, i) = IF P = {} THEN 0 ELSE CHOOSE j \in P : \A k \in P : j <= k
    BY <1>1 DEF Closes, BlockEnds
  <1>8. QED
    BY <1>2, <1>3, <1>5, <1>6, <1>7

\* A block that is not closed has no end.
LEMMA NoBlockEnd ==
    ASSUME NEW s, NEW i, s[i] \in DOMAIN Closing, ~BlockOpens(s, i)
    PROVE  Closes(s, i) = 0
  BY DEF BlockOpens, BlockEnds, Closes

\* DropBlocks is a loop over these pieces.
LEMMA DropBlocksUnfolds ==
    ASSUME NEW B, NEW s \in Seq(B)
    PROVE  /\ Advances(B \cup {Space}, Len(s), BlockPieces(s), BlockNexts(s))
           /\ \E g : Unfolds(g, Len(s), BlockPieces(s), BlockNexts(s), {}) /\ DropBlocks(s) = g[1]
  <1> DEFINE A == B \cup {Space}
             Drops(f) ==
                f = [i \in 1..Len(s) + 1 |->
                        CASE i > Len(s) -> <<>>
                          [] i <= Len(s) /\ s[i] \in DOMAIN Closing /\ BlockEnds(s, i) # {} ->
                                 <<Space>> \o f[1 + BlockEnd(s, i)]
                          [] OTHER -> <<s[i]>> \o f[i + 1]]
  <1>1. PICK n \in Nat : n = Len(s) /\ \A i \in 1..n : s[i] \in B
    OBVIOUS
  <1>2. PICK nxt : nxt = BlockNexts(s)
    OBVIOUS
  <1>3. PICK pre : pre = BlockPieces(s)
    OBVIOUS
  <1>4. \A i \in 1..n : nxt[i] = IF BlockOpens(s, i) THEN 1 + BlockEnd(s, i) ELSE i + 1
    BY <1>1, <1>2 DEF BlockNexts
  <1>5. \A i \in 1..n : pre[i] = IF BlockOpens(s, i) THEN <<Space>> ELSE <<s[i]>>
    BY <1>1, <1>3 DEF BlockPieces
  <1>6. Advances(A, n, pre, nxt)
    <2>1. ASSUME NEW i \in 1..n PROVE pre[i] \in Seq(A) /\ nxt[i] \in i + 1..n + 1
      <3>1. \A a \in A : <<a>> \in Seq(A)
        OBVIOUS
      <3>2. s[i] \in A /\ Space \in A
        BY <1>1
      <3> HIDE DEF A
      <3>3. pre[i] \in Seq(A)
        BY <1>5, <3>1, <3>2
      <3>4. BlockOpens(s, i) => BlockEnd(s, i) \in i + 1..n
        BY <1>1, BlockEndIs
      <3>5. nxt[i] \in i + 1..n + 1
        BY <1>4, <3>4
      <3>6. QED
        BY <3>3, <3>5
    <2>2. QED
      BY <2>1 DEF Advances
  <1>7. ASSUME NEW f, NEW i \in 1..n + 1
        PROVE  (CASE i > Len(s) -> <<>>
                  [] i <= Len(s) /\ s[i] \in DOMAIN Closing /\ BlockEnds(s, i) # {} ->
                         <<Space>> \o f[1 + BlockEnd(s, i)]
                  [] OTHER -> <<s[i]>> \o f[i + 1])
               = IF i > n THEN <<>> ELSE Turn(f, i, pre, nxt, {})
    <2>1. CASE i > Len(s)
      BY <1>1, <2>1
    <2>2. CASE ~(i > Len(s))
      <3>1. i \in 1..n /\ i <= Len(s) /\ ~(i > n)
        BY <1>1, <2>2
      <3>2. CASE BlockOpens(s, i)
        <4>1. nxt[i] = 1 + BlockEnd(s, i) /\ pre[i] = <<Space>>
          BY <1>4, <1>5, <3>1, <3>2
        <4>2. QED
          BY <2>2, <3>1, <3>2, <4>1 DEF Turn, BlockOpens
      <3>3. CASE ~BlockOpens(s, i)
        <4>1. nxt[i] = i + 1 /\ pre[i] = <<s[i]>>
          BY <1>4, <1>5, <3>1, <3>3
        <4>2. QED
          BY <2>2, <3>1, <3>3, <4>1 DEF Turn, BlockOpens
      <3>4. QED
        BY <3>2, <3>3
    <2>3. QED
      BY <2>1, <2>2
  <1>8. \A f : Drops(f) => Unfolds(f, n, pre, nxt, {})
    <2>1. ASSUME NEW f, Drops(f), NEW i \in 1..n + 1
          PROVE  f[i] = IF i > n THEN <<>> ELSE Turn(f, i, pre, nxt, {})
      <3>1. f[i] = CASE i > Len(s) -> <<>>
                     [] i <= Len(s) /\ s[i] \in DOMAIN Closing /\ BlockEnds(s, i) # {} ->
                            <<Space>> \o f[1 + BlockEnd(s, i)]
                     [] OTHER -> <<s[i]>> \o f[i + 1]
        BY <1>1, <2>1
      <3>2. QED
        BY <1>7, <3>1
    <2> HIDE DEF Drops
    <2>2. QED
      BY <2>1 DEF Unfolds
  <1>9. \E f : Drops(f)
    <2>1. PICK f \in [1..n + 1 -> Seq(A)] : Unfolds(f, n, pre, nxt, {})
      <3> HIDE DEF A
      <3>1. QED
        BY <1>6, LoopExists
    <2>2. \A i \in 1..n + 1 :
             f[i] = CASE i > Len(s) -> <<>>
                      [] i <= Len(s) /\ s[i] \in DOMAIN Closing /\ BlockEnds(s, i) # {} ->
                             <<Space>> \o f[1 + BlockEnd(s, i)]
                      [] OTHER -> <<s[i]>> \o f[i + 1]
      BY <1>7, <2>1 DEF Unfolds
    <2>3. f = [i \in 1..n + 1 |-> f[i]]
      OBVIOUS
    <2>4. Drops(f)
      BY <1>1, <2>2, <2>3
    <2> HIDE DEF Drops
    <2>5. QED
      BY <2>4
  <1> DEFINE c == CHOOSE f : Drops(f)
  <1>10. DropBlocks(s) = c[1]
    BY Zenon DEF DropBlocks, BlockEnd, BlockEnds, Space
  <1> HIDE DEF Drops
  <1>11. Unfolds(c, n, pre, nxt, {})
    BY <1>8, <1>9
  <1> HIDE DEF c
  <1>12. QED
    BY <1>1, <1>2, <1>3, <1>6, <1>10, <1>11

\* A place is part of a block, by the reference definition, if and only if the
\* step of the loop that passes it drops one.
LEMMA InBlockIs ==
    ASSUME NEW B, NEW s \in Seq(B), NEW V, Walk(V, 1, Len(s), BlockNexts(s)),
           NEW v \in V, NEW i \in 1..Len(s), v <= i, i < BlockNexts(s)[v]
    PROVE  InBlock(s, i) <=> BlockOpens(s, v)
  <1>1. PICK n \in Nat : n = Len(s)
    OBVIOUS
  <1>2. PICK nxt : nxt = BlockNexts(s)
    OBVIOUS
  <1>3. V \subseteq 1..n /\ v \in 1..n /\ Walk(V, 1, n, nxt)
    BY <1>1, <1>2 DEF Walk
  <1>4. \A w \in 1..n : nxt[w] = IF BlockOpens(s, w) THEN 1 + BlockEnd(s, w) ELSE w + 1
    BY <1>1, <1>2 DEF BlockNexts
  <1>5. \A w \in 1..n : BlockOpens(s, w) =>
            BlockEnd(s, w) \in w + 1..n /\ Closes(s, w) = BlockEnd(s, w)
    BY <1>1, BlockEndIs
  <1>6. \A w \in 1..n : nxt[w] \in w + 1..n + 1
    BY <1>4, <1>5
  <1>7. ASSUME NEW a \in 1..n
        PROVE  a \in V /\ BlockOpens(s, a) <=>
                 BlockOpens(s, a) /\ \A b \in 1..a - 1 : b \in V /\ BlockOpens(s, b) => Closes(s, b) < a
    <2>1. ASSUME a \in V, NEW b \in 1..a - 1, b \in V, BlockOpens(s, b) PROVE Closes(s, b) < a
      <3>1. b \in 1..n /\ b < a
        OBVIOUS
      <3>2. nxt[b] <= a
        BY <2>1, <1>3, <3>1 DEF Walk
      <3>3. Closes(s, b) \in Nat /\ nxt[b] = 1 + Closes(s, b)
        BY <1>4, <1>5, <2>1, <3>1
      <3>4. QED
        BY <3>2, <3>3
    <2>2. ASSUME \A b \in 1..a - 1 : b \in V /\ BlockOpens(s, b) => Closes(s, b) < a
          PROVE  a \in V
      <3>1. PICK b \in V : b <= a /\ a < nxt[b]
        BY <1>3, <1>6, WalkCovers
      <3>2. b \in 1..n
        BY <1>3
      <3>3. CASE b < a
        <4>1. b \in 1..a - 1
          BY <3>2, <3>3
        <4>2. BlockOpens(s, b)
          BY <1>4, <3>1, <3>2, <3>3
        <4>3. Closes(s, b) < a
          BY <2>2, <4>1, <4>2
        <4>4. QED
          BY <1>4, <1>5, <3>1, <3>2, <4>2, <4>3
      <3>4. CASE ~(b < a)
        <4>1. b = a
          BY <3>1, <3>2, <3>4
        <4>2. QED
          BY <4>1
      <3>5. QED
        BY <3>3, <3>4
    <2>3. QED
      BY <2>1, <2>2
  <1> DEFINE Opens(f) ==
        f = [a \in 1..Len(s) |-> /\ s[a] \in DOMAIN Closing
                                 /\ Closes(s, a) # 0
                                 /\ \A b \in 1..a - 1 : f[b] => Closes(s, b) < a]
      opens == CHOOSE f : Opens(f)
  <1>8. InBlock(s, i) <=> \E a \in 1..i : opens[a] /\ i <= Closes(s, a)
    BY DEF InBlock
  <1>9. \A a \in 1..n : BlockOpens(s, a) <=> s[a] \in DOMAIN Closing /\ Closes(s, a) # 0
    <2>1. TAKE a \in 1..n
    <2>2. CASE BlockOpens(s, a)
      <3>1. Closes(s, a) \in a + 1..n
        BY <1>5, <2>2
      <3>2. Closes(s, a) # 0
        BY <3>1
      <3>3. QED
        BY <2>2, <3>2 DEF BlockOpens
    <2>3. CASE ~BlockOpens(s, a)
      BY <2>3, NoBlockEnd
    <2>4. QED
      BY <2>2, <2>3
  <1>10. Opens(opens)
    <2> DEFINE w == [a \in 1..n |-> a \in V /\ BlockOpens(s, a)]
    <2>1. \A a \in 1..n : w[a] <=> a \in V /\ BlockOpens(s, a)
      OBVIOUS
    <2>2. \A a \in 1..n : (w[a] <=> /\ s[a] \in DOMAIN Closing
                                    /\ Closes(s, a) # 0
                                    /\ \A b \in 1..a - 1 : w[b] => Closes(s, b) < a)
      <3>1. TAKE a \in 1..n
      <3>2. \A b \in 1..a - 1 : b \in 1..n
        OBVIOUS
      <3> HIDE DEF w
      <3>3. QED
        BY <1>7, <1>9, <2>1, <3>2
    <2>3. Opens(w)
      BY <1>1, <2>2, Zenon
    <2> HIDE DEF w, Opens
    <2>4. QED
      BY <2>3
  <1>11. \A a \in 1..n : opens[a] <=>
             BlockOpens(s, a) /\ \A b \in 1..a - 1 : opens[b] => Closes(s, b) < a
    BY <1>1, <1>9, <1>10
  <1> HIDE DEF opens, Opens
  <1>12. \A a \in 1..n : opens[a] <=> a \in V /\ BlockOpens(s, a)
    <2> DEFINE I == {k \in Nat : \A a \in 1..n : a <= k => (opens[a] <=> a \in V /\ BlockOpens(s, a))}
    <2>1. 0 \in I
      OBVIOUS
    <2>2. ASSUME NEW k \in Nat, k \in I PROVE k + 1 \in I
      <3>1. ASSUME NEW a \in 1..n, a <= k + 1 PROVE opens[a] <=> a \in V /\ BlockOpens(s, a)
        <4>1. \A b \in 1..a - 1 : b \in 1..n /\ b <= k
          BY <3>1
        <4>2. \A b \in 1..a - 1 : opens[b] <=> b \in V /\ BlockOpens(s, b)
          BY <2>2, <4>1
        <4>3. QED
          BY <1>7, <1>11, <4>2
      <3>2. QED
        BY <3>1
    <2>3. n \in I
      <3> HIDE DEF I
      <3>1. Nat \subseteq I
        BY <2>1, <2>2, NumberInduction
      <3>2. QED
        BY <3>1
    <2>4. QED
      BY <2>3
  <1>13. ASSUME BlockOpens(s, v) PROVE InBlock(s, i)
    <2>1. v \in 1..i /\ opens[v]
      BY <1>1, <1>3, <1>12, <1>13
    <2>2. i <= Closes(s, v)
      BY <1>1, <1>2, <1>3, <1>4, <1>5, <1>13
    <2>3. QED
      BY <1>8, <2>1, <2>2
  <1>14. ASSUME NEW a \in 1..i, opens[a], i <= Closes(s, a) PROVE BlockOpens(s, v)
    <2>1. a \in 1..n /\ a <= i
      BY <1>1
    <2>2. a \in V /\ BlockOpens(s, a)
      BY <1>12, <1>14, <2>1
    <2>3. i < nxt[a]
      BY <1>1, <1>4, <1>5, <1>14, <2>1, <2>2
    <2>4. a = v
      BY <1>1, <1>2, <1>3, <1>6, <2>1, <2>2, <2>3, WalkCovers
    <2>5. QED
      BY <2>2, <2>4
  <1>15. QED
    BY <1>8, <1>13, <1>14

\* d is s with each block as one space, and e has the places in s of its lexemes.
Skims(s, d, e, n, l) ==
    /\ \A k \in 1..l : e[k] \in 1..n
    /\ \A j, k \in 1..l : j < k => e[j] < e[k]
    /\ \A k \in 1..l : d[k] = IF InBlock(s, e[k]) THEN Space ELSE s[e[k]]
    /\ \A i \in 1..n : ~InBlock(s, i) => \E k \in 1..l : e[k] = i
    /\ \A j, k \in 1..l : ~InBlock(s, e[j]) => (k = j + 1 <=> e[k] = e[j] + 1)

\* White space is no part of a tag.
LEMMA SpaceIsNoTag == Space \notin Tags \cup {"<", ">"}
  BY Zenon DEF Tags, Closing, Space

\* Outside the blocks, the tags of s are those of d.
LEMMA InTagIs ==
    ASSUME NEW n \in Nat, NEW l \in Nat, NEW B, NEW s \in Seq(B), Len(s) = n,
           NEW d \in Seq(B \cup {Space}), Len(d) = l,
           NEW e, Skims(s, d, e, n, l), NEW k \in 1..l, ~InBlock(s, e[k])
    PROVE  InTag(s, e[k]) <=> InsideTag(d, k)
  <1> DEFINE X == Tags \cup {">"}
             angles == {j \in DOMAIN s : ~InBlock(s, j) /\ s[j] \in Tags \cup {">"}}
  <1>1. DOMAIN s = 1..n
    OBVIOUS
  <1>2. \A j : j \in angles <=> j \in 1..n /\ ~InBlock(s, j) /\ s[j] \in X
    BY <1>1
  <1>3. PICK v \in 1..n : v = e[k] /\ ~InBlock(s, v) /\ d[k] = s[v]
    BY DEF Skims
  <1>4. InTag(s, v) <=>
          \/ s[v] \in Tags
          \/ \E a \in 1..v :
                /\ s[a] = "<" /\ ~InBlock(s, a)
                /\ \E c \in angles : /\ c >= v /\ angles \cap (a..c - 1) = {}
                                     /\ ~(s[c] = ">" /\ c = a + 1)
    BY DEF InTag
  <1>5. InsideTag(d, k) <=>
          \/ d[k] \in Tags
          \/ \E a \in 1..k :
                /\ d[a] = "<"
                /\ \E c \in k..l :
                      /\ d[c] \in X
                      /\ \A j \in a..c - 1 : d[j] \notin X
                      /\ ~(d[c] = ">" /\ c = a + 1)
    BY DEF InsideTag
  <1> HIDE DEF angles
  <1>6. Space \notin X /\ Space # "<"
    BY SpaceIsNoTag
  <1> HIDE DEF X
  <1>7. \A j \in 1..l : e[j] \in 1..n /\ (d[j] \in X \/ d[j] = "<" => ~InBlock(s, e[j]) /\ d[j] = s[e[j]])
    BY <1>6 DEF Skims
  <1>8. \A j \in 1..n : ~InBlock(s, j) => \E x \in 1..l : e[x] = j /\ d[x] = s[j]
    BY DEF Skims
  <1>9. \A x, y \in 1..l : (e[x] <= e[y] <=> x <= y) /\ (e[x] < e[y] <=> x < y)
    <2>1. TAKE x, y \in 1..l
    <2>2. (x < y => e[x] < e[y]) /\ (y < x => e[y] < e[x]) /\ e[x] \in 1..n /\ e[y] \in 1..n
      BY DEF Skims
    <2>3. QED
      BY <2>2
  <1>10. \A x, y \in 1..l : ~InBlock(s, e[x]) => (y = x + 1 <=> e[y] = e[x] + 1)
    BY DEF Skims
  <1>11. ASSUME NEW a \in 1..v, s[a] = "<", ~InBlock(s, a),
                NEW c \in angles, c >= v, angles \cap (a..c - 1) = {}, ~(s[c] = ">" /\ c = a + 1)
         PROVE  InsideTag(d, k)
    <2>1. a \in 1..n /\ a <= v /\ c \in 1..n /\ ~InBlock(s, c) /\ s[c] \in X
      BY <1>2, <1>11
    <2>2. PICK x \in 1..l : e[x] = a /\ d[x] = s[a]
      BY <1>8, <1>11, <2>1
    <2>3. PICK y \in 1..l : e[y] = c /\ d[y] = s[c]
      BY <1>8, <2>1
    <2>4. x <= k /\ k <= y
      <3>1. e[x] <= e[k] /\ e[k] <= e[y]
        BY <1>3, <1>11, <2>1, <2>2, <2>3
      <3>2. QED
        BY <1>9, <3>1
    <2>5. x \in 1..k /\ y \in k..l
      BY <2>4
    <2>6. ASSUME NEW j \in x..y - 1 PROVE d[j] \notin X
      <3>1. j \in 1..l /\ x <= j /\ j < y
        OBVIOUS
      <3>2. e[x] <= e[j] /\ e[j] < e[y] /\ e[j] \in 1..n
        BY <1>7, <1>9, <3>1
      <3>3. e[j] \in a..c - 1
        BY <2>1, <2>2, <2>3, <3>2
      <3>4. e[j] \notin angles
        BY <1>11, <3>3
      <3>5. QED
        BY <1>2, <1>7, <3>1, <3>4
    <2>7. ~(d[y] = ">" /\ y = x + 1)
      BY <1>10, <1>11, <2>2, <2>3
    <2>8. QED
      BY <1>5, <1>11, <2>1, <2>2, <2>3, <2>5, <2>6, <2>7
  <1>12. ASSUME NEW x \in 1..k, d[x] = "<", NEW y \in k..l, d[y] \in X,
                \A j \in x..y - 1 : d[j] \notin X, ~(d[y] = ">" /\ y = x + 1)
         PROVE  InTag(s, v)
    <2>1. x \in 1..l /\ y \in 1..l /\ x <= k /\ k <= y
      OBVIOUS
    <2>2. PICK a \in 1..n : a = e[x] /\ ~InBlock(s, a) /\ s[a] = "<"
      BY <1>7, <1>12, <2>1
    <2>3. PICK c \in 1..n : c = e[y] /\ ~InBlock(s, c) /\ s[c] = d[y] /\ c \in angles
      BY <1>2, <1>7, <1>12, <2>1
    <2>4. a <= v /\ v <= c
      BY <1>3, <1>9, <2>1, <2>2, <2>3
    <2>5. a \in 1..v /\ c >= v
      BY <2>4
    <2>6. angles \cap (a..c - 1) = {}
      <3>1. SUFFICES ASSUME NEW j \in angles, j \in a..c - 1 PROVE FALSE
        OBVIOUS
      <3>2. j \in 1..n /\ ~InBlock(s, j) /\ s[j] \in X
        BY <1>2
      <3>3. PICK z \in 1..l : e[z] = j /\ d[z] = s[j]
        BY <1>8, <3>2
      <3>4. e[x] <= e[z] /\ e[z] < e[y]
        BY <2>2, <2>3, <3>1, <3>2, <3>3
      <3>5. x <= z /\ z < y
        BY <1>9, <2>1, <3>3, <3>4
      <3>6. z \in x..y - 1
        BY <3>5
      <3>7. QED
        BY <1>12, <3>2, <3>3, <3>6
    <2>7. ~(s[c] = ">" /\ c = a + 1)
      BY <1>10, <1>12, <2>1, <2>2, <2>3
    <2>8. QED
      BY <1>4, <2>2, <2>3, <2>5, <2>6, <2>7
  <1>13. ASSUME InTag(s, v) PROVE InsideTag(d, k)
    <2>1. CASE s[v] \in Tags
      BY <1>3, <1>5, <2>1
    <2>2. CASE s[v] \notin Tags
      BY <1>4, <1>11, <1>13, <2>2
    <2>3. QED
      BY <2>1, <2>2
  <1>14. ASSUME InsideTag(d, k) PROVE InTag(s, v)
    <2>1. CASE d[k] \in Tags
      BY <1>3, <1>4, <2>1
    <2>2. CASE d[k] \notin Tags
      BY <1>5, <1>12, <1>14, <2>2
    <2>3. QED
      BY <2>1, <2>2
  <1>15. QED
    BY <1>3, <1>13, <1>14

\* What a reader sees of s, before entities.
RawShown(s) == [i \in 1..Len(s) |-> IF InBlock(s, i) \/ InTag(s, i) THEN Space ELSE s[i]]

\* DropBlocks thins the text in which all of a block is white space.
LEMMA BlocksThin ==
    ASSUME NEW B, NEW s \in Seq(B)
    PROVE  /\ DropBlocks(s) \in Seq(B \cup {Space})
           /\ \E f : Thins(B \cup {Space}, RawShown(s), TagsShown(DropBlocks(s)), f)
  <1>1. PICK n \in Nat : n = Len(s) /\ \A i \in 1..n : s[i] \in B
    OBVIOUS
  <1>2. PICK nxt : nxt = BlockNexts(s)
    OBVIOUS
  <1>3. PICK pre : pre = BlockPieces(s)
    OBVIOUS
  <1>4. PICK A : A = B \cup {Space}
    OBVIOUS
  <1>5. PICK g : Advances(A, n, pre, nxt) /\ Unfolds(g, n, pre, nxt, {}) /\ DropBlocks(s) = g[1]
    BY <1>1, <1>2, <1>3, <1>4, DropBlocksUnfolds
  <1>6. \A i \in 1..n : pre[i] = IF BlockOpens(s, i) THEN <<Space>> ELSE <<s[i]>>
    BY <1>1, <1>3 DEF BlockPieces
  <1>7. \A i \in 1..n : nxt[i] = IF BlockOpens(s, i) THEN 1 + BlockEnd(s, i) ELSE i + 1
    BY <1>1, <1>2 DEF BlockNexts
  <1>8. \A i \in 1..n : Len(pre[i]) <= 1 /\ pre[i] # <<>>
    <2>1. \A a : Len(<<a>>) <= 1 /\ <<a>> # <<>>
      OBVIOUS
    <2>2. QED
      BY <1>6, <2>1
  <1>9. PICK V, e : Walk(V, 1, n, nxt) /\ Picks(e, V, g[1], pre, {})
    BY <1>5, <1>8, LoopPicks
  <1>10. PICK d \in Seq(A) : d = g[1]
    BY <1>5, LoopMakesSeq
  <1>11. PICK l \in Nat : l = Len(d)
    OBVIOUS
  <1>12. V \subseteq 1..n /\ \A i \in 1..n : nxt[i] \in i + 1..n + 1
    BY <1>5, <1>9 DEF Walk, Advances
  <1>13. \A v \in V, i \in 1..n : v <= i /\ i < nxt[v] => (InBlock(s, i) <=> BlockOpens(s, v))
    BY <1>1, <1>2, <1>9, InBlockIs
  <1>14. \A v \in V : v \in 1..n /\ v <= v /\ v < nxt[v] /\ (InBlock(s, v) <=> BlockOpens(s, v))
    <2>1. ASSUME NEW v \in V PROVE v \in 1..n /\ v <= v /\ v < nxt[v]
      BY <1>12
    <2>2. QED
      BY <1>13, <2>1
  <1>15. /\ e \in Seq(V) /\ Len(e) = l
         /\ \A j, k \in 1..l : j < k => e[j] < e[k]
         /\ \A k \in 1..l : pre[e[k]] = <<d[k]>> /\ e[k] \in V
         /\ \A v \in V : \E k \in 1..l : e[k] = v
    <2>1. e \in Seq(V) /\ Len(e) = l
      BY <1>9, <1>10, <1>11 DEF Picks
    <2>2. \A k \in 1..l : e[k] \in V
      BY <2>1
    <2>3. \A v \in V : pre[v] # <<>>
      BY <1>8, <1>12
    <2>4. QED
      BY <1>9, <1>10, <1>11, <2>1, <2>2, <2>3 DEF Picks
  <1>16. Skims(s, d, e, n, l)
    <2>1. \A k \in 1..l : d[k] = IF InBlock(s, e[k]) THEN Space ELSE s[e[k]]
      <3>1. TAKE k \in 1..l
      <3>2. PICK v \in V : v = e[k] /\ pre[v] = <<d[k]>>
        BY <1>15
      <3>3. <<d[k]>> = IF InBlock(s, v) THEN <<Space>> ELSE <<s[v]>>
        BY <1>6, <1>14, <3>2
      <3>4. QED
        BY <3>2, <3>3
    <2>2. ASSUME NEW i \in 1..n, ~InBlock(s, i) PROVE \E k \in 1..l : e[k] = i
      <3>1. PICK v \in V : v <= i /\ i < nxt[v]
        BY <1>9, <1>12, WalkCovers
      <3>2. v \in 1..n /\ ~BlockOpens(s, v)
        BY <1>13, <1>14, <2>2, <3>1
      <3>3. i = v
        BY <1>7, <3>1, <3>2
      <3>4. QED
        BY <1>15, <3>3
    <2>3. ASSUME NEW j \in 1..l, NEW k \in 1..l, ~InBlock(s, e[j])
          PROVE  k = j + 1 <=> e[k] = e[j] + 1
      <3>1. PICK v \in V, w \in V : v = e[j] /\ w = e[k] /\ v \in 1..n /\ w \in 1..n
        BY <1>14, <1>15
      <3>2. nxt[v] = v + 1
        BY <1>7, <1>14, <2>3, <3>1
      <3>3. \A x, y \in 1..l : e[x] < e[y] <=> x < y
        <4>1. TAKE x, y \in 1..l
        <4>2. (x < y => e[x] < e[y]) /\ (y < x => e[y] < e[x]) /\ e[x] \in 1..n /\ e[y] \in 1..n
          BY <1>14, <1>15
        <4>3. QED
          BY <4>2
      <3>4. ASSUME k = j + 1 PROVE w = v + 1
        <4>1. v < w
          BY <3>1, <3>3, <3>4
        <4>2. nxt[v] <= w
          BY <1>9, <4>1 DEF Walk
        <4>3. v + 1 \in V
          BY <1>9, <3>1, <3>2, <4>2 DEF Walk
        <4>4. PICK x \in 1..l : e[x] = v + 1
          BY <1>15, <4>3
        <4>5. j < x
          BY <3>1, <3>3, <4>4
        <4>6. ~(x < k)  => ~(v + 1 < w)
          BY <3>1, <3>3, <4>4
        <4>7. ~(x < k)
          BY <3>4, <4>5
        <4>8. QED
          BY <3>1, <3>2, <4>2, <4>6, <4>7
      <3>5. ASSUME w = v + 1 PROVE k = j + 1
        <4>1. j < k
          <5>1. v < w
            BY <3>1, <3>5
          <5>2. e[j] < e[k]
            BY <3>1, <5>1
          <5>3. QED
            BY <3>3, <5>2
        <4>2. CASE j + 1 < k
          <5>1. j + 1 \in 1..l /\ j < j + 1
            BY <4>2
          <5>2. e[j] < e[j + 1] /\ e[j + 1] < e[k] /\ e[j + 1] \in 1..n
            BY <1>14, <1>15, <3>3, <4>2, <5>1
          <5>3. QED
            BY <3>1, <3>5, <5>2
        <4>3. QED
          BY <4>1, <4>2
      <3>6. QED
        BY <3>1, <3>4, <3>5
    <2>4. QED
      BY <1>14, <1>15, <2>1, <2>2, <2>3 DEF Skims
  <1>17. PICK u : u = RawShown(s)
    OBVIOUS
  <1>18. u \in Seq(A) /\ Len(u) = n
         /\ \A i \in 1..n : u[i] = IF InBlock(s, i) \/ InTag(s, i) THEN Space ELSE s[i]
    <2>1. u = [i \in 1..n |-> IF InBlock(s, i) \/ InTag(s, i) THEN Space ELSE s[i]]
      BY <1>1, <1>17 DEF RawShown
    <2>2. \A i \in 1..n : (IF InBlock(s, i) \/ InTag(s, i) THEN Space ELSE s[i]) \in A
      BY <1>1, <1>4
    <2>3. u \in [1..n -> A]
      BY <2>1, <2>2
    <2>4. u \in Seq(A) /\ Len(u) = n
      BY <2>3
    <2>5. QED
      BY <2>1, <2>4
  <1>19. PICK t : t = TagsShown(d)
    OBVIOUS
  <1>20. t \in Seq(A) /\ Len(t) = l
         /\ \A k \in 1..l : t[k] = IF InsideTag(d, k) THEN Space ELSE d[k]
    <2>1. t = [k \in 1..l |-> IF InsideTag(d, k) THEN Space ELSE d[k]]
      BY <1>11, <1>19 DEF TagsShown
    <2>2. \A k \in 1..l : (IF InsideTag(d, k) THEN Space ELSE d[k]) \in A
      BY <1>4, <1>10, <1>11
    <2>3. t \in [1..l -> A]
      BY <2>1, <2>2
    <2>4. t \in Seq(A) /\ Len(t) = l
      BY <2>3
    <2>5. QED
      BY <2>1, <2>4
  <1>21. ASSUME NEW k \in 1..l PROVE t[k] = u[nxt[e[k]] - 1]
    <2>1. PICK v \in V : v = e[k] /\ v \in 1..n
      BY <1>14, <1>15
    <2>2. PICK m \in v + 1..n + 1 : m = nxt[v]
      BY <1>12, <2>1
    <2>3. m - 1 \in 1..n /\ v <= m - 1 /\ m - 1 < m
      BY <2>1, <2>2
    <2>4. InBlock(s, m - 1) <=> InBlock(s, v)
      BY <1>13, <1>14, <2>2, <2>3
    <2>5. d[k] = IF InBlock(s, v) THEN Space ELSE s[v]
      BY <1>16, <2>1 DEF Skims
    <2>6. CASE InBlock(s, v)
      BY <1>18, <1>20, <2>1, <2>2, <2>3, <2>4, <2>5, <2>6
    <2>7. CASE ~InBlock(s, v)
      <3>1. m - 1 = v
        BY <1>7, <1>14, <2>1, <2>2, <2>7
      <3>2. InTag(s, v) <=> InsideTag(d, k)
        <4>1. ~InBlock(s, e[k]) /\ Len(s) = n /\ Len(d) = l /\ d \in Seq(B \cup {Space})
          BY <1>1, <1>4, <1>10, <1>11, <2>1, <2>7
        <4>2. InTag(s, e[k]) <=> InsideTag(d, k)
          BY <1>16, <4>1, InTagIs
        <4>3. QED
          BY <2>1, <4>2
      <3>3. QED
        BY <1>18, <1>20, <2>1, <2>2, <2>5, <2>7, <3>1, <3>2
    <2>8. QED
      BY <2>6, <2>7
  <1> DEFINE last == [i \in 1..n |-> <<u[nxt[i] - 1]>>]
  <1>22. \A i \in 1..n : last[i] = <<u[nxt[i] - 1]>>
    OBVIOUS
  <1>23. PICK p : p = last
    OBVIOUS
  <1>24. \A i \in 1..n : p[i] = <<u[nxt[i] - 1]>>
    BY <1>22, <1>23
  <1> HIDE DEF last
  <1>25. Advances(A, n, p, nxt)
    <2>1. ASSUME NEW i \in 1..n PROVE p[i] \in Seq(A)
      <3>1. PICK m \in i + 1..n + 1 : m = nxt[i]
        BY <1>12
      <3>2. m - 1 \in 1..n
        OBVIOUS
      <3>3. PICK a \in A : a = u[m - 1]
        BY <1>18, <3>2
      <3>4. <<a>> \in Seq(A)
        OBVIOUS
      <3>5. QED
        BY <1>24, <3>1, <3>3, <3>4
    <2>2. QED
      BY <1>12, <2>1 DEF Advances
  <1>26. Picks(e, V, t, p, {})
    <2>1. ASSUME NEW k \in 1..l PROVE p[e[k]] = <<t[k]>>
      <3>1. p[e[k]] = <<u[nxt[e[k]] - 1]>>
        BY <1>14, <1>15, <1>24
      <3>2. QED
        BY <1>21, <3>1
    <2>2. QED
      BY <1>15, <1>20, <2>1 DEF Picks
  <1>27. LeavesLast(u, V, n, p, nxt)
    <2>1. \A v \in V : p[v] = <<u[nxt[v] - 1]>>
      BY <1>14, <1>24
    <2>2. ASSUME NEW v \in V, NEW i \in 1..n, v <= i, i < nxt[v] - 1
          PROVE  u[i] = Space /\ u[i + 1] = Space
      <3>1. PICK m \in v + 1..n + 1 : m = nxt[v] /\ v \in 1..n
        BY <1>12
      <3>2. i < m /\ i + 1 < m /\ v <= i + 1 /\ i + 1 \in 1..n /\ m # v + 1
        BY <2>2, <3>1
      <3>3. BlockOpens(s, v)
        BY <1>7, <3>1, <3>2
      <3>4. InBlock(s, i) /\ InBlock(s, i + 1)
        BY <1>13, <2>2, <3>1, <3>2, <3>3
      <3>5. QED
        BY <1>18, <3>2, <3>4
    <2>3. QED
      BY <2>1, <2>2 DEF LeavesLast
  <1>28. \E f : Thins(A, u, t, f)
    BY <1>9, <1>18, <1>20, <1>25, <1>26, <1>27, LoopThins
  <1>29. QED
    BY <1>4, <1>5, <1>10, <1>17, <1>19, <1>28

\* UnescapeHtml keeps the places of white space.
LEMMA UnescapeThins ==
    ASSUME NEW B, NEW u, NEW t, NEW f, Thins(B, u, t, f)
    PROVE  Thins(B \cup {Entities[c] : c \in DOMAIN Entities}, UnescapeHtml(u), UnescapeHtml(t), f)
  <1> DEFINE C == B \cup {Entities[c] : c \in DOMAIN Entities}
  <1>1. Space \notin DOMAIN Entities
    BY TextAssumption, Zenon DEF Space
  <1>2. \A x \in Seq(B) : /\ UnescapeHtml(x) \in Seq(C) /\ Len(UnescapeHtml(x)) = Len(x)
                          /\ \A i \in 1..Len(x) : UnescapeHtml(x)[i] =
                                IF x[i] \in DOMAIN Entities THEN Entities[x[i]] ELSE x[i]
    <2>1. TAKE x \in Seq(B)
    <2>2. PICK n \in Nat : n = Len(x) /\ DOMAIN x = 1..n /\ \A i \in 1..n : x[i] \in B
      OBVIOUS
    <2>3. PICK y : y = UnescapeHtml(x)
      OBVIOUS
    <2>4. y = [i \in 1..n |-> IF x[i] \in DOMAIN Entities THEN Entities[x[i]] ELSE x[i]]
      BY <2>2, <2>3 DEF UnescapeHtml
    <2>5. \A i \in 1..n : (IF x[i] \in DOMAIN Entities THEN Entities[x[i]] ELSE x[i]) \in C
      BY <2>2
    <2> HIDE DEF C
    <2>6. y \in [1..n -> C]
      BY <2>4, <2>5
    <2>7. y \in Seq(C) /\ Len(y) = n
      BY <2>6
    <2>8. QED
      BY <2>2, <2>3, <2>4, <2>7
  <1> HIDE DEF C
  <1>3. u \in Seq(B) /\ t \in Seq(B) /\ f \in Seq(1..Len(u)) /\ Len(f) = Len(t)
    BY DEF Thins
  <1>4. PICK v \in Seq(C) : v = UnescapeHtml(u)
    BY <1>2, <1>3
  <1>5. PICK w \in Seq(C) : w = UnescapeHtml(t)
    BY <1>2, <1>3
  <1>6. PICK n \in Nat : n = Len(u) /\ n = Len(v)
    BY <1>2, <1>3, <1>4
  <1>7. PICK l \in Nat : l = Len(t) /\ l = Len(w)
    BY <1>2, <1>3, <1>5
  <1>8. \A i \in 1..n : v[i] = IF u[i] \in DOMAIN Entities THEN Entities[u[i]] ELSE u[i]
    BY <1>2, <1>3, <1>4, <1>6
  <1>9. \A k \in 1..l : w[k] = IF t[k] \in DOMAIN Entities THEN Entities[t[k]] ELSE t[k]
    BY <1>2, <1>3, <1>5, <1>7
  <1>10. \A k \in 1..l : w[k] = v[f[k]]
    <2>1. \A k \in 1..l : f[k] \in 1..n
      BY <1>3, <1>6, <1>7
    <2>2. \A k \in 1..l : t[k] = u[f[k]]
      BY <1>7 DEF Thins
    <2>3. QED
      BY <1>8, <1>9, <2>1, <2>2
  <1>11. \A i \in 1..n : u[i] = Space => v[i] = Space
    BY <1>1, <1>8
  <1>12. ASSUME NEW i \in 1..n, Superfluous(u, i) PROVE Superfluous(v, i)
    <2>1. /\ u[i] = Space
          /\ (\A j \in 1..i : u[j] = Space) \/ (\A j \in i..n : u[j] = Space) \/ u[i + 1] = Space
      BY <1>6, <1>12, SuperfluousIs
    <2>2. CASE \A j \in 1..i : u[j] = Space
      <3>1. \A j \in 1..i : j \in 1..n
        OBVIOUS
      <3>2. \A j \in 1..i : v[j] = Space
        BY <1>11, <2>2, <3>1
      <3>3. QED
        BY <1>11, <2>1, <3>2, SuperfluousIs
    <2>3. CASE \A j \in i..n : u[j] = Space
      <3>1. \A j \in i..n : j \in 1..n
        OBVIOUS
      <3>2. \A j \in i..n : v[j] = Space
        BY <1>11, <2>3, <3>1
      <3>3. QED
        BY <1>6, <1>11, <2>1, <3>2, SuperfluousIs
    <2>4. CASE i < n /\ u[i + 1] = Space
      <3>1. i + 1 \in 1..n
        BY <2>4
      <3>2. QED
        BY <1>11, <2>1, <2>4, <3>1, SuperfluousIs
    <2>5. CASE i = n
      <3>1. \A j \in i..n : u[j] = Space
        BY <2>1, <2>5
      <3>2. QED
        BY <2>3, <3>1
    <2>6. QED
      BY <2>1, <2>2, <2>3, <2>4, <2>5
  <1>13. Thins(C, v, w, f)
    <2>1. \A j, k \in 1..l : j < k => f[j] < f[k]
      BY <1>7 DEF Thins
    <2>2. \A i \in 1..n : Superfluous(v, i) \/ \E k \in 1..l : f[k] = i
      BY <1>6, <1>7, <1>12 DEF Thins
    <2>3. f \in Seq(1..Len(v)) /\ Len(f) = Len(w)
      BY <1>3, <1>6, <1>7
    <2>4. QED
      BY <1>6, <1>7, <1>10, <2>1, <2>2, <2>3 DEF Thins
  <1>14. QED
    BY <1>4, <1>5, <1>13 DEF C

\* StripHtml leaves the words that a reader sees.
LEMMA StripHtmlShows ==
    ASSUME NEW B, NEW s \in Seq(B)
    PROVE  /\ Words(StripHtml(s)) = Words(Shown(s))
           /\ \E C : StripHtml(s) \in Seq(C) /\ B \subseteq C
  <1>1. PICK A : A = B \cup {Space}
    OBVIOUS
  <1>2. PICK d \in Seq(A) : d = DropBlocks(s)
    BY <1>1, BlocksThin
  <1>3. PICK f : Thins(A, RawShown(s), TagsShown(d), f)
    BY <1>1, <1>2, BlocksThin
  <1>4. A \cup {Space} = A
    BY <1>1
  <1>5. PICK h : Thins(A, TagsShown(d), DropTags(d), h)
    <2>1. \E h : Thins(A \cup {Space}, TagsShown(d), DropTags(d), h)
      BY TagsThin
    <2>2. QED
      BY <1>4, <2>1
  <1>6. PICK C : C = A \cup {Entities[c] : c \in DOMAIN Entities}
    OBVIOUS
  <1>7. Thins(C, UnescapeHtml(RawShown(s)), UnescapeHtml(TagsShown(d)), f)
    BY <1>3, <1>6, UnescapeThins
  <1>8. Thins(C, UnescapeHtml(TagsShown(d)), UnescapeHtml(DropTags(d)), h)
    BY <1>5, <1>6, UnescapeThins
  <1>9. StripHtml(s) = UnescapeHtml(DropTags(d))
    BY <1>2 DEF StripHtml
  <1>10. Shown(s) = UnescapeHtml(RawShown(s))
    <2>1. PICK n \in Nat : n = Len(s) /\ DOMAIN s = 1..n
      OBVIOUS
    <2>2. PICK r : r = RawShown(s)
      OBVIOUS
    <2>3. r = [i \in 1..n |-> IF InBlock(s, i) \/ InTag(s, i) THEN Space ELSE s[i]]
      BY <2>1, <2>2 DEF RawShown
    <2>4. DOMAIN r = 1..n
      BY <2>3
    <2>5. UnescapeHtml(r) = [i \in 1..n |-> IF r[i] \in DOMAIN Entities THEN Entities[r[i]] ELSE r[i]]
      BY <2>4 DEF UnescapeHtml
    <2>6. Shown(s) = [i \in 1..n |->
                        IF InBlock(s, i) \/ InTag(s, i) THEN Space
                        ELSE IF s[i] \in DOMAIN Entities THEN Entities[s[i]] ELSE s[i]]
      BY <2>1, Zenon DEF Shown, Space
    <2>7. Space \notin DOMAIN Entities
      BY TextAssumption, Zenon DEF Space
    <2>8. \A i \in 1..n : (IF r[i] \in DOMAIN Entities THEN Entities[r[i]] ELSE r[i]) =
                          IF InBlock(s, i) \/ InTag(s, i) THEN Space
                          ELSE IF s[i] \in DOMAIN Entities THEN Entities[s[i]] ELSE s[i]
      BY <2>3, <2>7
    <2>9. UnescapeHtml(r) = Shown(s)
      BY <2>5, <2>6, <2>8
    <2>10. QED
      BY <2>2, <2>9
  <1>11. Words(UnescapeHtml(TagsShown(d))) = Words(UnescapeHtml(RawShown(s)))
    BY <1>7, ThinningKeepsWords
  <1>12. Words(UnescapeHtml(DropTags(d))) = Words(UnescapeHtml(TagsShown(d)))
    BY <1>8, ThinningKeepsWords
  <1>13. UnescapeHtml(DropTags(d)) \in Seq(C)
    BY <1>8 DEF Thins
  <1>14. B \subseteq C
    BY <1>1, <1>6
  <1>15. QED
    BY <1>9, <1>10, <1>11, <1>12, <1>13, <1>14

-----------------------------------------------------------------------------
(* What is listed, and what is looked for                                  *)

\* A sequence, and the set of what is in it.
LEMMA ToSetIs ==
    ASSUME NEW B, NEW s \in Seq(B)
    PROVE  ToSet(s) \subseteq B /\ s \in Seq(ToSet(s)) /\ \A i \in 1..Len(s) : s[i] \in ToSet(s)
  <1>1. Len(s) \in Nat /\ DOMAIN s = 1..Len(s) /\ \A i \in 1..Len(s) : s[i] \in B
    OBVIOUS
  <1>2. \A i \in 1..Len(s) : s[i] \in ToSet(s)
    BY <1>1 DEF ToSet
  <1>3. s = [i \in 1..Len(s) |-> s[i]]
    OBVIOUS
  <1>4. s \in [1..Len(s) -> ToSet(s)]
    BY <1>2, <1>3
  <1>5. s \in Seq(ToSet(s))
    BY <1>1, <1>4
  <1>6. ToSet(s) \subseteq B
    BY <1>1 DEF ToSet
  <1>7. QED
    BY <1>2, <1>5, <1>6

\* What Listing makes of each message.
Rows == [i \in 1..Len(mail) |-> IF Lists(mail[i]) THEN <<mail[i]>> ELSE <<>>]
\* Listing is such a loop.
LEMMA ListingUnfolds ==
    mail \in Seq(ToSet(mail)) =>
        /\ Advances(ToSet(mail), Len(mail), Rows, Following(Len(mail)))
        /\ \A i \in 1..Len(mail) : Len(Rows[i]) <= 1
        /\ \E g : Unfolds(g, Len(mail), Rows, Following(Len(mail)), {}) /\ Listing = g[1]
  <1> SUFFICES ASSUME mail \in Seq(ToSet(mail))
               PROVE  /\ Advances(ToSet(mail), Len(mail), Rows, Following(Len(mail)))
                      /\ \A i \in 1..Len(mail) : Len(Rows[i]) <= 1
                      /\ \E g : Unfolds(g, Len(mail), Rows, Following(Len(mail)), {}) /\ Listing = g[1]
    OBVIOUS
  <1> DEFINE A == ToSet(mail)
             n == Len(mail)
             Lists1(f) == f = [i \in 1..Len(mail) + 1 |->
                                 IF i > Len(mail) THEN <<>>
                                 ELSE (IF Lists(mail[i]) THEN <<mail[i]>> ELSE <<>>) \o f[i + 1]]
             nxt == Following(Len(mail))
  <1>1. n \in Nat /\ \A i \in 1..n : mail[i] \in A
    BY ToSetIs
  <1>2. ASSUME NEW i \in 1..n
        PROVE  Rows[i] \in Seq(A) /\ Len(Rows[i]) <= 1 /\ nxt[i] = i + 1
               /\ nxt[i] \in i + 1..n + 1
    <2>1. \A a \in A : <<a>> \in Seq(A) /\ Len(<<a>>) = 1
      OBVIOUS
    <2>2. <<>> \in Seq(A) /\ Len(<<>>) = 0
      BY EmptySeq
    <2>3. Rows[i] = IF Lists(mail[i]) THEN <<mail[i]>> ELSE <<>>
      BY DEF Rows
    <2>4. nxt[i] = i + 1
      BY DEF Following
    <2> HIDE DEF nxt, A
    <2>5. Rows[i] \in Seq(A) /\ Len(Rows[i]) <= 1
      BY <1>1, <2>1, <2>2, <2>3
    <2>6. QED
      BY <1>1, <2>4, <2>5
  <1>3. Advances(A, n, Rows, nxt)
    BY <1>2 DEF Advances
  <1>4. ASSUME NEW f, NEW i \in 1..n + 1
        PROVE  (IF i > Len(mail) THEN <<>>
                ELSE (IF Lists(mail[i]) THEN <<mail[i]>> ELSE <<>>) \o f[i + 1])
               = IF i > n THEN <<>> ELSE Turn(f, i, Rows, nxt, {})
    <2>1. ~(i > n) => i \in 1..n
      BY <1>1
    <2>2. CASE ~(i > n)
      <3>1. nxt[i] = i + 1 /\ Rows[i] = IF Lists(mail[i]) THEN <<mail[i]>> ELSE <<>>
        BY <2>1, <2>2 DEF Rows, Following
      <3> HIDE DEF nxt
      <3>2. QED
        BY <2>2, <3>1 DEF Turn
    <2>3. QED
      BY <2>2
  <1>5. ASSUME NEW f, Lists1(f) PROVE Unfolds(f, n, Rows, nxt, {})
    <2>1. \A i \in 1..n + 1 : f[i] = IF i > n THEN <<>> ELSE Turn(f, i, Rows, nxt, {})
      <3>1. TAKE i \in 1..n + 1
      <3>2. f[i] = IF i > Len(mail) THEN <<>>
                   ELSE (IF Lists(mail[i]) THEN <<mail[i]>> ELSE <<>>) \o f[i + 1]
        BY <1>5
      <3> HIDE DEF nxt
      <3>3. QED
        BY <1>4, <3>2
    <2> HIDE DEF nxt, A, n
    <2>2. QED
      BY <2>1 DEF Unfolds
  <1>6. \E f : Lists1(f)
    <2>1. PICK f \in [1..n + 1 -> Seq(A)] : Unfolds(f, n, Rows, nxt, {})
      <3> HIDE DEF nxt, A, n
      <3>1. QED
        BY <1>1, <1>3, LoopExists
    <2> HIDE DEF nxt
    <2>2. \A i \in 1..n + 1 : f[i] = IF i > Len(mail) THEN <<>>
                   ELSE (IF Lists(mail[i]) THEN <<mail[i]>> ELSE <<>>) \o f[i + 1]
      BY <1>4, <2>1 DEF Unfolds
    <2>3. f = [i \in 1..n + 1 |-> f[i]]
      OBVIOUS
    <2>4. Lists1(f)
      BY <2>2, <2>3
    <2> HIDE DEF Lists1
    <2>5. QED
      BY <2>4
  <1> DEFINE list == CHOOSE f : Lists1(f)
  <1>7. Listing = list[1]
    BY DEF Listing
  <1> HIDE DEF Lists1
  <1>8. Lists1(list)
    BY <1>6
  <1> HIDE DEF list, nxt
  <1>9. Unfolds(list, n, Rows, nxt, {})
    BY <1>5, <1>8
  <1>10. QED
    BY <1>2, <1>3, <1>7, <1>9 DEF nxt

\* Graph lists messages of the mailbox, none of them twice.
LEMMA ListingIs ==
    ASSUME mail \in Seq(ToSet(mail))
    PROVE  Listing \in Seq(ToSet(mail)) /\ Len(Listing) <= Len(mail)
  <1>1. PICK n \in Nat : n = Len(mail)
    OBVIOUS
  <1>2. PICK nxt : nxt = Following(Len(mail))
    OBVIOUS
  <1>3. PICK g : /\ Advances(ToSet(mail), n, Rows, nxt)
                 /\ \A i \in 1..n : Len(Rows[i]) <= 1
                 /\ Unfolds(g, n, Rows, nxt, {}) /\ Listing = g[1]
    BY <1>1, <1>2, ListingUnfolds
  <1>4. g[1] \in Seq(ToSet(mail)) /\ Len(g[1]) <= n
    BY <1>3, LoopMakesSeq
  <1>5. QED
    BY <1>1, <1>3, <1>4

\* The same of the next state.
LEMMA ListingUnfoldsNext ==
    (mail \in Seq(ToSet(mail)) =>
        /\ Advances(ToSet(mail), Len(mail), Rows, Following(Len(mail)))
        /\ \A i \in 1..Len(mail) : Len(Rows[i]) <= 1
        /\ \E g : Unfolds(g, Len(mail), Rows, Following(Len(mail)), {}) /\ Listing = g[1])'
  BY ListingUnfolds, PTL

\* The messages listed, in the order of the mailbox.
LEMMA ListingPicks ==
    ASSUME mail \in Seq(ToSet(mail))
    PROVE  \E e \in Seq(1..Len(mail)) :
              /\ Len(e) = Len(Listing)
              /\ \A j, k \in 1..Len(e) : j < k => e[j] < e[k]
              /\ \A k \in 1..Len(e) : Listing[k] = mail[e[k]]
              /\ \A i \in 1..Len(mail) : Lists(mail[i]) => \E k \in 1..Len(e) : e[k] = i
  <1>1. PICK n \in Nat : n = Len(mail)
    OBVIOUS
  <1>2. PICK nxt : nxt = Following(Len(mail)) /\ \A i \in 1..n : nxt[i] = i + 1
    BY <1>1, FollowingIs
  <1>3. PICK g : /\ Advances(ToSet(mail), n, Rows, nxt)
                 /\ \A i \in 1..n : Len(Rows[i]) <= 1
                 /\ Unfolds(g, n, Rows, nxt, {}) /\ Listing = g[1]
    BY <1>1, <1>2, ListingUnfolds
  <1>4. PICK V, e : Walk(V, 1, n, nxt) /\ Picks(e, V, g[1], Rows, {})
    BY <1>3, LoopPicks
  <1>5. V = 1..n
    BY <1>2, <1>4, WalkIsAll
  <1>6. \A k \in 1..Len(e) : e[k] \in 1..n /\ Rows[e[k]] = <<Listing[k]>>
    BY <1>3, <1>4, <1>5 DEF Picks
  <1>7. \A i \in 1..n : Rows[i] = IF Lists(mail[i]) THEN <<mail[i]>> ELSE <<>>
    BY <1>1 DEF Rows
  <1>8. \A a : <<a>> # <<>> /\ <<a>>[1] = a
    OBVIOUS
  <1>9. \A k \in 1..Len(e) : Listing[k] = mail[e[k]]
    <2>1. TAKE k \in 1..Len(e)
    <2>2. PICK i \in 1..n : i = e[k] /\ Rows[i] = <<Listing[k]>>
      BY <1>6
    <2>3. Lists(mail[i]) => Listing[k] = mail[i]
      <3>1. PICK a, b : a = Listing[k] /\ b = mail[i]
        OBVIOUS
      <3>2. Lists(b) => <<b>> = <<a>>
        BY <1>7, <2>2, <3>1
      <3>3. QED
        BY <1>8, <3>1, <3>2
    <2>4. QED
      BY <1>7, <1>8, <2>2, <2>3
  <1>10. \A i \in 1..n : Lists(mail[i]) => \E k \in 1..Len(e) : e[k] = i
    <2>1. TAKE i \in 1..n
    <2>2. HAVE Lists(mail[i])
    <2>3. Rows[i] # <<>>
      BY <1>7, <1>8, <2>2
    <2>4. QED
      BY <1>4, <1>5, <2>3 DEF Picks
  <1>11. e \in Seq(1..Len(mail)) /\ Len(e) = Len(Listing)
         /\ \A j, k \in 1..Len(e) : j < k => e[j] < e[k]
    BY <1>1, <1>3, <1>4, <1>5 DEF Picks
  <1>12. QED
    BY <1>1, <1>9, <1>10, <1>11

\* New mail is put in front of the listing, if it is listed.
LEMMA ListingGrows ==
    ASSUME mail \in Seq(ToSet(mail)), NEW m, mail' = <<m>> \o mail,
           UNCHANGED <<search, honoured>>
    PROVE  Listing' = (IF Lists(m) THEN <<m>> ELSE <<>>) \o Listing
  <1>1. PICK n \in Nat : n = Len(mail)
    OBVIOUS
  <1>2. PICK nxt : nxt = Following(Len(mail)) /\ \A i \in 1..n : nxt[i] = i + 1
    BY <1>1, FollowingIs
  <1>3. PICK g : /\ Advances(ToSet(mail), n, Rows, nxt)
                 /\ Unfolds(g, n, Rows, nxt, {}) /\ Listing = g[1]
    BY <1>1, <1>2, ListingUnfolds
  <1>4. PICK B : B = ToSet(mail) \cup {m}
    OBVIOUS
  <1>5. mail \in Seq(B) /\ <<m>> \in Seq(B) /\ Len(<<m>>) = 1 /\ <<m>>[1] = m
    <2>1. m \in B /\ ToSet(mail) \subseteq B
      BY <1>4
    <2>2. QED
      BY <2>1, SeqMonotonic
  <1>6. PICK one \in Seq(B) : one = <<m>> /\ Len(one) = 1 /\ one[1] = m
    BY <1>5
  <1>7. /\ mail' \in Seq(B) /\ Len(mail') = n + 1 /\ mail'[1] = m
        /\ \A i \in 1..n : mail'[i + 1] = mail[i]
    <2>1. /\ one \o mail \in Seq(B) /\ Len(one \o mail) = Len(one) + Len(mail)
          /\ \A i \in 1..Len(one) + Len(mail) : (one \o mail)[i] =
                IF i <= Len(one) THEN one[i] ELSE mail[i - Len(one)]
      BY <1>5, ConcatProperties
    <2>2. mail' = one \o mail
      BY <1>6
    <2>3. ASSUME NEW i \in 1..n PROVE mail'[i + 1] = mail[i]
      <3>1. i + 1 \in 1..Len(one) + Len(mail) /\ ~(i + 1 <= Len(one)) /\ i + 1 - Len(one) = i
        BY <1>1, <1>6
      <3>2. QED
        BY <2>1, <2>2, <3>1
    <2>4. QED
      BY <1>1, <1>6, <2>1, <2>2, <2>3
  <1>8. PICK h, nxt2, R :
           /\ R = Rows' /\ Unfolds(h, n + 1, R, nxt2, {}) /\ Listing' = h[1]
           /\ \A i \in 1..n + 1 : nxt2[i] = i + 1
    <2>2. mail' \in Seq(ToSet(mail'))
      BY <1>7, ToSetIs
    <2>3. ToSet(mail)' = ToSet(mail')
      BY DEF ToSet
    <2>4. PICK f : Unfolds(f, Len(mail'), Rows', Following(Len(mail')), {}) /\ Listing' = f[1]
      BY <2>2, <2>3, ListingUnfoldsNext DEF Unfolds, Turn, Following
    <2>5. \A i \in 1..n + 1 : Following(n + 1)[i] = i + 1
      BY DEF Following
    <2>6. QED
      BY <1>7, <2>4, <2>5
  <1>9. \A i \in 1..n + 1 : R[i] = IF Lists(mail'[i]) THEN <<mail'[i]>> ELSE <<>>
    <2>1. \A x : Lists(x)' = Lists(x)
      BY DEF Lists, criteria, query
    <2>2. QED
      BY <1>7, <1>8, <2>1 DEF Rows
  <1>10. \A i \in 1..n : R[i + 1] = Rows[i]
    <2>1. TAKE i \in 1..n
    <2>2. Rows[i] = IF Lists(mail[i]) THEN <<mail[i]>> ELSE <<>>
      BY <1>1 DEF Rows
    <2>3. i + 1 \in 1..n + 1
      OBVIOUS
    <2>4. QED
      BY <1>7, <1>9, <2>2, <2>3
  <1> DEFINE f == [i \in 1..n + 1 |-> h[i + 1]]
  <1>11. Unfolds(f, n, Rows, nxt, {})
    <2>1. ASSUME NEW i \in 1..n + 1
          PROVE  f[i] = IF i > n THEN <<>> ELSE Rows[i] \o f[nxt[i]]
      <3>1. f[i] = h[i + 1] /\ i + 1 \in 1..(n + 1) + 1
        OBVIOUS
      <3>2. h[i + 1] = IF i + 1 > n + 1 THEN <<>> ELSE R[i + 1] \o h[nxt2[i + 1]]
        BY <1>8, <3>1 DEF Unfolds, Turn
      <3>3. CASE i > n
        BY <3>1, <3>2, <3>3
      <3>4. CASE ~(i > n)
        <4>1. i \in 1..n /\ i + 1 \in 1..n + 1
          BY <3>4
        <4>2. nxt[i] = i + 1 /\ nxt2[i + 1] = (i + 1) + 1 /\ R[i + 1] = Rows[i]
          BY <1>2, <1>8, <1>10, <4>1
        <4>3. f[i + 1] = h[(i + 1) + 1]
          BY <4>1
        <4>4. PICK j \in 1..n + 1, k \in 1..(n + 1) + 1 : j = i + 1 /\ k = j + 1
          BY <4>1
        <4> HIDE DEF f
        <4>5. nxt[i] = j /\ nxt2[j] = k /\ R[j] = Rows[i] /\ f[i] = h[j] /\ f[j] = h[k]
          BY <3>1, <4>2, <4>3, <4>4
        <4>6. ~(j > n + 1)
          BY <4>4
        <4>7. h[j] = IF j > n + 1 THEN <<>> ELSE R[j] \o h[nxt2[j]]
          BY <3>2, <4>4
        <4>8. h[j] = R[j] \o h[k]
          BY <4>5, <4>6, <4>7
        <4>9. QED
          BY <3>4, <4>5, <4>8
      <3>5. QED
        BY <3>3, <3>4
    <2> HIDE DEF f
    <2>2. QED
      BY <2>1 DEF Unfolds, Turn
  <1>12. f[1] = Listing
    <2> HIDE DEF f
    <2>1. QED
      BY <1>3, <1>11, LoopIsOne
  <1>13. h[2] = Listing
    <2>1. f[1] = h[1 + 1] /\ 1 + 1 = 2
      OBVIOUS
    <2>2. QED
      BY <1>12, <2>1
  <1>14. h[1] = R[1] \o h[2]
    <2>1. 1 \in 1..(n + 1) + 1 /\ ~(1 > n + 1) /\ 1 \in 1..n + 1 /\ 1 + 1 = 2
      OBVIOUS
    <2>2. h[1] = IF 1 > n + 1 THEN <<>> ELSE R[1] \o h[nxt2[1]]
      BY <1>8, <2>1 DEF Unfolds, Turn
    <2>3. QED
      BY <1>8, <2>1, <2>2
  <1>15. R[1] = IF Lists(m) THEN <<m>> ELSE <<>>
    <2>1. 1 \in 1..n + 1
      OBVIOUS
    <2>2. QED
      BY <1>7, <1>9, <2>1
  <1>16. QED
    BY <1>8, <1>13, <1>14, <1>15

\* What the matcher is built from.
Patterns == (criteria.subject \cup criteria.sender \cup criteria.body) \ {<<>>}
Symbols == {Lower[c] : c \in DOMAIN Lower}

\* The values of a scope are a finite set of normalized texts.
LEMMA ValuesFit ==
    ASSUME search \in Searches, NEW scope
    PROVE  Values(query, scope) \subseteq Seq(Symbols) /\ IsFiniteSet(Values(query, scope))
  <1> DEFINE tokens == query.tokens
             places == {j \in DOMAIN tokens : tokens[j].scope = scope}
             value == [k \in places |-> NormalizeSearchText(tokens[k].text)]
  <1>1. tokens \in Seq(ToSet(tokens)) /\ \A t \in ToSet(tokens) : t.text \in Seq(DOMAIN Lower)
    BY SearchAssumption DEF query
  <1>2. Len(tokens) \in Nat /\ DOMAIN tokens = 1..Len(tokens)
    BY <1>1
  <1>3. \A k \in places : tokens[k] \in ToSet(tokens)
    BY DEF ToSet
  <1>4. \A k \in places : value[k] \in Seq(Symbols)
    BY <1>1, <1>3, NormalizedIs DEF Symbols
  <1>5. IsFiniteSet(places)
    <2>1. IsFiniteSet(1..Len(tokens))
      <3>1. PICK n \in Int : n = Len(tokens)
        BY <1>2
      <3>2. 1 \in Int /\ IsFiniteSet(1..n)
        BY FS_Interval
      <3>3. QED
        BY <3>1, <3>2
    <2>2. places \in SUBSET (1..Len(tokens))
      BY <1>2
    <2> HIDE DEF places, tokens
    <2>3. QED
      BY <2>1, <2>2, FS_Subset
  <1>6. Values(query, scope) = {value[k] : k \in places}
    BY DEF Values
  <1>7. value \in Surjection(places, Values(query, scope))
    <2>1. value = [k \in places |-> value[k]]
      OBVIOUS
    <2> HIDE DEF value, places
    <2>2. value \in [places -> Values(query, scope)]
      BY <1>6, <2>1
    <2>3. \A v \in Values(query, scope) : \E k \in places : value[k] = v
      BY <1>6
    <2>4. QED
      BY <2>2, <2>3 DEF Surjection
  <1> HIDE DEF value, places
  <1>8. QED
    BY <1>4, <1>5, <1>6, <1>7, FS_Surjection

\* The patterns are what AddPattern can take.
LEMMA PatternsAreFit ==
    ASSUME search \in Searches
    PROVE  PatternsFit(Symbols, Patterns)
  <1> DEFINE P == criteria.subject \cup criteria.sender \cup criteria.body
  <1>1. /\ criteria.subject = Values(query, "subject")
        /\ criteria.sender = Values(query, "sender")
        /\ criteria.body = Values(query, "body")
    BY DEF criteria, SearchCriteria
  <1>2. P \subseteq Seq(Symbols) /\ IsFiniteSet(P)
    BY <1>1, ValuesFit, FS_Union
  <1> HIDE DEF P
  <1>3. Patterns = P \ {<<>>}
    BY DEF Patterns, P
  <1>4. IsFiniteSet(Patterns)
    BY <1>2, <1>3, FS_Subset
  <1>5. QED
    BY <1>2, <1>3, <1>4 DEF PatternsFit

\* The matcher stays as it is, for the same query.
LEMMA MatcherStays ==
    ASSUME MatcherInv(Patterns), UNCHANGED matcher, UNCHANGED search
    PROVE  MatcherInv(Patterns)'
  <1>1. PICK P : P = Patterns
    OBVIOUS
  <1>2. Patterns' = P
    BY <1>1 DEF Patterns, criteria, query
  <1>3. MatcherInv(P)'
    <2>1. MatcherInv(P)
      BY <1>1
    <2>2. fail' = fail /\ output' = output /\ queue' = queue
      BY DEF matcher
    <2>3. QED
      BY <2>1, <2>2 DEF MatcherInv, Nodes, QueueFits, NodeFits, Waiting, LinksTo
  <1>4. QED
    BY <1>2, <1>3

\* A turn of BuildFailureLinks, with the patterns of the query.
LEMMA MatcherTurns ==
    ASSUME search \in Searches, MatcherInv(Patterns), BuildFailureLinks, UNCHANGED search
    PROVE  MatcherInv(Patterns)'
  <1>1. PICK P : P = Patterns
    OBVIOUS
  <1>2. Patterns' = P
    BY <1>1 DEF Patterns, criteria, query
  <1>3. PatternsFit(Symbols, P) /\ MatcherInv(P)
    BY <1>1, PatternsAreFit
  <1>4. MatcherInv(P)'
    BY <1>3, MatcherKept
  <1>5. QED
    BY <1>2, <1>4

-----------------------------------------------------------------------------
(* The invariant                                                           *)

\* The bounds of a search are numbers.
LEMMA BoundsAre ==
    ASSUME search \in Searches
    PROVE  limit \in Nat \ {0} /\ Top \in Nat /\ MaxScannedRows \in Nat
  <1>1. limit \in Nat \ {0}
    BY SearchAssumption DEF limit
  <1>2. \A a, b \in Nat : a * b \in Nat /\ AtLeast(a, b) \in Nat
    BY DEF AtLeast
  <1>3. RecentTop \in Nat /\ TopFactor \in Nat /\ TopFloor \in Nat
        /\ ScanFactor \in Nat /\ ScanFloor \in Nat
    BY SearchAssumption
  <1>4. limit * TopFactor \in Nat /\ limit * ScanFactor \in Nat
    BY <1>1, <1>2, <1>3
  <1>5. Top \in Nat
    BY <1>1, <1>2, <1>3, <1>4 DEF Top
  <1>6. MaxScannedRows \in Nat
    BY <1>2, <1>3, <1>4 DEF MaxScannedRows
  <1>7. QED
    BY <1>1, <1>5, <1>6

\* Mailbox, page and results hold messages, the page fits in what may still be
\* scanned, and there is room for a result as long as a row is looked at.  The
\* trie is that of the query's texts, and complete when a page has been dealt with.
MailFits ==
    /\ search \in Searches /\ honoured \in BOOLEAN
    /\ mail \in Seq(ToSet(search.mail) \cup Arrivals)
    /\ cursor \in 0..Len(mail)
    /\ link \in {"none", "graph", "elsewhere"}
RowsFit ==
    /\ page \in Seq(ToSet(mail))
    /\ scanned \in Nat /\ scanned + Len(page) <= MaxScannedRows + Top
    /\ pc = "next" => scanned < MaxScannedRows
    /\ pc # "scan" => page = <<>>
    /\ oldest = NoDate \/ Day(oldest) # 0
ResultsFit ==
    /\ results \in Seq({m.id : m \in ToSet(mail)})
    /\ Len(results) <= limit
    /\ pc = "next" \/ page # <<>> => Len(results) < limit
MatcherFits ==
    /\ NoMatcher \/ MatcherInv(Patterns)
    /\ pc \in {"scan", "next"} => MatcherInv(Patterns)
    /\ pc # "scan" => queue = <<>>
SearchInv ==
    /\ pc \in {"parse", "first", "scan", "next", "done", "failed"}
    /\ pc \in {"parse", "first"} => results = <<>> /\ scanned = 0
    /\ MailFits /\ RowsFit /\ ResultsFit /\ MatcherFits

\* The messages of the mailbox, and their days.
LEMMA MailIs ==
    ASSUME MailFits
    PROVE  /\ mail \in Seq(ToSet(mail)) /\ Len(mail) \in Nat
           /\ ToSet(mail) \subseteq ToSet(search.mail) \cup Arrivals
           /\ \A m \in ToSet(mail) : LET d == ParseIsoDate(m.date) IN d = NoDate \/ Day(d) # 0
  <1>1. /\ mail \in Seq(ToSet(mail)) /\ Len(mail) \in Nat
        /\ ToSet(mail) \subseteq ToSet(search.mail) \cup Arrivals
    BY ToSetIs DEF MailFits
  <1>2. ToSet(search.mail) \cup Arrivals \subseteq Messages
    BY DEF MailFits, Messages
  <1>3. ASSUME NEW d \in ToSet(Calendar), d # NoDate PROVE Day(d) # 0
    <2> DEFINE days == {k \in DOMAIN Calendar : Calendar[k] = d}
    <2>1. Calendar \in Seq(ToSet(Calendar))
      BY SearchAssumption
    <2>2. DOMAIN Calendar = 1..Len(Calendar)
      BY <2>1
    <2>3. days # {}
      BY DEF ToSet
    <2>4. Day(d) = CHOOSE k \in days : TRUE
      BY <1>3, <2>3 DEF Day
    <2>5. Day(d) \in days
      BY <2>3, <2>4
    <2>6. QED
      BY <2>2, <2>5
  <1>4. \A m \in ToSet(mail) : ParseIsoDate(m.date) \in {NoDate} \cup ToSet(Calendar)
    BY <1>1, <1>2, SearchAssumption
  <1>5. QED
    BY <1>1, <1>3, <1>4

\* A search begins with nothing read and no matcher.
LEMMA InitHoldsSearchInv ==
    ASSUME Init
    PROVE  SearchInv
  <1>1. search \in Searches /\ honoured \in BOOLEAN /\ mail = search.mail
    BY DEF Init
  <1>2. mail \in Seq(ToSet(search.mail) \cup Arrivals) /\ Len(mail) \in Nat
    <2>1. mail \in Seq(ToSet(search.mail))
      BY <1>1, SearchAssumption
    <2>2. QED
      BY <2>1
  <1>3. MailFits
    BY <1>1, <1>2 DEF Init, MailFits
  <1>4. /\ pc = "parse" /\ page = <<>> /\ scanned = 0 /\ oldest = NoDate /\ results = <<>>
        /\ NoMatcher
    BY DEF Init
  <1>5. limit \in Nat \ {0} /\ Top \in Nat /\ MaxScannedRows \in Nat
    BY <1>1, BoundsAre
  <1>6. RowsFit
    <2>1. page \in Seq(ToSet(mail)) /\ Len(page) = 0
      BY <1>4, EmptySeq
    <2>2. QED
      BY <1>4, <1>5, <2>1 DEF RowsFit
  <1>7. ResultsFit
    <2>1. results \in Seq({m.id : m \in ToSet(mail)}) /\ Len(results) = 0
      BY <1>4, EmptySeq
    <2>2. QED
      BY <1>4, <1>5, <2>1 DEF ResultsFit
  <1>8. MatcherFits
    BY <1>4 DEF MatcherFits, NoMatcher
  <1>9. QED
    BY <1>3, <1>4, <1>6, <1>7, <1>8 DEF SearchInv

-----------------------------------------------------------------------------
(* The steps                                                               *)

\* A page is delivered that fits in what is asked for.
LEMMA PageDelivered ==
    ASSUME MailFits, DeliverPage
    PROVE  /\ page' \in Seq(ToSet(mail)) /\ Len(page') \in 0..Top
           /\ cursor' \in 0..Len(mail) /\ link' \in {"none", "graph", "elsewhere"}
           /\ oldest' = NoDate /\ pc' = "scan"
  <1>1. mail \in Seq(ToSet(mail)) /\ Len(mail) \in Nat
    BY MailIs
  <1>2. PICK list \in Seq(ToSet(mail)) : list = Listing /\ Len(list) <= Len(mail)
    BY <1>1, ListingIs
  <1>3. cursor \in 0..Len(mail) /\ Top \in Nat
    BY BoundsAre DEF MailFits
  <1>4. PICK n \in 0..Top :
           /\ n <= Len(list) - cursor
           /\ page' = SubSeq(list, cursor + 1, cursor + n)
           /\ cursor' = cursor + n
           /\ link' \in {"none", "graph", "elsewhere"}
           /\ oldest' = NoDate /\ pc' = "scan"
    BY <1>2 DEF DeliverPage
  <1>5. cursor' \in 0..Len(mail)
    BY <1>1, <1>2, <1>3, <1>4
  <1>6. page' \in Seq(ToSet(mail)) /\ Len(page') \in 0..Top
    <2>1. PICK a \in Int, b \in Int : a = cursor + 1 /\ b = cursor + n
      BY <1>3, <1>4
    <2>2. Len(list) \in Nat /\ \A i \in 1..Len(list) : list[i] \in ToSet(mail)
      OBVIOUS
    <2>3. \A i \in a..b : list[i] \in ToSet(mail)
      BY <1>3, <1>4, <2>1, <2>2
    <2>4. /\ SubSeq(list, a, b) \in Seq(ToSet(mail))
          /\ Len(SubSeq(list, a, b)) = IF a <= b THEN b - a + 1 ELSE 0
      BY <2>3, SubSeqProperties
    <2>5. PICK p : p = SubSeq(list, a, b)
      OBVIOUS
    <2>6. (IF a <= b THEN b - a + 1 ELSE 0) \in 0..Top
      BY <1>3, <1>4, <2>1
    <2>7. page' = p
      BY <1>4, <2>1, <2>5
    <2>8. p \in Seq(ToSet(mail)) /\ Len(p) \in 0..Top
      BY <2>4, <2>5, <2>6
    <2>9. QED
      BY <2>7, <2>8
  <1>7. QED
    BY <1>4, <1>5, <1>6

\* The bounds depend on the search only.
LEMMA BoundsStay ==
    ASSUME UNCHANGED search
    PROVE  limit' = limit /\ Top' = Top /\ MaxScannedRows' = MaxScannedRows
  BY DEF limit, Top, MaxScannedRows, query

\* The calendar does not change.
LEMMA DaysStay == \A d : (Day(d) # 0) <=> (Day(d)' # 0)
  BY DEF Day

\* Each step keeps the invariant.
LEMMA ParseKeeps ==
    ASSUME SearchInv, ParseScopedQuery
    PROVE  SearchInv'
  <1>1. /\ pc = "parse" /\ pc' \in {"first", "done"}
        /\ UNCHANGED <<search, honoured, mail, cursor, page, link, scanned, oldest, results>>
        /\ UNCHANGED matcher
    BY DEF ParseScopedQuery
  <1>2. MailFits'
    BY <1>1 DEF SearchInv, MailFits
  <1>3. RowsFit' /\ ResultsFit'
    BY <1>1, BoundsStay, DaysStay DEF SearchInv, RowsFit, ResultsFit
  <1>4. MatcherFits'
    <2>1. NoMatcher' \/ MatcherInv(Patterns)'
      <3>1. CASE NoMatcher
        BY <1>1, <3>1 DEF NoMatcher, matcher
      <3>2. CASE MatcherInv(Patterns)
        BY <1>1, <3>2, MatcherStays
      <3>3. QED
        BY <3>1, <3>2 DEF SearchInv, MatcherFits
    <2>2. queue = <<>> /\ queue' = queue
      BY <1>1 DEF SearchInv, MatcherFits, matcher
    <2>3. QED
      BY <1>1, <2>1, <2>2 DEF MatcherFits
  <1>5. results' = <<>> /\ scanned' = 0
    BY <1>1 DEF SearchInv
  <1>6. QED
    BY <1>1, <1>2, <1>3, <1>4, <1>5 DEF SearchInv

\* A page comes: the first with a new matcher, a further one with the old.
LEMMA DeliveryKeeps ==
    ASSUME SearchInv, pc \in {"first", "next"}, DeliverPage,
           UNCHANGED <<search, honoured, mail, scanned, results>>, MatcherInv(Patterns)'
    PROVE  SearchInv'
  <1>1. /\ page' \in Seq(ToSet(mail)) /\ Len(page') \in 0..Top
        /\ cursor' \in 0..Len(mail) /\ link' \in {"none", "graph", "elsewhere"}
        /\ oldest' = NoDate /\ pc' = "scan"
    BY PageDelivered DEF SearchInv
  <1>2. /\ limit \in Nat \ {0} /\ Top \in Nat /\ MaxScannedRows \in Nat
        /\ limit' = limit /\ Top' = Top /\ MaxScannedRows' = MaxScannedRows
    BY BoundsAre, BoundsStay DEF SearchInv, MailFits
  <1>3. MailFits'
    BY <1>1 DEF SearchInv, MailFits
  <1>4. RowsFit'
    <2>1. scanned \in Nat /\ scanned <= MaxScannedRows
      BY <1>2 DEF SearchInv, RowsFit
    <2>2. scanned + Len(page') <= MaxScannedRows + Top
      BY <1>1, <1>2, <2>1
    <2>3. QED
      BY <1>1, <1>2, <2>1, <2>2 DEF RowsFit
  <1>5. ResultsFit'
    <2>1. Len(results) < limit
      <3>1. CASE pc = "first"
        BY <1>2, <3>1, EmptySeq DEF SearchInv
      <3>2. CASE pc = "next"
        BY <3>2 DEF SearchInv, ResultsFit
      <3>3. QED
        BY <3>1, <3>2
    <2>2. QED
      BY <1>2, <2>1 DEF SearchInv, ResultsFit
  <1>6. MatcherFits'
    BY <1>1 DEF MatcherFits
  <1>7. QED
    BY <1>1, <1>3, <1>4, <1>5, <1>6 DEF SearchInv

\* The first page comes with a new matcher.
LEMMA FirstPageKeeps ==
    ASSUME SearchInv, GetFirstPage
    PROVE  SearchInv'
  <1>1. PICK P : P = Patterns
    OBVIOUS
  <1>2. Patterns' = P
    BY <1>1 DEF GetFirstPage, Patterns, criteria, query
  <1>3. PatternsFit(Symbols, P)
    BY <1>1, PatternsAreFit DEF SearchInv, MailFits
  <1>4. StartMatcher(P)
    BY <1>1 DEF GetFirstPage, BuildCriteriaMatcher, Patterns
  <1>5. MatcherInv(P)'
    BY <1>3, <1>4, MatcherStarts
  <1>6. MatcherInv(Patterns)'
    BY <1>2, <1>5
  <1>7. QED
    BY <1>6, DeliveryKeeps DEF GetFirstPage

\* A further page keeps the matcher.
LEMMA NextPageKeeps ==
    ASSUME SearchInv, GetNextPage
    PROVE  SearchInv'
  <1>1. MatcherInv(Patterns)'
    BY MatcherStays DEF SearchInv, MatcherFits, GetNextPage
  <1>2. QED
    BY <1>1, DeliveryKeeps DEF GetNextPage

\* The matcher is built before a row is looked at.
LEMMA BuildKeeps ==
    ASSUME SearchInv, BuildMatcher
    PROVE  SearchInv'
  <1>1. /\ pc = "scan" /\ BuildFailureLinks
        /\ UNCHANGED <<search, honoured, mail, cursor, pc, page, link, scanned, oldest, results>>
    BY DEF BuildMatcher, searchVars
  <1>2. MailFits' /\ RowsFit' /\ ResultsFit'
    BY <1>1, BoundsStay, DaysStay DEF SearchInv, MailFits, RowsFit, ResultsFit
  <1>3. MatcherInv(Patterns)'
    BY <1>1, MatcherTurns DEF SearchInv, MailFits, MatcherFits
  <1>4. MatcherFits'
    BY <1>1, <1>3 DEF MatcherFits
  <1>5. QED
    BY <1>1, <1>2, <1>4 DEF SearchInv

\* A row is one more result at most, and the last when the limit is reached.
LEMMA ScanKeeps ==
    ASSUME SearchInv, ScanRow
    PROVE  SearchInv'
  <1>1. /\ pc = "scan" /\ page # <<>> /\ queue = <<>>
        /\ UNCHANGED <<search, honoured, mail, cursor, pc, link>> /\ UNCHANGED matcher
    BY DEF ScanRow
  <1>2. /\ limit \in Nat \ {0} /\ Top \in Nat /\ MaxScannedRows \in Nat
        /\ limit' = limit /\ Top' = Top /\ MaxScannedRows' = MaxScannedRows
    BY <1>1, BoundsAre, BoundsStay DEF SearchInv, MailFits
  <1>3. MailFits'
    BY <1>1 DEF SearchInv, MailFits
  <1>4. /\ Head(page) \in ToSet(mail) /\ Tail(page) \in Seq(ToSet(mail))
        /\ Len(Tail(page)) = Len(page) - 1 /\ Len(page) \in Nat
    BY <1>1, HeadTailProperties DEF SearchInv, RowsFit
  <1>5. PICK m \in ToSet(mail), t \in Seq(ToSet(mail)) :
           m = Head(page) /\ t = Tail(page) /\ Len(t) = Len(page) - 1 /\ Len(t) \in Nat
    <2>1. PICK t \in Seq(ToSet(mail)) : t = Tail(page)
      BY <1>4
    <2>2. Len(t) = Len(page) - 1 /\ Len(t) \in Nat
      BY <1>4, <2>1
    <2>3. PICK m \in ToSet(mail) : m = Head(page)
      BY <1>4
    <2>4. QED
      BY <2>1, <2>2, <2>3
  <1>6. /\ scanned' \in {scanned, scanned + 1}
        /\ oldest' \in {oldest, OlderOf(ParseIsoDate(m.date), oldest)}
        /\ results' \in {results, Append(results, m.id)}
        /\ page' = IF Len(results') >= limit THEN <<>> ELSE t
    BY <1>5 DEF ScanRow
  <1>7. RowsFit'
    <2>1. page' \in Seq(ToSet(mail)) /\ Len(page') \in Nat /\ Len(page') <= Len(page) - 1
      <3>1. <<>> \in Seq(ToSet(mail)) /\ Len(<<>>) = 0
        BY EmptySeq
      <3>2. Len(page) >= 1
        BY <1>4, <1>5
      <3>3. QED
        BY <1>4, <1>5, <1>6, <3>1, <3>2
    <2>2. scanned' \in Nat /\ scanned' + Len(page') <= MaxScannedRows + Top
      BY <1>2, <1>4, <1>6, <2>1 DEF SearchInv, RowsFit
    <2>3. oldest' = NoDate \/ Day(oldest') # 0
      <3>1. \A d : d = NoDate \/ Day(d) # 0 =>
               OlderOf(d, oldest) = NoDate \/ Day(OlderOf(d, oldest)) # 0
        BY DEF OlderOf, SearchInv, RowsFit
      <3>2. ParseIsoDate(m.date) = NoDate \/ Day(ParseIsoDate(m.date)) # 0
        BY MailIs DEF SearchInv
      <3>3. OlderOf(ParseIsoDate(m.date), oldest) = NoDate
            \/ Day(OlderOf(ParseIsoDate(m.date), oldest)) # 0
        BY <3>1, <3>2
      <3>4. oldest = NoDate \/ Day(oldest) # 0
        BY DEF SearchInv, RowsFit
      <3>5. QED
        BY <1>6, <3>3, <3>4
    <2>4. oldest' = NoDate \/ Day(oldest)' # 0
      BY <2>3 DEF Day
    <2>5. QED
      BY <1>1, <1>2, <2>1, <2>2, <2>4 DEF RowsFit
  <1>8. ResultsFit'
    <2> DEFINE ids == {x.id : x \in ToSet(mail)}
    <2>1. results \in Seq(ids) /\ Len(results) \in Nat /\ Len(results) < limit
      BY <1>1, <1>2 DEF SearchInv, ResultsFit
    <2>2. m.id \in ids
      OBVIOUS
    <2>3. PICK i \in ids : i = m.id
      BY <2>2
    <2> HIDE DEF ids
    <2>4. Append(results, i) \in Seq(ids) /\ Len(Append(results, i)) = Len(results) + 1
      BY <2>1, AppendProperties
    <2>5. results' \in Seq(ids) /\ Len(results') \in Nat /\ Len(results') <= limit
      <3>1. CASE results' = results
        BY <1>2, <2>1, <3>1
      <3>2. CASE results' = Append(results, i)
        <4>1. results' \in Seq(ids) /\ Len(results') = Len(results) + 1
          BY <2>4, <3>2
        <4>2. QED
          BY <1>2, <2>1, <4>1
      <3>3. QED
        BY <1>6, <2>3, <3>1, <3>2
    <2>6. page' # <<>> => Len(results') < limit
      BY <1>2, <1>6, <2>5
    <2>7. QED
      BY <1>1, <1>2, <2>5, <2>6 DEF ResultsFit, ids
  <1>9. MatcherFits'
    BY <1>1, MatcherStays DEF SearchInv, MatcherFits
  <1>10. QED
    BY <1>1, <1>3, <1>7, <1>8, <1>9 DEF SearchInv

\* A step that only goes on or ends the search, with no row left.
LEMMA TurningKeeps ==
    ASSUME SearchInv, page = <<>>, queue = <<>>, pc' \in {"next", "done", "failed"},
           UNCHANGED <<search, honoured, mail, cursor, page, link, scanned, oldest, results>>,
           UNCHANGED matcher,
           pc' = "next" => pc = "scan" /\ scanned < MaxScannedRows /\ Len(results) < limit
    PROVE  SearchInv'
  <1>1. limit' = limit /\ Top' = Top /\ MaxScannedRows' = MaxScannedRows
    BY BoundsStay
  <1>2. MailFits'
    BY DEF SearchInv, MailFits
  <1>3. RowsFit'
    BY <1>1, DaysStay DEF SearchInv, RowsFit
  <1>4. ResultsFit'
    BY <1>1 DEF SearchInv, ResultsFit
  <1>5. MatcherFits'
    <2>1. MatcherInv(Patterns) => MatcherInv(Patterns)'
      BY MatcherStays
    <2>2. NoMatcher => NoMatcher'
      BY DEF NoMatcher, matcher
    <2>3. queue' = <<>>
      BY DEF matcher
    <2>4. pc' = "next" => MatcherInv(Patterns)
      BY DEF SearchInv, MatcherFits
    <2>5. QED
      BY <2>1, <2>2, <2>3, <2>4 DEF SearchInv, MatcherFits
  <1>6. QED
    BY <1>2, <1>3, <1>4, <1>5 DEF SearchInv

\* There is a further page only below the bounds.
LEMMA EndPageKeeps ==
    ASSUME SearchInv, EndPage
    PROVE  SearchInv'
  <1>1. /\ pc = "scan" /\ page = <<>> /\ queue = <<>>
        /\ pc' = IF NoFurtherPage THEN "done" ELSE "next"
        /\ UNCHANGED <<search, honoured, mail, cursor, page, link, scanned, oldest, results>>
        /\ UNCHANGED matcher
    BY DEF EndPage
  <1>2. ~NoFurtherPage => scanned < MaxScannedRows /\ Len(results) < limit
    <2>1. scanned \in Nat /\ Len(results) \in Nat /\ MaxScannedRows \in Nat /\ limit \in Nat
      BY BoundsAre DEF SearchInv, MailFits, RowsFit, ResultsFit
    <2>2. QED
      BY <2>1 DEF NoFurtherPage
  <1>3. QED
    BY <1>1, <1>2, TurningKeeps

\* A failed call ends the search between pages.
LEMMA FailureKeeps ==
    ASSUME SearchInv, SearchFails
    PROVE  SearchInv'
  <1>1. /\ pc \in {"first", "next"} /\ pc' = "failed"
        /\ UNCHANGED <<search, honoured, mail, cursor, page, link, scanned, oldest, results>>
        /\ UNCHANGED matcher
    BY DEF SearchFails
  <1>2. page = <<>> /\ queue = <<>>
    BY <1>1 DEF SearchInv, RowsFit, MatcherFits
  <1>3. QED
    BY <1>1, <1>2, TurningKeeps

\* New mail comes between pages, and the messages found stay in the mailbox.
LEMMA ArrivalKeeps ==
    ASSUME SearchInv, MailArrives
    PROVE  SearchInv'
  <1>1. /\ pc = "next"
        /\ UNCHANGED <<search, honoured, pc, page, link, scanned, oldest, results>>
        /\ UNCHANGED matcher
    BY DEF MailArrives
  <1>2. PICK m \in Arrivals : mail' = <<m>> \o mail /\ cursor' \in {cursor, cursor + 1}
    BY DEF MailArrives
  <1> DEFINE A == ToSet(search.mail) \cup Arrivals
  <1>3. mail \in Seq(A) /\ Len(mail) \in Nat /\ mail \in Seq(ToSet(mail))
    BY MailIs DEF SearchInv, MailFits
  <1>4. <<m>> \in Seq(A) /\ Len(<<m>>) = 1
    <2>1. m \in A
      OBVIOUS
    <2> HIDE DEF A
    <2>2. QED
      BY <2>1
  <1>5. PICK one \in Seq(A) : one = <<m>> /\ Len(one) = 1
    BY <1>4
  <1>6. /\ mail' = one \o mail /\ mail' \in Seq(A) /\ Len(mail') = 1 + Len(mail)
        /\ \A i \in 1..1 + Len(mail) : mail'[i] = IF i <= 1 THEN one[i] ELSE mail[i - 1]
    <2> HIDE DEF A
    <2>1. /\ one \o mail \in Seq(A) /\ Len(one \o mail) = Len(one) + Len(mail)
          /\ \A i \in 1..Len(one) + Len(mail) : (one \o mail)[i] =
                IF i <= Len(one) THEN one[i] ELSE mail[i - Len(one)]
      BY <1>3, ConcatProperties
    <2>2. mail' = one \o mail
      BY <1>2, <1>5
    <2>3. QED
      BY <1>5, <2>1, <2>2
  <1>7. ToSet(mail) \subseteq ToSet(mail')
    <2>1. ASSUME NEW i \in 1..Len(mail) PROVE mail[i] \in ToSet(mail')
      <3>1. i + 1 \in 1..1 + Len(mail) /\ ~(i + 1 <= 1) /\ (i + 1) - 1 = i
        BY <1>3
      <3>2. mail'[i + 1] = mail[i]
        BY <1>6, <3>1
      <3>3. \A j \in 1..Len(mail') : mail'[j] \in ToSet(mail')
        <4> HIDE DEF A
        <4>1. QED
          BY <1>6, ToSetIs
      <3>4. mail'[i + 1] \in ToSet(mail')
        BY <1>6, <3>1, <3>3
      <3>5. QED
        BY <3>2, <3>4
    <2>2. DOMAIN mail = 1..Len(mail)
      BY <1>3
    <2>3. \A x \in ToSet(mail) : \E i \in 1..Len(mail) : x = mail[i]
      BY <2>2 DEF ToSet
    <2>4. QED
      BY <2>1, <2>3
  <1>8. MailFits'
    BY <1>1, <1>2, <1>3, <1>6 DEF SearchInv, MailFits
  <1>9. limit' = limit /\ Top' = Top /\ MaxScannedRows' = MaxScannedRows
    BY <1>1, BoundsStay
  <1>10. ToSet(mail)' = ToSet(mail')
    BY DEF ToSet
  <1>11. RowsFit'
    <2>1. page' \in Seq(ToSet(mail'))
      BY <1>1, EmptySeq DEF SearchInv, RowsFit
    <2>2. QED
      BY <1>1, <1>9, <1>10, <2>1, DaysStay DEF SearchInv, RowsFit
  <1>12. ResultsFit'
    <2> DEFINE ids == {x.id : x \in ToSet(mail)}
               more == {x.id : x \in ToSet(mail')}
    <2>1. ids \subseteq more
      BY <1>7
    <2>2. results \in Seq(ids)
      BY DEF SearchInv, ResultsFit
    <2>3. results \in Seq(more)
      <3> HIDE DEF ids, more
      <3>1. QED
        BY <2>1, <2>2, SeqMonotonic
    <2>4. QED
      BY <1>1, <1>9, <1>10, <2>3 DEF SearchInv, ResultsFit
  <1>13. MatcherFits'
    <2>1. MatcherInv(Patterns)'
      BY <1>1, MatcherStays DEF SearchInv, MatcherFits
    <2>2. QED
      BY <1>1, <2>1 DEF SearchInv, MatcherFits, matcher
  <1>14. QED
    BY <1>1, <1>8, <1>11, <1>12, <1>13 DEF SearchInv

\* Every step keeps the invariant.
LEMMA NextKeeps ==
    ASSUME SearchInv, [Next]_vars
    PROVE  SearchInv'
  <1>1. CASE ParseScopedQuery
    BY <1>1, ParseKeeps
  <1>2. CASE GetFirstPage
    BY <1>2, FirstPageKeeps
  <1>3. CASE BuildMatcher
    BY <1>3, BuildKeeps
  <1>4. CASE ScanRow
    BY <1>4, ScanKeeps
  <1>5. CASE EndPage
    BY <1>5, EndPageKeeps
  <1>6. CASE GetNextPage
    BY <1>6, NextPageKeeps
  <1>7. CASE SearchFails
    BY <1>7, FailureKeeps
  <1>8. CASE MailArrives
    BY <1>8, ArrivalKeeps
  <1>9. CASE UNCHANGED vars
    <2>1. /\ UNCHANGED <<search, honoured, mail, cursor, pc, page, link, scanned, oldest, results>>
          /\ UNCHANGED matcher
      BY <1>9 DEF vars, searchVars
    <2>2. MailFits' /\ RowsFit' /\ ResultsFit'
      BY <2>1, BoundsStay, DaysStay DEF SearchInv, MailFits, RowsFit, ResultsFit
    <2>3. MatcherInv(Patterns) => MatcherInv(Patterns)'
      BY <2>1, MatcherStays
    <2>4. MatcherFits'
      BY <2>1, <2>3 DEF SearchInv, MatcherFits, NoMatcher, matcher
    <2>5. QED
      BY <2>1, <2>2, <2>4 DEF SearchInv
  <1>10. QED
    BY <1>1, <1>2, <1>3, <1>4, <1>5, <1>6, <1>7, <1>8, <1>9 DEF Next, SearchStep

\* The invariant holds always.
LEMMA SearchInvHolds == Spec => []SearchInv
  <1>1. Init => SearchInv
    BY InitHoldsSearchInv
  <1>2. SearchInv /\ [Next]_vars => SearchInv'
    BY NextKeeps
  <1>3. QED
    BY <1>1, <1>2, PTL DEF Spec

\* Every variable has its type, a page is never more than may be scanned, and
\* no answer is longer than the limit (api.cpp, SearchMessages).
THEOREM SearchTypeCorrect == Spec => []TypeOK
  <1>1. SearchInv => TypeOK
    <2> SUFFICES ASSUME SearchInv PROVE TypeOK
      OBVIOUS
    <2>1. ToSet(mail) \subseteq ToSet(search.mail) \cup Arrivals
      BY MailIs DEF SearchInv
    <2>2. ToSet(page) \subseteq ToSet(mail)
      BY ToSetIs DEF SearchInv, RowsFit
    <2>3. ToSet(results) \subseteq {m.id : m \in ToSet(mail)}
      BY ToSetIs DEF SearchInv, ResultsFit
    <2>4. scanned \in 0..MaxScannedRows + Top
      <3>1. Len(page) \in Nat
        BY DEF SearchInv, RowsFit
      <3>2. QED
        BY <3>1, BoundsAre DEF SearchInv, MailFits, RowsFit
    <2>5. ToSet(queue) \subseteq Nodes /\ DOMAIN output = Nodes
      <3>1. CASE NoMatcher
        BY <3>1 DEF NoMatcher, ToSet, Nodes
      <3>2. CASE MatcherInv(Patterns)
        BY <3>2, ToSetIs DEF MatcherInv, QueueFits
      <3>3. QED
        BY <3>1, <3>2 DEF SearchInv, MatcherFits
    <2>6. QED
      BY <2>1, <2>2, <2>3, <2>4, <2>5 DEF TypeOK, SearchInv, MailFits, RowsFit, ResultsFit
  <1>2. QED
    BY <1>1, SearchInvHolds, PTL

\* When the queue of BuildFailureLinks (search.cpp) is empty, every node has the
\* link and the patterns it must have, whatever the query.
THEOREM MatcherIsBuiltRight == Spec => []MatcherIsRight
  <1>1. SearchInv => MatcherIsRight
    <2> SUFFICES ASSUME SearchInv, queue = <<>>
                 PROVE  LinksAreRight(Nodes, {p \in Nodes : p \in output[p]})
      BY DEF MatcherIsRight
    <2>1. CASE NoMatcher
      BY <2>1 DEF NoMatcher, Nodes, LinksAreRight
    <2>2. CASE MatcherInv(Patterns)
      <3>1. PICK P : P = Patterns
        OBVIOUS
      <3>2. PatternsFit(Symbols, P) /\ MatcherInv(P)
        BY <2>2, <3>1, PatternsAreFit DEF SearchInv, MailFits
      <3>3. {p \in Nodes : p \in output[p]} = P
        BY <3>2, PatternsShow
      <3>4. LinksAreRight(Nodes, P)
        BY <3>2, MatcherDone
      <3>5. QED
        BY <3>3, <3>4
    <2>3. QED
      BY <2>1, <2>2 DEF SearchInv, MatcherFits
  <1>2. QED
    BY <1>1, SearchInvHolds, PTL

\* While rows are looked at, Search (search.cpp) finds in a text, whatever its
\* symbols, the texts of the query that occur in it, and no others.
THEOREM SearchFindsWhatOccurs ==
    ASSUME NEW CONSTANT Chars
    PROVE  Spec => [](pc = "scan" /\ queue = <<>> =>
                        \A text \in Seq(Chars) :
                            Found(text) = {p \in Patterns : Occurs(p, text)})
  <1>1. SearchInv /\ pc = "scan" /\ queue = <<>> =>
           \A text \in Seq(Chars) : Found(text) = {p \in Patterns : Occurs(p, text)}
    <2> SUFFICES ASSUME SearchInv, pc = "scan", queue = <<>>, NEW text \in Seq(Chars)
                 PROVE  Found(text) = {p \in Patterns : Occurs(p, text)}
      OBVIOUS
    <2>1. PICK P : P = Patterns
      OBVIOUS
    <2>2. PatternsFit(Symbols, P) /\ MatcherInv(P)
      BY <2>1, PatternsAreFit DEF SearchInv, MailFits, MatcherFits
    <2>3. PICK A : Symbols \subseteq A /\ Chars \subseteq A
      <3>1. Symbols \subseteq Symbols \cup Chars /\ Chars \subseteq Symbols \cup Chars
        OBVIOUS
      <3>2. QED
        BY <3>1
    <2>4. PatternsFit(A, P)
      BY <2>2, <2>3, SeqMonotonic DEF PatternsFit
    <2>5. text \in Seq(A)
      BY <2>3, SeqMonotonic
    <2>6. Found(text) = {p \in P : Occurs(p, text)}
      BY <2>2, <2>4, <2>5, OnePassFindsAll
    <2>7. QED
      BY <2>1, <2>6
  <1>2. QED
    BY <1>1, SearchInvHolds, PTL

-----------------------------------------------------------------------------
(* The order of the results                                                *)

\* How many rows of the listing have been looked at.
Seen == cursor - Len(page)
InMailOrder(s) ==
    \A j, k \in 1..Len(s) : j < k => s[j].id # s[k].id /\ MayPrecede(s[j], s[k])

\* The page has the rows before the cursor.  As long as no mail has arrived the
\* results are rows looked at; and until two messages have arrived, no row that is
\* still to come is newer than one of the results.
PageFits ==
    /\ cursor <= Len(Listing) /\ Len(page) <= cursor
    /\ \A k \in 1..Len(page) : page[k] = Listing[Seen + k]
FirstFits ==
    Len(mail) = Len(search.mail) =>
        /\ mail = search.mail
        /\ IsInjective(results)
        /\ \A k \in 1..Len(results) : \E i \in 1..Seen : results[k] = Listing[i].id
OrderFits ==
    Len(mail) <= Len(search.mail) + 1 =>
        /\ InMailOrder(mail)
        /\ \A j, k \in 1..Len(results) : j < k =>
              MayPrecede(Message(results[j]), Message(results[k]))
        /\ \A k \in 1..Len(results), i \in Seen + 1..Len(Listing) :
              MayPrecede(Message(results[k]), Listing[i])
OrderInv == PageFits /\ FirstFits /\ OrderFits /\ Len(search.mail) <= Len(mail)

\* An id stands for one message of the mailbox.
LEMMA MessageIs ==
    MailFits => \A m \in ToSet(mail) : Message(m.id) = m
  <1> SUFFICES ASSUME MailFits, NEW m \in ToSet(mail) PROVE Message(m.id) = m
    OBVIOUS
  <1>1. ToSet(mail) \subseteq ToSet(search.mail) \cup Arrivals /\ search \in Searches
    BY MailIs DEF MailFits
  <1>2. PICK s \in Searches : s = search
    BY <1>1
  <1>3. ASSUME NEW x \in ToSet(s.mail), NEW y \in ToSet(s.mail), x.id = y.id PROVE x = y
    <2>1. s.mail \in Seq(ToSet(s.mail))
      BY SearchAssumption
    <2>2. DOMAIN s.mail = 1..Len(s.mail) /\ Len(s.mail) \in Nat
      BY <2>1
    <2>3. PICK j \in 1..Len(s.mail), k \in 1..Len(s.mail) : x = s.mail[j] /\ y = s.mail[k]
      BY <2>2 DEF ToSet
    <2>4. \A a, b \in 1..Len(s.mail) : a < b => s.mail[a].id # s.mail[b].id
      BY <2>2, MailAssumption
    <2>5. j = k
      BY <1>3, <2>2, <2>3, <2>4
    <2>6. QED
      BY <2>3, <2>5
  <1>4. \A x \in Arrivals, y \in ToSet(s.mail) : x.id # y.id
    BY MailAssumption
  <1>5. \A x, y \in Arrivals : x.id = y.id => x = y
    BY MailAssumption
  <1>6. \A x \in ToSet(mail) : x.id = m.id => x = m
    BY <1>1, <1>2, <1>3, <1>4, <1>5
  <1>7. Message(m.id) = CHOOSE x \in ToSet(mail) : x.id = m.id
    BY DEF Message
  <1>8. QED
    BY <1>6, <1>7

\* The same of the next state.
LEMMA MessageIsNext ==
    (MailFits => \A m \in ToSet(mail) : Message(m.id) = m)'
  BY MessageIs, PTL

\* The listing has the order of the mailbox.
LEMMA ListingInOrder ==
    ASSUME mail \in Seq(ToSet(mail)), InMailOrder(mail)
    PROVE  InMailOrder(Listing)
  <1>1. PICK e \in Seq(1..Len(mail)) :
              /\ Len(e) = Len(Listing)
              /\ \A j, k \in 1..Len(e) : j < k => e[j] < e[k]
              /\ \A k \in 1..Len(e) : Listing[k] = mail[e[k]]
    BY ListingPicks
  <1>2. ASSUME NEW j \in 1..Len(Listing), NEW k \in 1..Len(Listing), j < k
        PROVE  Listing[j].id # Listing[k].id /\ MayPrecede(Listing[j], Listing[k])
    <2>1. PICK a \in 1..Len(mail), b \in 1..Len(mail) :
             a = e[j] /\ b = e[k] /\ a < b /\ Listing[j] = mail[a] /\ Listing[k] = mail[b]
      <3>1. e[j] \in 1..Len(mail) /\ e[k] \in 1..Len(mail)
        BY <1>1, <1>2
      <3>2. QED
        BY <1>1, <1>2, <3>1
    <2>2. mail[a].id # mail[b].id /\ MayPrecede(mail[a], mail[b])
      BY <2>1 DEF InMailOrder
    <2>3. QED
      BY <2>1, <2>2
  <1>3. QED
    BY <1>2 DEF InMailOrder

\* A message precedes itself.
LEMMA PrecedesItself == \A m : MayPrecede(m, m)
  <1>1. \A m : Day(m.date) = 0 \/ Day(m.date) \in Nat
    <2>1. TAKE m
    <2>2. CASE m.date = NoDate \/ {k \in DOMAIN Calendar : Calendar[k] = m.date} = {}
      BY <2>2 DEF Day
    <2>3. CASE ~(m.date = NoDate \/ {k \in DOMAIN Calendar : Calendar[k] = m.date} = {})
      <3>1. PICK d : d = m.date
        OBVIOUS
      <3>2. PICK days : days = {k \in DOMAIN Calendar : Calendar[k] = d} /\ days # {}
        BY <2>3, <3>1
      <3>3. Day(d) = CHOOSE k \in days : TRUE
        BY <2>3, <3>1, <3>2 DEF Day
      <3>4. Day(d) \in DOMAIN Calendar
        BY <3>2, <3>3
      <3>5. DOMAIN Calendar = 1..Len(Calendar)
        BY SearchAssumption
      <3>6. QED
        BY <3>1, <3>4, <3>5
    <2>4. QED
      BY <2>2, <2>3
  <1>2. QED
    BY <1>1 DEF MayPrecede

\* It begins in order.
LEMMA InitHoldsOrder ==
    ASSUME Init, SearchInv
    PROVE  OrderInv
  <1>1. mail = search.mail /\ cursor = 0 /\ page = <<>> /\ results = <<>> /\ search \in Searches
    BY DEF Init
  <1>2. mail \in Seq(ToSet(mail)) /\ Len(mail) \in Nat /\ Listing \in Seq(ToSet(mail))
    BY MailIs, ListingIs DEF SearchInv
  <1>3. Len(page) = 0 /\ Len(results) = 0 /\ Len(Listing) \in Nat /\ DOMAIN results = {}
    BY <1>1, <1>2
  <1>4. PageFits
    BY <1>1, <1>3 DEF PageFits
  <1>5. FirstFits
    BY <1>1, <1>3 DEF FirstFits, IsInjective
  <1>6. InMailOrder(mail)
    <2>1. DOMAIN search.mail = 1..Len(search.mail)
      BY <1>1, <1>2
    <2>2. QED
      BY <1>1, <2>1, MailAssumption DEF InMailOrder
  <1>7. OrderFits
    BY <1>3, <1>6 DEF OrderFits
  <1>8. QED
    BY <1>1, <1>2, <1>4, <1>5, <1>7 DEF OrderInv

\* Listing and messages stay while the mailbox does.
LEMMA ListingStays ==
    ASSUME UNCHANGED <<search, honoured, mail>>
    PROVE  /\ Listing' = Listing /\ \A id : Message(id)' = Message(id)
           /\ \A m, n : MayPrecede(m, n)' = MayPrecede(m, n)
           /\ InMailOrder(mail)' = InMailOrder(mail)
  <1>1. Listing' = Listing
    BY DEF Listing, Lists, criteria, query
  <1>2. \A id : Message(id)' = Message(id)
    BY DEF Message, ToSet
  <1>3. \A m, n : MayPrecede(m, n)' = MayPrecede(m, n)
    BY DEF MayPrecede, Day
  <1>4. InMailOrder(mail)' = InMailOrder(mail)
    BY <1>3 DEF InMailOrder
  <1>5. QED
    BY <1>1, <1>2, <1>3, <1>4

\* What leaves mailbox, page, cursor and results keeps the order.
LEMMA OrderStays ==
    ASSUME OrderInv, UNCHANGED <<search, honoured, mail, cursor, page, results>>
    PROVE  OrderInv'
  <1>1. /\ Listing' = Listing /\ \A id : Message(id)' = Message(id)
        /\ \A m, n : MayPrecede(m, n)' = MayPrecede(m, n)
        /\ InMailOrder(mail)' = InMailOrder(mail)
    BY ListingStays
  <1>2. Seen' = Seen
    BY DEF Seen
  <1>3. PageFits'
    BY <1>1, <1>2 DEF OrderInv, PageFits
  <1>4. FirstFits'
    BY <1>1, <1>2 DEF OrderInv, FirstFits, IsInjective
  <1>5. OrderFits'
    BY <1>1, <1>2 DEF OrderInv, OrderFits
  <1>6. QED
    BY <1>3, <1>4, <1>5 DEF OrderInv

\* A page has the rows behind the cursor, and the last page has the last of them.
LEMMA PageIsNext ==
    ASSUME SearchInv, PageFits, page = <<>>, DeliverPage
    PROVE  \E list, n, c :
              /\ list \in Seq(ToSet(mail)) /\ list = Listing /\ Len(list) \in Nat
              /\ c \in Nat /\ c = cursor /\ c <= Len(list) /\ Seen = c
              /\ n \in Nat /\ n <= Len(list) - c
              /\ cursor' = c + n /\ cursor' <= Len(list)
              /\ Len(page') = n /\ Len(page') <= cursor'
              /\ \A k \in 1..n : page'[k] = list[c + k]
              /\ Seen' = c
              /\ link' = "none" => cursor' = Len(list)
              /\ oldest' = NoDate /\ pc' = "scan"
  <1>1. PICK list \in Seq(ToSet(mail)) : list = Listing /\ Len(list) \in Nat
    BY MailIs, ListingIs DEF SearchInv
  <1>2. PICK c \in Nat : c = cursor /\ c <= Len(list) /\ Seen = c
    <2>1. cursor \in Nat
      BY MailIs DEF SearchInv, MailFits
    <2>2. PICK z : z = Len(page) /\ z = 0
      OBVIOUS
    <2>3. PICK c \in Nat : c = cursor /\ c <= Len(list)
      BY <1>1, <2>1 DEF PageFits
    <2>4. Seen = c - z
      BY <2>2, <2>3 DEF Seen
    <2>5. QED
      BY <2>2, <2>3, <2>4
  <1>3. PICK n \in Nat :
           /\ n <= Len(list) - c
           /\ page' = SubSeq(list, c + 1, c + n)
           /\ cursor' = c + n
           /\ n >= Len(list) - c \/ (n < Len(list) - c /\ link' \in {"graph", "elsewhere"})
           /\ oldest' = NoDate /\ pc' = "scan"
    <2>1. Top \in Nat
      BY BoundsAre DEF SearchInv, MailFits
    <2>2. PICK n \in 0..Top :
             /\ n <= Len(list) - c
             /\ page' = SubSeq(list, c + 1, c + n)
             /\ cursor' = c + n
             /\ n >= Len(list) - c \/ (n < Len(list) - c /\ link' \in {"graph", "elsewhere"})
             /\ oldest' = NoDate /\ pc' = "scan"
      BY <1>1, <1>2 DEF DeliverPage
    <2>3. n \in Nat
      BY <2>1
    <2>4. QED
      BY <2>2, <2>3
  <1>4. Len(page') = n /\ \A k \in 1..n : page'[k] = list[c + k]
    <2>1. PICK a \in Int, b \in Int : a = c + 1 /\ b = c + n
      OBVIOUS
    <2>2. \A i \in a..b : list[i] \in ToSet(mail)
      <3>1. \A i \in 1..Len(list) : list[i] \in ToSet(mail)
        OBVIOUS
      <3>2. a..b \subseteq 1..Len(list)
        BY <1>1, <1>2, <1>3, <2>1
      <3>3. QED
        BY <3>1, <3>2
    <2>3. /\ Len(SubSeq(list, a, b)) = IF a <= b THEN b - a + 1 ELSE 0
          /\ \A i \in 1..b - a + 1 : SubSeq(list, a, b)[i] = list[a + i - 1]
      BY <2>2, SubSeqProperties
    <2>4. (IF a <= b THEN b - a + 1 ELSE 0) = n /\ b - a + 1 = n
          /\ \A i \in 1..n : a + i - 1 = c + i
      BY <2>1
    <2>5. PICK p : p = SubSeq(list, a, b)
      OBVIOUS
    <2>6. page' = p
      BY <1>3, <2>1, <2>5
    <2>7. Len(p) = n /\ \A i \in 1..n : p[i] = list[a + i - 1]
      BY <2>3, <2>4, <2>5
    <2>8. QED
      BY <2>4, <2>6, <2>7
  <1>5. Seen' = c
    <2>1. PICK d, z : d = cursor' /\ z = Len(page') /\ d = c + n /\ z = n
      BY <1>3, <1>4
    <2>2. Seen' = d - z
      BY <2>1 DEF Seen
    <2>3. QED
      BY <2>1, <2>2
  <1>6. PICK d \in Nat : d = cursor' /\ d = c + n /\ d <= Len(list) /\ n <= d
    BY <1>1, <1>2, <1>3
  <1>7. link' = "none" => d = Len(list)
    BY <1>1, <1>3, <1>6
  <1>8. QED
    BY <1>1, <1>2, <1>3, <1>4, <1>5, <1>6, <1>7

\* The next page goes on behind the last.
LEMMA DeliveryKeepsOrder ==
    ASSUME SearchInv, OrderInv, page = <<>>, DeliverPage,
           UNCHANGED <<search, honoured, mail, results>>
    PROVE  OrderInv'
  <1>1. /\ Listing' = Listing /\ \A id : Message(id)' = Message(id)
        /\ \A m, n : MayPrecede(m, n)' = MayPrecede(m, n)
        /\ InMailOrder(mail)' = InMailOrder(mail)
    BY ListingStays
  <1>2. PageFits
    BY DEF OrderInv
  <1>3. PICK list, n, c :
              /\ list \in Seq(ToSet(mail)) /\ list = Listing /\ Len(list) \in Nat
              /\ c \in Nat /\ c = cursor /\ c <= Len(list) /\ Seen = c
              /\ n \in Nat /\ n <= Len(list) - c
              /\ cursor' = c + n /\ cursor' <= Len(list)
              /\ Len(page') = n /\ Len(page') <= cursor'
              /\ \A k \in 1..n : page'[k] = list[c + k]
              /\ Seen' = c
              /\ link' = "none" => cursor' = Len(list)
              /\ oldest' = NoDate /\ pc' = "scan"
    BY <1>2, PageIsNext
  <1>4. PageFits'
    BY <1>1, <1>3 DEF PageFits
  <1>5. FirstFits'
    BY <1>1, <1>3 DEF OrderInv, FirstFits, IsInjective
  <1>6. OrderFits'
    BY <1>1, <1>3 DEF OrderInv, OrderFits
  <1>7. QED
    BY <1>4, <1>5, <1>6 DEF OrderInv

\* A row that is looked at is the next of the listing.
LEMMA RowIsNext ==
    ASSUME SearchInv, PageFits, ScanRow
    PROVE  \E list, m, t, s, r :
              /\ list \in Seq(ToSet(mail)) /\ list = Listing /\ Len(list) \in Nat
              /\ page \in Seq(ToSet(mail)) /\ Len(page) \in Nat /\ Len(page) >= 1
              /\ m \in ToSet(mail) /\ m = Head(page) /\ m = list[s + 1] /\ s + 1 \in 1..Len(list)
              /\ t \in Seq(ToSet(mail)) /\ Len(t) = Len(page) - 1
              /\ \A k \in 1..Len(t) : t[k] = page[k + 1]
              /\ s \in Nat /\ s = Seen /\ cursor \in Nat
              /\ s + Len(page) = cursor /\ cursor <= Len(list)
              /\ \A k \in 1..Len(page) : page[k] = list[s + k]
              /\ r \in s + 1..cursor /\ r = Seen' /\ Len(page') = cursor - r
              /\ page' = t \/ page' = <<>>
              /\ page' = t => r = s + 1
              /\ Len(results') < limit => page' = t
              /\ results' \in {results, Append(results, m.id)}
  <1>1. /\ page # <<>>
        /\ UNCHANGED <<search, honoured, mail, cursor>>
    BY DEF ScanRow
  <1>2. PICK list \in Seq(ToSet(mail)) : list = Listing /\ Len(list) \in Nat
    BY MailIs, ListingIs DEF SearchInv
  <1>3. /\ page \in Seq(ToSet(mail)) /\ Len(page) \in Nat /\ Len(page) >= 1
        /\ Head(page) = page[1] /\ Tail(page) \in Seq(ToSet(mail)) /\ Len(Tail(page)) = Len(page) - 1
        /\ \A k \in 1..Len(page) - 1 : Tail(page)[k] = page[k + 1]
    <2>1. page \in Seq(ToSet(mail)) /\ Len(page) \in Nat
      BY DEF SearchInv, RowsFit
    <2>2. Len(page) # 0
      BY <1>1, <2>1, EmptySeq
    <2>3. /\ Head(page) = page[1] /\ Tail(page) \in Seq(ToSet(mail)) /\ Len(Tail(page)) = Len(page) - 1
          /\ \A k \in 1..Len(page) - 1 : Tail(page)[k] = page[k + 1]
      BY <1>1, <2>1, HeadTailProperties
    <2>4. QED
      BY <2>1, <2>2, <2>3
  <1>4. PICK m \in ToSet(mail), t \in Seq(ToSet(mail)) : m = page[1] /\ t = Tail(page)
           /\ Len(t) = Len(page) - 1 /\ \A k \in 1..Len(t) : t[k] = page[k + 1]
    <2>1. PICK t \in Seq(ToSet(mail)) : t = Tail(page)
      BY <1>3
    <2>2. page[1] \in ToSet(mail)
      <3>1. \A k \in 1..Len(page) : page[k] \in ToSet(mail)
        BY <1>3
      <3>2. QED
        BY <1>3, <3>1
    <2>3. QED
      BY <1>3, <2>1, <2>2
  <1>5. /\ results' \in {results, Append(results, m.id)}
        /\ page' = IF Len(results') >= limit THEN <<>> ELSE t
    BY <1>3, <1>4 DEF ScanRow
  <1>6. PICK s \in Nat : s = Seen /\ cursor \in Nat /\ s + Len(page) = cursor /\ cursor <= Len(list)
           /\ \A k \in 1..Len(page) : page[k] = list[s + k]
    <2>1. cursor \in Nat
      BY MailIs DEF SearchInv, MailFits
    <2>2. /\ cursor <= Len(list) /\ Len(page) <= cursor
          /\ \A k \in 1..Len(page) : page[k] = list[Seen + k]
      BY <1>2 DEF PageFits
    <2>3. PICK p \in Nat : p = Len(page)
      BY <1>3
    <2>4. Seen = cursor - p /\ p <= cursor
      BY <2>2, <2>3 DEF Seen
    <2>5. PICK s \in Nat : s = cursor - p
      BY <2>1, <2>4
    <2>6. s = Seen /\ s + Len(page) = cursor
      BY <2>1, <2>3, <2>4, <2>5
    <2>7. QED
      BY <2>1, <2>2, <2>6
  <1>7. PICK r \in s + 1..cursor : r = Seen' /\ Len(page') = cursor - r /\ (page' = t \/ page' = <<>>)
           /\ (page' = t => r = s + 1)
    <2> SUFFICES /\ Seen' \in s + 1..cursor /\ Len(page') = cursor - Seen'
                 /\ page' = t \/ page' = <<>>
                 /\ page' = t => Seen' = s + 1
      <3> HIDE DEF Seen
      <3>1. QED
        OBVIOUS
    <2>1. Len(<<>>) = 0
      OBVIOUS
    <2>2. page' = t \/ page' = <<>>
      BY <1>5
    <2>3. PICK p \in Nat : p = Len(page) /\ p >= 1 /\ s + p = cursor /\ cursor \in Nat
      BY <1>3, <1>6
    <2>4. Seen' = cursor - Len(page')
      BY <1>1 DEF Seen
    <2>5. CASE page' = t
      <3>1. Len(page') = p - 1
        BY <1>4, <2>3, <2>5
      <3>2. Seen' = s + 1 /\ s + 1 \in s + 1..cursor /\ Len(page') = cursor - (s + 1)
        <4>0. PICK d : d = Seen'
          OBVIOUS
        <4>1. PICK c \in Nat : c = cursor /\ d = Seen'
          BY <2>3, <4>0
        <4>2. d = c - (p - 1) /\ s + p = c
          BY <2>3, <2>4, <3>1, <4>1
        <4>3. d = s + 1 /\ s + 1 \in s + 1..c /\ p - 1 = c - (s + 1)
          BY <2>3, <4>2
        <4>4. QED
          BY <3>1, <4>1, <4>3
      <3>3. QED
        BY <2>5, <3>2
    <2>6. CASE page' = <<>> /\ page' # t
      <3>1. Seen' = cursor /\ cursor \in s + 1..cursor /\ Len(page') = cursor - cursor
        <4>0. PICK d : d = Seen'
          OBVIOUS
        <4>1. PICK c \in Nat : c = cursor /\ d = Seen'
          BY <2>3, <4>0
        <4>2. d = c - 0 /\ s + p = c
          BY <2>1, <2>3, <2>4, <2>6, <4>1
        <4>3. d = c /\ c \in s + 1..c /\ 0 = c - c
          BY <2>3, <4>2
        <4>4. QED
          BY <2>1, <2>6, <4>1, <4>3
      <3>2. QED
        BY <2>6, <3>1
    <2>7. QED
      BY <2>2, <2>5, <2>6
  <1>8. m = list[s + 1] /\ s + 1 \in 1..Len(list)
    <2>1. 1 \in 1..Len(page)
      BY <1>3
    <2>2. QED
      BY <1>4, <1>3, <1>6, <2>1
  <1>9. Len(results') < limit => page' = t
    <2>1. ~(Len(results') >= limit /\ Len(results') < limit)
      <3>1. limit \in Nat
        BY BoundsAre DEF SearchInv, MailFits
      <3>2. Len(results') \in Nat
        <4>1. SearchInv'
          BY ScanKeeps
        <4>2. QED
          BY <4>1 DEF SearchInv, ResultsFit
      <3>3. QED
        BY <3>1, <3>2
    <2>2. QED
      BY <1>5, <2>1
  <1>10. m = Head(page)
    BY <1>3, <1>4
  <1>11. QED
    BY <1>2, <1>3, <1>4, <1>5, <1>6, <1>7, <1>8, <1>9, <1>10, ZenonT(60)

\* A row is the next of the listing.
LEMMA ScanKeepsOrder ==
    ASSUME SearchInv, OrderInv, ScanRow
    PROVE  OrderInv'
  <1>1. /\ page # <<>>
        /\ UNCHANGED <<search, honoured, mail, cursor>>
    BY DEF ScanRow
  <1>2. /\ Listing' = Listing /\ \A id : Message(id)' = Message(id)
        /\ \A m, n : MayPrecede(m, n)' = MayPrecede(m, n)
        /\ InMailOrder(mail)' = InMailOrder(mail)
    BY <1>1, ListingStays
  <1>3. PageFits
    BY DEF OrderInv
  <1>4. PICK list, m, t, s, r :
              /\ list \in Seq(ToSet(mail)) /\ list = Listing /\ Len(list) \in Nat
              /\ page \in Seq(ToSet(mail)) /\ Len(page) \in Nat /\ Len(page) >= 1
              /\ m \in ToSet(mail) /\ m = Head(page) /\ m = list[s + 1] /\ s + 1 \in 1..Len(list)
              /\ t \in Seq(ToSet(mail)) /\ Len(t) = Len(page) - 1
              /\ \A k \in 1..Len(t) : t[k] = page[k + 1]
              /\ s \in Nat /\ s = Seen /\ cursor \in Nat
              /\ s + Len(page) = cursor /\ cursor <= Len(list)
              /\ \A k \in 1..Len(page) : page[k] = list[s + k]
              /\ r \in s + 1..cursor /\ r = Seen' /\ Len(page') = cursor - r
              /\ page' = t \/ page' = <<>>
              /\ page' = t => r = s + 1
              /\ Len(results') < limit => page' = t
              /\ results' \in {results, Append(results, m.id)}
    BY <1>3, RowIsNext
  <1>5. PageFits'
    <2>1. \A k \in 1..Len(page') : page'[k] = list[r + k]
      <3>1. CASE page' = t
        <4>1. TAKE k \in 1..Len(page')
        <4>2. k \in 1..Len(t) /\ k + 1 \in 1..Len(page)
          BY <1>4, <3>1
        <4>3. t[k] = page[k + 1] /\ page[k + 1] = list[s + (k + 1)]
          BY <1>4, <4>2
        <4>4. s + (k + 1) = r + k
          BY <1>4, <3>1
        <4>5. QED
          BY <3>1, <4>3, <4>4
      <3>2. CASE page' = <<>>
        BY <3>2
      <3>3. QED
        BY <1>4, <3>1, <3>2
    <2>2. Len(page') <= cursor'
      <3>1. r \in Nat /\ cursor \in Nat /\ Len(page') = cursor - r /\ cursor' = cursor
        BY <1>1, <1>4
      <3>2. QED
        BY <3>1
    <2>3. QED
      BY <1>1, <1>2, <1>4, <2>1, <2>2 DEF PageFits
  <1>6. PICK l \in Nat : l = Len(results) /\ DOMAIN results = 1..l
           /\ \/ results' = results
              \/ /\ Len(results') = l + 1 /\ DOMAIN results' = 1..l + 1
                 /\ \A k \in 1..l : results'[k] = results[k]
                 /\ results'[l + 1] = m.id
    <2> DEFINE ids == {x.id : x \in ToSet(mail)}
    <2>1. PICK i \in ids : i = m.id
      BY <1>4
    <2>2. results \in Seq(ids)
      BY DEF SearchInv, ResultsFit
    <2> HIDE DEF ids
    <2>3. /\ Append(results, i) \in Seq(ids)
          /\ Len(Append(results, i)) = Len(results) + 1
          /\ \A k \in 1..Len(results) : Append(results, i)[k] = results[k]
          /\ Append(results, i)[Len(results) + 1] = i
      BY <2>2, AppendProperties
    <2>4. Len(results) \in Nat /\ DOMAIN results = 1..Len(results)
      BY <2>2
    <2>5. CASE results' = Append(results, i)
      <3>1. /\ results' \in Seq(ids) /\ Len(results') = Len(results) + 1
            /\ \A k \in 1..Len(results) : results'[k] = results[k]
            /\ results'[Len(results) + 1] = i
        BY <2>3, <2>5
      <3>2. DOMAIN results' = 1..Len(results')
        BY <3>1
      <3>3. QED
        BY <2>1, <2>4, <3>1, <3>2
    <2>6. CASE results' = results
      BY <2>4, <2>6
    <2>7. QED
      BY <1>4, <2>1, <2>5, <2>6
  <1>7. FirstFits'
    <2> SUFFICES ASSUME Len(mail) = Len(search.mail)
                 PROVE  /\ mail = search.mail /\ IsInjective(results')
                        /\ \A k \in 1..Len(results') : \E i \in 1..r : results'[k] = list[i].id
      BY <1>1, <1>2, <1>4 DEF FirstFits, IsInjective
    <2>1. /\ mail = search.mail /\ IsInjective(results)
          /\ \A k \in 1..l : \E i \in 1..s : results[k] = list[i].id
      BY <1>4, <1>6 DEF OrderInv, FirstFits
    <2>2. \A k \in 1..Len(results') : \E i \in 1..r : results'[k] = list[i].id
      <3>1. TAKE k \in 1..Len(results')
      <3>2. 1..s \subseteq 1..r /\ s + 1 \in 1..r
        BY <1>4
      <3>3. CASE k \in 1..l /\ results'[k] = results[k]
        BY <2>1, <3>2, <3>3
      <3>4. CASE k = l + 1 /\ results'[k] = m.id
        BY <1>4, <3>2, <3>4
      <3>5. QED
        BY <1>6, <3>3, <3>4
    <2>3. IsInjective(results')
      <3>1. \A i \in 1..s : list[i].id # m.id
        <4>1. InMailOrder(list)
          <5>1. InMailOrder(mail)
            BY DEF OrderInv, OrderFits
          <5>2. mail \in Seq(ToSet(mail))
            BY MailIs DEF SearchInv
          <5>3. QED
            BY <1>4, <5>1, <5>2, ListingInOrder
        <4>2. PICK p \in 1..Len(list) : p = s + 1 /\ m = list[p]
          BY <1>4
        <4>3. \A i \in 1..s : i < p /\ i \in 1..Len(list)
          BY <1>4, <4>2
        <4>4. QED
          BY <4>1, <4>2, <4>3 DEF InMailOrder
      <3>2. \A k \in 1..l : results[k] # m.id
        BY <2>1, <3>1
      <3>3. \A j, k \in 1..l : results[j] = results[k] => j = k
        BY <1>6, <2>1 DEF IsInjective
      <3>4. CASE results' = results
        BY <2>1, <3>4
      <3>5. CASE /\ DOMAIN results' = 1..l + 1
                 /\ \A k \in 1..l : results'[k] = results[k]
                 /\ results'[l + 1] = m.id
        <4>1. ASSUME NEW j \in 1..l + 1, NEW k \in 1..l + 1, results'[j] = results'[k]
              PROVE  j = k
          <5>1. j \in 1..l \/ j = l + 1
            OBVIOUS
          <5>2. k \in 1..l \/ k = l + 1
            OBVIOUS
          <5>3. QED
            BY <3>2, <3>3, <3>5, <4>1, <5>1, <5>2
        <4>2. QED
          BY <3>5, <4>1 DEF IsInjective
      <3>6. QED
        BY <1>6, <3>4, <3>5
    <2>4. QED
      BY <2>1, <2>2, <2>3
  <1>8. OrderFits'
    <2> SUFFICES ASSUME Len(mail) <= Len(search.mail) + 1
                 PROVE  /\ InMailOrder(mail)
                        /\ \A j, k \in 1..Len(results') : j < k =>
                              MayPrecede(Message(results'[j]), Message(results'[k]))
                        /\ \A k \in 1..Len(results'), i \in r + 1..Len(list) :
                              MayPrecede(Message(results'[k]), list[i])
      <3>1. \A k : Message(results[k])' = Message(results'[k])
        BY <1>1 DEF Message, ToSet
      <3>2. QED
        BY <1>1, <1>2, <1>4, <3>1 DEF OrderFits
    <2>1. /\ InMailOrder(mail)
          /\ \A j, k \in 1..l : j < k => MayPrecede(Message(results[j]), Message(results[k]))
          /\ \A k \in 1..l, i \in s + 1..Len(list) : MayPrecede(Message(results[k]), list[i])
      BY <1>4, <1>6 DEF OrderInv, OrderFits
    <2>2. InMailOrder(list)
      <3>1. mail \in Seq(ToSet(mail))
        BY MailIs DEF SearchInv
      <3>2. QED
        BY <1>4, <2>1, <3>1, ListingInOrder
    <2>3. Message(m.id) = m
      BY <1>4, MessageIs DEF SearchInv
    <2>4. \A i \in r + 1..Len(list) : MayPrecede(m, list[i])
      <3>1. TAKE i \in r + 1..Len(list)
      <3>2. i \in 1..Len(list) /\ s + 1 < i
        <4>1. r \in Nat /\ r >= s + 1 /\ Len(list) \in Nat
          BY <1>4
        <4>2. s \in Nat
          BY <1>4
        <4>3. QED
          BY <4>1, <4>2
      <3>3. QED
        BY <1>4, <2>2, <3>2 DEF InMailOrder
    <2>5. \A k \in 1..l, i \in r + 1..Len(list) : MayPrecede(Message(results[k]), list[i])
      <3>1. r + 1..Len(list) \subseteq s + 1..Len(list)
        BY <1>4
      <3>2. QED
        BY <2>1, <3>1
    <2>6. \A k \in 1..l : MayPrecede(Message(results[k]), m)
      <3>1. s + 1 \in s + 1..Len(list)
        BY <1>4
      <3>2. QED
        BY <1>4, <2>1, <3>1
    <2>7. CASE results' = results
      BY <1>6, <2>1, <2>5, <2>7
    <2>8. CASE /\ Len(results') = l + 1
               /\ \A k \in 1..l : results'[k] = results[k]
               /\ results'[l + 1] = m.id
      <3>1. ASSUME NEW j \in 1..l + 1, NEW k \in 1..l + 1, j < k
            PROVE  MayPrecede(Message(results'[j]), Message(results'[k]))
        <4>1. j \in 1..l /\ (k \in 1..l \/ k = l + 1)
          BY <3>1
        <4>2. QED
          BY <2>1, <2>3, <2>6, <2>8, <3>1, <4>1
      <3>2. ASSUME NEW k \in 1..l + 1, NEW i \in r + 1..Len(list)
            PROVE  MayPrecede(Message(results'[k]), list[i])
        <4>1. k \in 1..l \/ k = l + 1
          OBVIOUS
        <4>2. QED
          BY <2>3, <2>4, <2>5, <2>8, <4>1
      <3>3. QED
        BY <2>1, <2>8, <3>1, <3>2
    <2>9. QED
      BY <1>6, <2>7, <2>8
  <1>9. Len(search.mail)' <= Len(mail)'
    BY <1>1 DEF OrderInv
  <1>10. QED
    BY <1>5, <1>7, <1>8, <1>9 DEF OrderInv

\* What arrives is put in front of the mailbox, and of the listing if it is listed;
\* the cursor stays or is shifted with the rows.
LEMMA ArrivalShifts ==
    ASSUME SearchInv, PageFits, MailArrives
    PROVE  \E m, list, new, l, n, c, d :
              /\ m \in Arrivals
              /\ Len(mail') = Len(mail) + 1 /\ mail'[1] = m
              /\ \A i \in 2..Len(mail) + 1 : mail'[i] = mail[i - 1]
              /\ list \in Seq(ToSet(mail)) /\ list = Listing /\ l \in Nat /\ l = Len(list)
              /\ new = Listing' /\ n \in Nat /\ n = Len(new) /\ n >= l
              /\ \/ ~Lists(m) /\ new = list
                 \/ /\ Lists(m) /\ n = l + 1 /\ new[1] = m
                    /\ \A i \in 2..l + 1 : new[i] = list[i - 1]
              /\ c \in Nat /\ c = cursor /\ c = Seen /\ c <= l
              /\ d \in Nat /\ d = cursor' /\ d = Seen' /\ d <= n /\ d >= c
              /\ d \in {c, c + 1} /\ (d = c + 1 => Lists(m))
  <1>1. /\ pc = "next" /\ page = <<>>
        /\ UNCHANGED <<search, honoured, page, results>>
    BY DEF MailArrives, SearchInv, RowsFit
  <1>2. PICK m \in Arrivals :
           /\ mail' = <<m>> \o mail
           /\ cursor' \in {cursor} \cup (IF Lists(m) THEN {cursor + 1} ELSE {})
    BY DEF MailArrives
  <1>3. /\ mail \in Seq(ToSet(mail)) /\ Len(mail) \in Nat /\ search \in Searches
        /\ cursor \in Nat /\ Len(page) = 0
    <2>1. Len(page) = 0
      BY <1>1
    <2>2. QED
      BY <2>1, MailIs DEF SearchInv, MailFits
  <1>4. PICK list \in Seq(ToSet(mail)), l \in Nat : list = Listing /\ l = Len(list)
    BY <1>3, ListingIs
  <1>5. PICK c \in Nat : c = cursor /\ c = Seen /\ c <= l
    BY <1>3, <1>4 DEF Seen, PageFits
  <1>6. PICK B : B = ToSet(mail) \cup {m} /\ mail \in Seq(B) /\ list \in Seq(B)
           /\ <<m>> \in Seq(B) /\ Len(<<m>>) = 1 /\ <<m>>[1] = m
    <2>1. PICK B : B = ToSet(mail) \cup {m}
      OBVIOUS
    <2>2. m \in B /\ ToSet(mail) \subseteq B
      BY <2>1
    <2>3. mail \in Seq(B) /\ list \in Seq(B)
      BY <1>3, <2>2, SeqMonotonic
    <2>4. QED
      BY <2>1, <2>2, <2>3
  <1>7. ASSUME NEW s \in Seq(B)
        PROVE  /\ Len(<<m>> \o s) = Len(s) + 1 /\ (<<m>> \o s)[1] = m
               /\ \A i \in 2..Len(s) + 1 : (<<m>> \o s)[i] = s[i - 1]
    <2>1. PICK one \in Seq(B) : one = <<m>> /\ Len(one) = 1 /\ one[1] = m
      BY <1>6
    <2>2. /\ Len(one \o s) = Len(one) + Len(s)
          /\ \A i \in 1..Len(one) + Len(s) : (one \o s)[i] =
                IF i <= Len(one) THEN one[i] ELSE s[i - Len(one)]
      BY ConcatProperties
    <2>3. Len(s) \in Nat
      OBVIOUS
    <2>4. QED
      BY <2>1, <2>2, <2>3
  <1>8. /\ Len(mail') = Len(mail) + 1 /\ mail'[1] = m
        /\ \A i \in 2..Len(mail) + 1 : mail'[i] = mail[i - 1]
    BY <1>2, <1>6, <1>7
  <1>9. PICK new : new = Listing' /\ new = (IF Lists(m) THEN <<m>> ELSE <<>>) \o list
    BY <1>1, <1>2, <1>3, <1>4, ListingGrows
  <1>10. PICK n \in Nat : new = Listing' /\ n = Len(new) /\ n >= l
            /\ \/ ~Lists(m) /\ new = list
               \/ /\ Lists(m) /\ n = l + 1 /\ new[1] = m
                  /\ \A i \in 2..l + 1 : new[i] = list[i - 1]
    <2>1. CASE Lists(m)
      <3>1. new = <<m>> \o list
        BY <1>9, <2>1
      <3>2. Len(new) = l + 1 /\ new[1] = m /\ \A i \in 2..l + 1 : new[i] = list[i - 1]
        BY <1>4, <1>6, <1>7, <3>1
      <3>3. PICK n \in Nat : n = l + 1 /\ n >= l
        OBVIOUS
      <3>4. QED
        BY <1>9, <2>1, <3>2, <3>3
    <2>2. CASE ~Lists(m)
      <3>1. <<>> \o list = list
        BY ConcatEmptySeq
      <3>2. new = list /\ l = Len(new) /\ l >= l
        BY <1>4, <1>9, <2>2, <3>1
      <3>3. QED
        BY <1>9, <2>2, <3>2
    <2>3. QED
      BY <2>1, <2>2
  <1>11. PICK d \in Nat : d = cursor' /\ d = Seen' /\ d <= n /\ d >= c
            /\ d \in {c, c + 1} /\ (d = c + 1 => Lists(m))
    <2>1. cursor' \in {c, c + 1} /\ (cursor' = c + 1 => Lists(m))
      BY <1>2, <1>5
    <2>2. PICK d \in Nat : d = cursor' /\ d \in {c, c + 1} /\ (d = c + 1 => Lists(m))
      BY <2>1
    <2>3. Seen' = cursor' - Len(page)
      BY <1>1 DEF Seen
    <2>4. Seen' = d
      <3>1. PICK e, z : e = Seen' /\ z = Len(page) /\ e = d - z
        BY <2>2, <2>3
      <3>2. z = 0
        BY <1>3, <3>1
      <3>3. QED
        BY <3>1, <3>2
    <2>5. d <= n
      <3>1. Lists(m) => n = l + 1
        BY <1>10
      <3>2. QED
        BY <1>5, <1>10, <2>2, <3>1
    <2>6. d >= c
      BY <2>2
    <2>7. QED
      BY <2>2, <2>4, <2>5, <2>6
  <1>12. QED
    BY <1>2, <1>4, <1>5, <1>8, <1>10, <1>11, SMTT(60)

\* What arrives is put in front of everything, and what has been found is not
\* older than what the cursor is shifted to.
LEMMA ArrivalKeepsOrder ==
    ASSUME SearchInv, OrderInv, MailArrives
    PROVE  OrderInv'
  <1>1. /\ pc = "next" /\ page = <<>>
        /\ UNCHANGED <<search, honoured, page, results>>
    BY DEF MailArrives, SearchInv, RowsFit
  <1>2. SearchInv'
    BY ArrivalKeeps
  <1>3. /\ mail \in Seq(ToSet(mail)) /\ Len(mail) \in Nat /\ search \in Searches
        /\ cursor \in Nat /\ Len(page) = 0
    <2>1. Len(page) = 0
      BY <1>1
    <2>2. QED
      BY <2>1, MailIs DEF SearchInv, MailFits
  <1>4. PageFits
    BY DEF OrderInv
  <1>5. PICK m, list, new, l, n, c, d :
              /\ m \in Arrivals
              /\ Len(mail') = Len(mail) + 1 /\ mail'[1] = m
              /\ \A i \in 2..Len(mail) + 1 : mail'[i] = mail[i - 1]
              /\ list \in Seq(ToSet(mail)) /\ list = Listing /\ l \in Nat /\ l = Len(list)
              /\ new = Listing' /\ n \in Nat /\ n = Len(new) /\ n >= l
              /\ \/ ~Lists(m) /\ new = list
                 \/ /\ Lists(m) /\ n = l + 1 /\ new[1] = m
                    /\ \A i \in 2..l + 1 : new[i] = list[i - 1]
              /\ c \in Nat /\ c = cursor /\ c = Seen /\ c <= l
              /\ d \in Nat /\ d = cursor' /\ d = Seen' /\ d <= n /\ d >= c
              /\ d \in {c, c + 1} /\ (d = c + 1 => Lists(m))
    BY <1>4, ArrivalShifts
  <1>6. PageFits'
    BY <1>1, <1>3, <1>5 DEF PageFits
  <1>7. PICK a \in Nat, b \in Nat : a = Len(mail) /\ b = Len(search.mail) /\ b <= a
    <2>1. Len(search.mail) \in Nat
      BY <1>3, SearchAssumption
    <2>2. QED
      BY <1>3, <2>1 DEF OrderInv
  <1>8. Len(mail') = a + 1 /\ Len(search.mail)' = b
    BY <1>1, <1>5, <1>7
  <1>9. FirstFits'
    BY <1>1, <1>7, <1>8 DEF FirstFits
  <1>10. OrderFits'
    <2> SUFFICES ASSUME a = b PROVE OrderFits'
      BY <1>7, <1>8 DEF OrderFits
    <2>1. /\ mail = search.mail
          /\ \A k \in 1..Len(results) : \E i \in 1..c : results[k] = list[i].id
      BY <1>5, <1>7 DEF OrderInv, FirstFits
    <2>2. /\ InMailOrder(mail)
          /\ \A j, k \in 1..Len(results) : j < k =>
                MayPrecede(Message(results[j]), Message(results[k]))
      <3>1. Len(mail) <= Len(search.mail) + 1
        <4>1. Len(mail) = b /\ Len(search.mail) = b
          BY <1>7
        <4>2. b <= b + 1
          OBVIOUS
        <4>3. QED
          BY <4>1, <4>2
      <3>2. OrderFits
        BY DEF OrderInv
      <3>3. QED
        BY <3>1, <3>2 DEF OrderFits
    <2>3. \A x \in ToSet(mail) : m.id # x.id /\ MayPrecede(m, x)
      BY <1>3, <1>5, <2>1, MailAssumption
    <2>4. InMailOrder(mail')
      <3>1. ASSUME NEW j \in 1..a + 1, NEW k \in 1..a + 1, j < k
            PROVE  mail'[j].id # mail'[k].id /\ MayPrecede(mail'[j], mail'[k])
        <4>1. k \in 2..a + 1 /\ k - 1 \in 1..a
          BY <3>1
        <4>2. mail'[k] = mail[k - 1] /\ mail[k - 1] \in ToSet(mail)
          <5>1. \A i \in 1..a : mail[i] \in ToSet(mail)
            BY <1>3, <1>7, ToSetIs
          <5>2. QED
            BY <1>5, <1>7, <4>1, <5>1
        <4>3. CASE j = 1
          BY <1>5, <2>3, <4>2, <4>3
        <4>4. CASE j # 1
          <5>1. j \in 2..a + 1 /\ j - 1 \in 1..a /\ j - 1 < k - 1
            BY <3>1, <4>4
          <5>2. mail'[j] = mail[j - 1]
            BY <1>5, <1>7, <5>1
          <5>3. mail[j - 1].id # mail[k - 1].id /\ MayPrecede(mail[j - 1], mail[k - 1])
            BY <1>7, <2>2, <4>1, <5>1 DEF InMailOrder
          <5>4. QED
            BY <4>2, <5>2, <5>3
        <4>5. QED
          BY <4>3, <4>4
      <3>2. QED
        BY <1>8, <3>1 DEF InMailOrder
    <2>5. \A x \in ToSet(mail) : x \in ToSet(mail') /\ Message(x.id) = x
      <3>1. \A i \in 1..a : mail[i] \in ToSet(mail')
        <4>1. TAKE i \in 1..a
        <4>2. i + 1 \in 2..a + 1 /\ (i + 1) - 1 = i
          OBVIOUS
        <4>3. mail'[i + 1] = mail[i]
          BY <1>5, <1>7, <4>2
        <4>4. i + 1 \in DOMAIN mail'
          <5>1. mail' \in Seq(ToSet(search.mail) \cup Arrivals)
            BY <1>1, <1>2 DEF SearchInv, MailFits
          <5>2. DOMAIN mail' = 1..a + 1
            BY <1>8, <5>1
          <5>3. QED
            BY <4>2, <5>2
        <4>5. QED
          BY <4>3, <4>4 DEF ToSet
      <3>2. \A x \in ToSet(mail) : \E i \in 1..a : x = mail[i]
        <4>1. DOMAIN mail = 1..a
          BY <1>3, <1>7
        <4>2. QED
          BY <4>1 DEF ToSet
      <3>3. \A x \in ToSet(mail) : Message(x.id) = x
        BY MessageIs DEF SearchInv
      <3>4. QED
        BY <3>1, <3>2, <3>3
    <2>6. \A x \in ToSet(mail) : Message(x.id)' = x
      <3>1. \A x \in ToSet(mail)' : Message(x.id)' = x
        BY <1>2, MessageIsNext DEF SearchInv
      <3>2. ToSet(mail)' = ToSet(mail')
        BY DEF ToSet
      <3>3. QED
        BY <2>5, <3>1, <3>2
    <2>7. \A k \in 1..Len(results) : \E i \in 1..c :
             Message(results[k]) = list[i] /\ Message(results[k])' = list[i] /\ list[i] \in ToSet(mail)
      <3>1. TAKE k \in 1..Len(results)
      <3>2. PICK i \in 1..c : results[k] = list[i].id
        BY <2>1
      <3>3. i \in 1..Len(list)
        BY <1>5
      <3>4. list[i] \in ToSet(mail)
        BY <1>5, <3>3
      <3>5. PICK x \in ToSet(mail) : x = list[i] /\ results[k] = x.id
        BY <3>2, <3>4
      <3>6. Message(results[k]) = x
        BY <2>5, <3>5
      <3>7. Message(results[k])' = x
        <4>1. Message(x.id)' = x
          BY <2>6
        <4>2. results'[k] = x.id
          BY <1>1, <3>5
        <4>3. Message(results[k])' = Message(x.id)'
          BY <4>2 DEF Message
        <4>4. QED
          BY <4>1, <4>3
      <3>8. QED
        BY <3>5, <3>6, <3>7
    <2>8. \A x, y : MayPrecede(x, y)' = MayPrecede(x, y)
      BY DEF MayPrecede, Day
    <2>9. \A k \in 1..Len(results), i \in d + 1..n :
             MayPrecede(Message(results[k])', new[i])
      <3>1. TAKE k \in 1..Len(results), i \in d + 1..n
      <3>2. PICK j \in 1..c : Message(results[k])' = list[j]
        BY <2>7
      <3>3. InMailOrder(list)
        BY <1>3, <1>5, <2>2, ListingInOrder
      <3>4. CASE new = list
        <4>1. j \in 1..l /\ i \in 1..l /\ j < i
          <5>1. /\ c \in Nat /\ d \in Nat /\ l \in Nat /\ n \in Nat
                /\ c <= l /\ d >= c
            BY <1>5
          <5>2. n = l
            BY <1>5, <3>4
          <5>3. QED
            BY <5>1, <5>2
        <4>2. MayPrecede(list[j], list[i])
          BY <1>5, <3>3, <4>1 DEF InMailOrder
        <4>3. QED
          BY <3>2, <3>4, <4>2
      <3>5. CASE /\ n = l + 1 /\ \A k1 \in 2..l + 1 : new[k1] = list[k1 - 1]
        <4>1. i \in 2..l + 1 /\ i - 1 \in 1..l /\ j \in 1..l /\ j <= i - 1
          <5>1. /\ c \in Nat /\ d \in Nat /\ l \in Nat /\ n \in Nat
                /\ c <= l /\ d >= c
            BY <1>5
          <5>2. QED
            BY <3>5, <5>1
        <4>2. new[i] = list[i - 1]
          BY <3>5, <4>1
        <4>3. CASE j = i - 1
          BY <3>2, <4>2, <4>3, PrecedesItself
        <4>4. CASE j # i - 1
          <5>1. j < i - 1
            BY <4>1, <4>4
          <5>2. MayPrecede(list[j], list[i - 1])
            BY <1>5, <3>3, <4>1, <5>1 DEF InMailOrder
          <5>3. QED
            BY <3>2, <4>2, <5>2
        <4>5. QED
          BY <4>3, <4>4
      <3>6. QED
        BY <1>5, <3>4, <3>5
    <2>10. \A j, k \in 1..Len(results) : j < k =>
             MayPrecede(Message(results[j])', Message(results[k])')
      <3>1. \A k \in 1..Len(results) : Message(results[k])' = Message(results[k])
        BY <2>7
      <3>2. QED
        BY <2>2, <3>1
    <2>11. QED
      BY <1>1, <1>5, <2>4, <2>8, <2>9, <2>10 DEF OrderFits, InMailOrder
  <1>11. Len(search.mail)' <= Len(mail)'
    BY <1>7, <1>8
  <1>12. QED
    BY <1>6, <1>9, <1>10, <1>11 DEF OrderInv

\* Every step keeps the order.
LEMMA NextKeepsOrder ==
    ASSUME SearchInv, OrderInv, [Next]_vars
    PROVE  OrderInv'
  <1>1. CASE GetFirstPage \/ GetNextPage
    <2>1. pc # "scan"
      BY <1>1 DEF GetFirstPage, GetNextPage
    <2>2. page = <<>>
      BY <2>1 DEF SearchInv, RowsFit
    <2>3. DeliverPage /\ UNCHANGED <<search, honoured, mail, results>>
      BY <1>1 DEF GetFirstPage, GetNextPage
    <2>4. QED
      BY <2>2, <2>3, DeliveryKeepsOrder
  <1>2. CASE ScanRow
    BY <1>2, ScanKeepsOrder
  <1>3. CASE MailArrives
    BY <1>3, ArrivalKeepsOrder
  <1>4. CASE ParseScopedQuery \/ EndPage \/ SearchFails \/ BuildMatcher \/ UNCHANGED vars
    <2>1. UNCHANGED <<search, honoured, mail, cursor, page, results>>
      BY <1>4 DEF ParseScopedQuery, EndPage, SearchFails, BuildMatcher, vars, searchVars
    <2>2. QED
      BY <2>1, OrderStays
  <1>5. QED
    BY <1>1, <1>2, <1>3, <1>4 DEF Next, SearchStep

\* Results are in the order of the mailbox, newest first (api.cpp, SearchMessages:
\* $orderby), and no message is returned twice, as long as none arrives meanwhile;
\* with one the order remains.
THEOREM SearchKeepsOrder == Spec => []ResultsAreInOrder
  <1>1. Init => SearchInv /\ OrderInv
    BY InitHoldsSearchInv, InitHoldsOrder
  <1>2. SearchInv /\ OrderInv /\ [Next]_vars => SearchInv' /\ OrderInv'
    BY NextKeeps, NextKeepsOrder
  <1>3. SearchInv /\ OrderInv => ResultsAreInOrder
    <2> SUFFICES ASSUME SearchInv, OrderInv PROVE ResultsAreInOrder
      OBVIOUS
    <2>1. DOMAIN results = 1..Len(results)
      BY DEF SearchInv, ResultsFit
    <2>2. QED
      BY <2>1 DEF OrderInv, FirstFits, OrderFits, ResultsAreInOrder, MayPrecede
  <1>4. QED
    BY <1>1, <1>2, <1>3, PTL DEF Spec

-----------------------------------------------------------------------------
(* What is found                                                           *)

\* The matcher finds the texts of the query that occur in what is seen of a text.
LEMMA FoundIs ==
    ASSUME SearchInv, pc = "scan", queue = <<>>, NEW C, NEW text \in Seq(C)
    PROVE  Found(NormalizeSearchText(text)) = {p \in Patterns : Occurs(p, Words(text))}
  <1>1. PICK t : t = NormalizeSearchText(text)
    OBVIOUS
  <1>2. PICK P : P = Patterns
    OBVIOUS
  <1>3. PatternsFit(Symbols, P) /\ MatcherInv(P)
    BY <1>2, PatternsAreFit DEF SearchInv, MailFits, MatcherFits
  <1>4. PICK D : t \in Seq(D)
    BY <1>1, NormalizedIs
  <1>5. PICK A : Symbols \subseteq A /\ D \subseteq A
    <2>1. Symbols \subseteq Symbols \cup D /\ D \subseteq Symbols \cup D
      OBVIOUS
    <2>2. QED
      BY <2>1
  <1>6. PatternsFit(A, P)
    BY <1>3, <1>5, SeqMonotonic DEF PatternsFit
  <1>7. t \in Seq(A)
    BY <1>4, <1>5, SeqMonotonic
  <1>8. Found(t) = {p \in P : Occurs(p, t)}
    BY <1>3, <1>6, <1>7, OnePassFindsAll
  <1>9. t = Words(text)
    BY <1>1, NormalizedIsWords
  <1>10. QED
    BY <1>1, <1>2, <1>8, <1>9

\* The normalized text of a token has the words of its text.
LEMMA TokenTextIs ==
    ASSUME search \in Searches, NEW k \in DOMAIN query.tokens
    PROVE  /\ query.tokens[k].text \in Seq(DOMAIN Lower)
           /\ NormalizeSearchText(query.tokens[k].text) = Words(query.tokens[k].text)
  <1>1. \A u \in ToSet(query.tokens) : u.text \in Seq(DOMAIN Lower)
    BY SearchAssumption DEF query
  <1>2. query.tokens[k] \in ToSet(query.tokens)
    BY DEF ToSet
  <1>3. query.tokens[k].text \in Seq(DOMAIN Lower)
    BY <1>1, <1>2
  <1>4. QED
    BY <1>3, NormalizedIsWords

\* A text of the query that the matcher finds in a text occurs there, as seen.
LEMMA FoundOccurs ==
    ASSUME SearchInv, pc = "scan", queue = <<>>, NEW C, NEW text \in Seq(C),
           NEW scope, Values(query, scope) \subseteq Found(NormalizeSearchText(text)),
           NEW k \in DOMAIN query.tokens, query.tokens[k].scope = scope
    PROVE  Occurs(Words(query.tokens[k].text), Words(text))
  <1>1. PICK v : v = NormalizeSearchText(query.tokens[k].text)
    OBVIOUS
  <1>2. v \in Values(query, scope)
    BY <1>1 DEF Values
  <1>3. Occurs(v, Words(text))
    BY <1>2, FoundIs
  <1>4. v = Words(query.tokens[k].text)
    BY <1>1, TokenTextIs DEF SearchInv, MailFits
  <1>5. QED
    BY <1>3, <1>4

\* The texts of a scope that occur in a text, as seen, are found there.
LEMMA OccursFound ==
    ASSUME SearchInv, pc = "scan", queue = <<>>, NEW C, NEW text \in Seq(C),
           NEW scope \in TextScopes,
           \A k \in DOMAIN query.tokens : query.tokens[k].scope = scope =>
               /\ Words(query.tokens[k].text) # <<>>
               /\ Occurs(Words(query.tokens[k].text), Words(text))
    PROVE  Values(query, scope) \subseteq Found(NormalizeSearchText(text))
  <1> SUFFICES ASSUME NEW v \in Values(query, scope)
               PROVE  v \in Found(NormalizeSearchText(text))
    OBVIOUS
  <1>1. PICK k \in DOMAIN query.tokens :
           query.tokens[k].scope = scope /\ v = NormalizeSearchText(query.tokens[k].text)
    BY DEF Values
  <1>2. v = Words(query.tokens[k].text)
    BY <1>1, TokenTextIs DEF SearchInv, MailFits
  <1>3. v # <<>> /\ Occurs(v, Words(text))
    BY <1>1, <1>2
  <1>4. v \in Patterns
    <2>1. v \in criteria.subject \cup criteria.sender \cup criteria.body
      BY DEF TextScopes, criteria, SearchCriteria
    <2>2. QED
      BY <1>3, <2>1 DEF Patterns
  <1>5. QED
    BY <1>3, <1>4, FoundIs

\* The body that is searched has the words a reader sees.
LEMMA BodyShows ==
    ASSUME NEW m, \A text \in {m.subject, m.sender, m.body, m.preview} : text \in Seq(ToSet(text))
    PROVE  /\ \E C : ExtractBodyText(m) \in Seq(C)
           /\ Words(ExtractBodyText(m)) =
                 CASE m.type = "html" -> Words(Shown(m.body))
                   [] m.type = "text" -> Words(m.body)
                   [] OTHER           -> Words(m.preview)
  <1>1. m.body \in Seq(ToSet(m.body)) /\ m.preview \in Seq(ToSet(m.preview))
    OBVIOUS
  <1>2. CASE m.type = "html"
    <2>1. ExtractBodyText(m) = StripHtml(m.body)
      BY <1>2 DEF ExtractBodyText
    <2>2. /\ Words(StripHtml(m.body)) = Words(Shown(m.body))
          /\ \E C : StripHtml(m.body) \in Seq(C)
      BY <1>1, StripHtmlShows
    <2>3. QED
      BY <1>2, <2>1, <2>2
  <1>3. CASE m.type = "text"
    BY <1>1, <1>3 DEF ExtractBodyText
  <1>4. CASE m.type # "html" /\ m.type # "text"
    BY <1>1, <1>4 DEF ExtractBodyText
  <1>5. QED
    BY <1>2, <1>3, <1>4

\* A date that can be parsed is the date, and a day of the calendar has its place.
LEMMA DateIs ==
    ASSUME NEW date, ParseIsoDate(date) \in {NoDate} \cup ToSet(Calendar),
           ParseIsoDate(date) # NoDate
    PROVE  /\ ParseIsoDate(date) = date
           /\ Day(date) \in 1..Len(Calendar) /\ Calendar[Day(date)] = date
  <1>1. ParseIsoDate(date) = date
    BY DEF ParseIsoDate, MakeDate
  <1>2. date # NoDate /\ date \in ToSet(Calendar)
    BY <1>1
  <1> DEFINE days == {k \in DOMAIN Calendar : Calendar[k] = date}
  <1>3. DOMAIN Calendar = 1..Len(Calendar)
    BY SearchAssumption
  <1>4. days # {}
    BY <1>2 DEF ToSet
  <1>5. Day(date) = CHOOSE k \in days : TRUE
    BY <1>2, <1>4 DEF Day
  <1>6. Day(date) \in days
    BY <1>4, <1>5
  <1>7. QED
    BY <1>1, <1>3, <1>6

\* The date of an accepted query's token is its criterion.
LEMMA DateOfIs ==
    ASSUME IsScopedQuery(query), NEW k \in DOMAIN query.tokens,
           NEW scope, scope \notin TextScopes, query.tokens[k].scope = scope
    PROVE  /\ ParseIsoDate(query.tokens[k].date) # NoDate
           /\ DateOf(query, scope) = ParseIsoDate(query.tokens[k].date)
  <1>1. PICK q : q = query
    OBVIOUS
  <1>2. q.tokens # <<>>
    BY <1>1
  <1>3. /\ ParseIsoDate(q.tokens[k].date) # NoDate
        /\ Dates(q, scope) = {k}
    BY <1>1, <1>2 DEF IsScopedQuery, IsEmptyQuery
  <1>4. DateOf(q, scope) = ParseIsoDate(q.tokens[CHOOSE j \in {k} : TRUE].date)
    BY <1>3 DEF DateOf
  <1>5. (CHOOSE j \in {k} : TRUE) = k
    OBVIOUS
  <1>6. QED
    BY <1>1, <1>3, <1>4, <1>5

\* What is in the criteria's range is in the range that the tokens ask for.
LEMMA DatesSatisfy ==
    ASSUME search \in Searches, IsScopedQuery(query), NEW m \in Messages,
           InDates(ParseIsoDate(m.date), criteria), NEW k \in DOMAIN query.tokens
    PROVE  /\ query.tokens[k].scope = "from" => Day(m.date) >= Day(query.tokens[k].date)
           /\ query.tokens[k].scope = "to" => Day(m.date) \in 1..Day(query.tokens[k].date)
  <1>1. PICK date : date = query.tokens[k].date
    OBVIOUS
  <1>2. PICK day : day = m.date
    OBVIOUS
  <1>3. ParseIsoDate(date) \in {NoDate} \cup ToSet(Calendar)
    <2>1. \A t \in ToSet(query.tokens) : ParseIsoDate(t.date) \in {NoDate} \cup ToSet(Calendar)
      BY TextAssumption DEF query
    <2>2. query.tokens[k] \in ToSet(query.tokens)
      BY DEF ToSet
    <2>3. QED
      BY <1>1, <2>1, <2>2
  <1>4. ParseIsoDate(day) \in {NoDate} \cup ToSet(Calendar)
    BY <1>2, SearchAssumption
  <1>5. \A i, j \in 1..Len(Calendar) : i < j => Before(Calendar[i], Calendar[j])
    <2>1. \A i, j \in DOMAIN Calendar : i < j => Before(Calendar[i], Calendar[j])
      BY TextAssumption, Zenon
    <2>2. DOMAIN Calendar = 1..Len(Calendar)
      BY SearchAssumption
    <2>3. QED
      BY <2>1, <2>2
  <1>6. Len(Calendar) \in Nat
    BY SearchAssumption
  <1>7. criteria.from = DateOf(query, "from") /\ criteria.to = DateOf(query, "to")
    BY DEF criteria, SearchCriteria
  <1>8. ASSUME query.tokens[k].scope = "from" PROVE Day(day) >= Day(date)
    <2>1. ParseIsoDate(date) # NoDate /\ criteria.from = ParseIsoDate(date)
      BY <1>1, <1>7, <1>8, DateOfIs DEF TextScopes
    <2>2. /\ ParseIsoDate(date) = date
          /\ Day(date) \in 1..Len(Calendar) /\ Calendar[Day(date)] = date
      BY <1>3, <2>1, DateIs
    <2>3. ParseIsoDate(day) # NoDate /\ ~Before(ParseIsoDate(day), date)
      BY <1>2, <2>1, <2>2 DEF InDates
    <2>4. /\ ParseIsoDate(day) = day
          /\ Day(day) \in 1..Len(Calendar) /\ Calendar[Day(day)] = day
      BY <1>4, <2>3, DateIs
    <2>5. ~(Day(day) < Day(date))
      BY <1>5, <2>2, <2>3, <2>4
    <2>6. QED
      BY <1>6, <2>2, <2>4, <2>5
  <1>9. ASSUME query.tokens[k].scope = "to" PROVE Day(day) \in 1..Day(date)
    <2>1. ParseIsoDate(date) # NoDate /\ criteria.to = ParseIsoDate(date)
      BY <1>1, <1>7, <1>9, DateOfIs DEF TextScopes
    <2>2. /\ ParseIsoDate(date) = date
          /\ Day(date) \in 1..Len(Calendar) /\ Calendar[Day(date)] = date
      BY <1>3, <2>1, DateIs
    <2>3. ParseIsoDate(day) # NoDate /\ ~Before(date, ParseIsoDate(day))
      BY <1>2, <2>1, <2>2 DEF InDates
    <2>4. /\ ParseIsoDate(day) = day
          /\ Day(day) \in 1..Len(Calendar) /\ Calendar[Day(day)] = day
      BY <1>4, <2>3, DateIs
    <2>5. ~(Day(date) < Day(day))
      BY <1>5, <2>2, <2>3, <2>4
    <2>6. QED
      BY <1>6, <2>2, <2>4, <2>5
  <1>10. QED
    BY <1>1, <1>2, <1>8, <1>9

\* What matches the criteria is wanted.
LEMMA MatchIsWanted ==
    ASSUME SearchInv, pc = "scan", queue = <<>>, IsScopedQuery(query),
           NEW m \in Messages, m.object,
           IsEmptyQuery(query) \/ MessageMatchesCriteria(m)
    PROVE  Wanted(m)
  <1>1. CASE IsEmptyQuery(query)
    <2>1. DOMAIN query.tokens = {}
      BY <1>1 DEF IsEmptyQuery
    <2>2. QED
      BY <2>1 DEF Wanted
  <1>2. CASE MessageMatchesCriteria(m)
    <2>1. \A text \in {m.subject, m.sender, m.body, m.preview} : text \in Seq(ToSet(text))
      BY TextAssumption
    <2>2. search \in Searches
      BY DEF SearchInv, MailFits
    <2>3. /\ criteria.subject = Values(query, "subject")
          /\ criteria.sender = Values(query, "sender")
          /\ criteria.body = Values(query, "body")
      BY DEF criteria, SearchCriteria
    <2>4. SUFFICES ASSUME NEW k \in DOMAIN query.tokens PROVE Satisfies(m, query.tokens[k])
      BY DEF Wanted
    <2>5. PICK token : token = query.tokens[k]
      OBVIOUS
    <2>6. token.scope \in TextScopes \cup {"from", "to"}
      <3>1. \A t \in ToSet(query.tokens) : t.scope \in TextScopes \cup {"from", "to"}
        BY <2>2, TextAssumption DEF query
      <3>2. token \in ToSet(query.tokens)
        BY <2>5 DEF ToSet
      <3>3. QED
        BY <3>1, <3>2
    <2>7. CASE token.scope = "subject"
      <3>1. m.subject \in Seq(ToSet(m.subject))
        BY <2>1
      <3>2. Values(query, "subject") \subseteq Found(NormalizeSearchText(m.subject))
        BY <1>2, <2>3 DEF MessageMatchesCriteria
      <3>3. Occurs(Words(token.text), Words(m.subject))
        BY <2>5, <2>7, <3>1, <3>2, FoundOccurs
      <3>4. QED
        BY <2>5, <2>7, <3>3 DEF Satisfies
    <2>8. CASE token.scope = "sender"
      <3>1. m.sender \in Seq(ToSet(m.sender))
        BY <2>1
      <3>2. Values(query, "sender") \subseteq Found(NormalizeSearchText(m.sender))
        BY <1>2, <2>3 DEF MessageMatchesCriteria
      <3>3. Occurs(Words(token.text), Words(m.sender))
        BY <2>5, <2>8, <3>1, <3>2, FoundOccurs
      <3>4. QED
        BY <2>5, <2>8, <3>3 DEF Satisfies
    <2>9. CASE token.scope = "body"
      <3>1. PICK C : ExtractBodyText(m) \in Seq(C)
        BY <2>1, BodyShows
      <3>2. Values(query, "body") \subseteq Found(NormalizeSearchText(ExtractBodyText(m)))
        BY <1>2, <2>3 DEF MessageMatchesCriteria
      <3>3. Occurs(Words(token.text), Words(ExtractBodyText(m)))
        BY <2>5, <2>9, <3>1, <3>2, FoundOccurs
      <3>4. Words(ExtractBodyText(m)) =
                 CASE m.type = "html" -> Words(Shown(m.body))
                   [] m.type = "text" -> Words(m.body)
                   [] OTHER           -> Words(m.preview)
        BY <2>1, BodyShows
      <3>5. QED
        BY <2>5, <2>9, <3>3, <3>4 DEF Satisfies
    <2>10. CASE token.scope \in {"from", "to"}
      <3>1. InDates(ParseIsoDate(m.date), criteria)
        BY <1>2 DEF MessageMatchesCriteria
      <3>2. /\ token.scope = "from" => Day(m.date) >= Day(token.date)
            /\ token.scope = "to" => Day(m.date) \in 1..Day(token.date)
        BY <2>2, <2>5, <3>1, DatesSatisfy
      <3>3. QED
        BY <2>5, <2>10, <3>2 DEF Satisfies
    <2>11. QED
      BY <2>6, <2>7, <2>8, <2>9, <2>10 DEF TextScopes
  <1>3. QED
    BY <1>1, <1>2

\* A query is accepted before it is searched with, and each result is the id of a
\* message of the mailbox that is wanted.
WantedInv ==
    /\ pc \in {"first", "scan", "next"} => IsScopedQuery(query)
    /\ \A k \in 1..Len(results) : \E m \in ToSet(mail) : m.id = results[k] /\ Wanted(m)

\* What is wanted, and whether the query is accepted, depends on the query only.
LEMMA WantedStays ==
    ASSUME UNCHANGED search
    PROVE  /\ IsScopedQuery(query)' <=> IsScopedQuery(query)
           /\ \A m : Wanted(m)' <=> Wanted(m)
  <1>1. PICK q : q = query /\ q = query'
    BY DEF query
  <1>2. (IsScopedQuery(query)' <=> IsScopedQuery(q)) /\ (IsScopedQuery(query) <=> IsScopedQuery(q))
    BY <1>1
  <1>3. \A m : /\ Wanted(m) <=> m.object /\ \A k \in DOMAIN q.tokens : Satisfies(m, q.tokens[k])
               /\ Wanted(m)' <=> m.object /\ \A k \in DOMAIN q.tokens : Satisfies(m, q.tokens[k])
    BY <1>1 DEF Wanted
  <1>4. QED
    BY <1>2, <1>3

\* Mail that arrives leaves the mailbox what it had.
LEMMA MailStaysInBox ==
    ASSUME MailFits, MailArrives
    PROVE  ToSet(mail) \subseteq ToSet(mail')
  <1> DEFINE A == ToSet(search.mail) \cup Arrivals
  <1>1. PICK m \in Arrivals : mail' = <<m>> \o mail
    BY DEF MailArrives
  <1>2. mail \in Seq(A) /\ Len(mail) \in Nat
    BY MailIs DEF MailFits
  <1>3. <<m>> \in Seq(A) /\ Len(<<m>>) = 1
    <2>1. m \in A
      OBVIOUS
    <2> HIDE DEF A
    <2>2. QED
      BY <2>1
  <1>4. PICK one \in Seq(A) : one = <<m>> /\ Len(one) = 1
    BY <1>3
  <1> HIDE DEF A
  <1>5. /\ mail' \in Seq(A) /\ Len(mail') = 1 + Len(mail)
        /\ \A i \in 1..1 + Len(mail) : mail'[i] = IF i <= 1 THEN one[i] ELSE mail[i - 1]
    <2>1. /\ one \o mail \in Seq(A) /\ Len(one \o mail) = Len(one) + Len(mail)
          /\ \A i \in 1..Len(one) + Len(mail) : (one \o mail)[i] =
                IF i <= Len(one) THEN one[i] ELSE mail[i - Len(one)]
      BY <1>2, ConcatProperties
    <2>2. QED
      BY <1>1, <1>4, <2>1
  <1>6. ASSUME NEW i \in 1..Len(mail) PROVE mail[i] \in ToSet(mail')
    <2>1. i + 1 \in 1..1 + Len(mail) /\ ~(i + 1 <= 1) /\ (i + 1) - 1 = i
      BY <1>2
    <2>2. mail'[i + 1] = mail[i]
      BY <1>5, <2>1
    <2>3. \A j \in 1..Len(mail') : mail'[j] \in ToSet(mail')
      BY <1>5, ToSetIs
    <2>4. QED
      BY <1>5, <2>1, <2>2, <2>3
  <1>7. \A x \in ToSet(mail) : \E i \in 1..Len(mail) : x = mail[i]
    <2>1. DOMAIN mail = 1..Len(mail)
      BY <1>2
    <2>2. QED
      BY <2>1 DEF ToSet
  <1>8. QED
    BY <1>6, <1>7

\* Each row that is taken for a result is wanted.
LEMMA ScanFindsWanted ==
    ASSUME SearchInv, WantedInv, ScanRow
    PROVE  WantedInv'
  <1>1. /\ pc = "scan" /\ page # <<>> /\ queue = <<>> /\ UNCHANGED <<search, mail, pc>>
    BY DEF ScanRow
  <1>2. PICK m \in ToSet(mail) : m = Head(page)
    BY <1>1, HeadTailProperties DEF SearchInv, RowsFit
  <1>3. m \in Messages
    <2>1. ToSet(mail) \subseteq ToSet(search.mail) \cup Arrivals /\ search \in Searches
      BY MailIs DEF SearchInv, MailFits
    <2>2. QED
      BY <2>1 DEF Messages
  <1>4. \/ results' = results
        \/ /\ m.object /\ (IsEmptyQuery(query) \/ MessageMatchesCriteria(m))
           /\ results' = Append(results, m.id)
    BY <1>2 DEF ScanRow
  <1>5. results \in Seq({x.id : x \in ToSet(mail)}) /\ Len(results) \in Nat
    BY DEF SearchInv, ResultsFit
  <1>6. IsScopedQuery(query)
    BY <1>1 DEF WantedInv
  <1>7. \A k \in 1..Len(results') : \E x \in ToSet(mail) : x.id = results'[k] /\ Wanted(x)
    <2>1. CASE results' = results
      BY <2>1 DEF WantedInv
    <2>2. CASE /\ m.object /\ (IsEmptyQuery(query) \/ MessageMatchesCriteria(m))
               /\ results' = Append(results, m.id)
      <3>1. Wanted(m)
        BY <1>1, <1>3, <1>6, <2>2, MatchIsWanted
      <3>2. PICK ids, id : results \in Seq(ids) /\ id \in ids /\ id = m.id
        <4>1. m.id \in {x.id : x \in ToSet(mail)}
          BY <1>2
        <4>2. QED
          BY <1>5, <4>1
      <3>3. /\ Len(results') = Len(results) + 1
            /\ \A k \in 1..Len(results) : results'[k] = results[k]
            /\ results'[Len(results) + 1] = id
        BY <2>2, <3>2, AppendProperties
      <3>4. ASSUME NEW k \in 1..Len(results')
            PROVE  \E x \in ToSet(mail) : x.id = results'[k] /\ Wanted(x)
        <4>1. CASE k \in 1..Len(results)
          BY <3>3, <4>1 DEF WantedInv
        <4>2. CASE k = Len(results) + 1
          BY <3>1, <3>2, <3>3, <4>2
        <4>3. QED
          BY <1>5, <3>3, <4>1, <4>2
      <3>5. QED
        BY <3>4
    <2>3. QED
      BY <1>4, <2>1, <2>2
  <1>8. QED
    <2>1. IsScopedQuery(query)'
      BY <1>1, <1>6, WantedStays
    <2>2. \A x : Wanted(x)' <=> Wanted(x)
      BY <1>1, WantedStays
    <2>3. \A k \in 1..Len(results') : \E x \in ToSet(mail') : x.id = results'[k] /\ Wanted(x)'
      BY <1>1, <1>7, <2>2
    <2>4. ToSet(mail)' = ToSet(mail')
      BY DEF ToSet
    <2>5. QED
      BY <2>1, <2>3, <2>4 DEF WantedInv

\* Every step keeps it.
LEMMA NextFindsWanted ==
    ASSUME SearchInv, WantedInv, [Next]_vars
    PROVE  WantedInv'
  <1>1. CASE ScanRow
    BY <1>1, ScanFindsWanted
  <1>2. CASE ~ScanRow
    <2>1. UNCHANGED search /\ results' = results
      BY <1>2 DEF Next, SearchStep, ParseScopedQuery, GetFirstPage, BuildMatcher, EndPage,
                  GetNextPage, SearchFails, MailArrives, vars, searchVars
    <2>2. pc' \in {"first", "scan", "next"} => IsScopedQuery(query)
      BY <1>2 DEF WantedInv, Next, SearchStep, ParseScopedQuery, GetFirstPage, BuildMatcher,
                  EndPage, GetNextPage, SearchFails, MailArrives, DeliverPage, vars, searchVars
    <2>3. ToSet(mail) \subseteq ToSet(mail')
      <3>1. CASE MailArrives
        BY <3>1, MailStaysInBox DEF SearchInv
      <3>2. CASE ~MailArrives
        <4>1. mail' = mail
          BY <1>2, <3>2 DEF Next, SearchStep, ParseScopedQuery, GetFirstPage, BuildMatcher,
                  EndPage, GetNextPage, SearchFails, vars, searchVars
        <4>2. QED
          BY <4>1
      <3>3. QED
        BY <3>1, <3>2
    <2>4. /\ IsScopedQuery(query)' <=> IsScopedQuery(query)
          /\ \A x : Wanted(x)' <=> Wanted(x)
      BY <2>1, WantedStays
    <2>5. \A k \in 1..Len(results') : \E x \in ToSet(mail') : x.id = results'[k] /\ Wanted(x)'
      BY <2>1, <2>3, <2>4 DEF WantedInv
    <2>6. ToSet(mail)' = ToSet(mail')
      BY DEF ToSet
    <2>7. QED
      BY <2>2, <2>4, <2>5, <2>6 DEF WantedInv
  <1>3. QED
    BY <1>1, <1>2

\* A result of a search is a message that satisfies every token of the query, as a
\* reader would judge it (api.cpp, SearchMessages; search.cpp).
THEOREM SearchFindsTheWanted == Spec => []ResultsAreWanted
  <1>1. Init => SearchInv /\ WantedInv
    <2>1. Init => SearchInv
      BY InitHoldsSearchInv
    <2>2. Init => pc = "parse" /\ results = <<>>
      BY DEF Init
    <2>3. QED
      BY <2>1, <2>2 DEF WantedInv
  <1>2. SearchInv /\ WantedInv /\ [Next]_vars => SearchInv' /\ WantedInv'
    BY NextKeeps, NextFindsWanted
  <1>3. SearchInv /\ WantedInv => ResultsAreWanted
    <2> SUFFICES ASSUME SearchInv, WantedInv PROVE ResultsAreWanted
      OBVIOUS
    <2>1. DOMAIN results = 1..Len(results)
      BY DEF SearchInv, ResultsFit
    <2>2. \A m \in ToSet(mail) : Message(m.id) = m
      BY MessageIs DEF SearchInv
    <2>3. QED
      BY <2>1, <2>2 DEF WantedInv, ResultsAreWanted
  <1>4. QED
    BY <1>1, <1>2, <1>3, PTL DEF Spec

\* A text has words unless it is white space only.
LEMMA StripHasWords ==
    ASSUME NEW B, NEW s \in Seq(B)
    PROVE  Strip(s) = <<>> <=> Words(s) = <<>>
  <1>1. PICK t \in Seq(B) : t = Strip(s) /\ (t # <<>> => t[1] # Space)
    BY StripThins
  <1>2. PICK f : Thins(B, s, t, f)
    BY <1>1, StripThins
  <1>3. Words(t) = Words(s)
    BY <1>2, ThinningKeepsWords
  <1>4. PICK n \in Nat : n = Len(t) /\ DOMAIN t = 1..n
    OBVIOUS
  <1>5. Kept(t) \subseteq 1..n
    BY <1>4 DEF Kept
  <1>6. PICK e : Enumerates(e, Kept(t))
    BY <1>5, EnumerationExists
  <1>7. Words(t) = [k \in 1..Len(e) |-> Lower[t[e[k]]]]
    BY <1>6, WordsAre
  <1>8. Len(e) \in Nat
    BY <1>6 DEF Enumerates
  <1>9. CASE t = <<>>
    <2>1. n = 0
      BY <1>4, <1>9
    <2>2. \A k \in 1..Len(e) : e[k] \in 1..n
      BY <1>5, <1>6 DEF Enumerates
    <2>3. Len(e) = 0
      BY <1>8, <2>1, <2>2
    <2>4. Words(t) = <<>>
      BY <1>7, <2>3
    <2>5. QED
      BY <1>1, <1>3, <1>9, <2>4
  <1>10. CASE t # <<>>
    <2>1. 1 \in 1..n /\ t[1] # Space
      BY <1>1, <1>4, <1>10
    <2>2. ~Superfluous(t, 1)
      BY <2>1, SuperfluousIs
    <2>3. 1 \in Kept(t)
      BY <1>4, <2>1, <2>2 DEF Kept
    <2>4. Len(e) # 0
      BY <1>6, <2>3 DEF Enumerates
    <2>5. DOMAIN Words(t) # {}
      BY <1>7, <1>8, <2>4
    <2>6. Words(t) # <<>>
      BY <2>5
    <2>7. QED
      BY <1>1, <1>3, <1>10, <2>6
  <1>11. QED
    BY <1>9, <1>10

\* A date that is a day of the calendar can be parsed.
LEMMA DayIs ==
    ASSUME NEW date, Day(date) # 0
    PROVE  /\ ParseIsoDate(date) = date /\ date # NoDate
           /\ Day(date) \in 1..Len(Calendar) /\ Calendar[Day(date)] = date
  <1> DEFINE days == {k \in DOMAIN Calendar : Calendar[k] = date}
  <1>1. date # NoDate /\ days # {} /\ Day(date) = CHOOSE k \in days : TRUE
    BY DEF Day
  <1>2. Day(date) \in days
    BY <1>1
  <1>3. DOMAIN Calendar = 1..Len(Calendar)
    BY SearchAssumption
  <1>4. date \in ToSet(Calendar)
    BY <1>2 DEF ToSet
  <1>5. \A d \in ToSet(Calendar) : ParseIsoDate(d) = d
    BY TextAssumption, Zenon
  <1>6. QED
    BY <1>1, <1>2, <1>3, <1>4, <1>5

\* Days are before one another as their places in the calendar are.
LEMMA DaysAreOrdered ==
    ASSUME NEW a, NEW b, Day(a) # 0, Day(b) # 0
    PROVE  Before(a, b) <=> Day(a) < Day(b)
  <1>1. \A j, k \in DOMAIN Calendar : j < k <=> Before(Calendar[j], Calendar[k])
    BY TextAssumption, Zenon
  <1>2. DOMAIN Calendar = 1..Len(Calendar)
    BY SearchAssumption
  <1>3. /\ Day(a) \in 1..Len(Calendar) /\ Calendar[Day(a)] = a
        /\ Day(b) \in 1..Len(Calendar) /\ Calendar[Day(b)] = b
    BY DayIs
  <1>4. QED
    BY <1>1, <1>2, <1>3

\* The dates of a proper query: at most one of a scope, and a day.
LEMMA ProperDates ==
    ASSUME search \in Searches, IsProper, NEW scope \in {"from", "to"}
    PROVE  /\ \A k \in Dates(query, scope) :
                 /\ Dates(query, scope) = {k} /\ Day(query.tokens[k].date) # 0
                 /\ DateOf(query, scope) = query.tokens[k].date
           /\ Dates(query, scope) = {} => DateOf(query, scope) = NoDate
  <1>1. PICK q : q = query
    OBVIOUS
  <1>2. PICK D : D = Dates(query, scope)
    OBVIOUS
  <1>3. q.tokens \in Seq(ToSet(q.tokens))
    BY <1>1, SearchAssumption DEF query
  <1>4. IsFiniteSet(D)
    <2>1. PICK n \in Nat : n = Len(q.tokens) /\ DOMAIN q.tokens = 1..n
      BY <1>3
    <2>2. IsFiniteSet(1..n)
      <3>1. 1 \in Int /\ n \in Int
        OBVIOUS
      <3>2. QED
        BY <3>1, FS_Interval
    <2>3. D \in SUBSET (1..n)
      BY <1>1, <1>2, <2>1 DEF Dates
    <2>4. QED
      BY <2>2, <2>3, FS_Subset
  <1>5. Cardinality(D) <= 1
    BY <1>2 DEF IsProper
  <1>6. ASSUME NEW k \in D PROVE D = {k}
    <2>1. ASSUME NEW j \in D, j # k PROVE FALSE
      <3>1. PICK E : E = {j, k}
        OBVIOUS
      <3>2. E \in SUBSET D /\ Cardinality(E) = 2
        <4>1. IsFiniteSet({k}) /\ Cardinality({k}) = 1
          BY FS_Singleton
        <4>2. Cardinality({k} \cup {j}) = Cardinality({k}) + 1
          BY <2>1, <4>1, FS_AddElement
        <4>3. E = {k} \cup {j}
          BY <3>1
        <4>4. QED
          BY <2>1, <3>1, <4>1, <4>2, <4>3
      <3>3. Cardinality(E) <= Cardinality(D)
        BY <1>4, <3>2, FS_Subset
      <3>4. Cardinality(D) \in Nat
        BY <1>4, FS_CardinalityType
      <3>5. QED
        BY <1>5, <3>2, <3>3, <3>4
    <2>2. QED
      BY <2>1
  <1>7. ASSUME NEW k \in D PROVE Day(q.tokens[k].date) # 0
    <2>1. Day(q.tokens[k].date) \in {Day(query.tokens[j].date) : j \in Dates(query, scope)}
      BY <1>1, <1>2
    <2>2. 0 \notin {Day(query.tokens[j].date) : j \in Dates(query, "from")}
                    \cup {Day(query.tokens[j].date) : j \in Dates(query, "to")}
      BY DEF IsProper
    <2>3. QED
      BY <2>1, <2>2
  <1>8. ASSUME NEW k \in D PROVE DateOf(q, scope) = q.tokens[k].date
    <2>1. D = {k} /\ Day(q.tokens[k].date) # 0
      BY <1>6, <1>7
    <2>2. DateOf(q, scope) = ParseIsoDate(q.tokens[CHOOSE j \in {k} : TRUE].date)
      BY <1>1, <1>2, <2>1 DEF DateOf
    <2>3. (CHOOSE j \in {k} : TRUE) = k
      OBVIOUS
    <2>4. ParseIsoDate(q.tokens[k].date) = q.tokens[k].date
      BY <2>1, DayIs
    <2>5. QED
      BY <2>2, <2>3, <2>4
  <1>9. D = {} => DateOf(q, scope) = NoDate
    BY <1>1, <1>2 DEF DateOf
  <1>10. QED
    BY <1>1, <1>2, <1>6, <1>7, <1>8, <1>9

\* A proper query is accepted.
LEMMA ProperIsScoped ==
    ASSUME search \in Searches, IsProper
    PROVE  IsScopedQuery(query)
  <1>1. PICK q : q = query
    OBVIOUS
  <1>2. Strip(q.lead) = <<>>
    <2>1. q.lead \in Seq(ToSet(q.lead))
      BY <1>1, TextAssumption, Zenon DEF query
    <2>2. Words(q.lead) = <<>>
      BY <1>1 DEF IsProper
    <2>3. QED
      BY <2>1, <2>2, StripHasWords
  <1>3. ASSUME NEW k \in DOMAIN q.tokens
        PROVE  IF q.tokens[k].scope \in TextScopes THEN Strip(q.tokens[k].text) # <<>>
               ELSE /\ ParseIsoDate(q.tokens[k].date) # NoDate
                    /\ Dates(q, q.tokens[k].scope) = {k}
    <2>1. CASE q.tokens[k].scope \in TextScopes
      <3>1. q.tokens[k].text \in Seq(DOMAIN Lower)
        BY <1>1, <1>3, TokenTextIs
      <3>2. Words(q.tokens[k].text) # <<>>
        BY <1>1, <2>1 DEF IsProper
      <3>3. QED
        BY <2>1, <3>1, <3>2, StripHasWords
    <2>2. CASE q.tokens[k].scope \notin TextScopes
      <3>1. PICK scope : scope = q.tokens[k].scope
        OBVIOUS
      <3>2. scope \in {"from", "to"}
        <4>1. \A t \in ToSet(q.tokens) : t.scope \in TextScopes \cup {"from", "to"}
          BY <1>1, TextAssumption DEF query
        <4>2. q.tokens[k] \in ToSet(q.tokens)
          BY DEF ToSet
        <4>3. QED
          BY <2>2, <3>1, <4>1, <4>2
      <3>3. k \in Dates(q, scope)
        BY <3>1 DEF Dates
      <3>4. Dates(q, scope) = {k} /\ Day(q.tokens[k].date) # 0
        BY <1>1, <3>2, <3>3, ProperDates
      <3>5. ParseIsoDate(q.tokens[k].date) # NoDate
        BY <3>4, DayIs
      <3>6. QED
        BY <2>2, <3>1, <3>4, <3>5
    <2>3. QED
      BY <2>1, <2>2
  <1>4. DateOf(q, "from") # NoDate /\ DateOf(q, "to") # NoDate
        => ~Before(DateOf(q, "to"), DateOf(q, "from"))
    <2>1. HAVE DateOf(q, "from") # NoDate /\ DateOf(q, "to") # NoDate
    <2>2. PICK j \in Dates(q, "from") :
             DateOf(q, "from") = q.tokens[j].date /\ Day(q.tokens[j].date) # 0
      BY <1>1, <2>1, ProperDates
    <2>3. PICK k \in Dates(q, "to") :
             DateOf(q, "to") = q.tokens[k].date /\ Day(q.tokens[k].date) # 0
      BY <1>1, <2>1, ProperDates
    <2>4. \A f \in {Day(q.tokens[i].date) : i \in Dates(q, "from")},
             t \in {Day(q.tokens[i].date) : i \in Dates(q, "to")} : f <= t
      BY <1>1 DEF IsProper
    <2>5. Day(q.tokens[j].date) <= Day(q.tokens[k].date)
      BY <2>4
    <2>6. Day(q.tokens[j].date) \in 1..Len(Calendar) /\ Day(q.tokens[k].date) \in 1..Len(Calendar)
      BY <2>2, <2>3, DayIs
    <2>7. ~(Day(q.tokens[k].date) < Day(q.tokens[j].date))
      BY <2>5, <2>6
    <2>8. ~Before(q.tokens[k].date, q.tokens[j].date)
      BY <2>2, <2>3, <2>7, DaysAreOrdered
    <2>9. QED
      BY <2>2, <2>3, <2>8
  <1>5. SearchCriteria(q).from = DateOf(q, "from") /\ SearchCriteria(q).to = DateOf(q, "to")
    BY DEF SearchCriteria
  <1>6. CASE q.tokens = <<>>
    BY <1>1, <1>2, <1>6 DEF IsScopedQuery, IsEmptyQuery
  <1>7. CASE q.tokens # <<>>
    BY <1>1, <1>2, <1>3, <1>4, <1>5, <1>7 DEF IsScopedQuery
  <1>8. QED
    BY <1>6, <1>7

\* A wanted message has a date in the criteria's range, if there is one.
LEMMA WantedInDates ==
    ASSUME search \in Searches, IsProper, NEW m, Wanted(m)
    PROVE  /\ InDates(m.date, criteria) /\ InDates(ParseIsoDate(m.date), criteria)
           /\ criteria.from # NoDate =>
                 Day(criteria.from) # 0 /\ Day(m.date) # 0 /\ Day(criteria.from) <= Day(m.date)
  <1>1. PICK q : q = query
    OBVIOUS
  <1>2. criteria.from = DateOf(q, "from") /\ criteria.to = DateOf(q, "to")
    BY <1>1 DEF criteria, SearchCriteria
  <1>3. PICK day : day = m.date
    OBVIOUS
  <1>4. \A k \in DOMAIN q.tokens : Satisfies(m, q.tokens[k])
    BY <1>1 DEF Wanted
  <1>5. Len(Calendar) \in Nat
    BY SearchAssumption
  <1>6. ASSUME criteria.from # NoDate
        PROVE  /\ Day(criteria.from) # 0 /\ Day(day) # 0 /\ Day(criteria.from) <= Day(day)
               /\ ParseIsoDate(day) = day /\ day # NoDate /\ ~Before(day, criteria.from)
    <2>1. PICK k \in Dates(q, "from") :
             DateOf(q, "from") = q.tokens[k].date /\ Day(q.tokens[k].date) # 0
      BY <1>1, <1>2, <1>6, ProperDates
    <2>2. k \in DOMAIN q.tokens /\ q.tokens[k].scope = "from"
      BY <2>1 DEF Dates
    <2>3. Day(day) >= Day(q.tokens[k].date)
      <3>1. Satisfies(m, q.tokens[k])
        BY <1>4, <2>2
      <3>2. QED
        BY <1>3, <2>2, <3>1 DEF Satisfies
    <2>4. Day(q.tokens[k].date) \in 1..Len(Calendar)
      BY <2>1, DayIs
    <2>5. Day(day) # 0
      <3>1. CASE Day(day) = 0
        BY <1>5, <2>3, <2>4, <3>1
      <3>2. QED
        BY <3>1
    <2>6. Day(day) \in 1..Len(Calendar) /\ ParseIsoDate(day) = day /\ day # NoDate
      BY <2>5, DayIs
    <2>7. ~(Day(day) < Day(q.tokens[k].date)) /\ Day(q.tokens[k].date) <= Day(day)
      BY <1>5, <2>3, <2>4, <2>6
    <2>8. ~Before(day, q.tokens[k].date)
      BY <2>1, <2>5, <2>7, DaysAreOrdered
    <2>9. QED
      BY <1>2, <2>1, <2>5, <2>6, <2>7, <2>8
  <1>7. ASSUME criteria.to # NoDate
        PROVE  ParseIsoDate(day) = day /\ day # NoDate /\ ~Before(criteria.to, day)
    <2>1. PICK k \in Dates(q, "to") :
             DateOf(q, "to") = q.tokens[k].date /\ Day(q.tokens[k].date) # 0
      BY <1>1, <1>2, <1>7, ProperDates
    <2>2. k \in DOMAIN q.tokens /\ q.tokens[k].scope = "to"
      BY <2>1 DEF Dates
    <2>3. Day(day) \in 1..Day(q.tokens[k].date)
      <3>1. Satisfies(m, q.tokens[k])
        BY <1>4, <2>2
      <3>2. QED
        BY <1>3, <2>2, <3>1 DEF Satisfies
    <2>4. Day(q.tokens[k].date) \in 1..Len(Calendar)
      BY <2>1, DayIs
    <2>5. Day(day) # 0
      BY <2>3, <2>4
    <2>6. Day(day) \in 1..Len(Calendar) /\ ParseIsoDate(day) = day /\ day # NoDate
      BY <2>5, DayIs
    <2>7. ~(Day(q.tokens[k].date) < Day(day))
      BY <2>3, <2>4, <2>6
    <2>8. ~Before(q.tokens[k].date, day)
      BY <2>1, <2>5, <2>7, DaysAreOrdered
    <2>9. QED
      BY <1>2, <2>1, <2>6, <2>8
  <1>8. InDates(day, criteria) /\ InDates(ParseIsoDate(day), criteria)
    BY <1>6, <1>7 DEF InDates
  <1>9. QED
    BY <1>3, <1>6, <1>8

\* A wanted message matches the criteria.
LEMMA WantedMatches ==
    ASSUME SearchInv, pc = "scan", queue = <<>>, IsProper, NEW m \in Messages, Wanted(m)
    PROVE  MessageMatchesCriteria(m)
  <1>1. search \in Searches
    BY DEF SearchInv, MailFits
  <1>2. \A text \in {m.subject, m.sender, m.body, m.preview} : text \in Seq(ToSet(text))
    BY TextAssumption
  <1>3. /\ criteria.subject = Values(query, "subject")
        /\ criteria.sender = Values(query, "sender")
        /\ criteria.body = Values(query, "body")
    BY DEF criteria, SearchCriteria
  <1>4. \A k \in DOMAIN query.tokens :
           /\ Satisfies(m, query.tokens[k])
           /\ query.tokens[k].scope \in TextScopes => Words(query.tokens[k].text) # <<>>
    BY DEF Wanted, IsProper
  <1>5. criteria.subject \subseteq Found(NormalizeSearchText(m.subject))
    <2>1. m.subject \in Seq(ToSet(m.subject))
      BY <1>2
    <2>2. ASSUME NEW k \in DOMAIN query.tokens, query.tokens[k].scope = "subject"
          PROVE  /\ Words(query.tokens[k].text) # <<>>
                 /\ Occurs(Words(query.tokens[k].text), Words(m.subject))
      BY <1>4, <2>2 DEF Satisfies, TextScopes
    <2>3. "subject" \in TextScopes
      BY DEF TextScopes
    <2>4. QED
      BY <1>3, <2>1, <2>2, <2>3, OccursFound
  <1>6. criteria.sender \subseteq Found(NormalizeSearchText(m.sender))
    <2>1. m.sender \in Seq(ToSet(m.sender))
      BY <1>2
    <2>2. ASSUME NEW k \in DOMAIN query.tokens, query.tokens[k].scope = "sender"
          PROVE  /\ Words(query.tokens[k].text) # <<>>
                 /\ Occurs(Words(query.tokens[k].text), Words(m.sender))
      BY <1>4, <2>2 DEF Satisfies, TextScopes
    <2>3. "sender" \in TextScopes
      BY DEF TextScopes
    <2>4. QED
      BY <1>3, <2>1, <2>2, <2>3, OccursFound
  <1>7. criteria.body \subseteq Found(NormalizeSearchText(ExtractBodyText(m)))
    <2>1. PICK body : body = ExtractBodyText(m)
      OBVIOUS
    <2>2. PICK C : body \in Seq(C)
      BY <1>2, <2>1, BodyShows
    <2>3. Words(body) = CASE m.type = "html" -> Words(Shown(m.body))
                          [] m.type = "text" -> Words(m.body)
                          [] OTHER           -> Words(m.preview)
      BY <1>2, <2>1, BodyShows
    <2>4. ASSUME NEW k \in DOMAIN query.tokens, query.tokens[k].scope = "body"
          PROVE  /\ Words(query.tokens[k].text) # <<>>
                 /\ Occurs(Words(query.tokens[k].text), Words(body))
      BY <1>4, <2>3, <2>4 DEF Satisfies, TextScopes
    <2>5. "body" \in TextScopes
      BY DEF TextScopes
    <2>6. QED
      BY <1>3, <2>1, <2>2, <2>4, <2>5, OccursFound
  <1>8. InDates(ParseIsoDate(m.date), criteria)
    BY <1>1, WantedInDates
  <1>9. QED
    BY <1>5, <1>6, <1>7, <1>8 DEF MessageMatchesCriteria

-----------------------------------------------------------------------------
(* What is not missed                                                      *)

\* The mailbox keeps the messages it had, and nothing before them is older.  A
\* wanted one is found, or a row that is still to come, as long as there is room.
\* The oldest date of a page is that of a row looked at.
BoxFits ==
    /\ ToSet(search.mail) \subseteq ToSet(mail)
    /\ \A i, j \in 1..Len(mail) :
          i < j /\ mail[j] \in ToSet(search.mail) => MayPrecede(mail[i], mail[j])
    /\ ~ShouldPaginate => mail = search.mail
NoneLost ==
    IsProper /\ Len(results) < limit =>
        \A m \in ToSet(search.mail) : Wanted(m) =>
            m.id \in ToSet(results) \/ \E i \in Seen + 1..Len(Listing) : Listing[i] = m
PageEnds ==
    /\ pc = "scan" =>
        /\ link = "none" => cursor = Len(Listing)
        /\ oldest # NoDate => \E i \in 1..Seen : Listing[i].date = oldest
    /\ pc = "next" => ShouldPaginate
MissedInv == BoxFits /\ NoneLost /\ PageEnds /\ NothingIsMissed

\* What depends on the query only.
LEMMA ProperStays ==
    ASSUME UNCHANGED search
    PROVE  /\ (IsProper' <=> IsProper) /\ (ShouldPaginate' <=> ShouldPaginate)
           /\ limit' = limit /\ MaxScannedRows' = MaxScannedRows
           /\ \A m : Wanted(m)' <=> Wanted(m)
           /\ \A m, n : MayPrecede(m, n)' <=> MayPrecede(m, n)
  <1>1. query' = query
    BY DEF query
  <1>2. criteria' = criteria
    BY <1>1 DEF criteria
  <1>3. ShouldPaginate' <=> ShouldPaginate
    BY <1>2 DEF ShouldPaginate
  <1>4. IsProper' <=> IsProper
    BY <1>1 DEF IsProper, Day
  <1>5. \A m : Wanted(m)' <=> Wanted(m)
    BY WantedStays
  <1>6. \A m, n : MayPrecede(m, n)' <=> MayPrecede(m, n)
    BY DEF MayPrecede, Day
  <1>7. QED
    BY <1>3, <1>4, <1>5, <1>6, BoundsStay

\* The k-th of increasing places is not before the k-th place.
LEMMA IncreasingIsAhead ==
    ASSUME NEW n \in Nat, NEW e \in Seq(1..n), \A j, k \in 1..Len(e) : j < k => e[j] < e[k]
    PROVE  \A k \in 1..Len(e) : e[k] >= k
  <1>1. PICK l \in Nat : l = Len(e) /\ \A k \in 1..l : e[k] \in 1..n
    OBVIOUS
  <1> DEFINE I == {k \in Nat : k + 1 <= l => e[k + 1] >= k + 1}
  <1>2. 0 \in I
    BY <1>1
  <1>3. ASSUME NEW k \in Nat, k \in I PROVE k + 1 \in I
    <2>1. SUFFICES ASSUME (k + 1) + 1 <= l PROVE e[(k + 1) + 1] >= (k + 1) + 1
      OBVIOUS
    <2>2. PICK i \in 1..l, j \in 1..l : i = k + 1 /\ j = (k + 1) + 1 /\ i < j
      BY <2>1
    <2>3. e[i] >= i /\ e[i] < e[j] /\ e[i] \in 1..n /\ e[j] \in 1..n
      BY <1>1, <1>3, <2>2
    <2>4. e[j] >= j
      BY <2>2, <2>3
    <2>5. QED
      BY <2>2, <2>4
  <1>4. Nat \subseteq I
    <2> HIDE DEF I
    <2>1. QED
      BY <1>2, <1>3, NumberInduction
  <1>5. ASSUME NEW k \in 1..l PROVE e[k] >= k
    <2>1. k - 1 \in I /\ (k - 1) + 1 = k
      BY <1>4
    <2>2. QED
      BY <1>1, <2>1
  <1>6. QED
    BY <1>1, <1>5

\* The rows of the listing, as places of the mailbox.
LEMMA RowsArePlaces ==
    ASSUME MailFits
    PROVE  /\ \A i, j \in 1..Len(Listing) : i < j =>
                 \E a, b \in 1..Len(mail) :
                    a < b /\ b >= j /\ Listing[i] = mail[a] /\ Listing[j] = mail[b]
           /\ \A j \in 1..Len(Listing) : \E b \in 1..Len(mail) : b >= j /\ Listing[j] = mail[b]
           /\ \A m \in ToSet(mail) : Lists(m) => \E k \in 1..Len(Listing) : Listing[k] = m
  <1>1. mail \in Seq(ToSet(mail)) /\ Len(mail) \in Nat
    BY MailIs
  <1>2. PICK e \in Seq(1..Len(mail)) :
              /\ Len(e) = Len(Listing)
              /\ \A j, k \in 1..Len(e) : j < k => e[j] < e[k]
              /\ \A k \in 1..Len(e) : Listing[k] = mail[e[k]]
              /\ \A i \in 1..Len(mail) : Lists(mail[i]) => \E k \in 1..Len(e) : e[k] = i
    BY <1>1, ListingPicks
  <1>3. PICK n \in Nat, l \in Nat : n = Len(mail) /\ l = Len(Listing) /\ l = Len(e)
    BY <1>1, <1>2
  <1>4. \A k \in 1..l : e[k] \in 1..n /\ e[k] >= k
    <2>1. e \in Seq(1..n)
      BY <1>3
    <2>2. \A k \in 1..l : e[k] \in 1..n
      BY <1>3, <2>1
    <2>3. \A k \in 1..Len(e) : e[k] >= k
      BY <1>2, <2>1, IncreasingIsAhead
    <2>4. QED
      BY <1>3, <2>2, <2>3
  <1>5. ASSUME NEW i \in 1..l, NEW j \in 1..l, i < j
        PROVE  \E a, b \in 1..n :
                    a < b /\ b >= j /\ Listing[i] = mail[a] /\ Listing[j] = mail[b]
    <2>1. PICK a \in 1..n, b \in 1..n : a = e[i] /\ b = e[j]
      BY <1>4
    <2>2. a < b /\ b >= j /\ Listing[i] = mail[a] /\ Listing[j] = mail[b]
      BY <1>2, <1>3, <1>4, <1>5, <2>1
    <2>3. QED
      BY <2>2
  <1>6. ASSUME NEW j \in 1..l PROVE \E b \in 1..n : b >= j /\ Listing[j] = mail[b]
    BY <1>2, <1>3, <1>4
  <1>7. ASSUME NEW m \in ToSet(mail), Lists(m) PROVE \E k \in 1..l : Listing[k] = m
    <2>1. DOMAIN mail = 1..n
      BY <1>1, <1>3
    <2>2. PICK i \in 1..n : m = mail[i]
      BY <2>1 DEF ToSet
    <2>3. PICK k \in 1..l : e[k] = i
      BY <1>2, <1>3, <1>7, <2>2
    <2>4. QED
      BY <1>2, <1>3, <2>2, <2>3
  <1>8. QED
    BY <1>3, <1>5, <1>6, <1>7

\* Graph lists what is wanted.
LEMMA WantedIsListed ==
    ASSUME search \in Searches, IsProper, NEW m, Wanted(m)
    PROVE  Lists(m)
  BY WantedInDates DEF Lists

\* At first every row is still to come.
LEMMA InitHoldsMissed ==
    ASSUME Init, SearchInv
    PROVE  MissedInv
  <1>1. /\ mail = search.mail /\ cursor = 0 /\ page = <<>> /\ results = <<>>
        /\ search \in Searches /\ pc = "parse"
    BY DEF Init
  <1>2. BoxFits
    <2>1. DOMAIN search.mail = 1..Len(search.mail)
      BY <1>1, SearchAssumption
    <2>2. \A i, j \in 1..Len(mail) : i < j => MayPrecede(mail[i], mail[j])
      BY <1>1, <2>1, MailAssumption
    <2>3. QED
      BY <1>1, <2>2 DEF BoxFits
  <1>3. NoneLost
    <2> SUFFICES ASSUME IsProper, NEW m \in ToSet(mail), Wanted(m)
                 PROVE  \E i \in Seen + 1..Len(Listing) : Listing[i] = m
      BY <1>1 DEF NoneLost
    <2>1. Lists(m)
      BY <1>1, WantedIsListed
    <2>2. PICK k \in 1..Len(Listing) : Listing[k] = m
      BY <2>1, RowsArePlaces DEF SearchInv
    <2>3. Seen = 0
      <3>1. Len(page) = 0
        BY <1>1
      <3>2. PICK c, z : c = cursor /\ z = Len(page) /\ c = 0 /\ z = 0
        BY <1>1, <3>1
      <3>3. Seen = c - z
        BY <3>2 DEF Seen
      <3>4. QED
        BY <3>2, <3>3
    <2>4. QED
      BY <2>2, <2>3
  <1>4. PageEnds /\ NothingIsMissed
    BY <1>1 DEF PageEnds, NothingIsMissed
  <1>5. QED
    BY <1>2, <1>3, <1>4 DEF MissedInv

\* What leaves mailbox, rows and results loses none.
LEMMA RowsStay ==
    ASSUME BoxFits, NoneLost, UNCHANGED <<search, honoured, mail, results>>, Seen' = Seen
    PROVE  BoxFits' /\ NoneLost'
  <1>1. Listing' = Listing
    BY ListingStays
  <1>2. ToSet(mail)' = ToSet(mail) /\ ToSet(search.mail)' = ToSet(search.mail)
        /\ ToSet(results)' = ToSet(results)
    BY DEF ToSet
  <1>3. /\ (IsProper' <=> IsProper) /\ (ShouldPaginate' <=> ShouldPaginate) /\ limit' = limit
        /\ \A m : Wanted(m)' <=> Wanted(m)
        /\ \A m, n : MayPrecede(m, n)' <=> MayPrecede(m, n)
    BY ProperStays
  <1>4. BoxFits'
    BY <1>2, <1>3 DEF BoxFits
  <1>5. NoneLost'
    BY <1>1, <1>2, <1>3 DEF NoneLost
  <1>6. QED
    BY <1>4, <1>5

\* The next page loses no row.
LEMMA DeliveryLosesNone ==
    ASSUME SearchInv, PageFits, MissedInv, page = <<>>, DeliverPage,
           UNCHANGED <<search, honoured, mail, results>>
    PROVE  MissedInv'
  <1>1. PICK list, c :
           /\ list = Listing /\ Seen = c /\ Seen' = c
           /\ link' = "none" => cursor' = Len(list)
           /\ oldest' = NoDate /\ pc' = "scan"
    BY PageIsNext
  <1>2. BoxFits' /\ NoneLost'
    BY <1>1, RowsStay DEF MissedInv
  <1>3. PageEnds'
    <2>1. Listing' = Listing
      BY ListingStays
    <2>2. QED
      BY <1>1, <2>1 DEF PageEnds
  <1>4. NothingIsMissed'
    BY <1>1 DEF NothingIsMissed
  <1>5. QED
    BY <1>2, <1>3, <1>4 DEF MissedInv

\* What arrives is put before the rows to come.
LEMMA ArrivalLosesNone ==
    ASSUME SearchInv, PageFits, MissedInv, MailArrives
    PROVE  MissedInv'
  <1>1. pc = "next" /\ UNCHANGED <<search, pc, results>>
    BY DEF MailArrives
  <1>2. PICK m, list, new, l, n, c, d :
              /\ m \in Arrivals
              /\ Len(mail') = Len(mail) + 1 /\ mail'[1] = m
              /\ \A i \in 2..Len(mail) + 1 : mail'[i] = mail[i - 1]
              /\ list \in Seq(ToSet(mail)) /\ list = Listing /\ l \in Nat /\ l = Len(list)
              /\ new = Listing' /\ n \in Nat /\ n = Len(new) /\ n >= l
              /\ \/ ~Lists(m) /\ new = list
                 \/ /\ Lists(m) /\ n = l + 1 /\ new[1] = m
                    /\ \A i \in 2..l + 1 : new[i] = list[i - 1]
              /\ c \in Nat /\ c = cursor /\ c = Seen /\ c <= l
              /\ d \in Nat /\ d = cursor' /\ d = Seen' /\ d <= n /\ d >= c
              /\ d \in {c, c + 1} /\ (d = c + 1 => Lists(m))
    BY ArrivalShifts
  <1>3. /\ (IsProper' <=> IsProper) /\ (ShouldPaginate' <=> ShouldPaginate) /\ limit' = limit
        /\ \A x : Wanted(x)' <=> Wanted(x)
        /\ \A x, y : MayPrecede(x, y)' <=> MayPrecede(x, y)
    BY <1>1, ProperStays
  <1>4. ToSet(mail)' = ToSet(mail') /\ ToSet(search.mail)' = ToSet(search.mail)
        /\ ToSet(results)' = ToSet(results)
    BY <1>1 DEF ToSet
  <1>5. ShouldPaginate
    BY <1>1 DEF MissedInv, PageEnds
  <1>6. PICK a \in Nat : a = Len(mail)
    BY MailIs DEF SearchInv
  <1>7. BoxFits'
    <2>1. ToSet(search.mail) \subseteq ToSet(mail')
      BY MailStaysInBox DEF SearchInv, MissedInv, BoxFits
    <2>2. ASSUME NEW i \in 1..a + 1, NEW j \in 1..a + 1, i < j, mail'[j] \in ToSet(search.mail)
          PROVE  MayPrecede(mail'[i], mail'[j])
      <3>1. PICK k \in 1..a : k = j - 1 /\ mail'[j] = mail[k]
        <4>1. j \in 2..a + 1 /\ j - 1 \in 1..a
          BY <2>2
        <4>2. QED
          BY <1>2, <1>6, <4>1
      <3>2. CASE i = 1
        <4>1. \A y \in ToSet(search.mail) : MayPrecede(m, y)
          BY <1>2, MailAssumption DEF SearchInv, MailFits
        <4>2. QED
          BY <1>2, <2>2, <3>2, <4>1
      <3>3. CASE i # 1
        <4>1. PICK h \in 1..a : h = i - 1 /\ mail'[i] = mail[h]
          <5>1. i \in 2..a + 1 /\ i - 1 \in 1..a
            BY <2>2, <3>3
          <5>2. QED
            BY <1>2, <1>6, <5>1
        <4>2. h < k
          BY <2>2, <3>1, <4>1
        <4>3. MayPrecede(mail[h], mail[k])
          BY <1>6, <2>2, <3>1, <4>2 DEF MissedInv, BoxFits
        <4>4. QED
          BY <3>1, <4>1, <4>3
      <3>4. QED
        BY <3>2, <3>3
    <2>3. \A i, j \in 1..Len(mail') :
             i < j /\ mail'[j] \in ToSet(search.mail) => MayPrecede(mail'[i], mail'[j])
      BY <1>2, <1>6, <2>2
    <2>4. QED
      BY <1>3, <1>4, <1>5, <2>1, <2>3 DEF BoxFits
  <1>8. NoneLost'
    <2> SUFFICES ASSUME IsProper, Len(results) < limit, NEW x \in ToSet(search.mail), Wanted(x)
                 PROVE  x.id \in ToSet(results) \/ \E i \in d + 1..n : new[i] = x
      BY <1>1, <1>2, <1>3, <1>4 DEF NoneLost
    <2>1. SUFFICES ASSUME x.id \notin ToSet(results) PROVE \E i \in d + 1..n : new[i] = x
      OBVIOUS
    <2>2. PICK i \in c + 1..l : list[i] = x
      BY <1>2, <2>1 DEF MissedInv, NoneLost
    <2>3. CASE ~Lists(m) /\ new = list
      <3>1. d = c /\ n = l
        BY <1>2, <2>3
      <3>2. QED
        BY <2>2, <2>3, <3>1
    <2>4. CASE n = l + 1 /\ \A k \in 2..l + 1 : new[k] = list[k - 1]
      <3>1. PICK k \in 2..l + 1 : k = i + 1 /\ k - 1 = i /\ k \in d + 1..n
        <4>1. c \in Nat /\ d \in Nat /\ l \in Nat /\ n = l + 1 /\ d <= c + 1
          BY <1>2, <2>4
        <4>2. i \in c + 1..l
          BY <2>2
        <4>3. i + 1 \in 2..l + 1 /\ (i + 1) - 1 = i /\ i + 1 \in d + 1..n
          BY <4>1, <4>2
        <4>4. QED
          BY <4>3
      <3>2. new[k] = x
        BY <2>2, <2>4, <3>1
      <3>3. QED
        BY <3>1, <3>2
    <2>5. QED
      BY <1>2, <2>3, <2>4
  <1>9. PageEnds' /\ NothingIsMissed'
    BY <1>1, <1>3, <1>5 DEF PageEnds, NothingIsMissed
  <1>10. QED
    BY <1>7, <1>8, <1>9 DEF MissedInv

\* A row that is wanted becomes a result, and the others are still to come.
LEMMA ScanLosesNone ==
    ASSUME SearchInv, PageFits, MissedInv, ScanRow
    PROVE  MissedInv'
  <1>1. /\ pc = "scan" /\ queue = <<>> /\ page # <<>>
        /\ UNCHANGED <<search, honoured, mail, cursor, pc, link>>
    BY DEF ScanRow
  <1>2. PICK list, m, t, s, r :
              /\ list \in Seq(ToSet(mail)) /\ list = Listing /\ Len(list) \in Nat
              /\ page \in Seq(ToSet(mail)) /\ Len(page) \in Nat /\ Len(page) >= 1
              /\ m \in ToSet(mail) /\ m = Head(page) /\ m = list[s + 1] /\ s + 1 \in 1..Len(list)
              /\ t \in Seq(ToSet(mail)) /\ Len(t) = Len(page) - 1
              /\ \A k \in 1..Len(t) : t[k] = page[k + 1]
              /\ s \in Nat /\ s = Seen /\ cursor \in Nat
              /\ s + Len(page) = cursor /\ cursor <= Len(list)
              /\ \A k \in 1..Len(page) : page[k] = list[s + k]
              /\ r \in s + 1..cursor /\ r = Seen' /\ Len(page') = cursor - r
              /\ page' = t \/ page' = <<>>
              /\ page' = t => r = s + 1
              /\ Len(results') < limit => page' = t
              /\ results' \in {results, Append(results, m.id)}
    BY RowIsNext
  <1>3. Listing' = Listing
    BY <1>1, ListingStays
  <1>4. /\ (IsProper' <=> IsProper) /\ (ShouldPaginate' <=> ShouldPaginate) /\ limit' = limit
        /\ \A x : Wanted(x)' <=> Wanted(x)
        /\ \A x, y : MayPrecede(x, y)' <=> MayPrecede(x, y)
    BY <1>1, ProperStays
  <1>5. ToSet(mail)' = ToSet(mail) /\ ToSet(search.mail)' = ToSet(search.mail)
        /\ ToSet(results)' = ToSet(results')
    BY <1>1 DEF ToSet
  <1>6. BoxFits'
    BY <1>1, <1>4, <1>5 DEF MissedInv, BoxFits
  <1>7. /\ ToSet(results) \subseteq ToSet(results')
        /\ results' = Append(results, m.id) => m.id \in ToSet(results')
        /\ Len(results) <= Len(results') /\ Len(results) \in Nat /\ Len(results') \in Nat
    <2> DEFINE ids == {x.id : x \in ToSet(mail)}
    <2>1. PICK i \in ids : i = m.id
      BY <1>2
    <2>2. results \in Seq(ids)
      BY DEF SearchInv, ResultsFit
    <2> HIDE DEF ids
    <2>3. Len(results) \in Nat /\ DOMAIN results = 1..Len(results)
      BY <2>2
    <2>7. results' = results \/ results' = Append(results, m.id)
      BY <1>2
    <2>4. CASE results' # Append(results, m.id)
      <3>1. results' = results
        BY <2>7, <2>4
      <3>2. PICK p : p = results
        OBVIOUS
      <3>3. ToSet(p) \subseteq ToSet(p) /\ Len(p) \in Nat /\ Len(p) <= Len(p)
        BY <2>3, <3>2
      <3>4. results' = p
        BY <3>1, <3>2
      <3>5. /\ ToSet(results) \subseteq ToSet(results')
            /\ Len(results) <= Len(results') /\ Len(results) \in Nat /\ Len(results') \in Nat
        BY <3>2, <3>3, <3>4
      <3>6. QED
        BY <2>4, <3>5, Zenon
    <2>5. CASE results' = Append(results, m.id)
      <3>1. PICK q \in Seq(ids) : q = Append(results, i)
        BY <2>2, AppendProperties
      <3>2. /\ Len(q) = Len(results) + 1
            /\ \A k \in 1..Len(results) : q[k] = results[k]
            /\ q[Len(results) + 1] = i
        BY <2>2, <3>1, AppendProperties
      <3>3. \A k \in 1..Len(q) : q[k] \in ToSet(q)
        BY ToSetIs
      <3>4. \A x \in ToSet(results) : \E k \in 1..Len(results) : x = results[k]
        BY <2>3 DEF ToSet
      <3>5. \A k \in 1..Len(results) : k \in 1..Len(q)
        BY <2>3, <3>2
      <3>6. ToSet(results) \subseteq ToSet(q)
        BY <3>2, <3>3, <3>4, <3>5
      <3>7. i \in ToSet(q)
        BY <2>3, <3>2, <3>3
      <3>8. Len(results) <= Len(q) /\ Len(q) \in Nat
        BY <2>3, <3>2
      <3>9. results' = q
        BY <2>1, <2>5, <3>1
      <3>10. QED
        BY <2>1, <2>3, <3>6, <3>7, <3>8, <3>9
    <2>6. QED
      BY <2>4, <2>5
  <1>8. NoneLost'
    <2> SUFFICES ASSUME IsProper, Len(results') < limit, NEW x \in ToSet(search.mail), Wanted(x)
                 PROVE  x.id \in ToSet(results') \/ \E i \in r + 1..Len(list) : list[i] = x
      BY <1>2, <1>3, <1>4, <1>5 DEF NoneLost
    <2>1. SUFFICES ASSUME x.id \notin ToSet(results) PROVE x.id \in ToSet(results')
                                           \/ \E i \in r + 1..Len(list) : list[i] = x
      BY <1>7
    <2>2. r = s + 1
      BY <1>2
    <2>3. Len(results) < limit
      <3>1. limit \in Nat
        BY BoundsAre DEF SearchInv, MailFits
      <3>2. QED
        BY <1>7, <3>1
    <2>4. PICK i \in s + 1..Len(list) : list[i] = x
      BY <1>2, <2>1, <2>3 DEF MissedInv, NoneLost
    <2>5. CASE i = s + 1
      <3>1. x = m
        BY <1>2, <2>4, <2>5
      <3>2. x \in Messages
        BY DEF SearchInv, MailFits, Messages
      <3>3. MessageMatchesCriteria(x)
        BY <1>1, <3>2, WantedMatches
      <3>4. x.object
        BY DEF Wanted
      <3>5. results' = Append(results, x.id)
        BY <1>2, <3>1, <3>3, <3>4 DEF ScanRow
      <3>6. QED
        BY <1>7, <3>1, <3>5
    <2>6. CASE i # s + 1
      <3>1. i \in r + 1..Len(list)
        BY <1>2, <2>2, <2>6
      <3>2. QED
        BY <2>4, <3>1
    <2>7. QED
      BY <2>5, <2>6
  <1>9. PageEnds'
    <2>1. oldest' # NoDate => \E i \in 1..r : list[i].date = oldest'
      <3>1. oldest # NoDate => \E i \in 1..r : list[i].date = oldest
        <4>1. oldest # NoDate => \E i \in 1..s : list[i].date = oldest
          BY <1>1, <1>2 DEF MissedInv, PageEnds
        <4>2. 1..s \subseteq 1..r
          BY <1>2
        <4>3. QED
          BY <4>1, <4>2
      <3>2. oldest' = oldest \/ (oldest' = ParseIsoDate(m.date))
        <4>1. oldest' = oldest \/ oldest' = OlderOf(ParseIsoDate(Head(page).date), oldest)
          BY DEF ScanRow
        <4>2. QED
          BY <1>2, <4>1 DEF OlderOf
      <3>3. ParseIsoDate(m.date) # NoDate => ParseIsoDate(m.date) = m.date
        BY DEF ParseIsoDate, MakeDate
      <3>4. PICK p \in 1..r : list[p].date = m.date
        <4>1. PICK p : p = s + 1 /\ m = list[p]
          BY <1>2
        <4>2. p \in 1..r
          BY <1>2, <4>1
        <4>3. QED
          BY <4>1, <4>2
      <3>5. CASE oldest' = oldest
        BY <3>1, <3>5
      <3>6. CASE oldest' = ParseIsoDate(m.date)
        BY <3>3, <3>4, <3>6
      <3>7. QED
        BY <3>2, <3>5, <3>6
    <2>2. link = "none" => cursor = Len(Listing)
      BY <1>1 DEF MissedInv, PageEnds
    <2>3. QED
      BY <1>1, <1>2, <1>3, <2>1, <2>2 DEF PageEnds
  <1>10. NothingIsMissed'
    BY <1>1 DEF NothingIsMissed
  <1>11. QED
    BY <1>6, <1>8, <1>9, <1>10 DEF MissedInv

\* A wanted row that is still to come forbids the end of a search with dates.
LEMMA RowsToComeGoOn ==
    ASSUME SearchInv, PageFits, MissedInv, pc = "scan", page = <<>>, IsProper, ShouldPaginate,
           Len(results) < limit, scanned < MaxScannedRows,
           NEW x \in ToSet(search.mail), Wanted(x),
           NEW i \in Seen + 1..Len(Listing), Listing[i] = x
    PROVE  ~NoFurtherPage
  <1>1. PICK c \in Nat, n \in Nat : c = cursor /\ c = Seen /\ c <= n /\ n = Len(Listing)
    <2>1. PICK c \in Nat : c = cursor
      BY MailIs DEF SearchInv, MailFits
    <2>2. PICK z : z = Len(page) /\ z = 0
      OBVIOUS
    <2>3. Seen = c - z
      BY <2>1, <2>2 DEF Seen
    <2>4. Len(Listing) \in Nat
      BY MailIs, ListingIs DEF SearchInv
    <2>5. QED
      BY <2>1, <2>2, <2>3, <2>4 DEF PageFits
  <1>2. i \in c + 1..n
    BY <1>1
  <1>3. ~(Len(results) >= limit) /\ ~(scanned >= MaxScannedRows)
    <2>1. limit \in Nat /\ MaxScannedRows \in Nat /\ Len(results) \in Nat /\ scanned \in Nat
      BY BoundsAre DEF SearchInv, MailFits, ResultsFit, RowsFit
    <2>2. QED
      BY <2>1
  <1>4. ~IsEmptyQuery(query)
    <2>1. SUFFICES ASSUME query.tokens = <<>> PROVE ~ShouldPaginate
      BY DEF IsEmptyQuery
    <2>2. \A scope : Dates(query, scope) = {}
      BY <2>1 DEF Dates
    <2>3. DateOf(query, "from") = NoDate /\ DateOf(query, "to") = NoDate
      BY <2>2 DEF DateOf
    <2>4. QED
      BY <2>3 DEF ShouldPaginate, criteria, SearchCriteria
  <1>5. link # "none"
    <2>1. link = "none" => c = n
      BY <1>1 DEF MissedInv, PageEnds
    <2>2. QED
      BY <1>1, <1>2, <2>1
  <1>6. ~PastFromDate
    <2> SUFFICES ASSUME criteria.from # NoDate, oldest # NoDate PROVE ~Before(oldest, criteria.from)
      BY DEF PastFromDate
    <2>1. PICK r \in 1..c : Listing[r].date = oldest
      BY <1>1 DEF MissedInv, PageEnds
    <2>2. PICK a \in 1..Len(mail), b \in 1..Len(mail) :
             a < b /\ b >= i /\ Listing[r] = mail[a] /\ Listing[i] = mail[b]
      <3>1. r \in 1..n /\ i \in 1..n /\ r < i
        BY <1>1, <1>2, <2>1
      <3>2. QED
        BY <1>1, <3>1, RowsArePlaces DEF SearchInv
    <2>3. MayPrecede(mail[a], x)
      BY <2>2 DEF MissedInv, BoxFits
    <2>4. Day(oldest) # 0 /\ mail[a].date = oldest
      BY <2>1, <2>2 DEF SearchInv, RowsFit
    <2>5. /\ Day(criteria.from) # 0 /\ Day(x.date) # 0 /\ Day(criteria.from) <= Day(x.date)
      BY WantedInDates DEF SearchInv, MailFits
    <2>6. Day(oldest) >= Day(x.date)
      BY <2>3, <2>4, <2>5 DEF MayPrecede
    <2>7. Day(oldest) \in Nat /\ Day(x.date) \in Nat /\ Day(criteria.from) \in Nat
      BY <2>4, <2>5, DayIs
    <2>8. ~(Day(oldest) < Day(criteria.from))
      BY <2>5, <2>6, <2>7
    <2>9. QED
      BY <2>4, <2>5, <2>8, DaysAreOrdered
  <1>7. QED
    BY <1>3, <1>4, <1>5, <1>6 DEF NoFurtherPage

\* Without dates the first page has no row that is still to come.
LEMMA RowsOfTheFirstPage ==
    ASSUME SearchInv, PageFits, MissedInv, page = <<>>, ~ShouldPaginate,
           NEW x \in ToSet(SubSeq(search.mail, 1, cursor))
    PROVE  x \in ToSet(search.mail) /\ \A i \in Seen + 1..Len(Listing) : Listing[i] # x
  <1>1. mail = search.mail /\ search \in Searches
    BY DEF MissedInv, BoxFits, SearchInv, MailFits
  <1>2. PICK c \in Nat, n \in Nat, l \in Nat :
           c = cursor /\ c = Seen /\ c <= n /\ n = Len(mail) /\ l = Len(Listing)
    <2>1. PICK n \in Nat, c \in Nat : c = cursor /\ n = Len(mail) /\ c \in 0..n
      <3>1. PICK n \in Nat : n = Len(mail)
        BY MailIs DEF SearchInv
      <3>2. cursor \in 0..n
        BY <3>1 DEF SearchInv, MailFits
      <3>3. PICK c \in 0..n : c = cursor
        BY <3>2
      <3>4. QED
        BY <3>1, <3>3
    <2>2. PICK z : z = Len(page) /\ z = 0
      OBVIOUS
    <2>3. Seen = c - z
      BY <2>1, <2>2 DEF Seen
    <2>4. PICK l \in Nat : l = Len(Listing)
      BY MailIs, ListingIs DEF SearchInv
    <2>5. c \in Nat /\ c = Seen /\ c <= n
      BY <2>1, <2>2, <2>3
    <2>6. QED
      BY <2>1, <2>4, <2>5
  <1>3. PICK k \in 1..c : x = mail[k]
    <2>1. \A j \in 1..c : mail[j] \in ToSet(mail)
      <3>1. \A j \in 1..n : mail[j] \in ToSet(mail)
        BY <1>2, MailIs DEF SearchInv
      <3>2. QED
        BY <1>2, <3>1
    <2>2. PICK first : first = SubSeq(mail, 1, c)
      OBVIOUS
    <2>3. /\ first \in Seq(ToSet(mail))
          /\ Len(first) = IF 1 <= c THEN c - 1 + 1 ELSE 0
          /\ \A j \in 1..c - 1 + 1 : first[j] = mail[1 + j - 1]
      BY <2>1, <2>2, SubSeqProperties
    <2>4. DOMAIN first = 1..c
      BY <2>3
    <2>5. x \in ToSet(first)
      BY <1>1, <1>2, <2>2
    <2>6. PICK k \in 1..c : x = first[k]
      BY <2>4, <2>5 DEF ToSet
    <2>7. first[k] = mail[k]
      BY <2>3
    <2>8. QED
      BY <2>6, <2>7
  <1>4. x \in ToSet(mail)
    <2>1. k \in 1..Len(mail) /\ mail \in Seq(ToSet(mail))
      BY <1>2, MailIs DEF SearchInv
    <2>2. QED
      BY <1>3, <2>1
  <1>5. ASSUME NEW i \in Seen + 1..Len(Listing) PROVE Listing[i] # x
    <2>1. i \in c + 1..l
      BY <1>2
    <2>2. PICK b \in 1..n : b >= i /\ Listing[i] = mail[b]
      <3>1. i \in 1..l
        BY <2>1
      <3>2. QED
        BY <1>2, <3>1, RowsArePlaces DEF SearchInv
    <2>3. k < b /\ k \in 1..n
      BY <1>2, <2>1, <2>2
    <2>4. DOMAIN search.mail = 1..n
      BY <1>1, <1>2, SearchAssumption
    <2>5. mail[k].id # mail[b].id
      BY <1>1, <2>3, <2>4, MailAssumption
    <2>6. QED
      BY <1>3, <2>2, <2>5
  <1>6. QED
    BY <1>1, <1>4, <1>5

\* The search ends only when nothing is missed.
LEMMA EndLosesNone ==
    ASSUME SearchInv, PageFits, MissedInv, EndPage
    PROVE  MissedInv'
  <1>1. /\ pc = "scan" /\ page = <<>>
        /\ pc' = IF NoFurtherPage THEN "done" ELSE "next"
        /\ UNCHANGED <<search, honoured, mail, cursor, page, link, scanned, oldest, results>>
    BY DEF EndPage
  <1>2. Seen' = Seen
    BY <1>1 DEF Seen
  <1>3. BoxFits' /\ NoneLost'
    BY <1>1, <1>2, RowsStay DEF MissedInv
  <1>4. /\ (IsProper' <=> IsProper) /\ (ShouldPaginate' <=> ShouldPaginate)
        /\ limit' = limit /\ MaxScannedRows' = MaxScannedRows
        /\ \A x : Wanted(x)' <=> Wanted(x)
    BY <1>1, ProperStays
  <1>5. PageEnds'
    BY <1>1, <1>4 DEF PageEnds, NoFurtherPage
  <1>6. ASSUME NoFurtherPage, IsProper, Len(results) < limit, scanned < MaxScannedRows,
               NEW x \in IF ShouldPaginate THEN ToSet(search.mail) ELSE ToSet(SubSeq(search.mail, 1, cursor)),
               Wanted(x), x.id \notin ToSet(results)
        PROVE  FALSE
    <2>1. ASSUME x \in ToSet(search.mail)
          PROVE  \E i \in Seen + 1..Len(Listing) : Listing[i] = x
      BY <1>6, <2>1 DEF MissedInv, NoneLost
    <2>2. CASE ShouldPaginate
      <3>1. PICK i \in Seen + 1..Len(Listing) : Listing[i] = x
        BY <2>1, <2>2
      <3>2. QED
        BY <1>1, <1>6, <2>2, <3>1, RowsToComeGoOn
    <2>3. CASE ~ShouldPaginate
      <3>1. x \in ToSet(SubSeq(search.mail, 1, cursor))
        BY <2>3
      <3>2. x \in ToSet(search.mail) /\ \A i \in Seen + 1..Len(Listing) : Listing[i] # x
        BY <1>1, <2>3, <3>1, RowsOfTheFirstPage
      <3>3. QED
        BY <2>1, <3>2
    <2>4. QED
      BY <2>2, <2>3
  <1>7. NothingIsMissed'
    <2>1. /\ ToSet(search.mail)' = ToSet(search.mail) /\ ToSet(results)' = ToSet(results)
          /\ ToSet(SubSeq(search.mail, 1, cursor))' = ToSet(SubSeq(search.mail, 1, cursor))
      BY <1>1 DEF ToSet
    <2>2. pc' = "done" => NoFurtherPage
      BY <1>1
    <2>3. SUFFICES ASSUME pc' = "done", IsProper, Len(results) < limit, scanned < MaxScannedRows,
                          NEW x \in IF ShouldPaginate THEN ToSet(search.mail)
                                    ELSE ToSet(SubSeq(search.mail, 1, cursor)), Wanted(x)
                   PROVE  x.id \in ToSet(results)
      <3>1. CASE ShouldPaginate
        BY <1>1, <1>4, <2>1, <2>3, <3>1 DEF NothingIsMissed
      <3>2. CASE ~ShouldPaginate
        BY <1>1, <1>4, <2>1, <2>3, <3>2 DEF NothingIsMissed
      <3>3. QED
        BY <3>1, <3>2
    <2>4. QED
      BY <1>6, <2>2, <2>3
  <1>8. QED
    BY <1>3, <1>5, <1>7 DEF MissedInv

\* A step that leaves the rows alone, and ends the search only without an answer.
LEMMA MissedStays ==
    ASSUME MissedInv, UNCHANGED <<search, honoured, mail, cursor, page, link, oldest, scanned, results>>,
           \/ UNCHANGED pc
           \/ pc' \in {"first", "failed"}
           \/ pc' = "done" /\ ~IsProper
    PROVE  MissedInv'
  <1>1. Seen' = Seen
    BY DEF Seen
  <1>2. Listing' = Listing
    BY ListingStays
  <1>3. BoxFits' /\ NoneLost'
    BY <1>1, RowsStay DEF MissedInv
  <1>4. /\ (IsProper' <=> IsProper) /\ (ShouldPaginate' <=> ShouldPaginate)
        /\ limit' = limit /\ MaxScannedRows' = MaxScannedRows
        /\ \A x : Wanted(x)' <=> Wanted(x)
    BY ProperStays
  <1>5. PageEnds'
    BY <1>1, <1>2, <1>4 DEF MissedInv, PageEnds
  <1>6. NothingIsMissed'
    <2>1. /\ ToSet(search.mail)' = ToSet(search.mail) /\ ToSet(results)' = ToSet(results)
          /\ ToSet(SubSeq(search.mail, 1, cursor))' = ToSet(SubSeq(search.mail, 1, cursor))
      BY DEF ToSet
    <2>2. CASE ShouldPaginate
      BY <1>4, <2>1, <2>2 DEF MissedInv, NothingIsMissed
    <2>3. CASE ~ShouldPaginate
      BY <1>4, <2>1, <2>3 DEF MissedInv, NothingIsMissed
    <2>4. QED
      BY <2>2, <2>3
  <1>7. QED
    BY <1>3, <1>5, <1>6 DEF MissedInv

\* No step misses anything.
LEMMA NextMissesNone ==
    ASSUME SearchInv, PageFits, MissedInv, [Next]_vars
    PROVE  MissedInv'
  <1>1. CASE ParseScopedQuery
    <2>1. search \in Searches
      BY DEF SearchInv, MailFits
    <2>2. /\ UNCHANGED <<search, honoured, mail, cursor, page, link, oldest, scanned, results>>
          /\ pc' \in {"first", "failed"} \/ (pc' = "done" /\ ~IsProper)
      BY <1>1, <2>1, ProperIsScoped DEF ParseScopedQuery
    <2>3. QED
      BY <2>2, MissedStays
  <1>2. CASE GetFirstPage \/ GetNextPage
    <2>1. pc # "scan"
      BY <1>2 DEF GetFirstPage, GetNextPage
    <2>2. page = <<>>
      BY <2>1 DEF SearchInv, RowsFit
    <2>3. DeliverPage /\ UNCHANGED <<search, honoured, mail, results>>
      BY <1>2 DEF GetFirstPage, GetNextPage
    <2>4. QED
      BY <2>2, <2>3, DeliveryLosesNone
  <1>3. CASE ScanRow
    BY <1>3, ScanLosesNone
  <1>4. CASE EndPage
    BY <1>4, EndLosesNone
  <1>5. CASE MailArrives
    BY <1>5, ArrivalLosesNone
  <1>6. CASE BuildMatcher \/ SearchFails \/ UNCHANGED vars
    <2>1. /\ UNCHANGED <<search, honoured, mail, cursor, page, link, oldest, scanned, results>>
          /\ UNCHANGED pc \/ pc' = "failed"
      BY <1>6 DEF BuildMatcher, SearchFails, vars, searchVars
    <2>2. QED
      BY <2>1, MissedStays
  <1>7. QED
    BY <1>1, <1>2, <1>3, <1>4, <1>5, <1>6 DEF Next, SearchStep

\* Below the limit, and unless the bound on the rows ended the search, the answer has
\* all that the mailbox held and the query wants, whatever arrives and however Graph
\* cuts its pages; without dates, all that is on the first page (api.cpp,
\* SearchMessages).
THEOREM SearchMissesNothing == Spec => []NothingIsMissed
  <1>1. Init => SearchInv /\ OrderInv /\ MissedInv
    BY InitHoldsSearchInv, InitHoldsOrder, InitHoldsMissed
  <1>2. SearchInv /\ OrderInv /\ MissedInv /\ [Next]_vars => SearchInv' /\ OrderInv' /\ MissedInv'
    BY NextKeeps, NextKeepsOrder, NextMissesNone DEF OrderInv
  <1>3. MissedInv => NothingIsMissed
    BY DEF MissedInv
  <1>4. QED
    BY <1>1, <1>2, <1>3, PTL DEF Spec
================================================================================
