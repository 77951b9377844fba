---------------------------- MODULE BPTreeShape ----------------------------
(***************************************************************************)
(* The shape of a B+ tree apart from its pages and threads: T is the set   *)
(* of its nodes, v[p] what is in node p (keys, kids, next), lo[p], hi[p]   *)
(* the range of keys p stands for and lev[p] its height above the leaves.  *)
(* Ranges says that the nodes of each level divide the keys below top      *)
(* among them, Fits that the contents of a node agree with that.  The      *)
(* lemmas at the end say that dividing a node, moving the boundary of two  *)
(* siblings, uniting them, and adding or taking away a root keep a tree a  *)
(* tree: the repairs of bptree.c are made of these.                        *)
(***************************************************************************)
EXTENDS Integers, FiniteSets, SequencesExt, FiniteSetTheorems, SequenceTheorems,
        WellFoundedInduction, TLAPS

LEMMA Least ==
  ASSUME NEW S, S \subseteq Nat, S # {}
  PROVE  \E m \in S : \A x \in S : m <= x
PROOF
  <1> DEFINE R == OpToRel(<, Nat)
  <1>1. IsWellFoundedOn(R, Nat) BY NatLessThanWellFounded
  <1> HIDE DEF R
  <1>2. PICK m \in S : \A y \in S : ~(<<y, m>> \in R)
    BY <1>1, WFMin
  <1>3. ASSUME NEW x \in S PROVE m <= x
    <2>1. <<x, m>> \notin R BY <1>2
    <2>2. x \in Nat /\ m \in Nat OBVIOUS
    <2>3. ~(x < m) BY <2>1, <2>2 DEF R, OpToRel
    <2> QED BY <2>2, <2>3
  <1> QED BY <1>3

LEMMA Less == \A x, y \in Nat : x < y => x # y
PROOF OBVIOUS

LEMMA PartIs ==
  ASSUME NEW S, NEW s \in Seq(S), NEW a \in Nat, NEW b \in Nat,
         1 <= a, a <= b + 1, b <= Len(s)
  PROVE  /\ SubSeq(s, a, b) \in Seq(S) /\ Len(SubSeq(s, a, b)) = b - a + 1
         /\ \A i \in 1..(b - a + 1) : SubSeq(s, a, b)[i] = s[a + i - 1]
PROOF OBVIOUS

LEMMA JoinIs ==
  ASSUME NEW S, NEW s \in Seq(S), NEW r \in Seq(S)
  PROVE  /\ s \o r \in Seq(S) /\ Len(s \o r) = Len(s) + Len(r)
         /\ \A i \in 1..Len(s) : (s \o r)[i] = s[i]
         /\ \A i \in 1..Len(r) : (s \o r)[Len(s) + i] = r[i]
PROOF OBVIOUS

LEMMA InsertIs ==
  ASSUME NEW S, NEW s \in Seq(S), NEW e \in S, NEW a \in 1..(Len(s) + 1)
  PROVE  /\ InsertAt(s, a, e) \in Seq(S) /\ Len(InsertAt(s, a, e)) = Len(s) + 1
         /\ \A i \in 1..(Len(s) + 1) :
              /\ i < a => InsertAt(s, a, e)[i] = s[i]
              /\ i = a => InsertAt(s, a, e)[i] = e
              /\ i > a => InsertAt(s, a, e)[i] = s[i - 1]
PROOF
  <1> DEFINE x == SubSeq(s, 1, a - 1)
             y == SubSeq(s, a, Len(s))
  <1>1. x \in Seq(S) /\ Len(x) = a - 1 /\ \A i \in 1..(a - 1) : x[i] = s[i]
    OBVIOUS
  <1>2. /\ y \in Seq(S) /\ Len(y) = Len(s) - a + 1
        /\ \A i \in 1..(Len(s) - a + 1) : y[i] = s[a + i - 1]
    OBVIOUS
  <1>3. InsertAt(s, a, e) = (x \o <<e>>) \o y BY DEF InsertAt
  <1> HIDE DEF x, y
  <1>4. /\ x \o <<e>> \in Seq(S) /\ Len(x \o <<e>>) = a
        /\ \A i \in 1..a : (x \o <<e>>)[i] = IF i < a THEN s[i] ELSE e
    BY <1>1
  <1>5. PICK z : z = x \o <<e>> OBVIOUS
  <1>6. /\ z \o y \in Seq(S) /\ Len(z \o y) = Len(s) + 1
        /\ \A i \in 1..(Len(s) + 1) :
             (z \o y)[i] = IF i < a THEN s[i] ELSE IF i = a THEN e ELSE s[i - 1]
    <2>1. z \o y \in Seq(S) /\ Len(z \o y) = Len(s) + 1 BY <1>2, <1>4, <1>5
    <2>2. ASSUME NEW i \in 1..(Len(s) + 1), i <= a
          PROVE  (z \o y)[i] = IF i < a THEN s[i] ELSE e
      BY <2>2, <1>2, <1>4, <1>5
    <2>3. ASSUME NEW i \in 1..(Len(s) + 1), i > a
          PROVE  (z \o y)[i] = s[i - 1]
      <3>1. (z \o y)[i] = y[i - a] BY <2>3, <1>2, <1>4, <1>5
      <3>2. i - a \in 1..(Len(s) - a + 1) /\ a + (i - a) - 1 = i - 1 BY <2>3
      <3> QED BY <3>1, <3>2, <1>2
    <2> QED BY <2>1, <2>2, <2>3
  <1> QED BY <1>3, <1>5, <1>6

Inserted(r, s, n, a, e) ==
  \A i \in 1..(n + 1) :
    (i < a => r[i] = s[i]) /\ (i = a => r[i] = e) /\ (i > a => r[i] = s[i - 1])

LEMMA InsertNat ==
  ASSUME NEW s \in Seq(Nat), NEW e \in Nat, NEW n, n = Len(s), NEW a \in 1..(n + 1),
         NEW r, r = InsertAt(s, a, e)
  PROVE  r \in Seq(Nat) /\ Len(r) = n + 1 /\ Inserted(r, s, n, a, e)
PROOF
  <1>1. PICK N : N = Nat OBVIOUS
  <1>2. PICK x : x = e OBVIOUS
  <1>3. PICK t : t = s OBVIOUS
  <1>4. t \in Seq(N) /\ x \in N /\ a \in 1..(Len(t) + 1) BY <1>1, <1>2, <1>3
  <1>5. /\ InsertAt(t, a, x) \in Seq(N) /\ Len(InsertAt(t, a, x)) = Len(t) + 1
        /\ \A i \in 1..(Len(t) + 1) : /\ i < a => InsertAt(t, a, x)[i] = t[i]
                                      /\ i = a => InsertAt(t, a, x)[i] = x
                                      /\ i > a => InsertAt(t, a, x)[i] = t[i - 1]
    BY <1>4, InsertIs
  <1> QED BY <1>5, <1>1, <1>2, <1>3 DEF Inserted

LEMMA RemoveIs ==
  ASSUME NEW S, NEW s \in Seq(S), NEW a \in 1..Len(s)
  PROVE  /\ RemoveAt(s, a) \in Seq(S) /\ Len(RemoveAt(s, a)) = Len(s) - 1
         /\ \A i \in 1..(Len(s) - 1) :
              RemoveAt(s, a)[i] = IF i < a THEN s[i] ELSE s[i + 1]
PROOF
  <1> DEFINE x == SubSeq(s, 1, a - 1)
             y == SubSeq(s, a + 1, Len(s))
  <1>1. x \in Seq(S) /\ Len(x) = a - 1 /\ \A i \in 1..(a - 1) : x[i] = s[i]
    OBVIOUS
  <1>2. /\ y \in Seq(S) /\ Len(y) = Len(s) - a
        /\ \A i \in 1..(Len(s) - a) : y[i] = s[a + i]
    OBVIOUS
  <1>3. RemoveAt(s, a) = x \o y BY DEF RemoveAt
  <1> HIDE DEF x, y
  <1>4. ASSUME NEW i \in 1..(Len(s) - 1), i >= a
        PROVE  (x \o y)[i] = s[i + 1]
    <2>1. (x \o y)[i] = y[i - a + 1] BY <1>4, <1>1, <1>2
    <2>2. i - a + 1 \in 1..(Len(s) - a) /\ a + (i - a + 1) = i + 1 BY <1>4
    <2> QED BY <2>1, <2>2, <1>2
  <1>5. ASSUME NEW i \in 1..(Len(s) - 1), i < a
        PROVE  (x \o y)[i] = s[i]
    BY <1>5, <1>1, <1>2
  <1>6. x \o y \in Seq(S) /\ Len(x \o y) = Len(s) - 1 BY <1>1, <1>2
  <1> QED BY <1>3, <1>4, <1>5, <1>6
-----------------------------------------------------------------------------
Ordered(ks) == \A i, j \in 1..Len(ks) : i < j => ks[i] < ks[j]
InRange(ks, l, h) ==
  ks \in Seq(Nat) /\ Ordered(ks) /\ \A i \in 1..Len(ks) : l <= ks[i] /\ ks[i] < h

Ranges(T, lo, hi, lev, h, top) ==
  /\ h \in Nat /\ top \in Nat
  /\ \A p \in T :
       /\ lo[p] \in Nat /\ hi[p] \in Nat /\ lev[p] \in 0..h
       /\ lo[p] < hi[p] /\ hi[p] <= top
  /\ \A p, q \in T : lev[p] = lev[q] /\ p # q => hi[p] <= lo[q] \/ hi[q] <= lo[p]
  /\ \A d \in 0..h : \A k \in 0..(top - 1) :
       \E p \in T : lev[p] = d /\ lo[p] <= k /\ k < hi[p]

InnerFits(ks, cs, l, h, d, T, lo, hi, lev) ==
  /\ ks \in Seq(Nat) /\ cs \in Seq(T) /\ Len(cs) = Len(ks) + 1
  /\ \A i \in 1..Len(cs) : lev[cs[i]] + 1 = d
  /\ lo[cs[1]] = l /\ hi[cs[Len(cs)]] = h
  /\ \A i \in 1..Len(ks) : hi[cs[i]] = ks[i] /\ lo[cs[i + 1]] = ks[i]

LeafFits(x, l, h, T, lo, lev, top) ==
  /\ x.kids = << >> /\ InRange(x.keys, l, h)
  /\ IF h = top THEN x.next = 0 ELSE x.next \in T /\ lev[x.next] = 0 /\ lo[x.next] = h

Fits(x, p, T, lo, hi, lev, top) ==
  IF lev[p] = 0 THEN LeafFits(x, lo[p], hi[p], T, lo, lev, top)
  ELSE InnerFits(x.keys, x.kids, lo[p], hi[p], lev[p], T, lo, hi, lev)

Tree(T, v, lo, hi, lev, h, top) ==
  /\ 0 \notin T
  /\ Ranges(T, lo, hi, lev, h, top)
  /\ \A p \in T : Fits(v[p], p, T, lo, hi, lev, top)

-----------------------------------------------------------------------------
LEMMA OnePage ==
  ASSUME NEW T, NEW lo, NEW hi, NEW lev, NEW h, NEW top, Ranges(T, lo, hi, lev, h, top),
         NEW p \in T, NEW q \in T, NEW k \in Nat, lev[p] = lev[q],
         lo[p] <= k, k < hi[p], lo[q] <= k, k < hi[q]
  PROVE  p = q
PROOF
  <1>1. lo[p] \in Nat /\ hi[p] \in Nat /\ lo[q] \in Nat /\ hi[q] \in Nat BY DEF Ranges
  <1>2. p # q => hi[p] <= lo[q] \/ hi[q] <= lo[p] BY DEF Ranges
  <1> QED BY <1>1, <1>2

LEMMA Order ==
  ASSUME NEW T, NEW lo, NEW hi, NEW lev, NEW h, NEW top, Ranges(T, lo, hi, lev, h, top),
         NEW ks, NEW cs, NEW a, NEW b, NEW d, InnerFits(ks, cs, a, b, d, T, lo, hi, lev)
  PROVE  /\ \A i, j \in 1..Len(cs) : i < j => hi[cs[i]] <= lo[cs[j]] /\ cs[i] # cs[j]
         /\ \A i \in 1..Len(cs) : a <= lo[cs[i]] /\ hi[cs[i]] <= b
PROOF
  <1>1. PICK n \in Nat : n = Len(ks) /\ Len(cs) = n + 1 /\ n + 1 \in Nat
    BY DEF InnerFits
  <1>2. \A i \in 1..(n + 1) : /\ cs[i] \in T /\ lo[cs[i]] \in Nat /\ hi[cs[i]] \in Nat
                              /\ lo[cs[i]] < hi[cs[i]]
    BY <1>1 DEF InnerFits, Ranges
  <1>3. \A i \in 1..n : hi[cs[i]] = lo[cs[i + 1]]
    BY <1>1 DEF InnerFits
  <1>4. lo[cs[1]] = a /\ hi[cs[n + 1]] = b BY <1>1 DEF InnerFits
  <1>5. ASSUME NEW i \in 1..(n + 1), NEW j \in 1..(n + 1), i < j
        PROVE  hi[cs[i]] <= lo[cs[j]]
    <2> DEFINE Bad == {k \in 1..(n + 1) : i < k /\ ~(hi[cs[i]] <= lo[cs[k]])}
    <2>1. SUFFICES ASSUME Bad # {} PROVE FALSE BY <1>5
    <2>2. Bad \subseteq Nat OBVIOUS
    <2>3. PICK k \in Bad : \A x \in Bad : k <= x BY <2>1, <2>2, Least
    <2>4. k \in 1..(n + 1) /\ i < k /\ ~(hi[cs[i]] <= lo[cs[k]]) OBVIOUS
    <2>5. k - 1 \in 1..n /\ k - 1 >= i /\ (k - 1) + 1 = k /\ ~(k <= k - 1) BY <2>4
    <2>6. hi[cs[k - 1]] = lo[cs[k]] BY <2>5, <1>3
    <2>7. k - 1 # i BY <2>6, <2>4, <1>2
    <2>8. k - 1 \notin Bad BY <2>3, <2>5
    <2>9. hi[cs[i]] <= lo[cs[k - 1]] BY <2>8, <2>7, <2>5
    <2>10. k - 1 \in 1..(n + 1) BY <2>5
    <2>11. lo[cs[k - 1]] < hi[cs[k - 1]] /\ lo[cs[k - 1]] \in Nat /\ hi[cs[k - 1]] \in Nat
      BY <2>10, <1>2
    <2>12. hi[cs[i]] \in Nat BY <1>2
    <2> HIDE DEF Bad
    <2> QED BY <2>4, <2>6, <2>9, <2>11, <2>12
  <1>6. ASSUME NEW i \in 1..(n + 1), NEW j \in 1..(n + 1), i < j
        PROVE  cs[i] # cs[j]
    BY <1>5, <1>6, <1>2
  <1>7. ASSUME NEW i \in 1..(n + 1)
        PROVE  a <= lo[cs[i]] /\ hi[cs[i]] <= b
    <2>1. 1 \in 1..(n + 1) /\ n + 1 \in 1..(n + 1) BY <1>1
    <2>2. a <= lo[cs[i]]
      <3>1. CASE i = 1 BY <3>1, <1>4, <1>2
      <3>2. CASE i # 1
        <4>1. hi[cs[1]] <= lo[cs[i]] BY <3>2, <2>1, <1>5
        <4>2. lo[cs[1]] < hi[cs[1]] BY <2>1, <1>2
        <4> QED BY <4>1, <4>2, <2>1, <1>2, <1>4
      <3> QED BY <3>1, <3>2
    <2>3. hi[cs[i]] <= b
      <3>1. CASE i = n + 1 BY <3>1, <1>4, <1>2
      <3>2. CASE i # n + 1
        <4>1. hi[cs[i]] <= lo[cs[n + 1]] BY <3>2, <2>1, <1>5
        <4>2. lo[cs[n + 1]] < hi[cs[n + 1]] BY <2>1, <1>2
        <4> QED BY <4>1, <4>2, <2>1, <1>2, <1>4
      <3> QED BY <3>1, <3>2
    <2> QED BY <2>2, <2>3
  <1> QED BY <1>1, <1>5, <1>6, <1>7

LEMMA KeyChild ==
  ASSUME NEW T, NEW lo, NEW hi, NEW lev, NEW h, NEW top, Ranges(T, lo, hi, lev, h, top),
         NEW ks, NEW cs, NEW a, NEW b, NEW d, InnerFits(ks, cs, a, b, d, T, lo, hi, lev),
         NEW k \in Nat, a <= k, k < b
  PROVE  \E j \in 1..Len(cs) : lo[cs[j]] <= k /\ k < hi[cs[j]]
PROOF
  <1>1. PICK n \in Nat : n = Len(ks) /\ Len(cs) = n + 1 /\ n + 1 \in Nat
    BY DEF InnerFits
  <1>2. \A i \in 1..(n + 1) : cs[i] \in T /\ lo[cs[i]] \in Nat /\ hi[cs[i]] \in Nat
    BY <1>1 DEF InnerFits, Ranges
  <1>3. \A i \in 1..n : hi[cs[i]] = lo[cs[i + 1]]
    BY <1>1 DEF InnerFits
  <1>4. lo[cs[1]] = a /\ hi[cs[n + 1]] = b BY <1>1 DEF InnerFits
  <1> DEFINE S == {i \in 1..(n + 1) : k < hi[cs[i]]}
  <1>5. n + 1 \in S BY <1>1, <1>4
  <1>6. S \subseteq Nat OBVIOUS
  <1>7. PICK j \in S : \A x \in S : j <= x BY <1>5, <1>6, Least
  <1>8. lo[cs[j]] <= k
    <2>1. CASE j = 1 BY <2>1, <1>4
    <2>2. CASE j # 1
      <3>1. j - 1 \in 1..n /\ (j - 1) + 1 = j /\ j - 1 \in 1..(n + 1) /\ ~(j <= j - 1)
        BY <2>2
      <3>2. j - 1 \notin S BY <3>1, <1>7
      <3> QED BY <3>1, <3>2, <1>2, <1>3
    <2> QED BY <2>1, <2>2
  <1> QED BY <1>1, <1>7, <1>8

LEMMA ChildPlace ==
  ASSUME NEW T, NEW lo, NEW hi, NEW lev, NEW h, NEW top, Ranges(T, lo, hi, lev, h, top),
         NEW ks, NEW cs, NEW a, NEW b, NEW d, InnerFits(ks, cs, a, b, d, T, lo, hi, lev),
         NEW k \in Nat, NEW j \in 1..Len(cs), lo[cs[j]] <= k, k < hi[cs[j]]
  PROVE  Cardinality({i \in 1..Len(ks) : ks[i] <= k}) + 1 = j
PROOF
  <1>1. PICK n \in Nat : n = Len(ks) /\ Len(cs) = n + 1 /\ n + 1 \in Nat
    BY DEF InnerFits
  <1>2. \A i \in 1..(n + 1) : cs[i] \in T /\ lo[cs[i]] \in Nat /\ hi[cs[i]] \in Nat
    BY <1>1 DEF InnerFits, Ranges
  <1>3. \A i \in 1..n : hi[cs[i]] = ks[i] /\ lo[cs[i + 1]] = ks[i]
    BY <1>1 DEF InnerFits
  <1>4. \A x, y \in 1..(n + 1) : x < y => hi[cs[x]] <= lo[cs[y]] BY <1>1, Order
  <1>5. j \in 1..(n + 1) BY <1>1
  <1>6. ASSUME NEW i \in 1..n, i < j PROVE ks[i] <= k
    <2>1. hi[cs[i]] <= lo[cs[j]] BY <1>6, <1>4, <1>5
    <2> QED BY <2>1, <1>2, <1>3, <1>5, SMTT(30)
  <1>7. ASSUME NEW i \in 1..n, i >= j PROVE ~(ks[i] <= k)
    <2>1. i + 1 \in 1..(n + 1) /\ j < i + 1 BY <1>7, <1>5
    <2>2. hi[cs[j]] <= lo[cs[i + 1]] BY <2>1, <1>4, <1>5
    <2> QED BY <2>1, <2>2, <1>2, <1>3, <1>5
  <1>8. {i \in 1..n : ks[i] <= k} = 1..(j - 1) BY <1>5, <1>6, <1>7
  <1>9. Cardinality(1..(j - 1)) = j - 1
    <2>1. 1 \in Int /\ j - 1 \in Int /\ j - 1 >= 0 BY <1>5
    <2>2. Cardinality(1..(j - 1)) = IF 1 > j - 1 THEN 0 ELSE (j - 1) - 1 + 1
      BY <2>1, FS_Interval
    <2> QED BY <2>1, <2>2
  <1>10. {i \in 1..Len(ks) : ks[i] <= k} = 1..(j - 1) BY <1>1, <1>8
  <1>11. Cardinality({i \in 1..Len(ks) : ks[i] <= k}) = j - 1 BY <1>9, <1>10, Zenon
  <1>12. (j - 1) + 1 = j BY <1>5
  <1> QED BY <1>11, <1>12, Zenon

LEMMA OneParent ==
  ASSUME NEW T, NEW v, NEW lo, NEW hi, NEW lev, NEW h, NEW top,
         Tree(T, v, lo, hi, lev, h, top),
         NEW u \in T, NEW w \in T, NEW p \in T,
         NEW i \in 1..Len(v[u].kids), NEW j \in 1..Len(v[w].kids),
         v[u].kids[i] = p, v[w].kids[j] = p
  PROVE  u = w /\ i = j /\ lev[u] = lev[p] + 1
PROOF
  <1>1. /\ Ranges(T, lo, hi, lev, h, top)
        /\ Fits(v[u], u, T, lo, hi, lev, top) /\ Fits(v[w], w, T, lo, hi, lev, top)
    BY DEF Tree
  <1>2. lev[u] # 0 /\ lev[w] # 0 BY <1>1 DEF Fits, LeafFits
  <1>3. /\ InnerFits(v[u].keys, v[u].kids, lo[u], hi[u], lev[u], T, lo, hi, lev)
        /\ InnerFits(v[w].keys, v[w].kids, lo[w], hi[w], lev[w], T, lo, hi, lev)
    BY <1>1, <1>2 DEF Fits
  <1>4. lev[p] + 1 = lev[u] /\ lev[p] + 1 = lev[w]
    BY <1>3 DEF InnerFits
  <1>5. lo[u] <= lo[p] /\ hi[p] <= hi[u] BY <1>1, <1>3, Order
  <1>6. lo[w] <= lo[p] /\ hi[p] <= hi[w] BY <1>1, <1>3, Order
  <1>7. u = w
    <2>1. /\ lo[p] \in Nat /\ hi[p] \in Nat /\ lo[p] < hi[p]
          /\ hi[u] \in Nat /\ hi[w] \in Nat /\ lev[u] = lev[w]
      BY <1>1, <1>4 DEF Ranges
    <2>2. lo[p] < hi[u] /\ lo[p] < hi[w] BY <2>1, <1>5, <1>6
    <2> QED BY <2>1, <2>2, <1>1, <1>5, <1>6, OnePage
  <1>8. \A x, y \in 1..Len(v[u].kids) : x < y => v[u].kids[x] # v[u].kids[y]
    BY <1>1, <1>3, Order
  <1>9. i = j BY <1>7, <1>8
  <1> QED BY <1>4, <1>7, <1>9

LEMMA HasParent ==
  ASSUME NEW T, NEW v, NEW lo, NEW hi, NEW lev, NEW h, NEW top,
         Tree(T, v, lo, hi, lev, h, top), NEW p \in T, lev[p] # h
  PROVE  \E u \in T : \E i \in 1..Len(v[u].kids) : v[u].kids[i] = p
PROOF
  <1>1. Ranges(T, lo, hi, lev, h, top) BY DEF Tree
  <1>2. /\ lo[p] \in Nat /\ lo[p] \in 0..(top - 1) /\ lev[p] + 1 \in 0..h
        /\ lev[p] \in Nat /\ lo[p] < hi[p] /\ hi[p] \in Nat
    BY <1>1 DEF Ranges
  <1>3. PICK u \in T : lev[u] = lev[p] + 1 /\ lo[u] <= lo[p] /\ lo[p] < hi[u]
    BY <1>1, <1>2 DEF Ranges
  <1>4. lev[u] # 0 BY <1>2, <1>3
  <1>5. InnerFits(v[u].keys, v[u].kids, lo[u], hi[u], lev[u], T, lo, hi, lev)
    BY <1>4 DEF Tree, Fits
  <1>6. PICK i \in 1..Len(v[u].kids) :
          lo[v[u].kids[i]] <= lo[p] /\ lo[p] < hi[v[u].kids[i]]
    BY <1>1, <1>2, <1>3, <1>5, KeyChild
  <1>7. v[u].kids[i] \in T /\ lev[v[u].kids[i]] + 1 = lev[u]
    BY <1>5 DEF InnerFits
  <1>8. PICK c \in T : c = v[u].kids[i] BY <1>7
  <1>9. lo[c] \in Nat /\ hi[c] \in Nat /\ lev[c] \in Nat BY <1>1 DEF Ranges
  <1>10. lev[c] = lev[p] BY <1>2, <1>3, <1>7, <1>8, <1>9
  <1>11. c = p BY <1>1, <1>2, <1>6, <1>8, <1>10, OnePage
  <1> QED BY <1>8, <1>11
-----------------------------------------------------------------------------
LEMMA SeqIn ==
  ASSUME NEW S, NEW U, NEW s \in Seq(S), \A i \in 1..Len(s) : s[i] \in U
  PROVE  s \in Seq(U)
PROOF
  <1>1. PICK n \in Nat : n = Len(s) OBVIOUS
  <1>2. s = [i \in 1..n |-> s[i]] BY <1>1
  <1>3. s \in [1..n -> U] BY <1>1, <1>2
  <1> QED BY <1>3

LEMMA KidsStill ==
  ASSUME NEW T, NEW lo, NEW hi, NEW lev, NEW T2, NEW lo2, NEW hi2, NEW lev2,
         NEW ks, NEW cs, NEW a, NEW b, NEW d, InnerFits(ks, cs, a, b, d, T, lo, hi, lev),
         \A i \in 1..Len(cs) : /\ cs[i] \in T2 /\ lo2[cs[i]] = lo[cs[i]]
                               /\ hi2[cs[i]] = hi[cs[i]] /\ lev2[cs[i]] = lev[cs[i]]
  PROVE  InnerFits(ks, cs, a, b, d, T2, lo2, hi2, lev2)
PROOF
  <1>1. PICK n \in Nat : n = Len(ks) /\ Len(cs) = n + 1
    BY DEF InnerFits
  <1>2. cs \in Seq(T2) BY SeqIn DEF InnerFits
  <1>3. /\ lo[cs[1]] = a /\ hi[cs[n + 1]] = b /\ ks \in Seq(Nat)
        /\ \A i \in 1..n : hi[cs[i]] = ks[i] /\ lo[cs[i + 1]] = ks[i]
        /\ \A i \in 1..(n + 1) : lev[cs[i]] + 1 = d
    BY <1>1 DEF InnerFits
  <1>4. 1 \in 1..(n + 1) /\ n + 1 \in 1..(n + 1)
        /\ \A i \in 1..n : i \in 1..(n + 1) /\ i + 1 \in 1..(n + 1)
    OBVIOUS
  <1>5. /\ lo2[cs[1]] = a /\ hi2[cs[n + 1]] = b
        /\ \A i \in 1..n : hi2[cs[i]] = ks[i] /\ lo2[cs[i + 1]] = ks[i]
        /\ \A i \in 1..(n + 1) : lev2[cs[i]] + 1 = d
    BY <1>1, <1>3, <1>4
  <1> QED BY <1>1, <1>2, <1>3, <1>5 DEF InnerFits

LEMMA KidsBelow ==
  ASSUME NEW T, NEW lo, NEW hi, NEW lev, NEW T2, NEW lo2, NEW hi2,
         NEW ks, NEW cs, NEW a, NEW b, NEW d, InnerFits(ks, cs, a, b, d, T, lo, hi, lev),
         \A q \in T : lev[q] \in Nat,
         \A q \in T : lev[q] # d => q \in T2 /\ lo2[q] = lo[q] /\ hi2[q] = hi[q]
  PROVE  InnerFits(ks, cs, a, b, d, T2, lo2, hi2, lev)
PROOF
  <1>1. cs \in Seq(T) /\ \A i \in 1..Len(cs) : lev[cs[i]] + 1 = d BY DEF InnerFits
  <1>2. ASSUME NEW i \in 1..Len(cs) PROVE cs[i] \in T /\ lev[cs[i]] # d
    <2>1. cs[i] \in T BY <1>1
    <2>2. PICK n \in Nat : n = lev[cs[i]] BY <2>1
    <2>3. n + 1 = d BY <1>1, <2>2
    <2>4. n # d BY <2>3
    <2> QED BY <2>1, <2>2, <2>4
  <1>3. \A i \in 1..Len(cs) : /\ cs[i] \in T2 /\ lo2[cs[i]] = lo[cs[i]]
                              /\ hi2[cs[i]] = hi[cs[i]] /\ lev[cs[i]] = lev[cs[i]]
    BY <1>2
  <1> QED BY <1>3, KidsStill

LEMMA SplitFits ==
  ASSUME NEW T, NEW lo, NEW hi, NEW lev,
         NEW ks, NEW cs, NEW a, NEW b, NEW d, InnerFits(ks, cs, a, b, d, T, lo, hi, lev),
         NEW m \in 1..Len(ks)
  PROVE  /\ InnerFits(SubSeq(ks, 1, m - 1), SubSeq(cs, 1, m), a, ks[m], d, T, lo, hi, lev)
         /\ InnerFits(SubSeq(ks, m + 1, Len(ks)), SubSeq(cs, m + 1, Len(cs)), ks[m], b, d,
                      T, lo, hi, lev)
PROOF
  <1>1. PICK n \in Nat : n = Len(ks) /\ Len(cs) = n + 1 /\ m \in 1..n
    BY DEF InnerFits
  <1>2. /\ lo[cs[1]] = a /\ hi[cs[n + 1]] = b /\ ks \in Seq(Nat) /\ cs \in Seq(T)
        /\ \A i \in 1..n : hi[cs[i]] = ks[i] /\ lo[cs[i + 1]] = ks[i]
        /\ \A i \in 1..(n + 1) : lev[cs[i]] + 1 = d
    BY <1>1 DEF InnerFits
  <1>3. PICK k1 : k1 = SubSeq(ks, 1, m - 1) OBVIOUS
  <1>4. PICK c1 : c1 = SubSeq(cs, 1, m) OBVIOUS
  <1>5. PICK k2 : k2 = SubSeq(ks, m + 1, n) OBVIOUS
  <1>6. PICK c2 : c2 = SubSeq(cs, m + 1, n + 1) OBVIOUS
  <1>7. k1 \in Seq(Nat) /\ Len(k1) = m - 1 /\ \A i \in 1..(m - 1) : k1[i] = ks[i]
    BY <1>1, <1>2, <1>3
  <1>8. c1 \in Seq(T) /\ Len(c1) = m /\ \A i \in 1..m : c1[i] = cs[i]
    BY <1>1, <1>2, <1>4
  <1>9. k2 \in Seq(Nat) /\ Len(k2) = n - m /\ \A i \in 1..(n - m) : k2[i] = ks[m + i]
    <2>1. m \in Nat /\ m <= n /\ Len(ks) = n /\ ks \in Seq(Nat) BY <1>1, <1>2
    <2>2. k2 \in Seq(Nat) /\ Len(k2) = n - m BY <2>1, <1>5
    <2>3. \A i \in 1..(n - m) : k2[i] = ks[m + i] BY <2>1, <1>5
    <2> QED BY <2>2, <2>3
  <1>10. c2 \in Seq(T) /\ Len(c2) = n - m + 1 /\ \A i \in 1..(n - m + 1) : c2[i] = cs[m + i]
    BY <1>1, <1>2, <1>6
  <1>11. InnerFits(k1, c1, a, ks[m], d, T, lo, hi, lev)
    <2>1. \A i \in 1..(m - 1) : hi[c1[i]] = k1[i] /\ lo[c1[i + 1]] = k1[i]
      <3> TAKE i \in 1..(m - 1)
      <3>1. i \in 1..n /\ i \in 1..m /\ i + 1 \in 1..m BY <1>1
      <3>2. c1[i] = cs[i] /\ c1[i + 1] = cs[i + 1] BY <3>1, <1>8
      <3>3. k1[i] = ks[i] BY <1>7
      <3> QED BY <3>1, <3>2, <3>3, <1>2
    <2>2. \A i \in 1..m : lev[c1[i]] + 1 = d BY <1>1, <1>2, <1>8
    <2>3. lo[c1[1]] = a /\ hi[c1[m]] = ks[m] BY <1>1, <1>2, <1>8
    <2> QED BY <1>1, <1>7, <1>8, <2>1, <2>2, <2>3 DEF InnerFits
  <1>12. InnerFits(k2, c2, ks[m], b, d, T, lo, hi, lev)
    <2>1. ASSUME NEW i \in 1..(n - m) PROVE hi[c2[i]] = k2[i] /\ lo[c2[i + 1]] = k2[i]
      <3>1. m + i \in 1..n /\ i \in 1..(n - m + 1) /\ i + 1 \in 1..(n - m + 1)
            /\ m + (i + 1) = (m + i) + 1
        BY <1>1
      <3>2. c2[i] = cs[m + i] /\ c2[i + 1] = cs[(m + i) + 1] /\ k2[i] = ks[m + i]
        BY <3>1, <1>9, <1>10
      <3> QED BY <3>1, <3>2, <1>2
    <2>2. ASSUME NEW i \in 1..(n - m + 1) PROVE lev[c2[i]] + 1 = d
      <3>1. m + i \in 1..(n + 1) BY <1>1
      <3>2. c2[i] = cs[m + i] BY <1>10
      <3> QED BY <3>1, <3>2, <1>2
    <2>3. lo[c2[1]] = ks[m]
      <3>1. 1 \in 1..(n - m + 1) BY <1>1
      <3> QED BY <3>1, <1>1, <1>2, <1>10
    <2>4. hi[c2[n - m + 1]] = b
      <3>1. n - m + 1 \in 1..(n - m + 1) /\ m + (n - m + 1) = n + 1 BY <1>1
      <3> QED BY <3>1, <1>2, <1>10
    <2> QED BY <1>1, <1>9, <1>10, <2>1, <2>2, <2>3, <2>4 DEF InnerFits
  <1> QED BY <1>1, <1>3, <1>4, <1>5, <1>6, <1>11, <1>12

LEMMA JoinFits ==
  ASSUME NEW T, NEW lo, NEW hi, NEW lev, NEW a, NEW b, NEW d, NEW m \in Nat,
         NEW k1, NEW c1, InnerFits(k1, c1, a, m, d, T, lo, hi, lev),
         NEW k2, NEW c2, InnerFits(k2, c2, m, b, d, T, lo, hi, lev)
  PROVE  InnerFits(k1 \o <<m>> \o k2, c1 \o c2, a, b, d, T, lo, hi, lev)
PROOF
  <1>1. PICK x \in Nat : x = Len(k1) /\ Len(c1) = x + 1 BY DEF InnerFits
  <1>2. PICK y \in Nat : y = Len(k2) /\ Len(c2) = y + 1
    <2>1. k2 \in Seq(Nat) /\ Len(c2) = Len(k2) + 1 BY DEF InnerFits
    <2> QED BY <2>1
  <1>3. /\ lo[c1[1]] = a /\ hi[c1[x + 1]] = m /\ k1 \in Seq(Nat) /\ c1 \in Seq(T)
        /\ \A i \in 1..x : hi[c1[i]] = k1[i] /\ lo[c1[i + 1]] = k1[i]
        /\ \A i \in 1..(x + 1) : lev[c1[i]] + 1 = d
    BY <1>1 DEF InnerFits
  <1>4. /\ lo[c2[1]] = m /\ hi[c2[y + 1]] = b /\ k2 \in Seq(Nat) /\ c2 \in Seq(T)
        /\ \A i \in 1..y : hi[c2[i]] = k2[i] /\ lo[c2[i + 1]] = k2[i]
        /\ \A i \in 1..(y + 1) : lev[c2[i]] + 1 = d
    BY <1>2 DEF InnerFits
  <1>5. PICK k0 : k0 = k1 \o <<m>> OBVIOUS
  <1>6. PICK k : k = k0 \o k2 OBVIOUS
  <1>7. PICK c : c = c1 \o c2 OBVIOUS
  <1>8. k0 \in Seq(Nat) /\ Len(k0) = x + 1 /\ k0[x + 1] = m /\ \A i \in 1..x : k0[i] = k1[i]
    BY <1>1, <1>3, <1>5
  <1>9. /\ k \in Seq(Nat) /\ Len(k) = x + 1 + y
        /\ \A i \in 1..(x + 1) : k[i] = k0[i]
        /\ \A i \in 1..y : k[x + 1 + i] = k2[i]
    <2> k0 \in Seq(Nat) /\ k2 \in Seq(Nat) BY <1>4, <1>8
    <2>1. /\ k0 \o k2 \in Seq(Nat) /\ Len(k0 \o k2) = Len(k0) + Len(k2)
          /\ \A i \in 1..Len(k0) : (k0 \o k2)[i] = k0[i]
          /\ \A i \in 1..Len(k2) : (k0 \o k2)[Len(k0) + i] = k2[i]
      BY JoinIs
    <2> QED BY <2>1, <1>2, <1>6, <1>8
  <1>10. /\ c \in Seq(T) /\ Len(c) = x + 1 + y + 1
         /\ \A i \in 1..(x + 1) : c[i] = c1[i]
         /\ \A i \in 1..(y + 1) : c[x + 1 + i] = c2[i]
    <2>1. /\ c1 \o c2 \in Seq(T) /\ Len(c1 \o c2) = Len(c1) + Len(c2)
          /\ \A i \in 1..Len(c1) : (c1 \o c2)[i] = c1[i]
          /\ \A i \in 1..Len(c2) : (c1 \o c2)[Len(c1) + i] = c2[i]
      BY <1>3, <1>4, JoinIs
    <2>2. Len(c1) + Len(c2) = x + 1 + y + 1 BY <1>1, <1>2
    <2> QED BY <2>1, <2>2, <1>1, <1>2, <1>7
  <1>11. ASSUME NEW i \in 1..(x + 1 + y) PROVE hi[c[i]] = k[i] /\ lo[c[i + 1]] = k[i]
    <2>1. CASE i \in 1..x
      <3>1. i \in 1..(x + 1) /\ i + 1 \in 1..(x + 1) BY <2>1
      <3>2. c[i] = c1[i] /\ c[i + 1] = c1[i + 1] /\ k[i] = k1[i]
        BY <2>1, <3>1, <1>8, <1>9, <1>10
      <3> QED BY <2>1, <3>2, <1>3
    <2>2. CASE i = x + 1
      <3>1. i \in 1..(x + 1) /\ 1 \in 1..(y + 1) /\ i + 1 = x + 1 + 1 BY <2>2
      <3>2. c[i] = c1[x + 1] /\ c[i + 1] = c2[1] /\ k[i] = m
        BY <2>2, <3>1, <1>8, <1>9, <1>10
      <3> QED BY <3>2, <1>3, <1>4
    <2>3. CASE i > x + 1
      <3>1. PICK j \in 1..y : i = x + 1 + j
        <4>1. i - (x + 1) \in 1..y /\ i = x + 1 + (i - (x + 1)) BY <2>3
        <4> QED BY <4>1
      <3>2. j \in 1..(y + 1) /\ j + 1 \in 1..(y + 1) /\ i + 1 = x + 1 + (j + 1) BY <3>1
      <3>3. c[i] = c2[j] /\ c[i + 1] = c2[j + 1] /\ k[i] = k2[j]
        BY <3>1, <3>2, <1>9, <1>10
      <3> QED BY <3>3, <1>4
    <2> QED BY <2>1, <2>2, <2>3
  <1>12. ASSUME NEW i \in 1..(x + 1 + y + 1) PROVE lev[c[i]] + 1 = d
    <2>1. CASE i \in 1..(x + 1) BY <2>1, <1>3, <1>10
    <2>2. CASE i > x + 1
      <3>1. PICK j \in 1..(y + 1) : i = x + 1 + j
        <4>1. i - (x + 1) \in 1..(y + 1) /\ i = x + 1 + (i - (x + 1)) BY <2>2
        <4> QED BY <4>1
      <3> QED BY <3>1, <1>4, <1>10
    <2> QED BY <2>1, <2>2
  <1>13. lo[c[1]] = a /\ hi[c[x + 1 + y + 1]] = b
    <2>1. 1 \in 1..(x + 1) /\ y + 1 \in 1..(y + 1) /\ x + 1 + y + 1 = x + 1 + (y + 1)
      OBVIOUS
    <2> QED BY <2>1, <1>3, <1>4, <1>10
  <1>14. InnerFits(k, c, a, b, d, T, lo, hi, lev)
    BY <1>9, <1>10, <1>11, <1>12, <1>13 DEF InnerFits
  <1> QED BY <1>5, <1>6, <1>7, <1>14
-----------------------------------------------------------------------------
Divided(T, lo, hi, lev, p, new, s, lo2, hi2, lev2) ==
  /\ \A q \in T : lo2[q] = lo[q] /\ lev2[q] = lev[q] /\ hi2[q] = IF q = p THEN s ELSE hi[q]
  /\ lo2[new] = s /\ hi2[new] = hi[p] /\ lev2[new] = lev[p]
Moved(T, lo, hi, left, right, m, lo2, hi2) ==
  \A q \in T : /\ lo2[q] = IF q = right THEN m ELSE lo[q]
               /\ hi2[q] = IF q = left THEN m ELSE hi[q]
United(T, hi, left, right, hi2) ==
  \A q \in T : hi2[q] = IF q = left THEN hi[right] ELSE hi[q]

\* What a node becomes: the halves x and y of a node, the keys of u with key i
\* moved to m or cut out, the parent of a node that was divided.
LeafPair(x, y, l, m, h) ==
  /\ x.kids = << >> /\ InRange(x.keys, l, m)
  /\ y.kids = << >> /\ InRange(y.keys, m, h)
InnerPair(x, y, l, m, h, d, T, lo, hi, lev) ==
  /\ InnerFits(x.keys, x.kids, l, m, d, T, lo, hi, lev)
  /\ InnerFits(y.keys, y.kids, m, h, d, T, lo, hi, lev)
Rekeyed(x, y, i, m) == y.keys = [x.keys EXCEPT ![i] = m] /\ y.kids = x.kids
Cut(x, y, i) == y.keys = RemoveAt(x.keys, i) /\ y.kids = RemoveAt(x.kids, i + 1)
Adopts(x, y, p, s, new) ==
  \/ y = x /\ \A j \in 1..Len(x.kids) : x.kids[j] # p
  \/ \E j \in 1..Len(x.kids) : /\ x.kids[j] = p
                               /\ y.keys = InsertAt(x.keys, j, s)
                               /\ y.kids = InsertAt(x.kids, j + 1, new)
Same(v, v2, S) == \A q \in S : v2[q] = v[q]

LEMMA GrowFits ==
  ASSUME NEW T, NEW lo, NEW hi, NEW lev, NEW h, NEW top, Ranges(T, lo, hi, lev, h, top),
         NEW ks, NEW cs, NEW a, NEW b, NEW d, InnerFits(ks, cs, a, b, d, T, lo, hi, lev),
         NEW j \in 1..Len(cs), NEW p, p = cs[j], NEW new, new \notin T, NEW s \in Nat,
         NEW lo2, NEW hi2, NEW lev2, Divided(T, lo, hi, lev, p, new, s, lo2, hi2, lev2)
  PROVE  InnerFits(InsertAt(ks, j, s), InsertAt(cs, j + 1, new), a, b, d,
                   T \cup {new}, lo2, hi2, lev2)
PROOF
  <1>1. PICK n \in Nat : n = Len(ks) /\ Len(cs) = n + 1
    <2>1. ks \in Seq(Nat) /\ Len(cs) = Len(ks) + 1 BY DEF InnerFits
    <2> QED BY <2>1
  <1>2. /\ lo[cs[1]] = a /\ hi[cs[n + 1]] = b /\ ks \in Seq(Nat) /\ cs \in Seq(T)
        /\ \A i \in 1..n : hi[cs[i]] = ks[i] /\ lo[cs[i + 1]] = ks[i]
        /\ \A i \in 1..(n + 1) : lev[cs[i]] + 1 = d
    BY <1>1 DEF InnerFits
  <1>3. \A x, y \in 1..(n + 1) : x < y => cs[x] # cs[y] BY <1>1, Order
  <1>4. j \in 1..(n + 1) /\ \A x \in 1..(n + 1) : cs[x] \in T BY <1>1, <1>2
  <1>5. PICK T2 : T2 = T \cup {new} OBVIOUS
  <1>6. cs \in Seq(T2) /\ new \in T2
    BY <1>1, <1>2, <1>4, <1>5, SeqIn
  <1>7. PICK k : k = InsertAt(ks, j, s) OBVIOUS
  <1>8. PICK c : c = InsertAt(cs, j + 1, new) OBVIOUS
  <1>9. /\ k \in Seq(Nat) /\ Len(k) = n + 1
        /\ \A i \in 1..(n + 1) :
             (i < j => k[i] = ks[i]) /\ (i = j => k[i] = s) /\ (i > j => k[i] = ks[i - 1])
    <2>1. ks \in Seq(Nat) /\ n = Len(ks) /\ j \in 1..(n + 1) BY <1>1, <1>2, <1>4
    <2>2. ks \in Seq(Nat) /\ n = Len(ks) /\ j \in 1..(n + 1) /\ k = InsertAt(ks, j, s)
          => k \in Seq(Nat) /\ Len(k) = n + 1 /\ Inserted(k, ks, n, j, s)
      BY InsertNat
    <2>3. k \in Seq(Nat) /\ Len(k) = n + 1 /\ Inserted(k, ks, n, j, s)
      BY <2>1, <2>2, <1>7
    <2> QED BY <2>3 DEF Inserted
  <1>10. /\ c \in Seq(T2) /\ Len(c) = n + 2
         /\ \A i \in 1..(n + 2) : /\ i < j + 1 => c[i] = cs[i]
                                  /\ i = j + 1 => c[i] = new
                                  /\ i > j + 1 => c[i] = cs[i - 1]
    <2>1. j + 1 \in 1..(Len(cs) + 1) BY <1>1, <1>4
    <2>2. /\ c \in Seq(T2) /\ Len(c) = Len(cs) + 1
          /\ \A i \in 1..(Len(cs) + 1) : /\ i < j + 1 => c[i] = cs[i]
                                         /\ i = j + 1 => c[i] = new
                                         /\ i > j + 1 => c[i] = cs[i - 1]
      <3>1. new \in T2 /\ cs \in Seq(T2) BY <1>6
      <3>2. new \in T2 /\ cs \in Seq(T2) /\ j + 1 \in 1..(Len(cs) + 1) =>
              /\ InsertAt(cs, j + 1, new) \in Seq(T2)
              /\ Len(InsertAt(cs, j + 1, new)) = Len(cs) + 1
              /\ \A i \in 1..(Len(cs) + 1) :
                   /\ i < j + 1 => InsertAt(cs, j + 1, new)[i] = cs[i]
                   /\ i = j + 1 => InsertAt(cs, j + 1, new)[i] = new
                   /\ i > j + 1 => InsertAt(cs, j + 1, new)[i] = cs[i - 1]
        BY InsertIs
      <3> QED BY <3>1, <3>2, <2>1, <1>8
    <2>3. Len(cs) + 1 = n + 2 BY <1>1
    <2> QED BY <2>2, <2>3
  <1>11. /\ \A x \in 1..(n + 1) : /\ lo2[cs[x]] = lo[cs[x]] /\ lev2[cs[x]] = lev[cs[x]]
                                  /\ x # j => hi2[cs[x]] = hi[cs[x]]
         /\ hi2[cs[j]] = s /\ lo2[new] = s /\ hi2[new] = hi[cs[j]] /\ lev2[new] = lev[cs[j]]
    BY <1>3, <1>4 DEF Divided
  <1>12. ASSUME NEW i \in 1..(n + 1) PROVE hi2[c[i]] = k[i] /\ lo2[c[i + 1]] = k[i]
    <2> i \in 1..(n + 2) /\ i + 1 \in 1..(n + 2) OBVIOUS
    <2>1. CASE i < j
      <3>1. c[i] = cs[i] /\ c[i + 1] = cs[i + 1] /\ k[i] = ks[i]
        BY <2>1, <1>4, <1>9, <1>10
      <3>2. i \in 1..n /\ i + 1 \in 1..(n + 1) BY <2>1, <1>4
      <3> QED BY <2>1, <3>1, <3>2, <1>2, <1>11
    <2>2. CASE i = j
      <3>1. c[i] = cs[j] /\ c[i + 1] = new /\ k[i] = s BY <2>2, <1>4, <1>9, <1>10
      <3> QED BY <3>1, <1>11
    <2>3. CASE i = j + 1
      <3>1. c[i] = new /\ c[i + 1] = cs[i] /\ k[i] = ks[i - 1] /\ i - 1 = j /\ j \in 1..n
        <4>1. i > j /\ i + 1 > j + 1 /\ (i + 1) - 1 = i /\ i - 1 = j /\ j \in 1..n
          BY <2>3, <1>4
        <4>2. c[i] = new BY <2>3, <1>10
        <4>3. c[i + 1] = cs[i] BY <4>1, <1>10
        <4>4. k[i] = ks[i - 1] BY <4>1, <1>9
        <4> QED BY <4>1, <4>2, <4>3, <4>4
      <3>2. lo[cs[j + 1]] = ks[j] /\ hi[cs[j]] = ks[j] BY <3>1, <1>2
      <3> QED BY <2>3, <3>1, <3>2, <1>11
    <2>4. CASE i > j + 1
      <3>1. PICK x \in 1..n : x = i - 1 /\ x + 1 = i /\ x # j BY <2>4, <1>4
      <3>2. c[i] = cs[x] /\ k[i] = ks[x]
        <4>1. i > j + 1 /\ i > j BY <2>4, <1>4
        <4>2. c[i] = cs[i - 1] BY <4>1, <1>10
        <4>3. k[i] = ks[i - 1] BY <4>1, <1>9
        <4> QED BY <4>2, <4>3, <3>1
      <3>3. i + 1 > j + 1 /\ (i + 1) - 1 = i BY <2>4, <1>4
      <3>4. c[i + 1] = cs[x + 1] BY <3>1, <3>3, <1>10
      <3>5. x + 1 \in 1..(n + 1) /\ x \in 1..(n + 1) BY <3>1
      <3> QED BY <3>1, <3>2, <3>4, <3>5, <1>2, <1>11
    <2> QED BY <2>1, <2>2, <2>3, <2>4, <1>4
  <1>13. ASSUME NEW i \in 1..(n + 2) PROVE lev2[c[i]] + 1 = d
    <2>1. CASE i < j + 1
      <3>1. i \in 1..(n + 1) BY <2>1, <1>4
      <3>2. c[i] = cs[i] BY <2>1, <1>10
      <3>3. lev2[cs[i]] = lev[cs[i]] BY <3>1, <1>11
      <3>4. lev[cs[i]] + 1 = d BY <3>1, <1>2
      <3> QED BY <3>2, <3>3, <3>4
    <2>2. CASE i = j + 1
      <3>1. c[i] = new BY <2>2, <1>10
      <3>2. lev[cs[j]] + 1 = d BY <1>2, <1>4
      <3> QED BY <3>1, <3>2, <1>11
    <2>3. CASE i > j + 1
      <3>1. PICK x \in 1..(n + 1) : x = i - 1 BY <2>3, <1>4
      <3>2. c[i] = cs[x] BY <2>3, <3>1, <1>10
      <3> QED BY <3>2, <1>2, <1>11
    <2> QED BY <2>1, <2>2, <2>3, <1>4
  <1>14. lo2[c[1]] = a
    <2>1. c[1] = cs[1] /\ 1 \in 1..(n + 1) BY <1>4, <1>10
    <2> QED BY <2>1, <1>2, <1>11
  <1>15. hi2[c[n + 2]] = b
    <2>1. CASE j = n + 1
      <3>1. c[n + 2] = new BY <2>1, <1>10
      <3> QED BY <2>1, <3>1, <1>2, <1>11
    <2>2. CASE j # n + 1
      <3>1. c[n + 2] = cs[n + 1] /\ n + 1 \in 1..(n + 1) BY <2>2, <1>4, <1>10
      <3> QED BY <2>2, <3>1, <1>2, <1>11
    <2> QED BY <2>1, <2>2
  <1>16. InnerFits(k, c, a, b, d, T2, lo2, hi2, lev2)
    <2>1. Len(c) = Len(k) + 1 /\ Len(k) = n + 1 /\ Len(c) = n + 2 BY <1>9, <1>10
    <2> QED BY <2>1, <1>9, <1>10, <1>12, <1>13, <1>14, <1>15 DEF InnerFits
  <1> QED BY <1>5, <1>7, <1>8, <1>16

LEMMA MoveFits ==
  ASSUME NEW T, NEW lo, NEW hi, NEW lev, NEW h, NEW top, Ranges(T, lo, hi, lev, h, top),
         NEW ks, NEW cs, NEW a, NEW b, NEW d, InnerFits(ks, cs, a, b, d, T, lo, hi, lev),
         NEW i \in 1..Len(ks), NEW m \in Nat,
         NEW lo2, NEW hi2, Moved(T, lo, hi, cs[i], cs[i + 1], m, lo2, hi2)
  PROVE  InnerFits([ks EXCEPT ![i] = m], cs, a, b, d, T, lo2, hi2, lev)
PROOF
  <1>1. PICK n \in Nat : n = Len(ks) /\ Len(cs) = n + 1
    <2>1. ks \in Seq(Nat) /\ Len(cs) = Len(ks) + 1 BY DEF InnerFits
    <2> QED BY <2>1
  <1>2. /\ lo[cs[1]] = a /\ hi[cs[n + 1]] = b /\ ks \in Seq(Nat) /\ cs \in Seq(T)
        /\ \A x \in 1..n : hi[cs[x]] = ks[x] /\ lo[cs[x + 1]] = ks[x]
        /\ \A x \in 1..(n + 1) : lev[cs[x]] + 1 = d
    BY <1>1 DEF InnerFits
  <1>3. \A x, y \in 1..(n + 1) : x < y => cs[x] # cs[y] BY <1>1, Order
  <1>4. i \in 1..n /\ \A x \in 1..(n + 1) : cs[x] \in T BY <1>1, <1>2
  <1>5. PICK k : k = [ks EXCEPT ![i] = m] OBVIOUS
  <1>6. k \in Seq(Nat) /\ Len(k) = n /\ \A x \in 1..n : k[x] = IF x = i THEN m ELSE ks[x]
    BY <1>1, <1>2, <1>4, <1>5
  <1>7. \A x \in 1..(n + 1) : /\ lo2[cs[x]] = IF x = i + 1 THEN m ELSE lo[cs[x]]
                              /\ hi2[cs[x]] = IF x = i THEN m ELSE hi[cs[x]]
    <2>1. \A x \in 1..(n + 1) : (cs[x] = cs[i] <=> x = i) /\ (cs[x] = cs[i + 1] <=> x = i + 1)
      BY <1>3, <1>4
    <2> QED BY <2>1, <1>4 DEF Moved
  <1>8. ASSUME NEW x \in 1..n PROVE hi2[cs[x]] = k[x] /\ lo2[cs[x + 1]] = k[x]
    <2>1. x \in 1..(n + 1) /\ x + 1 \in 1..(n + 1) /\ (x + 1 = i + 1 <=> x = i) BY <1>4
    <2> QED BY <2>1, <1>2, <1>6, <1>7
  <1>9. lo2[cs[1]] = a /\ hi2[cs[n + 1]] = b
    <2>1. 1 \in 1..(n + 1) /\ n + 1 \in 1..(n + 1) /\ 1 # i + 1 /\ n + 1 # i BY <1>4
    <2> QED BY <2>1, <1>2, <1>7
  <1>10. InnerFits(k, cs, a, b, d, T, lo2, hi2, lev)
    BY <1>1, <1>2, <1>6, <1>8, <1>9 DEF InnerFits
  <1> QED BY <1>5, <1>10

LEMMA CutFits ==
  ASSUME NEW T, NEW lo, NEW hi, NEW lev, NEW h, NEW top, Ranges(T, lo, hi, lev, h, top),
         NEW ks, NEW cs, NEW a, NEW b, NEW d, InnerFits(ks, cs, a, b, d, T, lo, hi, lev),
         NEW i \in 1..Len(ks), NEW right, right = cs[i + 1],
         NEW hi2, United(T, hi, cs[i], right, hi2)
  PROVE  InnerFits(RemoveAt(ks, i), RemoveAt(cs, i + 1), a, b, d, T \ {right}, lo, hi2, lev)
PROOF
  <1>1. PICK n \in Nat : n = Len(ks) /\ Len(cs) = n + 1
    <2>1. ks \in Seq(Nat) /\ Len(cs) = Len(ks) + 1 BY DEF InnerFits
    <2> QED BY <2>1
  <1>2. /\ lo[cs[1]] = a /\ hi[cs[n + 1]] = b /\ ks \in Seq(Nat) /\ cs \in Seq(T)
        /\ \A x \in 1..n : hi[cs[x]] = ks[x] /\ lo[cs[x + 1]] = ks[x]
        /\ \A x \in 1..(n + 1) : lev[cs[x]] + 1 = d
    BY <1>1 DEF InnerFits
  <1>3. \A x, y \in 1..(n + 1) : x < y => cs[x] # cs[y]
    <2>1. \A x, y \in 1..Len(cs) : x < y => hi[cs[x]] <= lo[cs[y]] /\ cs[x] # cs[y]
      BY Order
    <2> QED BY <2>1, <1>1
  <1>4. i \in 1..n /\ \A x \in 1..(n + 1) : cs[x] \in T BY <1>1, <1>2
  <1>5. PICK k : k = RemoveAt(ks, i) OBVIOUS
  <1>6. PICK c : c = RemoveAt(cs, i + 1) OBVIOUS
  <1>7. /\ k \in Seq(Nat) /\ Len(k) = n - 1
        /\ \A x \in 1..(n - 1) : k[x] = IF x < i THEN ks[x] ELSE ks[x + 1]
    BY <1>1, <1>2, <1>4, <1>5, RemoveIs
  <1>8. /\ c \in Seq(T) /\ Len(c) = n
        /\ \A x \in 1..n : c[x] = IF x < i + 1 THEN cs[x] ELSE cs[x + 1]
    <2>1. i + 1 \in 1..Len(cs) /\ Len(cs) - 1 = n BY <1>1, <1>4
    <2> QED BY <2>1, <1>2, <1>6, RemoveIs
  <1>9. \A x \in 1..(n + 1) : hi2[cs[x]] = IF x = i THEN hi[cs[i + 1]] ELSE hi[cs[x]]
    <2>1. \A x \in 1..(n + 1) : cs[x] = cs[i] <=> x = i BY <1>3, <1>4
    <2> QED BY <2>1, <1>4 DEF United
  <1>10. c \in Seq(T \ {right})
    <2>1. ASSUME NEW x \in 1..n PROVE c[x] \in T \ {right}
      <3>1. CASE x < i + 1
        <4>1. c[x] = cs[x] /\ x \in 1..(n + 1) /\ i + 1 \in 1..(n + 1) BY <3>1, <1>8, <1>4
        <4>2. cs[x] # cs[i + 1] BY <3>1, <4>1, <1>3
        <4> QED BY <4>1, <4>2, <1>4
      <3>2. CASE ~(x < i + 1)
        <4>1. c[x] = cs[x + 1] /\ x + 1 \in 1..(n + 1) /\ i + 1 \in 1..(n + 1)
          BY <3>2, <1>8, <1>4
        <4>2. i + 1 < x + 1 BY <3>2, <1>4
        <4>3. cs[x + 1] # cs[i + 1] BY <4>1, <4>2, <1>3
        <4> QED BY <4>1, <4>3, <1>4
      <3> QED BY <3>1, <3>2
    <2> QED BY <2>1, <1>8, SeqIn
  <1>11. ASSUME NEW x \in 1..(n - 1) PROVE hi2[c[x]] = k[x] /\ lo[c[x + 1]] = k[x]
    <2> x \in 1..n /\ x + 1 \in 1..n /\ x \in 1..(n + 1) /\ x + 1 \in 1..(n + 1) OBVIOUS
    <2>1. CASE x < i
      <3>1. c[x] = cs[x] /\ c[x + 1] = cs[x + 1] /\ k[x] = ks[x] /\ x # i
        BY <2>1, <1>4, <1>7, <1>8
      <3> QED BY <3>1, <1>2, <1>9
    <2>2. CASE x = i
      <3>1. c[x] = cs[i] /\ c[x + 1] = cs[(i + 1) + 1] /\ k[x] = ks[i + 1]
            /\ i + 1 \in 1..n /\ i \in 1..(n + 1)
        <4>1. i + 1 \in 1..n /\ i \in 1..n /\ i \in 1..(n + 1) /\ i < i + 1 /\ ~(i < i)
              /\ ~(i + 1 < i + 1)
          BY <2>2, <1>4
        <4>2. c[i] = cs[i] BY <4>1, <1>8
        <4>3. c[i + 1] = cs[(i + 1) + 1] BY <4>1, <1>8
        <4>4. k[i] = ks[i + 1] BY <4>1, <2>2, <1>7
        <4> QED BY <4>1, <4>2, <4>3, <4>4, <2>2
      <3> QED BY <3>1, <1>2, <1>9
    <2>3. CASE x > i
      <3>1. PICK y \in 1..n : y = x + 1 /\ y # i BY <2>3
      <3>2. c[x] = cs[y] /\ c[x + 1] = cs[y + 1] /\ k[x] = ks[y] /\ y \in 1..(n + 1)
        <4>1. ~(x < i) /\ ~(x < i + 1) /\ x + 1 = y /\ y \in 1..(n + 1) BY <2>3, <3>1, <1>4
        <4>2. c[x] = cs[y] BY <4>1, <1>8
        <4>3. k[x] = ks[y] BY <4>1, <1>7
        <4>4. ~(y < i + 1) BY <2>3, <3>1, <1>4
        <4>5. c[y] = cs[y + 1] BY <4>4, <3>1, <1>8
        <4> QED BY <4>1, <4>2, <4>3, <4>5
      <3> QED BY <3>1, <3>2, <1>2, <1>9
    <2> QED BY <2>1, <2>2, <2>3, <1>4
  <1>12. ASSUME NEW x \in 1..n PROVE lev[c[x]] + 1 = d
    <2>1. x \in 1..(n + 1) /\ x + 1 \in 1..(n + 1) OBVIOUS
    <2>2. c[x] = cs[x] \/ c[x] = cs[x + 1] BY <1>8
    <2> QED BY <2>1, <2>2, <1>2
  <1>13. lo[c[1]] = a
    <2>1. c[1] = cs[1] BY <1>4, <1>8
    <2> QED BY <2>1, <1>2
  <1>14. hi2[c[n]] = b
    <2>1. CASE i = n
      <3>1. c[n] = cs[i] /\ i \in 1..(n + 1) BY <2>1, <1>4, <1>8
      <3> QED BY <2>1, <3>1, <1>2, <1>9
    <2>2. CASE i # n
      <3>1. c[n] = cs[n + 1] /\ n + 1 \in 1..(n + 1) /\ n + 1 # i BY <2>2, <1>4, <1>8
      <3> QED BY <3>1, <1>2, <1>9
    <2> QED BY <2>1, <2>2
  <1>15. InnerFits(k, c, a, b, d, T \ {right}, lo, hi2, lev)
    <2>1. Len(c) = Len(k) + 1 BY <1>4, <1>7, <1>8
    <2> QED BY <2>1, <1>7, <1>8, <1>10, <1>11, <1>12, <1>13, <1>14 DEF InnerFits
  <1> QED BY <1>5, <1>6, <1>15
-----------------------------------------------------------------------------
LEMMA FitsStill ==
  ASSUME NEW T, NEW lo, NEW hi, NEW lev, NEW T2, NEW lo2, NEW hi2, NEW lev2, NEW top,
         NEW x, NEW q, Fits(x, q, T, lo, hi, lev, top),
         lo2[q] = lo[q], hi2[q] = hi[q], lev2[q] = lev[q],
         \A i \in 1..Len(x.kids) : LET c == x.kids[i] IN
           c \in T => c \in T2 /\ lo2[c] = lo[c] /\ hi2[c] = hi[c] /\ lev2[c] = lev[c],
         lev[q] = 0 /\ hi[q] # top =>
           x.next \in T2 /\ lo2[x.next] = lo[x.next] /\ lev2[x.next] = lev[x.next]
  PROVE  Fits(x, q, T2, lo2, hi2, lev2, top)
PROOF
  <1>1. CASE lev[q] = 0
    <2>1. LeafFits(x, lo[q], hi[q], T, lo, lev, top) BY <1>1 DEF Fits
    <2>2. LeafFits(x, lo2[q], hi2[q], T2, lo2, lev2, top)
      BY <1>1, <2>1 DEF LeafFits
    <2> QED BY <1>1, <2>2 DEF Fits
  <1>2. CASE lev[q] # 0
    <2>1. InnerFits(x.keys, x.kids, lo[q], hi[q], lev[q], T, lo, hi, lev) BY <1>2 DEF Fits
    <2>2. \A i \in 1..Len(x.kids) : x.kids[i] \in T BY <2>1 DEF InnerFits
    <2>3. InnerFits(x.keys, x.kids, lo[q], hi[q], lev[q], T2, lo2, hi2, lev2)
      BY <2>1, <2>2, KidsStill
    <2> QED BY <1>2, <2>3 DEF Fits
  <1> QED BY <1>1, <1>2

LEMMA DivideRanges ==
  ASSUME NEW T, NEW lo, NEW hi, NEW lev, NEW h, NEW top, Ranges(T, lo, hi, lev, h, top),
         NEW p \in T, NEW new, new \notin T, NEW s \in Nat, lo[p] < s, s < hi[p],
         NEW lo2, NEW hi2, NEW lev2, Divided(T, lo, hi, lev, p, new, s, lo2, hi2, lev2)
  PROVE  Ranges(T \cup {new}, lo2, hi2, lev2, h, top)
PROOF
  <1>1. /\ h \in Nat /\ top \in Nat
        /\ \A q \in T : /\ lo[q] \in Nat /\ hi[q] \in Nat /\ lev[q] \in 0..h
                        /\ lo[q] < hi[q] /\ hi[q] <= top
    BY DEF Ranges
  <1>2. \A q \in T : lo2[q] = lo[q] /\ lev2[q] = lev[q] /\ hi2[q] = IF q = p THEN s ELSE hi[q]
    BY DEF Divided
  <1>3. lo2[new] = s /\ hi2[new] = hi[p] /\ lev2[new] = lev[p] BY DEF Divided
  <1>4. \A q \in T \cup {new} :
          /\ lo2[q] \in Nat /\ hi2[q] \in Nat /\ lev2[q] \in 0..h
          /\ lo2[q] < hi2[q] /\ hi2[q] <= top
    BY <1>1, <1>2, <1>3
  <1>5. \A q \in T : hi2[q] <= hi[q] BY <1>1, <1>2
  <1>6. ASSUME NEW q \in T, NEW r \in T \cup {new}, lev2[q] = lev2[r], q # r
        PROVE  hi2[q] <= lo2[r] \/ hi2[r] <= lo2[q]
    <2>1. CASE r \in T
      <3>1. hi[q] <= lo[r] \/ hi[r] <= lo[q] BY <2>1, <1>2, <1>6 DEF Ranges
      <3> QED BY <2>1, <3>1, <1>1, <1>2, <1>4, <1>5
    <2>2. CASE r = new /\ q = p BY <2>2, <1>2, <1>3, <1>4
    <2>3. CASE r = new /\ q # p
      <3>1. hi[q] <= lo[p] \/ hi[p] <= lo[q] BY <2>3, <1>2, <1>3, <1>6 DEF Ranges
      <3> QED BY <2>3, <3>1, <1>1, <1>2, <1>3
    <2> QED BY <2>1, <2>2, <2>3
  <1>7. ASSUME NEW d \in 0..h, NEW k \in 0..(top - 1)
        PROVE  \E q \in T \cup {new} : lev2[q] = d /\ lo2[q] <= k /\ k < hi2[q]
    <2>1. PICK q \in T : lev[q] = d /\ lo[q] <= k /\ k < hi[q] BY DEF Ranges
    <2>2. CASE q # p BY <2>1, <2>2, <1>2
    <2>3. CASE q = p /\ k < s BY <2>1, <2>3, <1>2
    <2>4. CASE q = p /\ ~(k < s)
      <3>1. lev2[new] = d /\ lo2[new] <= k /\ k < hi2[new] BY <2>1, <2>4, <1>3
      <3> QED BY <3>1
    <2> QED BY <2>2, <2>3, <2>4
  <1>8. ASSUME NEW q \in T \cup {new}, NEW r \in T \cup {new}, lev2[q] = lev2[r], q # r
        PROVE  hi2[q] <= lo2[r] \/ hi2[r] <= lo2[q]
    BY <1>6, <1>8
  <1> QED BY <1>1, <1>4, <1>7, <1>8 DEF Ranges

LEMMA DivideTree ==
  ASSUME NEW T, NEW v, NEW lo, NEW hi, NEW lev, NEW h, NEW top,
         Tree(T, v, lo, hi, lev, h, top),
         NEW p \in T, NEW new, new \notin T, new # 0, NEW s \in Nat, lo[p] < s, s < hi[p],
         NEW lo2, NEW hi2, NEW lev2, Divided(T, lo, hi, lev, p, new, s, lo2, hi2, lev2),
         NEW v2,
         lev[p] = 0 =>
           /\ LeafPair(v2[p], v2[new], lo[p], s, hi[p])
           /\ v2[p].next = new /\ v2[new].next = v[p].next,
         lev[p] # 0 => InnerPair(v2[p], v2[new], lo[p], s, hi[p], lev[p], T, lo, hi, lev),
         \A q \in T \ {p} : Adopts(v[q], v2[q], p, s, new)
  PROVE  Tree(T \cup {new}, v2, lo2, hi2, lev2, h, top)
PROOF
  <1> DEFINE T2 == T \cup {new}
  <1>1. Ranges(T, lo, hi, lev, h, top) /\ 0 \notin T BY DEF Tree
  <1>2. \A q \in T : Fits(v[q], q, T, lo, hi, lev, top) BY DEF Tree
  <1>3. Ranges(T2, lo2, hi2, lev2, h, top) BY <1>1, DivideRanges
  <1>4. \A q \in T : lo2[q] = lo[q] /\ lev2[q] = lev[q] /\ hi2[q] = IF q = p THEN s ELSE hi[q]
    BY DEF Divided
  <1>5. lo2[new] = s /\ hi2[new] = hi[p] /\ lev2[new] = lev[p] BY DEF Divided
  <1>6. /\ lo[p] \in Nat /\ hi[p] \in Nat /\ top \in Nat /\ hi[p] <= top /\ lev[p] \in Nat
        /\ s # top
    BY <1>1 DEF Ranges
  <1>7. Fits(v2[p], p, T2, lo2, hi2, lev2, top) /\ Fits(v2[new], new, T2, lo2, hi2, lev2, top)
    <2>1. CASE lev[p] = 0
      <3>1. LeafFits(v[p], lo[p], hi[p], T, lo, lev, top) BY <2>1, <1>2 DEF Fits
      <3>2. LeafFits(v2[p], lo2[p], hi2[p], T2, lo2, lev2, top)
        BY <2>1, <1>4, <1>5, <1>6 DEF LeafFits, LeafPair
      <3>3. LeafFits(v2[new], lo2[new], hi2[new], T2, lo2, lev2, top)
        BY <2>1, <3>1, <1>4, <1>5 DEF LeafFits, LeafPair
      <3> QED BY <2>1, <3>2, <3>3, <1>4, <1>5 DEF Fits
    <2>2. CASE lev[p] # 0
      <3>1. ASSUME NEW ks, NEW cs, NEW a, NEW b, InnerFits(ks, cs, a, b, lev[p], T, lo, hi, lev)
            PROVE  InnerFits(ks, cs, a, b, lev[p], T2, lo2, hi2, lev2)
        <4>1. \A q \in T : lev[q] \in Nat BY <1>1 DEF Ranges
        <4>2. \A q \in T : lev[q] # lev[p] => q \in T2 /\ lo2[q] = lo[q] /\ hi2[q] = hi[q]
          BY <1>4
        <4>3. InnerFits(ks, cs, a, b, lev[p], T2, lo2, hi2, lev)
          BY <3>1, <4>1, <4>2, KidsBelow
        <4>4. \A i \in 1..Len(cs) : cs[i] \in T BY <3>1 DEF InnerFits
        <4>5. \A i \in 1..Len(cs) :
                /\ cs[i] \in T2 /\ lo2[cs[i]] = lo2[cs[i]]
                /\ hi2[cs[i]] = hi2[cs[i]] /\ lev2[cs[i]] = lev[cs[i]]
          BY <4>4, <1>4
        <4> QED BY <4>3, <4>5, KidsStill
      <3>2. InnerFits(v2[p].keys, v2[p].kids, lo[p], s, lev[p], T2, lo2, hi2, lev2)
        BY <2>2, <3>1 DEF InnerPair
      <3>3. InnerFits(v2[new].keys, v2[new].kids, s, hi[p], lev[p], T2, lo2, hi2, lev2)
        BY <2>2, <3>1 DEF InnerPair
      <3> QED BY <2>2, <3>2, <3>3, <1>4, <1>5 DEF Fits
    <2> QED BY <2>1, <2>2
  <1>8. ASSUME NEW q \in T \ {p}
        PROVE  Fits(v2[q], q, T2, lo2, hi2, lev2, top)
    <2>1. CASE v2[q] = v[q] /\ \A j \in 1..Len(v[q].kids) : v[q].kids[j] # p
      <3>1. Fits(v[q], q, T, lo, hi, lev, top) BY <1>2
      <3>2. lo2[q] = lo[q] /\ hi2[q] = hi[q] /\ lev2[q] = lev[q] BY <1>4
      <3>3. \A i \in 1..Len(v[q].kids) : LET c == v[q].kids[i] IN
              c \in T => c \in T2 /\ lo2[c] = lo[c] /\ hi2[c] = hi[c] /\ lev2[c] = lev[c]
        BY <2>1, <1>4
      <3>4. lev[q] = 0 /\ hi[q] # top => v[q].next \in T BY <3>1 DEF Fits, LeafFits
      <3>5. lev[q] = 0 /\ hi[q] # top =>
              v[q].next \in T2 /\ lo2[v[q].next] = lo[v[q].next] /\ lev2[v[q].next] = lev[v[q].next]
        BY <3>4, <1>4
      <3>6. Fits(v[q], q, T2, lo2, hi2, lev2, top)
        BY <3>1, <3>2, <3>3, <3>5, FitsStill
      <3> QED BY <2>1, <3>6
    <2>2. CASE \E j \in 1..Len(v[q].kids) : /\ v[q].kids[j] = p
                                            /\ v2[q].keys = InsertAt(v[q].keys, j, s)
                                            /\ v2[q].kids = InsertAt(v[q].kids, j + 1, new)
      <3>1. PICK j \in 1..Len(v[q].kids) : /\ v[q].kids[j] = p
                                           /\ v2[q].keys = InsertAt(v[q].keys, j, s)
                                           /\ v2[q].kids = InsertAt(v[q].kids, j + 1, new)
        BY <2>2
      <3>2. lev[q] # 0
        <4>1. SUFFICES ASSUME lev[q] = 0 PROVE FALSE OBVIOUS
        <4>2. v[q].kids = << >> BY <4>1, <1>2 DEF Fits, LeafFits
        <4> QED BY <3>1, <4>2
      <3>3. InnerFits(v[q].keys, v[q].kids, lo[q], hi[q], lev[q], T, lo, hi, lev)
        BY <3>2, <1>2 DEF Fits
      <3>4. InnerFits(InsertAt(v[q].keys, j, s), InsertAt(v[q].kids, j + 1, new),
                      lo[q], hi[q], lev[q], T2, lo2, hi2, lev2)
        BY <1>1, <3>1, <3>3, GrowFits
      <3> QED BY <3>1, <3>2, <3>4, <1>4 DEF Fits
    <2> QED BY <2>1, <2>2 DEF Adopts
  <1>9. 0 \notin T2 BY <1>1
  <1> QED BY <1>3, <1>7, <1>8, <1>9 DEF Tree
-----------------------------------------------------------------------------
\* left and right are the kids of u on the two sides of its key i, and nobody else's.
Paired(T, v, lo, hi, lev, top, u, i, left, right) ==
  /\ left \in T /\ right \in T /\ left # right /\ u # left /\ u # right
  /\ lev[left] + 1 = lev[u] /\ lev[right] = lev[left]
  /\ hi[left] = v[u].keys[i] /\ lo[right] = v[u].keys[i]
  /\ Len(v[u].keys) \in Nat /\ Len(v[u].kids) = Len(v[u].keys) + 1
  /\ \A q \in T : \A j \in 1..Len(v[q].kids) :
       /\ v[q].kids[j] = left => q = u /\ j = i
       /\ v[q].kids[j] = right => q = u /\ j = i + 1
  /\ lev[left] = 0 => v[left].next = right /\ hi[left] # top
  /\ \A q \in T : lev[q] = 0 /\ hi[q] # top /\ v[q].next = right => q = left

LEMMA Siblings ==
  ASSUME NEW T, NEW v, NEW lo, NEW hi, NEW lev, NEW h, NEW top,
         Tree(T, v, lo, hi, lev, h, top),
         NEW u \in T, lev[u] # 0, NEW i \in 1..Len(v[u].keys),
         NEW left, NEW right, left = v[u].kids[i], right = v[u].kids[i + 1]
  PROVE  Paired(T, v, lo, hi, lev, top, u, i, left, right)
PROOF
  <1>1. Ranges(T, lo, hi, lev, h, top) /\ \A q \in T : Fits(v[q], q, T, lo, hi, lev, top)
    BY DEF Tree
  <1>2. InnerFits(v[u].keys, v[u].kids, lo[u], hi[u], lev[u], T, lo, hi, lev)
    BY <1>1 DEF Fits
  <1>3. PICK n \in Nat : n = Len(v[u].keys) /\ Len(v[u].kids) = n + 1
    <2>1. v[u].keys \in Seq(Nat) /\ Len(v[u].kids) = Len(v[u].keys) + 1
      BY <1>2 DEF InnerFits
    <2> QED BY <2>1
  <1>4. i \in 1..n /\ i \in 1..(n + 1) /\ i + 1 \in 1..(n + 1) BY <1>3
  <1>5. left \in T /\ right \in T /\ lev[left] + 1 = lev[u] /\ lev[right] + 1 = lev[u]
    <2>1. PICK cs : cs = v[u].kids OBVIOUS
    <2>2. cs \in Seq(T) /\ Len(cs) = n + 1 /\ \A x \in 1..(n + 1) : lev[cs[x]] + 1 = lev[u]
      BY <1>2, <1>3, <2>1 DEF InnerFits
    <2> QED BY <2>1, <2>2, <1>4
  <1>6. hi[left] = v[u].keys[i] /\ lo[right] = v[u].keys[i]
    BY <1>2, <1>3, <1>4 DEF InnerFits
  <1>7. \A q \in T : lev[q] \in Nat /\ lo[q] \in Nat /\ hi[q] \in Nat /\ lo[q] < hi[q]
    BY <1>1 DEF Ranges
  <1>8. lev[right] = lev[left] /\ u # left /\ u # right
    <2>1. PICK a \in Nat, b \in Nat, c \in Nat :
            a = lev[u] /\ b = lev[left] /\ c = lev[right]
      BY <1>5, <1>7
    <2>2. b + 1 = a /\ c + 1 = a BY <2>1, <1>5
    <2>3. b = c /\ a # b BY <2>2
    <2> QED BY <2>1, <2>3
  <1>9. left # right BY <1>5, <1>6, <1>7
  <1>10. ASSUME NEW q \in T, NEW j \in 1..Len(v[q].kids)
         PROVE  /\ v[q].kids[j] = left => q = u /\ j = i
                /\ v[q].kids[j] = right => q = u /\ j = i + 1
    <2>1. i \in 1..Len(v[u].kids) /\ i + 1 \in 1..Len(v[u].kids) BY <1>3, <1>4
    <2>2. v[q].kids[j] = left => q = u /\ j = i BY <2>1, <1>5, OneParent
    <2>3. v[q].kids[j] = right => q = u /\ j = i + 1 BY <2>1, <1>5, OneParent
    <2> QED BY <2>2, <2>3
  <1>11. ASSUME lev[left] = 0 PROVE v[left].next = right /\ hi[left] # top
    <2>1. hi[right] <= top /\ top \in Nat BY <1>1, <1>5 DEF Ranges
    <2>2. hi[left] # top BY <2>1, <1>5, <1>6, <1>7
    <2>3. LeafFits(v[left], lo[left], hi[left], T, lo, lev, top)
      BY <1>1, <1>5, <1>11 DEF Fits
    <2>4. PICK x \in T : x = v[left].next /\ lev[x] = 0 /\ lo[x] = hi[left]
      BY <2>2, <2>3 DEF LeafFits
    <2>5. x = right
      <3>1. lev[x] = lev[right] /\ lo[x] = lo[right] BY <2>4, <1>6, <1>8, <1>11
      <3>2. lo[x] <= lo[right] /\ lo[right] < hi[x] /\ lo[right] < hi[right]
            /\ lo[right] <= lo[right] /\ lo[right] \in Nat
        BY <3>1, <1>5, <1>7
      <3> QED BY <3>1, <3>2, <1>1, <1>5, OnePage
    <2> QED BY <2>2, <2>4, <2>5
  <1>12. ASSUME NEW q \in T, lev[q] = 0, hi[q] # top, v[q].next = right
         PROVE  q = left
    <2>1. LeafFits(v[q], lo[q], hi[q], T, lo, lev, top) BY <1>1, <1>12 DEF Fits
    <2>2. lo[right] = hi[q] /\ lev[right] = 0 BY <2>1, <1>12 DEF LeafFits
    <2>3. lev[q] = lev[left] /\ hi[q] = hi[left] BY <2>2, <1>6, <1>8, <1>12
    <2>4. q # left => hi[q] <= lo[left] \/ hi[left] <= lo[q]
      BY <2>3, <1>1, <1>5 DEF Ranges
    <2> QED BY <2>3, <2>4, <1>5, <1>7
  <1> QED BY <1>3, <1>5, <1>6, <1>8, <1>9, <1>10, <1>11, <1>12 DEF Paired

LEMMA MoveRanges ==
  ASSUME NEW T, NEW lo, NEW hi, NEW lev, NEW h, NEW top, Ranges(T, lo, hi, lev, h, top),
         NEW left \in T, NEW right \in T, left # right, lev[left] = lev[right],
         hi[left] = lo[right], NEW m \in Nat, lo[left] < m, m < hi[right],
         NEW lo2, NEW hi2, Moved(T, lo, hi, left, right, m, lo2, hi2)
  PROVE  Ranges(T, lo2, hi2, lev, h, top)
PROOF
  <1>1. /\ h \in Nat /\ top \in Nat
        /\ \A q \in T : /\ lo[q] \in Nat /\ hi[q] \in Nat /\ lev[q] \in 0..h
                        /\ lo[q] < hi[q] /\ hi[q] <= top
    BY DEF Ranges
  <1>2. \A q \in T : /\ lo2[q] = IF q = right THEN m ELSE lo[q]
                     /\ hi2[q] = IF q = left THEN m ELSE hi[q]
    BY DEF Moved
  <1>3. \A q \in T :
          /\ lo2[q] \in Nat /\ hi2[q] \in Nat /\ lev[q] \in 0..h
          /\ lo2[q] < hi2[q] /\ hi2[q] <= top
    BY <1>1, <1>2
  <1>4. \A q, r \in T : lev[q] = lev[r] /\ q # r => hi[q] <= lo[r] \/ hi[r] <= lo[q]
    BY DEF Ranges
  <1>5. ASSUME NEW q \in T, q # left, q # right, lev[q] = lev[left]
        PROVE  hi[q] <= lo[left] \/ hi[right] <= lo[q]
    <2>1. hi[q] <= lo[left] \/ hi[left] <= lo[q] BY <1>4, <1>5
    <2>2. hi[q] <= lo[right] \/ hi[right] <= lo[q] BY <1>4, <1>5
    <2> QED BY <2>1, <2>2, <1>1
  <1>6. ASSUME NEW q \in T, NEW r \in T, lev[q] = lev[r], q # r
        PROVE  hi2[q] <= lo2[r] \/ hi2[r] <= lo2[q]
    <2>1. CASE q \notin {left, right} /\ r \notin {left, right}
      BY <2>1, <1>2, <1>4, <1>6
    <2>2. CASE q \in {left, right} /\ r \in {left, right}
      BY <2>2, <1>2, <1>6, <1>1
    <2>3. CASE q \notin {left, right} /\ r \in {left, right}
      <3>1. hi[q] <= lo[left] \/ hi[right] <= lo[q] BY <2>3, <1>5, <1>6
      <3> QED BY <2>3, <3>1, <1>1, <1>2
    <2>4. CASE q \in {left, right} /\ r \notin {left, right}
      <3>1. hi[r] <= lo[left] \/ hi[right] <= lo[r] BY <2>4, <1>5, <1>6
      <3> QED BY <2>4, <3>1, <1>1, <1>2
    <2> QED BY <2>1, <2>2, <2>3, <2>4
  <1>7. ASSUME NEW d \in 0..h, NEW k \in 0..(top - 1)
        PROVE  \E q \in T : lev[q] = d /\ lo2[q] <= k /\ k < hi2[q]
    <2>1. PICK q \in T : lev[q] = d /\ lo[q] <= k /\ k < hi[q] BY DEF Ranges
    <2>2. CASE q # left /\ q # right BY <2>1, <2>2, <1>2
    <2>3. CASE q \in {left, right} /\ k < m
      <3>1. lo2[left] <= k /\ k < hi2[left] /\ lev[left] = d BY <2>1, <2>3, <1>1, <1>2
      <3> QED BY <3>1
    <2>4. CASE q \in {left, right} /\ ~(k < m)
      <3>1. lo2[right] <= k /\ k < hi2[right] /\ lev[right] = d BY <2>1, <2>4, <1>1, <1>2
      <3> QED BY <3>1
    <2> QED BY <2>2, <2>3, <2>4
  <1> QED BY <1>1, <1>3, <1>6, <1>7 DEF Ranges

LEMMA MoveTree ==
  ASSUME NEW T, NEW v, NEW lo, NEW hi, NEW lev, NEW h, NEW top,
         Tree(T, v, lo, hi, lev, h, top),
         NEW u \in T, lev[u] # 0, NEW i \in 1..Len(v[u].keys),
         NEW left, NEW right, left = v[u].kids[i], right = v[u].kids[i + 1],
         NEW m \in Nat, lo[left] < m, m < hi[right],
         NEW lo2, NEW hi2, Moved(T, lo, hi, left, right, m, lo2, hi2),
         NEW v2,
         Rekeyed(v[u], v2[u], i, m),
         lev[left] = 0 =>
           /\ LeafPair(v2[left], v2[right], lo[left], m, hi[right])
           /\ v2[left].next = v[left].next /\ v2[right].next = v[right].next,
         lev[left] # 0 =>
           InnerPair(v2[left], v2[right], lo[left], m, hi[right], lev[left], T, lo, hi, lev),
         Same(v, v2, T \ {u, left, right})
  PROVE  Tree(T, v2, lo2, hi2, lev, h, top)
PROOF
  <1>0. Paired(T, v, lo, hi, lev, top, u, i, left, right) BY Siblings
  <1>1. Ranges(T, lo, hi, lev, h, top) /\ 0 \notin T BY DEF Tree
  <1>2. \A q \in T : Fits(v[q], q, T, lo, hi, lev, top) BY DEF Tree
  <1>3. /\ left \in T /\ right \in T /\ left # right /\ u # left /\ u # right
        /\ lev[left] + 1 = lev[u] /\ lev[right] = lev[left]
        /\ hi[left] = v[u].keys[i] /\ lo[right] = v[u].keys[i]
    BY <1>0 DEF Paired
  <1>4. \A q \in T : \A j \in 1..Len(v[q].kids) :
          /\ v[q].kids[j] = left => q = u
          /\ v[q].kids[j] = right => q = u
    BY <1>0 DEF Paired
  <1>5. /\ lev[left] = 0 => v[left].next = right /\ hi[left] # top
        /\ \A q \in T : lev[q] = 0 /\ hi[q] # top /\ v[q].next = right => q = left
    BY <1>0 DEF Paired
  <1>6. Ranges(T, lo2, hi2, lev, h, top) BY <1>1, <1>3, MoveRanges
  <1>7. \A q \in T : /\ lo2[q] = IF q = right THEN m ELSE lo[q]
                     /\ hi2[q] = IF q = left THEN m ELSE hi[q]
    BY DEF Moved
  <1>12. \A q \in T : lev[q] \in Nat BY <1>1 DEF Ranges
  <1>8. /\ hi[right] \in Nat /\ top \in Nat /\ hi[right] <= top /\ lev[left] \in Nat
        /\ m # top
    <2>1. /\ \A q \in T : hi[q] \in Nat /\ hi[q] <= top
          /\ top \in Nat
      BY <1>1 DEF Ranges
    <2>2. hi[right] \in Nat /\ hi[right] <= top BY <2>1, <1>3
    <2>3. m # top BY <2>1, <2>2
    <2> QED BY <2>1, <2>2, <2>3, <1>3, <1>12
  <1>9. /\ Fits(v2[left], left, T, lo2, hi2, lev, top)
        /\ Fits(v2[right], right, T, lo2, hi2, lev, top)
    <2>1. CASE lev[left] = 0
      <3>1. LeafFits(v[right], lo[right], hi[right], T, lo, lev, top)
        BY <2>1, <1>2, <1>3 DEF Fits
      <3>2. LeafFits(v2[left], lo2[left], hi2[left], T, lo2, lev, top)
        <4>1. /\ v2[left].kids = << >> /\ InRange(v2[left].keys, lo[left], m)
              /\ v2[left].next = right
          BY <2>1, <1>5 DEF LeafPair
        <4>2. lo2[left] = lo[left] /\ hi2[left] = m /\ lo2[right] = m BY <1>3, <1>7
        <4>3. lev[right] = 0 /\ right \in T /\ m # top BY <2>1, <1>3, <1>8
        <4> QED BY <4>1, <4>2, <4>3 DEF LeafFits
      <3>3. v2[right].next # right
        <4>1. hi[right] # top => lo[v[right].next] = hi[right] /\ v[right].next \in T
          BY <3>1 DEF LeafFits
        <4>2. hi[right] = top => v[right].next = 0 BY <3>1 DEF LeafFits
        <4>3. lo[right] < hi[right] /\ lo[right] \in Nat BY <1>1, <1>3 DEF Ranges
        <4>4. lo[right] # hi[right]
          <5>1. lo[right] \in Nat /\ hi[right] \in Nat /\ lo[right] < hi[right] BY <4>3, <1>8
          <5> QED BY <5>1, Less, Zenon
        <4>5. v[right].next # right BY <4>1, <4>2, <4>4, <1>1, <1>3
        <4>6. v2[right].next = v[right].next BY <2>1
        <4> QED BY <4>5, <4>6
      <3>4. LeafFits(v2[right], lo2[right], hi2[right], T, lo2, lev, top)
        <4>1. lo2[right] = m /\ hi2[right] = hi[right] BY <1>3, <1>7
        <4>2. hi[right] = top => v2[right].next = 0 BY <2>1, <3>1 DEF LeafFits
        <4>3. hi[right] # top => /\ v2[right].next \in T /\ lev[v2[right].next] = 0
                                 /\ lo[v2[right].next] = hi[right]
          BY <2>1, <3>1 DEF LeafFits
        <4>4. hi[right] # top => lo2[v2[right].next] = hi[right] BY <4>3, <3>3, <1>7
        <4>5. v2[right].kids = << >> /\ InRange(v2[right].keys, m, hi[right])
          BY <2>1 DEF LeafPair
        <4> QED BY <4>1, <4>2, <4>3, <4>4, <4>5 DEF LeafFits
      <3> QED BY <2>1, <3>2, <3>4, <1>3 DEF Fits
    <2>2. CASE lev[left] # 0
      <3>1. ASSUME NEW ks, NEW cs, NEW a, NEW b,
                   InnerFits(ks, cs, a, b, lev[left], T, lo, hi, lev)
            PROVE  InnerFits(ks, cs, a, b, lev[left], T, lo2, hi2, lev)
        <4>1. \A q \in T : lev[q] # lev[left] =>
                q \in T /\ lo2[q] = lo[q] /\ hi2[q] = hi[q]
          BY <1>3, <1>7
        <4> QED BY <3>1, <4>1, <1>12, KidsBelow, SMTT(30)
      <3>2. InnerFits(v2[left].keys, v2[left].kids, lo[left], m, lev[left], T, lo2, hi2, lev)
        BY <2>2, <3>1 DEF InnerPair
      <3>3. InnerFits(v2[right].keys, v2[right].kids, m, hi[right], lev[left], T, lo2, hi2, lev)
        BY <2>2, <3>1 DEF InnerPair
      <3> QED BY <2>2, <3>2, <3>3, <1>3, <1>7 DEF Fits
    <2> QED BY <2>1, <2>2
  <1>10. Fits(v2[u], u, T, lo2, hi2, lev, top)
    <2>1. InnerFits(v[u].keys, v[u].kids, lo[u], hi[u], lev[u], T, lo, hi, lev)
      BY <1>2 DEF Fits
    <2>2. InnerFits([v[u].keys EXCEPT ![i] = m], v[u].kids, lo[u], hi[u], lev[u],
                    T, lo2, hi2, lev)
      BY <1>1, <2>1, MoveFits
    <2> QED BY <2>2, <1>3, <1>7 DEF Fits, Rekeyed
  <1>11. ASSUME NEW q \in T \ {u, left, right}
         PROVE  Fits(v2[q], q, T, lo2, hi2, lev, top)
    <2>1. Fits(v[q], q, T, lo, hi, lev, top) BY <1>2
    <2>2. lo2[q] = lo[q] /\ hi2[q] = hi[q] BY <1>7
    <2>3. \A j \in 1..Len(v[q].kids) : LET c == v[q].kids[j] IN
            c \in T => c \in T /\ lo2[c] = lo[c] /\ hi2[c] = hi[c] /\ lev[c] = lev[c]
      BY <1>4, <1>7
    <2>4. lev[q] = 0 /\ hi[q] # top => v[q].next \in T BY <2>1 DEF Fits, LeafFits
    <2>5. lev[q] = 0 /\ hi[q] # top =>
            v[q].next \in T /\ lo2[v[q].next] = lo[v[q].next] /\ lev[v[q].next] = lev[v[q].next]
      BY <2>4, <1>5, <1>7
    <2>6. lev[q] = lev[q] OBVIOUS
    <2>7. Fits(v[q], q, T, lo2, hi2, lev, top) BY <2>1, <2>2, <2>3, <2>5, <2>6, FitsStill, ZenonT(20)
    <2> QED BY <2>7 DEF Same
  <1> QED BY <1>1, <1>6, <1>9, <1>10, <1>11 DEF Tree
-----------------------------------------------------------------------------
\* x is a leaf that has taken in the one before which y was the next.
LeafOne(x, y, l, h) == x.kids = << >> /\ InRange(x.keys, l, h) /\ x.next = y.next

LEMMA UniteRanges ==
  ASSUME NEW T, NEW lo, NEW hi, NEW lev, NEW h, NEW top, Ranges(T, lo, hi, lev, h, top),
         NEW left \in T, NEW right \in T, left # right, lev[left] = lev[right],
         hi[left] = lo[right], NEW hi2, United(T, hi, left, right, hi2)
  PROVE  Ranges(T \ {right}, lo, hi2, lev, h, top)
PROOF
  <1>1. /\ h \in Nat /\ top \in Nat
        /\ \A q \in T : /\ lo[q] \in Nat /\ hi[q] \in Nat /\ lev[q] \in 0..h
                        /\ lo[q] < hi[q] /\ hi[q] <= top
    BY DEF Ranges
  <1>2. \A q \in T : hi2[q] = IF q = left THEN hi[right] ELSE hi[q]
    BY DEF United
  <1>3. \A q \in T :
          /\ lo[q] \in Nat /\ hi2[q] \in Nat /\ lev[q] \in 0..h
          /\ lo[q] < hi2[q] /\ hi2[q] <= top
    BY <1>1, <1>2
  <1>4. \A q, r \in T : lev[q] = lev[r] /\ q # r => hi[q] <= lo[r] \/ hi[r] <= lo[q]
    BY DEF Ranges
  <1>5. ASSUME NEW q \in T, q # left, q # right, lev[q] = lev[left]
        PROVE  hi[q] <= lo[left] \/ hi[right] <= lo[q]
    <2>1. hi[q] <= lo[left] \/ hi[left] <= lo[q] BY <1>4, <1>5
    <2>2. hi[q] <= lo[right] \/ hi[right] <= lo[q] BY <1>4, <1>5
    <2> QED BY <2>1, <2>2, <1>1
  <1>6. ASSUME NEW q \in T \ {right}, NEW r \in T \ {right}, lev[q] = lev[r], q # r
        PROVE  hi2[q] <= lo[r] \/ hi2[r] <= lo[q]
    <2>1. CASE q # left /\ r # left BY <2>1, <1>2, <1>4, <1>6
    <2>2. CASE q = left
      <3>1. hi[r] <= lo[left] \/ hi[right] <= lo[r] BY <2>2, <1>5, <1>6
      <3> QED BY <2>2, <3>1, <1>2, <1>6
    <2>3. CASE r = left
      <3>1. hi[q] <= lo[left] \/ hi[right] <= lo[q] BY <2>3, <1>5, <1>6
      <3> QED BY <2>3, <3>1, <1>2, <1>6
    <2> QED BY <2>1, <2>2, <2>3
  <1>7. ASSUME NEW d \in 0..h, NEW k \in 0..(top - 1)
        PROVE  \E q \in T \ {right} : lev[q] = d /\ lo[q] <= k /\ k < hi2[q]
    <2>1. PICK q \in T : lev[q] = d /\ lo[q] <= k /\ k < hi[q] BY DEF Ranges
    <2>2. CASE q \notin {left, right} BY <2>1, <2>2, <1>2
    <2>3. CASE q \in {left, right}
      <3>1. lo[left] <= k /\ k < hi2[left] /\ lev[left] = d BY <2>1, <2>3, <1>1, <1>2
      <3> QED BY <3>1
    <2> QED BY <2>2, <2>3
  <1>8. \A q \in T \ {right} : q \in T OBVIOUS
  <1> QED BY <1>1, <1>3, <1>6, <1>7, <1>8 DEF Ranges

LEMMA UniteTree ==
  ASSUME NEW T, NEW v, NEW lo, NEW hi, NEW lev, NEW h, NEW top,
         Tree(T, v, lo, hi, lev, h, top),
         NEW u \in T, lev[u] # 0, NEW i \in 1..Len(v[u].keys),
         NEW left, NEW right, left = v[u].kids[i], right = v[u].kids[i + 1],
         NEW hi2, United(T, hi, left, right, hi2),
         NEW v2,
         Cut(v[u], v2[u], i),
         lev[left] = 0 => LeafOne(v2[left], v[right], lo[left], hi[right]),
         lev[left] # 0 =>
           InnerFits(v2[left].keys, v2[left].kids, lo[left], hi[right], lev[left],
                     T, lo, hi, lev),
         Same(v, v2, T \ {u, left, right})
  PROVE  Tree(T \ {right}, v2, lo, hi2, lev, h, top)
PROOF
  <1> DEFINE T2 == T \ {right}
  <1>0. Paired(T, v, lo, hi, lev, top, u, i, left, right) BY Siblings
  <1>1. Ranges(T, lo, hi, lev, h, top) /\ 0 \notin T BY DEF Tree
  <1>2. \A q \in T : Fits(v[q], q, T, lo, hi, lev, top) BY DEF Tree
  <1>3. /\ left \in T /\ right \in T /\ left # right /\ u # left /\ u # right
        /\ lev[left] + 1 = lev[u] /\ lev[right] = lev[left]
        /\ hi[left] = v[u].keys[i] /\ lo[right] = v[u].keys[i]
    BY <1>0 DEF Paired
  <1>4. \A q \in T : \A j \in 1..Len(v[q].kids) :
          /\ v[q].kids[j] = left => q = u
          /\ v[q].kids[j] = right => q = u
    BY <1>0 DEF Paired
  <1>5. /\ lev[left] = 0 => v[left].next = right /\ hi[left] # top
        /\ \A q \in T : lev[q] = 0 /\ hi[q] # top /\ v[q].next = right => q = left
    BY <1>0 DEF Paired
  <1>6. Ranges(T2, lo, hi2, lev, h, top) BY <1>1, <1>3, UniteRanges
  <1>7. \A q \in T : hi2[q] = IF q = left THEN hi[right] ELSE hi[q] BY DEF United
  <1>13. \A q \in T : lev[q] \in Nat BY <1>1 DEF Ranges
  <1>8. /\ lo[right] \in Nat /\ hi[right] \in Nat /\ lo[right] < hi[right] /\ lev[left] \in Nat
    <2>1. \A q \in T : lo[q] \in Nat /\ hi[q] \in Nat /\ lev[q] \in 0..h /\ lo[q] < hi[q]
      BY <1>1 DEF Ranges
    <2> QED BY <2>1, <1>3
  <1>9. Fits(v2[left], left, T2, lo, hi2, lev, top)
    <2>1. CASE lev[left] = 0
      <3>1. LeafFits(v[right], lo[right], hi[right], T, lo, lev, top)
        BY <2>1, <1>2, <1>3 DEF Fits
      <3>0. /\ v2[left].kids = << >> /\ InRange(v2[left].keys, lo[left], hi[right])
            /\ v2[left].next = v[right].next
        BY <2>1 DEF LeafOne
      <3>2. hi[right] = top => v2[left].next = 0 BY <3>0, <3>1 DEF LeafFits
      <3>3. hi[right] # top => /\ v2[left].next \in T /\ lev[v2[left].next] = 0
                               /\ lo[v2[left].next] = hi[right]
        BY <3>0, <3>1 DEF LeafFits
      <3>4. hi[right] # top => v2[left].next # right
        <4>1. lo[right] # hi[right] BY <1>8, Less, Zenon
        <4> QED BY <4>1, <3>3
      <3>5. hi2[left] = hi[right] BY <1>3, <1>7
      <3>7. LeafFits(v2[left], lo[left], hi2[left], T2, lo, lev, top)
        BY <3>0, <3>2, <3>3, <3>4, <3>5 DEF LeafFits
      <3> QED BY <2>1, <3>7 DEF Fits
    <2>2. CASE lev[left] # 0
      <3>1. InnerFits(v2[left].keys, v2[left].kids, lo[left], hi[right], lev[left],
                      T, lo, hi, lev)
        BY <2>2
      <3>2. PICK ks, cs, d, e : /\ ks = v2[left].keys /\ cs = v2[left].kids
                                /\ d = lo[left] /\ e = hi[right]
        OBVIOUS
      <3>3. InnerFits(ks, cs, d, e, lev[left], T, lo, hi, lev) BY <3>1, <3>2
      <3>4. \A q \in T : lev[q] # lev[left] =>
              q \in T2 /\ lo[q] = lo[q] /\ hi2[q] = hi[q]
        BY <1>3, <1>7
      <3>5. InnerFits(ks, cs, d, e, lev[left], T2, lo, hi2, lev) BY <3>3, <3>4, <1>13, KidsBelow
      <3>6. InnerFits(v2[left].keys, v2[left].kids, lo[left], hi[right], lev[left],
                      T2, lo, hi2, lev)
        BY <3>2, <3>5
      <3> QED BY <2>2, <3>6, <1>3, <1>7 DEF Fits
    <2> QED BY <2>1, <2>2
  <1>10. Fits(v2[u], u, T2, lo, hi2, lev, top)
    <2>1. InnerFits(v[u].keys, v[u].kids, lo[u], hi[u], lev[u], T, lo, hi, lev)
      BY <1>2 DEF Fits
    <2>2. InnerFits(RemoveAt(v[u].keys, i), RemoveAt(v[u].kids, i + 1), lo[u], hi[u], lev[u],
                    T2, lo, hi2, lev)
      BY <1>1, <2>1, CutFits
    <2> QED BY <2>2, <1>3, <1>7 DEF Fits, Cut
  <1>11. ASSUME NEW q \in T \ {u, left, right}
         PROVE  Fits(v2[q], q, T2, lo, hi2, lev, top)
    <2>1. Fits(v[q], q, T, lo, hi, lev, top) BY <1>2
    <2>2. lo[q] = lo[q] /\ hi2[q] = hi[q] /\ lev[q] = lev[q] BY <1>7
    <2>3. \A j \in 1..Len(v[q].kids) : LET c == v[q].kids[j] IN
            c \in T => c \in T2 /\ lo[c] = lo[c] /\ hi2[c] = hi[c] /\ lev[c] = lev[c]
      BY <1>4, <1>7
    <2>4. lev[q] = 0 /\ hi[q] # top => v[q].next \in T BY <2>1 DEF Fits, LeafFits
    <2>5. lev[q] = 0 /\ hi[q] # top =>
            v[q].next \in T2 /\ lo[v[q].next] = lo[v[q].next] /\ lev[v[q].next] = lev[v[q].next]
      BY <2>4, <1>5
    <2>6. Fits(v[q], q, T2, lo, hi2, lev, top) BY <2>1, <2>2, <2>3, <2>5, FitsStill
    <2> QED BY <2>6 DEF Same
  <1>12. 0 \notin T2 BY <1>1
  <1> QED BY <1>6, <1>9, <1>10, <1>11, <1>12 DEF Tree

-----------------------------------------------------------------------------
\* A new root above the two nodes a and b of the former top level.
Crowned(T, lo, hi, lev, new, top, h, lo2, hi2, lev2) ==
  /\ \A q \in T : lo2[q] = lo[q] /\ hi2[q] = hi[q] /\ lev2[q] = lev[q]
  /\ lo2[new] = 0 /\ hi2[new] = top /\ lev2[new] = h
Tops(lo, hi, lev, a, b, h, g, top) ==
  /\ lev[a] = h /\ lev[b] = h /\ lo[a] = 0 /\ hi[a] = lo[b] /\ hi[b] = top
  /\ g = h + 1
TopOf(T, v, hi, a, b, new, v2) ==
  /\ \A q \in T : v2[q] = v[q]
  /\ v2[new].keys = <<hi[a]>> /\ v2[new].kids = <<a, b>>

LEMMA TopTree ==
  ASSUME NEW T, NEW v, NEW lo, NEW hi, NEW lev, NEW h, NEW top,
         Tree(T, v, lo, hi, lev, h, top),
         NEW a \in T, NEW b \in T, NEW new, new \notin T, new # 0,
         NEW g, Tops(lo, hi, lev, a, b, h, g, top),
         NEW lo2, NEW hi2, NEW lev2, Crowned(T, lo, hi, lev, new, top, g, lo2, hi2, lev2),
         NEW v2, TopOf(T, v, hi, a, b, new, v2)
  PROVE  Tree(T \cup {new}, v2, lo2, hi2, lev2, g, top)
PROOF
  <1> DEFINE T2 == T \cup {new}
  <1>0. /\ lev[a] = h /\ lev[b] = h /\ lo[a] = 0 /\ hi[a] = lo[b] /\ hi[b] = top
        /\ g = h + 1
    BY DEF Tops
  <1>01. /\ \A q \in T : lo2[q] = lo[q] /\ hi2[q] = hi[q] /\ lev2[q] = lev[q]
         /\ lo2[new] = 0 /\ hi2[new] = top /\ lev2[new] = h + 1
    BY <1>0 DEF Crowned
  <1>02. /\ \A q \in T : v2[q] = v[q]
         /\ v2[new].keys = <<hi[a]>> /\ v2[new].kids = <<a, b>>
    BY DEF TopOf
  <1> USE <1>0, <1>01, <1>02
  <1>1. Ranges(T, lo, hi, lev, h, top) /\ 0 \notin T BY DEF Tree
  <1>2. /\ h \in Nat /\ top \in Nat
        /\ \A q \in T : /\ lo[q] \in Nat /\ hi[q] \in Nat /\ lev[q] \in 0..h
                        /\ lo[q] < hi[q] /\ hi[q] <= top
    BY <1>1 DEF Ranges
  <1>3. Ranges(T2, lo2, hi2, lev2, h + 1, top)
    <2>1. \A q \in T2 : /\ lo2[q] \in Nat /\ hi2[q] \in Nat /\ lev2[q] \in 0..(h + 1)
                        /\ lo2[q] < hi2[q] /\ hi2[q] <= top
      BY <1>2
    <2>2. \A q, r \in T : lev[q] = lev[r] /\ q # r => hi[q] <= lo[r] \/ hi[r] <= lo[q]
      BY <1>1 DEF Ranges
    <2>3. \A q \in T : lev2[q] # lev2[new] BY <1>2
    <2>4. \A q, r \in T2 : lev2[q] = lev2[r] /\ q # r => hi2[q] <= lo2[r] \/ hi2[r] <= lo2[q]
      BY <2>2, <2>3
    <2>5. ASSUME NEW d \in 0..(h + 1), NEW k \in 0..(top - 1)
          PROVE  \E q \in T2 : lev2[q] = d /\ lo2[q] <= k /\ k < hi2[q]
      <3>1. CASE d = h + 1
        <4>1. new \in T2 /\ lev2[new] = d /\ lo2[new] <= k /\ k < hi2[new] BY <3>1, <1>2
        <4> QED BY <4>1
      <3>2. CASE d # h + 1
        <4>1. d \in 0..h BY <3>2, <1>2
        <4>2. PICK q \in T : lev[q] = d /\ lo[q] <= k /\ k < hi[q]
          BY <4>1, <1>1 DEF Ranges
        <4> QED BY <4>2
      <3> QED BY <3>1, <3>2
    <2>6. h + 1 \in Nat BY <1>2
    <2> QED BY <1>2, <2>1, <2>4, <2>5, <2>6 DEF Ranges
  <1>4. ASSUME NEW q \in T PROVE Fits(v2[q], q, T2, lo2, hi2, lev2, top)
    <2>1. Fits(v[q], q, T, lo, hi, lev, top) BY DEF Tree
    <2>2. lev[q] = 0 /\ hi[q] # top => v[q].next \in T BY <2>1 DEF Fits, LeafFits
    <2>3. lev[q] = 0 /\ hi[q] # top =>
            v[q].next \in T2 /\ lo2[v[q].next] = lo[v[q].next] /\ lev2[v[q].next] = lev[v[q].next]
      BY <2>2
    <2>4. \A j \in 1..Len(v[q].kids) : LET c == v[q].kids[j] IN
            c \in T => c \in T2 /\ lo2[c] = lo[c] /\ hi2[c] = hi[c] /\ lev2[c] = lev[c]
      OBVIOUS
    <2>5. lo2[q] = lo[q] /\ hi2[q] = hi[q] /\ lev2[q] = lev[q] OBVIOUS
    <2>6. Fits(v[q], q, T2, lo2, hi2, lev2, top) BY <2>1, <2>3, <2>4, <2>5, FitsStill
    <2> QED BY <2>6
  <1>5. Fits(v2[new], new, T2, lo2, hi2, lev2, top)
    <2>1. PICK ks : ks = <<hi[a]>> OBVIOUS
    <2>2. PICK cs : cs = <<a, b>> OBVIOUS
    <2>3. ks \in Seq(Nat) /\ Len(ks) = 1 /\ ks[1] = hi[a] BY <2>1, <1>2
    <2>4. cs \in Seq(T2) /\ Len(cs) = 2 /\ cs[1] = a /\ cs[2] = b BY <2>2
    <2>5. \A i \in 1..2 : lev2[cs[i]] + 1 = h + 1
      <3>1. \A i \in 1..2 : i = 1 \/ i = 2 OBVIOUS
      <3> QED BY <3>1, <2>4
    <2>6. \A i \in 1..1 : hi2[cs[i]] = ks[i] /\ lo2[cs[i + 1]] = ks[i]
      <3>1. \A i \in 1..1 : i = 1 OBVIOUS
      <3>2. hi2[cs[1]] = ks[1] /\ lo2[cs[2]] = ks[1] BY <2>3, <2>4
      <3> QED BY <3>1, <3>2
    <2>7. lo2[cs[1]] = 0 /\ hi2[cs[2]] = top BY <2>4
    <2>8. InnerFits(ks, cs, 0, top, h + 1, T2, lo2, hi2, lev2)
      BY <2>3, <2>4, <2>5, <2>6, <2>7 DEF InnerFits
    <2>9. h + 1 # 0 BY <1>2
    <2> QED BY <2>1, <2>2, <2>8, <2>9 DEF Fits
  <1>6. 0 \notin T2 BY <1>1
  <1> QED BY <1>3, <1>4, <1>5, <1>6 DEF Tree

LEMMA ShrinkTree ==
  ASSUME NEW T, NEW v, NEW lo, NEW hi, NEW lev, NEW h, NEW top,
         Tree(T, v, lo, hi, lev, h, top),
         NEW r \in T, lev[r] = h, h # 0, lo[r] = 0, hi[r] = top, v[r].keys = << >>
  PROVE  /\ Tree(T \ {r}, v, lo, hi, lev, h - 1, top)
         /\ v[r].kids[1] \in T \ {r} /\ lev[v[r].kids[1]] = h - 1
         /\ lo[v[r].kids[1]] = 0 /\ hi[v[r].kids[1]] = top
         /\ Len(v[r].kids) = 1
PROOF
  <1> DEFINE T2 == T \ {r}
  <1>1. Ranges(T, lo, hi, lev, h, top) /\ 0 \notin T BY DEF Tree
  <1>2. /\ h \in Nat /\ top \in Nat
        /\ \A q \in T : /\ lo[q] \in Nat /\ hi[q] \in Nat /\ lev[q] \in 0..h
                        /\ lo[q] < hi[q] /\ hi[q] <= top
    BY <1>1 DEF Ranges
  <1>3. \A q, p \in T : lev[q] = lev[p] /\ q # p => hi[q] <= lo[p] \/ hi[p] <= lo[q]
    BY <1>1 DEF Ranges
  <1>4. ASSUME NEW q \in T2 PROVE lev[q] \in 0..(h - 1)
    <2>1. lev[q] # h
      <3>1. SUFFICES ASSUME lev[q] = h PROVE FALSE OBVIOUS
      <3>2. hi[q] <= lo[r] \/ hi[r] <= lo[q] BY <3>1, <1>3
      <3> QED BY <3>2, <1>2
    <2> QED BY <2>1, <1>2
  <1>5. Ranges(T2, lo, hi, lev, h - 1, top)
    <2>1. ASSUME NEW d \in 0..(h - 1), NEW k \in 0..(top - 1)
          PROVE  \E q \in T2 : lev[q] = d /\ lo[q] <= k /\ k < hi[q]
      <3>1. d \in 0..h /\ d # h BY <1>2
      <3>2. PICK q \in T : lev[q] = d /\ lo[q] <= k /\ k < hi[q] BY <3>1, <1>1 DEF Ranges
      <3> QED BY <3>1, <3>2
    <2>2. h - 1 \in Nat BY <1>2
    <2> QED BY <1>2, <1>3, <1>4, <2>1, <2>2 DEF Ranges
  <1>6. Fits(v[r], r, T, lo, hi, lev, top) BY DEF Tree
  <1>7. InnerFits(v[r].keys, v[r].kids, 0, top, h, T, lo, hi, lev) BY <1>6 DEF Fits
  <1>8. PICK cs : cs = v[r].kids OBVIOUS
  <1>9. /\ Len(cs) = 1 /\ cs[1] \in T /\ lev[cs[1]] + 1 = h
        /\ lo[cs[1]] = 0 /\ hi[cs[1]] = top
    <2>1. Len(<< >>) = 0 OBVIOUS
    <2>2. Len(cs) = 1 BY <2>1, <1>7, <1>8 DEF InnerFits
    <2> QED BY <2>2, <1>7, <1>8 DEF InnerFits
  <1>10. lev[cs[1]] = h - 1 /\ cs[1] \in T2 BY <1>2, <1>9
  <1>11. ASSUME NEW q \in T2 PROVE Fits(v[q], q, T2, lo, hi, lev, top)
    <2>1. Fits(v[q], q, T, lo, hi, lev, top) BY DEF Tree
    <2>2. lev[q] = 0 /\ hi[q] # top => v[q].next \in T /\ lev[v[q].next] = 0
      BY <2>1 DEF Fits, LeafFits
    <2>3. lev[q] = 0 /\ hi[q] # top =>
            v[q].next \in T2 /\ lo[v[q].next] = lo[v[q].next] /\ lev[v[q].next] = lev[v[q].next]
      BY <2>2
    <2>4. ASSUME NEW j \in 1..Len(v[q].kids)
          PROVE  LET c == v[q].kids[j] IN
                 c \in T => c \in T2 /\ lo[c] = lo[c] /\ hi[c] = hi[c] /\ lev[c] = lev[c]
      <3>1. SUFFICES ASSUME v[q].kids[j] = r PROVE FALSE OBVIOUS
      <3>2. lev[q] = lev[r] + 1 BY <3>1, OneParent
      <3> QED BY <3>2, <1>2
    <2>5. lo[q] = lo[q] /\ hi[q] = hi[q] /\ lev[q] = lev[q] OBVIOUS
    <2> QED BY <2>1, <2>3, <2>4, <2>5, FitsStill
  <1>12. 0 \notin T2 BY <1>1
  <1> QED BY <1>5, <1>8, <1>9, <1>10, <1>11, <1>12 DEF Tree

\* The same, for a root and a height that are only known by their values.
HighestIs(v, lo, hi, lev, r, h, top) ==
  /\ lev[r] = h /\ h # 0 /\ lo[r] = 0 /\ hi[r] = top /\ v[r].keys = << >>
OneLower(T, T2, v, lo, hi, lev, r, h, top, c) ==
  /\ T2 = T \ {r} /\ Tree(T2, v, lo, hi, lev, h - 1, top)
  /\ c \in T2 /\ lev[c] = h - 1 /\ lo[c] = 0 /\ hi[c] = top

LEMMA ShrinkTree2 ==
  ASSUME NEW T, NEW v, NEW lo, NEW hi, NEW lev, NEW h, NEW top,
         Tree(T, v, lo, hi, lev, h, top),
         NEW r \in T, HighestIs(v, lo, hi, lev, r, h, top)
  PROVE  \E T2, c : c = v[r].kids[1] /\ OneLower(T, T2, v, lo, hi, lev, r, h, top, c)
PROOF
  <1>1. lev[r] = h /\ h # 0 /\ lo[r] = 0 /\ hi[r] = top /\ v[r].keys = << >>
    BY DEF HighestIs
  <1>2. /\ Tree(T \ {r}, v, lo, hi, lev, h - 1, top)
        /\ v[r].kids[1] \in T \ {r} /\ lev[v[r].kids[1]] = h - 1
        /\ lo[v[r].kids[1]] = 0 /\ hi[v[r].kids[1]] = top
    BY <1>1, ShrinkTree
  <1>3. PICK T2, c : T2 = T \ {r} /\ c = v[r].kids[1] OBVIOUS
  <1>4. OneLower(T, T2, v, lo, hi, lev, r, h, top, c) BY <1>2, <1>3 DEF OneLower
  <1> QED BY <1>3, <1>4

-----------------------------------------------------------------------------
\* The tree knows a page by its keys and kids, and a leaf by its next page too.
LEMMA TreeAlike ==
  ASSUME NEW T, NEW v, NEW lo, NEW hi, NEW lev, NEW h, NEW top,
         Tree(T, v, lo, hi, lev, h, top), NEW v2,
         \A q \in T : /\ v2[q].keys = v[q].keys /\ v2[q].kids = v[q].kids
                      /\ lev[q] = 0 => v2[q].next = v[q].next
  PROVE  Tree(T, v2, lo, hi, lev, h, top)
PROOF
  <1>1. ASSUME NEW q \in T PROVE Fits(v2[q], q, T, lo, hi, lev, top)
    <2>1. Fits(v[q], q, T, lo, hi, lev, top) BY DEF Tree
    <2>2. CASE lev[q] = 0 BY <2>1, <2>2 DEF Fits, LeafFits
    <2>3. CASE lev[q] # 0 BY <2>1, <2>3 DEF Fits
    <2> QED BY <2>2, <2>3
  <1> QED BY <1>1 DEF Tree

\* Other keys of its range in one leaf.
LEMMA LeafTree ==
  ASSUME NEW T, NEW v, NEW lo, NEW hi, NEW lev, NEW h, NEW top,
         Tree(T, v, lo, hi, lev, h, top), NEW p \in T, lev[p] = 0, NEW v2,
         v2[p].kids = << >>, InRange(v2[p].keys, lo[p], hi[p]), v2[p].next = v[p].next,
         Same(v, v2, T \ {p})
  PROVE  Tree(T, v2, lo, hi, lev, h, top)
PROOF
  <1>1. ASSUME NEW q \in T PROVE Fits(v2[q], q, T, lo, hi, lev, top)
    <2>1. Fits(v[q], q, T, lo, hi, lev, top) BY DEF Tree
    <2>2. CASE q = p BY <2>1, <2>2 DEF Fits, LeafFits
    <2>3. CASE q # p BY <2>1, <2>3 DEF Same
    <2> QED BY <2>2, <2>3
  <1> QED BY <1>1 DEF Tree

-----------------------------------------------------------------------------
(* Ascending keys.                                                         *)
\* A stretch of them.
LEMMA PartInRange ==
  ASSUME NEW ks, NEW l, NEW h, InRange(ks, l, h), NEW a \in Nat, NEW b \in Nat,
         1 <= a, a <= b + 1, b <= Len(ks), NEW l2, NEW h2,
         \A i \in a..b : l2 <= ks[i] /\ ks[i] < h2
  PROVE  InRange(SubSeq(ks, a, b), l2, h2) /\ Len(SubSeq(ks, a, b)) = b - a + 1
PROOF
  <1>1. PICK s : s = SubSeq(ks, a, b) OBVIOUS
  <1>2. ks \in Seq(Nat) /\ Len(ks) \in Nat BY DEF InRange
  <1>3. \A i, j \in 1..Len(ks) : i < j => ks[i] < ks[j] BY DEF InRange, Ordered
  <1>4. /\ s \in Seq(Nat) /\ Len(s) = b - a + 1
        /\ \A i \in 1..(b - a + 1) : s[i] = ks[a + i - 1]
    BY <1>1, <1>2, PartIs
  <1>5. \A i \in 1..(b - a + 1) : a + i - 1 \in a..b /\ a + i - 1 \in 1..Len(ks)
    BY <1>2
  <1>6. \A i, j \in 1..(b - a + 1) : i < j => s[i] < s[j]
    <2> TAKE i, j \in 1..(b - a + 1)
    <2> HAVE i < j
    <2>1. a + i - 1 < a + j - 1 OBVIOUS
    <2> QED BY <2>1, <1>3, <1>4, <1>5
  <1>7. \A i \in 1..(b - a + 1) : l2 <= s[i] /\ s[i] < h2 BY <1>4, <1>5
  <1>8. InRange(s, l2, h2) BY <1>4, <1>6, <1>7 DEF InRange, Ordered
  <1> QED BY <1>1, <1>4, <1>8

\* Two runs of keys, one behind the other.
LEMMA JoinInRange ==
  ASSUME NEW l \in Nat, NEW m \in Nat, NEW h \in Nat, l <= m, m <= h,
         NEW k1, InRange(k1, l, m), NEW k2, InRange(k2, m, h)
  PROVE  InRange(k1 \o k2, l, h) /\ Len(k1 \o k2) = Len(k1) + Len(k2)
PROOF
  <1>1. PICK x \in Nat : x = Len(k1)
    <2>1. k1 \in Seq(Nat) BY DEF InRange
    <2> QED BY <2>1
  <1>2. PICK y \in Nat : y = Len(k2)
    <2>1. k2 \in Seq(Nat) BY DEF InRange
    <2> QED BY <2>1
  <1>3. PICK k : k = k1 \o k2 OBVIOUS
  <1>4. k1 \in Seq(Nat) /\ k2 \in Seq(Nat) BY DEF InRange
  <1>5. /\ \A i, j \in 1..x : i < j => k1[i] < k1[j]
        /\ \A i \in 1..x : l <= k1[i] /\ k1[i] < m /\ k1[i] \in Nat
    BY <1>1, <1>4 DEF InRange, Ordered
  <1>6. /\ \A i, j \in 1..y : i < j => k2[i] < k2[j]
        /\ \A i \in 1..y : m <= k2[i] /\ k2[i] < h /\ k2[i] \in Nat
    BY <1>2, <1>4 DEF InRange, Ordered
  <1>7. /\ k \in Seq(Nat) /\ Len(k) = x + y
        /\ \A i \in 1..x : k[i] = k1[i]
        /\ \A i \in 1..y : k[x + i] = k2[i]
    <2>1. /\ k1 \o k2 \in Seq(Nat) /\ Len(k1 \o k2) = Len(k1) + Len(k2)
          /\ \A i \in 1..Len(k1) : (k1 \o k2)[i] = k1[i]
          /\ \A i \in 1..Len(k2) : (k1 \o k2)[Len(k1) + i] = k2[i]
      BY <1>4, JoinIs, SMTT(30)
    <2> QED BY <2>1, <1>1, <1>2, <1>3
  <1>8. ASSUME NEW i \in 1..(x + y), ~(i <= x)
        PROVE  i - x \in 1..y /\ k[i] = k2[i - x]
    <2>1. i - x \in 1..y /\ x + (i - x) = i BY <1>8
    <2> QED BY <2>1, <1>7
  <1>9. ASSUME NEW i \in 1..(x + y) PROVE l <= k[i] /\ k[i] < h
    <2>1. CASE i <= x
      <3>1. i \in 1..x BY <2>1
      <3>2. l <= k1[i] /\ k1[i] < m /\ k1[i] \in Nat BY <3>1, <1>5
      <3>3. k[i] = k1[i] BY <3>1, <1>7
      <3>4. PICK e \in Nat : e = k1[i] BY <3>2
      <3>5. l <= e /\ e < h BY <3>2, <3>4
      <3> QED BY <3>3, <3>4, <3>5
    <2>2. CASE ~(i <= x)
      <3>1. i - x \in 1..y /\ k[i] = k2[i - x] BY <2>2, <1>8
      <3>2. PICK e \in Nat : e = k[i] /\ m <= e /\ e < h BY <3>1, <1>6
      <3>3. l <= e BY <3>2
      <3> QED BY <3>2, <3>3
    <2> QED BY <2>1, <2>2
  <1>10. ASSUME NEW i \in 1..(x + y), NEW j \in 1..(x + y), i < j PROVE k[i] < k[j]
    <2>1. CASE j <= x
      <3>1. i \in 1..x /\ j \in 1..x BY <2>1, <1>10
      <3> QED BY <3>1, <1>5, <1>7, <1>10
    <2>2. CASE i <= x /\ ~(j <= x)
      <3>1. i \in 1..x BY <2>2
      <3>2. j - x \in 1..y /\ k[j] = k2[j - x] BY <2>2, <1>8
      <3>3. k[i] < m /\ k[i] \in Nat BY <3>1, <1>5, <1>7
      <3>4. m <= k[j] /\ k[j] \in Nat BY <3>2, <1>6
      <3> QED BY <3>3, <3>4
    <2>3. CASE ~(i <= x)
      <3>1. i - x \in 1..y /\ k[i] = k2[i - x] BY <2>3, <1>8
      <3>2. j - x \in 1..y /\ k[j] = k2[j - x] BY <2>3, <1>8, <1>10
      <3>3. i - x < j - x BY <1>10
      <3> QED BY <3>1, <3>2, <3>3, <1>6
    <2> QED BY <2>1, <2>2, <2>3, <1>10
  <1>11. InRange(k, l, h) BY <1>7, <1>9, <1>10 DEF InRange, Ordered
  <1> QED BY <1>1, <1>2, <1>3, <1>7, <1>11

\* One key less.
LEMMA RemoveInRange ==
  ASSUME NEW ks, NEW l, NEW h, InRange(ks, l, h), NEW a \in 1..Len(ks)
  PROVE  InRange(RemoveAt(ks, a), l, h) /\ Len(RemoveAt(ks, a)) = Len(ks) - 1
PROOF
  <1>1. ks \in Seq(Nat) /\ Len(ks) \in Nat BY DEF InRange
  <1>2. PICK s : s = RemoveAt(ks, a) OBVIOUS
  <1>3. PICK n \in Nat : n = Len(ks) BY <1>1
  <1>4. /\ s \in Seq(Nat) /\ Len(s) = n - 1
        /\ \A i \in 1..(n - 1) : s[i] = IF i < a THEN ks[i] ELSE ks[i + 1]
    BY <1>1, <1>2, <1>3, RemoveIs
  <1>5. /\ \A i, j \in 1..n : i < j => ks[i] < ks[j]
        /\ \A i \in 1..n : l <= ks[i] /\ ks[i] < h
    BY <1>3 DEF InRange, Ordered
  <1>6. \A i \in 1..(n - 1) : i \in 1..n /\ i + 1 \in 1..n BY <1>3
  <1>7. \A i \in 1..(n - 1) : l <= s[i] /\ s[i] < h BY <1>4, <1>5, <1>6
  <1>8. ASSUME NEW i \in 1..(n - 1), NEW j \in 1..(n - 1), i < j PROVE s[i] < s[j]
    <2>1. PICK x \in 1..n : s[i] = ks[x] /\ x = IF i < a THEN i ELSE i + 1
      <3>1. CASE i < a BY <3>1, <1>4, <1>6
      <3>2. CASE ~(i < a) BY <3>2, <1>4, <1>6
      <3> QED BY <3>1, <3>2
    <2>2. PICK y \in 1..n : s[j] = ks[y] /\ y = IF j < a THEN j ELSE j + 1
      <3>1. CASE j < a BY <3>1, <1>4, <1>6
      <3>2. CASE ~(j < a) BY <3>2, <1>4, <1>6
      <3> QED BY <3>1, <3>2
    <2>3. x < y BY <2>1, <2>2, <1>8
    <2> QED BY <2>1, <2>2, <2>3, <1>5
  <1>9. InRange(s, l, h) BY <1>4, <1>7, <1>8 DEF InRange, Ordered
  <1> QED BY <1>2, <1>3, <1>4, <1>9

\* A wider range.
LEMMA WidenRange ==
  ASSUME NEW ks, NEW l \in Nat, NEW h \in Nat, InRange(ks, l, h),
         NEW l2 \in Nat, NEW h2 \in Nat, l2 <= l, h <= h2
  PROVE  InRange(ks, l2, h2)
PROOF
  <1>1. ks \in Seq(Nat) /\ Ordered(ks) BY DEF InRange
  <1>2. ASSUME NEW i \in 1..Len(ks) PROVE l2 <= ks[i] /\ ks[i] < h2
    <2>1. l <= ks[i] /\ ks[i] < h BY DEF InRange
    <2>2. ks[i] \in Nat BY <1>1
    <2> QED BY <2>1, <2>2
  <1> QED BY <1>1, <1>2 DEF InRange

\* One key more.
LEMMA InsertInRange ==
  ASSUME NEW ks, NEW l, NEW h, InRange(ks, l, h), NEW k \in Nat, l <= k, k < h,
         NEW a \in 1..(Len(ks) + 1),
         \A i \in 1..Len(ks) : (i < a => ks[i] < k) /\ (i >= a => k < ks[i])
  PROVE  InRange(InsertAt(ks, a, k), l, h) /\ Len(InsertAt(ks, a, k)) = Len(ks) + 1
PROOF
  <1>1. ks \in Seq(Nat) /\ Len(ks) \in Nat BY DEF InRange
  <1>2. PICK s : s = InsertAt(ks, a, k) OBVIOUS
  <1>3. PICK n \in Nat : n = Len(ks) BY <1>1
  <1>4. s \in Seq(Nat) /\ Len(s) = n + 1 /\ Inserted(s, ks, n, a, k)
    <2>1. a \in 1..(n + 1) BY <1>3
    <2>2. ks \in Seq(Nat) /\ n = Len(ks) /\ a \in 1..(n + 1) /\ s = InsertAt(ks, a, k)
          => s \in Seq(Nat) /\ Len(s) = n + 1 /\ Inserted(s, ks, n, a, k)
      BY InsertNat
    <2> QED BY <2>1, <2>2, <1>1, <1>2, <1>3
  <1>5. \A i \in 1..(n + 1) :
          (i < a => s[i] = ks[i]) /\ (i = a => s[i] = k) /\ (i > a => s[i] = ks[i - 1])
    BY <1>4 DEF Inserted
  <1>6. /\ \A i, j \in 1..n : i < j => ks[i] < ks[j]
        /\ \A i \in 1..n : l <= ks[i] /\ ks[i] < h /\ ks[i] \in Nat
        /\ \A i \in 1..n : (i < a => ks[i] < k) /\ (i >= a => k < ks[i])
    BY <1>1, <1>3 DEF InRange, Ordered
  <1>7. ASSUME NEW i \in 1..(n + 1) PROVE l <= s[i] /\ s[i] < h
    <2>1. CASE i < a
      <3>1. i \in 1..n BY <2>1, <1>3
      <3> QED BY <2>1, <3>1, <1>5, <1>6
    <2>2. CASE i = a BY <2>2, <1>5
    <2>3. CASE i > a
      <3>1. i - 1 \in 1..n BY <2>3, <1>3
      <3> QED BY <2>3, <3>1, <1>5, <1>6
    <2> QED BY <2>1, <2>2, <2>3, <1>3
  <1>8. ASSUME NEW i \in 1..(n + 1), NEW j \in 1..(n + 1), i < j PROVE s[i] < s[j]
    <2>1. CASE j < a
      <3>1. i \in 1..n /\ j \in 1..n /\ i < a BY <2>1, <1>3, <1>8
      <3>2. s[i] = ks[i] /\ s[j] = ks[j] BY <2>1, <3>1, <1>5
      <3> QED BY <3>1, <3>2, <1>6, <1>8
    <2>2. CASE j = a
      <3>1. i \in 1..n /\ i < a BY <2>2, <1>3, <1>8
      <3>2. s[i] = ks[i] /\ s[j] = k BY <2>2, <3>1, <1>5
      <3> QED BY <3>1, <3>2, <1>6
    <2>3. CASE j > a /\ i < a
      <3>1. i \in 1..n /\ j - 1 \in 1..n /\ j - 1 >= a BY <2>3, <1>3
      <3>2. s[i] = ks[i] /\ s[j] = ks[j - 1] BY <2>3, <1>5
      <3>3. ks[i] < k /\ k < ks[j - 1] /\ ks[i] \in Nat /\ ks[j - 1] \in Nat
        BY <2>3, <3>1, <1>6
      <3> QED BY <3>2, <3>3
    <2>4. CASE j > a /\ i = a
      <3>1. j - 1 \in 1..n /\ j - 1 >= a BY <2>4, <1>3
      <3>2. s[i] = k /\ s[j] = ks[j - 1] BY <2>4, <1>5
      <3> QED BY <3>1, <3>2, <1>6
    <2>5. CASE j > a /\ i > a
      <3>1. i - 1 \in 1..n /\ j - 1 \in 1..n /\ i - 1 < j - 1 BY <2>5, <1>3, <1>8
      <3>2. s[i] = ks[i - 1] /\ s[j] = ks[j - 1] BY <2>5, <1>5
      <3> QED BY <3>1, <3>2, <1>6
    <2> QED BY <2>1, <2>2, <2>3, <2>4, <2>5, <1>3
  <1>9. InRange(s, l, h) BY <1>4, <1>7, <1>8 DEF InRange, Ordered
  <1> QED BY <1>2, <1>3, <1>4, <1>9

-----------------------------------------------------------------------------
(* The keys and kids of an inner node.                                     *)
\* The separators of an inner node lie strictly within its range.
LEMMA KeyBetween ==
  ASSUME NEW T, NEW lo, NEW hi, NEW lev, NEW h, NEW top, Ranges(T, lo, hi, lev, h, top),
         NEW ks, NEW cs, NEW a \in Nat, NEW b \in Nat, NEW d,
         InnerFits(ks, cs, a, b, d, T, lo, hi, lev), NEW i \in 1..Len(ks)
  PROVE  ks[i] \in Nat /\ a < ks[i] /\ ks[i] < b
PROOF
  <1>1. /\ ks \in Seq(Nat) /\ cs \in Seq(T) /\ Len(cs) = Len(ks) + 1
        /\ hi[cs[i]] = ks[i] /\ lo[cs[i + 1]] = ks[i]
    BY DEF InnerFits
  <1>2. PICK o \in Nat : o = i + 1 OBVIOUS
  <1>3. i \in 1..Len(cs) /\ o \in 1..Len(cs) BY <1>1, <1>2
  <1>4. a <= lo[cs[i]] /\ hi[cs[o]] <= b BY <1>3, Order
  <1>5. cs[i] \in T /\ cs[o] \in T BY <1>1, <1>3
  <1>6. /\ lo[cs[i]] < hi[cs[i]] /\ lo[cs[o]] < hi[cs[o]] /\ lo[cs[i]] \in Nat
        /\ hi[cs[o]] \in Nat
    BY <1>5 DEF Ranges
  <1>7. PICK k \in Nat : k = ks[i] BY <1>1
  <1>8. PICK x \in Nat, y \in Nat : x = lo[cs[i]] /\ y = hi[cs[o]] BY <1>6
  <1>9. a <= x /\ x < k /\ k < y /\ y <= b BY <1>1, <1>2, <1>4, <1>6, <1>7, <1>8
  <1>10. a < k /\ k < b BY <1>9
  <1> QED BY <1>7, <1>10

\* One kid more behind the others, or before them.
LEMMA AppendFits ==
  ASSUME NEW T, NEW lo, NEW hi, NEW lev, NEW ks, NEW cs, NEW a, NEW b \in Nat, NEW d,
         InnerFits(ks, cs, a, b, d, T, lo, hi, lev),
         NEW q \in T, lev[q] + 1 = d, lo[q] = b, NEW m, hi[q] = m
  PROVE  /\ InnerFits(Append(ks, b), Append(cs, q), a, m, d, T, lo, hi, lev)
         /\ Len(Append(ks, b)) = Len(ks) + 1
PROOF
  <1>1. /\ ks \in Seq(Nat) /\ cs \in Seq(T) /\ Len(cs) = Len(ks) + 1
        /\ \A i \in 1..Len(cs) : lev[cs[i]] + 1 = d
        /\ lo[cs[1]] = a /\ hi[cs[Len(cs)]] = b
        /\ \A i \in 1..Len(ks) : hi[cs[i]] = ks[i] /\ lo[cs[i + 1]] = ks[i]
    BY DEF InnerFits
  <1>2. PICK n \in Nat : n = Len(ks) BY <1>1
  <1>3. PICK g : g = Append(ks, b) OBVIOUS
  <1>4. g \in Seq(Nat) /\ Len(g) = n + 1 /\ g[n + 1] = b /\ \A i \in 1..n : g[i] = ks[i]
    BY <1>1, <1>2, <1>3
  <1>5. PICK e : e = Append(cs, q) OBVIOUS
  <1>6. /\ e \in Seq(T) /\ Len(e) = n + 2 /\ e[n + 2] = q
        /\ \A i \in 1..(n + 1) : e[i] = cs[i]
    BY <1>1, <1>2, <1>5
  <1>7. \A i \in 1..(n + 2) : lev[e[i]] + 1 = d
    <2> TAKE i \in 1..(n + 2)
    <2>1. CASE i = n + 2 BY <2>1, <1>6
    <2>2. CASE i # n + 2
      <3>1. i \in 1..(n + 1) BY <2>2
      <3> QED BY <3>1, <1>1, <1>2, <1>6
    <2> QED BY <2>1, <2>2
  <1>8. lo[e[1]] = a
    <2>1. 1 \in 1..(n + 1) OBVIOUS
    <2> QED BY <2>1, <1>1, <1>6
  <1>9. ASSUME NEW i \in 1..(n + 1) PROVE hi[e[i]] = g[i] /\ lo[e[i + 1]] = g[i]
    <2>1. PICK o \in Nat : o = i + 1 OBVIOUS
    <2>2. e[i] = cs[i] BY <1>6
    <2>3. CASE i = n + 1
      <3>1. o = n + 2 BY <2>1, <2>3
      <3> QED BY <3>1, <2>1, <2>2, <2>3, <1>1, <1>2, <1>4, <1>6
    <2>4. CASE i # n + 1
      <3>1. i \in 1..n /\ o \in 1..(n + 1) BY <2>1, <2>4
      <3>2. e[o] = cs[o] /\ g[i] = ks[i] BY <3>1, <1>4, <1>6
      <3>3. hi[cs[i]] = ks[i] /\ lo[cs[o]] = ks[i] BY <3>1, <2>1, <1>1, <1>2
      <3> QED BY <3>2, <3>3, <2>1, <2>2
    <2> QED BY <2>3, <2>4
  <1>10. hi[e[n + 2]] = m BY <1>6
  <1>11. Len(e) = Len(g) + 1 BY <1>4, <1>6
  <1>12. InnerFits(g, e, a, m, d, T, lo, hi, lev)
    BY <1>4, <1>6, <1>7, <1>8, <1>9, <1>10, <1>11 DEF InnerFits
  <1> QED BY <1>2, <1>3, <1>4, <1>5, <1>12

\* A sequence of one.
LEMMA OneIs ==
  ASSUME NEW S, NEW x \in S
  PROVE  <<x>> \in Seq(S) /\ Len(<<x>>) = 1 /\ <<x>>[1] = x
PROOF
  OBVIOUS

LEMMA PrependFits ==
  ASSUME NEW T, NEW lo, NEW hi, NEW lev, NEW ks, NEW cs, NEW a \in Nat, NEW b, NEW d,
         InnerFits(ks, cs, a, b, d, T, lo, hi, lev),
         NEW q \in T, lev[q] + 1 = d, hi[q] = a, NEW m, lo[q] = m
  PROVE  /\ InnerFits(<<a>> \o ks, <<q>> \o cs, m, b, d, T, lo, hi, lev)
         /\ Len(<<a>> \o ks) = Len(ks) + 1
PROOF
  <1>1. /\ ks \in Seq(Nat) /\ cs \in Seq(T) /\ Len(cs) = Len(ks) + 1
        /\ \A i \in 1..Len(cs) : lev[cs[i]] + 1 = d
        /\ lo[cs[1]] = a /\ hi[cs[Len(cs)]] = b
        /\ \A i \in 1..Len(ks) : hi[cs[i]] = ks[i] /\ lo[cs[i + 1]] = ks[i]
    BY DEF InnerFits
  <1>2. PICK n \in Nat : n = Len(ks) BY <1>1
  <1>3. PICK g : g = <<a>> \o ks OBVIOUS
  <1>4. PICK one \in Seq(Nat) : one = <<a>> /\ Len(one) = 1 /\ one[1] = a BY OneIs
  <1>5. /\ g \in Seq(Nat) /\ Len(g) = n + 1 /\ g[1] = a
        /\ \A i \in 1..n : g[1 + i] = ks[i]
    <2>1. g = one \o ks BY <1>3, <1>4
    <2>2. /\ one \o ks \in Seq(Nat) /\ Len(one \o ks) = Len(one) + Len(ks)
          /\ \A i \in 1..Len(one) : (one \o ks)[i] = one[i]
          /\ \A i \in 1..Len(ks) : (one \o ks)[Len(one) + i] = ks[i]
      BY <1>1, JoinIs
    <2>3. Len(g) = 1 + n BY <2>1, <2>2, <1>2, <1>4
    <2>4. 1 \in 1..Len(one) BY <1>4
    <2> QED BY <2>1, <2>2, <2>3, <2>4, <1>2, <1>4
  <1>6. PICK e : e = <<q>> \o cs OBVIOUS
  <1>7. PICK two \in Seq(T) : two = <<q>> /\ Len(two) = 1 /\ two[1] = q BY OneIs
  <1>8. /\ e \in Seq(T) /\ Len(e) = n + 2 /\ e[1] = q
        /\ \A i \in 1..(n + 1) : e[1 + i] = cs[i]
    <2>1. e = two \o cs BY <1>6, <1>7
    <2>2. /\ two \o cs \in Seq(T) /\ Len(two \o cs) = Len(two) + Len(cs)
          /\ \A i \in 1..Len(two) : (two \o cs)[i] = two[i]
          /\ \A i \in 1..Len(cs) : (two \o cs)[Len(two) + i] = cs[i]
      <3>1. cs \in Seq(T) BY <1>1
      <3>2. two \in Seq(T) BY <1>7
      <3> QED BY <3>1, <3>2, JoinIs
    <2>3. Len(e) = n + 2 BY <2>1, <2>2, <1>1, <1>2, <1>7
    <2>4. 1 \in 1..Len(two) BY <1>7
    <2> QED BY <2>1, <2>2, <2>3, <2>4, <1>1, <1>2, <1>7
  <1>9. \A i \in 1..(n + 2) : lev[e[i]] + 1 = d
    <2> TAKE i \in 1..(n + 2)
    <2>1. CASE i = 1 BY <2>1, <1>8
    <2>2. CASE i # 1
      <3>1. PICK o \in 1..(n + 1) : i = 1 + o
        <4>1. i - 1 \in 1..(n + 1) /\ i = 1 + (i - 1) BY <2>2
        <4> QED BY <4>1
      <3>2. e[i] = cs[o] BY <3>1, <1>8
      <3> QED BY <3>2, <1>1, <1>2
    <2> QED BY <2>1, <2>2
  <1>10. lo[e[1]] = m BY <1>8
  <1>11. ASSUME NEW i \in 1..(n + 1) PROVE hi[e[i]] = g[i] /\ lo[e[i + 1]] = g[i]
    <2>1. e[i + 1] = cs[i] BY <1>8
    <2>2. CASE i = 1 BY <2>1, <2>2, <1>1, <1>5, <1>8
    <2>3. CASE i # 1
      <3>1. PICK o \in 1..n : i = 1 + o
        <4>1. i - 1 \in 1..n /\ i = 1 + (i - 1) BY <2>3
        <4> QED BY <4>1
      <3>2. g[i] = ks[o] /\ o \in 1..(n + 1) BY <3>1, <1>5
      <3>3. e[i] = cs[o] BY <3>1, <3>2, <1>8
      <3>4. hi[cs[o]] = ks[o] /\ lo[cs[o + 1]] = ks[o] /\ o + 1 = i BY <3>1, <1>1, <1>2
      <3> QED BY <3>2, <3>3, <3>4, <2>1
    <2> QED BY <2>2, <2>3
  <1>12. hi[e[n + 2]] = b
    <2>1. n + 1 \in 1..(n + 1) /\ 1 + (n + 1) = n + 2 OBVIOUS
    <2>2. e[n + 2] = cs[n + 1] BY <2>1, <1>8
    <2> QED BY <2>2, <1>1, <1>2
  <1>13. Len(e) = Len(g) + 1 BY <1>5, <1>8
  <1>14. InnerFits(g, e, m, b, d, T, lo, hi, lev)
    BY <1>5, <1>8, <1>9, <1>10, <1>11, <1>12, <1>13 DEF InnerFits
  <1> QED BY <1>2, <1>3, <1>5, <1>6, <1>14

\* Tail as a part of the sequence.
LEMMA TailIs ==
  ASSUME NEW S, NEW s \in Seq(S), Len(s) >= 1
  PROVE  Tail(s) = SubSeq(s, 2, Len(s))
PROOF
  <1>1. PICK n \in Nat : n = Len(s) /\ n >= 1 OBVIOUS
  <1>2. PICK t : t = Tail(s) OBVIOUS
  <1>3. t \in Seq(S) /\ Len(t) = n - 1 /\ \A i \in 1..(n - 1) : t[i] = s[i + 1]
    BY <1>1, <1>2
  <1>4. PICK u : u = SubSeq(s, 2, n) OBVIOUS
  <1>5. u \in Seq(S) /\ Len(u) = n - 1 /\ \A i \in 1..(n - 1) : u[i] = s[i + 1]
    BY <1>1, <1>4
  <1>6. t = [i \in 1..(n - 1) |-> t[i]] /\ u = [i \in 1..(n - 1) |-> u[i]] BY <1>3, <1>5
  <1>7. \A i \in 1..(n - 1) : t[i] = u[i] BY <1>3, <1>5
  <1>8. t = u BY <1>6, <1>7, Zenon
  <1> QED BY <1>1, <1>2, <1>4, <1>8

\* One kid less, the first or the last one.
LEMMA TailFits ==
  ASSUME NEW T, NEW lo, NEW hi, NEW lev, NEW ks, NEW cs, NEW a, NEW b, NEW d,
         InnerFits(ks, cs, a, b, d, T, lo, hi, lev), Len(ks) >= 1
  PROVE  /\ InnerFits(Tail(ks), Tail(cs), ks[1], b, d, T, lo, hi, lev)
         /\ Len(Tail(ks)) + 1 = Len(ks) /\ cs[1] \in T /\ lev[cs[1]] + 1 = d
         /\ lo[cs[1]] = a /\ hi[cs[1]] = ks[1] /\ ks[1] \in Nat
PROOF
  <1>1. /\ ks \in Seq(Nat) /\ cs \in Seq(T) /\ Len(cs) = Len(ks) + 1
        /\ \A i \in 1..Len(cs) : lev[cs[i]] + 1 = d
        /\ lo[cs[1]] = a
        /\ \A i \in 1..Len(ks) : hi[cs[i]] = ks[i] /\ lo[cs[i + 1]] = ks[i]
    BY DEF InnerFits
  <1>2. PICK n \in Nat : n = Len(ks) BY <1>1
  <1>3. 1 \in 1..n /\ 1 \in 1..(n + 1) BY <1>2
  <1>4. InnerFits(SubSeq(ks, 1 + 1, Len(ks)), SubSeq(cs, 1 + 1, Len(cs)), ks[1], b, d,
                  T, lo, hi, lev)
    <2>1. 1 \in 1..Len(ks) BY <1>2, <1>3
    <2> QED BY <2>1, SplitFits
  <1>5. 1 + 1 = 2 OBVIOUS
  <1>6. Tail(ks) = SubSeq(ks, 2, Len(ks))
    <2>1. ks \in Seq(Nat) BY <1>1
    <2> QED BY <2>1, TailIs
  <1>7. Tail(cs) = SubSeq(cs, 2, Len(cs))
    <2>1. cs \in Seq(T) BY <1>1
    <2>2. Len(cs) >= 1 BY <1>1, <1>2
    <2> QED BY <2>1, <2>2, TailIs
  <1>8. InnerFits(Tail(ks), Tail(cs), ks[1], b, d, T, lo, hi, lev)
    BY <1>4, <1>5, <1>6, <1>7, Zenon
  <1>9. Len(Tail(ks)) + 1 = Len(ks) BY <1>1, <1>2
  <1>10. cs[1] \in T /\ lev[cs[1]] + 1 = d BY <1>1, <1>2, <1>3
  <1>11. hi[cs[1]] = ks[1] /\ ks[1] \in Nat BY <1>1, <1>2, <1>3
  <1> QED BY <1>1, <1>8, <1>9, <1>10, <1>11

LEMMA FrontFits ==
  ASSUME NEW T, NEW lo, NEW hi, NEW lev, NEW ks, NEW cs, NEW a, NEW b, NEW d,
         InnerFits(ks, cs, a, b, d, T, lo, hi, lev), Len(ks) >= 1
  PROVE  /\ InnerFits(Front(ks), Front(cs), a, Last(ks), d, T, lo, hi, lev)
         /\ Len(Front(ks)) + 1 = Len(ks) /\ Last(cs) \in T /\ lev[Last(cs)] + 1 = d
         /\ hi[Last(cs)] = b /\ lo[Last(cs)] = Last(ks) /\ Last(ks) \in Nat
PROOF
  <1>1. /\ ks \in Seq(Nat) /\ cs \in Seq(T) /\ Len(cs) = Len(ks) + 1
        /\ \A i \in 1..Len(cs) : lev[cs[i]] + 1 = d
        /\ hi[cs[Len(cs)]] = b
        /\ \A i \in 1..Len(ks) : hi[cs[i]] = ks[i] /\ lo[cs[i + 1]] = ks[i]
    BY DEF InnerFits
  <1>2. PICK n \in Nat : n = Len(ks) BY <1>1
  <1>3. n \in 1..n /\ n + 1 \in 1..(n + 1) BY <1>2
  <1>4. InnerFits(SubSeq(ks, 1, n - 1), SubSeq(cs, 1, n), a, ks[n], d, T, lo, hi, lev)
    <2>1. n \in 1..Len(ks) BY <1>2, <1>3
    <2> QED BY <2>1, SplitFits
  <1>5. Front(ks) = SubSeq(ks, 1, n - 1) /\ Last(ks) = ks[n]
    BY <1>2 DEF Front, Last
  <1>6. Front(cs) = SubSeq(cs, 1, n) /\ Last(cs) = cs[n + 1]
    <2>1. Len(cs) = n + 1 /\ Len(cs) - 1 = n BY <1>1, <1>2
    <2> QED BY <2>1 DEF Front, Last
  <1>7. InnerFits(Front(ks), Front(cs), a, Last(ks), d, T, lo, hi, lev)
    BY <1>4, <1>5, <1>6, Zenon
  <1>8. Len(Front(ks)) + 1 = Len(ks)
    <2>1. Front(ks) \in Seq(Nat) /\ Len(SubSeq(ks, 1, n - 1)) = n - 1 BY <1>1, <1>2, <1>7 DEF InnerFits
    <2> QED BY <2>1, <1>2, <1>5
  <1>9. cs[n + 1] \in T /\ lev[cs[n + 1]] + 1 = d /\ hi[cs[n + 1]] = b BY <1>1, <1>2, <1>3
  <1>10. lo[cs[n + 1]] = ks[n] /\ ks[n] \in Nat BY <1>1, <1>2, <1>3
  <1> QED BY <1>5, <1>6, <1>7, <1>8, <1>9, <1>10

-----------------------------------------------------------------------------
(* Leaves in a row, and their keys.                                        *)
Iterates(g, a, F, m) == g[0] = a /\ \A n \in 1..m : g[n] = F[<<n, g[n - 1]>>]

\* A function given by its first value and the next one.
LEMMA Iterated ==
  ASSUME NEW S, NEW a \in S, NEW F \in [Nat \X S -> S], NEW m \in Nat
  PROVE  \E g \in [0..m -> S] : Iterates(g, a, F, m)
PROOF
  <1> DEFINE Goes(k) == \E g \in [0..k -> S] : Iterates(g, a, F, k)
             B == {k \in Nat : ~Goes(k)}
  <1>1. SUFFICES ASSUME B # {} PROVE FALSE BY Zenon
  <1>2. PICK k \in B : \A x \in B : k <= x
    <2>1. B \subseteq Nat OBVIOUS
    <2> QED BY <1>1, <2>1, Least
  <1>3. k \in Nat /\ ~Goes(k) OBVIOUS
  <1>4. \A x \in Nat : ~(k <= x) => Goes(x) BY <1>2
  <1> HIDE DEF B
  <1>5. CASE k = 0
    <2>1. PICK g : g = [n \in 0..0 |-> a] OBVIOUS
    <2>2. g \in [0..0 -> S] /\ g[0] = a BY <2>1
    <2>3. \A n \in 1..0 : FALSE OBVIOUS
    <2>4. Iterates(g, a, F, 0) BY <2>2, <2>3 DEF Iterates
    <2>5. Goes(0) BY <2>2, <2>4
    <2> QED BY <2>5, <1>3, <1>5
  <1>6. CASE k # 0
    <2>1. PICK j \in Nat : k = j + 1 /\ ~(k <= j)
      <3>1. k - 1 \in Nat /\ k = (k - 1) + 1 /\ ~(k <= k - 1) BY <1>3, <1>6
      <3> QED BY <3>1
    <2>2. Goes(j) BY <2>1, <1>4
    <2>3. PICK g \in [0..j -> S] : Iterates(g, a, F, j) BY <2>2
    <2>4. PICK y \in S : y = F[<<k, g[j]>>]
      <3>1. g[j] \in S BY <2>1, <2>3
      <3> QED BY <3>1, <1>3
    <2>5. PICK f : f = [n \in 0..k |-> IF n = k THEN y ELSE g[n]] OBVIOUS
    <2>6. f[k] = y /\ \A n \in 0..j : f[n] = g[n]
      <3>1. k \in 0..k /\ \A n \in 0..j : n \in 0..k /\ n # k BY <2>1
      <3> QED BY <3>1, <2>5
    <2>7. f \in [0..k -> S]
      <3>1. \A n \in 0..k : n # k => n \in 0..j BY <2>1
      <3>2. \A n \in 0..k : f[n] \in S BY <3>1, <2>4, <2>6, <2>3
      <3> QED BY <3>2, <2>5
    <2>8. f[0] = a
      <3>1. 0 \in 0..j OBVIOUS
      <3> QED BY <3>1, <2>3, <2>6 DEF Iterates
    <2>9. ASSUME NEW n \in 1..k PROVE f[n] = F[<<n, f[n - 1]>>]
      <3>1. CASE n = k
        <4>1. n - 1 = j /\ j \in 0..j BY <3>1, <2>1
        <4>2. f[n - 1] = g[j] BY <4>1, <2>6
        <4> QED BY <4>2, <3>1, <2>4, <2>6
      <3>2. CASE n # k
        <4>1. n \in 1..j /\ n \in 0..j /\ n - 1 \in 0..j BY <3>2, <2>1
        <4>2. g[n] = F[<<n, g[n - 1]>>] BY <4>1, <2>3 DEF Iterates
        <4>3. f[n] = g[n] /\ f[n - 1] = g[n - 1] BY <4>1, <2>6
        <4> QED BY <4>2, <4>3
      <3> QED BY <3>1, <3>2
    <2>10. Iterates(f, a, F, k) BY <2>8, <2>9 DEF Iterates
    <2>11. Goes(k) BY <2>7, <2>10
    <2> QED BY <2>11, <1>3
  <1> QED BY <1>5, <1>6

\* Leaves whose ranges follow one another, from 0.
Line(s, T, lo, hi, lev) ==
  InnerFits([i \in 1..(Len(s) - 1) |-> hi[s[i]]], s, 0, hi[s[Len(s)]], 1, T, lo, hi, lev)

\* Leaves whose ranges follow one another, from 0, are a line.
LEMMA LineIs ==
  ASSUME NEW T, NEW lo, NEW hi, NEW lev, NEW s \in Seq(T), NEW n \in Nat, Len(s) = n + 1,
         \A i \in 1..(n + 1) : lev[s[i]] = 0 /\ hi[s[i]] \in Nat, lo[s[1]] = 0,
         \A i \in 1..n : lo[s[i + 1]] = hi[s[i]]
  PROVE  Line(s, T, lo, hi, lev)
PROOF
  <1>1. PICK ks : ks = [i \in 1..n |-> hi[s[i]]] OBVIOUS
  <1>2. ks \in Seq(Nat) /\ Len(ks) = n /\ \A i \in 1..n : ks[i] = hi[s[i]]
    <2>1. \A i \in 1..n : hi[s[i]] \in Nat OBVIOUS
    <2>2. ks \in [1..n -> Nat] BY <2>1, <1>1
    <2> QED BY <2>2, <1>1
  <1>3. Len(s) - 1 = n OBVIOUS
  <1>4. ks = [i \in 1..(Len(s) - 1) |-> hi[s[i]]] BY <1>1, <1>3
  <1>5. \A i \in 1..Len(s) : lev[s[i]] + 1 = 1 OBVIOUS
  <1>6. InnerFits(ks, s, 0, hi[s[Len(s)]], 1, T, lo, hi, lev)
    BY <1>2, <1>5 DEF InnerFits
  <1> QED BY <1>4, <1>6 DEF Line

\* What a line is, in terms of its leaves.
LEMMA LineHas ==
  ASSUME NEW T, NEW lo, NEW hi, NEW lev, NEW s, Line(s, T, lo, hi, lev),
         \A q \in T : lev[q] \in Nat
  PROVE  /\ s \in Seq(T) /\ lo[s[1]] = 0
         /\ \E n \in Nat : /\ Len(s) = n + 1
                           /\ \A i \in 1..(n + 1) : s[i] \in T /\ lev[s[i]] = 0
                           /\ \A i \in 1..n : lo[s[i + 1]] = hi[s[i]]
PROOF
  <1>1. PICK ks : ks = [i \in 1..(Len(s) - 1) |-> hi[s[i]]] OBVIOUS
  <1>2. InnerFits(ks, s, 0, hi[s[Len(s)]], 1, T, lo, hi, lev) BY <1>1 DEF Line
  <1>3. s \in Seq(T) /\ lo[s[1]] = 0 /\ ks \in Seq(Nat) BY <1>2 DEF InnerFits
  <1>8. Len(ks) \in Nat /\ Len(s) = Len(ks) + 1 BY <1>2, <1>3 DEF InnerFits
  <1>4. PICK n \in Nat : n = Len(ks) /\ Len(s) = n + 1 BY <1>8
  <1>5. \A i \in 1..(n + 1) : s[i] \in T /\ lev[s[i]] + 1 = 1
    BY <1>2, <1>3, <1>4 DEF InnerFits
  <1>6. \A i \in 1..(n + 1) : s[i] \in T /\ lev[s[i]] = 0
    <2> TAKE i \in 1..(n + 1)
    <2>1. s[i] \in T /\ lev[s[i]] + 1 = 1 BY <1>5
    <2>2. PICK a \in Nat : a = lev[s[i]] BY <2>1
    <2>3. a = 0 BY <2>1, <2>2
    <2> QED BY <2>1, <2>2, <2>3
  <1>7. \A i \in 1..n : lo[s[i + 1]] = hi[s[i]] BY <1>2, <1>4 DEF InnerFits
  <1> QED BY <1>3, <1>4, <1>6, <1>7

\* Sequences put one behind the other.
Flat(f, ss) == f = [i \in 1..Len(ss) |-> IF i = 1 THEN ss[i] ELSE f[i - 1] \o ss[i]]

\* What FlattenSeq computes, step by step.
LEMMA Flattened ==
  ASSUME NEW n \in Nat, NEW ss \in Seq(Seq(Nat)), Len(ss) = n + 1
  PROVE  \E f : /\ FlattenSeq(ss) = f[n + 1] /\ f[1] = ss[1]
                /\ \A i \in 1..n : f[i + 1] = f[i] \o ss[i + 1]
PROOF
  <1>1. PICK F : F = [x \in Nat \X Seq(Nat) |->
                        IF x[1] \in 1..n THEN x[2] \o ss[x[1] + 1] ELSE x[2]] OBVIOUS
  <1>2. F \in [Nat \X Seq(Nat) -> Seq(Nat)]
    <2>1. ASSUME NEW i \in Nat, NEW q \in Seq(Nat)
          PROVE  (IF i \in 1..n THEN q \o ss[i + 1] ELSE q) \in Seq(Nat)
      <3>1. CASE i \in 1..n
        <4>1. i + 1 \in 1..Len(ss) BY <3>1
        <4>2. PICK z \in Seq(Nat) : z = ss[i + 1] BY <4>1
        <4>3. q \o z \in Seq(Nat) OBVIOUS
        <4> QED BY <3>1, <4>2, <4>3
      <3>2. CASE i \notin 1..n BY <3>2
      <3> QED BY <3>1, <3>2
    <2> QED BY <2>1, <1>1
  <1>3. PICK a \in Seq(Nat) : a = ss[1]
    <2>1. 1 \in 1..Len(ss) OBVIOUS
    <2> QED BY <2>1
  <1>4. PICK g \in [0..n -> Seq(Nat)] : Iterates(g, a, F, n) BY <1>2, <1>3, Iterated
  <1>5. PICK f : f = [i \in 1..Len(ss) |-> g[i - 1]] OBVIOUS
  <1>6. PICK k : k = [i \in 1..Len(ss) |-> IF i = 1 THEN ss[i] ELSE f[i - 1] \o ss[i]] OBVIOUS
  <1>7. ASSUME NEW i \in 1..Len(ss) PROVE f[i] = k[i]
    <2>1. f[i] = g[i - 1] BY <1>5
    <2>2. CASE i = 1
      <3>1. g[0] = a /\ i - 1 = 0 BY <2>2, <1>4 DEF Iterates
      <3> QED BY <3>1, <2>1, <2>2, <1>3, <1>6
    <2>3. CASE i # 1
      <3>1. PICK j \in Nat : j = i - 1 /\ j \in 1..n /\ j + 1 = i BY <2>3
      <3>2. j \in 1..Len(ss) /\ j - 1 \in 0..n BY <3>1
      <3>3. g[j] = F[<<j, g[j - 1]>>] /\ g[j - 1] \in Seq(Nat) BY <3>1, <3>2, <1>4 DEF Iterates
      <3>4. F[<<j, g[j - 1]>>] = g[j - 1] \o ss[j + 1] BY <3>1, <3>3, <1>1
      <3>5. f[j] = g[j - 1] BY <3>2, <1>5
      <3>6. f[i] = f[j] \o ss[i] BY <2>1, <3>1, <3>3, <3>4, <3>5
      <3>7. k[i] = f[i - 1] \o ss[i] BY <2>3, <1>6
      <3> QED BY <3>1, <3>6, <3>7
    <2> QED BY <2>2, <2>3
  <1>8. f = k BY <1>5, <1>6, <1>7, Zenon
  <1>9. Flat(f, ss) BY <1>6, <1>8 DEF Flat
  <1>10. PICK e : e = CHOOSE x : Flat(x, ss) OBVIOUS
  <1>11. Flat(e, ss) BY <1>9, <1>10, Zenon
  <1>12. Len(ss) # 0 OBVIOUS
  <1>13. FlattenSeq(ss) = (CHOOSE x : Flat(x, ss))[Len(ss)] BY <1>12, Zenon DEF FlattenSeq, Flat
  <1>14. FlattenSeq(ss) = e[n + 1] BY <1>10, <1>13
  <1>15. \A i \in 1..Len(ss) : e[i] = IF i = 1 THEN ss[i] ELSE e[i - 1] \o ss[i]
    BY <1>11, Zenon DEF Flat
  <1>16. e[1] = ss[1]
    <2>1. 1 \in 1..Len(ss) OBVIOUS
    <2> QED BY <2>1, <1>15
  <1>17. ASSUME NEW i \in 1..n PROVE e[i + 1] = e[i] \o ss[i + 1]
    <2>1. i + 1 \in 1..Len(ss) /\ i + 1 # 1 /\ (i + 1) - 1 = i OBVIOUS
    <2>2. e[i + 1] = e[(i + 1) - 1] \o ss[i + 1] BY <2>1, <1>15
    <2> QED BY <2>1, <2>2
  <1> QED BY <1>14, <1>16, <1>17

\* What lies in ranges that follow one another ascends as a whole.
LEMMA FlatRange ==
  ASSUME NEW n \in Nat, NEW ss \in Seq(Seq(Nat)), Len(ss) = n + 1, NEW lo, NEW hi,
         \A i \in 1..(n + 1) : /\ lo[i] \in Nat /\ hi[i] \in Nat /\ lo[i] < hi[i]
                               /\ InRange(ss[i], lo[i], hi[i]),
         \A i \in 1..n : lo[i + 1] = hi[i]
  PROVE  InRange(FlattenSeq(ss), lo[1], hi[n + 1])
PROOF
  <1>1. PICK f : /\ FlattenSeq(ss) = f[n + 1] /\ f[1] = ss[1]
                 /\ \A i \in 1..n : f[i + 1] = f[i] \o ss[i + 1]
    BY Flattened
  <1>2. PICK a \in Nat : a = lo[1]
    <2>1. 1 \in 1..(n + 1) OBVIOUS
    <2> QED BY <2>1
  <1> DEFINE Fine(i) == InRange(f[i], a, hi[i]) /\ a <= hi[i]
             B == {i \in 1..(n + 1) : ~Fine(i)}
  <1>3. B = {}
    <2>1. SUFFICES ASSUME B # {} PROVE FALSE BY Zenon
    <2>2. PICK i \in B : \A x \in B : i <= x
      <3>1. B \subseteq Nat OBVIOUS
      <3> QED BY <2>1, <3>1, Least
    <2>3. i \in 1..(n + 1) /\ ~Fine(i) OBVIOUS
    <2>4. \A x \in 1..(n + 1) : ~(i <= x) => Fine(x) BY <2>2
    <2> HIDE DEF B
    <2>5. CASE i = 1
      <3>1. lo[i] \in Nat /\ hi[i] \in Nat /\ lo[i] < hi[i] /\ InRange(ss[i], lo[i], hi[i])
        BY <2>3
      <3>2. f[i] = ss[i] /\ lo[i] = a BY <2>5, <1>1, <1>2
      <3>3. a <= hi[i] BY <3>1, <3>2
      <3> QED BY <3>1, <3>2, <3>3, <2>3
    <2>6. CASE i # 1
      <3>1. PICK j \in 1..n : i = j + 1 /\ ~(i <= j)
        <4>1. i - 1 \in 1..n /\ i = (i - 1) + 1 /\ ~(i <= i - 1) BY <2>3, <2>6
        <4> QED BY <4>1
      <3>2. j \in 1..(n + 1) OBVIOUS
      <3>3. Fine(j) BY <2>4, <3>1, <3>2
      <3>4. PICK b \in Nat : b = hi[j] BY <3>2
      <3>5. PICK d \in Nat : d = hi[i] /\ b < d /\ InRange(ss[i], b, d)
        <4>1. lo[i] = hi[j] BY <3>1
        <4> QED BY <4>1, <3>4, <2>3
      <3>6. f[i] = f[j] \o ss[i] BY <3>1, <1>1
      <3>7. InRange(f[j], a, b) /\ a <= b BY <3>3, <3>4
      <3>8. b <= d /\ a <= d BY <3>5, <3>7
      <3>9. InRange(f[j] \o ss[i], a, d) BY <3>5, <3>7, <3>8, JoinInRange
      <3> QED BY <3>5, <3>6, <3>8, <3>9, <2>3
    <2> QED BY <2>5, <2>6
  <1>4. n + 1 \in 1..(n + 1) OBVIOUS
  <1>5. Fine(n + 1) BY <1>3, <1>4
  <1> QED BY <1>1, <1>2, <1>5
=============================================================================
