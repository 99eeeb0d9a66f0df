------------------------- MODULE FacadeTree_proofs -------------------------
(***************************************************************************)
(* Proofs about FacadeTree, for any names, types, values and positions and *)
(* any depth: the heap stays a tree of cells in which no two siblings      *)
(* share a name, no call makes a handle name another node, and a call that *)
(* is refused has changed nothing a handle can name.                       *)
(***************************************************************************)
EXTENDS FacadeTree, SequenceTheorems, FiniteSetTheorems, WellFoundedInduction, TLAPS

-----------------------------------------------------------------------------
(* A node's row of children: a sequence of positions without repetition.    *)
Row == {q \in Seq(Pos) : \A i, j \in 1..Len(q) : q[i] = q[j] => i = j}

LEMMA RangeFacts ==
    ASSUME NEW q \in Seq(Pos)
    PROVE  /\ Range(q) \subseteq Pos
           /\ \A e : e \in Range(q) <=> \E i \in 1..Len(q) : q[i] = e
  BY LenProperties DEF Range

LEMMA EmptyRowFacts == <<>> \in Row /\ Range(<<>>) = {}
<1>1. PICK q : q = <<>>
  OBVIOUS
<1>2. q \in Seq(Pos) /\ Len(q) = 0
  BY <1>1, EmptySeq
<1>3. q \in Row
  BY <1>2 DEF Row
<1>4. \A e : e \notin Range(q)
  <2>1. \A e : e \in Range(q) <=> \E i \in 1..Len(q) : q[i] = e
    BY <1>2, RangeFacts
  <2> QED
    BY <1>2, <2>1
<1> QED
  BY <1>1, <1>3, <1>4

LEMMA AppendFacts ==
    ASSUME NEW q \in Row, NEW e \in Pos \ Range(q)
    PROVE  Append(q, e) \in Row /\ Range(Append(q, e)) = Range(q) \cup {e}
<1>1. PICK n \in Nat : n = Len(q)
  BY LenProperties DEF Row
<1>2. /\ q \in Seq(Pos) /\ \A i, j \in 1..n : q[i] = q[j] => i = j
      /\ \A i \in 1..n : q[i] # e
  BY <1>1, RangeFacts DEF Row
<1>3. PICK a : a = Append(q, e)
  OBVIOUS
<1>4. /\ a \in Seq(Pos) /\ Len(a) = n + 1
      /\ \A i \in 1..n : a[i] = q[i]
      /\ a[n + 1] = e
  BY <1>1, <1>2, <1>3, AppendProperties
<1>5. \A i, j \in 1 .. n + 1 : a[i] = a[j] => i = j
  <2> SUFFICES ASSUME NEW i \in 1 .. n + 1, NEW j \in 1 .. n + 1, a[i] = a[j]
               PROVE  i = j
    OBVIOUS
  <2>1. (i \in 1..n \/ i = n + 1) /\ (j \in 1..n \/ j = n + 1)
    OBVIOUS
  <2> QED
    BY <2>1, <1>2, <1>4
<1>6. \A x : x \in Range(a) <=> x \in Range(q) \/ x = e
  <2> SUFFICES ASSUME NEW x PROVE x \in Range(a) <=> x \in Range(q) \/ x = e
    OBVIOUS
  <2>1. \A i : i \in 1 .. n + 1 <=> i \in 1..n \/ i = n + 1
    OBVIOUS
  <2>2. x \in Range(a) <=> \E i \in 1 .. n + 1 : a[i] = x
    BY <1>4, RangeFacts
  <2>3. x \in Range(q) <=> \E i \in 1..n : q[i] = x
    BY <1>1, <1>2, RangeFacts
  <2> QED
    BY <2>1, <2>2, <2>3, <1>4
<1>7. a \in Row /\ Range(a) = Range(q) \cup {e}
  BY <1>4, <1>5, <1>6 DEF Row
<1> QED
  BY <1>3, <1>7

(* Taking a sequence apart and joining two, at the indices.                 *)
Piece(s, i, n) == SubSeq(s, i, n)
Join(a, b)     == a \o b

LEMMA PieceFacts ==
    ASSUME NEW s \in Seq(Pos), NEW i \in Nat, i > 0, NEW n \in Nat,
           n <= Len(s), i <= n + 1
    PROVE  /\ Piece(s, i, n) \in Seq(Pos)
           /\ Len(Piece(s, i, n)) = n - i + 1
           /\ \A j \in 1 .. n - i + 1 : Piece(s, i, n)[j] = s[i + j - 1]
<1>1. PICK l \in Nat : l = Len(s) /\ \A j \in 1..l : s[j] \in Pos
  BY LenProperties, ElementOfSeq
<1>2. \A j \in i..n : s[j] \in Pos
  BY <1>1
<1>3. PICK q : q = SubSeq(s, i, n)
  OBVIOUS
<1>4. /\ q \in Seq(Pos)
      /\ Len(q) = IF i <= n THEN n - i + 1 ELSE 0
      /\ \A j \in 1 .. n - i + 1 : q[j] = s[i + j - 1]
  BY <1>2, <1>3, SubSeqProperties
<1>5. Len(q) = n - i + 1
  BY <1>4
<1> QED
  BY <1>3, <1>4, <1>5 DEF Piece

LEMMA FrontFacts ==
    ASSUME NEW s \in Seq(Pos), NEW m \in Nat, m <= Len(s)
    PROVE  /\ Piece(s, 1, m) \in Seq(Pos)
           /\ Len(Piece(s, 1, m)) = m
           /\ \A j \in 1..m : Piece(s, 1, m)[j] = s[j]
<1>1. /\ Piece(s, 1, m) \in Seq(Pos)
      /\ Len(Piece(s, 1, m)) = m - 1 + 1
      /\ \A j \in 1 .. m - 1 + 1 : Piece(s, 1, m)[j] = s[1 + j - 1]
  BY PieceFacts
<1> QED
  BY <1>1

LEMMA RestFacts ==
    ASSUME NEW s \in Seq(Pos), NEW i \in Nat, i <= Len(s)
    PROVE  /\ Piece(s, i + 1, Len(s)) \in Seq(Pos)
           /\ Len(Piece(s, i + 1, Len(s))) = Len(s) - i
           /\ \A j \in 1 .. Len(s) - i : Piece(s, i + 1, Len(s))[j] = s[i + j]
<1>1. PICK n \in Nat : n = Len(s) /\ \A j \in 1..n : s[j] \in Pos
  BY LenProperties, ElementOfSeq
<1>2. \A j \in i + 1 .. n : s[j] \in Pos
  BY <1>1
<1>3. PICK q : q = SubSeq(s, i + 1, n)
  OBVIOUS
<1>4. /\ q \in Seq(Pos)
      /\ Len(q) = IF i + 1 <= n THEN n - (i + 1) + 1 ELSE 0
      /\ \A j \in 1 .. n - (i + 1) + 1 : q[j] = s[i + 1 + j - 1]
  BY <1>2, <1>3, SubSeqProperties
<1>5. Len(q) = n - i
  BY <1>1, <1>4
<1>6. ASSUME NEW j \in 1 .. n - i PROVE q[j] = s[i + j]
  <2>1. j \in 1 .. n - (i + 1) + 1 /\ i + 1 + j - 1 = i + j
    BY <1>1
  <2> QED
    BY <2>1, <1>4
<1> QED
  BY <1>1, <1>3, <1>4, <1>5, <1>6 DEF Piece

LEMMA JoinFacts ==
    ASSUME NEW a \in Seq(Pos), NEW b \in Seq(Pos)
    PROVE  /\ Join(a, b) \in Seq(Pos)
           /\ Len(Join(a, b)) = Len(a) + Len(b)
           /\ \A j \in 1..Len(a) : Join(a, b)[j] = a[j]
           /\ \A j \in 1..Len(b) : Join(a, b)[Len(a) + j] = b[j]
<1>1. PICK r : r = a \o b
  OBVIOUS
<1>2. PICK l \in Nat, m \in Nat : l = Len(a) /\ m = Len(b)
  BY LenProperties
<1>3. /\ r \in Seq(Pos) /\ Len(r) = l + m
      /\ \A j \in 1 .. l + m : r[j] = IF j <= l THEN a[j] ELSE b[j - l]
  BY <1>1, <1>2, ConcatProperties
<1>4. \A j \in 1..l : r[j] = a[j]
  BY <1>3
<1>5. ASSUME NEW j \in 1..m PROVE r[l + j] = b[j]
  <2>1. l + j \in 1 .. l + m /\ ~(l + j <= l) /\ (l + j) - l = j
    OBVIOUS
  <2> QED
    BY <2>1, <1>3
<1> QED
  BY <1>1, <1>2, <1>3, <1>4, <1>5 DEF Join

LEMMA RemoveAtFacts ==
    ASSUME NEW s \in Row, NEW i \in 1..Len(s)
    PROVE  RemoveAt(s, i) \in Row /\ Range(RemoveAt(s, i)) = Range(s) \ {s[i]}
<1> DEFINE n == Len(s)
           a == Piece(s, 1, i - 1)
           b == Piece(s, i + 1, n)
           r == Join(a, b)
<1>1. /\ s \in Seq(Pos) /\ n \in Nat /\ i \in 1..n /\ i \in Nat
      /\ \A j, k \in 1..n : s[j] = s[k] => j = k
  BY LenProperties DEF Row
<1>2. /\ a \in Seq(Pos) /\ Len(a) = i - 1
      /\ \A j \in 1 .. i - 1 : a[j] = s[j]
  <2>1. i - 1 \in Nat /\ i - 1 <= Len(s)
    BY <1>1
  <2> QED
    BY <2>1, <1>1, FrontFacts
<1>3. /\ b \in Seq(Pos) /\ Len(b) = n - i
      /\ \A j \in 1 .. n - i : b[j] = s[i + j]
  <2>1. i \in Nat /\ i <= Len(s)
    BY <1>1
  <2> QED
    BY <2>1, <1>1, RestFacts
<1>4. r = RemoveAt(s, i)
  BY DEF RemoveAt, Join, Piece
<1> HIDE DEF a, b
<1>5. /\ r \in Seq(Pos) /\ Len(r) = Len(a) + Len(b)
      /\ \A j \in 1..Len(a) : r[j] = a[j]
      /\ \A j \in 1..Len(b) : r[Len(a) + j] = b[j]
  BY <1>2, <1>3, JoinFacts
<1> HIDE DEF r, n
<1>n. n \in Nat /\ i \in 1..n /\ i \in Nat
  BY <1>1
<1>6. /\ Len(r) = n - 1
      /\ \A j \in 1 .. i - 1 : r[j] = s[j]
      /\ \A j \in 1 .. n - i : r[(i - 1) + j] = s[i + j]
  <2>1. Len(r) = n - 1
    BY <1>n, <1>2, <1>3, <1>5
  <2>2. \A j \in 1 .. i - 1 : r[j] = s[j]
    BY <1>2, <1>5
  <2>3. \A j \in 1 .. n - i : r[(i - 1) + j] = s[i + j]
    BY <1>2, <1>3, <1>5
  <2> QED
    BY <2>1, <2>2, <2>3
<1>7. /\ \A j \in 1 .. n - 1 : \/ j < i /\ j \in 1..n /\ r[j] = s[j]
                               \/ j >= i /\ j + 1 \in 1..n /\ r[j] = s[j + 1]
      /\ \A j \in 1..n : j # i => \E k \in 1 .. n - 1 : r[k] = s[j]
  <2>1. ASSUME NEW j \in i .. n - 1 PROVE r[j] = s[j + 1]
    <3>1. j - i + 1 \in 1 .. n - i /\ j = (i - 1) + (j - i + 1) /\ i + (j - i + 1) = j + 1
      BY <1>n
    <3>2. r[(i - 1) + (j - i + 1)] = s[i + (j - i + 1)]
      BY <3>1, <1>6
    <3> QED
      BY <3>1, <3>2
  <2>2. ASSUME NEW j \in 1 .. n - 1
        PROVE  \/ j < i /\ j \in 1..n /\ r[j] = s[j]
               \/ j >= i /\ j + 1 \in 1..n /\ r[j] = s[j + 1]
    <3>1. CASE j < i
      <4>1. j \in 1 .. i - 1 /\ j \in 1..n
        BY <3>1, <1>n
      <4> QED
        BY <3>1, <4>1, <1>6
    <3>2. CASE j >= i
      <4>1. j \in i .. n - 1 /\ j + 1 \in 1..n
        BY <3>2, <1>n
      <4> QED
        BY <3>2, <4>1, <2>1
    <3> QED
      BY <3>1, <3>2, <1>n
  <2>3. ASSUME NEW j \in 1..n, j # i PROVE \E k \in 1 .. n - 1 : r[k] = s[j]
    <3>1. CASE j < i
      <4>1. j \in 1 .. i - 1 /\ j \in 1 .. n - 1
        BY <3>1, <1>n
      <4> QED
        BY <4>1, <1>6
    <3>2. CASE j > i
      <4>1. PICK k \in i .. n - 1 : k \in 1 .. n - 1 /\ k + 1 = j
        <5>1. j - 1 \in i .. n - 1 /\ j - 1 \in 1 .. n - 1 /\ (j - 1) + 1 = j
          BY <3>2, <1>n
        <5> QED
          BY <5>1
      <4>2. r[k] = s[k + 1]
        BY <2>1
      <4> QED
        BY <4>1, <4>2
    <3> QED
      BY <2>3, <3>1, <3>2, <1>n
  <2> QED
    BY <2>2, <2>3
<1>8. ASSUME NEW j \in 1 .. n - 1, NEW k \in 1 .. n - 1, r[j] = r[k]
      PROVE  j = k
  <2>1. j \in Nat /\ k \in Nat
    BY <1>1
  <2>2. CASE j < i /\ k < i
    <3>1. j \in 1..n /\ k \in 1..n /\ s[j] = s[k]
      BY <2>1, <2>2, <1>n, <1>7, <1>8
    <3> QED
      BY <3>1, <1>1
  <2>3. CASE j >= i /\ k >= i
    <3>1. j + 1 = k + 1
      <4>1. j + 1 \in 1..n /\ k + 1 \in 1..n /\ s[j + 1] = s[k + 1]
        BY <2>1, <2>3, <1>n, <1>7, <1>8
      <4> QED
        BY <4>1, <1>1
    <3> QED
      BY <2>1, <3>1
  <2>4. CASE j < i /\ k >= i
    <3>1. j = k + 1
      BY <2>1, <2>4, <1>1, <1>7, <1>8
    <3> QED
      BY <2>1, <2>4, <3>1, <1>1
  <2>5. CASE j >= i /\ k < i
    <3>1. j + 1 = k
      BY <2>1, <2>5, <1>1, <1>7, <1>8
    <3> QED
      BY <2>1, <2>5, <3>1, <1>1
  <2> QED
    BY <2>1, <2>2, <2>3, <2>4, <2>5, <1>1
<1>9. ASSUME NEW x PROVE x \in Range(r) <=> x \in Range(s) \ {s[i]}
  <2>1. x \in Range(r) <=> \E j \in 1 .. n - 1 : r[j] = x
    BY <1>5, <1>6, RangeFacts
  <2>2. x \in Range(s) <=> \E j \in 1..n : s[j] = x
    BY <1>1, RangeFacts DEF n
  <2>3. ASSUME NEW j \in 1 .. n - 1 PROVE \E k \in 1..n : s[k] = r[j] /\ s[k] # s[i]
    <3>1. CASE j < i /\ j \in 1..n /\ r[j] = s[j]
      BY <3>1, <1>1
    <3>2. CASE j >= i /\ j + 1 \in 1..n /\ r[j] = s[j + 1]
      <4>1. j + 1 # i
        BY <3>2, <1>1
      <4> QED
        BY <4>1, <3>2, <1>1
    <3> QED
      BY <3>1, <3>2, <1>7
  <2> QED
    BY <2>1, <2>2, <2>3, <1>1, <1>7
<1>10. r \in Row
  BY <1>5, <1>6, <1>8 DEF Row
<1>11. Range(r) = Range(s) \ {s[i]}
  BY <1>9
<1> QED
  BY <1>4, <1>10, <1>11

LEMMA RemoveFirstFacts ==
    ASSUME NEW s \in Row, NEW e \in Range(s)
    PROVE  RemoveFirst(s, e) \in Row /\ Range(RemoveFirst(s, e)) = Range(s) \ {e}
<1>1. PICK i \in 1..Len(s) : s[i] = e
  BY RangeFacts DEF Row
<1>2. {j \in 1..Len(s) : s[j] = e} = {i}
  BY <1>1 DEF Row
<1>3. Min({i}) = i
  <2>1. i \in Nat
    OBVIOUS
  <2> QED
    BY <2>1 DEF Min
<1>4. SelectInSeq(s, LAMBDA v : v = e) = i
  BY <1>2, <1>3 DEF SelectInSeq
<1>5. RemoveFirst(s, e) = RemoveAt(s, i)
  BY <1>1, <1>4 DEF RemoveFirst
<1> QED
  BY <1>1, <1>5, RemoveAtFacts

-----------------------------------------------------------------------------
(* The tree that a heap holds.                                              *)
Kids(h, p, s) == Range(h[p].kids[s])

Typed(h) ==
    /\ Root \in DOMAIN h
    /\ DOMAIN h \subseteq Pos
    /\ h \in [DOMAIN h -> CellType]

\* A row names allocated cells, each once, and never the root.
RowsOK(h) == \A p \in DOMAIN h, s \in Scope :
    /\ h[p].kids[s] \in Row
    /\ Kids(h, p, s) \subseteq DOMAIN h \ {Root}
    /\ h[p].kind # "item" => h[p].kids[s] = <<>>

\* A cell is in at most one row.
OneParent(h) == \A p, q \in DOMAIN h, s, t \in Scope : \A c \in Kids(h, p, s) :
    c \in Kids(h, q, t) => p = q /\ s = t

UniqueIn(h) == \A p \in DOMAIN h, s \in Scope : \A q, c \in Kids(h, p, s) :
    h[q].name.key = h[c].name.key => q = c

\* What TypeOK and NamesUnique say of the heap, and that it is one tree.
GoodHeap(h) == Typed(h) /\ RowsOK(h) /\ OneParent(h) /\ UniqueIn(h)

LEMMA LeastExists ==
    ASSUME NEW S, S \subseteq Nat, S # {}
    PROVE  \E x \in S : \A y \in S : x <= y
<1> DEFINE R == OpToRel(<, Nat)
<1>1. IsWellFoundedOn(R, Nat)
  BY NatLessThanWellFounded
<1>2. PICK x \in S : \A y \in S : ~(<<y, x>> \in R)
  BY <1>1, WFMin
<1>3. ASSUME NEW y \in S PROVE x <= y
  <2>1. x \in Nat /\ y \in Nat
    OBVIOUS
  <2>2. <<y, x>> \in R <=> y < x
    BY <2>1 DEF OpToRel
  <2>3. ~(<<y, x>> \in R)
    BY <1>2
  <2> HIDE DEF R
  <2> QED
    BY <2>1, <2>2, <2>3
<1> QED
  BY <1>3

-----------------------------------------------------------------------------
(* Looking a name up, and walking a route.                                  *)
LEMMA ChildFacts ==
    ASSUME GoodHeap(heap), NEW p \in DOMAIN heap, NEW s \in Scope, NEW n
    PROVE  \/ /\ Child(p, s, n) \in Kids(heap, p, s)
              /\ heap[Child(p, s, n)].name.key = n.key
           \/ /\ Child(p, s, n) = "E_NO_ITEM"
              /\ \A q \in Kids(heap, p, s) : heap[q].name.key # n.key
<1> DEFINE kids == heap[p].kids[s]
           I    == {j \in 1..Len(kids) : heap[kids[j]].name.key = n.key}
           i    == IF I # {} THEN Min(I) ELSE 0
<1>1. kids \in Seq(Pos) /\ kids \in Row
  BY DEF GoodHeap, RowsOK, Row
<1>2. \A q : q \in Kids(heap, p, s) <=> \E j \in 1..Len(kids) : kids[j] = q
  <2>1. \A q : q \in Range(kids) <=> \E j \in 1..Len(kids) : kids[j] = q
    BY <1>1, RangeFacts
  <2> QED
    BY <2>1 DEF Kids
<1>3. Child(p, s, n) = IF i = 0 THEN "E_NO_ITEM" ELSE kids[i]
  BY DEF Child, SelectInSeq, Same
<1>4. CASE I # {}
  <2>1. I \subseteq Nat
    OBVIOUS
  <2>2. PICK x \in I : \A y \in I : x <= y
    BY <1>4, <2>1, LeastExists
  <2>3. Min(I) \in I
    BY <2>2 DEF Min
  <2>4. i \in 1..Len(kids) /\ heap[kids[i]].name.key = n.key
    BY <1>4, <2>3
  <2> HIDE DEF I, i, kids
  <2>5. i # 0
    BY <1>1, <2>4, LenProperties
  <2> QED
    BY <1>2, <1>3, <2>4, <2>5
<1>5. CASE I = {}
  <2>1. i = 0
    BY <1>5
  <2>2. \A j \in 1..Len(kids) : heap[kids[j]].name.key # n.key
    BY <1>5
  <2> HIDE DEF I, i, kids
  <2>3. \A q \in Kids(heap, p, s) : heap[q].name.key # n.key
    BY <1>2, <2>2
  <2> QED
    BY <1>3, <2>1, <2>3
<1> QED
  BY <1>4, <1>5

(* w is where a walk along r in h gets to.                                  *)
Track(h, r, w) ==
    /\ w[0] = Root
    /\ \A i \in 0..Len(r) : w[i] \in DOMAIN h \cup Failure
    /\ \A i \in 1..Len(r) :
         \/ w[i - 1] \in Failure /\ w[i] = w[i - 1]
         \/ w[i - 1] \in DOMAIN h /\ w[i] \in Failure
         \/ /\ w[i - 1] \in DOMAIN h
            /\ w[i] \in Kids(h, w[i - 1], r[i].scope)
            /\ h[w[i]].name.key = r[i].name.key

LEMMA RouteFacts ==
    ASSUME NEW r \in Route
    PROVE  /\ Len(r) \in Nat /\ Len(r) <= MaxDepth
           /\ \A i \in 1..Len(r) : r[i].scope \in Scope /\ r[i].name \in Name
<1>1. PICK k \in 0..MaxDepth : r \in [1..k -> Step]
  BY DEF Route
<1>2. Len(r) = k
  BY <1>1, TreeAssumption
<1>3. k \in Nat /\ k <= MaxDepth
  BY TreeAssumption
<1> QED
  BY <1>1, <1>2, <1>3 DEF Step

LEMMA SteppedFacts ==
    ASSUME GoodHeap(heap), NEW p \in DOMAIN heap \cup Failure, NEW st \in Step
    PROVE  \/ p \in Failure /\ Stepped(p, st) = p
           \/ p \in DOMAIN heap /\ Stepped(p, st) \in Failure
           \/ /\ p \in DOMAIN heap
              /\ Stepped(p, st) \in Kids(heap, p, st.scope)
              /\ heap[Stepped(p, st)].name.key = st.name.key
<1>1. st.scope \in Scope
  BY DEF Step
<1>2. CASE p \in Failure
  BY <1>2, TreeAssumption DEF Stepped
<1>3. CASE p \in DOMAIN heap
  <2>1. p \in Pos
    BY <1>3 DEF GoodHeap, Typed
  <2>2. CASE heap[p].kind # "item"
    BY <1>3, <2>1, <2>2 DEF Stepped, Failure
  <2>3. CASE heap[p].kind = "item"
    <3>1. Stepped(p, st) = Child(p, st.scope, st.name)
      BY <2>1, <2>3 DEF Stepped
    <3>2. PICK c : c = Child(p, st.scope, st.name)
      OBVIOUS
    <3>3. \/ c \in Kids(heap, p, st.scope) /\ heap[c].name.key = st.name.key
          \/ c = "E_NO_ITEM"
      BY <1>1, <1>3, <3>2, ChildFacts
    <3> QED
      BY <1>3, <3>1, <3>2, <3>3 DEF Failure
  <2> QED
    BY <2>2, <2>3
<1> QED
  BY <1>2, <1>3

(* Walk is the function its recursive equation describes.                   *)
IsWalk(r, n, w) ==
    w = [i \in 0..n |-> IF i = 0 THEN Root ELSE Stepped(w[i - 1], r[i])]

LEMMA WalkExists ==
    ASSUME NEW r, NEW n \in Nat
    PROVE  \E w : IsWalk(r, n, w)
<1> DEFINE Bad == {m \in Nat : ~ \E w : IsWalk(r, m, w)}
<1> SUFFICES ASSUME Bad # {} PROVE FALSE
  OBVIOUS
<1>1. PICK m \in Bad : \A k \in Bad : m <= k
  <2>1. Bad \subseteq Nat
    OBVIOUS
  <2> QED
    BY <2>1, LeastExists
<1>2. m \in Nat /\ ~ \E w : IsWalk(r, m, w)
  OBVIOUS
<1>3. CASE m = 0
  <2> DEFINE w == [i \in 0..0 |-> Root]
  <2>1. \A i \in 0..0 : i = 0
    OBVIOUS
  <2>2. w = [i \in 0..0 |-> IF i = 0 THEN Root ELSE Stepped(w[i - 1], r[i])]
    BY <2>1
  <2>3. IsWalk(r, m, w)
    BY <1>3, <2>2 DEF IsWalk
  <2> QED
    BY <1>2, <2>3
<1>4. CASE m # 0
  <2>1. m - 1 \in Nat /\ ~(m <= m - 1)
    BY <1>2, <1>4
  <2>2. PICK w : IsWalk(r, m - 1, w)
    BY <1>1, <2>1
  <2> DEFINE v == [i \in 0..m |-> IF i = m THEN Stepped(w[m - 1], r[m]) ELSE w[i]]
  <2>3. \A i \in 0 .. m - 1 : w[i] = IF i = 0 THEN Root ELSE Stepped(w[i - 1], r[i])
    BY <2>1, <2>2 DEF IsWalk
  <2>4. ASSUME NEW i \in 0..m
        PROVE  v[i] = IF i = 0 THEN Root ELSE Stepped(v[i - 1], r[i])
    <3>1. CASE i = m
      <4>1. m - 1 \in 0..m /\ m - 1 # m /\ i # 0
        BY <3>1, <1>2, <1>4
      <4> QED
        BY <4>1, <3>1
    <3>2. CASE i # m /\ i # 0
      <4>1. i - 1 \in 0..m /\ i - 1 # m /\ i \in 0 .. m - 1
        BY <3>2, <1>2
      <4>2. v[i] = w[i] /\ v[i - 1] = w[i - 1]
        BY <4>1, <3>2
      <4>3. w[i] = Stepped(w[i - 1], r[i])
        BY <4>1, <3>2, <2>3
      <4> HIDE DEF v
      <4> QED
        BY <4>2, <4>3, <3>2
    <3>3. CASE i # m /\ i = 0
      <4>1. 0 \in 0 .. m - 1
        BY <1>2, <1>4
      <4>2. w[0] = Root
        BY <4>1, <2>3
      <4> QED
        BY <4>2, <3>3
    <3> QED
      BY <3>1, <3>2, <3>3
  <2>5. v = [i \in 0..m |-> v[i]]
    OBVIOUS
  <2> HIDE DEF v
  <2>6. IsWalk(r, m, v)
    BY <2>4, <2>5 DEF IsWalk
  <2> QED
    BY <1>2, <2>6
<1> QED
  BY <1>3, <1>4

LEMMA WalkEquation ==
    ASSUME NEW r, Len(r) \in Nat
    PROVE  /\ Walk(r)[0] = Root
           /\ \A i \in 1..Len(r) : Walk(r)[i] = Stepped(Walk(r)[i - 1], r[i])
<1>1. PICK w : w = [i \in 0..Len(r) |-> IF i = 0 THEN Root ELSE Stepped(w[i - 1], r[i])]
  BY WalkExists DEF IsWalk
<1>2. Walk(r) = [i \in 0..Len(r) |-> IF i = 0 THEN Root ELSE Stepped(Walk(r)[i - 1], r[i])]
  BY <1>1, Zenon DEF Walk
<1>3. 0 \in 0..Len(r) /\ \A i \in 1..Len(r) : i \in 0..Len(r) /\ i # 0
  OBVIOUS
<1> QED
  BY <1>2, <1>3, Zenon

LEMMA WalkIsATrack ==
    GoodHeap(heap) => \A r \in Route : Track(heap, r, Walk(r))
<1> SUFFICES ASSUME GoodHeap(heap), NEW r \in Route PROVE Track(heap, r, Walk(r))
  OBVIOUS
<1>1. PICK w : w = Walk(r)
  OBVIOUS
<1>2. Len(r) \in Nat /\ \A i \in 1..Len(r) : r[i] \in Step
  <2>1. PICK k \in 0..MaxDepth : r \in [1..k -> Step]
    BY DEF Route
  <2>2. Len(r) = k
    BY <2>1, TreeAssumption
  <2> QED
    BY <2>1, <2>2, TreeAssumption
<1>3. w[0] = Root /\ \A i \in 1..Len(r) : w[i] = Stepped(w[i - 1], r[i])
  BY <1>1, <1>2, WalkEquation
<1>4. ASSUME NEW i \in 1..Len(r), w[i - 1] \in DOMAIN heap \cup Failure
      PROVE  /\ w[i] \in DOMAIN heap \cup Failure
             /\ \/ w[i - 1] \in Failure /\ w[i] = w[i - 1]
                \/ w[i - 1] \in DOMAIN heap /\ w[i] \in Failure
                \/ /\ w[i - 1] \in DOMAIN heap
                   /\ w[i] \in Kids(heap, w[i - 1], r[i].scope)
                   /\ heap[w[i]].name.key = r[i].name.key
  <2>1. r[i] \in Step /\ r[i].scope \in Scope
    BY <1>2 DEF Step
  <2>2. \/ w[i - 1] \in Failure /\ w[i] = w[i - 1]
        \/ w[i - 1] \in DOMAIN heap /\ w[i] \in Failure
        \/ /\ w[i - 1] \in DOMAIN heap
           /\ w[i] \in Kids(heap, w[i - 1], r[i].scope)
           /\ heap[w[i]].name.key = r[i].name.key
    BY <1>3, <1>4, <2>1, SteppedFacts
  <2>3. \A p \in DOMAIN heap : Kids(heap, p, r[i].scope) \subseteq DOMAIN heap
    BY <2>1 DEF GoodHeap, RowsOK
  <2> QED
    BY <2>2, <2>3
<1>5. \A i \in 0..Len(r) : w[i] \in DOMAIN heap \cup Failure
  <2> DEFINE Bad == {i \in 0..Len(r) : w[i] \notin DOMAIN heap \cup Failure}
  <2> SUFFICES ASSUME Bad # {} PROVE FALSE
    OBVIOUS
  <2>1. Bad \subseteq Nat
    BY <1>2
  <2>2. PICK i \in Bad : \A j \in Bad : i <= j
    BY <2>1, LeastExists
  <2>3. i \in 0..Len(r) /\ w[i] \notin DOMAIN heap \cup Failure
    OBVIOUS
  <2>4. w[0] \in DOMAIN heap
    BY <1>3 DEF GoodHeap, Typed
  <2>5. i \in 1..Len(r) /\ i - 1 \in 0..Len(r) /\ ~(i <= i - 1)
    BY <1>2, <2>3, <2>4
  <2>6. w[i - 1] \in DOMAIN heap \cup Failure
    BY <2>2, <2>5
  <2> QED
    BY <1>4, <2>3, <2>5, <2>6
<1>6. \A i \in 1..Len(r) : i - 1 \in 0..Len(r)
  BY <1>2
<1> QED
  BY <1>1, <1>3, <1>4, <1>5, <1>6 DEF Track

LEMMA ResolveFacts ==
    GoodHeap(heap) => \A r \in Route :
        /\ Resolve(r) = Walk(r)[Len(r)]
        /\ Resolve(r) \in DOMAIN heap \cup Failure
<1> SUFFICES ASSUME GoodHeap(heap), NEW r \in Route
             PROVE  Resolve(r) = Walk(r)[Len(r)] /\ Resolve(r) \in DOMAIN heap \cup Failure
  OBVIOUS
<1>1. Len(r) \in Nat /\ Len(r) <= MaxDepth
  BY RouteFacts
<1>2. Resolve(r) = Walk(r)[Len(r)]
  BY <1>1, TreeAssumption DEF Resolve
<1>3. Track(heap, r, Walk(r)) /\ Len(r) \in 0..Len(r)
  BY <1>1, WalkIsATrack
<1> QED
  BY <1>2, <1>3 DEF Track

LEMMA ResolveFieldFacts ==
    ASSUME GoodHeap(heap), NEW r \in Route
    PROVE  /\ ResolveField(r) \in DOMAIN heap \cup Failure
           /\ ResolveField(r) \in Pos =>
                /\ ResolveField(r) \in DOMAIN heap
                /\ heap[ResolveField(r)].kind = "item"
                /\ ResolveField(r) = Resolve(r)
<1>1. Resolve(r) \in DOMAIN heap \cup Failure
  BY ResolveFacts
<1>2. DOMAIN heap \subseteq Pos
  BY DEF GoodHeap, Typed
<1>3. "E_TYPE" \in Failure /\ Failure \cap Pos = {}
  BY TreeAssumption DEF Failure
<1> QED
  BY <1>1, <1>2, <1>3 DEF ResolveField

LEMMA TargetFacts ==
    ASSUME GoodHeap(heap), NEW r \in Route, NEW s \in Scope, NEW n
    PROVE  /\ Target(r, s, n) \in DOMAIN heap \cup Failure
           /\ Target(r, s, n) \in Pos =>
                /\ ResolveField(r) \in DOMAIN heap
                /\ heap[ResolveField(r)].kind = "item"
                /\ ResolveField(r) = Resolve(r)
                /\ Target(r, s, n) \in Kids(heap, ResolveField(r), s)
                /\ Target(r, s, n) \in DOMAIN heap \ {Root}
                /\ heap[Target(r, s, n)].name.key = n.key
<1>1. PICK p : p = ResolveField(r)
  OBVIOUS
<1>2. /\ p \in DOMAIN heap \cup Failure
      /\ p \in Pos => p \in DOMAIN heap /\ heap[p].kind = "item" /\ p = Resolve(r)
  BY <1>1, ResolveFieldFacts
<1>3. Target(r, s, n) = IF p \notin Pos THEN p ELSE Child(p, s, n)
  BY <1>1 DEF Target
<1>4. "E_NO_ITEM" \in Failure /\ Failure \cap Pos = {}
  BY TreeAssumption DEF Failure
<1>5. CASE p \notin Pos
  BY <1>2, <1>3, <1>4, <1>5 DEF GoodHeap, Typed
<1>6. CASE p \in Pos
  <2>1. PICK c : c = Child(p, s, n)
    OBVIOUS
  <2>2. \/ c \in Kids(heap, p, s) /\ heap[c].name.key = n.key
        \/ c = "E_NO_ITEM"
    BY <2>1, <1>2, <1>6, ChildFacts
  <2>3. Kids(heap, p, s) \subseteq DOMAIN heap \ {Root}
    BY <1>2, <1>6 DEF GoodHeap, RowsOK
  <2>4. Target(r, s, n) = c
    BY <2>1, <1>3, <1>6
  <2> QED
    BY <1>1, <1>2, <1>4, <1>6, <2>2, <2>3, <2>4
<1> QED
  BY <1>5, <1>6

-----------------------------------------------------------------------------
(* The kernel's heap.                                                       *)

\* h has no node under a name that another node had in the same row before.
KeysStay(g, h) == \A p \in DOMAIN g \cap DOMAIN h, s \in Scope :
    \A q \in Kids(g, p, s), c \in Kids(h, p, s) : g[q].name.key = h[c].name.key => q = c

\* What every call makes of the heap.
GoodNext(h) == GoodHeap(h) /\ KeysStay(heap, h)

(* A subtree is closed, does not reach the root, and hangs on its top only.  *)
LEMMA SubtreeFacts ==
    ASSUME GoodHeap(heap), NEW S, S \subseteq DOMAIN heap \ {Root}
    PROVE  /\ S \subseteq Subtree(S)
           /\ Subtree(S) \subseteq DOMAIN heap \ {Root}
           /\ \A p \in DOMAIN heap \ Subtree(S), s \in Scope :
                \A c \in Kids(heap, p, s) : c \in Subtree(S) => c \in S
<1> DEFINE Around(T) == T \in SUBSET DOMAIN heap /\ S \subseteq T /\ Closed(T)
           B == Subtree(S)
<1>1. \A p : p \in B <=> p \in DOMAIN heap /\ \A T : Around(T) => p \in T
  BY DEF Subtree
<1>2. \A T : Closed(T) <=> \A p \in T, s \in Scope : Kids(heap, p, s) \subseteq T
  BY DEF Closed, Kids
<1>3. \A p \in DOMAIN heap, s \in Scope : Kids(heap, p, s) \subseteq DOMAIN heap \ {Root}
  BY DEF GoodHeap, RowsOK
<1> HIDE DEF B
<1>4. S \subseteq B
  BY <1>1
<1>5. B \subseteq DOMAIN heap \ {Root}
  <2> DEFINE T == DOMAIN heap \ {Root}
  <2>1. \A p \in T, s \in Scope : Kids(heap, p, s) \subseteq T
    BY <1>3
  <2>2. Around(T)
    BY <2>1, <1>2
  <2> QED
    BY <2>2, <1>1
<1>6. \A p \in B, s \in Scope : Kids(heap, p, s) \subseteq B
  <2> SUFFICES ASSUME NEW p \in B, NEW s \in Scope, NEW c \in Kids(heap, p, s)
               PROVE  c \in B
    OBVIOUS
  <2>1. c \in DOMAIN heap
    BY <1>3, <1>5
  <2>2. \A T : Around(T) => c \in T
    BY <1>1, <1>2
  <2> QED
    BY <2>1, <2>2, <1>1
<1>7. ASSUME NEW p \in DOMAIN heap \ B, NEW s \in Scope, NEW c \in Kids(heap, p, s), c \in B, c \notin S
      PROVE  FALSE
  <2> DEFINE T == B \ {c}
  <2>1. \A q \in T, t \in Scope : c \notin Kids(heap, q, t)
    BY <1>5, <1>7 DEF GoodHeap, OneParent
  <2>2. \A q \in T, t \in Scope : Kids(heap, q, t) \subseteq T
    BY <2>1, <1>6
  <2>3. Around(T)
    BY <2>2, <1>2, <1>4, <1>5, <1>7
  <2> HIDE DEF T, Around
  <2>4. c \in T
    BY <2>3, <1>1, <1>7
  <2> QED
    BY <2>4 DEF T
<1> QED
  BY <1>4, <1>5, <1>7 DEF B

(* One cell changes its name, its value or its stack.                       *)
LEMMA UpdateFacts ==
    ASSUME GoodHeap(heap), NEW c \in DOMAIN heap, NEW d \in CellType,
           d.kids = heap[c].kids, d.kind = heap[c].kind,
           \A p \in DOMAIN heap, s \in Scope : c \in Kids(heap, p, s) =>
               \A q \in Kids(heap, p, s) : heap[q].name.key = d.name.key => q = c
    PROVE  GoodNext([heap EXCEPT ![c] = d])
<1> DEFINE h == [heap EXCEPT ![c] = d]
<1>1. /\ DOMAIN h = DOMAIN heap /\ h[c] = d
      /\ \A p \in DOMAIN heap : p # c => h[p] = heap[p]
  OBVIOUS
<1>2. Typed(h)
  BY DEF GoodHeap, Typed
<1> HIDE DEF h
<1>3. \A p \in DOMAIN heap : h[p].kids = heap[p].kids /\ h[p].kind = heap[p].kind
  BY <1>1
<1>4. \A p \in DOMAIN heap, s \in Scope : Kids(h, p, s) = Kids(heap, p, s)
  BY <1>3 DEF Kids
<1>5. RowsOK(h)
  BY <1>1, <1>3, <1>4 DEF GoodHeap, RowsOK
<1>6. OneParent(h)
  BY <1>1, <1>4 DEF GoodHeap, OneParent
<1>7. \A p \in DOMAIN heap, s \in Scope : Kids(heap, p, s) \subseteq DOMAIN heap
  BY DEF GoodHeap, RowsOK
<1>8. ASSUME NEW p \in DOMAIN heap, NEW s \in Scope,
             NEW q \in Kids(heap, p, s), NEW x \in Kids(heap, p, s)
      PROVE  /\ h[q].name.key = h[x].name.key => q = x
             /\ heap[q].name.key = h[x].name.key => q = x
  <2>1. heap[q].name.key = heap[x].name.key => q = x
    BY DEF GoodHeap, UniqueIn
  <2>2. q \in DOMAIN heap /\ x \in DOMAIN heap
    BY <1>7
  <2> QED
    BY <1>1, <2>1, <2>2
<1>9. UniqueIn(h) /\ KeysStay(heap, h)
  BY <1>1, <1>4, <1>8 DEF UniqueIn, KeysStay
<1>10. GoodNext(h)
  BY <1>2, <1>5, <1>6, <1>9 DEF GoodNext, GoodHeap
<1> QED
  BY <1>10 DEF h

(* One row of one item changes.                                             *)
LEMMA RowSetFacts ==
    ASSUME NEW h, Typed(h), NEW p \in DOMAIN h, NEW s \in Scope, NEW q \in Row
    PROVE  LET g == [h EXCEPT ![p].kids[s] = q] IN
           /\ DOMAIN g = DOMAIN h
           /\ Typed(g)
           /\ \A x \in DOMAIN h : /\ g[x].name = h[x].name
                                  /\ g[x].kind = h[x].kind
                                  /\ g[x].value = h[x].value
           /\ \A x \in DOMAIN h, t \in Scope :
                g[x].kids[t] = IF x = p /\ t = s THEN q ELSE h[x].kids[t]
<1> DEFINE g == [h EXCEPT ![p].kids[s] = q]
           k == [h[p].kids EXCEPT ![s] = q]
           d == [h[p] EXCEPT !.kids = k]
<1>1. h[p] \in CellType /\ h[p].kids \in [Scope -> Seq(Pos)] /\ q \in Seq(Pos)
  BY DEF Typed, CellType, Row
<1>2. /\ k \in [Scope -> Seq(Pos)]
      /\ \A t \in Scope : k[t] = IF t = s THEN q ELSE h[p].kids[t]
  BY <1>1
<1>3. /\ d \in CellType /\ d.kids = k
      /\ d.name = h[p].name /\ d.kind = h[p].kind /\ d.value = h[p].value
  <2> HIDE DEF k
  <2> QED
    BY <1>1, <1>2 DEF CellType
<1>4. g = [h EXCEPT ![p] = d]
  OBVIOUS
<1> HIDE DEF d, k
<1>5. /\ DOMAIN g = DOMAIN h /\ g[p] = d
      /\ \A x \in DOMAIN h : x # p => g[x] = h[x]
  BY <1>4 DEF Typed
<1>6. Typed(g)
  BY <1>3, <1>4 DEF Typed
<1> HIDE DEF g
<1>7. \A x \in DOMAIN h : g[x].name = h[x].name /\ g[x].kind = h[x].kind /\ g[x].value = h[x].value
  BY <1>3, <1>5
<1>8. ASSUME NEW x \in DOMAIN h, NEW t \in Scope
      PROVE  g[x].kids[t] = IF x = p /\ t = s THEN q ELSE h[x].kids[t]
  <2>1. CASE x = p
    BY <2>1, <1>2, <1>3, <1>5
  <2>2. CASE x # p
    BY <2>2, <1>5
  <2> QED
    BY <2>1, <2>2
<1> QED
  BY <1>5, <1>6, <1>7, <1>8 DEF g

(* A row loses children, and what hung on them is freed.                    *)
LEMMA FreedFacts ==
    ASSUME GoodHeap(heap), NEW p \in DOMAIN heap, NEW s \in Scope, NEW q \in Row,
           NEW S, heap[p].kind = "item",
           S \subseteq Kids(heap, p, s), Range(q) = Kids(heap, p, s) \ S
    PROVE  GoodNext(Freed([heap EXCEPT ![p].kids[s] = q], Subtree(S)))
<1> DEFINE g == [heap EXCEPT ![p].kids[s] = q]
           B == Subtree(S)
           h == Freed(g, B)
<1>1. Typed(heap) /\ \A x \in DOMAIN heap, t \in Scope : Kids(heap, x, t) \subseteq DOMAIN heap \ {Root}
  BY DEF GoodHeap, RowsOK
<1>2. /\ S \subseteq B /\ B \subseteq DOMAIN heap \ {Root}
      /\ \A x \in DOMAIN heap \ B, t \in Scope :
           \A c \in Kids(heap, x, t) : c \in B => c \in S
  BY <1>1, SubtreeFacts
<1>3. /\ DOMAIN g = DOMAIN heap /\ Typed(g)
      /\ \A x \in DOMAIN heap : g[x].name = heap[x].name /\ g[x].kind = heap[x].kind
      /\ \A x \in DOMAIN heap, t \in Scope :
           g[x].kids[t] = IF x = p /\ t = s THEN q ELSE heap[x].kids[t]
  BY <1>1, RowSetFacts
<1> HIDE DEF g, B
<1>4. DOMAIN h = DOMAIN heap \ B /\ \A x \in DOMAIN heap \ B : h[x] = g[x]
  BY <1>3 DEF Freed
<1>5. Typed(h)
  BY <1>1, <1>2, <1>3 DEF Typed, Freed
<1> HIDE DEF h
<1>6. \A x \in DOMAIN h : h[x].name = heap[x].name /\ h[x].kind = heap[x].kind
  BY <1>3, <1>4
<1>7. \A x \in DOMAIN h, t \in Scope :
        h[x].kids[t] = IF x = p /\ t = s THEN q ELSE heap[x].kids[t]
  BY <1>3, <1>4
<1>8. ASSUME NEW x \in DOMAIN h, NEW t \in Scope
      PROVE  Kids(h, x, t) = Kids(heap, x, t) \ B
  <2>1. x \in DOMAIN heap \ B
    BY <1>4
  <2>2. CASE x = p /\ t = s
    <3>1. Kids(h, x, t) = Kids(heap, p, s) \ S
      BY <2>2, <1>7 DEF Kids
    <3> QED
      BY <3>1, <2>1, <2>2, <1>2
  <2>3. CASE ~(x = p /\ t = s)
    <3>1. Kids(h, x, t) = Kids(heap, x, t)
      BY <2>3, <1>7 DEF Kids
    <3>2. \A c \in Kids(heap, x, t) : c \notin S
      BY <2>1, <2>3 DEF GoodHeap, OneParent
    <3> QED
      BY <3>1, <3>2, <2>1, <1>2
  <2> QED
    BY <2>2, <2>3
<1>9. RowsOK(h)
  <2> SUFFICES ASSUME NEW x \in DOMAIN h, NEW t \in Scope
               PROVE  /\ h[x].kids[t] \in Row
                      /\ Kids(h, x, t) \subseteq DOMAIN h \ {Root}
                      /\ h[x].kind # "item" => h[x].kids[t] = <<>>
    BY DEF RowsOK
  <2>1. /\ heap[x].kids[t] \in Row
        /\ heap[x].kind # "item" => heap[x].kids[t] = <<>>
    BY <1>4 DEF GoodHeap, RowsOK
  <2>2. Kids(h, x, t) \subseteq DOMAIN h \ {Root}
    BY <1>1, <1>4, <1>8
  <2> QED
    BY <2>1, <2>2, <1>6, <1>7
<1>10. OneParent(h)
  BY <1>4, <1>8 DEF GoodHeap, OneParent
<1>11. ASSUME NEW x \in DOMAIN h, NEW t \in Scope,
              NEW y \in Kids(heap, x, t), NEW c \in Kids(h, x, t)
       PROVE  /\ heap[y].name.key = h[c].name.key => y = c
              /\ y \in Kids(h, x, t) => h[y].name.key = heap[y].name.key
  <2>1. c \in Kids(heap, x, t) /\ c \in DOMAIN h
    BY <1>1, <1>4, <1>8
  <2>2. heap[y].name.key = heap[c].name.key => y = c
    BY <2>1, <1>4 DEF GoodHeap, UniqueIn
  <2>3. y \in Kids(h, x, t) => y \in DOMAIN h
    BY <1>1, <1>4, <1>8
  <2> QED
    BY <2>1, <2>2, <2>3, <1>6
<1>12. UniqueIn(h) /\ KeysStay(heap, h)
  <2>1. \A x \in DOMAIN h, t \in Scope : Kids(h, x, t) \subseteq Kids(heap, x, t)
    BY <1>8
  <2> QED
    BY <2>1, <1>4, <1>11 DEF UniqueIn, KeysStay
<1> QED
  BY <1>5, <1>9, <1>10, <1>12 DEF GoodNext, GoodHeap, h, g, B

(* A new cell, under a name its siblings do not have.                       *)
LEMMA AttachedFacts ==
    ASSUME GoodHeap(heap), NEW p \in DOMAIN heap, heap[p].kind = "item",
           NEW s \in Scope, NEW cell \in CellType,
           cell.kids = [t \in Scope |-> <<>>],
           \A q \in Kids(heap, p, s) : heap[q].name.key # cell.name.key,
           NEW h \in Attached(p, s, cell)
    PROVE  /\ GoodNext(h)
           /\ \E new \in Pos \ DOMAIN heap :
                /\ DOMAIN h = DOMAIN heap \cup {new}
                /\ new \in Kids(h, p, s)
           /\ \A x \in DOMAIN heap : h[x].value = heap[x].value
           /\ \A x \in DOMAIN heap, t \in Scope : Kids(heap, x, t) \subseteq Kids(h, x, t)
<1>1. Typed(heap) /\ \A x \in DOMAIN heap, t \in Scope : Kids(heap, x, t) \subseteq DOMAIN heap \ {Root}
  BY DEF GoodHeap, RowsOK
<1>2. PICK new \in Pos \ DOMAIN heap :
        h = [q \in DOMAIN heap \cup {new} |->
              IF q = new THEN cell
              ELSE IF q = p THEN [heap[p] EXCEPT !.kids[s] = Append(@, new)]
              ELSE heap[q]]
  BY DEF Attached
<1>3. heap[p].kids[s] \in Row /\ new \in Pos \ Range(heap[p].kids[s])
  BY <1>1 DEF GoodHeap, RowsOK, Kids
<1>4. PICK q \in Row : /\ q = Append(heap[p].kids[s], new)
                       /\ Range(q) = Kids(heap, p, s) \cup {new}
  BY <1>3, AppendFacts DEF Kids
<1> DEFINE g == [heap EXCEPT ![p].kids[s] = q]
<1>5. /\ DOMAIN g = DOMAIN heap /\ Typed(g)
      /\ \A x \in DOMAIN heap : /\ g[x].name = heap[x].name /\ g[x].kind = heap[x].kind
                                /\ g[x].value = heap[x].value
      /\ \A x \in DOMAIN heap, t \in Scope :
           g[x].kids[t] = IF x = p /\ t = s THEN q ELSE heap[x].kids[t]
  BY <1>1, RowSetFacts
<1>6. DOMAIN h = DOMAIN heap \cup {new} /\ h[new] = cell /\ \A x \in DOMAIN heap : h[x] = g[x]
  <2>1. /\ DOMAIN h = DOMAIN heap \cup {new} /\ h[new] = cell
        /\ \A x \in DOMAIN heap : x # p => h[x] = heap[x]
        /\ h[p] = [heap[p] EXCEPT !.kids[s] = Append(heap[p].kids[s], new)]
    BY <1>2
  <2>2. g[p] = [heap[p] EXCEPT !.kids[s] = q] /\ \A x \in DOMAIN heap : x # p => g[x] = heap[x]
    BY <1>1 DEF Typed
  <2> QED
    BY <2>1, <2>2, <1>4
<1> HIDE DEF g
<1>7. Typed(h)
  <2>1. h = [x \in DOMAIN h |-> h[x]]
    BY <1>2
  <2>2. \A x \in DOMAIN h : h[x] \in CellType
    BY <1>5, <1>6 DEF Typed
  <2> QED
    BY <2>1, <2>2, <1>1, <1>6 DEF Typed
<1>8. /\ \A x \in DOMAIN heap : /\ h[x].name = heap[x].name /\ h[x].kind = heap[x].kind
                                /\ h[x].value = heap[x].value
      /\ \A x \in DOMAIN heap, t \in Scope :
           h[x].kids[t] = IF x = p /\ t = s THEN q ELSE heap[x].kids[t]
  BY <1>5, <1>6
<1>9. \A t \in Scope : h[new].kids[t] = <<>>
  BY <1>6
<1>10. /\ \A t \in Scope : Kids(h, new, t) = {}
       /\ \A x \in DOMAIN heap, t \in Scope :
            Kids(h, x, t) = IF x = p /\ t = s THEN Kids(heap, p, s) \cup {new} ELSE Kids(heap, x, t)
  <2>1. \A t \in Scope : Kids(h, new, t) = {}
    BY <1>9, EmptyRowFacts DEF Kids
  <2>2. ASSUME NEW x \in DOMAIN heap, NEW t \in Scope
        PROVE  Kids(h, x, t) = IF x = p /\ t = s THEN Kids(heap, p, s) \cup {new} ELSE Kids(heap, x, t)
    <3>1. CASE x = p /\ t = s
      <4>1. h[x].kids[t] = q
        BY <3>1, <1>8
      <4> QED
        BY <3>1, <4>1, <1>4 DEF Kids
    <3>2. CASE ~(x = p /\ t = s)
      <4>1. h[x].kids[t] = heap[x].kids[t]
        BY <3>2, <1>8
      <4> QED
        BY <3>2, <4>1 DEF Kids
    <3> QED
      BY <3>1, <3>2
  <2> QED
    BY <2>1, <2>2
<1>11. new # Root /\ new \notin DOMAIN heap
  BY <1>1 DEF Typed
<1>12. RowsOK(h)
  <2> SUFFICES ASSUME NEW x \in DOMAIN h, NEW t \in Scope
               PROVE  /\ h[x].kids[t] \in Row
                      /\ Kids(h, x, t) \subseteq DOMAIN h \ {Root}
                      /\ h[x].kind # "item" => h[x].kids[t] = <<>>
    BY DEF RowsOK
  <2>1. CASE x = new
    BY <2>1, <1>9, <1>10, EmptyRowFacts
  <2>2. CASE x \in DOMAIN heap
    <3>1. /\ heap[x].kids[t] \in Row
          /\ heap[x].kind # "item" => heap[x].kids[t] = <<>>
      BY <2>2 DEF GoodHeap, RowsOK
    <3>2. Kids(h, x, t) \subseteq DOMAIN h \ {Root}
      BY <2>2, <1>1, <1>6, <1>10, <1>11
    <3> QED
      BY <2>2, <3>1, <3>2, <1>8
  <2> QED
    BY <2>1, <2>2, <1>6
<1>13. OneParent(h)
  <2> SUFFICES ASSUME NEW x \in DOMAIN h, NEW y \in DOMAIN h, NEW t \in Scope, NEW u \in Scope,
                      NEW c \in Kids(h, x, t), c \in Kids(h, y, u)
               PROVE  x = y /\ t = u
    BY DEF OneParent
  <2>1. x \in DOMAIN heap /\ y \in DOMAIN heap
    BY <1>6, <1>10
  <2>2. CASE c = new
    BY <2>1, <2>2, <1>1, <1>10, <1>11
  <2>3. CASE c # new
    <3>1. c \in Kids(heap, x, t) /\ c \in Kids(heap, y, u)
      BY <2>1, <2>3, <1>10
    <3> QED
      BY <2>1, <3>1 DEF GoodHeap, OneParent
  <2> QED
    BY <2>2, <2>3
<1>14. ASSUME NEW x \in DOMAIN heap, NEW t \in Scope,
              NEW y \in Kids(h, x, t), NEW c \in Kids(h, x, t), h[y].name.key = h[c].name.key
       PROVE  y = c
  <2>1. CASE y # new /\ c # new
    <3>1. y \in Kids(heap, x, t) /\ c \in Kids(heap, x, t)
      BY <2>1, <1>10
    <3>2. y \in DOMAIN heap /\ c \in DOMAIN heap
      BY <3>1, <1>1
    <3>3. heap[y].name.key = heap[c].name.key
      BY <3>2, <1>8, <1>14
    <3> QED
      BY <3>1, <3>3 DEF GoodHeap, UniqueIn
  <2>2. CASE y = new /\ c # new
    <3>1. x = p /\ t = s /\ c \in Kids(heap, p, s) /\ c \in DOMAIN heap
      BY <2>2, <1>1, <1>10, <1>11
    <3> QED
      BY <2>2, <3>1, <1>6, <1>8, <1>14
  <2>3. CASE y # new /\ c = new
    <3>1. x = p /\ t = s /\ y \in Kids(heap, p, s) /\ y \in DOMAIN heap
      BY <2>3, <1>1, <1>10, <1>11
    <3> QED
      BY <2>3, <3>1, <1>6, <1>8, <1>14
  <2> QED
    BY <2>1, <2>2, <2>3
<1>15. UniqueIn(h)
  <2> SUFFICES ASSUME NEW x \in DOMAIN h, NEW t \in Scope,
                      NEW y \in Kids(h, x, t), NEW c \in Kids(h, x, t), h[y].name.key = h[c].name.key
               PROVE  y = c
    BY DEF UniqueIn
  <2>1. x \in DOMAIN heap
    BY <1>6, <1>10
  <2> QED
    BY <2>1, <1>14
<1>16. \A x \in DOMAIN heap, t \in Scope : Kids(heap, x, t) \subseteq Kids(h, x, t)
  BY <1>10
<1>17. KeysStay(heap, h)
  <2> SUFFICES ASSUME NEW x \in DOMAIN heap, NEW t \in Scope,
                      NEW y \in Kids(heap, x, t), NEW c \in Kids(h, x, t), heap[y].name.key = h[c].name.key
               PROVE  y = c
    BY DEF KeysStay
  <2>1. y \in DOMAIN heap /\ y \in Kids(h, x, t)
    BY <1>1, <1>16
  <2>2. h[y].name.key = h[c].name.key
    BY <2>1, <1>8
  <2> QED
    BY <2>1, <2>2, <1>14
<1>18. GoodNext(h)
  BY <1>7, <1>12, <1>13, <1>15, <1>17 DEF GoodNext, GoodHeap
<1> QED
  BY <1>6, <1>8, <1>10, <1>16, <1>18

(* A child goes from the end of one row to that of another.                 *)
LEMMA MovedFacts ==
    ASSUME GoodHeap(heap), NEW p \in DOMAIN heap, NEW s \in Scope, NEW c \in Kids(heap, p, s),
           NEW dest \in DOMAIN heap, heap[p].kind = "item", heap[dest].kind = "item",
           \A q \in Kids(heap, dest, "child") : q # c => heap[q].name.key # heap[c].name.key
    PROVE  LET unlink == [heap EXCEPT ![p].kids[s] = RemoveFirst(@, c)]
           IN  GoodNext([unlink EXCEPT ![dest].kids["child"] = Append(@, c)])
<1>1. /\ Typed(heap)
      /\ \A x \in DOMAIN heap, t \in Scope : Kids(heap, x, t) \subseteq DOMAIN heap \ {Root}
      /\ \A x \in DOMAIN heap, t \in Scope : heap[x].kids[t] \in Row
      /\ "child" \in Scope
  BY TreeAssumption DEF GoodHeap, RowsOK
<1>2. PICK q \in Row : /\ q = RemoveFirst(heap[p].kids[s], c)
                       /\ Range(q) = Kids(heap, p, s) \ {c}
  <2>1. heap[p].kids[s] \in Row /\ c \in Range(heap[p].kids[s])
    BY <1>1 DEF Kids
  <2> QED
    BY <2>1, RemoveFirstFacts DEF Kids
<1> DEFINE u == [heap EXCEPT ![p].kids[s] = q]
<1>3. /\ DOMAIN u = DOMAIN heap /\ Typed(u)
      /\ \A x \in DOMAIN heap : u[x].name = heap[x].name /\ u[x].kind = heap[x].kind
      /\ \A x \in DOMAIN heap, t \in Scope :
           u[x].kids[t] = IF x = p /\ t = s THEN q ELSE heap[x].kids[t]
  <2>1. Typed(heap)
    BY <1>1
  <2> QED
    BY <2>1, RowSetFacts
<1>u. [heap EXCEPT ![p].kids[s] = RemoveFirst(@, c)] = u
  BY <1>2
<1> HIDE DEF u
<1>4. ASSUME NEW x \in DOMAIN heap, NEW t \in Scope
      PROVE  u[x].kids[t] \in Row /\ Kids(u, x, t) = Kids(heap, x, t) \ {c}
  <2>1. CASE x = p /\ t = s
    <3>1. u[x].kids[t] = q
      BY <2>1, <1>3
    <3> QED
      BY <3>1, <2>1, <1>2 DEF Kids
  <2>2. CASE ~(x = p /\ t = s)
    <3>1. u[x].kids[t] = heap[x].kids[t]
      BY <2>2, <1>3
    <3>2. c \notin Kids(heap, x, t)
      BY <2>2 DEF GoodHeap, OneParent
    <3> QED
      BY <3>1, <3>2, <1>1 DEF Kids
  <2> QED
    BY <2>1, <2>2
<1>5. PICK a \in Row : /\ a = Append(u[dest].kids["child"], c)
                       /\ Range(a) = (Kids(heap, dest, "child") \ {c}) \cup {c}
  <2>1. /\ u[dest].kids["child"] \in Row
        /\ Range(u[dest].kids["child"]) = Kids(heap, dest, "child") \ {c}
    BY <1>1, <1>4 DEF Kids
  <2>2. c \in Pos
    BY <1>1 DEF Typed
  <2> QED
    BY <2>1, <2>2, AppendFacts
<1> DEFINE h == [u EXCEPT ![dest].kids["child"] = a]
<1>6. /\ DOMAIN h = DOMAIN u /\ Typed(h)
      /\ \A x \in DOMAIN u : h[x].name = u[x].name /\ h[x].kind = u[x].kind
      /\ \A x \in DOMAIN u, t \in Scope :
           h[x].kids[t] = IF x = dest /\ t = "child" THEN a ELSE u[x].kids[t]
  <2>1. Typed(u) /\ dest \in DOMAIN u /\ "child" \in Scope
    BY <1>1, <1>3
  <2> QED
    BY <2>1, RowSetFacts
<1>h. [u EXCEPT ![dest].kids["child"] = Append(@, c)] = h
  BY <1>5
<1> HIDE DEF h
<1>7. ASSUME NEW x \in DOMAIN heap, NEW t \in Scope
      PROVE  /\ h[x].kids[t] \in Row
             /\ Kids(h, x, t) = IF x = dest /\ t = "child" THEN (Kids(heap, x, t) \ {c}) \cup {c}
                                ELSE Kids(heap, x, t) \ {c}
  <2>1. CASE x = dest /\ t = "child"
    <3>1. h[x].kids[t] = a
      BY <2>1, <1>1, <1>3, <1>6
    <3> QED
      BY <3>1, <2>1, <1>5 DEF Kids
  <2>2. CASE ~(x = dest /\ t = "child")
    <3>1. h[x].kids[t] = u[x].kids[t]
      BY <2>2, <1>3, <1>6
    <3> QED
      BY <3>1, <2>2, <1>4 DEF Kids
  <2> QED
    BY <2>1, <2>2
<1>8. DOMAIN h = DOMAIN heap /\ \A x \in DOMAIN heap : h[x].name = heap[x].name /\ h[x].kind = heap[x].kind
  BY <1>3, <1>6
<1>9. RowsOK(h)
  <2> SUFFICES ASSUME NEW x \in DOMAIN heap, NEW t \in Scope
               PROVE  /\ h[x].kids[t] \in Row
                      /\ Kids(h, x, t) \subseteq DOMAIN h \ {Root}
                      /\ h[x].kind # "item" => h[x].kids[t] = <<>>
    BY <1>8 DEF RowsOK
  <2>1. Kids(h, x, t) \subseteq DOMAIN h \ {Root}
    BY <1>1, <1>7, <1>8
  <2>2. ASSUME h[x].kind # "item" PROVE h[x].kids[t] = <<>>
    <3>1. heap[x].kind # "item" /\ x # dest /\ x # p
      BY <2>2, <1>8
    <3>2. heap[x].kids[t] = <<>>
      BY <3>1 DEF GoodHeap, RowsOK
    <3> QED
      BY <3>1, <3>2, <1>3, <1>6
  <2> QED
    BY <2>1, <2>2, <1>7
<1>10. OneParent(h)
  <2> SUFFICES ASSUME NEW x \in DOMAIN heap, NEW y \in DOMAIN heap, NEW t \in Scope, NEW v \in Scope,
                      NEW z \in Kids(h, x, t), z \in Kids(h, y, v)
               PROVE  x = y /\ t = v
    BY <1>8 DEF OneParent
  <2>1. CASE z = c
    BY <2>1, <1>7
  <2>2. CASE z # c
    <3>1. z \in Kids(heap, x, t) /\ z \in Kids(heap, y, v)
      BY <2>2, <1>7
    <3> QED
      BY <3>1 DEF GoodHeap, OneParent
  <2> QED
    BY <2>1, <2>2
<1>11. ASSUME NEW x \in DOMAIN heap, NEW t \in Scope,
              NEW y \in Kids(heap, x, t) \cup Kids(h, x, t), NEW z \in Kids(h, x, t),
              heap[y].name.key = heap[z].name.key
       PROVE  y = z
  <2>1. CASE z # c
    <3>1. z \in Kids(heap, x, t)
      BY <2>1, <1>7
    <3>2. CASE y \in Kids(heap, x, t)
      BY <3>1, <3>2, <1>11 DEF GoodHeap, UniqueIn
    <3>3. CASE y \notin Kids(heap, x, t)
      <4>1. y = c /\ x = dest /\ t = "child"
        BY <3>3, <1>7
      <4> QED
        BY <4>1, <3>1, <2>1, <1>11
    <3> QED
      BY <3>2, <3>3
  <2>2. CASE z = c
    <3>1. x = dest /\ t = "child"
      BY <2>2, <1>7
    <3>2. y = c \/ y \in Kids(heap, dest, "child")
      BY <3>1, <1>7
    <3> QED
      BY <3>2, <2>2, <1>11
  <2> QED
    BY <2>1, <2>2
<1>12. \A x \in DOMAIN heap, t \in Scope : Kids(h, x, t) \subseteq DOMAIN heap
  BY <1>8, <1>9 DEF RowsOK
<1>13. UniqueIn(h) /\ KeysStay(heap, h)
  <2>1. UniqueIn(h)
    <3> SUFFICES ASSUME NEW x \in DOMAIN heap, NEW t \in Scope,
                        NEW y \in Kids(h, x, t), NEW z \in Kids(h, x, t), h[y].name.key = h[z].name.key
                 PROVE  y = z
      BY <1>8 DEF UniqueIn
    <3>1. heap[y].name.key = heap[z].name.key
      BY <1>8, <1>12
    <3> QED
      BY <3>1, <1>11
  <2>2. KeysStay(heap, h)
    <3> SUFFICES ASSUME NEW x \in DOMAIN heap, NEW t \in Scope,
                        NEW y \in Kids(heap, x, t), NEW z \in Kids(h, x, t), heap[y].name.key = h[z].name.key
                 PROVE  y = z
      BY <1>8 DEF KeysStay
    <3>1. heap[y].name.key = heap[z].name.key
      BY <1>8, <1>12
    <3> QED
      BY <3>1, <1>11
  <2> QED
    BY <2>1, <2>2
<1>14. GoodNext(h)
  BY <1>6, <1>9, <1>10, <1>13 DEF GoodNext, GoodHeap
<1> QED
  BY <1>14, <1>u, <1>h

(* A new heap.                                                              *)
LEMMA FreshFacts ==
    LET h == [p \in {Root} |-> EmptyRoot] IN
    GoodHeap(h) /\ KeysStay(heap, h)
<1> DEFINE h == [p \in {Root} |-> EmptyRoot]
<1>1. Zero(CHOOSE t \in Type : TRUE) \in Value
  BY TreeAssumption DEF Value, Zero
<1>2. /\ EmptyRoot \in CellType
      /\ EmptyRoot.kids = [s \in Scope |-> <<>>]
  <2>1. PICK v \in Value : v = Zero(CHOOSE t \in Type : TRUE)
    BY <1>1
  <2>2. EmptyRoot = [name |-> NoName, kind |-> "item", value |-> v,
                     kids |-> [s \in Scope |-> <<>>], saved |-> <<>>]
    BY <2>1 DEF EmptyRoot, Cell
  <2> HIDE DEF h
  <2> QED
    BY <2>2 DEF CellType, Kind
<1>3. DOMAIN h = {Root} /\ h[Root] = EmptyRoot
  OBVIOUS
<1>4. Typed(h)
  BY <1>2, TreeAssumption DEF Typed
<1> HIDE DEF h
<1>5. \A s \in Scope : h[Root].kids[s] = <<>>
  BY <1>2, <1>3
<1>6. \A s \in Scope : h[Root].kids[s] \in Row /\ Kids(h, Root, s) = {}
  BY <1>5, EmptyRowFacts DEF Kids
<1>7. RowsOK(h) /\ OneParent(h) /\ UniqueIn(h)
  BY <1>3, <1>5, <1>6 DEF RowsOK, OneParent, UniqueIn
<1>8. KeysStay(heap, h)
  BY <1>3, <1>6 DEF KeysStay
<1> QED
  BY <1>4, <1>7, <1>8 DEF GoodHeap, h

LEMMA SameFacts == GoodHeap(heap) => GoodNext(heap)
  BY DEF GoodNext, GoodHeap, UniqueIn, KeysStay

(* A cell that keeps its name.                                              *)
LEMMA SameNameFacts ==
    ASSUME GoodHeap(heap), NEW c \in DOMAIN heap, NEW d \in CellType,
           d.kids = heap[c].kids, d.kind = heap[c].kind, d.name = heap[c].name
    PROVE  GoodNext([heap EXCEPT ![c] = d])
<1>1. \A p \in DOMAIN heap, s \in Scope : c \in Kids(heap, p, s) =>
        \A q \in Kids(heap, p, s) : heap[q].name.key = d.name.key => q = c
  BY DEF GoodHeap, UniqueIn
<1> QED
  BY <1>1, UpdateFacts

LEMMA ValueSetFacts ==
    ASSUME GoodHeap(heap), NEW c \in DOMAIN heap, NEW v \in Value
    PROVE  GoodNext([heap EXCEPT ![c].value = v])
<1> DEFINE d == [heap[c] EXCEPT !.value = v]
<1>1. heap[c] \in CellType
  BY DEF GoodHeap, Typed
<1>2. /\ d \in CellType /\ d.kids = heap[c].kids
      /\ d.kind = heap[c].kind /\ d.name = heap[c].name
  BY <1>1 DEF CellType
<1>3. [heap EXCEPT ![c].value = v] = [heap EXCEPT ![c] = d]
  OBVIOUS
<1> HIDE DEF d
<1> QED
  BY <1>2, <1>3, SameNameFacts

LEMMA SavedSetFacts ==
    ASSUME GoodHeap(heap), NEW c \in DOMAIN heap, NEW q \in Seq(Saved)
    PROVE  GoodNext([heap EXCEPT ![c].saved = q])
<1> DEFINE d == [heap[c] EXCEPT !.saved = q]
<1>1. heap[c] \in CellType
  BY DEF GoodHeap, Typed
<1>2. /\ d \in CellType /\ d.kids = heap[c].kids
      /\ d.kind = heap[c].kind /\ d.name = heap[c].name
  BY <1>1 DEF CellType
<1>3. [heap EXCEPT ![c].saved = q] = [heap EXCEPT ![c] = d]
  OBVIOUS
<1> HIDE DEF d
<1> QED
  BY <1>2, <1>3, SameNameFacts

-----------------------------------------------------------------------------
(* The calls, one by one.                                                   *)

\* A call leaves a good heap, and one that changed it succeeded and flagged it.
CallOK ==
    /\ GoodNext(heap')
    /\ dirty' \in {dirty} \cup BOOLEAN
    /\ heap' # heap => dirty' = TRUE /\ out'.hr = "S_OK"

LEMMA RefuseFacts == GoodHeap(heap) => \A hr : Refuse(hr) => CallOK
  BY SameFacts DEF Refuse, CallOK

LEMMA SucceedFacts == \A h : GoodNext(h) /\ Succeed(h) => CallOK
  BY DEF Succeed, Becomes, Answer, CallOK

LEMMA FailureFacts ==
    GoodHeap(heap) => /\ \A x \in DOMAIN heap \cup Failure : x \in Pos <=> x \in DOMAIN heap
                      /\ "S_OK" \notin Failure
  BY TreeAssumption DEF GoodHeap, Typed, Failure

(* What a declare does, when it does something.                             *)
LEMMA DeclareFacts ==
    ASSUME GoodHeap(heap), NEW r \in Route, NEW s \in Scope, NEW n \in Spelled,
           NEW v \in Value \cup {Unfit}, NEW update \in BOOLEAN,
           Declare(r, s, n, v, update)
    PROVE  \/ heap' = heap
           \/ /\ ResolveField(r) \in DOMAIN heap
              /\ heap[ResolveField(r)].kind = "item"
              /\ ResolveField(r) = Resolve(r)
              /\ n \in Name /\ v \in Value
              /\ out' \in {Answer("S_OK"), Make(RouteWith(r, s, n))}
              /\ \/ /\ heap' \in Attached(ResolveField(r), s, Cell(n, "item", v))
                    /\ \A q \in Kids(heap, ResolveField(r), s) : heap[q].name.key # n.key
                 \/ \E c \in Kids(heap, ResolveField(r), s) :
                      heap' = [heap EXCEPT ![c].value = v]
<1> DEFINE hr == BeginDeclare(r, s, n, update)
           p  == ResolveField(r)
           c  == Child(p, s, n)
<1>1. CASE heap' = heap
  BY <1>1
<1>2. CASE heap' # heap
  <2>1. /\ hr = "S_OK" /\ v # Unfit
        /\ \E h \in DeclareItem(p, s, n, v) : heap' = h
        /\ out' \in {Answer("S_OK"), Make(RouteWith(r, s, n))}
    BY <1>2 DEF Declare, Refuse, Becomes
  <2>2. n # BadName /\ p \in Pos
    <3>1. p \in DOMAIN heap \cup Failure
      BY ResolveFieldFacts
    <3> QED
      BY <2>1, <3>1, FailureFacts DEF BeginDeclare
  <2>3. p \in DOMAIN heap /\ heap[p].kind = "item" /\ p = Resolve(r)
    BY <2>2, ResolveFieldFacts
  <2>4. n \in Name /\ v \in Value
    BY <2>1, <2>2 DEF Spelled
  <2> HIDE DEF p, c
  <2>5. \/ c \in Kids(heap, p, s)
        \/ c = "E_NO_ITEM" /\ \A q \in Kids(heap, p, s) : heap[q].name.key # n.key
    BY <2>3, ChildFacts DEF c
  <2>6. CASE c \in Kids(heap, p, s)
    <3>1. c \in Pos
      BY <2>3, <2>6 DEF GoodHeap, RowsOK, Typed
    <3>2. heap' = [heap EXCEPT ![c].value = v]
      BY <2>1, <3>1 DEF DeclareItem, c
    <3> QED
      BY <2>1, <2>3, <2>4, <2>6, <3>2 DEF p
  <2>7. CASE c = "E_NO_ITEM" /\ \A q \in Kids(heap, p, s) : heap[q].name.key # n.key
    <3>1. c \notin Pos
      BY <2>7, TreeAssumption DEF Failure
    <3>2. heap' \in Attached(p, s, Cell(n, "item", v))
      BY <2>1, <3>1 DEF DeclareItem, c
    <3> QED
      BY <2>1, <2>3, <2>4, <2>7, <3>2 DEF p
  <2> QED
    BY <2>5, <2>6, <2>7
<1> QED
  BY <1>1, <1>2

LEMMA CellFacts ==
    ASSUME NEW n \in Name, NEW k \in Kind, NEW v \in Value
    PROVE  /\ Cell(n, k, v) \in CellType
           /\ Cell(n, k, v).kids = [s \in Scope |-> <<>>]
           /\ Cell(n, k, v).name = n
  BY DEF Cell, CellType

LEMMA DeclareKeeps ==
    ASSUME GoodHeap(heap), NEW r \in Route, NEW s \in Scope, NEW n \in Spelled,
           NEW v \in Value \cup {Unfit}, NEW update \in BOOLEAN,
           Declare(r, s, n, v, update)
    PROVE  GoodNext(heap')
<1> DEFINE p == ResolveField(r)
<1>1. CASE heap' = heap
  BY <1>1, SameFacts
<1>2. ASSUME p \in DOMAIN heap, heap[p].kind = "item", n \in Name, v \in Value,
             heap' \in Attached(p, s, Cell(n, "item", v)),
             \A q \in Kids(heap, p, s) : heap[q].name.key # n.key
      PROVE  GoodNext(heap')
  <2> HIDE DEF p
  <2>1. PICK cell \in CellType : /\ cell = Cell(n, "item", v)
                                 /\ cell.kids = [t \in Scope |-> <<>>] /\ cell.name = n
    BY <1>2, CellFacts DEF Kind
  <2>2. \A q \in Kids(heap, p, s) : heap[q].name.key # cell.name.key
    BY <1>2, <2>1
  <2>3. ASSUME NEW h \in Attached(p, s, cell) PROVE GoodNext(h)
    BY <1>2, <2>1, <2>2, <2>3, AttachedFacts
  <2> QED
    BY <1>2, <2>1, <2>3
<1>3. ASSUME p \in DOMAIN heap, v \in Value,
             NEW c \in Kids(heap, p, s), heap' = [heap EXCEPT ![c].value = v]
      PROVE  GoodNext(heap')
  <2>1. c \in DOMAIN heap
    BY <1>3 DEF GoodHeap, RowsOK
  <2> QED
    BY <1>3, <2>1, ValueSetFacts
<1>4. \/ heap' = heap
      \/ /\ p \in DOMAIN heap /\ heap[p].kind = "item"
         /\ n \in Name /\ v \in Value
         /\ \/ /\ heap' \in Attached(p, s, Cell(n, "item", v))
               /\ \A q \in Kids(heap, p, s) : heap[q].name.key # n.key
            \/ \E c \in Kids(heap, p, s) : heap' = [heap EXCEPT ![c].value = v]
  <2>1. \/ heap' = heap
        \/ /\ ResolveField(r) \in DOMAIN heap
           /\ heap[ResolveField(r)].kind = "item"
           /\ ResolveField(r) = Resolve(r)
           /\ n \in Name /\ v \in Value
           /\ out' \in {Answer("S_OK"), Make(RouteWith(r, s, n))}
           /\ \/ /\ heap' \in Attached(ResolveField(r), s, Cell(n, "item", v))
                 /\ \A q \in Kids(heap, ResolveField(r), s) : heap[q].name.key # n.key
              \/ \E c \in Kids(heap, ResolveField(r), s) :
                   heap' = [heap EXCEPT ![c].value = v]
    BY DeclareFacts
  <2> QED
    BY <2>1, Zenon
<1> HIDE DEF p
<1> QED
  BY <1>1, <1>2, <1>3, <1>4, Zenon

LEMMA DeclareContainerKeeps ==
    ASSUME GoodHeap(heap), NEW r \in Route, NEW s \in Scope, NEW n \in Spelled,
           NEW k \in Container, DeclareContainer(r, s, n, k)
    PROVE  CallOK
<1> DEFINE hr == BeginDeclare(r, s, n, FALSE)
           p  == ResolveField(r)
           c  == Child(p, s, n)
           z  == Zero(CHOOSE t \in Type : TRUE)
<1>0. dirty' \in {dirty} \cup BOOLEAN
  <2>1. dirty' = dirty \/ dirty' = TRUE
    BY Zenon DEF DeclareContainer, Refuse, Becomes
  <2> QED
    BY <2>1
<1>1. CASE heap' = heap
  BY <1>0, <1>1, SameFacts DEF CallOK
<1>2. CASE heap' # heap
  <2>1. /\ hr = "S_OK" /\ out'.hr = "S_OK" /\ dirty' = TRUE
        /\ heap' \in Attached(p, s, Cell(n, k, z))
    <3>1. /\ hr = "S_OK" /\ dirty' = TRUE /\ out' = Handed(RouteWith(r, s, n))
          /\ \E h \in Attached(p, s, Cell(n, k, z)) : heap' = h
      BY <1>2, Zenon DEF DeclareContainer, Refuse, Becomes
    <3> QED
      BY <3>1 DEF Handed
  <2>2. n # BadName /\ p \in Pos /\ c \notin Pos
    <3>1. p \in DOMAIN heap \cup Failure
      BY ResolveFieldFacts
    <3> QED
      BY <2>1, <3>1, FailureFacts DEF BeginDeclare
  <2>3. p \in DOMAIN heap /\ heap[p].kind = "item"
    BY <2>2, ResolveFieldFacts
  <2>4. n \in Name /\ z \in Value /\ k \in Kind
    BY <2>2, TreeAssumption DEF Spelled, Value, Zero, Kind
  <2> HIDE DEF p, c, z
  <2>5. \A q \in Kids(heap, p, s) : heap[q].name.key # n.key
    <3>1. c \in Kids(heap, p, s) => c \in Pos
      BY <2>3 DEF GoodHeap, RowsOK, Typed
    <3> QED
      BY <2>2, <2>3, <3>1, ChildFacts DEF c
  <2>6. PICK cell \in CellType : /\ cell = Cell(n, k, z)
                                 /\ cell.kids = [t \in Scope |-> <<>>] /\ cell.name = n
    BY <2>4, CellFacts
  <2>7. \A q \in Kids(heap, p, s) : heap[q].name.key # cell.name.key
    BY <2>5, <2>6
  <2>8. ASSUME NEW h \in Attached(p, s, cell) PROVE GoodNext(h)
    BY <2>3, <2>6, <2>7, <2>8, AttachedFacts
  <2> QED
    BY <1>0, <2>1, <2>6, <2>8 DEF CallOK
<1> QED
  BY <1>1, <1>2

LEMMA DeleteKeeps ==
    ASSUME GoodHeap(heap), NEW r \in Route, NEW s \in Scope, NEW n \in Name, Delete(r, s, n)
    PROVE  CallOK
<1>1. PICK p : p = ResolveField(r)
  OBVIOUS
<1>2. PICK c : c = Target(r, s, n)
  OBVIOUS
<1>3. \/ c \notin Pos /\ Refuse(c)
      \/ /\ c \in Pos
         /\ Succeed(Freed([heap EXCEPT ![p].kids[s] = RemoveFirst(@, c)], Subtree({c})))
  BY <1>1, <1>2 DEF Delete
<1>4. CASE Refuse(c)
  BY <1>4, RefuseFacts
<1>5. ASSUME c \in Pos,
             Succeed(Freed([heap EXCEPT ![p].kids[s] = RemoveFirst(@, c)], Subtree({c})))
      PROVE  CallOK
  <2>1. p \in DOMAIN heap /\ heap[p].kind = "item" /\ c \in Kids(heap, p, s)
    BY <1>1, <1>2, <1>5, TargetFacts
  <2>2. heap[p].kids[s] \in Row /\ c \in Range(heap[p].kids[s])
    BY <2>1 DEF GoodHeap, RowsOK, Kids
  <2>3. PICK q \in Row : /\ q = RemoveFirst(heap[p].kids[s], c)
                         /\ Range(q) = Kids(heap, p, s) \ {c}
    BY <2>2, RemoveFirstFacts DEF Kids
  <2>4. [heap EXCEPT ![p].kids[s] = RemoveFirst(@, c)] = [heap EXCEPT ![p].kids[s] = q]
    BY <2>3
  <2>5. GoodNext(Freed([heap EXCEPT ![p].kids[s] = q], Subtree({c})))
    <3>1. {c} \subseteq Kids(heap, p, s)
      BY <2>1
    <3> QED
      BY <2>1, <2>3, <3>1, FreedFacts
  <2>6. Succeed(Freed([heap EXCEPT ![p].kids[s] = q], Subtree({c})))
    BY <1>5, <2>4
  <2> QED
    BY <2>5, <2>6, SucceedFacts
<1> QED
  BY <1>3, <1>4, <1>5

LEMMA TruncateKeeps ==
    ASSUME GoodHeap(heap), NEW r \in Route, NEW s \in Scope, Truncate(r, s)
    PROVE  CallOK
<1>1. PICK p : p = ResolveField(r)
  OBVIOUS
<1>2. \/ p \notin Pos /\ Refuse(p)
      \/ /\ p \in Pos
         /\ Succeed(Freed([heap EXCEPT ![p].kids[s] = <<>>], Subtree(Range(heap[p].kids[s]))))
  BY <1>1 DEF Truncate
<1>3. CASE Refuse(p)
  BY <1>3, RefuseFacts
<1>4. ASSUME p \in Pos,
             Succeed(Freed([heap EXCEPT ![p].kids[s] = <<>>], Subtree(Range(heap[p].kids[s]))))
      PROVE  CallOK
  <2>1. p \in DOMAIN heap /\ heap[p].kind = "item"
    BY <1>1, <1>4, ResolveFieldFacts
  <2>2. PICK q \in Row : q = <<>> /\ Range(q) = {}
    BY EmptyRowFacts
  <2>3. GoodNext(Freed([heap EXCEPT ![p].kids[s] = q], Subtree(Kids(heap, p, s))))
    <3>1. Range(q) = Kids(heap, p, s) \ Kids(heap, p, s)
      BY <2>2
    <3> QED
      BY <2>1, <3>1, FreedFacts
  <2>4. Succeed(Freed([heap EXCEPT ![p].kids[s] = q], Subtree(Kids(heap, p, s))))
    BY <1>4, <2>2 DEF Kids
  <2> QED
    BY <2>3, <2>4, SucceedFacts
<1> QED
  BY <1>2, <1>3, <1>4

LEMMA RenameKeeps ==
    ASSUME GoodHeap(heap), NEW r \in Route, NEW s \in Scope, NEW n \in Name,
           NEW m \in Spelled, Rename(r, s, n, m)
    PROVE  CallOK
<1>1. PICK p : p = ResolveField(r)
  OBVIOUS
<1>2. PICK c : c = Target(r, s, n)
  OBVIOUS
<1>3. \/ \E hr : Refuse(hr)
      \/ /\ m # BadName /\ c \in Pos /\ ~Taken(p, s, m, c)
         /\ Succeed([heap EXCEPT ![c].name = m])
  BY <1>1, <1>2, Zenon DEF Rename
<1>4. CASE \E hr : Refuse(hr)
  BY <1>4, RefuseFacts
<1>5. ASSUME m # BadName, c \in Pos, ~Taken(p, s, m, c), Succeed([heap EXCEPT ![c].name = m])
      PROVE  CallOK
  <2>1. p \in DOMAIN heap /\ c \in Kids(heap, p, s) /\ c \in DOMAIN heap
    BY <1>1, <1>2, <1>5, TargetFacts
  <2>2. \A q \in Kids(heap, p, s) : heap[q].name.key = m.key => q = c
    BY <1>5 DEF Taken, Same, Kids
  <2> DEFINE d == [heap[c] EXCEPT !.name = m]
  <2>3. heap[c] \in CellType /\ m \in Name
    BY <1>5, <2>1 DEF GoodHeap, Typed, Spelled
  <2>4. /\ d \in CellType /\ d.kids = heap[c].kids
        /\ d.kind = heap[c].kind /\ d.name = m
    BY <2>3 DEF CellType
  <2>5. [heap EXCEPT ![c].name = m] = [heap EXCEPT ![c] = d]
    OBVIOUS
  <2> HIDE DEF d
  <2>6. \A x \in DOMAIN heap, t \in Scope : c \in Kids(heap, x, t) =>
          \A q \in Kids(heap, x, t) : heap[q].name.key = d.name.key => q = c
    <3>1. \A x \in DOMAIN heap, t \in Scope : c \in Kids(heap, x, t) => x = p /\ t = s
      BY <2>1 DEF GoodHeap, OneParent
    <3> QED
      BY <3>1, <2>2, <2>4
  <2>7. GoodNext([heap EXCEPT ![c] = d])
    BY <2>1, <2>4, <2>6, UpdateFacts
  <2> QED
    BY <1>5, <2>5, <2>7, SucceedFacts
<1> QED
  BY <1>3, <1>4, <1>5

LEMMA MoveKeeps ==
    ASSUME GoodHeap(heap), NEW r \in Route, NEW s \in Scope, NEW n \in Name,
           NEW d \in Route, Move(r, s, n, d)
    PROVE  CallOK
<1>1. PICK p : p = ResolveField(r)
  OBVIOUS
<1>2. PICK c : c = Target(r, s, n)
  OBVIOUS
<1>3. PICK dest : dest = ResolveField(d)
  OBVIOUS
<1> DEFINE unlink == [heap EXCEPT ![p].kids[s] = RemoveFirst(@, c)]
           h == [unlink EXCEPT ![dest].kids["child"] = Append(@, c)]
<1>4. \/ \E hr : Refuse(hr)
      \/ /\ p \in Pos /\ dest \in Pos /\ c \in Pos
         /\ ~Taken(dest, "child", heap[c].name, c)
         /\ Succeed(h)
  BY <1>1, <1>2, <1>3, Zenon DEF Move
<1>5. CASE \E hr : Refuse(hr)
  BY <1>5, RefuseFacts
<1>6. ASSUME p \in Pos, dest \in Pos, c \in Pos,
             ~Taken(dest, "child", heap[c].name, c), Succeed(h)
      PROVE  CallOK
  <2>1. p \in DOMAIN heap /\ heap[p].kind = "item" /\ c \in Kids(heap, p, s)
    BY <1>1, <1>2, <1>6, TargetFacts
  <2>2. dest \in DOMAIN heap /\ heap[dest].kind = "item"
    BY <1>3, <1>6, ResolveFieldFacts
  <2>3. \A q \in Kids(heap, dest, "child") : q # c => heap[q].name.key # heap[c].name.key
    BY <1>6 DEF Taken, Same, Kids
  <2>4. GoodNext(h)
    BY <2>1, <2>2, <2>3, MovedFacts
  <2> HIDE DEF h
  <2> QED
    BY <1>6, <2>4, SucceedFacts
<1> HIDE DEF h
<1> QED
  BY <1>4, <1>5, <1>6

LEMMA RetypeKeeps ==
    ASSUME GoodHeap(heap), NEW r \in Route, NEW s \in Scope, NEW n \in Name,
           NEW t, Retype(r, s, n, t)
    PROVE  CallOK
<1>1. PICK c : c = Target(r, s, n)
  OBVIOUS
<1>2. \/ \E hr : Refuse(hr)
      \/ c \in Pos /\ t \in Type /\ Succeed([heap EXCEPT ![c].value = Zero(t)])
  BY <1>1, Zenon DEF Retype
<1>3. CASE \E hr : Refuse(hr)
  BY <1>3, RefuseFacts
<1>4. ASSUME c \in Pos, t \in Type, Succeed([heap EXCEPT ![c].value = Zero(t)])
      PROVE  CallOK
  <2>1. c \in DOMAIN heap
    BY <1>1, <1>4, TargetFacts
  <2>2. Zero(t) \in Value
    BY <1>4, TreeAssumption DEF Zero, Value
  <2>3. GoodNext([heap EXCEPT ![c].value = Zero(t)])
    BY <2>1, <2>2, ValueSetFacts
  <2> QED
    BY <1>4, <2>3, SucceedFacts
<1> QED
  BY <1>2, <1>3, <1>4

LEMMA SetValueKeeps ==
    ASSUME GoodHeap(heap), NEW r \in Route, NEW v \in Value \cup {Unfit, Mistyped},
           SetValue(r, v)
    PROVE  CallOK
<1>1. PICK p : p = ResolveField(r)
  OBVIOUS
<1>2. \/ \E hr : Refuse(hr)
      \/ p \in Pos /\ v.type = heap[p].value.type /\ Succeed([heap EXCEPT ![p].value = v])
  BY <1>1, Zenon DEF SetValue
<1>3. CASE \E hr : Refuse(hr)
  BY <1>3, RefuseFacts
<1>4. ASSUME p \in Pos, v.type = heap[p].value.type, Succeed([heap EXCEPT ![p].value = v])
      PROVE  CallOK
  <2>1. p \in DOMAIN heap
    BY <1>1, <1>4, ResolveFieldFacts
  <2>2. v.type \in Type
    BY <1>4, <2>1 DEF GoodHeap, Typed, CellType, Value
  <2>3. v \in Value
    BY <2>2, TreeAssumption
  <2>4. GoodNext([heap EXCEPT ![p].value = v])
    BY <2>1, <2>3, ValueSetFacts
  <2> QED
    BY <1>4, <2>4, SucceedFacts
<1> QED
  BY <1>2, <1>3, <1>4

LEMMA PushValueKeeps ==
    ASSUME GoodHeap(heap), NEW r \in Route, PushValue(r)
    PROVE  CallOK
<1>1. PICK p : p = ResolveField(r)
  OBVIOUS
<1> DEFINE pair == [name |-> heap[p].name, value |-> heap[p].value]
<1>2. \/ \E hr : Refuse(hr)
      \/ p \in Pos /\ Succeed([heap EXCEPT ![p].saved = <<pair>> \o @])
  BY <1>1, Zenon DEF PushValue
<1>3. CASE \E hr : Refuse(hr)
  BY <1>3, RefuseFacts
<1>4. ASSUME p \in Pos, Succeed([heap EXCEPT ![p].saved = <<pair>> \o @])
      PROVE  CallOK
  <2>1. p \in DOMAIN heap
    BY <1>1, <1>4, ResolveFieldFacts
  <2>2. pair \in Saved /\ heap[p].saved \in Seq(Saved)
    BY <2>1 DEF GoodHeap, Typed, CellType, Saved
  <2> HIDE DEF pair
  <2>3. <<pair>> \o heap[p].saved \in Seq(Saved)
    <3>1. <<pair>> \in Seq(Saved)
      BY <2>2
    <3> QED
      BY <2>2, <3>1, ConcatProperties
  <2>4. PICK q \in Seq(Saved) : q = <<pair>> \o heap[p].saved
    BY <2>3
  <2>5. GoodNext([heap EXCEPT ![p].saved = q])
    BY <2>1, SavedSetFacts
  <2>6. Succeed([heap EXCEPT ![p].saved = q])
    BY <1>4, <2>4
  <2> QED
    BY <2>5, <2>6, SucceedFacts
<1> QED
  BY <1>2, <1>3, <1>4

LEMMA TopFacts ==
    ASSUME GoodHeap(heap), NEW p \in DOMAIN heap, heap[p].saved # <<>>
    PROVE  heap[p].saved[1] \in Saved /\ Tail(heap[p].saved) \in Seq(Saved)
<1>1. heap[p].saved \in Seq(Saved)
  BY DEF GoodHeap, Typed, CellType
<1>2. PICK q \in Seq(Saved) : q = heap[p].saved
  BY <1>1
<1>3. q # <<>>
  BY <1>2
<1>4. Tail(q) \in Seq(Saved) /\ Head(q) \in Saved /\ Head(q) = q[1]
  BY <1>3, HeadTailProperties
<1> QED
  BY <1>2, <1>4

\* The cell x after a pop of that name and value.
Popped(x, m, v, q) == [x EXCEPT !.name = m, !.value = v, !.saved = q]

LEMMA PoppedFacts ==
    ASSUME NEW x \in CellType, NEW m \in Name \cup {NoName}, NEW v \in Value, NEW q \in Seq(Saved)
    PROVE  /\ Popped(x, m, v, q) \in CellType
           /\ Popped(x, m, v, q).kids = x.kids
           /\ Popped(x, m, v, q).kind = x.kind
           /\ Popped(x, m, v, q).name = m
<1>1. PICK y \in CellType : /\ y = [x EXCEPT !.name = m]
                            /\ y.kids = x.kids /\ y.kind = x.kind /\ y.name = m
  <2> DEFINE y == [x EXCEPT !.name = m]
  <2>1. y \in CellType /\ y.kids = x.kids /\ y.kind = x.kind /\ y.name = m
    BY DEF CellType
  <2> QED
    BY <2>1
<1>2. PICK z \in CellType : /\ z = [y EXCEPT !.value = v]
                            /\ z.kids = x.kids /\ z.kind = x.kind /\ z.name = m
  <2> DEFINE z == [y EXCEPT !.value = v]
  <2>1. z \in CellType /\ z.kids = x.kids /\ z.kind = x.kind /\ z.name = m
    BY <1>1 DEF CellType
  <2> QED
    BY <2>1
<1>3. /\ [z EXCEPT !.saved = q] \in CellType
      /\ [z EXCEPT !.saved = q].kids = x.kids /\ [z EXCEPT !.saved = q].kind = x.kind
      /\ [z EXCEPT !.saved = q].name = m
  BY <1>2 DEF CellType
<1>4. Popped(x, m, v, q) = [z EXCEPT !.saved = q]
  BY <1>1, <1>2 DEF Popped
<1> QED
  BY <1>3, <1>4

LEMMA PopValueKeeps ==
    ASSUME GoodHeap(heap), NEW r \in Route, PopValue(r)
    PROVE  CallOK
<1>1. PICK p : p = ResolveField(r)
  OBVIOUS
<1> DEFINE top  == heap[p].saved[1]
           rest == Tail(heap[p].saved)
           h    == [heap EXCEPT ![p].name = top.name, ![p].value = top.value, ![p].saved = rest]
<1>2. \/ \E hr : Refuse(hr)
      \/ p \in Pos /\ heap[p].saved # <<>> /\ ~Clashes(p, top.name) /\ Succeed(h)
  BY <1>1, Zenon DEF PopValue
<1>3. CASE \E hr : Refuse(hr)
  BY <1>3, RefuseFacts
<1>4. ASSUME p \in Pos, heap[p].saved # <<>>, ~Clashes(p, top.name), Succeed(h)
      PROVE  CallOK
  <2>1. p \in DOMAIN heap
    BY <1>1, <1>4, ResolveFieldFacts
  <2>2. top \in Saved /\ rest \in Seq(Saved)
    BY <1>4, <2>1, TopFacts
  <2> HIDE DEF top, rest
  <2> DEFINE d == Popped(heap[p], top.name, top.value, rest)
  <2>3. heap[p] \in CellType
    BY <2>1 DEF GoodHeap, Typed
  <2>4. /\ d \in CellType /\ d.kids = heap[p].kids
        /\ d.kind = heap[p].kind /\ d.name = top.name
    <3>1. top.name \in Name \cup {NoName} /\ top.value \in Value
      BY <2>2 DEF Saved
    <3>2. Popped(heap[p], top.name, top.value, rest) \in CellType
      BY <3>1, <2>2, <2>3, PoppedFacts
    <3>3. Popped(heap[p], top.name, top.value, rest).kids = heap[p].kids
      BY <3>1, <2>2, <2>3, PoppedFacts
    <3>4. Popped(heap[p], top.name, top.value, rest).kind = heap[p].kind
      BY <3>1, <2>2, <2>3, PoppedFacts
    <3>5. Popped(heap[p], top.name, top.value, rest).name = top.name
      BY <3>1, <2>2, <2>3, PoppedFacts
    <3> QED
      BY <3>2, <3>3, <3>4, <3>5
  <2>5. h = [heap EXCEPT ![p] = d]
    BY DEF Popped
  <2> HIDE DEF d, h
  <2>6. \A x \in DOMAIN heap, t \in Scope : p \in Kids(heap, x, t) =>
          \A q \in Kids(heap, x, t) : heap[q].name.key = d.name.key => q = p
    BY <1>4, <2>4 DEF Clashes, Taken, Same, Kids
  <2>7. GoodNext([heap EXCEPT ![p] = d])
    BY <2>1, <2>4, <2>6, UpdateFacts
  <2> QED
    BY <1>4, <2>5, <2>7, SucceedFacts
<1> HIDE DEF h, top
<1> QED
  BY <1>2, <1>3, <1>4

LEMMA DropValueKeeps ==
    ASSUME GoodHeap(heap), NEW r \in Route, DropValue(r)
    PROVE  CallOK
<1>1. PICK p : p = ResolveField(r)
  OBVIOUS
<1>2. \/ \E hr : Refuse(hr)
      \/ p \in Pos /\ heap[p].saved # <<>> /\ Succeed([heap EXCEPT ![p].saved = Tail(@)])
  BY <1>1, Zenon DEF DropValue
<1>3. CASE \E hr : Refuse(hr)
  BY <1>3, RefuseFacts
<1>4. ASSUME p \in Pos, heap[p].saved # <<>>, Succeed([heap EXCEPT ![p].saved = Tail(@)])
      PROVE  CallOK
  <2>1. p \in DOMAIN heap
    BY <1>1, <1>4, ResolveFieldFacts
  <2>2. PICK q \in Seq(Saved) : q = Tail(heap[p].saved)
    BY <1>4, <2>1, TopFacts
  <2>3. GoodNext([heap EXCEPT ![p].saved = q])
    BY <2>1, SavedSetFacts
  <2>4. Succeed([heap EXCEPT ![p].saved = q])
    BY <1>4, <2>2
  <2> QED
    BY <2>3, <2>4, SucceedFacts
<1> QED
  BY <1>2, <1>3, <1>4

LEMMA DeclareFlags ==
    ASSUME NEW r, NEW s, NEW n, NEW v, NEW update, Declare(r, s, n, v, update)
    PROVE  /\ dirty' \in {dirty} \cup BOOLEAN
           /\ heap' # heap => dirty' = TRUE
<1>1. (heap' = heap /\ dirty' = dirty) \/ dirty' = TRUE
  BY Zenon DEF Declare, Refuse, Becomes
<1> QED
  BY <1>1

(* Every call but a declare of a value.                                     *)
LEMMA OtherCallsKeep ==
    ASSUME GoodHeap(heap), Next
    PROVE  \/ CallOK
           \/ \E r \in Route, s \in Scope, n \in Spelled, v \in Value \cup {Unfit},
                 update \in BOOLEAN : Declare(r, s, n, v, update)
<1>1. ASSUME NEW r \in Route, NEW s \in Scope, NEW n \in Spelled, NEW k \in Container,
             DeclareContainer(r, s, n, k)
      PROVE  CallOK
  BY <1>1, DeclareContainerKeeps
<1>2. ASSUME NEW r \in Route, NEW s \in Scope, NEW n \in Name, OnChild(r, s, n)
      PROVE  CallOK
  <2>1. CASE Delete(r, s, n)
    BY <2>1, DeleteKeeps
  <2>2. ASSUME NEW m \in Spelled, Rename(r, s, n, m) PROVE CallOK
    BY <2>2, RenameKeeps
  <2>3. ASSUME NEW d \in Route, Move(r, s, n, d) PROVE CallOK
    BY <2>3, MoveKeeps
  <2>4. ASSUME NEW t, Retype(r, s, n, t) PROVE CallOK
    BY <2>4, RetypeKeeps
  <2> QED
    BY <1>2, <2>1, <2>2, <2>3, <2>4 DEF OnChild
<1>3. ASSUME NEW r \in Route, OnNode(r)
      PROVE  CallOK
  <2>1. ASSUME NEW s \in Scope, Truncate(r, s) PROVE CallOK
    BY <2>1, TruncateKeeps
  <2>2. ASSUME NEW v \in Value \cup {Unfit, Mistyped}, SetValue(r, v) PROVE CallOK
    BY <2>2, SetValueKeeps
  <2>3. CASE PushValue(r)
    BY <2>3, PushValueKeeps
  <2>4. CASE PopValue(r)
    BY <2>4, PopValueKeeps
  <2>5. CASE DropValue(r)
    BY <2>5, DropValueKeeps
  <2> QED
    BY <1>3, <2>1, <2>2, <2>3, <2>4, <2>5 DEF OnNode
<1>4. CASE Clear
  <2>1. Succeed([p \in {Root} |-> EmptyRoot])
    BY <1>4 DEF Clear
  <2>2. GoodNext([p \in {Root} |-> EmptyRoot])
    BY FreshFacts DEF GoodNext
  <2> QED
    BY <2>1, <2>2, SucceedFacts
<1>5. CASE Save
  BY <1>5, SameFacts DEF Save, CallOK
<1>6. ASSUME NEW d \in BOOLEAN, SetDirty(d) PROVE CallOK
  BY <1>6, SameFacts DEF SetDirty, CallOK
<1> QED
  BY <1>1, <1>2, <1>3, <1>4, <1>5, <1>6, Zenon DEF Next, OnNewChild

-----------------------------------------------------------------------------
(* The inductive invariant.                                                 *)
TreeInv == GoodHeap(heap) /\ dirty \in BOOLEAN

LEMMA StartsGood == Init => TreeInv
  BY FreshFacts DEF Init, TreeInv

LEMMA NextKeeps ==
    ASSUME TreeInv, [Next]_vars
    PROVE  /\ TreeInv'
           /\ GoodHeap(heap') /\ KeysStay(heap, heap')
           /\ heap' # heap => dirty'
<1>1. GoodNext(heap') /\ dirty' \in {dirty} \cup BOOLEAN /\ (heap' # heap => dirty' = TRUE)
  <2>1. CASE CallOK
    BY <2>1 DEF CallOK
  <2>2. ASSUME NEW r \in Route, NEW s \in Scope, NEW n \in Spelled, NEW v \in Value \cup {Unfit},
               NEW update \in BOOLEAN, Declare(r, s, n, v, update)
        PROVE  GoodNext(heap') /\ dirty' \in {dirty} \cup BOOLEAN /\ (heap' # heap => dirty' = TRUE)
    BY <2>2, DeclareKeeps, DeclareFlags DEF TreeInv
  <2>3. CASE UNCHANGED vars
    BY <2>3, SameFacts DEF TreeInv, vars
  <2> QED
    BY <2>1, <2>2, <2>3, OtherCallsKeep, Zenon DEF TreeInv
<1> QED
  BY <1>1 DEF TreeInv, GoodNext

LEMMA TreeInvHolds == Spec => []TreeInv
<1>1. TreeInv /\ [Next]_vars => TreeInv'
  BY NextKeeps
<1> QED
  BY <1>1, StartsGood, PTL DEF Spec

(* The heap holds allocated cells only, of the right shape (what Delete,     *)
(* Truncate and Move leave, whatever the tree).                              *)
THEOREM HeapIsTyped == Spec => []TypeOK
<1>1. TreeInv => TypeOK
  BY DEF TreeInv, TypeOK, CellOK, GoodHeap, Typed, RowsOK, Kids
<1> QED
  BY <1>1, TreeInvHolds, PTL

(* No two siblings answer to one name, after any sequence of calls.          *)
THEOREM SiblingsDiffer == Spec => []NamesUnique
<1>1. TreeInv => NamesUnique
  BY DEF TreeInv, NamesUnique, GoodHeap, UniqueIn, Kids, Same
<1> QED
  BY <1>1, TreeInvHolds, PTL

(* A call that changes the tree leaves the store dirty.                      *)
THEOREM ChangesAreFlagged == Spec => NoSilentChange
<1>1. TreeInv /\ [Next]_vars => [heap' # heap => dirty']_vars
  BY NextKeeps
<1> QED
  BY <1>1, TreeInvHolds, PTL DEF Spec, NoSilentChange

-----------------------------------------------------------------------------
(* Handles: where a route leads before a call and after it.                 *)
LEMMA WalkAfter ==
    GoodHeap(heap') => \A r \in Route :
        /\ Track(heap', r, Walk(r)')
        /\ Resolve(r)' = Walk(r)'[Len(r)]
        /\ Resolve(r)' \in DOMAIN heap' \cup Failure
<1>1. (GoodHeap(heap) => \A r \in Route : Track(heap, r, Walk(r)))'
  BY WalkIsATrack, PTL
<1>2. (GoodHeap(heap) => \A r \in Route :
        /\ Resolve(r) = Walk(r)[Len(r)]
        /\ Resolve(r) \in DOMAIN heap \cup Failure)'
  BY ResolveFacts, PTL
<1> QED
  BY <1>1, <1>2

(* A walk that gets to a node has not failed on the way.                     *)
LEMMA NoFailureOnTheWay ==
    ASSUME NEW h, Typed(h), NEW r \in Route, NEW w, Track(h, r, w), w[Len(r)] \in Pos
    PROVE  /\ \A i \in 0..Len(r) : w[i] \in DOMAIN h
           /\ \A i \in 1..Len(r) : /\ w[i] \in Kids(h, w[i - 1], r[i].scope)
                                   /\ h[w[i]].name.key = r[i].name.key
<1>1. Len(r) \in Nat
  BY RouteFacts
<1>2. \A x \in DOMAIN h : x \notin Failure
  BY TreeAssumption DEF Typed
<1>3. ASSUME NEW i \in 0..Len(r), w[i] \in Failure PROVE FALSE
  <2> DEFINE S == {j \in i..Len(r) : w[j] \notin Failure}
  <2>1. Len(r) \in S
    BY <1>1, TreeAssumption
  <2>2. PICK j \in S : \A k \in S : j <= k
    <3>1. S \subseteq Nat
      BY <1>1
    <3> QED
      BY <2>1, <3>1, LeastExists
  <2>3. j \in i..Len(r) /\ w[j] \notin Failure
    OBVIOUS
  <2>4. j # i
    BY <1>3, <2>3
  <2>5. j \in 1..Len(r) /\ j - 1 \in i..Len(r) /\ ~(j <= j - 1)
    BY <1>1, <2>3, <2>4
  <2>6. w[j - 1] \in Failure
    BY <2>2, <2>5
  <2>7. w[j] = w[j - 1]
    BY <1>2, <2>5, <2>6 DEF Track
  <2> QED
    BY <2>3, <2>6, <2>7
<1>4. \A i \in 0..Len(r) : w[i] \in DOMAIN h
  BY <1>3 DEF Track
<1>5. ASSUME NEW i \in 1..Len(r)
      PROVE  w[i] \in Kids(h, w[i - 1], r[i].scope) /\ h[w[i]].name.key = r[i].name.key
  <2>1. i \in 0..Len(r) /\ i - 1 \in 0..Len(r)
    BY <1>1
  <2>2. w[i] \notin Failure /\ w[i - 1] \notin Failure
    BY <1>3, <2>1
  <2> QED
    BY <2>2 DEF Track
<1> QED
  BY <1>4, <1>5

LEMMA TracksAgree ==
    ASSUME NEW g, NEW h, Typed(g), Typed(h), KeysStay(g, h), NEW r \in Route,
           NEW w, Track(g, r, w), w[Len(r)] \in Pos,
           NEW v, Track(h, r, v), v[Len(r)] \in Pos
    PROVE  w[Len(r)] = v[Len(r)]
<1>1. Len(r) \in Nat /\ \A i \in 1..Len(r) : r[i].scope \in Scope
  BY RouteFacts
<1>2. /\ \A i \in 0..Len(r) : w[i] \in DOMAIN g
      /\ \A i \in 1..Len(r) : /\ w[i] \in Kids(g, w[i - 1], r[i].scope)
                              /\ g[w[i]].name.key = r[i].name.key
  BY NoFailureOnTheWay
<1>3. /\ \A i \in 0..Len(r) : v[i] \in DOMAIN h
      /\ \A i \in 1..Len(r) : /\ v[i] \in Kids(h, v[i - 1], r[i].scope)
                              /\ h[v[i]].name.key = r[i].name.key
  BY NoFailureOnTheWay
<1> DEFINE D == {i \in 0..Len(r) : w[i] # v[i]}
<1>4. CASE D = {}
  <2>1. Len(r) \in 0..Len(r)
    BY <1>1
  <2> QED
    BY <1>4, <2>1
<1>5. CASE D # {}
  <2>1. D \subseteq Nat
    BY <1>1
  <2>2. PICK i \in D : \A j \in D : i <= j
    BY <1>5, <2>1, LeastExists
  <2>3. i \in 0..Len(r) /\ w[i] # v[i]
    OBVIOUS
  <2>4. i # 0
    BY <2>3 DEF Track
  <2>5. i \in 1..Len(r) /\ i - 1 \in 0..Len(r) /\ ~(i <= i - 1)
    BY <1>1, <2>3, <2>4
  <2>6. w[i - 1] = v[i - 1]
    BY <2>2, <2>5
  <2>7. w[i - 1] \in DOMAIN g \cap DOMAIN h /\ r[i].scope \in Scope
    BY <1>1, <1>2, <1>3, <2>5, <2>6
  <2>8. /\ w[i] \in Kids(g, w[i - 1], r[i].scope)
        /\ v[i] \in Kids(h, w[i - 1], r[i].scope)
        /\ g[w[i]].name.key = h[v[i]].name.key
    BY <1>2, <1>3, <2>5, <2>6
  <2>9. w[i] = v[i]
    BY <2>7, <2>8 DEF KeysStay
  <2> QED
    BY <2>3, <2>9
<1> QED
  BY <1>4, <1>5

(* No single call leaves a handle resolving to another node.                 *)
THEOREM HandlesKeepTheirNode == Spec => HandleNeverFlips
<1> DEFINE Stays == heap' # heap => \A r \in Route :
             Resolve(r) \in Pos /\ Resolve(r)' \in Pos => Resolve(r)' = Resolve(r)
<1>1. ASSUME TreeInv, [Next]_vars PROVE Stays
  <2>1. GoodHeap(heap) /\ GoodHeap(heap') /\ KeysStay(heap, heap')
    BY <1>1, NextKeeps DEF TreeInv
  <2>2. ASSUME NEW r \in Route, Resolve(r) \in Pos, Resolve(r)' \in Pos
        PROVE  Resolve(r)' = Resolve(r)
    <3>1. PICK w : w = Walk(r)
      OBVIOUS
    <3>2. PICK v : v = Walk(r)'
      OBVIOUS
    <3>3. Track(heap, r, w) /\ Resolve(r) = w[Len(r)]
      BY <2>1, <3>1, WalkIsATrack, ResolveFacts
    <3>4. Track(heap', r, v) /\ Resolve(r)' = v[Len(r)]
      BY <2>1, <3>2, WalkAfter
    <3>5. Typed(heap) /\ Typed(heap')
      BY <2>1 DEF GoodHeap
    <3>6. w[Len(r)] = v[Len(r)]
      BY <2>1, <2>2, <3>3, <3>4, <3>5, TracksAgree
    <3> QED
      BY <3>3, <3>4, <3>6
  <2> QED
    BY <2>2
<1> QED
  BY <1>1, TreeInvHolds, PTL DEF Spec, HandleNeverFlips

-----------------------------------------------------------------------------
(* Depth: in a tree every way from the root to a node has one length.        *)
Chain(h, k, f) ==
    /\ f[0] = Root
    /\ \A i \in 0..k : f[i] \in DOMAIN h
    /\ \A i \in 1..k : \E s \in Scope : f[i] \in Kids(h, f[i - 1], s)

LEMMA ChainsAreAsLong ==
    ASSUME NEW h, RowsOK(h), OneParent(h), NEW k \in Nat, NEW l \in Nat, l <= k,
           NEW f, Chain(h, k, f), NEW g, Chain(h, l, g), f[k] = g[l]
    PROVE  k = l
<1> SUFFICES ASSUME l < k PROVE FALSE
  OBVIOUS
<1> DEFINE D == {d \in 0..l : f[k - d] # g[l - d]}
<1>1. CASE D = {}
  <2>1. l \in 0..l /\ l - l = 0 /\ k - l \in 1..k /\ k - l - 1 \in 0..k
    OBVIOUS
  <2>2. f[k - l] = g[l - l]
    BY <1>1, <2>1
  <2>3. f[k - l] = Root
    BY <2>1, <2>2 DEF Chain
  <2>4. PICK s \in Scope : f[k - l] \in Kids(h, f[k - l - 1], s)
    BY <2>1 DEF Chain
  <2>5. f[k - l - 1] \in DOMAIN h
    BY <2>1 DEF Chain
  <2> QED
    BY <2>3, <2>4, <2>5 DEF RowsOK
<1>2. CASE D # {}
  <2>1. D \subseteq Nat
    OBVIOUS
  <2>2. PICK d \in D : \A x \in D : d <= x
    BY <1>2, <2>1, LeastExists
  <2>3. d \in 0..l /\ f[k - d] # g[l - d]
    OBVIOUS
  <2>4. d # 0
    BY <2>3
  <2>5. d - 1 \in 0..l /\ ~(d <= d - 1)
    BY <2>3, <2>4
  <2>6. f[k - (d - 1)] = g[l - (d - 1)]
    BY <2>2, <2>5
  <2>7. /\ k - (d - 1) \in 1..k /\ k - (d - 1) - 1 = k - d /\ k - d \in 0..k
        /\ l - (d - 1) \in 1..l /\ l - (d - 1) - 1 = l - d /\ l - d \in 0..l
    BY <2>3, <2>4
  <2>8. PICK s \in Scope : f[k - (d - 1)] \in Kids(h, f[k - d], s)
    BY <2>7 DEF Chain
  <2>9. PICK t \in Scope : g[l - (d - 1)] \in Kids(h, g[l - d], t)
    BY <2>7 DEF Chain
  <2>10. f[k - d] \in DOMAIN h /\ g[l - d] \in DOMAIN h
    BY <2>7 DEF Chain
  <2>11. f[k - d] = g[l - d]
    BY <2>6, <2>8, <2>9, <2>10 DEF OneParent
  <2> QED
    BY <2>3, <2>11
<1> QED
  BY <1>1, <1>2

LEMMA TrackIsAChain ==
    ASSUME NEW h, Typed(h), NEW r \in Route, NEW w, Track(h, r, w), w[Len(r)] \in Pos
    PROVE  Chain(h, Len(r), w)
<1>1. /\ \A i \in 0..Len(r) : w[i] \in DOMAIN h
      /\ \A i \in 1..Len(r) : w[i] \in Kids(h, w[i - 1], r[i].scope)
  BY NoFailureOnTheWay
<1>2. \A i \in 1..Len(r) : r[i].scope \in Scope
  BY RouteFacts
<1> QED
  BY <1>1, <1>2 DEF Chain, Track

(* No route leads to a child of a node MaxDepth steps down.                  *)
LEMMA TooDeep ==
    ASSUME NEW h, RowsOK(h), OneParent(h), NEW f, Chain(h, MaxDepth, f),
           NEW s \in Scope, NEW c \in Kids(h, f[MaxDepth], s),
           NEW k \in Nat, k <= MaxDepth, NEW w, Chain(h, k, w)
    PROVE  w[k] # c
<1> SUFFICES ASSUME w[k] = c PROVE FALSE
  OBVIOUS
<1>1. MaxDepth \in Nat
  BY TreeAssumption
<1> DEFINE n == MaxDepth + 1
           g == [i \in 0..n |-> IF i = n THEN c ELSE f[i]]
<1>2. n \in Nat /\ k <= n /\ k # n /\ MaxDepth \in 0..MaxDepth
  BY <1>1
<1>3. f[MaxDepth] \in DOMAIN h
  BY <1>2 DEF Chain
<1>4. c \in DOMAIN h
  BY <1>3 DEF RowsOK
<1>5. g[0] = Root
  BY <1>1 DEF Chain
<1>6. ASSUME NEW i \in 0..n PROVE g[i] \in DOMAIN h
  <2>1. CASE i = n
    BY <2>1, <1>4
  <2>2. CASE i # n
    <3>1. i \in 0..MaxDepth
      BY <2>2, <1>1
    <3> QED
      BY <2>2, <3>1 DEF Chain
  <2> QED
    BY <2>1, <2>2
<1>7. ASSUME NEW i \in 1..n PROVE \E t \in Scope : g[i] \in Kids(h, g[i - 1], t)
  <2>1. i \in 0..n /\ i - 1 \in 0..n /\ i - 1 # n
    BY <1>1
  <2>2. g[i - 1] = f[i - 1]
    BY <2>1
  <2>3. CASE i = n
    <3>1. i - 1 = MaxDepth /\ g[i] = c
      BY <2>1, <2>3, <1>1
    <3> HIDE DEF g
    <3> QED
      BY <2>2, <3>1
  <2>4. CASE i # n
    <3>1. i \in 1..MaxDepth /\ g[i] = f[i]
      BY <2>1, <2>4, <1>1
    <3>2. PICK t \in Scope : f[i] \in Kids(h, f[i - 1], t)
      BY <3>1 DEF Chain
    <3> HIDE DEF g
    <3> QED
      BY <2>2, <3>1, <3>2
  <2> QED
    BY <2>3, <2>4
<1>8. g[n] = c
  BY <1>2
<1> HIDE DEF g
<1>9. Chain(h, n, g)
  BY <1>5, <1>6, <1>7 DEF Chain
<1> HIDE DEF n
<1>10. n = k
  BY <1>2, <1>8, <1>9, ChainsAreAsLong
<1> QED
  BY <1>2, <1>10

(* A chain in g is one in h if the rows only grew.                           *)
LEMMA ChainsStay ==
    ASSUME NEW g, NEW h, DOMAIN g \subseteq DOMAIN h,
           \A x \in DOMAIN g, t \in Scope : Kids(g, x, t) \subseteq Kids(h, x, t),
           NEW k \in Nat, NEW f, Chain(g, k, f)
    PROVE  Chain(h, k, f)
<1>1. \A i \in 1..k : i - 1 \in 0..k
  OBVIOUS
<1> QED
  BY <1>1 DEF Chain

(* A call that answers an error has changed nothing, but for a declare at    *)
(* the depth limit, which changed what no handle can name.                   *)
THEOREM RefusalsAreHarmless == Spec => RefusedOnlyTooDeep
<1> DEFINE Harmless ==
      /\ out'.hr = "E_DEPTH"
      /\ \A r \in Route : Resolve(r) \in Pos =>
            heap'[Resolve(r)].value = heap[Resolve(r)].value
      /\ \A r \in Route : Resolve(r)' \notin DOMAIN heap' \ DOMAIN heap
<1>1. ASSUME TreeInv, [Next]_vars, heap' # heap, out'.hr # "S_OK"
      PROVE  Harmless
  <2>1. GoodHeap(heap) /\ GoodHeap(heap')
    BY <1>1, NextKeeps DEF TreeInv
  <2>2. PICK r \in Route, s \in Scope, n \in Spelled, v \in Value \cup {Unfit},
             update \in BOOLEAN : Declare(r, s, n, v, update)
    <3>1. Next /\ ~CallOK
      BY <1>1 DEF vars, CallOK
    <3> QED
      BY <2>1, <3>1, OtherCallsKeep
  <2>3. PICK p : p = ResolveField(r)
    OBVIOUS
  <2>4. /\ p \in DOMAIN heap /\ heap[p].kind = "item" /\ p = Resolve(r)
        /\ n \in Name /\ v \in Value
        /\ out' \in {Answer("S_OK"), Make(RouteWith(r, s, n))}
        /\ \/ /\ heap' \in Attached(p, s, Cell(n, "item", v))
              /\ \A q \in Kids(heap, p, s) : heap[q].name.key # n.key
           \/ \E c \in Kids(heap, p, s) : heap' = [heap EXCEPT ![c].value = v]
    <3>1. /\ ResolveField(r) \in DOMAIN heap
          /\ heap[ResolveField(r)].kind = "item"
          /\ ResolveField(r) = Resolve(r)
          /\ n \in Name /\ v \in Value
          /\ out' \in {Answer("S_OK"), Make(RouteWith(r, s, n))}
          /\ \/ /\ heap' \in Attached(ResolveField(r), s, Cell(n, "item", v))
                /\ \A q \in Kids(heap, ResolveField(r), s) : heap[q].name.key # n.key
             \/ \E c \in Kids(heap, ResolveField(r), s) :
                  heap' = [heap EXCEPT ![c].value = v]
      BY <1>1, <2>1, <2>2, DeclareFacts
    <3> QED
      BY <2>3, <3>1, Zenon
  <2>5. out'.hr = "E_DEPTH" /\ Len(r) = MaxDepth
    <3>1. Len(r) \in Nat /\ Len(r) <= MaxDepth /\ MaxDepth \in Nat /\ r \in Seq(Step)
      <4>1. PICK k \in 0..MaxDepth : r \in [1..k -> Step]
        BY DEF Route
      <4> QED
        BY <4>1, RouteFacts, TreeAssumption
    <3>2. Len(RouteWith(r, s, n)) = Len(r) + 1
      BY <2>4, <3>1 DEF RouteWith, Step
    <3>3. out' = Make(RouteWith(r, s, n))
      BY <1>1, <2>4 DEF Answer
    <3>4. Len(RouteWith(r, s, n)) > MaxDepth /\ out' = Answer("E_DEPTH")
      BY <1>1, <3>3 DEF Make, Handed
    <3> QED
      BY <3>1, <3>2, <3>4 DEF Answer
  <2>6. PICK f : f = Walk(r)
    OBVIOUS
  <2>7. Chain(heap, MaxDepth, f) /\ f[MaxDepth] = p
    <3>1. Track(heap, r, f) /\ f[Len(r)] = p
      BY <2>1, <2>4, <2>6, WalkIsATrack, ResolveFacts
    <3>2. Typed(heap) /\ p \in Pos
      BY <2>1, <2>4 DEF GoodHeap, Typed
    <3>3. Chain(heap, Len(r), f)
      BY <3>1, <3>2, TrackIsAChain
    <3> QED
      BY <2>5, <3>1, <3>3
  <2>8. ASSUME NEW h, GoodHeap(h), Chain(h, MaxDepth, f), NEW c \in Kids(h, p, s),
               NEW x \in Route, NEW w, Track(h, x, w), w[Len(x)] = c
        PROVE  FALSE
    <3>1. Typed(h) /\ RowsOK(h) /\ OneParent(h)
      BY <2>8 DEF GoodHeap
    <3>2. MaxDepth \in 0..MaxDepth
      BY TreeAssumption
    <3>3. p \in DOMAIN h
      BY <2>7, <2>8, <3>2 DEF Chain
    <3>4. c \in Pos
      BY <3>1, <3>3 DEF RowsOK, Typed
    <3>5. Chain(h, Len(x), w)
      BY <2>8, <3>1, <3>4, TrackIsAChain
    <3>6. Len(x) \in Nat /\ Len(x) <= MaxDepth
      BY RouteFacts
    <3>7. c \in Kids(h, f[MaxDepth], s)
      BY <2>7
    <3>8. w[Len(x)] # c
      BY <2>8, <3>1, <3>5, <3>6, <3>7, TooDeep
    <3> QED
      BY <2>8, <3>8
  <2>9. ASSUME NEW c \in Kids(heap, p, s), heap' = [heap EXCEPT ![c].value = v]
        PROVE  Harmless
    <3>1. DOMAIN heap' = DOMAIN heap /\ \A x \in DOMAIN heap : x # c => heap'[x] = heap[x]
      BY <2>9
    <3>2. ASSUME NEW x \in Route, Resolve(x) \in Pos
          PROVE  heap'[Resolve(x)].value = heap[Resolve(x)].value
      <4>1. Track(heap, x, Walk(x)) /\ Walk(x)[Len(x)] = Resolve(x)
        BY <2>1, WalkIsATrack, ResolveFacts
      <4>2. Resolve(x) # c
        BY <2>1, <2>7, <2>8, <4>1
      <4>3. Resolve(x) \in DOMAIN heap
        BY <2>1, <3>2, ResolveFacts, FailureFacts
      <4> QED
        BY <3>1, <4>2, <4>3
    <3> QED
      BY <2>5, <3>1, <3>2
  <2>10. ASSUME heap' \in Attached(p, s, Cell(n, "item", v)),
                \A q \in Kids(heap, p, s) : heap[q].name.key # n.key
         PROVE  Harmless
    <3>0. n \in Name /\ v \in Value /\ p \in DOMAIN heap /\ heap[p].kind = "item"
      BY <2>4
    <3>1. PICK cell \in CellType : /\ cell = Cell(n, "item", v)
                                   /\ cell.kids = [t \in Scope |-> <<>>] /\ cell.name = n
      BY <3>0, CellFacts DEF Kind
    <3>2. \A q \in Kids(heap, p, s) : heap[q].name.key # cell.name.key
      BY <2>10, <3>1
    <3>3. ASSUME NEW h \in Attached(p, s, cell)
          PROVE  /\ \E new \in Pos \ DOMAIN heap :
                      DOMAIN h = DOMAIN heap \cup {new} /\ new \in Kids(h, p, s)
                 /\ \A x \in DOMAIN heap : h[x].value = heap[x].value
                 /\ \A x \in DOMAIN heap, t \in Scope : Kids(heap, x, t) \subseteq Kids(h, x, t)
      <4>1. GoodHeap(heap) /\ cell.kids = [t \in Scope |-> <<>>]
        BY <2>1, <3>1
      <4>2. /\ GoodNext(h)
            /\ \E new \in Pos \ DOMAIN heap :
                 /\ DOMAIN h = DOMAIN heap \cup {new}
                 /\ new \in Kids(h, p, s)
            /\ \A x \in DOMAIN heap : h[x].value = heap[x].value
            /\ \A x \in DOMAIN heap, t \in Scope : Kids(heap, x, t) \subseteq Kids(h, x, t)
        BY <3>0, <3>2, <4>1, AttachedFacts
      <4> QED
        BY <4>2, Zenon
    <3>4. heap' \in Attached(p, s, cell)
      BY <2>10, <3>1
    <3>5. PICK new \in Pos \ DOMAIN heap :
            DOMAIN heap' = DOMAIN heap \cup {new} /\ new \in Kids(heap', p, s)
      BY <3>3, <3>4
    <3>6. Chain(heap', MaxDepth, f)
      <4>1. DOMAIN heap \subseteq DOMAIN heap' /\ MaxDepth \in Nat
        BY <3>5, TreeAssumption
      <4>2. \A x \in DOMAIN heap, t \in Scope : Kids(heap, x, t) \subseteq Kids(heap', x, t)
        BY <3>3, <3>4
      <4> QED
        BY <2>7, <4>1, <4>2, ChainsStay
    <3>7. ASSUME NEW x \in Route, Resolve(x) \in Pos
          PROVE  heap'[Resolve(x)].value = heap[Resolve(x)].value
      <4>1. Resolve(x) \in DOMAIN heap
        BY <2>1, <3>7, ResolveFacts, FailureFacts
      <4> QED
        BY <3>3, <3>4, <4>1
    <3>8. ASSUME NEW x \in Route, Resolve(x)' \in DOMAIN heap' \ DOMAIN heap
          PROVE  FALSE
      <4>1. Resolve(x)' = new
        BY <3>5, <3>8
      <4>2. Track(heap', x, Walk(x)') /\ Walk(x)'[Len(x)] = new
        BY <2>1, <4>1, WalkAfter
      <4> QED
        BY <2>1, <2>8, <3>5, <3>6, <4>2
    <3> QED
      BY <2>5, <3>7, <3>8
  <2> HIDE DEF Harmless
  <2> QED
    BY <2>4, <2>9, <2>10
<1>2. TreeInv /\ [Next]_vars => [heap' # heap /\ out'.hr # "S_OK" => Harmless]_vars
  BY <1>1
<1> QED
  BY <1>2, TreeInvHolds, PTL DEF Spec, RefusedOnlyTooDeep

=============================================================================
