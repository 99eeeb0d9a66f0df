-------------------------- MODULE ComCursor_proofs --------------------------
(***************************************************************************)
(* Proofs about ComCursor, for any number of cursors and any names: no     *)
(* cursor is used on a position the store has changed under, a rebuilt one *)
(* lands on its index, and a For Each that deletes misses nothing.         *)
(***************************************************************************)
EXTENDS ComCursor, SequenceTheorems, FiniteSetTheorems, TLAPS

-----------------------------------------------------------------------------
(* The collection as a sequence without repetition.                         *)
LEMMA EndFacts == End \in Nat /\ End > 0
<1>1. Cardinality(Elem) \in Nat
  BY FS_CardinalityType, ElemAssumption
<1>2. Cardinality(Elem) # 0
  BY FS_EmptySet, ElemAssumption
<1> QED
  BY <1>1, <1>2 DEF End

LEMMA RowFacts ==
    ASSUME NEW s \in Row
    PROVE  /\ s \in Seq(Elem) /\ Len(s) \in Nat /\ Len(s) \in 0..End
           /\ DOMAIN s = 1..Len(s)
           /\ \A i \in 1..Len(s) : s[i] \in Elem
           /\ \A i, j \in 1..Len(s) : s[i] = s[j] => i = j
           /\ s # NoRow /\ s # NoStore
<1>1. PICK n \in 0..End : s \in [1..n -> Elem] /\ IsInjective(s)
  BY DEF Row
<1>2. s \in Seq(Elem)
  BY <1>1, EndFacts
<1>3. n \in Nat /\ Len(s) = n /\ DOMAIN s = 1..n
  BY <1>1, <1>2, EndFacts
<1>4. \A i, j \in 1..n : s[i] = s[j] => i = j
  BY <1>1, <1>3 DEF IsInjective
<1>5. s # NoRow /\ s # NoStore
  <2>1. ASSUME s = NoRow \/ s = NoStore PROVE FALSE
    <3>1. Len(s) = 1 /\ s[1] \in {"no owner", "no store"}
      <4>1. Len(NoRow) = 1 /\ NoRow[1] = "no owner" /\ Len(NoStore) = 1 /\ NoStore[1] = "no store"
        BY DEF NoRow, NoStore
      <4> QED
        BY <2>1, <4>1
    <3>2. s[1] \in Elem
      <4>1. n = 1
        BY <3>1, <1>3
      <4> QED
        BY <4>1, <1>1
    <3> QED
      BY <3>1, <3>2, ElemAssumption
  <2> QED
    BY <2>1
<1> QED
  BY <1>1, <1>2, <1>3, <1>4, <1>5

LEMMA IsARow ==
    ASSUME NEW s \in Seq(Elem), \A i, j \in 1..Len(s) : s[i] = s[j] => i = j
    PROVE  s \in Row
<1>1. PICK n \in Nat : n = Len(s)
  BY LenProperties
<1>2. s \in [1..n -> Elem] /\ DOMAIN s = 1..n
  BY <1>1, LenProperties
<1>3. IsInjective(s)
  BY <1>1, <1>2 DEF IsInjective
<1>4. s \in Injection(1..n, Elem)
  BY <1>2, <1>3 DEF Injection
<1>5. Cardinality(1..n) <= Cardinality(Elem)
  BY <1>4, FS_Injection, ElemAssumption
<1>6. Cardinality(1..n) = n
  <2>1. Cardinality(1..n) = IF 1 > n THEN 0 ELSE n - 1 + 1
    BY FS_Interval
  <2> QED
    BY <2>1
<1>7. n \in 0..End
  BY <1>1, <1>5, <1>6, EndFacts DEF End
<1> QED
  BY <1>2, <1>3, <1>7 DEF Row

LEMMA EmptyIsARow == <<>> \in Row
<1>1. PICK s : s = <<>>
  OBVIOUS
<1>2. s \in Seq(Elem) /\ Len(s) = 0
  BY <1>1, EmptySeq
<1>3. \A i, j \in 1..Len(s) : s[i] = s[j] => i = j
  BY <1>2
<1> QED
  BY <1>1, <1>2, <1>3, IsARow

LEMMA ToSetFacts ==
    ASSUME NEW s \in Seq(Elem)
    PROVE  /\ ToSet(s) = {s[i] : i \in 1..Len(s)}
           /\ ToSet(s) \subseteq Elem
           /\ \A e : e \in ToSet(s) <=> \E i \in 1..Len(s) : s[i] = e
  BY LenProperties DEF ToSet

(* Taking a sequence apart and joining two, at the indices.                 *)
Piece(s, i, n) == SubSeq(s, i, n)
Join(a, b)     == a \o b

LEMMA PieceFacts ==
    ASSUME NEW s \in Seq(Elem), NEW i \in Nat, i > 0, NEW n \in Nat,
           n <= Len(s), i <= n + 1
    PROVE  /\ Piece(s, i, n) \in Seq(Elem)
           /\ Len(Piece(s, i, n)) = n - i + 1
           /\ \A j \in 1 .. n - i + 1 : Piece(s, i, n)[j] = s[i + j - 1]
<1>1. PICK l \in Nat : l = Len(s) /\ \A j \in 1..l : s[j] \in Elem
  BY LenProperties, ElementOfSeq
<1>2. \A j \in i..n : s[j] \in Elem
  BY <1>1
<1>3. PICK q : q = SubSeq(s, i, n)
  OBVIOUS
<1>4. /\ q \in Seq(Elem)
      /\ Len(q) = IF i <= n THEN n - i + 1 ELSE 0
      /\ \A j \in 1 .. n - i + 1 : q[j] = s[i + j - 1]
  BY <1>2, <1>3, SubSeqProperties
<1>5. Len(q) = n - i + 1
  BY <1>4
<1> QED
  BY <1>3, <1>4, <1>5 DEF Piece

LEMMA FrontFacts ==
    ASSUME NEW s \in Seq(Elem), NEW m \in Nat, m <= Len(s)
    PROVE  /\ Piece(s, 1, m) \in Seq(Elem)
           /\ Len(Piece(s, 1, m)) = m
           /\ \A j \in 1..m : Piece(s, 1, m)[j] = s[j]
<1>1. /\ Piece(s, 1, m) \in Seq(Elem)
      /\ Len(Piece(s, 1, m)) = m - 1 + 1
      /\ \A j \in 1 .. m - 1 + 1 : Piece(s, 1, m)[j] = s[1 + j - 1]
  BY PieceFacts
<1> QED
  BY <1>1

LEMMA RestFacts ==
    ASSUME NEW s \in Seq(Elem), NEW i \in Nat, i <= Len(s)
    PROVE  /\ Piece(s, i + 1, Len(s)) \in Seq(Elem)
           /\ Len(Piece(s, i + 1, Len(s))) = Len(s) - i
           /\ \A j \in 1 .. Len(s) - i : Piece(s, i + 1, Len(s))[j] = s[i + j]
<1>1. PICK n \in Nat : n = Len(s) /\ \A j \in 1..n : s[j] \in Elem
  BY LenProperties, ElementOfSeq
<1>2. \A j \in i + 1 .. n : s[j] \in Elem
  BY <1>1
<1>3. PICK q : q = SubSeq(s, i + 1, n)
  OBVIOUS
<1>4. /\ q \in Seq(Elem)
      /\ Len(q) = IF i + 1 <= n THEN n - (i + 1) + 1 ELSE 0
      /\ \A j \in 1 .. n - (i + 1) + 1 : q[j] = s[i + 1 + j - 1]
  BY <1>2, <1>3, SubSeqProperties
<1>5. Len(q) = n - i
  BY <1>1, <1>4
<1>6. ASSUME NEW j \in 1 .. n - i PROVE q[j] = s[i + j]
  <2>1. j \in 1 .. n - (i + 1) + 1 /\ i + 1 + j - 1 = i + j
    BY <1>1
  <2> QED
    BY <2>1, <1>4
<1> QED
  BY <1>1, <1>3, <1>4, <1>5, <1>6 DEF Piece

LEMMA JoinFacts ==
    ASSUME NEW a \in Seq(Elem), NEW b \in Seq(Elem)
    PROVE  /\ Join(a, b) \in Seq(Elem)
           /\ Len(Join(a, b)) = Len(a) + Len(b)
           /\ \A j \in 1..Len(a) : Join(a, b)[j] = a[j]
           /\ \A j \in 1..Len(b) : Join(a, b)[Len(a) + j] = b[j]
<1>1. PICK r : r = a \o b
  OBVIOUS
<1>2. PICK l \in Nat, m \in Nat : l = Len(a) /\ m = Len(b)
  BY LenProperties
<1>3. /\ r \in Seq(Elem) /\ Len(r) = l + m
      /\ \A j \in 1 .. l + m : r[j] = IF j <= l THEN a[j] ELSE b[j - l]
  BY <1>1, <1>2, ConcatProperties
<1>4. \A j \in 1..l : r[j] = a[j]
  BY <1>3
<1>5. ASSUME NEW j \in 1..m PROVE r[l + j] = b[j]
  <2>1. l + j \in 1 .. l + m /\ ~(l + j <= l) /\ (l + j) - l = j
    OBVIOUS
  <2> QED
    BY <2>1, <1>3
<1> QED
  BY <1>1, <1>2, <1>3, <1>4, <1>5 DEF Join

LEMMA RemoveAtFacts ==
    ASSUME NEW s \in Row, NEW i \in 1..Len(s)
    PROVE  /\ RemoveAt(s, i) \in Row
           /\ ToSet(RemoveAt(s, i)) \subseteq ToSet(s)
<1>1. PICK n \in Nat : n = Len(s)
  BY RowFacts
<1>2. /\ s \in Seq(Elem) /\ i \in 1..n /\ i \in Nat
      /\ \A j, k \in 1..n : s[j] = s[k] => j = k
  BY <1>1, RowFacts
<1>3. PICK a \in Seq(Elem) : /\ a = Piece(s, 1, i - 1) /\ Len(a) = i - 1
                             /\ \A j \in 1 .. i - 1 : a[j] = s[j]
  <2>1. i - 1 \in Nat /\ i - 1 <= Len(s)
    BY <1>1, <1>2
  <2> QED
    BY <2>1, <1>2, FrontFacts
<1>4. PICK b \in Seq(Elem) : /\ b = Piece(s, i + 1, n) /\ Len(b) = n - i
                             /\ \A j \in 1 .. n - i : b[j] = s[i + j]
  <2>1. i \in Nat /\ i <= Len(s)
    BY <1>1, <1>2
  <2>2. PICK b : b = Piece(s, i + 1, Len(s))
    OBVIOUS
  <2>3. /\ b \in Seq(Elem) /\ Len(b) = Len(s) - i
        /\ \A j \in 1 .. Len(s) - i : b[j] = s[i + j]
    BY <2>1, <2>2, <1>2, RestFacts
  <2> QED
    BY <2>2, <2>3, <1>1
<1>5. PICK r \in Seq(Elem) : /\ r = RemoveAt(s, i) /\ Len(r) = n - 1
                             /\ \A j \in 1 .. i - 1 : r[j] = s[j]
                             /\ \A j \in i .. n - 1 : r[j] = s[j + 1]
  <2>1. PICK r \in Seq(Elem) : /\ r = Join(a, b) /\ Len(r) = Len(a) + Len(b)
                               /\ \A j \in 1..Len(a) : r[j] = a[j]
                               /\ \A j \in 1..Len(b) : r[Len(a) + j] = b[j]
    BY JoinFacts
  <2>2. r = RemoveAt(s, i)
    BY <2>1, <1>1, <1>3, <1>4 DEF RemoveAt, Join, Piece
  <2>3. Len(r) = n - 1 /\ \A j \in 1 .. i - 1 : r[j] = s[j]
    BY <2>1, <1>1, <1>2, <1>3, <1>4
  <2>4. ASSUME NEW j \in i .. n - 1 PROVE r[j] = s[j + 1]
    <3>1. PICK k \in 1 .. n - i : j = (i - 1) + k /\ i + k = j + 1
      <4>1. j - i + 1 \in 1 .. n - i /\ j = (i - 1) + (j - i + 1) /\ i + (j - i + 1) = j + 1
        BY <1>1, <1>2
      <4> QED
        BY <4>1
    <3>2. r[(i - 1) + k] = b[k] /\ b[k] = s[i + k]
      BY <3>1, <2>1, <1>3, <1>4
    <3> QED
      BY <3>1, <3>2
  <2> QED
    BY <2>2, <2>3, <2>4
<1>6. ASSUME NEW j \in 1..Len(r)
      PROVE  \/ j < i /\ j \in 1..n /\ r[j] = s[j]
             \/ j >= i /\ j + 1 \in 1..n /\ r[j] = s[j + 1]
  <2>1. j \in 1 .. n - 1
    BY <1>5
  <2>2. CASE j < i
    <3>1. j \in 1 .. i - 1 /\ j \in 1..n
      BY <2>1, <2>2, <1>1, <1>2
    <3> QED
      BY <2>2, <3>1, <1>5
  <2>3. CASE j >= i
    <3>1. j \in i .. n - 1 /\ j + 1 \in 1..n
      BY <2>1, <2>3, <1>1, <1>2
    <3> QED
      BY <2>3, <3>1, <1>5
  <2> QED
    BY <2>1, <2>2, <2>3, <1>2
<1>7. \A j, k \in 1..Len(r) : r[j] = r[k] => j = k
  <2> SUFFICES ASSUME NEW j \in 1..Len(r), NEW k \in 1..Len(r), r[j] = r[k]
               PROVE  j = k
    OBVIOUS
  <2>1. j \in Nat /\ k \in Nat
    BY <1>1, <1>5
  <2>2. CASE j < i /\ k < i
    BY <2>1, <2>2, <1>2, <1>6
  <2>3. CASE j >= i /\ k >= i
    <3>1. j + 1 = k + 1
      BY <2>1, <2>3, <1>2, <1>6
    <3> QED
      BY <2>1, <3>1
  <2>4. CASE j < i /\ k >= i
    <3>1. j = k + 1
      BY <2>1, <2>4, <1>2, <1>6
    <3> QED
      BY <2>1, <2>4, <3>1, <1>2
  <2>5. CASE j >= i /\ k < i
    <3>1. j + 1 = k
      BY <2>1, <2>5, <1>2, <1>6
    <3> QED
      BY <2>1, <2>5, <3>1, <1>2
  <2> QED
    BY <2>1, <2>2, <2>3, <2>4, <2>5, <1>2
<1>8. ToSet(r) \subseteq ToSet(s)
  BY <1>1, <1>2, <1>6, ToSetFacts
<1> QED
  BY <1>5, <1>7, <1>8, IsARow

LEMMA InsertAtFacts ==
    ASSUME NEW s \in Row, NEW i \in 1 .. Len(s) + 1, NEW e \in Elem \ ToSet(s)
    PROVE  InsertAt(s, i, e) \in Row
<1>1. PICK n \in Nat : n = Len(s)
  BY RowFacts
<1>2. /\ s \in Seq(Elem) /\ i \in 1 .. n + 1 /\ i \in Nat
      /\ \A j \in 1..n : s[j] # e
      /\ \A j, k \in 1..n : s[j] = s[k] => j = k
  BY <1>1, RowFacts, ToSetFacts
<1>3. PICK a \in Seq(Elem) : /\ a = Piece(s, 1, i - 1) /\ Len(a) = i - 1
                             /\ \A j \in 1 .. i - 1 : a[j] = s[j]
  <2>1. i - 1 \in Nat /\ i - 1 <= Len(s)
    BY <1>1, <1>2
  <2> QED
    BY <2>1, <1>2, FrontFacts
<1>4. PICK b \in Seq(Elem) : /\ b = Piece(s, i, n) /\ Len(b) = n - i + 1
                             /\ \A j \in 1 .. n - i + 1 : b[j] = s[i + j - 1]
  <2>1. s \in Seq(Elem) /\ i \in Nat /\ i > 0 /\ n \in Nat /\ n <= Len(s) /\ i <= n + 1
    BY <1>1, <1>2
  <2>2. /\ Piece(s, i, n) \in Seq(Elem)
        /\ Len(Piece(s, i, n)) = n - i + 1
        /\ \A j \in 1 .. n - i + 1 : Piece(s, i, n)[j] = s[i + j - 1]
    BY <2>1, PieceFacts
  <2> QED
    BY <2>2
<1>5. PICK m \in Seq(Elem) : m = <<e>> /\ Len(m) = 1 /\ m[1] = e
  <2>1. <<e>> \in Seq(Elem) /\ Len(<<e>>) = 1 /\ <<e>>[1] = e
    OBVIOUS
  <2> QED
    BY <2>1
<1>6. PICK p \in Seq(Elem) : /\ p = Join(a, m) /\ Len(p) = i
                             /\ \A j \in 1 .. i - 1 : p[j] = s[j]
                             /\ p[i] = e
  <2>1. PICK p \in Seq(Elem) : /\ p = Join(a, m) /\ Len(p) = Len(a) + Len(m)
                               /\ \A j \in 1..Len(a) : p[j] = a[j]
                               /\ \A j \in 1..Len(m) : p[Len(a) + j] = m[j]
    BY JoinFacts
  <2>2. Len(p) = i /\ \A j \in 1 .. i - 1 : p[j] = s[j]
    <3>1. Len(p) = (i - 1) + 1
      BY <2>1, <1>3, <1>5
    <3>2. \A j \in 1 .. i - 1 : p[j] = a[j]
      BY <2>1, <1>3
    <3> QED
      BY <3>1, <3>2, <1>2, <1>3
  <2>3. p[(i - 1) + 1] = e /\ (i - 1) + 1 = i
    <3>1. 1 \in 1..Len(m) /\ m[1] = e
      BY <1>5
    <3>2. p[Len(a) + 1] = e
      BY <3>1, <2>1
    <3>3. (i - 1) + 1 = i
      OBVIOUS
    <3> QED
      BY <3>2, <3>3, <1>3
  <2> QED
    BY <2>1, <2>2, <2>3
<1>7. PICK r \in Seq(Elem) : /\ r = InsertAt(s, i, e) /\ Len(r) = n + 1
                             /\ \A j \in 1 .. i - 1 : r[j] = s[j]
                             /\ r[i] = e
                             /\ \A j \in i + 1 .. n + 1 : r[j] = s[j - 1]
  <2>1. PICK r \in Seq(Elem) : /\ r = Join(p, b) /\ Len(r) = Len(p) + Len(b)
                               /\ \A j \in 1..Len(p) : r[j] = p[j]
                               /\ \A j \in 1..Len(b) : r[Len(p) + j] = b[j]
    BY JoinFacts
  <2>2. r = InsertAt(s, i, e)
    BY <2>1, <1>1, <1>3, <1>4, <1>5, <1>6 DEF InsertAt, Join, Piece
  <2>3. Len(r) = n + 1 /\ r[i] = e /\ \A j \in 1 .. i - 1 : r[j] = s[j]
    BY <2>1, <1>1, <1>2, <1>4, <1>6
  <2>4. ASSUME NEW j \in i + 1 .. n + 1 PROVE r[j] = s[j - 1]
    <3>1. PICK k \in 1 .. n - i + 1 : j = i + k /\ i + k - 1 = j - 1
      <4>1. j - i \in 1 .. n - i + 1 /\ j = i + (j - i) /\ i + (j - i) - 1 = j - 1
        BY <1>1, <1>2
      <4> QED
        BY <4>1
    <3>2. r[i + k] = b[k] /\ b[k] = s[i + k - 1]
      BY <3>1, <2>1, <1>4, <1>6
    <3> QED
      BY <3>1, <3>2
  <2> QED
    BY <2>2, <2>3, <2>4
<1>8. ASSUME NEW j \in 1..Len(r)
      PROVE  \/ j < i /\ j \in 1..n /\ r[j] = s[j]
             \/ j = i /\ r[j] = e
             \/ j > i /\ j - 1 \in 1..n /\ r[j] = s[j - 1]
  <2>1. j \in 1 .. n + 1
    BY <1>7
  <2>2. CASE j < i
    <3>1. j \in 1 .. i - 1 /\ j \in 1..n
      BY <2>1, <2>2, <1>1, <1>2
    <3> QED
      BY <2>2, <3>1, <1>7
  <2>3. CASE j = i
    BY <2>3, <1>7
  <2>4. CASE j > i
    <3>1. j \in i + 1 .. n + 1 /\ j - 1 \in 1..n
      BY <2>1, <2>4, <1>1, <1>2
    <3> QED
      BY <2>4, <3>1, <1>7
  <2> QED
    BY <2>1, <2>2, <2>3, <2>4, <1>2
<1>9. \A j, k \in 1..Len(r) : r[j] = r[k] => j = k
  <2> SUFFICES ASSUME NEW j \in 1..Len(r), NEW k \in 1..Len(r), r[j] = r[k]
               PROVE  j = k
    OBVIOUS
  <2>1. j \in Nat /\ k \in Nat
    BY <1>1, <1>7
  <2>2. ASSUME r[j] = e, r[k] = e PROVE j = k
    BY <2>2, <1>2, <1>8
  <2>3. CASE j < i /\ k < i
    BY <2>1, <2>3, <1>2, <1>8
  <2>4. CASE j > i /\ k > i
    <3>1. j - 1 = k - 1
      BY <2>1, <2>4, <1>2, <1>8
    <3> QED
      BY <2>1, <3>1
  <2>5. CASE j < i /\ k > i
    <3>1. j = k - 1
      BY <2>1, <2>5, <1>2, <1>8
    <3> QED
      BY <2>1, <2>5, <3>1, <1>2
  <2>6. CASE j > i /\ k < i
    <3>1. j - 1 = k
      BY <2>1, <2>6, <1>2, <1>8
    <3> QED
      BY <2>1, <2>6, <3>1, <1>2
  <2>7. CASE j = i \/ k = i
    <3>1. r[j] = e /\ r[k] = e
      BY <2>7, <1>7
    <3> QED
      BY <3>1, <2>2
  <2> QED
    BY <2>1, <2>3, <2>4, <2>5, <2>6, <2>7, <1>2
<1> QED
  BY <1>7, <1>9, IsARow

LEMMA RenameFacts ==
    ASSUME NEW s \in Row, NEW i \in 1..Len(s), NEW e \in Elem \ ToSet(s)
    PROVE  [s EXCEPT ![i] = e] \in Row
<1>1. /\ s \in Seq(Elem)
      /\ \A j \in 1..Len(s) : s[j] # e
      /\ \A j, k \in 1..Len(s) : s[j] = s[k] => j = k
  BY RowFacts, ToSetFacts
<1>2. PICK r : r = [s EXCEPT ![i] = e]
  OBVIOUS
<1>3. /\ r \in Seq(Elem) /\ Len(r) = Len(s)
      /\ \A j \in 1..Len(s) : r[j] = IF j = i THEN e ELSE s[j]
  BY <1>1, <1>2, ExceptSeq
<1>4. \A j, k \in 1..Len(r) : r[j] = r[k] => j = k
  BY <1>1, <1>3
<1> QED
  BY <1>2, <1>3, <1>4, IsARow

LEMMA RemoveFirstFacts ==
    ASSUME NEW s \in Row, NEW e \in ToSet(s)
    PROVE  /\ RemoveFirst(s, e) \in Row
           /\ ToSet(RemoveFirst(s, e)) \subseteq ToSet(s)
<1>1. PICK i \in 1..Len(s) : s[i] = e
  BY RowFacts, ToSetFacts
<1>2. {j \in 1..Len(s) : s[j] = e} = {i}
  BY <1>1, RowFacts
<1>3. Min({i}) = i
  <2>1. i \in Nat
    OBVIOUS
  <2> QED
    BY <2>1 DEF Min
<1>4. SelectInSeq(s, LAMBDA v : v = e) = i
  BY <1>2, <1>3 DEF SelectInSeq
<1>5. RemoveFirst(s, e) = RemoveAt(s, i)
  BY <1>1, <1>4 DEF RemoveFirst
<1> QED
  BY <1>5, RemoveAtFacts

-----------------------------------------------------------------------------
(* The cursor objects.                                                      *)
CursType == [at : -2..End, index : 0..End - 1, behind : BOOLEAN, dangling : BOOLEAN]

GoodCursor(k) ==
    /\ k \in CursType
    /\ k.at < 0 => k \in {Closed, Orphan}
    /\ k.dangling => k.behind

(* What TypeOK and DanglingIsNoticed say, one part for each variable.       *)
RowInv == row \in Row \cup {NoRow, NoStore}

CursInv ==
    /\ curs \in [Cursor -> CursType]
    /\ \A c \in Cursor : GoodCursor(curs[c])
    /\ row = NoStore => \A c \in Cursor : curs[c].at < 0

EachType == [on : BOOLEAN, names : Row, next : 0..End, past : SUBSET Elem]
EachInv == each \in EachType /\ each.next <= Len(each.names) /\ ForEachMayDelete

CursorInv == RowInv /\ CursInv /\ EachInv

LEMMA CursorInvIs ==
    CursorInv <=> TypeOK /\ DanglingIsNoticed /\ ForEachMayDelete
<1>1. RowInv /\ CursInv <=>
        /\ row \in Row \cup {NoRow, NoStore}
        /\ curs \in [Cursor -> CursType]
        /\ \A c \in Cursor \ Open : curs[c] \in {Closed, Orphan}
        /\ row = NoStore => Open = {}
        /\ DanglingIsNoticed
  <2> SUFFICES ASSUME curs \in [Cursor -> CursType]
      PROVE  CursInv <=>
        /\ \A c \in Cursor \ Open : curs[c] \in {Closed, Orphan}
        /\ row = NoStore => Open = {}
        /\ DanglingIsNoticed
    BY DEF RowInv, CursInv
  <2>1. \A c \in Cursor : curs[c] \in CursType /\ curs[c].at \in Int
    BY EndFacts DEF CursType
  <2>2. \A c \in Cursor : c \in Open <=> ~(curs[c].at < 0)
    BY <2>1 DEF Open
  <2> QED
    BY <2>1, <2>2 DEF CursInv, GoodCursor, DanglingIsNoticed, Open
<1>2. EachInv <=> /\ each \in [on : BOOLEAN, names : Row, next : 0..End, past : SUBSET Elem]
                  /\ each.next <= Len(each.names)
                  /\ ForEachMayDelete
  BY DEF EachInv, EachType
<1> QED
  BY <1>1, <1>2 DEF CursorInv, TypeOK, CursType

LEMMA OwnedFacts ==
    ASSUME RowInv, Owned
    PROVE  /\ row \in Row /\ Count \in Nat /\ Count <= End /\ Count = Len(row)
           /\ End \in Nat /\ End > 0 /\ row # NoRow /\ row # NoStore
BY EndFacts, RowFacts DEF RowInv, Owned, Count

LEMMA ClosedIsGood == GoodCursor(Closed) /\ GoodCursor(Orphan)
<1>1. Closed.at = -1 /\ ~Closed.dangling /\ Closed \in CursType
  BY EndFacts DEF Closed, CursType
<1>2. Orphan.at = -2 /\ Orphan.behind /\ Orphan \in CursType
  BY EndFacts DEF Orphan, CursType
<1> QED
  BY <1>1, <1>2 DEF GoodCursor

(* Where a kernel cursor can be put.                                        *)
LEMMA Positions ==
    ASSUME RowInv, Owned, NEW at \in 0..End
    PROVE  /\ First \in 0..End
           /\ Restored(at) \in 0..End
           /\ Stepped(at) \in 0..End
           /\ \A i \in 0..End : IndexFound(at, i) \in 0..End
           /\ \A e \in Elem : NameFound(at, e) \in 0..End
<1>1. Count \in Nat /\ Count <= End /\ End \in Nat /\ End > 0 /\ row \in Row
  BY OwnedFacts
<1>2. First \in 0..End /\ Restored(at) \in 0..End /\ Stepped(at) \in 0..End
  BY <1>1 DEF First, Restored, Stepped, CursAtEnd
<1>3. \A i \in 0..End : IndexFound(at, i) \in 0..End
  BY <1>1, <1>2 DEF IndexFound
<1>4. ASSUME NEW e \in ToSet(row) PROVE IndexOfName(e) \in 0..End
  <2>1. PICK i \in 1..Len(row) : row[i] = e
    BY <1>1, RowFacts, ToSetFacts
  <2>2. i - 1 \in 0 .. Count - 1 /\ row[(i - 1) + 1] = e
    BY <2>1, <1>1 DEF Count
  <2>3. IndexOfName(e) \in 0 .. Count - 1
    BY <2>2 DEF IndexOfName
  <2> QED
    BY <2>3, <1>1
<1>5. \A e \in Elem : NameFound(at, e) \in 0..End
  BY <1>2, <1>4 DEF NameFound
<1> QED
  BY <1>2, <1>3, <1>5

(* A cursor that is put on a place is good, and so is one that is bound.    *)
LEMMA PlacedIsGood ==
    ASSUME RowInv, Owned, NEW k, GoodCursor(k), NEW at \in 0..End
    PROVE  /\ GoodCursor(At(k, at)) /\ At(k, at).at >= 0
           /\ GoodCursor([k EXCEPT !.at = at]) /\ [k EXCEPT !.at = at].at >= 0
           /\ GoodCursor([k EXCEPT !.at = First, !.index = 0])
           /\ [k EXCEPT !.at = First, !.index = 0].at >= 0
<1>1. /\ Count \in Nat /\ Count <= End /\ End \in Nat /\ End > 0
      /\ k \in CursType /\ (k.dangling => k.behind)
  BY OwnedFacts DEF GoodCursor
<1>2. ASSUME NEW i \in 0..End - 1, NEW a \in 0..End
      PROVE  GoodCursor([k EXCEPT !.at = a, !.index = i])
  <2>1. PICK r : r = [k EXCEPT !.at = a, !.index = i]
    OBVIOUS
  <2>4. r = [at |-> a, index |-> i, behind |-> k.behind, dangling |-> k.dangling]
    BY <2>1, <1>1 DEF CursType
  <2>5. a \in -2..End /\ k.behind \in BOOLEAN /\ k.dangling \in BOOLEAN
    BY <1>1 DEF CursType
  <2>6. r \in CursType
    BY <2>4, <2>5 DEF CursType
  <2>2. /\ r \in CursType /\ r.at = a
        /\ r.dangling = k.dangling /\ r.behind = k.behind
    BY <2>4, <2>6
  <2> QED
    BY <2>1, <2>2, <1>1, <1>2 DEF GoodCursor
<1>3. PICK i \in 0..End - 1 : i = IF CursAtEnd(at) THEN k.index ELSE at
  BY <1>1 DEF CursAtEnd, CursType
<1>4. At(k, at) = [k EXCEPT !.at = at, !.index = i]
  BY <1>1, <1>3 DEF At, CursType
<1>5. [k EXCEPT !.at = at] = [k EXCEPT !.at = at, !.index = k.index] /\ k.index \in 0..End - 1
  BY <1>1 DEF CursType
<1>6. First \in 0..End /\ 0 \in 0..End - 1
  BY <1>1 DEF First
<1>7. \A j, a : [k EXCEPT !.at = a, !.index = j].at = a
  BY <1>1 DEF CursType
<1>8. First >= 0 /\ at >= 0
  BY DEF First
<1>9. GoodCursor(At(k, at)) /\ At(k, at).at >= 0
  BY <1>2, <1>3, <1>4, <1>7, <1>8
<1>10. GoodCursor([k EXCEPT !.at = at]) /\ [k EXCEPT !.at = at].at >= 0
  <2>1. PICK j \in 0..End - 1 : [k EXCEPT !.at = at] = [k EXCEPT !.at = at, !.index = j]
    BY <1>5
  <2> QED
    BY <2>1, <1>2, <1>7, <1>8
<1>11. /\ GoodCursor([k EXCEPT !.at = First, !.index = 0])
       /\ [k EXCEPT !.at = First, !.index = 0].at >= 0
  BY <1>2, <1>6, <1>7, <1>8
<1> QED
  BY <1>9, <1>10, <1>11

LEMMA BoundIsGood ==
    ASSUME RowInv, Owned, NEW k, GoodCursor(k), k.at >= 0
    PROVE  /\ GoodCursor(Bound(k)) /\ Bound(k).at \in 0..End
           /\ ~Bound(k).dangling /\ ~Bound(k).behind /\ Bound(k).index = k.index
<1>1. /\ Count \in Nat /\ Count <= End /\ End \in Nat /\ End > 0
      /\ k \in CursType /\ (k.dangling => k.behind)
      /\ k.at \in 0..End /\ k.index \in 0..End
  BY OwnedFacts DEF GoodCursor, CursType
<1>2. CASE ~k.behind
  <2>1. Bound(k) = k
    BY <1>2 DEF Bound
  <2> QED
    BY <2>1, <1>1, <1>2
<1>3. CASE k.behind
  <2>1. PICK a \in 0..End : a = IF k.index # 0 THEN IndexFound(First, k.index) ELSE First
    BY <1>1, Positions DEF First
  <2>2. PICK r : r = [k EXCEPT !.at = a, !.behind = FALSE, !.dangling = FALSE]
    OBVIOUS
  <2>3. Bound(k) = r
    BY <1>3, <2>1, <2>2 DEF Bound
  <2>5. r = [at |-> a, index |-> k.index, behind |-> FALSE, dangling |-> FALSE]
    BY <2>2, <1>1 DEF CursType
  <2>6. a \in -2..End /\ k.index \in 0..End - 1
    BY <1>1 DEF CursType
  <2>7. r \in CursType
    BY <2>5, <2>6 DEF CursType
  <2>4. /\ r \in CursType /\ r.at = a /\ r.index = k.index
        /\ r.dangling = FALSE /\ r.behind = FALSE
    BY <2>5, <2>7
  <2> QED
    BY <2>1, <2>3, <2>4 DEF GoodCursor
<1> QED
  BY <1>2, <1>3

-----------------------------------------------------------------------------
(* What a call does to the cursors.                                         *)

(* It moves one, ...                                                        *)
LEMMA MovedKeeps ==
    ASSUME RowInv, Owned, CursInv, NEW c \in Cursor, NEW x, GoodCursor(x),
           curs' = [curs EXCEPT ![c] = x], row' = row
    PROVE  CursInv'
<1>1. row # NoStore
  BY OwnedFacts
<1>2. x \in CursType
  BY DEF GoodCursor
<1>3. PICK q : q = curs'
  OBVIOUS
<1>4. q \in [Cursor -> CursType] /\ \A d \in Cursor : q[d] = IF d = c THEN x ELSE curs[d]
  BY <1>2, <1>3 DEF CursInv
<1>5. \A d \in Cursor : GoodCursor(q[d])
  BY <1>4 DEF CursInv
<1> QED
  BY <1>1, <1>3, <1>4, <1>5 DEF CursInv

(* ... or puts every cursor behind, and then perhaps moves one, ...         *)
LEMMA BehindFacts ==
    ASSUME CursInv
    PROVE  /\ Behind \in [Cursor -> CursType]
           /\ \A c \in Cursor : GoodCursor(Behind[c])
           /\ \A c \in Cursor : Behind[c].at = curs[c].at /\ Behind[c].index = curs[c].index
           /\ \A c \in Open : Behind[c].behind
<1>1. ASSUME NEW c \in Cursor
      PROVE  /\ Behind[c] \in CursType /\ GoodCursor(Behind[c])
             /\ Behind[c].at = curs[c].at /\ Behind[c].index = curs[c].index
             /\ c \in Open => Behind[c].behind
  <2>1. PICK k : k = curs[c] /\ k \in CursType /\ GoodCursor(k)
    BY DEF CursInv
  <2>2. CASE c \in Open
    <3>1. PICK r : r = [k EXCEPT !.behind = TRUE, !.dangling = TRUE]
      OBVIOUS
    <3>2. r = [at |-> k.at, index |-> k.index, behind |-> TRUE, dangling |-> TRUE]
      BY <2>1, <3>1 DEF CursType
    <3>3. r \in CursType /\ r.at = k.at /\ r.index = k.index /\ r.behind
      BY <2>1, <3>2 DEF CursType
    <3>4. k.at >= 0 /\ k.at \in Int
      BY <2>1, <2>2, EndFacts DEF Open, CursType
    <3>5. GoodCursor(r)
      BY <3>3, <3>4 DEF GoodCursor
    <3>6. Behind[c] = r
      BY <2>1, <2>2, <3>1 DEF Behind
    <3> QED
      BY <2>1, <3>3, <3>5, <3>6
  <2>3. CASE c \notin Open
    <3>1. Behind[c] = k
      BY <2>1, <2>3 DEF Behind
    <3> QED
      BY <2>1, <2>3, <3>1
  <2> QED
    BY <2>2, <2>3
<1>2. Behind \in [Cursor -> CursType]
  <2>1. Behind = [c \in Cursor |-> Behind[c]]
    BY DEF Behind
  <2> QED
    BY <1>1, <2>1
<1>3. \A c \in Open : c \in Cursor
  BY DEF Open
<1> QED
  BY <1>1, <1>2, <1>3

LEMMA BehindKeeps ==
    ASSUME CursInv, curs' = Behind, row' \in Row \cup {NoRow}
    PROVE  CursInv'
<1>1. row' # NoStore
  <2>1. NoRow # NoStore
    BY DEF NoRow, NoStore
  <2> QED
    BY <2>1, RowFacts
<1> QED
  BY <1>1, BehindFacts DEF CursInv

LEMMA DeletedKeeps ==
    ASSUME CursInv, NEW c \in Cursor, NEW x, GoodCursor(x),
           curs' = [Behind EXCEPT ![c] = x], row' \in Row
    PROVE  CursInv'
<1>1. row' # NoStore
  BY RowFacts
<1>2. PICK b : b = Behind
  OBVIOUS
<1>3. b \in [Cursor -> CursType] /\ \A d \in Cursor : GoodCursor(b[d])
  BY <1>2, BehindFacts
<1>4. x \in CursType
  BY DEF GoodCursor
<1>5. PICK q : q = curs'
  OBVIOUS
<1>6. q \in [Cursor -> CursType] /\ \A d \in Cursor : q[d] = IF d = c THEN x ELSE b[d]
  BY <1>2, <1>3, <1>4, <1>5
<1>7. \A d \in Cursor : GoodCursor(q[d])
  BY <1>3, <1>6
<1> QED
  BY <1>1, <1>5, <1>6, <1>7 DEF CursInv

(* ... or leaves none with a facade store to go on.                         *)
LEMMA OrphanedKeeps ==
    ASSUME curs' = Orphaned
    PROVE  CursInv'
<1>1. ASSUME NEW c \in Cursor
      PROVE  GoodCursor(Orphaned[c]) /\ Orphaned[c] \in CursType /\ Orphaned[c].at < 0
  <2>1. Orphaned[c] \in {Closed, Orphan}
    BY DEF Orphaned
  <2>2. Closed.at < 0 /\ Orphan.at < 0
    BY DEF Closed, Orphan
  <2> QED
    BY <2>1, <2>2, ClosedIsGood DEF GoodCursor
<1>2. Orphaned = [c \in Cursor |-> Orphaned[c]]
  BY DEF Orphaned
<1> QED
  BY <1>1, <1>2 DEF CursInv

-----------------------------------------------------------------------------
(* A For Each.                                                              *)
LEMMA NoEnumKeeps ==
    ASSUME each' = NoEnum
    PROVE  EachInv'
<1>1. NoEnum \in EachType /\ NoEnum.next <= Len(NoEnum.names) /\ ~NoEnum.on
  BY EmptyIsARow, EndFacts DEF EachType, NoEnum
<1> QED
  BY <1>1 DEF EachInv, ForEachMayDelete, EveryChildIsCollected, EachType

(* The names from one index to another.                                     *)
LEMMA PieceSet ==
    ASSUME NEW s \in Row, NEW i \in Nat, NEW n \in Nat, i <= n, n <= Len(s)
    PROVE  ToSet(SubSeq(s, i + 1, n)) = {s[j] : j \in i + 1 .. n}
<1>1. PICK l \in Nat : l = Len(s) /\ \A j \in 1..l : s[j] \in Elem
  BY RowFacts
<1>2. \A j \in i + 1 .. n : s[j] \in Elem
  BY <1>1
<1>3. PICK q : q = SubSeq(s, i + 1, n)
  OBVIOUS
<1>4. /\ q \in Seq(Elem)
      /\ Len(q) = IF i + 1 <= n THEN n - (i + 1) + 1 ELSE 0
      /\ \A j \in 1 .. n - (i + 1) + 1 : q[j] = s[i + 1 + j - 1]
  BY <1>2, <1>3, SubSeqProperties
<1>5. Len(q) = n - i
  BY <1>1, <1>4
<1>6. ASSUME NEW j \in 1 .. n - i PROVE q[j] = s[i + j] /\ i + j \in i + 1 .. n
  <2>1. j \in 1 .. n - (i + 1) + 1 /\ i + 1 + j - 1 = i + j /\ i + j \in i + 1 .. n
    BY <1>1
  <2> QED
    BY <2>1, <1>4
<1>7. ASSUME NEW j \in i + 1 .. n PROVE \E k \in 1 .. n - i : q[k] = s[j]
  <2>1. j - i \in 1 .. n - i /\ i + (j - i) = j
    BY <1>1
  <2> QED
    BY <2>1, <1>6
<1>8. \A e : e \in ToSet(q) <=> \E k \in 1 .. n - i : q[k] = e
  BY <1>4, <1>5, ToSetFacts
<1>9. ASSUME NEW e \in ToSet(q) PROVE e \in {s[j] : j \in i + 1 .. n}
  BY <1>6, <1>8
<1>10. ASSUME NEW e \in {s[j] : j \in i + 1 .. n} PROVE e \in ToSet(q)
  BY <1>7, <1>8
<1>11. ToSet(q) = {s[j] : j \in i + 1 .. n}
  BY <1>9, <1>10
<1> QED
  BY <1>3, <1>11

(* What is left of a For Each is what its names have from here on.          *)
LEMMA MissesNothingIs ==
    ASSUME each \in EachType, each.next <= Len(each.names)
    PROVE  EveryChildIsCollected <=>
             (each.on =>
                /\ Owned
                /\ \A e \in ToSet(row) :
                     e \in each.past \/ \E j \in each.next + 1 .. Len(each.names) : each.names[j] = e)
<1>1. each.names \in Row /\ each.next \in Nat /\ Len(each.names) \in Nat
  BY EndFacts, RowFacts DEF EachType
<1>2. ToSet(SubSeq(each.names, each.next + 1, Len(each.names))) =
        {each.names[j] : j \in each.next + 1 .. Len(each.names)}
  <2>1. /\ each.names \in Row /\ each.next \in Nat /\ Len(each.names) \in Nat
        /\ each.next <= Len(each.names) /\ Len(each.names) <= Len(each.names)
    BY <1>1
  <2>2. ASSUME NEW s \in Row, NEW i \in Nat, i <= Len(s), Len(s) \in Nat
        PROVE  ToSet(SubSeq(s, i + 1, Len(s))) = {s[j] : j \in i + 1 .. Len(s)}
    BY <2>2, PieceSet
  <2> QED
    BY <2>1, <2>2
<1> QED
  BY <1>2 DEF EveryChildIsCollected

LEMMA NewEnumKeeps ==
    ASSUME RowInv, Owned, each' = EnumOf(row), row' = row
    PROVE  EachInv'
<1>1. PICK e : e = EnumOf(row)
  OBVIOUS
<1>2. e = [on |-> TRUE, names |-> IF ChildMade THEN row ELSE <<>>, next |-> 0, past |-> {}]
  BY <1>1 DEF EnumOf, NoEnum
<1>3. row \in Row /\ Len(row) \in Nat /\ row \in Seq(Elem)
  BY OwnedFacts, RowFacts
<1>4. e.names \in Row /\ Len(e.names) \in Nat
  BY <1>2, <1>3, EmptyIsARow, EmptySeq
<1>5. e \in EachType /\ e.next = 0 /\ e.past = {}
  BY <1>2, <1>4, EndFacts DEF EachType
<1>6. each' = e /\ e.next <= Len(e.names)
  BY <1>1, <1>4, <1>5
<1>7. ASSUME OwnerDepth < MaxDepth PROVE EveryChildIsCollected'
  <2>1. ChildMade
    BY <1>7, DepthAssumption DEF ChildMade
  <2>2. e.names = row
    BY <2>1, <1>2
  <2>3. SubSeq(row, 0 + 1, Len(row)) = row
    <3>1. SubSeq(row, 1, Len(row)) = row
      BY <1>3, SubSeqFull
    <3> QED
      BY <3>1
  <2>4. SubSeq(e.names, e.next + 1, Len(e.names)) = row
    BY <2>2, <2>3, <1>5
  <2>5. Owned'
    BY DEF Owned
  <2> QED
    BY <2>4, <2>5, <1>6, Zenon DEF EveryChildIsCollected
<1> QED
  BY <1>5, <1>6, <1>7 DEF EachInv, EachType, ForEachMayDelete

(* Moving on in one, as far as `to', or starting it again.                  *)
LEMMA EnumMovedKeeps ==
    ASSUME EachInv, row' = row, NEW to \in 0..Len(each.names), NEW p \in SUBSET Elem,
           each' = [each EXCEPT !.next = to, !.past = p],
           each.past \subseteq p,
           \A j \in each.next + 1 .. to : each.names[j] \in p
    PROVE  EachInv'
<1>1. PICK e \in EachType : e = each /\ e.next <= Len(e.names)
  BY DEF EachInv
<1>2. /\ e.names \in Row /\ e.next \in Nat /\ Len(e.names) \in 0..End
      /\ End \in Nat
  BY <1>1, RowFacts, EndFacts DEF EachType
<1>3. PICK f : f = each'
  OBVIOUS
<1>4. f = [on |-> e.on, names |-> e.names, next |-> to, past |-> p]
  BY <1>1, <1>3 DEF EachType
<1>5. f.on = e.on /\ f.names = e.names /\ f.next = to /\ f.past = p
  BY <1>4
<1>6. f \in EachType /\ f.next <= Len(f.names) /\ e.on \in BOOLEAN
  <2>1. to \in 0..End /\ to <= Len(e.names)
    BY <1>1, <1>2
  <2> QED
    BY <2>1, <1>2, <1>4 DEF EachType
<1>7. ASSUME OwnerDepth < MaxDepth, e.on PROVE EveryChildIsCollected'
  <2>1. Owned /\ Owned' /\ EveryChildIsCollected
    BY <1>1, <1>7 DEF EachInv, ForEachMayDelete, EveryChildIsCollected, Owned
  <2>2. ASSUME NEW x \in ToSet(row)
        PROVE  x \in p \/ \E j \in to + 1 .. Len(e.names) : e.names[j] = x
    <3>1. x \in e.past \/ \E j \in e.next + 1 .. Len(e.names) : e.names[j] = x
      BY <1>1, <1>7, <2>1, MissesNothingIs
    <3>2. CASE x \in e.past
      BY <3>2, <1>1
    <3>3. ASSUME NEW j \in e.next + 1 .. Len(e.names), e.names[j] = x
          PROVE  x \in p \/ \E k \in to + 1 .. Len(e.names) : e.names[k] = x
      <4>1. j \in e.next + 1 .. to \/ j \in to + 1 .. Len(e.names)
        BY <1>1, <1>2
      <4> QED
        BY <4>1, <3>3, <1>1
    <3> QED
      BY <3>1, <3>2, <3>3
  <2>3. ToSet(SubSeq(f.names, f.next + 1, Len(f.names))) =
          {f.names[j] : j \in f.next + 1 .. Len(f.names)}
    <3>1. f.next \in Nat /\ Len(f.names) \in Nat
      BY <1>2, <1>5
    <3> QED
      BY <3>1, <1>2, <1>5, <1>6, PieceSet
  <2>4. ToSet(row) \subseteq f.past \cup ToSet(SubSeq(f.names, f.next + 1, Len(f.names)))
    BY <2>2, <2>3, <1>5
  <2> QED
    BY <2>1, <2>4, <1>3 DEF EveryChildIsCollected
<1>8. ASSUME ~e.on PROVE EveryChildIsCollected'
  BY <1>3, <1>5, <1>8 DEF EveryChildIsCollected
<1> QED
  BY <1>3, <1>6, <1>7, <1>8 DEF EachInv, ForEachMayDelete, EachType

(* The loop's own deletes take nothing away that is still to come.          *)
LEMMA EnumStays ==
    ASSUME EachInv, each' = each,
           row' = row \/ (Owned' /\ ToSet(row') \subseteq ToSet(row))
    PROVE  EachInv'
BY DEF EachInv, ForEachMayDelete, EveryChildIsCollected, EachType, Owned

-----------------------------------------------------------------------------
(* Every call keeps the invariant.                                          *)
LEMMA CursorCallKeeps ==
    ASSUME CursorInv, NEW c \in Cursor,
           \/ Make(c) \/ Look(c) \/ Advance(c) \/ Seek(c)
           \/ \E e \in Elem : GotoName(c, e)
           \/ \E i \in 0..End : GotoIndex(c, i)
           \/ DeleteRefused(c) \/ NewEnum(c)
    PROVE  CursorInv'
<1>1. RowInv /\ CursInv /\ EachInv /\ Owned
  BY DEF CursorInv, Make, Look, Advance, Seek, GotoName, GotoIndex, DeleteRefused, NewEnum
<1>2. row' = row
  BY DEF Make, Look, Advance, Seek, GotoName, GotoIndex, DeleteRefused, NewEnum
<1>3. RowInv'
  BY <1>1, <1>2 DEF RowInv
<1>4. EachInv'
  <2>1. CASE NewEnum(c)
    BY <2>1, <1>1, <1>2, NewEnumKeeps DEF NewEnum
  <2>2. CASE ~NewEnum(c)
    BY <2>2, <1>1, <1>2, EnumStays
    DEF Make, Look, Advance, Seek, GotoName, GotoIndex, DeleteRefused
  <2> QED
    BY <2>1, <2>2
<1>5. \E x : GoodCursor(x) /\ curs' = [curs EXCEPT ![c] = x]
  <2>1. CASE Make(c)
    <3>1. curs' = [curs EXCEPT ![c] = [Closed EXCEPT !.at = First]]
      BY <2>1 DEF Make
    <3>2. First \in 0..End
      BY OwnedFacts, <1>1 DEF First
    <3>3. GoodCursor(Closed)
      BY ClosedIsGood
    <3>4. GoodCursor([Closed EXCEPT !.at = First])
      BY <1>1, <3>2, <3>3, PlacedIsGood
    <3> QED
      BY <3>1, <3>4
  <2>2. CASE ~Make(c)
    <3>1. curs[c].at >= 0 /\ GoodCursor(curs[c])
      BY <2>2, <1>1 DEF CursInv, Open, Look, Advance, Seek, GotoName, GotoIndex,
                        DeleteRefused, NewEnum
    <3>2. PICK k : k = Bound(curs[c]) /\ GoodCursor(k) /\ k.at \in 0..End
      BY <3>1, <1>1, BoundIsGood
    <3>3. CASE Look(c) \/ DeleteRefused(c) \/ NewEnum(c)
      BY <3>2, <3>3 DEF Look, DeleteRefused, NewEnum
    <3>4. CASE Advance(c)
      <4>1. curs' = [curs EXCEPT ![c] = At(k, Stepped(k.at))]
        BY <3>2, <3>4 DEF Advance
      <4>2. Stepped(k.at) \in 0..End
        BY <3>2, <1>1, Positions
      <4> QED
        BY <4>1, <4>2, <3>2, <1>1, PlacedIsGood
    <3>5. CASE Seek(c)
      <4>1. curs' = [curs EXCEPT ![c] = [k EXCEPT !.at = First, !.index = 0]]
        BY <3>2, <3>5 DEF Seek
      <4> QED
        BY <4>1, <3>2, <1>1, PlacedIsGood
    <3>6. ASSUME NEW e \in Elem, GotoName(c, e)
          PROVE  \E x : GoodCursor(x) /\ curs' = [curs EXCEPT ![c] = x]
      <4>1. PICK to \in 0..End : to = NameFound(k.at, e)
        BY <3>2, <1>1, Positions
      <4>2. curs' = [curs EXCEPT ![c] = IF e \in ToSet(row) THEN At(k, to)
                                        ELSE [k EXCEPT !.at = to]]
        BY <3>2, <3>6, <4>1 DEF GotoName
      <4> QED
        BY <4>2, <3>2, <1>1, PlacedIsGood
    <3>7. ASSUME NEW i \in 0..End, GotoIndex(c, i)
          PROVE  \E x : GoodCursor(x) /\ curs' = [curs EXCEPT ![c] = x]
      <4>1. PICK to \in 0..End : to = IndexFound(k.at, i)
        BY <3>2, <1>1, Positions
      <4>2. curs' = [curs EXCEPT ![c] = IF i < Count THEN At(k, to)
                                        ELSE [k EXCEPT !.at = to]]
        BY <3>2, <3>7, <4>1 DEF GotoIndex
      <4> QED
        BY <4>2, <3>2, <1>1, PlacedIsGood
    <3> QED
      BY <2>2, <3>3, <3>4, <3>5, <3>6, <3>7
  <2> QED
    BY <2>1, <2>2
<1>6. CursInv'
  BY <1>1, <1>2, <1>5, MovedKeeps
<1> QED
  BY <1>3, <1>4, <1>6 DEF CursorInv

LEMMA DeleteKeeps ==
    ASSUME CursorInv, NEW c \in Cursor, Delete(c)
    PROVE  CursorInv'
<1>1. RowInv /\ CursInv /\ Owned /\ curs[c].at >= 0 /\ GoodCursor(curs[c])
  BY DEF CursorInv, CursInv, Delete, Open
<1>2. PICK k : k = Bound(curs[c]) /\ GoodCursor(k) /\ k.at \in 0..End
  BY <1>1, BoundIsGood
<1>3. /\ ~CursAtEnd(k.at)
      /\ row' = RemoveAt(row, k.at + 1)
      /\ curs' = [Behind EXCEPT ![c] = [k EXCEPT !.at = First, !.index = 0]]
      /\ each' = NoEnum
  BY <1>2 DEF Delete
<1>4. row' \in Row
  <2>1. k.at + 1 \in 1..Len(row) /\ row \in Row
    BY <1>1, <1>2, <1>3, OwnedFacts DEF CursAtEnd
  <2> QED
    BY <2>1, <1>3, RemoveAtFacts
<1>5. CursInv'
  BY <1>1, <1>2, <1>3, <1>4, PlacedIsGood, DeletedKeeps
<1> QED
  BY <1>3, <1>4, <1>5, NoEnumKeeps DEF CursorInv, RowInv

LEMMA ReleaseKeeps ==
    ASSUME CursorInv, NEW c \in Cursor, FinalRelease(c)
    PROVE  CursorInv'
<1>1. /\ curs' = [curs EXCEPT ![c] = Closed] /\ row' = row /\ each' = each
      /\ CursInv /\ EachInv /\ RowInv
  BY DEF FinalRelease, CursorInv
<1>2. PICK q : q = curs'
  OBVIOUS
<1>3. Closed \in CursType /\ Closed.at < 0
  BY ClosedIsGood DEF GoodCursor, Closed
<1>4. q \in [Cursor -> CursType] /\ \A d \in Cursor : q[d] = IF d = c THEN Closed ELSE curs[d]
  BY <1>1, <1>2, <1>3 DEF CursInv
<1>5. \A d \in Cursor : GoodCursor(q[d])
  BY <1>1, <1>4, ClosedIsGood DEF CursInv
<1>6. CursInv'
  BY <1>1, <1>2, <1>3, <1>4, <1>5 DEF CursInv
<1> QED
  BY <1>1, <1>6, EnumStays DEF CursorInv, RowInv

LEMMA EnumKeeps ==
    ASSUME CursorInv,
           CollEnum \/ EnumNext \/ EnumReset \/ \E n \in 1..End : EnumSkip(n)
    PROVE  CursorInv'
<1>1. RowInv /\ CursInv /\ EachInv /\ row' = row /\ curs' = curs
  BY DEF CursorInv, CollEnum, EnumNext, EnumReset, EnumSkip
<1>2. RowInv' /\ CursInv'
  BY <1>1 DEF RowInv, CursInv
<1>3. /\ each.names \in Row /\ each.next \in Nat /\ each.past \in SUBSET Elem
      /\ Len(each.names) \in Nat /\ each.next <= Len(each.names)
      /\ \A j \in 1..Len(each.names) : each.names[j] \in Elem
  BY <1>1, RowFacts, EndFacts DEF EachInv, EachType
<1>5. ASSUME CollEnum PROVE EachInv'
  BY <1>1, <1>5, NewEnumKeeps DEF CollEnum
<1>6. ASSUME EnumNext PROVE EachInv'
  <2>0. each.next + 1 \in 1..Len(each.names)
    BY <1>3, <1>6 DEF EnumNext
  <2>5. each.names[each.next + 1] \in Elem
    BY <2>0, <1>3
  <2>6. each.past \cup {each.names[each.next + 1]} \in SUBSET Elem
    BY <2>5, <1>3
  <2>7. each.next + 1 \in 0..Len(each.names)
    BY <2>0, <1>3
  <2>1. PICK to \in 0..Len(each.names), p \in SUBSET Elem :
          /\ to = each.next + 1 /\ p = each.past \cup {each.names[each.next + 1]}
    BY <2>6, <2>7
  <2>2. each' = [each EXCEPT !.next = to, !.past = p]
    BY <2>1, <1>6 DEF EnumNext
  <2>3. \A j \in each.next + 1 .. to : j = each.next + 1
    BY <2>1, <1>3
  <2> QED
    BY <2>1, <2>2, <2>3, <1>1, EnumMovedKeeps
<1>7. ASSUME EnumReset PROVE EachInv'
  <2>1. each' = [each EXCEPT !.next = 0, !.past = each.past]
    BY <1>1, <1>7 DEF EnumReset, EachInv, EachType
  <2>2. 0 \in 0..Len(each.names) /\ \A j \in each.next + 1 .. 0 : FALSE
    BY <1>3
  <2> QED
    BY <2>1, <2>2, <1>1, <1>3, EnumMovedKeeps
<1>8. ASSUME NEW n \in 1..End, EnumSkip(n) PROVE EachInv'
  <2>0. n \in Nat
    BY EndFacts
  <2>1. PICK to \in 0..Len(each.names) :
          /\ to = IF n > Len(each.names) - each.next THEN Len(each.names) ELSE each.next + n
          /\ each.next <= to
    <3>1. CASE n > Len(each.names) - each.next
      BY <3>1, <1>3
    <3>2. CASE ~(n > Len(each.names) - each.next)
      <4>1. each.next + n \in 0..Len(each.names) /\ each.next <= each.next + n
        BY <3>2, <1>3, <2>0
      <4> QED
        BY <4>1, <3>2
    <3> QED
      BY <3>1, <3>2
  <2>2. ToSet(SubSeq(each.names, each.next + 1, to)) = {each.names[j] : j \in each.next + 1 .. to}
    <3>1. PICK l \in Nat : l = Len(each.names)
      BY <1>3
    <3>2. to \in Nat /\ to <= l
      BY <2>1, <3>1
    <3>3. each.names \in Row /\ each.next \in Nat /\ to \in Nat /\ each.next <= to
          /\ to <= Len(each.names)
      BY <1>3, <2>1, <3>1, <3>2
    <3> QED
      BY <3>3, PieceSet
  <2>3. PICK p : p = each.past \cup {each.names[j] : j \in each.next + 1 .. to}
    OBVIOUS
  <2>4. each' = [each EXCEPT !.next = to, !.past = p]
    BY <2>1, <2>2, <2>3, <1>8 DEF EnumSkip
  <2>5. p \in SUBSET Elem
    <3>1. \A j \in each.next + 1 .. to : j \in 1..Len(each.names)
      BY <2>1, <1>3
    <3> QED
      BY <3>1, <2>3, <1>3
  <2> QED
    BY <2>3, <2>4, <2>5, <1>1, EnumMovedKeeps
<1>9. EachInv'
  BY <1>5, <1>6, <1>7, <1>8
<1> QED
  BY <1>2, <1>9 DEF CursorInv

LEMMA StoreChangeKeeps ==
    ASSUME CursorInv, Change \/ Close \/ CreateNew \/ \E e \in Elem : DeleteSeen(e)
    PROVE  CursorInv'
<1>1. RowInv /\ CursInv /\ EachInv
  BY DEF CursorInv
<1>2. Owned => row \in Row /\ Count = Len(row)
  BY <1>1, OwnedFacts
<1>3. CASE Change
  <2>1. row' \in Row \cup {NoRow}
    <3>1. CASE DeclareChild
      BY <3>1, <1>2, InsertAtFacts DEF DeclareChild
    <3>2. CASE DeleteChild
      BY <3>2, <1>2, RemoveAtFacts DEF DeleteChild
    <3>3. CASE RenameChild
      <4>1. row \in Row /\ Count = Len(row)
        BY <3>3, <1>2 DEF RenameChild
      <4>2. PICK i \in 1..Count, e \in Elem \ ToSet(row) : row' = [row EXCEPT ![i] = e]
        BY <3>3 DEF RenameChild
      <4>3. i \in 1..Len(row)
        BY <4>1, <4>2
      <4> QED
        BY <4>1, <4>2, <4>3, RenameFacts
    <3>4. CASE Truncate
      BY <3>4, EmptyIsARow DEF Truncate
    <3>5. CASE Write
      BY <3>5, <1>1, <1>3 DEF Write, RowInv, Change
    <3>6. CASE LoseOwner \/ FindOwner \/ OpenFile
      BY <3>6 DEF LoseOwner, FindOwner, OpenFile
    <3> QED
      BY <1>3, <3>1, <3>2, <3>3, <3>4, <3>5, <3>6 DEF Change
  <2>2. curs' = Behind /\ each' = NoEnum
    BY <1>3 DEF Change
  <2> QED
    BY <2>1, <2>2, <1>1, BehindKeeps, NoEnumKeeps DEF CursorInv, RowInv
<1>4. CASE Close \/ CreateNew
  <2>1. row' \in Row \cup {NoRow, NoStore} /\ curs' = Orphaned /\ each' = NoEnum
    BY <1>4, EmptyIsARow DEF Close, CreateNew
  <2> QED
    BY <2>1, OrphanedKeeps, NoEnumKeeps DEF CursorInv, RowInv
<1>5. ASSUME NEW e \in Elem, DeleteSeen(e) PROVE CursorInv'
  <2>1. Owned /\ e \in ToSet(row) /\ row' = RemoveFirst(row, e) /\ curs' = Behind /\ each' = each
    BY <1>5 DEF DeleteSeen
  <2>2. row' \in Row /\ ToSet(row') \subseteq ToSet(row)
    BY <2>1, <1>2, RemoveFirstFacts
  <2>3. Owned'
    BY <2>2, RowFacts DEF Owned
  <2> QED
    BY <2>1, <2>2, <2>3, <1>1, BehindKeeps, EnumStays DEF CursorInv, RowInv
<1> QED
  BY <1>3, <1>4, <1>5

LEMMA CursorStart == Init => CursorInv
<1> SUFFICES ASSUME Init PROVE CursorInv
  OBVIOUS
<1>1. row \in Row /\ curs = [c \in Cursor |-> Closed] /\ each = NoEnum
  BY DEF Init
<1>2. RowInv
  BY <1>1 DEF RowInv
<1>3. CursInv
  BY <1>1, ClosedIsGood, RowFacts DEF CursInv, GoodCursor
<1>4. EachInv
  <2>1. NoEnum \in EachType /\ NoEnum.next <= Len(NoEnum.names) /\ ~NoEnum.on
    BY EmptyIsARow, EndFacts DEF EachType, NoEnum
  <2> QED
    BY <1>1, <2>1 DEF EachInv, ForEachMayDelete, EveryChildIsCollected
<1> QED
  BY <1>2, <1>3, <1>4 DEF CursorInv

LEMMA CursorStep ==
    ASSUME CursorInv, Next
    PROVE  CursorInv'
<1>1. ASSUME NEW c \in Cursor, Unbound(c) PROVE CursorInv'
  BY <1>1 DEF Unbound, vars, CursorInv, RowInv, CursInv, EachInv, EachType, ForEachMayDelete,
       EveryChildIsCollected, Owned
<1> QED
  BY <1>1, CursorCallKeeps, DeleteKeeps, ReleaseKeeps, EnumKeeps, StoreChangeKeeps DEF Next

LEMMA CursorInvariant == Spec => []CursorInv
<1>1. CursorInv /\ [Next]_vars => CursorInv'
  <2> SUFFICES ASSUME CursorInv, [Next]_vars PROVE CursorInv'
    OBVIOUS
  <2>1. CASE UNCHANGED vars
    BY <2>1 DEF vars, CursorInv, RowInv, CursInv, EachInv, EachType, ForEachMayDelete,
       EveryChildIsCollected, Owned
  <2> QED
    BY <2>1, CursorStep
<1> QED
  BY <1>1, CursorStart, PTL DEF Spec

(* The cursors and the For Each are well typed, and a cursor whose facade
   store is gone holds no position in another.                              *)
THEOREM CursorTypes == Spec => []TypeOK
<1>1. CursorInv => TypeOK
  BY CursorInvIs
<1> QED
  BY <1>1, CursorInvariant, PTL

(* No method of a cursor uses a kernel position the store has changed under
   without rebuilding it first.                                             *)
THEOREM NoDanglingUse == Spec => []DanglingIsNoticed
<1>1. CursorInv => DanglingIsNoticed
  BY CursorInvIs
<1> QED
  BY <1>1, CursorInvariant, PTL

(* A For Each over the children of an owner above MAX_DEPTH that deletes what
   it is handed misses nothing.  At MAX_DEPTH the code collects none of them,
   and nothing is claimed.                                                  *)
THEOREM ForEachMissesNothing == Spec => []ForEachMayDelete
<1>1. CursorInv => ForEachMayDelete
  BY CursorInvIs
<1> QED
  BY <1>1, CursorInvariant, PTL

(* A cursor that stands where its index says keeps its index across any
   change that leaves the collection long enough.                           *)
THEOREM SeekKeepsTheIndex == Spec => SeekLandsAtItsIndex
<1>1. CursorInv /\ [Next]_vars =>
        [\A c \in Cursor :
            Stands(c) /\ Place(c) = curs[c].index /\ Owned' /\ curs[c].index < Count'
                /\ Change => Place(c)' = curs[c].index]_vars
  <2> SUFFICES ASSUME CursorInv, NEW c \in Cursor, Change, Stands(c), Owned',
                      curs[c].index < Count'
               PROVE  Place(c)' = curs[c].index
    OBVIOUS
  <2>1. PICK k : k = curs[c] /\ k \in CursType /\ c \in Open
    BY DEF CursorInv, CursInv, Stands
  <2>2. PICK r : r = curs'[c]
    OBVIOUS
  <2>3. r.behind /\ r.index = k.index /\ r \in CursType
    BY <2>1, <2>2, BehindFacts DEF Change, CursorInv
  <2>4. Place(c)' = (IF k.index # 0 THEN IF k.index < Count' THEN k.index ELSE Restored(First)' ELSE First)
    <3>1. PICK a : a = (IF k.index # 0 THEN IF k.index < Count' THEN k.index ELSE Restored(First)' ELSE First)
      OBVIOUS
    <3>2. Place(c)' = [r EXCEPT !.at = a, !.behind = FALSE, !.dangling = FALSE].at
      BY <2>2, <2>3, <3>1 DEF Place, Bound, IndexFound
    <3> QED
      BY <2>3, <3>1, <3>2 DEF CursType
  <2> QED
    BY <2>1, <2>4 DEF First
<1> QED
  BY <1>1, CursorInvariant, PTL DEF Spec, SeekLandsAtItsIndex
=============================================================================
