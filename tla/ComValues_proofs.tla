-------------------------- MODULE ComValues_proofs --------------------------
(***************************************************************************)
(* Proofs about values: of FacadeContainer, for integers of any widths and *)
(* lists and vects of any length, and of what a COM client sees of them.   *)
(* Up to ChangesAreFlagged they are about FacadeContainer alone; then      *)
(* come the conversions and calls of ComValues.                            *)
(***************************************************************************)
EXTENDS ComValues, SequenceTheorems, TLAPS

(***************************************************************************)
(* The inductive invariant: the bits of an integer are those of the value  *)
(* last given, which fits, and a text is no longer than MAX_TEXT.          *)
(***************************************************************************)
StoredOK(c) ==
    /\ IsIntType(c.type) => /\ c.given \in LongLong
                            /\ IntFits(c.given, c.type)
                            /\ c.bits = Bits(c.given, c.type)
    /\ c.type = Text => c.bits = c.given /\ c.bits \in Lengths

MakeOK(c, k) ==
    /\ k # "node" => c.type = c.made
    /\ k = "list" /\ c.type = Text => c.bits <= c.room

GoodCell(k) == {c \in CellType : StoredOK(c) /\ MakeOK(c, k)}

IInv == TypeOK /\ cells \in Seq(GoodCell(kind))

-----------------------------------------------------------------------------
(* A number taken modulo more than its size is itself, and a negative one   *)
(* wraps once.                                                              *)
LEMMA Wrap ==
    ASSUME NEW m \in Nat, NEW v \in Int
    PROVE  /\ 0 <= v /\ v < m => v % m = v
           /\ -m <= v /\ v < 0 => v % m = v + m
<1>1. ASSUME 0 <= v, v < m PROVE v % m = v
  BY <1>1
<1>2. ASSUME -m <= v, v < 0 PROVE v % m = v + m
  BY <1>2
<1> QED
  BY <1>1, <1>2

(* IntFits lets in what the cast keeps: a fitting long long is read back as *)
(* it was, at every width and in either sign, a BOOL as its truth.          *)
LEMMA FittingIsKept ==
    ASSUME NEW t \in IntType, NEW v \in LongLong, IntFits(v, t)
    PROVE  /\ Bits(v, t) \in Nat
           /\ AnyInt(Bits(v, t), t) = IF t # Bool THEN v ELSE IF v = 0 THEN 0 ELSE 1
<1>1. CASE t = Bool
  BY <1>1 DEF Bits, AnyInt
<1>2. CASE t # Bool
  <2> DEFINE h == Half[t.width]
  <2>1. /\ t.family \in {"int", "uint"} /\ t.width \in Width
        /\ h \in Nat /\ h > 0 /\ h <= Half[Widest] /\ Half[Widest] \in Nat
        /\ v \in Int /\ v < Half[Widest]
    BY <1>2, ContainerAssumption DEF IntType, LongLong
  <2>2. 2 * h \in Nat /\ Bits(v, t) = v % (2 * h)
    BY <1>2, <2>1 DEF Bits
  <2>3. CASE t.family = "int"
    <3>1. -h <= v /\ v < h
      BY <2>3 DEF IntFits
    <3>2. /\ 0 <= v => v < 2 * h
          /\ v < 0 => -(2 * h) <= v
      BY <2>1, <3>1
    <3>3. /\ 0 <= v /\ v < 2 * h => v % (2 * h) = v
          /\ -(2 * h) <= v /\ v < 0 => v % (2 * h) = v + 2 * h
      <4> DEFINE m == 2 * h
      <4>1. m \in Nat /\ v \in Int
        BY <2>1, <2>2
      <4> HIDE DEF m
      <4>2. /\ 0 <= v /\ v < m => v % m = v
            /\ -m <= v /\ v < 0 => v % m = v + m
        BY <4>1, Wrap
      <4> QED
        BY <4>2 DEF m
    <3>4. Bits(v, t) = IF 0 <= v THEN v ELSE v + 2 * h
      <4> DEFINE m == 2 * h
          q == v % m
      <4>1. 0 <= v => q = v
        BY <3>2, <3>3
      <4>2. ~(0 <= v) => q = v + m
        BY <2>1, <3>2, <3>3
      <4> HIDE DEF m, q
      <4>3. q = IF 0 <= v THEN v ELSE v + m
        BY <4>1, <4>2
      <4> QED
        BY <2>2, <4>3 DEF m, q
    <3> QED
      BY <1>2, <2>1, <2>3, <3>1, <3>4 DEF AnyInt
  <2>4. CASE t.family = "uint"
    <3>1. 0 <= v /\ v < 2 * h
      BY <2>4 DEF IntFits
    <3>2. Bits(v, t) = v
      <4> DEFINE m == 2 * h
      <4>1. m \in Nat /\ v \in Int /\ 0 <= v /\ v < m
        BY <2>1, <2>2, <3>1
      <4> HIDE DEF m
      <4>2. v % m = v
        BY <4>1, Wrap
      <4> QED
        BY <2>2, <4>2 DEF m
    <3> QED
      BY <1>2, <2>1, <2>4, <3>1, <3>2 DEF AnyInt
  <2> QED
    BY <2>1, <2>3, <2>4
<1> QED
  BY <1>1, <1>2

(* The zeros a retype writes and a prototype is made of fit every type.     *)
LEMMA ZeroFits == 0 \in LongLong /\ \A t \in IntType : IntFits(0, t)
<1>1. \A w \in Width : Half[w] \in Nat /\ Half[w] > 0
  BY ContainerAssumption
<1>2. 0 \in LongLong
  BY <1>1, ContainerAssumption DEF LongLong
<1>3. ASSUME NEW t \in IntType PROVE IntFits(0, t)
  <2>1. t.width \in Width
    BY ContainerAssumption DEF IntType, Bool, Plain
  <2>2. t.family = "int" \/ t.family = "uint" \/ t = Bool
    BY DEF IntType
  <2> QED
    BY <1>1, <2>1, <2>2 DEF IntFits
<1> QED
  BY <1>2, <1>3

(* The integer types are those of an integer family.                        *)
LEMMA TypeFacts ==
    /\ \A t \in Asked : IsIntType(t) <=> t \in IntType
    /\ \A t \in IntType : IsIntType(t) /\ t # Text
    /\ Int32 \in IntType /\ IntType \subseteq Stored /\ Stored \subseteq Asked
    /\ {Float, Double, Text, Blob, Guid} \subseteq Stored
    /\ \A t \in {Float, Double, Text, BStr, Blob, Guid, Unset, Bogus} : ~IsIntType(t)
    /\ \A t \in {Float, Double, BStr, Blob, Guid, Unset, Bogus} : t # Text
<1>1. \A t \in IntType : IsIntType(t) /\ t # Text
  BY DEF Text, IntType, IsIntType, Bool, Plain
<1>2. \A t \in {Float, Double, Text, BStr, Blob, Guid, Unset, Bogus} : ~IsIntType(t)
  BY DEF IsIntType, Float, Double, Text, BStr, Blob, Guid, Unset, Bogus, Plain
<1>3. \A t \in {Float, Double, BStr, Blob, Guid, Unset, Bogus} : t # Text
  BY DEF Float, Double, Text, BStr, Blob, Guid, Unset, Bogus, Plain
<1>4. Int32 \in IntType
  BY ContainerAssumption DEF Int32, IntType
<1> QED
  BY <1>1, <1>2, <1>3, <1>4 DEF Asked, Stored

(* Every cell that is made is good, whatever it is made for.                *)
LEMMA IntCellGood ==
    ASSUME NEW k, NEW t \in IntType, NEW v \in LongLong, IntFits(v, t)
    PROVE  IntCell(v, t) \in GoodCell(k)
<1> DEFINE c == IntCell(v, t)
<1>1. v \in Int
  BY ContainerAssumption DEF LongLong
<1>2. t \in Stored /\ t # Text
  BY TypeFacts
<1>3. c \in CellType
  BY <1>1, <1>2, FittingIsKept DEF IntCell, CellType
<1>4. StoredOK(c)
  BY <1>2, FittingIsKept DEF IntCell, StoredOK
<1>5. MakeOK(c, k)
  BY <1>2 DEF IntCell, MakeOK
<1> QED
  BY <1>3, <1>4, <1>5 DEF GoodCell

LEMMA PlainCellGood ==
    ASSUME NEW k, NEW t \in {Float, Double, Blob, Guid}
    PROVE  PlainCell(t) \in GoodCell(k)
<1>1. t \in Stored /\ ~IsIntType(t) /\ t # Text
  BY TypeFacts
<1> QED
  BY <1>1 DEF PlainCell, GoodCell, CellType, StoredOK, MakeOK

LEMMA TextCellGood ==
    ASSUME NEW k, NEW n \in Lengths
    PROVE  TextCell(n) \in GoodCell(k)
<1>1. Text \in Stored /\ ~IsIntType(Text)
  BY TypeFacts
<1> QED
  BY <1>1 DEF TextCell, GoodCell, CellType, StoredOK, MakeOK, Lengths

LEMMA ZeroCellGood ==
    ASSUME NEW k, NEW t \in Stored \cup {BStr}
    PROVE  ZeroCell(t) \in GoodCell(k)
<1>1. t \in Asked
  BY DEF Asked
<1>2. CASE IsIntType(t)
  BY <1>1, <1>2, TypeFacts, ZeroFits, IntCellGood DEF ZeroCell
<1>3. CASE ~IsIntType(t) /\ t \in {Text, BStr}
  BY <1>3, ContainerAssumption, TextCellGood DEF ZeroCell, Lengths
<1>4. CASE ~IsIntType(t) /\ t \notin {Text, BStr}
  <2>1. t \in {Float, Double, Blob, Guid}
    BY <1>1, <1>4, TypeFacts DEF Stored
  <2> QED
    BY <1>4, <2>1, PlainCellGood DEF ZeroCell
<1> QED
  BY <1>2, <1>3, <1>4

LEMMA ProtoGood ==
    ASSUME NEW k, NEW t \in Asked
    PROVE  MakeProto(t) \in GoodCell(k)
<1>1. CASE t \in {Blob, Guid, Unset, Bogus}
  BY <1>1, TypeFacts, ZeroFits, IntCellGood DEF MakeProto
<1>2. CASE t \notin {Blob, Guid, Unset, Bogus}
  BY <1>2, ZeroCellGood DEF MakeProto, Asked
<1> QED
  BY <1>1, <1>2

-----------------------------------------------------------------------------
(* A call that leaves good cells behind, or none changed, keeps the         *)
(* invariant.                                                               *)
LEMMA RefusedKeeps ==
    ASSUME IInv, NEW hr, Refuse(hr)
    PROVE  IInv'
  BY DEF IInv, TypeOK, Refuse

LEMMA ChangedKeeps ==
    ASSUME IInv, NEW cs \in Seq(GoodCell(kind)), Change(cs)
    PROVE  IInv'
<1>1. cs \in Seq(CellType)
  BY SeqMonotonic DEF GoodCell
<1> QED
  BY <1>1 DEF IInv, TypeOK, Change

(* Adding a good cell at either end does.                                   *)
LEMMA AddedKeeps ==
    ASSUME IInv, NEW c \in GoodCell(kind), NEW head \in BOOLEAN, Add(c, head)
    PROVE  IInv'
<1> DEFINE G == GoodCell(kind)
<1>1. cells \in Seq(G) /\ <<c>> \in Seq(G)
  BY DEF IInv
<1>2. <<c>> \o cells \in Seq(G)
  BY <1>1, ConcatProperties
<1>3. Append(cells, c) \in Seq(G)
  BY <1>1, AppendProperties
<1> QED
  BY <1>2, <1>3, RefusedKeeps, ChangedKeeps DEF Add

(* So does taking one away, wherever it is.                                 *)
LEMMA DroppedKeeps ==
    ASSUME IInv, NEW head \in BOOLEAN, Drop(head)
    PROVE  IInv'
<1> DEFINE G == GoodCell(kind)
<1>1. cells \in Seq(G) /\ Len(cells) \in Nat /\ \A i \in 1..Len(cells) : cells[i] \in G
  BY ElementOfSeq, LenProperties DEF IInv
<1>2. cells # <<>> => Tail(cells) \in Seq(G)
  BY <1>1, HeadTailProperties
<1>3. Front(cells) \in Seq(G)
  BY <1>1, SubSeqProperties DEF Front
<1> QED
  BY <1>2, <1>3, RefusedKeeps, ChangedKeeps DEF Drop

LEMMA DeletedKeeps ==
    ASSUME IInv, NEW i \in Nat, DeleteAt(i)
    PROVE  IInv'
<1> DEFINE G == GoodCell(kind)
<1>1. cells \in Seq(G) /\ Len(cells) \in Nat /\ \A j \in 1..Len(cells) : cells[j] \in G
  BY ElementOfSeq, LenProperties DEF IInv
<1>2. ASSUME IsCell(i) PROVE RemoveAt(cells, i + 1) \in Seq(G)
  <2>1. i < Len(cells)
    BY <1>2 DEF IsCell
  <2>2. SubSeq(cells, 1, (i + 1) - 1) \in Seq(G)
    BY <1>1, <2>1, SubSeqProperties
  <2>3. SubSeq(cells, (i + 1) + 1, Len(cells)) \in Seq(G)
    BY <1>1, <2>1, SubSeqProperties
  <2> QED
    BY <2>2, <2>3, ConcatProperties DEF RemoveAt
<1> QED
  BY <1>2, RefusedKeeps, ChangedKeeps DEF DeleteAt

LEMMA TruncatedKeeps ==
    ASSUME IInv, Truncate
    PROVE  IInv'
  BY ChangedKeeps, EmptySeq DEF Truncate

(* Rewriting a cell with good bits does.                                    *)
LEMMA RewrittenGood ==
    ASSUME IInv, NEW i \in Nat, IsCell(i), NEW bits \in Nat, NEW v \in Int,
           [At(i) EXCEPT !.bits = bits, !.given = v] \in GoodCell(kind)
    PROVE  Rewritten(i, bits, v) \in Seq(GoodCell(kind))
<1> DEFINE e == [At(i) EXCEPT !.bits = bits, !.given = v]
<1>1. cells \in Seq(GoodCell(kind)) /\ i + 1 \in 1..Len(cells)
  BY LenProperties DEF IInv, IsCell
<1>2. Rewritten(i, bits, v) = [cells EXCEPT ![i + 1] = e]
  BY <1>1 DEF Rewritten, At
<1> QED
  BY <1>1, <1>2, ExceptSeq

LEMMA SetIntKeeps ==
    ASSUME IInv, NEW i \in Nat, NEW v \in LongLong, SetIntAt(i, v)
    PROVE  IInv'
<1> DEFINE t == At(i).type
           e == [At(i) EXCEPT !.bits = Bits(v, t), !.given = v]
<1>1. CASE IsCell(i) /\ IsIntType(t) /\ IntFits(v, t) /\ Change(Rewritten(i, Bits(v, t), v))
  <2>1. At(i) \in GoodCell(kind)
    BY <1>1, ElementOfSeq, LenProperties DEF IInv, IsCell, At
  <2>2. t \in IntType /\ t # Text /\ v \in Int
    BY <1>1, <2>1, TypeFacts, ContainerAssumption DEF GoodCell, CellType, LongLong
  <2>3. Bits(v, t) \in Nat /\ e \in CellType /\ e.type = t
    BY <1>1, <2>1, <2>2, FittingIsKept DEF GoodCell, CellType
  <2>4. StoredOK(e)
    BY <1>1, <2>1, <2>2, <2>3, FittingIsKept DEF StoredOK, GoodCell, CellType
  <2>5. MakeOK(e, kind)
    BY <2>1, <2>2 DEF MakeOK, GoodCell, CellType
  <2>6. e \in GoodCell(kind)
    BY <2>3, <2>4, <2>5 DEF GoodCell
  <2> QED
    BY <1>1, <2>2, <2>3, <2>6, RewrittenGood, ChangedKeeps
<1> QED
  BY <1>1, RefusedKeeps DEF SetIntAt

LEMMA SetRealKeeps ==
    ASSUME IInv, NEW i \in Nat, SetRealAt(i)
    PROVE  IInv'
  BY RefusedKeeps, ChangedKeeps DEF SetRealAt, IInv

LEMMA SetTextKeeps ==
    ASSUME IInv, NEW i \in Nat, NEW n \in Nat, SetTextAt(i, n)
    PROVE  IInv'
<1> DEFINE e == [At(i) EXCEPT !.bits = n, !.given = n]
<1>1. CASE /\ IsCell(i) /\ n <= MaxText /\ IsTextType(At(i).type)
           /\ n > At(i).bits => MayGrow
           /\ Change(Rewritten(i, n, n))
  <2>1. At(i) \in GoodCell(kind)
    BY <1>1, ElementOfSeq, LenProperties DEF IInv, IsCell, At
  <2>2. At(i).type = Text /\ ~IsIntType(Text)
    BY <1>1, TypeFacts DEF IsTextType
  <2>3. n \in Int
    OBVIOUS
  <2>4. e \in CellType /\ e.type = At(i).type
    BY <2>1, <2>3 DEF GoodCell, CellType
  <2>5. e.bits = n /\ e.given = n
    BY <2>1 DEF GoodCell, CellType
  <2>6. MakeOK(e, kind)
    BY <1>1, <2>1, <2>2 DEF MakeOK, MayGrow, GoodCell, CellType
  <2>9. n \in Lengths
    BY <1>1, ContainerAssumption DEF Lengths
  <2>10. StoredOK(e)
    BY <2>2, <2>4, <2>5, <2>9 DEF StoredOK
  <2>7. e \in GoodCell(kind)
    BY <2>4, <2>6, <2>10 DEF GoodCell
  <2>8. Rewritten(i, n, n) \in Seq(GoodCell(kind))
    BY <1>1, <2>3, <2>7, RewrittenGood
  <2> QED
    BY <1>1, <2>8, ChangedKeeps
<1> QED
  BY <1>1, RefusedKeeps DEF SetTextAt

-----------------------------------------------------------------------------
(* What a node is declared as is good.                                      *)
LEMMA RedeclaredKeeps ==
    ASSUME IInv, NEW c \in GoodCell(kind), Redeclared(c)
    PROVE  IInv'
<1>1. <<c>> \in Seq(GoodCell(kind))
  OBVIOUS
<1> QED
  BY <1>1, RefusedKeeps, ChangedKeeps DEF Redeclared

LEMMA InitGood == Init => IInv
<1> SUFFICES ASSUME Init PROVE IInv
  OBVIOUS
<1>1. CASE kind = "list"
  BY <1>1, EmptySeq DEF Init, IInv, TypeOK
<1>2. CASE kind = "vect"
  <2>1. PICK n \in 0..MaxCells, t \in Asked : cells = [i \in 1..n |-> MakeProto(t)]
    BY <1>2 DEF Init
  <2>2. n \in Nat /\ MakeProto(t) \in GoodCell(kind) /\ MakeProto(t) \in CellType
    BY ContainerAssumption, ProtoGood DEF GoodCell
  <2>3. cells \in Seq(GoodCell(kind)) /\ cells \in Seq(CellType)
    BY <2>1, <2>2, IsASeq
  <2> QED
    BY <2>3 DEF Init, IInv, TypeOK
<1>3. CASE kind = "node"
  <2>1. PICK t \in Stored : cells = <<ZeroCell(t)>>
    BY <1>3 DEF Init
  <2>2. ZeroCell(t) \in GoodCell(kind) /\ ZeroCell(t) \in CellType
    BY ZeroCellGood DEF GoodCell
  <2>3. cells \in Seq(GoodCell(kind)) /\ cells \in Seq(CellType)
    BY <2>1, <2>2
  <2> QED
    BY <2>3 DEF Init, IInv, TypeOK
<1> QED
  BY <1>1, <1>2, <1>3 DEF Init

LEMMA OnCellKeeps ==
    ASSUME IInv, NEW i \in Nat, OnCell(i)
    PROVE  IInv'
<1>1. \A n \in 0..MaxText + 1 : n \in Nat
  BY ContainerAssumption
<1> QED
  BY <1>1, SetIntKeeps, SetRealKeeps, SetTextKeeps DEF OnCell

LEMMA OnListKeeps ==
    ASSUME IInv, OnList
    PROVE  IInv'
<1>1. ASSUME NEW i \in 0..MaxCells, OnCell(i) \/ DeleteAt(i) PROVE IInv'
  BY <1>1, ContainerAssumption, OnCellKeeps, DeletedKeeps
<1>2. ASSUME NEW head \in BOOLEAN, NEW v \in LongLong, NEW a \in Asked, AddInt(v, a, head)
      PROVE  IInv'
  <2> DEFINE t == IF a = Unset THEN Int32 ELSE a
  <2>1. t \in Asked
    BY TypeFacts
  <2>2. CASE IsIntType(t) /\ IntFits(v, t) /\ Add(IntCell(v, t), head)
    <3>1. IntCell(v, t) \in GoodCell(kind)
      BY <2>1, <2>2, TypeFacts, IntCellGood
    <3> QED
      BY <2>2, <3>1, AddedKeeps
  <2> QED
    BY <1>2, <2>2, RefusedKeeps DEF AddInt
<1>3. ASSUME NEW head \in BOOLEAN, NEW a \in Asked, AddReal(a, head) PROVE IInv'
  BY <1>3, RefusedKeeps, PlainCellGood, AddedKeeps DEF AddReal, IsRealType
<1>4. ASSUME NEW head \in BOOLEAN, NEW n \in 0..MaxText + 1, AddText(n, head) PROVE IInv'
  <2>1. n <= MaxText => n \in Lengths
    BY ContainerAssumption DEF Lengths
  <2> QED
    BY <1>4, <2>1, RefusedKeeps, TextCellGood, AddedKeeps DEF AddText
<1> QED
  BY <1>1, <1>2, <1>3, <1>4, DroppedKeeps, TruncatedKeeps DEF OnList

LEMMA OnVectKeeps ==
    ASSUME IInv, OnVect
    PROVE  IInv'
<1>1. ASSUME NEW i \in 0..MaxCells, OnCell(i) \/ DeleteAt(i) PROVE IInv'
  BY <1>1, ContainerAssumption, OnCellKeeps, DeletedKeeps
<1> QED
  BY <1>1, TruncatedKeeps DEF OnVect

LEMMA OnNodeKeeps ==
    ASSUME IInv, OnNode
    PROVE  IInv'
<1>1. ASSUME NEW v \in LongLong, NEW a \in Asked, RedeclareInt(v, a) PROVE IInv'
  <2> DEFINE t == IF a = Unset THEN Int32 ELSE a
  <2>1. t \in Asked
    BY TypeFacts
  <2>2. CASE IsIntType(t) /\ IntFits(v, t) /\ Redeclared(IntCell(v, t))
    <3>1. IntCell(v, t) \in GoodCell(kind)
      BY <2>1, <2>2, TypeFacts, IntCellGood
    <3> QED
      BY <2>2, <3>1, RedeclaredKeeps
  <2> QED
    BY <1>1, <2>2, RefusedKeeps DEF RedeclareInt
<1>2. ASSUME NEW a \in Asked, RedeclareReal(a) PROVE IInv'
  BY <1>2, RefusedKeeps, PlainCellGood, RedeclaredKeeps DEF RedeclareReal, IsRealType
<1>3. ASSUME NEW a \in Asked, Retype(a) PROVE IInv'
  <2>1. a \notin {Unset, Bogus} => a \in Stored \cup {BStr}
    BY DEF Asked
  <2> QED
    BY <1>3, <2>1, RefusedKeeps, ZeroCellGood, RedeclaredKeeps DEF Retype
<1>4. ASSUME NEW n \in 0..MaxText + 1, RedeclareText(n) PROVE IInv'
  <2>1. n <= MaxText => n \in Lengths
    BY ContainerAssumption DEF Lengths
  <2> QED
    BY <1>4, <2>1, RefusedKeeps, TextCellGood, RedeclaredKeeps DEF RedeclareText
<1>5. ASSUME NEW t \in {Blob, Guid}, RedeclarePlain(t) PROVE IInv'
  BY <1>5, RefusedKeeps, PlainCellGood, RedeclaredKeeps DEF RedeclarePlain
<1> QED
  BY <1>1, <1>2, <1>3, <1>4, <1>5, OnCellKeeps, RefusedKeeps DEF OnNode, DeclareAnew

-----------------------------------------------------------------------------
(* The cells are well typed and good in every reachable state.              *)
THEOREM ContainerInvariant == Spec => [](TypeOK /\ IInv)
<1>1. ASSUME IInv, [Next]_vars PROVE IInv'
  <2>1. CASE Save
    BY <1>1, <2>1 DEF Save, IInv, TypeOK
  <2>2. CASE UNCHANGED vars
    BY <1>1, <2>2 DEF vars, IInv, TypeOK
  <2> QED
    BY <1>1, <2>1, <2>2, OnListKeeps, OnVectKeeps, OnNodeKeeps DEF Next
<1>2. IInv => TypeOK
  BY DEF IInv
<1> QED
  BY InitGood, <1>1, <1>2, PTL DEF Spec

(* Every integer and text reads back as it was last given, at any width,    *)
(* after any calls (ReadsBackAsGiven).                                      *)
THEOREM ValuesReadBack == Spec => []ReadsBackAsGiven
<1>1. IInv => ReadsBackAsGiven
  <2> SUFFICES ASSUME IInv, NEW i \in 0..Len(cells) - 1
               PROVE  LET c == At(i) IN
                      /\ IsIntType(c.type) =>
                           GetIntAt(i).value = IF c.type # Bool THEN c.given
                                               ELSE IF c.given = 0 THEN 0 ELSE 1
                      /\ IsTextType(c.type) => GetTextAt(i).value = c.given
    BY DEF ReadsBackAsGiven
  <2>1. IsCell(i) /\ At(i) \in GoodCell(kind)
    BY ElementOfSeq, LenProperties DEF IInv, IsCell, At
  <2>2. StoredOK(At(i)) /\ At(i).type \in Asked
    BY <2>1, TypeFacts DEF GoodCell, CellType
  <2>3. IsIntType(At(i).type) => At(i).type \in IntType
    BY <2>2, TypeFacts
  <2> QED
    BY <2>1, <2>2, <2>3, FittingIsKept DEF GetIntAt, GetTextAt, StoredOK, IsTextType
<1> QED
  BY <1>1, ContainerInvariant, PTL

(* A cell keeps the type it was made with, and a list's text its room       *)
(* (CellsKeepTheirMake).                                                    *)
THEOREM CellsStayAsMade == Spec => []CellsKeepTheirMake
<1>1. IInv => CellsKeepTheirMake
  BY ElementOfSeq, LenProperties DEF IInv, CellsKeepTheirMake, GoodCell, MakeOK, IsTextType
<1> QED
  BY <1>1, ContainerInvariant, PTL

(* No call changes a value without flagging the store, and none that is     *)
(* refused changes one (NoSilentChange).                                    *)
THEOREM ChangesAreFlagged == Spec => NoSilentChange
<1>1. ASSUME [Next]_vars PROVE cells' # cells => dirty' /\ out' = "S_OK"
  BY <1>1 DEF Next, OnList, OnVect, OnNode, OnCell, SetIntAt, SetRealAt, SetTextAt, AddInt,
              AddReal, AddText, Add, Drop, DeleteAt, Truncate, RedeclareInt, RedeclareReal,
              RedeclareText, RedeclarePlain, Redeclared, DeclareAnew, Retype, Save, Refuse, Change, vars
<1> QED
  BY <1>1, PTL DEF Spec, NoSilentChange

-----------------------------------------------------------------------------
(***************************************************************************)
(* What a COM client does to the values is what a client of the facade can *)
(* do, so what is proved above holds for it.                               *)
(***************************************************************************)
Target == {Bool, Int32, I8, Double, BStr}

(* A conversion ends in a value of the type it was asked for.               *)
LEMMA Converted ==
    ASSUME NEW v \in Variant, NEW to \in Target, NEW n \in ChangeType(v, to)
    PROVE  n \in Values(to)
<1>1. v.n \in Values(v.vt)
  <2>1. PICK t \in VarType : v \in [vt : {t}, n : Values(t)]
    BY DEF Variant
  <2> QED
    BY <2>1
<1>2. CASE v.vt = to
  <2>1. ChangeType(v, to) = {v.n}
    BY <1>2 DEF ChangeType
  <2> QED
    BY <1>1, <1>2, <2>1
<1>3. CASE v.vt # to
  <2>1. \/ ChangeType(v, to) \subseteq Values(to)
        \/ to = BStr /\ ChangeType(v, to) = Lengths
        \/ to = Bool /\ ChangeType(v, to) = {IF v.n = 0 THEN 0 ELSE 1}
        \/ to = Double /\ ChangeType(v, to) = {0}
    BY <1>3 DEF ChangeType
  <2>2. Lengths \subseteq Values(BStr)
    BY ContainerAssumption DEF Lengths, Values, BStr, Bool, Plain
  <2>3. 0 \in Values(Bool) /\ 1 \in Values(Bool) /\ 0 \in Values(Double)
    BY DEF Values, Bool, Double, BStr, Plain
  <2> QED
    BY <2>1, <2>2, <2>3
<1> QED
  BY <1>2, <1>3

(* The values it hands to the facade.                                       *)
LEMMA Handed ==
    /\ Values(Bool) \subseteq LongLong
    /\ Values(Int32) \subseteq LongLong
    /\ Values(I8) = LongLong
    /\ Values(BStr) = 0..MaxText + 1
<1>1. Half[Natural] \in Nat /\ Half[Widest] \in Nat /\ Half[Natural] <= Half[Widest]
  BY ContainerAssumption
<1>2. Values(Bool) = 0..1 /\ Values(BStr) = 0..MaxText + 1
  BY DEF Values, Bool, BStr, Plain
<1>3. Values(Int32) = -Half[Natural] .. Half[Natural] - 1
  <2>1. Int32.family = "int" /\ Int32.width = Natural /\ Int32 # Bool /\ Int32 # BStr
    BY DEF Int32, Bool, BStr, Plain
  <2> QED
    BY <2>1 DEF Values
<1>4. Values(I8) = -Half[Widest] .. Half[Widest] - 1
  <2>1. I8.family = "int" /\ I8.width = Widest /\ I8 # Bool /\ I8 # BStr
    BY DEF I8, Bool, BStr, Plain
  <2> QED
    BY <2>1 DEF Values
<1> QED
  BY <1>1, <1>2, <1>3, <1>4, ComAssumption DEF LongLong

LEMMA IsTarget ==
    /\ \A t : Wanted(t) \in Target /\ OwnType(t) \in Target
    /\ \A t : IsIntType(t) => Wanted(t) \in {Bool, I8}
    /\ \A t : ~IsIntType(t) /\ ~IsRealType(t) => Wanted(t) = BStr
    /\ \A t : OwnType(t) \in IntType => OwnType(t) \in {Bool, Int32, I8}
<1>1. \A t : OwnType(t) \in Target
  BY DEF OwnType, Target
<1>2. ~IsIntType(BStr) /\ ~IsIntType(Double) /\ IsIntType(Bool)
  BY DEF IsIntType, BStr, Double, Bool, Plain
<1>3. BStr \notin IntType /\ Double \notin IntType
  BY DEF IntType, BStr, Double, Bool, Plain
<1> QED
  BY <1>1, <1>2, <1>3 DEF Wanted, OwnType, Target

(* Each of the client's calls is one of the facade's, or changes nothing.   *)
LEMMA PutIsACall ==
    ASSUME NEW i, NEW v \in Variant, put_Item(i, v)
    PROVE  OnCell(i) \/ UNCHANGED vars
<1> DEFINE t == GetTypeAt(i)
<1>1. ASSUME NEW n \in ChangeType(v, Wanted(t)), IsIntType(t), SetIntAt(i, n)
      PROVE  OnCell(i)
  <2>1. n \in LongLong
    BY <1>1, IsTarget, Converted, Handed
  <2> QED
    BY <1>1, <2>1 DEF OnCell
<1>2. ASSUME NEW n \in ChangeType(v, Wanted(t)), ~IsIntType(t), ~IsRealType(t), SetTextAt(i, n)
      PROVE  OnCell(i)
  <2>1. n \in 0..MaxText + 1
    BY <1>2, IsTarget, Converted, Handed
  <2> QED
    BY <1>2, <2>1 DEF OnCell
<1> QED
  BY <1>1, <1>2 DEF put_Item, Refused, OnCell

LEMMA AddIsACall ==
    ASSUME NEW v \in Variant, NEW head \in BOOLEAN, AddValue(v, head)
    PROVE  OnList \/ UNCHANGED vars
<1> DEFINE to == OwnType(v.vt)
           type == IF IsNarrow(v.vt) THEN Unset ELSE to
<1>1. ASSUME NEW n \in ChangeType(v, to), to \in IntType, AddInt(n, type, head)
      PROVE  OnList
  <2>1. n \in LongLong /\ type \in Asked
    BY <1>1, IsTarget, Converted, Handed DEF Asked, Stored
  <2> QED
    BY <1>1, <2>1 DEF OnList
<1>2. ASSUME NEW n \in ChangeType(v, to), to = BStr, AddText(n, head)
      PROVE  OnList
  <2>1. n \in 0..MaxText + 1
    BY <1>2, IsTarget, Converted, Handed
  <2> QED
    BY <1>2, <2>1 DEF OnList
<1>3. AddReal(Unset, head) => OnList
  BY DEF OnList, Asked
<1> QED
  BY <1>1, <1>2, <1>3 DEF AddValue, NotStored, Refused

LEMMA DeclareIsACall ==
    ASSUME NEW v \in Variant, DeclareVariant(v)
    PROVE  OnNode \/ UNCHANGED vars
<1> DEFINE to == OwnType(v.vt)
           type == IF IsNarrow(v.vt) THEN Unset ELSE to
<1>1. ASSUME NEW n \in ChangeType(v, to), to \in IntType, RedeclareInt(n, type)
      PROVE  OnNode
  <2>1. n \in LongLong /\ type \in Asked
    BY <1>1, IsTarget, Converted, Handed DEF Asked, Stored
  <2> QED
    BY <1>1, <2>1 DEF OnNode
<1>2. ASSUME NEW n \in ChangeType(v, to), to = BStr, RedeclareText(n)
      PROVE  OnNode
  <2>1. n \in 0..MaxText + 1
    BY <1>2, IsTarget, Converted, Handed
  <2> QED
    BY <1>2, <2>1 DEF OnNode
<1>3. RedeclareReal(Unset) \/ RedeclarePlain(Blob) \/ DeclareAnew => OnNode
  BY DEF OnNode, Asked
<1> QED
  BY <1>1, <1>2, <1>3 DEF DeclareVariant, NotStored, Refused

LEMMA DeclareTypedIsACall ==
    ASSUME NEW v \in Variant, NEW t \in Asked, DeclareTypedVariant(v, t)
    PROVE  OnNode \/ UNCHANGED vars
<1>1. ASSUME t \in IntType, NEW n \in ChangeType(v, I8), RedeclareInt(n, t)
      PROVE  OnNode
  <2>1. n \in LongLong
    BY <1>1, Converted, Handed DEF Target
  <2> QED
    BY <1>1, <2>1 DEF OnNode
<1>2. ASSUME NEW n \in ChangeType(v, BStr), RedeclareText(n)
      PROVE  OnNode
  <2>1. n \in 0..MaxText + 1
    BY <1>2, Converted, Handed DEF Target
  <2> QED
    BY <1>2, <2>1 DEF OnNode
<1>3. ASSUME RedeclareReal(t) \/ DeclareAnew \/ (t \in {Blob, Guid} /\ RedeclarePlain(t))
      PROVE  OnNode
  BY <1>3 DEF OnNode
<1>4. CASE t \in IntType
  <2>1. t \notin {Float, Double} /\ t \notin {Text, BStr} /\ t \notin {Blob, Guid}
    BY <1>4 DEF IntType, Text, BStr, Float, Double, Blob, Guid, Bool, Plain
  <2>2. \/ UNCHANGED vars
        \/ \E n \in ChangeType(v, I8) : RedeclareInt(n, t) \/ DeclareAnew
    BY <1>4, <2>1 DEF DeclareTypedVariant, Refused
  <2> QED
    BY <1>1, <1>3, <1>4, <2>2
<1>5. CASE t \in {Text, BStr}
  <2>1. t \notin IntType /\ t \notin {Float, Double} /\ t \notin {Blob, Guid}
    BY <1>5 DEF IntType, Text, BStr, Float, Double, Blob, Guid, Bool, Plain
  <2>2. \/ UNCHANGED vars
        \/ \E n \in ChangeType(v, BStr) : RedeclareText(n) \/ DeclareAnew
    BY <1>5, <2>1 DEF DeclareTypedVariant, Refused
  <2> QED
    BY <1>2, <1>3, <2>2
<1>6. CASE t \notin IntType /\ t \notin {Text, BStr}
  <2>1. \/ UNCHANGED vars
        \/ RedeclareReal(t) \/ DeclareAnew \/ (t \in {Blob, Guid} /\ RedeclarePlain(t))
    BY <1>6 DEF DeclareTypedVariant, Refused
  <2> QED
    BY <1>3, <2>1
<1> QED
  BY <1>4, <1>5, <1>6

(* What a COM client does to a list, a vect or a node, between the calls of *)
(* programs that use the facade, is a behaviour of the facade.              *)
THEOREM ComCallsAreFacadeCalls == ComSpec => Spec
<1>1. ComInit => Init
  BY DEF ComInit
<1>2. [ComNext]_cvars => [Next]_vars
  <2> SUFFICES ASSUME [ComNext]_cvars PROVE [Next]_vars
    OBVIOUS
  <2>1. CASE UNCHANGED cvars
    BY <2>1 DEF cvars
  <2>2. CASE FacadeProgram
    BY <2>2 DEF FacadeProgram
  <2>3. ASSUME OnCollection PROVE (OnList /\ OnVect) \/ UNCHANGED vars
    <3>1. ASSUME NEW i \in 0..MaxCells, NEW v \in Variant, put_Item(i, v)
          PROVE  (OnList /\ OnVect) \/ UNCHANGED vars
      BY <3>1, PutIsACall DEF OnList, OnVect
    <3>2. ASSUME NEW i \in 0..MaxCells, get_Item(i) PROVE UNCHANGED vars
      BY <3>2 DEF get_Item, Refused
    <3>3. ASSUME NEW i \in 0..MaxCells, RemoveCell(i) PROVE OnList /\ OnVect
      BY <3>3 DEF RemoveCell, OnList, OnVect
    <3>4. Truncate => OnList /\ OnVect
      BY DEF OnList, OnVect
    <3> QED
      BY <2>3, <3>1, <3>2, <3>3, <3>4 DEF OnCollection
  <2>4. ASSUME OnComList PROVE OnList \/ UNCHANGED vars
    <3>1. ASSUME NEW head \in BOOLEAN, Drop(head) PROVE OnList
      BY <3>1 DEF OnList
    <3> QED
      BY <2>3, <2>4, <3>1, AddIsACall DEF OnComList
  <2>5. ASSUME OnField PROVE OnNode \/ UNCHANGED vars
    <3>1. ASSUME NEW v \in Variant, put_Value(v) PROVE OnNode \/ UNCHANGED vars
      BY <3>1, PutIsACall DEF put_Value, Refused, OnNode
    <3>2. get_Item(0) => UNCHANGED vars
      BY DEF get_Item, Refused
    <3>3. ASSUME NEW n \in Values(BStr), put_Text(n) PROVE OnNode
      BY <3>3, Handed DEF put_Text, OnNode, OnCell
    <3>4. ASSUME NEW t \in Asked, RetypeChild(t) PROVE OnNode
      BY <3>4 DEF RetypeChild, OnNode
    <3> QED
      BY <2>5, <3>1, <3>2, <3>3, <3>4, DeclareIsACall, DeclareTypedIsACall DEF OnField
  <2> QED
    BY <2>1, <2>2, <2>3, <2>4, <2>5 DEF ComNext, Next
<1> QED
  BY <1>1, <1>2, PTL DEF ComSpec, Spec

(* So the integers and texts a COM client wrote, among the writes of others,*)
(* read back as they were given, and no cell changes its make.              *)
COROLLARY ComClientReadsBack ==
    ComSpec => []ReadsBackAsGiven /\ []CellsKeepTheirMake
  BY ComCallsAreFacadeCalls, ValuesReadBack, CellsStayAsMade

(* And no client is refused for a call that changed something, nor changes  *)
(* something that the next save would skip.                                 *)
COROLLARY ComClientIsToldOfChanges == ComSpec => NoSilentChange
  BY ComCallsAreFacadeCalls, ChangesAreFlagged

-----------------------------------------------------------------------------
(* The codes the facade answers a container's calls with are each converted *)
(* to the one that says the same, and success to success.                   *)
LEMMA Codes ==
    /\ FromFacade(MSGF["S_OK"]) = 0
    /\ FromFacade(MSGF["E_CORE"]) = MSGC.E_KERNEL
    /\ FromFacade(MSGF["E_NAME"]) = MSGC.E_NAME
    /\ FromFacade(MSGF["E_TYPE"]) = MSGC.E_TYPE
    /\ FromFacade(MSGF["E_RANGE"]) = MSGC.E_RANGE
    /\ FromFacade(MSGF["E_EXISTS"]) = MSGC.E_DECLARE
    /\ FromFacade(MSGF["E_LIMIT"]) = MSGC.E_LIMIT
<1>1. \A e, f \in DOMAIN MSGF : MSGF[e] = MSGF[f] => e = f
  BY DEF MSGF
<1>2. \A e \in DOMAIN MSGF : FromFacade(MSGF[e]) = ToCom[e]
  <2> SUFFICES ASSUME NEW e \in DOMAIN MSGF
               PROVE  (CHOOSE f \in DOMAIN MSGF : MSGF[e] = MSGF[f]) = e
    BY DEF FromFacade
  <2> QED
    BY <1>1
<1>3. /\ ToCom["S_OK"] = 0 /\ ToCom["E_CORE"] = MSGC.E_KERNEL /\ ToCom["E_NAME"] = MSGC.E_NAME
      /\ ToCom["E_TYPE"] = MSGC.E_TYPE /\ ToCom["E_RANGE"] = MSGC.E_RANGE
      /\ ToCom["E_EXISTS"] = MSGC.E_DECLARE /\ ToCom["E_LIMIT"] = MSGC.E_LIMIT
  BY DEF ToCom, MSGF, MSGC, Renamed
<1>4. {"S_OK", "E_CORE", "E_NAME", "E_TYPE", "E_RANGE", "E_EXISTS", "E_LIMIT"}
        \subseteq DOMAIN MSGF
  BY DEF MSGF
<1> QED
  BY <1>2, <1>3, <1>4

(* What RefusalSaysWhy says of a step, and, of a call the facade answered,  *)
(* the same in the facade's own codes.                                      *)
SaysWhy ==
    LET i == call'.i
        v == call'.v
        t == GetTypeAt(i)
    IN  call'.op # "none" =>
        /\ call'.hr \in {0, DISP_E_TYPEMISMATCH, MSGC.E_TYPE, MSGC.E_RANGE, MSGC.E_LIMIT,
                         MSGC.E_KERNEL, MSGC.E_DECLARE, MSGC.E_NAME}
        /\ call'.hr = MSGC.E_RANGE => i >= Len(cells)
        /\ call'.hr = MSGC.E_TYPE =>
             \/ v.vt \in {Blob, Empty, Null, Object}
             \/ call'.op = "typed"
             \/ call'.op = "text" /\ ~IsTextType(t)
             \/ call'.op = "put" /\ t \in {Blob, Guid}
        /\ call'.hr = MSGC.E_LIMIT /\ call'.op = "put" /\ v.vt \in IntType /\ IsIntType(t) =>
             ~IntFits(AsNumber(v), t)
        /\ call'.hr = MSGC.E_NAME => call'.op = "typed"
        /\ call'.hr \in {MSGC.E_KERNEL, MSGC.E_DECLARE} =>
             call'.op \in {"add", "declare", "typed", "retype"}
        /\ call'.hr # 0 => cells' = cells /\ ~call'.bumped
        /\ cells' # cells => call'.bumped

Reason(op, i, v) ==
    /\ out' \in {"S_OK", "E_CORE", "E_NAME", "E_TYPE", "E_RANGE", "E_EXISTS", "E_LIMIT"}
    /\ out' # "S_OK" => cells' = cells
    /\ out' = "E_RANGE" => i >= Len(cells)
    /\ out' = "E_TYPE" =>
         \/ v.vt \in {Blob, Empty, Null, Object}
         \/ op = "typed"
         \/ op = "text" /\ ~IsTextType(GetTypeAt(i))
         \/ op = "put" /\ GetTypeAt(i) \in {Blob, Guid}
    /\ out' = "E_LIMIT" /\ op = "put" /\ v.vt \in IntType /\ IsIntType(GetTypeAt(i)) =>
         ~IntFits(AsNumber(v), GetTypeAt(i))
    /\ out' = "E_NAME" => op = "typed"
    /\ out' \in {"E_CORE", "E_EXISTS"} => op \in {"add", "declare", "typed", "retype"}

LEMMA AnsweredSays ==
    ASSUME NEW op, NEW i, NEW v, Answered(op, i, v), Reason(op, i, v)
    PROVE  SaysWhy
<1>1. call'.op = op /\ call'.i = i /\ call'.v = v /\ call'.hr = FromFacade(MSGF[out'])
         /\ call'.bumped = (out' = "S_OK")
  BY DEF Answered
<1>2. /\ out' = "S_OK" <=> call'.hr = 0
      /\ out' = "E_CORE" <=> call'.hr = MSGC.E_KERNEL
      /\ out' = "E_NAME" <=> call'.hr = MSGC.E_NAME
      /\ out' = "E_TYPE" <=> call'.hr = MSGC.E_TYPE
      /\ out' = "E_RANGE" <=> call'.hr = MSGC.E_RANGE
      /\ out' = "E_EXISTS" <=> call'.hr = MSGC.E_DECLARE
      /\ out' = "E_LIMIT" <=> call'.hr = MSGC.E_LIMIT
  BY <1>1, Codes DEF Reason, MSGC
<1> QED
  BY <1>1, <1>2 DEF Reason, SaysWhy

LEMMA RefusedSays ==
    ASSUME NEW op, NEW i, NEW v, NEW hr \in {0, DISP_E_TYPEMISMATCH, MSGC.E_TYPE, MSGC.E_RANGE},
           Refused(op, i, v, hr),
           hr = MSGC.E_RANGE => i >= Len(cells),
           hr = MSGC.E_TYPE => \/ v.vt \in {Blob, Empty, Null, Object}
                               \/ op = "typed"
                               \/ op = "put" /\ GetTypeAt(i) \in {Blob, Guid}
    PROVE  SaysWhy
<1>1. /\ call'.op = op /\ call'.i = i /\ call'.v = v /\ call'.hr = hr
      /\ call'.bumped = FALSE /\ cells' = cells
  BY DEF Refused, vars
<1>2. hr \notin {MSGC.E_LIMIT, MSGC.E_NAME, MSGC.E_KERNEL, MSGC.E_DECLARE}
  BY DEF MSGC, DISP_E_TYPEMISMATCH
<1> QED
  BY <1>1, <1>2 DEF SaysWhy

(* The type a call finds is a stored one, or none past the end.             *)
LEMMA TypeFound ==
    ASSUME TypeOK, NEW i \in Nat
    PROVE  /\ IsCell(i) => GetTypeAt(i) = At(i).type /\ GetTypeAt(i) \in Stored
           /\ ~IsCell(i) => GetTypeAt(i) = Unset /\ i >= Len(cells)
<1>1. Len(cells) \in Nat
  BY LenProperties DEF TypeOK
<1>2. IsCell(i) => At(i) \in CellType
  BY <1>1, ElementOfSeq DEF TypeOK, IsCell, At
<1> QED
  BY <1>1, <1>2 DEF GetTypeAt, IsCell, CellType

(* A number asked for as a long long is the number.                         *)
LEMMA NumberKept ==
    ASSUME NEW v \in Variant, v.vt \in IntType, NEW n \in ChangeType(v, I8)
    PROVE  n = AsNumber(v)
<1>1. v.vt \notin {Blob, Null, BStr, Object, Float, Double} /\ I8 # BStr /\ I8 # Bool /\ I8 # Double
  BY DEF IntType, Bool, Blob, Null, BStr, Object, Float, Double, I8, Plain
<1> QED
  BY <1>1 DEF ChangeType, AsNumber

LEMMA PutSays ==
    ASSUME TypeOK, NEW i \in Nat, NEW v \in Variant, put_Item(i, v)
    PROVE  SaysWhy
<1> DEFINE t == GetTypeAt(i)
<1>1. CASE CanFail(v, Wanted(t)) /\ Refused("put", i, v, DISP_E_TYPEMISMATCH)
  BY <1>1, RefusedSays DEF DISP_E_TYPEMISMATCH, MSGC
<1>2. ASSUME NEW n \in ChangeType(v, Wanted(t)), Answered("put", i, v),
             \/ IsIntType(t) /\ SetIntAt(i, n)
             \/ IsRealType(t) /\ SetRealAt(i)
             \/ ~IsIntType(t) /\ ~IsRealType(t) /\ SetTextAt(i, n)
      PROVE  Reason("put", i, v)
  <2>1. CASE IsIntType(t) /\ SetIntAt(i, n)
    <3>1. ASSUME out' = "E_LIMIT", v.vt \in IntType PROVE ~IntFits(AsNumber(v), t)
      <4>1. IsCell(i) /\ ~IntFits(n, t)
        BY <2>1, <3>1, TypeFound DEF SetIntAt, Refuse, Change
      <4>2. t # Bool
        BY <4>1 DEF IntFits, Bool, Plain
      <4>3. Wanted(t) = I8
        BY <2>1, <4>2 DEF Wanted
      <4> QED
        BY <3>1, <4>1, <4>3, NumberKept
    <3>2. IsCell(i) => t = At(i).type
      BY TypeFound
    <3>3. out' \in {"S_OK", "E_RANGE", "E_LIMIT"}
      BY <2>1, <3>2 DEF SetIntAt, Refuse, Change
    <3> QED
      BY <2>1, <3>1, <3>3, TypeFound DEF SetIntAt, Refuse, Change, Reason
  <2>2. CASE IsRealType(t) /\ SetRealAt(i)
    <3>1. IsCell(i)
      BY <2>2, TypeFound DEF IsRealType, Unset, Float, Double, Plain
    <3> QED
      BY <2>2, <3>1, TypeFound DEF SetRealAt, Refuse, Change, Reason
  <2>3. CASE ~IsIntType(t) /\ ~IsRealType(t) /\ SetTextAt(i, n)
    <3>1. IsCell(i) /\ ~IsTextType(At(i).type) => t \in {Blob, Guid}
      BY <2>3, TypeFound, TypeFacts DEF IsTextType, IsRealType, Stored
    <3> QED
      BY <2>3, <3>1, TypeFound DEF SetTextAt, Refuse, Change, Reason
  <2> QED
    BY <1>2, <2>1, <2>2, <2>3
<1> QED
  BY <1>1, <1>2, AnsweredSays DEF put_Item

LEMMA AddSays ==
    ASSUME TypeOK, NEW v \in Variant, NEW head \in BOOLEAN, AddValue(v, head)
    PROVE  SaysWhy
<1> DEFINE at   == IF head THEN 0 ELSE Len(cells)
           to   == OwnType(v.vt)
           type == IF IsNarrow(v.vt) THEN Unset ELSE to
<1>1. CASE NotStored("add", at, v)
  BY <1>1, RefusedSays DEF NotStored, DISP_E_TYPEMISMATCH, MSGC
<1>2. ASSUME NEW n, Answered("add", at, v),
             \/ to \in IntType /\ AddInt(n, type, head)
             \/ to = Double /\ AddReal(Unset, head)
             \/ to = BStr /\ AddText(n, head)
      PROVE  Reason("add", at, v)
  <2>1. Double # Unset /\ IsRealType(Double) /\ IsIntType(Int32)
    BY TypeFacts DEF IsRealType, Double, Unset, Plain
  <2>2. to \in IntType => IsIntType(to)
    BY TypeFacts
  <2>3. out' \in {"S_OK", "E_CORE", "E_LIMIT"} /\ (out' # "S_OK" => cells' = cells)
    <3>1. CASE to \in IntType /\ AddInt(n, type, head)
      BY <2>1, <2>2, <3>1 DEF AddInt, Add, Refuse, Change
    <3>2. CASE to = Double /\ AddReal(Unset, head)
      BY <2>1, <3>2 DEF AddReal, Add, Refuse, Change
    <3>3. CASE to = BStr /\ AddText(n, head)
      BY <3>3 DEF AddText, Add, Refuse, Change
    <3> QED
      BY <1>2, <3>1, <3>2, <3>3
  <2> QED
    BY <2>3 DEF Reason
<1> QED
  BY <1>1, <1>2, AnsweredSays DEF AddValue

LEMMA DeclareSays ==
    ASSUME TypeOK, NEW v \in Variant, DeclareVariant(v)
    PROVE  SaysWhy
<1> DEFINE to   == OwnType(v.vt)
           type == IF IsNarrow(v.vt) THEN Unset ELSE to
<1>1. CASE NotStored("declare", 0, v)
  BY <1>1, RefusedSays DEF NotStored, DISP_E_TYPEMISMATCH, MSGC
<1>2. ASSUME NEW n, Answered("declare", 0, v),
             \/ to \in IntType /\ RedeclareInt(n, type)
             \/ to = Double /\ RedeclareReal(Unset)
             \/ to = BStr /\ RedeclareText(n)
             \/ RedeclarePlain(Blob)
             \/ DeclareAnew
      PROVE  Reason("declare", 0, v)
  <2>1. Double # Unset /\ IsRealType(Double) /\ IsIntType(Int32)
    BY TypeFacts DEF IsRealType, Double, Unset, Plain
  <2>2. to \in IntType => IsIntType(to)
    BY TypeFacts
  <2>3. out' \in {"S_OK", "E_CORE", "E_LIMIT", "E_EXISTS"} /\ (out' # "S_OK" => cells' = cells)
    <3>1. CASE to \in IntType /\ RedeclareInt(n, type)
      BY <2>1, <2>2, <3>1 DEF RedeclareInt, Redeclared, Refuse, Change
    <3>2. CASE to = Double /\ RedeclareReal(Unset)
      BY <2>1, <3>2 DEF RedeclareReal, Redeclared, Refuse, Change
    <3>3. CASE to = BStr /\ RedeclareText(n)
      BY <3>3 DEF RedeclareText, Redeclared, Refuse, Change
    <3>4. CASE RedeclarePlain(Blob) \/ DeclareAnew
      BY <3>4 DEF RedeclarePlain, DeclareAnew, Redeclared, Refuse, Change
    <3> QED
      BY <1>2, <3>1, <3>2, <3>3, <3>4
  <2> QED
    BY <2>3 DEF Reason
<1> QED
  BY <1>1, <1>2, AnsweredSays DEF DeclareVariant

LEMMA DeclareTypedSays ==
    ASSUME TypeOK, NEW v \in Variant, NEW t \in Asked, DeclareTypedVariant(v, t)
    PROVE  SaysWhy
<1>1. CASE \E hr \in {MSGC.E_TYPE, DISP_E_TYPEMISMATCH} : Refused("typed", 0, v, hr)
  BY <1>1, RefusedSays DEF DISP_E_TYPEMISMATCH, MSGC
<1>2. ASSUME NEW n, Answered("typed", 0, v),
             \/ RedeclareInt(n, t) \/ RedeclareReal(t) \/ RedeclareText(n) \/ RedeclarePlain(t)
             \/ DeclareAnew
      PROVE  Reason("typed", 0, v)
  <2>1. /\ out' \in {"S_OK", "E_CORE", "E_LIMIT", "E_EXISTS", "E_TYPE", "E_NAME"}
        /\ out' # "S_OK" => cells' = cells
    BY <1>2 DEF RedeclareInt, RedeclareReal, RedeclareText, RedeclarePlain, DeclareAnew,
                Redeclared, Refuse, Change
  <2> QED
    BY <2>1 DEF Reason
<1> QED
  BY <1>1, <1>2, AnsweredSays DEF DeclareTypedVariant

LEMMA FieldSays ==
    ASSUME TypeOK, OnField
    PROVE  SaysWhy
<1>0. Nothing.vt = Empty /\ Len(cells) \in Nat
  BY LenProperties DEF Nothing, TypeOK
<1>1. CASE get_Item(0)
  BY <1>1, <1>0, RefusedSays DEF get_Item, IsCell, MSGC
<1>2. ASSUME NEW n \in Values(BStr), put_Text(n) PROVE SaysWhy
  <2> DEFINE v == [vt |-> BStr, n |-> n]
  <2>1. v.vt = BStr /\ BStr \notin IntType
    BY DEF IntType, BStr, Bool, Plain
  <2>2. Reason("text", 0, v)
    BY <1>0, <1>2, <2>1, TypeFound DEF put_Text, SetTextAt, Refuse, Change, Reason, IsCell
  <2> QED
    BY <1>2, <2>2, AnsweredSays DEF put_Text
<1>3. ASSUME NEW t \in Asked, RetypeChild(t) PROVE SaysWhy
  <2>1. Reason("retype", 0, Nothing)
    BY <1>0, <1>3 DEF RetypeChild, Retype, Redeclared, Refuse, Change, Reason
  <2> QED
    BY <1>3, <2>1, AnsweredSays DEF RetypeChild
<1>4. ASSUME NEW v \in Variant, put_Value(v) PROVE SaysWhy
  <2>1. CASE v.vt = Blob \/ GetTypeAt(0) \in {Blob, Guid}
    <3>1. FromFacade(MSGF.E_TYPE) = MSGC.E_TYPE
      BY Codes
    <3>2. Refused("put", 0, v, MSGC.E_TYPE)
      BY <1>4, <2>1, <3>1 DEF put_Value
    <3>3. MSGC.E_TYPE # MSGC.E_RANGE
      BY DEF MSGC
    <3> QED
      BY <2>1, <3>2, <3>3, RefusedSays
  <2>2. CASE ~(v.vt = Blob \/ GetTypeAt(0) \in {Blob, Guid})
    BY <1>4, <2>2, PutSays DEF put_Value
  <2> QED
    BY <2>1, <2>2
<1> QED
  BY <1>1, <1>2, <1>3, <1>4, DeclareSays, DeclareTypedSays DEF OnField

LEMMA ListSays ==
    ASSUME TypeOK, OnCollection \/ OnComList
    PROVE  SaysWhy
<1>0. Nothing.vt = Empty /\ Len(cells) \in Nat
  BY LenProperties DEF Nothing, TypeOK
<1>1. ASSUME NEW i \in 0..MaxCells, get_Item(i) PROVE SaysWhy
  BY <1>1, <1>0, RefusedSays, ContainerAssumption DEF get_Item, IsCell, MSGC
<1>2. ASSUME NEW i \in 0..MaxCells, RemoveCell(i) PROVE SaysWhy
  <2>1. /\ call'.op = "remove" /\ call'.hr = 0
        /\ call'.bumped = (out' = "S_OK")
    BY <1>2 DEF RemoveCell
  <2>2. cells' # cells => out' = "S_OK"
    BY <1>2 DEF RemoveCell, DeleteAt, Refuse, Change
  <2>3. 0 \notin {MSGC.E_RANGE, MSGC.E_TYPE, MSGC.E_LIMIT, MSGC.E_NAME, MSGC.E_KERNEL,
                  MSGC.E_DECLARE}
    BY DEF MSGC
  <2> QED
    BY <2>1, <2>2, <2>3 DEF SaysWhy
<1>3. ASSUME Truncate, Answered("truncate", 0, Nothing) PROVE SaysWhy
  <2>1. Reason("truncate", 0, Nothing)
    BY <1>3 DEF Truncate, Change, Reason
  <2> QED
    BY <1>3, <2>1, AnsweredSays
<1>4. ASSUME NEW head \in BOOLEAN, Drop(head), Answered("drop", 0, Nothing) PROVE SaysWhy
  <2>1. cells = <<>> => 0 >= Len(cells)
    BY <1>0, EmptySeq DEF TypeOK
  <2>2. Reason("drop", 0, Nothing)
    BY <1>4, <2>1 DEF Drop, Change, Refuse, Reason
  <2> QED
    BY <1>4, <2>2, AnsweredSays
<1>5. OnCollection => SaysWhy
  BY <1>1, <1>2, <1>3, PutSays, ContainerAssumption DEF OnCollection
<1> QED
  BY <1>4, <1>5, AddSays DEF OnComList

(* A refused client is told the reason that is true of its call, in this    *)
(* tier's vocabulary, and a refused call changes nothing (RefusalSaysWhy).  *)
THEOREM RefusalsSayWhy == ComSpec => RefusalSaysWhy
<1>1. ComSpec => []TypeOK
  BY ComCallsAreFacadeCalls, ContainerInvariant, PTL
<1>2. ASSUME TypeOK, ComNext PROVE SaysWhy
  <2>1. FacadeProgram => SaysWhy
    BY DEF FacadeProgram, NoCall, SaysWhy
  <2> QED
    BY <1>2, <2>1, ListSays, FieldSays DEF ComNext
<1>3. TypeOK /\ [ComNext]_cvars => [SaysWhy]_cvars
  BY <1>2
<1> QED
  BY <1>1, <1>3, PTL DEF ComSpec, RefusalSaysWhy, SaysWhy

-----------------------------------------------------------------------------
(***************************************************************************)
(* ValuesCrossIntact.                                                      *)
(***************************************************************************)

(* The numbers a client may give are long longs or too large for one.       *)
LEMMA NumbersGiven ==
    ASSUME NEW v \in Variant, v.vt \in IntType
    PROVE  v.n \in Int /\ (v.vt = Bool => v.n \in {0, 1})
<1>1. PICK t \in VarType : v \in [vt : {t}, n : Values(t)]
  BY DEF Variant
<1>2. v.vt = t /\ v.n \in Values(t)
  BY <1>1
<1>3. t = Bool => v.n \in {0, 1}
  <2>1. Bool # BStr /\ Bool.family \notin {"int", "uint"}
    BY DEF Bool, BStr, Plain
  <2> QED
    BY <1>2, <2>1 DEF Values
<1>4. t # Bool => /\ t.width \in Width /\ Half[t.width] \in Nat
                  /\ t.family \in {"int", "uint"}
  BY <1>2, ContainerAssumption DEF IntType
<1>5. t # Bool => v.n \in Int
  <2>1. t # Bool => t # BStr
    BY <1>2 DEF IntType, BStr, Plain
  <2>2. t # Bool => \/ v.n \in -Half[t.width] .. Half[t.width] - 1
                    \/ v.n \in 0 .. 2 * Half[t.width] - 1
    BY <1>2, <1>4, <2>1 DEF Values
  <2> QED
    BY <1>4, <2>2
<1> QED
  BY <1>2, <1>3, <1>5

(* Putting a number that fits in a Long through a Long keeps it.            *)
LEMMA LongKept ==
    ASSUME NEW t \in IntType, NEW n \in LongLong, FitsLong(n, t)
    PROVE  AsLong(n) = n
<1>1. Int32 \in IntType /\ Int32 # Bool /\ Int32.family = "int" /\ Int32.width = Natural
  BY TypeFacts DEF Int32, Bool, Plain
<1>2. Half[Natural] \in Nat /\ Half[Widest] \in Nat /\ n \in Int
  BY ContainerAssumption DEF LongLong
<1>3. IntFits(n, Int32)
  BY <1>1, <1>2 DEF FitsLong, IntFits
<1>4. Bits(n, Int32) = n % (2 * Half[Natural])
  BY <1>1 DEF Bits
<1> QED
  BY <1>1, <1>3, <1>4, FittingIsKept DEF AsLong

(* What a client reads of an integer cell is the number last given, a truth *)
(* of a Bool; of a text, its length.                                        *)
LEMMA ReadOfInt ==
    ASSUME NEW i \in Nat, IsCell(i), At(i) \in GoodCell(kind), IsIntType(At(i).type)
    PROVE  LET t == At(i).type
               g == At(i).given
               r == ReadValue(i)
           IN  /\ r.n = IF t = Bool THEN IF g = 0 THEN 0 ELSE 1 ELSE g
               /\ r.vt = IF t = Bool THEN Bool ELSE IF FitsLong(g, t) THEN Int32 ELSE I8
<1> DEFINE t == At(i).type
           g == At(i).given
<1>1. t \in IntType /\ t # Unset /\ g \in LongLong /\ IntFits(g, t) /\ At(i).bits = Bits(g, t)
  <2>1. t \in Asked
    BY TypeFacts DEF GoodCell, CellType
  <2> QED
    BY <2>1, TypeFacts DEF GoodCell, StoredOK
<1>2. GetTypeAt(i) = t /\ GetIntAt(i).value = IF t # Bool THEN g ELSE IF g = 0 THEN 0 ELSE 1
  BY <1>1, FittingIsKept DEF GetTypeAt, GetIntAt
<1>3. CASE t = Bool
  <2>1. Bool \notin {Float, Double, Blob, Text, Guid}
    BY <1>1, <1>3, TypeFacts
  <2>2. ReadValue(i) = [vt |-> Bool, n |-> IF g = 0 THEN 0 ELSE 1]
    BY <1>1, <1>2, <1>3, <2>1 DEF ReadValue
  <2> QED
    BY <1>3, <2>2
<1>4. CASE t # Bool
  <2>1. FitsLong(g, t) => AsLong(g) = g
    BY <1>1, LongKept
  <2>2. ReadValue(i) = IF FitsLong(g, t) THEN [vt |-> Int32, n |-> AsLong(g)]
                       ELSE [vt |-> I8, n |-> g]
    <3>1. t \notin {Float, Double, Blob, Text, Guid}
      BY TypeFacts
    <3> QED
      BY <1>1, <1>2, <1>4, <3>1 DEF ReadValue
  <2> QED
    BY <1>4, <2>1, <2>2
<1> QED
  BY <1>3, <1>4

LEMMA ReadOfText ==
    ASSUME NEW i \in Nat, IsCell(i), At(i) \in GoodCell(kind), At(i).type = Text
    PROVE  ReadValue(i) = [vt |-> BStr, n |-> At(i).given] /\ At(i).given \in Lengths
<1>1. ~IsIntType(Text) /\ Text \notin {Unset, Bool, Float, Double, Blob, Guid}
  BY TypeFacts DEF Text, Unset, Bool, Float, Double, Blob, Guid, Plain
<1>2. GetTypeAt(i) = Text /\ GetTextAt(i).value = At(i).given /\ At(i).given \in Lengths
  BY DEF GetTypeAt, GetTextAt, IsTextType, GoodCell, StoredOK
<1> QED
  BY <1>1, <1>2 DEF ReadValue

(* So it is with every cell.                                                *)
ReadsWell == \A i \in Nat : IsCell(i) => LET c == At(i) IN
    /\ GetTypeAt(i) = c.type
    /\ IsIntType(c.type) =>
         ReadValue(i).n = IF c.type = Bool THEN IF c.given = 0 THEN 0 ELSE 1 ELSE c.given
    /\ IsTextType(c.type) => ReadValue(i).n = c.given

LEMMA CellIsGood ==
    ASSUME IInv, NEW i \in Nat, IsCell(i)
    PROVE  At(i) \in GoodCell(kind) /\ i + 1 \in 1..Len(cells)
  BY ElementOfSeq, LenProperties DEF IInv, IsCell, At

LEMMA Reads == IInv => ReadsWell
<1> SUFFICES ASSUME IInv, NEW i \in Nat, IsCell(i)
             PROVE  LET c == At(i) IN
                    /\ GetTypeAt(i) = c.type
                    /\ IsIntType(c.type) =>
                         ReadValue(i).n = IF c.type = Bool THEN IF c.given = 0 THEN 0 ELSE 1
                                          ELSE c.given
                    /\ IsTextType(c.type) => ReadValue(i).n = c.given
  BY DEF ReadsWell
<1> QED
  BY CellIsGood, ReadOfInt, ReadOfText DEF GetTypeAt, IsTextType

(* A cell c that was given what the client's value v means.                 *)
Means(c, v) ==
    /\ v.vt \in IntType /\ IsIntType(c.type) =>
         IF c.type = Bool THEN c.given = 0 <=> v.n = 0 ELSE c.given = AsNumber(v)
    /\ v.vt = BStr /\ IsTextType(c.type) => c.given = v.n

(* A call that went well and wrote it reads back so.                        *)
Wrote(i, v) == i + 1 \in DOMAIN cells' /\ Means(cells'[i + 1], v)

LEMMA WrittenReads ==
    ASSUME IInv', NEW i \in Nat, NEW v, call'.i = i, call'.v = v, Wrote(i, v)
    PROVE  WrittenIsRead'
<1>1. ReadsWell'
  BY Reads, PTL
<1>2. cells' \in Seq(CellType')
  BY DEF IInv, TypeOK
<1>3. IsCell(i)'
  BY <1>2, LenProperties DEF IsCell, Wrote
<1>4. At(i)' = cells'[i + 1]
  BY DEF At
<1> QED
  BY <1>1, <1>3, <1>4 DEF ReadsWell, WrittenIsRead, Wrote, Means

(* The facade answers every call with one of its codes.                     *)
LEMMA Outs ==
    ASSUME NEW op, NEW i, NEW v, Answered(op, i, v),
           out' \in {"S_OK", "E_CORE", "E_NAME", "E_TYPE", "E_RANGE", "E_EXISTS", "E_LIMIT"}
    PROVE  /\ call'.hr = 0 <=> out' = "S_OK"
           /\ call'.i = i /\ call'.v = v /\ call'.op = op
<1>1. call'.hr = FromFacade(MSGF[out'])
  BY DEF Answered
<1> QED
  BY <1>1, Codes DEF Answered, MSGC

(* What a number or a text comes to on its way into a cell of type t.       *)
LEMMA GivenMeans ==
    ASSUME NEW v \in Variant
    PROVE  /\ v.vt \in IntType => \A n \in ChangeType(v, I8) : n = AsNumber(v)
           /\ v.vt \in IntType => \A n \in ChangeType(v, Bool) : n = 0 <=> v.n = 0
           /\ v.vt \in IntType => (AsNumber(v) = 0 <=> v.n = 0)
           /\ v.vt \in IntType \ {Bool} => \A n \in ChangeType(v, Int32) : n = AsNumber(v)
           /\ v.vt = BStr => \A n \in ChangeType(v, BStr) : n = v.n
<1>1. v.vt \in IntType => v.vt \notin {Blob, Null, BStr, Object, Float, Double}
  BY DEF IntType, Bool, Blob, Null, BStr, Object, Float, Double, Plain
<1>2. Bool # BStr /\ Bool # Double /\ Int32 \notin {BStr, Bool, Double}
  BY DEF Bool, BStr, Double, Int32, Plain
<1>3. v.vt \in IntType => \A n \in ChangeType(v, Bool) : n = 0 <=> v.n = 0
  <2>1. CASE v.vt = Bool
    BY <2>1 DEF ChangeType
  <2>2. CASE v.vt # Bool /\ v.vt \in IntType
    <3>1. ChangeType(v, Bool) = {IF v.n = 0 THEN 0 ELSE 1}
      BY <1>1, <1>2, <2>2 DEF ChangeType
    <3> QED
      BY <3>1
  <2> QED
    BY <2>1, <2>2
<1>4. v.vt \in IntType => (AsNumber(v) = 0 <=> v.n = 0)
  BY NumbersGiven DEF AsNumber
<1>5. v.vt \in IntType \ {Bool} => \A n \in ChangeType(v, Int32) : n = AsNumber(v)
  BY <1>1, <1>2 DEF ChangeType, AsNumber
<1>6. v.vt = BStr => \A n \in ChangeType(v, BStr) : n = v.n
  BY DEF ChangeType
<1> QED
  BY <1>3, <1>4, <1>5, <1>6, NumberKept

LEMMA PutWrites ==
    ASSUME IInv, NEW i \in Nat, NEW v \in Variant, put_Item(i, v)
    PROVE  call'.i = i /\ call'.v = v /\ (call'.hr = 0 => Wrote(i, v))
<1> DEFINE t == GetTypeAt(i)
<1>1. CASE Refused("put", i, v, DISP_E_TYPEMISMATCH)
  BY <1>1 DEF Refused, DISP_E_TYPEMISMATCH
<1>2. ASSUME NEW n \in ChangeType(v, Wanted(t)), Answered("put", i, v),
             \/ IsIntType(t) /\ SetIntAt(i, n)
             \/ IsRealType(t) /\ SetRealAt(i)
             \/ ~IsIntType(t) /\ ~IsRealType(t) /\ SetTextAt(i, n)
      PROVE  call'.i = i /\ call'.v = v /\ (call'.hr = 0 => Wrote(i, v))
  <2>1. out' \in {"S_OK", "E_RANGE", "E_TYPE", "E_LIMIT"}
    BY <1>2 DEF SetIntAt, SetRealAt, SetTextAt, Refuse, Change
  <2>2. ASSUME out' = "S_OK" PROVE Wrote(i, v)
    <3>1. IsCell(i)
      BY <1>2, <2>2 DEF SetIntAt, SetRealAt, SetTextAt, Refuse, Change
    <3>2. t = At(i).type /\ At(i) \in CellType /\ i + 1 \in DOMAIN cells /\ t \in Asked
      BY <3>1, CellIsGood, LenProperties, TypeFacts DEF GetTypeAt, GoodCell, CellType, IInv, TypeOK
    <3>3. CASE IsIntType(t) /\ SetIntAt(i, n)
      <4>1. cells' = Rewritten(i, Bits(n, t), n)
        BY <2>2, <3>2, <3>3 DEF SetIntAt, Refuse, Change
      <4>2. i + 1 \in DOMAIN cells' /\ cells'[i + 1].type = t /\ cells'[i + 1].given = n
        BY <3>2, <4>1 DEF Rewritten, At, CellType
      <4>3. v.vt \in IntType => IF t = Bool THEN n = 0 <=> v.n = 0 ELSE n = AsNumber(v)
        BY <3>3, GivenMeans DEF Wanted
      <4>4. ~IsTextType(t)
        BY <3>2, <3>3, TypeFacts DEF IsTextType
      <4> QED
        BY <4>2, <4>3, <4>4 DEF Wrote, Means
    <3>4. CASE IsRealType(t) /\ SetRealAt(i)
      <4>1. cells' = cells
        BY <2>2, <3>4 DEF SetRealAt, Refuse, Change
      <4>2. ~IsIntType(t) /\ ~IsTextType(t)
        BY <3>4, TypeFacts DEF IsTextType, IsRealType
      <4> QED
        BY <3>2, <4>1, <4>2 DEF Wrote, Means, At
    <3>5. CASE ~IsIntType(t) /\ ~IsRealType(t) /\ SetTextAt(i, n)
      <4>1. cells' = Rewritten(i, n, n)
        BY <2>2, <3>5 DEF SetTextAt, Refuse, Change
      <4>2. i + 1 \in DOMAIN cells' /\ cells'[i + 1].type = t /\ cells'[i + 1].given = n
        BY <3>2, <4>1 DEF Rewritten, At, CellType
      <4>3. v.vt = BStr => n = v.n
        <5>1. Wanted(t) = BStr
          BY <3>5, IsTarget
        <5> QED
          BY <5>1, GivenMeans
      <4> QED
        BY <3>5, <4>2, <4>3 DEF Wrote, Means
    <3> QED
      BY <1>2, <3>3, <3>4, <3>5
  <2> QED
    BY <1>2, <2>1, <2>2, Outs
<1> QED
  BY <1>1, <1>2 DEF put_Item

(* A cell that was just made of the number n, at the type t, or of a text.  *)
LEMMA MadeMeans ==
    ASSUME NEW v \in Variant
    PROVE  /\ \A n, t : v.vt \in IntType \cup {BStr}
                        /\ (v.vt = BStr => ~IsTextType(t))
                        /\ (v.vt \in IntType =>
                              IF t = Bool THEN n = 0 <=> v.n = 0 ELSE n = AsNumber(v))
                        => Means(IntCell(n, t), v)
           /\ v.vt \notin IntType \cup {BStr} => \A c : Means(c, v)
           /\ \A n : (v.vt = BStr => n = v.n) => Means(TextCell(n), v)
           /\ \A t \in {Float, Double, Blob, Guid} : Means(PlainCell(t), v)
<1>1. ~IsIntType(Text)
  BY TypeFacts
<1>2. \A t \in {Float, Double, Blob, Guid} : ~IsIntType(t) /\ ~IsTextType(t)
  BY TypeFacts DEF IsTextType
<1> QED
  BY <1>1, <1>2 DEF Means, IntCell, TextCell, PlainCell

(* A number stored at its own type, the natural one if that is narrow.      *)
LEMMA StoredMeans ==
    ASSUME NEW v \in Variant, OwnType(v.vt) \in IntType, NEW n \in ChangeType(v, OwnType(v.vt))
    PROVE  LET type == IF IsNarrow(v.vt) THEN Unset ELSE OwnType(v.vt)
           IN  Means(IntCell(n, IF type = Unset THEN Int32 ELSE type), v)
<1> DEFINE to   == OwnType(v.vt)
           type == IF IsNarrow(v.vt) THEN Unset ELSE to
           t    == IF type = Unset THEN Int32 ELSE type
<1>1. v.vt \in IntType /\ Int32 # Bool /\ I8 # Bool /\ Unset \notin IntType
  <2>1. v.vt \in IntType
    BY DEF OwnType, IsNarrow, IsWide, IntType, BStr, Double, Bool, Plain
  <2> QED
    BY <2>1 DEF Int32, I8, Bool, Unset, IntType, Plain
<1>2. IF t = Bool THEN n = 0 <=> v.n = 0 ELSE n = AsNumber(v)
  <2>1. CASE v.vt = Bool
    <3>1. to = Bool /\ t = Bool
      BY <1>1, <2>1 DEF OwnType, IsNarrow, IsWide, Float, Double, Bool, Plain
    <3> QED
      BY <3>1, <1>1, GivenMeans
  <2>2. CASE v.vt # Bool /\ IsNarrow(v.vt)
    <3>1. to = Int32 /\ t = Int32
      BY <2>2 DEF OwnType, IsNarrow, IsWide, IntType, Float, Double, Plain
    <3> QED
      BY <1>1, <2>2, <3>1, GivenMeans
  <2>3. CASE v.vt # Bool /\ ~IsNarrow(v.vt)
    <3>1. to = I8 /\ t = I8
      BY <1>1, <2>3 DEF OwnType, IsNarrow, IsWide, IntType, Float, Double, Plain
    <3> QED
      BY <1>1, <2>3, <3>1, GivenMeans
  <2> QED
    BY <2>1, <2>2, <2>3
<1>3. v.vt # BStr
  BY <1>1 DEF IntType, BStr, Bool, Plain
<1>4. Means(IntCell(n, t), v)
  BY <1>1, <1>2, <1>3, MadeMeans
<1> QED
  BY <1>4

LEMMA AddWrites ==
    ASSUME IInv, NEW v \in Variant, NEW head \in BOOLEAN, AddValue(v, head)
    PROVE  call'.i \in Nat /\ (call'.hr = 0 => Wrote(call'.i, call'.v))
<1> DEFINE at   == IF head THEN 0 ELSE Len(cells)
           to   == OwnType(v.vt)
           type == IF IsNarrow(v.vt) THEN Unset ELSE to
<1>0. cells \in Seq(CellType) /\ at \in Nat
  BY LenProperties DEF IInv, TypeOK
<1>1. CASE NotStored("add", at, v)
  BY <1>0, <1>1 DEF NotStored, Refused, DISP_E_TYPEMISMATCH, MSGC
<1>2. ASSUME NEW c, Means(c, v), Add(c, head), out' = "S_OK" PROVE Wrote(at, v)
  <2>1. cells' = IF head THEN <<c>> \o cells ELSE Append(cells, c)
    BY <1>2 DEF Add, Refuse, Change
  <2>2. at + 1 \in DOMAIN cells' /\ cells'[at + 1] = c
    BY <1>0, <2>1
  <2> QED
    BY <1>2, <2>2 DEF Wrote
<1>3. ASSUME NEW n \in ChangeType(v, to), Answered("add", at, v),
             \/ to \in IntType /\ AddInt(n, type, head)
             \/ to = Double /\ AddReal(Unset, head)
             \/ to = BStr /\ AddText(n, head)
      PROVE  call'.i = at /\ call'.v = v /\ (call'.hr = 0 => Wrote(at, v))
  <2>1. Double # Unset /\ IsRealType(Double) /\ IsIntType(Int32)
    BY TypeFacts DEF IsRealType, Double, Unset, Plain
  <2>2. to \in IntType => IsIntType(to) /\ ~IsTextType(to)
    BY TypeFacts DEF IsTextType
  <2>3. CASE to \in IntType /\ AddInt(n, type, head)
    <3> DEFINE t == IF type = Unset THEN Int32 ELSE type
    <3>1. out' \in {"S_OK", "E_CORE", "E_LIMIT"} /\ (out' = "S_OK" => Add(IntCell(n, t), head))
      BY <2>1, <2>2, <2>3 DEF AddInt, Add, Refuse, Change
    <3>2. Means(IntCell(n, t), v)
      BY <2>3, StoredMeans
    <3> QED
      BY <1>2, <1>3, <3>1, <3>2, Outs
  <2>4. CASE to = Double /\ AddReal(Unset, head)
    <3>1. out' \in {"S_OK", "E_CORE"} /\ (out' = "S_OK" => Add(PlainCell(Double), head))
      BY <2>1, <2>4 DEF AddReal, Add, Refuse, Change
    <3> QED
      BY <1>2, <1>3, <3>1, MadeMeans, Outs
  <2>5. CASE to = BStr /\ AddText(n, head)
    <3>1. out' \in {"S_OK", "E_CORE", "E_LIMIT"} /\ (out' = "S_OK" => Add(TextCell(n), head))
      BY <2>5 DEF AddText, Add, Refuse, Change
    <3>2. Means(TextCell(n), v)
      BY <2>5, MadeMeans, GivenMeans
    <3> QED
      BY <1>2, <1>3, <3>1, <3>2, Outs
  <2> QED
    BY <1>3, <2>3, <2>4, <2>5
<1> QED
  BY <1>0, <1>1, <1>3 DEF AddValue

(* What a node was declared as is its one cell.                             *)
LEMMA RedeclaredWrites ==
    ASSUME NEW c, NEW v, Means(c, v), Redeclared(c), out' = "S_OK"
    PROVE  Wrote(0, v)
<1>1. cells' = <<c>>
  BY DEF Redeclared, Refuse, Change
<1> QED
  BY <1>1 DEF Wrote

LEMMA DeclareWrites ==
    ASSUME NEW v \in Variant, DeclareVariant(v)
    PROVE  call'.i = 0 /\ (call'.hr = 0 => Wrote(0, call'.v))
<1> DEFINE to   == OwnType(v.vt)
           type == IF IsNarrow(v.vt) THEN Unset ELSE to
           t    == IF type = Unset THEN Int32 ELSE type
<1>1. CASE NotStored("declare", 0, v)
  BY <1>1 DEF NotStored, Refused, DISP_E_TYPEMISMATCH, MSGC
<1>2. ASSUME NEW n \in ChangeType(v, to), to \in IntType, RedeclareInt(n, type)
      PROVE  out' \in {"S_OK", "E_CORE", "E_LIMIT"} /\ (out' = "S_OK" => Wrote(0, v))
  <2>1. IsIntType(t)
    BY <1>2, TypeFacts
  <2>2. out' \in {"S_OK", "E_CORE", "E_LIMIT"} /\ (out' = "S_OK" => Redeclared(IntCell(n, t)))
    BY <1>2, <2>1 DEF RedeclareInt, Redeclared, Refuse, Change
  <2> QED
    BY <1>2, <2>2, StoredMeans, RedeclaredWrites
<1>3. ASSUME RedeclareReal(Unset)
      PROVE  out' \in {"S_OK", "E_CORE"} /\ (out' = "S_OK" => Wrote(0, v))
  <2>1. IsRealType(Double)
    BY DEF IsRealType
  <2>2. out' \in {"S_OK", "E_CORE"} /\ (out' = "S_OK" => Redeclared(PlainCell(Double)))
    BY <1>3, <2>1 DEF RedeclareReal, Redeclared, Refuse, Change
  <2> QED
    BY <2>2, MadeMeans, RedeclaredWrites
<1>4. ASSUME NEW n \in ChangeType(v, to), to = BStr, RedeclareText(n)
      PROVE  out' \in {"S_OK", "E_CORE", "E_LIMIT"} /\ (out' = "S_OK" => Wrote(0, v))
  <2>1. out' \in {"S_OK", "E_CORE", "E_LIMIT"} /\ (out' = "S_OK" => Redeclared(TextCell(n)))
    BY <1>4 DEF RedeclareText, Redeclared, Refuse, Change
  <2>2. Means(TextCell(n), v)
    BY <1>4, MadeMeans, GivenMeans
  <2> QED
    BY <2>1, <2>2, RedeclaredWrites
<1>5. ASSUME DeclareAnew \/ RedeclarePlain(Blob)
      PROVE  out' \in {"S_OK", "E_CORE", "E_LIMIT", "E_EXISTS"} /\ (out' = "S_OK" => Wrote(0, v))
  <2>1. /\ out' \in {"S_OK", "E_CORE", "E_LIMIT", "E_EXISTS"}
        /\ out' = "S_OK" => Redeclared(PlainCell(Blob))
    BY <1>5 DEF DeclareAnew, RedeclarePlain, Redeclared, Refuse, Change
  <2> QED
    BY <2>1, MadeMeans, RedeclaredWrites
<1> QED
  BY <1>1, <1>2, <1>3, <1>4, <1>5, Outs DEF DeclareVariant

LEMMA DeclareTypedWrites ==
    ASSUME NEW v \in Variant, NEW t \in Asked, DeclareTypedVariant(v, t)
    PROVE  call'.i = 0 /\ (call'.hr = 0 => Wrote(0, call'.v))
<1>1. CASE \E hr \in {MSGC.E_TYPE, DISP_E_TYPEMISMATCH} : Refused("typed", 0, v, hr)
  BY <1>1 DEF Refused, DISP_E_TYPEMISMATCH, MSGC
<1>2. ASSUME NEW n \in ChangeType(v, I8), t \in IntType, RedeclareInt(n, t)
      PROVE  out' \in {"S_OK", "E_CORE", "E_LIMIT"} /\ (out' = "S_OK" => Wrote(0, v))
  <2>1. IsIntType(t) /\ t # Unset /\ ~IsTextType(t)
    BY <1>2, TypeFacts DEF IsTextType
  <2>2. out' \in {"S_OK", "E_CORE", "E_LIMIT"} /\ (out' = "S_OK" => Redeclared(IntCell(n, t)))
    BY <1>2, <2>1 DEF RedeclareInt, Redeclared, Refuse, Change
  <2>3. Means(IntCell(n, t), v)
    BY <2>1, MadeMeans, GivenMeans
  <2> QED
    BY <2>2, <2>3, RedeclaredWrites
<1>3. ASSUME RedeclareReal(t), t \in {Float, Double}
      PROVE  out' \in {"S_OK", "E_CORE"} /\ (out' = "S_OK" => Wrote(0, v))
  <2>1. IsRealType(t) /\ t # Unset
    BY <1>3 DEF IsRealType, Float, Double, Unset, Plain
  <2>2. out' \in {"S_OK", "E_CORE"} /\ (out' = "S_OK" => Redeclared(PlainCell(t)))
    BY <1>3, <2>1 DEF RedeclareReal, Redeclared, Refuse, Change
  <2> QED
    BY <1>3, <2>2, MadeMeans, RedeclaredWrites
<1>4. ASSUME NEW n \in ChangeType(v, BStr), RedeclareText(n)
      PROVE  out' \in {"S_OK", "E_CORE", "E_LIMIT"} /\ (out' = "S_OK" => Wrote(0, v))
  <2>1. out' \in {"S_OK", "E_CORE", "E_LIMIT"} /\ (out' = "S_OK" => Redeclared(TextCell(n)))
    BY <1>4 DEF RedeclareText, Redeclared, Refuse, Change
  <2>2. Means(TextCell(n), v)
    BY <1>4, MadeMeans, GivenMeans
  <2> QED
    BY <2>1, <2>2, RedeclaredWrites
<1>5. ASSUME DeclareAnew \/ (t \in {Blob, Guid} /\ RedeclarePlain(t))
      PROVE  /\ out' \in {"S_OK", "E_CORE", "E_LIMIT", "E_NAME", "E_EXISTS"}
             /\ out' = "S_OK" => Wrote(0, v)
  <2>1. /\ out' \in {"S_OK", "E_CORE", "E_LIMIT", "E_NAME", "E_EXISTS"}
        /\ out' = "S_OK" => t \in {Blob, Guid} /\ Redeclared(PlainCell(t))
    BY <1>5 DEF DeclareAnew, RedeclarePlain, Redeclared, Refuse, Change
  <2> QED
    BY <2>1, MadeMeans, RedeclaredWrites
<1>6. CASE t \in IntType
  <2>1. t \notin {Float, Double} /\ t \notin {Text, BStr} /\ t \notin {Blob, Guid}
    BY <1>6, TypeFacts
  <2> QED
    BY <1>1, <1>2, <1>5, <1>6, <2>1, Outs DEF DeclareTypedVariant
<1>7. CASE t \in {Text, BStr}
  <2>1. t \notin IntType /\ t \notin {Float, Double} /\ t \notin {Blob, Guid}
    BY <1>7, TypeFacts DEF Text, BStr, Float, Double, Blob, Guid, Plain
  <2> QED
    BY <1>1, <1>4, <1>5, <1>7, <2>1, Outs DEF DeclareTypedVariant
<1>8. CASE t \notin IntType /\ t \notin {Text, BStr}
  <2>1. \/ \E hr \in {MSGC.E_TYPE, DISP_E_TYPEMISMATCH} : Refused("typed", 0, v, hr)
        \/ /\ Answered("typed", 0, v)
           /\ \/ t \in {Float, Double} /\ RedeclareReal(t)
              \/ t \in {Blob, Guid} /\ RedeclarePlain(t)
              \/ DeclareAnew
    BY <1>8 DEF DeclareTypedVariant
  <2> QED
    BY <1>1, <1>3, <1>5, <2>1, Outs
<1> QED
  BY <1>6, <1>7, <1>8

LEMMA TextWrites ==
    ASSUME IInv, NEW n \in Values(BStr), put_Text(n)
    PROVE  call'.i = 0 /\ (call'.hr = 0 => Wrote(0, call'.v))
<1> DEFINE v == [vt |-> BStr, n |-> n]
<1>1. out' \in {"S_OK", "E_RANGE", "E_TYPE", "E_LIMIT"}
  BY DEF put_Text, SetTextAt, Refuse, Change
<1>2. ASSUME out' = "S_OK" PROVE Wrote(0, v)
  <2>1. IsCell(0) /\ cells' = Rewritten(0, n, n)
    BY <1>2 DEF put_Text, SetTextAt, Refuse, Change
  <2>2. 0 + 1 \in DOMAIN cells /\ cells[0 + 1] \in CellType
    BY <2>1, CellIsGood, LenProperties DEF At, GoodCell, IInv, TypeOK
  <2>3. 0 + 1 \in DOMAIN cells' /\ cells'[0 + 1].given = n
    BY <2>1, <2>2 DEF Rewritten, CellType
  <2>4. v.vt = BStr /\ v.n = n /\ BStr \notin IntType
    BY TypeFacts
  <2> QED
    BY <2>3, <2>4 DEF Wrote, Means
<1> QED
  BY <1>1, <1>2, Outs DEF put_Text

(* What a client read it can write back, and nothing changes.               *)
LEMMA PutBack ==
    ASSUME IInv, NEW i \in Nat, IsCell(i), GetTypeAt(i) \notin {Blob, Guid},
           put_Item(i, ReadValue(i))
    PROVE  call'.hr = 0 /\ SameValues
<1> DEFINE t == GetTypeAt(i)
           v == ReadValue(i)
           g == At(i).given
<1>1. t = At(i).type /\ At(i) \in GoodCell(kind) /\ i + 1 \in DOMAIN cells /\ t \in Stored
  BY CellIsGood, LenProperties DEF GetTypeAt, GoodCell, CellType, IInv, TypeOK
<1>2. At(i) \in CellType /\ DOMAIN cells = 1..Len(cells)
      /\ \A j \in DOMAIN cells : cells[j] \in CellType
  BY <1>1, LenProperties, ElementOfSeq DEF GoodCell, IInv, TypeOK
<1>3. ASSUME NEW n, NEW b, cells' = Rewritten(i, b, n), b = At(i).bits PROVE SameValues
  BY <1>1, <1>2, <1>3 DEF SameValues, Rewritten, At, CellType
<1>4. CASE IsIntType(t)
  <2>1. t \in IntType /\ g \in LongLong /\ IntFits(g, t) /\ At(i).bits = Bits(g, t)
    BY <1>1, <1>4, TypeFacts DEF GoodCell, StoredOK
  <2>2. /\ v.n = IF t = Bool THEN IF g = 0 THEN 0 ELSE 1 ELSE g
        /\ v.vt = IF t = Bool THEN Bool ELSE IF FitsLong(g, t) THEN Int32 ELSE I8
    BY <1>1, <1>4, ReadOfInt
  <2>3. /\ Int32 # Bool /\ I8 # Bool
        /\ \A u \in {Int32, I8, Bool} : u \notin {Blob, Null, BStr, Object, Float, Double}
        /\ Int32 \in IntType /\ I8 \in IntType /\ Bool \in IntType
    BY ContainerAssumption, TypeFacts DEF Int32, I8, Bool, BStr, Double, Blob, Null, Object, Float,
                                          IntType, Plain
  <2>4. \E n : /\ ChangeType(v, Wanted(t)) = {n} /\ n \in LongLong
               /\ IntFits(n, t) /\ Bits(n, t) = Bits(g, t)
    <3>1. CASE t # Bool
      <4>1. Wanted(t) = I8
        BY <1>4, <3>1 DEF Wanted
      <4>2. AsNumber(v) = g /\ v.n = g
        BY <2>2, <2>3, <3>1 DEF AsNumber
      <4>3. v.vt = I8 => ChangeType(v, I8) = {g}
        BY <4>2 DEF ChangeType
      <4>4. v.vt # I8 => ChangeType(v, I8) = {g} \cap Values(I8)
        <5>1. v.vt = Int32 \/ v.vt = I8
          BY <2>2, <3>1
        <5> QED
          BY <5>1, <2>3, <4>2 DEF ChangeType
      <4>5. g \in Values(I8)
        BY <2>1, Handed
      <4> QED
        BY <2>1, <4>1, <4>3, <4>4, <4>5
    <3>2. CASE t = Bool
      <4>1. v.vt = Bool /\ v.n \in {0, 1} /\ (v.n = 0 <=> g = 0)
        BY <2>2, <3>2
      <4>2. \A n : IntFits(n, t)
        BY <3>2 DEF IntFits, Bool, Plain
      <4>3. 0 \in LongLong /\ 1 \in LongLong /\ -1 \in LongLong
        BY ContainerAssumption, ComAssumption DEF LongLong
      <4>4. CASE kind # "vect"
        <5>1. Wanted(t) = Bool /\ ChangeType(v, Bool) = {v.n}
          BY <3>2, <4>1, <4>4 DEF Wanted, ChangeType
        <5> QED
          BY <3>2, <4>1, <4>2, <4>3, <5>1 DEF Bits
      <4>5. CASE kind = "vect"
        <5>1. Wanted(t) = I8
          BY <1>4, <4>5 DEF Wanted
        <5>2. ChangeType(v, I8) = {-v.n} \cap Values(I8)
          BY <2>3, <4>1 DEF ChangeType, AsNumber
        <5>3. -v.n \in LongLong /\ ChangeType(v, I8) = {-v.n}
          BY <4>1, <4>3, <5>2, Handed
        <5>4. -v.n = 0 <=> g = 0
          BY <4>1
        <5>5. Bits(-v.n, t) = Bits(g, t)
          BY <3>2, <5>4 DEF Bits
        <5> QED
          BY <4>2, <5>1, <5>3, <5>5
      <4> QED
        BY <4>4, <4>5
    <3> QED
      BY <3>1, <3>2
  <2>5. PICK n : /\ ChangeType(v, Wanted(t)) = {n} /\ n \in LongLong
                 /\ IntFits(n, t) /\ Bits(n, t) = Bits(g, t)
    BY <2>4
  <2>6. ~CanFail(v, Wanted(t))
    <3>1. v.vt \in {Int32, I8, Bool}
      BY <2>2
    <3> QED
      BY <2>3, <2>5, <3>1 DEF CanFail
  <2>7. SetIntAt(i, n) /\ Answered("put", i, v)
    <3>1. ~IsRealType(t)
      BY <2>1, TypeFacts DEF IsRealType
    <3> QED
      BY <1>4, <2>5, <2>6, <3>1 DEF put_Item
  <2>8. out' = "S_OK" /\ cells' = Rewritten(i, Bits(n, t), n)
    BY <1>1, <1>4, <2>5, <2>7 DEF SetIntAt, Refuse, Change
  <2> QED
    BY <1>3, <2>1, <2>5, <2>7, <2>8, Outs
<1>5. CASE IsRealType(t)
  <2>1. t \in {Float, Double} /\ t \notin {Unset, Bool} /\ ~IsIntType(t)
    BY <1>5, TypeFacts DEF IsRealType, Float, Double, Unset, Bool, Plain
  <2>2. v = [vt |-> t, n |-> 0]
    BY <2>1 DEF ReadValue, Text, Guid, Float, Double, Plain
  <2>3. Wanted(t) = Double
    BY <1>5, <2>1 DEF Wanted
  <2>4. Values(Double) = {0} /\ Double \notin {Blob, Null, Object, BStr, Int32, I8}
        /\ Float \notin {Blob, Null, Object, BStr, Int32, I8}
    BY DEF Values, Double, Float, Bool, BStr, Blob, Null, Object, Int32, I8, Plain
  <2>5. ChangeType(v, Double) # {}
    BY <2>1, <2>2, <2>4 DEF ChangeType
  <2>6. ~CanFail(v, Wanted(t))
    BY <2>1, <2>2, <2>3, <2>4, <2>5 DEF CanFail
  <2>7. SetRealAt(i) /\ Answered("put", i, v)
    BY <1>5, <2>1, <2>6 DEF put_Item
  <2>8. out' = "S_OK" /\ cells' = cells
    BY <1>1, <1>5, <2>7 DEF SetRealAt, Refuse, Change
  <2> QED
    BY <2>7, <2>8, Outs DEF SameValues
<1>6. CASE ~IsIntType(t) /\ ~IsRealType(t)
  <2>1. t = Text
    BY <1>1, <1>6, TypeFacts DEF IsRealType, Stored
  <2>2. v = [vt |-> BStr, n |-> g] /\ g \in Lengths /\ At(i).bits = g
    BY <1>1, <2>1, ReadOfText DEF GoodCell, StoredOK
  <2>3. Wanted(t) = BStr /\ ChangeType(v, BStr) = {g}
    BY <1>6, <2>2, IsTarget DEF ChangeType
  <2>4. ~CanFail(v, Wanted(t))
    BY <2>2, <2>3 DEF CanFail, BStr, Object, Float, Double, Plain
  <2>5. SetTextAt(i, g) /\ Answered("put", i, v)
    BY <1>6, <2>3, <2>4 DEF put_Item
  <2>6. g \in Nat /\ ~(g > MaxText) /\ ~(g > At(i).bits)
    BY <2>2, ContainerAssumption DEF Lengths
  <2>7. out' = "S_OK" /\ cells' = Rewritten(i, g, g)
    BY <1>1, <2>1, <2>5, <2>6 DEF SetTextAt, Refuse, Change, IsTextType
  <2> QED
    BY <1>3, <2>2, <2>5, <2>7, Outs
<1> QED
  BY <1>4, <1>5, <1>6

\* Whatever a client of one of the three writes reads back as it meant it.
LEMMA WritesAreRead ==
    ASSUME IInv, IInv', ComNext
    PROVE  WrittenIsRead'
<1>1. ASSUME call'.i \in Nat, call'.hr = 0 => Wrote(call'.i, call'.v) PROVE WrittenIsRead'
  <2>1. CASE call'.hr = 0
    BY <1>1, <2>1, WrittenReads
  <2>2. CASE call'.hr # 0
    BY <2>2 DEF WrittenIsRead
  <2> QED
    BY <2>1, <2>2
<1>2. ASSUME call'.op \notin {"put", "text", "add", "declare", "typed"} PROVE WrittenIsRead'
  BY <1>2 DEF WrittenIsRead
<1>3. ASSUME NEW op, NEW i, NEW v, Answered(op, i, v) PROVE call'.op = op
  BY <1>3 DEF Answered
<1>4. ASSUME NEW i, get_Item(i) PROVE WrittenIsRead'
  <2>1. call'.op = "get"
    BY <1>4 DEF get_Item, Refused
  <2> QED
    BY <1>2, <2>1
<1>5. ASSUME OnCollection PROVE WrittenIsRead'
  <2>1. ASSUME NEW i \in 0..MaxCells, NEW v \in Variant, put_Item(i, v) PROVE WrittenIsRead'
    BY <1>1, <2>1, PutWrites, ContainerAssumption
  <2>2. ASSUME NEW i \in 0..MaxCells, RemoveCell(i) PROVE WrittenIsRead'
    BY <1>2, <2>2 DEF RemoveCell
  <2> QED
    BY <1>2, <1>3, <1>4, <1>5, <2>1, <2>2 DEF OnCollection
<1>6. ASSUME OnComList PROVE WrittenIsRead'
  BY <1>1, <1>2, <1>3, <1>5, <1>6, AddWrites DEF OnComList
<1>7. ASSUME NEW v \in Variant, put_Value(v) PROVE WrittenIsRead'
  <2>1. CASE Refused("put", 0, v, FromFacade(MSGF.E_TYPE))
    <3>1. call'.i = 0 /\ call'.hr # 0
      BY <2>1, Codes DEF Refused, MSGC
    <3> QED
      BY <1>1, <3>1
  <2> QED
    BY <1>1, <1>7, <2>1, PutWrites DEF put_Value
<1>8. ASSUME OnField PROVE WrittenIsRead'
  <2>1. ASSUME NEW t \in Asked, RetypeChild(t) PROVE WrittenIsRead'
    BY <1>2, <1>3, <2>1 DEF RetypeChild
  <2> QED
    BY <1>1, <1>4, <1>7, <1>8, <2>1, DeclareWrites, DeclareTypedWrites, TextWrites DEF OnField
<1>9. ASSUME FacadeProgram PROVE WrittenIsRead'
  BY <1>2, <1>9 DEF FacadeProgram, NoCall
<1> QED
  BY <1>5, <1>6, <1>8, <1>9 DEF ComNext

\* A put, in whatever call it came, is of an item, unless it is refused.
LEMMA WhichPut ==
    ASSUME IInv, ComNext, call'.op = "put", call'.i \in Nat, IsCell(call'.i),
           call'.v = ReadValue(call'.i), GetTypeAt(call'.i) \notin {Blob, Guid}
    PROVE  put_Item(call'.i, call'.v)
<1>1. ASSUME NEW i \in Nat, NEW v \in Variant, put_Item(i, v) PROVE put_Item(call'.i, call'.v)
  BY <1>1, PutWrites
<1>2. ASSUME NEW op, NEW i, NEW v, Answered(op, i, v) PROVE op = "put"
  BY <1>2 DEF Answered
<1>3. ASSUME NEW op, NEW i, NEW v, NEW hr, Refused(op, i, v, hr)
      PROVE  op = "put" /\ call'.i = i /\ call'.v = v
  BY <1>3 DEF Refused
<1>4. \A i : ~get_Item(i) /\ ~RemoveCell(i)
  BY <1>3 DEF get_Item, RemoveCell
<1>5. ASSUME OnCollection PROVE put_Item(call'.i, call'.v)
  BY <1>1, <1>2, <1>4, <1>5, ContainerAssumption DEF OnCollection
<1>6. ASSUME OnComList PROVE put_Item(call'.i, call'.v)
  <2>1. ASSUME NEW v, NEW head, AddValue(v, head) PROVE FALSE
    BY <1>2, <1>3, <2>1 DEF AddValue, NotStored
  <2> QED
    BY <1>2, <1>5, <1>6, <2>1 DEF OnComList
<1>7. ASSUME NEW v \in Variant, put_Value(v) PROVE put_Item(call'.i, call'.v)
  <2>1. CASE v.vt = Blob \/ GetTypeAt(0) \in {Blob, Guid}
    <3>1. call'.i = 0 /\ call'.v = v
      BY <1>3, <1>7, <2>1 DEF put_Value
    <3>2. ReadValue(0).vt = Blob /\ GetTypeAt(0) \notin {Blob, Guid}
      BY <2>1, <3>1
    <3>3. GetTypeAt(0) = At(0).type /\ At(0) \in GoodCell(kind) /\ GetTypeAt(0) \in Stored
      BY <3>1, CellIsGood DEF GetTypeAt, GoodCell, CellType
    <3>4. /\ Blob \notin {Int32, I8, Bool, BStr, Float, Double}
          /\ Text \notin {Unset, Bool} /\ ~IsIntType(Text)
          /\ \A t \in {Float, Double} : t \notin {Unset, Bool, Text, Guid} /\ ~IsIntType(t)
      BY TypeFacts DEF Blob, Int32, I8, Bool, BStr, Float, Double, Text, Unset, Guid, Plain
    <3>5. CASE IsIntType(GetTypeAt(0))
      BY <3>1, <3>2, <3>3, <3>4, <3>5, ReadOfInt
    <3>6. CASE GetTypeAt(0) = Text
      BY <3>1, <3>2, <3>3, <3>4, <3>6, ReadOfText
    <3>7. CASE GetTypeAt(0) \in {Float, Double}
      <4>1. ReadValue(0).vt = GetTypeAt(0)
        BY <3>4, <3>7 DEF ReadValue
      <4> QED
        BY <3>2, <3>4, <3>7, <4>1
    <3>8. GetTypeAt(0) \in IntType => IsIntType(GetTypeAt(0))
      BY TypeFacts
    <3> QED
      BY <3>2, <3>3, <3>5, <3>6, <3>7, <3>8 DEF Stored
  <2> QED
    BY <1>1, <1>7, <2>1 DEF put_Value
<1>8. ASSUME OnField PROVE put_Item(call'.i, call'.v)
  <2>1. ASSUME NEW v, DeclareVariant(v) PROVE FALSE
    BY <1>2, <1>3, <2>1 DEF DeclareVariant, NotStored
  <2>2. ASSUME NEW v, NEW t, DeclareTypedVariant(v, t) PROVE FALSE
    BY <1>2, <1>3, <2>2 DEF DeclareTypedVariant
  <2> QED
    BY <1>2, <1>4, <1>7, <1>8, <2>1, <2>2 DEF OnField, put_Text, RetypeChild
<1>9. ~FacadeProgram
  BY DEF FacadeProgram, NoCall
<1> QED
  BY <1>5, <1>6, <1>8, <1>9 DEF ComNext

(* A number or a text a client writes and is told of no failure reads back  *)
(* as it was, across every conversion and width, and what it reads it can   *)
(* write back without changing anything (ValuesCrossIntact).                *)
THEOREM ValuesCross == ComSpec => ValuesCrossIntact
<1> DEFINE Crossed ==
        /\ WrittenIsRead'
        /\ \A i \in 0..Len(cells) - 1 :
             /\ call'.op = "put" /\ call'.i = i
             /\ call'.v = ReadValue(i) /\ GetTypeAt(i) \notin {Blob, Guid}
             => call'.hr = 0 /\ SameValues
<1>1. ComSpec => []IInv
  BY ComCallsAreFacadeCalls, ContainerInvariant, PTL
<1>2. IInv /\ IInv' /\ ComNext => Crossed
  <2> SUFFICES ASSUME IInv, IInv', ComNext PROVE Crossed
    OBVIOUS
  <2>1. ASSUME NEW i \in 0..Len(cells) - 1,
               call'.op = "put", call'.i = i,
               call'.v = ReadValue(i), GetTypeAt(i) \notin {Blob, Guid}
        PROVE  call'.hr = 0 /\ SameValues
    <3>1. Len(cells) \in Nat
      BY LenProperties DEF IInv
    <3>2. i \in Nat /\ IsCell(i)
      BY <3>1 DEF IsCell
    <3> QED
      BY <2>1, <3>2, WhichPut, PutBack
  <2> QED
    BY <2>1, WritesAreRead
<1>3. IInv /\ IInv' /\ [ComNext]_cvars => [Crossed]_cvars
  BY <1>2
<1> QED
  BY <1>1, <1>3, PTL DEF ComSpec, ValuesCrossIntact

=============================================================================
