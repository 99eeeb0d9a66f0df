--------------------------- MODULE FacadeContainer ---------------------------
(***************************************************************************)
(* The values of one list, one vect or one node, and the calls that write  *)
(* them (src/src/FacadeContainer.cpp, src/src/FacadeInternal.cpp).         *)
(*                                                                         *)
(* The values are a sequence of cells: those of a list, the elements of a  *)
(* vect, or the one value of a node.  Every call holds the store's lock    *)
(* and resolves the holder again, so it is one step; that the holder may   *)
(* be gone is FacadeTree's.  Of a text only the length is kept, of a real, *)
(* a blob or a GUID only its type.  Indices are below 2^31.                *)
(***************************************************************************)
EXTENDS Integers, SequencesExt

CONSTANTS
    Width,    \* widths of integers
    Half,     \* Half[w]: half the number of values of width w
    Natural,  \* the width of INT32
    Widest,   \* the width of a long long
    MaxText,  \* MAX_TEXT
    MaxCells  \* bound: cells of a list, elements of a declared vect

ASSUME ContainerAssumption ==
    /\ Natural \in Width /\ Widest \in Width
    /\ Half \in [Width -> Nat \ {0}]
    /\ \A w \in Width : Half[w] <= Half[Widest]
    /\ MaxText \in Nat /\ MaxCells \in Nat \ {0}

Plain(f) == [family |-> f, width |-> Natural]

Int32  == [family |-> "int", width |-> Natural]
Bool   == Plain("bool")
Float  == Plain("float")
Double == Plain("double")
Text   == Plain("text")     \* WSTR16
BStr   == Plain("bstr")     \* BSTR16
Blob   == Plain("blob")
Guid   == Plain("guid")
Unset  == Plain("unset")    \* 0: "the natural one"
Bogus  == Plain("bogus")    \* no type at all

IsIntType(t)  == t.family \in {"int", "uint", "bool"}
IsRealType(t) == t \in {Float, Double}
IsTextType(t) == t = Text

IntType == [family : {"int", "uint"}, width : Width] \cup {Bool}
Stored  == IntType \cup {Float, Double, Text, Blob, Guid}
Asked   == Stored \cup {BStr, Unset, Bogus}

LongLong == -Half[Widest] .. Half[Widest] - 1
Lengths  == 0 .. MaxText

VARIABLES
    kind,   \* "list", "vect" or "node"
    cells,  \* its cells
    dirty,  \* the store's modified flag
    out     \* the last call's HRESULT

vars == <<kind, cells, dirty, out>>

\* A cell's type and bits; and, for the properties, what its last writer gave
\* and the type and room it was created with.
CellType == [type : Stored, bits : Nat, given : Int, made : Stored, room : Nat]

TypeOK ==
    /\ kind \in {"list", "vect", "node"}
    /\ cells \in Seq(CellType)
    /\ dirty \in BOOLEAN

-----------------------------------------------------------------------------
(***************************************************************************)
(* Integers at their width.                                                *)
(***************************************************************************)

\* Mutant: one too many at the upper end of a signed type.
IntFitsOffByOne(v, t) ==
    CASE t.family = "int"  -> -Half[t.width] <= v /\ v <= Half[t.width]
      [] t.family = "uint" -> 0 <= v /\ v < 2 * Half[t.width]
      [] OTHER             -> t = Bool

\* Does v survive storage at the integer type t?
IntFits(v, t) ==
    CASE t.family = "int"  -> -Half[t.width] <= v /\ v < Half[t.width]
      [] t.family = "uint" -> 0 <= v /\ v < 2 * Half[t.width]
      [] OTHER             -> t = Bool

\* The cast to t.
Bits(v, t) ==
    IF t = Bool THEN IF v = 0 THEN 0 ELSE 1
    ELSE v % (2 * Half[t.width])

\* ReadAnyInt: into a long long, whatever the type.
AnyInt(bits, t) ==
    IF t = Bool \/ bits < Half[t.width] THEN bits
    ELSE IF t.family = "int" \/ t.width = Widest THEN bits - 2 * Half[t.width]
    ELSE bits

-----------------------------------------------------------------------------
(***************************************************************************)
(* Cells.                                                                  *)
(***************************************************************************)
IntCell(v, t) == [type |-> t, bits |-> Bits(v, t), given |-> v, made |-> t, room |-> 0]
PlainCell(t)  == [type |-> t, bits |-> 0, given |-> 0, made |-> t, room |-> 0]
TextCell(n)   == [type |-> Text, bits |-> n, given |-> n, made |-> Text, room |-> n]

\* DeclareZero: a retype writes a zero; a BSTR is never made.
ZeroCell(t) ==
    IF IsIntType(t) THEN IntCell(0, t)
    ELSE IF t \in {Text, BStr} THEN TextCell(0)
    ELSE PlainCell(t)

\* A vect's element prototype: what it does not know is an INT32.
MakeProto(t) == IF t \in {Blob, Guid, Unset, Bogus} THEN IntCell(0, Int32) ELSE ZeroCell(t)

Init ==
    /\ kind \in {"list", "vect", "node"}
    /\ cells \in CASE kind = "list" -> {<<>>}
                   [] kind = "vect" -> {[i \in 1..n |-> MakeProto(t)] : n \in 0..MaxCells, t \in Asked}
                   [] kind = "node" -> {<<ZeroCell(t)>> : t \in Stored}
    /\ dirty = TRUE
    /\ out = "S_OK"

Refuse(hr) ==
    /\ out' = hr
    /\ UNCHANGED <<kind, cells, dirty>>

\* Mutant: a change that does not reach MarkDirty.
ChangeUnflagged(cs) ==
    /\ cells' = cs
    /\ out' = "S_OK"
    /\ UNCHANGED <<kind, dirty>>

Change(cs) ==
    /\ cells' = cs
    /\ dirty' = TRUE
    /\ out' = "S_OK"
    /\ UNCHANGED kind

-----------------------------------------------------------------------------
(***************************************************************************)
(* Reading and writing one cell; indices count from 0.                     *)
(***************************************************************************)

\* ListCellAt, and the vect's test of the index: is there a cell there?
IsCell(i) == i < Len(cells)

At(i) == cells[i + 1]

\* GetTypeAt: past the end is an answer, not an error.
GetTypeAt(i) == IF IsCell(i) THEN At(i).type ELSE Unset

\* GetIntAt, GetTextAt.
GetIntAt(i) ==
    IF ~IsCell(i) THEN [hr |-> "E_RANGE"]
    ELSE IF ~IsIntType(At(i).type) THEN [hr |-> "E_TYPE"]
    ELSE [hr |-> "S_OK", value |-> AnyInt(At(i).bits, At(i).type)]

GetTextAt(i) ==
    IF ~IsCell(i) THEN [hr |-> "E_RANGE"]
    ELSE IF ~IsTextType(At(i).type) THEN [hr |-> "E_TYPE"]
    ELSE [hr |-> "S_OK", value |-> At(i).bits]

Rewritten(i, bits, v) == [cells EXCEPT ![i + 1].bits = bits, ![i + 1].given = v]

\* SetInt, SetIntAt: at the type the cell has.
SetIntAt(i, v) ==
    LET t == At(i).type IN
    \/ ~IsCell(i) /\ Refuse("E_RANGE")
    \/ IsCell(i) /\ ~IsIntType(t) /\ Refuse("E_TYPE")
    \/ IsCell(i) /\ IsIntType(t) /\ ~IntFits(v, t) /\ Refuse("E_LIMIT")
    \/ IsCell(i) /\ IsIntType(t) /\ IntFits(v, t) /\ Change(Rewritten(i, Bits(v, t), v))

SetRealAt(i) ==
    \/ ~IsCell(i) /\ Refuse("E_RANGE")
    \/ IsCell(i) /\ ~IsRealType(At(i).type) /\ Refuse("E_TYPE")
    \/ IsCell(i) /\ IsRealType(At(i).type) /\ Change(cells)

\* Mutant: every cell is let grow.
MayGrowAnywhere == TRUE

\* A list cell lives in the list's own block.
MayGrow == kind # "list"

\* SetText, SetTextAt.  What may not grow must fit the bytes in use; what may
\* can meet the kernel's own limit.
SetTextAt(i, n) ==
    LET isText == IsTextType(At(i).type)
        longer == n > At(i).bits
    IN  \/ ~IsCell(i) /\ Refuse("E_RANGE")
        \/ IsCell(i) /\ n > MaxText /\ Refuse("E_LIMIT")
        \/ IsCell(i) /\ n <= MaxText /\ ~isText /\ Refuse("E_TYPE")
        \/ IsCell(i) /\ n <= MaxText /\ isText /\ longer /\ Refuse("E_LIMIT")
        \/ /\ IsCell(i) /\ n <= MaxText /\ isText
           /\ longer => MayGrow
           /\ Change(Rewritten(i, n, n))

-----------------------------------------------------------------------------
(***************************************************************************)
(* A list's own calls.                                                     *)
(***************************************************************************)

\* AddListHead, AddListTail; the kernel may be out of room.
Add(c, head) ==
    \/ Refuse("E_CORE")
    \/ /\ Len(cells) < MaxCells
       /\ Change(IF head THEN <<c>> \o cells ELSE Append(cells, c))

\* The type is checked, then the value, then the list is resolved.
AddInt(v, type, head) ==
    LET t == IF type = Unset THEN Int32 ELSE type IN
    \/ ~IsIntType(t) /\ Refuse("E_TYPE")
    \/ IsIntType(t) /\ ~IntFits(v, t) /\ Refuse("E_LIMIT")
    \/ IsIntType(t) /\ IntFits(v, t) /\ Add(IntCell(v, t), head)

AddReal(type, head) ==
    LET t == IF type = Unset THEN Double ELSE type IN
    \/ ~IsRealType(t) /\ Refuse("E_TYPE")
    \/ IsRealType(t) /\ Add(PlainCell(t), head)

AddText(n, head) ==
    \/ n > MaxText /\ Refuse("E_LIMIT")
    \/ n <= MaxText /\ Add(TextCell(n), head)

\* Mutant: the store is not flagged modified.
DropUnflagged(head) ==
    \/ cells = <<>> /\ Refuse("E_RANGE")
    \/ cells # <<>> /\ ChangeUnflagged(IF head THEN Tail(cells) ELSE Front(cells))

Drop(head) ==
    \/ cells = <<>> /\ Refuse("E_RANGE")
    \/ cells # <<>> /\ Change(IF head THEN Tail(cells) ELSE Front(cells))

\* A list's or a vect's.
DeleteAt(i) ==
    \/ ~IsCell(i) /\ Refuse("E_RANGE")
    \/ IsCell(i) /\ Change(RemoveAt(cells, i + 1))

Truncate == Change(<<>>)

-----------------------------------------------------------------------------
(***************************************************************************)
(* A node's own: its parent declares it again, or retypes it.              *)
(***************************************************************************)
Redeclared(c) == Refuse("E_CORE") \/ Change(<<c>>)

\* BeginDeclare: a declare without MSGF_DECLARE_UPDATE, of what is there, is
\* refused before its value is looked at.
DeclareAnew == Refuse("E_EXISTS")

RedeclareInt(v, type) ==
    LET t == IF type = Unset THEN Int32 ELSE type IN
    \/ ~IsIntType(t) /\ Refuse("E_TYPE")
    \/ IsIntType(t) /\ ~IntFits(v, t) /\ Refuse("E_LIMIT")
    \/ IsIntType(t) /\ IntFits(v, t) /\ Redeclared(IntCell(v, t))

RedeclareReal(type) ==
    LET t == IF type = Unset THEN Double ELSE type IN
    \/ ~IsRealType(t) /\ Refuse("E_TYPE")
    \/ IsRealType(t) /\ Redeclared(PlainCell(t))

RedeclareText(n) ==
    \/ n > MaxText /\ Refuse("E_LIMIT")
    \/ n <= MaxText /\ Redeclared(TextCell(n))

\* DeclareBlob, DeclareGuid: too large, or not a GUID's text.
RedeclarePlain(t) ==
    \/ Refuse(IF t = Blob THEN "E_LIMIT" ELSE "E_NAME")
    \/ Redeclared(PlainCell(t))

Retype(t) ==
    \/ t \in {Unset, Bogus} /\ Refuse("E_TYPE")
    \/ t \notin {Unset, Bogus} /\ Redeclared(ZeroCell(t))

Save ==
    /\ dirty' = FALSE
    /\ out' = "S_OK"
    /\ UNCHANGED <<kind, cells>>

-----------------------------------------------------------------------------
OnCell(i) ==
    \/ \E v \in LongLong : SetIntAt(i, v)
    \/ SetRealAt(i)
    \/ \E n \in 0..MaxText + 1 : SetTextAt(i, n)

OnList ==
    \/ \E i \in 0..MaxCells : OnCell(i) \/ DeleteAt(i)
    \/ \E head \in BOOLEAN :
         \/ \E v \in LongLong, t \in Asked : AddInt(v, t, head)
         \/ \E t \in Asked : AddReal(t, head)
         \/ \E n \in 0..MaxText + 1 : AddText(n, head)
         \/ Drop(head)
    \/ Truncate

OnVect ==
    \/ \E i \in 0..MaxCells : OnCell(i) \/ DeleteAt(i)
    \/ Truncate

OnNode ==
    \/ OnCell(0)
    \/ DeclareAnew
    \/ \E v \in LongLong, t \in Asked : RedeclareInt(v, t)
    \/ \E t \in Asked : RedeclareReal(t) \/ Retype(t)
    \/ \E n \in 0..MaxText + 1 : RedeclareText(n)
    \/ \E t \in {Blob, Guid} : RedeclarePlain(t)

Next ==
    \/ kind = "list" /\ OnList
    \/ kind = "vect" /\ OnVect
    \/ kind = "node" /\ OnNode
    \/ Save

Spec == Init /\ [][Next]_vars

-----------------------------------------------------------------------------
(***************************************************************************)
(* Properties.                                                             *)
(***************************************************************************)

\* Every value reads back as the last caller whose write was accepted gave it,
\* at whatever width it is stored and wherever adding and deleting have moved
\* it; a BOOL as its truth value (MsgFacade.h:98-106: reading never lies).  The
\* kernel narrows without a word, so it is IntFits that must not let 300 into
\* an INT08 (FacadeInternal.cpp:80-86).
ReadsBackAsGiven == \A i \in 0..Len(cells) - 1 : LET c == At(i) IN
    /\ IsIntType(c.type) =>
         GetIntAt(i).value = IF c.type # Bool THEN c.given ELSE IF c.given = 0 THEN 0 ELSE 1
    /\ IsTextType(c.type) => GetTextAt(i).value = c.given

\* A cell of a list or a vect keeps the type it was made with, whatever is
\* written into it, and a list's text never outgrows the room it was made
\* with, where the kernel would assert and abort (MsgFacade.h:425-433).
CellsKeepTheirMake == kind # "node" => \A i \in DOMAIN cells :
    /\ cells[i].type = cells[i].made
    /\ kind = "list" /\ IsTextType(cells[i].type) => cells[i].bits <= cells[i].room

\* Whatever changes the values leaves the store dirty, and a refused call
\* changes nothing (FacadeStore.h:97-99).
NoSilentChange == [][ cells' # cells => dirty' /\ out' = "S_OK" ]_vars

=============================================================================
