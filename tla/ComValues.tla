------------------------------ MODULE ComValues ------------------------------
(***************************************************************************)
(* The values of FacadeContainer as a COM client sees them: VARIANTs, and  *)
(* the error codes of MsgcoreError (ComColl.cpp, ComField.cpp and the      *)
(* helpers of ComUtil.cpp).  Between the calls of the client a program     *)
(* that uses the facade itself may write the same file.                    *)
(*                                                                         *)
(* A VARIANT is its type and a number: an integer's value, a truth value,  *)
(* a text's length; of the rest only the type is kept.                     *)
(***************************************************************************)
EXTENDS FacadeContainer

\* A truth is a long long.
ASSUME ComAssumption == Half[Widest] > 1

\* The client's last call: op, the cell i it names, the VARIANT v it gives or
\* gets, the HRESULT hr it has back, and whether it ended in BumpMutation.
VARIABLE call

cvars == <<vars, call>>

I8     == [family |-> "int", width |-> Widest]
Empty  == Plain("empty")
Null   == Plain("null")
Object == Plain("object")    \* a pointer, or whatever else there is

\* The values of each type of VARIANT; of those whose number is not kept, 0.
Values(t) ==
    CASE t = Bool            -> 0..1
      [] t.family = "int"    -> -Half[t.width] .. Half[t.width] - 1
      [] t.family = "uint"   -> 0 .. 2 * Half[t.width] - 1
      [] t = BStr            -> 0 .. MaxText + 1
      [] OTHER               -> {0}

VarType == IntType \cup {Float, Double, BStr, Blob, Empty, Null, Object}
Variant == UNION {[vt : {t}, n : Values(t)] : t \in VarType}
Nothing == [vt |-> Empty, n |-> 0]

-----------------------------------------------------------------------------
(***************************************************************************)
(* The two vocabularies of errors, as numbers, for they overlap.           *)
(***************************************************************************)
MSGF == [S_OK |-> 0, E_CORE |-> \h301, E_NO_ITEM |-> \h302, E_NAME |-> \h303,
         E_TYPE |-> \h304, E_RANGE |-> \h305, E_FILE |-> \h306, E_CLOSED |-> \h307,
         E_SCOPE |-> \h308, E_PATH |-> \h309, E_EXISTS |-> \h30A, E_NO_POS |-> \h30B,
         E_LIMIT |-> \h30C, E_DEPTH |-> \h30D, E_STATE |-> \h30E]

MSGC == [E_CLOSED |-> \h300, E_LOAD |-> \h301, E_NO_FIELD |-> \h303, E_NO_POS |-> \h304,
         E_TYPE |-> \h305, E_DECLARE |-> \h306, E_NO_COLL |-> \h309, E_RANGE |-> \h30A,
         E_KERNEL |-> \h30C, E_NAME |-> \h30E, E_PAGESTATE |-> \h311, E_PATH |-> \h312,
         E_LIMIT |-> \h313]

DISP_E_TYPEMISMATCH == 5

\* The codes the two do not share by name.
Renamed == [E_NO_ITEM |-> MSGC.E_NO_FIELD, E_FILE |-> MSGC.E_LOAD, E_SCOPE |-> MSGC.E_NO_COLL,
            E_EXISTS |-> MSGC.E_DECLARE, E_DEPTH |-> MSGC.E_PATH, E_STATE |-> MSGC.E_PAGESTATE,
            E_CORE |-> MSGC.E_KERNEL]

ToCom == [e \in DOMAIN MSGF |-> IF e \in DOMAIN Renamed THEN Renamed[e]
                                ELSE IF e \in DOMAIN MSGC THEN MSGC[e] ELSE MSGF[e]]

FromFacade(hr) ==
    IF \E e \in DOMAIN MSGF : hr = MSGF[e]
    THEN ToCom[CHOOSE e \in DOMAIN MSGF : hr = MSGF[e]]
    ELSE hr

\* Mutant: the code is put through FromFacade again on the way out.
AnsweredTwice(op, i, v) ==
    call' = [op |-> op, i |-> i, v |-> v, hr |-> FromFacade(FromFacade(MSGF[out'])),
             bumped |-> out' = "S_OK"]

\* The facade was called, and its answer is converted once.
Answered(op, i, v) ==
    call' = [op |-> op, i |-> i, v |-> v, hr |-> FromFacade(MSGF[out']),
             bumped |-> out' = "S_OK"]

\* The COM tier refuses by itself.
Refused(op, i, v, hr) ==
    /\ call' = [op |-> op, i |-> i, v |-> v, hr |-> hr, bumped |-> FALSE]
    /\ UNCHANGED vars

-----------------------------------------------------------------------------
(***************************************************************************)
(* VariantChangeType, which is the system's.  A truth is -1 as a number.   *)
(***************************************************************************)
AsNumber(v) == IF v.vt = Bool THEN -v.n ELSE v.n

\* What v may come to as a `to`; nothing if it never converts.
ChangeType(v, to) ==
    CASE v.vt = to                                  -> {v.n}
      [] v.vt # to /\ v.vt \in {Blob, Null}         -> {}
      [] v.vt # to /\ v.vt \in {BStr, Object, Float, Double} -> Values(to)
      [] v.vt # to /\ v.vt \in IntType /\ to = BStr -> Lengths
      [] v.vt # to /\ v.vt \in IntType /\ to = Bool -> {IF v.n = 0 THEN 0 ELSE 1}
      [] v.vt # to /\ v.vt \in IntType /\ to = Double -> {0}
      [] OTHER                                      -> {AsNumber(v)} \cap Values(to)

\* A text may be no number, a number too large, and an object have no value.
CanFail(v, to) ==
    \/ ChangeType(v, to) = {}
    \/ v.vt = Object
    \/ v.vt = BStr /\ to # BStr
    \/ v.vt \in {Float, Double} /\ to \in {Int32, I8}

-----------------------------------------------------------------------------
(***************************************************************************)
(* Reading.                                                                *)
(***************************************************************************)

\* Mutant: an unsigned value is given as a Long if 32 bits hold it.
FitsLongUnsigned(n, t) ==
    IF t.family = "uint" THEN 0 <= n /\ n < 2 * Half[Natural] ELSE IntFits(n, Int32)

\* Does the integer n, read from a cell of type t, fit a Long?
FitsLong(n, t) ==
    IF t.family = "uint" THEN 0 <= n /\ n < Half[Natural] ELSE IntFits(n, Int32)

\* A Long keeps the low bits.
AsLong(n) == AnyInt(n % (2 * Half[Natural]), Int32)

\* ReadCell, ReadElem, ReadNodeValue: the cell at whatever type it has.
ReadValue(i) ==
    LET t == GetTypeAt(i)
        n == GetIntAt(i).value
    IN  CASE t = Unset -> Nothing
          [] t = Bool  -> [vt |-> Bool, n |-> IF n = 0 THEN 0 ELSE 1]
          [] t # Bool /\ IsIntType(t) ->
               IF FitsLong(n, t) THEN [vt |-> Int32, n |-> AsLong(n)] ELSE [vt |-> I8, n |-> n]
          [] t \in {Float, Double, Blob} -> [vt |-> t, n |-> 0]
          [] t = Text  -> [vt |-> BStr, n |-> GetTextAt(i).value]
          [] t = Guid  -> [vt |-> BStr, n |-> MaxText]   \* its canonical form

\* Past the end a list refuses, and a vect answers Empty.
get_Item(i) ==
    IF IsCell(i) \/ kind = "vect"
    THEN Refused("get", i, ReadValue(i), 0)
    ELSE Refused("get", i, Nothing, MSGC.E_RANGE)

-----------------------------------------------------------------------------
(***************************************************************************)
(* Writing a cell: the value is converted to what the cell has.            *)
(***************************************************************************)
Wanted(t) ==
    IF t = Bool /\ kind # "vect" THEN Bool
    ELSE IF IsIntType(t) THEN I8
    ELSE IF IsRealType(t) THEN Double
    ELSE BStr

\* Past the end there is no type, and the value is taken for a text.
put_Item(i, v) ==
    LET t  == GetTypeAt(i)
        to == Wanted(t)
    IN  \/ CanFail(v, to) /\ Refused("put", i, v, DISP_E_TYPEMISMATCH)
        \/ /\ \E n \in ChangeType(v, to) :
                \/ IsIntType(t) /\ SetIntAt(i, n)
                \/ IsRealType(t) /\ SetRealAt(i)
                \/ ~IsIntType(t) /\ ~IsRealType(t) /\ SetTextAt(i, n)
           /\ Answered("put", i, v)

\* WriteNodeValue: a blob or a GUID is not written in place.
put_Value(v) ==
    IF v.vt = Blob \/ GetTypeAt(0) \in {Blob, Guid}
    THEN Refused("put", 0, v, FromFacade(MSGF.E_TYPE))
    ELSE put_Item(0, v)

-----------------------------------------------------------------------------
(***************************************************************************)
(* Storing a new value, at the type the VARIANT has.                       *)
(***************************************************************************)
IsNarrow(t) == t \in IntType \ {Bool} /\ t.width # Widest
IsWide(t)   == t \in IntType \ {Bool} /\ t.width = Widest

OwnType(t) ==
    CASE t = Bool               -> Bool
      [] IsNarrow(t)            -> Int32
      [] IsWide(t)              -> I8
      [] t \in {Float, Double}  -> Double
      [] OTHER                  -> BStr

\* A forgotten argument is not stored, though it would convert.
Unstorable(v) == v.vt \in {Empty, Null}

NotStored(op, i, v) ==
    /\ Unstorable(v) \/ CanFail(v, OwnType(v.vt))
    /\ Refused(op, i, v, IF v.vt \in {Empty, Null, Blob, Object}
                         THEN MSGC.E_TYPE ELSE DISP_E_TYPEMISMATCH)

\* AddHead, AddTail
AddValue(v, head) ==
    LET at == IF head THEN 0 ELSE Len(cells)
        to == OwnType(v.vt)
    IN  \/ NotStored("add", at, v)
        \/ /\ ~Unstorable(v)
           /\ \E n \in ChangeType(v, to) :
                \/ to \in IntType /\ AddInt(n, IF IsNarrow(v.vt) THEN Unset ELSE to, head)
                \/ to = Double /\ AddReal(Unset, head)
                \/ to = BStr /\ AddText(n, head)
           /\ Answered("add", at, v)

\* Declare, of a field that is there: bytes become a blob.
DeclareVariant(v) ==
    LET to == OwnType(v.vt) IN
    \/ v.vt # Blob /\ NotStored("declare", 0, v)
    \/ v.vt = Blob /\ (DeclareAnew \/ RedeclarePlain(Blob)) /\ Answered("declare", 0, v)
    \/ /\ ~Unstorable(v)
       /\ \E n \in ChangeType(v, to) :
            \/ to \in IntType /\ RedeclareInt(n, IF IsNarrow(v.vt) THEN Unset ELSE to)
            \/ to = Double /\ RedeclareReal(Unset)
            \/ to = BStr /\ RedeclareText(n)
            \/ DeclareAnew
       /\ Answered("declare", 0, v)

\* DeclareTyped: at the type t, a truth as a number too.
DeclareTypedVariant(v, t) ==
    LET to == CASE t \in IntType         -> I8
                [] t \in {Float, Double} -> Double
                [] t = Blob              -> Blob
                [] OTHER                 -> BStr
    IN  \/ t \in {Unset, Bogus} /\ Refused("typed", 0, v, MSGC.E_TYPE)
        \/ /\ t \notin {Unset, Bogus}
           /\ IF t = Blob THEN v.vt # Blob ELSE CanFail(v, to)
           /\ Refused("typed", 0, v, DISP_E_TYPEMISMATCH)
        \/ /\ t \notin {Unset, Bogus}
           /\ t = Blob => v.vt = Blob
           /\ \E n \in ChangeType(v, to) :
                \/ t \in IntType /\ RedeclareInt(n, t)
                \/ t \in {Float, Double} /\ RedeclareReal(t)
                \/ t \in {Text, BStr} /\ RedeclareText(n)
                \/ t \in {Blob, Guid} /\ RedeclarePlain(t)
                \/ DeclareAnew
           /\ Answered("typed", 0, v)

\* Text, written: the facade's own type test, and no conversion.
put_Text(n) == SetTextAt(0, n) /\ Answered("text", 0, [vt |-> BStr, n |-> n])

RetypeChild(t) == Retype(t) /\ Answered("retype", 0, Nothing)

\* RemoveAt: nothing there is False, not an error.
RemoveCell(i) ==
    /\ DeleteAt(i)
    /\ call' = [op |-> "remove", i |-> i, v |-> Nothing, hr |-> 0, bumped |-> out' = "S_OK"]

-----------------------------------------------------------------------------
NoCall == [op |-> "none", i |-> 0, v |-> Nothing, hr |-> 0, bumped |-> FALSE]

ComInit == Init /\ call = NoCall

FacadeProgram == Next /\ call' = NoCall

OnCollection ==
    \/ \E i \in 0..MaxCells :
         \/ get_Item(i)
         \/ \E v \in Variant : put_Item(i, v)
         \/ RemoveCell(i)
    \/ Truncate /\ Answered("truncate", 0, Nothing)

OnComList ==
    \/ OnCollection
    \/ \E head \in BOOLEAN :
         \/ \E v \in Variant : AddValue(v, head)
         \/ Drop(head) /\ Answered("drop", 0, Nothing)

OnField ==
    \/ get_Item(0)
    \/ \E n \in Values(BStr) : put_Text(n)
    \/ \E t \in Asked : RetypeChild(t)
    \/ \E v \in Variant :
         \/ put_Value(v)
         \/ DeclareVariant(v)
         \/ \E t \in Asked : DeclareTypedVariant(v, t)

ComNext ==
    \/ FacadeProgram
    \/ kind = "list" /\ OnComList
    \/ kind = "vect" /\ OnCollection
    \/ kind = "node" /\ OnField

ComSpec == ComInit /\ [][ComNext]_cvars

-----------------------------------------------------------------------------
(***************************************************************************)
(* Properties.                                                             *)
(***************************************************************************)

\* What the last call wrote, if it was accepted, reads back: a number as that
\* number, or as its truth, and a text with its length.
WrittenIsRead ==
    LET v == call.v
        r == ReadValue(call.i)
        t == GetTypeAt(call.i)
    IN  call.op \in {"put", "text", "add", "declare", "typed"} /\ call.hr = 0 =>
        /\ v.vt \in IntType /\ IsIntType(t) =>
             r.n = IF t = Bool THEN IF v.n = 0 THEN 0 ELSE 1 ELSE AsNumber(v)
        /\ v.vt = BStr /\ IsTextType(t) => r.n = v.n

SameValues == /\ DOMAIN cells' = DOMAIN cells
              /\ \A j \in DOMAIN cells : cells'[j].type = cells[j].type
                                         /\ cells'[j].bits = cells[j].bits

\* A number a client writes, adds or declares and is told of no failure reads
\* back as that number, whatever the width it came and the width it is kept at,
\* and so does the length of a text; and what a client reads it can write back,
\* which changes nothing (ComUtil.cpp:400-427, 496-499).  Each conversion is
\* right by itself or wrong only with another: a sign, a width or a -1 for True
\* is lost between two of them.
ValuesCrossIntact == [][
    /\ WrittenIsRead'
    /\ \A i \in 0..Len(cells) - 1 :
         /\ call'.op = "put" /\ call'.i = i
         /\ call'.v = ReadValue(i) /\ GetTypeAt(i) \notin {Blob, Guid}
         => call'.hr = 0 /\ SameValues ]_cvars

\* A client is told the reason: the code it gets is one of this tier, and the
\* one that fits.  The vocabularies overlap, so a code converted twice becomes
\* another plausible one (ComUtil.cpp:216-227).  And a call that is refused
\* changes nothing, while one that changes something moves the counter that
\* open cursors watch.
RefusalSaysWhy == [][
    LET i == call'.i
        v == call'.v
        t == GetTypeAt(i)
    IN  call'.op # "none" =>
        /\ call'.hr \in {0, DISP_E_TYPEMISMATCH, MSGC.E_TYPE, MSGC.E_RANGE, MSGC.E_LIMIT,
                         MSGC.E_KERNEL, MSGC.E_DECLARE, MSGC.E_NAME}
        /\ call'.hr = MSGC.E_RANGE => i >= Len(cells)
        /\ call'.hr = MSGC.E_TYPE =>
             \/ v.vt \in {Blob, Empty, Null, Object}
             \/ call'.op = "typed"
             \/ call'.op = "text" /\ ~IsTextType(t)
             \/ call'.op = "put" /\ t \in {Blob, Guid}
        /\ call'.hr = MSGC.E_LIMIT /\ call'.op = "put" /\ v.vt \in IntType /\ IsIntType(t) =>
             ~IntFits(AsNumber(v), t)
        /\ call'.hr = MSGC.E_NAME => call'.op = "typed"
        /\ call'.hr \in {MSGC.E_KERNEL, MSGC.E_DECLARE} =>
             call'.op \in {"add", "declare", "typed", "retype"}
        /\ call'.hr # 0 => cells' = cells /\ ~call'.bumped
        /\ cells' # cells => call'.bumped
    ]_cvars

=============================================================================
