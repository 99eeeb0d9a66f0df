----------------------------- MODULE ComCursor -----------------------------
(***************************************************************************)
(* CMsgCursor (ComCursor.cpp) over FacadeCursor (FacadeCursor.cpp): a live *)
(* kernel position in one collection, which any change of the store        *)
(* invalidates.  The COM cursor notices, by the store's mutation counter,  *)
(* rebuilds the position and seeks back to its index.  Every method runs   *)
(* under the store's lock, so each is one step.                            *)
(*                                                                         *)
(* CMsgStore (ComStore.cpp) may close, load or replace the facade's store  *)
(* beneath its cursors and enumerations.                                   *)
(*                                                                         *)
(* Only whether a cursor's copy of the counter is behind the store's is    *)
(* kept, not the two numbers.  In Spec a call that fails leaves the store  *)
(* as it was.  DeepSpec adds the one that does not.                        *)
(***************************************************************************)
EXTENDS Integers, SequencesExt

CONSTANTS Cursor,     \* cursor objects
          Elem,       \* the names the elements of the collection may have
          OwnerDepth, \* steps in the route of the collection's owner
          MaxDepth    \* MAX_DEPTH: no handle has a longer route

ASSUME ElemAssumption ==
    IsFiniteSet(Elem) /\ Elem # {} /\ Elem \cap {"no owner", "no store"} = {}

ASSUME DepthAssumption == MaxDepth \in Nat /\ OwnerDepth \in 0..MaxDepth

VARIABLES row,        \* the collection; NoRow while its owner does not exist,
                      \* NoStore while the COM store has no facade store
          curs,       \* the cursor objects
          each        \* a For Each over the collection

vars == <<row, curs, each>>

NoRow   == <<"no owner">>
NoStore == <<"no store">>

\* Closed: no cursor.  Orphan: one of a facade store that has been closed.
Closed == [at |-> -1, index |-> 0, behind |-> FALSE, dangling |-> FALSE]
Orphan == [at |-> -2, index |-> 0, behind |-> TRUE, dangling |-> TRUE]
End    == Cardinality(Elem)   \* where a kernel cursor past its last element is
Row    == {s \in UNION {[1..n -> Elem] : n \in 0..End} : IsInjective(s)}
Open   == {c \in Cursor : curs[c].at >= 0}
Owned  == row \notin {NoRow, NoStore}

\* A For Each, if one is on: its snapshot, how far it is, and, for the properties,
\* the names it has handed out or skipped.  A clone has the same snapshot and
\* place, and is followed as well as its original.  NoEnum: none, or one that is
\* no longer followed, since somebody else has changed the store under it.
NoEnum == [on |-> FALSE, names |-> <<>>, next |-> 0, past |-> {}]

\* GetChildAt makes a node of one more step, and Make refuses one too many.
ChildMade == OwnerDepth + 1 <= MaxDepth

\* MakeFieldEnum passes over each child GetChildAt refuses, and says nothing.
\* All are of one depth: it collects the whole of the collection or none of it.
EnumOf(names) == [NoEnum EXCEPT !.on = TRUE, !.names = IF ChildMade THEN names ELSE <<>>]

\* at:       the kernel cursor's Item(), counted from 0
\* index:    m_uIndex
\* behind:   m_lSeq is not the store's counter
\* dangling: the store has changed under the kernel cursor; no code sees this
TypeOK ==
    /\ row \in Row \cup {NoRow, NoStore}
    /\ curs \in [Cursor -> [at : -2..End, index : 0..End - 1,
                            behind : BOOLEAN, dangling : BOOLEAN]]
    /\ \A c \in Cursor \ Open : curs[c] \in {Closed, Orphan}
    /\ row = NoStore => Open = {}
    /\ each \in [on : BOOLEAN, names : Row, next : 0..End, past : SUBSET Elem]
    /\ each.next <= Len(each.names)

Init ==
    /\ row \in Row
    /\ curs = [c \in Cursor |-> Closed]
    /\ each = NoEnum

-----------------------------------------------------------------------------
(* The facade's cursor, in a collection that exists. *)

Count == Len(row)
CursAtEnd(at) == at >= Count

\* What a new kernel cursor stands on, whether or not there is a first element.
First == 0

\* One that is not on an element is put back at the end.
Restored(at) == IF CursAtEnd(at) THEN End ELSE at

IndexOfName(e) == CHOOSE i \in 0..Count - 1 : row[i + 1] = e

NameFound(at, e) == IF e \in ToSet(row) THEN IndexOfName(e) ELSE Restored(at)
IndexFound(at, i) == IF i < Count THEN i ELSE Restored(at)

\* Mutant: the end is tested after the advance only, which goes round.
SteppedRound(at) == IF at + 1 >= Count THEN First ELSE at + 1

Stepped(at) ==
    IF CursAtEnd(at) THEN at
    ELSE IF at + 1 >= Count THEN End ELSE at + 1

-----------------------------------------------------------------------------
(* The COM cursor. *)

\* Mutant: the rebuilt cursor is left on the first element.
BoundUnsought(k) ==
    IF k.behind
    THEN [k EXCEPT !.at = First, !.behind = FALSE, !.dangling = FALSE]
    ELSE k

\* Bind: a cursor that is behind is rebuilt, and sought back unless its index
\* is 0.  What GotoIndex answers is not looked at: an index the collection no
\* longer has leaves the cursor on the first element.
Bound(k) ==
    IF k.behind
    THEN [k EXCEPT !.at = IF k.index # 0 THEN IndexFound(First, k.index) ELSE First,
                   !.behind = FALSE, !.dangling = FALSE]
    ELSE k

\* Mutant: the index follows the position off the end.
AtUnguarded(k, at) == [k EXCEPT !.at = at, !.index = at]

\* m_uIndex follows the position, except off the end, where GetIndex fails.
At(k, at) == [k EXCEPT !.at = at, !.index = IF CursAtEnd(at) THEN @ ELSE at]

Make(c) ==
    /\ curs[c] = Closed /\ Owned
    /\ curs' = [curs EXCEPT ![c] = [Closed EXCEPT !.at = First]]
    /\ UNCHANGED <<row, each>>

\* Field, Name, Index, Count, EndOfCursor and the rest bind, then look.
Look(c) ==
    /\ c \in Open /\ Owned
    /\ curs' = [curs EXCEPT ![c] = Bound(@)]
    /\ UNCHANGED <<row, each>>

Advance(c) ==
    /\ c \in Open /\ Owned
    /\ curs' = [curs EXCEPT ![c] = LET k == Bound(@) IN At(k, Stepped(k.at))]
    /\ UNCHANGED <<row, each>>

Seek(c) ==
    /\ c \in Open /\ Owned
    /\ curs' = [curs EXCEPT ![c] = [Bound(@) EXCEPT !.at = First, !.index = 0]]
    /\ UNCHANGED <<row, each>>

GotoName(c, e) ==
    /\ c \in Open /\ Owned
    /\ curs' = [curs EXCEPT ![c] = LET k  == Bound(@)
                                       to == NameFound(k.at, e)
                                   IN  IF e \in ToSet(row) THEN At(k, to)
                                       ELSE [k EXCEPT !.at = to]]
    /\ UNCHANGED <<row, each>>

GotoIndex(c, i) ==
    /\ c \in Open /\ Owned
    /\ curs' = [curs EXCEPT ![c] = LET k  == Bound(@)
                                       to == IndexFound(k.at, i)
                                   IN  IF i < Count THEN At(k, to)
                                       ELSE [k EXCEPT !.at = to]]
    /\ UNCHANGED <<row, each>>

\* A change of the store leaves every kernel cursor dangling and every COM
\* cursor behind; BumpMutation is the last thing the changing call does.
Behind == [c \in Cursor |->
    IF c \in Open THEN [curs[c] EXCEPT !.behind = TRUE, !.dangling = TRUE]
                  ELSE curs[c]]

\* Mutant: Delete forgets BumpMutation.
DeleteUncounted(c) ==
    /\ c \in Open /\ Owned
    /\ LET k == Bound(curs[c])
       IN  /\ ~CursAtEnd(k.at)
           /\ row' = RemoveAt(row, k.at + 1)
           /\ curs' = [d \in Cursor |->
                IF d = c THEN [k EXCEPT !.at = First, !.index = 0]
                ELSE [curs[d] EXCEPT !.dangling = curs[d] # Closed]]
           /\ each' = NoEnum

\* Delete through a cursor: it is the one that survives, on the first element.
Delete(c) ==
    /\ c \in Open /\ Owned
    /\ LET k == Bound(curs[c])
       IN  /\ ~CursAtEnd(k.at)
           /\ row' = RemoveAt(row, k.at + 1)
           /\ curs' = [Behind EXCEPT ![c] = [k EXCEPT !.at = First, !.index = 0]]
           /\ each' = NoEnum

DeleteRefused(c) ==
    /\ c \in Open /\ Owned
    /\ CursAtEnd(Bound(curs[c]).at)
    /\ curs' = [curs EXCEPT ![c] = Bound(@)]
    /\ UNCHANGED <<row, each>>

\* With its owner or its facade store gone a cursor cannot be rebuilt: every
\* method fails before it touches anything, and the cursor stays behind.  Its
\* owner may come back, its facade store does not.
Unbound(c) ==
    /\ curs[c] = Orphan \/ (c \in Open /\ ~Owned)
    /\ UNCHANGED vars

FinalRelease(c) ==
    /\ curs[c] # Closed
    /\ curs' = [curs EXCEPT ![c] = Closed]
    /\ UNCHANGED <<row, each>>

-----------------------------------------------------------------------------
(* For Each: the names are collected first, one field object for each. *)

\* CMsgCursor::get__NewEnum binds, like any of its methods.
NewEnum(c) ==
    /\ c \in Open /\ Owned
    /\ curs' = [curs EXCEPT ![c] = Bound(@)]
    /\ each' = EnumOf(row)
    /\ UNCHANGED row

\* That of a collection or a field has no cursor.
CollEnum ==
    /\ Owned
    /\ each' = EnumOf(row)
    /\ UNCHANGED <<row, curs>>

\* Mutant: the enumerator counts through the collection as it is now.
EnumNextLive ==
    /\ Owned /\ each.next < Len(each.names) /\ each.next < Count
    /\ each' = [each EXCEPT !.next = @ + 1, !.past = @ \cup {row[each.next + 1]}]
    /\ UNCHANGED <<row, curs>>

EnumNext ==
    /\ each.next < Len(each.names)
    /\ each' = [each EXCEPT !.next = @ + 1, !.past = @ \cup {each.names[each.next + 1]}]
    /\ UNCHANGED <<row, curs>>

\* Past what is left, the enumeration is at its end.
EnumSkip(n) ==
    LET to == IF n > Len(each.names) - each.next THEN Len(each.names) ELSE each.next + n
    IN  /\ each' = [each EXCEPT !.next = to,
                                !.past = @ \cup ToSet(SubSeq(each.names, each.next + 1, to))]
        /\ UNCHANGED <<row, curs>>

EnumReset ==
    /\ each' = [each EXCEPT !.next = 0]
    /\ UNCHANGED <<row, curs>>

\* The loop deletes an element it was handed, by its name: CollDelete.
DeleteSeen(e) ==
    /\ Owned /\ e \in each.past \cap ToSet(row)
    /\ row' = RemoveFirst(row, e)
    /\ curs' = Behind
    /\ UNCHANGED each

-----------------------------------------------------------------------------
(* The rest of the COM tier changes the store: CMsgField, the collections   *)
(* and CMsgStore, each of whose calls ends in BumpMutation if it succeeds.  *)

DeclareChild == /\ Owned
                /\ \E e \in Elem \ ToSet(row), i \in 1..Count + 1 :
                       row' = InsertAt(row, i, e)
DeleteChild  == Owned /\ \E i \in 1..Count : row' = RemoveAt(row, i)
RenameChild  == /\ Owned
                /\ \E i \in 1..Count, e \in Elem \ ToSet(row) :
                       row' = [row EXCEPT ![i] = e]
Truncate     == Owned /\ row' = <<>>
Write        == row' = row
LoseOwner    == Owned /\ row' = NoRow
FindOwner    == row = NoRow /\ row' \in Row

\* Open loads a file into the facade store there is: owners may come and go.
OpenFile     == row' \in Row \cup {NoRow}

Change ==
    /\ row # NoStore
    /\ \/ DeclareChild \/ DeleteChild \/ RenameChild \/ Truncate \/ Write
       \/ LoseOwner \/ FindOwner \/ OpenFile
    /\ curs' = Behind
    /\ each' = NoEnum

\* A declare below MAX_DEPTH, anywhere in the store: refused, when the child is
\* there already.  Nobody counts the change.
DeclareTooDeep ==
    /\ row # NoStore
    /\ curs' = [c \in Cursor |-> [curs[c] EXCEPT !.dangling = curs[c] # Closed]]
    /\ each' = NoEnum
    /\ \/ UNCHANGED row
       \/ ~ChildMade /\ DeclareChild

-----------------------------------------------------------------------------
(* CMsgStore closes or replaces the facade store. *)

\* ReleaseStore closes the facade store.  Every cursor's owner node is of it.
Orphaned == [c \in Cursor |-> IF curs[c] = Closed THEN Closed ELSE Orphan]

\* A second Close does nothing.
Close ==
    /\ row' = NoStore
    /\ curs' = Orphaned
    /\ each' = NoEnum

\* The new facade store is there before the old one, if there still is one, is
\* closed.  It is empty: it has the collection of its root only.
CreateNew ==
    /\ row' \in {<<>>, NoRow}
    /\ curs' = Orphaned
    /\ each' = NoEnum

Next ==
    \/ \E c \in Cursor :
        \/ Make(c) \/ Look(c) \/ Advance(c) \/ Seek(c)
        \/ \E e \in Elem : GotoName(c, e)
        \/ \E i \in 0..End : GotoIndex(c, i)
        \/ Delete(c) \/ DeleteRefused(c) \/ Unbound(c) \/ FinalRelease(c)
        \/ NewEnum(c)
    \/ CollEnum \/ EnumNext \/ EnumReset
    \/ \E n \in 1..End : EnumSkip(n)
    \/ \E e \in Elem : DeleteSeen(e)
    \/ Change \/ Close \/ CreateNew

Spec == Init /\ [][Next]_vars

DeepSpec == Init /\ [][Next \/ DeclareTooDeep]_vars

-----------------------------------------------------------------------------
\* No method touches a kernel position the store has changed under: a cursor
\* whose position dangles is behind, so the next method rebuilds it first, or
\* fails if there is nothing to rebuild it on (ComCursor.h:24-29).  Only Delete
\* by the cursor itself is exempt.
DanglingIsNoticed == \A c \in Cursor : curs[c].dangling => curs[c].behind

\* Where the next method will find the cursor.
Place(c) == Bound(curs[c]).at
Stands(c) == c \in Open /\ Owned /\ ~CursAtEnd(Place(c))

\* A cursor standing where its index says keeps that index across any change
\* that leaves the collection long enough: it is on the element it was on, or
\* on whatever took its place (ComCursor.cpp:93-97).
SeekLandsAtItsIndex == [][ \A c \in Cursor :
    Stands(c) /\ Place(c) = curs[c].index /\ Owned' /\ curs[c].index < Count'
        /\ Change => Place(c)' = curs[c].index ]_vars

\* A For Each goes over every child of its owner (ComCursor.cpp:495): whatever
\* is still in the collection it has handed out or been told to skip, or is still
\* to come.  The code keeps that for owners above MAX_DEPTH only.
EveryChildIsCollected ==
    LET rest == SubSeq(each.names, each.next + 1, Len(each.names)) IN
    each.on => Owned /\ ToSet(row) \subseteq each.past \cup ToSet(rest)

\* A For Each over the children of an owner above MAX_DEPTH may delete what it is
\* handed and misses nothing by it (ComCursor.cpp:413-422).
ForEachMayDelete == OwnerDepth < MaxDepth => EveryChildIsCollected

\* A loop that from some point only moves this cursor on, or deletes through
\* it, comes to the end of the collection and stays there.
LoopStep(c) == Advance(c) \/ Delete(c)
LoopEnds == \A c \in Cursor :
    <>[][LoopStep(c)]_vars /\ WF_vars(Advance(c)) =>
        <>[](Owned /\ c \in Open => CursAtEnd(Place(c)))

=============================================================================
