----------------------------- MODULE FacadeTree -----------------------------
(***************************************************************************)
(* The tree of one open store, and the handles that name its nodes         *)
(* (src/src/FacadeStore.cpp, src/src/FacadeNode.cpp).                      *)
(*                                                                         *)
(* A node is a cell at a heap position, with two ordered collections of    *)
(* children: its descendants and its attributes.  A handle is a ROUTE, the *)
(* steps from the root, walked again on every call.  A client may hold a   *)
(* handle for any route that once resolved, so a call is made on any route *)
(* of at most MaxDepth steps.                                              *)
(*                                                                         *)
(* Every call holds the store's lock from end to end (FacadeStore), so it  *)
(* is one step here.  The heap itself is the kernel's: what its calls do   *)
(* is what FacadeNode.cpp and FacadeInternal.h say they do.  Where they    *)
(* say nothing (a rename, a move or a pop onto a sibling's name, a move    *)
(* under the node itself) the kernel is taken to refuse.                   *)
(***************************************************************************)
EXTENDS Naturals, FiniteSets, SequencesExt

CONSTANTS
    Name,       \* usable names: records [key, as]; names with one key differ in case only
    BadName,    \* a word IsUsableName refuses
    Scope,      \* the collections of a node in use, of "child" and "attr"
    Type,       \* storage types
    Data,       \* the values of a type; 0 is its zero
    Container,  \* the container kinds in use, of "list" and "vect"
    Pos,        \* heap positions
    Root,       \* the root's
    MaxDepth,   \* MAX_DEPTH
    MaxSaved    \* bound: pairs saved on the value stacks

Kind  == {"item"} \cup Container
Value == [type : Type, data : Data]
Step  == [scope : Scope, name : Name]
Route == UNION {[1..k -> Step] : k \in 0..MaxDepth}

\* A value the type cannot hold (IntFits, MAX_TEXT, MAX_BLOB).
Unfit == [type |-> "unfit", data |-> 0]

\* A value of a type no node has: SetText on a tree of integers.
Mistyped == [type |-> "mistyped", data |-> 0]

Zero(t) == [type |-> t, data |-> 0]

\* The root has no name of its own.
NoName == [key |-> "", as |-> ""]

\* What the resolver answers instead of a position.
Failure == {"E_TYPE", "E_NO_ITEM", "E_DEPTH"}

ASSUME TreeAssumption ==
    /\ Root \in Pos
    /\ Failure \cap Pos = {}
    /\ Type # {}
    /\ Unfit.type \notin Type /\ Mistyped.type \notin Type
    /\ 0 \in Data
    /\ MaxDepth \in Nat
    /\ BadName \notin Name
    /\ {"child"} \subseteq Scope /\ Scope \subseteq {"child", "attr"}
    /\ Container \subseteq {"list", "vect"}

VARIABLES
    heap,   \* the allocated cells, by position
    dirty,  \* the manager's modified flag
    out     \* the last call's answer: its HRESULT and the handle it handed out

vars == <<heap, dirty, out>>

Answer(hr) == [hr |-> hr, route |-> <<>>]
Handed(r)  == [hr |-> "S_OK", route |-> r]

Cell(n, k, v) == [name |-> n, kind |-> k, value |-> v,
                  kids |-> [s \in Scope |-> <<>>], saved |-> <<>>]

Saved == [name : Name \cup {NoName}, value : Value]

CellType == [name : Name \cup {NoName}, kind : Kind, value : Value,
             kids : [Scope -> Seq(Pos)], saved : Seq(Saved)]

\* What a cell's rows name is allocated, and a container has none.
CellOK(c) == \A s \in Scope :
    /\ Range(c.kids[s]) \subseteq DOMAIN heap
    /\ c.kind # "item" => c.kids[s] = <<>>

TypeOK ==
    /\ Root \in DOMAIN heap
    /\ DOMAIN heap \subseteq Pos
    /\ heap \in [DOMAIN heap -> CellType]
    /\ \A p \in DOMAIN heap : CellOK(heap[p])
    /\ dirty \in BOOLEAN

EmptyRoot == Cell(NoName, "item", Zero(CHOOSE t \in Type : TRUE))

\* A new store: dirty, because building the heap is bytes no file has.
Init ==
    /\ heap = [p \in {Root} |-> EmptyRoot]
    /\ dirty = TRUE
    /\ out = Answer("S_OK")

-----------------------------------------------------------------------------
(***************************************************************************)
(* The resolver.                                                           *)
(***************************************************************************)

\* _wcsicmp
Same(n, m) == n.key = m.key

\* P3PmsgCurs::Goto: the first child of that name, whatever its case.
Child(p, s, n) ==
    LET kids == heap[p].kids[s]
        i    == SelectInSeq(kids, LAMBDA q : Same(heap[q].name, n))
    IN  IF i = 0 THEN "E_NO_ITEM" ELSE kids[i]

\* One step down from p, unless the walk has stopped.
Stepped(p, st) ==
    IF p \notin Pos THEN p
    ELSE IF heap[p].kind # "item" THEN "E_TYPE"
    ELSE Child(p, st.scope, st.name)

\* Where the walk along r has got to after each of its steps.
Walk(r) ==
    LET walk[i \in 0..Len(r)] == IF i = 0 THEN Root ELSE Stepped(walk[i - 1], r[i])
    IN  walk

\* The position r leads to, or the error the walk stops with.
Resolve(r) == IF Len(r) > MaxDepth THEN "E_DEPTH" ELSE Walk(r)[Len(r)]

\* The same, refusing anything that is not an item.
ResolveField(r) ==
    LET p == Resolve(r) IN
    IF p \in Pos /\ heap[p].kind # "item" THEN "E_TYPE" ELSE p

RouteWith(r, s, n) == Append(r, [scope |-> s, name |-> n])

\* Mutant: the depth test is one too strict.
MakeTooStrict(r) == IF Len(r) >= MaxDepth THEN Answer("E_DEPTH") ELSE Handed(r)

\* FacadeNode::Make checks nothing but the depth; FacadeList::Make and
\* FacadeVect::Make do not check even that.
Make(r) == IF Len(r) > MaxDepth THEN Answer("E_DEPTH") ELSE Handed(r)

-----------------------------------------------------------------------------
(***************************************************************************)
(* Getting a handle.  None of these changes the tree.                      *)
(***************************************************************************)

\* What GetPos, GetKind, GetName and GetCount answer of a node that resolves.
GetPos(r)  == Resolve(r)
GetKind(r) == heap[Resolve(r)].kind

\* The stored spelling, not the route's; the root answers none.
GetName(r) == IF r = <<>> THEN NoName ELSE heap[Resolve(r)].name

GetCount(r, s) == Len(heap[Resolve(r)].kids[s])

\* Absence is an answer, not an error.
Exists(r, s, n) == IF Child(ResolveField(r), s, n) \in Pos THEN "S_OK" ELSE "S_FALSE"

\* A path is a text of marks and words: '.' before a descendant, '@' before an
\* attribute.  No two words are adjacent, they would be one.
Mark(s) == LET m == IF s = "attr" THEN "@" ELSE "." IN [key |-> m, as |-> m]
Marks   == {Mark(s) : s \in Scope}
Path    == { t \in UNION {[1..k -> Marks \cup Name \cup {BadName}] : k \in 0..2 * MaxDepth + 2} :
               \A i \in 1..Len(t) - 1 : {t[i], t[i + 1]} \cap Marks # {} }

FormatRoute(r) == FlattenSeq([i \in DOMAIN r |-> <<Mark(r[i].scope), r[i].name>>])

GetPath(r) == FormatRoute(r)

\* Step by step: the mark, the name, then the depth.
ParseRoute(path) ==
    LET steps == 1 .. (Len(path) + 1) \div 2
        StepOK(k) == /\ path[2 * k - 1] \in Marks
                     /\ 2 * k <= Len(path)
                     /\ path[2 * k] \in Name
    IN  IF \E k \in steps : k <= MaxDepth + 1 /\ ~StepOK(k) THEN Answer("E_PATH")
        ELSE IF Len(path) > 2 * MaxDepth THEN Answer("E_DEPTH")
        ELSE Handed([k \in steps |->
                       [scope |-> CHOOSE s \in Scope : Mark(s) = path[2 * k - 1],
                        name  |-> path[2 * k]]])

\* The route is what the path spells, in the caller's own case.
NodeFromPath(path) ==
    LET parsed == ParseRoute(path)
        p      == Resolve(parsed.route)
    IN  IF parsed.hr # "S_OK" THEN parsed
        ELSE IF p \in Pos THEN Make(parsed.route) ELSE Answer(p)

\* The child's stored spelling goes into the route.
GetChild(r, s, n) ==
    LET p == ResolveField(r)
        c == Child(p, s, n)
    IN  IF p \notin Pos THEN Answer(p)
        ELSE IF c \notin Pos THEN Answer(c)
        ELSE Make(RouteWith(r, s, heap[c].name))

\* Mutant: the index is taken to be 1-based.
GetChildAtOffByOne(r, s, i) ==
    LET p == ResolveField(r) IN
    IF p \notin Pos THEN Answer(p)
    ELSE IF i >= Len(heap[p].kids[s]) \/ i = 0 THEN Answer("E_RANGE")
    ELSE Make(RouteWith(r, s, heap[heap[p].kids[s][i]].name))

GetChildAt(r, s, i) ==
    LET p == ResolveField(r) IN
    IF p \notin Pos THEN Answer(p)
    ELSE IF i >= Len(heap[p].kids[s]) THEN Answer("E_RANGE")
    ELSE Make(RouteWith(r, s, heap[heap[p].kids[s][i + 1]].name))

\* GetList, GetVect.
GetContainer(r, s, n, k) ==
    LET p == ResolveField(r)
        c == Child(p, s, n)
    IN  IF p \notin Pos THEN Answer(p)
        ELSE IF c \notin Pos THEN Answer(c)
        ELSE IF heap[c].kind # k THEN Answer("E_TYPE")
        ELSE Handed(RouteWith(r, s, heap[c].name))

\* The steps SearchPos tries from a node: its children, then its attributes,
\* by stored name.
Entries(p) ==
    LET steps(s) == [i \in DOMAIN heap[p].kids[s] |->
                        [scope |-> s, name |-> heap[heap[p].kids[s][i]].name]]
    IN  steps("child") \o (IF "attr" \in Scope THEN steps("attr") ELSE <<>>)

\* Mutant: the search gives up one level early.
SearchDepthShort(d) == d + 1 < MaxDepth

\* May SearchPos go below a node d steps from the root?
SearchGoesBelow(d) == d < MaxDepth

\* The routes to pos through the child of p at st: none, or one.  deeper has
\* those from the nodes one step down.
Through(p, st, pos, deeper) ==
    LET c == Child(p, st.scope, st.name) IN
    IF c = pos THEN {<<st>>} ELSE {<<st>> \o r : r \in deeper[c]}

\* The routes to pos from p, which is d steps from the root: through the first
\* of its entries that leads there.
FirstFound(p, d, pos, deeper) ==
    LET first == SelectInSeq(Entries(p), LAMBDA st : Through(p, st, pos, deeper) # {})
    IN  IF ~SearchGoesBelow(d) \/ heap[p].kind # "item" \/ first = 0 THEN {}
        ELSE Through(p, Entries(p)[first], pos, deeper)

\* SearchPos: depth first, each name looked up again as the resolver would.
SearchPos(pos) ==
    LET search[d \in 0..MaxDepth] ==
          [p \in DOMAIN heap |-> FirstFound(p, d, pos, search[d + 1])]
    IN  search[0][Root]

NodeFromPos(pos) ==
    IF pos = Root THEN Make(<<>>)
    ELSE LET found == SearchPos(pos)
         IN  IF found = {} THEN Answer("E_NO_POS") ELSE Make(CHOOSE r \in found : TRUE)

-----------------------------------------------------------------------------
(***************************************************************************)
(* The kernel's heap.                                                      *)
(***************************************************************************)

\* Nothing in T has a child outside it.
Closed(T) == \A p \in T, s \in Scope : Range(heap[p].kids[s]) \subseteq T

\* The positions at and below those in S: the least closed set around it.
Subtree(S) ==
    {p \in DOMAIN heap : \A T \in SUBSET DOMAIN heap : S \subseteq T /\ Closed(T) => p \in T}

\* h without the cells in S.
Freed(h, S) == [p \in DOMAIN h \ S |-> h[p]]

\* The heaps in which p has one more child: one for each free position, none
\* when the heap is at its limit.
Attached(p, s, cell) ==
    {[q \in DOMAIN heap \cup {new} |->
        IF q = new THEN cell
        ELSE IF q = p THEN [heap[p] EXCEPT !.kids[s] = Append(@, new)]
        ELSE heap[q]] : new \in Pos \ DOMAIN heap}

\* DeclareItem: assigns to an item, creates what is not there, raises on a
\* container ("a list is not an item").
DeclareItem(p, s, n, v) ==
    LET c == Child(p, s, n) IN
    IF c \notin Pos THEN Attached(p, s, Cell(n, "item", v))
    ELSE IF heap[c].kind = "item" THEN {[heap EXCEPT ![c].value = v]}
    ELSE {}

\* Would a child of p in s other than c answer to n?
Taken(p, s, n, c) == \E q \in Range(heap[p].kids[s]) : q # c /\ Same(heap[q].name, n)

-----------------------------------------------------------------------------
(***************************************************************************)
(* Calls that may change the tree.                                         *)
(***************************************************************************)

Refuse(hr) ==
    /\ out' = Answer(hr)
    /\ UNCHANGED <<heap, dirty>>

\* A change, and MarkDirty.
Becomes(h) ==
    /\ heap' = h
    /\ dirty' = TRUE

Succeed(h) == Becomes(h) /\ out' = Answer("S_OK")

\* The child called n in scope s of the node r, or the error that stops the call.
Target(r, s, n) ==
    LET p == ResolveField(r) IN IF p \notin Pos THEN p ELSE Child(p, s, n)

\* Mutant: the facade leaves the collision test to the kernel.
BeginDeclareTrusting(r, s, n, update) ==
    LET p == ResolveField(r) IN
    IF n = BadName THEN "E_NAME"
    ELSE IF p \notin Pos THEN p
    ELSE "S_OK"

\* The shared opening of every declare.
BeginDeclare(r, s, n, update) ==
    LET p == ResolveField(r) IN
    IF n = BadName THEN "E_NAME"
    ELSE IF p \notin Pos THEN p
    ELSE IF ~update /\ Child(p, s, n) \in Pos THEN "E_EXISTS"
    ELSE "S_OK"

\* DeclareInt, DeclareReal, DeclareText, DeclareBlob, DeclareGuid.  The handle,
\* if the caller wants one, is made after the change.
Declare(r, s, n, v, update) ==
    LET hr == BeginDeclare(r, s, n, update)
        hs == DeclareItem(ResolveField(r), s, n, v)
    IN  \/ hr # "S_OK" /\ Refuse(hr)
        \/ hr = "S_OK" /\ v = Unfit /\ Refuse("E_LIMIT")
        \/ hr = "S_OK" /\ v # Unfit /\ hs = {} /\ Refuse("E_CORE")
        \/ /\ hr = "S_OK" /\ v # Unfit
           /\ \E h \in hs : Becomes(h)
           /\ out' \in {Answer("S_OK"), Make(RouteWith(r, s, n))}

\* DeclareList, DeclareVect.
DeclareContainer(r, s, n, k) ==
    LET hr == BeginDeclare(r, s, n, FALSE)
        hs == Attached(ResolveField(r), s, Cell(n, k, Zero(CHOOSE t \in Type : TRUE)))
    IN  \/ hr # "S_OK" /\ Refuse(hr)
        \/ hr = "S_OK" /\ hs = {} /\ Refuse("E_CORE")
        \/ /\ hr = "S_OK"
           /\ \E h \in hs : Becomes(h)
           /\ out' = Handed(RouteWith(r, s, n))

\* Mutant: the child is freed and left linked.
DeleteStillLinked(r, s, n) ==
    LET c == Target(r, s, n) IN
    \/ c \notin Pos /\ Refuse(c)
    \/ c \in Pos /\ Succeed(Freed(heap, Subtree({c})))

Delete(r, s, n) ==
    LET p == ResolveField(r)
        c == Target(r, s, n)
    IN  \/ c \notin Pos /\ Refuse(c)
        \/ /\ c \in Pos
           /\ Succeed(Freed([heap EXCEPT ![p].kids[s] = RemoveFirst(@, c)], Subtree({c})))

\* Mutant: the field's own Truncate, which drops both collections.
TruncateBoth(r, s) ==
    LET p == ResolveField(r) IN
    \/ p \notin Pos /\ Refuse(p)
    \/ /\ p \in Pos
       /\ Succeed(Freed([heap EXCEPT ![p].kids = [t \in Scope |-> <<>>]],
                        Subtree({p}) \ {p}))

\* One scope only: the collection's Truncate, not the field's.
Truncate(r, s) ==
    LET p == ResolveField(r) IN
    \/ p \notin Pos /\ Refuse(p)
    \/ /\ p \in Pos
       /\ Succeed(Freed([heap EXCEPT ![p].kids[s] = <<>>],
                        Subtree(Range(heap[p].kids[s]))))

\* Mutant: the kernel takes a name its sibling has.
RenameOnto(r, s, n, m) ==
    LET c == Target(r, s, n) IN
    \/ m = BadName /\ Refuse("E_NAME")
    \/ m # BadName /\ Same(n, m) /\ Refuse("S_FALSE")
    \/ m # BadName /\ ~Same(n, m) /\ c \notin Pos /\ Refuse(c)
    \/ /\ m # BadName /\ ~Same(n, m) /\ c \in Pos
       /\ Succeed([heap EXCEPT ![c].name = m])

\* The name comparison comes first, so a change of case alone is S_FALSE.  The
\* new name is not looked up: a collision is the kernel's to refuse.
Rename(r, s, n, m) ==
    LET c     == Target(r, s, n)
        taken == Taken(ResolveField(r), s, m, c)
    IN  \/ m = BadName /\ Refuse("E_NAME")
        \/ m # BadName /\ Same(n, m) /\ Refuse("S_FALSE")
        \/ m # BadName /\ ~Same(n, m) /\ c \notin Pos /\ Refuse(c)
        \/ /\ m # BadName /\ ~Same(n, m) /\ c \in Pos
           /\ \/ taken /\ Refuse("E_CORE")
              \/ ~taken /\ Succeed([heap EXCEPT ![c].name = m])

\* Mutant: the destination may be a list or a vect.
MoveIntoContainer(r, s, n, d) ==
    LET p      == ResolveField(r)
        dest   == Resolve(d)
        c      == Target(r, s, n)
        clash  == dest \in Subtree({c}) \/ Taken(dest, "child", heap[c].name, c)
        unlink == [heap EXCEPT ![p].kids[s] = RemoveFirst(@, c)]
    IN  \/ p \notin Pos /\ Refuse(p)
        \/ p \in Pos /\ dest \notin Pos /\ Refuse(dest)
        \/ p \in Pos /\ dest \in Pos /\ c \notin Pos /\ Refuse(c)
        \/ /\ p \in Pos /\ dest \in Pos /\ c \in Pos
           /\ \/ clash /\ Refuse("E_CORE")
              \/ /\ ~clash
                 /\ Succeed([unlink EXCEPT ![dest].kids["child"] = Append(@, c)])

\* Into the CHILD scope of the node d.
Move(r, s, n, d) ==
    LET p      == ResolveField(r)
        dest   == ResolveField(d)
        c      == Target(r, s, n)
        clash  == dest \in Subtree({c}) \/ Taken(dest, "child", heap[c].name, c)
        unlink == [heap EXCEPT ![p].kids[s] = RemoveFirst(@, c)]
    IN  \/ p \notin Pos /\ Refuse(p)
        \/ p \in Pos /\ dest \notin Pos /\ Refuse(dest)
        \/ p \in Pos /\ dest \in Pos /\ c \notin Pos /\ Refuse(c)
        \/ /\ p \in Pos /\ dest \in Pos /\ c \in Pos
           /\ \/ clash /\ Refuse("E_CORE")
              \/ /\ ~clash
                 /\ Succeed([unlink EXCEPT ![dest].kids["child"] = Append(@, c)])

\* A declare-with-update of a zero: the child keeps its place and its children.
Retype(r, s, n, t) ==
    LET c == Target(r, s, n) IN
    \/ c \notin Pos /\ Refuse(c)
    \/ c \in Pos /\ t \notin Type /\ Refuse("E_TYPE")
    \/ c \in Pos /\ t \in Type /\ heap[c].kind # "item" /\ Refuse("E_CORE")
    \/ c \in Pos /\ t \in Type /\ heap[c].kind = "item"
         /\ Succeed([heap EXCEPT ![c].value = Zero(t)])

\* SetInt, SetReal, SetText: in place, at the stored type.
SetValue(r, v) ==
    LET p == ResolveField(r) IN
    \/ p \notin Pos /\ Refuse(p)
    \/ p \in Pos /\ v = Unfit /\ \E hr \in {"E_LIMIT", "E_TYPE"} : Refuse(hr)
    \/ p \in Pos /\ v # Unfit /\ v.type # heap[p].value.type /\ Refuse("E_TYPE")
    \/ p \in Pos /\ v.type = heap[p].value.type /\ Succeed([heap EXCEPT ![p].value = v])

\* The pairs on all the value stacks together.
SavedPairs == SumFunction([p \in DOMAIN heap |-> Len(heap[p].saved)])

\* The pair is saved inside the node's own block.
PushValue(r) ==
    LET p == ResolveField(r)
        pair == [name |-> heap[p].name, value |-> heap[p].value]
    IN  \/ p \notin Pos /\ Refuse(p)
        \/ /\ p \in Pos
           /\ SavedPairs < MaxSaved
           /\ Succeed([heap EXCEPT ![p].saved = <<pair>> \o @])

\* p is a sibling of a node other than itself that answers to n.
Clashes(p, n) == \E q \in DOMAIN heap, s \in Scope :
    p \in Range(heap[q].kids[s]) /\ Taken(q, s, n, p)

\* The saved NAME comes back with the value.
PopValue(r) ==
    LET p     == ResolveField(r)
        saved == heap[p].saved
        clash == Clashes(p, saved[1].name)
    IN  \/ p \notin Pos /\ Refuse(p)
        \/ p \in Pos /\ saved = <<>> /\ Refuse("S_FALSE")
        \/ /\ p \in Pos /\ saved # <<>>
           /\ \/ clash /\ Refuse("E_CORE")
              \/ /\ ~clash
                 /\ Succeed([heap EXCEPT ![p].name  = saved[1].name,
                                         ![p].value = saved[1].value,
                                         ![p].saved = Tail(@)])

\* Mutant: the store is not flagged modified.
DropValueUnflagged(r) ==
    LET p == ResolveField(r) IN
    \/ p \notin Pos /\ Refuse(p)
    \/ p \in Pos /\ heap[p].saved = <<>> /\ Refuse("S_FALSE")
    \/ /\ p \in Pos /\ heap[p].saved # <<>>
       /\ heap' = [heap EXCEPT ![p].saved = Tail(@)]
       /\ out' = Answer("S_OK")
       /\ UNCHANGED dirty

DropValue(r) ==
    LET p == ResolveField(r) IN
    \/ p \notin Pos /\ Refuse(p)
    \/ p \in Pos /\ heap[p].saved = <<>> /\ Refuse("S_FALSE")
    \/ /\ p \in Pos /\ heap[p].saved # <<>>
       /\ Succeed([heap EXCEPT ![p].saved = Tail(@)])

\* A new manager; its heap is dirty from the start.
Clear == Succeed([p \in {Root} |-> EmptyRoot])

Save ==
    /\ dirty' = FALSE
    /\ out' = Answer("S_OK")
    /\ UNCHANGED heap

SetDirty(d) ==
    /\ dirty' = d
    /\ out' = Answer("S_OK")
    /\ UNCHANGED heap

-----------------------------------------------------------------------------
Spelled == Name \cup {BadName}

OnNewChild(r, s, n) ==
    \/ \E v \in Value \cup {Unfit}, update \in BOOLEAN : Declare(r, s, n, v, update)
    \/ \E k \in Container : DeclareContainer(r, s, n, k)

OnChild(r, s, n) ==
    \/ Delete(r, s, n)
    \/ \E m \in Spelled : Rename(r, s, n, m)
    \/ \E d \in Route : Move(r, s, n, d)
    \/ \E t \in Type \cup {"unknown"} : Retype(r, s, n, t)

OnNode(r) ==
    \/ \E s \in Scope : Truncate(r, s)
    \/ \E v \in Value \cup {Unfit, Mistyped} : SetValue(r, v)
    \/ PushValue(r) \/ PopValue(r) \/ DropValue(r)

Next ==
    \/ \E r \in Route : \/ \E s \in Scope, n \in Spelled : OnNewChild(r, s, n)
                        \/ \E s \in Scope, n \in Name : OnChild(r, s, n)
                        \/ OnNode(r)
    \/ Clear
    \/ Save
    \/ \E d \in BOOLEAN : SetDirty(d)

Spec == Init /\ [][Next]_vars

-----------------------------------------------------------------------------
(***************************************************************************)
(* Properties.                                                             *)
(***************************************************************************)

\* No two siblings answer to one name (the collision test of BeginDeclare, and
\* what Rename, Move and PopValue leave to the kernel).
NamesUnique == \A p \in DOMAIN heap, s \in Scope :
    \A q, c \in Range(heap[p].kids[s]) : Same(heap[q].name, heap[c].name) => q = c

\* A path names the node it was read from, and no text that is not a path is
\* taken for one (the grammar is unambiguous, FacadeStore.cpp:309-311).
PathsAreRoutes ==
    /\ \A r \in Route : Resolve(r) \in Pos => NodeFromPath(GetPath(r)) = Handed(r)
    /\ \A path \in Path : LET got == NodeFromPath(path) IN
         got.hr = "S_OK" => GetPath(got.route) = path

\* Every node a handle can name is found again from its position, within the
\* same depth (MsgFacade.h:849-850): the search and the walk agree.
PosRoundTrip == \A r \in Route : LET p == GetPos(r) IN p \in Pos =>
    LET got == NodeFromPos(p) IN got.hr = "S_OK" /\ Resolve(got.route) = p

\* A handle that a lookup hands out leads to the node looked up, by path, by
\* name in whatever case the caller spelled it, or by index; below the path it
\* was looked up from it is spelled as the tree is (FacadeNode.cpp:485-487); a
\* container's handle leads to one of that kind, if it is not too deep to lead
\* anywhere; Exists, GetCount and the lookups agree, and so do path and position.
LookupFindsItsNode ==
    /\ PathsAreRoutes
    /\ PosRoundTrip
    /\ \A r \in Route :
         LET Found(got, c) == /\ GetPos(got.route) = c
                              /\ Last(got.route).name = GetName(got.route)
         IN  ResolveField(r) \in Pos => \A s \in Scope :
               /\ \A n \in Name :
                    LET c   == Child(GetPos(r), s, n)
                        got == GetChild(r, s, n)
                    IN  /\ got.hr = "S_OK" => Found(got, c)
                        /\ (Exists(r, s, n) = "S_FALSE") = (got.hr = "E_NO_ITEM")
                        /\ \A k \in Container : LET list == GetContainer(r, s, n, k) IN
                             list.hr = "S_OK" /\ Len(r) < MaxDepth =>
                                Found(list, c) /\ GetKind(list.route) = k
               /\ \A i \in 0..Cardinality(Pos) : LET got == GetChildAt(r, s, i) IN
                    IF i >= GetCount(r, s) THEN got.hr = "E_RANGE"
                    ELSE \/ got.hr = "S_OK" /\ Found(got, heap[GetPos(r)].kids[s][i + 1])
                         \/ got.hr = "E_DEPTH" /\ Len(r) = MaxDepth

\* A handle keeps its node or answers an error: no single call leaves it
\* resolving to another one (MsgFacade.h:69-73), with the names unique.
HandleNeverFlips == [][ heap' # heap => \A r \in Route :
    Resolve(r) \in Pos /\ Resolve(r)' \in Pos => Resolve(r)' = Resolve(r) ]_vars

\* A call that answers an error has changed nothing, but for one: a declare
\* whose handle would be too deep has created, or assigned, a child that no
\* handle can name.
RefusedOnlyTooDeep == [][ heap' # heap /\ out'.hr # "S_OK" =>
    /\ out'.hr = "E_DEPTH"
    /\ \A r \in Route : Resolve(r) \in Pos =>
          heap'[Resolve(r)].value = heap[Resolve(r)].value
    /\ \A r \in Route : Resolve(r)' \notin DOMAIN heap' \ DOMAIN heap ]_vars

\* Whatever changes the tree leaves the store dirty (FacadeStore.h:97-99).
NoSilentChange == [][ heap' # heap => dirty' ]_vars

(***************************************************************************)
(* The tree as a map from paths.  Paths go as deep as the tree does, past  *)
(* what a handle may name.                                                 *)
(***************************************************************************)
\* Every child, with the node and the row it is in.
Links == UNION { UNION { {[of |-> p, scope |-> s, kid |-> c] : c \in Range(heap[p].kids[s])} :
                         s \in Scope } : p \in DOMAIN heap }

\* Every node with its path.
Placed(links) ==
    LET path[p \in DOMAIN heap] ==
          IF p = Root THEN <<>>
          ELSE LET link == CHOOSE l \in links : l.kid = p
               IN  Append(path[link.of], [scope |-> link.scope, key |-> heap[p].name.key])
    IN  {<<path[p], p>> : p \in DOMAIN heap}

NodeOf(cell) ==
    [kind  |-> cell.kind,
     value |-> cell.value,
     saved |-> [i \in DOMAIN cell.saved |->
                  [key |-> cell.saved[i].name.key, value |-> cell.saved[i].value]]]

NodesAt(placed) ==
    [q \in {e[1] : e \in placed} |-> NodeOf(heap[(CHOOSE e \in placed : e[1] = q)[2]])]

\* What is bound in a set TLC evaluates once.
PathView == CHOOSE view \in {NodesAt(placed) : placed \in {Placed(links) : links \in {Links}}} : TRUE

Paths == INSTANCE PathMap WITH map <- PathView

\* FacadeTree implements PathMap, as long as no two siblings come to share a
\* name.
PathMapSpec == Paths!PathMapSpec

=============================================================================
