--------------------------- MODULE FacadePaths_proofs ---------------------------
(***************************************************************************)
(* Proofs about FacadeTree's names for nodes, for any tree and any depth:  *)
(* a lookup by path, by name, by index or by position hands out a handle   *)
(* that leads to the node looked up, and the tree is the map from paths to *)
(* nodes that PathMap describes.                                           *)
(***************************************************************************)
EXTENDS FacadeTree_proofs

-----------------------------------------------------------------------------
(* What a call makes of the heap, call by call.                             *)
IsItemAt(p) == p \in DOMAIN heap /\ heap[p].kind = "item"

\* A child under a name no sibling has.
Grown(h) == \E p \in DOMAIN heap, s \in Scope, n \in Name, k \in Kind, v \in Value :
    /\ IsItemAt(p)
    /\ \A q \in Kids(heap, p, s) : heap[q].name.key # n.key
    /\ h \in Attached(p, s, Cell(n, k, v))

Valued(h) == \E p \in DOMAIN heap, v \in Value :
    IsItemAt(p) /\ h = [heap EXCEPT ![p].value = v]

Pruned(h) == \E p \in DOMAIN heap, s \in Scope : \E c \in Kids(heap, p, s) :
    /\ IsItemAt(p)
    /\ h = Freed([heap EXCEPT ![p].kids[s] = RemoveFirst(@, c)], Subtree({c}))

Emptied(h) == \E p \in DOMAIN heap, s \in Scope :
    /\ IsItemAt(p)
    /\ h = Freed([heap EXCEPT ![p].kids[s] = <<>>], Subtree(Kids(heap, p, s)))

Rehung(h) == \E p \in DOMAIN heap, s \in Scope, m \in Name : \E c \in Kids(heap, p, s) :
    /\ IsItemAt(p)
    /\ \A q \in Kids(heap, p, s) : q # c => heap[q].name.key # m.key
    /\ h = [heap EXCEPT ![c].name = m]

Relinked(p, s, c, d) ==
    [[heap EXCEPT ![p].kids[s] = RemoveFirst(@, c)] EXCEPT ![d].kids["child"] = Append(@, c)]

Moved(h) == \E p, d \in DOMAIN heap, s \in Scope : \E c \in Kids(heap, p, s) :
    /\ IsItemAt(p) /\ IsItemAt(d)
    /\ d \notin Subtree({c})
    /\ \A q \in Kids(heap, d, "child") : q # c => heap[q].name.key # heap[c].name.key
    /\ h = Relinked(p, s, c, d)

Pushed(h) == \E p \in DOMAIN heap :
    /\ IsItemAt(p)
    /\ h = [heap EXCEPT ![p].saved =
              <<[name |-> heap[p].name, value |-> heap[p].value]>> \o @]

Restored(h) == \E p \in DOMAIN heap :
    /\ IsItemAt(p)
    /\ heap[p].saved # <<>>
    /\ ~Clashes(p, heap[p].saved[1].name)
    /\ h = [heap EXCEPT ![p].name  = heap[p].saved[1].name,
                        ![p].value = heap[p].saved[1].value,
                        ![p].saved = Tail(heap[p].saved)]

Dropped(h) == \E p \in DOMAIN heap :
    /\ IsItemAt(p)
    /\ heap[p].saved # <<>>
    /\ h = [heap EXCEPT ![p].saved = Tail(@)]

Fresh(h) == h = [p \in {Root} |-> EmptyRoot]

CallMakes(h) ==
    \/ h = heap
    \/ Grown(h) \/ Valued(h) \/ Pruned(h) \/ Emptied(h) \/ Rehung(h) \/ Moved(h)
    \/ Pushed(h) \/ Restored(h) \/ Dropped(h) \/ Fresh(h)

LEMMA DeclareMakes ==
    ASSUME GoodHeap(heap), NEW r \in Route, NEW s \in Scope, NEW n \in Spelled,
           NEW v \in Value \cup {Unfit}, NEW update \in BOOLEAN,
           Declare(r, s, n, v, update)
    PROVE  CallMakes(heap')
<1>1. PICK p : p = ResolveField(r)
  OBVIOUS
<1>2. PICK c : c = Child(p, s, n)
  OBVIOUS
<1>3. CASE heap' = heap
  BY <1>3 DEF CallMakes
<1>4. CASE heap' # heap
  <2>1. /\ BeginDeclare(r, s, n, update) = "S_OK" /\ v # Unfit
        /\ \E h \in DeclareItem(p, s, n, v) : heap' = h
    BY <1>1, <1>4, Zenon DEF Declare, Refuse, Becomes
  <2>2. n # BadName /\ p \in Pos
    <3>1. p \in DOMAIN heap \cup Failure
      BY <1>1, ResolveFieldFacts
    <3> QED
      BY <1>1, <2>1, <3>1, FailureFacts DEF BeginDeclare
  <2>3. IsItemAt(p) /\ p \in DOMAIN heap
    BY <1>1, <2>2, ResolveFieldFacts DEF IsItemAt
  <2>4. n \in Name /\ v \in Value
    BY <2>1, <2>2 DEF Spelled
  <2>5. \/ c \in Kids(heap, p, s)
        \/ c = "E_NO_ITEM" /\ \A q \in Kids(heap, p, s) : heap[q].name.key # n.key
    BY <1>2, <2>3, ChildFacts
  <2>6. CASE c \in Kids(heap, p, s)
    <3>1. c \in Pos /\ c \in DOMAIN heap
      BY <2>3, <2>6 DEF GoodHeap, RowsOK, Typed
    <3>2. heap[c].kind = "item" /\ heap' = [heap EXCEPT ![c].value = v]
      BY <1>2, <2>1, <3>1 DEF DeclareItem
    <3>3. Valued(heap')
      BY <2>4, <3>1, <3>2 DEF Valued, IsItemAt
    <3> QED
      BY <3>3 DEF CallMakes
  <2>7. CASE c = "E_NO_ITEM" /\ \A q \in Kids(heap, p, s) : heap[q].name.key # n.key
    <3>1. c \notin Pos
      BY <2>7, TreeAssumption DEF Failure
    <3>2. heap' \in Attached(p, s, Cell(n, "item", v))
      BY <1>2, <2>1, <3>1 DEF DeclareItem
    <3>3. "item" \in Kind
      BY DEF Kind
    <3>4. Grown(heap')
      BY <2>3, <2>4, <2>7, <3>2, <3>3 DEF Grown
    <3> QED
      BY <3>4 DEF CallMakes
  <2> QED
    BY <2>5, <2>6, <2>7
<1> QED
  BY <1>3, <1>4

LEMMA DeclareContainerMakes ==
    ASSUME GoodHeap(heap), NEW r \in Route, NEW s \in Scope, NEW n \in Spelled,
           NEW k \in Container, DeclareContainer(r, s, n, k)
    PROVE  CallMakes(heap')
<1>1. PICK p : p = ResolveField(r)
  OBVIOUS
<1>2. PICK c : c = Child(p, s, n)
  OBVIOUS
<1>3. PICK z : z = Zero(CHOOSE t \in Type : TRUE)
  OBVIOUS
<1>4. CASE heap' = heap
  BY <1>4 DEF CallMakes
<1>5. CASE heap' # heap
  <2>1. /\ BeginDeclare(r, s, n, FALSE) = "S_OK"
        /\ heap' \in Attached(p, s, Cell(n, k, z))
    BY <1>1, <1>3, <1>5, Zenon DEF DeclareContainer, Refuse, Becomes
  <2>2. n # BadName /\ p \in Pos /\ c \notin Pos
    <3>1. p \in DOMAIN heap \cup Failure
      BY <1>1, ResolveFieldFacts
    <3> QED
      BY <1>1, <1>2, <2>1, <3>1, FailureFacts DEF BeginDeclare
  <2>3. IsItemAt(p) /\ p \in DOMAIN heap
    BY <1>1, <2>2, ResolveFieldFacts DEF IsItemAt
  <2>4. n \in Name /\ z \in Value /\ k \in Kind
    BY <1>3, <2>2, TreeAssumption DEF Spelled, Value, Zero, Kind
  <2>5. \A q \in Kids(heap, p, s) : heap[q].name.key # n.key
    <3>1. c \in Kids(heap, p, s) => c \in Pos
      BY <2>3 DEF GoodHeap, RowsOK, Typed
    <3> QED
      BY <1>2, <2>2, <2>3, <3>1, ChildFacts
  <2>6. Grown(heap')
    BY <2>1, <2>3, <2>4, <2>5 DEF Grown
  <2> QED
    BY <2>6 DEF CallMakes
<1> QED
  BY <1>4, <1>5

LEMMA OnChildMakes ==
    ASSUME GoodHeap(heap), NEW r \in Route, NEW s \in Scope, NEW n \in Name, OnChild(r, s, n)
    PROVE  CallMakes(heap')
<1>1. PICK p : p = ResolveField(r)
  OBVIOUS
<1>2. PICK c : c = Target(r, s, n)
  OBVIOUS
<1>3. c \in Pos => IsItemAt(p) /\ p \in DOMAIN heap /\ c \in Kids(heap, p, s) /\ c \in DOMAIN heap
  BY <1>1, <1>2, TargetFacts DEF IsItemAt
<1>4. ASSUME NEW hr, Refuse(hr) PROVE CallMakes(heap')
  BY <1>4 DEF Refuse, CallMakes
<1>5. CASE Delete(r, s, n)
  <2>1. \/ \E hr : Refuse(hr)
        \/ /\ c \in Pos
           /\ Succeed(Freed([heap EXCEPT ![p].kids[s] = RemoveFirst(@, c)], Subtree({c})))
    BY <1>1, <1>2, <1>5, Zenon DEF Delete
  <2>2. \/ \E hr : Refuse(hr)
        \/ /\ c \in Pos
           /\ heap' = Freed([heap EXCEPT ![p].kids[s] = RemoveFirst(@, c)], Subtree({c}))
    BY <2>1, Zenon DEF Succeed, Becomes
  <2>3. (\E hr : Refuse(hr)) \/ Pruned(heap')
    BY <1>3, <2>2, Zenon DEF Pruned
  <2> QED
    BY <1>4, <2>3 DEF CallMakes
<1>6. ASSUME NEW m \in Spelled, Rename(r, s, n, m) PROVE CallMakes(heap')
  <2>1. \/ \E hr : Refuse(hr)
        \/ /\ m # BadName /\ c \in Pos /\ ~Taken(p, s, m, c)
           /\ heap' = [heap EXCEPT ![c].name = m]
    BY <1>1, <1>2, <1>6, Zenon DEF Rename, Succeed, Becomes
  <2>2. ASSUME m # BadName, c \in Pos, ~Taken(p, s, m, c), heap' = [heap EXCEPT ![c].name = m]
        PROVE  Rehung(heap')
    <3>1. \A q \in Kids(heap, p, s) : q # c => heap[q].name.key # m.key
      BY <2>2 DEF Taken, Same, Kids
    <3>2. m \in Name
      BY <2>2 DEF Spelled
    <3> QED
      BY <1>3, <2>2, <3>1, <3>2, Zenon DEF Rehung
  <2> QED
    BY <1>4, <2>1, <2>2 DEF CallMakes
<1>7. ASSUME NEW d \in Route, Move(r, s, n, d) PROVE CallMakes(heap')
  <2>1. PICK dest : dest = ResolveField(d)
    OBVIOUS
  <2>2. \/ \E hr : Refuse(hr)
        \/ /\ dest \in Pos /\ c \in Pos
           /\ ~(dest \in Subtree({c}) \/ Taken(dest, "child", heap[c].name, c))
           /\ heap' = Relinked(p, s, c, dest)
    BY <1>1, <1>2, <1>7, <2>1, Zenon DEF Move, Succeed, Becomes, Relinked
  <2>3. ASSUME dest \in Pos, c \in Pos,
               ~(dest \in Subtree({c}) \/ Taken(dest, "child", heap[c].name, c)),
               heap' = Relinked(p, s, c, dest)
        PROVE  Moved(heap')
    <3>1. \A q \in Kids(heap, dest, "child") : q # c => heap[q].name.key # heap[c].name.key
      BY <2>3 DEF Taken, Same, Kids
    <3>2. IsItemAt(dest) /\ dest \in DOMAIN heap
      BY <2>1, <2>3, ResolveFieldFacts DEF IsItemAt
    <3> QED
      BY <1>3, <2>3, <3>1, <3>2, Zenon DEF Moved
  <2> QED
    BY <1>4, <2>2, <2>3 DEF CallMakes
<1>8. ASSUME NEW t \in Type \cup {"unknown"}, Retype(r, s, n, t) PROVE CallMakes(heap')
  <2>1. \/ \E hr : Refuse(hr)
        \/ /\ c \in Pos /\ t \in Type /\ heap[c].kind = "item"
           /\ heap' = [heap EXCEPT ![c].value = Zero(t)]
    BY <1>2, <1>8, Zenon DEF Retype, Succeed, Becomes
  <2>2. t \in Type => Zero(t) \in Value
    BY TreeAssumption DEF Zero, Value
  <2>3. (\E hr : Refuse(hr)) \/ Valued(heap')
    BY <1>3, <2>1, <2>2, Zenon DEF Valued, IsItemAt
  <2> QED
    BY <1>4, <2>3 DEF CallMakes
<1> QED
  BY <1>5, <1>6, <1>7, <1>8 DEF OnChild

LEMMA OnNodeMakes ==
    ASSUME GoodHeap(heap), NEW r \in Route, OnNode(r)
    PROVE  CallMakes(heap')
<1>1. PICK p : p = ResolveField(r)
  OBVIOUS
<1>2. p \in Pos => IsItemAt(p) /\ p \in DOMAIN heap
  BY <1>1, ResolveFieldFacts DEF IsItemAt
<1>3. ASSUME NEW hr, Refuse(hr) PROVE CallMakes(heap')
  BY <1>3 DEF Refuse, CallMakes
<1>4. ASSUME NEW s \in Scope, Truncate(r, s) PROVE CallMakes(heap')
  <2>1. \/ \E hr : Refuse(hr)
        \/ /\ p \in Pos
           /\ heap' = Freed([heap EXCEPT ![p].kids[s] = <<>>], Subtree(Range(heap[p].kids[s])))
    BY <1>1, <1>4, Zenon DEF Truncate, Succeed, Becomes
  <2>2. (\E hr : Refuse(hr)) \/ Emptied(heap')
    BY <1>2, <2>1, Zenon DEF Emptied, Kids
  <2> QED
    BY <1>3, <2>2 DEF CallMakes
<1>5. ASSUME NEW v \in Value \cup {Unfit, Mistyped}, SetValue(r, v) PROVE CallMakes(heap')
  <2>1. \/ \E hr : Refuse(hr)
        \/ /\ p \in Pos /\ v.type = heap[p].value.type
           /\ heap' = [heap EXCEPT ![p].value = v]
    BY <1>1, <1>5, Zenon DEF SetValue, Succeed, Becomes
  <2>2. ASSUME p \in Pos, v.type = heap[p].value.type PROVE v \in Value
    <3>1. v.type \in Type
      BY <1>2, <2>2 DEF GoodHeap, Typed, CellType, Value
    <3> QED
      BY <3>1, TreeAssumption
  <2>3. (\E hr : Refuse(hr)) \/ Valued(heap')
    BY <1>2, <2>1, <2>2, Zenon DEF Valued
  <2> QED
    BY <1>3, <2>3 DEF CallMakes
<1>6. CASE PushValue(r)
  <2>1. \/ \E hr : Refuse(hr)
        \/ /\ p \in Pos
           /\ heap' = [heap EXCEPT ![p].saved =
                         <<[name |-> heap[p].name, value |-> heap[p].value]>> \o @]
    BY <1>1, <1>6, Zenon DEF PushValue, Succeed, Becomes
  <2>2. (\E hr : Refuse(hr)) \/ Pushed(heap')
    BY <1>2, <2>1, Zenon DEF Pushed
  <2> QED
    BY <1>3, <2>2 DEF CallMakes
<1>7. CASE PopValue(r)
  <2>1. \/ \E hr : Refuse(hr)
        \/ /\ p \in Pos /\ heap[p].saved # <<>> /\ ~Clashes(p, heap[p].saved[1].name)
           /\ heap' = [heap EXCEPT ![p].name  = heap[p].saved[1].name,
                                   ![p].value = heap[p].saved[1].value,
                                   ![p].saved = Tail(@)]
    BY <1>1, <1>7, Zenon DEF PopValue, Succeed, Becomes
  <2>2. ASSUME p \in Pos,
               heap' = [heap EXCEPT ![p].name  = heap[p].saved[1].name,
                                    ![p].value = heap[p].saved[1].value,
                                    ![p].saved = Tail(@)]
        PROVE  heap' = [heap EXCEPT ![p].name  = heap[p].saved[1].name,
                                    ![p].value = heap[p].saved[1].value,
                                    ![p].saved = Tail(heap[p].saved)]
    BY <2>2
  <2>3. (\E hr : Refuse(hr)) \/ Restored(heap')
    BY <1>2, <2>1, <2>2, Zenon DEF Restored
  <2> QED
    BY <1>3, <2>3 DEF CallMakes
<1>8. CASE DropValue(r)
  <2>1. \/ \E hr : Refuse(hr)
        \/ /\ p \in Pos /\ heap[p].saved # <<>>
           /\ heap' = [heap EXCEPT ![p].saved = Tail(@)]
    BY <1>1, <1>8, Zenon DEF DropValue, Succeed, Becomes
  <2>2. (\E hr : Refuse(hr)) \/ Dropped(heap')
    BY <1>2, <2>1, Zenon DEF Dropped
  <2> QED
    BY <1>3, <2>2 DEF CallMakes
<1> QED
  BY <1>4, <1>5, <1>6, <1>7, <1>8 DEF OnNode

LEMMA NextMakes ==
    ASSUME GoodHeap(heap), [Next]_vars
    PROVE  CallMakes(heap')
<1>1. ASSUME NEW r \in Route, NEW s \in Scope, NEW n \in Spelled, OnNewChild(r, s, n)
      PROVE  CallMakes(heap')
  BY <1>1, DeclareMakes, DeclareContainerMakes DEF OnNewChild
<1>2. CASE Clear
  BY <1>2 DEF Clear, Succeed, Becomes, Fresh, CallMakes
<1>3. CASE UNCHANGED heap
  BY <1>3 DEF CallMakes
<1> QED
  BY <1>1, <1>2, <1>3, OnChildMakes, OnNodeMakes, Zenon DEF Next, Save, SetDirty, vars

-----------------------------------------------------------------------------
(* Names.  A lookup hands out a route of stored names, so those must be     *)
(* names a step may have: every node but the root has one, and a pop brings *)
(* back a name the node had.                                                *)
NamesOf(p) == IF p = Root THEN {NoName} ELSE Name

NamedCell(p, cell) ==
    /\ cell.name \in NamesOf(p)
    /\ \A i \in 1..Len(cell.saved) : cell.saved[i].name \in NamesOf(p)

Named(h) == \A p \in DOMAIN h : NamedCell(p, h[p])

LEMMA UpdatedIsNamed ==
    ASSUME Named(heap), NEW p \in DOMAIN heap, NEW d, NamedCell(p, d)
    PROVE  Named([heap EXCEPT ![p] = d])
  BY DEF Named

LEMMA SameNamesFacts ==
    ASSUME Named(heap), NEW h, DOMAIN h \subseteq DOMAIN heap,
           \A p \in DOMAIN h : h[p].name = heap[p].name /\ h[p].saved = heap[p].saved
    PROVE  Named(h)
  BY DEF Named, NamedCell

LEMMA GrownIsNamed ==
    ASSUME GoodHeap(heap), Named(heap), NEW h, Grown(h)
    PROVE  Named(h)
<1>1. PICK p \in DOMAIN heap, s \in Scope, n \in Name, k \in Kind, v \in Value :
        h \in Attached(p, s, Cell(n, k, v))
  BY DEF Grown
<1>2. PICK cell : cell = Cell(n, k, v)
  OBVIOUS
<1>3. PICK new \in Pos \ DOMAIN heap :
        h = [q \in DOMAIN heap \cup {new} |->
               IF q = new THEN cell
               ELSE IF q = p THEN [heap[p] EXCEPT !.kids[s] = Append(@, new)]
               ELSE heap[q]]
  BY <1>1, <1>2 DEF Attached
<1>4. NamedCell(new, cell)
  <2>1. new # Root
    BY DEF GoodHeap, Typed
  <2>2. cell.name = n /\ cell.saved = <<>> /\ Len(cell.saved) = 0
    BY <1>2 DEF Cell
  <2> QED
    BY <2>1, <2>2 DEF NamedCell, NamesOf
<1>5. ASSUME NEW q \in DOMAIN heap, q # new
      PROVE  h[q].name = heap[q].name /\ h[q].saved = heap[q].saved
  <2>1. heap[p] \in CellType
    BY DEF GoodHeap, Typed
  <2> QED
    BY <1>3, <1>5, <2>1 DEF CellType
<1>6. DOMAIN h = DOMAIN heap \cup {new} /\ h[new] = cell
  BY <1>3
<1> QED
  BY <1>4, <1>5, <1>6 DEF Named, NamedCell

LEMMA PushedIsNamed ==
    ASSUME GoodHeap(heap), Named(heap), NEW h, Pushed(h)
    PROVE  Named(h)
<1>1. PICK p \in DOMAIN heap :
        h = [heap EXCEPT ![p].saved =
               <<[name |-> heap[p].name, value |-> heap[p].value]>> \o @]
  BY DEF Pushed
<1>2. PICK pair : pair = [name |-> heap[p].name, value |-> heap[p].value]
  OBVIOUS
<1>3. PICK q : q = <<pair>> \o heap[p].saved
  OBVIOUS
<1> DEFINE d == [heap[p] EXCEPT !.saved = q]
<1>4. h = [heap EXCEPT ![p] = d]
  BY <1>1, <1>2, <1>3
<1>5. heap[p] \in CellType
  BY DEF GoodHeap, Typed
<1>6. d.name = heap[p].name /\ d.saved = q
  BY <1>5 DEF CellType
<1>7. ASSUME NEW i \in 1..Len(q) PROVE q[i].name \in NamesOf(p)
  <2>1. PICK s \in Seq(Saved) : s = heap[p].saved
    BY <1>5 DEF CellType
  <2>2. PICK l \in Nat : l = Len(s)
    BY LenProperties
  <2>3. pair \in Saved
    BY <1>2, <1>5 DEF CellType, Saved
  <2>4. <<pair>> \in Seq(Saved) /\ Len(<<pair>>) = 1 /\ <<pair>>[1] = pair
    BY <2>3
  <2>5. /\ Len(q) = 1 + l
        /\ \A j \in 1 .. 1 + l : q[j] = IF j <= 1 THEN <<pair>>[j] ELSE s[j - 1]
    BY <1>3, <2>1, <2>2, <2>4, ConcatProperties
  <2>6. CASE i = 1
    BY <1>2, <2>4, <2>5, <2>6 DEF Named, NamedCell
  <2>7. CASE i # 1
    <3>1. i - 1 \in 1..l /\ q[i] = s[i - 1]
      BY <2>5, <2>7
    <3> QED
      BY <2>1, <2>2, <3>1 DEF Named, NamedCell
  <2> QED
    BY <2>6, <2>7
<1>8. heap[p].name \in NamesOf(p)
  BY DEF Named, NamedCell
<1> HIDE DEF d
<1>9. NamedCell(p, d)
  BY <1>6, <1>7, <1>8 DEF NamedCell
<1> QED
  BY <1>4, <1>9, UpdatedIsNamed

LEMMA TailIsNamed ==
    ASSUME GoodHeap(heap), Named(heap), NEW p \in DOMAIN heap, heap[p].saved # <<>>
    PROVE  /\ heap[p].saved[1].name \in NamesOf(p)
           /\ \A i \in 1..Len(Tail(heap[p].saved)) :
                Tail(heap[p].saved)[i].name \in NamesOf(p)
<1>1. PICK s \in Seq(Saved) : s = heap[p].saved
  BY DEF GoodHeap, Typed, CellType
<1>2. PICK l \in Nat : l = Len(s)
  BY LenProperties
<1>3. /\ l > 0
      /\ Len(Tail(s)) = l - 1
      /\ \A i \in 1 .. l - 1 : Tail(s)[i] = s[i + 1]
  BY <1>1, <1>2, HeadTailProperties, EmptySeq
<1>4. \A i \in 1..l : s[i].name \in NamesOf(p)
  BY <1>1, <1>2 DEF Named, NamedCell
<1>5. 1 \in 1..l /\ \A i \in 1 .. l - 1 : i + 1 \in 1..l
  BY <1>3
<1> QED
  BY <1>1, <1>3, <1>4, <1>5

LEMMA RestoredIsNamed ==
    ASSUME GoodHeap(heap), Named(heap), NEW h, Restored(h)
    PROVE  Named(h)
<1>1. PICK p \in DOMAIN heap :
        /\ heap[p].saved # <<>>
        /\ h = [heap EXCEPT ![p].name  = heap[p].saved[1].name,
                            ![p].value = heap[p].saved[1].value,
                            ![p].saved = Tail(heap[p].saved)]
  BY DEF Restored
<1>2. PICK pair, q : pair = heap[p].saved[1] /\ q = Tail(heap[p].saved)
  OBVIOUS
<1> DEFINE d == Popped(heap[p], pair.name, pair.value, q)
<1>3. h = [heap EXCEPT ![p] = d]
  BY <1>1, <1>2 DEF Popped
<1>4. heap[p] \in CellType
  BY DEF GoodHeap, Typed
<1>5. d.name = pair.name /\ d.saved = q
  BY <1>4 DEF CellType, Popped
<1> HIDE DEF d
<1>6. NamedCell(p, d)
  BY <1>1, <1>2, <1>5, TailIsNamed DEF NamedCell
<1> QED
  BY <1>3, <1>6, UpdatedIsNamed

LEMMA DroppedIsNamed ==
    ASSUME GoodHeap(heap), Named(heap), NEW h, Dropped(h)
    PROVE  Named(h)
<1>1. PICK p \in DOMAIN heap :
        heap[p].saved # <<>> /\ h = [heap EXCEPT ![p].saved = Tail(@)]
  BY DEF Dropped
<1>2. PICK q : q = Tail(heap[p].saved)
  OBVIOUS
<1> DEFINE d == [heap[p] EXCEPT !.saved = q]
<1>3. h = [heap EXCEPT ![p] = d]
  BY <1>1, <1>2
<1>4. heap[p] \in CellType
  BY DEF GoodHeap, Typed
<1>5. d.name = heap[p].name /\ d.saved = q
  BY <1>4 DEF CellType
<1>6. heap[p].name \in NamesOf(p)
  BY DEF Named, NamedCell
<1> HIDE DEF d
<1>7. NamedCell(p, d)
  BY <1>1, <1>2, <1>5, <1>6, TailIsNamed DEF NamedCell
<1> QED
  BY <1>3, <1>7, UpdatedIsNamed

LEMMA CallKeepsNamed ==
    ASSUME GoodHeap(heap), Named(heap), NEW h, CallMakes(h)
    PROVE  Named(h)
<1>0. heap = [p \in DOMAIN heap |-> heap[p]] /\ \A p \in DOMAIN heap : heap[p] \in CellType
  BY DEF GoodHeap, Typed
<1>1. CASE Valued(h)
  <2>1. PICK p \in DOMAIN heap, v \in Value : h = [heap EXCEPT ![p].value = v]
    BY <1>1 DEF Valued
  <2>2. /\ DOMAIN h = DOMAIN heap
        /\ \A q \in DOMAIN h : h[q].name = heap[q].name /\ h[q].saved = heap[q].saved
    BY <1>0, <2>1 DEF CellType
  <2> QED
    BY <2>2, SameNamesFacts
<1>2. CASE Pruned(h)
  <2>0. PICK p \in DOMAIN heap, s \in Scope : \E c, S :
          h = Freed([heap EXCEPT ![p].kids[s] = RemoveFirst(@, c)], S)
    BY <1>2 DEF Pruned
  <2>1. PICK c, S : h = Freed([heap EXCEPT ![p].kids[s] = RemoveFirst(@, c)], S)
    BY <2>0
  <2>2. PICK q : q = RemoveFirst(heap[p].kids[s], c)
    OBVIOUS
  <2>3. h = Freed([heap EXCEPT ![p].kids[s] = q], S)
    BY <2>1, <2>2
  <2>4. /\ DOMAIN h \subseteq DOMAIN heap
        /\ \A x \in DOMAIN h : h[x].name = heap[x].name /\ h[x].saved = heap[x].saved
    BY <1>0, <2>3 DEF CellType, Freed
  <2> QED
    BY <2>4, SameNamesFacts
<1>3. CASE Emptied(h)
  <2>0. PICK p \in DOMAIN heap, s \in Scope : \E S :
          h = Freed([heap EXCEPT ![p].kids[s] = <<>>], S)
    BY <1>3 DEF Emptied
  <2>1. PICK S : h = Freed([heap EXCEPT ![p].kids[s] = <<>>], S)
    BY <2>0
  <2>2. /\ DOMAIN h \subseteq DOMAIN heap
        /\ \A x \in DOMAIN h : h[x].name = heap[x].name /\ h[x].saved = heap[x].saved
    BY <1>0, <2>1 DEF CellType, Freed
  <2> QED
    BY <2>2, SameNamesFacts
<1>4. CASE Rehung(h)
  <2>0. PICK p \in DOMAIN heap, s \in Scope, m \in Name :
          \E c \in Kids(heap, p, s) : h = [heap EXCEPT ![c].name = m]
    BY <1>4 DEF Rehung
  <2>1. PICK c \in Kids(heap, p, s) : h = [heap EXCEPT ![c].name = m]
    BY <2>0
  <2>2. c \in DOMAIN heap /\ c # Root
    BY <2>1 DEF GoodHeap, RowsOK
  <2> DEFINE d == [heap[c] EXCEPT !.name = m]
  <2>3. h = [heap EXCEPT ![c] = d] /\ d.name = m /\ d.saved = heap[c].saved
    BY <1>0, <2>1, <2>2 DEF CellType
  <2> HIDE DEF d
  <2>4. NamedCell(c, d)
    BY <2>2, <2>3 DEF Named, NamedCell, NamesOf
  <2> QED
    BY <2>2, <2>3, <2>4, UpdatedIsNamed
<1>5. CASE Moved(h)
  <2>0. PICK p \in DOMAIN heap, d \in DOMAIN heap, s \in Scope :
          \E c : h = Relinked(p, s, c, d)
    BY <1>5 DEF Moved
  <2>1. PICK c : h = Relinked(p, s, c, d)
    BY <2>0
  <2>2. PICK g : g = [heap EXCEPT ![p].kids[s] = RemoveFirst(@, c)]
    OBVIOUS
  <2>3. PICK a : a = RemoveFirst(heap[p].kids[s], c)
    OBVIOUS
  <2>4. PICK b : b = Append(g[d].kids["child"], c)
    OBVIOUS
  <2>5. g = [heap EXCEPT ![p].kids[s] = a] /\ h = [g EXCEPT ![d].kids["child"] = b]
    BY <2>1, <2>2, <2>3, <2>4 DEF Relinked
  <2>6. /\ DOMAIN g = DOMAIN heap
        /\ \A x \in DOMAIN heap : g[x].name = heap[x].name /\ g[x].saved = heap[x].saved
        /\ g[d] = [g[d] EXCEPT !.kids = @]
    BY <1>0, <2>5 DEF CellType
  <2>7. /\ DOMAIN h = DOMAIN heap
        /\ \A x \in DOMAIN heap : h[x].name = g[x].name /\ h[x].saved = g[x].saved
    <3>1. g[d] = [heap[d] EXCEPT !.kids = g[d].kids]
      BY <1>0, <2>5 DEF CellType
    <3> QED
      BY <1>0, <2>5, <2>6, <3>1 DEF CellType
  <2> QED
    BY <2>6, <2>7, SameNamesFacts
<1>6. CASE Fresh(h)
  <2>1. Named(h)
    BY <1>6 DEF Fresh, Named, NamedCell, NamesOf, EmptyRoot, Cell
  <2> QED
    BY <2>1
<1> QED
  BY <1>1, <1>2, <1>3, <1>4, <1>5, <1>6, GrownIsNamed, PushedIsNamed, RestoredIsNamed,
     DroppedIsNamed DEF CallMakes

-----------------------------------------------------------------------------
(* A path is a text, and a text leads back to its route.                    *)
\* f[i]: the first i of n sequences, one after the other.
IsFlat(seqs, n, f) ==
    f = [i \in 1..n |-> IF i = 1 THEN seqs[i] ELSE f[i - 1] \o seqs[i]]

LEMMA FlatExists ==
    ASSUME NEW seqs, NEW n \in Nat
    PROVE  \E f : IsFlat(seqs, n, f)
<1> DEFINE Bad == {m \in Nat : ~ \E f : IsFlat(seqs, m, f)}
<1> SUFFICES ASSUME Bad # {} PROVE FALSE
  OBVIOUS
<1>1. PICK m \in Bad : \A k \in Bad : m <= k
  <2>1. Bad \subseteq Nat
    OBVIOUS
  <2> QED
    BY <2>1, LeastExists
<1>2. m \in Nat /\ ~ \E f : IsFlat(seqs, m, f)
  OBVIOUS
<1>3. CASE m = 0
  <2> DEFINE f == [i \in 1..0 |-> seqs[i]]
  <2>1. \A i \in 1..0 : FALSE
    OBVIOUS
  <2>2. f = [i \in 1..0 |-> IF i = 1 THEN seqs[i] ELSE f[i - 1] \o seqs[i]]
    BY <2>1
  <2>3. IsFlat(seqs, m, f)
    BY <1>3, <2>2 DEF IsFlat
  <2> QED
    BY <1>2, <2>3
<1>4. CASE m # 0
  <2>1. m - 1 \in Nat /\ ~(m <= m - 1)
    BY <1>2, <1>4
  <2>2. PICK f : IsFlat(seqs, m - 1, f)
    BY <1>1, <2>1
  <2> DEFINE g == [i \in 1..m |-> IF i < m THEN f[i]
                                  ELSE IF i = 1 THEN seqs[i] ELSE f[i - 1] \o seqs[i]]
  <2>3. \A i \in 1 .. m - 1 : f[i] = IF i = 1 THEN seqs[i] ELSE f[i - 1] \o seqs[i]
    BY <2>2 DEF IsFlat
  <2>4. ASSUME NEW i \in 1..m
        PROVE  g[i] = IF i = 1 THEN seqs[i] ELSE g[i - 1] \o seqs[i]
    <3>1. i # 1 => i - 1 \in 1..m /\ i - 1 < m
      BY <1>2
    <3>2. i # 1 => g[i - 1] = f[i - 1]
      BY <3>1
    <3>3. i < m => i \in 1 .. m - 1
      BY <1>2
    <3>4. g[i] = IF i = 1 THEN seqs[i] ELSE f[i - 1] \o seqs[i]
      BY <3>3, <2>3
    <3> HIDE DEF g
    <3> QED
      BY <3>2, <3>4
  <2>5. g = [i \in 1..m |-> g[i]]
    OBVIOUS
  <2> HIDE DEF g
  <2>6. IsFlat(seqs, m, g)
    BY <2>4, <2>5 DEF IsFlat
  <2> QED
    BY <1>2, <2>6
<1> QED
  BY <1>3, <1>4

Words(S, n, a, b) == n \in Nat /\ a \in [1..n -> S] /\ b \in [1..n -> S]
Zipped(S, n, a, b, s) ==
    /\ s \in Seq(S) /\ Len(s) = 2 * n
    /\ \A k \in 1..n : s[2 * k - 1] = a[k] /\ s[2 * k] = b[k]
Pairs(n, a, b) == [i \in 1..n |-> <<a[i], b[i]>>]

LEMMA FlatFacts ==
    ASSUME NEW S, NEW n, NEW a, NEW b, NEW f, Words(S, n, a, b),
           IsFlat(Pairs(n, a, b), n, f)
    PROVE  \A m \in 1..n : Zipped(S, m, a, b, f[m])
<1> DEFINE Good(m) == Zipped(S, m, a, b, f[m])
           Bad == {m \in 1..n : ~Good(m)}
<1>0. n \in Nat /\ a \in [1..n -> S] /\ b \in [1..n -> S]
  BY DEF Words
<1>1. \A m \in 1..n : f[m] = IF m = 1 THEN <<a[m], b[m]>> ELSE f[m - 1] \o <<a[m], b[m]>>
  BY DEF IsFlat, Pairs
<1>2. ASSUME NEW m \in 1..n
      PROVE  /\ <<a[m], b[m]>> \in Seq(S) /\ Len(<<a[m], b[m]>>) = 2
             /\ <<a[m], b[m]>>[1] = a[m] /\ <<a[m], b[m]>>[2] = b[m]
  BY <1>0
<1> SUFFICES ASSUME Bad # {} PROVE FALSE
  OBVIOUS
<1>3. PICK m \in Bad : \A k \in Bad : m <= k
  <2>1. Bad \subseteq Nat
    BY <1>0
  <2> QED
    BY <2>1, LeastExists
<1>4. n \in Nat /\ m \in 1..n /\ ~Good(m)
  BY <1>0
<1>5. CASE m = 1
  <2>1. f[m] = <<a[m], b[m]>>
    BY <1>1, <1>4, <1>5
  <2>2. \A k \in 1..m : k = 1
    BY <1>5
  <2>3. Good(m)
    BY <1>2, <1>4, <1>5, <2>1, <2>2 DEF Zipped
  <2> QED
    BY <1>4, <2>3
<1>6. CASE m # 1
  <2>1. m - 1 \in 1..n /\ ~(m <= m - 1)
    BY <1>4, <1>6
  <2>2. Good(m - 1)
    BY <1>3, <2>1
  <2>3. PICK t \in Seq(S) : t = <<a[m], b[m]>>
    BY <1>2, <1>4
  <2>4. Len(t) = 2 /\ t[1] = a[m] /\ t[2] = b[m]
    BY <1>2, <1>4, <2>3
  <2>5. PICK u \in Seq(S) : /\ u = f[m - 1] /\ Len(u) = 2 * (m - 1)
                            /\ \A k \in 1 .. m - 1 : u[2 * k - 1] = a[k] /\ u[2 * k] = b[k]
    BY <2>2 DEF Zipped
  <2>6. f[m] = u \o t
    BY <1>1, <1>4, <1>6, <2>3, <2>5
  <2>7. /\ f[m] \in Seq(S) /\ Len(f[m]) = Len(u) + Len(t)
        /\ \A i \in 1 .. Len(u) + Len(t) : f[m][i] = IF i <= Len(u) THEN u[i] ELSE t[i - Len(u)]
    <3>1. PICK w : w = u \o t
      OBVIOUS
    <3>2. /\ w \in Seq(S) /\ Len(w) = Len(u) + Len(t)
          /\ \A i \in 1 .. Len(u) + Len(t) : w[i] = IF i <= Len(u) THEN u[i] ELSE t[i - Len(u)]
      BY <3>1, ConcatProperties
    <3> QED
      BY <2>6, <3>1, <3>2
  <2>8. Len(u) + Len(t) = 2 * m
    BY <1>4, <2>4, <2>5
  <2>9. ASSUME NEW k \in 1..m PROVE f[m][2 * k - 1] = a[k] /\ f[m][2 * k] = b[k]
    <3>1. m \in Nat /\ k \in Nat /\ 2 * k - 1 \in 1 .. 2 * m /\ 2 * k \in 1 .. 2 * m
      BY <1>4
    <3>2. CASE k = m
      <4>1. ~(2 * k - 1 <= 2 * (m - 1)) /\ ~(2 * k <= 2 * (m - 1))
        BY <3>1, <3>2
      <4>2. 2 * k - 1 - 2 * (m - 1) = 1 /\ 2 * k - 2 * (m - 1) = 2
        BY <3>1, <3>2
      <4>3. f[m][2 * k - 1] = t[2 * k - 1 - Len(u)] /\ f[m][2 * k] = t[2 * k - Len(u)]
        BY <2>5, <2>7, <2>8, <3>1, <4>1
      <4> QED
        BY <2>4, <2>5, <3>2, <4>2, <4>3
    <3>3. CASE k # m
      <4>1. k \in 1 .. m - 1 /\ 2 * k - 1 <= 2 * (m - 1) /\ 2 * k <= 2 * (m - 1)
        BY <3>1, <3>3
      <4> QED
        BY <2>5, <2>7, <2>8, <3>1, <4>1
    <3> QED
      BY <3>2, <3>3
  <2>10. Good(m)
    BY <2>7, <2>8, <2>9 DEF Zipped
  <2> QED
    BY <1>4, <2>10
<1> QED
  BY <1>5, <1>6

LEMMA RouteIsSeq ==
    ASSUME NEW r \in Route
    PROVE  /\ Len(r) \in Nat /\ Len(r) <= MaxDepth
           /\ r \in [1..Len(r) -> Step]
<1>1. PICK k \in 0..MaxDepth : r \in [1..k -> Step]
  BY DEF Route
<1>2. Len(r) = k
  BY <1>1, TreeAssumption
<1> QED
  BY <1>1, <1>2, TreeAssumption

LEMMA SpelledOut ==
    ASSUME NEW n \in 0..MaxDepth, NEW q \in [1..n -> Step]
    PROVE  q \in Route /\ Len(q) = n
<1>1. n \in Nat
  BY TreeAssumption
<1> QED
  BY <1>1 DEF Route

LEMMA StepFacts ==
    /\ \A st \in Step : st.scope \in Scope /\ st.name \in Name
                        /\ st = [scope |-> st.scope, name |-> st.name]
    /\ \A s \in Scope : (CHOOSE t \in Scope : Mark(t) = Mark(s)) = s
    /\ \A m \in Marks : (CHOOSE t \in Scope : Mark(t) = m) \in Scope
                        /\ Mark(CHOOSE t \in Scope : Mark(t) = m) = m
<1>1. \A s, t \in Scope : Mark(s) = Mark(t) => s = t
  BY TreeAssumption DEF Mark
<1>2. \A st \in Step : st.scope \in Scope /\ st.name \in Name
                        /\ st = [scope |-> st.scope, name |-> st.name]
  BY DEF Step
<1> QED
  BY <1>1, <1>2 DEF Marks

LEMMA FormatFacts ==
    ASSUME NEW r \in Route
    PROVE  /\ FormatRoute(r) \in [1 .. 2 * Len(r) -> Marks \cup Name]
           /\ \A k \in 1..Len(r) : /\ FormatRoute(r)[2 * k - 1] = Mark(r[k].scope)
                                   /\ FormatRoute(r)[2 * k] = r[k].name
<1>1. PICK n \in Nat : n = Len(r) /\ r \in [1..n -> Step] /\ DOMAIN r = 1..n
  BY RouteIsSeq
<1>2. PICK S : S = Marks \cup Name
  OBVIOUS
<1>3. PICK a \in [1..n -> S] : a = [i \in 1..n |-> Mark(r[i].scope)]
  BY <1>1, <1>2, StepFacts DEF Marks
<1>4. PICK b \in [1..n -> S] : b = [i \in 1..n |-> r[i].name]
  BY <1>1, <1>2, StepFacts
<1>5. PICK pairs : pairs = Pairs(n, a, b)
  OBVIOUS
<1>6. FormatRoute(r) = FlattenSeq(pairs) /\ Len(pairs) = n
  <2>1. pairs = [i \in DOMAIN r |-> <<Mark(r[i].scope), r[i].name>>]
    BY <1>1, <1>3, <1>4, <1>5 DEF Pairs
  <2> QED
    <3>1. FormatRoute(r) = FlattenSeq(pairs)
      BY <2>1, Zenon DEF FormatRoute
    <3>2. Len(pairs) = n
      BY <1>5 DEF Pairs
    <3> QED
      BY <3>1, <3>2
<1>7. CASE n = 0
  <2>1. FormatRoute(r) = pairs
    BY <1>6, <1>7 DEF FlattenSeq
  <2> QED
    BY <1>1, <1>5, <1>7, <2>1 DEF Pairs
<1>8. CASE n # 0
  <2>1. \E f : IsFlat(pairs, n, f)
    BY FlatExists
  <2>2. PICK f : IsFlat(pairs, n, f) /\ FormatRoute(r) = f[n]
    <3>1. PICK g : g = [i \in 1..n |-> IF i = 1 THEN pairs[i] ELSE g[i - 1] \o pairs[i]]
                   /\ FlattenSeq(pairs) = g[n]
      BY <1>6, <1>8, <2>1, Zenon DEF FlattenSeq, IsFlat
    <3> QED
      BY <1>6, <3>1 DEF IsFlat
  <2>3. \A m \in 1..n : Zipped(S, m, a, b, f[m])
    <3>1. IsFlat(Pairs(n, a, b), n, f) /\ Words(S, n, a, b)
      BY <1>5, <2>2 DEF Words
    <3> QED
      BY <3>1, FlatFacts
  <2>4. n \in 1..n
    BY <1>1, <1>8
  <2>5. PICK u \in Seq(S) : u = FormatRoute(r)
    BY <2>2, <2>3, <2>4 DEF Zipped
  <2>6. /\ Len(u) = 2 * n
        /\ \A k \in 1..n : u[2 * k - 1] = a[k] /\ u[2 * k] = b[k]
    BY <2>2, <2>3, <2>4, <2>5 DEF Zipped
  <2>7. u \in [1..Len(u) -> S]
    BY LenProperties
  <2> QED
    BY <1>1, <1>2, <1>3, <1>4, <2>5, <2>6, <2>7
<1> QED
  BY <1>7, <1>8

LEMMA ParsedAsWritten ==
    ASSUME NEW r \in Route
    PROVE  ParseRoute(FormatRoute(r)) = Handed(r)
<1>1. PICK n \in Nat : n = Len(r) /\ n <= MaxDepth /\ r \in [1..n -> Step]
  BY RouteIsSeq
<1>2. PICK path : path = FormatRoute(r)
  OBVIOUS
<1>3. /\ path \in [1 .. 2 * n -> Marks \cup Name]
      /\ \A k \in 1..n : path[2 * k - 1] = Mark(r[k].scope) /\ path[2 * k] = r[k].name
  BY <1>1, <1>2, FormatFacts
<1>4. Len(path) = 2 * n
  BY <1>3
<1>5. (Len(path) + 1) \div 2 = n
  BY <1>4
<1>6. ASSUME NEW k \in 1..n
      PROVE  /\ path[2 * k - 1] \in Marks /\ 2 * k <= Len(path) /\ path[2 * k] \in Name
             /\ [scope |-> CHOOSE s \in Scope : Mark(s) = path[2 * k - 1],
                 name  |-> path[2 * k]] = r[k]
  <2>1. r[k] \in Step
    BY <1>1
  <2>2. path[2 * k - 1] = Mark(r[k].scope) /\ path[2 * k] = r[k].name
    BY <1>3
  <2>3. (CHOOSE s \in Scope : Mark(s) = path[2 * k - 1]) = r[k].scope
    BY <2>1, <2>2, StepFacts
  <2>4. 2 * k <= Len(path)
    BY <1>4
  <2> QED
    BY <2>1, <2>2, <2>3, <2>4, StepFacts DEF Marks
<1>7. r = [k \in 1..n |-> r[k]]
  BY <1>1
<1>8. [k \in 1..n |->
         [scope |-> CHOOSE s \in Scope : Mark(s) = path[2 * k - 1],
          name  |-> path[2 * k]]] = r
  BY <1>6, <1>7
<1>9. ParseRoute(path) =
        Handed([k \in 1..n |->
                  [scope |-> CHOOSE s \in Scope : Mark(s) = path[2 * k - 1],
                   name  |-> path[2 * k]]])
  <2>1. ~(Len(path) > 2 * MaxDepth)
    BY <1>1, <1>4, TreeAssumption
  <2>2. ~ \E k \in 1..n : /\ k <= MaxDepth + 1
                          /\ ~(/\ path[2 * k - 1] \in Marks
                               /\ 2 * k <= Len(path)
                               /\ path[2 * k] \in Name)
    BY <1>6
  <2> QED
    BY <1>5, <2>1, <2>2, Zenon DEF ParseRoute
<1> QED
  BY <1>2, <1>8, <1>9

LEMMA WrittenAsParsed ==
    ASSUME NEW path \in Path, ParseRoute(path).hr = "S_OK"
    PROVE  /\ ParseRoute(path).route \in Route
           /\ ParseRoute(path) = Handed(ParseRoute(path).route)
           /\ FormatRoute(ParseRoute(path).route) = path
<1>1. PICK m \in 0 .. 2 * MaxDepth + 2 : path \in [1..m -> Marks \cup Name \cup {BadName}]
  BY DEF Path
<1>2. m \in Nat /\ Len(path) = m
  BY <1>1, TreeAssumption
<1>3. PICK n \in Nat : n = (m + 1) \div 2 /\ (m = 2 * n \/ m = 2 * n - 1)
  BY <1>2
<1> DEFINE r == [k \in 1..n |-> [scope |-> CHOOSE s \in Scope : Mark(s) = path[2 * k - 1],
                                 name  |-> path[2 * k]]]
<1>4. /\ \A k \in 1..n : k <= MaxDepth + 1 =>
            /\ path[2 * k - 1] \in Marks /\ 2 * k <= m /\ path[2 * k] \in Name
      /\ ~(m > 2 * MaxDepth)
      /\ ParseRoute(path) = Handed(r)
  <2>1. Answer("E_PATH").hr # "S_OK" /\ Answer("E_DEPTH").hr # "S_OK"
    BY DEF Answer
  <2>2. PICK bad \in BOOLEAN :
          bad = \E k \in 1..n : /\ k <= MaxDepth + 1
                                /\ ~(/\ path[2 * k - 1] \in Marks
                                     /\ 2 * k <= m
                                     /\ path[2 * k] \in Name)
    OBVIOUS
  <2>3. ParseRoute(path) = IF bad THEN Answer("E_PATH")
                           ELSE IF m > 2 * MaxDepth THEN Answer("E_DEPTH")
                           ELSE Handed(r)
    BY <1>2, <1>3, <2>2, Zenon DEF ParseRoute
  <2> HIDE DEF r
  <2>4. ~bad /\ ~(m > 2 * MaxDepth) /\ ParseRoute(path) = Handed(r)
    BY <2>1, <2>3
  <2> QED
    BY <2>2, <2>4
<1>5. n <= MaxDepth
  BY <1>2, <1>3, <1>4, TreeAssumption
<1>6. \A k \in 1..n : path[2 * k - 1] \in Marks /\ 2 * k <= m /\ path[2 * k] \in Name
  BY <1>4, <1>5, TreeAssumption
<1>7. m = 2 * n
  <2>1. CASE n = 0
    BY <1>2, <1>3, <2>1
  <2>2. CASE n # 0
    <3>1. 2 * n <= m
      BY <1>6, <2>2
    <3> QED
      BY <1>2, <1>3, <3>1
  <2> QED
    BY <2>1, <2>2
<1>8. ASSUME NEW k \in 1..n
      PROVE  r[k] \in Step /\ Mark(r[k].scope) = path[2 * k - 1] /\ r[k].name = path[2 * k]
  <2>1. r[k] = [scope |-> CHOOSE s \in Scope : Mark(s) = path[2 * k - 1],
                name  |-> path[2 * k]]
    OBVIOUS
  <2> HIDE DEF r
  <2>2. PICK s \in Scope : /\ s = CHOOSE t \in Scope : Mark(t) = path[2 * k - 1]
                           /\ Mark(s) = path[2 * k - 1]
    BY <1>6, StepFacts
  <2>3. r[k] = [scope |-> s, name |-> path[2 * k]]
    BY <2>1, <2>2
  <2> QED
    BY <1>6, <2>2, <2>3 DEF Step
<1>9. r \in [1..n -> Step]
  <2>1. \A k \in 1..n : [scope |-> CHOOSE s \in Scope : Mark(s) = path[2 * k - 1],
                         name  |-> path[2 * k]] \in Step
    BY <1>8
  <2> QED
    BY <2>1
<1> HIDE DEF r
<1>10. r \in Route /\ Len(r) = n
  BY <1>5, <1>9, SpelledOut, TreeAssumption
<1>11. /\ FormatRoute(r) \in [1 .. 2 * n -> Marks \cup Name]
       /\ \A k \in 1..n : FormatRoute(r)[2 * k - 1] = path[2 * k - 1]
                          /\ FormatRoute(r)[2 * k] = path[2 * k]
  BY <1>8, <1>10, FormatFacts
<1>12. ASSUME NEW j \in 1 .. 2 * n PROVE FormatRoute(r)[j] = path[j]
  <2>1. \E k \in 1..n : j = 2 * k - 1 \/ j = 2 * k
    <3>1. PICK k \in Int : k = (j + 1) \div 2
      OBVIOUS
    <3>2. k \in 1..n /\ (j = 2 * k - 1 \/ j = 2 * k)
      BY <3>1
    <3> QED
      BY <3>2
  <2> QED
    BY <2>1, <1>11
<1>13. FormatRoute(r) = path
  BY <1>1, <1>7, <1>11, <1>12
<1>14. Handed(r).route = r
  BY DEF Handed
<1> QED
  BY <1>4, <1>10, <1>13, <1>14

LEMMA MakeFacts ==
    /\ \A r \in Route : Make(r) = Handed(r)
    /\ \A r : Handed(r).hr = "S_OK" /\ Handed(r).route = r
    /\ \A hr : Answer(hr).hr = hr
<1>1. ASSUME NEW r \in Route PROVE Make(r) = Handed(r)
  BY RouteIsSeq, TreeAssumption DEF Make
<1> QED
  BY <1>1 DEF Handed, Answer

LEMMA PathsLeadBack == GoodHeap(heap) => PathsAreRoutes
<1> SUFFICES ASSUME GoodHeap(heap) PROVE PathsAreRoutes
  OBVIOUS
<1>1. ASSUME NEW r \in Route, Resolve(r) \in Pos
      PROVE  NodeFromPath(GetPath(r)) = Handed(r)
  <2>1. ParseRoute(GetPath(r)) = Handed(r)
    BY ParsedAsWritten DEF GetPath
  <2> QED
    BY <1>1, <2>1, MakeFacts DEF NodeFromPath
<1>2. ASSUME NEW path \in Path, NodeFromPath(path).hr = "S_OK"
      PROVE  GetPath(NodeFromPath(path).route) = path
  <2>1. PICK parsed : parsed = ParseRoute(path)
    OBVIOUS
  <2>2. PICK p : p = Resolve(parsed.route)
    OBVIOUS
  <2>3. NodeFromPath(path) = IF parsed.hr # "S_OK" THEN parsed
                             ELSE IF p \in Pos THEN Make(parsed.route) ELSE Answer(p)
    BY <2>1, <2>2 DEF NodeFromPath
  <2>4. parsed.hr = "S_OK"
    BY <1>2, <2>3
  <2>5. /\ parsed.route \in Route /\ parsed = Handed(parsed.route)
        /\ FormatRoute(parsed.route) = path
    BY <2>1, <2>4, WrittenAsParsed
  <2>6. p # "S_OK" \/ p \in Pos
    BY <2>2, <2>5, ResolveFacts, FailureFacts
  <2>7. NodeFromPath(path) = Handed(parsed.route)
    BY <1>2, <2>3, <2>4, <2>5, <2>6, MakeFacts
  <2> QED
    BY <2>5, <2>7, MakeFacts DEF GetPath
<1> QED
  BY <1>1, <1>2 DEF PathsAreRoutes

-----------------------------------------------------------------------------
(* A walk of n steps from a node, all of whose steps succeed.               *)
Way(n, r, w) ==
    /\ n \in Nat /\ r \in [1..n -> Step]
    /\ \A i \in 0..n : w[i] \in DOMAIN heap
    /\ \A i \in 1..n : /\ heap[w[i - 1]].kind = "item"
                       /\ w[i] = Child(w[i - 1], r[i].scope, r[i].name)

Leads(n, p, r, q) == \E w : Way(n, r, w) /\ w[0] = p /\ w[n] = q

LEMMA ChildOrNone ==
    ASSUME GoodHeap(heap), NEW p \in DOMAIN heap, NEW s \in Scope, NEW n,
           Child(p, s, n) \in Pos
    PROVE  /\ Child(p, s, n) \in Kids(heap, p, s)
           /\ Child(p, s, n) \in DOMAIN heap \ {Root}
           /\ heap[Child(p, s, n)].name.key = n.key
<1>1. PICK c : c = Child(p, s, n)
  OBVIOUS
<1>2. \/ c \in Kids(heap, p, s) /\ heap[c].name.key = n.key
      \/ c = "E_NO_ITEM"
  BY <1>1, ChildFacts
<1>3. "E_NO_ITEM" \notin Pos
  BY TreeAssumption DEF Failure
<1> QED
  BY <1>1, <1>2, <1>3 DEF GoodHeap, RowsOK

\* A child is found under its own stored name.
LEMMA ChildByItsName ==
    ASSUME GoodHeap(heap), NEW p \in DOMAIN heap, NEW s \in Scope, NEW c \in Kids(heap, p, s),
           NEW n, n.key = heap[c].name.key
    PROVE  Child(p, s, n) = c
<1>1. PICK k : k = Child(p, s, n)
  OBVIOUS
<1>2. k \in Kids(heap, p, s) /\ heap[k].name.key = n.key
  BY <1>1, ChildFacts
<1> QED
  BY <1>1, <1>2 DEF GoodHeap, UniqueIn

LEMMA ResolvedLeads ==
    ASSUME GoodHeap(heap), NEW r \in Route, Resolve(r) \in Pos
    PROVE  Leads(Len(r), Root, r, Resolve(r))
<1>1. PICK w : w = Walk(r)
  OBVIOUS
<1>2. PICK n \in Nat : n = Len(r) /\ r \in [1..n -> Step]
  BY RouteIsSeq
<1>3. Track(heap, r, w) /\ Resolve(r) = w[n]
  BY <1>1, <1>2, WalkIsATrack, ResolveFacts
<1>4. \A i \in 0..n : w[i] \in DOMAIN heap
  BY <1>2, <1>3, NoFailureOnTheWay DEF GoodHeap
<1>5. w[0] = Root /\ \A i \in 1..n : w[i] = Stepped(w[i - 1], r[i])
  BY <1>1, <1>2, WalkEquation
<1>6. ASSUME NEW i \in 1..n
      PROVE  heap[w[i - 1]].kind = "item" /\ w[i] = Child(w[i - 1], r[i].scope, r[i].name)
  <2>1. w[i] \in Pos /\ w[i - 1] \in Pos
    BY <1>2, <1>4 DEF GoodHeap, Typed
  <2>2. "E_TYPE" \notin Pos
    BY TreeAssumption DEF Failure
  <2> QED
    BY <1>5, <2>1, <2>2 DEF Stepped
<1>7. Way(n, r, w)
  BY <1>2, <1>4, <1>6 DEF Way
<1> QED
  BY <1>2, <1>3, <1>5, <1>7 DEF Leads

LEMMA LeadsResolves ==
    ASSUME GoodHeap(heap), NEW n \in 0..MaxDepth, NEW r, NEW q, Leads(n, Root, r, q)
    PROVE  r \in Route /\ Len(r) = n /\ Resolve(r) = q /\ q \in DOMAIN heap
<1>1. PICK w : Way(n, r, w) /\ w[0] = Root /\ w[n] = q
  BY DEF Leads
<1>2. n \in Nat /\ r \in Route /\ Len(r) = n /\ r \in [1..n -> Step]
  BY <1>1, SpelledOut DEF Way
<1>3. PICK v : v = Walk(r)
  OBVIOUS
<1>4. v[0] = Root /\ \A i \in 1..n : v[i] = Stepped(v[i - 1], r[i])
  BY <1>2, <1>3, WalkEquation
<1> DEFINE Bad == {i \in 0..n : v[i] # w[i]}
<1>5. Bad = {}
  <2> SUFFICES ASSUME Bad # {} PROVE FALSE
    OBVIOUS
  <2>1. PICK i \in Bad : \A j \in Bad : i <= j
    <3>1. Bad \subseteq Nat
      BY <1>2
    <3> QED
      BY <3>1, LeastExists
  <2>2. i \in 0..n /\ v[i] # w[i]
    OBVIOUS
  <2>3. i \in 1..n /\ i - 1 \in 0..n /\ ~(i <= i - 1)
    BY <1>1, <1>2, <1>4, <2>2
  <2>4. v[i - 1] = w[i - 1]
    BY <2>1, <2>3
  <2>5. w[i - 1] \in Pos /\ heap[w[i - 1]].kind = "item"
        /\ w[i] = Child(w[i - 1], r[i].scope, r[i].name)
    BY <1>1, <2>3 DEF Way, GoodHeap, Typed
  <2>6. v[i] = w[i]
    BY <1>4, <2>3, <2>4, <2>5 DEF Stepped
  <2> QED
    BY <2>2, <2>6
<1>6. n \in 0..n
  BY <1>2
<1>7. v[n] = q /\ q \in DOMAIN heap
  BY <1>1, <1>5, <1>6 DEF Way
<1> QED
  BY <1>2, <1>3, <1>7, ResolveFacts

LEMMA LeadsOneStep ==
    ASSUME GoodHeap(heap), NEW p \in DOMAIN heap, heap[p].kind = "item", NEW st \in Step,
           NEW q \in DOMAIN heap, q = Child(p, st.scope, st.name)
    PROVE  Leads(1, p, <<st>>, q)
<1> DEFINE w == [i \in 0..1 |-> IF i = 0 THEN p ELSE q]
<1>1. w[0] = p /\ w[1] = q /\ <<st>> \in [1..1 -> Step] /\ <<st>>[1] = st
  OBVIOUS
<1>2. \A i \in 0..1 : i = 0 \/ i = 1
  OBVIOUS
<1>3. \A i \in 1..1 : i = 1
  OBVIOUS
<1> HIDE DEF w
<1>4. Way(1, <<st>>, w)
  BY <1>1, <1>2, <1>3 DEF Way
<1> QED
  BY <1>1, <1>4 DEF Leads

LEMMA LeadsFurther ==
    ASSUME GoodHeap(heap), NEW p \in DOMAIN heap, heap[p].kind = "item", NEW st \in Step,
           NEW n, NEW r, NEW q, Leads(n, Child(p, st.scope, st.name), r, q)
    PROVE  Leads(n + 1, p, <<st>> \o r, q)
<1>1. PICK w : Way(n, r, w) /\ w[0] = Child(p, st.scope, st.name) /\ w[n] = q
  BY DEF Leads
<1>2. n \in Nat /\ r \in [1..n -> Step] /\ r \in Seq(Step) /\ Len(r) = n
  BY <1>1 DEF Way
<1>3. PICK t : t = <<st>> \o r
  OBVIOUS
<1>4. PICK one \in Seq(Step) : one = <<st>> /\ Len(one) = 1 /\ one[1] = st
  <2>1. <<st>> \in Seq(Step) /\ Len(<<st>>) = 1 /\ <<st>>[1] = st
    OBVIOUS
  <2> QED
    BY <2>1
<1>5. /\ t \in Seq(Step) /\ Len(t) = 1 + n
      /\ \A i \in 1 .. 1 + n : t[i] = IF i <= 1 THEN one[i] ELSE r[i - 1]
  BY <1>2, <1>3, <1>4, ConcatProperties
<1>6. t \in [1 .. n + 1 -> Step] /\ t[1] = st /\ \A i \in 2 .. n + 1 : t[i] = r[i - 1]
  BY <1>2, <1>4, <1>5, LenProperties
<1> DEFINE v == [i \in 0 .. n + 1 |-> IF i = 0 THEN p ELSE w[i - 1]]
<1>7. v[0] = p /\ v[n + 1] = q /\ v[1] = w[0]
  BY <1>1, <1>2
<1>8. \A i \in 1 .. n + 1 : v[i] = w[i - 1]
  BY <1>2
<1> HIDE DEF v
<1>9. ASSUME NEW i \in 0 .. n + 1 PROVE v[i] \in DOMAIN heap
  <2>1. CASE i = 0
    BY <1>7, <2>1
  <2>2. CASE i # 0
    <3>1. i \in 1 .. n + 1 /\ i - 1 \in 0..n
      BY <1>2, <2>2
    <3> QED
      BY <1>1, <1>8, <3>1 DEF Way
  <2> QED
    BY <2>1, <2>2
<1>10. ASSUME NEW i \in 1 .. n + 1
       PROVE  heap[v[i - 1]].kind = "item" /\ v[i] = Child(v[i - 1], t[i].scope, t[i].name)
  <2>1. CASE i = 1
    BY <1>1, <1>6, <1>7, <2>1
  <2>2. CASE i # 1
    <3>1. i \in 2 .. n + 1 /\ i - 1 \in 1..n /\ i - 1 \in 1 .. n + 1
      BY <1>2, <2>2
    <3>2. heap[w[i - 1 - 1]].kind = "item"
          /\ w[i - 1] = Child(w[i - 1 - 1], r[i - 1].scope, r[i - 1].name)
      BY <1>1, <3>1 DEF Way
    <3>3. v[i] = w[i - 1] /\ v[i - 1] = w[i - 1 - 1] /\ t[i] = r[i - 1]
      BY <1>6, <1>8, <3>1
    <3> QED
      BY <3>2, <3>3
  <2> QED
    BY <2>1, <2>2
<1>11. Way(n + 1, t, v)
  BY <1>2, <1>6, <1>9, <1>10 DEF Way
<1> QED
  BY <1>3, <1>7, <1>11 DEF Leads

\* The first step of a walk, and the rest of it.
LEMMA LeadsThrough ==
    ASSUME GoodHeap(heap), NEW n, NEW p, NEW r, NEW q, Leads(n, p, r, q), n # 0
    PROVE  /\ p \in DOMAIN heap /\ heap[p].kind = "item" /\ n \in Nat
           /\ \E s \in Scope : \E c \in Kids(heap, p, s) :
                \/ n = 1 /\ c = q
                \/ n > 1 /\ \E t : Leads(n - 1, c, t, q)
<1>1. PICK w : Way(n, r, w) /\ w[0] = p /\ w[n] = q
  BY DEF Leads
<1>2. /\ n \in Nat /\ n > 0 /\ r \in [1..n -> Step] /\ 1 \in 1..n /\ 0 \in 0..n /\ 1 \in 0..n
      /\ 1 - 1 = 0
  BY <1>1 DEF Way
<1>3. r[1].scope \in Scope
  BY <1>2 DEF Step
<1>4. /\ p \in DOMAIN heap /\ w[1] \in DOMAIN heap
      /\ heap[p].kind = "item" /\ w[1] = Child(p, r[1].scope, r[1].name)
  BY <1>1, <1>2 DEF Way
<1>5. w[1] \in Kids(heap, p, r[1].scope)
  BY <1>3, <1>4, ChildOrNone DEF GoodHeap, Typed
<1>6. CASE n = 1
  BY <1>1, <1>2, <1>3, <1>4, <1>5, <1>6
<1>7. CASE n # 1
  <2>0. n > 1 /\ n - 1 \in Nat
    BY <1>2, <1>7
  <2> DEFINE t == [i \in 1 .. n - 1 |-> r[i + 1]]
             v == [i \in 0 .. n - 1 |-> w[i + 1]]
  <2>1. t \in [1 .. n - 1 -> Step]
    BY <1>2
  <2>2. v[0] = w[1] /\ v[n - 1] = q
    <3>1. 0 \in 0 .. n - 1 /\ n - 1 \in 0 .. n - 1 /\ (n - 1) + 1 = n /\ 0 + 1 = 1
      BY <1>2, <2>0
    <3> QED
      BY <1>1, <3>1
  <2>3. ASSUME NEW i \in 0 .. n - 1 PROVE v[i] \in DOMAIN heap
    <3>1. i + 1 \in 0..n
      BY <1>2
    <3> QED
      BY <1>1, <3>1 DEF Way
  <2>4. ASSUME NEW i \in 1 .. n - 1
        PROVE  heap[v[i - 1]].kind = "item" /\ v[i] = Child(v[i - 1], t[i].scope, t[i].name)
    <3>1. i + 1 \in 1..n /\ (i + 1) - 1 = i /\ i - 1 \in 0 .. n - 1 /\ (i - 1) + 1 = i
          /\ i \in 0 .. n - 1
      BY <1>2
    <3>2. heap[w[(i + 1) - 1]].kind = "item"
          /\ w[i + 1] = Child(w[(i + 1) - 1], r[i + 1].scope, r[i + 1].name)
      BY <1>1, <3>1 DEF Way
    <3>3. v[i - 1] = w[i] /\ v[i] = w[i + 1] /\ t[i] = r[i + 1]
      BY <3>1
    <3> QED
      BY <3>1, <3>2, <3>3
  <2> HIDE DEF t, v
  <2>5. Way(n - 1, t, v)
    BY <2>0, <2>1, <2>3, <2>4 DEF Way
  <2>6. Leads(n - 1, w[1], t, q)
    BY <2>2, <2>5 DEF Leads
  <2> QED
    BY <1>2, <1>3, <1>4, <1>5, <2>0, <2>6
<1> QED
  BY <1>6, <1>7

-----------------------------------------------------------------------------
(* The search by position.                                                  *)

\* The steps in e are those to p's children, by stored name.
StepsBelow(p, e) ==
    /\ e \in Seq(Step)
    /\ \A i \in 1..Len(e) : \E s \in Scope : \E c \in Kids(heap, p, s) :
         e[i] = [scope |-> s, name |-> heap[c].name]
    /\ \A s \in Scope : \A c \in Kids(heap, p, s) : \E i \in 1..Len(e) :
         e[i] = [scope |-> s, name |-> heap[c].name]

LEMMA EntriesFacts ==
    ASSUME GoodHeap(heap), Named(heap), NEW p \in DOMAIN heap
    PROVE  StepsBelow(p, Entries(p))
<1> DEFINE steps(s) == [i \in DOMAIN heap[p].kids[s] |->
                          [scope |-> s, name |-> heap[heap[p].kids[s][i]].name]]
           Lists(a, s) == /\ a \in Seq(Step)
                          /\ \A i \in 1..Len(a) : \E c \in Kids(heap, p, s) :
                               a[i] = [scope |-> s, name |-> heap[c].name]
                          /\ \A c \in Kids(heap, p, s) : \E i \in 1..Len(a) :
                               a[i] = [scope |-> s, name |-> heap[c].name]
<1>1. ASSUME NEW s \in Scope PROVE Lists(steps(s), s)
  <2>1. PICK kids \in Seq(Pos) : kids = heap[p].kids[s]
    BY DEF GoodHeap, RowsOK, Row
  <2>2. PICK n \in Nat : n = Len(kids) /\ DOMAIN kids = 1..n
    BY LenProperties
  <2>3. \A c : c \in Kids(heap, p, s) <=> \E i \in 1..n : kids[i] = c
    BY <2>1, <2>2, RangeFacts DEF Kids
  <2>4. \A c \in Kids(heap, p, s) : heap[c].name \in Name
    <3>1. Kids(heap, p, s) \subseteq DOMAIN heap \ {Root}
      BY DEF GoodHeap, RowsOK
    <3> QED
      BY <3>1 DEF Named, NamedCell, NamesOf
  <2>5. PICK a : a = [i \in 1..n |-> [scope |-> s, name |-> heap[kids[i]].name]]
    OBVIOUS
  <2>6. a = steps(s)
    BY <2>1, <2>2, <2>5
  <2>7. a \in [1..n -> Step]
    BY <2>3, <2>4, <2>5 DEF Step
  <2>8. a \in Seq(Step) /\ Len(a) = n
    BY <2>7
  <2>9. \A i \in 1..n : a[i] = [scope |-> s, name |-> heap[kids[i]].name]
    BY <2>5
  <2> HIDE DEF steps
  <2>10. Lists(a, s)
    BY <2>3, <2>8, <2>9
  <2> QED
    BY <2>6, <2>10
<1>2. PICK a : a = steps("child") /\ Lists(a, "child")
  <2>1. Lists(steps("child"), "child")
    BY <1>1, TreeAssumption
  <2> HIDE DEF steps, Lists
  <2> QED
    BY <2>1
<1>3. PICK b : /\ b = IF "attr" \in Scope THEN steps("attr") ELSE <<>>
               /\ b \in Seq(Step)
               /\ "attr" \in Scope => Lists(b, "attr")
               /\ "attr" \notin Scope => Len(b) = 0
  <2>1. CASE "attr" \in Scope
    <3>1. Lists(steps("attr"), "attr")
      BY <1>1, <2>1
    <3> HIDE DEF steps
    <3> QED
      BY <2>1, <3>1
  <2>2. CASE "attr" \notin Scope
    <3>1. <<>> \in Seq(Step) /\ Len(<<>>) = 0
      BY EmptySeq
    <3> HIDE DEF steps, Lists
    <3> QED
      BY <2>2, <3>1
  <2> QED
    BY <2>1, <2>2
<1>4. Entries(p) = a \o b
  BY <1>2, <1>3 DEF Entries
<1> HIDE DEF steps
<1>5. PICK e : e = a \o b
  OBVIOUS
<1>6. PICK l \in Nat, m \in Nat : l = Len(a) /\ m = Len(b) /\ a \in Seq(Step) /\ b \in Seq(Step)
  BY <1>2, <1>3, LenProperties
<1>7. /\ e \in Seq(Step) /\ Len(e) = l + m
      /\ \A i \in 1 .. l + m : e[i] = IF i <= l THEN a[i] ELSE b[i - l]
  BY <1>5, <1>6, ConcatProperties
<1>8. ASSUME NEW i \in 1 .. l + m
      PROVE  \E s \in Scope : \E c \in Kids(heap, p, s) :
               e[i] = [scope |-> s, name |-> heap[c].name]
  <2>1. CASE i <= l
    <3>1. i \in 1..l /\ e[i] = a[i] /\ "child" \in Scope
      BY <1>6, <1>7, <2>1, TreeAssumption
    <3> QED
      BY <1>2, <1>6, <3>1
  <2>2. CASE ~(i <= l)
    <3>1. i - l \in 1..m /\ e[i] = b[i - l] /\ m # 0
      BY <1>6, <1>7, <2>2
    <3>2. "attr" \in Scope /\ Lists(b, "attr")
      BY <1>3, <1>6, <3>1
    <3>3. PICK j \in 1..m : e[i] = b[j]
      BY <3>1
    <3>4. \E c \in Kids(heap, p, "attr") : b[j] = [scope |-> "attr", name |-> heap[c].name]
      BY <1>6, <3>2
    <3> QED
      BY <3>2, <3>3, <3>4
  <2> QED
    BY <2>1, <2>2
<1>9. ASSUME NEW s \in Scope, NEW c \in Kids(heap, p, s)
      PROVE  \E i \in 1 .. l + m : e[i] = [scope |-> s, name |-> heap[c].name]
  <2>1. CASE s = "child"
    <3>1. PICK i \in 1..l : a[i] = [scope |-> s, name |-> heap[c].name]
      BY <1>2, <1>6, <2>1
    <3>2. i \in 1 .. l + m /\ e[i] = a[i]
      BY <1>6, <1>7, <3>1
    <3> QED
      BY <3>1, <3>2
  <2>2. CASE s = "attr"
    <3>1. PICK i \in 1..m : b[i] = [scope |-> s, name |-> heap[c].name]
      BY <1>3, <1>6, <2>2
    <3>2. l + i \in 1 .. l + m /\ ~(l + i <= l) /\ (l + i) - l = i
      BY <1>6, <3>1
    <3>3. e[l + i] = b[i]
      BY <1>7, <3>2
    <3> QED
      BY <3>1, <3>2, <3>3
  <2> QED
    BY <2>1, <2>2, TreeAssumption
<1> HIDE DEF Lists
<1>10. \A i \in 1..Len(e) : \E s \in Scope : \E c \in Kids(heap, p, s) :
         e[i] = [scope |-> s, name |-> heap[c].name]
  BY <1>7, <1>8, Zenon
<1>11. \A s \in Scope : \A c \in Kids(heap, p, s) : \E i \in 1..Len(e) :
         e[i] = [scope |-> s, name |-> heap[c].name]
  BY <1>7, <1>9, Zenon
<1>12. StepsBelow(p, e)
  BY <1>7, <1>10, <1>11, Zenon DEF StepsBelow
<1> QED
  BY <1>4, <1>5, <1>12

LEMMA FirstFoundFacts ==
    ASSUME GoodHeap(heap), Named(heap), NEW p \in DOMAIN heap, NEW d \in Nat, NEW pos, NEW deeper
    PROVE  /\ FirstFound(p, d, pos, deeper) # {} => d < MaxDepth /\ heap[p].kind = "item"
           /\ \A r \in FirstFound(p, d, pos, deeper) :
                \E s \in Scope : \E c \in Kids(heap, p, s) :
                   r \in Through(p, [scope |-> s, name |-> heap[c].name], pos, deeper)
           /\ d < MaxDepth /\ heap[p].kind = "item" =>
                \A s \in Scope : \A c \in Kids(heap, p, s) :
                   Through(p, [scope |-> s, name |-> heap[c].name], pos, deeper) # {}
                     => FirstFound(p, d, pos, deeper) # {}
<1>1. PICK e \in Seq(Step) : e = Entries(p) /\ StepsBelow(p, e)
  BY EntriesFacts DEF StepsBelow
<1>2. PICK n \in Nat : n = Len(e)
  BY LenProperties
<1> DEFINE I == {i \in 1..n : Through(p, e[i], pos, deeper) # {}}
           f == IF I # {} THEN Min(I) ELSE 0
<1>3. FirstFound(p, d, pos, deeper) =
        IF ~(d < MaxDepth) \/ heap[p].kind # "item" \/ f = 0 THEN {}
        ELSE Through(p, e[f], pos, deeper)
  BY <1>1, <1>2 DEF FirstFound, SearchGoesBelow, SelectInSeq
<1>4. /\ I # {} => f \in I /\ f # 0
      /\ I = {} => f = 0
  <2>1. I \subseteq Nat
    BY <1>2
  <2>2. ASSUME I # {} PROVE f \in I
    <3>1. PICK x \in I : \A y \in I : x <= y
      BY <2>1, <2>2, LeastExists
    <3>2. Min(I) \in I
      BY <3>1 DEF Min
    <3> QED
      BY <2>2, <3>2
  <2>3. 0 \notin I
    BY <1>2
  <2> HIDE DEF I
  <2> QED
    BY <2>2, <2>3
<1> HIDE DEF f
<1>5. ASSUME NEW r \in FirstFound(p, d, pos, deeper)
      PROVE  \E s \in Scope : \E c \in Kids(heap, p, s) :
               r \in Through(p, [scope |-> s, name |-> heap[c].name], pos, deeper)
  <2>1. f \in I /\ r \in Through(p, e[f], pos, deeper)
    BY <1>3, <1>4, <1>5
  <2>2. PICK s \in Scope : \E c \in Kids(heap, p, s) : e[f] = [scope |-> s, name |-> heap[c].name]
    BY <1>1, <1>2, <2>1 DEF StepsBelow
  <2> QED
    BY <2>1, <2>2
<1>6. ASSUME d < MaxDepth, heap[p].kind = "item", NEW s \in Scope, NEW c \in Kids(heap, p, s),
             Through(p, [scope |-> s, name |-> heap[c].name], pos, deeper) # {}
      PROVE  FirstFound(p, d, pos, deeper) # {}
  <2>1. PICK i \in 1..n : e[i] = [scope |-> s, name |-> heap[c].name]
    BY <1>1, <1>2 DEF StepsBelow
  <2>2. i \in I
    BY <1>6, <2>1
  <2>3. f \in I /\ f # 0
    BY <1>4, <2>2
  <2> QED
    BY <1>3, <1>6, <2>3
<1> QED
  BY <1>3, <1>5, <1>6

(* SearchPos is the function its recursive equation describes, from the     *)
(* deepest nodes up.                                                        *)
IsSearch(pos, m, f) ==
    f = [d \in MaxDepth - m .. MaxDepth |->
           [p \in DOMAIN heap |-> FirstFound(p, d, pos, f[d + 1])]]

LEMMA DeepestFindNothing ==
    \A p, pos, deeper : FirstFound(p, MaxDepth, pos, deeper) = {}
<1>1. ~SearchGoesBelow(MaxDepth)
  BY TreeAssumption DEF SearchGoesBelow
<1> QED
  BY <1>1, Zenon DEF FirstFound

LEMMA SearchExists ==
    ASSUME NEW pos, NEW n \in 0..MaxDepth
    PROVE  \E f : IsSearch(pos, n, f)
<1> DEFINE Bad == {m \in 0..MaxDepth : ~ \E f : IsSearch(pos, m, f)}
<1> SUFFICES ASSUME Bad # {} PROVE FALSE
  OBVIOUS
<1>0. MaxDepth \in Nat
  BY TreeAssumption
<1>1. PICK m \in Bad : \A k \in Bad : m <= k
  <2>1. Bad \subseteq Nat
    BY <1>0
  <2> QED
    BY <2>1, LeastExists
<1>2. m \in Nat /\ m <= MaxDepth /\ ~ \E f : IsSearch(pos, m, f)
  BY <1>0
<1>3. CASE m = 0
  <2> DEFINE f == [d \in MaxDepth - 0 .. MaxDepth |-> [p \in DOMAIN heap |-> {}]]
  <2>1. \A d \in MaxDepth - 0 .. MaxDepth : d = MaxDepth
    BY <1>0
  <2>2. \A d \in MaxDepth - 0 .. MaxDepth :
          [p \in DOMAIN heap |-> {}] = [p \in DOMAIN heap |-> FirstFound(p, d, pos, f[d + 1])]
    BY <2>1, DeepestFindNothing
  <2>3. f = [d \in MaxDepth - 0 .. MaxDepth |->
               [p \in DOMAIN heap |-> FirstFound(p, d, pos, f[d + 1])]]
    BY <2>2
  <2>4. IsSearch(pos, m, f)
    BY <1>3, <2>3 DEF IsSearch
  <2> QED
    BY <1>2, <2>4
<1>4. CASE m # 0
  <2>1. m - 1 \in 0..MaxDepth /\ ~(m <= m - 1)
    BY <1>0, <1>2, <1>4
  <2>2. PICK f : IsSearch(pos, m - 1, f)
    BY <1>1, <2>1
  <2>3. PICK lo \in Nat : lo = MaxDepth - m /\ MaxDepth - (m - 1) = lo + 1 /\ lo + 1 <= MaxDepth
    BY <1>0, <1>2, <1>4
  <2> DEFINE g == [d \in lo .. MaxDepth |->
                     IF d = lo THEN [p \in DOMAIN heap |-> FirstFound(p, lo, pos, f[lo + 1])]
                     ELSE f[d]]
  <2>4. \A d \in lo + 1 .. MaxDepth :
          f[d] = [p \in DOMAIN heap |-> FirstFound(p, d, pos, f[d + 1])]
    BY <2>2, <2>3 DEF IsSearch
  <2>5. ASSUME NEW d \in lo .. MaxDepth
        PROVE  g[d] = [p \in DOMAIN heap |-> FirstFound(p, d, pos, g[d + 1])]
    <3>1. CASE d = lo
      <4>1. lo + 1 \in lo .. MaxDepth /\ lo + 1 # lo
        BY <1>0, <2>3
      <4>2. g[lo + 1] = f[lo + 1]
        BY <4>1
      <4>3. g[d] = [p \in DOMAIN heap |-> FirstFound(p, d, pos, f[lo + 1])]
        BY <3>1
      <4> HIDE DEF g
      <4> QED
        BY <3>1, <4>2, <4>3
    <3>2. CASE d # lo /\ d # MaxDepth
      <4>1. d \in lo + 1 .. MaxDepth /\ d + 1 \in lo .. MaxDepth /\ d + 1 # lo
        BY <1>0, <2>3, <3>2
      <4>2. g[d] = f[d] /\ g[d + 1] = f[d + 1]
        BY <3>2, <4>1
      <4>3. f[d] = [p \in DOMAIN heap |-> FirstFound(p, d, pos, f[d + 1])]
        BY <2>4, <4>1
      <4> HIDE DEF g
      <4> QED
        BY <4>2, <4>3
    <3>3. CASE d # lo /\ d = MaxDepth
      <4>1. d \in lo + 1 .. MaxDepth
        BY <1>0, <2>3, <3>3
      <4>2. f[d] = [p \in DOMAIN heap |-> FirstFound(p, d, pos, f[d + 1])]
        BY <2>4, <4>1
      <4>3. g[d] = f[d]
        BY <3>3
      <4> HIDE DEF g
      <4>4. [p \in DOMAIN heap |-> FirstFound(p, d, pos, f[d + 1])]
              = [p \in DOMAIN heap |-> FirstFound(p, d, pos, g[d + 1])]
        BY <3>3, DeepestFindNothing
      <4> QED
        BY <4>2, <4>3, <4>4
    <3> QED
      BY <3>1, <3>2, <3>3
  <2>6. g = [d \in lo .. MaxDepth |-> g[d]]
    OBVIOUS
  <2> HIDE DEF g
  <2>7. g = [d \in lo .. MaxDepth |-> [p \in DOMAIN heap |-> FirstFound(p, d, pos, g[d + 1])]]
    BY <2>5, <2>6
  <2>8. IsSearch(pos, m, g)
    BY <2>3, <2>7 DEF IsSearch
  <2> QED
    BY <1>2, <2>8
<1> QED
  BY <1>3, <1>4

LEMMA SearchEquation ==
    ASSUME NEW pos
    PROVE  \E f : /\ IsSearch(pos, MaxDepth, f)
                  /\ SearchPos(pos) = f[0][Root]
<1>1. MaxDepth \in 0..MaxDepth /\ MaxDepth - MaxDepth = 0
  BY TreeAssumption
<1>2. PICK f : IsSearch(pos, MaxDepth, f)
  BY <1>1, SearchExists
<1>3. f = [d \in 0..MaxDepth |->
             [p \in DOMAIN heap |-> FirstFound(p, d, pos, f[d + 1])]]
  BY <1>1, <1>2 DEF IsSearch
<1>4. PICK g : /\ g = [d \in 0..MaxDepth |->
                         [p \in DOMAIN heap |-> FirstFound(p, d, pos, g[d + 1])]]
               /\ SearchPos(pos) = g[0][Root]
  BY <1>3, Zenon DEF SearchPos
<1>5. IsSearch(pos, MaxDepth, g)
  BY <1>1, <1>4 DEF IsSearch
<1> QED
  BY <1>4, <1>5

LEMMA SearchRows ==
    ASSUME NEW pos, NEW f, IsSearch(pos, MaxDepth, f), NEW d \in 0..MaxDepth
    PROVE  \A p \in DOMAIN heap : f[d][p] = FirstFound(p, d, pos, f[d + 1])
<1>1. d \in MaxDepth - MaxDepth .. MaxDepth
  BY TreeAssumption
<1>2. f[d] = [p \in DOMAIN heap |-> FirstFound(p, d, pos, f[d + 1])]
  BY <1>1, Zenon DEF IsSearch
<1> QED
  BY <1>2, Zenon

\* Whatever the search finds leads to the position.
LEMMA SearchIsSound ==
    ASSUME GoodHeap(heap), Named(heap), NEW pos \in DOMAIN heap, NEW f,
           IsSearch(pos, MaxDepth, f), NEW m \in 0..MaxDepth
    PROVE  \A p \in DOMAIN heap : \A r \in f[MaxDepth - m][p] :
             \E n \in 0..m : Leads(n, p, r, pos)
<1> DEFINE Sound(k) == \A p \in DOMAIN heap : \A r \in f[MaxDepth - k][p] :
                         \E n \in 0..k : Leads(n, p, r, pos)
           Bad == {k \in 0..MaxDepth : ~Sound(k)}
<1> SUFFICES ASSUME Bad # {} PROVE FALSE
  OBVIOUS
<1>0. MaxDepth \in Nat
  BY TreeAssumption
<1>1. PICK k \in Bad : \A j \in Bad : k <= j
  <2>1. Bad \subseteq Nat
    BY <1>0
  <2> QED
    BY <2>1, LeastExists
<1>2. k \in 0..MaxDepth /\ ~Sound(k)
  OBVIOUS
<1>3. PICK d \in 0..MaxDepth : d = MaxDepth - k
  BY <1>0
<1>4. \A p \in DOMAIN heap : f[d][p] = FirstFound(p, d, pos, f[d + 1])
  BY SearchRows
<1>0b. PICK p \in DOMAIN heap :
         \E x : x \in f[d][p] /\ ~ \E n \in 0..k : Leads(n, p, x, pos)
  BY <1>2, <1>3
<1>5. PICK r : r \in f[d][p] /\ ~ \E n \in 0..k : Leads(n, p, r, pos)
  BY <1>0b
<1>6. /\ r \in FirstFound(p, d, pos, f[d + 1])
      /\ d < MaxDepth /\ heap[p].kind = "item"
  BY <1>0, <1>3, <1>4, <1>5, FirstFoundFacts
<1>7. PICK s \in Scope : \E x \in Kids(heap, p, s) :
        r \in Through(p, [scope |-> s, name |-> heap[x].name], pos, f[d + 1])
  BY <1>0, <1>3, <1>6, FirstFoundFacts
<1>8. PICK c \in Kids(heap, p, s) :
        r \in Through(p, [scope |-> s, name |-> heap[c].name], pos, f[d + 1])
  BY <1>7
<1>9. c \in DOMAIN heap /\ c # Root /\ heap[c].name \in Name
  <2>1. c \in DOMAIN heap /\ c # Root
    BY DEF GoodHeap, RowsOK
  <2> QED
    BY <2>1 DEF Named, NamedCell, NamesOf
<1>10. PICK st \in Step : /\ st = [scope |-> s, name |-> heap[c].name]
                          /\ st.scope = s /\ st.name = heap[c].name
  <2>1. [scope |-> s, name |-> heap[c].name] \in Step
    BY <1>9 DEF Step
  <2> QED
    BY <2>1
<1>11. Child(p, st.scope, st.name) = c
  BY <1>10, ChildByItsName
<1>12. CASE c = pos
  <2>1. r = <<st>>
    BY <1>8, <1>10, <1>11, <1>12 DEF Through
  <2>2. Leads(1, p, <<st>>, pos)
    BY <1>6, <1>11, <1>12, LeadsOneStep
  <2>3. 1 \in 0..k
    BY <1>0, <1>3, <1>6
  <2> QED
    BY <1>5, <2>1, <2>2, <2>3
<1>13. CASE c # pos
  <2>1. PICK t \in f[d + 1][c] : r = <<st>> \o t
    BY <1>8, <1>10, <1>11, <1>13 DEF Through
  <2>2. k - 1 \in 0..MaxDepth /\ ~(k <= k - 1) /\ MaxDepth - (k - 1) = d + 1
    BY <1>0, <1>3, <1>6
  <2>3. Sound(k - 1)
    BY <1>1, <2>2
  <2>4. PICK n \in 0 .. k - 1 : Leads(n, c, t, pos)
    BY <1>9, <2>1, <2>2, <2>3
  <2>5. Leads(n + 1, p, <<st>> \o t, pos)
    BY <1>6, <1>11, <2>4, LeadsFurther
  <2>6. n + 1 \in 0..k
    BY <1>2, <2>4
  <2> QED
    BY <1>5, <2>1, <2>5, <2>6
<1> QED
  BY <1>12, <1>13

\* And where there is a way, it finds one.
LEMMA SearchIsComplete ==
    ASSUME GoodHeap(heap), Named(heap), NEW pos \in DOMAIN heap, NEW f,
           IsSearch(pos, MaxDepth, f), NEW m \in 0..MaxDepth
    PROVE  \A p \in DOMAIN heap : \A n \in 1..m :
             (\E r : Leads(n, p, r, pos)) => f[MaxDepth - m][p] # {}
<1> DEFINE Full(k) == \A p \in DOMAIN heap : \A n \in 1..k :
                         (\E r : Leads(n, p, r, pos)) => f[MaxDepth - k][p] # {}
           Bad == {k \in 0..MaxDepth : ~Full(k)}
<1> SUFFICES ASSUME Bad # {} PROVE FALSE
  OBVIOUS
<1>0. MaxDepth \in Nat
  BY TreeAssumption
<1>1. PICK k \in Bad : \A j \in Bad : k <= j
  <2>1. Bad \subseteq Nat
    BY <1>0
  <2> QED
    BY <2>1, LeastExists
<1>2. k \in 0..MaxDepth /\ ~Full(k)
  OBVIOUS
<1>3. PICK d \in 0..MaxDepth : d = MaxDepth - k
  BY <1>0
<1>4. \A p \in DOMAIN heap : f[d][p] = FirstFound(p, d, pos, f[d + 1])
  BY SearchRows
<1>5. PICK p \in DOMAIN heap, n \in 1..k : (\E r : Leads(n, p, r, pos)) /\ f[d][p] = {}
  BY <1>2, <1>3
<1>6. PICK r : Leads(n, p, r, pos)
  BY <1>5
<1>7. n # 0 /\ n \in Nat /\ d < MaxDepth
  BY <1>0, <1>3
<1>8. /\ heap[p].kind = "item"
      /\ \E s \in Scope : \E c \in Kids(heap, p, s) :
           \/ n = 1 /\ c = pos
           \/ n > 1 /\ \E t : Leads(n - 1, c, t, pos)
  BY <1>6, <1>7, LeadsThrough
<1>9. PICK s \in Scope : \E c \in Kids(heap, p, s) :
           \/ n = 1 /\ c = pos
           \/ n > 1 /\ \E t : Leads(n - 1, c, t, pos)
  BY <1>8
<1>10. PICK c \in Kids(heap, p, s) : \/ n = 1 /\ c = pos
                                     \/ n > 1 /\ \E t : Leads(n - 1, c, t, pos)
  BY <1>9
<1>11. PICK st : st = [scope |-> s, name |-> heap[c].name]
  OBVIOUS
<1>12. Child(p, st.scope, st.name) = c /\ c \in DOMAIN heap
  BY <1>11, ChildByItsName DEF GoodHeap, RowsOK
<1>13. Through(p, st, pos, f[d + 1]) # {}
  <2>1. CASE c = pos
    BY <1>12, <2>1 DEF Through
  <2>2. CASE c # pos
    <3>1. n > 1 /\ \E t : Leads(n - 1, c, t, pos)
      BY <1>10, <2>2
    <3>2. k - 1 \in 0..MaxDepth /\ ~(k <= k - 1) /\ MaxDepth - (k - 1) = d + 1 /\ n - 1 \in 1 .. k - 1
      BY <1>0, <1>2, <1>3, <1>7, <3>1
    <3>3. Full(k - 1)
      BY <1>1, <3>2
    <3>4. f[d + 1][c] # {}
      BY <1>12, <3>1, <3>2, <3>3
    <3> QED
      BY <1>12, <2>2, <3>4 DEF Through
  <2> QED
    BY <2>1, <2>2
<1>14. FirstFound(p, d, pos, f[d + 1]) # {}
  BY <1>3, <1>7, <1>8, <1>11, <1>13, FirstFoundFacts
<1> QED
  BY <1>4, <1>5, <1>14

LEMMA PositionsLeadBack ==
    ASSUME GoodHeap(heap), Named(heap)
    PROVE  PosRoundTrip
<1> SUFFICES ASSUME NEW r \in Route, Resolve(r) \in Pos
             PROVE  /\ NodeFromPos(Resolve(r)).hr = "S_OK"
                    /\ Resolve(NodeFromPos(Resolve(r)).route) = Resolve(r)
  BY DEF PosRoundTrip, GetPos
<1>1. PICK p : p = Resolve(r)
  OBVIOUS
<1>2. p \in DOMAIN heap /\ Leads(Len(r), Root, r, p) /\ Len(r) \in 0..MaxDepth
  BY <1>1, ResolveFacts, ResolvedLeads, RouteIsSeq, FailureFacts
<1>3. CASE p = Root
  <2>1. <<>> \in Route /\ Len(<<>>) = 0
    <3>1. 0 \in 0..MaxDepth /\ <<>> \in [1..0 -> Step]
      BY TreeAssumption
    <3> QED
      BY <3>1, SpelledOut
  <2>2. NodeFromPos(p) = Handed(<<>>)
    BY <1>3, <2>1, MakeFacts DEF NodeFromPos
  <2>3. Resolve(<<>>) = Root
    BY <2>1, ResolveFacts, WalkEquation
  <2> QED
    BY <1>1, <1>3, <2>2, <2>3, MakeFacts
<1>4. CASE p # Root
  <2>1. PICK f : IsSearch(p, MaxDepth, f) /\ SearchPos(p) = f[0][Root]
    BY SearchEquation
  <2>2. MaxDepth \in 0..MaxDepth /\ MaxDepth - MaxDepth = 0 /\ Root \in DOMAIN heap
    BY TreeAssumption DEF GoodHeap, Typed
  <2>3. Len(r) # 0
    <3>1. Len(r) = 0 => p = Root
      BY <1>1, <1>2, ResolveFacts, WalkEquation
    <3> QED
      BY <1>4, <3>1
  <2>4. Len(r) \in 1..MaxDepth
    BY <1>2, <2>2, <2>3
  <2>5. SearchPos(p) # {}
    BY <1>2, <2>1, <2>2, <2>4, SearchIsComplete
  <2>6. PICK t \in SearchPos(p) : t = CHOOSE u \in SearchPos(p) : TRUE
    BY <2>5
  <2>7. PICK n \in 0..MaxDepth : Leads(n, Root, t, p)
    BY <1>2, <2>1, <2>2, <2>6, SearchIsSound
  <2>8. t \in Route /\ Resolve(t) = p
    BY <2>7, LeadsResolves
  <2>9. NodeFromPos(p) = Handed(t)
    BY <1>4, <2>5, <2>6, <2>8, MakeFacts DEF NodeFromPos
  <2> QED
    BY <1>1, <2>8, <2>9, MakeFacts
<1> QED
  BY <1>3, <1>4

-----------------------------------------------------------------------------
(* The lookups.                                                             *)
LEMMA LeadsOneMore ==
    ASSUME GoodHeap(heap), Named(heap), NEW n, NEW r, NEW p, NEW q, Leads(n, p, r, q),
           heap[q].kind = "item", NEW s \in Scope, NEW c \in Kids(heap, q, s)
    PROVE  Leads(n + 1, p, RouteWith(r, s, heap[c].name), c)
<1>1. PICK w : Way(n, r, w) /\ w[0] = p /\ w[n] = q
  BY DEF Leads
<1>2. n \in Nat /\ r \in [1..n -> Step] /\ r \in Seq(Step) /\ Len(r) = n /\ q \in DOMAIN heap
  <2>1. n \in Nat /\ r \in [1..n -> Step]
    BY <1>1 DEF Way
  <2>2. n \in 0..n
    BY <2>1
  <2>3. q \in DOMAIN heap
    BY <1>1, <2>2 DEF Way
  <2> QED
    BY <2>1, <2>3
<1>3. c \in DOMAIN heap /\ heap[c].name \in Name
  <2>1. c \in DOMAIN heap /\ c # Root
    BY <1>2 DEF GoodHeap, RowsOK
  <2> QED
    BY <2>1 DEF Named, NamedCell, NamesOf
<1>4. PICK st \in Step : /\ st = [scope |-> s, name |-> heap[c].name]
                         /\ st.scope = s /\ st.name = heap[c].name
  <2>1. [scope |-> s, name |-> heap[c].name] \in Step
    BY <1>3 DEF Step
  <2> QED
    BY <2>1
<1>5. PICK t : t = Append(r, st)
  OBVIOUS
<1>6. /\ t \in Seq(Step) /\ Len(t) = n + 1
      /\ \A i \in 1..n : t[i] = r[i]
      /\ t[n + 1] = st
  BY <1>2, <1>5, AppendProperties
<1>7. t \in [1 .. n + 1 -> Step]
  BY <1>6, LenProperties
<1> DEFINE v == [i \in 0 .. n + 1 |-> IF i = n + 1 THEN c ELSE w[i]]
<1>8. v[n + 1] = c /\ \A i \in 0..n : v[i] = w[i]
  BY <1>2
<1> HIDE DEF v
<1>9. ASSUME NEW i \in 0 .. n + 1 PROVE v[i] \in DOMAIN heap
  <2>1. CASE i = n + 1
    BY <1>3, <1>8, <2>1
  <2>2. CASE i # n + 1
    <3>1. i \in 0..n
      BY <1>2, <2>2
    <3> QED
      BY <1>1, <1>8, <3>1 DEF Way
  <2> QED
    BY <2>1, <2>2
<1>10. ASSUME NEW i \in 1 .. n + 1
       PROVE  heap[v[i - 1]].kind = "item" /\ v[i] = Child(v[i - 1], t[i].scope, t[i].name)
  <2>1. CASE i = n + 1
    <3>1. i - 1 = n /\ n \in 0..n
      BY <1>2, <2>1
    <3>2. v[i - 1] = q /\ v[i] = c
      BY <1>1, <1>8, <2>1, <3>1
    <3>3. Child(q, s, heap[c].name) = c
      BY <1>2, ChildByItsName
    <3> QED
      BY <1>4, <1>6, <2>1, <3>2, <3>3
  <2>2. CASE i # n + 1
    <3>1. i \in 1..n /\ i - 1 \in 0..n /\ i \in 0..n
      BY <1>2, <2>2
    <3>2. heap[w[i - 1]].kind = "item" /\ w[i] = Child(w[i - 1], r[i].scope, r[i].name)
      BY <1>1, <3>1 DEF Way
    <3> QED
      BY <1>6, <1>8, <3>1, <3>2
  <2> QED
    BY <2>1, <2>2
<1>11. Way(n + 1, t, v)
  BY <1>2, <1>7, <1>9, <1>10 DEF Way
<1>12. v[0] = p
  BY <1>1, <1>2, <1>8
<1> QED
  BY <1>4, <1>5, <1>8, <1>11, <1>12 DEF Leads, RouteWith

\* A handle on a child, of the kind the child is.
LEMMA HandleOfChild ==
    ASSUME GoodHeap(heap), Named(heap), NEW r \in Route, ResolveField(r) \in Pos,
           NEW s \in Scope, NEW c \in Kids(heap, ResolveField(r), s)
    PROVE  /\ Len(r) < MaxDepth =>
                /\ Make(RouteWith(r, s, heap[c].name)) = Handed(RouteWith(r, s, heap[c].name))
                /\ Resolve(RouteWith(r, s, heap[c].name)) = c
                /\ GetKind(RouteWith(r, s, heap[c].name)) = heap[c].kind
                /\ Last(RouteWith(r, s, heap[c].name)).name
                     = GetName(RouteWith(r, s, heap[c].name))
           /\ Len(r) = MaxDepth =>
                Make(RouteWith(r, s, heap[c].name)) = Answer("E_DEPTH")
<1>1. PICK n \in Nat : n = Len(r) /\ n <= MaxDepth /\ r \in [1..n -> Step] /\ r \in Seq(Step)
  BY RouteIsSeq
<1>2. PICK p : p = ResolveField(r)
  OBVIOUS
<1>3. p \in DOMAIN heap /\ heap[p].kind = "item" /\ p = Resolve(r) /\ p \in Pos
  BY <1>2, ResolveFieldFacts
<1>4. c \in DOMAIN heap /\ c # Root /\ heap[c].name \in Name
  <2>1. c \in DOMAIN heap /\ c # Root
    BY <1>2, <1>3 DEF GoodHeap, RowsOK
  <2> QED
    BY <2>1 DEF Named, NamedCell, NamesOf
<1>5. PICK t : t = RouteWith(r, s, heap[c].name)
  OBVIOUS
<1>6. t # <<>> /\ Len(t) = n + 1 /\ t[n + 1].name = heap[c].name
  <2>1. PICK st \in Step : st = [scope |-> s, name |-> heap[c].name] /\ st.name = heap[c].name
    <3>1. [scope |-> s, name |-> heap[c].name] \in Step
      BY <1>4 DEF Step
    <3> QED
      BY <3>1
  <2>2. t = Append(r, st)
    BY <1>5, <2>1 DEF RouteWith
  <2> QED
    BY <1>1, <2>1, <2>2, AppendProperties
<1>7. CASE n < MaxDepth
  <2>1. Leads(n, Root, r, p)
    BY <1>1, <1>3, ResolvedLeads
  <2>2. Leads(n + 1, Root, t, c)
    BY <1>2, <1>3, <1>5, <2>1, LeadsOneMore
  <2>3. n + 1 \in 0..MaxDepth
    BY <1>1, <1>7, TreeAssumption
  <2>4. t \in Route /\ Resolve(t) = c
    BY <2>2, <2>3, LeadsResolves
  <2>5. Make(t) = Handed(t) /\ GetKind(t) = heap[c].kind /\ GetName(t) = heap[c].name
    BY <1>6, <2>4, MakeFacts DEF GetKind, GetName
  <2>6. Last(t).name = heap[c].name
    BY <1>6 DEF Last
  <2> QED
    BY <1>1, <1>5, <1>7, <2>4, <2>5, <2>6
<1>8. CASE n = MaxDepth
  <2>1. Make(t) = Answer("E_DEPTH")
    BY <1>6, <1>8, TreeAssumption DEF Make
  <2> QED
    BY <1>1, <1>5, <1>8, <2>1
<1> QED
  BY <1>1, <1>7, <1>8, TreeAssumption

Found(got, c) == GetPos(got.route) = c /\ Last(got.route).name = GetName(got.route)

LEMMA ByName ==
    ASSUME GoodHeap(heap), Named(heap), NEW r \in Route, ResolveField(r) \in Pos,
           NEW s \in Scope, NEW n \in Name
    PROVE  /\ GetChild(r, s, n).hr = "S_OK"
                => Found(GetChild(r, s, n), Child(GetPos(r), s, n))
           /\ (Exists(r, s, n) = "S_FALSE") = (GetChild(r, s, n).hr = "E_NO_ITEM")
           /\ \A k \in Container :
                GetContainer(r, s, n, k).hr = "S_OK" /\ Len(r) < MaxDepth =>
                  /\ Found(GetContainer(r, s, n, k), Child(GetPos(r), s, n))
                  /\ GetKind(GetContainer(r, s, n, k).route) = k
<1>1. PICK p : p = ResolveField(r)
  OBVIOUS
<1>2. p \in DOMAIN heap /\ p = GetPos(r) /\ p \in Pos
  BY <1>1, ResolveFieldFacts DEF GetPos
<1>3. PICK c : c = Child(p, s, n)
  OBVIOUS
<1>4. /\ Exists(r, s, n) = IF c \in Pos THEN "S_OK" ELSE "S_FALSE"
      /\ GetChild(r, s, n) = IF c \notin Pos THEN Answer(c)
                             ELSE Make(RouteWith(r, s, heap[c].name))
      /\ \A k : GetContainer(r, s, n, k) =
                  IF c \notin Pos THEN Answer(c)
                  ELSE IF heap[c].kind # k THEN Answer("E_TYPE")
                  ELSE Handed(RouteWith(r, s, heap[c].name))
  BY <1>1, <1>2, <1>3 DEF Exists, GetChild, GetContainer
<1>5. CASE c \notin Pos
  <2>1. c = "E_NO_ITEM"
    <3>1. c \in Kids(heap, p, s) => c \in Pos
      BY <1>2 DEF GoodHeap, RowsOK, Typed
    <3> QED
      BY <1>2, <1>3, <1>5, <3>1, ChildFacts
  <2> QED
    BY <1>4, <1>5, <2>1, MakeFacts
<1>6. CASE c \in Pos
  <2>1. c \in Kids(heap, ResolveField(r), s)
    BY <1>1, <1>2, <1>3, <1>6, ChildOrNone
  <2>2. PICK t : t = RouteWith(r, s, heap[c].name)
    OBVIOUS
  <2>3. /\ Len(r) < MaxDepth => /\ Make(t) = Handed(t) /\ Resolve(t) = c
                                /\ GetKind(t) = heap[c].kind /\ Last(t).name = GetName(t)
        /\ Len(r) = MaxDepth => Make(t) = Answer("E_DEPTH")
    BY <2>1, <2>2, HandleOfChild
  <2>4. Len(r) < MaxDepth \/ Len(r) = MaxDepth
    BY RouteIsSeq, TreeAssumption
  <2>5. /\ GetChild(r, s, n) = Make(t) /\ Exists(r, s, n) = "S_OK"
        /\ \A k : GetContainer(r, s, n, k) = IF heap[c].kind # k THEN Answer("E_TYPE")
                                             ELSE Handed(t)
    BY <1>4, <1>6, <2>2
  <2>6. GetChild(r, s, n).hr = "S_OK" => Found(GetChild(r, s, n), c)
    BY <2>3, <2>4, <2>5, MakeFacts DEF Found, GetPos
  <2>7. GetChild(r, s, n).hr # "E_NO_ITEM"
    BY <2>3, <2>4, <2>5, MakeFacts
  <2>8. ASSUME NEW k \in Container, GetContainer(r, s, n, k).hr = "S_OK", Len(r) < MaxDepth
        PROVE  /\ Found(GetContainer(r, s, n, k), c)
               /\ GetKind(GetContainer(r, s, n, k).route) = k
    <3>1. heap[c].kind = k
      BY <2>5, <2>8, MakeFacts
    <3>2. GetContainer(r, s, n, k) = Handed(t)
      BY <2>5, <3>1
    <3> QED
      BY <2>3, <2>8, <3>1, <3>2, MakeFacts DEF Found, GetPos
  <2> QED
    BY <1>2, <1>3, <2>5, <2>6, <2>7, <2>8
<1> QED
  BY <1>5, <1>6

LEMMA ByIndex ==
    ASSUME GoodHeap(heap), Named(heap), NEW r \in Route, ResolveField(r) \in Pos,
           NEW s \in Scope, NEW i \in Nat
    PROVE  IF i >= GetCount(r, s) THEN GetChildAt(r, s, i).hr = "E_RANGE"
           ELSE \/ /\ GetChildAt(r, s, i).hr = "S_OK"
                   /\ Found(GetChildAt(r, s, i), heap[GetPos(r)].kids[s][i + 1])
                \/ GetChildAt(r, s, i).hr = "E_DEPTH" /\ Len(r) = MaxDepth
<1>1. PICK p : p = ResolveField(r)
  OBVIOUS
<1>2. p \in DOMAIN heap /\ p = GetPos(r) /\ p = Resolve(r) /\ p \in Pos
  BY <1>1, ResolveFieldFacts DEF GetPos
<1>3. PICK kids \in Seq(Pos) : kids = heap[p].kids[s]
  BY <1>2 DEF GoodHeap, RowsOK, Row
<1>4. Len(kids) \in Nat /\ GetCount(r, s) = Len(kids)
  BY <1>2, <1>3, LenProperties DEF GetCount
<1>5. GetChildAt(r, s, i) = IF i >= Len(kids) THEN Answer("E_RANGE")
                            ELSE Make(RouteWith(r, s, heap[kids[i + 1]].name))
  BY <1>1, <1>2, <1>3 DEF GetChildAt
<1>6. CASE i >= Len(kids)
  BY <1>4, <1>5, <1>6, MakeFacts
<1>7. CASE ~(i >= Len(kids))
  <2>1. PICK c : c = kids[i + 1]
    OBVIOUS
  <2>2. i + 1 \in 1..Len(kids)
    BY <1>4, <1>7
  <2>3. c \in Kids(heap, ResolveField(r), s)
    BY <1>1, <1>3, <2>1, <2>2, RangeFacts DEF Kids
  <2>4. PICK t : t = RouteWith(r, s, heap[c].name)
    OBVIOUS
  <2>5. /\ Len(r) < MaxDepth => /\ Make(t) = Handed(t) /\ Resolve(t) = c
                                /\ Last(t).name = GetName(t)
        /\ Len(r) = MaxDepth => Make(t) = Answer("E_DEPTH")
    BY <2>3, <2>4, HandleOfChild
  <2>6. Len(r) < MaxDepth \/ Len(r) = MaxDepth
    BY RouteIsSeq, TreeAssumption
  <2>7. GetChildAt(r, s, i) = Make(t)
    BY <1>5, <1>7, <2>1, <2>4
  <2>8. \/ GetChildAt(r, s, i).hr = "S_OK" /\ Found(GetChildAt(r, s, i), c)
        \/ GetChildAt(r, s, i).hr = "E_DEPTH" /\ Len(r) = MaxDepth
    BY <2>5, <2>6, <2>7, MakeFacts DEF Found, GetPos
  <2> QED
    BY <1>2, <1>3, <1>4, <1>7, <2>1, <2>8
<1> QED
  BY <1>6, <1>7

LEMMA LookupsAgree ==
    GoodHeap(heap) /\ Named(heap) => LookupFindsItsNode
<1> SUFFICES ASSUME GoodHeap(heap), Named(heap) PROVE LookupFindsItsNode
  OBVIOUS
<1>1. ASSUME NEW r \in Route, ResolveField(r) \in Pos, NEW s \in Scope,
             NEW i \in 0..Cardinality(Pos)
      PROVE  IF i >= GetCount(r, s) THEN GetChildAt(r, s, i).hr = "E_RANGE"
             ELSE \/ /\ GetChildAt(r, s, i).hr = "S_OK"
                     /\ Found(GetChildAt(r, s, i), heap[GetPos(r)].kids[s][i + 1])
                  \/ GetChildAt(r, s, i).hr = "E_DEPTH" /\ Len(r) = MaxDepth
  <2>1. i \in Nat
    OBVIOUS
  <2> QED
    BY <1>1, <2>1, ByIndex
<1> QED
  BY <1>1, ByName, PathsLeadBack, PositionsLeadBack DEF LookupFindsItsNode, Found

-----------------------------------------------------------------------------
NamesInv == TreeInv /\ Named(heap)

LEMMA NamesInvHolds == Spec => []NamesInv
<1>1. Init => Named(heap)
  BY DEF Init, EmptyRoot, Cell, Named, NamedCell, NamesOf
<1>2. NamesInv /\ [Next]_vars => NamesInv'
  <2> SUFFICES ASSUME NamesInv, [Next]_vars PROVE NamesInv'
    OBVIOUS
  <2>1. Named(heap')
    BY NextMakes, CallKeepsNamed DEF NamesInv, TreeInv
  <2> QED
    BY <2>1, NextKeeps DEF NamesInv
<1> QED
  BY <1>1, <1>2, StartsGood, PTL DEF Spec, NamesInv

(* Whatever a client looks up, by path, by position, by name or by index,   *)
(* the handle it gets leads to the node it looked up (NodeFromPath, NodeFromPos, *)
(* GetChild, GetChildAt, GetList, GetVect and Exists).                       *)
THEOREM LookupsFindTheirNode == Spec => []LookupFindsItsNode
<1>1. NamesInv => LookupFindsItsNode
  BY LookupsAgree DEF NamesInv, TreeInv
<1> QED
  BY <1>1, NamesInvHolds, PTL

-----------------------------------------------------------------------------
(* Paths of any length, without case, as PathMap has them.                  *)
PStep == {[scope |-> s, key |-> n.key] : s \in Scope, n \in Name \cup {NoName}}

Trail == Seq(PStep)

\* The trail q, from p on, hung at d.
Rebase(p, d, q) == d \o SubSeq(q, Len(p) + 1, Len(q))

LEMMA PrefixFacts ==
    ASSUME NEW p \in Trail, NEW q \in Trail
    PROVE  IsPrefix(p, q) <=> /\ Len(p) <= Len(q)
                              /\ \A i \in 1..Len(p) : p[i] = q[i]
<1>1. PICK m \in Nat, n \in Nat : m = Len(p) /\ n = Len(q)
  BY LenProperties DEF Trail
<1>2. CASE m <= n
  <2>1. PICK a, b : a = SubSeq(p, 1, m) /\ b = SubSeq(q, 1, m)
    OBVIOUS
  <2>2. /\ \A i \in 1..m : p[i] \in PStep
        /\ \A i \in 1..m : q[i] \in PStep
    BY <1>1, <1>2, ElementOfSeq DEF Trail
  <2>3. /\ a \in Seq(PStep) /\ Len(a) = IF 1 <= m THEN m - 1 + 1 ELSE 0
        /\ \A i \in 1 .. m - 1 + 1 : a[i] = p[1 + i - 1]
    BY <2>1, <2>2, SubSeqProperties
  <2>4. /\ b \in Seq(PStep) /\ Len(b) = IF 1 <= m THEN m - 1 + 1 ELSE 0
        /\ \A i \in 1 .. m - 1 + 1 : b[i] = q[1 + i - 1]
    BY <2>1, <2>2, SubSeqProperties
  <2>5. Len(a) = m /\ Len(b) = m /\ \A i \in 1..m : a[i] = p[i] /\ b[i] = q[i]
    BY <2>3, <2>4
  <2>6. a = b <=> \A i \in 1..m : p[i] = q[i]
    <3>1. ASSUME \A i \in 1..m : p[i] = q[i] PROVE a = b
      BY <2>3, <2>4, <2>5, <3>1, SeqEqual
    <3>2. ASSUME a = b PROVE \A i \in 1..m : p[i] = q[i]
      BY <2>5, <3>2
    <3> QED
      BY <3>1, <3>2
  <2> QED
    BY <1>1, <1>2, <2>1, <2>6 DEF IsPrefix
<1>3. CASE ~(m <= n)
  BY <1>1, <1>3 DEF IsPrefix
<1> QED
  BY <1>2, <1>3

LEMMA AppendToTrail ==
    ASSUME NEW q \in Trail, NEW e \in PStep
    PROVE  /\ Append(q, e) \in Trail
           /\ Len(q) \in Nat /\ Len(Append(q, e)) = Len(q) + 1
           /\ \A i \in 1..Len(q) : Append(q, e)[i] = q[i]
           /\ Append(q, e)[Len(q) + 1] = e
  BY AppendProperties, LenProperties DEF Trail

LEMMA PrefixItself ==
    ASSUME NEW p \in Trail
    PROVE  IsPrefix(p, p)
<1>1. Len(p) \in Nat
  BY LenProperties DEF Trail
<1> QED
  BY <1>1, PrefixFacts

LEMMA SameAppend ==
    ASSUME NEW p \in Trail, NEW q \in Trail, NEW d \in PStep, NEW e \in PStep,
           Append(p, d) = Append(q, e)
    PROVE  p = q /\ d = e
<1>1. PICK a : a = Append(p, d) /\ a = Append(q, e)
  OBVIOUS
<1>2. /\ Len(p) \in Nat /\ Len(a) = Len(p) + 1
      /\ \A i \in 1..Len(p) : a[i] = p[i]
      /\ a[Len(p) + 1] = d
  <2>1. a = Append(p, d)
    BY <1>1
  <2> QED
    BY <2>1, AppendToTrail
<1>3. /\ Len(q) \in Nat /\ Len(a) = Len(q) + 1
      /\ \A i \in 1..Len(q) : a[i] = q[i]
      /\ a[Len(q) + 1] = e
  <2>1. a = Append(q, e)
    BY <1>1
  <2> QED
    BY <2>1, AppendToTrail
<1>4. Len(p) = Len(q)
  BY <1>2, <1>3
<1>5. d = e /\ \A i \in 1..Len(p) : p[i] = q[i]
  BY <1>2, <1>3, <1>4
<1>6. p = q
  BY <1>4, <1>5, SeqEqual DEF Trail
<1> QED
  BY <1>5, <1>6

LEMMA PrefixOfAppend ==
    ASSUME NEW p \in Trail, NEW q \in Trail, NEW e \in PStep
    PROVE  /\ IsPrefix(p, p)
           /\ IsPrefix(p, Append(q, e)) <=> IsPrefix(p, q) \/ p = Append(q, e)
<1>1. PICK m \in Nat, n \in Nat : m = Len(p) /\ n = Len(q)
  BY LenProperties DEF Trail
<1>2. PICK a \in Trail : /\ a = Append(q, e) /\ Len(a) = n + 1
                         /\ \A i \in 1..n : a[i] = q[i]
  BY <1>1, AppendToTrail
<1>3. IsPrefix(p, a) <=> m <= n + 1 /\ \A i \in 1..m : p[i] = a[i]
  BY <1>1, <1>2, PrefixFacts
<1>4. IsPrefix(p, q) <=> m <= n /\ \A i \in 1..m : p[i] = q[i]
  BY <1>1, PrefixFacts
<1>5. p = a <=> m = n + 1 /\ \A i \in 1..m : p[i] = a[i]
  BY <1>1, <1>2, SeqEqual DEF Trail
<1>6. IsPrefix(p, a) <=> IsPrefix(p, q) \/ p = a
  <2>1. CASE m = n + 1
    BY <2>1, <1>3, <1>4, <1>5
  <2>2. CASE m <= n
    <3>1. \A i \in 1..m : i \in 1..n
      BY <2>2
    <3> QED
      BY <2>2, <3>1, <1>2, <1>3, <1>4, <1>5
  <2>3. CASE m > n + 1
    BY <2>3, <1>3, <1>4, <1>5
  <2> QED
    BY <2>1, <2>2, <2>3
<1>7. IsPrefix(p, p)
  BY <1>1, PrefixFacts
<1> QED
  BY <1>2, <1>6, <1>7

\* What Rebase makes, mark by mark.
IsRebased(p, d, q, r) ==
    /\ r \in Trail
    /\ Len(r) = Len(d) + (Len(q) - Len(p))
    /\ \A i \in 1..Len(d) : r[i] = d[i]
    /\ \A i \in 1 .. Len(q) - Len(p) : r[Len(d) + i] = q[Len(p) + i]

LEMMA RebaseAt ==
    ASSUME NEW p \in Trail, NEW d \in Trail, NEW q \in Trail, IsPrefix(p, q)
    PROVE  IsRebased(p, d, q, Rebase(p, d, q))
<1>1. PICK l \in Nat, m \in Nat, n \in Nat : l = Len(d) /\ m = Len(p) /\ n = Len(q)
  BY LenProperties DEF Trail
<1>2. m <= n
  BY <1>1, PrefixFacts
<1>3. PICK s : s = SubSeq(q, m + 1, n)
  OBVIOUS
<1>4. \A i \in m + 1 .. n : q[i] \in PStep
  BY <1>1, ElementOfSeq DEF Trail
<1>5. /\ s \in Seq(PStep) /\ Len(s) = IF m + 1 <= n THEN n - (m + 1) + 1 ELSE 0
      /\ \A i \in 1 .. n - (m + 1) + 1 : s[i] = q[m + 1 + i - 1]
  BY <1>3, <1>4, SubSeqProperties
<1>6. Len(s) = n - m /\ \A i \in 1 .. n - m : s[i] = q[m + i]
  <2>1. Len(s) = n - m
    BY <1>2, <1>5
  <2>2. ASSUME NEW i \in 1 .. n - m PROVE s[i] = q[m + i]
    <3>1. i \in 1 .. n - (m + 1) + 1 /\ m + 1 + i - 1 = m + i
      OBVIOUS
    <3> QED
      BY <3>1, <1>5
  <2> QED
    BY <2>1, <2>2
<1>7. PICK r : r = d \o s
  OBVIOUS
<1>8. /\ r \in Seq(PStep) /\ Len(r) = l + (n - m)
      /\ \A i \in 1 .. l + (n - m) : r[i] = IF i <= l THEN d[i] ELSE s[i - l]
  <2>1. d \in Seq(PStep) /\ s \in Seq(PStep) /\ Len(d) = l /\ Len(s) = n - m
    BY <1>1, <1>5, <1>6 DEF Trail
  <2>2. /\ r \in Seq(PStep) /\ Len(r) = Len(d) + Len(s)
        /\ \A i \in 1 .. Len(d) + Len(s) : r[i] = IF i <= Len(d) THEN d[i] ELSE s[i - Len(d)]
    BY <2>1, <1>7, ConcatProperties
  <2> QED
    BY <2>1, <2>2
<1>9. \A i \in 1..l : r[i] = d[i]
  BY <1>2, <1>8
<1>10. ASSUME NEW i \in 1 .. n - m PROVE r[l + i] = q[m + i]
  <2>1. l + i \in 1 .. l + (n - m) /\ ~(l + i <= l) /\ (l + i) - l = i
    BY <1>2
  <2> QED
    BY <2>1, <1>6, <1>8
<1> QED
  BY <1>1, <1>3, <1>7, <1>8, <1>9, <1>10 DEF Rebase, IsRebased, Trail

LEMMA RebaseFacts ==
    ASSUME NEW p \in Trail, NEW d \in Trail, NEW q \in Trail, IsPrefix(p, q)
    PROVE  /\ Rebase(p, d, q) \in Trail
           /\ IsPrefix(d, Rebase(p, d, q))
           /\ Rebase(d, p, Rebase(p, d, q)) = q
           /\ Rebase(p, d, p) = d
           /\ \A e \in PStep : Rebase(p, d, Append(q, e)) = Append(Rebase(p, d, q), e)
<1>1. PICK l \in Nat, m \in Nat, n \in Nat : l = Len(d) /\ m = Len(p) /\ n = Len(q)
  BY LenProperties DEF Trail
<1>2. m <= n /\ \A i \in 1..m : p[i] = q[i]
  BY <1>1, PrefixFacts
<1>3. PICK r : r = Rebase(p, d, q)
  OBVIOUS
<1>4. /\ r \in Trail /\ Len(r) = l + (n - m)
      /\ \A i \in 1..l : r[i] = d[i]
      /\ \A i \in 1 .. n - m : r[l + i] = q[m + i]
  <2>1. IsRebased(p, d, q, r)
    BY <1>3, RebaseAt
  <2> QED
    BY <1>1, <2>1 DEF IsRebased
<1>5. IsPrefix(d, r)
  BY <1>1, <1>2, <1>4, PrefixFacts
<1>6. Rebase(d, p, r) = q
  <2>1. PICK b : b = Rebase(d, p, r)
    OBVIOUS
  <2>2. /\ b \in Trail /\ Len(b) = m + (Len(r) - l)
        /\ \A i \in 1..m : b[i] = p[i]
        /\ \A i \in 1 .. Len(r) - l : b[m + i] = r[l + i]
    <3>1. IsRebased(d, p, r, b)
      BY <1>4, <1>5, <2>1, RebaseAt
    <3> QED
      BY <1>1, <3>1 DEF IsRebased
  <2>3. Len(r) - l = n - m /\ Len(b) = n
    BY <1>4, <2>2
  <2>4. ASSUME NEW i \in 1..n PROVE b[i] = q[i]
    <3>1. CASE i <= m
      BY <3>1, <2>2, <1>2
    <3>2. CASE i > m
      <4>1. i - m \in 1 .. n - m /\ m + (i - m) = i
        BY <3>2
      <4>2. b[m + (i - m)] = r[l + (i - m)]
        BY <4>1, <2>2, <2>3
      <4> QED
        BY <4>1, <4>2, <1>4
    <3> QED
      BY <3>1, <3>2
  <2> QED
    BY <1>1, <2>1, <2>2, <2>3, <2>4, SeqEqual DEF Trail
<1>7. Rebase(p, d, p) = d
  <2>1. IsPrefix(p, p)
    BY <1>1, PrefixFacts
  <2>2. PICK b : b = Rebase(p, d, p)
    OBVIOUS
  <2>3. b \in Trail /\ Len(b) = l + (m - m) /\ \A i \in 1..l : b[i] = d[i]
    <3>1. IsRebased(p, d, p, b)
      BY <2>1, <2>2, RebaseAt
    <3> QED
      BY <1>1, <3>1 DEF IsRebased
  <2>4. Len(b) = l
    BY <2>3
  <2> QED
    BY <1>1, <2>2, <2>3, <2>4, SeqEqual DEF Trail
<1>8. ASSUME NEW e \in PStep
      PROVE  Rebase(p, d, Append(q, e)) = Append(r, e)
  <2>1. PICK a \in Trail : /\ a = Append(q, e) /\ Len(a) = n + 1
                           /\ \A i \in 1..n : a[i] = q[i]
                           /\ a[n + 1] = e
    BY <1>1, AppendToTrail
  <2>2. IsPrefix(p, a)
    BY <2>1, PrefixOfAppend
  <2>3. PICK b : b = Rebase(p, d, a)
    OBVIOUS
  <2>4. /\ b \in Trail /\ Len(b) = l + (n + 1 - m)
        /\ \A i \in 1..l : b[i] = d[i]
        /\ \A i \in 1 .. n + 1 - m : b[l + i] = a[m + i]
    <3>1. IsRebased(p, d, a, b)
      BY <2>1, <2>2, <2>3, RebaseAt
    <3>2. /\ b \in Trail /\ Len(b) = Len(d) + (Len(a) - Len(p))
          /\ \A i \in 1..Len(d) : b[i] = d[i]
          /\ \A i \in 1 .. Len(a) - Len(p) : b[Len(d) + i] = a[Len(p) + i]
      BY <3>1 DEF IsRebased
    <3>3. Len(a) - Len(p) = n + 1 - m /\ Len(d) = l /\ Len(p) = m
      BY <1>1, <2>1
    <3> QED
      BY <3>2, <3>3
  <2>0. PICK c : c = Append(r, e)
    OBVIOUS
  <2>5. /\ c \in Trail /\ Len(c) = l + (n - m) + 1
        /\ \A i \in 1 .. l + (n - m) : c[i] = r[i]
        /\ c[l + (n - m) + 1] = e
    <3>1. PICK k \in Nat : k = l + (n - m)
      BY <1>2
    <3>2. r \in Seq(PStep) /\ Len(r) = k
      BY <1>4, <3>1 DEF Trail
    <3>3. c \in Seq(PStep) /\ Len(c) = k + 1 /\ (\A i \in 1..k : c[i] = r[i]) /\ c[k + 1] = e
      BY <2>0, <3>2, AppendProperties
    <3> QED
      BY <3>1, <3>3 DEF Trail
  <2>6. Len(b) = Len(c)
    BY <2>4, <2>5
  <2>7. ASSUME NEW i \in 1 .. l + (n - m) + 1 PROVE b[i] = c[i]
    <3>1. CASE i <= l
      BY <3>1, <1>2, <1>4, <2>4, <2>5
    <3>2. CASE i > l /\ i <= l + (n - m)
      <4>1. PICK j \in 1 .. n - m : i = l + j
        <5>1. i - l \in 1 .. n - m /\ i = l + (i - l)
          BY <3>2
        <5> QED
          BY <5>1
      <4>2. m + j \in 1..n /\ j \in 1 .. n + 1 - m
        BY <1>2
      <4>3. b[l + j] = q[m + j]
        BY <4>2, <2>1, <2>4
      <4>4. c[i] = r[i]
        BY <3>2, <2>5
      <4> QED
        BY <4>1, <4>3, <4>4, <1>4
    <3>3. CASE i = l + (n - m) + 1
      <4>1. n + 1 - m \in 1 .. n + 1 - m /\ l + (n + 1 - m) = i /\ m + (n + 1 - m) = n + 1
        BY <3>3, <1>2
      <4>2. b[l + (n + 1 - m)] = a[m + (n + 1 - m)]
        BY <4>1, <2>4
      <4> QED
        BY <3>3, <4>1, <4>2, <2>1, <2>5
    <3> QED
      BY <3>1, <3>2, <3>3
  <2>8. b \in Seq(PStep) /\ c \in Seq(PStep) /\ Len(b) = l + (n - m) + 1
    BY <2>4, <2>5, <2>6 DEF Trail
  <2>9. b = c
    BY <2>6, <2>7, <2>8, SeqEqual
  <2> QED
    BY <2>0, <2>1, <2>3, <2>9
<1> QED
  BY <1>3, <1>4, <1>5, <1>6, <1>7, <1>8

-----------------------------------------------------------------------------
(* f gives every node its path: the root's is empty, a child's is its       *)
(* parent's and one step more.                                              *)
StepTo(h, s, c) == [scope |-> s, key |-> h[c].name.key]

ArePaths(h, f) ==
    /\ f \in [DOMAIN h -> Trail]
    /\ f[Root] = <<>>
    /\ \A p \in DOMAIN h, s \in Scope : \A c \in Kids(h, p, s) :
         f[c] = Append(f[p], StepTo(h, s, c))
    /\ \A c \in DOMAIN h \ {Root} : \E p \in DOMAIN h, s \in Scope : c \in Kids(h, p, s)

LEMMA StepToFacts ==
    ASSUME NEW h, GoodHeap(h), NEW s \in Scope, NEW c \in DOMAIN h
    PROVE  StepTo(h, s, c) \in PStep /\ StepTo(h, s, c).scope = s
           /\ StepTo(h, s, c).key = h[c].name.key
<1>1. h[c].name \in Name \cup {NoName}
  BY DEF GoodHeap, Typed, CellType
<1> QED
  BY <1>1 DEF StepTo, PStep

\* Where a node hangs.
Above(h, f, c, p, s) ==
    /\ p \in DOMAIN h /\ s \in Scope /\ c \in Kids(h, p, s)
    /\ StepTo(h, s, c) \in PStep
    /\ f[p] \in Trail
    /\ f[c] = Append(f[p], StepTo(h, s, c))
    /\ Len(f[p]) \in Nat /\ Len(f[c]) = Len(f[p]) + 1

LEMMA HangsAbove ==
    ASSUME NEW h, GoodHeap(h), NEW f, ArePaths(h, f), NEW c \in DOMAIN h, c # Root
    PROVE  \E p, s : Above(h, f, c, p, s)
<1>1. PICK p \in DOMAIN h, s \in Scope : c \in Kids(h, p, s)
  BY DEF ArePaths
<1>2. StepTo(h, s, c) \in PStep
  BY StepToFacts
<1>3. f[p] \in Trail /\ f[c] = Append(f[p], StepTo(h, s, c))
  BY <1>1 DEF ArePaths
<1>4. Len(f[p]) \in Nat /\ Len(f[c]) = Len(f[p]) + 1
  BY <1>2, <1>3, AppendToTrail
<1> QED
  BY <1>1, <1>2, <1>3, <1>4 DEF Above

LEMMA RootIsAbove ==
    ASSUME NEW h, GoodHeap(h), NEW f, ArePaths(h, f)
    PROVE  Root \in DOMAIN h /\ f[Root] = <<>> /\ Len(f[Root]) = 0 /\ f[Root] \in Trail
<1>1. Root \in DOMAIN h /\ f[Root] = <<>>
  BY DEF GoodHeap, Typed, ArePaths
<1> QED
  BY <1>1, EmptySeq DEF ArePaths

LEMMA PathsDiffer ==
    ASSUME NEW h, GoodHeap(h), NEW f, ArePaths(h, f)
    PROVE  \A p, q \in DOMAIN h : f[p] = f[q] => p = q
<1> DEFINE Bad == {n \in Nat : \E p, q \in DOMAIN h : p # q /\ f[p] = f[q] /\ Len(f[p]) = n}
<1>1. SUFFICES ASSUME Bad # {} PROVE FALSE
  <2>1. \A p \in DOMAIN h : Len(f[p]) \in Nat
    BY LenProperties DEF ArePaths, Trail
  <2> QED
    BY <2>1
<1>2. PICK n \in Bad : \A k \in Bad : n <= k
  <2>1. Bad \subseteq Nat
    OBVIOUS
  <2> QED
    BY <1>1, <2>1, LeastExists
<1>3. PICK p \in DOMAIN h, q \in DOMAIN h : p # q /\ f[p] = f[q] /\ Len(f[p]) = n
  OBVIOUS
<1>4. n \in Nat
  OBVIOUS
<1>5. p # Root /\ q # Root
  <2>1. \A c \in DOMAIN h : c # Root => Len(f[c]) # 0
    <3> SUFFICES ASSUME NEW c \in DOMAIN h, c # Root PROVE Len(f[c]) # 0
      OBVIOUS
    <3>1. PICK a, s : Above(h, f, c, a, s)
      BY HangsAbove
    <3> QED
      BY <3>1 DEF Above
  <2>2. Len(f[Root]) = 0
    BY RootIsAbove
  <2> QED
    BY <1>3, <2>1, <2>2
<1>6. PICK a, s : Above(h, f, p, a, s)
  BY <1>5, HangsAbove
<1>7. PICK b, t : Above(h, f, q, b, t)
  BY <1>5, HangsAbove
<1>8. f[a] = f[b] /\ StepTo(h, s, p) = StepTo(h, t, q)
  <2>1. /\ f[a] \in Trail /\ f[b] \in Trail
        /\ StepTo(h, s, p) \in PStep /\ StepTo(h, t, q) \in PStep
        /\ Append(f[a], StepTo(h, s, p)) = Append(f[b], StepTo(h, t, q))
    BY <1>3, <1>6, <1>7 DEF Above
  <2> QED
    BY <2>1, SameAppend
<1>9. a = b
  <2>1. Len(f[a]) \in Nat /\ n = Len(f[a]) + 1 /\ a \in DOMAIN h /\ b \in DOMAIN h
    BY <1>3, <1>6, <1>7 DEF Above
  <2>2. ~(n <= Len(f[a]))
    BY <1>4, <2>1
  <2>3. Len(f[a]) \notin Bad
    BY <1>2, <2>2
  <2> QED
    BY <2>1, <2>3, <1>8
<1>10. s = t /\ h[p].name.key = h[q].name.key
  <2>1. s \in Scope /\ t \in Scope
    BY <1>6, <1>7 DEF Above
  <2> QED
    BY <2>1, <1>8, StepToFacts
<1> QED
  BY <1>3, <1>6, <1>7, <1>9, <1>10 DEF Above, GoodHeap, UniqueIn

\* Whatever hangs under a node of S is what lies below the path of one.
LEMMA SubtreeIsBelow ==
    ASSUME GoodHeap(heap), NEW f, ArePaths(heap, f), NEW S, S \subseteq DOMAIN heap \ {Root}
    PROVE  \A q \in DOMAIN heap : q \in Subtree(S) <=> \E c \in S : IsPrefix(f[c], f[q])
<1> DEFINE T == {q \in DOMAIN heap : \E c \in S : IsPrefix(f[c], f[q])}
           Bad == {n \in Nat : \E q \in T : q \notin Subtree(S) /\ Len(f[q]) = n}
<1>1. \A q \in DOMAIN heap : f[q] \in Trail /\ Len(f[q]) \in Nat
  BY LenProperties DEF ArePaths, Trail
<1>2. \A p \in T, s \in Scope : Kids(heap, p, s) \subseteq T
  <2> SUFFICES ASSUME NEW p \in T, NEW s \in Scope, NEW k \in Kids(heap, p, s)
               PROVE  k \in T
    OBVIOUS
  <2>1. PICK c \in S : IsPrefix(f[c], f[p])
    OBVIOUS
  <2>2. k \in DOMAIN heap /\ StepTo(heap, s, k) \in PStep
    BY StepToFacts DEF GoodHeap, RowsOK
  <2>3. f[k] = Append(f[p], StepTo(heap, s, k))
    BY DEF ArePaths
  <2>4. IsPrefix(f[c], f[k])
    BY <1>1, <2>1, <2>2, <2>3, PrefixOfAppend
  <2> QED
    BY <2>2, <2>4
<1>3. S \subseteq T
  <2> SUFFICES ASSUME NEW c \in S PROVE c \in T
    OBVIOUS
  <2>2. IsPrefix(f[c], f[c])
    BY <1>1, PrefixItself
  <2> QED
    BY <2>2
<1>4. Subtree(S) \subseteq T
  <2>1. Closed(T)
    BY <1>2 DEF Closed, Kids
  <2> QED
    BY <1>3, <2>1 DEF Subtree
<1>5. Bad = {}
  <2> SUFFICES ASSUME Bad # {} PROVE FALSE
    OBVIOUS
  <2>1. PICK n \in Bad : \A k \in Bad : n <= k
    <3>1. Bad \subseteq Nat
      OBVIOUS
    <3> QED
      BY <3>1, LeastExists
  <2>2. PICK q \in T : q \notin Subtree(S) /\ Len(f[q]) = n
    OBVIOUS
  <2>3. PICK c \in S : IsPrefix(f[c], f[q])
    OBVIOUS
  <2>4. q # c /\ c # Root
    BY <2>2, SubtreeFacts
  <2>5. q # Root
    <3>1. PICK a, s : Above(heap, f, c, a, s)
      BY <2>4, HangsAbove
    <3>2. Len(f[c]) # 0 /\ Len(f[c]) \in Nat
      BY <3>1 DEF Above
    <3>3. Len(f[c]) <= Len(f[q])
      BY <2>3 DEF IsPrefix
    <3> QED
      BY <3>2, <3>3, RootIsAbove
  <2>6. PICK a, s : Above(heap, f, q, a, s)
    BY <2>5, HangsAbove
  <2>7. f[c] # f[q]
    BY <2>4, PathsDiffer
  <2>8. IsPrefix(f[c], f[a])
    BY <1>1, <2>3, <2>6, <2>7, PrefixOfAppend DEF Above
  <2>9. a \in T /\ Len(f[a]) \in Nat /\ n = Len(f[a]) + 1
    BY <2>2, <2>6, <2>8 DEF Above
  <2>10. a \in Subtree(S)
    <3>1. ~(n <= Len(f[a]))
      BY <2>9
    <3> QED
      BY <2>1, <2>9, <3>1
  <2>11. Kids(heap, a, s) \subseteq Subtree(S)
    <3>1. s \in Scope
      BY <2>6 DEF Above
    <3>2. \A U \in SUBSET DOMAIN heap : S \subseteq U /\ Closed(U) => Kids(heap, a, s) \subseteq U
      BY <2>10, <3>1 DEF Subtree, Closed, Kids
    <3>3. Kids(heap, a, s) \subseteq DOMAIN heap
      BY <2>6, <3>1 DEF GoodHeap, RowsOK, Above
    <3> QED
      BY <3>2, <3>3 DEF Subtree
  <2> QED
    BY <2>2, <2>6, <2>11 DEF Above
<1>6. \A q \in T : q \in Subtree(S)
  BY <1>1, <1>5
<1> QED
  BY <1>4, <1>6

-----------------------------------------------------------------------------
(* PathView is the map the paths give.                                      *)
LEMMA LinkOf ==
    ASSUME GoodHeap(heap), NEW f, NEW c, NEW p, NEW s, Above(heap, f, c, p, s)
    PROVE  (CHOOSE l \in Links : l.kid = c) = [of |-> p, scope |-> s, kid |-> c]
<1>1. \A l : l \in Links <=> \E q \in DOMAIN heap : \E t \in Scope : \E k \in Kids(heap, q, t) :
                              l = [of |-> q, scope |-> t, kid |-> k]
  BY DEF Links, Kids
<1>2. [of |-> p, scope |-> s, kid |-> c] \in Links
  BY <1>1 DEF Above
<1>3. ASSUME NEW l \in Links, l.kid = c PROVE l = [of |-> p, scope |-> s, kid |-> c]
  <2>1. PICK q \in DOMAIN heap : \E t \in Scope : \E k \in Kids(heap, q, t) :
          l = [of |-> q, scope |-> t, kid |-> k]
    BY <1>1
  <2>2. PICK t \in Scope : \E k \in Kids(heap, q, t) : l = [of |-> q, scope |-> t, kid |-> k]
    BY <2>1
  <2>3. PICK k \in Kids(heap, q, t) : l = [of |-> q, scope |-> t, kid |-> k]
    BY <2>2
  <2>4. k = c
    BY <1>3, <2>3
  <2>5. q = p /\ t = s
    BY <2>3, <2>4 DEF Above, GoodHeap, OneParent
  <2> QED
    BY <2>3, <2>4, <2>5
<1> QED
  BY <1>2, <1>3

\* What Placed's recursive function is to be.
IsPathFn(links, w) ==
    w = [p \in DOMAIN heap |->
          IF p = Root THEN <<>>
          ELSE LET link == CHOOSE l \in links : l.kid = p
               IN  Append(w[link.of], [scope |-> link.scope, key |-> heap[p].name.key])]

PathFn(links) == CHOOSE w : IsPathFn(links, w)

LEMMA PathFnExists ==
    ASSUME GoodHeap(heap), NEW f, ArePaths(heap, f)
    PROVE  IsPathFn(Links, f)
<1>1. ASSUME NEW c \in DOMAIN heap, c # Root
      PROVE  f[c] = LET link == CHOOSE l \in Links : l.kid = c
                    IN  Append(f[link.of], [scope |-> link.scope, key |-> heap[c].name.key])
  <2>1. PICK p, s : Above(heap, f, c, p, s)
    BY <1>1, HangsAbove
  <2>2. PICK link : /\ link = (CHOOSE l \in Links : l.kid = c)
                    /\ link = [of |-> p, scope |-> s, kid |-> c]
    BY <2>1, LinkOf
  <2>3. f[c] = Append(f[link.of], [scope |-> link.scope, key |-> heap[c].name.key])
    <3>0. link = [of |-> p, scope |-> s, kid |-> c]
      BY <2>2
    <3>1. link.of = p /\ link.scope = s
      BY <3>0
    <3>2. f[c] = Append(f[p], [scope |-> s, key |-> heap[c].name.key])
      BY <2>1 DEF Above, StepTo
    <3> QED
      BY <3>1, <3>2
  <2> QED
    BY <2>2, <2>3
<1>2. f[Root] = <<>> /\ f = [p \in DOMAIN heap |-> f[p]]
  BY DEF ArePaths
<1>3. \A c \in DOMAIN heap :
        f[c] = IF c = Root THEN <<>>
               ELSE LET link == CHOOSE l \in Links : l.kid = c
                    IN  Append(f[link.of], [scope |-> link.scope, key |-> heap[c].name.key])
  BY <1>1, <1>2
<1> QED
  BY <1>2, <1>3 DEF IsPathFn

LEMMA PathFnIsPaths ==
    ASSUME GoodHeap(heap), NEW f, ArePaths(heap, f), NEW w, IsPathFn(Links, w)
    PROVE  \A p \in DOMAIN heap : w[p] = f[p]
<1> DEFINE Bad == {n \in Nat : \E p \in DOMAIN heap : w[p] # f[p] /\ Len(f[p]) = n}
<1>1. SUFFICES ASSUME Bad # {} PROVE FALSE
  <2>1. \A p \in DOMAIN heap : Len(f[p]) \in Nat
    BY LenProperties DEF ArePaths, Trail
  <2> QED
    BY <2>1
<1>2. PICK n \in Bad : \A k \in Bad : n <= k
  <2>1. Bad \subseteq Nat
    OBVIOUS
  <2> QED
    BY <1>1, <2>1, LeastExists
<1>3. PICK c \in DOMAIN heap : w[c] # f[c] /\ Len(f[c]) = n
  OBVIOUS
<1>4. \A p \in DOMAIN heap :
        w[p] = IF p = Root THEN <<>>
               ELSE LET link == CHOOSE l \in Links : l.kid = p
                    IN  Append(w[link.of], [scope |-> link.scope, key |-> heap[p].name.key])
  BY DEF IsPathFn
<1>5. c # Root
  BY <1>3, <1>4 DEF ArePaths
<1>6. PICK p, s : Above(heap, f, c, p, s)
  BY <1>5, HangsAbove
<1>7. PICK link : /\ link = (CHOOSE l \in Links : l.kid = c)
                  /\ link = [of |-> p, scope |-> s, kid |-> c]
  BY <1>6, LinkOf
<1>8. w[c] = Append(w[p], StepTo(heap, s, c))
  <2>1. w[c] = Append(w[link.of], [scope |-> link.scope, key |-> heap[c].name.key])
    BY <1>4, <1>5, <1>7
  <2> QED
    BY <1>7, <2>1 DEF StepTo
<1>9. w[p] = f[p]
  <2>1. p \in DOMAIN heap /\ Len(f[p]) \in Nat /\ n = Len(f[p]) + 1
    BY <1>3, <1>6 DEF Above
  <2>2. ~(n <= Len(f[p]))
    BY <2>1
  <2>3. Len(f[p]) \notin Bad
    BY <1>2, <2>2
  <2> QED
    BY <2>1, <2>3
<1> QED
  BY <1>3, <1>6, <1>8, <1>9 DEF Above

LEMMA PlacedFacts ==
    ASSUME GoodHeap(heap), NEW f, ArePaths(heap, f)
    PROVE  Placed(Links) = {<<f[p], p>> : p \in DOMAIN heap}
<1>1. PICK links : links = Links
  OBVIOUS
<1>2. \E w : IsPathFn(links, w)
  BY <1>1, PathFnExists
<1>3. PICK w : w = PathFn(links) /\ IsPathFn(links, w)
  BY <1>2, Zenon DEF PathFn
<1>5. Placed(links) = {<<w[p], p>> : p \in DOMAIN heap}
  <2>1. Placed(links) = {<<PathFn(links)[p], p>> : p \in DOMAIN heap}
    BY Zenon DEF Placed, PathFn, IsPathFn
  <2> QED
    BY <1>3, <2>1
<1>4. \A p \in DOMAIN heap : w[p] = f[p]
  BY <1>1, <1>3, PathFnIsPaths
<1> QED
  BY <1>1, <1>4, <1>5

\* M maps the paths of h's nodes to what they hold.
ViewOf(h, f, M) ==
    /\ M = [q \in {f[p] : p \in DOMAIN h} |-> M[q]]
    /\ \A p \in DOMAIN h : M[f[p]] = NodeOf(h[p])

LEMMA ViewFacts ==
    ASSUME GoodHeap(heap), NEW f, ArePaths(heap, f)
    PROVE  ViewOf(heap, f, PathView)
<1>1. PICK placed : placed = Placed(Links) /\ placed = {<<f[p], p>> : p \in DOMAIN heap}
  BY PlacedFacts
<1>2. PathView = NodesAt(placed)
  <2>1. \A x \in {NodesAt(y) : y \in {Placed(links) : links \in {Links}}} : x = NodesAt(placed)
    BY <1>1
  <2>2. NodesAt(placed) \in {NodesAt(y) : y \in {Placed(links) : links \in {Links}}}
    BY <1>1
  <2> QED
    BY <2>1, <2>2 DEF PathView
<1>3. ASSUME NEW p \in DOMAIN heap
      PROVE  (CHOOSE e \in placed : e[1] = f[p])[2] = p
  <2>1. <<f[p], p>> \in placed
    BY <1>1
  <2>2. \A e \in placed : e[1] = f[p] => e = <<f[p], p>>
    <3> SUFFICES ASSUME NEW q \in DOMAIN heap, f[q] = f[p]
                 PROVE  <<f[q], q>> = <<f[p], p>>
      BY <1>1
    <3> QED
      BY PathsDiffer
  <2>3. PICK e : e = (CHOOSE d \in placed : d[1] = f[p]) /\ e = <<f[p], p>>
    BY <2>1, <2>2
  <2>4. e[2] = p
    <3>1. e = <<f[p], p>>
      BY <2>3
    <3> QED
      BY <3>1
  <2> QED
    BY <2>3, <2>4
<1>4. {e[1] : e \in placed} = {f[p] : p \in DOMAIN heap}
  <2>1. \A e \in placed : \E p \in DOMAIN heap : e[1] = f[p]
    BY <1>1
  <2>2. ASSUME NEW p \in DOMAIN heap PROVE \E e \in placed : e[1] = f[p]
    <3>1. PICK e : e = <<f[p], p>>
      OBVIOUS
    <3>2. e \in placed /\ e[1] = f[p]
      BY <1>1, <3>1
    <3> QED
      BY <3>2
  <2> QED
    BY <2>1, <2>2
<1>5. NodesAt(placed) = [q \in {f[p] : p \in DOMAIN heap} |->
                           NodeOf(heap[(CHOOSE e \in placed : e[1] = q)[2]])]
  BY <1>4 DEF NodesAt
<1>6. \A p \in DOMAIN heap : NodesAt(placed)[f[p]] = NodeOf(heap[p])
  BY <1>3, <1>5
<1>7. NodesAt(placed) = [q \in {f[p] : p \in DOMAIN heap} |-> NodesAt(placed)[q]]
  BY <1>5
<1> QED
  BY <1>2, <1>6, <1>7 DEF ViewOf

-----------------------------------------------------------------------------
(* The nodes and rows a call leaves, as the map sees them.                  *)
\* x is the same node in h, wherever it hangs.
Stays(h, x) == NodeOf(h[x]) = NodeOf(heap[x]) /\ h[x].name = heap[x].name

\* g is h with row s of p set to q.
RowPut(h, p, s, q, g) ==
    /\ DOMAIN g = DOMAIN h
    /\ Typed(g)
    /\ \A x \in DOMAIN h : NodeOf(g[x]) = NodeOf(h[x]) /\ g[x].name = h[x].name
    /\ \A x \in DOMAIN h, t \in Scope : g[x].kids[t] = IF x = p /\ t = s THEN q ELSE h[x].kids[t]
    /\ \A x \in DOMAIN h, t \in Scope :
         Kids(g, x, t) = IF x = p /\ t = s THEN Range(q) ELSE Kids(h, x, t)

LEMMA RowPutFacts ==
    ASSUME NEW h, Typed(h), NEW p \in DOMAIN h, NEW s \in Scope, NEW q \in Row
    PROVE  RowPut(h, p, s, q, [h EXCEPT ![p].kids[s] = q])
<1> DEFINE g == [h EXCEPT ![p].kids[s] = q]
<1>1. /\ DOMAIN g = DOMAIN h /\ Typed(g)
      /\ \A x \in DOMAIN h : g[x].name = h[x].name
      /\ \A x \in DOMAIN h, t \in Scope :
           g[x].kids[t] = IF x = p /\ t = s THEN q ELSE h[x].kids[t]
  BY RowSetFacts
<1>2. ASSUME NEW x \in DOMAIN h PROVE NodeOf(g[x]) = NodeOf(h[x])
  <2>1. h[x] \in CellType /\ h[p] \in CellType
    BY DEF Typed
  <2>2. g[x].kind = h[x].kind /\ g[x].value = h[x].value /\ g[x].saved = h[x].saved
    BY <2>1 DEF Typed, CellType
  <2> HIDE DEF g
  <2> QED
    BY <2>2 DEF NodeOf
<1> HIDE DEF g
<1>3. ASSUME NEW x \in DOMAIN h, NEW t \in Scope
      PROVE  Kids(g, x, t) = IF x = p /\ t = s THEN Range(q) ELSE Kids(h, x, t)
  BY <1>1 DEF Kids
<1> QED
  BY <1>1, <1>2, <1>3 DEF g, RowPut

GrownBy(h, new, p, s, cell) ==
    /\ new \notin DOMAIN heap
    /\ DOMAIN h = DOMAIN heap \cup {new}
    /\ h[new] = cell
    /\ \A x \in DOMAIN heap : Stays(h, x)
    /\ \A t \in Scope : Kids(h, new, t) = {}
    /\ \A x \in DOMAIN heap, t \in Scope :
         Kids(h, x, t) = IF x = p /\ t = s THEN Kids(heap, p, s) \cup {new} ELSE Kids(heap, x, t)

LEMMA GrownShape ==
    ASSUME GoodHeap(heap), NEW p \in DOMAIN heap, NEW s \in Scope, NEW n, NEW k, NEW v,
           NEW h \in Attached(p, s, Cell(n, k, v))
    PROVE  \E new : GrownBy(h, new, p, s, Cell(n, k, v))
<1>1. PICK cell : cell = Cell(n, k, v)
  OBVIOUS
<1>2. PICK new \in Pos \ DOMAIN heap :
        h = [q \in DOMAIN heap \cup {new} |->
              IF q = new THEN cell
              ELSE IF q = p THEN [heap[p] EXCEPT !.kids[s] = Append(@, new)]
              ELSE heap[q]]
  BY <1>1 DEF Attached
<1>3. /\ heap[p].kids[s] \in Row /\ new \in Pos \ Range(heap[p].kids[s])
      /\ Typed(heap)
  BY DEF GoodHeap, RowsOK, Kids
<1>4. PICK q \in Row : /\ q = Append(heap[p].kids[s], new)
                       /\ Range(q) = Kids(heap, p, s) \cup {new}
  BY <1>3, AppendFacts DEF Kids
<1> DEFINE g == [heap EXCEPT ![p].kids[s] = q]
<1>p. RowPut(heap, p, s, q, g)
  BY <1>3, RowPutFacts
<1> HIDE DEF g
<1>5. /\ DOMAIN g = DOMAIN heap
      /\ \A x \in DOMAIN heap : NodeOf(g[x]) = NodeOf(heap[x]) /\ g[x].name = heap[x].name
      /\ \A x \in DOMAIN heap, t \in Scope :
           Kids(g, x, t) = IF x = p /\ t = s THEN Range(q) ELSE Kids(heap, x, t)
  BY <1>p DEF RowPut
<1>6. DOMAIN h = DOMAIN heap \cup {new} /\ h[new] = cell /\ \A x \in DOMAIN heap : h[x] = g[x]
  <2>1. /\ DOMAIN h = DOMAIN heap \cup {new} /\ h[new] = cell
        /\ \A x \in DOMAIN heap : x # p => h[x] = heap[x]
        /\ h[p] = [heap[p] EXCEPT !.kids[s] = Append(heap[p].kids[s], new)]
    BY <1>2
  <2>2. g[p] = [heap[p] EXCEPT !.kids[s] = q] /\ \A x \in DOMAIN heap : x # p => g[x] = heap[x]
    BY <1>3 DEF Typed, g
  <2> QED
    BY <2>1, <2>2, <1>4
<1>7. \A t \in Scope : Kids(h, new, t) = {}
  <2>1. \A t \in Scope : h[new].kids[t] = <<>>
    BY <1>1, <1>6 DEF Cell
  <2> QED
    BY <2>1, EmptyRowFacts DEF Kids
<1>8. \A x \in DOMAIN heap, t \in Scope : Kids(h, x, t) = Kids(g, x, t)
  BY <1>6 DEF Kids
<1>9. \A x \in DOMAIN heap : Stays(h, x)
  BY <1>5, <1>6 DEF Stays
<1>10. GrownBy(h, new, p, s, cell)
  BY <1>4, <1>5, <1>6, <1>7, <1>8, <1>9 DEF GrownBy
<1> QED
  BY <1>1, <1>10

CutTo(h, B) ==
    /\ DOMAIN h = DOMAIN heap \ B
    /\ \A x \in DOMAIN h : Stays(h, x)
    /\ \A x \in DOMAIN h, t \in Scope : Kids(h, x, t) = Kids(heap, x, t) \ B

LEMMA CutShape ==
    ASSUME GoodHeap(heap), NEW p \in DOMAIN heap, NEW s \in Scope, NEW q \in Row,
           NEW S, S \subseteq Kids(heap, p, s), Range(q) = Kids(heap, p, s) \ S
    PROVE  CutTo(Freed([heap EXCEPT ![p].kids[s] = q], Subtree(S)), Subtree(S))
<1> DEFINE g == [heap EXCEPT ![p].kids[s] = q]
           B == Subtree(S)
           h == Freed(g, B)
<1>1. Typed(heap) /\ Kids(heap, p, s) \subseteq DOMAIN heap \ {Root}
  BY DEF GoodHeap, RowsOK
<1>2. /\ S \subseteq B
      /\ \A x \in DOMAIN heap \ B, t \in Scope :
           \A c \in Kids(heap, x, t) : c \in B => c \in S
  BY <1>1, SubtreeFacts
<1>p. RowPut(heap, p, s, q, g)
  BY <1>1, RowPutFacts
<1> HIDE DEF g, B
<1>3. /\ DOMAIN g = DOMAIN heap
      /\ \A x \in DOMAIN heap : NodeOf(g[x]) = NodeOf(heap[x]) /\ g[x].name = heap[x].name
      /\ \A x \in DOMAIN heap, t \in Scope :
           Kids(g, x, t) = IF x = p /\ t = s THEN Range(q) ELSE Kids(heap, x, t)
  BY <1>p DEF RowPut
<1>4. DOMAIN h = DOMAIN heap \ B /\ \A x \in DOMAIN heap \ B : h[x] = g[x]
  BY <1>3 DEF Freed
<1> HIDE DEF h
<1>5. ASSUME NEW x \in DOMAIN h, NEW t \in Scope
      PROVE  Kids(h, x, t) = Kids(heap, x, t) \ B
  <2>1. x \in DOMAIN heap \ B /\ Kids(h, x, t) = Kids(g, x, t)
    BY <1>4 DEF Kids
  <2>2. CASE x = p /\ t = s
    <3>1. Kids(h, x, t) = Kids(heap, p, s) \ S
      BY <2>1, <2>2, <1>3
    <3> QED
      BY <3>1, <2>1, <2>2, <1>2
  <2>3. CASE ~(x = p /\ t = s)
    <3>1. Kids(h, x, t) = Kids(heap, x, t)
      BY <2>1, <2>3, <1>3
    <3>2. \A c \in Kids(heap, x, t) : c \notin S
      BY <2>1, <2>3 DEF GoodHeap, OneParent
    <3> QED
      BY <3>1, <3>2, <2>1, <1>2
  <2> QED
    BY <2>2, <2>3
<1>6. \A x \in DOMAIN h : Stays(h, x)
  BY <1>3, <1>4 DEF Stays
<1> QED
  BY <1>4, <1>5, <1>6 DEF CutTo, h, g, B

\* c hangs in row t of e, and everything else where it was.
HungTo(h, c, e, t) ==
    /\ DOMAIN h = DOMAIN heap
    /\ c \in Kids(h, e, t)
    /\ \A x \in DOMAIN heap, u \in Scope : \A k \in Kids(h, x, u) : k # c => k \in Kids(heap, x, u)
    /\ \A x \in DOMAIN heap, u \in Scope : \A k \in Kids(heap, x, u) : k # c => k \in Kids(h, x, u)
    /\ \A x \in DOMAIN heap : x # c => h[x].name = heap[x].name

LEMMA RelinkedShape ==
    ASSUME GoodHeap(heap), NEW p \in DOMAIN heap, NEW s \in Scope, NEW c \in Kids(heap, p, s),
           NEW d \in DOMAIN heap
    PROVE  /\ HungTo(Relinked(p, s, c, d), c, d, "child")
           /\ \A x \in DOMAIN heap : Stays(Relinked(p, s, c, d), x)
<1>1. /\ Typed(heap) /\ "child" \in Scope
      /\ Kids(heap, p, s) \subseteq DOMAIN heap \ {Root}
      /\ heap[p].kids[s] \in Row /\ c \in Range(heap[p].kids[s]) /\ c \in Pos
  BY TreeAssumption DEF GoodHeap, RowsOK, Kids, Typed
<1>2. PICK q \in Row : /\ q = RemoveFirst(heap[p].kids[s], c)
                       /\ Range(q) = Kids(heap, p, s) \ {c}
  BY <1>1, RemoveFirstFacts DEF Kids
<1> DEFINE u == [heap EXCEPT ![p].kids[s] = q]
<1>p. RowPut(heap, p, s, q, u)
  BY <1>1, RowPutFacts
<1>u. [heap EXCEPT ![p].kids[s] = RemoveFirst(@, c)] = u
  BY <1>2
<1> HIDE DEF u
<1>3. /\ DOMAIN u = DOMAIN heap /\ Typed(u)
      /\ \A x \in DOMAIN heap : NodeOf(u[x]) = NodeOf(heap[x]) /\ u[x].name = heap[x].name
      /\ \A x \in DOMAIN heap, t \in Scope :
           u[x].kids[t] = IF x = p /\ t = s THEN q ELSE heap[x].kids[t]
      /\ \A x \in DOMAIN heap, t \in Scope :
           Kids(u, x, t) = IF x = p /\ t = s THEN Range(q) ELSE Kids(heap, x, t)
  BY <1>p DEF RowPut
<1>4. \A x \in DOMAIN heap, t \in Scope : Kids(u, x, t) = Kids(heap, x, t) \ {c}
  <2> SUFFICES ASSUME NEW x \in DOMAIN heap, NEW t \in Scope
               PROVE  Kids(u, x, t) = Kids(heap, x, t) \ {c}
    OBVIOUS
  <2>1. CASE x = p /\ t = s
    BY <2>1, <1>2, <1>3
  <2>2. CASE ~(x = p /\ t = s)
    <3>1. c \notin Kids(heap, x, t)
      BY <2>2 DEF GoodHeap, OneParent
    <3> QED
      BY <3>1, <2>2, <1>3
  <2> QED
    BY <2>1, <2>2
<1>5. PICK a \in Row : /\ a = Append(u[d].kids["child"], c)
                       /\ Range(a) = Kids(u, d, "child") \cup {c}
  <2>1. u[d].kids["child"] \in Row
    BY <1>1, <1>3 DEF GoodHeap, RowsOK
  <2>2. c \in Pos \ Range(u[d].kids["child"])
    BY <1>1, <1>4 DEF Kids
  <2> QED
    BY <2>1, <2>2, AppendFacts DEF Kids
<1> DEFINE h == [u EXCEPT ![d].kids["child"] = a]
<1>w. RowPut(u, d, "child", a, h)
  <2>1. Typed(u) /\ d \in DOMAIN u /\ "child" \in Scope
    BY <1>1, <1>3
  <2> QED
    BY <2>1, RowPutFacts
<1>7. Relinked(p, s, c, d) = h
  <2>1. [u EXCEPT ![d].kids["child"] = Append(@, c)] = h
    BY <1>5
  <2> HIDE DEF h
  <2> QED
    BY <2>1, <1>u DEF Relinked
<1> HIDE DEF h
<1>6. /\ DOMAIN h = DOMAIN heap
      /\ \A x \in DOMAIN heap : NodeOf(h[x]) = NodeOf(u[x]) /\ h[x].name = u[x].name
      /\ \A x \in DOMAIN heap, t \in Scope :
           Kids(h, x, t) = IF x = d /\ t = "child" THEN Range(a) ELSE Kids(u, x, t)
  BY <1>w, <1>3 DEF RowPut
<1>8. \A x \in DOMAIN heap : Stays(h, x)
  BY <1>3, <1>6 DEF Stays
<1>9. HungTo(h, c, d, "child")
  <2>1. c \in Kids(h, d, "child")
    BY <1>1, <1>5, <1>6
  <2>2. ASSUME NEW x \in DOMAIN heap, NEW t \in Scope, NEW k, k # c
        PROVE  k \in Kids(h, x, t) <=> k \in Kids(heap, x, t)
    BY <2>2, <1>4, <1>5, <1>6
  <2>3. \A x \in DOMAIN heap : h[x].name = heap[x].name
    BY <1>3, <1>6
  <2> QED
    BY <2>1, <2>2, <2>3, <1>6 DEF HungTo
<1> QED
  BY <1>7, <1>8, <1>9

-----------------------------------------------------------------------------
(* The paths a call leaves.                                                 *)
LEMMA KeptPaths ==
    ASSUME NEW f, ArePaths(heap, f), NEW h, GoodHeap(heap), DOMAIN h = DOMAIN heap,
           \A x \in DOMAIN heap, t \in Scope : Kids(h, x, t) = Kids(heap, x, t),
           \A x \in DOMAIN heap : x # Root => h[x].name = heap[x].name
    PROVE  ArePaths(h, f)
<1>1. \A p \in DOMAIN heap, s \in Scope : Kids(heap, p, s) \subseteq DOMAIN heap \ {Root}
  BY DEF GoodHeap, RowsOK
<1>2. ASSUME NEW p \in DOMAIN heap, NEW s \in Scope, NEW c \in Kids(heap, p, s)
      PROVE  f[c] = Append(f[p], StepTo(h, s, c))
  <2>1. h[c].name = heap[c].name
    BY <1>1
  <2>2. f[c] = Append(f[p], StepTo(heap, s, c))
    BY DEF ArePaths
  <2> QED
    BY <2>1, <2>2 DEF StepTo
<1> QED
  BY <1>2 DEF ArePaths

\* The paths when a new node has the path d.
GrownTo(f, new, d) == [x \in DOMAIN heap \cup {new} |-> IF x = new THEN d ELSE f[x]]

LEMMA GrownPaths ==
    ASSUME GoodHeap(heap), NEW f, ArePaths(heap, f), NEW p \in DOMAIN heap, NEW s \in Scope,
           NEW cell, NEW new, NEW h, GoodHeap(h), GrownBy(h, new, p, s, cell)
    PROVE  ArePaths(h, GrownTo(f, new, Append(f[p], StepTo(h, s, new))))
<1> DEFINE d == Append(f[p], StepTo(h, s, new))
           g == [x \in DOMAIN heap \cup {new} |-> IF x = new THEN d ELSE f[x]]
<1>1. \A q \in DOMAIN heap, t \in Scope : Kids(heap, q, t) \subseteq DOMAIN heap \ {Root}
  BY DEF GoodHeap, RowsOK
<1>2. /\ Root \in DOMAIN heap /\ new # Root
      /\ new \notin DOMAIN heap /\ DOMAIN h = DOMAIN heap \cup {new}
  BY DEF GoodHeap, Typed, GrownBy
<1>3. d \in Trail
  <2>1. StepTo(h, s, new) \in PStep
    BY <1>2, StepToFacts
  <2>2. f[p] \in Trail
    BY DEF ArePaths
  <2> QED
    BY <2>1, <2>2, AppendToTrail
<1>4. g[new] = d /\ \A x \in DOMAIN heap : g[x] = f[x]
  BY <1>2
<1>5. g \in [DOMAIN h -> Trail] /\ g[Root] = <<>>
  <2>1. \A x \in DOMAIN heap : f[x] \in Trail
    BY DEF ArePaths
  <2>2. g \in [DOMAIN h -> Trail]
    BY <1>2, <1>3, <2>1
  <2> HIDE DEF g, d
  <2> QED
    BY <2>2, <1>2, <1>4 DEF ArePaths
<1>6. d = Append(f[p], StepTo(h, s, new))
  OBVIOUS
<1> HIDE DEF g, d
<1>7. ASSUME NEW q \in DOMAIN h, NEW t \in Scope, NEW c \in Kids(h, q, t)
      PROVE  g[c] = Append(g[q], StepTo(h, t, c))
  <2>1. q \in DOMAIN heap
    BY <1>2 DEF GrownBy
  <2>2. CASE c = new
    <3>1. q = p /\ t = s
      BY <1>1, <1>2, <2>1, <2>2 DEF GrownBy
    <3> QED
      BY <2>2, <3>1, <1>4, <1>6
  <2>3. CASE c # new
    <3>1. c \in Kids(heap, q, t) /\ c \in DOMAIN heap
      BY <1>1, <2>1, <2>3 DEF GrownBy
    <3>2. h[c].name = heap[c].name
      BY <3>1 DEF GrownBy, Stays
    <3>3. f[c] = Append(f[q], StepTo(heap, t, c))
      BY <2>1, <3>1 DEF ArePaths
    <3>4. StepTo(h, t, c) = StepTo(heap, t, c)
      BY <3>2 DEF StepTo
    <3> QED
      BY <2>1, <3>1, <3>3, <3>4, <1>4
  <2> QED
    BY <2>2, <2>3
<1>8. ASSUME NEW c \in DOMAIN h \ {Root}
      PROVE  \E q \in DOMAIN h, t \in Scope : c \in Kids(h, q, t)
  <2>1. CASE c = new
    BY <2>1, <1>2 DEF GrownBy
  <2>2. CASE c # new
    <3>1. PICK q \in DOMAIN heap, t \in Scope : c \in Kids(heap, q, t)
      BY <1>2, <2>2 DEF ArePaths
    <3>2. c \in Kids(h, q, t)
      BY <3>1 DEF GrownBy
    <3> QED
      BY <3>1, <3>2, <1>2
  <2> QED
    BY <2>1, <2>2
<1> QED
  BY <1>5, <1>7, <1>8 DEF ArePaths, GrownTo, g, d

LEMMA CutPaths ==
    ASSUME GoodHeap(heap), NEW f, ArePaths(heap, f), NEW S, S \subseteq DOMAIN heap \ {Root},
           NEW h, GoodHeap(h), CutTo(h, Subtree(S))
    PROVE  ArePaths(h, [x \in DOMAIN h |-> f[x]])
<1> DEFINE g == [x \in DOMAIN h |-> f[x]]
           B == Subtree(S)
<1>1. /\ \A q \in DOMAIN heap : q \in B <=> \E c \in S : IsPrefix(f[c], f[q])
      /\ DOMAIN h = DOMAIN heap \ B
      /\ \A x \in DOMAIN h, t \in Scope : Kids(h, x, t) = Kids(heap, x, t) \ B
      /\ \A x \in DOMAIN h : h[x].name = heap[x].name
  BY SubtreeIsBelow DEF CutTo, Stays
<1> HIDE DEF B
<1>2. \A x \in DOMAIN h : g[x] = f[x]
  OBVIOUS
<1>3. g \in [DOMAIN h -> Trail]
  BY <1>1 DEF ArePaths
<1>4. Root \in DOMAIN h
  BY DEF GoodHeap, Typed
<1> HIDE DEF g
<1>5. ASSUME NEW p \in DOMAIN h, NEW s \in Scope, NEW c \in Kids(h, p, s)
      PROVE  g[c] = Append(g[p], StepTo(h, s, c))
  <2>1. c \in DOMAIN h /\ c \in Kids(heap, p, s)
    BY <1>1 DEF GoodHeap, RowsOK
  <2>2. f[c] = Append(f[p], StepTo(heap, s, c))
    BY <1>1, <2>1 DEF ArePaths
  <2>3. StepTo(h, s, c) = StepTo(heap, s, c)
    BY <1>1, <2>1 DEF StepTo
  <2> QED
    BY <1>2, <2>1, <2>2, <2>3
<1>6. ASSUME NEW c \in DOMAIN h \ {Root}
      PROVE  \E p \in DOMAIN h, s \in Scope : c \in Kids(h, p, s)
  <2>1. PICK p, s : Above(heap, f, c, p, s)
    BY <1>1, HangsAbove
  <2>2. p \notin B
    <3> SUFFICES ASSUME p \in B PROVE FALSE
      OBVIOUS
    <3>1. PICK e \in S : IsPrefix(f[e], f[p])
      BY <1>1, <2>1 DEF Above
    <3>2. f[e] \in Trail
      BY DEF ArePaths
    <3>3. IsPrefix(f[e], f[c])
      BY <2>1, <3>1, <3>2, PrefixOfAppend DEF Above
    <3> QED
      BY <1>1, <3>3
  <2>3. p \in DOMAIN h /\ s \in Scope /\ c \in Kids(heap, p, s)
    BY <1>1, <2>1, <2>2 DEF Above
  <2>4. c \in Kids(h, p, s)
    BY <1>1, <2>3
  <2> QED
    BY <2>3, <2>4
<1> QED
  BY <1>2, <1>3, <1>4, <1>5, <1>6 DEF ArePaths, g

\* The paths when what is below c hangs at d instead.
RebasedPaths(f, c, d) ==
    [x \in DOMAIN heap |-> IF IsPrefix(f[c], f[x]) THEN Rebase(f[c], d, f[x]) ELSE f[x]]

LEMMA HungPaths ==
    ASSUME GoodHeap(heap), NEW f, ArePaths(heap, f), NEW c \in DOMAIN heap, c # Root,
           NEW e \in DOMAIN heap, ~IsPrefix(f[c], f[e]), NEW t \in Scope,
           NEW h, GoodHeap(h), HungTo(h, c, e, t)
    PROVE  ArePaths(h, RebasedPaths(f, c, Append(f[e], StepTo(h, t, c))))
<1>0. PICK d : d = Append(f[e], StepTo(h, t, c))
  OBVIOUS
<1> DEFINE g == RebasedPaths(f, c, d)
<1>1. /\ \A x \in DOMAIN heap : f[x] \in Trail
      /\ \A q \in DOMAIN heap, s \in Scope : Kids(heap, q, s) \subseteq DOMAIN heap \ {Root}
      /\ \A q \in DOMAIN heap, s \in Scope : Kids(h, q, s) \subseteq DOMAIN heap \ {Root}
      /\ DOMAIN h = DOMAIN heap
  BY DEF ArePaths, GoodHeap, RowsOK, HungTo
<1>2. d \in Trail
  <2>1. StepTo(h, t, c) \in PStep
    BY <1>1, StepToFacts
  <2> QED
    BY <1>0, <1>1, <2>1, AppendToTrail
<1>3. \A x \in DOMAIN heap : g[x] = IF IsPrefix(f[c], f[x]) THEN Rebase(f[c], d, f[x]) ELSE f[x]
  BY DEF RebasedPaths
<1>4. \A x \in DOMAIN heap : IsPrefix(f[c], f[x]) => Rebase(f[c], d, f[x]) \in Trail
  BY <1>1, <1>2, RebaseFacts
<1>5. g \in [DOMAIN h -> Trail]
  BY <1>1, <1>3, <1>4 DEF RebasedPaths
<1> HIDE DEF g
<1>6. g[Root] = <<>>
  <2>1. PICK a, s : Above(heap, f, c, a, s)
    BY HangsAbove
  <2>2. Root \in DOMAIN heap /\ f[Root] = <<>> /\ Len(f[Root]) = 0
    BY RootIsAbove
  <2>3. ~IsPrefix(f[c], f[Root])
    <3>1. Len(f[c]) \in Nat /\ Len(f[c]) > 0
      BY <2>1 DEF Above
    <3>2. ~(Len(f[c]) <= Len(f[Root]))
      BY <2>2, <3>1
    <3> QED
      BY <3>2 DEF IsPrefix
  <2> QED
    BY <2>2, <2>3, <1>3
<1>7. g[c] = d
  <2>1. IsPrefix(f[c], f[c]) /\ Rebase(f[c], d, f[c]) = d
    BY <1>1, <1>2, PrefixItself, RebaseFacts
  <2> QED
    BY <2>1, <1>3
<1>8. ASSUME NEW q \in DOMAIN heap, NEW s \in Scope, NEW k \in Kids(h, q, s)
      PROVE  g[k] = Append(g[q], StepTo(h, s, k))
  <2>1. CASE k = c
    <3>1. q = e /\ s = t
      BY <2>1, <1>1 DEF HungTo, GoodHeap, OneParent
    <3>2. g[e] = f[e]
      BY <1>3
    <3> QED
      BY <2>1, <3>1, <3>2, <1>0, <1>7
  <2>2. CASE k # c
    <3>1. k \in Kids(heap, q, s) /\ k \in DOMAIN heap
      BY <2>2, <1>1 DEF HungTo
    <3>2. StepTo(h, s, k) = StepTo(heap, s, k) /\ StepTo(heap, s, k) \in PStep
      BY <2>2, <3>1, StepToFacts DEF StepTo, HungTo
    <3>3. PICK y \in PStep : y = StepTo(h, s, k)
      BY <3>2
    <3>4. f[k] = Append(f[q], y)
      BY <3>1, <3>2, <3>3 DEF ArePaths
    <3>5. f[k] # f[c]
      BY <2>2, <3>1, PathsDiffer
    <3>6. IsPrefix(f[c], f[k]) <=> IsPrefix(f[c], f[q])
      BY <1>1, <3>4, <3>5, PrefixOfAppend
    <3>7. IsPrefix(f[c], f[q]) => Rebase(f[c], d, f[k]) = Append(Rebase(f[c], d, f[q]), y)
      <4> SUFFICES ASSUME IsPrefix(f[c], f[q])
                   PROVE  Rebase(f[c], d, Append(f[q], y)) = Append(Rebase(f[c], d, f[q]), y)
        BY <3>4
      <4> QED
        BY <1>1, <1>2, RebaseFacts
    <3> QED
      BY <3>1, <3>3, <3>4, <3>6, <3>7, <1>3
  <2> QED
    BY <2>1, <2>2
<1>9. ASSUME NEW k \in DOMAIN heap \ {Root}
      PROVE  \E q \in DOMAIN heap, s \in Scope : k \in Kids(h, q, s)
  <2>1. CASE k = c
    BY <2>1 DEF HungTo
  <2>2. CASE k # c
    <3>1. PICK q \in DOMAIN heap, s \in Scope : k \in Kids(heap, q, s)
      BY DEF ArePaths
    <3>2. k \in Kids(h, q, s)
      BY <2>2, <3>1 DEF HungTo
    <3> QED
      BY <3>1, <3>2
  <2> QED
    BY <2>1, <2>2
<1>10. ArePaths(h, g)
  BY <1>1, <1>5, <1>6, <1>8, <1>9 DEF ArePaths
<1> QED
  BY <1>0, <1>10 DEF g

LEMMA FrontLast ==
    ASSUME NEW q \in Trail, NEW e \in PStep
    PROVE  /\ Front(Append(q, e)) = q /\ Last(Append(q, e)) = e
           /\ Append(q, e) # <<>>
           /\ Append(q, e) \in Trail
<1>0. PICK a : a = Append(q, e)
  OBVIOUS
<1>1. PICK n \in Nat : n = Len(q)
  BY LenProperties DEF Trail
<1>2. /\ a \in Trail /\ Len(a) = n + 1
      /\ \A i \in 1..n : a[i] = q[i] /\ q[i] \in PStep
      /\ a[n + 1] = e
  <2>1. /\ a \in Trail /\ Len(a) = n + 1 /\ \A i \in 1..n : a[i] = q[i]
        /\ a[n + 1] = e
    BY <1>0, <1>1, AppendToTrail
  <2>2. \A i \in 1..n : q[i] \in PStep
    BY <1>1, ElementOfSeq DEF Trail
  <2> QED
    BY <2>1, <2>2
<1>3. PICK b : b = SubSeq(a, 1, n)
  OBVIOUS
<1>4. /\ b \in Seq(PStep) /\ Len(b) = IF 1 <= n THEN n - 1 + 1 ELSE 0
      /\ \A i \in 1 .. n - 1 + 1 : b[i] = a[1 + i - 1]
  <2>1. \A i \in 1..n : a[i] \in PStep
    BY <1>2
  <2> QED
    BY <1>3, <2>1, SubSeqProperties
<1>5. Len(b) = n /\ \A i \in 1..n : b[i] = q[i]
  BY <1>2, <1>4
<1>6. b = q
  BY <1>1, <1>4, <1>5, SeqEqual DEF Trail
<1>7. Front(a) = b
  <2>1. Len(a) - 1 = n
    BY <1>2
  <2> QED
    BY <1>3, <2>1 DEF Front
<1>8. Last(a) = e
  BY <1>2 DEF Last
<1>9. a # <<>>
  BY <1>2, EmptySeq
<1> QED
  BY <1>0, <1>2, <1>6, <1>7, <1>8, <1>9

(* What a node has saved, as the map has it.                                *)
Pair == {[key |-> n.key, value |-> v] : n \in Name \cup {NoName}, v \in Value}

PairOf(x) == [key |-> x.name.key, value |-> x.value]

SavedOf(q) == [i \in DOMAIN q |-> PairOf(q[i])]

LEMMA NodeOfCell == \A cell : NodeOf(cell) =
    [kind |-> cell.kind, value |-> cell.value, saved |-> SavedOf(cell.saved)]
  BY DEF NodeOf, SavedOf, PairOf

LEMMA SavedOfSeq ==
    ASSUME NEW q \in Seq(Saved)
    PROVE  /\ SavedOf(q) \in Seq(Pair)
           /\ Len(SavedOf(q)) = Len(q) /\ Len(q) \in Nat
           /\ \A i \in 1..Len(q) : SavedOf(q)[i] = PairOf(q[i])
<1>1. PICK n \in Nat : n = Len(q) /\ DOMAIN q = 1..n
  BY LenProperties
<1>2. \A i \in 1..n : PairOf(q[i]) \in Pair
  <2>1. \A x \in Saved : PairOf(x) \in Pair
    BY DEF Saved, Pair, PairOf
  <2> QED
    BY <1>1, <2>1, ElementOfSeq
<1>3. SavedOf(q) = [i \in 1..n |-> PairOf(q[i])]
  BY <1>1 DEF SavedOf
<1>4. PICK t : t = SavedOf(q)
  OBVIOUS
<1>5. t \in [1..n -> Pair]
  BY <1>2, <1>3, <1>4
<1>6. t \in Seq(Pair) /\ Len(t) = n
  BY <1>5
<1> QED
  BY <1>1, <1>3, <1>4, <1>6

LEMMA SavedOfNone == SavedOf(<<>>) = <<>>
<1>1. PICK q : q = <<>>
  OBVIOUS
<1>2. q \in Seq(Saved) /\ Len(q) = 0
  BY <1>1, EmptySeq
<1>3. SavedOf(q) \in Seq(Pair) /\ Len(SavedOf(q)) = 0
  BY <1>2, SavedOfSeq
<1>4. SavedOf(q) = <<>>
  <2>1. SavedOf(q) # <<>> => Len(SavedOf(q)) \in Nat \ {0}
    BY <1>3, EmptySeq
  <2> QED
    BY <1>3, <2>1
<1> QED
  BY <1>1, <1>4

LEMMA SavedOfPushed ==
    ASSUME NEW q \in Seq(Saved), NEW x \in Saved
    PROVE  SavedOf(<<x>> \o q) = <<PairOf(x)>> \o SavedOf(q)
<1>1. PICK n \in Nat : n = Len(q)
  BY LenProperties
<1>2. PICK a, b, y : a = <<x>> \o q /\ b = <<y>> \o SavedOf(q) /\ y = PairOf(x)
  OBVIOUS
<1>3. /\ SavedOf(q) \in Seq(Pair) /\ Len(SavedOf(q)) = n
      /\ \A i \in 1..n : SavedOf(q)[i] = PairOf(q[i])
  BY <1>1, SavedOfSeq
<1>4. y \in Pair
  BY <1>2 DEF Saved, Pair, PairOf
<1>5. /\ a \in Seq(Saved) /\ Len(a) = 1 + n
      /\ \A i \in 1 .. 1 + n : a[i] = IF i <= 1 THEN x ELSE q[i - 1]
  <2>1. PICK o : o = <<x>>
    OBVIOUS
  <2>2. o \in Seq(Saved) /\ Len(o) = 1 /\ o[1] = x
    BY <2>1
  <2>3. /\ a \in Seq(Saved) /\ Len(a) = Len(o) + Len(q)
        /\ \A i \in 1 .. Len(o) + Len(q) : a[i] = IF i <= Len(o) THEN o[i] ELSE q[i - Len(o)]
    BY <1>2, <2>1, <2>2, ConcatProperties
  <2> QED
    BY <1>1, <2>2, <2>3
<1>6. /\ b \in Seq(Pair) /\ Len(b) = 1 + n
      /\ \A i \in 1 .. 1 + n : b[i] = IF i <= 1 THEN y ELSE SavedOf(q)[i - 1]
  <2>1. PICK o : o = <<y>>
    OBVIOUS
  <2>2. o \in Seq(Pair) /\ Len(o) = 1 /\ o[1] = y
    BY <1>4, <2>1
  <2>3. /\ b \in Seq(Pair) /\ Len(b) = Len(o) + Len(SavedOf(q))
        /\ \A i \in 1 .. Len(o) + Len(SavedOf(q)) :
             b[i] = IF i <= Len(o) THEN o[i] ELSE SavedOf(q)[i - Len(o)]
    BY <1>2, <1>3, <2>1, <2>2, ConcatProperties
  <2> QED
    BY <1>3, <2>2, <2>3
<1>7. /\ SavedOf(a) \in Seq(Pair) /\ Len(SavedOf(a)) = 1 + n
      /\ \A i \in 1 .. 1 + n : SavedOf(a)[i] = PairOf(a[i])
  BY <1>5, SavedOfSeq
<1>8. \A i \in 1 .. 1 + n : SavedOf(a)[i] = b[i]
  <2> SUFFICES ASSUME NEW i \in 1 .. 1 + n PROVE SavedOf(a)[i] = b[i]
    OBVIOUS
  <2>1. CASE i = 1
    <3>1. 1 \in 1 .. 1 + n /\ 1 <= 1
      BY <1>1
    <3>2. a[1] = x
      BY <3>1, <1>5
    <3>3. b[1] = y
      BY <3>1, <1>6
    <3>4. SavedOf(a)[1] = PairOf(a[1])
      BY <3>1, <1>7
    <3> QED
      BY <2>1, <3>2, <3>3, <3>4, <1>2
  <2>2. CASE i # 1
    <3>1. i - 1 \in 1..n /\ ~(i <= 1)
      BY <2>2
    <3> QED
      BY <3>1, <1>3, <1>5, <1>6, <1>7
  <2> QED
    BY <2>1, <2>2
<1>9. SavedOf(a) = b
  BY <1>6, <1>7, <1>8, SeqEqual
<1> QED
  BY <1>2, <1>9

LEMMA SavedOfPopped ==
    ASSUME NEW q \in Seq(Saved), q # <<>>
    PROVE  /\ SavedOf(q) # <<>>
           /\ Head(SavedOf(q)) = PairOf(q[1]) /\ q[1] \in Saved
           /\ Tail(q) \in Seq(Saved) /\ SavedOf(Tail(q)) = Tail(SavedOf(q))
<1>1. PICK n \in Nat : n = Len(q) /\ n # 0
  BY EmptySeq
<1>2. PICK s : s = SavedOf(q)
  OBVIOUS
<1>3. s \in Seq(Pair) /\ Len(s) = n /\ \A i \in 1..n : s[i] = PairOf(q[i])
  BY <1>1, <1>2, SavedOfSeq
<1>4. s # <<>>
  BY <1>1, <1>3, EmptySeq
<1>5. PICK a, b : a = Tail(q) /\ b = Tail(s)
  OBVIOUS
<1>6. a \in Seq(Saved) /\ Len(a) = n - 1 /\ \A i \in 1 .. n - 1 : a[i] = q[i + 1]
  BY <1>1, <1>5, HeadTailProperties
<1>7. b \in Seq(Pair) /\ Len(b) = n - 1 /\ \A i \in 1 .. n - 1 : b[i] = s[i + 1]
  BY <1>3, <1>4, <1>5, HeadTailProperties
<1>8. SavedOf(a) \in Seq(Pair) /\ Len(SavedOf(a)) = n - 1
      /\ \A i \in 1 .. n - 1 : SavedOf(a)[i] = PairOf(a[i])
  BY <1>6, SavedOfSeq
<1>9. \A i \in 1 .. n - 1 : SavedOf(a)[i] = b[i]
  BY <1>1, <1>3, <1>6, <1>7, <1>8
<1>10. SavedOf(a) = b
  BY <1>7, <1>8, <1>9, SeqEqual
<1>11. Head(s) = PairOf(q[1])
  <2>1. Head(s) = s[1]
    BY <1>3, <1>4
  <2>2. 1 \in 1..n
    BY <1>1
  <2> QED
    BY <1>3, <2>1, <2>2
<1>12. q[1] \in Saved
  <2>1. 1 \in 1..n
    BY <1>1
  <2> QED
    BY <1>1, <2>1, ElementOfSeq
<1> QED
  BY <1>2, <1>4, <1>5, <1>6, <1>10, <1>11, <1>12

-----------------------------------------------------------------------------
(* The map of the heap a call leaves, against the map it found.             *)
LEMMA PathsOfMap ==
    /\ \A p, q : Paths!IsPrefix(p, q) <=> IsPrefix(p, q)
    /\ \A q : Paths!Front(q) = Front(q) /\ Paths!Last(q) = Last(q)
  BY DEF Paths!IsPrefix, IsPrefix, Paths!Front, Front, Paths!Last, Last

LEMMA SameMaps ==
    ASSUME NEW h, NEW f, NEW M, ViewOf(h, f, M), NEW k, NEW g, NEW N, ViewOf(k, g, N),
           DOMAIN k = DOMAIN h,
           \A x \in DOMAIN h : g[x] = f[x] /\ NodeOf(k[x]) = NodeOf(h[x])
    PROVE  N = M
<1>1. {g[x] : x \in DOMAIN k} = {f[x] : x \in DOMAIN h}
  OBVIOUS
<1>2. /\ M = [q \in {f[x] : x \in DOMAIN h} |-> M[q]]
      /\ N = [q \in {f[x] : x \in DOMAIN h} |-> N[q]]
      /\ \A x \in DOMAIN h : M[f[x]] = NodeOf(h[x]) /\ N[f[x]] = NodeOf(h[x])
  BY <1>1 DEF ViewOf
<1> DEFINE D == {f[x] : x \in DOMAIN h}
<1>3. ASSUME NEW q \in D PROVE N[q] = M[q]
  <2>1. PICK x \in DOMAIN h : q = f[x]
    OBVIOUS
  <2>2. M[f[x]] = NodeOf(h[x]) /\ N[f[x]] = NodeOf(h[x])
    BY <1>2
  <2> QED
    BY <2>1, <2>2
<1>4. M = [q \in D |-> M[q]] /\ N = [q \in D |-> N[q]]
  BY <1>2
<1> HIDE DEF D
<1> QED
  BY <1>3, <1>4

LEMMA OneChanged ==
    ASSUME NEW h, NEW f, NEW M, ViewOf(h, f, M), NEW k, NEW N, ViewOf(k, f, N),
           DOMAIN k = DOMAIN h, \A x, y \in DOMAIN h : f[x] = f[y] => x = y,
           NEW p \in DOMAIN h, \A x \in DOMAIN h : x # p => NodeOf(k[x]) = NodeOf(h[x])
    PROVE  /\ f[p] \in DOMAIN M /\ M[f[p]] = NodeOf(h[p])
           /\ N = [M EXCEPT ![f[p]] = NodeOf(k[p])]
<1> DEFINE D == {f[x] : x \in DOMAIN h}
<1>1. /\ M = [q \in D |-> M[q]] /\ N = [q \in D |-> N[q]]
      /\ \A x \in DOMAIN h : M[f[x]] = NodeOf(h[x]) /\ N[f[x]] = NodeOf(k[x])
  BY DEF ViewOf
<1>2. \A q \in D : N[q] = IF q = f[p] THEN NodeOf(k[p]) ELSE M[q]
  BY <1>1
<1>3. f[p] \in D /\ DOMAIN M = D
  BY <1>1
<1> HIDE DEF D
<1>4. N = [M EXCEPT ![f[p]] = NodeOf(k[p])]
  BY <1>1, <1>2, <1>3
<1> QED
  BY <1>1, <1>3, <1>4

\* N is M without what is in R.
TakesOut(M, R, N) == N = [q \in DOMAIN M \ R |-> M[q]]

\* R are the paths of B.
PathsTo(f, B, R) == \A x \in DOMAIN heap : f[x] \in R <=> x \in B

LEMMA TakenOut ==
    ASSUME NEW f, NEW M, ViewOf(heap, f, M), NEW h, NEW B, CutTo(h, B), NEW N,
           ViewOf(h, [x \in DOMAIN h |-> f[x]], N), NEW R, PathsTo(f, B, R)
    PROVE  TakesOut(M, R, N)
<1>0. PICK g : g = [x \in DOMAIN h |-> f[x]]
  OBVIOUS
<1>1. /\ DOMAIN h = DOMAIN heap \ B
      /\ \A x \in DOMAIN h : NodeOf(h[x]) = NodeOf(heap[x]) /\ g[x] = f[x]
      /\ \A x \in DOMAIN heap : f[x] \in R <=> x \in B
  BY <1>0 DEF CutTo, Stays, PathsTo
<1>2. DOMAIN M = {f[x] : x \in DOMAIN heap}
  BY DEF ViewOf
<1>3. {g[x] : x \in DOMAIN h} = DOMAIN M \ R
  BY <1>1, <1>2
<1>4. /\ N = [q \in DOMAIN M \ R |-> N[q]]
      /\ \A x \in DOMAIN h : N[f[x]] = M[f[x]]
  BY <1>0, <1>1, <1>3 DEF ViewOf
<1>5. \A q \in DOMAIN M \ R : N[q] = M[q]
  BY <1>1, <1>2, <1>4
<1> QED
  BY <1>4, <1>5 DEF TakesOut

\* f are the heap's paths, and every map is the one its heap's paths give.
Mapped(f) ==
    /\ GoodHeap(heap) /\ Named(heap) /\ ArePaths(heap, f) /\ ViewOf(heap, f, PathView)
    /\ GoodHeap(heap') /\ Named(heap')
    /\ \A g : ArePaths(heap', g) => ViewOf(heap', g, PathView')

\* The next heap has paths, and the map has made a step.
MapsNext == (\E g : ArePaths(heap', g)) /\ Paths!PathMapNext

LEMMA AtPath ==
    ASSUME NEW f, Mapped(f), NEW p \in DOMAIN heap
    PROVE  /\ f[p] \in DOMAIN PathView /\ PathView[f[p]] = NodeOf(heap[p])
           /\ PathView[f[p]].kind = heap[p].kind
           /\ IsItemAt(p) => Paths!IsItem(f[p])
<1>1. f[p] \in DOMAIN PathView /\ PathView[f[p]] = NodeOf(heap[p])
  BY DEF Mapped, ViewOf
<1>2. PathView[f[p]].kind = heap[p].kind
  <2>1. NodeOf(heap[p]).kind = heap[p].kind
    BY DEF NodeOf
  <2> QED
    BY <1>1, <2>1
<1> QED
  BY <1>1, <1>2 DEF IsItemAt, Paths!IsItem

\* A call that changes no name and no row, and one node at most.
LEMMA OneNodeMaps ==
    ASSUME NEW f, Mapped(f), NEW p \in DOMAIN heap, DOMAIN heap' = DOMAIN heap,
           \A x \in DOMAIN heap : x # p => NodeOf(heap'[x]) = NodeOf(heap[x]),
           \A x \in DOMAIN heap : x # Root => heap'[x].name = heap[x].name,
           \A x \in DOMAIN heap, t \in Scope : heap'[x].kids[t] = heap[x].kids[t]
    PROVE  /\ ArePaths(heap', f)
           /\ f[p] \in DOMAIN PathView /\ PathView[f[p]] = NodeOf(heap[p])
           /\ PathView' = [PathView EXCEPT ![f[p]] = NodeOf(heap'[p])]
<1>1. \A x \in DOMAIN heap, t \in Scope : Kids(heap', x, t) = Kids(heap, x, t)
  BY DEF Kids
<1>2. ArePaths(heap', f)
  BY <1>1, KeptPaths DEF Mapped
<1>3. ViewOf(heap', f, PathView')
  BY <1>2 DEF Mapped
<1>4. \A x, y \in DOMAIN heap : f[x] = f[y] => x = y
  BY PathsDiffer DEF Mapped
<1>5. ViewOf(heap, f, PathView)
  BY DEF Mapped
<1>6. /\ f[p] \in DOMAIN PathView /\ PathView[f[p]] = NodeOf(heap[p])
      /\ PathView' = [PathView EXCEPT ![f[p]] = NodeOf(heap'[p])]
  BY <1>3, <1>4, <1>5, OneChanged
<1> QED
  BY <1>2, <1>6

LEMMA KeptMaps ==
    ASSUME NEW f, Mapped(f), heap' = heap
    PROVE  MapsNext
<1>1. ArePaths(heap', f)
  BY DEF Mapped
<1>2. ViewOf(heap, f, PathView) /\ ViewOf(heap', f, PathView')
  BY <1>1 DEF Mapped
<1>3. PathView' = PathView
  BY <1>2, SameMaps
<1>4. Paths!PathMapNext
  BY <1>3 DEF Paths!PathMapNext, Paths!Keep
<1> QED
  BY <1>1, <1>4 DEF MapsNext

LEMMA ValuedMaps ==
    ASSUME NEW f, Mapped(f), Valued(heap')
    PROVE  MapsNext
<1>1. PICK p \in DOMAIN heap, v \in Value : IsItemAt(p) /\ heap' = [heap EXCEPT ![p].value = v]
  BY DEF Valued
<1>2. \A x \in DOMAIN heap : heap[x] \in CellType
  BY DEF Mapped, GoodHeap, Typed
<1>3. /\ DOMAIN heap' = DOMAIN heap
      /\ \A x \in DOMAIN heap : x # p => heap'[x] = heap[x]
      /\ heap'[p] = [heap[p] EXCEPT !.value = v]
  BY <1>1
<1>4. /\ heap'[p].name = heap[p].name /\ heap'[p].kids = heap[p].kids
      /\ heap'[p].kind = heap[p].kind /\ heap'[p].saved = heap[p].saved
      /\ heap'[p].value = v
  BY <1>2, <1>3 DEF CellType
<1>5. NodeOf(heap'[p]) = [NodeOf(heap[p]) EXCEPT !.value = v]
  BY <1>4, NodeOfCell
<1>6. /\ \A x \in DOMAIN heap : x # p => NodeOf(heap'[x]) = NodeOf(heap[x])
      /\ \A x \in DOMAIN heap : x # Root => heap'[x].name = heap[x].name
      /\ \A x \in DOMAIN heap, t \in Scope : heap'[x].kids[t] = heap[x].kids[t]
  BY <1>3, <1>4
<1>7. /\ ArePaths(heap', f)
      /\ f[p] \in DOMAIN PathView /\ PathView[f[p]] = NodeOf(heap[p])
      /\ PathView' = [PathView EXCEPT ![f[p]] = NodeOf(heap'[p])]
  BY <1>3, <1>6, OneNodeMaps
<1>8. Paths!Assign(f[p])
  <2>1. PathView' = [PathView EXCEPT ![f[p]] = [PathView[f[p]] EXCEPT !.value = v]]
    BY <1>5, <1>7
  <2>2. PathView' = [PathView EXCEPT ![f[p]].value = v]
    BY <1>7, <2>1
  <2> QED
    BY <1>1, <2>2, AtPath DEF Paths!Assign
<1>9. Paths!PathMapNext
  BY <1>7, <1>8 DEF Paths!PathMapNext
<1> QED
  BY <1>7, <1>9 DEF MapsNext

\* A call that cuts off the nodes in S and whatever hangs under them.
LEMMA CutMaps ==
    ASSUME NEW f, Mapped(f), NEW p \in DOMAIN heap, NEW s \in Scope, NEW S,
           S \subseteq Kids(heap, p, s), NEW q \in Row, Range(q) = Kids(heap, p, s) \ S,
           heap' = Freed([heap EXCEPT ![p].kids[s] = q], Subtree(S)),
           NEW R, \A x \in DOMAIN heap : f[x] \in R <=> \E c \in S : IsPrefix(f[c], f[x])
    PROVE  /\ \E g : ArePaths(heap', g)
           /\ TakesOut(PathView, R, PathView')
<1>1. /\ GoodHeap(heap) /\ GoodHeap(heap') /\ ArePaths(heap, f)
      /\ ViewOf(heap, f, PathView)
  BY DEF Mapped
<1>2. CutTo(heap', Subtree(S))
  BY <1>1, CutShape
<1>3. S \subseteq DOMAIN heap \ {Root}
  BY <1>1 DEF GoodHeap, RowsOK
<1>4. PICK g : g = [x \in DOMAIN heap' |-> f[x]]
  OBVIOUS
<1>5. ArePaths(heap', g)
  BY <1>1, <1>2, <1>3, <1>4, CutPaths
<1>6. ViewOf(heap', g, PathView')
  BY <1>5 DEF Mapped
<1>7. PathsTo(f, Subtree(S), R)
  BY <1>1, <1>3, SubtreeIsBelow DEF PathsTo
<1>8. TakesOut(PathView, R, PathView')
  BY <1>1, <1>2, <1>4, <1>6, <1>7, TakenOut
<1> QED
  BY <1>5, <1>8

LEMMA ChildPath ==
    ASSUME NEW f, Mapped(f), NEW p \in DOMAIN heap, NEW s \in Scope, NEW c \in Kids(heap, p, s)
    PROVE  /\ c \in DOMAIN heap /\ c # Root /\ f[p] \in Trail /\ f[c] \in Trail
           /\ Above(heap, f, c, p, s)
           /\ f[c] # <<>> /\ Front(f[c]) = f[p] /\ Last(f[c]) = StepTo(heap, s, c)
           /\ ~IsPrefix(f[c], f[p])
<1>1. GoodHeap(heap) /\ ArePaths(heap, f)
  BY DEF Mapped
<1>2. c \in DOMAIN heap /\ c # Root
  BY <1>1 DEF GoodHeap, RowsOK
<1>3. f[p] \in Trail /\ f[c] \in Trail /\ f[c] = Append(f[p], StepTo(heap, s, c))
  BY <1>1, <1>2 DEF ArePaths
<1>4. StepTo(heap, s, c) \in PStep
  BY <1>1, <1>2, StepToFacts
<1>5. Len(f[p]) \in Nat /\ Len(f[c]) = Len(f[p]) + 1
  BY <1>3, <1>4, AppendToTrail
<1>6. f[c] # <<>> /\ Front(f[c]) = f[p] /\ Last(f[c]) = StepTo(heap, s, c)
  BY <1>3, <1>4, FrontLast
<1>7. ~IsPrefix(f[c], f[p])
  BY <1>5 DEF IsPrefix
<1> QED
  BY <1>2, <1>3, <1>4, <1>5, <1>6, <1>7 DEF Above

LEMMA PrunedMaps ==
    ASSUME NEW f, Mapped(f), Pruned(heap')
    PROVE  MapsNext
<1>1. PICK p \in DOMAIN heap, s \in Scope : \E c \in Kids(heap, p, s) :
        heap' = Freed([heap EXCEPT ![p].kids[s] = RemoveFirst(@, c)], Subtree({c}))
  BY DEF Pruned
<1>2. PICK c \in Kids(heap, p, s) :
        heap' = Freed([heap EXCEPT ![p].kids[s] = RemoveFirst(@, c)], Subtree({c}))
  BY <1>1
<1>3. PICK q \in Row : /\ q = RemoveFirst(heap[p].kids[s], c)
                       /\ Range(q) = Kids(heap, p, s) \ {c}
  <2>1. heap[p].kids[s] \in Row
    BY DEF Mapped, GoodHeap, RowsOK
  <2> QED
    BY <2>1, RemoveFirstFacts DEF Kids
<1>4. [heap EXCEPT ![p].kids[s] = RemoveFirst(@, c)] = [heap EXCEPT ![p].kids[s] = q]
  BY <1>3
<1>5. heap' = Freed([heap EXCEPT ![p].kids[s] = q], Subtree({c}))
  BY <1>2, <1>4
<1>6. /\ c \in DOMAIN heap /\ f[c] # <<>>
  BY ChildPath
<1> DEFINE R == {y \in DOMAIN PathView : IsPrefix(f[c], y)}
<1>7. \A x \in DOMAIN heap : f[x] \in R <=> \E e \in {c} : IsPrefix(f[e], f[x])
  BY AtPath
<1> HIDE DEF R
<1>8. /\ \E g : ArePaths(heap', g)
      /\ TakesOut(PathView, R, PathView')
  <2>1. {c} \subseteq Kids(heap, p, s)
    OBVIOUS
  <2> QED
    BY <1>3, <1>5, <1>7, <2>1, CutMaps
<1>9. Paths!Prune(f[c])
  BY <1>6, <1>8, PathsOfMap DEF Paths!Prune, Paths!Without, Paths!Below, TakesOut, R
<1>10. Paths!PathMapNext
  BY <1>6, <1>9, AtPath DEF Paths!PathMapNext
<1> QED
  BY <1>8, <1>10 DEF MapsNext

\* What lies below p through its row s is what lies below a child in that row.
LEMMA BelowThrough ==
    ASSUME NEW f, Mapped(f), NEW p \in DOMAIN heap, NEW s \in Scope
    PROVE  \A q \in DOMAIN heap :
             (\E c \in Kids(heap, p, s) : IsPrefix(f[c], f[q]))
             <=> /\ IsPrefix(f[p], f[q]) /\ Len(f[q]) > Len(f[p])
                 /\ f[q][Len(f[p]) + 1].scope = s
<1>1. GoodHeap(heap) /\ ArePaths(heap, f)
  BY DEF Mapped
<1>2. \A q \in DOMAIN heap : f[q] \in Trail /\ Len(f[q]) \in Nat
  BY <1>1, LenProperties DEF ArePaths, Trail
<1>3. PICK n \in Nat : n = Len(f[p])
  BY <1>2
<1> DEFINE Via(q) == \E c \in Kids(heap, p, s) : IsPrefix(f[c], f[q])
           Under(q) == IsPrefix(f[p], f[q]) /\ Len(f[q]) > n /\ f[q][n + 1].scope = s
<1>4. ASSUME NEW q \in DOMAIN heap, Via(q) PROVE Under(q)
  <2>1. PICK c \in Kids(heap, p, s) : IsPrefix(f[c], f[q])
    BY <1>4
  <2>2. Above(heap, f, c, p, s) /\ c \in DOMAIN heap
    BY ChildPath
  <2>3. /\ Len(f[c]) = n + 1 /\ f[c][n + 1] = StepTo(heap, s, c)
        /\ \A i \in 1..n : f[c][i] = f[p][i]
    BY <1>3, <2>2, AppendToTrail DEF Above
  <2>4. n + 1 <= Len(f[q]) /\ \A i \in 1 .. n + 1 : f[q][i] = f[c][i]
    BY <1>2, <2>1, <2>2, <2>3, PrefixFacts
  <2>5. IsPrefix(f[p], f[q])
    <3>1. n <= Len(f[q]) /\ \A i \in 1..n : f[q][i] = f[p][i]
      BY <1>2, <2>3, <2>4
    <3> QED
      BY <1>2, <1>3, <3>1, PrefixFacts
  <2>6. f[q][n + 1].scope = s
    <3>1. f[q][n + 1] = StepTo(heap, s, c)
      BY <2>3, <2>4
    <3> QED
      BY <1>1, <2>2, <3>1, StepToFacts
  <2> QED
    BY <1>2, <2>4, <2>5, <2>6
<1> DEFINE Bad == {m \in Nat : \E q \in DOMAIN heap : Under(q) /\ ~Via(q) /\ Len(f[q]) = m}
<1>5. Bad = {}
  <2> SUFFICES ASSUME Bad # {} PROVE FALSE
    OBVIOUS
  <2>1. PICK m \in Bad : \A k \in Bad : m <= k
    <3>1. Bad \subseteq Nat
      OBVIOUS
    <3> QED
      BY <3>1, LeastExists
  <2>2. PICK q \in DOMAIN heap : Under(q) /\ ~Via(q) /\ Len(f[q]) = m
    OBVIOUS
  <2>3. q # Root
    BY <1>1, <1>2, <2>2, RootIsAbove
  <2>4. PICK a, t : Above(heap, f, q, a, t)
    BY <1>1, <2>3, HangsAbove
  <2>5. /\ a \in DOMAIN heap /\ t \in Scope /\ q \in Kids(heap, a, t)
        /\ StepTo(heap, t, q) \in PStep
        /\ f[q] = Append(f[a], StepTo(heap, t, q))
        /\ Len(f[a]) \in Nat /\ m = Len(f[a]) + 1
    BY <2>2, <2>4 DEF Above
  <2>6. /\ \A i \in 1..Len(f[a]) : f[q][i] = f[a][i]
        /\ f[q][Len(f[a]) + 1] = StepTo(heap, t, q)
    <3>1. f[a] \in Trail
      BY <1>2, <2>5
    <3>2. PICK y \in PStep : y = StepTo(heap, t, q)
      BY <2>5
    <3>3. f[q] = Append(f[a], y)
      BY <2>5, <3>2
    <3> QED
      BY <3>1, <3>2, <3>3, AppendToTrail
  <2>7. IsPrefix(f[p], f[a])
    <3>1. f[p] # f[q]
      <4>1. Len(f[q]) > n
        BY <2>2
      <4> QED
        BY <4>1, <1>2, <1>3
    <3>2. f[p] \in Trail /\ f[a] \in Trail
      BY <1>2, <2>5
    <3>3. IsPrefix(f[p], Append(f[a], StepTo(heap, t, q)))
      BY <2>2, <2>5
    <3> QED
      BY <2>5, <3>1, <3>2, <3>3, PrefixOfAppend
  <2>8. CASE Len(f[a]) = n
    <3>1. f[a] = f[p]
      <4>1. \A i \in 1..n : f[p][i] = f[a][i]
        BY <1>2, <1>3, <2>5, <2>7, PrefixFacts
      <4> QED
        BY <1>2, <1>3, <2>5, <2>8, <4>1, SeqEqual DEF Trail
    <3>2. a = p
      BY <1>1, <2>5, <3>1, PathsDiffer
    <3>3. t = s
      <4>1. StepTo(heap, t, q).scope = t
        BY <1>1, <2>5, StepToFacts
      <4> QED
        BY <2>2, <2>6, <2>8, <4>1
    <3>4. q \in Kids(heap, p, s) /\ IsPrefix(f[q], f[q])
      BY <1>2, <2>5, <3>2, <3>3, PrefixItself
    <3> QED
      BY <2>2, <3>4
  <2>9. CASE Len(f[a]) # n
    <3>1. Len(f[a]) > n
      BY <1>2, <1>3, <2>5, <2>7, <2>9, PrefixFacts
    <3>2. f[a][n + 1].scope = s
      <4>1. n + 1 \in 1..Len(f[a])
        BY <2>5, <3>1
      <4> QED
        BY <2>2, <2>6, <4>1
    <3>3. Under(a)
      BY <2>7, <3>1, <3>2
    <3>4. Via(a)
      <4>1. ~(m <= Len(f[a]))
        BY <2>5
      <4>2. Len(f[a]) \notin Bad
        BY <2>1, <4>1
      <4> QED
        BY <2>5, <3>3, <4>2
    <3>5. PICK c \in Kids(heap, p, s) : IsPrefix(f[c], f[a])
      BY <3>4
    <3>6. f[c] \in Trail
      BY ChildPath
    <3>7. IsPrefix(f[c], f[q])
      BY <1>2, <2>5, <3>5, <3>6, PrefixOfAppend
    <3> QED
      BY <2>2, <3>7
  <2> QED
    BY <2>8, <2>9
<1>6. \A q \in DOMAIN heap : Under(q) => Via(q)
  BY <1>2, <1>5
<1> QED
  BY <1>3, <1>4, <1>6

LEMMA EmptiedMaps ==
    ASSUME NEW f, Mapped(f), Emptied(heap')
    PROVE  MapsNext
<1>1. PICK p \in DOMAIN heap, s \in Scope :
        /\ IsItemAt(p)
        /\ heap' = Freed([heap EXCEPT ![p].kids[s] = <<>>], Subtree(Kids(heap, p, s)))
  BY DEF Emptied
<1>2. PICK q \in Row : q = <<>> /\ Range(q) = {}
  BY EmptyRowFacts
<1>3. PICK S : S = Kids(heap, p, s)
  OBVIOUS
<1> DEFINE R == {y \in DOMAIN PathView :
                   /\ IsPrefix(f[p], y) /\ Len(y) > Len(f[p])
                   /\ y[Len(f[p]) + 1].scope = s}
<1>4. \A x \in DOMAIN heap : f[x] \in R <=> \E c \in S : IsPrefix(f[c], f[x])
  BY <1>3, AtPath, BelowThrough
<1>5. R = {y \in Paths!Below(f[p]) : Len(y) > Len(f[p]) /\ y[Len(f[p]) + 1].scope = s}
  BY PathsOfMap DEF Paths!Below
<1> HIDE DEF R
<1>6. /\ \E g : ArePaths(heap', g)
      /\ TakesOut(PathView, R, PathView')
  <2>1. S \subseteq Kids(heap, p, s) /\ Range(q) = Kids(heap, p, s) \ S
    BY <1>2, <1>3
  <2>2. heap' = Freed([heap EXCEPT ![p].kids[s] = q], Subtree(S))
    BY <1>1, <1>2, <1>3
  <2> QED
    BY <1>4, <2>1, <2>2, CutMaps
<1>7. Paths!Empty(f[p], s)
  BY <1>1, <1>5, <1>6, AtPath DEF Paths!Empty, Paths!Without, TakesOut
<1>8. Paths!PathMapNext
  BY <1>7, AtPath DEF Paths!PathMapNext
<1> QED
  BY <1>6, <1>8 DEF MapsNext

\* N is M and one node more, at d.
Adds(M, d, node, N) ==
    /\ d \in DOMAIN N
    /\ N = [q \in DOMAIN M \cup {d} |-> IF q = d THEN node ELSE M[q]]

LEMMA OneAdded ==
    ASSUME NEW f, NEW M, ViewOf(heap, f, M), NEW new, NEW p, NEW s, NEW cell, NEW h,
           GrownBy(h, new, p, s, cell), NEW d, d \notin DOMAIN M, NEW N,
           ViewOf(h, GrownTo(f, new, d), N)
    PROVE  Adds(M, d, NodeOf(cell), N)
<1>1. PICK g : g = GrownTo(f, new, d)
  OBVIOUS
<1>2. /\ DOMAIN h = DOMAIN heap \cup {new} /\ new \notin DOMAIN heap /\ h[new] = cell
      /\ \A x \in DOMAIN heap : NodeOf(h[x]) = NodeOf(heap[x])
  BY DEF GrownBy, Stays
<1>3. g[new] = d /\ \A x \in DOMAIN heap : g[x] = f[x]
  BY <1>1, <1>2 DEF GrownTo
<1>4. DOMAIN M = {f[x] : x \in DOMAIN heap} /\ \A x \in DOMAIN heap : M[f[x]] = NodeOf(heap[x])
  BY DEF ViewOf
<1>5. ViewOf(h, g, N)
  BY <1>1
<1>6. {g[x] : x \in DOMAIN h} = DOMAIN M \cup {d}
  <2>1. ASSUME NEW x \in DOMAIN h PROVE g[x] \in DOMAIN M \cup {d}
    BY <1>2, <1>3, <1>4
  <2>2. ASSUME NEW q \in DOMAIN M PROVE \E x \in DOMAIN h : q = g[x]
    <3>1. PICK x \in DOMAIN heap : q = f[x]
      BY <1>4
    <3> QED
      BY <1>2, <1>3, <3>1
  <2>3. \E x \in DOMAIN h : d = g[x]
    BY <1>2, <1>3
  <2> QED
    BY <2>1, <2>2, <2>3
<1> DEFINE D == DOMAIN M \cup {d}
<1>7. /\ N = [q \in D |-> N[q]]
      /\ \A x \in DOMAIN h : N[g[x]] = NodeOf(h[x])
  BY <1>5, <1>6 DEF ViewOf
<1>8. ASSUME NEW q \in D PROVE N[q] = IF q = d THEN NodeOf(cell) ELSE M[q]
  <2>1. CASE q = d
    <3>1. N[g[new]] = NodeOf(cell)
      BY <1>2, <1>7
    <3> QED
      BY <2>1, <3>1, <1>3
  <2>2. CASE q # d
    <3>1. PICK x \in DOMAIN heap : q = f[x]
      BY <2>2, <1>4
    <3>2. N[g[x]] = NodeOf(heap[x])
      BY <1>2, <1>7
    <3> QED
      BY <2>2, <3>1, <3>2, <1>3, <1>4
  <2> QED
    BY <2>1, <2>2
<1>9. d \in D
  OBVIOUS
<1> HIDE DEF D
<1>10. d \in DOMAIN N
  BY <1>7, <1>9
<1>11. N = [q \in D |-> IF q = d THEN NodeOf(cell) ELSE M[q]]
  BY <1>7, <1>8
<1> QED
  BY <1>10, <1>11 DEF Adds, D

LEMMA GrownMaps ==
    ASSUME NEW f, Mapped(f), Grown(heap')
    PROVE  MapsNext
<1>1. PICK p \in DOMAIN heap, s \in Scope, n \in Name, k \in Kind, v \in Value :
        IsItemAt(p) /\ heap' \in Attached(p, s, Cell(n, k, v))
  BY DEF Grown
<1>2. /\ GoodHeap(heap) /\ GoodHeap(heap') /\ ArePaths(heap, f)
      /\ ViewOf(heap, f, PathView)
  BY DEF Mapped
<1>3. PICK cell : cell = Cell(n, k, v)
  OBVIOUS
<1>4. PICK new : GrownBy(heap', new, p, s, cell)
  BY <1>1, <1>2, <1>3, GrownShape
<1>5. PICK d : d = Append(f[p], StepTo(heap', s, new))
  OBVIOUS
<1>6. PICK g : g = GrownTo(f, new, d)
  OBVIOUS
<1>7. ArePaths(heap', g)
  BY <1>2, <1>4, <1>5, <1>6, GrownPaths
<1>8. ViewOf(heap', g, PathView')
  BY <1>7 DEF Mapped
<1>9. DOMAIN heap' = DOMAIN heap \cup {new} /\ new \notin DOMAIN heap
  BY <1>4 DEF GrownBy
<1>10. d \notin DOMAIN PathView
  <2> SUFFICES ASSUME NEW x \in DOMAIN heap, f[x] = d PROVE FALSE
    BY <1>2 DEF ViewOf
  <2>1. g[x] = g[new] /\ x # new
    BY <1>6, <1>9 DEF GrownTo
  <2> QED
    BY <1>2, <1>7, <1>9, <2>1, PathsDiffer
<1>11. Adds(PathView, d, NodeOf(cell), PathView')
  BY <1>2, <1>4, <1>6, <1>8, <1>10, OneAdded
<1>12. d # <<>> /\ Front(d) = f[p]
  <2>1. f[p] \in Trail
    BY <1>2 DEF ArePaths
  <2>2. StepTo(heap', s, new) \in PStep
    BY <1>2, <1>9, StepToFacts
  <2> QED
    BY <1>5, <2>1, <2>2, FrontLast
<1>13. NodeOf(cell) = [kind |-> k, value |-> v, saved |-> <<>>]
  <2>1. cell.kind = k /\ cell.value = v /\ cell.saved = <<>>
    BY <1>3 DEF Cell
  <2> QED
    BY <2>1, NodeOfCell, SavedOfNone
<1>14. Paths!Create(d)
  <2>1. Paths!IsItem(Paths!Front(d))
    BY <1>1, <1>12, AtPath, PathsOfMap
  <2>2. k \in {"item"} \cup Container
    BY DEF Kind
  <2>3. PathView' = [q \in DOMAIN PathView \cup {d} |->
                       IF q = d THEN [kind |-> k, value |-> v, saved |-> <<>>] ELSE PathView[q]]
    BY <1>11, <1>13 DEF Adds
  <2> QED
    BY <1>10, <1>12, <2>1, <2>2, <2>3 DEF Paths!Create
<1>15. Paths!PathMapNext
  BY <1>11, <1>14 DEF Adds, Paths!PathMapNext
<1> QED
  BY <1>7, <1>15 DEF MapsNext

\* A node that differs in what it has saved.
LEMMA SavedDiffers ==
    ASSUME NEW a, NEW b, b.kind = a.kind, b.value = a.value
    PROVE  /\ NodeOf(a).saved = SavedOf(a.saved)
           /\ NodeOf(b) = [NodeOf(a) EXCEPT !.saved = SavedOf(b.saved)]
<1>1. PICK n, m : n = SavedOf(a.saved) /\ m = SavedOf(b.saved)
  OBVIOUS
<1>2. /\ NodeOf(a) = [kind |-> a.kind, value |-> a.value, saved |-> n]
      /\ NodeOf(b) = [kind |-> a.kind, value |-> a.value, saved |-> m]
  BY <1>1, NodeOfCell
<1> QED
  BY <1>1, <1>2

LEMMA PushedMaps ==
    ASSUME NEW f, Mapped(f), Pushed(heap')
    PROVE  MapsNext
<1>1. PICK p \in DOMAIN heap :
        /\ IsItemAt(p)
        /\ heap' = [heap EXCEPT ![p].saved =
                      <<[name |-> heap[p].name, value |-> heap[p].value]>> \o @]
  BY DEF Pushed
<1>2. PICK x : x = [name |-> heap[p].name, value |-> heap[p].value]
  OBVIOUS
<1>3. PICK q : q = <<x>> \o heap[p].saved
  OBVIOUS
<1>4. /\ DOMAIN heap' = DOMAIN heap
      /\ \A y \in DOMAIN heap : y # p => heap'[y] = heap[y]
      /\ heap'[p] = [heap[p] EXCEPT !.saved = q]
  BY <1>1, <1>2, <1>3
<1>5. heap[p] \in CellType
  BY DEF Mapped, GoodHeap, Typed
<1>6. /\ heap'[p].name = heap[p].name /\ heap'[p].kids = heap[p].kids
      /\ heap'[p].kind = heap[p].kind /\ heap'[p].value = heap[p].value
      /\ heap'[p].saved = q
  BY <1>4, <1>5 DEF CellType
<1>7. PICK pair : pair = [key |-> heap[p].name.key, value |-> heap[p].value]
  OBVIOUS
<1>8. SavedOf(q) = <<pair>> \o SavedOf(heap[p].saved)
  <2>1. x \in Saved /\ heap[p].saved \in Seq(Saved)
    BY <1>2, <1>5 DEF CellType, Saved
  <2>2. PairOf(x) = pair
    BY <1>2, <1>7 DEF PairOf
  <2> QED
    BY <1>3, <2>1, <2>2, SavedOfPushed
<1>9. NodeOf(heap'[p]) = [NodeOf(heap[p]) EXCEPT !.saved = <<pair>> \o NodeOf(heap[p]).saved]
  <2>1. /\ NodeOf(heap[p]).saved = SavedOf(heap[p].saved)
        /\ NodeOf(heap'[p]) = [NodeOf(heap[p]) EXCEPT !.saved = SavedOf(q)]
    BY <1>6, SavedDiffers
  <2> QED
    BY <1>8, <2>1
<1>10. /\ \A y \in DOMAIN heap : y # p => NodeOf(heap'[y]) = NodeOf(heap[y])
       /\ \A y \in DOMAIN heap : y # Root => heap'[y].name = heap[y].name
       /\ \A y \in DOMAIN heap, t \in Scope : heap'[y].kids[t] = heap[y].kids[t]
  BY <1>4, <1>6
<1>11. /\ ArePaths(heap', f)
       /\ f[p] \in DOMAIN PathView /\ PathView[f[p]] = NodeOf(heap[p])
       /\ PathView' = [PathView EXCEPT ![f[p]] = NodeOf(heap'[p])]
  BY <1>4, <1>10, OneNodeMaps
<1>12. pair = [key   |-> IF f[p] = <<>> THEN "" ELSE Last(f[p]).key,
               value |-> PathView[f[p]].value]
  <2>1. PathView[f[p]].value = heap[p].value
    BY <1>11, NodeOfCell
  <2>2. heap[p].name.key = IF f[p] = <<>> THEN "" ELSE Last(f[p]).key
    <3>1. CASE p = Root
      <4>1. heap[p].name = NoName
        BY <3>1 DEF Mapped, Named, NamedCell, NamesOf
      <4>2. f[p] = <<>>
        BY <3>1 DEF Mapped, ArePaths
      <4>3. NoName.key = ""
        BY DEF NoName
      <4> QED
        BY <4>1, <4>2, <4>3
    <3>2. CASE p # Root
      <4>1. PICK a, s : Above(heap, f, p, a, s)
        BY <3>2, HangsAbove DEF Mapped
      <4>2. f[p] # <<>> /\ Last(f[p]) = StepTo(heap, s, p)
        <5>1. a \in DOMAIN heap /\ s \in Scope /\ p \in Kids(heap, a, s)
          BY <4>1 DEF Above
        <5> QED
          BY <5>1, ChildPath
      <4> QED
        BY <4>2 DEF StepTo
    <3> QED
      BY <3>1, <3>2
  <2> QED
    BY <1>7, <2>1, <2>2
<1>13. Paths!PushPair(f[p])
  <2>1. PathView' = [PathView EXCEPT ![f[p]].saved = <<pair>> \o @]
    BY <1>9, <1>11
  <2>2. Paths!IsItem(f[p])
    BY <1>1, AtPath
  <2> QED
    BY <1>12, <2>1, <2>2, PathsOfMap DEF Paths!PushPair
<1>14. Paths!PathMapNext
  BY <1>11, <1>13 DEF Paths!PathMapNext
<1> QED
  BY <1>11, <1>14 DEF MapsNext

LEMMA DroppedMaps ==
    ASSUME NEW f, Mapped(f), Dropped(heap')
    PROVE  MapsNext
<1>1. PICK p \in DOMAIN heap :
        /\ IsItemAt(p)
        /\ heap[p].saved # <<>>
        /\ heap' = [heap EXCEPT ![p].saved = Tail(@)]
  BY DEF Dropped
<1>2. PICK q : q = Tail(heap[p].saved)
  OBVIOUS
<1>3. /\ DOMAIN heap' = DOMAIN heap
      /\ \A y \in DOMAIN heap : y # p => heap'[y] = heap[y]
      /\ heap'[p] = [heap[p] EXCEPT !.saved = q]
  BY <1>1, <1>2
<1>4. heap[p] \in CellType
  BY DEF Mapped, GoodHeap, Typed
<1>5. /\ heap'[p].name = heap[p].name /\ heap'[p].kids = heap[p].kids
      /\ heap'[p].kind = heap[p].kind /\ heap'[p].value = heap[p].value
      /\ heap'[p].saved = q
  BY <1>3, <1>4 DEF CellType
<1>6. SavedOf(heap[p].saved) # <<>> /\ SavedOf(q) = Tail(SavedOf(heap[p].saved))
  BY <1>1, <1>2, <1>4, SavedOfPopped DEF CellType
<1>7. NodeOf(heap'[p]) = [NodeOf(heap[p]) EXCEPT !.saved = Tail(NodeOf(heap[p]).saved)]
  BY <1>5, <1>6, SavedDiffers
<1>8. /\ \A y \in DOMAIN heap : y # p => NodeOf(heap'[y]) = NodeOf(heap[y])
      /\ \A y \in DOMAIN heap : y # Root => heap'[y].name = heap[y].name
      /\ \A y \in DOMAIN heap, t \in Scope : heap'[y].kids[t] = heap[y].kids[t]
  BY <1>3, <1>5
<1>9. /\ ArePaths(heap', f)
      /\ f[p] \in DOMAIN PathView /\ PathView[f[p]] = NodeOf(heap[p])
      /\ PathView' = [PathView EXCEPT ![f[p]] = NodeOf(heap'[p])]
  BY <1>3, <1>8, OneNodeMaps
<1>10. Paths!DropPair(f[p])
  <2>1. PathView' = [PathView EXCEPT ![f[p]].saved = Tail(@)]
    BY <1>7, <1>9
  <2>2. Paths!IsItem(f[p])
    BY <1>1, AtPath
  <2>3. PathView[f[p]].saved # <<>>
    BY <1>6, <1>9, NodeOfCell
  <2> QED
    BY <2>1, <2>2, <2>3 DEF Paths!DropPair
<1>11. Paths!PathMapNext
  BY <1>9, <1>10 DEF Paths!PathMapNext
<1> QED
  BY <1>9, <1>11 DEF MapsNext

\* The heap of a new store has one path, the root's.
LEMMA FreshPaths ==
    ASSUME NEW h, Fresh(h), GoodHeap(h)
    PROVE  ArePaths(h, [x \in {Root} |-> <<>>])
<1>1. DOMAIN h = {Root} /\ h[Root] = EmptyRoot
  BY DEF Fresh
<1>2. <<>> \in Trail
  BY EmptySeq DEF Trail
<1>3. \A s \in Scope : Kids(h, Root, s) = {}
  BY <1>1 DEF GoodHeap, RowsOK
<1> QED
  BY <1>1, <1>2, <1>3 DEF ArePaths

LEMMA FreshMap ==
    ASSUME NEW h, Fresh(h), NEW M, ViewOf(h, [x \in {Root} |-> <<>>], M)
    PROVE  \E v \in Value :
             M = [p \in {<<>>} |-> [kind |-> "item", value |-> v, saved |-> <<>>]]
<1>1. DOMAIN h = {Root} /\ h[Root] = EmptyRoot
  BY DEF Fresh
<1>2. PICK v \in Value : v = Zero(CHOOSE t \in Type : TRUE)
  BY TreeAssumption DEF Value, Zero
<1>3. NodeOf(EmptyRoot) = [kind |-> "item", value |-> v, saved |-> <<>>]
  <2>1. PICK cell : cell = EmptyRoot
    OBVIOUS
  <2>2. cell.kind = "item" /\ cell.value = v /\ cell.saved = <<>>
    <3>1. EmptyRoot = Cell(NoName, "item", v)
      BY <1>2 DEF EmptyRoot
    <3> QED
      BY <2>1, <3>1 DEF Cell
  <2>3. NodeOf(cell) = [kind |-> "item", value |-> v, saved |-> <<>>]
    BY <2>2, NodeOfCell, SavedOfNone
  <2> QED
    BY <2>1, <2>3
<1>4. PICK g : g = [x \in {Root} |-> <<>>]
  OBVIOUS
<1>5. g[Root] = <<>> /\ {g[x] : x \in DOMAIN h} = {<<>>}
  BY <1>1, <1>4
<1>6. /\ M = [q \in {<<>>} |-> M[q]]
      /\ M[<<>>] = NodeOf(EmptyRoot)
  BY <1>1, <1>4, <1>5 DEF ViewOf
<1> QED
  BY <1>3, <1>6

LEMMA FreshMaps ==
    ASSUME NEW f, Mapped(f), Fresh(heap')
    PROVE  MapsNext
<1>1. ArePaths(heap', [x \in {Root} |-> <<>>])
  BY FreshPaths DEF Mapped
<1>2. ViewOf(heap', [x \in {Root} |-> <<>>], PathView')
  BY <1>1 DEF Mapped
<1>3. (\E v \in Value :
         PathView = [p \in {<<>>} |-> [kind |-> "item", value |-> v, saved |-> <<>>]])'
  BY <1>2, FreshMap
<1>4. Paths!PathMapNext
  BY <1>3 DEF Paths!PathMapNext, Paths!PathMapInit
<1> QED
  BY <1>1, <1>4 DEF MapsNext

-----------------------------------------------------------------------------
(* The map when a subtree answers to another path.                          *)
LEMMA RebaseSame ==
    ASSUME NEW p \in Trail, NEW q \in Trail, IsPrefix(p, q)
    PROVE  Rebase(p, p, q) = q
<1>1. PICK m \in Nat, n \in Nat : m = Len(p) /\ n = Len(q)
  BY LenProperties DEF Trail
<1>2. m <= n /\ \A i \in 1..m : p[i] = q[i]
  BY <1>1, PrefixFacts
<1>3. PICK r : r = Rebase(p, p, q)
  OBVIOUS
<1>4. IsRebased(p, p, q, r)
  BY <1>3, RebaseAt
<1>5. /\ r \in Trail /\ Len(r) = n
      /\ \A i \in 1..m : r[i] = p[i]
      /\ \A i \in 1 .. n - m : r[m + i] = q[m + i]
  <2>1. /\ r \in Trail /\ Len(r) = Len(p) + (Len(q) - Len(p))
        /\ \A i \in 1..Len(p) : r[i] = p[i]
        /\ \A i \in 1 .. Len(q) - Len(p) : r[Len(p) + i] = q[Len(p) + i]
    BY <1>4 DEF IsRebased
  <2> QED
    BY <1>1, <2>1
<1>6. ASSUME NEW i \in 1..n PROVE r[i] = q[i]
  <2>1. CASE i <= m
    BY <2>1, <1>2, <1>5
  <2>2. CASE i > m
    <3>1. i - m \in 1 .. n - m /\ m + (i - m) = i
      BY <2>2
    <3>2. r[m + (i - m)] = q[m + (i - m)]
      BY <3>1, <1>5
    <3> QED
      BY <3>1, <3>2
  <2> QED
    BY <2>1, <2>2
<1> QED
  BY <1>1, <1>3, <1>5, <1>6, SeqEqual DEF Trail

\* PathMap's Rebased, of any map.
BelowIn(M, p) == {q \in DOMAIN M : IsPrefix(p, q)}

MovedIn(M, p, d) == {Rebase(p, d, q) : q \in BelowIn(M, p)}

RebasedMap(M, p, d) ==
    [q \in (DOMAIN M \ BelowIn(M, p)) \cup MovedIn(M, p, d) |->
        IF q \in MovedIn(M, p, d) THEN M[Rebase(d, p, q)] ELSE M[q]]

LEMMA RebasedAgrees == \A p, d : Paths!Rebased(p, d) = RebasedMap(PathView, p, d)
<1> SUFFICES ASSUME NEW p, NEW d PROVE Paths!Rebased(p, d) = RebasedMap(PathView, p, d)
  OBVIOUS
<1>1. Paths!Below(p) = BelowIn(PathView, p)
  BY PathsOfMap DEF Paths!Below, BelowIn
<1>2. {d \o SubSeq(q, Len(p) + 1, Len(q)) : q \in Paths!Below(p)} = MovedIn(PathView, p, d)
  BY <1>1 DEF MovedIn, Rebase
<1>3. PICK moved, below : moved = MovedIn(PathView, p, d) /\ below = BelowIn(PathView, p)
  OBVIOUS
<1>4. Paths!Rebased(p, d) =
        [q \in (DOMAIN PathView \ below) \cup moved |->
            IF q \in moved THEN PathView[p \o SubSeq(q, Len(d) + 1, Len(q))] ELSE PathView[q]]
  BY <1>1, <1>2, <1>3 DEF Paths!Rebased
<1> QED
  BY <1>3, <1>4 DEF RebasedMap, Rebase

\* f, from c on, hung at d.
Rehangs(f, c, d) ==
    /\ f \in [DOMAIN heap -> Trail] /\ c \in DOMAIN heap /\ d \in Trail
    /\ \A x, y \in DOMAIN heap : RebasedPaths(f, c, d)[x] = RebasedPaths(f, c, d)[y] => x = y

LEMMA RebasedView ==
    ASSUME NEW f, NEW c, NEW d, Rehangs(f, c, d), NEW M, ViewOf(heap, f, M)
    PROVE  ViewOf(heap, RebasedPaths(f, c, d), RebasedMap(M, f[c], d))
<1>1. PICK g, R : g = RebasedPaths(f, c, d) /\ R = RebasedMap(M, f[c], d)
  OBVIOUS
<1>2. PICK B, T : B = BelowIn(M, f[c]) /\ T = MovedIn(M, f[c], d)
  OBVIOUS
<1>3. /\ \A x \in DOMAIN heap : f[x] \in Trail
      /\ c \in DOMAIN heap /\ d \in Trail
      /\ \A x, y \in DOMAIN heap : g[x] = g[y] => x = y
  BY <1>1 DEF Rehangs
<1>4. DOMAIN M = {f[x] : x \in DOMAIN heap} /\ \A x \in DOMAIN heap : M[f[x]] = NodeOf(heap[x])
  BY DEF ViewOf
<1>5. \A x \in DOMAIN heap : g[x] = IF IsPrefix(f[c], f[x]) THEN Rebase(f[c], d, f[x]) ELSE f[x]
  BY <1>1 DEF RebasedPaths
<1>6. \A x \in DOMAIN heap : IsPrefix(f[c], f[x]) => Rebase(d, f[c], Rebase(f[c], d, f[x])) = f[x]
  BY <1>3, RebaseFacts
<1>7. \A x \in DOMAIN heap : f[x] \in B <=> IsPrefix(f[c], f[x])
  BY <1>2, <1>4 DEF BelowIn
<1>8. \A q : q \in T <=> \E x \in DOMAIN heap : IsPrefix(f[c], f[x]) /\ q = Rebase(f[c], d, f[x])
  BY <1>2, <1>4 DEF MovedIn, BelowIn
<1>9. \A x \in DOMAIN heap : g[x] \in T <=> IsPrefix(f[c], f[x])
  <2> SUFFICES ASSUME NEW x \in DOMAIN heap PROVE g[x] \in T <=> IsPrefix(f[c], f[x])
    OBVIOUS
  <2>1. IsPrefix(f[c], f[x]) => g[x] \in T
    BY <1>5, <1>8
  <2>2. ASSUME g[x] \in T PROVE IsPrefix(f[c], f[x])
    <3>1. PICK y \in DOMAIN heap : IsPrefix(f[c], f[y]) /\ g[x] = Rebase(f[c], d, f[y])
      BY <1>8, <2>2
    <3>2. g[x] = g[y]
      BY <1>5, <3>1
    <3> QED
      BY <1>3, <3>1, <3>2
  <2> QED
    BY <2>1, <2>2
<1>10. R = [q \in (DOMAIN M \ B) \cup T |-> IF q \in T THEN M[Rebase(d, f[c], q)] ELSE M[q]]
  BY <1>1, <1>2 DEF RebasedMap
<1>11. {g[x] : x \in DOMAIN heap} = (DOMAIN M \ B) \cup T
  <2>1. ASSUME NEW x \in DOMAIN heap PROVE g[x] \in (DOMAIN M \ B) \cup T
    BY <1>4, <1>5, <1>7, <1>9
  <2>2. ASSUME NEW q \in T PROVE \E x \in DOMAIN heap : q = g[x]
    BY <1>5, <1>8
  <2>3. ASSUME NEW q \in DOMAIN M \ B PROVE \E x \in DOMAIN heap : q = g[x]
    <3>1. PICK x \in DOMAIN heap : q = f[x]
      BY <1>4
    <3> QED
      BY <1>5, <1>7, <3>1
  <2> QED
    BY <2>1, <2>2, <2>3
<1>12. ASSUME NEW x \in DOMAIN heap PROVE R[g[x]] = NodeOf(heap[x])
  <2>1. g[x] \in (DOMAIN M \ B) \cup T
    BY <1>11
  <2>2. R[g[x]] = IF g[x] \in T THEN M[Rebase(d, f[c], g[x])] ELSE M[g[x]]
    BY <1>10, <2>1
  <2>3. CASE IsPrefix(f[c], f[x])
    BY <2>2, <2>3, <1>4, <1>5, <1>6, <1>9
  <2>4. CASE ~IsPrefix(f[c], f[x])
    BY <2>2, <2>4, <1>4, <1>5, <1>9
  <2> QED
    BY <2>3, <2>4
<1>13. R = [q \in {g[x] : x \in DOMAIN heap} |-> R[q]]
  BY <1>10, <1>11
<1> QED
  BY <1>1, <1>12, <1>13 DEF ViewOf

LEMMA RehangsTo ==
    ASSUME NEW f, NEW c, NEW d, Rehangs(f, c, d)
    PROVE  /\ RebasedPaths(f, c, d)[c] = d
           /\ \A x \in DOMAIN heap : f[x] = d => IsPrefix(f[c], d)
           /\ \A x \in DOMAIN heap : d = f[c] => RebasedPaths(f, c, d)[x] = f[x]
<1>1. PICK g : g = RebasedPaths(f, c, d)
  OBVIOUS
<1>2. /\ \A x \in DOMAIN heap : f[x] \in Trail
      /\ c \in DOMAIN heap /\ d \in Trail
      /\ \A x, y \in DOMAIN heap : g[x] = g[y] => x = y
  BY <1>1 DEF Rehangs
<1>3. \A x \in DOMAIN heap : g[x] = IF IsPrefix(f[c], f[x]) THEN Rebase(f[c], d, f[x]) ELSE f[x]
  BY <1>1 DEF RebasedPaths
<1>4. IsPrefix(f[c], f[c]) /\ g[c] = d
  <2>1. IsPrefix(f[c], f[c])
    BY <1>2, PrefixItself
  <2>2. Rebase(f[c], d, f[c]) = d
    BY <1>2, <2>1, RebaseFacts
  <2> QED
    BY <1>2, <1>3, <2>1, <2>2
<1>5. ASSUME ~IsPrefix(f[c], d), NEW x \in DOMAIN heap, f[x] = d PROVE FALSE
  <2>1. g[x] = g[c]
    BY <1>3, <1>4, <1>5
  <2>2. x = c
    BY <1>2, <2>1
  <2> QED
    BY <1>4, <1>5, <2>2
<1>6. ASSUME d = f[c], NEW x \in DOMAIN heap PROVE g[x] = f[x]
  <2>1. IsPrefix(f[c], f[x]) => Rebase(f[c], f[c], f[x]) = f[x]
    BY <1>2, RebaseSame
  <2> QED
    BY <1>3, <1>6, <2>1
<1> QED
  BY <1>1, <1>4, <1>5, <1>6

\* c and what is below it hang under e now.
HangsAt(f, c, e, t, d) ==
    /\ Rehangs(f, c, d) /\ ArePaths(heap', RebasedPaths(f, c, d))
    /\ d = Append(f[e], StepTo(heap', t, c)) /\ StepTo(heap', t, c) \in PStep
    /\ Front(d) = f[e]
    /\ d # f[c] => ~IsPrefix(f[c], d) /\ d \notin DOMAIN PathView

LEMMA HungRehangs ==
    ASSUME NEW f, Mapped(f), NEW c \in DOMAIN heap, c # Root, NEW e \in DOMAIN heap,
           ~IsPrefix(f[c], f[e]), NEW t \in Scope, HungTo(heap', c, e, t)
    PROVE  \E d : HangsAt(f, c, e, t, d)
<1>0. PICK d : d = Append(f[e], StepTo(heap', t, c))
  OBVIOUS
<1>1. /\ GoodHeap(heap) /\ GoodHeap(heap') /\ ArePaths(heap, f)
      /\ ViewOf(heap, f, PathView)
  BY DEF Mapped
<1>2. f \in [DOMAIN heap -> Trail] /\ DOMAIN heap' = DOMAIN heap
  BY <1>1 DEF ArePaths, HungTo
<1>3. StepTo(heap', t, c) \in PStep
  BY <1>1, <1>2, StepToFacts
<1>4. f[c] \in Trail /\ f[e] \in Trail /\ d \in Trail /\ Front(d) = f[e]
  BY <1>0, <1>2, <1>3, FrontLast
<1>5. PICK g : g = RebasedPaths(f, c, d)
  OBVIOUS
<1>6. ArePaths(heap', g)
  BY <1>0, <1>1, <1>5, HungPaths
<1>7. \A x, y \in DOMAIN heap : g[x] = g[y] => x = y
  BY <1>1, <1>2, <1>6, PathsDiffer
<1>8. Rehangs(f, c, d)
  BY <1>2, <1>4, <1>5, <1>7 DEF Rehangs
<1>9. ASSUME d # f[c] PROVE ~IsPrefix(f[c], d)
  BY <1>0, <1>3, <1>4, <1>9, PrefixOfAppend
<1>10. ASSUME d # f[c] PROVE d \notin DOMAIN PathView
  <2>1. \A x \in DOMAIN heap : f[x] # d
    BY <1>8, <1>9, <1>10, RehangsTo
  <2> QED
    BY <1>1, <2>1 DEF ViewOf
<1> QED
  BY <1>0, <1>3, <1>4, <1>5, <1>6, <1>8, <1>9, <1>10 DEF HangsAt

LEMMA HungMaps ==
    ASSUME NEW f, Mapped(f), NEW p \in DOMAIN heap, NEW s \in Scope, NEW c \in Kids(heap, p, s),
           NEW e \in DOMAIN heap, IsItemAt(e), ~IsPrefix(f[c], f[e]), NEW t \in Scope,
           HungTo(heap', c, e, t),
           \A x \in DOMAIN heap : NodeOf(heap'[x]) = NodeOf(heap[x])
    PROVE  MapsNext
<1>1. c \in DOMAIN heap /\ c # Root /\ f[c] # <<>>
  BY ChildPath
<1>2. PICK d : HangsAt(f, c, e, t, d)
  BY <1>1, HungRehangs
<1>3. /\ Rehangs(f, c, d) /\ ArePaths(heap', RebasedPaths(f, c, d)) /\ Front(d) = f[e]
      /\ d # f[c] => ~IsPrefix(f[c], d) /\ d \notin DOMAIN PathView
  BY <1>2 DEF HangsAt
<1>4. PICK g : g = RebasedPaths(f, c, d)
  OBVIOUS
<1>5. /\ ViewOf(heap, f, PathView) /\ ViewOf(heap', g, PathView')
      /\ DOMAIN heap' = DOMAIN heap
  BY <1>3, <1>4 DEF Mapped, HungTo
<1>6. CASE d = f[c]
  <2>1. \A x \in DOMAIN heap : g[x] = f[x]
    BY <1>3, <1>4, <1>6, RehangsTo
  <2>2. PathView' = PathView
    BY <1>5, <2>1, SameMaps
  <2> QED
    BY <1>3, <2>2 DEF MapsNext, Paths!PathMapNext, Paths!Keep
<1>7. CASE d # f[c]
  <2>1. ViewOf(heap, g, RebasedMap(PathView, f[c], d))
    BY <1>3, <1>4, <1>5, RebasedView
  <2>2. PathView' = Paths!Rebased(f[c], d)
    BY <1>5, <2>1, SameMaps, RebasedAgrees
  <2>3. d \in DOMAIN PathView'
    <3>1. g[c] = d
      BY <1>3, <1>4, RehangsTo
    <3> QED
      BY <1>1, <1>5, <3>1 DEF ViewOf
  <2>4. Paths!IsItem(Paths!Front(d))
    BY <1>3, AtPath, PathsOfMap
  <2>5. Paths!Rehang(f[c], d)
    BY <1>1, <1>3, <1>7, <2>2, <2>4, PathsOfMap DEF Paths!Rehang
  <2>6. f[c] \in DOMAIN PathView
    BY <1>1, AtPath
  <2>7. Paths!PathMapNext
    BY <2>3, <2>5, <2>6 DEF Paths!PathMapNext
  <2> QED
    BY <1>3, <2>7 DEF MapsNext
<1> QED
  BY <1>6, <1>7

LEMMA RehungMaps ==
    ASSUME NEW f, Mapped(f), Rehung(heap')
    PROVE  MapsNext
<1>1. PICK p \in DOMAIN heap, s \in Scope, m \in Name : \E c \in Kids(heap, p, s) :
        IsItemAt(p) /\ heap' = [heap EXCEPT ![c].name = m]
  BY DEF Rehung
<1>2. PICK c \in Kids(heap, p, s) : IsItemAt(p) /\ heap' = [heap EXCEPT ![c].name = m]
  BY <1>1
<1>3. c \in DOMAIN heap /\ c # Root /\ ~IsPrefix(f[c], f[p])
  BY ChildPath
<1>4. /\ DOMAIN heap' = DOMAIN heap
      /\ \A x \in DOMAIN heap : x # c => heap'[x] = heap[x]
      /\ heap'[c] = [heap[c] EXCEPT !.name = m]
  BY <1>2, <1>3
<1>5. heap[c] \in CellType
  BY <1>3 DEF Mapped, GoodHeap, Typed
<1>6. /\ heap'[c].kids = heap[c].kids /\ heap'[c].kind = heap[c].kind
      /\ heap'[c].value = heap[c].value /\ heap'[c].saved = heap[c].saved
  BY <1>4, <1>5 DEF CellType
<1>7. NodeOf(heap'[c]) = NodeOf(heap[c])
  BY <1>6, NodeOfCell
<1>8. \A x \in DOMAIN heap : NodeOf(heap'[x]) = NodeOf(heap[x])
  BY <1>4, <1>7
<1>9. \A x \in DOMAIN heap, t \in Scope : Kids(heap', x, t) = Kids(heap, x, t)
  BY <1>4, <1>6 DEF Kids
<1>10. HungTo(heap', c, p, s)
  BY <1>4, <1>9 DEF HungTo
<1> QED
  BY <1>2, <1>3, <1>8, <1>10, HungMaps

LEMMA MovedMaps ==
    ASSUME NEW f, Mapped(f), Moved(heap')
    PROVE  MapsNext
<1>1. PICK p \in DOMAIN heap, d \in DOMAIN heap, s \in Scope : \E c \in Kids(heap, p, s) :
        IsItemAt(d) /\ d \notin Subtree({c}) /\ heap' = Relinked(p, s, c, d)
  BY DEF Moved
<1>2. PICK c \in Kids(heap, p, s) :
        IsItemAt(d) /\ d \notin Subtree({c}) /\ heap' = Relinked(p, s, c, d)
  BY <1>1
<1>3. GoodHeap(heap) /\ ArePaths(heap, f) /\ "child" \in Scope
  BY TreeAssumption DEF Mapped
<1>4. HungTo(heap', c, d, "child") /\ \A x \in DOMAIN heap : NodeOf(heap'[x]) = NodeOf(heap[x])
  BY <1>2, <1>3, RelinkedShape DEF Stays
<1>5. ~IsPrefix(f[c], f[d])
  <2>1. {c} \subseteq DOMAIN heap \ {Root}
    BY ChildPath
  <2> QED
    BY <1>2, <1>3, <2>1, SubtreeIsBelow
<1> QED
  BY <1>2, <1>3, <1>4, <1>5, HungMaps

\* The path a pop gives to p.
PoppedPath(f, p, key) ==
    IF f[p] = <<>> THEN f[p] ELSE Append(Front(f[p]), [Last(f[p]) EXCEPT !.key = key])

LEMMA PoppedHangs ==
    ASSUME NEW f, Mapped(f), NEW p \in DOMAIN heap, DOMAIN heap' = DOMAIN heap,
           \A x \in DOMAIN heap : x # p => heap'[x].name = heap[x].name,
           \A x \in DOMAIN heap, t \in Scope : heap'[x].kids[t] = heap[x].kids[t]
    PROVE  LET d == PoppedPath(f, p, heap'[p].name.key)
           IN  /\ Rehangs(f, p, d) /\ ArePaths(heap', RebasedPaths(f, p, d))
               /\ d # f[p] => d \notin DOMAIN PathView
<1>1. /\ GoodHeap(heap) /\ GoodHeap(heap') /\ ArePaths(heap, f)
  BY DEF Mapped
<1>2. \A x \in DOMAIN heap, t \in Scope : Kids(heap', x, t) = Kids(heap, x, t)
  BY DEF Kids
<1>3. CASE p = Root
  <2>1. f[p] = <<>> /\ PoppedPath(f, p, heap'[p].name.key) = f[p]
    BY <1>1, <1>3, RootIsAbove DEF PoppedPath
  <2>2. ArePaths(heap', f)
    BY <1>1, <1>2, <1>3, KeptPaths
  <2>3. PICK g : g = RebasedPaths(f, p, f[p])
    OBVIOUS
  <2>4. \A x \in DOMAIN heap : f[x] \in Trail
    BY <1>1 DEF ArePaths
  <2>5. \A x \in DOMAIN heap : g[x] = f[x]
    <3> SUFFICES ASSUME NEW x \in DOMAIN heap PROVE g[x] = f[x]
      OBVIOUS
    <3>1. IsPrefix(f[p], f[x]) => Rebase(f[p], f[p], f[x]) = f[x]
      BY <2>4, RebaseSame
    <3> QED
      BY <2>3, <3>1 DEF RebasedPaths
  <2>6. g = f
    <3>1. g = [x \in DOMAIN heap |-> g[x]] /\ f = [x \in DOMAIN heap |-> f[x]]
      BY <1>1, <2>3 DEF RebasedPaths, ArePaths
    <3> QED
      BY <2>5, <3>1
  <2>7. \A x, y \in DOMAIN heap : f[x] = f[y] => x = y
    BY <1>1, PathsDiffer
  <2>8. Rehangs(f, p, f[p])
    BY <1>1, <2>3, <2>4, <2>6, <2>7 DEF Rehangs, ArePaths
  <2> QED
    BY <2>1, <2>2, <2>3, <2>6, <2>8
<1>4. CASE p # Root
  <2>1. PICK a, t : Above(heap, f, p, a, t)
    BY <1>1, <1>4, HangsAbove
  <2>2. a \in DOMAIN heap /\ t \in Scope /\ p \in Kids(heap, a, t)
    BY <2>1 DEF Above
  <2>3. /\ f[p] # <<>> /\ Front(f[p]) = f[a] /\ Last(f[p]) = StepTo(heap, t, p)
        /\ ~IsPrefix(f[p], f[a])
    BY <2>2, ChildPath
  <2>4. HungTo(heap', p, a, t)
    BY <1>2, <2>2 DEF HungTo
  <2>5. PICK d : HangsAt(f, p, a, t, d)
    BY <1>4, <2>2, <2>3, <2>4, HungRehangs
  <2>6. d = PoppedPath(f, p, heap'[p].name.key)
    <3>1. [Last(f[p]) EXCEPT !.key = heap'[p].name.key] = StepTo(heap', t, p)
      BY <2>3 DEF StepTo
    <3>2. d = Append(f[a], StepTo(heap', t, p))
      BY <2>5 DEF HangsAt
    <3> QED
      BY <2>3, <3>1, <3>2 DEF PoppedPath
  <2> QED
    BY <2>5, <2>6 DEF HangsAt
<1> QED
  BY <1>3, <1>4

LEMMA RestoredMaps ==
    ASSUME NEW f, Mapped(f), Restored(heap')
    PROVE  MapsNext
<1>1. PICK p \in DOMAIN heap :
        /\ IsItemAt(p)
        /\ heap[p].saved # <<>>
        /\ heap' = [heap EXCEPT ![p].name  = heap[p].saved[1].name,
                                ![p].value = heap[p].saved[1].value,
                                ![p].saved = Tail(heap[p].saved)]
  BY DEF Restored
<1>2. PICK x, q : x = heap[p].saved[1] /\ q = Tail(heap[p].saved)
  OBVIOUS
<1>3. PICK cell : cell = Popped(heap[p], x.name, x.value, q)
  OBVIOUS
<1>4. heap' = [heap EXCEPT ![p] = cell]
  BY <1>1, <1>2, <1>3 DEF Popped
<1>5. /\ GoodHeap(heap) /\ ArePaths(heap, f) /\ ViewOf(heap, f, PathView)
  BY DEF Mapped
<1>6. heap[p] \in CellType
  BY <1>5 DEF GoodHeap, Typed
<1>7. /\ cell.name = x.name /\ cell.value = x.value /\ cell.saved = q
      /\ cell.kids = heap[p].kids /\ cell.kind = heap[p].kind
  BY <1>3, <1>6 DEF CellType, Popped
<1>8. /\ DOMAIN heap' = DOMAIN heap /\ heap'[p] = cell
      /\ \A y \in DOMAIN heap : y # p => heap'[y] = heap[y]
  BY <1>4
<1>9. /\ SavedOf(heap[p].saved) # <<>>
      /\ Head(SavedOf(heap[p].saved)) = PairOf(x)
      /\ SavedOf(q) = Tail(SavedOf(heap[p].saved))
  BY <1>1, <1>2, <1>6, SavedOfPopped DEF CellType
<1>10. PICK d : d = PoppedPath(f, p, x.name.key)
  OBVIOUS
<1>11. PICK g : g = RebasedPaths(f, p, d)
  OBVIOUS
<1>12. /\ Rehangs(f, p, d) /\ ArePaths(heap', g)
       /\ d # f[p] => d \notin DOMAIN PathView
  <2>1. /\ \A y \in DOMAIN heap : y # p => heap'[y].name = heap[y].name
        /\ \A y \in DOMAIN heap, t \in Scope : heap'[y].kids[t] = heap[y].kids[t]
    BY <1>7, <1>8
  <2>2. heap'[p].name.key = x.name.key
    BY <1>7, <1>8
  <2> QED
    BY <1>8, <1>10, <1>11, <2>1, <2>2, PoppedHangs
<1>13. PICK R : R = RebasedMap(PathView, f[p], d)
  OBVIOUS
<1>14. ViewOf(heap, g, R)
  BY <1>5, <1>11, <1>12, <1>13, RebasedView
<1>15. ViewOf(heap', g, PathView') /\ g[p] = d
  BY <1>11, <1>12, RehangsTo DEF Mapped
<1>16. \A y, z \in DOMAIN heap : g[y] = g[z] => y = z
  BY <1>11, <1>12 DEF Rehangs
<1>17. /\ d \in DOMAIN R /\ R[d] = NodeOf(heap[p])
       /\ PathView' = [R EXCEPT ![d] = NodeOf(cell)]
  <2>1. \A y \in DOMAIN heap : y # p => NodeOf(heap'[y]) = NodeOf(heap[y])
    BY <1>8
  <2>2. /\ g[p] \in DOMAIN R /\ R[g[p]] = NodeOf(heap[p])
        /\ PathView' = [R EXCEPT ![g[p]] = NodeOf(heap'[p])]
    BY <1>8, <1>14, <1>15, <1>16, <2>1, OneChanged
  <2> QED
    BY <1>8, <1>15, <2>2
<1>18. PathView[f[p]] = NodeOf(heap[p]) /\ NodeOf(heap[p]).saved = SavedOf(heap[p].saved)
  BY AtPath, NodeOfCell
<1>19. NodeOf(cell) = [NodeOf(heap[p]) EXCEPT !.value = x.value, !.saved = Tail(@)]
  <2>1. PICK o, r : o = SavedOf(heap[p].saved) /\ r = SavedOf(q)
    OBVIOUS
  <2>2. NodeOf(heap[p]) = [kind |-> heap[p].kind, value |-> heap[p].value, saved |-> o]
    BY <2>1, NodeOfCell
  <2>3. NodeOf(cell) = [kind |-> heap[p].kind, value |-> x.value, saved |-> r]
    BY <1>7, <2>1, NodeOfCell
  <2>4. r = Tail(o)
    BY <1>9, <2>1
  <2>5. PICK node, k, u : node = NodeOf(heap[p]) /\ k = heap[p].kind /\ u = heap[p].value
    OBVIOUS
  <2>6. node = [kind |-> k, value |-> u, saved |-> o]
    BY <2>2, <2>5
  <2>7. PICK w : w = x.value
    OBVIOUS
  <2>8. PICK m : m = [node EXCEPT !.value = w]
    OBVIOUS
  <2>9. m = [kind |-> k, value |-> w, saved |-> o]
    BY <2>6, <2>8
  <2>10. [m EXCEPT !.saved = r] = [kind |-> k, value |-> w, saved |-> r]
    BY <2>9
  <2>11. [node EXCEPT !.value = w, !.saved = r] = [m EXCEPT !.saved = r]
    BY <2>8
  <2>12. node.saved = o
    BY <2>6
  <2> QED
    BY <2>3, <2>4, <2>5, <2>7, <2>10, <2>11, <2>12
<1>20. PICK pair : pair = Head(PathView[f[p]].saved)
  OBVIOUS
<1>21. pair.key = x.name.key /\ pair.value = x.value
  <2>1. pair = PairOf(x)
    BY <1>9, <1>18, <1>20
  <2> QED
    BY <2>1 DEF PairOf
<1>22. d = IF f[p] = <<>> THEN f[p]
           ELSE Append(Paths!Front(f[p]), [Paths!Last(f[p]) EXCEPT !.key = pair.key])
  BY <1>10, <1>21, PathsOfMap DEF PoppedPath
<1>23. PathView' = [Paths!Rebased(f[p], d) EXCEPT ![d].value = pair.value,
                                                  ![d].saved = Tail(@)]
  <2>1. Paths!Rebased(f[p], d) = R
    BY <1>13, RebasedAgrees
  <2>2. PathView' = [R EXCEPT ![d] = [R[d] EXCEPT !.value = pair.value, !.saved = Tail(@)]]
    BY <1>17, <1>19, <1>21
  <2>3. PathView' = [R EXCEPT ![d].value = pair.value, ![d].saved = Tail(@)]
    BY <1>17, <2>2
  <2> QED
    BY <2>1, <2>3
<1>24. Paths!PopPair(f[p])
  <2>1. Paths!IsItem(f[p])
    BY <1>1, AtPath
  <2>2. PathView[f[p]].saved # <<>>
    BY <1>9, <1>18
  <2> QED
    BY <1>12, <1>20, <1>22, <1>23, <2>1, <2>2 DEF Paths!PopPair
<1>25. f[p] \in DOMAIN PathView
  BY AtPath
<1>26. Paths!PathMapNext
  BY <1>24, <1>25 DEF Paths!PathMapNext
<1> QED
  BY <1>12, <1>26 DEF MapsNext

LEMMA CallMaps ==
    ASSUME NEW f, Mapped(f), CallMakes(heap')
    PROVE  MapsNext
  BY KeptMaps, GrownMaps, ValuedMaps, PrunedMaps, EmptiedMaps, RehungMaps, MovedMaps,
     PushedMaps, RestoredMaps, DroppedMaps, FreshMaps DEF CallMakes

\* The map is the one the heap's paths give.
ViewOK == GoodHeap(heap) => \A f : ArePaths(heap, f) => ViewOf(heap, f, PathView)

LEMMA ViewIsOK == ViewOK
  BY ViewFacts DEF ViewOK

PathsInv == NamesInv /\ \E f : ArePaths(heap, f)

LEMMA PathsStart == Init /\ NamesInv /\ ViewOK => PathsInv /\ Paths!PathMapInit
<1> SUFFICES ASSUME Init, NamesInv, ViewOK PROVE PathsInv /\ Paths!PathMapInit
  OBVIOUS
<1>1. Fresh(heap) /\ GoodHeap(heap)
  BY DEF Init, Fresh, NamesInv, TreeInv
<1>2. ArePaths(heap, [x \in {Root} |-> <<>>])
  BY <1>1, FreshPaths
<1>3. ViewOf(heap, [x \in {Root} |-> <<>>], PathView)
  BY <1>1, <1>2 DEF ViewOK
<1>4. Paths!PathMapInit
  BY <1>1, <1>3, FreshMap DEF Paths!PathMapInit
<1> QED
  BY <1>2, <1>4 DEF PathsInv

LEMMA PathsStep ==
    PathsInv /\ ViewOK /\ NamesInv' /\ ViewOK' /\ [Next]_vars
        => PathsInv' /\ Paths!PathMapNext
<1> SUFFICES ASSUME PathsInv, ViewOK, NamesInv', ViewOK', [Next]_vars
             PROVE  PathsInv' /\ Paths!PathMapNext
  OBVIOUS
<1>1. PICK f : ArePaths(heap, f)
  BY DEF PathsInv
<1>2. /\ GoodHeap(heap) /\ Named(heap)
      /\ GoodHeap(heap') /\ Named(heap')
  BY DEF PathsInv, NamesInv, TreeInv
<1>3. \A g : ArePaths(heap', g) => ViewOf(heap', g, PathView')
  BY <1>2 DEF ViewOK
<1>4. Mapped(f)
  BY <1>1, <1>2, <1>3 DEF Mapped, ViewOK
<1>5. CallMakes(heap')
  BY <1>2, NextMakes
<1>6. MapsNext
  BY <1>4, <1>5, CallMaps
<1> QED
  BY <1>6 DEF MapsNext, PathsInv

(* The tree implements the map from paths to nodes: every call of the       *)
(* facade changes the map at one path and below, as PathMap says, or not at *)
(* all.  PathMap has no positions, no rows and no handles.                  *)
THEOREM TreeIsAMap == Spec => PathMapSpec
<1>1. PathsInv /\ ViewOK /\ NamesInv' /\ ViewOK' /\ [Next]_vars
        => PathsInv' /\ [Paths!PathMapNext]_PathView
  BY PathsStep
<1> QED
  BY <1>1, PathsStart, NamesInvHolds, ViewIsOK, PTL DEF Spec, PathMapSpec, Paths!PathMapSpec

=============================================================================
