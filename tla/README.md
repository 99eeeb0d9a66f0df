# MsgFacade, specified

MsgFacade puts a COM-shaped interface over the Msgcore message kernel: a store
is a tree of named, typed values in a file, and everything a client does goes
through a thin object with a handle in it. Two tiers live in the repository:

- the **facade** (`src/src`, interfaces in `src/include/MsgFacade.h`): a C++ ABI
  of reference-counted objects over one kernel manager and one lock per store;
- the **COM tier** (`src/com`): an ATL server over the facade, which adds
  automation types, events on a thread of its own, and cursors and walkers that
  survive changes of the store.

The kernel (`P2PmsgMgr`, `P3PmsgCurs`, ...) is not in this repository. The
modules take from it only what the facade's own calls and comments rely on, and
the definitions that stand for it are marked *external* in `PROJECT.json`.

This directory holds TLA+ modules for the parts that decide something, TLC
configurations that check them on small instances, and proofs that TLAPS
checks. Contents:

1. [Inventory](#1-inventory)
2. [Modules](#2-modules)
3. [Runs](#3-runs)
4. [Proofs](#4-proofs)
5. [Findings](#5-findings)
6. [What the models leave out](#6-what-the-models-leave-out)
7. [Plan](#7-plan)

Paths below are relative to `src/`; line numbers are of the files there.

## 1. Inventory

| Component | State | Operations | Hard part |
|---|---|---|---|
| `FacadeStore` (`src/FacadeStore.cpp`) | manager, lock `m_oCSection`, `m_cRef`, `m_bClosed`, sinks `m_pEvents`, `m_pPaging`, bracket count `m_nPagingPushed`, file name, dirty flag | create, open, save, load, clear, release, `SetEvents`, `Arm`, `Disarm`, `SetPaging`, page in and out, `PushPaging`, `PopPaging`, path and position lookups | every object's reference keeps the store; the store owns the lock its methods hold; sinks are called back with the lock held; `Clear` replaces the manager and its registrations |
| Route resolver (`FacadeStore.cpp` 314-466, `FacadeNode.cpp` 71-) | none: a handle is a route | `ResolveObject`, `ResolveField`, `NodeFromPath`, `NodeFromPos`, `RouteOfPos` | handles outlive every rename, move, delete and redeclare; the depth limit |
| `FacadeNode` (`FacadeNode.cpp`) | the tree, in the kernel's heap | declare, delete, truncate, rename, move, retype, the setters, the value stack, lookups | names unique between siblings; half-done calls; what a call changes besides what it names |
| `FacadeList`, `FacadeVect` (`FacadeContainer.cpp`) | elements of a container | get, set, add, delete, drop by index | index and width arithmetic |
| `FacadeCursor`, `FacadeWalker` (`FacadeCursor.cpp`) | kernel cursors; the walker's stack of levels | next, goto, delete; next, push, pop, break | a cursor is born on its first element; automatic ascent; end of walk |
| `FacadeLibrary` | process-wide singleton, count | acquire, release, create and open a store | last release against acquire |
| `CMsgStore`, events (`com/ComStore.cpp`) | queue, drop count, wake event, dispatch thread, advised sinks | fire, advise, unadvise, close, create, final release | three locks, one thread, a bounded queue, a bounded join |
| `CMsgStore`, paging adapter | sink, apartment | `SetPagingSink`, page in and out | thread affinity |
| `CMsgCursor` (`com/ComCursor.cpp`) | facade cursor, saved index, copy of the store's mutation counter | every facade cursor method, after `Bind` | positions other calls invalidate |
| `CMsgRecurs` (`com/ComWalk.cpp`) | facade walker, `m_ancestry` | `MoveNext`, `Push`, `Pop`, `Break`, `Path` | a path kept beside the walker, not derived from it |
| `CMsgField`, collections, conversions | one facade object each | pass-through, VARIANT conversions, enumerators | code mapping; snapshots |
| Module, IDL, client sugar, build | none of the program's own | - | - |

How they interact:

- Every store comes from the one library of the process and holds a reference on
  it until its destructor; so does every client that asked for it.
- A client holds a store handle and any number of nodes, lists, vects, cursors
  and walkers. Each holds one reference on the `FacadeStore`, which is deleted
  with the last of them; releasing the *store handle* closes the store but does
  not free it (`MsgFacade.h` 805-811).
- Every facade method opens with a `StoreGuard` on the store's lock and then
  looks whether the store is closed. So a method is atomic to all other methods
  of that store's objects - except where the kernel calls a sink, which
  runs on the mutating thread with the lock held.
- The kernel knows a sink only as a registration (`core` in the model). The
  trampolines look at `m_pEvents` and `m_pPaging` when they run.
- The COM store is the facade's event sink. It copies the change into its queue
  and leaves; its dispatch thread resolves the path, under the lock, and calls
  the client's handlers with no lock.
- Every COM call that changes the store ends in `BumpMutation`; a COM cursor
  compares its copy of the counter before it does anything.

What makes each part correct, and is stated as a property:

- *process*: the library is there for whoever needs it, there is only one, and it
  goes with the last reference; nested locks of several stores unwind.
- *store*: no call runs in a deleted store; the last reference frees it; a
  closed store serves nothing; a sink that was replaced is not running and is not
  called; every call comes back; the paging bracket restores what it saved.
- *tree*: sibling names stay unique; a lookup finds the node the tree has there;
  positions and routes agree; a handle that names a node never comes to name a
  different one unless a call renamed, moved or removed something; a refused call
  changes nothing; nothing changes silently; the calls are those of a map from
  paths to nodes.
- *events*: no wake-up lost, no change vanishes, order per sink, the object
  outlives its thread, the queue drains.
- *walker*: outline order, an honest end, a path that names the stop.
- *cursor*: no dangling position is used, a rebuilt cursor is where it was, loops
  end.

`PROJECT.json` lists the hazards line by line, with the properties that
cover each and the reason where none does.

## 2. Modules

| Module | Models | Extends |
|---|---|---|
| `StoreContract` | what a store promises: phases, objects given out, sinks in force, one running sink | - |
| `FacadeStore` | the store, its lock, its references and its sinks | - |
| `FacadePaging` | `FacadeStore` with what the client knows of its paging bracket | `FacadeStore` |
| `PathMap` | what the node interface promises: a map from paths to nodes | - |
| `FacadeProcess` | the library, several stores' locks, sinks that call stores | - |
| `FacadeTree` | the tree, the resolver and the node operations | - |
| `FacadeContainer` | the values of a list, a vect or a node, at their widths | - |
| `ComValues` | VARIANTs and codes over those values | `FacadeContainer` |
| `ComEvents` | the COM store's event path and death | - |
| `FacadeWalker` | the walker over an ordered tree | - |
| `ComWalk` | the COM walker and its ancestry | `FacadeWalker` |
| `ComCursor` | the facade cursor under the COM cursor, and For Each | - |
| `FacadeProcess_proofs`, `ComEvents_proofs`, `ComWalk_proofs`, `ComCursor_proofs`, `FacadeTree_proofs` | theorems | the module of that name |
| `FacadeStore_proofs` | theorems about `FacadeStore` and `FacadePaging` | `FacadePaging` |
| `ComValues_proofs` | theorems about `FacadeContainer` and `ComValues` | `ComValues` |
| `FacadePaths_proofs` | theorems about `FacadeTree`'s names for nodes | `FacadeTree_proofs` |
| `MC*` | symmetry sets, names and views for TLC | the module of that name |

Operators named `...` with a comment *Mutant* are alternatives to the operator
after them: a plausible bug, which makes some property fail. Nothing uses them in
a specification.

### FacadeStore

One action per call and per point where threads can interleave. A thread is
`idle`; has made a `call` on an object; is `in` it with the lock; is in a `sink`
called from there; or is `closing`, `closed` or in a cursor's `dtor`. `owner`
is the critical section's owner.

- `Call`, `Enter`, `Leave`: a client calls, `StoreGuard` locks, the method
  returns. `Refused` is the early return of a closed store (`E_CLOSED`).
- `Access` is a method that only reads or writes the tree; `Make` one that hands
  out an object and counts it.
- `TriggerTramp`, `PageTramp`, `SinkReturns`: the kernel calls back. A sink may
  not be called from a sink in the model: calling back is against the contract
  (`MsgFacade.h` 342-344), and clients are taken to respect it here; `FacadeProcess` has
  sinks that do call.
- `SetEvents`, `Arm`, `Disarm`, `SetPaging`, `PushPaging`, `PopPaging`, `Clear`,
  `Load`: registrations. `core` is the kernel's side: a trigger sink, a live and a
  saved paging registration. `Arm` registers a
  position (`armed`); firing leaves it there, and `Disarm`, `Clear`, `Load` and
  the freeing of the position take it away.
- `Close`, `DropStore`, `ReleaseNode`, `ReleaseCursor`, `DropCursor`: the
  releases, each in the steps another thread can see. `ReleaseCursor` deletes
  kernel objects before it drops its reference, outside the lock, as the code does.

Clients are disciplined in one way: an object is not released while a thread is
inside a call on it. Without it nothing could hold: the waiting caller of a
shared store handle would wake in a deleted critical section.

`StoreContract` has none of this, only five kinds of step. The refinement maps
`phase` to `alive` and `m_bClosed`, `given` to `live`, the sinks to themselves
while the store is open, and `running` to the sink of the thread that is in one.

### FacadeProcess

What `FacadeStore` leaves out, around it. The library's part has the static pointer,
the static critical section, a count per library object, and what each thread and each
store holds. `Acquire` and `ReleaseRef` are what happens with the section held;
`ReleaseRef` and `FreeLibrary` are two steps, because `s_pInstance` still points at
a library whose count is 0 between them, and only the section keeps others away.
`CreateStore` counts without the section, as `AddRef` does.

The stores' part has an owner and an entry count per critical section, and for each
thread the stack of stores it is inside of: `Call`, `Lock`, `Fire`, `Return`. Windows
critical sections are re-entrant, so a sink that calls its own store does not wait.
A sink makes at most one call each time it runs, to a store that `CallsOut` allows, or
to the library.

### FacadeTree

`heap` is a function from allocated positions to cells: name, kind, value, two
ordered collections of children, saved (name, value) pairs. `Resolve` walks a
route; a handle *is* a route, so the calls take any route of at most `MaxDepth`
steps, whether it resolves or not. Each call holds the lock throughout and is one
step. `out` is the last call's answer, and no action reads it.

Names are records of a key and a spelling: two names with one key differ in case
only, which is how `_wcsicmp` compares them. The kernel appends a declared child
after its siblings.

A path is a text, here a sequence of marks (`'.'` for a child, `'@'` for an
attribute) and words: `ParseRoute` and `FormatRoute` turn it into a route and back,
refusing an empty step, a word too long and a text that does not begin with a
mark. `SetDirty` and `Save` are the two calls that touch only the flag.

`Declare` is `BeginDeclare` and `EndDeclare` in one: the child exists before the
handle is refused for depth, so `E_DEPTH` leaves the child behind, as in the
code. `DeclareContainer` has no depth test at all. Clashes that the code leaves
to the kernel (renaming onto a sibling, moving under itself) are refused.

`PathMap` is the same interface as a map from paths to nodes. The refinement maps
`heap` to the map whose paths are the names from the root, without their case.

### FacadeContainer

What `FacadeTree` calls a value, seen from inside: `cells` are the values of one
list, one vect or one node, each a type and the bits stored. The verbs of
`FacadeContainer.cpp` and the setters, declares and retype of `FacadeNode.cpp` are
its actions, each with its checks in the code's order. Widths are constants, with
`Half[w]` half the number of values of width `w`, so the arithmetic is the code's
at any size. `given`, `made` and `room` record what the last writer gave and how
the cell was made; no guard reads them. `DeclareAnew` is a declare that refuses
because it was told not to redeclare, `Redeclared` one that replaces.

### ComValues

What a COM client does to those values. `call` is its last call: what it gave, the
cell, the `HRESULT`, and whether the call ended in `BumpMutation`. A VARIANT is its
type and a number: an integer's value, a truth, a text's length. The reads
(`ReadCell`, `ReadElem`, `ReadNodeValue`) are one operator, `ReadValue`, and the
writes that take a cell's own type are `put_Item` and `put_Value`. The writes that
take the VARIANT's type are `AddValue` and `DeclareVariant`; `DeclareTypedVariant`
takes a type that the client names. `ChangeType` and `CanFail` are OLE Automation's
conversion, external: a text or an object may convert to any value of the target
type or to none. `MSGF` and `MSGC` hold the codes as the *numbers* the headers give
them, since the two sets overlap and a property is about that.

`FacadeProgram` is a call by a program that uses the facade itself. It interleaves
with the client's calls because a file is written by the one and read by the other,
so a COM client meets cells of types it could not have made.

### ComEvents

`Trigger` is the facade's callback on the mutating thread (`CMsgStore::Push`
under `m_csQueue`); `Signal` sets the auto-reset event afterwards. `Pop...`,
`ResolvePath`, `Snapshot`, `Invoke`, `HandlerReturns`, `Fired`, `CheckQuit` are
`DispatchLoop` and `Fire`. `lock` is the COM store's own lock `m_cs`. `Unadvise`
takes a sink out of the list and `Revoke` out of the global interface table, in
two steps. `FinalClose`, `FinalQuit`, `FinalWake`, `FinalFree` are
`FinalRelease`; the bounded wait is a choice: the wait times out only if
`JoinTimesOut`, and only while a handler is running.

A change carries a sequence number that no action reads; the properties speak of
order through it.

### FacadeWalker and ComWalk

`up` is a tree given by parents, its elements numbered in outline order (an
element before what is under it, that before its next sibling). The walker does
not see the numbers, it steps from sibling to sibling; the properties do, so
"outline order" needs no second traversal to compare with. `levels` is
`m_aLevels`: which element's children, where among them, and whether the level
has just been opened. `WalkerNext` finds in one expression the level at which the code's
ascending loop stops.

`ComWalk` adds `m_ancestry`: `Track` resizes it to the depth and appends the
current name, exactly when `CMsgRecurs` does; `ComPop` tracks only a pop that was not
refused. `Field` looks the resulting path up, and `told` is what `Push` answers.

### ComCursor

A collection (`row`) and some cursors over it. `behind` is "my copy of the
counter is not the store's", `dangling` is "the store has changed under my kernel
cursor", which no code can see; the properties relate the two. `Bound` is `Bind`:
rebuild, then seek back unless the saved index is 0, ignoring what the seek answers.
`each` is one For Each: the names collected when it began, how far it is, and what
it has handed out or skipped. `EnumOf` collects as `MakeFieldEnum` does: it passes over
each child `GetChildAt` refuses, which for an owner at `MAX_DEPTH` (`OwnerDepth = MaxDepth`)
is every one, since `FacadeNode::Make` takes no longer route (`ChildMade`). It is no longer followed when anybody but the loop itself
changes the store.

Beneath the cursors the collection's owner may go and come back (`NoRow`), `OpenFile`
puts another tree into the same facade store, and `Close` and `CreateNew` take the
facade store away (`NoStore`): a cursor keeps the owner node it was made with, so it is
an orphan from then on even if the COM store has a new facade store. `DeepSpec` adds
`DeclareTooDeep`, the one call that changes the store and is not counted; in the collection of an owner at
`MAX_DEPTH` it leaves its child.

## 3. Runs

All bounds are in the `.cfg` files.

| Run | Expect | Instance | Shows |
|---|---|---|---|
| `process` | pass | 2 threads, 2 stores, 2 library addresses, 3 nested calls | the library's life, nested locks, every call returns |
| `store` | pass | 2 threads, 2 nodes, 1 cursor, 2 + 2 sinks, 1 position | lifetime, lock, sinks, bracket, liveness, `StoreContract` |
| `store_unlocked_release` | violation | 2 threads, 1 node, 1 cursor | a cursor's release touches the kernel outside the lock |
| `tree_shape` | pass | 4 positions, depth limit 2, names in two spellings, a list | names, paths, lookups, positions, handles, refusals, `PathMap` |
| `tree_values` | pass | 3 positions, depth limit 1, two scopes, two values, one saved pair | truncate, value stack, dirty flag, `PathMap` |
| `container` | pass | 3 cells, 2 widths, texts of at most 1 | values, widths, text room, dirty flag; VARIANTs both ways, codes |
| `events` | pass | 2 clients, 1 sink, queue of 2, 3 changes, 1 silent change | the queue, the thread, the death |
| `events_join` | violation | handlers may outlast the join | the object deleted under its thread |
| `events_stale_path` | violation | two paths | an event carries the path of now |
| `walk` | pass | all trees of at most 6 elements, depth limit 3 | order, end, path, what Push tells, the documented loop |
| `cursor` | pass | 2 cursors, 3 names, owner above the depth limit | staleness, the saved index, For Each, loops |
| `cursor_deep_declare` | violation | 2 cursors, 2 names | a refused declare leaves positions stale |

Why the bounds are enough:

- *process*. Two threads, each with two stores, give every order of last releases and
  acquires; two library addresses let a second library appear while the first is
  dying, if anything lets it. Three nested calls are a sink in a sink that calls back.
- *store*. Two threads give every pair of steps; every property is about at most
  two threads and one lock. Two nodes and a cursor let one handle outlive the store
  handle while another is made and released; two sinks of a kind are needed to
  tell a replaced sink from the installed one. The proofs lift the bound.
- *tree*. A rename, move or redeclare can only confuse a handle through a name
  that is free again or taken, so three nodes under a root with two keys show
  every case; one level below the depth limit exists, because the code
  creates it. Names come in two spellings, so lookups without case are tested.
  Splitting the two runs keeps both complete: shape needs positions, values need data.
- *container*. Three cells give a first, a middle and a last; a width narrower than
  a `long long` and one as wide give both sides of every case of `IntFits` and of
  the read, with values just inside and just outside. The same widths are those of a
  VARIANT, so a client's value may be wider or narrower than the cell. A text may be
  empty, of full length or too long. The proofs lift all of it.
- *events*. A queue of two with three changes overflows, drains and overflows
  again; a second client gives changes made while another thread
  pushes, and a release that is not the last.
- *walk*. Six elements give an ascent over three levels with a sibling after it, and a
  level below the depth limit of three that a Push refuses. The proofs lift the bound.
- *cursor*. Three elements give a first, a middle and a last; two cursors give a
  deletion through one under the other. Only whether the owner is above the depth limit or
  at it matters, and only to what a For Each collects: the run has it above, for at the
  limit `ForEachMayDelete` claims nothing (section 5). The proofs lift both; the loop stays with TLC.

**Fairness.** `FacadeProcess`: strong fairness of `Lock`, `Acquire` and `ReleaseRef`,
for a critical section comes round to its waiters; sinks and methods go on; nothing
makes a client call. Its `EveryCallReturns` needs the sinks to call one way: in
the run those of store `a` call both stores, those of `b` only their own.
`FacadeStore`: a thread in a method continues (a sink must not
block, `MsgFacade.h` 369-372), and the critical section lets every waiter in some
time (strong fairness of `Enter` and `Close`); nothing makes a client call or
release. `ComEvents`: threads run; a handler returns; the store's lock reaches
the dispatch thread in the end; nothing makes a client change anything. The
walker's and cursor's `LoopEnds` state their own fairness, which is only that
the client's loop goes on. The violation runs are safety properties and
assume none.

**Deadlock** is checked except in the store runs, where a system whose client
has released everything really stops.

**Symmetry and view.** `store_unlocked_release` and the tree
runs permute threads, handles or positions, and no run with a liveness property
uses symmetry. The tree runs use a view without `out`, and `container` one without
`out` and `call`: no action reads it, and the properties that do are about single
steps, which TLC evaluates on every step it generates.

## 4. Proofs

Assumptions are the named `ASSUME`s of the modules (`StoreAssumption`,
`ProcessAssumption`, `ContainerAssumption`, `ComAssumption`, `EventsAssumption`,
`NAssumption`, `MaxDepthAssumption`, `DepthAssumption`, `ElemAssumption`,
`TreeAssumption`): the sets of
names are disjoint, the handles, threads, stores and elements finite, the bounds natural
numbers, the resolver's errors no heap positions, and no integer is wider than a `long long`, which can hold a truth.

**`FacadeStore_proofs`**, for any number of threads, handles, sinks and positions.

- `StoreInvariant`: type correctness and `IInv`. None of the properties is
  inductive alone. That the store is allocated under a running method needs the
  count to be exact (`CountOK`), which needs a thread to work only on an object
  that counts (`WorkOK`) and nobody else to be releasing that object
  (`ReleaseOK`). That a running sink is the installed one (`SinkOK`) needs the
  lock to have one owner (`LockOK`); that an installed sink is hooked needs
  `HookOK`, which also says what a bracket implies. `ClosedOK` says what a close
  left behind.
- `StoreLifetime`, `StoreSinks`, `SinksAreHooked`, `ClosedIsFinal` follow from it.
  `StoreLifetime` is also that the last reference frees the store, which the runs check
  as part of `ContractSpec`.
- `QuietBracket`: the invariant `QuietOK` says of a bracket that its client has only pushed
  in: the kernel's live registration is gone, one is saved, and the sink that the store
  remembers is still the one the push found. Every other call of any thread leaves these
  alone, or ends the bracket's being quiet, or has closed the store (`QuietStep`).
- `StoreImplementsContract`: initial states map to initial states, and each
  action to a contract step or a stutter, case by case.

**`FacadeProcess_proofs`**, for any number of threads and stores, whatever their sinks
call and however deep.

- `ProcessInvariant`: type correctness and `IInv`. That the count is exact needs to know
  who is about to drop a reference (`DropOK`), and that only the thread in the
  section frees; that there is one library follows from the count. That one thread is
  inside a store needs the entry count to be the number of the owner's frames in that
  store (`DepthOK`), which is also why the last return, and no earlier one, frees it.
- `LibraryIsThere`, `LibraryIsOne`, `OneThreadPerStore` follow. None of them uses that
  the sinks call one way: only `EveryCallReturns` does.

**`FacadeTree_proofs`**, for trees of any size, any names and any `MaxDepth`.

- The invariant is `GoodHeap`: the cells have their types, a row names allocated cells,
  each once and never the root, a cell is in one row at most, and siblings differ in
  name. `TypeOK` and `NamesUnique` (`HeapIsTyped`, `SiblingsDiffer`) are not inductive
  without the one parent: freeing a subtree leaves no dangling child only because
  nothing outside the subtree links into it below its top (`SubtreeFacts`). That the
  heap has no cycle is nowhere needed.
- Every call also keeps the names of a row apart over time (`KeysStay`: no row has a name
  for one child before the call and for another after it). `HandlesKeepTheirNode` follows by the
  first step at which the two walks along a route part.
- `RefusalsAreHarmless`: a node with one parent has one depth (`ChainsAreAsLong`), so
  what a declare below a node `MaxDepth` steps down creates or assigns is on no route.
- `ChangesAreFlagged`: call by call. `Walk` is a recursive function: that it exists, and
  hence obeys its equation, is by the least length at which it would not.

**`FacadePaths_proofs`**, again for trees of any size and any `MaxDepth`.

- First what a call makes of the heap, said once, without the guards and the answers
  (`CallMakes`, `NextMakes`): a child more, a value, a subtree less, a row less, a
  name, a move, a pair more or less, a fresh tree. A new invariant is then a matter of
  ten shapes and not of a dozen calls.
- The invariant added is `Named`: every node but the root has a usable name and has
  saved only such. Without it a path could be written that is not read back.
- `ParsedAsWritten`, `WrittenAsParsed`: `FormatRoute` and `ParseRoute` are each other's
  inverse on routes and on the paths that parse. `FlattenSeq`, which joins the
  steps, is a recursive function: that it obeys its equation is by the least length at
  which it would not, as for `Walk`.
- The search by position is sound and complete (`SearchIsSound`, `SearchIsComplete`): what
  it finds leads to the position, and what a route of at most `MaxDepth` steps leads to it
  finds. It is a recursive function of the depth left, and the argument is by the greatest
  depth at which it would be wrong. `FindFirst` of a row is the least index that fits.
- `LookupsFindTheirNode` puts these together with `HandleOfChild`: one step further along
  a route that resolves, by a name the row has, resolves to that child.
- `TreeIsAMap` is that `Spec` implements `PathMapSpec`. The invariant added is that
  every node has a path (`\E f : ArePaths(heap, f)`): each hangs under another, up to the
  root. Without it the tree could hold a ring of cells no path leads to. Paths
  belong to one node each (`PathsDiffer`) and a subtree is what lies below a path
  (`SubtreeIsBelow`), both by a least length; so `PathView`, written with `CHOOSE` and a
  recursive function, is the map the paths give (`ViewFacts`). Then each shape of a call
  leaves paths (`GrownPaths`, `CutPaths`, `HungPaths`, ...) and makes one step of the map
  (`GrownMaps`, `PrunedMaps`, `HungMaps`, `RestoredMaps`, ...). A rename, a move and a pop
  are one argument: what is below `c` hangs at another path, and no two nodes meet there,
  because siblings differ in the heap that results. `Named` is needed too: the root's
  saved pairs have no name, so a pop leaves it at the empty path.

**`ComValues_proofs`**, for integers of any widths and any number of cells.

- `ContainerInvariant`: every cell is a `GoodCell`, that is, its bits are those of what
  its last writer gave, which fits (`StoredOK`), and its type and room are those it was
  made with (`MakeOK`). `ReadsBackAsGiven` alone is not inductive: the room of a text is
  bounded by its bytes in use, so `bits = given` is carried too. The arithmetic is in
  two lemmas: `Wrap` (a value is wrapped at most once by `%`) and `FittingIsKept`
  (what `IntFits` accepts, the cast and the read give back). An unsigned integer as
  wide as a `long long` needs that the value *was* a `long long`.
- `ValuesReadBack`, `CellsStayAsMade`, `ChangesAreFlagged` follow.
- `ComCallsAreFacadeCalls` is that `ComSpec` implements `Spec`.
  Whatever a conversion yields lies in the values the facade's own callers may give
  (`Converted`, `Handed`), so each of the client's calls is a call of the facade or
  leaves it alone. `ComClientReadsBack` and `ComClientIsToldOfChanges` carry the
  container's theorems over.
- `RefusalsSayWhy`: what each of the client's calls answers, verb by verb; that the facade's
  codes become this tier's is by the numbers of both headers.
- `ValuesCross`: a number or text written is converted to one that is stored as it is or
  refused (`FittingIsKept` again, after the conversion); reading gives a VARIANT whose
  conversion back is what is stored. It needs `StoredOK`: what a facade program
  wrote fits its cell too.

**`ComEvents_proofs`**, for any number of clients and sinks and any queue bound.

- `EventsInvariant`: `WakeInv` (a lost wake-up is impossible from the moment the
  thread last found the queue empty, not only while it waits), the balance
  `NothingVanishes`, `OrderInv` (the queue is increasing, everything
  heard lies before the event in hand, that before the queue), `HandInv`,
  `DeathInv`.
- `NoWakeupIsLost`, `EveryChangeIsAccounted`, `SinksHearInOrder`,
  `ThreadOutlivesItsClients` follow. `DispatchThreadIsJoined` holds only with
  `JoinTimesOut = FALSE`; `events_join` shows that the premise is needed.

**`ComWalk_proofs`**, for trees of any size and shape and any depth limit.

- `WalkInvariant`: type correctness, `WalkerIInv` and `ComIInv`. That the levels are one
  path is not inductive without the facts that each level's cursor is among its own
  children or at their end, and that a fresh level stands on the first of them.
- `PathLeadsToTheStop`: the names in place (`ComIInv`) and the levels being a path give
  that each name is found under the one before.
- `WalkMeetsAllInOrder`: the first child of an element is the next line of the outline
  (`FirstChildIsNext`), and the next sibling of an element, or of the innermost of its
  ancestors that has one, is the first line not under it (`PastIsSibling`,
  `SiblingIsPast`): all that lies between has its parent there too. The least
  element of a set exists by the library's `WFMin`; there is no induction over the tree.
- `PushTellsWhetherItDescended`: by the answers of `Push`.

**`ComCursor_proofs`**, for any number of cursors and names, and an owner at any depth.

- The invariant is `TypeOK`, `DanglingIsNoticed` and `ForEachMayDelete` together, in one
  part for each variable; it is inductive as it stands (`CursorTypes`, `NoDanglingUse`,
  `ForEachMissesNothing`). `ForEachMayDelete` speaks of owners above `MAX_DEPTH` only, for
  at `MAX_DEPTH` the code misses children (section 5); there nothing is claimed of a For
  Each but its type. Most of the work is in lemmas about rows: inserting,
  removing and renaming keep a sequence of distinct names one.
- `SeekKeepsTheIndex`: the action property, from the same invariant.

Only model-checked: liveness (`EveryCallReturns`, `QueueDrains`,
`FinalReleaseReturns`, the `LoopEnds`), which needs fairness and is out of the
prover's reach.

## 5. Findings

Each is a run that TLC refutes; the run's property states the quoted text.

- **The object can be deleted under its dispatch thread** (`events_join`).
  `FinalRelease` ignores the result of a bounded wait (`com/ComStore.cpp` 201).
  The comment at 29-31 says a handler cannot be running then, since it implies a
  reference; the thread holds none, and a change queued before the last Release
  reaches a handler after it.
- **An event carries the path of now** (`events_stale_path`). The path is
  resolved at dispatch; a renamed node arrives under its new path, where
  `com/ComStore.cpp` 628-630 says it "comes back empty" and `ComStore.h` 62-64 that
  it "travels with the copy".
- **A release works on the kernel outside the lock** (`store_unlocked_release`),
  against "in every method of every object" (`MsgFacade.h` 113-114).
- **A declare refused for depth has changed the store and no cursor knows**
  (`cursor_deep_declare`). `CMsgField::Declare` returns before `BumpMutation`
  (`com/ComField.cpp` 355), against "Bumped by every write anywhere in this store"
  (`com/ComStore.h` 161); the next call on an open cursor uses its stale position.

Observed while modelling, and in the models as the code has it, but with no run
of its own:

- `DeclareList` and `DeclareVect` at the depth limit succeed and hand out a container
  handle that no call can resolve (`FacadeNode.cpp` 699), where `MsgFacade.h` 294-297
  has the facade refuse "to mint a node it could not re-walk".
- A For Each over the children of an owner at the depth limit hands out nothing of what
  is there, and reports nothing. `MakeFieldEnum` goes on past a child that cannot be made
  into a node (`com/ComCursor.cpp` 514-516), and below an owner at `MAX_DEPTH` none can
  (`FacadeNode.cpp` 56-57, 521), where the comment at 495 has it collect "Every child of
  `pOwner` in `uScope`". Children do come to be there: `DeclareList` and `DeclareVect`
  succeed, and a refused declare leaves its child; `Count` counts them. With
  `OwnerDepth = MaxDepth` TLC finds `EveryChildIsCollected` violated, in one step.
- After a shorter `SetTextAt` a list's text can no longer take one as long as the
  cell was created with: the bound is the bytes in use (`FacadeInternal.cpp` 433-445),
  where `MsgFacade.h` 430-431 has it that a value "FITS the storage it was created with".
- A handle on a container nested in a vect is an element index
  (`FacadeContainer.cpp` 494), so deleting an earlier element makes it another
  element's.
- A vect index of 2^31 or more is cast to `int` and passes the vect's test of the
  count, though not that of `ResolveObject` (`FacadeStore.cpp` 261-262).
- `DeclareVect` with a BLOB, a GUID or no type at all makes elements of INT32; a
  retype to BSTR16 stores a WSTR16. `MsgFacade.h` says that a vect grows; no verb
  makes one longer than it was declared.
- `NodeFromPath` keeps the caller's spelling in the route (`FacadeStore.cpp` 742),
  where the comment at `FacadeNode.cpp` 485-487 has routes in the stored case.
- `Clear` inside a bracket re-enables paging (`FacadeStore.cpp` 583). The bracket
  properties are stated for brackets without a `Clear`.
- A COM cursor that has walked off the end keeps its last index, so any change of
  the store brings it back there; and one whose index is past the end of a
  shortened collection is rebuilt on the *first* element, for the answer of the
  seek is not looked at (`ComCursor.cpp` 111-114).
- A pop does not bring the pushed sink back after a `SetPaging` in the bracket: only the
  kernel's registration is restored, and `m_pPaging` keeps what the `SetPaging` put there
  (`FacadeStore.cpp` 913, 1034), where `MsgFacade.h` 880-883 has the pop restore the
  sink. The smoke test pops without one in between (`FacadeSmokeTest.cpp` 1461-1473).
- A COM `Push` at an item with nothing under it answers depth 0 at any depth, for the
  facade writes none (`com/ComWalk.cpp` 168, `FacadeCursor.cpp` 490-495), so of
  "the depth answered says which happened" (`com/MsgcoreCom.idl` 752) only what
  `PushTellsDescent` states holds.
- A sink that calls its own store does not deadlock, as `MsgFacade.h` 342-343 has it: a
  Windows critical section lets its owner in again (`FacadeStore.h` 173-178). What the
  call then finds of a kernel in the middle of a change is the kernel's.
- Two stores whose sinks call into each other deadlock: each sink runs with its own
  store's lock held (`FacadeStore.cpp` 776-787). With `CallsOut` both ways TLC finds it.
- A vect's `Item` past the end answers Empty and success (`com/ComColl.cpp` 974-980),
  where the comment at 1204-1205 has `Item` report `msgcRange`.
- A value put in place is taken as Automation converts it: Empty becomes 0 or an
  empty text, which `Declare` refuses as a forgotten argument
  (`com/ComUtil.cpp` 599-604); a fraction put into an integer is rounded; True is -1,
  so an unsigned integer refuses it with `msgcLimit`.
- A `VT_UI4` of 2^31 or more cannot be declared, for it is converted to a Long first
  (`com/ComUtil.cpp` 611-614), though the store has a type for it.
- Two `Push`es between two moves leave an empty step in the COM walker's path
  until the next move at that depth (`com/ComWalk.cpp` 111).
- A release of the store handle while another thread waits in a call on it wakes
  that thread in a deleted critical section, where the comment at
  `FacadeStore.cpp` 193-195 has it find the store closed.

## 6. What the models leave out

*FacadeStore.* Trees and files (`Access`, `Load` and `Save` are steps without content);
kernel registration calls that throw.

*FacadeProcess.* What a method does; a store's own reference count (`FacadeStore` has
it): a store is released when nobody is inside a call on it. The library's pure
functions (names, types, wildcards) and a failed allocation.

*FacadeTree.* Invalid scopes and null pointers; elements of lists and vects;
wildcard lookups; timestamps; what makes a value unfit (`FacadeContainer` has
that); the rename of the root. The
kernel's heap limit is a missing free position, answered `E_CORE`
(`MsgFacade.h` 918-920); a kernel that refuses is `E_CORE` too. `PathMap`'s `Keep`
stands for every call that is refused or changes nothing but the order of siblings.

*FacadeContainer.* The content of texts, blobs and GUIDs; reals; containers nested
in a vect; the names and kinds of elements; indices of 2^31 and more; a holder that
is gone, which is `FacadeTree`'s.

*ComValues.* Dates, reals, byte arrays and the content of texts, so also which texts
are numbers; `TypeAt`, `NameAt`, `IsData`, and a field's name and kind; access by
name; negative indices; a closed store; the sentence that `Fail` puts beside a code.

*ComEvents.* The tree is one path per position. Fetching a sink's proxy and
invoking it are one step. An event pushed between the last empty pop and the
quit check is never delivered, for the object is dying. `CreateNew` and `Close`
keep the queue. Each sink is advised at most once. TLC runs one sink, the proof
any number.

*FacadeWalker.* The tree is fixed while a walker is open (`MsgFacade.h`
133-139). An element stands for its name. `WalkIsInOrder` and `PathIsTheStop` are for
walks that push once between two moves.

*ComCursor.* Counter values and their wrap-around; indices of 2^31 and more; the nodes
and texts that `Look` hands out; one For Each at a time, and none that somebody
else changes the store under; a For Each that runs out of memory or whose kernel cursor
fails on a child, which it passes over like one it cannot make.

*Files.* What the kernel writes and reads, and what a load that fails half-way leaves in
the heap, is not in this repository; without it nothing can be said of the remembered
file name (`m_strFile`) but its assignments.

*The paging adapter* of `CMsgStore` stores the registering thread and never compares it
(`com/ComStore.cpp` 845): there is no behaviour to relate to it. What it hands on is
`FacadeStore`'s `SetPaging`, `PushPaging` and `PopPaging`.

*Not modelled at all.* The module, IDL and registration code, the client's RAII
header and the build have no state of the program's own.

## 7. What could come next

1. In `ComValues`, elements by name and nested containers; in `FacadeContainer`, handles
   on containers nested in a vect.
2. An abstract event feed that `ComEvents` implements.

New questions are best merged into the runs there are where their state allows, so
that the whole project stays quick to check.
