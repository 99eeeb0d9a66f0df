---------------------------- MODULE FacadeStore ----------------------------
(***************************************************************************)
(* One FacadeStore (src/src/FacadeStore.cpp) as its clients' threads see   *)
(* it: the one lock every method opens with (StoreGuard), the reference    *)
(* every node, list, vect, cursor and walker holds on the store, the       *)
(* closing Release, and the two client sinks (change events and demand     *)
(* paging) which the Msgcore kernel calls back into while the lock is      *)
(* held.                                                                   *)
(*                                                                         *)
(* The kernel is not part of the repository.  What it is asked to remember *)
(* (a trigger sink, a live and a saved paging registration, the armed      *)
(* positions) is the record `core' and the set `armed', modelled from how  *)
(* FacadeStore.cpp uses and describes them.                                *)
(*                                                                         *)
(* The tree itself is not here: a method that only reads or writes the     *)
(* tree is Access.  What the tree does is the subject of FacadeTree.       *)
(***************************************************************************)
EXTENDS Naturals, FiniteSets

CONSTANTS
    Thread,        \* client threads
    Node,          \* identities for node, list and vect handles (route holders)
    Cursor,        \* identities for cursor and walker handles (they hold kernel objects)
    Store,         \* the client's one store handle
    EventSink,     \* client IMsgStoreEvents objects
    PagingSink,    \* client IMsgPagingEvents objects
    Pos,           \* node positions that can be armed
    None           \* a null pointer

Handle == Node \cup Cursor
Object == Handle \cup {Store}
Sink   == EventSink \cup PagingSink

ASSUME StoreAssumption ==
    /\ IsFiniteSet(Handle)
    /\ Node \cap Cursor = {}
    /\ EventSink \cap PagingSink = {}
    /\ Store \notin Handle
    /\ None \notin Object \cup Sink \cup Thread

VARIABLES
    alive,            \* the FacadeStore object and its P2PmsgMgr are allocated
    m_cRef,           \* the store's reference count
    live,             \* the objects whose reference m_cRef still counts
    m_bClosed,
    m_pEvents,        \* the installed change sink, or None
    m_pPaging,        \* the installed paging sink, or None
    m_nPagingPushed,  \* outstanding PushPaging brackets, as the facade counts them
    core,             \* what the kernel's manager has registered
    armed,            \* positions with a trigger registered in the manager
    owner,            \* the thread inside m_oCSection, or None
    thr               \* what each client thread is doing

vars == <<alive, m_cRef, live, m_bClosed, m_pEvents, m_pPaging,
          m_nPagingPushed, core, armed, owner, thr>>

sinkVars == <<m_pEvents, m_pPaging, m_nPagingPushed, core, armed>>
refVars  == <<alive, m_cRef, live, m_bClosed>>

(***************************************************************************)
(* A thread is idle, waiting for the lock inside a method of `on' (call),  *)
(* inside that method with the lock (in), inside a client sink the kernel  *)
(* called from that method (sink), in IMsgStore::Release before and after  *)
(* the closing block (closing, closed), or in a cursor's destructor (dtor).*)
(***************************************************************************)
Phase == {"idle", "call", "in", "sink", "closing", "closed", "dtor"}

Activity == [at : Phase, on : Object \cup {None}, sink : Sink \cup {None}]

Idle == [at |-> "idle", on |-> None, sink |-> None]

Doing(phase, o) == [at |-> phase, on |-> o, sink |-> None]

\* What a manager holds: the trigger sink is hooked, a paging registration is
\* live, and the one-slot save of PageRegistrationPush is filled.
Registration == [trig : BOOLEAN, page : BOOLEAN, saved : BOOLEAN]

NothingHooked == [trig |-> FALSE, page |-> FALSE, saved |-> FALSE]

TypeOK ==
    /\ alive \in BOOLEAN
    /\ m_cRef \in Nat
    /\ live \in SUBSET Object
    /\ m_bClosed \in BOOLEAN
    /\ m_pEvents \in EventSink \cup {None}
    /\ m_pPaging \in PagingSink \cup {None}
    /\ m_nPagingPushed \in {0, 1}
    /\ core \in Registration
    /\ armed \in SUBSET Pos
    /\ owner \in Thread \cup {None}
    /\ thr \in [Thread -> Activity]

\* FacadeStore::Create or ::Open: a new manager, one reference (the client's).
Init ==
    /\ alive = TRUE
    /\ m_cRef = 1
    /\ live = {Store}
    /\ m_bClosed = FALSE
    /\ m_pEvents = None
    /\ m_pPaging = None
    /\ m_nPagingPushed = 0
    /\ core = NothingHooked
    /\ armed = {}
    /\ owner = None
    /\ thr = [t \in Thread |-> Idle]

-----------------------------------------------------------------------------
(***************************************************************************)
(* The client's discipline: it calls on an object it has not released, and *)
(* releases an object no thread is using.                                  *)
(***************************************************************************)
Releasing(o) == \E t \in Thread : /\ thr[t].on = o
                                  /\ thr[t].at \in {"closing", "closed", "dtor"}

InUse(o) == \E t \in Thread : thr[t].on = o

\* The client calls a method of o; the StoreGuard is waiting for the lock.
Call(t, o) ==
    /\ thr[t] = Idle
    /\ o \in live
    /\ ~Releasing(o)
    /\ thr' = [thr EXCEPT ![t] = Doing("call", o)]
    /\ UNCHANGED <<refVars, sinkVars, owner>>

\* StoreGuard's constructor: Section().Lock().
Enter(t) ==
    /\ thr[t].at = "call"
    /\ owner = None
    /\ owner' = t
    /\ thr' = [thr EXCEPT ![t] = Doing("in", thr[t].on)]
    /\ UNCHANGED <<refVars, sinkVars>>

\* ~StoreGuard: Section().Unlock(), and the method returns.
Leave(t) ==
    /\ owner' = None
    /\ thr' = [thr EXCEPT ![t] = Idle]

\* Mutant: the early return forgets to unlock.
RefusedHoldingTheLock(t) ==
    /\ thr[t].at = "in"
    /\ m_bClosed
    /\ thr' = [thr EXCEPT ![t] = Idle]
    /\ UNCHANGED <<refVars, sinkVars, owner>>

\* StoreGuard::Failed answers MSGF_E_CLOSED; nothing behind it runs.
Refused(t) ==
    /\ thr[t].at = "in"
    /\ m_bClosed
    /\ Leave(t)
    /\ UNCHANGED <<refVars, sinkVars>>

\* Mutant: the m_bClosed test is dropped.
AdmittedClosed(t) == thr[t].at = "in"

\* The guard has let the call through.
Admitted(t) ==
    /\ thr[t].at = "in"
    /\ ~m_bClosed

\* ... and it is a method of the store handle itself.
OnStore(t) == Admitted(t) /\ thr[t].on = Store

\* Mutant: the lock is released around the client's sink.
TrampUnlocked(t, sink) ==
    IF m_bClosed \/ sink = None
    THEN Leave(t)
    ELSE /\ thr' = [thr EXCEPT ![t] = [at |-> "sink", on |-> thr[t].on, sink |-> sink]]
         /\ owner' = None

\* The kernel has called a trampoline.  It calls the client's sink, with the
\* lock held, if the facade has one to call; otherwise it returns at once.
Tramp(t, sink) ==
    IF m_bClosed \/ sink = None
    THEN Leave(t)
    ELSE /\ thr' = [thr EXCEPT ![t] = [at |-> "sink", on |-> thr[t].on, sink |-> sink]]
         /\ UNCHANGED owner

TriggerTramp(t) == Tramp(t, m_pEvents)

\* PageInTramp and PageOutTramp: the same test on the other sink.
PageTramp(t) == Tramp(t, m_pPaging)

\* The client's sink returns, and with it the method that was running it.
SinkReturns(t) ==
    /\ thr[t].at = "sink"
    /\ Leave(t)
    /\ UNCHANGED <<refVars, sinkVars>>

-----------------------------------------------------------------------------
(***************************************************************************)
(* Methods, each one body under the lock.                                  *)
(***************************************************************************)

\* Any method that leaves the store's own state alone.  The kernel may fault a
\* subtree in on the way (a paging callback during an ordinary read).
Access(t) ==
    /\ Admitted(t)
    /\ \/ Leave(t)
       \/ core.page /\ PageTramp(t)
    /\ UNCHANGED <<refVars, sinkVars>>

\* Mutant: the new object forgets its AddRef.
MakeUncounted(t, h) ==
    /\ Admitted(t)
    /\ h \in Handle \ live
    /\ thr[t].on \notin Node => h \in Node
    /\ live' = live \cup {h}
    /\ Leave(t)
    /\ UNCHANGED <<alive, m_cRef, m_bClosed, sinkVars>>

\* Make: a method that hands out a new object takes a reference for it.  A
\* cursor hands out only nodes (GetNode), the store only nodes (GetRoot,
\* NodeFromPath, NodeFromPos); a node hands out anything.
Make(t, h) ==
    /\ Admitted(t)
    /\ h \in Handle \ live
    /\ thr[t].on \notin Node => h \in Node
    /\ live' = live \cup {h}
    /\ m_cRef' = m_cRef + 1
    /\ Leave(t)
    /\ UNCHANGED <<alive, m_bClosed, sinkVars>>

\* A method that frees an armed node (Delete, Truncate, Cursor::Delete): the
\* kernel fires DELETE by itself.  Whether the registration dies with the node
\* is the kernel's business.
FreeArmed(t, p) ==
    /\ Admitted(t)
    /\ p \in armed
    /\ armed' \in {armed, armed \ {p}}
    /\ IF core.trig THEN TriggerTramp(t) ELSE Leave(t)
    /\ UNCHANGED <<refVars, m_pEvents, m_pPaging, m_nPagingPushed, core>>

SetEvents(t, s) ==
    /\ OnStore(t)
    /\ s \in EventSink \cup {None}
    /\ m_pEvents' = s
    /\ core' = [core EXCEPT !.trig = (s # None)]
    /\ Leave(t)
    /\ UNCHANGED <<refVars, m_pPaging, m_nPagingPushed, armed>>

Arm(t, p) ==
    /\ OnStore(t)
    /\ armed' = armed \cup {p}
    /\ Leave(t)
    /\ UNCHANGED <<refVars, m_pEvents, m_pPaging, m_nPagingPushed, core>>

Disarm(t, p) ==
    /\ OnStore(t)
    /\ armed' = armed \ {p}
    /\ Leave(t)
    /\ UNCHANGED <<refVars, m_pEvents, m_pPaging, m_nPagingPushed, core>>

Fire(t, p) ==
    /\ OnStore(t)
    /\ IF p \in armed /\ core.trig THEN TriggerTramp(t) ELSE Leave(t)
    /\ UNCHANGED <<refVars, sinkVars>>

SetPaging(t, s) ==
    /\ OnStore(t)
    /\ s \in PagingSink \cup {None}
    /\ m_pPaging' = s
    /\ core' = [core EXCEPT !.page = (s # None)]
    /\ Leave(t)
    /\ UNCHANGED <<refVars, m_pEvents, m_nPagingPushed, armed>>

\* PageIn and PageOut: the kernel asks the registered callback, if there is one.
PageInOut(t) ==
    /\ OnStore(t)
    /\ IF core.page THEN PageTramp(t) ELSE Leave(t)
    /\ UNCHANGED <<refVars, sinkVars>>

\* Refused (MSGF_E_STATE) inside a bracket and with no sink installed.
PushRefused == m_nPagingPushed # 0 \/ m_pPaging = None

\* Mutant: the facade trusts the core's push to clear the live registration.
PushPagingLeavesLive(t) ==
    /\ OnStore(t)
    /\ IF PushRefused
       THEN UNCHANGED <<m_nPagingPushed, core>>
       ELSE /\ core' = [core EXCEPT !.saved = core.page]
            /\ m_nPagingPushed' = m_nPagingPushed + 1
    /\ Leave(t)
    /\ UNCHANGED <<refVars, m_pEvents, m_pPaging, armed>>

\* The core's push copies the live registration into its one slot and leaves
\* it live; the facade then clears the live one.
PushPaging(t) ==
    /\ OnStore(t)
    /\ IF PushRefused
       THEN UNCHANGED <<m_nPagingPushed, core>>
       ELSE /\ core' = [core EXCEPT !.saved = core.page, !.page = FALSE]
            /\ m_nPagingPushed' = m_nPagingPushed + 1
    /\ Leave(t)
    /\ UNCHANGED <<refVars, m_pEvents, m_pPaging, armed>>

\* PopPaging is refused outside a bracket; inside, the core's pop moves the
\* saved registration back.
PopPaging(t) ==
    /\ OnStore(t)
    /\ IF m_nPagingPushed = 0
       THEN UNCHANGED <<m_nPagingPushed, core>>
       ELSE /\ core' = [core EXCEPT !.page = core.saved, !.saved = FALSE]
            /\ m_nPagingPushed' = m_nPagingPushed - 1
    /\ Leave(t)
    /\ UNCHANGED <<refVars, m_pEvents, m_pPaging, armed>>

\* Mutant: the client's sinks are not registered with the new manager.
RehookedNothing == NothingHooked

\* What the new manager of Clear is told about: the sinks the store still has.
Rehooked == [trig |-> m_pEvents # None, page |-> m_pPaging # None, saved |-> FALSE]

\* The bracket count after Clear: the saved registration went with the manager.
PushedAfterClear == 0

\* Replace the manager.  Its registrations and armed positions go with it; a
\* construction failure leaves the store as it was.
Clear(t) ==
    /\ OnStore(t)
    /\ \/ UNCHANGED <<m_nPagingPushed, core, armed>>
       \/ /\ core' = Rehooked
          /\ m_nPagingPushed' = PushedAfterClear
          /\ armed' = {}
    /\ Leave(t)
    /\ UNCHANGED <<refVars, m_pEvents, m_pPaging>>

\* Load rebuilds the heap inside the same manager: its sinks stay hooked.  What
\* becomes of the armed positions is the kernel's business.
Load(t) ==
    /\ OnStore(t)
    /\ armed' \in {armed, {}}
    /\ Leave(t)
    /\ UNCHANGED <<refVars, m_pEvents, m_pPaging, m_nPagingPushed, core>>

-----------------------------------------------------------------------------
(***************************************************************************)
(* Releasing.                                                              *)
(***************************************************************************)

\* ReleaseRef: drop o's reference; the last one deletes the store, whose
\* destructor unhooks the manager and deletes it -- outside the lock.
ReleaseRef(o) ==
    /\ live' = live \ {o}
    /\ m_cRef' = m_cRef - 1
    /\ IF m_cRef - 1 = 0
       THEN /\ alive' = FALSE
            /\ core' = NothingHooked
            /\ armed' = {}
            /\ m_pPaging' = None
       ELSE UNCHANGED <<alive, core, armed, m_pPaging>>

\* IMsgStore::Release is called.
ReleaseStore(t) ==
    /\ thr[t] = Idle
    /\ Store \in live
    /\ ~Releasing(Store)
    /\ ~InUse(Store)
    /\ thr' = [thr EXCEPT ![t] = Doing("closing", Store)]
    /\ UNCHANGED <<refVars, sinkVars, owner>>

\* Mutant: the closing block runs outside the lock.
CloseUnlocked(t) ==
    /\ thr[t].at = "closing"
    /\ m_bClosed' = TRUE
    /\ m_pEvents' = None
    /\ m_pPaging' = None
    /\ core' = [core EXCEPT !.trig = FALSE, !.page = FALSE]
    /\ thr' = [thr EXCEPT ![t] = Doing("closed", Store)]
    /\ UNCHANGED <<alive, m_cRef, live, m_nPagingPushed, armed, owner>>

\* Close first, under the lock.  (Lock, block and Unlock are one step: nothing
\* in the block calls out.)
Close(t) ==
    /\ thr[t].at = "closing"
    /\ owner = None
    /\ m_bClosed' = TRUE
    /\ m_pEvents' = None
    /\ m_pPaging' = None
    /\ core' = [core EXCEPT !.trig = FALSE, !.page = FALSE]
    /\ thr' = [thr EXCEPT ![t] = Doing("closed", Store)]
    /\ UNCHANGED <<alive, m_cRef, live, m_nPagingPushed, armed, owner>>

\* ... then drop the client's reference, outside it.
DropStore(t) ==
    /\ thr[t].at = "closed"
    /\ ReleaseRef(Store)
    /\ thr' = [thr EXCEPT ![t] = Idle]
    /\ UNCHANGED <<m_bClosed, m_pEvents, m_nPagingPushed, owner>>

\* A node's, list's or vect's Release: delete this, which drops its reference.
\* No StoreGuard.
ReleaseNode(t, h) ==
    /\ thr[t] = Idle
    /\ h \in live \cap Node
    /\ ~InUse(h)
    /\ ReleaseRef(h)
    /\ UNCHANGED <<m_bClosed, m_pEvents, m_nPagingPushed, owner, thr>>

\* A cursor's or walker's Release, up to its destructor: no StoreGuard either.
ReleaseCursor(t, h) ==
    /\ thr[t] = Idle
    /\ h \in live \cap Cursor
    /\ ~InUse(h)
    /\ thr' = [thr EXCEPT ![t] = Doing("dtor", h)]
    /\ UNCHANGED <<refVars, sinkVars, owner>>

\* The destructor has deleted the kernel cursor and the owner field; it drops
\* the reference last.
DropCursor(t) ==
    /\ thr[t].at = "dtor"
    /\ ReleaseRef(thr[t].on)
    /\ thr' = [thr EXCEPT ![t] = Idle]
    /\ UNCHANGED <<m_bClosed, m_pEvents, m_nPagingPushed, owner>>

-----------------------------------------------------------------------------
Method(t) ==
    \/ Refused(t) \/ Access(t) \/ SinkReturns(t)
    \/ \E h \in Handle : Make(t, h)
    \/ \E p \in Pos : FreeArmed(t, p) \/ Arm(t, p) \/ Disarm(t, p) \/ Fire(t, p)
    \/ \E s \in EventSink \cup {None} : SetEvents(t, s)
    \/ \E s \in PagingSink \cup {None} : SetPaging(t, s)
    \/ PageInOut(t) \/ PushPaging(t) \/ PopPaging(t)
    \/ Clear(t) \/ Load(t)

Release(t) ==
    \/ ReleaseStore(t) \/ Close(t) \/ DropStore(t)
    \/ \E h \in Node : ReleaseNode(t, h)
    \/ \E h \in Cursor : ReleaseCursor(t, h)
    \/ DropCursor(t)

Next == \E t \in Thread :
    \/ \E o \in Object : Call(t, o)
    \/ Enter(t)
    \/ Method(t)
    \/ Release(t)

Spec == Init /\ [][Next]_vars

(***************************************************************************)
(* Fairness: a thread inside the facade keeps running (a sink must not     *)
(* block: MsgFacade.h:369-372), and the critical section is fair to its    *)
(* waiters.  Nothing obliges a client to make or to release anything.      *)
(***************************************************************************)
Fairness == \A t \in Thread :
    /\ WF_vars(Method(t))
    /\ WF_vars(DropStore(t) \/ DropCursor(t))
    /\ SF_vars(Enter(t))
    /\ SF_vars(Close(t))

FairSpec == Spec /\ Fairness

-----------------------------------------------------------------------------
(***************************************************************************)
(* The inductive invariant, in named parts.  None of the properties below  *)
(* is inductive alone: that the store is allocated under a running method  *)
(* rests on the count being exact, on a method running only on an object   *)
(* still counted, and on nobody releasing that object meanwhile.           *)
(***************************************************************************)

\* The count is exact, and the store exists while it is not zero.
CountOK ==
    /\ m_cRef = Cardinality(live)
    /\ alive <=> live # {}

\* A busy thread works on an object that still counts.
WorkOK == \A t \in Thread :
    /\ thr[t].at = "idle" => thr[t] = Idle
    /\ thr[t].at # "idle" => thr[t].on \in live
    /\ thr[t].at \in {"closing", "closed"} => thr[t].on = Store
    /\ thr[t].at = "dtor" => thr[t].on \in Cursor

\* An object being released is in no other thread's hands.
ReleaseOK == \A t, u \in Thread :
    thr[t].at \in {"closing", "closed", "dtor"} /\ thr[u].on = thr[t].on => u = t

\* The owner of the lock is the one thread inside a method or a sink.
LockOK == \A t \in Thread : thr[t].at \in {"in", "sink"} <=> owner = t

\* A closed store has no sink and nothing hooked; a store whose handle has been
\* dropped is closed.
ClosedOK ==
    /\ \A t \in Thread : thr[t].at = "closed" => m_bClosed
    /\ Store \notin live => m_bClosed
    /\ m_bClosed => /\ m_pEvents = None
                    /\ m_pPaging = None
                    /\ ~core.trig
                    /\ ~core.page

\* A running sink is an installed one; no other thread carries a sink.
SinkOK == \A t \in Thread :
    /\ thr[t].at # "sink" => thr[t].sink = None
    /\ thr[t].at = "sink" => /\ ~m_bClosed
                             /\ thr[t].sink \in {m_pEvents, m_pPaging}
                             /\ thr[t].sink # None

\* What the manager has hooked is what the store has installed.
HookOK == ~m_bClosed =>
    /\ core.trig <=> m_pEvents # None
    /\ m_nPagingPushed = 0 => (m_pPaging # None => core.page)
    /\ m_nPagingPushed # 0 => core.saved

IInv == CountOK /\ WorkOK /\ ReleaseOK /\ LockOK /\ ClosedOK /\ SinkOK /\ HookOK

-----------------------------------------------------------------------------
(***************************************************************************)
(* Properties.                                                             *)
(***************************************************************************)

\* A thread that is anywhere inside the facade is inside a store that has not
\* been deleted: no method waits on a freed critical section, no destructor
\* releases a kernel cursor of a deleted manager, and no sink runs under one.
\* It is what FacadeStore.h:22-26 says of lifetime.
NoUseAfterFree == \A t \in Thread : thr[t].at # "idle" => alive

\* The store goes away with the last object rooted in it, no sooner and no
\* later (MsgFacade.h:805-807): nothing leaks and nothing is cut short.
LastReferenceFrees == alive <=> live # {}

\* A sink that is running is the one installed, in an open store.  So once
\* SetEvents, SetPaging or Release has returned, the old sink is not running
\* on any thread and can be destroyed, as MsgFacade.h:349-351 asks of clients.
RunningSinkIsInstalled == \A t \in Thread :
    thr[t].at = "sink" => ~m_bClosed /\ thr[t].sink \in {m_pEvents, m_pPaging}

\* A client that installed a sink did so on the store: it stays hooked in the
\* kernel's manager whatever happens to the manager (FacadeStore.cpp:573-575),
\* the paging one except inside a PushPaging bracket.  There the kernel holds the
\* registration to restore, without which its pop aborts (FacadeStore.cpp:982-987).
InstalledSinkIsHooked == ~m_bClosed =>
    /\ core.trig <=> m_pEvents # None
    /\ m_nPagingPushed = 0 => (m_pPaging # None => core.page)
    /\ m_nPagingPushed # 0 => core.saved

\* From the close on, a store hands out nothing, calls no sink and never
\* reopens (MsgFacade.h:809-811).
ClosedServesNothing == [][ m_bClosed =>
    /\ m_bClosed'
    /\ live' \subseteq live
    /\ \A t \in Thread : thr'[t].at # "sink" ]_vars

\* The kernel is touched by one thread at a time: whoever is inside a method,
\* inside a sink, or deleting a cursor's kernel objects.  MsgFacade.h:113-114
\* says the lock is taken in every method of every object of the store.
TouchesKernel(t) == thr[t].at \in {"in", "sink", "dtor"}

KernelTouchesSerialised == \A t, u \in Thread :
    TouchesKernel(t) /\ TouchesKernel(u) => t = u

\* Every call comes back, Release included.
EveryCallReturns == \A t \in Thread : thr[t].at # "idle" ~> thr[t].at = "idle"

\* The abstract store the client sees.
ClientPhase == IF ~alive THEN "gone" ELSE IF m_bClosed THEN "closed" ELSE "open"

RunningSink == IF \E t \in Thread : thr[t].at = "sink"
               THEN thr[CHOOSE t \in Thread : thr[t].at = "sink"].sink
               ELSE None

Contract == INSTANCE StoreContract WITH
    phase   <- ClientPhase,
    given   <- live,
    events  <- m_pEvents,
    paging  <- m_pPaging,
    running <- RunningSink

\* FacadeStore implements StoreContract.
ContractSpec == Contract!ContractSpec

=============================================================================
