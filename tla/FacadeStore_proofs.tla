------------------------- MODULE FacadeStore_proofs -------------------------
(***************************************************************************)
(* Proofs about FacadeStore and the paging bracket of FacadePaging, for     *)
(* any number of threads, handles and sinks.                               *)
(***************************************************************************)
EXTENDS FacadePaging, FiniteSetTheorems, TLAPS

(* Every set of live objects is finite, so its cardinality behaves.         *)
LEMMA LiveFinite ==
    ASSUME live \in SUBSET Object
    PROVE  IsFiniteSet(live)
<1>1. IsFiniteSet(Object)
  BY FS_AddElement, StoreAssumption DEF Object
<1> QED
  BY <1>1, FS_Subset

(* Taking a reference for a new object keeps the count exact.               *)
LEMMA CountUp ==
    ASSUME live \in SUBSET Object, CountOK, NEW h \in Handle \ live, alive,
           live' = live \cup {h}, m_cRef' = m_cRef + 1, alive' = alive
    PROVE  CountOK' /\ m_cRef' \in Nat
<1>1. Cardinality(live') = Cardinality(live) + 1 /\ Cardinality(live) \in Nat
  BY LiveFinite, FS_AddElement, FS_CardinalityType
<1> QED
  BY <1>1 DEF CountOK

(* Dropping one keeps it exact, and deletes the store at exactly zero.      *)
LEMMA CountDown ==
    ASSUME live \in SUBSET Object, CountOK, NEW o \in live, ReleaseRef(o)
    PROVE  CountOK' /\ m_cRef' \in Nat
<1>1. /\ IsFiniteSet(live')
      /\ Cardinality(live') = Cardinality(live) - 1
      /\ Cardinality(live) \in Nat
      /\ Cardinality(live') \in Nat
  BY LiveFinite, FS_RemoveElement, FS_CardinalityType DEF ReleaseRef
<1>2. Cardinality(live') = 0 <=> live' = {}
  BY <1>1, FS_EmptySet
<1> QED
  BY <1>1, <1>2 DEF CountOK, ReleaseRef

(* A thread that leaves the lock, keeping every object alive, disturbs no   *)
(* other thread.                                                            *)
LEMMA LeaveStep ==
    ASSUME TypeOK, WorkOK, ReleaseOK, LockOK,
           NEW t \in Thread, thr[t].at \in {"in", "sink"}, Leave(t), live \subseteq live'
    PROVE  WorkOK' /\ ReleaseOK' /\ LockOK'
<1> USE DEF TypeOK, Leave, Idle, Activity, Phase
<1>1. WorkOK'
  BY DEF WorkOK
<1>2. ReleaseOK'
  BY StoreAssumption DEF ReleaseOK, WorkOK, Object
<1>3. LockOK'
  BY StoreAssumption DEF LockOK
<1> QED
  BY <1>1, <1>2, <1>3

(* A trampoline either returns at once or enters the sink with the lock.    *)
LEMMA TrampStep ==
    ASSUME TypeOK, WorkOK, ReleaseOK, LockOK, SinkOK,
           NEW t \in Thread, thr[t].at = "in", NEW s \in {m_pEvents, m_pPaging},
           Tramp(t, s), UNCHANGED <<live, m_bClosed, m_pEvents, m_pPaging>>
    PROVE  WorkOK' /\ ReleaseOK' /\ LockOK' /\ SinkOK' /\ thr' \in [Thread -> Activity]
<1> USE DEF TypeOK, Activity, Phase
<1>1. CASE m_bClosed \/ s = None
  <2>1. Leave(t)
    BY <1>1 DEF Tramp
  <2>2. WorkOK' /\ ReleaseOK' /\ LockOK'
    BY <2>1, LeaveStep
  <2>3. SinkOK' /\ thr' \in [Thread -> Activity]
    BY <2>1 DEF SinkOK, Leave, Idle
  <2> QED
    BY <2>2, <2>3
<1>2. CASE ~(m_bClosed \/ s = None)
  <2>1. /\ thr' = [thr EXCEPT ![t] = [at |-> "sink", on |-> thr[t].on, sink |-> s]]
        /\ UNCHANGED owner
    BY <1>2 DEF Tramp
  <2>2. WorkOK' /\ ReleaseOK' /\ LockOK'
    BY <2>1 DEF WorkOK, ReleaseOK, LockOK
  <2>3. SinkOK' /\ thr' \in [Thread -> Activity]
    BY <1>2, <2>1 DEF SinkOK, Sink
  <2> QED
    BY <2>2, <2>3
<1> QED
  BY <1>1, <1>2

(***************************************************************************)
(* The three kinds of step: a method's body under the lock, a thread       *)
(* coming and going, and a release.                                        *)
(***************************************************************************)
Inductive == TypeOK /\ IInv

\* The body of any method keeps the invariant.
LEMMA BodyStep ==
    ASSUME Inductive, NEW t \in Thread, Method(t)
    PROVE  Inductive'
<1> USE DEF Inductive, IInv
<1> DEFINE Threads == WorkOK /\ ReleaseOK /\ LockOK /\ SinkOK /\ thr \in [Thread -> Activity]
<1>0. Leave(t) /\ thr[t].at \in {"in", "sink"} /\ live \subseteq live' /\ m_bClosed' = m_bClosed
         /\ UNCHANGED <<m_pEvents, m_pPaging>> => Threads'
  <2> SUFFICES ASSUME Leave(t), thr[t].at \in {"in", "sink"}, live \subseteq live',
                      m_bClosed' = m_bClosed, UNCHANGED <<m_pEvents, m_pPaging>>
               PROVE  Threads'
    OBVIOUS
  <2>1. WorkOK' /\ ReleaseOK' /\ LockOK'
    BY LeaveStep
  <2>2. SinkOK' /\ thr' \in [Thread -> Activity]
    BY DEF SinkOK, TypeOK, Activity, Phase, Leave, Idle
  <2> QED
    BY <2>1, <2>2
<1>1. CASE Refused(t) \/ SinkReturns(t)
  <2>1. Threads'
    BY <1>0, <1>1 DEF Refused, SinkReturns, refVars, sinkVars
  <2> QED
    BY <1>1, <2>1 DEF Refused, SinkReturns, refVars, sinkVars, TypeOK, Leave, CountOK,
                      ClosedOK, HookOK, Idle
<1>2. CASE Access(t) \/ PageInOut(t) \/ Load(t) \/ \E p \in Pos : Arm(t, p) \/ Disarm(t, p)
  <2>1. UNCHANGED <<refVars, m_pEvents, m_pPaging, m_nPagingPushed, core>>
    BY <1>2 DEF Access, PageInOut, Load, Arm, Disarm, sinkVars
  <2>2. thr[t].at = "in" /\ (Leave(t) \/ Tramp(t, m_pPaging)) /\ armed' \in SUBSET Pos
    BY <1>2 DEF Access, PageInOut, Load, Arm, Disarm, OnStore, Admitted, PageTramp,
                sinkVars, TypeOK
  <2>3. Threads'
    BY <1>0, <2>1, <2>2, TrampStep DEF refVars
  <2>4. owner' \in Thread \cup {None}
    BY <2>2 DEF Tramp, Leave, TypeOK
  <2>5. TypeOK'
    BY <2>1, <2>2, <2>3, <2>4 DEF refVars, TypeOK
  <2>6. CountOK' /\ HookOK'
    BY <2>1 DEF refVars, CountOK, HookOK
  <2>7. ClosedOK'
    BY <2>1, <2>2 DEF refVars, ClosedOK, Tramp, Leave, Idle, TypeOK
  <2> QED
    BY <2>3, <2>5, <2>6, <2>7
<1>3. CASE \E p \in Pos : FreeArmed(t, p) \/ Fire(t, p)
  <2>1. UNCHANGED <<refVars, m_pEvents, m_pPaging, m_nPagingPushed, core>>
    BY <1>3 DEF FreeArmed, Fire, sinkVars
  <2>2. thr[t].at = "in" /\ (Leave(t) \/ Tramp(t, m_pEvents)) /\ armed' \in SUBSET Pos
    BY <1>3 DEF FreeArmed, Fire, OnStore, Admitted, TriggerTramp, sinkVars, TypeOK
  <2>3. Threads'
    BY <1>0, <2>1, <2>2, TrampStep DEF refVars
  <2>4. owner' \in Thread \cup {None}
    BY <2>2 DEF Tramp, Leave, TypeOK
  <2>5. TypeOK'
    BY <2>1, <2>2, <2>3, <2>4 DEF refVars, TypeOK
  <2>6. CountOK' /\ HookOK'
    BY <2>1 DEF refVars, CountOK, HookOK
  <2>7. ClosedOK'
    BY <2>1, <2>2 DEF refVars, ClosedOK, Tramp, Leave, Idle, TypeOK
  <2> QED
    BY <2>3, <2>5, <2>6, <2>7
<1>4. CASE \E h \in Handle : Make(t, h)
  <2> PICK h \in Handle : Make(t, h)
    BY <1>4
  <2>1. Threads'
    BY <1>0 DEF Make, Admitted, sinkVars
  <2>2. alive /\ h \in Handle \ live
    BY DEF Make, Admitted, CountOK, WorkOK
  <2>3. CountOK' /\ m_cRef' \in Nat
    BY <2>2, CountUp DEF Make, TypeOK
  <2>4. TypeOK'
    BY <2>1, <2>2, <2>3 DEF Make, Leave, sinkVars, TypeOK, Object
  <2>5. ClosedOK' /\ HookOK'
    BY DEF Make, Leave, Idle, sinkVars, TypeOK, ClosedOK, HookOK
  <2> QED
    BY <2>1, <2>3, <2>4, <2>5
<1>5. CASE \/ \E s \in EventSink \cup {None} : SetEvents(t, s)
           \/ \E s \in PagingSink \cup {None} : SetPaging(t, s)
           \/ PushPaging(t) \/ PopPaging(t) \/ Clear(t)
  <2> DEFINE Settled == /\ UNCHANGED refVars
                        /\ Leave(t) /\ thr[t].at = "in" /\ ~m_bClosed
                        /\ m_pEvents' \in EventSink \cup {None}
                        /\ m_pPaging' \in PagingSink \cup {None}
                        /\ armed' \in SUBSET Pos
  <2> DEFINE Hooked == core' \in Registration /\ m_nPagingPushed' \in {0, 1} /\ HookOK'
  <2>1. Settled
    <3>1. CASE \E s \in EventSink \cup {None} : SetEvents(t, s)
      BY <3>1 DEF SetEvents, OnStore, Admitted, TypeOK
    <3>2. CASE \E s \in PagingSink \cup {None} : SetPaging(t, s)
      BY <3>2 DEF SetPaging, OnStore, Admitted, TypeOK
    <3>3. CASE PushPaging(t)
      BY <3>3 DEF PushPaging, PushRefused, OnStore, Admitted, TypeOK
    <3>4. CASE PopPaging(t)
      BY <3>4 DEF PopPaging, OnStore, Admitted, TypeOK
    <3>5. CASE Clear(t)
      BY <3>5 DEF Clear, Rehooked, PushedAfterClear, OnStore, Admitted, TypeOK
    <3> QED
      BY <1>5, <3>1, <3>2, <3>3, <3>4, <3>5
  <2>2. Hooked
    <3>1. CASE \E s \in EventSink \cup {None} : SetEvents(t, s)
      BY <3>1 DEF SetEvents, OnStore, Admitted, TypeOK, HookOK, Registration, refVars
    <3>2. CASE \E s \in PagingSink \cup {None} : SetPaging(t, s)
      BY <3>2 DEF SetPaging, OnStore, Admitted, TypeOK, HookOK, Registration, refVars
    <3>3. CASE PushPaging(t)
      <4>1. CASE PushRefused
        BY <3>3, <4>1 DEF PushPaging, OnStore, Admitted, TypeOK, HookOK, refVars
      <4>2. CASE ~PushRefused
        <5>1. /\ m_nPagingPushed = 0 /\ m_nPagingPushed' = 1
              /\ core.page /\ ~m_bClosed
          BY <3>3, <4>2 DEF PushPaging, PushRefused, OnStore, Admitted, TypeOK, HookOK
        <5>2. core' = [core EXCEPT !.saved = core.page, !.page = FALSE]
          BY <3>3, <4>2 DEF PushPaging
        <5>3. /\ core' \in Registration
              /\ core'.trig = core.trig /\ core'.saved = core.page
          BY <5>2 DEF TypeOK, Registration
        <5> QED
          BY <3>3, <5>1, <5>3 DEF PushPaging, HookOK, refVars
      <4> QED
        BY <4>1, <4>2
    <3>4. CASE PopPaging(t)
      <4>1. CASE m_nPagingPushed = 0
        BY <3>4, <4>1 DEF PopPaging, OnStore, Admitted, TypeOK, HookOK, refVars
      <4>2. CASE m_nPagingPushed # 0
        <5>1. /\ m_nPagingPushed = 1 /\ m_nPagingPushed' = 0
              /\ core.saved /\ ~m_bClosed
          BY <3>4, <4>2 DEF PopPaging, OnStore, Admitted, TypeOK, HookOK
        <5>2. core' = [core EXCEPT !.page = core.saved, !.saved = FALSE]
          BY <3>4, <4>2 DEF PopPaging
        <5>3. /\ core' \in Registration
              /\ core'.trig = core.trig /\ core'.page = core.saved
          BY <5>2 DEF TypeOK, Registration
        <5> QED
          BY <3>4, <5>1, <5>3 DEF PopPaging, HookOK, refVars
      <4> QED
        BY <4>1, <4>2
    <3>5. CASE Clear(t)
      <4>1. CASE UNCHANGED <<m_nPagingPushed, core, armed>>
        BY <3>5, <4>1 DEF Clear, TypeOK, HookOK, refVars
      <4>2. CASE core' = Rehooked /\ m_nPagingPushed' = 0
        <5>1. /\ core' \in Registration
              /\ core'.trig <=> m_pEvents # None
              /\ core'.page <=> m_pPaging # None
          BY <4>2 DEF Rehooked, Registration
        <5> QED
          BY <3>5, <4>2, <5>1 DEF Clear, HookOK, refVars
      <4> QED
        BY <3>5, <4>1, <4>2 DEF Clear, PushedAfterClear
    <3> QED
      BY <1>5, <3>1, <3>2, <3>3, <3>4, <3>5
  <2>3. WorkOK' /\ ReleaseOK' /\ LockOK'
    BY <2>1, LeaveStep DEF refVars
  <2>4. \A u \in Thread : u # t => thr[u].at # "sink" /\ thr'[u] = thr[u]
    BY <2>1 DEF LockOK, Leave, TypeOK
  <2>5. SinkOK' /\ thr' \in [Thread -> Activity]
    BY <2>1, <2>4 DEF SinkOK, TypeOK, Activity, Phase, Leave, Idle
  <2>6. ClosedOK'
    BY <2>1, <2>4 DEF ClosedOK, Leave, Idle, TypeOK, refVars
  <2> QED
    BY <2>1, <2>2, <2>3, <2>5, <2>6 DEF refVars, TypeOK, CountOK, Leave
<1> QED
  BY <1>1, <1>2, <1>3, <1>4, <1>5 DEF Method

\* So does a call that comes in and takes the lock.
LEMMA CallStep ==
    ASSUME Inductive, NEW t \in Thread,
           Enter(t) \/ \E o \in Object : Call(t, o)
    PROVE  Inductive'
<1> USE DEF Inductive, IInv, TypeOK, Activity, Phase, Doing, refVars, sinkVars
<1>1. CASE Enter(t)
  <2>1. thr' \in [Thread -> Activity] /\ owner' \in Thread \cup {None}
    BY <1>1 DEF Enter
  <2>2. WorkOK' /\ ReleaseOK'
    BY <1>1 DEF Enter, WorkOK, ReleaseOK
  <2>3. LockOK' /\ SinkOK'
    BY <1>1, StoreAssumption DEF Enter, LockOK, SinkOK
  <2> QED
    BY <1>1, <2>1, <2>2, <2>3 DEF Enter, CountOK, ClosedOK, HookOK
<1>2. CASE \E o \in Object : Call(t, o)
  <2> PICK o \in Object : Call(t, o)
    BY <1>2
  <2>1. thr' \in [Thread -> Activity]
    BY DEF Call
  <2>2. WorkOK' /\ LockOK' /\ SinkOK'
    BY DEF Call, WorkOK, LockOK, SinkOK, Idle
  <2>3. ReleaseOK'
    BY DEF Call, ReleaseOK, Releasing, Idle
  <2> QED
    BY <2>1, <2>2, <2>3 DEF Call, CountOK, ClosedOK, HookOK
<1> QED
  BY <1>1, <1>2

\* So does every step of a release.
LEMMA ReleaseStep ==
    ASSUME Inductive, NEW t \in Thread, Release(t)
    PROVE  Inductive'
<1> USE DEF Inductive, IInv, TypeOK, Activity, Phase, Doing, refVars, sinkVars, Idle
<1>1. CASE ReleaseStore(t) \/ \E h \in Cursor : ReleaseCursor(t, h)
  <2> PICK o \in live : /\ thr[t] = Idle /\ ~InUse(o)
                        /\ \/ o = Store /\ thr' = [thr EXCEPT ![t] = Doing("closing", o)]
                           \/ o \in Cursor /\ thr' = [thr EXCEPT ![t] = Doing("dtor", o)]
                        /\ UNCHANGED <<refVars, sinkVars, owner>>
    BY <1>1 DEF ReleaseStore, ReleaseCursor
  <2>1. thr' \in [Thread -> Activity]
    OBVIOUS
  <2>2. WorkOK' /\ LockOK' /\ SinkOK'
    BY DEF WorkOK, LockOK, SinkOK
  <2>3. ReleaseOK'
    BY DEF ReleaseOK, InUse
  <2> QED
    BY <2>1, <2>2, <2>3 DEF CountOK, ClosedOK, HookOK
<1>2. CASE Close(t)
  <2>1. thr' \in [Thread -> Activity] /\ core' \in Registration
    BY <1>2, StoreAssumption DEF Close, Object, Registration
  <2>2. \A u \in Thread : thr[u].at \notin {"in", "sink"}
    BY <1>2, StoreAssumption DEF Close, LockOK
  <2>3. WorkOK' /\ LockOK' /\ SinkOK'
    BY <1>2, <2>2, StoreAssumption DEF Close, WorkOK, LockOK, SinkOK
  <2>4. ReleaseOK'
    BY <1>2 DEF Close, ReleaseOK, WorkOK
  <2> QED
    BY <1>2, <2>1, <2>3, <2>4 DEF Close, CountOK, ClosedOK, HookOK, Registration
<1>3. CASE DropStore(t) \/ DropCursor(t) \/ \E h \in Node : ReleaseNode(t, h)
  <2> DEFINE Drops(o) ==
        /\ ReleaseRef(o)
        /\ \A u \in Thread : thr'[u].at # "idle" => thr'[u].on # o
        /\ \/ thr' = thr
           \/ thr' = [thr EXCEPT ![t] = Idle] /\ thr[t].at \in {"closed", "dtor"}
        /\ o = Store => m_bClosed
        /\ UNCHANGED <<m_bClosed, m_pEvents, m_nPagingPushed, owner>>
  <2>a. \E o \in live : Drops(o)
    <3>1. CASE DropStore(t)
      <4>1. Store \in live /\ m_bClosed /\ thr[t].on = Store
        BY <3>1 DEF DropStore, WorkOK, ClosedOK
      <4>2. Drops(Store)
        BY <3>1, <4>1 DEF DropStore, ReleaseOK
      <4> QED
        BY <4>1, <4>2
    <3>2. CASE DropCursor(t)
      <4>1. thr[t].on \in live /\ thr[t].on # Store
        BY <3>2, StoreAssumption DEF DropCursor, WorkOK, Handle
      <4>2. Drops(thr[t].on)
        BY <3>2, <4>1 DEF DropCursor, ReleaseOK
      <4> QED
        BY <4>1, <4>2
    <3>3. ASSUME NEW h \in Node, ReleaseNode(t, h) PROVE h \in live /\ Drops(h)
      BY <3>3, StoreAssumption DEF ReleaseNode, InUse, Handle
    <3> QED
      BY <1>3, <3>1, <3>2, <3>3
  <2> PICK o \in live : Drops(o)
    BY <2>a
  <2>1. CountOK' /\ m_cRef' \in Nat
    BY CountDown
  <2>2. live' = {} => m_bClosed
    BY DEF ClosedOK, ReleaseRef
  <2>3. thr' \in [Thread -> Activity]
    BY StoreAssumption DEF Object
  <2>4. WorkOK' /\ ReleaseOK' /\ LockOK'
    BY StoreAssumption DEF WorkOK, ReleaseOK, LockOK, ReleaseRef, Object
  <2>5. /\ armed' \in SUBSET Pos /\ alive' \in BOOLEAN
        /\ live' \in SUBSET Object
        /\ m_pPaging' \in PagingSink \cup {None}
    BY DEF ReleaseRef
  <2>9. core' \in Registration
    <3>1. NothingHooked \in Registration
      BY DEF Registration, NothingHooked
    <3> QED
      BY <3>1 DEF ReleaseRef
  <2>6. m_cRef - 1 = 0 => m_bClosed
    BY <2>1, <2>2 DEF ReleaseRef, CountOK
  <2>7. ClosedOK' /\ HookOK'
    BY <2>6 DEF ClosedOK, HookOK, ReleaseRef, NothingHooked
  <2>8. SinkOK'
    BY <2>6 DEF SinkOK, ReleaseRef
  <2> QED
    BY <2>1, <2>3, <2>4, <2>5, <2>7, <2>8, <2>9
<1> QED
  BY <1>1, <1>2, <1>3 DEF Release

\* A new store satisfies it.
LEMMA InitInductive == Init => Inductive
<1> SUFFICES ASSUME Init PROVE Inductive
  OBVIOUS
<1>1. Cardinality(live) = 1
  BY FS_Singleton DEF Init
<1>2. TypeOK
  BY StoreAssumption DEF Init, TypeOK, Object, Idle, Activity, Phase, Registration, NothingHooked
<1>3. IInv
  BY <1>1, StoreAssumption DEF Init, IInv, CountOK, WorkOK, ReleaseOK, LockOK, ClosedOK, SinkOK,
                               HookOK, Idle, NothingHooked
<1> QED
  BY <1>2, <1>3 DEF Inductive

\* Every step of the store keeps it.
LEMMA NextInductive == Inductive /\ [Next]_vars => Inductive'
<1> SUFFICES ASSUME Inductive, [Next]_vars PROVE Inductive'
  OBVIOUS
<1>1. CASE UNCHANGED vars
  BY <1>1 DEF vars, Inductive, IInv, TypeOK, CountOK, WorkOK, ReleaseOK, LockOK, ClosedOK,
              SinkOK, HookOK
<1>2. CASE Next
  BY <1>2, BodyStep, CallStep, ReleaseStep DEF Next
<1> QED
  BY <1>1, <1>2

(***************************************************************************)
(* The theorems.                                                           *)
(***************************************************************************)

\* Type correctness and the inductive invariant.
THEOREM StoreInvariant == Spec => [](TypeOK /\ IInv)
<1>1. Inductive /\ [Next]_vars => Inductive'
  BY NextInductive
<1> QED
  BY <1>1, InitInductive, PTL DEF Spec, Inductive

\* No thread is ever inside a deleted store, and the store is deleted exactly
\* with the last object rooted in it (the lifetime promise of FacadeStore.h).
THEOREM StoreLifetime == Spec => [](NoUseAfterFree /\ LastReferenceFrees)
<1>1. TypeOK /\ IInv => NoUseAfterFree /\ LastReferenceFrees
  BY DEF IInv, CountOK, WorkOK, NoUseAfterFree, LastReferenceFrees
<1> QED
  BY <1>1, StoreInvariant, PTL

\* The sink that runs is the installed one: whoever clears a sink may destroy it.
THEOREM StoreSinks == Spec => []RunningSinkIsInstalled
<1>1. TypeOK /\ IInv => RunningSinkIsInstalled
  BY DEF IInv, SinkOK, RunningSinkIsInstalled
<1> QED
  BY <1>1, StoreInvariant, PTL

\* An installed sink is hooked in the kernel, and the kernel's pop is never
\* reached with nothing to restore.
THEOREM SinksAreHooked == Spec => []InstalledSinkIsHooked
<1>1. TypeOK /\ IInv => InstalledSinkIsHooked
  BY DEF IInv, HookOK, InstalledSinkIsHooked
<1> QED
  BY <1>1, StoreInvariant, PTL

\* Once closed, a store stays closed, hands out nothing and calls no sink.
THEOREM ClosedIsFinal == Spec => ClosedServesNothing
<1> DEFINE Shut == m_bClosed => /\ m_bClosed'
                               /\ live' \subseteq live
                               /\ \A t \in Thread : thr'[t].at # "sink"
<1>1. Inductive /\ Inductive' /\ [Next]_vars => [Shut]_vars
  <2> SUFFICES ASSUME Inductive, Inductive', Next, m_bClosed
               PROVE  m_bClosed' /\ live' \subseteq live
    BY DEF Inductive, IInv, SinkOK
  <2> PICK t \in Thread : (\E o \in Object : Call(t, o)) \/ Enter(t) \/ Method(t) \/ Release(t)
    BY DEF Next
  <2>1. CASE (\E o \in Object : Call(t, o)) \/ Enter(t)
    BY <2>1 DEF Call, Enter, refVars
  <2>2. CASE Method(t)
    BY <2>2 DEF Method, Refused, Access, SinkReturns, Make, FreeArmed, Arm, Disarm, Fire, SetEvents,
                SetPaging, PageInOut, PushPaging, PopPaging, Clear, Load, OnStore, Admitted, refVars
  <2>3. CASE Release(t)
    BY <2>3 DEF Release, ReleaseStore, Close, DropStore, ReleaseNode, ReleaseCursor, DropCursor,
                ReleaseRef, refVars
  <2> QED
    BY <2>1, <2>2, <2>3
<1>2. Spec => []Inductive
  BY StoreInvariant, PTL DEF Inductive
<1> QED
  BY <1>1, <1>2, PTL DEF Spec, ClosedServesNothing

(***************************************************************************)
(* FacadeStore implements StoreContract.                                   *)
(***************************************************************************)

\* Only the owner of the lock can be in a sink, so the running sink is its.
LEMMA RunningIs ==
    ASSUME Inductive, NEW t \in Thread
    PROVE  /\ thr[t].at = "sink" => RunningSink = thr[t].sink /\ RunningSink # None
           /\ thr[t].at = "in" => RunningSink = None
           /\ owner = None => RunningSink = None
<1>1. \A u \in Thread : thr[u].at = "sink" => owner = u
  BY DEF Inductive, IInv, LockOK
<1>2. thr[t].at \in {"in", "sink"} => owner = t
  BY DEF Inductive, IInv, LockOK
<1>3. owner = None => \A u \in Thread : thr[u].at # "sink"
  BY <1>1, StoreAssumption
<1> QED
  BY <1>1, <1>2, <1>3 DEF RunningSink, Inductive, IInv, SinkOK

\* A step that leaves every thread's sink phase alone leaves RunningSink alone.
LEMMA RunningSame ==
    ASSUME Inductive, Inductive',
           \A u \in Thread : /\ thr'[u].at = "sink" <=> thr[u].at = "sink"
                             /\ thr'[u].at = "sink" => thr'[u].sink = thr[u].sink
    PROVE  RunningSink' = RunningSink
<1>1. CASE \E u \in Thread : thr[u].at = "sink"
  <2> PICK u \in Thread : thr[u].at = "sink"
    BY <1>1
  <2>1. RunningSink = thr[u].sink
    BY RunningIs
  <2>2. RunningSink' = thr'[u].sink
    <3>1. \A v \in Thread : thr'[v].at = "sink" => owner' = v
      BY DEF Inductive, IInv, LockOK
    <3> QED
      BY <3>1 DEF RunningSink
  <2> QED
    BY <2>1, <2>2
<1>2. CASE ~ \E u \in Thread : thr[u].at = "sink"
  BY <1>2 DEF RunningSink
<1> QED
  BY <1>1, <1>2

\* The lock's owner leaves: no sink runs afterwards.
LEMMA RunningAfterLeave ==
    ASSUME Inductive, NEW t \in Thread, thr[t].at \in {"in", "sink"}, Leave(t)
    PROVE  RunningSink' = None
<1>1. \A u \in Thread : thr'[u].at # "sink"
  BY DEF Inductive, TypeOK, IInv, LockOK, Leave, Idle
<1> QED
  BY <1>1 DEF RunningSink

cmap == <<ClientPhase, live, m_pEvents, m_pPaging, RunningSink>>

\* A trampoline is Begin, or nothing when it has no sink to call.
LEMMA TrampRefines ==
    ASSUME Inductive, NEW t \in Thread, thr[t].at = "in", NEW s \in {m_pEvents, m_pPaging},
           Tramp(t, s), UNCHANGED <<refVars, m_pEvents, m_pPaging>>
    PROVE  Contract!ContractNext \/ UNCHANGED cmap
<1>1. RunningSink = None
  BY RunningIs
<1>2. CASE m_bClosed \/ s = None
  <2>1. RunningSink' = None
    BY <1>2, RunningAfterLeave DEF Tramp
  <2> QED
    BY <1>1, <2>1 DEF cmap, ClientPhase, refVars
<1>3. CASE ~(m_bClosed \/ s = None)
  <2>1. /\ thr' = [thr EXCEPT ![t] = [at |-> "sink", on |-> thr[t].on, sink |-> s]]
        /\ \A u \in Thread : thr[u].at # "sink"
    BY <1>3 DEF Tramp, Inductive, IInv, LockOK
  <2>2. \A u \in Thread : thr'[u].at = "sink" <=> u = t
    BY <2>1 DEF Inductive, TypeOK
  <2>3. RunningSink' = s
    BY <2>1, <2>2 DEF RunningSink, Inductive, TypeOK
  <2>4. alive
    BY DEF Inductive, IInv, WorkOK, CountOK
  <2>5. Contract!Begin
    BY <1>1, <1>3, <2>3, <2>4 DEF Contract!Begin, ClientPhase, refVars
  <2> QED
    BY <2>5 DEF Contract!ContractNext
<1> QED
  BY <1>2, <1>3

\* A method's body is a Give, an Install, a Begin, an End, or nothing the client
\* is promised anything about.
LEMMA MethodRefines ==
    ASSUME Inductive, Inductive', NEW t \in Thread, Method(t)
    PROVE  Contract!ContractNext \/ UNCHANGED cmap
<1>a. thr[t].at \in {"in", "sink"} => alive
  BY DEF Inductive, IInv, WorkOK, CountOK
<1>1. CASE Refused(t)
  BY <1>1, RunningIs, RunningAfterLeave DEF Refused, cmap, ClientPhase, refVars, sinkVars
<1>2. CASE SinkReturns(t)
  <2>1. Contract!End
    BY <1>2, RunningIs, RunningAfterLeave DEF SinkReturns, Contract!End, ClientPhase, refVars, sinkVars
  <2> QED
    BY <2>1 DEF Contract!ContractNext
<1>3. CASE Access(t) \/ PageInOut(t) \/ Load(t) \/ \E p \in Pos : Arm(t, p) \/ Disarm(t, p)
                     \/ FreeArmed(t, p) \/ Fire(t, p)
  <2>1. thr[t].at = "in" /\ UNCHANGED <<refVars, m_pEvents, m_pPaging>>
    BY <1>3 DEF Access, PageInOut, Load, Arm, Disarm, FreeArmed, Fire, OnStore, Admitted, sinkVars
  <2>2. Leave(t) \/ Tramp(t, m_pPaging) \/ Tramp(t, m_pEvents)
    BY <1>3 DEF Access, PageInOut, Load, Arm, Disarm, FreeArmed, Fire, PageTramp, TriggerTramp
  <2>3. CASE Leave(t)
    BY <2>1, <2>3, RunningIs, RunningAfterLeave DEF cmap, ClientPhase, refVars
  <2> QED
    BY <2>1, <2>2, <2>3, TrampRefines
<1>4. CASE \E h \in Handle : Make(t, h)
  <2> PICK h \in Handle : Make(t, h)
    BY <1>4
  <2>1. RunningSink = None /\ RunningSink' = None /\ alive
    BY <1>a, RunningIs, RunningAfterLeave DEF Make, Admitted
  <2>2. Contract!Give(h)
    BY <2>1 DEF Make, Admitted, Contract!Give, ClientPhase, sinkVars
  <2> QED
    BY <2>2 DEF Contract!ContractNext, Object
<1>5. CASE \/ \E s \in EventSink \cup {None} : SetEvents(t, s)
           \/ \E s \in PagingSink \cup {None} : SetPaging(t, s)
           \/ PushPaging(t) \/ PopPaging(t) \/ Clear(t)
  <2>1. thr[t].at = "in" /\ ~m_bClosed /\ Leave(t) /\ UNCHANGED refVars
    BY <1>5 DEF SetEvents, SetPaging, PushPaging, PopPaging, Clear, OnStore, Admitted
  <2>2. RunningSink = None /\ RunningSink' = None /\ alive
    BY <1>a, <2>1, RunningIs, RunningAfterLeave
  <2>3. Contract!Install(m_pEvents', m_pPaging')
    BY <2>1, <2>2 DEF Contract!Install, ClientPhase, refVars
  <2> QED
    BY <2>3 DEF Contract!ContractNext, Inductive, TypeOK
<1> QED
  BY <1>1, <1>2, <1>3, <1>4, <1>5 DEF Method

\* A release is ShutDown, a TakeBack, or nothing yet.
LEMMA ReleaseRefines ==
    ASSUME Inductive, Inductive', NEW t \in Thread, Release(t)
    PROVE  Contract!ContractNext \/ UNCHANGED cmap
<1> USE DEF Doing, Idle
<1>1. CASE ReleaseStore(t) \/ \E h \in Cursor : ReleaseCursor(t, h)
  <2>1. RunningSink' = RunningSink
    BY <1>1, RunningSame DEF ReleaseStore, ReleaseCursor, Inductive, TypeOK
  <2> QED
    BY <1>1, <2>1 DEF ReleaseStore, ReleaseCursor, cmap, ClientPhase, refVars, sinkVars
<1>2. CASE Close(t)
  <2>1. RunningSink = None
    BY <1>2, RunningIs DEF Close
  <2>2. RunningSink' = RunningSink
    BY <1>2, RunningSame DEF Close, Inductive, TypeOK
  <2>3. alive
    BY <1>2 DEF Close, Inductive, IInv, WorkOK, CountOK
  <2>4. CASE m_bClosed
    BY <1>2, <2>2, <2>4 DEF Close, cmap, ClientPhase, Inductive, IInv, ClosedOK
  <2>5. CASE ~m_bClosed
    <3>1. Contract!ShutDown
      BY <1>2, <2>1, <2>2, <2>3, <2>5 DEF Close, Contract!ShutDown, ClientPhase
    <3> QED
      BY <3>1 DEF Contract!ContractNext
  <2> QED
    BY <2>4, <2>5
<1>3. CASE DropStore(t) \/ DropCursor(t) \/ \E h \in Node : ReleaseNode(t, h)
  <2>1. \E o \in live : /\ ReleaseRef(o)
                        /\ o = Store => m_bClosed
    BY <1>3, StoreAssumption DEF DropStore, DropCursor, ReleaseNode, Handle, Inductive, IInv, WorkOK,
                                 ClosedOK
  <2>2. RunningSink' = RunningSink
    BY <1>3, RunningSame DEF DropStore, DropCursor, ReleaseNode, Inductive, TypeOK
  <2>3. UNCHANGED <<m_bClosed, m_pEvents>>
    BY <1>3 DEF DropStore, DropCursor, ReleaseNode
  <2> PICK o \in live : ReleaseRef(o) /\ (o = Store => m_bClosed)
    BY <2>1
  <2>4. alive /\ (alive' <=> live' # {}) /\ live' = live \ {o}
    BY DEF Inductive, IInv, CountOK, ReleaseRef
  <2>5. m_pPaging' = m_pPaging
    <3>1. CASE live' = {}
      <4>1. m_bClosed
        BY <2>4, <3>1 DEF Inductive, IInv, ClosedOK
      <4> QED
        BY <2>3, <4>1 DEF Inductive, IInv, ClosedOK
    <3>2. CASE live' # {}
      BY <2>4, <3>2 DEF ReleaseRef
    <3> QED
      BY <3>1, <3>2
  <2>6. Contract!TakeBack(o)
    BY <2>2, <2>3, <2>4, <2>5 DEF Contract!TakeBack, ClientPhase
  <2> QED
    BY <2>6 DEF Contract!ContractNext, Inductive, TypeOK
<1> QED
  BY <1>1, <1>2, <1>3 DEF Release

\* Coming into a call is nothing yet.
LEMMA CallRefines ==
    ASSUME Inductive, Inductive', NEW t \in Thread,
           Enter(t) \/ \E o \in Object : Call(t, o)
    PROVE  UNCHANGED cmap
<1>1. RunningSink' = RunningSink
  BY RunningSame DEF Enter, Call, Doing, Idle, Inductive, TypeOK
<1> QED
  BY <1>1 DEF Enter, Call, cmap, ClientPhase, refVars, sinkVars

\* Every behaviour of the store, locks, counts and kernel registrations
\* included, is one of the abstract store a client is promised.
THEOREM StoreImplementsContract == Spec => ContractSpec
<1>1. Init => Contract!ContractInit
  BY DEF Init, Contract!ContractInit, ClientPhase, RunningSink, Idle
<1>2. Inductive /\ Inductive' /\ [Next]_vars => [Contract!ContractNext]_cmap
  <2> SUFFICES ASSUME Inductive, Inductive', [Next]_vars
               PROVE  Contract!ContractNext \/ UNCHANGED cmap
    OBVIOUS
  <2>1. CASE UNCHANGED vars
    BY <2>1 DEF vars, cmap, ClientPhase, RunningSink
  <2>2. CASE Next
    BY <2>2, CallRefines, MethodRefines, ReleaseRefines DEF Next
  <2> QED
    BY <2>1, <2>2
<1>3. Spec => []Inductive
  BY StoreInvariant, PTL DEF Inductive
<1> QED
  BY <1>1, <1>2, <1>3, PTL DEF Spec, ContractSpec, Contract!ContractSpec, Contract!cvars, cmap

(***************************************************************************)
(* The paging bracket of FacadePaging.                                     *)
(***************************************************************************)

(* In a bracket in which the client has installed nothing and not cleared,  *)
(* paging is unhooked, and the one save holds what the pop puts back.       *)
Bracket == [is : {"none", "quiet", "set"}, cleared : BOOLEAN, sink : PagingSink \cup {None}]

Quiet == bracket.is = "quiet" /\ ~bracket.cleared

QuietOK ==
    /\ bracket \in Bracket
    /\ Quiet => ~core.page
    /\ Quiet /\ ~m_bClosed => /\ m_nPagingPushed = 1
                              /\ m_pPaging = bracket.sink
                              /\ core.saved

\* Whatever else happens inside the bracket, it is not touched.
LEMMA QuietStep ==
    ASSUME Inductive, Inductive', QuietOK, Next, Quiet,
           \A t \in Thread : ~PopPaging(t) /\ ~Sets(t) /\ ~Clears(t) /\ ~Pushes(t)
    PROVE  /\ ~core'.page
           /\ ~m_bClosed' => UNCHANGED <<m_bClosed, m_nPagingPushed, m_pPaging, core.saved>>
<1> USE DEF Inductive, TypeOK, Registration, QuietOK
<1> PICK t \in Thread : (\E o \in Object : Call(t, o)) \/ Enter(t) \/ Method(t) \/ Release(t)
  BY DEF Next
<1>1. CASE \/ \E o \in Object : Call(t, o)
           \/ Enter(t) \/ Refused(t) \/ Access(t) \/ SinkReturns(t) \/ PageInOut(t) \/ Load(t)
           \/ \E h \in Handle : Make(t, h)
           \/ \E p \in Pos : FreeArmed(t, p) \/ Arm(t, p) \/ Disarm(t, p) \/ Fire(t, p)
           \/ ReleaseStore(t) \/ \E h \in Cursor : ReleaseCursor(t, h)
  <2>1. UNCHANGED <<m_bClosed, m_nPagingPushed, m_pPaging, core>>
    BY <1>1 DEF Call, Enter, Refused, Access, SinkReturns, PageInOut, Load, Make, FreeArmed, Arm,
                Disarm, Fire, ReleaseStore, ReleaseCursor, refVars, sinkVars
  <2> QED
    BY <2>1
<1>2. ASSUME NEW s \in EventSink \cup {None}, SetEvents(t, s)
      PROVE  UNCHANGED <<m_bClosed, m_nPagingPushed, m_pPaging, core.saved, core.page>>
  BY <1>2 DEF SetEvents, refVars
<1>3. CASE PushPaging(t)
  <2>1. UNCHANGED <<m_bClosed, m_nPagingPushed, m_pPaging, core>>
    BY <1>3 DEF PushPaging, Pushes, refVars
  <2> QED
    BY <2>1
<1>4. CASE Clear(t)
  <2>1. ~m_bClosed /\ m_nPagingPushed = 1 /\ m_nPagingPushed' = m_nPagingPushed
    BY <1>4 DEF Clear, Clears, OnStore, Admitted
  <2>2. UNCHANGED <<m_bClosed, m_pPaging, core>>
    BY <1>4, <2>1 DEF Clear, PushedAfterClear, refVars
  <2> QED
    BY <2>1, <2>2
<1>5. CASE \/ Close(t) \/ DropStore(t) \/ DropCursor(t)
           \/ \E h \in Node : ReleaseNode(t, h)
  <2>1. CASE Close(t)
    BY <2>1 DEF Close
  <2>2. ASSUME NEW o, ReleaseRef(o), UNCHANGED <<m_bClosed, m_nPagingPushed>>
        PROVE  /\ ~core'.page
               /\ ~m_bClosed' => UNCHANGED <<m_bClosed, m_nPagingPushed, m_pPaging, core.saved>>
    <3>1. CASE m_cRef - 1 = 0
      <4>1. ~alive' /\ core' = NothingHooked
        BY <2>2, <3>1 DEF ReleaseRef
      <4>2. m_bClosed'
        BY <4>1 DEF IInv, CountOK, ClosedOK
      <4> QED
        BY <4>1, <4>2 DEF NothingHooked
    <3>2. CASE m_cRef - 1 # 0
      BY <2>2, <3>2 DEF ReleaseRef
    <3> QED
      BY <3>1, <3>2
  <2> QED
    BY <1>5, <2>1, <2>2 DEF DropStore, DropCursor, ReleaseNode
<1> QED
  BY <1>1, <1>2, <1>3, <1>4, <1>5 DEF Method, Release, Sets

\* The bracket keeps the invariant.
LEMMA BracketStep ==
    ASSUME Inductive, Inductive', QuietOK, [BracketNext]_bvars
    PROVE  QuietOK'
<1>1. CASE UNCHANGED bvars
  BY <1>1 DEF bvars, vars, QuietOK, Quiet
<1>2. CASE BracketNext
  <2> USE <1>2 DEF BracketNext
  <2>1. ASSUME NEW t \in Thread, Pushes(t) PROVE QuietOK'
    <3>0. \A u \in Thread : ~PopPaging(u) /\ ~Sets(u) /\ ~Clears(u)
      BY <2>1 DEF Pushes, PushPaging, PushRefused, PopPaging, Sets, SetPaging, Clears, Clear,
                  PushedAfterClear, Inductive, TypeOK
    <3>1. bracket' = [is |-> "quiet", cleared |-> FALSE, sink |-> m_pPaging]
      BY <2>1, <3>0, Zenon DEF BracketAfter
    <3>2. ~m_bClosed /\ m_nPagingPushed = 0 /\ m_pPaging # None /\ core.page
      BY <2>1 DEF Pushes, PushPaging, PushRefused, OnStore, Admitted, Inductive, IInv, HookOK
    <3>3. /\ core' = [core EXCEPT !.saved = core.page, !.page = FALSE]
          /\ m_nPagingPushed' = 1 /\ m_pPaging' = m_pPaging
      BY <2>1, <3>2 DEF Pushes, PushPaging
    <3>4. ~core'.page /\ core'.saved
      BY <3>2, <3>3 DEF Inductive, TypeOK, Registration
    <3> QED
      BY <3>1, <3>2, <3>3, <3>4 DEF QuietOK, Quiet, Bracket, Inductive, TypeOK
  <2> DEFINE pop    == \E t \in Thread : PopPaging(t)
             set    == bracket.is # "none" /\ \E t \in Thread : Sets(t)
             clear  == bracket.is # "none" /\ \E t \in Thread : Clears(t)
  <2>2. CASE ~(\E t \in Thread : Pushes(t))
    <3>1. CASE pop \/ set \/ clear
      <4>1. bracket' \in {NoBracket, [bracket EXCEPT !.is = "set"],
                          [bracket EXCEPT !.cleared = TRUE]}
        BY <2>2, <3>1 DEF BracketAfter
      <4> QED
        <5>1. bracket' \in Bracket
          <6>1. NoBracket \in Bracket
            BY DEF NoBracket, Bracket
          <6>2. /\ [bracket EXCEPT !.is = "set"] \in Bracket
                /\ [bracket EXCEPT !.cleared = TRUE] \in Bracket
            BY DEF QuietOK, Bracket
          <6> QED
            BY <4>1, <6>1, <6>2
        <5>2. bracket'.is # "quiet" \/ bracket'.cleared
          BY <4>1 DEF QuietOK, Bracket, NoBracket
        <5> QED
          BY <5>1, <5>2 DEF QuietOK, Quiet
    <3>3. CASE ~pop /\ ~set /\ ~clear
      <4>1. bracket' = bracket
        BY <2>2, <3>3 DEF BracketAfter
      <4>2. CASE ~Quiet
        BY <4>1, <4>2 DEF QuietOK, Quiet
      <4>3. CASE Quiet
        <5>1. /\ ~core'.page
              /\ ~m_bClosed' => UNCHANGED <<m_bClosed, m_nPagingPushed, m_pPaging, core.saved>>
          BY <2>2, <3>3, <4>3, QuietStep DEF Quiet
        <5> QED
          BY <4>1, <5>1 DEF QuietOK, Quiet
      <4> QED
        BY <4>2, <4>3
    <3> QED
      BY <3>1, <3>3
  <2> QED
    BY <2>1, <2>2
<1> QED
  BY <1>1, <1>2

\* A push stops paging and the pop restores it as the push found it.
THEOREM QuietBracket == BracketSpec => QuietBracketHolds
<1> DEFINE Holds == bracket.is = "quiet" /\ ~bracket.cleared =>
        /\ ~core.page
        /\ \A t \in Thread : Pops(t) /\ ~m_bClosed => m_pPaging' = bracket.sink /\ core'.page
<1>1. BracketInit => Inductive /\ QuietOK
  BY InitInductive DEF BracketInit, QuietOK, Quiet, NoBracket, Bracket
<1>2. Inductive /\ QuietOK /\ [BracketNext]_bvars => Inductive' /\ QuietOK'
  <2>1. [BracketNext]_bvars => [Next]_vars
    BY DEF BracketNext, bvars
  <2> QED
    BY <2>1, NextInductive, BracketStep
<1>3. Inductive /\ QuietOK /\ [BracketNext]_bvars => [Holds]_bvars
  <2> SUFFICES ASSUME Inductive, QuietOK, Quiet,
                      NEW t \in Thread, Pops(t), ~m_bClosed
               PROVE  m_pPaging' = bracket.sink /\ core'.page
    BY DEF QuietOK, Quiet
  <2> QED
    BY DEF Pops, PopPaging, QuietOK, Inductive, TypeOK, Registration
<1> QED
  BY <1>1, <1>2, <1>3, PTL DEF BracketSpec, QuietBracketHolds

=============================================================================
