---------------------------- MODULE FacadeProcess ----------------------------
(***************************************************************************)
(* One process: the library that all stores come from                      *)
(* (src/src/FacadeLibrary.cpp), several stores with a critical section     *)
(* each (src/src/FacadeStore.h, StoreGuard), and client sinks that call    *)
(* out of one store into another, or back into their own.                  *)
(*                                                                         *)
(* FacadeStore has one store, whose sinks stay out of it.  Here a sink,    *)
(* which runs with its store's lock held, may make one call of any kind.   *)
(***************************************************************************)
EXTENDS Naturals, Sequences, FiniteSets

CONSTANTS
    Thread,
    Store,      \* store objects
    Lib,        \* addresses a library object may have
    CallsOut,   \* per store, the stores its sinks call
    None,       \* no thread, no store, no library
    MaxNest     \* bound: stores a thread is inside of at once

ASSUME ProcessAssumption ==
    /\ None \notin Thread \cup Store \cup Lib
    /\ Thread \cap Store = {}
    /\ IsFiniteSet(Thread) /\ IsFiniteSet(Store)
    /\ CallsOut \in [Store -> SUBSET Store]
    /\ MaxNest \in Nat

VARIABLES
    s_pInstance,    \* the library, if there is one
    oCSectInstance, \* s_oCSectInstance: the thread in it
    m_cRef,         \* per address, the library's count
    allocated,      \* the library objects there are
    handle,         \* per thread, the library reference it holds
    m_pLibrary,     \* per store, its library; None while there is no such store
    dropping,       \* per thread, the library whose reference it is giving up
    at,             \* per thread, where it is in the library
    owner,          \* per store, the thread in its critical section
    depth,          \* per store, how often its owner has entered
    want,           \* per thread, the store whose section it waits for
    stack           \* per thread, the stores it is inside of, innermost last

library  == <<s_pInstance, oCSectInstance, m_cRef, allocated, handle, m_pLibrary, dropping, at>>
sections == <<owner, depth, want>>
vars     == <<library, sections, stack>>

\* A method runs; its sink runs; its sink has made its call, or needs none.
Frame == [on : Store, is : {"in", "sink", "called"}]

TypeOK ==
    /\ s_pInstance \in Lib \cup {None}
    /\ oCSectInstance \in Thread \cup {None}
    /\ m_cRef \in [Lib -> Nat]
    /\ allocated \subseteq Lib
    /\ handle \in [Thread -> Lib \cup {None}]
    /\ m_pLibrary \in [Store -> Lib \cup {None}]
    /\ dropping \in [Thread -> Lib \cup {None}]
    /\ at \in [Thread -> {"outside", "acquire", "release", "free"}]
    /\ owner \in [Store -> Thread \cup {None}]
    /\ depth \in [Store -> Nat]
    /\ want \in [Thread -> Store \cup {None}]
    /\ stack \in [Thread -> Seq(Frame)]

Init ==
    /\ s_pInstance = None
    /\ oCSectInstance = None
    /\ m_cRef = [l \in Lib |-> 0]
    /\ allocated = {}
    /\ handle = [t \in Thread |-> None]
    /\ m_pLibrary = [s \in Store |-> None]
    /\ dropping = [t \in Thread |-> None]
    /\ at = [t \in Thread |-> "outside"]
    /\ owner = [s \in Store |-> None]
    /\ depth = [s \in Store |-> 0]
    /\ want = [t \in Thread |-> None]
    /\ stack = [t \in Thread |-> <<>>]

-----------------------------------------------------------------------------
Top(t) == stack[t][Len(stack[t])]
Inside(t) == { stack[t][i].on : i \in DOMAIN stack[t] }

Running(t) == want[t] = None /\ at[t] = "outside"
InA(t, is) == Running(t) /\ stack[t] # <<>> /\ Top(t).is = is

\* A client calls from outside, or from a sink; each time a sink runs it makes
\* at most one call.
MayCall(t) == Running(t) /\ (stack[t] # <<>> => Top(t).is = "sink")
CallsFrom(t) == stack' =
    IF stack[t] = <<>> THEN stack ELSE [stack EXCEPT ![t][Len(stack[t])].is = "called"]

\* A store is not released while somebody is inside a call on it.
Used(s) == \E t \in Thread : want[t] = s \/ s \in Inside(t)

-----------------------------------------------------------------------------
(* The library. *)

\* MSGF_CreateLibrary.
CallCreateLibrary(t) ==
    /\ MayCall(t) /\ handle[t] = None
    /\ at' = [at EXCEPT ![t] = "acquire"]
    /\ CallsFrom(t)
    /\ UNCHANGED <<s_pInstance, oCSectInstance, m_cRef, allocated, handle,
                   m_pLibrary, dropping, sections>>

\* With the section held, the library there is or a new one, and one reference
\* more: nobody else who needs the section sees the steps between.
Acquire(t) ==
    /\ at[t] = "acquire" /\ oCSectInstance = None
    /\ \E l \in Lib :
        /\ IF s_pInstance = None
           THEN /\ l \notin allocated
                /\ m_cRef' = [m_cRef EXCEPT ![l] = 1]
           ELSE /\ l = s_pInstance
                /\ m_cRef' = [m_cRef EXCEPT ![l] = @ + 1]
        /\ s_pInstance' = l
        /\ allocated' = allocated \cup {l}
        /\ handle' = [handle EXCEPT ![t] = l]
    /\ at' = [at EXCEPT ![t] = "outside"]
    /\ UNCHANGED <<oCSectInstance, m_pLibrary, dropping, sections, stack>>

\* Mutant: a new store takes no reference of its own.
CreateStoreUncounted(t, s) ==
    /\ MayCall(t) /\ handle[t] # None /\ m_pLibrary[s] = None
    /\ m_pLibrary' = [m_pLibrary EXCEPT ![s] = handle[t]]
    /\ CallsFrom(t)
    /\ UNCHANGED <<s_pInstance, oCSectInstance, m_cRef, allocated, handle,
                   dropping, at, sections>>

\* FacadeStore's constructor adds its reference without the section.
CreateStore(t, s) ==
    /\ MayCall(t) /\ handle[t] # None /\ m_pLibrary[s] = None
    /\ m_pLibrary' = [m_pLibrary EXCEPT ![s] = handle[t]]
    /\ m_cRef' = [m_cRef EXCEPT ![handle[t]] = @ + 1]
    /\ CallsFrom(t)
    /\ UNCHANGED <<s_pInstance, oCSectInstance, allocated, handle, dropping, at, sections>>

\* FacadeLibrary::Release by a client.
CallRelease(t) ==
    /\ MayCall(t) /\ handle[t] # None
    /\ handle' = [handle EXCEPT ![t] = None]
    /\ dropping' = [dropping EXCEPT ![t] = handle[t]]
    /\ at' = [at EXCEPT ![t] = "release"]
    /\ CallsFrom(t)
    /\ UNCHANGED <<s_pInstance, oCSectInstance, m_cRef, allocated, m_pLibrary, sections>>

\* Mutant: the destructor forgets the library.
ReleaseStoreOnly(t, s) ==
    /\ MayCall(t) /\ m_pLibrary[s] # None /\ ~Used(s)
    /\ m_pLibrary' = [m_pLibrary EXCEPT ![s] = None]
    /\ CallsFrom(t)
    /\ UNCHANGED <<s_pInstance, oCSectInstance, m_cRef, allocated, handle,
                   dropping, at, sections>>

\* The last Release of a store: it closes under its own section, which is free,
\* and its destructor releases the library.
ReleaseStore(t, s) ==
    /\ MayCall(t) /\ m_pLibrary[s] # None /\ ~Used(s)
    /\ m_pLibrary' = [m_pLibrary EXCEPT ![s] = None]
    /\ dropping' = [dropping EXCEPT ![t] = m_pLibrary[s]]
    /\ at' = [at EXCEPT ![t] = "release"]
    /\ CallsFrom(t)
    /\ UNCHANGED <<s_pInstance, oCSectInstance, m_cRef, allocated, handle, sections>>

\* Mutant: the count is dropped before the section is entered.
ReleaseRefUnlocked(t) ==
    LET l == dropping[t] IN
    /\ at[t] = "release"
    /\ m_cRef' = [m_cRef EXCEPT ![l] = @ - 1]
    /\ at' = [at EXCEPT ![t] = IF m_cRef[l] = 1 THEN "free" ELSE "outside"]
    /\ dropping' = [dropping EXCEPT ![t] = IF m_cRef[l] = 1 THEN l ELSE None]
    /\ UNCHANGED <<s_pInstance, oCSectInstance, allocated, handle, m_pLibrary,
                   sections, stack>>

\* ReleaseRef: the section is kept if the library is now to be freed.
ReleaseRef(t) ==
    LET l == dropping[t] IN
    /\ at[t] = "release" /\ oCSectInstance = None
    /\ m_cRef' = [m_cRef EXCEPT ![l] = @ - 1]
    /\ IF m_cRef[l] = 1
       THEN /\ at' = [at EXCEPT ![t] = "free"]
            /\ oCSectInstance' = t
            /\ UNCHANGED dropping
       ELSE /\ at' = [at EXCEPT ![t] = "outside"]
            /\ dropping' = [dropping EXCEPT ![t] = None]
            /\ UNCHANGED oCSectInstance
    /\ UNCHANGED <<s_pInstance, allocated, handle, m_pLibrary, sections, stack>>

FreeLibrary(t) ==
    LET l == dropping[t] IN
    /\ at[t] = "free"
    /\ s_pInstance' = IF s_pInstance = l THEN None ELSE s_pInstance
    /\ allocated' = allocated \ {l}
    /\ oCSectInstance' = None
    /\ dropping' = [dropping EXCEPT ![t] = None]
    /\ at' = [at EXCEPT ![t] = "outside"]
    /\ UNCHANGED <<m_cRef, handle, m_pLibrary, sections, stack>>

-----------------------------------------------------------------------------
(* The stores' critical sections. *)

Call(t, s) ==
    /\ MayCall(t) /\ m_pLibrary[s] # None
    /\ Len(stack[t]) < MaxNest
    /\ stack[t] # <<>> => s \in CallsOut[Top(t).on]
    /\ want' = [want EXCEPT ![t] = s]
    /\ CallsFrom(t)
    /\ UNCHANGED <<library, owner, depth>>

\* Mutant: a lock its owner cannot enter again.
LockOnce(t) ==
    LET s == want[t] IN
    /\ s # None /\ owner[s] = None
    /\ owner' = [owner EXCEPT ![s] = t]
    /\ depth' = [depth EXCEPT ![s] = @ + 1]
    /\ want' = [want EXCEPT ![t] = None]
    /\ stack' = [stack EXCEPT ![t] = Append(@, [on |-> s, is |-> "in"])]
    /\ UNCHANGED library

\* StoreGuard locks a Windows critical section: its owner's second entry is
\* only counted.
Lock(t) ==
    LET s == want[t] IN
    /\ s # None /\ owner[s] \in {None, t}
    /\ owner' = [owner EXCEPT ![s] = t]
    /\ depth' = [depth EXCEPT ![s] = @ + 1]
    /\ want' = [want EXCEPT ![t] = None]
    /\ stack' = [stack EXCEPT ![t] = Append(@, [on |-> s, is |-> "in"])]
    /\ UNCHANGED library

\* A trampoline calls the sink.
Fire(t) ==
    /\ InA(t, "in")
    /\ stack' = [stack EXCEPT ![t][Len(stack[t])].is = "sink"]
    /\ UNCHANGED <<library, sections>>

\* The sink makes no call after all.
SinkIsDone(t) ==
    /\ InA(t, "sink")
    /\ stack' = [stack EXCEPT ![t][Len(stack[t])].is = "called"]
    /\ UNCHANGED <<library, sections>>

\* Mutant: the section is left at the first Unlock.
ReturnUnlocks(t) ==
    LET s == Top(t).on IN
    /\ InA(t, "in") \/ InA(t, "called")
    /\ depth' = [depth EXCEPT ![s] = @ - 1]
    /\ owner' = [owner EXCEPT ![s] = None]
    /\ stack' = [stack EXCEPT ![t] = SubSeq(@, 1, Len(@) - 1)]
    /\ UNCHANGED <<library, want>>

\* The sink, if there was one, and the method return; ~StoreGuard unlocks, and
\* the section is free when every entry has been left.
Return(t) ==
    LET s == Top(t).on IN
    /\ InA(t, "in") \/ InA(t, "called")
    /\ depth' = [depth EXCEPT ![s] = @ - 1]
    /\ owner' = [owner EXCEPT ![s] = IF depth[s] = 1 THEN None ELSE @]
    /\ stack' = [stack EXCEPT ![t] = SubSeq(@, 1, Len(@) - 1)]
    /\ UNCHANGED <<library, want>>

-----------------------------------------------------------------------------
Next == \E t \in Thread :
    \/ CallCreateLibrary(t) \/ Acquire(t)
    \/ CallRelease(t) \/ ReleaseRef(t) \/ FreeLibrary(t)
    \/ \E s \in Store : CreateStore(t, s) \/ ReleaseStore(t, s) \/ Call(t, s)
    \/ Lock(t) \/ Fire(t) \/ SinkIsDone(t) \/ Return(t)

Spec == Init /\ [][Next]_vars

\* Methods and sinks go on, and a critical section comes round to its waiters.
Fairness == \A t \in Thread :
    /\ SF_vars(Lock(t)) /\ SF_vars(Acquire(t)) /\ SF_vars(ReleaseRef(t))
    /\ WF_vars(FreeLibrary(t)) /\ WF_vars(SinkIsDone(t)) /\ WF_vars(Return(t))

FairSpec == Spec /\ Fairness

-----------------------------------------------------------------------------
\* Those who hold a reference: threads, stores, and threads about to drop one.
Holders(l) ==
    { t \in Thread : handle[t] = l } \cup { s \in Store : m_pLibrary[s] = l }
Droppers(l) == { t \in Thread : dropping[t] = l /\ at[t] = "release" }

\* The library outlives whoever may still call it: the client who released it
\* before its stores, and the store whose destructor is about to release it
\* (FacadeLibrary.h:35-36).  Its count is never off, for whoever reads it.
LibraryOutlivesItsUsers == \A l \in Lib :
    /\ Holders(l) \cup Droppers(l) # {} => l \in allocated
    /\ l \in allocated => m_cRef[l] = Cardinality(Holders(l)) + Cardinality(Droppers(l))

\* All stores come from one library: never two at once, none half deleted when
\* somebody asks for it (FacadeLibrary.cpp:56-60), and none left when the last
\* reference is gone.
OneLibrary ==
    /\ allocated = {s_pInstance} \ {None}
    /\ oCSectInstance = None =>
         \A l \in allocated : Holders(l) \cup Droppers(l) # {}

\* However calls nest, through one store or several, one thread at a time is
\* inside a store, its sinks' calls included (MsgFacade.h:113-116), and a store
\* is left free by the outermost return and not before.
SectionsNest ==
    /\ \A t, u \in Thread : t # u => Inside(t) \cap Inside(u) = {}
    /\ \A s \in Store : owner[s] # None <=> \E t \in Thread : s \in Inside(t)

\* What makes these three inductive.  Who frees the library is in the section and
\* nobody needs the library any more; a section is entered as often as its owner
\* has frames in its store, and by nobody else.
DropOK == \A t \in Thread :
    /\ at[t] = "free" <=> oCSectInstance = t
    /\ dropping[t] = None <=> at[t] \in {"outside", "acquire"}
    /\ at[t] = "acquire" => handle[t] = None
    /\ at[t] = "free" => dropping[t] \in allocated /\ m_cRef[dropping[t]] = 0

Entries(q, s) == { i \in DOMAIN q : q[i].on = s }
DepthOK == \A s \in Store :
    /\ owner[s] = None => depth[s] = 0
    /\ \A t \in Thread : IF owner[s] = t
        THEN Entries(stack[t], s) # {} /\ depth[s] = Cardinality(Entries(stack[t], s))
        ELSE Entries(stack[t], s) = {}

LibraryInv == DropOK /\ LibraryOutlivesItsUsers /\ OneLibrary
IInv == LibraryInv /\ DepthOK

\* Every call comes back, sinks that call other stores and the library
\* included, as long as no two stores' sinks call into each other.
EveryCallReturns == \A t \in Thread :
    ~Running(t) ~> Running(t) /\ stack[t] = <<>>

=============================================================================
