------------------------------ MODULE ComEvents ------------------------------
(***************************************************************************)
(* The event path of the COM tier's CMsgStore (com/ComStore.cpp).          *)
(*                                                                         *)
(* A change fires on the mutating thread, which holds the store's lock: it *)
(* copies the position into a bounded queue and sets an auto-reset event.  *)
(* One dispatch thread waits on it, drains the queue, resolves each        *)
(* position to a path under the lock, takes a snapshot of the advised      *)
(* sinks and invokes them with no lock held.  A handler runs on the        *)
(* dispatch thread and may call back into the store.                       *)
(*                                                                         *)
(* The object dies with its last reference: FinalRelease closes the store, *)
(* tells the dispatch thread to quit and waits for it, for a bounded time. *)
(***************************************************************************)
EXTENDS Naturals, Sequences

CONSTANTS
    Client,         \* threads that use the object
    Dispatch,       \* the object's own thread
    Sink,           \* event sinks; each is advised at most once
    Pos,            \* positions of nodes
    Path,           \* paths of nodes
    None,           \* no path, no thread, no sink
    MaxQueued,      \* kMaxQueued
    MaxFired,       \* bound: changes that fire
    MaxMoved,       \* bound: changes that do not
    HandlerReleases,\* may a handler release the last reference?
    JoinTimesOut    \* can a handler run for longer than kJoinMs?

Thread == Client \cup {Dispatch}

ASSUME EventsAssumption ==
    /\ Dispatch \notin Client
    /\ None \notin Thread \cup Path \cup Sink
    /\ MaxQueued \in Nat \ {0}
    /\ MaxFired \in Nat /\ MaxMoved \in Nat
    /\ HandlerReleases \in BOOLEAN /\ JoinTimesOut \in BOOLEAN

VARIABLES
    path,       \* the store's tree: each position's path, or None
    open,       \* m_pStore # NULL
    lock,       \* who holds m_cs
    pc,         \* where each thread is in its call on the object
    queue,      \* m_queue
    dropped,    \* m_cDropped
    wake,       \* the auto-reset event m_hWake is set
    quit,       \* m_lQuit
    dpc,        \* where the dispatch thread is in DispatchLoop and Fire
    ev,         \* the event Fire works on
    todo,       \* the sinks of its snapshot not invoked yet
    sink,       \* per sink: "new", "advised" (in m_sinks), "erased" (from it, but
                \* still in the Global Interface Table), "revoked"
    ref,        \* the threads whose client holds a reference
    life,       \* "alive", then FinalRelease's steps, then "freed"
    finalizer,  \* the thread inside FinalRelease
    \* history, read by no action
    fired,      \* changes fired
    taken,      \* changes taken off the queue
    reported,   \* drops reported
    heard,      \* per sink, the last change it was told of
    moved       \* changes that fired nothing

store  == <<path, open, lock, pc>>
feed   == <<queue, dropped, wake>>
loop   == <<dpc, ev, todo>>
death  == <<quit, ref, life, finalizer>>
ghosts == <<fired, taken, reported, heard, moved>>
vars   == <<store, feed, loop, sink, death, ghosts>>

\* A queued event.  The path is the node's when it changed, which the code does
\* not keep: it is here to be compared with the path that is delivered.
Change == [kind : {"change"}, n : 1..MaxFired, pos : Pos, was : Path \cup {None},
           path : Path \cup {None}]
Report == [kind : {"error"}, count : Nat]
NoEvent == [kind |-> "none"]

TypeOK ==
    /\ path \in [Pos -> Path \cup {None}]
    /\ open \in BOOLEAN /\ wake \in BOOLEAN /\ quit \in BOOLEAN
    /\ lock \in Thread \cup {None}
    /\ pc \in [Thread -> {"idle", "inside", "signal", "revoke"}]
    /\ queue \in Seq(Change) /\ Len(queue) <= MaxQueued
    /\ dropped \in Nat
    /\ dpc \in {"wait", "pop", "resolve", "snapshot", "next", "invoke", "quit?", "done"}
    /\ ev \in Change \cup Report \cup {NoEvent}
    /\ todo \subseteq Sink
    /\ sink \in [Sink -> {"new", "advised", "erased", "revoked"}]
    /\ ref \subseteq Client
    /\ life \in {"alive", "closing", "quitting", "waking", "joining", "freed"}
    /\ finalizer \in Thread \cup {None}
    /\ fired \in 0..MaxFired /\ taken \in Nat /\ reported \in Nat /\ moved \in 0..MaxMoved
    /\ heard \in [Sink -> 0..MaxFired]

Init ==
    /\ path \in [Pos -> Path \cup {None}]
    /\ \A p, q \in Pos : path[p] # None /\ p # q => path[p] # path[q]
    /\ open = TRUE /\ lock = None
    /\ pc = [t \in Thread |-> "idle"]
    /\ queue = <<>> /\ dropped = 0 /\ wake = FALSE
    /\ quit = FALSE
    /\ dpc = "wait" /\ ev = NoEvent /\ todo = {}
    /\ sink = [s \in Sink |-> "new"]
    /\ ref = Client
    /\ life = "alive" /\ finalizer = None
    /\ fired = 0 /\ taken = 0 /\ reported = 0 /\ moved = 0
    /\ heard = [s \in Sink |-> 0]

-----------------------------------------------------------------------------
(***************************************************************************)
(* Calls on the object.  A caller holds a reference: a client its own, a   *)
(* handler somebody's, who may let go of it meanwhile.                     *)
(***************************************************************************)
MayCall(t) ==
    /\ ref # {}
    /\ IF t = Dispatch THEN dpc = "invoke" ELSE t \in ref

Idle(t) == pc[t] = "idle" /\ MayCall(t)

At(t, from, to) == pc[t] = from /\ pc' = [pc EXCEPT ![t] = to]

\* CStoreLock
Enter(t) ==
    /\ Idle(t) /\ At(t, "idle", "inside")
    /\ lock = None /\ lock' = t
    /\ UNCHANGED <<path, open, feed, loop, sink, death, ghosts>>

Leave(t) ==
    /\ At(t, "inside", "idle")
    /\ lock' = None
    /\ UNCHANGED <<path, open, feed, loop, sink, death, ghosts>>

\* The tree's changes: a node gets a path no other has, or goes.
Changed(p) == \E to \in Path \cup {None} :
    /\ \A q \in Pos \ {p} : to # None => path[q] # to
    /\ path' = [path EXCEPT ![p] = to]

\* A change of a node nothing is armed on.
Mutate(t) ==
    /\ pc[t] = "inside" /\ open
    /\ moved < MaxMoved /\ moved' = moved + 1
    /\ \E p \in Pos : Changed(p)
    /\ UNCHANGED <<open, lock, pc, feed, loop, sink, death, fired, taken, reported, heard>>

\* Mutant: when the queue is full, the oldest event makes room.
PushOverwriting(e) ==
    IF Len(queue) >= MaxQueued
    THEN queue' = Append(Tail(queue), e) /\ dropped' = dropped
    ELSE queue' = Append(queue, e) /\ UNCHANGED dropped

\* Push, under m_csQueue: a full queue drops the event and counts it.
Push(e) ==
    IF Len(queue) >= MaxQueued
    THEN dropped' = dropped + 1 /\ UNCHANGED queue
    ELSE queue' = Append(queue, e) /\ UNCHANGED dropped

\* Mutant: the event is set only when something was waiting already.
WakesIfWaiting(q) == q # <<>>

\* Does a Push onto q go on to set the event?
Wakes(q) == Len(q) < MaxQueued

\* An armed node changes (or Fire says so), and the trigger calls OnTrigger: the
\* position is queued bare.
Trigger(t) ==
    /\ pc[t] = "inside" /\ open
    /\ fired < MaxFired /\ fired' = fired + 1
    /\ \E p \in Pos :
         /\ Changed(p) \/ UNCHANGED path
         /\ Push([kind |-> "change", n |-> fired', pos |-> p, was |-> path'[p],
                  path |-> None])
         /\ pc' = [pc EXCEPT ![t] = IF Wakes(queue) THEN "signal" ELSE "inside"]
    /\ UNCHANGED <<open, lock, wake, loop, sink, death, taken, reported, heard, moved>>

\* Push's SetEvent, after the queue's lock is released.
Signal(t) ==
    /\ At(t, "signal", "inside")
    /\ wake' = TRUE
    /\ UNCHANGED <<path, open, lock, queue, dropped, loop, sink, death, ghosts>>

\* Close: ReleaseStore.  The queue keeps what it has.
Close(t) ==
    /\ pc[t] = "inside"
    /\ open' = FALSE
    /\ path' = [p \in Pos |-> None]
    /\ UNCHANGED <<lock, pc, feed, loop, sink, death, ghosts>>

\* CreateNew: another store, and the queue keeps what it has.
CreateNew(t) ==
    /\ pc[t] = "inside"
    /\ moved < MaxMoved /\ moved' = moved + 1
    /\ open' = TRUE
    /\ path' = [p \in Pos |-> None]
    /\ UNCHANGED <<lock, pc, feed, loop, sink, death, fired, taken, reported, heard>>

\* Registered in the table, then added to m_sinks, which alone makes it seen.
Advise(t, s) ==
    /\ Idle(t)
    /\ sink[s] = "new"
    /\ sink' = [sink EXCEPT ![s] = "advised"]
    /\ UNCHANGED <<store, feed, loop, death, ghosts>>

\* Erased from m_sinks under its own lock, and revoked after.
Unadvise(t, s) ==
    /\ Idle(t) /\ At(t, "idle", "revoke")
    /\ sink[s] = "advised"
    /\ sink' = [sink EXCEPT ![s] = "erased"]
    /\ UNCHANGED <<path, open, lock, feed, loop, death, ghosts>>

Revoke(t) ==
    /\ At(t, "revoke", "idle")
    /\ \E s \in Sink : sink[s] = "erased" /\ sink' = [sink EXCEPT ![s] = "revoked"]
    /\ UNCHANGED <<path, open, lock, feed, loop, death, ghosts>>

-----------------------------------------------------------------------------
(***************************************************************************)
(* The dispatch thread.                                                    *)
(***************************************************************************)
DispatchAt(from) == life # "freed" /\ dpc = from

\* WaitForSingleObject, on an auto-reset event.
Woken ==
    /\ DispatchAt("wait") /\ wake
    /\ wake' = FALSE
    /\ dpc' = "pop"
    /\ UNCHANGED <<store, queue, dropped, ev, todo, sink, death, ghosts>>

\* Mutant: the queue is read at the end it is written at.
PopNewest ==
    /\ DispatchAt("pop") /\ queue # <<>>
    /\ ev' = queue[Len(queue)]
    /\ queue' = SubSeq(queue, 1, Len(queue) - 1)
    /\ taken' = taken + 1
    /\ dpc' = "resolve"
    /\ UNCHANGED <<store, dropped, wake, todo, sink, death, fired, reported, heard, moved>>

PopChange ==
    /\ DispatchAt("pop") /\ queue # <<>>
    /\ ev' = Head(queue) /\ queue' = Tail(queue)
    /\ taken' = taken + 1
    /\ dpc' = "resolve"
    /\ UNCHANGED <<store, dropped, wake, todo, sink, death, fired, reported, heard, moved>>

\* The drops are reported once the queue has drained.
PopReport ==
    /\ DispatchAt("pop") /\ queue = <<>> /\ dropped # 0
    /\ ev' = [kind |-> "error", count |-> dropped]
    /\ dropped' = 0
    /\ reported' = reported + dropped
    /\ dpc' = "snapshot"
    /\ UNCHANGED <<store, queue, wake, todo, sink, death, fired, taken, heard, moved>>

PopNothing ==
    /\ DispatchAt("pop") /\ queue = <<>> /\ dropped = 0
    /\ dpc' = "quit?"
    /\ UNCHANGED <<store, feed, ev, todo, sink, death, ghosts>>

\* Mutant: the store's lock is still held when the handlers run.
ResolveKeepsLock ==
    /\ DispatchAt("resolve") /\ lock = None
    /\ lock' = Dispatch
    /\ ev' = [ev EXCEPT !.path = path[ev.pos]]
    /\ dpc' = "snapshot"
    /\ UNCHANGED <<path, open, pc, feed, todo, sink, death, ghosts>>

\* NodeFromPos and GetPath, under the store's lock.  A closed store has no paths.
ResolvePath ==
    /\ DispatchAt("resolve") /\ lock = None
    /\ ev' = [ev EXCEPT !.path = path[ev.pos]]
    /\ dpc' = "snapshot"
    /\ UNCHANGED <<store, feed, todo, sink, death, ghosts>>

\* The sinks advised now.
Snapshot ==
    /\ DispatchAt("snapshot")
    /\ todo' = { s \in Sink : sink[s] = "advised" }
    /\ dpc' = "next"
    /\ UNCHANGED <<store, feed, ev, sink, death, ghosts>>

\* The table does not know the sink any more.
Skip(s) ==
    /\ DispatchAt("next") /\ s \in todo
    /\ sink[s] = "revoked"
    /\ todo' = todo \ {s}
    /\ UNCHANGED <<store, feed, dpc, ev, sink, death, ghosts>>

\* Fetched from the table and invoked, no lock held.
Invoke(s) ==
    /\ DispatchAt("next") /\ s \in todo
    /\ sink[s] # "revoked"
    /\ todo' = todo \ {s}
    /\ dpc' = "invoke"
    /\ heard' = IF ev.kind = "change" THEN [heard EXCEPT ![s] = ev.n] ELSE heard
    /\ UNCHANGED <<store, feed, ev, sink, death, fired, taken, reported, moved>>

HandlerReturns ==
    /\ DispatchAt("invoke")
    /\ pc[Dispatch] = "idle" /\ finalizer # Dispatch
    /\ dpc' = "next"
    /\ UNCHANGED <<store, feed, ev, todo, sink, death, ghosts>>

Fired ==
    /\ DispatchAt("next") /\ todo = {}
    /\ ev' = NoEvent
    /\ dpc' = "pop"
    /\ UNCHANGED <<store, feed, todo, sink, death, ghosts>>

CheckQuit ==
    /\ DispatchAt("quit?")
    /\ dpc' = IF quit THEN "done" ELSE "wait"
    /\ UNCHANGED <<store, feed, ev, todo, sink, death, ghosts>>

-----------------------------------------------------------------------------
(***************************************************************************)
(* The last Release, and FinalRelease on the same thread.                  *)
(***************************************************************************)

\* t lets go of c's reference; the last is not let go under a call.
Release(t, c) ==
    /\ Idle(t) /\ c \in ref
    /\ t = c \/ (t = Dispatch /\ HandlerReleases)
    /\ \A u \in Thread : pc[u] = "idle"
    /\ ref' = ref \ {c}
    /\ IF ref' # {} THEN UNCHANGED <<life, finalizer>>
                    ELSE life' = "closing" /\ finalizer' = t
    /\ UNCHANGED <<store, feed, loop, sink, quit, ghosts>>

FinalClose ==
    /\ life = "closing" /\ lock = None
    /\ open' = FALSE
    /\ path' = [p \in Pos |-> None]
    /\ life' = "quitting"
    /\ UNCHANGED <<lock, pc, feed, loop, sink, quit, ref, finalizer, ghosts>>

FinalQuit ==
    /\ life = "quitting"
    /\ quit' = TRUE
    /\ life' = "waking"
    /\ UNCHANGED <<store, feed, loop, sink, ref, finalizer, ghosts>>

\* Mutant: the quit flag alone is to end the thread.
FinalWakeForgotten ==
    /\ life = "waking"
    /\ life' = "joining"
    /\ UNCHANGED <<store, feed, loop, sink, quit, ref, finalizer, ghosts>>

FinalWake ==
    /\ life = "waking"
    /\ wake' = TRUE
    /\ life' = "joining"
    /\ UNCHANGED <<store, queue, dropped, loop, sink, quit, ref, finalizer, ghosts>>

\* Mutant: the thread is not waited for.
FinalFreeAtOnce ==
    /\ life = "joining"
    /\ sink' = [s \in Sink |-> "revoked"]
    /\ life' = "freed"
    /\ UNCHANGED <<store, feed, loop, quit, ref, finalizer, ghosts>>

\* The thread has ended, or a handler kept it for kJoinMs: revoke what is left,
\* and delete.
FinalFree ==
    /\ life = "joining"
    /\ dpc = "done" \/ (dpc = "invoke" /\ JoinTimesOut)
    /\ sink' = [s \in Sink |-> "revoked"]
    /\ life' = "freed"
    /\ UNCHANGED <<store, feed, loop, quit, ref, finalizer, ghosts>>

\* The object is gone, and its thread with it.
Gone == life = "freed" /\ UNCHANGED vars

-----------------------------------------------------------------------------
CallStep(t) ==
    \/ Enter(t) \/ Leave(t)
    \/ Mutate(t) \/ Trigger(t) \/ Signal(t)
    \/ Close(t) \/ CreateNew(t)
    \/ \E s \in Sink : Advise(t, s) \/ Unadvise(t, s)
    \/ Revoke(t)
    \/ \E c \in Client : Release(t, c)

DispatchStep ==
    \/ Woken
    \/ PopChange \/ PopReport \/ PopNothing
    \/ ResolvePath \/ Snapshot
    \/ \E s \in Sink : Skip(s) \/ Invoke(s)
    \/ HandlerReturns \/ Fired \/ CheckQuit

FinalStep == FinalClose \/ FinalQuit \/ FinalWake \/ FinalFree

Next ==
    \/ \E t \in Thread : CallStep(t)
    \/ DispatchStep
    \/ FinalStep
    \/ Gone

Spec == Init /\ [][Next]_vars

\* Threads run; a call that has begun goes on to its end; a handler returns, and
\* the store's lock, which other callers keep taking, comes round to the
\* dispatch thread.
Fairness ==
    /\ \A t \in Thread : WF_vars(Leave(t)) /\ WF_vars(Signal(t)) /\ WF_vars(Revoke(t))
    /\ WF_vars(DispatchStep)
    /\ SF_vars(ResolvePath)
    /\ SF_vars(HandlerReturns)
    /\ WF_vars(FinalStep)

FairSpec == Spec /\ Fairness

-----------------------------------------------------------------------------
(***************************************************************************)
(* Properties.                                                             *)
(***************************************************************************)

\* While something is to be dispatched the thread does not sleep, or the event
\* that wakes it is set, or is about to be (Push sets it after unlocking, and a
\* dropped event does not set it at all).
NoLostWakeup ==
    dpc = "wait" /\ (queue # <<>> \/ dropped # 0) =>
        wake \/ \E t \in Thread : pc[t] = "signal"

\* Every change fired is waiting, was taken for the sinks, or is in a drop count
\* that was or will be reported; a client is never silently short of an event
\* (com/ComStore.cpp:24-26).
NothingVanishes == fired = Len(queue) + taken + dropped + reported

\* A sink is told of changes in the order they fired, and of each once.
HeardInOrder == [][ \A s \in Sink : heard'[s] # heard[s] => heard'[s] > heard[s] ]_vars

\* The dispatch thread is out of the object when it is deleted.
\* com/ComStore.cpp:111-114: FinalRelease cannot be racing a running handler,
\* which holds a reference by definition.
DispatchEndsFirst == life = "freed" => dpc = "done"

\* The thread does not leave an object that clients still hold: Close and
\* CreateNew let the store go, and keep the thread.
ThreadStaysWithItsClients == dpc = "done" \/ quit => ref = {}

\* The path an event carries is the one its node had when it changed, or none.
\* com/ComStore.cpp:628-630: of a node deleted or moved since, the path comes
\* back empty.
StalePathIsEmpty ==
    dpc = "snapshot" /\ ev.kind = "change" => ev.path \in {ev.was, None}

\* The inductive invariant: what makes the two counts and the order of delivery
\* hold.

\* NoLostWakeup, from the moment the queue was last found empty.
WakeInv ==
    dpc \in {"wait", "quit?"} /\ (queue # <<>> \/ dropped # 0) =>
        wake \/ \E t \in Thread : pc[t] = "signal"

\* The queue is in the order of firing, behind the event in hand and everything
\* a sink has heard.
OrderInv ==
    /\ \A i \in DOMAIN queue : queue[i].n <= fired
    /\ \A i, j \in DOMAIN queue : i < j => queue[i].n < queue[j].n
    /\ \A s \in Sink : heard[s] <= fired
    /\ \A s \in Sink, i \in DOMAIN queue : heard[s] < queue[i].n
    /\ ev.kind = "change" =>
         /\ ev.n <= fired
         /\ \A i \in DOMAIN queue : ev.n < queue[i].n
         /\ dpc \in {"resolve", "snapshot"} => \A s \in Sink : heard[s] < ev.n
         /\ \A s \in todo : heard[s] < ev.n

\* The event in hand, and the sinks still to be told of it.
HandInv ==
    /\ dpc = "resolve" => ev.kind = "change"
    /\ dpc \in {"wait", "pop", "resolve", "snapshot", "quit?", "done"} => todo = {}

DeathInv ==
    /\ life = "alive" => ~quit /\ dpc # "done"
    /\ life # "alive" => ref = {}
    /\ dpc = "done" => quit
    /\ ~JoinTimesOut => DispatchEndsFirst

IInv == TypeOK /\ WakeInv /\ NothingVanishes /\ OrderInv /\ HandInv /\ DeathInv

\* What is queued is dispatched, and what was dropped is reported, while the
\* object lives.
QueueDrains == queue # <<>> \/ dropped # 0 ~> (queue = <<>> /\ dropped = 0) \/ life # "alive"

\* The last Release returns.
FinalReleaseReturns == life = "closing" ~> life = "freed"

=============================================================================
