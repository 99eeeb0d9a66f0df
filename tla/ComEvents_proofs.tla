-------------------------- MODULE ComEvents_proofs --------------------------
(***************************************************************************)
(* Proofs about ComEvents, for any number of clients and sinks and any     *)
(* bound on the queue: no wake-up is lost, no event vanishes uncounted,    *)
(* every sink hears changes in order, and the dispatch thread ends after   *)
(* the last reference and, if every handler is quicker than kJoinMs,       *)
(* before the object.                                                      *)
(***************************************************************************)
EXTENDS ComEvents, TLAPS

USE DEF store, feed, loop, death, ghosts

(* The numbers the order is about.                                          *)
LEMMA Numbers ==
    ASSUME TypeOK
    PROVE  /\ fired \in Nat
           /\ Len(queue) \in Nat /\ DOMAIN queue = 1..Len(queue)
           /\ \A i \in DOMAIN queue : queue[i].n \in Nat
           /\ \A s \in Sink : heard[s] \in Nat
           /\ ev.kind = "change" => ev \in Change /\ ev.n \in Nat
<1> USE EventsAssumption DEF TypeOK
<1>1. fired \in Nat /\ Len(queue) \in Nat /\ DOMAIN queue = 1..Len(queue)
  OBVIOUS
<1>2. \A i \in DOMAIN queue : queue[i].n \in Nat
  <2> SUFFICES ASSUME NEW i \in DOMAIN queue PROVE queue[i].n \in Nat
    OBVIOUS
  <2>1. queue[i] \in Change
    OBVIOUS
  <2> QED
    BY <2>1 DEF Change
<1>3. \A s \in Sink : heard[s] \in Nat
  OBVIOUS
<1>4. ev.kind = "change" => ev \in Change
  BY DEF Report, NoEvent
<1>5. ev \in Change => ev.n \in Nat
  BY DEF Change
<1> QED
  BY <1>1, <1>2, <1>3, <1>4, <1>5

(* A call on the object takes nothing off the queue and tells no sink.      *)
LEMMA CallKeeps ==
    ASSUME IInv, NEW t \in Thread, CallStep(t)
    PROVE  IInv'
<1> USE EventsAssumption DEF IInv, TypeOK, At, Idle, MayCall
<1>1. CASE Enter(t) \/ Leave(t) \/ Mutate(t) \/ Close(t) \/ CreateNew(t)
  <2>1. TypeOK'
    <3>1. CASE Enter(t) \/ Leave(t)
      BY <3>1, ZenonT(120) DEF Enter, Leave
    <3>2. CASE Mutate(t)
      <4>1. path' \in [Pos -> Path \cup {None}]
        BY <3>2 DEF Mutate, Changed
      <4>2. moved' \in 0..MaxMoved
        BY <3>2 DEF Mutate
      <4> QED
        BY <3>2, <4>1, <4>2 DEF Mutate
    <3>3. CASE Close(t) \/ CreateNew(t)
      <4>1. moved' \in 0..MaxMoved
        BY <3>3 DEF Close, CreateNew
      <4> QED
        BY <3>3, <4>1, ZenonT(120) DEF Close, CreateNew
    <3> QED
      BY <1>1, <3>1, <3>2, <3>3
  <2>2. WakeInv'
    BY <1>1 DEF WakeInv, Enter, Leave, Mutate, Close, CreateNew
  <2>3. OrderInv'
    BY <1>1 DEF OrderInv, Enter, Leave, Mutate, Close, CreateNew
  <2>4. NothingVanishes' /\ HandInv' /\ DeathInv'
    BY <1>1, SMTT(60) DEF NothingVanishes, HandInv, DeathInv, DispatchEndsFirst,
                Enter, Leave, Mutate, Close, CreateNew
  <2> QED
    BY <2>1, <2>2, <2>3, <2>4
<1>2. CASE Trigger(t)
  <2>1. PICK p \in Pos :
          /\ Changed(p) \/ UNCHANGED path
          /\ Push([kind |-> "change", n |-> fired', pos |-> p, was |-> path'[p],
                   path |-> None])
          /\ pc' = [pc EXCEPT ![t] = IF Wakes(queue) THEN "signal" ELSE "inside"]
    BY <1>2 DEF Trigger
  <2> DEFINE e == [kind |-> "change", n |-> fired', pos |-> p, was |-> path'[p],
                   path |-> None]
  <2>2. path' \in [Pos -> Path \cup {None}]
    BY <2>1 DEF Changed
  <2>3. e \in Change /\ e.n = fired + 1 /\ fired' = fired + 1 /\ fired \in Nat
    BY <1>2, <2>2 DEF Trigger, Change
  <2> HIDE DEF e
  <2>6. /\ UNCHANGED <<open, lock, wake, loop, sink, death, taken, reported, heard, moved>>
        /\ pc[t] = "inside"
    BY <1>2 DEF Trigger
  <2>4. CASE Len(queue) >= MaxQueued
    <3>1. UNCHANGED <<queue, wake, dpc, ev, todo, heard, taken, reported>>
            /\ dropped' = dropped + 1 /\ pc' = [pc EXCEPT ![t] = "inside"]
      <4>1. ~Wakes(queue)
        BY <2>4, Numbers DEF Wakes
      <4>2. UNCHANGED queue /\ dropped' = dropped + 1
        BY <2>1, <2>4 DEF Push
      <4> QED
        BY <2>1, <2>6, <4>1, <4>2
    <3>2. TypeOK'
      BY <1>2, <2>2, <3>1 DEF Trigger
    <3>3. WakeInv'
      BY <1>2, <2>4, <3>1 DEF WakeInv, Trigger
    <3>4. NothingVanishes'
      BY <2>3, <3>1 DEF NothingVanishes
    <3>5. OrderInv'
      BY <2>3, <3>1, Numbers DEF OrderInv
    <3>6. HandInv' /\ DeathInv'
      BY <1>2 DEF HandInv, DeathInv, DispatchEndsFirst, Trigger
    <3> QED
      BY <3>2, <3>3, <3>4, <3>5, <3>6
  <2>5. CASE Len(queue) < MaxQueued
    <3>1. UNCHANGED <<dropped, wake, dpc, ev, todo, heard, taken, reported>>
            /\ queue' = Append(queue, e) /\ pc' = [pc EXCEPT ![t] = "signal"]
      BY <2>1, <2>5, <2>6 DEF Push, Wakes, e
    <3>2. TypeOK'
      BY <1>2, <2>2, <2>3, <2>5, <3>1 DEF Trigger
    <3>3. WakeInv'
      BY <3>1 DEF WakeInv
    <3>4. NothingVanishes'
      BY <2>3, <3>1 DEF NothingVanishes
    <3>5. OrderInv'
      BY <2>3, <3>1, Numbers, SMTT(60) DEF OrderInv
    <3>6. HandInv' /\ DeathInv'
      BY <1>2 DEF HandInv, DeathInv, DispatchEndsFirst, Trigger
    <3> QED
      BY <3>2, <3>3, <3>4, <3>5, <3>6
  <2> QED
    BY <2>4, <2>5
<1>3. CASE Signal(t)
  <2>1. TypeOK' /\ WakeInv'
    BY <1>3 DEF WakeInv, Signal
  <2>2. NothingVanishes' /\ OrderInv' /\ HandInv' /\ DeathInv'
    BY <1>3 DEF NothingVanishes, OrderInv, HandInv, DeathInv, DispatchEndsFirst, Signal
  <2> QED
    BY <2>1, <2>2
<1>4. CASE (\E s \in Sink : Advise(t, s) \/ Unadvise(t, s)) \/ Revoke(t)
  <2>1. TypeOK'
    <3>1. ASSUME NEW s \in Sink, Advise(t, s) \/ Unadvise(t, s)
          PROVE  TypeOK'
      <4>1. /\ sink' \in [Sink -> {"new", "advised", "erased", "revoked"}]
            /\ pc' \in [Thread -> {"idle", "inside", "signal", "revoke"}]
        BY <3>1 DEF Advise, Unadvise
      <4> QED
        BY <3>1, <4>1 DEF Advise, Unadvise
    <3>2. CASE Revoke(t)
      BY <3>2 DEF Revoke
    <3> QED
      BY <1>4, <3>1, <3>2
  <2>2. WakeInv'
    BY <1>4 DEF WakeInv, Advise, Unadvise, Revoke
  <2>3. OrderInv'
    BY <1>4, SMTT(60) DEF OrderInv, Advise, Unadvise, Revoke
  <2>4. NothingVanishes' /\ HandInv' /\ DeathInv'
    BY <1>4, SMTT(60) DEF NothingVanishes, HandInv, DeathInv, DispatchEndsFirst,
                Advise, Unadvise, Revoke
  <2> QED
    BY <2>1, <2>2, <2>3, <2>4
<1>5. CASE \E c \in Client : Release(t, c)
  <2>1. TypeOK'
    BY <1>5 DEF Release, Thread
  <2>2. WakeInv' /\ NothingVanishes' /\ OrderInv' /\ HandInv'
    BY <1>5 DEF WakeInv, NothingVanishes, OrderInv, HandInv, Release
  <2>3. DeathInv'
    BY <1>5 DEF DeathInv, DispatchEndsFirst, Release
  <2> QED
    BY <2>1, <2>2, <2>3
<1> QED
  BY <1>1, <1>2, <1>3, <1>4, <1>5 DEF CallStep

(* The dispatch thread hears of the oldest event first, and looks at the    *)
(* queue again before it sleeps.                                            *)
LEMMA DispatchKeeps ==
    ASSUME IInv, DispatchStep
    PROVE  IInv'
<1> USE EventsAssumption DEF IInv, TypeOK, DispatchAt
<1>1. CASE Woken \/ PopNothing \/ CheckQuit
  <2>1. TypeOK' /\ WakeInv'
    BY <1>1, ZenonT(120) DEF WakeInv, Woken, PopNothing, CheckQuit
  <2>2. OrderInv'
    BY <1>1 DEF OrderInv, Woken, PopNothing, CheckQuit
  <2>3. NothingVanishes' /\ HandInv' /\ DeathInv'
    BY <1>1, SMTT(60) DEF NothingVanishes, HandInv, DeathInv, DispatchEndsFirst,
                Woken, PopNothing, CheckQuit
  <2> QED
    BY <2>1, <2>2, <2>3
<1>2. CASE PopChange
  <2>1. /\ ev' = Head(queue) /\ queue' = Tail(queue) /\ queue # <<>>
        /\ dpc = "pop" /\ dpc' = "resolve" /\ taken' = taken + 1
        /\ UNCHANGED <<dropped, todo, heard, fired, reported>>
    BY <1>2 DEF PopChange
  <2>2. /\ Head(queue) \in Change /\ Tail(queue) \in Seq(Change)
        /\ Len(queue') = Len(queue) - 1 /\ Len(queue) \in Nat
        /\ Head(queue) = queue[1] /\ 1 \in DOMAIN queue
        /\ \A i \in DOMAIN queue' : i + 1 \in DOMAIN queue /\ 1 < i + 1
                                      /\ queue'[i] = queue[i + 1]
    BY <2>1
  <2>3. TypeOK'
    BY <1>2, <2>1, <2>2 DEF PopChange
  <2>4. WakeInv' /\ NothingVanishes'
    BY <2>1, <2>2 DEF WakeInv, NothingVanishes
  <2>5. OrderInv'
    <3>1. /\ \A i \in DOMAIN queue' : queue'[i].n <= fired'
          /\ \A s \in Sink : heard'[s] <= fired'
          /\ \A s \in Sink, i \in DOMAIN queue' : heard'[s] < queue'[i].n
      BY <2>1, <2>2 DEF OrderInv
    <3>2. \A i, j \in DOMAIN queue' : i < j => queue'[i].n < queue'[j].n
      <4> SUFFICES ASSUME NEW i \in DOMAIN queue', NEW j \in DOMAIN queue', i < j
                   PROVE  queue'[i].n < queue'[j].n
        OBVIOUS
      <4>1. i \in Nat /\ j \in Nat
        <5>1. DOMAIN queue' = 1..Len(queue')
          BY <2>1, <2>2
        <5> QED
          BY <5>1
      <4> QED
        BY <4>1, <2>2, SMTT(60) DEF OrderInv
    <3>3. /\ ev'.n = queue[1].n
          /\ ev'.n <= fired'
          /\ \A s \in Sink : heard'[s] < ev'.n
      BY <2>1, <2>2 DEF OrderInv
    <3>4. \A i \in DOMAIN queue' : ev'.n < queue'[i].n
      BY <2>2, <3>3 DEF OrderInv
    <3>5. todo' = {}
      BY <2>1 DEF HandInv
    <3> QED
      BY <3>1, <3>2, <3>3, <3>4, <3>5 DEF OrderInv
  <2>6. HandInv' /\ DeathInv'
    BY <1>2, <2>1, <2>2 DEF HandInv, DeathInv, DispatchEndsFirst, PopChange, Change
  <2> QED
    BY <2>3, <2>4, <2>5, <2>6
<1>3. CASE PopReport
  <2>1. TypeOK'
    BY <1>3 DEF PopReport, Report
  <2>2. WakeInv' /\ NothingVanishes'
    BY <1>3 DEF WakeInv, NothingVanishes, PopReport
  <2>3. OrderInv' /\ HandInv' /\ DeathInv'
    BY <1>3 DEF OrderInv, HandInv, DeathInv, DispatchEndsFirst, PopReport
  <2> QED
    BY <2>1, <2>2, <2>3
<1>4. CASE ResolvePath
  <2>1. ev \in Change /\ ev' \in Change /\ ev'.kind = ev.kind /\ ev'.n = ev.n
    <3>1. ev \in Change /\ ev' = [ev EXCEPT !.path = path[ev.pos]]
      BY <1>4, Numbers DEF ResolvePath, HandInv
    <3>2. path[ev.pos] \in Path \cup {None}
      BY <3>1 DEF Change
    <3> QED
      BY <3>1, <3>2 DEF Change
  <2>2. TypeOK'
    BY <1>4, <2>1 DEF ResolvePath
  <2>3. WakeInv' /\ NothingVanishes' /\ HandInv' /\ DeathInv'
    BY <1>4, <2>1 DEF WakeInv, NothingVanishes, HandInv, DeathInv, DispatchEndsFirst,
                      ResolvePath
  <2>4. OrderInv'
    BY <1>4, <2>1 DEF OrderInv, ResolvePath
  <2> QED
    BY <2>2, <2>3, <2>4
<1>5. CASE Snapshot \/ (\E s \in Sink : Skip(s)) \/ HandlerReturns \/ Fired
  <2>1. TypeOK'
    BY <1>5 DEF Snapshot, Skip, HandlerReturns, Fired
  <2>2. WakeInv' /\ NothingVanishes'
    BY <1>5 DEF WakeInv, NothingVanishes, Snapshot, Skip, HandlerReturns, Fired
  <2>3. OrderInv'
    BY <1>5, SMTT(60) DEF OrderInv, NoEvent, Snapshot, Skip, HandlerReturns, Fired
  <2>4. HandInv' /\ DeathInv'
    BY <1>5 DEF HandInv, DeathInv, DispatchEndsFirst, Snapshot, Skip, HandlerReturns, Fired
  <2> QED
    BY <2>1, <2>2, <2>3, <2>4
<1>6. ASSUME NEW s \in Sink, Invoke(s)
      PROVE  IInv'
  <2>1. TypeOK'
    BY <1>6 DEF Invoke, Change, Report, NoEvent
  <2>2. WakeInv' /\ NothingVanishes'
    BY <1>6 DEF WakeInv, NothingVanishes, Invoke
  <2>3. OrderInv'
    BY <1>6 DEF OrderInv, Invoke
  <2>4. HandInv' /\ DeathInv'
    BY <1>6 DEF HandInv, DeathInv, DispatchEndsFirst, Invoke
  <2> QED
    BY <2>1, <2>2, <2>3, <2>4
<1> QED
  BY <1>1, <1>2, <1>3, <1>4, <1>5, <1>6 DEF DispatchStep

(* FinalRelease starts after the last reference and frees after the thread. *)
LEMMA FinalKeeps ==
    ASSUME IInv, FinalStep
    PROVE  IInv'
<1> USE EventsAssumption DEF IInv, TypeOK, FinalStep, FinalClose, FinalQuit, FinalWake, FinalFree
<1>1. TypeOK'
  BY ZenonT(120)
<1>2. WakeInv'
  BY DEF WakeInv
<1>3. OrderInv'
  BY SMTT(60) DEF OrderInv
<1>4. NothingVanishes' /\ HandInv' /\ DeathInv'
  BY DEF NothingVanishes, HandInv, DeathInv, DispatchEndsFirst
<1> QED
  BY <1>1, <1>2, <1>3, <1>4

(* The inductive invariant holds of every behaviour of the event path.      *)
THEOREM EventsInvariant == Spec => []IInv
<1>1. Init => IInv
  <2> SUFFICES ASSUME Init PROVE IInv
    OBVIOUS
  <2>1. TypeOK
    <3>1. /\ fired \in 0..MaxFired /\ moved \in 0..MaxMoved
          /\ heard \in [Sink -> 0..MaxFired]
          /\ queue \in Seq(Change) /\ Len(queue) <= MaxQueued
      BY EventsAssumption DEF Init
    <3>2. /\ pc \in [Thread -> {"idle", "inside", "signal", "revoke"}]
          /\ sink \in [Sink -> {"new", "advised", "erased", "revoked"}]
          /\ path \in [Pos -> Path \cup {None}]
      BY DEF Init
    <3> QED
      BY <3>1, <3>2 DEF Init, TypeOK, NoEvent
  <2>2. WakeInv /\ NothingVanishes /\ OrderInv /\ HandInv /\ DeathInv
    BY EventsAssumption DEF Init, WakeInv, NothingVanishes, OrderInv, HandInv, DeathInv,
                            DispatchEndsFirst, NoEvent
  <2> QED
    BY <2>1, <2>2 DEF IInv
<1>2. IInv /\ [Next]_vars => IInv'
  <2> SUFFICES ASSUME IInv, [Next]_vars PROVE IInv'
    OBVIOUS
  <2>1. CASE \E t \in Thread : CallStep(t)
    BY <2>1, CallKeeps
  <2>2. CASE DispatchStep
    BY <2>2, DispatchKeeps
  <2>3. CASE FinalStep
    BY <2>3, FinalKeeps
  <2>4. CASE UNCHANGED vars
    BY <2>4 DEF vars, IInv, TypeOK, WakeInv, NothingVanishes, OrderInv, HandInv, DeathInv,
                DispatchEndsFirst
  <2> QED
    BY <2>1, <2>2, <2>3, <2>4 DEF Next, Gone
<1> QED
  BY <1>1, <1>2, PTL DEF Spec

(* The dispatch thread never sleeps on an event, whatever the interleaving  *)
(* of Push, the auto-reset event and the drain.                             *)
THEOREM NoWakeupIsLost == Spec => []NoLostWakeup
<1>1. IInv => NoLostWakeup
  BY DEF IInv, WakeInv, NoLostWakeup
<1> QED
  BY <1>1, EventsInvariant, PTL

(* Whatever kMaxQueued is, a change is delivered or counted as dropped.     *)
THEOREM EveryChangeIsAccounted == Spec => []NothingVanishes
<1>1. IInv => NothingVanishes
  BY DEF IInv
<1> QED
  BY <1>1, EventsInvariant, PTL

(* A sink hears of changes in the order they fired, and of none twice.      *)
THEOREM SinksHearInOrder == Spec => HeardInOrder
<1>1. IInv /\ [Next]_vars => [\A s \in Sink : heard'[s] # heard[s] => heard'[s] > heard[s]]_vars
  <2> SUFFICES ASSUME IInv, Next, NEW s \in Sink, heard'[s] # heard[s]
               PROVE  heard'[s] > heard[s]
    OBVIOUS
  <2>1. ~\E t \in Thread : CallStep(t)
    BY DEF CallStep, Enter, Leave, Mutate, Trigger, Signal, Close, CreateNew, Advise, Unadvise,
           Revoke, Release
  <2>2. ~FinalStep /\ ~Gone
    BY DEF FinalStep, FinalClose, FinalQuit, FinalWake, FinalFree, Gone, vars
  <2>3. PICK r \in Sink : Invoke(r)
    BY <2>1, <2>2 DEF Next, DispatchStep, Woken, PopChange, PopReport, PopNothing, ResolvePath,
                      Snapshot, Skip, HandlerReturns, Fired, CheckQuit
  <2>4. s \in todo /\ ev.kind = "change" /\ heard'[s] = ev.n
    BY <2>3 DEF Invoke, IInv, TypeOK
  <2> QED
    BY <2>4 DEF IInv, OrderInv, TypeOK, Change, Report, NoEvent
<1> QED
  BY <1>1, EventsInvariant, PTL DEF Spec, HeardInOrder

(* No client is left holding an object whose dispatch thread has gone.      *)
THEOREM ThreadOutlivesItsClients == Spec => []ThreadStaysWithItsClients
<1>1. IInv => ThreadStaysWithItsClients
  BY DEF IInv, DeathInv, ThreadStaysWithItsClients
<1> QED
  BY <1>1, EventsInvariant, PTL

(* Where no handler outlasts kJoinMs, the thread ends before the object.    *)
THEOREM DispatchThreadIsJoined ==
    ASSUME ~JoinTimesOut
    PROVE  Spec => []DispatchEndsFirst
<1>1. IInv => DispatchEndsFirst
  BY DEF IInv, DeathInv
<1> QED
  BY <1>1, EventsInvariant, PTL

=============================================================================
