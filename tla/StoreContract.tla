--------------------------- MODULE StoreContract ---------------------------
(***************************************************************************)
(* What a store promises its client, with no lock, no reference count and  *)
(* no kernel in it:                                                        *)
(*                                                                         *)
(*   - the store is open, then closed, then gone, in that order;           *)
(*   - it hands out objects only while it is open, and is gone exactly     *)
(*     when the client has given all of them back, the store handle        *)
(*     included;                                                           *)
(*   - at most one client sink runs at a time, and only one installed when *)
(*     it was called; a sink that has been replaced, or whose store has    *)
(*     been closed, is not running and is not called again, so a client    *)
(*     may destroy it.                                                     *)
(*                                                                         *)
(* FacadeStore implements this specification (StoreImplementsContract).    *)
(***************************************************************************)
CONSTANTS Object, Store, EventSink, PagingSink, None

VARIABLES
    phase,    \* "open", "closed" or "gone"
    given,    \* the objects the client has and has not given back
    events,   \* the change sink in force
    paging,   \* the paging sink in force
    running   \* the sink running now, or None

cvars == <<phase, given, events, paging, running>>

ContractInit ==
    /\ phase = "open"
    /\ given = {Store}
    /\ events = None
    /\ paging = None
    /\ running = None

Give(o) ==
    /\ phase = "open"
    /\ o \notin given
    /\ given' = given \cup {o}
    /\ UNCHANGED <<phase, events, paging, running>>

\* Giving back the store handle takes a close first.
TakeBack(o) ==
    /\ o \in given
    /\ o = Store => phase = "closed"
    /\ given' = given \ {o}
    /\ phase' = IF given' = {} THEN "gone" ELSE phase
    /\ UNCHANGED <<events, paging, running>>

Install(es, ps) ==
    /\ phase = "open"
    /\ running = None
    /\ events' = es
    /\ paging' = ps
    /\ UNCHANGED <<phase, given, running>>

ShutDown ==
    /\ phase = "open"
    /\ running = None
    /\ phase' = "closed"
    /\ events' = None
    /\ paging' = None
    /\ UNCHANGED <<given, running>>

Begin ==
    /\ phase = "open"
    /\ running = None
    /\ running' \in {events, paging} \ {None}
    /\ UNCHANGED <<phase, given, events, paging>>

End ==
    /\ running # None
    /\ running' = None
    /\ UNCHANGED <<phase, given, events, paging>>

ContractNext ==
    \/ \E o \in Object : Give(o) \/ TakeBack(o)
    \/ \E es \in EventSink \cup {None}, ps \in PagingSink \cup {None} : Install(es, ps)
    \/ ShutDown \/ Begin \/ End

ContractSpec == ContractInit /\ [][ContractNext]_cvars

=============================================================================
