---------------------------- MODULE FacadePaging ----------------------------
(***************************************************************************)
(* The PushPaging / PopPaging bracket of FacadeStore, with a history       *)
(* variable that remembers what the client was told: MsgFacade.h:880-883   *)
(* says the pair saves and restores the whole registration, and that work  *)
(* done in between runs with paging suppressed.                            *)
(***************************************************************************)
EXTENDS FacadeStore

VARIABLE bracket  \* what the client knows of its outstanding PushPaging

bvars == <<vars, bracket>>

\* is:      "none"; "quiet" while the client has installed nothing since its
\*          push; "set" once it has called SetPaging inside the bracket
\* cleared: Clear has replaced the manager inside the bracket
\* sink:    the paging sink the push found installed
NoBracket == [is |-> "none", cleared |-> FALSE, sink |-> None]

Pushes(t) == PushPaging(t) /\ ~PushRefused
Pops(t)   == PopPaging(t) /\ m_nPagingPushed # 0
Sets(t)   == \E s \in PagingSink \cup {None} : SetPaging(t, s)
Clears(t) == Clear(t) /\ m_nPagingPushed' # m_nPagingPushed

BracketAfter ==
    CASE \E t \in Thread : Pushes(t) ->
            [is |-> "quiet", cleared |-> FALSE, sink |-> m_pPaging]
      [] \E t \in Thread : PopPaging(t) -> NoBracket
      [] bracket.is # "none" /\ \E t \in Thread : Sets(t) ->
            [bracket EXCEPT !.is = "set"]
      [] bracket.is # "none" /\ \E t \in Thread : Clears(t) ->
            [bracket EXCEPT !.cleared = TRUE]
      [] OTHER -> bracket

BracketInit == Init /\ bracket = NoBracket
BracketNext == Next /\ bracket' = BracketAfter
BracketSpec == BracketInit /\ [][BracketNext]_bvars
FairBracketSpec == BracketSpec /\ Fairness

-----------------------------------------------------------------------------
\* While the client has only pushed, and has not emptied the store, the kernel
\* has no paging callback to make: a Save in the bracket faults nothing in,
\* which the kernel's own push does not see to (FacadeStore.cpp:989-1009).  And
\* the pop leaves paging exactly as the push found it: the same sink, hooked.
QuietBracketHolds == [][ bracket.is = "quiet" /\ ~bracket.cleared =>
    /\ ~core.page
    /\ \A t \in Thread : Pops(t) /\ ~m_bClosed
                            => m_pPaging' = bracket.sink /\ core'.page ]_bvars

=============================================================================
