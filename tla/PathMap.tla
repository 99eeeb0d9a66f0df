------------------------------- MODULE PathMap -------------------------------
(***************************************************************************)
(* What the node interface promises, with no heap, no positions and no     *)
(* handles: a store is a map from paths to nodes, closed under taking the  *)
(* parent, and every call changes it at one path and below.  A path is a   *)
(* sequence of steps, each a scope and a name without its case.            *)
(*                                                                         *)
(* FacadeTree implements it while sibling names stay unique.               *)
(***************************************************************************)
EXTENDS Naturals, SequencesExt

CONSTANTS Value, Scope, Container

VARIABLE map

Below(p) == { q \in DOMAIN map : IsPrefix(p, q) }

IsItem(p) == p \in DOMAIN map /\ map[p].kind = "item"

\* The map with everything in S taken out.
Without(S) == [q \in DOMAIN map \ S |-> map[q]]

\* The subtree at p, hung at d instead.
Rebased(p, d) ==
    LET moved == { d \o SubSeq(q, Len(p) + 1, Len(q)) : q \in Below(p) }
    IN  [q \in (DOMAIN map \ Below(p)) \cup moved |->
            IF q \in moved THEN map[p \o SubSeq(q, Len(d) + 1, Len(q))] ELSE map[q]]

PathMapInit == \E v \in Value :
    map = [p \in {<<>>} |-> [kind |-> "item", value |-> v, saved |-> <<>>]]

\* A call that answers an error or only moves a node among its siblings.
Keep == UNCHANGED map

Create(p) ==
    /\ p # <<>>
    /\ p \notin DOMAIN map
    /\ IsItem(Front(p))
    /\ \E k \in {"item"} \cup Container, v \in Value :
         map' = [q \in DOMAIN map \cup {p} |->
                   IF q = p THEN [kind |-> k, value |-> v, saved |-> <<>>] ELSE map[q]]

Assign(p) == IsItem(p) /\ \E v \in Value : map' = [map EXCEPT ![p].value = v]

Prune(p) == p # <<>> /\ map' = Without(Below(p))

Empty(p, s) ==
    /\ IsItem(p)
    /\ map' = Without({ q \in Below(p) : Len(q) > Len(p) /\ q[Len(p) + 1].scope = s })

\* A rename and a move are one thing: the subtree answers to another path.
Rehang(p, d) ==
    /\ p # <<>>
    /\ d \notin DOMAIN map
    /\ IsItem(Front(d))
    /\ ~IsPrefix(p, d)
    /\ map' = Rebased(p, d)

PushPair(p) ==
    /\ IsItem(p)
    /\ LET pair == [key |-> IF p = <<>> THEN "" ELSE Last(p).key, value |-> map[p].value]
       IN  map' = [map EXCEPT ![p].saved = <<pair>> \o @]

\* The node gets its saved value, and hangs under its saved name.
PopPair(p) ==
    /\ IsItem(p)
    /\ map[p].saved # <<>>
    /\ LET pair == Head(map[p].saved)
           d    == IF p = <<>> THEN p ELSE Append(Front(p), [Last(p) EXCEPT !.key = pair.key])
       IN  /\ d # p => d \notin DOMAIN map
           /\ map' = [Rebased(p, d) EXCEPT ![d].value = pair.value, ![d].saved = Tail(@)]

DropPair(p) ==
    /\ IsItem(p)
    /\ map[p].saved # <<>>
    /\ map' = [map EXCEPT ![p].saved = Tail(@)]

PathMapNext ==
    \/ Keep
    \/ \E p \in DOMAIN map' : Create(p)
    \/ \E p \in DOMAIN map :
         \/ Assign(p) \/ Prune(p) \/ PushPair(p) \/ PopPair(p) \/ DropPair(p)
         \/ \E s \in Scope : Empty(p, s)
         \/ \E d \in DOMAIN map' : Rehang(p, d)
    \/ PathMapInit'

PathMapSpec == PathMapInit /\ [][PathMapNext]_map

=============================================================================
