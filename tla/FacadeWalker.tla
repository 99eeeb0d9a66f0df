---------------------------- MODULE FacadeWalker ----------------------------
(***************************************************************************)
(* FacadeWalker (FacadeCursor.cpp:335-617): a whole subtree from one flat  *)
(* loop, over a stack of kernel cursors.  The tree does not change while a *)
(* walker is open (MsgFacade.h:133-139), so it is chosen once, by Init.    *)
(*                                                                         *)
(* The elements are numbered 1, 2, ... as an outline numbers its lines: an *)
(* element comes before what is under it, which comes before its next      *)
(* sibling.  The walker never sees the numbers: its cursors step from      *)
(* sibling to sibling.  The properties do, so they can say in what order a *)
(* walk meets the elements without repeating how it finds them.            *)
(***************************************************************************)
EXTENDS Integers, Sequences, FiniteSetsExt

CONSTANTS N,          \* the most elements a subtree has
          MaxDepth    \* MAX_DEPTH: the most levels below the outermost

ASSUME NAssumption == N \in Nat
ASSUME MaxDepthAssumption == MaxDepth \in Nat

VARIABLES up,         \* up[n]: the parent of element n, 0 for the walk's owner
          lists,      \* the elements that are lists or vects, not items
          levels      \* m_aLevels, the outermost first

End == N + 1          \* where a cursor past its last element is

\* A tree numbered in outline order: the parent comes first, and all that lies
\* between a parent and its child is under that parent too.
Outlines == UNION { { p \in [1..n -> 0..n] :
    \A c \in 1..n : /\ p[c] < c
                    /\ \A m \in p[c] + 1 .. c - 1 : p[m] >= p[c] } : n \in 0..N }

Node == DOMAIN up
Kids(o) == {n \in Node : up[n] = o}

FirstOf(S) == IF S = {} THEN End ELSE Min(S)

\* A kernel cursor over the children of `of', standing on `at'.
Level == [of : 0..N, at : 1..End, fresh : BOOLEAN]
Opened(o, fresh) == [of |-> o, at |-> FirstOf(Kids(o)), fresh |-> fresh]
CursAtEnd(l) == l.at = End

Top == levels[Len(levels)]
Depth == Len(levels) - 1
AtEnd == CursAtEnd(Top)

TypeOK ==
    /\ up \in Outlines
    /\ lists \subseteq Node
    /\ levels \in Seq(Level)
    /\ Len(levels) \in 1 .. MaxDepth + 1

\* Make: the outermost level stands on the first child already, so it is not
\* fresh.
Init ==
    /\ up \in Outlines
    /\ lists \in SUBSET {n \in Node : Kids(n) = {}}
    /\ levels = <<Opened(0, FALSE)>>

-----------------------------------------------------------------------------
\* Mutant: a fresh level stays fresh once it has been stepped onto.
SteppedKeepsFresh(l) ==
    [l EXCEPT !.at = IF l.fresh THEN @
                     ELSE FirstOf({n \in Kids(l.of) : n > l.at})]

\* A fresh level is stepped onto, any other is advanced unless it is at its end.
Stepped(l) ==
    [l EXCEPT !.fresh = FALSE,
              !.at = IF l.fresh THEN @
                     ELSE FirstOf({n \in Kids(l.of) : n > l.at})]

\* Mutant: after an ascent Next answers from the parent without trying it again.
WalkerNextNoRetry ==
    LET one == Stepped(Top)
    IN  /\ levels' = IF CursAtEnd(one) /\ Depth > 0
                     THEN SubSeq(levels, 1, Depth)
                     ELSE Append(SubSeq(levels, 1, Depth), one)
        /\ UNCHANGED <<up, lists>>

\* Next ascends out of the levels that have nothing more, the outermost one
\* excepted.
WalkerNext ==
    LET more == {i \in 1..Len(levels) : ~CursAtEnd(Stepped(levels[i]))}
        stop == IF more = {} THEN 1 ELSE Max(more)
    IN  /\ levels' = Append(SubSeq(levels, 1, stop - 1), Stepped(levels[stop]))
        /\ UNCHANGED <<up, lists>>

\* Mutant: an item with nothing under it is descended into.
PushAnswerEmpty ==
    CASE Len(levels) > MaxDepth -> "E_DEPTH"
      [] Len(levels) <= MaxDepth /\ AtEnd -> "E_RANGE"
      [] Len(levels) <= MaxDepth /\ Top.at \in lists -> "E_TYPE"
      [] OTHER -> "S_OK"

PushAnswer ==
    CASE Len(levels) > MaxDepth -> "E_DEPTH"
      [] Len(levels) <= MaxDepth /\ AtEnd -> "E_RANGE"
      [] Len(levels) <= MaxDepth /\ Top.at \in lists -> "E_TYPE"
      [] OTHER -> IF Kids(Top.at) = {} THEN "S_FALSE" ELSE "S_OK"

Push ==
    /\ levels' = IF PushAnswer = "S_OK" THEN Append(levels, Opened(Top.at, TRUE))
                                        ELSE levels
    /\ UNCHANGED <<up, lists>>

Pop ==
    /\ levels' = IF Depth = 0 THEN levels ELSE SubSeq(levels, 1, Depth)
    /\ UNCHANGED <<up, lists>>

Break ==
    /\ levels' = SubSeq(levels, 1, 1)
    /\ UNCHANGED <<up, lists>>

Next == WalkerNext \/ Push \/ Pop \/ Break

Spec == Init /\ [][Next]_<<up, lists, levels>>

-----------------------------------------------------------------------------
\* A Push says where the next Next goes and is not a step in itself
\* (MsgFacade.h:587-590): the walker is at the stop it was pushed from.
Pending == Top.fresh
Here == IF Pending THEN Top.of ELSE Top.at

\* The client did not Push twice between two moves; if it did, the level it
\* passed through is still fresh.
PushedOnce == \A i \in 1 .. Depth : ~levels[i].fresh

\* The first element in outline order that is not under n.
Past(n) == FirstOf({m \in Node : m > n /\ up[m] < n})

\* The open levels are one path through the tree: each is the children of the
\* element the level above stands on, and below the outermost each stands on
\* an element.  It is what makes IsEnd honest (FacadeCursor.cpp:466-467).
LevelsAreAPath == \A i \in 2..Len(levels) :
    /\ levels[i].of = levels[i - 1].at
    /\ levels[i].at \in Kids(levels[i].of)

\* What the proofs need besides: every level is a cursor over some element's
\* children, the outermost over the owner's, and stands on the first of them
\* while it is fresh; and no level stands before the element the level above
\* stands on.
WalkerIInv ==
    /\ levels[1].of = 0
    /\ \A i \in 1..Len(levels) : levels[i].at \in Kids(levels[i].of) \cup {End}
    /\ LevelsAreAPath
    /\ \A i, j \in 1..Len(levels) : i <= j => levels[i].at <= levels[j].at
    /\ \A i \in 1..Len(levels) : levels[i].fresh =>
         levels[i].at = FirstOf(Kids(levels[i].of))

\* A walk meets the elements in outline order, skipping only what is under an
\* element the client did not push into: a Next after a Push goes to the very
\* next element, and any other goes past everything under this one.  It ends by
\* a Next that found nothing more, never by a Push, a Pop or a Break, which
\* leaves the siblings of the abandoned branch to come; and a walk that has
\* ended stays ended, for Next answers S_FALSE from there for ever
\* (FacadeCursor.cpp:412-415 and 525-531).
WalkIsInOrder == [][
    /\ WalkerNext /\ PushedOnce /\ ~AtEnd =>
         /\ Here' = IF Pending THEN Here + 1 ELSE Past(Here)
         /\ ~Pending'
    /\ AtEnd => AtEnd' /\ Depth' = 0
    /\ AtEnd' /\ ~AtEnd => WalkerNext ]_levels

=============================================================================
