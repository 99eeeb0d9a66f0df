------------------------------ MODULE ComWalk ------------------------------
(***************************************************************************)
(* CMsgRecurs (ComWalk.cpp): the walker as a COM object.  The facade's     *)
(* walker hands back no node, so this one keeps the names it passed, the   *)
(* ancestry, and answers Path, Field, List and Vector from them.  An       *)
(* element stands for its name.                                            *)
(***************************************************************************)
EXTENDS FacadeWalker

VARIABLES ancestry,   \* m_ancestry, the names from the outermost level down
          told        \* the depth Push last answered, until the next call

vars == <<up, lists, levels, ancestry, told>>

NoName  == 0          \* what std::vector::resize fills with
NoDepth == -1         \* the call before answered no depth

\* The names are of open levels, and those are one path through the tree.
ComTypeOK ==
    /\ TypeOK
    /\ LevelsAreAPath
    /\ ancestry \in Seq(Node \cup {NoName})
    /\ told \in {NoDepth} \cup 0..MaxDepth

\* m_ancestry.resize ( n )
Resized(n) == [i \in 1..n |-> IF i <= Len(ancestry) THEN ancestry[i] ELSE NoName]

\* Note where the walker is now; a finished walk leaves the last stop in place.
Track == ancestry' = IF AtEnd' THEN ancestry
                               ELSE Append(Resized(Depth'), Top'.at)

\* Make: the walk starts on the first stop.
ComInit ==
    /\ Init
    /\ ancestry = IF AtEnd THEN <<>> ELSE <<Top.at>>
    /\ told = NoDepth

MoveNext ==
    /\ WalkerNext
    /\ Track
    /\ told' = NoDepth

\* Mutant: the depth is asked for before the push.
DepthAnsweredBefore ==
    IF PushAnswer \in {"S_OK", "E_TYPE"} THEN Depth
    ELSE IF PushAnswer = "S_FALSE" THEN 0 ELSE NoDepth

\* An element that cannot be descended into is no failure here: Push answers
\* the depth unchanged.  The facade writes no depth for an item with nothing
\* under it, and the local that receives it starts at 0.
DepthAnswered ==
    CASE PushAnswer = "S_OK"    -> Depth'
      [] PushAnswer = "E_TYPE"  -> Depth
      [] PushAnswer = "S_FALSE" -> 0
      [] OTHER                  -> NoDepth

ComPush ==
    /\ Push
    /\ told' = DepthAnswered
    /\ UNCHANGED ancestry

PopRefused ==
    /\ Depth = 0
    /\ Pop
    /\ told' = NoDepth
    /\ UNCHANGED ancestry

ComPop ==
    /\ Depth > 0
    /\ Pop
    /\ Track
    /\ told' = Depth'

\* Mutant: Break does not note where it resumed.
ComBreakUntracked ==
    /\ Break
    /\ told' = NoDepth
    /\ UNCHANGED ancestry

ComBreak ==
    /\ Break
    /\ Track
    /\ told' = NoDepth

ComNext == MoveNext \/ ComPush \/ PopRefused \/ ComPop \/ ComBreak

ComSpec == ComInit /\ [][ComNext]_vars

-----------------------------------------------------------------------------
\* Path is the ancestry, each name after a '.'.  Field, List and Vector look it
\* up with NodeFromPath: each name under the one before, an empty one nowhere.
NoField == 0

Field ==
    LET Found(i) == /\ ancestry[i] # NoName
                    /\ up[ancestry[i]] = IF i = 1 THEN 0 ELSE ancestry[i - 1]
    IN  IF ancestry # <<>> /\ \A i \in DOMAIN ancestry : Found(i)
        THEN ancestry[Len(ancestry)] ELSE NoField

\* At every stop of a walk that pushed once between two moves, Path leads to
\* the element the walker stands on: "the first d entries of this vector are
\* still the ancestry and the name goes on the end" (ComWalk.cpp:86-88).  It
\* survives descents, automatic ascents of several levels, Pop and Break; and
\* the last stop of a walk that ended can still be asked for.
PathIsTheStop ==
    /\ PushedOnce /\ ~Pending /\ ~AtEnd => Field = Top.at
    /\ AtEnd /\ Node # {} => ancestry # <<>>

\* What it rests on: every level the walk has stepped onto has its name in place,
\* and at a stop there is no name beyond the innermost level's.
ComIInv ==
    /\ WalkerIInv
    /\ \A i \in 1..Len(levels) : ~levels[i].fresh /\ ~CursAtEnd(levels[i]) =>
         i <= Len(ancestry) /\ ancestry[i] = levels[i].at
    /\ ~Pending /\ ~AtEnd => Len(ancestry) = Len(levels)
    /\ Node # {} => ancestry # <<>>

\* The loop of MsgcoreCom.idl:723-727: at each stop the client may Push, and
\* then moves.  However it chooses, and whatever it did before, the walk ends.
LoopStep == MoveNext \/ (ComPush /\ ~Pending)
LoopEnds == <>[][LoopStep]_vars /\ WF_vars(MoveNext) => <>AtEnd

\* "Only the first moves the walker, and the depth answered says which happened"
\* (MsgcoreCom.idl:750-752): a Push that answers more than the depth it was asked
\* at has descended, and any other answer, or none, means the walker is at the
\* stop it was at.  What else the other answers say is not to be relied on: for an
\* item with nothing under it the facade writes no depth, and the answer is 0.
PushTellsDescent == [][
    ComPush => (told' > Depth <=> Depth' > Depth) /\ (Depth' = Depth => levels' = levels)
    ]_vars

=============================================================================
