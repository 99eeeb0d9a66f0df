---------------------------- MODULE MCFacadeTree ----------------------------
(* FacadeTree on a few names and positions: `a' and `A' are one name in two   *)
(* spellings, `b' another.                                                    *)
EXTENDS FacadeTree

Spelling(k, c) == [key |-> k, as |-> c]

AaB == {Spelling("a", "a"), Spelling("a", "A"), Spelling("b", "b")}
AB  == {Spelling("a", "a"), Spelling("b", "b")}
TooLong == Spelling("a...a", "a...a")   \* past MAX_NAME

\* No call reads the last answer, and the properties that do are about steps.
TreeOnly == <<heap, dirty>>

PosSymmetry == Permutations(Pos \ {Root})

=============================================================================
