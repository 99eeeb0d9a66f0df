---------------------------- MODULE MCComValues ----------------------------
(* ComValues with small integers of two widths: the narrow one, INT08's and   *)
(* INT32's, holds -1..0, and a long long, like an INT64, -2..1.               *)
EXTENDS ComValues

NarrowAndWide == {32, 64}

Halves == (32 :> 1) @@ (64 :> 2)

\* No call reads the last answer, and the properties that do are about steps.
ValuesOnly == <<kind, cells, dirty>>

=============================================================================
