--------------------------- MODULE MCFacadeProcess ---------------------------
(* FacadeProcess with two stores: the sinks of one call both, those of the    *)
(* other only their own.                                                      *)
EXTENDS FacadeProcess

CONSTANTS a, b

OneWay == [s \in Store |-> IF s = a THEN Store ELSE {b}]

=============================================================================
