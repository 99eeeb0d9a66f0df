--------------------------- MODULE MCFacadeStore ---------------------------
(* FacadeStore on small sets of threads, handles and sinks. *)
EXTENDS FacadeStore, TLC

ThreadSymmetry == Permutations(Thread)

=============================================================================
