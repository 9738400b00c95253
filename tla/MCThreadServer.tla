-------------------------- MODULE MCThreadServer --------------------------
(* Instances of ThreadServer for TLC.                                       *)
EXTENDS ThreadServer, TLC

Symmetry == Permutations(Conn)

\* Bound of the run with three clients served at once: nothing is explored
\* after the first undefined behaviour, which the live run goes through.
Intact == calm
=============================================================================
