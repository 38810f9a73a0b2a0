---------------------------- MODULE MCServerLoop ----------------------------
(* The main loop with one or two remote hosts, for TLC. *)
EXTENDS ServerLoopProps, TLC

\* Hosts are interchangeable: nothing compares or orders them.
Symmetry == Permutations(Host)
=============================================================================
