---------------------------- MODULE MCHandshake ----------------------------
(* Two or three daemons, for TLC. *)
EXTENDS HandshakeProps, TLC

\* Daemons are interchangeable.
Symmetry == Permutations(Node)
=============================================================================
