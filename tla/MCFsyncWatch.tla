--------------------------- MODULE MCFsyncWatch ----------------------------
(* Small trees, for TLC. *)
EXTENDS FsyncWatchProps, TLC

\* Inodes other than the root are interchangeable.
Symmetry == Permutations(Dir \ {Root})
=============================================================================
