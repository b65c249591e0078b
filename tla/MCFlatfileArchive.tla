------------------------- MODULE MCFlatfileArchive -------------------------
(* Small instances of FlatfileArchive for TLC. *)
EXTENDS FlatfileArchive, TLC

\* Processes differ in name only.
Symmetry == Permutations(Procs)
=============================================================================
