--------------------------- MODULE MCVirtualTree ---------------------------
(* Small instances of VirtualTree for TLC. *)
EXTENDS VirtualTree, TLC

\* Views are only compared, so they may be exchanged.
ViewSymmetry == Permutations(Views)
=============================================================================
