---------------------------- MODULE MCBlockStore ----------------------------
(* BlockStore on a disk of a few data blocks. *)
EXTENDS BlockStore, TLC

FileSymmetry == Permutations(Files)
=============================================================================
