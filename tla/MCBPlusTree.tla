---------------------------- MODULE MCBPlusTree ----------------------------
(* The index of a small order over a few names. *)
EXTENDS BPlusTree
=============================================================================
