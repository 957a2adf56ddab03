------------------------ MODULE MCSpaceAccounting ------------------------
(* Space accounting with a few blocks and terminals.                      *)
EXTENDS SpaceAccounting, TLC

Few == 1..4

Symmetry == Permutations(Threads)

\* A state behind a mistake is checked and not followed: what is checked there
\* holds of sound states only.
Followed == Sound
=============================================================================
