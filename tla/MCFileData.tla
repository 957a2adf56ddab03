----------------------------- MODULE MCFileData -----------------------------
(* FileData with texts of one and two bytes and blocks of three. *)
EXTENDS FileData, TLC
CONSTANTS byte1, byte2

FileSymmetry == Permutations(Files)
TwoTexts == {<<byte1>>, <<byte2, byte1>>}
=============================================================================
