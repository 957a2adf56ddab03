---------------------------- MODULE MCMetadata ----------------------------
(* The directory table with a few users, names and paths.                  *)
EXTENDS Metadata

CONSTANTS f, d, root, ann

AllNames == {f, d}
SomePaths == {<< >>, <<d>>}
SomeModes == {{"others"}}

\* The id of ann has a digit more.  "d" stands for a name of two characters
\* whose second one is "f", a name of one: read too late by one, they are "f"
\* and empty, too early they are no name of any entry.
Id == [u \in {root, ann} |-> IF u = ann THEN 2 ELSE 1]
ReadAs == [p \in {f, d, Cut} \X (-2..2) |->
             IF p = <<d, 1>> THEN f
             ELSE IF p = <<f, 2>> THEN "throws" ELSE "unknown"]

\* A state behind a wrong key is checked and not followed: what is checked
\* there holds of clean states only.
Followed == clean
=============================================================================
