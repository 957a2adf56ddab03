------------------------------ MODULE FileStore ------------------------------
(***************************************************************************)
(* What create, write, append and rm promise of the contents of the files, *)
(* with no blocks, extents or free counter.  The promise holds while the   *)
(* store is intact; it does not become intact again.  FileData implements  *)
(* it.                                                                     *)
(***************************************************************************)
EXTENDS Sequences, Naturals

CONSTANTS Files, CreateSizes, Texts, Zero, Absent

VARIABLES
    contents,   \* the bytes of each file, Absent if there is none
    intact      \* nothing has gone wrong yet

storeVars == <<contents, intact>>

Zeros(n) == [i \in 1 .. n |-> Zero]

StoreInit == contents = [f \in Files |-> Absent] /\ intact = TRUE

CreateFile(f, size) ==
    /\ contents[f] = Absent
    /\ contents' = [contents EXCEPT ![f] = Zeros(size)]

WriteFile(f, text) ==
    /\ contents[f] # Absent
    /\ contents' = [contents EXCEPT ![f] = text]

AppendFile(f, text) ==
    /\ contents[f] # Absent
    /\ contents' = [contents EXCEPT ![f] = @ \o text]

RemoveFile(f) ==
    /\ contents[f] # Absent
    /\ contents' = [contents EXCEPT ![f] = Absent]

Promised ==
    \E f \in Files :
        \/ \E size \in CreateSizes : CreateFile(f, size)
        \/ \E text \in Texts : WriteFile(f, text) \/ AppendFile(f, text)
        \/ RemoveFile(f)

StoreNext ==
    \/ intact /\ Promised /\ UNCHANGED intact
    \/ intact' = FALSE

StoreSpec == StoreInit /\ [][StoreNext]_storeVars
=============================================================================
