----------------------------- MODULE BlockStore -----------------------------
(***************************************************************************)
(* Space management of one mounted disk: the bitmap (FATTABLE), the free   *)
(* counter of the superblock and the extents of the files, as changed by   *)
(* createFile, writeFileData and deleteFile of src/filesystem.cpp.  File   *)
(* contents are only lengths here; module FileData adds the bytes.         *)
(*                                                                         *)
(* One terminal works in the root directory, no directory exists, and a    *)
(* command runs to its end before the next one begins.  The mistakes of    *)
(* the code are part of the actions, and the variable "flaws" remembers    *)
(* which of them have happened.                                            *)
(***************************************************************************)
EXTENDS Integers, FiniteSets

CONSTANTS
    Files,          \* the entries a table has room for; which name leads to
                    \* which entry is the subject of module Metadata
    TotalBlocks,    \* TOTAL_BLOCKS
    DataStart,      \* DATA_START: the first block after the directory table
    BlockSize,      \* BLOCK_SIZE, in bytes
    MaxExtents,     \* MAX_EXTENTS
    CreateSizes,    \* the sizes given to create
    ContentSizes,   \* the lengths of the texts given to write and append
    OverReads,      \* how many stale integers past the end of the vector of
                    \* allocated blocks may continue its last run
    SaveMayFail,    \* whether saving the table, superblock or bitmap may fail
    SizeCap,        \* bound of this model on the size of a file
    FreeCap         \* bound of this model on a counter that runs ahead

ASSUME BlockStoreAssumption ==
    /\ DataStart \in Nat
    /\ TotalBlocks \in Nat /\ DataStart < TotalBlocks
    /\ BlockSize \in Nat \ {0}
    /\ MaxExtents \in Nat \ {0}
    /\ CreateSizes \subseteq Nat \ {0}    \* a create of no block allocates nothing
    /\ ContentSizes \subseteq Nat \ {0}   \* writeData refuses an empty text
    /\ OverReads \subseteq Nat /\ 0 \in OverReads
    /\ SaveMayFail \in BOOLEAN
    /\ SizeCap \in Nat /\ FreeCap \in Nat

VARIABLES
    FATTABLE,    \* the blocks whose bit is set
    freeBlocks,  \* superblock.freeBlocks
    files,       \* the entries
    flaws        \* which mistakes have been made (history)

spaceVars == <<FATTABLE, freeBlocks, files, flaws>>

Blocks == 0 .. TotalBlocks - 1
DataBlocks == DataStart .. TotalBlocks - 1

(***************************************************************************)
(* FileEntry.  extents[MaxExtents] is not in the array: it is the memory   *)
(* that follows it, isDirectory and parentIndex.  NoExtent there stands    *)
(* for those two fields as they were set, of a file in the root directory. *)
(***************************************************************************)
NoExtent == [startBlock |-> -1, length |-> 0]

Entry == [fileSize : Nat, numExtents : 1 .. MaxExtents + 1,
          extents : [0 .. MaxExtents -> [startBlock : Int, length : Int]]]

NoFile == [fileSize |-> 0, numExtents |-> 0,
           extents |-> [i \in 0 .. MaxExtents |-> NoExtent]]

Exists(f) == files[f].numExtents > 0

\* The tests of writeData, readData and deleteDataFile on the looked-up entry:
\* parentIndex is the length of the overflowing extent once one is stored.
FieldsIntact(e) == e.extents[MaxExtents] = NoExtent
Accessible(f) == Exists(f) /\ FieldsIntact(files[f])

Run(x) == x.startBlock .. x.startBlock + x.length - 1

\* The blocks reading and writing walk, and those deletion walks.
BlocksOf(e) == UNION {Run(e.extents[i]) : i \in 0 .. e.numExtents - 1}
ArrayBlocksOf(e) == UNION {Run(e.extents[i]) : i \in 0 .. MaxExtents - 1}

CeilBlocks(n) == (n + BlockSize - 1) \div BlockSize

LowestOf(S) == {b \in S : \A c \in S : b <= c}
LastBlock(x) == x.startBlock + x.length - 1

(***************************************************************************)
(* The mistakes:                                                           *)
(*   merged     a new extent has other blocks than were allocated for it,  *)
(*              or a block that another extent of the file has as well     *)
(*              (filesystem.cpp 33, 157, 197, 213)                         *)
(*   torn       a shrinking overwrite cleared the bit of a block that its  *)
(*              file keeps, or that is not its file's (232)                *)
(*   cut        a shrinking overwrite gave up blocks and did not count     *)
(*              them (242)                                                 *)
(*   short      an append went on without blocks for its text (139)        *)
(*   overrun    an append put an extent behind the array (142)             *)
(*   uncounted  a failed save put the counter back and kept the blocks     *)
(*              (299)                                                      *)
(***************************************************************************)
Flaws == {"merged", "torn", "cut", "short", "overrun", "uncounted"}

If(happens, flaw) == IF happens THEN {flaw} ELSE {}
Blame(mistakes) == flaws' = flaws \cup mistakes

Init ==
    /\ FATTABLE = 0 .. DataStart - 1
    /\ freeBlocks = TotalBlocks - DataStart
    /\ files = [f \in Files |-> NoFile]
    /\ flaws = {}

-----------------------------------------------------------------------------
(***************************************************************************)
(* allocateBitMapBlocks: the n lowest free data blocks, or none.           *)
(***************************************************************************)
\* Variant: the search starts at block 0.
FreeData_FromZero == Blocks \ FATTABLE

FreeData == DataBlocks \ FATTABLE

Allocation(n) ==
    {S \in SUBSET FreeData :
        /\ Cardinality(S) = n
        /\ n > 0
        /\ \A b \in S, c \in FreeData \ S : b < c}

(***************************************************************************)
(* The loops that turn the allocated blocks into extents put all of them   *)
(* into one run, since their condition holds while a block is left; then   *)
(* they compare stale memory behind the vector.  The integer behind a      *)
(* vector of one is part of the allocator's own link, never a block.       *)
(***************************************************************************)
MergedExtents(S) ==
    [startBlock : LowestOf(S),
     length : {Cardinality(S) + stale :
                 stale \in IF Cardinality(S) = 1 THEN {0} ELSE OverReads}]

\* Variant: numExtents is not incremented.
WithExtent_Uncounted(e, x) == [e EXCEPT !.extents[e.numExtents] = x]

WithExtent(e, x) ==
    [e EXCEPT !.extents[e.numExtents] = x, !.numExtents = @ + 1]

(***************************************************************************)
(* createFiles and createFile.  A failed allocation changes nothing, and a *)
(* failed save is rolled back by rollbackMetadataIndex: blocks freed,      *)
(* superblock restored, slot emptied, so the entry is absent as before.    *)
(***************************************************************************)
CreateAllowed(f, size) == ~Exists(f) /\ freeBlocks >= CeilBlocks(size)

\* Variant: the bits of the allocated blocks are not set.
Create_Unmarked(f, size) ==
    /\ CreateAllowed(f, size)
    /\ \E S \in Allocation(CeilBlocks(size)) :
        /\ freeBlocks' = freeBlocks - CeilBlocks(size)
        /\ \E x \in MergedExtents(S) :
            /\ files' = [files EXCEPT ![f] =
                [WithExtent(NoFile, x) EXCEPT !.fileSize = size]]
            /\ Blame(If(Run(x) # S, "merged"))
    /\ UNCHANGED FATTABLE

Create(f, size) ==
    /\ CreateAllowed(f, size)
    /\ \E S \in Allocation(CeilBlocks(size)) :
        /\ FATTABLE' = FATTABLE \cup S
        /\ freeBlocks' = freeBlocks - CeilBlocks(size)
        /\ \E x \in MergedExtents(S) :
            /\ files' = [files EXCEPT ![f] =
                [WithExtent(NoFile, x) EXCEPT !.fileSize = size]]
            /\ Blame(If(Run(x) # S, "merged"))

(***************************************************************************)
(* The end of writeFileData: size, counter, saves.  An entry whose         *)
(* parentIndex was overwritten has no parent, and the call returns before  *)
(* either is updated.  A failed save restores the superblock alone: the    *)
(* "original" entry it puts back is the one just modified, and the vector  *)
(* of blocks to free was shadowed inside the branch that allocated them.   *)
(***************************************************************************)
FinishWrite(f, e, size, taken, mistakes) ==
    IF FieldsIntact(e)
    THEN /\ files' = [files EXCEPT ![f] = [e EXCEPT !.fileSize = size]]
         /\ \/ freeBlocks' = freeBlocks - taken /\ Blame(mistakes)
            \/ /\ SaveMayFail /\ UNCHANGED freeBlocks
               /\ Blame(mistakes \cup If(taken > 0, "uncounted"))
    ELSE /\ files' = [files EXCEPT ![f] = e]
         /\ UNCHANGED freeBlocks
         /\ Blame(mistakes \cup {"overrun"})

(***************************************************************************)
(* writeFileData, append: fill the last block, then one more extent.  The  *)
(* guard against too many extents lets extentIndex = MAX_EXTENTS through;  *)
(* a file that used it is no longer accessible, so the branch that rejects *)
(* is never reached from here.                                             *)
(***************************************************************************)
TailRoom(e) == (BlockSize - (e.fileSize % BlockSize)) % BlockSize

AppendTo(f, size) ==
    LET e == files[f]
        required == CeilBlocks(size - TailRoom(e))
    IN  /\ Accessible(f)
        /\ e.fileSize + size <= SizeCap
        /\ freeBlocks >= required
        /\ \/ /\ size <= TailRoom(e)
              /\ FinishWrite(f, e, e.fileSize + size, required, {})
              /\ UNCHANGED FATTABLE
           \/ /\ size > TailRoom(e)
              /\ \E S \in Allocation(required) :
                  /\ FATTABLE' = FATTABLE \cup S
                  /\ \E x \in MergedExtents(S) :
                      FinishWrite(f, WithExtent(e, x), e.fileSize + size, required,
                                  If(Run(x) # S, "merged"))
           \/ /\ size > TailRoom(e)          \* no blocks: the rest is not written
              /\ Allocation(required) = {} \/ SaveMayFail
              /\ FinishWrite(f, e, e.fileSize + size, required, {"short"})
              /\ UNCHANGED FATTABLE

(***************************************************************************)
(* writeFileData, overwrite.                                               *)
(***************************************************************************)
Required(size) == CeilBlocks(size)
Allocated(e) == CeilBlocks(e.fileSize)

Overwrite(f, size) ==
    /\ Accessible(f)
    /\ Required(size) = Allocated(files[f])
    /\ FinishWrite(f, files[f], size, 0, {})
    /\ UNCHANGED FATTABLE

\* The block after the last one lengthens the last extent, and the new blocks
\* become an extent as well unless that block was all of them.
Grow(f, size) ==
    LET e == files[f]
        extra == Required(size) - Allocated(e)
        last == e.extents[e.numExtents - 1]
    IN  /\ Accessible(f)
        /\ extra > 0
        /\ freeBlocks >= extra
        /\ \E S \in Allocation(extra) :  \* no block: a null dereference
            LET adjacent == LastBlock(last) + 1 \in LowestOf(S)
                e1 == IF adjacent
                      THEN [e EXCEPT !.extents[e.numExtents - 1].length = @ + 1]
                      ELSE e
            IN  /\ FATTABLE' = FATTABLE \cup S
                /\ IF adjacent /\ Cardinality(S) = 1
                   THEN FinishWrite(f, e1, size, extra, {})
                   ELSE \E x \in MergedExtents(S) :
                          FinishWrite(f, WithExtent(e1, x), size, extra,
                                      If(adjacent \/ Run(x) # S, "merged"))

\* The loop that counts blocks never leaves extent 0 until it has counted too
\* many, so it counts extent 0 again and again.  If it then counts exactly
\* enough, nothing is freed; otherwise the run it frees is taken from the
\* already shortened extent and ends one block behind it, and the other
\* extents are freed only in the first round, before numExtents is cut to 1.
Shortened(e, first) ==
    [e EXCEPT !.numExtents = 1,
              !.extents = [i \in 0 .. MaxExtents |-> IF i = 0 THEN first ELSE NoExtent]]

\* Variant: the first extent is freed with the others.
Shrink_FreesFirst(f, size) ==
    LET e == files[f]
    IN  /\ Accessible(f)
        /\ Required(size) < Allocated(e)
        /\ FATTABLE' = FATTABLE \ BlocksOf(e)
        /\ FinishWrite(f, Shortened(e, e.extents[0]), size, 0, {"cut"})

Shrink(f, size) ==
    LET e == files[f]
        first == e.extents[0]
        required == Required(size)
        rounds == (required + first.length - 1) \div first.length
        surplus == rounds * first.length - required
        short == [first EXCEPT !.length = @ - surplus]
        freed == IF surplus = 0 THEN {}
                 ELSE LET end == first.startBlock + short.length
                      IN  (end - surplus + 1 .. end) \cup
                          (IF rounds = 1
                           THEN UNION {Run(e.extents[i]) : i \in 1 .. e.numExtents - 1}
                           ELSE {})
    IN  /\ Accessible(f)
        /\ required < Allocated(e)
        /\ FATTABLE' = FATTABLE \ freed
        /\ FinishWrite(f, Shortened(e, short), size, 0,
                       If(~(freed \subseteq BlocksOf(e) \ Run(short)), "torn")
                         \cup If(freed # {}, "cut"))

WriteTo(f, size) == Overwrite(f, size) \/ Grow(f, size) \/ Shrink(f, size)

(***************************************************************************)
(* deleteFile: the array of extents is walked to its end, the counter gets *)
(* the sum of their lengths back.  deleteDataFile refuses an entry whose   *)
(* parentIndex is not the current directory.                               *)
(***************************************************************************)
LengthSum(e) ==
    LET sum[n \in 0 .. MaxExtents] ==
            IF n = 0 THEN 0 ELSE sum[n - 1] + e.extents[n - 1].length
    IN  sum[MaxExtents]

\* Variant: the counter is not given the blocks back.
Delete_Uncounted(f) ==
    /\ Accessible(f)
    /\ FATTABLE' = FATTABLE \ ArrayBlocksOf(files[f])
    /\ files' = [files EXCEPT ![f] = NoFile]
    /\ UNCHANGED <<freeBlocks, flaws>>

Delete(f) ==
    /\ Accessible(f)
    /\ freeBlocks + LengthSum(files[f]) <= FreeCap
    /\ FATTABLE' = FATTABLE \ ArrayBlocksOf(files[f])
    /\ freeBlocks' = freeBlocks + LengthSum(files[f])
    /\ files' = [files EXCEPT ![f] = NoFile]
    /\ UNCHANGED flaws

Next ==
    \E f \in Files :
        \/ \E size \in CreateSizes : Create(f, size)
        \/ \E size \in ContentSizes : AppendTo(f, size) \/ WriteTo(f, size)
        \/ Delete(f)

Spec == Init /\ [][Next]_spaceVars

-----------------------------------------------------------------------------
TypeOK ==
    /\ FATTABLE \subseteq Blocks
    /\ freeBlocks \in Int
    /\ files \in [Files -> Entry \cup {NoFile}]
    /\ flaws \subseteq Flaws

\* No file ever covers a block of the superblock, the bitmap, the B+ tree or
\* the directory table, whatever happens to the bitmap.
MetadataNeverCovered ==
    \A f \in Files : \A b \in BlocksOf(files[f]) : b >= DataStart

\* The extents of all files, one file's own included, are disjoint.
Disjoint ==
    \A f, g \in Files :
        \A i \in 0 .. files[f].numExtents - 1, j \in 0 .. files[g].numExtents - 1 :
            f # g \/ i # j => Run(files[f].extents[i]) \cap Run(files[g].extents[j]) = {}

\* Every block of a file is marked in the bitmap.
Marked == \A f \in Files : BlocksOf(files[f]) \subseteq FATTABLE

\* Until an extent is merged or torn, no block is in two files or twice in one,
\* whatever sizes are created, appended, overwritten and deleted, and also with
\* all other mistakes: an extent behind the array, appends without blocks,
\* failed saves (filesystem.cpp 4-408).
NoSharedBlocks == flaws \cap {"merged", "torn"} = {} => Disjoint

\* Until then no block of a file can be given away.
FileBlocksMarked == flaws \cap {"merged", "torn"} = {} => Marked

\* Without a mistake superblock.freeBlocks is the number of data blocks whose
\* bit is clear, so that the check of createFiles and the search of
\* allocateBitMapBlocks agree: what createFile, writeFileData and deleteFile
\* reckon from the size of a file, from the size of a text, from the room in the
\* last block and from the lengths of extents is what happened in the bitmap.
FreeCountExact == flaws = {} => freeBlocks = Cardinality(FreeData)

\* Claims the code does not keep.

\* Blocks are given out by the bitmap (README.md 25) and the user chooses the
\* sizes (README.md 14): as long as no bit is cleared too early, no file covers a
\* block of another.
BlocksNeverShared ==
    "torn" \notin flaws =>
        \A f, g \in Files : f # g => BlocksOf(files[f]) \cap BlocksOf(files[g]) = {}

\* What the bitmap calls free is free (README.md 25), as long as extents have the
\* blocks they were given.
KeptBlocksMarked == "merged" \notin flaws => Marked

\* "Error: Exceeded max extents while creating file" (filesystem.cpp 143): a
\* file has no more extents than its array.
ExtentsInArray == \A f \in Files : files[f].numExtents <= MaxExtents

\* Every marked data block belongs to a file.
NoLeak == FATTABLE \cap DataBlocks \subseteq UNION {BlocksOf(files[f]) : f \in Files}
=============================================================================
