------------------------------ MODULE FileData ------------------------------
(***************************************************************************)
(* BlockStore with the bytes: where createFile, writeFileData and          *)
(* deleteFile put them and where readFileData finds them.  The texts are   *)
(* those a terminal can send: command and text share one message of        *)
(* BUFFER_SIZE = BLOCK_SIZE bytes, so a text is shorter than a block.      *)
(***************************************************************************)
EXTENDS BlockStore, SequencesExt

CONSTANTS Texts,   \* byte sequences given to write and append
          Zero,    \* the byte 0
          Absent   \* no file, in the abstract store

ASSUME TerminalTexts ==
    /\ \A text \in Texts : Len(text) \in 1 .. BlockSize - 1
    /\ ContentSizes = {Len(text) : text \in Texts}

VARIABLE disk      \* the bytes of each data block

dataVars == <<FATTABLE, freeBlocks, files, flaws, disk>>

EmptyBlock == [i \in 0 .. BlockSize - 1 |-> Zero]

DataInit == Init /\ disk = [b \in DataBlocks |-> EmptyBlock]

\* disk.seekp(block * BLOCK_SIZE + offset), disk.write(text): the block after
\* it.  No text written here runs past the end of its block.
Put(block, offset, text) ==
    [i \in 0 .. BlockSize - 1 |->
        IF i \in offset .. offset + Len(text) - 1
        THEN text[i - offset + 1] ELSE block[i]]

\* allocateBitMapBlocks writes zeros into the blocks it gives out.
Taken == FATTABLE' \ FATTABLE
Zeroed(blocks) == [b \in DataBlocks |-> IF b \in blocks THEN EmptyBlock ELSE disk[b]]

CreateData(f, size) ==
    /\ Create(f, size)
    /\ disk' = Zeroed(Taken)

\* Variant: the tail is written at the front of the last block.
AppendData_AtFront(f, text) ==
    LET e == files[f]
        last == LastBlock(e.extents[e.numExtents - 1])
        room == IF Len(text) < TailRoom(e) THEN Len(text) ELSE TailRoom(e)
    IN  /\ AppendTo(f, Len(text))
        /\ disk' = [b \in DataBlocks |->
             IF b \in Taken
             THEN Put(EmptyBlock, 0, SubSeq(text, room + 1, Len(text)))
             ELSE IF b = last THEN Put(disk[b], 0, SubSeq(text, 1, room))
             ELSE disk[b]]

\* The tail goes behind the last byte of the last block, the rest to the front
\* of the block allocated for it, if one was.
AppendData(f, text) ==
    LET e == files[f]
        last == LastBlock(e.extents[e.numExtents - 1])
        room == IF Len(text) < TailRoom(e) THEN Len(text) ELSE TailRoom(e)
        head == SubSeq(text, 1, room)
        rest == SubSeq(text, room + 1, Len(text))
    IN  /\ AppendTo(f, Len(text))
        /\ disk' = [b \in DataBlocks |->
             IF b \in Taken THEN Put(EmptyBlock, 0, rest)
             ELSE IF b = last THEN Put(disk[b], e.fileSize % BlockSize, head)
             ELSE disk[b]]

\* The text fits the first block; the later blocks get no byte.
WriteData(f, text) ==
    /\ WriteTo(f, Len(text))
    /\ disk' = [Zeroed(Taken) EXCEPT ![files[f].extents[0].startBlock] =
                    Put(@, 0, text)]

DeleteData(f) ==
    /\ Delete(f)
    /\ disk' = Zeroed(ArrayBlocksOf(files[f]))

DataNext ==
    \E f \in Files :
        \/ \E size \in CreateSizes : CreateData(f, size)
        \/ \E text \in Texts : AppendData(f, text) \/ WriteData(f, text)
        \/ DeleteData(f)

DataSpec == DataInit /\ [][DataNext]_dataVars

(***************************************************************************)
(* readFileData.  Each extent contributes all its blocks: as many bytes as *)
(* the file has are read into a buffer of zeros, counted anew for every    *)
(* extent, and the walk stops at the extent that alone holds that many.    *)
(***************************************************************************)
ExtentBytes(e, x) ==
    LET bytesRead == IF e.fileSize < x.length * BlockSize
                     THEN e.fileSize ELSE x.length * BlockSize
    IN  [i \in 1 .. x.length * BlockSize |->
            IF i <= bytesRead
            THEN disk[x.startBlock + (i - 1) \div BlockSize][(i - 1) % BlockSize]
            ELSE Zero]

readFileData(e) ==
    LET from[k \in 0 .. e.numExtents] ==
            IF k = e.numExtents THEN << >>
            ELSE LET x == e.extents[k]
                 IN  IF x.length * BlockSize >= e.fileSize
                     THEN ExtentBytes(e, x)
                     ELSE ExtentBytes(e, x) \o from[k + 1]
    IN  from[0]

-----------------------------------------------------------------------------
DataTypeOK ==
    disk \in [DataBlocks -> [0 .. BlockSize - 1 -> {Zero} \cup UNION {ToSet(t) : t \in Texts}]]

\* The answer to read is the contents of the file and nothing else.
ReadIsContents ==
    \A f \in Files : Accessible(f) =>
        Len(readFileData(files[f])) = files[f].fileSize

\* What read returns, cut to the size of the file, is what the commands wrote,
\* until blocks are shared or given away too early, a text gets no blocks, or an
\* extent lands behind the array: files of any size, created, overwritten by a
\* short text, appended to and deleted in any order, and also with failed saves
\* and a counter that does not count (filesystem.cpp 4-408).
Intact == flaws \cap {"merged", "torn", "short", "overrun"} = {}
ReadBack ==
    [f \in Files |-> IF Exists(f) /\ Intact
                     THEN SubSeq(readFileData(files[f]), 1, files[f].fileSize)
                     ELSE Absent]
Store == INSTANCE FileStore WITH contents <- ReadBack, intact <- Intact
ImplementsFileStore == Store!StoreSpec
=============================================================================
