-------------------------- MODULE SpaceAccounting --------------------------
(***************************************************************************)
(* Several handlers take and give back blocks at once (filesystem.cpp,     *)
(* centralised.cpp 34-77, rollback.cpp).  BlockStore runs one command at a *)
(* time and follows every extent; this module follows every access to what *)
(* the commands share: the bitmap, which is changed under FATMutex, the    *)
(* entries, and superblock.freeBlocks, which no mutex protects.            *)
(*                                                                         *)
(* The texts of write and append are shorter than a block, as they arrive  *)
(* in a message of BLOCK_SIZE bytes; a create asks for any size.  How an   *)
(* entry is found by its name is the subject of EntryLifetime and          *)
(* Metadata: here a command works on any entry of the table.  The          *)
(* variable "flaws" remembers which mistakes of the code have happened.    *)
(***************************************************************************)
EXTENDS Integers, Sequences, FiniteSets

CONSTANTS
  Threads,      \* handler threads
  Nobody,       \* no thread
  DataBlocks,   \* the data blocks, a range of numbers
  CreateNeeds,  \* how many blocks a create may ask for
  OverReads,    \* how many stale integers behind the vector of allocated
                \* blocks may continue the run
  MaxExtents,   \* MAX_EXTENTS
  SaveMayFail,  \* saves of the bitmap, the table and the superblock may fail
  MaxCommands   \* bound on commands begun

ASSUME SpaceAssumption ==
  /\ Nobody \notin Threads
  /\ DataBlocks \subseteq Nat \ {0} /\ IsFiniteSet(DataBlocks)
  /\ \A b, d \in DataBlocks : b..d \subseteq DataBlocks
  /\ CreateNeeds \subseteq Nat \ {0}
  /\ OverReads \subseteq Nat /\ 0 \in OverReads
  /\ MaxExtents \in Nat \ {0}
  /\ SaveMayFail \in BOOLEAN /\ MaxCommands \in Nat

VARIABLES
  FATTABLE,     \* the data blocks whose bit is set
  freeBlocks,   \* superblock.freeBlocks
  entries,      \* the entries made so far, one to a slot of metaDataTable
  metaIndex,    \* the number of slots, as the code counts it
  creator,      \* who holds metaIndexMutex through a create
  pc, job,      \* where each thread is and what it works with
  begun,        \* the number of commands begun
  flaws         \* which mistakes have been made (history)
vars == <<FATTABLE, freeBlocks, entries, metaIndex, creator, pc, job, begun, flaws>>

Operations == {"create", "append", "write", "delete", "mkdir"}
PCs == {"idle", "lock", "copy", "test", "allocate", "saveBits", "grow", "cut", "size",
        "clear", "unslot", "load", "store", "link", "save", "undo", "restore", "unmark",
        "push", "count"}

\* A file has one extent of any length and, for every append that took a
\* block, one more of length one.  "count" is what the lengths add up to.
Entry == [first : Nat, length : Nat, more : SUBSET DataBlocks, count : Nat, size : Nat,
          dir : BOOLEAN, linked : BOOLEAN]
Run(e) == e.first .. e.first + e.length - 1
Covered(e) == Run(e) \union e.more
Directory == [first |-> 0, length |-> 0, more |-> {}, count |-> 0, size |-> 0,
              dir |-> TRUE, linked |-> TRUE]

Job == [op : Operations \union {"none"}, slot : Nat, need : Nat, blocks : SUBSET Int,
        seen : Int, original : Int, found : BOOLEAN]
NoJob == [op |-> "none", slot |-> 0, need |-> 0, blocks |-> {},
          seen |-> 0, original |-> 0, found |-> FALSE]

(***************************************************************************)
(* The mistakes:                                                           *)
(*   merged     the extent of a create has other blocks than it was given  *)
(*              (filesystem.cpp 33)                                        *)
(*   torn       an overwrite cleared the bit of a block that its file      *)
(*              keeps, or that is not its file's (filesystem.cpp 232)      *)
(*   again      a rollback cleared bits that were cleared before, and had  *)
(*              been given out since (rollback.cpp 36)                     *)
(*   late       a command went to work on an entry that left the table     *)
(*              while it waited (multithreading.cpp 171, 252)              *)
(*   displaced  a rollback emptied another entry's slot (filesystem.cpp    *)
(*              86)                                                        *)
(*   overrun    an append put an extent behind the array (filesystem.cpp   *)
(*              142)                                                       *)
(*   lost       an update of freeBlocks was overwritten or undone          *)
(*   orphan     an append returned before it counted the block it took     *)
(*              (filesystem.cpp 283)                                       *)
(***************************************************************************)
Flaws == {"merged", "torn", "again", "late", "displaced", "overrun", "lost", "orphan"}
Adds(flaw, happens) == flaws' = IF happens THEN flaws \union {flaw} ELSE flaws

Slots == 1..Len(entries)
Free == DataBlocks \ FATTABLE

Init ==
  /\ FATTABLE = {} /\ freeBlocks = Cardinality(DataBlocks)
  /\ entries = << >> /\ metaIndex = 0 /\ creator = Nobody
  /\ pc = [t \in Threads |-> "idle"]
  /\ job = [t \in Threads |-> NoJob]
  /\ begun = 0
  /\ flaws = {}

Goto(t, label) == pc' = [pc EXCEPT ![t] = label]
With(t, field, v) == job' = [job EXCEPT ![t][field] = v]

\* The end of a command: what the thread worked with is forgotten, and
\* createFiles gives metaIndexMutex back.
Finish(t) ==
  /\ Goto(t, "idle")
  /\ job' = [job EXCEPT ![t] = NoJob]
  /\ creator' = IF creator = t THEN Nobody ELSE creator

\* Threads that hold the write lock of an entry.
Inside(t) == pc[t] \notin {"idle", "lock"}

-----------------------------------------------------------------------------
(* The beginning of a command.                                             *)

Begins(t, j) ==
  /\ pc[t] = "idle"
  /\ begun < MaxCommands /\ begun' = begun + 1
  /\ job' = [job EXCEPT ![t] = j]
  /\ UNCHANGED <<FATTABLE, freeBlocks, entries, metaIndex, flaws>>

\* createFiles up to the call of createFile: metaIndexMutex and the test of
\* the free space.
Create(t, need) ==
  /\ creator = Nobody /\ freeBlocks >= need
  /\ creator' = t
  /\ Begins(t, [NoJob EXCEPT !.op = "create", !.need = need])
  /\ Goto(t, "allocate")

\* Mutant: the look-up gives the slot behind the entry's.
Enter_Next(t, op, s, need) ==
  /\ op \notin {"create", "mkdir"} /\ entries[s].linked
  /\ op \in {"append", "write"} => ~entries[s].dir
  /\ op # "append" => need = 0
  /\ Begins(t, [NoJob EXCEPT !.op = op, !.slot = s + 1, !.need = need])
  /\ Goto(t, "lock")
  /\ UNCHANGED creator

\* writeData and deleteDataFile, or deleteDataDir, up to the entry's lock.
\* A text that fits the room in the last block needs no block.
Enter(t, op, s, need) ==
  /\ op \notin {"create", "mkdir"} /\ entries[s].linked
  /\ op \in {"append", "write"} => ~entries[s].dir
  /\ op # "append" => need = 0
  /\ Begins(t, [NoJob EXCEPT !.op = op, !.slot = s, !.need = need])
  /\ Goto(t, "lock")
  /\ UNCHANGED creator

\* createDirectory up to the push: it goes through metaIndexMutex, and blocks
\* while a create holds it.
MakeDirectory(t) ==
  /\ creator = Nobody
  /\ Begins(t, [NoJob EXCEPT !.op = "mkdir"])
  /\ Goto(t, "push")
  /\ UNCHANGED creator

\* The push is under metaMutex, which a create does not hold ...
PushDirectory(t) ==
  /\ pc[t] = "push"
  /\ entries' = Append(entries, Directory)
  /\ Goto(t, "count")
  /\ UNCHANGED <<FATTABLE, freeBlocks, metaIndex, creator, job, begun, flaws>>

\* ... and the slot is counted under metaIndexMutex again.
CountDirectory(t) ==
  /\ pc[t] = "count" /\ creator = Nobody
  /\ metaIndex' = metaIndex + 1
  /\ Finish(t)
  /\ UNCHANGED <<FATTABLE, freeBlocks, entries, begun, flaws>>

LockFree(t) == \A u \in Threads : u # t /\ Inside(u) => job[u].slot # job[t].slot

\* The lock is the entry's, and the entry is not looked up again: it may have
\* left the table in the meantime.
Lock(t) ==
  /\ pc[t] = "lock" /\ LockFree(t)
  /\ Goto(t, IF job[t].op = "delete" THEN "clear" ELSE "copy")
  /\ Adds("late", ~entries[job[t].slot].linked)
  /\ UNCHANGED <<FATTABLE, freeBlocks, entries, metaIndex, creator, job, begun>>

\* writeFileData keeps a copy of the superblock and of the pointer in the slot.
Copy(t) ==
  /\ pc[t] = "copy"
  /\ job' = [job EXCEPT ![t].original = freeBlocks, ![t].found = entries[job[t].slot].linked]
  /\ Goto(t, IF job[t].op = "append" THEN "test" ELSE "cut")
  /\ UNCHANGED <<FATTABLE, freeBlocks, entries, metaIndex, creator, begun, flaws>>

-----------------------------------------------------------------------------
(* Taking blocks.                                                          *)

Test(t) ==
  /\ pc[t] = "test"
  /\ \/ freeBlocks < job[t].need /\ Finish(t)
     \/ /\ freeBlocks >= job[t].need
        /\ Goto(t, IF job[t].need = 0 THEN "grow" ELSE "allocate")
        /\ UNCHANGED <<creator, job>>
  /\ UNCHANGED <<FATTABLE, freeBlocks, entries, metaIndex, begun, flaws>>

\* createFile gives up without blocks, an append goes on without them.
WithoutBlocks(t) ==
  \/ job[t].op = "create" /\ Finish(t)
  \/ /\ job[t].op = "append"
     /\ With(t, "blocks", {}) /\ Goto(t, "grow") /\ UNCHANGED creator

\* The lowest free blocks, as many as needed.
Lowest(n) == {S \in SUBSET Free : Cardinality(S) = n /\ \A b \in S, c \in Free \ S : b < c}

\* Mutant: the bits are not set before the mutex is given back.
Allocate_Unmarked(t) ==
  /\ pc[t] = "allocate"
  /\ \/ Lowest(job[t].need) = {} /\ WithoutBlocks(t)
     \/ \E S \in Lowest(job[t].need) :
          With(t, "blocks", S) /\ Goto(t, "saveBits") /\ UNCHANGED creator
  /\ UNCHANGED <<FATTABLE, freeBlocks, entries, metaIndex, begun, flaws>>

\* allocateBitMapBlocks up to the unlock: search and marking are one step.
Allocate(t) ==
  /\ pc[t] = "allocate"
  /\ \/ Lowest(job[t].need) = {} /\ WithoutBlocks(t) /\ UNCHANGED FATTABLE
     \/ \E S \in Lowest(job[t].need) :
          /\ FATTABLE' = FATTABLE \union S
          /\ With(t, "blocks", S) /\ Goto(t, "saveBits") /\ UNCHANGED creator
  /\ UNCHANGED <<freeBlocks, entries, metaIndex, begun, flaws>>

\* The bitmap is saved without the lock; a failure clears the bits again.
SaveBits(t) ==
  /\ pc[t] = "saveBits"
  /\ \/ Goto(t, "grow") /\ UNCHANGED <<FATTABLE, job, creator>>
     \/ /\ SaveMayFail /\ FATTABLE' = FATTABLE \ job[t].blocks
        /\ WithoutBlocks(t)
  /\ UNCHANGED <<freeBlocks, entries, metaIndex, begun, flaws>>

\* Another extent for the block that an append got, if it got one.
Grown(e, blocks) ==
  IF blocks = {} THEN e ELSE [e EXCEPT !.more = @ \union blocks, !.count = @ + 1]
ArrayFull(e) == 1 + e.count - e.length >= MaxExtents

\* An append puts the block into the entry; createFile copies the superblock.
Grow(t) ==
  /\ pc[t] = "grow"
  /\ \/ /\ job[t].op = "append"
        /\ entries' = [entries EXCEPT ![job[t].slot] = Grown(@, job[t].blocks)]
        /\ Adds("overrun", job[t].blocks # {} /\ ArrayFull(entries[job[t].slot]))
        /\ Goto(t, "size") /\ UNCHANGED job
     \/ /\ job[t].op = "create"
        /\ With(t, "original", freeBlocks) /\ Goto(t, "load")
        /\ UNCHANGED <<entries, flaws>>
  /\ UNCHANGED <<FATTABLE, freeBlocks, metaIndex, creator, begun>>

-----------------------------------------------------------------------------
(* An overwrite.  The text fits one block; the blocks of a longer file are *)
(* given up except the first.  As in BlockStore, the run that is freed     *)
(* ends one block behind the one that is kept, and nothing is freed when   *)
(* the first extent is one block long.                                     *)

Freed(e) ==
  IF e.size <= 1 \/ e.length = 1 THEN {}
  ELSE (e.first + 3 - e.length .. e.first + 1) \union e.more
Shortened(e) ==
  IF e.size <= 1 THEN e ELSE [e EXCEPT !.length = 1, !.more = {}, !.count = 1]

\* The list of freed blocks is the one that a rollback frees.
Cut(t) ==
  LET e == entries[job[t].slot]
  IN /\ pc[t] = "cut"
     /\ FATTABLE' = FATTABLE \ Freed(e)
     /\ entries' = [entries EXCEPT ![job[t].slot] = Shortened(@)]
     /\ With(t, "blocks", Freed(e))
     /\ Adds("torn", ~(Freed(e) \subseteq Covered(e) \ Covered(Shortened(e))))
     /\ Goto(t, "size")
     /\ UNCHANGED <<freeBlocks, metaIndex, creator, begun>>

\* A directory that was removed while somebody worked in it: the end of a
\* command there does not find the entry of the parent, and returns.
ParentMissing == \E s \in Slots : entries[s].dir /\ ~entries[s].linked

\* Of an append and an overwrite: the parent, the size.
Size(t) ==
  /\ pc[t] = "size"
  /\ \/ /\ ParentMissing /\ Finish(t)
        /\ Adds("orphan", job[t].op = "append" /\ job[t].blocks # {})
        /\ UNCHANGED entries
     \/ /\ entries' = [entries EXCEPT ![job[t].slot].size =
                         IF job[t].op = "append" THEN @ + job[t].need ELSE 1]
        /\ Goto(t, "load")
        /\ UNCHANGED <<creator, job, flaws>>
  /\ UNCHANGED <<FATTABLE, freeBlocks, metaIndex, begun>>

-----------------------------------------------------------------------------
(* Giving blocks back.                                                     *)

\* deleteFile clears the bits under FATMutex ...
Clear(t) ==
  /\ pc[t] = "clear"
  /\ FATTABLE' = FATTABLE \ Covered(entries[job[t].slot])
  /\ With(t, "blocks", Covered(entries[job[t].slot]))
  /\ Goto(t, "unslot")
  /\ UNCHANGED <<freeBlocks, entries, metaIndex, creator, begun, flaws>>

\* ... and puts a blank entry into the slot.
Unslot(t) ==
  /\ pc[t] = "unslot"
  /\ entries' = [entries EXCEPT ![job[t].slot].linked = FALSE]
  /\ Goto(t, "load")
  /\ UNCHANGED <<FATTABLE, freeBlocks, metaIndex, creator, job, begun, flaws>>

-----------------------------------------------------------------------------
(* The counter and the saves.                                              *)

\* Mutant: an append is not counted.
Change_NoAppend(t) ==
  CASE job[t].op = "delete" -> entries[job[t].slot].count
    [] job[t].op = "append" -> 0
    [] OTHER                -> -job[t].need

\* An overwrite does not count what it freed.
Change(t) == IF job[t].op = "delete" THEN entries[job[t].slot].count ELSE -job[t].need

\* superblock.freeBlocks += or -= is a load and a store.
Load(t) ==
  /\ pc[t] = "load"
  /\ With(t, "seen", freeBlocks)
  /\ Goto(t, "store")
  /\ UNCHANGED <<FATTABLE, freeBlocks, entries, metaIndex, creator, begun, flaws>>

Store(t) ==
  /\ pc[t] = "store"
  /\ freeBlocks' = job[t].seen + Change(t)
  /\ Adds("lost", freeBlocks # job[t].seen)
  /\ Goto(t, IF job[t].op = "create" THEN "link" ELSE "save")
  /\ UNCHANGED <<FATTABLE, entries, metaIndex, creator, job, begun>>

\* The loop that makes extents of the allocated blocks puts all of them into one
\* run, and may go on into the memory behind more than one.
Lengths(blocks) ==
  {Cardinality(blocks) + stale : stale \in IF Cardinality(blocks) = 1 THEN {0} ELSE OverReads}
FileOf(blocks, first, length, size) ==
  [first |-> first, length |-> length, more |-> {}, count |-> length, size |-> size,
   dir |-> FALSE, linked |-> TRUE]

\* createFile: the parent, the index, the table, metaIndex.
Link(t) ==
  /\ pc[t] = "link"
  /\ \/ ParentMissing /\ Finish(t) /\ UNCHANGED <<entries, metaIndex, flaws>>
     \/ \E length \in Lengths(job[t].blocks), b \in job[t].blocks :
          LET e == FileOf(job[t].blocks, b, length, job[t].need)
          IN /\ \A c \in job[t].blocks : b <= c
             /\ entries' = Append(entries, e)
             /\ metaIndex' = metaIndex + 1
             /\ Adds("merged", Run(e) # job[t].blocks)
             /\ With(t, "slot", Len(entries) + 1)
             /\ Goto(t, "save")
             /\ UNCHANGED creator
  /\ UNCHANGED <<FATTABLE, freeBlocks, begun>>

\* The saves of entry, superblock and bitmap.  deleteFile returns where one
\* fails, the others roll back.
Save(t) ==
  /\ pc[t] = "save"
  /\ \/ Finish(t)
     \/ /\ SaveMayFail /\ job[t].op # "delete"
        /\ Goto(t, "undo")
        /\ UNCHANGED <<job, creator>>
  /\ UNCHANGED <<FATTABLE, freeBlocks, entries, metaIndex, begun, flaws>>

\* The slot: rollbackMetadataIndex empties the last one that was counted,
\* rollbackMetadataOrg puts back the pointer that was there.
Undo(t) ==
  /\ pc[t] = "undo"
  /\ IF job[t].op = "create"
     THEN /\ entries' = [entries EXCEPT ![metaIndex].linked = FALSE]
          /\ Adds("displaced", metaIndex # job[t].slot)
     ELSE /\ entries' = [entries EXCEPT ![job[t].slot].linked = job[t].found]
          /\ UNCHANGED flaws
  /\ Goto(t, "restore")
  /\ UNCHANGED <<FATTABLE, freeBlocks, metaIndex, creator, job, begun>>

\* Mutant: the rollback of an append clears the bits of the block it keeps.
Restore_Frees(t) ==
  /\ pc[t] = "restore"
  /\ freeBlocks' = job[t].original
  /\ FATTABLE' = FATTABLE \ job[t].blocks
  /\ Adds("lost", freeBlocks # job[t].original - job[t].need)
  /\ Finish(t)
  /\ UNCHANGED <<entries, metaIndex, begun>>

\* The copy of the superblock is as old as the command.  The rollback of an
\* append puts the counter back and keeps the block.
Restore(t) ==
  /\ pc[t] = "restore"
  /\ freeBlocks' = job[t].original
  /\ Adds("lost", \/ freeBlocks # job[t].original - job[t].need
                  \/ job[t].op = "append" /\ job[t].blocks # {})
  /\ IF job[t].op = "append"
     THEN Finish(t)
     ELSE Goto(t, "unmark") /\ UNCHANGED <<creator, job>>
  /\ UNCHANGED <<FATTABLE, entries, metaIndex, begun>>

\* The bits of the blocks a create got, and once more of those an overwrite freed.
Unmark(t) ==
  /\ pc[t] = "unmark"
  /\ FATTABLE' = FATTABLE \ job[t].blocks
  /\ Adds("again", job[t].op = "write" /\ job[t].blocks \intersect FATTABLE # {})
  /\ Finish(t)
  /\ UNCHANGED <<freeBlocks, entries, metaIndex, begun>>

-----------------------------------------------------------------------------
Step(t) ==
  \/ PushDirectory(t) \/ CountDirectory(t)
  \/ Lock(t) \/ Copy(t) \/ Test(t) \/ Allocate(t) \/ SaveBits(t) \/ Grow(t)
  \/ Cut(t) \/ Size(t) \/ Clear(t) \/ Unslot(t) \/ Load(t) \/ Store(t)
  \/ Link(t) \/ Save(t) \/ Undo(t) \/ Restore(t) \/ Unmark(t)

Next ==
  \E t \in Threads :
    \/ Step(t)
    \/ \E need \in CreateNeeds : Create(t, need)
    \/ \E op \in Operations, s \in Slots, need \in {0, 1} : Enter(t, op, s, need)
    \/ MakeDirectory(t)

Spec == Init /\ [][Next]_vars

-----------------------------------------------------------------------------
(* Properties.                                                             *)

TypeOK ==
  /\ FATTABLE \subseteq DataBlocks /\ freeBlocks \in Int
  /\ entries \in Seq(Entry) /\ metaIndex \in Nat
  /\ creator \in Threads \union {Nobody}
  /\ pc \in [Threads -> PCs] /\ job \in [Threads -> Job]
  /\ \A t \in Threads : job[t].slot \in 0..Len(entries)
  /\ begun \in Nat /\ flaws \subseteq Flaws

\* No mistake that gives one block to two holders has been made yet.
Sound == flaws \subseteq {"lost", "orphan"}

\* Entries whose blocks have not been given back, and threads with blocks that
\* are not in an entry yet.
Deleted(s) == \E t \in Threads :
  job[t].slot = s /\ job[t].op = "delete" /\ pc[t] \in {"unslot", "load", "store", "save"}
Holding == {s \in Slots : entries[s].linked /\ ~Deleted(s)}
Carries(t) == \/ pc[t] \in {"saveBits", "grow"}
              \/ pc[t] \in {"load", "store", "link"} /\ job[t].op = "create"

\* However creates of any size, appends, overwrites, deletes and rollbacks of
\* several terminals mix, no block belongs to two files, nor to a file and to a
\* command that has just taken it, before one of the six mistakes happens that
\* "Sound" excludes.
BlocksDisjoint == Sound =>
  /\ \A r, s \in Holding : r # s => Covered(entries[r]) \intersect Covered(entries[s]) = {}
  /\ \A s \in Holding, t \in Threads :
       Carries(t) => Covered(entries[s]) \intersect job[t].blocks = {}
  /\ \A t, u \in Threads :
       t # u /\ Carries(t) /\ Carries(u) => job[t].blocks \intersect job[u].blocks = {}

\* The bit of a block in use is set, so it cannot be handed out again, until
\* then.
BlocksMarked == Sound =>
  /\ \A s \in Holding : Covered(entries[s]) \subseteq FATTABLE
  /\ \A t \in Threads : Carries(t) => job[t].blocks \subseteq FATTABLE

\* As long as none of the mistakes was made, the counter promises no more
\* blocks than the bitmap has once the commands are done: the check of a lone
\* create or append is then worth something.
CounterCovered ==
  flaws = {} /\ (\A t \in Threads : pc[t] = "idle") => freeBlocks <= Cardinality(Free)

\* Claims the code does not keep.

\* A rollback is safe (README.md 45): the only entry it takes out of the table
\* is the one its command made.
RollbackTakesItsOwn ==
  [][\A t \in Threads : pc[t] = "undo" /\ pc'[t] = "restore" =>
       \A s \in Slots : entries'[s] # entries[s] => s = job[t].slot]_vars

\* The check of an append keeps its promise: a file has the blocks of its size.
SizeCovered == \A s \in Holding : entries[s].size <= entries[s].count

\* The counter is right when nothing runs.
CounterExact ==
  (\A t \in Threads : pc[t] = "idle") => freeBlocks = Cardinality(Free)
=============================================================================
