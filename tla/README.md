# Verification of virtual-file-system-engine

TLA+ models of the file system server: what is modelled, what TLC checks on
small instances, and what TLAPS proves for every value of the constants. Lines
are those of the repository (`src/...`, `include/...`).

## 1. The system

One server process owns one disk image. Each terminal is a client process that
connects over a UNIX socket; the server runs one detached thread per terminal.
A thread reads a command, parses it, calls the file system and writes back an
answer. All threads share the file system object (`System`).

| Component | State | Operations | Talks to |
|---|---|---|---|
| Server and terminals (`UNIX/ipc_server.cpp`, `UNIX/ipc_client.cpp`, `CLI.cpp`) | the map of sessions, `connected`, and the globals `buffer`, `command`, `ret` shared by all threads | accept, read a command, run it, answer, disconnect, cleanup on SIGINT | one thread per terminal calls VFS, System |
| VFS and mount table (`VFS.cpp`, `mountManager.cpp`) | mounted file systems, `current` | forwarding of every command; one mount at the start, unmount and switchTo are called by nobody | System |
| Per-file lock (`multithreading.cpp` 3-41, 94-119; `structs.h` 44-50) | readerCount, isWriteLocked, writersWaiting, openCount, two condition variables in each FileEntry | open, close, acquire and release for reading and for writing | called by read, write, append, rename, create, delete |
| Entry lifetime (`multithreading.cpp`) | which FileEntry objects exist, who holds a pointer to one | look up, use, delete | the lock, the table |
| Block allocation and extents (`filesystem.cpp`, `centralised.cpp` 34-77, `rollback.cpp`) | bitmap FATTABLE, superblock.freeBlocks, size and extents of each file | create, append, overwrite, delete; allocate, free, roll back | the disk, the table |
| File contents (`filesystem.cpp`) | the bytes of the data blocks | create, append, overwrite, read, delete | block allocation |
| Journal (`journaling.cpp`, `journaling.h`) | journals in memory and in the log file, entryOffsets | log before an operation, mark committed after it, load at start, replay at login | create, write, append, rename, delete call it; a login calls them back |
| Directory table and index (`directory.cpp`, `multithreading.cpp`, `metaDataManager.h`, `centralised.cpp` 83-162) | metaDataTable, metaIndex, the index from hashed name to slot, availableDirEntry | create, mkdir, cd, rename, chown, rm, rmdir, rm -r, restart | the B+ tree, the journal |
| B+ tree (`metaStruct.cpp`) | nodes, keys, leaf links | insert, search, update, remove, save, load | the index |
| Users (`cliFunctions.cpp`, `fileFeatures.cpp`) | user and group tables, the session's user | useradd, login, chmod, chgrp, chown, permission checks | every file operation |

### How they interact

A terminal asks for its prompt (`requestPath`), then sends one line; its handler
thread reads the line into globals, parses it (`runCLI`), calls the VFS, which
forwards to the mounted `System`, and writes the collected text back. A command
that changes a file looks the name up in the index (under no lock),
takes the `FileEntry` pointer from `metaDataTable` (under `metaMutex`), locks the
entry, logs the operation in the journal, changes blocks, entry, superblock and
bitmap, saves what it changed, marks the journal entry, and unlocks. The B+ tree
and the whole table are written only at a clean shutdown. A boot and every login
replay the journal entries of the user that are not marked.

### What is hard here

* **Interleaving.** Handlers share the lock counters of an entry, the journal,
  the table, the pointers to its entries, the bitmap and (without any lock) the
  index, the free counter and the server's `buffer`, `command` and `ret`.
* **Use after delete.** rm frees an entry other handlers may have looked up.
* **Crash and restart.** Journal and table entries are written at once, index
  and table positions only at a shutdown; the replay starts from whatever is
  found. The tree that is loaded continues to grow and is saved again.
* **Partial failure.** Every save may fail after blocks were taken; `rollback.cpp`
  undoes part of it, some of it over what other commands did. A command may throw
  out of its detached thread, which ends the server; a read from a socket may fail.
* **Two descriptions of one thing.** Every name is in the table and in the
  index, every free block in the bitmap and in a counter; commands change both.
* **Boundaries.** Last bytes of a block, files of several blocks (`create` takes any
  size, `CLI.cpp:86`; a text is shorter than a block), the sixth extent, the first
  leaf of a parent, the connection limit, the end of a millisecond.
* **Liveness.** Condition variables with `notify_one`, writer preference, and a
  request-answer protocol in which a lost answer stops a terminal.

### What makes each part correct

| Part | Properties |
|---|---|
| Per-file lock | writers alone; exact counters; no lost wake-up; who may starve whom |
| Blocks | extents are disjoint and marked until one is merged or torn, metadata is never covered, the free counter is the number of clear bits until one of six mistakes is made |
| Contents | read begins with what was written, until extents are merged, torn, missing or behind the array |
| Journal | only executed operations are marked; marked ones are not redone; a log in order leaves nothing to replay; files hold what the log says |
| B+ tree | search answers with the slot last given; order, depth, occupancy; save and load keep it |
| Server | sessions are those admitted and not gone, and counted while no update is lost; one answer per request; an undisturbed handler answers its own terminal, and does answer |
| Entry lifetime | no slot of the table leads to a freed entry; who locks an entry in time works on a live one; slots are counted as they are pushed |
| Concurrent space accounting | blocks stay disjoint and marked when commands interleave and saves fail, until one of six mistakes; the counter promises no more than there is, until any |
| Table and index | the index holds exactly the names of the table, also after a restart; a restart keeps all entries; the walk to the root ends |
| Users | a command leaves the entries of everybody else alone |

## 2. Modules

| Module | Models | State and actions against the code |
|---|---|---|
| `RWLock` | abstract readers-writer lock | who reads, writes, queues |
| `FileLock` | the lock in a `FileEntry` and its six helpers | each helper holds `lockMutex` throughout, so it is one step, or two around `wait()`; `readerCV` and `writerCV` are the sets of parked threads; `notify_one` picks any of them; `SpuriousWakeup` is the standard's licence |
| `BlockStore` | bitmap, `superblock.freeBlocks`, size and extents of files | `Create`, `AppendTo`, `Overwrite`/`Grow`/`Shrink`, `Delete` are `createFile`, the branches of `writeFileData` and `deleteFile` with their saves, for files of any size; `extents[MaxExtents]` is the memory behind the array (`isDirectory`, `parentIndex`); `OverReads` is what the merge loop may read behind its vector; `flaws` is history: which mistakes of the code have happened |
| `FileData` | `BlockStore` with the bytes, and `readFileData` | the `...Data` actions conjoin a `BlockStore` action with what it writes |
| `FileStore` | abstract contents of files | what create, write, append and rm promise while the store is intact |
| `Journal` | journal, handlers' protocol around it, login, boot, shutdown, kill | `pc` follows a handler through lock, stamp, log, execute, commit; the clock may stand still between two stamps; a replay enters the same handler with `replay` set (`check` in the code); `contested` is history: what a login copied while another thread was at it |
| `EntryLifetime` | the `FileEntry` objects behind the table | `pc` follows a handler through look-up, load of the pointer, lock, work, change of the index, unlock, `delete`; objects are numbered as they are allocated, `freed` are the deleted ones; a touch of one sets `fault` and ends the model. The lock is the abstract one of `RWLock` |
| `SpaceAccounting` | the bitmap, the table's slots and `freeBlocks` under concurrent commands | one action per access to what commands share: the lock, after which the entry is not looked up again; the copy of the superblock; test, allocation, saves; an update of the counter is `Load` and `Store`; a rollback is `Undo` (the slot: the last one counted, for a create), `Restore` (the superblock) and `Unmark` (the bits); mkdir is a push and a count. A file is the run a `create` made, of any length, and the blocks of its appends; `flaws` as in `BlockStore` |
| `Metadata` | the table, the index, sessions, the image of the table on disk | one action per command; a name in the index is a record of what the string `uid + dir + "F_" + name` is made of; ids have any number of digits, and rm -r reads names at the offset of its caller's prefix (`Misread`); `Restart` is saveDirectoryTableEntire and loadDirectoryTable; `clean` and `tidy` are history: whether a command entered a wrong key, and whether a directory was lost that is still referred to |
| `BPlusTree` | the index | nested nodes, so parent pointers are implicit; one action per public operation, with all splits, borrows and merges it triggers; `Restart` is save, constructor and load |
| `Server` | sessions, their counter, handler loop, terminals | one action per access to a shared global; `connected++` and `connected--` are `Load` and `CountUp` or `CountDown`, the former in the main thread, where a terminal's handler is not started yet; a read may give a request, the end, or an error, behind which the session stays (`dead`); a command answers, throws (`Throws`), or waits for `metaMutex` (`blocked`) while the prompt of a removed directory (`Removals`) is looked for without end (`walk`); a terminal is a small state machine |
| `MC...` | the instances for TLC | constants and symmetry |
| `FileLockProofs`, `FileDataProofs` (with `BlockStore`), `JournalProofs`, `EntryLifetimeProofs`, `SpaceAccountingProofs`, `ServerProofs`, `MetadataProofs` | theorems | section 5 |
| `SetInduction` | lemmas | induction over numbers, for what recursive functions of the models compute |

Definitions named `X_Something`, with a comment that starts with "Mutant" or
"Variant", are `X` with a plausible mistake. They are never used by a
specification; they show that the property listed with them in `PROJECT.json`
notices the mistake.

`FileData` composes with `BlockStore` by extension. The lock that `FileLock`
implements is what `Journal` abbreviates as `holder` and what `EntryLifetime` and
`SpaceAccounting` take a thread's place for; `BlockStore` is what `Journal`
abbreviates as the effect of an operation, and `SpaceAccounting` repeats its
commands in the steps other threads can come between; the tree of `BPlusTree` is the relation `index` of
`EntryLifetime` and `Metadata`.

### Mistakes as history

The code makes mistakes that some of its promises do not survive (section 4). The
models make every one of them, as the code does, and go on. What is checked and
proved says until when a promise holds: a history variable remembers which of a
list of mistakes has been made, each of them named at the line that makes it, and
a property names those that end it.

* `BlockStore`, `flaws`: `merged`, `torn`, `cut`, `short`, `overrun`, `uncounted`. A
  `merged` extent has blocks other than its own (or twice), a `torn` shrink clears a
  bit it must not; these two end `NoSharedBlocks` and `FileBlocksMarked`. The others
  do not: a file with an extent behind its array, an append without blocks and
  failed saves leave all blocks apart and marked. Any of the six ends
  `FreeCountExact`. `merged`, `torn`, `short` and `overrun` end the promise of
  `FileStore` (`intact`).
* `SpaceAccounting`, `flaws`: `merged`, `torn` and `overrun` again, `again` (a rollback
  frees blocks a second time), `late` (a command worked on an entry that left the
  table while it waited), `displaced` (a rollback emptied another entry's slot),
  `lost` (an update of the counter was overwritten or undone), `orphan` (an append
  returned between taking a block and counting it). `Sound` means that there is at
  most `lost` or `orphan`.
* `Journal`: `Unique` and `Sorted` are conditions on the log itself; `contested` is
  history.
* `Metadata`: `clean` and `tidy`. `Server`: `lost` and `disturbed`. `EntryLifetime`:
  `late`.

## 3. Runs

| Run | Shows | Instance, and why it is enough |
|---|---|---|
| `locks` | exclusion, counters, no stranded sleeper; a waiting writer lets no stream of readers pass; only writers starve anybody; `FileLock` implements `RWLock` | 3 threads: one inside, one queued, one arriving; the safety part is proved for any number |
| `blocks_any` | entries keep their type, metadata is never covered, blocks are apart and marked until merged or torn, the counter is exact until a mistake | 2 files, 4 data blocks of 2 bytes, 2 extents per file (so the third overflows), creates of 1 and 3 blocks, texts of 1 and 2 blocks, failing saves, one stale integer: every mistake is made. All of it is proved for any size |
| `data` | `FileData` implements `FileStore` | 2 files on 4 data blocks of 3 bytes, creates of 2 and 3 blocks, texts of 1 and 2 bytes, so an append ends in, at and behind a block, space runs out, and blocks are reused |
| `journal` | only executed entries are marked; marked ones are final; a log in order is all marked; files match the log | 2 terminals, 2 files, 3 operations, 2 kills, 2 logins or boots: equal stamps, pushes out of order (a search needs three entries to turn both ways), a crash in the replay of a crash |
| `journal_lost` | *violated:* `CommittedSurvives` | 1 terminal, one kill; see section 4 |
| `tree` | search, order, balance | order 3 (odd like the real 5, and the least that splits), 6 names: three levels, borrows and merges on both sides, one restart |
| `server` | sessions, one answer per request, undisturbed handlers are right and answer | 2 terminals, 2 lines each, of which one may throw and one may remove a directory: two handlers interleave, a terminal comes while another leaves, one fails to be read, a second line follows an answer. A refused terminal needs a third; safety is proved for any number and any limit |
| `entries` | slots of the table are never stale; timely lockers work on live entries; slots are counted | 2 terminals, 2 files, a directory, 3 objects, all seven commands: a deletion, a waiter behind it, and a create of the same name. Safety is proved for any number |
| `space` | blocks are disjoint and marked between any two accesses; the counter is covered | 2 terminals, 4 blocks, creates of 1 to 3 blocks, 2 extents, 4 commands, failing saves, one stale integer: each of the eight mistakes is made, and each step happens without one. All of it is proved for any number |
| `metadata` | index and table agree, isolation of users, restarts keep entries, the prompt ends | 1 terminal, 2 users (one id a digit longer), 2 names, paths of up to two steps, 3 slots, 1 restart, and no bound on the number of commands: the table is full behind 3 creates and emptied slots come back only by the restart. Safety is proved for any number |
| `tree_remove` | *violated:* `SearchFinds` | see section 4 |
| `server_shared` | *violated:* `AnswerIsOwn` | |

Every bound is a constant with a comment: `SizeCap`, `FreeCap` (BlockStore),
`MaxOps`, `MaxCrashes`, `MaxRecoveries` (Journal), `MaxObjects` (EntryLifetime),
`MaxCommands` (SpaceAccounting), `MaxFiles`, `MaxBoots` (Metadata), `MaxNodes`, `MaxRestarts`
(BPlusTree), `MaxLines` (Server). Deadlock is not checked where the bounds, or a
server that has ended, stop the model; `locks` checks it.

Three configurations have a constraint: a state in which all their properties have
been released from their promise is checked and not continued. `MCFileData` stops
where the store is not `intact`, `MCSpaceAccounting` where the state is not `Sound`, and
`MCMetadata` where it is not `clean`. `blocks_any` has none, and follows `BlockStore`
through all mistakes.

Conditions in properties are named where they are needed. In `Journal`,
`CommittedWasExecuted` and `CommittedIsFinal` are about entries whose stamp is `Unique`,
the second also about those that no login copied while another thread was at them
(`contested`); `FinishedIsCommitted` is about histories without a crash and a log that
is `Sorted`, and `FilesMatchLog` about histories without crash and replay.
`UsableIsRight`, `Separated` and `Balanced` hold until an inner
node is rebalanced or a freed node is reachable, which is where the code goes
wrong (section 4) and where the model stops. `WorkersSafe` is about threads that
got the lock while the entry was in the table; the others are in `late`.
`CounterCovered` is about states without a running command.
`UndisturbedIsAnswered` is about handlers that no other handler disturbed, up to the
end of the server and to a prompt that is looked for without end.
`IndexExact`, `Isolation` and `RestartKeeps` are about histories in which no
command entered a wrong key (`clean`; section 4 lists the four that do), and
`PromptEnds` also about those in which no directory was lost that is still
referred to and no directory number given twice (`tidy`).
`BPlusTree`, `Journal`, `Server`, `FileData` and `Metadata` have type
invariants that no run lists, beside the properties above.

### Fairness

* `FileLock`: weak fairness of each thread's `Step`, i.e. of the statements of a
  helper once it is entered. The operating system runs runnable threads. No
  terminal has to issue a command, which is why `OpenFile` is not fair; spurious
  wake-ups are possible and never promised.
* `Server`: weak fairness of every handler's (before it starts, the main thread's)
  and every terminal's program step.
  Users are not fair: nobody has to connect, type or leave.

## 4. Where the code does not do what is said of it

Found by TLC. The three with a run in the last column are repeated by it.

| Where | What happens | Run or recipe |
|---|---|---|
| `filesystem.cpp:33`, `:157` (`\|\|` for `&&`) | all blocks of an allocation become one run from the first of them, and on a fragmented disk it covers another file's blocks | `BlocksNeverShared` of `BlockStore`: three files, blocks of 2 bytes, creates of 2 and 4 bytes |
| `disk.cpp:225` | a created file whose entry is committed is in no index after a kill, and nothing replays it | `journal_lost` (also seen with the program itself) |
| `metaStruct.cpp:465`, `:379` | a merge with the right sibling deletes the node the parent keeps: five names, two removed | `tree_remove` (the program: heap-use-after-free in `handleInternalUnderflow`) |
| `metaStruct.cpp:190` | node numbers start at 1 behind a load; two nodes with one number, one is not saved: five names, restart, three names, restart, three names gone | `SearchFinds` of `BPlusTree` with order 5, `MaxRestarts = 2` and nothing removed (also seen with the program itself) |
| `ipc_server.cpp:80` | a handler runs the line of another terminal | `server_shared` |
| `filesystem.cpp:232` | a shrinking overwrite clears the bit of a block still covered | `KeptBlocksMarked` of `BlockStore`: a create of 3 blocks and a text of 1 byte |
| `filesystem.cpp:226` | a shrinking overwrite forgets blocks of later extents | `NoLeak`, two appends of a block, then a short write |
| `filesystem.cpp:142` | a sixth extent is stored behind the array | `ExtentsInArray`, five appends |
| `filesystem.cpp:242` | blocks that a shrinking overwrite gives up are not counted | `FreeCountExact` without the mistake `cut`, a create of 2 blocks and a short write |
| `filesystem.cpp:299` | a failed save puts the counter back, but not bitmap and entry | `FreeCountExact` without the mistake `uncounted` |
| `filesystem.cpp:339` | read returns whole blocks, not the bytes of the file | `ReadIsContents` of `FileData`, any create |
| `journaling.cpp:46` | stamps in one order, pushes in the other: the binary search misses an entry, and a finished operation is replayed at the next login | `OnlyUndoneIsLeft` of `Journal`, two terminals, no crash, no login |
| `journaling.cpp:71` | two stamps in one millisecond: the commit of one marks the other, not yet executed | `CommittedWasExecuted` without `Unique` |
| `cliFunctions.cpp:280` | a login replays what another handler is about to execute | `CommittedIsFinal` without `contested`, two terminals |
| `multithreading.cpp:183` | a kill between an append and its mark: it is in the file twice | `AppliedOnce`, a restart, then a kill and a boot (`MaxRecoveries = 2`) |
| `journaling.cpp:137` | an operation refused at a replay is tried at every later one, against a new file of the name | `NoStaleReplay` (also seen with the program itself) |
| `journaling.h:53` | a text with the delimiter cannot be read back, and no later boot succeeds | `BootPossible` with `Barred = {TRUE, FALSE}` (also seen with the program itself) |
| `multithreading.cpp:251` | a handler that waits for the lock of an entry while rm frees it locks freed memory | `NoFault` of `EntryLifetime`, read and rm |
| `directory.cpp:56`, `filesystem.cpp:404` | two names get one slot, or a name is in no index: mkdir beside a create, rm beside a create of the name | `NamesFindEntries` of `EntryLifetime` |
| `CLI.cpp:86`, `:112`, `:114`, `:121` | a number that is none makes std::stoi throw out of a detached thread, and the server ends for all terminals | `UndisturbedIsAnswered` of `Server` without `~up` in its conclusion |
| `ipc_server.cpp:90` | a read that fails leaves the loop without removing the session: it is in the map, and counted, for ever | `CounterExact` of `Server` |
| `ipc_server.cpp:28`, `:38` | an update of `connected` is lost: terminals that left are counted for ever, or more are let in than `MAX_CLIENT_SUPPORT` | `CounterExact` of `Server`; `LimitKept` with 4 terminals |
| `filesystem.cpp:116` | two appends pass the check for the last block; the second grows in size without a block | `SizeCovered` of `SpaceAccounting` |
| `filesystem.cpp:295`, `rollback.cpp:19` | an append that got no block lowers the counter all the same; an update is lost between load and store; a rollback restores an old superblock | `CounterExact` of `SpaceAccounting` |
| `filesystem.cpp:283` | an append returns behind a missing parent with a block that nobody counts | `CounterCovered` without the mistake `orphan` |
| `filesystem.cpp:86` | the rollback of a create empties the slot that is the last one when it runs, another entry's beside a mkdir | `RollbackTakesItsOwn` of `SpaceAccounting`, `MaxCommands = 2` |
| `rollback.cpp:36` | the rollback of a shrinking overwrite clears the freed bits once more, when another command may have the blocks | `BlocksMarked` without the mistake `again` |
| `multithreading.cpp:171` | a handler that waited behind a deletion or a rollback works on an entry that has left the table, and changes bits of blocks others have | `BlocksMarked` without the mistake `late` |
| `multithreading.cpp:294` | rmdir removes a directory with files in it, and refuses an empty one that has a sibling | `RemovedWasEmpty` of `Metadata`: mkdir d, mkdir d/x, rmdir d |
| `multithreading.cpp:650` | rm -r cuts a prefix of its caller's length off names that others' ids made longer or shorter: it misses them, deletes another file, or throws | the branches of `NameOf` in `Metadata`; the throw ends the history |
| `multithreading.cpp:658` | rm -r deletes the caller's file of the same name | `TreeStaysInside` of `Metadata`: create f, mkdir d, create d/f, rm -r d |
| `centralised.cpp:105` | a directory number is handed out again behind a load | `NumbersUnique` of `Metadata`: mkdir, rmdir, mkdir, restart, mkdir |
| `cliFunctions.cpp:149` | chown of a file in a subdirectory enters it under the root, where nobody looks it up | `KeyedWhereItLies` of `Metadata` |
| `centralised.cpp:140` | a save of a shorter table leaves the blocks of a longer one, and deleted entries come back at the load | `NothingReturns` of `Metadata`, `PerBlock = 1`, `MaxBoots = 2` |
| `fileFeatures.cpp:88`, `structs.h:58`, `cliFunctions.cpp:149`, `centralised.cpp:140` | the four ways a wrong key gets into the index: an invalid new name, a name that `fileName` cuts off, an owner who has that name, entries of an older table | `IndexExact` of `Metadata` without `clean`, with `BadNames` or `LongNames` |
| `directory.cpp:114` | the prompt of a session whose directory was removed never comes, and holds `metaMutex` | `PromptEnds` of `Metadata` without `tidy`; `UndisturbedIsAnswered` of `Server` without `walk` |

The recipes are changes to a configuration: the named definition as the only
invariant or property, and no constraint. Their definitions are kept in the modules
for that use. "Without" means the property with that part of its condition dropped.

## 5. What is proved

TLAPS proves these for every value of the constants that the named assumptions
of the modules allow. No theorem has an assumption on the workload beside them
but the last of the contents.

* **Lock** (`FileLockProofs`): `TypeCorrect`, `CountsAreExact`, `WritersExclude`,
  `ReadersAreWoken`, `WritersAreWoken`, `OpenCountIsExact`, and `Refinement`, that
  `FileLock` implements `RWLock`. Exclusion is not inductive alone: what the guards test are counters, so
  the invariant says what they count (`CountersExact`), with cardinality lemmas
  for a thread that moves from one phase to another.
* **Blocks** (`FileDataProofs`, its first part): `MetadataSafe` and `SpaceTypes`, whatever
  mistakes were made. The invariant (`TypeInv`) says of every
  extent that it is empty or starts in the data area, and of the entry that only
  its used extents are not empty; without it `Grow`, which lengthens the last
  extent, could not be followed. `BlocksExclusive` and `BlocksMarked`, for files of any
  size and with failing saves, until an extent is merged or torn (`KeepsBlocks`): a
  new extent that has exactly the blocks allocated for it takes unmarked ones, so
  it meets no other; what a shrink and a delete clear belongs to their own file.
  `FreeCounted`, until the first mistake (`CountsBlocks`): the invariant is exclusion
  and marking again, and each command is a lemma that the number it reckons from
  the size of the file, the length of the text and the room in the last block is
  that of the bits it changes.
* **Contents** (`FileDataProofs`, its second part): `StoreImplemented`, that `FileData`
  implements `FileStore`, assuming that the value for "no file" is not a sequence
  and that texts are. The
  refinement mapping is what `readFileData` returns. The invariant (`StoresFiles`)
  says that an intact file is a first extent of any length, followed by extents of
  one block, with as many blocks as its size takes. `ReadsBytes` says that the walk
  over the extents returns first the bytes of the file, block by block; it is an
  induction over the extents from the last to the first. `CreateStored`,
  `AppendStored`, `WriteStored` and `DeleteStored` then say what each command makes
  of the bytes; the arithmetic of an append that ends in, at or behind a block is
  part of them. That no other file changes is exclusion of blocks again.
* **Journal** (`JournalProofs`), for any terminals, files, crashes, logins, and a clock
  that stands still as long as it likes: `TypeCorrect`.
  `MarksOnlyTheExecuted`: the entry a search finds by a stamp no other entry has is
  the handler's own, whatever the order of the log and however the search went.
  `NeverDoneTwice` and `NothingLeftToReplay`: the invariant (`OwnInv`) is that at most
  one thread is at an entry that no login copied (`AtOnce`), that such an entry is
  not marked as long as somebody is there (`Open`), and that, until a crash, every
  unmarked entry of a sorted log belongs to an operation under way (`Pending`).
  `SearchFinds` says that the binary search of `markCommitted` finds a stamp in a
  sorted log of any length; it is an induction over the length of the interval.
  A log that is sorted now was sorted at every commit before, as it only grows.
  `FilesAreExplained`: the invariant (`CalmInv`) follows the effect of the log up to
  every entry and says that the entries behind a handler's own are of other files,
  because of the lock it holds.
* **Entries** (`EntryLifetimeProofs`): `SlotsAreLive`, `TimelyWorkersAreSafe`,
  `SlotsAreCounted`, `TypeCorrect`, for any number of terminals, names and entries. `TableIsLive`
  needs to know that no entry is in two slots, that a thread's slot holds its
  entry until a deletion puts a blank one there, that only the thread that
  unlinked an entry frees it, and that a deleting thread is alone in its entry;
  these are the conjuncts of the invariant. `SlotsAreCounted` needs that the threads
  between push and count are finitely many, also when the terminals are not.
* **Blocks of several terminals** (`SpaceAccountingProofs`): `TypeCorrect`,
  `BlocksExclusive`, `UsedBlocksMarked`, `CounterIsCovered`, for any number of terminals
  and blocks, creates of any size, and failing saves. The invariant (`Inv`) is in two
  parts. `Base` holds always: where a thread is and what it has in its hands (`Placed`),
  and that the lock of an entry has one holder (`LockExclusive`). `Held` holds while the
  state is `Sound`: every block has one holder at most, an entry or a thread
  (`OneHolder`), and is marked. It says when a thread counts as a holder: also
  while the rollback of a create has emptied the slot and not yet cleared the bits,
  which the checked properties do not need. Each step is then one of a thread and
  one entry that hand blocks to each other, take unmarked ones, and clear bits of
  their own only (`Hands`); the entry's lock keeps all others away from it. The six
  mistakes are exactly the steps that are not like that. For the counter
  the invariant (`Books`) keeps an account of what stands between it and the bitmap
  as long as no mistake was made: blocks taken and not yet counted, which with the
  free ones are `Unspent`, and
  blocks given back and not yet counted, or counted and not got (`Debts`, which are
  finitely many also when the terminals are not). A step changes the counter, the
  bitmap and what its own thread owes by amounts that cancel, or in favour of the
  bitmap (`Balance`). That the lengths of a file's extents add up to its blocks
  (`Counted`) is what makes a deletion give back the right number.
* **Server** (`ServerProofs`): `SessionsAreCounted`, `AnswersAreAsked`,
  `UndisturbedAnswersOwn`, `TypeCorrect`, for any number of terminals and any limit.
  The invariant follows a request: it is in the socket, in the handler, or on its
  way back, in one of them only, and what is there is what the terminal typed as
  long as nobody wrote the globals in between. A step of one handler touches
  another through the globals alone (`Alone`). Reads that fail, commands that throw
  and walks without end are steps like the others.
* **Table and index** (`MetadataProofs`): `IndexIsExact`, `PromptsEnd`,
  `UsersAreIsolated`, `RestartsKeepAll`, `NothingIsUndecided`, `TypeCorrect`, for any
  number of terminals and users, any names, paths, modes and size of a table block,
  and any number of restarts. One lemma follows each command; all removals, from
  rm to every level of rm -r, are `Prunings`, which is an induction over the levels
  of the recursion and over the slots of its loop. What the properties need beside
  each other: that an entry was made by the user whose key it has (`KeyedByOwner`),
  for the isolation; that no key is in the index twice (`OneEach`), so a look-up has
  one answer; and that the directories, live and in sessions, form a forest in
  which every parent is in an earlier slot and every number is used once (`Forest`),
  for the walk of the prompt. `NothingIsUndecided` says that the guard `Decided` of the commands,
  by which the model leaves out look-ups with several possible answers, excludes no
  clean state: nothing is proved by leaving states out. `PackedIs` says where an
  entry goes at a restart, when empty slots close up.

The inductive invariants were checked by TLC on the instances of section 3 before
they were proved.

Only model-checked: all liveness (outside TLAPS's reach, like ENABLED), and
everything about `BPlusTree` (`UsableIsRight`, `Separated`,
`Balanced`), whose operators are recursive over nested trees: what they compute is
an induction over data.

## 6. What is not modelled

* Failing reads and writes of the disk image (`disk.bad()` after a data write), in
  any module. In `EntryLifetime` it would matter at once: a deletion that cannot erase
  a block returns early, and its caller frees the entry the table still has.
* Files in directories in `BlockStore` and `Journal`; rename and rmdir entries of
  the journal, which follow the same protocol. Deletes in `Journal` come from an
  instance with one terminal (`JournalAssumption`), since a handler that waits behind
  one uses freed memory, the subject of `EntryLifetime`; the run `journal` has none,
  the theorems cover them.
* Data races proper: two threads inside one `push_back` on the table or inside
  the tree, torn values. The models take an access as one step.
* The names behind `BlockStore`'s and `SpaceAccounting`'s entries: how a command finds
  its entry is `Metadata`'s and `EntryLifetime`'s subject.
* In `Metadata`: two commands at once (the other two modules' subject), saves
  that fail, the sizes of directories, a user's quota, times, `stat`, `ls`,
  `tree`; group permissions apart from others' (so chgrp); directory numbers of
  two digits, with which the key of one user can read as another's; the
  attributes, which no command sets. An absolute path is resolved from the
  current directory, as the code does. A command that throws ends the server and
  its step is left out.
* The user and group tables: useradd appends to both, and a user is never
  removed. Passwords.
* The mount table: the server mounts once and never unmounts or switches.
* Where a single table entry is written on disk (`centralised.cpp:124`): a clean
  shutdown writes the whole table again.
* Torn values of the server's globals, lines longer than the buffer, the race on
  the map of sessions, `cleanup` while handlers run.
* Hash collisions and keys that are inserted twice; trees of more than one block
  (about ninety nodes); the blocks behind the tree that the load parses as well.
* Formatting, help texts, SHA-256.

## 7. Plan

1. `FileLock`, `RWLock`: done, proved.
2. `BlockStore`, `FileData`, `FileStore`: done, for files of any size, proved.
3. `Journal`: done for create, write, append, rm, proved; left: rename, rmdir.
4. `Server`: done, safety proved; left: `cleanup`, long lines.
5. `BPlusTree`: done; an abstract map it refines, once `Metadata` needs one.
6. `EntryLifetime`, `SpaceAccounting`: done, proved.
7. `Metadata`: done, one command at a time, proved; left: chgrp, sizes of directories,
   numbers of two digits, and the journal's replay of renames and rmdirs into it.
8. A `Users` module, if accounts ever become removable; a `MountTable`, once
   something calls unmount.

Configurations that only showed a violation gave way to passing runs and became
recipes in section 4.
