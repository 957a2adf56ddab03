--------------------------- MODULE EntryLifetime ---------------------------
(***************************************************************************)
(* The FileEntry objects behind the table: how handler threads find one,   *)
(* lock it, and how rm and rmdir take one out of the table and free it     *)
(* (multithreading.cpp, filesystem.cpp 365-408, directory.cpp 3-71).       *)
(*                                                                         *)
(* One user works in one directory through several terminals, so a key of  *)
(* the index is a name.  The lock of an entry is the abstract one that     *)
(* FileLock implements: a thread between its acquire and its release works *)
(* on the entry, and whoever else must wait keeps its pointer meanwhile.   *)
(* Every step that dereferences a pointer is one action.  Touching a freed *)
(* entry, or a slot that is in the index and not yet in the table, ends    *)
(* the model: the program has no meaning from there on.  The index is a    *)
(* relation, as the tree keeps a key twice when it is inserted twice.      *)
(* Left out: failing disks and full tables (SpaceAccounting, Metadata),    *)
(* and what two threads do inside one push_back on the same vector.        *)
(***************************************************************************)
EXTENDS Integers, Sequences, FiniteSets

CONSTANTS
  Threads,     \* handler threads
  Nobody,      \* no thread
  Names,       \* file names
  Dirs,        \* directory names
  NoName,      \* the empty name of a deleted or blank entry
  Booted,      \* the entries found at the boot: a sequence of names
  Commands,    \* commands the terminals issue, a subset of AllCommands
  MaxObjects   \* bound on entries ever allocated

Keys        == Names \union Dirs
AllCommands == {"read", "write", "rename", "rm", "create", "mkdir", "rmdir"}

ASSUME LifetimeAssumption ==
  /\ Nobody \notin Threads /\ NoName \notin Keys
  /\ Names \intersect Dirs = {}
  /\ Booted \in Seq(Keys)
  /\ \A i, j \in 1..Len(Booted) : Booted[i] = Booted[j] => i = j
  /\ Commands \subseteq AllCommands
  /\ MaxObjects \in Nat

VARIABLES
  name,        \* the file name in each entry allocated so far
  isDirectory, \* the entries that mkdir made
  freed,       \* the entries that were deleted
  table,       \* metaDataTable: the entry of each slot
  index,       \* pairs of a key and a slot
  metaIndex,   \* the number of slots in use, as the code counts them
  creator,     \* who holds metaIndexMutex for all of createFiles
  pc, job,     \* where each thread is and what it works on
  late,        \* threads that got a lock of an entry out of the table (history)
  fault        \* a freed entry was touched
vars == <<name, isDirectory, freed, table, index, metaIndex, creator, pc, job, late, fault>>

PCs == {"idle", "find", "load", "lock", "work", "rekey", "reinsert", "unname",
        "release", "close", "free", "insert", "push", "count"}
Job == [op : AllCommands \union {"none"}, key : Keys \union {NoName},
        new : Keys \union {NoName}, slot : Nat, obj : Nat]
NoJob == [op |-> "none", key |-> NoName, new |-> NoName, slot |-> 0, obj |-> 0]

Objects == 1..Len(name)
Exclusive(t) == job[t].op # "read"
Deletes(t) == job[t].op \in {"rm", "rmdir"}

\* Threads between their acquire and their release.
Working == {t \in Threads : pc[t] \in {"work", "rekey", "reinsert", "unname", "release"}}

Init ==
  /\ name = Booted /\ freed = {}
  /\ isDirectory = {i \in 1..Len(Booted) : Booted[i] \in Dirs}
  /\ table = [i \in 1..Len(Booted) |-> i]
  /\ index = {<<Booted[i], i>> : i \in 1..Len(Booted)}
  /\ metaIndex = Len(Booted) /\ creator = Nobody
  /\ pc = [t \in Threads |-> "idle"] /\ job = [t \in Threads |-> NoJob]
  /\ late = {} /\ fault = FALSE

Goto(t, label) == pc' = [pc EXCEPT ![t] = label]
Finish(t) == Goto(t, "idle") /\ job' = [job EXCEPT ![t] = NoJob]

Pairs(k) == {p \in index : p[1] = k}

\* Removing a key takes one of its pairs out, if there is one.
Remove(k) ==
  \/ Pairs(k) = {} /\ UNCHANGED index
  \/ \E p \in Pairs(k) : index' = index \ {p}

\* A new entry, the next object, as create, mkdir and rm allocate one.
Fresh == Len(name) + 1
Allocate(k) == Fresh <= MaxObjects /\ name' = Append(name, k)

-----------------------------------------------------------------------------
(* Commands that work on an entry that exists.                             *)

\* The emptiness test of rmdir: any other entry of the directory above.
HasSibling(k) == \E s \in DOMAIN table : name[table[s]] \notin {NoName, k}

Begin(t, op, k, new) ==
  /\ pc[t] = "idle" /\ op \in Commands
  /\ k \in IF op \in {"mkdir", "rmdir"} THEN Dirs ELSE Names
  /\ new \in IF op = "rename" THEN Names ELSE {NoName}
  /\ op = "rmdir" => ~HasSibling(k)
  /\ job' = [job EXCEPT ![t] = [op |-> op, key |-> k, new |-> new,
                                slot |-> 0, obj |-> 0]]
  /\ Goto(t, "find")
  /\ UNCHANGED <<name, isDirectory, freed, table, index, metaIndex, creator, late, fault>>

\* getFile: any slot the tree has for the key, or an error.
Find(t) ==
  /\ pc[t] = "find" /\ job[t].op \notin {"create", "mkdir"}
  /\ \/ Pairs(job[t].key) = {} /\ Finish(t)
     \/ \E p \in Pairs(job[t].key) :
          job' = [job EXCEPT ![t].slot = p[2]] /\ Goto(t, "load")
  /\ UNCHANGED <<name, isDirectory, freed, table, index, metaIndex, creator, late, fault>>

\* What the handler tests of the entry it has loaded: read and write want a
\* file, read compares the whole name, rename looks for the new name in the
\* table.  rm and rmdir test neither name nor kind.
Accepts(t, o) ==
  /\ name[o] # NoName
  /\ job[t].op \in {"read", "write"} => o \notin isDirectory
  /\ job[t].op = "read" => name[o] = job[t].key
  /\ job[t].op = "rename" => \A s \in DOMAIN table : name[table[s]] # job[t].new

\* The pointer is taken from the slot, and then followed without any lock.
Load(t) ==
  /\ pc[t] = "load" /\ job[t].slot \in DOMAIN table
  /\ LET o == table[job[t].slot] IN
       /\ o \notin freed
       /\ \/ ~Accepts(t, o) /\ Finish(t)
          \/ Accepts(t, o) /\ job' = [job EXCEPT ![t].obj = o] /\ Goto(t, "lock")
  /\ UNCHANGED <<name, isDirectory, freed, table, index, metaIndex, creator, late, fault>>

\* Mutant: whoever comes is let in.
LockFree_Always(t) == TRUE

LockFree(t) ==
  \A u \in Working :
    job[u].obj = job[t].obj => ~Exclusive(t) /\ ~Exclusive(u)

Alive(t) == job[t].obj \notin freed

InTable(o) == \E s \in DOMAIN table : table[s] = o

Acquire(t) ==
  /\ pc[t] = "lock" /\ Alive(t) /\ LockFree(t)
  /\ late' = IF InTable(job[t].obj) THEN late ELSE late \union {t}
  /\ Goto(t, "work")
  /\ UNCHANGED <<name, isDirectory, freed, table, index, metaIndex, creator, job, fault>>

\* readData and writeData leave the names alone.
Work(t) ==
  /\ pc[t] = "work" /\ job[t].op \in {"read", "write"} /\ Alive(t)
  /\ Goto(t, "release")
  /\ UNCHANGED <<name, isDirectory, freed, table, index, metaIndex, creator, job, late, fault>>

\* renameFile, and the two changes of the index behind it.
SetName(t) ==
  /\ pc[t] = "work" /\ job[t].op = "rename" /\ Alive(t)
  /\ name' = [name EXCEPT ![job[t].obj] = job[t].new]
  /\ Goto(t, "rekey")
  /\ UNCHANGED <<isDirectory, freed, table, index, metaIndex, creator, job, late, fault>>

Rekey(t) ==
  /\ pc[t] = "rekey" /\ Remove(job[t].key)
  /\ Goto(t, "reinsert")
  /\ UNCHANGED <<name, isDirectory, freed, table, metaIndex, creator, job, late, fault>>

Reinsert(t) ==
  /\ pc[t] = "reinsert"
  /\ index' = index \union {<<job[t].new, job[t].slot>>}
  /\ Goto(t, "release")
  /\ UNCHANGED <<name, isDirectory, freed, table, metaIndex, creator, job, late, fault>>

\* Mutant: the slot becomes a null pointer.
Unlink_Null(t) ==
  /\ pc[t] = "work" /\ Deletes(t) /\ Alive(t)
  /\ Allocate(NoName)
  /\ table' = [table EXCEPT ![job[t].slot] = 0]
  /\ Goto(t, "unname")
  /\ UNCHANGED <<isDirectory, freed, index, metaIndex, creator, job, late, fault>>

\* Mutant: the slot keeps the entry.
Unlink_KeepsSlot(t) ==
  /\ pc[t] = "work" /\ Deletes(t) /\ Alive(t)
  /\ Allocate(NoName)
  /\ UNCHANGED table
  /\ Goto(t, "unname")
  /\ UNCHANGED <<isDirectory, freed, index, metaIndex, creator, job, late, fault>>

\* deleteFile: a blank entry takes the slot, then the name leaves the index.
Unlink(t) ==
  /\ pc[t] = "work" /\ Deletes(t) /\ Alive(t)
  /\ Allocate(NoName)
  /\ table' = [table EXCEPT ![job[t].slot] = Fresh]
  /\ Goto(t, "unname")
  /\ UNCHANGED <<isDirectory, freed, index, metaIndex, creator, job, late, fault>>

Unname(t) ==
  /\ pc[t] = "unname" /\ Alive(t)
  /\ Remove(name[job[t].obj])
  /\ Goto(t, "release")
  /\ UNCHANGED <<name, isDirectory, freed, table, metaIndex, creator, job, late, fault>>

\* The name is blanked by rm and rmdir before they give the lock back.
Release(t) ==
  /\ pc[t] = "release" /\ Alive(t)
  /\ name' = IF Deletes(t) THEN [name EXCEPT ![job[t].obj] = NoName] ELSE name
  /\ late' = late \ {t}
  /\ Goto(t, IF Deletes(t) THEN "free" ELSE "close")
  /\ UNCHANGED <<isDirectory, freed, table, index, metaIndex, creator, job, fault>>

Close(t) ==
  /\ pc[t] = "close" /\ Alive(t)
  /\ Finish(t)
  /\ UNCHANGED <<name, isDirectory, freed, table, index, metaIndex, creator, late, fault>>

\* rm has not opened the entry: it frees it whoever else has its address.
Free(t) ==
  /\ pc[t] = "free" /\ Alive(t)
  /\ freed' = freed \union {job[t].obj}
  /\ Finish(t)
  /\ UNCHANGED <<name, isDirectory, table, index, metaIndex, creator, late, fault>>

\* The next access of a thread whose entry was freed, or whose slot is in the
\* index before it is in the table.
Touch(t) ==
  /\ \/ pc[t] \in {"lock", "work", "unname", "release", "close", "free"}
        /\ ~Alive(t)
     \/ pc[t] = "load" /\ job[t].slot \notin DOMAIN table
     \/ pc[t] = "find" /\ job[t].op \in {"create", "mkdir"}
        /\ \E p \in Pairs(job[t].key) : p[2] \notin DOMAIN table
     \/ pc[t] = "load" /\ job[t].slot \in DOMAIN table
        /\ table[job[t].slot] \in freed
  /\ fault' = TRUE
  /\ UNCHANGED <<name, isDirectory, freed, table, index, metaIndex, creator, pc, job, late>>

-----------------------------------------------------------------------------
(* Commands that make an entry.                                            *)

\* The name is taken if the slot the tree answers with holds a named entry, for
\* mkdir a directory.
Taken(t, s) ==
  /\ name[table[s]] # NoName
  /\ job[t].op = "mkdir" => table[s] \in isDirectory

\* createFiles keeps metaIndexMutex; createDirectory does not.
Check(t) ==
  /\ pc[t] = "find" /\ job[t].op \in {"create", "mkdir"}
  /\ job[t].op = "create" => creator = Nobody
  /\ \/ /\ \E p \in Pairs(job[t].key) : p[2] \in DOMAIN table /\ Taken(t, p[2])
        /\ Finish(t) /\ UNCHANGED <<name, isDirectory, creator>>
     \/ /\ \/ Pairs(job[t].key) = {}
           \/ \E p \in Pairs(job[t].key) : p[2] \in DOMAIN table /\ ~Taken(t, p[2])
        /\ Allocate(job[t].key)
        /\ isDirectory' = IF job[t].op = "mkdir" THEN isDirectory \union {Fresh}
                          ELSE isDirectory
        /\ job' = [job EXCEPT ![t].obj = Fresh]
        /\ creator' = IF job[t].op = "create" THEN t ELSE creator
        /\ Goto(t, "insert")
  /\ UNCHANGED <<freed, table, index, metaIndex, late, fault>>

\* The slot that is given away is the count at that moment.
Insert(t) ==
  /\ pc[t] = "insert" /\ creator \in {t, Nobody}
  /\ index' = index \union {<<job[t].key, metaIndex + 1>>}
  /\ Goto(t, "push")
  /\ UNCHANGED <<name, isDirectory, freed, table, metaIndex, creator, job, late, fault>>

Push(t) ==
  /\ pc[t] = "push"
  /\ table' = Append(table, job[t].obj)
  /\ Goto(t, "count")
  /\ UNCHANGED <<name, isDirectory, freed, index, metaIndex, creator, job, late, fault>>

\* Mutant: the directory is not counted.
Count_FilesOnly(t) ==
  /\ pc[t] = "count" /\ creator \in {t, Nobody}
  /\ metaIndex' = IF job[t].op = "create" THEN metaIndex + 1 ELSE metaIndex
  /\ creator' = Nobody
  /\ Finish(t)
  /\ UNCHANGED <<name, isDirectory, freed, table, index, late, fault>>

Count(t) ==
  /\ pc[t] = "count" /\ creator \in {t, Nobody}
  /\ metaIndex' = metaIndex + 1
  /\ creator' = Nobody
  /\ Finish(t)
  /\ UNCHANGED <<name, isDirectory, freed, table, index, late, fault>>

-----------------------------------------------------------------------------
Step(t) ==
  \/ Find(t) \/ Load(t) \/ Acquire(t) \/ Work(t) \/ SetName(t) \/ Rekey(t)
  \/ Reinsert(t) \/ Unlink(t) \/ Unname(t) \/ Release(t) \/ Close(t) \/ Free(t)
  \/ Check(t) \/ Insert(t) \/ Push(t) \/ Count(t) \/ Touch(t)

Next ==
  /\ ~fault
  /\ \E t \in Threads :
       \/ Step(t)
       \/ \E op \in Commands, k \in Keys, new \in Names \union {NoName} :
            Begin(t, op, k, new)

Spec == Init /\ [][Next]_vars

-----------------------------------------------------------------------------
(* Properties.                                                             *)

TypeOK ==
  /\ name \in Seq(Keys \union {NoName})
  /\ isDirectory \subseteq Objects /\ freed \subseteq Objects
  /\ table \in Seq(Objects) /\ index \subseteq Keys \X Nat
  /\ metaIndex \in Nat /\ creator \in Threads \union {Nobody}
  /\ pc \in [Threads -> PCs] /\ job \in [Threads -> Job]
  /\ \A t \in Threads : job[t].obj \in 0..Len(name)
  /\ late \subseteq Threads /\ fault \in BOOLEAN

\* No slot of the table holds a freed entry, however many terminals look up,
\* rename and delete at once: whoever starts a command after an rm is done is
\* refused and never follows a stale pointer.
TableIsLive == \A s \in DOMAIN table : table[s] \notin freed

\* The lock protects whoever got it while the entry was still in the table:
\* such a thread never works on a freed entry, nor gets its entry freed.  Only
\* threads that waited behind the deletion are exposed.
WorkersSafe ==
  \A t \in Working \ late :
    /\ Alive(t)
    /\ \A u \in Threads : pc[u] = "free" => job[u].obj # job[t].obj

\* metaIndex, which createFiles and createDirectory count up in two different
\* ways, is the length of the table but for the entries pushed and not yet
\* counted: the slot that the next save of an entry names is then in the table.
SlotsCounted ==
  metaIndex + Cardinality({t \in Threads : pc[t] = "count"}) = Len(table)

\* Claims the code does not keep.

\* No thread follows a pointer to a freed entry or a slot that is not there.
NoFault == ~fault

\* When nothing runs, a key leads to the entry of its name, and every entry
\* with a name is found by it.
NamesFindEntries ==
  (\A t \in Threads : pc[t] = "idle") =>
    index = {<<name[table[s]], s>> :
               s \in {i \in DOMAIN table : name[table[i]] # NoName}}
=============================================================================
