------------------------------ MODULE Metadata ------------------------------
(***************************************************************************)
(* The directory table, the name index beside it, and what the commands    *)
(* of several users do to both (directory.cpp, helpers.cpp,                *)
(* multithreading.cpp, cliFunctions.cpp, centralised.cpp 83-162).          *)
(*                                                                         *)
(* Commands run one at a time here: what they do to each other in between  *)
(* is the subject of EntryLifetime and SpaceAccounting.  Blocks are left   *)
(* out (BlockStore, FileStore); a command is given the blocks it needs.    *)
(* The index is a set of pairs: with at most ORDER - 1 names the tree is   *)
(* one leaf, and larger trees are the subject of BPlusTree.  Distinct      *)
(* names have distinct hashes, and directory numbers have one digit, so    *)
(* that "2" + "12" + "F_" never reads as another user's prefix; user ids   *)
(* may have several.                                                       *)
(***************************************************************************)
EXTENDS Integers, FiniteSets, SequencesExt

CONSTANTS
  Terminals,    \* connected terminals, each with its session
  Users,        \* user ids
  Root,         \* user id 0, the user of a new session
  Names,        \* file and directory names
  BadNames,     \* names with a character isValidFileName refuses
  LongNames,    \* valid names too long for fileName behind their prefix
  Cut,          \* what strncpy keeps of such a name
  Paths,        \* the paths that are typed in front of a name
  Up,           \* the path component ".."
  Modes,        \* the permissions chmod is asked for
  MaxFiles,     \* MAX_FILES
  PerBlock,     \* entries to a block of the table, ORDER - 1
  Digits,       \* how many digits each user id is written with
  Misread,      \* a name read a few characters too early or too late
  MaxBoots      \* bound on restarts

\* How many characters a stored name can be read off its beginning.
Shifts == {Digits[u] - Digits[v] + n : u \in Users, v \in Users, n \in -1..1}

ASSUME MetadataAssumption ==
  /\ Root \in Users /\ Up \notin Names /\ Cut \notin Names
  /\ BadNames \subseteq Names /\ LongNames \subseteq Names
  /\ Paths \subseteq Seq(Names \union {Up})
  /\ Modes \subseteq SUBSET {"owner", "others"}
  /\ PerBlock \in Nat \ {0}
  /\ Digits \in [Users -> Nat]
  /\ Misread \in [(Names \union {Cut}) \X Shifts -> Names \union {Cut, "unknown", "throws"}]
  /\ {MaxFiles, MaxBoots} \subseteq Nat

VARIABLES
  metaDataTable,     \* the entries
  index,             \* what the B+ tree holds: pairs of a key and a slot
  availableDirEntry, \* the next directory number
  session,           \* each terminal's user and current directory
  image,             \* the table as the disk holds it
  boots,             \* how many restarts there were
  clean,             \* no command has put a wrong key in the index (history)
  tidy               \* no directory was lost that is still referred to (history)
vars == <<metaDataTable, index, availableDirEntry, session, image,
          boots, clean, tidy>>

Nowhere == -1                      \* "no entry", "no such directory"
Classes == {"owner", "others"}     \* who may write
Keys == [uid : Users, dir : Int, kind : {"F", "D"}, name : Names \union {Cut}]
Entry == [uid : Users, dir : Int, kind : {"F", "D"}, name : Names \union {Cut},
          parent : Int, dirID : Int, owner : Users, write : SUBSET Classes]

Blank == [name |-> "", parent |-> Nowhere, dirID |-> Nowhere]
Taken(e) == e # Blank
Slots == {i \in DOMAIN metaDataTable : Taken(metaDataTable[i])}

Init ==
  /\ metaDataTable = << >> /\ index = {} /\ availableDirEntry = 1
  /\ session = [t \in Terminals |-> [user |-> Root, cwd |-> 0]]
  /\ image = << >>
  /\ boots = 0
  /\ clean = TRUE /\ tidy = TRUE

-----------------------------------------------------------------------------
(* Names and keys.                                                         *)

\* Mutant: the key of setAttributes, without the user (fileFeatures.cpp 22).
Key_NoUser(user, dir, kind, name) == [uid |-> Root, dir |-> dir, kind |-> kind, name |-> name]
Key(user, dir, kind, name) == [uid |-> user, dir |-> dir, kind |-> kind, name |-> name]
KeyOf(e) == Key(e.uid, e.dir, e.kind, e.name)

\* strncpy into fileName keeps what fits.
Fitted(key) == IF key.name \in LongNames THEN [key EXCEPT !.name = Cut] ELSE key

FindIn(pairs, key) ==
  IF \E p \in pairs : p[1] = key THEN (CHOOSE p \in pairs : p[1] = key)[2] ELSE Nowhere
Find(key) == FindIn(index, key)
Without(pairs, key) == {p \in pairs : p[1] # key}

\* Which entry a name leads to is decided: no key is held twice (the answer
\* of the binary search would depend on the hashes of the other names), and
\* no slot lies behind the table (the read would be undefined).  The model
\* follows the program as long as this is so.
Decided ==
  /\ \A p, q \in index : p[1] = q[1] => p = q
  /\ \A p \in index : p[2] \in DOMAIN metaDataTable

\* One component of a path, for the user of session s.  "at" holds the
\* directory reached and the slot of its entry, 0 when there is none yet.
Enter(s, at, token) ==
  LET slot == Find(Key(s.user, at.cur, "D", token))
  IN IF slot = Nowhere \/ ~Taken(metaDataTable[slot])
     THEN [cur |-> Nowhere, slot |-> 0, failed |-> TRUE]
     ELSE [at EXCEPT !.cur = metaDataTable[slot].dirID, !.slot = slot]

FirstWithID(id) == SelectInSeq(metaDataTable, LAMBDA e : e.dirID = id)
FirstOwned(id, user) ==
  SelectInSeq(metaDataTable,
    LAMBDA e : Taken(e) /\ e.dirID = id /\ e.owner = user /\ e.kind = "D")

Ascend(s, at) ==
  IF at.cur = 0 THEN at
  ELSE IF at.slot = 0
  THEN LET child == FirstWithID(at.cur)
           above == IF child = 0 THEN at.cur ELSE metaDataTable[child].parent
       IN [at EXCEPT !.cur = above, !.slot = FirstWithID(above)]
  ELSE LET above == metaDataTable[at.slot].parent
           entry == FirstOwned(above, s.user)
       IN [at EXCEPT !.cur = above, !.slot = IF entry = 0 THEN at.slot ELSE entry]

Follow(s, at, token) ==
  IF at.failed THEN at
  ELSE IF token = Up THEN Ascend(s, at)
  ELSE Enter(s, at, token)

extractPath(s, path) ==
  LET At[n \in 0..Len(path)] ==
        IF n = 0 THEN [cur |-> s.cwd, slot |-> 0, failed |-> FALSE]
        ELSE Follow(s, At[n - 1], path[n])
  IN At[Len(path)].cur

hasPermission(e, user) == (IF user = e.owner THEN "owner" ELSE "others") \in e.write

-----------------------------------------------------------------------------
(* Commands that add an entry.                                             *)

NewEntry(key, owner, parent, dirID) ==
  [uid |-> key.uid, dir |-> key.dir, kind |-> key.kind, name |-> key.name,
   parent |-> parent, dirID |-> dirID, owner |-> owner, write |-> {"owner"}]

Push(key, owner, parent, dirID) ==
  /\ metaDataTable' = Append(metaDataTable, NewEntry(Fitted(key), owner, parent, dirID))
  /\ index' = index \union {<<key, Len(metaDataTable) + 1>>}
  /\ clean' = (clean /\ Fitted(key) = key /\ Find(key) = Nowhere)

\* A file goes into a directory that some entry still describes.
createFiles(t, path, name) ==
  LET s == session[t]
      cur == extractPath(s, path)
      key == Key(s.user, cur, "F", name)
      slot == Find(key)
  IN /\ Len(metaDataTable) < MaxFiles
     /\ cur >= 0 /\ cur < MaxFiles
     /\ slot # Nowhere => ~( /\ metaDataTable[slot].parent = cur
                             /\ metaDataTable[slot].owner = s.user )
     /\ name \notin BadNames
     /\ cur = 0 \/ \E i \in Slots : metaDataTable[i].dirID = cur /\ metaDataTable[i].kind = "D"
     /\ Push(key, s.user, cur, cur)
     /\ UNCHANGED <<availableDirEntry, session, image, boots, tidy>>

\* The path may have failed: cur is then Nowhere, and the directory is made.
createDirectory(t, path, name) ==
  LET s == session[t]
      cur == extractPath(s, path)
      key == Key(s.user, cur, "D", name)
      slot == Find(key)
      there == metaDataTable[slot]
  IN /\ Len(metaDataTable) < MaxFiles
     /\ slot # Nowhere => ~( \/ cur < 0 \/ cur >= MaxFiles
                             \/ Taken(there) /\ there.kind = "D" /\ there.owner = s.user )
     /\ Push(key, s.user, cur, availableDirEntry)
     /\ availableDirEntry' = availableDirEntry + 1
     /\ tidy' = (tidy /\ \A i \in Slots : metaDataTable[i].dirID # availableDirEntry)
     /\ UNCHANGED <<session, image, boots>>

-----------------------------------------------------------------------------
(* Commands that remove entries, on the table and the index.               *)

State == [table |-> metaDataTable, index |-> index, ends |-> TRUE]
deleteFile(fs, slot) ==
  [table |-> [fs.table EXCEPT ![slot] = Blank],
   index |-> Without(fs.index, KeyOf(fs.table[slot])), ends |-> fs.ends]

\* rm: what is found must lie in the directory and be writable.  A slot that
\* a deletion has emptied has no parent, and is refused for that.
deleteDataFile(fs, user, cur, name) ==
  LET slot == FindIn(fs.index, Key(user, cur, "F", name))
  IN IF slot # Nowhere /\ Taken(fs.table[slot]) /\ fs.table[slot].parent = cur
        /\ hasPermission(fs.table[slot], user)
     THEN deleteFile(fs, slot) ELSE fs

\* rmdir: refused when another entry lies in the directory that holds this
\* one.  An emptied slot is written with 0640, which its nobody owns.
deleteDataDir(fs, user, cur, name) ==
  LET key == Key(user, cur, "D", name)
      slot == FindIn(fs.index, key)
      alone == \A i \in DOMAIN fs.table :
                 fs.table[i].parent = cur => Taken(fs.table[i]) /\ KeyOf(fs.table[i]) = key
  IN IF alone /\ slot # Nowhere /\ Taken(fs.table[slot]) /\ hasPermission(fs.table[slot], user)
     THEN deleteFile(fs, slot) ELSE fs

\* rm -r: the subdirectories first, and for every file of the directory the
\* file of that name beside the directory.  When directory numbers were given
\* twice, a directory can lie inside itself: more levels than there are
\* entries mean that the calls do not end.
Stores == [table : Seq(Entry \union {Blank}), index : SUBSET (Keys \X (Nat \ {0})),
           ends : BOOLEAN]
Calls == Stores \X Int \X (Names \union {Cut})

\* The name of an entry is what follows the prefix that a key of the caller
\* in the current directory has, however long the entry's own prefix is.  A
\* position behind the end of the stored name throws.
Width(dir) == IF dir < 0 THEN 2 ELSE 1
NameOf(e, key) ==
  LET shift == Digits[key.uid] + Width(key.dir) - Digits[e.uid] - Width(e.dir)
  IN IF shift = 0 THEN e.name ELSE Misread[<<e.name, shift>>]

\* One entry of the loop, for a directory that is entered by key and has the
\* number id; "below" is what a call one level down does.  What throws ends
\* the server, and is not followed.
DeleteInside(below, user, key, id, now, i) ==
  LET e == now.table[i]
      name == NameOf(e, key)
  IN IF ~Taken(e) \/ KeyOf(e) = key \/ e.parent # id \/ name = "unknown" THEN now
     ELSE IF name = "throws" THEN [now EXCEPT !.ends = FALSE]
     ELSE IF e.kind = "D" THEN below[<<now, id, name>>]
     ELSE deleteDataFile(now, user, key.dir, name)

DeleteTree(below, user, fs, cur, name) ==
  LET key == Key(user, cur, "D", name)
      slot == FindIn(fs.index, key)
      there == fs.table[slot]
      Now[i \in 0..Len(fs.table)] ==
        IF i = 0 THEN fs ELSE DeleteInside(below, user, key, there.dirID, Now[i - 1], i)
  IN IF slot # Nowhere /\ Taken(there) /\ hasPermission(there, user)
     THEN deleteDataDir(Now[Len(fs.table)], user, cur, name)
     ELSE fs

recursiveDelete(fs, user, cur, name) ==
  LET Deleted[levels \in 0..Len(fs.table)] ==
        [c \in Calls |-> IF levels = 0 THEN [c[1] EXCEPT !.ends = FALSE]
                         ELSE DeleteTree(Deleted[levels - 1], user, c[1], c[2], c[3])]
  IN Deleted[Len(fs.table)][<<fs, cur, name>>]

\* A directory is lost while something is in it or somebody works in it.
LostDirectory(fs) ==
  \E i \in Slots : /\ metaDataTable[i].kind = "D" /\ ~Taken(fs.table[i])
                   /\ \/ \E t \in Terminals : session[t].cwd = metaDataTable[i].dirID
                      \/ \E j \in DOMAIN fs.table : fs.table[j].parent = metaDataTable[i].dirID

Becomes(fs) ==
  /\ fs # State /\ fs.ends
  /\ metaDataTable' = fs.table /\ index' = fs.index
  /\ tidy' = (tidy /\ ~LostDirectory(fs))
  /\ UNCHANGED <<availableDirEntry, session, image, boots, clean>>

RemoveFile(t, path, name) ==
  Becomes(deleteDataFile(State, session[t].user, extractPath(session[t], path), name))
RemoveDirectory(t, path, name) ==
  Becomes(deleteDataDir(State, session[t].user, extractPath(session[t], path), name))
RemoveTree(t, path, name) ==
  Becomes(recursiveDelete(State, session[t].user, extractPath(session[t], path), name))

-----------------------------------------------------------------------------
(* Commands that change an entry: all find it by name in the current       *)
(* directory.                                                              *)

Here(t, name) == Find(Key(session[t].user, session[t].cwd, "F", name))
Found(t, name) ==
  LET slot == Here(t, name)
  IN slot # Nowhere /\ Taken(metaDataTable[slot])
     /\ metaDataTable[slot].parent = session[t].cwd
Writable(t, name) == hasPermission(metaDataTable[Here(t, name)], session[t].user)

\* The entry e, found by another key and with this owner.
Renamed(e, key, owner) ==
  [uid |-> key.uid, dir |-> key.dir, kind |-> key.kind, name |-> key.name,
   parent |-> e.parent, dirID |-> e.dirID, owner |-> owner, write |-> e.write]

\* The new name is refused when anything in the directory has it, whoever
\* owns it.  A name that renameFile finds invalid is entered in the index
\* all the same.
renameFiles(t, name, newName) ==
  LET s == session[t]
      slot == Here(t, name)
      key == Key(s.user, s.cwd, "F", newName)
      valid == newName \notin BadNames \union LongNames
      rest == Without(index, Key(s.user, s.cwd, "F", name))
  IN /\ Found(t, name) /\ Writable(t, name)
     /\ \A i \in Slots : metaDataTable[i].parent = s.cwd => metaDataTable[i].name # newName
     /\ metaDataTable' = IF valid
                         THEN [metaDataTable EXCEPT ![slot] = Renamed(@, key, @.owner)]
                         ELSE metaDataTable
     /\ index' = rest \union {<<key, slot>>}
     /\ clean' = (clean /\ valid /\ FindIn(rest, key) = Nowhere)
     /\ UNCHANGED <<availableDirEntry, session, image, boots, tidy>>

chmodFileM(t, name, write) ==
  /\ Found(t, name) /\ metaDataTable[Here(t, name)].kind = "F"
  /\ session[t].user # Root => Writable(t, name)
  /\ metaDataTable' = [metaDataTable EXCEPT ![Here(t, name)].write = write]
  /\ UNCHANGED <<index, availableDirEntry, session, image, boots, clean, tidy>>

\* The key the new owner finds the file by is one of the root directory.
chownM(t, name, owner) ==
  LET s == session[t]
      slot == Here(t, name)
      key == Key(owner, 0, "F", name)
      rest == Without(index, Key(s.user, s.cwd, "F", name))
  IN /\ Found(t, name) /\ metaDataTable[slot].kind = "F" /\ Writable(t, name)
     /\ metaDataTable' = [metaDataTable EXCEPT ![slot] = Renamed(@, Fitted(key), owner)]
     /\ index' = rest \union {<<key, slot>>}
     /\ clean' = (clean /\ Fitted(key) = key /\ FindIn(rest, key) = Nowhere)
     /\ UNCHANGED <<availableDirEntry, session, image, boots, tidy>>

-----------------------------------------------------------------------------
(* Commands on the session, and restarts.                                  *)

\* Mutant: cd takes whatever the path led to.
changeDirectory_Anyway(t, path) ==
  LET cur == extractPath(session[t], path)
  IN /\ cur # session[t].cwd
     /\ session' = [session EXCEPT ![t].cwd = cur]
     /\ UNCHANGED <<metaDataTable, index, availableDirEntry, image, boots, clean, tidy>>

changeDirectory(t, path) ==
  LET cur == extractPath(session[t], path)
  IN /\ cur \notin {Nowhere, session[t].cwd}
     /\ session' = [session EXCEPT ![t].cwd = cur]
     /\ UNCHANGED <<metaDataTable, index, availableDirEntry, image, boots, clean, tidy>>

loginM(t, user) ==
  /\ session' = [session EXCEPT ![t] = [user |-> user, cwd |-> 0]]
  /\ UNCHANGED <<metaDataTable, index, availableDirEntry, image, boots, clean, tidy>>

\* Mutant: a last block that is not full is not written.
Blocks_Full(n) == n \div PerBlock
Blocks(n) == (n + PerBlock - 1) \div PerBlock

\* Whole blocks are written, the last one filled up with empty entries; what
\* an earlier, longer table left behind them stays.
saveDirectoryTableEntire ==
  LET written == PerBlock * Blocks(Len(metaDataTable))
  IN [i \in 1..(IF Len(image) > written THEN Len(image) ELSE written) |->
        IF i \in DOMAIN metaDataTable THEN metaDataTable[i]
        ELSE IF i <= written THEN Blank ELSE image[i]]

\* Mutant: the load does not correct the index.
Renumbered_Stale(table, pairs) == pairs

\* The entries that are not empty, in the order of the table.
Packed(table) ==
  LET Kept[i \in 0..Len(table)] ==
        IF i = 0 THEN << >>
        ELSE IF Taken(table[i]) THEN Append(Kept[i - 1], table[i])
        ELSE Kept[i - 1]
  IN Kept[Len(table)]

\* Empty entries are dropped, which renumbers the others; a name the index
\* holds is given its new slot.
Renumbered(table, pairs) ==
  LET Newest(key) == SelectLastInSeq(table, LAMBDA e : KeyOf(e) = key)
  IN {<<p[1], IF Newest(p[1]) = 0 THEN p[2] ELSE Newest(p[1])>> : p \in pairs}

\* Leaving the program saves everything, starting it loads everything, with
\* new sessions.
Restart ==
  LET table == Packed(saveDirectoryTableEntire)
  IN /\ boots < MaxBoots
     /\ image' = saveDirectoryTableEntire
     /\ metaDataTable' = table
     /\ index' = Renumbered(table, index)
     /\ availableDirEntry' = 1 + Cardinality({i \in DOMAIN table : table[i].kind = "D"})
     /\ session' = [t \in Terminals |-> [user |-> Root, cwd |-> 0]]
     /\ boots' = boots + 1
     /\ clean' = (clean /\ Len(image) <= PerBlock * Blocks(Len(metaDataTable)))
     /\ UNCHANGED tidy

Command(t) ==
  \/ \E path \in Paths, name \in Names :
       \/ createFiles(t, path, name)
       \/ createDirectory(t, path, name)
       \/ RemoveFile(t, path, name)
       \/ RemoveDirectory(t, path, name)
       \/ RemoveTree(t, path, name)
  \/ \E name \in Names :
       \/ \E newName \in Names : renameFiles(t, name, newName)
       \/ \E write \in Modes : chmodFileM(t, name, write)
       \/ \E owner \in Users : chownM(t, name, owner)
  \/ \E path \in Paths, name \in Names \union {Up} : changeDirectory(t, Append(path, name))
  \/ \E user \in Users : loginM(t, user)

Next == Decided /\ ((\E t \in Terminals : Command(t)) \/ Restart)

Spec == Init /\ [][Next]_vars

-----------------------------------------------------------------------------
(* Properties.                                                             *)

\* The table holds entries or empty slots, the index leads to slots, and
\* directory numbers have been handed out (system.h 48-49).
TypeOK ==
  /\ metaDataTable \in Seq(Entry \union {Blank})
  /\ index \subseteq Keys \X (Nat \ {0})
  /\ availableDirEntry \in Nat \ {0}
  /\ session \in [Terminals -> [user : Users, cwd : Int]]
  /\ image \in Seq(Entry \union {Blank})
  /\ boots \in 0..MaxBoots
  /\ clean \in BOOLEAN /\ tidy \in BOOLEAN

\* The index holds exactly the names of the table, each with the slot of its
\* entry, behind every sequence of creates, deletions, renames, changes of
\* owner and restarts, as long as no command was one of the four that enter a
\* wrong key: a name that fileName cuts off, an invalid new name, a name its
\* new owner has already, and a start that reads entries of an older table.
IndexExact == clean => index = {<<KeyOf(metaDataTable[i]), i>> : i \in Slots}

\* A command touches the entries of one user only, the one who is logged in:
\* those of everybody else stay as they are, with the names they are found
\* by, whatever their permission bits say.
Isolation ==
  [][clean /\ boots' = boots => \E t \in Terminals :
       \A i \in Slots : metaDataTable[i].owner # session[t].user =>
         /\ metaDataTable'[i] = metaDataTable[i]
         /\ \A p \in index : p[2] = i => p \in index']_vars

\* Leaving and starting the program keeps every entry, in order, and every
\* name leads to the entry it led to, unless the disk still holds blocks of a
\* longer table.
RestartKeeps ==
  [][clean /\ clean' /\ boots' # boots =>
       /\ metaDataTable' = Packed(metaDataTable)
       /\ \A p \in index : \E q \in index' :
            q[1] = p[1] /\ metaDataTable'[q[2]] = metaDataTable[p[2]]]_vars

\* One round of createPathM: the directory that holds this one.
Above(user, id) ==
  LET slot == SelectInSeq(metaDataTable,
                LAMBDA e : Taken(e) /\ e.dirID = id /\ e.owner = user)
  IN IF id = 0 THEN 0 ELSE IF slot = 0 THEN id ELSE metaDataTable[slot].parent

\* Where the rounds lead from a directory, as many as there are entries.
WalkUp(user, id) ==
  LET After[n \in 0..Len(metaDataTable)] ==
        IF n = 0 THEN id ELSE Above(user, After[n - 1])
  IN After[Len(metaDataTable)]

\* createPathM, which a handler runs with metaMutex held before every prompt,
\* comes to the root, as long as the index is right, no directory was removed
\* that a session or an entry was in, and no directory number was given twice.
PromptEnds ==
  clean /\ tidy => \A t \in Terminals : WalkUp(session[t].user, session[t].cwd) = 0

-----------------------------------------------------------------------------
(* Claims that the code does not keep (README, section 4).                 *)

Gone(i) == Taken(metaDataTable[i]) /\ ~Taken(metaDataTable'[i])

\* What rmdir answers when it refuses, "It is not empty" (multithreading.cpp
\* 303): a directory that is removed has nothing in it.
RemovedWasEmpty ==
  [][boots' = boots => \A i \in Slots :
       Gone(i) /\ metaDataTable[i].kind = "D" =>
         \A j \in DOMAIN metaDataTable' : metaDataTable'[j].parent # metaDataTable[i].dirID]_vars

\* rm -r deletes what is in the directory (multithreading.cpp 658).
TreeStaysInside ==
  [][boots' = boots => \A i, j \in Slots :
       Gone(i) /\ Gone(j) /\ metaDataTable[i].kind = "F" =>
         i = j \/ \E k \in Slots : Gone(k) /\ metaDataTable[k].kind = "D"
                                 /\ metaDataTable[k].dirID = metaDataTable[i].parent]_vars

\* No two directories have one number (centralised.cpp 105).
NumbersUnique ==
  \A i, j \in Slots :
    i # j /\ metaDataTable[i].kind = "D" /\ metaDataTable[j].kind = "D"
      => metaDataTable[i].dirID # metaDataTable[j].dirID

\* A file is entered under the directory it lies in (cliFunctions.cpp 149).
KeyedWhereItLies == clean => \A i \in Slots : metaDataTable[i].dir = metaDataTable[i].parent

\* A restart brings nothing back that was deleted (centralised.cpp 140).
NothingReturns == [][boots' # boots => Len(metaDataTable') <= Cardinality(Slots)]_vars

=============================================================================
