--------------------------- MODULE MetadataProofs ---------------------------
(***************************************************************************)
(* Theorems about the directory table and its index, for any terminals,    *)
(* users, names, paths, sizes of the table and numbers of restarts.        *)
(*                                                                         *)
(* IndexIsExact and NothingIsUndecided: one lemma per command says that    *)
(* it leaves the table and the index in step (the ...Step lemmas).  What a *)
(* removal leaves is a store from which only entries of its user are gone  *)
(* (Prunings), one deletion after the other; DeletePrunes follows rm -r    *)
(* down its levels and over the entries of each.  For a restart, PackedIs  *)
(* says where every entry goes when the empty slots are dropped.           *)
(*                                                                         *)
(* UsersAreIsolated needs that an entry is entered under the user who owns *)
(* it (KeyedByOwner).                                                      *)
(*                                                                         *)
(* PromptsEnd needs that the directories form a forest: the directory one  *)
(* lies in is earlier in the table, the files of a directory are later     *)
(* than it (so that the first entry with its number is the directory), and *)
(* every session is in the root or in a directory of its user (Forest).    *)
(* PathHome shows that a path keeps it so: extractPath takes the slot of   *)
(* the directory along, and looks it up in two ways.                       *)
(***************************************************************************)
EXTENDS Metadata, SequenceTheorems, SetInduction

-----------------------------------------------------------------------------
(* The inductive invariant.                                                *)

\* An entry is entered under the user who owns it.
KeyedByOwner == \A i \in Slots : metaDataTable[i].uid = metaDataTable[i].owner

\* No two entries have one name.
OneEach == \A p, q \in index : p[1] = q[1] => p = q

IsDir(i) == i \in Slots /\ metaDataTable[i].kind = "D"

\* Slot j has a directory a path of this user leads to, with the number id.
Home(j, user, id) ==
  /\ IsDir(j) /\ metaDataTable[j].dirID = id
  /\ metaDataTable[j].owner = user /\ metaDataTable[j].parent # Nowhere

\* A directory lies where its key says: nowhere, in the root, or in a
\* directory of its owner that is earlier in the table.
DirsBelow ==
  \A i \in Slots : metaDataTable[i].kind = "D" =>
    /\ metaDataTable[i].dirID >= 1
    /\ metaDataTable[i].dir = metaDataTable[i].parent
    /\ \/ metaDataTable[i].parent \in {0, Nowhere}
       \/ \E j \in Slots : j < i /\ Home(j, metaDataTable[i].owner, metaDataTable[i].parent)

\* A file has the number of the directory it was made in, which is earlier.
FilesBelow ==
  \A i \in Slots : metaDataTable[i].kind = "F" =>
    /\ metaDataTable[i].dirID = metaDataTable[i].parent
    /\ \/ metaDataTable[i].parent = 0
       \/ \E j \in Slots : j < i /\ IsDir(j) /\ metaDataTable[j].dirID = metaDataTable[i].parent

OneNumber ==
  \A i, j \in Slots :
    IsDir(i) /\ IsDir(j) /\ metaDataTable[i].dirID = metaDataTable[j].dirID => i = j

\* The root, or a directory of this user that is below it.
AtHome(user, id) == id = 0 \/ \E j \in Slots : Home(j, user, id)
SessionsAtHome == \A t \in Terminals : AtHome(session[t].user, session[t].cwd)

Forest == DirsBelow /\ FilesBelow /\ OneNumber /\ SessionsAtHome

IInv ==
  /\ TypeOK /\ IndexExact
  /\ clean => KeyedByOwner /\ OneEach
  /\ clean /\ tidy => Forest

-----------------------------------------------------------------------------
(* Entries, keys and look-ups.                                             *)

Slot == Nat \ {0}

\* The entries are not empty slots.
LEMMA EntryTaken ==
  ASSUME NEW e \in Entry
  PROVE  /\ Taken(e) /\ KeyOf(e) \in Keys
         /\ e.parent \in Int /\ e.dirID \in Int /\ e.owner \in Users /\ e.uid \in Users
         /\ e.dir \in Int /\ e.kind \in {"F", "D"} /\ e.name \in Names \union {Cut}
         /\ e.write \subseteq Classes
<1>1. DOMAIN e # DOMAIN Blank
  <2>1. "uid" \in DOMAIN e /\ "uid" \notin DOMAIN Blank
    BY DEF Entry, Blank
  <2> QED BY <2>1
<1>2. Taken(e)
  BY <1>1 DEF Taken
<1> QED BY <1>2 DEF Entry, KeyOf, Key, Keys

\* An empty slot is in no directory and has no number.
LEMMA BlankFields == Blank.parent = Nowhere /\ Blank.dirID = Nowhere /\ ~Taken(Blank)
BY DEF Blank, Taken

\* What is taken is an entry.
LEMMA TakenEntry ==
  ASSUME NEW e \in Entry \union {Blank}, Taken(e)
  PROVE  e \in Entry
BY DEF Taken

\* What an element of the table may be.
LEMMA TableAt ==
  ASSUME NEW table \in Seq(Entry \union {Blank}), NEW i \in DOMAIN table
  PROVE  /\ table[i] \in Entry \union {Blank} /\ table[i].parent \in Int /\ table[i].dirID \in Int
         /\ Taken(table[i]) => table[i] \in Entry
         /\ i \in Slot /\ i \in 1..Len(table)
<1>1. DOMAIN table = 1..Len(table) /\ Len(table) \in Nat
  BY LenProperties
<1>2. table[i] \in Entry \union {Blank} /\ i \in 1..Len(table)
  BY <1>1, ElementOfSeq
<1>3. CASE table[i] \in Entry
  BY <1>1, <1>2, <1>3, EntryTaken DEF Slot
<1>4. CASE table[i] = Blank
  BY <1>1, <1>2, <1>4, BlankFields DEF Slot, Nowhere
<1> QED BY <1>2, <1>3, <1>4

\* What a key is made of.
LEMMA KeyType ==
  ASSUME NEW user \in Users, NEW dir \in Int, NEW kind \in {"F", "D"},
         NEW name \in Names \union {Cut}
  PROVE  /\ Key(user, dir, kind, name) \in Keys
         /\ Key(user, dir, kind, name).uid = user /\ Key(user, dir, kind, name).dir = dir
         /\ Key(user, dir, kind, name).kind = kind /\ Key(user, dir, kind, name).name = name
BY DEF Key, Keys

\* The key of an entry is made of its own fields.
LEMMA KeyOfFields ==
  ASSUME NEW e \in Entry
  PROVE  /\ KeyOf(e).uid = e.uid /\ KeyOf(e).dir = e.dir
         /\ KeyOf(e).kind = e.kind /\ KeyOf(e).name = e.name
BY DEF KeyOf, Key

\* Cutting a name off leaves the rest of its key.
LEMMA FittedType ==
  ASSUME NEW key \in Keys
  PROVE  /\ Fitted(key) \in Keys /\ Fitted(key).uid = key.uid /\ Fitted(key).dir = key.dir
         /\ Fitted(key).kind = key.kind
BY DEF Fitted, Keys

\* A look-up answers with a pair of the index, or finds none.
LEMMA FindInPair ==
  ASSUME NEW pairs \in SUBSET (Keys \X Slot), NEW key
  PROVE  /\ FindIn(pairs, key) = Nowhere <=> ~ \E p \in pairs : p[1] = key
         /\ FindIn(pairs, key) # Nowhere =>
              <<key, FindIn(pairs, key)>> \in pairs /\ FindIn(pairs, key) \in Slot
<1>1. CASE ~ \E p \in pairs : p[1] = key
  BY <1>1 DEF FindIn
<1>2. CASE \E p \in pairs : p[1] = key
  <2> DEFINE q == CHOOSE p \in pairs : p[1] = key
  <2>1. q \in pairs /\ q[1] = key
    BY <1>2
  <2>2. FindIn(pairs, key) = q[2]
    BY <1>2 DEF FindIn
  <2> HIDE DEF q
  <2>3. q = <<key, q[2]>> /\ q[2] \in Slot
    BY <2>1
  <2>4. q[2] # Nowhere
    BY <2>3 DEF Slot, Nowhere
  <2> QED BY <1>2, <2>1, <2>2, <2>3, <2>4
<1> QED BY <1>1, <1>2

-----------------------------------------------------------------------------
(* Recursion over 0..n.                                                    *)

\* G makes the value for i of the one before, and stays in T.
StepIn(G, n, T) == G \in [T \X (1..n) -> T]
Iterated(f, base, G, n, T) ==
  /\ f \in [0..n -> T] /\ f[0] = base
  /\ \A i \in 1..n : f[i] = G[<<f[i - 1], i>>]

\* What is defined so exists.
LEMMA Iterates ==
  ASSUME NEW n \in Nat, NEW T, NEW base \in T, NEW G, StepIn(G, n, T)
  PROVE  \E f : Iterated(f, base, G, n, T)
<1>a. G \in [T \X (1..n) -> T]
  BY DEF StepIn
<1> DEFINE P == {m \in Nat : m <= n => \E f \in [0..m -> T] :
                   f[0] = base /\ \A i \in 1..m : f[i] = G[<<f[i - 1], i>>]}
<1>1. 0 \in P
  <2> DEFINE f == [i \in 0..0 |-> base]
  <2>1. f \in [0..0 -> T] /\ f[0] = base
    OBVIOUS
  <2> HIDE DEF f
  <2> QED BY <2>1
<1>2. ASSUME NEW m \in Nat, m \in P PROVE m + 1 \in P
  <2> SUFFICES ASSUME m + 1 <= n
               PROVE \E f \in [0..m + 1 -> T] :
                       f[0] = base /\ \A i \in 1..m + 1 : f[i] = G[<<f[i - 1], i>>]
    OBVIOUS
  <2>1. PICK g \in [0..m -> T] : g[0] = base /\ \A i \in 1..m : g[i] = G[<<g[i - 1], i>>]
    BY <1>2
  <2> DEFINE f == [i \in 0..m + 1 |-> IF i <= m THEN g[i] ELSE G[<<g[m], m + 1>>]]
  <2> HIDE DEF P
  <2>2. G[<<g[m], m + 1>>] \in T
    <3>1. g[m] \in T /\ m + 1 \in 1..n
      OBVIOUS
    <3> QED BY <3>1, <1>a
  <2>3. f \in [0..m + 1 -> T] /\ f[0] = base
    BY <2>1, <2>2
  <2>4. ASSUME NEW i \in 1..m + 1
        PROVE f[i] = G[<<f[i - 1], i>>]
    <3>1. CASE i <= m
      <4>1. f[i] = g[i] /\ f[i - 1] = g[i - 1] /\ i \in 1..m
        BY <3>1
      <4> HIDE DEF f
      <4> QED BY <4>1, <2>1
    <3>2. CASE i = m + 1
      <4>1. f[m + 1] = G[<<g[m], m + 1>>] /\ f[m] = g[m]
        OBVIOUS
      <4> HIDE DEF f
      <4>2. i - 1 = m
        BY <3>2
      <4> QED BY <3>2, <4>1, <4>2
    <3> QED BY <3>1, <3>2
  <2> HIDE DEF f
  <2> QED BY <2>3, <2>4
<1> HIDE DEF P
<1>3. n \in P
  BY <1>1, <1>2, NatInd
<1> QED BY <1>3 DEF P, Iterated

-----------------------------------------------------------------------------
(* What deletions leave of the table and the index.                        *)

Used(table) == {i \in DOMAIN table : Taken(table[i])}
Listed(table) == {<<KeyOf(table[i]), i>> : i \in Used(table)}

Sound(fs) ==
  /\ fs.index = Listed(fs.table)
  /\ \A p, q \in fs.index : p[1] = q[1] => p = q

\* From one store to another only entries of this user were deleted.
Pruned(fs, left, user) ==
  /\ DOMAIN left.table = DOMAIN fs.table
  /\ Sound(fs) =>
       /\ Sound(left)
       /\ \A i \in DOMAIN fs.table :
            \/ left.table[i] = fs.table[i]
            \/ left.table[i] = Blank /\ Taken(fs.table[i]) /\ fs.table[i].uid = user

\* What may be left of a store, for this user.
Prunings(fs, user) == {left \in Stores : Pruned(fs, left, user)}

\* Nothing was deleted.
LEMMA PrunedSame ==
  ASSUME NEW fs \in Stores, NEW user
  PROVE  fs \in Prunings(fs, user)
BY DEF Prunings, Pruned

\* What is left of what is left.
LEMMA PrunedTwice ==
  ASSUME NEW fs \in Stores, NEW user, NEW some \in Prunings(fs, user),
         NEW more \in Prunings(some, user)
  PROVE  more \in Prunings(fs, user)
<1>0. DOMAIN more.table = DOMAIN fs.table /\ more \in Stores
  BY DEF Prunings, Pruned
<1> SUFFICES ASSUME Sound(fs) PROVE Pruned(fs, more, user)
  BY <1>0 DEF Prunings, Pruned
<1>1. Sound(some) /\ Sound(more) /\ DOMAIN more.table = DOMAIN fs.table
      /\ DOMAIN some.table = DOMAIN fs.table
  BY DEF Prunings, Pruned
<1>2. ASSUME NEW i \in DOMAIN fs.table
      PROVE \/ more.table[i] = fs.table[i]
            \/ more.table[i] = Blank /\ Taken(fs.table[i]) /\ fs.table[i].uid = user
  <2>1. \/ some.table[i] = fs.table[i]
        \/ some.table[i] = Blank /\ Taken(fs.table[i]) /\ fs.table[i].uid = user
    BY DEF Prunings, Pruned
  <2>2. \/ more.table[i] = some.table[i]
        \/ more.table[i] = Blank /\ Taken(some.table[i]) /\ some.table[i].uid = user
    BY <1>1 DEF Prunings, Pruned
  <2> QED BY <2>1, <2>2
<1> QED BY <1>1, <1>2 DEF Pruned

\* The parts of a store.
LEMMA StoreFields ==
  ASSUME NEW fs \in Stores
  PROVE  /\ fs.table \in Seq(Entry \union {Blank}) /\ fs.index \in SUBSET (Keys \X Slot)
         /\ fs.ends \in BOOLEAN
         /\ fs = [table |-> fs.table, index |-> fs.index, ends |-> fs.ends]
BY DEF Stores, Slot

\* The store behind one deletion.
LEMMA DeletedFields ==
  ASSUME NEW fs \in Stores, NEW slot
  PROVE  LET left == deleteFile(fs, slot)
         IN /\ left.table = [fs.table EXCEPT ![slot] = Blank]
            /\ left.index = Without(fs.index, KeyOf(fs.table[slot]))
            /\ left.ends = fs.ends
            /\ left \in Stores
<1> DEFINE table == [fs.table EXCEPT ![slot] = Blank]
           pairs == Without(fs.index, KeyOf(fs.table[slot]))
<1>1. deleteFile(fs, slot) = [table |-> table, index |-> pairs, ends |-> fs.ends]
  BY DEF deleteFile
<1>2. table \in Seq(Entry \union {Blank})
  <2>1. fs.table \in Seq(Entry \union {Blank})
    BY StoreFields
  <2>2. DOMAIN fs.table = 1..Len(fs.table) /\ Len(fs.table) \in Nat
        /\ \A i \in 1..Len(fs.table) : fs.table[i] \in Entry \union {Blank}
    BY <2>1, LenProperties, ElementOfSeq
  <2>3. table = [i \in 1..Len(fs.table) |-> IF i = slot THEN Blank ELSE fs.table[i]]
    BY <2>1, <2>2
  <2>4. \A i \in 1..Len(fs.table) : table[i] \in Entry \union {Blank}
    BY <2>2, <2>3
  <2> HIDE DEF table
  <2> QED BY <2>2, <2>3, <2>4, IsASeq
<1>3. pairs \in SUBSET (Keys \X Slot)
  BY StoreFields DEF Without
<1> HIDE DEF table, pairs
<1>4. [table |-> table, index |-> pairs, ends |-> fs.ends] \in Stores
  BY <1>2, <1>3, StoreFields DEF Stores, Slot
<1> QED BY <1>1, <1>4 DEF table, pairs

\* One deletion of an entry of the user (filesystem.cpp, deleteFile).
LEMMA DeletionPrunes ==
  ASSUME NEW fs \in Stores, NEW slot, NEW user,
         Sound(fs) => slot \in Used(fs.table) /\ fs.table[slot].uid = user
  PROVE  deleteFile(fs, slot) \in Prunings(fs, user)
<1> DEFINE left == deleteFile(fs, slot)
<1>1. /\ left.table = [fs.table EXCEPT ![slot] = Blank]
      /\ left.index = Without(fs.index, KeyOf(fs.table[slot]))
      /\ left \in Stores
  BY DeletedFields
<1> HIDE DEF left
<1>0. DOMAIN left.table = DOMAIN fs.table
  BY <1>1, StoreFields
<1> SUFFICES ASSUME Sound(fs) PROVE Pruned(fs, left, user)
  BY <1>0, <1>1 DEF left, Prunings, Pruned
<1>2. slot \in Used(fs.table) /\ fs.table[slot].uid = user /\ slot \in DOMAIN fs.table
      /\ Taken(fs.table[slot])
  BY DEF Used
<1>3. fs.table \in Seq(Entry \union {Blank})
  BY StoreFields
<1>4. DOMAIN left.table = DOMAIN fs.table /\ left.table[slot] = Blank
      /\ \A i \in DOMAIN fs.table : i # slot => left.table[i] = fs.table[i]
  BY <1>1, <1>2, <1>3
<1>5. Used(left.table) = Used(fs.table) \ {slot}
  BY <1>4, BlankFields DEF Used
<1>6. Listed(left.table) = Listed(fs.table) \ {<<KeyOf(fs.table[slot]), slot>>}
  BY <1>4, <1>5 DEF Listed, Used
<1>7. <<KeyOf(fs.table[slot]), slot>> \in fs.index
  BY <1>2 DEF Sound, Listed
<1>8. Without(fs.index, KeyOf(fs.table[slot])) = fs.index \ {<<KeyOf(fs.table[slot]), slot>>}
  <2>1. \A p \in fs.index : p[1] = KeyOf(fs.table[slot]) => p = <<KeyOf(fs.table[slot]), slot>>
    BY <1>7 DEF Sound
  <2> QED BY <2>1 DEF Without
<1>9. Sound(left)
  BY <1>1, <1>6, <1>8 DEF Sound
<1> QED BY <1>2, <1>4, <1>9 DEF Pruned

\* What a name leads to in a sound store.
LEMMA SoundFind ==
  ASSUME NEW fs \in Stores, Sound(fs), NEW key, FindIn(fs.index, key) # Nowhere
  PROVE  /\ FindIn(fs.index, key) \in Used(fs.table)
         /\ fs.table[FindIn(fs.index, key)] \in Entry
         /\ KeyOf(fs.table[FindIn(fs.index, key)]) = key
<1>1. <<key, FindIn(fs.index, key)>> \in Listed(fs.table)
  BY StoreFields, FindInPair DEF Sound
<1>2. PICK i \in Used(fs.table) : <<key, FindIn(fs.index, key)>> = <<KeyOf(fs.table[i]), i>>
  BY <1>1 DEF Listed
<1> QED BY <1>2, TableAt, StoreFields DEF Used

\* rm deletes entries of its user only.
LEMMA RemovesFile ==
  ASSUME NEW fs \in Stores, NEW user \in Users, NEW cur \in Int, NEW name \in Names \union {Cut}
  PROVE  deleteDataFile(fs, user, cur, name) \in Prunings(fs, user)
<1> DEFINE key == Key(user, cur, "F", name)
           slot == FindIn(fs.index, key)
<1>1. CASE slot # Nowhere /\ Taken(fs.table[slot]) /\ fs.table[slot].parent = cur
           /\ hasPermission(fs.table[slot], user)
  <2>1. Sound(fs) => slot \in Used(fs.table) /\ fs.table[slot].uid = user
    BY <1>1, SoundFind, KeyOfFields, KeyType
  <2>2. deleteFile(fs, slot) \in Prunings(fs, user)
    BY <2>1, DeletionPrunes
  <2> QED BY <1>1, <2>2 DEF deleteDataFile
<1>2. CASE ~ (slot # Nowhere /\ Taken(fs.table[slot]) /\ fs.table[slot].parent = cur
              /\ hasPermission(fs.table[slot], user))
  BY <1>2, PrunedSame DEF deleteDataFile
<1> QED BY <1>1, <1>2

\* rmdir deletes entries of its user only.
LEMMA RemovesDir ==
  ASSUME NEW fs \in Stores, NEW user \in Users, NEW cur \in Int, NEW name \in Names \union {Cut}
  PROVE  deleteDataDir(fs, user, cur, name) \in Prunings(fs, user)
<1> DEFINE key == Key(user, cur, "D", name)
           slot == FindIn(fs.index, key)
           alone == \A i \in DOMAIN fs.table :
             fs.table[i].parent = cur => Taken(fs.table[i]) /\ KeyOf(fs.table[i]) = key
<1>1. CASE alone /\ slot # Nowhere /\ Taken(fs.table[slot]) /\ hasPermission(fs.table[slot], user)
  <2>1. Sound(fs) => slot \in Used(fs.table) /\ fs.table[slot].uid = user
    BY <1>1, SoundFind, KeyOfFields, KeyType
  <2>2. deleteFile(fs, slot) \in Prunings(fs, user)
    BY <2>1, DeletionPrunes
  <2> QED BY <1>1, <2>2 DEF deleteDataDir
<1>2. CASE ~ (alone /\ slot # Nowhere /\ Taken(fs.table[slot]) /\ hasPermission(fs.table[slot], user))
  BY <1>2, PrunedSame DEF deleteDataDir
<1> QED BY <1>1, <1>2

\* Calls that delete entries of this user only.
Pruners(user) == {g \in [Calls -> Stores] : \A c \in Calls : g[c] \in Prunings(c[1], user)}

\* Calls that stop delete nothing.
LEMMA PrunedStopped ==
  ASSUME NEW fs \in Stores, NEW user
  PROVE  [fs EXCEPT !.ends = FALSE] \in Prunings(fs, user)
<1> DEFINE left == [fs EXCEPT !.ends = FALSE]
<1>1. left.table = fs.table /\ left.index = fs.index /\ left \in Stores
  BY DEF Stores
<1> QED BY <1>1 DEF Prunings, Pruned, Sound

\* The name the loop makes of an entry: a name, or one of the two failures.
LEMMA NameRead ==
  ASSUME NEW e \in Entry, NEW key \in Keys
  PROVE  NameOf(e, key) \in Names \union {Cut, "unknown", "throws"}
<1> DEFINE n == Width(key.dir) - Width(e.dir)
           shift == Digits[key.uid] + Width(key.dir) - Digits[e.uid] - Width(e.dir)
<1>1. e.name \in Names \union {Cut} /\ e.uid \in Users /\ key.uid \in Users
      /\ e.dir \in Int /\ key.dir \in Int
  BY DEF Entry, Keys
<1>2. Digits[key.uid] \in Nat /\ Digits[e.uid] \in Nat
  BY <1>1, MetadataAssumption
<1>3. n \in -1..1
  BY <1>1 DEF Width
<1>4. shift = Digits[key.uid] - Digits[e.uid] + n
  BY <1>1, <1>2 DEF Width
<1>5. shift \in Shifts
  BY <1>1, <1>3, <1>4 DEF Shifts
<1> HIDE DEF shift
<1>6. <<e.name, shift>> \in (Names \union {Cut}) \X Shifts
  BY <1>1, <1>5
<1>7. Misread[<<e.name, shift>>] \in Names \union {Cut, "unknown", "throws"}
  BY <1>6, MetadataAssumption
<1> QED BY <1>1, <1>7 DEF NameOf, shift

\* One entry of the loop of rm -r.
LEMMA InsidePrunes ==
  ASSUME NEW user \in Users, NEW below \in Pruners(user), NEW key \in Keys, NEW id,
         NEW now \in Stores, NEW i \in DOMAIN now.table
  PROVE  DeleteInside(below, user, key, id, now, i) \in Prunings(now, user)
<1> DEFINE e == now.table[i]
           name == NameOf(e, key)
<1>1. CASE ~Taken(e) \/ KeyOf(e) = key \/ e.parent # id \/ name = "unknown"
  BY <1>1, PrunedSame DEF DeleteInside
<1>3. CASE Taken(e) /\ KeyOf(e) # key /\ e.parent = id /\ name # "unknown" /\ name = "throws"
  BY <1>3, PrunedStopped DEF DeleteInside
<1>2. CASE Taken(e) /\ KeyOf(e) # key /\ e.parent = id /\ name \notin {"unknown", "throws"}
  <2>a. e \in Entry /\ e.name \in Names \union {Cut} /\ id \in Int
    BY <1>2, StoreFields, TableAt, EntryTaken
  <2>1. id \in Int /\ name \in Names \union {Cut}
    BY <1>2, <2>a, NameRead
  <2> HIDE DEF name
  <2>2. CASE e.kind = "D"
    <3>1. <<now, id, name>> \in Calls
      BY <2>1 DEF Calls
    <3>2. below[<<now, id, name>>] \in Prunings(<<now, id, name>>[1], user)
      BY <3>1 DEF Pruners
    <3> QED BY <1>2, <2>2, <3>2 DEF DeleteInside, name
  <2>3. CASE e.kind # "D"
    <3>1. key.dir \in Int
      BY DEF Keys
    <3>2. deleteDataFile(now, user, key.dir, name) \in Prunings(now, user)
      BY <2>1, <3>1, RemovesFile
    <3> QED BY <1>2, <2>3, <3>2 DEF DeleteInside, name
  <2> QED BY <2>2, <2>3
<1> QED BY <1>1, <1>2, <1>3

\* The loop over the entries, written with its step.
Loop(below, user, key, id, fs) ==
  LET Now[i \in 0..Len(fs.table)] ==
        IF i = 0 THEN fs ELSE DeleteInside(below, user, key, id, Now[i - 1], i)
  IN Now[Len(fs.table)]

\* The loop as the recursion that defines it.
LEMMA LoopUnfold ==
  ASSUME NEW below, NEW user, NEW key, NEW id, NEW fs,
         \E f : f = [i \in 0..Len(fs.table) |->
                       IF i = 0 THEN fs ELSE DeleteInside(below, user, key, id, f[i - 1], i)]
  PROVE  \E f : /\ f = [i \in 0..Len(fs.table) |->
                         IF i = 0 THEN fs ELSE DeleteInside(below, user, key, id, f[i - 1], i)]
                /\ Loop(below, user, key, id, fs) = f[Len(fs.table)]
BY DEF Loop

\* The loop over all entries, by induction over the slots.
LEMMA LoopPrunes ==
  ASSUME NEW user \in Users, NEW below \in Pruners(user), NEW key \in Keys, NEW id,
         NEW fs \in Stores
  PROVE  Loop(below, user, key, id, fs) \in Prunings(fs, user)
<1> DEFINE n == Len(fs.table)
           T == Prunings(fs, user)
           G == [p \in T \X (1..n) |-> DeleteInside(below, user, key, id, p[1], p[2])]
<1>1. n \in Nat /\ DOMAIN fs.table = 1..n
  BY StoreFields, LenProperties
<1>2. fs \in T
  BY PrunedSame
<1>3. ASSUME NEW now \in T, NEW i \in 1..n
      PROVE DeleteInside(below, user, key, id, now, i) \in T
  <2>1. now \in Stores /\ i \in DOMAIN now.table
    BY <1>1 DEF Prunings, Pruned
  <2> QED BY <2>1, InsidePrunes, PrunedTwice
<1>4. G \in [T \X (1..n) -> T]
  BY <1>3
<1>5. \A now \in T, i \in 1..n : G[<<now, i>>] = DeleteInside(below, user, key, id, now, i)
  OBVIOUS
<1>a. n = Len(fs.table)
  OBVIOUS
<1> HIDE DEF G, T, n
<1>6. PICK g : Iterated(g, fs, G, n, T)
  BY <1>1, <1>2, <1>4, Iterates DEF StepIn
<1>7. ASSUME NEW f, f = [i \in 0..n |->
                       IF i = 0 THEN fs ELSE DeleteInside(below, user, key, id, f[i - 1], i)]
      PROVE f[n] \in T
  <2> DEFINE P == {i \in Nat : i <= n => f[i] \in T}
  <2>1. 0 \in P
    BY <1>1, <1>2, <1>7
  <2>2. ASSUME NEW i \in Nat, i \in P PROVE i + 1 \in P
    <3> SUFFICES ASSUME i + 1 <= n PROVE f[i + 1] \in T
      OBVIOUS
    <3>1. f[i] \in T
      BY <1>1, <2>2
    <3>a. i + 1 \in 0..n /\ i + 1 \in 1..n /\ i + 1 # 0 /\ (i + 1) - 1 = i
      BY <1>1
    <3>2. f[i + 1] = DeleteInside(below, user, key, id, f[i], i + 1)
      BY <1>7, <3>a
    <3> QED BY <3>1, <3>a, <3>2, <1>3
  <2> HIDE DEF P
  <2>3. n \in P
    BY <1>1, <2>1, <2>2, NatInd
  <2> QED BY <2>3, <1>1 DEF P
<1>8. \E f : f = [i \in 0..n |->
                    IF i = 0 THEN fs ELSE DeleteInside(below, user, key, id, f[i - 1], i)]
  <2>1. ASSUME NEW i \in 1..n
        PROVE g[i] = DeleteInside(below, user, key, id, g[i - 1], i)
    <3>1. i - 1 \in 0..n /\ g[i - 1] \in T
      BY <1>1, <1>6 DEF Iterated
    <3> QED BY <3>1, <1>5, <1>6 DEF Iterated
  <2>2. g = [i \in 0..n |-> IF i = 0 THEN fs ELSE DeleteInside(below, user, key, id, g[i - 1], i)]
    BY <1>1, <1>6, <2>1 DEF Iterated
  <2> QED BY <2>2
<1> QED BY <1>7, <1>8, <1>a, LoopUnfold DEF T

\* One call of rm -r: the loop, then the directory itself.
LEMMA TreePrunes ==
  ASSUME NEW user \in Users, NEW below \in Pruners(user), NEW fs \in Stores, NEW cur \in Int,
         NEW name \in Names \union {Cut}
  PROVE  DeleteTree(below, user, fs, cur, name) \in Prunings(fs, user)
<1> DEFINE key == Key(user, cur, "D", name)
           slot == FindIn(fs.index, key)
           there == fs.table[slot]
           emptied == Loop(below, user, key, there.dirID, fs)
<1>1. DeleteTree(below, user, fs, cur, name) =
        IF slot # Nowhere /\ Taken(there) /\ hasPermission(there, user)
        THEN deleteDataDir(emptied, user, cur, name) ELSE fs
  BY DEF DeleteTree, Loop
<1>2. emptied \in Prunings(fs, user)
  BY KeyType, LoopPrunes
<1> HIDE DEF emptied
<1>3. deleteDataDir(emptied, user, cur, name) \in Prunings(emptied, user)
  BY <1>2, RemovesDir DEF Prunings
<1>4. deleteDataDir(emptied, user, cur, name) \in Prunings(fs, user)
  BY <1>2, <1>3, PrunedTwice
<1> QED BY <1>1, <1>4, PrunedSame

\* One level of calls, written with the level below it.
Level(below, user) == [c \in Calls |-> DeleteTree(below, user, c[1], c[2], c[3])]
NoLevel == [c \in Calls |-> [c[1] EXCEPT !.ends = FALSE]]

\* What the calls one level up do, from what those below do.
LEMMA LevelPrunes ==
  ASSUME NEW user \in Users
  PROVE  /\ NoLevel \in Pruners(user)
         /\ \A below \in Pruners(user) : Level(below, user) \in Pruners(user)
<1>1. ASSUME NEW c \in Calls
      PROVE c[1] \in Stores /\ c[2] \in Int /\ c[3] \in Names \union {Cut}
  BY DEF Calls
<1>2. ASSUME NEW fs \in Stores PROVE [fs EXCEPT !.ends = FALSE] \in Prunings(fs, user)
  BY PrunedStopped
<1>3. \A c \in Calls : NoLevel[c] \in Prunings(c[1], user)
  BY <1>1, <1>2 DEF NoLevel
<1>4. ASSUME NEW below \in Pruners(user), NEW c \in Calls
      PROVE Level(below, user)[c] \in Prunings(c[1], user)
  BY <1>1, TreePrunes DEF Level
<1>5. \A c \in Calls : Prunings(c[1], user) \subseteq Stores
  BY DEF Prunings
<1>6. NoLevel \in Pruners(user)
  BY <1>3, <1>5 DEF Pruners, NoLevel
<1>7. ASSUME NEW below \in Pruners(user) PROVE Level(below, user) \in Pruners(user)
  BY <1>4, <1>5 DEF Pruners, Level
<1> QED BY <1>6, <1>7

IsLevels(f, user, n) ==
  f = [levels \in 0..n |->
        [c \in Calls |-> IF levels = 0 THEN [c[1] EXCEPT !.ends = FALSE]
                         ELSE DeleteTree(f[levels - 1], user, c[1], c[2], c[3])]]

\* rm -r as the recursion over its levels.
LEMMA DeleteUnfold ==
  ASSUME NEW fs, NEW user, NEW cur, NEW name, \E f : IsLevels(f, user, Len(fs.table))
  PROVE  \E f : /\ IsLevels(f, user, Len(fs.table))
                /\ recursiveDelete(fs, user, cur, name) = f[Len(fs.table)][<<fs, cur, name>>]
BY DEF recursiveDelete, IsLevels

\* rm -r, however deep, deletes entries of its user only, and leaves a sound
\* store sound.
LEMMA DeletePrunes ==
  ASSUME NEW user \in Users, NEW fs \in Stores, NEW cur \in Int, NEW name \in Names \union {Cut}
  PROVE  recursiveDelete(fs, user, cur, name) \in Prunings(fs, user)
<1> DEFINE n == Len(fs.table)
           T == Pruners(user)
           G == [p \in T \X (1..n) |-> Level(p[1], user)]
<1>1. n \in Nat /\ n = Len(fs.table)
  BY StoreFields, LenProperties
<1>2. G \in [T \X (1..n) -> T]
  BY LevelPrunes
<1>3. \A g \in T, i \in 1..n : G[<<g, i>>] = Level(g, user)
  OBVIOUS
<1> HIDE DEF n, T, G
<1>a. NoLevel \in T /\ \A g \in T : Level(g, user) \in T
  BY LevelPrunes DEF T
<1>4. PICK g : Iterated(g, NoLevel, G, n, T)
  BY <1>1, <1>2, <1>a, Iterates DEF StepIn
<1>5. \E f : IsLevels(f, user, n)
  <2>1. ASSUME NEW i \in 1..n PROVE g[i] = Level(g[i - 1], user)
    <3>1. i - 1 \in 0..n /\ g[i - 1] \in T
      BY <1>1, <1>4 DEF Iterated
    <3> QED BY <3>1, <1>3, <1>4 DEF Iterated
  <2>2. ASSUME NEW i \in 0..n
        PROVE g[i] = [c \in Calls |-> IF i = 0 THEN [c[1] EXCEPT !.ends = FALSE]
                       ELSE DeleteTree(g[i - 1], user, c[1], c[2], c[3])]
    <3>1. CASE i = 0
      BY <3>1, <1>4 DEF Iterated, NoLevel
    <3>2. CASE i # 0
      <4>1. i \in 1..n
        BY <3>2, <1>1
      <4> QED BY <4>1, <3>2, <2>1 DEF Level
    <3> QED BY <3>1, <3>2
  <2>3. g = [i \in 0..n |-> g[i]]
    BY <1>4 DEF Iterated
  <2>4. IsLevels(g, user, n)
    BY <2>2, <2>3 DEF IsLevels
  <2> QED BY <2>4
<1>6. PICK f : /\ IsLevels(f, user, n)
               /\ recursiveDelete(fs, user, cur, name) = f[n][<<fs, cur, name>>]
  BY <1>1, <1>5, DeleteUnfold
<1>7. f[0] = NoLevel /\ \A i \in 1..n : f[i] = Level(f[i - 1], user)
  <2>1. 0 \in 0..n
    BY <1>1
  <2>2. f[0] = [c \in Calls |-> [c[1] EXCEPT !.ends = FALSE]]
    BY <1>6, <2>1 DEF IsLevels
  <2>3. ASSUME NEW i \in 1..n PROVE f[i] = Level(f[i - 1], user)
    <3>1. i \in 0..n /\ i # 0
      BY <1>1
    <3> QED BY <1>6, <3>1 DEF Level, IsLevels
  <2> QED BY <2>2, <2>3 DEF NoLevel
<1>8. f[n] \in T
  <2> DEFINE P == {i \in Nat : i <= n => f[i] \in T}
  <2>1. 0 \in P
    BY <1>7, <1>a
  <2>2. ASSUME NEW i \in Nat, i \in P PROVE i + 1 \in P
    <3> SUFFICES ASSUME i + 1 <= n PROVE f[i + 1] \in T
      OBVIOUS
    <3>1. f[i] \in T
      BY <1>1, <2>2
    <3>2. i + 1 \in 1..n /\ (i + 1) - 1 = i
      BY <1>1
    <3> QED BY <3>1, <3>2, <1>7, <1>a
  <2> HIDE DEF P
  <2>3. n \in P
    BY <1>1, <2>1, <2>2, NatInd
  <2> QED BY <2>3, <1>1 DEF P
<1>9. <<fs, cur, name>> \in Calls /\ <<fs, cur, name>>[1] = fs
  BY DEF Calls
<1>10. f[n][<<fs, cur, name>>] \in Prunings(<<fs, cur, name>>[1], user)
  BY <1>8, <1>9 DEF T, Pruners
<1> QED BY <1>6, <1>9, <1>10

-----------------------------------------------------------------------------
(* Paths.                                                                  *)

\* The least of some slots.
LEMMA Least ==
  ASSUME NEW I, I \subseteq Nat, I # {}
  PROVE  Min(I) \in I /\ \A i \in I : Min(I) <= i
<1>1. \E n \in I : \A m \in I : n <= m
  BY NatMin
<1> QED BY <1>1 DEF Min

\* The first entry with a number, as extractPath looks for it.
LEMMA FirstWithIDIs ==
  ASSUME TypeOK, NEW id
  PROVE  \/ FirstWithID(id) = 0 /\ \A i \in DOMAIN metaDataTable : metaDataTable[i].dirID # id
         \/ /\ FirstWithID(id) \in DOMAIN metaDataTable
            /\ metaDataTable[FirstWithID(id)].dirID = id
            /\ \A i \in DOMAIN metaDataTable : metaDataTable[i].dirID = id => FirstWithID(id) <= i
<1> DEFINE I == {i \in 1..Len(metaDataTable) : metaDataTable[i].dirID = id}
<1>1. FirstWithID(id) = IF I # {} THEN Min(I) ELSE 0
  BY DEF FirstWithID, SelectInSeq
<1>2. DOMAIN metaDataTable = 1..Len(metaDataTable) /\ Len(metaDataTable) \in Nat
  BY LenProperties DEF TypeOK
<1>3. I \subseteq Nat
  BY <1>2
<1>4. CASE I = {}
  BY <1>1, <1>2, <1>4
<1>5. CASE I # {}
  <2>1. Min(I) \in I /\ \A i \in I : Min(I) <= i
    BY <1>3, <1>5, Least
  <2> QED BY <1>1, <1>2, <1>5, <2>1
<1> QED BY <1>4, <1>5

\* The first directory of a user with a number.
LEMMA FirstOwnedIs ==
  ASSUME TypeOK, NEW id, NEW user
  PROVE  \/ FirstOwned(id, user) = 0
            /\ \A i \in Slots : ~ (metaDataTable[i].dirID = id /\ metaDataTable[i].owner = user
                                   /\ metaDataTable[i].kind = "D")
         \/ /\ FirstOwned(id, user) \in Slots
            /\ metaDataTable[FirstOwned(id, user)].dirID = id
            /\ metaDataTable[FirstOwned(id, user)].owner = user
            /\ metaDataTable[FirstOwned(id, user)].kind = "D"
<1> DEFINE I == {i \in 1..Len(metaDataTable) :
                   /\ Taken(metaDataTable[i]) /\ metaDataTable[i].dirID = id
                   /\ metaDataTable[i].owner = user /\ metaDataTable[i].kind = "D"}
<1>1. FirstOwned(id, user) = IF I # {} THEN Min(I) ELSE 0
  BY DEF FirstOwned, SelectInSeq
<1>2. DOMAIN metaDataTable = 1..Len(metaDataTable) /\ Len(metaDataTable) \in Nat
  BY LenProperties DEF TypeOK
<1>3. I \subseteq Nat
  BY <1>2
<1>4. CASE I = {}
  BY <1>1, <1>2, <1>4 DEF Slots
<1>5. CASE I # {}
  <2>1. Min(I) \in I
    BY <1>3, <1>5, Least
  <2> QED BY <1>1, <1>2, <1>5, <2>1 DEF Slots
<1> QED BY <1>4, <1>5

\* A slot of the table.
LEMMA SlotIs ==
  ASSUME TypeOK, NEW i \in Slots
  PROVE  /\ metaDataTable[i] \in Entry /\ Taken(metaDataTable[i])
         /\ i \in DOMAIN metaDataTable /\ i \in 1..Len(metaDataTable) /\ i \in Slot
         /\ metaDataTable[i].kind \in {"F", "D"}
<1>1. i \in DOMAIN metaDataTable /\ Taken(metaDataTable[i])
  BY DEF Slots
<1>2. metaDataTable[i] \in Entry /\ i \in 1..Len(metaDataTable) /\ i \in Slot
  BY <1>1, TableAt DEF TypeOK
<1> QED BY <1>1, <1>2, EntryTaken

\* A name of the index leads to the slot of its entry.
LEMMA FoundIs ==
  ASSUME TypeOK, Decided, NEW key, Find(key) # Nowhere
  PROVE  /\ Find(key) \in DOMAIN metaDataTable
         /\ <<key, Find(key)>> \in index
         /\ clean /\ IndexExact => Find(key) \in Slots /\ KeyOf(metaDataTable[Find(key)]) = key
<1>1. <<key, Find(key)>> \in index
  BY FindInPair DEF TypeOK, Find, Slot
<1>2. Find(key) \in DOMAIN metaDataTable
  BY <1>1 DEF Decided
<1>3. ASSUME clean, IndexExact
      PROVE  Find(key) \in Slots /\ KeyOf(metaDataTable[Find(key)]) = key
  <2>1. PICK i \in Slots : <<key, Find(key)>> = <<KeyOf(metaDataTable[i]), i>>
    BY <1>1, <1>3 DEF IndexExact
  <2> QED BY <2>1
<1> QED BY <1>1, <1>2, <1>3

\* Only one slot has the number of a home and comes first.
LEMMA HomeIsFirst ==
  ASSUME TypeOK, Forest, NEW j, NEW user, NEW id, Home(j, user, id),
         NEW i \in DOMAIN metaDataTable, metaDataTable[i].dirID = id
  PROVE  j <= i /\ (i # j => i \in Slots /\ metaDataTable[i].kind = "F")
<1>1. j \in Slots /\ j \in Nat /\ i \in Nat /\ id >= 1 /\ id \in Int
      /\ metaDataTable[j].kind = "D" /\ metaDataTable[j].dirID = id
  BY SlotIs, TableAt, EntryTaken DEF Home, IsDir, Forest, DirsBelow, TypeOK, Slot
<1>2. i \in Slots
  BY <1>1, BlankFields, TableAt DEF TypeOK, Slots, Taken, Nowhere
<1>3. CASE metaDataTable[i].kind = "D"
  BY <1>1, <1>2, <1>3 DEF Forest, OneNumber, IsDir
<1>4. CASE metaDataTable[i].kind = "F"
  <2>1. metaDataTable[i].parent = id
    BY <1>2, <1>4 DEF Forest, FilesBelow
  <2>2. PICK k \in Slots : k < i /\ IsDir(k) /\ metaDataTable[k].dirID = id
    BY <1>1, <1>2, <1>4, <2>1 DEF Forest, FilesBelow
  <2>3. k = j
    BY <1>1, <2>2 DEF Forest, OneNumber, IsDir
  <2> QED BY <1>1, <1>2, <1>4, <2>2, <2>3
<1> QED BY <1>2, <1>3, <1>4, SlotIs

\* Where a path may have led to: if it did not fail and no directory was
\* lost, to a home, with the slot of the directory or none.
Spots(user) ==
  {at \in [cur : Int, slot : 0..Len(metaDataTable), failed : BOOLEAN] :
     /\ at.failed => at.cur = Nowhere
     /\ clean /\ tidy /\ ~at.failed =>
          /\ AtHome(user, at.cur)
          /\ at.slot = 0 \/ at.cur = 0 \/ Home(at.slot, user, at.cur)}

Sessions == [user : Users, cwd : Int]

\* A name of the path leads into a directory of the user.
LEMMA EnterSpot ==
  ASSUME IInv, Decided, NEW s \in Sessions, NEW at \in Spots(s.user), ~at.failed,
         NEW token \in Names
  PROVE  Enter(s, at, token) \in Spots(s.user)
<1> DEFINE key == Key(s.user, at.cur, "D", token)
           slot == Find(key)
<1>1. TypeOK /\ s.user \in Users /\ at.cur \in Int /\ key \in Keys /\ key.uid = s.user
      /\ key.dir = at.cur /\ key.kind = "D"
  BY KeyType DEF IInv, Sessions, Spots
<1>2. CASE slot = Nowhere \/ ~Taken(metaDataTable[slot])
  <2>1. Enter(s, at, token) = [cur |-> Nowhere, slot |-> 0, failed |-> TRUE]
    BY <1>2 DEF Enter
  <2>2. 0 \in 0..Len(metaDataTable)
    BY <1>1, LenProperties DEF TypeOK
  <2> QED BY <2>1, <2>2 DEF Spots, Nowhere
<1>3. CASE slot # Nowhere /\ Taken(metaDataTable[slot])
  <2> DEFINE to == [cur |-> metaDataTable[slot].dirID, slot |-> slot, failed |-> FALSE]
  <2>1. Enter(s, at, token) = to
    BY <1>3 DEF Enter, Spots
  <2>2. slot \in Slots
    BY <1>1, <1>3, FoundIs DEF Slots
  <2>3. to \in [cur : Int, slot : 0..Len(metaDataTable), failed : BOOLEAN]
    BY <1>1, <2>2, SlotIs, EntryTaken
  <2>4. ASSUME clean, tidy PROVE Home(slot, s.user, to.cur)
    <3>1. KeyOf(metaDataTable[slot]) = key /\ KeyedByOwner /\ Forest
      BY <1>1, <1>3, <2>4, FoundIs DEF IInv
    <3>2. /\ metaDataTable[slot].uid = s.user /\ metaDataTable[slot].dir = at.cur
          /\ metaDataTable[slot].kind = "D"
      BY <1>1, <3>1, <2>2, SlotIs, KeyOfFields
    <3>3. metaDataTable[slot].owner = s.user /\ metaDataTable[slot].parent = at.cur
      BY <2>2, <3>1, <3>2 DEF KeyedByOwner, Forest, DirsBelow
    <3>4. at.cur # Nowhere
      <4>1. AtHome(s.user, at.cur)
        BY <2>4 DEF Spots
      <4>2. ASSUME NEW j \in Slots, Home(j, s.user, at.cur) PROVE at.cur >= 1
        BY <4>2, <3>1 DEF Home, IsDir, Forest, DirsBelow
      <4> QED BY <4>1, <4>2 DEF AtHome, Nowhere
    <3> QED BY <2>2, <3>2, <3>3, <3>4 DEF Home, IsDir
  <2>5. to.cur = metaDataTable[slot].dirID /\ to.slot = slot /\ to.failed = FALSE
    OBVIOUS
  <2> HIDE DEF to
  <2>6. clean /\ tidy => AtHome(s.user, to.cur) /\ Home(to.slot, s.user, to.cur)
    BY <2>2, <2>4, <2>5 DEF AtHome
  <2>7. to \in Spots(s.user)
    BY <2>3, <2>5, <2>6 DEF Spots
  <2> QED BY <2>1, <2>7 DEF to
<1> QED BY <1>2, <1>3

\* The directory that a home lies in.
LEMMA HomeAbove ==
  ASSUME TypeOK, Forest, NEW j, NEW user, NEW id, Home(j, user, id)
  PROVE  /\ j \in Slots /\ metaDataTable[j].parent \in Int /\ id >= 1 /\ id \in Int
         /\ AtHome(user, metaDataTable[j].parent)
         /\ metaDataTable[j].parent # 0 =>
              \E k \in Slots : k < j /\ Home(k, user, metaDataTable[j].parent)
<1>1. j \in Slots /\ metaDataTable[j].kind = "D" /\ metaDataTable[j].parent # Nowhere
      /\ metaDataTable[j].owner = user /\ metaDataTable[j].dirID = id
  BY DEF Home, IsDir
<1>2. metaDataTable[j].parent \in Int /\ id \in Int
  BY <1>1, SlotIs, EntryTaken
<1>3. \/ metaDataTable[j].parent = 0
      \/ \E k \in Slots : k < j /\ Home(k, user, metaDataTable[j].parent)
  BY <1>1 DEF Forest, DirsBelow
<1> QED BY <1>1, <1>2, <1>3 DEF AtHome, Forest, DirsBelow

\* ".." leads to the directory above, or stays at the root.
LEMMA AscendSpot ==
  ASSUME IInv, Decided, NEW s \in Sessions, NEW at \in Spots(s.user), ~at.failed
  PROVE  Ascend(s, at) \in Spots(s.user)
<1> DEFINE child == FirstWithID(at.cur)
           above == IF at.slot = 0
                    THEN IF child = 0 THEN at.cur ELSE metaDataTable[child].parent
                    ELSE metaDataTable[at.slot].parent
           entry == FirstOwned(above, s.user)
           to == [cur |-> above,
                  slot |-> IF at.slot = 0 THEN FirstWithID(above)
                           ELSE IF entry = 0 THEN at.slot ELSE entry,
                  failed |-> FALSE]
<1>1. CASE at.cur = 0
  BY <1>1 DEF Ascend
<1>2. CASE at.cur # 0
  <2>1. Ascend(s, at) = to
    BY <1>2 DEF Ascend, Spots
  <2>2. TypeOK /\ at.cur \in Int /\ at.slot \in 0..Len(metaDataTable)
        /\ DOMAIN metaDataTable = 1..Len(metaDataTable) /\ Len(metaDataTable) \in Nat
    BY LenProperties DEF IInv, Spots, TypeOK
  <2>3. child \in 0..Len(metaDataTable) /\ entry \in 0..Len(metaDataTable)
        /\ FirstWithID(above) \in 0..Len(metaDataTable)
    BY <2>2, FirstWithIDIs, FirstOwnedIs DEF Slots
  <2>4. above \in Int
    <3>1. \A i \in DOMAIN metaDataTable : metaDataTable[i].parent \in Int
      BY <2>2, TableAt DEF TypeOK
    <3> HIDE DEF child
    <3> QED BY <2>2, <2>3, <3>1
  <2>5. ASSUME clean, tidy
        PROVE  /\ AtHome(s.user, above)
               /\ to.slot = 0 \/ above = 0 \/ Home(to.slot, s.user, above)
    <3>1. Forest
      BY <2>5 DEF IInv
    <3>2. PICK j : /\ Home(j, s.user, at.cur) /\ j \in Slots
                   /\ above = metaDataTable[j].parent
      <4>1. CASE at.slot # 0
        <5>1. Home(at.slot, s.user, at.cur)
          BY <1>2, <2>5, <4>1 DEF Spots
        <5> QED BY <4>1, <5>1 DEF Home, IsDir
      <4>2. CASE at.slot = 0
        <5>1. PICK j \in Slots : Home(j, s.user, at.cur)
          BY <1>2, <2>5 DEF Spots, AtHome
        <5>2. j \in DOMAIN metaDataTable /\ metaDataTable[j].dirID = at.cur
          BY <5>1 DEF Slots, Home
        <5>3. child \in DOMAIN metaDataTable /\ metaDataTable[child].dirID = at.cur /\ child <= j
          BY <2>2, <5>2, FirstWithIDIs
        <5>4. j <= child
          BY <2>2, <3>1, <5>1, <5>3, HomeIsFirst
        <5>5. child = j /\ child # 0
          BY <2>2, <5>2, <5>3, <5>4
        <5> QED BY <4>2, <5>1, <5>5
      <4> QED BY <4>1, <4>2
    <3>3. /\ AtHome(s.user, above)
          /\ above # 0 => \E k \in Slots : k < j /\ Home(k, s.user, above)
      BY <2>2, <3>1, <3>2, HomeAbove
    <3>4. ASSUME above # 0, to.slot # 0 PROVE Home(to.slot, s.user, above)
      <4>1. PICK k \in Slots : Home(k, s.user, above)
        BY <3>3, <3>4
      <4>2. CASE at.slot = 0
        <5>1. to.slot = FirstWithID(above)
          BY <4>2
        <5>2. k \in DOMAIN metaDataTable /\ metaDataTable[k].dirID = above /\ k \in Nat
          BY <2>2, <4>1 DEF Slots, Home
        <5>3. to.slot \in DOMAIN metaDataTable /\ metaDataTable[to.slot].dirID = above
              /\ to.slot <= k
          BY <2>2, <3>4, <5>1, <5>2, FirstWithIDIs
        <5> HIDE DEF to, above
        <5>4. k <= to.slot
          BY <2>2, <3>1, <4>1, <5>3, HomeIsFirst
        <5>5. k = to.slot
          BY <2>2, <5>2, <5>3, <5>4
        <5> QED BY <4>1, <5>5
      <4>3. CASE at.slot # 0
        <5> HIDE DEF above
        <5>1. k \in Slots /\ metaDataTable[k].dirID = above /\ metaDataTable[k].owner = s.user
              /\ metaDataTable[k].kind = "D"
          BY <4>1 DEF Home, IsDir
        <5>2. /\ entry \in Slots /\ metaDataTable[entry].dirID = above
              /\ metaDataTable[entry].owner = s.user /\ metaDataTable[entry].kind = "D"
          BY <2>2, <5>1, FirstOwnedIs
        <5>3. entry # 0 /\ to.slot = entry
          BY <2>2, <4>3, <5>2 DEF Slots
        <5>4. entry = k
          BY <3>1, <5>1, <5>2 DEF Forest, OneNumber, IsDir
        <5> QED BY <4>1, <5>3, <5>4
      <4> QED BY <4>2, <4>3
    <3> QED BY <3>3, <3>4
  <2>6. to.cur = above /\ to.failed = FALSE
        /\ to \in [cur : Int, slot : 0..Len(metaDataTable), failed : BOOLEAN]
    BY <2>2, <2>3, <2>4
  <2> HIDE DEF to, above
  <2> QED BY <2>1, <2>5, <2>6 DEF Spots
<1> QED BY <1>1, <1>2

\* One component of the path.
LEMMA FollowSpot ==
  ASSUME IInv, Decided, NEW s \in Sessions, NEW at \in Spots(s.user),
         NEW token \in Names \union {Up}
  PROVE  Follow(s, at, token) \in Spots(s.user)
BY EnterSpot, AscendSpot DEF Follow

StartOf(s) == [cur |-> s.cwd, slot |-> 0, failed |-> FALSE]
IsWalk(f, s, path) ==
  f = [n \in 0..Len(path) |-> IF n = 0 THEN [cur |-> s.cwd, slot |-> 0, failed |-> FALSE]
                              ELSE Follow(s, f[n - 1], path[n])]

\* A path as the recursion over its components.
LEMMA PathUnfold ==
  ASSUME NEW s, NEW path, \E f : IsWalk(f, s, path)
  PROVE  \E f : IsWalk(f, s, path) /\ extractPath(s, path) = f[Len(path)].cur
BY DEF extractPath, IsWalk

\* A path that did not fail leads to the root or to a home.
LEMMA PathHome ==
  ASSUME IInv, Decided, NEW s \in Sessions, NEW path \in Seq(Names \union {Up}),
         clean /\ tidy => AtHome(s.user, s.cwd)
  PROVE  /\ extractPath(s, path) \in Int
         /\ clean /\ tidy =>
              extractPath(s, path) = Nowhere \/ AtHome(s.user, extractPath(s, path))
<1> DEFINE n == Len(path)
           T == Spots(s.user)
           G == [p \in T \X (1..n) |-> Follow(s, p[1], path[p[2]])]
<1>1. n \in Nat /\ n = Len(path) /\ \A i \in 1..n : path[i] \in Names \union {Up}
  BY LenProperties, ElementOfSeq
<1>2. \A at \in T, i \in 1..n : Follow(s, at, path[i]) \in T
  BY <1>1, FollowSpot
<1>3. G \in [T \X (1..n) -> T]
  BY <1>2
<1>4. \A at \in T, i \in 1..n : G[<<at, i>>] = Follow(s, at, path[i])
  OBVIOUS
<1>5. StartOf(s) \in T
  <2>1. 0 \in 0..Len(metaDataTable)
    BY LenProperties DEF IInv, TypeOK
  <2> QED BY <2>1 DEF Spots, StartOf, Sessions
<1> HIDE DEF n, T, G
<1>6. PICK g : Iterated(g, StartOf(s), G, n, T)
  BY <1>1, <1>3, <1>5, Iterates DEF StepIn
<1>7. \E f : IsWalk(f, s, path)
  <2>1. ASSUME NEW i \in 1..n PROVE g[i] = Follow(s, g[i - 1], path[i])
    <3>1. i - 1 \in 0..n /\ g[i - 1] \in T
      BY <1>1, <1>6 DEF Iterated
    <3> QED BY <3>1, <1>4, <1>6 DEF Iterated
  <2>2. g = [i \in 0..n |-> IF i = 0 THEN StartOf(s) ELSE Follow(s, g[i - 1], path[i])]
    BY <1>1, <1>6, <2>1 DEF Iterated
  <2> QED BY <1>1, <2>2 DEF IsWalk, StartOf
<1>8. PICK f : IsWalk(f, s, path) /\ extractPath(s, path) = f[n].cur
  BY <1>1, <1>7, PathUnfold
<1>9. f[0] = StartOf(s) /\ \A i \in 1..n : f[i] = Follow(s, f[i - 1], path[i])
  <2>1. 0 \in 0..n /\ \A i \in 1..n : i \in 0..n /\ i # 0
    BY <1>1
  <2> QED BY <1>1, <1>8, <2>1 DEF IsWalk, StartOf
<1>10. f[n] \in T
  <2> DEFINE P == {i \in Nat : i <= n => f[i] \in T}
  <2>1. 0 \in P
    BY <1>5, <1>9
  <2>2. ASSUME NEW i \in Nat, i \in P PROVE i + 1 \in P
    <3> SUFFICES ASSUME i + 1 <= n PROVE f[i + 1] \in T
      OBVIOUS
    <3>1. f[i] \in T
      BY <1>1, <2>2
    <3>2. i + 1 \in 1..n /\ (i + 1) - 1 = i
      BY <1>1
    <3> QED BY <3>1, <3>2, <1>2, <1>9
  <2> HIDE DEF P
  <2>3. n \in P
    BY <1>1, <2>1, <2>2, NatInd
  <2> QED BY <2>3, <1>1 DEF P
<1>11. f[n] \in Spots(s.user)
  BY <1>10 DEF T
<1> QED BY <1>8, <1>11 DEF Spots

\* The same for the session of a terminal.
LEMMA SessionPath ==
  ASSUME IInv, Decided, NEW t \in Terminals, NEW path \in Seq(Names \union {Up})
  PROVE  /\ session[t] \in Sessions /\ session[t].user \in Users /\ session[t].cwd \in Int
         /\ extractPath(session[t], path) \in Int
         /\ clean /\ tidy =>
              \/ extractPath(session[t], path) = Nowhere
              \/ AtHome(session[t].user, extractPath(session[t], path))
<1>1. session[t] \in Sessions /\ session[t].user \in Users /\ session[t].cwd \in Int
  BY DEF IInv, TypeOK, Sessions
<1>2. clean /\ tidy => AtHome(session[t].user, session[t].cwd)
  BY DEF IInv, Forest, SessionsAtHome
<1> QED BY <1>1, <1>2, PathHome

-----------------------------------------------------------------------------
(* Steps that add an entry.                                                *)

\* What an entry that is pushed does to the table.
LEMMA PushIs ==
  ASSUME TypeOK, NEW key \in Keys, NEW owner \in Users, NEW parent \in Int, NEW dirID \in Int,
         Push(key, owner, parent, dirID)
  PROVE  LET n == Len(metaDataTable) + 1
             e == NewEntry(Fitted(key), owner, parent, dirID)
         IN /\ metaDataTable' \in Seq(Entry \union {Blank})
            /\ n \in Slot /\ n \notin Slots /\ Slots' = Slots \union {n}
            /\ metaDataTable'[n] = e /\ e \in Entry
            /\ e.uid = key.uid /\ e.dir = key.dir /\ e.kind = key.kind /\ e.parent = parent
            /\ e.dirID = dirID /\ e.owner = owner
            /\ Fitted(key) = key => KeyOf(e) = key
            /\ \A i \in DOMAIN metaDataTable : metaDataTable'[i] = metaDataTable[i]
            /\ \A i \in Slots : i < n /\ metaDataTable'[i] = metaDataTable[i]
            /\ \A i \in Slots : IsDir(i) => IsDir(i)'
            /\ \A j \in Slots : \A user, id : Home(j, user, id) => Home(j, user, id)'
<1> DEFINE n == Len(metaDataTable) + 1
           e == NewEntry(Fitted(key), owner, parent, dirID)
<1>1. e \in Entry /\ e.uid = key.uid /\ e.dir = key.dir /\ e.kind = key.kind /\ e.parent = parent
      /\ e.dirID = dirID /\ e.owner = owner
  <2> DEFINE k == Fitted(key)
  <2>1. k \in Keys /\ k.uid = key.uid /\ k.dir = key.dir /\ k.kind = key.kind
    BY FittedType
  <2> HIDE DEF k
  <2>2. NewEntry(k, owner, parent, dirID) \in Entry
    BY <2>1 DEF NewEntry, Keys, Entry, Classes
  <2> QED BY <2>1, <2>2 DEF NewEntry, k
<1>2. Fitted(key) = key => KeyOf(e) = key
  <2>1. key = [uid |-> key.uid, dir |-> key.dir, kind |-> key.kind, name |-> key.name]
    BY DEF Keys
  <2>2. Fitted(key) = key => e.name = key.name
    BY DEF NewEntry
  <2> QED BY <1>1, <2>1, <2>2 DEF KeyOf, Key
<1> HIDE DEF e
<1>3. DOMAIN metaDataTable = 1..Len(metaDataTable) /\ Len(metaDataTable) \in Nat
      /\ metaDataTable \in Seq(Entry \union {Blank})
  BY LenProperties DEF TypeOK
<1>4. metaDataTable' = Append(metaDataTable, e)
  BY DEF Push, e
<1>5. /\ metaDataTable' \in Seq(Entry \union {Blank}) /\ DOMAIN metaDataTable' = 1..n
      /\ metaDataTable'[n] = e
      /\ \A i \in 1..Len(metaDataTable) : metaDataTable'[i] = metaDataTable[i]
  BY <1>1, <1>3, <1>4, AppendProperties
<1>6. n \in Slot /\ n \notin Slots /\ \A i \in Slots : i < n /\ i \in 1..Len(metaDataTable)
  BY <1>3 DEF Slots, Slot
<1>7. Slots' = Slots \union {n}
  <2>1. Taken(e)
    BY <1>1, EntryTaken
  <2>2. 1..n = DOMAIN metaDataTable \union {n} /\ n \notin DOMAIN metaDataTable
    BY <1>3
  <2> HIDE DEF n
  <2> QED BY <1>3, <1>5, <2>1, <2>2 DEF Slots
<1>8. \A i \in Slots : metaDataTable'[i] = metaDataTable[i]
  BY <1>5, <1>6
<1>9. \A i \in Slots : IsDir(i) => IsDir(i)'
  BY <1>7, <1>8 DEF IsDir
<1>10. \A j \in Slots : \A user, id : Home(j, user, id) => Home(j, user, id)'
  BY <1>8, <1>9 DEF Home
<1> QED BY <1>1, <1>2, <1>3, <1>5, <1>6, <1>7, <1>8, <1>9, <1>10 DEF e

\* What every step has to give, apart from the forest.
Base == TypeOK /\ IndexExact /\ (clean => KeyedByOwner /\ OneEach)

\* A push keeps table and index in step.
LEMMA PushBase ==
  ASSUME IInv, Decided, NEW key \in Keys, NEW parent \in Int, NEW dirID \in Int,
         Push(key, key.uid, parent, dirID), availableDirEntry' \in Slot,
         UNCHANGED <<session, image, boots>>, tidy' \in BOOLEAN
  PROVE  Base'
<1> DEFINE n == Len(metaDataTable) + 1
           e == NewEntry(Fitted(key), key.uid, parent, dirID)
<1>0. TypeOK /\ key.uid \in Users
  BY DEF IInv, Keys
<1>1. /\ metaDataTable' \in Seq(Entry \union {Blank})
      /\ n \in Slot /\ Slots' = Slots \union {n} /\ metaDataTable'[n] = e
      /\ e.uid = key.uid /\ e.owner = key.uid
      /\ Fitted(key) = key => KeyOf(e) = key
      /\ \A i \in Slots : metaDataTable'[i] = metaDataTable[i]
  BY <1>0, PushIs
<1> HIDE DEF e
<1>2. index' = index \union {<<key, n>>} /\ clean' \in BOOLEAN
      /\ (clean' => clean /\ Fitted(key) = key /\ Find(key) = Nowhere)
  BY DEF Push
<1> HIDE DEF n
<1>3. TypeOK'
  <2>1. index' \subseteq Keys \X Slot
    BY <1>0, <1>1, <1>2 DEF TypeOK, Slot
  <2> QED BY <1>0, <1>1, <1>2, <2>1 DEF TypeOK, Slot
<1>4. ASSUME clean' PROVE index' = {<<KeyOf(metaDataTable'[i]), i>> : i \in Slots'}
  <2>1. index = {<<KeyOf(metaDataTable[i]), i>> : i \in Slots} /\ KeyOf(e) = key
    BY <1>1, <1>2, <1>4 DEF IInv, IndexExact
  <2> QED BY <2>1, <1>1, <1>2
<1>5. ASSUME clean' PROVE KeyedByOwner'
  <2>1. KeyedByOwner
    BY <1>2, <1>5 DEF IInv
  <2> QED BY <2>1, <1>1 DEF KeyedByOwner
<1>6. ASSUME clean' PROVE OneEach'
  <2>1. OneEach /\ Find(key) = Nowhere
    BY <1>2, <1>6 DEF IInv
  <2>2. \A p \in index : p[1] # key
    BY <1>0, <2>1, FindInPair DEF TypeOK, Find, Slot
  <2> QED BY <1>2, <2>1, <2>2 DEF OneEach
<1> QED BY <1>3, <1>4, <1>5, <1>6 DEF Base, IndexExact

\* Directories stay homes, and sessions stay where they were.
LEMMA StayAtHome ==
  ASSUME SessionsAtHome, UNCHANGED session,
         \A j \in Slots : j \in Slots' /\ \A user, id : Home(j, user, id) => Home(j, user, id)'
  PROVE  SessionsAtHome'
BY DEF SessionsAtHome, AtHome

\* A file goes into the root or into a directory that is there.
LEMMA FileAdded ==
  ASSUME TypeOK, Forest, NEW key \in Keys, key.kind = "F", NEW cur \in Int,
         Push(key, key.uid, cur, cur), UNCHANGED session,
         cur = 0 \/ \E i \in Slots : metaDataTable[i].dirID = cur /\ metaDataTable[i].kind = "D"
  PROVE  Forest'
<1> DEFINE n == Len(metaDataTable) + 1
           e == NewEntry(Fitted(key), key.uid, cur, cur)
<1>0. key.uid \in Users
  BY DEF Keys
<1>1. /\ n \in Slot /\ n \notin Slots /\ Slots' = Slots \union {n}
      /\ metaDataTable'[n] = e
      /\ e.kind = "F" /\ e.parent = cur /\ e.dirID = cur
      /\ \A i \in Slots : i < n /\ metaDataTable'[i] = metaDataTable[i]
      /\ \A i \in Slots : IsDir(i) => IsDir(i)'
      /\ \A j \in Slots : \A user, id : Home(j, user, id) => Home(j, user, id)'
  BY <1>0, PushIs
<1> HIDE DEF n, e
<1>2. DirsBelow'
  <2>1. ASSUME NEW i \in Slots', metaDataTable'[i].kind = "D"
        PROVE  /\ i \in Slots /\ metaDataTable'[i] = metaDataTable[i]
               /\ metaDataTable[i].kind = "D"
    BY <1>1, <2>1
  <2> QED BY <1>1, <2>1 DEF Forest, DirsBelow
<1>3. FilesBelow'
  <2>1. ASSUME NEW i \in Slots', metaDataTable'[i].kind = "F"
        PROVE  /\ metaDataTable'[i].dirID = metaDataTable'[i].parent
               /\ \/ metaDataTable'[i].parent = 0
                  \/ \E j \in Slots' : /\ j < i /\ IsDir(j)'
                                       /\ metaDataTable'[j].dirID = metaDataTable'[i].parent
    <3>1. CASE i \in Slots
      BY <1>1, <2>1, <3>1 DEF Forest, FilesBelow
    <3>2. CASE i = n
      BY <1>1, <3>2 DEF IsDir
    <3> QED BY <1>1, <3>1, <3>2
  <2> QED BY <2>1 DEF FilesBelow
<1>4. OneNumber'
  <2>1. ASSUME NEW i \in Slots', IsDir(i)' PROVE i \in Slots /\ IsDir(i) /\ metaDataTable'[i] = metaDataTable[i]
    BY <1>1, <2>1 DEF IsDir
  <2> QED BY <2>1 DEF Forest, OneNumber
<1>5. SessionsAtHome'
  BY <1>1, StayAtHome DEF Forest
<1> QED BY <1>2, <1>3, <1>4, <1>5 DEF Forest

\* A directory with a new number goes below a home, or nowhere.
LEMMA DirAdded ==
  ASSUME TypeOK, Forest, NEW key \in Keys, key.kind = "D", NEW cur \in Int, key.dir = cur,
         Push(key, key.uid, cur, availableDirEntry), UNCHANGED session,
         cur = Nowhere \/ AtHome(key.uid, cur),
         \A i \in Slots : metaDataTable[i].dirID # availableDirEntry
  PROVE  Forest'
<1> DEFINE n == Len(metaDataTable) + 1
           e == NewEntry(Fitted(key), key.uid, cur, availableDirEntry)
<1>0. key.uid \in Users /\ availableDirEntry \in Int /\ availableDirEntry >= 1
  BY DEF Keys, TypeOK
<1>1. /\ n \in Slot /\ n \notin Slots /\ Slots' = Slots \union {n}
      /\ metaDataTable'[n] = e
      /\ e.kind = "D" /\ e.parent = cur /\ e.dirID = availableDirEntry /\ e.owner = key.uid
      /\ e.dir = key.dir
      /\ \A i \in Slots : i < n /\ metaDataTable'[i] = metaDataTable[i]
      /\ \A i \in Slots : IsDir(i) => IsDir(i)'
      /\ \A j \in Slots : \A user, id : Home(j, user, id) => Home(j, user, id)'
  <2>1. cur \in Int
    BY DEF Keys
  <2>2. /\ n \in Slot /\ n \notin Slots /\ Slots' = Slots \union {n}
        /\ metaDataTable'[n] = e
        /\ e.kind = key.kind /\ e.parent = cur /\ e.dirID = availableDirEntry
        /\ e.owner = key.uid /\ e.dir = key.dir
    BY <1>0, <2>1, PushIs
  <2>3. /\ \A i \in Slots : i < n /\ metaDataTable'[i] = metaDataTable[i]
        /\ \A i \in Slots : IsDir(i) => IsDir(i)'
        /\ \A j \in Slots : \A user, id : Home(j, user, id) => Home(j, user, id)'
    BY <1>0, <2>1, PushIs
  <2> HIDE DEF n, e
  <2> QED BY <2>2, <2>3
<1> HIDE DEF n, e
<1>2. DirsBelow'
  <2>1. ASSUME NEW i \in Slots', metaDataTable'[i].kind = "D"
        PROVE  /\ metaDataTable'[i].dirID >= 1
               /\ metaDataTable'[i].dir = metaDataTable'[i].parent
               /\ \/ metaDataTable'[i].parent \in {0, Nowhere}
                  \/ \E j \in Slots' : /\ j < i
                                       /\ Home(j, metaDataTable[i].owner, metaDataTable[i].parent)'
    <3>1. CASE i \in Slots
      <4>1. /\ metaDataTable[i].dirID >= 1 /\ metaDataTable[i].dir = metaDataTable[i].parent
            /\ \/ metaDataTable[i].parent \in {0, Nowhere}
               \/ \E j \in Slots : /\ j < i
                                   /\ Home(j, metaDataTable[i].owner, metaDataTable[i].parent)
        BY <1>1, <2>1, <3>1 DEF Forest, DirsBelow
      <4>2. ASSUME NEW j \in Slots, Home(j, metaDataTable[i].owner, metaDataTable[i].parent)
            PROVE Home(j, metaDataTable[i].owner, metaDataTable[i].parent)'
        BY <1>1, <3>1, <4>2 DEF Home
      <4> QED BY <1>1, <3>1, <4>1, <4>2
    <3>2. CASE i = n
      <4>1. ASSUME NEW j \in Slots, Home(j, key.uid, cur)
            PROVE j < i /\ j \in Slots' /\ Home(j, metaDataTable[i].owner, metaDataTable[i].parent)'
        BY <1>1, <3>2, <4>1 DEF Home
      <4> QED BY <1>0, <1>1, <3>2, <4>1 DEF AtHome
    <3> QED BY <1>1, <3>1, <3>2
  <2> QED BY <2>1 DEF DirsBelow
<1>3. FilesBelow'
  <2>1. ASSUME NEW i \in Slots', metaDataTable'[i].kind = "F"
        PROVE  i \in Slots /\ metaDataTable'[i] = metaDataTable[i]
    BY <1>1, <2>1
  <2> QED BY <1>1, <2>1 DEF Forest, FilesBelow
<1>4. OneNumber'
  <2>1. ASSUME NEW i \in Slots', NEW j \in Slots', IsDir(i)', IsDir(j)',
               metaDataTable'[i].dirID = metaDataTable'[j].dirID
        PROVE i = j
    <3>1. CASE i \in Slots /\ j \in Slots
      BY <1>1, <2>1, <3>1 DEF Forest, OneNumber, IsDir
    <3>2. CASE i = n \/ j = n
      BY <1>1, <2>1, <3>2
    <3> QED BY <1>1, <3>1, <3>2
  <2> QED BY <2>1 DEF OneNumber
<1>5. SessionsAtHome'
  BY <1>1, StayAtHome DEF Forest
<1> QED BY <1>2, <1>3, <1>4, <1>5 DEF Forest

\* create (cliFunctions.cpp, directory.cpp).
LEMMA CreateFileStep ==
  ASSUME IInv, Decided, NEW t \in Terminals, NEW path \in Paths, NEW name \in Names,
         createFiles(t, path, name)
  PROVE  IInv'
<1> DEFINE s == session[t]
           cur == extractPath(s, path)
           key == Key(s.user, cur, "F", name)
<1>a. path \in Seq(Names \union {Up})
  BY MetadataAssumption
<1>1. cur \in Int /\ key \in Keys /\ key.uid = s.user /\ key.kind = "F"
  BY <1>a, SessionPath, KeyType
<1>2. Push(key, key.uid, cur, cur) /\ UNCHANGED <<availableDirEntry, session, image, boots, tidy>>
      /\ (cur = 0 \/ \E i \in Slots : metaDataTable[i].dirID = cur /\ metaDataTable[i].kind = "D")
  BY <1>1 DEF createFiles
<1> HIDE DEF key, cur
<1>3. TypeOK /\ availableDirEntry' \in Slot /\ tidy' \in BOOLEAN
  BY <1>2 DEF IInv, TypeOK, Slot
<1>4. Base'
  BY <1>1, <1>2, <1>3, PushBase
<1>5. ASSUME clean', tidy' PROVE Forest'
  <2>1. clean /\ tidy
    BY <1>2, <1>5 DEF Push
  <2> QED BY <1>1, <1>2, <1>3, <2>1, FileAdded DEF IInv
<1> QED BY <1>4, <1>5 DEF IInv, Base

\* mkdir (directory.cpp 40-59).
LEMMA CreateDirectoryStep ==
  ASSUME IInv, Decided, NEW t \in Terminals, NEW path \in Paths, NEW name \in Names,
         createDirectory(t, path, name)
  PROVE  IInv'
<1> DEFINE s == session[t]
           cur == extractPath(s, path)
           key == Key(s.user, cur, "D", name)
<1>a. path \in Seq(Names \union {Up})
  BY MetadataAssumption
<1>b. cur \in Int /\ s.user \in Users /\ (clean /\ tidy => cur = Nowhere \/ AtHome(s.user, cur))
  BY <1>a, SessionPath
<1> HIDE DEF cur
<1>1. key \in Keys /\ key.uid = s.user /\ key.kind = "D" /\ key.dir = cur
  BY <1>b, KeyType
<1>2. /\ Push(key, key.uid, cur, availableDirEntry) /\ UNCHANGED <<session, image, boots>>
      /\ availableDirEntry' = availableDirEntry + 1
      /\ tidy' = (tidy /\ \A i \in Slots : metaDataTable[i].dirID # availableDirEntry)
  BY <1>1 DEF createDirectory, cur
<1> HIDE DEF key
<1>3. TypeOK /\ availableDirEntry' \in Slot /\ availableDirEntry \in Int /\ tidy' \in BOOLEAN
  BY <1>2 DEF IInv, TypeOK, Slot
<1>4. Base'
  BY <1>1, <1>b, <1>2, <1>3, PushBase
<1>5. ASSUME clean', tidy' PROVE Forest'
  <2>1. clean /\ tidy /\ \A i \in Slots : metaDataTable[i].dirID # availableDirEntry
    BY <1>2, <1>5 DEF Push
  <2> QED BY <1>1, <1>b, <1>2, <1>3, <2>1, DirAdded DEF IInv
<1> QED BY <1>4, <1>5 DEF IInv, Base

-----------------------------------------------------------------------------
(* Steps that remove entries.                                              *)

\* The entries of other users stay, and the names they are found by.
Untouched(user) ==
  \A i \in Slots : metaDataTable[i].owner # user =>
    /\ metaDataTable'[i] = metaDataTable[i]
    /\ \A p \in index : p[2] = i => p \in index'

\* The table and the index as a store: sound while they are in step.
LEMMA StateStore ==
  ASSUME TypeOK
  PROVE  /\ State \in Stores /\ State.table = metaDataTable /\ State.index = index
         /\ Used(metaDataTable) = Slots
         /\ clean /\ IndexExact /\ Decided => Sound(State)
<1>1. State \in Stores /\ State.table = metaDataTable /\ State.index = index
  BY DEF State, Stores, TypeOK
<1>2. Used(metaDataTable) = Slots
  BY DEF Used, Slots
<1>3. ASSUME clean, IndexExact, Decided PROVE Sound(State)
  BY <1>1, <1>2, <1>3 DEF Sound, Listed, IndexExact, Decided
<1> QED BY <1>1, <1>2, <1>3

\* What a removal does to a sound table.
LEMMA RemovalIs ==
  ASSUME TypeOK, clean, IndexExact, Decided, NEW user, NEW fs \in Prunings(State, user), Becomes(fs)
  PROVE  /\ DOMAIN metaDataTable' = DOMAIN metaDataTable /\ Slots' \subseteq Slots
         /\ \A i \in Slots' : metaDataTable'[i] = metaDataTable[i]
         /\ \A i \in Slots \ Slots' : metaDataTable[i].uid = user
         /\ index' = {<<KeyOf(metaDataTable'[i]), i>> : i \in Slots'} /\ OneEach'
<1>1. metaDataTable' = fs.table /\ index' = fs.index
  BY DEF Becomes
<1>2. Sound(fs) /\ DOMAIN fs.table = DOMAIN metaDataTable
      /\ \A i \in DOMAIN metaDataTable :
           \/ fs.table[i] = metaDataTable[i]
           \/ fs.table[i] = Blank /\ Taken(metaDataTable[i]) /\ metaDataTable[i].uid = user
  BY StateStore DEF Prunings, Pruned
<1>3. Slots' = Used(fs.table)
  BY <1>1 DEF Slots, Used
<1>4. /\ Slots' \subseteq Slots
      /\ \A i \in Slots' : metaDataTable'[i] = metaDataTable[i]
      /\ \A i \in Slots \ Slots' : metaDataTable[i].uid = user
  BY <1>1, <1>2, <1>3, BlankFields DEF Slots, Used
<1>5. index' = {<<KeyOf(metaDataTable'[i]), i>> : i \in Slots'}
  BY <1>1, <1>2, <1>3 DEF Sound, Listed
<1>6. OneEach'
  BY <1>1, <1>2 DEF Sound, OneEach
<1> QED BY <1>1, <1>2, <1>4, <1>5, <1>6

\* A removal keeps table and index in step.
LEMMA RemovalBase ==
  ASSUME IInv, Decided, NEW user, NEW fs \in Prunings(State, user), Becomes(fs)
  PROVE  Base'
<1>1. fs \in Stores /\ metaDataTable' = fs.table /\ index' = fs.index
      /\ UNCHANGED <<availableDirEntry, session, image, boots, clean>>
      /\ tidy' \in BOOLEAN
  BY DEF Becomes, Prunings, IInv, TypeOK
<1>2. TypeOK'
  <2>1. metaDataTable' \in Seq(Entry \union {Blank}) /\ index' \subseteq Keys \X (Nat \ {0})
    BY <1>1 DEF Stores
  <2> QED BY <1>1, <2>1 DEF IInv, TypeOK
<1>3. ASSUME clean'
      PROVE  /\ index' = {<<KeyOf(metaDataTable'[i]), i>> : i \in Slots'}
             /\ KeyedByOwner' /\ OneEach'
  <2>1. TypeOK /\ clean /\ IndexExact /\ KeyedByOwner
    BY <1>1, <1>3 DEF IInv
  <2> QED BY <2>1, RemovalIs DEF KeyedByOwner
<1> QED BY <1>2, <1>3 DEF Base, IndexExact

\* A removal touches entries of its user only.
LEMMA RemovalUntouched ==
  ASSUME IInv, Decided, clean, NEW user, NEW fs \in Prunings(State, user), Becomes(fs)
  PROVE  Untouched(user)
<1>1. TypeOK /\ IndexExact /\ KeyedByOwner
  BY DEF IInv
<1>2. ASSUME NEW i \in Slots, metaDataTable[i].owner # user
      PROVE  i \in Slots' /\ metaDataTable'[i] = metaDataTable[i]
  BY <1>1, <1>2, RemovalIs DEF KeyedByOwner
<1>3. ASSUME NEW i \in Slots, metaDataTable[i].owner # user, NEW p \in index, p[2] = i
      PROVE  p \in index'
  <2>1. p = <<KeyOf(metaDataTable[i]), i>>
    BY <1>1, <1>3 DEF IndexExact
  <2>2. i \in Slots' /\ p = <<KeyOf(metaDataTable'[i]), i>>
    BY <1>2, <1>3, <2>1
  <2> QED BY <1>1, <2>2, RemovalIs
<1> QED BY <1>2, <1>3 DEF Untouched

\* A removal that loses no directory keeps the forest.
LEMMA RemovalForest ==
  ASSUME IInv, Decided, NEW user, NEW fs \in Prunings(State, user), Becomes(fs), clean', tidy'
  PROVE  Forest'
<1>1. /\ TypeOK /\ clean /\ tidy /\ IndexExact /\ Forest /\ UNCHANGED session
      /\ metaDataTable' = fs.table /\ ~LostDirectory(fs)
  BY DEF IInv, Becomes
<1>2. /\ DOMAIN metaDataTable' = DOMAIN metaDataTable /\ Slots' \subseteq Slots
      /\ \A i \in Slots' : metaDataTable'[i] = metaDataTable[i]
  BY <1>1, RemovalIs
<1>3. \A i \in Slots' : IsDir(i) => IsDir(i)'
  BY <1>2 DEF IsDir
<1>4. \A j \in Slots' : \A u, id : Home(j, u, id) => Home(j, u, id)'
  BY <1>2, <1>3 DEF Home
<1>5. ASSUME NEW j \in Slots, IsDir(j), j \notin Slots'
      PROVE  /\ \A t \in Terminals : session[t].cwd # metaDataTable[j].dirID
             /\ \A i \in Slots' : metaDataTable'[i].parent # metaDataTable[j].dirID
  <2>1. j \in DOMAIN metaDataTable' /\ ~Taken(fs.table[j]) /\ metaDataTable[j].kind = "D"
    BY <1>1, <1>2, <1>5 DEF Slots, IsDir
  <2>2. \A i \in Slots' : i \in DOMAIN fs.table
    BY <1>1 DEF Slots
  <2> QED BY <1>1, <2>1, <2>2 DEF LostDirectory
<1>6. DirsBelow'
  <2>1. ASSUME NEW i \in Slots', metaDataTable'[i].kind = "D"
        PROVE  /\ metaDataTable'[i].dirID >= 1
               /\ metaDataTable'[i].dir = metaDataTable'[i].parent
               /\ \/ metaDataTable'[i].parent \in {0, Nowhere}
                  \/ \E j \in Slots' : /\ j < i
                                       /\ Home(j, metaDataTable[i].owner, metaDataTable[i].parent)'
    <3>1. /\ metaDataTable[i].dirID >= 1 /\ metaDataTable[i].dir = metaDataTable[i].parent
          /\ \/ metaDataTable[i].parent \in {0, Nowhere}
             \/ \E j \in Slots : /\ j < i
                                 /\ Home(j, metaDataTable[i].owner, metaDataTable[i].parent)
      BY <1>1, <1>2, <2>1 DEF Forest, DirsBelow
    <3>2. ASSUME NEW j \in Slots, Home(j, metaDataTable[i].owner, metaDataTable[i].parent)
          PROVE  j \in Slots' /\ Home(j, metaDataTable[i].owner, metaDataTable[i].parent)'
      <4>1. j \in Slots'
        BY <1>2, <1>5, <3>2 DEF Home
      <4> QED BY <1>2, <1>4, <3>2, <4>1 DEF Home, IsDir
    <3> QED BY <1>2, <3>1, <3>2
  <2> QED BY <2>1 DEF DirsBelow
<1>7. FilesBelow'
  <2>1. ASSUME NEW i \in Slots', metaDataTable'[i].kind = "F"
        PROVE  /\ metaDataTable'[i].dirID = metaDataTable'[i].parent
               /\ \/ metaDataTable'[i].parent = 0
                  \/ \E j \in Slots' : /\ j < i /\ IsDir(j)'
                                       /\ metaDataTable'[j].dirID = metaDataTable'[i].parent
    <3>1. /\ metaDataTable[i].dirID = metaDataTable[i].parent
          /\ \/ metaDataTable[i].parent = 0
             \/ \E j \in Slots : j < i /\ IsDir(j) /\ metaDataTable[j].dirID = metaDataTable[i].parent
      BY <1>1, <1>2, <2>1 DEF Forest, FilesBelow
    <3>2. ASSUME NEW j \in Slots, IsDir(j), metaDataTable[j].dirID = metaDataTable[i].parent
          PROVE  j \in Slots' /\ IsDir(j)' /\ metaDataTable'[j].dirID = metaDataTable'[i].parent
      <4>1. j \in Slots'
        BY <1>2, <1>5, <3>2
      <4> QED BY <1>2, <1>3, <3>2, <4>1
    <3> QED BY <1>2, <3>1, <3>2
  <2> QED BY <2>1 DEF FilesBelow
<1>8. OneNumber'
  BY <1>1, <1>2 DEF Forest, OneNumber, IsDir
<1>9. SessionsAtHome'
  <2>1. ASSUME NEW t \in Terminals PROVE AtHome(session[t].user, session[t].cwd)'
    <3>1. CASE session[t].cwd = 0
      BY <1>1, <3>1 DEF AtHome
    <3>2. CASE session[t].cwd # 0
      <4>1. PICK j \in Slots : Home(j, session[t].user, session[t].cwd)
        BY <1>1, <3>2 DEF Forest, SessionsAtHome, AtHome
      <4>2. j \in Slots'
        BY <1>5, <4>1 DEF Home
      <4>3. Home(j, session[t].user, session[t].cwd)'
        BY <1>1, <1>2, <1>3, <4>1, <4>2 DEF Home
      <4> QED BY <4>2, <4>3 DEF AtHome
    <3> QED BY <3>1, <3>2
  <2> QED BY <2>1 DEF SessionsAtHome
<1> QED BY <1>6, <1>7, <1>8, <1>9 DEF Forest

\* rm, rmdir and rm -r.
LEMMA RemoveStep ==
  ASSUME IInv, Decided, NEW t \in Terminals, NEW path \in Paths, NEW name \in Names,
         RemoveFile(t, path, name) \/ RemoveDirectory(t, path, name) \/ RemoveTree(t, path, name)
  PROVE  IInv' /\ (clean => Untouched(session[t].user))
<1> DEFINE user == session[t].user
           cur == extractPath(session[t], path)
<1>1. path \in Seq(Names \union {Up}) /\ TypeOK
  BY MetadataAssumption DEF IInv
<1>2. user \in Users /\ cur \in Int /\ State \in Stores /\ name \in Names \union {Cut}
  BY <1>1, SessionPath, StateStore
<1>3. PICK fs \in Prunings(State, user) : Becomes(fs)
  <2>1. CASE RemoveFile(t, path, name)
    BY <1>2, <2>1, RemovesFile DEF RemoveFile
  <2>2. CASE RemoveDirectory(t, path, name)
    BY <1>2, <2>2, RemovesDir DEF RemoveDirectory
  <2>3. CASE RemoveTree(t, path, name)
    BY <1>2, <2>3, DeletePrunes DEF RemoveTree
  <2> QED BY <2>1, <2>2, <2>3
<1>4. Base'
  BY <1>3, RemovalBase
<1>5. clean' /\ tidy' => Forest'
  BY <1>3, RemovalForest
<1>6. clean => Untouched(user)
  BY <1>3, RemovalUntouched
<1> QED BY <1>4, <1>5, <1>6 DEF IInv, Base

-----------------------------------------------------------------------------
(* Steps that change an entry.                                             *)

\* What another entry in one slot does to the table.
LEMMA ChangeIs ==
  ASSUME TypeOK, NEW slot \in Slots, NEW e \in Entry,
         metaDataTable' = [metaDataTable EXCEPT ![slot] = e]
  PROVE  /\ metaDataTable' \in Seq(Entry \union {Blank})
         /\ Slots' = Slots /\ DOMAIN metaDataTable' = DOMAIN metaDataTable
         /\ metaDataTable'[slot] = e
         /\ \A i \in DOMAIN metaDataTable : i # slot => metaDataTable'[i] = metaDataTable[i]
<1>1. metaDataTable \in Seq(Entry \union {Blank}) /\ slot \in DOMAIN metaDataTable
      /\ DOMAIN metaDataTable = 1..Len(metaDataTable) /\ Len(metaDataTable) \in Nat
  BY SlotIs, LenProperties DEF TypeOK
<1>2. metaDataTable' = [i \in 1..Len(metaDataTable) |-> IF i = slot THEN e ELSE metaDataTable[i]]
  BY <1>1
<1>3. \A i \in 1..Len(metaDataTable) : metaDataTable'[i] \in Entry \union {Blank}
  <2>1. \A i \in 1..Len(metaDataTable) : metaDataTable[i] \in Entry \union {Blank}
    BY <1>1, ElementOfSeq
  <2> QED BY <1>2, <2>1
<1>4. metaDataTable' \in Seq(Entry \union {Blank})
  BY <1>1, <1>2, <1>3, IsASeq
<1>5. /\ DOMAIN metaDataTable' = DOMAIN metaDataTable /\ metaDataTable'[slot] = e
      /\ \A i \in DOMAIN metaDataTable : i # slot => metaDataTable'[i] = metaDataTable[i]
  BY <1>1, <1>2
<1>6. Slots' = Slots
  <2>1. Taken(e) /\ Taken(metaDataTable[slot])
    BY EntryTaken, SlotIs
  <2> QED BY <1>1, <1>5, <2>1 DEF Slots
<1> QED BY <1>4, <1>5, <1>6

\* A file that keeps its place keeps the forest, whoever owns it.
LEMMA FileChanged ==
  ASSUME TypeOK, Forest, NEW slot \in Slots, NEW e \in Entry,
         metaDataTable' = [metaDataTable EXCEPT ![slot] = e], UNCHANGED session,
         metaDataTable[slot].kind = "F", e.kind = "F",
         e.parent = metaDataTable[slot].parent, e.dirID = metaDataTable[slot].dirID
  PROVE  Forest'
<1>1. /\ Slots' = Slots /\ metaDataTable'[slot] = e
      /\ \A i \in Slots : i # slot => metaDataTable'[i] = metaDataTable[i]
  BY ChangeIs DEF Slots
<1>2. \A i \in Slots : /\ IsDir(i) <=> IsDir(i)'
                       /\ IsDir(i) => metaDataTable'[i] = metaDataTable[i]
                       /\ metaDataTable'[i].kind = metaDataTable[i].kind
                       /\ metaDataTable'[i].parent = metaDataTable[i].parent
                       /\ metaDataTable'[i].dirID = metaDataTable[i].dirID
  BY <1>1 DEF IsDir
<1>3. \A j \in Slots : \A u, id : Home(j, u, id) => Home(j, u, id)'
  BY <1>1, <1>2 DEF Home
<1>4. DirsBelow'
  <2>1. ASSUME NEW i \in Slots, metaDataTable'[i].kind = "D"
        PROVE  /\ metaDataTable'[i].dirID >= 1
               /\ metaDataTable'[i].dir = metaDataTable'[i].parent
               /\ \/ metaDataTable'[i].parent \in {0, Nowhere}
                  \/ \E j \in Slots : /\ j < i
                                      /\ Home(j, metaDataTable[i].owner, metaDataTable[i].parent)'
    <3>1. metaDataTable[i].kind = "D" /\ metaDataTable'[i] = metaDataTable[i]
      BY <1>2, <2>1 DEF IsDir
    <3>2. /\ metaDataTable[i].dirID >= 1 /\ metaDataTable[i].dir = metaDataTable[i].parent
          /\ \/ metaDataTable[i].parent \in {0, Nowhere}
             \/ \E j \in Slots : j < i /\ Home(j, metaDataTable[i].owner, metaDataTable[i].parent)
      BY <3>1 DEF Forest, DirsBelow
    <3>3. ASSUME NEW j \in Slots, Home(j, metaDataTable[i].owner, metaDataTable[i].parent)
          PROVE  Home(j, metaDataTable[i].owner, metaDataTable[i].parent)'
      BY <1>1, <1>2, <3>1, <3>3 DEF Home
    <3> QED BY <3>1, <3>2, <3>3
  <2> QED BY <1>1, <2>1 DEF DirsBelow
<1>5. FilesBelow'
  BY <1>1, <1>2 DEF Forest, FilesBelow
<1>6. OneNumber'
  BY <1>1, <1>2 DEF Forest, OneNumber
<1>7. SessionsAtHome'
  BY <1>1, <1>3, StayAtHome DEF Forest
<1> QED BY <1>4, <1>5, <1>6, <1>7 DEF Forest

\* The file a command finds is the user's own.
LEMMA HereIs ==
  ASSUME IInv, Decided, NEW t \in Terminals, NEW name \in Names, Found(t, name)
  PROVE  LET slot == Here(t, name)
             key == Key(session[t].user, session[t].cwd, "F", name)
         IN /\ slot \in Slots /\ <<key, slot>> \in index /\ metaDataTable[slot] \in Entry
            /\ clean => /\ KeyOf(metaDataTable[slot]) = key
                        /\ metaDataTable[slot].owner = session[t].user
                        /\ metaDataTable[slot].uid = session[t].user
                        /\ metaDataTable[slot].kind = "F"
<1> DEFINE slot == Here(t, name)
           key == Key(session[t].user, session[t].cwd, "F", name)
<1>1. session[t].user \in Users /\ session[t].cwd \in Int /\ TypeOK /\ slot = Find(key)
      /\ slot # Nowhere /\ Taken(metaDataTable[slot])
  BY DEF IInv, TypeOK, Found, Here
<1>2. key \in Keys /\ key.uid = session[t].user /\ key.kind = "F"
  BY <1>1, KeyType
<1> HIDE DEF key, slot
<1>3. slot \in Slots /\ <<key, slot>> \in index /\ metaDataTable[slot] \in Entry
  BY <1>1, FoundIs, SlotIs DEF Slots
<1>4. ASSUME clean
      PROVE  /\ KeyOf(metaDataTable[slot]) = key /\ metaDataTable[slot].owner = session[t].user
             /\ metaDataTable[slot].uid = session[t].user /\ metaDataTable[slot].kind = "F"
  <2>1. KeyOf(metaDataTable[slot]) = key /\ KeyedByOwner
    BY <1>1, <1>4, FoundIs DEF IInv
  <2> QED BY <1>2, <1>3, <2>1, KeyOfFields DEF KeyedByOwner
<1> QED BY <1>3, <1>4 DEF key, slot

\* The entry with another key and owner.
LEMMA RenamedIs ==
  ASSUME NEW e \in Entry, NEW key \in Keys, NEW owner \in Users
  PROVE  LET r == Renamed(e, key, owner)
         IN /\ r \in Entry /\ KeyOf(r) = key
            /\ r.uid = key.uid /\ r.kind = key.kind /\ r.owner = owner
            /\ r.parent = e.parent /\ r.dirID = e.dirID
<1>1. key = [uid |-> key.uid, dir |-> key.dir, kind |-> key.kind, name |-> key.name]
  BY DEF Keys
<1>2. Renamed(e, key, owner) \in Entry
  BY DEF Renamed, Entry, Keys
<1> QED BY <1>1, <1>2 DEF Renamed, KeyOf, Key

\* The entry behind one name is given another name, and an owner.
LEMMA MovedBase ==
  ASSUME IInv, Decided, NEW slot \in Slots, NEW old, NEW key \in Keys, NEW e \in Entry,
         metaDataTable' = [metaDataTable EXCEPT ![slot] = e],
         index' = Without(index, old) \union {<<key, slot>>},
         <<old, slot>> \in index, clean' \in BOOLEAN,
         clean' => /\ clean /\ KeyOf(e) = key /\ e.uid = e.owner
                   /\ FindIn(Without(index, old), key) = Nowhere,
         UNCHANGED <<availableDirEntry, session, image, boots, tidy>>
  PROVE  Base'
<1>0. TypeOK
  BY DEF IInv
<1>1. /\ metaDataTable' \in Seq(Entry \union {Blank})
      /\ Slots' = Slots /\ metaDataTable'[slot] = e
      /\ \A i \in Slots : i # slot => metaDataTable'[i] = metaDataTable[i]
  BY <1>0, ChangeIs DEF Slots
<1>2. TypeOK'
  <2>1. index' \subseteq Keys \X (Nat \ {0})
    <3>1. slot \in Slot
      BY <1>0, SlotIs
    <3> QED BY <1>0, <3>1 DEF TypeOK, Without, Slot
  <2> QED BY <1>0, <1>1, <2>1 DEF TypeOK
<1>3. ASSUME clean' PROVE index' = {<<KeyOf(metaDataTable'[i]), i>> : i \in Slots'}
  <2>1. index = {<<KeyOf(metaDataTable[i]), i>> : i \in Slots} /\ KeyOf(e) = key
    BY <1>3 DEF IInv, IndexExact
  <2>2. Without(index, old) = index \ {<<old, slot>>}
    <3>1. \A p \in index : p[1] = old <=> p = <<old, slot>>
      BY DEF Decided
    <3> QED BY <3>1 DEF Without
  <2>3. Without(index, old) = {<<KeyOf(metaDataTable[i]), i>> : i \in Slots \ {slot}}
    <3>1. <<old, slot>> = <<KeyOf(metaDataTable[slot]), slot>>
      BY <2>1
    <3> QED BY <2>1, <2>2, <3>1
  <2>4. Without(index, old) = {<<KeyOf(metaDataTable'[i]), i>> : i \in Slots \ {slot}}
    BY <1>1, <2>3
  <2> QED BY <1>1, <2>1, <2>4
<1>4. ASSUME clean' PROVE KeyedByOwner'
  BY <1>1, <1>4 DEF IInv, KeyedByOwner
<1>5. ASSUME clean' PROVE OneEach'
  <2>1. Without(index, old) \in SUBSET (Keys \X Slot)
    BY <1>0 DEF TypeOK, Without, Slot
  <2>2. \A p \in Without(index, old) : p[1] # key
    BY <1>5, <2>1, FindInPair
  <2>3. \A p, q \in Without(index, old) : p[1] = q[1] => p = q
    BY <1>5 DEF IInv, OneEach, Without
  <2> QED BY <2>2, <2>3 DEF OneEach
<1> QED BY <1>2, <1>3, <1>4, <1>5 DEF Base, IndexExact

\* It is an entry of one user that moves.
LEMMA MovedUntouched ==
  ASSUME IInv, Decided, clean, NEW slot \in Slots, NEW old, NEW key, NEW user,
         metaDataTable[slot].owner = user, <<old, slot>> \in index,
         Without(index, old) \subseteq index',
         \A i \in Slots : i # slot => metaDataTable'[i] = metaDataTable[i]
  PROVE  Untouched(user)
<1>1. ASSUME NEW i \in Slots, metaDataTable[i].owner # user, NEW p \in index, p[2] = i
      PROVE  p \in index'
  <2>1. p[1] # old
    BY <1>1 DEF Decided
  <2> QED BY <2>1 DEF Without
<1> QED BY <1>1 DEF Untouched

\* rename (multithreading.cpp).
LEMMA RenameStep ==
  ASSUME IInv, Decided, NEW t \in Terminals, NEW name \in Names, NEW newName \in Names,
         renameFiles(t, name, newName)
  PROVE  IInv' /\ (clean => Untouched(session[t].user))
<1> DEFINE user == session[t].user
           slot == Here(t, name)
           old == Key(user, session[t].cwd, "F", name)
           key == Key(user, session[t].cwd, "F", newName)
           valid == newName \notin BadNames \union LongNames
           e == Renamed(metaDataTable[slot], key, metaDataTable[slot].owner)
<1>1. user \in Users /\ session[t].cwd \in Int /\ TypeOK
  BY DEF IInv, TypeOK
<1>2. key \in Keys /\ key.uid = user /\ key.kind = "F"
  BY <1>1, KeyType
<1>3. /\ slot \in Slots /\ <<old, slot>> \in index /\ metaDataTable[slot] \in Entry
      /\ clean => /\ metaDataTable[slot].owner = user /\ metaDataTable[slot].kind = "F"
  BY HereIs DEF renameFiles
<1>4. /\ metaDataTable' = IF valid THEN [metaDataTable EXCEPT ![slot] = e] ELSE metaDataTable
      /\ index' = Without(index, old) \union {<<key, slot>>}
      /\ clean' \in BOOLEAN /\ (clean' => clean /\ valid /\ FindIn(Without(index, old), key) = Nowhere)
      /\ UNCHANGED <<availableDirEntry, session, image, boots, tidy>>
  BY DEF renameFiles
<1> HIDE DEF key, old, slot, valid
<1>5. e \in Entry /\ KeyOf(e) = key /\ e.uid = user /\ e.kind = "F"
      /\ e.owner = metaDataTable[slot].owner
      /\ e.parent = metaDataTable[slot].parent /\ e.dirID = metaDataTable[slot].dirID
  <2>1. metaDataTable[slot].owner \in Users
    BY <1>3, EntryTaken
  <2> QED BY <1>2, <1>3, <2>1, RenamedIs
<1> HIDE DEF e
<1>6. CASE valid
  <2>1. metaDataTable' = [metaDataTable EXCEPT ![slot] = e]
    BY <1>4, <1>6
  <2>2. Base'
    BY <1>2, <1>3, <1>4, <1>5, <2>1, MovedBase
  <2>3. ASSUME clean', tidy' PROVE Forest'
    <3>1. clean /\ tidy /\ Forest
      BY <1>4, <2>3 DEF IInv
    <3> QED BY <1>1, <1>3, <1>4, <1>5, <2>1, <3>1, FileChanged
  <2>4. ASSUME clean PROVE Untouched(user)
    <3>1. \A i \in Slots : i # slot => metaDataTable'[i] = metaDataTable[i]
      BY <1>1, <1>3, <1>5, <2>1, ChangeIs DEF Slots
    <3> QED BY <1>3, <1>4, <2>4, <3>1, MovedUntouched
  <2> QED BY <2>2, <2>3, <2>4 DEF IInv, Base
<1>7. CASE ~valid
  <2>1. metaDataTable' = metaDataTable /\ ~clean' /\ Slots' = Slots
    BY <1>4, <1>7 DEF Slots
  <2>2. index' \subseteq Keys \X (Nat \ {0})
    <3>1. slot \in Slot
      BY <1>1, <1>3, SlotIs
    <3> QED BY <1>1, <1>2, <1>4, <3>1 DEF TypeOK, Without, Slot
  <2>3. TypeOK'
    BY <1>1, <1>4, <2>1, <2>2 DEF TypeOK
  <2>4. ASSUME clean PROVE Untouched(user)
    BY <1>3, <1>4, <2>1, <2>4, MovedUntouched
  <2> QED BY <2>1, <2>3, <2>4 DEF IInv, IndexExact
<1> QED BY <1>6, <1>7

\* chmod (cliFunctions.cpp).
LEMMA ChmodStep ==
  ASSUME IInv, Decided, NEW t \in Terminals, NEW name \in Names, NEW write \in Modes,
         chmodFileM(t, name, write)
  PROVE  IInv' /\ (clean => Untouched(session[t].user))
<1> DEFINE slot == Here(t, name)
           e == [metaDataTable[slot] EXCEPT !.write = write]
<1>1. TypeOK /\ write \subseteq Classes
  BY MetadataAssumption DEF IInv, Classes
<1>2. /\ slot \in Slots /\ metaDataTable[slot] \in Entry
      /\ clean => metaDataTable[slot].owner = session[t].user
  BY HereIs DEF chmodFileM
<1>3. /\ metaDataTable' = [metaDataTable EXCEPT ![slot].write = write]
      /\ metaDataTable[slot].kind = "F"
      /\ UNCHANGED <<index, availableDirEntry, session, image, boots, clean, tidy>>
  BY DEF chmodFileM
<1> HIDE DEF slot
<1>4. e \in Entry /\ KeyOf(e) = KeyOf(metaDataTable[slot]) /\ e.uid = metaDataTable[slot].uid
      /\ e.owner = metaDataTable[slot].owner /\ e.kind = "F"
      /\ e.parent = metaDataTable[slot].parent /\ e.dirID = metaDataTable[slot].dirID
  BY <1>1, <1>2, <1>3 DEF Entry, KeyOf, Key
<1>5. metaDataTable' = [metaDataTable EXCEPT ![slot] = e]
  BY <1>3
<1> HIDE DEF e
<1>6. /\ metaDataTable' \in Seq(Entry \union {Blank})
      /\ Slots' = Slots /\ metaDataTable'[slot] = e
      /\ \A i \in Slots : i # slot => metaDataTable'[i] = metaDataTable[i]
  BY <1>1, <1>2, <1>4, <1>5, ChangeIs DEF Slots
<1>7. \A i \in Slots : /\ KeyOf(metaDataTable'[i]) = KeyOf(metaDataTable[i])
                       /\ metaDataTable'[i].uid = metaDataTable[i].uid
                       /\ metaDataTable'[i].owner = metaDataTable[i].owner
  BY <1>4, <1>6
<1>8. TypeOK'
  BY <1>1, <1>3, <1>6 DEF TypeOK
<1>9. ASSUME clean'
      PROVE  /\ index' = {<<KeyOf(metaDataTable'[i]), i>> : i \in Slots'}
             /\ KeyedByOwner' /\ OneEach'
  <2>1. index = {<<KeyOf(metaDataTable[i]), i>> : i \in Slots} /\ KeyedByOwner
    BY <1>3, <1>9 DEF IInv, IndexExact
  <2>2. index' = {<<KeyOf(metaDataTable'[i]), i>> : i \in Slots'}
    BY <1>3, <1>6, <1>7, <2>1
  <2>3. KeyedByOwner'
    BY <1>6, <1>7, <2>1 DEF KeyedByOwner
  <2>4. OneEach'
    BY <1>3, <1>9 DEF IInv, OneEach
  <2> QED BY <2>2, <2>3, <2>4
<1>10. ASSUME clean', tidy' PROVE Forest'
  <2>1. Forest
    BY <1>3, <1>10 DEF IInv
  <2> QED BY <1>1, <1>2, <1>3, <1>4, <1>5, <2>1, FileChanged
<1>11. ASSUME clean PROVE Untouched(session[t].user)
  BY <1>2, <1>3, <1>6, <1>11 DEF Untouched
<1> QED BY <1>8, <1>9, <1>10, <1>11 DEF IInv, IndexExact

\* chown (cliFunctions.cpp).
LEMMA ChownStep ==
  ASSUME IInv, Decided, NEW t \in Terminals, NEW name \in Names, NEW owner \in Users,
         chownM(t, name, owner)
  PROVE  IInv' /\ (clean => Untouched(session[t].user))
<1> DEFINE user == session[t].user
           slot == Here(t, name)
           old == Key(user, session[t].cwd, "F", name)
           key == Key(owner, 0, "F", name)
           e == Renamed(metaDataTable[slot], Fitted(key), owner)
<1>1. user \in Users /\ session[t].cwd \in Int /\ TypeOK
  BY DEF IInv, TypeOK
<1>2. key \in Keys /\ key.uid = owner /\ key.kind = "F"
      /\ Fitted(key) \in Keys /\ Fitted(key).uid = owner /\ Fitted(key).kind = "F"
  <2>1. key \in Keys /\ key.uid = owner /\ key.kind = "F"
    BY KeyType
  <2> HIDE DEF key
  <2> QED BY <2>1, FittedType
<1>3. /\ slot \in Slots /\ <<old, slot>> \in index /\ metaDataTable[slot] \in Entry
      /\ clean => metaDataTable[slot].owner = user
      /\ metaDataTable[slot].kind = "F"
  BY HereIs DEF chownM
<1>4. /\ metaDataTable' = [metaDataTable EXCEPT ![slot] = e]
      /\ index' = Without(index, old) \union {<<key, slot>>}
      /\ clean' \in BOOLEAN /\ (clean' => /\ clean /\ Fitted(key) = key
                                           /\ FindIn(Without(index, old), key) = Nowhere)
      /\ UNCHANGED <<availableDirEntry, session, image, boots, tidy>>
  BY DEF chownM
<1> HIDE DEF key, old, slot
<1>5. e \in Entry /\ KeyOf(e) = Fitted(key) /\ e.uid = owner /\ e.owner = owner /\ e.kind = "F"
      /\ e.parent = metaDataTable[slot].parent /\ e.dirID = metaDataTable[slot].dirID
  BY <1>2, <1>3, RenamedIs
<1> HIDE DEF e
<1>6. Base'
  <2>1. clean' => /\ clean /\ KeyOf(e) = key /\ e.uid = e.owner
                  /\ FindIn(Without(index, old), key) = Nowhere
    BY <1>4, <1>5
  <2> QED BY <1>2, <1>3, <1>4, <1>5, <2>1, MovedBase
<1>7. ASSUME clean', tidy' PROVE Forest'
  <2>1. Forest
    BY <1>4, <1>7 DEF IInv
  <2> QED BY <1>1, <1>3, <1>4, <1>5, <2>1, FileChanged
<1>8. ASSUME clean PROVE Untouched(user)
  <2>1. \A i \in Slots : i # slot => metaDataTable'[i] = metaDataTable[i]
    BY <1>1, <1>3, <1>4, <1>5, ChangeIs DEF Slots
  <2> QED BY <1>3, <1>4, <1>8, <2>1, MovedUntouched
<1> QED BY <1>6, <1>7, <1>8 DEF IInv, Base

-----------------------------------------------------------------------------
(* Steps of the session.                                                   *)

\* Sessions that stay at home, where nothing else changes.
LEMMA MovesHome ==
  ASSUME IInv, UNCHANGED <<metaDataTable, index, availableDirEntry, image, boots, clean, tidy>>,
         session' \in [Terminals -> Sessions],
         clean /\ tidy => \A t \in Terminals : AtHome(session'[t].user, session'[t].cwd)
  PROVE  IInv' /\ \A user : Untouched(user)
<1>1. TypeOK'
  BY DEF IInv, TypeOK, Sessions
<1>2. Slots' = Slots
  BY DEF Slots
<1>3. IndexExact' /\ (clean' => KeyedByOwner' /\ OneEach')
  BY <1>2 DEF IInv, IndexExact, KeyedByOwner, OneEach
<1>4. ASSUME clean', tidy' PROVE Forest'
  <2>1. Forest /\ clean /\ tidy
    BY <1>4 DEF IInv
  <2>2. DirsBelow' /\ FilesBelow' /\ OneNumber'
    BY <1>2, <2>1 DEF Forest, DirsBelow, FilesBelow, OneNumber, Home, IsDir
  <2>3. SessionsAtHome'
    BY <1>2, <2>1 DEF SessionsAtHome, AtHome, Home, IsDir
  <2> QED BY <2>2, <2>3 DEF Forest
<1>5. \A user : Untouched(user)
  BY DEF Untouched
<1> QED BY <1>1, <1>3, <1>4, <1>5 DEF IInv

\* cd (directory.cpp).
LEMMA ChangeDirectoryStep ==
  ASSUME IInv, Decided, NEW t \in Terminals, NEW path \in Paths, NEW name \in Names \union {Up},
         changeDirectory(t, Append(path, name))
  PROVE  IInv' /\ Untouched(session[t].user)
<1> DEFINE to == Append(path, name)
           cur == extractPath(session[t], to)
<1>1. to \in Seq(Names \union {Up})
  <2>1. path \in Seq(Names \union {Up})
    BY MetadataAssumption
  <2> QED BY <2>1, AppendProperties
<1> HIDE DEF to
<1>2. /\ session[t].user \in Users /\ cur \in Int
      /\ clean /\ tidy => cur = Nowhere \/ AtHome(session[t].user, cur)
  BY <1>1, SessionPath
<1>3. /\ cur # Nowhere /\ session' = [session EXCEPT ![t].cwd = cur]
      /\ UNCHANGED <<metaDataTable, index, availableDirEntry, image, boots, clean, tidy>>
  BY DEF changeDirectory, to
<1> HIDE DEF cur
<1>4. session \in [Terminals -> Sessions]
  BY DEF IInv, TypeOK, Sessions
<1>5. session' \in [Terminals -> Sessions]
  BY <1>2, <1>3, <1>4 DEF Sessions
<1>6. ASSUME clean, tidy, NEW u \in Terminals
      PROVE  AtHome(session'[u].user, session'[u].cwd)
  <2>1. CASE u = t
    <3>1. session'[u].user = session[t].user /\ session'[u].cwd = cur
      BY <1>3, <1>4, <2>1 DEF Sessions
    <3> QED BY <1>2, <1>3, <1>6, <3>1
  <2>2. CASE u # t
    <3>1. session'[u] = session[u] /\ AtHome(session[u].user, session[u].cwd)
      BY <1>3, <1>4, <1>6, <2>2 DEF IInv, Forest, SessionsAtHome
    <3> QED BY <3>1
  <2> QED BY <2>1, <2>2
<1> QED BY <1>3, <1>5, <1>6, MovesHome

\* login (cliFunctions.cpp).
LEMMA LoginStep ==
  ASSUME IInv, NEW t \in Terminals, NEW user \in Users, loginM(t, user)
  PROVE  IInv' /\ Untouched(session[t].user)
<1>1. /\ session' = [session EXCEPT ![t] = [user |-> user, cwd |-> 0]]
      /\ UNCHANGED <<metaDataTable, index, availableDirEntry, image, boots, clean, tidy>>
  BY DEF loginM
<1>2. session \in [Terminals -> Sessions]
  BY DEF IInv, TypeOK, Sessions
<1>3. session' \in [Terminals -> Sessions]
  BY <1>1, <1>2 DEF Sessions
<1>4. ASSUME clean, tidy, NEW u \in Terminals
      PROVE  AtHome(session'[u].user, session'[u].cwd)
  <2>1. AtHome(session[u].user, session[u].cwd) /\ AtHome(user, 0)
    BY <1>4 DEF IInv, Forest, SessionsAtHome, AtHome
  <2> QED BY <1>1, <1>2, <2>1
<1> QED BY <1>1, <1>3, <1>4, MovesHome

-----------------------------------------------------------------------------
(* Saving and loading the table.                                           *)

\* The blocks that are written have room for every entry.
LEMMA RoomForAll ==
  ASSUME NEW n \in Nat
  PROVE  PerBlock * Blocks(n) \in Nat /\ n <= PerBlock * Blocks(n)
<1>1. PerBlock \in Nat /\ PerBlock > 0
  BY MetadataAssumption
<1> DEFINE a == n + PerBlock - 1
           q == a \div PerBlock
<1>2. a \in Nat
  BY <1>1
<1> HIDE DEF a
<1>3. q \in Nat /\ q * PerBlock <= a /\ a < q * PerBlock + PerBlock
  BY <1>1, <1>2
<1> HIDE DEF q
<1>4. PerBlock * Blocks(n) = q * PerBlock /\ q * PerBlock \in Nat
  BY <1>1, <1>3 DEF Blocks, q, a
<1> QED BY <1>1, <1>3, <1>4 DEF a

\* What is written begins with the table, and has nothing but empty slots
\* behind it unless the disk held more.
LEMMA SavedIs ==
  ASSUME TypeOK
  PROVE  LET table == saveDirectoryTableEntire
         IN /\ table \in Seq(Entry \union {Blank}) /\ Len(metaDataTable) <= Len(table)
            /\ \A i \in 1..Len(metaDataTable) : table[i] = metaDataTable[i]
            /\ Len(image) <= PerBlock * Blocks(Len(metaDataTable)) =>
                 \A i \in 1..Len(table) : i > Len(metaDataTable) => table[i] = Blank
<1> DEFINE n == Len(metaDataTable)
           written == PerBlock * Blocks(n)
           m == IF Len(image) > written THEN Len(image) ELSE written
           At(i) == IF i \in DOMAIN metaDataTable THEN metaDataTable[i]
                    ELSE IF i <= written THEN Blank ELSE image[i]
<1>1. /\ n \in Nat /\ DOMAIN metaDataTable = 1..n
      /\ \A i \in 1..n : metaDataTable[i] \in Entry \union {Blank}
      /\ Len(image) \in Nat /\ \A i \in 1..Len(image) : image[i] \in Entry \union {Blank}
  BY LenProperties, ElementOfSeq DEF TypeOK
<1>2. saveDirectoryTableEntire = [i \in 1..m |-> At(i)]
  BY DEF saveDirectoryTableEntire
<1> HIDE DEF n
<1>3. written \in Nat /\ n <= written
  BY <1>1, RoomForAll
<1> HIDE DEF written
<1>4. m \in Nat /\ n <= m /\ written <= m /\ (m > written => m = Len(image))
      /\ (Len(image) <= written => m = written)
  BY <1>1, <1>3
<1> HIDE DEF m
<1>5. \A i \in 1..m : At(i) \in Entry \union {Blank}
  BY <1>1, <1>3, <1>4
<1>6. \A i \in 1..m : /\ i <= n => At(i) = metaDataTable[i]
                      /\ i > n /\ Len(image) <= written => At(i) = Blank
  BY <1>1, <1>3, <1>4
<1> HIDE DEF At
<1>7. saveDirectoryTableEntire \in Seq(Entry \union {Blank})
  BY <1>2, <1>4, <1>5, IsASeq
<1>8. Len(saveDirectoryTableEntire) = m
      /\ \A i \in 1..m : saveDirectoryTableEntire[i] = At(i)
  BY <1>2, <1>4, <1>7, LenProperties
<1> QED BY <1>1, <1>4, <1>6, <1>7, <1>8 DEF n, written

\* The entries of a table that are kept, up to slot i.
KeptUpTo(f, table) ==
  f = [i \in 0..Len(table) |->
        IF i = 0 THEN << >>
        ELSE IF Taken(table[i]) THEN Append(f[i - 1], table[i]) ELSE f[i - 1]]

\* Dropping the empty slots as the recursion over the slots.
LEMMA PackedUnfold ==
  ASSUME NEW table, \E f : KeptUpTo(f, table)
  PROVE  \E f : KeptUpTo(f, table) /\ Packed(table) = f[Len(table)]
BY DEF Packed, KeptUpTo

\* The sequence grows by every entry that is taken.
LEMMA PackedBy ==
  ASSUME NEW table \in Seq(Entry \union {Blank})
  PROVE  \E f : /\ Packed(table) = f[Len(table)] /\ f[0] = << >>
                /\ \A i \in 0..Len(table) : f[i] \in Seq(Entry)
                /\ \A i \in 1..Len(table) :
                     f[i] = IF Taken(table[i]) THEN Append(f[i - 1], table[i]) ELSE f[i - 1]
<1> DEFINE n == Len(table)
           T == Seq(Entry)
           Next1(k, i) == IF Taken(table[i]) THEN Append(k, table[i]) ELSE k
           G == [p \in T \X (1..n) |-> Next1(p[1], p[2])]
<1>1. n \in Nat /\ \A i \in 1..n : table[i] \in Entry \union {Blank}
  BY LenProperties, ElementOfSeq
<1>2. \A k \in T, i \in 1..n : Next1(k, i) \in T
  <2>1. \A i \in 1..n : Taken(table[i]) => table[i] \in Entry
    BY <1>1, TakenEntry
  <2> QED BY <2>1, AppendProperties
<1>3. << >> \in T
  BY EmptySeq
<1>4. G \in [T \X (1..n) -> T] /\ \A k \in T, i \in 1..n : G[<<k, i>>] = Next1(k, i)
  BY <1>2
<1> HIDE DEF n, T, G
<1>5. PICK g : Iterated(g, << >>, G, n, T)
  BY <1>1, <1>3, <1>4, Iterates DEF StepIn
<1>6. \A i \in 1..n : i - 1 \in 0..n /\ g[i - 1] \in T /\ g[i] = Next1(g[i - 1], i)
  <2> TAKE i \in 1..n
  <2>1. i - 1 \in 0..n /\ g[i - 1] \in T
    BY <1>1, <1>5 DEF Iterated
  <2> QED BY <2>1, <1>4, <1>5 DEF Iterated
<1>7. \E f : KeptUpTo(f, table)
  <2>1. g = [i \in 0..n |-> IF i = 0 THEN << >> ELSE Next1(g[i - 1], i)]
    <3> HIDE DEF Next1
    <3> QED BY <1>1, <1>5, <1>6 DEF Iterated
  <2> QED BY <2>1 DEF KeptUpTo, n
<1>8. PICK f : KeptUpTo(f, table) /\ Packed(table) = f[n]
  BY <1>7, PackedUnfold DEF n
<1>9. f[0] = << >> /\ \A i \in 1..n : f[i] = Next1(f[i - 1], i)
  <2>1. 0 \in 0..n /\ \A i \in 1..n : i \in 0..n /\ i # 0
    BY <1>1
  <2>2. f = [i \in 0..n |-> IF i = 0 THEN << >> ELSE Next1(f[i - 1], i)]
    BY <1>8 DEF KeptUpTo, n
  <2> HIDE DEF Next1
  <2> QED BY <2>1, <2>2
<1> HIDE DEF Next1
<1>10. \A i \in 0..n : f[i] \in T
  <2> DEFINE P == {i \in Nat : i <= n => f[i] \in T}
  <2>1. 0 \in P
    BY <1>3, <1>9
  <2>2. ASSUME NEW i \in Nat, i \in P PROVE i + 1 \in P
    <3> SUFFICES ASSUME i + 1 <= n PROVE f[i + 1] \in T
      OBVIOUS
    <3>1. f[i] \in T /\ i + 1 \in 1..n /\ (i + 1) - 1 = i
      BY <1>1, <2>2
    <3> QED BY <3>1, <1>2, <1>9
  <2> HIDE DEF P
  <2>3. Nat \subseteq P
    BY <2>1, <2>2, NatInd
  <2> QED BY <1>1, <2>3 DEF P
<1> QED BY <1>8, <1>9, <1>10 DEF n, T, Next1

\* h leads from the slots of a table that are taken, up to n, to where the
\* sequence k of entries holds them, in the same order.
Leads(h, k, table, n) ==
  /\ \A i \in 1..n : Taken(table[i]) => h[i] \in 1..Len(k) /\ k[h[i]] = table[i]
  /\ \A i, j \in 1..n : Taken(table[i]) /\ Taken(table[j]) /\ i < j => h[i] < h[j]
  /\ \A m \in 1..Len(k) : \E i \in 1..n : Taken(table[i]) /\ h[i] = m

\* Dropping the empty slots keeps the entries, and their order.
LEMMA PackedIs ==
  ASSUME NEW table \in Seq(Entry \union {Blank})
  PROVE  Packed(table) \in Seq(Entry) /\ \E h : Leads(h, Packed(table), table, Len(table))
<1> DEFINE n == Len(table)
<1>1. n \in Nat
  BY LenProperties
<1>2. PICK f : /\ Packed(table) = f[n] /\ f[0] = << >>
               /\ \A i \in 0..n : f[i] \in Seq(Entry)
               /\ \A i \in 1..n :
                    f[i] = IF Taken(table[i]) THEN Append(f[i - 1], table[i]) ELSE f[i - 1]
  BY PackedBy
<1>a. \A i \in 1..n : table[i] \in Entry \union {Blank}
  BY ElementOfSeq
<1> DEFINE h == [i \in 1..n |-> Len(f[i])]
           P == {i \in Nat : i <= n => Leads(h, f[i], table, i)}
<1> HIDE DEF n
<1>3. \A i \in 1..n : h[i] = Len(f[i])
  OBVIOUS
<1> HIDE DEF h
<1>4. 0 \in P
  BY <1>2, EmptySeq DEF Leads
<1>5. ASSUME NEW i \in Nat, i \in P PROVE i + 1 \in P
  <2> SUFFICES ASSUME i + 1 <= n PROVE Leads(h, f[i + 1], table, i + 1)
    OBVIOUS
  <2>1. i + 1 \in 1..n /\ (i + 1) - 1 = i /\ i \in 0..n /\ Leads(h, f[i], table, i)
    BY <1>1, <1>5
  <2>2. f[i] \in Seq(Entry) /\ Len(f[i]) \in Nat
    BY <1>2, <2>1, LenProperties
  <2>3. CASE Taken(table[i + 1])
    <3>1. table[i + 1] \in Entry
      BY <1>a, <2>1, <2>3, TakenEntry
    <3>2. f[i + 1] = Append(f[i], table[i + 1])
      BY <1>2, <2>1, <2>3
    <3>3. /\ Len(f[i + 1]) = Len(f[i]) + 1
          /\ \A m \in 1..Len(f[i]) : f[i + 1][m] = f[i][m]
          /\ f[i + 1][Len(f[i]) + 1] = table[i + 1]
      BY <2>2, <3>1, <3>2, AppendProperties
    <3>4. h[i + 1] = Len(f[i]) + 1
      BY <1>3, <2>1, <3>3
    <3>5. \A j \in 1..i : Taken(table[j]) =>
            h[j] \in 1..Len(f[i]) /\ h[j] < h[i + 1] /\ f[i + 1][h[j]] = table[j]
      <4> TAKE j \in 1..i
      <4> HAVE Taken(table[j])
      <4>1. h[j] \in 1..Len(f[i]) /\ f[i][h[j]] = table[j]
        BY <2>1 DEF Leads
      <4>2. f[i + 1][h[j]] = f[i][h[j]]
        BY <3>3, <4>1
      <4>3. h[j] < h[i + 1]
        BY <2>2, <3>4, <4>1
      <4> QED BY <4>1, <4>2, <4>3
    <3>6. \A m \in 1..Len(f[i + 1]) : \E j \in 1..i + 1 : Taken(table[j]) /\ h[j] = m
      <4> TAKE m \in 1..Len(f[i + 1])
      <4>1. CASE m = Len(f[i]) + 1
        BY <2>1, <2>3, <3>4, <4>1
      <4>2. CASE m # Len(f[i]) + 1
        <5>1. m \in 1..Len(f[i])
          BY <2>2, <3>3, <4>2
        <5>2. PICK j \in 1..i : Taken(table[j]) /\ h[j] = m
          BY <2>1, <5>1 DEF Leads
        <5> QED BY <5>2
      <4> QED BY <4>1, <4>2
    <3>7. /\ \A j \in 1..i + 1 : Taken(table[j]) =>
                h[j] \in 1..Len(f[i + 1]) /\ f[i + 1][h[j]] = table[j]
          /\ \A j, l \in 1..i + 1 : Taken(table[j]) /\ Taken(table[l]) /\ j < l => h[j] < h[l]
      <4>1. \A j \in 1..i + 1 : j \in 1..i \/ j = i + 1
        OBVIOUS
      <4>2. \A j, l \in 1..i : Taken(table[j]) /\ Taken(table[l]) /\ j < l => h[j] < h[l]
        BY <2>1 DEF Leads
      <4> QED BY <2>2, <3>3, <3>4, <3>5, <4>1, <4>2
    <3> QED BY <3>6, <3>7 DEF Leads
  <2>4. CASE ~Taken(table[i + 1])
    <3>1. f[i + 1] = f[i]
      BY <1>2, <2>1, <2>4
    <3>2. \A j \in 1..i + 1 : Taken(table[j]) => j \in 1..i
      BY <2>4
    <3>3. 1..i \subseteq 1..i + 1
      OBVIOUS
    <3>4. \A j \in 1..i + 1 : Taken(table[j]) => h[j] \in 1..Len(f[i + 1]) /\ f[i + 1][h[j]] = table[j]
      BY <2>1, <3>1, <3>2 DEF Leads
    <3>5. \A j, l \in 1..i + 1 : Taken(table[j]) /\ Taken(table[l]) /\ j < l => h[j] < h[l]
      BY <2>1, <3>2 DEF Leads
    <3>6. \A m \in 1..Len(f[i + 1]) : \E j \in 1..i + 1 : Taken(table[j]) /\ h[j] = m
      BY <2>1, <3>1, <3>3 DEF Leads
    <3> QED BY <3>4, <3>5, <3>6 DEF Leads
  <2> QED BY <2>3, <2>4
<1> HIDE DEF P
<1>6. n \in P
  BY <1>1, <1>4, <1>5, NatInd
<1> QED BY <1>1, <1>2, <1>6 DEF P, n

\* Empty slots at the end make no difference.
LEMMA PackedPrefix ==
  ASSUME NEW table \in Seq(Entry \union {Blank}), NEW longer \in Seq(Entry \union {Blank}),
         Len(table) <= Len(longer), \A i \in 1..Len(table) : longer[i] = table[i],
         \A i \in 1..Len(longer) : i > Len(table) => longer[i] = Blank
  PROVE  Packed(longer) = Packed(table)
<1> DEFINE n == Len(table)
           m == Len(longer)
<1>1. n \in Nat /\ m \in Nat
  BY LenProperties
<1>2. PICK f : /\ Packed(table) = f[n] /\ f[0] = << >>
               /\ \A i \in 1..n :
                    f[i] = IF Taken(table[i]) THEN Append(f[i - 1], table[i]) ELSE f[i - 1]
  BY PackedBy
<1>3. PICK g : /\ Packed(longer) = g[m] /\ g[0] = << >>
               /\ \A i \in 1..m :
                    g[i] = IF Taken(longer[i]) THEN Append(g[i - 1], longer[i]) ELSE g[i - 1]
  BY PackedBy
<1> DEFINE P == {i \in Nat : i <= m => g[i] = f[IF i <= n THEN i ELSE n]}
<1>a. ~Taken(Blank)
  BY BlankFields
<1> HIDE DEF n, m
<1>4. 0 \in P
  BY <1>1, <1>2, <1>3
<1>5. ASSUME NEW i \in Nat, i \in P PROVE i + 1 \in P
  <2> SUFFICES ASSUME i + 1 <= m PROVE g[i + 1] = f[IF i + 1 <= n THEN i + 1 ELSE n]
    OBVIOUS
  <2>1. i + 1 \in 1..m /\ (i + 1) - 1 = i /\ g[i] = f[IF i <= n THEN i ELSE n]
    BY <1>1, <1>5
  <2>2. g[i + 1] = IF Taken(longer[i + 1]) THEN Append(g[i], longer[i + 1]) ELSE g[i]
    BY <1>3, <2>1
  <2>3. CASE i + 1 <= n
    <3>1. i + 1 \in 1..n /\ i <= n /\ longer[i + 1] = table[i + 1]
      BY <1>1, <2>3 DEF n
    <3>2. f[i + 1] = IF Taken(table[i + 1]) THEN Append(f[i], table[i + 1]) ELSE f[i]
      BY <1>2, <2>1, <3>1
    <3> QED BY <2>1, <2>2, <2>3, <3>1, <3>2
  <2>4. CASE ~(i + 1 <= n)
    <3>1. longer[i + 1] = Blank
      BY <1>1, <2>1, <2>4 DEF n, m
    <3>2. g[i + 1] = f[IF i <= n THEN i ELSE n]
      BY <1>a, <2>1, <2>2, <3>1
    <3>3. (IF i <= n THEN i ELSE n) = n
      BY <1>1, <2>4
    <3> QED BY <2>4, <3>2, <3>3
  <2> QED BY <2>3, <2>4
<1> HIDE DEF P
<1>6. m \in P
  BY <1>1, <1>4, <1>5, NatInd
<1>7. n <= m
  BY DEF n, m
<1> QED BY <1>1, <1>2, <1>3, <1>6, <1>7 DEF P

\* The last of some slots.
LEMMA Greatest ==
  ASSUME NEW n \in Nat, NEW I, I \subseteq 1..n, I # {}
  PROVE  Max(I) \in I
<1> DEFINE J == {n - i : i \in I}
<1>1. J \subseteq Nat /\ J # {}
  <2>1. \A i \in I : n - i \in Nat
    OBVIOUS
  <2> QED BY <2>1
<1>2. PICK j \in J : \A m \in J : j <= m
  BY <1>1, NatMin
<1>3. PICK i \in I : j = n - i
  BY <1>2
<1>4. \A m \in I : i >= m
  <2> TAKE m \in I
  <2>1. n - m \in J /\ m \in Nat /\ i \in Nat
    OBVIOUS
  <2> HIDE DEF J
  <2> QED BY <1>2, <1>3, <2>1
<1> QED BY <1>3, <1>4 DEF Max

\* The slot the load gives a key, and the one it has when only one entry has
\* the key.
NewSlot(table, p) ==
  LET newest == SelectLastInSeq(table, LAMBDA e : KeyOf(e) = p[1])
  IN IF newest = 0 THEN p[2] ELSE newest

\* The index behind a load, with each new slot by its name.
LEMMA RenumberedIs ==
  ASSUME NEW table, NEW pairs
  PROVE  Renumbered(table, pairs) = {<<p[1], NewSlot(table, p)>> : p \in pairs}
BY DEF Renumbered, NewSlot

\* The new slot is one, and the only one with that key when there is only one.
LEMMA NewSlotIs ==
  ASSUME NEW table \in Seq(Entry), NEW p \in Keys \X Slot
  PROVE  /\ NewSlot(table, p) \in Slot
         /\ \A m \in 1..Len(table) :
              /\ KeyOf(table[m]) = p[1]
              /\ \A i \in 1..Len(table) : KeyOf(table[i]) = p[1] => i = m
              => NewSlot(table, p) = m
<1> DEFINE n == Len(table)
           I == {i \in 1..n : KeyOf(table[i]) = p[1]}
<1>1. n \in Nat /\ p[2] \in Slot
  BY LenProperties
<1>2. NewSlot(table, p) = IF (IF I # {} THEN Max(I) ELSE 0) = 0 THEN p[2]
                          ELSE IF I # {} THEN Max(I) ELSE 0
  BY DEF NewSlot, SelectLastInSeq
<1>3. I \subseteq 1..n
  OBVIOUS
<1>4. \A m \in 1..n : (KeyOf(table[m]) = p[1] /\ \A i \in 1..n : KeyOf(table[i]) = p[1] => i = m)
                      => I = {m}
  OBVIOUS
<1> HIDE DEF I
<1>5. I # {} => Max(I) \in I /\ Max(I) \in 1..n
  BY <1>1, <1>3, Greatest
<1>6. I # {} => NewSlot(table, p) = Max(I)
  BY <1>1, <1>2, <1>5
<1>7. NewSlot(table, p) \in Slot
  BY <1>1, <1>2, <1>5 DEF Slot
<1>8. ASSUME NEW m \in 1..n, I = {m} PROVE NewSlot(table, p) = m
  BY <1>5, <1>6, <1>8
<1> QED BY <1>4, <1>7, <1>8

\* A start reads a table of entries.
LEMMA LoadedIs ==
  ASSUME IInv, Restart
  PROVE  /\ metaDataTable' \in Seq(Entry) /\ DOMAIN metaDataTable' = 1..Len(metaDataTable')
         /\ Slots' = 1..Len(metaDataTable') /\ TypeOK'
<1> DEFINE saved == saveDirectoryTableEntire
<1>1. TypeOK /\ saved \in Seq(Entry \union {Blank})
  BY SavedIs DEF IInv
<1>2. /\ metaDataTable' = Packed(saved) /\ image' = saved
      /\ index' = Renumbered(metaDataTable', index)
      /\ availableDirEntry' = 1 + Cardinality({i \in DOMAIN metaDataTable' : metaDataTable'[i].kind = "D"})
      /\ session' = [t \in Terminals |-> [user |-> Root, cwd |-> 0]]
      /\ boots < MaxBoots /\ boots' = boots + 1
      /\ clean' = (clean /\ Len(image) <= PerBlock * Blocks(Len(metaDataTable)))
      /\ UNCHANGED tidy
  BY DEF Restart
<1> HIDE DEF saved
<1>3. metaDataTable' \in Seq(Entry)
  BY <1>1, <1>2, PackedIs
<1>4. DOMAIN metaDataTable' = 1..Len(metaDataTable') /\ Len(metaDataTable') \in Nat
      /\ \A i \in 1..Len(metaDataTable') : metaDataTable'[i] \in Entry
  BY <1>3, LenProperties, ElementOfSeq
<1>5. Slots' = 1..Len(metaDataTable')
  <2>1. \A i \in 1..Len(metaDataTable') : Taken(metaDataTable'[i])
    BY <1>4, EntryTaken
  <2> QED BY <1>4, <2>1 DEF Slots
<1>6. metaDataTable' \in Seq(Entry \union {Blank})
  <2>1. metaDataTable' = [i \in 1..Len(metaDataTable') |-> metaDataTable'[i]]
    BY <1>3, <1>4
  <2>2. [i \in 1..Len(metaDataTable') |-> metaDataTable'[i]] \in Seq(Entry \union {Blank})
    BY <1>4, IsASeq
  <2> QED BY <2>1, <2>2
<1>7. index' \subseteq Keys \X (Nat \ {0})
  <2>1. index' = {<<p[1], NewSlot(metaDataTable', p)>> : p \in index}
    BY <1>2, RenumberedIs
  <2>2. \A p \in index : p \in Keys \X Slot
    BY <1>1 DEF TypeOK, Slot
  <2>3. \A p \in index : NewSlot(metaDataTable', p) \in Slot
    BY <1>3, <2>2, NewSlotIs
  <2> QED BY <2>1, <2>2, <2>3 DEF Slot
<1>8. availableDirEntry' \in Nat \ {0}
  <2> DEFINE D == {i \in DOMAIN metaDataTable' : metaDataTable'[i].kind = "D"}
  <2>1. IsFiniteSet(DOMAIN metaDataTable') /\ D \in SUBSET DOMAIN metaDataTable'
    BY <1>4, FS_Interval
  <2> HIDE DEF D
  <2>2. Cardinality(D) \in Nat
    BY <2>1, FS_Subset, FS_CardinalityType
  <2>3. availableDirEntry' = 1 + Cardinality(D)
    BY <1>2 DEF D
  <2> QED BY <2>2, <2>3
<1>9. session' \in [Terminals -> [user : Users, cwd : Int]]
  BY <1>2, MetadataAssumption
<1>10. boots' \in 0..MaxBoots /\ clean' \in BOOLEAN /\ tidy' \in BOOLEAN
  BY <1>1, <1>2, MetadataAssumption DEF TypeOK
<1>11. TypeOK'
  BY <1>1, <1>2, <1>6, <1>7, <1>8, <1>9, <1>10 DEF TypeOK
<1> QED BY <1>3, <1>4, <1>5, <1>11

\* What a start that reads no older entries does to the table: every entry
\* that is in it has its place in the new one.
LEMMA PlacesKept ==
  ASSUME IInv, Decided, Restart, clean'
  PROVE  /\ metaDataTable' = Packed(metaDataTable)
         /\ \E h : /\ \A i \in Slots : h[i] \in Slots' /\ metaDataTable'[h[i]] = metaDataTable[i]
                   /\ \A i, j \in Slots : i < j => h[i] < h[j]
                   /\ \A m \in Slots' : \E i \in Slots : h[i] = m
                   /\ index' = {<<KeyOf(metaDataTable[i]), h[i]>> : i \in Slots}
<1> DEFINE saved == saveDirectoryTableEntire
<1>1. TypeOK /\ clean /\ IndexExact /\ Len(image) <= PerBlock * Blocks(Len(metaDataTable))
      /\ metaDataTable' = Packed(saved) /\ index' = Renumbered(metaDataTable', index)
  BY DEF IInv, Restart
<1>2. /\ saved \in Seq(Entry \union {Blank}) /\ Len(metaDataTable) <= Len(saved)
      /\ \A i \in 1..Len(metaDataTable) : saved[i] = metaDataTable[i]
      /\ \A i \in 1..Len(saved) : i > Len(metaDataTable) => saved[i] = Blank
  BY <1>1, SavedIs
<1> HIDE DEF saved
<1>3. metaDataTable \in Seq(Entry \union {Blank}) /\ DOMAIN metaDataTable = 1..Len(metaDataTable)
  BY <1>1, LenProperties DEF TypeOK
<1>4. metaDataTable' = Packed(metaDataTable)
  BY <1>1, <1>2, <1>3, PackedPrefix
<1>5. PICK h : Leads(h, metaDataTable', metaDataTable, Len(metaDataTable))
  BY <1>3, <1>4, PackedIs
<1>6. Slots' = 1..Len(metaDataTable') /\ metaDataTable' \in Seq(Entry)
  BY LoadedIs
<1>7. \A i : i \in Slots <=> i \in 1..Len(metaDataTable) /\ Taken(metaDataTable[i])
  BY <1>3 DEF Slots
<1>8. \A i \in Slots : h[i] \in Slots' /\ metaDataTable'[h[i]] = metaDataTable[i]
  BY <1>5, <1>6, <1>7 DEF Leads
<1>9. \A i, j \in Slots : i < j => h[i] < h[j]
  BY <1>5, <1>7 DEF Leads
<1>10. \A m \in Slots' : \E i \in Slots : h[i] = m
  BY <1>5, <1>6, <1>7 DEF Leads
<1>11. index = {<<KeyOf(metaDataTable[i]), i>> : i \in Slots}
  BY <1>1 DEF IndexExact
<1>12. ASSUME NEW i \in Slots
       PROVE  NewSlot(metaDataTable', <<KeyOf(metaDataTable[i]), i>>) = h[i]
  <2> DEFINE p == <<KeyOf(metaDataTable[i]), i>>
  <2>1. p \in index /\ p[1] = KeyOf(metaDataTable[i])
    BY <1>11
  <2>2. p \in Keys \X Slot
    BY <1>1, <2>1 DEF TypeOK, Slot
  <2> HIDE DEF p
  <2>3. KeyOf(metaDataTable'[h[i]]) = p[1] /\ h[i] \in 1..Len(metaDataTable')
    BY <1>6, <1>8, <2>1
  <2>4. ASSUME NEW m \in 1..Len(metaDataTable'), KeyOf(metaDataTable'[m]) = p[1] PROVE m = h[i]
    <3>1. PICK j \in Slots : h[j] = m
      BY <1>6, <1>10
    <3>2. KeyOf(metaDataTable[j]) = KeyOf(metaDataTable[i])
      BY <1>8, <2>1, <2>4, <3>1
    <3>3. <<KeyOf(metaDataTable[j]), j>> \in index /\ <<KeyOf(metaDataTable[i]), i>> \in index
      BY <1>11
    <3>4. j = i
      BY <3>2, <3>3 DEF Decided
    <3> QED BY <3>1, <3>4
  <2>5. NewSlot(metaDataTable', p) = h[i]
    BY <1>6, <2>2, <2>3, <2>4, NewSlotIs
  <2> QED BY <2>5 DEF p
<1>13. index' = {<<KeyOf(metaDataTable[i]), h[i]>> : i \in Slots}
  <2>1. index' = {<<p[1], NewSlot(metaDataTable', p)>> : p \in index}
    BY <1>1, RenumberedIs
  <2>2. ASSUME NEW p \in index
        PROVE  <<p[1], NewSlot(metaDataTable', p)>> \in {<<KeyOf(metaDataTable[i]), h[i]>> : i \in Slots}
    <3>1. PICK i \in Slots : p = <<KeyOf(metaDataTable[i]), i>>
      BY <1>11
    <3> QED BY <1>12, <3>1
  <2>3. ASSUME NEW i \in Slots
        PROVE  <<KeyOf(metaDataTable[i]), h[i]>> \in {<<p[1], NewSlot(metaDataTable', p)>> : p \in index}
    <3>1. PICK p \in index : p = <<KeyOf(metaDataTable[i]), i>>
      BY <1>11
    <3>2. p[1] = KeyOf(metaDataTable[i]) /\ NewSlot(metaDataTable', p) = h[i]
      BY <1>12, <3>1
    <3> QED BY <3>2
  <2> QED BY <2>1, <2>2, <2>3
<1> QED BY <1>4, <1>8, <1>9, <1>10, <1>13

\* Leaving and starting the program (centralised.cpp 83-162).
LEMMA RestartStep ==
  ASSUME IInv, Decided, Restart
  PROVE  IInv'
<1>1. TypeOK'
  BY LoadedIs
<1>2. (clean' => clean) /\ tidy' = tidy
      /\ session' = [t \in Terminals |-> [user |-> Root, cwd |-> 0]]
  BY DEF Restart, IInv, TypeOK
<1>3. ASSUME clean'
      PROVE  IndexExact' /\ KeyedByOwner' /\ OneEach' /\ (tidy' => Forest')
  <2>1. KeyedByOwner
    BY <1>2, <1>3 DEF IInv
  <2>2. PICK h : /\ \A i \in Slots : h[i] \in Slots' /\ metaDataTable'[h[i]] = metaDataTable[i]
                 /\ \A i, j \in Slots : i < j => h[i] < h[j]
                 /\ \A m \in Slots' : \E i \in Slots : h[i] = m
                 /\ index' = {<<KeyOf(metaDataTable[i]), h[i]>> : i \in Slots}
    BY <1>3, PlacesKept
  <2>3. index' = {<<KeyOf(metaDataTable'[m]), m>> : m \in Slots'}
    <3>1. ASSUME NEW i \in Slots
          PROVE  <<KeyOf(metaDataTable[i]), h[i]>> \in {<<KeyOf(metaDataTable'[m]), m>> : m \in Slots'}
      BY <2>2
    <3>2. ASSUME NEW m \in Slots'
          PROVE  <<KeyOf(metaDataTable'[m]), m>> \in {<<KeyOf(metaDataTable[i]), h[i]>> : i \in Slots}
      BY <2>2
    <3> QED BY <2>2, <3>1, <3>2
  <2>4. KeyedByOwner'
    BY <2>1, <2>2 DEF KeyedByOwner
  <2>5. ASSUME tidy' PROVE Forest'
    <3>1. Forest
      BY <1>2, <1>3, <2>5 DEF IInv
    <3>2. \A j \in Slots : /\ IsDir(j) => IsDir(h[j])'
                           /\ \A u, id : Home(j, u, id) => Home(h[j], u, id)'
      BY <2>2 DEF IsDir, Home
    <3>3. DirsBelow'
      <4>1. ASSUME NEW m \in Slots', metaDataTable'[m].kind = "D"
            PROVE  /\ metaDataTable'[m].dirID >= 1
                   /\ metaDataTable'[m].dir = metaDataTable'[m].parent
                   /\ \/ metaDataTable'[m].parent \in {0, Nowhere}
                      \/ \E l \in Slots' : /\ l < m
                           /\ Home(l, metaDataTable[m].owner, metaDataTable[m].parent)'
        <5>1. PICK i \in Slots : h[i] = m /\ metaDataTable'[m] = metaDataTable[i]
          BY <2>2
        <5>2. /\ metaDataTable[i].dirID >= 1 /\ metaDataTable[i].dir = metaDataTable[i].parent
              /\ \/ metaDataTable[i].parent \in {0, Nowhere}
                 \/ \E j \in Slots : j < i /\ Home(j, metaDataTable[i].owner, metaDataTable[i].parent)
          BY <3>1, <4>1, <5>1 DEF Forest, DirsBelow
        <5>3. ASSUME NEW j \in Slots, j < i,
                     Home(j, metaDataTable[i].owner, metaDataTable[i].parent)
              PROVE  /\ h[j] \in Slots' /\ h[j] < m
                     /\ Home(h[j], metaDataTable[m].owner, metaDataTable[m].parent)'
          BY <2>2, <5>1, <5>3 DEF IsDir, Home
        <5> QED BY <5>1, <5>2, <5>3
      <4> QED BY <4>1 DEF DirsBelow
    <3>4. FilesBelow'
      <4>1. ASSUME NEW m \in Slots', metaDataTable'[m].kind = "F"
            PROVE  /\ metaDataTable'[m].dirID = metaDataTable'[m].parent
                   /\ \/ metaDataTable'[m].parent = 0
                      \/ \E l \in Slots' : /\ l < m /\ IsDir(l)'
                                           /\ metaDataTable'[l].dirID = metaDataTable'[m].parent
        <5>1. PICK i \in Slots : h[i] = m /\ metaDataTable'[m] = metaDataTable[i]
          BY <2>2
        <5>2. /\ metaDataTable[i].dirID = metaDataTable[i].parent
              /\ \/ metaDataTable[i].parent = 0
                 \/ \E j \in Slots : /\ j < i /\ IsDir(j)
                                     /\ metaDataTable[j].dirID = metaDataTable[i].parent
          BY <3>1, <4>1, <5>1 DEF Forest, FilesBelow
        <5>3. ASSUME NEW j \in Slots, j < i, IsDir(j), metaDataTable[j].dirID = metaDataTable[i].parent
              PROVE  /\ h[j] \in Slots' /\ h[j] < m /\ IsDir(h[j])'
                     /\ metaDataTable'[h[j]].dirID = metaDataTable'[m].parent
          BY <2>2, <3>2, <5>1, <5>3
        <5> QED BY <5>1, <5>2, <5>3
      <4> QED BY <4>1 DEF FilesBelow
    <3>5. OneNumber'
      <4>1. ASSUME NEW m \in Slots', NEW l \in Slots', IsDir(m)', IsDir(l)',
                   metaDataTable'[m].dirID = metaDataTable'[l].dirID
            PROVE  m = l
        <5>1. PICK i \in Slots : h[i] = m /\ metaDataTable'[m] = metaDataTable[i]
          BY <2>2
        <5>2. PICK j \in Slots : h[j] = l /\ metaDataTable'[l] = metaDataTable[j]
          BY <2>2
        <5>3. i = j
          BY <3>1, <4>1, <5>1, <5>2 DEF Forest, OneNumber, IsDir
        <5> QED BY <5>1, <5>2, <5>3
      <4> QED BY <4>1 DEF OneNumber
    <3>6. SessionsAtHome'
      <4>1. \A t \in Terminals : session'[t].cwd = 0
        BY <1>2
      <4> QED BY <4>1 DEF SessionsAtHome, AtHome
    <3> QED BY <3>3, <3>4, <3>5, <3>6 DEF Forest
  <2>6. OneEach'
    <3>1. ASSUME NEW p \in index', NEW q \in index', p[1] = q[1] PROVE p = q
      <4>1. PICK i \in Slots : p = <<KeyOf(metaDataTable[i]), h[i]>>
        BY <2>2
      <4>2. PICK j \in Slots : q = <<KeyOf(metaDataTable[j]), h[j]>>
        BY <2>2
      <4>3. <<KeyOf(metaDataTable[i]), i>> \in index /\ <<KeyOf(metaDataTable[j]), j>> \in index
        BY <1>2, <1>3 DEF IInv, IndexExact
      <4>4. i = j
        BY <3>1, <4>1, <4>2, <4>3 DEF Decided
      <4> QED BY <4>1, <4>2, <4>4
    <3> QED BY <3>1 DEF OneEach
  <2> QED BY <2>3, <2>4, <2>5, <2>6 DEF IndexExact
<1> QED BY <1>1, <1>3 DEF IInv, IndexExact

-----------------------------------------------------------------------------
(* The prompt.                                                             *)

\* One round of createPathM leads from a home to a home that is earlier.
LEMMA AboveIs ==
  ASSUME TypeOK, Forest, NEW user, NEW id, AtHome(user, id)
  PROVE  /\ AtHome(user, Above(user, id))
         /\ id = 0 => Above(user, id) = 0
         /\ \A j \in Slots : Home(j, user, id) =>
              \/ Above(user, id) = 0
              \/ \E k \in Slots : k < j /\ Home(k, user, Above(user, id))
<1> DEFINE I == {i \in 1..Len(metaDataTable) :
                   /\ Taken(metaDataTable[i]) /\ metaDataTable[i].dirID = id
                   /\ metaDataTable[i].owner = user}
           slot == IF I # {} THEN Min(I) ELSE 0
<1>1. Above(user, id) = IF id = 0 THEN 0 ELSE IF slot = 0 THEN id ELSE metaDataTable[slot].parent
  BY DEF Above, SelectInSeq
<1>2. DOMAIN metaDataTable = 1..Len(metaDataTable) /\ Len(metaDataTable) \in Nat
  BY LenProperties DEF TypeOK
<1>3. I \subseteq Nat /\ I \subseteq DOMAIN metaDataTable
      /\ \A i \in I : metaDataTable[i].dirID = id
  BY <1>2
<1>4. ASSUME NEW j \in Slots, Home(j, user, id)
      PROVE  slot = j /\ slot # 0 /\ id # 0
  <2>1. j \in I
    BY <1>2, <1>4 DEF Slots, Home
  <2> HIDE DEF I
  <2>2. slot \in I /\ slot <= j
    BY <1>3, <2>1, Least
  <2>3. j <= slot
    BY <1>3, <1>4, <2>2, HomeIsFirst
  <2>4. id >= 1 /\ j \in Slot
    BY <1>4, HomeAbove, SlotIs
  <2>5. slot \in Nat
    BY <1>3, <2>2
  <2> HIDE DEF slot
  <2> QED BY <2>2, <2>3, <2>4, <2>5 DEF Slot
<1> HIDE DEF slot
<1>5. ASSUME NEW j \in Slots, Home(j, user, id)
      PROVE  /\ AtHome(user, Above(user, id))
             /\ \/ Above(user, id) = 0
                \/ \E k \in Slots : k < j /\ Home(k, user, Above(user, id))
  <2>1. Above(user, id) = metaDataTable[j].parent
    BY <1>1, <1>4, <1>5
  <2> QED BY <1>5, <2>1, HomeAbove
<1>6. id = 0 => Above(user, id) = 0 /\ AtHome(user, Above(user, id))
  BY <1>1 DEF AtHome
<1> QED BY <1>5, <1>6 DEF AtHome

IsWalkUp(f, user, id) ==
  f = [n \in 0..Len(metaDataTable) |-> IF n = 0 THEN id ELSE Above(user, f[n - 1])]

\* The walk as the recursion over its rounds.
LEMMA WalkUpUnfold ==
  ASSUME NEW user, NEW id, \E f : IsWalkUp(f, user, id)
  PROVE  \E f : IsWalkUp(f, user, id) /\ WalkUp(user, id) = f[Len(metaDataTable)]
BY DEF WalkUp, IsWalkUp

\* Every round but the last leads to an earlier slot, so there are no more
\* rounds than slots.
LEMMA WalkEnds ==
  ASSUME TypeOK, Forest, NEW user, NEW id, AtHome(user, id)
  PROVE  WalkUp(user, id) = 0
<1> DEFINE n == Len(metaDataTable)
           T == {x \in Int : AtHome(user, x)}
           G == [p \in T \X (1..n) |-> Above(user, p[1])]
           Near(x, i) == x = 0 \/ \E j \in Slots : j <= n - i /\ Home(j, user, x)
<1>1. n \in Nat /\ \A j \in Slots : j \in 1..n
  BY LenProperties, SlotIs DEF TypeOK
<1>2. \A x : AtHome(user, x) => x \in Int
  BY HomeAbove DEF AtHome
<1>3. \A x \in T : Above(user, x) \in T
  BY <1>2, AboveIs
<1>4. G \in [T \X (1..n) -> T] /\ \A x \in T, i \in 1..n : G[<<x, i>>] = Above(user, x)
  BY <1>3
<1>5. id \in T
  BY <1>2
<1> HIDE DEF G
<1>6. PICK g : Iterated(g, id, G, n, T)
  BY <1>1, <1>4, <1>5, Iterates DEF StepIn
<1>7. \A i \in 1..n : g[i] = Above(user, g[i - 1])
  <2> TAKE i \in 1..n
  <2>1. i - 1 \in 0..n /\ g[i - 1] \in T
    BY <1>1, <1>6 DEF Iterated
  <2> QED BY <2>1, <1>4, <1>6 DEF Iterated
<1>8. \E f : IsWalkUp(f, user, id)
  <2>1. g = [i \in 0..n |-> IF i = 0 THEN id ELSE Above(user, g[i - 1])]
    <3> HIDE DEF T, n
    <3> QED BY <1>1, <1>6, <1>7 DEF Iterated
  <2> QED BY <2>1 DEF IsWalkUp
<1>9. PICK f : IsWalkUp(f, user, id) /\ WalkUp(user, id) = f[n]
  BY <1>8, WalkUpUnfold
<1>10. f[0] = id /\ \A i \in 1..n : f[i] = Above(user, f[i - 1])
  <2>1. 0 \in 0..n /\ \A i \in 1..n : i \in 0..n /\ i # 0
    BY <1>1
  <2> QED BY <2>1, <1>9 DEF IsWalkUp
<1> HIDE DEF n, T
<1>11. Near(f[n], n)
  <2> DEFINE P == {i \in Nat : i <= n => Near(f[i], i) /\ AtHome(user, f[i])}
  <2>1. 0 \in P
    <3>1. n - 0 = n /\ \A j \in Slots : j <= n
      BY <1>1
    <3> QED BY <3>1, <1>10 DEF AtHome
  <2>2. ASSUME NEW i \in Nat, i \in P PROVE i + 1 \in P
    <3> SUFFICES ASSUME i + 1 <= n PROVE Near(f[i + 1], i + 1) /\ AtHome(user, f[i + 1])
      OBVIOUS
    <3>1. i + 1 \in 1..n /\ (i + 1) - 1 = i /\ Near(f[i], i) /\ AtHome(user, f[i])
      BY <1>1, <2>2
    <3>2. f[i + 1] = Above(user, f[i])
      BY <1>10, <3>1
    <3>3. AtHome(user, f[i + 1]) /\ (f[i] = 0 => f[i + 1] = 0)
      BY <3>1, <3>2, AboveIs
    <3>4. ASSUME NEW j \in Slots, j <= n - i, Home(j, user, f[i])
          PROVE  Near(f[i + 1], i + 1)
      <4>1. \/ f[i + 1] = 0
            \/ \E k \in Slots : k < j /\ Home(k, user, f[i + 1])
        BY <3>1, <3>2, <3>4, AboveIs
      <4>2. \A k \in Slots : k < j => k <= n - (i + 1)
        BY <1>1, <3>4
      <4> QED BY <4>1, <4>2
    <3> QED BY <3>1, <3>3, <3>4
  <2> HIDE DEF P
  <2>3. n \in P
    BY <1>1, <2>1, <2>2, NatInd
  <2> QED BY <1>1, <2>3 DEF P
<1>12. \A j \in Slots : ~ (j <= n - n)
  BY <1>1
<1> QED BY <1>9, <1>11, <1>12

-----------------------------------------------------------------------------
(* The theorems.                                                           *)

\* The empty file system.
LEMMA Initially == Init => IInv
<1> SUFFICES ASSUME Init PROVE IInv
  OBVIOUS
<1>1. Slots = {} /\ metaDataTable = << >> /\ index = {}
  BY EmptySeq DEF Init, Slots
<1>2. TypeOK
  BY EmptySeq, MetadataAssumption DEF Init, TypeOK
<1>3. IndexExact /\ KeyedByOwner /\ OneEach
  BY <1>1 DEF IndexExact, KeyedByOwner, OneEach
<1>4. Forest
  <2>1. SessionsAtHome
    BY DEF Init, SessionsAtHome, AtHome
  <2> QED BY <1>1, <2>1 DEF Forest, DirsBelow, FilesBelow, OneNumber
<1> QED BY <1>2, <1>3, <1>4 DEF IInv

\* A command adds entries behind the table, or changes those of its user.
LEMMA CommandStep ==
  ASSUME IInv, Decided, NEW t \in Terminals, Command(t)
  PROVE  IInv' /\ (clean => Untouched(session[t].user)) /\ boots' = boots
<1>1. ASSUME NEW path \in Paths, NEW name \in Names,
             createFiles(t, path, name) \/ createDirectory(t, path, name)
      PROVE  Untouched(session[t].user) /\ boots' = boots
  <2>1. PICK key, owner, parent, dirID : Push(key, owner, parent, dirID)
    BY <1>1 DEF createFiles, createDirectory
  <2>2. metaDataTable \in Seq(Entry \union {Blank})
    BY DEF IInv, TypeOK
  <2>3. \A i \in Slots : metaDataTable'[i] = metaDataTable[i]
    BY <2>1, <2>2, LenProperties DEF Push, Slots
  <2>4. index \subseteq index'
    BY <2>1 DEF Push
  <2>5. boots' = boots
    BY <1>1 DEF createFiles, createDirectory
  <2> QED BY <2>3, <2>4, <2>5 DEF Untouched
<1>2. CASE \E path \in Paths, name \in Names : createFiles(t, path, name)
  BY <1>1, <1>2, CreateFileStep
<1>3. CASE \E path \in Paths, name \in Names : createDirectory(t, path, name)
  BY <1>1, <1>3, CreateDirectoryStep
<1>4. ASSUME NEW path \in Paths, NEW name \in Names,
             RemoveFile(t, path, name) \/ RemoveDirectory(t, path, name) \/ RemoveTree(t, path, name)
      PROVE  IInv' /\ (clean => Untouched(session[t].user)) /\ boots' = boots
  <2>1. boots' = boots
    BY <1>4 DEF RemoveFile, RemoveDirectory, RemoveTree, Becomes
  <2> QED BY <1>4, <2>1, RemoveStep
<1>5. CASE \E name \in Names, newName \in Names : renameFiles(t, name, newName)
  <2>1. boots' = boots
    BY <1>5 DEF renameFiles
  <2> QED BY <1>5, <2>1, RenameStep
<1>6. CASE \E name \in Names, write \in Modes : chmodFileM(t, name, write)
  <2>1. boots' = boots
    BY <1>6 DEF chmodFileM
  <2> QED BY <1>6, <2>1, ChmodStep
<1>7. CASE \E name \in Names, owner \in Users : chownM(t, name, owner)
  <2>1. boots' = boots
    BY <1>7 DEF chownM
  <2> QED BY <1>7, <2>1, ChownStep
<1>8. CASE \E path \in Paths, name \in Names \union {Up} :
             changeDirectory(t, Append(path, name))
  <2>1. boots' = boots
    BY <1>8 DEF changeDirectory
  <2> QED BY <1>8, <2>1, ChangeDirectoryStep
<1>9. CASE \E user \in Users : loginM(t, user)
  <2>1. boots' = boots
    BY <1>9 DEF loginM
  <2> QED BY <1>9, <2>1, LoginStep
<1> QED BY <1>2, <1>3, <1>4, <1>5, <1>6, <1>7, <1>8, <1>9 DEF Command

\* Every step keeps the invariant.
LEMMA Inductive == IInv /\ [Next]_vars => IInv'
<1> SUFFICES ASSUME IInv, [Next]_vars PROVE IInv'
  OBVIOUS
<1>1. CASE Decided /\ \E t \in Terminals : Command(t)
  BY <1>1, CommandStep
<1>2. CASE Decided /\ Restart
  BY <1>2, RestartStep
<1>3. CASE UNCHANGED vars
  BY <1>3 DEF vars, IInv, TypeOK, IndexExact, KeyedByOwner, OneEach, Forest, DirsBelow, FilesBelow,
              OneNumber, SessionsAtHome, AtHome, Home, IsDir, Slots
<1> QED BY <1>1, <1>2, <1>3 DEF Next

\* So it holds in every state.
LEMMA Invariance == Spec => []IInv
BY Initially, Inductive, PTL DEF Spec

\* The state has its type: whatever the commands and the restarts do, the
\* table holds entries and empty slots, the index leads to slots, and the
\* sessions have users (system.h 34, 48-49).
THEOREM TypeCorrect == Spec => []TypeOK
<1>1. IInv => TypeOK
  BY DEF IInv
<1> QED BY <1>1, Invariance, PTL

\* The B+ tree and the table agree in every state: a name is in the index
\* exactly when an entry has it, and leads to that entry (helpers.cpp 23-70).
THEOREM IndexIsExact == Spec => []IndexExact
<1>1. IInv => IndexExact
  BY DEF IInv
<1> QED BY <1>1, Invariance, PTL

\* While no command has entered a wrong key, every name leads to one entry at
\* most and every slot of the index is in the table: no state of the program
\* is left out by the guard Decided of the model's steps.
THEOREM NothingIsUndecided == Spec => [](clean => Decided)
<1>1. IInv => (clean => Decided)
  <2> SUFFICES ASSUME IInv, clean PROVE Decided
    OBVIOUS
  <2>1. index = {<<KeyOf(metaDataTable[i]), i>> : i \in Slots} /\ OneEach
    BY DEF IInv, IndexExact
  <2>2. \A i \in Slots : i \in DOMAIN metaDataTable
    BY DEF Slots
  <2> QED BY <2>1, <2>2 DEF Decided, OneEach
<1> QED BY <1>1, Invariance, PTL

\* The walk that every prompt makes with metaMutex held comes to the root
\* (directory.cpp 114-131).
THEOREM PromptsEnd == Spec => []PromptEnds
<1>1. IInv => PromptEnds
  <2> SUFFICES ASSUME IInv, clean, tidy, NEW t \in Terminals
               PROVE  WalkUp(session[t].user, session[t].cwd) = 0
    BY DEF PromptEnds
  <2>1. TypeOK /\ Forest /\ AtHome(session[t].user, session[t].cwd)
    BY DEF IInv, Forest, SessionsAtHome
  <2> QED BY <2>1, WalkEnds
<1> QED BY <1>1, Invariance, PTL

\* Every command leaves the entries of other users, and the names they are
\* found by, as they are (multithreading.cpp, cliFunctions.cpp).
THEOREM UsersAreIsolated == Spec => Isolation
<1>1. IInv /\ [Next]_vars =>
        [clean /\ boots' = boots => \E t \in Terminals :
           \A i \in Slots : metaDataTable[i].owner # session[t].user =>
             /\ metaDataTable'[i] = metaDataTable[i]
             /\ \A p \in index : p[2] = i => p \in index']_vars
  <2> SUFFICES ASSUME IInv, Next, clean, boots' = boots
               PROVE  \E t \in Terminals : Untouched(session[t].user)
    BY DEF Untouched
  <2>1. ~Restart
    BY DEF Restart, IInv, TypeOK
  <2>2. PICK t \in Terminals : Decided /\ Command(t)
    BY <2>1 DEF Next
  <2> QED BY <2>2, CommandStep
<1> QED BY <1>1, Invariance, PTL DEF Spec, Isolation

\* Leaving and starting the program keeps every entry, their order, and what
\* every name leads to (centralised.cpp 83-162).
THEOREM RestartsKeepAll == Spec => RestartKeeps
<1>1. IInv /\ [Next]_vars =>
        [clean /\ clean' /\ boots' # boots =>
           /\ metaDataTable' = Packed(metaDataTable)
           /\ \A p \in index : \E q \in index' :
                q[1] = p[1] /\ metaDataTable'[q[2]] = metaDataTable[p[2]]]_vars
  <2> SUFFICES ASSUME IInv, Next, clean, clean', boots' # boots
               PROVE  /\ metaDataTable' = Packed(metaDataTable)
                      /\ \A p \in index : \E q \in index' :
                           q[1] = p[1] /\ metaDataTable'[q[2]] = metaDataTable[p[2]]
    OBVIOUS
  <2>1. Decided /\ Restart
    BY CommandStep DEF Next
  <2>2. PICK h : /\ \A i \in Slots : h[i] \in Slots' /\ metaDataTable'[h[i]] = metaDataTable[i]
                 /\ index' = {<<KeyOf(metaDataTable[i]), h[i]>> : i \in Slots}
    BY <2>1, PlacesKept
  <2>3. ASSUME NEW p \in index
        PROVE  \E q \in index' : q[1] = p[1] /\ metaDataTable'[q[2]] = metaDataTable[p[2]]
    <3>1. PICK i \in Slots : p = <<KeyOf(metaDataTable[i]), i>>
      BY DEF IInv, IndexExact
    <3>2. <<KeyOf(metaDataTable[i]), h[i]>> \in index'
      BY <2>2
    <3> QED BY <2>2, <3>1, <3>2
  <2> QED BY <2>1, <2>3, PlacesKept
<1> QED BY <1>1, Invariance, PTL DEF Spec, RestartKeeps
=============================================================================
