----------------------- MODULE SpaceAccountingProofs -----------------------
(***************************************************************************)
(* Proofs about SpaceAccounting, for any threads, sizes and blocks, and    *)
(* for saves that fail: until one of the mistakes happens that "Sound"     *)
(* excludes, no two files share a block and the bit of a block in use is   *)
(* set; and while no update of it is lost either, the counter promises no  *)
(* more than the bitmap has.                                               *)
(***************************************************************************)
EXTENDS SpaceAccounting, TLAPS, FiniteSetTheorems

\* Creates that have put their entry into the table.
Entered(t) == job[t].op = "create" /\ pc[t] \in {"save", "undo", "restore", "unmark"}

\* What a thread does at each place, and the slot it does it to.
Placed(t) ==
  /\ pc[t] = "idle" => job[t] = NoJob
  /\ pc[t] = "lock" => job[t].op \in {"append", "write", "delete"}
  /\ pc[t] \in {"copy", "size"} => job[t].op \in {"append", "write"}
  /\ pc[t] = "test" => job[t].op = "append"
  /\ pc[t] \in {"allocate", "saveBits", "grow"} => job[t].op \in {"create", "append"}
  /\ pc[t] = "cut" => job[t].op = "write"
  /\ pc[t] \in {"clear", "unslot"} => job[t].op = "delete"
  /\ pc[t] \in {"load", "store", "save"} => job[t].op \in {"create", "append", "write", "delete"}
  /\ pc[t] = "link" => job[t].op = "create"
  /\ pc[t] \in {"undo", "restore"} => job[t].op \in {"create", "append", "write"}
  /\ pc[t] = "unmark" => job[t].op \in {"create", "write"}
  /\ pc[t] \in {"push", "count"} => job[t].op = "mkdir"
  /\ job[t].op \in {"append", "write", "delete"} \/ Entered(t) => job[t].slot \in Slots
  /\ job[t].op \in {"create", "mkdir"} /\ ~Entered(t) => job[t].slot = 0
  /\ job[t].op \in {"create", "append"} => job[t].blocks \subseteq DataBlocks
  /\ pc[t] \in {"lock", "copy", "test", "allocate"} => job[t].blocks = {}

\* The write lock of an entry.
LockExclusive ==
  \A t, u \in Threads :
    t # u /\ Inside(t) /\ Inside(u) /\ job[t].slot = job[u].slot => job[t].slot = 0

Base == TypeOK /\ (\A t \in Threads : Placed(t)) /\ LockExclusive

\* A step of one thread.
StepOf(t) ==
  /\ \A u \in Threads \ {t} : pc'[u] = pc[u] /\ job'[u] = job[u]
  /\ Len(entries') \in {Len(entries), Len(entries) + 1}

LEMMA InitBase == Init => Base
  <1> SUFFICES ASSUME Init PROVE Base
    OBVIOUS
  <1> USE SpaceAssumption DEF Init, NoJob
  <1>1. TypeOK
    <2>1. freeBlocks \in Int
      BY FS_CardinalityType
    <2>2. pc \in [Threads -> PCs] /\ job \in [Threads -> Job]
      BY DEF PCs, Job
    <2>3. entries \in Seq(Entry) /\ Len(entries) = 0
      OBVIOUS
    <2>4. \A t \in Threads : job[t].slot \in 0..Len(entries)
      BY <2>3
    <2>5. FATTABLE \subseteq DataBlocks /\ creator \in Threads \union {Nobody}
          /\ begun \in Nat /\ metaIndex \in Nat /\ flaws \subseteq Flaws
      OBVIOUS
    <2> QED BY <2>1, <2>2, <2>3, <2>4, <2>5 DEF TypeOK
  <1>2. (\A t \in Threads : Placed(t)) /\ LockExclusive
    BY DEF Placed, Entered, LockExclusive, Inside
  <1> QED BY <1>1, <1>2 DEF Base

\* Who gets a lock, or a new slot, takes it from nobody.
LEMMA BaseKept ==
  ASSUME Base, NEW t \in Threads, StepOf(t), TypeOK', Placed(t)',
         Inside(t)' => \/ job'[t].slot = 0
                       \/ job'[t].slot = job[t].slot /\ (Inside(t) \/ LockFree(t))
                       \/ job'[t].slot > Len(entries)
  PROVE  Base'
  <1> USE DEF Base, TypeOK, StepOf
  <1>1. \A u \in Threads \ {t} : Placed(u)'
    BY DEF Placed, Entered, Slots
  <1>2. \A u \in Threads \ {t} : (Inside(u)' <=> Inside(u)) /\ job'[u].slot \in 0..Len(entries)
    BY DEF Inside
  <1>3. LockExclusive'
    <2> SUFFICES ASSUME NEW u \in Threads \ {t}, Inside(t)', Inside(u)',
                        job'[t].slot = job'[u].slot
                 PROVE  job'[t].slot = 0
      BY <1>2 DEF LockExclusive
    <2>1. CASE job'[t].slot = job[t].slot /\ Inside(t)
      BY <1>2, <2>1 DEF LockExclusive
    <2>2. CASE job'[t].slot = job[t].slot /\ LockFree(t)
      BY <1>2, <2>2 DEF LockFree
    <2>3. CASE job'[t].slot > Len(entries)
      BY <1>2, <2>3
    <2> QED BY <2>1, <2>2, <2>3
  <1> QED BY <1>1, <1>3

LEMMA JobTyped ==
  ASSUME job \in [Threads -> Job], NEW t \in Threads
  PROVE  /\ \A n \in Nat : [job EXCEPT ![t].slot = n] \in [Threads -> Job]
         /\ \A n \in Int : [job EXCEPT ![t].seen = n] \in [Threads -> Job]
         /\ \A n \in Int : [job EXCEPT ![t].original = n] \in [Threads -> Job]
         /\ \A n \in Int, f \in BOOLEAN :
              [job EXCEPT ![t].original = n, ![t].found = f] \in [Threads -> Job]
         /\ \A c \in SUBSET Int : [job EXCEPT ![t].blocks = c] \in [Threads -> Job]
         /\ [job EXCEPT ![t] = NoJob] \in [Threads -> Job]
  <1>1. job[t] \in Job /\ NoJob \in Job
    BY DEF Job, NoJob
  <1>2. \A j \in Job : [job EXCEPT ![t] = j] \in [Threads -> Job]
    OBVIOUS
  <1>3. \A n \in Nat : [job[t] EXCEPT !.slot = n] \in Job
    BY <1>1 DEF Job
  <1>4. \A n \in Int : [job[t] EXCEPT !.seen = n] \in Job /\ [job[t] EXCEPT !.original = n] \in Job
    BY <1>1 DEF Job
  <1>5. \A n \in Int, f \in BOOLEAN : [job[t] EXCEPT !.original = n, !.found = f] \in Job
    BY <1>1 DEF Job
  <1>6. \A c \in SUBSET Int : [job[t] EXCEPT !.blocks = c] \in Job
    BY <1>1 DEF Job
  <1> QED BY <1>1, <1>2, <1>3, <1>4, <1>5, <1>6

LEMMA EntryTyped ==
  ASSUME entries \in Seq(Entry), NEW s \in Slots
  PROVE  /\ entries[s] \in Entry
         /\ \A e \in Entry : /\ [entries EXCEPT ![s] = e] \in Seq(Entry)
                             /\ Len([entries EXCEPT ![s] = e]) = Len(entries)
  BY DEF Slots

LEMMA NewJobTyped ==
  ASSUME NEW op \in Operations, NEW s \in Nat, NEW need \in Nat
  PROVE  /\ [NoJob EXCEPT !.op = op] \in Job
         /\ [NoJob EXCEPT !.op = op, !.need = need] \in Job
         /\ [NoJob EXCEPT !.op = op, !.slot = s, !.need = need] \in Job
  <1>1. NoJob \in Job
    BY DEF NoJob, Job
  <1>2. ASSUME NEW j \in Job
        PROVE  /\ [j EXCEPT !.op = op] \in Job
               /\ [j EXCEPT !.op = op, !.need = need] \in Job
               /\ [j EXCEPT !.op = op, !.slot = s, !.need = need] \in Job
    BY DEF Job
  <1> QED BY <1>1, <1>2

LEMMA NewJobFields ==
  ASSUME NEW op, NEW s, NEW need
  PROVE  LET j == [NoJob EXCEPT !.op = op, !.slot = s, !.need = need]
         IN  j.op = op /\ j.slot = s /\ j.need = need /\ j.blocks = {}
  BY DEF NoJob

LEMMA FlawsTyped ==
  ASSUME NEW flaw \in Flaws, NEW happens, Adds(flaw, happens), flaws \subseteq Flaws
  PROVE  flaws' \subseteq Flaws
  BY DEF Adds

LEMMA TypeKept ==
  ASSUME Base, NEW t \in Threads, StepOf(t),
         pc' \in [Threads -> PCs], job' \in [Threads -> Job], entries' \in Seq(Entry),
         job'[t].slot \in 0..Len(entries'),
         FATTABLE' \subseteq DataBlocks, freeBlocks' \in Int, metaIndex' \in Nat,
         creator' \in Threads \union {Nobody}, begun' \in Nat, flaws' \subseteq Flaws
  PROVE  TypeOK'
  <1>1. \A u \in Threads : job'[u].slot \in 0..Len(entries')
    BY DEF StepOf, Base, TypeOK
  <1> QED BY <1>1 DEF TypeOK

LEMMA FinishBase ==
  ASSUME Base, NEW t \in Threads, Finish(t), begun' = begun, metaIndex' \in Nat,
         entries' = entries, freeBlocks' \in Int, FATTABLE' \subseteq DataBlocks, flaws' \subseteq Flaws
  PROVE  Base'
  <1> USE DEF Finish, Goto
  <1>1. pc' \in [Threads -> PCs] /\ job' \in [Threads -> Job] /\ StepOf(t)
    BY JobTyped DEF Base, TypeOK, PCs, StepOf
  <1>2. job'[t] = NoJob /\ pc'[t] = "idle" /\ creator' \in Threads \union {Nobody}
    BY DEF Base, TypeOK
  <1>3. TypeOK'
    BY <1>1, <1>2, TypeKept DEF Base, TypeOK, NoJob
  <1>4. Placed(t)' /\ ~Inside(t)'
    BY <1>2 DEF Placed, Entered, Inside, NoJob
  <1> QED BY <1>1, <1>3, <1>4, BaseKept

LEMMA CreateBase ==
  ASSUME Base, NEW t \in Threads, NEW need \in CreateNeeds, Create(t, need)
  PROVE  Base'
  <1> USE DEF Create, Begins, Goto
  <1>1. [NoJob EXCEPT !.op = "create", !.need = need] \in Job
    BY NewJobTyped, SpaceAssumption DEF Operations
  <1>2. pc' \in [Threads -> PCs] /\ job' \in [Threads -> Job] /\ StepOf(t)
    BY <1>1 DEF Base, TypeOK, PCs, StepOf
  <1>3. job'[t] = [NoJob EXCEPT !.op = "create", !.need = need] /\ pc'[t] = "allocate"
    BY DEF Base, TypeOK
  <1>4. job'[t].slot = 0 /\ job'[t].op = "create" /\ job'[t].blocks = {}
    BY <1>3 DEF NoJob
  <1>5. TypeOK'
    BY <1>2, <1>4, TypeKept DEF Base, TypeOK
  <1>6. Placed(t)'
    BY <1>3, <1>4 DEF Placed, Entered
  <1> QED BY <1>2, <1>4, <1>5, <1>6, BaseKept

LEMMA EnterBase ==
  ASSUME Base, NEW t \in Threads, NEW op \in Operations, NEW s \in Slots, NEW need \in {0, 1},
         Enter(t, op, s, need)
  PROVE  Base'
  <1>0. s \in Nat /\ need \in Nat
    BY DEF Slots
  <1>1. [NoJob EXCEPT !.op = op, !.slot = s, !.need = need] \in Job
    BY <1>0, NewJobTyped
  <1>2. pc' \in [Threads -> PCs] /\ job' \in [Threads -> Job] /\ StepOf(t)
    BY <1>1 DEF Base, TypeOK, PCs, StepOf, Enter, Begins, Goto
  <1>3. job'[t] = [NoJob EXCEPT !.op = op, !.slot = s, !.need = need] /\ pc'[t] = "lock"
    BY DEF Base, TypeOK, Enter, Begins, Goto
  <1>4. job'[t].slot = s /\ job'[t].op = op /\ job'[t].blocks = {}
    BY <1>0, <1>3, NewJobFields
  <1>5. op \in {"append", "write", "delete"}
    BY DEF Operations, Enter
  <1>6. TypeOK'
    BY <1>2, <1>4, TypeKept DEF Base, TypeOK, Slots, Enter, Begins
  <1>7. Placed(t)' /\ ~Inside(t)'
    BY <1>3, <1>4, <1>5 DEF Placed, Entered, Slots, Inside, Enter, Begins
  <1> QED BY <1>2, <1>6, <1>7, BaseKept

LEMMA MakeDirectoryBase == ASSUME Base, NEW t \in Threads, MakeDirectory(t) PROVE Base'
  <1> USE DEF MakeDirectory, Begins, Goto
  <1>1. [NoJob EXCEPT !.op = "mkdir"] \in Job
    BY NewJobTyped DEF Operations
  <1>2. pc' \in [Threads -> PCs] /\ job' \in [Threads -> Job] /\ StepOf(t)
    BY <1>1 DEF Base, TypeOK, PCs, StepOf
  <1>3. job'[t] = [NoJob EXCEPT !.op = "mkdir"] /\ pc'[t] = "push"
    BY DEF Base, TypeOK
  <1>4. job'[t].slot = 0 /\ job'[t].op = "mkdir"
    BY <1>3 DEF NoJob
  <1>5. TypeOK'
    BY <1>2, <1>4, TypeKept DEF Base, TypeOK
  <1>6. Placed(t)'
    BY <1>3, <1>4 DEF Placed, Entered
  <1> QED BY <1>2, <1>4, <1>5, <1>6, BaseKept

\* A step from one place to another that leaves the job and the entries alone.
LEMMA MoveBase ==
  ASSUME Base, NEW t \in Threads, NEW l \in PCs, Goto(t, l), UNCHANGED <<job, creator, metaIndex, begun>>,
         entries' \in Seq(Entry), Len(entries') = Len(entries), freeBlocks' \in Int, FATTABLE' \subseteq DataBlocks, flaws' \subseteq Flaws,
         Placed(t)', Inside(t)' => Inside(t) \/ LockFree(t)
  PROVE  Base'
  <1>1. pc' \in [Threads -> PCs] /\ job' \in [Threads -> Job] /\ StepOf(t)
    BY DEF Base, TypeOK, StepOf, Goto
  <1>2. TypeOK'
    BY <1>1, TypeKept DEF Base, TypeOK
  <1> QED BY <1>1, <1>2, BaseKept

\* A step that changes the blocks or the numbers of the job.
LEMMA JobBase ==
  ASSUME Base, NEW t \in Threads, NEW l \in PCs, Goto(t, l), UNCHANGED <<creator, metaIndex, begun>>,
         NEW j \in Job, job' = [job EXCEPT ![t] = j], j.slot = job[t].slot,
         entries' \in Seq(Entry), Len(entries') = Len(entries),
         freeBlocks' \in Int, FATTABLE' \subseteq DataBlocks, flaws' \subseteq Flaws,
         Placed(t)', Inside(t)
  PROVE  Base'
  <1>1. pc' \in [Threads -> PCs] /\ job' \in [Threads -> Job] /\ StepOf(t)
    BY DEF Base, TypeOK, StepOf, Goto
  <1>2. job'[t] = j
    BY DEF Base, TypeOK
  <1>3. TypeOK'
    BY <1>1, <1>2, TypeKept DEF Base, TypeOK
  <1> QED BY <1>1, <1>2, <1>3, BaseKept

LEMMA JobFields ==
  ASSUME Base, NEW t \in Threads
  PROVE  /\ job[t] \in Job /\ pc[t] \in PCs
         /\ \A c \in SUBSET Int : /\ [job[t] EXCEPT !.blocks = c] \in Job
                                 /\ [job[t] EXCEPT !.blocks = c].slot = job[t].slot
         /\ \A n \in Int : /\ [job[t] EXCEPT !.seen = n] \in Job
                          /\ [job[t] EXCEPT !.seen = n].slot = job[t].slot
                          /\ [job[t] EXCEPT !.original = n] \in Job
                          /\ [job[t] EXCEPT !.original = n].slot = job[t].slot
         /\ \A n \in Int, f \in BOOLEAN :
              /\ [job[t] EXCEPT !.original = n, !.found = f] \in Job
              /\ [job[t] EXCEPT !.original = n, !.found = f].slot = job[t].slot
  <1>1. job[t] \in Job /\ pc[t] \in PCs
    BY DEF Base, TypeOK
  <1> QED BY <1>1 DEF Job

LEMMA WithoutBlocksBase ==
  ASSUME Base, NEW t \in Threads, WithoutBlocks(t), pc[t] \in {"allocate", "saveBits"},
         UNCHANGED <<freeBlocks, entries, metaIndex, begun, flaws>>,
         FATTABLE' \subseteq DataBlocks
  PROVE  Base'
  <1>1. CASE Finish(t)
    BY <1>1, FinishBase DEF Base, TypeOK
  <1>2. CASE ~Finish(t)
    <2> DEFINE j == [job[t] EXCEPT !.blocks = {}]
    <2>1. Goto(t, "grow") /\ job' = [job EXCEPT ![t] = j] /\ creator' = creator /\ job[t].op = "append"
      BY <1>2 DEF WithoutBlocks, With
    <2>2. j \in Job /\ j.slot = job[t].slot /\ "grow" \in PCs
      BY JobFields DEF PCs
    <2>3. job'[t] = j /\ pc'[t] = "grow" /\ j.op = "append" /\ j.blocks = {} /\ Slots' = Slots
      BY <2>1, JobFields DEF Base, TypeOK, Goto, Job, Slots
    <2>4. Placed(t)'
      BY <2>2, <2>3 DEF Placed, Entered, Base
    <2>5. Inside(t)
      BY DEF Inside
    <2> HIDE DEF j
    <2> QED BY <2>1, <2>2, <2>4, <2>5, JobBase DEF Base, TypeOK
  <1> QED BY <1>1, <1>2

LEMMA PushDirectoryBase == ASSUME Base, NEW t \in Threads, PushDirectory(t) PROVE Base'
  <1> USE DEF PushDirectory, Goto
  <1>1. Directory \in Entry
    BY DEF Directory, Entry
  <1>2. entries' \in Seq(Entry) /\ Len(entries') = Len(entries) + 1
    BY <1>1 DEF Base, TypeOK
  <1>3. pc' \in [Threads -> PCs] /\ job' \in [Threads -> Job] /\ StepOf(t)
    BY <1>2 DEF Base, TypeOK, PCs, StepOf
  <1>4. TypeOK'
    BY <1>2, <1>3, TypeKept DEF Base, TypeOK
  <1>5. Placed(t)' /\ job'[t].slot = 0
    BY DEF Base, TypeOK, Placed, Entered
  <1> QED BY <1>3, <1>4, <1>5, BaseKept

LEMMA CountDirectoryBase == ASSUME Base, NEW t \in Threads, CountDirectory(t) PROVE Base'
  BY FinishBase DEF CountDirectory, Base, TypeOK

LEMMA LockBase == ASSUME Base, NEW t \in Threads, Lock(t) PROVE Base'
  <1> PICK l : l = IF job[t].op = "delete" THEN "clear" ELSE "copy"
    OBVIOUS
  <1>1. l \in PCs /\ Goto(t, l) /\ pc'[t] = l
    BY DEF Lock, PCs, Goto, Base, TypeOK
  <1>2. flaws' \subseteq Flaws
    BY FlawsTyped DEF Lock, Base, TypeOK, Flaws
  <1>3. Placed(t)'
    BY <1>1 DEF Lock, Base, TypeOK, Placed, Entered, Slots
  <1> QED BY <1>1, <1>2, <1>3, MoveBase DEF Lock, Base, TypeOK

LEMMA CopyBase == ASSUME Base, NEW t \in Threads, Copy(t) PROVE Base'
  <1> DEFINE j == [job[t] EXCEPT !.original = freeBlocks, !.found = entries[job[t].slot].linked]
  <1> PICK l : l = IF job[t].op = "append" THEN "test" ELSE "cut"
    OBVIOUS
  <1>1. l \in PCs /\ Goto(t, l) /\ pc'[t] = l
    BY DEF Copy, PCs, Goto, Base, TypeOK
  <1>2. job[t].slot \in Slots /\ freeBlocks \in Int /\ entries[job[t].slot].linked \in BOOLEAN
    BY EntryTyped DEF Copy, Base, TypeOK, Placed, Entry
  <1>3. j \in Job /\ j.slot = job[t].slot
    BY <1>2, JobFields
  <1>4. job' = [job EXCEPT ![t] = j]
    BY DEF Copy
  <1>5. j.op = job[t].op /\ j.blocks = job[t].blocks /\ job'[t] = j
    BY <1>4, JobFields DEF Job, Base, TypeOK
  <1> HIDE DEF j
  <1>6. Placed(t)' /\ Inside(t)
    BY <1>1, <1>3, <1>5 DEF Copy, Base, TypeOK, Placed, Entered, Slots, Inside
  <1> QED BY <1>1, <1>3, <1>4, <1>6, JobBase DEF Copy, Base, TypeOK

LEMMA TestBase == ASSUME Base, NEW t \in Threads, Test(t) PROVE Base'
  <1>1. CASE Finish(t)
    BY <1>1, FinishBase DEF Test, Base, TypeOK
  <1>2. CASE ~Finish(t)
    <2> PICK l : l = IF job[t].need = 0 THEN "grow" ELSE "allocate"
      OBVIOUS
    <2>1. l \in PCs /\ Goto(t, l) /\ pc'[t] = l
      BY <1>2 DEF Test, PCs, Goto, Base, TypeOK
    <2>2. Placed(t)' /\ Inside(t)
      BY <1>2, <2>1 DEF Test, Base, TypeOK, Placed, Entered, Slots, Inside
    <2> QED BY <1>2, <2>1, <2>2, MoveBase DEF Test, Base, TypeOK
  <1> QED BY <1>1, <1>2

LEMMA AllocateBase == ASSUME Base, NEW t \in Threads, Allocate(t) PROVE Base'
  <1>1. CASE WithoutBlocks(t) /\ UNCHANGED FATTABLE
    BY <1>1, WithoutBlocksBase DEF Allocate, Base, TypeOK
  <1>2. ASSUME NEW S \in Lowest(job[t].need), FATTABLE' = FATTABLE \union S,
               With(t, "blocks", S), Goto(t, "saveBits"), creator' = creator
        PROVE  Base'
    <2> DEFINE j == [job[t] EXCEPT !.blocks = S]
    <2>1. S \subseteq DataBlocks /\ S \subseteq Int
      BY SpaceAssumption DEF Lowest, Free
    <2>2. j \in Job /\ j.slot = job[t].slot /\ job' = [job EXCEPT ![t] = j] /\ "saveBits" \in PCs
      BY <1>2, <2>1, JobFields DEF With, PCs
    <2>3. j.op = job[t].op /\ j.blocks = S
      BY JobFields DEF Job
    <2> HIDE DEF j
    <2>5. job'[t] = j /\ pc'[t] = "saveBits"
      BY <1>2, <2>2 DEF Base, TypeOK, Goto
    <2>4. Placed(t)' /\ Inside(t)
      BY <2>1, <2>2, <2>3, <2>5 DEF Allocate, Base, TypeOK, Placed, Entered, Slots, Inside
    <2> QED BY <1>2, <2>1, <2>2, <2>4, JobBase DEF Allocate, Base, TypeOK
  <1> QED BY <1>1, <1>2 DEF Allocate

LEMMA SaveBitsBase == ASSUME Base, NEW t \in Threads, SaveBits(t) PROVE Base'
  <1>1. CASE WithoutBlocks(t) /\ FATTABLE' = FATTABLE \ job[t].blocks
    BY <1>1, WithoutBlocksBase DEF SaveBits, Base, TypeOK
  <1>2. CASE Goto(t, "grow") /\ UNCHANGED <<FATTABLE, job, creator>>
    <2>1. Placed(t)' /\ Inside(t) /\ "grow" \in PCs
      BY <1>2 DEF SaveBits, Base, TypeOK, Placed, Entered, Slots, Inside, Goto, PCs
    <2> QED BY <1>2, <2>1, MoveBase DEF SaveBits, Base, TypeOK
  <1> QED BY <1>1, <1>2 DEF SaveBits

LEMMA JobParts ==
  ASSUME Base, NEW t \in Threads
  PROVE  /\ job[t].op \in Operations \union {"none"} /\ job[t].slot \in Nat
         /\ job[t].need \in Nat /\ job[t].blocks \subseteq Int
         /\ job[t].seen \in Int /\ job[t].original \in Int /\ job[t].found \in BOOLEAN
  <1>1. job[t] \in Job
    BY DEF Base, TypeOK
  <1> QED BY <1>1 DEF Job

LEMMA EntryParts ==
  ASSUME NEW e \in Entry
  PROVE  /\ e.first \in Nat /\ e.length \in Nat /\ e.more \subseteq DataBlocks
         /\ e.count \in Nat /\ e.size \in Nat /\ e.dir \in BOOLEAN /\ e.linked \in BOOLEAN
         /\ e.more \subseteq Int /\ Covered(e) \subseteq Int /\ Freed(e) \subseteq Int
  <1>1. /\ e.first \in Nat /\ e.length \in Nat /\ e.more \subseteq DataBlocks
        /\ e.count \in Nat /\ e.size \in Nat /\ e.dir \in BOOLEAN /\ e.linked \in BOOLEAN
    BY DEF Entry
  <1>0. DataBlocks \subseteq Int
    BY SpaceAssumption
  <1>2. e.more \subseteq Int
    BY <1>0, <1>1
  <1>3. Run(e) \subseteq Int
    BY <1>1 DEF Run
  <1>4. e.first + 3 - e.length .. e.first + 1 \subseteq Int
    BY <1>1
  <1> QED BY <1>1, <1>2, <1>3, <1>4 DEF Covered, Freed

LEMMA GrownTyped ==
  ASSUME NEW e \in Entry, NEW c \in SUBSET DataBlocks
  PROVE  Grown(e, c) \in Entry
  <1>1. e.more \union c \in SUBSET DataBlocks /\ e.count + 1 \in Nat
    BY EntryParts
  <1>2. [e EXCEPT !.more = e.more \union c, !.count = e.count + 1] \in Entry
    BY <1>1 DEF Entry
  <1> QED BY <1>2 DEF Grown

LEMMA GrowBase == ASSUME Base, NEW t \in Threads, Grow(t) PROVE Base'
  <1>1. CASE job[t].op = "append"
    <2> DEFINE g == Grown(entries[job[t].slot], job[t].blocks)
    <2>1. job[t].slot \in Slots /\ job[t].blocks \subseteq DataBlocks /\ Inside(t)
      BY <1>1 DEF Grow, Base, Placed, Inside
    <2>2. g \in Entry
      BY <2>1, EntryTyped, GrownTyped DEF Base, TypeOK
    <2>3. entries' = [entries EXCEPT ![job[t].slot] = g]
      BY <1>1, <2>1 DEF Grow, Base, TypeOK, Slots
    <2> HIDE DEF g
    <2>4. entries' \in Seq(Entry) /\ Len(entries') = Len(entries)
      BY <2>1, <2>2, <2>3, EntryTyped DEF Base, TypeOK
    <2>5. flaws' \subseteq Flaws
      BY <1>1, FlawsTyped DEF Grow, Base, TypeOK, Flaws
    <2>6. Goto(t, "size") /\ job' = job /\ "size" \in PCs
      BY <1>1 DEF Grow, PCs
    <2>7. Placed(t)'
      BY <1>1, <2>4, <2>6 DEF Goto, Placed, Entered, Slots, Base, TypeOK
    <2> QED BY <2>1, <2>4, <2>5, <2>6, <2>7, MoveBase DEF Grow, Base, TypeOK
  <1>2. CASE job[t].op = "create"
    <2> DEFINE j == [job[t] EXCEPT !.original = freeBlocks]
    <2>1. j \in Job /\ j.slot = job[t].slot /\ j.op = job[t].op /\ j.blocks = job[t].blocks
      BY JobFields DEF Job, Base, TypeOK
    <2>2. job' = [job EXCEPT ![t] = j] /\ Goto(t, "load") /\ "load" \in PCs /\ entries' = entries
          /\ flaws' = flaws
      BY <1>2 DEF Grow, With, PCs
    <2> HIDE DEF j
    <2>3. job'[t] = j /\ pc'[t] = "load"
      BY <2>2 DEF Base, TypeOK, Goto
    <2>4. Placed(t)' /\ Inside(t)
      BY <1>2, <2>1, <2>2, <2>3 DEF Grow, Base, TypeOK, Placed, Entered, Slots, Inside
    <2> QED BY <2>1, <2>2, <2>4, JobBase DEF Grow, Base, TypeOK
  <1> QED BY <1>1, <1>2 DEF Grow

LEMMA CutBase == ASSUME Base, NEW t \in Threads, Cut(t) PROVE Base'
  <1> DEFINE e == entries[job[t].slot]
  <1> DEFINE g == Shortened(e)
  <1> DEFINE j == [job[t] EXCEPT !.blocks = Freed(e)]
  <1>1. job[t].slot \in Slots /\ Inside(t) /\ job[t].op = "write" /\ e \in Entry
    BY EntryTyped DEF Cut, Base, TypeOK, Placed, Inside
  <1>2. g \in Entry
    BY <1>1 DEF Shortened, Entry
  <1>3. Freed(e) \subseteq Int
    BY <1>1, EntryParts
  <1>4. j \in Job /\ j.slot = job[t].slot /\ j.op = job[t].op
    BY <1>3, JobFields DEF Job
  <1>5. job' = [job EXCEPT ![t] = j] /\ Goto(t, "size") /\ "size" \in PCs
    BY DEF Cut, With, PCs
  <1>6. entries' = [entries EXCEPT ![job[t].slot] = g]
    BY <1>1 DEF Cut, Base, TypeOK, Slots
  <1>7. flaws' \subseteq Flaws /\ FATTABLE' \subseteq DataBlocks
    BY FlawsTyped DEF Cut, Base, TypeOK, Flaws
  <1> HIDE DEF j, g, e
  <1>8. entries' \in Seq(Entry) /\ Len(entries') = Len(entries)
    BY <1>1, <1>2, <1>6, EntryTyped DEF Base, TypeOK
  <1>9. job'[t] = j /\ pc'[t] = "size"
    BY <1>5 DEF Base, TypeOK, Goto
  <1>10. Placed(t)'
    BY <1>1, <1>4, <1>8, <1>9 DEF Base, Placed, Entered, Slots
  <1> QED BY <1>1, <1>4, <1>5, <1>7, <1>8, <1>10, JobBase DEF Cut, Base, TypeOK

LEMMA SizeBase == ASSUME Base, NEW t \in Threads, Size(t) PROVE Base'
  <1>1. job[t].slot \in Slots /\ Inside(t)
    BY DEF Size, Base, Placed, Inside
  <1>2. CASE Finish(t)
    <2>1. UNCHANGED entries /\ Adds("orphan", job[t].op = "append" /\ job[t].blocks # {})
      BY <1>2 DEF Size, Finish, Goto, Base, TypeOK
    <2>2. flaws' \subseteq Flaws
      BY <2>1, FlawsTyped DEF Base, TypeOK, Flaws
    <2> QED BY <1>2, <2>1, <2>2, FinishBase DEF Size, Base, TypeOK
  <1>3. CASE ~Finish(t)
    <2> DEFINE n == IF job[t].op = "append" THEN entries[job[t].slot].size + job[t].need ELSE 1
    <2> DEFINE g == [entries[job[t].slot] EXCEPT !.size = n]
    <2>0. entries[job[t].slot] \in Entry
      BY <1>1, EntryTyped DEF Base, TypeOK
    <2>4. n \in Nat
      BY <2>0, EntryParts, JobParts
    <2>1. g \in Entry
      BY <2>0, <2>4 DEF Entry
    <2>2. entries' = [entries EXCEPT ![job[t].slot] = g] /\ Goto(t, "load") /\ UNCHANGED <<job, creator, flaws>>
      BY <1>1, <1>3 DEF Size, Base, TypeOK, Slots
    <2> HIDE DEF g
    <2>3. entries' \in Seq(Entry) /\ Len(entries') = Len(entries) /\ "load" \in PCs
      BY <1>1, <2>1, <2>2, EntryTyped DEF Base, TypeOK, PCs
    <2>5. Placed(t)'
      BY <1>1, <2>2, <2>3 DEF Size, Base, TypeOK, Placed, Entered, Slots, Goto
    <2> QED BY <1>1, <2>2, <2>3, <2>5, MoveBase DEF Size, Base, TypeOK
  <1> QED BY <1>2, <1>3

LEMMA ClearBase == ASSUME Base, NEW t \in Threads, Clear(t) PROVE Base'
  <1> DEFINE c == Covered(entries[job[t].slot])
  <1> DEFINE j == [job[t] EXCEPT !.blocks = c]
  <1>1. job[t].slot \in Slots /\ Inside(t) /\ job[t].op = "delete" /\ entries[job[t].slot] \in Entry
    BY EntryTyped DEF Clear, Base, TypeOK, Placed, Inside
  <1>2. c \subseteq Int
    BY <1>1, EntryParts
  <1>3. j \in Job /\ j.slot = job[t].slot /\ j.op = job[t].op
    BY <1>2, JobFields DEF Job
  <1>4. job' = [job EXCEPT ![t] = j] /\ Goto(t, "unslot") /\ "unslot" \in PCs
        /\ FATTABLE' \subseteq DataBlocks
    BY DEF Clear, With, PCs, Base, TypeOK
  <1> HIDE DEF j, c
  <1>5. job'[t] = j /\ pc'[t] = "unslot"
    BY <1>4 DEF Base, TypeOK, Goto
  <1>6. Placed(t)'
    BY <1>1, <1>3, <1>5 DEF Base, Placed, Entered, Slots, Clear
  <1> QED BY <1>1, <1>3, <1>4, <1>6, JobBase DEF Clear, Base, TypeOK

\* A slot is emptied, or filled again.
LEMMA LinkedTyped ==
  ASSUME Base, NEW s \in Slots, NEW l \in BOOLEAN, entries' = [entries EXCEPT ![s].linked = l]
  PROVE  entries' \in Seq(Entry) /\ Len(entries') = Len(entries)
  <1> DEFINE g == [entries[s] EXCEPT !.linked = l]
  <1>1. g \in Entry
    BY EntryTyped DEF Entry, Base, TypeOK
  <1>2. entries' = [entries EXCEPT ![s] = g]
    BY DEF Base, TypeOK, Slots
  <1>3. \A e \in Entry : /\ [entries EXCEPT ![s] = e] \in Seq(Entry)
                         /\ Len([entries EXCEPT ![s] = e]) = Len(entries)
    BY EntryTyped DEF Base, TypeOK
  <1> HIDE DEF g
  <1>4. [entries EXCEPT ![s] = g] \in Seq(Entry) /\ Len([entries EXCEPT ![s] = g]) = Len(entries)
    BY <1>1, <1>3
  <1> QED BY <1>2, <1>4, Zenon

LEMMA UnslotBase == ASSUME Base, NEW t \in Threads, Unslot(t) PROVE Base'
  <1>1. job[t].slot \in Slots /\ Inside(t) /\ Goto(t, "load") /\ "load" \in PCs
    BY DEF Unslot, Base, Placed, Inside, PCs
  <1>2. entries' \in Seq(Entry) /\ Len(entries') = Len(entries)
    BY <1>1, LinkedTyped DEF Unslot
  <1>3. Placed(t)'
    BY <1>1, <1>2 DEF Unslot, Base, TypeOK, Placed, Entered, Slots, Goto
  <1> QED BY <1>1, <1>2, <1>3, MoveBase DEF Unslot, Base, TypeOK

LEMMA LoadBase == ASSUME Base, NEW t \in Threads, Load(t) PROVE Base'
  <1> DEFINE j == [job[t] EXCEPT !.seen = freeBlocks]
  <1>1. j \in Job /\ j.slot = job[t].slot /\ j.op = job[t].op /\ j.blocks = job[t].blocks
    BY JobFields DEF Job, Base, TypeOK
  <1>2. job' = [job EXCEPT ![t] = j] /\ Goto(t, "store") /\ "store" \in PCs
    BY DEF Load, With, PCs
  <1> HIDE DEF j
  <1>3. job'[t] = j /\ pc'[t] = "store"
    BY <1>2 DEF Base, TypeOK, Goto
  <1>4. Placed(t)' /\ Inside(t)
    BY <1>1, <1>3 DEF Load, Base, TypeOK, Placed, Entered, Slots, Inside
  <1> QED BY <1>1, <1>2, <1>4, JobBase DEF Load, Base, TypeOK

LEMMA StoreBase == ASSUME Base, NEW t \in Threads, Store(t) PROVE Base'
  <1> PICK l : l = IF job[t].op = "create" THEN "link" ELSE "save"
    OBVIOUS
  <1>1. l \in PCs /\ Goto(t, l) /\ pc'[t] = l
    BY DEF Store, PCs, Goto, Base, TypeOK
  <1>2. Change(t) \in Int
    <2>1. CASE job[t].op = "delete"
      <3>1. entries[job[t].slot] \in Entry
        BY <2>1, EntryTyped DEF Base, TypeOK, Placed
      <3>2. entries[job[t].slot].count \in Int
        BY <3>1, EntryParts
      <3> QED BY <2>1, <3>2 DEF Change
    <2>2. CASE job[t].op # "delete"
      BY <2>2, JobParts DEF Change
    <2> QED BY <2>1, <2>2
  <1>3. flaws' \subseteq Flaws /\ freeBlocks' \in Int
    <2>1. flaws' \subseteq Flaws
      BY FlawsTyped DEF Store, Base, TypeOK, Flaws
    <2> QED BY <1>2, <2>1, JobParts DEF Store
  <1>4. Placed(t)' /\ Inside(t)
    BY <1>1 DEF Store, Base, TypeOK, Placed, Entered, Slots, Inside
  <1> QED BY <1>1, <1>3, <1>4, MoveBase DEF Store, Base, TypeOK

LEMMA LinkBase == ASSUME Base, NEW t \in Threads, Link(t) PROVE Base'
  <1>1. CASE Finish(t) /\ UNCHANGED <<entries, metaIndex, flaws>>
    BY <1>1, FinishBase DEF Link, Base, TypeOK
  <1>2. ASSUME NEW length \in Lengths(job[t].blocks), NEW b \in job[t].blocks, NEW e,
               e = FileOf(job[t].blocks, b, length, job[t].need),
               entries' = Append(entries, e), metaIndex' = metaIndex + 1,
               Adds("merged", Run(e) # job[t].blocks), With(t, "slot", Len(entries) + 1),
               Goto(t, "save"), creator' = creator, UNCHANGED <<FATTABLE, freeBlocks, begun>>,
               pc[t] = "link"
        PROVE  Base'
    <2>1. job[t].op = "create" /\ job[t].blocks \subseteq DataBlocks /\ Inside(t)
      BY <1>2 DEF Base, Placed, Inside
    <2>2. b \in Nat /\ length \in Nat
      <3>1. IsFiniteSet(job[t].blocks) /\ Cardinality(job[t].blocks) \in Nat
        BY <2>1, SpaceAssumption, FS_Subset, FS_CardinalityType
      <3>2. PICK stale \in Nat : length = Cardinality(job[t].blocks) + stale
        BY <1>2, SpaceAssumption DEF Lengths
      <3>3. b \in Nat
        BY <2>1, SpaceAssumption
      <3>4. length \in Nat
        BY <3>1, <3>2
      <3> QED BY <3>3, <3>4
    <2>3. e \in Entry
      BY <1>2, <2>2, JobParts DEF FileOf, Entry
    <2>4. entries' \in Seq(Entry) /\ Len(entries') = Len(entries) + 1 /\ Len(entries) \in Nat
      BY <1>2, <2>3 DEF Base, TypeOK
    <2>5. job' \in [Threads -> Job]
      <3>1. Len(entries) + 1 \in Nat
        BY <2>4
      <3>2. \A n \in Nat : [job EXCEPT ![t].slot = n] \in [Threads -> Job]
        BY JobTyped DEF Base, TypeOK
      <3> QED BY <1>2, <3>1, <3>2 DEF With
    <2>6. /\ job'[t].slot = Len(entries) + 1 /\ pc'[t] = "save"
          /\ job'[t].op = "create" /\ job'[t].blocks = job[t].blocks
      BY <1>2, <2>1 DEF Base, TypeOK, With, Goto, Job
    <2>7. StepOf(t)
      BY <1>2, <2>4 DEF Base, TypeOK, StepOf, With, Goto
    <2>8. TypeOK'
      <3>1. flaws' \subseteq Flaws
        BY <1>2, FlawsTyped DEF Base, TypeOK, Flaws
      <3>2. pc' \in [Threads -> PCs]
        BY <1>2 DEF Base, TypeOK, Goto, PCs
      <3> QED BY <1>2, <2>4, <2>5, <2>6, <2>7, <3>1, <3>2, TypeKept DEF Base, TypeOK
    <2>9. Placed(t)'
      BY <2>1, <2>4, <2>6 DEF Placed, Entered, Slots
    <2> QED BY <2>4, <2>6, <2>7, <2>8, <2>9, BaseKept
  <1> QED BY <1>1, <1>2 DEF Link

LEMMA SaveBase == ASSUME Base, NEW t \in Threads, Save(t) PROVE Base'
  <1>1. CASE Finish(t)
    BY <1>1, FinishBase DEF Save, Base, TypeOK
  <1>2. CASE ~Finish(t)
    <2>1. Goto(t, "undo") /\ "undo" \in PCs /\ pc'[t] = "undo" /\ UNCHANGED <<job, creator>>
      BY <1>2 DEF Save, Goto, PCs, Base, TypeOK
    <2>2. Placed(t)' /\ Inside(t)
      BY <1>2, <2>1 DEF Save, Base, TypeOK, Placed, Entered, Slots, Inside
    <2> QED BY <2>1, <2>2, MoveBase DEF Save, Base, TypeOK
  <1> QED BY <1>1, <1>2

LEMMA UndoBase == ASSUME Base, NEW t \in Threads, Undo(t) PROVE Base'
  <1>1. Goto(t, "restore") /\ "restore" \in PCs /\ pc'[t] = "restore" /\ job' = job /\ Inside(t)
        /\ job[t].slot \in Slots
    BY DEF Undo, Goto, PCs, Base, TypeOK, Inside, Placed, Entered
  <1>2. flaws' \subseteq Flaws
    BY FlawsTyped DEF Undo, Base, TypeOK, Flaws
  <1>3. entries' \in Seq(Entry) /\ Len(entries') = Len(entries)
    <2>1. CASE job[t].op = "create" /\ metaIndex \in Slots
      BY <2>1, LinkedTyped DEF Undo
    <2>2. CASE job[t].op = "create" /\ metaIndex \notin Slots
      BY <2>2 DEF Undo, Base, TypeOK, Slots
    <2>3. CASE job[t].op # "create"
      BY <1>1, <2>3, JobParts, LinkedTyped DEF Undo
    <2> QED BY <2>1, <2>2, <2>3
  <1>4. Placed(t)'
    BY <1>1, <1>3 DEF Undo, Base, TypeOK, Placed, Entered, Slots
  <1> QED BY <1>1, <1>2, <1>3, <1>4, MoveBase DEF Undo, Base, TypeOK

LEMMA RestoreBase == ASSUME Base, NEW t \in Threads, Restore(t) PROVE Base'
  <1>1. freeBlocks' \in Int
    BY JobParts DEF Restore
  <1>2. flaws' \subseteq Flaws
    BY FlawsTyped DEF Restore, Base, TypeOK, Flaws
  <1>3. CASE job[t].op = "append"
    BY <1>1, <1>2, <1>3, FinishBase DEF Restore, Base, TypeOK
  <1>4. CASE job[t].op # "append"
    <2>1. Goto(t, "unmark") /\ "unmark" \in PCs /\ pc'[t] = "unmark" /\ UNCHANGED <<job, creator>>
      BY <1>4 DEF Restore, Goto, PCs, Base, TypeOK
    <2>2. Placed(t)' /\ Inside(t)
      BY <1>4, <2>1 DEF Restore, Base, TypeOK, Placed, Entered, Slots, Inside
    <2> QED BY <1>1, <1>2, <2>1, <2>2, MoveBase DEF Restore, Base, TypeOK
  <1> QED BY <1>3, <1>4

LEMMA UnmarkBase == ASSUME Base, NEW t \in Threads, Unmark(t) PROVE Base'
  <1>1. flaws' \subseteq Flaws
    BY FlawsTyped DEF Unmark, Base, TypeOK, Flaws
  <1> QED BY <1>1, FinishBase DEF Unmark, Base, TypeOK

LEMMA StutterBase == ASSUME Base, UNCHANGED vars PROVE Base'
  BY DEF Base, TypeOK, Placed, LockExclusive, Entered, Inside, Slots, vars

LEMMA StepBase == ASSUME Base, NEW t \in Threads, Step(t) PROVE Base'
  BY PushDirectoryBase, CountDirectoryBase, LockBase, CopyBase, TestBase, AllocateBase,
     SaveBitsBase, GrowBase, CutBase, SizeBase, ClearBase, UnslotBase, LoadBase, StoreBase,
     LinkBase, SaveBase, UndoBase, RestoreBase, UnmarkBase DEF Step

LEMMA NextBase == ASSUME Base, [Next]_vars PROVE Base'
  BY StepBase, CreateBase, EnterBase, MakeDirectoryBase, StutterBase DEF Next

LEMMA BaseInvariant == Spec => []Base
  BY InitBase, NextBase, PTL DEF Spec

\* For any terminals, sizes and blocks: bits are of data blocks, entries and jobs
\* keep their types, and no job points behind the table (filesystem.cpp 4-408).
THEOREM TypeCorrect == Spec => []TypeOK
  BY BaseInvariant, PTL DEF Base

-----------------------------------------------------------------------------
(***************************************************************************)
(* Who has a block.  Until a mistake happens, a block has one holder at    *)
(* most, an entry or a thread, and is marked while it has one.             *)
(***************************************************************************)

\* Threads with blocks that no entry in the table has: just taken, or about to
\* be given back by the rollback of a create.
Keeps(t) == Carries(t) \/ (job[t].op = "create" /\ pc[t] \in {"restore", "unmark"})

Owns(s, b) == s \in Holding /\ b \in Covered(entries[s])
Brings(t, b) == Keeps(t) /\ b \in job[t].blocks

OneHolder ==
  \A b \in DataBlocks :
    /\ \A r, s \in Slots : Owns(r, b) /\ Owns(s, b) => r = s
    /\ \A s \in Slots, t \in Threads : ~(Owns(s, b) /\ Brings(t, b))
    /\ \A t, u \in Threads : Brings(t, b) /\ Brings(u, b) => t = u

Marked ==
  \A b \in DataBlocks :
    /\ \A s \in Slots : Owns(s, b) => b \in FATTABLE
    /\ \A t \in Threads : Brings(t, b) => b \in FATTABLE

\* Extents cover data blocks, and a file has one at least.
Shape(e) == Covered(e) \subseteq DataBlocks /\ (~e.dir => e.length >= 1)
Shaped == \A s \in Slots : Shape(entries[s])

\* What a thread finds in its slot: nobody else changes an entry that is locked.
Fits(t) ==
  /\ job[t].op \in {"append", "write"} => ~entries[job[t].slot].dir
  /\ job[t].op \in {"append", "write"} /\ Inside(t) => entries[job[t].slot].linked
  /\ job[t].op \in {"append", "write"} /\ pc[t] \notin {"idle", "lock", "copy"} => job[t].found
  /\ pc[t] \in {"clear", "unslot"} => entries[job[t].slot].linked
  /\ job[t].op = "delete" /\ pc[t] \in {"load", "store", "save"} => ~entries[job[t].slot].linked
  /\ job[t].op = "create" /\ pc[t] \in {"save", "undo"} =>
       entries[job[t].slot].linked /\ Covered(entries[job[t].slot]) = job[t].blocks
  /\ job[t].op = "create" /\ pc[t] \in {"restore", "unmark"} => ~entries[job[t].slot].linked
  /\ job[t].op = "append" /\ pc[t] \in {"size", "load", "store"} =>
       job[t].blocks \subseteq Covered(entries[job[t].slot])

Held == OneHolder /\ Marked /\ Shaped /\ \A t \in Threads : Fits(t)

Inv == Base /\ (Sound => Held)

LEMMA InitHeld == Init => Held
  BY DEF Init, NoJob, Held, OneHolder, Marked, Shaped, Fits, Owns, Holding, Slots, Brings, Keeps,
         Carries, Inside

\* The blocks of an entry that a thread gives back are not the entry's any more.
Returns(t) == job[t].op = "delete" /\ pc[t] \in {"unslot", "load", "store", "save"}

\* A step of one thread on one entry leaves the others alone ...
Elsewhere(t, x) ==
  /\ StepOf(t)
  /\ Slots' \subseteq Slots \union {x}
  /\ \A s \in Slots \ {x} : entries'[s] = entries[s]
  /\ job[t].slot \in {0, x} /\ job'[t].slot \in {0, x}

\* ... moves blocks between the two, takes blocks whose bit is clear, and clears
\* bits of what it gives up only.
Hands(t, x, b) ==
  /\ Brings(t, b)' \/ Owns(x, b)' => Brings(t, b) \/ Owns(x, b) \/ b \notin FATTABLE
  /\ ~(Brings(t, b)' /\ Owns(x, b)')
  /\ Brings(t, b)' \/ Owns(x, b)' => b \in FATTABLE'
  /\ b \in FATTABLE /\ b \notin FATTABLE' => Brings(t, b) \/ Owns(x, b)

LEMMA OthersKeep ==
  ASSUME Base, NEW t \in Threads, NEW x, Elsewhere(t, x)
  PROVE  /\ \A u \in Threads \ {t}, b \in DataBlocks : Brings(u, b)' <=> Brings(u, b)
         /\ \A s \in Slots' \ {x} : s \in Slots /\ \A b \in DataBlocks : Owns(s, b)' <=> Owns(s, b)
  <1> USE DEF Elsewhere, StepOf
  <1>1. \A u \in Threads \ {t}, b \in DataBlocks : Brings(u, b)' <=> Brings(u, b)
    BY DEF Brings, Keeps, Carries
  <1>2. ASSUME NEW s \in Slots' \ {x}, NEW b \in DataBlocks PROVE Owns(s, b)' <=> Owns(s, b)
    <2>1. s \in Slots /\ s # 0 /\ entries'[s] = entries[s]
      BY <1>2 DEF Slots
    <2>2. job[t].slot # s /\ job'[t].slot # s
      BY <1>2, <2>1
    <2>3. Deleted(s)' <=> Deleted(s)
      BY <2>2 DEF Deleted
    <2> QED BY <1>2, <2>1, <2>3 DEF Owns, Holding
  <1> QED BY <1>1, <1>2

LEMMA OwnsInSlots == ASSUME NEW x PROVE \A b : Owns(x, b) => x \in Slots
  BY DEF Owns, Holding

LEMMA HeldKept ==
  ASSUME Base, Held, Base', NEW t \in Threads, NEW x, Elsewhere(t, x),
         x \in Slots => \/ entries'[x] = entries[x]
                        \/ Inside(t) /\ x = job[t].slot /\ entries'[x].dir = entries[x].dir,
         x \in Slots' => Shape(entries'[x]),
         Fits(t)', \A b \in DataBlocks : Hands(t, x, b)
  PROVE  Held'
  <1>1. /\ \A u \in Threads \ {t}, b \in DataBlocks : Brings(u, b)' <=> Brings(u, b)
        /\ \A s \in Slots' \ {x} : s \in Slots /\ \A b \in DataBlocks : Owns(s, b)' <=> Owns(s, b)
    BY OthersKeep
  <1>2. \A b : Owns(x, b) => x \in Slots
    BY OwnsInSlots
  <1>3. Marked'
    BY <1>1, <1>2 DEF Held, Marked, OneHolder, Hands
  <1>4. OneHolder'
    BY <1>1, <1>2 DEF Held, Marked, OneHolder, Hands
  <1>5. Shaped'
    <2> SUFFICES ASSUME NEW s \in Slots' PROVE Shape(entries'[s])
      BY DEF Shaped, Shape, Covered, Run
    <2> QED BY DEF Elsewhere, Held, Shaped
  <1>6. ASSUME NEW u \in Threads \ {t} PROVE Fits(u)'
    <2>1. pc'[u] = pc[u] /\ job'[u] = job[u] /\ Fits(u) /\ Placed(u)
      BY DEF Elsewhere, StepOf, Held, Base
    <2>2. job[u].slot # 0 /\ Inside(u) => entries'[job[u].slot] = entries[job[u].slot]
      BY DEF Elsewhere, Base, LockExclusive, TypeOK, Slots
    <2>3. job[u].slot \in Slots => entries'[job[u].slot].dir = entries[job[u].slot].dir
      BY DEF Elsewhere
    <2>4. job[u].op \in {"append", "write", "delete"} \/ Entered(u) => job[u].slot \in Slots /\ job[u].slot # 0
      BY <2>1 DEF Placed, Slots
    <2> QED BY <2>1, <2>2, <2>3, <2>4 DEF Fits, Inside, Entered, Placed
  <1> QED BY <1>3, <1>4, <1>5, <1>6 DEF Held

\* A step that leaves the entries and the bitmap alone.
LEMMA QuietHeld ==
  ASSUME Base, Held, Base', NEW t \in Threads, NEW x, StepOf(t),
         job[t].slot \in {0, x}, job'[t].slot \in {0, x},
         entries' = entries, FATTABLE' = FATTABLE, Fits(t)',
         x \in Slots => \/ ~entries[x].linked
                        \/ (job[t].slot = x /\ Returns(t) <=> job'[t].slot = x /\ Returns(t)'),
         \A b \in DataBlocks : Brings(t, b)' => Brings(t, b)
  PROVE  Held'
  <1>1. Elsewhere(t, x) /\ Slots' = Slots
    BY DEF Elsewhere, Slots
  <1>2. \A b : Owns(x, b)' <=> Owns(x, b)
    <2>1. CASE x \in Slots /\ ~(~entries[x].linked)
      <3>1. Deleted(x)' <=> Deleted(x)
        BY <2>1 DEF Deleted, Returns, StepOf
      <3> QED BY <3>1, <1>1 DEF Owns, Holding
    <2>2. CASE x \notin Slots \/ ~entries[x].linked
      BY <2>2, <1>1 DEF Owns, Holding
    <2> QED BY <2>1, <2>2
  <1>3. \A b \in DataBlocks : Hands(t, x, b)
    BY <1>2, OwnsInSlots DEF Held, OneHolder, Marked, Hands
  <1>4. x \in Slots' => Shape(entries'[x])
    BY <1>1 DEF Held, Shaped
  <1>5. entries'[x] = entries[x]
    OBVIOUS
  <1> QED BY <1>1, <1>3, <1>4, <1>5, HeldKept

LEMMA FinishFields ==
  ASSUME Base, NEW t \in Threads, Finish(t), Len(entries') = Len(entries)
  PROVE  StepOf(t) /\ job'[t] = NoJob /\ pc'[t] = "idle"
  BY DEF StepOf, Finish, Goto, Base, TypeOK

LEMMA BlocksFields ==
  ASSUME Base, NEW t \in Threads, NEW c, With(t, "blocks", c), NEW l, Goto(t, l), Len(entries') = Len(entries)
  PROVE  /\ StepOf(t) /\ pc'[t] = l /\ job'[t].blocks = c
         /\ job'[t].op = job[t].op /\ job'[t].slot = job[t].slot /\ job'[t].need = job[t].need
         /\ job'[t].found = job[t].found /\ job'[t].original = job[t].original
  <1>1. StepOf(t) /\ pc'[t] = l /\ job'[t] = [job[t] EXCEPT !.blocks = c]
    BY DEF StepOf, With, Goto, Base, TypeOK
  <1>2. job[t] \in Job
    BY JobFields
  <1> QED BY <1>1, <1>2 DEF Job

LEMMA NumberFields ==
  ASSUME Base, NEW t \in Threads, NEW n, With(t, "original", n) \/ With(t, "seen", n)
  PROVE  /\ job'[t].blocks = job[t].blocks /\ job'[t].op = job[t].op /\ job'[t].slot = job[t].slot
         /\ job'[t].need = job[t].need /\ job'[t].found = job[t].found
         /\ With(t, "original", n) => job'[t].original = n
         /\ With(t, "seen", n) => job'[t].seen = n /\ job'[t].original = job[t].original
  <1>1. job[t] \in Job
    BY JobFields
  <1>2. CASE With(t, "original", n)
    <2>1. job'[t] = [job[t] EXCEPT !.original = n]
      BY <1>2 DEF With, Base, TypeOK
    <2>2. With(t, "seen", n) => job'[t] = [job[t] EXCEPT !.seen = n]
      BY DEF With, Base, TypeOK
    <2> QED BY <1>1, <2>1, <2>2 DEF Job
  <1>3. CASE With(t, "seen", n)
    <2>1. job'[t] = [job[t] EXCEPT !.seen = n]
      BY <1>3 DEF With, Base, TypeOK
    <2>2. With(t, "original", n) => job'[t] = [job[t] EXCEPT !.original = n]
      BY DEF With, Base, TypeOK
    <2> QED BY <1>1, <2>1, <2>2 DEF Job
  <1> QED BY <1>2, <1>3

LEMMA FinishHeld ==
  ASSUME Base, Held, Base', NEW t \in Threads, Finish(t), pc[t] \notin {"idle", "unslot"},
         entries' = entries, FATTABLE' = FATTABLE,
         Returns(t) => ~entries[job[t].slot].linked
  PROVE  Held'
  <1>1. StepOf(t) /\ job'[t] = NoJob /\ pc'[t] = "idle"
    BY DEF StepOf, Finish, Goto, Base, TypeOK
  <1>2. Fits(t)' /\ job'[t].slot = 0 /\ (\A b : ~Brings(t, b)') /\ ~Returns(t)'
    BY <1>1 DEF Fits, NoJob, Brings, Keeps, Carries, Returns
  <1>3. job[t].slot \in Slots => \/ ~entries[job[t].slot].linked
                                 \/ ~Returns(t) /\ ~Returns(t)'
    BY <1>2
  <1> QED BY <1>1, <1>2, <1>3, QuietHeld

\* From one place to another, with the same blocks.
LEMMA MoveHeld ==
  ASSUME Base, Held, Base', NEW t \in Threads, NEW l, Goto(t, l),
         StepOf(t), job'[t].slot = job[t].slot, job'[t].op = job[t].op,
         entries' = entries, FATTABLE' = FATTABLE, Fits(t)',
         Returns(t)' <=> Returns(t), \A b \in DataBlocks : Brings(t, b)' => Brings(t, b)
  PROVE  Held'
  BY QuietHeld

LEMMA BeginHeld ==
  ASSUME Base, Held, Base', NEW t \in Threads, NEW j, Begins(t, j), NEW l, Goto(t, l),
         l \in {"allocate", "lock", "push"},
         j.op \in {"append", "write"} => j.slot \in Slots /\ ~entries[j.slot].dir,
         l \in {"allocate", "push"} => j.op \in {"create", "mkdir"}
  PROVE  Held'
  <1>1. StepOf(t) /\ job'[t] = j /\ pc'[t] = l /\ entries' = entries /\ FATTABLE' = FATTABLE
    BY DEF StepOf, Begins, Goto, Base, TypeOK
  <1>2. job[t].slot = 0 /\ ~Returns(t)
    BY DEF Begins, Base, Placed, NoJob, Returns
  <1>3. ~Returns(t)' /\ (\A b : ~Brings(t, b)')
    BY <1>1 DEF Returns, Brings, Keeps, Carries
  <1>4. Fits(t)'
    BY <1>1 DEF Fits, Inside
  <1> QED BY <1>1, <1>2, <1>3, <1>4, QuietHeld

LEMMA CreateHeld ==
  ASSUME Base, Held, Base', NEW t \in Threads, NEW need, Create(t, need)
  PROVE  Held'
  <1>1. [NoJob EXCEPT !.op = "create", !.need = need].op = "create"
    BY DEF NoJob
  <1> QED BY <1>1, BeginHeld DEF Create

LEMMA EnterHeld ==
  ASSUME Base, Held, Base', NEW t \in Threads, NEW op \in Operations, NEW s \in Slots,
         NEW need \in {0, 1}, Enter(t, op, s, need)
  PROVE  Held'
  <1> PICK j : j = [NoJob EXCEPT !.op = op, !.slot = s, !.need = need]
    OBVIOUS
  <1>1. j.op = op /\ j.slot = s
    BY NewJobFields
  <1>2. Begins(t, j) /\ Goto(t, "lock") /\ (op \in {"append", "write"} => ~entries[s].dir)
    BY DEF Enter
  <1> QED BY <1>1, <1>2, BeginHeld

LEMMA MakeDirectoryHeld ==
  ASSUME Base, Held, Base', NEW t \in Threads, MakeDirectory(t)
  PROVE  Held'
  <1>1. [NoJob EXCEPT !.op = "mkdir"].op = "mkdir"
    BY DEF NoJob
  <1> QED BY <1>1, BeginHeld DEF MakeDirectory

LEMMA PushDirectoryHeld ==
  ASSUME Base, Held, Base', NEW t \in Threads, PushDirectory(t)
  PROVE  Held'
  <1> PICK x : x = Len(entries) + 1
    OBVIOUS
  <1>1. Len(entries) \in Nat /\ x \in Nat /\ x \notin Slots /\ Slots' = Slots \union {x}
        /\ Len(entries') = Len(entries) + 1
        /\ (\A s \in Slots : entries'[s] = entries[s]) /\ entries'[x] = Directory
    BY DEF PushDirectory, Base, TypeOK, Slots
  <1>2. job[t].slot = 0 /\ job[t].op = "mkdir" /\ job' = job /\ pc'[t] = "count"
    BY DEF PushDirectory, Base, TypeOK, Placed, Entered, Goto
  <1>3. Elsewhere(t, x)
    BY <1>1, <1>2 DEF Elsewhere, StepOf, PushDirectory, Goto, Base, TypeOK
  <1>4. Covered(entries'[x]) = {} /\ entries'[x].dir
    BY <1>1 DEF Directory, Covered, Run
  <1>5. Shape(entries'[x]) /\ Fits(t)'
    BY <1>2, <1>4 DEF Shape, Fits, Covered, Run
  <1>8. \A b : ~Brings(t, b)'
    BY <1>2 DEF Brings, Keeps, Carries
  <1>6. ASSUME NEW b PROVE ~Owns(x, b)'
    BY <1>4 DEF Owns, Covered, Run
  <1>7. \A b \in DataBlocks : Hands(t, x, b)
    BY <1>6, <1>8 DEF Hands, PushDirectory
  <1> QED BY <1>1, <1>3, <1>5, <1>7, HeldKept

LEMMA CountDirectoryHeld ==
  ASSUME Base, Held, Base', NEW t \in Threads, CountDirectory(t)
  PROVE  Held'
  <1>1. ~Returns(t)
    BY DEF CountDirectory, Returns
  <1> QED BY <1>1, FinishHeld DEF CountDirectory

LEMMA LockHeld ==
  ASSUME Base, Held, Base', Sound', NEW t \in Threads, Lock(t)
  PROVE  Held'
  <1> PICK l : l = IF job[t].op = "delete" THEN "clear" ELSE "copy"
    OBVIOUS
  <1>1. Goto(t, l) /\ pc'[t] = l /\ StepOf(t) /\ job' = job
    BY DEF Lock, Goto, Base, TypeOK, StepOf
  <1>2. entries[job[t].slot].linked
    BY DEF Lock, Adds, Sound
  <1>3. Fits(t)' /\ (Returns(t)' <=> Returns(t)) /\ \A b : ~Brings(t, b)'
    BY <1>1, <1>2 DEF Lock, Fits, Held, Returns, Brings, Keeps, Carries, Base, Placed
  <1> QED BY <1>1, <1>3, MoveHeld DEF Lock

LEMMA CopyHeld ==
  ASSUME Base, Held, Base', NEW t \in Threads, Copy(t)
  PROVE  Held'
  <1> PICK l : l = IF job[t].op = "append" THEN "test" ELSE "cut"
    OBVIOUS
  <1>1. Goto(t, l) /\ pc'[t] = l /\ StepOf(t)
    BY DEF Copy, Goto, Base, TypeOK, StepOf
  <1>2. job'[t].slot = job[t].slot /\ job'[t].op = job[t].op /\ job'[t].blocks = job[t].blocks
        /\ job'[t].found = entries[job[t].slot].linked
    BY JobFields DEF Copy, Job, Base, TypeOK
  <1>3. Fits(t)' /\ (Returns(t)' <=> Returns(t)) /\ \A b : ~Brings(t, b)'
    BY <1>1, <1>2 DEF Copy, Fits, Inside, Held, Returns, Brings, Keeps, Carries, Base, Placed
  <1> QED BY <1>1, <1>2, <1>3, MoveHeld DEF Copy

LEMMA TestHeld ==
  ASSUME Base, Held, Base', NEW t \in Threads, Test(t)
  PROVE  Held'
  <1>1. CASE Finish(t)
    BY <1>1, FinishHeld DEF Test, Returns
  <1>2. CASE ~Finish(t)
    <2> PICK l : l = IF job[t].need = 0 THEN "grow" ELSE "allocate"
      OBVIOUS
    <2>1. Goto(t, l) /\ pc'[t] = l /\ job' = job /\ StepOf(t) /\ job[t].blocks = {}
      BY <1>2 DEF Test, Goto, Base, TypeOK, StepOf, Placed
    <2>2. Fits(t)' /\ (Returns(t)' <=> Returns(t)) /\ \A b : ~Brings(t, b)'
      BY <2>1 DEF Test, Fits, Inside, Held, Returns, Brings, Keeps, Carries, Base, Placed
    <2> QED BY <2>1, <2>2, MoveHeld DEF Test
  <1> QED BY <1>1, <1>2

\* An append that goes on without blocks, a create that gives up: the bits of
\* the blocks it may have had are clear.
LEMMA WithoutBlocksHeld ==
  ASSUME Base, Held, Base', NEW t \in Threads, WithoutBlocks(t), pc[t] \in {"allocate", "saveBits"},
         entries' = entries, FATTABLE' = FATTABLE \ job[t].blocks
  PROVE  Held'
  <1> PICK x : x = job[t].slot
    OBVIOUS
  <1>a. /\ StepOf(t) /\ job[t].op \in {"create", "append"}
        /\ \/ job'[t] = NoJob /\ pc'[t] = "idle"
           \/ /\ job'[t].op = "append" /\ job[t].op = "append" /\ pc'[t] = "grow"
              /\ job'[t].slot = x /\ job'[t].blocks = {} /\ job'[t].found = job[t].found
    <2>1. CASE Finish(t)
      BY <2>1, FinishFields DEF Base, Placed
    <2>2. CASE ~Finish(t)
      BY <2>2, BlocksFields DEF WithoutBlocks
    <2> QED BY <2>1, <2>2
  <1>1. job'[t].slot \in {0, x} /\ ~Returns(t) /\ ~Returns(t)' /\ Slots' = Slots
    BY <1>a DEF NoJob, Returns, Slots
  <1>2. (\A b : ~Brings(t, b)') /\ Fits(t)'
    BY <1>a DEF NoJob, Fits, Held, Inside, Brings, Keeps, Carries
  <1>3. \A b : Owns(x, b)' <=> Owns(x, b)
    <2>1. Deleted(x)' <=> Deleted(x)
      BY <1>a, <1>1 DEF Deleted, Returns, StepOf
    <2> QED BY <2>1, <1>1 DEF Owns, Holding
  <1>4. Elsewhere(t, x)
    BY <1>a, <1>1 DEF Elsewhere
  <1>5. ASSUME NEW b \in DataBlocks PROVE Hands(t, x, b)
    <2>1. b \in job[t].blocks => Brings(t, b)
      BY DEF Brings, Keeps, Carries, Base, Placed
    <2> QED BY <1>2, <1>3, <2>1, OwnsInSlots DEF Hands, Held, OneHolder, Marked
  <1>6. x \in Slots' => Shape(entries'[x])
    BY <1>1 DEF Held, Shaped
  <1>7. entries'[x] = entries[x]
    OBVIOUS
  <1> QED BY <1>2, <1>4, <1>5, <1>6, <1>7, HeldKept

LEMMA AllocateHeld ==
  ASSUME Base, Held, Base', NEW t \in Threads, Allocate(t)
  PROVE  Held'
  <1>1. CASE WithoutBlocks(t) /\ UNCHANGED FATTABLE
    <2>1. job[t].blocks = {}
      BY DEF Allocate, Base, Placed
    <2> QED BY <1>1, <2>1, WithoutBlocksHeld DEF Allocate
  <1>2. ASSUME NEW S \in Lowest(job[t].need), FATTABLE' = FATTABLE \union S,
               With(t, "blocks", S), Goto(t, "saveBits")
        PROVE  Held'
    <2> PICK x : x = job[t].slot
      OBVIOUS
    <2>1. StepOf(t) /\ job'[t].slot = x /\ job'[t].op = job[t].op /\ job'[t].blocks = S
          /\ job'[t].found = job[t].found /\ pc'[t] = "saveBits" /\ entries' = entries
      BY <1>2, BlocksFields DEF Allocate
    <2>2. /\ ~Returns(t) /\ ~Returns(t)' /\ Slots' = Slots /\ Elsewhere(t, x)
          /\ job[t].op \in {"create", "append"}
      BY <2>1 DEF Returns, Slots, Elsewhere, Allocate, Base, Placed
    <2>3. Fits(t)'
      BY <2>1, <2>2 DEF Fits, Held, Inside, Allocate
    <2>4. \A b : Owns(x, b)' <=> Owns(x, b)
      <3>1. Deleted(x)' <=> Deleted(x)
        BY <2>1, <2>2 DEF Deleted, Returns, StepOf
      <3> QED BY <2>1, <2>2, <3>1 DEF Owns, Holding
    <2>5. \A b : Brings(t, b)' => b \in S
      BY <2>1 DEF Brings
    <2>6. \A b \in S : b \notin FATTABLE
      BY DEF Lowest, Free
    <2>7. \A b \in DataBlocks : Hands(t, x, b)
      BY <1>2, <2>4, <2>5, <2>6, OwnsInSlots DEF Hands, Held, OneHolder, Marked
    <2>8. x \in Slots' => Shape(entries'[x])
      BY <2>1, <2>2 DEF Held, Shaped
    <2>9. entries'[x] = entries[x]
      BY <2>1
    <2> QED BY <2>2, <2>3, <2>7, <2>8, <2>9, HeldKept
  <1> QED BY <1>1, <1>2 DEF Allocate

LEMMA SaveBitsHeld ==
  ASSUME Base, Held, Base', NEW t \in Threads, SaveBits(t)
  PROVE  Held'
  <1>1. CASE WithoutBlocks(t) /\ FATTABLE' = FATTABLE \ job[t].blocks
    BY <1>1, WithoutBlocksHeld DEF SaveBits
  <1>2. CASE Goto(t, "grow") /\ UNCHANGED <<FATTABLE, job, creator>>
    <2>1. pc'[t] = "grow" /\ StepOf(t)
      BY <1>2 DEF SaveBits, Goto, Base, TypeOK, StepOf
    <2>2. Fits(t)' /\ (Returns(t)' <=> Returns(t)) /\ \A b : Brings(t, b)' => Brings(t, b)
      BY <1>2, <2>1 DEF SaveBits, Fits, Inside, Held, Returns, Brings, Keeps, Carries, Base, Placed
    <2> QED BY <1>2, <2>1, <2>2, MoveHeld DEF SaveBits
  <1> QED BY <1>1, <1>2 DEF SaveBits

\* The thread whose entry has a lock is the only one that could delete it.
LEMMA LockedKeeps ==
  ASSUME Base, NEW t \in Threads, Inside(t), job[t].slot # 0, ~Returns(t)
  PROVE  ~Deleted(job[t].slot)
  BY DEF Base, LockExclusive, Deleted, Inside, Returns

LEMMA GrowHeld ==
  ASSUME Base, Held, Base', NEW t \in Threads, Grow(t)
  PROVE  Held'
  <1>1. CASE job[t].op = "append"
    <2> PICK x, e, g : x = job[t].slot /\ e = entries[x] /\ g = Grown(e, job[t].blocks)
      OBVIOUS
    <2>1. x \in Slots /\ x # 0 /\ Inside(t) /\ e \in Entry /\ e.linked /\ ~e.dir /\ Shape(e)
          /\ job[t].blocks \subseteq DataBlocks
      BY <1>1, EntryTyped DEF Grow, Base, TypeOK, Placed, Inside, Slots, Held, Fits, Shaped
    <2>2. /\ Goto(t, "size") /\ job' = job /\ pc'[t] = "size" /\ FATTABLE' = FATTABLE
          /\ entries' = [entries EXCEPT ![x] = g]
      BY <1>1, <2>1 DEF Grow, Goto, Base, TypeOK, Slots
    <2>3. /\ entries'[x] = g /\ Len(entries') = Len(entries) /\ Slots' = Slots
          /\ \A s \in Slots \ {x} : entries'[s] = entries[s]
      BY <2>1, <2>2 DEF Base, TypeOK, Slots
    <2>4. Elsewhere(t, x)
      BY <2>2, <2>3 DEF Elsewhere, StepOf, Goto, Base, TypeOK
    <2>5. Covered(g) = Covered(e) \union job[t].blocks /\ g.linked /\ ~g.dir /\ g.dir = e.dir /\ g.length = e.length
      BY <2>1, EntryParts DEF Grown, Covered, Run, Entry
    <2>6. Shape(g) /\ Fits(t)' /\ ~Returns(t) /\ ~Returns(t)'
      <3>1. Shape(g)
        BY <2>1, <2>5 DEF Shape
      <3>2. job[t].found
        BY <1>1 DEF Held, Fits, Grow
      <3>3. job[t].blocks \subseteq Covered(entries'[x])
        BY <2>3, <2>5
      <3>4. Fits(t)'
        BY <1>1, <2>2, <2>3, <2>5, <3>2, <3>3 DEF Fits, Covered, Run
      <3>5. ~Returns(t) /\ ~Returns(t)'
        BY <1>1, <2>2 DEF Returns
      <3> QED BY <3>1, <3>4, <3>5
    <2>7. ASSUME NEW b \in DataBlocks PROVE Hands(t, x, b)
      <3>1. Owns(x, b)' => b \in Covered(e) \union job[t].blocks
        BY <2>3, <2>5 DEF Owns, Covered, Run
      <3>2. x \in Holding
        BY <2>1, <2>6, LockedKeeps DEF Holding
      <3>3. b \in Covered(e) => Owns(x, b)
        BY <3>2 DEF Owns
      <3>4. b \in job[t].blocks => Brings(t, b)
        BY DEF Brings, Keeps, Carries, Grow
      <3>5. ~Brings(t, b)'
        BY <1>1, <2>2 DEF Brings, Keeps, Carries
      <3> QED BY <2>1, <2>2, <3>1, <3>3, <3>4, <3>5 DEF Hands, Held, Marked
    <2> QED BY <2>1, <2>3, <2>4, <2>5, <2>6, <2>7, HeldKept
  <1>2. CASE job[t].op = "create"
    <2>1. Goto(t, "load") /\ pc'[t] = "load" /\ StepOf(t) /\ entries' = entries /\ FATTABLE' = FATTABLE
      BY <1>2 DEF Grow, Goto, Base, TypeOK, StepOf, With
    <2>2. job'[t].slot = job[t].slot /\ job'[t].op = job[t].op /\ job'[t].blocks = job[t].blocks
      BY <1>2, NumberFields DEF Grow
    <2>3. Fits(t)' /\ (Returns(t)' <=> Returns(t)) /\ \A b : Brings(t, b)' => Brings(t, b)
      BY <1>2, <2>1, <2>2 DEF Fits, Returns, Brings, Keeps, Carries, Grow
    <2> QED BY <2>1, <2>2, <2>3, MoveHeld
  <1> QED BY <1>1, <1>2 DEF Grow

LEMMA CutHeld ==
  ASSUME Base, Held, Base', Sound', NEW t \in Threads, Cut(t)
  PROVE  Held'
  <1> PICK x, e, g : x = job[t].slot /\ e = entries[x] /\ g = Shortened(e)
    OBVIOUS
  <1>1. /\ x \in Slots /\ x # 0 /\ Inside(t) /\ e \in Entry /\ e.linked /\ ~e.dir /\ Shape(e)
        /\ job[t].op = "write" /\ job[t].found
    BY EntryTyped DEF Cut, Base, TypeOK, Placed, Inside, Slots, Held, Fits, Shaped
  <1>2. /\ Goto(t, "size") /\ FATTABLE' = FATTABLE \ Freed(e)
        /\ entries' = [entries EXCEPT ![x] = g]
    BY <1>1 DEF Cut, Base, TypeOK, Slots
  <1>3. /\ entries'[x] = g /\ Len(entries') = Len(entries) /\ Slots' = Slots
        /\ \A s \in Slots \ {x} : entries'[s] = entries[s]
    BY <1>1, <1>2 DEF Base, TypeOK, Slots
  <1>4. /\ StepOf(t) /\ pc'[t] = "size" /\ job'[t].slot = x /\ job'[t].op = "write"
        /\ job'[t].found = job[t].found
    BY <1>1, <1>3, BlocksFields DEF Cut
  <1>5. Elsewhere(t, x)
    BY <1>3, <1>4 DEF Elsewhere
  <1>6. Freed(e) \subseteq Covered(e) \ Covered(g)
    BY DEF Cut, Adds, Sound
  <1>7. Covered(g) \subseteq Covered(e) /\ g.linked /\ ~g.dir /\ g.dir = e.dir /\ g.length >= 1
    BY <1>1, EntryParts DEF Shape, Shortened, Covered, Run, Entry
  <1>8. Shape(g)
    BY <1>1, <1>7 DEF Shape
  <1>9. Fits(t)' /\ ~Returns(t) /\ ~Returns(t)'
    BY <1>1, <1>3, <1>4, <1>7 DEF Fits, Returns
  <1>10. ASSUME NEW b \in DataBlocks PROVE Hands(t, x, b)
    <2>1. Owns(x, b)' => b \in Covered(g)
      BY <1>3 DEF Owns, Covered, Run
    <2>2. x \in Holding
      BY <1>1, <1>9, LockedKeeps DEF Holding
    <2>3. b \in Covered(e) => Owns(x, b)
      BY <2>2 DEF Owns
    <2>4. ~Brings(t, b)'
      BY <1>4 DEF Brings, Keeps, Carries
    <2> QED BY <1>1, <1>2, <1>6, <1>7, <2>1, <2>3, <2>4 DEF Hands, Held, Marked
  <1> QED BY <1>1, <1>3, <1>5, <1>7, <1>8, <1>9, <1>10, HeldKept

LEMMA SizeHeld ==
  ASSUME Base, Held, Base', NEW t \in Threads, Size(t)
  PROVE  Held'
  <1>0. ~Returns(t)
    BY DEF Size, Returns
  <1>1. CASE Finish(t)
    <2>1. entries' = entries
      BY <1>1 DEF Size, Finish, Goto, Base, TypeOK
    <2> QED BY <1>0, <1>1, <2>1, FinishHeld DEF Size
  <1>2. CASE ~Finish(t)
    <2> PICK x, e, n, g :
          /\ x = job[t].slot /\ e = entries[x]
          /\ n = IF job[t].op = "append" THEN e.size + job[t].need ELSE 1
          /\ g = [e EXCEPT !.size = n]
      OBVIOUS
    <2>1. /\ x \in Slots /\ x # 0 /\ Inside(t) /\ e \in Entry /\ e.linked /\ ~e.dir /\ Shape(e)
          /\ job[t].op \in {"append", "write"} /\ job[t].found
      BY EntryTyped DEF Size, Base, TypeOK, Placed, Inside, Slots, Held, Fits, Shaped
    <2>2. /\ Goto(t, "load") /\ FATTABLE' = FATTABLE /\ job' = job /\ pc'[t] = "load"
          /\ entries' = [entries EXCEPT ![x] = g]
      BY <1>2, <2>1 DEF Size, Goto, Base, TypeOK, Slots
    <2>3. /\ entries'[x] = g /\ Len(entries') = Len(entries) /\ Slots' = Slots
          /\ \A s \in Slots \ {x} : entries'[s] = entries[s]
      BY <2>1, <2>2 DEF Base, TypeOK, Slots
    <2>4. Elsewhere(t, x)
      BY <2>2, <2>3 DEF Elsewhere, StepOf, Goto, Base, TypeOK
    <2>5. Covered(g) = Covered(e) /\ g.linked /\ ~g.dir /\ g.dir = e.dir /\ g.length = e.length
      BY <2>1 DEF Covered, Run, Entry
    <2>6. Shape(g)
      BY <2>1, <2>5 DEF Shape
    <2>7. ~Returns(t)'
      BY <2>1, <2>2 DEF Returns
    <2>8. Fits(t)'
      <3>1. job[t].op = "append" => job[t].blocks \subseteq Covered(entries'[x])
        BY <2>3, <2>5 DEF Held, Fits, Size
      <3> QED BY <2>1, <2>2, <2>3, <2>5, <3>1 DEF Fits, Covered, Run
    <2>9. ASSUME NEW b \in DataBlocks PROVE Hands(t, x, b)
      <3>1. Owns(x, b)' => b \in Covered(e)
        BY <2>3, <2>5 DEF Owns, Covered, Run
      <3>2. x \in Holding
        BY <1>0, <2>1, LockedKeeps DEF Holding
      <3>3. b \in Covered(e) => Owns(x, b)
        BY <3>2 DEF Owns
      <3>4. ~Brings(t, b)'
        BY <2>1, <2>2 DEF Brings, Keeps, Carries
      <3> QED BY <2>1, <2>2, <3>1, <3>3, <3>4 DEF Hands, Held, Marked
    <2> QED BY <2>1, <2>3, <2>4, <2>5, <2>6, <2>8, <2>9, HeldKept
  <1> QED BY <1>1, <1>2

LEMMA ClearHeld ==
  ASSUME Base, Held, Base', NEW t \in Threads, Clear(t)
  PROVE  Held'
  <1> PICK x, e : x = job[t].slot /\ e = entries[x]
    OBVIOUS
  <1>1. x \in Slots /\ x # 0 /\ Inside(t) /\ job[t].op = "delete" /\ e.linked /\ ~Returns(t)
    BY DEF Clear, Base, Placed, Inside, Slots, Held, Fits, Returns
  <1>2. /\ StepOf(t) /\ pc'[t] = "unslot" /\ job'[t].slot = x /\ job'[t].op = "delete"
        /\ entries' = entries /\ FATTABLE' = FATTABLE \ Covered(e)
    BY <1>1, BlocksFields DEF Clear
  <1>3. Elsewhere(t, x) /\ Slots' = Slots /\ Fits(t)'
    BY <1>1, <1>2 DEF Elsewhere, Slots, Fits
  <1>4. ASSUME NEW b \in DataBlocks PROVE Hands(t, x, b)
    <2>1. ~Owns(x, b)'
      BY <1>2 DEF Owns, Holding, Deleted
    <2>2. x \in Holding
      BY <1>1, LockedKeeps DEF Holding
    <2>3. b \in Covered(e) => Owns(x, b)
      BY <2>2 DEF Owns
    <2>4. ~Brings(t, b)'
      BY <1>2 DEF Brings, Keeps, Carries
    <2> QED BY <1>2, <2>1, <2>3, <2>4 DEF Hands
  <1>5. entries'[x] = entries[x] /\ Shape(entries'[x])
    BY <1>1, <1>2 DEF Held, Shaped
  <1> QED BY <1>3, <1>4, <1>5, HeldKept

\* A slot is emptied.
LEMMA EmptiedSlot ==
  ASSUME Base, NEW x \in Slots, entries' = [entries EXCEPT ![x].linked = FALSE]
  PROVE  /\ Len(entries') = Len(entries) /\ Slots' = Slots
         /\ \A s \in Slots \ {x} : entries'[s] = entries[s]
         /\ ~entries'[x].linked /\ Covered(entries'[x]) = Covered(entries[x])
         /\ entries'[x].dir = entries[x].dir /\ entries'[x].length = entries[x].length
  <1>1. entries[x] \in Entry
    BY EntryTyped DEF Base, TypeOK
  <1> DEFINE g == [entries[x] EXCEPT !.linked = FALSE]
  <1>3. entries' = [entries EXCEPT ![x] = g] /\ entries \in Seq(Entry)
    BY DEF Base, TypeOK
  <1> HIDE DEF g
  <1>4. /\ Len(entries') = Len(entries) /\ Slots' = Slots
        /\ \A s \in Slots \ {x} : entries'[s] = entries[s]
        /\ entries'[x] = g
    BY <1>3 DEF Slots
  <1>2. /\ Len(entries') = Len(entries) /\ Slots' = Slots
        /\ \A s \in Slots \ {x} : entries'[s] = entries[s]
        /\ entries'[x] = [entries[x] EXCEPT !.linked = FALSE]
    BY <1>4 DEF g
  <1> QED BY <1>1, <1>2 DEF Entry, Covered, Run

LEMMA UnslotHeld ==
  ASSUME Base, Held, Base', NEW t \in Threads, Unslot(t)
  PROVE  Held'
  <1> PICK x : x = job[t].slot
    OBVIOUS
  <1>1. /\ x \in Slots /\ x # 0 /\ Inside(t) /\ job[t].op = "delete" /\ pc[t] = "unslot"
        /\ entries' = [entries EXCEPT ![x].linked = FALSE] /\ FATTABLE' = FATTABLE
    BY DEF Unslot, Base, Placed, Inside, Slots
  <1>2. /\ Len(entries') = Len(entries) /\ Slots' = Slots
        /\ \A s \in Slots \ {x} : entries'[s] = entries[s]
        /\ ~entries'[x].linked /\ Covered(entries'[x]) = Covered(entries[x])
        /\ entries'[x].dir = entries[x].dir /\ entries'[x].length = entries[x].length
    BY <1>1, EmptiedSlot
  <1>3. pc'[t] = "load" /\ job' = job /\ StepOf(t)
    BY <1>2 DEF Unslot, Goto, Base, TypeOK, StepOf
  <1>4. Elsewhere(t, x) /\ Fits(t)'
    BY <1>1, <1>2, <1>3 DEF Elsewhere, Fits
  <1>5. Shape(entries'[x])
    BY <1>1, <1>2 DEF Shape, Held, Shaped
  <1>6. ASSUME NEW b \in DataBlocks PROVE Hands(t, x, b)
    <2>1. ~Owns(x, b)'
      BY <1>2 DEF Owns, Holding
    <2>2. ~Brings(t, b)'
      BY <1>1, <1>3 DEF Brings, Keeps, Carries
    <2> QED BY <1>1, <2>1, <2>2 DEF Hands
  <1> QED BY <1>1, <1>2, <1>4, <1>5, <1>6, HeldKept

LEMMA LoadHeld ==
  ASSUME Base, Held, Base', NEW t \in Threads, Load(t)
  PROVE  Held'
  <1>1. pc'[t] = "store" /\ StepOf(t) /\ Goto(t, "store") /\ entries' = entries /\ FATTABLE' = FATTABLE
    BY DEF Load, Goto, With, Base, TypeOK, StepOf
  <1>2. /\ job'[t].blocks = job[t].blocks /\ job'[t].op = job[t].op /\ job'[t].slot = job[t].slot
        /\ job'[t].found = job[t].found
    BY NumberFields DEF Load
  <1>3. Fits(t)' /\ (Returns(t)' <=> Returns(t)) /\ \A b : Brings(t, b)' => Brings(t, b)
    <2>1. Fits(t) /\ Fits(t)'
      BY <1>1, <1>2 DEF Fits, Inside, Covered, Run, Load, Held
    <2>2. (Returns(t)' <=> Returns(t)) /\ \A b : Brings(t, b)' => Brings(t, b)
      BY <1>1, <1>2 DEF Returns, Brings, Keeps, Carries, Load
    <2> QED BY <2>1, <2>2
  <1> QED BY <1>1, <1>2, <1>3, MoveHeld

LEMMA StoreHeld ==
  ASSUME Base, Held, Base', NEW t \in Threads, Store(t)
  PROVE  Held'
  <1> PICK l : l = IF job[t].op = "create" THEN "link" ELSE "save"
    OBVIOUS
  <1>1. pc'[t] = l /\ StepOf(t) /\ Goto(t, l) /\ entries' = entries /\ FATTABLE' = FATTABLE /\ job' = job
    BY DEF Store, Goto, Base, TypeOK, StepOf
  <1>2. Fits(t)'
    BY <1>1 DEF Fits, Inside, Store, Held
  <1>3. (Returns(t)' <=> Returns(t)) /\ \A b : Brings(t, b)' => Brings(t, b)
    BY <1>1 DEF Returns, Brings, Keeps, Carries, Store
  <1> QED BY <1>1, <1>2, <1>3, MoveHeld

LEMMA LinkHeld ==
  ASSUME Base, Held, Base', Sound', NEW t \in Threads, Link(t)
  PROVE  Held'
  <1>1. CASE Finish(t) /\ UNCHANGED entries
    BY <1>1, FinishHeld DEF Link, Returns, Base, Placed
  <1>2. ASSUME NEW length \in Lengths(job[t].blocks), NEW b \in job[t].blocks, NEW e,
               e = FileOf(job[t].blocks, b, length, job[t].need),
               entries' = Append(entries, e),
               Adds("merged", Run(e) # job[t].blocks), With(t, "slot", Len(entries) + 1),
               Goto(t, "save"), FATTABLE' = FATTABLE, pc[t] = "link"
        PROVE  Held'
    <2> PICK x : x = Len(entries) + 1
      OBVIOUS
    <2>1. Len(entries) \in Nat /\ x \in Nat /\ x \notin Slots /\ Slots' = Slots \union {x}
          /\ Len(entries') = Len(entries) + 1
          /\ (\A s \in Slots : entries'[s] = entries[s]) /\ entries'[x] = e
      BY <1>2 DEF Base, TypeOK, Slots
    <2>2. /\ job'[t].slot = x /\ job'[t].op = "create" /\ job'[t].blocks = job[t].blocks
          /\ pc'[t] = "save" /\ job[t].slot = 0 /\ job[t].op = "create"
          /\ job[t].blocks \subseteq DataBlocks
      <3>1. job[t] \in Job /\ job'[t] = [job[t] EXCEPT !.slot = x] /\ pc'[t] = "save"
        BY <1>2, JobFields DEF Base, TypeOK, With, Goto
      <3>2. job[t].slot = 0 /\ job[t].op = "create" /\ job[t].blocks \subseteq DataBlocks
        BY <1>2 DEF Base, Placed, Entered
      <3> QED BY <3>1, <3>2 DEF Job
    <2>3. Elsewhere(t, x)
      BY <1>2, <2>1, <2>2 DEF Elsewhere, StepOf, With, Goto, Base, TypeOK
    <2>4. Covered(e) = job[t].blocks /\ e.linked /\ e.length = length /\ e.first = b
      BY <1>2 DEF Adds, Sound, Covered, FileOf, Run
    <2>5. Shape(e)
      <3>1. length \in Int /\ b \in Int
        <4>1. IsFiniteSet(job[t].blocks) /\ Cardinality(job[t].blocks) \in Nat
          BY <2>2, SpaceAssumption, FS_Subset, FS_CardinalityType
        <4>2. PICK stale \in Nat : length = Cardinality(job[t].blocks) + stale
          BY SpaceAssumption DEF Lengths
        <4>3. b \in Int
          <5>1. DataBlocks \subseteq Int
            BY SpaceAssumption
          <5> QED BY <2>2, <5>1
        <4> QED BY <4>1, <4>2, <4>3
      <3>2. b \in Run(e)
        BY <1>2, <2>4 DEF Adds, Sound
      <3>3. length >= 1
        BY <2>4, <3>1, <3>2 DEF Run
      <3> QED BY <2>2, <2>4, <3>3 DEF Shape
    <2>6. Fits(t)'
      BY <2>1, <2>2, <2>4 DEF Fits, Covered, Run
    <2>7. ASSUME NEW c \in DataBlocks PROVE Hands(t, x, c)
      <3>1. Owns(x, c)' => c \in job[t].blocks
        BY <2>1, <2>4 DEF Owns, Covered, Run
      <3>2. c \in job[t].blocks => Brings(t, c)
        BY <1>2, <2>2 DEF Brings, Keeps, Carries
      <3>3. ~Brings(t, c)'
        BY <2>2 DEF Brings, Keeps, Carries
      <3> QED BY <1>2, <3>1, <3>2, <3>3 DEF Hands, Held, Marked
    <2> QED BY <2>1, <2>3, <2>5, <2>6, <2>7, HeldKept
  <1> QED BY <1>1, <1>2 DEF Link

LEMMA SaveHeld ==
  ASSUME Base, Held, Base', NEW t \in Threads, Save(t)
  PROVE  Held'
  <1>1. CASE Finish(t)
    <2>1. Returns(t) => ~entries[job[t].slot].linked
      BY DEF Returns, Held, Fits, Save
    <2> QED BY <1>1, <2>1, FinishHeld DEF Save
  <1>2. CASE ~Finish(t)
    <2>1. /\ Goto(t, "undo") /\ pc'[t] = "undo" /\ job' = job /\ StepOf(t)
          /\ entries' = entries /\ FATTABLE' = FATTABLE /\ job[t].op # "delete" /\ pc[t] = "save"
      BY <1>2 DEF Save, Goto, Base, TypeOK, StepOf
    <2>2. Fits(t)'
      BY <2>1 DEF Fits, Inside, Held, Covered, Run
    <2>3. (Returns(t)' <=> Returns(t)) /\ \A b : Brings(t, b)' => Brings(t, b)
      BY <2>1 DEF Returns, Brings, Keeps, Carries
    <2> QED BY <2>1, <2>2, <2>3, MoveHeld
  <1> QED BY <1>1, <1>2

LEMMA UndoHeld ==
  ASSUME Base, Held, Base', Sound', NEW t \in Threads, Undo(t)
  PROVE  Held'
  <1> PICK x : x = job[t].slot
    OBVIOUS
  <1>1. /\ x \in Slots /\ x # 0 /\ Inside(t) /\ pc[t] = "undo" /\ FATTABLE' = FATTABLE
        /\ Goto(t, "restore") /\ pc'[t] = "restore" /\ job' = job
    BY DEF Undo, Base, TypeOK, Placed, Entered, Inside, Slots, Goto
  <1>2. CASE job[t].op = "create"
    <2>0. metaIndex = x
      BY <1>2 DEF Undo, Adds, Sound
    <2>1. entries' = [entries EXCEPT ![x].linked = FALSE]
      BY <1>2, <2>0 DEF Undo
    <2>2. /\ Len(entries') = Len(entries) /\ Slots' = Slots
          /\ \A s \in Slots \ {x} : entries'[s] = entries[s]
          /\ ~entries'[x].linked /\ Covered(entries'[x]) = Covered(entries[x])
          /\ entries'[x].dir = entries[x].dir /\ entries'[x].length = entries[x].length
      BY <1>1, <2>1, EmptiedSlot
    <2>3. Elsewhere(t, x)
      BY <1>1, <2>2 DEF Elsewhere, StepOf, Goto, Base, TypeOK
    <2>4. Fits(t)' /\ Shape(entries'[x])
      BY <1>1, <1>2, <2>2 DEF Fits, Shape, Held, Shaped
    <2>5. ASSUME NEW b \in DataBlocks PROVE Hands(t, x, b)
      <3>1. ~Owns(x, b)'
        BY <2>2 DEF Owns, Holding
      <3>2. Brings(t, b)' => b \in Covered(entries[x])
        BY <1>1, <1>2 DEF Brings, Held, Fits
      <3>3. x \in Holding
        BY <1>1, <1>2, LockedKeeps DEF Holding, Held, Fits, Returns
      <3>4. b \in Covered(entries[x]) => Owns(x, b)
        BY <3>3 DEF Owns
      <3> QED BY <1>1, <3>1, <3>2, <3>4 DEF Hands, Held, Marked
    <2> QED BY <1>1, <2>2, <2>3, <2>4, <2>5, HeldKept
  <1>3. CASE job[t].op # "create"
    <2>1. job[t].op \in {"append", "write"} /\ job[t].found /\ entries[x].linked
      BY <1>1, <1>3 DEF Base, Placed, Held, Fits
    <2>2. entries[x] \in Entry /\ job[t].found = TRUE
      BY <1>1, <2>1, EntryTyped, JobParts DEF Base, TypeOK
    <2>3. [entries[x] EXCEPT !.linked = job[t].found] = entries[x]
      BY <2>1, <2>2 DEF Entry
    <2>4. entries' = [entries EXCEPT ![x] = [entries[x] EXCEPT !.linked = job[t].found]]
      BY <1>1, <1>3 DEF Undo, Base, TypeOK, Slots
    <2>5. entries' = entries
      BY <1>1, <2>3, <2>4 DEF Base, TypeOK, Slots
    <2>6. StepOf(t)
      BY <1>1, <2>5 DEF StepOf, Goto, Base, TypeOK
    <2>7. Fits(t)'
      BY <1>1, <2>1, <2>5 DEF Fits, Held
    <2>8. (Returns(t)' <=> Returns(t)) /\ \A b : ~Brings(t, b)'
      BY <1>1, <2>1 DEF Returns, Brings, Keeps, Carries
    <2> QED BY <1>1, <2>5, <2>6, <2>7, <2>8, MoveHeld
  <1> QED BY <1>2, <1>3

LEMMA RestoreHeld ==
  ASSUME Base, Held, Base', NEW t \in Threads, Restore(t)
  PROVE  Held'
  <1>1. pc[t] = "restore" /\ entries' = entries /\ FATTABLE' = FATTABLE
        /\ job[t].op \in {"create", "append", "write"}
    BY DEF Restore, Base, Placed
  <1>2. CASE job[t].op = "append"
    BY <1>1, <1>2, FinishHeld DEF Restore, Returns
  <1>3. CASE job[t].op # "append"
    <2>1. Goto(t, "unmark") /\ pc'[t] = "unmark" /\ job' = job /\ StepOf(t)
      BY <1>1, <1>3 DEF Restore, Goto, Base, TypeOK, StepOf
    <2>2. Fits(t)'
      BY <1>1, <1>3, <2>1 DEF Fits, Inside, Held
    <2>3. (Returns(t)' <=> Returns(t)) /\ \A b : Brings(t, b)' => Brings(t, b)
      BY <1>1, <2>1 DEF Returns, Brings, Keeps, Carries
    <2> QED BY <1>1, <2>1, <2>2, <2>3, MoveHeld
  <1> QED BY <1>2, <1>3

LEMMA UnmarkHeld ==
  ASSUME Base, Held, Base', Sound', NEW t \in Threads, Unmark(t)
  PROVE  Held'
  <1>1. pc[t] = "unmark" /\ job[t].op \in {"create", "write"} /\ Finish(t) /\ entries' = entries
        /\ FATTABLE' = FATTABLE \ job[t].blocks
    BY DEF Unmark, Base, Placed
  <1>2. CASE job[t].op = "write"
    <2>1. FATTABLE' = FATTABLE
      BY <1>1, <1>2 DEF Unmark, Adds, Sound
    <2> QED BY <1>1, <1>2, <2>1, FinishHeld DEF Returns
  <1>3. CASE job[t].op = "create"
    <2> PICK x : x = job[t].slot
      OBVIOUS
    <2>1. /\ StepOf(t) /\ job'[t] = NoJob /\ pc'[t] = "idle" /\ x \in Slots /\ Slots' = Slots
          /\ ~entries[x].linked
      BY <1>1, <1>3, FinishFields DEF Base, Placed, Entered, Slots, Held, Fits
    <2>2. Elsewhere(t, x) /\ Fits(t)' /\ Shape(entries'[x])
      BY <1>1, <2>1 DEF Elsewhere, NoJob, Fits, Held, Shaped
    <2>3. ASSUME NEW b \in DataBlocks PROVE Hands(t, x, b)
      <3>1. ~Owns(x, b)' /\ ~Brings(t, b)'
        BY <1>1, <2>1 DEF Owns, Holding, Brings, Keeps, Carries
      <3>2. b \in job[t].blocks => Brings(t, b)
        BY <1>1, <1>3 DEF Brings, Keeps
      <3> QED BY <1>1, <3>1, <3>2 DEF Hands
    <2>4. entries'[x] = entries[x]
      BY <1>1
    <2> QED BY <2>1, <2>2, <2>3, <2>4, HeldKept
  <1> QED BY <1>1, <1>2, <1>3

LEMMA StepHeld ==
  ASSUME Base, Held, Base', Sound', NEW t \in Threads, Step(t)
  PROVE  Held'
  BY PushDirectoryHeld, CountDirectoryHeld, LockHeld, CopyHeld, TestHeld, AllocateHeld,
     SaveBitsHeld, GrowHeld, CutHeld, SizeHeld, ClearHeld, UnslotHeld, LoadHeld, StoreHeld,
     LinkHeld, SaveHeld, UndoHeld, RestoreHeld, UnmarkHeld DEF Step

LEMMA StutterHeld == ASSUME Base, Held, UNCHANGED vars PROVE Held'
  <1> USE DEF vars
  <1>1. Shaped' /\ \A t \in Threads : Fits(t)'
    BY DEF Held, Shaped, Shape, Fits, Inside, Slots, Covered, Run
  <1>2. /\ \A s, b : Owns(s, b)' <=> Owns(s, b)
        /\ \A t, b : Brings(t, b)' <=> Brings(t, b)
    BY DEF Owns, Holding, Deleted, Slots, Brings, Keeps, Carries, Covered, Run
  <1>3. OneHolder' /\ Marked'
    BY <1>2 DEF Held, OneHolder, Marked, Slots
  <1> QED BY <1>1, <1>3 DEF Held

\* Mistakes are remembered.
LEMMA FlawsGrow == ASSUME [Next]_vars PROVE flaws \subseteq flaws'
  <1>1. ASSUME NEW t \in Threads, Step(t) PROVE flaws \subseteq flaws'
    BY <1>1 DEF Step, PushDirectory, CountDirectory, Lock, Copy, Test, Allocate, SaveBits, Grow,
       Cut, Size, Clear, Unslot, Load, Store, Link, Save, Undo, Restore, Unmark, Adds
  <1> QED BY <1>1 DEF Next, Create, Enter, MakeDirectory, Begins, vars

LEMMA NextInv == ASSUME Inv, [Next]_vars PROVE Inv'
  <1>1. Base /\ Base'
    BY NextBase DEF Inv
  <1>2. ASSUME Sound' PROVE Held'
    <2>1. Held
      BY <1>2, FlawsGrow DEF Inv, Sound
    <2> QED BY <1>1, <1>2, <2>1, StepHeld, CreateHeld, EnterHeld, MakeDirectoryHeld, StutterHeld DEF Next
  <1> QED BY <1>1, <1>2 DEF Inv

LEMMA Invariance == Spec => []Inv
  <1>1. Init => Inv
    BY InitBase, InitHeld DEF Inv
  <1> QED BY <1>1, NextInv, PTL DEF Spec

\* However creates of any size and the other commands of the terminals
\* interleave, and wherever saves fail, no block is in two files, or in a file and
\* in the hands of a command (filesystem.cpp 4-408, centralised.cpp 34-77,
\* rollback.cpp), before one of the mistakes that Sound excludes has been made.
THEOREM BlocksExclusive == Spec => []BlocksDisjoint
  <1>1. Inv => BlocksDisjoint
    <2> SUFFICES ASSUME Inv, Sound PROVE BlocksDisjoint
      BY DEF BlocksDisjoint
    <2>1. \A s \in Holding : s \in Slots /\ Covered(entries[s]) \subseteq DataBlocks
      BY DEF Holding, Inv, Held, Shaped, Shape
    <2>2. \A t \in Threads : Carries(t) => job[t].blocks \subseteq DataBlocks
      BY DEF Inv, Base, Placed, Carries
    <2> QED BY <2>1, <2>2 DEF BlocksDisjoint, Inv, Held, OneHolder, Owns, Brings, Keeps
  <1> QED BY <1>1, Invariance, PTL

\* Until then the bit of every block that a file has, or that a command has taken
\* for one, is set (centralised.cpp 34-77): it cannot be handed out again.
THEOREM UsedBlocksMarked == Spec => []BlocksMarked
  <1>1. Inv => BlocksMarked
    <2> SUFFICES ASSUME Inv, Sound PROVE BlocksMarked
      BY DEF BlocksMarked
    <2>1. \A s \in Holding : s \in Slots /\ Covered(entries[s]) \subseteq DataBlocks
      BY DEF Holding, Inv, Held, Shaped, Shape
    <2>2. \A t \in Threads : Carries(t) => job[t].blocks \subseteq DataBlocks
      BY DEF Inv, Base, Placed, Carries
    <2> QED BY <2>1, <2>2 DEF BlocksMarked, Inv, Held, Marked, Owns, Brings, Keeps
  <1> QED BY <1>1, Invariance, PTL

-----------------------------------------------------------------------------
(***************************************************************************)
(* The counter.  Between the bitmap and the counter stand the commands     *)
(* that have changed one and not yet the other: a thread with blocks that  *)
(* are marked and not counted, one that has counted a block it did not     *)
(* get, one that has cleared bits and not counted them.                    *)
(***************************************************************************)

\* Blocks that are marked and not counted.
Pending(t) ==
  IF \/ pc[t] \in {"saveBits", "grow"}
     \/ job[t].op = "create" /\ pc[t] \in {"load", "store", "unmark"}
     \/ job[t].op = "append" /\ pc[t] \in {"size", "load", "store"}
  THEN job[t].blocks ELSE {}

\* Blocks that were cleared and not counted, and, as block 0, the one that was
\* counted and was not to be had.
Debt(t) ==
  IF job[t].op = "delete" /\ pc[t] \in {"unslot", "load", "store"} THEN job[t].blocks
  ELSE IF /\ job[t].op = "append" /\ job[t].blocks = {} /\ job[t].need = 1
          /\ pc[t] \in {"save", "undo", "restore"}
       THEN {0} ELSE {}

Unspent == {b \in DataBlocks : b \notin FATTABLE \/ \E t \in Threads : b \in Pending(t)}
Debts == {p \in Threads \X Int : p[2] \in Debt(p[1])}

\* What a command has in its hands at each place.
JobFits(t) ==
  /\ job[t].op \in {"create", "append"} => job[t].blocks = {} \/ Cardinality(job[t].blocks) = job[t].need
  /\ job[t].op = "create" => pc[t] = "allocate" \/ Cardinality(job[t].blocks) = job[t].need
  /\ job[t].op \in {"write", "delete"} => job[t].need = 0
  /\ job[t].op = "append" => job[t].need \in {0, 1}
  /\ job[t].op = "delete" /\ pc[t] \in {"unslot", "load", "store"} =>
       job[t].blocks = Covered(entries[job[t].slot])

\* The lengths of an entry add up to the blocks it covers.
Counted == \A s \in Slots : entries[s].count = Cardinality(Covered(entries[s]))

\* The counter promises no more than the bitmap has, but for these.
Balance == freeBlocks + Cardinality(Debts) <= Cardinality(Unspent)

Exact == Counted /\ (\A t \in Threads : JobFits(t)) /\ IsFiniteSet(Debts) /\ Balance

Books == Inv /\ (flaws = {} => Exact)

LEMMA BlocksFinite ==
  ASSUME NEW c, c \subseteq DataBlocks
  PROVE  IsFiniteSet(c) /\ Cardinality(c) \in Nat
  BY SpaceAssumption, FS_Subset, FS_CardinalityType

\* A pending block is the thread's or its entry's.
LEMMA PendingHeld ==
  ASSUME Base, Held, NEW t \in Threads, NEW b \in Pending(t)
  PROVE  /\ b \in DataBlocks /\ b \in FATTABLE
         /\ \/ Brings(t, b)
            \/ Inside(t) /\ job[t].slot \in Slots /\ job[t].slot # 0 /\ Owns(job[t].slot, b)
  <1>1. b \in job[t].blocks /\ job[t].op \in {"create", "append"}
    BY DEF Pending, Base, Placed
  <1>2. b \in DataBlocks
    BY <1>1 DEF Base, Placed
  <1>3. CASE Keeps(t)
    BY <1>1, <1>2, <1>3 DEF Brings, Held, Marked
  <1>4. CASE ~Keeps(t)
    <2>1. job[t].op = "append" /\ pc[t] \in {"size", "load", "store"}
      BY <1>1, <1>4 DEF Pending, Keeps, Carries
    <2>2. Inside(t) /\ job[t].slot \in Slots /\ job[t].slot # 0 /\ ~Returns(t)
      BY <2>1 DEF Inside, Base, Placed, Slots, Returns
    <2>3. entries[job[t].slot].linked /\ b \in Covered(entries[job[t].slot])
      BY <1>1, <2>1, <2>2 DEF Held, Fits
    <2>4. Owns(job[t].slot, b)
      BY <2>2, <2>3, LockedKeeps DEF Owns, Holding
    <2> QED BY <1>2, <2>2, <2>4 DEF Held, Marked
  <1> QED BY <1>3, <1>4

LEMMA PendingApart ==
  ASSUME Base, Held, NEW t \in Threads, NEW u \in Threads, t # u, NEW b \in Pending(t)
  PROVE  b \notin Pending(u)
  <1> SUFFICES ASSUME b \in Pending(u) PROVE FALSE
    OBVIOUS
  <1>1. /\ b \in DataBlocks
        /\ \/ Brings(t, b)
           \/ Inside(t) /\ job[t].slot \in Slots /\ job[t].slot # 0 /\ Owns(job[t].slot, b)
        /\ \/ Brings(u, b)
           \/ Inside(u) /\ job[u].slot \in Slots /\ job[u].slot # 0 /\ Owns(job[u].slot, b)
    BY PendingHeld
  <1> QED BY <1>1 DEF Held, OneHolder, Base, LockExclusive

LEMMA DebtFinite ==
  ASSUME Base, Held, NEW t \in Threads, JobFits(t)
  PROVE  Debt(t) \subseteq Int /\ IsFiniteSet(Debt(t)) /\ Cardinality(Debt(t)) \in Nat
  <1>1. CASE job[t].op = "delete" /\ pc[t] \in {"unslot", "load", "store"}
    <2>1. job[t].slot \in Slots
      BY <1>1 DEF Base, Placed
    <2>2. Debt(t) \subseteq DataBlocks
      BY <1>1, <2>1 DEF Debt, JobFits, Held, Shaped, Shape
    <2>3. DataBlocks \subseteq Int
      BY SpaceAssumption
    <2>4. IsFiniteSet(Debt(t)) /\ Cardinality(Debt(t)) \in Nat
      BY <2>2, BlocksFinite
    <2> QED BY <2>2, <2>3, <2>4
  <1>2. CASE ~(job[t].op = "delete" /\ pc[t] \in {"unslot", "load", "store"})
    <2>1. Debt(t) = {} \/ Debt(t) = {0}
      BY <1>2 DEF Debt
    <2>2. IsFiniteSet({}) /\ Cardinality({}) = 0
      BY FS_EmptySet
    <2>3. IsFiniteSet({0}) /\ Cardinality({0}) = 1
      BY FS_Singleton
    <2>4. Debt(t) \subseteq Int
      BY <2>1
    <2>5. IsFiniteSet(Debt(t)) /\ Cardinality(Debt(t)) \in Nat
      BY <2>1, <2>2, <2>3
    <2> QED BY <2>4, <2>5
  <1> QED BY <1>1, <1>2

\* The pairs of one thread.
LEMMA OwnPairs ==
  ASSUME NEW t, NEW B, IsFiniteSet(B)
  PROVE  /\ IsFiniteSet({t} \X B) /\ Cardinality({t} \X B) = Cardinality(B)
         /\ Cardinality(B) \in Nat
  <1>1. IsFiniteSet({t}) /\ Cardinality({t}) = 1
    BY FS_Singleton
  <1>2. IsFiniteSet({t} \X B) /\ Cardinality({t} \X B) = Cardinality({t}) * Cardinality(B)
    BY <1>1, FS_Product
  <1>3. Cardinality(B) \in Nat
    BY FS_CardinalityType
  <1> QED BY <1>1, <1>2, <1>3

\* Two finite sets without a common member.
LEMMA Apart ==
  ASSUME NEW A, NEW B, IsFiniteSet(A), IsFiniteSet(B), \A x \in A : x \notin B
  PROVE  /\ IsFiniteSet(A \union B)
         /\ Cardinality(A) \in Nat /\ Cardinality(B) \in Nat
         /\ Cardinality(A \union B) = Cardinality(A) + Cardinality(B)
  <1>1. A \cap B = {}
    OBVIOUS
  <1>2. /\ IsFiniteSet(A \union B)
        /\ Cardinality(A \union B) = Cardinality(A) + Cardinality(B) - Cardinality(A \cap B)
    BY FS_Union
  <1>3. Cardinality(A \cap B) = 0 /\ Cardinality(A) \in Nat /\ Cardinality(B) \in Nat
    BY <1>1, FS_EmptySet, FS_CardinalityType
  <1> QED BY <1>2, <1>3

\* The debts of one thread and those of the others.
LEMMA DebtsSplit ==
  ASSUME NEW t \in Threads, NEW D, D = {p \in (Threads \ {t}) \X Int : p[2] \in Debt(p[1])},
         Debt(t) \subseteq Int, IsFiniteSet(Debt(t)), IsFiniteSet(D)
  PROVE  /\ IsFiniteSet(Debts)
         /\ Cardinality(Debts) = Cardinality(D) + Cardinality(Debt(t))
  <1>1. Debts = D \union ({t} \X Debt(t))
    BY DEF Debts
  <1>2. \A p \in D : p \notin {t} \X Debt(t)
    OBVIOUS
  <1>3. IsFiniteSet({t} \X Debt(t)) /\ Cardinality({t} \X Debt(t)) = Cardinality(Debt(t))
    BY OwnPairs
  <1> QED BY <1>1, <1>2, <1>3, Apart

\* The blocks within one thread's reach, and those that others have in hand.
Reach(t) == Free \union Pending(t)
Others(t) == {b \in DataBlocks : \E u \in Threads \ {t} : b \in Pending(u)}

LEMMA UnspentSplit ==
  ASSUME Base, Held, NEW t \in Threads
  PROVE  /\ Cardinality(Unspent) = Cardinality(Reach(t)) + Cardinality(Others(t))
         /\ Reach(t) \subseteq DataBlocks
         /\ Cardinality(Reach(t)) \in Nat /\ Cardinality(Others(t)) \in Nat
  <1>1. \A u \in Threads : \A b \in Pending(u) : b \in DataBlocks /\ b \in FATTABLE
    BY PendingHeld
  <1>2. Unspent = Reach(t) \union Others(t)
    BY <1>1 DEF Unspent, Reach, Others, Free
  <1>3. \A b \in Reach(t) : b \notin Others(t)
    BY <1>1, PendingApart DEF Reach, Others, Free
  <1>4. Reach(t) \subseteq DataBlocks /\ Others(t) \subseteq DataBlocks
    BY <1>1 DEF Reach, Others, Free
  <1>5. IsFiniteSet(Reach(t)) /\ IsFiniteSet(Others(t))
    BY <1>4, BlocksFinite
  <1> QED BY <1>2, <1>3, <1>4, <1>5, Apart

\* The same after a step.
LEMMA SplitsLater ==
  ASSUME NEW t \in Threads, NEW D
  PROVE  /\ (Base /\ Held =>
                /\ Cardinality(Unspent) = Cardinality(Reach(t)) + Cardinality(Others(t))
                /\ Reach(t) \subseteq DataBlocks
                /\ Cardinality(Reach(t)) \in Nat /\ Cardinality(Others(t)) \in Nat)'
         /\ (Base /\ Held /\ JobFits(t) =>
                Debt(t) \subseteq Int /\ IsFiniteSet(Debt(t)) /\ Cardinality(Debt(t)) \in Nat)'
         /\ (D = {p \in (Threads \ {t}) \X Int : p[2] \in Debt(p[1])}
              /\ Debt(t) \subseteq Int /\ IsFiniteSet(Debt(t)) /\ IsFiniteSet(D) =>
                /\ IsFiniteSet(Debts)
                /\ Cardinality(Debts) = Cardinality(D) + Cardinality(Debt(t)))'
  <1>1. Base /\ Held =>
                /\ Cardinality(Unspent) = Cardinality(Reach(t)) + Cardinality(Others(t))
                /\ Reach(t) \subseteq DataBlocks
                /\ Cardinality(Reach(t)) \in Nat /\ Cardinality(Others(t)) \in Nat
    BY UnspentSplit
  <1>2. Base /\ Held /\ JobFits(t) =>
                Debt(t) \subseteq Int /\ IsFiniteSet(Debt(t)) /\ Cardinality(Debt(t)) \in Nat
    BY DebtFinite
  <1>3. D = {p \in (Threads \ {t}) \X Int : p[2] \in Debt(p[1])}
          /\ Debt(t) \subseteq Int /\ IsFiniteSet(Debt(t)) /\ IsFiniteSet(D) =>
                /\ IsFiniteSet(Debts)
                /\ Cardinality(Debts) = Cardinality(D) + Cardinality(Debt(t))
    <2> SUFFICES ASSUME D = {p \in (Threads \ {t}) \X Int : p[2] \in Debt(p[1])},
                        Debt(t) \subseteq Int, IsFiniteSet(Debt(t)), IsFiniteSet(D)
                 PROVE  /\ IsFiniteSet(Debts)
                        /\ Cardinality(Debts) = Cardinality(D) + Cardinality(Debt(t))
      OBVIOUS
    <2> QED BY DebtsSplit
  <1> QED BY <1>1, <1>2, <1>3, PTL

\* A step of one thread changes the accounts by what that thread has and owes.
LEMMA ExactKept ==
  ASSUME Base, Held, Base', Held', Exact, NEW t \in Threads, StepOf(t),
         \A s \in Slots : entries'[s] = entries[s] \/ (Inside(t) /\ s = job[t].slot),
         Counted', JobFits(t)',
         freeBlocks' + Cardinality(Debt(t)') + Cardinality(Reach(t))
           <= freeBlocks + Cardinality(Debt(t)) + Cardinality(Reach(t)')
  PROVE  Exact'
  <1>1. \A u \in Threads \ {t} : pc'[u] = pc[u] /\ job'[u] = job[u]
    BY DEF StepOf
  <1>2. \A u \in Threads : JobFits(u)'
    <2> SUFFICES ASSUME NEW u \in Threads \ {t} PROVE JobFits(u)'
      OBVIOUS
    <2>1. job[u].op = "delete" /\ pc[u] \in {"unslot", "load", "store"} =>
            entries'[job[u].slot] = entries[job[u].slot]
      BY DEF Base, Placed, LockExclusive, Inside, Slots
    <2> QED BY <1>1, <2>1 DEF Exact, JobFits, Covered, Run
  <1> PICK D : D = {p \in (Threads \ {t}) \X Int : p[2] \in Debt(p[1])}
    OBVIOUS
  <1>3. D = {p \in (Threads \ {t}) \X Int : p[2] \in Debt(p[1])'}
    <2>1. \A u \in Threads \ {t} : Debt(u)' = Debt(u)
      BY <1>1 DEF Debt
    <2> QED BY <2>1
  <1>4. /\ Debt(t) \subseteq Int /\ IsFiniteSet(Debt(t)) /\ Cardinality(Debt(t)) \in Nat
        /\ Debt(t)' \subseteq Int /\ IsFiniteSet(Debt(t)') /\ Cardinality(Debt(t)') \in Nat
    <2>1. Debt(t) \subseteq Int /\ IsFiniteSet(Debt(t)) /\ Cardinality(Debt(t)) \in Nat
      BY DebtFinite DEF Exact
    <2>2. (Debt(t) \subseteq Int /\ IsFiniteSet(Debt(t)) /\ Cardinality(Debt(t)) \in Nat)'
      BY SplitsLater, <1>2
    <2> QED BY <2>1, <2>2
  <1>5. IsFiniteSet(D) /\ Cardinality(D) \in Nat
    <2>1. D \subseteq Debts
      BY DEF Debts
    <2> QED BY <2>1, FS_Subset, FS_CardinalityType DEF Exact
  <1>6. Cardinality(Debts) = Cardinality(D) + Cardinality(Debt(t))
    BY <1>4, <1>5, DebtsSplit
  <1>7. IsFiniteSet(Debts') /\ Cardinality(Debts') = Cardinality(D) + Cardinality(Debt(t)')
    BY <1>3, <1>4, <1>5, SplitsLater
  <1>8. Others(t)' = Others(t)
    <2>1. \A u \in Threads \ {t} : Pending(u)' = Pending(u)
      BY <1>1 DEF Pending
    <2> QED BY <2>1 DEF Others
  <1>9. /\ Cardinality(Unspent) = Cardinality(Reach(t)) + Cardinality(Others(t))
        /\ Cardinality(Reach(t)) \in Nat /\ Cardinality(Others(t)) \in Nat
        /\ Cardinality(Unspent') = Cardinality(Reach(t)') + Cardinality(Others(t))
        /\ Cardinality(Reach(t)') \in Nat
    <2>1. /\ Cardinality(Unspent) = Cardinality(Reach(t)) + Cardinality(Others(t))
          /\ Cardinality(Reach(t)) \in Nat /\ Cardinality(Others(t)) \in Nat
      BY UnspentSplit
    <2>2. (/\ Cardinality(Unspent) = Cardinality(Reach(t)) + Cardinality(Others(t))
           /\ Cardinality(Reach(t)) \in Nat /\ Cardinality(Others(t)) \in Nat)'
      BY SplitsLater
    <2> QED BY <1>8, <2>1, <2>2
  <1>10. freeBlocks \in Int /\ freeBlocks' \in Int
    BY DEF Base, TypeOK
  <1>11. Balance'
    <2> PICK c, c2, d, d2, r, r2, o, q :
          /\ c = freeBlocks /\ c2 = freeBlocks' /\ d = Cardinality(Debt(t)) /\ d2 = Cardinality(Debt(t)')
          /\ r = Cardinality(Reach(t)) /\ r2 = Cardinality(Reach(t)')
          /\ o = Cardinality(Others(t)) /\ q = Cardinality(D)
      OBVIOUS
    <2>1. c + (q + d) <= r + o
      BY <1>6, <1>9 DEF Exact, Balance
    <2>2. c2 + (q + d2) <= r2 + o
      BY <2>1, <1>4, <1>5, <1>9, <1>10
    <2> QED BY <2>2, <1>7, <1>9 DEF Balance
  <1> QED BY <1>2, <1>7, <1>11 DEF Exact

\* A step that leaves the counter alone, and after which the thread can reach as
\* much and owes no more.
LEMMA EasyStep ==
  ASSUME Base, Held, Base', Held', Exact, NEW t \in Threads, StepOf(t),
         \A s \in Slots : entries'[s] = entries[s] \/ (Inside(t) /\ s = job[t].slot),
         Counted', JobFits(t)',
         freeBlocks' = freeBlocks, Debt(t)' \subseteq Debt(t), Reach(t) \subseteq Reach(t)'
  PROVE  Exact'
  <1>1. Cardinality(Debt(t)') <= Cardinality(Debt(t)) /\ Cardinality(Debt(t)') \in Nat
        /\ Cardinality(Debt(t)) \in Nat
    <2>1. IsFiniteSet(Debt(t)) /\ Cardinality(Debt(t)) \in Nat
      BY DebtFinite DEF Exact
    <2> QED BY <2>1, FS_Subset, FS_CardinalityType
  <1>2. Cardinality(Reach(t)) <= Cardinality(Reach(t)') /\ Cardinality(Reach(t)) \in Nat
        /\ Cardinality(Reach(t)') \in Nat
    <2>1. Cardinality(Reach(t)) \in Nat
      BY UnspentSplit
    <2>2. (Reach(t) \subseteq DataBlocks)'
      BY SplitsLater
    <2>3. IsFiniteSet(Reach(t)') /\ Cardinality(Reach(t)') \in Nat
      BY <2>2, BlocksFinite
    <2> QED BY <2>1, <2>3, FS_Subset
  <1>3. freeBlocks \in Int
    BY DEF Base, TypeOK
  <1> QED BY <1>1, <1>2, <1>3, ExactKept

\* The entries stay as they are.
LEMMA CountedKept ==
  ASSUME Counted, entries' = entries
  PROVE  Counted'
  BY DEF Counted, Slots, Covered, Run

\* A step that leaves entries, bitmap, counter and blocks alone.
LEMMA StillExact ==
  ASSUME Base, Held, Base', Held', Exact, NEW t \in Threads, StepOf(t),
         entries' = entries, FATTABLE' = FATTABLE, freeBlocks' = freeBlocks,
         JobFits(t)', Debt(t)' \subseteq Debt(t), Pending(t) \subseteq Pending(t)'
  PROVE  Exact'
  <1>1. Counted'
    BY CountedKept DEF Exact
  <1>2. Reach(t) \subseteq Reach(t)'
    BY DEF Reach, Free
  <1> QED BY <1>1, <1>2, EasyStep

LEMMA FinishFits ==
  ASSUME Base, NEW t \in Threads, Finish(t), entries' = entries
  PROVE  StepOf(t) /\ JobFits(t)' /\ Debt(t)' = {} /\ Pending(t)' = {}
  <1>1. StepOf(t) /\ job'[t] = NoJob /\ pc'[t] = "idle"
    BY FinishFields
  <1> QED BY <1>1 DEF NoJob, JobFits, Debt, Pending

\* The end of a command that has nothing in hand.
LEMMA FinishExact ==
  ASSUME Base, Held, Base', Held', Exact, NEW t \in Threads, Finish(t),
         entries' = entries, FATTABLE' = FATTABLE, freeBlocks' = freeBlocks, Pending(t) = {}
  PROVE  Exact'
  BY FinishFits, StillExact

LEMMA BeginExact ==
  ASSUME Base, Held, Base', Held', Exact, NEW t \in Threads, NEW j, Begins(t, j), NEW l, Goto(t, l),
         l \in {"allocate", "lock", "push"},
         j.op = "create" => l = "allocate" /\ j.blocks = {},
         j.op \in {"write", "delete"} => j.need = 0,
         j.op = "append" => j.need \in {0, 1} /\ j.blocks = {}
  PROVE  Exact'
  <1>1. StepOf(t) /\ job'[t] = j /\ pc'[t] = l /\ pc[t] = "idle" /\ job[t] = NoJob
    BY DEF StepOf, Begins, Goto, Base, TypeOK, Placed
  <1>2. Pending(t) = {} /\ Debt(t)' = {}
    BY <1>1 DEF Pending, Debt, NoJob
  <1>3. JobFits(t)'
    BY <1>1 DEF JobFits
  <1> QED BY <1>1, <1>2, <1>3, StillExact DEF Begins

LEMMA CreateExact ==
  ASSUME Base, Held, Base', Held', Exact, NEW t \in Threads, NEW need, Create(t, need)
  PROVE  Exact'
  <1> PICK j : j = [NoJob EXCEPT !.op = "create", !.need = need]
    OBVIOUS
  <1>1. j.op = "create" /\ j.blocks = {}
    BY DEF NoJob
  <1> QED BY <1>1, BeginExact DEF Create

LEMMA EnterExact ==
  ASSUME Base, Held, Base', Held', Exact, NEW t \in Threads, NEW op \in Operations, NEW s \in Slots,
         NEW need \in {0, 1}, Enter(t, op, s, need)
  PROVE  Exact'
  <1> PICK j : j = [NoJob EXCEPT !.op = op, !.slot = s, !.need = need]
    OBVIOUS
  <1>1. j.op = op /\ j.need = need /\ j.blocks = {}
    BY NewJobFields
  <1>2. Begins(t, j) /\ Goto(t, "lock") /\ (op # "append" => need = 0) /\ op # "create"
    BY DEF Enter
  <1> QED BY <1>1, <1>2, BeginExact

LEMMA MakeDirectoryExact ==
  ASSUME Base, Held, Base', Held', Exact, NEW t \in Threads, MakeDirectory(t)
  PROVE  Exact'
  <1>1. [NoJob EXCEPT !.op = "mkdir"].op = "mkdir"
    BY DEF NoJob
  <1> QED BY <1>1, BeginExact DEF MakeDirectory

LEMMA PushDirectoryExact ==
  ASSUME Base, Held, Base', Held', Exact, NEW t \in Threads, PushDirectory(t)
  PROVE  Exact'
  <1>1. /\ Slots' = Slots \union {Len(entries) + 1} /\ Len(entries') = Len(entries) + 1
        /\ (\A s \in Slots : entries'[s] = entries[s]) /\ entries'[Len(entries) + 1] = Directory
    BY DEF PushDirectory, Base, TypeOK, Slots
  <1>2. job[t].op = "mkdir" /\ job' = job /\ pc'[t] = "count" /\ StepOf(t)
    BY <1>1 DEF PushDirectory, Base, TypeOK, Placed, Goto, StepOf
  <1>3. Counted'
    <2>1. Covered(Directory) = {} /\ Directory.count = 0
      BY DEF Directory, Covered, Run
    <2> QED BY <1>1, <2>1, FS_EmptySet DEF Counted, Exact, Covered, Run
  <1>4. JobFits(t)' /\ Debt(t)' = {} /\ Pending(t) = {} /\ Pending(t)' = {}
    BY <1>2 DEF JobFits, Debt, Pending, PushDirectory
  <1>5. Reach(t) \subseteq Reach(t)'
    BY <1>4 DEF Reach, Free, PushDirectory
  <1> QED BY <1>1, <1>2, <1>3, <1>4, <1>5, EasyStep DEF PushDirectory

LEMMA CountDirectoryExact ==
  ASSUME Base, Held, Base', Held', Exact, NEW t \in Threads, CountDirectory(t)
  PROVE  Exact'
  <1>1. Pending(t) = {}
    BY DEF CountDirectory, Pending, Base, Placed
  <1> QED BY <1>1, FinishExact DEF CountDirectory

LEMMA LockExact ==
  ASSUME Base, Held, Base', Held', Exact, NEW t \in Threads, Lock(t)
  PROVE  Exact'
  <1> PICK l : l = IF job[t].op = "delete" THEN "clear" ELSE "copy"
    OBVIOUS
  <1>1. pc'[t] = l /\ StepOf(t) /\ job' = job
    BY DEF Lock, Goto, Base, TypeOK, StepOf
  <1>2. JobFits(t)' /\ Debt(t)' = {} /\ Pending(t) = {}
    BY <1>1 DEF Lock, Exact, JobFits, Debt, Pending, Base, Placed
  <1> QED BY <1>1, <1>2, StillExact DEF Lock

LEMMA CopyExact ==
  ASSUME Base, Held, Base', Held', Exact, NEW t \in Threads, Copy(t)
  PROVE  Exact'
  <1> PICK l : l = IF job[t].op = "append" THEN "test" ELSE "cut"
    OBVIOUS
  <1>1. pc'[t] = l /\ StepOf(t) /\ pc[t] = "copy" /\ job[t].op \in {"append", "write"}
    BY DEF Copy, Goto, Base, TypeOK, StepOf, Placed
  <1>2. job'[t].op = job[t].op /\ job'[t].blocks = job[t].blocks /\ job'[t].need = job[t].need
    <2>1. job'[t] = [job[t] EXCEPT !.original = freeBlocks, !.found = entries[job[t].slot].linked]
      BY DEF Copy, Base, TypeOK
    <2>2. job[t] \in Job
      BY JobFields
    <2> QED BY <2>1, <2>2 DEF Job
  <1>3. JobFits(t)' /\ Debt(t)' = {} /\ Pending(t) = {}
    BY <1>1, <1>2 DEF Exact, JobFits, Debt, Pending
  <1> QED BY <1>1, <1>3, StillExact DEF Copy

LEMMA TestExact ==
  ASSUME Base, Held, Base', Held', Exact, NEW t \in Threads, Test(t)
  PROVE  Exact'
  <1>0. Pending(t) = {}
    BY DEF Test, Pending
  <1>1. CASE Finish(t)
    BY <1>0, <1>1, FinishExact DEF Test
  <1>2. CASE ~Finish(t)
    <2> PICK l : l = IF job[t].need = 0 THEN "grow" ELSE "allocate"
      OBVIOUS
    <2>1. pc'[t] = l /\ job' = job /\ StepOf(t) /\ job[t].op = "append"
      BY <1>2 DEF Test, Goto, Base, TypeOK, StepOf, Placed
    <2>2. JobFits(t)' /\ Debt(t)' = {}
      BY <2>1 DEF Exact, JobFits, Debt
    <2> QED BY <1>0, <1>2, <2>1, <2>2, StillExact DEF Test
  <1> QED BY <1>1, <1>2

LEMMA WithoutBlocksExact ==
  ASSUME Base, Held, Base', Held', Exact, NEW t \in Threads, WithoutBlocks(t),
         pc[t] \in {"allocate", "saveBits"}, entries' = entries, freeBlocks' = freeBlocks,
         FATTABLE' = FATTABLE \ job[t].blocks
  PROVE  Exact'
  <1>1. StepOf(t) /\ JobFits(t)' /\ Debt(t)' = {}
    <2>1. CASE Finish(t)
      BY <2>1, FinishFits
    <2>2. CASE ~Finish(t)
      <3>1. /\ StepOf(t) /\ pc'[t] = "grow" /\ job'[t].op = "append" /\ job'[t].blocks = {}
            /\ job'[t].need = job[t].need /\ job[t].op = "append"
        BY <2>2, BlocksFields DEF WithoutBlocks
      <3> QED BY <3>1 DEF Exact, JobFits, Debt
    <2> QED BY <2>1, <2>2
  <1>2. Pending(t) \subseteq job[t].blocks /\ Pending(t) \subseteq DataBlocks
    BY PendingHeld DEF Pending
  <1>3. Reach(t) \subseteq Reach(t)'
    BY <1>2 DEF Reach, Free
  <1>4. Counted'
    BY CountedKept DEF Exact
  <1> QED BY <1>1, <1>3, <1>4, EasyStep

LEMMA AllocateExact ==
  ASSUME Base, Held, Base', Held', Exact, NEW t \in Threads, Allocate(t)
  PROVE  Exact'
  <1>1. CASE WithoutBlocks(t) /\ UNCHANGED FATTABLE
    <2>1. job[t].blocks = {}
      BY DEF Allocate, Base, Placed
    <2> QED BY <1>1, <2>1, WithoutBlocksExact DEF Allocate
  <1>2. ASSUME NEW S \in Lowest(job[t].need), FATTABLE' = FATTABLE \union S,
               With(t, "blocks", S), Goto(t, "saveBits")
        PROVE  Exact'
    <2>1. StepOf(t) /\ pc'[t] = "saveBits" /\ job'[t].op = job[t].op /\ job'[t].blocks = S
          /\ job'[t].need = job[t].need /\ entries' = entries /\ freeBlocks' = freeBlocks
      BY <1>2, BlocksFields DEF Allocate
    <2>2. job[t].op \in {"create", "append"} /\ Cardinality(S) = job[t].need /\ S \subseteq Free
          /\ Pending(t) = {}
      BY DEF Allocate, Base, Placed, Lowest, Pending
    <2>3. JobFits(t)' /\ Debt(t)' = {} /\ Pending(t)' = S
      BY <2>1, <2>2 DEF Exact, JobFits, Debt, Pending
    <2>4. Reach(t) \subseteq Reach(t)'
      BY <1>2, <2>2, <2>3 DEF Reach, Free
    <2>5. Counted'
      BY <2>1, CountedKept DEF Exact
    <2> QED BY <2>1, <2>3, <2>4, <2>5, EasyStep
  <1> QED BY <1>1, <1>2 DEF Allocate

LEMMA SaveBitsExact ==
  ASSUME Base, Held, Base', Held', Exact, NEW t \in Threads, SaveBits(t)
  PROVE  Exact'
  <1>1. CASE WithoutBlocks(t) /\ FATTABLE' = FATTABLE \ job[t].blocks
    BY <1>1, WithoutBlocksExact DEF SaveBits
  <1>2. CASE Goto(t, "grow") /\ UNCHANGED <<FATTABLE, job, creator>>
    <2>1. pc'[t] = "grow" /\ StepOf(t) /\ job[t].op \in {"create", "append"} /\ pc[t] = "saveBits"
      BY <1>2 DEF SaveBits, Goto, Base, TypeOK, StepOf, Placed
    <2>2. JobFits(t)' /\ Debt(t)' = {} /\ Pending(t)' = Pending(t)
      BY <1>2, <2>1 DEF Exact, JobFits, Debt, Pending
    <2> QED BY <1>2, <2>1, <2>2, StillExact DEF SaveBits
  <1> QED BY <1>1, <1>2 DEF SaveBits

\* One entry changes: the others are still counted.
LEMMA CountedElsewhere ==
  ASSUME Base, Counted, NEW x \in Slots, NEW g, entries' = [entries EXCEPT ![x] = g],
         g.count = Cardinality(Covered(g))
  PROVE  Counted'
  <1>1. Slots' = Slots /\ entries'[x] = g /\ \A s \in Slots \ {x} : entries'[s] = entries[s]
    BY DEF Base, TypeOK, Slots
  <1> SUFFICES ASSUME NEW s \in Slots' PROVE entries'[s].count = Cardinality(Covered(entries'[s]))
    BY DEF Counted, Covered, Run
  <1> QED BY <1>1 DEF Counted

LEMMA GrowExact ==
  ASSUME Base, Held, Base', Held', Exact, NEW t \in Threads, Grow(t)
  PROVE  Exact'
  <1>1. CASE job[t].op = "append"
    <2> PICK x, e, B, g : x = job[t].slot /\ e = entries[x] /\ B = job[t].blocks /\ g = Grown(e, B)
      OBVIOUS
    <2>1. x \in Slots /\ x # 0 /\ Inside(t) /\ e \in Entry /\ e.linked /\ Covered(e) \subseteq DataBlocks
          /\ B \subseteq DataBlocks /\ ~Returns(t) /\ pc[t] = "grow"
      BY <1>1, EntryTyped DEF Grow, Base, TypeOK, Placed, Inside, Slots, Held, Fits, Shaped, Shape, Returns
    <2>2. /\ job' = job /\ pc'[t] = "size" /\ FATTABLE' = FATTABLE /\ freeBlocks' = freeBlocks
          /\ entries' = [entries EXCEPT ![x] = g] /\ StepOf(t)
      BY <1>1, <2>1 DEF Grow, Goto, Base, TypeOK, Slots, StepOf
    <2>3. \A b \in Covered(e) : b \notin B
      <3>1. x \in Holding
        BY <2>1, LockedKeeps DEF Holding
      <3>2. \A b \in B : Brings(t, b)
        BY <2>1 DEF Brings, Keeps, Carries
      <3> QED BY <2>1, <3>1, <3>2 DEF Owns, Held, OneHolder
    <2>4. g.count = Cardinality(Covered(g))
      <3>1. e.count = Cardinality(Covered(e))
        BY <2>1 DEF Exact, Counted
      <3>2. CASE B = {}
        BY <3>1, <3>2 DEF Grown
      <3>3. CASE B # {}
        <4>0. Cardinality(B) = job[t].need /\ job[t].need \in {0, 1}
          BY <1>1, <3>3 DEF Exact, JobFits
        <4>1. IsFiniteSet(B) /\ Cardinality(B) \in {0, 1}
          BY <2>1, <4>0, BlocksFinite
        <4>2. Cardinality(B) = 1
          BY <3>3, <4>1, FS_EmptySet
        <4>3. Covered(g) = Covered(e) \union B /\ g.count = e.count + 1
          BY <2>1, <3>3 DEF Grown, Covered, Run, Entry
        <4>4. IsFiniteSet(Covered(e))
          BY <2>1, BlocksFinite
        <4>5. Cardinality(Covered(e) \union B) = Cardinality(Covered(e)) + Cardinality(B)
          BY <2>3, <4>1, <4>4, Apart
        <4> QED BY <3>1, <4>2, <4>3, <4>5
      <3> QED BY <3>2, <3>3
    <2>5. Counted'
      BY <2>1, <2>2, <2>4, CountedElsewhere DEF Exact
    <2>6. JobFits(t)' /\ Debt(t)' = {} /\ Pending(t)' = Pending(t)
      BY <1>1, <2>1, <2>2 DEF Exact, JobFits, Debt, Pending
    <2>7. Reach(t) \subseteq Reach(t)'
      BY <2>2, <2>6 DEF Reach, Free
    <2>8. \A s \in Slots : entries'[s] = entries[s] \/ (Inside(t) /\ s = job[t].slot)
      BY <2>1, <2>2 DEF Base, TypeOK, Slots
    <2> QED BY <2>2, <2>5, <2>6, <2>7, <2>8, EasyStep
  <1>2. CASE job[t].op = "create"
    <2>1. pc'[t] = "load" /\ StepOf(t) /\ entries' = entries /\ FATTABLE' = FATTABLE
          /\ freeBlocks' = freeBlocks /\ pc[t] = "grow"
      BY <1>2 DEF Grow, Goto, Base, TypeOK, StepOf, With
    <2>2. job'[t].op = job[t].op /\ job'[t].blocks = job[t].blocks /\ job'[t].need = job[t].need
      BY <1>2, NumberFields DEF Grow
    <2>3. JobFits(t)' /\ Debt(t)' = {} /\ Pending(t)' = Pending(t)
      BY <1>2, <2>1, <2>2 DEF Exact, JobFits, Debt, Pending
    <2> QED BY <2>1, <2>3, StillExact
  <1> QED BY <1>1, <1>2 DEF Grow

LEMMA CutExact ==
  ASSUME Base, Held, Base', Held', Exact, NEW t \in Threads, Cut(t)
  PROVE  Exact'
  <1> PICK x, e, g : x = job[t].slot /\ e = entries[x] /\ g = Shortened(e)
    OBVIOUS
  <1>1. /\ x \in Slots /\ x # 0 /\ Inside(t) /\ e \in Entry /\ job[t].op = "write" /\ pc[t] = "cut"
    BY EntryTyped DEF Cut, Base, TypeOK, Placed, Inside, Slots
  <1>2. /\ FATTABLE' = FATTABLE \ Freed(e) /\ freeBlocks' = freeBlocks
        /\ entries' = [entries EXCEPT ![x] = g]
    BY <1>1 DEF Cut, Base, TypeOK, Slots
  <1>3. /\ StepOf(t) /\ pc'[t] = "size" /\ job'[t].op = "write" /\ job'[t].need = job[t].need
    <2>1. Len(entries') = Len(entries)
      BY <1>1, <1>2 DEF Base, TypeOK
    <2> QED BY <1>1, <2>1, BlocksFields DEF Cut
  <1>4. g.count = Cardinality(Covered(g))
    <2>1. CASE e.size <= 1
      BY <1>1, <2>1 DEF Shortened, Exact, Counted
    <2>2. CASE ~(e.size <= 1)
      <3>1. g = [e EXCEPT !.length = 1, !.more = {}, !.count = 1]
        BY <2>2 DEF Shortened
      <3>2. e.first \in Nat /\ g.first = e.first /\ g.length = 1 /\ g.more = {} /\ g.count = 1
        BY <1>1, <3>1 DEF Entry
      <3>3. Covered(g) = {e.first}
        BY <3>2 DEF Covered, Run
      <3> QED BY <3>2, <3>3, FS_Singleton
    <2> QED BY <2>1, <2>2
  <1>5. Counted'
    BY <1>1, <1>2, <1>4, CountedElsewhere DEF Exact
  <1>6. JobFits(t)' /\ Debt(t)' = {} /\ Pending(t) = {}
    BY <1>1, <1>3 DEF Exact, JobFits, Debt, Pending
  <1>7. Reach(t) \subseteq Reach(t)'
    BY <1>2, <1>6 DEF Reach, Free
  <1>8. \A s \in Slots : entries'[s] = entries[s] \/ (Inside(t) /\ s = job[t].slot)
    BY <1>1, <1>2 DEF Base, TypeOK, Slots
  <1> QED BY <1>2, <1>3, <1>5, <1>6, <1>7, <1>8, EasyStep

LEMMA SizeExact ==
  ASSUME Base, Held, Base', Held', Exact, flaws' = {}, NEW t \in Threads, Size(t)
  PROVE  Exact'
  <1>1. CASE Finish(t)
    <2>1. entries' = entries /\ Adds("orphan", job[t].op = "append" /\ job[t].blocks # {})
      BY <1>1 DEF Size, Finish, Goto, Base, TypeOK
    <2>2. Pending(t) = {}
      BY <2>1 DEF Size, Pending, Adds, Base, Placed
    <2> QED BY <1>1, <2>1, <2>2, FinishExact DEF Size
  <1>2. CASE ~Finish(t)
    <2> PICK x, e, n, g :
          /\ x = job[t].slot /\ e = entries[x]
          /\ n = IF job[t].op = "append" THEN e.size + job[t].need ELSE 1
          /\ g = [e EXCEPT !.size = n]
      OBVIOUS
    <2>1. /\ x \in Slots /\ Inside(t) /\ e \in Entry /\ pc[t] = "size"
          /\ job[t].op \in {"append", "write"}
      BY EntryTyped DEF Size, Base, TypeOK, Placed, Inside
    <2>2. /\ FATTABLE' = FATTABLE /\ freeBlocks' = freeBlocks /\ job' = job /\ pc'[t] = "load"
          /\ entries' = [entries EXCEPT ![x] = g] /\ StepOf(t)
      BY <1>2, <2>1 DEF Size, Goto, Base, TypeOK, Slots, StepOf
    <2>3. g.count = Cardinality(Covered(g))
      <3>1. Covered(g) = Covered(e) /\ g.count = e.count
        BY <2>1 DEF Covered, Run, Entry
      <3> QED BY <2>1, <3>1 DEF Exact, Counted
    <2>4. Counted'
      BY <2>1, <2>2, <2>3, CountedElsewhere DEF Exact
    <2>5. JobFits(t)' /\ Debt(t)' = {} /\ Pending(t)' = Pending(t)
      BY <2>1, <2>2 DEF Exact, JobFits, Debt, Pending
    <2>6. Reach(t) \subseteq Reach(t)'
      BY <2>2, <2>5 DEF Reach, Free
    <2>7. \A s \in Slots : entries'[s] = entries[s] \/ (Inside(t) /\ s = job[t].slot)
      BY <2>1, <2>2 DEF Base, TypeOK, Slots
    <2> QED BY <2>2, <2>4, <2>5, <2>6, <2>7, EasyStep
  <1> QED BY <1>1, <1>2

LEMMA ClearExact ==
  ASSUME Base, Held, Base', Held', Exact, NEW t \in Threads, Clear(t)
  PROVE  Exact'
  <1> PICK x, C : x = job[t].slot /\ C = Covered(entries[x])
    OBVIOUS
  <1>1. x \in Slots /\ x # 0 /\ Inside(t) /\ job[t].op = "delete" /\ entries[x].linked /\ ~Returns(t)
        /\ pc[t] = "clear" /\ C \subseteq DataBlocks
    BY DEF Clear, Base, Placed, Inside, Slots, Held, Fits, Returns, Shaped, Shape
  <1>2. /\ StepOf(t) /\ pc'[t] = "unslot" /\ job'[t].slot = x /\ job'[t].op = "delete"
        /\ job'[t].blocks = C /\ job'[t].need = job[t].need
        /\ entries' = entries /\ FATTABLE' = FATTABLE \ C /\ freeBlocks' = freeBlocks
    BY <1>1, BlocksFields DEF Clear
  <1>3. JobFits(t)' /\ Debt(t) = {} /\ Debt(t)' = C /\ Pending(t) = {} /\ Pending(t)' = {}
    BY <1>1, <1>2 DEF Exact, JobFits, Debt, Pending, Covered, Run
  <1>4. \A b \in C : b \in FATTABLE
    <2>1. x \in Holding
      BY <1>1, LockedKeeps DEF Holding
    <2> QED BY <1>1, <2>1 DEF Owns, Held, Marked
  <1>5. Reach(t) = Free /\ Reach(t)' = Free \union C /\ \A b \in Free : b \notin C
    BY <1>1, <1>2, <1>3, <1>4 DEF Reach, Free
  <1>6. IsFiniteSet(Free) /\ IsFiniteSet(C)
    BY <1>1, BlocksFinite DEF Free
  <1>7. /\ Cardinality(Free) \in Nat /\ Cardinality(C) \in Nat
        /\ Cardinality(Free \union C) = Cardinality(Free) + Cardinality(C)
    BY <1>5, <1>6, Apart
  <1>8. Cardinality({}) = 0 /\ freeBlocks \in Int
    BY FS_EmptySet DEF Base, TypeOK
  <1>9. Counted'
    BY <1>2, CountedKept DEF Exact
  <1>10. freeBlocks' + Cardinality(Debt(t)') + Cardinality(Reach(t))
           <= freeBlocks + Cardinality(Debt(t)) + Cardinality(Reach(t)')
    BY <1>2, <1>3, <1>5, <1>7, <1>8
  <1> QED BY <1>2, <1>3, <1>9, <1>10, ExactKept

LEMMA UnslotExact ==
  ASSUME Base, Held, Base', Held', Exact, NEW t \in Threads, Unslot(t)
  PROVE  Exact'
  <1> PICK x : x = job[t].slot
    OBVIOUS
  <1>1. /\ x \in Slots /\ Inside(t) /\ job[t].op = "delete" /\ pc[t] = "unslot"
        /\ entries' = [entries EXCEPT ![x].linked = FALSE] /\ FATTABLE' = FATTABLE
        /\ freeBlocks' = freeBlocks
    BY DEF Unslot, Base, Placed, Inside
  <1>2. /\ Len(entries') = Len(entries) /\ Slots' = Slots
        /\ \A s \in Slots \ {x} : entries'[s] = entries[s]
        /\ Covered(entries'[x]) = Covered(entries[x])
    BY <1>1, EmptiedSlot
  <1>3. pc'[t] = "load" /\ job' = job /\ StepOf(t)
    BY <1>2 DEF Unslot, Goto, Base, TypeOK, StepOf
  <1>4. JobFits(t)' /\ Debt(t)' = Debt(t) /\ Pending(t) = {}
    BY <1>1, <1>2, <1>3 DEF Exact, JobFits, Debt, Pending, Covered, Run
  <1>5. Counted'
    <2> PICK g : g = [entries[x] EXCEPT !.linked = FALSE]
      OBVIOUS
    <2>1. entries' = [entries EXCEPT ![x] = g]
      BY <1>1 DEF Base, TypeOK
    <2>3. entries[x] \in Entry
      BY <1>1, EntryTyped DEF Base, TypeOK
    <2>4. g.count = entries[x].count /\ Covered(g) = Covered(entries[x])
      BY <2>3 DEF Entry, Covered, Run
    <2>5. g.count = Cardinality(Covered(g))
      BY <1>1, <2>4 DEF Exact, Counted
    <2> HIDE <1>1
    <2> QED BY <1>1, <2>1, <2>5, CountedElsewhere DEF Exact
  <1>6. Reach(t) \subseteq Reach(t)'
    BY <1>1, <1>4 DEF Reach, Free
  <1>7. \A s \in Slots : entries'[s] = entries[s] \/ (Inside(t) /\ s = job[t].slot)
    BY <1>1, <1>2
  <1> QED BY <1>1, <1>3, <1>4, <1>5, <1>6, <1>7, EasyStep

LEMMA LoadExact ==
  ASSUME Base, Held, Base', Held', Exact, NEW t \in Threads, Load(t)
  PROVE  Exact'
  <1>1. pc'[t] = "store" /\ StepOf(t) /\ entries' = entries /\ FATTABLE' = FATTABLE
        /\ freeBlocks' = freeBlocks /\ pc[t] = "load"
    BY DEF Load, Goto, With, Base, TypeOK, StepOf
  <1>2. /\ job'[t].blocks = job[t].blocks /\ job'[t].op = job[t].op /\ job'[t].slot = job[t].slot
        /\ job'[t].need = job[t].need
    BY NumberFields DEF Load
  <1>3. JobFits(t)' /\ Debt(t)' = Debt(t) /\ Pending(t)' = Pending(t)
    BY <1>1, <1>2 DEF Exact, JobFits, Debt, Pending, Covered, Run
  <1> QED BY <1>1, <1>3, StillExact

LEMMA StoreExact ==
  ASSUME Base, Held, Base', Held', Exact, flaws' = {}, NEW t \in Threads, Store(t)
  PROVE  Exact'
  <1> PICK l, B : l = (IF job[t].op = "create" THEN "link" ELSE "save") /\ B = job[t].blocks
    OBVIOUS
  <1>1. pc'[t] = l /\ StepOf(t) /\ entries' = entries /\ FATTABLE' = FATTABLE /\ job' = job
        /\ pc[t] = "store" /\ job[t].op \in {"create", "append", "write", "delete"}
    BY DEF Store, Goto, Base, TypeOK, StepOf, Placed
  <1>2. freeBlocks' = freeBlocks + Change(t)
    BY DEF Store, Adds
  <1>3. Counted'
    BY <1>1, CountedKept DEF Exact
  <1>4. JobFits(t)'
    BY <1>1 DEF Exact, JobFits
  <1>5. freeBlocks \in Int /\ job[t].need \in Nat /\ Cardinality({}) = 0 /\ Cardinality({0}) = 1
    BY JobParts, FS_EmptySet, FS_Singleton DEF Base, TypeOK
  <1>6. Pending(t)' = {} /\ Reach(t)' = Free /\ IsFiniteSet(Free) /\ Cardinality(Free) \in Nat
    <2>1. Pending(t)' = {}
      BY <1>1 DEF Pending
    <2>2. Free' = Free
      BY <1>1 DEF Free
    <2> QED BY <2>1, <2>2, BlocksFinite DEF Reach, Free
  <1>7. freeBlocks' + Cardinality(Debt(t)') + Cardinality(Reach(t))
          <= freeBlocks + Cardinality(Debt(t)) + Cardinality(Reach(t)')
    <2>1. CASE job[t].op \in {"create", "append"} /\ B # {}
      <3>1. Change(t) = -Cardinality(B) /\ Debt(t) = {} /\ Debt(t)' = {} /\ Pending(t) = B
        BY <1>1, <2>1 DEF Change, Exact, JobFits, Debt, Pending
      <3>2. B \subseteq DataBlocks /\ \A b \in B : b \in FATTABLE
        BY <3>1, PendingHeld
      <3>3. IsFiniteSet(B)
        BY <3>2, BlocksFinite
      <3>4. (\A b \in Free : b \notin B) /\ Reach(t) = Free \union B
        BY <3>1, <3>2 DEF Free, Reach
      <3>5. Cardinality(Free \union B) = Cardinality(Free) + Cardinality(B) /\ Cardinality(B) \in Nat
        BY <1>6, <3>3, <3>4, Apart
      <3> QED BY <1>2, <1>5, <1>6, <3>1, <3>4, <3>5
    <2>2. CASE job[t].op \in {"create", "append"} /\ B = {}
      <3>1. Change(t) = -job[t].need /\ Debt(t) = {} /\ Reach(t) = Free
        BY <1>1, <2>2 DEF Change, Debt, Pending, Reach
      <3>2. Cardinality(Debt(t)') <= job[t].need /\ Cardinality(Debt(t)') \in Nat
        <4>1. CASE job[t].op = "append" /\ job[t].need = 1
          <5>1. Debt(t)' = {0}
            BY <1>1, <2>2, <4>1 DEF Debt
          <5> QED BY <5>1, <4>1, <1>5
        <4>2. CASE ~(job[t].op = "append" /\ job[t].need = 1)
          <5>1. Debt(t)' = {}
            BY <1>1, <2>2, <4>2 DEF Debt
          <5> QED BY <5>1, <1>5
        <4> QED BY <4>1, <4>2
      <3> QED BY <1>2, <1>5, <1>6, <3>1, <3>2
    <2>3. CASE job[t].op = "write"
      <3>1. Change(t) = -job[t].need /\ job[t].need = 0
        BY <2>3 DEF Change, Exact, JobFits
      <3>2. Debt(t) = {} /\ Debt(t)' = {} /\ Reach(t) = Free
        BY <1>1, <2>3 DEF Debt, Pending, Reach
      <3> QED BY <1>2, <1>5, <1>6, <3>1, <3>2
    <2>4. CASE job[t].op = "delete"
      <3>1. job[t].slot \in Slots
        BY <2>4 DEF Base, Placed
      <3>2. B = Covered(entries[job[t].slot]) /\ Change(t) = Cardinality(B)
        BY <1>1, <2>4, <3>1 DEF Change, Exact, JobFits, Counted
      <3>3. Debt(t) = B /\ Debt(t)' = {} /\ Reach(t) = Free
        BY <1>1, <2>4 DEF Debt, Pending, Reach
      <3>4. Cardinality(B) \in Nat
        BY <3>1, <3>2, BlocksFinite DEF Held, Shaped, Shape
      <3> QED BY <1>2, <1>5, <1>6, <3>2, <3>3, <3>4
    <2> QED BY <1>1, <2>1, <2>2, <2>3, <2>4
  <1> QED BY <1>1, <1>3, <1>4, <1>7, ExactKept

LEMMA LinkExact ==
  ASSUME Base, Held, Base', Held', Exact, Sound', NEW t \in Threads, Link(t)
  PROVE  Exact'
  <1>1. job[t].op = "create" /\ Pending(t) = {} /\ pc[t] = "link" /\ job[t].slot = 0
    BY DEF Link, Pending, Base, Placed, Entered
  <1>2. CASE Finish(t) /\ UNCHANGED entries
    BY <1>1, <1>2, FinishExact DEF Link
  <1>3. ASSUME NEW length \in Lengths(job[t].blocks), NEW b \in job[t].blocks, NEW e,
               e = FileOf(job[t].blocks, b, length, job[t].need),
               entries' = Append(entries, e),
               Adds("merged", Run(e) # job[t].blocks), With(t, "slot", Len(entries) + 1),
               Goto(t, "save"), FATTABLE' = FATTABLE, freeBlocks' = freeBlocks
        PROVE  Exact'
    <2> PICK x : x = Len(entries) + 1
      OBVIOUS
    <2>1. Len(entries) \in Nat /\ Slots' = Slots \union {x} /\ Len(entries') = Len(entries) + 1
          /\ (\A s \in Slots : entries'[s] = entries[s]) /\ entries'[x] = e
      BY <1>3 DEF Base, TypeOK, Slots
    <2>2. /\ job'[t].op = "create" /\ job'[t].blocks = job[t].blocks /\ job'[t].need = job[t].need
          /\ pc'[t] = "save" /\ StepOf(t)
      <3>1. job[t] \in Job /\ job'[t] = [job[t] EXCEPT !.slot = x] /\ pc'[t] = "save"
        BY <1>3, JobFields DEF Base, TypeOK, With, Goto
      <3>2. StepOf(t)
        BY <1>3, <2>1 DEF StepOf, With, Goto, Base, TypeOK
      <3> QED BY <1>1, <3>1, <3>2 DEF Job
    <2>3. e.count = Cardinality(Covered(e))
      <3>1. Covered(e) = job[t].blocks /\ e.count = length /\ Run(e) = b .. b + length - 1
        BY <1>3 DEF Adds, Sound, Covered, FileOf, Run
      <3>2. length \in Int /\ b \in Int
        <4>0. job[t].blocks \subseteq DataBlocks
          BY <1>1 DEF Base, Placed
        <4>1. Cardinality(job[t].blocks) \in Nat
          BY <4>0, BlocksFinite
        <4>2. PICK stale \in Nat : length = Cardinality(job[t].blocks) + stale
          BY SpaceAssumption DEF Lengths
        <4>3. DataBlocks \subseteq Int
          BY SpaceAssumption
        <4>4. b \in Int
          BY <4>0, <4>3
        <4>5. length \in Int
          BY <4>1, <4>2
        <4> QED BY <4>4, <4>5
      <3>3. Run(e) = job[t].blocks
        BY <1>3 DEF Adds, Sound
      <3>4. b + length - 1 >= b
        BY <3>1, <3>2, <3>3
      <3>5. Cardinality(b .. b + length - 1) = length
        BY <3>2, <3>4, FS_Interval
      <3> QED BY <3>1, <3>3, <3>5
    <2>4. Counted'
      <3> SUFFICES ASSUME NEW s \in Slots' PROVE entries'[s].count = Cardinality(Covered(entries'[s]))
        BY DEF Counted, Covered, Run
      <3> QED BY <2>1, <2>3 DEF Counted, Exact
    <2>5. JobFits(t)' /\ Debt(t)' = {}
      BY <1>1, <2>2 DEF Exact, JobFits, Debt
    <2>6. Reach(t) \subseteq Reach(t)'
      BY <1>1, <1>3 DEF Reach, Free
    <2> QED BY <1>3, <2>1, <2>2, <2>4, <2>5, <2>6, EasyStep
  <1> QED BY <1>2, <1>3 DEF Link

LEMMA SaveExact ==
  ASSUME Base, Held, Base', Held', Exact, NEW t \in Threads, Save(t)
  PROVE  Exact'
  <1>0. Pending(t) = {}
    BY DEF Save, Pending
  <1>1. CASE Finish(t)
    BY <1>0, <1>1, FinishExact DEF Save
  <1>2. CASE ~Finish(t)
    <2>1. pc'[t] = "undo" /\ job' = job /\ StepOf(t) /\ job[t].op # "delete" /\ pc[t] = "save"
      BY <1>2 DEF Save, Goto, Base, TypeOK, StepOf
    <2>2. JobFits(t)' /\ Debt(t)' = Debt(t)
      BY <2>1 DEF Exact, JobFits, Debt
    <2> QED BY <1>0, <2>1, <2>2, StillExact DEF Save
  <1> QED BY <1>1, <1>2

LEMMA UndoExact ==
  ASSUME Base, Held, Base', Held', Exact, Sound', NEW t \in Threads, Undo(t)
  PROVE  Exact'
  <1> PICK x, l : x = job[t].slot /\ l = IF job[t].op = "create" THEN FALSE ELSE job[t].found
    OBVIOUS
  <1> PICK g : g = [entries[x] EXCEPT !.linked = l]
    OBVIOUS
  <1>1. /\ x \in Slots /\ Inside(t) /\ pc[t] = "undo" /\ FATTABLE' = FATTABLE
        /\ freeBlocks' = freeBlocks /\ pc'[t] = "restore" /\ job' = job
        /\ job[t].op \in {"create", "append", "write"}
    BY DEF Undo, Base, TypeOK, Placed, Entered, Inside, Goto
  <1>2. entries' = [entries EXCEPT ![x] = g]
    <2>1. CASE job[t].op = "create"
      <3>1. metaIndex = x
        BY <2>1 DEF Undo, Adds, Sound
      <3> QED BY <2>1, <3>1 DEF Undo, Base, TypeOK
    <2>2. CASE job[t].op # "create"
      BY <2>2 DEF Undo, Base, TypeOK
    <2> QED BY <2>1, <2>2
  <1>3. StepOf(t)
    BY <1>2 DEF StepOf, Undo, Goto, Base, TypeOK
  <1>4. g.count = Cardinality(Covered(g))
    <2>1. entries[x] \in Entry
      BY <1>1, EntryTyped DEF Base, TypeOK
    <2>2. g.count = entries[x].count /\ Covered(g) = Covered(entries[x])
      BY <2>1 DEF Entry, Covered, Run
    <2> QED BY <1>1, <2>2 DEF Exact, Counted
  <1>5. Counted'
    BY <1>1, <1>2, <1>4, CountedElsewhere DEF Exact
  <1>6. JobFits(t)' /\ Debt(t)' = Debt(t) /\ Pending(t) = {}
    BY <1>1 DEF Exact, JobFits, Debt, Pending
  <1>7. Reach(t) \subseteq Reach(t)'
    BY <1>1, <1>6 DEF Reach, Free
  <1>8. \A s \in Slots : entries'[s] = entries[s] \/ (Inside(t) /\ s = job[t].slot)
    BY <1>1, <1>2 DEF Base, TypeOK, Slots
  <1> QED BY <1>1, <1>3, <1>5, <1>6, <1>7, <1>8, EasyStep

LEMMA RestoreExact ==
  ASSUME Base, Held, Base', Held', Exact, flaws' = {}, NEW t \in Threads, Restore(t)
  PROVE  Exact'
  <1> PICK B, n : B = job[t].blocks /\ n = job[t].need
    OBVIOUS
  <1>1. /\ pc[t] = "restore" /\ entries' = entries /\ FATTABLE' = FATTABLE
        /\ job[t].op \in {"create", "append", "write"} /\ Pending(t) = {}
    BY DEF Restore, Base, Placed, Pending
  <1>2. /\ freeBlocks \in Int /\ freeBlocks' \in Int /\ job[t].original \in Int /\ n \in Nat
        /\ Cardinality({}) = 0 /\ Cardinality({0}) = 1
    BY JobParts, FS_EmptySet, FS_Singleton DEF Base, TypeOK
  <1>3. freeBlocks' = freeBlocks + n /\ (job[t].op = "append" => B = {})
    <2>1. freeBlocks = job[t].original - n /\ (job[t].op = "append" => B = {})
      BY DEF Restore, Adds
    <2>2. freeBlocks' = job[t].original
      BY DEF Restore
    <2> QED BY <1>2, <2>1, <2>2
  <1>4. Reach(t) = Free /\ Free' = Free /\ IsFiniteSet(Free) /\ Cardinality(Free) \in Nat
    BY <1>1, BlocksFinite DEF Reach, Free
  <1>5. Counted'
    BY <1>1, CountedKept DEF Exact
  <1>6. CASE job[t].op = "append"
    <2>1. StepOf(t) /\ JobFits(t)' /\ Debt(t)' = {} /\ Pending(t)' = {}
      BY <1>1, <1>6, FinishFits DEF Restore
    <2>2. Cardinality(Debt(t)) = n
      <3>1. n \in {0, 1} /\ B = {}
        BY <1>3, <1>6 DEF Exact, JobFits
      <3>2. Debt(t) = IF n = 1 THEN {0} ELSE {}
        BY <1>1, <1>6, <3>1 DEF Debt
      <3> QED BY <1>2, <3>1, <3>2
    <2>3. Reach(t)' = Free
      BY <1>4, <2>1 DEF Reach
    <2>4. freeBlocks' + Cardinality(Debt(t)') + Cardinality(Reach(t))
            <= freeBlocks + Cardinality(Debt(t)) + Cardinality(Reach(t)')
      BY <1>2, <1>3, <1>4, <2>1, <2>2, <2>3
    <2> QED BY <1>1, <1>5, <2>1, <2>4, ExactKept
  <1>7. CASE job[t].op \in {"create", "write"}
    <2>1. pc'[t] = "unmark" /\ job' = job /\ StepOf(t)
      BY <1>1, <1>7 DEF Restore, Goto, Base, TypeOK, StepOf
    <2>2. JobFits(t)' /\ Debt(t) = {} /\ Debt(t)' = {}
      BY <1>1, <1>7, <2>1 DEF Exact, JobFits, Debt
    <2>3. Cardinality(Reach(t)') = Cardinality(Free) + n
      <3>1. CASE job[t].op = "create"
        <4>1. Cardinality(B) = n /\ Pending(t)' = B
          BY <1>1, <2>1, <3>1 DEF Exact, JobFits, Pending
        <4>2. B \subseteq DataBlocks /\ \A b \in B : Brings(t, b)
          BY <1>1, <3>1 DEF Brings, Keeps, Base, Placed
        <4>3. IsFiniteSet(B) /\ \A b \in Free : b \notin B
          BY <4>2, BlocksFinite DEF Held, Marked, Free
        <4>4. Reach(t)' = Free \union B
          BY <1>4, <4>1 DEF Reach
        <4>5. Cardinality(Free \union B) = Cardinality(Free) + Cardinality(B)
          BY <1>4, <4>3, Apart
        <4> QED BY <4>1, <4>4, <4>5
      <3>2. CASE job[t].op = "write"
        <4>1. n = 0 /\ Pending(t)' = {}
          BY <2>1, <3>2 DEF Exact, JobFits, Pending
        <4>2. Reach(t)' = Free
          BY <1>4, <4>1 DEF Reach
        <4> QED BY <1>4, <4>1, <4>2
      <3> QED BY <1>7, <3>1, <3>2
    <2>4. freeBlocks' + Cardinality(Debt(t)') + Cardinality(Reach(t))
            <= freeBlocks + Cardinality(Debt(t)) + Cardinality(Reach(t)')
      BY <1>2, <1>3, <1>4, <2>2, <2>3
    <2> QED BY <1>1, <1>5, <2>1, <2>2, <2>4, ExactKept
  <1> QED BY <1>1, <1>6, <1>7

LEMMA UnmarkExact ==
  ASSUME Base, Held, Base', Held', Exact, Sound', NEW t \in Threads, Unmark(t)
  PROVE  Exact'
  <1>1. /\ pc[t] = "unmark" /\ job[t].op \in {"create", "write"} /\ Finish(t) /\ entries' = entries
        /\ FATTABLE' = FATTABLE \ job[t].blocks /\ freeBlocks' = freeBlocks
    BY DEF Unmark, Base, Placed
  <1>2. StepOf(t) /\ JobFits(t)' /\ Debt(t)' = {} /\ Pending(t)' = {}
    BY <1>1, FinishFits
  <1>3. Reach(t) \subseteq Reach(t)'
    <2>1. Pending(t) \subseteq job[t].blocks /\ Pending(t) \subseteq DataBlocks
      BY PendingHeld DEF Pending
    <2> QED BY <1>1, <2>1 DEF Reach, Free
  <1>4. Counted'
    BY <1>1, CountedKept DEF Exact
  <1> QED BY <1>1, <1>2, <1>3, <1>4, EasyStep

LEMMA StutterExact == ASSUME Exact, UNCHANGED vars PROVE Exact'
  <1>1. Counted' /\ \A t \in Threads : JobFits(t)'
    BY CountedKept DEF vars, Exact, JobFits, Covered, Run
  <1>2. Debts' = Debts /\ Unspent' = Unspent
    BY DEF vars, Debts, Debt, Unspent, Pending
  <1> QED BY <1>1, <1>2 DEF vars, Exact, Balance

LEMMA StepExact ==
  ASSUME Base, Held, Base', Held', Exact, Sound', flaws' = {}, NEW t \in Threads, Step(t)
  PROVE  Exact'
  BY PushDirectoryExact, CountDirectoryExact, LockExact, CopyExact, TestExact, AllocateExact,
     SaveBitsExact, GrowExact, CutExact, SizeExact, ClearExact, UnslotExact, LoadExact, StoreExact,
     LinkExact, SaveExact, UndoExact, RestoreExact, UnmarkExact DEF Step

LEMMA InitExact == Init => Exact
  <1> SUFFICES ASSUME Init PROVE Exact
    OBVIOUS
  <1>1. Counted /\ \A t \in Threads : JobFits(t)
    BY DEF Init, NoJob, Counted, Slots, JobFits
  <1>2. \A t \in Threads : Debt(t) = {} /\ Pending(t) = {}
    BY DEF Init, NoJob, Debt, Pending
  <1>3. Debts = {} /\ Unspent = DataBlocks
    BY <1>2 DEF Debts, Unspent, Init
  <1>4. IsFiniteSet({}) /\ Cardinality({}) = 0 /\ Cardinality(DataBlocks) \in Nat
    BY FS_EmptySet, BlocksFinite
  <1> QED BY <1>1, <1>3, <1>4 DEF Exact, Balance, Init

LEMMA NextBooks == ASSUME Books, [Next]_vars PROVE Books'
  <1>1. Inv'
    BY NextInv DEF Books
  <1>2. ASSUME flaws' = {} PROVE Exact'
    <2>1. flaws = {} /\ Sound /\ Sound'
      BY <1>2, FlawsGrow DEF Sound
    <2>2. Base /\ Held /\ Base' /\ Held' /\ Exact
      BY <1>1, <2>1 DEF Books, Inv
    <2>3. ASSUME NEW t \in Threads, Step(t) PROVE Exact'
      BY <1>2, <2>1, <2>2, <2>3, StepExact
    <2> QED BY <2>2, <2>3, CreateExact, EnterExact, MakeDirectoryExact, StutterExact DEF Next
  <1> QED BY <1>1, <1>2 DEF Books

\* While no mistake is made and no command runs, superblock.freeBlocks promises
\* no more blocks than the bitmap has (filesystem.cpp 68, 278, 397; rollback.cpp
\* 7, 20), however the commands before interleaved and wherever their saves failed.
THEOREM CounterIsCovered == Spec => []CounterCovered
  <1>1. Init => Books
    BY InitBase, InitHeld, InitExact DEF Books, Inv
  <1>2. Books => CounterCovered
    <2> SUFFICES ASSUME Books, flaws = {}, \A t \in Threads : pc[t] = "idle"
                 PROVE  freeBlocks <= Cardinality(Free)
      BY DEF CounterCovered
    <2>1. \A t \in Threads : Debt(t) = {} /\ Pending(t) = {}
      BY DEF Debt, Pending, Books, Inv, Base, Placed, NoJob
    <2>2. Debts = {} /\ Unspent = Free
      BY <2>1 DEF Debts, Unspent, Free
    <2>3. Cardinality({}) = 0 /\ freeBlocks \in Int
      BY FS_EmptySet DEF Books, Inv, Base, TypeOK
    <2> QED BY <2>2, <2>3 DEF Books, Exact, Balance
  <1> QED BY <1>1, <1>2, NextBooks, PTL DEF Spec
=============================================================================
