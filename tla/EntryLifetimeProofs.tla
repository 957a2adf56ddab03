------------------------ MODULE EntryLifetimeProofs ------------------------
(***************************************************************************)
(* Proofs about EntryLifetime, for any threads, names, and numbers of      *)
(* entries: the table never holds a freed entry, and whoever got a lock of *)
(* an entry in the table works on it undisturbed.                          *)
(***************************************************************************)
EXTENDS EntryLifetime, FiniteSetTheorems, TLAPS

\* Threads with a pointer from the table, and threads with a new entry.
Holds(t) == pc[t] \in {"lock", "work", "rekey", "reinsert", "unname", "release",
                       "close", "free"}
Makes(t) == pc[t] \in {"insert", "push"}

\* Threads that have put a blank entry into the slot of theirs.
Unlinked(t) == \/ pc[t] \in {"unname", "free"}
               \/ pc[t] = "release" /\ Deletes(t)

\* What a job is at each place of its thread.
JobOfPlace ==
  \A t \in Threads :
    /\ pc[t] # "idle" => job[t].key \in Keys /\ job[t].op \in AllCommands
    /\ pc[t] \in {"find", "load"} => job[t].obj = 0
    /\ pc[t] \in {"unname", "free"} => Deletes(t)
    /\ pc[t] \in {"rekey", "reinsert"} => job[t].op = "rename"
    /\ job[t].op = "rename" => job[t].new \in Names
    /\ Holds(t) \/ Makes(t) => job[t].obj \in Objects

\* No entry is in two slots.
Injective == \A i, j \in DOMAIN table : table[i] = table[j] => i = j

\* A slot keeps its entry until a thread that looked it up there unlinks it;
\* it is blank from then on.
SlotKept ==
  \A t \in Threads : Holds(t) =>
    /\ job[t].slot \in DOMAIN table
    /\ \A s \in DOMAIN table : table[s] = job[t].obj => s = job[t].slot
    /\ table[job[t].slot] = job[t].obj \/ name[table[job[t].slot]] = NoName

\* An entry that somebody looked up has a name while it is in the table.
Named ==
  \A t \in Threads : Holds(t) /\ InTable(job[t].obj) => name[job[t].obj] # NoName

UnlinkedIsOut == \A t \in Threads : Unlinked(t) => ~InTable(job[t].obj)

\* A new entry is known to its maker only.
Private ==
  \A t \in Threads : Makes(t) =>
    /\ ~InTable(job[t].obj) /\ Alive(t)
    /\ \A u \in Threads \ {t} : job[u].obj # job[t].obj

Exclusion ==
  \A t, u \in Working :
    t # u /\ job[t].obj = job[u].obj => ~Exclusive(t) /\ ~Exclusive(u)

\* Whoever works and came in time finds the entry in the table, until the
\* thread itself takes it out.
WorkersLinked ==
  \A t \in Working \ late : InTable(job[t].obj) \/ Unlinked(t)

Inv ==
  /\ TypeOK /\ JobOfPlace
  /\ TableIsLive /\ Injective /\ SlotKept /\ Named /\ UnlinkedIsOut /\ Private
  /\ Exclusion /\ WorkersLinked /\ WorkersSafe

LEMMA InitInv == Init => Inv
  <1> SUFFICES ASSUME Init PROVE Inv
    OBVIOUS
  <1> USE LifetimeAssumption DEF Init, NoJob
  <1>1. Len(Booted) \in Nat /\ table \in Seq(Objects) /\ DOMAIN table = 1..Len(Booted)
    BY DEF Objects
  <1>2. name \in Seq(Keys \union {NoName})
    OBVIOUS
  <1>3. index \subseteq Keys \X Nat
    OBVIOUS
  <1>4. /\ isDirectory \subseteq Objects /\ freed \subseteq Objects
        /\ metaIndex \in Nat /\ creator \in Threads \union {Nobody}
        /\ late \subseteq Threads /\ fault \in BOOLEAN
    BY <1>1 DEF Objects
  <1>a. /\ pc \in [Threads -> PCs] /\ job \in [Threads -> Job]
        /\ \A t \in Threads : job[t].obj \in 0..Len(name)
    BY <1>1 DEF PCs, Job
  <1>b. TypeOK
    BY <1>1, <1>2, <1>3, <1>4, <1>a DEF TypeOK
  <1>5. \A t \in Threads : pc[t] = "idle" /\ job[t].op = "none"
    OBVIOUS
  <1>6. TableIsLive /\ Injective
    BY <1>1 DEF TableIsLive, Injective
  <1>7. JobOfPlace /\ SlotKept /\ Named /\ UnlinkedIsOut /\ Private
    BY <1>5 DEF JobOfPlace, SlotKept, Named, UnlinkedIsOut, Private, Holds, Makes, Unlinked
  <1>8. Exclusion /\ WorkersLinked /\ WorkersSafe
    BY <1>5 DEF Exclusion, WorkersLinked, WorkersSafe, Working
  <1> QED BY <1>b, <1>6, <1>7, <1>8 DEF Inv

\* A thread that goes on, gives up or begins without a change of an entry or of
\* the table, and that gets neither a pointer nor a lock by it.
Moves(t) ==
  /\ UNCHANGED <<name, freed, table, late>>
  /\ \A u \in Threads \ {t} : pc'[u] = pc[u] /\ job'[u] = job[u]
  /\ job'[t].obj \in {0, job[t].obj}
  /\ Holds(t)' \/ Makes(t)' => job'[t] = job[t]
  /\ Holds(t)' => Holds(t)
  /\ Makes(t)' => Makes(t)
  /\ (t \in Working)' => t \in Working
  /\ Unlinked(t)' => Unlinked(t)
  /\ (t \in Working)' /\ Unlinked(t) => Unlinked(t)'
  /\ pc'[t] # "free"

LEMMA MovesKeepInv ==
  ASSUME Inv, NEW t \in Threads, Moves(t), TypeOK', JobOfPlace'
  PROVE  Inv'
  <1> USE DEF Inv, Moves
  <1>1. TableIsLive' /\ Injective'
    BY DEF TableIsLive, Injective
  <1>2. SlotKept'
    BY DEF SlotKept, Holds
  <1>3. Named' /\ UnlinkedIsOut'
    BY DEF Named, UnlinkedIsOut, Holds, Unlinked, Deletes, InTable
  <1>4. Private'
    <2> SUFFICES ASSUME NEW u \in Threads, Makes(u)'
                 PROVE  /\ ~InTable(job[u].obj)' /\ Alive(u)'
                        /\ \A v \in Threads \ {u} : job'[v].obj # job'[u].obj
      BY DEF Private
    <2>1. Makes(u) /\ job'[u] = job[u] /\ job[u].obj # 0
      BY DEF Makes, JobOfPlace, TypeOK, Objects
    <2> QED BY <2>1 DEF Private, InTable, Alive
  <1>5. Exclusion' /\ WorkersLinked'
    BY DEF Exclusion, WorkersLinked, Working, Exclusive, Holds, Unlinked, Deletes, InTable
  <1>6. WorkersSafe'
    BY DEF WorkersSafe, Working, Alive, Holds
  <1> QED BY <1>1, <1>2, <1>3, <1>4, <1>5, <1>6

LEMMA NameSet ==
  ASSUME NEW S, NEW q \in Seq(S), NEW o \in 1..Len(q), NEW v \in S
  PROVE  [q EXCEPT ![o] = v] \in Seq(S)
  OBVIOUS

LEMMA JobTyped ==
  ASSUME job \in [Threads -> Job], NEW t \in Threads, NEW n \in Nat
  PROVE  /\ [job EXCEPT ![t].obj = n] \in [Threads -> Job]
         /\ [job EXCEPT ![t].slot = n] \in [Threads -> Job]
         /\ [job EXCEPT ![t] = NoJob] \in [Threads -> Job]
  BY DEF Job, NoJob

LEMMA BeginStep ==
  ASSUME Inv, NEW t \in Threads, NEW op, NEW k, NEW new, Begin(t, op, k, new)
  PROVE  Inv'
  <1> USE LifetimeAssumption DEF Inv, TypeOK, Objects, Begin, Goto, Job, PCs, AllCommands, Keys
  <1>1. TypeOK'
    BY DEF JobOfPlace, Holds, Makes, Job, Keys
  <1>2. JobOfPlace'
    BY DEF JobOfPlace, Holds, Makes, Deletes, Job
  <1>3. Moves(t)
    BY DEF Moves, JobOfPlace, Holds, Makes, Working, Unlinked, Deletes, Job
  <1> QED BY <1>1, <1>2, <1>3, MovesKeepInv

LEMMA RefusedStep ==
  ASSUME Inv, NEW t \in Threads, Finish(t), pc[t] \in {"find", "load", "close", "count"},
         UNCHANGED <<name, isDirectory, freed, table, index, late, fault>>,
         metaIndex' \in Nat, creator' \in Threads \union {Nobody}
  PROVE  Inv'
  <1> USE LifetimeAssumption DEF Inv, TypeOK, Objects, Finish, Goto, NoJob, PCs
  <1>1. TypeOK'
    BY DEF JobOfPlace, Holds, Makes, Job, Keys
  <1>2. JobOfPlace'
    BY DEF JobOfPlace, Holds, Makes, Deletes, Job
  <1>3. Moves(t)
    BY DEF Moves, JobOfPlace, Holds, Makes, Working, Unlinked, Deletes, Job
  <1> QED BY <1>1, <1>2, <1>3, MovesKeepInv

LEMMA FindStep ==
  ASSUME Inv, NEW t \in Threads, Find(t)
  PROVE  Inv'
  <1> USE LifetimeAssumption DEF Inv, TypeOK
  <1>1. CASE Finish(t)
    BY <1>1, RefusedStep DEF Find
  <1>2. ASSUME NEW p \in Pairs(job[t].key), Goto(t, "load"),
               job' = [job EXCEPT ![t].slot = p[2]]
        PROVE  Inv'
    <2> USE <1>2 DEF Find, Goto, PCs
    <2>0. p[2] \in Nat
      BY DEF Pairs
    <2>1. TypeOK'
      <3>1. job' \in [Threads -> Job]
        BY <2>0, JobTyped
      <3>2. \A u \in Threads : job'[u].obj = job[u].obj
        BY DEF Job
      <3> QED BY <3>1, <3>2 DEF Objects
    <2>2. JobOfPlace'
      BY DEF JobOfPlace, Holds, Makes, Deletes, Job, Objects
    <2>3. Moves(t)
      BY DEF Moves, JobOfPlace, Holds, Makes, Working, Unlinked, Deletes, Job
    <2> QED BY <2>1, <2>2, <2>3, MovesKeepInv
  <1> QED BY <1>1, <1>2 DEF Find

LEMMA LoadStep ==
  ASSUME Inv, NEW t \in Threads, Load(t)
  PROVE  Inv'
  <1> USE LifetimeAssumption DEF Inv, TypeOK, Objects
  <1>1. CASE Finish(t)
    BY <1>1, RefusedStep DEF Load
  <1>2. CASE ~Finish(t)
    <2> DEFINE o == table[job[t].slot]
    <2>0. /\ o \in Objects /\ o \notin freed /\ name[o] # NoName
          /\ job[t].slot \in DOMAIN table /\ InTable(o)
          /\ job' = [job EXCEPT ![t].obj = o] /\ pc' = [pc EXCEPT ![t] = "lock"]
          /\ pc[t] = "load" /\ job'[t].obj = o /\ job'[t].slot = job[t].slot
          /\ UNCHANGED <<name, isDirectory, freed, table, index, metaIndex, creator, late, fault>>
      BY <1>2 DEF Load, Accepts, Goto, InTable, Job
    <2> HIDE DEF o
    <2>1. TypeOK'
      <3>1. job' \in [Threads -> Job]
        <4>1. o \in Nat
          BY <2>0
        <4> QED BY <2>0, <4>1, JobTyped
      <3>2. \A u \in Threads : job'[u].obj \in 0..Len(name')
        BY <2>0
      <3> QED BY <2>0, <3>1, <3>2 DEF PCs
    <2>2. JobOfPlace'
      BY <2>0 DEF JobOfPlace, Holds, Makes, Deletes, Job
    <2>3. TableIsLive' /\ Injective'
      BY <2>0 DEF TableIsLive, Injective
    <2>4. SlotKept'
      <3>1. table[job[t].slot] = o
        BY DEF o
      <3>2. \A u \in Threads \ {t} : job'[u] = job[u] /\ pc'[u] = pc[u]
        BY <2>0
      <3>3. \A i \in DOMAIN table : table[i] = o => i = job[t].slot
        BY <2>0, <3>1 DEF Injective
      <3>4. job'[t].obj = o /\ job'[t].slot = job[t].slot /\ table' = table /\ name' = name
        BY <2>0
      <3>5. table[job[t].slot] = o
        BY DEF o
      <3> SUFFICES ASSUME NEW u \in Threads, Holds(u)'
                   PROVE  /\ job'[u].slot \in DOMAIN table
                          /\ \A i \in DOMAIN table : table[i] = job'[u].obj => i = job'[u].slot
                          /\ \/ table[job'[u].slot] = job'[u].obj
                             \/ name[table[job'[u].slot]] = NoName
        BY <3>4 DEF SlotKept
      <3>6. CASE u = t
        BY <2>0, <3>3, <3>4, <3>5, <3>6
      <3>7. CASE u # t
        BY <3>2, <3>7 DEF SlotKept, Holds
      <3> QED BY <3>6, <3>7
    <2>5. Named' /\ UnlinkedIsOut'
      BY <2>0 DEF Named, UnlinkedIsOut, Holds, Unlinked, Deletes, InTable, Job
    <2>6. Private'
      BY <2>0 DEF Private, Makes, InTable, Alive, Job
    <2>7. Exclusion' /\ WorkersLinked' /\ WorkersSafe'
      BY <2>0 DEF Exclusion, WorkersLinked, WorkersSafe, Working, Exclusive, Unlinked,
                  Deletes, InTable, Alive, Job
    <2> QED BY <2>1, <2>2, <2>3, <2>4, <2>5, <2>6, <2>7
  <1> QED BY <1>1, <1>2

LEMMA AcquireStep ==
  ASSUME Inv, NEW t \in Threads, Acquire(t)
  PROVE  Inv'
  <1> USE LifetimeAssumption DEF Inv, TypeOK, Objects, Acquire, Goto
  <1>1. TypeOK'
    BY DEF PCs
  <1>2. JobOfPlace'
    BY DEF JobOfPlace, Holds, Makes, Deletes
  <1>3. TableIsLive' /\ Injective' /\ SlotKept' /\ Named' /\ UnlinkedIsOut'
    BY DEF TableIsLive, Injective, SlotKept, Named, UnlinkedIsOut, Holds, Unlinked,
           Deletes, InTable
  <1>4. Private'
    BY DEF Private, Makes, InTable, Alive
  <1>5. Exclusion'
    BY DEF Exclusion, Working, Exclusive, LockFree
  <1>6. WorkersLinked'
    BY DEF WorkersLinked, Working, Unlinked, Deletes, InTable
  <1>7. WorkersSafe'
    BY DEF WorkersSafe, Working, Alive, TableIsLive, InTable, UnlinkedIsOut, Unlinked
  <1> QED BY <1>1, <1>2, <1>3, <1>4, <1>5, <1>6, <1>7

LEMMA WorkStep ==
  ASSUME Inv, NEW t \in Threads, Work(t)
  PROVE  Inv'
  <1> USE LifetimeAssumption DEF Inv, TypeOK, Objects, Work, Goto, PCs
  <1>1. TypeOK'
    BY DEF JobOfPlace, Holds, Makes, Job, Keys
  <1>2. JobOfPlace'
    BY DEF JobOfPlace, Holds, Makes, Deletes, Job
  <1>3. Moves(t)
    BY DEF Moves, JobOfPlace, Holds, Makes, Working, Unlinked, Deletes, Job
  <1> QED BY <1>1, <1>2, <1>3, MovesKeepInv

LEMMA SetNameStep ==
  ASSUME Inv, NEW t \in Threads, SetName(t)
  PROVE  Inv'
  <1> USE LifetimeAssumption DEF Inv, TypeOK, SetName, Goto
  <1>0. /\ job[t].new \in Keys /\ job[t].new # NoName /\ Len(name') = Len(name)
        /\ DOMAIN name' = DOMAIN name
        /\ \A o \in Objects : name'[o] = IF o = job[t].obj THEN job[t].new ELSE name[o]
    BY DEF JobOfPlace, Job, Objects, Keys
  <1>1. TypeOK'
    <2>1. name' \in Seq(Keys \union {NoName})
      <3>1. name' = [name EXCEPT ![job[t].obj] = job[t].new]
        OBVIOUS
      <3>2. job[t].new \in Keys \union {NoName} /\ job[t].obj \in 1..Len(name)
        BY <1>0 DEF JobOfPlace, Holds, Objects
      <3> QED BY <3>1, <3>2, NameSet
    <2> QED BY <1>0, <2>1 DEF PCs, Objects
  <1>2. JobOfPlace'
    BY <1>0 DEF JobOfPlace, Holds, Makes, Deletes, Objects
  <1>3. TableIsLive' /\ Injective' /\ UnlinkedIsOut'
    BY DEF TableIsLive, Injective, UnlinkedIsOut, Unlinked, Deletes, InTable
  <1>4. SlotKept'
    <2> SUFFICES ASSUME NEW u \in Threads, Holds(u)
                 PROVE  name[table[job[u].slot]] = NoName
                          => name'[table[job[u].slot]] = NoName
      BY DEF SlotKept, Holds
    <2>1. job[u].slot \in DOMAIN table /\ table[job[u].slot] \in Objects
      BY DEF SlotKept
    <2>2. table[job[u].slot] = job[t].obj => name[job[t].obj] # NoName
      BY <2>1 DEF Named, Holds, InTable
    <2> QED BY <2>1, <2>2, <1>0
  <1>5. Named'
    <2> SUFFICES ASSUME NEW u \in Threads, Holds(u), InTable(job[u].obj)
                 PROVE  name'[job[u].obj] # NoName
      BY DEF Named, Holds, InTable
    <2>1. job[u].obj \in Objects /\ name[job[u].obj] # NoName
      BY DEF Named, JobOfPlace
    <2> QED BY <2>1, <1>0
  <1>6. Private'
    BY DEF Private, Makes, InTable, Alive
  <1>7. Exclusion' /\ WorkersLinked' /\ WorkersSafe'
    BY DEF Exclusion, WorkersLinked, WorkersSafe, Working, Exclusive, Unlinked, Deletes,
           InTable, Alive
  <1> QED BY <1>1, <1>2, <1>3, <1>4, <1>5, <1>6, <1>7

LEMMA RekeyStep ==
  ASSUME Inv, NEW t \in Threads, Rekey(t)
  PROVE  Inv'
  <1> USE LifetimeAssumption DEF Inv, TypeOK, Objects, Rekey, Remove, Pairs, Goto, PCs
  <1>1. TypeOK'
    BY DEF JobOfPlace, Holds, Makes, Job, Keys
  <1>2. JobOfPlace'
    BY DEF JobOfPlace, Holds, Makes, Deletes, Job
  <1>3. Moves(t)
    BY DEF Moves, JobOfPlace, Holds, Makes, Working, Unlinked, Deletes, Job
  <1> QED BY <1>1, <1>2, <1>3, MovesKeepInv

LEMMA ReinsertStep ==
  ASSUME Inv, NEW t \in Threads, Reinsert(t)
  PROVE  Inv'
  <1> USE LifetimeAssumption DEF Inv, TypeOK, Objects, Reinsert, Goto, PCs
  <1>1. TypeOK'
    BY DEF JobOfPlace, Holds, Makes, Job, Keys
  <1>2. JobOfPlace'
    BY DEF JobOfPlace, Holds, Makes, Deletes, Job
  <1>3. Moves(t)
    BY DEF Moves, JobOfPlace, Holds, Makes, Working, Unlinked, Deletes, Job
  <1> QED BY <1>1, <1>2, <1>3, MovesKeepInv

\* What an entry that is added at the end leaves as it was.
LEMMA Allocated ==
  ASSUME TypeOK, NEW k \in Keys \union {NoName}, Allocate(k)
  PROVE  /\ name' \in Seq(Keys \union {NoName}) /\ Len(name') = Len(name) + 1
         /\ Fresh \in Nat /\ Fresh = Len(name) + 1 /\ name'[Fresh] = k
         /\ Objects' = Objects \union {Fresh} /\ Fresh \notin Objects /\ Fresh # 0
         /\ \A o \in Objects : name'[o] = name[o]
  BY DEF TypeOK, Allocate, Fresh, Objects

LEMMA UnlinkStep ==
  ASSUME Inv, NEW t \in Threads, Unlink(t)
  PROVE  Inv'
  <1> USE LifetimeAssumption DEF Inv
  <1> DEFINE s == job[t].slot
  <1>0. /\ name' \in Seq(Keys \union {NoName}) /\ Len(name') = Len(name) + 1
        /\ Fresh = Len(name) + 1 /\ name'[Fresh] = NoName
        /\ Objects' = Objects \union {Fresh} /\ Fresh \notin Objects /\ Fresh # 0
        /\ \A o \in Objects : name'[o] = name[o]
    BY Allocated DEF Unlink
  <1>1. /\ s \in DOMAIN table /\ DOMAIN table' = DOMAIN table
        /\ \A i \in DOMAIN table : table[i] \in Objects
        /\ \A i \in DOMAIN table : table'[i] = IF i = s THEN Fresh ELSE table[i]
        /\ t \in Working /\ Holds(t) /\ Deletes(t) /\ Exclusive(t)
        /\ \A i \in DOMAIN table : i # s => table[i] # job[t].obj
    BY DEF Unlink, SlotKept, Holds, TypeOK, Working, Deletes, Exclusive
  <1>2. /\ pc' = [pc EXCEPT ![t] = "unname"] /\ pc[t] = "work" /\ pc \in [Threads -> PCs]
        /\ UNCHANGED <<isDirectory, freed, index, metaIndex, creator, job, late, fault>>
    BY DEF Unlink, Goto, TypeOK
  <1>3. \A u \in Threads : Holds(u) \/ Makes(u) => job[u].obj \in Objects
    BY DEF JobOfPlace
  <1> HIDE DEF s
  <1>4. TypeOK'
    <2>1. table' \in Seq(Objects')
      BY <1>0, <1>1 DEF TypeOK, Unlink, s
    <2>2. \A u \in Threads : job[u].obj \in 0..Len(name')
      BY <1>0 DEF TypeOK
    <2> QED BY <1>0, <1>2, <2>1, <2>2 DEF TypeOK, PCs
  <1>5. JobOfPlace'
    BY <1>0, <1>1, <1>2 DEF JobOfPlace, Holds, Makes, Deletes
  <1>6. TableIsLive' /\ Injective'
    <2>1. freed \subseteq Objects
      BY DEF TypeOK
    <2> QED BY <1>0, <1>1, <1>2, <2>1 DEF TableIsLive, Injective
  <1>7. \A u \in Threads : Holds(u) \/ Makes(u) =>
          (InTable(job[u].obj)' <=> InTable(job[u].obj) /\ table[s] # job[u].obj)
    BY <1>0, <1>1, <1>2, <1>3 DEF InTable, Injective
  <1>8. SlotKept'
    <2> SUFFICES ASSUME NEW u \in Threads, Holds(u)
                 PROVE  /\ job[u].slot \in DOMAIN table
                        /\ \A i \in DOMAIN table : table'[i] = job[u].obj => i = job[u].slot
                        /\ \/ table'[job[u].slot] = job[u].obj
                           \/ name'[table'[job[u].slot]] = NoName
      BY <1>1, <1>2 DEF SlotKept, Holds
    <2>1. job[u].obj # Fresh
      BY <1>0, <1>3
    <2> QED BY <1>0, <1>1, <2>1 DEF SlotKept
  <1>9. Named'
    BY <1>0, <1>1, <1>2, <1>3, <1>7 DEF Named, Holds
  <1>10. ~InTable(job[t].obj)'
    BY <1>1, <1>7 DEF InTable
  <1>11. UnlinkedIsOut'
    BY <1>2, <1>7, <1>10 DEF UnlinkedIsOut, Unlinked, Holds, Deletes
  <1>12. Private'
    BY <1>2, <1>7 DEF Private, Makes, Alive
  <1>13. Exclusion'
    BY <1>2 DEF Exclusion, Working, Exclusive
  <1>14. \A u \in Working \ {t} : InTable(job[u].obj) => table[s] # job[u].obj
    <2> SUFFICES ASSUME NEW u \in Working \ {t}, InTable(job[u].obj), table[s] = job[u].obj
                 PROVE  FALSE
      OBVIOUS
    <2>1. name[table[s]] # NoName
      BY DEF Named, Working, Holds
    <2>2. table[s] = job[t].obj
      BY <1>1, <2>1 DEF SlotKept, s
    <2> QED BY <1>1, <2>2 DEF Exclusion, Working
  <1>15. WorkersLinked'
    BY <1>1, <1>2, <1>7, <1>14 DEF WorkersLinked, Working, Holds, Unlinked, Deletes
  <1>16. WorkersSafe'
    BY <1>2 DEF WorkersSafe, Working, Alive
  <1> QED BY <1>4, <1>5, <1>6, <1>8, <1>9, <1>11, <1>12, <1>13, <1>15, <1>16

LEMMA UnnameStep ==
  ASSUME Inv, NEW t \in Threads, Unname(t)
  PROVE  Inv'
  <1> USE LifetimeAssumption DEF Inv, TypeOK, Objects, Unname, Remove, Pairs, Goto, PCs
  <1>1. TypeOK'
    BY DEF JobOfPlace, Holds, Makes, Job, Keys
  <1>2. JobOfPlace'
    BY DEF JobOfPlace, Holds, Makes, Deletes, Job
  <1>3. Moves(t)
    BY DEF Moves, JobOfPlace, Holds, Makes, Working, Unlinked, Deletes, Job
  <1> QED BY <1>1, <1>2, <1>3, MovesKeepInv

LEMMA ReleaseStep ==
  ASSUME Inv, NEW t \in Threads, Release(t)
  PROVE  Inv'
  <1> USE LifetimeAssumption DEF Inv
  <1>a. name' = IF Deletes(t) THEN [name EXCEPT ![job[t].obj] = NoName] ELSE name
    BY DEF Release
  <1>b. name \in Seq(Keys \union {NoName}) /\ job[t].obj \in Objects
    BY DEF Release, TypeOK, JobOfPlace, Holds
  <1>c. /\ Len(name') = Len(name) /\ name' \in Seq(Keys \union {NoName})
        /\ \A o \in Objects : o # job[t].obj => name'[o] = name[o]
        /\ \A o \in Objects : name[o] = NoName => name'[o] = NoName
        /\ ~Deletes(t) => name' = name
    BY <1>a, <1>b DEF Objects
  <1>0. /\ pc[t] = "release" /\ late' = late \ {t}
        /\ pc' = [pc EXCEPT ![t] = IF Deletes(t) THEN "free" ELSE "close"]
        /\ pc \in [Threads -> PCs]
        /\ UNCHANGED <<isDirectory, freed, table, index, metaIndex, creator, job, fault>>
    BY DEF Release, Goto, TypeOK
  <1>1. TypeOK'
    BY <1>0, <1>c DEF TypeOK, PCs, Objects
  <1>2. JobOfPlace'
    BY <1>0, <1>c DEF JobOfPlace, Holds, Makes, Deletes, Objects
  <1>3. TableIsLive' /\ Injective' /\ UnlinkedIsOut'
    BY <1>0 DEF TableIsLive, Injective, UnlinkedIsOut, Unlinked, Deletes, InTable
  <1>4. SlotKept'
    <2>1. \A i \in DOMAIN table : table[i] \in Objects
      BY DEF TypeOK
    <2> QED BY <1>0, <1>c, <2>1 DEF SlotKept, Holds
  <1>5. Named'
    <2> SUFFICES ASSUME NEW u \in Threads, Holds(u), InTable(job[u].obj)
                 PROVE  name'[job[u].obj] # NoName
      BY <1>0 DEF Named, Holds, InTable
    <2>1. job[u].obj \in Objects /\ name[job[u].obj] # NoName
      BY DEF Named, JobOfPlace
    <2>2. Deletes(t) => job[u].obj # job[t].obj
      BY <1>0 DEF UnlinkedIsOut, Unlinked
    <2> QED BY <1>0, <1>c, <2>1, <2>2
  <1>6. Private'
    BY <1>0 DEF Private, Makes, InTable, Alive
  <1>7. Exclusion' /\ WorkersLinked'
    BY <1>0 DEF Exclusion, WorkersLinked, Working, Exclusive, Unlinked, Deletes, InTable
  <1>8. WorkersSafe'
    BY <1>0 DEF WorkersSafe, Working, Alive, Exclusion, Exclusive, Deletes
  <1> QED BY <1>1, <1>2, <1>3, <1>4, <1>5, <1>6, <1>7, <1>8

LEMMA CloseStep ==
  ASSUME Inv, NEW t \in Threads, Close(t)
  PROVE  Inv'
  BY RefusedStep DEF Close, Inv, TypeOK

LEMMA FreeStep ==
  ASSUME Inv, NEW t \in Threads, Free(t)
  PROVE  Inv'
  <1> USE LifetimeAssumption DEF Inv
  <1>0. /\ pc[t] = "free" /\ freed' = freed \union {job[t].obj}
        /\ pc' = [pc EXCEPT ![t] = "idle"] /\ job' = [job EXCEPT ![t] = NoJob]
        /\ UNCHANGED <<name, isDirectory, table, index, metaIndex, creator, late, fault>>
        /\ job[t].obj \in Objects /\ ~InTable(job[t].obj)
        /\ pc \in [Threads -> PCs] /\ job \in [Threads -> Job] /\ NoJob \in Job
        /\ NoJob.obj = 0 /\ NoJob.op = "none" /\ job' \in [Threads -> Job]
    BY DEF Free, Finish, Goto, JobOfPlace, Holds, UnlinkedIsOut, Unlinked, TypeOK, NoJob, Job
  <1>1. TypeOK'
    <2>1. \A u \in Threads : job'[u].obj \in 0..Len(name)
      BY <1>0 DEF TypeOK
    <2>2. freed' \subseteq Objects' /\ pc' \in [Threads -> PCs]
      BY <1>0 DEF TypeOK, PCs, Objects
    <2> QED BY <1>0, <2>1, <2>2 DEF TypeOK, Objects
  <1>2. JobOfPlace'
    BY <1>0 DEF JobOfPlace, Holds, Makes, Deletes, Objects
  <1>3. TableIsLive' /\ Injective'
    BY <1>0 DEF TableIsLive, Injective, InTable
  <1>4. SlotKept' /\ Named' /\ UnlinkedIsOut'
    BY <1>0 DEF SlotKept, Named, UnlinkedIsOut, Holds, Unlinked, Deletes, InTable
  <1>5. Private'
    <2> SUFFICES ASSUME NEW u \in Threads, Makes(u)'
                 PROVE  /\ ~InTable(job[u].obj)' /\ Alive(u)'
                        /\ \A v \in Threads \ {u} : job'[v].obj # job'[u].obj
      BY DEF Private
    <2>1. u # t /\ Makes(u) /\ job'[u] = job[u] /\ job[u].obj # 0
      BY <1>0 DEF Makes, JobOfPlace, Objects
    <2> QED BY <1>0, <2>1 DEF Private, InTable, Alive
  <1>6. Exclusion' /\ WorkersLinked'
    BY <1>0 DEF Exclusion, WorkersLinked, Working, Exclusive, Unlinked, Deletes, InTable
  <1>7. WorkersSafe'
    BY <1>0 DEF WorkersSafe, Working, Alive
  <1> QED BY <1>1, <1>2, <1>3, <1>4, <1>5, <1>6, <1>7

LEMMA CheckStep ==
  ASSUME Inv, NEW t \in Threads, Check(t)
  PROVE  Inv'
  <1> USE LifetimeAssumption DEF Inv
  <1>1. CASE Finish(t) /\ UNCHANGED <<name, isDirectory, creator>>
    BY <1>1, RefusedStep DEF Check, TypeOK
  <1>2. CASE ~(Finish(t) /\ UNCHANGED <<name, isDirectory, creator>>)
    <2>0. /\ Allocate(job[t].key) /\ job' = [job EXCEPT ![t].obj = Fresh]
          /\ pc[t] = "find" /\ pc' = [pc EXCEPT ![t] = "insert"]
          /\ isDirectory' \subseteq isDirectory \union {Fresh}
          /\ creator' \in {t, creator}
          /\ UNCHANGED <<freed, table, index, metaIndex, late, fault>>
          /\ job[t].key \in Keys
      BY <1>2 DEF Check, Goto, JobOfPlace
    <2>1. /\ name' \in Seq(Keys \union {NoName}) /\ Len(name') = Len(name) + 1
          /\ Fresh \in Nat /\ Fresh = Len(name) + 1 /\ Fresh \notin Objects /\ Fresh # 0
          /\ Len(name) \in Nat
          /\ Objects' = Objects \union {Fresh}
          /\ \A o \in Objects : name'[o] = name[o]
      BY <2>0, Allocated DEF TypeOK
    <2>2. /\ pc \in [Threads -> PCs] /\ job \in [Threads -> Job]
          /\ job'[t] = [job[t] EXCEPT !.obj = Fresh] /\ job'[t].obj = Fresh
          /\ \A u \in Threads \ {t} : job'[u] = job[u] /\ pc'[u] = pc[u]
          /\ \A i \in DOMAIN table : table[i] \in Objects
          /\ \A u \in Threads : job[u].obj \in 0..Len(name)
          /\ freed \subseteq Objects /\ \A u \in Threads : job[u].obj # Fresh
      BY <2>0, <2>1 DEF TypeOK, Job, Objects
    <2>3. TypeOK'
      <3>1. job' \in [Threads -> Job]
        BY <2>0, <2>1, <2>2, JobTyped
      <3>2. \A u \in Threads : job'[u].obj \in 0..Len(name')
        <4>1. Fresh \in 0..Len(name')
          BY <2>1
        <4>2. \A u \in Threads \ {t} : job'[u].obj \in 0..Len(name')
          BY <2>1, <2>2
        <4> QED BY <2>2, <4>1, <4>2
      <3>3. table' \in Seq(Objects')
        BY <2>0, <2>1 DEF TypeOK
      <3> QED BY <2>0, <2>1, <3>1, <3>2, <3>3 DEF TypeOK, PCs
    <2>4. JobOfPlace'
      BY <2>0, <2>1, <2>2 DEF JobOfPlace, Holds, Makes, Deletes, Job
    <2>5. TableIsLive' /\ Injective'
      BY <2>0 DEF TableIsLive, Injective
    <2>6. SlotKept'
      BY <2>0, <2>1, <2>2 DEF SlotKept, Holds
    <2>7. Named'
      BY <2>0, <2>1, <2>2 DEF Named, Holds, InTable
    <2>8. UnlinkedIsOut'
      BY <2>0, <2>2 DEF UnlinkedIsOut, Unlinked, Deletes, InTable
    <2>9. Private'
      BY <2>0, <2>1, <2>2 DEF Private, Makes, InTable, Alive
    <2>10. Exclusion' /\ WorkersLinked' /\ WorkersSafe'
      BY <2>0, <2>2 DEF Exclusion, WorkersLinked, WorkersSafe, Working, Exclusive,
                        Unlinked, Deletes, InTable, Alive
    <2> QED BY <2>3, <2>4, <2>5, <2>6, <2>7, <2>8, <2>9, <2>10
  <1> QED BY <1>1, <1>2

LEMMA InsertStep ==
  ASSUME Inv, NEW t \in Threads, Insert(t)
  PROVE  Inv'
  <1> USE LifetimeAssumption DEF Inv, TypeOK, Objects, Insert, Goto, PCs
  <1>1. TypeOK'
    BY DEF JobOfPlace, Holds, Makes, Job, Keys
  <1>2. JobOfPlace'
    BY DEF JobOfPlace, Holds, Makes, Deletes, Job
  <1>3. Moves(t)
    BY DEF Moves, JobOfPlace, Holds, Makes, Working, Unlinked, Deletes, Job
  <1> QED BY <1>1, <1>2, <1>3, MovesKeepInv

LEMMA PushStep ==
  ASSUME Inv, NEW t \in Threads, Push(t)
  PROVE  Inv'
  <1> USE LifetimeAssumption DEF Inv
  <1> DEFINE o == job[t].obj
  <1>0. /\ pc[t] = "push" /\ pc' = [pc EXCEPT ![t] = "count"] /\ pc \in [Threads -> PCs]
        /\ UNCHANGED <<name, isDirectory, freed, index, metaIndex, creator, job, late, fault>>
        /\ o \in Objects /\ o \notin freed /\ ~InTable(o)
        /\ \A u \in Threads \ {t} : job[u].obj # o
    BY DEF Push, Goto, TypeOK, JobOfPlace, Private, Makes, Alive
  <1>1. /\ table' = Append(table, o) /\ table' \in Seq(Objects)
        /\ DOMAIN table' = DOMAIN table \union {Len(table) + 1}
        /\ Len(table) + 1 \notin DOMAIN table /\ table'[Len(table) + 1] = o
        /\ \A i \in DOMAIN table : table'[i] = table[i]
    BY <1>0 DEF Push, TypeOK
  <1>2. \A u \in Threads \ {t} : InTable(job[u].obj)' <=> InTable(job[u].obj)
    BY <1>0, <1>1 DEF InTable
  <1> HIDE DEF o
  <1>3. TypeOK'
    BY <1>0, <1>1 DEF TypeOK, PCs, Objects
  <1>4. JobOfPlace'
    BY <1>0 DEF JobOfPlace, Holds, Makes, Deletes, Objects
  <1>5. TableIsLive' /\ Injective'
    BY <1>0, <1>1 DEF TableIsLive, Injective, InTable
  <1>6. SlotKept'
    BY <1>0, <1>1 DEF SlotKept, Holds
  <1>7. Named' /\ UnlinkedIsOut'
    BY <1>0, <1>2 DEF Named, UnlinkedIsOut, Holds, Unlinked, Deletes
  <1>8. Private'
    BY <1>0, <1>2 DEF Private, Makes, Alive
  <1>9. Exclusion' /\ WorkersLinked' /\ WorkersSafe'
    <2>1. t \notin Working /\ t \notin Working'
      BY <1>0 DEF Working
    <2>2. Working' = Working
      BY <1>0 DEF Working
    <2> QED BY <1>0, <1>2, <2>1, <2>2 DEF Exclusion, WorkersLinked, WorkersSafe, Working,
               Exclusive, Unlinked, Deletes, Alive
  <1> QED BY <1>3, <1>4, <1>5, <1>6, <1>7, <1>8, <1>9

LEMMA CountStep ==
  ASSUME Inv, NEW t \in Threads, Count(t)
  PROVE  Inv'
  BY RefusedStep DEF Count, Inv, TypeOK

LEMMA StutterStep ==
  ASSUME Inv, fault' \in BOOLEAN,
         UNCHANGED <<name, isDirectory, freed, table, index, metaIndex, creator, pc, job, late>>
  PROVE  Inv'
  <1> USE DEF Inv
  <1>1. TypeOK' /\ JobOfPlace' /\ TableIsLive' /\ Injective'
    BY DEF TypeOK, Objects, JobOfPlace, Holds, Makes, Deletes, TableIsLive, Injective
  <1>2. SlotKept' /\ Named' /\ UnlinkedIsOut' /\ Private'
    BY DEF SlotKept, Named, UnlinkedIsOut, Private, Holds, Makes, Unlinked, Deletes,
           InTable, Alive
  <1>3. Exclusion' /\ WorkersLinked' /\ WorkersSafe'
    BY DEF Exclusion, WorkersLinked, WorkersSafe, Working, Exclusive, Unlinked, Deletes,
           InTable, Alive
  <1> QED BY <1>1, <1>2, <1>3

LEMMA NextInv == Inv /\ [Next]_vars => Inv'
  <1> SUFFICES ASSUME Inv, [Next]_vars PROVE Inv'
    OBVIOUS
  <1>1. CASE UNCHANGED vars
    BY <1>1, StutterStep DEF vars, Inv, TypeOK
  <1>2. ASSUME NEW t \in Threads, Step(t) PROVE Inv'
    BY <1>2, FindStep, LoadStep, AcquireStep, WorkStep, SetNameStep, RekeyStep,
       ReinsertStep, UnlinkStep, UnnameStep, ReleaseStep, CloseStep, FreeStep,
       CheckStep, InsertStep, PushStep, CountStep, StutterStep DEF Step, Touch
  <1>3. ASSUME NEW t \in Threads, NEW op \in Commands, NEW k \in Keys,
               NEW new \in Names \union {NoName}, Begin(t, op, k, new)
        PROVE  Inv'
    BY <1>3, BeginStep
  <1> QED BY <1>1, <1>2, <1>3 DEF Next

LEMMA Invariance == Spec => []Inv
  BY InitInv, NextInv, PTL DEF Spec

\* Whatever the terminals do, every slot of the table holds an entry that is
\* still allocated (multithreading.cpp 199-271, filesystem.cpp 387-390).
THEOREM SlotsAreLive == Spec => []TableIsLive
  BY Invariance, PTL DEF Inv

\* A thread that gets the lock of an entry before the entry is taken out of the
\* table works on it undisturbed by any delete.
THEOREM TimelyWorkersAreSafe == Spec => []WorkersSafe
  BY Invariance, PTL DEF Inv

\* Slots, pointers and indices stay within the entries ever allocated and the
\* table (multithreading.cpp 43-271, directory.cpp 56-67).
THEOREM TypeCorrect == Spec => []TypeOK
  BY Invariance, PTL DEF Inv

-----------------------------------------------------------------------------
(* The count of the slots.                                                 *)

\* Threads whose entry is pushed and not yet counted.  There are finitely many
\* of them even if the terminals are not.
Pushed == {t \in Threads : pc[t] = "count"}
Tally == TypeOK /\ IsFiniteSet(Pushed) /\ SlotsCounted

\* A step elsewhere counts nothing.
LEMMA TallyKept ==
  ASSUME Tally, TypeOK', Pushed' = Pushed, metaIndex' = metaIndex, Len(table') = Len(table)
  PROVE  Tally'
  BY DEF Tally, SlotsCounted, Pushed

\* So does one that neither comes to nor leaves the place before the count.
LEMMA ElsewhereCounted ==
  ASSUME Tally, TypeOK', NEW t \in Threads, pc[t] # "count",
         NEW label, label # "count", Goto(t, label),
         metaIndex' = metaIndex, Len(table') = Len(table)
  PROVE  Tally'
  <1>1. Pushed' = Pushed
    BY DEF Pushed, Goto, Tally, TypeOK
  <1> QED BY <1>1, TallyKept

LEMMA PushTally ==
  ASSUME Tally, TypeOK', NEW t \in Threads, Push(t)
  PROVE  Tally'
  <1>1. Pushed' = Pushed \union {t} /\ t \notin Pushed
    BY DEF Push, Goto, Pushed, Tally, TypeOK
  <1>2. Len(table') = Len(table) + 1 /\ metaIndex' = metaIndex /\ metaIndex \in Nat
    BY DEF Push, Tally, TypeOK
  <1>3. IsFiniteSet(Pushed') /\ Cardinality(Pushed') = Cardinality(Pushed) + 1
        /\ Cardinality(Pushed) \in Nat
    BY <1>1, FS_AddElement, FS_CardinalityType DEF Tally
  <1>4. metaIndex + Cardinality(Pushed) = Len(table)
    BY DEF Tally, SlotsCounted, Pushed
  <1>5. metaIndex' + Cardinality(Pushed') = Len(table')
    BY <1>2, <1>3, <1>4
  <1> QED BY <1>3, <1>5 DEF Tally, SlotsCounted, Pushed

LEMMA CountTally ==
  ASSUME Tally, TypeOK', NEW t \in Threads, Count(t)
  PROVE  Tally'
  <1>1. Pushed' = Pushed \ {t} /\ t \in Pushed
    BY DEF Count, Finish, Goto, Pushed, Tally, TypeOK
  <1>2. Len(table') = Len(table) /\ metaIndex' = metaIndex + 1 /\ metaIndex \in Nat
    BY DEF Count, Tally, TypeOK
  <1>3. IsFiniteSet(Pushed') /\ Cardinality(Pushed') = Cardinality(Pushed) - 1
        /\ Cardinality(Pushed) \in Nat
    BY <1>1, FS_RemoveElement, FS_CardinalityType DEF Tally
  <1>4. metaIndex + Cardinality(Pushed) = Len(table)
    BY DEF Tally, SlotsCounted, Pushed
  <1>5. metaIndex' + Cardinality(Pushed') = Len(table')
    BY <1>2, <1>3, <1>4
  <1> QED BY <1>3, <1>5 DEF Tally, SlotsCounted, Pushed

LEMMA StepTally ==
  ASSUME Tally, TypeOK', NEW t \in Threads, Step(t)
  PROVE  Tally'
  <1>1. CASE Find(t) \/ Load(t) \/ Check(t)
    BY <1>1, ElsewhereCounted DEF Find, Load, Check, Finish
  <1>2. CASE Acquire(t) \/ Work(t) \/ SetName(t) \/ Rekey(t) \/ Reinsert(t)
    BY <1>2, ElsewhereCounted DEF Acquire, Work, SetName, Rekey, Reinsert
  <1>3. CASE Unlink(t)
    <2>1. Len(table') = Len(table)
      BY <1>3 DEF Unlink, Tally, TypeOK
    <2> QED BY <1>3, <2>1, ElsewhereCounted DEF Unlink
  <1>4. CASE Unname(t) \/ Close(t) \/ Free(t) \/ Insert(t)
    BY <1>4, ElsewhereCounted DEF Unname, Close, Free, Insert, Finish
  <1>5. CASE Release(t)
    <2>1. CASE Deletes(t)
      BY <1>5, <2>1, ElsewhereCounted DEF Release
    <2>2. CASE ~Deletes(t)
      BY <1>5, <2>2, ElsewhereCounted DEF Release
    <2> QED BY <2>1, <2>2
  <1>6. CASE Touch(t)
    BY <1>6, TallyKept DEF Touch, Pushed
  <1> QED BY <1>1, <1>2, <1>3, <1>4, <1>5, <1>6, PushTally, CountTally DEF Step

LEMMA InitTally == Init => Tally
  <1> SUFFICES ASSUME Init PROVE Tally
    OBVIOUS
  <1>1. TypeOK
    BY InitInv DEF Inv
  <1>2. Pushed = {}
    BY DEF Init, Pushed
  <1>3. metaIndex = Len(table) /\ Len(table) \in Nat
    BY LifetimeAssumption DEF Init
  <1> QED BY <1>1, <1>2, <1>3, FS_EmptySet DEF Tally, SlotsCounted, Pushed

LEMMA NextTally == Tally /\ TypeOK' /\ [Next]_vars => Tally'
  <1> SUFFICES ASSUME Tally, TypeOK', [Next]_vars PROVE Tally'
    OBVIOUS
  <1>1. CASE UNCHANGED vars
    BY <1>1, TallyKept DEF vars, Pushed
  <1>2. ASSUME NEW t \in Threads, NEW op \in Commands, NEW k \in Keys,
               NEW new \in Names \union {NoName}, Begin(t, op, k, new)
        PROVE  Tally'
    BY <1>2, ElsewhereCounted DEF Begin
  <1> QED BY <1>1, <1>2, StepTally DEF Next

\* createFiles and createDirectory together count every entry that is pushed on
\* the table exactly once, however their steps interleave with each other and
\* with renames and deletes (multithreading.cpp 418-436, directory.cpp 56-67).
THEOREM SlotsAreCounted == Spec => []SlotsCounted
  <1>1. Tally => SlotsCounted
    BY DEF Tally
  <1> QED BY <1>1, TypeCorrect, InitTally, NextTally, PTL DEF Spec
=============================================================================
