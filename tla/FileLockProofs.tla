--------------------------- MODULE FileLockProofs ---------------------------
(***************************************************************************)
(* The safety of FileLock for any finite set of handler threads.           *)
(***************************************************************************)
EXTENDS FileLock, FiniteSetTheorems, TLAPS

(***************************************************************************)
(* Moving one thread moves it from one phase set to another.               *)
(***************************************************************************)

\* A thread that changes its phase leaves one set, joins another and leaves
\* every other set alone: what Goto means for the sets the counters count.
LEMMA GotoMoves ==
    ASSUME pc \in [Threads -> Phases], NEW t \in Threads, NEW p, NEW q,
           Goto(t, p), pc[t] = q, p # q
    PROVE  /\ In(p)' = In(p) \cup {t}
           /\ t \notin In(p)
           /\ In(q)' = In(q) \ {t}
           /\ t \in In(q)
           /\ \A r : r # p /\ r # q => In(r)' = In(r)
BY DEF In, Goto

\* Every phase set is finite, so its size is a natural number, zero exactly
\* when the set is empty.
LEMMA PhaseSetsFinite ==
    \A q : /\ IsFiniteSet(In(q))
           /\ Cardinality(In(q)) \in Nat
           /\ Cardinality(In(q)) = 0 <=> In(q) = {}
           /\ Cardinality(In(q)') \in Nat
           /\ Cardinality(In(q)') = 0 <=> In(q)' = {}
<1>1. \A q : In(q) \subseteq Threads /\ In(q)' \subseteq Threads
  BY DEF In
<1>2. QED
  BY <1>1, ThreadsAssumption, FS_Subset, FS_CardinalityType, FS_EmptySet

\* The sizes of the two sets change by one: what justifies ++ and -- on the
\* counters of FileEntry.
LEMMA GotoCounts ==
    ASSUME pc \in [Threads -> Phases], NEW t \in Threads, NEW p, NEW q,
           Goto(t, p), pc[t] = q, p # q
    PROVE  /\ Cardinality(In(p)') = Cardinality(In(p)) + 1
           /\ Cardinality(In(q)') = Cardinality(In(q)) - 1
           /\ Cardinality(In(q)) # 0
<1>1. Cardinality(In(p) \cup {t}) = Cardinality(In(p)) + 1
  BY PhaseSetsFinite, GotoMoves, FS_AddElement
<1>2. Cardinality(In(q) \ {t}) = Cardinality(In(q)) - 1
  BY PhaseSetsFinite, GotoMoves, FS_RemoveElement
<1>3. Cardinality(In(q)) # 0
  <2>1. In(q) # {}
    BY GotoMoves
  <2>2. QED
    BY <2>1, PhaseSetsFinite
<1>4. QED
  BY <1>1, <1>2, <1>3, GotoMoves

(***************************************************************************)
(* The inductive invariant: the counters count, the parked threads are in  *)
(* the phase that parks them, and a held file has no readers.              *)
(***************************************************************************)
ParkedInPhase ==
    /\ readerCV \subseteq In("readWait")
    /\ writerCV \subseteq In("writeWait")

IInv == /\ TypeOK
        /\ CountersExact
        /\ MutualExclusion
        /\ ParkedInPhase
        /\ NoStrandedReader
        /\ NoStrandedWriter

LEMMA InitInv == Init => IInv
<1> SUFFICES ASSUME Init PROVE IInv
  OBVIOUS
<1>1. \A q : q # "idle" => In(q) = {}
  BY DEF Init, In
<1>2. TypeOK
  BY DEF Init, TypeOK, Phases
<1>3. CountersExact
  BY <1>1, PhaseSetsFinite DEF Init, CountersExact
<1>4. MutualExclusion /\ ParkedInPhase /\ NoStrandedReader /\ NoStrandedWriter
  BY <1>1 DEF Init, MutualExclusion, ParkedInPhase, NoStrandedReader,
              NoStrandedWriter
<1>5. QED
  BY <1>2, <1>3, <1>4 DEF IInv

\* openFile and closeFile move a thread between phases no counter stands for.
LEMMA OpenCloseInv ==
    ASSUME IInv, NEW t \in Threads,
           OpenFile(t, "readEntry") \/ OpenFile(t, "writeEntry") \/ CloseFile(t)
    PROVE  IInv'
<1>1. \A r \in {"reading", "writing", "readWait", "writeWait"} : In(r)' = In(r)
  BY DEF OpenFile, CloseFile, Goto, In, IInv, TypeOK
<1>2. TypeOK'
  BY DEF IInv, TypeOK, OpenFile, CloseFile, Goto, Phases
<1>3. CountersExact'
  BY <1>1 DEF IInv, CountersExact, OpenFile, CloseFile
<1>4. MutualExclusion' /\ ParkedInPhase' /\ NoStrandedReader' /\ NoStrandedWriter'
  BY <1>1 DEF IInv, MutualExclusion, ParkedInPhase, NoStrandedReader,
              NoStrandedWriter, ReadBlocked, WriteBlocked, OpenFile, CloseFile
<1>5. QED
  BY <1>2, <1>3, <1>4 DEF IInv

\* acquireReadLock admits a reader only when nobody writes or waits to.
LEMMA AcquireReadInv ==
    ASSUME IInv, NEW t \in Threads, AcquireReadLock(t)
    PROVE  IInv'
<1>1. CASE ParkReader(t)
  <2>1. /\ \A r \in {"reading", "writing", "writeWait"} : In(r)' = In(r)
        /\ In("readWait")' = In("readWait") \cup {t}
    BY <1>1 DEF AcquireReadLock, ParkReader, Goto, In, IInv, TypeOK
  <2>2. TypeOK'
    BY <1>1 DEF IInv, TypeOK, ParkReader, counters, Goto, Phases
  <2>3. CountersExact'
    BY <1>1, <2>1 DEF IInv, CountersExact, ParkReader, counters
  <2>4. MutualExclusion' /\ ParkedInPhase' /\ NoStrandedReader' /\ NoStrandedWriter'
    BY <1>1, <2>1 DEF IInv, MutualExclusion, ParkedInPhase, NoStrandedReader,
              NoStrandedWriter, ReadBlocked, WriteBlocked, ParkReader, counters
  <2>5. QED
    BY <2>2, <2>3, <2>4 DEF IInv
<1>2. CASE AdmitReader(t)
  <2>1. PICK q \in {"readEntry", "readWait"} : pc[t] = q
    BY DEF AcquireReadLock
  <2>2. /\ In("reading")' = In("reading") \cup {t}
        /\ \A r \in {"writing", "writeWait"} : In(r)' = In(r)
        /\ readerCV \subseteq In("readWait") \ {t}
        /\ In("readWait") \ {t} \subseteq In("readWait")'
    BY <1>2, <2>1 DEF AcquireReadLock, AdmitReader, Goto, In, IInv, TypeOK,
                      ParkedInPhase
  <2>3. Cardinality(In("reading")') = Cardinality(In("reading")) + 1
    BY <1>2, <2>1, GotoCounts DEF AdmitReader, IInv, TypeOK
  <2>4. In("writing") = {}
    BY <1>2 DEF AdmitReader, ReadBlocked, IInv, CountersExact
  <2>5. TypeOK'
    BY <1>2 DEF IInv, TypeOK, AdmitReader, Goto, Phases
  <2>6. CountersExact'
    BY <1>2, <2>2, <2>3 DEF IInv, CountersExact, AdmitReader
  <2>7. MutualExclusion' /\ ParkedInPhase' /\ NoStrandedReader'
    BY <1>2, <2>2, <2>4 DEF IInv, MutualExclusion, ParkedInPhase,
              NoStrandedReader, ReadBlocked, AdmitReader
  <2>8. NoStrandedWriter'
    BY <1>2, <2>2 DEF IInv, TypeOK, NoStrandedWriter, WriteBlocked, AdmitReader
  <2>9. QED
    BY <2>5, <2>6, <2>7, <2>8 DEF IInv
<1>3. QED
  BY <1>1, <1>2 DEF AcquireReadLock

\* The last reader to leave wakes a writer if any sleeps.
LEMMA ReleaseReadInv ==
    ASSUME IInv, NEW t \in Threads, ReleaseReadLock(t)
    PROVE  IInv'
<1>1. /\ In("reading")' = In("reading") \ {t}
      /\ \A r \in {"writing", "readWait", "writeWait"} : In(r)' = In(r)
  BY DEF ReleaseReadLock, Goto, In, IInv, TypeOK
<1>2. /\ Cardinality(In("reading")') = Cardinality(In("reading")) - 1
      /\ Cardinality(In("reading")) \in Nat \ {0}
  BY GotoCounts, PhaseSetsFinite DEF ReleaseReadLock, IInv, TypeOK
<1>3. writerCV' \subseteq writerCV
  BY DEF ReleaseReadLock, NotifyOneWriter
<1>4. TypeOK'
  BY <1>2, <1>3 DEF IInv, TypeOK, CountersExact, ReleaseReadLock, Goto, Phases
<1>5. CountersExact'
  BY <1>1, <1>2 DEF IInv, CountersExact, ReleaseReadLock
<1>6. MutualExclusion' /\ ParkedInPhase' /\ NoStrandedReader'
  BY <1>1, <1>3 DEF IInv, MutualExclusion, ParkedInPhase, NoStrandedReader,
                    ReadBlocked, ReleaseReadLock
<1>7. NoStrandedWriter'
  <2>1. CASE readerCount - 1 = 0
    BY <2>1, <1>1 DEF IInv, ParkedInPhase, NoStrandedWriter, ReleaseReadLock,
                      NotifyOneWriter
  <2>2. CASE readerCount - 1 # 0
    BY <2>2, <1>2 DEF IInv, CountersExact, NoStrandedWriter, WriteBlocked,
                      ReleaseReadLock
  <2>3. QED
    BY <2>1, <2>2
<1>8. QED
  BY <1>4, <1>5, <1>6, <1>7 DEF IInv

\* A writer enters only an empty file; otherwise it is counted and parked.
LEMMA EnterWriteInv ==
    ASSUME IInv, NEW t \in Threads, EnterWriteLock(t)
    PROVE  IInv'
<1>1. CASE WriteBlocked
  <2>1. /\ In("writeWait")' = In("writeWait") \cup {t}
        /\ \A r \in {"reading", "writing", "readWait"} : In(r)' = In(r)
    BY <1>1 DEF EnterWriteLock, Goto, In, IInv, TypeOK
  <2>2. Cardinality(In("writeWait")') = Cardinality(In("writeWait")) + 1
    BY <1>1, GotoCounts DEF EnterWriteLock, IInv, TypeOK
  <2>3. TypeOK'
    BY <1>1 DEF IInv, TypeOK, EnterWriteLock, Goto, Phases
  <2>4. CountersExact'
    BY <1>1, <2>1, <2>2 DEF IInv, CountersExact, EnterWriteLock
  <2>5. MutualExclusion' /\ ParkedInPhase'
    BY <1>1, <2>1 DEF IInv, MutualExclusion, ParkedInPhase, EnterWriteLock
  <2>6. NoStrandedReader' /\ NoStrandedWriter'
    BY <1>1, <2>1 DEF IInv, TypeOK, NoStrandedReader, NoStrandedWriter,
                      ReadBlocked, WriteBlocked, EnterWriteLock
  <2>7. QED
    BY <2>3, <2>4, <2>5, <2>6 DEF IInv
<1>2. CASE ~WriteBlocked
  <2>1. /\ In("writing")' = In("writing") \cup {t}
        /\ \A r \in {"reading", "writeWait", "readWait"} : In(r)' = In(r)
    BY <1>2 DEF EnterWriteLock, Goto, In, IInv, TypeOK
  <2>2. In("reading") = {} /\ In("writing") = {}
    BY <1>2, PhaseSetsFinite DEF WriteBlocked, IInv, TypeOK, CountersExact
  <2>3. TypeOK'
    BY <1>2 DEF IInv, TypeOK, EnterWriteLock, Goto, Phases
  <2>4. CountersExact'
    BY <1>2, <2>1 DEF IInv, CountersExact, EnterWriteLock
  <2>5. MutualExclusion' /\ ParkedInPhase' /\ NoStrandedReader' /\ NoStrandedWriter'
    BY <1>2, <2>1, <2>2 DEF IInv, MutualExclusion, ParkedInPhase,
              NoStrandedReader, NoStrandedWriter, ReadBlocked, WriteBlocked,
              EnterWriteLock
  <2>6. QED
    BY <2>3, <2>4, <2>5 DEF IInv
<1>3. QED
  BY <1>1, <1>2

\* A woken writer that finds the file free moves from the counted to the
\* holding writers; otherwise it parks again.
LEMMA RecheckWriteInv ==
    ASSUME IInv, NEW t \in Threads, RecheckWriteLock(t)
    PROVE  IInv'
<1>1. CASE WriteBlocked
  <2>1. \A r : In(r)' = In(r)
    BY <1>1 DEF RecheckWriteLock, In
  <2>2. TypeOK' /\ CountersExact'
    BY <1>1, <2>1 DEF IInv, TypeOK, CountersExact, RecheckWriteLock
  <2>3. t \in In("writeWait")
    BY DEF RecheckWriteLock, In
  <2>4. MutualExclusion' /\ ParkedInPhase' /\ NoStrandedReader' /\ NoStrandedWriter'
    BY <1>1, <2>1, <2>3 DEF IInv, MutualExclusion, ParkedInPhase,
              NoStrandedReader, NoStrandedWriter, ReadBlocked, WriteBlocked,
              RecheckWriteLock
  <2>5. QED
    BY <2>2, <2>4 DEF IInv
<1>2. CASE ~WriteBlocked
  <2>1. /\ In("writing")' = In("writing") \cup {t}
        /\ In("writeWait")' = In("writeWait") \ {t}
        /\ \A r \in {"reading", "readWait"} : In(r)' = In(r)
    BY <1>2 DEF RecheckWriteLock, Goto, In, IInv, TypeOK
  <2>2. In("reading") = {} /\ In("writing") = {}
    BY <1>2, PhaseSetsFinite DEF WriteBlocked, IInv, TypeOK, CountersExact
  <2>3. /\ Cardinality(In("writeWait")') = Cardinality(In("writeWait")) - 1
        /\ Cardinality(In("writeWait")) \in Nat \ {0}
    BY <1>2, GotoCounts, PhaseSetsFinite DEF RecheckWriteLock, IInv, TypeOK
  <2>4. TypeOK'
    <3>1. writersWaiting' \in Nat
      BY <1>2, <2>3 DEF IInv, CountersExact, RecheckWriteLock
    <3>2. QED
      BY <1>2, <3>1 DEF IInv, TypeOK, RecheckWriteLock, Goto, Phases
  <2>5. CountersExact'
    BY <1>2, <2>1, <2>3 DEF IInv, CountersExact, RecheckWriteLock
  <2>6. MutualExclusion' /\ ParkedInPhase' /\ NoStrandedReader' /\ NoStrandedWriter'
    BY <1>2, <2>1, <2>2 DEF IInv, MutualExclusion, ParkedInPhase,
              NoStrandedReader, NoStrandedWriter, ReadBlocked, WriteBlocked,
              RecheckWriteLock
  <2>7. QED
    BY <2>4, <2>5, <2>6 DEF IInv
<1>3. QED
  BY <1>1, <1>2

\* The leaving writer wakes one writer if any is counted, else every reader.
LEMMA ReleaseWriteInv ==
    ASSUME IInv, NEW t \in Threads, ReleaseWriteLock(t)
    PROVE  IInv'
<1>1. /\ In("writing")' = In("writing") \ {t}
      /\ In("writing") = {t}
      /\ \A r \in {"reading", "readWait", "writeWait"} : In(r)' = In(r)
  BY DEF ReleaseWriteLock, Goto, In, IInv, TypeOK, MutualExclusion
<1>2. writerCV' \subseteq writerCV /\ readerCV' \subseteq readerCV
  BY DEF ReleaseWriteLock, NotifyOneWriter
<1>3. TypeOK'
  BY <1>2 DEF IInv, TypeOK, ReleaseWriteLock, Goto, Phases
<1>4. CountersExact'
  BY <1>1 DEF IInv, CountersExact, ReleaseWriteLock
<1>5. MutualExclusion' /\ ParkedInPhase'
  BY <1>1, <1>2 DEF IInv, MutualExclusion, ParkedInPhase
<1>6. NoStrandedReader'
  BY DEF IInv, NoStrandedReader, ReadBlocked, ReleaseWriteLock
<1>7. NoStrandedWriter'
  <2>1. CASE writersWaiting > 0
    BY <2>1, <1>1 DEF IInv, ParkedInPhase, NoStrandedWriter, ReleaseWriteLock,
                      NotifyOneWriter
  <2>2. CASE ~(writersWaiting > 0)
    <3>1. writersWaiting = 0
      BY <2>2 DEF IInv, TypeOK
    <3>2. In("writeWait") = {}
      BY <3>1, PhaseSetsFinite DEF IInv, CountersExact
    <3>3. QED
      BY <3>2, <1>2 DEF IInv, ParkedInPhase, NoStrandedWriter
  <2>3. QED
    BY <2>1, <2>2
<1>8. QED
  BY <1>3, <1>4, <1>5, <1>6, <1>7 DEF IInv

\* A spurious wake-up only makes a thread test its condition again.
LEMMA SpuriousInv ==
    ASSUME IInv, NEW t \in Threads, SpuriousWakeup(t)
    PROVE  IInv'
<1>1. \A r : In(r)' = In(r)
  BY DEF SpuriousWakeup, In
<1>2. writerCV' \subseteq writerCV /\ readerCV' \subseteq readerCV
  BY DEF SpuriousWakeup
<1>3. TypeOK' /\ CountersExact' /\ MutualExclusion' /\ ParkedInPhase'
  BY <1>1, <1>2 DEF IInv, TypeOK, CountersExact, MutualExclusion,
                    ParkedInPhase, SpuriousWakeup, counters
<1>4. NoStrandedReader' /\ NoStrandedWriter'
  BY <1>1, <1>2 DEF IInv, NoStrandedReader, NoStrandedWriter, ReadBlocked,
                    WriteBlocked, ParkedInPhase, SpuriousWakeup, counters
<1>5. QED
  BY <1>3, <1>4 DEF IInv

LEMMA StepInv == IInv /\ [Next]_vars => IInv'
<1> SUFFICES ASSUME IInv, [Next]_vars PROVE IInv'
  OBVIOUS
<1>1. CASE UNCHANGED vars
  BY <1>1 DEF vars, IInv, TypeOK, CountersExact, MutualExclusion, ParkedInPhase,
              NoStrandedReader, NoStrandedWriter, ReadBlocked, WriteBlocked, In
<1>2. CASE Next
  BY <1>2, OpenCloseInv, AcquireReadInv, ReleaseReadInv, EnterWriteInv,
     RecheckWriteInv, ReleaseWriteInv, SpuriousInv
     DEF Next, Step, ReadStep, WriteStep
<1>3. QED
  BY <1>1, <1>2

\* The invariant holds in every reachable state of every lock.
THEOREM LockInvariant == Spec => []IInv
BY InitInv, StepInv, PTL DEF Spec

\* The fields of the lock keep their types: in particular no counter of
\* FileEntry is ever decremented below zero.
THEOREM TypeCorrect == Spec => []TypeOK
BY LockInvariant, PTL DEF IInv

\* acquireWriteLock and acquireReadLock keep a writer alone on its file,
\* whatever the number of handler threads.
THEOREM WritersExclude == Spec => []MutualExclusion
BY LockInvariant, PTL DEF IInv

\* The counters of the lock always equal the numbers of threads they count.
THEOREM CountsAreExact == Spec => []CountersExact
BY LockInvariant, PTL DEF IInv

\* No reader's wake-up is lost: while one sleeps on readerCV a writer is active
\* or queued, so some releaseWriteLock is still to come and wakes it.
THEOREM ReadersAreWoken == Spec => []NoStrandedReader
BY LockInvariant, PTL DEF IInv

\* No writer's wake-up is lost: while one sleeps on writerCV the file is in use,
\* or a writer already woken is on its way to take it.
THEOREM WritersAreWoken == Spec => []NoStrandedWriter
BY LockInvariant, PTL DEF IInv

(***************************************************************************)
(* openCount is exact too, given that threads leave "idle" only by         *)
(* openFile and come back only by closeFile.                               *)
(***************************************************************************)
LEMMA OpenCountStep ==
    ASSUME IInv, OpenCountExact, [Next]_vars
    PROVE  OpenCountExact'
<1> DEFINE Open == Threads \ In("idle")
<1>1. IsFiniteSet(Open) /\ Cardinality(Open) \in Nat
  BY ThreadsAssumption, FS_Subset, FS_CardinalityType
<1>2. ASSUME NEW t \in Threads, NEW phase \in {"readEntry", "writeEntry"},
             OpenFile(t, phase)
      PROVE  OpenCountExact'
  <2>1. Open' = Open \cup {t} /\ t \notin Open
    BY <1>2 DEF OpenFile, Goto, In, IInv, TypeOK
  <2>2. Cardinality(Open') = Cardinality(Open) + 1
    BY <1>1, <2>1, FS_AddElement
  <2>3. QED
    BY <1>2, <2>2 DEF OpenCountExact, OpenFile
<1>3. ASSUME NEW t \in Threads, CloseFile(t)
      PROVE  OpenCountExact'
  <2>1. Open' = Open \ {t} /\ t \in Open
    BY <1>3 DEF CloseFile, Goto, In, IInv, TypeOK
  <2>2. Cardinality(Open') = Cardinality(Open) - 1 /\ Cardinality(Open) # 0
    BY <1>1, <2>1, FS_RemoveElement, FS_EmptySet
  <2>3. openCount > 0
    BY <1>1, <2>2 DEF OpenCountExact
  <2>4. QED
    BY <1>3, <2>2, <2>3 DEF OpenCountExact, CloseFile
<1>4. ASSUME NEW t \in Threads, AcquireReadLock(t) \/ ReleaseReadLock(t) \/
             EnterWriteLock(t) \/ RecheckWriteLock(t) \/ ReleaseWriteLock(t) \/
             SpuriousWakeup(t)
      PROVE  OpenCountExact'
  <2>1. Open' = Open
    BY <1>4 DEF AcquireReadLock, ParkReader, AdmitReader, ReleaseReadLock,
                EnterWriteLock, RecheckWriteLock, ReleaseWriteLock,
                SpuriousWakeup, Goto, In, IInv, TypeOK
  <2>2. openCount' = openCount
    BY <1>4 DEF AcquireReadLock, ParkReader, AdmitReader, ReleaseReadLock,
                EnterWriteLock, RecheckWriteLock, ReleaseWriteLock,
                SpuriousWakeup, counters
  <2>3. QED
    BY <2>1, <2>2 DEF OpenCountExact
<1>5. CASE UNCHANGED vars
  BY <1>5 DEF vars, OpenCountExact, In
<1>6. QED
  BY <1>2, <1>3, <1>4, <1>5 DEF Next, Step, ReadStep, WriteStep

\* openFile and closeFile balance: openCount is the number of threads using
\* the entry, so the warning branch of closeFile cannot be reached.
THEOREM OpenCountIsExact == Spec => []OpenCountExact
<1>1. Init => OpenCountExact
  <2>1. Init => Threads \ In("idle") = {}
    BY DEF Init, In
  <2>2. QED
    BY <2>1, FS_EmptySet DEF Init, OpenCountExact
<1>2. QED
  BY <1>1, LockInvariant, OpenCountStep, PTL DEF Spec

(***************************************************************************)
(* Refinement: every step of the counters and condition variables is a     *)
(* step of the abstract lock or leaves it alone.                           *)
(***************************************************************************)
LEMMA RefinesInit == Init => Abs!AbsInit
BY DEF Init, Abs!AbsInit, In

LEMMA RefinesStep == IInv /\ [Next]_vars => [Abs!AbsNext]_Abs!absVars
<1> SUFFICES ASSUME IInv, [Next]_vars
             PROVE  [Abs!AbsNext]_Abs!absVars
  OBVIOUS
<1>1. ASSUME NEW t \in Threads,
             OpenFile(t, "readEntry") \/ OpenFile(t, "writeEntry") \/
             CloseFile(t) \/ SpuriousWakeup(t)
      PROVE  UNCHANGED Abs!absVars
  BY <1>1 DEF OpenFile, CloseFile, SpuriousWakeup, Goto, In, IInv, TypeOK,
              Abs!absVars
<1>2. ASSUME NEW t \in Threads, AcquireReadLock(t)
      PROVE  UNCHANGED Abs!absVars \/ Abs!StartRead(t)
  <2>1. CASE ParkReader(t)
    BY <1>2, <2>1 DEF AcquireReadLock, ParkReader, Goto, In, IInv, TypeOK,
                      Abs!absVars
  <2>2. CASE AdmitReader(t)
    <3>1. In("writing") = {} /\ In("writeWait") = {}
      BY <2>2, PhaseSetsFinite DEF AdmitReader, ReadBlocked, IInv, CountersExact
    <3>2. /\ t \notin In("reading")
          /\ In("reading")' = In("reading") \cup {t}
          /\ In("writing")' = In("writing")
          /\ In("writeWait")' = In("writeWait")
      BY <1>2, <2>2 DEF AcquireReadLock, AdmitReader, Goto, In, IInv, TypeOK
    <3>3. QED
      BY <3>1, <3>2 DEF Abs!StartRead
  <2>3. QED
    BY <1>2, <2>1, <2>2 DEF AcquireReadLock
<1>3. ASSUME NEW t \in Threads, ReleaseReadLock(t)
      PROVE  Abs!FinishRead(t)
  BY <1>3 DEF ReleaseReadLock, Goto, In, IInv, TypeOK, Abs!FinishRead
<1>4. ASSUME NEW t \in Threads, EnterWriteLock(t)
      PROVE  Abs!Queue(t) \/ Abs!StartWrite(t)
  <2>1. CASE WriteBlocked
    <3>1. In("reading") \cup In("writing") # {}
      BY <2>1, PhaseSetsFinite DEF WriteBlocked, IInv, CountersExact
    <3>2. /\ t \notin In("reading") \cup In("writing") \cup In("writeWait")
          /\ In("writeWait")' = In("writeWait") \cup {t}
          /\ In("reading")' = In("reading")
          /\ In("writing")' = In("writing")
      BY <1>4, <2>1 DEF EnterWriteLock, Goto, In, IInv, TypeOK
    <3>3. QED
      BY <3>1, <3>2 DEF Abs!Queue
  <2>2. CASE ~WriteBlocked
    <3>1. In("reading") = {} /\ In("writing") = {}
      BY <2>2, PhaseSetsFinite DEF WriteBlocked, IInv, TypeOK, CountersExact
    <3>2. /\ t \notin In("writeWait")
          /\ In("writing")' = In("writing") \cup {t}
          /\ In("writeWait")' = In("writeWait")
          /\ In("reading")' = In("reading")
      BY <1>4, <2>2 DEF EnterWriteLock, Goto, In, IInv, TypeOK
    <3>3. QED
      BY <3>1, <3>2 DEF Abs!StartWrite
  <2>3. QED
    BY <2>1, <2>2
<1>5. ASSUME NEW t \in Threads, RecheckWriteLock(t)
      PROVE  UNCHANGED Abs!absVars \/ Abs!StartWrite(t)
  <2>1. CASE WriteBlocked
    BY <1>5, <2>1 DEF RecheckWriteLock, In, Abs!absVars
  <2>2. CASE ~WriteBlocked
    <3>1. In("reading") = {} /\ In("writing") = {}
      BY <2>2, PhaseSetsFinite DEF WriteBlocked, IInv, TypeOK, CountersExact
    <3>2. /\ In("writing")' = In("writing") \cup {t}
          /\ In("writeWait")' = In("writeWait") \ {t}
          /\ In("reading")' = In("reading")
      BY <1>5, <2>2 DEF RecheckWriteLock, Goto, In, IInv, TypeOK
    <3>3. QED
      BY <3>1, <3>2 DEF Abs!StartWrite
  <2>3. QED
    BY <2>1, <2>2
<1>6. ASSUME NEW t \in Threads, ReleaseWriteLock(t)
      PROVE  Abs!FinishWrite(t)
  BY <1>6 DEF ReleaseWriteLock, Goto, In, IInv, TypeOK, Abs!FinishWrite
<1>7. CASE UNCHANGED vars
  BY <1>7 DEF vars, In, Abs!absVars
<1>8. QED
  BY <1>1, <1>2, <1>3, <1>4, <1>5, <1>6, <1>7
     DEF Next, Step, ReadStep, WriteStep, Abs!AbsNext

\* The counters and condition variables implement the abstract lock, for any
\* finite set of threads: readers share, writers are alone, and no reader is
\* admitted past a queued writer.
THEOREM Refinement == Spec => ImplementsRWLock
BY RefinesInit, RefinesStep, LockInvariant, PTL
   DEF Spec, ImplementsRWLock, Abs!AbsSpec
=============================================================================
