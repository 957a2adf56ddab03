------------------------------ MODULE FileLock ------------------------------
(***************************************************************************)
(* The readers-writer lock inside every FileEntry (include/structs.h) and  *)
(* the six helpers of src/multithreading.cpp that operate on it, as the    *)
(* handler threads of the server run them: readData, writeData and         *)
(* renameFiles all run open, acquire, work, release, close on one entry.   *)
(*                                                                         *)
(* Every helper holds lockMutex from its first to its last statement       *)
(* except inside wait(), so a helper is one step, or two when it waits: up *)
(* to parking on the condition variable, and again from the wake-up, where *)
(* the loop tests its condition anew.                                      *)
(***************************************************************************)
EXTENDS Integers, FiniteSets

CONSTANT Threads  \* the handler threads (one per connected terminal)

ASSUME ThreadsAssumption == IsFiniteSet(Threads)

VARIABLES
    pc,              \* where each thread is in its read or write
    readerCount,
    isWriteLocked,
    writersWaiting,
    openCount,
    readerCV,        \* threads parked on readerCV, not yet notified
    writerCV         \* threads parked on writerCV, not yet notified

counters == <<readerCount, isWriteLocked, writersWaiting, openCount>>
vars == <<pc, readerCount, isWriteLocked, writersWaiting, openCount,
          readerCV, writerCV>>

Phases == {"idle", "readEntry", "readWait", "reading",
           "writeEntry", "writeWait", "writing", "closing"}

In(phase) == {t \in Threads : pc[t] = phase}

Goto(t, phase) == pc' = [pc EXCEPT ![t] = phase]

Init ==
    /\ pc = [t \in Threads |-> "idle"]
    /\ readerCount = 0
    /\ isWriteLocked = FALSE
    /\ writersWaiting = 0
    /\ openCount = 0
    /\ readerCV = {}
    /\ writerCV = {}

(***************************************************************************)
(* openFile and closeFile.  closeFile does not decrement a zero count.     *)
(***************************************************************************)
OpenFile(t, phase) ==
    /\ pc[t] = "idle"
    /\ Goto(t, phase)
    /\ openCount' = openCount + 1
    /\ UNCHANGED <<readerCount, isWriteLocked, writersWaiting, readerCV, writerCV>>

CloseFile(t) ==
    /\ pc[t] = "closing"
    /\ Goto(t, "idle")
    /\ openCount' = IF openCount > 0 THEN openCount - 1 ELSE openCount
    /\ UNCHANGED <<readerCount, isWriteLocked, writersWaiting, readerCV, writerCV>>

(***************************************************************************)
(* acquireReadLock: the test of the loop, on entry and after each wake-up. *)
(***************************************************************************)
\* Variant: the reader does not look at writersWaiting.
ReadBlocked_NoPreference == isWriteLocked

ReadBlocked == isWriteLocked \/ writersWaiting > 0

ParkReader(t) ==
    /\ ReadBlocked
    /\ Goto(t, "readWait")
    /\ readerCV' = readerCV \cup {t}
    /\ UNCHANGED <<counters, writerCV>>

AdmitReader(t) ==
    /\ ~ReadBlocked
    /\ Goto(t, "reading")
    /\ readerCount' = readerCount + 1
    /\ UNCHANGED <<isWriteLocked, writersWaiting, openCount, readerCV, writerCV>>

AcquireReadLock(t) ==
    /\ pc[t] \in {"readEntry", "readWait"}
    /\ t \notin readerCV
    /\ ParkReader(t) \/ AdmitReader(t)

(***************************************************************************)
(* notify_one wakes one parked thread, any of them, or nobody.             *)
(***************************************************************************)
NotifyOneWriter ==
    \/ writerCV = {} /\ UNCHANGED writerCV
    \/ \E w \in writerCV : writerCV' = writerCV \ {w}

\* Variant: the last reader leaves without a notification.
ReleaseReadLock_Silent(t) ==
    /\ pc[t] = "reading"
    /\ Goto(t, "closing")
    /\ readerCount' = readerCount - 1
    /\ UNCHANGED <<isWriteLocked, writersWaiting, openCount, readerCV, writerCV>>

ReleaseReadLock(t) ==
    /\ pc[t] = "reading"
    /\ Goto(t, "closing")
    /\ readerCount' = readerCount - 1
    /\ IF readerCount - 1 = 0 THEN NotifyOneWriter ELSE UNCHANGED writerCV
    /\ UNCHANGED <<isWriteLocked, writersWaiting, openCount, readerCV>>

(***************************************************************************)
(* acquireWriteLock: writersWaiting counts the writer from its entry until *)
(* it is admitted, so only a writer that parks is ever seen counted.       *)
(***************************************************************************)
\* Variant: the writer does not look at the readers.
WriteBlocked_IgnoresReaders == isWriteLocked

WriteBlocked == readerCount > 0 \/ isWriteLocked

\* Variant: a writer that parks is not counted.
EnterWriteLock_Uncounted(t) ==
    /\ pc[t] = "writeEntry"
    /\ \/ /\ WriteBlocked
          /\ Goto(t, "writeWait")
          /\ writerCV' = writerCV \cup {t}
          /\ UNCHANGED isWriteLocked
       \/ /\ ~WriteBlocked
          /\ Goto(t, "writing")
          /\ isWriteLocked' = TRUE
          /\ UNCHANGED writerCV
    /\ UNCHANGED <<readerCount, writersWaiting, openCount, readerCV>>

EnterWriteLock(t) ==
    /\ pc[t] = "writeEntry"
    /\ \/ /\ WriteBlocked
          /\ Goto(t, "writeWait")
          /\ writersWaiting' = writersWaiting + 1
          /\ writerCV' = writerCV \cup {t}
          /\ UNCHANGED isWriteLocked
       \/ /\ ~WriteBlocked
          /\ Goto(t, "writing")
          /\ isWriteLocked' = TRUE
          /\ UNCHANGED <<writersWaiting, writerCV>>
    /\ UNCHANGED <<readerCount, openCount, readerCV>>

\* Variant: the admitted writer stays counted as waiting.
RecheckWriteLock_StaysCounted(t) ==
    /\ pc[t] = "writeWait"
    /\ t \notin writerCV
    /\ \/ /\ WriteBlocked
          /\ writerCV' = writerCV \cup {t}
          /\ UNCHANGED <<pc, isWriteLocked>>
       \/ /\ ~WriteBlocked
          /\ Goto(t, "writing")
          /\ isWriteLocked' = TRUE
          /\ UNCHANGED writerCV
    /\ UNCHANGED <<readerCount, writersWaiting, openCount, readerCV>>

RecheckWriteLock(t) ==
    /\ pc[t] = "writeWait"
    /\ t \notin writerCV
    /\ \/ /\ WriteBlocked
          /\ writerCV' = writerCV \cup {t}
          /\ UNCHANGED <<pc, isWriteLocked, writersWaiting>>
       \/ /\ ~WriteBlocked
          /\ Goto(t, "writing")
          /\ writersWaiting' = writersWaiting - 1
          /\ isWriteLocked' = TRUE
          /\ UNCHANGED writerCV
    /\ UNCHANGED <<readerCount, openCount, readerCV>>

\* Variant: notify_one where the code has notify_all.
ReleaseWriteLock_OneReader(t) ==
    /\ pc[t] = "writing"
    /\ Goto(t, "closing")
    /\ isWriteLocked' = FALSE
    /\ IF writersWaiting > 0
       THEN NotifyOneWriter /\ UNCHANGED readerCV
       ELSE /\ UNCHANGED writerCV
            /\ \/ readerCV = {} /\ UNCHANGED readerCV
               \/ \E r \in readerCV : readerCV' = readerCV \ {r}
    /\ UNCHANGED <<readerCount, writersWaiting, openCount>>

\* Variant: the readers are notified even when writers wait.
ReleaseWriteLock_ReadersFirst(t) ==
    /\ pc[t] = "writing"
    /\ Goto(t, "closing")
    /\ isWriteLocked' = FALSE
    /\ readerCV' = {}
    /\ UNCHANGED <<readerCount, writersWaiting, openCount, writerCV>>

ReleaseWriteLock(t) ==
    /\ pc[t] = "writing"
    /\ Goto(t, "closing")
    /\ isWriteLocked' = FALSE
    /\ IF writersWaiting > 0
       THEN NotifyOneWriter /\ UNCHANGED readerCV
       ELSE readerCV' = {} /\ UNCHANGED writerCV
    /\ UNCHANGED <<readerCount, writersWaiting, openCount>>

\* A condition variable may wake a thread that nobody notified.
SpuriousWakeup(t) ==
    \/ /\ t \in readerCV
       /\ readerCV' = readerCV \ {t}
       /\ UNCHANGED <<pc, counters, writerCV>>
    \/ /\ t \in writerCV
       /\ writerCV' = writerCV \ {t}
       /\ UNCHANGED <<pc, counters, readerCV>>

ReadStep(t) == AcquireReadLock(t) \/ ReleaseReadLock(t)
WriteStep(t) == EnterWriteLock(t) \/ RecheckWriteLock(t) \/ ReleaseWriteLock(t)
Step(t) == ReadStep(t) \/ WriteStep(t) \/ CloseFile(t)

Next ==
    \E t \in Threads :
        \/ OpenFile(t, "readEntry")
        \/ OpenFile(t, "writeEntry")
        \/ Step(t)
        \/ SpuriousWakeup(t)

Spec == Init /\ [][Next]_vars

\* A thread that can go on does; no terminal has to issue a command.
FairSpec == Spec /\ \A t \in Threads : WF_vars(Step(t))

-----------------------------------------------------------------------------
TypeOK ==
    /\ pc \in [Threads -> Phases]
    /\ readerCount \in Nat
    /\ isWriteLocked \in BOOLEAN
    /\ writersWaiting \in Nat
    /\ openCount \in Nat
    /\ readerCV \in SUBSET Threads
    /\ writerCV \in SUBSET Threads

\* While one thread works on the file as its writer, no other thread reads or
\* writes it.  Said of the threads, not of the counters that guard them.
MutualExclusion ==
    \A w \in In("writing") :
        In("reading") = {} /\ In("writing") = {w}

\* The counters are the numbers of threads they stand for, so readerCount
\* never goes below zero and no lock is left held when its threads are gone.
CountersExact ==
    /\ readerCount = Cardinality(In("reading"))
    /\ writersWaiting = Cardinality(In("writeWait"))
    /\ isWriteLocked <=> In("writing") # {}

\* openCount counts the threads between openFile and closeFile, so the
\* "is not open" branch of closeFile is never taken.
OpenCountExact == openCount = Cardinality(Threads \ In("idle"))

\* No reader sleeps on a file that nobody writes and nobody waits to write:
\* such a reader would have lost its wake-up.
NoStrandedReader == readerCV # {} => ReadBlocked

\* When writers sleep, somebody holds the file or a woken writer is on its way
\* to test again: every path that frees the file wakes one of them.
NoStrandedWriter == writerCV # {} => WriteBlocked \/ In("writeWait") \ writerCV # {}

\* A waiting writer is not passed by readers for ever: some writer gets the
\* file.
WritersProgress ==
    (In("writeWait") # {}) ~> (In("writing") # {})

\* One writer can be passed by other writers, and by nobody else.
WriterStarvedOnlyByWriters ==
    \A t \in Threads :
        (<>[](In("writing") \subseteq {t})) =>
            (pc[t] \in {"writeEntry", "writeWait"} ~> pc[t] = "writing")

\* A reader waits for ever only if writers keep coming.
ReaderStarvedOnlyByWriters ==
    \A t \in Threads :
        (<>[](In("writing") \cup In("writeWait") = {})) =>
            (pc[t] \in {"readEntry", "readWait"} ~> pc[t] = "reading")

-----------------------------------------------------------------------------
\* The lock implements the abstract readers-writer lock.
Abs == INSTANCE RWLock WITH readers <- In("reading"),
                            writers <- In("writing"),
                            queued <- In("writeWait")
ImplementsRWLock == Abs!AbsSpec
=============================================================================
