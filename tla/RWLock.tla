------------------------------- MODULE RWLock -------------------------------
(***************************************************************************)
(* What the per-file lock of the file system promises, said without        *)
(* counters or condition variables: who holds the file, and which writers  *)
(* queue for it.  Readers share, a writer is alone, and a queued writer    *)
(* keeps new readers out.  FileLock implements this module.                *)
(***************************************************************************)
EXTENDS FiniteSets

CONSTANT Threads

VARIABLES readers,  \* threads between acquireReadLock and releaseReadLock
          writers,  \* threads between acquireWriteLock and releaseWriteLock
          queued    \* threads inside acquireWriteLock that had to wait

absVars == <<readers, writers, queued>>

AbsInit == readers = {} /\ writers = {} /\ queued = {}

StartRead(t) ==
    /\ t \notin readers \cup writers \cup queued
    /\ writers = {}
    /\ queued = {}
    /\ readers' = readers \cup {t}
    /\ UNCHANGED <<writers, queued>>

FinishRead(t) ==
    /\ t \in readers
    /\ readers' = readers \ {t}
    /\ UNCHANGED <<writers, queued>>

\* A writer queues only behind somebody.
Queue(t) ==
    /\ t \notin readers \cup writers \cup queued
    /\ readers \cup writers # {}
    /\ queued' = queued \cup {t}
    /\ UNCHANGED <<readers, writers>>

\* Writers are admitted in no particular order: the lock may be taken by a
\* newcomer before a queued writer wakes.
StartWrite(t) ==
    /\ t \notin readers \cup writers
    /\ readers = {}
    /\ writers = {}
    /\ writers' = {t}
    /\ queued' = queued \ {t}
    /\ UNCHANGED readers

FinishWrite(t) ==
    /\ t \in writers
    /\ writers' = writers \ {t}
    /\ UNCHANGED <<readers, queued>>

AbsNext ==
    \E t \in Threads :
        \/ StartRead(t) \/ FinishRead(t)
        \/ Queue(t) \/ StartWrite(t) \/ FinishWrite(t)

AbsSpec == AbsInit /\ [][AbsNext]_absVars
=============================================================================
