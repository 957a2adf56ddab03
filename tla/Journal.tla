------------------------------ MODULE Journal ------------------------------
(***************************************************************************)
(* The journal (journaling.cpp) and the handlers that use it               *)
(* (multithreading.cpp): every command that changes a file is stamped,     *)
(* logged, executed and then marked committed.  A boot, and every login    *)
(* of a terminal, replays the entries that are not marked.                 *)
(*                                                                         *)
(* All terminals are logged in as root, the user every session starts      *)
(* with, in directory 0.  What a file holds is the list of the log         *)
(* positions whose effect is in it, its creation first; << >> is a file    *)
(* that does not exist.  Guards on disk space, table size and permission   *)
(* are taken to pass (BlockStore has the first), one execution of a        *)
(* handler's disk work is one step, and rename and rmdir, which follow the *)
(* same protocol, are left out.                                            *)
(***************************************************************************)
EXTENDS Integers, Sequences

CONSTANTS
  Terminals,      \* handler threads of connected terminals
  Main,           \* the thread that boots the server and replays for root
  Nobody,         \* no thread
  Files,          \* names
  Ops,            \* operations terminals issue, a subset of Operations
  Barred,         \* a subset of BOOLEAN: may a text contain the delimiter?
  MaxOps,         \* bound: no operation is begun on a log of this length
  MaxCrashes,     \* bound on kills of a running server
  MaxRecoveries   \* bound on logins and boots

Operations == {"create", "write", "append", "delete"}
Threads    == Terminals \union {Main}

\* A delete frees the entry that other handlers may be waiting to lock; what
\* they do to freed memory is not modelled, so deletes come from one terminal.
ASSUME JournalAssumption ==
  /\ Main \notin Terminals /\ Nobody \notin Threads
  /\ Ops \subseteq Operations
  /\ "delete" \in Ops => \A s, t \in Terminals : s = t
  /\ Barred \subseteq BOOLEAN
  /\ MaxOps \in Nat /\ MaxCrashes \in Nat /\ MaxRecoveries \in Nat

VARIABLES
  mode,        \* "up", "booting" or "down"
  clock,       \* the millisecond clock
  journals,    \* the log, in memory and in the file alike
  pc,          \* where each thread is
  job,         \* the operation each thread is at
  todo,        \* log positions each thread still has to replay
  holder,      \* who holds the write lock of each file's entry
  creator,     \* who holds metaIndexMutex
  files,       \* the files of the running server
  saved,       \* the files of the last saveInDisk
  executed,    \* positions executed so far (history)
  contested,   \* positions a recovery has copied while another thread was at
               \* them (history, since the last start of the server)
  crashes, recoveries
vars == <<mode, clock, journals, pc, job, todo, holder, creator, files, saved,
          executed, contested, crashes, recoveries>>

PCs == {"idle", "lock", "stamp", "log", "execute", "commit", "recover"}
Job == [op : Operations, file : Files, bar : BOOLEAN, time : Nat, pos : Nat,
        replay : BOOLEAN]
NoJob == [op |-> "none", file |-> Nobody, bar |-> FALSE, time |-> 0, pos |-> 0,
          replay |-> FALSE]
Entry == [op : Operations, file : Files, bar : BOOLEAN, time : Nat,
          committed : BOOLEAN]

Absent == << >>
Exists(f) == files[f] # Absent
AllIdle == \A t \in Threads : pc[t] = "idle"

Init ==
  /\ mode = "up" /\ clock = 0 /\ journals = << >>
  /\ pc = [t \in Threads |-> "idle"]
  /\ job = [t \in Threads |-> NoJob]
  /\ todo = [t \in Threads |-> {}]
  /\ holder = [f \in Files |-> Nobody] /\ creator = Nobody
  /\ files = [f \in Files |-> Absent] /\ saved = [f \in Files |-> Absent]
  /\ executed = {} /\ contested = {} /\ crashes = 0 /\ recoveries = 0

Goto(t, label) == pc' = [pc EXCEPT ![t] = label]

-----------------------------------------------------------------------------
(* A command of a terminal, and the protocol every operation follows.      *)

\* createFiles takes metaIndexMutex for good and refuses a file that exists;
\* the new entry's own lock is free, since nobody can find the entry yet.
EnterCreate(t, f) ==
  /\ creator = Nobody /\ ~Exists(f)
  /\ creator' = t
  /\ holder' = [holder EXCEPT ![f] = t]

\* writeData and deleteDataFile look the entry up and wait for its lock.
EnterExisting(f) == Exists(f) /\ UNCHANGED <<creator, holder>>

Begin(t, op, f, bar) ==
  /\ mode = "up" /\ pc[t] = "idle" /\ Len(journals) < MaxOps
  /\ bar => op \in {"write", "append"}
  /\ job' = [job EXCEPT ![t] = [op |-> op, file |-> f, bar |-> bar,
                                time |-> 0, pos |-> 0, replay |-> FALSE]]
  /\ \/ op = "create" /\ EnterCreate(t, f) /\ Goto(t, "stamp")
     \/ op # "create" /\ EnterExisting(f) /\ Goto(t, "lock")
  /\ UNCHANGED <<mode, clock, journals, todo, files, saved, executed, crashes,
                 recoveries, contested>>

\* Mutant: the handler does not wait for the write lock.
Lock_Unlocked(t) ==
  LET f == job[t].file IN
  /\ pc[t] = "lock"
  /\ holder' = [holder EXCEPT ![f] = t]
  /\ Goto(t, IF job[t].replay THEN "execute" ELSE "stamp")
  /\ UNCHANGED <<mode, clock, journals, job, todo, creator, files, saved, executed,
                 crashes, recoveries, contested>>

\* acquireWriteLock; a replayed entry is already stamped and logged.
Lock(t) ==
  LET f == job[t].file IN
  /\ pc[t] = "lock" /\ holder[f] = Nobody
  /\ holder' = [holder EXCEPT ![f] = t]
  /\ Goto(t, IF job[t].replay THEN "execute" ELSE "stamp")
  /\ UNCHANGED <<mode, clock, journals, job, todo, creator, files, saved, executed,
                 crashes, recoveries, contested>>

\* logOperation reads the clock before it takes journalMutex; the milliseconds
\* may be those of another stamp.
Stamp(t) ==
  /\ pc[t] = "stamp"
  /\ clock' \in {clock, clock + 1}
  /\ job' = [job EXCEPT ![t].time = clock']
  /\ Goto(t, "log")
  /\ UNCHANGED <<mode, journals, todo, holder, creator, files, saved, executed,
                 crashes, recoveries, contested>>

Log(t) ==
  /\ pc[t] = "log"
  /\ journals' = Append(journals, [op |-> job[t].op, file |-> job[t].file,
                                   bar |-> job[t].bar, time |-> job[t].time,
                                   committed |-> FALSE])
  /\ job' = [job EXCEPT ![t].pos = Len(journals) + 1]
  /\ Goto(t, "execute")
  /\ UNCHANGED <<mode, clock, todo, holder, creator, files, saved, executed, crashes,
                 recoveries, contested>>

\* What an operation at log position pos makes of a file.  An append adds to
\* the contents, an overwrite replaces them; neither touches a missing file.
Effect(op, pos, contents) ==
  CASE op = "create" -> <<pos>>
    [] op = "delete" -> Absent
    [] op = "append" -> Append(contents, pos)
    [] op = "write"  -> <<contents[1], pos>>

Execute(t) ==
  LET f == job[t].file IN
  /\ pc[t] = "execute"
  /\ files' = [files EXCEPT ![f] = Effect(job[t].op, job[t].pos, @)]
  /\ executed' = executed \union {job[t].pos}
  /\ Goto(t, "commit")
  /\ UNCHANGED <<mode, clock, journals, job, todo, holder, creator, saved, crashes,
                 recoveries, contested>>

\* Mutant: the search stops one entry early.
Probed_StopsEarly(t) ==
  LET Search[range \in (1..Len(journals) + 1) \X (0..Len(journals))] ==
        LET low == range[1]
            high == range[2]
            mid == (low - 1 + high - 1) \div 2 + 1
        IN IF low >= high THEN {}
           ELSE {mid} \union
                (IF journals[mid].time = t THEN {}
                 ELSE IF journals[mid].time < t THEN Search[<<mid + 1, high>>]
                 ELSE Search[<<low, mid - 1>>])
  IN Search[<<1, Len(journals)>>]

\* The binary search of markCommitted between low and high: the indices whose
\* timestamp it compares with t, until one is equal.
Probed(t) ==
  LET Search[range \in (1..Len(journals) + 1) \X (0..Len(journals))] ==
        LET low == range[1]
            high == range[2]
            mid == (low - 1 + high - 1) \div 2 + 1
        IN IF low > high THEN {}
           ELSE {mid} \union
                (IF journals[mid].time = t THEN {}
                 ELSE IF journals[mid].time < t THEN Search[<<mid + 1, high>>]
                 ELSE Search[<<low, mid - 1>>])
  IN Search[<<1, Len(journals)>>]

\* Mutant: every probed entry is marked, whatever its timestamp.
Marked_Probed(t) ==
  [i \in DOMAIN journals |->
     IF i \in Probed(t) THEN [journals[i] EXCEPT !.committed = TRUE]
     ELSE journals[i]]

\* The entry it marks, none when the search runs past it.
Marked(t) ==
  [i \in DOMAIN journals |->
     IF i \in Probed(t) /\ journals[i].time = t
     THEN [journals[i] EXCEPT !.committed = TRUE]
     ELSE journals[i]]

\* markCommitted, and the locks the handler gives back behind it.
Commit(t) ==
  LET f == job[t].file IN
  /\ pc[t] = "commit"
  /\ journals' = Marked(job[t].time)
  /\ holder' = [holder EXCEPT ![f] = Nobody]
  /\ creator' = IF creator = t THEN Nobody ELSE creator
  /\ job' = [job EXCEPT ![t] = NoJob]
  /\ Goto(t, IF job[t].replay THEN "recover" ELSE "idle")
  /\ UNCHANGED <<mode, clock, todo, files, saved, executed, crashes, recoveries,
                 contested>>

-----------------------------------------------------------------------------
(* Recovery: at a boot by Main, at a login by the terminal's own thread.   *)

\* Mutant: the test of the committed flag is missing.
Uncommitted_All == DOMAIN journals

Uncommitted == {i \in DOMAIN journals : ~journals[i].committed}

\* u works on entry i, or is to replay it.
At(u, i) == job[u].pos = i \/ i \in todo[u]

\* recoverUncommitedOperations copies the entries of the user under the
\* mutex, those other handlers are working on included.
StartRecovery(t) ==
  /\ recoveries < MaxRecoveries
  /\ contested' = contested \union {i \in Uncommitted : \E u \in Threads : At(u, i)}
  /\ recoveries' = recoveries + 1
  /\ todo' = [todo EXCEPT ![t] = Uncommitted]
  /\ Goto(t, "recover")

Login(t) ==
  /\ mode = "up" /\ pc[t] = "idle"
  /\ StartRecovery(t)
  /\ UNCHANGED <<mode, clock, journals, job, holder, creator, files, saved, executed,
                 crashes>>

\* updateUncommitedOperations at its next entry.  For a create nothing is done
\* if the index has the name: the loop goes on, and if the name leads to an
\* entry of another directory, the branch has nothing left to do.  Any other
\* operation on a file that does not exist is refused by its handler.  In both
\* cases the entry stays uncommitted; what can be done goes through its handler
\* with check set, so that it is not logged again and commits the entry it
\* came from.
ReplayEntry(t, i) ==
  LET e == journals[i]
      start == [job EXCEPT ![t] = [op |-> e.op, file |-> e.file, bar |-> e.bar,
                                   time |-> e.time, pos |-> i, replay |-> TRUE]]
  IN
  /\ pc[t] = "recover" /\ i \in todo[t]
  /\ \A j \in todo[t] : i <= j
  /\ todo' = [todo EXCEPT ![t] = @ \ {i}]
  /\ \/ /\ (e.op = "create") = Exists(e.file)
        /\ UNCHANGED <<pc, job, creator, holder>>
     \/ /\ e.op = "create" /\ EnterCreate(t, e.file)
        /\ job' = start /\ Goto(t, "execute")
     \/ /\ e.op # "create" /\ EnterExisting(e.file)
        /\ job' = start /\ Goto(t, "lock")
  /\ UNCHANGED <<mode, clock, journals, files, saved, executed, crashes, recoveries,
                 contested>>

\* The end of a recovery; the constructor of System returns when Main's ends.
Recovered(t) ==
  /\ pc[t] = "recover" /\ todo[t] = {}
  /\ Goto(t, "idle")
  /\ mode' = "up"
  /\ UNCHANGED <<clock, journals, job, todo, holder, creator, files, saved, executed,
                 crashes, recoveries, contested>>

-----------------------------------------------------------------------------
(* Stopping and starting the server.                                       *)

Stop ==
  /\ mode' = "down"
  /\ pc' = [t \in Threads |-> "idle"] /\ job' = [t \in Threads |-> NoJob]
  /\ todo' = [t \in Threads |-> {}]
  /\ holder' = [f \in Files |-> Nobody] /\ creator' = Nobody /\ contested' = {}
  /\ UNCHANGED <<clock, journals, executed, recoveries>>

\* SIGINT while no command runs: cleanup deletes the file system, whose
\* destructor calls saveInDisk.
Shutdown ==
  /\ mode = "up" /\ AllIdle
  /\ Stop
  /\ saved' = files
  /\ UNCHANGED <<files, crashes>>

\* The process dies anywhere.  The index is on disk as saveInDisk left it, so
\* only files it names can be found again; their table entries were written
\* meanwhile, some in the right place and some not: each is the old one, the
\* new one or damaged.
Kill ==
  /\ mode # "down" /\ crashes < MaxCrashes
  /\ Stop
  /\ crashes' = crashes + 1
  /\ \E lost, old \in SUBSET Files :
       files' = [f \in Files |-> IF saved[f] = Absent \/ f \in lost THEN Absent
                                ELSE IF f \in old THEN saved[f] ELSE files[f]]
  /\ UNCHANGED saved

\* loadJournal throws on a line that has not exactly ten fields; the server
\* then ends before it accepts a terminal.
LogReadable == \A i \in DOMAIN journals : ~journals[i].bar

Boot ==
  /\ mode = "down" /\ LogReadable
  /\ mode' = "booting"
  /\ StartRecovery(Main)
  /\ UNCHANGED <<clock, journals, job, holder, creator, files, saved, executed,
                 crashes>>

ThreadStep(t) ==
  \/ Lock(t) \/ Stamp(t) \/ Log(t) \/ Execute(t) \/ Commit(t)
  \/ Recovered(t)
  \/ \E i \in todo[t] : ReplayEntry(t, i)

Command(t) ==
  \/ Login(t)
  \/ \E op \in Ops, f \in Files, bar \in Barred : Begin(t, op, f, bar)

Next ==
  \/ \E t \in Threads : ThreadStep(t)
  \/ \E t \in Terminals : Command(t)
  \/ Shutdown \/ Kill \/ Boot

Spec == Init /\ [][Next]_vars

-----------------------------------------------------------------------------
(* Properties.                                                             *)

\* The types of the state; a job's position is one of the log, or 0 before
\* logOperation has pushed the entry.
TypeOK ==
  /\ mode \in {"up", "booting", "down"} /\ clock \in Nat
  /\ journals \in Seq(Entry)
  /\ pc \in [Threads -> PCs] /\ job \in [Threads -> Job \union {NoJob}]
  /\ \A t \in Threads : job[t].pos \in 0..Len(journals)
  /\ todo \in [Threads -> SUBSET (1..Len(journals))]
  /\ holder \in [Files -> Threads \union {Nobody}]
  /\ creator \in Threads \union {Nobody}
  /\ files \in [Files -> Seq(1..Len(journals))]
  /\ saved \in [Files -> Seq(1..Len(journals))]
  /\ executed \in SUBSET (1..Len(journals)) /\ contested \in SUBSET (1..Len(journals))
  /\ crashes \in 0..MaxCrashes /\ recoveries \in 0..MaxRecoveries

\* No other entry has the timestamp of entry i.
Unique(i) == \A j \in DOMAIN journals : journals[j].time = journals[i].time => j = i

\* The log is in the order of its timestamps, no two of them equal.
Sorted == \A i, j \in DOMAIN journals : i < j => journals[i].time < journals[j].time

\* An entry that markCommitted marked has been executed, unless it shares its
\* millisecond with another one: no search in a log that several threads append
\* to, be it sorted or not, marks an operation that has not happened yet and
\* would never be replayed.
CommittedWasExecuted ==
  \A i \in DOMAIN journals : journals[i].committed /\ Unique(i) => i \in executed

\* An operation that is marked is never done again, at no login and at no boot,
\* whatever crashed in between, unless it shares its millisecond with another
\* one, or a login copied it while another thread was at it.
CommittedIsFinal ==
  \A t \in Threads :
    (pc[t] = "execute" /\ job[t].pos \notin contested /\ Unique(job[t].pos)) =>
      ~journals[job[t].pos].committed

\* As long as nothing crashed, and no two handlers have pushed their entries in
\* another order than that of their stamps, a quiet server has marked all it
\* logged, however its commands and logins interleaved: a restart has nothing to
\* replay.
FinishedIsCommitted ==
  (crashes = 0 /\ mode = "up" /\ AllIdle /\ Sorted) =>
    \A i \in DOMAIN journals : journals[i].committed

\* The contents that the log explains: the effects of the executed entries
\* about f, in the order of the log.
Explained(f) ==
  LET After[n \in 0..Len(journals)] ==
        IF n = 0 THEN Absent
        ELSE IF n \in executed /\ journals[n].file = f
        THEN Effect(journals[n].op, n, After[n - 1])
        ELSE After[n - 1]
  IN After[Len(journals)]

\* Handlers that interleave leave every file as if its operations had been
\* done one at a time in the order of the log: the write lock is held from
\* before logOperation until after markCommitted.
FilesMatchLog ==
  (crashes = 0 /\ recoveries = 0) => \A f \in Files : files[f] = Explained(f)

\* Claims the code does not keep.

\* The uncommitted entries a recovery starts from (README.md 31) are of operations
\* that were not done.
OnlyUndoneIsLeft ==
  (crashes = 0 /\ mode = "up" /\ AllIdle) =>
    \A i \in DOMAIN journals : i \in executed => journals[i].committed

\* No effect is in a file twice.
AppliedOnce ==
  \A f \in Files : \A i, j \in DOMAIN files[f] :
    files[f][i] = files[f][j] => i = j

\* A file whose last committed operation is not its deletion can be found, also
\* after a crash (README.md 29).
CommittedSurvives ==
  (mode = "up" /\ AllIdle) =>
    \A f \in Files : \A i \in DOMAIN journals :
      (/\ journals[i].file = f /\ journals[i].committed
       /\ journals[i].op # "delete"
       /\ \A j \in i + 1..Len(journals) : journals[j].file # f)
      => Exists(f)

\* What was logged before a file was created is not in it.
NoStaleReplay ==
  \A f \in Files : \A i \in DOMAIN files[f] : files[f][i] >= files[f][1]

\* A server that is down can be booted.
BootPossible == mode = "down" => LogReadable
=============================================================================
