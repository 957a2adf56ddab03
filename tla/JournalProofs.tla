--------------------------- MODULE JournalProofs ---------------------------
(***************************************************************************)
(* Proofs about the journal, for any terminals and files, any clock and    *)
(* any bounds.  In this order: an entry that is marked committed has been  *)
(* executed; the types, which carry that an operation only ever runs on a  *)
(* file that is there; the binary search of markCommitted finds what it    *)
(* looks for in a sorted log; nothing that is marked is done again; a      *)
(* quiet server with a sorted log has marked all; and the files are what   *)
(* the log explains.                                                       *)
(***************************************************************************)
EXTENDS Journal, SequenceTheorems, SetInduction

Typing ==
  /\ clock \in Nat
  /\ journals \in Seq(Entry)
  /\ pc \in [Threads -> PCs]
  /\ job \in [Threads -> Job \union {NoJob}]
  /\ todo \in [Threads -> SUBSET (1..Len(journals))]

\* A thread inside an operation has one.
Working == \A t \in Threads : pc[t] \notin {"idle", "recover"} => job[t] \in Job

\* An operation that is logged knows its entry.
Logged(t) == pc[t] \in {"execute", "commit"} \/ (pc[t] = "lock" /\ job[t].replay)
Placed ==
  \A t \in Threads : Logged(t) =>
    /\ job[t].pos \in 1..Len(journals)
    /\ journals[job[t].pos].time = job[t].time

\* What is about to be committed, and what is committed, has been executed.
ExecutedFirst == \A t \in Threads : pc[t] = "commit" => job[t].pos \in executed
MarkedExecuted ==
  \A i \in 1..Len(journals) : journals[i].committed /\ Unique(i) => i \in executed

IInv == Typing /\ Working /\ Placed /\ ExecutedFirst /\ MarkedExecuted

-----------------------------------------------------------------------------
\* Marking keeps the log as long as it is and changes nothing but flags, and
\* only those of entries with the timestamp looked for.
LEMMA MarkedShape ==
  ASSUME journals \in Seq(Entry), NEW time
  PROVE  /\ Marked(time) \in Seq(Entry)
         /\ Len(Marked(time)) = Len(journals)
         /\ \A i \in 1..Len(journals) :
              /\ Marked(time)[i].time = journals[i].time
              /\ Marked(time)[i].op = journals[i].op
              /\ Marked(time)[i].file = journals[i].file
              /\ Marked(time)[i].committed =>
                   (journals[i].committed \/ journals[i].time = time)
<1>1. DOMAIN journals = 1..Len(journals) /\ Len(journals) \in Nat
  BY LenProperties
<1>2. \A i \in 1..Len(journals) : journals[i] \in Entry
  BY <1>1, ElementOfSeq
<1>3. \A i \in 1..Len(journals) :
        /\ Marked(time)[i] \in Entry
        /\ Marked(time)[i].time = journals[i].time
        /\ Marked(time)[i].op = journals[i].op
        /\ Marked(time)[i].file = journals[i].file
        /\ Marked(time)[i].committed =>
             (journals[i].committed \/ journals[i].time = time)
  BY <1>1, <1>2 DEF Marked, Entry
<1>4. Marked(time) \in [1..Len(journals) -> Entry]
  BY <1>1, <1>3 DEF Marked
<1>5. Marked(time) \in Seq(Entry)
  BY <1>1, <1>4, SeqDef
<1>6. Len(Marked(time)) = Len(journals)
  BY <1>1, <1>4, <1>5, LenProperties
<1> QED BY <1>3, <1>5, <1>6

\* Who has a stamp of its own in a longer log had one in the log before.
LEMMA UniqueBefore ==
  ASSUME journals \in Seq(Entry), journals' \in Seq(Entry), Len(journals) <= Len(journals'),
         \A j \in 1..Len(journals) : journals'[j].time = journals[j].time,
         NEW i \in 1..Len(journals), Unique(i)'
  PROVE  Unique(i)
<1>1. /\ DOMAIN journals = 1..Len(journals) /\ DOMAIN journals' = 1..Len(journals')
      /\ Len(journals) \in Nat /\ Len(journals') \in Nat
  BY LenProperties
<1>2. \A j \in 1..Len(journals) : j \in 1..Len(journals')
  BY <1>1
<1> QED BY <1>1, <1>2 DEF Unique

\* The invariant of MarksOnlyTheExecuted holds at the start ...
LEMMA InitIInv == Init => IInv
<1> SUFFICES ASSUME Init PROVE IInv
  OBVIOUS
<1>1. Len(journals) = 0 /\ journals \in Seq(Entry)
  BY DEF Init
<1>2. Typing
  BY <1>1 DEF Init, Typing, PCs, Threads
<1> QED
  BY <1>1, <1>2 DEF Init, IInv, Working, Placed, Logged, ExecutedFirst, MarkedExecuted

\* Steps that leave the log and the history alone, and that bring nobody to
\* "commit" nor to a logged state without its entry.
LEMMA QuietStep ==
  ASSUME IInv,
         UNCHANGED <<journals, executed>>, clock' \in Nat,
         pc' \in [Threads -> PCs], job' \in [Threads -> Job \union {NoJob}],
         todo' \in [Threads -> SUBSET (1..Len(journals))],
         \A t \in Threads :
           \/ pc'[t] = pc[t] /\ job'[t] = job[t]
           \/ /\ pc'[t] # "commit"
              /\ pc'[t] \notin {"idle", "recover"} => job'[t] \in Job
              /\ (pc'[t] = "execute" \/ (pc'[t] = "lock" /\ job'[t].replay)) =>
                   /\ job'[t].pos \in 1..Len(journals)
                   /\ journals[job'[t].pos].time = job'[t].time
  PROVE  IInv'
<1> USE DEF IInv
<1>1. Typing'
  BY DEF Typing
<1>2. Working'
  BY DEF Working
<1>3. MarkedExecuted'
  BY DEF MarkedExecuted, Unique
<1>5. Placed'
  BY DEF Placed, Logged
<1>6. ExecutedFirst'
  BY DEF ExecutedFirst
<1> QED BY <1>1, <1>2, <1>3, <1>5, <1>6

LEMMA QuietSteps ==
  ASSUME IInv, NEW t \in Threads,
         \/ Lock(t) \/ Stamp(t) \/ Recovered(t) \/ (\E i \in todo[t] : ReplayEntry(t, i))
         \/ Command(t) \/ Shutdown \/ Kill \/ Boot
  PROVE  IInv'
<1> USE DEF IInv, Typing
<1>j. \A i \in 1..Len(journals) : journals[i] \in Entry
  BY ElementOfSeq
<1>1. CASE Lock(t)
  BY <1>1, QuietStep DEF Lock, Goto, PCs, Working, Placed, Logged
<1>2. CASE Recovered(t)
  BY <1>2, QuietStep DEF Recovered, Goto, PCs
<1>3. ASSUME NEW i \in todo[t], ReplayEntry(t, i) PROVE IInv'
  <2> DEFINE e == journals[i]
             start == [op |-> e.op, file |-> e.file, bar |-> e.bar,
                       time |-> e.time, pos |-> i, replay |-> TRUE]
  <2>1. i \in 1..Len(journals) /\ Len(journals) \in Nat
    BY LenProperties
  <2>2. start \in Job /\ start.pos = i /\ start.time = e.time
    BY <2>1, <1>j DEF Job, Entry
  <2>3. \/ UNCHANGED <<pc, job>>
        \/ /\ job' = [job EXCEPT ![t] = start]
           /\ pc' = [pc EXCEPT ![t] = "execute"] \/ pc' = [pc EXCEPT ![t] = "lock"]
    BY <1>3 DEF ReplayEntry, Goto
  <2>4. UNCHANGED <<clock, journals, executed>> /\ todo' = [todo EXCEPT ![t] = @ \ {i}]
    BY <1>3 DEF ReplayEntry
  <2> HIDE DEF start
  <2> QED BY <2>1, <2>2, <2>3, <2>4, QuietStep DEF PCs
<1>4. CASE Command(t)
  <2>1. CASE Login(t)
    BY <2>1, QuietStep, LenProperties
       DEF Login, StartRecovery, Goto, PCs, Uncommitted
  <2>2. ASSUME NEW op \in Ops, NEW f \in Files, NEW bar \in Barred, Begin(t, op, f, bar)
        PROVE  IInv'
    <3> DEFINE start == [op |-> op, file |-> f, bar |-> bar, time |-> 0, pos |-> 0,
                         replay |-> FALSE]
    <3>1. start \in Job /\ ~start.replay
      BY JournalAssumption DEF Job
    <3>2. /\ job' = [job EXCEPT ![t] = start]
          /\ pc' = [pc EXCEPT ![t] = "stamp"] \/ pc' = [pc EXCEPT ![t] = "lock"]
          /\ UNCHANGED <<clock, journals, executed, todo>>
      BY <2>2 DEF Begin, Goto
    <3> HIDE DEF start
    <3> QED BY <3>1, <3>2, QuietStep DEF PCs
  <2> QED BY <1>4, <2>1, <2>2 DEF Command
<1>5. CASE Shutdown
  BY <1>5, QuietStep DEF Shutdown, Stop, PCs
<1>6. CASE Kill
  BY <1>6, QuietStep DEF Kill, Stop, PCs
<1>7. CASE Boot
  BY <1>7, QuietStep, LenProperties
     DEF Boot, StartRecovery, Goto, PCs, Uncommitted, Threads
<1>8. CASE Stamp(t)
  <2>1. job[t] \in Job /\ clock' \in Nat /\ pc[t] = "stamp"
    BY <1>8 DEF Stamp, Working
  <2>2. job' = [job EXCEPT ![t].time = clock'] /\ job'[t] \in Job
    BY <1>8, <2>1 DEF Stamp, Job
  <2>3. pc' = [pc EXCEPT ![t] = "log"] /\ UNCHANGED <<journals, executed, todo>>
    BY <1>8 DEF Stamp, Goto
  <2> QED BY <2>1, <2>2, <2>3, QuietStep DEF PCs
<1> QED BY <1>1, <1>2, <1>3, <1>4, <1>5, <1>6, <1>7, <1>8

LEMMA LogStep ==
  ASSUME IInv, NEW t \in Threads, Log(t)
  PROVE  IInv'
<1> USE DEF IInv, Typing, Log, Goto
<1> DEFINE n == Len(journals)
           e == [op |-> job[t].op, file |-> job[t].file, bar |-> job[t].bar,
                 time |-> job[t].time, committed |-> FALSE]
<1>1. job[t] \in Job /\ n \in Nat
  BY LenProperties DEF Working
<1>2. e \in Entry /\ e.time = job[t].time /\ ~e.committed
  BY <1>1 DEF Job, Entry
<1>3. journals' = Append(journals, e)
  OBVIOUS
<1> HIDE DEF e
<1>4. /\ journals' \in Seq(Entry) /\ Len(journals') = n + 1
      /\ \A i \in 1..n : journals'[i] = journals[i]
      /\ journals'[n + 1] = e
  BY <1>2, <1>3, AppendProperties
<1>5. job' = [job EXCEPT ![t].pos = n + 1] /\ job'[t] \in Job
      /\ job'[t].pos = n + 1 /\ job'[t].time = job[t].time
  BY <1>1 DEF Job
<1> HIDE DEF Log
<1>p. pc' = [pc EXCEPT ![t] = "execute"] /\ pc[t] = "log"
      /\ UNCHANGED <<clock, todo, executed>>
  BY DEF Log
<1>i. \A i \in 1..Len(journals') : i \in 1..n \/ i = n + 1
  BY <1>1, <1>4
<1>j. 1..n \subseteq 1..Len(journals') /\ n + 1 \in 1..Len(journals')
  BY <1>1, <1>4
<1> HIDE DEF n
<1>n. n = Len(journals) /\ n + 1 \notin 1..n
  BY <1>1 DEF n
<1>6. Typing'
  <2>1. todo \in [Threads -> SUBSET (1..n)]
    BY <1>n
  <2>2. todo' \in [Threads -> SUBSET (1..Len(journals'))]
    BY <2>1, <1>j, <1>p
  <2> QED BY <2>2, <1>4, <1>5, <1>p DEF PCs
<1>w. Working'
  BY <1>5, <1>p DEF Working
<1>9. MarkedExecuted'
  <2> SUFFICES ASSUME NEW i \in 1..Len(journals'), journals'[i].committed, Unique(i)'
               PROVE  i \in executed'
    BY DEF MarkedExecuted
  <2>1. i \in 1..n
    BY <1>2, <1>4, <1>i
  <2>2. Unique(i)
    <3>1. Len(journals) <= Len(journals') /\ \A j \in 1..Len(journals) : journals'[j].time = journals[j].time
      BY <1>1, <1>4, <1>n
    <3> QED BY <2>1, <3>1, <1>4, <1>n, UniqueBefore
  <2> QED BY <2>1, <2>2, <1>4, <1>n, <1>p DEF MarkedExecuted
<1>12. Placed'
  BY <1>2, <1>4, <1>5, <1>j, <1>n, <1>p DEF Placed, Logged
<1>13. ExecutedFirst'
  BY <1>5, <1>p DEF ExecutedFirst
<1> QED BY <1>6, <1>w, <1>9, <1>12, <1>13

LEMMA ExecuteStep ==
  ASSUME IInv, NEW t \in Threads, Execute(t)
  PROVE  IInv'
<1> USE DEF IInv, Typing
<1>1. /\ pc' = [pc EXCEPT ![t] = "commit"] /\ pc[t] = "execute"
      /\ executed' = executed \union {job[t].pos}
      /\ UNCHANGED <<clock, journals, job, todo>>
  BY DEF Execute, Goto
<1>2. Typing' /\ Working'
  BY <1>1 DEF Working, PCs
<1>3. Placed' /\ ExecutedFirst' /\ MarkedExecuted'
  BY <1>1 DEF Placed, Logged, ExecutedFirst, MarkedExecuted, Unique
<1> QED BY <1>2, <1>3

\* The step the property is about: an entry that is marked has the stamp of the
\* operation, as the operation's own entry has, which has been executed.
LEMMA CommitStep ==
  ASSUME IInv, NEW t \in Threads, Commit(t)
  PROVE  IInv'
<1> USE DEF IInv, Typing
<1> DEFINE n == Len(journals)
<1>1. /\ journals' = Marked(job[t].time)
      /\ job' = [job EXCEPT ![t] = NoJob] /\ pc[t] = "commit"
      /\ pc' = [pc EXCEPT ![t] = "recover"] \/ pc' = [pc EXCEPT ![t] = "idle"]
      /\ UNCHANGED <<clock, executed, todo>>
  BY DEF Commit, Goto
<1>2. /\ journals' \in Seq(Entry) /\ Len(journals') = n
      /\ \A i \in 1..n :
           /\ journals'[i].time = journals[i].time
           /\ journals'[i].committed =>
                (journals[i].committed \/ journals[i].time = job[t].time)
  BY <1>1, MarkedShape
<1>3. job[t].pos \in 1..n /\ journals[job[t].pos].time = job[t].time
      /\ job[t].pos \in executed
  BY <1>1 DEF Placed, Logged, ExecutedFirst
<1>4. Typing' /\ Working'
  BY <1>1, <1>2 DEF Working, PCs
<1>8. Placed' /\ ExecutedFirst'
  BY <1>1, <1>2 DEF Placed, Logged, ExecutedFirst
<1>7. MarkedExecuted'
  <2> SUFFICES ASSUME NEW i \in 1..n, journals'[i].committed, Unique(i)'
               PROVE  i \in executed
    BY <1>1, <1>2 DEF MarkedExecuted
  <2>1. Unique(i)
    BY <1>2, LenProperties, UniqueBefore
  <2>2. CASE journals[i].committed
    BY <2>1, <2>2 DEF MarkedExecuted
  <2>3. CASE journals[i].time = job[t].time
    <3>1. job[t].pos = i
      BY <2>1, <2>3, <1>3, LenProperties DEF Unique
    <3> QED BY <3>1, <1>3
  <2> QED BY <2>2, <2>3, <1>2
<1> QED BY <1>4, <1>7, <1>8

\* ... and every step keeps it.
LEMMA NextIInv ==
  ASSUME IInv, [Next]_vars
  PROVE  IInv'
<1>1. CASE UNCHANGED vars
  BY <1>1 DEF vars, IInv, Typing, Working, Placed, Logged, ExecutedFirst, MarkedExecuted,
     Unique
<1>2. ASSUME NEW t \in Threads, ThreadStep(t) PROVE IInv'
  BY <1>2, QuietSteps, LogStep, ExecuteStep, CommitStep DEF ThreadStep
<1>3. ASSUME NEW t \in Terminals, Command(t) PROVE IInv'
  BY <1>3, QuietSteps DEF Threads
<1>4. CASE Shutdown \/ Kill \/ Boot
  BY <1>4, QuietSteps DEF Threads
<1> QED BY <1>1, <1>2, <1>3, <1>4 DEF Next

\* CommittedWasExecuted (markCommitted, journaling.cpp 66-102) for every number of
\* terminals, files, operations, crashes, boots and logins, any clock and any
\* order of the log: a mark on an operation that has not happened can only come
\* from one that was stamped in the same millisecond.
THEOREM MarksOnlyTheExecuted == Spec => []CommittedWasExecuted
<1>1. Init => IInv
  BY InitIInv
<1>2. IInv /\ [Next]_vars => IInv'
  BY NextIInv
<1>3. IInv => CommittedWasExecuted
  BY LenProperties DEF IInv, Typing, MarkedExecuted, CommittedWasExecuted
<1> QED BY <1>1, <1>2, <1>3, PTL DEF Spec

-----------------------------------------------------------------------------
(* Types.                                                                  *)

Solo  == \A s, t \in Terminals : s = t
\* At most one thread is inside a handler or a recovery.
Alone == \A s, t \in Threads : (pc[s] # "idle" /\ pc[t] # "idle") => s = t
\* Who may be active in which mode: Main only while the server boots, the
\* terminals only once it is up, nobody while it is down.
Phase ==
  /\ mode = "up" => pc[Main] = "idle"
  /\ mode = "booting" => \A t \in Terminals : pc[t] = "idle"
  /\ mode = "down" => AllIdle
\* Only operations that terminals issue are in the log and under way.
KnownOps ==
  /\ \A i \in 1..Len(journals) : journals[i].op \in Ops
  /\ \A t \in Threads : pc[t] \notin {"idle", "recover"} => job[t].op \in Ops
\* An operation that is logged has a position.
Positioned == \A t \in Threads : Logged(t) => job[t].pos # 0
\* An operation other than a create runs on a file that exists: nobody can
\* take the file away while it waits or works.
Present ==
  \A t \in Threads :
    (pc[t] \in {"lock", "stamp", "log", "execute"} /\ job[t].op # "create") =>
      Exists(job[t].file)

\* The types, and what they rest on.
TypeInv ==
  /\ TypeOK /\ Working /\ Positioned /\ KnownOps
  /\ Phase /\ (Solo => Alone) /\ Present

\* The types hold at the start.
LEMMA InitTypeInv == Init => TypeInv
<1> SUFFICES ASSUME Init PROVE TypeInv
  OBVIOUS
<1>1. Len(journals) = 0 /\ journals \in Seq(Entry) /\ Absent \in Seq({})
  BY DEF Init, Absent
<1>2. Absent \in Seq(1..Len(journals))
  BY DEF Absent
<1>3. TypeOK
  BY <1>1, <1>2, JournalAssumption DEF Init, TypeOK, PCs, Threads, NoJob
<1> QED
  BY <1>1, <1>3 DEF Init, TypeInv, Working, Positioned, Logged, KnownOps, Phase, AllIdle,
     Alone, Present, Threads

\* Steps that touch neither the log nor the files, and at which nobody moves
\* but t, who ...
LEMMA TypeMove ==
  ASSUME TypeInv, NEW t \in Threads, NEW pct \in PCs, NEW jobt \in Job \union {NoJob},
         UNCHANGED <<journals, files, saved, executed, crashes>>,
         mode' \in {"up", "booting"}, clock' \in Nat, recoveries' \in 0..MaxRecoveries,
         todo' \in [Threads -> SUBSET (1..Len(journals))],
         contested' \in SUBSET (1..Len(journals)),
         holder' \in [Files -> Threads \union {Nobody}],
         creator' \in Threads \union {Nobody},
         pc' = [pc EXCEPT ![t] = pct], job' = [job EXCEPT ![t] = jobt],
         jobt.pos \in 0..Len(journals),
         pct \notin {"idle", "recover"} => jobt \in Job /\ jobt.op \in Ops,
         pct \in {"execute", "commit"} \/ (pct = "lock" /\ jobt.replay) => jobt.pos # 0,
         Phase',
         Solo => Alone',
         pct \in {"lock", "stamp", "log", "execute"} /\ jobt.op # "create" =>
            Exists(jobt.file)
  PROVE  TypeInv'
<1> USE DEF TypeInv
<1>1. TypeOK'
  <2>1. \A u \in Threads : job'[u].pos \in 0..Len(journals)'
    BY DEF TypeOK
  <2>2. pc' \in [Threads -> PCs] /\ job' \in [Threads -> Job \union {NoJob}]
    BY DEF TypeOK
  <2> QED BY <2>1, <2>2 DEF TypeOK
<1>2. Working'
  BY DEF Working, TypeOK
<1>3. Positioned'
  BY DEF Positioned, Logged, TypeOK
<1>4. KnownOps'
  BY DEF KnownOps, TypeOK
<1>6. Present'
  BY DEF Present, TypeOK, Exists
<1>7. (Solo => Alone)'
  BY DEF Solo
<1> QED BY <1>1, <1>2, <1>3, <1>4, <1>6, <1>7

\* The steps of a thread that change neither the log nor a file.
LEMMA TypeMoves ==
  ASSUME TypeInv, NEW t \in Threads,
         \/ Lock(t) \/ Stamp(t) \/ Recovered(t)
         \/ (\E i \in todo[t] : ReplayEntry(t, i))
  PROVE  TypeInv'
<1> USE DEF TypeInv
<1>1. CASE Lock(t)
  <2> DEFINE pct == IF job[t].replay THEN "execute" ELSE "stamp"
  <2>1. pct \in PCs /\ job[t] \in Job /\ job' = [job EXCEPT ![t] = job[t]]
    BY <1>1 DEF Lock, PCs, Working, TypeOK
  <2>2. pc' = [pc EXCEPT ![t] = pct] /\ pc[t] = "lock"
    BY <1>1 DEF Lock, Goto
  <2>3. Present => (job[t].op # "create" => Exists(job[t].file))
    BY <2>2 DEF Present
  <2>4. job[t].op \in Ops /\ (job[t].replay => job[t].pos # 0)
    BY <2>2 DEF KnownOps, Positioned, Logged
  <2>5. mode' \in {"up", "booting"} /\ Phase'
    BY <1>1, <2>2 DEF Lock, Phase, AllIdle, TypeOK, Threads
  <2>6. Solo => Alone'
    BY <2>2 DEF Alone, TypeOK
  <2>7. holder' \in [Files -> Threads \union {Nobody}]
    BY <1>1 DEF Lock, TypeOK
  <2>8. /\ UNCHANGED <<journals, files, saved, executed, crashes>>
        /\ clock' \in Nat /\ recoveries' \in 0..MaxRecoveries
        /\ todo' \in [Threads -> SUBSET (1..Len(journals))]
        /\ contested' \in SUBSET (1..Len(journals))
        /\ creator' \in Threads \union {Nobody}
        /\ job[t].pos \in 0..Len(journals)
    BY <1>1 DEF Lock, TypeOK
  <2> HIDE DEF TypeInv
  <2> QED BY <2>1, <2>2, <2>3, <2>4, <2>5, <2>6, <2>7, <2>8, TypeMove DEF TypeInv
<1>2. CASE Stamp(t)
  <2>1. pc[t] = "stamp" /\ (clock' = clock \/ clock' = clock + 1)
    BY <1>2 DEF Stamp
  <2>2. job[t] \in Job /\ clock' \in Nat
    <3>1. job[t] \in Job
      BY <2>1 DEF Working
    <3>2. clock' \in Nat
      BY <2>1 DEF TypeOK
    <3> QED BY <3>1, <3>2
  <2> DEFINE jobt == [op |-> job[t].op, file |-> job[t].file, bar |-> job[t].bar,
                      time |-> clock', pos |-> job[t].pos, replay |-> job[t].replay]
  <2>a. jobt \in Job /\ jobt.op = job[t].op /\ jobt.file = job[t].file
        /\ jobt.pos = job[t].pos
    BY <2>2 DEF Job
  <2>b. job' = [job EXCEPT ![t] = jobt]
    <3>1. job' = [job EXCEPT ![t].time = clock']
      BY <1>2 DEF Stamp
    <3>2. job'[t] = jobt /\ job' \in [Threads -> Job \union {NoJob}]
      BY <3>1, <2>2 DEF TypeOK, Job
    <3> QED BY <3>1, <3>2 DEF TypeOK
  <2>3. pc' = [pc EXCEPT ![t] = "log"] /\ pc[t] = "stamp" /\ "log" \in PCs
    BY <1>2 DEF Stamp, Goto, PCs
  <2>4. job[t].op \in Ops /\ (job[t].op # "create" => Exists(job[t].file))
    BY <2>3 DEF KnownOps, Present
  <2>5. mode' \in {"up", "booting"} /\ Phase'
    BY <1>2, <2>3 DEF Stamp, Phase, AllIdle, TypeOK, Threads
  <2>6. Solo => Alone'
    BY <2>3 DEF Alone, TypeOK
  <2>8. /\ UNCHANGED <<journals, files, saved, executed, crashes>>
        /\ recoveries' \in 0..MaxRecoveries
        /\ todo' \in [Threads -> SUBSET (1..Len(journals))]
        /\ contested' \in SUBSET (1..Len(journals))
        /\ holder' \in [Files -> Threads \union {Nobody}]
        /\ creator' \in Threads \union {Nobody}
        /\ job[t].pos \in 0..Len(journals)
    BY <1>2 DEF Stamp, TypeOK
  <2> HIDE DEF jobt, TypeInv
  <2> QED BY <2>1, <2>2, <2>3, <2>4, <2>5, <2>6, <2>8, <2>a, <2>b, TypeMove
<1>3. CASE Recovered(t)
  <2>1. /\ pc' = [pc EXCEPT ![t] = "idle"] /\ pc[t] = "recover" /\ "idle" \in PCs
        /\ job' = [job EXCEPT ![t] = job[t]]
    BY <1>3 DEF Recovered, Goto, PCs, TypeOK
  <2>5. mode' \in {"up", "booting"} /\ Phase'
    BY <1>3, <2>1, JournalAssumption DEF Recovered, Phase, AllIdle, TypeOK, Threads
  <2>6. Solo => Alone'
    BY <2>1 DEF Alone, TypeOK
  <2>8. /\ UNCHANGED <<journals, files, saved, executed, crashes>>
        /\ clock' \in Nat /\ recoveries' \in 0..MaxRecoveries
        /\ todo' \in [Threads -> SUBSET (1..Len(journals))]
        /\ contested' \in SUBSET (1..Len(journals))
        /\ holder' \in [Files -> Threads \union {Nobody}]
        /\ creator' \in Threads \union {Nobody}
        /\ job[t] \in Job \union {NoJob} /\ job[t].pos \in 0..Len(journals)
    BY <1>3 DEF Recovered, TypeOK
  <2> HIDE DEF TypeInv
  <2> QED BY <2>1, <2>5, <2>6, <2>8, TypeMove
<1>4. ASSUME NEW i \in todo[t], ReplayEntry(t, i) PROVE TypeInv'
  <2> DEFINE e == journals[i]
             start == [op |-> e.op, file |-> e.file, bar |-> e.bar,
                       time |-> e.time, pos |-> i, replay |-> TRUE]
  <2>1. i \in 1..Len(journals) /\ Len(journals) \in Nat
    BY LenProperties DEF TypeOK
  <2>2. e \in Entry /\ e.op \in Ops
    BY <2>1, ElementOfSeq DEF TypeOK, KnownOps
  <2>3. start \in Job /\ start.pos = i /\ start.op = e.op /\ start.file = e.file
    BY <2>1, <2>2 DEF Job, Entry
  <2>4. /\ UNCHANGED <<mode, clock, journals, files, saved, executed, crashes, recoveries>>
        /\ clock' \in Nat /\ recoveries' \in 0..MaxRecoveries
        /\ todo' \in [Threads -> SUBSET (1..Len(journals))]
        /\ contested' \in SUBSET (1..Len(journals))
        /\ holder' \in [Files -> Threads \union {Nobody}]
        /\ creator' \in Threads \union {Nobody}
        /\ mode' \in {"up", "booting", "down"} /\ pc[t] = "recover"
    <3>1. UNCHANGED <<mode, clock, journals, files, saved, executed, crashes, recoveries,
                      contested>>
          /\ todo' = [todo EXCEPT ![t] = @ \ {i}] /\ pc[t] = "recover"
      BY <1>4 DEF ReplayEntry
    <3>2. holder' \in [Files -> Threads \union {Nobody}]
          /\ creator' \in Threads \union {Nobody}
      <4>1. \/ UNCHANGED <<creator, holder>>
            \/ creator' = t /\ holder' = [holder EXCEPT ![e.file] = t]
        BY <1>4 DEF ReplayEntry, EnterCreate, EnterExisting
      <4> HIDE DEF e
      <4> QED BY <4>1 DEF TypeOK
    <3> QED BY <3>1, <3>2 DEF TypeOK
  <2>5. mode' \in {"up", "booting"} /\ Phase'
    <3>1. mode \in {"up", "booting"} /\ (mode = "booting" => t = Main)
      BY <2>4 DEF Phase, AllIdle, TypeOK, Threads
    <3>2. \A u \in Threads : u = t \/ pc'[u] = pc[u]
      BY <1>4 DEF ReplayEntry, Goto, TypeOK
    <3>3. mode = "up" => t # Main
      BY <2>4 DEF Phase
    <3> QED BY <2>4, <3>1, <3>2, <3>3, JournalAssumption DEF Phase, AllIdle, Threads
  <2>6. Solo => Alone'
    BY <1>4, <2>4 DEF Alone, ReplayEntry, Goto, TypeOK
  <2>7. CASE UNCHANGED <<pc, job>>
    <3>1. pc' = [pc EXCEPT ![t] = pc[t]] /\ job' = [job EXCEPT ![t] = job[t]]
          /\ pc[t] \in PCs /\ job[t] \in Job \union {NoJob} /\ job[t].pos \in 0..Len(journals)
      BY <2>7 DEF TypeOK
    <3> HIDE DEF TypeInv
    <3> QED BY <2>4, <2>5, <2>6, <3>1, TypeMove
  <2>8. CASE e.op = "create" /\ job' = [job EXCEPT ![t] = start]
             /\ pc' = [pc EXCEPT ![t] = "execute"]
    <3>1. "execute" \in PCs /\ start.pos \in 0..Len(journals) /\ start.pos # 0
      BY <2>1, <2>3 DEF PCs
    <3> HIDE DEF TypeInv, start
    <3> QED BY <2>2, <2>3, <2>4, <2>5, <2>6, <2>8, <3>1, TypeMove
  <2>9. CASE Exists(e.file) /\ job' = [job EXCEPT ![t] = start]
             /\ pc' = [pc EXCEPT ![t] = "lock"]
    <3>1. "lock" \in PCs /\ start.pos \in 0..Len(journals) /\ start.pos # 0
      BY <2>1, <2>3 DEF PCs
    <3> HIDE DEF TypeInv, start
    <3> QED BY <2>2, <2>3, <2>4, <2>5, <2>6, <2>9, <3>1, TypeMove
  <2> QED BY <1>4, <2>7, <2>8, <2>9 DEF ReplayEntry, EnterExisting, Goto
<1> QED BY <1>1, <1>2, <1>3, <1>4

\* A command or a login of a terminal.
LEMMA TypeLogin ==
  ASSUME TypeInv, NEW t \in Terminals, Command(t)
  PROVE  TypeInv'
<1> USE DEF TypeInv
<1>t. t \in Threads /\ t # Main /\ Main \in Threads
  BY JournalAssumption DEF Threads
<1>1. CASE Login(t)
  <2>1. pc' = [pc EXCEPT ![t] = "recover"] /\ pc[t] = "idle" /\ "recover" \in PCs
        /\ job' = [job EXCEPT ![t] = job[t]] /\ mode = "up" /\ mode' = "up"
    BY <1>1 DEF Login, StartRecovery, Goto, PCs, TypeOK
  <2>2. Phase'
    BY <2>1, <1>t DEF Phase
  <2>3. Solo => Alone'
    BY <2>1, <1>t DEF Alone, Solo, TypeOK, Threads, Phase
  <2>4. /\ UNCHANGED <<journals, files, saved, executed, crashes>>
        /\ clock' \in Nat /\ recoveries' \in 0..MaxRecoveries
        /\ todo' \in [Threads -> SUBSET (1..Len(journals))]
        /\ holder' \in [Files -> Threads \union {Nobody}]
        /\ creator' \in Threads \union {Nobody}
        /\ job[t] \in Job \union {NoJob} /\ job[t].pos \in 0..Len(journals)
    BY <1>1, <1>t, LenProperties, JournalAssumption
       DEF Login, StartRecovery, Uncommitted, TypeOK
  <2>5. contested' \in SUBSET (1..Len(journals))
    <3>1. Uncommitted \subseteq 1..Len(journals)
      BY LenProperties DEF Uncommitted, TypeOK
    <3>2. contested' \subseteq contested \union Uncommitted
      BY <1>1 DEF Login, StartRecovery
    <3> QED BY <3>1, <3>2 DEF TypeOK
  <2> HIDE DEF TypeInv
  <2> QED BY <2>1, <2>2, <2>3, <2>4, <2>5, <1>t, TypeMove
<1>2. ASSUME NEW op \in Ops, NEW f \in Files, NEW bar \in Barred, Begin(t, op, f, bar)
      PROVE  TypeInv'
  <2> DEFINE start == [op |-> op, file |-> f, bar |-> bar, time |-> 0, pos |-> 0,
                       replay |-> FALSE]
  <2>1. start \in Job /\ ~start.replay /\ start.pos = 0 /\ start.op = op /\ start.file = f
    BY JournalAssumption DEF Job
  <2>2. /\ UNCHANGED <<journals, files, saved, executed, crashes, mode>>
        /\ mode = "up" /\ pc[t] = "idle" /\ job' = [job EXCEPT ![t] = start]
        /\ clock' \in Nat /\ recoveries' \in 0..MaxRecoveries
        /\ todo' \in [Threads -> SUBSET (1..Len(journals))]
        /\ contested' \in SUBSET (1..Len(journals))
    BY <1>2 DEF Begin, TypeOK
  <2>3. holder' \in [Files -> Threads \union {Nobody}]
        /\ creator' \in Threads \union {Nobody}
    BY <1>2, <1>t DEF Begin, EnterCreate, EnterExisting, TypeOK
  <2>4. PICK pct \in {"stamp", "lock"} :
          /\ pc' = [pc EXCEPT ![t] = pct]
          /\ op # "create" => Exists(f)
    BY <1>2 DEF Begin, EnterExisting, Goto
  <2>5. Phase'
    BY <2>2, <2>4, <1>t DEF Phase
  <2>6. Solo => Alone'
    BY <2>2, <2>4, <1>t DEF Alone, Solo, TypeOK, Threads, Phase
  <2>7. 0 \in 0..Len(journals) /\ pct \in PCs
    BY <2>4, LenProperties DEF PCs, TypeOK
  <2> HIDE DEF TypeInv, start
  <2> QED BY <2>1, <2>2, <2>3, <2>4, <2>5, <2>6, <2>7, <1>t, TypeMove
<1> QED BY <1>1, <1>2 DEF Command

\* A log that grows by one entry keeps every position valid.
LEMMA TypeLog ==
  ASSUME TypeInv, NEW t \in Threads, Log(t)
  PROVE  TypeInv'
<1> USE DEF TypeInv
<1> DEFINE n == Len(journals)
           e == [op |-> job[t].op, file |-> job[t].file, bar |-> job[t].bar,
                 time |-> job[t].time, committed |-> FALSE]
<1>1. job[t] \in Job /\ n \in Nat /\ pc[t] = "log" /\ job[t].op \in Ops
  BY LenProperties DEF Working, KnownOps, TypeOK, Log
<1>2. e \in Entry /\ e.op \in Ops
  BY <1>1 DEF Job, Entry
<1>3. /\ journals' = Append(journals, e) /\ job' = [job EXCEPT ![t].pos = n + 1]
      /\ pc' = [pc EXCEPT ![t] = "execute"]
      /\ UNCHANGED <<mode, clock, todo, holder, creator, files, saved, executed, crashes,
                     recoveries, contested>>
  BY DEF Log, Goto
<1> HIDE DEF e
<1>4. /\ journals' \in Seq(Entry) /\ Len(journals') = n + 1
      /\ \A i \in 1..n : journals'[i] = journals[i]
      /\ journals'[n + 1] = e
  BY <1>2, <1>3, AppendProperties DEF TypeOK
<1>5. job'[t] \in Job /\ job'[t].pos = n + 1 /\ job'[t].op = job[t].op
      /\ job'[t].file = job[t].file /\ job' \in [Threads -> Job \union {NoJob}]
      /\ \A u \in Threads : u # t => job'[u] = job[u]
  <2>1. job'[t] = [job[t] EXCEPT !.pos = n + 1] /\ \A u \in Threads : u # t => job'[u] = job[u]
    BY <1>3 DEF TypeOK
  <2>2. job'[t] \in Job /\ job'[t].pos = n + 1 /\ job'[t].op = job[t].op
        /\ job'[t].file = job[t].file
    BY <2>1, <1>1 DEF Job
  <2> QED BY <1>3, <2>1, <2>2 DEF TypeOK
<1>6. pc' \in [Threads -> PCs] /\ pc'[t] = "execute"
      /\ \A u \in Threads : u # t => pc'[u] = pc[u]
  BY <1>3 DEF TypeOK, PCs
<1>7. /\ 1..n \subseteq 1..Len(journals') /\ 0..n \subseteq 0..Len(journals')
      /\ n + 1 \in 0..Len(journals') /\ n + 1 # 0
      /\ \A i \in 1..Len(journals') : i \in 1..n \/ i = n + 1
  BY <1>1, <1>4
<1>t. TypeOK'
  <2>1. \A u \in Threads : job'[u].pos \in 0..Len(journals')
    BY <1>5, <1>7 DEF TypeOK
  <2>2. /\ \A s \in Seq(1..n) : s \in Seq(1..Len(journals'))
    BY <1>7
  <2>3. files' \in [Files -> Seq(1..Len(journals'))]
    BY <2>2, <1>3 DEF TypeOK
  <2>4. saved' \in [Files -> Seq(1..Len(journals'))]
    BY <2>2, <1>3 DEF TypeOK
  <2>5. todo' \in [Threads -> SUBSET (1..Len(journals'))] /\ executed' \in SUBSET (1..Len(journals'))
    BY <1>7, <1>3 DEF TypeOK
  <2> QED BY <2>1, <2>3, <2>4, <2>5, <1>3, <1>4, <1>5, <1>6 DEF TypeOK
<1>8. Working' /\ Positioned'
  BY <1>3, <1>5, <1>6, <1>7 DEF Working, Positioned, Logged
<1>9. KnownOps'
  BY <1>1, <1>2, <1>4, <1>5, <1>6, <1>7 DEF KnownOps
<1>10. Phase'
  BY <1>1, <1>3, <1>6 DEF Phase, AllIdle, Threads
<1>11. Solo => Alone'
  BY <1>1, <1>6 DEF Alone
<1>12. Present'
  BY <1>1, <1>3, <1>5, <1>6 DEF Present, Exists
<1> QED BY <1>t, <1>8, <1>9, <1>10, <1>11, <1>12 DEF Solo

\* What Effect makes of a file: contents that are not empty, unless it
\* deletes; an overwrite needs contents to overwrite.
LEMMA EffectShape ==
  ASSUME NEW S, NEW pos \in S, NEW contents \in Seq(S), NEW op \in Operations,
         op = "write" => contents # Absent
  PROVE  /\ Effect(op, pos, contents) \in Seq(S)
         /\ op # "delete" => Effect(op, pos, contents) # Absent
<1>1. CASE op = "create"
  <2>1. Effect(op, pos, contents) = <<pos>>
    BY <1>1 DEF Effect
  <2> QED BY <2>1 DEF Absent
<1>2. CASE op = "delete"
  BY <1>2 DEF Effect, Absent
<1>3. CASE op = "append"
  <2>1. Append(contents, pos) \in Seq(S) /\ Append(contents, pos) # << >>
    BY AppendProperties
  <2> QED BY <1>3, <2>1 DEF Effect, Absent
<1>4. CASE op = "write"
  <2>1. contents[1] \in S
    BY <1>4, EmptySeq, ElementOfSeq, LenProperties DEF Absent
  <2> QED BY <1>4, <2>1 DEF Effect, Absent
<1> QED BY <1>1, <1>2, <1>3, <1>4 DEF Operations

\* The disk work of an operation: only a delete takes a file away, and with
\* a delete there is one terminal, so nobody else is at work.
LEMMA TypeExecute ==
  ASSUME TypeInv, NEW t \in Threads, Execute(t)
  PROVE  TypeInv'
<1> USE DEF TypeInv
<1> DEFINE f == job[t].file
           new == Effect(job[t].op, job[t].pos, files[f])
<1>1. /\ pc[t] = "execute" /\ pc' = [pc EXCEPT ![t] = "commit"]
      /\ executed' = executed \union {job[t].pos}
      /\ UNCHANGED <<mode, clock, journals, job, todo, holder, creator, saved, crashes,
                     recoveries, contested>>
  BY DEF Execute, Goto
<1>2. job[t] \in Job /\ job[t].pos \in 1..Len(journals) /\ f \in Files
      /\ job[t].op \in Operations /\ job[t].op \in Ops
  <2>1. job[t] \in Job /\ job[t].op \in Ops /\ job[t].pos # 0
    BY <1>1 DEF Working, Positioned, Logged, KnownOps
  <2>2. job[t].pos \in 0..Len(journals) /\ Len(journals) \in Nat
    BY LenProperties DEF TypeOK
  <2> QED BY <2>1, <2>2 DEF Job
<1>3. files[f] \in Seq(1..Len(journals)) /\ (job[t].op # "create" => files[f] # Absent)
  BY <1>1, <1>2 DEF TypeOK, Present, Exists
<1>4. new \in Seq(1..Len(journals)) /\ (job[t].op # "delete" => new # Absent)
  BY <1>2, <1>3, EffectShape
<1>5. files' = [files EXCEPT ![f] = new]
  BY DEF Execute
<1> HIDE DEF new
<1>6. TypeOK'
  BY <1>1, <1>2, <1>4, <1>5 DEF TypeOK, PCs
<1>7. Working' /\ Positioned' /\ KnownOps'
  BY <1>1 DEF Working, Positioned, Logged, KnownOps, TypeOK
<1>8. Phase'
  BY <1>1 DEF Phase, AllIdle, Threads, TypeOK
<1>9. Solo => Alone'
  BY <1>1 DEF Alone, TypeOK
<1>10. Present'
  <2> SUFFICES ASSUME NEW u \in Threads, pc'[u] \in {"lock", "stamp", "log", "execute"},
                      job'[u].op # "create"
               PROVE  files'[job'[u].file] # Absent
    BY DEF Present, Exists
  <2>1. u # t /\ pc'[u] = pc[u] /\ job'[u] = job[u] /\ files[job[u].file] # Absent
    BY <1>1 DEF Present, Exists, TypeOK
  <2>2. CASE job[t].op = "delete"
    <3>1. Solo
      BY <2>2, <1>2, JournalAssumption DEF Solo
    <3> QED BY <3>1, <2>1, <1>1 DEF Alone
  <2>3. CASE job[t].op # "delete"
    BY <2>3, <2>1, <1>4, <1>5 DEF TypeOK
  <2> QED BY <2>2, <2>3
<1> QED BY <1>6, <1>7, <1>8, <1>9, <1>10 DEF Solo

\* Marking, and giving the locks back.
LEMMA TypeCommit ==
  ASSUME TypeInv, NEW t \in Threads, Commit(t)
  PROVE  TypeInv'
<1> USE DEF TypeInv
<1> DEFINE n == Len(journals)
           pct == IF job[t].replay THEN "recover" ELSE "idle"
<1>1. /\ pc[t] = "commit" /\ pc' = [pc EXCEPT ![t] = pct]
      /\ journals' = Marked(job[t].time)
      /\ job' = [job EXCEPT ![t] = NoJob]
      /\ UNCHANGED <<mode, clock, todo, files, saved, executed, crashes, recoveries,
                     contested>>
  BY DEF Commit, Goto
<1>2. /\ journals' \in Seq(Entry) /\ Len(journals') = n
      /\ \A i \in 1..n : journals'[i].op = journals[i].op
  BY <1>1, MarkedShape DEF TypeOK
<1>3. holder' \in [Files -> Threads \union {Nobody}] /\ creator' \in Threads \union {Nobody}
  BY DEF Commit, TypeOK
<1>4. pct \in {"recover", "idle"} /\ (pct = "idle" <=> ~job[t].replay)
  OBVIOUS
<1> HIDE DEF pct
<1>5. TypeOK'
  <2>1. pc' \in [Threads -> PCs] /\ job' \in [Threads -> Job \union {NoJob}]
    BY <1>1, <1>4 DEF TypeOK, PCs
  <2>2. \A u \in Threads : job'[u].pos \in 0..n
    BY <1>1, LenProperties DEF TypeOK, NoJob
  <2> QED BY <1>1, <1>2, <1>3, <2>1, <2>2 DEF TypeOK
<1>6. Working' /\ Positioned'
  BY <1>1, <1>4 DEF Working, Positioned, Logged, TypeOK
<1>7. KnownOps'
  BY <1>1, <1>2, <1>4 DEF KnownOps, TypeOK
<1>8. Phase'
  BY <1>1, <1>4 DEF Phase, AllIdle, TypeOK, Threads
<1>9. Solo => Alone'
  BY <1>1 DEF Alone, TypeOK
<1>10. Present'
  BY <1>1, <1>4 DEF Present, TypeOK, Exists
<1> QED BY <1>5, <1>6, <1>7, <1>8, <1>9, <1>10 DEF Solo

\* Stopping, dying and booting.
LEMMA TypeStop ==
  ASSUME TypeInv, Shutdown \/ Kill \/ Boot
  PROVE  TypeInv'
<1> USE DEF TypeInv
<1>1. ASSUME Stop, mode' = "down", crashes' \in 0..MaxCrashes,
             files' \in [Files -> Seq(1..Len(journals))],
             saved' \in [Files -> Seq(1..Len(journals))]
      PROVE  TypeInv'
  <2>1. TypeOK'
    BY <1>1, LenProperties DEF Stop, TypeOK, PCs, NoJob
  <2>2. Working' /\ Positioned' /\ KnownOps' /\ Phase' /\ Alone' /\ Present'
    BY <1>1 DEF Stop, Working, Positioned, Logged, KnownOps, Phase, AllIdle, Alone, Present
  <2> QED BY <2>1, <2>2
<1>2. CASE Shutdown
  BY <1>1, <1>2 DEF Shutdown, Stop, TypeOK
<1>3. CASE Kill
  <2>1. Stop /\ mode' = "down" /\ crashes' \in 0..MaxCrashes /\ saved' = saved
    BY <1>3, JournalAssumption DEF Kill, Stop, TypeOK
  <2>2. PICK lost \in SUBSET Files, old \in SUBSET Files :
          files' = [f \in Files |-> IF saved[f] = Absent \/ f \in lost THEN Absent
                                   ELSE IF f \in old THEN saved[f] ELSE files[f]]
    BY <1>3 DEF Kill
  <2>3. Absent \in Seq(1..Len(journals))
    BY DEF Absent
  <2>4. files' \in [Files -> Seq(1..Len(journals))]
    BY <2>2, <2>3 DEF TypeOK
  <2> QED BY <1>1, <2>1, <2>4 DEF TypeOK
<1>4. CASE Boot
  <2>1. mode' = "booting" /\ AllIdle /\ Main \in Threads /\ pc' = [pc EXCEPT ![Main] = "recover"]
        /\ UNCHANGED <<clock, journals, job, holder, creator, files, saved, executed,
                       crashes>>
    BY <1>4 DEF Boot, Phase, StartRecovery, Goto, Threads
  <2>2. Phase'
    BY <2>1, JournalAssumption DEF Phase, AllIdle, TypeOK, Threads
  <2>3. Alone'
    BY <2>1 DEF Alone, AllIdle, TypeOK
  <2>4. clock' \in Nat /\ recoveries' \in 0..MaxRecoveries
        /\ todo' \in [Threads -> SUBSET (1..Len(journals))]
    BY <1>4, <2>1, LenProperties, JournalAssumption
       DEF Boot, StartRecovery, Uncommitted, TypeOK
  <2>6. contested' \in SUBSET (1..Len(journals))
    <3>1. Uncommitted \subseteq 1..Len(journals)
      BY LenProperties DEF Uncommitted, TypeOK
    <3>2. contested' \subseteq contested \union Uncommitted
      BY <1>4 DEF Boot, StartRecovery
    <3> QED BY <3>1, <3>2 DEF TypeOK
  <2>5. job' = [job EXCEPT ![Main] = job[Main]] /\ "recover" \in PCs
        /\ job[Main].pos \in 0..Len(journals) /\ job[Main] \in Job \union {NoJob}
        /\ holder' \in [Files -> Threads \union {Nobody}] /\ creator' \in Threads \union {Nobody}
    BY <2>1 DEF TypeOK, PCs
  <2> HIDE DEF TypeInv
  <2> QED BY <2>1, <2>2, <2>3, <2>4, <2>5, <2>6, TypeMove
<1> QED BY <1>2, <1>3, <1>4

\* Every step keeps the types.
LEMMA NextTypeInv ==
  ASSUME TypeInv, [Next]_vars
  PROVE  TypeInv'
<1>1. CASE UNCHANGED vars
  BY <1>1 DEF vars, TypeInv, TypeOK, Working, Positioned, Logged, KnownOps, Phase, AllIdle,
     Alone, Present, Exists
<1>2. ASSUME NEW t \in Threads, ThreadStep(t) PROVE TypeInv'
  BY <1>2, TypeMoves, TypeLog, TypeExecute, TypeCommit DEF ThreadStep
<1>3. ASSUME NEW t \in Terminals, Command(t) PROVE TypeInv'
  BY <1>3, TypeLogin
<1>4. CASE Shutdown \/ Kill \/ Boot
  BY <1>4, TypeStop
<1> QED BY <1>1, <1>2, <1>3, <1>4 DEF Next

\* The types of the journal's state, for all constants: an overwrite or an
\* append is never executed on a file that is not there, and a handler knows
\* the position of the entry it logged.
THEOREM TypeCorrect == Spec => []TypeOK
<1>1. TypeInv => TypeOK
  BY DEF TypeInv
<1> QED BY <1>1, InitTypeInv, NextTypeInv, PTL DEF Spec

-----------------------------------------------------------------------------
(* The binary search of markCommitted.                                     *)

Ranges == (1..Len(journals) + 1) \X (0..Len(journals))
Middle(r) == (r[1] - 1 + r[2] - 1) \div 2 + 1
SearchStep(s, t, r) ==
  IF r[1] > r[2] THEN {}
  ELSE {Middle(r)} \union
       (IF journals[Middle(r)].time = t THEN {}
        ELSE IF journals[Middle(r)].time < t THEN s[<<Middle(r) + 1, r[2]>>]
        ELSE s[<<r[1], Middle(r) - 1>>])
Short(d) == {r \in Ranges : r[2] - r[1] + 1 <= d}

\* Once the recursion has a solution, Probed is a solution's value at the
\* whole log.
LEMMA SearchUnfold ==
  ASSUME NEW t, \E s : s = [r \in Ranges |-> SearchStep(s, t, r)]
  PROVE \E s : /\ s = [r \in Ranges |-> SearchStep(s, t, r)]
               /\ Probed(t) = s[<<1, Len(journals)>>]
BY DEF Probed, SearchStep, Middle, Ranges

\* The middle of a range that is not empty lies in it.
LEMMA MiddleBetween ==
  ASSUME NEW low \in Nat, NEW high \in Nat, low >= 1, low <= high
  PROVE  Middle(<<low, high>>) \in low..high
BY DEF Middle

\* Both halves of a range are ranges, and shorter.
LEMMA Halves ==
  ASSUME NEW d \in Nat, NEW r \in Short(d + 1), Len(journals) \in Nat, r[1] <= r[2]
  PROVE  /\ <<Middle(r) + 1, r[2]>> \in Short(d)
         /\ <<r[1], Middle(r) - 1>> \in Short(d)
         /\ Middle(r) \in r[1]..r[2]
<1>1. PICK low \in 1..Len(journals) + 1, high \in 0..Len(journals) : r = <<low, high>> 
  BY DEF Short, Ranges
<1>2. high - low + 1 <= d + 1 /\ low <= high
  BY <1>1 DEF Short
<1>3. PICK mid \in low..high : mid = Middle(r)
  BY <1>1, <1>2, MiddleBetween
<1>4. mid + 1 \in 1..Len(journals) + 1 /\ mid - 1 \in 0..Len(journals)
      /\ high - (mid + 1) + 1 <= d /\ (mid - 1) - low + 1 <= d
  BY <1>1, <1>2, <1>3
<1>5. <<mid + 1, high>> \in Short(d) /\ <<low, mid - 1>> \in Short(d)
  BY <1>1, <1>4 DEF Short, Ranges
<1> QED BY <1>1, <1>3, <1>5

\* The recursion of the search has a solution, by induction on the length
\* of the range.
LEMMA SearchExists ==
  ASSUME NEW t, Len(journals) \in Nat
  PROVE  \E s : s = [r \in Ranges |-> SearchStep(s, t, r)]
<1> DEFINE P == {d \in Nat : \E s : s = [r \in Short(d) |-> SearchStep(s, t, r)]}
<1>1. 0 \in P
  <2> DEFINE s == [r \in Short(0) |-> {}]
  <2>1. \A r \in Short(0) : SearchStep(s, t, r) = {}
    BY DEF Short, Ranges, SearchStep
  <2>2. s = [r \in Short(0) |-> SearchStep(s, t, r)]
    BY <2>1
  <2> QED BY <2>2
<1>2. ASSUME NEW d \in Nat, d \in P PROVE d + 1 \in P
  <2>1. PICK g : g = [r \in Short(d) |-> SearchStep(g, t, r)]
    BY <1>2
  <2> DEFINE h == [r \in Short(d + 1) |-> SearchStep(g, t, r)]
  <2>2. \A r \in Short(d) : r \in Short(d + 1) /\ h[r] = g[r]
    BY <2>1 DEF Short, Ranges
  <2>3. ASSUME NEW r \in Short(d + 1) PROVE SearchStep(g, t, r) = SearchStep(h, t, r)
    <3>1. CASE r[1] > r[2]
      BY <3>1 DEF SearchStep
    <3>2. CASE ~(r[1] > r[2])
      <4>1. r[1] <= r[2]
        BY <3>2 DEF Short, Ranges
      <4>2. <<Middle(r) + 1, r[2]>> \in Short(d) /\ <<r[1], Middle(r) - 1>> \in Short(d)
        BY <4>1, Halves
      <4> HIDE DEF h
      <4>3. h[<<Middle(r) + 1, r[2]>>] = g[<<Middle(r) + 1, r[2]>>]
            /\ h[<<r[1], Middle(r) - 1>>] = g[<<r[1], Middle(r) - 1>>]
        BY <4>2, <2>2
      <4> QED BY <4>3 DEF SearchStep
    <3> QED BY <3>1, <3>2
  <2>4. h = [r \in Short(d + 1) |-> SearchStep(h, t, r)]
    BY <2>3
  <2> HIDE DEF h
  <2> QED BY <2>4
<1> HIDE DEF P
<1>3. Len(journals) \in P
  BY <1>1, <1>2, NatInd
<1>4. Short(Len(journals)) = Ranges
  BY DEF Short, Ranges
<1> QED BY <1>3, <1>4 DEF P

\* The binary search of markCommitted (journaling.cpp 71-99) finds the entry
\* whose timestamp it looks for in every log sorted by time, however long.
LEMMA SearchFinds ==
  ASSUME journals \in Seq(Entry), NEW k \in 1..Len(journals),
         \A i, j \in 1..Len(journals) : i < j => journals[i].time < journals[j].time
  PROVE  k \in Probed(journals[k].time)
<1> DEFINE n == Len(journals)
           t == journals[k].time
<1>1. n \in Nat /\ \A i \in 1..n : journals[i].time \in Nat
  <2>1. \A i \in 1..n : journals[i] \in Entry
    BY ElementOfSeq
  <2> QED BY <2>1, LenProperties DEF Entry
<1> HIDE DEF t
<1>2. PICK s : s = [r \in Ranges |-> SearchStep(s, t, r)] /\ Probed(t) = s[<<1, n>>]
  <2>1. \E s : s = [r \in Ranges |-> SearchStep(s, t, r)]
    BY <1>1, SearchExists
  <2> QED BY <2>1, SearchUnfold
<1>t. t = journals[k].time
  BY DEF t
<1> DEFINE P == {d \in Nat : \A r \in Short(d) : k \in r[1]..r[2] => k \in s[r]}
<1>3. 0 \in P
  <2>1. ASSUME NEW r \in Short(0) PROVE k \notin r[1]..r[2]
    BY <1>1 DEF Short, Ranges
  <2> QED BY <2>1
<1>4. ASSUME NEW d \in Nat, d \in P PROVE d + 1 \in P
  <2> SUFFICES ASSUME NEW r \in Short(d + 1), k \in r[1]..r[2] PROVE k \in s[r]
    OBVIOUS
  <2> DEFINE mid == Middle(r)
  <2>1. r \in Ranges /\ r[1] \in Nat /\ r[2] \in Nat /\ r[1] >= 1 /\ r[2] <= n /\ r[1] <= r[2]
    BY <1>1 DEF Short, Ranges
  <2>2. /\ <<mid + 1, r[2]>> \in Short(d) /\ <<r[1], mid - 1>> \in Short(d)
        /\ mid \in r[1]..r[2]
    BY <1>1, <2>1, Halves
  <2> HIDE DEF mid
  <2>3. mid \in 1..n
    BY <1>1, <2>1, <2>2
  <2>4. s[r] = {mid} \union
               (IF journals[mid].time = t THEN {}
                ELSE IF journals[mid].time < t THEN s[<<mid + 1, r[2]>>]
                ELSE s[<<r[1], mid - 1>>])
    <3>1. s[r] = SearchStep(s, t, r)
      BY <1>2, <2>1
    <3>2. ~(r[1] > r[2])
      BY <2>1
    <3> QED BY <3>1, <3>2 DEF SearchStep, mid
  <2>5. CASE mid = k
    BY <2>4, <2>5
  <2>6. CASE mid < k
    <3>1. journals[mid].time < t /\ k \in (mid + 1)..r[2]
      BY <2>1, <2>2, <2>3, <2>6, <1>t
    <3>2. k \in s[<<mid + 1, r[2]>>]
      BY <3>1, <2>2, <1>4
    <3> QED BY <3>1, <3>2, <2>4, <1>1, <2>3, <1>t
  <2>7. CASE mid > k
    <3>1. journals[mid].time > t /\ k \in r[1]..(mid - 1)
      BY <2>1, <2>2, <2>3, <2>7, <1>1, <1>t
    <3>2. k \in s[<<r[1], mid - 1>>]
      BY <3>1, <2>2, <1>4
    <3> QED BY <3>1, <3>2, <2>4, <1>1, <2>3, <1>t
  <2> QED BY <2>5, <2>6, <2>7, <2>2, <2>1
<1> HIDE DEF P
<1>5. n \in P
  BY <1>1, <1>3, <1>4, NatInd
<1>6. <<1, n>> \in Short(n)
  BY <1>1 DEF Short, Ranges
<1>7. k \in s[<<1, n>>]
  BY <1>5, <1>6 DEF P
<1> QED BY <1>2, <1>7, <1>t

-----------------------------------------------------------------------------
(* What is marked is not done again; what is not marked is under way.      *)

LEMMA MarkedOwn ==
  ASSUME journals \in Seq(Entry), NEW k \in 1..Len(journals),
         \A i, j \in 1..Len(journals) : i < j => journals[i].time < journals[j].time
  PROVE  Marked(journals[k].time)[k].committed
<1>1. DOMAIN journals = 1..Len(journals) /\ \A i \in 1..Len(journals) : journals[i] \in Entry
  BY ElementOfSeq, LenProperties
<1>2. k \in Probed(journals[k].time)
  BY SearchFinds
<1>3. /\ Marked(journals[k].time)[k] = [journals[k] EXCEPT !.committed = TRUE]
  BY <1>1, <1>2 DEF Marked
<1> QED BY <1>1, <1>3 DEF Entry

\* No flag is ever taken back.
LEMMA MarksStay ==
  ASSUME journals \in Seq(Entry), NEW time, NEW i \in 1..Len(journals), journals[i].committed
  PROVE  Marked(time)[i].committed
<1>1. DOMAIN journals = 1..Len(journals) /\ journals[i] \in Entry
  BY ElementOfSeq, LenProperties
<1> QED BY <1>1 DEF Marked, Entry

\* A thread has a position only at an operation that is logged, and that is not
\* on its list again.
Freed == \A t \in Threads : Logged(t) \/ job[t].pos = 0
OnceEach == \A t \in Threads : job[t].pos \notin todo[t]
\* At an entry no recovery has copied from others there is one thread at most,
\* and unless it shares its stamp it is not committed as long as somebody is there.
AtOnce ==
  \A i \in 1..Len(journals) : i \notin contested =>
    \A t, u \in Threads : At(t, i) /\ At(u, i) => t = u
Open ==
  \A i \in 1..Len(journals) : i \notin contested /\ Unique(i) =>
    \A t \in Threads : At(t, i) => ~journals[i].committed
\* As long as nothing crashed, an uncommitted entry of a sorted log belongs to an
\* operation under way.
Pending ==
  crashes = 0 /\ Sorted =>
    \A i \in 1..Len(journals) :
      journals[i].committed \/ \E t \in Threads : Logged(t) /\ job[t].pos = i

OwnInv == Freed /\ OnceEach /\ AtOnce /\ Open /\ Pending

\* It holds at the start.
LEMMA InitOwnInv == Init => OwnInv
<1> SUFFICES ASSUME Init PROVE OwnInv
  OBVIOUS
<1>1. Len(journals) = 0
  BY DEF Init
<1> QED BY <1>1 DEF Init, OwnInv, Freed, OnceEach, AtOnce, Open, Pending, NoJob

\* A step that leaves the log alone and moves one thread, to entries it was at or
\* to ones nobody else is at.
LEMMA OwnMove ==
  ASSUME OwnInv, NEW t \in Threads, UNCHANGED <<journals, crashes>>,
         contested \subseteq contested',
         \A u \in Threads : u # t =>
           pc'[u] = pc[u] /\ job'[u] = job[u] /\ todo'[u] = todo[u],
         Logged(t)' \/ job'[t].pos = 0,
         job'[t].pos \notin todo'[t],
         \A i \in 1..Len(journals) : At(t, i)' =>
           \/ At(t, i)
           \/ i \in contested'
           \/ ~journals[i].committed /\ \A u \in Threads : ~At(u, i),
         crashes = 0 /\ Logged(t) => Logged(t)' /\ job'[t].pos = job[t].pos
  PROVE  OwnInv'
<1> USE DEF OwnInv
<1>0. \A u \in Threads, i \in 1..Len(journals) : u # t => (At(u, i)' <=> At(u, i))
  BY DEF At
<1>1. Freed'
  BY DEF Freed, Logged
<1>2. OnceEach'
  BY DEF OnceEach
<1>3. AtOnce'
  BY <1>0 DEF AtOnce
<1>4. Open'
  BY <1>0 DEF Open, Unique
<1>6. Pending'
  <2> SUFFICES ASSUME crashes = 0, Sorted, NEW i \in 1..Len(journals), ~journals[i].committed
               PROVE  \E u \in Threads : Logged(u)' /\ job'[u].pos = i
    BY DEF Pending, Sorted
  <2>1. PICK u \in Threads : Logged(u) /\ job[u].pos = i
    BY DEF Pending
  <2> QED BY <2>1 DEF Logged
<1> QED BY <1>1, <1>2, <1>3, <1>4, <1>6

\* The steps of a thread that leave the log alone.
LEMMA OwnQuiet ==
  ASSUME OwnInv, IInv, NEW t \in Threads,
         \/ Lock(t) \/ Stamp(t) \/ Execute(t) \/ Recovered(t)
         \/ (\E i \in todo[t] : ReplayEntry(t, i))
  PROVE  OwnInv'
<1>a. /\ pc \in [Threads -> PCs] /\ job \in [Threads -> Job \union {NoJob}]
      /\ todo \in [Threads -> SUBSET (1..Len(journals))]
  BY DEF IInv, Typing
<1>b. (Logged(t) \/ job[t].pos = 0) /\ job[t].pos \notin todo[t]
  BY DEF OwnInv, Freed, OnceEach
<1> USE <1>a, <1>b
<1>1. CASE Lock(t)
  BY <1>1, OwnMove DEF Lock, Goto, Logged, At
<1>2. CASE Stamp(t)
  <2>1. /\ pc[t] = "stamp" /\ pc'[t] = "log" /\ UNCHANGED <<journals, crashes, todo, contested>>
        /\ \A u \in Threads : u # t => pc'[u] = pc[u]
    BY <1>2 DEF Stamp, Goto
  <2>2. job'[t].pos = job[t].pos /\ \A u \in Threads : u # t => job'[u] = job[u]
    <3>1. job[t] \in Job /\ job' = [job EXCEPT ![t].time = clock']
      BY <1>2, <2>1 DEF Stamp, IInv, Working
    <3> QED BY <3>1 DEF Job
  <2> QED BY <2>1, <2>2, OwnMove DEF Logged, At
<1>3. CASE Execute(t)
  BY <1>3, OwnMove DEF Execute, Goto, Logged, At
<1>4. CASE Recovered(t)
  BY <1>4, OwnMove DEF Recovered, Goto, Logged, At
<1>5. ASSUME NEW i \in todo[t], ReplayEntry(t, i) PROVE OwnInv'
  <2> DEFINE e == journals[i]
             start == [op |-> e.op, file |-> e.file, bar |-> e.bar,
                       time |-> e.time, pos |-> i, replay |-> TRUE]
  <2>1. pc[t] = "recover" /\ UNCHANGED <<journals, crashes, contested>>
        /\ todo' = [todo EXCEPT ![t] = @ \ {i}] /\ ~Logged(t)
    BY <1>5 DEF ReplayEntry, Logged
  <2>2. start.pos = i /\ start.replay
    OBVIOUS
  <2>3. \/ UNCHANGED <<pc, job>>
        \/ job' = [job EXCEPT ![t] = start] /\ pc' = [pc EXCEPT ![t] = "execute"]
        \/ job' = [job EXCEPT ![t] = start] /\ pc' = [pc EXCEPT ![t] = "lock"]
    BY <1>5 DEF ReplayEntry, Goto
  <2> HIDE DEF start
  <2>4. /\ \A u \in Threads : u # t =>
             pc'[u] = pc[u] /\ job'[u] = job[u] /\ todo'[u] = todo[u]
        /\ todo'[t] = todo[t] \ {i} /\ job'[t].pos \in {job[t].pos, i}
    BY <2>1, <2>2, <2>3
  <2>5. \A k \in 1..Len(journals) : At(t, k)' => At(t, k)
    BY <2>4 DEF At
  <2>6. (Logged(t)' \/ job'[t].pos = 0) /\ job'[t].pos \notin todo'[t]
    BY <2>1, <2>2, <2>3, <2>4 DEF Logged
  <2> QED BY <2>1, <2>4, <2>5, <2>6, OwnMove
<1> QED BY <1>1, <1>2, <1>3, <1>4, <1>5

\* Nobody but its thread is at a new entry.
LEMMA OwnLog ==
  ASSUME OwnInv, TypeInv, IInv, NEW t \in Threads, Log(t)
  PROVE  OwnInv'
<1> USE DEF OwnInv
<1> DEFINE n == Len(journals)
           e == [op |-> job[t].op, file |-> job[t].file, bar |-> job[t].bar,
                 time |-> job[t].time, committed |-> FALSE]
<1>1. n \in Nat /\ pc[t] = "log" /\ job[t] \in Job /\ journals \in Seq(Entry)
  BY LenProperties DEF Log, IInv, Typing, Working
<1>2. e \in Entry /\ ~e.committed
  BY <1>1 DEF Job, Entry
<1>3. /\ journals' = Append(journals, e) /\ job' = [job EXCEPT ![t].pos = n + 1]
      /\ pc' = [pc EXCEPT ![t] = "execute"] /\ UNCHANGED <<todo, crashes, contested>>
  BY DEF Log, Goto
<1> HIDE DEF e
<1>4. /\ journals' \in Seq(Entry) /\ Len(journals') = n + 1 /\ journals'[n + 1] = e
      /\ \A i \in 1..n : journals'[i] = journals[i]
  BY <1>1, <1>2, <1>3, AppendProperties
<1>5. /\ job'[t].pos = n + 1 /\ pc'[t] = "execute"
      /\ \A u \in Threads : u # t => job'[u] = job[u] /\ pc'[u] = pc[u]
  BY <1>1, <1>3 DEF IInv, Typing, Job
<1>6. \A i \in 1..Len(journals') : i \in 1..n \/ i = n + 1
  BY <1>1, <1>4
<1>7. \A u \in Threads : /\ todo'[u] = todo[u] /\ n + 1 \notin todo[u]
                         /\ job[u].pos # n + 1
  <2>1. \A u \in Threads : todo[u] \subseteq 1..n /\ job[u].pos \in 0..n
    BY DEF TypeInv, TypeOK
  <2> QED BY <2>1, <1>1, <1>3
<1>8. \A i \in 1..n : i # n + 1 /\ (Unique(i)' => Unique(i))
  <2>1. Len(journals) <= Len(journals') /\ \A j \in 1..Len(journals) : journals'[j].time = journals[j].time
    BY <1>1, <1>4
  <2> QED BY <1>1, <1>4, <2>1, UniqueBefore
<1>9. \A u \in Threads, i \in 1..n : At(u, i)' => At(u, i)
  BY <1>5, <1>7, <1>8 DEF At
<1>s. Sorted' => Sorted
  <2>1. /\ DOMAIN journals = 1..n /\ DOMAIN journals' = 1..Len(journals')
        /\ \A i \in 1..n : i \in 1..Len(journals')
    BY <1>1, <1>4, LenProperties
  <2> QED BY <2>1, <1>4 DEF Sorted
<1>n. n = Len(journals)
  OBVIOUS
<1> HIDE DEF n
<1>10. Freed'
  BY <1>5 DEF Freed, Logged
<1>11. OnceEach'
  BY <1>5, <1>7 DEF OnceEach
<1>12. AtOnce'
  <2> SUFFICES ASSUME NEW i \in 1..Len(journals'), i \notin contested,
                      NEW u \in Threads, NEW v \in Threads, At(u, i)', At(v, i)'
               PROVE  u = v
    BY <1>3 DEF AtOnce
  <2>1. CASE i \in 1..n
    BY <2>1, <1>9, <1>n DEF AtOnce
  <2>2. CASE i = n + 1
    BY <2>2, <1>5, <1>7 DEF At
  <2> QED BY <2>1, <2>2, <1>6
<1>13. Open'
  <2> SUFFICES ASSUME NEW i \in 1..Len(journals'), i \notin contested, Unique(i)',
                      NEW u \in Threads, At(u, i)'
               PROVE  ~journals'[i].committed
    BY <1>3 DEF Open
  <2>1. CASE i \in 1..n
    BY <2>1, <1>4, <1>8, <1>9, <1>n DEF Open
  <2>2. CASE i = n + 1
    BY <2>2, <1>2, <1>4
  <2> QED BY <2>1, <2>2, <1>6
<1>14. Pending'
  <2> SUFFICES ASSUME crashes = 0, Sorted, NEW i \in 1..Len(journals'), ~journals'[i].committed
               PROVE  \E u \in Threads : Logged(u)' /\ job'[u].pos = i
    BY <1>3, <1>s DEF Pending
  <2>1. CASE i \in 1..n
    <3>1. PICK u \in Threads : Logged(u) /\ job[u].pos = i
      BY <2>1, <1>4, <1>n DEF Pending
    <3> QED BY <3>1, <1>1, <1>5 DEF Logged
  <2>2. CASE i = n + 1
    BY <2>2, <1>5 DEF Logged
  <2> QED BY <2>1, <2>2, <1>6
<1> QED BY <1>10, <1>11, <1>12, <1>13, <1>14

\* What is marked has the stamp of the operation: it is the thread's own entry,
\* or shares its stamp.  In a sorted log the own entry is marked.
LEMMA OwnCommit ==
  ASSUME OwnInv, IInv, NEW t \in Threads, Commit(t)
  PROVE  OwnInv'
<1> USE DEF OwnInv
<1> DEFINE n == Len(journals)
           k == job[t].pos
<1>1. /\ pc[t] = "commit" /\ journals' = Marked(job[t].time)
      /\ job' = [job EXCEPT ![t] = NoJob]
      /\ pc' = [pc EXCEPT ![t] = IF job[t].replay THEN "recover" ELSE "idle"]
      /\ UNCHANGED <<todo, crashes, contested>>
  BY DEF Commit, Goto
<1>2. /\ journals \in Seq(Entry) /\ k \in 1..n /\ journals[k].time = job[t].time
      /\ k \notin todo[t] /\ DOMAIN journals = 1..n
  BY <1>1, LenProperties DEF IInv, Typing, Placed, Logged, OnceEach
<1>4. /\ journals' \in Seq(Entry) /\ Len(journals') = n /\ DOMAIN journals' = 1..n
      /\ \A i \in 1..n : /\ journals'[i].time = journals[i].time
                         /\ journals'[i].committed =>
                              (journals[i].committed \/ journals[i].time = job[t].time)
                         /\ journals[i].committed => journals'[i].committed
  BY <1>1, <1>2, MarkedShape, MarksStay, LenProperties
<1>5. Sorted => journals'[k].committed
  BY <1>1, <1>2, MarkedOwn DEF Sorted
<1>7. /\ job'[t].pos = 0 /\ ~Logged(t)'
      /\ \A u \in Threads : /\ u # t => job'[u] = job[u] /\ pc'[u] = pc[u]
                            /\ todo'[u] = todo[u] /\ todo[u] \subseteq 1..n
  BY <1>1 DEF IInv, Typing, NoJob, Logged
<1>8. /\ \A u \in Threads, i \in 1..n : At(u, i)' => At(u, i)
      /\ At(t, k) /\ job'[t].pos # k /\ k \notin todo'[t]
  <2>1. \A u \in Threads, i \in 1..n : At(u, i)' => At(u, i)
    <3> SUFFICES ASSUME NEW u \in Threads, NEW i \in 1..n, At(u, i)' PROVE At(u, i)
      OBVIOUS
    <3>1. CASE u = t
      BY <3>1, <1>7 DEF At
    <3>2. CASE u # t
      BY <3>2, <1>7 DEF At
    <3> QED BY <3>1, <3>2
  <2>2. At(t, k)
    BY DEF At
  <2>3. job'[t].pos # k /\ k \notin todo'[t]
    BY <1>2, <1>7
  <2> QED BY <2>1, <2>2, <2>3
<1>9. \A i \in 1..n : Unique(i)' => Unique(i)
  BY <1>4, <1>2 DEF Unique
<1>s. Sorted' => Sorted
  BY <1>2, <1>4 DEF Sorted
<1> HIDE DEF n, k
<1>10. Freed'
  BY <1>7 DEF Freed, Logged
<1>11. OnceEach'
  <2>1. 0 \notin 1..n
    OBVIOUS
  <2> QED BY <2>1, <1>7 DEF OnceEach
<1>12. AtOnce'
  BY <1>1, <1>4, <1>8 DEF AtOnce, n
<1>13. Open'
  <2> SUFFICES ASSUME NEW i \in 1..n, i \notin contested, Unique(i)',
                      NEW u \in Threads, At(u, i)', journals'[i].committed
               PROVE  FALSE
    BY <1>1, <1>4 DEF Open
  <2>1. At(u, i) /\ Unique(i) /\ ~journals[i].committed
    BY <1>8, <1>9 DEF Open, n
  <2>2. journals[i].time = journals[k].time
    BY <2>1, <1>2, <1>4
  <2>3. i = k
    BY <2>1, <2>2, <1>2 DEF Unique
  <2>4. At(u, i) /\ At(t, i) /\ i \notin contested
    BY <2>1, <2>3, <1>8
  <2>5. \A x, y \in Threads : At(x, i) /\ At(y, i) => x = y
    BY <2>4 DEF AtOnce, n
  <2>6. u = t
    BY <2>4, <2>5
  <2>7. ~At(u, i)'
    BY <2>3, <2>6, <1>8 DEF At
  <2> QED BY <2>7
<1>14. Pending'
  <2> SUFFICES ASSUME crashes = 0, Sorted, NEW i \in 1..n, ~journals'[i].committed
               PROVE  \E u \in Threads : Logged(u)' /\ job'[u].pos = i
    BY <1>1, <1>4, <1>s DEF Pending
  <2>1. ~journals[i].committed /\ i # k
    BY <1>4, <1>5
  <2>2. PICK u \in Threads : Logged(u) /\ job[u].pos = i
    BY <2>1 DEF Pending, n
  <2>3. u # t
    BY <2>1, <2>2 DEF k
  <2> QED BY <2>2, <2>3, <1>7 DEF Logged
<1> QED BY <1>10, <1>11, <1>12, <1>13, <1>14

\* A recovery copies what is not committed, and makes contested what others are at.
LEMMA OwnRecovery ==
  ASSUME OwnInv, IInv, NEW t \in Threads, StartRecovery(t), pc[t] = "idle",
         UNCHANGED <<journals, job, crashes>>
  PROVE  OwnInv'
<1>a. /\ pc \in [Threads -> PCs] /\ todo \in [Threads -> SUBSET (1..Len(journals))]
      /\ DOMAIN journals = 1..Len(journals)
  BY LenProperties DEF IInv, Typing
<1>1. /\ todo' = [todo EXCEPT ![t] = Uncommitted] /\ pc' = [pc EXCEPT ![t] = "recover"]
      /\ contested' = contested \union {i \in Uncommitted : \E u \in Threads : At(u, i)}
  BY DEF StartRecovery, Goto
<1>2. ~Logged(t) /\ job[t].pos = 0
  BY DEF OwnInv, Freed, Logged
<1>3. 0 \notin Uncommitted /\ Uncommitted \subseteq 1..Len(journals)
      /\ \A i \in Uncommitted : ~journals[i].committed
  BY <1>a DEF Uncommitted
<1>4. \A i \in 1..Len(journals) : At(t, i)' =>
         \/ At(t, i)
         \/ i \in contested'
         \/ ~journals[i].committed /\ \A u \in Threads : ~At(u, i)
  BY <1>a, <1>1, <1>3 DEF At
<1>5. job'[t].pos \notin todo'[t]
  BY <1>a, <1>1, <1>2, <1>3
<1> HIDE DEF Uncommitted
<1> QED BY <1>a, <1>1, <1>2, <1>4, <1>5, OwnMove DEF Logged

\* Commands and logins of a terminal.
LEMMA OwnCommand ==
  ASSUME OwnInv, IInv, NEW t \in Terminals, Command(t)
  PROVE  OwnInv'
<1>a. /\ pc \in [Threads -> PCs] /\ job \in [Threads -> Job \union {NoJob}]
      /\ todo \in [Threads -> SUBSET (1..Len(journals))] /\ t \in Threads
  BY DEF IInv, Typing, Threads
<1>1. CASE Login(t)
  BY <1>a, <1>1, OwnRecovery DEF Login
<1>2. ASSUME NEW op \in Ops, NEW f \in Files, NEW bar \in Barred, Begin(t, op, f, bar)
      PROVE  OwnInv'
  <2> DEFINE start == [op |-> op, file |-> f, bar |-> bar, time |-> 0, pos |-> 0,
                       replay |-> FALSE]
  <2>1. /\ UNCHANGED <<journals, crashes, todo, contested>> /\ pc[t] = "idle"
        /\ job' = [job EXCEPT ![t] = start]
        /\ pc' = [pc EXCEPT ![t] = "stamp"] \/ pc' = [pc EXCEPT ![t] = "lock"]
    BY <1>2 DEF Begin, Goto
  <2>2. start.pos = 0
    OBVIOUS
  <2> HIDE DEF start
  <2>3. /\ job'[t].pos = 0 /\ ~Logged(t) /\ todo'[t] = todo[t] /\ 0 \notin todo[t]
        /\ \A u \in Threads : u # t =>
             pc'[u] = pc[u] /\ job'[u] = job[u] /\ todo'[u] = todo[u]
    BY <1>a, <2>1, <2>2 DEF Logged
  <2>4. \A i \in 1..Len(journals) : At(t, i)' => At(t, i)
    BY <2>3 DEF At
  <2> QED BY <1>a, <2>1, <2>3, <2>4, OwnMove
<1> QED BY <1>1, <1>2 DEF Command

\* Stopping, dying and booting.
LEMMA OwnStop ==
  ASSUME OwnInv, TypeInv, IInv, Shutdown \/ Kill \/ Boot
  PROVE  OwnInv'
<1> USE DEF OwnInv
<1>1. ASSUME Stop, crashes' # 0 \/ (Sorted => \A i \in 1..Len(journals) : journals[i].committed)
      PROVE  OwnInv'
  <2>1. \A u \in Threads, i \in 1..Len(journals)' : ~At(u, i)'
    BY <1>1 DEF Stop, At, NoJob
  <2>2. Freed' /\ OnceEach' /\ AtOnce' /\ Open'
    BY <1>1, <2>1 DEF Stop, Freed, OnceEach, AtOnce, Open, NoJob
  <2>3. Pending'
    BY <1>1 DEF Stop, Pending, Sorted
  <2> QED BY <2>2, <2>3
<1>2. CASE Shutdown
  <2>1. Stop /\ crashes' = crashes /\ \A t \in Threads : ~Logged(t)
    BY <1>2 DEF Shutdown, AllIdle, Logged
  <2> QED BY <1>1, <2>1 DEF Pending
<1>3. CASE Kill
  <2>1. Stop /\ crashes' = crashes + 1 /\ crashes \in Nat
    BY <1>3, JournalAssumption DEF Kill, TypeInv, TypeOK
  <2> QED BY <1>1, <2>1
<1>4. CASE Boot
  <2>1. Main \in Threads /\ pc[Main] = "idle"
    BY <1>4 DEF Boot, TypeInv, Phase, AllIdle, Threads
  <2> HIDE DEF OwnInv
  <2> QED BY <1>4, <2>1, OwnRecovery DEF Boot
<1> QED BY <1>2, <1>3, <1>4

\* Every step keeps it.
LEMMA NextOwnInv ==
  ASSUME OwnInv, TypeInv, IInv, [Next]_vars
  PROVE  OwnInv'
<1>1. CASE UNCHANGED vars
  BY <1>1 DEF vars, OwnInv, Freed, OnceEach, AtOnce, Open, Pending, Logged, At, Unique, Sorted
<1>2. ASSUME NEW t \in Threads, ThreadStep(t) PROVE OwnInv'
  BY <1>2, OwnQuiet, OwnLog, OwnCommit DEF ThreadStep
<1>3. ASSUME NEW t \in Terminals, Command(t) PROVE OwnInv'
  BY <1>3, OwnCommand
<1>4. CASE Shutdown \/ Kill \/ Boot
  BY <1>4, OwnStop
<1> QED BY <1>1, <1>2, <1>3, <1>4 DEF Next

\* CommittedIsFinal (recoverUncommitedOperations and markCommitted,
\* journaling.cpp 66-160) for any terminals, any clock and any number of crashes,
\* boots and logins: of an operation that is marked, nobody has the entry left to
\* replay, unless he copied it from another thread's hands or the mark was meant
\* for another entry of the same millisecond.
THEOREM NeverDoneTwice == Spec => []CommittedIsFinal
<1> DEFINE I == IInv /\ TypeInv /\ OwnInv
<1>1. Init => I
  BY InitIInv, InitTypeInv, InitOwnInv
<1>2. I /\ [Next]_vars => I'
  BY NextIInv, NextTypeInv, NextOwnInv
<1>3. I => CommittedIsFinal
  <2> SUFFICES ASSUME I, NEW t \in Threads, pc[t] = "execute", job[t].pos \notin contested,
                      Unique(job[t].pos)
               PROVE  ~journals[job[t].pos].committed
    BY DEF CommittedIsFinal
  <2>1. job[t].pos \in 1..Len(journals) /\ At(t, job[t].pos)
    BY DEF IInv, Placed, Logged, At
  <2> QED BY <2>1 DEF OwnInv, Open
<1> HIDE DEF I
<1> QED BY <1>1, <1>2, <1>3, PTL DEF Spec

\* FinishedIsCommitted for any terminals, commands and logins: in a log that is
\* sorted by stamps the search of every commit finds its entry.
THEOREM NothingLeftToReplay == Spec => []FinishedIsCommitted
<1> DEFINE I == IInv /\ TypeInv /\ OwnInv
<1>1. Init => I
  BY InitIInv, InitTypeInv, InitOwnInv
<1>2. I /\ [Next]_vars => I'
  BY NextIInv, NextTypeInv, NextOwnInv
<1>3. I => FinishedIsCommitted
  BY LenProperties
     DEF FinishedIsCommitted, AllIdle, OwnInv, Pending, Logged, IInv, Typing
<1> HIDE DEF I
<1> QED BY <1>1, <1>2, <1>3, PTL DEF Spec

-----------------------------------------------------------------------------
(* The files.                                                              *)

AfterStep(g, f, j, done, n) ==
  IF n = 0 THEN Absent
  ELSE IF n \in done /\ j[n].file = f THEN Effect(j[n].op, n, g[n - 1])
  ELSE g[n - 1]

IsAfter(g, f, j, done, N) == g = [n \in 0..N |-> AfterStep(g, f, j, done, n)]

\* The recursion has a solution, by induction on the length of the log.
LEMMA AfterExists ==
  ASSUME NEW f, NEW j, NEW done, NEW N \in Nat
  PROVE  \E g : IsAfter(g, f, j, done, N)
<1> DEFINE P == {m \in Nat : \E g : IsAfter(g, f, j, done, m)}
<1>1. 0 \in P
  <2> DEFINE g == [n \in 0..0 |-> Absent]
  <2>1. \A n \in 0..0 : AfterStep(g, f, j, done, n) = Absent
    BY DEF AfterStep
  <2>2. IsAfter(g, f, j, done, 0)
    BY <2>1 DEF IsAfter
  <2> QED BY <2>2
<1>2. ASSUME NEW m \in Nat, m \in P PROVE m + 1 \in P
  <2>1. PICK g : IsAfter(g, f, j, done, m)
    BY <1>2
  <2> DEFINE h == [n \in 0..m + 1 |-> AfterStep(g, f, j, done, n)]
  <2>2. \A n \in 0..m : h[n] = g[n]
    BY <2>1 DEF IsAfter
  <2>3. ASSUME NEW n \in 0..m + 1 PROVE AfterStep(g, f, j, done, n) = AfterStep(h, f, j, done, n)
    <3>1. n # 0 => g[n - 1] = h[n - 1]
      BY <2>2
    <3> HIDE DEF h
    <3> QED BY <3>1 DEF AfterStep
  <2>4. IsAfter(h, f, j, done, m + 1)
    BY <2>3 DEF IsAfter
  <2> HIDE DEF h
  <2> QED BY <2>4
<1> HIDE DEF P
<1>3. N \in P
  BY <1>1, <1>2, NatInd
<1> QED BY <1>3 DEF P

\* Explained is such a solution's last value,
LEMMA ExplainedIs ==
  ASSUME NEW f, Len(journals) \in Nat
  PROVE  \E g : /\ IsAfter(g, f, journals, executed, Len(journals))
                /\ Explained(f) = g[Len(journals)]
<1>1. \E g : IsAfter(g, f, journals, executed, Len(journals))
  BY AfterExists
<1> QED BY <1>1 DEF Explained, IsAfter, AfterStep

\* in the next state too.
LEMMA ExplainedIsNext ==
  ASSUME NEW f, Len(journals)' \in Nat
  PROVE  \E g : /\ IsAfter(g, f, journals', executed', Len(journals'))
                /\ Explained(f)' = g[Len(journals')]
<1>1. \E g : IsAfter(g, f, journals', executed', Len(journals'))
  BY AfterExists
<1> QED BY <1>1 DEF Explained, IsAfter, AfterStep

\* Two logs with their executed entries say the same of f up to entry K.
SameUpTo(K, f, j, done, k, made) ==
  \A n \in 1..K :
    /\ (n \in done /\ j[n].file = f) <=> (n \in made /\ k[n].file = f)
    /\ n \in done /\ j[n].file = f => j[n].op = k[n].op

\* Nothing about f is executed after entry K.
SilentAfter(K, N, f, j, done) == \A n \in K + 1..N : ~(n \in done /\ j[n].file = f)

\* Logs that say the same explain the same.
LEMMA AfterAgree ==
  ASSUME NEW f, NEW N \in Nat, NEW M \in Nat, NEW K \in Nat, K <= N, K <= M,
         NEW j, NEW k, NEW done, NEW made, NEW g, NEW h,
         IsAfter(g, f, j, done, N), IsAfter(h, f, k, made, M),
         SameUpTo(K, f, j, done, k, made)
  PROVE  g[K] = h[K]
<1> DEFINE P == {m \in Nat : m <= K => g[m] = h[m]}
<1>1. 0 \in P
  BY DEF IsAfter, AfterStep
<1>2. ASSUME NEW m \in Nat, m \in P PROVE m + 1 \in P
  <2> SUFFICES ASSUME m + 1 <= K PROVE g[m + 1] = h[m + 1]
    OBVIOUS
  <2>1. m + 1 \in 1..K /\ m + 1 \in 0..N /\ m + 1 \in 0..M /\ g[m] = h[m] /\ (m + 1) - 1 = m
    BY <1>2
  <2>2. g[m + 1] = AfterStep(g, f, j, done, m + 1) /\ h[m + 1] = AfterStep(h, f, k, made, m + 1)
    BY <2>1 DEF IsAfter
  <2> QED BY <2>1, <2>2 DEF AfterStep, SameUpTo
<1> HIDE DEF P
<1>3. K \in P
  BY <1>1, <1>2, NatInd
<1> QED BY <1>3 DEF P

\* Entries about other files, and entries not executed, add nothing.
LEMMA AfterSkips ==
  ASSUME NEW f, NEW N \in Nat, NEW K \in Nat, K <= N, NEW j, NEW done, NEW g,
         IsAfter(g, f, j, done, N),
         SilentAfter(K, N, f, j, done)
  PROVE  g[N] = g[K]
<1> DEFINE P == {m \in Nat : K <= m /\ m <= N => g[m] = g[K]}
<1>1. 0 \in P
  OBVIOUS
<1>2. ASSUME NEW m \in Nat, m \in P PROVE m + 1 \in P
  <2> SUFFICES ASSUME K <= m + 1, m + 1 <= N PROVE g[m + 1] = g[K]
    OBVIOUS
  <2>1. CASE K = m + 1
    BY <2>1
  <2>2. CASE K # m + 1
    <3>1. m + 1 \in K + 1..N /\ m + 1 \in 0..N /\ g[m] = g[K] /\ (m + 1) - 1 = m
      BY <1>2, <2>2
    <3>2. g[m + 1] = AfterStep(g, f, j, done, m + 1)
      BY <3>1 DEF IsAfter
    <3> QED BY <3>1, <3>2 DEF AfterStep, SilentAfter
  <2> QED BY <2>1, <2>2
<1> HIDE DEF P
<1>3. N \in P
  BY <1>1, <1>2, NatInd
<1> QED BY <1>3 DEF P

Calm == crashes = 0 /\ recoveries = 0

\* Between acquireWriteLock and the lock's release.
Holding(t) == pc[t] \in {"stamp", "log", "execute", "commit"}
\* While it is calm, nothing is replayed.
NoReplays == \A t \in Threads : pc[t] # "recover" /\ (pc[t] # "idle" => ~job[t].replay)
\* Who is between the two holds the write lock of the file,
Owner == \A t \in Threads : Holding(t) => holder[job[t].file] = t
\* and metaIndexMutex when it creates; a create never waits for a file's lock.
Creator ==
  \A t \in Threads : job[t].op = "create" =>
    pc[t] # "lock" /\ (Holding(t) => creator = t)
\* What was executed has left its file there, unless it deleted it.
Done ==
  \A t \in Threads : pc[t] = "commit" /\ job[t].op # "delete" => Exists(job[t].file)
\* Who is about to execute has the entry it logged, not yet executed, and no
\* later entry is about the same file: the lock was held from before
\* logOperation on.
OwnEntry ==
  \A t \in Threads : pc[t] = "execute" =>
    /\ journals[job[t].pos].op = job[t].op
    /\ journals[job[t].pos].file = job[t].file
    /\ job[t].pos \notin executed
    /\ \A i \in job[t].pos + 1..Len(journals) : journals[i].file # job[t].file
\* Every file is what the log explains.
Explains == \A f \in Files : files[f] = Explained(f)

\* The invariant behind FilesMatchLog.
CalmInv == NoReplays /\ Owner /\ Creator /\ Done /\ OwnEntry /\ Explains

\* It holds at the start.
LEMMA InitCalmInv == Init => CalmInv
<1> SUFFICES ASSUME Init PROVE CalmInv
  OBVIOUS
<1>1. Len(journals) = 0
  BY DEF Init
<1>2. ASSUME NEW f \in Files PROVE files[f] = Explained(f)
  <2>1. PICK g : IsAfter(g, f, journals, executed, 0) /\ Explained(f) = g[0]
    BY <1>1, ExplainedIs
  <2> QED BY <2>1 DEF IsAfter, AfterStep, Init
<1> QED
  BY <1>1, <1>2 DEF Init, CalmInv, NoReplays, Owner, Holding, Creator, Done, OwnEntry, Explains

\* What the log explains depends on the entries and on which are executed.
LEMMA SameExplained ==
  ASSUME NEW f, Len(journals) \in Nat, Len(journals') = Len(journals), executed' = executed,
         \A i \in 1..Len(journals) :
           journals'[i].op = journals[i].op /\ journals'[i].file = journals[i].file
  PROVE  Explained(f)' = Explained(f)
<1>1. PICK g : IsAfter(g, f, journals, executed, Len(journals)) /\ Explained(f) = g[Len(journals)]
  BY ExplainedIs
<1>2. PICK h : /\ IsAfter(h, f, journals', executed', Len(journals'))
               /\ Explained(f)' = h[Len(journals')]
  BY ExplainedIsNext
<1>3. g[Len(journals)] = h[Len(journals)]
  <2> DEFINE n == Len(journals)
             m == Len(journals')
  <2>1. n \in Nat /\ m \in Nat /\ n <= n /\ n <= m
    OBVIOUS
  <2>2. IsAfter(g, f, journals, executed, n) /\ IsAfter(h, f, journals', executed', m)
    BY <1>1, <1>2
  <2>3. SameUpTo(n, f, journals, executed, journals', executed')
    BY DEF SameUpTo
  <2> HIDE DEF n, m
  <2>4. g[n] = h[n]
    BY <2>1, <2>2, <2>3, AfterAgree
  <2> QED BY <2>4 DEF n
<1> QED BY <1>1, <1>2, <1>3

\* A step that leaves the log and the files alone and moves one thread.
LEMMA CalmMove ==
  ASSUME CalmInv, NEW t \in Threads, UNCHANGED <<journals, executed, files>>,
         \A u \in Threads : u # t =>
           /\ pc'[u] = pc[u] /\ job'[u] = job[u]
           /\ Holding(u) => holder'[job[u].file] = u
           /\ Holding(u) /\ job[u].op = "create" => creator' = u,
         pc'[t] # "recover", pc'[t] # "idle" => ~job'[t].replay,
         Holding(t)' => holder'[job'[t].file] = t,
         Holding(t)' /\ job'[t].op = "create" => creator' = t,
         pc'[t] = "lock" => job'[t].op # "create",
         pc'[t] \notin {"execute", "commit"}
  PROVE  CalmInv'
<1> USE DEF CalmInv
<1>1. NoReplays'
  BY DEF NoReplays
<1>2. Owner'
  BY DEF Owner, Holding
<1>3. Creator'
  BY DEF Creator, Holding
<1>4. Done'
  BY DEF Done, Exists
<1>5. OwnEntry'
  BY DEF OwnEntry
<1>6. Explains'
  BY DEF Explains, Explained
<1> QED BY <1>1, <1>2, <1>3, <1>4, <1>5, <1>6

\* A lock is only taken from nobody.
LEMMA CalmWait ==
  ASSUME CalmInv, TypeInv, NEW t \in Threads, Lock(t) \/ Stamp(t)
  PROVE  CalmInv'
<1>a. /\ pc \in [Threads -> PCs] /\ job \in [Threads -> Job \union {NoJob}]
      /\ holder \in [Files -> Threads \union {Nobody}]
      /\ pc[t] \in {"lock", "stamp"} => job[t] \in Job
  BY DEF TypeInv, TypeOK, Working
<1>b. /\ \A u \in Threads : Holding(u) => holder[job[u].file] = u
      /\ \A u \in Threads : job[u].op = "create" =>
           pc[u] # "lock" /\ (Holding(u) => creator = u)
      /\ pc[t] # "idle" => ~job[t].replay
  BY DEF CalmInv, Owner, Creator, NoReplays
<1>1. CASE Lock(t)
  <2>1. /\ UNCHANGED <<journals, executed, files, job, creator>>
        /\ pc[t] = "lock" /\ pc' = [pc EXCEPT ![t] = "stamp"]
        /\ holder[job[t].file] = Nobody /\ holder' = [holder EXCEPT ![job[t].file] = t]
    BY <1>1, <1>b DEF Lock, Goto
  <2>2. job[t].file \in Files /\ holder'[job[t].file] = t /\ pc'[t] = "stamp"
        /\ ~job[t].replay /\ job[t].op # "create"
    BY <2>1, <1>a, <1>b DEF Job
  <2>3. ASSUME NEW u \in Threads, u # t
        PROVE  /\ pc'[u] = pc[u] /\ job'[u] = job[u]
               /\ Holding(u) => holder'[job[u].file] = u
               /\ Holding(u) /\ job[u].op = "create" => creator' = u
    <3>1. Holding(u) => job[u].file # job[t].file
      BY <2>1, <2>2, <1>b, JournalAssumption
    <3> QED BY <3>1, <2>1, <2>3, <1>a, <1>b
  <2> QED BY <2>1, <2>2, <2>3, CalmMove DEF Holding
<1>2. CASE Stamp(t)
  <2>1. /\ UNCHANGED <<journals, executed, files, holder, creator>>
        /\ pc[t] = "stamp" /\ pc' = [pc EXCEPT ![t] = "log"]
    BY <1>2 DEF Stamp, Goto
  <2>2. /\ job'[t].op = job[t].op /\ job'[t].file = job[t].file /\ job'[t].replay = job[t].replay
        /\ \A u \in Threads : u # t => job'[u] = job[u]
    <3>1. \E now : job' = [job EXCEPT ![t].time = now]
      BY <1>2 DEF Stamp
    <3> QED BY <3>1, <2>1, <1>a DEF Job
  <2>3. Holding(t) /\ ~job[t].replay /\ pc'[t] = "log"
        /\ \A u \in Threads : u # t => pc'[u] = pc[u]
    BY <2>1, <1>a, <1>b DEF Holding
  <2> QED BY <1>b, <2>1, <2>2, <2>3, CalmMove DEF Holding
<1> QED BY <1>1, <1>2

\* A create takes the lock of an entry nobody can have: who holds the lock of
\* a file other than to create it works on a file that exists.
LEMMA CalmBegin ==
  ASSUME CalmInv, TypeInv, NEW t \in Terminals, NEW op \in Ops, NEW f \in Files,
         NEW bar \in Barred, Begin(t, op, f, bar)
  PROVE  CalmInv'
<1>a. /\ pc \in [Threads -> PCs] /\ job \in [Threads -> Job \union {NoJob}]
      /\ holder \in [Files -> Threads \union {Nobody}] /\ t \in Threads
      /\ \A u \in Threads : Holding(u) => job[u] \in Job /\ job[u].op \in Ops
  BY DEF TypeInv, TypeOK, Working, KnownOps, Threads, Holding
<1>b. /\ \A u \in Threads : Holding(u) => holder[job[u].file] = u
      /\ \A u \in Threads : job[u].op = "create" =>
           pc[u] # "lock" /\ (Holding(u) => creator = u)
  BY DEF CalmInv, Owner, Creator
<1> DEFINE start == [op |-> op, file |-> f, bar |-> bar, time |-> 0, pos |-> 0,
                     replay |-> FALSE]
<1>1. /\ UNCHANGED <<journals, executed, files>> /\ pc[t] = "idle"
      /\ job' = [job EXCEPT ![t] = start]
  BY DEF Begin
<1>2. start.op = op /\ start.file = f /\ ~start.replay
  OBVIOUS
<1> HIDE DEF start
<1>3. CASE op = "create" /\ EnterCreate(t, f) /\ Goto(t, "stamp")
  <2>1. /\ pc'[t] = "stamp" /\ job'[t] = start /\ creator = Nobody /\ creator' = t
        /\ holder' = [holder EXCEPT ![f] = t] /\ holder'[f] = t /\ ~Exists(f)
    BY <1>1, <1>3, <1>a DEF EnterCreate, Goto
  <2>2. ASSUME NEW u \in Threads, u # t
        PROVE  /\ pc'[u] = pc[u] /\ job'[u] = job[u]
               /\ Holding(u) => holder'[job[u].file] = u
               /\ Holding(u) /\ job[u].op = "create" => creator' = u
    <3>1. Holding(u) => job[u].op # "create"
      BY <1>b, <2>1, JournalAssumption
    <3>2. Holding(u) => job[u].file # f
      <4> SUFFICES ASSUME Holding(u) PROVE Exists(job[u].file)
        BY <2>1
      <4>1. CASE pc[u] \in {"stamp", "log", "execute"}
        BY <4>1, <3>1 DEF TypeInv, Present
      <4>2. CASE pc[u] = "commit" /\ job[u].op # "delete"
        BY <4>2 DEF CalmInv, Done
      <4>3. CASE job[u].op = "delete"
        <5>1. Solo
          BY <4>3, <1>a, JournalAssumption DEF Solo
        <5>2. u \in Terminals
          BY JournalAssumption DEF Begin, TypeInv, Phase, Threads, Holding
        <5> QED BY <5>1, <5>2, <2>2 DEF Solo
      <4> QED BY <4>1, <4>2, <4>3 DEF Holding
    <3> QED BY <3>1, <3>2, <2>1, <2>2, <1>1, <1>3, <1>a, <1>b DEF Goto
  <2> QED BY <1>1, <1>2, <1>3, <1>a, <2>1, <2>2, CalmMove DEF Holding
<1>4. CASE op # "create" /\ EnterExisting(f) /\ Goto(t, "lock")
  <2>1. /\ pc'[t] = "lock" /\ job'[t] = start /\ UNCHANGED <<creator, holder>>
        /\ \A u \in Threads : u # t => pc'[u] = pc[u] /\ job'[u] = job[u]
    BY <1>1, <1>4, <1>a DEF EnterExisting, Goto
  <2> QED BY <1>1, <1>2, <1>4, <1>a, <1>b, <2>1, CalmMove DEF Holding
<1> QED BY <1>3, <1>4 DEF Begin

\* A new entry explains nothing before it is executed, and is about no file
\* another thread is about to execute on.
LEMMA CalmLog ==
  ASSUME CalmInv, TypeInv, NEW t \in Threads, Log(t)
  PROVE  CalmInv'
<1>a. /\ pc \in [Threads -> PCs] /\ job \in [Threads -> Job \union {NoJob}]
      /\ journals \in Seq(Entry) /\ Len(journals) \in Nat
      /\ executed \in SUBSET (1..Len(journals))
      /\ \A u \in Threads : pc[u] = "execute" => job[u].pos \in 1..Len(journals)
  <2>1. /\ pc \in [Threads -> PCs] /\ job \in [Threads -> Job \union {NoJob}]
        /\ journals \in Seq(Entry) /\ Len(journals) \in Nat
        /\ executed \in SUBSET (1..Len(journals))
        /\ \A u \in Threads : job[u].pos \in 0..Len(journals)
    BY LenProperties DEF TypeInv, TypeOK
  <2>2. \A u \in Threads : pc[u] = "execute" => job[u].pos # 0
    BY DEF TypeInv, Positioned, Logged
  <2> QED BY <2>1, <2>2
<1> DEFINE n == Len(journals)
           e == [op |-> job[t].op, file |-> job[t].file, bar |-> job[t].bar,
                 time |-> job[t].time, committed |-> FALSE]
<1>1. /\ pc[t] = "log" /\ journals' = Append(journals, e)
      /\ job' = [job EXCEPT ![t].pos = n + 1]
      /\ pc' = [pc EXCEPT ![t] = "execute"]
      /\ UNCHANGED <<holder, creator, files, executed>>
  BY DEF Log, Goto
<1>2. e.op = job[t].op /\ e.file = job[t].file
  OBVIOUS
<1>3. job[t] \in Job /\ e \in Entry
  <2>1. job[t] \in Job
    BY <1>1 DEF TypeInv, Working
  <2> QED BY <2>1 DEF Job, Entry
<1> HIDE DEF e
<1>4. /\ Len(journals') = n + 1 /\ journals'[n + 1] = e
      /\ \A i \in 1..n : journals'[i] = journals[i]
  BY <1>1, <1>3, <1>a, AppendProperties
<1>5. /\ job'[t].pos = n + 1 /\ job'[t].op = job[t].op /\ job'[t].file = job[t].file
      /\ job'[t].replay = job[t].replay /\ pc'[t] = "execute"
      /\ \A u \in Threads : u # t => job'[u] = job[u] /\ pc'[u] = pc[u]
  BY <1>1, <1>3, <1>a DEF Job
<1>6. /\ \A u \in Threads : Holding(u) => holder[job[u].file] = u
      /\ Holding(t) /\ ~job[t].replay
  BY <1>1 DEF CalmInv, Owner, Holding, NoReplays
<1> HIDE DEF n
<1>n. n = Len(journals) /\ n \in Nat
  BY <1>a DEF n
<1>7. NoReplays'
  BY <1>5, <1>6 DEF CalmInv, NoReplays
<1>8. Owner'
  BY <1>1, <1>5, <1>6 DEF Owner, Holding
<1>9. Creator'
  BY <1>1, <1>5, <1>6 DEF CalmInv, Creator, Holding
<1>10. Done'
  BY <1>1, <1>5 DEF CalmInv, Done, Exists
<1>11. OwnEntry'
  <2> SUFFICES ASSUME NEW u \in Threads, pc'[u] = "execute"
               PROVE  /\ journals'[job'[u].pos].op = job'[u].op
                      /\ journals'[job'[u].pos].file = job'[u].file
                      /\ job'[u].pos \notin executed'
                      /\ \A i \in job'[u].pos + 1..Len(journals') :
                           journals'[i].file # job'[u].file
    BY DEF OwnEntry
  <2>1. CASE u = t
    BY <2>1, <1>1, <1>2, <1>4, <1>5, <1>a, <1>n
  <2>2. CASE u # t
    <3>1. pc[u] = "execute" /\ job'[u] = job[u] /\ job[u].pos \in 1..n
      BY <2>2, <1>5, <1>a, <1>n
    <3>2. e.file # job[u].file
      BY <2>2, <3>1, <1>2, <1>6 DEF Holding
    <3>3. /\ journals[job[u].pos].op = job[u].op
          /\ journals[job[u].pos].file = job[u].file
          /\ job[u].pos \notin executed
          /\ \A i \in job[u].pos + 1..n : journals[i].file # job[u].file
      BY <3>1, <1>n DEF CalmInv, OwnEntry
    <3>4. \A i \in job[u].pos + 1..n + 1 : i = n + 1 \/ (i \in job[u].pos + 1..n /\ i \in 1..n)
      BY <3>1, <1>n
    <3>5. journals'[job[u].pos] = journals[job[u].pos]
      BY <3>1, <1>4
    <3>6. \A i \in job[u].pos + 1..n + 1 : journals'[i].file # job[u].file
      BY <3>2, <3>3, <3>4, <1>2, <1>4
    <3> QED BY <3>1, <3>3, <3>5, <3>6, <1>1, <1>4
  <2> QED BY <2>1, <2>2
<1>12. ASSUME NEW f \in Files PROVE files'[f] = Explained(f)'
  <2> DEFINE m == Len(journals')
  <2>1. PICK g : IsAfter(g, f, journals, executed, n) /\ Explained(f) = g[n]
    BY <1>a, <1>n, ExplainedIs
  <2>2. m = n + 1 /\ m \in Nat
    BY <1>4, <1>n
  <2>3. PICK h : IsAfter(h, f, journals', executed', m) /\ Explained(f)' = h[m]
    BY <2>2, ExplainedIsNext
  <2> HIDE DEF m
  <2>4. h[m] = h[n]
    <3>1. SilentAfter(n, m, f, journals', executed')
      BY <2>2, <1>1, <1>a, <1>n DEF SilentAfter
    <3> QED BY <2>2, <2>3, <3>1, <1>n, AfterSkips
  <2>5. g[n] = h[n]
    <3>1. SameUpTo(n, f, journals, executed, journals', executed')
      BY <1>1, <1>4 DEF SameUpTo
    <3> QED BY <2>1, <2>2, <2>3, <3>1, <1>n, AfterAgree
  <2> QED BY <2>1, <2>3, <2>4, <2>5, <1>1 DEF CalmInv, Explains
<1> QED BY <1>7, <1>8, <1>9, <1>10, <1>11, <1>12 DEF CalmInv, Explains

\* The disk work adds its effect behind all executed entries about the file,
\* and touches no other file.
LEMMA CalmExecute ==
  ASSUME CalmInv, TypeInv, NEW t \in Threads, Execute(t)
  PROVE  CalmInv'
<1> DEFINE n == Len(journals)
           p == job[t].pos
           f == job[t].file
           new == Effect(job[t].op, p, files[f])
<1>1. /\ pc[t] = "execute" /\ pc' = [pc EXCEPT ![t] = "commit"]
      /\ files' = [files EXCEPT ![f] = new] /\ executed' = executed \union {p}
      /\ UNCHANGED <<journals, job, holder, creator>>
  BY DEF Execute, Goto
<1>a. /\ pc \in [Threads -> PCs] /\ files \in [Files -> Seq(1..n)] /\ n \in Nat
      /\ p \in 0..n
  BY LenProperties DEF TypeInv, TypeOK
<1>b. /\ job[t] \in Job /\ f \in Files /\ job[t].op \in Operations /\ p \in 1..n
      /\ (job[t].op # "create" => files[f] # Absent)
  <2>1. job[t] \in Job /\ p # 0 /\ (job[t].op # "create" => files[f] # Absent)
    BY <1>1 DEF TypeInv, Working, Positioned, Logged, Present, Exists
  <2> QED BY <2>1, <1>a DEF Job
<1>c. job[t].op # "delete" => new # Absent
  BY <1>a, <1>b, EffectShape
<1>d. /\ journals[p].op = job[t].op /\ journals[p].file = f /\ p \notin executed
      /\ \A i \in p + 1..n : journals[i].file # f
  BY <1>1 DEF CalmInv, OwnEntry
<1>e. \A u \in Threads : u # t /\ Holding(u) => job[u].file # f
  BY <1>1 DEF CalmInv, Owner, Holding
<1>f. pc'[t] = "commit" /\ \A u \in Threads : u # t => pc'[u] = pc[u]
  BY <1>1, <1>a
<1> HIDE DEF new, n, f, p
<1>2. NoReplays'
  BY <1>1, <1>f DEF CalmInv, NoReplays
<1>3. Owner'
  BY <1>1, <1>f DEF CalmInv, Owner, Holding
<1>4. Creator'
  BY <1>1, <1>f DEF CalmInv, Creator, Holding
<1>5. Done'
  <2> SUFFICES ASSUME NEW u \in Threads, pc'[u] = "commit", job[u].op # "delete"
               PROVE  files'[job[u].file] # Absent
    BY <1>1 DEF Done, Exists
  <2>1. CASE u = t
    BY <2>1, <1>1, <1>a, <1>b, <1>c DEF f
  <2>2. CASE u # t
    <3>1. pc[u] = "commit" /\ job[u].file # f
      BY <2>2, <1>e, <1>f DEF Holding
    <3>2. files[job[u].file] # Absent
      BY <3>1 DEF CalmInv, Done, Exists
    <3> QED BY <3>1, <3>2, <1>1, <1>a
  <2> QED BY <2>1, <2>2
<1>6. OwnEntry'
  <2> SUFFICES ASSUME NEW u \in Threads, pc'[u] = "execute"
               PROVE  /\ journals[job[u].pos].op = job[u].op
                      /\ journals[job[u].pos].file = job[u].file
                      /\ job[u].pos \notin executed'
                      /\ \A i \in job[u].pos + 1..Len(journals) :
                           journals[i].file # job[u].file
    BY <1>1 DEF OwnEntry
  <2>1. u # t /\ pc[u] = "execute" /\ job[u].file # f
    BY <1>e, <1>f DEF Holding
  <2>2. /\ journals[job[u].pos].op = job[u].op
        /\ journals[job[u].pos].file = job[u].file
        /\ job[u].pos \notin executed
        /\ \A i \in job[u].pos + 1..Len(journals) : journals[i].file # job[u].file
    BY <2>1 DEF CalmInv, OwnEntry
  <2>3. job[u].pos # p
    BY <2>1, <2>2, <1>d
  <2> QED BY <2>2, <2>3, <1>1
<1>7. ASSUME NEW x \in Files PROVE files'[x] = Explained(x)'
  <2>1. PICK g : IsAfter(g, x, journals, executed, n) /\ Explained(x) = g[n]
    BY <1>a, ExplainedIs DEF n
  <2>2. PICK h : IsAfter(h, x, journals, executed', n) /\ Explained(x)' = h[n]
    BY <1>1, <1>a, ExplainedIsNext DEF n
  <2>3. files[x] = g[n]
    BY <2>1 DEF CalmInv, Explains
  <2>4. CASE x # f
    <3>1. SameUpTo(n, x, journals, executed, journals, executed')
      BY <2>4, <1>1, <1>d DEF SameUpTo
    <3>2. n <= n
      BY <1>a
    <3>3. g[n] = h[n]
      BY <2>1, <2>2, <3>1, <3>2, <1>a, AfterAgree
    <3> QED BY <3>3, <2>2, <2>3, <2>4, <1>1, <1>a
  <2>5. CASE x = f
    <3> DEFINE q == p - 1
    <3>1. q \in Nat /\ p \in Nat /\ q <= n /\ p <= n /\ q + 1 = p /\ n <= n /\ p \in 0..n /\ p # 0
      BY <1>a, <1>b
    <3> HIDE DEF q
    <3>2. SilentAfter(q, n, x, journals, executed)
      BY <3>1, <2>5, <1>d DEF SilentAfter
    <3>3. SilentAfter(p, n, x, journals, executed')
      BY <2>5, <1>d DEF SilentAfter
    <3>4. SameUpTo(q, x, journals, executed, journals, executed')
      BY <3>1, <1>1 DEF SameUpTo
    <3>5. g[n] = g[q] /\ h[n] = h[p]
      BY <2>1, <2>2, <3>1, <3>2, <3>3, <1>a, AfterSkips
    <3>6. g[q] = h[q]
      BY <2>1, <2>2, <3>1, <3>4, <1>a, AfterAgree
    <3>7. h[p] = AfterStep(h, x, journals, executed', p)
      BY <2>2, <3>1 DEF IsAfter
    <3>8. h[p] = Effect(job[t].op, p, h[q])
      BY <3>1, <3>7, <2>5, <1>1, <1>d DEF AfterStep, q
    <3> QED BY <3>5, <3>6, <3>8, <2>2, <2>3, <2>5, <1>1, <1>a DEF new
  <2> QED BY <2>4, <2>5
<1> QED BY <1>2, <1>3, <1>4, <1>5, <1>6, <1>7 DEF CalmInv, Explains

\* Flags explain nothing, and the locks given back are the thread's own.
LEMMA CalmCommit ==
  ASSUME CalmInv, TypeInv, NEW t \in Threads, Commit(t)
  PROVE  CalmInv'
<1> DEFINE n == Len(journals)
           f == job[t].file
<1>1. /\ pc[t] = "commit" /\ journals' = Marked(job[t].time)
      /\ job' = [job EXCEPT ![t] = NoJob]
      /\ pc' = [pc EXCEPT ![t] = IF job[t].replay THEN "recover" ELSE "idle"]
      /\ holder' = [holder EXCEPT ![f] = Nobody]
      /\ creator' = IF creator = t THEN Nobody ELSE creator
      /\ UNCHANGED <<files, executed>>
  BY DEF Commit, Goto
<1>a. /\ pc \in [Threads -> PCs] /\ job \in [Threads -> Job \union {NoJob}]
      /\ journals \in Seq(Entry) /\ n \in Nat
      /\ holder \in [Files -> Threads \union {Nobody}]
  BY LenProperties DEF TypeInv, TypeOK
<1>p. \A u \in Threads : pc[u] = "execute" => job[u].pos \in 1..n
  <2>1. \A u \in Threads : job[u].pos \in 0..n
    BY DEF TypeInv, TypeOK
  <2>2. \A u \in Threads : pc[u] = "execute" => job[u].pos # 0
    BY DEF TypeInv, Positioned, Logged
  <2> QED BY <2>1, <2>2, <1>a
<1>2. /\ Len(journals') = n
      /\ \A i \in 1..n : /\ journals'[i].op = journals[i].op
                         /\ journals'[i].file = journals[i].file
  BY <1>1, <1>a, MarkedShape
<1>3. /\ pc'[t] = "idle" /\ job'[t] = NoJob
      /\ \A u \in Threads : u # t => pc'[u] = pc[u] /\ job'[u] = job[u]
  BY <1>1, <1>a DEF CalmInv, NoReplays
<1>4. \A u \in Threads : u # t /\ Holding(u) => job[u].file # f
  BY <1>1 DEF CalmInv, Owner, Holding
<1> HIDE DEF n, f
<1>5. NoReplays'
  BY <1>3 DEF CalmInv, NoReplays
<1>6. Owner'
  <2> SUFFICES ASSUME NEW u \in Threads, Holding(u)'
               PROVE  holder'[job'[u].file] = u
    BY DEF Owner
  <2>1. u # t /\ Holding(u) /\ job'[u] = job[u]
    BY <1>3 DEF Holding
  <2>2. holder[job[u].file] = u /\ job[u].file # f
    BY <2>1, <1>4 DEF CalmInv, Owner
  <2> QED BY <2>1, <2>2, <1>1, <1>a
<1>7. Creator'
  BY <1>1, <1>3 DEF CalmInv, Creator, Holding, NoJob
<1>8. Done'
  BY <1>1, <1>3 DEF CalmInv, Done, Exists
<1>9. OwnEntry'
  <2> SUFFICES ASSUME NEW u \in Threads, pc'[u] = "execute"
               PROVE  /\ journals'[job'[u].pos].op = job'[u].op
                      /\ journals'[job'[u].pos].file = job'[u].file
                      /\ job'[u].pos \notin executed'
                      /\ \A i \in job'[u].pos + 1..Len(journals') :
                           journals'[i].file # job'[u].file
    BY DEF OwnEntry
  <2>1. pc[u] = "execute" /\ job'[u] = job[u] /\ job[u].pos \in 1..n
    BY <1>3, <1>p
  <2>2. /\ journals[job[u].pos].op = job[u].op
        /\ journals[job[u].pos].file = job[u].file
        /\ job[u].pos \notin executed
        /\ \A i \in job[u].pos + 1..n : journals[i].file # job[u].file
    BY <2>1 DEF CalmInv, OwnEntry, n
  <2>3. \A i \in job[u].pos + 1..n : i \in 1..n
    BY <2>1, <1>a
  <2> QED BY <2>1, <2>2, <2>3, <1>1, <1>2
<1>10. ASSUME NEW x \in Files PROVE files'[x] = Explained(x)'
  <2>1. Explained(x)' = Explained(x)
    BY <1>1, <1>2, <1>a, SameExplained DEF n
  <2> QED BY <2>1, <1>1 DEF CalmInv, Explains
<1> QED BY <1>5, <1>6, <1>7, <1>8, <1>9, <1>10 DEF CalmInv, Explains

\* Every step keeps it.
LEMMA NextCalmInv ==
  ASSUME TypeInv, Calm => CalmInv, [Next]_vars
  PROVE  (Calm => CalmInv)'
<1> SUFFICES ASSUME Calm' PROVE CalmInv'
  OBVIOUS
<1>t. crashes \in Nat /\ recoveries \in Nat
  BY JournalAssumption DEF TypeInv, TypeOK
<1>1. CASE UNCHANGED vars
  <2>1. CalmInv
    BY <1>1 DEF vars, Calm
  <2> QED BY <2>1, <1>1
    DEF vars, CalmInv, NoReplays, Owner, Holding, Creator, Done, Exists, OwnEntry, Explains,
        Explained
<1>2. ASSUME NEW t \in Threads, ThreadStep(t) PROVE CalmInv'
  <2>1. UNCHANGED <<crashes, recoveries>>
    BY <1>2 DEF ThreadStep, Lock, Stamp, Log, Execute, Commit, Recovered, ReplayEntry
  <2>2. CalmInv
    BY <2>1 DEF Calm
  <2>3. pc[t] # "recover"
    BY <2>2 DEF CalmInv, NoReplays
  <2>4. ~Recovered(t) /\ ~(\E i \in todo[t] : ReplayEntry(t, i))
    BY <2>3 DEF Recovered, ReplayEntry
  <2> QED BY <2>2, <2>4, <1>2, CalmWait, CalmLog, CalmExecute, CalmCommit DEF ThreadStep
<1>3. ASSUME NEW t \in Terminals, Command(t) PROVE CalmInv'
  <2>1. ~Login(t)
    BY <1>t DEF Login, StartRecovery, Calm
  <2>2. ASSUME NEW op \in Ops, NEW f \in Files, NEW bar \in Barred, Begin(t, op, f, bar)
        PROVE  CalmInv'
    <3>1. CalmInv
      BY <2>2 DEF Begin, Calm
    <3> QED BY <3>1, <2>2, CalmBegin
  <2> QED BY <1>3, <2>1, <2>2 DEF Command
<1>4. CASE Shutdown
  <2>1. CalmInv
    BY <1>4 DEF Shutdown, Stop, Calm
  <2>2. NoReplays' /\ Owner' /\ Creator' /\ Done' /\ OwnEntry'
    BY <1>4 DEF Shutdown, Stop, NoReplays, Owner, Holding, Creator, Done, OwnEntry, NoJob
  <2>3. Explains'
    BY <2>1, <1>4 DEF Shutdown, Stop, CalmInv, Explains, Explained
  <2> QED BY <2>2, <2>3 DEF CalmInv
<1>5. ~Kill /\ ~Boot
  BY <1>t DEF Kill, Boot, StartRecovery, Calm
<1> QED BY <1>1, <1>2, <1>3, <1>4, <1>5 DEF Next

\* FilesMatchLog (writeToFile, createFiles and deleteDataFile with the locks
\* around logOperation and markCommitted, multithreading.cpp) for any number of
\* terminals and files and for any clock, a clock that stands still included.
THEOREM FilesAreExplained == Spec => []FilesMatchLog
<1> DEFINE I == TypeInv /\ (Calm => CalmInv)
<1>1. Init => I
  BY InitTypeInv, InitCalmInv
<1>2. I /\ [Next]_vars => I'
  BY NextTypeInv, NextCalmInv
<1>3. I => FilesMatchLog
  BY DEF FilesMatchLog, Calm, CalmInv, Explains
<1> HIDE DEF I
<1> QED BY <1>1, <1>2, <1>3, PTL DEF Spec
=============================================================================
