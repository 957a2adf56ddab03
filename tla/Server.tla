------------------------------- MODULE Server -------------------------------
(***************************************************************************)
(* The server (UNIX/ipc_server.cpp) and its terminals (UNIX/ipc_client.cpp)*)
(* The main thread accepts a terminal and starts a detached handler thread *)
(* for it; it counts the terminals up, and their handlers count them down, *)
(* with no lock around the load and the store.  A terminal asks for its    *)
(* prompt, sends a line, prints the answer, and starts again.  buffer,     *)
(* command and ret are globals that all handlers use without a lock, one   *)
(* step per access here; the values they hold are whole (a torn line or a  *)
(* string destroyed by two assignments at once is not modelled).  A        *)
(* request stands for its bytes, an answer for the request that produced   *)
(* it.  A line fits in the buffer.  Of what a command does to the file     *)
(* system, three things matter here: it may throw, it may remove a         *)
(* directory another session is in, and it may need metaMutex.             *)
(***************************************************************************)
EXTENDS Integers, Sequences, FiniteSets

CONSTANTS
  Terminals,    \* each connects once: the server never closes a socket, so
                \* no descriptor comes back
  Lines,        \* what users type, without exit
  Throws,       \* the lines that std::stoi, std::stoul or substr may throw at
  Removals,     \* the lines that may remove a directory a session is in
  Empty,        \* the empty line, which need not be in Lines
  AskPath,      \* the request "requestPath"
  Blank,        \* a cleared buffer
  MaxClients,   \* MAX_CLIENT_SUPPORT
  MaxLines      \* bound on the lines of a terminal

ASSUME ServerAssumption ==
  /\ AskPath \notin Lines /\ Blank \notin Lines /\ Empty # AskPath /\ Empty # Blank
  /\ AskPath # Blank /\ Throws \subseteq Lines /\ Removals \subseteq Lines
  /\ MaxClients \in Nat /\ MaxLines \in Nat

VARIABLES
  up,          \* the server process is alive
  connected,   \* sessions counted, the listening socket among them
  seen,        \* what was read of connected to be changed, for each terminal
  lost,        \* history: an update of connected was overwritten
  sessions,    \* the terminals that have a session in the map
  handler,     \* where each terminal's thread is; at "admit" and "count" the
               \* main thread, which has not started it yet
  buffer, command, ret,   \* the globals
  answer,      \* the local variable response of each handler
  client,      \* where each terminal is
  typed,       \* what each terminal waits an answer for
  lines,       \* how many lines each terminal has sent
  inbox,       \* the requests each handler can read
  outbox,      \* the answers each terminal can read
  removed,     \* a directory may have been removed while a session was in it
  disturbed    \* history: another handler wrote a global since this one
               \* last read
globals == <<buffer, command, ret, disturbed>>
clients == <<client, typed, lines>>
counter == <<connected, seen, lost>>
vars == <<up, counter, sessions, handler, globals, answer, clients, inbox, outbox, removed>>

Requests == Lines \union {AskPath}

Init ==
  /\ up = TRUE /\ sessions = {}
  /\ connected = 1 /\ seen = [t \in Terminals |-> 0] /\ lost = FALSE
  /\ handler = [t \in Terminals |-> "none"]
  /\ buffer = Blank /\ command = Blank /\ ret = "data"
  /\ answer = [t \in Terminals |-> Blank]
  /\ client = [t \in Terminals |-> "off"]
  /\ typed = [t \in Terminals |-> Blank]
  /\ lines = [t \in Terminals |-> 0]
  /\ inbox = [t \in Terminals |-> << >>] /\ outbox = [t \in Terminals |-> << >>]
  /\ removed = FALSE /\ disturbed = [t \in Terminals |-> FALSE]

-----------------------------------------------------------------------------
(* Terminals.                                                              *)

Client(t, from, to) == up /\ client[t] = from /\ client' = [client EXCEPT ![t] = to]

\* The main thread takes one terminal at a time.
Accepting == \E t \in Terminals : handler[t] \in {"admit", "count"}

\* connect, accept, and add_fd_socket up to the insertion.  Over the limit the
\* socket is closed, but the thread is started all the same with the null
\* session get_fd_socket returns, and its first access ends the process.
Connect(t) ==
  /\ Client(t, "off", "ask") /\ ~Accepting
  /\ \/ /\ connected < MaxClients
        /\ sessions' = sessions \union {t}
        /\ handler' = [handler EXCEPT ![t] = "admit"]
        /\ UNCHANGED up
     \/ /\ connected >= MaxClients
        /\ up' = FALSE
        /\ UNCHANGED <<sessions, handler>>
  /\ UNCHANGED <<removed, counter, globals, answer, typed, lines, inbox, outbox>>

\* A request waits in the socket; writing an empty line writes nothing.
Send(t, request) ==
  /\ typed' = [typed EXCEPT ![t] = request]
  /\ inbox' = [inbox EXCEPT ![t] = IF request = Empty THEN @ ELSE Append(@, request)]
  /\ UNCHANGED <<up, removed, counter, sessions, handler, globals, answer, outbox>>

AskForPath(t) == Client(t, "ask", "path") /\ Send(t, AskPath) /\ UNCHANGED lines

Type(t, line) ==
  /\ Client(t, "prompt", "reply") /\ lines[t] < MaxLines
  /\ Send(t, line)
  /\ lines' = [lines EXCEPT ![t] = @ + 1]

\* The answer to the path request, then the answer to the line.
Receive(t) ==
  /\ Client(t, "path", "prompt") \/ Client(t, "reply", "ask")
  /\ outbox[t] # << >>
  /\ outbox' = [outbox EXCEPT ![t] = Tail(@)]
  /\ UNCHANGED <<up, removed, counter, sessions, handler, globals, answer, typed, lines, inbox>>

\* exit leaves the loop at the prompt; closing the window ends the terminal
\* wherever it is.  The server is not told what was typed, and an answer that was
\* not read stays behind in the socket.
Leave(t) ==
  /\ \E from \in {"ask", "path", "prompt", "reply"} : Client(t, from, "closed")
  /\ typed' = [typed EXCEPT ![t] = Blank]
  /\ UNCHANGED <<up, removed, counter, sessions, handler, globals, answer, lines, inbox, outbox>>

-----------------------------------------------------------------------------
(* handle_client.                                                          *)

Handler(t, from, to) == up /\ handler[t] = from /\ handler' = [handler EXCEPT ![t] = to]

\* A write of t to a global may undo what another handler has read; what t
\* itself reads overwrites what was there.
Disturb(t) ==
  [u \in Terminals |-> IF u = t THEN disturbed[t] /\ handler[t] # "read"
                      ELSE disturbed[u] \/ handler[u] \in {"copy", "test", "run"}]
Calm(t) == disturbed' = [disturbed EXCEPT ![t] = FALSE]

Clear(t) ==
  /\ Handler(t, "clear", "read")
  /\ buffer' = Blank /\ disturbed' = Disturb(t)
  /\ UNCHANGED <<up, removed, counter, sessions, command, ret, answer, clients, inbox, outbox>>

\* Mutant: a request stays in the socket after it is read.
Read_Again(t) ==
  /\ Handler(t, "read", "copy")
  /\ inbox[t] # << >>
  /\ buffer' = Head(inbox[t]) /\ ret' = "data" /\ disturbed' = Disturb(t)
  /\ UNCHANGED <<up, removed, counter, sessions, command, answer, clients, inbox, outbox>>

\* read blocks until there is a request or the terminal is gone.  It fails
\* (ECONNRESET) when the terminal went without reading its answer.
Read(t) ==
  /\ Handler(t, "read", "copy")
  /\ \/ /\ inbox[t] # << >>
        /\ buffer' = Head(inbox[t]) /\ ret' = "data"
        /\ inbox' = [inbox EXCEPT ![t] = Tail(@)]
     \/ /\ inbox[t] = << >> /\ client[t] = "closed"
        /\ ret' = IF outbox[t] = << >> THEN "end" ELSE "error"
        /\ UNCHANGED <<buffer, inbox>>
  /\ disturbed' = Disturb(t)
  /\ UNCHANGED <<up, removed, counter, sessions, command, answer, clients, outbox>>

\* Mutant: the line of the round before is kept.
Copy_Stale(t) ==
  /\ Handler(t, "copy", "test")
  /\ command' = IF command = Blank THEN buffer ELSE command
  /\ disturbed' = Disturb(t)
  /\ UNCHANGED <<up, removed, counter, sessions, buffer, ret, answer, clients, inbox, outbox>>

Copy(t) ==
  /\ Handler(t, "copy", "test")
  /\ command' = buffer /\ disturbed' = Disturb(t)
  /\ UNCHANGED <<up, removed, counter, sessions, buffer, ret, answer, clients, inbox, outbox>>

\* ret = 0: the session is deleted, and the terminal is still counted.
EndOfInput(t) ==
  /\ Handler(t, "test", "leave") /\ ret = "end"
  /\ sessions' = sessions \ {t}
  /\ Calm(t)
  /\ UNCHANGED <<up, removed, counter, buffer, command, ret, answer, clients, inbox, outbox>>

\* ret = -1: the loop is left, and the session stays in the map.
ReadFailed(t) ==
  /\ Handler(t, "test", "dead") /\ ret = "error"
  /\ Calm(t)
  /\ UNCHANGED <<up, removed, counter, sessions, buffer, command, ret, answer, clients,
                 inbox, outbox>>

NoCommand(t) ==
  /\ Handler(t, "test", "clear") /\ ret = "data" /\ command = Blank
  /\ Calm(t)
  /\ UNCHANGED <<up, removed, counter, sessions, buffer, command, ret, answer, clients,
                 inbox, outbox>>

\* command is compared here and, for a line, read once more by runCLI.  The
\* walk of createPathM to the root, with metaMutex held, does not end when the
\* directory of the session is gone.
Dispatch(t) ==
  /\ ret = "data" /\ command # Blank
  /\ \/ /\ command = AskPath /\ Handler(t, "test", "answer")
        /\ answer' = [answer EXCEPT ![t] = AskPath]
     \/ /\ command = AskPath /\ removed /\ Handler(t, "test", "walk")
        /\ UNCHANGED answer
     \/ /\ command # AskPath /\ Handler(t, "test", "run")
        /\ UNCHANGED answer
  /\ UNCHANGED <<up, removed, counter, sessions, globals, clients, inbox, outbox>>

\* Mutant: a command without output is not answered.
RunCLI_Silent(t) ==
  /\ Handler(t, "run", "clear")
  /\ UNCHANGED <<up, removed, counter, sessions, globals, answer, clients, inbox, outbox>>

\* A command is answered, or nobody catches what it throws and the server ends,
\* or it waits for metaMutex, which a walk without end holds.
RunCLI(t) ==
  /\ \/ /\ Handler(t, "run", "answer")
        /\ answer' = [answer EXCEPT ![t] = command]
        /\ removed' = (removed \/ command \in Removals)
        /\ UNCHANGED up
     \/ /\ handler[t] = "run" /\ up /\ command \in Throws
        /\ up' = FALSE
        /\ UNCHANGED <<handler, answer, removed>>
     \/ /\ Handler(t, "run", "blocked") /\ \E u \in Terminals : handler[u] = "walk"
        /\ UNCHANGED <<up, answer, removed>>
  /\ UNCHANGED <<counter, sessions, globals, clients, inbox, outbox>>

\* Nobody ignores SIGPIPE: writing to a terminal that is gone ends the server.
Answer(t) ==
  /\ Handler(t, "answer", "clear")
  /\ answer' = [answer EXCEPT ![t] = Blank]
  /\ \/ /\ client[t] # "closed"
        /\ outbox' = [outbox EXCEPT ![t] = Append(@, answer[t])]
        /\ ret' = "data" /\ disturbed' = [Disturb(t) EXCEPT ![t] = FALSE]
        /\ UNCHANGED <<up, buffer, command>>
     \/ /\ client[t] = "closed"
        /\ up' = FALSE
        /\ UNCHANGED <<outbox, globals>>
  /\ UNCHANGED <<removed, counter, sessions, clients, inbox>>

-----------------------------------------------------------------------------
(* connected++ in add_fd_socket and connected-- in remove_fd_socket.       *)

Load(t) ==
  /\ Handler(t, "admit", "count") \/ Handler(t, "leave", "uncount")
  /\ seen' = [seen EXCEPT ![t] = connected]
  /\ UNCHANGED <<up, removed, connected, lost, sessions, globals, answer, clients, inbox, outbox>>

Store(t, n) ==
  /\ connected' = n /\ lost' = (lost \/ connected # seen[t])
  /\ seen' = [seen EXCEPT ![t] = 0]
  /\ UNCHANGED <<up, removed, sessions, globals, answer, clients, inbox, outbox>>

\* The thread of the terminal starts when it is counted.
CountUp(t) == Handler(t, "count", "clear") /\ Store(t, seen[t] + 1)

\* Mutant: a session that ends is still counted.
CountDown_Not(t) == Handler(t, "uncount", "gone") /\ Store(t, seen[t])

CountDown(t) == Handler(t, "uncount", "gone") /\ Store(t, seen[t] - 1)

-----------------------------------------------------------------------------
HandlerStep(t) ==
  \/ Clear(t) \/ Read(t) \/ Copy(t) \/ EndOfInput(t) \/ ReadFailed(t) \/ NoCommand(t)
  \/ Dispatch(t) \/ RunCLI(t) \/ Answer(t) \/ Load(t) \/ CountUp(t) \/ CountDown(t)

ClientStep(t) == AskForPath(t) \/ Receive(t)

UserStep(t) == Connect(t) \/ Leave(t) \/ \E line \in Lines : Type(t, line)

Next == \E t \in Terminals : HandlerStep(t) \/ ClientStep(t) \/ UserStep(t)

Spec == Init /\ [][Next]_vars

\* The operating system runs every thread and terminal that can go on; no user
\* has to type, to come or to leave.
Fairness ==
  \A t \in Terminals : WF_vars(HandlerStep(t)) /\ WF_vars(ClientStep(t))
FairSpec == Spec /\ Fairness

-----------------------------------------------------------------------------
TypeOK ==
  /\ up \in BOOLEAN /\ sessions \subseteq Terminals
  /\ connected \in Int /\ seen \in [Terminals -> Int] /\ lost \in BOOLEAN
  /\ handler \in [Terminals -> {"none", "admit", "count", "clear", "read", "copy", "test",
                                "run", "answer", "walk", "blocked", "leave", "uncount",
                                "gone", "dead"}]
  /\ client \in [Terminals -> {"off", "ask", "path", "prompt", "reply", "closed"}]
  /\ {buffer, command} \subseteq Requests \union {Blank} /\ ret \in {"data", "end", "error"}
  /\ answer \in [Terminals -> Requests \union {Blank}]
  /\ typed \in [Terminals -> Requests \union {Empty, Blank}]
  /\ lines \in [Terminals -> 0..MaxLines]
  /\ inbox \in [Terminals -> Seq(Requests)] /\ outbox \in [Terminals -> Seq(Requests \union {Blank})]
  /\ removed \in BOOLEAN /\ disturbed \in [Terminals -> BOOLEAN]

\* There is a session for exactly the terminals that are admitted and have not
\* come to their end of input: that of a terminal whose read failed is never
\* deleted.  Until an update of the counter is overwritten, the number compared
\* with the limit is that of the terminals counted and not yet counted down,
\* those among them, and of the listening socket.
SessionsCounted ==
  /\ sessions = {t \in Terminals : handler[t] \notin {"none", "leave", "uncount", "gone"}}
  /\ ~lost => connected =
       Cardinality({t \in Terminals : handler[t] \notin {"none", "admit", "count", "gone"}}) + 1

\* However the handlers interleave, a terminal is never sent more than one
\* answer to a request, and none it does not wait for.
NoUnsolicitedAnswer ==
  \A t \in Terminals :
    outbox[t] # << >> =>
      Len(outbox[t]) = 1 /\ client[t] \in {"path", "reply", "closed"}

\* The globals are the only way one terminal gets at another: a handler that
\* no other one has disturbed since its read answers what its own terminal
\* has asked.
UndisturbedAnswerIsOwn ==
  \A t \in Terminals :
    (handler[t] = "answer" /\ ~disturbed[t] /\ client[t] # "closed") =>
      answer[t] = typed[t]

\* A line that was written to the socket is answered if the handler is not
\* disturbed, unless the user goes away, or the server ends (a command threw, or
\* another terminal went before its answer), or the prompt of a session whose
\* directory was removed is looked for without end.
UndisturbedIsAnswered ==
  \A t \in Terminals :
    (/\ client[t] = "reply" /\ inbox[t] # << >>
     /\ handler[t] \notin {"leave", "uncount", "gone", "dead"}
     /\ [](handler[t] \in {"copy", "test", "run"} => ~disturbed[t]))
    ~> (client[t] # "reply" \/ ~up \/ \E u \in Terminals : handler[u] = "walk")

\* Claims the code does not keep.

\* No more terminals are served than the limit allows.
LimitKept == Cardinality(sessions) < MaxClients

\* A terminal that has left is not counted for ever.
CounterExact ==
  (\A t \in Terminals : handler[t] \in {"none", "gone", "dead"}) => connected = 1

\* What a terminal is sent is the answer to what it asked.
AnswerIsOwn ==
  \A t \in Terminals : outbox[t] # << >> => outbox[t][1] = typed[t]
=============================================================================
