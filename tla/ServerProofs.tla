---------------------------- MODULE ServerProofs ----------------------------
(***************************************************************************)
(* Proofs about Server, for any number of terminals, sessions and lines:   *)
(* the sessions are counted, no answer comes unasked, and a handler that   *)
(* nobody disturbed answers what its terminal asked.                       *)
(***************************************************************************)
EXTENDS Server, TLAPS, FiniteSetTheorems

\* A handler that has read a request and not answered it.
Busy(t) == handler[t] \in {"copy", "test", "run", "answer"}

\* A request and its answer are in one place at most: the socket, the handler, or
\* the socket back; and only while the terminal waits, or has gone away.
OneInFlight(t) ==
  /\ Busy(t) => Len(inbox[t]) = 0 /\ (client[t] # "closed" => Len(outbox[t]) = 0)
  /\ Len(inbox[t]) \in {0, 1} /\ Len(outbox[t]) \in {0, 1}
  /\ Len(inbox[t]) = 0 \/ Len(outbox[t]) = 0
  /\ client[t] \in {"off", "ask", "prompt"} =>
       ~Busy(t) /\ Len(inbox[t]) = 0 /\ Len(outbox[t]) = 0

\* What the terminal typed is what is in the socket, then in buffer, in command and
\* in the answer.
OwnRequest(t) ==
  client[t] # "closed" =>
    /\ Len(inbox[t]) = 1 => Head(inbox[t]) = typed[t]
    /\ ~disturbed[t] =>
         /\ handler[t] = "copy" => ret = "data" /\ buffer = typed[t]
         /\ handler[t] = "test" => ret = "data" /\ command = typed[t]
         /\ handler[t] = "run" => command = typed[t]
         /\ handler[t] = "answer" => answer[t] = typed[t]

NotYet(t) == client[t] = "off" => handler[t] = "none"

TerminalOK(t) == OneInFlight(t) /\ OwnRequest(t) /\ NotYet(t)

\* Who has a session, and who is counted.
NotServed == {"none", "leave", "uncount", "gone"}
NotTallied == {"none", "admit", "count", "gone"}
Serving == {t \in Terminals : handler[t] \notin NotServed}
Tallied == {t \in Terminals : handler[t] \notin NotTallied}

Counted ==
  /\ sessions = Serving /\ IsFiniteSet(Tallied)
  /\ ~lost => connected = Cardinality(Tallied) + 1

Inv == TypeOK /\ Counted /\ \A t \in Terminals : TerminalOK(t)

-----------------------------------------------------------------------------
LEMMA EmptyLen == ASSUME NEW S, NEW s \in Seq(S) PROVE s = << >> <=> Len(s) = 0
  OBVIOUS

LEMMA Appended ==
  ASSUME NEW S, NEW s \in Seq(S), NEW e \in S
  PROVE  /\ Append(s, e) \in Seq(S) /\ Len(Append(s, e)) = Len(s) + 1
         /\ Len(s) = 0 => Head(Append(s, e)) = e
  OBVIOUS

LEMMA Shortened ==
  ASSUME NEW S, NEW s \in Seq(S), Len(s) # 0
  PROVE  Tail(s) \in Seq(S) /\ Len(Tail(s)) = Len(s) - 1 /\ Head(s) \in S
  OBVIOUS

LEMMA InitInv == Init => Inv
  <1> SUFFICES ASSUME Init PROVE Inv
    OBVIOUS
  <1> USE ServerAssumption DEF Init
  <1>1. Serving = {} /\ Tallied = {}
    BY DEF Serving, NotServed, Tallied, NotTallied
  <1>2. Counted
    BY <1>1, FS_EmptySet DEF Counted
  <1>3. TypeOK
    <2>1. seen \in [Terminals -> Int]
      OBVIOUS
    <2>4. connected \in Int
      OBVIOUS
    <2>5. lost \in BOOLEAN
      BY Zenon
    <2>2. /\ inbox \in [Terminals -> Seq(Requests)]
          /\ outbox \in [Terminals -> Seq(Requests \union {Blank})]
      OBVIOUS
    <2>3. lines \in [Terminals -> 0..MaxLines]
      OBVIOUS
    <2> QED BY <2>1, <2>2, <2>3, <2>4, <2>5 DEF TypeOK
  <1>4. \A t \in Terminals : TerminalOK(t)
    BY DEF TerminalOK, OneInFlight, OwnRequest, NotYet, Busy
  <1> QED BY <1>2, <1>3, <1>4 DEF Inv

\* A step of one terminal or its handler either writes no global, or disturbs all
\* handlers that have read one.
Alone(t) ==
  /\ \A u \in Terminals \ {t} :
       /\ handler'[u] = handler[u] /\ client'[u] = client[u] /\ typed'[u] = typed[u]
       /\ inbox'[u] = inbox[u] /\ outbox'[u] = outbox[u] /\ answer'[u] = answer[u]
  /\ \/ /\ UNCHANGED <<buffer, command, ret>>
        /\ \A u \in Terminals \ {t} : disturbed'[u] = disturbed[u]
     \/ \A u \in Terminals \ {t} :
          disturbed'[u] = (disturbed[u] \/ handler[u] \in {"copy", "test", "run"})

LEMMA OthersKeep ==
  ASSUME NEW t \in Terminals, Alone(t), NEW u \in Terminals \ {t}, TerminalOK(u)
  PROVE  TerminalOK(u)'
  <1>1. OneInFlight(u)' /\ NotYet(u)'
    BY DEF Alone, TerminalOK, OneInFlight, NotYet, Busy
  <1>2. OwnRequest(u)'
    BY DEF Alone, TerminalOK, OwnRequest
  <1> QED BY <1>1, <1>2 DEF TerminalOK

\* Nobody comes or goes.
LEMMA SameCount ==
  ASSUME Counted, NEW t \in Terminals, UNCHANGED <<sessions, connected, lost>>,
         \A u \in Terminals \ {t} : handler'[u] = handler[u],
         handler[t] \in NotServed <=> handler'[t] \in NotServed,
         handler[t] \in NotTallied <=> handler'[t] \in NotTallied
  PROVE  Counted'
  <1>1. Serving' = Serving /\ Tallied' = Tallied
    BY DEF Serving, Tallied
  <1> QED BY <1>1 DEF Counted

-----------------------------------------------------------------------------
LEMMA ConnectKeeps ==
  ASSUME Inv, NEW t \in Terminals, Connect(t)
  PROVE  Inv'
  <1> USE ServerAssumption DEF Inv, Connect, Client, clients, globals, counter
  <1>1. TypeOK'
    BY DEF TypeOK, Requests
  <1>2. Alone(t)
    BY DEF Alone, TypeOK
  <1>3. Counted'
    <2>1. Tallied' = Tallied
      BY DEF TypeOK, Tallied, NotTallied, TerminalOK, NotYet
    <2>2. Serving' = sessions'
      <3>1. CASE sessions' = sessions \union {t} /\ handler' = [handler EXCEPT ![t] = "admit"]
        BY <3>1 DEF TypeOK, Serving, NotServed, Counted
      <3>2. CASE UNCHANGED <<sessions, handler>>
        BY <3>2 DEF Serving, Counted
      <3> QED BY <3>1, <3>2
    <2> QED BY <2>1, <2>2 DEF Counted
  <1>4. OneInFlight(t)'
    BY DEF TerminalOK, OneInFlight, Busy, TypeOK
  <1>5. OwnRequest(t)'
    BY DEF TerminalOK, OneInFlight, OwnRequest, Busy, TypeOK
  <1>6. NotYet(t)'
    BY DEF TerminalOK, NotYet, TypeOK
  <1> QED BY <1>1, <1>2, <1>3, <1>4, <1>5, <1>6, OthersKeep DEF TerminalOK

LEMMA AskForPathKeeps ==
  ASSUME Inv, NEW t \in Terminals, AskForPath(t)
  PROVE  Inv'
  <1> USE ServerAssumption DEF Inv, AskForPath, Client, Send, clients, globals, counter
  <1>0. /\ AskPath \in Requests /\ inbox[t] \in Seq(Requests)
        /\ inbox' = [inbox EXCEPT ![t] = Append(@, AskPath)]
    BY DEF TypeOK, Requests
  <1>b. /\ Append(inbox[t], AskPath) \in Seq(Requests)
        /\ Len(Append(inbox[t], AskPath)) = Len(inbox[t]) + 1
        /\ Len(inbox[t]) = 0 => Head(Append(inbox[t], AskPath)) = AskPath
    BY <1>0, Appended
  <1>1. TypeOK'
    BY <1>0, <1>b DEF TypeOK, Requests
  <1>2. Alone(t)
    BY DEF Alone, TypeOK
  <1>3. Counted'
    BY <1>2, SameCount DEF TypeOK, Alone, NotServed, NotTallied
  <1>4. OneInFlight(t)'
    BY <1>0, <1>b DEF TerminalOK, OneInFlight, Busy, TypeOK
  <1>5. OwnRequest(t)'
    BY <1>0, <1>b DEF TerminalOK, OneInFlight, OwnRequest, Busy, TypeOK
  <1>6. NotYet(t)'
    BY DEF TerminalOK, NotYet, TypeOK
  <1> QED BY <1>1, <1>2, <1>3, <1>4, <1>5, <1>6, OthersKeep DEF TerminalOK

LEMMA TypeKeeps ==
  ASSUME Inv, NEW t \in Terminals, NEW line \in Lines, Type(t, line)
  PROVE  Inv'
  <1> USE ServerAssumption DEF Inv, Type, Client, Send, clients, globals, counter
  <1>0. line \in Requests /\ inbox[t] \in Seq(Requests)
    BY DEF TypeOK, Requests
  <1>b. /\ Append(inbox[t], line) \in Seq(Requests)
        /\ Len(Append(inbox[t], line)) = Len(inbox[t]) + 1
        /\ Len(inbox[t]) = 0 => Head(Append(inbox[t], line)) = line
    BY <1>0, Appended
  <1>1. TypeOK'
    BY <1>0, <1>b DEF TypeOK, Requests
  <1>2. Alone(t)
    BY DEF Alone, TypeOK
  <1>3. Counted'
    BY <1>2, SameCount DEF TypeOK, Alone, NotServed, NotTallied
  <1>4. OneInFlight(t)'
    BY <1>0, <1>b DEF TerminalOK, OneInFlight, Busy, TypeOK
  <1>5. OwnRequest(t)'
    BY <1>0, <1>b DEF TerminalOK, OneInFlight, OwnRequest, Busy, TypeOK
  <1>6. NotYet(t)'
    BY DEF TerminalOK, NotYet, TypeOK
  <1> QED BY <1>1, <1>2, <1>3, <1>4, <1>5, <1>6, OthersKeep DEF TerminalOK

LEMMA ReceiveKeeps ==
  ASSUME Inv, NEW t \in Terminals, Receive(t)
  PROVE  Inv'
  <1> USE ServerAssumption DEF Inv, Receive, Client, clients, globals, counter
  <1>0. outbox[t] \in Seq(Requests \union {Blank}) /\ Len(outbox[t]) # 0
    BY EmptyLen DEF TypeOK
  <1>b. /\ Tail(outbox[t]) \in Seq(Requests \union {Blank})
        /\ Len(Tail(outbox[t])) = Len(outbox[t]) - 1
    BY <1>0, Shortened
  <1>1. TypeOK'
    BY <1>0, <1>b DEF TypeOK, Requests
  <1>2. Alone(t)
    BY DEF Alone, TypeOK
  <1>3. Counted'
    BY <1>2, SameCount DEF TypeOK, Alone, NotServed, NotTallied
  <1>4. OneInFlight(t)'
    <2>1. client'[t] \in {"prompt", "ask"} /\ handler'[t] = handler[t] /\ inbox'[t] = inbox[t]
      BY DEF TypeOK
    <2>2. Len(outbox[t]) = 1 /\ Len(inbox[t]) = 0 /\ ~Busy(t)
      BY <1>0 DEF TerminalOK, OneInFlight
    <2>3. outbox'[t] = Tail(outbox[t]) /\ Len(Tail(outbox[t])) = 0
      BY <1>0, <1>b, <2>2 DEF TypeOK
    <2> QED BY <2>1, <2>2, <2>3 DEF OneInFlight, Busy
  <1>5. OwnRequest(t)'
    BY <1>0, <1>b DEF TerminalOK, OneInFlight, OwnRequest, Busy, TypeOK
  <1>6. NotYet(t)'
    BY DEF TerminalOK, NotYet, TypeOK
  <1> QED BY <1>1, <1>2, <1>3, <1>4, <1>5, <1>6, OthersKeep DEF TerminalOK

LEMMA LeaveKeeps ==
  ASSUME Inv, NEW t \in Terminals, Leave(t)
  PROVE  Inv'
  <1> USE ServerAssumption DEF Inv, Leave, Client, clients, globals, counter
  <1>1. TypeOK'
    BY DEF TypeOK, Requests
  <1>2. Alone(t)
    BY DEF Alone, TypeOK
  <1>3. Counted'
    BY <1>2, SameCount DEF TypeOK, Alone, NotServed, NotTallied
  <1>4. OneInFlight(t)'
    BY DEF TerminalOK, OneInFlight, Busy, TypeOK
  <1>5. OwnRequest(t)'
    BY DEF TerminalOK, OneInFlight, OwnRequest, Busy, TypeOK
  <1>6. NotYet(t)'
    BY DEF TerminalOK, NotYet, TypeOK
  <1> QED BY <1>1, <1>2, <1>3, <1>4, <1>5, <1>6, OthersKeep DEF TerminalOK

LEMMA ClearKeeps ==
  ASSUME Inv, NEW t \in Terminals, Clear(t)
  PROVE  Inv'
  <1> USE ServerAssumption DEF Inv, Clear, Handler, Disturb, clients, globals, counter
  <1>1. TypeOK'
    BY DEF TypeOK, Requests
  <1>2. Alone(t)
    BY DEF Alone, TypeOK
  <1>3. Counted'
    BY <1>2, SameCount DEF TypeOK, Alone, NotServed, NotTallied
  <1>4. OneInFlight(t)'
    BY DEF TerminalOK, OneInFlight, Busy, TypeOK
  <1>5. OwnRequest(t)'
    BY DEF TerminalOK, OneInFlight, OwnRequest, Busy, TypeOK
  <1>6. NotYet(t)'
    BY DEF TerminalOK, NotYet, TypeOK
  <1> QED BY <1>1, <1>2, <1>3, <1>4, <1>5, <1>6, OthersKeep DEF TerminalOK

LEMMA ReadKeeps ==
  ASSUME Inv, NEW t \in Terminals, Read(t)
  PROVE  Inv'
  <1> USE ServerAssumption DEF Inv, Read, Handler, Disturb, clients, globals, counter
  <1>0. inbox[t] \in Seq(Requests) /\ (inbox[t] = << >> <=> Len(inbox[t]) = 0)
    BY EmptyLen DEF TypeOK
  <1>b. Len(inbox[t]) # 0 =>
          /\ Tail(inbox[t]) \in Seq(Requests) /\ Head(inbox[t]) \in Requests
          /\ Len(Tail(inbox[t])) = Len(inbox[t]) - 1
    BY <1>0, Shortened
  <1>1. TypeOK'
    <2>1. /\ inbox' \in [Terminals -> Seq(Requests)]
          /\ {buffer', command'} \subseteq Requests \union {Blank}
      BY <1>0, <1>b DEF TypeOK
    <2>2. disturbed' \in [Terminals -> BOOLEAN]
      BY DEF TypeOK
    <2>3. ret' \in {"data", "end", "error"} /\ up' \in BOOLEAN
      BY DEF TypeOK
    <2> QED BY <2>1, <2>2, <2>3 DEF TypeOK
  <1>2. Alone(t)
    BY DEF Alone, TypeOK
  <1>3. Counted'
    BY <1>2, SameCount DEF TypeOK, Alone, NotServed, NotTallied
  <1>4. OneInFlight(t)'
    <2>1. client'[t] = client[t] /\ handler'[t] = "copy" /\ outbox'[t] = outbox[t]
      BY DEF TypeOK
    <2>2. CASE Len(inbox[t]) # 0
      <3>1. Len(inbox[t]) = 1 /\ Len(outbox[t]) = 0 /\ client[t] \notin {"off", "ask", "prompt"}
        BY <2>2 DEF TerminalOK, OneInFlight
      <3>2. inbox'[t] = Tail(inbox[t]) /\ Len(Tail(inbox[t])) = 0
        BY <1>0, <1>b, <2>2, <3>1 DEF TypeOK
      <3> QED BY <2>1, <3>1, <3>2 DEF OneInFlight, Busy
    <2>3. CASE Len(inbox[t]) = 0
      <3>1. inbox'[t] = inbox[t] /\ client[t] = "closed"
        BY <1>0, <2>3
      <3> QED BY <2>1, <2>3, <3>1 DEF TerminalOK, OneInFlight, Busy
    <2> QED BY <2>2, <2>3
  <1>5. OwnRequest(t)'
    <2>1. TerminalOK(t) /\ Len(inbox[t]) \in Nat
      BY <1>0
    <2>2. handler'[t] = "copy" /\ client'[t] = client[t] /\ typed'[t] = typed[t]
      BY DEF TypeOK
    <2>3. CASE Len(inbox[t]) # 0
      <3>0. Len(inbox[t]) = 1
        BY <2>1, <2>3 DEF TerminalOK, OneInFlight
      <3>1. inbox' = [inbox EXCEPT ![t] = Tail(@)] /\ Len(Tail(inbox[t])) = 0
        BY <1>0, <1>b, <2>3, <3>0
      <3>2. Len(inbox'[t]) = 0
        BY <3>1 DEF TypeOK
      <3>3. client[t] # "closed" => buffer' = typed[t] /\ ret' = "data"
        BY <1>0, <2>1, <2>3, <3>0 DEF TerminalOK, OwnRequest
      <3> QED BY <2>2, <3>2, <3>3 DEF OwnRequest
    <2>4. CASE Len(inbox[t]) = 0
      BY <1>0, <2>2, <2>4 DEF OwnRequest
    <2> QED BY <2>1, <2>3, <2>4
  <1>6. NotYet(t)'
    BY DEF TerminalOK, NotYet, TypeOK
  <1> QED BY <1>1, <1>2, <1>3, <1>4, <1>5, <1>6, OthersKeep DEF TerminalOK

LEMMA CopyKeeps ==
  ASSUME Inv, NEW t \in Terminals, Copy(t)
  PROVE  Inv'
  <1> USE ServerAssumption DEF Inv, Copy, Handler, Disturb, clients, globals, counter
  <1>1. TypeOK'
    BY DEF TypeOK, Requests
  <1>2. Alone(t)
    BY DEF Alone, TypeOK
  <1>3. Counted'
    BY <1>2, SameCount DEF TypeOK, Alone, NotServed, NotTallied
  <1>4. OneInFlight(t)'
    BY DEF TerminalOK, OneInFlight, Busy, TypeOK
  <1>5. OwnRequest(t)'
    BY DEF TerminalOK, OneInFlight, OwnRequest, Busy, TypeOK
  <1>6. NotYet(t)'
    BY DEF TerminalOK, NotYet, TypeOK
  <1> QED BY <1>1, <1>2, <1>3, <1>4, <1>5, <1>6, OthersKeep DEF TerminalOK

LEMMA EndOfInputKeeps ==
  ASSUME Inv, NEW t \in Terminals, EndOfInput(t)
  PROVE  Inv'
  <1> USE ServerAssumption DEF Inv, EndOfInput, Handler, Calm, clients, globals, counter
  <1>1. TypeOK'
    BY DEF TypeOK, Requests
  <1>2. Alone(t)
    BY DEF Alone, TypeOK
  <1>3. Counted'
    <2>1. Tallied' = Tallied
      BY DEF TypeOK, Tallied, NotTallied
    <2>2. Serving' = sessions'
      BY DEF TypeOK, Serving, NotServed, Counted
    <2> QED BY <2>1, <2>2 DEF Counted
  <1>4. OneInFlight(t)'
    BY DEF TerminalOK, OneInFlight, Busy, TypeOK
  <1>5. OwnRequest(t)'
    BY DEF TerminalOK, OneInFlight, OwnRequest, Busy, TypeOK
  <1>6. NotYet(t)'
    BY DEF TerminalOK, NotYet, TypeOK
  <1> QED BY <1>1, <1>2, <1>3, <1>4, <1>5, <1>6, OthersKeep DEF TerminalOK

LEMMA ReadFailedKeeps ==
  ASSUME Inv, NEW t \in Terminals, ReadFailed(t)
  PROVE  Inv'
  <1> USE ServerAssumption DEF Inv, ReadFailed, Handler, Calm, clients, globals, counter
  <1>1. TypeOK'
    BY DEF TypeOK, Requests
  <1>2. Alone(t)
    BY DEF Alone, TypeOK
  <1>3. Counted'
    BY <1>2, SameCount DEF TypeOK, Alone, NotServed, NotTallied
  <1>4. OneInFlight(t)'
    BY DEF TerminalOK, OneInFlight, Busy, TypeOK
  <1>5. OwnRequest(t)'
    BY DEF TerminalOK, OneInFlight, OwnRequest, Busy, TypeOK
  <1>6. NotYet(t)'
    BY DEF TerminalOK, NotYet, TypeOK
  <1> QED BY <1>1, <1>2, <1>3, <1>4, <1>5, <1>6, OthersKeep DEF TerminalOK

LEMMA NoCommandKeeps ==
  ASSUME Inv, NEW t \in Terminals, NoCommand(t)
  PROVE  Inv'
  <1> USE ServerAssumption DEF Inv, NoCommand, Handler, Calm, clients, globals, counter
  <1>1. TypeOK'
    BY DEF TypeOK, Requests
  <1>2. Alone(t)
    BY DEF Alone, TypeOK
  <1>3. Counted'
    BY <1>2, SameCount DEF TypeOK, Alone, NotServed, NotTallied
  <1>4. OneInFlight(t)'
    BY DEF TerminalOK, OneInFlight, Busy, TypeOK
  <1>5. OwnRequest(t)'
    BY DEF TerminalOK, OneInFlight, OwnRequest, Busy, TypeOK
  <1>6. NotYet(t)'
    BY DEF TerminalOK, NotYet, TypeOK
  <1> QED BY <1>1, <1>2, <1>3, <1>4, <1>5, <1>6, OthersKeep DEF TerminalOK

LEMMA DispatchKeeps ==
  ASSUME Inv, NEW t \in Terminals, Dispatch(t)
  PROVE  Inv'
  <1> USE ServerAssumption DEF Inv, Dispatch, Handler, clients, globals, counter
  <1>1. TypeOK'
    BY DEF TypeOK, Requests
  <1>2. Alone(t)
    BY DEF Alone, TypeOK
  <1>3. Counted'
    BY <1>2, SameCount DEF TypeOK, Alone, NotServed, NotTallied
  <1>4. OneInFlight(t)'
    BY DEF TerminalOK, OneInFlight, Busy, TypeOK
  <1>5. OwnRequest(t)'
    BY DEF TerminalOK, OneInFlight, OwnRequest, Busy, TypeOK
  <1>6. NotYet(t)'
    BY DEF TerminalOK, NotYet, TypeOK
  <1> QED BY <1>1, <1>2, <1>3, <1>4, <1>5, <1>6, OthersKeep DEF TerminalOK

LEMMA RunCLIKeeps ==
  ASSUME Inv, NEW t \in Terminals, RunCLI(t)
  PROVE  Inv'
  <1> USE ServerAssumption DEF Inv, RunCLI, Handler, clients, globals, counter
  <1>1. TypeOK'
    <2>1. handler' \in [Terminals -> {"none", "admit", "count", "clear", "read", "copy",
                                      "test", "run", "answer", "walk", "blocked", "leave",
                                      "uncount", "gone", "dead"}]
      BY DEF TypeOK
    <2>2. answer' \in [Terminals -> Requests \union {Blank}]
      BY DEF TypeOK
    <2>3. up' \in BOOLEAN /\ removed' \in BOOLEAN
      BY Zenon DEF TypeOK
    <2> QED BY <2>1, <2>2, <2>3 DEF TypeOK
  <1>2. Alone(t)
    BY DEF Alone, TypeOK
  <1>3. Counted'
    BY <1>2, SameCount DEF TypeOK, Alone, NotServed, NotTallied
  <1>4. OneInFlight(t)'
    BY DEF TerminalOK, OneInFlight, Busy, TypeOK
  <1>5. OwnRequest(t)'
    BY DEF TerminalOK, OneInFlight, OwnRequest, Busy, TypeOK
  <1>6. NotYet(t)'
    BY DEF TerminalOK, NotYet, TypeOK
  <1> QED BY <1>1, <1>2, <1>3, <1>4, <1>5, <1>6, OthersKeep DEF TerminalOK

LEMMA AnswerKeeps ==
  ASSUME Inv, NEW t \in Terminals, Answer(t)
  PROVE  Inv'
  <1> USE ServerAssumption DEF Inv, Answer, Handler, Disturb, clients, globals, counter
  <1>0. /\ outbox[t] \in Seq(Requests \union {Blank})
        /\ answer[t] \in Requests \union {Blank}
    BY DEF TypeOK
  <1>b. /\ Append(outbox[t], answer[t]) \in Seq(Requests \union {Blank})
        /\ Len(Append(outbox[t], answer[t])) = Len(outbox[t]) + 1
    BY <1>0, Appended
  <1>1. TypeOK'
    <2>1. outbox' \in [Terminals -> Seq(Requests \union {Blank})]
      BY <1>0, <1>b DEF TypeOK
    <2>4. answer' \in [Terminals -> Requests \union {Blank}]
      BY DEF TypeOK
    <2>2. disturbed' \in [Terminals -> BOOLEAN]
      BY DEF TypeOK
    <2>3. {buffer', command'} \subseteq Requests \union {Blank} /\ ret' \in {"data", "end", "error"}
          /\ up' \in BOOLEAN
      BY DEF TypeOK
    <2> QED BY <2>1, <2>2, <2>3, <2>4 DEF TypeOK
  <1>2. Alone(t)
    BY DEF Alone, TypeOK
  <1>3. Counted'
    BY <1>2, SameCount DEF TypeOK, Alone, NotServed, NotTallied
  <1>4. OneInFlight(t)'
    <2>1. Len(inbox[t]) = 0 /\ (client[t] # "closed" => Len(outbox[t]) = 0)
      BY DEF TerminalOK, OneInFlight, Busy
    <2>2. handler'[t] = "clear" /\ client'[t] = client[t] /\ inbox'[t] = inbox[t]
      BY DEF TypeOK
    <2>3. CASE client[t] = "closed"
      BY <2>1, <2>2, <2>3 DEF TerminalOK, OneInFlight, Busy
    <2>4. CASE client[t] # "closed"
      <3>1. Len(outbox'[t]) = 1
        <4>1. outbox'[t] = Append(outbox[t], answer[t])
          BY <2>4 DEF TypeOK
        <4> QED BY <1>b, <2>1, <2>4, <4>1
      <3>2. client[t] \notin {"off", "ask", "prompt"}
        BY DEF TerminalOK, OneInFlight, Busy
      <3> QED BY <2>1, <2>2, <2>4, <3>1, <3>2 DEF OneInFlight, Busy
    <2> QED BY <2>3, <2>4
  <1>5. OwnRequest(t)'
    BY <1>0, <1>b DEF TerminalOK, OneInFlight, OwnRequest, Busy, TypeOK
  <1>6. NotYet(t)'
    BY DEF TerminalOK, NotYet, TypeOK
  <1> QED BY <1>1, <1>2, <1>3, <1>4, <1>5, <1>6, OthersKeep DEF TerminalOK

LEMMA LoadKeeps ==
  ASSUME Inv, NEW t \in Terminals, Load(t)
  PROVE  Inv'
  <1> USE ServerAssumption DEF Inv, Load, Handler, clients, globals, counter
  <1>1. TypeOK'
    BY DEF TypeOK, Requests
  <1>2. Alone(t)
    BY DEF Alone, TypeOK
  <1>3. Counted'
    BY <1>2, SameCount DEF TypeOK, Alone, NotServed, NotTallied
  <1>4. OneInFlight(t)'
    BY DEF TerminalOK, OneInFlight, Busy, TypeOK
  <1>5. OwnRequest(t)'
    BY DEF TerminalOK, OneInFlight, OwnRequest, Busy, TypeOK
  <1>6. NotYet(t)'
    BY DEF TerminalOK, NotYet, TypeOK
  <1> QED BY <1>1, <1>2, <1>3, <1>4, <1>5, <1>6, OthersKeep DEF TerminalOK

LEMMA CountUpKeeps ==
  ASSUME Inv, NEW t \in Terminals, CountUp(t)
  PROVE  Inv'
  <1> USE ServerAssumption DEF Inv, CountUp, Store, Handler, clients, globals, counter
  <1>1. TypeOK'
    BY DEF TypeOK, Requests
  <1>2. Alone(t)
    BY DEF Alone, TypeOK
  <1>3. Counted'
    <2>1. Serving' = Serving
      BY DEF TypeOK, Serving, NotServed
    <2>2. Tallied' = Tallied \union {t} /\ t \notin Tallied
      BY DEF TypeOK, Tallied, NotTallied
    <2>3. IsFiniteSet(Tallied') /\ Cardinality(Tallied') = Cardinality(Tallied) + 1
      BY <2>2, FS_AddElement DEF Counted
    <2>4. ~lost' => connected' = connected + 1 /\ ~lost
      BY DEF TypeOK
    <2> QED BY <2>1, <2>3, <2>4 DEF Counted
  <1>4. OneInFlight(t)'
    BY DEF TerminalOK, OneInFlight, Busy, TypeOK
  <1>5. OwnRequest(t)'
    BY DEF TerminalOK, OneInFlight, OwnRequest, Busy, TypeOK
  <1>6. NotYet(t)'
    BY DEF TerminalOK, NotYet, TypeOK
  <1> QED BY <1>1, <1>2, <1>3, <1>4, <1>5, <1>6, OthersKeep DEF TerminalOK

LEMMA CountDownKeeps ==
  ASSUME Inv, NEW t \in Terminals, CountDown(t)
  PROVE  Inv'
  <1> USE ServerAssumption DEF Inv, CountDown, Store, Handler, clients, globals, counter
  <1>1. TypeOK'
    BY DEF TypeOK, Requests
  <1>2. Alone(t)
    BY DEF Alone, TypeOK
  <1>3. Counted'
    <2>1. Serving' = Serving
      BY DEF TypeOK, Serving, NotServed
    <2>2. Tallied' = Tallied \ {t} /\ t \in Tallied
      BY DEF TypeOK, Tallied, NotTallied
    <2>3. IsFiniteSet(Tallied') /\ Cardinality(Tallied') = Cardinality(Tallied) - 1
      BY <2>2, FS_RemoveElement DEF Counted
    <2>4. Cardinality(Tallied) \in Nat /\ Cardinality(Tallied') \in Nat
      BY <2>3, FS_CardinalityType DEF Counted
    <2>5. ~lost' => connected' = connected - 1 /\ ~lost
      BY DEF TypeOK
    <2>6. ~lost' => connected = Cardinality(Tallied) + 1
      BY <2>5 DEF Counted
    <2> QED BY <2>1, <2>3, <2>4, <2>5, <2>6 DEF Counted
  <1>4. OneInFlight(t)'
    BY DEF TerminalOK, OneInFlight, Busy, TypeOK
  <1>5. OwnRequest(t)'
    BY DEF TerminalOK, OneInFlight, OwnRequest, Busy, TypeOK
  <1>6. NotYet(t)'
    BY DEF TerminalOK, NotYet, TypeOK
  <1> QED BY <1>1, <1>2, <1>3, <1>4, <1>5, <1>6, OthersKeep DEF TerminalOK

-----------------------------------------------------------------------------
LEMMA NextInv == ASSUME Inv, [Next]_vars PROVE Inv'
  <1>1. ASSUME NEW t \in Terminals, HandlerStep(t) PROVE Inv'
    BY <1>1, ClearKeeps, ReadKeeps, CopyKeeps, EndOfInputKeeps,
       ReadFailedKeeps, NoCommandKeeps,
       DispatchKeeps, RunCLIKeeps, AnswerKeeps, LoadKeeps, CountUpKeeps, CountDownKeeps
       DEF HandlerStep
  <1>2. ASSUME NEW t \in Terminals, ClientStep(t) PROVE Inv'
    BY <1>2, AskForPathKeeps, ReceiveKeeps DEF ClientStep
  <1>3. ASSUME NEW t \in Terminals, UserStep(t) PROVE Inv'
    BY <1>3, ConnectKeeps, LeaveKeeps, TypeKeeps DEF UserStep
  <1>4. CASE UNCHANGED vars
    BY <1>4 DEF vars, globals, clients, counter, Inv, TypeOK, Counted, Serving, Tallied,
                TerminalOK, OneInFlight, OwnRequest, NotYet, Busy
  <1> QED BY <1>1, <1>2, <1>3, <1>4 DEF Next

LEMMA Invariance == Spec => []Inv
  BY InitInv, NextInv, PTL DEF Spec

\* For any terminals and lines, the variables keep their types: handlers and
\* terminals are at the places the module names (ipc_server.cpp 85-141,
\* ipc_client.cpp 29-89).
THEOREM TypeCorrect == Spec => []TypeOK
  BY Invariance, PTL DEF Inv

\* However terminals come, go and write each other's globals, the map has the
\* sessions of the terminals admitted and not gone, and connected counts them until
\* an update of it is overwritten (ipc_server.cpp 12-40).
THEOREM SessionsAreCounted == Spec => []SessionsCounted
  <1>1. Inv => SessionsCounted
    BY DEF Inv, Counted, Serving, NotServed, Tallied, NotTallied, SessionsCounted
  <1> QED BY <1>1, Invariance, PTL

\* No terminal is ever sent a second answer, or one it does not wait for, whatever
\* the handlers do to each other's requests (ipc_server.cpp 85-141).
THEOREM AnswersAreAsked == Spec => []NoUnsolicitedAnswer
  <1>1. Inv => NoUnsolicitedAnswer
    <2> SUFFICES ASSUME Inv, NEW t \in Terminals, outbox[t] # << >>
                 PROVE  Len(outbox[t]) = 1 /\ client[t] \in {"path", "reply", "closed"}
      BY DEF NoUnsolicitedAnswer
    <2>1. outbox[t] \in Seq(Requests \union {Blank}) /\ Len(outbox[t]) # 0
      BY EmptyLen DEF Inv, TypeOK
    <2>2. TerminalOK(t)
      BY DEF Inv
    <2>3. client[t] \in {"off", "ask", "path", "prompt", "reply", "closed"}
      BY DEF Inv, TypeOK
    <2> QED BY <2>1, <2>2, <2>3 DEF TerminalOK, OneInFlight
  <1> QED BY <1>1, Invariance, PTL

\* The globals are the only way one terminal gets at another: a handler nobody
\* disturbed answers what its own terminal asked (ipc_server.cpp 85-141).
THEOREM UndisturbedAnswersOwn == Spec => []UndisturbedAnswerIsOwn
  <1>1. Inv => UndisturbedAnswerIsOwn
    BY DEF Inv, TerminalOK, OwnRequest, UndisturbedAnswerIsOwn
  <1> QED BY <1>1, Invariance, PTL
=============================================================================
