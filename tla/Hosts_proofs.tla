---------------------------- MODULE Hosts_proofs ----------------------------
(***************************************************************************)
(* Proofs about the hosts that keep their containers beside the document:  *)
(*   HostPanel  the panel of Photoshop and After Effects, for any number   *)
(*              of connections, presses and calls: the types, that no      *)
(*              accepted press is lost, that presses are a LossyFifo, and  *)
(*              that answers reach their own calls;                        *)
(*   Staging    the records of these hosts, Harmony and TVPaint, for any   *)
(*              documents, families and lengths: the text that holds them, *)
(*              that no record is lost, and that the Subset Manager shows  *)
(*              what is stored.                                            *)
(***************************************************************************)
EXTENDS HostPanel, Staging, SequenceTheorems, WellFoundedInduction, TLAPS

Places == {"poll", "tool", "listen", "call", "returned", "wait", "exit", "crashed", "hasty"}
MainType == [at : Places, early : BOOLEAN]
PanelType == [conn : 0..MaxConnections, open : BOOLEAN, number : Nat]
AnswerType == [conn : 0..MaxConnections, id : Nat, number : Nat, got : Nat]
HandlingType == [at : {"idle", "create", "fetch", "put"}, press : Nat, current : BOOLEAN]

-----------------------------------------------------------------------------
(* Sequences and records.                                                  *)

LEMMA Sequences ==
  ASSUME NEW S
  PROVE  /\ <<>> \in Seq(S)
         /\ \A s \in Seq(S), e \in S : Append(s, e) \in Seq(S)
         /\ \A s \in Seq(S) : s # <<>> => Head(s) \in S /\ Tail(s) \in Seq(S)
  OBVIOUS

\* The main thread goes to another place.
LEMMA MainParts ==
  ASSUME NEW m \in MainType, NEW at \in Places
  PROVE  /\ [m EXCEPT !.at = at] \in MainType
         /\ [m EXCEPT !.at = at].at = at /\ [m EXCEPT !.at = at].early = m.early
  BY DEF MainType

\* The panel loses its connection, or has a new one.
LEMMA PanelParts ==
  ASSUME NEW p \in PanelType
  PROVE  /\ [conn |-> p.conn, open |-> FALSE, number |-> p.number + 1] \in PanelType
         /\ p.conn < MaxConnections =>
              /\ [conn |-> p.conn + 1, open |-> TRUE, number |-> p.number] \in PanelType
              /\ p.conn + 1 \in 1..MaxConnections
         /\ p.conn \in 0..MaxConnections /\ p.number \in Nat
<1>1. p.conn \in 0..MaxConnections /\ p.number \in Nat
  BY DEF PanelType
<1>2. \A c \in 0..MaxConnections, o \in BOOLEAN, n \in Nat :
        [conn |-> c, open |-> o, number |-> n] \in PanelType
  BY DEF PanelType
<1>3. p.conn < MaxConnections => p.conn + 1 \in 1..MaxConnections /\ p.conn + 1 \in 0..MaxConnections
  BY <1>1, PanelAssumption
<1>4. p.number + 1 \in Nat
  BY <1>1
<1> QED
  BY <1>1, <1>2, <1>3, <1>4

\* Messages and calls.
LEMMA MessageParts ==
  /\ \A p \in Nat : PressMessage(p) \in UpType
  /\ \A s \in CallType : Result(s) \in UpType
  /\ \A s \in CallType, n \in Nat : [s EXCEPT !.open = n] \in CallType
  /\ \A i, n, o \in Nat : [id |-> i, number |-> n, open |-> o] \in CallType
  /\ \A m \in UpType : m.number \in Nat /\ m.id \in Nat
  /\ \A a \in AnswerType, n \in Nat : [a EXCEPT !.got = n] \in AnswerType
  /\ \A c \in 0..MaxConnections, i, n, g \in Nat :
       [conn |-> c, id |-> i, number |-> n, got |-> g] \in AnswerType
  BY DEF PressMessage, Result, UpType, CallType, AnswerType

\* The press in hand.
LEMMA HandlingParts ==
  /\ NoPress \in HandlingType
  /\ \A at \in {"create", "fetch", "put"}, p \in Nat : Handling(at, p) \in HandlingType
  /\ \A h \in HandlingType, c \in BOOLEAN : [h EXCEPT !.current = c] \in HandlingType
  /\ \A h \in HandlingType : h.press \in Nat
  BY DEF NoPress, Handling, HandlingType

\* A connection that is gone is taken out of the list of clients.
LEMMA CutOut ==
  ASSUME NEW S, NEW s \in Seq(S), NEW i \in DOMAIN s
  PROVE  SubSeq(s, 1, i - 1) \o SubSeq(s, i + 1, Len(s)) \in Seq(S)
<1>1. i \in 1..Len(s) /\ Len(s) \in Nat
  OBVIOUS
<1>2. SubSeq(s, 1, i - 1) \in Seq(S)
  BY <1>1
<1>3. SubSeq(s, i + 1, Len(s)) \in Seq(S)
  BY <1>1
<1> QED
  BY <1>2, <1>3

-----------------------------------------------------------------------------
(* Type correctness.                                                       *)

LEMMA InitTypes == Init => TypeOK
<1> SUFFICES ASSUME Init
             PROVE  TypeOK
  OBVIOUS
<1>1. PanelTypeOK
  BY PanelAssumption DEF Init, PanelTypeOK
<1>2. main \in MainType
  BY DEF Init, MainType, Places
<1>3. call \in AnswerType
  BY PanelAssumption DEF Init, NoCall, AnswerType
<1>4. ids \in [1..MaxConnections -> Nat]
  BY DEF Init
<1>5. isRunning \in BOOLEAN /\ thread \in {"new", "running", "ended"} /\ calls \in Nat
  BY DEF Init
<1>6. clients \in Seq(1..MaxConnections)
  BY DEF Init
<1>7. queue \in Seq(Nat) /\ accepted \in Seq(Nat) /\ shown \in Seq(Nat)
  BY DEF Init
<1>8. hasQueue \in BOOLEAN /\ handling \in HandlingType
  BY HandlingParts DEF Init
<1> QED
  BY <1>1, <1>2, <1>3, <1>4, <1>5, <1>6, <1>7, <1>8
     DEF TypeOK, AvalonTypeOK, MainType, AnswerType, Places, HandlingType

\* Steps of the web server's thread keep the types.
LEMMA ServerTypes == TypeOK /\ Server => TypeOK'
<1> SUFFICES ASSUME TypeOK, Server
             PROVE  TypeOK'
  OBVIOUS
<1> USE DEF TypeOK
<1>1. CASE ThreadRun
  <2>1. PanelTypeOK'
    BY <1>1 DEF ThreadRun, PanelTypeOK, hostVars
  <2>2. thread' \in {"new", "running", "ended"} /\ isRunning' \in BOOLEAN
    BY <1>1 DEF ThreadRun
  <2>3. UNCHANGED <<clients, ids, mainVars, queueVars>>
    BY <1>1 DEF ThreadRun
  <2> QED
    BY <2>1, <2>2, <2>3 DEF AvalonTypeOK, mainVars, queueVars
<1>2. CASE CheckShutdown
  <2>0. panel' \in PanelType
    BY <1>2, PanelParts DEF CheckShutdown, Disconnected, PanelTypeOK, PanelType
  <2>1. PanelTypeOK'
    BY <1>2, <2>0 DEF CheckShutdown, Disconnected, PanelTypeOK, PanelType
  <2>2. AvalonTypeOK'
    BY <1>2 DEF CheckShutdown, AvalonTypeOK, mainVars, queueVars
  <2> QED
    BY <2>1, <2>2
<1>3. CASE ServerReceive
  <2> DEFINE m == Head(up)
  <2>1. m \in UpType /\ Tail(up) \in Seq(UpType)
    BY <1>3 DEF ServerReceive, PanelTypeOK
  <2>2. PanelTypeOK'
    BY <1>3, <2>1 DEF ServerReceive, PanelTypeOK, hostVars
  <2>3. thread' = thread /\ isRunning' = isRunning /\ clients' = clients /\ ids' = ids
        /\ calls' = calls
    BY <1>3 DEF ServerReceive, serverVars, mainVars
  <2>4. CASE m.what = "press"
    <3>1. m.number \in Nat
      BY <2>1, MessageParts
    <3>2. UNCHANGED <<queue, hasQueue, accepted, shown, main, call>>
      BY <1>3, <2>4 DEF ServerReceive, mainVars
    <3>3. handling' \in HandlingType
      <4>1. handling' = Handling("create", m.number) \/ handling' = Handling("fetch", m.number)
        BY <1>3, <2>4 DEF ServerReceive, ExecuteInMainThread
      <4> QED
        BY <3>1, <4>1, HandlingParts
    <3> QED
      BY <2>2, <2>3, <3>2, <3>3 DEF AvalonTypeOK, HandlingType
  <2>5. CASE m.what # "press"
    <3>1. UNCHANGED <<queue, hasQueue, handling, accepted, shown>>
      BY <1>3, <2>5 DEF ServerReceive, queueVars
    <3>2. main' \in MainType
      <4>1. main \in MainType
        BY DEF AvalonTypeOK, MainType, Places
      <4>2. main' = main \/ main' = [main EXCEPT !.at = "returned"]
        BY <1>3, <2>5 DEF ServerReceive, To
      <4>3. "returned" \in Places
        BY DEF Places
      <4> QED
        BY <4>1, <4>2, <4>3, MainParts
    <3>3. call' \in AnswerType
      BY <1>3, <2>1, <2>5, MessageParts DEF ServerReceive, AvalonTypeOK, AnswerType
    <3> QED
      BY <2>2, <2>3, <3>1, <3>2, <3>3 DEF AvalonTypeOK, MainType, AnswerType, Places
  <2> QED
    BY <2>4, <2>5
<1>4. CASE ClientGone
  <2>1. clients' \in Seq(1..MaxConnections)
    <3>1. PICK i \in DOMAIN clients :
            clients' = SubSeq(clients, 1, i - 1) \o SubSeq(clients, i + 1, Len(clients))
      BY <1>4 DEF ClientGone
    <3>2. clients \in Seq(1..MaxConnections)
      BY DEF AvalonTypeOK
    <3> QED
      BY <3>1, <3>2, CutOut
  <2>2. main' \in MainType
    <3>1. main \in MainType
      BY DEF AvalonTypeOK, MainType, Places
    <3>2. main' = main \/ main' = [main EXCEPT !.at = "tool"]
      BY <1>4 DEF ClientGone, To
    <3>3. "tool" \in Places
      BY DEF Places
    <3> QED
      BY <3>1, <3>2, <3>3, MainParts
  <2>3. PanelTypeOK'
    BY <1>4 DEF ClientGone, PanelTypeOK, hostVars
  <2> QED
    BY <1>4, <2>1, <2>2, <2>3 DEF ClientGone, AvalonTypeOK, MainType, Places, queueVars
<1>5. CASE HandlePress
  <2>1. /\ handling.press \in Nat /\ queue \in Seq(Nat) /\ accepted \in Seq(Nat)
        /\ hasQueue \in BOOLEAN
    BY HandlingParts DEF AvalonTypeOK, HandlingType
  <2>2. handling' \in HandlingType
    <3>1. \/ handling' = Handling("fetch", handling.press)
          \/ handling' = Handling("put", handling.press) \/ handling' = NoPress
      BY <1>5 DEF HandlePress, CreateQueue, FetchQueue, PutPress
    <3> QED
      BY <2>1, <3>1, HandlingParts
  <2>3. queue' \in Seq(Nat) /\ accepted' \in Seq(Nat) /\ hasQueue' \in BOOLEAN
    <3>1. queue' = <<>> \/ queue' = queue \/ queue' = Append(queue, handling.press)
      BY <1>5 DEF HandlePress, CreateQueue, FetchQueue, PutPress
    <3>2. accepted' = accepted \/ accepted' = Append(accepted, handling.press)
      BY <1>5 DEF HandlePress, CreateQueue, FetchQueue, PutPress
    <3>3. hasQueue' \in {hasQueue, TRUE}
      BY <1>5 DEF HandlePress, CreateQueue, FetchQueue, PutPress
    <3>4. queue' \in Seq(Nat)
      BY <2>1, <3>1, Sequences
    <3>5. accepted' \in Seq(Nat)
      BY <2>1, <3>2, Sequences
    <3> QED
      BY <2>1, <3>3, <3>4, <3>5
  <2>4. UNCHANGED <<hostVars, serverVars, up, down, mainVars, shown>>
    BY <1>5 DEF HandlePress, CreateQueue, FetchQueue, PutPress
  <2>5. PanelTypeOK'
    BY <2>4 DEF PanelTypeOK, hostVars
  <2> QED
    BY <2>2, <2>3, <2>4, <2>5 DEF AvalonTypeOK, HandlingType, serverVars, mainVars
<1> QED
  BY <1>1, <1>2, <1>3, <1>4, <1>5 DEF Server

\* Steps of the panel and of the host's process keep the types.
LEMMA HostTypes == TypeOK /\ Host => TypeOK'
<1> SUFFICES ASSUME TypeOK, Host
             PROVE  TypeOK'
  OBVIOUS
<1> USE DEF TypeOK
<1>1. CASE Connect
  <2>1. panel' \in PanelType /\ panel.conn + 1 \in 1..MaxConnections
    BY <1>1, PanelParts DEF Connect, PanelTypeOK, PanelType
  <2>2. up' \in Seq(UpType)
    <3>1. \A i \in DOMAIN callQueue : PressMessage(callQueue[i]) \in UpType
      BY MessageParts DEF PanelTypeOK
    <3>2. DOMAIN callQueue = 1..Len(callQueue) /\ Len(callQueue) \in Nat
      BY DEF PanelTypeOK
    <3> QED
      BY <1>1, <3>1, <3>2 DEF Connect
  <2>3. PanelTypeOK'
    BY <1>1, <2>1, <2>2 DEF Connect, PanelTypeOK, PanelType
  <2>4. AvalonTypeOK'
    BY <1>1, <2>1 DEF Connect, AvalonTypeOK, mainVars, queueVars
  <2> QED
    BY <2>3, <2>4
<1>2. CASE Lose \/ ProcessEnds
  <2>1. panel' \in PanelType
    BY <1>2, PanelParts DEF Lose, ProcessEnds, Disconnected, PanelTypeOK, PanelType
  <2>2. PanelTypeOK'
    <3>1. CASE Lose
      BY <3>1, <2>1 DEF Lose, PanelTypeOK, PanelType
    <3>2. CASE ProcessEnds
      BY <3>2, <2>1 DEF ProcessEnds, PanelTypeOK, PanelType
    <3> QED
      BY <1>2, <3>1, <3>2
  <2>3. AvalonTypeOK'
    BY <1>2 DEF Lose, ProcessEnds, AvalonTypeOK, serverVars, mainVars, queueVars
  <2> QED
    BY <2>2, <2>3
<1>3. CASE Press \/ RejectQueue
  <2>1. presses + 1 \in Nat /\ PressMessage(presses + 1) \in UpType
    BY MessageParts DEF PanelTypeOK
  <2>2. PanelTypeOK'
    <3>1. CASE Press
      <4>0. up \in Seq(UpType) /\ callQueue \in Seq(Nat)
        BY DEF PanelTypeOK
      <4>1. up' \in Seq(UpType)
        BY <2>1, <3>1, <4>0, Sequences DEF Press
      <4>2. callQueue' \in Seq(Nat)
        BY <2>1, <3>1, <4>0, Sequences DEF Press
      <4> QED
        BY <2>1, <3>1, <4>1, <4>2 DEF Press, PanelTypeOK
    <3>2. CASE RejectQueue
      BY <3>2 DEF RejectQueue, PanelTypeOK
    <3> QED
      BY <1>3, <3>1, <3>2
  <2>3. AvalonTypeOK'
    BY <1>3 DEF Press, RejectQueue, AvalonTypeOK, serverVars, mainVars, queueVars
  <2> QED
    BY <2>2, <2>3
<1>4. CASE HandleCall
  <2>1. Head(down) \in CallType /\ Tail(down) \in Seq(CallType)
    BY <1>4 DEF HandleCall, PanelTypeOK
  <2>2. Route(Head(down)) \in CallType
    BY <2>1, MessageParts, PanelParts DEF Route, PanelTypeOK, PanelType
  <2>3. PanelTypeOK'
    BY <1>4, <2>1, <2>2 DEF HandleCall, PanelTypeOK
  <2>4. AvalonTypeOK'
    BY <1>4 DEF HandleCall, AvalonTypeOK, serverVars, mainVars, queueVars
  <2> QED
    BY <2>3, <2>4
<1>5. CASE ScriptEnds
  <2>1. PICK s \in scripts : /\ scripts' = scripts \ {s}
                             /\ up' = IF Answers(s) THEN Append(up, Result(s)) ELSE up
    BY <1>5 DEF ScriptEnds
  <2>2. Result(s) \in UpType
    BY <2>1, MessageParts DEF PanelTypeOK
  <2>3. PanelTypeOK'
    BY <1>5, <2>1, <2>2 DEF ScriptEnds, PanelTypeOK
  <2>4. AvalonTypeOK'
    BY <1>5 DEF ScriptEnds, AvalonTypeOK, serverVars, mainVars, queueVars
  <2> QED
    BY <2>3, <2>4
<1> QED
  BY <1>1, <1>2, <1>3, <1>4, <1>5 DEF Host

\* Steps of the main thread keep the types.
LEMMA MainTypes == TypeOK /\ Main => TypeOK'
<1> SUFFICES ASSUME TypeOK, Main
             PROVE  TypeOK'
  OBVIOUS
<1> USE DEF TypeOK
<1>1. main' \in MainType
  <2>1. main \in MainType
    BY DEF AvalonTypeOK, MainType, Places
  <2>2. \/ \E at \in Places : main' = [main EXCEPT !.at = at]
        \/ main' = [at |-> "listen", early |-> FALSE]
    <3>1. CASE PollLaunch
      BY <3>1 DEF PollLaunch, To, Places
    <3>2. CASE BeginListening \/ Listen
      BY <3>2 DEF BeginListening, Listen, To, Places
    <3>3. CASE SendCall \/ CallReturns \/ CloseTool \/ ToolRaises \/ Waited
      BY <3>3 DEF SendCall, CallReturns, CloseTool, ToolRaises, Waited, To, Places
    <3> QED
      BY <3>1, <3>2, <3>3 DEF Main
  <2>3. CASE main' = [at |-> "listen", early |-> FALSE]
    BY <2>3 DEF MainType, Places
  <2>4. CASE \E at \in Places : main' = [main EXCEPT !.at = at]
    <3>1. PICK at \in Places : main' = [main EXCEPT !.at = at]
      BY <2>4
    <3>2. [main EXCEPT !.at = at] \in MainType
      BY <2>1, MainParts
    <3> QED
      BY <3>1, <3>2
  <2> QED
    BY <2>2, <2>3, <2>4
<1>2. isRunning' \in BOOLEAN
  BY DEF Main, PollLaunch, BeginListening, Listen, SendCall, CallReturns, CloseTool,
         ToolRaises, Waited, Stop, AvalonTypeOK
<1>3. /\ queue' \in Seq(Nat) /\ accepted' \in Seq(Nat) /\ shown' \in Seq(Nat)
      /\ hasQueue' \in BOOLEAN /\ handling' \in HandlingType
  <2>1. /\ queue \in Seq(Nat) /\ accepted \in Seq(Nat) /\ shown \in Seq(Nat)
        /\ hasQueue \in BOOLEAN /\ handling \in HandlingType
    BY DEF AvalonTypeOK, HandlingType
  <2>2. CASE BeginListening
    <3>1. \/ handling' = handling
          \/ handling' = [handling EXCEPT !.current = handling.at # "put"]
      BY <2>2 DEF BeginListening
    <3>2. handling' \in HandlingType
      BY <2>1, <3>1, HandlingParts
    <3> QED
      BY <2>1, <2>2, <3>2, Sequences DEF BeginListening
  <2>3. CASE Listen
    BY <2>1, <2>3, Sequences DEF Listen
  <2>4. CASE PollLaunch \/ SendCall \/ CallReturns \/ CloseTool \/ ToolRaises \/ Waited
    BY <2>1, <2>4 DEF PollLaunch, SendCall, CallReturns, CloseTool, ToolRaises, Waited, queueVars
  <2> QED
    BY <2>2, <2>3, <2>4 DEF Main
<1>4. CASE SendCall
  <2> DEFINE c == Head(clients)
  <2>1. c \in 1..MaxConnections /\ ids[c] + 1 \in Nat /\ calls + 1 \in Nat
    <3>1. clients # <<>> /\ clients \in Seq(1..MaxConnections)
      BY <1>4 DEF SendCall, AvalonTypeOK
    <3>2. c \in 1..MaxConnections
      BY <3>1, Sequences
    <3> QED
      BY <3>2 DEF AvalonTypeOK
  <2>2. ids' \in [1..MaxConnections -> Nat] /\ calls' \in Nat
    BY <1>4, <2>1 DEF SendCall, AvalonTypeOK
  <2>3. c \in 0..MaxConnections
    BY <2>1, PanelAssumption
  <2>4. call' \in AnswerType
    <3>1. call' = [conn |-> c, id |-> ids[c] + 1, number |-> calls + 1, got |-> 0]
      BY <1>4 DEF SendCall
    <3> HIDE DEF c
    <3> QED
      BY <2>1, <2>3, <3>1, MessageParts
  <2>5. down' \in Seq(CallType)
    <3>1. [id |-> ids[c] + 1, number |-> calls + 1, open |-> 0] \in CallType
      BY <2>1, MessageParts
    <3> QED
      BY <1>4, <3>1 DEF SendCall, PanelTypeOK
  <2>6. PanelTypeOK'
    BY <1>4, <2>5 DEF SendCall, PanelTypeOK, hostVars
  <2> QED
    BY <1>1, <1>2, <1>3, <1>4, <2>2, <2>4, <2>6
       DEF SendCall, AvalonTypeOK, MainType, AnswerType, Places, HandlingType
<1>5. CASE ~SendCall
  <2>1. UNCHANGED <<hostVars, thread, clients, ids, up, down, call, calls>>
    BY <1>5 DEF Main, PollLaunch, BeginListening, Listen, CallReturns, CloseTool, ToolRaises,
                Waited, mainKeeps
  <2>2. PanelTypeOK'
    BY <2>1 DEF PanelTypeOK, hostVars
  <2> QED
    BY <1>1, <1>2, <1>3, <2>1, <2>2 DEF AvalonTypeOK, MainType, Places, HandlingType
<1> QED
  BY <1>4, <1>5

\* Every step keeps the types.
LEMMA StepTypes == TypeOK /\ [Next]_vars => TypeOK'
<1>1. TypeOK /\ UNCHANGED vars => TypeOK'
  BY DEF TypeOK, PanelTypeOK, AvalonTypeOK, vars, hostVars, serverVars, mainVars, queueVars
<1> QED
  BY <1>1, ServerTypes, HostTypes, MainTypes DEF Next

\* Every variable has its type in every state.
THEOREM TypeCorrect == Spec => []TypeOK
<1> QED
  BY InitTypes, StepTypes, PTL DEF Spec

-----------------------------------------------------------------------------
(* Presses.                                                                *)

\* Until the main thread listens it has taken nothing from the queue, and what
\* is queued does not count: the queue is made anew.  A press that was in hand
\* then is the first one handled after: none has been, and none is queued, as
\* long as it makes a queue or holds one that was replaced.
EarlyInv ==
  /\ main.early => shown = <<>> /\ accepted = <<>>
  /\ main.at = "listen" => ~main.early
  /\ ~main.early => hasQueue
  /\ ~main.early /\ handling.at = "create" => accepted = <<>> /\ shown = <<>> /\ queue = <<>>
  /\ ~handling.current => ~main.early /\ accepted = <<>> /\ shown = <<>> /\ queue = <<>>

PressInv == TypeOK /\ EarlyInv /\ PressesKept

\* A press is added at the end of what is to be shown, and taken from the
\* queue to the end of what was shown: the order of all is that of the presses.
LEMMA AddAtEnd ==
  ASSUME NEW s \in Seq(Nat), NEW q \in Seq(Nat), NEW p \in Nat
  PROVE  s \o Append(q, p) = Append(s \o q, p)
<1>1. <<p>> \in Seq(Nat) /\ s \o q \in Seq(Nat)
  OBVIOUS
<1>2. Append(q, p) = q \o <<p>> /\ Append(s \o q, p) = (s \o q) \o <<p>>
  BY <1>1, AppendIsConcat
<1> QED
  BY <1>1, <1>2, ConcatAssociative

\* Taking the first press of the queue keeps the order of those done and waiting.
LEMMA TakeFirst ==
  ASSUME NEW s \in Seq(Nat), NEW q \in Seq(Nat), q # <<>>
  PROVE  Append(s, Head(q)) \o Tail(q) = s \o q
<1>1. Head(q) \in Nat /\ Tail(q) \in Seq(Nat) /\ <<Head(q)>> \in Seq(Nat)
  OBVIOUS
<1>2. Append(s, Head(q)) = s \o <<Head(q)>>
  BY <1>1, AppendIsConcat
<1>3. <<Head(q)>> \o Tail(q) = q
  OBVIOUS
<1>4. (s \o <<Head(q)>>) \o Tail(q) = s \o (<<Head(q)>> \o Tail(q))
  <2>1. \A h, t \in Seq(Nat) : (s \o h) \o t = s \o (h \o t)
    OBVIOUS
  <2> QED
    BY <1>1, <2>1, Zenon
<1>5. Append(s, Head(q)) \o Tail(q) = (s \o <<Head(q)>>) \o Tail(q)
  BY <1>2, Zenon
<1>6. s \o (<<Head(q)>> \o Tail(q)) = s \o q
  BY <1>3, Zenon
<1> QED
  BY <1>4, <1>5, <1>6, Zenon

\* One more press behind the others, when the first may be missing.
LEMMA AddBehind ==
  ASSUME NEW a \in Seq(Nat), NEW p \in Nat
  PROVE  /\ Append(a, p) # <<>>
         /\ a # <<>> => Tail(Append(a, p)) = Append(Tail(a), p)
         /\ a = <<>> => Tail(Append(a, p)) = <<>>
  OBVIOUS

\* A step that moves the main thread, but neither presses nor its place in
\* launch.
LEMMA PressesAlone ==
  ASSUME PressInv, UNCHANGED <<queue, hasQueue, handling, accepted, shown>>,
         main'.early = main.early, main'.at = "listen" => main.at = "listen" \/ ~main.early
  PROVE  EarlyInv' /\ PressesKept'
  BY DEF PressInv, EarlyInv, PressesKept

\* The server's thread handles a press.  Where the main thread listens, a queue
\* is only made when nothing has been handled, and the press put last goes
\* behind the others.
LEMMA PressHandled == PressInv /\ HandlePress => EarlyInv' /\ PressesKept'
<1> SUFFICES ASSUME PressInv, HandlePress
             PROVE  EarlyInv' /\ PressesKept'
  OBVIOUS
<1>0. /\ queue \in Seq(Nat) /\ shown \in Seq(Nat) /\ accepted \in Seq(Nat)
      /\ handling.press \in Nat /\ handling.current \in BOOLEAN /\ main' = main
  BY DEF HandlePress, CreateQueue, FetchQueue, PutPress, mainVars, PressInv, TypeOK, AvalonTypeOK
<1>1. CASE CreateQueue
  <2>1. /\ queue' = <<>> /\ hasQueue' /\ handling' = Handling("fetch", handling.press)
        /\ UNCHANGED <<accepted, shown>> /\ handling.at = "create"
    BY <1>1 DEF CreateQueue
  <2> QED
    BY <1>0, <2>1 DEF PressInv, EarlyInv, PressesKept, Handling
<1>2. CASE FetchQueue
  BY <1>0, <1>2 DEF FetchQueue, PressInv, EarlyInv, PressesKept, Handling
<1>3. CASE PutPress
  <2> DEFINE p == handling.press
  <2>1. /\ handling' = NoPress /\ UNCHANGED <<hasQueue, shown>>
        /\ queue' = IF handling.current THEN Append(queue, p) ELSE queue
        /\ accepted' = IF main.early THEN accepted ELSE Append(accepted, p)
    BY <1>3 DEF PutPress
  <2>2. EarlyInv'
    BY <1>0, <2>1 DEF PressInv, EarlyInv, NoPress
  <2>3. PressesKept'
    <3> SUFFICES ASSUME ~main.early
                 PROVE  \/ shown' \o queue' = accepted'
                        \/ accepted' # <<>> /\ shown' \o queue' = Tail(accepted')
      BY <1>0 DEF PressesKept
    <3>1. accepted' = Append(accepted, p)
      BY <2>1
    <3>2. CASE handling.current
      <4>1. shown' \o queue' = Append(shown \o queue, p)
        BY <1>0, <2>1, <3>2, AddAtEnd
      <4>2. \/ shown \o queue = accepted \/ (accepted # <<>> /\ shown \o queue = Tail(accepted))
        BY DEF PressInv, PressesKept
      <4> QED
        BY <1>0, <3>1, <4>1, <4>2, AddBehind
    <3>3. CASE ~handling.current
      <4>1. accepted = <<>> /\ shown' = <<>> /\ queue' = <<>>
        BY <2>1, <3>3 DEF PressInv, EarlyInv
      <4>2. shown' \o queue' = <<>>
        BY <4>1
      <4>3. accepted' # <<>> /\ Tail(accepted') = <<>>
        BY <1>0, <3>1, <4>1, AddBehind
      <4> QED
        BY <4>2, <4>3
    <3> QED
      BY <1>0, <3>2, <3>3
  <2> QED
    BY <2>2, <2>3
<1> QED
  BY <1>1, <1>2, <1>3 DEF HandlePress

\* The server's thread keeps what is known of the presses.
LEMMA PressServer == PressInv /\ Server => EarlyInv' /\ PressesKept'
<1> SUFFICES ASSUME PressInv, Server
             PROVE  EarlyInv' /\ PressesKept'
  OBVIOUS
<1>0. main \in MainType
  BY DEF PressInv, TypeOK, AvalonTypeOK, MainType, Places
<1>1. CASE ServerReceive
  <2>1. CASE Head(up).what = "press"
    <3>1. /\ UNCHANGED <<queue, hasQueue, accepted, shown, main>>
          /\ handling' = Handling(IF hasQueue THEN "fetch" ELSE "create", Head(up).number)
      BY <1>1, <2>1 DEF ServerReceive, ExecuteInMainThread, mainVars
    <3>2. handling'.current /\ (hasQueue => handling'.at # "create")
      BY <3>1 DEF Handling
    <3> QED
      BY <3>1, <3>2 DEF PressInv, EarlyInv, PressesKept
  <2>2. CASE Head(up).what # "press"
    <3>1. UNCHANGED <<queue, hasQueue, handling, accepted, shown>>
      BY <1>1, <2>2 DEF ServerReceive, queueVars
    <3>2. main' = main \/ main' = [main EXCEPT !.at = "returned"]
      BY <1>1, <2>2 DEF ServerReceive, To
    <3>3. CASE main' = main
      BY <3>1, <3>3, PressesAlone
    <3>4. CASE main' = [main EXCEPT !.at = "returned"]
      <4>1. main'.early = main.early /\ main'.at = "returned"
        BY <1>0, <3>4, MainParts DEF Places
      <4> QED
        BY <3>1, <4>1, PressesAlone
    <3> QED
      BY <3>2, <3>3, <3>4
  <2> QED
    BY <2>1, <2>2
<1>2. CASE ThreadRun \/ CheckShutdown
  BY <1>2, PressesAlone DEF ThreadRun, CheckShutdown, queueVars, mainVars
<1>3. CASE ClientGone
  <2>1. UNCHANGED <<queue, hasQueue, handling, accepted, shown>>
    BY <1>3 DEF ClientGone, queueVars
  <2>2. main' = main \/ main' = [main EXCEPT !.at = "tool"]
    BY <1>3 DEF ClientGone, To
  <2>3. CASE main' = main
    BY <2>1, <2>3, PressesAlone
  <2>4. CASE main' = [main EXCEPT !.at = "tool"]
    <3>1. main'.early = main.early /\ main'.at = "tool"
      BY <1>0, <2>4, MainParts DEF Places
    <3> QED
      BY <2>1, <3>1, PressesAlone
  <2> QED
    BY <2>2, <2>3, <2>4
<1>4. CASE HandlePress
  BY <1>4, PressHandled
<1> QED
  BY <1>1, <1>2, <1>3, <1>4 DEF Server

\* The panel and the host keep what is known of the presses.
LEMMA PressHost == PressInv /\ Host => EarlyInv' /\ PressesKept'
<1> SUFFICES ASSUME PressInv, Host
             PROVE  EarlyInv' /\ PressesKept'
  OBVIOUS
<1>1. UNCHANGED <<queue, hasQueue, handling, accepted, shown, main>>
  BY DEF Host, Connect, Lose, Press, RejectQueue, HandleCall, ScriptEnds, ProcessEnds,
         queueVars, mainVars
<1> QED
  BY <1>1, PressesAlone

\* The main thread keeps what is known of the presses.
LEMMA PressMain == PressInv /\ Main => EarlyInv' /\ PressesKept'
<1> SUFFICES ASSUME PressInv, Main
             PROVE  EarlyInv' /\ PressesKept'
  OBVIOUS
<1>0. main \in MainType
  BY DEF PressInv, TypeOK, AvalonTypeOK, MainType, Places
<1>1. CASE BeginListening
  <2>1. shown = <<>> /\ accepted = <<>> /\ UNCHANGED <<accepted, shown>>
    BY <1>1 DEF BeginListening, PressInv, EarlyInv
  <2>2. CASE clients = <<>>
    <3>1. UNCHANGED <<queue, hasQueue, handling>> /\ main' = [main EXCEPT !.at = "wait"]
      BY <1>1, <2>2 DEF BeginListening, To
    <3>2. main'.early = main.early /\ main'.at # "listen"
      BY <1>0, <3>1, MainParts DEF Places
    <3> QED
      BY <2>1, <3>1, <3>2, PressesAlone
  <2>3. CASE clients # <<>>
    <3>1. queue' = <<>> /\ hasQueue' /\ main' = [at |-> "listen", early |-> FALSE]
      BY <1>1, <2>3 DEF BeginListening
    <3>2. shown' \o queue' = accepted'
      BY <2>1, <3>1
    <3> QED
      BY <2>1, <3>1, <3>2 DEF EarlyInv, PressesKept
  <2> QED
    BY <2>2, <2>3
<1>2. CASE Listen /\ process # "ended"
  <2>1. /\ queue # <<>> /\ queue' = Tail(queue) /\ shown' = Append(shown, Head(queue))
        /\ UNCHANGED <<hasQueue, handling, accepted>> /\ main' = [main EXCEPT !.at = "tool"]
        /\ main.at = "listen"
    BY <1>2 DEF Listen, To
  <2>2. main'.early = main.early /\ main'.at # "listen" /\ ~main.early
    BY <1>0, <2>1, MainParts DEF Places, PressInv, EarlyInv
  <2>3. shown \in Seq(Nat) /\ queue \in Seq(Nat)
    BY DEF PressInv, TypeOK, AvalonTypeOK
  <2>4. shown' \o queue' = shown \o queue
    BY <2>1, <2>3, TakeFirst
  <2> QED
    BY <2>1, <2>2, <2>4 DEF EarlyInv, PressesKept, PressInv
<1>3. CASE Listen /\ process = "ended"
  <2>1. /\ UNCHANGED <<queue, hasQueue, handling, accepted, shown>>
        /\ main' = [main EXCEPT !.at = "exit"]
    BY <1>3 DEF Listen, To
  <2>2. main'.early = main.early /\ main'.at # "listen"
    BY <1>0, <2>1, MainParts DEF Places
  <2> QED
    BY <2>1, <2>2, PressesAlone
<1>4. CASE PollLaunch \/ SendCall \/ CallReturns \/ CloseTool \/ ToolRaises \/ Waited
  <2>1. UNCHANGED <<queue, hasQueue, handling, accepted, shown>>
    BY <1>4 DEF PollLaunch, SendCall, CallReturns, CloseTool, ToolRaises, Waited, queueVars
  <2>2. \E at \in Places : main' = [main EXCEPT !.at = at] /\ (at = "listen" => ~main.early)
    BY <1>4 DEF PollLaunch, SendCall, CallReturns, CloseTool, ToolRaises, Waited, To, Places
  <2>3. main'.early = main.early /\ (main'.at = "listen" => ~main.early)
    BY <1>0, <2>2, MainParts
  <2> QED
    BY <2>1, <2>3, PressesAlone
<1> QED
  BY <1>1, <1>2, <1>3, <1>4 DEF Main

\* No press that the server's thread has handled since the main thread listens
\* is lost, shown twice or overtaken, whatever happens to the connection and the
\* calls and however the two threads take turns at the queue: except the one
\* press that was in hand when the main thread began to listen.
THEOREM PressesAreKept == Spec => []PressesKept
<1>1. Init => EarlyInv /\ PressesKept
  BY DEF Init, EarlyInv, PressesKept, NoPress
<1>2. PressInv /\ UNCHANGED vars => EarlyInv' /\ PressesKept'
  BY PressesAlone DEF vars, queueVars, mainVars
<1>3. PressInv /\ [Next]_vars => PressInv'
  BY <1>2, StepTypes, PressServer, PressHost, PressMain DEF PressInv, Next
<1>4. Init => PressInv
  BY <1>1, InitTypes DEF PressInv
<1>5. PressInv => PressesKept
  BY DEF PressInv
<1> QED
  BY <1>3, <1>4, <1>5, PTL DEF Spec

-----------------------------------------------------------------------------
(***************************************************************************)
(* HostPanel implements LossyFifo.  A press waits in the panel for a       *)
(* connection or is on its way to the server, then it is in hand of the    *)
(* server's thread and queued.  The invariant is that presses never        *)
(* overtake each other: a press waits in the panel only while nothing can  *)
(* be on its way, so that what waited is not overtaken by what is sent;    *)
(* the one in hand is older than these, and all queued before are older.   *)
(***************************************************************************)
Waiting  == Range(callQueue)
OnTheWay == PressesOf(Range(up))
Queued   == Range(queue)

Before(A, B) == \A a \in A, b \in B : a < b
Rising(s) == \A i, j \in DOMAIN s : i < j => s[i] < s[j]
PressesRise(s) ==
  \A i, j \in DOMAIN s :
    i < j /\ s[i].what = "press" /\ s[j].what = "press" => s[i].number < s[j].number

OnePlace == IF panel.open THEN callQueue = <<>> ELSE up = <<>>

OrderInv ==
  /\ OnePlace
  /\ Rising(callQueue) /\ PressesRise(up) /\ Rising(queue)
  /\ Before(Queued, InHand \cup OnTheWay \cup Waiting)
  /\ Before(InHand, OnTheWay \cup Waiting)
  /\ \A k \in Queued \cup InHand \cup OnTheWay \cup Waiting : k <= presses

\* What a step has to show: it keeps the order and is a step of LossyFifo.
FifoStep == OrderInv' /\ [Panel!Next]_(Panel!vars)

\* The presses in a union, and in one message.
LEMMA PressesIn ==
  /\ \A A, B : PressesOf(A \cup B) = PressesOf(A) \cup PressesOf(B)
  /\ \A m : m.what = "press" => PressesOf({m}) = {m.number}
  /\ \A m : m.what # "press" => PressesOf({m}) = {}
  /\ PressesOf({}) = {}
  BY DEF PressesOf

\* Nothing is in an empty sequence, and it rises.
LEMMA EmptyRises ==
  Range(<<>>) = {} /\ PressesOf(Range(<<>>)) = {} /\ Rising(<<>>) /\ PressesRise(<<>>)
<1>1. Range(<<>>) = {}
  BY DEF Range
<1> QED
  BY <1>1, PressesIn DEF Rising, PressesRise

\* What a sequence holds after one more element.
LEMMA AppendRange ==
  ASSUME NEW S, NEW s \in Seq(S), NEW x \in S
  PROVE  Range(Append(s, x)) = Range(s) \cup {x}
<1> DEFINE t == Append(s, x)
<1>1. /\ Len(s) \in Nat /\ DOMAIN s = 1..Len(s) /\ DOMAIN t = 1..(Len(s) + 1)
      /\ t[Len(s) + 1] = x /\ \A i \in 1..Len(s) : t[i] = s[i]
  OBVIOUS
<1> HIDE DEF t
<1>2. \A i \in 1..(Len(s) + 1) : i \in 1..Len(s) \/ i = Len(s) + 1
  BY <1>1
<1>3. Len(s) + 1 \in DOMAIN t /\ \A i \in DOMAIN s : i \in DOMAIN t
  BY <1>1
<1>4. Range(t) = Range(s) \cup {x}
  BY <1>1, <1>2, <1>3, Zenon DEF Range
<1> QED
  BY <1>4 DEF t

\* What a sequence holds, by its head and its tail.
LEMMA SplitRange ==
  ASSUME NEW S, NEW s \in Seq(S), s # <<>>
  PROVE  Range(s) = {Head(s)} \cup Range(Tail(s))
<1>1. /\ Len(s) \in Nat /\ Len(s) >= 1 /\ DOMAIN s = 1..Len(s)
      /\ DOMAIN Tail(s) = 1..(Len(s) - 1) /\ Head(s) = s[1]
      /\ \A i \in 1..(Len(s) - 1) : Tail(s)[i] = s[i + 1]
  OBVIOUS
<1>2. ASSUME NEW x \in Range(s)
      PROVE  x \in {Head(s)} \cup Range(Tail(s))
  <2>1. PICK i \in 1..Len(s) : x = s[i]
    BY <1>1 DEF Range
  <2>2. CASE i = 1
    BY <1>1, <2>1, <2>2
  <2>3. CASE i # 1
    <3>1. i - 1 \in 1..(Len(s) - 1) /\ Tail(s)[i - 1] = s[i]
      BY <1>1, <2>1, <2>3
    <3> QED
      BY <1>1, <2>1, <3>1 DEF Range
  <2> QED
    BY <2>2, <2>3
<1>3. ASSUME NEW x \in {Head(s)} \cup Range(Tail(s))
      PROVE  x \in Range(s)
  <2>1. CASE x = Head(s)
    BY <1>1, <2>1 DEF Range
  <2>2. CASE x \in Range(Tail(s))
    <3>1. PICK i \in 1..(Len(s) - 1) : x = Tail(s)[i]
      BY <1>1, <2>2 DEF Range
    <3>2. i + 1 \in 1..Len(s) /\ x = s[i + 1]
      BY <1>1, <3>1
    <3> QED
      BY <1>1, <3>2 DEF Range
  <2> QED
    BY <1>3, <2>1, <2>2
<1> QED
  BY <1>2, <1>3

\* A rising queue has its smallest number at its head, and its tail rises; so
\* it does with a number above all others at its end.
LEMMA RisingQueue ==
  ASSUME NEW s \in Seq(Nat), Rising(s)
  PROVE  /\ s # <<>> => Rising(Tail(s)) /\ Before({Head(s)}, Range(Tail(s)))
         /\ \A k \in Nat : Before(Range(s), {k}) => Rising(Append(s, k))
<1>1. ASSUME s # <<>>
      PROVE  Rising(Tail(s)) /\ Before({Head(s)}, Range(Tail(s)))
  <2>1. /\ Len(s) \in Nat /\ Len(s) >= 1 /\ DOMAIN s = 1..Len(s)
        /\ DOMAIN Tail(s) = 1..(Len(s) - 1) /\ Head(s) = s[1]
        /\ \A i \in 1..(Len(s) - 1) : Tail(s)[i] = s[i + 1]
    BY <1>1
  <2>2. Rising(Tail(s))
    BY <2>1 DEF Rising
  <2>3. Before({Head(s)}, Range(Tail(s)))
    BY <2>1 DEF Rising, Before, Range
  <2> QED
    BY <2>2, <2>3
<1>2. ASSUME NEW k \in Nat, Before(Range(s), {k})
      PROVE  Rising(Append(s, k))
  BY <1>2 DEF Rising, Before, Range
<1> QED
  BY <1>1, <1>2

\* The same of the presses in a sequence of messages.
LEMMA RisingMessages ==
  ASSUME NEW s \in Seq(UpType), PressesRise(s)
  PROVE  /\ s # <<>> => /\ PressesRise(Tail(s))
                        /\ Before(PressesOf({Head(s)}), PressesOf(Range(Tail(s))))
         /\ \A m \in UpType :
              Before(PressesOf(Range(s)), PressesOf({m})) => PressesRise(Append(s, m))
<1>1. ASSUME s # <<>>
      PROVE  PressesRise(Tail(s)) /\ Before(PressesOf({Head(s)}), PressesOf(Range(Tail(s))))
  <2>1. /\ Len(s) \in Nat /\ Len(s) >= 1 /\ DOMAIN s = 1..Len(s)
        /\ DOMAIN Tail(s) = 1..(Len(s) - 1) /\ Head(s) = s[1]
        /\ \A i \in 1..(Len(s) - 1) : Tail(s)[i] = s[i + 1]
    BY <1>1
  <2>2. PressesRise(Tail(s))
    BY <2>1 DEF PressesRise
  <2>3. Before(PressesOf({Head(s)}), PressesOf(Range(Tail(s))))
    BY <2>1 DEF PressesRise, Before, Range, PressesOf
  <2> QED
    BY <2>2, <2>3
<1>2. ASSUME NEW m \in UpType, Before(PressesOf(Range(s)), PressesOf({m}))
      PROVE  PressesRise(Append(s, m))
  <2>1. ASSUME NEW i \in 1..Len(s), s[i].what = "press", m.what = "press"
        PROVE  s[i].number < m.number
    BY <1>2, <2>1 DEF Before, Range, PressesOf
  <2> QED
    BY <2>1 DEF PressesRise
<1> QED
  BY <1>1, <1>2

\* The presses anywhere are numbers.
LEMMA PressTypes ==
  ASSUME TypeOK
  PROVE  /\ \A k \in Queued \cup InHand \cup OnTheWay \cup Waiting : k \in Nat
         /\ queue \in Seq(Nat) /\ callQueue \in Seq(Nat) /\ up \in Seq(UpType)
         /\ presses \in Nat
<1>1. queue \in Seq(Nat) /\ callQueue \in Seq(Nat) /\ up \in Seq(UpType) /\ presses \in Nat
  BY DEF TypeOK, PanelTypeOK, AvalonTypeOK
<1>2. Queued \subseteq Nat /\ Waiting \subseteq Nat
  BY <1>1 DEF Queued, Waiting, Range
<1>3. OnTheWay \subseteq Nat
  BY <1>1, MessageParts DEF OnTheWay, Range, PressesOf
<1>4. InHand \subseteq Nat
  BY HandlingParts DEF InHand, TypeOK, AvalonTypeOK, HandlingType
<1> QED
  BY <1>1, <1>2, <1>3, <1>4

\* A step that loses some of the presses under way, or none: it may move all
\* that waits in the panel on its way.
LEMMA LosingStep ==
  ASSUME OrderInv, UNCHANGED <<presses, shown>>, OnePlace',
         Queued' \subseteq Queued, InHand' \subseteq InHand,
         OnTheWay' \cup Waiting' \subseteq OnTheWay \cup Waiting,
         Rising(callQueue'), PressesRise(up'), Rising(queue')
  PROVE  FifoStep
<1>1. OrderInv'
  <2>1. Before(Queued', InHand' \cup OnTheWay' \cup Waiting')
    BY DEF OrderInv, Before
  <2>2. Before(InHand', OnTheWay' \cup Waiting')
    BY DEF OrderInv, Before
  <2>3. \A k \in Queued' \cup InHand' \cup OnTheWay' \cup Waiting' : k <= presses'
    BY DEF OrderInv
  <2> QED
    BY <2>1, <2>2, <2>3 DEF OrderInv, Before
<1>2. Panel!Lose
  <2>1. Queued' \cup InHand' \cup OnTheWay' \cup Waiting' \subseteq
          Queued \cup InHand \cup OnTheWay \cup Waiting
    OBVIOUS
  <2> QED
    BY <2>1, Zenon DEF Panel!Lose, Queued, OnTheWay, Waiting
<1> QED
  BY <1>1, <1>2 DEF FifoStep, Panel!Next

\* A step that leaves the presses where they are.
LEMMA StayingStep ==
  ASSUME OrderInv, UNCHANGED <<presses, shown, queue, handling, up, callQueue, panel>>
  PROVE  FifoStep
<1>1. UNCHANGED <<Queued, InHand, OnTheWay, Waiting, OnePlace>>
  BY DEF Queued, InHand, OnTheWay, Waiting, OnePlace
<1> QED
  BY <1>1, LosingStep DEF OrderInv

\* A step after which nothing is under way between the panel and the server.
LEMMA DroppingStep ==
  ASSUME OrderInv, UNCHANGED <<presses, shown, queue, handling>>, up' = <<>>,
         callQueue' = <<>> \/ (callQueue' = callQueue /\ ~panel'.open)
  PROVE  FifoStep
<1>1. UNCHANGED <<Queued, InHand>> /\ OnTheWay' = {} /\ PressesRise(up')
  BY EmptyRises DEF Queued, InHand, OnTheWay
<1>2. Waiting' \subseteq Waiting /\ Rising(callQueue')
  BY EmptyRises DEF Waiting, OrderInv
<1>3. OnePlace'
  BY DEF OnePlace
<1>4. Rising(queue') /\ OnTheWay' \cup Waiting' \subseteq OnTheWay \cup Waiting
  BY <1>1, <1>2 DEF OrderInv
<1> QED
  BY <1>1, <1>2, <1>3, <1>4, LosingStep

\* A button's press goes behind all others: those on the way, or those waiting.
LEMMA PressStep ==
  ASSUME TypeOK, OrderInv, Press
  PROVE  FifoStep
<1> DEFINE n == presses + 1
           m == PressMessage(n)
<1>1. /\ presses' = n /\ UNCHANGED <<queue, handling, shown, panel>>
      /\ IF panel.open THEN up' = Append(up, m) /\ callQueue' = callQueue
         ELSE callQueue' = Append(callQueue, n) /\ up' = up
  BY DEF Press, queueVars
<1>2. /\ n \in Nat /\ presses \in Nat /\ m \in UpType
      /\ up \in Seq(UpType) /\ callQueue \in Seq(Nat)
  <2>1. presses \in Nat /\ up \in Seq(UpType) /\ callQueue \in Seq(Nat)
    BY PressTypes
  <2> QED
    BY <2>1, MessageParts
<1>3. PressesOf({m}) = {n}
  BY PressesIn DEF PressMessage
<1> HIDE DEF m
<1>4. \A k \in Queued \cup InHand \cup OnTheWay \cup Waiting : k < n /\ k \in Nat
  BY <1>2, PressTypes DEF OrderInv
<1>5. UNCHANGED <<Queued, InHand>> /\ Rising(queue')
  BY <1>1 DEF Queued, InHand, OrderInv
<1>6. /\ OnTheWay' \cup Waiting' = OnTheWay \cup Waiting \cup {n}
      /\ Rising(callQueue') /\ PressesRise(up') /\ OnePlace'
  <2>1. CASE panel.open
    <3>1. up' = Append(up, m) /\ UNCHANGED <<callQueue, Waiting>>
      BY <1>1, <2>1 DEF Waiting
    <3>2. Range(Append(up, m)) = Range(up) \cup {m}
      BY <1>2, AppendRange
    <3>3. OnTheWay' = OnTheWay \cup {n}
      BY <1>3, <3>1, <3>2, PressesIn DEF OnTheWay
    <3>4. Before(OnTheWay, PressesOf({m}))
      BY <1>3, <1>4 DEF Before
    <3>5. PressesRise(up')
      BY <1>2, <3>1, <3>4, RisingMessages DEF OrderInv, OnTheWay
    <3>6. OnePlace'
      BY <1>1, <2>1, <3>1 DEF OrderInv, OnePlace
    <3> QED
      BY <3>1, <3>3, <3>5, <3>6 DEF OrderInv
  <2>2. CASE ~panel.open
    <3>1. callQueue' = Append(callQueue, n) /\ UNCHANGED <<up, OnTheWay>>
      BY <1>1, <2>2 DEF OnTheWay
    <3>2. Waiting' = Waiting \cup {n}
      BY <1>2, <3>1, AppendRange DEF Waiting
    <3>3. Before(Waiting, {n})
      BY <1>4 DEF Before
    <3>4. Rising(callQueue')
      BY <1>2, <3>1, <3>3, RisingQueue DEF OrderInv, Waiting
    <3>5. OnePlace'
      BY <1>1, <2>2, <3>1 DEF OrderInv, OnePlace
    <3> QED
      BY <3>1, <3>2, <3>4, <3>5 DEF OrderInv
  <2> QED
    BY <2>1, <2>2
<1>7. OrderInv'
  <2>1. Before(Queued', InHand' \cup OnTheWay' \cup Waiting')
    BY <1>4, <1>5, <1>6 DEF OrderInv, Before
  <2>2. Before(InHand', OnTheWay' \cup Waiting')
    BY <1>4, <1>5, <1>6 DEF OrderInv, Before
  <2>3. \A k \in Queued' \cup InHand' \cup OnTheWay' \cup Waiting' : k <= presses'
    BY <1>1, <1>2, <1>4, <1>5, <1>6
  <2> QED
    BY <1>5, <1>6, <2>1, <2>2, <2>3 DEF OrderInv, Before
<1>8. Panel!Post
  <2>1. Queued' \cup InHand' \cup OnTheWay' \cup Waiting' =
          (Queued \cup InHand \cup OnTheWay \cup Waiting) \cup {presses'}
    BY <1>1, <1>5, <1>6
  <2> QED
    BY <1>1, <2>1, Zenon DEF Panel!Post, Queued, OnTheWay, Waiting
<1> QED
  BY <1>7, <1>8 DEF FifoStep, Panel!Next

\* A new connection sends what waited in the panel, in its order.
LEMMA ConnectStep ==
  ASSUME TypeOK, OrderInv, Connect
  PROVE  FifoStep
<1>1. /\ ~panel.open /\ panel'.open /\ callQueue' = <<>>
      /\ up' = [i \in DOMAIN callQueue |-> PressMessage(callQueue[i])]
      /\ UNCHANGED <<presses, queue, handling, shown>>
  BY DEF Connect, queueVars
<1>2. /\ DOMAIN up' = DOMAIN callQueue
      /\ \A i \in DOMAIN callQueue : up'[i].what = "press" /\ up'[i].number = callQueue[i]
  BY <1>1 DEF PressMessage
<1>3. OnTheWay' \subseteq Waiting
  BY <1>2 DEF OnTheWay, Waiting, PressesOf, Range
<1>4. PressesRise(up')
  BY <1>2 DEF OrderInv, Rising, PressesRise
<1>5. Waiting' = {} /\ Rising(callQueue')
  BY <1>1, EmptyRises DEF Waiting
<1>6. UNCHANGED <<Queued, InHand>> /\ Rising(queue') /\ OnePlace'
  BY <1>1 DEF Queued, InHand, OrderInv, OnePlace
<1> QED
  BY <1>1, <1>3, <1>4, <1>5, <1>6, LosingStep

\* The first message reaches the server: a press is in hand then, when none was.
LEMMA ReceiveStep ==
  ASSUME TypeOK, OrderInv, ServerReceive
  PROVE  FifoStep
<1> DEFINE m == Head(up)
<1>1. /\ up # <<>> /\ up' = Tail(up) /\ UNCHANGED <<presses, callQueue, panel, shown, queue>>
      /\ handling = NoPress
      /\ m.what = "press" => handling' = ExecuteInMainThread(m.number)
      /\ m.what # "press" => handling' = handling
  BY DEF ServerReceive, hostVars, queueVars
<1>2. up \in Seq(UpType) /\ m \in UpType
  <2>1. up \in Seq(UpType)
    BY PressTypes
  <2> QED
    BY <1>1, <2>1
<1>3. PressesOf(Range(up)) = PressesOf({m}) \cup PressesOf(Range(Tail(up)))
  <2>1. Range(up) = {m} \cup Range(Tail(up))
    BY <1>1, <1>2, SplitRange
  <2> QED
    BY <2>1, PressesIn
<1>4. OnTheWay = PressesOf({m}) \cup OnTheWay' /\ UNCHANGED <<Waiting, Queued>>
  BY <1>1, <1>3 DEF OnTheWay, Waiting, Queued
<1>5. PressesRise(up') /\ Before(PressesOf({m}), OnTheWay')
  BY <1>1, <1>2, RisingMessages DEF OrderInv, OnTheWay
<1>6. OnePlace' /\ Rising(callQueue') /\ Rising(queue') /\ InHand = {}
  BY <1>1 DEF OrderInv, OnePlace, InHand
<1>7. CASE m.what # "press"
  <2>1. UNCHANGED InHand
    BY <1>1, <1>7 DEF InHand
  <2> QED
    BY <1>1, <1>4, <1>5, <1>6, <2>1, LosingStep
<1>8. CASE m.what = "press"
  <2> DEFINE k == m.number
  <2>1. PressesOf({m}) = {k}
    BY <1>8, PressesIn
  <2>2. InHand' = {k}
    BY <1>1, <1>8 DEF InHand, ExecuteInMainThread, Handling, NoPress
  <2> HIDE DEF m, k
  <2>3. Before({k}, OnTheWay' \cup Waiting')
    <3>1. panel.open
      BY <1>1 DEF OrderInv, OnePlace
    <3>2. Waiting' = {}
      BY <1>1, <3>1, EmptyRises DEF OrderInv, OnePlace, Waiting
    <3> QED
      BY <1>5, <2>1, <3>2 DEF Before
  <2>4. Queued' \cup InHand' \cup OnTheWay' \cup Waiting' =
          Queued \cup InHand \cup OnTheWay \cup Waiting
    BY <1>4, <1>6, <2>1, <2>2
  <2>5. Before(Queued', InHand' \cup OnTheWay' \cup Waiting')
    BY <1>4, <2>1, <2>2 DEF OrderInv, Before
  <2>6. \A n \in Queued' \cup InHand' \cup OnTheWay' \cup Waiting' : n <= presses'
    BY <1>1, <2>4 DEF OrderInv
  <2>7. OrderInv'
    BY <1>5, <1>6, <2>2, <2>3, <2>5, <2>6 DEF OrderInv, Before
  <2>8. UNCHANGED Panel!vars
    BY <1>1, <2>4, Zenon DEF Panel!vars, Queued, OnTheWay, Waiting
  <2> QED
    BY <2>7, <2>8 DEF FifoStep
<1> QED
  BY <1>7, <1>8

\* The press in hand is put behind those queued, or lost with the queue that was
\* fetched for it.
LEMMA PutStep ==
  ASSUME TypeOK, OrderInv, PutPress
  PROVE  FifoStep
<1> DEFINE k == handling.press
<1>1. /\ UNCHANGED <<presses, callQueue, panel, up, shown>>
      /\ handling.at = "put" /\ handling' = NoPress
      /\ queue' = IF handling.current THEN Append(queue, k) ELSE queue
  BY DEF PutPress, hostVars
<1>2. InHand = {k} /\ InHand' = {}
  BY <1>1 DEF InHand, NoPress
<1>3. UNCHANGED <<OnTheWay, Waiting, OnePlace>> /\ Rising(callQueue') /\ PressesRise(up')
  BY <1>1 DEF OnTheWay, Waiting, OnePlace, OrderInv
<1>4. OnePlace'
  BY <1>3 DEF OrderInv
<1>5. k \in Nat /\ queue \in Seq(Nat)
  BY <1>2, PressTypes
<1> HIDE DEF k
<1>6. CASE handling.current
  <2>1. queue' = Append(queue, k)
    BY <1>1, <1>6
  <2>2. Queued' = Queued \cup {k}
    BY <1>5, <2>1, AppendRange DEF Queued
  <2>3. Before(Queued, {k})
    BY <1>2 DEF OrderInv, Before
  <2>4. Rising(queue')
    BY <1>5, <2>1, <2>3, RisingQueue DEF OrderInv, Queued
  <2>5. Before(Queued', InHand' \cup OnTheWay' \cup Waiting')
    BY <1>2, <1>3, <2>2 DEF OrderInv, Before
  <2>6. Queued' \cup InHand' \cup OnTheWay' \cup Waiting' =
          Queued \cup InHand \cup OnTheWay \cup Waiting
    BY <1>2, <1>3, <2>2
  <2>7. \A n \in Queued' \cup InHand' \cup OnTheWay' \cup Waiting' : n <= presses'
    BY <1>1, <2>6 DEF OrderInv
  <2>8. OrderInv'
    BY <1>2, <1>3, <1>4, <2>4, <2>5, <2>7 DEF OrderInv, Before
  <2>9. UNCHANGED Panel!vars
    BY <1>1, <2>6, Zenon DEF Panel!vars, Queued, OnTheWay, Waiting
  <2> QED
    BY <2>8, <2>9 DEF FifoStep
<1>7. CASE ~handling.current
  <2>1. UNCHANGED <<queue, Queued>> /\ Rising(queue')
    BY <1>1, <1>7 DEF Queued, OrderInv
  <2> QED
    BY <1>1, <1>2, <1>3, <1>4, <2>1, LosingStep
<1> QED
  BY <1>6, <1>7

\* The main thread takes the head of the queue: the oldest press under way.
LEMMA ListenStep ==
  ASSUME TypeOK, OrderInv, Listen, process # "ended"
  PROVE  FifoStep
<1> DEFINE k == Head(queue)
<1>1. /\ queue # <<>> /\ queue' = Tail(queue) /\ shown' = Append(shown, k)
      /\ UNCHANGED <<presses, callQueue, panel, up, handling>>
  BY DEF Listen, mainKeeps, hostVars
<1>2. queue \in Seq(Nat) /\ k \in Nat
  BY <1>1, PressTypes
<1>3. UNCHANGED <<InHand, OnTheWay, Waiting, OnePlace>> /\ Rising(callQueue') /\ PressesRise(up')
  BY <1>1 DEF InHand, OnTheWay, Waiting, OnePlace, OrderInv
<1>4. Queued = {k} \cup Queued'
  BY <1>1, <1>2, SplitRange DEF Queued
<1>5. Rising(queue') /\ Before({k}, Queued')
  BY <1>1, <1>2, RisingQueue DEF OrderInv, Queued
<1> HIDE DEF k
<1> DEFINE rest == Queued' \cup InHand \cup OnTheWay \cup Waiting
<1>6. OrderInv'
  <2>1. Before(Queued', InHand' \cup OnTheWay' \cup Waiting')
    BY <1>3, <1>4 DEF OrderInv, Before
  <2>2. \A n \in Queued' \cup InHand' \cup OnTheWay' \cup Waiting' : n <= presses'
    BY <1>1, <1>3, <1>4 DEF OrderInv
  <2> QED
    BY <1>3, <1>5, <2>1, <2>2 DEF OrderInv, Before
<1>7. \A j \in rest : k < j /\ j \in Nat
  BY <1>4, <1>5, PressTypes DEF OrderInv, Before
<1>8. k \notin rest
  BY <1>2, <1>7
<1>9. Panel!Execute
  <2> DEFINE all == Queued \cup InHand \cup OnTheWay \cup Waiting
  <2>1. k \in all /\ \A j \in all : k <= j
    BY <1>2, <1>4, <1>7
  <2>2. Queued' \cup InHand' \cup OnTheWay' \cup Waiting' = all \ {k}
    BY <1>3, <1>4, <1>8
  <2>3. \E n \in all : /\ \A j \in all : n <= j
                       /\ Queued' \cup InHand' \cup OnTheWay' \cup Waiting' = all \ {n}
                       /\ shown' = Append(shown, n)
    BY <1>1, <2>1, <2>2
  <2> QED
    BY <1>1, <2>3, Zenon DEF Panel!Execute, Queued, OnTheWay, Waiting
<1> QED
  BY <1>6, <1>9 DEF FifoStep, Panel!Next

\* The initial states are those of LossyFifo.
LEMMA FifoInit == Init => OrderInv /\ Panel!Init
<1> SUFFICES ASSUME Init
             PROVE  OrderInv /\ Panel!Init
  OBVIOUS
<1>1. /\ queue = <<>> /\ up = <<>> /\ callQueue = <<>> /\ presses = 0 /\ shown = <<>>
      /\ handling = NoPress
  BY DEF Init
<1>2. Queued = {} /\ InHand = {} /\ OnTheWay = {} /\ Waiting = {}
  BY <1>1, EmptyRises DEF Queued, InHand, OnTheWay, Waiting
<1>3. OrderInv
  BY <1>1, <1>2, EmptyRises DEF OrderInv, OnePlace, Before
<1>4. Panel!Init
  BY <1>1, <1>2 DEF Panel!Init, Queued, OnTheWay, Waiting
<1> QED
  BY <1>3, <1>4

\* Steps of the server's thread are steps of LossyFifo or change nothing of it.
LEMMA FifoServer == TypeOK /\ OrderInv /\ Server => FifoStep
<1> SUFFICES ASSUME TypeOK, OrderInv, Server
             PROVE  FifoStep
  OBVIOUS
<1>1. CASE ServerReceive
  BY <1>1, ReceiveStep
<1>2. CASE CheckShutdown
  <2>1. /\ panel'.open = FALSE /\ up' = <<>>
        /\ UNCHANGED <<presses, shown, queue, handling, callQueue>>
    BY <1>2 DEF CheckShutdown, Disconnected, queueVars
  <2> QED
    BY <2>1, DroppingStep
<1>3. CASE ThreadRun \/ ClientGone
  <2>1. UNCHANGED <<presses, shown, queue, handling, up, callQueue, panel>>
    BY <1>3 DEF ThreadRun, ClientGone, hostVars, queueVars
  <2> QED
    BY <2>1, StayingStep
<1>4. CASE PutPress
  BY <1>4, PutStep
<1>5. CASE CreateQueue \/ FetchQueue
  <2>1. /\ UNCHANGED <<presses, shown, up, callQueue, panel>>
        /\ queue' = queue \/ queue' = <<>>
        /\ InHand' = {handling.press} /\ InHand = {handling.press}
    BY <1>5 DEF CreateQueue, FetchQueue, hostVars, InHand, Handling, NoPress
  <2>2. Queued' \subseteq Queued /\ Rising(queue')
    BY <2>1, EmptyRises DEF Queued, OrderInv
  <2>3. UNCHANGED <<OnTheWay, Waiting, OnePlace>>
    BY <2>1 DEF OnTheWay, Waiting, OnePlace
  <2>4. Rising(callQueue') /\ PressesRise(up') /\ OnePlace'
    BY <2>1, <2>3 DEF OrderInv
  <2> QED
    BY <2>1, <2>2, <2>3, <2>4, LosingStep
<1> QED
  BY <1>1, <1>2, <1>3, <1>4, <1>5 DEF Server, HandlePress

\* So are those of the panel and of the host's process.
LEMMA FifoHost == TypeOK /\ OrderInv /\ Host => FifoStep
<1> SUFFICES ASSUME TypeOK, OrderInv, Host
             PROVE  FifoStep
  OBVIOUS
<1>1. CASE Press
  BY <1>1, PressStep
<1>2. CASE Connect
  BY <1>2, ConnectStep
<1>3. CASE Lose \/ ProcessEnds
  <2>1. up' = <<>> /\ callQueue' = <<>> /\ UNCHANGED <<presses, shown, queue, handling>>
    BY <1>3 DEF Lose, ProcessEnds, queueVars
  <2> QED
    BY <2>1, DroppingStep
<1>4. CASE RejectQueue
  <2>1. /\ ~panel.open /\ callQueue' = <<>>
        /\ UNCHANGED <<presses, shown, queue, handling, panel, up>>
    BY <1>4 DEF RejectQueue, queueVars
  <2>2. up' = <<>>
    BY <2>1 DEF OrderInv, OnePlace
  <2> QED
    BY <2>1, <2>2, DroppingStep
<1>5. CASE HandleCall
  <2>1. UNCHANGED <<presses, shown, queue, handling, up, callQueue, panel>>
    BY <1>5 DEF HandleCall, queueVars
  <2> QED
    BY <2>1, StayingStep
<1>6. CASE ScriptEnds
  <2>0. UNCHANGED <<presses, shown, queue, handling, callQueue, panel>>
    BY <1>6 DEF ScriptEnds, queueVars
  <2>1. PICK s \in scripts : up' = IF Answers(s) THEN Append(up, Result(s)) ELSE up
    BY <1>6 DEF ScriptEnds
  <2>2. CASE ~Answers(s)
    BY <2>0, <2>1, <2>2, StayingStep
  <2>3. CASE Answers(s)
    <3> DEFINE r == Result(s)
    <3>1. up' = Append(up, r) /\ panel.open
      BY <2>1, <2>3 DEF Answers
    <3>2. r \in UpType /\ up \in Seq(UpType)
      BY <2>1, MessageParts, PressTypes DEF TypeOK, PanelTypeOK
    <3>3. PressesOf({r}) = {}
      BY PressesIn DEF Result
    <3> HIDE DEF r
    <3>4. Range(Append(up, r)) = Range(up) \cup {r}
      BY <3>2, AppendRange
    <3>5. OnTheWay' = OnTheWay
      <4>1. PressesOf(Range(Append(up, r))) = PressesOf(Range(up)) \cup PressesOf({r})
        BY <3>4, PressesIn
      <4> QED
        BY <3>1, <3>3, <4>1 DEF OnTheWay
    <3>6. PressesRise(up')
      BY <3>1, <3>2, <3>3, RisingMessages DEF OrderInv, Before
    <3>7. UNCHANGED <<Queued, InHand, Waiting>> /\ OnePlace'
      BY <2>0, <3>1 DEF Queued, InHand, Waiting, OrderInv, OnePlace
    <3>8. Rising(callQueue') /\ Rising(queue')
      BY <2>0 DEF OrderInv
    <3> QED
      BY <2>0, <3>5, <3>6, <3>7, <3>8, LosingStep
  <2> QED
    BY <2>2, <2>3
<1> QED
  BY <1>1, <1>2, <1>3, <1>4, <1>5, <1>6 DEF Host

\* And those of the main thread.
LEMMA FifoMain == TypeOK /\ OrderInv /\ Main => FifoStep
<1> SUFFICES ASSUME TypeOK, OrderInv, Main
             PROVE  FifoStep
  OBVIOUS
<1>0. UNCHANGED <<presses, callQueue, panel, up>>
  BY DEF Main, PollLaunch, BeginListening, Listen, SendCall, CallReturns, CloseTool, ToolRaises,
         Waited, mainKeeps, hostVars
<1>1. CASE Listen /\ process # "ended"
  BY <1>1, ListenStep
<1>2. CASE UNCHANGED <<queue, handling, shown>>
  BY <1>0, <1>2, StayingStep
<1>3. CASE BeginListening
  <2>0. handling \in HandlingType
    BY DEF TypeOK, AvalonTypeOK, HandlingType
  <2>1. /\ UNCHANGED shown
        /\ \/ UNCHANGED <<queue, handling>>
           \/ queue' = <<>> /\ handling' = [handling EXCEPT !.current = handling.at # "put"]
    BY <1>3 DEF BeginListening
  <2>2. CASE queue' = <<>> /\ handling' = [handling EXCEPT !.current = handling.at # "put"]
    <3>0. InHand' \subseteq InHand
      <4>1. handling'.press = handling.press
        BY <2>0, <2>2 DEF HandlingType
      <4>2. handling = NoPress => handling' = NoPress
        <5>1. [NoPress EXCEPT !.current = NoPress.at # "put"] = NoPress
          <6>1. (NoPress.at # "put") = TRUE
            BY DEF NoPress
          <6>2. [NoPress EXCEPT !.current = TRUE] = NoPress
            <7>1. \A h \in HandlingType : h.current = TRUE => [h EXCEPT !.current = TRUE] = h
              BY DEF HandlingType
            <7>2. NoPress \in HandlingType /\ NoPress.current = TRUE
              BY HandlingParts DEF NoPress
            <7> QED
              BY <7>1, <7>2, Zenon
          <6> QED
            BY <6>1, <6>2, Zenon
        <5> QED
          BY <2>2, <5>1, Zenon
      <4> QED
        BY <4>1, <4>2 DEF InHand
    <3>1. Queued' = {} /\ Rising(queue')
      BY <2>2, EmptyRises DEF Queued
    <3>2. UNCHANGED <<OnTheWay, Waiting, OnePlace>>
      BY <1>0 DEF OnTheWay, Waiting, OnePlace
    <3>3. Rising(callQueue') /\ PressesRise(up') /\ OnePlace'
      BY <1>0, <3>2 DEF OrderInv
    <3> QED
      BY <1>0, <2>1, <3>0, <3>1, <3>2, <3>3, LosingStep
  <2> QED
    BY <1>2, <2>1, <2>2
<1>4. CASE (Listen /\ process = "ended") \/ PollLaunch \/ SendCall \/ CallReturns \/ CloseTool
           \/ ToolRaises \/ Waited
  <2>1. UNCHANGED <<queue, handling, shown>>
    BY <1>4 DEF Listen, PollLaunch, SendCall, CallReturns, CloseTool, ToolRaises, Waited, queueVars
  <2> QED
    BY <1>2, <2>1
<1> QED
  BY <1>1, <1>3, <1>4 DEF Main

\* The tools of a panel open in the order its buttons were pressed and at most
\* once per press, for any number of connections, presses and calls: also a
\* press that waited for a connection is not overtaken, and one that was lost
\* does not come back, wherever the main thread replaces the queue between the
\* steps of the other (makeCall, execute_in_main_thread, main_thread_listen).
THEOREM PanelImplementsFifo == Spec => PressesFifo
<1>1. TypeOK /\ OrderInv /\ [Next]_vars => OrderInv' /\ [Panel!Next]_(Panel!vars)
  <2>1. TypeOK /\ OrderInv /\ UNCHANGED vars => FifoStep
    BY StayingStep DEF vars, hostVars, queueVars
  <2> QED
    BY <2>1, FifoServer, FifoHost, FifoMain DEF FifoStep, Next
<1> QED
  BY <1>1, FifoInit, TypeCorrect, PTL DEF Spec, PressesFifo, Panel!Spec

-----------------------------------------------------------------------------
(***************************************************************************)
(* Answers.  The ids of calls start anew on every connection, so an id     *)
(* alone does not tell whose answer a message is.  The invariant is that   *)
(* all that is under way on the present connection, in either direction    *)
(* or as a script of the host, was called on it: its id was given out      *)
(* there, and one with the id of the latest call is of that call.          *)
(***************************************************************************)
OfConnection(m) ==
  /\ m.id <= ids[panel.conn]
  /\ call.conn = panel.conn /\ call.id = m.id => m.number = call.number

CallsHere == {m \in CallType : OfConnection(m)}
UpHere == {m \in UpType : m.what = "answer" => OfConnection(m)}

WireInv ==
  /\ ~panel.open => up = <<>> /\ down = <<>>
  /\ panel.open => panel.conn \in 1..MaxConnections
  /\ \A s \in scripts : s.open <= panel.number /\ (s.open = panel.number => panel.open)
  /\ \A s \in scripts : s.open = panel.number => OfConnection(s)
  /\ down \in Seq(CallsHere) /\ up \in Seq(UpHere)

AnswerInv == TypeOK /\ WireInv /\ AnswerOwn

\* A sequence over a set is one over any larger set.
LEMMA WidenSeq ==
  ASSUME NEW S, NEW T, S \subseteq T, NEW s \in Seq(S)
  PROVE  s \in Seq(T)
  OBVIOUS

\* While a connection and the latest call on it stay, so does what is of them.
LEMMA SameConnection ==
  ASSUME UNCHANGED <<ids, panel>>, call'.conn = call.conn, call'.id = call.id,
         call'.number = call.number
  PROVE  /\ UNCHANGED <<CallsHere, UpHere>>
         /\ \A m : OfConnection(m)' <=> OfConnection(m)
<1>1. \A m : OfConnection(m)' <=> OfConnection(m)
  BY DEF OfConnection
<1> QED
  BY <1>1 DEF CallsHere, UpHere

\* Without a connection nothing is under way, and no script's answer counts.
LEMMA WireClosed ==
  ASSUME TypeOK, WireInv, panel' = Disconnected, up' = <<>>, down' = <<>>,
         scripts' \subseteq scripts
  PROVE  WireInv'
<1>1. panel.number \in Nat /\ panel'.number = panel.number + 1 /\ panel'.open = FALSE
  BY DEF TypeOK, PanelTypeOK, Disconnected
<1>2. \A s \in scripts : s.open \in Nat
  BY DEF TypeOK, PanelTypeOK, CallType
<1> QED
  BY <1>1, <1>2 DEF WireInv

\* A step that leaves the connection, its messages and the calls alone.
LEMMA WireAlone ==
  ASSUME WireInv, UNCHANGED <<ids, panel, up, down, scripts, call>>
  PROVE  WireInv'
  BY SameConnection DEF WireInv

\* The server's thread keeps what is under way of the connection, and the
\* answer it gives the waiting main thread is that of its call.
LEMMA AnswerServer == TypeOK /\ WireInv /\ AnswerOwn /\ Server => WireInv' /\ AnswerOwn'
<1> SUFFICES ASSUME TypeOK, WireInv, AnswerOwn, Server
             PROVE  WireInv' /\ AnswerOwn'
  OBVIOUS
<1> USE DEF hostVars, serverVars, mainVars, queueVars
<1>0. main \in MainType
  BY DEF TypeOK, AvalonTypeOK, MainType, Places
<1>1. CASE ThreadRun
  BY <1>1, WireAlone DEF ThreadRun, AnswerOwn
<1>2. CASE CheckShutdown
  BY <1>2, WireClosed DEF CheckShutdown, AnswerOwn
<1>3. CASE ServerReceive
  <2> DEFINE m == Head(up)
  <2>1. m \in UpHere /\ Tail(up) \in Seq(UpHere) /\ up' = Tail(up) /\ panel.open
    BY <1>3 DEF ServerReceive, WireInv
  <2>2. UNCHANGED <<ids, panel, scripts, down>>
    BY <1>3 DEF ServerReceive
  <2>3. CASE m.what = "press"
    <3>1. UNCHANGED <<main, call>>
      BY <1>3, <2>3 DEF ServerReceive
    <3> QED
      BY <2>1, <2>2, <3>1, SameConnection DEF WireInv, AnswerOwn
  <2>4. CASE m.what # "press" /\ main.at = "call" /\ call.conn = panel.conn /\ call.id = m.id
    <3>1. call' = [call EXCEPT !.got = m.number] /\ main' = [main EXCEPT !.at = "returned"]
      BY <1>3, <2>4 DEF ServerReceive, To
    <3>2. m.number = call.number
      BY <2>1, <2>4 DEF UpHere, UpType, OfConnection
    <3>3. call \in AnswerType
      BY DEF TypeOK, AvalonTypeOK, AnswerType
    <3>4. call'.conn = call.conn /\ call'.id = call.id /\ call'.number = call.number
          /\ call'.got = m.number
      BY <3>1, <3>3 DEF AnswerType
    <3> QED
      BY <2>1, <2>2, <3>2, <3>4, SameConnection DEF WireInv, AnswerOwn
  <2>5. CASE m.what # "press" /\ ~(main.at = "call" /\ call.conn = panel.conn /\ call.id = m.id)
    <3>1. UNCHANGED <<main, call>>
      BY <1>3, <2>5 DEF ServerReceive
    <3> QED
      BY <2>1, <2>2, <3>1, SameConnection DEF WireInv, AnswerOwn
  <2> QED
    BY <2>3, <2>4, <2>5
<1>4. CASE ClientGone
  <2>1. WireInv'
    BY <1>4, WireAlone DEF ClientGone
  <2>2. call' = call /\ (main' = main \/ main' = [main EXCEPT !.at = "tool"])
    BY <1>4 DEF ClientGone, To
  <2>3. main' = main \/ main'.at = "tool"
    <3>1. [main EXCEPT !.at = "tool"].at = "tool"
      BY <1>0, MainParts DEF Places
    <3> QED
      BY <2>2, <3>1
  <2> QED
    BY <2>1, <2>2, <2>3 DEF AnswerOwn
<1>5. CASE HandlePress
  <2>1. UNCHANGED <<hostVars, serverVars, up, down, mainVars>>
    BY <1>5 DEF HandlePress, CreateQueue, FetchQueue, PutPress
  <2> QED
    BY <2>1, WireAlone DEF AnswerOwn
<1> QED
  BY <1>1, <1>2, <1>3, <1>4, <1>5 DEF Server

\* The panel and the host keep it too: a call is passed on with its id, and
\* its script answers only on the connection that brought it.
LEMMA AnswerHost == TypeOK /\ WireInv /\ Host => WireInv'
<1> SUFFICES ASSUME TypeOK, WireInv, Host
             PROVE  WireInv'
  OBVIOUS
<1> USE DEF hostVars, serverVars, mainVars
<1>0. /\ panel.number \in Nat /\ panel.conn \in Nat
      /\ \A s \in scripts : s \in CallType /\ s.open \in Nat
  BY PanelAssumption DEF TypeOK, PanelTypeOK, CallType
<1>1. CASE Connect
  <2>1. /\ ~panel.open /\ panel'.open /\ panel'.number = panel.number
        /\ panel'.conn \in 1..MaxConnections
    BY <1>0, <1>1, PanelAssumption DEF Connect
  <2>2. UNCHANGED <<scripts, down>> /\ down = <<>>
    BY <1>1, <2>1 DEF Connect, WireInv
  <2>3. up' \in Seq(UpHere')
    <3>1. up' = [i \in DOMAIN callQueue |-> PressMessage(callQueue[i])]
      BY <1>1 DEF Connect
    <3>2. \A i \in DOMAIN callQueue : PressMessage(callQueue[i]) \in UpType
      BY MessageParts DEF TypeOK, PanelTypeOK
    <3>3. \A p : PressMessage(p).what # "answer"
      BY DEF PressMessage
    <3>4. \A i \in DOMAIN callQueue : PressMessage(callQueue[i]) \in UpHere'
      BY <3>2, <3>3 DEF UpHere
    <3>5. DOMAIN callQueue = 1..Len(callQueue) /\ Len(callQueue) \in Nat
      BY DEF TypeOK, PanelTypeOK
    <3> QED
      BY <3>1, <3>4, <3>5
  <2> QED
    BY <2>1, <2>2, <2>3 DEF WireInv
<1>2. CASE Lose \/ ProcessEnds
  BY <1>2, WireClosed DEF Lose, ProcessEnds
<1>3. CASE Press
  <2>1. UNCHANGED <<ids, panel, call, scripts, down>>
        /\ up' = IF panel.open THEN Append(up, PressMessage(presses + 1)) ELSE up
    BY <1>3 DEF Press
  <2>2. PressMessage(presses + 1) \in UpHere
    <3>1. presses + 1 \in Nat
      BY DEF TypeOK, PanelTypeOK
    <3> QED
      BY <3>1, MessageParts DEF UpHere, PressMessage
  <2>3. up' \in Seq(UpHere)
    BY <2>1, <2>2 DEF WireInv
  <2> QED
    BY <2>1, <2>3, SameConnection DEF WireInv
<1>4. CASE RejectQueue
  BY <1>4, WireAlone DEF RejectQueue
<1>5. CASE HandleCall
  <2> DEFINE m == Head(down)
  <2>1. m \in CallsHere /\ Tail(down) \in Seq(CallsHere) /\ down' = Tail(down) /\ panel.open
    BY <1>5 DEF HandleCall, WireInv
  <2>2. scripts' = scripts \cup {Route(m)} /\ UNCHANGED <<ids, panel, call, up>>
    BY <1>5 DEF HandleCall
  <2>3. Route(m).open = panel.number /\ Route(m).id = m.id /\ Route(m).number = m.number
    BY <2>1 DEF CallsHere, CallType, Route
  <2>4. OfConnection(Route(m))
    BY <2>1, <2>3 DEF CallsHere, OfConnection
  <2> HIDE DEF m
  <2>5. \A s \in scripts' : s.open <= panel.number /\ (s.open = panel.number => panel.open)
    BY <1>0, <2>1, <2>2, <2>3 DEF WireInv
  <2>6. \A s \in scripts' : s.open = panel.number => OfConnection(s)
    BY <2>2, <2>4 DEF WireInv
  <2> QED
    BY <2>1, <2>2, <2>5, <2>6, SameConnection DEF WireInv
<1>6. CASE ScriptEnds
  <2>1. PICK s \in scripts : /\ scripts' = scripts \ {s}
                             /\ up' = IF Answers(s) THEN Append(up, Result(s)) ELSE up
    BY <1>6 DEF ScriptEnds
  <2>2. UNCHANGED <<ids, panel, call, down>>
    BY <1>6 DEF ScriptEnds
  <2>3. Answers(s) => Result(s) \in UpHere
    <3>1. Result(s) \in UpType /\ Result(s).id = s.id /\ Result(s).number = s.number
      BY <1>0, MessageParts DEF Result
    <3>2. Answers(s) => OfConnection(s)
      BY DEF Answers, WireInv
    <3> QED
      BY <3>1, <3>2 DEF UpHere, OfConnection
  <2>4. up' \in Seq(UpHere) /\ (up' # up => panel.open)
    BY <2>1, <2>3 DEF WireInv, Answers
  <2> QED
    BY <2>1, <2>2, <2>4, SameConnection DEF WireInv
<1> QED
  BY <1>1, <1>2, <1>3, <1>4, <1>5, <1>6 DEF Host

\* A new call has an id that nothing under way on its connection has.
LEMMA AnswerMain == TypeOK /\ WireInv /\ AnswerOwn /\ Main => WireInv' /\ AnswerOwn'
<1> SUFFICES ASSUME TypeOK, WireInv, AnswerOwn, Main
             PROVE  WireInv' /\ AnswerOwn'
  OBVIOUS
<1> USE DEF hostVars, serverVars
<1>0. main \in MainType
  BY DEF TypeOK, AvalonTypeOK, MainType, Places
<1>1. CASE SendCall
  <2> DEFINE c == Head(clients)
             new == [id |-> ids[c] + 1, number |-> calls + 1, open |-> 0]
  <2>1. c \in 1..MaxConnections /\ ids[c] \in Nat /\ calls \in Nat
        /\ ids \in [1..MaxConnections -> Nat]
    <3>1. clients # <<>> /\ clients \in Seq(1..MaxConnections)
      BY <1>1 DEF SendCall, TypeOK, AvalonTypeOK
    <3>2. c \in 1..MaxConnections
      BY <3>1, Sequences
    <3> QED
      BY <3>2 DEF TypeOK, AvalonTypeOK
  <2>2. /\ ids' = [ids EXCEPT ![c] = @ + 1]
        /\ call'.conn = c /\ call'.id = ids[c] + 1 /\ call'.number = calls + 1
        /\ down' = IF panel.open /\ c = panel.conn THEN Append(down, new) ELSE down
        /\ main' = [main EXCEPT !.at = "call"] /\ UNCHANGED <<panel, scripts, up>>
    BY <1>1 DEF SendCall, To
  <2> HIDE DEF c
  <2>3. ASSUME panel.open, NEW m, m.id \in Nat, OfConnection(m)
        PROVE  OfConnection(m)'
    <3>1. panel.conn \in 1..MaxConnections
      BY <2>3 DEF WireInv
    <3>2. ids[panel.conn] \in Nat /\ ids'[panel.conn] >= ids[panel.conn]
          /\ (c = panel.conn => m.id < call'.id)
      BY <2>1, <2>2, <2>3, <3>1 DEF OfConnection
    <3>3. m.id <= ids'[panel.conn]
      BY <2>1, <2>2, <2>3, <3>1 DEF OfConnection
    <3>4. call'.conn = panel'.conn => call'.id # m.id
      BY <2>1, <2>2, <2>3, <3>2
    <3> QED
      BY <2>2, <3>3, <3>4 DEF OfConnection
  <2>4. ASSUME panel.open
        PROVE  CallsHere \subseteq CallsHere' /\ UpHere \subseteq UpHere'
    <3>1. \A m \in CallType : m.id \in Nat
      BY DEF CallType
    <3>2. \A m \in UpType : m.id \in Nat
      BY DEF UpType
    <3> QED
      BY <2>3, <2>4, <3>1, <3>2 DEF CallsHere, UpHere
  <2>5. down' \in Seq(CallsHere') /\ up' \in Seq(UpHere')
    <3>1. CASE panel.open
      <4>1. down \in Seq(CallsHere') /\ up \in Seq(UpHere')
        BY <2>4, <3>1, WidenSeq DEF WireInv
      <4>2. c = panel.conn => new \in CallsHere'
        <5>1. new \in CallType /\ new.id = ids[c] + 1 /\ new.number = calls + 1
          <6>1. ids[c] + 1 \in Nat /\ calls + 1 \in Nat
            BY <2>1
          <6>2. new \in CallType
            BY <6>1, MessageParts
          <6> QED
            BY <6>2
        <5>2. ASSUME NEW m \in CallType, m = new, c = panel.conn
              PROVE  m \in CallsHere'
          BY <2>1, <2>2, <5>1, <5>2 DEF OfConnection, CallsHere
        <5> QED
          BY <5>1, <5>2
      <4> QED
        BY <2>2, <4>1, <4>2
    <3>2. CASE ~panel.open
      BY <2>2, <3>2 DEF WireInv
    <3> QED
      BY <3>1, <3>2
  <2>6. \A s \in scripts' : s.open = panel'.number => OfConnection(s)'
    <3>1. \A s \in scripts : s.id \in Nat
      BY DEF TypeOK, PanelTypeOK, CallType
    <3> QED
      BY <2>2, <2>3, <3>1 DEF WireInv
  <2>7. WireInv'
    BY <2>2, <2>5, <2>6 DEF WireInv
  <2>8. main'.at = "call"
    BY <1>0, <2>2, MainParts DEF Places
  <2> QED
    BY <2>7, <2>8 DEF AnswerOwn
<1>2. CASE ~SendCall
  <2>1. UNCHANGED <<ids, panel, up, down, scripts, call>>
    BY <1>2 DEF Main, PollLaunch, BeginListening, Listen, CallReturns, CloseTool, ToolRaises,
                Waited, mainKeeps
  <2>2. \/ \E at \in Places \ {"returned"} : main' = [main EXCEPT !.at = at]
        \/ main'.at = "listen" \/ main' = main
    <3>1. CASE PollLaunch
      BY <3>1 DEF PollLaunch, To, Places
    <3>2. CASE BeginListening
      <4>1. main' = [main EXCEPT !.at = "wait"] \/ main' = [at |-> "listen", early |-> FALSE]
        BY <3>2 DEF BeginListening, To
      <4> QED
        BY <4>1 DEF Places
    <3>3. CASE Listen
      BY <3>3 DEF Listen, To, Places
    <3>4. CASE CallReturns \/ CloseTool \/ ToolRaises \/ Waited
      BY <3>4 DEF CallReturns, CloseTool, ToolRaises, Waited, To, Places
    <3> QED
      BY <1>2, <3>1, <3>2, <3>3, <3>4 DEF Main
  <2>3. main'.at # "returned" \/ main' = main
    <3>1. \A at \in Places \ {"returned"} : [main EXCEPT !.at = at].at = at
      BY <1>0, MainParts
    <3> QED
      BY <2>2, <3>1
  <2> QED
    BY <2>1, <2>3, WireAlone DEF AnswerOwn
<1> QED
  BY <1>1, <1>2

\* The answer a tool gets is that of its own call, however often the panel
\* connects again and the ids of its calls start anew (wsrpc.js handleCall,
\* WebServerTool.call).
THEOREM AnswersAreOwn == Spec => []AnswerOwn
<1>1. Init => WireInv /\ AnswerOwn
  BY DEF Init, WireInv, AnswerOwn
<1>2. AnswerInv /\ UNCHANGED vars => WireInv' /\ AnswerOwn'
  BY WireAlone DEF AnswerInv, AnswerOwn, vars, hostVars, serverVars, mainVars
<1>3. AnswerInv /\ Host => AnswerOwn'
  BY DEF AnswerInv, AnswerOwn, Host, Connect, Lose, Press, RejectQueue, HandleCall, ScriptEnds,
         ProcessEnds, mainVars
<1>4. AnswerInv /\ [Next]_vars => AnswerInv'
  BY <1>2, <1>3, StepTypes, AnswerServer, AnswerHost, AnswerMain DEF AnswerInv, Next
<1>5. Init => AnswerInv
  BY <1>1, InitTypes DEF AnswerInv
<1>6. AnswerInv => AnswerOwn
  BY DEF AnswerInv
<1> QED
  BY <1>4, <1>5, <1>6, PTL DEF Spec

-----------------------------------------------------------------------------
(* Numbers.                                                                *)

Smaller == {p \in Nat \X Nat : p[1] < p[2]}

\* A set of numbers has a least one.
LEMMA LeastExists ==
  ASSUME NEW T, T \subseteq Nat, T # {}
  PROVE  \E x \in T : \A y \in T : x <= y
<1>1. OpToRel(<, Nat) = Smaller
  BY DEF OpToRel, Smaller
<1>2. IsWellFoundedOn(Smaller, Nat)
  BY <1>1, NatLessThanWellFounded
<1>3. PICK x \in T : \A y \in T : ~(<<y, x>> \in Smaller)
  BY <1>2, WFMin
<1>4. ASSUME NEW y \in T, ~(x <= y)
      PROVE  FALSE
  <2>1. x \in Nat /\ y \in Nat /\ y < x
    BY <1>4, SMT
  <2>2. <<y, x>> \in Smaller
    BY <2>1, SMT DEF Smaller
  <2> QED
    BY <1>3, <2>2
<1> QED
  BY <1>4

\* What holds of the first number and goes on holds of all up to a bound.
LEMMA Counting ==
  ASSUME NEW m \in Nat, NEW n \in Nat, NEW S, m \in S, \A i \in m..n : i \in S /\ i < n => i + 1 \in S
  PROVE  \A i \in m..n : i \in S
<1> DEFINE T == (m..n) \ S
<1> SUFFICES ASSUME T # {} PROVE FALSE
  OBVIOUS
<1>1. T \subseteq Nat
  OBVIOUS
<1>2. PICK x \in T : \A y \in T : x <= y
  BY <1>1, LeastExists
<1>3. x \in m..n /\ x \notin S /\ x # m
  BY <1>2
<1>4. x - 1 \in m..n /\ x - 1 < x /\ x - 1 < n
  BY <1>3
<1>5. x - 1 \in S
  BY <1>2, <1>4
<1> QED
  BY <1>3, <1>4, <1>5

\* Division.
LEMMA Quotient ==
  ASSUME NEW a \in Nat, NEW w \in Nat \ {0}, NEW b \in 0..(w - 1)
  PROVE  (a * w + b) \div w = a
OBVIOUS

\* The positions of a list and of its text.
LEMMA Below ==
  ASSUME NEW w \in Nat \ {0}, NEW n \in Nat
  PROVE  \A a \in Nat : a < w * n => a \div w \in Nat /\ a \div w < n /\ a % w \in Nat
<1> SUFFICES ASSUME NEW a \in Nat, a < w * n
             PROVE  a \div w \in Nat /\ a \div w < n /\ a % w \in Nat
  OBVIOUS
<1>1. a \div w \in Nat /\ a % w \in Nat /\ w * (a \div w) <= a
  OBVIOUS
<1>2. ASSUME n <= a \div w
      PROVE  FALSE
  <2>1. w * n <= w * (a \div w)
    BY <1>1, <1>2
  <2> QED
    BY <1>1, <2>1
<1> QED
  BY <1>1, <1>2

\* How many chunks a text of some length needs.
LEMMA Ceiling ==
  ASSUME NEW a \in Nat \ {0}, NEW w \in Nat \ {0}
  PROVE  LET n == (a + w - 1) \div w IN n \in Nat \ {0} /\ (n - 1) * w < a /\ a <= n * w
OBVIOUS

-----------------------------------------------------------------------------
(* Lists of records.                                                       *)

Elements(list) == {list[i] : i \in DOMAIN list}

\* What is picked from a list is what stands at the positions.
LEMMA Picking ==
  ASSUME NEW R, NEW list \in Seq(R), NEW at
  PROVE  /\ Picked(list, at) \in Seq(R) /\ Len(Picked(list, at)) <= Len(list)
         /\ Elements(Picked(list, at)) = {list[i] : i \in at \cap DOMAIN list}
<1> DEFINE n == Len(list)
           Item(f, i) == IF i = 0 THEN <<>> ELSE IF i \in at THEN Append(f[i - 1], list[i]) ELSE f[i - 1]
           Body(f) == [i \in 0..n |-> Item(f, i)]
           So(m) == \E g \in [0..m -> Seq(R)] : \A i \in 0..m : g[i] = Item(g, i)
<1>1. n \in Nat /\ DOMAIN list = 1..n /\ \A i \in 1..n : list[i] \in R
  OBVIOUS
<1> HIDE DEF n
<1>2. \E f : f = Body(f)
  <2> DEFINE S == {m \in 0..n : So(m)}
  <2>1. 0 \in S
    <3> DEFINE g == [i \in 0..0 |-> <<>>]
    <3>1. g \in [0..0 -> Seq(R)]
      OBVIOUS
    <3>2. \A i \in 0..0 : i = 0 /\ g[i] = <<>>
      OBVIOUS
    <3> HIDE DEF g
    <3>3. \A i \in 0..0 : g[i] = Item(g, i)
      BY <3>2
    <3>4. So(0)
      BY <3>1, <3>3
    <3> HIDE DEF So
    <3> QED
      BY <1>1, <3>4
  <2>2. ASSUME NEW m \in 0..n, m \in S, m < n
        PROVE  m + 1 \in S
    <3>1. PICK g \in [0..m -> Seq(R)] : \A i \in 0..m : g[i] = Item(g, i)
      BY <2>2
    <3> DEFINE last == IF m + 1 \in at THEN Append(g[m], list[m + 1]) ELSE g[m]
               h == [i \in 0..(m + 1) |-> IF i <= m THEN g[i] ELSE last]
    <3>2. g[m] \in Seq(R) /\ list[m + 1] \in R /\ m \in Nat
      BY <1>1, <2>2
    <3>3. last \in Seq(R)
      BY <3>2
    <3> HIDE DEF last
    <3>4. h \in [0..(m + 1) -> Seq(R)]
      BY <3>2, <3>3
    <3>5. ASSUME NEW i \in 0..(m + 1)
          PROVE  h[i] = Item(h, i)
      <4>1. CASE i = 0
        BY <3>1, <3>2, <4>1
      <4>2. CASE i # 0 /\ i <= m
        <5>1. i - 1 \in 0..m /\ i \in 0..m /\ i - 1 \in 0..(m + 1)
          BY <3>2, <4>2
        <5>2. h[i] = g[i] /\ h[i - 1] = g[i - 1]
          BY <3>2, <5>1
        <5> QED
          BY <3>1, <4>2, <5>1, <5>2
      <4>3. CASE i = m + 1
        <5>1. h[i] = last /\ h[m] = g[m] /\ i - 1 = m /\ i # 0
          BY <3>2, <4>3
        <5> QED
          BY <4>3, <5>1 DEF last
      <4> QED
        BY <3>2, <4>1, <4>2, <4>3
    <3>6. So(m + 1)
      <4> HIDE DEF h
      <4> QED
        BY <3>4, <3>5
    <3>7. m + 1 \in 0..n
      BY <1>1, <2>2, <3>2
    <3> HIDE DEF So
    <3> QED
      BY <3>6, <3>7
  <2> HIDE DEF S
  <2>3. \A i \in 0..n : i \in S
    BY <1>1, <2>1, <2>2, Counting
  <2>4. n \in S
    BY <1>1, <2>3
  <2>5. PICK g \in [0..n -> Seq(R)] : \A i \in 0..n : g[i] = Item(g, i)
    BY <2>4 DEF S
  <2>6. g = Body(g)
    BY <2>5
  <2> QED
    BY <2>6
<1> DEFINE f == CHOOSE h : h = Body(h)
<1>3. f = Body(f)
  BY <1>2
<1>4. Picked(list, at) = f[n]
  BY DEF Picked, n
<1> HIDE DEF f
<1>5. \A i \in 0..n : f[i] = Item(f, i)
  <2>1. \A h : h = Body(f) => \A i \in 0..n : h[i] = Item(f, i)
    OBVIOUS
  <2> HIDE DEF Body, Item
  <2> QED
    BY <1>3, <2>1
<1> DEFINE Right(m) == /\ f[m] \in Seq(R) /\ Len(f[m]) <= m
                       /\ Elements(f[m]) = {list[i] : i \in at \cap (1..m)}
           S == {m \in 0..n : Right(m)}
<1>6. 0 \in S
  <2>1. 0 \in 0..n
    BY <1>1
  <2>2. f[0] = <<>>
    BY <1>5, <2>1
  <2>3. Elements(f[0]) = {} /\ f[0] \in Seq(R) /\ Len(f[0]) <= 0
    BY <2>2 DEF Elements
  <2>4. at \cap (1..0) = {}
    OBVIOUS
  <2>5. Right(0)
    BY <2>3, <2>4
  <2> HIDE DEF Right
  <2> QED
    BY <2>1, <2>5
<1>7. ASSUME NEW m \in 0..n, m \in S, m < n
      PROVE  m + 1 \in S
  <2>1. m \in Nat /\ m + 1 \in 1..n /\ m + 1 \in 0..n /\ m + 1 # 0 /\ (m + 1) - 1 = m /\ list[m + 1] \in R
    BY <1>1, <1>7
  <2>2. f[m + 1] = IF m + 1 \in at THEN Append(f[m], list[m + 1]) ELSE f[m]
    BY <1>5, <2>1
  <2>3. f[m] \in Seq(R) /\ Len(f[m]) <= m /\ Elements(f[m]) = {list[i] : i \in at \cap (1..m)}
    BY <1>7
  <2>4. \A i : i \in 1..(m + 1) <=> i \in 1..m \/ i = m + 1
    BY <2>1
  <2>5. CASE m + 1 \in at
    <3>1. f[m + 1] = Append(f[m], list[m + 1])
      BY <2>2, <2>5
    <3>2. Elements(Append(f[m], list[m + 1])) = Elements(f[m]) \cup {list[m + 1]}
      <4> DEFINE l == f[m]
                 x == list[m + 1]
      <4>1. l \in Seq(R) /\ x \in R
        BY <2>1, <2>3
      <4> HIDE DEF l, x
      <4>2. /\ DOMAIN Append(l, x) = DOMAIN l \cup {Len(l) + 1} /\ Append(l, x)[Len(l) + 1] = x
            /\ \A i \in DOMAIN l : Append(l, x)[i] = l[i]
        BY <4>1
      <4>3. Elements(Append(l, x)) = Elements(l) \cup {x}
        BY <4>2 DEF Elements
      <4> QED
        BY <4>3 DEF l, x
    <3>3. {list[i] : i \in at \cap (1..(m + 1))} = {list[i] : i \in at \cap (1..m)} \cup {list[m + 1]}
      BY <2>4, <2>5
    <3>4. f[m + 1] \in Seq(R) /\ Len(f[m + 1]) <= m + 1
      BY <2>1, <2>3, <3>1
    <3> QED
      BY <2>1, <2>3, <3>1, <3>2, <3>3, <3>4
  <2>6. CASE m + 1 \notin at
    <3>1. {list[i] : i \in at \cap (1..(m + 1))} = {list[i] : i \in at \cap (1..m)}
      BY <2>4, <2>6
    <3> QED
      BY <2>1, <2>2, <2>3, <2>6, <3>1
  <2> QED
    BY <2>5, <2>6
<1> HIDE DEF S
<1>8. \A i \in 0..n : i \in S
  BY <1>1, <1>6, <1>7, Counting
<1>9. Right(n)
  <2>1. n \in S
    BY <1>1, <1>8
  <2> HIDE DEF Right
  <2> QED
    BY <2>1 DEF S
<1> QED
  BY <1>1, <1>4, <1>9 DEF n

-----------------------------------------------------------------------------
(* TVPaint's strings.                                                      *)

\* The chunks of a text, put together, are the text.
LEMMA Joining ==
  ASSUME NEW R, NEW words \in Seq(R), Len(words) > 0
  PROVE  /\ Split(words) \in Seq(Seq(R)) /\ (Len(Split(words)) - 1) * ChunkLength < Len(words)
         /\ Len(words) <= Len(Split(words)) * ChunkLength
         /\ FlattenSeq(Split(words)) = words
<1> DEFINE L == ChunkLength
           t == Len(words)
           n == (t + L - 1) \div L
           End(i) == IF i * L < t THEN i * L ELSE t
           chunks == Split(words)
<1>1. L \in Nat \ {0} /\ t \in Nat \ {0}
  BY MetadataAssumption
<1>2. n \in Nat \ {0} /\ (n - 1) * L < t /\ t <= n * L
  BY <1>1, Ceiling
<1>3. chunks = [i \in 1..n |-> SubSeq(words, (i - 1) * L + 1, End(i))]
  BY DEF Split
<1> HIDE DEF n, t, L, chunks
<1>4. \A i \in 1..n : /\ i * L \in Nat /\ (i - 1) * L \in Nat /\ (i - 1) * L <= (n - 1) * L /\ (n - 1) * L \in Nat
                      /\ i * L = (i - 1) * L + L
  <2> SUFFICES ASSUME NEW i \in 1..n
               PROVE  /\ i * L \in Nat /\ (i - 1) * L \in Nat /\ (i - 1) * L <= (n - 1) * L /\ (n - 1) * L \in Nat
                      /\ i * L = (i - 1) * L + L
    OBVIOUS
  <2> QED
    BY <1>1, <1>2
<1>5. \A i \in 1..n : /\ (i - 1) * L < End(i) /\ End(i) <= t /\ End(i) \in Nat
                      /\ i < n => End(i) = i * L
  BY <1>1, <1>2, <1>4
<1>6. End(n) = t
  BY <1>1, <1>2, <1>4
<1> HIDE DEF End
<1>7. chunks \in Seq(Seq(R)) /\ Len(chunks) = n
  <2>1. \A i \in 1..n : SubSeq(words, (i - 1) * L + 1, End(i)) \in Seq(R)
    BY <1>1, <1>4, <1>5 DEF t
  <2> QED
    BY <1>2, <1>3, <2>1
<1> DEFINE Body(f) == [i \in 1..n |-> IF i = 1 THEN chunks[i] ELSE f[i - 1] \o chunks[i]]
           g == [i \in 1..n |-> SubSeq(words, 1, End(i))]
<1>8. /\ g[1] = chunks[1]
      /\ \A i \in 1..n : i # 1 => g[i] = g[i - 1] \o chunks[i]
  <2>1. 1 \in 1..n /\ (1 - 1) * L + 1 = 1
    BY <1>1, <1>2
  <2>2. g[1] = chunks[1]
    BY <1>3, <2>1
  <2>3. ASSUME NEW i \in 1..n, i # 1
        PROVE  g[i] = g[i - 1] \o chunks[i]
    <3>1. i - 1 \in 1..n /\ i - 1 < n /\ End(i - 1) = (i - 1) * L
      BY <1>2, <1>5, <2>3
    <3>2. g[i - 1] = SubSeq(words, 1, (i - 1) * L) /\ g[i] = SubSeq(words, 1, End(i))
          /\ chunks[i] = SubSeq(words, (i - 1) * L + 1, End(i))
      BY <1>3, <3>1
    <3>3. /\ 1 \in 1..(Len(words) + 1) /\ (i - 1) * L \in 0..Len(words)
          /\ End(i) \in ((i - 1) * L)..Len(words)
      BY <1>1, <1>4, <1>5, <2>3 DEF t
    <3>4. SubSeq(words, 1, (i - 1) * L) \o SubSeq(words, (i - 1) * L + 1, End(i)) = SubSeq(words, 1, End(i))
      <4>1. \A k \in 0..Len(words) : \A e \in k..Len(words) :
              SubSeq(words, 1, k) \o SubSeq(words, k + 1, e) = SubSeq(words, 1, e)
        BY ConcatAdjacentSubSeq
      <4> QED
        BY <3>3, <4>1
    <3> HIDE DEF g
    <3> QED
      BY <3>2, <3>4
  <2> QED
    BY <2>2, <2>3
<1>9. g[n] = words
  <2>1. g[n] = SubSeq(words, 1, Len(words))
    BY <1>2, <1>6 DEF t
  <2> QED
    BY <2>1, SubSeqFull
<1>10. g = Body(g)
  <2>1. DOMAIN g = 1..n /\ g = [i \in 1..n |-> g[i]]
    OBVIOUS
  <2> HIDE DEF g
  <2>2. \A i \in 1..n : g[i] = IF i = 1 THEN chunks[i] ELSE g[i - 1] \o chunks[i]
    BY <1>8
  <2> QED
    BY <2>1, <2>2
<1> HIDE DEF g
<1> DEFINE f == CHOOSE h : h = Body(h)
<1>11. f = Body(f)
  BY <1>10
<1>12. FlattenSeq(chunks) = f[n]
  BY <1>2, <1>7 DEF FlattenSeq
<1> HIDE DEF f
<1>13. \A i \in 1..n : f[i] = IF i = 1 THEN chunks[i] ELSE f[i - 1] \o chunks[i]
  BY <1>11
<1> DEFINE S == {i \in 1..n : f[i] = g[i]}
<1>14. 1 \in S
  BY <1>2, <1>8, <1>13
<1>15. ASSUME NEW i \in 1..n, i \in S, i < n
       PROVE  i + 1 \in S
  <2>1. i + 1 \in 1..n /\ (i + 1) - 1 = i /\ i + 1 # 1
    BY <1>2, <1>15
  <2>2. f[i + 1] = f[i] \o chunks[i + 1] /\ g[i + 1] = g[i] \o chunks[i + 1]
    BY <1>8, <1>13, <2>1
  <2> QED
    BY <1>15, <2>1, <2>2
<1> HIDE DEF S
<1>16. n \in S
  <2>1. \A i \in 1..n : i \in S
    BY <1>2, <1>14, <1>15, Counting
  <2> QED
    BY <1>2, <2>1
<1>17. FlattenSeq(chunks) = words
  BY <1>9, <1>12, <1>16 DEF S
<1> QED
  BY <1>2, <1>7, <1>17 DEF chunks, t, L

\* Reading the text of a list gives the list.
LEMMA Listing ==
  ASSUME NEW R, NEW list \in Seq(R)
  PROVE  /\ Dump(list) \in Seq((R \cup {Blank}) \X Nat) /\ Len(Dump(list)) = Width * Len(list) + 2
         /\ Listed(Dump(list)) = list /\ Parses(Dump(list))
<1> DEFINE n == Len(list)
           W == Width
           last == W * n + 2
           Token(i) == CASE i = 1 -> <<Blank, 0>>
                         [] i = last -> <<Blank, 1>>
                         [] OTHER -> <<list[1 + (i - 2) \div W], (i - 2) % W>>
           dumped == Dump(list)
<1>1. n \in Nat /\ W \in Nat \ {0} /\ DOMAIN list = 1..n /\ \A i \in 1..n : list[i] \in R
  BY MetadataAssumption
<1>2. list = [i \in 1..n |-> list[i]]
  BY <1>1
<1> HIDE DEF n, W
<1>3. W * n \in Nat /\ last \in Nat /\ last >= 2
  BY <1>1
<1>4. dumped = [i \in 1..last |-> Token(i)]
  BY DEF Dump, n, W
<1>5. ASSUME NEW i \in 1..last, i # 1, i # last
      PROVE  1 + (i - 2) \div W \in 1..n /\ (i - 2) % W \in Nat
  <2>1. i - 2 \in Nat /\ i - 2 < W * n
    BY <1>3, <1>5
  <2>2. \A a \in Nat : a < W * n => a \div W \in Nat /\ a \div W < n /\ a % W \in Nat
    BY <1>1, Below
  <2> QED
    BY <1>1, <2>1, <2>2
<1>6. \A i \in 1..last : Token(i) \in (R \cup {Blank}) \X Nat
  BY <1>1, <1>5
<1> HIDE DEF Token, last
<1>7. dumped \in Seq((R \cup {Blank}) \X Nat) /\ Len(dumped) = last
  BY <1>3, <1>4, <1>6
<1>8. (Len(dumped) - 2) \div W = n
  <2>1. Len(dumped) - 2 = n * W + 0
    BY <1>1, <1>7 DEF last
  <2> QED
    BY <1>1, <2>1, Quotient
<1>9. ASSUME NEW i \in 1..n
      PROVE  dumped[2 + (i - 1) * W][1] = list[i]
  <2> DEFINE k == 2 + (i - 1) * W
  <2>1. (i - 1) * W \in Nat /\ (i - 1) * W < W * n
    BY <1>1
  <2>2. k \in 1..last /\ k # 1 /\ k # last
    BY <1>3, <2>1 DEF last
  <2>3. (k - 2) \div W = i - 1
    <3>1. k - 2 = (i - 1) * W + 0 /\ i - 1 \in Nat
      BY <1>1, <2>1
    <3> HIDE DEF k
    <3> QED
      BY <1>1, <3>1, Quotient
  <2> HIDE DEF k
  <2>4. dumped[k] = <<list[1 + (k - 2) \div W], (k - 2) % W>>
    BY <1>4, <2>2 DEF Token
  <2>5. 1 + (i - 1) = i
    BY <1>1
  <2> QED
    BY <2>3, <2>4, <2>5 DEF k
<1> HIDE DEF dumped
<1>10. Listed(dumped) = list
  <2>1. Listed(dumped) = [i \in 1..n |-> dumped[2 + (i - 1) * W][1]]
    BY <1>8 DEF Listed, W
  <2> QED
    BY <1>2, <1>9, <2>1
<1>11. Parses(dumped)
  BY <1>3, <1>7, <1>10 DEF Parses, dumped
<1> QED
  BY <1>7, <1>10, <1>11 DEF dumped, last, n, W

\* What get_workfile_metadata finds is what write_workfile_metadata was given,
\* whatever the lengths, and whatever longer text was written there before: the
\* chunk keys that are left of it are not read.
THEOREM StoredIsRead ==
  ASSUME NEW R, NEW list \in Seq(R), Width * Len(list) + 2 <= MaxChunks * ChunkLength, NEW section
  PROVE  /\ Records(Store(section, list)) = list /\ ~Garbled(Store(section, list))
         /\ Parses(SectionText(Store(section, list)))
         /\ Split(Dump(list)) \in Seq(Seq((R \cup {Blank}) \X Nat)) /\ Len(Split(Dump(list))) \in 0..MaxChunks
<1> DEFINE T == (R \cup {Blank}) \X Nat
           words == Dump(list)
           chunks == Split(words)
           n == Len(chunks)
           new == Store(section, list)
<1>1. words \in Seq(T) /\ Len(words) = Width * Len(list) + 2 /\ Listed(words) = list /\ Parses(words)
  BY Listing
<1>2. Len(words) > 0 /\ Len(words) >= 2
  <2>1. Width * Len(list) \in Nat
    BY MetadataAssumption
  <2> QED
    BY <1>1, <2>1
<1> HIDE DEF words
<1>3. chunks \in Seq(Seq(T)) /\ (n - 1) * ChunkLength < Len(words) /\ FlattenSeq(chunks) = words
  <2> HIDE DEF T
  <2> QED
    BY <1>1, <1>2, Joining
<1>4. n \in Nat
  BY <1>3
<1> HIDE DEF n
<1>5. n <= MaxChunks
  <2>1. (n - 1) * ChunkLength < MaxChunks * ChunkLength
    <3>1. (n - 1) * ChunkLength \in Int /\ MaxChunks * ChunkLength \in Int /\ Width * Len(list) + 2 \in Int
      BY <1>4, MetadataAssumption
    <3> QED
      BY <1>1, <1>3, <3>1
  <2>2. ASSUME MaxChunks <= n - 1
        PROVE  FALSE
    <3>1. MaxChunks * ChunkLength <= (n - 1) * ChunkLength
      BY <1>4, <2>2, MetadataAssumption
    <3> QED
      BY <1>4, <2>1, <3>1, MetadataAssumption
  <2> QED
    BY <1>4, <2>2, MetadataAssumption
<1>6. /\ new.count = n /\ new.old = <<>>
      /\ new.chunk = [i \in 1..MaxChunks |-> IF i <= n THEN chunks[i] ELSE section.chunk[i]]
  BY DEF Store, n, words
<1> HIDE DEF new
<1>7. SubSeq(new.chunk, 1, n) = chunks
  <2>1. DOMAIN chunks = 1..n /\ \A i \in 1..n : chunks[i] \in Seq(T) /\ new.chunk[i] = chunks[i]
    BY <1>3, <1>4, <1>5, <1>6, MetadataAssumption DEF n
  <2>2. PICK part : part = SubSeq(new.chunk, 1, n)
    OBVIOUS
  <2>3. /\ part \in Seq(Seq(T)) /\ Len(part) = IF 1 <= n THEN n - 1 + 1 ELSE 0
        /\ \A i \in 1..(n - 1 + 1) : part[i] = new.chunk[1 + i - 1]
    <3>1. \A i \in 1..n : new.chunk[i] \in Seq(T)
      BY <2>1
    <3> HIDE DEF T
    <3> QED
      BY <1>4, <2>2, <3>1, SubSeqProperties
  <2>4. Len(part) = n /\ \A i \in 1..n : part[i] = chunks[i]
    <3> HIDE DEF chunks, T
    <3>1. n - 1 + 1 = n /\ (n < 1 => n = 0) /\ \A i \in 1..n : 1 + i - 1 = i
      BY <1>4
    <3>2. Len(part) = n
      BY <1>4, <2>3, <3>1
    <3>3. \A i \in 1..n : part[i] = new.chunk[i]
      BY <2>3, <3>1
    <3> QED
      BY <2>1, <3>2, <3>3
  <2>5. Len(chunks) = n
    BY DEF n
  <2> HIDE DEF chunks
  <2> QED
    BY <1>3, <2>2, <2>3, <2>4, <2>5
<1>8. SectionText(new) = words
  BY <1>3, <1>6, <1>7 DEF SectionText, ChunksText
<1>9. Records(new) = list /\ ~Garbled(new) /\ Parses(SectionText(new))
  BY <1>1, <1>8 DEF Records, Garbled
<1> QED
  BY <1>3, <1>4, <1>5, <1>9 DEF n, new, words

\* Chunks put together one after the other.
Accumulates(R, s, f) ==
  /\ f \in [1..Len(s) -> Seq(R)]
  /\ \A i \in 1..Len(s) : f[i] = IF i = 1 THEN s[i] ELSE f[i - 1] \o s[i]
  /\ \A k \in 1..Len(s) : FlattenSeq(SubSeq(s, 1, k)) = f[k]
LEMMA Concatenating ==
  ASSUME NEW R, NEW s \in Seq(Seq(R)), Len(s) > 0
  PROVE  \E f : Accumulates(R, s, f)
<1> DEFINE n == Len(s)
           Item(f, i) == IF i = 1 THEN s[i] ELSE f[i - 1] \o s[i]
           So(m) == \E g \in [1..m -> Seq(R)] : \A i \in 1..m : g[i] = Item(g, i)
           S == {m \in 1..n : So(m)}
<1>1. n \in Nat \ {0} /\ DOMAIN s = 1..n /\ \A i \in 1..n : s[i] \in Seq(R)
  OBVIOUS
<1> HIDE DEF n
<1>2. 1 \in S
  <2> DEFINE g == [i \in 1..1 |-> s[1]]
  <2>1. g \in [1..1 -> Seq(R)] /\ \A i \in 1..1 : g[i] = Item(g, i)
    BY <1>1
  <2> HIDE DEF g
  <2>2. So(1)
    BY <2>1
  <2> HIDE DEF So
  <2> QED
    BY <1>1, <2>2
<1>3. ASSUME NEW m \in 1..n, m \in S, m < n
      PROVE  m + 1 \in S
  <2>1. PICK g \in [1..m -> Seq(R)] : \A i \in 1..m : g[i] = Item(g, i)
    BY <1>3
  <2>2. PICK last : last = g[m] \o s[m + 1]
    OBVIOUS
  <2>3. m \in Nat \ {0} /\ m + 1 \in 1..n /\ g[m] \in Seq(R) /\ s[m + 1] \in Seq(R)
    BY <1>1, <1>3
  <2>4. last \in Seq(R)
    BY <2>2, <2>3
  <2> DEFINE h == [i \in 1..(m + 1) |-> IF i <= m THEN g[i] ELSE last]
  <2>5. h \in [1..(m + 1) -> Seq(R)]
    BY <2>3, <2>4
  <2>6. ASSUME NEW i \in 1..(m + 1)
        PROVE  h[i] = Item(h, i)
    <3>1. CASE i = 1
      <4>1. 1 \in 1..m /\ 1 \in 1..(m + 1)
        BY <2>3
      <4>2. h[1] = g[1]
        BY <2>3, <4>1
      <4>3. g[1] = s[1]
        BY <2>1, <4>1
      <4> QED
        BY <3>1, <4>2, <4>3
    <3>2. CASE i # 1 /\ i <= m
      <4>1. i - 1 \in 1..m /\ i \in 1..m /\ i - 1 \in 1..(m + 1)
        BY <2>3, <3>2
      <4>2. h[i] = g[i] /\ h[i - 1] = g[i - 1]
        BY <2>3, <4>1
      <4> QED
        BY <2>1, <3>2, <4>1, <4>2
    <3>3. CASE i = m + 1
      <4>1. h[i] = last /\ h[m] = g[m] /\ i - 1 = m /\ i # 1
        BY <2>3, <3>3
      <4> QED
        BY <2>2, <3>3, <4>1
    <3> QED
      BY <2>3, <3>1, <3>2, <3>3
  <2>7. So(m + 1)
    <3> HIDE DEF h
    <3> QED
      BY <2>5, <2>6
  <2> HIDE DEF So
  <2> QED
    BY <2>3, <2>7
<1> HIDE DEF S
<1>4. n \in S
  <2>1. \A i \in 1..n : i \in S
    BY <1>1, <1>2, <1>3, Counting
  <2> QED
    BY <1>1, <2>1
<1>5. PICK f \in [1..n -> Seq(R)] : \A i \in 1..n : f[i] = Item(f, i)
  BY <1>4 DEF S
<1>6. ASSUME NEW k \in 1..n
      PROVE  FlattenSeq(SubSeq(s, 1, k)) = f[k]
  <2>1. PICK t : t = SubSeq(s, 1, k)
    OBVIOUS
  <2>2. k \in Nat \ {0} /\ k <= n
    BY <1>1
  <2>3. t \in Seq(Seq(R)) /\ Len(t) = k /\ \A i \in 1..k : t[i] = s[i]
    BY <1>1, <2>1, <2>2 DEF n
  <2> DEFINE Body(h) == [i \in 1..k |-> IF i = 1 THEN t[i] ELSE h[i - 1] \o t[i]]
             g == [i \in 1..k |-> f[i]]
  <2>4. g = Body(g)
    <3>1. ASSUME NEW i \in 1..k
          PROVE  g[i] = IF i = 1 THEN t[i] ELSE g[i - 1] \o t[i]
      <4>0. i \in 1..n
        BY <1>1, <2>2
      <4>1. f[i] = Item(f, i) /\ t[i] = s[i]
        BY <1>5, <2>3, <4>0
      <4>2. i # 1 => i - 1 \in 1..k
        BY <2>2
      <4> QED
        BY <4>1, <4>2
    <3>2. g = [i \in 1..k |-> g[i]]
      OBVIOUS
    <3> HIDE DEF g
    <3> QED
      BY <3>1, <3>2
  <2> HIDE DEF g
  <2> DEFINE F == CHOOSE h : h = Body(h)
  <2>5. F = Body(F)
    BY <2>4
  <2>6. FlattenSeq(t) = F[k]
    BY <2>2, <2>3 DEF FlattenSeq
  <2> HIDE DEF F
  <2>7. \A i \in 1..k : F[i] = IF i = 1 THEN t[i] ELSE F[i - 1] \o t[i]
    BY <2>5
  <2> DEFINE U == {i \in 1..k : F[i] = f[i]}
  <2>8. 1 \in U
    <3>1. 1 \in 1..k /\ 1 \in 1..n
      BY <1>1, <2>2
    <3> QED
      BY <1>5, <2>3, <2>7, <3>1
  <2>9. ASSUME NEW i \in 1..k, i \in U, i < k
        PROVE  i + 1 \in U
    <3>1. i + 1 \in 1..k /\ i + 1 \in 1..n /\ (i + 1) - 1 = i /\ i + 1 # 1
      BY <1>1, <2>2, <2>9
    <3>2. F[i + 1] = F[i] \o t[i + 1] /\ f[i + 1] = f[i] \o s[i + 1]
      BY <1>5, <2>7, <3>1
    <3> QED
      BY <2>3, <2>9, <3>1, <3>2
  <2> HIDE DEF U
  <2>10. k \in U
    <3>1. \A i \in 1..k : i \in U
      BY <2>2, <2>8, <2>9, Counting
    <3> QED
      BY <2>2, <3>1
  <2> QED
    BY <2>1, <2>6, <2>10 DEF U
<1>7. Accumulates(R, s, f)
  BY <1>5, <1>6 DEF n, Accumulates
<1> QED
  BY <1>7

LEMMA Associating ==
  ASSUME NEW R, NEW x \in Seq(R), NEW y \in Seq(R), NEW z \in Seq(R)
  PROVE  (x \o y) \o z = x \o (y \o z) /\ y \o z \in Seq(R)
<1>1. y \o z \in Seq(R) /\ x \o y \in Seq(R)
  OBVIOUS
<1>2. (x \o y) \o z = x \o (y \o z)
  BY ConcatAssociative
<1> QED
  BY <1>1, <1>2

\* What fewer chunks give is how the text of more chunks begins.
LEMMA Beginning ==
  ASSUME NEW R, NEW s \in Seq(Seq(R)), NEW i \in 1..Len(s), NEW k \in i..Len(s)
  PROVE  /\ FlattenSeq(SubSeq(s, 1, i)) \in Seq(R)
         /\ \E y \in Seq(R) : FlattenSeq(SubSeq(s, 1, k)) = FlattenSeq(SubSeq(s, 1, i)) \o y
<1> DEFINE n == Len(s)
<1>1. n \in Nat \ {0} /\ i \in Nat \ {0} /\ i \in 1..n /\ k \in 1..n /\ \A j \in 1..n : s[j] \in Seq(R)
  OBVIOUS
<1>2. PICK f \in [1..n -> Seq(R)] :
        /\ \A j \in 1..n : f[j] = IF j = 1 THEN s[j] ELSE f[j - 1] \o s[j]
        /\ \A j \in 1..n : FlattenSeq(SubSeq(s, 1, j)) = f[j]
  <2>1. Len(s) > 0
    BY <1>1
  <2>2. PICK f : Accumulates(R, s, f)
    BY <2>1, Concatenating
  <2> QED
    BY <2>2 DEF Accumulates
<1> HIDE DEF n
<1> DEFINE S == {j \in i..n : \E y \in Seq(R) : f[j] = f[i] \o y}
<1>3. f[i] \in Seq(R) /\ i \in i..n
  <2>1. i \in i..n
    BY <1>1
  <2>2. f[i] \in Seq(R)
    BY <1>1, <1>2
  <2> QED
    BY <2>1, <2>2
<1>4. i \in S
  <2>1. f[i] = f[i] \o <<>> /\ <<>> \in Seq(R)
    BY <1>3
  <2> QED
    BY <1>3, <2>1
<1>5. ASSUME NEW j \in i..n, j \in S, j < n
      PROVE  j + 1 \in S
  <2>1. PICK y \in Seq(R) : f[j] = f[i] \o y
    BY <1>5
  <2>2. j + 1 \in i..n /\ j + 1 \in 1..n /\ j + 1 # 1 /\ (j + 1) - 1 = j
    BY <1>1, <1>5
  <2>3. f[j + 1] = (f[i] \o y) \o s[j + 1] /\ s[j + 1] \in Seq(R)
    BY <1>1, <1>2, <2>1, <2>2
  <2>4. (f[i] \o y) \o s[j + 1] = f[i] \o (y \o s[j + 1]) /\ y \o s[j + 1] \in Seq(R)
    <3>1. f[i] \in Seq(R) /\ y \in Seq(R) /\ s[j + 1] \in Seq(R)
      BY <1>3, <2>3
    <3> QED
      BY <3>1, Associating, Zenon
  <2> QED
    BY <2>2, <2>3, <2>4
<1> HIDE DEF S
<1>6. \A j \in i..n : j \in S
  BY <1>1, <1>4, <1>5, Counting
<1>7. k \in S
  BY <1>6 DEF n
<1> QED
  BY <1>1, <1>2, <1>3, <1>7 DEF S, n

\* A text that parses does not begin with another one.
LEMMA OneText ==
  ASSUME NEW R, NEW x \in Seq(R), NEW y \in Seq(R), Parses(x), Parses(x \o y)
  PROVE  Listed(x \o y) = Listed(x)
<1>1. PICK z \in Seq(R) : z = x \o y
  BY ConcatProperties
<1>2. PICK p \in Nat : p = Len(x)
  OBVIOUS
<1>3. PICK q \in Nat : q = Len(z)
  OBVIOUS
<1>4. q = p + Len(y) /\ Len(y) \in Nat /\ (p >= 1 => z[p] = x[p])
  BY <1>1, <1>2, <1>3
<1>5. p >= 2 /\ q >= 2 /\ Dump(Listed(x)) = x /\ Dump(Listed(z)) = z
  BY <1>1, <1>2, <1>3 DEF Parses
<1> DEFINE m == (p - 2) \div Width
           n == (q - 2) \div Width
<1>6. m \in Nat /\ n \in Nat /\ Width \in Nat \ {0}
  BY <1>5, MetadataAssumption
<1>7. Len(Listed(x)) = m /\ Len(Listed(z)) = n
  BY <1>2, <1>3, <1>6 DEF Listed
<1> HIDE DEF m, n
<1>8. Width * m + 2 \in Nat /\ Width * n + 2 \in Nat
  BY <1>6
<1>9. DOMAIN x = 1..(Width * m + 2) /\ DOMAIN z = 1..(Width * n + 2)
  <2>1. DOMAIN Dump(Listed(x)) = 1..(Width * m + 2)
    BY <1>7 DEF Dump
  <2>2. DOMAIN Dump(Listed(z)) = 1..(Width * n + 2)
    BY <1>7 DEF Dump
  <2> QED
    BY <1>5, <2>1, <2>2
<1>10. p = Width * m + 2 /\ q = Width * n + 2
  BY <1>2, <1>3, <1>8, <1>9
<1>11. ASSUME p # q
       PROVE  FALSE
  <2>1. p # 1 /\ p \in 1..q
    BY <1>4, <1>5, <1>11
  <2>2. Dump(Listed(x))[p] = <<Blank, 1>>
    BY <1>5, <1>7, <1>8, <1>10, <2>1 DEF Dump
  <2>3. Dump(Listed(z))[p] = <<Listed(z)[1 + (p - 2) \div Width], (p - 2) % Width>>
    BY <1>7, <1>8, <1>10, <1>11, <2>1 DEF Dump
  <2>4. (p - 2) % Width = 0
    <3>1. p - 2 = Width * m
      BY <1>6, <1>10
    <3>2. (Width * m) % Width = 0
      BY <1>6
    <3> QED
      BY <3>1, <3>2
  <2>5. z[p] = x[p]
    BY <1>4, <1>5
  <2> QED
    BY <1>5, <2>2, <2>3, <2>4, <2>5
<1>12. y = <<>>
  BY <1>4, <1>11
<1> QED
  BY <1>12

\* However many chunk keys of a section are read, a text that parses is its own.
Whole(R, section) ==
  /\ section.chunk \in [1..MaxChunks -> Seq((R \cup {Blank}) \X Nat)]
  /\ section.count \in 0..MaxChunks
  /\ \A k \in 0..MaxChunks :
       Parses(ChunksText(section, k)) => Listed(ChunksText(section, k)) = Records(section)

\* No chunk is no text.
LEMMA NoChunks == \A section : ChunksText(section, 0) = <<>> /\ ~Parses(ChunksText(section, 0)) /\ ~Parses(<<>>)
<1>1. ~Parses(<<>>)
  BY DEF Parses
<1>2. ASSUME NEW s
      PROVE  FlattenSeq(SubSeq(s, 1, 0)) = <<>>
  <2>1. SubSeq(s, 1, 0) = <<>>
    BY SubSeqEmpty
  <2> QED
    BY <2>1 DEF FlattenSeq
<1> QED
  BY <1>1, <1>2 DEF ChunksText

\* A section nothing was stored in has empty chunks.
LEMMA WholeEmpty ==
  ASSUME NEW R, NEW section, section.chunk = EmptySection.chunk, section.count = 0
  PROVE  Whole(R, section)
<1> DEFINE T == (R \cup {Blank}) \X Nat
<1>1. PICK s : s = section.chunk
  OBVIOUS
<1>2. MaxChunks \in Nat \ {0}
  BY MetadataAssumption
<1>3. s = [i \in 1..MaxChunks |-> <<>>]
  BY <1>1 DEF EmptySection
<1>4. s \in [1..MaxChunks -> Seq(T)] /\ s \in Seq(Seq(T)) /\ Len(s) = MaxChunks
  <2>1. <<>> \in Seq(T)
    OBVIOUS
  <2> HIDE DEF T
  <2> QED
    BY <1>2, <1>3, <2>1
<1>5. PICK f \in [1..MaxChunks -> Seq(T)] :
        /\ \A j \in 1..MaxChunks : f[j] = IF j = 1 THEN s[j] ELSE f[j - 1] \o s[j]
        /\ \A j \in 1..MaxChunks : FlattenSeq(SubSeq(s, 1, j)) = f[j]
  <2> HIDE DEF T
  <2>1. Len(s) > 0 /\ Len(s) = MaxChunks
    BY <1>2, <1>4
  <2>2. PICK f : Accumulates(T, s, f)
    BY <1>4, <2>1, Concatenating
  <2> QED
    BY <2>1, <2>2 DEF Accumulates
<1> DEFINE S == {j \in 1..MaxChunks : f[j] = <<>>}
<1>6. 1 \in S
  BY <1>2, <1>3, <1>5
<1>7. ASSUME NEW j \in 1..MaxChunks, j \in S, j < MaxChunks
      PROVE  j + 1 \in S
  <2>1. j + 1 \in 1..MaxChunks /\ j + 1 # 1 /\ (j + 1) - 1 = j
    BY <1>2, <1>7
  <2>2. f[j + 1] = <<>> \o <<>>
    BY <1>3, <1>5, <1>7, <2>1
  <2> QED
    BY <2>1, <2>2
<1> HIDE DEF S, T
<1>8. \A j \in 1..MaxChunks : j \in S
  BY <1>2, <1>6, <1>7, Counting
<1>9. ASSUME NEW k \in 0..MaxChunks
      PROVE  ~Parses(ChunksText(section, k))
  <2>1. CASE k = 0
    BY <2>1, NoChunks
  <2>2. CASE k \in 1..MaxChunks
    <3>1. ChunksText(section, k) = <<>>
      BY <1>1, <1>5, <1>8, <2>2 DEF ChunksText, S
    <3> QED
      BY <3>1, NoChunks
  <2> QED
    BY <1>2, <2>1, <2>2
<1>10. section.count \in 0..MaxChunks
  BY <1>2
<1> QED
  BY <1>1, <1>4, <1>9, <1>10 DEF Whole, T

\* Storing a list keeps a section whole, and leaves no text of an older version.
LEMMA WholeStore ==
  ASSUME NEW R, NEW section, Whole(R, section), NEW list \in Seq(R),
         Width * Len(list) + 2 <= MaxChunks * ChunkLength
  PROVE  Whole(R, Store(section, list))
<1> DEFINE T == (R \cup {Blank}) \X Nat
           chunks == Split(Dump(list))
<1>1. PICK new : new = Store(section, list)
  OBVIOUS
<1>2. /\ Records(new) = list /\ ~Garbled(new)
      /\ chunks \in Seq(Seq(T)) /\ Len(chunks) \in 0..MaxChunks
  BY <1>1, StoredIsRead
<1>3. /\ new.count = Len(chunks) /\ new.old = <<>>
      /\ new.chunk = [i \in 1..MaxChunks |-> IF i <= Len(chunks) THEN chunks[i] ELSE section.chunk[i]]
  BY <1>1 DEF Store
<1>4. MaxChunks \in Nat \ {0}
  BY MetadataAssumption
<1>5. section.chunk \in [1..MaxChunks -> Seq(T)]
  BY DEF Whole
<1> HIDE DEF chunks
<1>6. PICK n \in 0..MaxChunks : n = Len(chunks)
  BY <1>2
<1>7. PICK s : s = new.chunk
  OBVIOUS
<1> HIDE DEF T
<1>8. \A i \in 1..n : chunks[i] \in Seq(T)
  BY <1>2, <1>6
<1>9. s \in [1..MaxChunks -> Seq(T)] /\ s \in Seq(Seq(T)) /\ Len(s) = MaxChunks
  <2>1. \A i \in 1..MaxChunks : (i <= n => i \in 1..n) /\ section.chunk[i] \in Seq(T)
    BY <1>4, <1>5
  <2>2. s = [i \in 1..MaxChunks |-> IF i <= n THEN chunks[i] ELSE section.chunk[i]]
    BY <1>3, <1>6, <1>7
  <2>3. \A i \in 1..MaxChunks : (IF i <= n THEN chunks[i] ELSE section.chunk[i]) \in Seq(T)
    BY <1>8, <2>1
  <2>4. s \in [1..MaxChunks -> Seq(T)]
    BY <2>2, <2>3
  <2> QED
    BY <1>4, <2>4
<1>10. SectionText(new) = ChunksText(new, n)
  BY <1>3, <1>6 DEF SectionText
<1>11. Parses(ChunksText(new, n)) /\ Listed(ChunksText(new, n)) = list
  <2>1. Parses(SectionText(new))
    BY <1>1, StoredIsRead
  <2> QED
    BY <1>2, <1>10, <2>1 DEF Records
<1>12. n # 0
  BY <1>11, NoChunks
<1>13. ASSUME NEW k \in 0..MaxChunks, Parses(ChunksText(new, k))
       PROVE  Listed(ChunksText(new, k)) = list
  <2>1. k # 0
    BY <1>13, NoChunks
  <2>2. n \in 1..Len(s) /\ k \in 1..Len(s)
    BY <1>4, <1>9, <1>12, <2>1
  <2>3. \A j : ChunksText(new, j) = FlattenSeq(SubSeq(s, 1, j))
    BY <1>7 DEF ChunksText
  <2>4. CASE k <= n
    <3>1. n \in k..Len(s)
      BY <1>4, <1>9, <2>2, <2>4
    <3>2. /\ ChunksText(new, k) \in Seq(T)
          /\ \E y \in Seq(T) : ChunksText(new, n) = ChunksText(new, k) \o y
      <4>1. /\ FlattenSeq(SubSeq(s, 1, k)) \in Seq(T)
            /\ \E y \in Seq(T) : FlattenSeq(SubSeq(s, 1, n)) = FlattenSeq(SubSeq(s, 1, k)) \o y
        BY <1>9, <2>2, <3>1, Beginning, Zenon
      <4> QED
        BY <2>3, <4>1, Zenon
    <3> QED
      BY <1>11, <1>13, <3>2, OneText
  <2>5. CASE n <= k
    <3>1. k \in n..Len(s)
      BY <1>4, <1>9, <2>2, <2>5
    <3>2. /\ ChunksText(new, n) \in Seq(T)
          /\ \E y \in Seq(T) : ChunksText(new, k) = ChunksText(new, n) \o y
      <4>1. /\ FlattenSeq(SubSeq(s, 1, n)) \in Seq(T)
            /\ \E y \in Seq(T) : FlattenSeq(SubSeq(s, 1, k)) = FlattenSeq(SubSeq(s, 1, n)) \o y
        BY <1>9, <2>2, <3>1, Beginning, Zenon
      <4> QED
        BY <2>3, <4>1, Zenon
    <3> QED
      BY <1>11, <1>13, <3>2, OneText
  <2> QED
    BY <1>4, <2>4, <2>5
<1> QED
  BY <1>1, <1>2, <1>3, <1>6, <1>7, <1>9, <1>13 DEF Whole, T

-----------------------------------------------------------------------------
(* The form.                                                               *)

\* The form is filled with a family it lists, and is ready only for what its
\* fields say.
FormInv ==
  /\ item \in Families \cup {NoFamily} /\ valid \in BOOLEAN /\ pending \in BOOLEAN
  /\ item # NoFamily => text \in Texts
  /\ ReadyMatches

\* Opening, closing and editing the form, and its timer, keep that.
LEMMA FormKept ==
  ASSUME FormInv,
         \/ UNCHANGED formVars \/ ClearForm \/ EditForm \/ Timer
         \/ \E a \in Assets, f \in Families \cup {NoFamily} : FillForm(a, f)
  PROVE  FormInv'
<1>1. CASE UNCHANGED formVars
  BY <1>1 DEF FormInv, ReadyMatches, SubsetName, formVars
<1>2. CASE ClearForm
  BY <1>2 DEF FormInv, ReadyMatches, ClearForm
<1>3. CASE EditForm
  BY <1>3, FormAssumption DEF FormInv, ReadyMatches, EditForm, PickFamily, TypeText, TypeAsset, DataChanged
<1>4. CASE Timer
  <2>1. CASE CheckData
    BY <2>1, FormAssumption DEF FormInv, ReadyMatches, CheckData, SubsetName
  <2>2. CASE CheckRaises
    BY <2>2 DEF FormInv, ReadyMatches, CheckRaises, SubsetName
  <2> QED
    BY <1>4, <2>1, <2>2 DEF Timer
<1>5. ASSUME NEW a \in Assets, NEW f \in Families \cup {NoFamily}, FillForm(a, f)
      PROVE  FormInv'
  BY <1>5, FormAssumption DEF FormInv, ReadyMatches, FillForm, DataChanged
<1> QED
  BY <1>1, <1>2, <1>3, <1>4, <1>5

\* Nothing else touches the form.
LEMMA FormSteps ==
  ASSUME StagingNext
  PROVE  \/ UNCHANGED formVars \/ ClearForm \/ EditForm \/ Timer
         \/ \E a \in Assets, f \in Families \cup {NoFamily} : FillForm(a, f)
<1>1. CASE Step
  BY <1>1 DEF Step, Exists, Make, Items, Count, Read, Default, Ids, Write, Rename, DeleteNode, Fail, Done, stepVars
<1> QED
  BY <1>1 DEF StagingNext, OpenCreator, Edit, Confirm, Create, Load, OpenManager, PressRefresh,
     RemoveRow, CloseCreator, CloseManager, SwitchDocument, DeleteLayer

\* No edit and no late timer leaves the Creator's button enabled over a name
\* that was computed from earlier fields.
THEOREM ReadyFormMatches == StagingSpec => []ReadyMatches
<1>1. StagingInit => FormInv
  BY DEF StagingInit, InitForm, FormInv, ReadyMatches
<1>2. FormInv /\ [StagingNext]_stagingVars => FormInv'
  <2>1. ASSUME FormInv, StagingNext
        PROVE  FormInv'
    BY <2>1, FormKept, FormSteps
  <2>2. ASSUME FormInv, UNCHANGED stagingVars
        PROVE  FormInv'
    BY <2>2, FormKept DEF stagingVars
  <2> QED
    BY <2>1, <2>2
<1>3. FormInv => ReadyMatches
  BY DEF FormInv
<1> QED
  BY <1>1, <1>2, <1>3, PTL DEF StagingSpec

-----------------------------------------------------------------------------
(* The operations.                                                         *)

\* What records say.
Names == {NoName, LoadName} \cup {OldName[d] : d \in Docs} \cup (Families \X Texts)
Record == [kind : {"instance", "container"}, key : Nat, name : Names]

Works == {"none", "list", "remove", "create", "load"}
Making == {"create", "load"}

\* Operations and documents by their fields.
Operation(what, name, key, plan, data, doc, layers, todo, steady, late) ==
  [what |-> what, name |-> name, key |-> key, plan |-> plan, data |-> data, doc |-> doc,
   ids |-> layers, todo |-> todo, steady |-> steady, late |-> late]
Document(name, next, alive, icon, list, instances, containers) ==
  [name |-> name, next |-> next, alive |-> alive, icon |-> icon, list |-> list,
   instances |-> instances, containers |-> containers]

IsOp(o) == o = Operation(o.what, o.name, o.key, o.plan, o.data, o.doc, o.ids, o.todo, o.steady, o.late)
IsDoc(o) == o = Document(o.name, o.next, o.alive, o.icon, o.list, o.instances, o.containers)

OpTypes ==
  /\ IsOp(op)
  /\ op.what \in Works /\ op.name \in Names /\ op.key \in Nat /\ op.data \in Seq(Record)
  /\ op.doc \in Docs /\ op.steady \in BOOLEAN /\ op.late \in BOOLEAN
  /\ host # "aftereffects" \/ op.what \notin Making => op.todo = {}
DocTypes ==
  /\ docs = [d \in Docs |-> docs[d]] /\ \A d \in Docs : IsDoc(docs[d])
  /\ \A d \in Docs : /\ docs[d].next \in Nat \ {0} /\ docs[d].list \in Seq(Record)
                     /\ docs[d].alive \subseteq 1..MaxNode
StageTypes ==
  /\ host \in Hosts /\ granted \in BOOLEAN /\ (granted \/ host = "tvpaint")
  /\ active \in Docs /\ acts \in 0..MaxActs /\ calm \in BOOLEAN
  /\ rows.doc \in Docs /\ rows.list \in Seq(Record)
  /\ OpTypes /\ DocTypes

\* What may be left of the plan of an operation.
PlanFor(what, plan) ==
  /\ what = "none" => plan = <<>>
  /\ what = "list" /\ host # "tvpaint" => plan \in {<<>>, <<"read">>}
  /\ what = "list" /\ host = "tvpaint" => plan \in {<<>>, <<"read">>, <<"default">>, <<"count", "read">>}
  /\ what \in Making \cup {"remove"} /\ host = "tvpaint" =>
       plan \in {<<>>, <<"write">>, <<"read", "write">>, <<"default", "write">>, <<"count", "read", "write">>}
  /\ what = "remove" /\ host = "harmony" =>
       plan \in {<<>>, <<"delete">>, <<"write", "delete">>, <<"read", "write", "delete">>}
  /\ what = "remove" /\ host \in {"photoshop", "aftereffects"} =>
       plan \in {<<>>, <<"rename">>, <<"write", "rename">>, <<"read", "write", "rename">>}
  /\ what \in Making /\ host = "harmony" =>
       plan \in {<<>>, <<"write">>, <<"read", "write">>, <<"make", "read", "write">>,
                    <<"exists", "make", "read", "write">>}
  /\ what \in Making /\ host = "photoshop" =>
       plan \in {<<>>, <<"write">>, <<"ids", "write">>, <<"read", "ids", "write">>,
                    <<"make", "read", "ids", "write">>, <<"exists">>}
  /\ what \in Making /\ host = "aftereffects" =>
       plan \in {<<>>, <<"write">>, <<"ids", "write">>, <<"read", "ids", "write">>,
                    <<"make", "read", "ids", "write">>, <<"items">>, <<"exists", "items">>}
PlanInv == PlanFor(op.what, op.plan)

\* The chunks of a section have been counted; its text could not be parsed; a
\* list has been read and is still to be written; a record is still to be added
\* to a section.
Counted == {<<"read", "write">>, <<"read">>}
Defaulting == {<<"default", "write">>, <<"default">>}
Held == {<<"write">>, <<"ids", "write">>, <<"write", "delete">>, <<"write", "rename">>} \cup Defaulting
Unwritten == {<<"write">>, <<"read", "write">>, <<"default", "write">>, <<"count", "read", "write">>}
Source(d) == IF host = "tvpaint" THEN Records(docs[d][Section]) ELSE docs[d].list
Quota == IF op.what \in Making /\ op.plan \in Unwritten THEN acts ELSE acts + 1
Fits(list, n) == list \in Seq(Record) /\ Len(list) <= n

\* While its document stays active and could be read, an operation works on the
\* list the document still has, and keeps the records of all its layers; the
\* chunks it has counted are those of the active document; and a section has
\* one record for each act at most, and the one it started with.
ReadInv ==
  /\ host = "tvpaint" =>
       /\ Fits(op.data, Quota)
       /\ \A d \in Docs : Fits(Records(docs[d].instances), Quota) /\ Fits(Records(docs[d].containers), Quota)
  /\ op.steady /\ op.plan \in Held => op.data = Source(active)
  /\ op.plan \in Defaulting => op.data = <<>>
  /\ host = "tvpaint" /\ op.plan \in Counted =>
       granted /\ (op.steady => op.doc = active /\ docs[active][Section].old = <<>>)
  /\ host \in {"photoshop", "aftereffects"} /\ op.steady /\ op.plan = <<"write">> =>
       docs[active].alive \subseteq op.ids

\* However many chunk keys of a section are read, a text that parses is its own.
ChunksInv == \A d \in Docs : Whole(Record, docs[d].instances) /\ Whole(Record, docs[d].containers)

\* The changes that steps make to an operation.
Moved(o, key, late) == [o EXCEPT !.key = key, !.late = late]
Chosen(o, todo, plan) == [o EXCEPT !.todo = todo, !.plan = plan]
Reread(o, doc, data, steady, plan) == [o EXCEPT !.doc = doc, !.data = data, !.steady = steady, !.plan = plan]
Rewritten(o, late, todo, plan) == [o EXCEPT !.late = late, !.todo = todo, !.plan = plan]
Begun(o, what, name, key, plan) == [o EXCEPT !.what = what, !.name = name, !.key = key, !.plan = plan]
Removing(o, what, name, key, plan, steady) ==
  [o EXCEPT !.what = what, !.name = name, !.key = key, !.plan = plan, !.steady = steady]

\* What changing fields of an operation gives.
LEMMA OpChanges ==
  ASSUME NEW o, IsOp(o)
  PROVE  /\ \A x : [o EXCEPT !.plan = x] =
              Operation(o.what, o.name, o.key, x, o.data, o.doc, o.ids, o.todo, o.steady, o.late)
         /\ \A x : [o EXCEPT !.ids = x] =
              Operation(o.what, o.name, o.key, o.plan, o.data, o.doc, x, o.todo, o.steady, o.late)
         /\ \A x : [o EXCEPT !.steady = x] =
              Operation(o.what, o.name, o.key, o.plan, o.data, o.doc, o.ids, o.todo, x, o.late)
         /\ \A x, y : Moved(o, x, y) =
              Operation(o.what, o.name, x, o.plan, o.data, o.doc, o.ids, o.todo, o.steady, y)
         /\ \A x, y : Chosen(o, x, y) =
              Operation(o.what, o.name, o.key, y, o.data, o.doc, o.ids, x, o.steady, o.late)
         /\ \A x : [o EXCEPT !.doc = x] =
              Operation(o.what, o.name, o.key, o.plan, o.data, x, o.ids, o.todo, o.steady, o.late)
         /\ \A x, y, s, p : Reread(o, x, y, s, p) =
              Operation(o.what, o.name, o.key, p, y, x, o.ids, o.todo, s, o.late)
         /\ \A x, y, z : Rewritten(o, x, y, z) =
              Operation(o.what, o.name, o.key, z, o.data, o.doc, o.ids, y, o.steady, x)
         /\ \A w, m, k, p : Begun(o, w, m, k, p) =
              Operation(w, m, k, p, o.data, o.doc, o.ids, o.todo, o.steady, o.late)
         /\ \A w, m, k, p, s : Removing(o, w, m, k, p, s) =
              Operation(w, m, k, p, o.data, o.doc, o.ids, o.todo, s, o.late)
<1>1. /\ \A x : [o EXCEPT !.plan = x] =
           Operation(o.what, o.name, o.key, x, o.data, o.doc, o.ids, o.todo, o.steady, o.late)
      /\ \A x : [o EXCEPT !.ids = x] =
           Operation(o.what, o.name, o.key, o.plan, o.data, o.doc, x, o.todo, o.steady, o.late)
      /\ \A x : [o EXCEPT !.steady = x] =
           Operation(o.what, o.name, o.key, o.plan, o.data, o.doc, o.ids, o.todo, x, o.late)
      /\ \A x : [o EXCEPT !.doc = x] =
           Operation(o.what, o.name, o.key, o.plan, o.data, x, o.ids, o.todo, o.steady, o.late)
  BY DEF IsOp, Operation
<1>2. ASSUME NEW x, NEW y
      PROVE  Moved(o, x, y) =
               Operation(o.what, o.name, x, o.plan, o.data, o.doc, o.ids, o.todo, o.steady, y)
  <2>1. PICK q : q = [o EXCEPT !.key = x]
    OBVIOUS
  <2>2. Moved(o, x, y) = [q EXCEPT !.late = y]
    BY <2>1 DEF Moved
  <2>3. q = Operation(o.what, o.name, x, o.plan, o.data, o.doc, o.ids, o.todo, o.steady, o.late)
    BY <2>1 DEF IsOp, Operation
  <2> QED
    BY <2>2, <2>3 DEF Operation
<1>3. ASSUME NEW x, NEW y
      PROVE  Chosen(o, x, y) =
               Operation(o.what, o.name, o.key, y, o.data, o.doc, o.ids, x, o.steady, o.late)
  <2>1. PICK q : q = [o EXCEPT !.todo = x]
    OBVIOUS
  <2>2. Chosen(o, x, y) = [q EXCEPT !.plan = y]
    BY <2>1 DEF Chosen
  <2>3. q = Operation(o.what, o.name, o.key, o.plan, o.data, o.doc, o.ids, x, o.steady, o.late)
    BY <2>1 DEF IsOp, Operation
  <2> QED
    BY <2>2, <2>3 DEF Operation
<1>4. ASSUME NEW x, NEW y, NEW s, NEW p
      PROVE  Reread(o, x, y, s, p) =
               Operation(o.what, o.name, o.key, p, y, x, o.ids, o.todo, s, o.late)
  <2>1. PICK q1 : q1 = [o EXCEPT !.doc = x]
    OBVIOUS
  <2>2. PICK q2 : q2 = [q1 EXCEPT !.data = y]
    OBVIOUS
  <2>3. PICK q3 : q3 = [q2 EXCEPT !.steady = s]
    OBVIOUS
  <2>4. Reread(o, x, y, s, p) = [q3 EXCEPT !.plan = p]
    BY <2>1, <2>2, <2>3 DEF Reread
  <2>5. q1 = Operation(o.what, o.name, o.key, o.plan, o.data, x, o.ids, o.todo, o.steady, o.late)
    BY <2>1 DEF IsOp, Operation
  <2>6. q2 = Operation(o.what, o.name, o.key, o.plan, y, x, o.ids, o.todo, o.steady, o.late)
    BY <2>2, <2>5 DEF Operation
  <2>7. q3 = Operation(o.what, o.name, o.key, o.plan, y, x, o.ids, o.todo, s, o.late)
    BY <2>3, <2>6 DEF Operation
  <2>8. [q3 EXCEPT !.plan = p] = Operation(o.what, o.name, o.key, p, y, x, o.ids, o.todo, s, o.late)
    BY <2>7 DEF Operation
  <2> QED
    BY <2>4, <2>8
<1>5. ASSUME NEW x, NEW y, NEW z
      PROVE  Rewritten(o, x, y, z) =
               Operation(o.what, o.name, o.key, z, o.data, o.doc, o.ids, y, o.steady, x)
  <2>1. PICK q : q = [o EXCEPT !.late = x]
    OBVIOUS
  <2>2. PICK v : v = [q EXCEPT !.todo = y]
    OBVIOUS
  <2>3. Rewritten(o, x, y, z) = [v EXCEPT !.plan = z]
    BY <2>1, <2>2 DEF Rewritten
  <2>4. q = Operation(o.what, o.name, o.key, o.plan, o.data, o.doc, o.ids, o.todo, o.steady, x)
    BY <2>1 DEF IsOp, Operation
  <2>5. v = Operation(o.what, o.name, o.key, o.plan, o.data, o.doc, o.ids, y, o.steady, x)
    BY <2>2, <2>4 DEF Operation
  <2> QED
    BY <2>3, <2>5 DEF Operation
<1>6. ASSUME NEW w, NEW m, NEW k, NEW p
      PROVE  Begun(o, w, m, k, p) =
               Operation(w, m, k, p, o.data, o.doc, o.ids, o.todo, o.steady, o.late)
  <2>1. PICK q1 : q1 = [o EXCEPT !.what = w]
    OBVIOUS
  <2>2. PICK q2 : q2 = [q1 EXCEPT !.name = m]
    OBVIOUS
  <2>3. PICK q3 : q3 = [q2 EXCEPT !.key = k]
    OBVIOUS
  <2>4. Begun(o, w, m, k, p) = [q3 EXCEPT !.plan = p]
    BY <2>1, <2>2, <2>3 DEF Begun
  <2>5. q1 = Operation(w, o.name, o.key, o.plan, o.data, o.doc, o.ids, o.todo, o.steady, o.late)
    BY <2>1 DEF IsOp, Operation
  <2>6. q2 = Operation(w, m, o.key, o.plan, o.data, o.doc, o.ids, o.todo, o.steady, o.late)
    BY <2>2, <2>5 DEF Operation
  <2>7. q3 = Operation(w, m, k, o.plan, o.data, o.doc, o.ids, o.todo, o.steady, o.late)
    BY <2>3, <2>6 DEF Operation
  <2>8. [q3 EXCEPT !.plan = p] = Operation(w, m, k, p, o.data, o.doc, o.ids, o.todo, o.steady, o.late)
    BY <2>7 DEF Operation
  <2> QED
    BY <2>4, <2>8
<1>7. ASSUME NEW w, NEW m, NEW k, NEW p, NEW s
      PROVE  Removing(o, w, m, k, p, s) = Operation(w, m, k, p, o.data, o.doc, o.ids, o.todo, s, o.late)
  <2>1. PICK q : q = Begun(o, w, m, k, p)
    OBVIOUS
  <2>2. Removing(o, w, m, k, p, s) = [q EXCEPT !.steady = s]
    BY <2>1 DEF Removing, Begun
  <2>3. q = Operation(w, m, k, p, o.data, o.doc, o.ids, o.todo, o.steady, o.late)
    BY <1>6, <2>1, Zenon
  <2> QED
    BY <2>2, <2>3 DEF Operation
<1>8. \A x, y : Moved(o, x, y) =
           Operation(o.what, o.name, x, o.plan, o.data, o.doc, o.ids, o.todo, o.steady, y)
  BY <1>2, Zenon
<1>9. \A x, y : Chosen(o, x, y) =
           Operation(o.what, o.name, o.key, y, o.data, o.doc, o.ids, x, o.steady, o.late)
  BY <1>3, Zenon
<1>10. \A x, y, s, p : Reread(o, x, y, s, p) =
           Operation(o.what, o.name, o.key, p, y, x, o.ids, o.todo, s, o.late)
  BY <1>4, Zenon
<1>11. \A x, y, z : Rewritten(o, x, y, z) =
           Operation(o.what, o.name, o.key, z, o.data, o.doc, o.ids, y, o.steady, x)
  BY <1>5, Zenon
<1>12. \A w, m, k, p : Begun(o, w, m, k, p) =
           Operation(w, m, k, p, o.data, o.doc, o.ids, o.todo, o.steady, o.late)
  BY <1>6, Zenon
<1>13. \A w, m, k, p, s : Removing(o, w, m, k, p, s) = Operation(w, m, k, p, o.data, o.doc, o.ids, o.todo, s, o.late)
  BY <1>7, Zenon
<1> QED
  BY <1>1, <1>8, <1>9, <1>10, <1>11, <1>12, <1>13, Zenon

\* The next call of the plan.
LEMMA Next1Step ==
  ASSUME IsOp(op)
  PROVE  /\ Next1(op) = Operation(op.what, op.name, op.key, Tail(op.plan), op.data, op.doc, op.ids, op.todo,
                                  op.steady, op.late)
         /\ IsOp(Next1(op))
         /\ Next1(op).what = op.what /\ Next1(op).name = op.name /\ Next1(op).key = op.key
         /\ Next1(op).plan = Tail(op.plan) /\ Next1(op).data = op.data /\ Next1(op).doc = op.doc
         /\ Next1(op).ids = op.ids /\ Next1(op).todo = op.todo /\ Next1(op).steady = op.steady
         /\ Next1(op).late = op.late
<1>1. PICK q : q = Next1(op)
  OBVIOUS
<1>2. q = Operation(op.what, op.name, op.key, Tail(op.plan), op.data, op.doc, op.ids, op.todo, op.steady, op.late)
  BY <1>1 DEF Next1, IsOp, Operation
<1>3. /\ q.what = op.what /\ q.name = op.name /\ q.key = op.key /\ q.plan = Tail(op.plan) /\ q.data = op.data
      /\ q.doc = op.doc /\ q.ids = op.ids /\ q.todo = op.todo /\ q.steady = op.steady /\ q.late = op.late
  BY <1>2 DEF Operation
<1>4. IsOp(q)
  BY <1>2, <1>3, Zenon DEF IsOp
<1> QED
  BY <1>1, <1>2, <1>3, <1>4, Zenon

\* No operation.
LEMMA NoOpFields ==
  /\ IsOp(NoOp) /\ NoOp.what = "none" /\ NoOp.name = NoName /\ NoOp.key = NoKey /\ NoOp.plan = <<>>
  /\ NoOp.data = <<>> /\ NoOp.doc = 1 /\ NoOp.ids = {} /\ NoOp.todo = {} /\ NoOp.steady = TRUE /\ NoOp.late = FALSE
BY DEF IsOp, NoOp, Operation

\* The fields of an operation.
\* What changing a field of a document gives.
LEMMA DocFields ==
  ASSUME NEW o, IsDoc(o), NEW x
  PROVE  /\ [o EXCEPT !.list = x] = Document(o.name, o.next, o.alive, o.icon, x, o.instances, o.containers)
         /\ [o EXCEPT !.icon = x] = Document(o.name, o.next, o.alive, x, o.list, o.instances, o.containers)
         /\ [o EXCEPT !.alive = x] = Document(o.name, o.next, x, o.icon, o.list, o.instances, o.containers)
         /\ [o EXCEPT !.next = x] = Document(o.name, x, o.alive, o.icon, o.list, o.instances, o.containers)
         /\ [o EXCEPT !.instances = x] = Document(o.name, o.next, o.alive, o.icon, o.list, x, o.containers)
         /\ [o EXCEPT !.containers = x] = Document(o.name, o.next, o.alive, o.icon, o.list, o.instances, x)
BY DEF IsDoc, Document

\* A step that makes the active document D changes no other.
LEMMA OneDocument ==
  ASSUME DocTypes, active \in Docs, NEW D, IsDoc(D), docs' = [docs EXCEPT ![active] = D]
  PROVE  /\ docs' = [d \in Docs |-> docs'[d]] /\ \A d \in Docs : IsDoc(docs'[d])
         /\ docs'[active] = D /\ \A d \in Docs \ {active} : docs'[d] = docs[d]
<1>1. docs' = [d \in Docs |-> docs'[d]] /\ docs'[active] = D /\ \A d \in Docs \ {active} : docs'[d] = docs[d]
  BY DEF DocTypes
<1>2. ASSUME NEW d \in Docs
      PROVE  IsDoc(docs'[d])
  <2>1. CASE d = active
    BY <1>1, <2>1, Zenon
  <2>2. CASE d # active
    <3>1. docs'[d] = docs[d]
      BY <1>1, <2>2, Zenon
    <3> QED
      BY <3>1, Zenon DEF DocTypes
  <2> QED
    BY <2>1, <2>2, Zenon
<1> QED
  BY <1>1, <1>2, Zenon

\* A change of one field is one of the active document.
LEMMA DocChanges ==
  ASSUME DocTypes, active \in Docs
  PROVE  /\ \A x : [docs EXCEPT ![active].list = x] = [docs EXCEPT ![active] = [docs[active] EXCEPT !.list = x]]
         /\ \A x : [docs EXCEPT ![active].icon = x] = [docs EXCEPT ![active] = [docs[active] EXCEPT !.icon = x]]
         /\ \A x : [docs EXCEPT ![active].alive = x] = [docs EXCEPT ![active] = [docs[active] EXCEPT !.alive = x]]
         /\ \A x : [docs EXCEPT ![active].next = x] = [docs EXCEPT ![active] = [docs[active] EXCEPT !.next = x]]
         /\ \A x : [docs EXCEPT ![active].instances = x] = [docs EXCEPT ![active] = [docs[active] EXCEPT !.instances = x]]
         /\ \A x : [docs EXCEPT ![active].containers = x] = [docs EXCEPT ![active] = [docs[active] EXCEPT !.containers = x]]
OBVIOUS

\* What changing one or two fields of a document gives.
LEMMA Deleting ==
  ASSUME NEW o, IsDoc(o), NEW x, NEW y
  PROVE  [o EXCEPT !.alive = x, !.icon = y] = Document(o.name, o.next, x, y, o.list, o.instances, o.containers)
<1>1. PICK q : q = [o EXCEPT !.alive = x]
  OBVIOUS
<1>2. [o EXCEPT !.alive = x, !.icon = y] = [q EXCEPT !.icon = y]
  BY <1>1
<1>3. q = Document(o.name, o.next, x, o.icon, o.list, o.instances, o.containers)
  BY <1>1 DEF IsDoc, Document
<1> QED
  BY <1>2, <1>3 DEF Document
Grown(o, k, x, y, z, u) == [o EXCEPT !.name[k] = x, !.alive = y, !.next = z, !.icon = u]

\* A document with another layer.
LEMMA Making1 ==
  ASSUME NEW o, IsDoc(o), NEW x, NEW y, NEW z, NEW u, NEW k
  PROVE  Grown(o, k, x, y, z, u) =
           Document([o.name EXCEPT ![k] = x], z, y, u, o.list, o.instances, o.containers)
<1>1. PICK q1 : q1 = [o EXCEPT !.name[k] = x]
  OBVIOUS
<1>2. PICK q2 : q2 = [q1 EXCEPT !.alive = y]
  OBVIOUS
<1>3. PICK q3 : q3 = [q2 EXCEPT !.next = z]
  OBVIOUS
<1>4. Grown(o, k, x, y, z, u) = [q3 EXCEPT !.icon = u]
  BY <1>1, <1>2, <1>3 DEF Grown
<1>5. q1 = Document([o.name EXCEPT ![k] = x], o.next, o.alive, o.icon, o.list, o.instances, o.containers)
  BY <1>1 DEF IsDoc, Document
<1>6. q2 = Document([o.name EXCEPT ![k] = x], o.next, y, o.icon, o.list, o.instances, o.containers)
  BY <1>2, <1>5 DEF Document
<1>7. q3 = Document([o.name EXCEPT ![k] = x], z, y, o.icon, o.list, o.instances, o.containers)
  BY <1>3, <1>6 DEF Document
<1>8. [q3 EXCEPT !.icon = u] = Document([o.name EXCEPT ![k] = x], z, y, u, o.list, o.instances, o.containers)
  BY <1>7 DEF Document
<1> QED
  BY <1>4, <1>8

\* The documents after one of them has another list ...
LEMMA ListEffect ==
  ASSUME DocTypes, active \in Docs, NEW x, docs' = [docs EXCEPT ![active].list = x]
  PROVE  /\ docs' = [d \in Docs |-> docs'[d]] /\ \A d \in Docs : IsDoc(docs'[d])
         /\ docs'[active].next = docs[active].next /\ docs'[active].alive = docs[active].alive /\ docs'[active].icon = docs[active].icon
         /\ docs'[active].list = x /\ docs'[active].instances = docs[active].instances /\ docs'[active].containers = docs[active].containers
         /\ \A d \in Docs \ {active} : docs'[d] = docs[d]
<1>1. PICK o : o = docs[active]
  OBVIOUS
<1>2. IsDoc(o)
  BY <1>1, Zenon DEF DocTypes
<1>3. PICK D : D = [o EXCEPT !.list = x]
  OBVIOUS
<1>4. docs' = [docs EXCEPT ![active] = D]
  BY <1>1, <1>3, DocChanges, Zenon
<1>5. D = Document(o.name, o.next, o.alive, o.icon, x, o.instances, o.containers)
  BY <1>2, <1>3, DocFields, Zenon
<1>6. /\ D.name = o.name /\ D.next = o.next /\ D.alive = o.alive /\ D.icon = o.icon
      /\ D.list = x /\ D.instances = o.instances /\ D.containers = o.containers
  BY <1>5 DEF Document
<1>7. IsDoc(D)
  BY <1>5, <1>6, Zenon DEF IsDoc
<1> QED
  BY <1>1, <1>4, <1>6, <1>7, OneDocument, Zenon

\* ... or other icons ...
LEMMA IconEffect ==
  ASSUME DocTypes, active \in Docs, NEW x, docs' = [docs EXCEPT ![active].icon = x]
  PROVE  /\ docs' = [d \in Docs |-> docs'[d]] /\ \A d \in Docs : IsDoc(docs'[d])
         /\ docs'[active].next = docs[active].next /\ docs'[active].alive = docs[active].alive /\ docs'[active].icon = x
         /\ docs'[active].list = docs[active].list /\ docs'[active].instances = docs[active].instances /\ docs'[active].containers = docs[active].containers
         /\ \A d \in Docs \ {active} : docs'[d] = docs[d]
<1>1. PICK o : o = docs[active]
  OBVIOUS
<1>2. IsDoc(o)
  BY <1>1, Zenon DEF DocTypes
<1>3. PICK D : D = [o EXCEPT !.icon = x]
  OBVIOUS
<1>4. docs' = [docs EXCEPT ![active] = D]
  BY <1>1, <1>3, DocChanges, Zenon
<1>5. D = Document(o.name, o.next, o.alive, x, o.list, o.instances, o.containers)
  BY <1>2, <1>3, DocFields, Zenon
<1>6. /\ D.name = o.name /\ D.next = o.next /\ D.alive = o.alive /\ D.icon = x
      /\ D.list = o.list /\ D.instances = o.instances /\ D.containers = o.containers
  BY <1>5 DEF Document
<1>7. IsDoc(D)
  BY <1>5, <1>6, Zenon DEF IsDoc
<1> QED
  BY <1>1, <1>4, <1>6, <1>7, OneDocument, Zenon

\* ... or other layers ...
LEMMA AliveEffect ==
  ASSUME DocTypes, active \in Docs, NEW x, docs' = [docs EXCEPT ![active].alive = x]
  PROVE  /\ docs' = [d \in Docs |-> docs'[d]] /\ \A d \in Docs : IsDoc(docs'[d])
         /\ docs'[active].next = docs[active].next /\ docs'[active].alive = x /\ docs'[active].icon = docs[active].icon
         /\ docs'[active].list = docs[active].list /\ docs'[active].instances = docs[active].instances /\ docs'[active].containers = docs[active].containers
         /\ \A d \in Docs \ {active} : docs'[d] = docs[d]
<1>1. PICK o : o = docs[active]
  OBVIOUS
<1>2. IsDoc(o)
  BY <1>1, Zenon DEF DocTypes
<1>3. PICK D : D = [o EXCEPT !.alive = x]
  OBVIOUS
<1>4. docs' = [docs EXCEPT ![active] = D]
  BY <1>1, <1>3, DocChanges, Zenon
<1>5. D = Document(o.name, o.next, x, o.icon, o.list, o.instances, o.containers)
  BY <1>2, <1>3, DocFields, Zenon
<1>6. /\ D.name = o.name /\ D.next = o.next /\ D.alive = x /\ D.icon = o.icon
      /\ D.list = o.list /\ D.instances = o.instances /\ D.containers = o.containers
  BY <1>5 DEF Document
<1>7. IsDoc(D)
  BY <1>5, <1>6, Zenon DEF IsDoc
<1> QED
  BY <1>1, <1>4, <1>6, <1>7, OneDocument, Zenon

\* ... or has given out a number ...
LEMMA NextNumberEffect ==
  ASSUME DocTypes, active \in Docs, NEW x, docs' = [docs EXCEPT ![active].next = x]
  PROVE  /\ docs' = [d \in Docs |-> docs'[d]] /\ \A d \in Docs : IsDoc(docs'[d])
         /\ docs'[active].next = x /\ docs'[active].alive = docs[active].alive /\ docs'[active].icon = docs[active].icon
         /\ docs'[active].list = docs[active].list /\ docs'[active].instances = docs[active].instances /\ docs'[active].containers = docs[active].containers
         /\ \A d \in Docs \ {active} : docs'[d] = docs[d]
<1>1. PICK o : o = docs[active]
  OBVIOUS
<1>2. IsDoc(o)
  BY <1>1, Zenon DEF DocTypes
<1>3. PICK D : D = [o EXCEPT !.next = x]
  OBVIOUS
<1>4. docs' = [docs EXCEPT ![active] = D]
  BY <1>1, <1>3, DocChanges, Zenon
<1>5. D = Document(o.name, x, o.alive, o.icon, o.list, o.instances, o.containers)
  BY <1>2, <1>3, DocFields, Zenon
<1>6. /\ D.name = o.name /\ D.next = x /\ D.alive = o.alive /\ D.icon = o.icon
      /\ D.list = o.list /\ D.instances = o.instances /\ D.containers = o.containers
  BY <1>5 DEF Document
<1>7. IsDoc(D)
  BY <1>5, <1>6, Zenon DEF IsDoc
<1> QED
  BY <1>1, <1>4, <1>6, <1>7, OneDocument, Zenon

\* ... or has other instances ...
LEMMA InstancesEffect ==
  ASSUME DocTypes, active \in Docs, NEW x, docs' = [docs EXCEPT ![active].instances = x]
  PROVE  /\ docs' = [d \in Docs |-> docs'[d]] /\ \A d \in Docs : IsDoc(docs'[d])
         /\ docs'[active].next = docs[active].next /\ docs'[active].alive = docs[active].alive /\ docs'[active].icon = docs[active].icon
         /\ docs'[active].list = docs[active].list /\ docs'[active].instances = x /\ docs'[active].containers = docs[active].containers
         /\ \A d \in Docs \ {active} : docs'[d] = docs[d]
<1>1. PICK o : o = docs[active]
  OBVIOUS
<1>2. IsDoc(o)
  BY <1>1, Zenon DEF DocTypes
<1>3. PICK D : D = [o EXCEPT !.instances = x]
  OBVIOUS
<1>4. docs' = [docs EXCEPT ![active] = D]
  BY <1>1, <1>3, DocChanges, Zenon
<1>5. D = Document(o.name, o.next, o.alive, o.icon, o.list, x, o.containers)
  BY <1>2, <1>3, DocFields, Zenon
<1>6. /\ D.name = o.name /\ D.next = o.next /\ D.alive = o.alive /\ D.icon = o.icon
      /\ D.list = o.list /\ D.instances = x /\ D.containers = o.containers
  BY <1>5 DEF Document
<1>7. IsDoc(D)
  BY <1>5, <1>6, Zenon DEF IsDoc
<1> QED
  BY <1>1, <1>4, <1>6, <1>7, OneDocument, Zenon

\* ... or other containers ...
LEMMA ContainersEffect ==
  ASSUME DocTypes, active \in Docs, NEW x, docs' = [docs EXCEPT ![active].containers = x]
  PROVE  /\ docs' = [d \in Docs |-> docs'[d]] /\ \A d \in Docs : IsDoc(docs'[d])
         /\ docs'[active].next = docs[active].next /\ docs'[active].alive = docs[active].alive /\ docs'[active].icon = docs[active].icon
         /\ docs'[active].list = docs[active].list /\ docs'[active].instances = docs[active].instances /\ docs'[active].containers = x
         /\ \A d \in Docs \ {active} : docs'[d] = docs[d]
<1>1. PICK o : o = docs[active]
  OBVIOUS
<1>2. IsDoc(o)
  BY <1>1, Zenon DEF DocTypes
<1>3. PICK D : D = [o EXCEPT !.containers = x]
  OBVIOUS
<1>4. docs' = [docs EXCEPT ![active] = D]
  BY <1>1, <1>3, DocChanges, Zenon
<1>5. D = Document(o.name, o.next, o.alive, o.icon, o.list, o.instances, x)
  BY <1>2, <1>3, DocFields, Zenon
<1>6. /\ D.name = o.name /\ D.next = o.next /\ D.alive = o.alive /\ D.icon = o.icon
      /\ D.list = o.list /\ D.instances = o.instances /\ D.containers = x
  BY <1>5 DEF Document
<1>7. IsDoc(D)
  BY <1>5, <1>6, Zenon DEF IsDoc
<1> QED
  BY <1>1, <1>4, <1>6, <1>7, OneDocument, Zenon

\* ... or has lost a layer with its icon.
LEMMA DeletingEffect ==
  ASSUME DocTypes, active \in Docs, NEW x, NEW y, docs' = [docs EXCEPT ![active] = [docs[active] EXCEPT !.alive = x, !.icon = y]]
  PROVE  /\ docs' = [d \in Docs |-> docs'[d]] /\ \A d \in Docs : IsDoc(docs'[d])
         /\ docs'[active].next = docs[active].next /\ docs'[active].alive = x /\ docs'[active].icon = y
         /\ docs'[active].list = docs[active].list /\ docs'[active].instances = docs[active].instances /\ docs'[active].containers = docs[active].containers
         /\ \A d \in Docs \ {active} : docs'[d] = docs[d]
<1>1. PICK o : o = docs[active]
  OBVIOUS
<1>2. IsDoc(o)
  BY <1>1, Zenon DEF DocTypes
<1>3. PICK D : D = [o EXCEPT !.alive = x, !.icon = y]
  OBVIOUS
<1>4. docs' = [docs EXCEPT ![active] = D]
  BY <1>1, <1>3, Zenon
<1>5. D = Document(o.name, o.next, x, y, o.list, o.instances, o.containers)
  BY <1>2, <1>3, Deleting, Zenon
<1>6. /\ D.name = o.name /\ D.next = o.next /\ D.alive = x /\ D.icon = y
      /\ D.list = o.list /\ D.instances = o.instances /\ D.containers = o.containers
  BY <1>5 DEF Document
<1>7. IsDoc(D)
  BY <1>5, <1>6, Zenon DEF IsDoc
<1> QED
  BY <1>1, <1>4, <1>6, <1>7, OneDocument, Zenon

Switched(o, steady) == [o EXCEPT !.steady = steady]

\* What a step may leave as it is: the records of the documents, and their layers.
SameLists ==
  \A d \in Docs : /\ docs'[d].list = docs[d].list
                  /\ docs'[d].instances = docs[d].instances /\ docs'[d].containers = docs[d].containers
SameLayers == \A d \in Docs : /\ docs'[d].alive = docs[d].alive /\ docs'[d].icon = docs[d].icon
                              /\ docs'[d].next = docs[d].next
SameTask == /\ op'.what = op.what /\ op'.name = op.name /\ op'.steady = op.steady

\* An exception ends the operation.
LEMMA RaiseEffect ==
  ASSUME Raise
  PROVE  /\ op' = NoOp /\ calm' = (calm /\ ~op.late)
         /\ IsOp(op)' /\ op'.what = "none" /\ op'.name = NoName /\ op'.key = NoKey /\ op'.plan = <<>>
         /\ op'.data = <<>> /\ op'.doc = 1 /\ op'.ids = {} /\ op'.todo = {} /\ op'.steady = TRUE /\ op'.late = FALSE
<1>1. op' = NoOp /\ calm' = (calm /\ ~op.late)
  BY DEF Raise
<1>2. IsOp(op)'
  BY <1>1, NoOpFields, Zenon DEF IsOp
<1> QED
  BY <1>1, <1>2, NoOpFields, Zenon

\* The rest of the plan is dropped.
LEMMA QuitEffect ==
  ASSUME IsOp(op), Quit
  PROVE  /\ IsOp(op)' /\ SameTask /\ op'.key = op.key /\ op'.plan = <<>> /\ op'.data = op.data
         /\ op'.doc = op.doc /\ op'.ids = op.ids /\ op'.todo = op.todo /\ op'.late = op.late
<1>1. op' = Operation(op.what, op.name, op.key, <<>>, op.data, op.doc, op.ids, op.todo, op.steady, op.late)
  BY OpChanges, Zenon DEF Quit
<1>2. /\ SameTask /\ op'.key = op.key /\ op'.plan = <<>> /\ op'.data = op.data
      /\ op'.doc = op.doc /\ op'.ids = op.ids /\ op'.todo = op.todo /\ op'.late = op.late
  BY <1>1 DEF Operation, SameTask
<1> QED
  BY <1>1, <1>2, Zenon DEF IsOp, SameTask

\* The next call, after one that only asks or changes a layer.
LEMMA NextEffect ==
  ASSUME IsOp(op), op' = Next1(op)
  PROVE  /\ IsOp(op)' /\ SameTask /\ op'.key = op.key /\ op'.plan = Tail(op.plan) /\ op'.data = op.data
         /\ op'.doc = op.doc /\ op'.ids = op.ids /\ op'.todo = op.todo /\ op'.late = op.late
<1>1. op' = Operation(op.what, op.name, op.key, Tail(op.plan), op.data, op.doc, op.ids, op.todo, op.steady, op.late)
  BY Next1Step, Zenon
<1>2. /\ SameTask /\ op'.key = op.key /\ op'.plan = Tail(op.plan) /\ op'.data = op.data
      /\ op'.doc = op.doc /\ op'.ids = op.ids /\ op'.todo = op.todo /\ op'.late = op.late
  BY <1>1 DEF Operation, SameTask
<1> QED
  BY <1>1, <1>2, Zenon DEF IsOp, SameTask

\* The next call, after one that changed fields of the operation.
LEMMA MakeOp ==
  ASSUME IsOp(op), NEW n, NEW b, op' = Moved(Next1(op), n, b)
  PROVE  /\ IsOp(op)' /\ SameTask /\ op'.key = n /\ op'.plan = Tail(op.plan) /\ op'.data = op.data
         /\ op'.doc = op.doc /\ op'.ids = op.ids /\ op'.todo = op.todo /\ op'.late = b
<1>1. PICK q : q = Next1(op)
  OBVIOUS
<1>2. IsOp(q) /\ op' = Moved(q, n, b)
  BY <1>1, Next1Step, Zenon
<1>3. op' = Operation(q.what, q.name, n, q.plan, q.data, q.doc, q.ids, q.todo, q.steady, b)
  <2>1. Moved(q, n, b) = Operation(q.what, q.name, n, q.plan, q.data, q.doc, q.ids, q.todo, q.steady, b)
    BY <1>2, OpChanges
  <2> QED
    BY <1>2, <2>1, Zenon
<1>4. op' = Operation(op.what, op.name, n, Tail(op.plan), op.data, op.doc, op.ids, op.todo, op.steady, b)
  BY <1>1, <1>3, Next1Step, Zenon
<1>5. /\ SameTask /\ op'.key = n /\ op'.plan = Tail(op.plan) /\ op'.data = op.data
      /\ op'.doc = op.doc /\ op'.ids = op.ids /\ op'.todo = op.todo /\ op'.late = b
  BY <1>4 DEF Operation, SameTask
<1> QED
  BY <1>4, <1>5, Zenon DEF IsOp, SameTask

\* The chunks have been counted.
LEMMA CountedOp ==
  ASSUME IsOp(op), NEW d, op' = [Next1(op) EXCEPT !.doc = d]
  PROVE  /\ IsOp(op)' /\ SameTask /\ op'.key = op.key /\ op'.plan = Tail(op.plan) /\ op'.data = op.data
         /\ op'.doc = d /\ op'.ids = op.ids /\ op'.todo = op.todo /\ op'.late = op.late
<1>1. PICK q : q = Next1(op)
  OBVIOUS
<1>2. IsOp(q) /\ op' = [q EXCEPT !.doc = d]
  BY <1>1, Next1Step, Zenon
<1>3. op' = Operation(q.what, q.name, q.key, q.plan, q.data, d, q.ids, q.todo, q.steady, q.late)
  BY <1>2, OpChanges, Zenon
<1>4. op' = Operation(op.what, op.name, op.key, Tail(op.plan), op.data, d, op.ids, op.todo, op.steady, op.late)
  BY <1>1, <1>3, Next1Step, Zenon
<1>5. /\ SameTask /\ op'.key = op.key /\ op'.plan = Tail(op.plan) /\ op'.data = op.data
      /\ op'.doc = d /\ op'.ids = op.ids /\ op'.todo = op.todo /\ op'.late = op.late
  BY <1>4 DEF Operation, SameTask
<1> QED
  BY <1>4, <1>5, Zenon DEF IsOp, SameTask

\* A list has been read.
LEMMA FoundOp ==
  ASSUME IsOp(op), NEW l, NEW s, NEW p, Found(l, s, p)
  PROVE  /\ IsOp(op)' /\ op'.what = op.what /\ op'.name = op.name /\ op'.steady = s
         /\ op'.key = op.key /\ op'.plan = p /\ op'.data = l
         /\ op'.doc = active /\ op'.ids = op.ids /\ op'.todo = op.todo /\ op'.late = op.late
<1>1. op' = Reread(op, active, l, s, p)
  BY DEF Found, Reread
<1>2. op' = Operation(op.what, op.name, op.key, p, l, active, op.ids, op.todo, s, op.late)
  <2>1. Reread(op, active, l, s, p) = Operation(op.what, op.name, op.key, p, l, active, op.ids, op.todo, s, op.late)
    BY OpChanges
  <2> QED
    BY <1>1, <2>1, Zenon
<1>3. /\ op'.what = op.what /\ op'.name = op.name /\ op'.steady = s
      /\ op'.key = op.key /\ op'.plan = p /\ op'.data = l
      /\ op'.doc = active /\ op'.ids = op.ids /\ op'.todo = op.todo /\ op'.late = op.late
  BY <1>2 DEF Operation
<1> QED
  BY <1>2, <1>3, Zenon DEF IsOp

\* The ids of the layers have been read.
LEMMA IdsOp ==
  ASSUME IsOp(op), NEW i, op' = [Next1(op) EXCEPT !.ids = i]
  PROVE  /\ IsOp(op)' /\ SameTask /\ op'.key = op.key /\ op'.plan = Tail(op.plan) /\ op'.data = op.data
         /\ op'.doc = op.doc /\ op'.ids = i /\ op'.todo = op.todo /\ op'.late = op.late
<1>1. PICK q : q = Next1(op)
  OBVIOUS
<1>2. IsOp(q) /\ op' = [q EXCEPT !.ids = i]
  BY <1>1, Next1Step, Zenon
<1>3. op' = Operation(q.what, q.name, q.key, q.plan, q.data, q.doc, i, q.todo, q.steady, q.late)
  BY <1>2, OpChanges, Zenon
<1>4. op' = Operation(op.what, op.name, op.key, Tail(op.plan), op.data, op.doc, i, op.todo, op.steady, op.late)
  BY <1>1, <1>3, Next1Step, Zenon
<1>5. /\ SameTask /\ op'.key = op.key /\ op'.plan = Tail(op.plan) /\ op'.data = op.data
      /\ op'.doc = op.doc /\ op'.ids = i /\ op'.todo = op.todo /\ op'.late = op.late
  BY <1>4 DEF Operation, SameTask
<1> QED
  BY <1>4, <1>5, Zenon DEF IsOp, SameTask

\* The compositions to record are chosen.
LEMMA ItemsOp ==
  ASSUME IsOp(op), NEW t, NEW p, op' = Chosen(op, t, p)
  PROVE  /\ IsOp(op)' /\ SameTask /\ op'.key = op.key /\ op'.plan = p /\ op'.data = op.data
         /\ op'.doc = op.doc /\ op'.ids = op.ids /\ op'.todo = t /\ op'.late = op.late
<1>1. op' = Operation(op.what, op.name, op.key, p, op.data, op.doc, op.ids, t, op.steady, op.late)
  <2>1. Chosen(op, t, p) = Operation(op.what, op.name, op.key, p, op.data, op.doc, op.ids, t, op.steady, op.late)
    BY OpChanges
  <2> QED
    BY <2>1, Zenon
<1>2. /\ SameTask /\ op'.key = op.key /\ op'.plan = p /\ op'.data = op.data
      /\ op'.doc = op.doc /\ op'.ids = op.ids /\ op'.todo = t /\ op'.late = op.late
  BY <1>1 DEF Operation, SameTask
<1> QED
  BY <1>1, <1>2, Zenon DEF IsOp, SameTask

\* A list has been written.
LEMMA WriteOp ==
  ASSUME IsOp(op), NEW t, NEW p, NEW b, op' = Rewritten(Next1(op), b, t, p)
  PROVE  /\ IsOp(op)' /\ SameTask /\ op'.key = op.key /\ op'.plan = p /\ op'.data = op.data
         /\ op'.doc = op.doc /\ op'.ids = op.ids /\ op'.todo = t /\ op'.late = b
<1>1. PICK q : q = Next1(op)
  OBVIOUS
<1>2. IsOp(q) /\ op' = Rewritten(q, b, t, p)
  BY <1>1, Next1Step, Zenon
<1>3. op' = Operation(q.what, q.name, q.key, p, q.data, q.doc, q.ids, t, q.steady, b)
  <2>1. Rewritten(q, b, t, p) = Operation(q.what, q.name, q.key, p, q.data, q.doc, q.ids, t, q.steady, b)
    BY <1>2, OpChanges
  <2> QED
    BY <1>2, <2>1, Zenon
<1>4. op' = Operation(op.what, op.name, op.key, p, op.data, op.doc, op.ids, t, op.steady, b)
  BY <1>1, <1>3, Next1Step, Zenon
<1>5. /\ SameTask /\ op'.key = op.key /\ op'.plan = p /\ op'.data = op.data
      /\ op'.doc = op.doc /\ op'.ids = op.ids /\ op'.todo = t /\ op'.late = b
  BY <1>4 DEF Operation, SameTask
<1> QED
  BY <1>4, <1>5, Zenon DEF IsOp, SameTask

\* A switch of the document.
LEMMA UnsteadyOp ==
  ASSUME IsOp(op), NEW b, op' = Switched(op, b)
  PROVE  /\ IsOp(op)' /\ op'.what = op.what /\ op'.name = op.name /\ op'.key = op.key /\ op'.plan = op.plan
         /\ op'.data = op.data /\ op'.doc = op.doc /\ op'.ids = op.ids /\ op'.todo = op.todo
         /\ op'.steady = b /\ op'.late = op.late
<1>1. op' = Operation(op.what, op.name, op.key, op.plan, op.data, op.doc, op.ids, op.todo, b, op.late)
  BY OpChanges, Zenon DEF Switched
<1>2. /\ op'.what = op.what /\ op'.name = op.name /\ op'.key = op.key /\ op'.plan = op.plan
      /\ op'.data = op.data /\ op'.doc = op.doc /\ op'.ids = op.ids /\ op'.todo = op.todo
      /\ op'.steady = b /\ op'.late = op.late
  BY <1>1 DEF Operation
<1> QED
  BY <1>1, <1>2, Zenon DEF IsOp

\* The start of an operation.
LEMMA BeginOp ==
  ASSUME NEW what, NEW name, NEW key, NEW plan, Begin(what, name, key, plan)
  PROVE  /\ IsOp(op)' /\ op'.what = what /\ op'.name = name /\ op'.key = key /\ op'.plan = plan
         /\ op'.data = <<>> /\ op'.doc = 1 /\ op'.ids = {} /\ op'.todo = {} /\ op'.steady = TRUE /\ op'.late = FALSE
<1>1. PICK o : o = NoOp
  OBVIOUS
<1>2. IsOp(o) /\ op' = Begun(o, what, name, key, plan)
  BY <1>1, NoOpFields, Zenon DEF Begin, Begun
<1>3. op' = Operation(what, name, key, plan, o.data, o.doc, o.ids, o.todo, o.steady, o.late)
  <2>1. Begun(o, what, name, key, plan) = Operation(what, name, key, plan, o.data, o.doc, o.ids, o.todo, o.steady, o.late)
    BY <1>2, OpChanges
  <2> QED
    BY <1>2, <2>1, Zenon
<1>4. /\ op'.what = what /\ op'.name = name /\ op'.key = key /\ op'.plan = plan
      /\ op'.data = o.data /\ op'.doc = o.doc /\ op'.ids = o.ids /\ op'.todo = o.todo
      /\ op'.steady = o.steady /\ op'.late = o.late
  BY <1>3 DEF Operation
<1>5. IsOp(op)'
  BY <1>3, <1>4, Zenon DEF IsOp
<1> QED
  BY <1>1, <1>4, <1>5, NoOpFields, Zenon

\* The removal of a row starts.
LEMMA RemovingOp ==
  ASSUME NEW name, NEW key, NEW plan, NEW steady, op' = Removing(NoOp, "remove", name, key, plan, steady)
  PROVE  /\ IsOp(op)' /\ op'.what = "remove" /\ op'.name = name /\ op'.key = key /\ op'.plan = plan
         /\ op'.data = <<>> /\ op'.doc = 1 /\ op'.ids = {} /\ op'.todo = {} /\ op'.steady = steady /\ op'.late = FALSE
<1>1. PICK o : o = NoOp
  OBVIOUS
<1>2. PICK what : what = "remove"
  OBVIOUS
<1>3. IsOp(o) /\ op' = Removing(o, what, name, key, plan, steady)
  BY <1>1, <1>2, NoOpFields, Zenon
<1>4. op' = Operation(what, name, key, plan, o.data, o.doc, o.ids, o.todo, steady, o.late)
  <2>1. Removing(o, what, name, key, plan, steady) = Operation(what, name, key, plan, o.data, o.doc, o.ids, o.todo, steady, o.late)
    BY <1>3, OpChanges
  <2> QED
    BY <1>3, <2>1, Zenon
<1>5. /\ op'.what = what /\ op'.name = name /\ op'.key = key /\ op'.plan = plan
      /\ op'.data = o.data /\ op'.doc = o.doc /\ op'.ids = o.ids /\ op'.todo = o.todo
      /\ op'.steady = steady /\ op'.late = o.late
  BY <1>4 DEF Operation
<1>6. IsOp(op)'
  BY <1>4, <1>5, Zenon DEF IsOp
<1> QED
  BY <1>1, <1>2, <1>5, <1>6, NoOpFields, Zenon

\* The first call and the rest of every plan.
LEMMA PlanTable ==
  /\ <<"write">> # <<>> /\ Head(<<"write">>) = "write" /\ Tail(<<"write">>) = <<>>
  /\ <<"read", "write">> # <<>> /\ Head(<<"read", "write">>) = "read" /\ Tail(<<"read", "write">>) = <<"write">>
  /\ <<"make", "read", "write">> # <<>> /\ Head(<<"make", "read", "write">>) = "make" /\ Tail(<<"make", "read", "write">>) = <<"read", "write">>
  /\ <<"exists", "make", "read", "write">> # <<>> /\ Head(<<"exists", "make", "read", "write">>) = "exists" /\ Tail(<<"exists", "make", "read", "write">>) = <<"make", "read", "write">>
  /\ <<"ids", "write">> # <<>> /\ Head(<<"ids", "write">>) = "ids" /\ Tail(<<"ids", "write">>) = <<"write">>
  /\ <<"read", "ids", "write">> # <<>> /\ Head(<<"read", "ids", "write">>) = "read" /\ Tail(<<"read", "ids", "write">>) = <<"ids", "write">>
  /\ <<"make", "read", "ids", "write">> # <<>> /\ Head(<<"make", "read", "ids", "write">>) = "make" /\ Tail(<<"make", "read", "ids", "write">>) = <<"read", "ids", "write">>
  /\ <<"items">> # <<>> /\ Head(<<"items">>) = "items" /\ Tail(<<"items">>) = <<>>
  /\ <<"exists", "items">> # <<>> /\ Head(<<"exists", "items">>) = "exists" /\ Tail(<<"exists", "items">>) = <<"items">>
  /\ <<"exists">> # <<>> /\ Head(<<"exists">>) = "exists" /\ Tail(<<"exists">>) = <<>>
  /\ <<"rename">> # <<>> /\ Head(<<"rename">>) = "rename" /\ Tail(<<"rename">>) = <<>>
  /\ <<"write", "rename">> # <<>> /\ Head(<<"write", "rename">>) = "write" /\ Tail(<<"write", "rename">>) = <<"rename">>
  /\ <<"read", "write", "rename">> # <<>> /\ Head(<<"read", "write", "rename">>) = "read" /\ Tail(<<"read", "write", "rename">>) = <<"write", "rename">>
  /\ <<"delete">> # <<>> /\ Head(<<"delete">>) = "delete" /\ Tail(<<"delete">>) = <<>>
  /\ <<"write", "delete">> # <<>> /\ Head(<<"write", "delete">>) = "write" /\ Tail(<<"write", "delete">>) = <<"delete">>
  /\ <<"read", "write", "delete">> # <<>> /\ Head(<<"read", "write", "delete">>) = "read" /\ Tail(<<"read", "write", "delete">>) = <<"write", "delete">>
  /\ <<"read">> # <<>> /\ Head(<<"read">>) = "read" /\ Tail(<<"read">>) = <<>>
  /\ <<"count", "read">> # <<>> /\ Head(<<"count", "read">>) = "count" /\ Tail(<<"count", "read">>) = <<"read">>
  /\ <<"count", "read", "write">> # <<>> /\ Head(<<"count", "read", "write">>) = "count" /\ Tail(<<"count", "read", "write">>) = <<"read", "write">>
  /\ <<"default">> # <<>> /\ Head(<<"default">>) = "default" /\ Tail(<<"default">>) = <<>>
  /\ <<"default", "write">> # <<>> /\ Head(<<"default", "write">>) = "default" /\ Tail(<<"default", "write">>) = <<"write">>
OBVIOUS

\* What is left after a call.
LEMMA PlanSuffix ==
  ASSUME NEW w \in Works, NEW p, host \in Hosts, PlanFor(w, p), p # <<>>
  PROVE  PlanFor(w, Tail(p)) /\ w # "none"
<1>1. w # "none" /\ w \in {"list", "remove"} \cup Making
  BY Zenon DEF PlanFor, Works, Making
<1>2. CASE w = "list"
  BY <1>2, PlanTable DEF PlanFor, Making
<1>3. CASE w \in Making \cup {"remove"} /\ host = "tvpaint"
  BY <1>3, PlanTable DEF PlanFor, Making
<1>4. CASE w = "remove" /\ host = "harmony"
  BY <1>4, PlanTable DEF PlanFor, Making
<1>5. CASE w = "remove" /\ host \in {"photoshop", "aftereffects"}
  BY <1>5, PlanTable DEF PlanFor, Making
<1>6. CASE w \in Making /\ host = "harmony"
  BY <1>6, PlanTable DEF PlanFor, Making
<1>7. CASE w \in Making /\ host = "photoshop"
  BY <1>7, PlanTable DEF PlanFor, Making
<1>8. CASE w \in Making /\ host = "aftereffects"
  BY <1>8, PlanTable DEF PlanFor, Making
<1> QED
  BY <1>1, <1>2, <1>3, <1>4, <1>5, <1>6, <1>7, <1>8 DEF Hosts

\* Where in a plan each call stands.
AllPlans == {<<>>, <<"write">>, <<"read", "write">>, <<"make", "read", "write">>, <<"exists", "make", "read", "write">>,
             <<"ids", "write">>, <<"read", "ids", "write">>, <<"make", "read", "ids", "write">>,
             <<"items">>, <<"exists", "items">>, <<"exists">>, <<"rename">>, <<"write", "rename">>,
             <<"read", "write", "rename">>, <<"delete">>, <<"write", "delete">>, <<"read", "write", "delete">>, <<"read">>,
             <<"count", "read">>, <<"count", "read", "write">>, <<"default">>, <<"default", "write">>}

\* All the rests of plans there are.
LEMMA PlanListed ==
  ASSUME op.what \in Works, host \in Hosts, PlanInv
  PROVE  op.plan \in AllPlans
BY Zenon DEF PlanInv, PlanFor, AllPlans, Works, Making, Hosts

\* What operation makes a call, and what it has left to do then.
LEMMA AtRead ==
  ASSUME op.what \in Works, host \in Hosts, PlanInv, At("read")
  PROVE  /\ op.what = "list" => op.plan = <<"read">> /\ Tail(op.plan) = <<>>
         /\ op.what # "list" => Tail(op.plan) \in Held
         /\ op.what \in Making /\ host \in {"tvpaint", "harmony"} => op.plan = <<"read", "write">> /\ Tail(op.plan) = <<"write">>
         /\ host \in {"photoshop", "aftereffects"} => Tail(op.plan) # <<"write">>
         /\ op.what \in Making /\ host = "tvpaint" => op.plan \in Unwritten
         /\ host = "tvpaint" => op.plan \in Counted
         /\ Tail(op.plan) \notin Defaulting /\ Tail(op.plan) \notin Counted
<1>1. op.plan # <<>> /\ Head(op.plan) = "read"
  BY DEF At
<1>2. op.plan \in AllPlans
  BY PlanListed
<1>3. op.plan \in {<<"read", "write">>, <<"read", "ids", "write">>, <<"read", "write", "rename">>, <<"read", "write", "delete">>, <<"read">>}
  BY <1>1, <1>2, PlanTable DEF AllPlans
<1>4. op.what = "list" => op.plan = <<"read">>
  BY <1>1, PlanTable DEF PlanInv, PlanFor, Making
<1>5. op.what # "list" => op.plan # <<"read">>
  <2>1. op.what \in {"none", "list", "remove"} \cup Making
    BY DEF Works, Making
  <2>2. op.what # "none"
    BY <1>1, Zenon DEF PlanInv, PlanFor
  <2>3. ASSUME op.what = "remove"
        PROVE  op.plan # <<"read">>
    <3>1. <<"read">> \notin {<<>>, <<"write">>, <<"read", "write">>, <<"default", "write">>, <<"count", "read", "write">>}
      OBVIOUS
    <3>2. <<"read">> \notin {<<>>, <<"delete">>, <<"write", "delete">>, <<"read", "write", "delete">>}
      OBVIOUS
    <3>3. <<"read">> \notin {<<>>, <<"rename">>, <<"write", "rename">>, <<"read", "write", "rename">>}
      OBVIOUS
    <3> QED
      BY <2>3, <3>1, <3>2, <3>3, Zenon DEF PlanInv, PlanFor, Hosts
  <2>4. ASSUME op.what \in Making
        PROVE  op.plan # <<"read">>
    BY <2>4 DEF PlanInv, PlanFor, Hosts
  <2> QED
    BY <2>1, <2>2, <2>3, <2>4
<1>6. op.what \in Making /\ host \in {"tvpaint", "harmony"} => op.plan = <<"read", "write">>
  BY <1>1, PlanTable DEF PlanInv, PlanFor, Making
<1>7. host \in {"photoshop", "aftereffects"} => op.plan # <<"read", "write">>
  <2>1. ASSUME host \in {"photoshop", "aftereffects"}, op.what \in {"list", "remove", "none"}
        PROVE  op.plan # <<"read", "write">>
    <3>1. <<"read", "write">> \notin {<<>>, <<"read">>, <<"rename">>, <<"write", "rename">>, <<"read", "write", "rename">>}
      OBVIOUS
    <3> QED
      BY <2>1, <3>1, Zenon DEF PlanInv, PlanFor
  <2>2. ASSUME host \in {"photoshop", "aftereffects"}, op.what \in Making
        PROVE  op.plan # <<"read", "write">>
    <3>1. <<"read", "write">> \notin {<<>>, <<"write">>, <<"ids", "write">>, <<"read", "ids", "write">>,
                                     <<"make", "read", "ids", "write">>}
      OBVIOUS
    <3>2. <<"read", "write">> \notin {<<"exists">>, <<"items">>, <<"exists", "items">>}
      OBVIOUS
    <3> QED
      BY <2>2, <3>1, <3>2, Zenon DEF PlanInv, PlanFor
  <2> QED
    BY <2>1, <2>2 DEF Works, Making
<1>8. host = "tvpaint" => op.plan \in Counted
  BY <1>1, PlanTable DEF PlanInv, PlanFor, Works, Making, Counted
<1> QED
  BY <1>3, <1>4, <1>5, <1>6, <1>7, <1>8, PlanTable DEF Held, Unwritten, Defaulting, Counted

\* Only TVPaint counts chunks, ...
LEMMA AtCount ==
  ASSUME op.what \in Works, host \in Hosts, PlanInv, At("count")
  PROVE  /\ host = "tvpaint" /\ op.what \in {"list", "remove"} \cup Making
         /\ op.what = "list" => op.plan = <<"count", "read">> /\ Tail(op.plan) = <<"read">> /\ Tail(Tail(op.plan)) = <<>>
         /\ op.what # "list" => /\ op.plan = <<"count", "read", "write">> /\ Tail(op.plan) = <<"read", "write">>
                                /\ Tail(Tail(op.plan)) = <<"write">>
<1>1. op.plan # <<>> /\ Head(op.plan) = "count"
  BY DEF At
<1>2. op.plan \in AllPlans
  BY PlanListed
<1>3. op.plan \in {<<"count", "read">>, <<"count", "read", "write">>}
  BY <1>1, <1>2, PlanTable DEF AllPlans
<1>4. op.what # "none"
  BY <1>1, Zenon DEF PlanInv, PlanFor
<1>5. host = "tvpaint"
  BY <1>1, <1>3, <1>4, PlanTable DEF PlanInv, PlanFor, Works, Making, Hosts
<1>6. op.what = "list" => op.plan = <<"count", "read">>
  BY <1>1, <1>5, PlanTable DEF PlanInv, PlanFor, Making
<1>7. op.what # "list" => op.plan = <<"count", "read", "write">>
  BY <1>1, <1>4, <1>5, PlanTable DEF PlanInv, PlanFor, Works, Making
<1> QED
  BY <1>4, <1>5, <1>6, <1>7, PlanTable DEF Works, Making

\* ... and replaces what it cannot parse.
LEMMA AtDefault ==
  ASSUME op.what \in Works, host \in Hosts, PlanInv, At("default")
  PROVE  /\ host = "tvpaint" /\ op.what \in {"list", "remove"} \cup Making /\ op.plan \in Defaulting
         /\ op.what = "list" => op.plan = <<"default">> /\ Tail(op.plan) = <<>>
         /\ op.what # "list" => op.plan = <<"default", "write">> /\ Tail(op.plan) = <<"write">>
<1>1. op.plan # <<>> /\ Head(op.plan) = "default"
  BY DEF At
<1>2. op.plan \in AllPlans
  BY PlanListed
<1>3. op.plan \in Defaulting
  BY <1>1, <1>2, PlanTable DEF AllPlans, Defaulting
<1>4. op.what # "none"
  BY <1>1, Zenon DEF PlanInv, PlanFor
<1>5. host = "tvpaint"
  BY <1>1, <1>3, <1>4, PlanTable DEF PlanInv, PlanFor, Works, Making, Hosts, Defaulting
<1>6. op.what = "list" => op.plan = <<"default">>
  BY <1>1, <1>5, PlanTable DEF PlanInv, PlanFor, Making
<1>7. op.what # "list" => op.plan = <<"default", "write">>
  BY <1>1, <1>4, <1>5, PlanTable DEF PlanInv, PlanFor, Works, Making
<1> QED
  BY <1>3, <1>4, <1>5, <1>6, <1>7, PlanTable DEF Works, Making

\* A list is written by operations that read it, as the last call but one at most.
LEMMA AtWrite ==
  ASSUME op.what \in Works, host \in Hosts, PlanInv, At("write")
  PROVE  /\ op.plan \in Held /\ op.what \in Making \cup {"remove"}
         /\ op.what \in Making => op.plan = <<"write">> /\ Tail(op.plan) = <<>>
         /\ host = "tvpaint" => op.plan = <<"write">> /\ Tail(op.plan) = <<>>
         /\ op.what = "remove" /\ host \in {"photoshop", "aftereffects"} => Tail(op.plan) = <<"rename">>
         /\ Tail(op.plan) \in {<<>>, <<"delete">>, <<"rename">>}
<1>1. op.plan # <<>> /\ Head(op.plan) = "write"
  BY DEF At
<1>2. op.plan \in AllPlans
  BY PlanListed
<1>3. op.plan \in {<<"write">>, <<"write", "rename">>, <<"write", "delete">>}
  BY <1>1, <1>2, PlanTable DEF AllPlans
<1>4. op.what \in Making \cup {"remove"}
  BY <1>1, <1>3, PlanTable DEF PlanInv, PlanFor, Works, Making
<1>5. op.what \in Making => op.plan = <<"write">>
  BY <1>1, PlanTable DEF PlanInv, PlanFor, Making, Hosts
<1>6. host = "tvpaint" => op.plan = <<"write">>
  BY <1>1, <1>4, PlanTable DEF PlanInv, PlanFor, Making
<1>7. op.what = "remove" /\ host \in {"photoshop", "aftereffects"} => op.plan = <<"write", "rename">>
  BY <1>1, PlanTable DEF PlanInv, PlanFor, Making
<1> QED
  BY <1>3, <1>4, <1>5, <1>6, <1>7, PlanTable DEF Held, Defaulting

\* Ids are asked for before the list is written.
LEMMA AtIds ==
  ASSUME op.what \in Works, host \in Hosts, PlanInv, At("ids")
  PROVE  /\ op.what \in Making /\ host \in {"photoshop", "aftereffects"}
         /\ op.plan = <<"ids", "write">> /\ Tail(op.plan) = <<"write">>
<1>1. op.plan # <<>> /\ Head(op.plan) = "ids"
  BY DEF At
<1>2. op.plan \in AllPlans
  BY PlanListed
<1>3. op.plan = <<"ids", "write">>
  BY <1>1, <1>2, PlanTable DEF AllPlans
<1>4. op.what \in Making
  BY <1>1, <1>3, PlanTable DEF PlanInv, PlanFor, Works, Making, Hosts
<1>5. host \in {"photoshop", "aftereffects"}
  BY <1>1, <1>4, PlanTable DEF PlanInv, PlanFor, Making, Hosts
<1> QED
  BY <1>3, <1>4, <1>5, PlanTable

\* A layer is made before the list is read.
LEMMA AtMake ==
  ASSUME op.what \in Works, host \in Hosts, PlanInv, At("make")
  PROVE  /\ op.what \in Making /\ host # "tvpaint"
         /\ Tail(op.plan) \in {<<"read", "write">>, <<"read", "ids", "write">>}
         /\ host = "photoshop" => op.plan = <<"make", "read", "ids", "write">>
<1>1. op.plan # <<>> /\ Head(op.plan) = "make"
  BY DEF At
<1>2. op.plan \in AllPlans
  BY PlanListed
<1>3. op.plan \in {<<"make", "read", "write">>, <<"make", "read", "ids", "write">>}
  BY <1>1, <1>2, PlanTable DEF AllPlans
<1>4. op.what \in Making
  BY <1>1, <1>3, PlanTable DEF PlanInv, PlanFor, Works, Making, Hosts
<1>5. host # "tvpaint"
  BY <1>1, <1>4, PlanTable DEF PlanInv, PlanFor, Making
<1>6. host = "photoshop" => op.plan = <<"make", "read", "ids", "write">>
  BY <1>1, <1>4, PlanTable DEF PlanInv, PlanFor, Making
<1> QED
  BY <1>3, <1>4, <1>5, <1>6, PlanTable

\* Only After Effects asks for compositions.
LEMMA AtItems ==
  ASSUME op.what \in Works, host \in Hosts, PlanInv, At("items")
  PROVE  op.what \in Making /\ host = "aftereffects"
<1>1. op.plan # <<>> /\ Head(op.plan) = "items"
  BY DEF At
<1>2. op.what \in Making
  BY <1>1, PlanTable DEF PlanInv, PlanFor, Works, Making, Hosts
<1> QED
  BY <1>1, <1>2, PlanTable DEF PlanInv, PlanFor, Making, Hosts

\* TVPaint's plan never looks for the name.
LEMMA AtExists ==
  ASSUME op.what \in Works, host \in Hosts, PlanInv, At("exists")
  PROVE  /\ op.what \in Making /\ host # "tvpaint"
         /\ host # "photoshop" => Tail(op.plan) \in {<<"make", "read", "write">>, <<"items">>}
<1>1. op.plan # <<>> /\ Head(op.plan) = "exists"
  BY DEF At
<1>2. op.what \in Making
  BY <1>1, PlanTable DEF PlanInv, PlanFor, Works, Making, Hosts
<1>3. host # "tvpaint"
  BY <1>1, <1>2, PlanTable DEF PlanInv, PlanFor, Making
<1>4. host = "harmony" => Tail(op.plan) = <<"make", "read", "write">>
  BY <1>1, <1>2, PlanTable DEF PlanInv, PlanFor, Making
<1>5. host = "aftereffects" => Tail(op.plan) = <<"items">>
  BY <1>1, <1>2, PlanTable DEF PlanInv, PlanFor, Making
<1> QED
  BY <1>2, <1>3, <1>4, <1>5 DEF Hosts

\* An icon goes at the end of a removal.
LEMMA AtRename ==
  ASSUME op.what \in Works, host \in Hosts, PlanInv, At("rename")
  PROVE  op.what = "remove" /\ host \in {"photoshop", "aftereffects"} /\ op.plan = <<"rename">> /\ Tail(op.plan) = <<>>
<1>1. op.plan # <<>> /\ Head(op.plan) = "rename"
  BY DEF At
<1>2. op.plan \in AllPlans
  BY PlanListed
<1>3. op.plan = <<"rename">>
  BY <1>1, <1>2, PlanTable DEF AllPlans
<1>4. op.what = "remove"
  BY <1>1, PlanTable DEF PlanInv, PlanFor, Works, Making, Hosts
<1>5. host \in {"photoshop", "aftereffects"}
  BY <1>1, <1>4, PlanTable DEF PlanInv, PlanFor, Making, Hosts
<1> QED
  BY <1>3, <1>4, <1>5, PlanTable

\* A node goes at the end of a removal.
LEMMA AtDelete ==
  ASSUME op.what \in Works, host \in Hosts, PlanInv, At("delete")
  PROVE  op.what = "remove" /\ host = "harmony" /\ Tail(op.plan) = <<>>
<1>1. op.plan # <<>> /\ Head(op.plan) = "delete"
  BY DEF At
<1>2. op.plan \in AllPlans
  BY PlanListed
<1>3. op.plan = <<"delete">>
  BY <1>1, <1>2, PlanTable DEF AllPlans
<1>4. op.what = "remove"
  BY <1>1, PlanTable DEF PlanInv, PlanFor, Works, Making, Hosts
<1>5. host = "harmony"
  BY <1>1, <1>4, PlanTable DEF PlanInv, PlanFor, Making, Hosts
<1> QED
  BY <1>3, <1>4, <1>5, PlanTable

\* No other host does.
LEMMA NoDefault ==
  ASSUME NEW w \in Works, NEW p, host \in Hosts, host # "tvpaint", PlanFor(w, p)
  PROVE  p \notin Defaulting
<1>1. w \in {"none", "list", "remove"} \cup Making
  BY DEF Works, Making
<1> QED
  BY <1>1 DEF PlanFor, Hosts, Making, Defaulting

StagingInv == StageTypes /\ PlanInv /\ ReadInv /\ ChunksInv

\* A step that keeps the sections keeps their chunks.
LEMMA ChunksKept ==
  ASSUME ChunksInv, SameLists
  PROVE  ChunksInv'
BY Zenon DEF ChunksInv, SameLists

\* The types after a step of a plan.
LEMMA TypesAfter ==
  ASSUME StageTypes, UNCHANGED <<host, granted, active, rows, acts>>, DocTypes', IsOp(op)',
         op'.what \in Works, op'.name \in Names, op'.key \in Nat, op'.data \in Seq(Record), op'.doc \in Docs,
         op'.steady \in BOOLEAN, op'.late \in BOOLEAN, host # "aftereffects" \/ op'.what \notin Making => op'.todo = {}, calm' \in BOOLEAN
  PROVE  StageTypes'
BY Zenon DEF StageTypes, OpTypes

\* The invariant about what was read, after a step that keeps the lists.
LEMMA ReadAfter ==
  ASSUME StageTypes, ReadInv, SameLists, host' = host, granted' = granted, acts' \in Nat,
         host = "tvpaint" => Quota' \in {Quota, Quota + 1},
         host = "tvpaint" =>
           \/ op'.data = op.data \/ op'.data = <<>>
           \/ \E d \in Docs : op'.data \in {Records(docs[d].instances), Records(docs[d].containers)},
         op'.steady /\ op'.plan \in Held => op'.data = Source(active)',
         op'.plan \in Defaulting => op'.data = <<>>,
         host = "tvpaint" /\ op'.plan \in Counted =>
           granted /\ (op'.steady => op'.doc = active' /\ docs'[active'][Section'].old = <<>>),
         host \in {"photoshop", "aftereffects"} /\ op'.steady /\ op'.plan = <<"write">> =>
           docs'[active'].alive \subseteq op'.ids
  PROVE  ReadInv'
<1>1. Quota \in Nat /\ Quota' \in Nat
  <2>1. acts \in Nat /\ acts' \in Nat
    BY StagingAssumption DEF StageTypes
  <2>2. \A n \in Nat : n + 1 \in Nat
    OBVIOUS
  <2> QED
    BY <2>1, <2>2, Zenon DEF Quota
<1>2. PICK n \in Nat : n = Quota
  BY <1>1
<1>3. PICK m \in Nat : m = Quota'
  BY <1>1
<1>4. host = "tvpaint" => n <= m
  BY <1>2, <1>3
<1>5. host = "tvpaint" => \A list : Fits(list, n) => Fits(list, m)
  BY <1>4 DEF Fits
<1>6. Fits(<<>>, m)
  BY DEF Fits
<1>7. ASSUME host = "tvpaint"
      PROVE  /\ Fits(op'.data, m)
             /\ \A d \in Docs : Fits(Records(docs'[d].instances), m) /\ Fits(Records(docs'[d].containers), m)
  BY <1>2, <1>5, <1>6, <1>7 DEF ReadInv, SameLists
<1> QED
  BY <1>3, <1>7, Zenon DEF ReadInv

\* The invariant is kept by an exception ...
LEMMA RaiseInv ==
  ASSUME StagingInv, Raise, UNCHANGED <<stepVars, docs>>
  PROVE  StagingInv' /\ SameLists
<1> USE DEF StagingInv
<1>1. /\ op' = NoOp /\ calm' = (calm /\ ~op.late)
      /\ IsOp(op)' /\ op'.what = "none" /\ op'.name = NoName /\ op'.key = NoKey /\ op'.plan = <<>>
      /\ op'.data = <<>> /\ op'.doc = 1 /\ op'.ids = {} /\ op'.todo = {} /\ op'.steady = TRUE /\ op'.late = FALSE
  BY RaiseEffect
<1>2. UNCHANGED <<host, granted, active, rows, acts>> /\ docs' = docs
  BY DEF stepVars
<1>3. DocTypes'
  BY <1>2 DEF DocTypes, StageTypes
<1>4. SameLists
  BY <1>2 DEF SameLists
<1>5. StageTypes'
  <2>1. /\ op'.what \in Works /\ op'.name \in Names /\ op'.key \in Nat /\ op'.data \in Seq(Record) /\ op'.doc \in Docs
        /\ op'.todo = {}
    BY <1>1, StagingAssumption DEF Works, Names, NoKey
  <2>2. op'.steady \in BOOLEAN /\ op'.late \in BOOLEAN /\ calm' \in BOOLEAN
    BY <1>1, Zenon
  <2> QED
    BY <1>1, <1>2, <1>3, <2>1, <2>2, TypesAfter, Zenon
<1>6. PlanInv'
  BY <1>1 DEF PlanInv, PlanFor, Making
<1>7. ReadInv'
  <2>1. Quota' \in {Quota, Quota + 1} /\ acts' \in Nat
    BY <1>1, <1>2, StagingAssumption DEF Quota, Making, StageTypes
  <2>2. op'.plan \notin Held \cup Counted /\ op'.plan # <<"write">>
    BY <1>1 DEF Held, Counted, Defaulting
  <2> QED
    BY <1>1, <1>2, <1>4, <2>1, <2>2, ReadAfter DEF Held, Defaulting
<1> QED
  BY <1>4, <1>5, <1>6, <1>7, ChunksKept

\* What a call of a plan leaves as it is, unless it raises.
Called ==
  /\ host # "tvpaint" /\ op.what # "list" /\ SameTask /\ op'.data = op.data
  /\ (op.late => op'.late) /\ (calm' => calm)

\* Every plan may be done.
LEMMA PlanDone ==
  ASSUME NEW w \in Works, host \in Hosts
  PROVE  PlanFor(w, <<>>)
BY Zenon DEF PlanFor, Works, Making, Hosts

\* A step that leaves the lists alone and what was read.
LEMMA CallInv ==
  ASSUME StagingInv, UNCHANGED <<host, granted, active, rows, acts>>, DocTypes', SameLists, IsOp(op)', SameTask,
         op'.key \in Nat, op'.data = op.data, op'.doc = op.doc, host # "aftereffects" \/ op.what \notin Making => op'.todo = {},
         op'.late \in BOOLEAN, calm' \in BOOLEAN, PlanFor(op.what, op'.plan),
         host = "tvpaint" => op'.plan = <<>>, 
         op'.plan \notin Held \/ (op.plan \in Held /\ op'.plan # <<"write">>)
  PROVE  StagingInv' /\ SameLists
<1> USE DEF StagingInv
<1>1. StageTypes'
  <2>1. op.what \in Works /\ op.name \in Names /\ op.data \in Seq(Record) /\ op.doc \in Docs /\ op.steady \in BOOLEAN
    BY Zenon DEF StageTypes, OpTypes
  <2> QED
    BY <2>1, TypesAfter, Zenon DEF SameTask
<1>2. PlanInv'
  BY Zenon DEF PlanInv, PlanFor, SameTask
<1>3. ReadInv'
  <2>1. acts' \in Nat /\ (host = "tvpaint" => Quota' \in {Quota, Quota + 1})
    <3>1. acts \in Nat
      BY StagingAssumption DEF StageTypes
    <3>2. Quota \in {acts, acts + 1}
      BY Zenon DEF Quota
    <3>3. host = "tvpaint" => Quota' = acts + 1
      <4>1. <<>> \notin Unwritten
        BY DEF Unwritten
      <4> QED
        BY <4>1, Zenon DEF Quota
    <3> QED
      BY <3>1, <3>2, <3>3
  <2>2. op'.steady /\ op'.plan \in Held => op'.data = Source(active)'
    <3>1. ASSUME op'.steady, op'.plan \in Held
          PROVE  op.data = Source(active)
      BY <3>1, Zenon DEF ReadInv, SameTask
    <3>2. Source(active)' = Source(active)
      <4>1. active \in Docs /\ Section' = Section /\ Section \in {"containers", "instances"}
        BY Zenon DEF StageTypes, Section, SameTask
      <4> QED
        BY <4>1, Zenon DEF Source, SameLists
    <3> QED
      BY <3>1, <3>2, Zenon
  <2>3. op'.plan # <<"write">>
    BY DEF Held, Defaulting
  <2>4. <<>> \notin Counted \cup Defaulting
    BY DEF Counted, Defaulting
  <2>5. op'.plan \notin Defaulting
    <3>1. op.what \in Works /\ host \in Hosts
      BY Zenon DEF StageTypes, OpTypes
    <3> QED
      BY <2>4, <3>1, NoDefault
  <2>6. ~(host = "tvpaint" /\ op'.plan \in Counted)
    BY <2>4
  <2> QED
    BY <2>1, <2>2, <2>3, <2>5, <2>6, ReadAfter, Zenon
<1> QED
  BY <1>1, <1>2, <1>3, ChunksKept

\* The name is looked for.
LEMMA ExistsInv ==
  ASSUME StagingInv, Exists
  PROVE  StagingInv' /\ SameLists /\ ((Raise /\ docs' = docs) \/ Called)
<1> USE DEF StagingInv
<1>1. UNCHANGED <<host, granted, active, rows, acts>> /\ docs' = docs /\ UNCHANGED stepVars
  BY DEF Exists, stepVars
<1>2. CASE Raise
  BY <1>1, <1>2, RaiseInv
<1>3. DocTypes' /\ SameLists
  BY <1>1 DEF DocTypes, StageTypes, SameLists
<1>4. op.what \in Works /\ host \in Hosts /\ IsOp(op) /\ op.key \in Nat /\ op.late \in BOOLEAN /\ calm \in BOOLEAN
      /\ (host # "aftereffects" \/ op.what \notin Making => op.todo = {})
  BY Zenon DEF StageTypes, OpTypes
<1>5. op.what \in Making /\ host # "tvpaint"
      /\ (host # "photoshop" => Tail(op.plan) \in {<<"make", "read", "write">>, <<"items">>})
  BY <1>4, AtExists DEF Exists
<1>6. CASE Quit /\ calm' = calm
  <2>1. PlanFor(op.what, <<>>)
    BY <1>4, PlanDone
  <2>2. <<>> \notin Held
    BY DEF Held, Defaulting
  <2> QED
    <3>1. /\ IsOp(op)' /\ SameTask /\ op'.key = op.key /\ op'.plan = <<>> /\ op'.data = op.data
          /\ op'.doc = op.doc /\ op'.ids = op.ids /\ op'.todo = op.todo /\ op'.late = op.late
      BY <1>4, <1>6, QuitEffect
    <3>2. Called
      BY <1>5, <1>6, <3>1, Zenon DEF Called, Making
    <3> QED
      BY <1>1, <1>3, <1>4, <1>6, <2>1, <2>2, <3>1, <3>2, CallInv, Zenon
<1>7. CASE op' = Next1(op) /\ calm' = calm /\ host # "photoshop"
  <2>1. PlanFor(op.what, Tail(op.plan))
    BY <1>4, PlanSuffix DEF PlanInv, Exists, At
  <2>2. Tail(op.plan) \notin Held
    BY <1>5, <1>7 DEF Held, Defaulting
  <2> QED
    <3>1. /\ IsOp(op)' /\ SameTask /\ op'.key = op.key /\ op'.plan = Tail(op.plan) /\ op'.data = op.data
          /\ op'.doc = op.doc /\ op'.ids = op.ids /\ op'.todo = op.todo /\ op'.late = op.late
      BY <1>4, <1>7, NextEffect
    <3>2. Called
      BY <1>5, <1>7, <3>1, Zenon DEF Called, Making
    <3> QED
      BY <1>1, <1>3, <1>4, <1>5, <1>7, <2>1, <2>2, <3>1, <3>2, CallInv, Zenon
<1> QED
  BY <1>2, <1>6, <1>7 DEF Exists, PhotoshopExists

\* The parts of the types that steps need.
LEMMA StageFacts ==
  ASSUME StageTypes
  PROVE  /\ op.what \in Works /\ host \in Hosts /\ IsOp(op) /\ op.key \in Nat /\ op.late \in BOOLEAN /\ calm \in BOOLEAN
         /\ (host # "aftereffects" \/ op.what \notin Making => op.todo = {}) /\ op.steady \in BOOLEAN /\ op.name \in Names
         /\ op.data \in Seq(Record) /\ op.doc \in Docs /\ active \in Docs /\ granted \in BOOLEAN
         /\ DocTypes /\ IsDoc(docs[active]) /\ docs[active].next \in Nat \ {0} /\ docs[active].list \in Seq(Record)
         /\ docs[active].alive \subseteq 1..MaxNode
         /\ Section \in {"containers", "instances"}
BY Zenon DEF StageTypes, OpTypes, DocTypes, Section

\* The documents after a step that keeps the lists.
LEMMA MakeDocs ==
  ASSUME StageTypes, NEW n \in 1..MaxNode, docs' = [docs EXCEPT ![active] = Made(@, n)]
  PROVE  /\ DocTypes' /\ SameLists
         /\ docs'[active].alive = docs[active].alive \cup {n}
         /\ docs'[active].next = (IF n = docs[active].next THEN n + 1 ELSE docs[active].next)
         /\ docs'[active].icon = (IF host = "photoshop" THEN docs[active].icon \cup Marked(n) ELSE docs[active].icon)
         /\ \A d \in Docs \ {active} : docs'[d] = docs[d]
<1>1. DocTypes /\ active \in Docs
  BY StageFacts
<1>2. PICK y : y = docs[active].alive \cup {n}
  OBVIOUS
<1>3. PICK z : z = IF n = docs[active].next THEN n + 1 ELSE docs[active].next
  OBVIOUS
<1>4. PICK u : u = IF host = "photoshop" THEN docs[active].icon \cup Marked(n) ELSE docs[active].icon
  OBVIOUS
<1>5. PICK o : o = docs[active]
  OBVIOUS
<1>6. IsDoc(o)
  BY <1>1, <1>5, Zenon DEF DocTypes
<1>7. PICK D : D = Grown(o, n, op.name, y, z, u)
  OBVIOUS
<1>8. docs' = [docs EXCEPT ![active] = D]
  <2>1. D = Made(o, n)
    BY <1>2, <1>3, <1>4, <1>5, <1>7 DEF Made, Grown
  <2> QED
    BY <1>5, <2>1, Zenon
<1>9. PICK q : q = [o.name EXCEPT ![n] = op.name]
  OBVIOUS
<1>10. D = Document(q, z, y, u, o.list, o.instances, o.containers)
  <2>1. Grown(o, n, op.name, y, z, u) = Document([o.name EXCEPT ![n] = op.name], z, y, u, o.list, o.instances, o.containers)
    BY <1>6, Making1
  <2> QED
    BY <1>7, <1>9, <2>1, Zenon
<1>11. /\ D.name = q /\ D.next = z /\ D.alive = y /\ D.icon = u
       /\ D.list = o.list /\ D.instances = o.instances /\ D.containers = o.containers
  BY <1>10 DEF Document
<1>12. IsDoc(D)
  BY <1>10, <1>11, Zenon DEF IsDoc
<1>13. /\ docs' = [d \in Docs |-> docs'[d]] /\ \A d \in Docs : IsDoc(docs'[d])
       /\ docs'[active] = D /\ \A d \in Docs \ {active} : docs'[d] = docs[d]
  BY <1>1, <1>8, <1>12, OneDocument, Zenon
<1>14. z \in Nat \ {0} /\ y \subseteq 1..MaxNode
  BY <1>2, <1>3, StageFacts, StagingAssumption
<1>15. DocTypes'
  <2>1. D.next \in Nat \ {0} /\ D.list \in Seq(Record) /\ D.alive \subseteq 1..MaxNode
    BY <1>1, <1>5, <1>11, <1>14, Zenon DEF DocTypes
  <2>2. ASSUME NEW d \in Docs
        PROVE  docs'[d].next \in Nat \ {0} /\ docs'[d].list \in Seq(Record) /\ docs'[d].alive \subseteq 1..MaxNode
    BY <1>1, <1>13, <2>1, Zenon DEF DocTypes
  <2> QED
    BY <1>13, <2>2, Zenon DEF DocTypes
<1>16. SameLists
  <2>1. ASSUME NEW d \in Docs
        PROVE  /\ docs'[d].list = docs[d].list
               /\ docs'[d].instances = docs[d].instances /\ docs'[d].containers = docs[d].containers
    <3>1. CASE d = active
      BY <1>5, <1>11, <1>13, <3>1, Zenon
    <3>2. CASE d # active
      BY <1>13, <3>2, Zenon
    <3> QED
      BY <3>1, <3>2
  <2> QED
    BY <2>1, Zenon DEF SameLists
<1> QED
  BY <1>2, <1>3, <1>4, <1>5, <1>11, <1>13, <1>15, <1>16, Zenon

\* A layer is made.
LEMMA MakeInv ==
  ASSUME StagingInv, Make
  PROVE  StagingInv' /\ SameLists /\ ((Raise /\ docs' = docs) \/ Called)
<1> USE DEF StagingInv
<1>1. PICK n \in 1..MaxNode : /\ docs' = [docs EXCEPT ![active] = Made(@, n)]
                              /\ op' = [Next1(op) EXCEPT !.key = n, !.late = TRUE]
  BY DEF Make
<1>2. UNCHANGED <<host, granted, active, rows, acts, calm>> /\ At("make")
  BY DEF Make, stepVars
<1>3. PICK b : b = TRUE
  OBVIOUS
<1>4. op' = Moved(Next1(op), n, b)
  BY <1>1, <1>3, Zenon DEF Moved
<1>5. /\ IsOp(op)' /\ SameTask /\ op'.key = n /\ op'.plan = Tail(op.plan) /\ op'.data = op.data
      /\ op'.doc = op.doc /\ op'.ids = op.ids /\ op'.todo = op.todo /\ op'.late = b
  BY <1>4, StageFacts, MakeOp, Zenon
<1>6. /\ host # "tvpaint" /\ Tail(op.plan) \in {<<"read", "write">>, <<"read", "ids", "write">>}
      /\ PlanFor(op.what, Tail(op.plan))
  BY <1>2, StageFacts, AtMake, PlanSuffix DEF At, PlanInv
<1>7. op.what \in Making
  BY <1>2, StageFacts, AtMake
<1>8. Tail(op.plan) \notin Held
  BY <1>6 DEF Held, Defaulting
<1>9. n \in Nat /\ b \in BOOLEAN
  BY <1>3
<1>10. DocTypes' /\ SameLists
  BY <1>1, MakeDocs, Zenon
<1>11. Called
  BY <1>2, <1>3, <1>5, <1>6, <1>7, Zenon DEF Called, Making
<1> QED
  BY <1>2, <1>5, <1>6, <1>8, <1>9, <1>10, <1>11, StageFacts, CallInv, Zenon

\* Compositions are chosen.
LEMMA ItemsInv ==
  ASSUME StagingInv, Items
  PROVE  StagingInv' /\ SameLists /\ ((Raise /\ docs' = docs) \/ Called)
<1> USE DEF StagingInv
<1>1. PICK chosen : op' = [op EXCEPT !.todo = chosen, !.plan = IF chosen = {} THEN <<>> ELSE <<"read", "ids", "write">>]
  BY DEF Items
<1>2. UNCHANGED <<host, granted, active, rows, acts, calm>> /\ At("items") /\ docs' = docs
  BY DEF Items, stepVars
<1>3. PICK p : p = IF chosen = {} THEN <<>> ELSE <<"read", "ids", "write">>
  OBVIOUS
<1>4. op' = Chosen(op, chosen, p)
  BY <1>1, <1>3, Zenon DEF Chosen
<1>5. /\ IsOp(op)' /\ SameTask /\ op'.key = op.key /\ op'.plan = p /\ op'.data = op.data
      /\ op'.doc = op.doc /\ op'.ids = op.ids /\ op'.todo = chosen /\ op'.late = op.late
  BY <1>4, StageFacts, ItemsOp, Zenon
<1>6. host = "aftereffects" /\ op.what \in Making
  BY <1>2, StageFacts, AtItems, Zenon
<1>7. p \notin Held
  BY <1>3 DEF Held, Defaulting
<1>8. PlanFor(op.what, p)
  BY <1>3, <1>6 DEF PlanFor, Making
<1>9. DocTypes' /\ SameLists
  BY <1>2 DEF DocTypes, StageTypes, SameLists
<1>10. host # "tvpaint"
  BY <1>6
<1>11. Called
  BY <1>2, <1>5, <1>6, <1>10, Zenon DEF Called, Making
<1> QED
  BY <1>2, <1>5, <1>6, <1>7, <1>8, <1>9, <1>10, <1>11, StageFacts, CallInv, Zenon

\* Ids are read.
LEMMA IdsInv ==
  ASSUME StagingInv, Ids
  PROVE  StagingInv' /\ SameLists /\ ((Raise /\ docs' = docs) \/ Called)
<1> USE DEF StagingInv
<1>1. op' = [Next1(op) EXCEPT !.ids = docs[active].alive]
  BY DEF Ids, PhotoshopIds, AfterEffectsIds, Here
<1>2. UNCHANGED <<host, granted, active, rows, acts, calm>> /\ At("ids") /\ docs' = docs
  BY DEF Ids, stepVars
<1>3. /\ IsOp(op)' /\ SameTask /\ op'.key = op.key /\ op'.plan = Tail(op.plan) /\ op'.data = op.data
      /\ op'.doc = op.doc /\ op'.ids = docs[active].alive /\ op'.todo = op.todo /\ op'.late = op.late
  BY <1>1, StageFacts, IdsOp, Zenon
<1>4. /\ op.what \in Making /\ host \in {"photoshop", "aftereffects"}
      /\ op.plan = <<"ids", "write">> /\ Tail(op.plan) = <<"write">>
      /\ PlanFor(op.what, Tail(op.plan))
  BY <1>2, StageFacts, AtIds, PlanSuffix DEF At, PlanInv
<1>5. DocTypes' /\ SameLists
  BY <1>2 DEF DocTypes, StageTypes, SameLists
<1>6. StageTypes'
  BY <1>2, <1>3, <1>5, StageFacts, TypesAfter, Zenon DEF SameTask
<1>7. PlanInv'
  BY <1>2, <1>3, <1>4, Zenon DEF PlanInv, PlanFor, SameTask
<1>8. ReadInv'
  <2>1. acts' \in Nat /\ host # "tvpaint"
    BY <1>2, <1>4, StagingAssumption DEF StageTypes
  <2>2. ASSUME op'.steady, op'.plan \in Held
        PROVE  op'.data = Source(active)'
    <3>1. op.plan \in Held
      BY <1>4 DEF Held, Defaulting
    <3>2. op.data = Source(active)
      BY <2>2, <3>1, <1>3, Zenon DEF ReadInv, SameTask
    <3>3. Source(active)' = Source(active)
      BY <1>2, <1>3, Zenon DEF Source, Section, SameTask
    <3> QED
      BY <1>3, <3>2, <3>3, Zenon
  <2>3. docs'[active'].alive \subseteq op'.ids
    BY <1>2, <1>3, Zenon
  <2>4. op'.plan \notin Defaulting
    BY <1>3, <1>4 DEF Defaulting
  <2> QED
    BY <1>2, <1>3, <1>5, <2>1, <2>2, <2>3, <2>4, ReadAfter, Zenon
<1>9. host # "tvpaint"
  BY <1>4
<1>10. Called
  BY <1>2, <1>3, <1>4, <1>9, Zenon DEF Called, Making
<1> QED
  BY <1>5, <1>6, <1>7, <1>8, <1>10, ChunksKept

\* A list in a section's text.
LEMMA Stores ==
  ASSUME NEW list, Fits(list, MaxActs + 1), NEW section
  PROVE  /\ Records(Store(section, list)) = list
         /\ Whole(Record, section) => Whole(Record, Store(section, list))
<1>1. list \in Seq(Record) /\ Len(list) <= MaxActs + 1
  BY DEF Fits
<1>2. Width * Len(list) + 2 <= MaxChunks * ChunkLength
  <2>1. PICK n \in Nat : n = Len(list)
    BY <1>1
  <2>2. PICK m \in Nat : m = MaxActs + 1
    BY StagingAssumption
  <2>3. n <= m
    BY <1>1, <2>1, <2>2
  <2>4. Width * n <= Width * m
    <3>1. Width \in Nat
      BY MetadataAssumption
    <3> QED
      BY <2>3, <3>1
  <2>5. Width * m + 2 <= MaxChunks * ChunkLength
    BY <2>2, StagingAssumption
  <2>6. Width * n \in Int /\ Width * m \in Int /\ MaxChunks * ChunkLength \in Int
    BY MetadataAssumption
  <2> QED
    BY <2>1, <2>4, <2>5, <2>6
<1>3. Whole(Record, section) => Whole(Record, Store(section, list))
  BY <1>1, <1>2, WholeStore
<1> QED
  BY <1>1, <1>2, <1>3, StoredIsRead

\* The documents after a step that keeps the lists.
LEMMA KeptDocs ==
  ASSUME DocTypes, active \in Docs, docs' = [d \in Docs |-> docs'[d]], \A d \in Docs : IsDoc(docs'[d]),
         docs'[active].next \in Nat \ {0}, docs'[active].alive \subseteq 1..MaxNode,
         docs'[active].list = docs[active].list,
         docs'[active].instances = docs[active].instances, docs'[active].containers = docs[active].containers,
         \A d \in Docs \ {active} : docs'[d] = docs[d]
  PROVE  DocTypes' /\ SameLists
<1>1. ASSUME NEW d \in Docs
      PROVE  /\ docs'[d].next \in Nat \ {0} /\ docs'[d].list \in Seq(Record) /\ docs'[d].alive \subseteq 1..MaxNode
             /\ docs'[d].list = docs[d].list
             /\ docs'[d].instances = docs[d].instances /\ docs'[d].containers = docs[d].containers
  <2>1. CASE d = active
    BY <2>1, Zenon DEF DocTypes
  <2>2. CASE d # active
    BY <2>2, Zenon DEF DocTypes
  <2> QED
    BY <2>1, <2>2
<1> QED
  BY <1>1, Zenon DEF DocTypes, SameLists

\* The documents after a step that keeps their layers.
LEMMA LayersKept ==
  ASSUME DocTypes, active \in Docs, docs' = [d \in Docs |-> docs'[d]], \A d \in Docs : IsDoc(docs'[d]),
         docs'[active].next = docs[active].next, docs'[active].alive = docs[active].alive,
         docs'[active].icon = docs[active].icon, docs'[active].list \in Seq(Record),
         \A d \in Docs \ {active} : docs'[d] = docs[d]
  PROVE  DocTypes' /\ SameLayers
<1>1. ASSUME NEW d \in Docs
      PROVE  /\ docs'[d].next \in Nat \ {0} /\ docs'[d].list \in Seq(Record) /\ docs'[d].alive \subseteq 1..MaxNode
             /\ docs'[d].alive = docs[d].alive /\ docs'[d].icon = docs[d].icon /\ docs'[d].next = docs[d].next
  <2>1. CASE d = active
    BY <2>1, Zenon DEF DocTypes
  <2>2. CASE d # active
    BY <2>2, Zenon DEF DocTypes
  <2> QED
    BY <2>1, <2>2
<1> QED
  BY <1>1, Zenon DEF DocTypes, SameLayers

\* The documents after one of them has another section.
LEMMA SectionEffect ==
  ASSUME StageTypes, NEW x, docs' = [docs EXCEPT ![active][Section] = x]
  PROVE  /\ docs' = [d \in Docs |-> docs'[d]] /\ \A d \in Docs : IsDoc(docs'[d])
         /\ docs'[active].next = docs[active].next /\ docs'[active].alive = docs[active].alive
         /\ docs'[active].icon = docs[active].icon /\ docs'[active].list = docs[active].list
         /\ \/ /\ Section = "instances" /\ docs'[active].instances = x
               /\ docs'[active].containers = docs[active].containers
            \/ /\ Section = "containers" /\ docs'[active].containers = x
               /\ docs'[active].instances = docs[active].instances
         /\ \A d \in Docs \ {active} : docs'[d] = docs[d]
         /\ DocTypes' /\ SameLayers
<1>1. DocTypes /\ active \in Docs /\ Section \in {"containers", "instances"}
  BY StageFacts
<1>2. CASE Section = "instances"
  <2>1. docs' = [docs EXCEPT ![active].instances = x]
    BY <1>2
  <2>2. /\ docs' = [d \in Docs |-> docs'[d]] /\ \A d \in Docs : IsDoc(docs'[d])
        /\ docs'[active].next = docs[active].next /\ docs'[active].alive = docs[active].alive
        /\ docs'[active].icon = docs[active].icon
        /\ docs'[active].list = docs[active].list /\ docs'[active].instances = x
        /\ docs'[active].containers = docs[active].containers
        /\ \A d \in Docs \ {active} : docs'[d] = docs[d]
    BY <1>1, <2>1, InstancesEffect, Zenon
  <2>3. docs'[active].list \in Seq(Record)
    BY <2>2, StageFacts
  <2>4. DocTypes' /\ SameLayers
    BY <1>1, <2>2, <2>3, LayersKept, Zenon
  <2> QED
    BY <1>2, <2>2, <2>4, Zenon
<1>3. CASE Section = "containers"
  <2>1. docs' = [docs EXCEPT ![active].containers = x]
    BY <1>3
  <2>2. /\ docs' = [d \in Docs |-> docs'[d]] /\ \A d \in Docs : IsDoc(docs'[d])
        /\ docs'[active].next = docs[active].next /\ docs'[active].alive = docs[active].alive
        /\ docs'[active].icon = docs[active].icon
        /\ docs'[active].list = docs[active].list /\ docs'[active].containers = x
        /\ docs'[active].instances = docs[active].instances
        /\ \A d \in Docs \ {active} : docs'[d] = docs[d]
    BY <1>1, <2>1, ContainersEffect, Zenon
  <2>3. docs'[active].list \in Seq(Record)
    BY <2>2, StageFacts
  <2>4. DocTypes' /\ SameLayers
    BY <1>1, <2>2, <2>3, LayersKept, Zenon
  <2> QED
    BY <1>3, <2>2, <2>4, Zenon
<1> QED
  BY <1>1, <1>2, <1>3, Zenon

\* The chunks of the documents, after a step on the active one.
LEMMA ChunksAfter ==
  ASSUME ChunksInv, Whole(Record, docs'[active].instances), Whole(Record, docs'[active].containers),
         \A d \in Docs \ {active} : docs'[d] = docs[d]
  PROVE  ChunksInv'
<1>1. ASSUME NEW d \in Docs
      PROVE  Whole(Record, docs'[d].instances) /\ Whole(Record, docs'[d].containers)
  <2>1. CASE d = active
    BY <2>1, Zenon
  <2>2. CASE d # active
    BY <2>2, Zenon DEF ChunksInv
  <2> QED
    BY <2>1, <2>2
<1> QED
  BY <1>1, Zenon DEF ChunksInv

\* The documents' records again.
LEMMA SameSource ==
  ASSUME StageTypes, SameLists, op'.what = op.what, host' = host
  PROVE  /\ \A d \in Docs : Source(d)' = Source(d)
         /\ Section' = Section /\ \A d \in Docs : docs'[d][Section] = docs[d][Section]
<1>1. Section' = Section /\ Section \in {"containers", "instances"}
  BY Zenon DEF Section
<1>2. ASSUME NEW d \in Docs
      PROVE  docs'[d][Section] = docs[d][Section] /\ docs'[d].list = docs[d].list
  <2>1. CASE Section = "instances"
    BY <2>1 DEF SameLists
  <2>2. CASE Section = "containers"
    BY <2>2 DEF SameLists
  <2> QED
    BY <1>1, <2>1, <2>2 DEF SameLists
<1> QED
  BY <1>1, <1>2, Zenon DEF Source

\* The section of the operation, as a field.
LEMMA SectionRead ==
  ASSUME StagingInv, host = "tvpaint"
  PROVE  /\ Records(docs[active][Section]) \in Seq(Record)
         /\ Records(docs[active][Section]) \in {Records(docs[active].instances), Records(docs[active].containers)}
         /\ \A d \in Docs : Whole(Record, docs[d][Section])
<1> USE DEF StagingInv
<1>1. active \in Docs /\ Section \in {"containers", "instances"}
  BY StageFacts
<1>2. Records(docs[active].instances) \in Seq(Record) /\ Records(docs[active].containers) \in Seq(Record)
  BY <1>1, Zenon DEF ReadInv, Fits
<1>3. CASE Section = "instances"
  BY <1>2, <1>3 DEF ChunksInv
<1>4. CASE Section = "containers"
  BY <1>2, <1>4 DEF ChunksInv
<1> QED
  BY <1>1, <1>3, <1>4

\* What a read finds: the list as it is or, with a document that does not count
\* as read, none.
Finds(list, steady, plan, rest) ==
  /\ Found(list, steady, plan) /\ list \in {<<>>, Source(active)} /\ steady \in BOOLEAN
  /\ (steady => op.steady /\ list = Source(active)) /\ (~granted => list = <<>>)
  /\ plan = rest \/ (host = "tvpaint" /\ list = <<>> /\ plan = <<"default">> \o rest)
Finding(rest) == \E list, steady, plan : Finds(list, steady, plan, rest)

\* The plans with the default to write first.
LEMMA Prefixed == <<"default">> \o <<>> = <<"default">> /\ <<"default">> \o <<"write">> = <<"default", "write">>
<1>1. <<"default">> \o <<>> = <<"default">>
  OBVIOUS
<1>2. <<"default">> \o <<"write">> = <<"default", "write">>
  <2>1. <<"default">> \in Seq({"default", "write"}) /\ <<"write">> \in Seq({"default", "write"})
    OBVIOUS
  <2>2. <<"default", "write">> \in Seq({"default", "write"})
    OBVIOUS
  <2>3. PICK a, b, c : a = <<"default">> /\ b = <<"write">> /\ c = <<"default", "write">>
    OBVIOUS
  <2>4. Len(a) = 1 /\ Len(b) = 1 /\ Len(c) = 2 /\ a[1] = "default" /\ b[1] = "write" /\ c[1] = "default" /\ c[2] = "write"
    BY <2>3
  <2>5. /\ a \in Seq({"default", "write"}) /\ b \in Seq({"default", "write"}) /\ c \in Seq({"default", "write"})
    BY <2>1, <2>2, <2>3
  <2>6. /\ a \o b \in Seq({"default", "write"}) /\ Len(a \o b) = 2
        /\ (a \o b)[1] = "default" /\ (a \o b)[2] = "write"
    BY <2>4, <2>5, ConcatProperties
  <2>7. a \o b = c
    <3>1. PICK d : d = a \o b
      OBVIOUS
    <3>2. d = c
      BY <2>4, <2>5, <2>6, <3>1, SeqEqual
    <3> QED
      BY <3>1, <3>2
  <2> QED
    BY <2>3, <2>7
<1> QED
  BY <1>1, <1>2

\* A list is found, ...
LEMMA FoundInv ==
  ASSUME StagingInv, UNCHANGED stepVars, docs' = docs,
         NEW rest, Finding(rest), PlanFor(op.what, rest), rest \in {<<>>} \cup Held,
         op.what = "list" => rest = <<>>,
         host = "tvpaint" /\ op.what # "list" => rest = <<"write">> /\ op.what # "none",
         host = "tvpaint" /\ op.what \in Making => op.plan \in Unwritten,
         rest \notin Defaulting, host \in {"photoshop", "aftereffects"} => rest # <<"write">>
  PROVE  StagingInv' /\ SameLists
<1> USE DEF StagingInv
<1>1. PICK list, steady, plan : Finds(list, steady, plan, rest)
  BY DEF Finding
<1>2. UNCHANGED <<host, granted, active, rows, acts>> /\ calm' = calm
  BY <1>1 DEF stepVars, Finds, Found
<1>3. /\ IsOp(op)' /\ op'.what = op.what /\ op'.name = op.name /\ op'.steady = steady
      /\ op'.key = op.key /\ op'.plan = plan /\ op'.data = list
      /\ op'.doc = active /\ op'.ids = op.ids /\ op'.todo = op.todo /\ op'.late = op.late
  BY <1>1, StageFacts, FoundOp, Zenon DEF Finds
<1>4. DocTypes' /\ SameLists
  <2>1. DocTypes
    BY StageFacts
  <2> QED
    BY <2>1, Zenon DEF DocTypes, SameLists
<1>5. Source(active) \in Seq(Record)
  BY StageFacts, SectionRead DEF Source
<1>6. list \in Seq(Record) /\ steady \in BOOLEAN
  <2>1. <<>> \in Seq(Record)
    OBVIOUS
  <2> QED
    BY <1>1, <1>5, <2>1, Zenon DEF Finds
<1>7. StageTypes'
  BY <1>2, <1>3, <1>4, <1>6, StageFacts, TypesAfter, Zenon
<1>8. /\ plan = rest \/ (host = "tvpaint" /\ list = <<>> /\ plan \in Defaulting)
      /\ host = "tvpaint" /\ op.what \in Making => plan \in Unwritten
      /\ plan \notin Counted
      /\ PlanFor(op.what, plan)
  <2>1. CASE plan = rest
    <3>1. rest \notin Counted
      BY DEF Counted, Held, Defaulting
    <3>2. host = "tvpaint" /\ op.what \in Making => rest \in Unwritten
      BY DEF Unwritten, Making
    <3> QED
      BY <2>1, <3>1, <3>2
  <2>2. CASE host = "tvpaint" /\ list = <<>> /\ plan = <<"default">> \o rest
    <3>1. <<"default">> \o <<>> = <<"default">> /\ <<"default">> \o <<"write">> = <<"default", "write">>
      BY Prefixed
    <3>2. CASE op.what = "list"
      <4>1. plan = <<"default">>
        BY <2>2, <3>1, <3>2
      <4>2. plan \in Defaulting /\ plan \notin Counted
        BY <4>1 DEF Defaulting, Counted
      <4>3. PlanFor(op.what, plan)
        BY <2>2, <3>2, <4>1 DEF PlanFor, Making
      <4> QED
        BY <2>2, <3>2, <4>2, <4>3 DEF Making
    <3>3. CASE op.what # "list"
      <4>1. plan = <<"default", "write">>
        BY <2>2, <3>1, <3>3
      <4>2. plan \in Defaulting /\ plan \in Unwritten /\ plan \notin Counted
        BY <4>1 DEF Defaulting, Unwritten, Counted
      <4>3. PlanFor(op.what, plan)
        BY <2>2, <3>3, <4>1 DEF PlanFor, Making
      <4> QED
        BY <2>2, <3>3, <4>2, <4>3
    <3> QED
      BY <3>2, <3>3
  <2> QED
    BY <1>1, <2>1, <2>2 DEF Finds
<1>9. PlanInv'
  BY <1>2, <1>3, <1>8, Zenon DEF PlanInv, PlanFor
<1>10. ReadInv'
  <2>1. acts' \in Nat
    BY <1>2, StagingAssumption DEF StageTypes
  <2>2. host = "tvpaint" => Quota' \in {Quota, Quota + 1}
    <3>1. host = "tvpaint" => Quota' = Quota
      BY <1>2, <1>3, <1>8, Zenon DEF Quota
    <3> QED
      BY <3>1
  <2>3. op'.steady => op'.data = Source(active)'
    <3>1. active \in Docs
      BY StageFacts
    <3>2. steady => list = Source(active)
      BY <1>1, Zenon DEF Finds
    <3>3. Source(active)' = Source(active)
      BY <1>2, <1>3, <1>4, <3>1, SameSource, Zenon
    <3> QED
      BY <1>3, <3>2, <3>3, Zenon
  <2>4. op'.plan \in Defaulting => op'.data = <<>>
    BY <1>3, <1>8
  <2>5. host \in {"photoshop", "aftereffects"} => op'.plan # <<"write">>
    BY <1>3, <1>8
  <2>6. host = "tvpaint" =>
           \/ op'.data = op.data \/ op'.data = <<>>
           \/ \E d \in Docs : op'.data \in {Records(docs[d].instances), Records(docs[d].containers)}
    <3>1. ASSUME host = "tvpaint", list # <<>>
          PROVE  list \in {Records(docs[active].instances), Records(docs[active].containers)}
      BY <1>1, <3>1, SectionRead DEF Finds, Source
    <3> QED
      BY <1>3, <3>1, StageFacts, Zenon
  <2>7. op'.plan \notin Counted
    BY <1>3, <1>8
  <2> QED
    BY <1>2, <1>4, <2>1, <2>2, <2>3, <2>4, <2>5, <2>6, <2>7, ReadAfter, Zenon
<1> QED
  BY <1>4, <1>7, <1>9, <1>10, ChunksKept

\* A section whose text does not parse has no records.
LEMMA Unparsed ==
  ASSUME NEW section
  PROVE  /\ ~Parses(SectionText(section)) => Records(section) = <<>>
         /\ Parses(SectionText(section)) => Records(section) = Listed(SectionText(section))
BY DEF Records

\* What decoding a text finds.
LEMMA Decoding ==
  ASSUME NEW string, NEW rest, Decode(string, rest), op.steady \in BOOLEAN, granted \in BOOLEAN, host = "tvpaint",
         Parses(string) => granted /\ Listed(string) = Source(active),
         op.steady /\ ~Parses(string) /\ (granted \/ string # <<>>) => Source(active) = <<>>
  PROVE  Finding(rest)
<1>1. ~Parses(<<>>)
  BY NoChunks
<1>2. CASE string = <<>>
  <2>1. Found(<<>>, op.steady /\ granted, rest)
    BY <1>2, Zenon DEF Decode
  <2>2. Finds(<<>>, op.steady /\ granted, rest, rest)
    BY <1>1, <1>2, <2>1, Zenon DEF Finds
  <2> QED
    BY <2>2, Zenon DEF Finding
<1>3. CASE string # <<>> /\ Parses(string)
  <2>1. Found(Listed(string), op.steady /\ granted, rest)
    BY <1>3, Zenon DEF Decode
  <2>2. Finds(Source(active), op.steady /\ granted, rest, rest)
    BY <1>3, <2>1, Zenon DEF Finds
  <2> QED
    BY <2>2, Zenon DEF Finding
<1>4. CASE string # <<>> /\ ~Parses(string)
  <2>1. Found(<<>>, op.steady, <<"default">> \o rest)
    BY <1>4, Zenon DEF Decode
  <2>2. Finds(<<>>, op.steady, <<"default">> \o rest, rest)
    BY <1>4, <2>1, Zenon DEF Finds
  <2> QED
    BY <2>2, Zenon DEF Finding
<1> QED
  BY <1>2, <1>3, <1>4

\* TVPaint's first call asks for the second or finds the list, ...
LEMMA CountCases ==
  ASSUME StagingInv, Count
  PROVE  /\ docs' = docs
         /\ \/ Finding(Tail(Tail(op.plan)))
            \/ /\ op' = [Next1(op) EXCEPT !.doc = active] /\ calm' = calm /\ granted
               /\ docs[active][Section].old = <<>>
<1> USE DEF StagingInv
<1>1. host = "tvpaint" /\ docs' = docs
  BY StageFacts, AtCount DEF Count
<1>2. PICK x : x = docs[active][Section]
  OBVIOUS
<1>3. Whole(Record, x) /\ Source(active) = Records(x) /\ active \in Docs
  BY <1>1, <1>2, SectionRead, StageFacts DEF Source
<1>4. CASE granted /\ x.old = <<>> /\ x.count > 0
  BY <1>1, <1>2, <1>4 DEF Count, Here
<1>5. CASE ~(granted /\ x.old = <<>> /\ x.count > 0)
  <2>1. PICK string : string = IF granted THEN x.old ELSE <<>>
    OBVIOUS
  <2>2. Decode(string, Tail(Tail(op.plan)))
    BY <1>2, <1>5, <2>1 DEF Count, Here
  <2>3. ~Parses(<<>>)
    BY NoChunks
  <2>4. ASSUME granted
        PROVE  /\ Parses(string) => Listed(string) = Records(x)
               /\ ~Parses(string) => Records(x) = <<>>
    <3>1. CASE x.old # <<>>
      <4>1. SectionText(x) = string
        BY <2>1, <2>4, <3>1 DEF SectionText
      <4> QED
        BY <4>1, Unparsed
    <3>2. CASE x.old = <<>>
      <4>1. x.count \in 0..MaxChunks
        BY <1>3 DEF Whole
      <4>2. x.count = 0
        BY <1>5, <2>4, <3>2, <4>1, MetadataAssumption
      <4>3. SectionText(x) = <<>>
        BY <3>2, <4>2, NoChunks DEF SectionText
      <4> QED
        BY <2>1, <2>3, <2>4, <3>2, <4>3, Unparsed
    <3> QED
      BY <3>1, <3>2
  <2>5. ~granted => string = <<>>
    BY <2>1
  <2>6. Finding(Tail(Tail(op.plan)))
    <3>1. op.steady \in BOOLEAN /\ granted \in BOOLEAN
      BY StageFacts
    <3> QED
      BY <1>1, <1>3, <2>2, <2>3, <2>4, <2>5, <3>1, Decoding, Zenon
  <2> QED
    BY <1>1, <2>6
<1> QED
  BY <1>4, <1>5

\* ... and the invariant holds after it.
LEMMA CountStep ==
  ASSUME StagingInv, Count
  PROVE  StagingInv' /\ SameLists
<1> USE DEF StagingInv
<1>1. At("count") /\ UNCHANGED stepVars /\ docs' = docs
  BY DEF Count
<1>2. /\ host = "tvpaint" /\ op.what \in {"list", "remove"} \cup Making
      /\ op.what = "list" => op.plan = <<"count", "read">> /\ Tail(op.plan) = <<"read">> /\ Tail(Tail(op.plan)) = <<>>
      /\ op.what # "list" => /\ op.plan = <<"count", "read", "write">> /\ Tail(op.plan) = <<"read", "write">>
                             /\ Tail(Tail(op.plan)) = <<"write">>
  <2>1. op.what \in Works /\ host \in Hosts /\ PlanInv
    BY StageFacts
  <2> QED
    BY <1>1, <2>1, AtCount
<1>3. CASE Finding(Tail(Tail(op.plan)))
  <2>1. PlanFor(op.what, Tail(op.plan)) /\ Tail(op.plan) # <<>>
    <3>1. PlanFor(op.what, Tail(op.plan))
      BY <1>1, StageFacts, PlanSuffix DEF At, PlanInv
    <3>2. <<"read">> # <<>> /\ <<"read", "write">> # <<>>
      OBVIOUS
    <3> QED
      BY <1>2, <3>1, <3>2, Zenon
  <2>2. PlanFor(op.what, Tail(Tail(op.plan)))
    BY <2>1, StageFacts, PlanSuffix
  <2>3. Tail(Tail(op.plan)) \in {<<>>} \cup Held /\ Tail(Tail(op.plan)) \notin Defaulting
    BY <1>2 DEF Held, Defaulting
  <2>4. op.what # "none" /\ (op.what # "list" => op.plan \in Unwritten) /\ (op.what \in Making => op.what # "list")
    BY <1>2 DEF Unwritten, Making
  <2> QED
    BY <1>1, <1>2, <1>3, <2>2, <2>3, <2>4, FoundInv
<1>4. CASE /\ op' = [Next1(op) EXCEPT !.doc = active] /\ calm' = calm /\ granted
           /\ docs[active][Section].old = <<>>
  <2>1. UNCHANGED <<host, granted, active, rows, acts>>
    BY <1>1 DEF stepVars
  <2>2. /\ IsOp(op)' /\ SameTask /\ op'.key = op.key /\ op'.plan = Tail(op.plan) /\ op'.data = op.data
        /\ op'.doc = active /\ op'.ids = op.ids /\ op'.todo = op.todo /\ op'.late = op.late
    BY <1>4, StageFacts, CountedOp, Zenon
  <2>3. DocTypes' /\ SameLists
    <3>1. DocTypes
      BY StageFacts
    <3> QED
      BY <1>1, <3>1, Zenon DEF DocTypes, SameLists
  <2>4. StageTypes'
    BY <1>4, <2>1, <2>2, <2>3, StageFacts, TypesAfter, Zenon DEF SameTask
  <2>5. PlanInv'
    <3>1. PlanFor(op.what, Tail(op.plan))
      BY <1>1, StageFacts, PlanSuffix DEF At, PlanInv
    <3> QED
      BY <2>1, <2>2, <3>1, Zenon DEF PlanInv, PlanFor, SameTask
  <2>6. ReadInv'
    <3>1. acts' \in Nat
      BY <2>1, StagingAssumption DEF StageTypes
    <3>2. Quota' \in {Quota, Quota + 1}
      <4>1. op.what \in Making => op.plan \in Unwritten /\ Tail(op.plan) \in Unwritten
        BY <1>2 DEF Unwritten, Making
      <4>2. Quota' = Quota
        BY <2>1, <2>2, <4>1, Zenon DEF Quota, SameTask
      <4> QED
        BY <4>2
    <3>3. op'.plan \notin Held \cup Defaulting /\ op'.plan # <<"write">>
      BY <1>2, <2>2 DEF Held, Defaulting
    <3>4. op'.doc = active' /\ docs'[active'][Section'].old = <<>>
      <4>1. Section' = Section
        BY <2>2, Zenon DEF Section, SameTask
      <4> QED
        BY <1>1, <1>4, <2>1, <2>2, <4>1, Zenon
    <3> QED
      BY <1>4, <2>1, <2>2, <2>3, <3>1, <3>2, <3>3, <3>4, ReadAfter DEF Held, Defaulting
  <2> QED
    BY <2>3, <2>4, <2>5, <2>6, ChunksKept
<1> QED
  BY <1>3, <1>4, CountCases

\* What a read finds, in each host.
LEMMA ReadCases ==
  ASSUME StagingInv, Read
  PROVE  docs' = docs /\ (Raise \/ Finding(Tail(op.plan)))
<1> USE DEF StagingInv
<1>1. host \in Hosts /\ active \in Docs /\ (host # "tvpaint" => granted) /\ op.steady \in BOOLEAN /\ granted \in BOOLEAN
  BY StageFacts DEF StageTypes
<1>2. CASE host = "tvpaint"
  <2>1. TVPaintRead
    BY <1>2 DEF Read
  <2>2. PICK x : x = docs[active][Section]
    OBVIOUS
  <2>3. PICK n : n = docs[op.doc][Section].count
    OBVIOUS
  <2>4. Whole(Record, x) /\ Source(active) = Records(x) /\ n \in 0..MaxChunks
    <3>1. op.doc \in Docs
      BY StageFacts
    <3> QED
      BY <1>1, <1>2, <2>2, <2>3, <3>1, SectionRead DEF Source, Whole
  <2>5. granted /\ (op.steady => op.doc = active /\ x.old = <<>>)
    <3>1. op.plan \in Counted
      BY <1>2, StageFacts, AtRead DEF Read
    <3> QED
      BY <1>2, <2>2, <3>1, Zenon DEF ReadInv
  <2>6. PICK string : string = ChunksText(x, n)
    OBVIOUS
  <2>7. docs' = docs /\ Decode(string, Tail(op.plan))
    BY <2>1, <2>2, <2>3, <2>6, Zenon DEF TVPaintRead, Here
  <2>8. Parses(string) => Listed(string) = Records(x)
    BY <2>4, <2>6 DEF Whole
  <2>9. op.steady /\ ~Parses(string) => Records(x) = <<>>
    <3>1. op.steady => SectionText(x) = string
      BY <2>2, <2>3, <2>5, <2>6 DEF SectionText
    <3> QED
      BY <3>1, Unparsed
  <2> QED
    BY <1>1, <1>2, <2>4, <2>5, <2>7, <2>8, <2>9, Decoding, Zenon
<1>3. CASE host # "tvpaint"
  <2>1. docs' = docs /\ (Raise \/ Reading(docs[active].list) \/ Misread)
    <3>1. CASE host = "harmony"
      BY <3>1 DEF Read, HarmonyRead, Here
    <3>2. CASE host = "photoshop"
      BY <3>2 DEF Read, PhotoshopRead, Here
    <3>3. CASE host = "aftereffects"
      <4>1. AfterEffectsRead
        BY <3>3 DEF Read
      <4> QED
        BY <4>1, Zenon DEF AfterEffectsRead, Here
    <3> QED
      BY <1>1, <1>3, <3>1, <3>2, <3>3 DEF Hosts
  <2>2. docs[active].list = Source(active)
    BY <1>3 DEF Source
  <2>3. ASSUME Reading(docs[active].list)
        PROVE  Finding(Tail(op.plan))
    <3>1. Finds(Source(active), op.steady, Tail(op.plan), Tail(op.plan))
      BY <1>1, <1>3, <2>2, <2>3, Zenon DEF Finds, Reading
    <3> QED
      BY <3>1, Zenon DEF Finding
  <2>4. ASSUME Misread
        PROVE  Finding(Tail(op.plan))
    <3>1. Finds(<<>>, FALSE, Tail(op.plan), Tail(op.plan))
      BY <2>4, Zenon DEF Finds, Misread
    <3> QED
      BY <3>1, Zenon DEF Finding
  <2> QED
    BY <2>1, <2>3, <2>4
<1> QED
  BY <1>2, <1>3

\* ... and the invariant holds after it.
LEMMA ReadStep ==
  ASSUME StagingInv, Read
  PROVE  StagingInv' /\ SameLists
<1> USE DEF StagingInv
<1>1. At("read") /\ UNCHANGED stepVars /\ docs' = docs
  BY ReadCases DEF Read
<1>2. CASE Raise
  BY <1>1, <1>2, RaiseInv
<1>3. CASE Finding(Tail(op.plan))
  <2>1. PlanFor(op.what, Tail(op.plan)) /\ op.what # "none"
    BY <1>1, StageFacts, PlanSuffix DEF At, PlanInv
  <2>2. /\ op.what = "list" => Tail(op.plan) = <<>>
        /\ op.what # "list" => Tail(op.plan) \in Held
        /\ host \in {"photoshop", "aftereffects"} => Tail(op.plan) # <<"write">>
        /\ host = "tvpaint" /\ op.what \in Making => op.plan \in Unwritten
        /\ host = "tvpaint" => op.plan \in Counted
        /\ Tail(op.plan) \notin Defaulting
    BY <1>1, StageFacts, AtRead
  <2>3. host = "tvpaint" /\ op.what # "list" => Tail(op.plan) = <<"write">>
    BY <2>2, PlanTable DEF Counted, Held, Defaulting
  <2>4. Tail(op.plan) \in {<<>>} \cup Held
    BY <2>2
  <2> QED
    BY <1>1, <1>3, <2>1, <2>2, <2>3, <2>4, FoundInv
<1> QED
  BY <1>2, <1>3, ReadCases

\* The default is written, where nothing could be read.
LEMMA DefaultStep ==
  ASSUME StagingInv, Default
  PROVE  /\ StagingInv' /\ SameLayers /\ \A d \in Docs \ {active} : docs'[d] = docs[d]
         /\ IsOp(op)' /\ SameTask /\ op'.key = op.key /\ op'.plan = Tail(op.plan) /\ op'.data = <<>> /\ op.data = <<>>
         /\ op'.doc = op.doc /\ op'.ids = op.ids /\ op'.todo = op.todo /\ op'.late = op.late
         /\ host = "tvpaint"
         /\ \/ /\ Section = "instances" /\ Records(docs'[active].instances) = <<>>
               /\ docs'[active].containers = docs[active].containers
            \/ /\ Section = "containers" /\ Records(docs'[active].containers) = <<>>
               /\ docs'[active].instances = docs[active].instances
         /\ op.steady => Source(active) = <<>>
<1> USE DEF StagingInv
<1>1. /\ At("default") /\ UNCHANGED stepVars /\ op' = Next1(op) /\ calm' = (calm /\ op.steady)
      /\ active \in Docs /\ IsOp(op)
  BY StageFacts DEF Default
<1>2. UNCHANGED <<host, granted, active, rows, acts>>
  BY <1>1 DEF stepVars
<1>3. /\ host = "tvpaint" /\ op.what \in {"list", "remove"} \cup Making /\ op.plan \in Defaulting
      /\ op.what = "list" => op.plan = <<"default">> /\ Tail(op.plan) = <<>>
      /\ op.what # "list" => op.plan = <<"default", "write">> /\ Tail(op.plan) = <<"write">>
  BY <1>1, StageFacts, AtDefault
<1>4. /\ IsOp(op)' /\ SameTask /\ op'.key = op.key /\ op'.plan = Tail(op.plan) /\ op'.data = op.data
      /\ op'.doc = op.doc /\ op'.ids = op.ids /\ op'.todo = op.todo /\ op'.late = op.late
  BY <1>1, NextEffect
<1>5. op.data = <<>> /\ (op.steady => Source(active) = <<>>)
  <2>1. op.plan \in Held
    BY <1>3 DEF Held, Defaulting
  <2> QED
    BY <1>3, <2>1, Zenon DEF ReadInv
<1>6. PICK x : x = Store(docs[active][Section], <<>>)
  OBVIOUS
<1>7. Records(x) = <<>> /\ Whole(Record, x)
  <2>1. Fits(<<>>, MaxActs + 1)
    BY StagingAssumption DEF Fits
  <2> QED
    BY <1>1, <1>3, <1>6, <2>1, Stores, SectionRead
<1>8. docs' = [docs EXCEPT ![active][Section] = x]
  BY <1>6 DEF Default
<1>9. /\ docs'[active].alive = docs[active].alive
      /\ \/ /\ Section = "instances" /\ docs'[active].instances = x
            /\ docs'[active].containers = docs[active].containers
         \/ /\ Section = "containers" /\ docs'[active].containers = x
            /\ docs'[active].instances = docs[active].instances
      /\ \A d \in Docs \ {active} : docs'[d] = docs[d]
      /\ DocTypes' /\ SameLayers
  BY <1>8, SectionEffect, Zenon
<1>10. StageTypes'
  <2>1. calm' \in BOOLEAN
    BY <1>1, StageFacts
  <2> QED
    BY <1>2, <1>3, <1>4, <1>9, <2>1, StageFacts, TypesAfter, Zenon DEF SameTask
<1>11. PlanInv'
  <2>1. PlanFor(op.what, Tail(op.plan))
    BY <1>1, StageFacts, PlanSuffix DEF At, PlanInv
  <2> QED
    BY <1>2, <1>4, <2>1, Zenon DEF PlanInv, PlanFor, SameTask
<1>12. ChunksInv'
  BY <1>1, <1>7, <1>9, ChunksAfter, Zenon DEF ChunksInv
<1>13. ReadInv'
  <2>1. Quota' = Quota
    <3>1. op.what \in Making => op.plan \in Unwritten /\ Tail(op.plan) \in Unwritten
      BY <1>3 DEF Unwritten, Making
    <3> QED
      BY <1>2, <1>4, <3>1, Zenon DEF Quota, SameTask
  <2>2. Fits(<<>>, Quota)
    BY StagingAssumption DEF Fits, Quota, StageTypes
  <2>3. ASSUME NEW d \in Docs
        PROVE  Fits(Records(docs'[d].instances), Quota) /\ Fits(Records(docs'[d].containers), Quota)
    <3>1. Fits(Records(docs[d].instances), Quota) /\ Fits(Records(docs[d].containers), Quota)
      BY <1>3, Zenon DEF ReadInv
    <3>2. CASE d = active
      BY <1>7, <1>9, <2>2, <3>1, <3>2, Zenon
    <3>3. CASE d # active
      BY <1>9, <3>1, <3>3, Zenon
    <3> QED
      BY <3>2, <3>3
  <2>4. op'.data = Source(active)'
    <3>1. Section' = Section
      BY <1>4, Zenon DEF Section, SameTask
    <3>2. docs'[active][Section] = x
      BY <1>9
    <3> QED
      BY <1>2, <1>3, <1>4, <1>5, <1>7, <3>1, <3>2, Zenon DEF Source
  <2>5. op'.plan \notin Defaulting \cup Counted
    BY <1>3, <1>4 DEF Defaulting, Counted
  <2> QED
    BY <1>2, <1>3, <1>4, <1>5, <2>1, <2>2, <2>3, <2>4, <2>5 DEF ReadInv
<1> QED
  BY <1>3, <1>4, <1>5, <1>7, <1>9, <1>10, <1>11, <1>12, <1>13

\* What an imprint makes of a list.
LEMMA Imprinting ==
  ASSUME NEW list \in Seq(Record), op.key \in Nat, op.name \in Names
  PROVE  /\ Imprinted(list) \in Seq(Record) /\ Len(Imprinted(list)) <= Len(list) + 1 /\ NewRec \in Record
         /\ NewRec \in Elements(Imprinted(list)) /\ Elements(Imprinted(list)) \subseteq Elements(list) \cup {NewRec}
         /\ \A r \in Elements(list) : r \in Elements(Imprinted(list)) \/ (op.key # NoKey /\ r.key = op.key)
         /\ op.key # NoKey => \A r \in Elements(Imprinted(list)) : r.key = op.key => r = NewRec
<1> DEFINE new == Imprinted(list)
           n == Len(list)
<1>1. PICK a : a = NewRec
  OBVIOUS
<1>2. a \in Record /\ a.key = op.key
  BY <1>1 DEF NewRec, Rec, Record
<1>3. n \in Nat /\ DOMAIN list = 1..n /\ \A i \in 1..n : list[i] \in Record
  OBVIOUS
<1>4. CASE op.key # NoKey /\ \E i \in DOMAIN list : list[i].key = op.key
  <2>1. new = [i \in 1..n |-> IF list[i].key = op.key THEN a ELSE list[i]]
    BY <1>1, <1>3, <1>4 DEF Imprinted
  <2>2. new \in Seq(Record) /\ Len(new) = n
    <3>1. new \in [1..n -> Record]
      BY <1>2, <1>3, <2>1
    <3> QED
      BY <1>3, <3>1, SeqDef, LenProperties
  <2>3. PICK k \in 1..n : list[k].key = op.key
    BY <1>3, <1>4
  <2>4. new[k] = a /\ DOMAIN new = 1..n
    BY <2>1, <2>3
  <2>5. a \in Elements(new)
    BY <2>3, <2>4 DEF Elements
  <2>6. Elements(new) \subseteq Elements(list) \cup {a}
    BY <1>3, <2>1 DEF Elements
  <2>7. ASSUME NEW i \in 1..n, list[i].key # op.key
        PROVE  list[i] \in Elements(new)
    BY <2>1, <2>7 DEF Elements
  <2>8. \A r \in Elements(list) : r \in Elements(new) \/ r.key = op.key
    BY <1>3, <2>7 DEF Elements
  <2>9. \A r \in Elements(new) : r.key = op.key => r = a
    BY <1>2, <2>1 DEF Elements
  <2> QED
    BY <1>1, <1>2, <1>4, <2>2, <2>5, <2>6, <2>8, <2>9
<1>5. CASE ~(op.key # NoKey /\ \E i \in DOMAIN list : list[i].key = op.key)
  <2>1. new = Append(list, a)
    BY <1>1, <1>5 DEF Imprinted
  <2>2. new \in Seq(Record) /\ Len(new) = n + 1
    BY <1>2, <2>1
  <2>3. /\ DOMAIN new = 1..(n + 1) /\ new[n + 1] = a /\ \A i \in 1..n : new[i] = list[i]
    BY <1>2, <2>1, <2>2
  <2>4. a \in Elements(new)
    BY <1>3, <2>3 DEF Elements
  <2>5. Elements(new) \subseteq Elements(list) \cup {a}
    <3>1. ASSUME NEW i \in 1..(n + 1)
          PROVE  new[i] \in Elements(list) \cup {a}
      BY <1>3, <2>3 DEF Elements
    <3> QED
      BY <2>3, <3>1 DEF Elements
  <2>6. \A r \in Elements(list) : r \in Elements(new)
    <3>1. ASSUME NEW i \in 1..n
          PROVE  list[i] \in Elements(new)
      <4>1. i \in 1..(n + 1)
        BY <1>3
      <4> QED
        BY <2>3, <4>1 DEF Elements
    <3> QED
      BY <1>3, <3>1 DEF Elements
  <2>7. op.key # NoKey => \A r \in Elements(new) : r.key = op.key => r = a
    BY <1>5, <2>5 DEF Elements
  <2> QED
    BY <1>1, <1>2, <2>2, <2>4, <2>5, <2>6, <2>7
<1> QED
  BY <1>4, <1>5

\* What is written back: the record of the operation is added or taken out, and
\* only records of layers that are gone go with it.
LEMMA WrittenList ==
  ASSUME StageTypes, op.what \in Making \cup {"remove"}
  PROVE  /\ Written \in Seq(Record) /\ Len(Written) <= Len(op.data) + 1
         /\ op.what = "remove" =>
              /\ Len(Written) <= Len(op.data)
              /\ Elements(Written) = {r \in Elements(op.data) : r.key # op.key}
         /\ op.what # "remove" =>
              /\ Elements(Written) \subseteq Elements(op.data) \cup {NewRec}
              /\ op.key # NoKey => \A r \in Elements(Written) : r.key = op.key => r = NewRec
              /\ host \notin {"photoshop", "aftereffects"} \/ op.key \in op.ids => NewRec \in Elements(Written)
         /\ \A r \in Elements(op.data) :
              \/ r \in Elements(Written) \/ r.key = op.key
              \/ op.what # "remove" /\ host \in {"photoshop", "aftereffects"} /\ r.key \notin op.ids
<1>1. op.data \in Seq(Record) /\ op.key \in Nat /\ op.name \in Names /\ host \in Hosts
  BY StageFacts
<1>2. CASE op.what = "remove"
  <2> DEFINE at == {i \in DOMAIN op.data : op.data[i].key # op.key}
  <2>1. Written = Picked(op.data, at)
    BY <1>2 DEF Written
  <2>2. /\ Picked(op.data, at) \in Seq(Record) /\ Len(Picked(op.data, at)) <= Len(op.data)
        /\ Elements(Picked(op.data, at)) = {op.data[i] : i \in at \cap DOMAIN op.data}
    BY <1>1, Picking
  <2>3. Elements(Written) = {r \in Elements(op.data) : r.key # op.key}
    BY <2>1, <2>2 DEF Elements
  <2> QED
    BY <1>1, <1>2, <2>1, <2>2, <2>3
<1>3. CASE op.what # "remove"
  <2>1. PICK list : list = Imprinted(op.data)
    OBVIOUS
  <2>2. PICK a : a = NewRec
    OBVIOUS
  <2>3. /\ list \in Seq(Record) /\ Len(list) <= Len(op.data) + 1 /\ a \in Elements(list)
        /\ Elements(list) \subseteq Elements(op.data) \cup {a}
        /\ \A r \in Elements(op.data) : r \in Elements(list) \/ r.key = op.key
        /\ op.key # NoKey => \A r \in Elements(list) : r.key = op.key => r = a
    BY <1>1, <2>1, <2>2, Imprinting
  <2>4. CASE host \in {"tvpaint", "harmony"}
    <3>1. Written = list
      BY <1>3, <2>1, <2>4 DEF Written, TVPaintImprint, HarmonyImprint
    <3> QED
      BY <1>3, <2>2, <2>3, <2>4, <3>1
  <2>5. ASSUME NEW at, Written = Picked(list, at), \A i \in DOMAIN list : list[i].key \in op.ids => i \in at,
               host \in {"photoshop", "aftereffects"}
        PROVE  /\ Written \in Seq(Record) /\ Len(Written) <= Len(op.data) + 1
               /\ Elements(Written) \subseteq Elements(list)
               /\ \A r \in Elements(list) : r \in Elements(Written) \/ r.key \notin op.ids
    <3>1. /\ Picked(list, at) \in Seq(Record) /\ Len(Picked(list, at)) <= Len(list)
          /\ Elements(Picked(list, at)) = {list[i] : i \in at \cap DOMAIN list}
      BY <2>3, Picking
    <3>2. Elements(Written) \subseteq Elements(list)
      BY <2>5, <3>1 DEF Elements
    <3>3. \A r \in Elements(list) : r \in Elements(Written) \/ r.key \notin op.ids
      BY <2>5, <3>1 DEF Elements
    <3>4. Len(Written) <= Len(op.data) + 1
      <4>1. Len(Picked(list, at)) \in Nat /\ Len(list) \in Nat /\ Len(op.data) \in Nat
        BY <1>1, <2>3, <3>1
      <4> QED
        BY <2>3, <2>5, <3>1, <4>1
    <3> QED
      BY <2>5, <3>1, <3>2, <3>3, <3>4
  <2>6. a.key = op.key
    BY <2>2 DEF NewRec, Rec
  <2>7. ASSUME host \in {"photoshop", "aftereffects"}
        PROVE  /\ Written \in Seq(Record) /\ Len(Written) <= Len(op.data) + 1
               /\ Elements(Written) \subseteq Elements(list)
               /\ \A r \in Elements(list) : r \in Elements(Written) \/ r.key \notin op.ids
    <3>1. CASE host = "photoshop"
      <4>1. Written = Picked(list, {i \in DOMAIN list : list[i].key \in op.ids})
        BY <1>3, <2>1, <3>1 DEF Written, PhotoshopImprint
      <4> QED
        BY <2>5, <3>1, <4>1
    <3>2. CASE host = "aftereffects"
      <4>1. Written = Picked(list, {i \in DOMAIN list : list[i].kind = "instance" \/ list[i].key \in op.ids})
        BY <1>3, <2>1, <3>2 DEF Written, AfterEffectsImprint
      <4> QED
        BY <2>5, <3>2, <4>1
    <3> QED
      BY <2>7, <3>1, <3>2
  <2>8. CASE host \in {"photoshop", "aftereffects"}
    <3>1. op.key \in op.ids => a \in Elements(Written)
      BY <2>3, <2>6, <2>7, <2>8
    <3> QED
      BY <1>3, <2>2, <2>3, <2>7, <2>8, <3>1
  <2> QED
    BY <1>1, <2>4, <2>8 DEF Hosts
<1> QED
  BY <1>2, <1>3

\* The documents after a write.
LEMMA WriteDocs ==
  ASSUME StagingInv, At("write"),
         docs' = IF host = "tvpaint" THEN [docs EXCEPT ![active][Section] = Store(@, Written)]
                 ELSE [docs EXCEPT ![active].list = Written]
  PROVE  /\ DocTypes' /\ ChunksInv' /\ SameLayers /\ \A d \in Docs \ {active} : docs'[d] = docs[d]
         /\ Written \in Seq(Record) /\ (host = "tvpaint" => Len(Written) <= acts + 1)
         /\ host # "tvpaint" => /\ docs'[active].list = Written
                                /\ docs'[active].instances = docs[active].instances
                                /\ docs'[active].containers = docs[active].containers
         /\ host = "tvpaint" => /\ docs'[active].list = docs[active].list
                                /\ Records(docs'[active][Section]) = Written
         /\ host = "tvpaint" /\ Section = "instances" => docs'[active].containers = docs[active].containers
         /\ host = "tvpaint" /\ Section = "containers" => docs'[active].instances = docs[active].instances
<1> USE DEF StagingInv
<1>1. /\ active \in Docs /\ DocTypes /\ host \in Hosts /\ op.what \in Works /\ acts \in Nat /\ acts <= MaxActs
      /\ docs[active].list \in Seq(Record) /\ docs[active].next \in Nat \ {0} /\ docs[active].alive \subseteq 1..MaxNode
  BY StageFacts, StagingAssumption DEF StageTypes
<1>2. op.what \in Making \cup {"remove"}
  BY <1>1, AtWrite
<1>3. PICK w : w = Written
  OBVIOUS
<1>4. w \in Seq(Record) /\ Len(w) <= Len(op.data) + 1 /\ (op.what = "remove" => Len(w) <= Len(op.data))
  BY <1>2, <1>3, WrittenList
<1>5. host = "tvpaint" => Len(w) <= acts + 1
  <2>1. ASSUME host = "tvpaint"
        PROVE  Fits(op.data, Quota) /\ op.plan = <<"write">>
    BY <1>1, <2>1, AtWrite DEF ReadInv
  <2>2. host = "tvpaint" /\ op.what \in Making => Quota = acts
    BY <2>1 DEF Quota, Unwritten
  <2>3. op.what = "remove" => Quota = acts + 1
    BY DEF Quota, Making
  <2>4. Len(op.data) \in Nat /\ Len(w) \in Nat
    BY <1>4, StageFacts
  <2> QED
    BY <1>1, <1>2, <1>4, <2>1, <2>2, <2>3, <2>4 DEF Fits
<1>6. CASE host # "tvpaint"
  <2>1. docs' = [docs EXCEPT ![active].list = w]
    BY <1>3, <1>6
  <2>2. /\ docs' = [d \in Docs |-> docs'[d]] /\ \A d \in Docs : IsDoc(docs'[d])
        /\ docs'[active].next = docs[active].next /\ docs'[active].alive = docs[active].alive
        /\ docs'[active].icon = docs[active].icon
        /\ docs'[active].list = w /\ docs'[active].instances = docs[active].instances
        /\ docs'[active].containers = docs[active].containers
        /\ \A d \in Docs \ {active} : docs'[d] = docs[d]
    BY <1>1, <2>1, ListEffect, Zenon
  <2>3. DocTypes' /\ SameLayers
    BY <1>1, <1>4, <2>2, LayersKept, Zenon
  <2>4. ChunksInv'
    BY <1>1, <2>2, ChunksAfter, Zenon DEF ChunksInv
  <2> QED
    BY <1>1, <1>3, <1>4, <1>6, <2>2, <2>3, <2>4, Zenon
<1>7. CASE host = "tvpaint"
  <2>1. PICK x : x = Store(docs[active][Section], w)
    OBVIOUS
  <2>2. Records(x) = w /\ Whole(Record, x)
    <3>1. Fits(w, MaxActs + 1)
      BY <1>1, <1>4, <1>5, <1>7, StagingAssumption DEF Fits
    <3> QED
      BY <1>1, <1>7, <2>1, <3>1, Stores, SectionRead
  <2>3. docs' = [docs EXCEPT ![active][Section] = x]
    BY <1>3, <1>7, <2>1
  <2>4. /\ docs'[active].list = docs[active].list
        /\ \/ /\ Section = "instances" /\ docs'[active].instances = x
              /\ docs'[active].containers = docs[active].containers
           \/ /\ Section = "containers" /\ docs'[active].containers = x
              /\ docs'[active].instances = docs[active].instances
        /\ \A d \in Docs \ {active} : docs'[d] = docs[d]
        /\ DocTypes' /\ SameLayers
    BY <2>3, SectionEffect, Zenon
  <2>5. docs'[active][Section] = x
    BY <2>4
  <2>6. ChunksInv'
    BY <1>1, <2>2, <2>4, ChunksAfter, Zenon DEF ChunksInv
  <2>7. /\ Section = "instances" => docs'[active].containers = docs[active].containers
        /\ Section = "containers" => docs'[active].instances = docs[active].instances
    BY <2>4
  <2> QED
    BY <1>3, <1>4, <1>5, <1>7, <2>2, <2>4, <2>5, <2>6, <2>7, Zenon
<1> QED
  BY <1>6, <1>7

\* A list is written.
LEMMA WriteStep ==
  ASSUME StagingInv, Write
  PROVE  StagingInv'
<1> USE DEF StagingInv
<1>1. /\ At("write") /\ UNCHANGED stepVars /\ host \in Hosts /\ active \in Docs /\ DocTypes /\ op.what \in Works
      /\ IsOp(op) /\ op.late \in BOOLEAN /\ op.steady \in BOOLEAN /\ calm \in BOOLEAN
  BY StageFacts DEF Write
<1>2. UNCHANGED <<host, granted, active, rows, acts>>
  BY <1>1 DEF stepVars
<1>3. CASE docs' = docs /\ Raise
  BY <1>1, <1>3, RaiseInv
<1>4. CASE docs' = docs /\ Quit /\ calm' = calm
  <2>1. DocTypes' /\ SameLists
    BY <1>1, <1>4 DEF DocTypes, SameLists
  <2>2. PlanFor(op.what, <<>>) /\ <<>> \notin Held
    BY <1>1, PlanDone DEF Held, Defaulting
  <2> QED
    BY <1>1, <1>2, <1>4, <2>1, <2>2, QuitEffect, StageFacts, CallInv, Zenon
<1>5. ASSUME docs' = IF host = "tvpaint" THEN [docs EXCEPT ![active][Section] = Store(@, Written)]
                     ELSE [docs EXCEPT ![active].list = Written],
             calm' = (calm /\ op.steady),
             NEW n \in op.todo \cup {NoKey}, n = NoKey <=> op.todo = {},
             op' = [Next1(op) EXCEPT !.late = TRUE, !.todo = op.todo \ {n},
                      !.plan = IF op.todo \ {n} = {} THEN @ ELSE <<"read", "ids", "write">>]
      PROVE  StagingInv'
  <2>1. PICK b : b = TRUE
    OBVIOUS
  <2>2. PICK t : t = op.todo \ {n}
    OBVIOUS
  <2>3. PICK p : p = IF t = {} THEN Tail(op.plan) ELSE <<"read", "ids", "write">>
    OBVIOUS
  <2>4. op' = Rewritten(Next1(op), b, t, p)
    <3>1. Next1(op).plan = Tail(op.plan)
      BY <1>1, Next1Step
    <3> QED
      BY <1>5, <2>1, <2>2, <2>3, <3>1, Zenon DEF Rewritten
  <2>5. /\ IsOp(op)' /\ SameTask /\ op'.key = op.key /\ op'.plan = p /\ op'.data = op.data
        /\ op'.doc = op.doc /\ op'.ids = op.ids /\ op'.todo = t /\ op'.late = b
    BY <1>1, <2>4, WriteOp, Zenon
  <2>6. DocTypes' /\ ChunksInv' /\ \A d \in Docs \ {active} : docs'[d] = docs[d]
    BY <1>1, <1>5, WriteDocs, Zenon
  <2>7. host # "aftereffects" \/ op.what \notin Making => t = {}
    BY <2>2, StageFacts
  <2>8. b \in BOOLEAN /\ calm' \in BOOLEAN
    BY <1>1, <1>5, <2>1
  <2>9. StageTypes'
    BY <1>2, <2>5, <2>6, <2>7, <2>8, StageFacts, TypesAfter, Zenon DEF SameTask
  <2>10. /\ p \in {<<>>, <<"delete">>, <<"rename">>, <<"read", "ids", "write">>} /\ PlanFor(op.what, p)
         /\ host = "tvpaint" => p = <<>>
    <3>1. CASE t = {}
      <4>1. PlanFor(op.what, Tail(op.plan))
        BY <1>1, PlanSuffix DEF At, PlanInv
      <4> QED
        BY <1>1, <2>3, <3>1, <4>1, AtWrite
    <3>2. CASE t # {}
      <4>1. host = "aftereffects" /\ op.what \in Making /\ p = <<"read", "ids", "write">>
        BY <2>3, <2>7, <3>2
      <4> QED
        BY <4>1 DEF PlanFor, Making
    <3> QED
      BY <3>1, <3>2
  <2>11. PlanInv'
    BY <1>2, <2>5, <2>10, Zenon DEF PlanInv, PlanFor, SameTask
  <2>12. /\ op'.plan \notin Held /\ op'.plan # <<"write">>
         /\ op'.plan \notin Defaulting /\ op'.plan \notin Counted
    <3>1. p \in {<<>>, <<"delete">>, <<"rename">>} \/ p = <<"read", "ids", "write">>
      BY <2>10
    <3>2. \A q \in {<<>>, <<"delete">>, <<"rename">>} :
            q \notin Held /\ q # <<"write">> /\ q \notin Defaulting /\ q \notin Counted
      BY DEF Held, Defaulting, Counted
    <3>3. <<"read", "ids", "write">> \notin Held /\ <<"read", "ids", "write">> # <<"write">>
      BY DEF Held, Defaulting
    <3>4. <<"read", "ids", "write">> \notin Defaulting /\ <<"read", "ids", "write">> \notin Counted
      BY DEF Defaulting, Counted
    <3> QED
      BY <2>5, <3>1, <3>2, <3>3, <3>4, Zenon
  <2>13. ASSUME host = "tvpaint"
         PROVE  /\ Fits(op'.data, Quota')
                /\ \A d \in Docs : Fits(Records(docs'[d].instances), Quota') /\ Fits(Records(docs'[d].containers), Quota')
    <3>1. Quota' = acts + 1
      <4>1. op'.plan \notin Unwritten
        BY <2>5, <2>10, <2>13 DEF Unwritten
      <4> QED
        BY <1>2, <4>1, Zenon DEF Quota
    <3>2. acts \in Nat /\ Quota \in {acts, acts + 1}
      BY StagingAssumption DEF StageTypes, Quota
    <3>3. \A list : Fits(list, Quota) => Fits(list, acts + 1)
      BY <3>2 DEF Fits
    <3>4. /\ Fits(op.data, acts + 1)
          /\ \A d \in Docs : Fits(Records(docs[d].instances), acts + 1) /\ Fits(Records(docs[d].containers), acts + 1)
      BY <2>13, <3>3, Zenon DEF ReadInv
    <3>5. Fits(Written, acts + 1)
      BY <1>1, <1>5, <2>13, WriteDocs, Zenon DEF Fits
    <3>6. Fits(Records(docs'[active].instances), acts + 1) /\ Fits(Records(docs'[active].containers), acts + 1)
      <4>1. CASE Section = "instances"
        <5>1. Records(docs'[active].instances) = Written /\ docs'[active].containers = docs[active].containers
          <6>1. Records(docs'[active][Section]) = Written /\ docs'[active].containers = docs[active].containers
            BY <1>1, <1>5, <2>13, <4>1, WriteDocs, Zenon
          <6>2. docs'[active][Section] = docs'[active].instances
            BY <4>1
          <6> QED
            BY <6>1, <6>2, Zenon
        <5> QED
          BY <1>1, <3>4, <3>5, <5>1, Zenon
      <4>2. CASE Section = "containers"
        <5>1. Records(docs'[active].containers) = Written /\ docs'[active].instances = docs[active].instances
          <6>1. Records(docs'[active][Section]) = Written /\ docs'[active].instances = docs[active].instances
            BY <1>1, <1>5, <2>13, <4>2, WriteDocs, Zenon
          <6>2. docs'[active][Section] = docs'[active].containers
            BY <4>2
          <6> QED
            BY <6>1, <6>2, Zenon
        <5> QED
          BY <1>1, <3>4, <3>5, <5>1, Zenon
      <4> QED
        BY <4>1, <4>2 DEF Section
    <3>7. ASSUME NEW d \in Docs
          PROVE  Fits(Records(docs'[d].instances), acts + 1) /\ Fits(Records(docs'[d].containers), acts + 1)
      <4>1. CASE d = active
        BY <3>6, <4>1, Zenon
      <4>2. CASE d # active
        BY <2>6, <3>4, <4>2, Zenon
      <4> QED
        BY <4>1, <4>2
    <3> QED
      BY <2>5, <3>1, <3>4, <3>7, Zenon
  <2>14. ReadInv'
    BY <1>2, <2>12, <2>13, Zenon DEF ReadInv
  <2> QED
    BY <2>6, <2>9, <2>11, <2>14
<1> QED
  BY <1>3, <1>4, <1>5, Zenon DEF Write

\* An icon goes.
LEMMA RenameStep ==
  ASSUME StagingInv, Rename
  PROVE  StagingInv' /\ SameLists /\ ((Raise /\ docs' = docs) \/ Called)
<1> USE DEF StagingInv
<1>1. /\ At("rename") /\ UNCHANGED stepVars /\ op' = Next1(op) /\ calm' = (calm /\ op.steady)
      /\ host \in Hosts /\ active \in Docs /\ DocTypes /\ op.what \in Works /\ IsOp(op)
      /\ op.steady \in BOOLEAN /\ calm \in BOOLEAN
  BY StageFacts DEF Rename
<1>2. UNCHANGED <<host, granted, active, rows, acts>>
  BY <1>1 DEF stepVars
<1>3. op.what = "remove" /\ host # "tvpaint" /\ op.plan = <<"rename">> /\ Tail(op.plan) = <<>>
  BY <1>1, AtRename
<1>4. DocTypes' /\ SameLists
  <2>1. CASE docs' = docs
    BY <1>1, <2>1 DEF DocTypes, SameLists
  <2>2. CASE PhotoshopRename
    <3>1. PICK x : x = docs[active].icon \ {op.key}
      OBVIOUS
    <3>2. docs' = [docs EXCEPT ![active].icon = x]
      BY <2>2, <3>1 DEF PhotoshopRename
    <3>3. /\ docs' = [d \in Docs |-> docs'[d]] /\ \A d \in Docs : IsDoc(docs'[d])
          /\ docs'[active].next = docs[active].next /\ docs'[active].alive = docs[active].alive
          /\ docs'[active].list = docs[active].list /\ docs'[active].instances = docs[active].instances
          /\ docs'[active].containers = docs[active].containers
          /\ \A d \in Docs \ {active} : docs'[d] = docs[d]
      BY <1>1, <3>2, IconEffect, Zenon
    <3>4. docs'[active].next \in Nat \ {0} /\ docs'[active].alive \subseteq 1..MaxNode
      BY <3>3, StageFacts, Zenon
    <3> QED
      BY <1>1, <3>3, <3>4, KeptDocs, Zenon
  <2> QED
    BY <2>1, <2>2, Zenon DEF Rename, AfterEffectsRename
<1>5. PlanFor(op.what, <<>>) /\ <<>> \notin Held /\ calm' \in BOOLEAN
  BY <1>1, PlanDone DEF Held, Defaulting
<1>6. /\ IsOp(op)' /\ SameTask /\ op'.key = op.key /\ op'.plan = Tail(op.plan) /\ op'.data = op.data
      /\ op'.doc = op.doc /\ op'.ids = op.ids /\ op'.todo = op.todo /\ op'.late = op.late
  BY <1>1, NextEffect
<1>7. Called
  BY <1>1, <1>3, <1>6, Zenon DEF Called
<1> QED
  BY <1>1, <1>2, <1>3, <1>4, <1>5, <1>6, <1>7, StageFacts, CallInv, Zenon

\* A node goes.
LEMMA DeleteStep ==
  ASSUME StagingInv, DeleteNode
  PROVE  StagingInv' /\ SameLists /\ ((Raise /\ docs' = docs) \/ Called)
<1> USE DEF StagingInv
<1>1. /\ At("delete") /\ UNCHANGED stepVars /\ op' = Next1(op) /\ calm' = calm
      /\ host \in Hosts /\ active \in Docs /\ DocTypes /\ op.what \in Works /\ IsOp(op) /\ calm \in BOOLEAN
  BY StageFacts DEF DeleteNode
<1>2. UNCHANGED <<host, granted, active, rows, acts>>
  BY <1>1 DEF stepVars
<1>3. op.what = "remove" /\ host # "tvpaint" /\ Tail(op.plan) = <<>>
  BY <1>1, AtDelete
<1>4. DocTypes' /\ SameLists
  <2>1. PICK x : x = docs[active].alive \ {op.key}
    OBVIOUS
  <2>2. docs' = [docs EXCEPT ![active].alive = x]
    BY <2>1 DEF DeleteNode
  <2>3. /\ docs' = [d \in Docs |-> docs'[d]] /\ \A d \in Docs : IsDoc(docs'[d])
        /\ docs'[active].next = docs[active].next /\ docs'[active].alive = x
        /\ docs'[active].list = docs[active].list /\ docs'[active].instances = docs[active].instances
        /\ docs'[active].containers = docs[active].containers
        /\ \A d \in Docs \ {active} : docs'[d] = docs[d]
    BY <1>1, <2>2, AliveEffect, Zenon
  <2>4. docs'[active].next \in Nat \ {0} /\ docs'[active].alive \subseteq 1..MaxNode
    BY <2>1, <2>3, StageFacts, Zenon
  <2> QED
    BY <1>1, <2>3, <2>4, KeptDocs, Zenon
<1>5. PlanFor(op.what, <<>>) /\ <<>> \notin Held
  BY <1>1, PlanDone DEF Held, Defaulting
<1>6. /\ IsOp(op)' /\ SameTask /\ op'.key = op.key /\ op'.plan = Tail(op.plan) /\ op'.data = op.data
      /\ op'.doc = op.doc /\ op'.ids = op.ids /\ op'.todo = op.todo /\ op'.late = op.late
  BY <1>1, NextEffect
<1>7. Called
  BY <1>1, <1>3, <1>6, Zenon DEF Called
<1> QED
  BY <1>1, <1>2, <1>3, <1>4, <1>5, <1>6, <1>7, StageFacts, CallInv, Zenon

\* The invariant when an operation starts or has ended ...
LEMMA StartInv ==
  ASSUME StagingInv, op.plan = <<>>, UNCHANGED <<host, granted, active>>, DocTypes', SameLists,
         acts' \in 0..MaxActs, acts' \in {acts, acts + 1}, op'.what \in Making => acts' = acts + 1,
         rows'.doc \in Docs, rows'.list \in Seq(Record), calm' \in BOOLEAN,
         IsOp(op)', op'.what \in Works, op'.name \in Names, op'.key \in Nat, op'.data = <<>>, op'.doc = 1,
         op'.todo = {}, op'.steady \in BOOLEAN, op'.late = FALSE, PlanFor(op'.what, op'.plan),
         op'.plan \notin Held \cup Counted \/ (host # "tvpaint" /\ op'.plan \notin Held)
  PROVE  StagingInv' /\ SameLists
<1> USE DEF StagingInv
<1>1. op'.data \in Seq(Record) /\ op'.doc \in Docs /\ op'.late \in BOOLEAN
  <2>1. <<>> \in Seq(Record) /\ 1 \in Docs /\ FALSE \in BOOLEAN
    BY StagingAssumption
  <2> QED
    BY <2>1, Zenon
<1>2. StageTypes'
  BY <1>1, Zenon DEF StageTypes, OpTypes
<1>3. PlanInv'
  BY Zenon DEF PlanInv, PlanFor
<1>4. ReadInv'
  <2>1. acts \in Nat /\ acts' \in Nat
    BY StagingAssumption DEF StageTypes
  <2>2. Quota = acts + 1
    BY DEF Quota, Unwritten
  <2>3. Quota' \in {acts', acts' + 1} /\ (op'.what \notin Making => Quota' = acts' + 1)
    BY Zenon DEF Quota
  <2>4. Quota' \in {Quota, Quota + 1}
    BY <2>1, <2>2, <2>3
  <2>5. op'.plan # <<"write">> /\ op'.plan \notin Held /\ ~(host = "tvpaint" /\ op'.plan \in Counted)
    BY DEF Held, Defaulting
  <2> QED
    BY <2>1, <2>4, <2>5, ReadAfter, Zenon
<1> QED
  BY <1>2, <1>3, <1>4, ChunksKept

\* A plan no call of which has been made.
Fresh(plan) == plan \notin Held \cup Counted \/ (host # "tvpaint" /\ plan \notin Held)

\* ... by its first call ...
LEMMA BeginInv ==
  ASSUME StagingInv, op.plan = <<>>, UNCHANGED <<host, granted, active>>, DocTypes', SameLists,
         acts' \in 0..MaxActs, acts' \in {acts, acts + 1}, rows'.doc \in Docs, rows'.list \in Seq(Record), calm' = calm,
         NEW what \in Works, NEW name \in Names, NEW key \in Nat, NEW plan, Begin(what, name, key, plan),
         what \in Making => acts' = acts + 1, PlanFor(what, plan), Fresh(plan)
  PROVE  StagingInv' /\ SameLists
<1>1. /\ IsOp(op)' /\ op'.what = what /\ op'.name = name /\ op'.key = key /\ op'.plan = plan
      /\ op'.data = <<>> /\ op'.doc = 1 /\ op'.ids = {} /\ op'.todo = {} /\ op'.steady = TRUE /\ op'.late = FALSE
  BY BeginOp, Zenon
<1>2. calm' \in BOOLEAN /\ op'.steady \in BOOLEAN
  <2>1. calm \in BOOLEAN
    BY StageFacts DEF StagingInv
  <2> QED
    BY <1>1, <2>1, Zenon
<1> QED
  BY <1>1, <1>2, StartInv, Zenon DEF Fresh

\* ... or without one.
LEMMA EndInv ==
  ASSUME StagingInv, op.plan = <<>>, UNCHANGED <<host, granted, active, docs, acts, calm>>, op' = NoOp,
         rows'.doc \in Docs, rows'.list \in Seq(Record)
  PROVE  StagingInv' /\ SameLists
<1> USE DEF StagingInv
<1>1. /\ IsOp(op)' /\ op'.what = "none" /\ op'.name = NoName /\ op'.key = NoKey /\ op'.plan = <<>>
      /\ op'.data = <<>> /\ op'.doc = 1 /\ op'.ids = {} /\ op'.todo = {} /\ op'.steady = TRUE /\ op'.late = FALSE
  <2>1. IsOp(op)'
    BY NoOpFields, Zenon DEF IsOp
  <2> QED
    BY <2>1, NoOpFields, Zenon
<1>2. DocTypes' /\ SameLists
  <2>1. DocTypes
    BY StageFacts
  <2> QED
    BY <2>1, Zenon DEF DocTypes, SameLists
<1>3. op'.what \in Works \ Making /\ op'.name \in Names /\ op'.key \in Nat
  BY <1>1 DEF Works, Making, Names, NoKey
<1>4. op'.steady \in BOOLEAN /\ calm' \in BOOLEAN /\ acts' \in 0..MaxActs /\ acts' \in {acts, acts + 1}
  <2>1. calm \in BOOLEAN /\ acts \in 0..MaxActs
    BY Zenon DEF StageTypes
  <2> QED
    BY <1>1, <2>1, Zenon
<1>5. PlanFor(op'.what, op'.plan) /\ op'.plan \notin Held \cup Counted
  <2>1. PlanFor(op'.what, <<>>) /\ <<>> \notin Held \cup Counted
    BY <1>3, StageFacts, PlanDone DEF Held, Counted, Defaulting
  <2> QED
    BY <1>1, <2>1, Zenon
<1> QED
  BY <1>1, <1>2, <1>3, <1>4, <1>5, StartInv, Zenon

\* The first calls of the operations.
LEMMA FirstPlans ==
  ASSUME host \in Hosts
  PROVE  /\ PlanFor("list", ListPlan) /\ Fresh(ListPlan)
         /\ \A f : PlanFor("create", CreatePlan(f)) /\ Fresh(CreatePlan(f))
         /\ PlanFor("load", LoadPlan) /\ Fresh(LoadPlan)
         /\ PlanFor("remove", RemovePlan) /\ Fresh(RemovePlan)
<1> USE DEF PlanFor, Fresh, Held, Counted, Defaulting, Making, Hosts
<1>1. PlanFor("list", ListPlan) /\ Fresh(ListPlan)
  BY DEF ListPlan
<1>2. PlanFor("load", LoadPlan) /\ Fresh(LoadPlan)
  BY DEF LoadPlan, TVPaintLoad, HarmonyLoad, PhotoshopLoad, AfterEffectsLoad
<1>3. PlanFor("remove", RemovePlan) /\ Fresh(RemovePlan)
  BY DEF RemovePlan, TVPaintRemove, HarmonyRemove, PhotoshopRemove, AfterEffectsRemove
<1>4. ASSUME NEW f
      PROVE  PlanFor("create", CreatePlan(f)) /\ Fresh(CreatePlan(f))
  BY DEF CreatePlan, TVPaintCreate, HarmonyCreate, PhotoshopCreate, AfterEffectsCreate
<1> QED
  BY <1>1, <1>2, <1>3, <1>4

\* The Subset Manager asks for the list.
LEMMA RefreshInv ==
  ASSUME StagingInv, op.plan = <<>>, Refresh, UNCHANGED <<host, granted, active, docs, acts, calm>>
  PROVE  StagingInv' /\ SameLists
<1> USE DEF StagingInv
<1>1. Begin("list", NoName, NoKey, ListPlan) /\ rows' = NoRows /\ host \in Hosts
  BY StageFacts DEF Refresh
<1>2. DocTypes' /\ SameLists
  <2>1. DocTypes
    BY StageFacts
  <2> QED
    BY <2>1, Zenon DEF DocTypes, SameLists
<1>3. rows'.doc \in Docs /\ rows'.list \in Seq(Record)
  BY <1>1, StagingAssumption DEF NoRows
<1>4. acts' \in 0..MaxActs /\ acts' \in {acts, acts + 1}
  <2>1. acts \in 0..MaxActs
    BY Zenon DEF StageTypes
  <2> QED
    BY <2>1, Zenon
<1>5. "list" \in Works /\ "list" \notin Making /\ NoName \in Names /\ NoKey \in Nat
  BY DEF Works, Making, Names, NoKey
<1>6. PlanFor("list", ListPlan) /\ Fresh(ListPlan)
  BY <1>1, FirstPlans
<1> QED
  BY <1>1, <1>2, <1>3, <1>4, <1>5, <1>6, BeginInv, Zenon

\* An operation ends.
LEMMA DoneStep ==
  ASSUME StagingInv, Done
  PROVE  StagingInv' /\ SameLists
<1> USE DEF StagingInv
<1>1. op.plan = <<>> /\ UNCHANGED <<host, granted, active, docs, acts, calm>>
  BY DEF Done
<1>2. CASE Refresh
  BY <1>1, <1>2, RefreshInv
<1>3. CASE op' = NoOp /\ rows' = rows
  <2>1. rows'.doc \in Docs /\ rows'.list \in Seq(Record)
    BY <1>3, Zenon DEF StageTypes
  <2> QED
    BY <1>1, <1>3, <2>1, EndInv
<1>4. CASE op' = NoOp /\ rows' = [doc |-> op.doc, list |-> Instances(op.data)]
  <2>1. Instances(op.data) \in Seq(Record)
    BY StageFacts, Picking DEF Instances
  <2>2. rows'.doc \in Docs /\ rows'.list \in Seq(Record)
    BY <1>4, <2>1, StageFacts
  <2> QED
    BY <1>1, <1>4, <2>2, EndInv
<1> QED
  BY <1>2, <1>3, <1>4 DEF Done

\* The user starts an operation.
LEMMA UserFacts ==
  ASSUME StageTypes
  PROVE  /\ Act => acts' = acts + 1 /\ acts' \in 0..MaxActs
         /\ Idle => op.plan = <<>> /\ op.what = "none" /\ op.late = FALSE /\ op.steady = TRUE
         /\ Key(host, active, Here.next) \in Nat
<1>1. acts \in Nat /\ acts <= MaxActs /\ MaxActs \in Nat
  BY StagingAssumption DEF StageTypes
<1>2. Act => acts' = acts + 1 /\ acts' \in 0..MaxActs
  BY <1>1 DEF Act
<1>3. Idle => op.plan = <<>> /\ op.what = "none" /\ op.late = FALSE /\ op.steady = TRUE
  BY NoOpFields, Zenon DEF Idle
<1>4. PICK d : d = active
  OBVIOUS
<1>5. PICK n : n = docs[active].next
  OBVIOUS
<1>6. d \in Nat \ {0} /\ n \in Nat /\ MaxNode \in Nat
  BY <1>4, <1>5, StageFacts, StagingAssumption
<1>7. (d - 1) * MaxNode + n \in Nat
  <2>1. d - 1 \in Nat
    BY <1>6
  <2>2. (d - 1) * MaxNode \in Nat
    BY <1>6, <2>1
  <2> QED
    BY <1>6, <2>2
<1>8. Key(host, active, Here.next) \in Nat
  BY <1>4, <1>5, <1>6, <1>7, Zenon DEF Key, Here
<1> QED
  BY <1>2, <1>3, <1>8

\* TVPaint's records take a number each.
LEMMA NumberDocs ==
  ASSUME StageTypes, docs' = IF host = "tvpaint" THEN [docs EXCEPT ![active].next = @ + 1] ELSE docs
  PROVE  /\ DocTypes' /\ SameLists
         /\ host = "tvpaint" => /\ docs'[active].next = docs[active].next + 1
                                /\ \A d \in Docs \ {active} : docs'[d] = docs[d]
<1>1. DocTypes /\ active \in Docs
  BY StageFacts
<1>2. CASE host # "tvpaint"
  <2>1. docs' = docs
    BY <1>2
  <2> QED
    BY <1>1, <1>2, <2>1, Zenon DEF DocTypes, SameLists
<1>3. CASE host = "tvpaint"
  <2>1. PICK x : x = docs[active].next + 1
    OBVIOUS
  <2>2. docs' = [docs EXCEPT ![active].next = x]
    BY <1>3, <2>1
  <2>3. /\ docs' = [d \in Docs |-> docs'[d]] /\ \A d \in Docs : IsDoc(docs'[d])
        /\ docs'[active].next = x /\ docs'[active].alive = docs[active].alive
        /\ docs'[active].list = docs[active].list /\ docs'[active].instances = docs[active].instances
        /\ docs'[active].containers = docs[active].containers
        /\ \A d \in Docs \ {active} : docs'[d] = docs[d]
    BY <1>1, <2>2, NextNumberEffect, Zenon
  <2>4. x \in Nat \ {0}
    BY <2>1, StageFacts
  <2>5. docs'[active].next \in Nat \ {0} /\ docs'[active].alive \subseteq 1..MaxNode
    BY <2>3, <2>4, StageFacts, Zenon
  <2> QED
    BY <1>1, <2>1, <2>3, <2>5, KeptDocs, Zenon
<1> QED
  BY <1>2, <1>3

\* "Create" is pressed.
LEMMA CreateStep ==
  ASSUME FormInv, StagingInv, Create
  PROVE  StagingInv' /\ SameLists
<1> USE DEF StagingInv
<1>1. /\ UNCHANGED <<host, granted, active, rows, calm>> /\ op.plan = <<>> /\ acts' = acts + 1 /\ acts' \in 0..MaxActs
  BY UserFacts DEF Create
<1>2. DocTypes' /\ SameLists
  BY NumberDocs, Zenon DEF Create
<1>3. PICK key : key = IF host = "tvpaint" THEN Key(host, active, Here.next) ELSE NoKey
  OBVIOUS
<1>4. key \in Nat
  BY <1>3, UserFacts DEF NoKey
<1>5. result \in Names
  BY FormAssumption DEF Create, FormInv, ReadyMatches, SubsetName, Names
<1>6. Begin("create", result, key, CreatePlan(item))
  BY <1>3, Zenon DEF Create
<1>7. PlanFor("create", CreatePlan(item)) /\ Fresh(CreatePlan(item)) /\ "create" \in Works
  BY StageFacts, FirstPlans DEF Works
<1>8. rows'.doc \in Docs /\ rows'.list \in Seq(Record)
  BY <1>1, Zenon DEF StageTypes
<1>9. calm' = calm /\ acts' \in {acts, acts + 1}
  BY <1>1, Zenon
<1>10. UNCHANGED <<host, granted, active>>
  BY <1>1
<1> QED
  BY <1>1, <1>2, <1>4, <1>5, <1>6, <1>7, <1>8, <1>9, <1>10, BeginInv, Zenon

\* A loader starts.
LEMMA LoadStep ==
  ASSUME StagingInv, Load
  PROVE  StagingInv' /\ SameLists
<1> USE DEF StagingInv
<1>1. /\ UNCHANGED <<host, granted, active, rows, calm>> /\ op.plan = <<>> /\ acts' = acts + 1 /\ acts' \in 0..MaxActs
  BY UserFacts DEF Load, MayOpen
<1>2. DocTypes' /\ SameLists
  BY NumberDocs, Zenon DEF Load
<1>3. PICK key : key = IF host = "tvpaint" THEN Key(host, active, Here.next) ELSE NoKey
  OBVIOUS
<1>4. key \in Nat /\ LoadName \in Names
  BY <1>3, UserFacts DEF NoKey, Names
<1>5. Begin("load", LoadName, key, LoadPlan)
  BY <1>3, Zenon DEF Load
<1>6. PlanFor("load", LoadPlan) /\ Fresh(LoadPlan) /\ "load" \in Works
  BY StageFacts, FirstPlans DEF Works
<1>7. rows'.doc \in Docs /\ rows'.list \in Seq(Record)
  BY <1>1, Zenon DEF StageTypes
<1>8. calm' = calm /\ acts' \in {acts, acts + 1}
  BY <1>1, Zenon
<1>9. UNCHANGED <<host, granted, active>>
  BY <1>1
<1> QED
  BY <1>1, <1>2, <1>4, <1>5, <1>6, <1>7, <1>8, <1>9, BeginInv, Zenon

\* A row is to be removed.
LEMMA RemoveStep ==
  ASSUME StagingInv, RemoveRow
  PROVE  StagingInv' /\ SameLists
<1> USE DEF StagingInv
<1>1. /\ UNCHANGED <<host, granted, active, rows, calm, docs>> /\ op.plan = <<>>
      /\ acts' = acts + 1 /\ acts' \in 0..MaxActs
  BY UserFacts DEF RemoveRow
<1>2. PICK i \in DOMAIN rows.list :
        op' = [NoOp EXCEPT !.what = "remove", !.name = rows.list[i].name, !.key = rows.list[i].key,
                           !.plan = RemovePlan, !.steady = rows.doc = active]
  BY DEF RemoveRow
<1>3. PICK r : r = rows.list[i]
  OBVIOUS
<1>4. PICK b : b = (rows.doc = active)
  OBVIOUS
<1>5. PICK name : name = r.name
  OBVIOUS
<1>6. PICK key : key = r.key
  OBVIOUS
<1>7. op' = Removing(NoOp, "remove", name, key, RemovePlan, b)
  BY <1>2, <1>3, <1>4, <1>5, <1>6, Zenon DEF Removing
<1>8. name \in Names /\ key \in Nat
  <2>1. r \in Record
    BY <1>3 DEF StageTypes
  <2> QED
    BY <1>5, <1>6, <2>1 DEF Record
<1>9. b \in BOOLEAN
  BY <1>4
<1>10. /\ IsOp(op)' /\ op'.what = "remove" /\ op'.name = name /\ op'.key = key /\ op'.plan = RemovePlan
       /\ op'.data = <<>> /\ op'.doc = 1 /\ op'.ids = {} /\ op'.todo = {} /\ op'.steady = b /\ op'.late = FALSE
  BY <1>7, RemovingOp, Zenon
<1>11. DocTypes' /\ SameLists
  <2>1. DocTypes
    BY StageFacts
  <2> QED
    BY <1>1, <2>1, Zenon DEF DocTypes, SameLists
<1>12. PlanFor("remove", RemovePlan) /\ Fresh(RemovePlan) /\ "remove" \in Works /\ "remove" \notin Making
  BY StageFacts, FirstPlans DEF Works, Making
<1>13. rows'.doc \in Docs /\ rows'.list \in Seq(Record)
  BY <1>1, Zenon DEF StageTypes
<1>14. calm' \in BOOLEAN /\ acts' \in {acts, acts + 1}
  BY <1>1, StageFacts, Zenon
<1>15. UNCHANGED <<host, granted, active>>
  BY <1>1
<1>16. /\ op'.what \in Works /\ op'.what \notin Making /\ op'.name \in Names /\ op'.key \in Nat /\ op'.steady \in BOOLEAN
       /\ PlanFor(op'.what, op'.plan)
       /\ op'.plan \notin Held \cup Counted \/ (host # "tvpaint" /\ op'.plan \notin Held)
  BY <1>8, <1>9, <1>10, <1>12, Zenon DEF Fresh
<1> QED
  BY <1>1, <1>10, <1>11, <1>13, <1>14, <1>15, <1>16, StartInv, Zenon

\* The invariant when the user does something else.
LEMMA UserInv ==
  ASSUME StagingInv, UNCHANGED <<host, granted, calm>>, DocTypes', SameLists,
         acts' \in 0..MaxActs, acts' \in {acts, acts + 1}, rows'.doc \in Docs, rows'.list \in Seq(Record),
         active' \in Docs, docs'[active].alive \subseteq docs[active].alive,
         IsOp(op)', op'.what = op.what, op'.name = op.name, op'.key = op.key, op'.plan = op.plan,
         op'.data = op.data, op'.doc = op.doc, op'.ids = op.ids, op'.todo = op.todo,
         op'.steady \in {op.steady, FALSE}, op'.late = op.late,
         active' = active \/ op.plan = <<>> \/ ~op'.steady
  PROVE  StagingInv' /\ SameLists
<1> USE DEF StagingInv
<1>1. /\ op.what \in Works /\ host \in Hosts /\ op.key \in Nat /\ op.late \in BOOLEAN /\ calm \in BOOLEAN
      /\ (host # "aftereffects" \/ op.what \notin Making => op.todo = {}) /\ op.steady \in BOOLEAN
      /\ op.name \in Names /\ op.data \in Seq(Record) /\ op.doc \in Docs
  BY StageFacts
<1>2. op'.steady \in BOOLEAN /\ calm' \in BOOLEAN /\ (op'.steady => op.steady)
  BY <1>1, Zenon
<1>3. StageTypes'
  BY <1>1, <1>2, Zenon DEF StageTypes, OpTypes
<1>4. PlanInv'
  BY Zenon DEF PlanInv, PlanFor
<1>5. ReadInv'
  <2>1. acts \in Nat /\ acts' \in Nat
    BY StagingAssumption DEF StageTypes
  <2>2. Quota' \in {Quota, Quota + 1}
    <3>1. CASE op.what \in Making /\ op.plan \in Unwritten
      BY <3>1, Zenon DEF Quota
    <3>2. CASE ~(op.what \in Making /\ op.plan \in Unwritten)
      <4>1. Quota = acts + 1 /\ Quota' = acts' + 1
        BY <3>2, Zenon DEF Quota
      <4> QED
        BY <4>1
    <3> QED
      BY <3>1, <3>2
  <2>3. <<>> \notin Held /\ <<>> # <<"write">>
    BY DEF Held, Defaulting
  <2>4. ASSUME op'.steady, op'.plan \in Held
        PROVE  op'.data = Source(active)'
    <3>1. active' = active
      BY <2>3, <2>4
    <3>2. op.data = Source(active)
      BY <1>2, <2>4, Zenon DEF ReadInv
    <3>3. Source(active)' = Source(active)
      <4>1. active \in Docs /\ Section' = Section /\ Section \in {"containers", "instances"}
        BY Zenon DEF StageTypes, Section
      <4> QED
        BY <3>1, <4>1, Zenon DEF Source, SameLists
    <3> QED
      BY <3>2, <3>3, Zenon
  <2>5. ASSUME host \in {"photoshop", "aftereffects"}, op'.steady, op'.plan = <<"write">>
        PROVE  docs'[active'].alive \subseteq op'.ids
    <3>1. active' = active
      BY <2>3, <2>5
    <3>2. docs[active].alive \subseteq op.ids
      BY <1>2, <2>5, Zenon DEF ReadInv
    <3> QED
      BY <3>1, <3>2, Zenon
  <2>6. op'.plan \in Defaulting => op'.data = <<>>
    BY Zenon DEF ReadInv
  <2>7. ASSUME host = "tvpaint", op'.plan \in Counted
        PROVE  granted /\ (op'.steady => op'.doc = active' /\ docs'[active'][Section'].old = <<>>)
    <3>1. granted /\ (op.steady => op.doc = active /\ docs[active][Section].old = <<>>)
      BY <2>7, Zenon DEF ReadInv
    <3>2. op.plan # <<>>
      <4>1. <<>> \notin Counted
        BY DEF Counted
      <4> QED
        BY <2>7, <4>1, Zenon
    <3>3. op'.steady => active' = active
      BY <3>2
    <3>4. active \in Docs /\ Section' = Section /\ docs'[active][Section] = docs[active][Section]
      BY StageFacts, SameSource, Zenon
    <3> QED
      BY <1>2, <3>1, <3>3, <3>4, Zenon
  <2> QED
    BY <2>1, <2>2, <2>4, <2>5, <2>6, <2>7, ReadAfter, Zenon
<1> QED
  BY <1>3, <1>4, <1>5, ChunksKept

\* The forms and windows are no part of it.
LEMMA QuietInv ==
  ASSUME StagingInv, UNCHANGED <<host, granted, docs, active, op, calm>>,
         acts' \in 0..MaxActs, acts' \in {acts, acts + 1}, rows' \in {rows, NoRows}
  PROVE  StagingInv' /\ SameLists
<1>1. DocTypes' /\ SameLists
  <2>1. DocTypes
    BY StageFacts DEF StagingInv
  <2> QED
    BY <2>1, Zenon DEF DocTypes, SameLists
<1>2. rows'.doc \in Docs /\ rows'.list \in Seq(Record)
  <2>1. CASE rows' = rows
    BY <2>1, Zenon DEF StagingInv, StageTypes
  <2>2. CASE rows' = NoRows
    BY <2>2, StagingAssumption DEF NoRows
  <2> QED
    BY <2>1, <2>2
<1>3. active' \in Docs /\ docs'[active].alive \subseteq docs[active].alive
  <2>1. active \in Docs
    BY StageFacts DEF StagingInv
  <2> QED
    BY <2>1, Zenon
<1>4. /\ IsOp(op)' /\ op'.what = op.what /\ op'.name = op.name /\ op'.key = op.key /\ op'.plan = op.plan
      /\ op'.data = op.data /\ op'.doc = op.doc /\ op'.ids = op.ids /\ op'.todo = op.todo
      /\ op'.steady \in {op.steady, FALSE} /\ op'.late = op.late
  <2>1. IsOp(op)
    BY StageFacts DEF StagingInv
  <2> QED
    BY <2>1, Zenon DEF IsOp
<1>5. UNCHANGED <<host, granted, calm>> /\ active' = active
  BY Zenon
<1> QED
  BY <1>1, <1>2, <1>3, <1>4, <1>5, UserInv, Zenon

\* The user goes to another document.
LEMMA SwitchStep ==
  ASSUME StagingInv, SwitchDocument
  PROVE  StagingInv' /\ SameLists
<1> USE DEF StagingInv
<1>1. /\ UNCHANGED <<host, granted, docs, rows, calm>> /\ acts' = acts + 1 /\ acts' \in 0..MaxActs
      /\ active' \in Docs
  BY UserFacts DEF SwitchDocument
<1>2. DocTypes' /\ SameLists /\ docs'[active].alive \subseteq docs[active].alive
  <2>1. DocTypes
    BY StageFacts
  <2> QED
    BY <1>1, <2>1, Zenon DEF DocTypes, SameLists
<1>3. rows'.doc \in Docs /\ rows'.list \in Seq(Record) /\ acts' \in {acts, acts + 1}
  BY <1>1, Zenon DEF StageTypes
<1>4. CASE Idle
  <2>1. op' = op
    BY <1>4 DEF SwitchDocument
  <2>2. op.plan = <<>>
    BY <1>4, UserFacts
  <2>3. /\ IsOp(op)' /\ op'.what = op.what /\ op'.name = op.name /\ op'.key = op.key /\ op'.plan = op.plan
        /\ op'.data = op.data /\ op'.doc = op.doc /\ op'.ids = op.ids /\ op'.todo = op.todo
        /\ op'.steady \in {op.steady, FALSE} /\ op'.late = op.late
    <3>1. IsOp(op)
      BY StageFacts
    <3> QED
      BY <2>1, <3>1, Zenon DEF IsOp
  <2> QED
    BY <1>1, <1>2, <1>3, <2>2, <2>3, UserInv, Zenon
<1>5. CASE ~Idle
  <2>1. PICK b : b = FALSE
    OBVIOUS
  <2>2. op' = Switched(op, b)
    BY <1>5, <2>1, Zenon DEF SwitchDocument, Switched
  <2>3. IsOp(op)
    BY StageFacts
  <2>4. /\ IsOp(op)' /\ op'.what = op.what /\ op'.name = op.name /\ op'.key = op.key /\ op'.plan = op.plan
        /\ op'.data = op.data /\ op'.doc = op.doc /\ op'.ids = op.ids /\ op'.todo = op.todo
        /\ op'.steady = b /\ op'.late = op.late
    BY <2>2, <2>3, UnsteadyOp, Zenon
  <2>5. op'.steady \in {op.steady, FALSE} /\ ~op'.steady
    BY <2>1, <2>4, Zenon
  <2> QED
    BY <1>1, <1>2, <1>3, <2>4, <2>5, UserInv, Zenon
<1> QED
  BY <1>4, <1>5

\* The user deletes a layer.
LEMMA DeleteLayerStep ==
  ASSUME StagingInv, DeleteLayer
  PROVE  StagingInv' /\ SameLists
<1> USE DEF StagingInv
<1>1. /\ UNCHANGED <<host, granted, active, op, rows, calm>> /\ acts' = acts + 1 /\ acts' \in 0..MaxActs
      /\ active \in Docs /\ DocTypes
  BY UserFacts, StageFacts DEF DeleteLayer
<1>2. PICK n : docs' = [docs EXCEPT ![active] =
                         [docs[active] EXCEPT !.alive = docs[active].alive \ {n}, !.icon = docs[active].icon \ {n}]]
  BY Zenon DEF DeleteLayer, Here
<1>3. PICK x : x = docs[active].alive \ {n}
  OBVIOUS
<1>4. PICK y : y = docs[active].icon \ {n}
  OBVIOUS
<1>5. docs' = [docs EXCEPT ![active] = [docs[active] EXCEPT !.alive = x, !.icon = y]]
  BY <1>2, <1>3, <1>4, Zenon
<1>6. /\ docs' = [d \in Docs |-> docs'[d]] /\ \A d \in Docs : IsDoc(docs'[d])
      /\ docs'[active].next = docs[active].next /\ docs'[active].alive = x
      /\ docs'[active].list = docs[active].list /\ docs'[active].instances = docs[active].instances
      /\ docs'[active].containers = docs[active].containers
      /\ \A d \in Docs \ {active} : docs'[d] = docs[d]
  BY <1>1, <1>5, DeletingEffect, Zenon
<1>7. /\ docs'[active].next \in Nat \ {0} /\ docs'[active].alive \subseteq 1..MaxNode
      /\ docs'[active].alive \subseteq docs[active].alive
  BY <1>3, <1>6, StageFacts, Zenon
<1>8. DocTypes' /\ SameLists
  BY <1>1, <1>6, <1>7, KeptDocs, Zenon
<1>9. rows'.doc \in Docs /\ rows'.list \in Seq(Record) /\ acts' \in {acts, acts + 1} /\ active' \in Docs
  BY <1>1, Zenon DEF StageTypes
<1>10. /\ IsOp(op)' /\ op'.what = op.what /\ op'.name = op.name /\ op'.key = op.key /\ op'.plan = op.plan
       /\ op'.data = op.data /\ op'.doc = op.doc /\ op'.ids = op.ids /\ op'.todo = op.todo
       /\ op'.steady \in {op.steady, FALSE} /\ op'.late = op.late
  <2>1. IsOp(op)
    BY StageFacts
  <2> QED
    BY <1>1, <2>1, Zenon DEF IsOp
<1>11. UNCHANGED <<host, granted, calm>> /\ active' = active
  BY <1>1, Zenon
<1> QED
  BY <1>1, <1>7, <1>8, <1>9, <1>10, <1>11, UserInv, Zenon

\* Every step keeps the invariant, and only writes change a list.
LEMMA StagingStep ==
  ASSUME FormInv, StagingInv, [StagingNext]_stagingVars
  PROVE  StagingInv' /\ (SameLists \/ Write \/ Default)
<1> USE DEF StagingInv
<1>1. op.plan = <<>> \/ ~Idle
  BY UserFacts
<1>2. acts \in 0..MaxActs
  BY DEF StageTypes
<1>3. CASE Step
  <2>1. CASE Fail
    BY <2>1, RaiseInv DEF Fail
  <2> QED
    BY <1>3, <2>1, ExistsInv, MakeInv, ItemsInv, CountStep, ReadStep, DefaultStep, IdsInv, WriteStep, RenameStep, DeleteStep,
       DoneStep DEF Step
<1>4. CASE OpenCreator \/ Confirm \/ CloseCreator \/ CloseManager \/ UNCHANGED stagingVars
  <2>1. UNCHANGED <<host, granted, docs, active, op, calm>> /\ acts' = acts /\ rows' \in {rows, NoRows}
    BY <1>4 DEF OpenCreator, Confirm, CloseCreator, CloseManager, stagingVars, stageVars
  <2> QED
    BY <1>2, <2>1, QuietInv, Zenon
<1>5. CASE Edit
  <2>1. UNCHANGED <<host, granted, docs, active, op, calm>> /\ rows' = rows /\ Act
    BY <1>5 DEF Edit
  <2>2. acts' = acts + 1 /\ acts' \in 0..MaxActs
    BY <2>1, UserFacts
  <2> QED
    BY <2>1, <2>2, QuietInv, Zenon
<1>6. CASE OpenManager \/ PressRefresh
  <2>1. Idle /\ Refresh /\ UNCHANGED <<host, granted, active, docs, acts, calm>>
    BY <1>6 DEF OpenManager, PressRefresh, MayOpen
  <2> QED
    BY <1>1, <2>1, RefreshInv
<1> QED
  BY <1>3, <1>4, <1>5, <1>6, CreateStep, LoadStep, RemoveStep, SwitchStep, DeleteLayerStep DEF StagingNext

\* A section that was never written has no records.
LEMMA NothingStored == Records(EmptySection) = <<>> /\ Whole(Record, EmptySection)
<1>1. EmptySection.old = <<>> /\ EmptySection.count = 0
  BY DEF EmptySection
<1>2. SectionText(EmptySection) = <<>>
  BY <1>1, NoChunks DEF SectionText
<1> QED
  BY <1>1, <1>2, NoChunks, Unparsed, WholeEmpty

\* What a document has at the start, in each form of its section.
LEMMA FirstText ==
  ASSUME NEW list \in Seq(Record), Len(list) = 1, NEW text1, text1 \in {Dump(list), SubSeq(Dump(list), 1, Width)},
         NEW section, section = [EmptySection EXCEPT !.old = text1]
  PROVE  Records(section) \in {list, <<>>} /\ Whole(Record, section)
<1>1. /\ Dump(list) \in Seq((Record \cup {Blank}) \X Nat) /\ Len(Dump(list)) = Width * Len(list) + 2
      /\ Listed(Dump(list)) = list /\ Parses(Dump(list))
  BY Listing
<1>2. section.old = text1 /\ section.chunk = EmptySection.chunk /\ section.count = 0
  BY DEF EmptySection
<1>3. Width \in Nat \ {0}
  BY MetadataAssumption
<1>4. Len(text1) \in {Width, Width + 2} /\ (text1 # Dump(list) => Len(text1) = Width)
  <2>1. Len(Dump(list)) = Width + 2
    BY <1>1, <1>3
  <2>2. Len(SubSeq(Dump(list), 1, Width)) = Width
    <3>1. PICK words \in Seq((Record \cup {Blank}) \X Nat) : words = Dump(list)
      BY <1>1
    <3>2. Len(words) = Width + 2
      BY <2>1, <3>1
    <3> HIDE <1>1
    <3>3. Len(SubSeq(words, 1, Width)) = Width
      BY <1>3, <3>2
    <3> QED
      BY <3>1, <3>3
  <2> QED
    BY <2>1, <2>2
<1>5. text1 # <<>>
  BY <1>3, <1>4
<1>6. SectionText(section) = text1
  BY <1>2, <1>5 DEF SectionText
<1>7. text1 = Dump(list) => Records(section) = list
  BY <1>1, <1>6 DEF Records
<1>8. Len(text1) = Width => Listed(text1) = <<>>
  <2>1. (Width - 2) \div Width \in {0, -1}
    <3>1. CASE Width = 1
      BY <3>1
    <3>2. CASE Width >= 2
      BY <1>3, <3>2
    <3> QED
      BY <1>3, <3>1, <3>2
  <2>2. ASSUME Len(text1) = Width
        PROVE  1..((Len(text1) - 2) \div Width) = {}
    BY <2>1, <2>2
  <2> QED
    BY <2>2 DEF Listed
<1>9. Whole(Record, section)
  BY <1>2, WholeEmpty
<1> QED
  BY <1>4, <1>6, <1>7, <1>8, <1>9 DEF Records

\* What a document is made of at the start.
Sound(o) == /\ IsDoc(o) /\ o.next \in Nat \ {0} /\ o.list \in Seq(Record) /\ o.alive \subseteq 1..MaxNode
            /\ Fits(Records(o.instances), 1) /\ Fits(Records(o.containers), 1)
            /\ Whole(Record, o.instances) /\ Whole(Record, o.containers)

\* Its one record has the first number, and its layer the icon.
LEMMA FirstDocument ==
  ASSUME NEW d \in Docs, NEW h \in Hosts, NEW recorded \in BOOLEAN, NEW form \in {"chunks", "whole", "cut"},
         NEW o, o = Doc(h, d, recorded, form)
  PROVE  /\ Sound(o)
         /\ o.next = 2 /\ o.alive = {1}
         /\ o.list = (IF recorded /\ h # "tvpaint" THEN <<Rec("instance", Key(h, d, 1), OldName[d])>> ELSE <<>>)
         /\ o.icon = (IF recorded /\ h = "photoshop" THEN {1} ELSE {})
         /\ Records(o.instances) \in {<<>>, <<Rec("instance", Key(h, d, 1), OldName[d])>>} /\ Records(o.containers) = <<>>
<1>1. PICK r : r = Rec("instance", Key(h, d, 1), OldName[d])
  OBVIOUS
<1>2. r \in Record
  <2>1. PICK k : k = Key(h, d, 1)
    OBVIOUS
  <2>2. k \in Nat
    <3>1. d - 1 \in Nat /\ MaxNode \in Nat
      BY StagingAssumption
    <3>2. (d - 1) * MaxNode \in Nat
      BY <3>1
    <3> QED
      BY <2>1, <3>2 DEF Key
  <2>3. OldName[d] \in Names
    BY DEF Names
  <2> QED
    BY <1>1, <2>1, <2>2, <2>3 DEF Rec, Record
<1>3. PICK list : list = IF recorded THEN <<r>> ELSE <<>>
  OBVIOUS
<1>4. list \in Seq(Record) /\ Len(list) <= 1 /\ (recorded => Len(list) = 1) /\ <<>> \in Seq(Record)
  BY <1>2, <1>3
<1>5. PICK section : section =
        IF h # "tvpaint" \/ ~recorded THEN EmptySection
        ELSE IF form = "chunks" THEN Store(EmptySection, list)
        ELSE [EmptySection EXCEPT !.old = IF form = "whole" THEN Dump(list) ELSE SubSeq(Dump(list), 1, Width)]
  OBVIOUS
<1>6. PICK names : names = [n \in 1..MaxNode |-> IF n = 1 THEN OldName[d] ELSE NoName]
  OBVIOUS
<1>7. PICK icon : icon = IF recorded /\ h = "photoshop" THEN {1} ELSE {}
  OBVIOUS
<1>8. PICK listed : listed = IF h = "tvpaint" THEN <<>> ELSE list
  OBVIOUS
<1>9. o = Document(names, 2, {1}, icon, listed, section, EmptySection)
  BY <1>1, <1>3, <1>5, <1>6, <1>7, <1>8, Zenon DEF Doc, Document
<1>10. /\ o.name = names /\ o.next = 2 /\ o.alive = {1} /\ o.icon = icon /\ o.list = listed
       /\ o.instances = section /\ o.containers = EmptySection
  BY <1>9 DEF Document
<1>11. IsDoc(o)
  BY <1>9, <1>10, Zenon DEF IsDoc
<1>12. listed \in Seq(Record) /\ {1} \subseteq 1..MaxNode /\ 2 \in Nat \ {0}
  BY <1>4, <1>8, StagingAssumption
<1>13. Fits(<<>>, 1) /\ Fits(list, 1)
  BY <1>4 DEF Fits
<1>14. Records(section) \in {list, <<>>} /\ Whole(Record, section)
  <2>1. CASE h # "tvpaint" \/ ~recorded
    BY <1>5, <2>1, NothingStored
  <2>2. CASE recorded /\ h = "tvpaint" /\ form = "chunks"
    <3>1. Fits(list, MaxActs + 1)
      BY <1>4, StagingAssumption DEF Fits
    <3> QED
      BY <1>5, <2>2, <3>1, Stores, NothingStored
  <2>3. CASE recorded /\ h = "tvpaint" /\ form # "chunks"
    <3>1. PICK text1 : text1 = IF form = "whole" THEN Dump(list) ELSE SubSeq(Dump(list), 1, Width)
      OBVIOUS
    <3>2. section = [EmptySection EXCEPT !.old = text1] /\ text1 \in {Dump(list), SubSeq(Dump(list), 1, Width)}
      BY <1>5, <2>3, <3>1
    <3>3. Records(section) \in {list, <<>>} /\ Whole(Record, section)
      BY <1>4, <2>3, <3>2, FirstText
    <3> QED
      BY <3>3
  <2> QED
    BY <2>1, <2>2, <2>3
<1>15. Fits(Records(section), 1) /\ Records(section) \in {<<>>, <<r>>} /\ Whole(Record, section)
  BY <1>3, <1>13, <1>14
<1>16. listed = IF recorded /\ h # "tvpaint" THEN <<r>> ELSE <<>>
  BY <1>3, <1>8
<1>17. Sound(o)
  BY <1>10, <1>11, <1>12, <1>13, <1>15, NothingStored, Zenon DEF Sound
<1> QED
  BY <1>1, <1>7, <1>10, <1>15, <1>16, <1>17, NothingStored, Zenon

\* The first state.
LEMMA StagingInitial ==
  ASSUME StagingInit
  PROVE  FormInv /\ StagingInv
<1>1. FormInv
  BY DEF StagingInit, InitForm, FormInv, ReadyMatches
<1>2. /\ host \in Hosts /\ granted \in BOOLEAN /\ (granted \/ host = "tvpaint")
      /\ active = 1 /\ rows = NoRows /\ op = NoOp /\ calm = TRUE /\ acts = 0
  BY DEF StagingInit
<1>3. PICK recorded \in BOOLEAN, form \in {"chunks", "whole", "cut"} :
        docs = [d \in Docs |-> Doc(host, d, recorded, form)]
  BY DEF StagingInit
<1>4. docs = [d \in Docs |-> docs[d]] /\ \A d \in Docs : docs[d] = Doc(host, d, recorded, form)
  BY <1>3
<1>5. ASSUME NEW d \in Docs
      PROVE  /\ IsDoc(docs[d]) /\ docs[d].next \in Nat \ {0} /\ docs[d].list \in Seq(Record)
             /\ docs[d].alive \subseteq 1..MaxNode
             /\ Fits(Records(docs[d].instances), 1) /\ Fits(Records(docs[d].containers), 1)
             /\ Whole(Record, docs[d].instances) /\ Whole(Record, docs[d].containers)
  <2>1. PICK o : o = docs[d]
    OBVIOUS
  <2>2. o = Doc(host, d, recorded, form) /\ host \in Hosts
    BY <1>2, <1>4, <2>1
  <2>3. \A h \in Hosts : o = Doc(h, d, recorded, form) => Sound(o)
    BY FirstDocument
  <2>4. Sound(o)
    BY <2>2, <2>3, Zenon
  <2> QED
    BY <2>1, <2>4, Zenon DEF Sound
<1>6. DocTypes
  BY <1>4, <1>5, Zenon DEF DocTypes
<1>7. /\ IsOp(op) /\ op.what = "none" /\ op.name = NoName /\ op.key = NoKey /\ op.plan = <<>>
      /\ op.data = <<>> /\ op.doc = 1 /\ op.ids = {} /\ op.todo = {} /\ op.steady = TRUE /\ op.late = FALSE
  BY <1>2, NoOpFields, Zenon
<1>8. /\ "none" \in Works /\ NoName \in Names /\ NoKey \in Nat /\ <<>> \in Seq(Record) /\ 1 \in Docs
      /\ TRUE \in BOOLEAN /\ FALSE \in BOOLEAN /\ "none" \notin Making /\ <<>> \notin Held /\ <<>> # <<"write">>
      /\ <<>> \notin Defaulting /\ <<>> \notin Counted
  BY StagingAssumption DEF Works, Names, NoKey, Making, Held, Defaulting, Counted
<1>9. OpTypes
  BY <1>7, <1>8, Zenon DEF OpTypes
<1>10. rows.doc \in Docs /\ rows.list \in Seq(Record)
  BY <1>2, <1>8 DEF NoRows
<1>11. acts \in 0..MaxActs /\ calm \in BOOLEAN /\ active \in Docs
  BY <1>2, StagingAssumption
<1>12. StageTypes
  BY <1>2, <1>6, <1>9, <1>10, <1>11, Zenon DEF StageTypes
<1>13. PlanInv
  <2>1. PlanFor("none", <<>>)
    BY <1>2, <1>8, PlanDone
  <2> QED
    BY <1>7, <2>1, Zenon DEF PlanInv
<1>14. ReadInv
  <2>1. Quota = 1
    <3>1. Quota = acts + 1
      BY <1>7, <1>8, Zenon DEF Quota
    <3> QED
      BY <1>2, <3>1
  <2>2. Fits(op.data, 1)
    BY <1>7 DEF Fits
  <2> QED
    BY <1>5, <1>7, <1>8, <2>1, <2>2, Zenon DEF ReadInv
<1>15. ChunksInv
  BY <1>5, Zenon DEF ChunksInv
<1> QED
  BY <1>1, <1>12, <1>13, <1>14, <1>15 DEF StagingInv

\* The records of two lists, one after the other.
LEMMA Joined ==
  ASSUME NEW R, NEW a \in Seq(R), NEW b \in Seq(R)
  PROVE  Elements(a \o b) = Elements(a) \cup Elements(b)
<1>1. PICK m \in Nat : m = Len(a) /\ DOMAIN a = 1..m
  OBVIOUS
<1>2. PICK n \in Nat : n = Len(b) /\ DOMAIN b = 1..n
  OBVIOUS
<1>3. PICK c : c = a \o b
  OBVIOUS
<1>4. DOMAIN c = 1..(m + n) /\ \A i \in 1..(m + n) : c[i] = IF i <= m THEN a[i] ELSE b[i - m]
  BY <1>1, <1>2, <1>3
<1>5. ASSUME NEW i \in 1..(m + n)
      PROVE  c[i] \in Elements(a) \cup Elements(b)
  <2>1. CASE i <= m
    BY <1>1, <1>4, <2>1 DEF Elements
  <2>2. CASE m < i
    <3>1. i - m \in 1..n
      BY <2>2
    <3>2. c[i] = b[i - m]
      BY <1>4, <2>2
    <3> QED
      BY <1>2, <3>1, <3>2 DEF Elements
  <2> QED
    BY <2>1, <2>2
<1>6. ASSUME NEW i \in 1..m
      PROVE  a[i] \in Elements(c)
  <2>1. i \in 1..(m + n) /\ c[i] = a[i]
    BY <1>4
  <2> QED
    BY <1>4, <2>1 DEF Elements
<1>7. ASSUME NEW i \in 1..n
      PROVE  b[i] \in Elements(c)
  <2>1. m + i \in 1..(m + n) /\ ~(m + i <= m) /\ (m + i) - m = i
    OBVIOUS
  <2>2. c[m + i] = b[i]
    BY <1>4, <2>1
  <2> QED
    BY <1>4, <2>1, <2>2 DEF Elements
<1>8. Elements(c) \subseteq Elements(a) \cup Elements(b)
  BY <1>4, <1>5 DEF Elements
<1>9. Elements(a) \subseteq Elements(c)
  BY <1>1, <1>6 DEF Elements
<1>10. Elements(b) \subseteq Elements(c)
  BY <1>2, <1>7 DEF Elements
<1> QED
  BY <1>3, <1>8, <1>9, <1>10

\* The records of a document, in both sections or in one list.
LEMMA StoredElements ==
  ASSUME StagingInv, NEW d \in Docs
  PROVE  Elements(Stored(d)) = IF host = "tvpaint"
                               THEN Elements(Records(docs[d].instances)) \cup Elements(Records(docs[d].containers))
                               ELSE Elements(docs[d].list)
<1>1. CASE host = "tvpaint"
  <2>1. Records(docs[d].instances) \in Seq(Record) /\ Records(docs[d].containers) \in Seq(Record)
    BY <1>1, Zenon DEF StagingInv, ReadInv, Fits
  <2>2. Stored(d) = Records(docs[d].instances) \o Records(docs[d].containers)
    BY <1>1 DEF Stored
  <2>3. Elements(Records(docs[d].instances) \o Records(docs[d].containers)) =
          Elements(Records(docs[d].instances)) \cup Elements(Records(docs[d].containers))
    BY <2>1, Joined
  <2> QED
    BY <1>1, <2>2, <2>3, Zenon
<1>2. CASE host # "tvpaint"
  BY <1>2 DEF Stored
<1> QED
  BY <1>1, <1>2

\* The host is what it is, and so is its permission.
LEMMA HostStays ==
  ASSUME StagingNext
  PROVE  host' = host /\ granted' = granted
<1>1. CASE Step
  BY <1>1 DEF Step, Exists, Make, Items, Count, Read, Default, Ids, Write, Rename, DeleteNode, Fail, Done, stepVars
<1> QED
  BY <1>1 DEF StagingNext, OpenCreator, Edit, Confirm, Create, Load, OpenManager, PressRefresh,
     RemoveRow, CloseCreator, CloseManager, SwitchDocument, DeleteLayer, stageVars

\* A write of a list that is still the document's loses no record but those it
\* may lose.
LEMMA WriteKeeps ==
  ASSUME StagingInv, StagingInv', Write, docs' # docs, op.steady, NEW d \in Docs, NEW r \in Elements(Stored(d))
  PROVE  \/ r \in Elements(Stored(d)')
         \/ d = active /\ (r.key = op.key \/ (host # "tvpaint" /\ r.key \notin docs[d].alive))
<1> USE DEF StagingInv
<1>1. /\ At("write") /\ host' = host /\ active \in Docs /\ op.what \in Works /\ host \in Hosts
      /\ docs' = IF host = "tvpaint" THEN [docs EXCEPT ![active][Section] = Store(@, Written)]
                 ELSE [docs EXCEPT ![active].list = Written]
  BY StageFacts DEF Write, stepVars
<1>2. /\ op.plan \in Held /\ op.what \in Making \cup {"remove"} /\ (op.what \in Making => op.plan = <<"write">>)
  BY <1>1, AtWrite
<1>3. op.data = Source(active)
  BY <1>2 DEF ReadInv
<1>4. Elements(Stored(d)') = IF host = "tvpaint"
                             THEN Elements(Records(docs'[d].instances)) \cup Elements(Records(docs'[d].containers))
                             ELSE Elements(docs'[d].list)
  <2>1. (Elements(Stored(d)) = IF host = "tvpaint"
                               THEN Elements(Records(docs[d].instances)) \cup Elements(Records(docs[d].containers))
                               ELSE Elements(docs[d].list))'
    BY StoredElements, PTL
  <2> QED
    BY <1>1, <2>1, Zenon DEF Elements
<1>5. CASE d # active
  <2>1. docs'[d] = docs[d]
    BY <1>1, <1>5, WriteDocs, Zenon
  <2> QED
    BY <1>4, <2>1, StoredElements, Zenon
<1>6. ASSUME r \in Elements(op.data)
      PROVE  r \in Elements(Written) \/ r.key = op.key \/ (host # "tvpaint" /\ r.key \notin docs[active].alive)
  <2>1. \/ r \in Elements(Written) \/ r.key = op.key
        \/ op.what # "remove" /\ host \in {"photoshop", "aftereffects"} /\ r.key \notin op.ids
    BY <1>2, <1>6, WrittenList, Zenon
  <2>2. op.what # "remove" /\ host \in {"photoshop", "aftereffects"} => docs[active].alive \subseteq op.ids
    BY <1>2, Zenon DEF ReadInv
  <2>3. host \in {"photoshop", "aftereffects"} => host # "tvpaint"
    OBVIOUS
  <2> QED
    BY <2>1, <2>2, <2>3, Zenon
<1>7. CASE d = active /\ host # "tvpaint"
  <2>1. docs'[active].list = Written
    BY <1>1, <1>7, WriteDocs, Zenon
  <2>2. Elements(Stored(d)) = Elements(op.data)
    BY <1>3, <1>7, StoredElements, Zenon DEF Source
  <2> QED
    BY <1>4, <1>6, <1>7, <2>1, <2>2, Zenon
<1>8. CASE d = active /\ host = "tvpaint" /\ Section = "instances"
  <2>1. Records(docs'[active].instances) = Written /\ docs'[active].containers = docs[active].containers
    <3>1. Records(docs'[active][Section]) = Written /\ docs'[active].containers = docs[active].containers
      BY <1>1, <1>8, WriteDocs, Zenon
    <3>2. docs'[active][Section] = docs'[active].instances
      BY <1>8
    <3> QED
      BY <3>1, <3>2, Zenon
  <2>2. op.data = Records(docs[active].instances)
    BY <1>3, <1>8 DEF Source
  <2>3. Elements(Stored(d)) = Elements(op.data) \cup Elements(Records(docs[active].containers))
    BY <1>8, <2>2, StoredElements, Zenon
  <2>4. Elements(Stored(d)') = Elements(Written) \cup Elements(Records(docs[active].containers))
    BY <1>4, <1>8, <2>1, Zenon
  <2> QED
    BY <1>6, <1>8, <2>3, <2>4, Zenon
<1>9. CASE d = active /\ host = "tvpaint" /\ Section = "containers"
  <2>1. Records(docs'[active].containers) = Written /\ docs'[active].instances = docs[active].instances
    <3>1. Records(docs'[active][Section]) = Written /\ docs'[active].instances = docs[active].instances
      BY <1>1, <1>9, WriteDocs, Zenon
    <3>2. docs'[active][Section] = docs'[active].containers
      BY <1>9
    <3> QED
      BY <3>1, <3>2, Zenon
  <2>2. op.data = Records(docs[active].containers)
    BY <1>3, <1>9 DEF Source
  <2>3. Elements(Stored(d)) = Elements(Records(docs[active].instances)) \cup Elements(op.data)
    BY <1>9, <2>2, StoredElements, Zenon
  <2>4. Elements(Stored(d)') = Elements(Records(docs[active].instances)) \cup Elements(Written)
    BY <1>4, <1>9, <2>1, Zenon
  <2> QED
    BY <1>6, <1>9, <2>3, <2>4, Zenon
<1> QED
  BY <1>5, <1>7, <1>8, <1>9 DEF Section

\* TVPaint's default replaces a section that has no records.
LEMMA DefaultKeeps ==
  ASSUME StagingInv, StagingInv', Default, op.steady, NEW d \in Docs
  PROVE  Elements(Stored(d)') = Elements(Stored(d))
<1> USE DEF StagingInv
<1>1. /\ host = "tvpaint" /\ Source(active) = <<>> /\ active \in Docs
      /\ \A e \in Docs \ {active} : docs'[e] = docs[e]
      /\ \/ /\ Section = "instances" /\ Records(docs'[active].instances) = <<>>
            /\ docs'[active].containers = docs[active].containers
         \/ /\ Section = "containers" /\ Records(docs'[active].containers) = <<>>
            /\ docs'[active].instances = docs[active].instances
  BY DefaultStep, StageFacts
<1>2. /\ Records(docs'[d].instances) = Records(docs[d].instances)
      /\ Records(docs'[d].containers) = Records(docs[d].containers)
  <2>1. CASE d # active
    BY <1>1, <2>1, Zenon
  <2>2. CASE d = active /\ Section = "instances"
    <3>1. Records(docs[active].instances) = <<>>
      BY <1>1, <2>2 DEF Source
    <3> QED
      BY <1>1, <2>2, <3>1
  <2>3. CASE d = active /\ Section = "containers"
    <3>1. Records(docs[active].containers) = <<>>
      BY <1>1, <2>3 DEF Source
    <3> QED
      BY <1>1, <2>3, <3>1
  <2> QED
    BY <1>1, <2>1, <2>2, <2>3
<1>3. host' = host
  BY DEF Default, stepVars
<1>4. Stored(d) = Records(docs[d].instances) \o Records(docs[d].containers)
  BY <1>1 DEF Stored
<1>5. Stored(d)' = Records(docs'[d].instances) \o Records(docs'[d].containers)
  BY <1>1, <1>3 DEF Stored
<1>6. Stored(d)' = Stored(d)
  BY <1>2, <1>4, <1>5, Zenon
<1> QED
  BY <1>6, Zenon DEF Elements

\* While its document stays active and could be read, an operation drops or
\* changes no record but its own and those of deleted layers.
THEOREM RecordsAreKept == StagingSpec => Kept
<1> DEFINE KeepsRecords ==
      op.steady /\ docs' # docs =>
        \A d \in Docs : \A i \in DOMAIN Stored(d) :
          LET r == Stored(d)[i] IN
          \/ r \in {Stored(d)'[j] : j \in DOMAIN Stored(d)'}
          \/ /\ d = active
             /\ r.key = op.key \/ (host # "tvpaint" /\ r.key \notin docs[d].alive)
<1>1. StagingInit => FormInv /\ StagingInv
  BY StagingInitial
<1>2. FormInv /\ StagingInv /\ [StagingNext]_stagingVars => FormInv' /\ StagingInv'
  <2>1. ASSUME FormInv, [StagingNext]_stagingVars
        PROVE  FormInv'
    <3>1. CASE StagingNext
      BY <2>1, <3>1, FormKept, FormSteps
    <3>2. CASE UNCHANGED stagingVars
      BY <2>1, <3>2, FormKept DEF stagingVars
    <3> QED
      BY <2>1, <3>1, <3>2
  <2> QED
    BY <2>1, StagingStep
<1>3. FormInv /\ StagingInv /\ StagingInv' /\ [StagingNext]_stagingVars => [KeepsRecords]_stagingVars
  <2> SUFFICES ASSUME FormInv, StagingInv, StagingInv', StagingNext, op.steady, docs' # docs,
                      NEW d \in Docs, NEW i \in DOMAIN Stored(d)
               PROVE  LET r == Stored(d)[i] IN
                      \/ r \in {Stored(d)'[j] : j \in DOMAIN Stored(d)'}
                      \/ /\ d = active
                         /\ r.key = op.key \/ (host # "tvpaint" /\ r.key \notin docs[d].alive)
    OBVIOUS
  <2>1. PICK r : r = Stored(d)[i]
    OBVIOUS
  <2>2. r \in Elements(Stored(d))
    BY <2>1 DEF Elements
  <2>3. \/ r \in Elements(Stored(d)')
        \/ d = active /\ (r.key = op.key \/ (host # "tvpaint" /\ r.key \notin docs[d].alive))
    <3>1. CASE Write
      BY <2>2, <3>1, WriteKeeps, Zenon
    <3>2. CASE SameLists
      <4>1. Stored(d)' = Stored(d)
        BY <3>2, HostStays, Zenon DEF Stored, SameLists
      <4> QED
        BY <2>2, <4>1, Zenon
    <3>3. CASE Default
      BY <2>2, <3>3, DefaultKeeps, Zenon
    <3> QED
      BY <3>1, <3>2, <3>3, StagingStep
  <2> QED
    BY <2>1, <2>3, Zenon DEF Elements
<1> QED
  BY <1>1, <1>2, <1>3, PTL DEF StagingSpec, Kept

-----------------------------------------------------------------------------
(* The Subset Manager.                                                     *)

\* Only TVPaint shows the Manager beside a Creator or a loader at work.
Apart ==
  /\ host # "tvpaint" => "creator" \notin open \/ "manager" \notin open
  /\ host # "tvpaint" /\ op.what \in Making => "manager" \notin open

\* Where reads are forbidden nothing is read.
Blind == ~granted => rows.list = <<>> /\ op.data = <<>>

\* The rows are records of their document, but while one is being removed.
RowsHold ==
  calm /\ ~(op.what = "remove" /\ op.late) /\ "manager" \in open =>
    Elements(rows.list) \subseteq Elements(Stored(rows.doc))

\* So is what a refresh has read.
ListHolds ==
  calm /\ op.what = "list" /\ op.plan = <<>> => Elements(op.data) \subseteq Elements(Stored(op.doc))

\* TVPaint's records have the numbers given out so far, ...
Given(d, key) == \E n \in 1..(docs[d].next - 1) : key = Key(host, d, n)
Numbered ==
  host = "tvpaint" /\ calm => \A d \in Docs : \A r \in Elements(Stored(d)) : Given(d, r.key)

\* ... and the one about to be written has a number no other has.
NewNumber ==
  host = "tvpaint" /\ calm /\ op.steady /\ op.what \in Making /\ op.plan # <<>> =>
    /\ Given(active, op.key)
    /\ \A r \in Elements(Stored(active)) : r.key # op.key
ManagerInv == Apart /\ Blind /\ RowsHold /\ ListHolds /\ Numbered /\ NewNumber

NumbersGrow == host = "tvpaint" => \A d \in Docs : docs'[d].next \in {docs[d].next, docs[d].next + 1}

\* A number once given out stays given.
LEMMA GivenStays ==
  ASSUME StageTypes, NumbersGrow, host = "tvpaint", host' = host, NEW d \in Docs, NEW key, Given(d, key)
  PROVE  Given(d, key)'
<1>1. PICK n \in 1..(docs[d].next - 1) : key = Key(host, d, n)
  BY DEF Given
<1>2. PICK x : x = docs[d].next
  OBVIOUS
<1>3. PICK y : y = docs'[d].next
  OBVIOUS
<1>4. x \in Nat
  BY <1>2, StageFacts DEF DocTypes
<1>5. y \in {x, x + 1}
  BY <1>2, <1>3 DEF NumbersGrow
<1>6. n \in 1..(y - 1)
  BY <1>1, <1>2, <1>4, <1>5
<1>7. key = Key(host', d, n)
  BY <1>1, Zenon
<1> QED
  BY <1>3, <1>6, <1>7, Zenon DEF Given

\* So does the number about to be written, which no record has.
LEMMA NumberStays ==
  ASSUME StagingInv, ManagerInv, NumbersGrow, host = "tvpaint", host' = host, active' = active, op'.key = op.key,
         calm, op.steady, op.what \in Making, op.plan # <<>>,
         \A d \in Docs : Elements(Stored(d)') = Elements(Stored(d)) \/ Stored(d)' = Stored(d)
  PROVE  Given(active, op.key)' /\ \A r \in Elements(Stored(active)') : r.key # op'.key
<1>1. Given(active, op.key) /\ \A r \in Elements(Stored(active)) : r.key # op.key
  BY Zenon DEF ManagerInv, NewNumber
<1>2. PICK d \in Docs : d = active
  BY StageFacts DEF StagingInv
<1>3. PICK key : key = op.key
  OBVIOUS
<1>4. Given(d, key)'
  BY <1>1, <1>2, <1>3, GivenStays, Zenon DEF StagingInv
<1>5. Given(active, op.key)'
  BY <1>2, <1>3, <1>4, Zenon DEF Given
<1>6. Stored(active)' = Stored(d)'
  BY <1>2, Zenon DEF Stored
<1>7. Elements(Stored(active)') = Elements(Stored(active))
  BY <1>2, <1>6, Zenon
<1> QED
  BY <1>1, <1>5, <1>7, Zenon

\* A step that leaves the lists alone.
LEMMA ManagerKept ==
  ASSUME StagingInv, ManagerInv, host' = host, granted' = granted, SameLists, NumbersGrow, calm' => calm,
         Apart', Blind', ListHolds', NewNumber',
         \/ rows'.list = <<>>
         \/ /\ rows' = rows /\ ("manager" \in open' => "manager" \in open)
            /\ calm' /\ op.what = "remove" /\ op.late => op'.what = "remove" /\ op'.late
  PROVE  ManagerInv'
<1>1. \A d \in Docs : Stored(d)' = Stored(d)
  BY Zenon DEF Stored, SameLists
<1>2. rows.doc \in Docs
  BY DEF StagingInv, StageTypes
<1>3. RowsHold'
  <2>1. CASE rows'.list = <<>>
    <3>1. Elements(<<>>) = {}
      BY DEF Elements
    <3>2. Elements(rows'.list) = {}
      BY <2>1, <3>1, Zenon
    <3> QED
      BY <3>2, Zenon DEF RowsHold
  <2>2. CASE /\ rows' = rows /\ ("manager" \in open' => "manager" \in open)
             /\ calm' /\ op.what = "remove" /\ op.late => op'.what = "remove" /\ op'.late
    BY <1>1, <1>2, <2>2, Zenon DEF RowsHold, ManagerInv
  <2> QED
    BY <2>1, <2>2
<1>4. Numbered'
  <2> SUFFICES ASSUME host = "tvpaint", calm, NEW d \in Docs, NEW r \in Elements(Stored(d))
               PROVE  Given(d, r.key)'
    BY <1>1, Zenon DEF Numbered
  <2>1. Given(d, r.key)
    BY DEF ManagerInv, Numbered
  <2> QED
    BY <2>1, GivenStays, Zenon DEF StagingInv
<1> QED
  BY <1>3, <1>4 DEF ManagerInv

\* The calls of a plan that only ask or change layers.
LEMMA CallManager ==
  ASSUME StagingInv, ManagerInv, SameLists, Called, UNCHANGED <<host, granted, active, open, rows>>
  PROVE  ManagerInv'
<1>1. /\ host' = host /\ granted' = granted /\ active' = active /\ open' = open /\ rows' = rows
  OBVIOUS
<1>2. /\ host # "tvpaint" /\ op.what # "list" /\ SameTask /\ op'.data = op.data
      /\ (op.late => op'.late) /\ (calm' => calm)
  BY DEF Called
<1>3. Apart'
  BY <1>1, <1>2, Zenon DEF Apart, ManagerInv, SameTask
<1>4. Blind'
  <2>1. ~granted => rows.list = <<>> /\ op.data = <<>>
    BY DEF Blind, ManagerInv
  <2> QED
    BY <1>1, <1>2, <2>1 DEF Blind
<1>5. ListHolds'
  BY <1>2, Zenon DEF ListHolds, SameTask
<1>6. NewNumber'
  BY <1>1, <1>2, Zenon DEF NewNumber
<1>7. NumbersGrow
  BY <1>2 DEF NumbersGrow
<1> QED
  BY <1>1, <1>2, <1>3, <1>4, <1>5, <1>6, <1>7, ManagerKept, Zenon DEF SameTask

\* An exception, and the start or the end of an operation.
LEMMA FreshManager ==
  ASSUME StagingInv, ManagerInv, host' = host, granted' = granted, SameLists, NumbersGrow, calm' => calm,
         op'.data = <<>>, op'.what \in {"none", "list", "remove"}, op'.what = "list" => op'.plan # <<>>,
         host # "tvpaint" => "creator" \notin open' \/ "manager" \notin open',
         ~granted => rows'.list = <<>>,
         \/ rows'.list = <<>>
         \/ /\ rows' = rows /\ ("manager" \in open' => "manager" \in open)
            /\ calm' => ~(op.what = "remove" /\ op.late)
  PROVE  ManagerInv'
<1>1. op'.what \notin Making
  BY DEF Making
<1>2. Apart' /\ Blind' /\ ListHolds' /\ NewNumber'
  BY <1>1, Zenon DEF Apart, Blind, ListHolds, NewNumber
<1> QED
  BY <1>2, ManagerKept, Zenon

\* A failed call.
LEMMA RaiseManager ==
  ASSUME StagingInv, ManagerInv, Raise, UNCHANGED <<stepVars, docs>>
  PROVE  ManagerInv'
<1>1. /\ op'.data = <<>> /\ op'.what = "none" /\ calm' = (calm /\ ~op.late)
  BY RaiseEffect
<1>2. /\ host' = host /\ granted' = granted /\ active' = active /\ open' = open /\ rows' = rows /\ docs' = docs
  BY DEF stepVars
<1>3. SameLists
  BY <1>2, Zenon DEF SameLists
<1>4. NumbersGrow
  BY <1>2 DEF NumbersGrow
<1>5. /\ host # "tvpaint" => "creator" \notin open' \/ "manager" \notin open'
      /\ ~granted => rows'.list = <<>>
  BY <1>2, Zenon DEF ManagerInv, Apart, Blind
<1> QED
  BY <1>1, <1>2, <1>3, <1>4, <1>5, FreshManager, Zenon

\* The calls of a plan.
LEMMA CallsManager ==
  ASSUME StagingInv, ManagerInv, Exists \/ Make \/ Items \/ Ids \/ Rename \/ DeleteNode
  PROVE  ManagerInv'
<1> USE DEF StagingInv
<1>1. UNCHANGED stepVars
  BY DEF Exists, Make, Items, Ids, Rename, DeleteNode
<1>2. UNCHANGED <<host, granted, active, open, rows>>
  BY <1>1 DEF stepVars
<1>3. SameLists /\ ((Raise /\ docs' = docs) \/ Called)
  BY ExistsInv, MakeInv, ItemsInv, IdsInv, RenameStep, DeleteStep
<1>4. CASE Called
  BY <1>2, <1>3, <1>4, CallManager
<1>5. CASE Raise /\ docs' = docs
  BY <1>1, <1>5, RaiseManager
<1> QED
  BY <1>3, <1>4, <1>5

\* The list an operation reads is part of what is stored.
LEMMA SourceStored ==
  ASSUME StagingInv
  PROVE  Elements(Source(active)) \subseteq Elements(Stored(active))
<1>1. active \in Docs /\ Section \in {"containers", "instances"}
  BY StageFacts DEF StagingInv
<1>2. CASE host # "tvpaint"
  BY <1>1, <1>2, StoredElements DEF Source
<1>3. CASE host = "tvpaint"
  <2>1. Elements(Stored(active)) =
          Elements(Records(docs[active].instances)) \cup Elements(Records(docs[active].containers))
    BY <1>1, <1>3, StoredElements
  <2>2. Source(active) \in {Records(docs[active].instances), Records(docs[active].containers)}
    BY <1>1, <1>3, SectionRead DEF Source
  <2> QED
    BY <2>1, <2>2
<1> QED
  BY <1>2, <1>3

\* A list is found.
LEMMA FindManager ==
  ASSUME StagingInv, ManagerInv, UNCHANGED stepVars, docs' = docs, NEW rest, Finding(rest), op.plan # <<>>
  PROVE  ManagerInv'
<1> USE DEF StagingInv
<1>1. /\ host' = host /\ granted' = granted /\ active' = active /\ open' = open /\ rows' = rows
      /\ active \in Docs /\ IsOp(op)
  BY StageFacts DEF stepVars
<1>2. PICK list, steady, plan : Finds(list, steady, plan, rest)
  BY DEF Finding
<1>3. /\ op'.what = op.what /\ op'.key = op.key /\ op'.steady = steady /\ op'.data = list
      /\ op'.doc = active /\ op'.late = op.late
  BY <1>1, <1>2, FoundOp, Zenon DEF Finds
<1>4. calm' = calm /\ (steady => op.steady) /\ (~granted => list = <<>>)
  BY <1>2, Zenon DEF Finds, Found
<1>5. SameLists /\ NumbersGrow
  <2>1. SameLists
    BY Zenon DEF SameLists
  <2>2. NumbersGrow
    BY DEF NumbersGrow
  <2> QED
    BY <2>1, <2>2
<1>6. \A d \in Docs : Stored(d)' = Stored(d)
  BY <1>1, <1>5, Zenon DEF Stored, SameLists
<1>7. Apart'
  BY <1>1, <1>3, Zenon DEF Apart, ManagerInv
<1>8. Blind'
  BY <1>1, <1>3, <1>4, Zenon DEF Blind, ManagerInv
<1>9. ListHolds'
  <2>1. Elements(list) \subseteq Elements(Stored(active))
    <3>1. CASE list = <<>>
      BY <3>1 DEF Elements
    <3>2. CASE list = Source(active)
      BY <3>2, SourceStored
    <3> QED
      BY <1>2, <3>1, <3>2 DEF Finds
  <2>2. PICK d \in Docs : d = active
    BY <1>1
  <2>3. Elements(list) \subseteq Elements(Stored(d)')
    BY <1>6, <2>1, <2>2, Zenon
  <2>4. op'.doc = d
    BY <1>3, <2>2
  <2>5. Stored(op.doc)' = Stored(d)'
    BY <2>4, Zenon DEF Stored
  <2> QED
    BY <1>3, <2>3, <2>5, Zenon DEF ListHolds
<1>10. NewNumber'
  <2> SUFFICES ASSUME host = "tvpaint", calm, op.steady, op.what \in Making
               PROVE  Given(active, op.key)' /\ \A r \in Elements(Stored(active)') : r.key # op'.key
    BY <1>1, <1>3, <1>4, Zenon DEF NewNumber
  <2> QED
    BY <1>1, <1>3, <1>5, <1>6, NumberStays, Zenon
<1> QED
  BY <1>1, <1>3, <1>4, <1>5, <1>7, <1>8, <1>9, <1>10, ManagerKept, Zenon

\* A list is asked for, ...
LEMMA CountManager ==
  ASSUME StagingInv, ManagerInv, Count
  PROVE  ManagerInv'
<1> USE DEF StagingInv
<1>1. /\ At("count") /\ UNCHANGED stepVars /\ docs' = docs /\ op.plan # <<>>
  BY DEF Count, At
<1>2. CASE Finding(Tail(Tail(op.plan)))
  BY <1>1, <1>2, FindManager
<1>3. CASE op' = [Next1(op) EXCEPT !.doc = active] /\ calm' = calm
  <2>1. /\ host' = host /\ granted' = granted /\ active' = active /\ open' = open /\ rows' = rows
        /\ active \in Docs /\ IsOp(op)
    BY <1>1, StageFacts DEF stepVars
  <2>2. /\ SameTask /\ op'.key = op.key /\ op'.plan = Tail(op.plan) /\ op'.data = op.data /\ op'.late = op.late
    BY <1>3, <2>1, CountedOp, Zenon
  <2>3. op'.what = op.what /\ op'.steady = op.steady
    BY <2>2 DEF SameTask
  <2>4. SameLists /\ NumbersGrow
    <3>1. SameLists
      BY <1>1, Zenon DEF SameLists
    <3>2. NumbersGrow
      BY <1>1 DEF NumbersGrow
    <3> QED
      BY <3>1, <3>2
  <2>5. Apart'
    BY <2>1, <2>3, Zenon DEF Apart, ManagerInv
  <2>6. Blind'
    BY <2>1, <2>2, Zenon DEF Blind, ManagerInv
  <2>7. ListHolds'
    <3>1. op.what = "list" => op'.plan # <<>>
      <4>1. op.what \in Works /\ host \in Hosts
        BY StageFacts
      <4>2. op.what = "list" => Tail(op.plan) = <<"read">>
        BY <1>1, <4>1, AtCount, Zenon
      <4> QED
        BY <2>2, <4>2
    <3> QED
      BY <2>3, <3>1, Zenon DEF ListHolds
  <2>8. NewNumber'
    <3> SUFFICES ASSUME host = "tvpaint", calm, op.steady, op.what \in Making
                 PROVE  Given(active, op.key)' /\ \A r \in Elements(Stored(active)') : r.key # op'.key
      BY <1>3, <2>1, <2>3, Zenon DEF NewNumber
    <3>1. \A d \in Docs : Stored(d)' = Stored(d)
      BY <2>1, <2>4, Zenon DEF Stored, SameLists
    <3> QED
      BY <1>1, <2>1, <2>2, <2>4, <3>1, NumberStays, Zenon
  <2> QED
    BY <1>3, <2>1, <2>2, <2>3, <2>4, <2>5, <2>6, <2>7, <2>8, ManagerKept, Zenon
<1> QED
  BY <1>2, <1>3, CountCases

\* ... and read.
LEMMA ReadManager ==
  ASSUME StagingInv, ManagerInv, Read
  PROVE  ManagerInv'
<1>1. /\ UNCHANGED stepVars /\ op.plan # <<>> /\ docs' = docs /\ (Raise \/ Finding(Tail(op.plan)))
  BY ReadCases DEF Read, At
<1>2. CASE Raise
  BY <1>1, <1>2, RaiseManager
<1>3. CASE Finding(Tail(op.plan))
  BY <1>1, <1>3, FindManager
<1> QED
  BY <1>1, <1>2, <1>3

\* The default takes the place of nothing.
LEMMA DefaultManager ==
  ASSUME StagingInv, StagingInv', ManagerInv, Default
  PROVE  ManagerInv'
<1> USE DEF StagingInv
<1>1. /\ host' = host /\ granted' = granted /\ active' = active /\ open' = open /\ rows' = rows
      /\ active \in Docs /\ op.plan # <<>> /\ calm' = (calm /\ op.steady)
  BY StageFacts DEF Default, stepVars, At
<1>2. /\ SameLayers /\ SameTask /\ op'.key = op.key /\ op'.data = <<>> /\ op'.late = op.late /\ host = "tvpaint"
  BY DefaultStep
<1>3. op'.what = op.what /\ op'.steady = op.steady
  BY <1>2 DEF SameTask
<1>4. NumbersGrow
  BY <1>2 DEF NumbersGrow, SameLayers
<1>5. op.steady => \A d \in Docs : Elements(Stored(d)') = Elements(Stored(d))
  BY DefaultKeeps, Zenon
<1>6. Apart'
  BY <1>1, <1>3, Zenon DEF Apart, ManagerInv
<1>7. Blind'
  BY <1>1, <1>2, Zenon DEF Blind, ManagerInv
<1>8. ListHolds'
  <2>1. Elements(op'.data) = {}
    BY <1>2 DEF Elements
  <2>2. \A set : Elements(op'.data) \subseteq set
    BY <2>1
  <2> QED
    BY <2>2, Zenon DEF ListHolds, Elements
<1>9. RowsHold'
  <2> SUFFICES ASSUME calm, op.steady, ~(op.what = "remove" /\ op.late), "manager" \in open
               PROVE  Elements(rows.list) \subseteq Elements(Stored(rows.doc)')
    BY <1>1, <1>2, <1>3, Zenon DEF RowsHold
  <2>1. PICK d \in Docs : d = rows.doc
    BY DEF StageTypes
  <2>2. Elements(rows.list) \subseteq Elements(Stored(d))
    BY <2>1, Zenon DEF ManagerInv, RowsHold
  <2>3. Stored(rows.doc)' = Stored(d)'
    BY <1>1, <2>1, Zenon DEF Stored
  <2> QED
    BY <1>5, <2>2, <2>3, Zenon
<1>10. Numbered'
  <2> SUFFICES ASSUME calm, op.steady, NEW d \in Docs, NEW r \in Elements(Stored(d)')
               PROVE  Given(d, r.key)'
    BY <1>1, Zenon DEF Numbered
  <2>1. Given(d, r.key)
    BY <1>2, <1>5, Zenon DEF ManagerInv, Numbered
  <2> QED
    BY <1>1, <1>2, <1>4, <2>1, GivenStays, Zenon
<1>11. NewNumber'
  <2> SUFFICES ASSUME calm, op.steady, op.what \in Making
               PROVE  Given(active, op.key)' /\ \A r \in Elements(Stored(active)') : r.key # op'.key
    BY <1>1, <1>3, Zenon DEF NewNumber
  <2> QED
    BY <1>1, <1>2, <1>4, <1>5, NumberStays, Zenon
<1> QED
  BY <1>6, <1>7, <1>8, <1>9, <1>10, <1>11 DEF ManagerInv

\* After the write of a list.
LEMMA NextWrite ==
  ASSUME StagingInv
  PROVE  \A n \in op.todo \cup {NoKey} :
           op' = [Next1(op) EXCEPT !.late = TRUE, !.todo = op.todo \ {n},
                    !.plan = IF op.todo \ {n} = {} THEN @ ELSE <<"read", "ids", "write">>] =>
             /\ SameTask /\ op'.key = op.key /\ op'.data = op.data /\ op'.late = TRUE
             /\ host # "aftereffects" => op'.plan = Tail(op.plan)
<1> USE DEF StagingInv
<1>1. IsOp(op) /\ (host # "aftereffects" => op.todo = {})
  BY StageFacts
<1>2. ASSUME NEW n \in op.todo \cup {NoKey},
             op' = [Next1(op) EXCEPT !.late = TRUE, !.todo = op.todo \ {n},
                      !.plan = IF op.todo \ {n} = {} THEN @ ELSE <<"read", "ids", "write">>]
      PROVE  /\ SameTask /\ op'.key = op.key /\ op'.data = op.data /\ op'.late = TRUE
             /\ host # "aftereffects" => op'.plan = Tail(op.plan)
  <2>1. PICK b : b = TRUE
    OBVIOUS
  <2>2. PICK t : t = op.todo \ {n}
    OBVIOUS
  <2>3. PICK p : p = IF t = {} THEN Tail(op.plan) ELSE <<"read", "ids", "write">>
    OBVIOUS
  <2>4. op' = Rewritten(Next1(op), b, t, p)
    <3>1. Next1(op).plan = Tail(op.plan)
      BY <1>1, Next1Step
    <3> QED
      BY <1>2, <2>1, <2>2, <2>3, <3>1, Zenon DEF Rewritten
  <2>5. SameTask /\ op'.key = op.key /\ op'.plan = p /\ op'.data = op.data /\ op'.late = b
    BY <1>1, <2>4, WriteOp, Zenon
  <2>6. host # "aftereffects" => t = {}
    BY <1>1, <2>2
  <2> QED
    BY <2>1, <2>3, <2>5, <2>6, Zenon
<1> QED
  BY <1>2, Zenon

\* What becomes of the operation when a list is written.
LEMMA WriteTask ==
  ASSUME StagingInv, Write
  PROVE  \/ Raise /\ docs' = docs
         \/ Quit /\ docs' = docs /\ calm' = calm
         \/ /\ docs' = IF host = "tvpaint" THEN [docs EXCEPT ![active][Section] = Store(@, Written)]
                       ELSE [docs EXCEPT ![active].list = Written]
            /\ calm' = (calm /\ op.steady) /\ SameTask /\ op'.key = op.key /\ op'.data = op.data /\ op'.late = TRUE
            /\ host # "aftereffects" => op'.plan = Tail(op.plan)
<1> DEFINE
      Real ==
        /\ docs' = IF host = "tvpaint" THEN [docs EXCEPT ![active][Section] = Store(@, Written)]
                   ELSE [docs EXCEPT ![active].list = Written]
        /\ calm' = (calm /\ op.steady) /\ SameTask /\ op'.key = op.key /\ op'.data = op.data /\ op'.late = TRUE
        /\ host # "aftereffects" => op'.plan = Tail(op.plan)
      Noop == (docs' = docs /\ Raise) \/ (docs' = docs /\ Quit /\ calm' = calm)
<1>1. ASSUME docs' = IF host = "tvpaint" THEN [docs EXCEPT ![active][Section] = Store(@, Written)]
                     ELSE [docs EXCEPT ![active].list = Written],
             calm' = (calm /\ op.steady),
             NEW n \in op.todo \cup {NoKey}, n = NoKey <=> op.todo = {},
             op' = [Next1(op) EXCEPT !.late = TRUE, !.todo = op.todo \ {n},
                      !.plan = IF op.todo \ {n} = {} THEN @ ELSE <<"read", "ids", "write">>]
      PROVE  Real
  <2>1. /\ SameTask /\ op'.key = op.key /\ op'.data = op.data /\ op'.late = TRUE
        /\ host # "aftereffects" => op'.plan = Tail(op.plan)
    BY <1>1, NextWrite, Zenon
  <2> QED
    BY <1>1, <2>1, Zenon
<1>2. Noop \/ Real
  <2> HIDE DEF Real
  <2> QED
    BY <1>1, Zenon DEF Write
<1> QED
  BY <1>2, Zenon

\* The records there are after a write.
LEMMA WriteAdds ==
  ASSUME StagingInv, StagingInv', At("write"), host' = host,
         docs' = IF host = "tvpaint" THEN [docs EXCEPT ![active][Section] = Store(@, Written)]
                 ELSE [docs EXCEPT ![active].list = Written],
         NEW d \in Docs, NEW r \in Elements(Stored(d)')
  PROVE  \/ r \in Elements(Stored(d))
         \/ d = active /\ r \in Elements(op.data)
         \/ d = active /\ op.what \in Making /\ r = NewRec
<1> USE DEF StagingInv
<1>1. active \in Docs /\ op.what \in Works /\ host \in Hosts
  BY StageFacts
<1>2. op.what \in Making \cup {"remove"}
  BY <1>1, AtWrite
<1>3. Elements(Stored(d)') = IF host = "tvpaint"
                             THEN Elements(Records(docs'[d].instances)) \cup Elements(Records(docs'[d].containers))
                             ELSE Elements(docs'[d].list)
  <2>1. (Elements(Stored(d)) = IF host = "tvpaint"
                               THEN Elements(Records(docs[d].instances)) \cup Elements(Records(docs[d].containers))
                               ELSE Elements(docs[d].list))'
    BY StoredElements, PTL
  <2> QED
    BY <2>1, Zenon DEF Elements
<1>4. r \in Elements(Written) => r \in Elements(op.data) \/ (op.what \in Making /\ r = NewRec)
  <2>1. CASE op.what = "remove"
    BY <1>2, <2>1, WrittenList
  <2>2. CASE op.what # "remove"
    BY <1>2, <2>2, WrittenList
  <2> QED
    BY <2>1, <2>2
<1>5. CASE d # active
  <2>1. docs'[d] = docs[d]
    BY <1>5, WriteDocs, Zenon
  <2> QED
    BY <1>3, <2>1, StoredElements, Zenon
<1>6. CASE d = active /\ host # "tvpaint"
  <2>1. docs'[active].list = Written
    BY <1>6, WriteDocs, Zenon
  <2> QED
    BY <1>3, <1>4, <1>6, <2>1, Zenon
<1>7. CASE d = active /\ host = "tvpaint" /\ Section = "instances"
  <2>1. Records(docs'[active].instances) = Written /\ docs'[active].containers = docs[active].containers
    <3>1. Records(docs'[active][Section]) = Written /\ docs'[active].containers = docs[active].containers
      BY <1>7, WriteDocs, Zenon
    <3>2. docs'[active][Section] = docs'[active].instances
      BY <1>7
    <3> QED
      BY <3>1, <3>2, Zenon
  <2> QED
    BY <1>3, <1>4, <1>7, <2>1, StoredElements, Zenon
<1>8. CASE d = active /\ host = "tvpaint" /\ Section = "containers"
  <2>1. Records(docs'[active].containers) = Written /\ docs'[active].instances = docs[active].instances
    <3>1. Records(docs'[active][Section]) = Written /\ docs'[active].instances = docs[active].instances
      BY <1>8, WriteDocs, Zenon
    <3>2. docs'[active][Section] = docs'[active].containers
      BY <1>8
    <3> QED
      BY <3>1, <3>2, Zenon
  <2> QED
    BY <1>3, <1>4, <1>8, <2>1, StoredElements, Zenon
<1> QED
  BY <1>5, <1>6, <1>7, <1>8 DEF Section

\* A list is written.
LEMMA WriteManager ==
  ASSUME StagingInv, StagingInv', ManagerInv, Write
  PROVE  ManagerInv'
<1> USE DEF StagingInv
<1>1. /\ At("write") /\ UNCHANGED stepVars /\ host' = host /\ granted' = granted /\ active' = active
      /\ open' = open /\ rows' = rows
  BY DEF Write, stepVars
<1>2. op.what \in Works /\ host \in Hosts /\ active \in Docs /\ IsOp(op) /\ (host # "tvpaint" => granted)
  BY StageFacts DEF StageTypes
<1>3. /\ op.plan \in Held /\ op.plan # <<>> /\ op.what \in Making \cup {"remove"}
      /\ (host = "tvpaint" => Tail(op.plan) = <<>>)
  BY <1>1, <1>2, AtWrite DEF At
<1>4. op.what # "list"
  BY <1>3 DEF Making
<1>5. CASE Raise /\ docs' = docs
  BY <1>1, <1>5, RaiseManager
<1>6. CASE Quit /\ docs' = docs /\ calm' = calm
  <2>1. SameTask /\ op'.plan = <<>> /\ op'.data = op.data /\ op'.late = op.late
    BY <1>2, <1>6, QuitEffect
  <2>2. SameLists /\ NumbersGrow
    BY <1>6 DEF SameLists, NumbersGrow
  <2>3. Apart'
    BY <1>1, <2>1, Zenon DEF Apart, ManagerInv, SameTask
  <2>4. Blind'
    BY <1>1, <2>1, Zenon DEF Blind, ManagerInv
  <2>5. ListHolds' /\ NewNumber'
    BY <1>4, <2>1, Zenon DEF ListHolds, NewNumber, SameTask
  <2> QED
    BY <1>1, <1>6, <2>1, <2>2, <2>3, <2>4, <2>5, ManagerKept, Zenon DEF SameTask
<1>7. ASSUME docs' = IF host = "tvpaint" THEN [docs EXCEPT ![active][Section] = Store(@, Written)]
                     ELSE [docs EXCEPT ![active].list = Written],
             calm' = (calm /\ op.steady), SameTask, op'.key = op.key, op'.data = op.data, op'.late = TRUE,
             host # "aftereffects" => op'.plan = Tail(op.plan)
      PROVE  ManagerInv'
  <2>1. Apart'
    BY <1>1, <1>7, Zenon DEF Apart, ManagerInv, SameTask
  <2>2. Blind'
    BY <1>1, <1>7, Zenon DEF Blind, ManagerInv
  <2>3. ListHolds'
    BY <1>4, <1>7, Zenon DEF ListHolds, SameTask
  <2>4. NewNumber'
    <3>1. host = "tvpaint" => op'.plan = <<>>
      BY <1>3, <1>7
    <3> QED
      BY <1>1, <3>1, Zenon DEF NewNumber
  <2>5. RowsHold'
    <3> SUFFICES ASSUME calm, op.steady, op.what # "remove", "manager" \in open
                 PROVE  Elements(rows.list) \subseteq Elements(Stored(rows.doc)')
      BY <1>1, <1>7, Zenon DEF RowsHold, SameTask
    <3>1. op.what \in Making
      BY <1>3
    <3>2. host = "tvpaint"
      BY <3>1, Zenon DEF ManagerInv, Apart
    <3>3. PICK d \in Docs : d = rows.doc
      BY DEF StageTypes
    <3>4. Elements(rows.list) \subseteq Elements(Stored(d))
      BY <3>3, Zenon DEF ManagerInv, RowsHold
    <3>5. d = active => \A r \in Elements(Stored(d)) : r.key # op.key
      BY <1>3, <3>1, <3>2, Zenon DEF ManagerInv, NewNumber
    <3>6. ASSUME NEW r \in Elements(Stored(d))
          PROVE  r \in Elements(Stored(d)')
      <4>1. CASE docs' # docs
        BY <3>2, <3>5, <3>6, <4>1, WriteKeeps, Zenon
      <4>2. CASE docs' = docs
        BY <1>1, <3>6, <4>2, Zenon DEF Stored
      <4> QED
        BY <4>1, <4>2
    <3>7. Stored(rows.doc)' = Stored(d)'
      BY <1>1, <3>3, Zenon DEF Stored
    <3> QED
      BY <3>4, <3>6, <3>7, Zenon
  <2>6. Numbered'
    <3> SUFFICES ASSUME host = "tvpaint", calm, op.steady, NEW d \in Docs, NEW r \in Elements(Stored(d)')
                 PROVE  Given(d, r.key)'
      BY <1>1, <1>7, Zenon DEF Numbered
    <3>1. SameLayers
      BY <1>1, <1>7, WriteDocs, Zenon
    <3>2. NumbersGrow
      BY <3>1 DEF NumbersGrow, SameLayers
    <3>3. Elements(op.data) \subseteq Elements(Stored(active))
      <4>1. op.data = Source(active)
        BY <1>3 DEF ReadInv
      <4> QED
        BY <4>1, SourceStored
    <3>4. CASE r \in Elements(Stored(d))
      <4>1. Given(d, r.key)
        BY <3>4, Zenon DEF ManagerInv, Numbered
      <4> QED
        BY <1>1, <3>2, <4>1, GivenStays, Zenon
    <3>5. CASE d = active /\ op.what \in Making /\ r = NewRec
      <4>1. r.key = op.key
        BY <3>5 DEF NewRec, Rec
      <4>2. Given(d, r.key)
        BY <1>3, <3>5, <4>1, Zenon DEF ManagerInv, NewNumber
      <4> QED
        BY <1>1, <3>2, <4>2, GivenStays, Zenon
    <3>6. \/ r \in Elements(Stored(d))
          \/ d = active /\ r \in Elements(op.data)
          \/ d = active /\ op.what \in Making /\ r = NewRec
      BY <1>1, <1>7, WriteAdds, Zenon
    <3> QED
      BY <3>3, <3>4, <3>5, <3>6
  <2> QED
    BY <2>1, <2>2, <2>3, <2>4, <2>5, <2>6 DEF ManagerInv
<1> QED
  BY <1>5, <1>6, <1>7, WriteTask, Zenon

\* A step that is no part of an operation, or that only makes it unsteady.
LEMMA SteadyManager ==
  ASSUME StagingInv, ManagerInv, host' = host, granted' = granted, docs' = docs \/ host # "tvpaint", SameLists, calm' = calm,
         op'.what = op.what, op'.key = op.key, op'.plan = op.plan, op'.data = op.data, op'.doc = op.doc,
         op'.late = op.late, op'.steady => op.steady,
         active' = active \/ op.what = "none" \/ ~op'.steady,
         host # "tvpaint" => "creator" \notin open' \/ "manager" \notin open',
         host # "tvpaint" /\ op.what \in Making => open' = open,
         rows'.list = <<>> \/ (rows' = rows /\ ("manager" \in open' => "manager" \in open))
  PROVE  ManagerInv'
<1> USE DEF StagingInv
<1>1. NumbersGrow /\ \A d \in Docs : Stored(d)' = Stored(d)
  <2>1. NumbersGrow
    BY DEF NumbersGrow
  <2>2. \A d \in Docs : Stored(d)' = Stored(d)
    BY Zenon DEF Stored, SameLists
  <2> QED
    BY <2>1, <2>2
<1>2. op.doc \in Docs /\ active \in Docs
  BY StageFacts
<1>3. Apart'
  BY Zenon DEF ManagerInv, Apart
<1>4. Blind'
  BY Zenon DEF ManagerInv, Blind
<1>5. ListHolds'
  <2>1. Stored(op.doc)' = Stored(op.doc)
    BY <1>1, <1>2, Zenon DEF Stored
  <2> QED
    BY <2>1, Zenon DEF ManagerInv, ListHolds
<1>6. NewNumber'
  <2> SUFFICES ASSUME host = "tvpaint", calm, op'.steady, op.what \in Making, op.plan # <<>>
               PROVE  Given(active, op.key)' /\ \A r \in Elements(Stored(active)') : r.key # op'.key
    BY Zenon DEF NewNumber
  <2>1. op.what # "none"
    BY DEF Making
  <2>2. active' = active /\ docs' = docs
    BY <2>1
  <2>3. Given(active, op.key) /\ \A r \in Elements(Stored(active)) : r.key # op.key
    BY Zenon DEF ManagerInv, NewNumber
  <2>4. Stored(active)' = Stored(active)
    BY <1>1, <1>2, <2>2, Zenon DEF Stored
  <2>5. Given(active, op.key)'
    BY <2>2, <2>3, Zenon DEF Given
  <2> QED
    BY <2>3, <2>4, <2>5, Zenon
<1> QED
  BY <1>1, <1>3, <1>4, <1>5, <1>6, ManagerKept, Zenon

\* A refresh has its list still to read.
LEMMA ListBegun ==
  ASSUME Begin("list", NoName, NoKey, ListPlan)
  PROVE  op'.data = <<>> /\ op'.what = "list" /\ op'.plan # <<>>
<1>1. ListPlan # <<>>
  BY DEF ListPlan
<1>2. op'.data = <<>> /\ op'.what = "list" /\ op'.plan = ListPlan
  BY BeginOp, Zenon
<1> QED
  BY <1>1, <1>2

\* The end of an operation.
LEMMA DoneManager ==
  ASSUME StagingInv, ManagerInv, Done
  PROVE  ManagerInv'
<1> USE DEF StagingInv
<1>1. /\ op.plan = <<>> /\ op.what \in Works /\ op.what # "none" /\ UNCHANGED <<host, granted, docs, active, open, calm>>
      /\ op.doc \in Docs /\ op.data \in Seq(Record)
  BY StageFacts DEF Done
<1>2. SameLists /\ NumbersGrow /\ host' = host /\ granted' = granted /\ calm' = calm /\ open' = open /\ docs' = docs
  <2>1. SameLists
    BY <1>1, Zenon DEF SameLists
  <2>2. NumbersGrow
    BY <1>1 DEF NumbersGrow
  <2> QED
    BY <1>1, <2>1, <2>2
<1>3. host # "tvpaint" => "creator" \notin open' \/ "manager" \notin open'
  BY <1>2, Zenon DEF ManagerInv, Apart
<1>4. CASE Refresh
  <2>1. rows'.list = <<>> /\ Begin("list", NoName, NoKey, ListPlan)
    BY <1>4 DEF Refresh, NoRows
  <2>2. op'.data = <<>> /\ op'.what = "list" /\ op'.plan # <<>>
    BY <2>1, ListBegun, Zenon
  <2> QED
    BY <1>2, <1>3, <2>1, <2>2, FreshManager
<1>5. CASE op' = NoOp /\ rows' = rows /\ op.what # "remove"
  <2>1. op'.data = <<>> /\ op'.what = "none"
    BY <1>5, NoOpFields
  <2>2. ~granted => rows'.list = <<>>
    BY <1>5 DEF ManagerInv, Blind
  <2> QED
    BY <1>2, <1>3, <1>5, <2>1, <2>2, FreshManager
<1>6. CASE op' = NoOp /\ rows' = [doc |-> op.doc, list |-> Instances(op.data)] /\ op.what = "list"
  <2>1. op'.data = <<>> /\ op'.what = "none"
    BY <1>6, NoOpFields
  <2>2. Elements(Instances(op.data)) \subseteq Elements(op.data)
    <3>1. PICK at : at = {i \in DOMAIN op.data : op.data[i].kind = "instance"}
      OBVIOUS
    <3>2. Elements(Picked(op.data, at)) = {op.data[i] : i \in at \cap DOMAIN op.data}
      BY <1>1, Picking
    <3>3. Instances(op.data) = Picked(op.data, at)
      BY <3>1, Zenon DEF Instances
    <3>4. {op.data[i] : i \in at \cap DOMAIN op.data} \subseteq Elements(op.data)
      BY DEF Elements
    <3> QED
      BY <3>2, <3>3, <3>4, Zenon
  <2>3. rows'.list = Instances(op.data) /\ rows'.doc = op.doc
    BY <1>6
  <2>4. Blind'
    <3> SUFFICES ASSUME ~granted
                 PROVE  rows'.list = <<>>
      BY <1>2, <2>1 DEF Blind
    <3>1. op.data = <<>>
      BY DEF ManagerInv, Blind
    <3>2. PICK at : at = {i \in DOMAIN op.data : op.data[i].kind = "instance"}
      OBVIOUS
    <3>3. PICK list : list = Picked(op.data, at)
      OBVIOUS
    <3>4. list \in Seq(Record) /\ Len(list) <= Len(op.data)
      BY <1>1, <3>3, Picking
    <3>5. list = <<>>
      BY <3>1, <3>4
    <3>6. Instances(op.data) = list
      BY <3>2, <3>3, Zenon DEF Instances
    <3> QED
      BY <2>3, <3>5, <3>6
  <2>5. RowsHold'
    <3> SUFFICES ASSUME calm
                 PROVE  Elements(rows'.list) \subseteq Elements(Stored(rows.doc)')
      BY <1>2, Zenon DEF RowsHold
    <3>1. Elements(op.data) \subseteq Elements(Stored(op.doc))
      BY <1>1, <1>6 DEF ManagerInv, ListHolds
    <3>2. Stored(rows.doc)' = Stored(op.doc)
      BY <1>2, <2>3, Zenon DEF Stored
    <3> QED
      BY <2>2, <2>3, <3>1, <3>2, Zenon
  <2>6. Numbered'
    BY <1>2, Zenon DEF ManagerInv, Numbered, Given, Stored
  <2>7. Apart' /\ ListHolds' /\ NewNumber'
    BY <1>2, <1>3, <2>1 DEF Apart, ListHolds, NewNumber, Making
  <2> QED
    BY <2>4, <2>5, <2>6, <2>7 DEF ManagerInv
<1>7. op.what \notin {"remove", "list"} => op' = NoOp /\ rows' = rows
  BY DEF Done
<1>8. (op.what = "remove" => Refresh) /\ (op.what = "list" => op' = NoOp /\ rows' = [doc |-> op.doc, list |-> Instances(op.data)])
  BY DEF Done
<1> QED
  BY <1>4, <1>5, <1>6, <1>7, <1>8

\* A document keeps its records while its lists stay.
LEMMA StoredStays ==
  ASSUME host' = host, SameLists, NEW d \in Docs
  PROVE  Stored(d)' = Stored(d)
BY Zenon DEF Stored, SameLists

\* A creation or a load takes the next number, which no record has.
LEMMA StartManager ==
  ASSUME StagingInv, StagingInv', ManagerInv, Idle, UNCHANGED <<host, granted, active, open, rows, calm>>,
         docs' = IF host = "tvpaint" THEN [docs EXCEPT ![active].next = @ + 1] ELSE docs,
         NEW what \in Making, NEW name, NEW plan, NEW key, Begin(what, name, key, plan),
         key = IF host = "tvpaint" THEN Key(host, active, Here.next) ELSE NoKey,
         host # "tvpaint" => "manager" \notin open
  PROVE  ManagerInv'
<1> USE DEF StagingInv
<1>1. /\ host' = host /\ granted' = granted /\ active' = active /\ open' = open /\ rows' = rows /\ calm' = calm
      /\ op.what = "none" /\ active \in Docs
  BY UserFacts, StageFacts
<1>2. /\ op'.what = what /\ op'.key = key /\ op'.data = <<>> /\ op'.late = FALSE
  BY BeginOp, Zenon
<1>3. /\ SameLists
      /\ host = "tvpaint" => /\ docs'[active].next = docs[active].next + 1
                             /\ \A d \in Docs \ {active} : docs'[d] = docs[d]
  BY NumberDocs, Zenon
<1>4. NumbersGrow
  BY <1>3 DEF NumbersGrow
<1>5. Apart'
  BY <1>1, Zenon DEF Apart, ManagerInv
<1>6. Blind'
  <2>1. ~granted => rows.list = <<>>
    BY DEF Blind, ManagerInv
  <2> QED
    BY <1>1, <1>2, <2>1 DEF Blind
<1>7. ListHolds'
  BY <1>2 DEF ListHolds, Making
<1>8. NewNumber'
  <2> SUFFICES ASSUME host = "tvpaint", calm
               PROVE  Given(active, op.key)' /\ \A r \in Elements(Stored(active)') : r.key # op'.key
    BY <1>1 DEF NewNumber
  <2>1. PICK d \in Docs : d = active
    BY <1>1
  <2>2. PICK x \in Nat : x = docs[d].next /\ docs'[d].next = x + 1
    BY <1>3, <2>1, StageFacts
  <2>3. PICK a \in Nat : a = (d - 1) * MaxNode
    <3>1. d - 1 \in Nat /\ MaxNode \in Nat
      BY StagingAssumption
    <3>2. (d - 1) * MaxNode \in Nat
      BY <3>1
    <3> QED
      BY <3>2
  <2>4. \A n \in Nat : Key(host, d, n) = a + n
    BY <2>3 DEF Key
  <2>5. key = Key(host, d, x)
    BY <2>1, <2>2, Zenon DEF Here
  <2>6. x \in 1..(docs'[d].next - 1)
    BY <2>1, <2>2, StageFacts
  <2>7. Given(d, key)'
    BY <1>1, <2>5, <2>6, Zenon DEF Given
  <2>8. ASSUME NEW r \in Elements(Stored(d))
        PROVE  r.key # key
    <3>1. PICK n \in 1..(x - 1) : r.key = Key(host, d, n)
      BY <2>2 DEF ManagerInv, Numbered, Given
    <3>2. n \in Nat /\ n # x
      BY <3>1
    <3>3. a + n # a + x
      BY <3>2
    <3> QED
      BY <2>4, <2>5, <3>1, <3>2, <3>3
  <2>9. Stored(active)' = Stored(d)
    <3>1. Stored(d)' = Stored(d)
      BY <1>1, <1>3, StoredStays
    <3>2. Stored(active)' = Stored(d)'
      BY <1>1, <2>1 DEF Stored
    <3> QED
      BY <3>1, <3>2, Zenon
  <2>10. Given(active, op.key)'
    BY <1>1, <1>2, <2>1, <2>7, Zenon DEF Given
  <2> QED
    BY <1>2, <2>8, <2>9, <2>10, Zenon
<1>9. calm' => calm
  BY <1>1
<1>10. calm' /\ op.what = "remove" /\ op.late => op'.what = "remove" /\ op'.late
  BY <1>1
<1> QED
  BY <1>1, <1>3, <1>4, <1>5, <1>6, <1>7, <1>8, <1>9, <1>10, ManagerKept

\* The user.
LEMMA UserManager ==
  ASSUME FormInv, StagingInv, StagingInv', ManagerInv,
         \/ OpenCreator \/ Edit \/ Confirm \/ Create \/ Load \/ OpenManager \/ PressRefresh
         \/ RemoveRow \/ CloseCreator \/ CloseManager \/ SwitchDocument \/ DeleteLayer \/ UNCHANGED stagingVars
  PROVE  ManagerInv'
<1> USE DEF StagingInv
<1>1. /\ host # "tvpaint" => "creator" \notin open \/ "manager" \notin open
      /\ ~granted => rows.list = <<>>
  BY DEF ManagerInv, Apart, Blind
<1>2. Idle => op.plan = <<>> /\ op.what = "none" /\ op.late = FALSE /\ op.steady = TRUE
  BY UserFacts
<1>3. docs' = docs => SameLists /\ NumbersGrow
  <2> SUFFICES ASSUME docs' = docs
               PROVE  SameLists /\ NumbersGrow
    OBVIOUS
  <2>1. SameLists
    BY Zenon DEF SameLists
  <2>2. NumbersGrow
    BY DEF NumbersGrow
  <2> QED
    BY <2>1, <2>2
<1>4. "none" \notin Making
  BY DEF Making
<1>5. CASE OpenCreator \/ Edit \/ Confirm \/ CloseCreator \/ CloseManager
  <2>1. /\ Idle /\ host' = host /\ granted' = granted /\ docs' = docs /\ active' = active /\ op' = op /\ calm' = calm
        /\ rows'.list = <<>> \/ (rows' = rows /\ ("manager" \in open' => "manager" \in open))
    BY <1>5 DEF OpenCreator, Edit, Confirm, CloseCreator, CloseManager, MayOpen, stageVars, NoRows
  <2>2. host # "tvpaint" => "creator" \notin open' \/ "manager" \notin open'
    BY <1>1, <1>5 DEF OpenCreator, Edit, Confirm, CloseCreator, CloseManager, MayOpen, stageVars
  <2> QED
    BY <1>2, <1>3, <1>4, <2>1, <2>2, SteadyManager, Zenon
<1>6. CASE UNCHANGED stagingVars
  <2>1. /\ host' = host /\ granted' = granted /\ docs' = docs /\ active' = active /\ op' = op /\ calm' = calm
        /\ rows' = rows /\ open' = open
    BY <1>6 DEF stagingVars, stageVars
  <2> QED
    BY <1>1, <1>3, <2>1, SteadyManager, Zenon
<1>7. CASE Create
  <2>1. /\ Idle /\ UNCHANGED <<host, granted, active, open, rows, calm>> /\ "creator" \in open
        /\ docs' = IF host = "tvpaint" THEN [docs EXCEPT ![active].next = @ + 1] ELSE docs
    BY <1>7, Zenon DEF Create
  <2>2. PICK key : key = IF host = "tvpaint" THEN Key(host, active, Here.next) ELSE NoKey
    OBVIOUS
  <2>3. Begin("create", result, key, CreatePlan(item))
    BY <1>7, <2>2, Zenon DEF Create
  <2>4. "create" \in Making
    BY DEF Making
  <2> QED
    BY <1>1, <2>1, <2>2, <2>3, <2>4, StartManager, Zenon
<1>8. CASE Load
  <2>1. /\ Idle /\ UNCHANGED <<host, granted, active, open, rows, calm>> /\ (host # "tvpaint" => open = {})
        /\ docs' = IF host = "tvpaint" THEN [docs EXCEPT ![active].next = @ + 1] ELSE docs
    BY <1>8, Zenon DEF Load, MayOpen
  <2>2. PICK key : key = IF host = "tvpaint" THEN Key(host, active, Here.next) ELSE NoKey
    OBVIOUS
  <2>3. Begin("load", LoadName, key, LoadPlan)
    BY <1>8, <2>2, Zenon DEF Load
  <2>4. "load" \in Making /\ (host # "tvpaint" => "manager" \notin open)
    BY <2>1 DEF Making
  <2> QED
    BY <2>1, <2>2, <2>3, <2>4, StartManager, Zenon
<1>9. CASE OpenManager \/ PressRefresh
  <2>1. /\ Refresh /\ host' = host /\ granted' = granted /\ docs' = docs /\ calm' = calm
        /\ host # "tvpaint" => "creator" \notin open' \/ "manager" \notin open'
    BY <1>1, <1>9 DEF OpenManager, PressRefresh, MayOpen
  <2>2. rows'.list = <<>> /\ Begin("list", NoName, NoKey, ListPlan)
    BY <2>1 DEF Refresh, NoRows
  <2>3. op'.data = <<>> /\ op'.what = "list" /\ op'.plan # <<>>
    BY <2>2, ListBegun, Zenon
  <2>4. op'.what \in {"none", "list", "remove"} /\ (op'.what = "list" => op'.plan # <<>>)
    BY <2>3
  <2> QED
    BY <1>3, <2>1, <2>2, <2>3, <2>4, FreshManager, Zenon
<1>10. CASE RemoveRow
  <2>1. /\ Idle /\ host' = host /\ granted' = granted /\ docs' = docs /\ calm' = calm /\ rows' = rows /\ open' = open
    BY <1>10 DEF RemoveRow
  <2>2. PICK i \in DOMAIN rows.list :
          op' = [NoOp EXCEPT !.what = "remove", !.name = rows.list[i].name, !.key = rows.list[i].key,
                             !.plan = RemovePlan, !.steady = rows.doc = active]
    BY <1>10 DEF RemoveRow
  <2>3. op' = Removing(NoOp, "remove", rows.list[i].name, rows.list[i].key, RemovePlan, rows.doc = active)
    BY <2>2, Zenon DEF Removing
  <2>4. op'.data = <<>> /\ op'.what = "remove"
    <3>1. PICK name : name = rows.list[i].name
      OBVIOUS
    <3>2. PICK key : key = rows.list[i].key
      OBVIOUS
    <3>3. PICK b : b = (rows.doc = active)
      OBVIOUS
    <3>4. op' = Removing(NoOp, "remove", name, key, RemovePlan, b)
      BY <2>2, <3>1, <3>2, <3>3, Zenon DEF Removing
    <3> QED
      BY <3>4, RemovingOp
  <2>5. op'.what \in {"none", "list", "remove"} /\ op'.what # "list" /\ op.what # "remove"
    BY <1>2, <2>1, <2>4
  <2> QED
    BY <1>1, <1>3, <2>1, <2>4, <2>5, FreshManager, Zenon
<1>11. CASE SwitchDocument
  <2>1. /\ host' = host /\ granted' = granted /\ docs' = docs /\ calm' = calm /\ rows' = rows /\ open' = open
        /\ op' = IF Idle THEN op ELSE Switched(op, FALSE)
    BY <1>11 DEF SwitchDocument, Switched
  <2>2. CASE Idle
    BY <1>1, <1>2, <1>3, <1>4, <2>1, <2>2, SteadyManager, Zenon
  <2>3. CASE ~Idle
    <3>1. PICK b : b = FALSE
      OBVIOUS
    <3>2. op' = Switched(op, b) /\ IsOp(op)
      BY <2>1, <2>3, <3>1, StageFacts
    <3>3. /\ op'.what = op.what /\ op'.key = op.key /\ op'.plan = op.plan
          /\ op'.data = op.data /\ op'.doc = op.doc /\ op'.steady = b /\ op'.late = op.late
      BY <3>2, UnsteadyOp, Zenon
    <3>4. ~op'.steady
      BY <3>1, <3>3, Zenon
    <3> QED
      BY <1>1, <1>3, <2>1, <3>3, <3>4, SteadyManager, Zenon
  <2> QED
    BY <2>2, <2>3
<1>12. CASE DeleteLayer
  <2>1. /\ host' = host /\ granted' = granted /\ calm' = calm /\ rows' = rows /\ open' = open /\ op' = op
        /\ active' = active /\ host # "tvpaint"
    BY <1>12 DEF DeleteLayer
  <2>2. SameLists
    BY <1>12, DeleteLayerStep
  <2> QED
    BY <1>1, <2>1, <2>2, SteadyManager, Zenon
<1> QED
  BY <1>5, <1>6, <1>7, <1>8, <1>9, <1>10, <1>11, <1>12

\* Every step keeps the invariant.
LEMMA ManagerStep ==
  ASSUME FormInv, StagingInv, StagingInv', ManagerInv, [StagingNext]_stagingVars
  PROVE  ManagerInv'
<1>1. CASE Step
  <2>1. CASE Fail
    BY <2>1, RaiseManager DEF Fail
  <2> QED
    BY <1>1, <2>1, CallsManager, CountManager, ReadManager, DefaultManager, WriteManager, DoneManager DEF Step
<1> QED
  BY <1>1, UserManager DEF StagingNext

-----------------------------------------------------------------------------
(* The icons of Photoshop.                                                   *)

\* A layer has been made whose record is still to be written, or a record
\* removed whose layer still has the icon.
Marking == op.what \in Making /\ op.plan \in {<<"write">>, <<"ids", "write">>, <<"read", "ids", "write">>}
Unmarking == op.what = "remove" /\ op.plan = <<"rename">>
Between == Marking \/ Unmarking
Published(d, n) == \E r \in Elements(docs[d].list) : r.kind = "instance" /\ r.key = n
Right(d, n) == n \in docs[d].icon <=> Published(d, n)

\* An exception now is not forgotten.
Remembered == Between => op.late

\* New layers have no icon yet.
IconsMade == \A d \in Docs : docs[d].icon \subseteq 1..(docs[d].next - 1)

\* Every icon tells of a record, but for the layer in between, ...
IconsRight ==
  calm /\ (Between => op.steady) =>
    \A d \in Docs : \A n \in docs[d].alive : Right(d, n) \/ (Between /\ d = active /\ n = op.key)

\* ... which has the icon if it is to be an instance, ...
NewIcon ==
  calm /\ op.steady /\ Marking /\ op.key \in docs[active].alive =>
    (op.key \in docs[active].icon <=> op.what = "create")

\* ... and no record if it is to lose it.
OldIcon == calm /\ op.steady /\ Unmarking => \A r \in Elements(docs[active].list) : r.key # op.key
IconInv == host = "photoshop" => Remembered /\ IconsMade /\ IconsRight /\ NewIcon /\ OldIcon

\* The start, the end and the failure of an operation.
LEMMA IconFresh ==
  ASSUME IconInv, host' = host,
         host = "photoshop" => docs' = docs /\ ~Between' /\ (calm' => calm /\ ~Between)
  PROVE  IconInv'
<1> SUFFICES ASSUME host = "photoshop"
             PROVE  Remembered' /\ IconsMade' /\ IconsRight' /\ NewIcon' /\ OldIcon'
  BY DEF IconInv
<1>1. docs' = docs /\ ~Between' /\ (calm' => calm /\ ~Between)
  OBVIOUS
<1>2. Remembered' /\ NewIcon' /\ OldIcon'
  BY <1>1 DEF Remembered, NewIcon, OldIcon, Between
<1>3. IconsMade'
  BY <1>1, Zenon DEF IconsMade, IconInv
<1>4. IconsRight'
  <2> SUFFICES ASSUME calm', NEW d \in Docs, NEW n \in docs[d].alive
               PROVE  Right(d, n)'
    BY <1>1, Zenon DEF IconsRight
  <2>1. Right(d, n)
    BY <1>1, Zenon DEF IconInv, IconsRight
  <2> QED
    BY <1>1, <2>1, Zenon DEF Right, Published
<1> QED
  BY <1>2, <1>3, <1>4

\* A step that changes no document and keeps the operation where it is.
LEMMA IconSame ==
  ASSUME IconInv, host' = host,
         host = "photoshop" =>
           /\ docs' = docs /\ (calm' => calm) /\ op'.what = op.what /\ op'.key = op.key /\ (op.late => op'.late)
           /\ (op'.steady => op.steady) /\ (active' = active \/ ~Between \/ ~op'.steady)
           /\ (Marking' <=> Marking) /\ (Unmarking' <=> Unmarking)
  PROVE  IconInv'
<1> SUFFICES ASSUME host = "photoshop"
             PROVE  Remembered' /\ IconsMade' /\ IconsRight' /\ NewIcon' /\ OldIcon'
  BY DEF IconInv
<1>1. /\ docs' = docs /\ (calm' => calm) /\ op'.what = op.what /\ op'.key = op.key /\ (op.late => op'.late)
      /\ (op'.steady => op.steady) /\ (active' = active \/ ~Between \/ ~op'.steady)
      /\ (Marking' <=> Marking) /\ (Unmarking' <=> Unmarking)
  OBVIOUS
<1>2. Between' <=> Between
  BY <1>1, Zenon DEF Between
<1>3. Remembered'
  BY <1>1, <1>2, Zenon DEF Remembered, IconInv
<1>4. IconsMade'
  BY <1>1, Zenon DEF IconsMade, IconInv
<1>5. IconsRight'
  <2> SUFFICES ASSUME calm', Between => op'.steady, NEW d \in Docs, NEW n \in docs[d].alive
               PROVE  Right(d, n)' \/ (Between /\ d = active' /\ n = op.key)
    BY <1>1, <1>2, Zenon DEF IconsRight
  <2>1. Right(d, n) \/ (Between /\ d = active /\ n = op.key)
    BY <1>1, Zenon DEF IconInv, IconsRight
  <2>2. Right(d, n) => Right(d, n)'
    BY <1>1, Zenon DEF Right, Published
  <2> QED
    BY <1>1, <2>1, <2>2, Zenon
<1>6. NewIcon'
  <2> SUFFICES ASSUME calm', op'.steady, Marking, op.key \in docs[active'].alive
               PROVE  op.key \in docs[active'].icon <=> op.what = "create"
    BY <1>1, Zenon DEF NewIcon
  <2>1. active' = active
    BY <1>1, Zenon DEF Between
  <2> QED
    BY <1>1, <2>1, Zenon DEF IconInv, NewIcon
<1>7. OldIcon'
  <2> SUFFICES ASSUME calm', op'.steady, Unmarking, NEW r \in Elements(docs[active'].list)
               PROVE  r.key # op.key
    BY <1>1, Zenon DEF OldIcon
  <2>1. active' = active
    BY <1>1, Zenon DEF Between
  <2> QED
    BY <1>1, <2>1, Zenon DEF IconInv, OldIcon
<1> QED
  BY <1>3, <1>4, <1>5, <1>6, <1>7

\* An operation that has not begun or has ended is not in between.
LEMMA OutsidePlan ==
  ASSUME op.plan = <<>> \/ op.what \in {"none", "list"}
  PROVE  ~Between
BY DEF Between, Marking, Unmarking, Making

\* A failed call.
LEMMA RaiseIcon ==
  ASSUME IconInv, Raise, docs' = docs, host' = host
  PROVE  IconInv'
<1>1. op'.plan = <<>> /\ calm' = (calm /\ ~op.late)
  BY RaiseEffect
<1>2. ~Between'
  <2>1. (op.plan = <<>> \/ op.what \in {"none", "list"} => ~Between)'
    BY OutsidePlan, PTL
  <2> QED
    BY <1>1, <2>1
<1>3. host = "photoshop" => (calm' => calm /\ ~Between)
  BY <1>1 DEF IconInv, Remembered
<1> QED
  BY <1>2, <1>3, IconFresh

\* The calls that ask.
LEMMA AskIcon ==
  ASSUME StagingInv, IconInv, Exists \/ Items \/ Count \/ Read \/ Default \/ Ids \/ DeleteNode
  PROVE  IconInv'
<1> USE DEF StagingInv
<1>1. host' = host /\ active' = active /\ op.what \in Works /\ host \in Hosts /\ IsOp(op)
  BY StageFacts DEF Exists, Items, Count, Read, Default, Ids, DeleteNode, stepVars
<1>2. CASE host # "photoshop"
  BY <1>1, <1>2 DEF IconInv
<1>3. CASE host = "photoshop" /\ Exists
  BY <1>1, <1>3, RaiseIcon DEF Exists, PhotoshopExists
<1>4. CASE host = "photoshop" /\ Items
  BY <1>1, <1>4, AtItems DEF Items
<1>5. CASE host = "photoshop" /\ DeleteNode
  BY <1>1, <1>5, AtDelete DEF DeleteNode
<1>6. CASE host = "photoshop" /\ Ids
  <2>1. /\ op.plan = <<"ids", "write">> /\ Tail(op.plan) = <<"write">> /\ op.what \in Making /\ docs' = docs /\ calm' = calm
        /\ op' = [Next1(op) EXCEPT !.ids = PhotoshopIds]
    BY <1>1, <1>6, AtIds DEF Ids
  <2>2. PICK i : i = PhotoshopIds
    OBVIOUS
  <2>3. SameTask /\ op'.key = op.key /\ op'.plan = Tail(op.plan) /\ op'.late = op.late
    BY <1>1, <2>1, <2>2, IdsOp, Zenon
  <2>4. op'.what = op.what /\ op'.steady = op.steady
    BY <2>3 DEF SameTask
  <2>5. (Marking' <=> Marking) /\ (Unmarking' <=> Unmarking)
    BY <2>1, <2>3, <2>4 DEF Marking, Unmarking
  <2> QED
    BY <1>1, <2>1, <2>3, <2>4, <2>5, IconSame, Zenon
<1>7. CASE host = "photoshop" /\ Read
  <2>1. At("read") /\ docs' = docs /\ \E list, steady : Found(list, steady, Tail(op.plan)) /\ (steady => op.steady)
    <3>1. At("read") /\ docs' = docs /\ (Reading(Here.list) \/ Misread)
      BY <1>7 DEF Read, PhotoshopRead
    <3>2. ASSUME Reading(Here.list)
          PROVE  Found(Here.list, op.steady, Tail(op.plan))
      BY <3>2, Zenon DEF Reading
    <3>3. ASSUME Misread
          PROVE  Found(<<>>, FALSE, Tail(op.plan))
      BY <3>3, Zenon DEF Misread
    <3>4. ASSUME Reading(Here.list)
          PROVE  \E list, steady : Found(list, steady, Tail(op.plan)) /\ (steady => op.steady)
      <4>1. PICK l, b : l = Here.list /\ b = op.steady
        OBVIOUS
      <4>2. Found(l, b, Tail(op.plan)) /\ (b => op.steady)
        BY <3>2, <3>4, <4>1
      <4> QED
        BY <4>2, Zenon
    <3>5. ASSUME Misread
          PROVE  \E list, steady : Found(list, steady, Tail(op.plan)) /\ (steady => op.steady)
      BY <3>3, <3>5, Zenon
    <3> QED
      BY <3>1, <3>4, <3>5, Zenon
  <2>2. PICK list, steady : Found(list, steady, Tail(op.plan)) /\ (steady => op.steady)
    BY <2>1
  <2>3. /\ op'.key = op.key /\ op'.plan = Tail(op.plan) /\ op'.late = op.late /\ calm' = calm
        /\ op'.what = op.what /\ op'.steady = steady
    BY <1>1, <2>2, FoundOp, Zenon DEF Found
  <2>4. op'.what = op.what /\ (op'.steady => op.steady)
    BY <2>2, <2>3, Zenon
  <2>5. op.plan \in {<<"read">>, <<"read", "write", "rename">>, <<"read", "ids", "write">>}
    BY <1>1, <1>7, <2>1, PlanListed DEF PlanInv, PlanFor, At, Works, Making
  <2>6. ASSUME op.plan = <<"read">>
        PROVE  (Marking' <=> Marking) /\ (Unmarking' <=> Unmarking)
    <3>1. op'.plan = <<>>
      BY <2>3, <2>6
    <3> QED
      BY <2>4, <2>6, <3>1 DEF Marking, Unmarking
  <2>7. ASSUME op.plan = <<"read", "write", "rename">>
        PROVE  (Marking' <=> Marking) /\ (Unmarking' <=> Unmarking)
    <3>1. op'.plan = <<"write", "rename">>
      BY <2>3, <2>7
    <3> QED
      BY <2>4, <2>7, <3>1 DEF Marking, Unmarking
  <2>8. ASSUME op.plan = <<"read", "ids", "write">>
        PROVE  (Marking' <=> Marking) /\ (Unmarking' <=> Unmarking)
    <3>1. op'.plan = <<"ids", "write">>
      BY <2>3, <2>8
    <3> QED
      BY <2>4, <2>8, <3>1 DEF Marking, Unmarking
  <2>9. (Marking' <=> Marking) /\ (Unmarking' <=> Unmarking)
    BY <2>5, <2>6, <2>7, <2>8
  <2> QED
    BY <1>1, <2>1, <2>3, <2>4, <2>9, IconSame, Zenon
<1>8. CASE Count \/ Default
  BY <1>1, <1>2, <1>8, AtCount, AtDefault DEF Count, Default
<1> QED
  BY <1>2, <1>3, <1>4, <1>5, <1>6, <1>7, <1>8

\* Operations that start, and the user's other acts.
LEMMA StartIcon ==
  ASSUME IconInv, op.plan = <<>>, host' = host, host = "photoshop" => docs' = docs, calm' = calm,
         \/ op' = NoOp
         \/ \E what \in {"list", "create", "load"} : \E name, key, plan :
              /\ Begin(what, name, key, plan)
              /\ host = "photoshop" => plan \notin {<<"write">>, <<"ids", "write">>, <<"read", "ids", "write">>}
         \/ op'.what = "remove" /\ op'.plan # <<"rename">>
  PROVE  IconInv'
<1>1. ~Between
  BY OutsidePlan
<1>2. host = "photoshop" => ~Between'
  <2>1. CASE op' = NoOp
    <3>1. op'.plan = <<>>
      BY <2>1, NoOpFields
    <3> QED
      BY <3>1 DEF Between, Marking, Unmarking
  <2>2. ASSUME NEW what \in {"list", "create", "load"}, NEW name, NEW key, NEW plan, Begin(what, name, key, plan),
               host = "photoshop" => plan \notin {<<"write">>, <<"ids", "write">>, <<"read", "ids", "write">>}
        PROVE  host = "photoshop" => ~Between'
    <3>1. op'.what = what /\ op'.plan = plan
      BY <2>2, BeginOp, Zenon
    <3> QED
      BY <2>2, <3>1 DEF Between, Marking, Unmarking
  <2>3. CASE op'.what = "remove" /\ op'.plan # <<"rename">>
    BY <2>3 DEF Between, Marking, Unmarking, Making
  <2> QED
    BY <2>1, <2>2, <2>3
<1> QED
  BY <1>1, <1>2, IconFresh

\* The user, and the end of an operation.
LEMMA UserIcon ==
  ASSUME StagingInv, IconInv,
         \/ OpenCreator \/ Edit \/ Confirm \/ Create \/ Load \/ OpenManager \/ PressRefresh
         \/ RemoveRow \/ CloseCreator \/ CloseManager \/ SwitchDocument \/ Done \/ UNCHANGED stagingVars
  PROVE  IconInv'
<1> USE DEF StagingInv
<1>1. Idle => op.plan = <<>>
  BY UserFacts
<1>2. "list" \in {"list", "create", "load"} /\ "create" \in {"list", "create", "load"} /\ "load" \in {"list", "create", "load"}
  OBVIOUS
<1>3. host = "photoshop" => ListPlan \notin {<<"write">>, <<"ids", "write">>, <<"read", "ids", "write">>}
  BY DEF ListPlan
<1>4. CASE OpenCreator \/ Edit \/ Confirm \/ CloseCreator \/ CloseManager \/ UNCHANGED stagingVars
  <2>1. host' = host /\ docs' = docs /\ active' = active /\ op' = op /\ calm' = calm
    BY <1>4 DEF OpenCreator, Edit, Confirm, CloseCreator, CloseManager, stageVars, stagingVars
  <2>2. (Marking' <=> Marking) /\ (Unmarking' <=> Unmarking)
    BY <2>1 DEF Marking, Unmarking
  <2> QED
    BY <2>1, <2>2, IconSame, Zenon
<1>5. CASE Create
  <2>1. /\ Idle /\ host' = host /\ calm' = calm /\ (host = "photoshop" => docs' = docs)
        /\ \E key : Begin("create", result, key, CreatePlan(item))
    BY <1>5 DEF Create
  <2>2. host = "photoshop" => CreatePlan(item) \notin {<<"write">>, <<"ids", "write">>, <<"read", "ids", "write">>}
    BY DEF CreatePlan, PhotoshopCreate
  <2> QED
    BY <1>1, <1>2, <2>1, <2>2, StartIcon, Zenon
<1>6. CASE Load
  <2>1. /\ Idle /\ host' = host /\ calm' = calm /\ (host = "photoshop" => docs' = docs)
        /\ \E key : Begin("load", LoadName, key, LoadPlan)
    BY <1>6 DEF Load, MayOpen
  <2>2. host = "photoshop" => LoadPlan \notin {<<"write">>, <<"ids", "write">>, <<"read", "ids", "write">>}
    BY DEF LoadPlan, PhotoshopLoad
  <2> QED
    BY <1>1, <1>2, <2>1, <2>2, StartIcon, Zenon
<1>7. CASE OpenManager \/ PressRefresh
  <2>1. /\ Idle /\ host' = host /\ calm' = calm /\ docs' = docs /\ Begin("list", NoName, NoKey, ListPlan)
    BY <1>7 DEF OpenManager, PressRefresh, MayOpen, Refresh
  <2> QED
    BY <1>1, <1>2, <1>3, <2>1, StartIcon, Zenon
<1>8. CASE RemoveRow
  <2>1. Idle /\ host' = host /\ calm' = calm /\ docs' = docs
    BY <1>8 DEF RemoveRow
  <2>2. PICK i \in DOMAIN rows.list :
          op' = [NoOp EXCEPT !.what = "remove", !.name = rows.list[i].name, !.key = rows.list[i].key,
                             !.plan = RemovePlan, !.steady = rows.doc = active]
    BY <1>8 DEF RemoveRow
  <2>3. op'.what = "remove" /\ op'.plan = RemovePlan
    <3>1. PICK name : name = rows.list[i].name
      OBVIOUS
    <3>2. PICK key : key = rows.list[i].key
      OBVIOUS
    <3>3. PICK b : b = (rows.doc = active)
      OBVIOUS
    <3>4. op' = Removing(NoOp, "remove", name, key, RemovePlan, b)
      BY <2>2, <3>1, <3>2, <3>3, Zenon DEF Removing
    <3> QED
      BY <3>4, RemovingOp
  <2>4. RemovePlan # <<"rename">>
    <3>1. host \in Hosts
      BY StageFacts
    <3> QED
      BY <3>1 DEF RemovePlan, Hosts, TVPaintRemove, HarmonyRemove, PhotoshopRemove, AfterEffectsRemove
  <2> QED
    BY <1>1, <2>1, <2>3, <2>4, StartIcon
<1>9. CASE Done
  <2>1. op.plan = <<>> /\ host' = host /\ calm' = calm /\ docs' = docs
    BY <1>9 DEF Done
  <2>2. op' = NoOp \/ Begin("list", NoName, NoKey, ListPlan)
    BY <1>9 DEF Done, Refresh
  <2> QED
    BY <1>2, <1>3, <2>1, <2>2, StartIcon, Zenon
<1>10. CASE SwitchDocument
  <2>1. host' = host /\ docs' = docs /\ calm' = calm /\ op' = IF Idle THEN op ELSE Switched(op, FALSE)
    BY <1>10 DEF SwitchDocument, Switched
  <2>2. CASE Idle
    <3>1. op' = NoOp
      BY <2>1, <2>2 DEF Idle
    <3> QED
      BY <1>1, <2>1, <2>2, <3>1, StartIcon
  <2>3. CASE ~Idle
    <3>1. PICK b : b = FALSE
      OBVIOUS
    <3>2. op' = Switched(op, b) /\ IsOp(op)
      BY <2>1, <2>3, <3>1, StageFacts
    <3>3. op'.what = op.what /\ op'.key = op.key /\ op'.plan = op.plan /\ op'.steady = b /\ op'.late = op.late
      BY <3>2, UnsteadyOp, Zenon
    <3>4. ~op'.steady
      BY <3>1, <3>3, Zenon
    <3>5. (Marking' <=> Marking) /\ (Unmarking' <=> Unmarking)
      BY <3>3 DEF Marking, Unmarking
    <3> QED
      BY <2>1, <3>3, <3>4, <3>5, IconSame, Zenon
  <2> QED
    BY <2>2, <2>3
<1> QED
  BY <1>4, <1>5, <1>6, <1>7, <1>8, <1>9, <1>10

\* A layer is made: its number is new, and only its own icon changes.
LEMMA MakeIcon ==
  ASSUME StagingInv, IconInv, Make
  PROVE  IconInv'
<1> USE DEF StagingInv
<1>1. /\ At("make") /\ host' = host /\ active' = active /\ calm' = calm /\ op.what \in Works /\ host \in Hosts
      /\ active \in Docs /\ IsOp(op)
  BY StageFacts DEF Make, stepVars
<1> SUFFICES ASSUME host = "photoshop"
             PROVE  Remembered' /\ IconsMade' /\ IconsRight' /\ NewIcon' /\ OldIcon'
  BY <1>1 DEF IconInv
<1>2. PICK n \in 1..MaxNode : /\ n = docs[active].next
                              /\ docs' = [docs EXCEPT ![active] = Made(@, n)]
                              /\ op' = [Next1(op) EXCEPT !.key = n, !.late = TRUE]
  BY DEF Make, NewLayer, Here
<1>3. PICK b : b = TRUE
  OBVIOUS
<1>4. op' = Moved(Next1(op), n, b)
  BY <1>2, <1>3, Zenon DEF Moved
<1>5. op'.what = op.what /\ op'.steady = op.steady /\ op'.key = n /\ op'.plan = Tail(op.plan) /\ op'.late = b
  BY <1>1, <1>4, MakeOp, Zenon DEF SameTask
<1>6. /\ docs'[active].alive = docs[active].alive \cup {n} /\ docs'[active].next = n + 1
      /\ docs'[active].icon = docs[active].icon \cup Marked(n)
      /\ \A d \in Docs \ {active} : docs'[d] = docs[d]
      /\ \A d \in Docs : docs'[d].list = docs[d].list
  BY <1>2, MakeDocs, Zenon DEF SameLists
<1>7. op.what \in Making /\ op.plan = <<"make", "read", "ids", "write">>
  BY <1>1, AtMake
<1>8. ~Between
  BY <1>7 DEF Between, Marking, Unmarking
<1>9. op'.plan = <<"read", "ids", "write">>
  BY <1>5, <1>7
<1>10. Marking' /\ Between' /\ ~Unmarking'
  BY <1>5, <1>7, <1>9 DEF Marking, Unmarking, Between, Making
<1>11. Remembered'
  BY <1>3, <1>5 DEF Remembered
<1>12. IconsMade'
  <2>1. docs[active].icon \subseteq 1..(n - 1) /\ n \in Nat
    BY <1>1, <1>2 DEF IconInv, IconsMade
  <2>2. docs'[active].icon \subseteq 1..((n + 1) - 1)
    BY <1>6, <2>1 DEF Marked
  <2> QED
    BY <1>6, <2>2, Zenon DEF IconsMade, IconInv
<1>13. n \notin docs[active].icon
  BY <1>1, <1>2 DEF IconInv, IconsMade
<1>14. IconsRight'
  <2> SUFFICES ASSUME calm, NEW d \in Docs, NEW m \in docs'[d].alive, d # active \/ m # n
               PROVE  Right(d, m)'
    BY <1>1, <1>5, <1>10, Zenon DEF IconsRight
  <2>1. m \in docs[d].alive
    BY <1>6
  <2>2. Right(d, m)
    BY <1>8, <2>1 DEF IconInv, IconsRight
  <2>3. m \in docs'[d].icon <=> m \in docs[d].icon
    <3>1. CASE d # active
      BY <1>6, <3>1
    <3>2. CASE d = active
      BY <1>6, <3>2 DEF Marked
    <3> QED
      BY <3>1, <3>2
  <2> QED
    BY <1>6, <2>2, <2>3, Zenon DEF Right, Published
<1>15. NewIcon'
  <2>1. n \in docs'[active].icon <=> op.what = "create"
    BY <1>6, <1>13 DEF Marked
  <2> QED
    BY <1>1, <1>5, <2>1, Zenon DEF NewIcon
<1>16. OldIcon'
  BY <1>10 DEF OldIcon
<1> QED
  BY <1>11, <1>12, <1>14, <1>15, <1>16

\* The icon of a removed instance goes.
LEMMA RenameIcon ==
  ASSUME StagingInv, IconInv, Rename
  PROVE  IconInv'
<1> USE DEF StagingInv
<1>1. /\ At("rename") /\ host' = host /\ active' = active /\ calm' = (calm /\ op.steady) /\ op.what \in Works /\ host \in Hosts
      /\ active \in Docs /\ IsOp(op) /\ op' = Next1(op)
  BY StageFacts DEF Rename, stepVars
<1> SUFFICES ASSUME host = "photoshop"
             PROVE  Remembered' /\ IconsMade' /\ IconsRight' /\ NewIcon' /\ OldIcon'
  BY <1>1 DEF IconInv
<1>2. op.what = "remove" /\ op.plan = <<"rename">> /\ Tail(op.plan) = <<>>
  BY <1>1, AtRename
<1>3. op'.plan = <<>>
  BY <1>1, <1>2, NextEffect
<1>4. ~Between' /\ ~Marking' /\ ~Unmarking'
  BY <1>3 DEF Between, Marking, Unmarking
<1>5. PICK x : x = docs[active].icon \ {op.key}
  OBVIOUS
<1>6. docs' = [docs EXCEPT ![active].icon = x]
  BY <1>5 DEF Rename, PhotoshopRename
<1>7. /\ docs'[active].next = docs[active].next /\ docs'[active].alive = docs[active].alive
      /\ docs'[active].icon = x /\ docs'[active].list = docs[active].list
      /\ \A d \in Docs \ {active} : docs'[d] = docs[d]
  BY <1>1, <1>6, StageFacts, IconEffect, Zenon
<1>8. Remembered' /\ NewIcon' /\ OldIcon'
  BY <1>4 DEF Remembered, NewIcon, OldIcon
<1>9. IconsMade'
  <2> SUFFICES ASSUME NEW d \in Docs
               PROVE  docs'[d].icon \subseteq 1..(docs'[d].next - 1)
    BY DEF IconsMade
  <2>1. docs[d].icon \subseteq 1..(docs[d].next - 1)
    BY DEF IconInv, IconsMade
  <2>2. docs'[d].next = docs[d].next /\ docs'[d].icon \subseteq docs[d].icon
    <3>1. CASE d # active
      BY <1>7, <3>1, Zenon
    <3>2. CASE d = active
      BY <1>5, <1>7, <3>2, Zenon
    <3> QED
      BY <3>1, <3>2
  <2> QED
    BY <2>1, <2>2, Zenon
<1>10. IconsRight'
  <2> SUFFICES ASSUME calm, op.steady, NEW d \in Docs, NEW m \in docs'[d].alive
               PROVE  Right(d, m)'
    BY <1>1, <1>4, Zenon DEF IconsRight
  <2>1. m \in docs[d].alive /\ docs'[d].list = docs[d].list
    <3>1. CASE d # active
      BY <1>7, <3>1, Zenon
    <3>2. CASE d = active
      BY <1>7, <3>2, Zenon
    <3> QED
      BY <3>1, <3>2
  <2>2. Right(d, m) \/ (d = active /\ m = op.key)
    BY <2>1 DEF IconInv, IconsRight
  <2>3. CASE d # active \/ m # op.key
    <3>1. m \in docs'[d].icon <=> m \in docs[d].icon
      <4>1. CASE d # active
        BY <1>7, <4>1, Zenon
      <4>2. CASE d = active
        BY <1>5, <1>7, <2>3, <4>2
      <4> QED
        BY <4>1, <4>2
    <3> QED
      BY <2>1, <2>2, <2>3, <3>1, Zenon DEF Right, Published
  <2>4. CASE d = active /\ m = op.key
    <3>1. Unmarking
      BY <1>2 DEF Unmarking
    <3>2. \A r \in Elements(docs[d].list) : r.key # m
      BY <2>4, <3>1 DEF IconInv, OldIcon
    <3>3. m \notin docs'[d].icon
      BY <1>5, <1>7, <2>4
    <3> QED
      BY <2>1, <3>2, <3>3, Zenon DEF Right, Published
  <2> QED
    BY <2>3, <2>4
<1> QED
  BY <1>8, <1>9, <1>10

\* A layer goes with its icon.
LEMMA DeleteLayerIcon ==
  ASSUME StagingInv, IconInv, DeleteLayer
  PROVE  IconInv'
<1> USE DEF StagingInv
<1>1. host' = host /\ active' = active /\ calm' = calm /\ op' = op /\ active \in Docs /\ DocTypes
  BY StageFacts DEF DeleteLayer
<1> SUFFICES ASSUME host = "photoshop"
             PROVE  Remembered' /\ IconsMade' /\ IconsRight' /\ NewIcon' /\ OldIcon'
  BY <1>1 DEF IconInv
<1>2. PICK n : docs' = [docs EXCEPT ![active] =
                         [docs[active] EXCEPT !.alive = docs[active].alive \ {n}, !.icon = docs[active].icon \ {n}]]
  BY Zenon DEF DeleteLayer, Here
<1>3. PICK x : x = docs[active].alive \ {n}
  OBVIOUS
<1>4. PICK y : y = docs[active].icon \ {n}
  OBVIOUS
<1>5. docs' = [docs EXCEPT ![active] = [docs[active] EXCEPT !.alive = x, !.icon = y]]
  BY <1>2, <1>3, <1>4, Zenon
<1>6. /\ docs'[active].next = docs[active].next /\ docs'[active].alive = x /\ docs'[active].icon = y
      /\ docs'[active].list = docs[active].list
      /\ \A d \in Docs \ {active} : docs'[d] = docs[d]
  BY <1>1, <1>5, DeletingEffect, Zenon
<1>7. (Marking' <=> Marking) /\ (Unmarking' <=> Unmarking) /\ (Between' <=> Between)
  BY <1>1 DEF Between, Marking, Unmarking
<1>8. ASSUME NEW d \in Docs
      PROVE  /\ docs'[d].next = docs[d].next /\ docs'[d].list = docs[d].list
             /\ docs'[d].icon \subseteq docs[d].icon /\ docs'[d].alive \subseteq docs[d].alive
             /\ \A m \in docs'[d].alive : m \in docs'[d].icon <=> m \in docs[d].icon
  <2>1. CASE d # active
    BY <1>6, <2>1, Zenon
  <2>2. CASE d = active
    BY <1>3, <1>4, <1>6, <2>2
  <2> QED
    BY <2>1, <2>2
<1>9. Remembered'
  BY <1>1, <1>7, Zenon DEF IconInv, Remembered
<1>10. IconsMade'
  BY <1>8, Zenon DEF IconInv, IconsMade
<1>11. IconsRight'
  <2> SUFFICES ASSUME calm, Between => op.steady, NEW d \in Docs, NEW m \in docs'[d].alive
               PROVE  Right(d, m)' \/ (Between /\ d = active /\ m = op.key)
    BY <1>1, <1>7, Zenon DEF IconsRight
  <2>1. m \in docs[d].alive
    BY <1>8
  <2>2. Right(d, m) \/ (Between /\ d = active /\ m = op.key)
    BY <2>1, Zenon DEF IconInv, IconsRight
  <2>3. Right(d, m) => Right(d, m)'
    BY <1>8, Zenon DEF Right, Published
  <2> QED
    BY <2>2, <2>3
<1>12. NewIcon'
  <2> SUFFICES ASSUME calm, op.steady, Marking, op.key \in docs'[active].alive
               PROVE  op.key \in docs'[active].icon <=> op.what = "create"
    BY <1>1, <1>7, Zenon DEF NewIcon
  <2>1. op.key \in docs[active].alive /\ (op.key \in docs'[active].icon <=> op.key \in docs[active].icon)
    BY <1>1, <1>8
  <2> QED
    BY <2>1, Zenon DEF IconInv, NewIcon
<1>13. OldIcon'
  BY <1>1, <1>6, <1>7, Zenon DEF IconInv, OldIcon
<1> QED
  BY <1>9, <1>10, <1>11, <1>12, <1>13

\* A record is written, or taken out.
LEMMA WriteIcon ==
  ASSUME StagingInv, IconInv, Write
  PROVE  IconInv'
<1> USE DEF StagingInv
<1>1. /\ At("write") /\ host' = host /\ active' = active /\ op.what \in Works /\ host \in Hosts
      /\ active \in Docs /\ IsOp(op)
  BY StageFacts DEF Write, stepVars
<1> SUFFICES ASSUME host = "photoshop"
             PROVE  Remembered' /\ IconsMade' /\ IconsRight' /\ NewIcon' /\ OldIcon'
  BY <1>1 DEF IconInv
<1>2. /\ docs' = IF host = "tvpaint" THEN [docs EXCEPT ![active][Section] = Store(@, Written)]
                 ELSE [docs EXCEPT ![active].list = Written]
      /\ calm' = (calm /\ op.steady) /\ SameTask /\ op'.key = op.key /\ op'.late = TRUE
      /\ op'.plan = Tail(op.plan)
  <2> DEFINE
        Real ==
          /\ docs' = IF host = "tvpaint" THEN [docs EXCEPT ![active][Section] = Store(@, Written)]
                     ELSE [docs EXCEPT ![active].list = Written]
          /\ calm' = (calm /\ op.steady) /\ SameTask /\ op'.key = op.key /\ op'.late = TRUE
          /\ op'.plan = Tail(op.plan)
  <2>1. ~Missing /\ host # "aftereffects"
    BY DEF Missing
  <2>2. ASSUME docs' = IF host = "tvpaint" THEN [docs EXCEPT ![active][Section] = Store(@, Written)]
                       ELSE [docs EXCEPT ![active].list = Written],
               calm' = (calm /\ op.steady),
               NEW n \in op.todo \cup {NoKey}, n = NoKey <=> op.todo = {},
               op' = [Next1(op) EXCEPT !.late = TRUE, !.todo = op.todo \ {n},
                        !.plan = IF op.todo \ {n} = {} THEN @ ELSE <<"read", "ids", "write">>]
        PROVE  Real
    <3>1. SameTask /\ op'.key = op.key /\ op'.late = TRUE /\ op'.plan = Tail(op.plan)
      BY <2>1, <2>2, NextWrite, Zenon
    <3> QED
      BY <2>2, <3>1, Zenon
  <2>3. Real
    <3> HIDE DEF Real
    <3> QED
      BY <2>1, <2>2, Zenon DEF Write
  <2> QED
    BY <2>3, Zenon
<1>3. op'.what = op.what /\ op'.steady = op.steady
  BY <1>2 DEF SameTask
<1>4. /\ op.plan \in Held /\ op.what \in Making \cup {"remove"}
      /\ op.what \in Making => op.plan = <<"write">> /\ Tail(op.plan) = <<>>
      /\ op.what = "remove" => Tail(op.plan) = <<"rename">>
  BY <1>1, AtWrite
<1>5. SameLayers /\ docs'[active].list = Written /\ \A d \in Docs \ {active} : docs'[d] = docs[d]
  BY <1>1, <1>2, WriteDocs, Zenon
<1>7. op.steady => op.data = docs[active].list
  BY <1>4 DEF ReadInv, Source
<1>8. Remembered'
  BY <1>2 DEF Remembered
<1>9. IconsMade'
  BY <1>5, Zenon DEF IconInv, IconsMade, SameLayers
<1>10. ASSUME NEW d \in Docs, NEW m \in docs'[d].alive, d # active \/ m # op.key, calm, op.steady
       PROVE  Right(d, m)'
  <2>1. m \in docs[d].alive /\ (m \in docs'[d].icon <=> m \in docs[d].icon)
    BY <1>5, <1>10, Zenon DEF SameLayers
  <2>2. Right(d, m)
    BY <1>10, <2>1 DEF IconInv, IconsRight
  <2>3. CASE d # active
    BY <1>5, <2>1, <2>2, <2>3, Zenon DEF Right, Published
  <2>4. CASE d = active
    <3>1. m \in op.ids \/ op.what = "remove"
      BY <1>4, <1>10, <2>1, <2>4 DEF ReadInv
    <3>2. ASSUME NEW r, r.key = m
          PROVE  r \in Elements(Written) <=> r \in Elements(docs[active].list)
      <4>1. r \in Elements(op.data) => r \in Elements(Written)
        BY <1>4, <1>10, <2>4, <3>1, <3>2, WrittenList
      <4>2. NewRec.key = op.key
        BY DEF NewRec, Rec
      <4>3. r \in Elements(Written) => r \in Elements(op.data)
        <5>1. Elements(Written) \subseteq Elements(op.data) \cup {NewRec}
          BY <1>4, WrittenList
        <5> QED
          BY <1>10, <2>4, <3>2, <4>2, <5>1
      <4> QED
        BY <1>7, <1>10, <4>1, <4>3
    <3>3. Published(d, m)' <=> Published(d, m)
      <4>1. docs'[d].list = Written /\ docs[d].list = docs[active].list
        BY <1>5, <2>4
      <4>2. (\E r \in Elements(Written) : r.kind = "instance" /\ r.key = m)
              <=> \E r \in Elements(docs[active].list) : r.kind = "instance" /\ r.key = m
        BY <3>2, Zenon
      <4> QED
        BY <4>1, <4>2, Zenon DEF Published, Elements
    <3> QED
      BY <2>1, <2>2, <3>3, Zenon DEF Right
  <2> QED
    BY <2>3, <2>4
<1>11. CASE op.what = "remove"
  <2>1. Between' /\ ~Marking'
    BY <1>2, <1>3, <1>4, <1>11 DEF Between, Unmarking, Marking, Making
  <2>2. IconsRight'
    BY <1>1, <1>2, <1>3, <1>10, <2>1, Zenon DEF IconsRight
  <2>3. OldIcon'
    <3>1. \A r \in Elements(Written) : r.key # op.key
      BY <1>4, <1>11, WrittenList
    <3>2. active' = active /\ op'.key = op.key
      BY <1>1, <1>2, Zenon
    <3>3. \A r \in Elements(docs'[active].list) : r.key # op.key
      BY <1>5, <3>1, Zenon
    <3>4. \A r \in Elements(docs'[active'].list) : r.key # op'.key
      BY <3>2, <3>3, Zenon
    <3>5. \A r \in Elements(docs[active].list)' : (r.key # op.key)'
      BY <3>4, Zenon DEF Elements
    <3> QED
      BY <3>5, Zenon DEF OldIcon
  <2> QED
    BY <1>8, <1>9, <2>1, <2>2, <2>3 DEF NewIcon
<1>12. CASE op.what \in Making
  <2>1. ~Between' /\ ~Marking' /\ ~Unmarking'
    <3>1. op'.plan = <<>>
      BY <1>2, <1>4, <1>12
    <3> QED
      BY <3>1 DEF Between, Unmarking, Marking
  <2>2. ASSUME calm, op.steady, op.key \in docs'[active].alive
        PROVE  Right(active, op.key)'
    <3>1. op.key \in docs[active].alive /\ (op.key \in docs'[active].icon <=> op.key \in docs[active].icon)
      BY <1>1, <1>5, <2>2, Zenon DEF SameLayers
    <3>2. op.key # NoKey
      BY <3>1, StageFacts, StagingAssumption DEF NoKey
    <3>3. op.key \in op.ids
      BY <1>4, <1>12, <2>2, <3>1 DEF ReadInv
    <3>4. Marking
      BY <1>4, <1>12 DEF Marking
    <3>5. op.key \in docs[active].icon <=> op.what = "create"
      BY <2>2, <3>1, <3>4 DEF IconInv, NewIcon
    <3>6. op.what # "remove"
      BY <1>12 DEF Making
    <3>7. NewRec \in Elements(Written) /\ \A r \in Elements(Written) : r.key = op.key => r = NewRec
      BY <1>4, <3>2, <3>3, <3>6, WrittenList
    <3>8. NewRec.key = op.key /\ (NewRec.kind = "instance" <=> op.what = "create")
      BY <1>12 DEF NewRec, Rec, Making
    <3>9. (\E r \in Elements(Written) : r.kind = "instance" /\ r.key = op.key) <=> op.what = "create"
      BY <3>7, <3>8, Zenon
    <3>10. Published(active, op.key)' <=> op.what = "create"
      <4>1. active' = active /\ op'.key = op.key /\ docs'[active].list = Written
        BY <1>1, <1>2, <1>5
      <4> QED
        BY <3>9, <4>1 DEF Published, Elements
    <3> QED
      BY <1>1, <1>2, <3>1, <3>5, <3>10, Zenon DEF Right
  <2>3. IconsRight'
    <3> SUFFICES ASSUME calm, op.steady, NEW d \in Docs, NEW m \in docs'[d].alive
                 PROVE  Right(d, m)'
      BY <1>1, <1>2, <1>3, <2>1, Zenon DEF IconsRight
    <3>1. CASE d # active \/ m # op.key
      BY <1>10, <3>1
    <3>2. CASE d = active /\ m = op.key
      <4>1. Right(active, op.key)'
        BY <2>2, <3>2
      <4>2. d = active' /\ m = op'.key
        BY <1>1, <1>2, <3>2
      <4> QED
        BY <4>1, <4>2, Zenon DEF Right, Published
    <3> QED
      BY <3>1, <3>2
  <2> QED
    BY <1>8, <1>9, <2>1, <2>3 DEF NewIcon, OldIcon
<1> QED
  BY <1>4, <1>11, <1>12

\* Every step keeps the invariant.
LEMMA IconStep ==
  ASSUME StagingInv, IconInv, [StagingNext]_stagingVars
  PROVE  IconInv'
<1>1. CASE Fail
  BY <1>1, RaiseIcon DEF Fail, stepVars
<1>2. CASE Step
  BY <1>1, <1>2, AskIcon, MakeIcon, WriteIcon, RenameIcon, UserIcon DEF Step
<1> QED
  BY <1>2, UserIcon, DeleteLayerIcon DEF StagingNext

\* The first documents: their records have the number given out, and the icon.
LEMMA FirstLists ==
  ASSUME StagingInit
  PROVE  ManagerInv /\ IconInv
<1>1. /\ host \in Hosts /\ open = {} /\ rows = NoRows /\ op = NoOp
      /\ StagingInv
  BY StagingInitial DEF StagingInit
<1>2. op.what = "none" /\ op.plan = <<>> /\ op.data = <<>>
  BY <1>1, NoOpFields
<1>3. PICK recorded \in BOOLEAN, form \in {"chunks", "whole", "cut"} :
        docs = [d \in Docs |-> Doc(host, d, recorded, form)]
  BY DEF StagingInit
<1>4. ASSUME NEW d \in Docs
      PROVE  /\ docs[d].next = 2 /\ docs[d].alive = {1}
             /\ docs[d].list = (IF recorded /\ host # "tvpaint" THEN <<Rec("instance", Key(host, d, 1), OldName[d])>> ELSE <<>>)
             /\ docs[d].icon = (IF recorded /\ host = "photoshop" THEN {1} ELSE {})
             /\ Records(docs[d].instances) \in {<<>>, <<Rec("instance", Key(host, d, 1), OldName[d])>>}
             /\ Records(docs[d].containers) = <<>>
  <2>1. docs[d] = Doc(host, d, recorded, form)
    BY <1>3
  <2>2. PICK o : o = docs[d]
    OBVIOUS
  <2> QED
    BY <1>1, <2>1, <2>2, FirstDocument
<1>5. Apart /\ Blind /\ RowsHold /\ ListHolds /\ NewNumber
  BY <1>1, <1>2 DEF Apart, Blind, RowsHold, ListHolds, NewNumber, NoRows, Making
<1>6. Numbered
  <2> SUFFICES ASSUME host = "tvpaint", NEW d \in Docs, NEW r \in Elements(Stored(d))
               PROVE  Given(d, r.key)
    BY DEF Numbered
  <2>1. PICK a : a = Rec("instance", Key(host, d, 1), OldName[d])
    OBVIOUS
  <2>2. r \in Elements(Records(docs[d].instances)) \cup Elements(Records(docs[d].containers))
    BY <1>1, StoredElements
  <2>3. r = a
    BY <1>4, <2>1, <2>2 DEF Elements
  <2>4. r.key = Key(host, d, 1)
    BY <2>1, <2>3 DEF Rec
  <2>5. 1 \in 1..(docs[d].next - 1)
    BY <1>4
  <2> QED
    BY <2>4, <2>5, Zenon DEF Given
<1>7. IconInv
  <2> SUFFICES ASSUME host = "photoshop"
               PROVE  Remembered /\ IconsMade /\ IconsRight /\ NewIcon /\ OldIcon
    BY DEF IconInv
  <2>1. ~Between /\ ~Marking /\ ~Unmarking
    BY <1>2, OutsidePlan DEF Between
  <2>2. IconsMade
    <3> SUFFICES ASSUME NEW d \in Docs
                 PROVE  docs[d].icon \subseteq 1..(docs[d].next - 1)
      BY DEF IconsMade
    <3>1. docs[d].icon \subseteq {1} /\ docs[d].next = 2
      BY <1>4
    <3> QED
      BY <3>1
  <2>3. IconsRight
    <3> SUFFICES ASSUME NEW d \in Docs, NEW n \in docs[d].alive
                 PROVE  Right(d, n)
      BY DEF IconsRight
    <3>1. n = 1
      BY <1>4
    <3>2. PICK a : a = Rec("instance", Key(host, d, 1), OldName[d])
      OBVIOUS
    <3>3. a.kind = "instance" /\ a.key = 1
      BY <3>2 DEF Rec, Key
    <3>4. CASE recorded
      <4>1. docs[d].list = <<a>> /\ docs[d].icon = {1}
        BY <1>4, <3>2, <3>4
      <4>2. Elements(docs[d].list) = {a}
        BY <4>1 DEF Elements
      <4> QED
        BY <3>1, <3>3, <4>1, <4>2 DEF Right, Published
    <3>5. CASE ~recorded
      <4>1. docs[d].list = <<>> /\ docs[d].icon = {}
        BY <1>4, <3>5
      <4>2. Elements(docs[d].list) = {}
        BY <4>1 DEF Elements
      <4> QED
        BY <4>1, <4>2 DEF Right, Published
    <3> QED
      BY <3>4, <3>5
  <2> QED
    BY <2>1, <2>2, <2>3 DEF Remembered, NewIcon, OldIcon
<1> QED
  BY <1>5, <1>6, <1>7 DEF ManagerInv

\* What the user sees between operations is what is stored: every row of the
\* Subset Manager is a record of its document, and Photoshop's icons mark the
\* published groups, unless an operation failed midway or lost its document.
THEOREM ShownRecordsAreStored == StagingSpec => []ShownIsStored
<1> DEFINE Inv == FormInv /\ StagingInv /\ ManagerInv /\ IconInv
<1>1. StagingInit => Inv
  BY StagingInitial, FirstLists
<1>2. FormInv /\ [StagingNext]_stagingVars => FormInv'
  BY FormKept, FormSteps DEF stagingVars
<1>3. FormInv /\ StagingInv /\ [StagingNext]_stagingVars => StagingInv'
  BY StagingStep
<1>4. FormInv /\ StagingInv /\ StagingInv' /\ ManagerInv /\ [StagingNext]_stagingVars => ManagerInv'
  BY ManagerStep
<1>5. StagingInv /\ IconInv /\ [StagingNext]_stagingVars => IconInv'
  BY IconStep
<1>6. Inv => ShownIsStored
  <2> SUFFICES ASSUME Inv, calm, Idle
               PROVE  /\ "manager" \in open /\ rows.doc = active =>
                           \A i \in DOMAIN rows.list :
                             \E j \in DOMAIN Stored(active) : Stored(active)[j] = rows.list[i]
                      /\ host = "photoshop" =>
                           \A d \in Docs : \A n \in docs[d].alive :
                             n \in docs[d].icon
                               <=> \E i \in DOMAIN docs[d].list :
                                     docs[d].list[i].kind = "instance" /\ docs[d].list[i].key = n
    BY Zenon DEF ShownIsStored
  <2>1. op.what = "none" /\ op.plan = <<>>
    BY UserFacts DEF StagingInv
  <2>2. ASSUME "manager" \in open, rows.doc = active, NEW i \in DOMAIN rows.list
        PROVE  \E j \in DOMAIN Stored(active) : Stored(active)[j] = rows.list[i]
    <3>1. Elements(rows.list) \subseteq Elements(Stored(active))
      BY <2>1, <2>2, Zenon DEF ManagerInv, RowsHold
    <3>2. rows.list[i] \in Elements(Stored(active))
      BY <2>2, <3>1 DEF Elements
    <3> QED
      BY <3>2, Zenon DEF Elements
  <2>3. ASSUME host = "photoshop", NEW d \in Docs, NEW n \in docs[d].alive
        PROVE  n \in docs[d].icon
                 <=> \E i \in DOMAIN docs[d].list : docs[d].list[i].kind = "instance" /\ docs[d].list[i].key = n
    <3>1. ~Between
      BY <2>1, OutsidePlan
    <3>2. Right(d, n)
      BY <2>3, <3>1 DEF IconInv, IconsRight
    <3>3. Published(d, n) <=> \E i \in DOMAIN docs[d].list : docs[d].list[i].kind = "instance" /\ docs[d].list[i].key = n
      BY Zenon DEF Published, Elements
    <3> QED
      BY <3>2, <3>3, Zenon DEF Right
  <2> QED
    BY <2>2, <2>3
<1> QED
  <2>1. Inv /\ [StagingNext]_stagingVars => Inv'
    BY <1>2, <1>3, <1>4, <1>5
  <2> QED
    BY <1>1, <1>6, <2>1, PTL DEF StagingSpec

=============================================================================
