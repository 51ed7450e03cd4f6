-------------------------- MODULE HarmonyRpc_proofs --------------------------
(***************************************************************************)
(* Proofs about HarmonyRpc, for every bound and every message length.      *)
(***************************************************************************)
EXTENDS HarmonyRpc, SequenceTheorems, TLAPS

\* The constructors build messages, and None is not one of them.
LEMMA MessageTypes ==
  /\ \A c, i, l \in Nat : Call(c, i, l) \in Message
  /\ \A m \in Message : Reply(m) \in Message /\ Echo(m) \in Message
  /\ \A k \in Nat : Menu(k) \in Message
  /\ None \notin Message
  BY LengthAssumption DEF Message, Call, Reply, Menu, Echo, None

\* What Relaunch and ClientQuit reset the two directions of the socket to.
LEMMA EmptySeqs == <<>> \in Seq(Message) /\ <<>> \in Seq(Nat)
  OBVIOUS

\* Splitting a sequence of messages leaves two sequences of messages.
LEMMA SplitTypes ==
  ASSUME NEW S, NEW s \in Seq(S), NEW n \in 1..Len(s)
  PROVE  SubSeq(s, 1, n) \in Seq(S) /\ SubSeq(s, n + 1, Len(s)) \in Seq(S)
  BY SubSeqProperties

\* The message the receive thread is handling, and the first one to arrive
\* anywhere, is a message with a number and an id.
LEMMA HandTypes ==
  ASSUME TypeOK
  PROVE  /\ rpc \in Handling => rmsg \in Message /\ rmsg.ref \in Nat /\ rmsg.id \in Nat
         /\ inbuf # <<>> => /\ Head(inbuf) \in Message /\ Head(inbuf).ref \in Nat
                            /\ Tail(inbuf) \in Seq(Message)
         /\ mpc \in Calling => call \in Message
<1>1. \A m \in Message : m.ref \in Nat /\ m.id \in Nat
  BY DEF Message
<1>2. rpc \in Handling => rmsg \in Message
  BY DEF TypeOK, RecvTypeOK
<1>3. inbuf # <<>> => Head(inbuf) \in Message /\ Tail(inbuf) \in Seq(Message)
  BY DEF TypeOK, ClientTypeOK
<1>4. mpc \in Calling => call \in Message
  BY DEF TypeOK, MainTypeOK
<1>5. QED
  BY <1>1, <1>2, <1>3, <1>4

\* Every variable has its type in every reachable state.
THEOREM TypeCorrect == Spec => []TypeOK
<1> USE MessageTypes, EmptySeqs
    DEF Handling, Calling, serverVars, mainVars, recvVars, clientVars, pastVars
<1>1. Init => TypeOK
  <2> SUFFICES ASSUME Init
               PROVE  TypeOK
    OBVIOUS
  <2>1. ServerTypeOK
    BY DEF Init, ServerTypeOK
  <2>2. MainTypeOK /\ RecvTypeOK
    BY DEF Init, MainTypeOK, RecvTypeOK
  <2>3. ClientTypeOK
    BY DEF Init, ClientTypeOK
  <2>4. PastTypeOK
    BY DEF Init, PastTypeOK
  <2>5. QED
    BY <2>1, <2>2, <2>3, <2>4 DEF TypeOK
<1>2. TypeOK /\ [Next]_vars => TypeOK'
  <2> SUFFICES ASSUME TypeOK, [Next]_vars
               PROVE  TypeOK'
    OBVIOUS
  <2> USE DEF TypeOK
  <2>1. CASE ClientConnect
    BY <2>1 DEF ClientConnect, ClientRequest,
       ServerTypeOK, MainTypeOK, RecvTypeOK, ClientTypeOK, PastTypeOK
  <2>2. CASE ClientMenu
    BY <2>2 DEF ClientMenu, ClientRequest,
       ServerTypeOK, MainTypeOK, RecvTypeOK, ClientTypeOK, PastTypeOK
  <2>3. CASE ClientReadyRead
    BY <2>3, SplitTypes DEF ClientReadyRead,
       ServerTypeOK, MainTypeOK, RecvTypeOK, ClientTypeOK, PastTypeOK
  <2>4. CASE ClientProcessBuffer
    <3>1. ServerTypeOK'
      BY <2>4, HandTypes DEF ClientProcessBuffer, ServerTypeOK
    <3>2. MainTypeOK'
      BY <2>4, HandTypes DEF ClientProcessBuffer, MainTypeOK
    <3>3. RecvTypeOK'
      BY <2>4, HandTypes DEF ClientProcessBuffer, RecvTypeOK
    <3>4. ClientTypeOK'
      <4>1. Head(inbuf) \in Message /\ inbuf' \in Seq(Message)
        BY <2>4, HandTypes DEF ClientProcessBuffer
      <4>2. draining' \in BOOLEAN /\ clientUp' \in BOOLEAN /\ toClient' \in Seq(Message)
        BY <2>4 DEF ClientProcessBuffer, ClientTypeOK
      <4>3. toServer' = toServer \/ toServer' = Append(toServer, Reply(Head(inbuf)))
        BY <2>4 DEF ClientProcessBuffer
      <4>4. toServer' \in Seq(Message)
        <5>1. Reply(Head(inbuf)) \in Message
          BY <4>1
        <5>2. QED
          BY <4>3, <5>1, SMTT(20) DEF ClientTypeOK
      <4>5. QED
        BY <4>1, <4>2, <4>4 DEF ClientTypeOK
    <3>5. PastTypeOK'
      <4>1. Head(inbuf).ref \in Nat
        BY <2>4, HandTypes DEF ClientProcessBuffer
      <4>2. answered' = answered \/ answered' = Append(answered, Head(inbuf).ref)
        BY <2>4 DEF ClientProcessBuffer
      <4>3. answered' \in Seq(Nat)
        BY <4>1, <4>2, SMTT(20) DEF PastTypeOK
      <4>4. QED
        BY <2>4, <4>3 DEF ClientProcessBuffer, PastTypeOK
    <3>6. QED
      BY <3>1, <3>2, <3>3, <3>4, <3>5
  <2>5. CASE ClientQuit
    <3>1. ServerTypeOK'
      BY <2>5 DEF ClientQuit, ServerTypeOK
    <3>2. MainTypeOK'
      BY <2>5 DEF ClientQuit, MainTypeOK
    <3>3. RecvTypeOK'
      BY <2>5 DEF ClientQuit, RecvTypeOK
    <3>4. ClientTypeOK'
      BY <2>5 DEF ClientQuit, ClientTypeOK
    <3>5. PastTypeOK'
      BY <2>5 DEF ClientQuit, PastTypeOK
    <3>6. QED
      BY <3>1, <3>2, <3>3, <3>4, <3>5
  <2>6. CASE Receive
    BY <2>6 DEF Receive,
       ServerTypeOK, MainTypeOK, RecvTypeOK, ClientTypeOK, PastTypeOK
  <2>7. CASE ReceiveClosed
    BY <2>7 DEF ReceiveClosed,
       ServerTypeOK, MainTypeOK, RecvTypeOK, ClientTypeOK, PastTypeOK
  <2>8. CASE Parse
    BY <2>8 DEF Parse,
       ServerTypeOK, MainTypeOK, RecvTypeOK, ClientTypeOK, PastTypeOK
  <2>9. CASE Store
    <3>1. ServerTypeOK'
      BY <2>9, HandTypes DEF Store, Stored, Without, ServerTypeOK
    <3>2. MainTypeOK'
      BY <2>9, HandTypes DEF Store, Stored, Without, MainTypeOK
    <3>3. RecvTypeOK'
      BY <2>9, HandTypes DEF Store, Stored, Without, RecvTypeOK
    <3>4. ClientTypeOK'
      BY <2>9, HandTypes DEF Store, Stored, Without, ClientTypeOK
    <3>5. PastTypeOK'
      BY <2>9, HandTypes DEF Store, Stored, Without, PastTypeOK
    <3>6. QED
      BY <3>1, <3>2, <3>3, <3>4, <3>5
  <2>10. CASE EchoSend
    <3>1. ServerTypeOK'
      BY <2>10, HandTypes DEF EchoSend, ServerTypeOK
    <3>2. MainTypeOK'
      BY <2>10, HandTypes DEF EchoSend, MainTypeOK
    <3>3. RecvTypeOK'
      BY <2>10, HandTypes DEF EchoSend, RecvTypeOK
    <3>4. ClientTypeOK'
      <4>1. Echo(rmsg) \in Message
        BY <2>10, HandTypes DEF EchoSend
      <4>2. toClient' = toClient \/ toClient' = Append(toClient, Echo(rmsg))
        BY <2>10 DEF EchoSend
      <4>3. QED
        BY <2>10, <4>1, <4>2 DEF EchoSend, ClientTypeOK
    <3>5. PastTypeOK'
      BY <2>10, HandTypes DEF EchoSend, PastTypeOK
    <3>6. QED
      BY <3>1, <3>2, <3>3, <3>4, <3>5
  <2>11. CASE EchoLoad
    BY <2>11 DEF EchoLoad,
       ServerTypeOK, MainTypeOK, RecvTypeOK, ClientTypeOK, PastTypeOK
  <2>12. CASE EchoBump
    BY <2>12 DEF EchoBump,
       ServerTypeOK, MainTypeOK, RecvTypeOK, ClientTypeOK, PastTypeOK
  <2>13. CASE ProcessRequest
    <3>1. ServerTypeOK'
      BY <2>13, HandTypes DEF ProcessRequest, ServerTypeOK
    <3>2. MainTypeOK'
      BY <2>13, HandTypes DEF ProcessRequest, MainTypeOK
    <3>3. RecvTypeOK'
      BY <2>13, HandTypes DEF ProcessRequest, RecvTypeOK
    <3>4. ClientTypeOK'
      BY <2>13, HandTypes DEF ProcessRequest, ClientTypeOK
    <3>5. PastTypeOK'
      BY <2>13, HandTypes DEF ProcessRequest, PastTypeOK
    <3>6. QED
      BY <3>1, <3>2, <3>3, <3>4, <3>5
  <2>14. CASE Forget
    BY <2>14 DEF Forget, Without,
       ServerTypeOK, MainTypeOK, RecvTypeOK, ClientTypeOK, PastTypeOK
  <2>15. CASE LaunchDone
    BY <2>15 DEF LaunchDone,
       ServerTypeOK, MainTypeOK, RecvTypeOK, ClientTypeOK, PastTypeOK
  <2>16. CASE TakeCallback
    BY <2>16 DEF TakeCallback,
       ServerTypeOK, MainTypeOK, RecvTypeOK, ClientTypeOK, PastTypeOK
  <2>17. CASE FinishCallback
    BY <2>17 DEF FinishCallback,
       ServerTypeOK, MainTypeOK, RecvTypeOK, ClientTypeOK, PastTypeOK
  <2>18. CASE BeginCall
    BY <2>18, LengthAssumption DEF BeginCall,
       ServerTypeOK, MainTypeOK, RecvTypeOK, ClientTypeOK, PastTypeOK
  <2>19. CASE SendAll
    <3>1. ServerTypeOK'
      BY <2>19, HandTypes DEF SendAll, ServerTypeOK
    <3>2. MainTypeOK'
      BY <2>19, HandTypes DEF SendAll, MainTypeOK
    <3>3. RecvTypeOK'
      BY <2>19, HandTypes DEF SendAll, RecvTypeOK
    <3>4. ClientTypeOK'
      BY <2>19, HandTypes, SMTT(20) DEF SendAll, ClientTypeOK
    <3>5. PastTypeOK'
      BY <2>19, HandTypes DEF SendAll, PastTypeOK
    <3>6. QED
      BY <3>1, <3>2, <3>3, <3>4, <3>5
  <2>20. CASE SendLoad
    BY <2>20 DEF SendLoad,
       ServerTypeOK, MainTypeOK, RecvTypeOK, ClientTypeOK, PastTypeOK
  <2>21. CASE SendBump
    BY <2>21 DEF SendBump,
       ServerTypeOK, MainTypeOK, RecvTypeOK, ClientTypeOK, PastTypeOK
  <2>22. CASE PollTimeout
    <3>1. ServerTypeOK'
      BY <2>22, BoundsAssumption DEF PollTimeout, ServerTypeOK
    <3>2. MainTypeOK'
      BY <2>22, BoundsAssumption DEF PollTimeout, MainTypeOK
    <3>3. RecvTypeOK'
      BY <2>22, BoundsAssumption DEF PollTimeout, RecvTypeOK
    <3>4. ClientTypeOK'
      BY <2>22, BoundsAssumption DEF PollTimeout, ClientTypeOK
    <3>5. PastTypeOK'
      BY <2>22, BoundsAssumption DEF PollTimeout, PastTypeOK
    <3>6. QED
      BY <3>1, <3>2, <3>3, <3>4, <3>5
  <2>23. CASE PollQueue
    BY <2>23 DEF PollQueue,
       ServerTypeOK, MainTypeOK, RecvTypeOK, ClientTypeOK, PastTypeOK
  <2>24. CASE PollTake
    BY <2>24 DEF PollTake, Without,
       ServerTypeOK, MainTypeOK, RecvTypeOK, ClientTypeOK, PastTypeOK
  <2>25. CASE PollPeek
    <3>1. call.ref \in Nat
      BY <2>25, HandTypes DEF PollPeek, Message
    <3>2. peeked' \in Nat
      BY <2>25, <3>1 DEF PollPeek, PastTypeOK
    <3>3. MainTypeOK'
      BY <2>25 DEF PollPeek, MainTypeOK, ServerTypeOK
    <3>4. ServerTypeOK' /\ RecvTypeOK' /\ ClientTypeOK'
      BY <2>25 DEF PollPeek, ServerTypeOK, RecvTypeOK, ClientTypeOK
    <3>5. PastTypeOK'
      BY <2>25, <3>2 DEF PollPeek, PastTypeOK
    <3>6. QED
      BY <3>3, <3>4, <3>5
  <2>26. CASE SendReturn
    BY <2>26 DEF SendReturn,
       ServerTypeOK, MainTypeOK, RecvTypeOK, ClientTypeOK, PastTypeOK
  <2>27. CASE Relaunch
    <3>1. ServerTypeOK'
      <4>1. callbacks' \in Seq(Nat)
        <5>1. CASE rpc \in Handling
          <6>1. rmsg.ref \in Nat
            BY <5>1, HandTypes
          <6>2. callbacks' = callbacks \/ callbacks' = Append(callbacks, rmsg.ref)
            BY <2>27 DEF Relaunch
          <6>3. QED
            BY <6>1, <6>2 DEF ServerTypeOK
        <5>2. CASE rpc \notin Handling
          BY <2>27, <5>2 DEF Relaunch, ServerTypeOK
        <5>3. QED
          BY <5>1, <5>2
      <4>2. connected' = FALSE /\ messageId' = 1 /\ queue' = {} /\ received' = None
        BY <2>27 DEF Relaunch
      <4>3. QED
        BY <4>1, <4>2 DEF ServerTypeOK
    <3>2. MainTypeOK'
      BY <2>27, HandTypes DEF Relaunch, MainTypeOK
    <3>3. RecvTypeOK'
      BY <2>27, HandTypes DEF Relaunch, RecvTypeOK
    <3>4. ClientTypeOK'
      BY <2>27, HandTypes DEF Relaunch, ClientTypeOK
    <3>5. PastTypeOK'
      BY <2>27, HandTypes DEF Relaunch, PastTypeOK
    <3>6. QED
      BY <3>1, <3>2, <3>3, <3>4, <3>5
  <2>28. CASE UNCHANGED vars
    BY <2>28 DEF vars, ServerTypeOK, MainTypeOK, RecvTypeOK, ClientTypeOK, PastTypeOK
  <2>29. QED
    BY <2>1, <2>2, <2>3, <2>4, <2>5, <2>6, <2>7, <2>8, <2>9, <2>10, <2>11, <2>12, <2>13, <2>14, <2>15, <2>16, <2>17, <2>18, <2>19, <2>20, <2>21, <2>22, <2>23, <2>24, <2>25, <2>26, <2>27, <2>28
       DEF Next, ClientNext, ReceiveStep, MainStep, SendStep, PollStep
<1>3. QED
  BY <1>1, <1>2, PTL DEF Spec

-----------------------------------------------------------------------------
(***************************************************************************)
(* The receive thread survives the first launch.  The argument: no call of *)
(* the first launch ever carries message id 1, because the main thread     *)
(* only sends inside callbacks, callbacks only come from client requests,  *)
(* and storing any message moves message_id past 1 before that.  So no     *)
(* call can take the queue entry, stored under 1, that Forget deletes.     *)
(***************************************************************************)

\* The thread has stored a client request and not forgotten it yet.
Echoing == {"echo", "echoLoad", "echoBump", "process", "forget"}

Numbered      == {m \in Message : m.id >= 1}
ClientMessage == {m \in Message : \/ m.kind = "menu" /\ m.id = 1
                                  \/ m.kind = "reply" /\ m.id >= 1}

IdsInv ==
  /\ messageId >= 1
  /\ mpc = "bump" => mreg >= 1
  /\ rpc = "echoBump" => rreg >= 1
  /\ mpc \in Calling => call \in Numbered
  /\ toClient \in Seq(Numbered)
  /\ inbuf \in Seq(Numbered)

KindsInv ==
  /\ toServer \in Seq(ClientMessage)
  /\ received \in ClientMessage \cup {None}
  /\ rpc \in Handling => rmsg \in ClientMessage
  /\ rpc \in Echoing => rmsg.kind = "menu" /\ rmsg.id = 1

FirstLaunchInv ==
  launches = 1 =>
    /\ rpc \in Echoing \/ callbacks # <<>> \/ mpc \notin {"launch", "idle"}
         => messageId >= 2
    /\ mpc = "bump" => mreg >= 2
    /\ rpc = "echoBump" => rreg >= 2
    /\ mpc \in Calling => call.id >= 2
    /\ rpc \in Echoing => InQueue(1)
    /\ rpc = "dead" => ~clientUp

SurvivalInv == launches >= 1 /\ IdsInv /\ KindsInv /\ FirstLaunchInv

\* A message of the client is a reply or a request of its menu, and these are numbered 1.
LEMMA ClientKinds ==
  \A m \in ClientMessage : m.kind = "reply" \/ (m.kind = "menu" /\ m.id = 1)
  BY DEF ClientMessage

\* The numeric variables are natural numbers, and a message handled, in a
\* call or at the head of the client's buffer is one.
LEMMA NumberTypes ==
  ASSUME TypeOK
  PROVE  /\ messageId \in Nat /\ mreg \in Nat /\ rreg \in Nat
         /\ calls \in Nat /\ menus \in Nat /\ launches \in Nat
  BY DEF TypeOK, ServerTypeOK, MainTypeOK, RecvTypeOK, PastTypeOK

\* How the constructors act on the ids.
LEMMA MessageIds ==
  /\ \A c, i, l \in Nat : Call(c, i, l).id = i /\ (i >= 1 => Call(c, i, l) \in Numbered)
  /\ \A m \in Numbered : Reply(m) \in ClientMessage /\ Echo(m) \in Numbered
  /\ \A k \in Nat : Menu(k) \in ClientMessage
  /\ ClientMessage \subseteq Numbered
  /\ None \notin ClientMessage
  /\ <<>> \in Seq(Numbered) /\ <<>> \in Seq(ClientMessage)
<1>1. \A c, i, l \in Nat : Call(c, i, l).id = i /\ (i >= 1 => Call(c, i, l) \in Numbered)
  BY MessageTypes DEF Call, Numbered
<1>2. ASSUME NEW m \in Numbered
      PROVE  Reply(m) \in ClientMessage /\ Echo(m) \in Numbered
  <2>1. m \in Message /\ m.id >= 1
    BY DEF Numbered
  <2>2. Reply(m) \in Message /\ Echo(m) \in Message
    BY <2>1, MessageTypes
  <2>3. Reply(m).kind = "reply" /\ Reply(m).id = m.id /\ Echo(m).id = m.id
    BY <2>1 DEF Reply, Echo, Message
  <2>4. QED
    BY <2>1, <2>2, <2>3 DEF Numbered, ClientMessage
<1>3. ASSUME NEW k \in Nat
      PROVE  Menu(k) \in ClientMessage
  <2>1. Menu(k) \in Message
    BY MessageTypes
  <2>2. QED
    BY <2>1 DEF ClientMessage, Menu
<1>4. ClientMessage \subseteq Numbered /\ None \notin ClientMessage
  BY MessageTypes DEF ClientMessage, Numbered
<1>5. QED
  BY <1>1, <1>2, <1>3, <1>4

\* Every step keeps the ids positive.
LEMMA IdsStep ==
  TypeOK /\ IdsInv /\ KindsInv /\ [Next]_vars => IdsInv'
<1> SUFFICES ASSUME TypeOK, IdsInv, KindsInv, [Next]_vars
             PROVE  IdsInv'
  OBVIOUS
<1> USE DEF IdsInv, KindsInv, Handling, Calling, serverVars, mainVars, recvVars, clientVars, pastVars
<1>1. CASE ClientConnect
  BY <1>1 DEF ClientConnect, ClientRequest
<1>2. CASE ClientMenu
  BY <1>2 DEF ClientMenu, ClientRequest
<1>3. CASE ClientReadyRead
  BY <1>3, SplitTypes DEF ClientReadyRead
<1>4. CASE ClientProcessBuffer
  BY <1>4, MessageIds DEF ClientProcessBuffer
<1>5. CASE ClientQuit
  BY <1>5, MessageIds DEF ClientQuit
<1>6. CASE Receive
  BY <1>6 DEF Receive
<1>7. CASE ReceiveClosed
  BY <1>7 DEF ReceiveClosed
<1>8. CASE Parse
  BY <1>8 DEF Parse
<1>9. CASE Store
  <2>1. rmsg.id \in Nat /\ rmsg.id >= 1
    BY <1>9, HandTypes, MessageIds DEF Store, Numbered
  <2>2. messageId' = rmsg.id + 1
    BY <1>9 DEF Store
  <2>3. QED
    BY <1>9, <2>1, <2>2 DEF Store
<1>10. CASE EchoSend
  <2>1. Echo(rmsg) \in Numbered
    BY <1>10, MessageIds DEF EchoSend
  <2>2. toClient' = toClient \/ toClient' = Append(toClient, Echo(rmsg))
    BY <1>10 DEF EchoSend
  <2>3. toClient' \in Seq(Numbered)
    BY <2>1, <2>2, SMTT(20)
  <2>4. QED
    BY <1>10, <2>3 DEF EchoSend
<1>11. CASE EchoLoad
  BY <1>11 DEF EchoLoad
<1>12. CASE EchoBump
  BY <1>12, NumberTypes DEF EchoBump
<1>13. CASE ProcessRequest
  BY <1>13 DEF ProcessRequest
<1>14. CASE Forget
  BY <1>14 DEF Forget, Without
<1>15. CASE LaunchDone
  BY <1>15 DEF LaunchDone
<1>16. CASE TakeCallback
  BY <1>16 DEF TakeCallback
<1>17. CASE FinishCallback
  BY <1>17 DEF FinishCallback
<1>18. CASE BeginCall
  <2>1. PICK l \in CallLens : call' = Call(calls + 1, messageId, l)
    BY <1>18 DEF BeginCall
  <2>2. l \in Nat /\ calls + 1 \in Nat /\ messageId \in Nat
    BY NumberTypes, LengthAssumption
  <2>3. call' \in Numbered
    BY <2>1, <2>2, MessageIds
  <2>4. QED
    BY <1>18, <2>3 DEF BeginCall
<1>19. CASE SendAll
  <2>1. toClient' = toClient \/ toClient' = Append(toClient, call)
    BY <1>19 DEF SendAll
  <2>2. toClient' \in Seq(Numbered)
    BY <1>19, <2>1, SMTT(20) DEF SendAll
  <2>3. QED
    BY <1>19, <2>2 DEF SendAll
<1>20. CASE SendLoad
  BY <1>20 DEF SendLoad
<1>21. CASE SendBump
  BY <1>21, NumberTypes DEF SendBump
<1>22. CASE PollTimeout
  BY <1>22 DEF PollTimeout
<1>23. CASE PollQueue
  BY <1>23 DEF PollQueue
<1>24. CASE PollTake
  BY <1>24 DEF PollTake, Without
<1>25. CASE PollPeek
  BY <1>25 DEF PollPeek
<1>26. CASE SendReturn
  BY <1>26 DEF SendReturn
<1>27. CASE Relaunch
  BY <1>27, MessageIds DEF Relaunch
<1>28. CASE UNCHANGED vars
  BY <1>28 DEF vars
<1>29. QED
  BY <1>1, <1>2, <1>3, <1>4, <1>5, <1>6, <1>7, <1>8, <1>9, <1>10, <1>11, <1>12, <1>13, <1>14,
     <1>15, <1>16, <1>17, <1>18, <1>19, <1>20, <1>21, <1>22, <1>23, <1>24, <1>25, <1>26, <1>27, <1>28
     DEF Next, ClientNext, ReceiveStep, MainStep, SendStep, PollStep

\* Every step keeps what the client sends well-formed.
LEMMA KindsStep ==
  TypeOK /\ IdsInv /\ KindsInv /\ [Next]_vars => KindsInv'
<1> SUFFICES ASSUME TypeOK, IdsInv, KindsInv, [Next]_vars
             PROVE  KindsInv'
  OBVIOUS
<1> USE DEF KindsInv, Handling, Echoing, serverVars, mainVars, recvVars, clientVars, pastVars
<1>1. CASE ClientConnect
  <2>1. Menu(menus + 1) \in ClientMessage
    BY NumberTypes, MessageIds
  <2>2. toServer' = Append(toServer, Menu(menus + 1))
    BY <1>1 DEF ClientConnect, ClientRequest
  <2>3. toServer' \in Seq(ClientMessage)
    BY <2>1, <2>2
  <2>4. QED
    BY <1>1, <2>3, MessageIds DEF ClientConnect
<1>2. CASE ClientMenu
  <2>1. Menu(menus + 1) \in ClientMessage
    BY NumberTypes, MessageIds
  <2>2. toServer' = Append(toServer, Menu(menus + 1))
    BY <1>2 DEF ClientMenu, ClientRequest
  <2>3. toServer' \in Seq(ClientMessage)
    BY <2>1, <2>2
  <2>4. QED
    BY <1>2, <2>3, MessageIds DEF ClientMenu
<1>3. CASE ClientReadyRead
  BY <1>3 DEF ClientReadyRead
<1>4. CASE ClientProcessBuffer
  <2>1. Head(inbuf) \in Numbered
    BY <1>4 DEF ClientProcessBuffer, IdsInv
  <2>2. toServer' = toServer \/ toServer' = Append(toServer, Reply(Head(inbuf)))
    BY <1>4 DEF ClientProcessBuffer
  <2>3. Reply(Head(inbuf)) \in ClientMessage
    BY <2>1, MessageIds
  <2>4. toServer' \in Seq(ClientMessage)
    BY <2>2, <2>3
  <2>5. QED
    BY <1>4, <2>4 DEF ClientProcessBuffer
<1>5. CASE ClientQuit
  BY <1>5 DEF ClientQuit
<1>6. CASE Receive
  BY <1>6, MessageIds DEF Receive
<1>7. CASE ReceiveClosed
  BY <1>7 DEF ReceiveClosed
<1>8. CASE Parse
  BY <1>8, MessageIds DEF Parse
<1>9. CASE Store
  <2>1. rmsg \in ClientMessage
    BY <1>9 DEF Store
  <2>2. rmsg.kind = "reply" \/ (rmsg.kind = "menu" /\ rmsg.id = 1)
    BY <2>1, ClientKinds
  <2>3. QED
    BY <1>9, <2>1, <2>2 DEF Store
<1>10. CASE EchoSend
  BY <1>10 DEF EchoSend
<1>11. CASE EchoLoad
  BY <1>11 DEF EchoLoad
<1>12. CASE EchoBump
  BY <1>12 DEF EchoBump
<1>13. CASE ProcessRequest
  BY <1>13 DEF ProcessRequest
<1>14. CASE Forget
  BY <1>14 DEF Forget, Without
<1>15. CASE LaunchDone
  BY <1>15 DEF LaunchDone
<1>16. CASE TakeCallback
  BY <1>16 DEF TakeCallback
<1>17. CASE FinishCallback
  BY <1>17 DEF FinishCallback
<1>18. CASE BeginCall
  BY <1>18 DEF BeginCall
<1>19. CASE SendAll
  BY <1>19 DEF SendAll
<1>20. CASE SendLoad
  BY <1>20 DEF SendLoad
<1>21. CASE SendBump
  BY <1>21 DEF SendBump
<1>22. CASE PollTimeout
  BY <1>22 DEF PollTimeout
<1>23. CASE PollQueue
  BY <1>23 DEF PollQueue
<1>24. CASE PollTake
  BY <1>24 DEF PollTake, Without
<1>25. CASE PollPeek
  BY <1>25 DEF PollPeek
<1>26. CASE SendReturn
  BY <1>26, MessageIds DEF SendReturn
<1>27. CASE Relaunch
  BY <1>27, MessageIds DEF Relaunch
<1>28. CASE UNCHANGED vars
  BY <1>28 DEF vars
<1>29. QED
  BY <1>1, <1>2, <1>3, <1>4, <1>5, <1>6, <1>7, <1>8, <1>9, <1>10, <1>11, <1>12, <1>13, <1>14,
     <1>15, <1>16, <1>17, <1>18, <1>19, <1>20, <1>21, <1>22, <1>23, <1>24, <1>25, <1>26, <1>27, <1>28
     DEF Next, ClientNext, ReceiveStep, MainStep, SendStep, PollStep

\* Every step keeps the facts about the first launch.
LEMMA FirstLaunchStep ==
  TypeOK /\ launches >= 1 /\ KindsInv /\ FirstLaunchInv /\ [Next]_vars => FirstLaunchInv'
<1> SUFFICES ASSUME TypeOK, launches >= 1, KindsInv, FirstLaunchInv, [Next]_vars
             PROVE  FirstLaunchInv'
  OBVIOUS
<1> USE DEF FirstLaunchInv, Handling, Calling, Echoing, InQueue, serverVars, mainVars, recvVars, clientVars, pastVars
<1>1. CASE ClientConnect
  BY <1>1 DEF ClientConnect, ClientRequest
<1>2. CASE ClientMenu
  BY <1>2 DEF ClientMenu, ClientRequest
<1>3. CASE ClientReadyRead
  BY <1>3 DEF ClientReadyRead
<1>4. CASE ClientProcessBuffer
  BY <1>4 DEF ClientProcessBuffer
<1>5. CASE ClientQuit
  BY <1>5 DEF ClientQuit
<1>6. CASE Receive
  BY <1>6 DEF Receive
<1>7. CASE ReceiveClosed
  BY <1>7 DEF ReceiveClosed
<1>8. CASE Parse
  BY <1>8 DEF Parse
<1>9. CASE Store
  <2>1. rmsg.id \in Nat /\ rmsg.id >= 1
    BY <1>9, HandTypes, MessageIds DEF Store, Numbered, KindsInv
  <2>2. messageId' >= 2
    BY <1>9, <2>1 DEF Store
  <2>3. rpc' \in Echoing => InQueue(1)'
    <3>1. rmsg.kind # "reply" => rmsg.id = 1
      BY <1>9, ClientKinds DEF Store, KindsInv
    <3>2. [key |-> rmsg.id, msg |-> rmsg] \in queue'
      BY <1>9 DEF Store, Stored
    <3>3. QED
      BY <1>9, <3>1, <3>2 DEF Store
  <2>4. QED
    BY <1>9, <2>2, <2>3 DEF Store
<1>10. CASE EchoSend
  BY <1>10 DEF EchoSend
<1>11. CASE EchoLoad
  BY <1>11 DEF EchoLoad
<1>12. CASE EchoBump
  BY <1>12, NumberTypes DEF EchoBump
<1>13. CASE ProcessRequest
  BY <1>13 DEF ProcessRequest
<1>14. CASE Forget
  <2>1. launches = 1 => InQueue(1) /\ rmsg.id = 1
    BY <1>14 DEF Forget, KindsInv
  <2>2. QED
    BY <1>14, <2>1 DEF Forget
<1>15. CASE LaunchDone
  BY <1>15 DEF LaunchDone
<1>16. CASE TakeCallback
  BY <1>16 DEF TakeCallback
<1>17. CASE FinishCallback
  BY <1>17 DEF FinishCallback
<1>18. CASE BeginCall
  <2>1. PICK l \in CallLens : call' = Call(calls + 1, messageId, l)
    BY <1>18 DEF BeginCall
  <2>2. l \in Nat /\ calls + 1 \in Nat /\ messageId \in Nat
    BY NumberTypes, LengthAssumption
  <2>3. call'.id = messageId
    BY <2>1, <2>2, MessageIds
  <2>4. QED
    BY <1>18, <2>3 DEF BeginCall
<1>19. CASE SendAll
  BY <1>19 DEF SendAll
<1>20. CASE SendLoad
  BY <1>20 DEF SendLoad
<1>21. CASE SendBump
  BY <1>21, NumberTypes DEF SendBump
<1>22. CASE PollTimeout
  BY <1>22 DEF PollTimeout
<1>23. CASE PollQueue
  BY <1>23 DEF PollQueue
<1>24. CASE PollTake
  <2>1. launches = 1 /\ InQueue(1) => InQueue(1)'
    BY <1>24 DEF PollTake, Without
  <2>2. QED
    BY <1>24, <2>1 DEF PollTake
<1>25. CASE PollPeek
  BY <1>25 DEF PollPeek
<1>26. CASE SendReturn
  BY <1>26 DEF SendReturn
<1>27. CASE Relaunch
  BY <1>27, NumberTypes DEF Relaunch
<1>28. CASE UNCHANGED vars
  BY <1>28 DEF vars
<1>29. QED
  BY <1>1, <1>2, <1>3, <1>4, <1>5, <1>6, <1>7, <1>8, <1>9, <1>10, <1>11, <1>12, <1>13, <1>14,
     <1>15, <1>16, <1>17, <1>18, <1>19, <1>20, <1>21, <1>22, <1>23, <1>24, <1>25, <1>26, <1>27, <1>28
     DEF Next, ClientNext, ReceiveStep, MainStep, SendStep, PollStep

\* The three parts of the invariant hold in every reachable state.
LEMMA SurvivalInvariant == Spec => []SurvivalInv
<1>1. Init => SurvivalInv
  <2> SUFFICES ASSUME Init
               PROVE  SurvivalInv
    OBVIOUS
  <2>1. launches >= 1
    BY DEF Init
  <2>2. IdsInv
    BY MessageIds DEF Init, IdsInv, Calling
  <2>3. KindsInv
    BY MessageIds DEF Init, KindsInv, Handling, Echoing
  <2>4. FirstLaunchInv
    BY DEF Init, FirstLaunchInv, Echoing, Calling
  <2>5. QED
    BY <2>1, <2>2, <2>3, <2>4 DEF SurvivalInv
<1>2. TypeOK /\ SurvivalInv /\ [Next]_vars => SurvivalInv'
  <2> SUFFICES ASSUME TypeOK, SurvivalInv, [Next]_vars
               PROVE  SurvivalInv'
    OBVIOUS
  <2>1. launches' >= 1
    <3>1. launches' = launches \/ launches' = launches + 1
      BY DEF Next, ClientNext, ReceiveStep, MainStep, SendStep, PollStep, vars,
             pastVars, ClientConnect, ClientMenu, ClientReadyRead, ClientProcessBuffer, ClientQuit, Receive, ReceiveClosed, Parse, Store, EchoSend, EchoLoad, EchoBump, ProcessRequest, Forget, LaunchDone, TakeCallback, FinishCallback, BeginCall, SendAll, SendLoad, SendBump, PollTimeout, PollQueue, PollTake, PollPeek, SendReturn, Relaunch
    <3>2. QED
      BY <3>1, NumberTypes DEF SurvivalInv
  <2>2. QED
    BY <2>1, IdsStep, KindsStep, FirstLaunchStep DEF SurvivalInv
<1>3. QED
  BY <1>1, <1>2, TypeCorrect, PTL DEF Spec

\* Nothing but quitting Harmony ends the receive thread of the first launch:
\* the entry that Forget deletes is always still there (server.py receive).
THEOREM FirstReceiverSurvives == Spec => []ReceiverSurvivesFirstLaunch
<1>1. SurvivalInv => ReceiverSurvivesFirstLaunch
  BY DEF SurvivalInv, FirstLaunchInv, ReceiverSurvivesFirstLaunch
<1>2. QED
  BY <1>1, SurvivalInvariant, PTL

-----------------------------------------------------------------------------
(***************************************************************************)
(* HarmonyRpc implements LossyFifo.  A menu request passes three places:   *)
(* the socket, the hand of the receive thread, and the callback queue.     *)
(* The invariant is that requests never overtake each other, neither in a  *)
(* place nor from one place to the next, so that the head of the callback  *)
(* queue is the oldest request of all.                                     *)
(***************************************************************************)
Waiting  == Range(callbacks)
Handled  == RefsOf(Held)
OnTheWay == RefsOf(Range(toServer))

Below(A, B) == \A a \in A, b \in B : a < b
Rising(s) == \A i, j \in DOMAIN s : i < j => s[i] < s[j]
MenusRise(s) ==
  \A i, j \in DOMAIN s : i < j /\ s[i].kind = "menu" /\ s[j].kind = "menu" => s[i].ref < s[j].ref

OrderInv ==
  /\ Rising(callbacks) /\ MenusRise(toServer)
  /\ Below(Waiting, Handled) /\ Below(Waiting, OnTheWay) /\ Below(Handled, OnTheWay)
  /\ \A k \in Waiting \cup Handled \cup OnTheWay : k <= menus

\* What a step has to show: it keeps the order and is a step of LossyFifo.
FifoStep == OrderInv' /\ [Fifo!Next]_(Fifo!vars)

\* The menu requests in a union, and in one message.
LEMMA Refs ==
  /\ \A A, B : RefsOf(A \cup B) = RefsOf(A) \cup RefsOf(B)
  /\ \A m : m.kind = "menu" => RefsOf({m}) = {m.ref}
  /\ \A m : m.kind # "menu" => RefsOf({m}) = {}
  /\ RefsOf({}) = {}
  BY DEF RefsOf

\* What a sequence holds after one more element.
LEMMA AppendRange ==
  ASSUME NEW S, NEW s \in Seq(S), NEW x \in S
  PROVE  Range(Append(s, x)) = Range(s) \cup {x}
<1> DEFINE t == Append(s, x)
<1>1. /\ Len(s) \in Nat /\ DOMAIN s = 1..Len(s) /\ DOMAIN t = 1..(Len(s) + 1)
      /\ t[Len(s) + 1] = x /\ \A i \in 1..Len(s) : t[i] = s[i]
  OBVIOUS
<1> HIDE DEF t
<1>2. \A i \in 1..(Len(s) + 1) : i \in 1..Len(s) \/ i = Len(s) + 1
  BY <1>1
<1>3. Len(s) + 1 \in DOMAIN t /\ \A i \in DOMAIN s : i \in DOMAIN t
  BY <1>1
<1>4. Range(t) = Range(s) \cup {x}
  BY <1>1, <1>2, <1>3, Zenon DEF Range
<1> QED
  BY <1>4 DEF t

\* What a sequence holds, by its head and its tail.
LEMMA SplitRange ==
  ASSUME NEW S, NEW s \in Seq(S), s # <<>>
  PROVE  Range(s) = {Head(s)} \cup Range(Tail(s))
<1>1. /\ Len(s) \in Nat /\ Len(s) >= 1 /\ DOMAIN s = 1..Len(s)
      /\ DOMAIN Tail(s) = 1..(Len(s) - 1) /\ Head(s) = s[1]
      /\ \A i \in 1..(Len(s) - 1) : Tail(s)[i] = s[i + 1]
  OBVIOUS
<1>2. ASSUME NEW x \in Range(s)
      PROVE  x \in {Head(s)} \cup Range(Tail(s))
  <2>1. PICK i \in 1..Len(s) : x = s[i]
    BY <1>1 DEF Range
  <2>2. CASE i = 1
    BY <1>1, <2>1, <2>2
  <2>3. CASE i # 1
    <3>1. i - 1 \in 1..(Len(s) - 1) /\ Tail(s)[i - 1] = s[i]
      BY <1>1, <2>1, <2>3
    <3> QED
      BY <1>1, <2>1, <3>1 DEF Range
  <2> QED
    BY <2>2, <2>3
<1>3. ASSUME NEW x \in {Head(s)} \cup Range(Tail(s))
      PROVE  x \in Range(s)
  <2>1. CASE x = Head(s)
    BY <1>1, <2>1 DEF Range
  <2>2. CASE x \in Range(Tail(s))
    <3>1. PICK i \in 1..(Len(s) - 1) : x = Tail(s)[i]
      BY <1>1, <2>2 DEF Range
    <3>2. i + 1 \in 1..Len(s) /\ x = s[i + 1]
      BY <1>1, <3>1
    <3> QED
      BY <1>1, <3>2 DEF Range
  <2> QED
    BY <1>3, <2>1, <2>2
<1> QED
  BY <1>2, <1>3

\* A rising queue has its smallest number at its head, and its tail rises; so
\* it does with a number above all others at its end.
LEMMA RisingQueue ==
  ASSUME NEW s \in Seq(Nat), Rising(s)
  PROVE  /\ s # <<>> => Rising(Tail(s)) /\ Below({Head(s)}, Range(Tail(s)))
         /\ \A k \in Nat : Below(Range(s), {k}) => Rising(Append(s, k))
<1>1. ASSUME s # <<>>
      PROVE  Rising(Tail(s)) /\ Below({Head(s)}, Range(Tail(s)))
  <2>1. /\ Len(s) \in Nat /\ Len(s) >= 1 /\ DOMAIN s = 1..Len(s)
        /\ DOMAIN Tail(s) = 1..(Len(s) - 1) /\ Head(s) = s[1]
        /\ \A i \in 1..(Len(s) - 1) : Tail(s)[i] = s[i + 1]
    BY <1>1
  <2>2. Rising(Tail(s))
    BY <2>1 DEF Rising
  <2>3. Below({Head(s)}, Range(Tail(s)))
    BY <2>1 DEF Rising, Below, Range
  <2> QED
    BY <2>2, <2>3
<1>2. ASSUME NEW k \in Nat, Below(Range(s), {k})
      PROVE  Rising(Append(s, k))
  BY <1>2 DEF Rising, Below, Range
<1> QED
  BY <1>1, <1>2

\* The same of the menu requests in a sequence of messages.
LEMMA RisingMessages ==
  ASSUME NEW s \in Seq(ClientMessage), MenusRise(s)
  PROVE  /\ s # <<>> => MenusRise(Tail(s)) /\ Below(RefsOf({Head(s)}), RefsOf(Range(Tail(s))))
         /\ \A m \in ClientMessage :
              Below(RefsOf(Range(s)), RefsOf({m})) => MenusRise(Append(s, m))
<1>1. ASSUME s # <<>>
      PROVE  MenusRise(Tail(s)) /\ Below(RefsOf({Head(s)}), RefsOf(Range(Tail(s))))
  <2>1. /\ Len(s) \in Nat /\ Len(s) >= 1 /\ DOMAIN s = 1..Len(s)
        /\ DOMAIN Tail(s) = 1..(Len(s) - 1) /\ Head(s) = s[1]
        /\ \A i \in 1..(Len(s) - 1) : Tail(s)[i] = s[i + 1]
    BY <1>1
  <2>2. MenusRise(Tail(s))
    BY <2>1 DEF MenusRise
  <2>3. Below(RefsOf({Head(s)}), RefsOf(Range(Tail(s))))
    BY <2>1 DEF MenusRise, Below, Range, RefsOf
  <2> QED
    BY <2>2, <2>3
<1>2. ASSUME NEW m \in ClientMessage, Below(RefsOf(Range(s)), RefsOf({m}))
      PROVE  MenusRise(Append(s, m))
  <2>1. ASSUME NEW i \in 1..Len(s), s[i].kind = "menu", m.kind = "menu"
        PROVE  s[i].ref < m.ref
    BY <1>2, <2>1 DEF Below, Range, RefsOf
  <2> QED
    BY <2>1 DEF MenusRise
<1> QED
  BY <1>1, <1>2

\* The requests anywhere are numbers, and the receive thread has one at most.
LEMMA PlaceTypes ==
  ASSUME TypeOK
  PROVE  \A k \in Waiting \cup Handled \cup OnTheWay : k \in Nat
<1>1. \A m \in Message \cup {None} : m.ref \in Nat
  BY DEF Message, None
<1>2. Waiting \subseteq Nat
  BY DEF TypeOK, ServerTypeOK, Waiting, Range
<1>3. Handled \subseteq Nat
  BY <1>1 DEF TypeOK, ServerTypeOK, RecvTypeOK, Handled, Held, RefsOf
<1>4. OnTheWay \subseteq Nat
  BY <1>1 DEF TypeOK, ClientTypeOK, OnTheWay, Range, RefsOf
<1> QED
  BY <1>2, <1>3, <1>4

\* A step that loses some of what is handled or on the way, or nothing.
LEMMA LosingStep ==
  ASSUME OrderInv, UNCHANGED <<callbacks, menus, executed>>, Handled' \subseteq Handled,
         OnTheWay' \subseteq OnTheWay, MenusRise(toServer')
  PROVE  FifoStep
<1>1. UNCHANGED Waiting
  BY DEF Waiting
<1>2. OrderInv'
  BY <1>1 DEF OrderInv, Below
<1>3. Fifo!Lose
  BY <1>1 DEF Fifo!Lose, Waiting, Handled, OnTheWay
<1> QED
  BY <1>2, <1>3 DEF FifoStep, Fifo!Next

\* A new request is on the way behind all others.
LEMMA PostStep ==
  ASSUME TypeOK, KindsInv, OrderInv, ClientRequest, UNCHANGED <<callbacks, executed>>,
         Handled' = Handled
  PROVE  FifoStep
<1>1. menus \in Nat /\ Menu(menus + 1) \in ClientMessage /\ toServer \in Seq(ClientMessage)
  BY NumberTypes, MessageIds DEF KindsInv
<1>2. menus' = menus + 1 /\ toServer' = Append(toServer, Menu(menus + 1))
  BY DEF ClientRequest
<1>3. RefsOf({Menu(menus + 1)}) = {menus + 1}
  BY Refs DEF Menu
<1>4. OnTheWay' = OnTheWay \cup {menus + 1}
  BY <1>1, <1>2, <1>3, AppendRange, Refs DEF OnTheWay
<1>5. UNCHANGED Waiting
  BY DEF Waiting
<1>6. \A k \in Waiting \cup Handled \cup OnTheWay : k < menus + 1
  <2>1. \A k \in Waiting \cup Handled \cup OnTheWay : k \in Nat
    BY PlaceTypes
  <2> QED
    BY <1>1, <2>1 DEF OrderInv
<1>7. MenusRise(toServer')
  <2>1. Below(OnTheWay, RefsOf({Menu(menus + 1)}))
    BY <1>3, <1>6 DEF Below
  <2> QED
    BY <1>1, <1>2, <2>1, RisingMessages DEF OrderInv, OnTheWay
<1>8. OrderInv'
  <2>1. Below(Waiting, Handled)' /\ Below(Waiting, OnTheWay)' /\ Below(Handled, OnTheWay)'
    BY <1>4, <1>5, <1>6 DEF OrderInv, Below
  <2>2. \A k \in (Waiting \cup Handled \cup OnTheWay)' : k <= menus'
    <3>1. \A k \in Waiting \cup Handled \cup OnTheWay : k \in Nat
      BY PlaceTypes
    <3> QED
      BY <1>1, <1>2, <1>4, <1>5, <1>6, <3>1
  <2> QED
    BY <1>7, <2>1, <2>2 DEF OrderInv
<1>9. Fifo!Post
  BY <1>2, <1>4, <1>5 DEF Fifo!Post, Waiting, Handled, OnTheWay
<1> QED
  BY <1>8, <1>9 DEF FifoStep, Fifo!Next

\* The receive thread takes the first message of the socket in hand.
LEMMA ReceiveStepOrder ==
  ASSUME TypeOK, KindsInv, OrderInv, Receive
  PROVE  FifoStep
<1>1. /\ rpc = "recv" /\ rpc' = "parse" /\ toServer # <<>> /\ received' = Head(toServer)
      /\ toServer' = Tail(toServer) /\ UNCHANGED <<callbacks, menus, executed>>
  BY DEF Receive, pastVars
<1>2. toServer \in Seq(ClientMessage)
  BY DEF KindsInv
<1>3. Handled = {} /\ Handled' = RefsOf({Head(toServer)})
  BY <1>1, Refs DEF Handled, Held, RefsOf
<1>4. OnTheWay = Handled' \cup OnTheWay'
  BY <1>1, <1>2, <1>3, SplitRange, Refs DEF OnTheWay
<1>5. MenusRise(toServer') /\ Below(Handled, OnTheWay)'
  BY <1>1, <1>2, <1>3, RisingMessages DEF OrderInv, OnTheWay
<1>6. UNCHANGED Waiting
  BY <1>1 DEF Waiting
<1>7. OrderInv'
  BY <1>1, <1>3, <1>4, <1>5, <1>6 DEF OrderInv, Below
<1>8. UNCHANGED Fifo!vars
  BY <1>1, <1>3, <1>4, <1>6 DEF Fifo!vars, Waiting, Handled, OnTheWay
<1> QED
  BY <1>7, <1>8 DEF FifoStep

\* The request in hand goes to the end of the callback queue; what is still
\* on the way may be lost with the connection.
LEMMA QueueStep ==
  ASSUME TypeOK, OrderInv, UNCHANGED <<menus, executed>>, Handled = {rmsg.ref},
         callbacks' = Append(callbacks, rmsg.ref), Handled' = {},
         OnTheWay' \subseteq OnTheWay, MenusRise(toServer')
  PROVE  FifoStep
<1>1. callbacks \in Seq(Nat) /\ rmsg.ref \in Nat
  BY PlaceTypes DEF TypeOK, ServerTypeOK
<1>2. Waiting' = Waiting \cup Handled
  BY <1>1, AppendRange DEF Waiting
<1>3. Rising(callbacks')
  BY <1>1, RisingQueue DEF OrderInv, Waiting
<1>4. OrderInv'
  BY <1>2, <1>3 DEF OrderInv, Below
<1>5. Fifo!Lose
  BY <1>2 DEF Fifo!Lose, Waiting, Handled, OnTheWay
<1> QED
  BY <1>4, <1>5 DEF FifoStep, Fifo!Next

\* The main thread takes the head of the callback queue: the oldest request.
LEMMA TakeStep ==
  ASSUME TypeOK, OrderInv, TakeCallback
  PROVE  FifoStep
<1> DEFINE k == Head(callbacks)
<1>1. /\ callbacks # <<>> /\ callbacks' = Tail(callbacks) /\ executed' = Append(executed, k)
      /\ UNCHANGED <<menus, rpc, rmsg, received, toServer>>
  BY DEF TakeCallback, serverVars, recvVars, clientVars
<1>2. callbacks \in Seq(Nat) /\ k \in Nat
  BY <1>1 DEF TypeOK, ServerTypeOK
<1>3. UNCHANGED <<Handled, OnTheWay>>
  BY <1>1 DEF Handled, Held, OnTheWay
<1>4. Waiting = {k} \cup Waiting'
  BY <1>1, <1>2, SplitRange DEF Waiting
<1>5. Rising(callbacks') /\ Below({k}, Waiting')
  BY <1>1, <1>2, RisingQueue DEF OrderInv, Waiting
<1> HIDE DEF k
<1>6. OrderInv'
  BY <1>1, <1>3, <1>4, <1>5 DEF OrderInv, Below
<1>7. \A j \in Waiting' \cup Handled \cup OnTheWay : k < j /\ j \in Nat
  BY <1>4, <1>5, PlaceTypes DEF OrderInv, Below
<1>8. k \notin Waiting' \cup Handled \cup OnTheWay
  BY <1>2, <1>7
<1>9. Fifo!Execute
  <2> DEFINE pending == Waiting \cup Handled \cup OnTheWay
  <2>1. k \in pending /\ \A j \in pending : k <= j
    BY <1>2, <1>4, <1>7
  <2>2. pending' = pending \ {k}
    BY <1>3, <1>4, <1>8
  <2>3. executed' = Append(executed, k) /\ menus' = menus
    BY <1>1
  <2>4. \E n \in pending : /\ \A j \in pending : n <= j
                           /\ pending' = pending \ {n}
                           /\ executed' = Append(executed, n)
    BY <2>1, <2>2, <2>3
  <2> QED
    BY <2>3, <2>4 DEF Fifo!Execute, Waiting, Handled, OnTheWay
<1> QED
  BY <1>6, <1>9 DEF FifoStep, Fifo!Next

\* Every step of Harmony's client.
LEMMA ClientOrder ==
  ASSUME TypeOK, IdsInv, KindsInv, OrderInv, ClientNext
  PROVE  FifoStep
<1> USE DEF serverVars, mainVars, recvVars, pastVars
<1>1. CASE ClientConnect
  <2>1. Handled' = Handled
    BY <1>1 DEF ClientConnect, Handled, Held
  <2> QED
    BY <1>1, <2>1, PostStep DEF ClientConnect
<1>2. CASE ClientMenu
  <2>1. Handled' = Handled
    BY <1>2 DEF ClientMenu, Handled, Held
  <2> QED
    BY <1>2, <2>1, PostStep DEF ClientMenu
<1>3. CASE ClientReadyRead \/ ClientQuit
  <2>1. UNCHANGED <<callbacks, toServer, menus, executed, rpc, rmsg, received>>
    BY <1>3 DEF ClientReadyRead, ClientQuit
  <2>2. UNCHANGED <<Handled, OnTheWay>>
    BY <2>1 DEF Handled, Held, OnTheWay
  <2> QED
    BY <2>1, <2>2, LosingStep DEF OrderInv
<1>4. CASE ClientProcessBuffer
  <2> DEFINE r == Reply(Head(inbuf))
  <2>1. UNCHANGED <<callbacks, menus, executed, rpc, rmsg, received>>
        /\ toServer' \in {toServer, Append(toServer, r)} /\ inbuf # <<>>
    BY <1>4 DEF ClientProcessBuffer
  <2>2. Head(inbuf) \in Numbered /\ toServer \in Seq(ClientMessage)
    BY <2>1 DEF IdsInv, KindsInv
  <2>3. r \in ClientMessage /\ r.kind = "reply"
    BY <2>2, MessageIds DEF Reply, Numbered, Message
  <2>4. RefsOf({r}) = {}
    BY <2>3, Refs
  <2> HIDE DEF r
  <2>5. UNCHANGED <<Handled, OnTheWay>>
    <3>1. Handled' = Handled
      BY <2>1 DEF Handled, Held
    <3>2. Range(Append(toServer, r)) = Range(toServer) \cup {r}
      BY <2>2, <2>3, AppendRange
    <3>3. RefsOf(Range(Append(toServer, r))) = OnTheWay
      BY <2>4, <3>2, Refs DEF OnTheWay
    <3> QED
      BY <2>1, <3>1, <3>3 DEF OnTheWay
  <2>6. MenusRise(toServer')
    BY <2>1, <2>2, <2>3, <2>4, RisingMessages DEF OrderInv, Below
  <2> QED
    BY <2>1, <2>5, <2>6, LosingStep
<1> QED
  BY <1>1, <1>2, <1>3, <1>4 DEF ClientNext

\* Every step of the receive thread.
LEMMA ReceiveOrder ==
  ASSUME TypeOK, KindsInv, OrderInv, ReceiveStep
  PROVE  FifoStep
<1> USE DEF serverVars, mainVars, recvVars, clientVars, pastVars
<1>1. CASE Receive
  BY <1>1, ReceiveStepOrder
<1>2. CASE ReceiveClosed \/ Parse \/ Store \/ EchoSend \/ EchoLoad \/ EchoBump \/ Forget
  <2>1. UNCHANGED <<callbacks, toServer, menus, executed>>
    BY <1>2 DEF ReceiveClosed, Parse, Store, EchoSend, EchoLoad, EchoBump, Forget
  <2>2. Held' \in {Held, {}, {None}}
    BY <1>2 DEF ReceiveClosed, Parse, Store, EchoSend, EchoLoad, EchoBump, Forget, Held
  <2>3. RefsOf({None}) = {}
    BY Refs DEF None
  <2>4. Handled' \subseteq Handled
    BY <2>2, <2>3, Refs DEF Handled
  <2>5. UNCHANGED OnTheWay
    BY <2>1 DEF OnTheWay
  <2> QED
    BY <2>1, <2>4, <2>5, LosingStep DEF OrderInv
<1>3. CASE ProcessRequest
  <2>1. rpc = "process" /\ rpc' = "forget" /\ UNCHANGED <<toServer, menus, executed>>
    BY <1>3 DEF ProcessRequest
  <2>2. rmsg.kind = "menu"
    BY <2>1 DEF KindsInv, Echoing
  <2>3. Handled = {rmsg.ref} /\ Handled' = {}
    BY <2>1, <2>2, Refs DEF Handled, Held
  <2>4. OnTheWay' = OnTheWay /\ MenusRise(toServer')
    BY <2>1 DEF OnTheWay, OrderInv
  <2>5. CASE Ready
    <3>1. callbacks' = Append(callbacks, rmsg.ref)
      BY <1>3, <2>5 DEF ProcessRequest
    <3> QED
      BY <2>1, <2>3, <2>4, <3>1, QueueStep
  <2>6. CASE ~Ready
    <3>1. callbacks' = callbacks
      BY <1>3, <2>6 DEF ProcessRequest
    <3> QED
      BY <2>1, <2>3, <2>4, <3>1, LosingStep
  <2> QED
    BY <2>5, <2>6
<1> QED
  BY <1>1, <1>2, <1>3 DEF ReceiveStep

\* Every step of the main thread.
LEMMA MainOrder ==
  ASSUME TypeOK, KindsInv, OrderInv, MainStep
  PROVE  FifoStep
<1> USE DEF serverVars, mainVars, recvVars, clientVars, pastVars
<1>1. CASE TakeCallback
  BY <1>1, TakeStep
<1>2. CASE Relaunch
  <2>1. toServer' = <<>> /\ rpc' = "accept" /\ UNCHANGED <<menus, executed>>
    BY <1>2 DEF Relaunch
  <2>2. Handled' = {} /\ OnTheWay' = {} /\ MenusRise(toServer')
    BY <2>1, Refs DEF Handled, Held, OnTheWay, Range, MenusRise
  <2>3. CASE rpc \in {"echoLoad", "echoBump", "process"}
    <3>1. rmsg.kind = "menu"
      BY <2>3 DEF KindsInv, Echoing
    <3>2. Handled = {rmsg.ref}
      BY <2>3, <3>1, Refs DEF Handled, Held
    <3>3. callbacks' = Append(callbacks, rmsg.ref)
      BY <1>2, <2>3 DEF Relaunch
    <3> QED
      BY <2>1, <2>2, <3>2, <3>3, QueueStep
  <2>4. CASE rpc \notin {"echoLoad", "echoBump", "process"}
    <3>1. callbacks' = callbacks
      BY <1>2, <2>4 DEF Relaunch
    <3> QED
      BY <2>1, <2>2, <3>1, LosingStep
  <2> QED
    BY <2>3, <2>4
<1>3. CASE LaunchDone \/ FinishCallback \/ BeginCall \/ SendStep
  <2>1. /\ UNCHANGED <<callbacks, toServer, menus, executed, rpc, rmsg>>
        /\ received' \in {received, None}
    BY <1>3 DEF LaunchDone, FinishCallback, BeginCall, SendStep, PollStep, SendAll, SendLoad,
                SendBump, PollTimeout, PollQueue, PollTake, PollPeek, SendReturn
  <2>2. Held' \in {Held, {None}}
    BY <2>1 DEF Held
  <2>3. RefsOf({None}) = {}
    BY Refs DEF None
  <2>4. Handled' \subseteq Handled
    BY <2>2, <2>3 DEF Handled
  <2>5. UNCHANGED OnTheWay
    BY <2>1 DEF OnTheWay
  <2> QED
    BY <2>1, <2>4, <2>5, LosingStep DEF OrderInv
<1> QED
  BY <1>1, <1>2, <1>3 DEF MainStep

\* The initial states of the connection are those of LossyFifo.
LEMMA FifoInit == Init => OrderInv /\ Fifo!Init
<1> SUFFICES ASSUME Init
             PROVE  OrderInv /\ Fifo!Init
  OBVIOUS
<1>1. callbacks = <<>> /\ toServer = <<>> /\ rpc = "accept" /\ menus = 0 /\ executed = <<>>
  BY DEF Init
<1>2. Waiting = {} /\ Handled = {} /\ OnTheWay = {}
  BY <1>1, Refs DEF Waiting, Handled, Held, OnTheWay, Range
<1>3. OrderInv
  BY <1>1, <1>2 DEF OrderInv, Rising, MenusRise, Below
<1>4. Fifo!Init
  BY <1>1, <1>2 DEF Fifo!Init, Waiting, Handled, OnTheWay
<1> QED
  BY <1>3, <1>4

\* Every step of the connection is a step of LossyFifo or changes nothing of it.
LEMMA FifoSimulation ==
  TypeOK /\ SurvivalInv /\ OrderInv /\ [Next]_vars => FifoStep
<1> SUFFICES ASSUME TypeOK, SurvivalInv, OrderInv, [Next]_vars
             PROVE  FifoStep
  OBVIOUS
<1>1. IdsInv /\ KindsInv
  BY DEF SurvivalInv
<1>2. CASE UNCHANGED vars
  <2>1. UNCHANGED <<callbacks, toServer, menus, executed, rpc, rmsg, received>>
    BY <1>2 DEF vars, serverVars, recvVars, clientVars, pastVars
  <2>2. UNCHANGED <<Handled, OnTheWay>>
    BY <2>1 DEF Handled, Held, OnTheWay
  <2> QED
    BY <2>1, <2>2, LosingStep DEF OrderInv
<1> QED
  BY <1>1, <1>2, ClientOrder, ReceiveOrder, MainOrder DEF Next

\* The requests of Harmony's menu are executed at most once each, and in the
\* order they were made, for any number of calls, requests and launches: the
\* connection implements LossyFifo (server.py receive and process_request,
\* lib.py main_thread_listen).
THEOREM ImplementsFifo == Spec => MenuRequestsFifo
<1>1. TypeOK /\ SurvivalInv /\ OrderInv /\ [Next]_vars
        => OrderInv' /\ [Fifo!Next]_(Fifo!vars)
  BY FifoSimulation DEF FifoStep
<1> QED
  BY <1>1, FifoInit, TypeCorrect, SurvivalInvariant, PTL DEF Spec, MenuRequestsFifo, Fifo!Spec

-----------------------------------------------------------------------------
(***************************************************************************)
(* One copy per call.  A call travels through six places: the socket, the  *)
(* client's buffer, and as a reply the socket back, Server.received, the   *)
(* receive thread and the queue.  The invariant says which calls each      *)
(* place holds, none of them twice and no call in two places.              *)
(***************************************************************************)
IsCall(m)    == m.kind \in {"call", "reply"}
CallRefs(ms) == {m.ref : m \in {x \in ms : IsCall(x)}}
Once(s) ==
  \A i, j \in DOMAIN s : IsCall(s[i]) /\ IsCall(s[j]) /\ s[i].ref = s[j].ref => i = j

Entries == {e.msg : e \in queue}

At == <<CallRefs(Range(toClient)), CallRefs(Range(inbuf)), CallRefs(Range(toServer)),
        CallRefs({received}), CallRefs({rmsg}), CallRefs(Entries)>>

InFlight == UNION {At[p] : p \in 1..6}

ServerMessage == {m \in Message : m.kind \in {"call", "echo"}}

PlacesInv ==
  /\ toClient \in Seq(ServerMessage) /\ inbuf \in Seq(ServerMessage)
  /\ rpc # "store" => ~IsCall(rmsg)
  /\ received # None => rpc = "parse"
  /\ call # None => call \in ServerMessage /\ call.kind = "call" /\ call.ref = calls
  /\ \A e \in queue : e.msg \in ClientMessage /\ e.key = e.msg.id

\* The last call that has left the main thread.
Sent == IF mpc = "send" THEN calls - 1 ELSE calls

OneEntry ==
  \A d, e \in queue : IsCall(d.msg) /\ IsCall(e.msg) /\ d.msg.ref = e.msg.ref => d = e

CopyInv ==
  /\ Once(toClient) /\ Once(inbuf) /\ Once(toServer)
  /\ OneEntry
  /\ \A p, q \in 1..6 : p # q => At[p] \cap At[q] = {}
  /\ \A r \in InFlight : r <= Sent

\* What a step may do to the calls under way: lose some, or send the next.
Moved ==
  \/ InFlight' \subseteq InFlight
  \/ /\ mpc = "send" /\ mpc' = "load" /\ call' = call
     /\ InFlight' \subseteq InFlight \cup {call.ref}

\* The calls in a union, and in one message.
LEMMA CallSets ==
  /\ \A A, B : CallRefs(A \cup B) = CallRefs(A) \cup CallRefs(B)
  /\ \A A, B : A \subseteq B => CallRefs(A) \subseteq CallRefs(B)
  /\ \A m : IsCall(m) => CallRefs({m}) = {m.ref}
  /\ \A m : ~IsCall(m) => CallRefs({m}) = {}
  /\ CallRefs({}) = {}
  BY DEF CallRefs

\* Two sequences without a copy, and without a common call, joined.
LEMMA OnceConcat ==
  ASSUME NEW S, NEW s \in Seq(S), NEW t \in Seq(S), Once(s), Once(t),
         CallRefs(Range(s)) \cap CallRefs(Range(t)) = {}
  PROVE  /\ Once(s \o t)
         /\ CallRefs(Range(s \o t)) = CallRefs(Range(s)) \cup CallRefs(Range(t))
<1> DEFINE u == s \o t
<1>1. /\ Len(s) \in Nat /\ Len(t) \in Nat /\ DOMAIN s = 1..Len(s) /\ DOMAIN t = 1..Len(t)
      /\ DOMAIN u = 1..(Len(s) + Len(t)) /\ \A i \in 1..Len(s) : u[i] = s[i]
      /\ \A i \in 1..Len(t) : u[Len(s) + i] = t[i]
  OBVIOUS
<1> HIDE DEF u
<1>2. ASSUME NEW i \in DOMAIN u, i \notin 1..Len(s)
      PROVE  i - Len(s) \in 1..Len(t) /\ u[i] = t[i - Len(s)]
  <2>1. i - Len(s) \in 1..Len(t) /\ Len(s) + (i - Len(s)) = i
    BY <1>1, <1>2
  <2> QED
    BY <1>1, <2>1
<1>3. Range(u) = Range(s) \cup Range(t)
  <2>1. ASSUME NEW i \in DOMAIN u
        PROVE  u[i] \in Range(s) \cup Range(t)
    BY <1>1, <1>2 DEF Range
  <2>2. Range(s) \subseteq Range(u)
    BY <1>1 DEF Range
  <2>3. Range(t) \subseteq Range(u)
    <3> SUFFICES ASSUME NEW i \in DOMAIN t
                 PROVE  t[i] \in Range(u)
      BY DEF Range
    <3>1. Len(s) + i \in DOMAIN u /\ u[Len(s) + i] = t[i]
      BY <1>1
    <3> QED
      BY <3>1 DEF Range
  <2> QED
    BY <2>1, <2>2, <2>3 DEF Range
<1>4. ASSUME NEW i \in DOMAIN s, NEW j \in DOMAIN t, IsCall(s[i]), IsCall(t[j])
      PROVE  s[i].ref # t[j].ref
  <2>1. s[i].ref \in CallRefs(Range(s)) /\ t[j].ref \in CallRefs(Range(t))
    BY <1>4 DEF CallRefs, Range
  <2> QED
    BY <2>1
<1>5. Once(u)
  <2> SUFFICES ASSUME NEW i \in DOMAIN u, NEW j \in DOMAIN u, IsCall(u[i]), IsCall(u[j]),
                      u[i].ref = u[j].ref
               PROVE  i = j
    BY DEF Once
  <2>1. CASE i \in 1..Len(s) /\ j \in 1..Len(s)
    BY <1>1, <2>1 DEF Once
  <2>2. CASE i \notin 1..Len(s) /\ j \notin 1..Len(s)
    <3>1. /\ i - Len(s) \in DOMAIN t /\ u[i] = t[i - Len(s)]
          /\ j - Len(s) \in DOMAIN t /\ u[j] = t[j - Len(s)]
      BY <1>1, <1>2, <2>2
    <3>2. i - Len(s) = j - Len(s)
      BY <3>1 DEF Once
    <3> QED
      BY <1>1, <3>2
  <2>3. CASE i \in 1..Len(s) /\ j \notin 1..Len(s)
    BY <1>1, <1>2, <1>4, <2>3
  <2>4. CASE i \notin 1..Len(s) /\ j \in 1..Len(s)
    BY <1>1, <1>2, <1>4, <2>4
  <2> QED
    BY <2>1, <2>2, <2>3, <2>4
<1> QED
  BY <1>3, <1>5, CallSets DEF u

\* A sequence without a copy cut in two.
LEMMA OnceSplit ==
  ASSUME NEW S, NEW s \in Seq(S), NEW n \in 1..Len(s), Once(s)
  PROVE  LET a == SubSeq(s, 1, n)
             b == SubSeq(s, n + 1, Len(s))
         IN  /\ Once(a) /\ Once(b)
             /\ CallRefs(Range(a)) \cap CallRefs(Range(b)) = {}
             /\ CallRefs(Range(s)) = CallRefs(Range(a)) \cup CallRefs(Range(b))
<1> DEFINE a == SubSeq(s, 1, n)
           b == SubSeq(s, n + 1, Len(s))
<1>1. /\ Len(s) \in Nat /\ DOMAIN s = 1..Len(s) /\ n \in Nat
      /\ DOMAIN a = 1..n /\ DOMAIN b = 1..(Len(s) - n)
      /\ \A i \in 1..n : a[i] = s[i]
      /\ \A i \in 1..(Len(s) - n) : b[i] = s[n + i]
  BY SubSeqProperties
<1> HIDE DEF a, b
<1>2. Once(a)
  BY <1>1 DEF Once
<1>3. Once(b)
  <2> SUFFICES ASSUME NEW i \in DOMAIN b, NEW j \in DOMAIN b, IsCall(b[i]), IsCall(b[j]),
                      b[i].ref = b[j].ref
               PROVE  i = j
    BY DEF Once
  <2>1. n + i \in DOMAIN s /\ n + j \in DOMAIN s /\ b[i] = s[n + i] /\ b[j] = s[n + j]
    BY <1>1
  <2>2. n + i = n + j
    BY <2>1 DEF Once
  <2> QED
    BY <1>1, <2>2
<1>4. Range(s) = Range(a) \cup Range(b)
  <2>1. Range(a) \subseteq Range(s) /\ Range(b) \subseteq Range(s)
    <3>1. \A i \in DOMAIN b : n + i \in DOMAIN s /\ b[i] = s[n + i]
      BY <1>1
    <3>2. \A i \in DOMAIN a : i \in DOMAIN s /\ a[i] = s[i]
      BY <1>1
    <3> QED
      BY <3>1, <3>2 DEF Range
  <2>2. ASSUME NEW i \in DOMAIN s
        PROVE  s[i] \in Range(a) \cup Range(b)
    <3>1. CASE i \in 1..n
      BY <1>1, <3>1 DEF Range
    <3>2. CASE i \notin 1..n
      <4>1. i - n \in DOMAIN b /\ b[i - n] = s[i]
        BY <1>1, <3>2
      <4> QED
        BY <4>1 DEF Range
    <3> QED
      BY <3>1, <3>2
  <2> QED
    BY <2>1, <2>2 DEF Range
<1>5. CallRefs(Range(a)) \cap CallRefs(Range(b)) = {}
  <2> SUFFICES ASSUME NEW i \in DOMAIN a, NEW j \in DOMAIN b, IsCall(a[i]), IsCall(b[j]),
                      a[i].ref = b[j].ref
               PROVE  FALSE
    BY DEF CallRefs, Range
  <2>1. i \in DOMAIN s /\ n + j \in DOMAIN s /\ a[i] = s[i] /\ b[j] = s[n + j] /\ i # n + j
    BY <1>1
  <2> QED
    BY <2>1 DEF Once
<1> QED
  BY <1>2, <1>3, <1>4, <1>5, CallSets DEF a, b

\* A sequence without a copy, by its head and its tail.
LEMMA OnceTail ==
  ASSUME NEW S, NEW s \in Seq(S), s # <<>>, Once(s)
  PROVE  /\ Once(Tail(s))
         /\ CallRefs({Head(s)}) \cap CallRefs(Range(Tail(s))) = {}
         /\ CallRefs(Range(s)) = CallRefs({Head(s)}) \cup CallRefs(Range(Tail(s)))
<1>1. /\ Len(s) \in Nat /\ Len(s) >= 1 /\ DOMAIN s = 1..Len(s)
      /\ DOMAIN Tail(s) = 1..(Len(s) - 1) /\ Head(s) = s[1]
      /\ \A i \in 1..(Len(s) - 1) : Tail(s)[i] = s[i + 1]
  OBVIOUS
<1>2. \A i, j \in 1..(Len(s) - 1) : i + 1 = j + 1 => i = j
  BY <1>1
<1>3. Once(Tail(s))
  BY <1>1, <1>2 DEF Once
<1>4. CallRefs({Head(s)}) \cap CallRefs(Range(Tail(s))) = {}
  <2> SUFFICES ASSUME NEW i \in 1..(Len(s) - 1), IsCall(s[1]), IsCall(s[i + 1]),
                      s[1].ref = s[i + 1].ref
               PROVE  FALSE
    BY <1>1 DEF CallRefs, Range
  <2>1. 1 \in DOMAIN s /\ i + 1 \in DOMAIN s /\ i + 1 # 1
    BY <1>1
  <2> QED
    BY <2>1 DEF Once
<1> QED
  BY <1>3, <1>4, SplitRange, CallSets

\* A sequence without a copy, and one more message.
LEMMA OnceAppend ==
  ASSUME NEW S, NEW s \in Seq(S), NEW m \in S, Once(s),
         CallRefs(Range(s)) \cap CallRefs({m}) = {}
  PROVE  /\ Once(Append(s, m))
         /\ CallRefs(Range(Append(s, m))) = CallRefs(Range(s)) \cup CallRefs({m})
<1>1. ASSUME NEW i \in DOMAIN s, IsCall(s[i]), IsCall(m)
      PROVE  s[i].ref # m.ref
  BY <1>1 DEF CallRefs, Range
<1>2. Once(Append(s, m))
  BY <1>1 DEF Once
<1> QED
  BY <1>2, AppendRange, CallSets

\* What a message has to do with calls.
LEMMA CallKinds ==
  /\ ~IsCall(None) /\ \A k : ~IsCall(Menu(k))
  /\ \A m \in ServerMessage : /\ m \in Message /\ Echo(m) \in ServerMessage /\ ~IsCall(Echo(m))
                              /\ m.kind # "echo" => /\ IsCall(m) /\ IsCall(Reply(m))
                                                    /\ Reply(m).ref = m.ref
                              /\ m.kind = "echo" => ~IsCall(m)
  /\ \A m \in ClientMessage : /\ m.kind # "reply" => ~IsCall(m)
                              /\ Echo(m) \in ServerMessage /\ ~IsCall(Echo(m))
  /\ \A c, i, l \in Nat : Call(c, i, l) \in ServerMessage
  /\ <<>> \in Seq(ServerMessage)
<1>1. ~IsCall(None) /\ \A k : ~IsCall(Menu(k))
  BY DEF IsCall, None, Menu
<1>2. ASSUME NEW m \in Message
      PROVE  Echo(m) \in ServerMessage /\ ~IsCall(Echo(m)) /\ Reply(m).ref = m.ref
             /\ IsCall(Reply(m))
  <2>1. Echo(m) \in Message /\ Echo(m).kind = "echo"
    BY MessageTypes DEF Echo, Message
  <2> QED
    BY <2>1 DEF ServerMessage, IsCall, Reply, Message
<1>3. \A c, i, l \in Nat : Call(c, i, l) \in ServerMessage
  BY MessageTypes DEF ServerMessage, Call
<1> QED
  BY <1>1, <1>2, <1>3 DEF ServerMessage, ClientMessage, IsCall

\* Every step keeps messages to the places where their kind belongs.
LEMMA PlacesStep ==
  TypeOK /\ KindsInv /\ PlacesInv /\ [Next]_vars => PlacesInv'
<1> SUFFICES ASSUME TypeOK, KindsInv, PlacesInv, [Next]_vars
             PROVE  PlacesInv'
  OBVIOUS
<1> USE DEF PlacesInv, serverVars, mainVars, recvVars, clientVars, pastVars
<1>1. CASE ClientConnect \/ ClientMenu
  BY <1>1 DEF ClientConnect, ClientMenu, ClientRequest
<1>2. CASE ClientReadyRead
  <2>1. PICK n \in 1..Len(toClient) : /\ inbuf' = inbuf \o SubSeq(toClient, 1, n)
                                      /\ toClient' = SubSeq(toClient, n + 1, Len(toClient))
    BY <1>2 DEF ClientReadyRead
  <2>2. toClient' \in Seq(ServerMessage) /\ inbuf' \in Seq(ServerMessage)
    BY <2>1, SplitTypes
  <2> QED
    BY <1>2, <2>2 DEF ClientReadyRead
<1>3. CASE ClientProcessBuffer
  BY <1>3 DEF ClientProcessBuffer
<1>4. CASE ClientQuit
  BY <1>4, CallKinds DEF ClientQuit
<1>5. CASE Receive
  BY <1>5 DEF Receive
<1>6. CASE ReceiveClosed
  BY <1>6 DEF ReceiveClosed
<1>7. CASE Parse
  BY <1>7, CallKinds DEF Parse
<1>8. CASE Store
  <2>1. rpc = "store" /\ rmsg \in ClientMessage
    BY <1>8 DEF Store, KindsInv, Handling
  <2>2. rpc' # "store" => ~IsCall(rmsg')
    BY <1>8, <2>1, CallKinds DEF Store
  <2>3. \A e \in queue' : e.msg \in ClientMessage /\ e.key = e.msg.id
    BY <1>8, <2>1 DEF Store, Stored, Without
  <2> QED
    BY <1>8, <2>1, <2>2, <2>3 DEF Store
<1>9. CASE EchoSend
  <2>1. rpc = "echo" /\ Echo(rmsg) \in ServerMessage
    BY <1>9, CallKinds DEF EchoSend, KindsInv, Handling
  <2>2. toClient' = toClient \/ toClient' = Append(toClient, Echo(rmsg))
    BY <1>9 DEF EchoSend
  <2>3. toClient' \in Seq(ServerMessage)
    BY <2>1, <2>2
  <2> QED
    BY <1>9, <2>1, <2>3 DEF EchoSend
<1>10. CASE EchoLoad \/ EchoBump \/ ProcessRequest
  BY <1>10 DEF EchoLoad, EchoBump, ProcessRequest
<1>11. CASE Forget
  BY <1>11, CallKinds DEF Forget, Without
<1>12. CASE LaunchDone \/ TakeCallback \/ FinishCallback
  BY <1>12 DEF LaunchDone, TakeCallback, FinishCallback
<1>13. CASE BeginCall
  <2>1. PICK l \in CallLens : call' = Call(calls + 1, messageId, l)
    BY <1>13 DEF BeginCall
  <2>2. calls + 1 \in Nat /\ messageId \in Nat /\ l \in Nat
    BY NumberTypes, LengthAssumption
  <2>3. call' \in ServerMessage /\ call'.kind = "call" /\ call'.ref = calls + 1
    BY <2>1, <2>2, CallKinds DEF Call
  <2> QED
    BY <1>13, <2>3 DEF BeginCall
<1>14. CASE SendAll
  <2>1. mpc = "send" /\ call # None
    BY <1>14 DEF SendAll, TypeOK, MainTypeOK, Calling
  <2>2. toClient' = toClient \/ toClient' = Append(toClient, call)
    BY <1>14 DEF SendAll
  <2>3. toClient' \in Seq(ServerMessage)
    BY <2>1, <2>2
  <2>4. call' = call \/ call' = None
    BY <1>14 DEF SendAll
  <2> QED
    BY <1>14, <2>3, <2>4 DEF SendAll
<1>15. CASE SendLoad \/ SendBump \/ PollTimeout \/ PollQueue \/ PollPeek
  BY <1>15 DEF SendLoad, SendBump, PollTimeout, PollQueue, PollPeek
<1>16. CASE PollTake
  BY <1>16 DEF PollTake, Without
<1>17. CASE SendReturn
  BY <1>17 DEF SendReturn
<1>18. CASE Relaunch
  BY <1>18, CallKinds DEF Relaunch
<1>19. CASE UNCHANGED vars
  BY <1>19 DEF vars
<1> QED
  BY <1>1, <1>2, <1>3, <1>4, <1>5, <1>6, <1>7, <1>8, <1>9, <1>10, <1>11, <1>12, <1>13, <1>14,
     <1>15, <1>16, <1>17, <1>18, <1>19
     DEF Next, ClientNext, ReceiveStep, MainStep, SendStep, PollStep

\* The calls under way are known by numbers.
LEMMA RefTypes ==
  ASSUME TypeOK
  PROVE  \A r \in InFlight : r \in Nat
<1>1. \A m \in Message \cup {None} : m.ref \in Nat
  BY DEF Message, None
<1>2. \A ms : ms \subseteq Message \cup {None} => CallRefs(ms) \subseteq Nat
  BY <1>1 DEF CallRefs
<1>3. /\ Range(toClient) \subseteq Message /\ Range(inbuf) \subseteq Message
      /\ Range(toServer) \subseteq Message
  BY DEF Range, TypeOK, ClientTypeOK
<1>4. /\ {received} \subseteq Message \cup {None} /\ {rmsg} \subseteq Message \cup {None}
      /\ Entries \subseteq Message
  BY DEF Entries, TypeOK, ServerTypeOK, RecvTypeOK
<1>5. \A i \in 1..6 : At[i] \subseteq Nat
  BY <1>2, <1>3, <1>4 DEF At, Entries
<1> QED
  BY <1>5 DEF InFlight

\* A step that loses calls, or moves some from place p to place q.
LEMMA MovingStep ==
  ASSUME TypeOK, CopyInv, NEW p \in 1..6, NEW q \in 1..6, p # q,
         \A o \in 1..6 : o # q => At'[o] \subseteq At[o],
         At'[q] \subseteq At[q] \cup (At[p] \ At'[p]),
         Once(toClient)', Once(inbuf)', Once(toServer)', OneEntry',
         calls' = calls, mpc' = "send" => mpc = "send"
  PROVE  CopyInv' /\ Moved
<1>1. InFlight' \subseteq InFlight
  BY DEF InFlight
<1>2. \A i, j \in 1..6 : i # j => At'[i] \cap At'[j] = {}
  BY DEF CopyInv
<1>3. \A r \in InFlight' : r <= Sent'
  <2>1. Sent \in Int /\ Sent' \in Int /\ Sent <= Sent'
    BY NumberTypes DEF Sent
  <2>2. \A r \in InFlight : r \in Nat
    BY RefTypes
  <2> QED
    BY <1>1, <2>1, <2>2 DEF CopyInv
<1> QED
  BY <1>1, <1>2, <1>3 DEF CopyInv, Moved

\* A step that loses calls, or nothing.
LEMMA ForgettingStep ==
  ASSUME TypeOK, CopyInv, \A o \in 1..6 : At'[o] \subseteq At[o],
         Once(toClient)', Once(inbuf)', Once(toServer)', OneEntry',
         calls' = calls, mpc' = "send" => mpc = "send"
  PROVE  CopyInv' /\ Moved
<1>1. At'[2] \subseteq At[2] \cup (At[1] \ At'[1])
  OBVIOUS
<1> QED
  BY <1>1, MovingStep

\* Every step of the client.
LEMMA ClientCopies ==
  ASSUME TypeOK, IdsInv, KindsInv, PlacesInv, CopyInv, ClientNext
  PROVE  CopyInv' /\ Moved
<1> USE DEF serverVars, mainVars, recvVars, pastVars
<1>1. UNCHANGED <<mpc, calls, queue, received, rmsg>> /\ OneEntry'
  BY DEF ClientNext, ClientConnect, ClientMenu, ClientReadyRead, ClientProcessBuffer,
         ClientQuit, CopyInv, OneEntry
<1>2. CASE ClientConnect \/ ClientMenu
  <2> DEFINE m == Menu(menus + 1)
  <2>1. UNCHANGED <<toClient, inbuf>> /\ toServer' = Append(toServer, m)
    BY <1>2 DEF ClientConnect, ClientMenu, ClientRequest
  <2>2. m \in ClientMessage /\ toServer \in Seq(ClientMessage) /\ Once(toServer)
    <3>1. menus + 1 \in Nat
      BY NumberTypes
    <3>2. m \in ClientMessage
      BY <3>1, MessageIds
    <3> QED
      BY <3>2 DEF KindsInv, CopyInv
  <2>3. CallRefs({m}) = {}
    BY CallKinds, CallSets
  <2> HIDE DEF m
  <2>4. Once(toServer') /\ CallRefs(Range(toServer')) = CallRefs(Range(toServer))
    <3>1. CallRefs(Range(toServer)) \cap CallRefs({m}) = {}
      BY <2>3
    <3>2. /\ Once(toServer')
          /\ CallRefs(Range(toServer')) = CallRefs(Range(toServer)) \cup CallRefs({m})
      BY <2>1, <2>2, <3>1, OnceAppend
    <3> QED
      BY <2>3, <3>2
  <2>5. At' = At
    BY <1>1, <2>1, <2>4 DEF At, Entries
  <2> QED
    BY <1>1, <2>1, <2>4, <2>5, ForgettingStep DEF CopyInv
<1>3. CASE ClientReadyRead
  <2>1. PICK n \in 1..Len(toClient) : /\ inbuf' = inbuf \o SubSeq(toClient, 1, n)
                                      /\ toClient' = SubSeq(toClient, n + 1, Len(toClient))
    BY <1>3 DEF ClientReadyRead
  <2> DEFINE a == SubSeq(toClient, 1, n)
  <2>2. a \in Seq(ServerMessage) /\ inbuf \in Seq(ServerMessage)
    BY SplitTypes DEF PlacesInv
  <2>3. /\ Once(a) /\ Once(toClient') /\ CallRefs(Range(a)) \cap CallRefs(Range(toClient')) = {}
        /\ CallRefs(Range(toClient)) = CallRefs(Range(a)) \cup CallRefs(Range(toClient'))
    BY <2>1, OnceSplit DEF PlacesInv, CopyInv
  <2> HIDE DEF a
  <2>4. CallRefs(Range(inbuf)) \cap CallRefs(Range(a)) = {}
    <3>1. At[1] \cap At[2] = {}
      BY DEF CopyInv
    <3> QED
      BY <2>3, <3>1 DEF At, Entries
  <2>5. /\ Once(inbuf')
        /\ CallRefs(Range(inbuf')) = CallRefs(Range(inbuf)) \cup CallRefs(Range(a))
    <3>1. Once(inbuf) /\ CallRefs(Range(inbuf)) \cap CallRefs(Range(a)) = {}
      BY <2>4 DEF CopyInv
    <3>2. inbuf' = inbuf \o a
      BY <2>1 DEF a
    <3> QED
      BY <2>2, <2>3, <3>1, <3>2, OnceConcat
  <2>6. toServer' = toServer
    BY <1>3 DEF ClientReadyRead
  <2>7. \A o \in 1..6 : o # 2 => At'[o] \subseteq At[o]
    BY <1>1, <2>3, <2>6 DEF At, Entries
  <2>8. At'[2] \subseteq At[2] \cup (At[1] \ At'[1])
    BY <2>3, <2>5 DEF At, Entries
    <2>9. /\ Once(toClient)' /\ Once(inbuf)' /\ Once(toServer)' /\ OneEntry'
          /\ calls' = calls /\ (mpc' = "send" => mpc = "send")
      BY <1>1, <2>3, <2>5, <2>6 DEF CopyInv, OneEntry
    <2> QED
      BY <2>7, <2>8, <2>9, MovingStep
<1>4. CASE ClientProcessBuffer
  <2> DEFINE h == Head(inbuf)
  <2>1. /\ inbuf # <<>> /\ inbuf' = Tail(inbuf) /\ toClient' = toClient
        /\ \/ h.kind = "echo" /\ toServer' = toServer
           \/ h.kind # "echo" /\ toServer' = Append(toServer, Reply(h))
    BY <1>4 DEF ClientProcessBuffer
  <2>2. inbuf \in Seq(ServerMessage) /\ toServer \in Seq(ClientMessage)
    BY DEF PlacesInv, KindsInv
  <2>3. h \in ServerMessage
    BY <2>1, <2>2
  <2>4. /\ Once(inbuf') /\ CallRefs({h}) \cap CallRefs(Range(inbuf')) = {}
        /\ CallRefs(Range(inbuf)) = CallRefs({h}) \cup CallRefs(Range(inbuf'))
    BY <2>1, <2>2, OnceTail DEF CopyInv
  <2> HIDE DEF h
  <2>5. CASE h.kind = "echo"
    <3>1. toServer' = toServer
      BY <2>1, <2>5
    <3>2. \A o \in 1..6 : At'[o] \subseteq At[o]
      BY <1>1, <2>1, <2>4, <3>1 DEF At, Entries
    <3> QED
      BY <1>1, <2>1, <2>4, <3>1, <3>2, ForgettingStep DEF CopyInv
  <2>6. CASE h.kind # "echo"
    <3>1. toServer' = Append(toServer, Reply(h))
      BY <2>1, <2>6
    <3>2. CallRefs({h}) = {h.ref} /\ CallRefs({Reply(h)}) = {h.ref}
      BY <2>3, <2>6, CallKinds, CallSets
    <3>3. Reply(h) \in ClientMessage
      BY <2>1, MessageIds DEF h, IdsInv
    <3>4. CallRefs(Range(toServer)) \cap CallRefs({Reply(h)}) = {}
      <4>1. At[2] \cap At[3] = {}
        BY DEF CopyInv
      <4> QED
        BY <2>4, <3>2, <4>1 DEF At, Entries
    <3>5. /\ Once(toServer')
          /\ CallRefs(Range(toServer')) = CallRefs(Range(toServer)) \cup {h.ref}
      <4>1. Once(toServer)
        BY DEF CopyInv
      <4> QED
        BY <2>2, <3>1, <3>2, <3>3, <3>4, <4>1, OnceAppend
    <3>6. \A o \in 1..6 : o # 3 => At'[o] \subseteq At[o]
      BY <1>1, <2>1, <2>4 DEF At, Entries
    <3>7. At'[3] \subseteq At[3] \cup (At[2] \ At'[2])
      BY <2>4, <3>2, <3>5 DEF At, Entries
      <3>8. /\ Once(toClient)' /\ Once(inbuf)' /\ Once(toServer)' /\ OneEntry'
            /\ calls' = calls /\ (mpc' = "send" => mpc = "send")
        BY <1>1, <2>1, <2>4, <3>5 DEF CopyInv, OneEntry
      <3> QED
        BY <3>6, <3>7, <3>8, MovingStep
  <2> QED
    BY <2>1, <2>5, <2>6
<1>5. CASE ClientQuit
  <2>1. toClient' = <<>> /\ inbuf' = <<>> /\ toServer' = toServer
    BY <1>5 DEF ClientQuit
  <2>2. Once(toClient') /\ Once(inbuf')
    BY <2>1 DEF Once
  <2>3. CallRefs(Range(<<>>)) = {}
    BY DEF CallRefs, Range
  <2>4. \A o \in 1..6 : At'[o] \subseteq At[o]
    BY <1>1, <2>1, <2>3 DEF At, Entries
  <2> QED
    BY <1>1, <2>1, <2>2, <2>4, ForgettingStep DEF CopyInv
<1> QED
  BY <1>2, <1>3, <1>4, <1>5 DEF ClientNext

\* Every step of the receive thread.
LEMMA ReceiveCopies ==
  ASSUME TypeOK, KindsInv, PlacesInv, CopyInv, ReceiveStep
  PROVE  CopyInv' /\ Moved
<1> USE DEF serverVars, mainVars, clientVars, pastVars
<1>1. UNCHANGED <<mpc, calls, inbuf>>
  BY DEF ReceiveStep, Receive, ReceiveClosed, Parse, Store, EchoSend, EchoLoad, EchoBump,
         ProcessRequest, Forget
<1>2. CASE Receive
  <2>1. /\ toServer # <<>> /\ toServer' = Tail(toServer) /\ received' = Head(toServer)
        /\ UNCHANGED <<toClient, queue, rmsg>>
    BY <1>2 DEF Receive
  <2>2. /\ Once(toServer')
        /\ CallRefs({received'}) \cap CallRefs(Range(toServer')) = {}
        /\ CallRefs(Range(toServer)) = CallRefs({received'}) \cup CallRefs(Range(toServer'))
    BY <2>1, OnceTail DEF CopyInv, KindsInv
  <2>3. \A o \in 1..6 : o # 4 => At'[o] \subseteq At[o]
    BY <1>1, <2>1, <2>2 DEF At, Entries
  <2>4. At'[4] \subseteq At[4] \cup (At[3] \ At'[3])
    BY <2>2 DEF At, Entries
    <2>5. /\ Once(toClient)' /\ Once(inbuf)' /\ Once(toServer)' /\ OneEntry'
          /\ calls' = calls /\ (mpc' = "send" => mpc = "send")
      BY <1>1, <2>1, <2>2 DEF CopyInv, OneEntry
    <2> QED
      BY <2>3, <2>4, <2>5, MovingStep
<1>3. CASE Parse
  <2>1. rmsg' = received /\ received' = None /\ UNCHANGED <<toClient, toServer, queue>>
    BY <1>3 DEF Parse
  <2>2. CallRefs({received'}) = {} /\ Entries' = Entries
    BY <2>1, CallKinds, CallSets DEF Entries
  <2>3. \A o \in 1..6 : o # 5 => At'[o] \subseteq At[o]
    BY <1>1, <2>1, <2>2 DEF At
  <2>4. At'[5] \subseteq At[5] \cup (At[4] \ At'[4])
    BY <2>1, <2>2 DEF At, Entries
    <2>5. /\ Once(toClient)' /\ Once(inbuf)' /\ Once(toServer)' /\ OneEntry'
          /\ calls' = calls /\ (mpc' = "send" => mpc = "send")
      BY <1>1, <2>1 DEF CopyInv, OneEntry
    <2> QED
      BY <2>3, <2>4, <2>5, MovingStep
<1>4. CASE Store
  <2>1. /\ rmsg' \in {rmsg, None} /\ (rmsg.kind = "reply" => rmsg' = None)
        /\ queue' = Stored(rmsg.id, rmsg) /\ UNCHANGED <<toClient, toServer, received>>
        /\ rmsg \in ClientMessage
    BY <1>4 DEF Store, KindsInv, Handling
  <2>2. ASSUME NEW m, m = rmsg'
        PROVE  CallRefs({m}) = {}
    <3>1. ~IsCall(None) /\ (rmsg.kind # "reply" => ~IsCall(rmsg))
      BY <2>1, CallKinds
    <3>2. m = None \/ (m = rmsg /\ rmsg.kind # "reply")
      BY <2>1, <2>2
    <3> QED
      BY <3>1, <3>2, CallSets
  <2>3. CallRefs({rmsg'}) = {}
    BY <2>2
  <2>4. Entries' \subseteq Entries \cup {rmsg}
    BY <2>1 DEF Entries, Stored, Without
  <2>5. CallRefs(Entries') \subseteq CallRefs(Entries) \cup CallRefs({rmsg})
    <3>1. CallRefs(Entries') \subseteq CallRefs(Entries \cup {rmsg})
      BY <2>4, CallSets
    <3>2. CallRefs(Entries \cup {rmsg}) = CallRefs(Entries) \cup CallRefs({rmsg})
      BY CallSets
    <3> QED
      BY <3>1, <3>2
  <2>6. \A o \in 1..6 : o # 6 => At'[o] \subseteq At[o]
    BY <1>1, <2>1, <2>3 DEF At, Entries
  <2>7. At'[6] \subseteq At[6] \cup (At[5] \ At'[5])
    BY <2>3, <2>5 DEF At, Entries
  <2>8. OneEntry'
    <3> SUFFICES ASSUME NEW d \in queue', NEW e \in queue', IsCall(d.msg), IsCall(e.msg),
                        d.msg.ref = e.msg.ref
                 PROVE  d = e
      BY DEF OneEntry
    <3> DEFINE new == [key |-> rmsg.id, msg |-> rmsg]
    <3>1. ASSUME NEW f \in queue, IsCall(f.msg), IsCall(rmsg)
          PROVE  f.msg.ref # rmsg.ref
      <4>1. f.msg.ref \in At[6] /\ rmsg.ref \in At[5]
        BY <3>1 DEF At, Entries, CallRefs
      <4> QED
        BY <4>1 DEF CopyInv
    <3>2. (d \in queue \/ d = new) /\ (e \in queue \/ e = new)
      BY <2>1 DEF Stored, Without
    <3> QED
      BY <3>1, <3>2 DEF CopyInv, OneEntry
  <2> QED
    BY <1>1, <2>1, <2>6, <2>7, <2>8, MovingStep DEF CopyInv
<1>5. CASE EchoSend
  <2>1. /\ toClient' = toClient \/ toClient' = Append(toClient, Echo(rmsg))
        /\ UNCHANGED <<toServer, received, rmsg, queue>> /\ rmsg \in ClientMessage
    BY <1>5 DEF EchoSend, KindsInv, Handling
  <2>2. Echo(rmsg) \in ServerMessage /\ CallRefs({Echo(rmsg)}) = {}
    BY <2>1, CallKinds, CallSets
  <2>3. Once(toClient') /\ CallRefs(Range(toClient')) = CallRefs(Range(toClient))
    <3>1. toClient \in Seq(ServerMessage) /\ Once(toClient)
      BY DEF CopyInv, PlacesInv
    <3>2. CallRefs(Range(toClient)) \cap CallRefs({Echo(rmsg)}) = {}
      BY <2>2
    <3>3. LET t == Append(toClient, Echo(rmsg))
          IN  /\ Once(t)
              /\ CallRefs(Range(t)) = CallRefs(Range(toClient)) \cup CallRefs({Echo(rmsg)})
      BY <2>2, <3>1, <3>2, OnceAppend
    <3> QED
      BY <2>1, <2>2, <3>1, <3>3
  <2>4. \A o \in 1..6 : At'[o] \subseteq At[o]
    BY <1>1, <2>1, <2>3 DEF At, Entries
  <2> QED
    BY <1>1, <2>1, <2>3, <2>4, ForgettingStep DEF CopyInv, OneEntry
<1>6. CASE Forget
  <2>1. /\ queue' \subseteq queue /\ rmsg' = None
        /\ UNCHANGED <<toClient, toServer, received>>
    BY <1>6 DEF Forget, Without
  <2>2. CallRefs({rmsg'}) = {}
    BY <2>1, CallKinds, CallSets
  <2>3. CallRefs(Entries') \subseteq CallRefs(Entries)
    BY <2>1 DEF Entries, CallRefs
  <2>4. \A o \in 1..6 : At'[o] \subseteq At[o]
    BY <1>1, <2>1, <2>2, <2>3 DEF At
  <2> QED
    BY <1>1, <2>1, <2>4, ForgettingStep DEF CopyInv, OneEntry
<1>7. CASE ReceiveClosed \/ EchoLoad \/ EchoBump \/ ProcessRequest
  <2>1. UNCHANGED <<toClient, toServer, received, rmsg, queue>>
    BY <1>7 DEF ReceiveClosed, EchoLoad, EchoBump, ProcessRequest
  <2>2. At' = At
    BY <1>1, <2>1 DEF At, Entries
  <2> QED
    BY <1>1, <2>1, <2>2, ForgettingStep DEF CopyInv, OneEntry
<1> QED
  BY <1>2, <1>3, <1>4, <1>5, <1>6, <1>7 DEF ReceiveStep

\* Every step of the main thread.
LEMMA MainCopies ==
  ASSUME TypeOK, KindsInv, PlacesInv, CopyInv, MainStep
  PROVE  CopyInv' /\ Moved
<1> USE DEF serverVars, recvVars, clientVars, pastVars
<1>1. CASE BeginCall
  <2>1. /\ UNCHANGED <<toClient, inbuf, toServer, received, rmsg, queue>>
        /\ mpc = "callback" /\ mpc' = "send" /\ calls' = calls + 1
    BY <1>1 DEF BeginCall
  <2>2. At' = At /\ InFlight' = InFlight
    BY <2>1 DEF At, Entries, InFlight
  <2>3. Sent' = Sent
    BY <2>1, NumberTypes DEF Sent
  <2> QED
    BY <2>1, <2>2, <2>3 DEF CopyInv, OneEntry, Moved
<1>2. CASE SendAll
  <2>1. /\ mpc = "send" /\ mpc' # "send"
        /\ UNCHANGED <<calls, inbuf, toServer, received, rmsg, queue>>
    BY <1>2 DEF SendAll
  <2>2. CASE toClient' = toClient
    <3>1. At' = At
      BY <2>1, <2>2 DEF At, Entries
    <3> QED
      BY <2>1, <2>2, <3>1, ForgettingStep DEF CopyInv, OneEntry
  <2>3. CASE toClient' # toClient
    <3>1. toClient' = Append(toClient, call) /\ mpc' = "load" /\ call' = call
      BY <1>2, <2>3 DEF SendAll
    <3>2. call \in ServerMessage /\ IsCall(call) /\ call.ref = calls
      BY <2>1 DEF PlacesInv, TypeOK, MainTypeOK, Calling, IsCall
    <3>3. \A r \in InFlight : r <= calls - 1
      BY <2>1 DEF CopyInv, Sent
    <3>4. calls \in Nat /\ calls \notin InFlight
      BY <3>3, NumberTypes
    <3>5. CallRefs({call}) = {calls}
      BY <3>2, CallSets
    <3>6. \A o \in 1..6 : calls \notin At[o]
      BY <3>4 DEF InFlight
    <3>7. toClient \in Seq(ServerMessage) /\ Once(toClient)
      BY DEF PlacesInv, CopyInv
    <3>8. CallRefs(Range(toClient)) \cap CallRefs({call}) = {}
      <4>1. calls \notin At[1]
        BY <3>6
      <4> QED
        BY <3>5, <4>1 DEF At, Entries
    <3>9. Once(toClient') /\ CallRefs(Range(toClient')) = CallRefs(Range(toClient)) \cup {calls}
      BY <3>1, <3>2, <3>5, <3>7, <3>8, OnceAppend
    <3>10. At'[1] = At[1] \cup {calls} /\ \A o \in 1..6 : o # 1 => At'[o] = At[o]
      BY <2>1, <3>9 DEF At, Entries
    <3>11. \A p, q \in 1..6 : p # q => At'[p] \cap At'[q] = {}
      BY <3>6, <3>10 DEF CopyInv
    <3>12. InFlight' = InFlight \cup {calls}
      BY <3>10 DEF InFlight
    <3>13. \A r \in InFlight' : r <= Sent'
      BY <2>1, <3>3, <3>4, <3>12, NumberTypes, RefTypes DEF Sent
    <3>14. CopyInv'
      BY <2>1, <3>9, <3>11, <3>13 DEF CopyInv, OneEntry
    <3>15. Moved
      BY <2>1, <3>1, <3>2, <3>12 DEF Moved
    <3> QED
      BY <3>14, <3>15
  <2> QED
    BY <2>2, <2>3
<1>3. CASE PollTake \/ SendReturn
  <2>1. /\ queue' \subseteq queue /\ received' \in {received, None}
        /\ UNCHANGED <<toClient, inbuf, toServer, rmsg, calls>> /\ mpc' # "send"
    BY <1>3 DEF PollTake, SendReturn, Without
  <2>2. CallRefs({received'}) \subseteq CallRefs({received})
    BY <2>1, CallKinds, CallSets
  <2>3. CallRefs(Entries') \subseteq CallRefs(Entries)
    BY <2>1 DEF Entries, CallRefs
  <2>4. \A o \in 1..6 : At'[o] \subseteq At[o]
    BY <2>1, <2>2, <2>3 DEF At
  <2> QED
    BY <2>1, <2>4, ForgettingStep DEF CopyInv, OneEntry
<1>4. CASE Relaunch
  <2>1. /\ toClient' = <<>> /\ inbuf' = <<>> /\ toServer' = <<>> /\ received' = None
        /\ rmsg' = None /\ queue' = {} /\ calls' = calls /\ mpc' = mpc
    BY <1>4 DEF Relaunch
  <2>2. CallRefs(Range(<<>>)) = {} /\ CallRefs({None}) = {} /\ CallRefs({}) = {}
    BY CallKinds, CallSets DEF Range
  <2>3. Entries' = {}
    BY <2>1 DEF Entries
  <2>4. \A o \in 1..6 : At'[o] \subseteq At[o]
    BY <2>1, <2>2, <2>3 DEF At
  <2>5. Once(<<>>)
    BY DEF Once
  <2> QED
    BY <2>1, <2>4, <2>5, ForgettingStep DEF CopyInv, OneEntry
<1>5. CASE LaunchDone \/ TakeCallback \/ FinishCallback \/ SendLoad \/ SendBump \/ PollTimeout
           \/ PollQueue \/ PollPeek
  <2>1. /\ UNCHANGED <<toClient, inbuf, toServer, received, rmsg, queue, calls>>
        /\ mpc' # "send"
    BY <1>5 DEF LaunchDone, TakeCallback, FinishCallback, SendLoad, SendBump, PollTimeout,
                PollQueue, PollPeek
  <2>2. At' = At
    BY <2>1 DEF At, Entries
  <2> QED
    BY <2>1, <2>2, ForgettingStep DEF CopyInv, OneEntry
<1> QED
  BY <1>1, <1>2, <1>3, <1>4, <1>5 DEF MainStep, SendStep, PollStep

\* No step copies a call, and none brings back one that is gone.
LEMMA CopyStep ==
  TypeOK /\ SurvivalInv /\ PlacesInv /\ CopyInv /\ [Next]_vars => CopyInv' /\ Moved
<1> SUFFICES ASSUME TypeOK, SurvivalInv, PlacesInv, CopyInv, [Next]_vars
             PROVE  CopyInv' /\ Moved
  OBVIOUS
<1>1. CASE UNCHANGED vars
  <2>1. UNCHANGED <<toClient, inbuf, toServer, received, rmsg, queue, calls, mpc>>
    BY <1>1 DEF vars, serverVars, mainVars, recvVars, clientVars, pastVars
  <2>2. At' = At
    BY <2>1 DEF At, Entries
  <2> QED
    BY <2>1, <2>2, ForgettingStep DEF CopyInv, OneEntry
<1> QED
  BY <1>1, ClientCopies, ReceiveCopies, MainCopies DEF Next, SurvivalInv

\* The invariants hold in every reachable state.
LEMMA CopyInvariant == Spec => [](PlacesInv /\ CopyInv)
<1>1. Init => PlacesInv /\ CopyInv
  <2> SUFFICES ASSUME Init
               PROVE  PlacesInv /\ CopyInv
    OBVIOUS
  <2>1. /\ toClient = <<>> /\ inbuf = <<>> /\ toServer = <<>> /\ received = None
        /\ rmsg = None /\ call = None /\ queue = {}
    BY DEF Init
  <2>2. PlacesInv
    BY <2>1, CallKinds DEF PlacesInv
  <2>3. Once(<<>>)
    BY DEF Once
  <2>4. CallRefs(Range(<<>>)) = {} /\ CallRefs({None}) = {} /\ CallRefs({}) = {}
    BY CallKinds, CallSets DEF Range
  <2>5. Entries = {}
    BY <2>1 DEF Entries
  <2>6. \A o \in 1..6 : At[o] = {}
    BY <2>1, <2>4, <2>5 DEF At
  <2>7. CopyInv
    BY <2>1, <2>3, <2>6 DEF CopyInv, OneEntry, InFlight
  <2> QED
    BY <2>2, <2>7
<1>2. TypeOK /\ SurvivalInv /\ (PlacesInv /\ CopyInv) /\ [Next]_vars => (PlacesInv /\ CopyInv)'
  BY PlacesStep, CopyStep DEF SurvivalInv
<1> QED
  BY <1>1, <1>2, TypeCorrect, SurvivalInvariant, PTL DEF Spec

\* What the property says of a state in which the invariants hold.
LEMMA CopiesApart == TypeOK /\ KindsInv /\ PlacesInv /\ CopyInv => OneCopyPerCall
<1> SUFFICES ASSUME TypeOK, KindsInv, PlacesInv, CopyInv
             PROVE  OneCopyPerCall
  OBVIOUS
<1> DEFINE held == IF rmsg = None THEN <<>> ELSE <<rmsg>>
           read == IF received = None THEN <<>> ELSE <<received>>
           s2 == toClient \o inbuf
           s3 == s2 \o toServer
           s4 == s3 \o held
           s5 == s4 \o read
<1>1. /\ toClient \in Seq(Message) /\ inbuf \in Seq(Message) /\ toServer \in Seq(Message)
      /\ held \in Seq(Message) /\ read \in Seq(Message)
  BY DEF TypeOK, ClientTypeOK, RecvTypeOK, ServerTypeOK
<1>2. \A m : Once(<<m>>) /\ Range(<<m>>) = {m}
  BY DEF Once, Range
<1>3. Once(<<>>) /\ CallRefs(Range(<<>>)) = {} /\ CallRefs({None}) = {}
  BY CallKinds, CallSets DEF Once, Range
<1>4. Once(held) /\ CallRefs(Range(held)) = At[5]
  BY <1>2, <1>3 DEF At, Entries
<1>5. Once(read) /\ CallRefs(Range(read)) = At[4]
  BY <1>2, <1>3 DEF At, Entries
<1>6. \A p, q \in 1..6 : p # q => At[p] \cap At[q] = {}
  BY DEF CopyInv
<1>7. /\ CallRefs(Range(toClient)) = At[1] /\ CallRefs(Range(inbuf)) = At[2]
      /\ CallRefs(Range(toServer)) = At[3]
  BY DEF At, Entries
<1> HIDE DEF held, read
<1>8. s2 \in Seq(Message) /\ Once(s2) /\ CallRefs(Range(s2)) = At[1] \cup At[2]
  BY <1>1, <1>6, <1>7, OnceConcat DEF CopyInv
<1> HIDE DEF s2
<1>9. s3 \in Seq(Message) /\ Once(s3) /\ CallRefs(Range(s3)) = At[1] \cup At[2] \cup At[3]
  BY <1>1, <1>6, <1>7, <1>8, OnceConcat DEF CopyInv
<1> HIDE DEF s3
<1>10. /\ s4 \in Seq(Message) /\ Once(s4)
       /\ CallRefs(Range(s4)) = At[1] \cup At[2] \cup At[3] \cup At[5]
  BY <1>1, <1>4, <1>6, <1>9, OnceConcat
<1> HIDE DEF s4
<1>11. /\ s5 \in Seq(Message) /\ Once(s5)
       /\ CallRefs(Range(s5)) = At[1] \cup At[2] \cup At[3] \cup At[5] \cup At[4]
  BY <1>1, <1>5, <1>6, <1>10, OnceConcat
<1>12. s5 = Copies
  BY DEF s2, s3, s4, held, read, Copies
<1> HIDE DEF s5
<1>13. ASSUME NEW e \in queue, NEW i \in DOMAIN Copies, e.msg.kind = "reply",
              Copies[i].ref = e.msg.ref
       PROVE  ~IsCall(Copies[i])
  <2>1. e.msg.ref \in At[6]
    BY <1>13 DEF At, Entries, CallRefs, IsCall
  <2>2. IsCall(Copies[i]) => Copies[i].ref \in CallRefs(Range(Copies))
    BY DEF CallRefs, Range
  <2> QED
    BY <1>6, <1>11, <1>12, <1>13, <2>1, <2>2
<1>14. \A i \in DOMAIN Copies : Copies[i].kind \in {"call", "reply", "menu", "echo"}
  <2>1. \A m \in Message : m.kind \in {"call", "reply", "menu", "echo"}
    BY DEF Message
  <2>2. \A i \in DOMAIN Copies : Copies[i] \in Message
    BY <1>11, <1>12
  <2> QED
    BY <2>1, <2>2
<1> QED
  BY <1>11, <1>12, <1>13, <1>14 DEF OneCopyPerCall, Once, IsCall

\* A call exists in one copy only, from the send that issues it to the queue
\* entry its reply becomes, for any number of calls, requests and launches; so
\* no reply is taken for a request and echoed back (server.py send and
\* receive, processBuffer in TB_sceneOpened.js).
THEOREM CallsNotCopied == Spec => []OneCopyPerCall
<1>1. TypeOK /\ SurvivalInv /\ PlacesInv /\ CopyInv => OneCopyPerCall
  BY CopiesApart DEF SurvivalInv
<1> QED
  BY <1>1, TypeCorrect, SurvivalInvariant, CopyInvariant, PTL

-----------------------------------------------------------------------------
(***************************************************************************)
(* What send returns.  While the user waits for Avalon no menu request is  *)
(* pending during a callback, so the message a call peeks at is a reply.   *)
(* Until a call peeks, the only call under way is the present one: it is   *)
(* taken from the queue before the next begins.                            *)
(***************************************************************************)
Pending == Waiting \cup Handled \cup OnTheWay

QuietInv ==
  quiet /\ launches = 1 =>
    /\ \A j, k \in Pending : j = k
    /\ mpc \notin {"launch", "idle"} => Pending = {}
    /\ rpc = "accept" => Pending = {} /\ mpc \in {"launch", "idle"}

\* The steps of send between sending the call and having its answer.
Awaiting == {"load", "bump", "poll", "take", "peek"}

ReplyInv ==
  /\ peeked <= calls /\ (mpc \in Awaiting \cup {"send"} => peeked < calls)
  /\ Orderly =>
       /\ peeked = 0 => \A r \in InFlight : mpc \in Awaiting /\ r = call.ref
       /\ call # None /\ result # None =>
            /\ result.kind = "reply"
            /\ peeked \in {0, call.ref} => result.ref = call.ref

\* A user who waits has at most one request pending, and none in a callback.
LEMMA QuietStep ==
  TypeOK /\ SurvivalInv /\ OrderInv /\ QuietInv /\ [Next]_vars => QuietInv'
<1> SUFFICES ASSUME TypeOK, SurvivalInv, OrderInv, QuietInv, [Next]_vars, quiet', launches' = 1
             PROVE  /\ \A j, k \in Pending' : j = k
                    /\ mpc' \notin {"launch", "idle"} => Pending' = {}
                    /\ rpc' = "accept" => Pending' = {} /\ mpc' \in {"launch", "idle"}
  BY DEF QuietInv
<1> USE DEF serverVars, mainVars, recvVars, clientVars, pastVars
<1>1. [Fifo!Next]_(Fifo!vars)
  BY FifoSimulation DEF FifoStep
<1>2. quiet' = quiet /\ (launches' = launches \/ Relaunch)
  BY DEF Next, ClientNext, ReceiveStep, MainStep, SendStep, PollStep, vars, ClientConnect,
         ClientMenu, ClientReadyRead, ClientProcessBuffer, ClientQuit, Receive, ReceiveClosed,
         Parse, Store, EchoSend, EchoLoad, EchoBump, ProcessRequest, Forget, LaunchDone,
         TakeCallback, FinishCallback, BeginCall, SendAll, SendLoad, SendBump, PollTimeout,
         PollQueue, PollTake, PollPeek, SendReturn, Relaunch
<1>3. ~Relaunch /\ launches' = launches
  <2>1. Relaunch => launches' = launches + 1
    BY DEF Relaunch
  <2>2. launches \in Nat /\ launches >= 1 /\ launches' = 1
    BY NumberTypes DEF SurvivalInv
  <2> QED
    BY <1>2, <2>1, <2>2
<1>4. quiet /\ launches = 1
  BY <1>2, <1>3
<1>5. Pending' \subseteq Pending \/ Pending' = Pending \cup {menus + 1}
  BY <1>1 DEF Fifo!Next, Fifo!Post, Fifo!Lose, Fifo!Execute, Fifo!vars, Pending, Waiting, Handled,
         OnTheWay
<1>6. menus' = menus => Pending' \subseteq Pending
  BY <1>1, NumberTypes
     DEF Fifo!Next, Fifo!Post, Fifo!Lose, Fifo!Execute, Fifo!vars, Pending, Waiting, Handled,
         OnTheWay
<1>7. CASE ClientConnect
  BY <1>4, <1>5, <1>7 DEF ClientConnect, QuietInv
<1>8. CASE ClientMenu
  <2>1. NothingUnderWay /\ mpc' = mpc /\ rpc' = rpc
    BY <1>4, <1>8 DEF ClientMenu
  <2>2. Pending = {}
    BY <2>1, Refs DEF NothingUnderWay, Pending, Waiting, Handled, Held, OnTheWay, Range
  <2> QED
    BY <1>5, <2>1, <2>2 DEF NothingUnderWay
<1>9. CASE TakeCallback
  <2>1. /\ executed' = Append(executed, Head(callbacks)) /\ executed \in Seq(Nat)
        /\ rpc' = rpc /\ mpc = "idle" /\ mpc' = "callback" /\ callbacks # <<>>
    BY <1>9 DEF TakeCallback, TypeOK, PastTypeOK
  <2>2. executed' # executed
    BY <2>1
  <2>3. PICK k \in Pending : Pending' = Pending \ {k}
    BY <1>1, <2>2
       DEF Fifo!Next, Fifo!Post, Fifo!Lose, Fifo!Execute, Fifo!vars, Pending, Waiting, Handled,
           OnTheWay
  <2>4. Pending' = {}
    BY <1>4, <2>3 DEF QuietInv
  <2>5. rpc # "accept"
    BY <1>4, <2>3 DEF QuietInv
  <2> QED
    BY <2>1, <2>4, <2>5
<1>10. CASE ~ClientConnect /\ ~ClientMenu /\ ~TakeCallback
  <2>1. /\ menus' = menus
        /\ rpc' = "accept" => rpc = "accept"
        /\ mpc \in {"launch", "idle"} => mpc' \in {"launch", "idle"}
    BY <1>3, <1>10
    DEF Next, ClientNext, ReceiveStep, MainStep, SendStep, PollStep, vars,
         ClientReadyRead, ClientProcessBuffer, ClientQuit, Receive, ReceiveClosed,
         Parse, Store, EchoSend, EchoLoad, EchoBump, ProcessRequest, Forget, LaunchDone,
         FinishCallback, BeginCall, SendAll, SendLoad, SendBump, PollTimeout,
         PollQueue, PollTake, PollPeek, SendReturn
  <2> QED
    BY <1>4, <1>6, <2>1 DEF QuietInv
<1> QED
  BY <1>7, <1>8, <1>9, <1>10

\* Taking the entry of a call from the queue leaves no call under way.
LEMMA AnswerTaken ==
  ASSUME TypeOK, SurvivalInv, PlacesInv, CopyInv, PollTake, InQueue(call.id), launches = 1,
         \A r \in InFlight : r = call.ref
  PROVE  InFlight' = {}
<1>1. PICK e \in queue : e.key = call.id
  BY DEF InQueue
<1>2. /\ queue' = Without(call.id) /\ mpc = "take"
      /\ UNCHANGED <<toClient, inbuf, toServer, received, rmsg>>
  BY DEF PollTake, serverVars, recvVars, clientVars
<1>3. e.msg \in ClientMessage /\ e.msg.kind = "reply"
  <2>1. call.id >= 2 /\ call \in Message /\ e.msg \in ClientMessage /\ e.key = e.msg.id
    BY <1>2, HandTypes DEF SurvivalInv, FirstLaunchInv, Calling, PlacesInv
  <2>2. e.msg.id # 1
    BY <1>1, <2>1 DEF Message
  <2> QED
    BY <2>1, <2>2, ClientKinds
<1>4. e.msg.ref \in At[6] /\ e.msg.ref = call.ref
  <2>1. e.msg.ref \in At[6]
    BY <1>3 DEF At, Entries, CallRefs, IsCall
  <2> QED
    BY <2>1 DEF InFlight
<1>5. \A p \in 1..5 : At[p] = {}
  <2>1. \A p \in 1..5 : At[p] \cap At[6] = {}
    BY DEF CopyInv
  <2>2. \A p \in 1..5 : \A r \in At[p] : r = call.ref
    BY DEF InFlight
  <2> QED
    BY <1>4, <2>1, <2>2
<1>6. \A p \in 1..5 : At'[p] = {}
  BY <1>2, <1>5 DEF At
<1>7. At'[6] = {}
  <2> SUFFICES ASSUME NEW d \in queue', IsCall(d.msg)
               PROVE  FALSE
    BY DEF At, Entries, CallRefs
  <2>1. d \in queue /\ d.key # call.id
    BY <1>2 DEF Without
  <2>2. d.msg.ref \in At[6]
    BY <2>1 DEF At, Entries, CallRefs
  <2>3. d.msg.ref = e.msg.ref
    BY <1>4, <2>2 DEF InFlight
  <2>4. d = e
    BY <1>3, <2>1, <2>3 DEF CopyInv, OneEntry, IsCall
  <2> QED
    BY <1>1, <2>1, <2>4
<1> QED
  BY <1>6, <1>7 DEF InFlight

\* Every step keeps what is said of the present call and its result.
LEMMA ReplyStep ==
  ASSUME TypeOK, SurvivalInv, OrderInv, QuietInv, PlacesInv, CopyInv, ReplyInv, [Next]_vars
  PROVE  ReplyInv'
<1> USE DEF serverVars, mainVars, recvVars, clientVars, pastVars
<1>1. /\ peeked \in Nat /\ calls \in Nat /\ Moved
      /\ mpc \in Calling => call # None /\ call.ref = calls
  BY CopyStep, NumberTypes DEF TypeOK, PastTypeOK, MainTypeOK, PlacesInv
<1>2. peeked' <= calls' /\ (mpc' \in Awaiting \cup {"send"} => peeked' < calls')
  <2>1. CASE BeginCall
    BY <1>1, <2>1 DEF BeginCall, ReplyInv
  <2>2. CASE PollPeek
    BY <1>1, <2>2 DEF PollPeek, ReplyInv, Awaiting, Calling
  <2>3. CASE ~BeginCall /\ ~PollPeek
    <3>1. /\ UNCHANGED <<peeked, calls>>
          /\ mpc' \in Awaiting \cup {"send"} => mpc \in Awaiting \cup {"send"}
      BY <2>3 DEF Next, ClientNext, ReceiveStep, MainStep, SendStep, PollStep, vars, ClientConnect,
         ClientMenu, ClientReadyRead, ClientProcessBuffer, ClientQuit, Receive, ReceiveClosed,
         Parse, Store, EchoSend, EchoLoad, EchoBump, ProcessRequest, Forget, LaunchDone,
         TakeCallback, FinishCallback, SendAll, SendLoad, SendBump, PollTimeout,
         PollQueue, PollTake, SendReturn, Relaunch, Awaiting
    <3> QED
      BY <3>1 DEF ReplyInv
  <2> QED
    BY <2>1, <2>2, <2>3
<1>3. Orderly' => Orderly
  <2>1. /\ quiet' = quiet /\ (gaveUp => gaveUp')
        /\ launches' = launches \/ launches' = launches + 1
    BY DEF Next, ClientNext, ReceiveStep, MainStep, SendStep, PollStep, vars, ClientConnect,
         ClientMenu, ClientReadyRead, ClientProcessBuffer, ClientQuit, Receive, ReceiveClosed,
         Parse, Store, EchoSend, EchoLoad, EchoBump, ProcessRequest, Forget, LaunchDone,
         TakeCallback, FinishCallback, BeginCall, SendAll, SendLoad, SendBump, PollTimeout,
         PollQueue, PollTake, PollPeek, SendReturn, Relaunch
  <2>2. launches \in Nat /\ launches >= 1
    BY NumberTypes DEF SurvivalInv
  <2> QED
    BY <2>1, <2>2 DEF Orderly
<1> SUFFICES ASSUME Orderly, Orderly'
             PROVE  /\ peeked' = 0 => \A r \in InFlight' : mpc' \in Awaiting /\ r = call'.ref
                    /\ call' # None /\ result' # None =>
                         /\ result'.kind = "reply"
                         /\ peeked' \in {0, call'.ref} => result'.ref = call'.ref
  BY <1>2, <1>3 DEF ReplyInv
<1>4. /\ peeked = 0 => \A r \in InFlight : mpc \in Awaiting /\ r = call.ref
      /\ call # None /\ result # None =>
           /\ result.kind = "reply"
           /\ peeked \in {0, call.ref} => result.ref = call.ref
  BY DEF ReplyInv
<1>5. CASE FinishCallback \/ BeginCall
  <2>1. mpc = "callback" /\ mpc' # "load" /\ peeked' = peeked /\ result' = None
    BY <1>5 DEF FinishCallback, BeginCall
  <2>2. peeked = 0 => InFlight' = {}
    BY <1>1, <1>4, <2>1 DEF Moved, Awaiting
  <2> QED
    BY <2>1, <2>2
<1>6. CASE SendAll
  <2>1. /\ mpc = "send" /\ call' \in {call, None} /\ mpc' \in {"load", "callback"}
        /\ call' = None => mpc' = "callback"
        /\ UNCHANGED <<peeked, result>>
    BY <1>1, <1>6 DEF SendAll, Calling
  <2>2. peeked = 0 => InFlight = {}
    BY <1>4, <2>1 DEF Awaiting
  <2> QED
    BY <1>1, <1>4, <2>1, <2>2 DEF Moved, Awaiting
<1>7. CASE PollQueue
  <2>1. /\ mpc = "poll" /\ mpc' \in {"take", "peek"} /\ UNCHANGED <<peeked, call>>
        /\ result' = result \/ \E e \in queue : e.key = call.id /\ result' = e.msg
    BY <1>7 DEF PollQueue
  <2>2. InFlight' \subseteq InFlight /\ mpc' \in Awaiting
    BY <1>1, <2>1 DEF Moved, Awaiting
  <2>3. peeked < calls /\ call.ref = calls /\ call # None
    BY <1>1, <2>1 DEF ReplyInv, Awaiting, Calling
  <2>4. ASSUME NEW e \in queue, e.key = call.id
        PROVE  e.msg.kind = "reply" /\ (peeked = 0 => e.msg.ref = call.ref)
    <3>1. call.id >= 2 /\ call \in Message /\ e.msg \in ClientMessage /\ e.key = e.msg.id
      BY <2>1, HandTypes DEF SurvivalInv, FirstLaunchInv, Calling, PlacesInv, Orderly
    <3>2. e.msg.kind = "reply"
      BY <2>4, <3>1, ClientKinds DEF Message
    <3>3. e.msg.ref \in At[6]
      BY <3>2 DEF At, Entries, CallRefs, IsCall
    <3> QED
      BY <1>4, <3>2, <3>3 DEF InFlight
  <2>5. call # None /\ result' # None =>
          result'.kind = "reply" /\ (peeked = 0 => result'.ref = call.ref)
    BY <1>4, <2>1, <2>4
  <2> QED
    BY <1>1, <1>4, <2>1, <2>2, <2>3, <2>5
<1>8. CASE PollTake
  <2>1. /\ mpc = "take" /\ UNCHANGED <<peeked, call, result>>
        /\ mpc' = IF InQueue(call.id) THEN "clear" ELSE "peek"
    BY <1>8 DEF PollTake
  <2>2. InFlight' \subseteq InFlight
    BY <1>1, <2>1 DEF Moved
  <2>3. peeked = 0 /\ InQueue(call.id) => InFlight' = {}
    BY <1>4, <1>8, AnswerTaken DEF Orderly
  <2> QED
    BY <1>4, <2>1, <2>2, <2>3 DEF Awaiting
<1>9. CASE PollPeek
  <2>1. mpc = "peek" /\ call' = call
    BY <1>9 DEF PollPeek
  <2>2. peeked < calls /\ call.ref = calls /\ call # None
    BY <1>1, <2>1 DEF ReplyInv, Awaiting, Calling
  <2>3. CASE received = None
    <3>1. mpc' = "poll" /\ UNCHANGED <<result, peeked>>
      BY <1>9, <2>3 DEF PollPeek
    <3> QED
      BY <1>1, <1>4, <2>1, <3>1 DEF Moved, Awaiting
  <2>4. CASE received # None
    <3>1. /\ result' = received
          /\ peeked' = IF peeked = 0 THEN call.ref ELSE peeked
      BY <1>9, <2>4 DEF PollPeek
    <3>2. received.kind = "reply"
      <4>1. rpc = "parse" /\ received \in ClientMessage
        BY <2>4 DEF PlacesInv, SurvivalInv, KindsInv
      <4>2. Handled = RefsOf({received})
        BY <4>1 DEF Handled, Held
      <4>3. Pending = {}
        BY <2>1 DEF QuietInv, Orderly
      <4> QED
        BY <4>1, <4>2, <4>3, Refs, ClientKinds DEF Pending
    <3>3. peeked = 0 => received.ref = call.ref
      <4>1. received.ref \in At[4]
        BY <3>2 DEF At, CallRefs, IsCall
      <4> QED
        BY <1>4, <4>1 DEF InFlight
    <3> QED
      BY <1>1, <2>1, <2>2, <3>1, <3>2, <3>3
  <2> QED
    BY <2>3, <2>4
<1>10. CASE ~FinishCallback /\ ~BeginCall /\ ~SendAll /\ ~PollQueue /\ ~PollTake /\ ~PollPeek
  <2>1. /\ UNCHANGED <<peeked, call, result>>
        /\ mpc \in Awaiting => mpc' \in Awaiting
        /\ mpc' = "load" => mpc = "load"
    BY <1>10 DEF Next, ClientNext, ReceiveStep, MainStep, SendStep, PollStep, vars, ClientConnect,
         ClientMenu, ClientReadyRead, ClientProcessBuffer, ClientQuit, Receive, ReceiveClosed,
         Parse, Store, EchoSend, EchoLoad, EchoBump, ProcessRequest, Forget, LaunchDone,
         TakeCallback, SendLoad, SendBump, PollTimeout, SendReturn, Relaunch, Awaiting, Orderly
  <2>2. InFlight' \subseteq InFlight
    BY <1>1, <2>1 DEF Moved
  <2> QED
    BY <1>4, <2>1, <2>2
<1> QED
  BY <1>5, <1>6, <1>7, <1>8, <1>9, <1>10

\* In an orderly session send returns a reply, and until a call has taken its
\* reply from the receive thread's hands the reply to that very call, for any
\* number of calls and requests (server.py send and receive).
THEOREM RepliesInOrder == Spec => []OrderlyReply
<1>1. Init => QuietInv /\ ReplyInv
  <2> SUFFICES ASSUME Init
               PROVE  QuietInv /\ ReplyInv
    OBVIOUS
  <2>1. /\ callbacks = <<>> /\ toServer = <<>> /\ rpc = "accept" /\ mpc = "launch"
        /\ peeked = 0 /\ calls = 0 /\ call = None
    BY DEF Init
  <2>2. Pending = {}
    BY <2>1, Refs DEF Pending, Waiting, Handled, Held, OnTheWay, Range
  <2>3. InFlight = {}
    <3>1. /\ toClient = <<>> /\ inbuf = <<>> /\ received = None /\ rmsg = None /\ queue = {}
      BY DEF Init
    <3>2. CallRefs(Range(<<>>)) = {} /\ CallRefs({None}) = {} /\ CallRefs({}) = {}
      BY CallKinds, CallSets DEF Range
    <3>3. Entries = {}
      BY <3>1 DEF Entries
    <3>4. \A o \in 1..6 : At[o] = {}
      BY <2>1, <3>1, <3>2, <3>3 DEF At
    <3> QED
      BY <3>4 DEF InFlight
  <2> QED
    BY <2>1, <2>2, <2>3 DEF QuietInv, ReplyInv, Awaiting
<1>2. TypeOK /\ SurvivalInv /\ OrderInv /\ PlacesInv /\ CopyInv /\ QuietInv /\ ReplyInv
        /\ [Next]_vars => OrderInv' /\ QuietInv' /\ ReplyInv'
  BY QuietStep, ReplyStep, FifoSimulation DEF FifoStep
<1>3. ReplyInv => OrderlyReply
  BY DEF ReplyInv, OrderlyReply
<1> QED
  BY <1>1, <1>2, <1>3, FifoInit, TypeCorrect, SurvivalInvariant, CopyInvariant, PTL DEF Spec

=============================================================================
