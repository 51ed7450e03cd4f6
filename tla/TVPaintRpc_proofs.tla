-------------------------- MODULE TVPaintRpc_proofs --------------------------
(***************************************************************************)
(* Proofs about TVPaintRpc, for any panel routes and any bounds.           *)
(***************************************************************************)
EXTENDS TVPaintRpc, SequenceTheorems, TLAPS

\* A sequence over a set is a sequence over any larger one.
LEMMA WidenSeq ==
  ASSUME NEW S, NEW T, S \subseteq T, NEW s \in Seq(S)
  PROVE  s \in Seq(T)
  OBVIOUS

\* Removing a response leaves a sequence of responses.
LEMMA RemoveTypes ==
  ASSUME NEW S, NEW s \in Seq(S), NEW i \in DOMAIN s
  PROVE  RemoveAt(s, i) \in Seq(S) /\ s[i] \in S
<1>1. i \in 1..Len(s) /\ s[i] \in S
  OBVIOUS
<1>2. SubSeq(s, 1, i - 1) \in Seq(S) /\ SubSeq(s, i + 1, Len(s)) \in Seq(S)
  BY <1>1, SubSeqProperties
<1>3. SubSeq(s, 1, i - 1) \o SubSeq(s, i + 1, Len(s)) \in Seq(S)
  BY <1>2, ConcatProperties
<1>4. QED
  BY <1>1, <1>3 DEF RemoveAt

\* Every variable has its type in every reachable state, and the event loop is
\* never blocked on a route called with wait=False.
THEOREM TypeCorrect == Spec => []TypeOK
<1> USE DEF mainVars, loopVars, hostVars, wireVars, pastVars
<1>1. Init => TypeOK
  <2> SUFFICES ASSUME Init
               PROVE  TypeOK
    OBVIOUS
  <2>1. MainTypeOK /\ LoopTypeOK
    BY DEF Init, MainTypeOK, LoopTypeOK, Requests, None
  <2>2. HostTypeOK /\ PastTypeOK
    BY DEF Init, HostTypeOK, PastTypeOK
  <2>3. QED
    BY <2>1, <2>2 DEF TypeOK
<1>2. TypeOK /\ [Next]_vars => TypeOK'
  <2> SUFFICES ASSUME TypeOK, [Next]_vars
               PROVE  TypeOK'
    OBVIOUS
  <2> USE DEF TypeOK
  <2>1. CASE LaunchConnected
    <3>1. MainTypeOK'
      <4>1. /\ ctx' \in {"textfile", "idle"} /\ UNCHANGED <<item, items, done, clicks>>
            /\ Request \/ UNCHANGED <<req, reqId, result, asked, scheduled>>
        BY <2>1 DEF LaunchConnected, pastVars
      <4>2. /\ req' \in {"none", "send", "poll"}
            /\ reqId' \in Requests /\ result' \in Requests /\ asked' \in Nat
        BY <4>1 DEF Request, MainTypeOK, LoopTypeOK, Requests, None
      <4>3. QED
        BY <4>1, <4>2 DEF MainTypeOK
    <3>2. LoopTypeOK'
      <4>1. UNCHANGED <<waiting, clicks, responses, ws, running, server>>
        BY <2>1 DEF LaunchConnected, pastVars
      <4>2. Request \/ UNCHANGED scheduled
        BY <2>1 DEF LaunchConnected
      <4>3. scheduled' \in Requests
        BY <4>2 DEF Request, MainTypeOK, LoopTypeOK, Requests
      <4>4. QED
        BY <4>1, <4>3 DEF LoopTypeOK
    <3>3. HostTypeOK' /\ PastTypeOK'
      BY <2>1 DEF LaunchConnected, Request, HostTypeOK, PastTypeOK, ServerMessage
    <3>4. QED
      BY <3>1, <3>2, <3>3
  <2>2. CASE LaunchHostEnded
    BY <2>2 DEF LaunchHostEnded, MainTypeOK, LoopTypeOK, HostTypeOK,
       PastTypeOK, ServerMessage, Requests, None
  <2>3. CASE ListenHostEnded
    BY <2>3 DEF ListenHostEnded, MainTypeOK, LoopTypeOK, HostTypeOK,
       PastTypeOK, ServerMessage, Requests, None
  <2>4. CASE TakeItem
    <3>1. item' \in DOMAIN clicks /\ items' \in Seq(DOMAIN clicks) /\ item' \in Nat
      BY <2>4 DEF TakeItem, MainTypeOK, PastTypeOK
    <3>2. executed' \in Seq(Nat)
      BY <2>4, <3>1 DEF TakeItem, PastTypeOK
    <3>3. QED
      BY <2>4, <3>1, <3>2 DEF TakeItem, LoopTypeOK, MainTypeOK, HostTypeOK, PastTypeOK, ServerMessage
  <2>5. CASE UseTool
    BY <2>5 DEF UseTool, MainTypeOK, LoopTypeOK, HostTypeOK,
       PastTypeOK, ServerMessage, Requests, None
  <2>6. CASE RunScript
    BY <2>6 DEF RunScript, Request, MainTypeOK, LoopTypeOK, HostTypeOK,
       PastTypeOK, ServerMessage, Requests, None
  <2>7. CASE Finish
    BY <2>7 DEF Finish, MainTypeOK, LoopTypeOK, HostTypeOK,
       PastTypeOK, ServerMessage, Requests, None
  <2>8. CASE PollClosed
    BY <2>8 DEF PollClosed, MainTypeOK, LoopTypeOK, HostTypeOK,
       PastTypeOK, ServerMessage, Requests, None
  <2>9. CASE PollFound
    <3>1. PICK i \in DOMAIN responses :
             responses' = RemoveAt(responses, i) /\ result' = responses[i]
      BY <2>9 DEF PollFound
    <3>2. responses' \in Seq(Nat) /\ result' \in Nat
      BY <3>1, RemoveTypes DEF LoopTypeOK
    <3>3. QED
      BY <2>9, <3>2 DEF PollFound, LoopTypeOK, MainTypeOK, HostTypeOK, PastTypeOK, ServerMessage, Requests
  <2>10. CASE PollTimeout
    BY <2>10 DEF PollTimeout, MainTypeOK, LoopTypeOK, HostTypeOK,
       PastTypeOK, ServerMessage, Requests, None
  <2>11. CASE Interrupt
    <3>1. MainTypeOK'
      BY <2>11 DEF Interrupt, MainTypeOK
    <3>2. LoopTypeOK'
      BY <2>11 DEF Interrupt, LoopTypeOK
    <3>3. HostTypeOK'
      BY <2>11 DEF Interrupt, HostTypeOK, ServerMessage
    <3>4. PastTypeOK'
      BY <2>11 DEF Interrupt, PastTypeOK
    <3>5. QED
      BY <3>1, <3>2, <3>3, <3>4
  <2>12. CASE Quit
    BY <2>12 DEF Quit, MainTypeOK, LoopTypeOK, HostTypeOK,
       PastTypeOK, ServerMessage, Requests, None
  <2>13. CASE LoopSend
    <3>1. scheduled # None => Script(scheduled) \in Message
      BY DEF LoopTypeOK, Requests, Script, Message
    <3>2. toClient' \in Seq(Message)
      BY <2>13, <3>1 DEF LoopSend, Send, HostTypeOK
    <3>3. QED
      BY <2>13, <3>2 DEF LoopSend, LoopTypeOK, MainTypeOK, HostTypeOK, PastTypeOK, ServerMessage, Requests
  <2>14. CASE LoopClick
    <3> DEFINE k == Head(toServer).n
    <3>1. Head(toServer) \in ServerMessage /\ toServer' \in Seq(ServerMessage)
      BY <2>14 DEF LoopClick, HostTypeOK
    <3>2. k \in DOMAIN clicks /\ k \in Nat /\ Reply(k) \in Message
      BY <2>14, <3>1 DEF LoopClick, ServerMessage, Message, Reply
    <3>3. items' \in Seq(DOMAIN clicks)
      BY <2>14, <3>2 DEF LoopClick, MainTypeOK
    <3>4. toClient' \in Seq(Message)
      <4>1. toClient' = toClient \/ toClient' = Append(toClient, Reply(k))
        BY <2>14 DEF LoopClick, Send
      <4>2. toClient \in Seq(Message)
        BY DEF HostTypeOK
      <4>3. QED
        BY <3>2, <4>1, <4>2
    <3>5. waiting' = waiting \/ (waiting' = k /\ clicks[k] \in Waited)
      BY <2>14 DEF LoopClick
    <3>6. clicks' = clicks
      BY <2>14 DEF LoopClick
    <3>7. LoopTypeOK'
      BY <2>14, <3>2, <3>5, <3>6 DEF LoopClick, LoopTypeOK
    <3>8. MainTypeOK' /\ PastTypeOK'
      BY <2>14, <3>3, <3>6 DEF LoopClick, MainTypeOK, PastTypeOK
    <3>9. HostTypeOK'
      BY <2>14, <3>1, <3>4, <3>6 DEF LoopClick, HostTypeOK, ServerMessage
    <3>10. QED
      BY <3>7, <3>8, <3>9
  <2>15. CASE LoopResume
    <3>1. waiting \in Nat => Reply(waiting) \in Message
      BY DEF Reply, Message
    <3>2. waiting \in Nat
      BY DEF LoopTypeOK, PastTypeOK
    <3>3. toClient' \in Seq(Message)
      BY <2>15, <3>1, <3>2 DEF LoopResume, Send, HostTypeOK
    <3>4. QED
      BY <2>15, <3>3 DEF LoopResume, LoopTypeOK, MainTypeOK, HostTypeOK, PastTypeOK, ServerMessage
  <2>16. CASE LoopAnswer
    <3>1. Head(toServer) \in ServerMessage /\ toServer' \in Seq(ServerMessage)
      BY <2>16 DEF LoopAnswer, HostTypeOK
    <3>2. Head(toServer).n \in Nat
      BY <3>1 DEF ServerMessage, Message
    <3>3. responses' \in Seq(Nat)
      BY <2>16, <3>2 DEF LoopAnswer, LoopTypeOK
    <3>4. QED
      BY <2>16, <3>1, <3>3 DEF LoopAnswer, LoopTypeOK, MainTypeOK, HostTypeOK, PastTypeOK, ServerMessage
  <2>17. CASE LoopClosed
    BY <2>17 DEF LoopClosed, MainTypeOK, LoopTypeOK, HostTypeOK,
       PastTypeOK, ServerMessage, Requests, None
  <2>18. CASE LoopShutdown
    <3>1. MainTypeOK'
      BY <2>18 DEF LoopShutdown, MainTypeOK
    <3>2. LoopTypeOK'
      BY <2>18 DEF LoopShutdown, LoopTypeOK
    <3>3. HostTypeOK'
      BY <2>18 DEF LoopShutdown, HostTypeOK, ServerMessage
    <3>4. PastTypeOK'
      BY <2>18 DEF LoopShutdown, PastTypeOK
    <3>5. QED
      BY <3>1, <3>2, <3>3, <3>4
  <2>19. CASE HostConnect
    BY <2>19 DEF HostConnect, MainTypeOK, LoopTypeOK, HostTypeOK,
       PastTypeOK, ServerMessage, Requests, None
  <2>20. CASE PressButton
    <3>1. PICK r \in Routes : clicks' = Append(clicks, r)
      BY <2>20 DEF PressButton
    <3>2. clicks' \in Seq(Routes) /\ Len(clicks') = Len(clicks) + 1
          /\ DOMAIN clicks = 1..Len(clicks) /\ DOMAIN clicks' = 1..Len(clicks')
          /\ Len(clicks) \in Nat
      BY <3>1 DEF PastTypeOK
    <3>3. \A k \in DOMAIN clicks : k \in DOMAIN clicks' /\ clicks'[k] = clicks[k]
      BY <3>1, <3>2 DEF PastTypeOK
    <3>4. items' \in Seq(DOMAIN clicks')
      BY <2>20, <3>3, WidenSeq DEF PressButton, MainTypeOK
    <3>5. panel' \in DOMAIN clicks' /\ panel' \in Nat
      BY <2>20, <3>2 DEF PressButton
    <3>6. ServerMessage \subseteq ServerMessage'
      BY <3>3 DEF ServerMessage
    <3>7. Click(panel') \in ServerMessage'
      BY <3>5 DEF ServerMessage, Message, Click
    <3>8. toServer \in Seq(ServerMessage')
      BY <3>6, WidenSeq DEF HostTypeOK
    <3>9. toServer' \in Seq(ServerMessage')
      BY <2>20, <3>7, <3>8 DEF PressButton
    <3>10. MainTypeOK'
      BY <2>20, <3>3, <3>4 DEF PressButton, MainTypeOK
    <3>11. LoopTypeOK'
      BY <2>20, <3>3 DEF PressButton, LoopTypeOK
    <3>12. HostTypeOK' /\ PastTypeOK'
      BY <2>20, <3>2, <3>5, <3>9 DEF PressButton, HostTypeOK, PastTypeOK
    <3>13. QED
      BY <3>10, <3>11, <3>12
  <2>21. CASE HostReceive
    <3>1. Head(toClient) \in Message /\ toClient' \in Seq(Message)
      BY <2>21 DEF HostReceive, HostTypeOK
    <3>2. Head(toClient).n \in Nat
      BY <3>1 DEF Message
    <3>3. messages' \in Seq(Nat) /\ answers' \subseteq Nat
      <4>1. \/ messages' = messages /\ answers' = answers \cup {Head(toClient).n}
            \/ messages' = Append(messages, Head(toClient).n) /\ answers' = answers
        BY <2>21 DEF HostReceive
      <4>2. messages \in Seq(Nat) /\ answers \in SUBSET Nat
        BY DEF HostTypeOK
      <4>3. Append(messages, Head(toClient).n) \in Seq(Nat)
        BY <3>2, <4>2
      <4>4. answers \cup {Head(toClient).n} \in SUBSET Nat
        BY <3>2, <4>2
      <4>5. QED
        BY <4>1, <4>2, <4>3, <4>4
    <3>4. QED
      BY <2>21, <3>1, <3>3 DEF HostReceive, LoopTypeOK, MainTypeOK, HostTypeOK, PastTypeOK, ServerMessage
  <2>22. CASE PanelReturn
    BY <2>22 DEF PanelReturn, MainTypeOK, LoopTypeOK, HostTypeOK,
       PastTypeOK, ServerMessage, Requests, None
  <2>23. CASE Tick
    <3>1. Head(messages) \in Nat /\ messages' \in Seq(Nat)
      BY <2>23 DEF Tick, HostTypeOK
    <3>2. Answer(Head(messages)) \in ServerMessage
      BY <3>1 DEF Answer, ServerMessage, Message
    <3>3. toServer' \in Seq(ServerMessage)
      BY <2>23, <3>2 DEF Tick, HostTypeOK
    <3>4. QED
      BY <2>23, <3>1, <3>3 DEF Tick, LoopTypeOK, MainTypeOK, HostTypeOK, PastTypeOK, ServerMessage
  <2>24. CASE HostEnd
    <3>1. toClient' \in Seq(Message) /\ messages' \in Seq(Nat) /\ answers' = {} /\ panel' = 0
      BY <2>24 DEF HostEnd
    <3>2. HostTypeOK'
      <4>1. host' \in BOOLEAN
        BY <2>24, Zenon DEF HostEnd
      <4>2. toServer' \in Seq(ServerMessage')
        BY <2>24 DEF HostEnd, HostTypeOK, ServerMessage
      <4>3. QED
        BY <3>1, <4>1, <4>2 DEF HostTypeOK
    <3>3. MainTypeOK' /\ LoopTypeOK'
      BY <2>24 DEF HostEnd, MainTypeOK, LoopTypeOK
    <3>4. PastTypeOK'
      BY <2>24 DEF HostEnd, PastTypeOK
    <3>5. QED
      BY <3>2, <3>3, <3>4
  <2>25. CASE UNCHANGED vars
    BY <2>25 DEF vars, MainTypeOK, LoopTypeOK, HostTypeOK, PastTypeOK, ServerMessage
  <2>26. QED
    BY <2>1, <2>2, <2>3, <2>4, <2>5, <2>6, <2>7, <2>8, <2>9, <2>10, <2>11, <2>12, <2>13,
       <2>14, <2>15, <2>16, <2>17, <2>18, <2>19, <2>20, <2>21, <2>22, <2>23, <2>24, <2>25
       DEF Next, MainStep, LoopStep, HostStep, Poll
<1>3. QED
  BY <1>1, <1>2, PTL DEF Spec

-----------------------------------------------------------------------------
(***************************************************************************)
(* No cyclic wait for the polite user.  The invariant behind it: the main  *)
(* thread is in a request only in launch(), a tool or a talking item; and  *)
(* with a polite user the only click anywhere, queued, on the way or       *)
(* waited for, is the last one, and there is none while a tool is in use.  *)
(***************************************************************************)
LastClick == {m \in Message : m.kind = "click" => m.n = Len(clicks)}
NoClick   == {m \in Message : m.kind # "click"}

RequestInv ==
  /\ req # "none" => ctx \in {"textfile", "tool"}
                     \/ (ctx = "item" /\ clicks[item] \in Talking)
  /\ scheduled # None => req = "send"

OneThingInv ==
  polite => /\ ctx \in {"launch", "textfile", "tool"} =>
                 items = <<>> /\ waiting = 0 /\ toServer \in Seq(NoClick)
            /\ ctx = "item" => item = Len(clicks)
            /\ waiting # 0 => waiting = Len(clicks)
            /\ items \in Seq({Len(clicks)})
            /\ toServer \in Seq(LastClick)

PoliteInv == RequestInv /\ OneThingInv

\* Every step keeps track of whose request the main thread is in.
LEMMA RequestStep == TypeOK /\ RequestInv /\ [Next]_vars => RequestInv'
<1> SUFFICES ASSUME TypeOK, RequestInv, [Next]_vars
             PROVE  RequestInv'
  OBVIOUS
<1> USE DEF RequestInv, None, mainVars, loopVars, hostVars, wireVars, pastVars
<1>1. CASE LaunchConnected
  BY <1>1 DEF LaunchConnected, Request
<1>2. CASE LaunchHostEnded
  BY <1>2 DEF LaunchHostEnded
<1>3. CASE ListenHostEnded
  BY <1>3 DEF ListenHostEnded
<1>4. CASE TakeItem
  BY <1>4 DEF TakeItem
<1>5. CASE UseTool
  BY <1>5 DEF UseTool
<1>6. CASE RunScript
  BY <1>6 DEF RunScript, Request
<1>7. CASE Finish
  BY <1>7 DEF Finish
<1>8. CASE PollClosed
  BY <1>8 DEF PollClosed
<1>9. CASE PollFound
  BY <1>9 DEF PollFound
<1>10. CASE PollTimeout
  BY <1>10 DEF PollTimeout
<1>11. CASE Interrupt
  BY <1>11 DEF Interrupt
<1>12. CASE Quit
  BY <1>12 DEF Quit
<1>13. CASE LoopSend
  BY <1>13 DEF LoopSend, Send
<1>14. CASE LoopClick
  BY <1>14 DEF LoopClick, Send
<1>15. CASE LoopResume
  BY <1>15 DEF LoopResume, Send
<1>16. CASE LoopAnswer
  BY <1>16 DEF LoopAnswer
<1>17. CASE LoopClosed
  BY <1>17 DEF LoopClosed
<1>18. CASE LoopShutdown
  BY <1>18 DEF LoopShutdown
<1>19. CASE HostConnect
  BY <1>19 DEF HostConnect
<1>20. CASE PressButton
  <2>1. PICK r \in Routes : clicks' = Append(clicks, r)
    BY <1>20 DEF PressButton
  <2>2. \A k \in DOMAIN clicks : clicks'[k] = clicks[k]
    BY <2>1 DEF TypeOK, PastTypeOK
  <2>3. ctx = "item" => item \in DOMAIN clicks
    BY DEF TypeOK, MainTypeOK
  <2>4. QED
    BY <1>20, <2>2, <2>3 DEF PressButton
<1>21. CASE HostReceive
  BY <1>21 DEF HostReceive
<1>22. CASE PanelReturn
  BY <1>22 DEF PanelReturn
<1>23. CASE Tick
  BY <1>23 DEF Tick
<1>24. CASE HostEnd
  BY <1>24 DEF HostEnd
<1>25. CASE UNCHANGED vars
  BY <1>25 DEF vars
<1>26. QED
  BY <1>1, <1>2, <1>3, <1>4, <1>5, <1>6, <1>7, <1>8, <1>9, <1>10, <1>11, <1>12, <1>13,
     <1>14, <1>15, <1>16, <1>17, <1>18, <1>19, <1>20, <1>21, <1>22, <1>23, <1>24, <1>25
     DEF Next, MainStep, LoopStep, HostStep, Poll
\* Every step of a polite user leaves one thing under way at most.
LEMMA OneThingStep == TypeOK /\ OneThingInv /\ [Next]_vars => OneThingInv'
<1> SUFFICES ASSUME TypeOK, OneThingInv, [Next]_vars, polite'
             PROVE  OneThingInv'
  BY DEF OneThingInv
<1> USE DEF mainVars, loopVars, hostVars, wireVars, pastVars
<1>1. polite
  BY DEF Next, MainStep, LoopStep, HostStep, Poll, vars,
     LaunchConnected, LaunchHostEnded, ListenHostEnded, TakeItem, UseTool, RunScript, Finish, PollClosed, PollFound, PollTimeout, Interrupt, Quit, LoopSend, LoopClick, LoopResume, LoopAnswer, LoopClosed, LoopShutdown, HostConnect, PressButton, HostReceive, PanelReturn, Tick, HostEnd
<1>2. CASE LaunchConnected
  BY <1>1, <1>2 DEF LaunchConnected, Request, OneThingInv, LastClick, NoClick
<1>3. CASE LaunchHostEnded
  BY <1>1, <1>3 DEF LaunchHostEnded, OneThingInv, LastClick, NoClick
<1>4. CASE ListenHostEnded
  BY <1>1, <1>4 DEF ListenHostEnded, OneThingInv, LastClick, NoClick
<1>5. CASE TakeItem
  BY <1>1, <1>5 DEF TakeItem, OneThingInv, LastClick, NoClick
<1>6. CASE UseTool
  <2>1. items = <<>> /\ waiting = 0 /\ toServer = <<>>
    BY <1>1, <1>6 DEF UseTool, NothingUnderWay
  <2>2. toServer' \in Seq(NoClick)'
    BY <2>1, <1>6 DEF UseTool
  <2>3. QED
    BY <2>1, <2>2, <1>6 DEF UseTool, OneThingInv, LastClick, NoClick
<1>7. CASE RunScript
  BY <1>1, <1>7 DEF RunScript, Request, OneThingInv, LastClick, NoClick
<1>8. CASE Finish
  BY <1>1, <1>8 DEF Finish, OneThingInv, LastClick, NoClick
<1>9. CASE PollClosed
  BY <1>1, <1>9 DEF PollClosed, OneThingInv, LastClick, NoClick
<1>10. CASE PollFound
  BY <1>1, <1>10 DEF PollFound, OneThingInv, LastClick, NoClick
<1>11. CASE PollTimeout
  BY <1>1, <1>11 DEF PollTimeout, OneThingInv, LastClick, NoClick
<1>12. CASE Interrupt
  BY <1>1, <1>12 DEF Interrupt, OneThingInv, LastClick, NoClick
<1>13. CASE Quit
  BY <1>1, <1>13 DEF Quit, OneThingInv, LastClick, NoClick
<1>14. CASE LoopSend
  BY <1>1, <1>14 DEF LoopSend, Send, OneThingInv, LastClick, NoClick
<1>15. CASE LoopClick
  BY <1>1, <1>15 DEF LoopClick, Send, OneThingInv, LastClick, NoClick
<1>16. CASE LoopResume
  BY <1>1, <1>16 DEF LoopResume, Send, OneThingInv, LastClick, NoClick
<1>17. CASE LoopAnswer
  BY <1>1, <1>17 DEF LoopAnswer, OneThingInv, LastClick, NoClick
<1>18. CASE LoopClosed
  BY <1>1, <1>18 DEF LoopClosed, OneThingInv, LastClick, NoClick
<1>19. CASE LoopShutdown
  BY <1>1, <1>19 DEF LoopShutdown, OneThingInv, LastClick, NoClick
<1>20. CASE HostConnect
  BY <1>1, <1>20 DEF HostConnect, OneThingInv, LastClick, NoClick
<1>21. CASE PressButton
  <2>1. items = <<>> /\ waiting = 0 /\ toServer = <<>> /\ ctx = "idle"
    BY <1>1, <1>21 DEF PressButton, NothingUnderWay
  <2>2. Len(clicks') \in Nat /\ panel' = Len(clicks')
        /\ toServer' = Append(toServer, Click(panel'))
    BY <1>21 DEF PressButton, TypeOK, PastTypeOK
  <2>3. Click(panel') \in LastClick'
    BY <2>2 DEF Click, LastClick, Message
  <2>4. toServer' \in Seq(LastClick')
    BY <2>1, <2>2, <2>3
  <2>5. QED
    BY <2>1, <2>4, <1>21 DEF PressButton, OneThingInv
<1>22. CASE HostReceive
  BY <1>1, <1>22 DEF HostReceive, OneThingInv, LastClick, NoClick
<1>23. CASE PanelReturn
  BY <1>1, <1>23 DEF PanelReturn, OneThingInv, LastClick, NoClick
<1>24. CASE Tick
  <2>1. Answer(Head(messages)) \in LastClick /\ Answer(Head(messages)) \in NoClick
    BY <1>24 DEF Tick, TypeOK, HostTypeOK, Answer, LastClick, NoClick, Message
  <2>2. toServer' = Append(toServer, Answer(Head(messages)))
    BY <1>24 DEF Tick
  <2>3. toServer' \in Seq(LastClick)
    BY <1>1, <2>1, <2>2 DEF OneThingInv
  <2>4. toServer \in Seq(NoClick) => toServer' \in Seq(NoClick)
    BY <2>1, <2>2
  <2>5. LastClick' = LastClick /\ NoClick' = NoClick
    BY <1>24 DEF Tick, LastClick, NoClick
  <2>6. QED
    BY <1>1, <1>24, <2>3, <2>4, <2>5 DEF Tick, OneThingInv
<1>25. CASE HostEnd
  BY <1>1, <1>25 DEF HostEnd, OneThingInv, LastClick, NoClick
<1>26. CASE UNCHANGED vars
  BY <1>1, <1>26 DEF vars, OneThingInv, LastClick, NoClick
<1>27. QED
  BY <1>2, <1>3, <1>4, <1>5, <1>6, <1>7, <1>8, <1>9, <1>10, <1>11, <1>12, <1>13, <1>14,
     <1>15, <1>16, <1>17, <1>18, <1>19, <1>20, <1>21, <1>22, <1>23, <1>24, <1>25, <1>26
     DEF Next, MainStep, LoopStep, HostStep, Poll

\* A user who does one thing at a time never gets into the cycle in which the
\* main thread waits for TVPaint and the event loop for the main thread,
\* provided that no tool opened by a waiting route talks to TVPaint.
THEOREM NoCyclicWaitWhenPolite == Spec => []PoliteNoCyclicWait
<1>1. Init => PoliteInv
  <2> SUFFICES ASSUME Init
               PROVE  PoliteInv
    OBVIOUS
  <2>1. RequestInv
    BY DEF Init, RequestInv, None
  <2>2. OneThingInv
    BY DEF Init, OneThingInv
  <2>3. QED
    BY <2>1, <2>2 DEF PoliteInv
<1>2. TypeOK /\ PoliteInv /\ [Next]_vars => PoliteInv'
  BY RequestStep, OneThingStep DEF PoliteInv
<1>3. TypeOK /\ PoliteInv => PoliteNoCyclicWait
  <2> SUFFICES ASSUME TypeOK, PoliteInv, polite, CyclicWait
               PROVE  FALSE
    BY DEF PoliteNoCyclicWait
  <2>1. clicks[waiting] \in Waited /\ waiting = Len(clicks)
    BY DEF TypeOK, LoopTypeOK, PoliteInv, OneThingInv, CyclicWait
  <2>2. ctx = "item" /\ clicks[item] \in Talking
    BY DEF PoliteInv, RequestInv, OneThingInv, CyclicWait
  <2>3. item = waiting
    BY <2>1, <2>2 DEF PoliteInv, OneThingInv
  <2>4. QED
    BY <2>1, <2>2, <2>3, RoutesAssumption
<1>4. QED
  BY <1>1, <1>2, <1>3, TypeCorrect, PTL DEF Spec

-----------------------------------------------------------------------------
(***************************************************************************)
(* TVPaintRpc implements LossyFifo.  A press is on the way to the event    *)
(* loop, then an item of the main thread's queue.  The invariant is that   *)
(* presses never overtake each other: the head of the queue is the oldest. *)
(***************************************************************************)
Queued   == Range(items)
OnTheWay == PressesOf(Range(toServer))

Below(A, B) == \A a \in A, b \in B : a < b
Rising(s) == \A i, j \in DOMAIN s : i < j => s[i] < s[j]
ClicksRise(s) ==
  \A i, j \in DOMAIN s : i < j /\ s[i].kind = "click" /\ s[j].kind = "click" => s[i].n < s[j].n

OrderInv ==
  /\ Rising(items) /\ ClicksRise(toServer)
  /\ Below(Queued, OnTheWay)
  /\ \A k \in Queued \cup OnTheWay : k <= Len(clicks)

\* What a step has to show: it keeps the order and is a step of LossyFifo.
FifoStep == OrderInv' /\ [Fifo!Next]_(Fifo!vars)

\* The presses in a union, and in one message.
LEMMA Presses ==
  /\ \A A, B : PressesOf(A \cup B) = PressesOf(A) \cup PressesOf(B)
  /\ \A m : m.kind = "click" => PressesOf({m}) = {m.n}
  /\ \A m : m.kind # "click" => PressesOf({m}) = {}
  /\ PressesOf({}) = {}
  BY DEF PressesOf

\* What a sequence holds after one more element.
LEMMA AppendRange ==
  ASSUME NEW S, NEW s \in Seq(S), NEW x \in S
  PROVE  Range(Append(s, x)) = Range(s) \cup {x}
<1> DEFINE t == Append(s, x)
<1>1. /\ Len(s) \in Nat /\ DOMAIN s = 1..Len(s) /\ DOMAIN t = 1..(Len(s) + 1)
      /\ t[Len(s) + 1] = x /\ \A i \in 1..Len(s) : t[i] = s[i]
  OBVIOUS
<1> HIDE DEF t
<1>2. \A i \in 1..(Len(s) + 1) : i \in 1..Len(s) \/ i = Len(s) + 1
  BY <1>1
<1>3. Len(s) + 1 \in DOMAIN t /\ \A i \in DOMAIN s : i \in DOMAIN t
  BY <1>1
<1>4. Range(t) = Range(s) \cup {x}
  BY <1>1, <1>2, <1>3, Zenon DEF Range
<1> QED
  BY <1>4 DEF t

\* What a sequence holds, by its head and its tail.
LEMMA SplitRange ==
  ASSUME NEW S, NEW s \in Seq(S), s # <<>>
  PROVE  Range(s) = {Head(s)} \cup Range(Tail(s))
<1>1. /\ Len(s) \in Nat /\ Len(s) >= 1 /\ DOMAIN s = 1..Len(s)
      /\ DOMAIN Tail(s) = 1..(Len(s) - 1) /\ Head(s) = s[1]
      /\ \A i \in 1..(Len(s) - 1) : Tail(s)[i] = s[i + 1]
  OBVIOUS
<1>2. ASSUME NEW x \in Range(s)
      PROVE  x \in {Head(s)} \cup Range(Tail(s))
  <2>1. PICK i \in 1..Len(s) : x = s[i]
    BY <1>1 DEF Range
  <2>2. CASE i = 1
    BY <1>1, <2>1, <2>2
  <2>3. CASE i # 1
    <3>1. i - 1 \in 1..(Len(s) - 1) /\ Tail(s)[i - 1] = s[i]
      BY <1>1, <2>1, <2>3
    <3> QED
      BY <1>1, <2>1, <3>1 DEF Range
  <2> QED
    BY <2>2, <2>3
<1>3. ASSUME NEW x \in {Head(s)} \cup Range(Tail(s))
      PROVE  x \in Range(s)
  <2>1. CASE x = Head(s)
    BY <1>1, <2>1 DEF Range
  <2>2. CASE x \in Range(Tail(s))
    <3>1. PICK i \in 1..(Len(s) - 1) : x = Tail(s)[i]
      BY <1>1, <2>2 DEF Range
    <3>2. i + 1 \in 1..Len(s) /\ x = s[i + 1]
      BY <1>1, <3>1
    <3> QED
      BY <1>1, <3>2 DEF Range
  <2> QED
    BY <1>3, <2>1, <2>2
<1> QED
  BY <1>2, <1>3

\* A rising queue has its smallest number at its head, and its tail rises; so
\* it does with a number above all others at its end.
LEMMA RisingQueue ==
  ASSUME NEW s \in Seq(Nat), Rising(s)
  PROVE  /\ s # <<>> => Rising(Tail(s)) /\ Below({Head(s)}, Range(Tail(s)))
         /\ \A k \in Nat : Below(Range(s), {k}) => Rising(Append(s, k))
<1>1. ASSUME s # <<>>
      PROVE  Rising(Tail(s)) /\ Below({Head(s)}, Range(Tail(s)))
  <2>1. /\ Len(s) \in Nat /\ Len(s) >= 1 /\ DOMAIN s = 1..Len(s)
        /\ DOMAIN Tail(s) = 1..(Len(s) - 1) /\ Head(s) = s[1]
        /\ \A i \in 1..(Len(s) - 1) : Tail(s)[i] = s[i + 1]
    BY <1>1
  <2>2. Rising(Tail(s))
    BY <2>1 DEF Rising
  <2>3. Below({Head(s)}, Range(Tail(s)))
    BY <2>1 DEF Rising, Below, Range
  <2> QED
    BY <2>2, <2>3
<1>2. ASSUME NEW k \in Nat, Below(Range(s), {k})
      PROVE  Rising(Append(s, k))
  BY <1>2 DEF Rising, Below, Range
<1> QED
  BY <1>1, <1>2

\* The same of the presses in a sequence of messages.
LEMMA RisingMessages ==
  ASSUME NEW s \in Seq(Message), ClicksRise(s)
  PROVE  /\ s # <<>> => ClicksRise(Tail(s)) /\ Below(PressesOf({Head(s)}), PressesOf(Range(Tail(s))))
         /\ \A m \in Message :
              Below(PressesOf(Range(s)), PressesOf({m})) => ClicksRise(Append(s, m))
<1>1. ASSUME s # <<>>
      PROVE  ClicksRise(Tail(s)) /\ Below(PressesOf({Head(s)}), PressesOf(Range(Tail(s))))
  <2>1. /\ Len(s) \in Nat /\ Len(s) >= 1 /\ DOMAIN s = 1..Len(s)
        /\ DOMAIN Tail(s) = 1..(Len(s) - 1) /\ Head(s) = s[1]
        /\ \A i \in 1..(Len(s) - 1) : Tail(s)[i] = s[i + 1]
    BY <1>1
  <2>2. ClicksRise(Tail(s))
    BY <2>1 DEF ClicksRise
  <2>3. Below(PressesOf({Head(s)}), PressesOf(Range(Tail(s))))
    BY <2>1 DEF ClicksRise, Below, Range, PressesOf
  <2> QED
    BY <2>2, <2>3
<1>2. ASSUME NEW m \in Message, Below(PressesOf(Range(s)), PressesOf({m}))
      PROVE  ClicksRise(Append(s, m))
  <2>1. ASSUME NEW i \in 1..Len(s), s[i].kind = "click", m.kind = "click"
        PROVE  s[i].n < m.n
    BY <1>2, <2>1 DEF Below, Range, PressesOf
  <2> QED
    BY <2>1 DEF ClicksRise
<1> QED
  BY <1>1, <1>2

\* The presses anywhere are numbers.
LEMMA PlaceTypes ==
  ASSUME TypeOK
  PROVE  /\ \A k \in Queued \cup OnTheWay : k \in Nat
         /\ items \in Seq(Nat) /\ toServer \in Seq(Message) /\ Len(clicks) \in Nat
<1>1. DOMAIN clicks \subseteq Nat /\ Len(clicks) \in Nat
  BY DEF TypeOK, PastTypeOK
<1>2. items \in Seq(Nat)
  BY <1>1, WidenSeq DEF TypeOK, MainTypeOK
<1>3. toServer \in Seq(Message)
  <2>1. ServerMessage \subseteq Message
    BY DEF ServerMessage
  <2> QED
    BY <2>1, WidenSeq DEF TypeOK, HostTypeOK
<1>4. \A m \in Message : m.n \in Nat
  BY DEF Message
<1>5. Queued \subseteq Nat /\ OnTheWay \subseteq Nat
  BY <1>2, <1>3, <1>4 DEF Queued, OnTheWay, Range, PressesOf
<1> QED
  BY <1>1, <1>2, <1>3, <1>5

\* A step that loses some of the presses on the way, or none.
LEMMA LosingStep ==
  ASSUME OrderInv, UNCHANGED <<items, clicks, executed>>, OnTheWay' \subseteq OnTheWay,
         ClicksRise(toServer')
  PROVE  FifoStep
<1>1. UNCHANGED Queued
  BY DEF Queued
<1>2. OrderInv'
  BY <1>1 DEF OrderInv, Below
<1>3. Fifo!Lose
  BY <1>1 DEF Fifo!Lose, Queued, OnTheWay
<1> QED
  BY <1>2, <1>3 DEF FifoStep, Fifo!Next

\* A press is on the way behind all others.
LEMMA PressStep ==
  ASSUME TypeOK, OrderInv, PressButton
  PROVE  FifoStep
<1> DEFINE n == Len(clicks) + 1
<1>1. Len(clicks) \in Nat /\ Len(clicks') = n /\ panel' = n
      /\ toServer' = Append(toServer, Click(n)) /\ UNCHANGED <<items, executed>>
  <2>1. PICK r \in Routes : clicks' = Append(clicks, r)
    BY DEF PressButton
  <2>2. Len(clicks) \in Nat /\ Len(clicks') = n
    BY <2>1 DEF TypeOK, PastTypeOK
  <2> QED
    BY <2>2 DEF PressButton, mainVars
<1>2. n \in Nat /\ Click(n) \in Message /\ toServer \in Seq(Message)
  BY <1>1, PlaceTypes DEF Click, Message
<1>3. PressesOf({Click(n)}) = {n}
  BY Presses DEF Click
<1>4. OnTheWay' = OnTheWay \cup {n}
  <2>1. Range(Append(toServer, Click(n))) = Range(toServer) \cup {Click(n)}
    BY <1>2, AppendRange
  <2>2. OnTheWay' = PressesOf(Range(toServer) \cup {Click(n)})
    BY <1>1, <2>1 DEF OnTheWay
  <2> QED
    BY <1>3, <2>2, Presses DEF OnTheWay
<1>5. UNCHANGED Queued
  BY <1>1 DEF Queued
<1>6. \A k \in Queued \cup OnTheWay : k < n /\ k \in Nat
  <2>1. \A k \in Queued \cup OnTheWay : k \in Nat
    BY PlaceTypes
  <2> QED
    BY <1>1, <2>1 DEF OrderInv
<1>7. ClicksRise(toServer')
  <2>1. Below(OnTheWay, PressesOf({Click(n)}))
    BY <1>3, <1>6 DEF Below
  <2> QED
    BY <1>1, <1>2, <2>1, RisingMessages DEF OrderInv, OnTheWay
<1>8. OrderInv'
  <2>1. Below(Queued, OnTheWay)'
    BY <1>4, <1>5, <1>6 DEF OrderInv, Below
  <2>2. \A k \in (Queued \cup OnTheWay)' : k <= Len(clicks')
    BY <1>1, <1>4, <1>5, <1>6
  <2>3. Rising(items')
    BY <1>1 DEF OrderInv
  <2> QED
    BY <1>7, <2>1, <2>2, <2>3 DEF OrderInv
<1>9. Fifo!Post
  BY <1>1, <1>4, <1>5 DEF Fifo!Post, Queued, OnTheWay
<1> QED
  BY <1>8, <1>9 DEF FifoStep, Fifo!Next

\* The event loop queues the first press on the way behind those queued.
LEMMA ClickStep ==
  ASSUME TypeOK, OrderInv, LoopClick
  PROVE  FifoStep
<1> DEFINE k == Head(toServer).n
<1>1. /\ toServer # <<>> /\ Head(toServer).kind = "click" /\ toServer' = Tail(toServer)
      /\ items' = Append(items, k) /\ UNCHANGED <<clicks, executed>>
  BY DEF LoopClick, pastVars
<1>2. toServer \in Seq(Message) /\ Head(toServer) \in Message /\ items \in Seq(Nat) /\ k \in Nat
  <2>1. toServer \in Seq(Message) /\ items \in Seq(Nat)
    BY PlaceTypes
  <2>2. Head(toServer) \in Message
    BY <1>1, <2>1
  <2>3. k \in Nat
    BY <2>2 DEF Message
  <2> QED
    BY <2>1, <2>2, <2>3
<1>3. PressesOf({Head(toServer)}) = {k}
  BY <1>1, Presses
<1>4. OnTheWay = {k} \cup OnTheWay'
  <2>1. Range(toServer) = {Head(toServer)} \cup Range(Tail(toServer))
    BY <1>1, <1>2, SplitRange
  <2>2. PressesOf(Range(toServer)) = PressesOf({Head(toServer)}) \cup PressesOf(Range(Tail(toServer)))
    BY <2>1, Presses
  <2> QED
    BY <1>1, <1>3, <2>2 DEF OnTheWay
<1>5. ClicksRise(toServer') /\ Below({k}, OnTheWay')
  BY <1>1, <1>2, <1>3, RisingMessages DEF OrderInv, OnTheWay
<1> HIDE DEF k
<1>6. Queued' = Queued \cup {k}
  BY <1>1, <1>2, AppendRange DEF Queued
<1>7. Rising(items')
  <2>1. Below(Range(items), {k})
    BY <1>4 DEF OrderInv, Queued, Below
  <2> QED
    BY <1>1, <1>2, <2>1, RisingQueue DEF OrderInv
<1>8. OrderInv'
  BY <1>1, <1>4, <1>5, <1>6, <1>7 DEF OrderInv, Below
<1>9. UNCHANGED Fifo!vars
  BY <1>1, <1>4, <1>6 DEF Fifo!vars, Queued, OnTheWay
<1> QED
  BY <1>8, <1>9 DEF FifoStep

\* The main thread takes the head of its queue: the oldest press.
LEMMA TakeStep ==
  ASSUME TypeOK, OrderInv, TakeItem
  PROVE  FifoStep
<1> DEFINE k == Head(items)
<1>1. /\ items # <<>> /\ items' = Tail(items) /\ executed' = Append(executed, k)
      /\ UNCHANGED <<clicks, toServer>>
  BY DEF TakeItem, wireVars
<1>2. items \in Seq(Nat) /\ k \in Nat
  BY <1>1, PlaceTypes
<1>3. UNCHANGED OnTheWay
  BY <1>1 DEF OnTheWay
<1>4. Queued = {k} \cup Queued'
  BY <1>1, <1>2, SplitRange DEF Queued
<1>5. Rising(items') /\ Below({k}, Queued')
  BY <1>1, <1>2, RisingQueue DEF OrderInv, Queued
<1> HIDE DEF k
<1>6. OrderInv'
  BY <1>1, <1>3, <1>4, <1>5 DEF OrderInv, Below
<1>7. \A j \in Queued' \cup OnTheWay : k < j /\ j \in Nat
  BY <1>4, <1>5, PlaceTypes DEF OrderInv, Below
<1>8. k \notin Queued' \cup OnTheWay
  BY <1>2, <1>7
<1>9. Fifo!Execute
  <2> DEFINE pending == Queued \cup OnTheWay
  <2>1. k \in pending /\ \A j \in pending : k <= j
    BY <1>2, <1>4, <1>7
  <2>2. pending' = pending \ {k}
    BY <1>3, <1>4, <1>8
  <2>3. executed' = Append(executed, k) /\ UNCHANGED Len(clicks)
    BY <1>1
  <2>4. \E n \in pending : /\ \A j \in pending : n <= j
                           /\ pending' = pending \ {n}
                           /\ executed' = Append(executed, n)
    BY <2>1, <2>2, <2>3
  <2> QED
    BY <2>3, <2>4 DEF Fifo!Execute, Queued, OnTheWay
<1> QED
  BY <1>6, <1>9 DEF FifoStep, Fifo!Next

\* The initial states are those of LossyFifo.
LEMMA FifoInit == Init => OrderInv /\ Fifo!Init
<1> SUFFICES ASSUME Init
             PROVE  OrderInv /\ Fifo!Init
  OBVIOUS
<1>1. items = <<>> /\ toServer = <<>> /\ clicks = <<>> /\ executed = <<>>
  BY DEF Init
<1>2. Queued = {} /\ OnTheWay = {}
  BY <1>1, Presses DEF Queued, OnTheWay, Range
<1>3. OrderInv
  BY <1>1, <1>2 DEF OrderInv, Rising, ClicksRise, Below
<1>4. Fifo!Init
  BY <1>1, <1>2 DEF Fifo!Init, Queued, OnTheWay
<1> QED
  BY <1>3, <1>4

\* Every step is a step of LossyFifo or changes nothing of it.
LEMMA FifoSimulation == TypeOK /\ OrderInv /\ [Next]_vars => FifoStep
<1> SUFFICES ASSUME TypeOK, OrderInv, [Next]_vars
             PROVE  FifoStep
  OBVIOUS
<1> USE DEF mainVars, loopVars, hostVars, wireVars, pastVars
<1>1. CASE PressButton
  BY <1>1, PressStep
<1>2. CASE LoopClick
  BY <1>2, ClickStep
<1>3. CASE TakeItem
  BY <1>3, TakeStep
<1>4. CASE LoopAnswer
  <2>1. /\ toServer # <<>> /\ Head(toServer).kind = "answer" /\ toServer' = Tail(toServer)
        /\ UNCHANGED <<items, clicks, executed>>
    BY <1>4 DEF LoopAnswer
  <2>2. toServer \in Seq(Message)
    BY PlaceTypes
  <2>3. OnTheWay = PressesOf({Head(toServer)}) \cup OnTheWay'
    BY <2>1, <2>2, SplitRange, Presses DEF OnTheWay
  <2>4. ClicksRise(toServer')
    BY <2>1, <2>2, RisingMessages DEF OrderInv
  <2> QED
    BY <2>1, <2>3, <2>4, LosingStep
<1>5. CASE Tick
  <2> DEFINE a == Answer(Head(messages))
  <2>1. toServer' = Append(toServer, a) /\ messages # <<>> /\ UNCHANGED <<items, clicks, executed>>
    BY <1>5 DEF Tick
  <2>2. toServer \in Seq(Message)
    BY PlaceTypes
  <2>3. a \in Message /\ a.kind # "click"
    BY <2>1 DEF TypeOK, HostTypeOK, Answer, Message
  <2> HIDE DEF a
  <2>4. PressesOf({a}) = {}
    BY <2>3, Presses
  <2>5. Range(Append(toServer, a)) = Range(toServer) \cup {a}
    BY <2>2, <2>3, AppendRange
  <2>6. OnTheWay' = OnTheWay
    <3>1. PressesOf(Range(Append(toServer, a))) = PressesOf(Range(toServer)) \cup PressesOf({a})
      BY <2>5, Presses
    <3> QED
      BY <2>1, <2>4, <3>1 DEF OnTheWay
  <2>7. ClicksRise(toServer')
    BY <2>1, <2>2, <2>3, <2>4, RisingMessages DEF OrderInv, Below
  <2> QED
    BY <2>1, <2>6, <2>7, LosingStep
<1>6. CASE LoopClosed \/ LoopShutdown
  <2>1. toServer' = <<>> /\ UNCHANGED <<items, clicks, executed>>
    BY <1>6 DEF LoopClosed, LoopShutdown
  <2>2. OnTheWay' = {} /\ ClicksRise(toServer')
    BY <2>1, Presses DEF OnTheWay, ClicksRise, Range
  <2> QED
    BY <2>1, <2>2, LosingStep
<1>7. CASE UNCHANGED <<items, clicks, executed, toServer>>
  <2>1. UNCHANGED OnTheWay
    BY <1>7 DEF OnTheWay
  <2> QED
    BY <1>7, <2>1, LosingStep DEF OrderInv
<1>8. CASE \/ LaunchConnected \/ LaunchHostEnded \/ ListenHostEnded \/ UseTool \/ RunScript
           \/ Finish \/ Poll \/ PollTimeout \/ Interrupt \/ Quit
  <2>1. UNCHANGED <<items, clicks, executed, toServer>>
    BY <1>8 DEF LaunchConnected, LaunchHostEnded, ListenHostEnded, UseTool, RunScript, Finish, Poll,
                PollClosed, PollFound, PollTimeout, Interrupt, Quit
  <2> QED
    BY <2>1, <1>7
<1>9. CASE LoopSend \/ LoopResume \/ HostConnect \/ HostReceive \/ PanelReturn \/ HostEnd
  <2>1. UNCHANGED <<items, clicks, executed, toServer>>
    BY <1>9 DEF LoopSend, LoopResume, HostConnect, HostReceive, PanelReturn, HostEnd
  <2> QED
    BY <2>1, <1>7
<1>10. CASE UNCHANGED vars
  BY <1>7, <1>10 DEF vars
<1> QED
  BY <1>1, <1>2, <1>3, <1>4, <1>5, <1>6, <1>8, <1>9, <1>10 DEF Next, MainStep, LoopStep, HostStep

\* The tools open in the order the buttons were pressed and at most once per
\* press, for any routes and any number of presses and requests: the
\* connection implements LossyFifo (MainThreadItem, execute_in_main_thread).
THEOREM ImplementsFifo == Spec => ClicksFifo
<1>1. TypeOK /\ OrderInv /\ [Next]_vars => OrderInv' /\ [Fifo!Next]_(Fifo!vars)
  BY FifoSimulation DEF FifoStep
<1> QED
  BY <1>1, FifoInit, TypeCorrect, PTL DEF Spec, ClicksFifo, Fifo!Spec
=============================================================================
