------------------------------ MODULE TVPaintRpc ------------------------------
(***************************************************************************)
(* The connection between Avalon and TVPaint: the main thread of the       *)
(* Python process (tvpaint/launch_script.py, communication_server.py), the *)
(* thread that runs the websocket server's event loop, and the plugin in   *)
(* TVPaint (plugin_code/library.cpp) with TVPaint's own main thread.       *)
(*                                                                         *)
(* Requests go both ways.  A panel button blocks TVPaint until Avalon      *)
(* replies; a George script blocks Avalon's main thread until TVPaint      *)
(* answers; and most panel routes block the event loop, which carries all  *)
(* messages, until the main thread has run a callback.                     *)
(***************************************************************************)
EXTENDS Integers, Sequences, SequencesExt

CONSTANTS
  Routes,     \* the panel buttons
  Waited,     \* routes that wait for their callback: all but wait=False
  Talking,    \* routes whose tool sends requests to TVPaint when it opens
  MaxClicks,  \* bound: panel buttons pressed
  MaxRequests \* bound: requests of the main thread

\* The scene inventory and the subset manager read the scene when they open,
\* and these are the two routes called with wait=False.
ASSUME RoutesAssumption ==
  Waited \subseteq Routes /\ Talking \subseteq Routes /\ Waited \cap Talking = {}

ASSUME BoundsAssumption == MaxClicks \in Nat /\ MaxRequests \in Nat

VARIABLES
  \* Avalon's main thread
  ctx,        \* what it does: launch(), a tool window, an item of the queue...
  item,       \* the MainThreadItem being executed, as the number of its click
  req,        \* where it is in send_request
  reqId, result,
  items,      \* Communicator.callback_queue
  done,       \* items marked done
  asked,      \* requests_ids: the next request id
  \* the event loop
  scheduled,  \* the coroutine handed to the loop by run_coroutine_threadsafe
  waiting,    \* the item the loop is blocked on, 0 if none
  responses,  \* TVPaintRpc.responses
  ws,         \* the client's websocket: none, open or closed
  running,    \* WebsocketServerThread.is_running
  server,     \* server_is_running
  \* TVPaint
  host,       \* the process is alive
  panel,      \* the click TVPaint's main thread is blocked in, 0 if none
  messages,   \* Data.messages
  answers,    \* Data.responses
  toServer, toClient,
  \* what happened so far
  clicks,     \* route of every click
  executed,   \* clicks whose callback was started
  polite      \* the user does one thing at a time

mainVars == <<ctx, item, req, reqId, result, items, done, asked>>
loopVars == <<scheduled, waiting, responses, ws, running, server>>
hostVars == <<host, panel, messages, answers>>
wireVars == <<toServer, toClient>>
pastVars == <<clicks, executed, polite>>
vars == <<mainVars, loopVars, hostVars, wireVars, pastVars>>

-----------------------------------------------------------------------------
None == -1   \* no request, no result

Script(i) == [kind |-> "script", n |-> i]   \* Avalon asks, TVPaint answers
Answer(i) == [kind |-> "answer", n |-> i]
Click(k)  == [kind |-> "click",  n |-> k]   \* TVPaint asks, Avalon replies
Reply(k)  == [kind |-> "reply",  n |-> k]

Message == [kind : {"script", "answer", "click", "reply"}, n : Nat]

LoopFree == waiting = 0 /\ server

\* A message sent on a closed websocket is lost.
Send(m) == toClient' = IF ws = "open" /\ host THEN Append(toClient, m) ELSE toClient

Init ==
  /\ ctx = "launch" /\ item = 0 /\ req = "none" /\ reqId = None /\ result = None
  /\ items = <<>> /\ done = {} /\ asked = 0
  /\ scheduled = None /\ waiting = 0 /\ responses = <<>>
  /\ ws = "none" /\ running = TRUE /\ server = TRUE
  /\ host = TRUE /\ panel = 0 /\ messages = <<>> /\ answers = {}
  /\ toServer = <<>> /\ toClient = <<>>
  /\ clicks = <<>> /\ executed = <<>> /\ polite \in BOOLEAN

-----------------------------------------------------------------------------
(* Avalon's main thread. *)

\* send_request; CommunicationWrapper returns at once without a client.
Request ==
  /\ ws = "open" /\ asked < MaxRequests
  /\ reqId' = asked /\ asked' = asked + 1
  /\ scheduled' = reqId'
  /\ req' = "send" /\ result' = None

\* launch(): the client has connected; _initial_textfile_write.
LaunchConnected ==
  /\ ctx = "launch" /\ ws # "none"
  /\ \/ ctx' = "textfile" /\ Request
     \/ /\ ws = "closed" /\ ctx' = "idle"
        /\ UNCHANGED <<req, reqId, result, asked, scheduled>>
  /\ UNCHANGED <<item, items, done, waiting, responses, ws, running, server,
                 hostVars, wireVars, pastVars>>

\* launch(): the host ended first.  quit() has no effect before exec_().
LaunchHostEnded ==
  /\ ctx = "launch" /\ ~host
  /\ running' = FALSE
  /\ ctx' = "idle"
  /\ UNCHANGED <<item, req, reqId, result, items, done, asked, scheduled, waiting,
                 responses, ws, server, hostVars, wireVars, pastVars>>

\* main_thread_listen, called by the timer: stop when the host is gone.
ListenHostEnded ==
  /\ ctx = "idle" /\ ~host
  /\ running' = FALSE
  /\ ctx' = "quit"
  /\ UNCHANGED <<item, req, reqId, result, items, done, asked, scheduled, waiting,
                 responses, ws, server, hostVars, wireVars, pastVars>>

\* Mutant: the newest item first.
TakeNewestItem ==
  /\ ctx = "idle" /\ host /\ items # <<>>
  /\ item' = Last(items) /\ items' = Front(items)
  /\ executed' = Append(executed, item')
  /\ ctx' = "item"
  /\ UNCHANGED <<req, reqId, result, done, asked, loopVars, hostVars, wireVars,
                 clicks, polite>>

\* main_thread_listen and MainThreadItem.execute
TakeItem ==
  /\ ctx = "idle" /\ host /\ items # <<>>
  /\ item' = Head(items) /\ items' = Tail(items)
  /\ executed' = Append(executed, item')
  /\ ctx' = "item"
  /\ UNCHANGED <<req, reqId, result, done, asked, loopVars, hostVars, wireVars,
                 clicks, polite>>

\* One thing at a time: nothing the user asked for before is still under way.
NothingUnderWay ==
  ctx = "idle" /\ items = <<>> /\ waiting = 0 /\ panel = 0 /\ toServer = <<>>

\* The user works in a tool window; Qt calls the tool in the main thread.
UseTool ==
  /\ ctx = "idle" /\ running
  /\ polite => NothingUnderWay
  /\ ctx' = "tool"
  /\ UNCHANGED <<item, req, reqId, result, items, done, asked, loopVars, hostVars,
                 wireVars, pastVars>>

\* The tool, or the callback of an item, runs a George script.
RunScript ==
  /\ req = "none"
  /\ ctx = "tool" \/ (ctx = "item" /\ clicks[item] \in Talking)
  /\ Request
  /\ UNCHANGED <<ctx, item, items, done, waiting, responses, ws, running, server,
                 hostVars, wireVars, pastVars>>

\* Mutant: without its "finally" execute marks no item done.
FinishWithoutDone ==
  /\ ctx \in {"textfile", "tool", "item"} /\ req = "none"
  /\ item' = 0 /\ ctx' = "idle" /\ result' = None
  /\ UNCHANGED <<req, reqId, items, done, asked, loopVars, hostVars, wireVars, pastVars>>

\* The tool or callback returns; an item is done whatever its callback did.
Finish ==
  /\ ctx \in {"textfile", "tool", "item"} /\ req = "none"
  /\ done' = IF ctx = "item" THEN done \cup {item} ELSE done
  /\ item' = 0 /\ ctx' = "idle" /\ result' = None
  /\ UNCHANGED <<req, reqId, items, asked, loopVars, hostVars, wireVars, pastVars>>

\* send_request's loop: no result once the websocket is closed
PollClosed ==
  /\ req = "poll" /\ ws = "closed"
  /\ req' = "none" /\ reqId' = None
  /\ UNCHANGED <<ctx, item, result, items, done, asked, loopVars, hostVars, wireVars,
                 pastVars>>

\* ... or the response with the id of the request, which is then removed
PollFound ==
  /\ req = "poll"
  /\ \E i \in DOMAIN responses :
       /\ responses[i] = reqId
       /\ responses' = RemoveAt(responses, i)
       /\ result' = responses[i]
  /\ req' = "none"
  /\ UNCHANGED <<ctx, item, reqId, items, done, asked, scheduled, waiting, ws, running,
                 server, hostVars, wireVars, pastVars>>

\* ... or an exception, for a caller that gave a timeout (launch gives none).
PollTimeout ==
  /\ req = "poll" /\ ctx # "textfile"
  /\ req' = "none" /\ reqId' = None
  /\ UNCHANGED <<ctx, item, result, items, done, asked, loopVars, hostVars, wireVars,
                 pastVars>>

\* Communicator.stop from the signal handler, once launch() is over.
Interrupt ==
  /\ ctx \in {"idle", "tool", "item"} /\ running
  /\ running' = FALSE
  /\ UNCHANGED <<mainVars, scheduled, waiting, responses, ws, server, hostVars, wireVars,
                 pastVars>>

\* exec_() returns after quit().
Quit ==
  /\ ctx = "idle" /\ ~running
  /\ ctx' = "quit"
  /\ UNCHANGED <<item, req, reqId, result, items, done, asked, loopVars, hostVars,
                 wireVars, pastVars>>

-----------------------------------------------------------------------------
(* The event loop. *)

\* send_str: on a closed websocket the script is lost or the call raises, and
\* out of launch() the exception ends the main thread.
LoopSend ==
  /\ LoopFree /\ scheduled # None
  /\ scheduled' = None
  /\ Send(Script(scheduled))
  /\ \/ req' = "poll" /\ UNCHANGED <<ctx, reqId>>
     \/ /\ ws = "closed" \/ ~host
        /\ req' = "none" /\ reqId' = None
        /\ ctx' = IF ctx = "textfile" THEN "quit" ELSE ctx
  /\ UNCHANGED <<item, result, items, done, asked, waiting, responses, ws, running,
                 server, hostVars, toServer, pastVars>>

\* Mutant: every route waits.
LoopClickWaiting ==
  /\ LoopFree /\ toServer # <<>> /\ Head(toServer).kind = "click"
  /\ toServer' = Tail(toServer)
  /\ items' = Append(items, Head(toServer).n)
  /\ waiting' = Head(toServer).n
  /\ UNCHANGED <<ctx, item, req, reqId, result, done, asked, scheduled, responses, ws,
                 running, server, hostVars, toClient, pastVars>>

\* A panel route: queue the item and block on it, or reply at once.
LoopClick ==
  LET k == Head(toServer).n
  IN  /\ LoopFree /\ toServer # <<>> /\ Head(toServer).kind = "click"
      /\ toServer' = Tail(toServer)
      /\ items' = Append(items, k)
      /\ IF clicks[k] \in Waited
         THEN waiting' = k /\ UNCHANGED toClient
         ELSE Send(Reply(k)) /\ UNCHANGED waiting
      /\ UNCHANGED <<ctx, item, req, reqId, result, done, asked, scheduled, responses,
                     ws, running, server, hostVars, pastVars>>

\* MainThreadItem.wait returns and the route's reply is sent.
LoopResume ==
  /\ server /\ waiting \in done
  /\ Send(Reply(waiting))
  /\ waiting' = 0
  /\ UNCHANGED <<mainVars, scheduled, responses, ws, running, server, hostVars, toServer,
                 pastVars>>

\* _handle_rpc_msg keeps an answer whose id was ever asked for.
LoopAnswer ==
  /\ LoopFree /\ toServer # <<>> /\ Head(toServer).kind = "answer"
  /\ Head(toServer).n < asked
  /\ toServer' = Tail(toServer)
  /\ responses' = Append(responses, Head(toServer).n)
  /\ UNCHANGED <<mainVars, scheduled, waiting, ws, running, server, hostVars, toClient,
                 pastVars>>

\* The end of the connection is noticed.
LoopClosed ==
  /\ LoopFree /\ ~host /\ ws = "open"
  /\ ws' = "closed" /\ toServer' = <<>>
  /\ UNCHANGED <<mainVars, scheduled, waiting, responses, running, server, hostVars,
                 toClient, pastVars>>

\* check_shutdown, every half second: close the connections, stop the loop.
LoopShutdown ==
  /\ LoopFree /\ ~running
  /\ server' = FALSE
  /\ ws' = IF ws = "open" THEN "closed" ELSE ws
  /\ toServer' = <<>>
  /\ UNCHANGED <<mainVars, scheduled, waiting, responses, running, hostVars, toClient,
                 pastVars>>

-----------------------------------------------------------------------------
(* TVPaint: its main thread, with the plugin, and the plugin's thread. *)

HostConnect ==
  /\ host /\ ws = "none" /\ server
  /\ ws' = "open"
  /\ UNCHANGED <<mainVars, scheduled, waiting, responses, running, server, hostVars,
                 wireVars, pastVars>>

\* PI_Msg, a button: call_method sends the request and polls for its reply.
PressButton ==
  /\ host /\ ws = "open" /\ panel = 0 /\ Len(clicks) < MaxClicks
  /\ polite => NothingUnderWay
  /\ \E r \in Routes : clicks' = Append(clicks, r)
  /\ panel' = Len(clicks')
  /\ toServer' = Append(toServer, Click(panel'))
  /\ UNCHANGED <<mainVars, loopVars, host, messages, answers, toClient, executed, polite>>

\* on_message, in the plugin's thread
HostReceive ==
  LET m == Head(toClient)
  IN  /\ host /\ toClient # <<>>
      /\ toClient' = Tail(toClient)
      /\ IF m.kind = "reply"
         THEN answers' = answers \cup {m.n} /\ UNCHANGED messages
         ELSE messages' = Append(messages, m.n) /\ UNCHANGED answers
      /\ UNCHANGED <<mainVars, loopVars, host, panel, toServer, pastVars>>

\* call_method finds its reply.
PanelReturn ==
  /\ panel \in answers
  /\ answers' = answers \ {panel}
  /\ panel' = 0
  /\ UNCHANGED <<mainVars, loopVars, host, messages, wireVars, pastVars>>

\* PI_Msg, a tick: process_requests runs one script, while connected.
Tick ==
  /\ host /\ panel = 0 /\ ws = "open" /\ messages # <<>>
  /\ messages' = Tail(messages)
  /\ toServer' = Append(toServer, Answer(Head(messages)))
  /\ UNCHANGED <<mainVars, loopVars, host, panel, answers, toClient, pastVars>>

\* TVPaint is closed, killed, or crashes.
HostEnd ==
  /\ host
  /\ host' = FALSE /\ panel' = 0 /\ messages' = <<>> /\ answers' = {}
  /\ toClient' = <<>>
  /\ UNCHANGED <<mainVars, loopVars, toServer, pastVars>>

-----------------------------------------------------------------------------
Poll == PollClosed \/ PollFound

MainStep == LaunchConnected \/ LaunchHostEnded \/ ListenHostEnded \/ TakeItem
            \/ UseTool \/ RunScript \/ Finish \/ Poll \/ PollTimeout \/ Interrupt \/ Quit

LoopStep == LoopSend \/ LoopClick \/ LoopResume \/ LoopAnswer \/ LoopClosed
            \/ LoopShutdown

HostStep == HostConnect \/ PressButton \/ HostReceive \/ PanelReturn \/ Tick \/ HostEnd

Next == MainStep \/ LoopStep \/ HostStep

Spec == Init /\ [][Next]_vars

(***************************************************************************)
(* Fairness.  The timer of the main thread, the polling loops, the event   *)
(* loop, the plugin's thread and TVPaint's ticks go on by themselves; a    *)
(* tool or callback that waits for nothing returns.  The event loop serves *)
(* what is ready in turn, so each kind of its work has its own condition.  *)
(* The user, a signal, a timeout and the end of TVPaint are never due.     *)
(***************************************************************************)
Fairness ==
  /\ WF_vars(LaunchConnected) /\ WF_vars(LaunchHostEnded)
  /\ WF_vars(ListenHostEnded) /\ WF_vars(TakeItem) /\ WF_vars(Finish)
  /\ WF_vars(Poll) /\ WF_vars(Quit)
  /\ WF_vars(LoopSend) /\ WF_vars(LoopClick \/ LoopAnswer) /\ WF_vars(LoopResume)
  /\ WF_vars(LoopClosed) /\ WF_vars(LoopShutdown)
  /\ WF_vars(HostReceive) /\ WF_vars(PanelReturn) /\ WF_vars(Tick)

FairSpec == Spec /\ Fairness

-----------------------------------------------------------------------------
(* Properties. *)

Requests == Nat \cup {None}

MainTypeOK ==
  /\ ctx \in {"launch", "textfile", "idle", "tool", "item", "quit"}
  /\ item \in Nat /\ (ctx = "item" => item \in DOMAIN clicks)
  /\ req \in {"none", "send", "poll"}
  /\ reqId \in Requests /\ result \in Requests /\ asked \in Nat
  /\ items \in Seq(DOMAIN clicks) /\ done \subseteq Nat

LoopTypeOK ==
  /\ scheduled \in Requests
  /\ waiting # 0 => waiting \in DOMAIN clicks /\ clicks[waiting] \in Waited
  /\ responses \in Seq(Nat)
  /\ ws \in {"none", "open", "closed"} /\ running \in BOOLEAN /\ server \in BOOLEAN

ServerMessage ==
  {m \in Message : m.kind \in {"answer", "click"} /\ (m.kind = "click" => m.n \in DOMAIN clicks)}

HostTypeOK ==
  /\ host \in BOOLEAN /\ panel \in {0} \cup DOMAIN clicks
  /\ messages \in Seq(Nat) /\ answers \subseteq Nat
  /\ toClient \in Seq(Message)
  /\ toServer \in Seq(ServerMessage)

PastTypeOK ==
  /\ clicks \in Seq(Routes) /\ executed \in Seq(Nat) /\ polite \in BOOLEAN

\* Every variable has its type, and the event loop is only ever blocked on a
\* route that waits (TVPaintRpc's panel routes, wait=False in two of them).
TypeOK == MainTypeOK /\ LoopTypeOK /\ HostTypeOK /\ PastTypeOK

\* The presses among a set of messages.
PressesOf(ms) == {m.n : m \in {x \in ms : x.kind = "click"}}

Fifo == INSTANCE LossyFifo WITH
  posted  <- Len(clicks),
  pending <- Range(items) \cup PressesOf(Range(toServer))

\* The tools open in the order the buttons were pressed, each at most once per
\* press, whether or not its route waits (execute_in_main_thread).
ClicksFifo == Fifo!Spec

\* Avalon's main thread waits for TVPaint while the event loop that carries
\* its request waits for the main thread.
CyclicWait == waiting # 0 /\ waiting \notin done /\ req # "none"

\* A user who does one thing at a time never runs into that cycle: the routes
\* that wait are not those whose tools talk to TVPaint.
PoliteNoCyclicWait == polite => ~CyclicWait

\* Nobody is left waiting, unless Avalon is being stopped: a button whose route
\* does not wait gives TVPaint back to its user however busy the main thread
\* is, every button does for the polite user, and the polite user's tools get
\* an answer or learn that TVPaint ended in the middle of a request.
WaitersServed ==
  /\ \A k \in 1..MaxClicks :
       (panel = k /\ (polite \/ clicks[k] \notin Waited)) ~> (panel # k \/ ~running)
  /\ (polite /\ req # "none") ~> (req = "none" \/ ~running)

\* Claim of MainThreadItem.wait: it stops the thread until the callback is
\* executed, so it ends, unless TVPaint ends or Avalon is stopped.
WaitEnds == waiting # 0 ~> (waiting = 0 \/ ~host \/ ~running)

\* Claim of WebsocketServerThread.stop: check_shutdown shuts the server down.
ServerStops == ~running ~> ~server
=============================================================================
