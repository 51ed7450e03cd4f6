------------------------------ MODULE HostPanel ------------------------------
(***************************************************************************)
(* Avalon beside Photoshop and After Effects: the main thread runs the     *)
(* tools, a thread runs the web server (tools/webserver/app.py), and the   *)
(* host's panel connects to it by websocket (wsrpc.js).  A button of the   *)
(* panel queues a tool for the main thread; a tool calls the host through  *)
(* the panel and waits.  The connection may be lost and made again.        *)
(***************************************************************************)
EXTENDS Integers, SequencesExt

CONSTANTS
  MaxConnections,  \* bound: connections of the panel
  MaxPresses,      \* bound: buttons pressed
  MaxCalls         \* bound: calls of the host

ASSUME PanelAssumption ==
  MaxConnections \in Nat /\ MaxPresses \in Nat /\ MaxCalls \in Nat

VARIABLES
  process,     \* the host's process: "alive" or "ended"
  thread,      \* the web server's thread: "new", "running" or "ended"
  isRunning,   \* its flag is_running
  clients,     \* connections the server knows, oldest first
  ids,         \* calls sent on each connection
  panel,       \* the panel's socket: its connection, whether it is open, connectionNumber
  up, down,    \* messages of the open connection to the server and to the panel
  callQueue,   \* presses waiting for a connection
  scripts,     \* scripts the host evaluates for calls
  queue, hasQueue,  \* what is in callback_queue, and whether it is not None
  handling,    \* the press the server's thread handles: where it is, and whether
               \* the queue it has fetched still is callback_queue
  main,        \* where the main thread is, and whether that is before it listens
  call,        \* its latest call: connection, id, number, and the number it was answered for
  presses, calls,  \* how many
  accepted,    \* history: presses handled to the end since the main thread listens
  shown        \* history: presses taken from the queue

hostVars == <<process, panel, callQueue, scripts, presses>>
serverVars == <<thread, isRunning, clients, ids>>
mainVars == <<main, call, calls>>
queueVars == <<queue, hasQueue, handling, accepted, shown>>
vars == <<hostVars, serverVars, up, down, mainVars, queueVars>>

NoCall == [conn |-> 0, id |-> 0, number |-> 0, got |-> 0]
NoPress == [at |-> "idle", press |-> 0, current |-> TRUE]
Handling(at, p) == [at |-> at, press |-> p, current |-> TRUE]

\* launch has started the host's process and the server's thread.
Init ==
  /\ process = "alive" /\ thread = "new" /\ isRunning = FALSE
  /\ clients = <<>> /\ ids = [c \in 1..MaxConnections |-> 0]
  /\ panel = [conn |-> 0, open |-> FALSE, number |-> 0]
  /\ up = <<>> /\ down = <<>> /\ callQueue = <<>> /\ scripts = {}
  /\ queue = <<>> /\ hasQueue = FALSE /\ handling = NoPress
  /\ main = [at |-> "poll", early |-> TRUE] /\ call = NoCall
  /\ presses = 0 /\ calls = 0 /\ accepted = <<>> /\ shown = <<>>

\* onclose of the panel's socket.
Disconnected == [conn |-> panel.conn, open |-> FALSE, number |-> panel.number + 1]

To(at) == main' = [main EXCEPT !.at = at]

-----------------------------------------------------------------------------
(* The server's thread.                                                    *)

ThreadRun ==
  /\ thread = "new"
  /\ \/ thread' = "running" /\ isRunning' = TRUE
     \/ thread' = "ended" /\ isRunning' = FALSE      \* the port is taken
  /\ UNCHANGED <<hostVars, clients, ids, up, down, mainVars, queueVars>>

\* check_shutdown closes the connections and ends the loop.
CheckShutdown ==
  /\ thread = "running" /\ ~isRunning /\ handling = NoPress
  /\ thread' = "ended" /\ clients' = <<>> /\ up' = <<>> /\ down' = <<>>
  /\ panel' = Disconnected
  /\ UNCHANGED <<process, callQueue, scripts, presses, isRunning, ids, mainVars, queueVars>>

\* (Mutant: every press makes a queue of its own.)
QueueForPress(p) == Handling("create", p)
\* execute_in_main_thread begins: is there a queue?
ExecuteInMainThread(p) == Handling(IF hasQueue THEN "fetch" ELSE "create", p)

\* A tool route, or an answer.  A route runs to its end before the thread does
\* anything else.
ServerReceive ==
  /\ handling = NoPress /\ up # <<>> /\ up' = Tail(up)
  /\ LET m == Head(up) IN
     IF m.what = "press"
     THEN /\ handling' = ExecuteInMainThread(m.number)
          /\ UNCHANGED <<queue, hasQueue, accepted, shown, mainVars>>
     ELSE /\ IF main.at = "call" /\ call.conn = panel.conn /\ call.id = m.id
             THEN call' = [call EXCEPT !.got = m.number] /\ To("returned")
             ELSE UNCHANGED <<call, main>>
          /\ UNCHANGED <<calls, queueVars>>
  /\ UNCHANGED <<hostVars, serverVars, down>>

\* There was no queue: one is made, though the main thread may have made its
\* own meanwhile.
CreateQueue ==
  /\ handling.at = "create"
  /\ queue' = <<>> /\ hasQueue' = TRUE /\ handling' = Handling("fetch", handling.press)
  /\ UNCHANGED <<hostVars, serverVars, up, down, mainVars, accepted, shown>>
FetchQueue ==
  /\ handling.at = "fetch" /\ handling' = Handling("put", handling.press)
  /\ UNCHANGED <<hostVars, serverVars, up, down, mainVars, queue, hasQueue, accepted, shown>>

\* (Mutant: the queue is a stack.)
PutFirst ==
  /\ handling.at = "put" /\ handling' = NoPress
  /\ queue' = IF handling.current THEN <<handling.press>> \o queue ELSE queue
  /\ accepted' = IF main.early THEN accepted ELSE Append(accepted, handling.press)
  /\ UNCHANGED <<hostVars, serverVars, up, down, mainVars, hasQueue, shown>>
\* The press is gone if the main thread has replaced the queue since.
PutPress ==
  /\ handling.at = "put" /\ handling' = NoPress
  /\ queue' = IF handling.current THEN Append(queue, handling.press) ELSE queue
  /\ accepted' = IF main.early THEN accepted ELSE Append(accepted, handling.press)
  /\ UNCHANGED <<hostVars, serverVars, up, down, mainVars, hasQueue, shown>>

\* A closed connection is found out later; the call on it raises.
ClientGone ==
  /\ handling = NoPress
  /\ \E i \in DOMAIN clients :
       /\ clients[i] # panel.conn \/ ~panel.open
       /\ clients' = SubSeq(clients, 1, i - 1) \o SubSeq(clients, i + 1, Len(clients))
       /\ IF main.at = "call" /\ call.conn = clients[i] THEN To("tool") ELSE main' = main
  /\ UNCHANGED <<hostVars, thread, isRunning, ids, up, down, call, calls, queueVars>>

-----------------------------------------------------------------------------
(* The host and its panel.                                                 *)

PressMessage(p) == [what |-> "press", id |-> 0, number |-> p]

\* onopen: what was called meanwhile is sent.
Connect ==
  /\ process = "alive" /\ thread = "running" /\ handling = NoPress
  /\ ~panel.open /\ panel.conn < MaxConnections
  /\ panel' = [conn |-> panel.conn + 1, open |-> TRUE, number |-> panel.number]
  /\ clients' = Append(clients, panel.conn + 1)
  /\ up' = [i \in DOMAIN callQueue |-> PressMessage(callQueue[i])] /\ callQueue' = <<>>
  /\ UNCHANGED <<process, scripts, presses, thread, isRunning, ids, down, mainVars, queueVars>>

\* onclose: pending calls are rejected, answers of earlier calls are void.
Lose ==
  /\ panel.open
  /\ panel' = Disconnected
  /\ up' = <<>> /\ down' = <<>> /\ callQueue' = <<>>
  /\ UNCHANGED <<process, scripts, presses, serverVars, mainVars, queueVars>>

\* A button: makeCall.  Without a connection the press waits for the next
\* attempt, which sends or rejects it.
Press ==
  /\ process = "alive" /\ presses < MaxPresses /\ presses' = presses + 1
  /\ IF panel.open THEN up' = Append(up, PressMessage(presses + 1)) /\ callQueue' = callQueue
     ELSE callQueue' = Append(callQueue, presses + 1) /\ up' = up
  /\ UNCHANGED <<process, panel, scripts, serverVars, down, mainVars, queueVars>>
RejectQueue ==
  /\ ~panel.open /\ callQueue # <<>> /\ callQueue' = <<>>
  /\ UNCHANGED <<process, panel, scripts, presses, serverVars, up, down, mainVars, queueVars>>

\* Every route of the panel evaluates one script of the host.
Route(m) == [m EXCEPT !.open = panel.number]

\* handleCall remembers the connection for the answer.
HandleCall ==
  /\ down # <<>> /\ down' = Tail(down)
  /\ scripts' = scripts \cup {Route(Head(down))}
  /\ UNCHANGED <<process, panel, callQueue, presses, serverVars, up, mainVars, queueVars>>

\* A route returns what its script returned.
Result(s) == [what |-> "answer", id |-> s.id, number |-> s.number]

\* (Mutant: the answer is sent on whatever connection there is.)
AnswerAnywhere(s) == panel.open
\* The answer belongs to the connection that brought the call.
Answers(s) == panel.open /\ s.open = panel.number
ScriptEnds ==
  /\ \E s \in scripts :
       /\ scripts' = scripts \ {s}
       /\ up' = IF Answers(s)
                THEN Append(up, Result(s)) ELSE up
  /\ UNCHANGED <<process, panel, callQueue, presses, serverVars, down, mainVars, queueVars>>

ProcessEnds ==
  /\ process = "alive" /\ process' = "ended"
  /\ panel' = Disconnected
  /\ scripts' = {} /\ callQueue' = <<>> /\ up' = <<>> /\ down' = <<>>
  /\ UNCHANGED <<presses, serverVars, mainVars, queueVars>>

-----------------------------------------------------------------------------
(* The main thread.                                                        *)

mainKeeps == <<hostVars, thread, clients, ids, up, down>>

\* WebServerTool.stop: nothing is done before the thread has set its flag.
Stop == isRunning' = FALSE

\* launch waits for the panel.  "hasty": it left before the thread ran, which
\* then sets its flag again.
PollLaunch ==
  /\ main.at = "poll"
  /\ IF process = "ended" THEN Stop /\ To(IF thread = "new" THEN "hasty" ELSE "exit")
     ELSE isRunning' = isRunning /\ To(IF clients = <<>> THEN "poll" ELSE "tool")
  /\ UNCHANGED <<mainKeeps, call, calls, queueVars>>

\* The Work Files tool at launch is closed; the queue is made anew.
BeginListening ==
  /\ main.at = "tool" /\ main.early
  /\ IF clients = <<>> THEN To("wait") /\ UNCHANGED <<queue, hasQueue, handling>>
     ELSE /\ main' = [at |-> "listen", early |-> FALSE]
          /\ queue' = <<>> /\ hasQueue' = TRUE
          /\ handling' = [handling EXCEPT !.current = handling.at # "put"]
  /\ UNCHANGED <<mainKeeps, isRunning, call, calls, accepted, shown>>

\* (Mutant: the process is only polled when there is nothing to do.)
ListenFirst ==
  /\ main.at = "listen"
  /\ IF queue # <<>> THEN /\ To("tool") /\ queue' = Tail(queue) /\ shown' = Append(shown, Head(queue))
                          /\ isRunning' = isRunning
     ELSE UNCHANGED <<main, queue, shown, isRunning>>
  /\ UNCHANGED <<mainKeeps, call, calls, hasQueue, handling, accepted>>
\* main_thread_listen.
Listen ==
  /\ main.at = "listen"
  /\ IF process = "ended" THEN Stop /\ To("exit") /\ UNCHANGED <<queue, shown>>
     ELSE /\ queue # <<>> /\ queue' = Tail(queue) /\ shown' = Append(shown, Head(queue))
          /\ isRunning' = isRunning /\ To("tool")
  /\ UNCHANGED <<mainKeeps, call, calls, hasQueue, handling, accepted>>

\* stub and WebServerTool.call: the call goes to the oldest connection, sent by
\* the server's thread.
SendCall ==
  /\ main.at = "tool" /\ calls < MaxCalls /\ clients # <<>> /\ handling = NoPress
  /\ calls' = calls + 1 /\ To("call")
  /\ LET c == Head(clients) IN
     /\ ids' = [ids EXCEPT ![c] = @ + 1]
     /\ call' = [conn |-> c, id |-> ids[c] + 1, number |-> calls + 1, got |-> 0]
     /\ down' = IF panel.open /\ c = panel.conn
                THEN Append(down, [id |-> ids[c] + 1, number |-> calls + 1, open |-> 0]) ELSE down
  /\ UNCHANGED <<hostVars, thread, isRunning, clients, up, queueVars>>
CallReturns ==
  /\ main.at = "returned" /\ To("tool")
  /\ UNCHANGED <<mainKeeps, isRunning, call, calls, queueVars>>

\* The window is closed.
CloseTool ==
  /\ main.at = "tool" /\ ~main.early /\ To("listen")
  /\ UNCHANGED <<mainKeeps, isRunning, call, calls, queueVars>>

\* A tool that raises while it is shown ends launch: later it waits for the
\* host, unless it was the one shown before listening.
ToolRaises ==
  /\ main.at = "tool" /\ To(IF main.early THEN "crashed" ELSE "wait")
  /\ UNCHANGED <<mainKeeps, isRunning, call, calls, queueVars>>

\* process.wait, then the server is stopped.
Waited ==
  /\ main.at = "wait" /\ process = "ended" /\ Stop /\ To("exit")
  /\ UNCHANGED <<mainKeeps, call, calls, queueVars>>

HandlePress == CreateQueue \/ FetchQueue \/ PutPress
Server == ThreadRun \/ CheckShutdown \/ ServerReceive \/ HandlePress \/ ClientGone
Host == Connect \/ Lose \/ Press \/ RejectQueue \/ HandleCall \/ ScriptEnds \/ ProcessEnds
Main == PollLaunch \/ BeginListening \/ Listen \/ SendCall \/ CallReturns \/ CloseTool
        \/ ToolRaises \/ Waited
Next == Server \/ Host \/ Main

\* Threads are scheduled, a script ends, and a tool's window is closed at last.
Fairness ==
  /\ WF_vars(ThreadRun) /\ WF_vars(CheckShutdown) /\ WF_vars(ServerReceive) /\ WF_vars(ClientGone)
  /\ WF_vars(HandlePress) /\ WF_vars(HandleCall) /\ WF_vars(ScriptEnds)
  /\ WF_vars(PollLaunch) /\ WF_vars(Listen) /\ WF_vars(CallReturns) /\ WF_vars(Waited)
  /\ WF_vars(BeginListening) /\ WF_vars(CloseTool)
Spec == Init /\ [][Next]_vars /\ Fairness

-----------------------------------------------------------------------------
(* Properties.                                                             *)

UpType == [what : {"press", "answer"}, id : Nat, number : Nat]
CallType == [id : Nat, number : Nat, open : Nat]

PanelTypeOK ==
  /\ process \in {"alive", "ended"}
  /\ panel \in [conn : 0..MaxConnections, open : BOOLEAN, number : Nat]
  /\ up \in Seq(UpType) /\ down \in Seq(CallType)
  /\ callQueue \in Seq(Nat) /\ scripts \in SUBSET CallType /\ presses \in Nat

AvalonTypeOK ==
  /\ thread \in {"new", "running", "ended"} /\ isRunning \in BOOLEAN
  /\ clients \in Seq(1..MaxConnections) /\ ids \in [1..MaxConnections -> Nat]
  /\ main \in [at : {"poll", "tool", "listen", "call", "returned", "wait", "exit", "crashed", "hasty"},
               early : BOOLEAN]
  /\ call \in [conn : 0..MaxConnections, id : Nat, number : Nat, got : Nat] /\ calls \in Nat
  /\ hasQueue \in BOOLEAN
  /\ handling \in [at : {"idle", "create", "fetch", "put"}, press : Nat, current : BOOLEAN]
  /\ queue \in Seq(Nat) /\ accepted \in Seq(Nat) /\ shown \in Seq(Nat)

\* Every variable has its type: ids and numbers stay numbers when connections
\* come and go, and a call only goes to a connection there has been.
TypeOK == PanelTypeOK /\ AvalonTypeOK

\* Once the main thread listens, what the server's thread has handled to the end
\* is shown in order and nothing of it is lost, neither by the queue that both
\* threads may make nor while a tool is open, calls the host or loses its
\* connection: except, at most, the one press it had in hand when the main
\* thread replaced the queue (execute_in_main_thread, launch).
PressesKept ==
  ~main.early => \/ shown \o queue = accepted
                 \/ accepted # <<>> /\ shown \o queue = Tail(accepted)

\* The answer a tool gets is that of its own call, also when the panel connects
\* again and the ids of its calls start anew.
AnswerOwn == main.at = "returned" => call.got = call.number

InHand == IF handling = NoPress THEN {} ELSE {handling.press}
PressesOf(messages) == {m.number : m \in {x \in messages : x.what = "press"}}
Panel == INSTANCE LossyFifo WITH
  posted   <- presses,
  pending  <- Range(queue) \cup InHand \cup PressesOf(Range(up)) \cup Range(callQueue),
  executed <- shown

\* A press is shown at most once and in the order of the buttons pressed, also
\* when it waited in the panel for the next connection, or was on its way or in
\* the queue when a connection was lost or the queue was made anew.
PressesFifo == Panel!Spec

\* When the host has ended, Avalon's process ends too: its main thread leaves
\* and the server's thread stops.  Not so if the main thread stopped the server
\* before that thread ran, or a tool raised before the main thread listened.
PythonEnds ==
  process = "ended" ~> (main.at = "exit" /\ thread = "ended") \/ main.at \in {"crashed", "hasty"}
=============================================================================
