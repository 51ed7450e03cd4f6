------------------------------ MODULE HarmonyRpc ------------------------------
(***************************************************************************)
(* The connection between Avalon and Toon Boom Harmony: the Python socket  *)
(* server with its receive thread and the main thread (harmony/server.py,  *)
(* harmony/lib.py) and the JavaScript client inside Harmony                *)
(* (harmony/TB_sceneOpened.js).                                            *)
(*                                                                         *)
(* Two threads share the server object without a lock: the main thread     *)
(* runs the queued callbacks and, inside them, Server.send; the receive    *)
(* thread runs Server.receive.  Every access of one thread to message_id,  *)
(* queue or received that the other can interleave with is a step.         *)
(***************************************************************************)
EXTENDS Integers, Sequences, FiniteSets, SequencesExt

CONSTANTS
  MaxCalls,    \* bound: calls of Server.send by the main thread
  MaxMenu,     \* bound: requests the client makes
  MaxLaunches, \* bound: Harmony processes launched
  MaxTries,    \* the literal 30 of "if try_index > 30"
  CallLens,    \* lengths of the main thread's encoded requests
  EchoLen,     \* length of the echo of a client request
  HeaderLen    \* the 6 bytes "AH" + length in front of every message

ASSUME BoundsAssumption ==
  /\ MaxCalls \in Nat /\ MaxMenu \in Nat /\ MaxLaunches \in Nat /\ MaxTries \in Nat

ASSUME LengthAssumption ==
  CallLens \subseteq Nat /\ CallLens # {} /\ EchoLen \in Nat /\ HeaderLen \in Nat

VARIABLES
  \* the server object, shared by both threads
  connected,   \* Server.connection is not None
  messageId,   \* Server.message_id
  queue,       \* Server.queue, as a set of key/message pairs
  received,    \* Server.received: one message, or None for ""
  callbacks,   \* lib.callback_queue: menu requests by number
  \* the main thread
  mpc, call, result, tries, mreg,
  \* the receive thread
  rpc, rmsg, rreg,
  \* the client and the two directions of the socket
  clientUp, toClient, inbuf, draining, toServer,
  \* what happened so far
  calls, menus, launches, executed, answered, gaveUp,
  peeked,      \* the first call that took its reply from Server.received, or 0
  quiet        \* the user's choice of Init: see ClientMenu

serverVars == <<connected, messageId, queue, received>>
mainVars   == <<mpc, call, result, tries, mreg>>
recvVars   == <<rpc, rmsg, rreg>>
clientVars == <<clientUp, toClient, inbuf, draining, toServer>>
pastVars   == <<calls, menus, launches, executed, answered, gaveUp, peeked, quiet>>
vars == <<serverVars, callbacks, mainVars, recvVars, clientVars, pastVars>>

-----------------------------------------------------------------------------
(***************************************************************************)
(* Messages.  "ref" is not on the wire: it tells which call or which menu  *)
(* request a message belongs to.  The client numbers every request 1.      *)
(***************************************************************************)
None == [kind |-> "none", ref |-> 0, id |-> 0, len |-> 0]

Call(c, i, l) == [kind |-> "call", ref |-> c, id |-> i, len |-> l]
Reply(m)      == [m EXCEPT !.kind = "reply"]
Menu(k)       == [kind |-> "menu", ref |-> k, id |-> 1, len |-> 0]
Echo(m)       == [m EXCEPT !.kind = "echo", !.len = EchoLen]

Message == [kind : {"call", "reply", "menu", "echo"}, ref : Nat, id : Nat, len : Nat]

InQueue(i)   == \E e \in queue : e.key = i
Without(i)   == {e \in queue : e.key # i}
Stored(i, m) == Without(i) \cup {[key |-> i, msg |-> m]}

\* lib.callback_queue is None until launch() reaches its loop.
Ready == mpc # "launch"

Init ==
  /\ connected = FALSE /\ messageId = 1 /\ queue = {} /\ received = None
  /\ callbacks = <<>>
  /\ mpc = "launch" /\ call = None /\ result = None /\ tries = 0 /\ mreg = 0
  /\ rpc = "accept" /\ rmsg = None /\ rreg = 0
  /\ clientUp = FALSE /\ toClient = <<>> /\ inbuf = <<>> /\ draining = FALSE
  /\ toServer = <<>>
  /\ calls = 0 /\ menus = 0 /\ launches = 1 /\ executed = <<>> /\ answered = <<>>
  /\ gaveUp = FALSE /\ peeked = 0
  /\ quiet \in BOOLEAN

-----------------------------------------------------------------------------
(* The client: Harmony's single script thread. *)

ClientRequest ==
  /\ menus < MaxMenu
  /\ menus' = menus + 1
  /\ toServer' = Append(toServer, Menu(menus'))

\* Harmony connects; the server accepts; onConnected announces the launch.
ClientConnect ==
  /\ rpc = "accept"
  /\ ClientRequest
  /\ connected' = TRUE
  /\ clientUp' = TRUE
  /\ rpc' = "recv"
  /\ UNCHANGED <<messageId, queue, received, callbacks, mainVars, rmsg, rreg,
                 toClient, inbuf, draining, calls, launches, executed, answered,
                 gaveUp, peeked, quiet>>

\* The user picks a menu entry.  A user who works quietly waits until Avalon
\* is done with what they asked for before.
NothingUnderWay ==
  mpc = "idle" /\ callbacks = <<>> /\ rpc = "recv" /\ toServer = <<>>

ClientMenu ==
  /\ clientUp /\ ~draining
  /\ quiet => NothingUnderWay
  /\ ClientRequest
  /\ UNCHANGED <<serverVars, callbacks, mainVars, recvVars, clientUp, toClient,
                 inbuf, draining, calls, launches, executed, answered, gaveUp, peeked, quiet>>

\* onReadyRead: n more messages have arrived in the client's buffer.
ClientReadyRead ==
  /\ clientUp /\ ~draining
  /\ \E n \in 1..Len(toClient) :
       /\ inbuf' = inbuf \o SubSeq(toClient, 1, n)
       /\ toClient' = SubSeq(toClient, n + 1, Len(toClient))
  /\ draining' = TRUE
  /\ UNCHANGED <<serverVars, callbacks, mainVars, recvVars, clientUp, toServer, pastVars>>

BufferSize(b) == FoldLeft(LAMBDA n, m : n + m.len + HeaderLen, 0, b)

\* processBuffer: handle the first message, answer it unless it is itself a
\* reply, and go on only if more bytes are left than that message had.
ClientProcessBuffer ==
  LET m    == Head(inbuf)
      rest == Tail(inbuf)
  IN  /\ clientUp /\ draining /\ inbuf # <<>>
      /\ inbuf' = rest
      /\ draining' = (m.len < BufferSize(rest))
      /\ IF m.kind = "echo"
         THEN UNCHANGED <<toServer, answered>>
         ELSE /\ toServer' = Append(toServer, Reply(m))
              /\ answered' = Append(answered, m.ref)
      /\ UNCHANGED <<serverVars, callbacks, mainVars, recvVars, clientUp, toClient,
                     calls, menus, launches, executed, gaveUp, peeked, quiet>>

\* The user closes Harmony, or it crashes.
ClientQuit ==
  /\ clientUp
  /\ clientUp' = FALSE
  /\ toClient' = <<>> /\ inbuf' = <<>> /\ draining' = FALSE
  /\ UNCHANGED <<serverVars, callbacks, mainVars, recvVars, toServer, pastVars>>

-----------------------------------------------------------------------------
(* The receive thread: Server.receive. *)

Receive ==
  /\ rpc = "recv" /\ toServer # <<>>
  /\ received' = Head(toServer)
  /\ toServer' = Tail(toServer)
  /\ rpc' = "parse"
  /\ UNCHANGED <<connected, messageId, queue, callbacks, mainVars, rmsg, rreg,
                 clientUp, toClient, inbuf, draining, pastVars>>

\* recv returned no data: the connection is closing.
ReceiveClosed ==
  /\ rpc = "recv" /\ toServer = <<>> /\ ~clientUp
  /\ rpc' = "dead"
  /\ UNCHANGED <<serverVars, callbacks, mainVars, rmsg, rreg, clientVars, pastVars>>

\* Mutant: the message parsed is not cleared.
ParseKeepingReceived ==
  /\ rpc = "parse"
  /\ rmsg' = received
  /\ rpc' = IF received = None THEN "recv" ELSE "store"
  /\ UNCHANGED <<serverVars, callbacks, mainVars, rreg, clientVars, pastVars>>

\* json.loads(self.received): the main thread may have emptied it meanwhile,
\* and the message is then dropped as invalid.
Parse ==
  /\ rpc = "parse"
  /\ rmsg' = received
  /\ received' = None
  /\ rpc' = IF received = None THEN "recv" ELSE "store"
  /\ UNCHANGED <<connected, messageId, queue, callbacks, mainVars, rreg, clientVars,
                 pastVars>>

\* Mutant: message_id becomes the id just seen, not the next one.
StoreSeenId ==
  /\ rpc = "store"
  /\ messageId' = rmsg.id
  /\ queue' = Stored(rmsg.id, rmsg)
  /\ IF rmsg.kind = "reply"
     THEN rpc' = "recv" /\ rmsg' = None
     ELSE rpc' = "echo" /\ UNCHANGED rmsg
  /\ UNCHANGED <<connected, received, callbacks, mainVars, rreg, clientVars, pastVars>>

Store ==
  /\ rpc = "store"
  /\ messageId' = rmsg.id + 1
  /\ queue' = Stored(rmsg.id, rmsg)
  /\ IF rmsg.kind = "reply"
     THEN rpc' = "recv" /\ rmsg' = None
     ELSE rpc' = "echo" /\ UNCHANGED rmsg
  /\ UNCHANGED <<connected, received, callbacks, mainVars, rreg, clientVars, pastVars>>

\* Mutant: without "reply" set first, send waits for an answer to the echo,
\* in the one thread that could receive it.
EchoAwaitingReply ==
  /\ rpc = "echo" /\ clientUp
  /\ toClient' = Append(toClient, Echo(rmsg))
  /\ rpc' = "awaiting reply"
  /\ UNCHANGED <<serverVars, callbacks, mainVars, rmsg, rreg, clientUp, inbuf,
                 draining, toServer, pastVars>>

\* The request goes back to the client marked as a reply.
EchoSend ==
  /\ rpc = "echo"
  /\ \/ /\ clientUp
        /\ toClient' = Append(toClient, Echo(rmsg))
        /\ rpc' = "echoLoad"
     \/ /\ ~clientUp
        /\ rpc' \in {"echoLoad", "dead"}
        /\ UNCHANGED toClient
  /\ UNCHANGED <<serverVars, callbacks, mainVars, rmsg, rreg, clientUp, inbuf,
                 draining, toServer, pastVars>>

\* self.message_id += 1 reads and writes in two steps, in either thread.
EchoLoad ==
  /\ rpc = "echoLoad"
  /\ rreg' = messageId
  /\ rpc' = "echoBump"
  /\ UNCHANGED <<serverVars, callbacks, mainVars, rmsg, clientVars, pastVars>>

EchoBump ==
  /\ rpc = "echoBump"
  /\ messageId' = rreg + 1
  /\ rreg' = 0
  /\ rpc' = "process"
  /\ UNCHANGED <<connected, queue, received, callbacks, mainVars, rmsg, clientVars,
                 pastVars>>

\* process_request: without a callback queue the request is logged and dropped.
ProcessRequest ==
  /\ rpc = "process"
  /\ callbacks' = IF Ready THEN Append(callbacks, rmsg.ref) ELSE callbacks
  /\ rpc' = "forget"
  /\ UNCHANGED <<serverVars, mainVars, rmsg, rreg, clientVars, pastVars>>

\* del self.queue[message_id] raises KeyError, not the IndexError that is
\* caught, when the entry is gone; that ends the thread.
Forget ==
  /\ rpc = "forget"
  /\ queue' = Without(rmsg.id)
  /\ rpc' = IF InQueue(rmsg.id) THEN "recv" ELSE "dead"
  /\ rmsg' = None
  /\ UNCHANGED <<connected, messageId, received, callbacks, mainVars, rreg,
                 clientVars, pastVars>>

-----------------------------------------------------------------------------
(* The main thread: lib.launch, lib.main_thread_listen and Server.send. *)

LaunchDone ==
  /\ mpc = "launch"
  /\ mpc' = "idle"
  /\ UNCHANGED <<serverVars, callbacks, call, result, tries, mreg, recvVars,
                 clientVars, pastVars>>

\* Mutant: the newest callback first (queue.LifoQueue).
TakeNewestCallback ==
  /\ mpc = "idle" /\ callbacks # <<>>
  /\ callbacks' = Front(callbacks)
  /\ executed' = Append(executed, Last(callbacks))
  /\ mpc' = "callback"
  /\ UNCHANGED <<serverVars, call, result, tries, mreg, recvVars, clientVars,
                 calls, menus, launches, answered, gaveUp, peeked, quiet>>

TakeCallback ==
  /\ mpc = "idle" /\ callbacks # <<>>
  /\ callbacks' = Tail(callbacks)
  /\ executed' = Append(executed, Head(callbacks))
  /\ mpc' = "callback"
  /\ UNCHANGED <<serverVars, call, result, tries, mreg, recvVars, clientVars,
                 calls, menus, launches, answered, gaveUp, peeked, quiet>>

FinishCallback ==
  /\ mpc = "callback"
  /\ mpc' = "idle"
  /\ call' = None /\ result' = None
  /\ UNCHANGED <<serverVars, callbacks, tries, mreg, recvVars, clientVars, pastVars>>

\* request["message_id"] = self.message_id
BeginCall ==
  /\ mpc = "callback" /\ calls < MaxCalls
  /\ calls' = calls + 1
  /\ \E l \in CallLens : call' = Call(calls', messageId, l)
  /\ result' = None
  /\ mpc' = "send"
  /\ UNCHANGED <<serverVars, callbacks, tries, mreg, recvVars, clientVars,
                 menus, launches, executed, answered, gaveUp, peeked, quiet>>

\* _send waits for a connection.  On a broken one sendall loses the message
\* or raises out of the call.
SendAll ==
  /\ mpc = "send" /\ connected
  /\ \/ /\ clientUp
        /\ toClient' = Append(toClient, call)
        /\ mpc' = "load"
        /\ UNCHANGED call
     \/ /\ ~clientUp
        /\ UNCHANGED toClient
        /\ \/ mpc' = "load" /\ UNCHANGED call
           \/ mpc' = "callback" /\ call' = None
  /\ UNCHANGED <<serverVars, callbacks, result, tries, mreg, recvVars, clientUp,
                 inbuf, draining, toServer, pastVars>>

SendLoad ==
  /\ mpc = "load"
  /\ mreg' = messageId
  /\ mpc' = "bump"
  /\ UNCHANGED <<serverVars, callbacks, call, result, tries, recvVars, clientVars,
                 pastVars>>

SendBump ==
  /\ mpc = "bump"
  /\ messageId' = mreg + 1
  /\ mreg' = 0
  /\ tries' = 1
  /\ mpc' = "poll"
  /\ UNCHANGED <<connected, queue, received, callbacks, call, result, recvVars,
                 clientVars, pastVars>>

\* Mutant: "Retrying" sends the request again.
PollTimeoutResending ==
  /\ mpc = "poll"
  /\ tries' = tries + 1
  /\ IF tries' > MaxTries
     THEN mpc' = "clear" /\ gaveUp' = TRUE /\ UNCHANGED toClient
     ELSE toClient' = Append(toClient, call) /\ UNCHANGED <<mpc, gaveUp>>
  /\ UNCHANGED <<serverVars, callbacks, call, result, mreg, recvVars, clientUp, inbuf,
                 draining, toServer, calls, menus, launches, executed, answered, peeked, quiet>>

\* 30 seconds without a reply; after MaxTries of them send gives up.
PollTimeout ==
  /\ mpc = "poll"
  /\ tries' = tries + 1
  /\ IF tries' > MaxTries
     THEN mpc' = "clear" /\ gaveUp' = TRUE
     ELSE UNCHANGED <<mpc, gaveUp>>
  /\ UNCHANGED <<serverVars, callbacks, call, result, mreg, recvVars, clientVars,
                 calls, menus, launches, executed, answered, peeked, quiet>>

\* result = self.queue[request["message_id"]]
PollQueue ==
  /\ mpc = "poll"
  /\ \/ \E e \in queue : e.key = call.id /\ result' = e.msg /\ mpc' = "take"
     \/ ~InQueue(call.id) /\ mpc' = "peek" /\ UNCHANGED result
  /\ UNCHANGED <<serverVars, callbacks, call, tries, mreg, recvVars, clientVars,
                 pastVars>>

\* del self.queue[request["message_id"]]; a KeyError sends it back polling
PollTake ==
  /\ mpc = "take"
  /\ queue' = Without(call.id)
  /\ mpc' = IF InQueue(call.id) THEN "clear" ELSE "peek"
  /\ UNCHANGED <<connected, messageId, received, callbacks, call, result, tries,
                 mreg, recvVars, clientVars, pastVars>>

\* result = json.loads(self.received): whatever the receive thread holds
PollPeek ==
  /\ mpc = "peek"
  /\ IF received = None
     THEN mpc' = "poll" /\ UNCHANGED <<result, peeked>>
     ELSE /\ mpc' = "clear" /\ result' = received
          /\ peeked' = IF peeked = 0 THEN call.ref ELSE peeked
  /\ UNCHANGED <<serverVars, callbacks, call, tries, mreg, recvVars, clientVars,
                 calls, menus, launches, executed, answered, gaveUp, quiet>>

\* self.received = "" and return
SendReturn ==
  /\ mpc = "clear"
  /\ received' = None
  /\ tries' = 0
  /\ mpc' = "callback"
  /\ UNCHANGED <<connected, messageId, queue, callbacks, call, result, mreg,
                 recvVars, clientVars, pastVars>>

\* launch_zip_file from a callback (the Workfiles tool opens a scene): Harmony
\* is killed, the server stopped and a new one started.  A request the old
\* receive thread has already echoed still reaches the callback queue.
Relaunch ==
  /\ mpc = "callback" /\ connected /\ launches < MaxLaunches
  /\ launches' = launches + 1
  /\ callbacks' = IF rpc \in {"echoLoad", "echoBump", "process"}
                  THEN Append(callbacks, rmsg.ref) ELSE callbacks
  /\ connected' = FALSE /\ messageId' = 1 /\ queue' = {} /\ received' = None
  /\ rpc' = "accept" /\ rmsg' = None /\ rreg' = 0
  /\ clientUp' = FALSE /\ toClient' = <<>> /\ inbuf' = <<>> /\ draining' = FALSE
  /\ toServer' = <<>>
  /\ call' = None /\ result' = None
  /\ UNCHANGED <<mpc, tries, mreg, calls, menus, executed, answered, gaveUp, peeked, quiet>>

-----------------------------------------------------------------------------
ClientNext == ClientConnect \/ ClientMenu \/ ClientReadyRead \/ ClientProcessBuffer
              \/ ClientQuit

ReceiveStep == Receive \/ ReceiveClosed \/ Parse \/ Store \/ EchoSend \/ EchoLoad
               \/ EchoBump \/ ProcessRequest \/ Forget

PollStep == PollQueue \/ PollTake \/ PollPeek

SendStep == SendAll \/ SendLoad \/ SendBump \/ PollTimeout \/ PollStep \/ SendReturn

MainStep == LaunchDone \/ TakeCallback \/ FinishCallback \/ BeginCall \/ SendStep
            \/ Relaunch

Next == ClientNext \/ ReceiveStep \/ MainStep

Spec == Init /\ [][Next]_vars

(***************************************************************************)
(* Fairness.  Both threads keep running, and so does Harmony's event loop  *)
(* while the process lives.  30 s periods keep elapsing while send polls:  *)
(* the loop meets the timeout test again and again, hence SF.  Nothing     *)
(* makes the user act, makes a callback finish or makes Harmony connect.   *)
(***************************************************************************)
Fairness ==
  /\ WF_vars(ReceiveStep)
  /\ WF_vars(ClientReadyRead \/ ClientProcessBuffer)
  /\ WF_vars(LaunchDone) /\ WF_vars(TakeCallback)
  /\ WF_vars(SendAll \/ SendLoad \/ SendBump \/ PollStep \/ SendReturn)
  /\ SF_vars(PollTimeout)

FairSpec == Spec /\ Fairness

-----------------------------------------------------------------------------
(* Properties. *)

\* Where the receive thread holds a message and the main thread a call.
Handling == {"store", "echo", "echoLoad", "echoBump", "process", "forget"}
Calling  == {"send", "load", "bump", "poll", "take", "peek", "clear"}

ServerTypeOK ==
  /\ connected \in BOOLEAN
  /\ messageId \in Nat
  /\ queue \subseteq [key : Nat, msg : Message]
  /\ received \in Message \cup {None}
  /\ callbacks \in Seq(Nat)

MainTypeOK ==
  /\ mpc \in {"launch", "idle", "callback"} \cup Calling
  /\ call \in Message \cup {None}
  /\ mpc \in Calling => call # None
  /\ result \in Message \cup {None}
  /\ tries \in Nat /\ mreg \in Nat

RecvTypeOK ==
  /\ rpc \in {"accept", "recv", "parse", "dead"} \cup Handling
  /\ rmsg \in Message \cup {None}
  /\ rpc \in Handling => rmsg # None
  /\ rreg \in Nat

ClientTypeOK ==
  /\ clientUp \in BOOLEAN /\ draining \in BOOLEAN
  /\ toClient \in Seq(Message) /\ inbuf \in Seq(Message) /\ toServer \in Seq(Message)

PastTypeOK ==
  /\ calls \in Nat /\ menus \in Nat /\ launches \in Nat
  /\ executed \in Seq(Nat) /\ answered \in Seq(Nat)
  /\ gaveUp \in BOOLEAN /\ peeked \in Nat /\ quiet \in BOOLEAN

\* Every variable has its type: a call is held wherever send works on one, a
\* message wherever receive works on one.
TypeOK == ServerTypeOK /\ MainTypeOK /\ RecvTypeOK /\ ClientTypeOK /\ PastTypeOK

\* The message the receive thread holds and has not yet passed on.
Held ==
  CASE rpc = "parse" -> {received}
    [] rpc \in {"store", "echo", "echoLoad", "echoBump", "process"} -> {rmsg}
    [] OTHER -> {}

\* The menu requests among a set of messages.
RefsOf(ms) == {m.ref : m \in {x \in ms : x.kind = "menu"}}

Fifo == INSTANCE LossyFifo WITH
  posted  <- menus,
  pending <- Range(callbacks) \cup RefsOf(Held) \cup RefsOf(Range(toServer))

\* Requests made in Harmony's menu reach the main thread at most once and in
\* the order they were made, whatever the two threads and relaunches do
\* (server.py receive and process_request, lib.py main_thread_listen).
MenuRequestsFifo == Fifo!Spec

\* A reply is never taken for a request: at any time a call exists in one copy
\* only, between the send that issues it and the queue entry its reply
\* becomes, and the client never answers an echo (no endless echoing).
Copies ==
  LET held == IF rmsg = None THEN <<>> ELSE <<rmsg>>
      read == IF received = None THEN <<>> ELSE <<received>>
  IN  toClient \o inbuf \o toServer \o held \o read

OneCopyPerCall ==
  /\ \A i, j \in DOMAIN Copies :
       Copies[i].kind \in {"call", "reply"} /\ Copies[j].kind \in {"call", "reply"}
         /\ Copies[i].ref = Copies[j].ref => i = j
  /\ \A e \in queue : \A i \in DOMAIN Copies :
       e.msg.kind = "reply" /\ Copies[i].ref = e.msg.ref
         => Copies[i].kind \in {"menu", "echo"}

\* What the protocol needs to be left alone with: no menu request while a
\* call is under way, no call that gave up, one Harmony process.
Orderly == quiet /\ ~gaveUp /\ launches = 1

\* In an orderly session what send returns is a reply, and the reply to that
\* very call as long as no earlier call took its reply from the receive
\* thread's hands: that reply is then stored as well, storing it sets
\* message_id back, and a later call finds an entry that answers another one
\* (server.py send and receive).
OrderlyReply ==
  Orderly /\ call # None /\ result # None =>
    /\ result.kind = "reply"
    /\ peeked \in {0, call.ref} => result.ref = call.ref

\* The receive thread does not die under a living client of the first launch:
\* no call can have taken the entry Forget is about to delete.
ReceiverSurvivesFirstLaunch == launches = 1 /\ clientUp => rpc # "dead"

\* A menu request made in an orderly session, with the main loop running, is
\* executed unless Harmony quits or the session stops being orderly.
MenuServed ==
  \A k \in 1..MaxMenu :
    (Ready /\ \E i \in DOMAIN toServer : toServer[i].kind = "menu" /\ toServer[i].ref = k)
      ~> (\/ \E i \in DOMAIN executed : executed[i] = k
          \/ ~Orderly \/ ~clientUp \/ mpc = "callback")

\* Claim of send's docstring, "Waits for a reply from Harmony".
SendReturnsReply == call # None /\ result # None => result.kind = "reply"

\* Claim of the handler in receive that logs "... is no longer in queue".
ReceiverSurvives == clientUp => rpc # "dead"

\* Claim of processBuffer's comment "we've received more data".
NoMessageLeftInBuffer == clientUp /\ ~draining => inbuf = <<>>
=============================================================================
