------------------------------ MODULE AsyncMqtt ------------------------------
(***************************************************************************)
(* The utilities' MQTT client, utils/*/opt/*/asyncio_mqtt.py (five equal   *)
(* copies): it wraps the callbacks of the paho library into asyncio.       *)
(*                                                                         *)
(* Everything runs on the event loop, where code is atomic between two     *)
(* awaits, but for paho's reconnect() and disconnect(), which block and    *)
(* run in executor threads.  A background task, the worker, reconnects.    *)
(*                                                                         *)
(* paho, the network and the broker are external: the library is modelled  *)
(* by the callbacks and results that the class relies on.  Any sleep ends; *)
(* of its length only the index into connect_delay is kept.                *)
(***************************************************************************)
EXTENDS Integers

CONSTANTS NumDelays,    \* len(connect_delay)
          MaxFaults,    \* bound: outages and broken connections
          MaxMessages   \* bound: messages the broker sends

ASSUME NumDelaysAssumption == NumDelays \in Nat \ {0}
ASSUME MaxAssumption == MaxFaults \in Nat /\ MaxMessages \in Nat

VARIABLES
  asyncConnect,  \* _async_connect, an argument of the constructor
  up,          \* the broker can be reached
  alive,       \* the broker holds the other end of the socket
  faults, sent,  \* faults and messages so far
  sock,        \* _socket: "none" or "open"
  session,     \* paho: "none", "connect" sent, "up", "unpinged", "disconnecting"
  connected,   \* _connected
  errors,      \* _connect_errors, which matter up to NumDelays
  failed,      \* history: no session since the last failed attempt or loss
  exec,        \* executor thread in reconnect(): "idle", "connecting", or its result
  worker,      \* _task_worker: "none", or its next step
  cancelled,   \* _task_worker.cancel() was called
  user,        \* the task that uses the client as a context manager
  waiter,      \* _task_connect: "none", "pending", "ok", "failed"
  open,        \* _queue is not None
  queued,      \* messages in _queue
  iter,        \* the task in `async for': "idle", "waiting" or "ended"
  getCancel    \* _task_queue_get was cancelled

brokerVars == <<up, alive, faults, sent>>
pahoVars == <<sock, session, exec>>
stateVars == <<connected, errors, failed>>
taskVars == <<worker, cancelled, user, waiter>>
iterVars == <<open, queued, iter, getCancel>>
clientVars == <<brokerVars, pahoVars, stateVars, taskVars, iterVars>>
vars == <<asyncConnect, clientVars>>

Init ==
  /\ asyncConnect \in BOOLEAN
  /\ up \in BOOLEAN /\ alive = FALSE /\ faults = 0 /\ sent = 0
  /\ sock = "none" /\ session = "none" /\ exec = "idle"
  /\ connected = FALSE /\ errors = 0 /\ failed = FALSE
  /\ worker = "none" /\ cancelled = FALSE /\ user = "enter" /\ waiter = "none"
  /\ open = FALSE /\ queued = 0 /\ iter = "idle" /\ getCancel = FALSE

-----------------------------------------------------------------------------
(* The broker and the network *)

BrokerDown ==
  /\ up /\ faults < MaxFaults
  /\ up' = FALSE /\ alive' = FALSE /\ faults' = faults + 1
  /\ UNCHANGED <<sent, pahoVars, stateVars, taskVars, iterVars>>

BrokerUp ==
  /\ ~up
  /\ up' = TRUE
  /\ UNCHANGED <<alive, faults, sent, pahoVars, stateVars, taskVars, iterVars>>

(* The connection breaks, is refused, or goes silent. *)
Break ==
  /\ alive /\ faults < MaxFaults
  /\ alive' = FALSE /\ faults' = faults + 1
  /\ UNCHANGED <<up, sent, pahoVars, stateVars, taskVars, iterVars>>

-----------------------------------------------------------------------------
(* paho's callbacks, on the event loop *)

CountError == errors' = (IF errors < NumDelays THEN errors + 1 ELSE errors) /\ failed' = TRUE

(* Make an `async for' end: cancel its get(), if any, and drop the queue. *)
StopIteration ==
  /\ open' = FALSE /\ queued' = 0
  /\ getCancel' = (iter = "waiting")
  /\ UNCHANGED iter

(* on_connect(): the broker has accepted. *)
OnConnect ==
  /\ sock = "open" /\ session = "connect" /\ alive
  /\ session' = "up"
  /\ connected' = TRUE /\ errors' = 0 /\ failed' = FALSE
  /\ waiter' = IF waiter = "pending" THEN "ok" ELSE waiter
  /\ UNCHANGED <<brokerVars, sock, exec, worker, cancelled, user, iterVars>>

\* Mutant: a lost session still counts as connected.
OnDisconnectSilent ==
  /\ UNCHANGED connected
  /\ IF session = "disconnecting"
     THEN /\ cancelled' = TRUE /\ StopIteration
          /\ UNCHANGED <<errors, failed, waiter>>
     ELSE /\ CountError
          /\ waiter' = IF waiter = "pending" THEN "failed" ELSE waiter
          /\ UNCHANGED <<cancelled, iterVars>>

(* on_disconnect(): as wanted, which ends everything, or by an error.      *)
OnDisconnect ==
  /\ connected' = FALSE
  /\ IF session = "disconnecting"
     THEN /\ cancelled' = TRUE /\ StopIteration
          /\ UNCHANGED <<errors, failed, waiter>>
     ELSE /\ CountError
          /\ waiter' = IF waiter = "pending" THEN "failed" ELSE waiter
          /\ UNCHANGED <<cancelled, iterVars>>

(* on_socket_close(), which comes with every on_disconnect(). *)
SocketClosed ==
  /\ sock' = "none" /\ session' = "none" /\ alive' = FALSE
  /\ UNCHANGED <<up, faults, sent, exec>>

(* loop_read() or loop_write() finds the connection broken. *)
Lost ==
  /\ sock = "open" /\ ~alive
  /\ SocketClosed /\ OnDisconnect
  /\ UNCHANGED <<worker, user>>

(* loop_write() gets the DISCONNECT out. *)
Disconnected ==
  /\ sock = "open" /\ session = "disconnecting"
  /\ SocketClosed /\ OnDisconnect
  /\ UNCHANGED <<worker, user>>

(* on_message(), which fails on a queue that was dropped: the message is   *)
(* lost.                                                                   *)
OnMessage ==
  /\ sock = "open" /\ session \in {"up", "unpinged", "disconnecting"} /\ alive
  /\ sent < MaxMessages
  /\ sent' = sent + 1
  /\ queued' = IF open THEN queued + 1 ELSE queued
  /\ UNCHANGED <<up, alive, faults, pahoVars, stateVars, taskVars, open, iter, getCancel>>

-----------------------------------------------------------------------------
(* reconnect() in its thread: a new socket with CONNECT sent, or OSError *)

ReconnectOpens ==
  /\ exec = "connecting" /\ up
  /\ sock' = "open" /\ session' = "connect" /\ alive' = TRUE
  /\ exec' = "opened"
  /\ UNCHANGED <<up, faults, sent, stateVars, taskVars, iterVars>>

ReconnectFails ==
  /\ exec = "connecting" /\ ~up
  /\ exec' = "refused"
  /\ UNCHANGED <<brokerVars, sock, session, stateVars, taskVars, iterVars>>

-----------------------------------------------------------------------------
(* _worker() *)

\* Mutant: only an error of loop_misc() makes the worker reconnect.
WorkerCheckMiscOnly ==
  /\ worker = "check" /\ ~cancelled
  /\ sock = "open" /\ ~alive /\ SocketClosed /\ OnDisconnect
  /\ worker' = "backoff"
  /\ UNCHANGED user

(* As long as loop_misc() is content the worker sleeps for another second; *)
(* a connection that went silent makes it close the socket.  It is content *)
(* with a connection that has just been accepted; and once entering has    *)
(* failed, on_disconnect() raises, as the future it fails is done already. *)
(* A session that it does not ping it takes for silent.                    *)
WorkerCheck ==
  /\ worker = "check" /\ ~cancelled
  /\ \/ /\ sock = "open" /\ (~alive \/ session = "unpinged") /\ waiter # "ok"
        /\ SocketClosed /\ OnDisconnect
        /\ worker' = IF waiter = "failed" THEN "done" ELSE "backoff"
     \/ /\ sock = "none"
        /\ worker' = "backoff"
        /\ UNCHANGED <<brokerVars, pahoVars, stateVars, cancelled, waiter, iterVars>>
  /\ UNCHANGED user

(* After connect_delay[errors]. *)
WorkerRetry ==
  /\ worker = "backoff" /\ ~cancelled
  /\ worker' = "reconnect" /\ exec' = "connecting"
  /\ sock' = "none" /\ session' = "none" /\ alive' = FALSE
  /\ UNCHANGED <<up, faults, sent, stateVars, cancelled, user, waiter, iterVars>>

\* Mutant: only on_disconnect() counts errors.
WorkerResumedForgetful ==
  /\ worker = "reconnect" /\ exec \in {"opened", "refused"} /\ ~cancelled
  /\ worker' = "check" /\ exec' = "idle"
  /\ failed' = (failed \/ exec = "refused")
  /\ UNCHANGED <<brokerVars, sock, session, connected, errors, cancelled, user, waiter, iterVars>>

(* reconnect() has returned or raised. *)
WorkerResumed ==
  /\ worker = "reconnect" /\ exec \in {"opened", "refused"} /\ ~cancelled
  /\ worker' = "check" /\ exec' = "idle"
  /\ IF exec = "refused" THEN CountError ELSE UNCHANGED <<errors, failed>>
  /\ UNCHANGED <<brokerVars, sock, session, connected, cancelled, user, waiter, iterVars>>

(* Cancelled at whatever it awaits; reconnect() goes on in its thread. *)
WorkerCancelled ==
  /\ cancelled /\ worker \notin {"none", "done"}
  /\ worker' = "done"
  /\ UNCHANGED <<brokerVars, pahoVars, stateVars, cancelled, user, waiter, iterVars>>

WorkerStep == WorkerCheck \/ WorkerRetry \/ WorkerResumed \/ WorkerCancelled

-----------------------------------------------------------------------------
(* The context manager *)

(* __aenter__(): connect in the background, *)
EnterAsync ==
  /\ user = "enter" /\ asyncConnect
  /\ open' = TRUE
  /\ worker' = "check" /\ user' = "body"
  /\ UNCHANGED <<brokerVars, pahoVars, stateVars, cancelled, waiter, queued, iter, getCancel>>

(* again after having left, as fs740.py does: ten seconds later, when a    *)
(* thread that was still in reconnect() has timed out and DISCONNECT is    *)
(* sent.  A socket that this thread has opened meanwhile stays open, but   *)
(* connect_async() makes paho forget that its session is up, so that it is *)
(* not pinged any more;                                                    *)
EnterAgain ==
  /\ user = "out" /\ asyncConnect
  /\ exec # "connecting" /\ session # "disconnecting" /\ iter # "waiting"
  /\ user' = "body" /\ worker' = "check" /\ cancelled' = FALSE
  /\ open' = TRUE /\ queued' = 0 /\ iter' = "idle" /\ getCancel' = FALSE
  /\ exec' = "idle" /\ session' = IF session = "up" THEN "unpinged" ELSE session
  /\ UNCHANGED <<brokerVars, sock, stateVars, waiter>>

(* or try to open a socket, *)
EnterSync ==
  /\ user = "enter" /\ ~asyncConnect
  /\ open' = TRUE
  /\ waiter' = "pending" /\ exec' = "connecting" /\ user' = "opening"
  /\ UNCHANGED <<brokerVars, sock, session, stateVars, worker, cancelled, queued, iter, getCancel>>

\* Mutant: the worker is created once the session is up.
OpenedWithoutWorker ==
  /\ user = "opening" /\ exec \in {"opened", "refused"}
  /\ exec' = "idle"
  /\ user' = IF exec = "refused" THEN "failed" ELSE "handshake"
  /\ UNCHANGED <<brokerVars, sock, session, stateVars, worker, cancelled, waiter, iterVars>>

Opened ==
  /\ user = "opening" /\ exec \in {"opened", "refused"}
  /\ exec' = "idle"
  /\ IF exec = "refused" THEN user' = "failed" /\ UNCHANGED worker
                         ELSE user' = "handshake" /\ worker' = "check"
  /\ UNCHANGED <<brokerVars, sock, session, stateVars, cancelled, waiter, iterVars>>

(* and wait for on_connect() or on_disconnect(). *)
Entered ==
  /\ user = "handshake" /\ waiter \in {"ok", "failed"}
  /\ IF waiter = "ok" THEN user' = "body" /\ waiter' = "none"
                      ELSE user' = "failed" /\ UNCHANGED waiter
  /\ UNCHANGED <<brokerVars, pahoVars, stateVars, worker, cancelled, iterVars>>

(* A program that has ended is started again by systemd, with a new client *)
(* (Restart=always in the .service files).                                 *)
Restarted ==
  /\ user \in {"out", "failed"} /\ iter # "waiting"
  /\ sock' = "none" /\ session' = "none" /\ exec' = "idle" /\ alive' = FALSE
  /\ connected' = FALSE /\ errors' = 0 /\ failed' = FALSE
  /\ worker' = "none" /\ cancelled' = FALSE /\ user' = "enter" /\ waiter' = "none"
  /\ open' = FALSE /\ queued' = 0 /\ iter' = "idle" /\ getCancel' = FALSE
  /\ UNCHANGED <<up, faults, sent>>

(* __aexit__(), after the body has ended in any way: disconnect(), *)
Leave ==
  /\ user = "body"
  /\ user' = "closing"
  /\ UNCHANGED <<brokerVars, pahoVars, stateVars, worker, cancelled, waiter, iterVars>>

(* whose first half is paho's, in a thread: it queues a DISCONNECT, *)
ClientDisconnect ==
  /\ user = "closing"
  /\ session' = IF sock = "open" THEN "disconnecting" ELSE session
  /\ user' = "closed"
  /\ UNCHANGED <<brokerVars, sock, exec, stateVars, worker, cancelled, waiter, iterVars>>

\* Mutant: disconnect() leaves an iteration waiting.
CloseForgetful ==
  /\ user = "closed"
  /\ user' = "joining"
  /\ cancelled' = TRUE
  /\ open' = IF worker = "done" THEN open ELSE FALSE
  /\ UNCHANGED <<brokerVars, pahoVars, stateVars, worker, waiter, queued, iter, getCancel>>

\* Mutant: on_disconnect() is relied upon.
CloseTrusting ==
  /\ user = "closed"
  /\ user' = "joining"
  /\ UNCHANGED <<brokerVars, pahoVars, stateVars, worker, cancelled, waiter, iterVars>>

(* and whose second half ends worker and iteration, which on_disconnect()  *)
(* may have done already.                                                  *)
Close ==
  /\ user = "closed"
  /\ user' = "joining"
  /\ IF worker = "done" THEN UNCHANGED <<cancelled, iterVars>>
                        ELSE cancelled' = TRUE /\ StopIteration
  /\ UNCHANGED <<brokerVars, pahoVars, stateVars, worker, waiter>>

Left ==
  /\ user = "joining" /\ worker = "done"
  /\ user' = "out"
  /\ UNCHANGED <<brokerVars, pahoVars, stateVars, worker, cancelled, waiter, iterVars>>

UserStep == Opened \/ Entered \/ ClientDisconnect \/ Close \/ Left

-----------------------------------------------------------------------------
(* __anext__() *)

Iterate ==
  /\ iter = "idle" /\ user \notin {"enter", "opening", "handshake", "failed"}
  /\ iter' = IF open THEN "waiting" ELSE "ended"
  /\ UNCHANGED <<brokerVars, pahoVars, stateVars, taskVars, open, queued, getCancel>>

Yield ==
  /\ iter = "waiting" /\ ~getCancel /\ queued > 0
  /\ iter' = "idle" /\ queued' = queued - 1
  /\ UNCHANGED <<brokerVars, pahoVars, stateVars, taskVars, open, getCancel>>

(* StopAsyncIteration *)
IterationStops ==
  /\ iter = "waiting" /\ getCancel
  /\ iter' = "ended"
  /\ UNCHANGED <<brokerVars, pahoVars, stateVars, taskVars, open, queued, getCancel>>

IterStep == Yield \/ IterationStops

-----------------------------------------------------------------------------
Reconnect == ReconnectOpens \/ ReconnectFails

(* What the network, the library and the class's own tasks do, *)
Background ==
  \/ BrokerDown \/ BrokerUp \/ Break
  \/ OnConnect \/ Lost \/ Disconnected
  \/ Reconnect \/ WorkerStep \/ UserStep \/ IterStep

(* and what a program does with it, which may have subscribed to something. *)
Program ==
  \/ EnterAsync \/ EnterAgain \/ EnterSync \/ Leave \/ Restarted
  \/ OnMessage \/ Iterate

Next == (Background \/ Program) /\ UNCHANGED asyncConnect

(* Tasks, threads and callbacks that are ready get to run, and a broker    *)
(* that holds the connection answers; nobody has to notice a silent one.   *)
Spec ==
  /\ Init /\ [][Next]_vars
  /\ WF_clientVars(WorkerStep) /\ WF_clientVars(UserStep) /\ WF_clientVars(IterStep)
  /\ WF_clientVars(Reconnect) /\ WF_clientVars(OnConnect)

-----------------------------------------------------------------------------
TypeOK ==
  /\ {asyncConnect, up, alive, connected, failed, cancelled, open, getCancel} \subseteq BOOLEAN
  /\ faults \in 0 .. MaxFaults /\ sent \in 0 .. MaxMessages
  /\ sock \in {"none", "open"}
  /\ session \in {"none", "connect", "up", "unpinged", "disconnecting"}
  /\ errors \in 0 .. NumDelays
  /\ exec \in {"idle", "connecting", "opened", "refused"}
  /\ worker \in {"none", "check", "backoff", "reconnect", "done"}
  /\ user \in {"enter", "opening", "handshake", "body", "failed", "closing",
               "closed", "joining", "out"}
  /\ waiter \in {"none", "pending", "ok", "failed"}
  /\ queued \in 0 .. MaxMessages /\ iter \in {"idle", "waiting", "ended"}

(* publish() goes by connected and by the one registered socket: they      *)
(* agree with paho at every moment, also while a thread opens a socket,    *)
(* when there is no other (the assertions at lines 188 and 195).           *)
SessionIsTruthful ==
  /\ connected => sock = "open" /\ session \in {"up", "unpinged", "disconnecting"}
  /\ (sock = "open") <=> (session # "none")
  /\ exec = "connecting" => sock = "none"

(* Whichever way the last attempt failed, or the last session was lost,    *)
(* the next attempt comes after a delay (connect_delay[0] is zero).        *)
RetriesAreDelayed == worker = "backoff" /\ failed => errors > 0

(* Line 70: the client attempts to connect for ever, and once the broker   *)
(* stays there, it succeeds whatever happened before.                      *)
EventuallyConnects ==
  <>[]up => []<>(connected \/ user \notin {"body", "handshake"})

(* Lines 77 to 88: entering returns or raises, also if the broker never    *)
(* answers, for which the worker has to be there already.                  *)
EnterReturns ==
  (user = "opening") ~> (user \notin {"opening", "handshake"})

(* Leaving ends, in whatever state the connection is, and leaves no        *)
(* `async for' waiting.                                                    *)
LeaveEnds == (user = "closing") ~> (user = "out" /\ iter # "waiting")

=============================================================================
