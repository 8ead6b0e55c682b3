------------------------------ MODULE MqttClient ------------------------------
(***************************************************************************)
(* The MQTT client of the daemon, src/src/mqtt.cpp.  main() publishes; a   *)
(* worker thread runs libmosquitto's network loop and reconnects.  Both    *)
(* call the library without a lock of their own.                           *)
(*                                                                         *)
(* libmosquitto, the kernel and the broker are external: a message goes    *)
(* into the library's queue, from there by mosquitto_loop() into the send  *)
(* buffer of the socket, and from there to the broker.  A message is       *)
(* abstracted to the room it takes, one unit.                              *)
(***************************************************************************)
EXTENDS Integers

CONSTANTS SndBuf,      \* messages that fit into a send buffer of sndbuf bytes
          SysBuf,      \* and into the system's default one
          MaxQueue,    \* bound: messages in the library's queue
          MaxFaults    \* bound: outages, broken connections, exceptions

ASSUME BufferAssumption == SndBuf \in Nat \ {0} /\ SysBuf \in Nat /\ SndBuf < SysBuf
ASSUME MqttBounds == MaxQueue \in Nat /\ MaxFaults \in Nat

VARIABLES
  up,         \* the broker can be reached
  faults,     \* faults so far
  peer,       \* other end of the socket: "none", "alive", "silent", "gone"
  lib,        \* struct mosquitto: "none", "valid" or "destroyed"
  sock,       \* mosquitto_socket() # -1
  limited,    \* SO_SNDBUF has been set on it
  optFailed,  \* history: setsockopt() failed on it, the last time it was tried
  queued,     \* messages in the library's queue
  kernel,     \* messages in the send buffer
  sinceFull,  \* history: messages queued since the send buffer has been full
  mqRun,      \* the atomic flag run
  wkpc,       \* next step of the worker
  pubpc       \* main() in publish(): "idle", or "send" after poll()

netVars == <<up, faults>>
sockVars == <<peer, sock, limited, optFailed, kernel>>
libVars == <<lib, queued, sinceFull>>
mqttVars == <<netVars, sockVars, libVars, mqRun, wkpc, pubpc>>

InitMqtt ==
  /\ up \in BOOLEAN /\ faults = 0
  /\ peer = "none" /\ sock = FALSE /\ limited = FALSE /\ optFailed = FALSE
  /\ kernel = 0
  /\ lib = "none" /\ queued = 0 /\ sinceFull = 0
  /\ mqRun = TRUE /\ wkpc = "none" /\ pubpc = "idle"

(* poll() reports POLLOUT. *)
Writable == sock /\ kernel < IF limited THEN SndBuf ELSE SysBuf

(* sinceFull, after n messages were queued. *)
CountSince(n) == sinceFull' = IF Writable' THEN 0 ELSE sinceFull + n

-----------------------------------------------------------------------------
(* The broker and the network *)

Fault == faults < MaxFaults /\ faults' = faults + 1

BrokerDown ==
  /\ up /\ Fault
  /\ up' = FALSE /\ peer' \in (IF peer = "none" THEN {"none"} ELSE {"silent", "gone"})
  /\ UNCHANGED <<sock, limited, optFailed, kernel, libVars, mqRun, wkpc, pubpc>>

BrokerUp ==
  /\ ~up
  /\ up' = TRUE
  /\ UNCHANGED <<faults, sockVars, libVars, mqRun, wkpc, pubpc>>

(* The connection breaks, or goes silent. *)
Break ==
  /\ peer = "alive" /\ Fault
  /\ peer' \in {"silent", "gone"}
  /\ UNCHANGED <<up, sock, limited, optFailed, kernel, libVars, mqRun, wkpc, pubpc>>

(* Nothing was heard for the five seconds of mosquitto_connect(). *)
KeepaliveExpires ==
  /\ peer = "silent"
  /\ peer' = "gone"
  /\ UNCHANGED <<netVars, sock, limited, optFailed, kernel, libVars, mqRun, wkpc, pubpc>>

(* The broker takes a message. *)
Deliver ==
  /\ peer = "alive" /\ kernel > 0
  /\ kernel' = kernel - 1
  /\ UNCHANGED <<netVars, peer, sock, limited, optFailed, lib, queued, mqRun, wkpc, pubpc>>
  /\ CountSince(0)

-----------------------------------------------------------------------------
(* Constructor and destructor, by main() *)

Fresh == limited' = FALSE /\ optFailed' = FALSE /\ kernel' = 0
Opens == sock' = TRUE /\ peer' = "alive" /\ Fresh
Closes == sock' = FALSE /\ peer' = "none" /\ Fresh

(* mosquitto_connect() succeeds, then the send buffer is limited and the   *)
(* worker is started.                                                      *)
MqttCreate ==
  /\ lib = "none" /\ up
  /\ lib' = "valid"
  /\ sock' = TRUE /\ peer' = "alive" /\ kernel' = 0
  /\ limited' = TRUE /\ optFailed' = FALSE
  /\ wkpc' = "while"
  /\ UNCHANGED <<netVars, queued, sinceFull, mqRun, pubpc>>

(* The broker, or anything else, fails: what was created is destroyed.     *)
MqttCreateThrows ==
  /\ lib = "none"
  /\ lib' = "destroyed"
  /\ UNCHANGED <<netVars, sockVars, queued, sinceFull, mqRun, wkpc, pubpc>>

(* ~MqttClient() clears run; the worker may have done so already. *)
MqttStop ==
  /\ lib = "valid"
  /\ mqRun' = FALSE
  /\ UNCHANGED <<netVars, sockVars, libVars, wkpc, pubpc>>

\* Mutant: the library is cleaned up while the worker is still in it.
MqttDestroyUnjoined ==
  /\ lib = "valid"
  /\ lib' = "destroyed" /\ queued' = 0 /\ sinceFull' = 0
  /\ Closes
  /\ UNCHANGED <<netVars, mqRun, wkpc, pubpc>>

(* The worker is joined, then the library is cleaned up. *)
MqttDestroy ==
  /\ lib = "valid" /\ wkpc = "ended"
  /\ lib' = "destroyed" /\ queued' = 0 /\ sinceFull' = 0
  /\ Closes
  /\ UNCHANGED <<netVars, mqRun, wkpc, pubpc>>

-----------------------------------------------------------------------------
(* publish(), by main() *)

\* Mutant: only an error of poll() keeps a message back.
PublishAnyway ==
  /\ lib = "valid" /\ pubpc = "idle" /\ queued < MaxQueue
  /\ sock
  /\ pubpc' = "send"
  /\ UNCHANGED <<netVars, sockVars, libVars, mqRun, wkpc>>

(* poll(): without room in the send buffer the message is discarded, which *)
(* changes nothing.                                                        *)
Publish ==
  /\ lib = "valid" /\ pubpc = "idle" /\ queued < MaxQueue
  /\ Writable
  /\ pubpc' = "send"
  /\ UNCHANGED <<netVars, sockVars, libVars, mqRun, wkpc>>

(* mosquitto_publish() queues the message; the worker may have closed the  *)
(* socket by now, which is an error that is logged.                        *)
Send ==
  /\ pubpc = "send"
  /\ pubpc' = "idle"
  /\ UNCHANGED <<netVars, sockVars, lib, mqRun, wkpc>>
  /\ IF sock THEN queued' = queued + 1 /\ CountSince(1)
             ELSE UNCHANGED <<queued, sinceFull>>

-----------------------------------------------------------------------------
(* worker() *)

WorkerWhile ==
  /\ wkpc = "while"
  /\ wkpc' = IF mqRun THEN "loop" ELSE "ended"
  /\ UNCHANGED <<netVars, sockVars, libVars, mqRun, pubpc>>

(* Within mosquitto_loop() a queued message goes to the kernel; *)
LoopWrites ==
  /\ wkpc = "loop" /\ queued > 0 /\ Writable /\ peer # "gone"
  /\ queued' = queued - 1 /\ kernel' = kernel + 1
  /\ UNCHANGED <<netVars, peer, sock, limited, optFailed, lib, mqRun, wkpc, pubpc>>
  /\ CountSince(0)

(* it returns early, or after 100 ms, *)
LoopReturns ==
  /\ wkpc = "loop" /\ peer \in {"alive", "silent"}
  /\ wkpc' = "while"
  /\ UNCHANGED <<netVars, sockVars, libVars, mqRun, pubpc>>

(* or with an error, having closed a socket that is broken, *)
LoopFails ==
  /\ wkpc = "loop" /\ peer \in {"none", "gone"}
  /\ Closes
  /\ wkpc' = "retry"
  /\ UNCHANGED <<netVars, lib, queued, mqRun, pubpc>>
  /\ CountSince(0)

(* or not, when something else failed. *)
LoopErrs ==
  /\ wkpc = "loop" /\ Fault
  /\ wkpc' = "retry"
  /\ UNCHANGED <<up, sockVars, libVars, mqRun, pubpc>>

\* Mutant: the loop does not look at run.
WorkerRetryForever ==
  /\ wkpc = "retry"
  /\ wkpc' = "reconnect"
  /\ UNCHANGED <<netVars, sockVars, libVars, mqRun, pubpc>>

(* It reconnects, unless the client is being destroyed. *)
WorkerRetry ==
  /\ wkpc = "retry"
  /\ wkpc' = IF mqRun THEN "reconnect" ELSE "sockopt"
  /\ UNCHANGED <<netVars, sockVars, libVars, mqRun, pubpc>>

(* mosquitto_reconnect() closes a socket that is still open and drops what *)
(* is queued, *)
ReconnectBegins ==
  /\ wkpc = "reconnect"
  /\ Closes /\ queued' = 0 /\ sinceFull' = 0
  /\ wkpc' = "connecting"
  /\ UNCHANGED <<netVars, lib, mqRun, pubpc>>

(* then connects, with a new socket, *)
ReconnectSucceeds ==
  /\ wkpc = "connecting" /\ up
  /\ Opens
  /\ wkpc' = "sockopt"
  /\ UNCHANGED <<netVars, lib, queued, mqRun, pubpc>>
  /\ CountSince(0)

\* Mutant: the thread gives up.
ReconnectFailsForGood ==
  /\ wkpc = "connecting" /\ ~up
  /\ wkpc' = "ended"
  /\ UNCHANGED <<netVars, sockVars, libVars, mqRun, pubpc>>

(* or fails; the next attempt is five seconds after this one. *)
ReconnectFails ==
  /\ wkpc = "connecting" /\ ~up
  /\ wkpc' = "sleep"
  /\ UNCHANGED <<netVars, sockVars, libVars, mqRun, pubpc>>

WorkerSleeps ==
  /\ wkpc = "sleep"
  /\ wkpc' = "retry"
  /\ UNCHANGED <<netVars, sockVars, libVars, mqRun, pubpc>>

\* Mutant: the option is taken to survive the reconnection.
SetSockOptNot ==
  /\ wkpc = "sockopt"
  /\ wkpc' = "while"
  /\ UNCHANGED <<netVars, sockVars, libVars, mqRun, pubpc>>

(* The send buffer of the new socket, if there is one, is limited too.     *)
(* When setsockopt() fails, which is logged, the socket is used as it is.  *)
SetSockOpt ==
  /\ wkpc = "sockopt"
  /\ \/ limited' = sock /\ optFailed' = FALSE
     \/ sock /\ optFailed' = TRUE /\ UNCHANGED limited
  /\ wkpc' = "while"
  /\ UNCHANGED <<netVars, peer, sock, kernel, lib, queued, mqRun, pubpc>>
  /\ CountSince(0)

(* An exception ends the thread. *)
WorkerThrows ==
  /\ wkpc \notin {"none", "ended"} /\ Fault
  /\ mqRun' = FALSE /\ wkpc' = "ended"
  /\ UNCHANGED <<up, sockVars, libVars, pubpc>>

Connecting == ReconnectSucceeds \/ ReconnectFails

MqttWorker ==
  \/ WorkerWhile \/ LoopWrites \/ LoopReturns \/ LoopFails
  \/ WorkerRetry \/ ReconnectBegins \/ Connecting \/ WorkerSleeps \/ SetSockOpt

MqttEnvironment ==
  \/ BrokerDown \/ BrokerUp \/ Break \/ Deliver \/ KeepaliveExpires
  \/ LoopErrs \/ WorkerThrows

-----------------------------------------------------------------------------
TypeOKMqtt ==
  /\ {up, sock, limited, optFailed, mqRun} \subseteq BOOLEAN
  /\ faults \in 0 .. MaxFaults
  /\ peer \in {"none", "alive", "silent", "gone"}
  /\ lib \in {"none", "valid", "destroyed"}
  /\ queued \in 0 .. MaxQueue /\ kernel \in 0 .. SysBuf /\ sinceFull \in Nat
  /\ wkpc \in {"none", "while", "loop", "retry", "reconnect", "connecting",
               "sleep", "sockopt", "ended"}
  /\ pubpc \in {"idle", "send"}

(* mqtt.cpp:97 "silently discard message if socket send buffer is full to  *)
(* avoid backlog of unsent messages": as long as the send buffer stays     *)
(* full, main() adds one message to the backlog at most, the one for which *)
(* poll() had still found room.                                            *)
BacklogStops == sinceFull <= 1

(* mqtt.cpp:201: every socket the network loop works with has the small    *)
(* send buffer that publish() relies on, after whatever sequence of        *)
(* failures and reconnections, unless setsockopt() failed on that very     *)
(* socket (mqtt.cpp:206): the next one is limited again.                   *)
SendBufferLimited ==
  wkpc \in {"while", "loop"} /\ sock => limited \/ optFailed

(* The library is not used after it was cleaned up, nor its socket. *)
ClientOutlivesUse ==
  lib = "destroyed" => wkpc \in {"none", "ended"} /\ pubpc = "idle" /\ ~sock

(* A broker that stays is connected again and again, unless the thread is  *)
(* told to end or has failed: no failure leaves the worker with a dead     *)
(* socket for ever, or makes it give up (mqtt.cpp:172).                    *)
Reconnects ==
  <>[]up => []<>(peer = "alive" \/ wkpc = "none" \/ ~mqRun)

=============================================================================
