---------------------------- MODULE StartupProofs ----------------------------
(***************************************************************************)
(* Theorems about main() of the daemon and the components it drives: what  *)
(* SyncProofs says of one step of Sync, and the first part of this module  *)
(* of one step of MqttClient, for any size of the send buffers and any     *)
(* number of faults, holds of every behaviour, because main() uses the     *)
(* components as those lemmas expect: the USRP's time jumps only before it *)
(* is synchronised, and the client is destroyed by the thread that         *)
(* publishes.                                                              *)
(***************************************************************************)
EXTENDS Startup, SyncProofs

-----------------------------------------------------------------------------
(* The inductive invariant of MqttClient *)

(* The library, its socket, the worker and publish() live and end together. *)
LifeTime ==
  /\ lib # "valid" => wkpc \in {"none", "ended"} /\ pubpc = "idle" /\ ~sock
  /\ lib = "none" => wkpc = "none" /\ sinceFull = 0

(* A message for which there was room finds none queued since. *)
RoomFound ==
  /\ Writable => sinceFull = 0
  /\ pubpc = "send" => sinceFull = 0 /\ queued < MaxQueue

IInvMqtt == TypeOKMqtt /\ SendBufferLimited /\ LifeTime /\ RoomFound /\ BacklogStops


LEMMA Sizes ==
  /\ SndBuf \in Nat /\ SndBuf >= 1 /\ SysBuf \in Nat /\ SndBuf < SysBuf
  /\ MaxQueue \in Nat /\ MaxFaults \in Nat
BY BufferAssumption, MqttBounds

LEMMA Quantities ==
  ASSUME TypeOKMqtt
  PROVE  /\ queued \in 0 .. MaxQueue /\ kernel \in 0 .. SysBuf /\ sinceFull \in Nat
         /\ faults \in 0 .. MaxFaults
         /\ up \in BOOLEAN /\ sock \in BOOLEAN /\ limited \in BOOLEAN
         /\ optFailed \in BOOLEAN /\ mqRun \in BOOLEAN
BY DEF TypeOKMqtt

LEMMA MqttBegins == InitMqtt => IInvMqtt
<1> SUFFICES ASSUME InitMqtt PROVE IInvMqtt
  OBVIOUS
<1>1. TypeOKMqtt
  <2>1. {up, sock, limited, optFailed, mqRun} \subseteq BOOLEAN
    BY Zenon DEF InitMqtt
  <2>2. faults \in 0 .. MaxFaults /\ queued \in 0 .. MaxQueue /\ kernel \in 0 .. SysBuf
    BY Sizes DEF InitMqtt
  <2>. QED  BY <2>1, <2>2 DEF InitMqtt, TypeOKMqtt
<1>. QED
  BY <1>1 DEF InitMqtt, IInvMqtt, SendBufferLimited, LifeTime, RoomFound, BacklogStops, Writable

-----------------------------------------------------------------------------
(* What is counted since the send buffer has been full *)

LEMMA CountedNone ==
  ASSUME IInvMqtt, CountSince(0)
  PROVE  /\ sinceFull' \in Nat /\ sinceFull' <= 1 /\ (Writable' => sinceFull' = 0)
         /\ sinceFull = 0 => sinceFull' = 0
BY DEF IInvMqtt, TypeOKMqtt, BacklogStops, CountSince

LEMMA CountedOne ==
  ASSUME IInvMqtt, CountSince(1), sinceFull = 0
  PROVE  sinceFull' \in Nat /\ sinceFull' <= 1 /\ (Writable' => sinceFull' = 0)
BY DEF CountSince

LEMMA KernelFits == ASSUME TypeOKMqtt, Writable PROVE sock /\ kernel + 1 \in 0 .. SysBuf
BY Sizes, Quantities DEF Writable

(* A step that leaves the messages, the library and the socket alone. *)
LEMMA QuietStep ==
  ASSUME IInvMqtt, UNCHANGED <<sock, limited, optFailed, kernel, libVars>>,
         pubpc' = pubpc \/ (pubpc' = "idle"), SendBufferLimited',
         lib # "valid" => wkpc' \in {"none", "ended"},
         lib = "none" => wkpc' = "none"
  PROVE  SendBufferLimited' /\ LifeTime' /\ RoomFound' /\ BacklogStops'
BY DEF IInvMqtt, LifeTime, RoomFound, BacklogStops, Writable, libVars

-----------------------------------------------------------------------------
(* The broker and the network *)

LEMMA FaultType == ASSUME TypeOKMqtt, Fault PROVE faults' \in 0 .. MaxFaults
BY Sizes, Quantities DEF Fault

LEMMA EnvironmentStep == ASSUME IInvMqtt, MqttEnvironment PROVE IInvMqtt'
<1>0. IInvMqtt => TypeOKMqtt /\ SendBufferLimited /\ LifeTime
  BY DEF IInvMqtt
<1>1. CASE BrokerDown \/ BrokerUp \/ Break \/ KeepaliveExpires
  <2>1. UNCHANGED <<sock, limited, optFailed, kernel, libVars, mqRun, wkpc, pubpc>>
    BY <1>1 DEF BrokerDown, BrokerUp, Break, KeepaliveExpires, sockVars
  <2>2. /\ faults' \in 0 .. MaxFaults /\ up' \in BOOLEAN
        /\ peer' \in {"none", "alive", "silent", "gone"}
    BY <1>0, <1>1, FaultType
       DEF BrokerDown, BrokerUp, Break, KeepaliveExpires, TypeOKMqtt, sockVars, netVars
  <2>3. TypeOKMqtt'
    BY <1>0, <2>1, <2>2 DEF TypeOKMqtt, libVars
  <2>4. SendBufferLimited'
    BY <1>0, <2>1 DEF SendBufferLimited
  <2>. QED  BY <1>0, <2>1, <2>3, <2>4, QuietStep DEF IInvMqtt, LifeTime
<1>2. CASE Deliver
  <2>1. /\ kernel > 0 /\ kernel' = kernel - 1 /\ CountSince(0)
        /\ UNCHANGED <<netVars, peer, sock, limited, optFailed, lib, queued, mqRun, wkpc, pubpc>>
    BY <1>2 DEF Deliver
  <2>2. kernel' \in 0 .. SysBuf
    BY <1>0, <2>1, Quantities, Sizes
  <2>3. TypeOKMqtt'
    BY <1>0, <2>1, <2>2, CountedNone DEF TypeOKMqtt, netVars
  <2>. QED
    BY <2>1, <2>3, CountedNone DEF IInvMqtt, SendBufferLimited, LifeTime, RoomFound, BacklogStops
<1>3. CASE LoopErrs \/ WorkerThrows
  <2>1. /\ Fault /\ wkpc \notin {"none", "ended"} /\ wkpc' \in {"retry", "ended"}
        /\ mqRun' \in {mqRun, FALSE}
        /\ UNCHANGED <<up, sockVars, libVars, pubpc>>
    BY <1>3 DEF LoopErrs, WorkerThrows
  <2>2. faults' \in 0 .. MaxFaults /\ mqRun' \in BOOLEAN
    BY <1>0, <2>1, FaultType, Quantities
  <2>3. TypeOKMqtt'
    BY <1>0, <2>1, <2>2 DEF TypeOKMqtt, libVars, sockVars
  <2>4. SendBufferLimited'
    BY <2>1 DEF SendBufferLimited
  <2>5. lib = "valid"
    BY <1>0, <2>1 DEF LifeTime
  <2>. QED  BY <2>1, <2>3, <2>4, <2>5, QuietStep DEF IInvMqtt, sockVars
<1>. QED  BY <1>1, <1>2, <1>3 DEF MqttEnvironment

-----------------------------------------------------------------------------
(* A socket that is closed or new *)

LEMMA ClosedSocket ==
  ASSUME Closes
  PROVE  /\ sock' = FALSE /\ sock' \in BOOLEAN /\ limited' \in BOOLEAN /\ optFailed' \in BOOLEAN
         /\ kernel' \in 0 .. SysBuf
         /\ peer' \in {"none", "alive", "silent", "gone"}
<1>1. kernel' \in 0 .. SysBuf
  BY Sizes DEF Closes, Fresh
<1>. QED  BY <1>1, Zenon DEF Closes, Fresh

LEMMA OpenedSocket ==
  ASSUME Opens
  PROVE  /\ sock' \in BOOLEAN /\ limited' \in BOOLEAN /\ optFailed' \in BOOLEAN
         /\ kernel' \in 0 .. SysBuf
         /\ peer' \in {"none", "alive", "silent", "gone"}
<1>1. kernel' \in 0 .. SysBuf
  BY Sizes DEF Opens, Fresh
<1>. QED  BY <1>1, Zenon DEF Opens, Fresh

-----------------------------------------------------------------------------
(* main() *)

LEMMA CreateStep == ASSUME IInvMqtt, MqttCreate PROVE IInvMqtt'
<1>1. /\ lib = "none" /\ sinceFull = 0 /\ pubpc = "idle"
  BY DEF MqttCreate, IInvMqtt, LifeTime
<1>2. {up, sock, limited, optFailed, mqRun}' \subseteq BOOLEAN
  <2>1. up' = up /\ mqRun' = mqRun /\ sock' = TRUE /\ limited' = TRUE /\ optFailed' = FALSE
    BY Zenon DEF MqttCreate, netVars
  <2>2. up \in BOOLEAN /\ mqRun \in BOOLEAN
    BY Quantities DEF IInvMqtt
  <2>. QED  BY <2>1, <2>2, Zenon
<1>3. kernel' \in 0 .. SysBuf
  BY Sizes DEF MqttCreate
<1>4. TypeOKMqtt'
  BY <1>2, <1>3 DEF MqttCreate, IInvMqtt, TypeOKMqtt, netVars
<1>. QED
  BY <1>1, <1>4 DEF MqttCreate, IInvMqtt, SendBufferLimited, LifeTime, RoomFound, BacklogStops

LEMMA CreateThrowsStep == ASSUME IInvMqtt, MqttCreateThrows PROVE IInvMqtt'
<1>1. TypeOKMqtt'
  BY DEF MqttCreateThrows, IInvMqtt, TypeOKMqtt, netVars, sockVars
<1>. QED
  BY <1>1 DEF MqttCreateThrows, IInvMqtt, SendBufferLimited, LifeTime, RoomFound, BacklogStops,
     Writable, sockVars

LEMMA StopStep == ASSUME IInvMqtt, MqttStop PROVE IInvMqtt'
<1>1. /\ mqRun' = FALSE /\ lib = "valid"
      /\ UNCHANGED <<netVars, sockVars, libVars, wkpc, pubpc>>
  BY DEF MqttStop
<1>2. TypeOKMqtt'
  BY <1>1 DEF IInvMqtt, TypeOKMqtt, netVars, sockVars, libVars
<1>3. SendBufferLimited'
  BY <1>1 DEF IInvMqtt, SendBufferLimited, sockVars
<1>. QED  BY <1>1, <1>2, <1>3, QuietStep DEF IInvMqtt, sockVars

\* The library is cleaned up by the thread that publishes.
LEMMA DestroyStep == ASSUME IInvMqtt, MqttDestroy, pubpc = "idle" PROVE IInvMqtt'
<1>1. /\ lib' = "destroyed" /\ wkpc = "ended" /\ queued' = 0 /\ sinceFull' = 0
      /\ Closes /\ UNCHANGED <<netVars, mqRun, wkpc, pubpc>>
  BY DEF MqttDestroy
<1>2. queued' \in 0 .. MaxQueue
  BY <1>1, Sizes
<1>3. TypeOKMqtt'
  BY <1>1, <1>2, ClosedSocket DEF IInvMqtt, TypeOKMqtt, netVars
<1>4. SendBufferLimited' /\ LifeTime' /\ RoomFound' /\ BacklogStops'
  BY <1>1, ClosedSocket DEF SendBufferLimited, LifeTime, RoomFound, BacklogStops
<1>. QED  BY <1>3, <1>4 DEF IInvMqtt

LEMMA PublishStep == ASSUME IInvMqtt, Publish PROVE IInvMqtt'
<1>1. /\ lib = "valid" /\ queued < MaxQueue /\ Writable /\ pubpc' = "send"
      /\ UNCHANGED <<netVars, sockVars, libVars, mqRun, wkpc>>
  BY DEF Publish
<1>2. TypeOKMqtt'
  BY <1>1 DEF IInvMqtt, TypeOKMqtt, netVars, sockVars, libVars
<1>3. SendBufferLimited' /\ LifeTime' /\ BacklogStops'
  BY <1>1 DEF IInvMqtt, SendBufferLimited, LifeTime, BacklogStops, sockVars, libVars
<1>4. RoomFound'
  BY <1>1 DEF IInvMqtt, RoomFound, Writable, sockVars, libVars
<1>. QED  BY <1>2, <1>3, <1>4 DEF IInvMqtt

LEMMA SendStep == ASSUME IInvMqtt, Send PROVE IInvMqtt'
<1>1. /\ pubpc = "send" /\ pubpc' = "idle"
      /\ UNCHANGED <<netVars, sockVars, lib, mqRun, wkpc>>
  BY DEF Send
<1>2. lib = "valid" /\ sinceFull = 0 /\ queued < MaxQueue
  BY <1>1 DEF IInvMqtt, LifeTime, RoomFound
<1>3. queued' \in 0 .. MaxQueue /\ sinceFull' \in Nat /\ sinceFull' <= 1
      /\ (Writable' => sinceFull' = 0)
  <2>1. CASE sock
    <3>1. queued' = queued + 1 /\ CountSince(1)
      BY <2>1 DEF Send
    <3>. QED  BY <3>1, <1>2, CountedOne, Sizes, Quantities DEF IInvMqtt
  <2>2. CASE ~sock
    BY <2>2, <1>2, Quantities DEF Send, IInvMqtt
  <2>. QED  BY <2>1, <2>2
<1>4. TypeOKMqtt'
  BY <1>1, <1>3 DEF IInvMqtt, TypeOKMqtt, netVars, sockVars
<1>5. SendBufferLimited' /\ LifeTime' /\ BacklogStops' /\ RoomFound'
  BY <1>1, <1>2, <1>3
     DEF IInvMqtt, SendBufferLimited, LifeTime, BacklogStops, RoomFound, sockVars
<1>. QED  BY <1>4, <1>5 DEF IInvMqtt

-----------------------------------------------------------------------------
(* The worker *)

LEMMA WorkerAlive == ASSUME IInvMqtt, wkpc \notin {"none", "ended"} PROVE lib = "valid"
BY DEF IInvMqtt, LifeTime

\* The steps that only move on.
LEMMA WorkerMoves ==
  ASSUME IInvMqtt, wkpc \notin {"none", "ended"},
         UNCHANGED <<netVars, sockVars, libVars, mqRun, pubpc>>,
         \/ wkpc = "while" /\ wkpc' \in {"loop", "ended"}
         \/ wkpc = "loop" /\ wkpc' = "while"
         \/ wkpc' \in {"reconnect", "sockopt", "sleep", "retry"}
  PROVE  IInvMqtt'
<1>1. TypeOKMqtt'
  BY DEF IInvMqtt, TypeOKMqtt, netVars, sockVars, libVars
<1>2. SendBufferLimited'
  BY DEF IInvMqtt, SendBufferLimited, sockVars
<1>. QED  BY <1>1, <1>2, WorkerAlive, QuietStep DEF IInvMqtt, sockVars

LEMMA LoopWritesStep == ASSUME IInvMqtt, LoopWrites PROVE IInvMqtt'
<1>1. /\ wkpc = "loop" /\ queued > 0 /\ Writable
      /\ queued' = queued - 1 /\ kernel' = kernel + 1 /\ CountSince(0)
      /\ UNCHANGED <<netVars, peer, sock, limited, optFailed, lib, mqRun, wkpc, pubpc>>
  BY DEF LoopWrites
<1>2. queued' \in 0 .. MaxQueue /\ kernel' \in 0 .. SysBuf /\ queued' < queued
  BY <1>1, KernelFits, Quantities, Sizes DEF IInvMqtt
<1>3. TypeOKMqtt'
  BY <1>1, <1>2, CountedNone DEF IInvMqtt, TypeOKMqtt, netVars
<1>4. SendBufferLimited' /\ LifeTime' /\ BacklogStops'
  BY <1>1, CountedNone DEF IInvMqtt, SendBufferLimited, LifeTime, BacklogStops
<1>5. RoomFound'
  <2>1. pubpc = "send" => sinceFull' = 0 /\ queued < MaxQueue
    BY <1>1, CountedNone DEF IInvMqtt, RoomFound
  <2>2. pubpc = "send" => queued' < MaxQueue
    BY <2>1, <1>2, Quantities, Sizes DEF IInvMqtt
  <2>. QED  BY <2>1, <2>2, <1>1, CountedNone DEF RoomFound
<1>. QED  BY <1>3, <1>4, <1>5 DEF IInvMqtt

\* The steps that close, open or limit the socket, and queue nothing.
LEMMA SocketStep ==
  ASSUME IInvMqtt, wkpc \notin {"none", "ended"},
         UNCHANGED <<netVars, lib, mqRun, pubpc>>,
         wkpc' \in {"while", "retry", "connecting", "sockopt"},
         wkpc' = "while" /\ sock' => limited' \/ optFailed',
         sock' \in BOOLEAN, limited' \in BOOLEAN, optFailed' \in BOOLEAN, kernel' \in 0 .. SysBuf,
         peer' \in {"none", "alive", "silent", "gone"},
         \/ queued' = queued /\ CountSince(0)
         \/ queued' = 0 /\ sinceFull' = 0
  PROVE  IInvMqtt'
<1>1. /\ sinceFull' \in Nat /\ sinceFull' <= 1 /\ (Writable' => sinceFull' = 0)
      /\ sinceFull = 0 => sinceFull' = 0
  BY CountedNone
<1>2. queued' \in 0 .. MaxQueue /\ (queued < MaxQueue => queued' < MaxQueue)
  BY Quantities, Sizes DEF IInvMqtt
<1>3. TypeOKMqtt'
  BY <1>1, <1>2 DEF IInvMqtt, TypeOKMqtt, netVars
<1>4. SendBufferLimited' /\ LifeTime' /\ BacklogStops'
  BY <1>1, WorkerAlive DEF SendBufferLimited, LifeTime, BacklogStops
<1>5. RoomFound'
  BY <1>1, <1>2 DEF IInvMqtt, RoomFound
<1>. QED  BY <1>3, <1>4, <1>5 DEF IInvMqtt

LEMMA WorkerStep == ASSUME IInvMqtt, MqttWorker PROVE IInvMqtt'
<1>1. CASE WorkerWhile
  BY <1>1, WorkerMoves DEF WorkerWhile
<1>2. CASE LoopWrites
  BY <1>2, LoopWritesStep
<1>3. CASE LoopReturns
  BY <1>3, WorkerMoves DEF LoopReturns
<1>4. CASE LoopFails
  <2>1. /\ wkpc = "loop" /\ Closes /\ wkpc' = "retry" /\ CountSince(0) /\ queued' = queued
        /\ UNCHANGED <<netVars, lib, mqRun, pubpc>>
    BY <1>4 DEF LoopFails
  <2>. QED  BY <2>1, ClosedSocket, SocketStep
<1>5. CASE WorkerRetry
  BY <1>5, WorkerMoves DEF WorkerRetry
<1>6. CASE ReconnectBegins
  <2>1. /\ wkpc = "reconnect" /\ Closes /\ wkpc' = "connecting" /\ queued' = 0 /\ sinceFull' = 0
        /\ UNCHANGED <<netVars, lib, mqRun, pubpc>>
    BY <1>6 DEF ReconnectBegins
  <2>. QED  BY <2>1, ClosedSocket, SocketStep
<1>7. CASE Connecting
  <2>1. CASE ReconnectSucceeds
    <3>1. /\ wkpc = "connecting" /\ Opens /\ wkpc' = "sockopt" /\ CountSince(0)
          /\ queued' = queued /\ UNCHANGED <<netVars, lib, mqRun, pubpc>>
      BY <2>1 DEF ReconnectSucceeds
    <3>. QED  BY <3>1, OpenedSocket, SocketStep
  <2>2. CASE ReconnectFails
    BY <2>2, WorkerMoves DEF ReconnectFails
  <2>. QED  BY <2>1, <2>2, <1>7 DEF Connecting
<1>8. CASE WorkerSleeps
  BY <1>8, WorkerMoves DEF WorkerSleeps
<1>9. CASE SetSockOpt
  <2>1. /\ wkpc = "sockopt" /\ wkpc' = "while" /\ CountSince(0)
        /\ \/ limited' = sock /\ optFailed' = FALSE
           \/ optFailed' = TRUE /\ limited' = limited
        /\ UNCHANGED <<netVars, peer, sock, kernel, lib, queued, mqRun, pubpc>>
    BY <1>9 DEF SetSockOpt
  <2>2. sock' \in BOOLEAN /\ limited' \in BOOLEAN /\ optFailed' \in BOOLEAN
    BY <2>1, Quantities, Zenon DEF IInvMqtt
  <2>3. kernel' \in 0 .. SysBuf /\ peer' \in {"none", "alive", "silent", "gone"}
    BY <2>1 DEF IInvMqtt, TypeOKMqtt
  <2>4. sock' => limited' \/ optFailed'
    BY <2>1
  <2>. QED  BY <2>1, <2>2, <2>3, <2>4, SocketStep
<1>. QED
  BY <1>1, <1>2, <1>3, <1>4, <1>5, <1>6, <1>7, <1>8, <1>9 DEF MqttWorker

-----------------------------------------------------------------------------
(* Every step of MqttClient, in a composition that does not destroy the    *)
(* client while it publishes.                                              *)
LEMMA MqttInvariance ==
  ASSUME IInvMqtt,
         \/ MqttCreate \/ MqttCreateThrows \/ MqttStop \/ (MqttDestroy /\ pubpc = "idle")
         \/ Publish \/ Send \/ MqttWorker \/ MqttEnvironment \/ UNCHANGED mqttVars
  PROVE  IInvMqtt'
<1>1. CASE UNCHANGED mqttVars
  BY <1>1 DEF mqttVars, netVars, sockVars, libVars, IInvMqtt, TypeOKMqtt, SendBufferLimited,
     LifeTime, RoomFound, BacklogStops, Writable
<1>. QED
  BY <1>1, CreateStep, CreateThrowsStep, StopStep, DestroyStep, PublishStep, SendStep,
     WorkerStep, EnvironmentStep

\* What the invariant says of a client that is gone.
LEMMA GoneMeansUnused == IInvMqtt => ClientOutlivesUse
BY DEF IInvMqtt, LifeTime, ClientOutlivesUse


-----------------------------------------------------------------------------
(* main() *)

(* How main() uses its components. *)
MainInv ==
  /\ mpc \in {"mqtt", "usrp", "rates", "sync", "tune", "lo", "running", "stop",
              "join", "exited"}
  /\ toTune \subseteq {"rx", "tx"} /\ loLocks \in BOOLEAN
  /\ mpc \in {"mqtt", "usrp", "rates"} => spc = "idle"
  /\ pubpc = "send" => mpc = "running"

IInv == IInvSync /\ IInvMqtt /\ MainInv

(* The steps of main(), the clock, the worker and the network, as the      *)
(* components see them.                                                    *)
SyncPart == SyncStep \/ Tick \/ (spc = "idle" /\ Jump) \/ UNCHANGED syncVars
MqttPart ==
  \/ MqttCreate \/ MqttCreateThrows \/ MqttStop \/ (MqttDestroy /\ pubpc = "idle")
  \/ Publish \/ Send \/ MqttWorker \/ MqttEnvironment \/ UNCHANGED mqttVars

\* publish() is called by PublishTopic alone.
LEMMA OnlyMainPublishes ==
  ASSUME MqttPart, pubpc' = "send" PROVE pubpc = "send" \/ Publish
<1>1. CASE MqttCreate \/ MqttCreateThrows \/ MqttStop \/ MqttDestroy \/ Send
  BY <1>1 DEF MqttCreate, MqttCreateThrows, MqttStop, MqttDestroy, Send
<1>2. CASE MqttWorker
  BY <1>2 DEF MqttWorker, WorkerWhile, LoopWrites, LoopReturns, LoopFails, WorkerRetry,
     ReconnectBegins, Connecting, ReconnectSucceeds, ReconnectFails, WorkerSleeps, SetSockOpt
<1>3. CASE MqttEnvironment
  BY <1>3 DEF MqttEnvironment, BrokerDown, BrokerUp, Break, Deliver, KeepaliveExpires,
     LoopErrs, WorkerThrows
<1>4. CASE UNCHANGED mqttVars
  BY <1>4 DEF mqttVars
<1>. QED  BY <1>1, <1>2, <1>3, <1>4 DEF MqttPart

-----------------------------------------------------------------------------
(* The inductive invariant *)

LEMMA Begins == Init => IInv
<1> SUFFICES ASSUME Init PROVE IInv
  OBVIOUS
<1>1. IInvSync /\ IInvMqtt
  BY SyncBegins, MqttBegins DEF Init
<1>2. MainInv
  BY DEF Init, InitSync, InitMqtt, MainInv
<1>. QED  BY <1>1, <1>2 DEF IInv

\* The steps of main() before the loop.
LEMMA StartupStep ==
  ASSUME IInv,
         \/ StartClient \/ MakeUsrp \/ SetRates \/ Synchronise \/ Synchronised
         \/ Tune \/ LoLocked \/ SetFrontends \/ SetupThrows
  PROVE  SyncPart /\ MqttPart /\ MainInv'
<1>0. MainInv
  BY DEF IInv
<1>1. CASE StartClient
  <2>1. /\ mpc = "mqtt" /\ mpc' \in {"usrp", "stop"} /\ UNCHANGED <<syncVars, tuning>>
        /\ MqttCreate \/ MqttCreateThrows \/ UNCHANGED mqttVars
    BY <1>1 DEF StartClient, Goes
  <2>2. pubpc' # "send"
    BY <2>1, <1>0, OnlyMainPublishes DEF MainInv, MqttPart, Publish, MqttCreate, MqttCreateThrows,
       mqttVars
  <2>3. MainInv'
    BY <2>1, <2>2, <1>0 DEF MainInv, syncVars, tuning
  <2>. QED  BY <2>1, <2>3 DEF SyncPart, MqttPart, syncVars
<1>2. CASE MakeUsrp
  BY <1>2, <1>0 DEF MakeUsrp, Goes, SyncPart, MqttPart, MainInv, syncVars, mqttVars, tuning
<1>3. CASE SetRates
  BY <1>3, <1>0 DEF SetRates, Goes, SyncPart, MqttPart, MainInv, mqttVars, tuning
<1>4. CASE Synchronise
  BY <1>4, <1>0 DEF Synchronise, SyncPart, MqttPart, MainInv, mqttVars, tuning
<1>5. CASE Synchronised
  BY <1>5, <1>0 DEF Synchronised, Goes, SyncPart, MqttPart, MainInv, syncVars, mqttVars
<1>6. CASE Tune
  BY <1>6, <1>0 DEF Tune, Goes, SyncPart, MqttPart, MainInv, syncVars, mqttVars
<1>7. CASE LoLocked
  BY <1>7, <1>0 DEF LoLocked, Goes, SyncPart, MqttPart, MainInv, syncVars, mqttVars
<1>8. CASE SetFrontends
  BY <1>8, <1>0 DEF SetFrontends, Goes, SyncPart, MqttPart, MainInv, syncVars, mqttVars, tuning
<1>9. CASE SetupThrows
  BY <1>9, <1>0 DEF SetupThrows, SyncPart, MqttPart, MainInv, syncVars, mqttVars, tuning
<1>. QED  BY <1>1, <1>2, <1>3, <1>4, <1>5, <1>6, <1>7, <1>8, <1>9

\* The loop, the end, and what happens beside main().
LEMMA RunningStep ==
  ASSUME IInv,
         \/ PublishTopic \/ FinishTopic \/ ClientStopped \/ Terminate \/ Stop \/ Join
         \/ Clock \/ Worker \/ Network
  PROVE  SyncPart /\ MqttPart /\ MainInv'
<1>0. MainInv
  BY DEF IInv
<1>1. CASE PublishTopic
  BY <1>1, <1>0 DEF PublishTopic, SyncPart, MqttPart, MainInv, syncVars, tuning
<1>2. CASE FinishTopic
  BY <1>2, <1>0 DEF FinishTopic, Send, SyncPart, MqttPart, MainInv, syncVars, tuning
<1>3. CASE ClientStopped \/ Terminate
  BY <1>3, <1>0
     DEF ClientStopped, Terminate, Goes, SyncPart, MqttPart, MainInv, syncVars, mqttVars, tuning
<1>4. CASE Stop
  <2>1. /\ mpc = "stop" /\ mpc' \in {"join", "exited"} /\ UNCHANGED <<syncVars, tuning>>
        /\ MqttStop \/ UNCHANGED mqttVars
    BY <1>4 DEF Stop, Goes
  <2>2. pubpc' # "send"
    BY <2>1, <1>0 DEF MainInv, MqttStop, mqttVars
  <2>. QED  BY <2>1, <2>2, <1>0 DEF SyncPart, MqttPart, MainInv, syncVars, tuning
<1>5. CASE Join
  <2>1. pubpc = "idle" /\ MqttDestroy /\ mpc' = "exited" /\ UNCHANGED <<syncVars, tuning>>
    BY <1>5, <1>0 DEF Join, Goes, MainInv, IInv, IInvMqtt, TypeOKMqtt
  <2>. QED
    BY <2>1, <1>0 DEF MqttDestroy, SyncPart, MqttPart, MainInv, syncVars, tuning
<1>6. CASE Clock
  BY <1>6, <1>0 DEF Clock, Tick, SyncPart, MqttPart, MainInv, mqttVars, tuning
<1>7. CASE Worker \/ Network
  <2>1. /\ MqttWorker \/ MqttEnvironment
        /\ UNCHANGED <<syncVars, mpc, tuning>>
    BY <1>7 DEF Worker, Network
  <2>2. pubpc' = "send" => pubpc = "send"
    BY <2>1 DEF MqttWorker, WorkerWhile, LoopWrites, LoopReturns, LoopFails, WorkerRetry,
     ReconnectBegins, Connecting, ReconnectSucceeds, ReconnectFails, WorkerSleeps, SetSockOpt,
     MqttEnvironment, BrokerDown, BrokerUp, Break, Deliver, KeepaliveExpires,
     LoopErrs, WorkerThrows
  <2>. QED  BY <2>1, <2>2, <1>0 DEF SyncPart, MqttPart, MainInv, syncVars, tuning
<1>. QED  BY <1>1, <1>2, <1>3, <1>4, <1>5, <1>6, <1>7

(* What main() relies on, with what the components rely on, is preserved   *)
(* by every step of the two threads, the clock and the network.            *)
THEOREM Invariance == Spec => []IInv
<1>1. Init => IInv
  BY Begins
<1>2. IInv /\ [Next]_vars => IInv'
  <2> SUFFICES ASSUME IInv, [Next]_vars PROVE IInv'
    OBVIOUS
  <2>1. SyncPart /\ MqttPart /\ MainInv'
    <3>1. CASE Next
      BY <3>1, StartupStep, RunningStep DEF Next, MainStep
    <3>2. CASE UNCHANGED vars
      BY <3>2 DEF vars, SyncPart, MqttPart, IInv, MainInv, syncVars, mqttVars, tuning
    <3>. QED  BY <3>1, <3>2
  <2>2. IInvSync'
    BY <2>1, SyncInvariance DEF IInv, SyncPart
  <2>3. IInvMqtt'
    BY <2>1, MqttInvariance DEF IInv, MqttPart
  <2>. QED  BY <2>1, <2>2, <2>3 DEF IInv
<1>. QED  BY <1>1, <1>2, PTL DEF Spec

-----------------------------------------------------------------------------
(* Every variable stays within its type. *)
THEOREM Types == Spec => []TypeOK
<1>1. IInv => TypeOK
  BY DEF IInv, IInvSync, IInvMqtt, MainInv, TypeOK
<1>. QED  BY <1>1, Invariance, PTL

(* sync_1pps() and sync_gpsdo() leave the USRP with the true time, however *)
(* far off it was, whenever the edges come and however the thread is       *)
(* delayed within half a second; sync_host() does so up to the error of    *)
(* the host's clock and a delay.                                           *)
THEOREM TrueTime == Spec => []UsrpTimeIsTrue
<1>1. IInv => UsrpTimeIsTrue
  BY DEF IInv, IInvSync
<1>. QED  BY <1>1, Invariance, PTL

(* wait_pps() times out only without a PPS signal, unless the USRP showed  *)
(* the same time at two edges in a row.                                    *)
THEOREM HonestTimeout == Spec => []TimeoutMeansNoPps
<1>1. IInv => TimeoutMeansNoPps
  BY DEF IInv, IInvSync
<1>. QED  BY <1>1, Invariance, PTL

(* publish() adds one message at most to the backlog while the socket's    *)
(* send buffer is full.                                                    *)
THEOREM NoBacklog == Spec => []BacklogStops
<1>1. IInv => BacklogStops
  BY DEF IInv, IInvMqtt
<1>. QED  BY <1>1, Invariance, PTL

(* The network loop works with limited send buffers, after any number of   *)
(* faults and reconnections, but for a socket on which setsockopt() failed *)
THEOREM Limited == Spec => []SendBufferLimited
<1>1. IInv => SendBufferLimited
  BY DEF IInv, IInvMqtt
<1>. QED  BY <1>1, Invariance, PTL

(* The worker and publish() have ended when the library is cleaned up,     *)
(* whatever ends main().                                                   *)
THEOREM CleanUpIsLast == Spec => []ClientOutlivesUse
<1>1. IInv => ClientOutlivesUse
  BY GoneMeansUnused DEF IInv
<1>. QED  BY <1>1, Invariance, PTL

=============================================================================
