--------------------------- MODULE AsyncMqttProofs ---------------------------
(***************************************************************************)
(* Theorems about the utilities' MQTT client and its users, for any number *)
(* of faults, messages, delays and configuration keys: what the client     *)
(* takes for the state of its connection is that of the library, and its   *)
(* retries are delayed; the FS740 logger publishes no shifted answers; the *)
(* relay uses only connections it holds; and the rover streams positions   *)
(* only when it is configured.                                             *)
(***************************************************************************)
EXTENDS Utilities, FiniteSetTheorems, TLAPS

(* One task at a time has reconnect() run in a thread, and the worker      *)
(* waits for its next attempt without a socket.                            *)
OneAttempt ==
  /\ user = "enter" => sock = "none" /\ exec = "idle" /\ worker = "none"
  /\ user = "opening" => worker = "none"
  /\ worker \in {"check", "backoff"} => exec = "idle"
  /\ worker = "backoff" => sock = "none"

FailuresCount == failed => errors > 0
QueueFits == queued <= sent

IInv == TypeOK /\ SessionIsTruthful /\ OneAttempt /\ FailuresCount /\ QueueFits

-----------------------------------------------------------------------------
(* Parts of steps that several actions share *)

LEMMA Counts ==
  ASSUME TypeOK
  PROVE  /\ errors \in 0 .. NumDelays /\ NumDelays \in Nat /\ NumDelays >= 1
         /\ queued \in 0 .. MaxMessages /\ sent \in 0 .. MaxMessages
         /\ faults \in 0 .. MaxFaults /\ MaxMessages \in Nat /\ MaxFaults \in Nat
BY NumDelaysAssumption, MaxAssumption DEF TypeOK

LEMMA CountErrorTypes ==
  ASSUME TypeOK, CountError
  PROVE  failed' = TRUE /\ errors' \in 0 .. NumDelays /\ errors' > 0
BY Counts DEF CountError

LEMMA StopIterationTypes ==
  ASSUME TypeOK, QueueFits, StopIteration
  PROVE  /\ open' \in BOOLEAN /\ getCancel' \in BOOLEAN /\ iter' = iter
         /\ queued' \in 0 .. MaxMessages /\ queued' <= sent
<1>1. open' \in BOOLEAN /\ getCancel' \in BOOLEAN /\ iter' = iter
  BY Zenon DEF StopIteration
<1>2. queued' = 0
  BY DEF StopIteration
<1>. QED  BY <1>1, <1>2, Counts

LEMMA Booleans ==
  TypeOK => /\ asyncConnect \in BOOLEAN /\ up \in BOOLEAN /\ alive \in BOOLEAN /\ connected \in BOOLEAN /\ failed \in BOOLEAN
            /\ cancelled \in BOOLEAN /\ open \in BOOLEAN /\ getCancel \in BOOLEAN
BY DEF TypeOK

\* on_disconnect() together with on_socket_close().
LEMMA DisconnectTypes ==
  ASSUME TypeOK, QueueFits, FailuresCount, SocketClosed, OnDisconnect
  PROVE  /\ connected' = FALSE /\ sock' = "none" /\ session' = "none" /\ alive' = FALSE
         /\ UNCHANGED <<up, faults, sent, exec, iter>>
         /\ failed' \in BOOLEAN /\ errors' \in 0 .. NumDelays /\ FailuresCount'
         /\ cancelled' \in BOOLEAN /\ waiter' \in {"none", "pending", "ok", "failed"}
         /\ open' \in BOOLEAN /\ getCancel' \in BOOLEAN
         /\ queued' \in 0 .. MaxMessages /\ queued' <= sent
<1>1. connected' = FALSE /\ sock' = "none" /\ session' = "none" /\ alive' = FALSE
      /\ UNCHANGED <<up, faults, sent, exec>>
  BY DEF SocketClosed, OnDisconnect
<1>2. CASE session = "disconnecting"
  <2>1. /\ cancelled' = TRUE /\ StopIteration
        /\ UNCHANGED <<errors, failed, waiter>>
    BY <1>2 DEF OnDisconnect
  <2>2. FailuresCount'
    BY <2>1 DEF FailuresCount
  <2>. QED  BY <1>1, <2>1, <2>2, StopIterationTypes, Counts, Booleans DEF TypeOK
<1>3. CASE session # "disconnecting"
  <2>1. /\ CountError /\ waiter' \in {waiter, "failed"}
        /\ UNCHANGED <<cancelled, iterVars>>
    BY <1>3 DEF OnDisconnect
  <2>2. FailuresCount'
    BY <2>1, CountErrorTypes DEF FailuresCount
  <2>3. /\ UNCHANGED <<open, queued, iter, getCancel, cancelled>>
    BY <2>1 DEF iterVars
  <2>. QED
    BY <1>1, <2>1, <2>2, <2>3, CountErrorTypes, Counts, Booleans DEF TypeOK, QueueFits
<1>. QED  BY <1>2, <1>3

-----------------------------------------------------------------------------
(* The broker, the network, and paho's callbacks *)

LEMMA BrokerStep == ASSUME IInv, BrokerDown \/ BrokerUp \/ Break, UNCHANGED asyncConnect PROVE IInv'
<1>1. /\ up' \in BOOLEAN /\ alive' \in BOOLEAN /\ faults' \in 0 .. MaxFaults
      /\ UNCHANGED <<sent, pahoVars, stateVars, taskVars, iterVars>>
  <2>1. up' \in {up, TRUE, FALSE} /\ alive' \in {alive, FALSE}
        /\ (faults' = faults \/ (faults < MaxFaults /\ faults' = faults + 1))
        /\ UNCHANGED <<sent, pahoVars, stateVars, taskVars, iterVars>>
    BY DEF BrokerDown, BrokerUp, Break
  <2>2. faults' \in 0 .. MaxFaults
    BY <2>1, Counts DEF IInv
  <2>. QED  BY <2>1, <2>2, Booleans DEF IInv
<1>. QED
  BY <1>1 DEF IInv, TypeOK, SessionIsTruthful, OneAttempt, FailuresCount, QueueFits,
     pahoVars, stateVars, taskVars, iterVars

LEMMA OnConnectStep == ASSUME IInv, OnConnect, UNCHANGED asyncConnect PROVE IInv'
<1>1. /\ sock = "open" /\ session' = "up" /\ connected' = TRUE /\ errors' = 0 /\ failed' = FALSE
      /\ waiter' \in {waiter, "ok"}
      /\ UNCHANGED <<brokerVars, sock, exec, worker, cancelled, user, iterVars>>
  BY DEF OnConnect
<1>2. TypeOK'
  <2>1. errors' \in 0 .. NumDelays
    BY <1>1, Counts DEF IInv
  <2>2. {up', alive', connected', failed', cancelled', open', getCancel'} \subseteq BOOLEAN
    BY <1>1, Booleans, Zenon DEF IInv, brokerVars, iterVars
  <2>. QED  BY <1>1, <2>1, <2>2 DEF IInv, TypeOK, brokerVars, iterVars
<1>. QED
  BY <1>1, <1>2 DEF IInv, SessionIsTruthful, OneAttempt, FailuresCount, QueueFits,
     brokerVars, iterVars

\* The socket is closed, by paho or by the worker.
LEMMA ClosedStep ==
  ASSUME IInv, SocketClosed, OnDisconnect, user' = user, sock = "open", UNCHANGED asyncConnect,
         worker' = worker \/ (worker = "check" /\ worker' \in {"backoff", "done"})
  PROVE  IInv'
<1>0. TypeOK /\ QueueFits /\ FailuresCount
  BY DEF IInv
<1>1. /\ connected' = FALSE /\ sock' = "none" /\ session' = "none" /\ alive' = FALSE
      /\ UNCHANGED <<up, faults, sent, exec, iter>>
      /\ failed' \in BOOLEAN /\ errors' \in 0 .. NumDelays /\ FailuresCount'
      /\ cancelled' \in BOOLEAN /\ waiter' \in {"none", "pending", "ok", "failed"}
      /\ open' \in BOOLEAN /\ getCancel' \in BOOLEAN
      /\ queued' \in 0 .. MaxMessages /\ queued' <= sent
  BY <1>0, DisconnectTypes
<1>2. TypeOK'
  BY <1>0, <1>1 DEF TypeOK
<1>3. SessionIsTruthful' /\ OneAttempt'
  BY <1>1 DEF IInv, SessionIsTruthful, OneAttempt
<1>. QED  BY <1>1, <1>2, <1>3 DEF IInv, QueueFits

LEMMA MessageStep == ASSUME IInv, OnMessage, UNCHANGED asyncConnect PROVE IInv'
<1>1. /\ sent < MaxMessages /\ sent' = sent + 1 /\ queued' \in {queued, queued + 1}
      /\ UNCHANGED <<up, alive, faults, pahoVars, stateVars, taskVars, open, iter, getCancel>>
  BY DEF OnMessage
<1>2. sent' \in 0 .. MaxMessages /\ queued' \in 0 .. MaxMessages /\ queued' <= sent'
  BY <1>1, Counts DEF IInv, QueueFits
<1>. QED
  BY <1>1, <1>2 DEF IInv, TypeOK, SessionIsTruthful, OneAttempt, FailuresCount, QueueFits,
     pahoVars, stateVars, taskVars

LEMMA ReconnectStep == ASSUME IInv, Reconnect, UNCHANGED asyncConnect PROVE IInv'
<1>1. CASE ReconnectOpens
  <2>1. /\ exec = "connecting" /\ sock' = "open" /\ session' = "connect" /\ alive' = TRUE
        /\ exec' = "opened" /\ UNCHANGED <<up, faults, sent, stateVars, taskVars, iterVars>>
    BY <1>1 DEF ReconnectOpens
  <2>2. TypeOK'
    BY <2>1 DEF IInv, TypeOK, stateVars, taskVars, iterVars
  <2>. QED
    BY <2>1, <2>2 DEF IInv, SessionIsTruthful, OneAttempt, FailuresCount, QueueFits,
       stateVars, taskVars, iterVars
<1>2. CASE ReconnectFails
  <2>1. /\ exec = "connecting" /\ exec' = "refused"
        /\ UNCHANGED <<brokerVars, sock, session, stateVars, taskVars, iterVars>>
    BY <1>2 DEF ReconnectFails
  <2>2. TypeOK'
    BY <2>1 DEF IInv, TypeOK, brokerVars, stateVars, taskVars, iterVars
  <2>. QED
    BY <2>1, <2>2 DEF IInv, SessionIsTruthful, OneAttempt, FailuresCount, QueueFits,
       brokerVars, stateVars, taskVars, iterVars
<1>. QED  BY <1>1, <1>2 DEF Reconnect

-----------------------------------------------------------------------------
(* The worker *)

LEMMA WorkerSteps == ASSUME IInv, WorkerStep, UNCHANGED asyncConnect PROVE IInv'
<1>1. CASE WorkerCheck
  <2>1. CASE sock = "open"
    <3>1. /\ SocketClosed /\ OnDisconnect /\ user' = user
          /\ worker = "check" /\ worker' \in {"backoff", "done"}
      BY <1>1, <2>1 DEF WorkerCheck
    <3>. QED  BY <2>1, <3>1, ClosedStep
  <2>2. CASE sock # "open"
    <3>1. /\ sock = "none" /\ worker = "check" /\ worker' = "backoff" /\ user' = user
          /\ UNCHANGED <<brokerVars, pahoVars, stateVars, cancelled, waiter, iterVars>>
      BY <1>1, <2>2 DEF WorkerCheck
    <3>2. TypeOK'
      BY <3>1 DEF IInv, TypeOK, brokerVars, pahoVars, stateVars, iterVars
    <3>. QED
      BY <3>1, <3>2 DEF IInv, SessionIsTruthful, OneAttempt, FailuresCount, QueueFits,
         brokerVars, pahoVars, stateVars, iterVars
  <2>. QED  BY <2>1, <2>2
<1>2. CASE WorkerRetry
  <2>1. /\ worker = "backoff" /\ worker' = "reconnect" /\ exec' = "connecting"
        /\ sock' = "none" /\ session' = "none" /\ alive' = FALSE
        /\ UNCHANGED <<up, faults, sent, stateVars, cancelled, user, waiter, iterVars>>
    BY <1>2 DEF WorkerRetry
  <2>2. TypeOK'
    BY <2>1 DEF IInv, TypeOK, stateVars, iterVars
  <2>. QED
    BY <2>1, <2>2 DEF IInv, SessionIsTruthful, OneAttempt, FailuresCount, QueueFits,
       stateVars, iterVars
<1>3. CASE WorkerResumed
  <2>1. /\ worker = "reconnect" /\ exec \in {"opened", "refused"}
        /\ worker' = "check" /\ exec' = "idle"
        /\ CountError \/ UNCHANGED <<errors, failed>>
        /\ UNCHANGED <<brokerVars, sock, session, connected, cancelled, user, waiter, iterVars>>
    BY <1>3 DEF WorkerResumed
  <2>2. failed' \in BOOLEAN /\ errors' \in 0 .. NumDelays /\ FailuresCount'
    <3>1. CASE CountError
      BY <3>1, CountErrorTypes DEF IInv, FailuresCount
    <3>2. CASE UNCHANGED <<errors, failed>>
      BY <3>2, Counts, Booleans DEF IInv, FailuresCount
    <3>. QED  BY <2>1, <3>1, <3>2
  <2>3. TypeOK'
    BY <2>1, <2>2 DEF IInv, TypeOK, brokerVars, iterVars
  <2>. QED
    BY <2>1, <2>2, <2>3 DEF IInv, SessionIsTruthful, OneAttempt, QueueFits, brokerVars, iterVars
<1>4. CASE WorkerCancelled
  <2>1. /\ worker \notin {"none", "done"} /\ worker' = "done"
        /\ UNCHANGED <<brokerVars, pahoVars, stateVars, cancelled, user, waiter, iterVars>>
    BY <1>4 DEF WorkerCancelled
  <2>2. TypeOK'
    BY <2>1 DEF IInv, TypeOK, brokerVars, pahoVars, stateVars, iterVars
  <2>. QED
    BY <2>1, <2>2 DEF IInv, SessionIsTruthful, OneAttempt, FailuresCount, QueueFits,
       brokerVars, pahoVars, stateVars, iterVars
<1>. QED  BY <1>1, <1>2, <1>3, <1>4 DEF WorkerStep

-----------------------------------------------------------------------------
(* The tasks that use the client *)

LEMMA EnterStep ==
  ASSUME IInv, EnterAsync \/ EnterAgain \/ EnterSync \/ Restarted, UNCHANGED asyncConnect
  PROVE  IInv'
<1>1. CASE EnterAsync \/ EnterSync
  <2>1. /\ user = "enter" /\ open' = TRUE
        /\ \/ worker' = "check" /\ user' = "body" /\ UNCHANGED <<waiter, exec>>
           \/ waiter' = "pending" /\ exec' = "connecting" /\ user' = "opening" /\ UNCHANGED worker
        /\ UNCHANGED <<brokerVars, sock, session, stateVars, cancelled, queued, iter, getCancel>>
    BY <1>1 DEF EnterAsync, EnterSync, pahoVars
  <2>2. TypeOK'
    BY <2>1 DEF IInv, TypeOK, brokerVars, stateVars
  <2>. QED
    BY <2>1, <2>2 DEF IInv, SessionIsTruthful, OneAttempt, FailuresCount, QueueFits,
       brokerVars, stateVars
<1>2. CASE EnterAgain
  <2>1. /\ exec # "connecting" /\ user' = "body" /\ worker' = "check" /\ cancelled' = FALSE
        /\ open' = TRUE /\ queued' = 0 /\ iter' = "idle" /\ getCancel' = FALSE
        /\ exec' = "idle" /\ session' = IF session = "up" THEN "unpinged" ELSE session
        /\ UNCHANGED <<brokerVars, sock, stateVars, waiter>>
    BY <1>2 DEF EnterAgain
  <2>2. {asyncConnect', up', alive', connected', failed', cancelled', open', getCancel'}
          \subseteq BOOLEAN
    BY <2>1, Booleans, Zenon DEF IInv, brokerVars, stateVars
  <2>3. queued' \in 0 .. MaxMessages /\ queued' <= sent /\ sent' = sent
    BY <2>1, Counts DEF IInv, brokerVars
  <2>4. TypeOK'
    BY <2>1, <2>2, <2>3 DEF IInv, TypeOK, brokerVars, stateVars
  <2>. QED
    BY <2>1, <2>3, <2>4 DEF IInv, SessionIsTruthful, OneAttempt, FailuresCount, QueueFits,
       brokerVars, stateVars
<1>3. CASE Restarted
  <2>1. /\ sock' = "none" /\ session' = "none" /\ exec' = "idle" /\ alive' = FALSE
        /\ connected' = FALSE /\ errors' = 0 /\ failed' = FALSE
        /\ worker' = "none" /\ cancelled' = FALSE /\ user' = "enter" /\ waiter' = "none"
        /\ open' = FALSE /\ queued' = 0 /\ iter' = "idle" /\ getCancel' = FALSE
        /\ UNCHANGED <<up, faults, sent>>
    BY <1>3 DEF Restarted
  <2>2. {asyncConnect', up', alive', connected', failed', cancelled', open', getCancel'}
          \subseteq BOOLEAN
    BY <2>1, Booleans, Zenon DEF IInv
  <2>3. queued' \in 0 .. MaxMessages /\ queued' <= sent' /\ errors' \in 0 .. NumDelays
    BY <2>1, Counts DEF IInv
  <2>4. TypeOK'
    BY <2>1, <2>2, <2>3 DEF IInv, TypeOK
  <2>. QED
    BY <2>1, <2>3, <2>4 DEF IInv, SessionIsTruthful, OneAttempt, FailuresCount, QueueFits
<1>. QED  BY <1>1, <1>2, <1>3

LEMMA UserSteps == ASSUME IInv, Leave \/ UserStep, UNCHANGED asyncConnect PROVE IInv'
<1>1. CASE Opened
  <2>1. /\ user = "opening" /\ exec' = "idle" /\ user' \in {"failed", "handshake"}
        /\ worker' \in {worker, "check"}
        /\ UNCHANGED <<brokerVars, sock, session, stateVars, cancelled, waiter, iterVars>>
    BY <1>1 DEF Opened
  <2>2. TypeOK'
    BY <2>1 DEF IInv, TypeOK, brokerVars, stateVars, iterVars
  <2>. QED
    BY <2>1, <2>2 DEF IInv, SessionIsTruthful, OneAttempt, FailuresCount, QueueFits,
       brokerVars, stateVars, iterVars
<1>2. CASE Leave \/ Entered \/ Left \/ Close
  <2>1. /\ user \notin {"enter", "opening"} /\ user' \in {"closing", "body", "failed", "out", "joining"}
        /\ waiter' \in {waiter, "none"}
        /\ UNCHANGED <<brokerVars, pahoVars, stateVars, worker>>
    BY <1>2 DEF Leave, Entered, Left, Close
  <2>2. /\ cancelled' \in BOOLEAN /\ open' \in BOOLEAN /\ getCancel' \in BOOLEAN /\ iter' = iter
        /\ queued' \in 0 .. MaxMessages /\ queued' <= sent
    <3>1. CASE StopIteration
      <4>1. cancelled' \in BOOLEAN
        BY <1>2, Booleans DEF Leave, Entered, Left, Close, IInv
      <4>. QED  BY <3>1, <4>1, StopIterationTypes DEF IInv
    <3>2. CASE UNCHANGED <<cancelled, iterVars>>
      BY <3>2, Booleans, Counts DEF IInv, QueueFits, iterVars
    <3>. QED  BY <3>1, <3>2, <1>2 DEF Leave, Entered, Left, Close
  <2>3. TypeOK'
    BY <2>1, <2>2 DEF IInv, TypeOK, brokerVars, pahoVars, stateVars
  <2>. QED
    BY <2>1, <2>2, <2>3 DEF IInv, SessionIsTruthful, OneAttempt, FailuresCount, QueueFits,
       brokerVars, pahoVars, stateVars
<1>3. CASE ClientDisconnect
  <2>1. /\ user = "closing" /\ user' = "closed"
        /\ session' = IF sock = "open" THEN "disconnecting" ELSE session
        /\ UNCHANGED <<brokerVars, sock, exec, stateVars, worker, cancelled, waiter, iterVars>>
    BY <1>3 DEF ClientDisconnect
  <2>2. TypeOK'
    BY <2>1 DEF IInv, TypeOK, brokerVars, stateVars, iterVars
  <2>. QED
    BY <2>1, <2>2 DEF IInv, SessionIsTruthful, OneAttempt, FailuresCount, QueueFits,
       brokerVars, stateVars, iterVars
<1>. QED  BY <1>1, <1>2, <1>3 DEF UserStep

LEMMA IterSteps == ASSUME IInv, Iterate \/ IterStep, UNCHANGED asyncConnect PROVE IInv'
<1>1. /\ iter' \in {"idle", "waiting", "ended"}
      /\ queued' = queued \/ (queued > 0 /\ queued' = queued - 1)
      /\ UNCHANGED <<brokerVars, pahoVars, stateVars, taskVars, open, getCancel>>
  BY DEF Iterate, IterStep, Yield, IterationStops
<1>2. queued' \in 0 .. MaxMessages /\ queued' <= sent
  BY <1>1, Counts DEF IInv, QueueFits
<1>. QED
  BY <1>1, <1>2 DEF IInv, TypeOK, SessionIsTruthful, OneAttempt, FailuresCount, QueueFits,
     brokerVars, pahoVars, stateVars, taskVars

-----------------------------------------------------------------------------
\* A step of the client, whatever its program is.
LEMMA ClientStep ==
  ASSUME IInv, Background \/ Program, UNCHANGED asyncConnect
  PROVE  IInv'
<1>1. CASE Lost \/ Disconnected
  BY <1>1, ClosedStep DEF Lost, Disconnected
<1>. QED
  BY <1>1, BrokerStep, OnConnectStep, MessageStep, ReconnectStep, WorkerSteps, EnterStep,
     UserSteps, IterSteps DEF Background, Program

LEMMA ClientStutter ==
  ASSUME IInv, UNCHANGED vars
  PROVE  IInv'
BY DEF vars, clientVars, brokerVars, pahoVars, stateVars, taskVars, iterVars, IInv, TypeOK,
   SessionIsTruthful, OneAttempt, FailuresCount, QueueFits

LEMMA ClientInit == Init => IInv
<1> SUFFICES ASSUME Init PROVE IInv
  OBVIOUS
<1>1. {asyncConnect, up, alive, connected, failed, cancelled, open, getCancel} \subseteq BOOLEAN
  BY Zenon DEF Init
<1>2. /\ faults \in 0 .. MaxFaults /\ sent \in 0 .. MaxMessages /\ errors \in 0 .. NumDelays
      /\ queued \in 0 .. MaxMessages
  BY NumDelaysAssumption, MaxAssumption DEF Init
<1>3. TypeOK
  BY <1>1, <1>2 DEF Init, TypeOK
<1>. QED
  BY <1>3 DEF Init, IInv, SessionIsTruthful, OneAttempt, FailuresCount, QueueFits

(* Whatever the broker, the network, the worker and the user do, what the  *)
(* client knows of its connection stays true.                              *)
THEOREM Invariance == Spec => []IInv
<1>1. IInv /\ [Next]_vars => IInv'
  BY ClientStep, ClientStutter DEF Next
<1>. QED  BY <1>1, ClientInit, PTL DEF Spec

(* Every variable of the client stays within its type. *)
THEOREM Types == Spec => []TypeOK
<1>1. IInv => TypeOK
  BY DEF IInv
<1>. QED  BY <1>1, Invariance, PTL

(* What publish() goes by agrees with the library, at every moment.        *)
THEOREM Agreement == Spec => []SessionIsTruthful
<1>1. IInv => SessionIsTruthful
  BY DEF IInv
<1>. QED  BY <1>1, Invariance, PTL

(* No attempt follows a failure without a delay.                           *)
THEOREM Delays == Spec => []RetriesAreDelayed
<1>1. IInv => RetriesAreDelayed
  BY DEF IInv, FailuresCount, RetriesAreDelayed
<1>. QED  BY <1>1, Invariance, PTL

-----------------------------------------------------------------------------
(* The programs *)

Others == <<asyncConnect, up, alive, sent, pahoVars, stateVars, worker, cancelled, waiter,
            iterVars>>

\* A fault of something else than the broker, which may stop the program.
OtherFault ==
  /\ faults < MaxFaults /\ faults' = faults + 1
  /\ user' = user \/ (user = "body" /\ user' = "closing")
  /\ UNCHANGED Others

LEMMA OtherFaultStep ==
  ASSUME IInv, OtherFault
  PROVE  IInv'
<1>1. faults' \in 0 .. MaxFaults
  BY Counts DEF IInv, OtherFault
<1>. QED
  BY <1>1 DEF OtherFault, Others, pahoVars, stateVars, iterVars, IInv, TypeOK,
     SessionIsTruthful, OneAttempt, FailuresCount, QueueFits

\* To the client, what a program does is one of its steps, or nothing.
LEMMA FsClientStep ==
  ASSUME FsNext, UNCHANGED asyncConnect
  PROVE  Background \/ Program \/ UNCHANGED vars \/ OtherFault
<1>1. CASE DevFails
  BY <1>1 DEF DevFails, OtherFault, Others, taskVars
<1>2. CASE FsEnter
  BY <1>2 DEF FsEnter, Program
<1>3. CASE Malformed \/ TimedOut
  BY <1>3 DEF Malformed, TimedOut, FsRaise, Program
<1>4. CASE FsSetup
  BY <1>4 DEF FsSetup, FsRaise, Program, vars
<1>5. CASE DevRecovers \/ Answered \/ TintTimedOut \/ FsPublish \/ FsLeft
  BY <1>5 DEF DevRecovers, Answered, TintTimedOut, FsPublish, FsLeft, vars
<1>. QED  BY <1>1, <1>2, <1>3, <1>4, <1>5 DEF FsNext, FsStep, FsAsk

LEMMA NtClientStep ==
  ASSUME NtNext, UNCHANGED asyncConnect
  PROVE  Background \/ Program \/ UNCHANGED vars \/ OtherFault
<1>1. CASE CasterFails \/ LinkBreaks
  BY <1>1 DEF CasterFails, LinkBreaks, Fault, OtherFault, Others, taskVars
<1>2. CASE NtEnter \/ NtRefused \/ NtReset \/ NtRestart
  BY <1>2 DEF NtEnter, NtRefused, NtReset, NtRestart, NtRaise, Program
<1>3. CASE NtPosition
  BY <1>3 DEF NtPosition, NtRaise, Program, vars
<1>4. CASE CasterRecovers \/ PositionDue \/ NtConnect \/ NtData \/ NtClosed \/ NtSilence
           \/ NtPublish
  BY <1>4 DEF CasterRecovers, PositionDue, NtConnect, NtData, NtClosed, NtSilence, NtPublish, vars
<1>. QED  BY <1>1, <1>2, <1>3, <1>4 DEF NtNext, NtStep, NtRead

LEMMA RvClientStep ==
  ASSUME RvNext, UNCHANGED asyncConnect
  PROVE  Background \/ Program \/ UNCHANGED vars \/ OtherFault
<1>1. CASE RvStopped
  BY <1>1 DEF RvStopped, OtherFault, Others
<1>2. CASE RvEnter \/ RvRestart \/ ReceiveSetNak
  BY <1>2 DEF RvEnter, RvRestart, ReceiveSetNak, RvRaise, Program
<1>3. CASE Poll \/ Set \/ PassOver
  BY <1>3 DEF Poll, Set, PassOver, vars
<1>4. ASSUME NEW data, Finish(data)
      PROVE  Program \/ UNCHANGED vars
  BY <1>4 DEF Finish, Program, vars
<1>5. CASE ReceivePage \/ ReceiveNak \/ ReceiveSetAck
  BY <1>4, <1>5 DEF ReceivePage, ReceiveNak, ReceiveSetAck, vars
<1>. QED  BY <1>1, <1>2, <1>3, <1>5 DEF RvNext, RvStep

LEMMA UtilitiesStep ==
  ASSUME IInv, UtilitiesNext
  PROVE  IInv'
<1>1. UNCHANGED asyncConnect
  BY DEF UtilitiesNext
<1>2. Background \/ Program \/ UNCHANGED vars \/ OtherFault
  BY <1>1, FsClientStep, NtClientStep, RvClientStep DEF UtilitiesNext
<1>. QED  BY <1>1, <1>2, ClientStep, ClientStutter, OtherFaultStep

(* The same holds of a client in the hands of any of the programs.         *)
THEOREM UtilitiesInvariance == UtilitiesSpec => []IInv
<1>1. UtilitiesInit => IInv
  BY ClientInit DEF UtilitiesInit
<1>2. IInv /\ [UtilitiesNext]_allVars => IInv'
  BY UtilitiesStep, ClientStutter DEF allVars
<1>. QED  BY <1>1, <1>2, PTL DEF UtilitiesSpec

(* Every behaviour of a program is, for its client, a behaviour the client *)
(* was checked for by itself, apart from faults of other things that stop  *)
(* or leave alone the program.                                             *)
THEOREM ClientUnderPrograms ==
  UtilitiesSpec => Init /\ [][Next \/ OtherFault]_vars
<1>1. UtilitiesInit => Init
  BY DEF UtilitiesInit
<1>2. [UtilitiesNext]_allVars => [Next \/ OtherFault]_vars
  <2>1. ASSUME UtilitiesNext PROVE [Next \/ OtherFault]_vars
    <3>1. UNCHANGED asyncConnect
      BY <2>1 DEF UtilitiesNext
    <3>2. Background \/ Program \/ UNCHANGED vars \/ OtherFault
      BY <2>1, <3>1, FsClientStep, NtClientStep, RvClientStep DEF UtilitiesNext
    <3>. QED  BY <3>1, <3>2 DEF Next
  <2>. QED  BY <2>1 DEF allVars
<1>. QED  BY <1>1, <1>2, PTL DEF UtilitiesSpec

(* Also under the programs, connected means that there is a connection.    *)
THEOREM UtilitiesAgreement == UtilitiesSpec => []SessionIsTruthful
<1>1. IInv => SessionIsTruthful
  BY DEF IInv
<1>. QED  BY <1>1, UtilitiesInvariance, PTL

(* And also under the programs, which leave and enter it again, retries    *)
(* are delayed.                                                            *)
THEOREM UtilitiesDelays == UtilitiesSpec => []RetriesAreDelayed
<1>1. IInv => RetriesAreDelayed
  BY DEF IInv, FailuresCount, RetriesAreDelayed
<1>. QED  BY <1>1, UtilitiesInvariance, PTL

-----------------------------------------------------------------------------
(* The answers of the frequency standard *)

(* A cycle with a late answer does not get past the question for the       *)
(* errors, the thirteenth, as an integer is no list of errors.             *)
ShiftStops ==
  /\ q \in Asks /\ lag \in Nat
  /\ fpc \in {"publish", "setup"} => lag = 0
  /\ fpc = "ask" /\ lag # 0 => lag = 1 /\ q \in 9 .. 13

LEMMA QuestionFacts ==
  /\ Len(Questions) = 15 /\ Asks = 1 .. 15 /\ Tint = 8
  /\ Questions[12] = "integer" /\ Questions[13] = "error"
BY DEF Questions, Asks, Tint

LEMMA NoIntegerIsAnError == "integer" \notin Converts["error"]
BY DEF Converts

LEMMA AnsweredShift ==
  ASSUME ShiftStops, Answered
  PROVE  ShiftStops'
<1>1. /\ fpc = "ask" /\ lag' = lag /\ NextLine \in Converts[Questions[q]]
      /\ IF q = 15 THEN fpc' = "publish" /\ q' = q ELSE q' = q + 1 /\ fpc' = "ask"
  BY QuestionFacts DEF Answered
<1>2. lag # 0 => q # 13
  <2> SUFFICES ASSUME lag # 0, q = 13 PROVE FALSE
    OBVIOUS
  <2>1. lag = 1
    BY <1>1 DEF ShiftStops
  <2>2. ((q - 1 - lag) % 15) + 1 = 12
    BY <2>1
  <2>3. NextLine = "integer"
    BY <2>2, QuestionFacts DEF NextLine
  <2>. QED  BY <1>1, <2>3, QuestionFacts, NoIntegerIsAnError
<1>3. lag # 0 => lag = 1 /\ q \in 9 .. 12
  BY <1>1, <1>2 DEF ShiftStops
<1>. QED  BY <1>1, <1>3, QuestionFacts DEF ShiftStops

LEMMA FsShift ==
  ASSUME ShiftStops, FsNext
  PROVE  ShiftStops'
<1>1. CASE Answered
  BY <1>1, AnsweredShift
<1>2. CASE FsEnter
  BY <1>2 DEF FsEnter, ShiftStops
<1>3. CASE Malformed \/ TimedOut
  BY <1>3 DEF Malformed, TimedOut, FsRaise, ShiftStops
<1>4. CASE FsSetup
  BY <1>4, QuestionFacts DEF FsSetup, FsRaise, ShiftStops
<1>5. CASE TintTimedOut
  <2>1. fpc = "ask" /\ fpc' = "ask" /\ q = 8 /\ q' = q + 1 /\ (lag' = lag \/ lag' = lag + 1)
    BY <1>5, QuestionFacts DEF TintTimedOut
  <2>2. lag = 0
    BY <2>1 DEF ShiftStops
  <2>. QED  BY <2>1, <2>2, QuestionFacts DEF ShiftStops
<1>6. CASE FsPublish
  BY <1>6, QuestionFacts DEF FsPublish, ShiftStops
<1>7. CASE DevFails \/ DevRecovers \/ FsLeft
  BY <1>7 DEF DevFails, DevRecovers, FsLeft, ShiftStops
<1>. QED
  BY <1>1, <1>2, <1>3, <1>4, <1>5, <1>6, <1>7 DEF FsNext, FsStep, FsAsk

(* An answer that comes too late never gets into a published record, for   *)
(* all the answers after it are other ones than those that were asked for. *)
THEOREM Matching == UtilitiesSpec => []AnswersMatch
<1>1. UtilitiesInit => ShiftStops
  BY QuestionFacts DEF UtilitiesInit, FsInit, ShiftStops
<1>2. ASSUME ShiftStops, [UtilitiesNext]_allVars PROVE ShiftStops'
  <2>1. CASE FsNext
    BY <1>2, <2>1, FsShift
  <2>2. CASE UNCHANGED fsVars
    BY <1>2, <2>2 DEF fsVars, ShiftStops
  <2>. QED  BY <1>2, <2>1, <2>2 DEF UtilitiesNext, allVars
<1>3. ShiftStops => AnswersMatch
  BY DEF ShiftStops, AnswersMatch
<1>. QED  BY <1>1, <1>2, <1>3, PTL DEF UtilitiesSpec

-----------------------------------------------------------------------------
(* The connections of the correction relay *)

(* The relay holds a connection just when it has the other end of one, and *)
(* waits for data or writes its position only over one it holds.           *)
LinkInv ==
  /\ link \in BOOLEAN /\ located \in BOOLEAN /\ due \in BOOLEAN /\ caster \in BOOLEAN
  /\ npc \in {"none", "start", "connect", "position", "read", "publish", "leave"}
  /\ program = "ntrip" => npc # "none"
  /\ peer \in {"none", "serving", "closed", "silent"}
  /\ link <=> peer # "none"
  /\ located => link
  /\ npc \in {"position", "read"} => link
  /\ npc \in {"start", "connect"} => ~link

LEMMA LinkStep ==
  ASSUME LinkInv, NtNext, UNCHANGED program
  PROVE  LinkInv'
<1> USE DEF LinkInv
<1>1. CASE CasterFails \/ LinkBreaks
  <2>1. /\ peer' \in {"none", "serving", "closed", "silent"}
        /\ peer' = "none" <=> peer = "none"
        /\ caster' \in BOOLEAN /\ UNCHANGED <<npc, link, located, due>>
    BY <1>1 DEF CasterFails, LinkBreaks, Gone
  <2>. QED  BY <2>1
<1>2. CASE CasterRecovers \/ PositionDue
  <2>1. /\ UNCHANGED <<npc, link, peer, located>>
        /\ caster' = caster \/ caster' = TRUE
        /\ due' = due \/ due' = TRUE
    BY Zenon, <1>2 DEF CasterRecovers, PositionDue, linkVars
  <2>. QED  BY <2>1
<1>3. CASE NtEnter \/ NtConnect
  <2>1. CASE NtEnter
    <3>1. npc = "start" /\ npc' = "connect" /\ UNCHANGED <<caster, link, peer, located, due>>
      BY Zenon, <2>1 DEF NtEnter, linkVars
    <3>. QED  BY <3>1
  <2>2. CASE NtConnect
    BY <2>2 DEF NtConnect
  <2>. QED  BY <1>3, <2>1, <2>2
<1>4. CASE NtRestart
  BY <1>4 DEF NtRestart
<1>5. ASSUME NtRaise PROVE LinkInv'
  BY <1>5, Zenon DEF NtRaise, linkVars
<1>6. CASE NtRefused \/ NtReset
  BY <1>5, <1>6 DEF NtRefused, NtReset
<1>7. CASE NtPosition
  <2>1. CASE NtRaise
    BY <1>5, <2>1
  <2>2. CASE ~NtRaise
    BY <1>7, <2>2 DEF NtPosition, Disconnect
  <2>. QED  BY <2>1, <2>2
<1>8. CASE NtData \/ NtClosed \/ NtSilence
  BY <1>8 DEF NtData, NtClosed, NtSilence, Disconnect, linkVars
<1>9. CASE NtPublish
  BY <1>9 DEF NtPublish, linkVars
<1>. QED
  BY <1>1, <1>2, <1>3, <1>4, <1>6, <1>7, <1>8, <1>9 DEF NtNext, NtStep, NtRead

(* The inductive invariant of the relay holds of every behaviour.          *)
THEOREM RelayInvariance == UtilitiesSpec => []LinkInv
<1>1. UtilitiesInit => LinkInv
  BY DEF UtilitiesInit, NtInit, LinkInv
<1>2. ASSUME LinkInv, [UtilitiesNext]_allVars PROVE LinkInv'
  <2>1. CASE UNCHANGED <<program, ntVars>>
    BY <1>2, <2>1 DEF ntVars, LinkInv
  <2>2. CASE NtNext /\ UNCHANGED program
    BY <1>2, <2>2, LinkStep
  <2>. QED  BY <1>2, <2>1, <2>2 DEF UtilitiesNext, allVars
<1>. QED  BY <1>1, <1>2, PTL DEF UtilitiesSpec

(* Whatever broke before, the relay writes its position, and waits for     *)
(* corrections, over a connection it holds.                                *)
THEOREM Linked == UtilitiesSpec => [](npc \in {"position", "read"} => link)
<1>1. LinkInv => (npc \in {"position", "read"} => link)
  BY DEF LinkInv
<1>. QED  BY <1>1, RelayInvariance, PTL

-----------------------------------------------------------------------------
(* The configuration of the rover's receiver *)

Ack == Frame("ack", {})
Polls == Stages[stage] # "set"

(* What the receiver answers to the transaction at hand; of the one before *)
(* it at most an ACK is left.                                              *)
Replies ==
  IF Polls THEN IF Page(Stages[stage]) = {}
                THEN {<<Frame("nak", {})>>}
                ELSE {<<Frame("page", Page(Stages[stage])), Ack>>}
           ELSE {<<Frame("set-ack", {})>>, <<Frame("set-nak", {})>>}

WireInv ==
  /\ rpc = "send" => wire = <<>> \/ wire = <<Ack>>
  /\ rpc = "receive" => \E r \in Replies : wire = r \/ wire = <<Ack>> \o r

(* cfg_get() has got what the layer holds up to its position. *)
CollectInv ==
  rpc \in {"send", "receive"} =>
    IF Polls THEN got = {p \in Layer(Stages[stage]) : p[1] <= pos}
             ELSE pos = 0 /\ got = {}

(* What the stages that are passed have shown. *)
StageInv ==
  /\ stage >= 2 => "BBR" \notin stored
  /\ stage >= 3 => "FLASH" \notin stored
  /\ stage >= 4 => target = Pairs(Configured)
  /\ rpc = "stream" => stage >= 4 /\ Pairs(ram) = target

RvTypeOK ==
  /\ ram \in [Keys -> {"default", "foreign", "target"}]
  /\ stored \subseteq {"BBR", "FLASH"}
  /\ stage \in 1 .. 7 /\ pos \in Nat

RvInv == RvTypeOK /\ WireInv /\ CollectInv /\ StageInv


LEMMA StageFacts ==
  /\ Stages[1] = "BBR" /\ Stages[2] = "FLASH" /\ Stages[3] = "DEFAULT"
  /\ Stages[4] = "RAM" /\ Stages[5] = "set" /\ Stages[6] = "set" /\ Stages[7] = "RAM"
  /\ \A i \in 1 .. 7 : Stages[i] \in {"BBR", "FLASH", "DEFAULT", "RAM", "set"}
BY DEF Stages

LEMMA FrameFacts ==
  ASSUME NEW type, NEW data
  PROVE  Frame(type, data).type = type /\ Frame(type, data).data = data
BY DEF Frame

(* Frames that were read are gone, and those that were not come first.     *)
LEMMA WireFacts ==
  ASSUME NEW e, NEW f
  PROVE  /\ Head(<<e>>) = e /\ Tail(<<e>>) = <<>>
         /\ Head(<<e, f>>) = e /\ Tail(<<e, f>>) = <<f>>
         /\ Append(<<>>, e) = <<e>> /\ Append(<<e>>, f) = <<e>> \o <<f>>
<1>1. Head(<<e>>) = e /\ Head(<<e, f>>) = e
  OBVIOUS
<1>2. Tail(<<e>>) = <<>>
  OBVIOUS
<1>3. Tail(<<e, f>>) = <<f>>
  OBVIOUS
<1>4. Append(<<>>, e) = <<e>>
  OBVIOUS
<1>5. Append(<<e>>, f) = <<e>> \o <<f>>
  OBVIOUS
<1>. QED  BY <1>1, <1>2, <1>3, <1>4, <1>5

LEMMA WireConcat ==
  ASSUME NEW S, NEW e \in S, NEW r \in Seq(S)
  PROVE  Head(<<e>> \o r) = e /\ Tail(<<e>> \o r) = r /\ <<>> \o r = r
<1> DEFINE w == <<e>> \o r
<1>1. w \in Seq(S) /\ Len(w) = Len(r) + 1 /\ \A i \in 1 .. Len(r) : w[i + 1] = r[i]
  OBVIOUS
<1>2. w[1] = e /\ Len(r) \in Nat
  OBVIOUS
<1>3. <<>> \o r = r
  OBVIOUS
<1> HIDE DEF w
<1>4. w # <<>> /\ Head(w) = e
  BY <1>1, <1>2
<1>5. /\ Tail(w) \in Seq(S) /\ Len(Tail(w)) = Len(r)
      /\ \A i \in 1 .. Len(r) : Tail(w)[i] = w[i + 1]
  BY <1>1, <1>4
<1>6. Tail(w) = r
  BY <1>1, <1>5
<1>. QED  BY <1>3, <1>4, <1>6 DEF w

(* Every layer holds the keys from the first to some last one.             *)
LEMMA Dense ==
  ASSUME RvTypeOK, NEW name \in {"BBR", "FLASH", "DEFAULT", "RAM"}
  PROVE  \E n \in Nat : \E f : DOMAIN f = 1 .. n /\ Layer(name) = Pairs(f)
<1>1. CASE name = "RAM"
  <2>1. DOMAIN ram = 1 .. NumKeys /\ Layer(name) = Pairs(ram)
    BY <1>1 DEF RvTypeOK, Keys, Layer
  <2>. QED  BY <2>1, NumKeysAssumption
<1>2. CASE name = "DEFAULT"
  <2>1. DOMAIN Default = 1 .. NumKeys
    BY DEF Default, Keys
  <2>2. Layer(name) = Pairs(Default)
    BY <1>2 DEF Layer
  <2>. QED  BY <2>1, <2>2, NumKeysAssumption
<1>3. CASE name \in {"BBR", "FLASH"} /\ name \in stored
  <2> DEFINE f == [k \in 1 .. 1 |-> "foreign"]
  <2>1. Layer(name) = {<<1, "foreign">>}
    BY <1>3 DEF Layer
  <2>2. Pairs(f) = {<<1, "foreign">>} /\ DOMAIN f = 1 .. 1
    BY DEF Pairs
  <2>. QED  BY <2>1, <2>2
<1>4. CASE name \in {"BBR", "FLASH"} /\ name \notin stored
  <2> DEFINE f == [k \in 1 .. 0 |-> "foreign"]
  <2>1. Layer(name) = {}
    BY <1>4 DEF Layer
  <2>2. Pairs(f) = {} /\ DOMAIN f = 1 .. 0
    BY DEF Pairs
  <2>. QED  BY <2>1, <2>2
<1>. QED  BY <1>1, <1>2, <1>3, <1>4

(* So a page that is not full is the last one.                             *)
LEMMA LastPage ==
  ASSUME NEW n \in Nat, NEW f, DOMAIN f = 1 .. n, NEW at \in Nat, NEW page,
         page = {p \in Pairs(f) : p[1] \in at + 1 .. at + PageSize},
         Cardinality(page) < PageSize
  PROVE  {p \in Pairs(f) : p[1] <= at} \cup page = Pairs(f)
<1>1. at + PageSize > n
  <2> SUFFICES ASSUME at + PageSize <= n PROVE FALSE
    BY PageSizeAssumption
  <2> DEFINE I == at + 1 .. at + PageSize
             g == [k \in I |-> <<k, f[k]>>]
  <2>1. \A k \in I : k \in 1 .. n /\ g[k] = <<k, f[k]>>
    BY PageSizeAssumption
  <2>2. \A k \in I : g[k] \in page
    BY <2>1 DEF Pairs
  <2>3. \A p \in page : \E k \in I : p = g[k]
    <3> SUFFICES ASSUME NEW p \in page PROVE \E k \in I : p = g[k]
      OBVIOUS
    <3>1. PICK k \in 1 .. n : p = <<k, f[k]>>
      BY DEF Pairs
    <3>2. p[1] = k /\ k \in I
      BY <3>1
    <3>. QED  BY <2>1, <3>1, <3>2
  <2>4. \A j, k \in I : g[j] = g[k] => j = k
    BY <2>1
  <2>5. g \in [I -> page]
    BY <2>2
  <2> HIDE DEF g
  <2>6. g \in Bijection(I, page)
    BY <2>3, <2>4, <2>5 DEF Bijection, Injection, Surjection, IsInjective
  <2>7. IsFiniteSet(I) /\ Cardinality(I) = PageSize
    <3> DEFINE lo == at + 1
               hi == at + PageSize
    <3>1. lo \in Int /\ hi \in Int /\ ~(lo > hi) /\ hi - lo + 1 = PageSize
      BY PageSizeAssumption
    <3> HIDE DEF lo, hi
    <3>2. Cardinality(lo .. hi) = PageSize /\ IsFiniteSet(lo .. hi)
      BY <3>1, FS_Interval
    <3>. QED  BY <3>2 DEF lo, hi
  <2> HIDE DEF I
  <2>8. Cardinality(page) = PageSize
    BY <2>6, <2>7, FS_Bijection DEF ExistsBijection
  <2>. QED  BY <2>8, PageSizeAssumption
<1>2. \A p \in Pairs(f) : p[1] \in 1 .. n
  BY DEF Pairs
<1>. QED  BY <1>1, <1>2, PageSizeAssumption

(* The same, in terms of the layer and the position.                       *)
LEMMA LayerComplete ==
  ASSUME RvTypeOK, NEW name \in {"BBR", "FLASH", "DEFAULT", "RAM"},
         Cardinality(Page(name)) < PageSize
  PROVE  {p \in Layer(name) : p[1] <= pos} \cup Page(name) = Layer(name)
<1>1. PICK n \in Nat : \E f : DOMAIN f = 1 .. n /\ Layer(name) = Pairs(f)
  BY Dense
<1>2. PICK f : DOMAIN f = 1 .. n /\ Layer(name) = Pairs(f)
  BY <1>1
<1>3. Page(name) = {p \in Pairs(f) : p[1] \in pos + 1 .. pos + PageSize}
  BY <1>2 DEF Page
<1>4. {p \in Pairs(f) : p[1] <= pos} \cup Page(name) = Pairs(f)
  BY <1>2, <1>3, LastPage DEF RvTypeOK
<1>. QED  BY <1>2, <1>4

LEMMA LayerKeys ==
  ASSUME RvTypeOK, NEW name \in {"BBR", "FLASH", "DEFAULT", "RAM"}
  PROVE  \A p \in Layer(name) : p[1] \in Nat /\ p[1] > 0
<1>1. PICK n \in Nat : \E f : DOMAIN f = 1 .. n /\ Layer(name) = Pairs(f)
  BY Dense
<1>2. PICK f : DOMAIN f = 1 .. n /\ Layer(name) = Pairs(f)
  BY <1>1
<1>. QED  BY <1>2 DEF Pairs

(* The defaults with the chunks in them are the configuration wanted.      *)
LEMMA TargetIsConfigured == Update(Pairs(Default)) = Pairs(Configured)
<1> DEFINE C == {1, 2}
<1>1. Chunks[1] \cup Chunks[2] = C
  BY DEF Chunks
<1>2. C \subseteq Keys /\ DOMAIN Default = Keys /\ DOMAIN Configured = Keys
  BY NumKeysAssumption DEF Keys, Default, Configured
<1>3. /\ \A k \in Keys : Default[k] = "default"
      /\ \A k \in Keys : Configured[k] = IF k \in C THEN "target" ELSE "default"
  BY <1>1 DEF Default, Configured
<1>4. Update(Pairs(Default))
        = {p \in Pairs(Default) : p[1] \notin C} \cup (C \X {"target"})
  BY <1>1 DEF Update
<1> HIDE DEF C
<1>5. ASSUME NEW p \in Update(Pairs(Default)) PROVE p \in Pairs(Configured)
  <2>1. CASE p \in C \X {"target"}
    <3>1. PICK k \in C : p = <<k, "target">>
      BY <2>1
    <3>. QED  BY <3>1, <1>2, <1>3 DEF Pairs
  <2>2. CASE p \in Pairs(Default) /\ p[1] \notin C
    <3>1. PICK k \in Keys : p = <<k, Default[k]>>
      BY <2>2, <1>2 DEF Pairs
    <3>2. k \notin C
      BY <3>1, <2>2
    <3>. QED  BY <3>1, <3>2, <1>2, <1>3 DEF Pairs
  <2>. QED  BY <2>1, <2>2, <1>4, <1>5
<1>6. ASSUME NEW p \in Pairs(Configured) PROVE p \in Update(Pairs(Default))
  <2>1. PICK k \in Keys : p = <<k, Configured[k]>>
    BY <1>2, <1>6 DEF Pairs
  <2>2. CASE k \in C
    BY <2>1, <2>2, <1>3, <1>4
  <2>3. CASE k \notin C
    <3>1. p = <<k, Default[k]>> /\ p[1] = k
      BY <2>1, <2>3, <1>3
    <3>2. p \in Pairs(Default)
      BY <3>1, <2>1, <1>2 DEF Pairs
    <3>. QED  BY <3>1, <3>2, <2>3, <1>4
  <2>. QED  BY <2>2, <2>3
<1>. QED  BY <1>5, <1>6

LEMMA PairsInjective ==
  ASSUME RvTypeOK, Pairs(ram) = Pairs(Configured)
  PROVE  ram = Configured
<1>1. DOMAIN ram = Keys /\ DOMAIN Configured = Keys
  BY DEF RvTypeOK, Configured
<1>2. ASSUME NEW k \in Keys PROVE ram[k] = Configured[k]
  <2>1. <<k, ram[k]>> \in Pairs(Configured)
    BY <1>1 DEF Pairs
  <2>2. PICK j \in Keys : <<k, ram[k]>> = <<j, Configured[j]>>
    BY <2>1, <1>1 DEF Pairs
  <2>. QED  BY <2>2
<1>3. Configured = [k \in Keys |-> Configured[k]] /\ ram = [k \in Keys |-> ram[k]]
  BY DEF RvTypeOK, Configured
<1>. QED  BY <1>2, <1>3

-----------------------------------------------------------------------------
(* The steps of rtk_parse() *)

(* Outside of a transaction nothing is on its way that matters.            *)
LEMMA RvOutside ==
  ASSUME RvInv, UNCHANGED <<ram, stored, stage, pos, got, target>>,
         rpc' \notin {"send", "receive", "stream"}
  PROVE  RvInv'
BY DEF RvInv, RvTypeOK, WireInv, CollectInv, StageInv, Pairs, Configured

LEMMA LayerFrame ==
  ASSUME UNCHANGED <<ram, stored>>
  PROVE  Layer(Stages[stage])' = Layer(Stages[stage'])
BY DEF Layer, Pairs

(* A transaction begins at position 0, with nothing received.              *)
LEMMA Begins ==
  ASSUME RvTypeOK, UNCHANGED <<ram, stored>>, stage' \in 1 .. 7,
         pos' = 0, got' = {}, rpc' = "send", wire' = <<>> \/ wire' = <<Ack>>
  PROVE  WireInv' /\ CollectInv' /\ RvTypeOK'
<1>1. RvTypeOK'
  BY DEF RvTypeOK
<1>2. WireInv'
  BY DEF WireInv, Ack, Frame
<1>3. CollectInv'
  <2>1. CASE Stages[stage'] = "set"
    BY <2>1 DEF CollectInv, Polls
  <2>2. CASE Stages[stage'] # "set"
    <3>1. Stages[stage'] \in {"BBR", "FLASH", "DEFAULT", "RAM"}
      BY <2>2, StageFacts
    <3>2. \A p \in Layer(Stages[stage']) : p[1] \in Nat /\ p[1] > 0
      BY <3>1, LayerKeys
    <3>3. {p \in Layer(Stages[stage'])  : p[1] <= 0} = {}
      BY <3>2
    <3>4. got' = {p \in Layer(Stages[stage])' : p[1] <= pos'}
      BY <3>3, LayerFrame
    <3>. QED  BY <2>2, <3>4 DEF CollectInv, Polls
  <2>. QED  BY <2>1, <2>2
<1>. QED  BY <1>1, <1>2, <1>3

LEMMA RvEnterStep ==
  ASSUME RvInv, RvEnter
  PROVE  RvInv'
<1>1. /\ rpc' = "send" /\ stage' = 1 /\ pos' = 0 /\ got' = {} /\ wire' = <<>>
      /\ UNCHANGED <<ram, stored, target>>
  BY DEF RvEnter
<1>2. StageInv'
  BY <1>1 DEF StageInv
<1>. QED  BY <1>1, <1>2, Begins DEF RvInv

\* While a transaction goes on its stage and the receiver's layers stay.
LEMMA StageFrame ==
  ASSUME RvInv, UNCHANGED <<ram, stored, stage, pos, target>>, rpc' \in {"send", "receive"}
  PROVE  /\ RvTypeOK' /\ StageInv'
         /\ Replies' = Replies /\ (Polls' <=> Polls)
         /\ Layer(Stages[stage])' = Layer(Stages[stage])
<1>1. RvTypeOK' /\ StageInv'
  BY DEF RvInv, RvTypeOK, StageInv, Pairs, Configured
<1>2. Layer(Stages[stage])' = Layer(Stages[stage]) /\ (Polls' <=> Polls)
  BY LayerFrame DEF Polls
<1>3. Page(Stages[stage])' = Page(Stages[stage])
  BY <1>2 DEF Page
<1>4. Replies' = Replies
  BY <1>2, <1>3 DEF Replies, Frame, Ack
<1>. QED  BY <1>1, <1>2, <1>4

LEMMA RepliesAreRead ==
  ASSUME NEW r \in Replies
  PROVE  /\ Head(r).type \in Awaited
         /\ Head(<<Ack>> \o r) = Ack /\ Tail(<<Ack>> \o r) = r /\ <<>> \o r = r
<1> DEFINE S == {Ack, Frame("nak", {}), Frame("page", Page(Stages[stage])),
                 Frame("set-ack", {}), Frame("set-nak", {})}
<1>1. /\ Frame("nak", {}) \in S /\ Frame("page", Page(Stages[stage])) \in S
      /\ Frame("set-ack", {}) \in S /\ Frame("set-nak", {}) \in S /\ Ack \in S
  OBVIOUS
<1> HIDE DEF S
<1>2. r \in Seq(S)
  <2>1. \A e, f \in S : <<e>> \in Seq(S) /\ <<e, f>> \in Seq(S)
    OBVIOUS
  <2>2. \/ r = <<Frame("nak", {})>>
        \/ r = <<Frame("page", Page(Stages[stage])), Ack>>
        \/ r = <<Frame("set-ack", {})>>
        \/ r = <<Frame("set-nak", {})>>
    BY Zenon DEF Replies
  <2>. QED  BY <1>1, <2>1, <2>2
<1>3. Head(r).type \in Awaited
  <2>1. CASE Polls
    <3>1. Head(r) = Frame("nak", {}) \/ Head(r) = Frame("page", Page(Stages[stage]))
      BY <2>1, WireFacts DEF Replies
    <3>2. Awaited = {"page", "nak"}
      BY <2>1 DEF Polls, Awaited
    <3>. QED  BY <3>1, <3>2, FrameFacts
  <2>2. CASE ~Polls
    <3>1. Head(r) = Frame("set-ack", {}) \/ Head(r) = Frame("set-nak", {})
      BY <2>2, WireFacts DEF Replies
    <3>2. Awaited = {"set-ack", "set-nak"}
      BY <2>2 DEF Polls, Awaited
    <3>. QED  BY <3>1, <3>2, FrameFacts
  <2>. QED  BY <2>1, <2>2
<1>. QED  BY <1>1, <1>2, <1>3, WireConcat

LEMMA PollStep ==
  ASSUME RvInv, Poll
  PROVE  RvInv'
<1>1. /\ rpc = "send" /\ Polls /\ rpc' = "receive"
      /\ UNCHANGED <<ram, stored, stage, pos, got, target>>
  BY DEF Poll, Polls
<1>2. \E r \in Replies : wire' = wire \o r
  BY <1>1 DEF Poll, Replies, Ack
<1>3. wire = <<>> \/ wire = <<Ack>>
  BY <1>1 DEF RvInv, WireInv
<1>4. \A r \in Replies : <<>> \o r = r
  BY RepliesAreRead
<1>5. \E r \in Replies : wire' = r \/ wire' = <<Ack>> \o r
  BY <1>2, <1>3, <1>4
<1>6. WireInv'
  BY <1>1, <1>5, StageFrame DEF WireInv, Ack, Frame
<1>7. CollectInv'
  BY <1>1, StageFrame DEF RvInv, CollectInv
<1>. QED  BY <1>1, <1>6, <1>7, StageFrame DEF RvInv

LEMMA SetStep ==
  ASSUME RvInv, Set
  PROVE  RvInv'
<1>1. /\ rpc = "send" /\ ~Polls /\ rpc' = "receive"
      /\ UNCHANGED <<stored, stage, pos, got, target>>
      /\ wire' \in {Append(wire, Frame("set-ack", {})), Append(wire, Frame("set-nak", {}))}
      /\ ram' = ram \/ ram' = [k \in Keys |-> IF k \in Chunks[stage - 4] THEN "target" ELSE ram[k]]
  BY DEF Set, Polls
<1>2. RvTypeOK'
  BY <1>1 DEF RvInv, RvTypeOK
<1>3. ~Polls' /\ Replies' = Replies
  BY <1>1 DEF Polls, Replies, Frame
<1>4. wire = <<>> \/ wire = <<Ack>>
  BY <1>1 DEF RvInv, WireInv
<1>5. \E r \in Replies : wire' = r \/ wire' = <<Ack>> \o r
  <2>1. PICK t \in {"set-ack", "set-nak"} : wire' = Append(wire, Frame(t, {}))
    BY <1>1
  <2>2. <<Frame(t, {})>> \in Replies
    BY <1>1 DEF Replies
  <2>3. wire' = <<Frame(t, {})>> \/ wire' = <<Ack>> \o <<Frame(t, {})>>
    BY <1>4, <2>1, WireFacts
  <2>. QED  BY <2>2, <2>3
<1>6. WireInv'
  BY <1>1, <1>3, <1>5 DEF WireInv, Ack, Frame
<1>7. CollectInv'
  BY <1>1, <1>3 DEF RvInv, CollectInv
<1>8. StageInv'
  BY <1>1 DEF RvInv, StageInv, Pairs, Configured
<1>. QED  BY <1>2, <1>6, <1>7, <1>8 DEF RvInv

\* What is read next: an answer, whose types are awaited, or an ACK before it.
LEMMA NextFrame ==
  ASSUME RvInv, rpc = "receive"
  PROVE  \/ /\ Head(wire).type = "ack" /\ "ack" \notin Awaited /\ Tail(wire) \in Replies
         \/ /\ wire \in Replies /\ Head(wire).type \in Awaited
<1>1. PICK r \in Replies : wire = r \/ wire = <<Ack>> \o r
  BY DEF RvInv, WireInv
<1>2. /\ Head(r).type \in Awaited
      /\ Head(<<Ack>> \o r) = Ack /\ Tail(<<Ack>> \o r) = r
  BY RepliesAreRead
<1>3. "ack" \notin Awaited
  BY DEF Awaited
<1>4. Ack.type = "ack"
  BY FrameFacts DEF Ack
<1>5. CASE wire = r
  BY <1>2, <1>5
<1>6. CASE wire = <<Ack>> \o r
  BY <1>2, <1>3, <1>4, <1>6
<1>. QED  BY <1>1, <1>5, <1>6

LEMMA PassOverStep ==
  ASSUME RvInv, PassOver
  PROVE  RvInv'
<1>1. /\ rpc = "receive" /\ rpc' = "receive" /\ Head(wire).type \notin Awaited
      /\ wire' = Tail(wire) /\ UNCHANGED <<ram, stored, stage, pos, got, target>>
  BY DEF PassOver
<1>2. wire' \in Replies
  BY <1>1, NextFrame
<1>3. WireInv'
  BY <1>1, <1>2, StageFrame DEF WireInv, Ack, Frame
<1>4. CollectInv'
  BY <1>1, StageFrame DEF RvInv, CollectInv
<1>. QED  BY <1>1, <1>3, <1>4, StageFrame DEF RvInv

LEMMA FinishStep ==
  ASSUME RvInv, NEW data, Finish(data),
         Tail(wire) = <<>> \/ Tail(wire) = <<Ack>>,
         Polls => data = Layer(Stages[stage])
  PROVE  RvInv'
<1>1. /\ wire' = Tail(wire) /\ pos' = 0 /\ got' = {} /\ UNCHANGED <<ram, stored>>
      /\ \/ Done(data)
         \/ rpc' = "leave" /\ UNCHANGED <<stage, target>>
  BY DEF Finish
<1>2. stage \in 1 .. 7
  BY DEF RvInv, RvTypeOK
<1>3. CASE rpc' = "leave" /\ UNCHANGED <<stage, target>>
  BY <1>1, <1>3 DEF RvInv, RvTypeOK, WireInv, CollectInv, StageInv, Pairs, Configured
<1>4. CASE stage \in {1, 2} /\ data = {} /\ stage' = stage + 1 /\ rpc' = "send" /\ target' = target
  <2>1. Polls /\ Layer(Stages[stage]) = {}
    BY <1>4, StageFacts DEF Polls
  <2>2. Stages[stage] \notin stored
    <3>1. Stages[stage] \in {"BBR", "FLASH"}
      BY <1>4, StageFacts
    <3>. QED  BY <2>1, <3>1 DEF Layer
  <2>3. StageInv'
    BY <1>1, <1>4, <2>2, StageFacts DEF RvInv, StageInv
  <2>4. stage' \in 1 .. 7
    BY <1>4
  <2>. QED  BY <1>1, <1>4, <2>3, <2>4, Begins DEF RvInv
<1>5. CASE stage = 3 /\ stage' = 4 /\ rpc' = "send" /\ target' = Update(data)
  <2>1. data = Pairs(Default)
    BY <1>5, StageFacts DEF Polls, Layer
  <2>2. target' = Pairs(Configured)
    BY <1>5, <2>1, TargetIsConfigured
  <2>3. StageInv'
    BY <1>1, <1>5, <2>2 DEF RvInv, StageInv, Pairs, Configured
  <2>. QED  BY <1>1, <1>5, <2>3, Begins DEF RvInv
<1>6. CASE stage \in {4, 5, 6} /\ stage' = stage + 1 /\ rpc' = "send" /\ target' = target
  <2>1. StageInv'
    BY <1>1, <1>6 DEF RvInv, StageInv, Pairs, Configured
  <2>2. stage' \in 1 .. 7
    BY <1>6
  <2>. QED  BY <1>1, <1>6, <2>1, <2>2, Begins DEF RvInv
<1>7. CASE stage \in {4, 7} /\ data = target /\ rpc' = "stream" /\ UNCHANGED <<stage, target>>
  <2>1. Pairs(ram) = target
    BY <1>7, StageFacts DEF Polls, Layer
  <2>2. StageInv'
    BY <1>1, <1>7, <2>1 DEF RvInv, StageInv, Pairs, Configured
  <2>. QED  BY <1>1, <1>7, <2>2 DEF RvInv, RvTypeOK, WireInv, CollectInv
<1>. QED  BY <1>1, <1>3, <1>4, <1>5, <1>6, <1>7 DEF Done

LEMMA ReceivePageStep ==
  ASSUME RvInv, ReceivePage
  PROVE  RvInv'
<1> DEFINE page == Page(Stages[stage])
<1>1. /\ rpc = "receive" /\ Head(wire).type = "page" /\ "page" \in Awaited
  BY DEF ReceivePage, Comes
<1>2. Polls /\ Stages[stage] \in {"BBR", "FLASH", "DEFAULT", "RAM"}
  BY <1>1, StageFacts DEF Awaited, Polls, RvInv, RvTypeOK
<1>3. wire = <<Frame("page", page), Ack>>
  BY <1>1, <1>2, NextFrame, FrameFacts, WireFacts DEF Replies
<1>4. Head(wire).data = page /\ Tail(wire) = <<Ack>>
  BY <1>3, FrameFacts, WireFacts
<1>5. got = {p \in Layer(Stages[stage]) : p[1] <= pos}
  BY <1>1, <1>2 DEF RvInv, CollectInv
<1>6. CASE Cardinality(page) < PageSize
  <2>1. Finish(got \cup page)
    BY <1>4, <1>6 DEF ReceivePage
  <2>2. got \cup page = Layer(Stages[stage])
    BY <1>2, <1>5, <1>6, LayerComplete DEF RvInv
  <2>. QED  BY <1>4, <2>1, <2>2, FinishStep
<1>7. CASE ~(Cardinality(page) < PageSize)
  <2>1. /\ got' = got \cup page /\ pos' = pos + PageSize
        /\ wire' = <<Ack>> /\ rpc' = "send"
        /\ UNCHANGED <<ram, stored, stage, target>>
    BY <1>4, <1>7 DEF ReceivePage
  <2>2. RvTypeOK' /\ StageInv'
    BY <2>1, PageSizeAssumption DEF RvInv, RvTypeOK, StageInv, Pairs, Configured
  <2>3. WireInv'
    BY <2>1 DEF WireInv, Ack, Frame
  <2>4. got' = {p \in Layer(Stages[stage]) : p[1] <= pos'}
    <3>1. \A p \in Layer(Stages[stage]) : p[1] \in Nat /\ p[1] > 0
      BY <1>2, LayerKeys DEF RvInv
    <3>2. pos \in Nat
      BY DEF RvInv, RvTypeOK
    <3>. QED  BY <1>5, <2>1, <3>1, <3>2, PageSizeAssumption DEF Page
  <2>5. Layer(Stages[stage])' = Layer(Stages[stage]) /\ Polls'
    BY <1>2, <2>1, LayerFrame DEF Polls
  <2>6. CollectInv'
    BY <2>4, <2>5 DEF CollectInv
  <2>. QED  BY <2>2, <2>3, <2>6 DEF RvInv
<1>. QED  BY <1>6, <1>7

LEMMA ReceiveNakStep ==
  ASSUME RvInv, ReceiveNak
  PROVE  RvInv'
<1>1. /\ rpc = "receive" /\ Head(wire).type = "nak" /\ "nak" \in Awaited /\ Finish(got)
  BY DEF ReceiveNak, Comes
<1>2. Polls /\ Stages[stage] \in {"BBR", "FLASH", "DEFAULT", "RAM"}
  BY <1>1, StageFacts DEF Awaited, Polls, RvInv, RvTypeOK
<1>3. wire = <<Frame("nak", {})>> /\ Page(Stages[stage]) = {}
  BY <1>1, <1>2, NextFrame, FrameFacts, WireFacts DEF Replies
<1>4. got = {p \in Layer(Stages[stage]) : p[1] <= pos}
  BY <1>1, <1>2 DEF RvInv, CollectInv
<1>5. Cardinality(Page(Stages[stage])) < PageSize
  BY <1>3, FS_EmptySet, PageSizeAssumption
<1>6. got = Layer(Stages[stage])
  BY <1>2, <1>3, <1>4, <1>5, LayerComplete DEF RvInv
<1>. QED  BY <1>1, <1>3, <1>6, WireFacts, FinishStep

LEMMA ReceiveSetAckStep ==
  ASSUME RvInv, ReceiveSetAck
  PROVE  RvInv'
<1>1. /\ rpc = "receive" /\ Head(wire).type = "set-ack" /\ "set-ack" \in Awaited /\ Finish({})
  BY DEF ReceiveSetAck, Comes
<1>2. ~Polls
  BY <1>1 DEF Awaited, Polls
<1>3. wire = <<Frame("set-ack", {})>>
  BY <1>1, <1>2, NextFrame, FrameFacts, WireFacts DEF Replies
<1>. QED  BY <1>1, <1>2, <1>3, WireFacts, FinishStep

LEMMA RvInvStep ==
  ASSUME RvInv, RvNext
  PROVE  RvInv'
<1>1. CASE RvStopped \/ RvRestart \/ ReceiveSetNak
  BY <1>1, RvOutside DEF RvStopped, RvRestart, ReceiveSetNak, RvRaise
<1>. QED
  BY <1>1, RvEnterStep, PollStep, SetStep, PassOverStep, ReceivePageStep, ReceiveNakStep,
     ReceiveSetAckStep DEF RvNext, RvStep

LEMMA RvInvStutter ==
  ASSUME RvInv, UNCHANGED rvVars
  PROVE  RvInv'
<1>1. UNCHANGED <<ram, stored, wire, rpc, stage, pos, got, target>>
  BY DEF rvVars
<1>2. CASE rpc \in {"send", "receive"}
  BY <1>1, <1>2, StageFrame DEF RvInv, WireInv, CollectInv, Ack, Frame
<1>3. CASE rpc \notin {"send", "receive"}
  BY <1>1, <1>3 DEF RvInv, RvTypeOK, WireInv, CollectInv, StageInv, Pairs, Configured
<1>. QED  BY <1>2, <1>3

LEMMA RvInvInit == UtilitiesInit => RvInv
<1> SUFFICES ASSUME UtilitiesInit PROVE RvInv
  OBVIOUS
<1>1. /\ stage = 1 /\ pos = 0 /\ rpc \in {"start", "none"}
      /\ stored \subseteq {"BBR", "FLASH"}
      /\ ram = Default \/ ram = [Default EXCEPT ![NumKeys] = "foreign"]
  BY DEF UtilitiesInit, RvInit
<1>2. ram \in [Keys -> {"default", "foreign", "target"}]
  BY <1>1 DEF Default
<1>. QED  BY <1>1, <1>2 DEF RvInv, RvTypeOK, WireInv, CollectInv, StageInv

(* What is on its way from the receiver, what cfg_get() has collected, and *)
(* what the stages so far have shown, fit together, for any number of keys *)
(* and any size of a page.                                                 *)
THEOREM RoverInvariance == UtilitiesSpec => []RvInv
<1>1. ASSUME RvInv, [UtilitiesNext]_allVars PROVE RvInv'
  BY <1>1, RvInvStep, RvInvStutter DEF UtilitiesNext, allVars
<1>. QED  BY <1>1, RvInvInit, PTL DEF UtilitiesSpec

(* Positions are streamed only from a receiver whose RAM is the target, in *)
(* every key, and that has no other configuration to come back to.         *)
THEOREM Configuration == UtilitiesSpec => []StreamsOnlyConfigured
<1>1. RvInv => StreamsOnlyConfigured
  <2> SUFFICES ASSUME RvInv, rpc = "stream" PROVE ram = Configured /\ stored = {}
    BY DEF StreamsOnlyConfigured
  <2>1. stage >= 4 /\ stage \in 1 .. 7 /\ Pairs(ram) = Pairs(Configured)
    BY DEF RvInv, RvTypeOK, StageInv
  <2>2. ram = Configured
    BY <2>1, PairsInjective DEF RvInv
  <2>3. stored = {}
    BY <2>1 DEF RvInv, RvTypeOK, StageInv
  <2>. QED  BY <2>2, <2>3
<1>. QED  BY <1>1, RoverInvariance, PTL
=============================================================================
