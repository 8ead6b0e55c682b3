------------------------------ MODULE MainProofs ------------------------------
(***************************************************************************)
(* The end of the process, proved for any configuration, any number of     *)
(* signals and any time: threads are joined in order, the PID file is held *)
(* as long as it has to be, and the exit code tells why.                   *)
(***************************************************************************)
EXTENDS Main, TLAPS

-----------------------------------------------------------------------------
(* The inductive invariant *)

States == {"none", "running", "stopping", "ended", "joined"}
Workers == {"mqtt", "rx", "tx", "wr"}     \* the threads but the logger's
Ending == {"unwind", "logger", "exited"}

(* Which threads there can be, by the next step of main(). *)
Phases ==
  /\ mpc = "setup" => \A t \in Workers : thread[t] = "none"
  /\ mpc \in {"logger", "exited"} => \A t \in Workers : Gone(t)
  /\ thread["rx"] = "joined" => Gone("wr") /\ mpc \in Ending
  /\ thread["logger"] = "joined" <=> mpc = "exited"

HeldPidFile == mpc \notin {"setup", "logger", "exited"} => pidfile

(* The end has begun: with exit code 0 if a signal asked for it. *)
WhyItEnds ==
  /\ mpc \in Ending => (exitCode = 0 <=> terminated)
  /\ mpc \notin Ending => exitCode = 0 /\ ~terminated

(* Recordings are of what has been received, and their starts are at most  *)
(* one second ahead.  A new start lies behind what is recorded, and nobody *)
(* records until its file is opened.                                       *)
Recordings ==
  /\ recorded <= now /\ start <= now + 1 /\ \A f \in files : f <= now + 1
  /\ mpc = "start" => /\ Gone("wr") /\ recorded < start
                      /\ \A f \in files : f <= start

IInv == TypeOK /\ Phases /\ HeldPidFile /\ WhyItEnds /\ Recordings

\* main(), the files and what it tells at the end are left alone.
Aside == UNCHANGED <<mpc, pidfile, exitCode, terminated>>

LEMMA ThreadNames == Threads = Workers \cup {"logger"} /\ "logger" \notin Workers
BY DEF Threads, Workers

-----------------------------------------------------------------------------
(* The state of one thread changes *)

LEMMA OneThread ==
  ASSUME TypeOK, NEW t \in Threads, NEW s \in States, Becomes(t, s)
  PROVE  /\ thread' \in [Threads -> States] /\ thread'[t] = s
         /\ \A u \in Threads : u # t => thread'[u] = thread[u]
BY DEF TypeOK, Becomes, States

\* A thread that is there goes on to its end.
LEMMA ThreadEnds ==
  ASSUME IInv, NEW t \in Threads, NEW s \in {"stopping", "ended"}, ~Gone(t), Becomes(t, s), Aside
  PROVE  Phases' /\ HeldPidFile' /\ WhyItEnds' /\ thread' \in [Threads -> States]
<1>1. /\ thread' \in [Threads -> States] /\ thread'[t] = s
      /\ \A u \in Threads : u # t => thread'[u] = thread[u]
  BY OneThread DEF IInv, States
<1>2. thread[t] \notin {"none", "joined"} /\ thread'[t] \notin {"none", "joined"}
  BY <1>1 DEF Gone
<1>3. \A u \in Threads : /\ thread[u] \in {"none", "joined"} => thread'[u] = thread[u]
                         /\ thread'[u] = "joined" => thread[u] = "joined"
  BY <1>1, <1>2
<1>4. Phases'
  BY <1>3, ThreadNames DEF IInv, Phases, Gone, Aside, Workers
<1>. QED  BY <1>1, <1>4 DEF IInv, HeldPidFile, WhyItEnds, Aside

-----------------------------------------------------------------------------
(* The recordings *)

LEMMA Seconds ==
  ASSUME IInv
  PROVE  /\ now \in Nat /\ recorded \in Nat /\ start \in Nat /\ files \subseteq Nat
         /\ MaxNow \in Nat /\ now <= MaxNow
BY BoundsAssumption DEF IInv, TypeOK

\* main() stays where it is, and the writer out of the way.
LEMMA RecordingsStay ==
  ASSUME IInv, now' = now \/ now' = now + 1, mpc' = mpc, Gone("wr") => Gone("wr")',
         UNCHANGED <<recorded, start, files>>
  PROVE  Recordings'
<1>1. recorded <= now' /\ start <= now' + 1 /\ \A f \in files : f <= now' + 1
  BY Seconds DEF IInv, Recordings
<1>. QED  BY <1>1 DEF IInv, Recordings

\* main() has other things to do.
LEMMA NoNewStart ==
  ASSUME IInv, mpc' # "start", UNCHANGED <<now, recorded, files>>,
         start' = start \/ start' = now + 1
  PROVE  Recordings'
BY Seconds DEF IInv, Recordings

-----------------------------------------------------------------------------
(* What happens beside main() *)

LEMMA EnvironmentStep ==
  ASSUME IInv, Tick \/ (\E s \in Signals : Kill(s)) PROVE IInv'
<1>1. /\ thread' = thread /\ Aside
      /\ UNCHANGED <<config, latched, clob, recorded, start, files>>
      /\ now' \in 0 .. MaxNow /\ sent' \in 0 .. MaxSignals /\ pending' \subseteq Signals
  <2>1. CASE Tick
    BY <2>1, BoundsAssumption DEF Tick, Aside, IInv, TypeOK, rxInit, recVars
  <2>2. CASE \E s \in Signals : Kill(s)
    BY <2>2, BoundsAssumption DEF Kill, Aside, IInv, TypeOK, rxInit, recVars
  <2>. QED  BY <2>1, <2>2
<1>2. TypeOK'
  BY <1>1 DEF IInv, TypeOK, Aside
<1>3. Phases' /\ HeldPidFile' /\ WhyItEnds'
  BY <1>1 DEF IInv, Phases, HeldPidFile, WhyItEnds, Aside, Gone
<1>4. now' = now \/ now' = now + 1
  BY DEF Tick, Kill
<1>5. Recordings'
  BY <1>1, <1>4, RecordingsStay DEF Aside, Gone
<1>. QED  BY <1>2, <1>3, <1>5 DEF IInv

LEMMA ThreadStep ==
  ASSUME IInv, (\E t \in Threads : Fails(t) \/ Ends(t)) \/ RxReady \/ RxInitThrows
  PROVE  IInv'
<1>1. CASE (\E t \in Threads : Fails(t) \/ Ends(t)) \/ RxInitThrows
  <2>1. PICK t \in Threads, s \in {"stopping", "ended"} : ~Gone(t) /\ Becomes(t, s)
    BY <1>1 DEF Fails, Ends, RxInitThrows, IsRunning, Gone, Threads
  <2>2. /\ Aside /\ UNCHANGED <<now, sent, config, latched, clob, recorded, pending, start, files>>
    BY <1>1 DEF Fails, Ends, RxInitThrows, Aside, clockVars, rxInit, recVars
  <2>3. Phases' /\ HeldPidFile' /\ WhyItEnds' /\ thread' \in [Threads -> States]
    BY <2>1, <2>2, ThreadEnds
  <2>4. TypeOK'
    BY <2>2, <2>3 DEF IInv, TypeOK, States, Aside
  <2>5. Gone("wr") => Gone("wr")'
    <3>1. \A u \in Threads : u # t => thread'[u] = thread[u]
      BY <2>1, OneThread DEF IInv, States
    <3>. QED  BY <2>1, <3>1 DEF Gone, Threads
  <2>6. Recordings'
    BY <2>2, <2>5, RecordingsStay DEF Aside
  <2>. QED  BY <2>3, <2>4, <2>6 DEF IInv
<1>2. CASE RxReady
  <2>1. /\ Aside /\ thread' = thread /\ latched' = TRUE /\ clob' \in 0 .. MaxNow + 2
        /\ UNCHANGED <<now, sent, config, pending, recorded, start, files>>
    BY <1>2, BoundsAssumption DEF RxReady, Aside, clockVars, recVars, IInv, TypeOK
  <2>2. TypeOK'
    BY <2>1 DEF IInv, TypeOK, Aside
  <2>3. Phases' /\ HeldPidFile' /\ WhyItEnds'
    BY <2>1 DEF IInv, Phases, HeldPidFile, WhyItEnds, Aside, Gone
  <2>4. Recordings'
    BY <2>1, RecordingsStay DEF Aside, Gone
  <2>. QED  BY <2>2, <2>3, <2>4 DEF IInv
<1>. QED  BY <1>1, <1>2

(* Samples are received and recorded. *)
LEMMA SamplesStep == ASSUME IInv, RxReceives \/ WrWrites PROVE IInv'
<1>1. /\ Aside /\ thread' = thread
      /\ UNCHANGED <<now, sent, config, latched, pending, start, files>>
  BY DEF RxReceives, WrWrites, Aside, clockVars, recVars, rxInit
<1>2. clob' \in 0 .. MaxNow + 2 /\ recorded' \in 0 .. MaxNow
  BY BoundsAssumption DEF RxReceives, WrWrites, recVars, rxInit, IInv, TypeOK
<1>3. TypeOK'
  BY <1>1, <1>2 DEF IInv, TypeOK, Aside
<1>4. Phases' /\ HeldPidFile' /\ WhyItEnds'
  BY <1>1 DEF IInv, Phases, HeldPidFile, WhyItEnds, Aside, Gone
<1>5. CASE RxReceives
  <2>1. recorded' = recorded
    BY <1>5 DEF RxReceives, recVars
  <2>2. Recordings'
    BY <1>1, <2>1, RecordingsStay DEF Aside, Gone
  <2>. QED  BY <1>3, <1>4, <2>2 DEF IInv
<1>6. CASE WrWrites
  <2>1. recorded' <= now /\ ~Gone("wr")
    BY <1>6, Seconds DEF WrWrites, InLoop, Gone
  <2>2. Recordings'
    BY <1>1, <2>1 DEF IInv, Recordings, Aside
  <2>. QED  BY <1>3, <1>4, <2>2 DEF IInv
<1>. QED  BY <1>5, <1>6

-----------------------------------------------------------------------------
(* main() *)

MainSteps == {"setup", "rx", "latch", "tx", "wait", "start", "reset", "check",
              "status", "unwind", "logger", "exited"}

(* A step of main() that leaves the threads alone. *)
LEMMA CalmStep ==
  ASSUME IInv, UNCHANGED <<now, sent, config, thread, latched, clob, recorded, files>>,
         pending' \subseteq Signals, start' \in 0 .. MaxNow + 1,
         pidfile' \in BOOLEAN, exitCode' \in {0, 1}, terminated' \in BOOLEAN,
         mpc \notin {"logger", "exited"}, mpc' \in MainSteps \ {"setup", "exited"},
         mpc = "unwind" => mpc' \in Ending,
         mpc' = "logger" => \A t \in Workers : Gone(t),
         HeldPidFile', WhyItEnds', Recordings'
  PROVE  IInv'
<1>1. TypeOK'
  BY DEF IInv, TypeOK, MainSteps
<1>2. Phases'
  BY DEF IInv, Phases, Gone, MainSteps, Ending
<1>. QED  BY <1>1, <1>2 DEF IInv

\* An exception before the end begins.
LEMMA ThrowStep == ASSUME IInv, mpc \in {"rx", "tx", "start", "status"}, Throw PROVE IInv'
<1>1. /\ exitCode' = 1 /\ mpc' = "unwind" /\ terminated' = terminated /\ pidfile' = pidfile
      /\ UNCHANGED <<now, sent, config, thread, latched, clob, recorded, files, pending, start>>
  BY DEF Throw, clockVars, rxInit, recVars
<1>2. HeldPidFile' /\ WhyItEnds'
  BY <1>1 DEF IInv, HeldPidFile, WhyItEnds, Ending
<1>3. /\ pending' \subseteq Signals /\ start' \in 0 .. MaxNow + 1
      /\ pidfile' \in BOOLEAN /\ terminated' \in BOOLEAN
  BY <1>1 DEF IInv, TypeOK
<1>. QED  BY <1>1, <1>2, <1>3, NoNewStart, CalmStep DEF MainSteps, Ending

LEMMA RefusedStep == ASSUME IInv, SetupRefused PROVE IInv'
<1>1. /\ mpc = "setup" /\ exitCode' = 1 /\ mpc' = "logger"
      /\ terminated' = terminated /\ pidfile' = pidfile
      /\ UNCHANGED <<now, sent, config, thread, latched, clob, recorded, files, pending, start>>
  BY DEF SetupRefused, clockVars, rxInit, recVars
<1>2. HeldPidFile' /\ WhyItEnds'
  BY <1>1 DEF IInv, HeldPidFile, WhyItEnds, Ending
<1>3. \A t \in Workers : Gone(t)
  BY <1>1 DEF IInv, Phases, Gone
<1>4. /\ pending' \subseteq Signals /\ start' \in 0 .. MaxNow + 1
      /\ pidfile' \in BOOLEAN /\ terminated' \in BOOLEAN
  BY <1>1 DEF IInv, TypeOK
<1>. QED  BY <1>1, <1>2, <1>3, <1>4, NoNewStart, CalmStep DEF MainSteps, Ending

\* The loop, as far as it starts and stops no thread.
LEMMA LoopStep ==
  ASSUME IInv, LatchWait \/ Timeout \/ Terminate \/ ToggleWriter \/ ToggleMute \/ Check \/ Status
  PROVE  IInv'
<1>1. /\ mpc \in {"latch", "wait", "check", "status"}
      /\ mpc' \in {"tx", "check", "start", "reset", "status", "wait", "unwind"}
      /\ pidfile' = pidfile
      /\ UNCHANGED <<now, sent, config, thread, latched, clob, recorded, files>>
  BY DEF LatchWait, Timeout, Terminate, ToggleWriter, ToggleMute, Check, Status, Take,
         clockVars, rxInit, recVars
<1>2. \/ mpc' # "unwind" /\ UNCHANGED <<exitCode, terminated>>
      \/ mpc' = "unwind" /\ exitCode' = 1 /\ terminated' = terminated
      \/ mpc' = "unwind" /\ exitCode' = exitCode /\ terminated' = TRUE
  BY DEF LatchWait, Timeout, Terminate, ToggleWriter, ToggleMute, Check, Status
<1>3. HeldPidFile' /\ WhyItEnds'
  BY <1>1, <1>2 DEF IInv, HeldPidFile, WhyItEnds, Ending
<1>4. pending' \subseteq pending
  BY DEF LatchWait, Timeout, Terminate, ToggleWriter, ToggleMute, Check, Status, Take
<1>5. start' = start \/ start' = now + 1
  BY DEF LatchWait, Timeout, Terminate, ToggleWriter, ToggleMute, Check, Status, recVars
<1>6. start' \in 0 .. MaxNow + 1
  BY <1>5, BoundsAssumption DEF IInv, TypeOK
<1>7. pending' \subseteq Signals /\ pidfile' \in BOOLEAN
      /\ exitCode' \in {0, 1} /\ terminated' \in BOOLEAN
  BY <1>1, <1>2, <1>4 DEF IInv, TypeOK
<1>8. Recordings'
  <2>1. CASE mpc' = "start"
    <3>1. ToggleWriter /\ Gone("wr") /\ start' = now + 1
      BY <1>1, <2>1 DEF LatchWait, Timeout, Terminate, ToggleWriter, ToggleMute, Check, Status
    <3>2. recorded < now + 1
      BY Seconds DEF IInv, Recordings
    <3>. QED  BY <1>1, <3>1, <3>2 DEF IInv, Recordings, Gone
  <2>2. CASE mpc' # "start"
    BY <1>1, <1>5, <2>2, NoNewStart
  <2>. QED  BY <2>1, <2>2
<1>. QED  BY <1>1, <1>3, <1>6, <1>7, <1>8, CalmStep DEF MainSteps, Ending

(* A thread is started before the end begins, which needs the PID file.    *)
LEMMA SpawnStep ==
  ASSUME IInv, NEW t \in Workers, Becomes(t, "running"),
         mpc \in {"setup", "rx", "tx", "start"}, mpc' \in {"rx", "latch", "wait", "check"},
         pidfile' = TRUE, UNCHANGED <<exitCode, terminated>>
  PROVE  Phases' /\ HeldPidFile' /\ WhyItEnds' /\ thread' \in [Threads -> States]
<1>1. t \in Threads /\ t # "logger"
  BY ThreadNames
<1>2. /\ thread' \in [Threads -> States] /\ thread'[t] = "running"
      /\ \A u \in Threads : u # t => thread'[u] = thread[u]
  BY <1>1, OneThread DEF IInv, States
<1>3. thread'["logger"] = thread["logger"] /\ thread'["rx"] \in {thread["rx"], "running"}
  BY <1>1, <1>2 DEF Threads
<1>4. Phases'
  BY <1>3 DEF IInv, Phases, Ending
<1>5. HeldPidFile' /\ WhyItEnds'
  BY DEF IInv, HeldPidFile, WhyItEnds, Ending
<1>. QED  BY <1>2, <1>4, <1>5

LEMMA SetupStep == ASSUME IInv, Setup \/ RxSpawn \/ TxSpawn PROVE IInv'
<1>1. /\ mpc \in {"setup", "rx", "tx"} /\ mpc' \in {"rx", "latch", "tx", "wait"}
      /\ pidfile' = TRUE /\ UNCHANGED <<exitCode, terminated>>
      /\ UNCHANGED <<now, sent, config, latched, clob, recorded, pending, start, files>>
  BY DEF Setup, RxSpawn, TxSpawn, clockVars, rxInit, recVars, IInv, HeldPidFile, TypeOK
<1>2. CASE thread' = thread
  <2>1. HeldPidFile' /\ WhyItEnds'
    BY <1>1 DEF IInv, HeldPidFile, WhyItEnds, Ending
  <2>2. /\ pending' \subseteq Signals /\ start' \in 0 .. MaxNow + 1
        /\ exitCode' \in {0, 1} /\ terminated' \in BOOLEAN
    BY <1>1 DEF IInv, TypeOK
  <2>. QED  BY <1>1, <1>2, <2>1, <2>2, NoNewStart, CalmStep DEF MainSteps, Ending
<1>3. CASE thread' # thread
  <2>1. PICK t \in {"mqtt", "rx", "tx"} : Becomes(t, "running")
    BY <1>3 DEF Setup, RxSpawn, TxSpawn
  <2>2. mpc' # "tx"
    BY <1>3 DEF Setup, RxSpawn, TxSpawn
  <2>3. Phases' /\ HeldPidFile' /\ WhyItEnds' /\ thread' \in [Threads -> States]
    BY <1>1, <2>1, <2>2, SpawnStep DEF Workers
  <2>4. TypeOK'
    BY <1>1, <2>3 DEF IInv, TypeOK, States
  <2>. QED  BY <1>1, <2>3, <2>4, NoNewStart DEF IInv
<1>. QED  BY <1>2, <1>3

\* A recording's file is named by the second it starts at.
LEMMA StartWriterStep == ASSUME IInv, StartWriter PROVE IInv'
<1>1. /\ mpc = "start" /\ mpc' = "check" /\ Becomes("wr", "running")
      /\ files' = files \cup {start} /\ pidfile' = TRUE
      /\ UNCHANGED <<now, sent, config, latched, clob, recorded, pending, start, exitCode, terminated>>
  BY DEF StartWriter, clockVars, rxInit, IInv, HeldPidFile, TypeOK
<1>2. Phases' /\ HeldPidFile' /\ WhyItEnds' /\ thread' \in [Threads -> States]
  BY <1>1, SpawnStep DEF Workers
<1>3. start \in 1 .. MaxNow + 1
  BY <1>1, BoundsAssumption DEF Recordings, IInv, TypeOK
<1>4. TypeOK'
  BY <1>1, <1>2, <1>3 DEF IInv, TypeOK, States
<1>5. start <= now + 1
  BY <1>1 DEF IInv, Recordings
<1>6. Recordings'
  BY <1>1, <1>5 DEF IInv, Recordings
<1>. QED  BY <1>2, <1>4, <1>6 DEF IInv

-----------------------------------------------------------------------------
(* The end *)

(* The writer is joined while the receiver is still there: before the end  *)
(* begins, or first.                                                       *)
LEMMA JoinStep ==
  ASSUME IInv, NEW t \in Workers, Join(t), mpc \notin {"setup", "logger", "exited"},
         mpc' = mpc \/ (mpc = "reset" /\ mpc' = "check"),
         UNCHANGED <<pidfile, exitCode, terminated>>,
         t = "rx" => Gone("wr") /\ mpc \in Ending
  PROVE  Phases' /\ HeldPidFile' /\ WhyItEnds' /\ thread' \in [Threads -> States]
<1>1. t \in Threads /\ t # "logger" /\ Becomes(t, "joined")
  BY ThreadNames DEF Join
<1>2. /\ thread' \in [Threads -> States] /\ thread'[t] = "joined"
      /\ \A u \in Threads : u # t => thread'[u] = thread[u]
  BY <1>1, OneThread DEF IInv, States
<1>3. thread'["logger"] = thread["logger"]
  BY <1>1, <1>2 DEF Threads
<1>4. \A u \in Threads : Gone(u) => Gone(u)'
  BY <1>2 DEF Gone
<1>5. thread'["rx"] = "joined" => Gone("wr")' /\ mpc \in Ending
  <2>1. "wr" \in Threads /\ "rx" \in Threads
    BY DEF Threads
  <2>2. CASE t = "rx"
    BY <2>1, <2>2, <1>4
  <2>3. CASE t # "rx"
    BY <2>1, <2>3, <1>2, <1>4 DEF IInv, Phases
  <2>. QED  BY <2>2, <2>3
<1>6. Phases'
  BY <1>3, <1>5 DEF IInv, Phases, Ending
<1>. QED  BY <1>2, <1>6 DEF IInv, HeldPidFile, WhyItEnds, Ending

LEMMA StopWorkerStep ==
  ASSUME IInv, NEW t \in Threads, Stop(t), Aside
  PROVE  Phases' /\ HeldPidFile' /\ WhyItEnds' /\ thread' \in [Threads -> States]
<1>1. ~Gone(t) /\ Becomes(t, "stopping")
  BY DEF Stop, Gone
<1>. QED  BY <1>1, ThreadEnds

LEMMA ResetStep == ASSUME IInv, ResetWriter PROVE IInv'
<1>1. UNCHANGED <<now, sent, config, latched, clob, recorded, pending, start, files,
                  pidfile, exitCode, terminated>>
  BY DEF ResetWriter, clockVars, rxInit, recVars
<1>2. Phases' /\ HeldPidFile' /\ WhyItEnds' /\ thread' \in [Threads -> States]
  <2>1. CASE Stop("wr") /\ mpc' = mpc
    BY <1>1, <2>1, StopWorkerStep DEF Aside, Threads
  <2>2. CASE Join("wr") /\ mpc = "reset" /\ mpc' = "check"
    BY <1>1, <2>2, JoinStep DEF Workers
  <2>. QED  BY <2>1, <2>2 DEF ResetWriter
<1>3. mpc' \in {"reset", "check"}
  BY DEF ResetWriter
<1>4. TypeOK'
  BY <1>1, <1>2, <1>3 DEF IInv, TypeOK, States
<1>. QED  BY <1>1, <1>2, <1>3, <1>4, NoNewStart DEF IInv

\* The order in which local variables are destroyed.
LEMMA Order ==
  /\ DOMAIN Destruction = 1 .. 4 /\ Destruction[1] = "wr" /\ Destruction[2] = "tx"
  /\ Destruction[3] = "rx" /\ Destruction[4] = "mqtt"
BY DEF Destruction

LEMMA UnwindStep == ASSUME IInv, Unwind PROVE IInv'
<1>1. /\ mpc = "unwind" /\ Aside
      /\ UNCHANGED <<now, sent, config, latched, clob, recorded, pending, start, files>>
  BY DEF Unwind, Aside, clockVars, rxInit, recVars
<1>2. PICK i \in DOMAIN Destruction :
        /\ \A j \in 1 .. i - 1 : Gone(Destruction[j])
        /\ Stop(Destruction[i]) \/ Join(Destruction[i])
  BY DEF Unwind
<1> DEFINE d == Destruction[i]
<1>3. d \in Workers /\ d \in Threads /\ (d = "rx" => i = 3)
  BY <1>2, Order DEF Workers, Threads
<1>4. d = "rx" => Gone("wr")
  BY <1>2, <1>3, Order
<1> HIDE DEF d
<1>5. Phases' /\ HeldPidFile' /\ WhyItEnds' /\ thread' \in [Threads -> States]
  <2>1. CASE Stop(d)
    BY <2>1, <1>1, <1>3, StopWorkerStep
  <2>2. CASE Join(d)
    BY <2>2, <1>1, <1>3, <1>4, JoinStep DEF Aside, Ending
  <2>. QED  BY <2>1, <2>2, <1>2 DEF d
<1>6. TypeOK'
  BY <1>1, <1>5 DEF IInv, TypeOK, States, Aside
<1>. QED  BY <1>1, <1>5, <1>6, NoNewStart DEF IInv, Aside

LEMMA UnwoundStep == ASSUME IInv, Unwound PROVE IInv'
<1>1. /\ mpc = "unwind" /\ mpc' = "logger" /\ pidfile' = FALSE
      /\ UNCHANGED <<now, sent, config, thread, latched, clob, recorded, pending, start, files,
                     exitCode, terminated>>
  BY DEF Unwound, clockVars, rxInit, recVars
<1>2. \A t \in Workers : Gone(t)
  <2>1. \A i \in 1 .. 4 : Gone(Destruction[i])
    BY Order DEF Unwound
  <2>. QED  BY <2>1, Order DEF Workers
<1>3. HeldPidFile' /\ WhyItEnds'
  BY <1>1 DEF IInv, HeldPidFile, WhyItEnds, Ending
<1>4. /\ pending' \subseteq Signals /\ start' \in 0 .. MaxNow + 1
      /\ exitCode' \in {0, 1} /\ terminated' \in BOOLEAN
  BY <1>1 DEF IInv, TypeOK
<1>. QED  BY <1>1, <1>2, <1>3, <1>4, NoNewStart, CalmStep DEF MainSteps, Ending

LEMMA StopLoggerStep == ASSUME IInv, StopLogger PROVE IInv'
<1>1. /\ mpc = "logger" /\ "logger" \in Threads
      /\ UNCHANGED <<now, sent, config, latched, clob, recorded, pending, start, files,
                     pidfile, exitCode, terminated>>
  BY DEF StopLogger, clockVars, rxInit, recVars, Threads
<1>2. Phases' /\ HeldPidFile' /\ WhyItEnds' /\ thread' \in [Threads -> States]
  <2>1. CASE Stop("logger") /\ mpc' = mpc
    BY <1>1, <2>1, StopWorkerStep DEF Aside
  <2>2. CASE Join("logger") /\ mpc' = "exited"
    <3>1. Becomes("logger", "joined")
      BY <2>2 DEF Join
    <3>2. /\ thread' \in [Threads -> States] /\ thread'["logger"] = "joined"
          /\ \A u \in Threads : u # "logger" => thread'[u] = thread[u]
      BY <1>1, <3>1, OneThread DEF IInv, States
    <3>3. \A u \in Workers : thread'[u] = thread[u] /\ Gone(u)
      BY <1>1, <3>2, ThreadNames DEF IInv, Phases
    <3>4. "rx" \in Workers /\ "wr" \in Workers
      BY DEF Workers
    <3>5. Phases'
      BY <2>2, <3>2, <3>3, <3>4 DEF Phases, Gone, Ending
    <3>6. HeldPidFile' /\ WhyItEnds'
      BY <1>1, <2>2 DEF IInv, HeldPidFile, WhyItEnds, Ending
    <3>. QED  BY <3>2, <3>5, <3>6
  <2>. QED  BY <2>1, <2>2 DEF StopLogger
<1>3. mpc' \in {"logger", "exited"}
  BY <1>1 DEF StopLogger
<1>4. TypeOK'
  BY <1>1, <1>2, <1>3 DEF IInv, TypeOK, States
<1>. QED  BY <1>1, <1>2, <1>3, <1>4, NoNewStart DEF IInv

-----------------------------------------------------------------------------
(* The phases of main(), the PID file and the exit code fit each other in  *)
(* every state.                                                            *)
THEOREM Invariance == Spec => []IInv
<1>1. Init => IInv
  <2> SUFFICES ASSUME Init PROVE IInv
    OBVIOUS
  <2>1. TypeOK
    <3>1. thread \in [Threads -> States]
      BY DEF Init, States
    <3>2. config \subseteq {"mqtt", "rx", "tx"} /\ pending \subseteq Signals /\ files = {}
      BY DEF Init
    <3>3. /\ now \in 0 .. MaxNow /\ sent \in 0 .. MaxSignals /\ clob \in 0 .. MaxNow + 2
          /\ start \in 0 .. MaxNow + 1 /\ recorded \in 0 .. MaxNow
      BY BoundsAssumption DEF Init
    <3>. QED  BY <3>1, <3>2, <3>3 DEF Init, TypeOK, States
  <2>2. Phases
    BY DEF Init, Phases, Threads, Workers
  <2>3. Recordings
    BY DEF Init, Recordings
  <2>. QED  BY <2>1, <2>2, <2>3 DEF Init, IInv, HeldPidFile, WhyItEnds, Ending
<1>2. IInv /\ [Next]_vars => IInv'
  <2> SUFFICES ASSUME IInv, [Next]_vars PROVE IInv'
    OBVIOUS
  <2>1. CASE MainStep
    <3>1. CASE SetupThrows \/ StartThrows \/ StatusThrows
      BY <3>1, ThrowStep DEF SetupThrows, StartThrows, StatusThrows
    <3>. QED
      BY <3>1, <2>1, RefusedStep, LoopStep, SetupStep, StartWriterStep, ResetStep, UnwindStep,
         UnwoundStep, StopLoggerStep DEF MainStep
  <2>2. CASE UNCHANGED vars
    BY <2>2 DEF vars, IInv, TypeOK, Phases, HeldPidFile, WhyItEnds, Recordings, Gone
  <2>. QED  BY <2>1, <2>2, EnvironmentStep, ThreadStep, SamplesStep DEF Next
<1>. QED  BY <1>1, <1>2, PTL DEF Spec

(* Every variable stays within its type. *)
THEOREM Types == Spec => []TypeOK
<1>1. IInv => TypeOK
  BY DEF IInv
<1>. QED  BY <1>1, Invariance, PTL

(* Whatever ends the program, the writer is joined before the receiver,    *)
(* every thread before the logger, none is left at the end, and the PID    *)
(* file is there as long as a thread may use the USRP.                     *)
THEOREM Orderly == Spec => []OrderlyShutdown
<1>1. IInv => OrderlyShutdown
  <2> SUFFICES ASSUME IInv PROVE OrderlyShutdown
    OBVIOUS
  <2>1. mpc = "exited" => \A t \in Threads : Gone(t)
    BY ThreadNames DEF IInv, Phases, Gone
  <2>2. (\E t \in {"rx", "tx", "wr"} : ~Gone(t)) => pidfile
    BY DEF IInv, Phases, HeldPidFile, Gone, Workers
  <2>. QED  BY <2>1, <2>2 DEF IInv, Phases, OrderlyShutdown
<1>. QED  BY <1>1, Invariance, PTL

(* The exit code is zero just if a signal ended the program.               *)
THEOREM Truthful == Spec => []ExitCodeIsTruthful
<1>1. IInv => ExitCodeIsTruthful
  BY DEF IInv, WhyItEnds, Ending, ExitCodeIsTruthful
<1>. QED  BY <1>1, Invariance, PTL

\* Only StartWriter() starts the writer.
LEMMA OthersStartNoWriter ==
  ASSUME IInv, Next, ~StartWriter
  PROVE  files' = files /\ (thread'["wr"] = "running" => thread["wr"] = "running")
<1>0. \A t \in Threads, s \in States :
        Becomes(t, s) /\ (t # "wr" \/ s # "running")
          => (thread'["wr"] = "running" => thread["wr"] = "running")
  BY OneThread DEF IInv, Threads
<1>1. CASE Tick \/ (\E s \in Signals : Kill(s)) \/ RxReady \/ RxReceives \/ WrWrites
  BY <1>1 DEF Tick, Kill, RxReady, RxReceives, WrWrites, recVars
<1>2. CASE (\E t \in Threads : Fails(t) \/ Ends(t)) \/ RxInitThrows
  <2>1. files' = files
    BY <1>2 DEF Fails, Ends, RxInitThrows, recVars
  <2>2. PICK t \in Threads, s \in {"stopping", "ended"} : Becomes(t, s)
    BY <1>2 DEF Fails, Ends, RxInitThrows, Threads
  <2>. QED  BY <2>1, <2>2, <1>0 DEF States
<1>3. CASE Setup \/ RxSpawn \/ TxSpawn
  <2>1. files' = files
    BY <1>3 DEF Setup, RxSpawn, TxSpawn, recVars
  <2>2. thread' = thread \/ \E t \in {"mqtt", "rx", "tx"} : Becomes(t, "running")
    BY <1>3 DEF Setup, RxSpawn, TxSpawn
  <2>. QED  BY <2>1, <2>2, <1>0 DEF States, Threads
<1>4. CASE ResetWriter \/ Unwind \/ StopLogger
  <2>1. files' = files
    BY <1>4 DEF ResetWriter, Unwind, StopLogger, recVars
  <2>2. \E t \in Threads : Stop(t) \/ Join(t)
    BY <1>4, Order DEF ResetWriter, Unwind, StopLogger, Threads
  <2>3. \E t \in Threads, s \in {"stopping", "joined"} : Becomes(t, s)
    BY <2>2 DEF Stop, Join
  <2>. QED  BY <2>1, <2>3, <1>0 DEF States
<1>5. CASE \/ LatchWait \/ Timeout \/ Terminate \/ ToggleWriter \/ ToggleMute \/ Check \/ Status
           \/ Unwound \/ SetupThrows \/ SetupRefused \/ StartThrows \/ StatusThrows
  BY <1>5 DEF LatchWait, Timeout, Terminate, ToggleWriter, ToggleMute, Check, Status, Unwound,
     SetupThrows, SetupRefused, StartThrows, StatusThrows, Throw, recVars
<1>. QED  BY <1>1, <1>2, <1>3, <1>4, <1>5 DEF Next, MainStep

(* Whatever signals come when, and however long the opening of the file    *)
(* takes: a recording follows whatever was recorded before, and starts     *)
(* later than every other.                                                 *)
THEOREM NewRecordings == Spec => RecordingsFollow
<1> DEFINE Opened == files' # files \/ (IsRunning("wr")' /\ ~IsRunning("wr"))
           New == Opened => recorded < start /\ \A f \in files : f < start
<1>1. IInv /\ [Next]_vars => [New]_vars
  <2> SUFFICES ASSUME IInv, Next PROVE New
    OBVIOUS
  <2>1. CASE StartWriter
    <3>1. recorded < start /\ (\A f \in files : f <= start) /\ start \notin files
      BY <2>1 DEF StartWriter, IInv, Recordings
    <3>2. \A f \in files : f < start
      BY <3>1, Seconds
    <3>. QED  BY <3>1, <3>2
  <2>2. CASE ~StartWriter
    BY <2>2, OthersStartNoWriter DEF IsRunning
  <2>. QED  BY <2>1, <2>2
<1>. QED  BY <1>1, Invariance, PTL DEF Spec, RecordingsFollow

=============================================================================
