-------------------------------- MODULE Main --------------------------------
(***************************************************************************)
(* The process: main() of src/src/main.cpp, which starts the threads of    *)
(* the other components, then handles signals and supervises the threads   *)
(* ten times per second, and at the end destroys everything in the reverse *)
(* order of its construction.                                              *)
(*                                                                         *)
(* Time is the USRP's full seconds.  What the threads do while they run is *)
(* the subject of the other modules; here they run, fail or stop.          *)
(***************************************************************************)
EXTENDS Integers, Sequences, FiniteSets

CONSTANTS MaxNow,      \* bound: last second
          MaxSignals   \* bound: signals sent to the process

ASSUME BoundsAssumption == MaxNow \in Nat /\ MaxSignals \in Nat

VARIABLES
  now,          \* the USRP's time
  config,       \* components that are configured besides the logger
  mpc,          \* next step of main()
  thread,       \* component -> "none", "running", "stopping", "ended", "joined"
  latched,      \* the Rx thread has counted down worker_latch
  clob,         \* second the Rx thread has announced to fill, at first the stream's start
  recorded,     \* history: second up to which the writers have written
  pending,      \* blocked signals that wait for sigtimedwait()
  sent,         \* signals sent so far
  start,        \* start_nsec of the recording
  files,        \* start times of the recordings on disk
  pidfile,      \* the PID file exists
  exitCode,     \* exit_code
  terminated    \* history: SIGINT or SIGTERM was received

clockVars == <<now, sent, config>>
recVars == <<start, files, recorded>>
rxInit == <<latched, clob>>
vars == <<now, config, mpc, thread, latched, clob, recorded, pending, sent, start,
          files, pidfile, exitCode, terminated>>

Threads == {"logger", "mqtt", "rx", "tx", "wr"}
Signals == {"term", "usr1", "usr2"}   \* "term" is SIGINT or SIGTERM

Init ==
  /\ now = 0 /\ mpc = "setup"
  /\ config \in SUBSET {"mqtt", "rx", "tx"}
  /\ thread = [t \in Threads |-> IF t = "logger" THEN "running" ELSE "none"]
  /\ latched = FALSE /\ clob = 0 /\ recorded = 0
  /\ pending = {} /\ sent = 0
  /\ start = 0 /\ files = {}
  /\ pidfile = FALSE /\ exitCode = 0 /\ terminated = FALSE

Becomes(t, s) == thread' = [thread EXCEPT ![t] = s]
IsRunning(t) == thread[t] = "running"
Gone(t) == thread[t] \in {"none", "joined"}

-----------------------------------------------------------------------------
(* The environment *)

Tick ==
  /\ now < MaxNow
  /\ now' = now + 1
  /\ UNCHANGED <<config, mpc, thread, rxInit, pending, sent, recVars, pidfile,
                 exitCode, terminated>>

(* A blocked signal that is pending already is not counted twice. *)
Kill(s) ==
  /\ sent < MaxSignals /\ mpc # "exited"
  /\ sent' = sent + 1
  /\ pending' = pending \cup {s}
  /\ UNCHANGED <<now, config, mpc, thread, rxInit, recVars, pidfile, exitCode,
                 terminated>>

-----------------------------------------------------------------------------
(* The threads *)

(* A worker gives up: it clears its run flag. *)
Fails(t) ==
  /\ IsRunning(t) /\ (t = "rx" => latched)
  /\ Becomes(t, "stopping")
  /\ UNCHANGED <<clockVars, mpc, rxInit, pending, recVars, pidfile, exitCode, terminated>>

(* A worker whose run flag is cleared leaves its loop. *)
Ends(t) ==
  /\ thread[t] = "stopping" /\ (t = "rx" => latched)
  /\ Becomes(t, "ended")
  /\ UNCHANGED <<clockVars, mpc, rxInit, pending, recVars, pidfile, exitCode, terminated>>

(* The Rx thread has set up its stream to start on a full second at least  *)
(* half a second ahead.                                                    *)
RxReady ==
  /\ IsRunning("rx") /\ ~latched
  /\ latched' = TRUE
  /\ clob' \in {now + 1, now + 2}
  /\ UNCHANGED <<clockVars, mpc, thread, pending, recVars, pidfile, exitCode, terminated>>

(* It could not: an exception, and the latch is never counted down. *)
RxInitThrows ==
  /\ IsRunning("rx") /\ ~latched
  /\ Becomes("rx", "ended")
  /\ UNCHANGED <<clockVars, mpc, rxInit, pending, recVars, pidfile, exitCode, terminated>>

InLoop(t) == thread[t] \in {"running", "stopping"}

(* Packets arrive, in time or late, and the next one is announced before   *)
(* it is received.                                                         *)
RxReceives ==
  /\ InLoop("rx") /\ latched
  /\ clob' \in clob + 1 .. now + 1
  /\ UNCHANGED <<clockVars, mpc, thread, latched, pending, recVars, pidfile,
                 exitCode, terminated>>

(* The writer follows the Rx thread. *)
WrWrites ==
  /\ InLoop("wr")
  /\ recorded' \in {r \in recorded + 1 .. now : start <= r /\ r <= clob}
  /\ UNCHANGED <<clockVars, mpc, thread, rxInit, pending, start, files, pidfile,
                 exitCode, terminated>>

-----------------------------------------------------------------------------
(* main(), before the loop *)

Throw ==
  /\ exitCode' = 1 /\ mpc' = "unwind"
  /\ UNCHANGED <<clockVars, thread, rxInit, pending, recVars, pidfile, terminated>>

(* PID file, MQTT client, USRP: any of them may fail. *)
Setup ==
  /\ mpc = "setup"
  /\ pidfile' = TRUE
  /\ IF "mqtt" \in config THEN Becomes("mqtt", "running") ELSE UNCHANGED thread
  /\ mpc' = "rx"
  /\ UNCHANGED <<clockVars, rxInit, pending, recVars, exitCode, terminated>>

SetupThrows == mpc \in {"rx", "tx"} /\ Throw

(* Someone else's PID file: nothing has been started but the logger. *)
SetupRefused ==
  /\ mpc = "setup"
  /\ exitCode' = 1 /\ mpc' = "logger"
  /\ UNCHANGED <<clockVars, thread, rxInit, pending, recVars, pidfile, terminated>>

(* Rx(): start the thread, *)
RxSpawn ==
  /\ mpc = "rx"
  /\ IF "rx" \in config THEN Becomes("rx", "running") /\ mpc' = "latch"
                        ELSE UNCHANGED thread /\ mpc' = "tx"
  /\ UNCHANGED <<clockVars, rxInit, pending, recVars, pidfile, exitCode, terminated>>

(* and wait on the latch. *)
LatchWait ==
  /\ mpc = "latch" /\ latched
  /\ mpc' = "tx"
  /\ UNCHANGED <<clockVars, thread, rxInit, pending, recVars, pidfile, exitCode, terminated>>

TxSpawn ==
  /\ mpc = "tx"
  /\ IF "tx" \in config THEN Becomes("tx", "running") ELSE UNCHANGED thread
  /\ mpc' = "wait"
  /\ UNCHANGED <<clockVars, rxInit, pending, recVars, pidfile, exitCode, terminated>>

-----------------------------------------------------------------------------
(* The loop: sigtimedwait() yields at most one signal *)

Take(s) == s \in pending /\ pending' = pending \ {s}

Timeout ==
  /\ mpc = "wait" /\ pending = {}
  /\ mpc' = "check"
  /\ UNCHANGED <<clockVars, thread, rxInit, pending, recVars, pidfile, exitCode, terminated>>

Terminate ==
  /\ mpc = "wait" /\ Take("term")
  /\ mpc' = "unwind" /\ terminated' = TRUE
  /\ UNCHANGED <<clockVars, thread, rxInit, recVars, pidfile, exitCode>>

(* SIGUSR1 stops the writer if there is one, failed or not; otherwise a    *)
(* recording is to start on the next full second.                          *)
ToggleWriter ==
  /\ mpc = "wait" /\ Take("usr1")
  /\ IF "rx" \notin config THEN mpc' = "check" /\ UNCHANGED start
     ELSE IF ~Gone("wr") THEN mpc' = "reset" /\ UNCHANGED start
     ELSE mpc' = "start" /\ start' = now + 1
  /\ UNCHANGED <<clockVars, thread, rxInit, files, recorded, pidfile, exitCode, terminated>>

(* SIGUSR2 flips the Tx thread's flag (see Tx). *)
ToggleMute ==
  /\ mpc = "wait" /\ Take("usr2")
  /\ mpc' = "check"
  /\ UNCHANGED <<clockVars, thread, rxInit, recVars, pidfile, exitCode, terminated>>

(* get_tail() throws: the stream starts later, or at that very time, or    *)
(* the Rx thread has announced to fill that place.  A start that has just  *)
(* passed is accepted as long as the Rx thread lags behind.                *)
TailRefused == start <= clob

\* Mutant: an existing file is opened and overwritten.
StartWriterOver ==
  /\ mpc = "start" /\ ~TailRefused
  /\ Becomes("wr", "running") /\ files' = files \cup {start}
  /\ mpc' = "check"
  /\ UNCHANGED <<clockVars, rxInit, pending, start, recorded, pidfile, exitCode,
                 terminated>>

(* Wr() opens files that must not exist. *)
StartWriter ==
  /\ mpc = "start" /\ ~TailRefused /\ start \notin files
  /\ Becomes("wr", "running") /\ files' = files \cup {start}
  /\ mpc' = "check"
  /\ UNCHANGED <<clockVars, rxInit, pending, start, recorded, pidfile, exitCode,
                 terminated>>

(* Wr() throws: for one of these reasons, or because the file cannot be    *)
(* created.                                                                *)
StartThrows == mpc = "start" /\ Throw

(* ~Wr(): stop and join. *)
Stop(t) == thread[t] = "running" /\ Becomes(t, "stopping")
Join(t) == thread[t] = "ended" /\ Becomes(t, "joined")

ResetWriter ==
  /\ mpc = "reset"
  /\ \/ /\ Stop("wr") /\ UNCHANGED mpc
     \/ /\ Join("wr") /\ mpc' = "check"
  /\ UNCHANGED <<clockVars, rxInit, pending, recVars, pidfile, exitCode, terminated>>

Watched == {"logger"} \cup config

\* Mutant: only the threads that stream are watched.
CheckStreamsOnly ==
  /\ mpc = "check"
  /\ IF \A t \in config \ {"mqtt"} : IsRunning(t)
     THEN mpc' = "status" /\ UNCHANGED exitCode
     ELSE mpc' = "unwind" /\ exitCode' = 1
  /\ UNCHANGED <<clockVars, thread, rxInit, pending, recVars, pidfile, terminated>>

\* Mutant: the program ends, but as if it had been asked to.
CheckQuietly ==
  /\ mpc = "check"
  /\ mpc' = IF \A t \in Watched : IsRunning(t) THEN "status" ELSE "unwind"
  /\ UNCHANGED <<clockVars, thread, rxInit, pending, recVars, pidfile, exitCode, terminated>>

(* A stopped thread, but for the writer, ends the program. *)
Check ==
  /\ mpc = "check"
  /\ IF \A t \in Watched : IsRunning(t)
     THEN mpc' = "status" /\ UNCHANGED exitCode
     ELSE mpc' = "unwind" /\ exitCode' = 1
  /\ UNCHANGED <<clockVars, thread, rxInit, pending, recVars, pidfile, terminated>>

(* Status line and MQTT publication, which read but change nothing here. *)
Status ==
  /\ mpc = "status"
  /\ mpc' = "wait"
  /\ UNCHANGED <<clockVars, thread, rxInit, pending, recVars, pidfile, exitCode, terminated>>

StatusThrows == mpc = "status" /\ Throw

-----------------------------------------------------------------------------
(* The end: local variables are destroyed in reverse order *)

\* Mutant: the receiver is destroyed before the writer.
DestructionRxFirst == <<"rx", "wr", "tx", "mqtt">>

Destruction == <<"wr", "tx", "rx", "mqtt">>

\* Mutant: a destructor joins its thread without stopping it.
UnwindJoinOnly ==
  /\ mpc = "unwind"
  /\ \E i \in DOMAIN Destruction :
       /\ \A j \in 1 .. i - 1 : Gone(Destruction[j])
       /\ Join(Destruction[i])
  /\ UNCHANGED <<clockVars, mpc, rxInit, pending, recVars, pidfile, exitCode, terminated>>

(* Stop or join the first component that is still there. *)
Unwind ==
  /\ mpc = "unwind"
  /\ \E i \in DOMAIN Destruction :
       /\ \A j \in 1 .. i - 1 : Gone(Destruction[j])
       /\ Stop(Destruction[i]) \/ Join(Destruction[i])
  /\ UNCHANGED <<clockVars, mpc, rxInit, pending, recVars, pidfile, exitCode, terminated>>

(* All are gone: remove the PID file. *)
Unwound ==
  /\ mpc = "unwind" /\ \A i \in DOMAIN Destruction : Gone(Destruction[i])
  /\ pidfile' = FALSE
  /\ mpc' = "logger"
  /\ UNCHANGED <<clockVars, thread, rxInit, pending, recVars, exitCode, terminated>>

(* ~Logger(), and the process ends. *)
StopLogger ==
  /\ mpc = "logger"
  /\ \/ Stop("logger") /\ UNCHANGED mpc
     \/ Join("logger") /\ mpc' = "exited"
  /\ UNCHANGED <<clockVars, rxInit, pending, recVars, pidfile, exitCode, terminated>>

MainStep ==
  \/ Setup \/ RxSpawn \/ LatchWait \/ TxSpawn
  \/ Timeout \/ Terminate \/ ToggleWriter \/ ToggleMute \/ StartWriter
  \/ ResetWriter \/ Check \/ Status
  \/ Unwind \/ Unwound \/ StopLogger
  \/ SetupThrows \/ SetupRefused \/ StartThrows \/ StatusThrows

Next ==
  \/ Tick
  \/ \E s \in Signals : Kill(s)
  \/ \E t \in Threads : Fails(t) \/ Ends(t)
  \/ RxReady \/ RxInitThrows \/ RxReceives \/ WrWrites
  \/ MainStep

Spec == Init /\ [][Next]_vars

(* main() and the threads are scheduled; what they wait for in UHD, in the *)
(* file system and in the network library returns.                         *)
FairSpec ==
  /\ Spec
  /\ WF_vars(MainStep)
  /\ \A t \in Threads : WF_vars(Ends(t))
  /\ WF_vars(RxReady \/ RxInitThrows)

-----------------------------------------------------------------------------
TypeOK ==
  /\ now \in 0 .. MaxNow /\ sent \in 0 .. MaxSignals
  /\ config \subseteq {"mqtt", "rx", "tx"}
  /\ mpc \in {"setup", "rx", "latch", "tx", "wait", "start", "reset", "check",
              "status", "unwind", "logger", "exited"}
  /\ thread \in [Threads -> {"none", "running", "stopping", "ended", "joined"}]
  /\ latched \in BOOLEAN /\ clob \in 0 .. MaxNow + 2 /\ recorded \in 0 .. MaxNow
  /\ pending \subseteq Signals
  /\ start \in 0 .. MaxNow + 1 /\ files \subseteq 1 .. MaxNow + 1
  /\ pidfile \in BOOLEAN /\ exitCode \in {0, 1} /\ terminated \in BOOLEAN

(* Whatever ends the program, and whenever: the writer is joined while the *)
(* receiver it reads from still exists, every thread is joined before the  *)
(* logger it writes to (logging.cpp:735), and none is left when it exits.  *)
(* The PID file is there as long as a thread uses the USRP, so that no     *)
(* second process gets hold of it.                                         *)
OrderlyShutdown ==
  /\ thread["rx"] = "joined" => Gone("wr")
  /\ thread["logger"] = "joined" => \A t \in Threads : Gone(t)
  /\ mpc = "exited" => \A t \in Threads : Gone(t)
  /\ (\E t \in {"rx", "tx", "wr"} : ~Gone(t)) => pidfile

(* The exit code says whether the program ended because it was asked to.  *)
ExitCodeIsTruthful == mpc = "exited" => (exitCode = 0 <=> terminated)

(* The file is opened some time after its start was chosen, and SIGUSR1    *)
(* may come at any moment, several times in a second included: all the     *)
(* same a recording follows whatever was recorded before, so that no       *)
(* sample is in two recordings, and starts later than every other, so that *)
(* the start tells them apart.                                             *)
RecordingsFollow ==
  [][(files' # files \/ (IsRunning("wr")' /\ ~IsRunning("wr")))
       => recorded < start /\ \A f \in files : f < start]_vars

(* main() waits for a thread that has ended. *)
StuckOnLatch == mpc = "latch" /\ ~latched /\ thread["rx"] = "ended"

(* A thread that stopped, but for the writer, ends the program, unless it  *)
(* was the Rx thread, before it had set up its stream.                     *)
FailureIsNoticed ==
  \A t \in Threads \ {"wr"} :
    (thread[t] = "ended") ~> (mpc = "exited" \/ StuckOnLatch)

(* SIGINT and SIGTERM end the program from any step of main() and of the   *)
(* threads, with the same exception.  The set-up is a single step here     *)
(* that ends; the waits within it are the subject of NeverHeldUp in        *)
(* Startup.                                                                *)
TerminationEnds == ("term" \in pending) ~> (mpc = "exited" \/ StuckOnLatch)

(* README:137 "Graceful shutdown: stop streaming, flush buffers, close     *)
(* files, exit", without exception.                                        *)
TerminationAlwaysEnds == ("term" \in pending) ~> (mpc = "exited")

=============================================================================
