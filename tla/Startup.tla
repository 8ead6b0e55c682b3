------------------------------- MODULE Startup -------------------------------
(***************************************************************************)
(* main() of src/src/main.cpp from the MQTT client to the loop, and what   *)
(* it does with the MQTT client from then on: start the client, connect to *)
(* the USRP, set its rates, synchronise its time, tune it, publish; at the *)
(* end, or after an exception, stop the client.                            *)
(*                                                                         *)
(* Sync and MqttClient are the components it drives; the streaming threads *)
(* and the signals are in Main.                                            *)
(***************************************************************************)
EXTENDS Sync, MqttClient

VARIABLES
  mpc,      \* next step of main()
  toTune,   \* directions that are configured and not tuned yet
  loLocks   \* the oscillators of the direction being tuned lock

tuning == <<toTune, loLocks>>
vars == <<syncVars, mqttVars, mpc, tuning>>

Init ==
  /\ InitSync /\ InitMqtt
  /\ mpc = "mqtt" /\ toTune = {} /\ loLocks = FALSE

Goes(from, to) == mpc = from /\ mpc' = to

-----------------------------------------------------------------------------
(* An MQTT client, unless none is configured.  An exception, here as       *)
(* below, ends the program, which destroys what there is.                  *)
StartClient ==
  /\ \/ Goes("mqtt", "usrp") /\ (MqttCreate \/ UNCHANGED mqttVars)
     \/ Goes("mqtt", "stop") /\ MqttCreateThrows
  /\ UNCHANGED <<syncVars, tuning>>

MakeUsrp ==
  /\ Goes("usrp", "rates")
  /\ UNCHANGED <<syncVars, mqttVars, tuning>>

(* Setting a rate may change the master clock rate, so that the time is    *)
(* synchronised only afterwards.                                           *)
SetRates ==
  /\ Goes("rates", "sync") /\ Jump
  /\ UNCHANGED <<mqttVars, tuning>>

Synchronise ==
  /\ mpc = "sync" /\ SyncStep
  /\ UNCHANGED <<mqttVars, mpc, tuning>>

Synchronised ==
  /\ spc = "done" /\ Goes("sync", "tune")
  /\ toTune' \in SUBSET {"rx", "tx"}
  /\ UNCHANGED <<syncVars, mqttVars, loLocks>>

(* Tune all channels of a direction, whose oscillators may or may not lock *)
Tune ==
  /\ toTune # {} /\ Goes("tune", "lo")
  /\ loLocks' \in BOOLEAN
  /\ UNCHANGED <<syncVars, mqttVars, toTune>>

(* and poll until they have; Rx before Tx. *)
LoLocked ==
  /\ loLocks /\ Goes("lo", "tune")
  /\ toTune' = IF "rx" \in toTune THEN toTune \ {"rx"} ELSE {}
  /\ loLocks' = FALSE
  /\ UNCHANGED <<syncVars, mqttVars>>

(* Antennas, gains, the sources of the oscillators. *)
SetFrontends ==
  /\ toTune = {} /\ Goes("tune", "running")
  /\ UNCHANGED <<syncVars, mqttVars, tuning>>

(* Each of these steps calls UHD, which may throw; so may a step of the    *)
(* synchronisation, or a setting is not known.                             *)
SetupThrows ==
  /\ mpc \in {"usrp", "rates", "sync", "tune", "lo"}
  /\ mpc' = "stop"
  /\ UNCHANGED <<syncVars, mqttVars, tuning>>

-----------------------------------------------------------------------------
(* The loop: a status and a preview per channel, once per second. *)
PublishTopic ==
  /\ mpc = "running" /\ Publish
  /\ UNCHANGED <<syncVars, mpc, tuning>>

FinishTopic == Send /\ UNCHANGED <<syncVars, mpc, tuning>>

(* It ends if the client's thread has, *)
ClientStopped ==
  /\ ~mqRun /\ pubpc = "idle" /\ Goes("running", "stop")
  /\ UNCHANGED <<syncVars, mqttVars, tuning>>

(* and for many other reasons. *)
Terminate ==
  /\ pubpc = "idle" /\ Goes("running", "stop")
  /\ UNCHANGED <<syncVars, mqttVars, tuning>>

(* The client, if there is one, is stopped, joined and destroyed. *)
Stop ==
  /\ \/ Goes("stop", "join") /\ MqttStop
     \/ lib # "valid" /\ Goes("stop", "exited") /\ UNCHANGED mqttVars
  /\ UNCHANGED <<syncVars, tuning>>

Join ==
  /\ Goes("join", "exited") /\ MqttDestroy
  /\ UNCHANGED <<syncVars, tuning>>

MainStep ==
  \/ StartClient \/ MakeUsrp \/ SetRates \/ Synchronise \/ Synchronised
  \/ Tune \/ LoLocked \/ SetFrontends \/ SetupThrows
  \/ PublishTopic \/ FinishTopic \/ ClientStopped \/ Stop \/ Join

-----------------------------------------------------------------------------
Clock == Tick /\ UNCHANGED <<mqttVars, mpc, tuning>>
Worker == MqttWorker /\ UNCHANGED <<syncVars, mpc, tuning>>
Network == MqttEnvironment /\ UNCHANGED <<syncVars, mpc, tuning>>
Silence == KeepaliveExpires /\ UNCHANGED <<syncVars, mpc, tuning>>

Next == MainStep \/ Terminate \/ Clock \/ Worker \/ Network

(* Both threads are scheduled, time passes, a silent connection is given   *)
(* up after its keepalive time.                                            *)
Spec ==
  /\ Init /\ [][Next]_vars
  /\ WF_vars(MainStep) /\ WF_vars(Clock) /\ WF_vars(Worker) /\ WF_vars(Silence)

-----------------------------------------------------------------------------
TypeOK ==
  /\ TypeOKSync /\ TypeOKMqtt
  /\ mpc \in {"mqtt", "usrp", "rates", "sync", "tune", "lo", "running", "stop",
              "join", "exited"}
  /\ toTune \subseteq {"rx", "tx"} /\ loLocks \in BOOLEAN

(* The loop that waits for locked oscillators does not end without.        *)
StuckOnLo == mpc = "lo" /\ ~loLocks

(* The way to the main loop, and from there or from any failure on the way *)
(* to the end, is finite: no signal that is missing, no broker that does   *)
(* not answer, no failed thread holds main() up.  Only a PLL that does not *)
(* lock does (sync.cpp:39 "FIXME: not interruptible").                     *)
NeverHeldUp ==
  []<>(mpc \in {"running", "exited"} \/ StuckUnlocked \/ StuckOnLo)

=============================================================================
