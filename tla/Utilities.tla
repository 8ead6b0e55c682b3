------------------------------ MODULE Utilities ------------------------------
(***************************************************************************)
(* The utilities' MQTT client in the hands of its users: the logger of the *)
(* FS740, the relay of corrections, the rover's parser, or any other,      *)
(* which may enter the client in both ways, iterate over its messages and  *)
(* leave it at any moment (hwmon.py and lc_xo.py do no more than that).    *)
(***************************************************************************)
EXTENDS Fs740, Ntrip, Rover

VARIABLE program   \* "fs740", "ntrip", "rover" or "other"

allVars == <<program, vars, fsVars, ntVars, rvVars>>

UtilitiesInit ==
  /\ program \in {"fs740", "ntrip", "rover", "other"}
  /\ Init /\ (program # "other" => asyncConnect)
  /\ IF program = "fs740" THEN FsInit
                          ELSE dev = "off" /\ fpc = "none" /\ q = 1 /\ lag = 0
  /\ IF program = "ntrip" THEN NtInit
     ELSE /\ caster = FALSE /\ npc = "none" /\ due = FALSE
          /\ link = FALSE /\ peer = "none" /\ located = FALSE
  /\ IF program = "rover" THEN RvInit
     ELSE /\ ram = Default /\ stored = {} /\ wire = <<>> /\ rpc = "none"
          /\ stage = 1 /\ pos = 0 /\ got = {} /\ target = {}

UtilitiesNext ==
  /\ UNCHANGED <<program, asyncConnect>>
  /\ \/ Background /\ UNCHANGED <<fsVars, ntVars, rvVars>>
     \/ program = "other" /\ Program /\ UNCHANGED <<fsVars, ntVars, rvVars>>
     \/ program = "fs740" /\ FsNext /\ UNCHANGED <<ntVars, rvVars>>
     \/ program = "ntrip" /\ NtNext /\ UNCHANGED <<fsVars, rvVars>>
     \/ program = "rover" /\ RvNext /\ UNCHANGED <<fsVars, ntVars>>

(* Besides, a DISCONNECT gets out, as nothing holds it up; the programs'   *)
(* tasks get to run, a device that is asked answers or the question times  *)
(* out, and time passes.                                                   *)
UtilitiesSpec ==
  /\ UtilitiesInit /\ [][UtilitiesNext]_allVars
  /\ WF_clientVars(WorkerStep) /\ WF_clientVars(UserStep) /\ WF_clientVars(IterStep)
  /\ WF_clientVars(Reconnect) /\ WF_clientVars(OnConnect) /\ WF_clientVars(Disconnected)
  /\ WF_<<clientVars, fsVars>>(program = "fs740" /\ FsStep)
  /\ WF_<<clientVars, ntVars>>(program = "ntrip" /\ NtStep)
  /\ WF_<<clientVars, ntVars>>(program = "ntrip" /\ PositionDue)

-----------------------------------------------------------------------------
(* The variables of the client and of its programs stay within their types. *)
UtilitiesTypeOK ==
  /\ TypeOK
  /\ program = "fs740" => FsTypeOK
  /\ program = "ntrip" => NtTypeOK

=============================================================================
