-------------------------------- MODULE Ntrip --------------------------------
(***************************************************************************)
(* The relay of correction data, utils/ntrip2mqtt: an NtripClient reads    *)
(* from a caster, reconnecting by itself, and main() publishes what it     *)
(* yields.  What it does not catch ends the program, which systemd starts  *)
(* again (Restart=always in ntrip2mqtt.service).                           *)
(*                                                                         *)
(* The caster sends nothing before it knows the client's position.         *)
(***************************************************************************)
EXTENDS AsyncMqtt

VARIABLES
  caster,     \* the caster can be reached and serves
  npc,        \* main() and __anext__(): next step
  link,       \* _connected
  peer,       \* the other end: "none", "serving", "closed" or "silent"
  located,    \* it has got a position over it
  due         \* time.monotonic() > _next_pos_update

ntVars == <<caster, npc, link, peer, located, due>>
linkVars == <<link, peer, located>>

NtInit ==
  /\ caster \in BOOLEAN /\ npc = "start" /\ due = TRUE
  /\ link = FALSE /\ peer = "none" /\ located = FALSE

-----------------------------------------------------------------------------
(* The caster, the network and the clock *)

Fault ==
  /\ faults < MaxFaults /\ faults' = faults + 1
  /\ UNCHANGED <<up, alive, sent, pahoVars, stateVars, taskVars, iterVars>>

Gone == peer' \in IF peer = "serving" THEN {"closed", "silent"} ELSE {peer}

CasterFails ==
  /\ caster /\ Fault
  /\ caster' = FALSE /\ Gone
  /\ UNCHANGED <<npc, link, located, due>>

CasterRecovers ==
  /\ ~caster
  /\ caster' = TRUE
  /\ UNCHANGED <<clientVars, npc, linkVars, due>>

(* The connection is closed, reset, or goes silent. *)
LinkBreaks ==
  /\ peer = "serving" /\ Fault /\ Gone
  /\ UNCHANGED <<caster, npc, link, located, due>>

(* _POS_UPDATE_INTERVAL has passed. *)
PositionDue ==
  /\ ~due
  /\ due' = TRUE
  /\ UNCHANGED <<clientVars, caster, npc, linkVars>>

-----------------------------------------------------------------------------
NtEnter ==
  /\ npc = "start" /\ EnterAsync
  /\ npc' = "connect"
  /\ UNCHANGED <<caster, linkVars, due>>

(* What is not caught leaves the MQTT client, *)
NtRaise ==
  /\ Leave
  /\ npc' = "leave"
  /\ UNCHANGED <<caster, linkVars, due>>

(* ends the program, and has it started again. *)
NtRestart ==
  /\ npc = "leave" /\ Restarted
  /\ npc' = "start" /\ due' = TRUE
  /\ link' = FALSE /\ peer' = "none" /\ located' = FALSE
  /\ UNCHANGED caster

(* _connect(): the caster accepts.  Time-outs and network errors are tried *)
(* again, the latter after a second;                                       *)
NtConnect ==
  /\ npc = "connect" /\ caster
  /\ npc' = "position"
  /\ link' = TRUE /\ peer' = "serving" /\ located' = FALSE /\ due' = TRUE
  /\ UNCHANGED <<clientVars, caster>>

(* an answer that is invalid, or incomplete, is not. *)
NtRefused ==
  /\ npc = "connect" /\ ~caster
  /\ NtRaise

(* _disconnect() *)
Disconnect ==
  /\ link' = FALSE /\ peer' = "none" /\ located' = FALSE

(* The position is sent whenever it is due; writing to a broken connection *)
(* may succeed, time out, or raise.                                        *)
NtPosition ==
  /\ npc = "position"
  /\ \/ /\ npc' = "read"
        /\ due' = FALSE /\ located' = (located \/ (due /\ peer = "serving"))
        /\ UNCHANGED <<clientVars, caster, link, peer>>
     \/ /\ due /\ peer = "silent"
        /\ npc' = "connect" /\ Disconnect
        /\ UNCHANGED <<clientVars, caster, due>>
     \/ due /\ peer = "closed" /\ NtRaise

(* Data come, *)
NtData ==
  /\ npc = "read" /\ peer = "serving" /\ located
  /\ npc' = "publish"
  /\ UNCHANGED <<clientVars, caster, linkVars, due>>

(* the caster has closed the connection, and nothing is published, *)
NtClosed ==
  /\ npc = "read" /\ peer = "closed"
  /\ npc' = "publish" /\ Disconnect
  /\ UNCHANGED <<clientVars, caster, due>>

(* or it was reset; *)
NtReset ==
  /\ npc = "read" /\ peer = "closed"
  /\ NtRaise

\* Mutant: no time-out for reading.
NtSilenceEndless ==
  /\ npc = "read" /\ peer = "serving" /\ ~located
  /\ npc' = "connect" /\ Disconnect
  /\ UNCHANGED <<clientVars, caster, due>>

(* nothing comes in time. *)
NtSilence ==
  /\ npc = "read" /\ (peer = "silent" \/ ~located)
  /\ npc' = "connect" /\ Disconnect
  /\ UNCHANGED <<clientVars, caster, due>>

NtRead == NtData \/ NtClosed \/ NtSilence \/ NtReset

NtPublish ==
  /\ npc = "publish"
  /\ npc' = IF link THEN "position" ELSE "connect"
  /\ UNCHANGED <<clientVars, caster, linkVars, due>>

NtStep ==
  NtEnter \/ NtConnect \/ NtPosition \/ NtRead \/ NtPublish \/ NtRestart

NtNext ==
  CasterFails \/ CasterRecovers \/ LinkBreaks \/ PositionDue \/ NtRefused \/ NtStep

-----------------------------------------------------------------------------
NtTypeOK ==
  /\ {caster, link, located, due} \subseteq BOOLEAN
  /\ npc \in {"start", "connect", "position", "read", "publish", "leave"}
  /\ peer \in {"none", "serving", "closed", "silent"}

(* Lines 55 and 71: once the caster and the broker stay, corrections are   *)
(* published again and again, however the connections broke, and although  *)
(* a caster that was not told a position sends nothing.                    *)
CorrectionsFlow ==
  <>[](caster /\ up) => []<>(npc = "publish" /\ link /\ connected)

=============================================================================
