-------------------------------- MODULE Fs740 --------------------------------
(***************************************************************************)
(* The logger of an FS740 frequency standard, utils/fs740/.../fs740.py: it *)
(* connects to the device, enters the MQTT client, configures the device   *)
(* and asks it the same questions every second.  Any failure leaves both,  *)
(* and ten seconds later they are entered again.                           *)
(*                                                                         *)
(* Questions and answers are lines on one TCP connection, and an answer is *)
(* whatever line comes next.  A question that times out ends the           *)
(* connection, but one: TBAS:TINT? is given up after 0.1 s, for the device *)
(* does not answer it before it has a fix.                                 *)
(***************************************************************************)
EXTENDS AsyncMqtt, Sequences

CONSTANT MaxLag   \* bound: answers not read yet

ASSUME MaxLagAssumption == MaxLag \in Nat \ {0}

VARIABLES
  dev,   \* the device: "off" (or not reached), "slow", or "prompt"
  fpc,   \* main(): next step
  q,     \* log(): the question at hand
  lag    \* answers that are still to come for questions given up

fsVars == <<dev, fpc, q, lag>>

\* Mutant: the time stamp and the errors are asked for first.
QuestionsStampFirst ==
  <<"error", "date", "time", "state", "sats", "position", "integer",
    "float", "integer", "float", "integer", "integer", "integer", "integer", "integer">>

(* The questions of a cycle, named for the form of their answers. *)
Questions ==
  <<"state", "sats", "position", "integer", "integer", "float", "integer",
    "float", "integer", "integer", "integer", "integer", "error", "date", "time">>

Tint == 8
Asks == 1 .. Len(Questions)

(* The answers that the code can take for one of the given form, the text  *)
(* permitting: a state that is none is INVALID, a list is picked from, and *)
(* what does not convert is a ValueError.                                  *)
Converts ==
  [state    |-> {"state", "sats", "position", "integer", "float", "error", "date", "time"},
   sats     |-> {"state", "sats", "integer", "float", "date", "time"},
   position |-> {"position", "date", "time"},
   integer  |-> {"integer", "float"},
   float    |-> {"integer", "float"},
   error    |-> {"error", "sats", "date", "time"},
   date     |-> {"date", "time", "sats"},
   time     |-> {"date", "time", "sats"}]

(* The form of the next line: the answer to the question `lag' before. *)
NextLine == Questions[((q - 1 - lag) % Len(Questions)) + 1]

FsInit == dev = "off" /\ fpc = "enter" /\ q = 1 /\ lag = 0

-----------------------------------------------------------------------------
DevFails ==
  /\ dev # "off" /\ faults < MaxFaults
  /\ faults' = faults + 1
  /\ dev' \in {"off", "slow"} \ {dev}
  /\ UNCHANGED <<up, alive, sent, pahoVars, stateVars, taskVars, iterVars, fpc, q, lag>>

DevRecovers ==
  /\ dev # "prompt"
  /\ dev' = "prompt"
  /\ UNCHANGED <<clientVars, fpc, q, lag>>

-----------------------------------------------------------------------------
(* async with fs740, mqtt_client: a new connection, whose device is an     *)
(* FS740, then the MQTT client.  A failure here is tried again.            *)
FsEnter ==
  /\ fpc = "enter" /\ dev # "off"
  /\ EnterAsync \/ EnterAgain
  /\ fpc' = "setup" /\ lag' = 0
  /\ UNCHANGED <<dev, q>>

(* An exception leaves the MQTT client first. *)
FsRaise ==
  /\ Leave
  /\ fpc' = "leave"
  /\ UNCHANGED <<dev, q, lag>>

(* The settings, each read back, and whether the device has to be surveyed *)
FsSetup ==
  /\ fpc = "setup"
  /\ \/ /\ dev # "off"
        /\ fpc' = "ask" /\ q' = 1
        /\ UNCHANGED <<clientVars, dev, lag>>
     \/ dev # "prompt" /\ FsRaise

(* ask(): the next line comes and converts, *)
Answered ==
  /\ fpc = "ask" /\ dev # "off"
  /\ NextLine \in Converts[Questions[q]]
  /\ IF q = Len(Questions) THEN fpc' = "publish" /\ q' = q
                           ELSE q' = q + 1 /\ fpc' = fpc
  /\ UNCHANGED <<clientVars, dev, lag>>

(* or it does not, *)
Malformed ==
  /\ fpc = "ask" /\ dev # "off"
  /\ NextLine # Questions[q]
  /\ FsRaise

(* or none comes in time, or the connection breaks. *)
TimedOut ==
  /\ fpc = "ask" /\ dev # "prompt"
  /\ FsRaise

(* get_tbas_tint(): the answer may be late, or there is none. *)
TintTimedOut ==
  /\ fpc = "ask" /\ q = Tint
  /\ q' = q + 1
  /\ \/ lag' = lag
     \/ dev = "slow" /\ lag < MaxLag /\ lag' = lag + 1
  /\ UNCHANGED <<clientVars, dev, fpc>>

(* The record is published and logged, and the next second begins. *)
FsPublish ==
  /\ fpc = "publish"
  /\ fpc' = "ask" /\ q' = 1
  /\ UNCHANGED <<clientVars, dev, lag>>

(* The connection to the device is closed as well. *)
FsLeft ==
  /\ fpc = "leave" /\ user = "out"
  /\ fpc' = "enter"
  /\ UNCHANGED <<clientVars, dev, q, lag>>

FsAsk == Answered \/ Malformed \/ TimedOut \/ TintTimedOut

FsStep == FsEnter \/ FsSetup \/ FsAsk \/ FsPublish \/ FsLeft

FsNext == DevFails \/ DevRecovers \/ FsStep

-----------------------------------------------------------------------------
FsTypeOK ==
  /\ dev \in {"off", "slow", "prompt"}
  /\ fpc \in {"enter", "setup", "ask", "publish", "leave"}
  /\ q \in Asks /\ lag \in 0 .. MaxLag

(* A late answer to TBAS:TINT? shifts all the following ones by one, many  *)
(* of which still convert: no record of such a cycle is published.         *)
AnswersMatch == fpc = "publish" => lag = 0

(* main(): "(re-)connect to FS740 indefinitely".  A device that answers    *)
(* in time is logged again, whatever has happened, which takes that the    *)
(* MQTT client can be left with and without a broker.                      *)
LogsAgain == <>[](dev = "prompt") => []<>(fpc = "publish")

=============================================================================
