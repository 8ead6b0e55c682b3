-------------------------------- MODULE Rover --------------------------------
(***************************************************************************)
(* How the RTK rover's receiver is configured, utils/rtk/.../f9p_rover.py: *)
(* UbloxF9's cfg_get() and cfg_set(), and rtk_parse() that compares the    *)
(* receiver's RAM with a target, sets it in chunks and compares it again.  *)
(*                                                                         *)
(* The receiver answers a poll with a page of values and an ACK, or with   *)
(* a NAK if the page is empty, and a setting with an ACK of another type;  *)
(* its RAM outlives the program.  Opening the tty discards what was not    *)
(* read.                                                                   *)
(***************************************************************************)
EXTENDS AsyncMqtt, Sequences, FiniteSets

CONSTANTS NumKeys,    \* configuration keys of the receiver
          PageSize    \* 64

ASSUME PageSizeAssumption == PageSize \in Nat \ {0}
ASSUME NumKeysAssumption == NumKeys \in Nat /\ NumKeys > 2

VARIABLES
  ram,     \* the receiver's RAM layer
  stored,  \* layers that are not empty, of "BBR" and "FLASH"
  wire,    \* frames from the receiver that were not read yet
  rpc,     \* rtk_parse(): next step
  stage,   \* the transaction at hand
  pos,     \* cfg_get(): pos
  got,     \* cfg_get(): data, as pairs of key and value
  target   \* cfg_target

rvVars == <<ram, stored, wire, rpc, stage, pos, got, target>>

Keys == 1 .. NumKeys
Chunks == <<{1}, {2}>>   \* cfg_chunked
Pairs(config) == {<<k, config[k]>> : k \in DOMAIN config}
Default == [k \in Keys |-> "default"]
Configured == [k \in Keys |-> IF k \in Chunks[1] \cup Chunks[2] THEN "target" ELSE "default"]
Update(pairs) ==
  {p \in pairs : p[1] \notin Chunks[1] \cup Chunks[2]}
    \cup ((Chunks[1] \cup Chunks[2]) \X {"target"})

(* The transactions of rtk_parse(). *)
Stages == <<"BBR", "FLASH", "DEFAULT", "RAM", "set", "set", "RAM">>

RvInit ==
  /\ ram \in {Default, [Default EXCEPT ![NumKeys] = "foreign"]}
  /\ stored \in SUBSET {"BBR", "FLASH"}
  /\ wire = <<>> /\ rpc = "start" /\ stage = 1 /\ pos = 0 /\ got = {} /\ target = {}

-----------------------------------------------------------------------------
(* The values of a layer, as the receiver holds them. *)
Layer(name) ==
  CASE name = "RAM"     -> Pairs(ram)
    [] name = "DEFAULT" -> Pairs(Default)
    [] name \in {"BBR", "FLASH"} -> IF name \in stored THEN {<<1, "foreign">>} ELSE {}

Page(name) == {p \in Layer(name) : p[1] \in pos + 1 .. pos + PageSize}

Frame(type, data) == [type |-> type, data |-> data]

RvEnter ==
  /\ rpc = "start" /\ EnterAsync
  /\ rpc' = "send" /\ stage' = 1 /\ pos' = 0 /\ got' = {} /\ wire' = <<>>
  /\ UNCHANGED <<ram, stored, target>>

(* An exception or a signal ends the program, and it is started again. *)
RvRaise ==
  /\ Leave
  /\ rpc' = "leave"
  /\ UNCHANGED <<ram, stored, wire, stage, pos, got, target>>

RvStopped ==
  /\ faults < MaxFaults
  /\ user = "body" /\ user' = "closing" /\ rpc' = "leave"
  /\ faults' = faults + 1
  /\ UNCHANGED <<up, alive, sent, pahoVars, stateVars, worker, cancelled, waiter, iterVars>>
  /\ UNCHANGED <<ram, stored, wire, stage, pos, got, target>>

RvRestart ==
  /\ rpc = "leave" /\ Restarted
  /\ rpc' = "start"
  /\ UNCHANGED <<ram, stored, wire, stage, pos, got, target>>

(* cfg_get() polls a page, which the receiver answers; *)
Poll ==
  /\ rpc = "send" /\ Stages[stage] # "set"
  /\ wire' = wire \o IF Page(Stages[stage]) = {} THEN <<Frame("nak", {})>>
                     ELSE <<Frame("page", Page(Stages[stage])), Frame("ack", {})>>
  /\ rpc' = "receive"
  /\ UNCHANGED <<clientVars, ram, stored, stage, pos, got, target>>

(* cfg_set() sends a chunk, which the receiver accepts or not. *)
Set ==
  /\ rpc = "send" /\ Stages[stage] = "set"
  /\ \/ /\ wire' = Append(wire, Frame("set-ack", {}))
        /\ ram' = [k \in Keys |-> IF k \in Chunks[stage - 4] THEN "target" ELSE ram[k]]
     \/ wire' = Append(wire, Frame("set-nak", {})) /\ ram' = ram
  /\ rpc' = "receive"
  /\ UNCHANGED <<clientVars, stored, stage, pos, got, target>>

(* The transaction is over: what rtk_parse() does with all its data. *)
Done(data) ==
  \/ /\ stage \in {1, 2} /\ data = {}
     /\ stage' = stage + 1 /\ rpc' = "send" /\ target' = target
  \/ /\ stage = 3
     /\ stage' = 4 /\ rpc' = "send" /\ target' = Update(data)
  \/ /\ stage = 4 /\ data # target
     /\ stage' = 5 /\ rpc' = "send" /\ target' = target
  \/ /\ stage \in {4, 7} /\ data = target
     /\ rpc' = "stream" /\ UNCHANGED <<stage, target>>
  \/ /\ stage \in {5, 6}
     /\ stage' = stage + 1 /\ rpc' = "send" /\ target' = target

Refused(data) == (stage \in {1, 2} /\ data # {}) \/ (stage = 7 /\ data # target)

Finish(data) ==
  /\ wire' = Tail(wire) /\ pos' = 0 /\ got' = {} /\ UNCHANGED <<ram, stored>>
  /\ \/ Done(data) /\ UNCHANGED clientVars
     \/ Refused(data) /\ Leave /\ rpc' = "leave" /\ UNCHANGED <<stage, target>>

Awaited ==
  IF Stages[stage] = "set" THEN {"set-ack", "set-nak"} ELSE {"page", "nak"}

Comes(type) == rpc = "receive" /\ wire # <<>> /\ Head(wire).type = type /\ type \in Awaited

(* Frames of other types, as late ACKs, are passed over. *)
PassOver ==
  /\ rpc = "receive" /\ wire # <<>> /\ Head(wire).type \notin Awaited
  /\ wire' = Tail(wire)
  /\ UNCHANGED <<clientVars, ram, stored, rpc, stage, pos, got, target>>

\* Mutant: a full page is taken for the last one.
ReceivePageLast ==
  /\ Comes("page")
  /\ LET data == Head(wire).data IN
       IF Cardinality(data) <= PageSize
       THEN Finish(got \cup data)
       ELSE /\ got' = got \cup data /\ pos' = pos + PageSize
            /\ wire' = Tail(wire) /\ rpc' = "send"
            /\ UNCHANGED <<clientVars, ram, stored, stage, target>>

(* A full page is followed by another, a page that is not is the last. *)
ReceivePage ==
  /\ Comes("page")
  /\ LET data == Head(wire).data IN
       IF Cardinality(data) < PageSize
       THEN Finish(got \cup data)
       ELSE /\ got' = got \cup data /\ pos' = pos + PageSize
            /\ wire' = Tail(wire) /\ rpc' = "send"
            /\ UNCHANGED <<clientVars, ram, stored, stage, target>>

ReceiveNak ==
  /\ Comes("nak")
  /\ Finish(got)

ReceiveSetAck ==
  /\ Comes("set-ack")
  /\ Finish({})

ReceiveSetNak ==
  /\ Comes("set-nak")
  /\ RvRaise

RvStep ==
  \/ RvEnter \/ Poll \/ Set \/ PassOver
  \/ ReceivePage \/ ReceiveNak \/ ReceiveSetAck \/ ReceiveSetNak

RvNext == RvStep \/ RvStopped \/ RvRestart

-----------------------------------------------------------------------------
(* Positions are published only from a receiver whose RAM is the target:   *)
(* the defaults but for the chunks, although its configuration comes in    *)
(* pages, a stop may leave it set in part, and others may have changed it. *)
StreamsOnlyConfigured == rpc = "stream" => ram = Configured /\ stored = {}

=============================================================================
