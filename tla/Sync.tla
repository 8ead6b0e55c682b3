--------------------------------- MODULE Sync ---------------------------------
(***************************************************************************)
(* Clock and time synchronisation, src/src/sync.cpp, called once by main() *)
(* before the frontends are tuned: wait for a PPS edge, read the host's    *)
(* clock, ask the USRP to set its time at the next edge, wait for that.    *)
(*                                                                         *)
(* Time is counted in ticks, TicksPerSec to the second.  PPS edges are at  *)
(* the full seconds of true time.  The USRP's clock is `offset' ticks      *)
(* ahead of it, the host's at most HostError off; both keep their rate for *)
(* the few seconds that this takes.                                        *)
(*                                                                         *)
(* The thread is prompt: no more than MaxDelay ticks pass between two of   *)
(* its steps, a sleep of 1 ms included.  Nothing in the code enforces it.  *)
(***************************************************************************)
EXTENDS Integers, Sequences

CONSTANTS TicksPerSec, MaxDelay, HostError,
          Offsets     \* offsets of the USRP's clock before synchronisation

ASSUME TicksAssumption == TicksPerSec \in Nat \ {0}
ASSUME OffsetsAssumption == Offsets \subseteq Int

(* From an edge to the reading of the host's clock there are three delays: *)
(* until the thread looks whether time is up, until it sees the edge, and  *)
(* until it reads the clock.  With the clock's error they make less than   *)
(* half a second.                                                          *)
ASSUME PromptAssumption ==
  /\ MaxDelay \in Nat \ {0} /\ HostError \in Nat
  /\ 2 * (3 * MaxDelay - 1 + HostError) < TicksPerSec

VARIABLES
  time,      \* true time since the timed part began
  idle,      \* ticks since the thread's last step
  offset,    \* USRP time minus true time
  lastPps,   \* what get_time_last_pps() returns
  nextPps,   \* full second to be set at the next edge, or None
  pps,       \* the PPS signal of the selected source is there
  refLocks,  \* the clock's PLL locks, sooner or later
  calls,     \* calls that main() still has to make
  spc,       \* next step within the first of them
  leg,       \* which wait_pps(): for an "edge", or for the time to be "set"
  last,      \* its local variable
  deadline,  \* its timeout
  host,      \* the host's clock, as read
  synced,    \* history: what the time was set from, "nothing", "pps" or "host"
  hidden     \* history: an edge left the time of the last PPS as it was

usrpTime == <<offset, lastPps, nextPps>>
sources == <<pps, refLocks>>
syncLocals == <<leg, last, deadline, host>>
syncHistory == <<synced, hidden>>
syncVars == <<time, idle, usrpTime, sources, calls, spc, syncLocals, syncHistory>>

None == -1
Modes == {"", "10mhz", "1pps", "10mhz+1pps", "host", "gpsdo", "other"}

(* The calls main() makes for each setting. *)
Calls(m) ==
  CASE m = "10mhz"      -> <<"sync_10mhz", "sync_host">>
    [] m = "1pps"       -> <<"sync_1pps">>
    [] m = "10mhz+1pps" -> <<"sync_10mhz", "sync_1pps">>
    [] m = "host"       -> <<"sync_host">>
    [] m = "gpsdo"      -> <<"sync_gpsdo">>
    [] OTHER            -> <<>>

InitSync ==
  /\ time = 0 /\ idle = 0
  /\ offset \in Offsets /\ lastPps = offset /\ nextPps = None
  /\ pps = FALSE /\ refLocks = FALSE
  /\ calls = <<>> /\ spc = "idle"
  /\ leg = "edge" /\ last = 0 /\ deadline = 0 /\ host = 0
  /\ synced = "nothing" /\ hidden = FALSE

-----------------------------------------------------------------------------
(* The USRP and the clock *)

(* At an edge, true time t, the USRP takes over the time it was given, and *)
(* latches its time.                                                       *)
Edge(t) ==
  /\ offset' = IF nextPps = None THEN offset ELSE nextPps * TicksPerSec - t
  /\ lastPps' = t + offset'
  /\ nextPps' = None
  /\ hidden' = (hidden \/ lastPps' = lastPps)

(* Only where the thread's delays matter is time counted. *)
Timed == spc \in {"last", "poll", "read", "host", "arm", "setnow"}

Tick ==
  /\ Timed /\ idle < MaxDelay
  /\ time' = time + 1 /\ idle' = idle + 1
  /\ IF pps /\ time' % TicksPerSec = 0 THEN Edge(time')
                                       ELSE UNCHANGED <<usrpTime, hidden>>
  /\ UNCHANGED <<sources, calls, spc, syncLocals, synced>>

(* Changing the master clock rate makes the USRP's time jump.  *)
Jump ==
  /\ offset' \in Offsets
  /\ UNCHANGED <<time, idle, lastPps, nextPps, sources, calls, spc, syncLocals,
                 syncHistory>>

-----------------------------------------------------------------------------
(* main() looks up what to do for cfg.usrp.sync; what is unknown throws.   *)
SyncSelect ==
  /\ spc = "idle"
  /\ \E m \in Modes :
       /\ calls' = Calls(m)
       /\ spc' = CASE m = "other" -> "refused" [] m = "" -> "done" [] OTHER -> "call"
  /\ UNCHANGED <<time, idle, usrpTime, sources, syncLocals, syncHistory>>

(* A call returns; its local variables are gone. *)
Return ==
  /\ calls' = Tail(calls)
  /\ spc' = IF Len(calls) = 1 THEN "done" ELSE "call"
  /\ time' = 0 /\ idle' = 0
  /\ leg' = "edge" /\ last' = 0 /\ deadline' = 0 /\ host' = 0

(* wait_pps() is called, at any time since the last edge. *)
FirstEdge ==
  /\ spc' = "last" /\ leg' = "edge"
  /\ time' \in 0 .. TicksPerSec - 1

(* sync_10mhz() and sync_gpsdo() select the reference, the latter also the *)
(* source of the edges; either may or may not be there.                    *)
SelectClock ==
  /\ spc = "call" /\ Head(calls) \in {"sync_10mhz", "sync_gpsdo"}
  /\ refLocks' \in BOOLEAN
  /\ pps' \in IF Head(calls) = "sync_gpsdo" THEN BOOLEAN ELSE {pps}
  /\ spc' = "lock"
  /\ UNCHANGED <<time, idle, usrpTime, calls, syncLocals, syncHistory>>

(* They poll until the PLL has locked. *)
RefLocked ==
  /\ spc = "lock" /\ refLocks
  /\ IF Head(calls) = "sync_10mhz"
     THEN Return
     ELSE FirstEdge /\ UNCHANGED <<idle, calls, last, deadline, host>>
  /\ UNCHANGED <<usrpTime, sources, syncHistory>>

(* sync_1pps() selects the source of the edges. *)
SelectTime ==
  /\ spc = "call" /\ Head(calls) = "sync_1pps"
  /\ pps' \in BOOLEAN
  /\ FirstEdge
  /\ UNCHANGED <<idle, usrpTime, refLocks, calls, last, deadline, host, syncHistory>>

-----------------------------------------------------------------------------
(* wait_pps() *)

Step(s) == spc' = s /\ idle' = 0

\* Mutant: one second is enough for an edge to come.
PpsTimeoutShort == TicksPerSec

PpsTimeout == 2 * TicksPerSec

WaitPps ==
  /\ spc = "last"
  /\ last' = lastPps /\ deadline' = time + PpsTimeout
  /\ Step("poll")
  /\ UNCHANGED <<time, usrpTime, sources, calls, leg, host, syncHistory>>

(* The loop's body: give up, or sleep *)
PollPps ==
  /\ spc = "poll"
  /\ Step(IF time >= deadline THEN "thrown" ELSE "read")
  /\ UNCHANGED <<time, usrpTime, sources, calls, syncLocals, syncHistory>>

(* Poll on, or return with an edge. *)
PollAgain ==
  IF lastPps = last
  THEN Step("poll") /\ UNCHANGED <<last, deadline>>
  ELSE Step("host") /\ last' = 0 /\ deadline' = 0

(* and look again. *)
ReadPps ==
  /\ spc = "read"
  /\ IF lastPps # last /\ leg = "set"
     THEN Return /\ synced' = "pps"
     ELSE PollAgain /\ UNCHANGED <<time, calls, leg, host, synced>>
  /\ UNCHANGED <<usrpTime, sources, hidden>>

-----------------------------------------------------------------------------
(* In between, sync_1pps() and sync_gpsdo() read the host's clock *)

HostClock == {time + e : e \in -HostError .. HostError}

ReadHost ==
  /\ spc = "host"
  /\ host' \in HostClock
  /\ Step("arm")
  /\ UNCHANGED <<time, usrpTime, sources, calls, leg, last, deadline, syncHistory>>

\* Mutant: the time is cut off to the full second.
FloorSecond(h) == h \div TicksPerSec

(* std::chrono::round: to the nearest second, from halfway to the even one. *)
RoundSecond(h) ==
  CHOOSE s \in {h \div TicksPerSec, (h \div TicksPerSec) + 1} :
    LET twice == 2 * (h - s * TicksPerSec)
    IN  \/ -TicksPerSec < twice /\ twice < TicksPerSec
        \/ twice \in {-TicksPerSec, TicksPerSec} /\ s % 2 = 0

(* and set the USRP's time one second further at the next edge, unless the *)
(* signal has failed.                                                      *)
SetNextPps ==
  /\ spc = "arm"
  /\ nextPps' = RoundSecond(host) + 1
  /\ pps' \in {pps, FALSE}
  /\ leg' = "set" /\ host' = 0
  /\ Step("last")
  /\ UNCHANGED <<time, offset, lastPps, refLocks, calls, last, deadline, syncHistory>>

-----------------------------------------------------------------------------
(* sync_host() reads the host's clock and sets the USRP's time to it. *)

ReadHostNow ==
  /\ spc = "call" /\ Head(calls) = "sync_host"
  /\ host' \in HostClock
  /\ Step("setnow")
  /\ UNCHANGED <<time, usrpTime, sources, calls, leg, last, deadline, syncHistory>>

SetNow ==
  /\ spc = "setnow"
  /\ offset' = host - time
  /\ Return /\ synced' = "host"
  /\ UNCHANGED <<lastPps, nextPps, sources, hidden>>

SyncStep ==
  \/ SyncSelect \/ SelectClock \/ RefLocked \/ SelectTime
  \/ WaitPps \/ PollPps \/ ReadPps \/ ReadHost \/ SetNextPps
  \/ ReadHostNow \/ SetNow

-----------------------------------------------------------------------------
TypeOKSync ==
  /\ time \in Nat /\ idle \in 0 .. MaxDelay
  /\ offset \in Int /\ lastPps \in Int /\ nextPps \in Nat \cup {None}
  /\ {pps, refLocks, hidden} \subseteq BOOLEAN
  /\ calls \in Seq({"sync_10mhz", "sync_1pps", "sync_host", "sync_gpsdo"})
  /\ spc \in {"idle", "call", "lock", "last", "poll", "read", "host",
              "arm", "setnow", "done", "thrown", "refused"}
  /\ synced \in {"nothing", "pps", "host"}
  /\ leg \in {"edge", "set"} /\ last \in Int /\ deadline \in Nat /\ host \in Int

(* README:127, "coherent operation across distributed nodes": whatever the *)
(* USRP's clock showed before, whenever the edges come, and however the    *)
(* delays fall, after synchronisation with PPS edges the USRP has the true *)
(* time, hence the same as any other node; after synchronisation with the  *)
(* host it is off by the host's error and one delay.  Nothing that follows *)
(* makes it jump again.                                                    *)
UsrpTimeIsTrue ==
  /\ synced = "pps" => offset = 0
  /\ synced = "host" => offset \in -(HostError + MaxDelay) .. HostError

(* sync.cpp:132: the time-out means that the PPS signal is missing, even   *)
(* though the wait spans the moment the USRP's time is set; except when    *)
(* the USRP showed the same time at two edges in a row.                    *)
TimeoutMeansNoPps == spc = "thrown" => ~pps \/ hidden

(* The loop that waits for a locked reference does not end without one. *)
StuckUnlocked == spc = "lock" /\ ~refLocks

=============================================================================
