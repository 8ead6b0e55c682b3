----------------------------- MODULE SyncProofs -----------------------------
(***************************************************************************)
(* The steps of Sync preserve its properties, for any resolution of time,  *)
(* delay, error of the host's clock and offset of the USRP's clock.        *)
(* StartupProofs makes theorems about main() of these lemmas.              *)
(***************************************************************************)
EXTENDS Sync, TLAPS

-----------------------------------------------------------------------------
(* The inductive invariant *)

(* The true second that time is in, and ticks since then. *)
Since == time % TicksPerSec
Second == time - Since

(* What main() may have left to call. *)
CallNames == {"sync_10mhz", "sync_1pps", "sync_host", "sync_gpsdo"}
Singles == {<<"sync_host">>, <<"sync_1pps">>, <<"sync_gpsdo">>}
Pairs == {<<"sync_10mhz", "sync_host">>, <<"sync_10mhz", "sync_1pps">>}

CallsFit ==
  /\ calls \in {<<>>} \cup Singles \cup Pairs
  /\ spc \in {"call", "lock"} => calls # <<>>
  /\ spc = "lock" => Head(calls) \in {"sync_10mhz", "sync_gpsdo"}
  /\ spc \in {"last", "poll", "read", "host", "arm"}
       => calls \in {<<"sync_1pps">>, <<"sync_gpsdo">>}
  /\ spc = "setnow" => calls = <<"sync_host">>
  /\ spc \notin {"last", "poll", "read", "thrown"} => leg = "edge"
  /\ synced # "nothing" => spc = "done"

(* An edge that the thread has seen, or is about to see, was just now. *)
EdgeIsRecent ==
  /\ spc = "poll" /\ lastPps # last => Since + 1 <= idle
  /\ spc = "read" /\ lastPps # last => Since + 1 <= MaxDelay + idle
  /\ spc = "host" => Since + 1 <= 2 * MaxDelay + idle
  /\ spc = "arm" => /\ Since + 1 <= 3 * MaxDelay + idle
                    /\ -HostError <= host - Second
                    /\ host - Second <= 3 * MaxDelay - 1 + HostError

(* There is an edge before time is up. *)
EdgeInTime ==
  spc \in {"poll", "read"} /\ pps /\ ~hidden =>
    IF lastPps = last THEN Second + 2 * TicksPerSec <= deadline
                      ELSE Second + TicksPerSec <= deadline

(* A time waits to be set at the next edge, which is its true time, or has *)
(* been set.                                                               *)
TimeIsSet ==
  /\ leg = "edge" => nextPps = None
  /\ leg = "set" /\ spc \in {"last", "poll", "read"} =>
       /\ nextPps = None => offset = 0
       /\ nextPps # None /\ pps => nextPps * TicksPerSec = Second + TicksPerSec
       /\ nextPps # None /\ spc # "last" => lastPps = last

HostIsNear ==
  spc = "setnow" => /\ -(HostError + idle) <= host - time
                    /\ host - time <= HostError

IInvSync ==
  /\ TypeOKSync /\ CallsFit
  /\ EdgeIsRecent /\ EdgeInTime /\ TimeIsSet /\ HostIsNear
  /\ UsrpTimeIsTrue /\ TimeoutMeansNoPps

-----------------------------------------------------------------------------
(* Arithmetic of ticks and seconds *)

LEMMA Constants ==
  /\ TicksPerSec \in Nat /\ TicksPerSec >= 1
  /\ MaxDelay \in Nat /\ MaxDelay >= 1 /\ HostError \in Nat
  /\ 6 * MaxDelay + 2 * HostError < TicksPerSec + 2
  /\ Offsets \subseteq Int
BY TicksAssumption, PromptAssumption, OffsetsAssumption

LEMMA SinceType ==
  ASSUME time \in Nat
  PROVE  /\ Since \in 0 .. TicksPerSec - 1 /\ Second \in Int
         /\ Second = TicksPerSec * (time \div TicksPerSec)
         /\ time \div TicksPerSec \in Int
BY Constants DEF Since, Second

(* A number is determined by its remainder, once its quotient is fixed. *)
LEMMA Remainder ==
  ASSUME NEW r \in Int, NEW q \in Int, 0 <= r, r < TicksPerSec
  PROVE  (TicksPerSec * q + r) % TicksPerSec = r
BY Constants

(* One tick later it is the same second, or the next one has just begun. *)
LEMMA NextTick ==
  ASSUME time \in Nat, time' = time + 1
  PROVE  \/ /\ time' % TicksPerSec # 0
            /\ Since' = Since + 1 /\ Second' = Second
         \/ /\ time' % TicksPerSec = 0 /\ Since = TicksPerSec - 1
            /\ Since' = 0 /\ Second' = Second + TicksPerSec /\ time' = Second'
<1> DEFINE q == time \div TicksPerSec
<1>1. /\ Since \in 0 .. TicksPerSec - 1 /\ q \in Int
      /\ time = TicksPerSec * q + Since
  BY SinceType DEF Second
<1>2. TicksPerSec * (q + 1) = TicksPerSec * q + TicksPerSec
  BY <1>1, Constants
<1>3. TicksPerSec * q \in Int /\ q + 1 \in Int
  BY <1>1, Constants
<1> HIDE DEF q
<1>4. CASE Since + 1 < TicksPerSec
  <2>1. time' = TicksPerSec * q + (Since + 1)
    BY <1>1, <1>3
  <2>2. time' % TicksPerSec = Since + 1
    BY <2>1, <1>1, <1>4, Remainder
  <2>. QED  BY <2>2, <1>1 DEF Since, Second
<1>5. CASE Since + 1 = TicksPerSec
  <2>1. time' = TicksPerSec * (q + 1) + 0
    BY <1>1, <1>2, <1>3, <1>5
  <2>2. time' % TicksPerSec = 0
    BY <2>1, <1>3, Remainder, Constants
  <2>. QED  BY <2>2, <1>1, <1>5, Constants DEF Since, Second
<1>. QED  BY <1>1, <1>4, <1>5, Constants

(* What is less than half a second from a full second is rounded to it. *)
LEMMA RoundNear ==
  ASSUME NEW h \in Int, NEW k \in Int,
         -TicksPerSec < 2 * (h - k * TicksPerSec),
         2 * (h - k * TicksPerSec) < TicksPerSec
  PROVE  RoundSecond(h) = k
<1> DEFINE T == TicksPerSec
           Near(s) == \/ /\ -T < 2 * (h - s * T)
                         /\ 2 * (h - s * T) < T
                      \/ 2 * (h - s * T) \in {-T, T} /\ s % 2 = 0
           S == {h \div T, (h \div T) + 1}
<1>0. T \in Nat /\ T >= 1 /\ k * T \in Int
  BY Constants
<1>1. RoundSecond(h) = CHOOSE s \in S : Near(s)
  BY DEF RoundSecond
<1>2. k = h \div T \/ k = (h \div T) + 1
  <2>1. h \div T \in Int /\ h % T \in 0 .. T - 1 /\ h = T * (h \div T) + (h % T)
    BY Constants
  <2> DEFINE q == h \div T
  <2>2. q \in Int /\ T * q <= h /\ h < T * q + T
    BY <2>1, <1>0
  <2> HIDE DEF q
  <2>3. k * T - T < T * q + T /\ T * q < k * T + T
    BY <2>2, <1>0
  <2>4. ~(k >= q + 2)
    <3>1. SUFFICES ASSUME k >= q + 2 PROVE FALSE
      OBVIOUS
    <3>2. k * T >= (q + 2) * T
      BY <3>1, <2>2, <1>0
    <3>. QED  BY <3>2, <2>3, <2>2, <1>0
  <2>5. ~(k <= q - 1)
    <3>1. SUFFICES ASSUME k <= q - 1 PROVE FALSE
      OBVIOUS
    <3>2. k * T <= (q - 1) * T
      BY <3>1, <2>2, <1>0
    <3>. QED  BY <3>2, <2>3, <2>2, <1>0
  <2>. QED  BY <2>2, <2>4, <2>5 DEF q
<1>3. Near(k)
  BY <1>0
<1>4. ASSUME NEW s \in S, Near(s) PROVE s = k
  <2>1. s \in Int /\ (s = k \/ s = k + 1 \/ s = k - 1)
    BY <1>2, Constants
  <2>2. CASE s = k + 1
    <3>1. s * T = k * T + T
      BY <2>2, <1>0
    <3>2. 2 * (h - s * T) < -T
      BY <3>1, <1>0
    <3>. QED  BY <3>2, <1>4, <1>0, <2>1
  <2>3. CASE s = k - 1
    <3>1. s * T = k * T - T
      BY <2>3, <1>0
    <3>2. 2 * (h - s * T) > T
      BY <3>1, <1>0
    <3>. QED  BY <3>2, <1>4, <1>0, <2>1
  <2>. QED  BY <2>1, <2>2, <2>3
<1>5. k \in S
  BY <1>2
<1> HIDE DEF Near, S
<1>6. (CHOOSE s \in S : Near(s)) = k
  BY <1>3, <1>4, <1>5
<1>. QED  BY <1>1, <1>6

-----------------------------------------------------------------------------
(* The calls that main() has to make *)

(* Sequences of one and of two calls. *)
LEMMA One ==
  ASSUME NEW a PROVE Tail(<<a>>) = <<>> /\ Len(<<a>>) = 1 /\ <<a>> # <<>> /\ Head(<<a>>) = a
OBVIOUS
LEMMA Two ==
  ASSUME NEW a, NEW b
  PROVE  Tail(<<a, b>>) = <<b>> /\ Len(<<a, b>>) = 2 /\ <<a, b>> # <<>> /\ Head(<<a, b>>) = a
OBVIOUS
LEMMA OneType == ASSUME NEW S, NEW a \in S PROVE <<a>> \in Seq(S)
OBVIOUS
LEMMA TwoType == ASSUME NEW S, NEW a \in S, NEW b \in S PROVE <<a, b>> \in Seq(S)
OBVIOUS

LEMMA CallsType ==
  ASSUME NEW c \in {<<>>} \cup Singles \cup Pairs PROVE c \in Seq(CallNames)
<1>1. "sync_10mhz" \in CallNames /\ "sync_1pps" \in CallNames
      /\ "sync_host" \in CallNames /\ "sync_gpsdo" \in CallNames
  BY DEF CallNames
<1>2. <<>> \in Seq(CallNames)
  OBVIOUS
<1>3. /\ <<"sync_host">> \in Seq(CallNames) /\ <<"sync_1pps">> \in Seq(CallNames)
      /\ <<"sync_gpsdo">> \in Seq(CallNames)
  BY <1>1, OneType, Zenon
<1>4. /\ <<"sync_10mhz", "sync_host">> \in Seq(CallNames)
      /\ <<"sync_10mhz", "sync_1pps">> \in Seq(CallNames)
  BY <1>1, TwoType, Zenon
<1>. QED  BY <1>2, <1>3, <1>4, Zenon DEF Singles, Pairs

LEMMA SingleReturns ==
  ASSUME calls \in Singles, Return
  PROVE  calls' = <<>> /\ spc' = "done" /\ leg' = "edge"
<1>1. Tail(calls) = <<>> /\ Len(calls) = 1
  BY One, Zenon DEF Singles
<1>. QED  BY <1>1 DEF Return

LEMMA PairReturns ==
  ASSUME calls \in Pairs, Return
  PROVE  calls' \in {<<"sync_host">>, <<"sync_1pps">>} /\ spc' = "call" /\ leg' = "edge"
<1>1. Tail(calls) \in {<<"sync_host">>, <<"sync_1pps">>} /\ Len(calls) = 2
  BY Two, Zenon DEF Pairs
<1>2. calls' = Tail(calls) /\ leg' = "edge"
  BY Zenon DEF Return
<1>3. spc' = "call"
  BY <1>1 DEF Return
<1>. QED  BY <1>1, <1>2, <1>3

LEMMA CallsOfMode ==
  ASSUME NEW m \in Modes
  PROVE  /\ Calls(m) \in {<<>>} \cup Singles \cup Pairs
         /\ m \notin {"", "other"} => Calls(m) # <<>>
<1>1. CASE m = "10mhz"
  <2>1. Calls(m) = <<"sync_10mhz", "sync_host">>
    BY <1>1 DEF Calls
  <2>. QED  BY <2>1, Two, Zenon DEF Pairs
<1>2. CASE m = "1pps"
  <2>1. Calls(m) = <<"sync_1pps">>
    BY <1>2 DEF Calls
  <2>. QED  BY <2>1, One, Zenon DEF Singles
<1>3. CASE m = "10mhz+1pps"
  <2>1. Calls(m) = <<"sync_10mhz", "sync_1pps">>
    BY <1>3 DEF Calls
  <2>. QED  BY <2>1, Two, Zenon DEF Pairs
<1>4. CASE m = "host"
  <2>1. Calls(m) = <<"sync_host">>
    BY <1>4 DEF Calls
  <2>. QED  BY <2>1, One, Zenon DEF Singles
<1>5. CASE m = "gpsdo"
  <2>1. Calls(m) = <<"sync_gpsdo">>
    BY <1>5 DEF Calls
  <2>. QED  BY <2>1, One, Zenon DEF Singles
<1>6. CASE m \in {"", "other"}
  <2>1. Calls(m) = <<>>
    BY <1>6 DEF Calls
  <2>. QED  BY <2>1, <1>6, Zenon
<1>. QED  BY <1>1, <1>2, <1>3, <1>4, <1>5, <1>6 DEF Modes

-----------------------------------------------------------------------------
(* What is left to call, by the first call. *)
LEMMA CallsByHead ==
  ASSUME CallsFit, calls # <<>>
  PROVE  /\ Head(calls) = "sync_10mhz" => calls \in Pairs
         /\ Head(calls) = "sync_1pps" => calls = <<"sync_1pps">>
         /\ Head(calls) = "sync_host" => calls = <<"sync_host">>
         /\ Head(calls) = "sync_gpsdo" => calls = <<"sync_gpsdo">>
<1>1. calls \in Singles \/ calls \in Pairs
  BY DEF CallsFit
<1>2. CASE calls \in Pairs
  <2>1. Head(calls) = "sync_10mhz"
    BY <1>2, Two, Zenon DEF Pairs
  <2>. QED  BY <2>1, <1>2
<1>3. CASE calls \in Singles
  <2>1. CASE calls = <<"sync_host">>
    <3>1. Head(calls) = "sync_host"
      BY <2>1, One, Zenon
    <3>. QED  BY <3>1, <2>1
  <2>2. CASE calls = <<"sync_1pps">>
    <3>1. Head(calls) = "sync_1pps"
      BY <2>2, One, Zenon
    <3>. QED  BY <3>1, <2>2
  <2>3. CASE calls = <<"sync_gpsdo">>
    <3>1. Head(calls) = "sync_gpsdo"
      BY <2>3, One, Zenon
    <3>. QED  BY <3>1, <2>3
  <2>. QED  BY <1>3, <2>1, <2>2, <2>3 DEF Singles
<1>. QED  BY <1>1, <1>2, <1>3

-----------------------------------------------------------------------------
(* The invariant holds at the beginning, *)

LEMMA SyncBegins == InitSync => IInvSync
<1> SUFFICES ASSUME InitSync PROVE IInvSync
  OBVIOUS
<1>1. CallsFit
  BY DEF InitSync, CallsFit
<1>2. TypeOKSync
  <2>1. calls \in Seq({"sync_10mhz", "sync_1pps", "sync_host", "sync_gpsdo"})
    BY <1>1, CallsType DEF CallsFit, CallNames
  <2>2. offset \in Int /\ lastPps \in Int
    BY Constants DEF InitSync
  <2>3. /\ time \in Nat /\ idle \in 0 .. MaxDelay /\ nextPps \in Nat \cup {None}
        /\ last \in Int /\ deadline \in Nat /\ host \in Int
    BY Constants DEF InitSync
  <2>4. {pps, refLocks, hidden} \subseteq BOOLEAN
    BY Zenon DEF InitSync
  <2>. QED  BY <2>1, <2>2, <2>3, <2>4 DEF InitSync, TypeOKSync
<1>. QED
  BY <1>1, <1>2 DEF InitSync, IInvSync, EdgeIsRecent, EdgeInTime, TimeIsSet, HostIsNear,
     UsrpTimeIsTrue, TimeoutMeansNoPps

(* and every step preserves it.  The steps outside wait_pps() and what     *)
(* follows it only have to keep the types and the calls.                   *)

Untimed(s) == s \notin {"last", "poll", "read", "host", "arm", "setnow"}

LEMMA UntimedStep ==
  ASSUME TypeOKSync', CallsFit', Untimed(spc'), leg' = "edge" => nextPps' = None,
         UsrpTimeIsTrue', TimeoutMeansNoPps'
  PROVE  IInvSync'
BY DEF IInvSync, Untimed, EdgeIsRecent, EdgeInTime, TimeIsSet, HostIsNear

LEMMA NotYetSynced ==
  ASSUME synced' = "nothing", spc' # "thrown" PROVE UsrpTimeIsTrue' /\ TimeoutMeansNoPps'
BY DEF UsrpTimeIsTrue, TimeoutMeansNoPps

LEMMA JumpStep == ASSUME IInvSync, spc = "idle", Jump PROVE IInvSync'
<1>1. CallsFit' /\ synced' = "nothing" /\ spc' = "idle"
  BY DEF Jump, IInvSync, CallsFit, sources, syncLocals, syncHistory
<1>2. TypeOKSync'
  BY Constants DEF Jump, IInvSync, TypeOKSync, sources, syncLocals, syncHistory
<1>3. leg' = "edge" => nextPps' = None
  BY DEF Jump, IInvSync, TimeIsSet, syncLocals
<1>. QED  BY <1>1, <1>2, <1>3, NotYetSynced, UntimedStep DEF Untimed

LEMMA SelectStep == ASSUME IInvSync, SyncSelect PROVE IInvSync'
<1>0. spc = "idle" /\ synced = "nothing" /\ leg = "edge" /\ nextPps = None
  BY DEF SyncSelect, IInvSync, CallsFit, TimeIsSet
<1>1. PICK m \in Modes :
        /\ calls' = Calls(m)
        /\ spc' = CASE m = "other" -> "refused" [] m = "" -> "done" [] OTHER -> "call"
  BY DEF SyncSelect
<1>2. UNCHANGED <<time, idle, usrpTime, sources, syncLocals, syncHistory>>
  BY DEF SyncSelect
<1>3. /\ spc' \in {"refused", "done", "call"}
      /\ spc' = "call" => m \notin {"", "other"}
  BY <1>1
<1>4. /\ calls' \in {<<>>} \cup Singles \cup Pairs
      /\ spc' = "call" => calls' # <<>>
  BY <1>1, <1>3, CallsOfMode
<1>5. CallsFit'
  BY <1>0, <1>2, <1>3, <1>4 DEF CallsFit, syncLocals, syncHistory
<1>6. TypeOKSync'
  <2>1. calls' \in Seq({"sync_10mhz", "sync_1pps", "sync_host", "sync_gpsdo"})
    BY <1>4, CallsType DEF CallNames
  <2>. QED
    BY <2>1, <1>2, <1>3 DEF IInvSync, TypeOKSync, usrpTime, sources, syncLocals, syncHistory
<1>7. nextPps' = None /\ synced' = "nothing" /\ spc' # "thrown" /\ Untimed(spc')
  BY <1>0, <1>2, <1>3 DEF usrpTime, syncHistory, Untimed
<1>. QED  BY <1>5, <1>6, <1>7, NotYetSynced, UntimedStep

LEMMA SelectClockStep == ASSUME IInvSync, SelectClock PROVE IInvSync'
<1>0. spc = "call" /\ synced = "nothing" /\ leg = "edge" /\ nextPps = None
  BY DEF SelectClock, IInvSync, CallsFit, TimeIsSet
<1>1. CallsFit'
  BY <1>0 DEF SelectClock, IInvSync, CallsFit, syncLocals, syncHistory
<1>2. TypeOKSync'
  BY DEF SelectClock, IInvSync, TypeOKSync, usrpTime, syncLocals, syncHistory
<1>3. nextPps' = None /\ synced' = "nothing" /\ spc' = "lock"
  BY <1>0 DEF SelectClock, usrpTime, syncHistory
<1>. QED  BY <1>1, <1>2, <1>3, NotYetSynced, UntimedStep DEF Untimed

(* Waiting for the first edge begins. *)
LEMMA FirstEdgeStep ==
  ASSUME TypeOKSync', CallsFit', FirstEdge, nextPps' = None, synced' = "nothing"
  PROVE  IInvSync'
<1>1. spc' = "last" /\ leg' = "edge"
  BY DEF FirstEdge
<1>2. UsrpTimeIsTrue' /\ TimeoutMeansNoPps'
  BY <1>1, NotYetSynced
<1>. QED
  BY <1>1, <1>2 DEF IInvSync, EdgeIsRecent, EdgeInTime, TimeIsSet, HostIsNear

LEMMA FirstEdgeTypes ==
  ASSUME FirstEdge PROVE time' \in Nat /\ leg' = "edge" /\ spc' = "last"
BY Constants DEF FirstEdge

LEMMA ReturnTypes ==
  ASSUME Return
  PROVE  time' = 0 /\ idle' = 0 /\ last' = 0 /\ deadline' = 0 /\ host' = 0
BY DEF Return

LEMMA RefLockedStep == ASSUME IInvSync, RefLocked PROVE IInvSync'
<1>0. spc = "lock" /\ synced = "nothing" /\ leg = "edge" /\ nextPps = None
      /\ Head(calls) \in {"sync_10mhz", "sync_gpsdo"} /\ calls # <<>>
  BY DEF RefLocked, IInvSync, CallsFit, TimeIsSet
<1>1. UNCHANGED <<usrpTime, sources, syncHistory>>
  BY DEF RefLocked
<1>2. CASE Head(calls) = "sync_10mhz"
  <2>1. Return
    BY <1>2 DEF RefLocked
  <2>2. calls \in Pairs
    BY <1>0, <1>2, CallsByHead DEF IInvSync
  <2>3. calls' \in Singles /\ spc' = "call" /\ leg' = "edge"
    BY <2>1, <2>2, PairReturns DEF Singles
  <2>4. calls' # <<>>
    BY <2>3, One, Zenon DEF Singles
  <2>5. CallsFit'
    BY <2>3, <2>4, <1>0, <1>1 DEF CallsFit, syncHistory
  <2>6. calls' \in Seq({"sync_10mhz", "sync_1pps", "sync_host", "sync_gpsdo"})
    BY <2>3, CallsType DEF CallNames
  <2>7. TypeOKSync'
    BY <2>1, <2>3, <2>6, <1>1, ReturnTypes, Constants
       DEF IInvSync, TypeOKSync, usrpTime, sources, syncHistory
  <2>. QED
    BY <2>3, <2>5, <2>7, <1>0, <1>1, NotYetSynced, UntimedStep DEF Untimed, usrpTime, syncHistory
<1>3. CASE Head(calls) = "sync_gpsdo"
  <2>1. FirstEdge /\ UNCHANGED <<idle, calls, last, deadline, host>>
    BY <1>3 DEF RefLocked
  <2>2. calls = <<"sync_gpsdo">>
    BY <1>0, <1>3, CallsByHead DEF IInvSync
  <2>3. CallsFit'
    BY <2>1, <2>2, <1>0, <1>1, FirstEdgeTypes DEF IInvSync, CallsFit, syncHistory
  <2>4. TypeOKSync'
    BY <2>1, <1>1, FirstEdgeTypes DEF IInvSync, TypeOKSync, usrpTime, sources, syncHistory
  <2>. QED
    BY <2>1, <2>3, <2>4, <1>0, <1>1, FirstEdgeStep DEF usrpTime, syncHistory
<1>. QED  BY <1>0, <1>2, <1>3

LEMMA SelectTimeStep == ASSUME IInvSync, SelectTime PROVE IInvSync'
<1>0. spc = "call" /\ synced = "nothing" /\ nextPps = None
      /\ Head(calls) = "sync_1pps" /\ calls # <<>>
  BY DEF SelectTime, IInvSync, CallsFit, TimeIsSet
<1>1. FirstEdge
  BY DEF SelectTime
<1>2. calls = <<"sync_1pps">>
  BY <1>0, CallsByHead DEF IInvSync
<1>3. CallsFit'
  BY <1>0, <1>1, <1>2, FirstEdgeTypes DEF SelectTime, IInvSync, CallsFit, syncHistory
<1>4. TypeOKSync'
  BY <1>1, FirstEdgeTypes DEF SelectTime, IInvSync, TypeOKSync, usrpTime, syncHistory
<1>. QED
  BY <1>0, <1>1, <1>3, <1>4, FirstEdgeStep DEF SelectTime, usrpTime, syncHistory

-----------------------------------------------------------------------------
(* The timed part: what follows an edge. *)

\* What the types say of the numbers, and what the rest of the invariant
\* says of a step of the timed part.
LEMMA Numbers ==
  ASSUME IInvSync
  PROVE  /\ time \in Nat /\ idle \in 0 .. MaxDelay /\ offset \in Int /\ lastPps \in Int
         /\ last \in Int /\ deadline \in Nat /\ host \in Int
         /\ Since \in 0 .. TicksPerSec - 1 /\ Second \in Int /\ time = Second + Since
         /\ nextPps \in Nat \cup {None} /\ None \notin Nat
<1>1. time \in Nat
  BY DEF IInvSync, TypeOKSync
<1>2. Since \in 0 .. TicksPerSec - 1 /\ Second \in Int
  BY <1>1, SinceType
<1>3. time = Second + Since
  BY <1>1, <1>2, Constants DEF Second
<1>. QED  BY <1>1, <1>2, <1>3 DEF IInvSync, TypeOKSync, None

\* The same second, as long as time does not pass.
LEMMA SameSecond == ASSUME time' = time PROVE Since' = Since /\ Second' = Second
BY DEF Since, Second

LEMMA WaitPpsStep == ASSUME IInvSync, WaitPps PROVE IInvSync'
<1>0. spc = "last" /\ synced = "nothing" /\ calls \in {<<"sync_1pps">>, <<"sync_gpsdo">>}
  BY DEF WaitPps, IInvSync, CallsFit
<1>1. /\ last' = lastPps /\ deadline' = time + 2 * TicksPerSec
      /\ spc' = "poll" /\ idle' = 0
      /\ UNCHANGED <<time, usrpTime, sources, calls, leg, host, syncHistory>>
  BY DEF WaitPps, Step, PpsTimeout
<1>2. CallsFit'
  BY <1>0, <1>1 DEF IInvSync, CallsFit, syncHistory
<1>3. deadline' \in Nat /\ last' \in Int
  BY <1>1, Numbers, Constants
<1>4. TypeOKSync'
  BY <1>1, <1>3, Constants DEF IInvSync, TypeOKSync, usrpTime, sources, syncHistory
<1>5. UsrpTimeIsTrue' /\ TimeoutMeansNoPps'
  BY <1>0, <1>1, NotYetSynced DEF syncHistory
<1>6. EdgeIsRecent' /\ HostIsNear'
  BY <1>1 DEF EdgeIsRecent, HostIsNear, usrpTime
<1>7. EdgeInTime'
  <2>1. Second + 2 * TicksPerSec <= deadline'
    BY <1>1, Numbers, Constants
  <2>. QED  BY <2>1, <1>1, SameSecond DEF EdgeInTime, usrpTime
<1>8. TimeIsSet'
  BY <1>0, <1>1, SameSecond DEF IInvSync, TimeIsSet, usrpTime, sources, None
<1>. QED  BY <1>2, <1>4, <1>5, <1>6, <1>7, <1>8 DEF IInvSync

LEMMA PollPpsStep == ASSUME IInvSync, PollPps PROVE IInvSync'
<1>0. spc = "poll" /\ synced = "nothing" /\ calls \in {<<"sync_1pps">>, <<"sync_gpsdo">>}
  BY DEF PollPps, IInvSync, CallsFit
<1>1. /\ spc' = IF time >= deadline THEN "thrown" ELSE "read"
      /\ idle' = 0
      /\ UNCHANGED <<time, usrpTime, sources, calls, syncLocals, syncHistory>>
  BY DEF PollPps, Step
<1>2. CallsFit'
  BY <1>0, <1>1 DEF IInvSync, CallsFit, syncLocals, syncHistory
<1>3. TypeOKSync'
  BY <1>1, Constants DEF IInvSync, TypeOKSync, usrpTime, sources, syncLocals, syncHistory
<1>4. TimeoutMeansNoPps'
  <2>1. spc' = "thrown" => time >= deadline
    BY <1>1
  <2>2. pps /\ ~hidden => Second + TicksPerSec <= deadline
    BY <1>0, Numbers, Constants DEF IInvSync, EdgeInTime
  <2>3. ~(pps /\ ~hidden /\ time >= deadline)
    BY <2>2, Numbers, Constants
  <2>. QED  BY <2>1, <2>3, <1>1 DEF TimeoutMeansNoPps, sources, syncHistory
<1>5. UsrpTimeIsTrue'
  BY <1>0, <1>1 DEF UsrpTimeIsTrue, syncHistory
<1>6. EdgeIsRecent'
  <2>1. lastPps # last => Since + 1 <= MaxDelay
    BY <1>0, Numbers, Constants DEF IInvSync, EdgeIsRecent
  <2>. QED  BY <2>1, <1>1, SameSecond, Constants, Numbers DEF EdgeIsRecent, usrpTime, syncLocals
<1>7. EdgeInTime'
  BY <1>0, <1>1, SameSecond DEF IInvSync, EdgeInTime, usrpTime, sources, syncLocals, syncHistory
<1>8. TimeIsSet' /\ HostIsNear'
  BY <1>0, <1>1, SameSecond DEF IInvSync, TimeIsSet, HostIsNear, usrpTime, sources, syncLocals, None
<1>. QED  BY <1>2, <1>3, <1>4, <1>5, <1>6, <1>7, <1>8 DEF IInvSync

LEMMA ReadPpsStep == ASSUME IInvSync, ReadPps PROVE IInvSync'
<1>0. spc = "read" /\ synced = "nothing" /\ calls \in {<<"sync_1pps">>, <<"sync_gpsdo">>}
  BY DEF ReadPps, IInvSync, CallsFit
<1>1. UNCHANGED <<usrpTime, sources, hidden>>
  BY DEF ReadPps
<1>2. CASE lastPps # last /\ leg = "set"
  <2>1. Return /\ synced' = "pps"
    BY <1>2 DEF ReadPps
  <2>2. calls' = <<>> /\ spc' = "done" /\ leg' = "edge"
    BY <2>1, <1>0, SingleReturns DEF Singles
  <2>3. nextPps = None /\ offset = 0
    BY <1>0, <1>2 DEF IInvSync, TimeIsSet
  <2>4. CallsFit'
    BY <2>1, <2>2 DEF CallsFit
  <2>5. TypeOKSync'
    <3>1. calls' \in Seq({"sync_10mhz", "sync_1pps", "sync_host", "sync_gpsdo"})
      BY <2>2
    <3>. QED
      BY <3>1, <2>1, <2>2, <1>1, ReturnTypes, Constants DEF IInvSync, TypeOKSync, usrpTime, sources
  <2>. QED
    BY <2>1, <2>2, <2>3, <2>4, <2>5, <1>1, UntimedStep
       DEF Untimed, UsrpTimeIsTrue, TimeoutMeansNoPps, usrpTime
<1>3. CASE ~(lastPps # last /\ leg = "set")
  <2>1. PollAgain /\ UNCHANGED <<time, calls, leg, host, synced>>
    BY <1>3 DEF ReadPps
  <2>2. UsrpTimeIsTrue' /\ (spc' # "thrown" => TimeoutMeansNoPps')
    BY <2>1, <1>0 DEF UsrpTimeIsTrue, TimeoutMeansNoPps
  <2>3. CASE lastPps = last
    <3>1. spc' = "poll" /\ idle' = 0 /\ UNCHANGED <<last, deadline>>
      BY <2>1, <2>3 DEF PollAgain, Step
    <3>2. CallsFit'
      BY <3>1, <2>1, <1>0 DEF IInvSync, CallsFit
    <3>3. TypeOKSync'
      BY <3>1, <2>1, <1>1, Constants DEF IInvSync, TypeOKSync, usrpTime, sources
    <3>4. EdgeIsRecent' /\ HostIsNear'
      BY <3>1, <1>1, <2>3 DEF EdgeIsRecent, HostIsNear, usrpTime
    <3>5. EdgeInTime' /\ TimeIsSet'
      BY <3>1, <2>1, <1>0, <1>1, SameSecond
         DEF IInvSync, EdgeInTime, TimeIsSet, usrpTime, sources, None
    <3>. QED  BY <3>1, <3>2, <3>3, <3>4, <3>5, <2>2 DEF IInvSync
  <2>4. CASE lastPps # last
    <3>1. /\ spc' = "host" /\ idle' = 0 /\ last' = 0 /\ deadline' = 0
          /\ leg = "edge" /\ leg' = "edge"
      BY <2>1, <2>4, <1>3 DEF PollAgain, Step, IInvSync, TypeOKSync
    <3>2. CallsFit'
      BY <3>1, <2>1, <1>0 DEF IInvSync, CallsFit
    <3>3. TypeOKSync'
      BY <3>1, <2>1, <1>1, Constants DEF IInvSync, TypeOKSync, usrpTime, sources
    <3>4. Since + 1 <= 2 * MaxDelay
      BY <2>4, <1>0, Numbers, Constants DEF IInvSync, EdgeIsRecent
    <3>5. EdgeIsRecent' /\ HostIsNear' /\ EdgeInTime'
      BY <3>1, <3>4, <2>1, SameSecond, Constants, Numbers DEF EdgeIsRecent, HostIsNear, EdgeInTime
    <3>6. TimeIsSet'
      BY <3>1, <1>1 DEF IInvSync, TimeIsSet, usrpTime
    <3>. QED  BY <3>1, <3>2, <3>3, <3>5, <3>6, <2>2 DEF IInvSync
  <2>. QED  BY <2>3, <2>4
<1>. QED  BY <1>2, <1>3

LEMMA ReadHostStep == ASSUME IInvSync, ReadHost PROVE IInvSync'
<1>0. /\ spc = "host" /\ synced = "nothing" /\ leg = "edge"
      /\ calls \in {<<"sync_1pps">>, <<"sync_gpsdo">>}
  BY DEF ReadHost, IInvSync, CallsFit
<1>1. /\ spc' = "arm" /\ idle' = 0
      /\ UNCHANGED <<time, usrpTime, sources, calls, leg, last, deadline, syncHistory>>
  BY DEF ReadHost, Step
<1>2. PICK e \in -HostError .. HostError : host' = time + e
  BY DEF ReadHost, HostClock
<1>3. host' \in Int /\ -HostError <= host' - time /\ host' - time <= HostError
  BY <1>2, Numbers, Constants
<1>4. CallsFit'
  BY <1>0, <1>1 DEF IInvSync, CallsFit, syncHistory
<1>5. TypeOKSync'
  BY <1>1, <1>3, Constants DEF IInvSync, TypeOKSync, usrpTime, sources, syncHistory
<1>6. EdgeIsRecent'
  <2>1. Since + 1 <= 3 * MaxDelay
    BY <1>0, Numbers, Constants DEF IInvSync, EdgeIsRecent
  <2>2. -HostError <= host' - Second /\ host' - Second <= 3 * MaxDelay - 1 + HostError
    BY <2>1, <1>3, Numbers, Constants
  <2>. QED  BY <2>1, <2>2, <1>1, SameSecond, Numbers, Constants DEF EdgeIsRecent
<1>7. EdgeInTime' /\ TimeIsSet' /\ HostIsNear'
  BY <1>0, <1>1 DEF IInvSync, EdgeInTime, TimeIsSet, HostIsNear, usrpTime
<1>8. UsrpTimeIsTrue' /\ TimeoutMeansNoPps'
  BY <1>0, <1>1, NotYetSynced DEF syncHistory
<1>. QED  BY <1>4, <1>5, <1>6, <1>7, <1>8 DEF IInvSync

\* The host's clock, as it was read, rounds to the second of the edge.
LEMMA SecondIsRead ==
  ASSUME IInvSync, spc = "arm"
  PROVE  /\ RoundSecond(host) \in Nat
         /\ (RoundSecond(host) + 1) * TicksPerSec = Second + TicksPerSec
<1> DEFINE k == time \div TicksPerSec
<1>1. k \in Int /\ Second = TicksPerSec * k
  BY Numbers, SinceType
<1>2. k \in Nat
  BY Numbers, Constants
<1> HIDE DEF k
<1>3. TicksPerSec * k = k * TicksPerSec /\ (k + 1) * TicksPerSec = k * TicksPerSec + TicksPerSec
      /\ k * TicksPerSec \in Int
  BY <1>1, Constants
<1>4. -HostError <= host - Second /\ host - Second <= 3 * MaxDelay - 1 + HostError
  BY DEF IInvSync, EdgeIsRecent
<1>5. -TicksPerSec < 2 * (host - Second) /\ 2 * (host - Second) < TicksPerSec
  BY <1>4, Numbers, Constants
<1>6. host \in Int /\ Second = k * TicksPerSec
  BY <1>1, <1>3, Numbers
<1>7. RoundSecond(host) = k
  BY <1>1, <1>5, <1>6, RoundNear
<1>. QED  BY <1>1, <1>2, <1>3, <1>7

LEMMA SetNextPpsStep == ASSUME IInvSync, SetNextPps PROVE IInvSync'
<1>0. /\ spc = "arm" /\ synced = "nothing" /\ calls \in {<<"sync_1pps">>, <<"sync_gpsdo">>}
  BY DEF SetNextPps, IInvSync, CallsFit
<1>1. /\ spc' = "last" /\ idle' = 0 /\ leg' = "set" /\ host' = 0
      /\ nextPps' = RoundSecond(host) + 1 /\ pps' \in {pps, FALSE}
      /\ UNCHANGED <<time, offset, lastPps, refLocks, calls, last, deadline, syncHistory>>
  BY DEF SetNextPps, Step
<1>2. nextPps' \in Nat /\ nextPps' # None /\ nextPps' * TicksPerSec = Second + TicksPerSec
  BY <1>0, <1>1, SecondIsRead DEF None
<1>3. CallsFit'
  BY <1>0, <1>1 DEF IInvSync, CallsFit, syncHistory
<1>4. TypeOKSync'
  <2>1. {pps', refLocks', hidden'} \subseteq BOOLEAN
    <3>1. {pps, refLocks, hidden} \subseteq BOOLEAN
      BY Zenon DEF IInvSync, TypeOKSync
    <3>. QED  BY <3>1, <1>1 DEF syncHistory
  <2>2. idle' \in 0 .. MaxDelay /\ host' \in Int
    BY <1>1, Constants
  <2>. QED  BY <2>1, <2>2, <1>1, <1>2 DEF IInvSync, TypeOKSync, syncHistory
<1>5. EdgeIsRecent' /\ EdgeInTime' /\ HostIsNear'
  BY <1>1 DEF EdgeIsRecent, EdgeInTime, HostIsNear
<1>6. TimeIsSet'
  <2>1. Second' = Second
    BY <1>1, SameSecond
  <2>2. nextPps' * TicksPerSec = Second' + TicksPerSec
    BY <2>1, <1>2
  <2>. QED  BY <2>2, <1>1, <1>2, Zenon DEF TimeIsSet
<1>7. UsrpTimeIsTrue' /\ TimeoutMeansNoPps'
  BY <1>0, <1>1, NotYetSynced DEF syncHistory
<1>. QED  BY <1>3, <1>4, <1>5, <1>6, <1>7 DEF IInvSync

LEMMA ReadHostNowStep == ASSUME IInvSync, ReadHostNow PROVE IInvSync'
<1>0. /\ spc = "call" /\ Head(calls) = "sync_host" /\ calls # <<>>
      /\ synced = "nothing" /\ leg = "edge"
  BY DEF ReadHostNow, IInvSync, CallsFit
<1>1. /\ spc' = "setnow" /\ idle' = 0
      /\ UNCHANGED <<time, usrpTime, sources, calls, leg, last, deadline, syncHistory>>
  BY DEF ReadHostNow, Step
<1>2. PICK e \in -HostError .. HostError : host' = time + e
  BY DEF ReadHostNow, HostClock
<1>3. host' \in Int /\ -HostError <= host' - time /\ host' - time <= HostError
  BY <1>2, Numbers, Constants
<1>4. calls = <<"sync_host">>
  BY <1>0, CallsByHead DEF IInvSync
<1>5. CallsFit'
  BY <1>0, <1>1, <1>4 DEF IInvSync, CallsFit, syncHistory
<1>6. TypeOKSync'
  BY <1>1, <1>3, Constants DEF IInvSync, TypeOKSync, usrpTime, sources, syncHistory
<1>7. HostIsNear'
  BY <1>1, <1>3, Constants DEF HostIsNear
<1>8. EdgeIsRecent' /\ EdgeInTime' /\ TimeIsSet'
  BY <1>0, <1>1 DEF IInvSync, EdgeIsRecent, EdgeInTime, TimeIsSet, usrpTime
<1>9. UsrpTimeIsTrue' /\ TimeoutMeansNoPps'
  BY <1>0, <1>1, NotYetSynced DEF syncHistory
<1>. QED  BY <1>5, <1>6, <1>7, <1>8, <1>9 DEF IInvSync

LEMMA SetNowStep == ASSUME IInvSync, SetNow PROVE IInvSync'
<1>0. spc = "setnow" /\ calls = <<"sync_host">> /\ nextPps = None
  BY DEF SetNow, IInvSync, CallsFit, TimeIsSet
<1>1. /\ offset' = host - time /\ Return /\ synced' = "host"
      /\ UNCHANGED <<lastPps, nextPps, sources, hidden>>
  BY DEF SetNow
<1>2. calls' = <<>> /\ spc' = "done" /\ leg' = "edge"
  BY <1>0, <1>1, SingleReturns DEF Singles
<1>3. offset' \in -(HostError + MaxDelay) .. HostError
  BY <1>0, <1>1, Numbers, Constants DEF IInvSync, HostIsNear
<1>4. CallsFit'
  BY <1>1, <1>2 DEF CallsFit
<1>5. TypeOKSync'
  <2>1. calls' \in Seq({"sync_10mhz", "sync_1pps", "sync_host", "sync_gpsdo"})
    BY <1>2
  <2>. QED
    BY <2>1, <1>1, <1>2, <1>3, ReturnTypes, Constants DEF IInvSync, TypeOKSync, sources
<1>. QED
  BY <1>0, <1>1, <1>2, <1>3, <1>4, <1>5, UntimedStep DEF Untimed, UsrpTimeIsTrue, TimeoutMeansNoPps

-----------------------------------------------------------------------------
(* Time passes.  Where a thread that has seen an edge, or could have, is   *)
(* still on its way there is no other.                                     *)

LEMMA NoEdgeMeanwhile ==
  ASSUME IInvSync, Since = TicksPerSec - 1
  PROVE  /\ spc \notin {"host", "arm"}
         /\ spc \in {"poll", "read"} => lastPps = last
<1>. QED  BY Numbers, Constants DEF IInvSync, EdgeIsRecent

LEMMA TickStep == ASSUME IInvSync, Tick PROVE IInvSync'
<1>0. /\ spc \in {"last", "poll", "read", "host", "arm", "setnow"}
      /\ synced = "nothing" /\ spc # "thrown"
  BY DEF Tick, Timed, IInvSync, CallsFit
<1>1. /\ idle < MaxDelay /\ time' = time + 1 /\ idle' = idle + 1
      /\ UNCHANGED <<sources, calls, spc, syncLocals, synced>>
  BY DEF Tick
<1>2. IF pps /\ time' % TicksPerSec = 0 THEN Edge(time') ELSE UNCHANGED <<usrpTime, hidden>>
  BY DEF Tick
<1>3. CallsFit'
  BY <1>1 DEF IInvSync, CallsFit, syncLocals
<1>4. UsrpTimeIsTrue' /\ TimeoutMeansNoPps'
  BY <1>0, <1>1, NotYetSynced
<1>5. time' \in Nat /\ idle' \in 0 .. MaxDelay
  BY <1>1, Numbers, Constants
<1>6. HostIsNear'
  BY <1>0, <1>1, Numbers, Constants DEF IInvSync, HostIsNear, syncLocals
<1>7. CASE ~(pps /\ time' % TicksPerSec = 0)
  <2>1. UNCHANGED <<usrpTime, hidden>>
    BY <1>2, <1>7
  <2>2. TypeOKSync'
    BY <2>1, <1>1, <1>5 DEF IInvSync, TypeOKSync, usrpTime, sources, syncLocals
  <2>3. CASE time' % TicksPerSec # 0
    <3>1. Since' = Since + 1 /\ Second' = Second
      BY <2>3, <1>1, Numbers, NextTick
    <3>2. EdgeIsRecent'
      BY <3>1, <2>1, <1>1, Numbers, Constants DEF IInvSync, EdgeIsRecent, usrpTime, syncLocals
    <3>3. EdgeInTime' /\ TimeIsSet'
      BY <3>1, <2>1, <1>1 DEF IInvSync, EdgeInTime, TimeIsSet, usrpTime, sources, syncLocals, None
    <3>. QED  BY <2>2, <3>2, <3>3, <1>3, <1>4, <1>6 DEF IInvSync
  <2>4. CASE time' % TicksPerSec = 0
    <3>1. Since = TicksPerSec - 1 /\ ~pps
      BY <2>4, <1>1, <1>7, Numbers, NextTick
    <3>2. spc \notin {"host", "arm"} /\ (spc \in {"poll", "read"} => lastPps = last)
      BY <3>1, NoEdgeMeanwhile
    <3>3. EdgeIsRecent'
      BY <3>2, <2>1, <1>1 DEF EdgeIsRecent, usrpTime, syncLocals
    <3>4. EdgeInTime' /\ TimeIsSet'
      BY <3>1, <2>1, <1>1 DEF IInvSync, EdgeInTime, TimeIsSet, usrpTime, sources, syncLocals, None
    <3>. QED  BY <2>2, <3>3, <3>4, <1>3, <1>4, <1>6 DEF IInvSync
  <2>. QED  BY <2>3, <2>4
<1>8. CASE pps /\ time' % TicksPerSec = 0
  <2>1. /\ Since = TicksPerSec - 1 /\ Since' = 0
        /\ Second' = Second + TicksPerSec /\ time' = Second'
    BY <1>1, <1>8, Numbers, NextTick
  <2>2. /\ offset' = IF nextPps = None THEN offset ELSE nextPps * TicksPerSec - time'
        /\ lastPps' = time' + offset' /\ nextPps' = None
        /\ hidden' = (hidden \/ lastPps' = lastPps)
    BY <1>2, <1>8 DEF Edge
  <2>3. spc \notin {"host", "arm"} /\ (spc \in {"poll", "read"} => lastPps = last)
    BY <2>1, NoEdgeMeanwhile
  <2>4. offset' \in Int /\ lastPps' \in Int
    <3>1. CASE nextPps = None
      BY <3>1, <2>2, <1>5, Numbers
    <3>2. CASE nextPps # None
      <4>1. nextPps * TicksPerSec \in Int
        BY <3>2, Numbers, Constants
      <4>. QED  BY <4>1, <3>2, <2>2, <1>5
    <3>. QED  BY <3>1, <3>2
  <2>5. hidden' \in BOOLEAN
    BY <2>2 DEF IInvSync, TypeOKSync
  <2>6. TypeOKSync'
    BY <2>2, <2>4, <2>5, <1>1, <1>5 DEF IInvSync, TypeOKSync, sources, syncLocals
  <2>7. EdgeIsRecent'
    BY <2>1, <2>3, <1>1, Numbers, Constants DEF EdgeIsRecent, syncLocals
  <2>8. EdgeInTime'
    <3>1. spc \in {"poll", "read"} /\ ~hidden' => lastPps' # last /\ ~hidden
      BY <2>2, <2>3
    <3>2. spc \in {"poll", "read"} /\ ~hidden => Second' + TicksPerSec <= deadline
      BY <2>1, <2>3, <1>8, Numbers, Constants DEF IInvSync, EdgeInTime
    <3>. QED  BY <3>1, <3>2, <1>1 DEF EdgeInTime, syncLocals
  <2>9. TimeIsSet'
    <3>1. leg = "set" /\ spc \in {"last", "poll", "read"} => offset' = 0
      <4>1. SUFFICES ASSUME leg = "set", spc \in {"last", "poll", "read"} PROVE offset' = 0
        OBVIOUS
      <4>2. CASE nextPps = None
        BY <4>1, <4>2, <2>2 DEF IInvSync, TimeIsSet
      <4>3. CASE nextPps # None
        <5>1. nextPps * TicksPerSec = time'
          BY <4>1, <4>3, <2>1, <1>8 DEF IInvSync, TimeIsSet
        <5>. QED  BY <5>1, <4>3, <2>2, <1>5
      <4>. QED  BY <4>2, <4>3
    <3>. QED  BY <3>1, <2>2, <1>1 DEF TimeIsSet, syncLocals
  <2>. QED  BY <2>6, <2>7, <2>8, <2>9, <1>3, <1>4, <1>6 DEF IInvSync
<1>. QED  BY <1>7, <1>8

-----------------------------------------------------------------------------
(* Every step of Sync, in whatever composition. *)
LEMMA SyncInvariance ==
  ASSUME IInvSync, SyncStep \/ Tick \/ (spc = "idle" /\ Jump) \/ UNCHANGED syncVars
  PROVE  IInvSync'
<1>1. CASE SyncStep
  BY <1>1, SelectStep, SelectClockStep, RefLockedStep, SelectTimeStep, WaitPpsStep,
     PollPpsStep, ReadPpsStep, ReadHostStep, SetNextPpsStep, ReadHostNowStep, SetNowStep
     DEF SyncStep
<1>2. CASE Tick
  BY <1>2, TickStep
<1>3. CASE spc = "idle" /\ Jump
  BY <1>3, JumpStep
<1>4. CASE UNCHANGED syncVars
  <2>1. CallsFit' /\ TypeOKSync' /\ UsrpTimeIsTrue' /\ TimeoutMeansNoPps'
    BY <1>4 DEF IInvSync, CallsFit, TypeOKSync, UsrpTimeIsTrue, TimeoutMeansNoPps, syncVars,
       usrpTime, sources, syncLocals, syncHistory
  <2>2. Since' = Since /\ Second' = Second
    BY <1>4, SameSecond DEF syncVars
  <2>3. EdgeIsRecent' /\ EdgeInTime' /\ TimeIsSet' /\ HostIsNear'
    BY <1>4, <2>2 DEF IInvSync, EdgeIsRecent, EdgeInTime, TimeIsSet, HostIsNear, None, syncVars,
       usrpTime, sources, syncLocals, syncHistory
  <2>. QED  BY <2>1, <2>3 DEF IInvSync
<1>. QED  BY <1>1, <1>2, <1>3, <1>4

=============================================================================
