--------------------------------- MODULE Tx ---------------------------------
(***************************************************************************)
(* The Tx thread of src/src/tx.cpp: it streams a periodic signal to the    *)
(* USRP in timed bursts, and after any streaming error ends the burst and  *)
(* starts another one at a time that is a multiple of the signal's period, *)
(* so that the signal on the air stays coherent with device time.          *)
(*                                                                         *)
(* The USRP is external: a FIFO of packets, a transmitter that takes one   *)
(* sample from it per sample period, and a queue of asynchronous messages  *)
(* back to the host.  Device time is kept modulo the period (`phase'), and *)
(* the start time of a burst as the time left until then (`wait').         *)
(***************************************************************************)
EXTENDS Integers, Sequences

CONSTANTS Period,        \* samples in the signal
          Chunk,         \* samples per send()
          Room,          \* samples and commands the USRP's FIFO holds
          Delay,         \* BURST_DELAY in samples
          NumTx          \* Tx channels

ASSUME PeriodAssumption == Period \in Nat \ {0}
ASSUME ChunkAssumption == Chunk \in Nat \ {0} /\ Room \in Nat /\ Room > Chunk
ASSUME DelayAssumption == Delay \in Nat
ASSUME NumTxAssumption == NumTx \in Nat \ {0}

VARIABLES
  phase,    \* device time modulo Period
  fifo,     \* the USRP's FIFO of packets
  mode,     \* transmitter: "idle", "on" the air, or "drop"ping after an error
  air,      \* history: sample transmitted last, and the phase it was sent at
  async,    \* asynchronous messages not yet received
  gain,     \* channel -> BOOLEAN: Tx gain is up
  txpc,     \* next step of the worker
  burst,    \* samples_burst, modulo Period but for 0
  wait,     \* tx_md.time_spec of a start of burst, as the time until then
  acks,     \* num_acks
  mute,     \* the atomic flag mute
  txRun,    \* the atomic flag run
  bugAck,   \* bug_error_burst_ack: the device is a B2xx
  late      \* history: the USRP took longer than 0.1 s to accept or to
            \* acknowledge an end of burst

hostVars == <<txpc, burst, acks, mute, txRun, late>>
devVars == <<phase, mode, air, bugAck>>
vars == <<devVars, fifo, async, gain, wait, hostVars>>

TxChannels == 0 .. NumTx - 1
Smp(k) == [kind |-> "sample", idx |-> k]
Start(w) == [kind |-> "start", wait |-> w]
Untimed == [kind |-> "untimed"]
Eob == [kind |-> "eob"]

Init ==
  /\ phase = 0 /\ fifo = <<>> /\ mode = "idle" /\ air = [idx |-> 0, at |-> 0]
  /\ async = <<>> /\ gain = [c \in TxChannels |-> TRUE]
  /\ txpc = "top" /\ burst = 0 /\ wait = -1 /\ acks = 0
  /\ mute = FALSE /\ txRun = TRUE
  /\ bugAck \in BOOLEAN /\ late = FALSE

Empty == fifo = <<>>
FirstIs(kind) == fifo # <<>> /\ Head(fifo).kind = kind
Notify(m) == async' = Append(async, m)

-----------------------------------------------------------------------------
(* The USRP *)

(* Time goes by, and the start of every burst comes closer; once missed,   *)
(* it stays missed.                                                        *)
Closer(w) == IF w > -1 THEN w - 1 ELSE -1
Later(f) == [i \in DOMAIN f |->
               IF f[i].kind = "start" THEN Start(Closer(f[i].wait)) ELSE f[i]]
Elapse(f) ==
  /\ phase' = (phase + 1) % Period
  /\ fifo' = Later(f)
  /\ wait' = Closer(wait)

(* Off the air; a burst that is due is not kept waiting. *)
DevIdle ==
  /\ mode # "on"
  /\ Empty \/ (FirstIs("start") /\ Head(fifo).wait > 0)
  /\ Elapse(fifo)
  /\ UNCHANGED <<mode, air, bugAck, async, gain, hostVars>>

(* The first packet's time stamp is due: on the air, or too late. *)
DevStart ==
  /\ mode # "on" /\ FirstIs("start") /\ Head(fifo).wait <= 0
  /\ fifo' = Tail(fifo)
  /\ IF Head(fifo).wait = 0 THEN mode' = "on" /\ UNCHANGED async
                            ELSE mode' = "drop" /\ Notify("error")
  /\ UNCHANGED <<phase, air, bugAck, gain, wait, hostVars>>

(* A sample goes on the air. *)
DevTransmit ==
  /\ mode = "on" /\ FirstIs("sample")
  /\ air' = [idx |-> Head(fifo).idx, at |-> phase]
  /\ Elapse(Tail(fifo))
  /\ UNCHANGED <<mode, bugAck, async, gain, hostVars>>

(* A burst whose time is ignored begins at once. *)
DevStartUntimed ==
  /\ FirstIs("untimed") \/ (FirstIs("start") /\ mode = "on")
  /\ mode' = "on"
  /\ fifo' = Tail(fifo)
  /\ UNCHANGED <<phase, air, bugAck, async, gain, wait, hostVars>>

(* Nothing to transmit, or a packet was lost: under the policy next_burst  *)
(* nothing is transmitted until the next burst.                            *)
DevError ==
  /\ mode = "on" /\ (Empty \/ FirstIs("sample"))
  /\ mode' = "drop"
  /\ Notify("error")
  /\ fifo' = IF Empty THEN fifo ELSE Tail(fifo)
  /\ UNCHANGED <<phase, air, bugAck, gain, wait, hostVars>>

DevDrop ==
  /\ mode # "on" /\ FirstIs("sample")
  /\ fifo' = Tail(fifo)
  /\ UNCHANGED <<devVars, async, gain, wait, hostVars>>

Acks == [c \in 1 .. NumTx |-> "ack"]

(* The end of a burst is acknowledged for each channel; a B2xx does not do *)
(* so after an error.                                                      *)
DevEob ==
  /\ FirstIs("eob")
  /\ fifo' = Tail(fifo)
  /\ mode' = "idle"
  /\ async' = IF mode = "drop" /\ bugAck THEN async ELSE async \o Acks
  /\ UNCHANGED <<phase, air, bugAck, gain, wait, hostVars>>

DevStep ==
  \/ DevIdle \/ DevStart \/ DevTransmit \/ DevStartUntimed \/ DevError
  \/ DevDrop \/ DevEob

-----------------------------------------------------------------------------
(* The worker *)

\* Mutant: the start of a burst is not aligned.
AlignTimeNot(p) == Delay

(* align_time(): device time after the delay, rounded up to the period,    *)
(* as the time until then.                                                 *)
AlignTime(p) == Delay + ((-(p + Delay)) % Period)

(* Begin an iteration, with a new burst if none is in progress. *)
TxTop ==
  /\ txpc = "top"
  /\ txpc' = IF txRun THEN "send" ELSE "off"
  /\ wait' = IF txRun /\ burst = 0 THEN AlignTime(phase) ELSE wait
  /\ UNCHANGED <<devVars, fifo, async, gain, burst, acks, mute, txRun, late>>

(* Sample k of what the next send() transmits. *)
BurstSample(k) == Smp((burst + k - 1) % Period)

(* samples_burst, of which only the remainder and being 0 matter: 0, or    *)
(* the number in 1 .. Period congruent to it.                              *)
Advanced(b, n) == IF b + n = 0 THEN 0 ELSE 1 + ((b + n - 1) % Period)

(* A burst is on the air or yet to begin. *)
Starts == {i \in DOMAIN fifo : fifo[i].kind \in {"start", "untimed"}}
InProgress == mode = "on" \/ Starts # {}

(* What marks the start of a burst: the USRP may ignore its time while the *)
(* burst before is in progress.                                            *)
StartsOfBurst == {Start(wait)} \cup (IF InProgress THEN {Untimed} ELSE {})

(* send(): fewer samples than given, none included, if the FIFO stays full *)
(* for its timeout, as it may while a burst is in progress.                *)
TxSend ==
  /\ txpc = "send"
  /\ \E n \in 0 .. Chunk, first \in StartsOfBurst :
       LET data == [k \in 1 .. n |-> BurstSample(k)]
           packets == IF burst = 0 /\ n > 0 THEN <<first>> \o data ELSE data
       IN  /\ Len(fifo) + Len(packets) <= Room
           /\ n = Chunk \/ (InProgress /\ Len(fifo) + Chunk + 1 > Room)
           /\ fifo' = fifo \o packets
           /\ burst' = Advanced(burst, n)
  /\ wait' = -1
  /\ txpc' = "drain"
  /\ UNCHANGED <<devVars, async, gain, acks, mute, txRun, late>>

(* Receive one asynchronous message; any error ends the burst. *)
TxDrain ==
  /\ txpc = "drain" /\ async # <<>>
  /\ async' = Tail(async)
  /\ burst' = IF Head(async) = "error" THEN 0 ELSE burst
  /\ UNCHANGED <<devVars, fifo, gain, wait, txpc, acks, mute, txRun, late>>

\* Mutant: a request to mute does not end the burst.
TxDrainedDeaf ==
  /\ txpc = "drain" /\ async = <<>>
  /\ txpc' = IF burst = 0 \/ ~txRun THEN "eob" ELSE "top"
  /\ UNCHANGED <<devVars, fifo, async, gain, burst, wait, acks, mute, txRun, late>>

(* No message left: go on, unless the burst has to end. *)
TxDrained ==
  /\ txpc = "drain" /\ async = <<>>
  /\ txpc' = IF burst = 0 \/ mute \/ ~txRun THEN "eob" ELSE "top"
  /\ UNCHANGED <<devVars, fifo, async, gain, burst, wait, acks, mute, txRun, late>>

\* Mutant: acknowledgements are never waited for.
AcksNeverExpected == TRUE

(* A B2xx does not acknowledge the end of a burst after an error. *)
NoAckExpected == burst = 0 /\ bugAck

(* End the burst. *)
TxEob ==
  /\ txpc = "eob" /\ Len(fifo) < Room
  /\ fifo' = Append(fifo, Eob)
  /\ acks' = IF NoAckExpected THEN NumTx ELSE 0
  /\ txpc' = "ack"
  /\ UNCHANGED <<devVars, async, gain, burst, wait, mute, txRun, late>>

(* The FIFO stays full for the time-out of that send(), whose result       *)
(* nobody looks at.                                                        *)
TxEobLost ==
  /\ txpc = "eob" /\ Len(fifo) = Room
  /\ acks' = IF NoAckExpected THEN NumTx ELSE 0
  /\ txpc' = "ack" /\ late' = TRUE
  /\ UNCHANGED <<devVars, fifo, async, gain, burst, wait, mute, txRun>>

TxAck ==
  /\ txpc = "ack" /\ acks < NumTx /\ async # <<>>
  /\ async' = Tail(async)
  /\ acks' = IF Head(async) = "ack" THEN acks + 1 ELSE acks
  /\ UNCHANGED <<devVars, fifo, gain, wait, txpc, burst, mute, txRun, late>>

(* No message in time: none will come, or the USRP is still at it. *)
TimedOut == async = <<>>

(* All acknowledgements are there, or time is up. *)
TxBurstEnded ==
  /\ txpc = "ack" /\ (acks >= NumTx \/ TimedOut)
  /\ burst' = 0 /\ acks' = 0
  /\ txpc' = IF mute THEN "mute" ELSE "top"
  /\ late' = (late \/ (acks < NumTx /\ (mode = "on" \/ ~Empty)))
  /\ UNCHANGED <<devVars, fifo, async, gain, wait, mute, txRun>>

(* set_tx_gain(0) sets the gain of channel 0, and only that. *)
TxMute ==
  /\ txpc = "mute"
  /\ gain' = [gain EXCEPT ![0] = FALSE]
  /\ txpc' = "muted"
  /\ UNCHANGED <<devVars, fifo, async, wait, burst, acks, mute, txRun, late>>

TxMuted ==
  /\ txpc = "muted" /\ txRun /\ mute /\ async # <<>>
  /\ async' = Tail(async)
  /\ UNCHANGED <<devVars, fifo, gain, wait, hostVars>>

\* Mutant: the gain stays down.
TxUnmuteQuietly ==
  /\ txpc = "muted" /\ ~(txRun /\ mute)
  /\ txpc' = "top"
  /\ UNCHANGED <<devVars, fifo, async, gain, wait, burst, acks, mute, txRun, late>>

TxUnmute ==
  /\ txpc = "muted" /\ ~(txRun /\ mute)
  /\ gain' = [gain EXCEPT ![0] = TRUE]
  /\ txpc' = "top"
  /\ UNCHANGED <<devVars, fifo, async, wait, burst, acks, mute, txRun, late>>

TxStep ==
  \/ TxTop \/ TxSend \/ TxDrain \/ TxDrained \/ TxEob \/ TxEobLost \/ TxAck
  \/ TxBurstEnded \/ TxMute \/ TxMuted \/ TxUnmute

-----------------------------------------------------------------------------
(* main(): SIGUSR2, and ~Tx(). *)
ToggleMute ==
  /\ txRun
  /\ mute' = ~mute
  /\ UNCHANGED <<devVars, fifo, async, gain, wait, txpc, burst, acks, txRun, late>>

TxStop ==
  /\ txRun
  /\ txRun' = FALSE
  /\ UNCHANGED <<devVars, fifo, async, gain, wait, txpc, burst, acks, mute, late>>

Next == DevStep \/ TxStep \/ ToggleMute \/ TxStop

Spec == Init /\ [][Next]_vars

(* The worker is scheduled, and the USRP's clock runs. *)
FairSpec == Spec /\ WF_vars(TxStep) /\ WF_vars(DevStep)

-----------------------------------------------------------------------------
Packets ==
  {Smp(k) : k \in 0 .. Period - 1} \cup {Start(w) : w \in -1 .. Delay + Period - 1}
    \cup {Untimed, Eob}

TypeOK ==
  /\ phase \in 0 .. Period - 1
  /\ fifo \in Seq(Packets) /\ Len(fifo) <= Room
  /\ mode \in {"idle", "on", "drop"}
  /\ air \in [idx : 0 .. Period - 1, at : 0 .. Period - 1]
  /\ async \in Seq({"ack", "error"})
  /\ gain \in [TxChannels -> BOOLEAN]
  /\ txpc \in {"top", "send", "drain", "eob", "ack", "mute", "muted", "off"}
  /\ burst \in 0 .. Period /\ wait \in -1 .. Delay + Period - 1 /\ acks \in 0 .. NumTx
  /\ {mute, txRun, bugAck, late} \subseteq BOOLEAN

(* Coherence (comment at tx.cpp:172): whatever underflows, losses, late    *)
(* starts, mutings and unmutings came before, the sample on the air is the *)
(* one that belongs to the current phase of the device's clock, as long as *)
(* the USRP accepts and acknowledges the end of a burst within 0.1 s.      *)
Coherent == late \/ air.idx = air.at

(* tx.cpp:194: no burst is started while the one before it is in progress, *)
(* which the USRP does not support; under the same condition.              *)
BurstsDoNotOverlap ==
  \/ late
  \/ /\ mode = "on" => Starts = {}
     /\ \A i, j \in Starts : i = j

(* While the worker waits for the mute to be lifted, nothing is on the air *)
(* or about to be; under the same condition.                               *)
SilentWhenMuted == late \/ txpc # "muted" \/ ~InProgress

(* tx.cpp:231 "zero gain to minimize LO leakage while muted": the gain is  *)
(* down on every channel.                                                  *)
GainDownWhenMuted == txpc = "muted" => \A c \in TxChannels : ~gain[c]

(* A muted transmitter goes silent and stays so; a stopped one ends with   *)
(* its gain restored.                                                      *)
MuteSilences == <>[](mute /\ txRun) => <>[](mode # "on")
StopEnds == ~txRun ~> (txpc = "off" /\ \A c \in TxChannels : gain[c])

=============================================================================
