------------------------------ MODULE TxProofs ------------------------------
(***************************************************************************)
(* The signal on the air stays coherent, bursts do not overlap and a muted *)
(* transmitter is silent: for any period, sizes, delay and number of       *)
(* channels, as long as acknowledgements come in time.                     *)
(***************************************************************************)
EXTENDS Tx, TLAPS

-----------------------------------------------------------------------------
(* The inductive invariant *)

(* The packets of the FIFO that come before the end of the burst, which is *)
(* last once it was sent.                                                  *)
Data == IF txpc = "ack" THEN Len(fifo) - 1 ELSE Len(fifo)

IsSample(i) == fifo[i].kind = "sample"

(* A burst that has not begun is behind what the one before left in the    *)
(* FIFO: nothing, or on a B2xx samples to be dropped and the unanswered    *)
(* end of the burst.  It starts with the signal's first sample at a        *)
(* multiple of the period, if not too late.                                *)
PendingAt(s) ==
  /\ fifo[s].kind = "start"
  /\ fifo[s].wait = -1 \/ (phase + fifo[s].wait) % Period = 0
  /\ \A i \in s + 1 .. Data : fifo[i] = Smp((i - s - 1) % Period)
  /\ s > 1 => mode = "drop" /\ bugAck /\ fifo[s - 1] = Eob
  /\ \A i \in 1 .. s - 2 : IsSample(i)
  /\ burst % Period = (Data - s) % Period

Pending == mode # "on" /\ async = <<>> /\ \E s \in 1 .. Data : PendingAt(s)

(* On the air, every sample in the FIFO is the one that belongs to the     *)
(* moment at which its turn comes, and so is the one to be sent next.      *)
OnAir ==
  /\ mode = "on" /\ async = <<>>
  /\ \A i \in 1 .. Data : fifo[i] = Smp((phase + i - 1) % Period)
  /\ burst % Period = (phase + Data) % Period

(* After an error, samples only, none of which is transmitted. *)
Dropping == mode = "drop" /\ \A i \in 1 .. Data : IsSample(i)

(* The end of the burst was sent and is in the FIFO. *)
EndIsLast == txpc = "ack" => fifo # <<>> /\ fifo[Len(fifo)] = Eob

(* The worker takes the burst to go on, or to have been ended in time. *)
Going ==
  /\ txpc \in {"top", "send", "drain", "eob", "ack", "off"} /\ burst # 0
  /\ EndIsLast
  /\ txpc = "ack" => acks = 0
  /\ \/ Pending
     \/ OnAir
     \/ Dropping /\ (async = <<"error">> \/ (txpc = "ack" /\ async = <<>>))

(* The worker has learned of the error. *)
Failed ==
  /\ txpc \in {"drain", "eob", "ack"} /\ burst = 0
  /\ EndIsLast
  /\ txpc = "ack" => acks = IF bugAck THEN NumTx ELSE 0
  /\ Dropping /\ async = <<>>

(* The burst is over, and every acknowledgement counted or on its way,     *)
(* perhaps behind an error, or there is none.                              *)
Ended ==
  /\ txpc = "ack" /\ fifo = <<>> /\ mode = "idle"
  /\ \A i \in 2 .. Len(async) : async[i] = "ack"
  /\ IF async # <<>> /\ async[1] = "error"
       THEN acks = 0 /\ Len(async) - 1 \in {0, NumTx}
       ELSE acks + Len(async) \in {0, NumTx}

(* No burst, but for what the end of the last left in the FIFO of a B2xx.  *)
Quiet ==
  /\ txpc \in {"top", "send", "mute", "muted", "off"} /\ burst = 0
  /\ mode # "on" /\ async = <<>>
  /\ fifo # <<>> =>
       /\ mode = "drop" /\ bugAck
       /\ fifo[Len(fifo)] = Eob
       /\ \A i \in 1 .. Len(fifo) - 1 : IsSample(i)

(* The start that is about to be sent is aligned, if not missed. *)
StartAligned == txpc = "send" /\ burst = 0 => wait = -1 \/ (phase + wait) % Period = 0

InTime == air.idx = air.at /\ StartAligned /\ (Going \/ Failed \/ Ended \/ Quiet)

IInv == TypeOK /\ (late \/ InTime)

-----------------------------------------------------------------------------
(* Arithmetic modulo the period *)

LEMMA Constants ==
  /\ Period \in Nat /\ Period >= 1 /\ Chunk \in Nat /\ Chunk >= 1
  /\ Room \in Nat /\ Room > Chunk /\ Delay \in Nat /\ NumTx \in Nat /\ NumTx >= 1
BY PeriodAssumption, ChunkAssumption, DelayAssumption, NumTxAssumption

LEMMA Moment == ASSUME NEW a \in Int PROVE a % Period \in 0 .. Period - 1
BY Constants

LEMMA Within == ASSUME NEW a \in 0 .. Period - 1 PROVE a % Period = a
BY Constants

(* A number is determined by its remainder, once its quotient is fixed. *)
LEMMA Remainder ==
  ASSUME NEW r \in Int, NEW q \in Int, 0 <= r, r < Period
  PROVE  (r + Period * q) % Period = r
BY Constants

(* A remainder may be taken before a sum, or after it, or both. *)
LEMMA Absorb ==
  ASSUME NEW a \in Int, NEW b \in Int
  PROVE  ((a % Period) + b) % Period = (a + b) % Period
<1> DEFINE q == a \div Period
           r == ((a % Period) + b) % Period
           d == ((a % Period) + b) \div Period
<1>1. q \in Int /\ a = Period * q + (a % Period) /\ a % Period \in Int
  BY Constants
<1>2. r \in Int /\ d \in Int /\ 0 <= r /\ r < Period /\ (a % Period) + b = Period * d + r
  BY <1>1, Constants
<1>3. Period * q \in Int /\ Period * d \in Int /\ Period * (q + d) = Period * q + Period * d
  BY <1>1, <1>2, Constants
<1> HIDE DEF q, r, d
<1>4. a + b = r + Period * (q + d) /\ q + d \in Int
  <2> DEFINE u == Period * q
             v == Period * d
             m == a % Period
  <2>1. /\ u \in Int /\ v \in Int /\ m \in Int /\ r \in Int /\ a = u + m /\ m + b = v + r
        /\ Period * (q + d) = u + v
    BY <1>1, <1>2, <1>3
  <2>2. q + d \in Int
    BY <1>1, <1>2
  <2> HIDE DEF u, v, m
  <2>3. a + b = r + (u + v)
    BY <2>1
  <2>. QED  BY <2>1, <2>2, <2>3
<1>5. (r + Period * (q + d)) % Period = r
  BY <1>2, <1>4, Remainder
<1>. QED  BY <1>4, <1>5 DEF r

(* Numbers that are congruent stay so. *)
LEMMA Congruent ==
  ASSUME NEW a \in Int, NEW b \in Int, NEW c \in Int, a % Period = b % Period
  PROVE  (a + c) % Period = (b + c) % Period
<1>1. ((a % Period) + c) % Period = (a + c) % Period
  BY Absorb
<1>2. ((b % Period) + c) % Period = (b + c) % Period
  BY Absorb
<1>. QED  BY <1>1, <1>2

(* align_time() aligns. *)
LEMMA Aligned ==
  ASSUME NEW p \in 0 .. Period - 1
  PROVE  /\ AlignTime(p) \in 0 .. Delay + Period - 1
         /\ (p + AlignTime(p)) % Period = 0
<1> DEFINE x == p + Delay
           m == (-x) % Period
<1>1. x \in Int /\ -x \in Int /\ m \in 0 .. Period - 1
  BY Constants, Moment
<1>2. (m + x) % Period = ((-x) + x) % Period
  BY <1>1, Absorb
<1>3. (-x) + x = 0 /\ 0 % Period = 0 /\ m + x = p + (Delay + m)
  BY <1>1, Constants
<1>4. AlignTime(p) = Delay + m
  BY DEF AlignTime
<1> HIDE DEF x, m
<1>. QED  BY <1>1, <1>2, <1>3, <1>4, Constants

LEMMA AdvancedFacts ==
  ASSUME NEW b \in 0 .. Period, NEW n \in Nat
  PROVE  /\ Advanced(b, n) \in 0 .. Period
         /\ Advanced(b, n) % Period = (b + n) % Period
         /\ Advanced(b, n) = 0 <=> b = 0 /\ n = 0
<1>1. CASE b + n = 0
  BY <1>1, Constants DEF Advanced
<1>2. CASE b + n # 0
  <2> DEFINE r == (b + n - 1) % Period
  <2>1. b + n - 1 \in Int /\ r \in 0 .. Period - 1
    BY Constants, Moment
  <2>2. (r + 1) % Period = (b + n - 1 + 1) % Period
    BY <2>1, Absorb
  <2>3. Advanced(b, n) = 1 + r
    BY <1>2 DEF Advanced
  <2> HIDE DEF r
  <2>. QED  BY <2>1, <2>2, <2>3, <1>2, Constants
<1>. QED  BY <1>1, <1>2

-----------------------------------------------------------------------------
(* Packets *)

LEMMA Kinds ==
  /\ \A k : Smp(k).kind = "sample" /\ Smp(k).idx = k
  /\ \A w : Start(w).kind = "start" /\ Start(w).wait = w
  /\ Untimed.kind = "untimed" /\ Eob.kind = "eob"
BY DEF Smp, Start, Untimed, Eob

LEMMA PacketTypes ==
  /\ \A k \in 0 .. Period - 1 : Smp(k) \in Packets
  /\ \A w \in -1 .. Delay + Period - 1 : Start(w) \in Packets
  /\ Untimed \in Packets /\ Eob \in Packets
BY DEF Packets

LEMMA PacketShapes ==
  ASSUME NEW p \in Packets
  PROVE  /\ p.kind = "sample" => \E k \in 0 .. Period - 1 : p = Smp(k)
         /\ p.kind = "start" => p = Start(p.wait) /\ p.wait \in -1 .. Delay + Period - 1
         /\ p.kind = "untimed" => p = Untimed
         /\ p.kind = "eob" => p = Eob
         /\ p.kind \in {"sample", "start", "untimed", "eob"}
BY Kinds DEF Packets

LEMMA CloserType ==
  ASSUME NEW w \in -1 .. Delay + Period - 1
  PROVE  Closer(w) \in -1 .. Delay + Period - 1
BY Constants DEF Closer

(* As time goes by, only the starts of bursts change. *)
LEMMA LaterFacts ==
  ASSUME NEW f \in Seq(Packets)
  PROVE  /\ Later(f) \in Seq(Packets) /\ Len(Later(f)) = Len(f)
         /\ \A i \in 1 .. Len(f) :
              Later(f)[i] = IF f[i].kind = "start" THEN Start(Closer(f[i].wait)) ELSE f[i]
<1>1. DOMAIN f = 1 .. Len(f) /\ \A i \in 1 .. Len(f) : f[i] \in Packets
  OBVIOUS
<1>2. ASSUME NEW i \in 1 .. Len(f)
      PROVE  (IF f[i].kind = "start" THEN Start(Closer(f[i].wait)) ELSE f[i]) \in Packets
  BY <1>1, PacketShapes, PacketTypes, CloserType
<1>3. Later(f) = [i \in 1 .. Len(f) |->
                    IF f[i].kind = "start" THEN Start(Closer(f[i].wait)) ELSE f[i]]
  BY <1>1 DEF Later
<1>. QED  BY <1>2, <1>3

-----------------------------------------------------------------------------
(* Type correctness *)

LEMMA Types ==
  ASSUME TypeOK
  PROVE  /\ phase \in 0 .. Period - 1 /\ fifo \in Seq(Packets) /\ Len(fifo) <= Room
         /\ mode \in {"idle", "on", "drop"}
         /\ air \in [idx : 0 .. Period - 1, at : 0 .. Period - 1]
         /\ async \in Seq({"ack", "error"})
         /\ burst \in 0 .. Period /\ wait \in -1 .. Delay + Period - 1 /\ acks \in 0 .. NumTx
         /\ mute \in BOOLEAN /\ txRun \in BOOLEAN /\ bugAck \in BOOLEAN /\ late \in BOOLEAN
         /\ Len(fifo) \in Nat /\ \A i \in 1 .. Len(fifo) : fifo[i] \in Packets
BY DEF TypeOK

LEMMA TypeInit == Init => TypeOK
<1> SUFFICES ASSUME Init PROVE TypeOK
  OBVIOUS
<1>1. {mute, txRun, bugAck, late} \subseteq BOOLEAN
  BY Zenon DEF Init
<1>2. /\ 0 \in 0 .. Period - 1 /\ 0 \in 0 .. Period
      /\ -1 \in -1 .. Delay + Period - 1 /\ 0 \in 0 .. NumTx /\ 0 <= Room
  BY Constants
<1>3. gain \in [TxChannels -> BOOLEAN]
  BY DEF Init
<1>. QED  BY <1>1, <1>2, <1>3 DEF Init, TypeOK

(* The passing of time *)
LEMMA ElapseType ==
  ASSUME TypeOK, NEW f \in Seq(Packets), Len(f) <= Room, Elapse(f)
  PROVE  /\ phase' \in 0 .. Period - 1 /\ wait' \in -1 .. Delay + Period - 1
         /\ fifo' \in Seq(Packets) /\ Len(fifo') <= Room
<1>1. phase + 1 \in Int /\ wait \in -1 .. Delay + Period - 1
  BY Types, Constants
<1>2. phase' \in 0 .. Period - 1
  BY <1>1, Moment DEF Elapse
<1>3. wait' \in -1 .. Delay + Period - 1
  BY <1>1, CloserType DEF Elapse
<1>. QED  BY <1>2, <1>3, LaterFacts DEF Elapse

LEMMA TailType ==
  ASSUME TypeOK, fifo # <<>>
  PROVE  /\ Tail(fifo) \in Seq(Packets) /\ Len(Tail(fifo)) = Len(fifo) - 1
         /\ Len(Tail(fifo)) <= Room /\ Len(fifo) >= 1
         /\ Head(fifo) = fifo[1] /\ Head(fifo) \in Packets
         /\ \A i \in 1 .. Len(fifo) - 1 : Tail(fifo)[i] = fifo[i + 1]
<1>1. fifo \in Seq(Packets) /\ Len(fifo) \in Nat /\ Len(fifo) <= Room /\ Room \in Nat
  BY Types, Constants
<1>2. Len(fifo) >= 1
  BY <1>1
<1>3. Tail(fifo) \in Seq(Packets) /\ Len(Tail(fifo)) = Len(fifo) - 1
  BY <1>1, <1>2
<1>4. Head(fifo) = fifo[1] /\ Head(fifo) \in Packets
  BY <1>1, <1>2
<1>5. \A i \in 1 .. Len(fifo) - 1 : Tail(fifo)[i] = fifo[i + 1]
  BY <1>1, <1>2
<1>. QED  BY <1>1, <1>2, <1>3, <1>4, <1>5

LEMMA AcksType == Acks \in Seq({"ack", "error"}) /\ Len(Acks) = NumTx /\ \A i \in 1 .. NumTx : Acks[i] = "ack"
BY Constants DEF Acks

LEMMA DevStepType == ASSUME TypeOK, DevStep PROVE TypeOK'
<1>0. /\ UNCHANGED <<gain, txpc, burst, acks, mute, txRun, late, bugAck>>
      /\ gain' \in [TxChannels -> BOOLEAN]
      /\ txpc' \in {"top", "send", "drain", "eob", "ack", "mute", "muted", "off"}
      /\ burst' \in 0 .. Period /\ acks' \in 0 .. NumTx
  BY DEF TypeOK, DevStep, DevIdle, DevStart, DevTransmit, DevStartUntimed, DevError,
         DevDrop, DevEob, hostVars, devVars
<1>1. {mute, txRun, bugAck, late}' \subseteq BOOLEAN
  BY <1>0, Zenon DEF TypeOK
<1> SUFFICES /\ phase' \in 0 .. Period - 1 /\ wait' \in -1 .. Delay + Period - 1
             /\ fifo' \in Seq(Packets) /\ Len(fifo') <= Room
             /\ mode' \in {"idle", "on", "drop"}
             /\ air' \in [idx : 0 .. Period - 1, at : 0 .. Period - 1]
             /\ async' \in Seq({"ack", "error"})
  BY <1>0, <1>1 DEF TypeOK
<1>2. CASE DevIdle
  BY <1>2, ElapseType, Types DEF DevIdle, TypeOK
<1>3. CASE DevStart
  <2>1. /\ fifo # <<>> /\ fifo' = Tail(fifo)
        /\ UNCHANGED <<phase, air, wait>>
        /\ \/ mode' = "on" /\ async' = async
           \/ mode' = "drop" /\ async' = Append(async, "error")
    BY <1>3, Zenon DEF DevStart, Notify, FirstIs
  <2>2. fifo' \in Seq(Packets) /\ Len(fifo') <= Room
    BY <2>1, TailType
  <2>3. async \in Seq({"ack", "error"}) /\ Append(async, "error") \in Seq({"ack", "error"})
    BY Types
  <2>5. mode' \in {"idle", "on", "drop"} /\ async' \in Seq({"ack", "error"})
    BY <2>1, <2>3, Zenon
  <2>4. UNCHANGED phase /\ UNCHANGED air /\ UNCHANGED wait
    BY <2>1
  <2>. QED  BY <2>2, <2>4, <2>5, Types
<1>4. CASE DevTransmit
  <2>1. Head(fifo).idx \in 0 .. Period - 1
    BY <1>4, TailType, PacketShapes, Kinds DEF DevTransmit, FirstIs
  <2>2. air' \in [idx : 0 .. Period - 1, at : 0 .. Period - 1]
    BY <1>4, <2>1, Types DEF DevTransmit
  <2>. QED  BY <1>4, <2>2, ElapseType, TailType, Types DEF DevTransmit, TypeOK, FirstIs
<1>5. CASE DevStartUntimed
  BY <1>5, TailType, Types DEF DevStartUntimed, TypeOK, FirstIs
<1>6. CASE DevError
  BY <1>6, TailType, Types DEF DevError, TypeOK, Notify, FirstIs, Empty
<1>7. CASE DevDrop
  BY <1>7, TailType, Types DEF DevDrop, TypeOK, FirstIs, devVars
<1>8. CASE DevEob
  BY <1>8, TailType, Types, AcksType DEF DevEob, TypeOK, FirstIs
<1>. QED  BY <1>2, <1>3, <1>4, <1>5, <1>6, <1>7, <1>8 DEF DevStep

(* What is sent: a sequence of samples, and the start of a burst before it. *)
LEMMA SentFacts ==
  ASSUME TypeOK, NEW n \in 0 .. Chunk, NEW first \in Packets,
         NEW data, data = [k \in 1 .. n |-> BurstSample(k)]
  PROVE  /\ data \in Seq(Packets) /\ Len(data) = n
         /\ \A k \in 1 .. n : data[k] = BurstSample(k)
         /\ <<first>> \o data \in Seq(Packets) /\ Len(<<first>> \o data) = n + 1
         /\ (<<first>> \o data)[1] = first
         /\ \A k \in 1 .. n : (<<first>> \o data)[k + 1] = BurstSample(k)
<1>1. n \in Nat /\ n <= Chunk
  BY Constants
<1>2. ASSUME NEW k \in 1 .. n PROVE BurstSample(k) \in Packets
  <2>1. burst + k - 1 \in Int
    BY Types, Constants
  <2>. QED  BY <2>1, Moment, PacketTypes DEF BurstSample
<1>3. data \in Seq(Packets) /\ Len(data) = n /\ \A k \in 1 .. n : data[k] = BurstSample(k)
  BY <1>1, <1>2
<1>. QED  BY <1>1, <1>3

LEMMA Joined ==
  ASSUME NEW f \in Seq(Packets), NEW g \in Seq(Packets)
  PROVE  /\ f \o g \in Seq(Packets) /\ Len(f \o g) = Len(f) + Len(g)
         /\ Len(f) \in Nat /\ Len(g) \in Nat
         /\ \A i \in 1 .. Len(f) : (f \o g)[i] = f[i]
         /\ \A j \in 1 .. Len(g) : (f \o g)[Len(f) + j] = g[j]
OBVIOUS

(* What send() adds to the FIFO. *)
LEMMA Sent ==
  ASSUME TypeOK, TxSend
  PROVE  \E n \in 0 .. Chunk, first \in StartsOfBurst, m \in {0, 1} :
           /\ m = 1 <=> burst = 0 /\ n > 0
           /\ fifo' \in Seq(Packets) /\ Len(fifo') = Len(fifo) + m + n /\ Len(fifo') <= Room
           /\ \A i \in 1 .. Len(fifo) : fifo'[i] = fifo[i]
           /\ m = 1 => fifo'[Len(fifo) + 1] = first
           /\ \A k \in 1 .. n : fifo'[Len(fifo) + m + k] = BurstSample(k)
           /\ burst' = Advanced(burst, n)
           /\ n = Chunk \/ InProgress
<1>1. PICK n \in 0 .. Chunk, first \in StartsOfBurst :
        LET data == [k \in 1 .. n |-> BurstSample(k)]
            packets == IF burst = 0 /\ n > 0 THEN <<first>> \o data ELSE data
        IN  /\ Len(fifo) + Len(packets) <= Room
            /\ n = Chunk \/ (InProgress /\ Len(fifo) + Chunk + 1 > Room)
            /\ fifo' = fifo \o packets
            /\ burst' = Advanced(burst, n)
  BY DEF TxSend
<1> DEFINE data == [k \in 1 .. n |-> BurstSample(k)]
           m == IF burst = 0 /\ n > 0 THEN 1 ELSE 0
           packets == IF burst = 0 /\ n > 0 THEN <<first>> \o data ELSE data
<1>2. first \in Packets /\ n \in Nat
  BY Types, PacketTypes, Constants DEF StartsOfBurst
<1>3. /\ data \in Seq(Packets) /\ Len(data) = n
      /\ \A k \in 1 .. n : data[k] = BurstSample(k)
      /\ <<first>> \o data \in Seq(Packets) /\ Len(<<first>> \o data) = n + 1
      /\ (<<first>> \o data)[1] = first
      /\ \A k \in 1 .. n : (<<first>> \o data)[k + 1] = BurstSample(k)
  <2>1. data = [k \in 1 .. n |-> BurstSample(k)]
    OBVIOUS
  <2> HIDE DEF data
  <2>. QED  BY <1>2, <2>1, SentFacts
<1>4. /\ Len(fifo) + Len(packets) <= Room /\ fifo' = fifo \o packets
      /\ burst' = Advanced(burst, n) /\ (n = Chunk \/ InProgress)
  BY <1>1
<1>5. m \in {0, 1} /\ (m = 1 <=> burst = 0 /\ n > 0)
  OBVIOUS
<1>6. packets = IF m = 1 THEN <<first>> \o data ELSE data
  OBVIOUS
<1> HIDE DEF data, packets, m
<1>7. /\ packets \in Seq(Packets) /\ Len(packets) = m + n /\ (m = 1 => packets[1] = first)
      /\ \A k \in 1 .. n : packets[m + k] = BurstSample(k)
  <2>1. CASE m = 1
    BY <2>1, <1>2, <1>3, <1>6
  <2>2. CASE m = 0
    BY <2>2, <1>2, <1>3, <1>6
  <2>. QED  BY <2>1, <2>2, <1>5
<1>8. /\ fifo' \in Seq(Packets) /\ Len(fifo') = Len(fifo) + (m + n) /\ Len(fifo') <= Room
      /\ \A i \in 1 .. Len(fifo) : fifo'[i] = fifo[i]
      /\ \A j \in 1 .. m + n : fifo'[Len(fifo) + j] = packets[j]
  <2>1. m + n \in Nat /\ fifo \in Seq(Packets)
    BY <1>2, <1>5, Types
  <2>. QED  BY <2>1, <1>4, <1>7, Joined
<1>9. m = 1 => fifo'[Len(fifo) + 1] = first
  BY <1>2, <1>7, <1>8
<1>10. ASSUME NEW k \in 1 .. n PROVE fifo'[Len(fifo) + m + k] = BurstSample(k)
  <2>1. m + k \in 1 .. m + n /\ Len(fifo) + (m + k) = Len(fifo) + m + k
    BY <1>2, <1>5, Types
  <2>2. fifo'[Len(fifo) + (m + k)] = packets[m + k] /\ packets[m + k] = BurstSample(k)
    BY <2>1, <1>7, <1>8
  <2>. QED  BY <2>1, <2>2
<1>11. Len(fifo') = Len(fifo) + m + n
  BY <1>2, <1>5, <1>8, Types
<1>. QED  BY <1>4, <1>5, <1>8, <1>9, <1>10, <1>11

LEMMA AsyncTail ==
  ASSUME TypeOK, async # <<>>
  PROVE  /\ Tail(async) \in Seq({"ack", "error"}) /\ Len(Tail(async)) = Len(async) - 1
         /\ Len(async) \in Nat /\ Len(async) >= 1
         /\ Head(async) = async[1] /\ Head(async) \in {"ack", "error"}
         /\ \A i \in 1 .. Len(async) - 1 : Tail(async)[i] = async[i + 1]
<1>1. async \in Seq({"ack", "error"}) /\ Len(async) \in Nat
  BY Types
<1>2. Len(async) >= 1
  BY <1>1
<1>. QED  BY <1>1, <1>2

LEMMA TxStepType == ASSUME TypeOK, TxStep PROVE TypeOK'
<1>0. /\ UNCHANGED <<phase, mode, air, bugAck, mute, txRun>>
      /\ mode' \in {"idle", "on", "drop"} /\ phase' \in 0 .. Period - 1
      /\ air' \in [idx : 0 .. Period - 1, at : 0 .. Period - 1]
      /\ txpc' \in {"top", "send", "drain", "eob", "ack", "mute", "muted", "off"}
  BY DEF TypeOK, TxStep, TxTop, TxSend, TxDrain, TxDrained, TxEob, TxEobLost, TxAck,
         TxBurstEnded, TxMute, TxMuted, TxUnmute, hostVars, devVars
<1>1. late' \in BOOLEAN
  BY Types, Zenon DEF TxStep, TxTop, TxSend, TxDrain, TxDrained, TxEob, TxEobLost, TxAck,
         TxBurstEnded, TxMute, TxMuted, TxUnmute, hostVars
<1>2. {mute, txRun, bugAck, late}' \subseteq BOOLEAN
  BY <1>0, <1>1, Types, Zenon
<1>3. gain' \in [TxChannels -> BOOLEAN]
  <2>1. gain \in [TxChannels -> BOOLEAN]
    BY DEF TypeOK
  <2>2. gain' = gain \/ \E b \in BOOLEAN : gain' = [gain EXCEPT ![0] = b]
    BY Zenon DEF TxStep, TxTop, TxSend, TxDrain, TxDrained, TxEob, TxEobLost, TxAck,
         TxBurstEnded, TxMute, TxMuted, TxUnmute
  <2>. QED  BY <2>1, <2>2
<1> SUFFICES /\ fifo' \in Seq(Packets) /\ Len(fifo') <= Room
             /\ async' \in Seq({"ack", "error"}) /\ burst' \in 0 .. Period
             /\ wait' \in -1 .. Delay + Period - 1 /\ acks' \in 0 .. NumTx
  BY <1>0, <1>2, <1>3 DEF TypeOK
<1>4. CASE TxTop
  <2>1. UNCHANGED fifo /\ UNCHANGED async /\ UNCHANGED burst /\ UNCHANGED acks
        /\ wait' \in {AlignTime(phase), wait}
    BY <1>4, Zenon DEF TxTop
  <2>2. AlignTime(phase) \in -1 .. Delay + Period - 1
    <3>1. phase \in 0 .. Period - 1
      BY Types
    <3>2. AlignTime(phase) \in 0 .. Delay + Period - 1
      BY <3>1, Aligned
    <3>. QED  BY <3>2, Constants
  <2>. QED  BY <2>1, <2>2, Types
<1>5. CASE TxSend
  <2>1. PICK n \in 0 .. Chunk :
          fifo' \in Seq(Packets) /\ Len(fifo') <= Room /\ burst' = Advanced(burst, n)
    BY <1>5, Sent
  <2>2. n \in Nat /\ burst \in 0 .. Period
    BY Types, Constants
  <2>3. burst' \in 0 .. Period
    BY <2>1, <2>2, AdvancedFacts
  <2>4. -1 \in -1 .. Delay + Period - 1
    BY Constants
  <2>5. wait' = -1 /\ UNCHANGED async /\ UNCHANGED acks
    BY <1>5 DEF TxSend
  <2>. QED  BY <2>1, <2>3, <2>4, <2>5, Types
<1>6. CASE TxDrain \/ TxDrained
  <2>1. 0 \in 0 .. Period
    BY Constants
  <2>2. UNCHANGED fifo /\ UNCHANGED wait /\ UNCHANGED acks
    BY <1>6, Zenon DEF TxDrain, TxDrained
  <2>3. (async' = async \/ (async # <<>> /\ async' = Tail(async))) /\ burst' \in {0, burst}
    BY <1>6, Zenon DEF TxDrain, TxDrained
  <2>. QED  BY <2>1, <2>2, <2>3, AsyncTail, Types
<1>7. CASE TxEob
  <2>1. Append(fifo, Eob) \in Seq(Packets) /\ Len(Append(fifo, Eob)) = Len(fifo) + 1
    BY Types, PacketTypes
  <2>2. Len(fifo) + 1 <= Room
    BY <1>7, Types, Constants DEF TxEob
  <2>. QED  BY <1>7, <2>1, <2>2, Types, Constants DEF TxEob
<1>8. CASE TxAck
  <2>1. acks < NumTx /\ acks' \in {acks, acks + 1} /\ async # <<>> /\ async' = Tail(async)
        /\ UNCHANGED fifo /\ UNCHANGED wait /\ UNCHANGED burst
    BY <1>8, Zenon DEF TxAck
  <2>2. acks' \in 0 .. NumTx
    BY <2>1, Types, Constants
  <2>. QED  BY <2>1, <2>2, AsyncTail, Types
<1>9. CASE TxBurstEnded
  <2>1. burst' = 0 /\ acks' = 0 /\ UNCHANGED fifo /\ UNCHANGED wait /\ UNCHANGED async
    BY <1>9, Zenon DEF TxBurstEnded
  <2>. QED  BY <2>1, Types, Constants
<1>10. CASE TxMute \/ TxMuted \/ TxUnmute
  <2>1. UNCHANGED fifo /\ UNCHANGED wait /\ UNCHANGED acks /\ UNCHANGED burst
    BY <1>10, Zenon DEF TxMute, TxMuted, TxUnmute, hostVars
  <2>2. async' = async \/ (async # <<>> /\ async' = Tail(async))
    BY <1>10, Zenon DEF TxMute, TxMuted, TxUnmute, hostVars
  <2>. QED  BY <2>1, <2>2, AsyncTail, Types
<1>11. CASE TxEobLost
  BY <1>11, Types, Constants DEF TxEobLost
<1>. QED  BY <1>4, <1>5, <1>6, <1>7, <1>8, <1>9, <1>10, <1>11 DEF TxStep

LEMMA TypeStep == ASSUME TypeOK, [Next]_vars PROVE TypeOK'
<1>1. CASE DevStep
  BY <1>1, DevStepType
<1>2. CASE TxStep
  BY <1>2, TxStepType
<1>3. CASE ToggleMute \/ TxStop \/ UNCHANGED vars
  <2>1. /\ UNCHANGED <<phase, fifo, mode, air, async, gain, txpc, burst, wait, acks>>
        /\ UNCHANGED bugAck /\ UNCHANGED late
    BY <1>3 DEF ToggleMute, TxStop, vars, devVars, hostVars
  <2>2. mute' \in BOOLEAN /\ txRun' \in BOOLEAN
    BY <1>3, Types, Zenon DEF ToggleMute, TxStop, vars, hostVars
  <2>3. {mute, txRun, bugAck, late}' \subseteq BOOLEAN
    BY <2>1, <2>2, Types, Zenon
  <2>. QED  BY <2>1, <2>3 DEF TypeOK
<1>. QED  BY <1>1, <1>2, <1>3 DEF Next

-----------------------------------------------------------------------------
(* The steps of the USRP *)

(* As time goes by, what is aligned stays so, or is missed. *)
LEMMA StaysAligned ==
  ASSUME NEW p \in 0 .. Period - 1, NEW w \in -1 .. Delay + Period - 1,
         w = -1 \/ (p + w) % Period = 0
  PROVE  Closer(w) = -1 \/ (((p + 1) % Period) + Closer(w)) % Period = 0
<1>1. CASE w <= 0
  BY <1>1, Constants DEF Closer
<1>2. CASE w > 0
  <2>1. w \in Int /\ p \in Int /\ w # -1 /\ Closer(w) = w - 1 /\ p + 1 \in Int /\ w - 1 \in Int
    BY <1>2, Constants DEF Closer
  <2>2. (((p + 1) % Period) + (w - 1)) % Period = (p + 1 + (w - 1)) % Period
    BY <2>1, Absorb
  <2>3. p + 1 + (w - 1) = p + w
    BY <2>1
  <2>. QED  BY <2>1, <2>2, <2>3
<1>. QED  BY <1>1, <1>2, Constants

LEMMA StartKept ==
  ASSUME TypeOK, StartAligned, NEW f, Elapse(f), UNCHANGED txpc, UNCHANGED burst
  PROVE  StartAligned'
<1> SUFFICES ASSUME txpc = "send", burst = 0
             PROVE  wait' = -1 \/ (phase' + wait') % Period = 0
  BY DEF StartAligned
<1>1. phase \in 0 .. Period - 1 /\ wait \in -1 .. Delay + Period - 1
  BY Types
<1>2. wait = -1 \/ (phase + wait) % Period = 0
  BY DEF StartAligned
<1>3. phase' = (phase + 1) % Period /\ wait' = Closer(wait)
  BY DEF Elapse
<1>. QED  BY <1>1, <1>2, <1>3, StaysAligned

LEMMA DataFacts ==
  ASSUME TypeOK
  PROVE  /\ Data \in Int /\ Data <= Len(fifo) /\ Len(fifo) \in Nat
         /\ Len(fifo) <= Data + 1
         /\ txpc = "ack" => Data = Len(fifo) - 1
         /\ txpc # "ack" => Data = Len(fifo)
BY Types DEF Data

(* A burst yet to begin is first in the FIFO once what is before it is gone. *)
LEMMA PendingFirst ==
  ASSUME TypeOK, NEW s \in 1 .. Data, PendingAt(s)
  PROVE  /\ s \in Nat /\ s >= 1 /\ s <= Len(fifo) /\ fifo # <<>>
         /\ fifo[s] = Start(fifo[s].wait) /\ fifo[s].wait \in -1 .. Delay + Period - 1
         /\ FirstIs("start") => s = 1
         /\ FirstIs("eob") => s = 2
         /\ FirstIs("sample") => s > 2
         /\ ~FirstIs("untimed")
<1>1. s \in Nat /\ s >= 1 /\ s <= Len(fifo) /\ Len(fifo) \in Nat
  BY DataFacts
<1>2. fifo # <<>>
  BY <1>1, Types
<1>3. fifo[s] = Start(fifo[s].wait) /\ fifo[s].wait \in -1 .. Delay + Period - 1
  BY <1>1, Types, PacketShapes DEF PendingAt
<1>4. Head(fifo) = fifo[1]
  BY <1>2, TailType
<1>5. s > 2 => fifo[1].kind = "sample"
  BY <1>1 DEF PendingAt, IsSample
<1>6. s = 2 => fifo[1].kind = "eob"
  BY Kinds DEF PendingAt
<1>7. s = 1 => fifo[1].kind = "start"
  BY DEF PendingAt
<1>. QED  BY <1>1, <1>2, <1>3, <1>4, <1>5, <1>6, <1>7 DEF FirstIs

(* The first packet after an error. *)
LEMMA DroppingFirst ==
  ASSUME TypeOK, Dropping, EndIsLast, fifo # <<>>
  PROVE  /\ FirstIs("sample") \/ FirstIs("eob")
         /\ Data > 0 <=> FirstIs("sample")
         /\ FirstIs("eob") => txpc = "ack" /\ Len(fifo) = 1
<1>1. Head(fifo) = fifo[1] /\ Len(fifo) >= 1 /\ Len(fifo) \in Nat
  BY TailType, Types
<1>2. Data > 0 => fifo[1].kind = "sample"
  BY DataFacts DEF Dropping, IsSample
<1>3. Data <= 0 => txpc = "ack" /\ Len(fifo) = 1 /\ fifo[1].kind = "eob"
  <2>1. ASSUME Data <= 0 PROVE txpc = "ack" /\ Len(fifo) = 1
    <3>1. Data \in Int /\ Data <= 0 /\ Len(fifo) >= 1 /\ Len(fifo) \in Nat /\ Len(fifo) <= Data + 1
      BY <1>1, <2>1, DataFacts
    <3>2. txpc # "ack" => Data = Len(fifo)
      BY DataFacts
    <3>. QED  BY <3>1, <3>2
  <2>2. txpc = "ack" => fifo[Len(fifo)] = Eob
    BY DEF EndIsLast
  <2>3. Eob.kind = "eob"
    BY Kinds
  <2>. QED  BY <2>1, <2>2, <2>3
<1>4. Data \in Int
  BY DataFacts
<1>. QED  BY <1>1, <1>2, <1>3, <1>4 DEF FirstIs

LEMMA QuietFirst ==
  ASSUME TypeOK, Quiet, fifo # <<>>
  PROVE  /\ FirstIs("sample") \/ FirstIs("eob")
         /\ Len(fifo) > 1 <=> FirstIs("sample")
<1>1. Head(fifo) = fifo[1] /\ Len(fifo) >= 1 /\ Len(fifo) \in Nat
  BY TailType, Types
<1>2. Len(fifo) > 1 => fifo[1].kind = "sample"
  BY <1>1 DEF Quiet, IsSample
<1>3. Len(fifo) <= 1 => fifo[1].kind = "eob"
  BY <1>1, Kinds DEF Quiet
<1>. QED  BY <1>1, <1>2, <1>3 DEF FirstIs

LEMMA DevIdleStep == ASSUME TypeOK, InTime, DevIdle PROVE InTime'
<1>0. /\ mode # "on" /\ (fifo = <<>> \/ FirstIs("start"))
      /\ FirstIs("start") => Head(fifo).wait > 0
      /\ fifo' = Later(fifo) /\ phase' = (phase + 1) % Period
      /\ UNCHANGED mode /\ UNCHANGED air /\ UNCHANGED bugAck /\ UNCHANGED async
      /\ UNCHANGED txpc /\ UNCHANGED burst /\ UNCHANGED acks
  BY Zenon DEF DevIdle, Empty, FirstIs, Elapse, hostVars
<1>1. air'.idx = air'.at
  BY <1>0 DEF InTime
<1>2. StartAligned'
  BY <1>0, StartKept DEF InTime, DevIdle
<1>3. /\ Len(fifo') = Len(fifo) /\ Len(fifo) \in Nat /\ fifo' \in Seq(Packets)
      /\ \A i \in 1 .. Len(fifo) :
           fifo'[i] = IF fifo[i].kind = "start" THEN Start(Closer(fifo[i].wait)) ELSE fifo[i]
  BY <1>0, Types, LaterFacts
<1>4. Data' = Data
  BY <1>0, <1>3 DEF Data
<1>5. EndIsLast => EndIsLast'
  <2> SUFFICES ASSUME EndIsLast, txpc = "ack" PROVE fifo' # <<>> /\ fifo'[Len(fifo')] = Eob
    BY <1>0 DEF EndIsLast
  <2>1. fifo # <<>> /\ fifo[Len(fifo)] = Eob
    BY DEF EndIsLast
  <2>2. Len(fifo) >= 1
    BY <2>1, TailType
  <2>. QED  BY <2>1, <2>2, <1>3, Kinds
<1>6. Pending => Pending'
  <2> SUFFICES ASSUME Pending PROVE Pending'
    OBVIOUS
  <2>1. PICK s \in 1 .. Data : PendingAt(s)
    BY DEF Pending
  <2>2. s = 1 /\ 1 \in 1 .. Data /\ fifo[1].wait \in -1 .. Delay + Period - 1
        /\ fifo[1].kind = "start" /\ Len(fifo) >= 1
    BY <2>1, <1>0, PendingFirst DEF PendingAt
  <2>3. PendingAt(1)'
    <3>1. fifo'[1] = Start(Closer(fifo[1].wait))
      BY <1>3, <2>2
    <3>2. fifo'[1].wait = -1 \/ (phase' + fifo'[1].wait) % Period = 0
      <4>1. phase \in 0 .. Period - 1 /\ (fifo[1].wait = -1 \/ (phase + fifo[1].wait) % Period = 0)
        BY <2>1, <2>2, Types DEF PendingAt
      <4>. QED  BY <4>1, <3>1, <2>2, <1>0, StaysAligned, Kinds
    <3>3. \A i \in 1 + 1 .. Data' : fifo'[i] = Smp((i - 1 - 1) % Period)
      <4>1. \A i \in 1 + 1 .. Data : fifo[i] = Smp((i - 1 - 1) % Period)
        BY <2>1, <2>2 DEF PendingAt
      <4>2. \A i \in 1 + 1 .. Data : i \in 1 .. Len(fifo)
        BY DataFacts
      <4>. QED  BY <4>1, <4>2, <1>3, <1>4, Kinds
    <3>4. (burst % Period = (Data - 1) % Period)'
      BY <2>1, <2>2, <1>0, <1>4 DEF PendingAt
    <3>. QED  BY <3>1, <3>2, <3>3, <3>4, Kinds DEF PendingAt
  <2>. QED  BY <2>2, <2>3, <1>0, <1>4 DEF Pending
<1>7. Dropping /\ EndIsLast => fifo = <<>>
  BY <1>0, DroppingFirst DEF FirstIs
<1>8. fifo = <<>> => fifo' = <<>>
  BY <1>3
<1> SUFFICES Going' \/ Failed' \/ Ended' \/ Quiet'
  BY <1>1, <1>2 DEF InTime
<1>9. CASE Going
  <2>1. CASE Pending
    BY <2>1, <1>9, <1>0, <1>5, <1>6 DEF Going
  <2>2. CASE Dropping
    <3>1. fifo = <<>> /\ fifo' = <<>>
      BY <2>2, <1>9, <1>7, <1>8 DEF Going
    <3>2. Dropping'
      BY <3>1, <2>2, <1>0 DEF Dropping, Data, IsSample
    <3>3. ~OnAir /\ ~Pending
      BY <1>0, <2>2, <3>1, PendingFirst DEF OnAir, Pending
    <3>. QED  BY <3>2, <3>3, <1>9, <1>0, <1>5 DEF Going
  <2>. QED  BY <2>1, <2>2, <1>9, <1>0 DEF Going, OnAir
<1>10. CASE Failed
  <2>1. fifo = <<>> /\ fifo' = <<>>
    BY <1>10, <1>7, <1>8 DEF Failed
  <2>2. Dropping'
    BY <2>1, <1>10, <1>0 DEF Failed, Dropping, Data, IsSample
  <2>. QED  BY <2>2, <1>10, <1>0, <1>5 DEF Failed
<1>11. CASE Ended
  BY <1>11, <1>0, <1>8 DEF Ended
<1>12. CASE Quiet
  <2>1. fifo = <<>> /\ fifo' = <<>>
    BY <1>12, <1>0, <1>8, QuietFirst DEF FirstIs
  <2>. QED  BY <2>1, <1>12, <1>0 DEF Quiet
<1>. QED  BY <1>9, <1>10, <1>11, <1>12 DEF InTime

(* A packet leaves the FIFO. *)
LEMMA TailStep ==
  ASSUME TypeOK, fifo # <<>>, fifo' = Tail(fifo), UNCHANGED txpc
  PROVE  /\ Len(fifo') = Len(fifo) - 1 /\ Len(fifo) \in Nat /\ Len(fifo) >= 1
         /\ Data' = Data - 1
         /\ \A i \in 1 .. Len(fifo) - 1 : fifo'[i] = fifo[i + 1]
         /\ EndIsLast /\ ~FirstIs("eob") => EndIsLast'
<1>1. /\ Len(fifo') = Len(fifo) - 1 /\ Len(fifo) \in Nat /\ Len(fifo) >= 1
      /\ Head(fifo) = fifo[1]
      /\ \A i \in 1 .. Len(fifo) - 1 : fifo'[i] = fifo[i + 1]
  BY Types, TailType
<1>2. Data' = Data - 1
  BY <1>1 DEF Data
<1>3. ASSUME EndIsLast, ~FirstIs("eob"), txpc = "ack"
      PROVE  fifo' # <<>> /\ fifo'[Len(fifo')] = Eob
  <2>1. fifo[Len(fifo)] = Eob /\ Eob.kind = "eob" /\ fifo[1].kind # "eob"
    BY <1>1, <1>3, Kinds DEF EndIsLast, FirstIs
  <2>2. Len(fifo) # 1
    BY <2>1
  <2>3. Len(fifo) - 1 \in 1 .. Len(fifo) - 1 /\ Len(fifo) - 1 + 1 = Len(fifo)
    BY <1>1, <2>2
  <2>4. fifo'[Len(fifo) - 1] = Eob
    BY <1>1, <2>1, <2>3
  <2>5. fifo' # <<>>
    <3>1. Len(fifo') >= 1 /\ Len(<<>>) = 0
      BY <1>1, <2>3
    <3>. QED  BY <3>1
  <2>. QED  BY <2>4, <2>5, <1>1
<1>4. EndIsLast /\ ~FirstIs("eob") => EndIsLast'
  BY <1>3 DEF EndIsLast
<1>. QED  BY <1>1, <1>2, <1>4

LEMMA OnAirFirst ==
  ASSUME TypeOK, OnAir, EndIsLast, fifo # <<>>
  PROVE  /\ FirstIs("sample") \/ FirstIs("eob")
         /\ Data > 0 <=> FirstIs("sample")
         /\ FirstIs("eob") => txpc = "ack" /\ Len(fifo) = 1
         /\ FirstIs("sample") => Head(fifo) = Smp(phase)
<1>1. Head(fifo) = fifo[1] /\ Len(fifo) >= 1 /\ Len(fifo) \in Nat /\ Data \in Int
  BY TailType, Types, DataFacts
<1>2. ASSUME Data > 0 PROVE fifo[1] = Smp(phase) /\ fifo[1].kind = "sample"
  <2>1. 1 \in 1 .. Data /\ phase + 1 - 1 = phase /\ phase % Period = phase
    BY <1>1, <1>2, Types, Constants, Within
  <2>. QED  BY <2>1, Kinds DEF OnAir
<1>3. ASSUME Data <= 0 PROVE txpc = "ack" /\ Len(fifo) = 1
  <2>1. Data \in Int /\ Data <= 0 /\ Len(fifo) >= 1 /\ Len(fifo) \in Nat /\ Len(fifo) <= Data + 1
    BY <1>1, <1>3, DataFacts
  <2>2. txpc # "ack" => Data = Len(fifo)
    BY DataFacts
  <2>. QED  BY <2>1, <2>2
<1>4. Data <= 0 => fifo[1].kind = "eob"
  <2>1. txpc = "ack" => fifo[Len(fifo)] = Eob
    BY DEF EndIsLast
  <2>. QED  BY <2>1, <1>3, Kinds
<1>. QED  BY <1>1, <1>2, <1>3, <1>4 DEF FirstIs

LEMMA StartUndisturbed ==
  ASSUME StartAligned, UNCHANGED <<txpc, burst, wait, phase>> PROVE StartAligned'
BY DEF StartAligned

(* The start of a burst has come, in time or too late. *)
LEMMA DevStartStep == ASSUME TypeOK, InTime, DevStart PROVE InTime'
<1>0. /\ mode # "on" /\ FirstIs("start") /\ fifo # <<>> /\ Head(fifo).wait <= 0
      /\ fifo' = Tail(fifo)
      /\ IF Head(fifo).wait = 0 THEN mode' = "on" /\ async' = async
                                ELSE mode' = "drop" /\ async' = Append(async, "error")
      /\ UNCHANGED phase /\ UNCHANGED air /\ UNCHANGED bugAck /\ UNCHANGED wait
      /\ UNCHANGED txpc /\ UNCHANGED burst /\ UNCHANGED acks
  BY Zenon DEF DevStart, FirstIs, Notify, hostVars
<1>1. air'.idx = air'.at /\ StartAligned'
  BY <1>0, StartUndisturbed DEF InTime
<1>2. ~FirstIs("sample") /\ ~FirstIs("eob")
  BY <1>0 DEF FirstIs
<1>3. Going /\ Pending
  <2>1. ~OnAir /\ ~Ended
    BY <1>0 DEF OnAir, Ended
  <2>2. ~(Dropping /\ EndIsLast)
    BY <1>0, <1>2, DroppingFirst
  <2>3. ~Quiet
    BY <1>0, <1>2, QuietFirst
  <2>. QED  BY <2>1, <2>2, <2>3 DEF InTime, Going, Failed
<1>4. PICK s \in 1 .. Data : PendingAt(s)
  BY <1>3 DEF Pending
<1>5. s = 1 /\ Data \in Nat /\ Data >= 1 /\ Head(fifo) = fifo[1]
      /\ fifo[1].wait \in -1 .. Delay + Period - 1
  BY <1>0, <1>4, PendingFirst, DataFacts, TailType
<1>6. /\ Data' = Data - 1 /\ Data <= Len(fifo) /\ Len(fifo) \in Nat
      /\ \A i \in 1 .. Len(fifo) - 1 : fifo'[i] = fifo[i + 1]
      /\ EndIsLast'
  BY <1>0, <1>2, <1>3, TailStep, DataFacts DEF Going
<1>7. \A i \in 1 .. Data - 1 : fifo'[i] = Smp((i - 1) % Period)
  <2>1. \A i \in 2 .. Data : fifo[i] = Smp((i - 1 - 1) % Period)
    BY <1>4, <1>5 DEF PendingAt
  <2>2. ASSUME NEW i \in 1 .. Data - 1 PROVE fifo'[i] = Smp((i - 1) % Period)
    <3>1. i + 1 \in 2 .. Data /\ i \in 1 .. Len(fifo) - 1 /\ (i + 1) - 1 - 1 = i - 1
      BY <1>5, <1>6
    <3>. QED  BY <3>1, <2>1, <1>6
  <2>. QED  BY <2>2
<1>8. async = <<>>
  BY <1>3 DEF Pending
<1>9. CASE fifo[1].wait = 0
  <2>1. mode' = "on" /\ async' = <<>>
    BY <1>0, <1>5, <1>8, <1>9
  <2>2. phase = 0
    <3>1. (phase + 0) % Period = 0 /\ phase \in 0 .. Period - 1
      BY <1>4, <1>5, <1>9, Types DEF PendingAt
    <3>. QED  BY <3>1, Within, Constants
  <2>3. \A i \in 1 .. Data - 1 : fifo'[i] = Smp((phase + i - 1) % Period)
    BY <1>7, <2>2
  <2>4. burst % Period = (phase + (Data - 1)) % Period
    BY <1>4, <1>5, <2>2 DEF PendingAt
  <2>5. OnAir'
    BY <2>1, <2>3, <2>4, <1>0, <1>6 DEF OnAir
  <2>6. Going'
    BY <2>5, <1>0, <1>3, <1>6 DEF Going
  <2>. QED  BY <2>6, <1>1 DEF InTime
<1>10. CASE fifo[1].wait # 0
  <2>1. mode' = "drop" /\ async' = <<"error">>
    BY <1>0, <1>5, <1>8, <1>10
  <2>2. Dropping'
    BY <2>1, <1>6, <1>7, Kinds DEF Dropping, IsSample
  <2>3. Going'
    BY <2>1, <2>2, <1>0, <1>3, <1>6 DEF Going
  <2>. QED  BY <2>3, <1>1 DEF InTime
<1>. QED  BY <1>9, <1>10

(* A sample goes on the air: the one that belongs there. *)
LEMMA DevTransmitStep == ASSUME TypeOK, InTime, DevTransmit PROVE InTime'
<1>0. /\ mode = "on" /\ FirstIs("sample") /\ fifo # <<>>
      /\ air' = [idx |-> Head(fifo).idx, at |-> phase]
      /\ fifo' = Later(Tail(fifo)) /\ phase' = (phase + 1) % Period
      /\ UNCHANGED mode /\ UNCHANGED bugAck /\ UNCHANGED async
      /\ UNCHANGED txpc /\ UNCHANGED burst /\ UNCHANGED acks
  BY Zenon DEF DevTransmit, FirstIs, Elapse, hostVars
<1>1. StartAligned'
  BY <1>0, StartKept DEF InTime, DevTransmit
<1>2. Going /\ OnAir
  BY <1>0 DEF InTime, Going, Failed, Ended, Quiet, Pending, Dropping
<1>3. Head(fifo) = Smp(phase) /\ Data > 0 /\ Data \in Int
  BY <1>0, <1>2, OnAirFirst, DataFacts DEF Going
<1>4. air'.idx = air'.at
  BY <1>0, <1>3, Kinds
<1>5. /\ Tail(fifo) \in Seq(Packets) /\ Len(Tail(fifo)) = Len(fifo) - 1
      /\ \A i \in 1 .. Len(fifo) - 1 : Tail(fifo)[i] = fifo[i + 1]
      /\ Head(fifo) = fifo[1] /\ Len(fifo) \in Nat /\ Len(fifo) >= 1
  BY <1>0, TailType, Types
<1>6. /\ Len(fifo') = Len(fifo) - 1 /\ Data' = Data - 1 /\ Data <= Len(fifo)
      /\ \A i \in 1 .. Len(fifo) - 1 : fifo[i + 1].kind # "start" => fifo'[i] = fifo[i + 1]
  <2>1. /\ Len(fifo') = Len(fifo) - 1
        /\ \A i \in 1 .. Len(fifo) - 1 :
             fifo'[i] = IF Tail(fifo)[i].kind = "start"
                          THEN Start(Closer(Tail(fifo)[i].wait)) ELSE Tail(fifo)[i]
    BY <1>0, <1>5, LaterFacts
  <2>2. Data' = Data - 1 /\ Data <= Len(fifo)
    BY <2>1, <1>0, <1>5 DEF Data
  <2>3. \A i \in 1 .. Len(fifo) - 1 : fifo[i + 1].kind # "start" => fifo'[i] = fifo[i + 1]
    BY <2>1, <1>5
  <2>. QED  BY <2>1, <2>2, <2>3
<1>7. EndIsLast'
  <2> SUFFICES ASSUME txpc = "ack" PROVE fifo' # <<>> /\ fifo'[Len(fifo')] = Eob
    BY <1>0 DEF EndIsLast
  <2>1. Len(fifo) - 1 \in 1 .. Len(fifo) - 1
    BY <1>3, <1>5, DataFacts
  <2>2. fifo[Len(fifo) - 1 + 1] = Eob
    BY <1>2, <1>5 DEF Going, EndIsLast
  <2>3. fifo'[Len(fifo) - 1] = Eob
    BY <2>1, <2>2, <1>6, Kinds
  <2>. QED  BY <2>1, <2>3, <1>5, <1>6
<1>8. ASSUME NEW i \in 1 .. Data - 1 PROVE fifo'[i] = Smp((phase' + i - 1) % Period)
  <2>1. i + 1 \in 1 .. Data /\ i \in 1 .. Len(fifo) - 1
    BY <1>3, <1>6
  <2>2. fifo[i + 1] = Smp((phase + (i + 1) - 1) % Period)
    BY <1>2, <2>1 DEF OnAir
  <2>3. fifo'[i] = fifo[i + 1]
    BY <2>1, <2>2, <1>6, Kinds
  <2>4. phase + 1 \in Int /\ i - 1 \in Int /\ phase \in Int
    BY Types, Constants
  <2>5. (((phase + 1) % Period) + (i - 1)) % Period = (phase + 1 + (i - 1)) % Period
    BY <2>4, Absorb
  <2>6. phase + 1 + (i - 1) = phase + (i + 1) - 1 /\ phase' \in Int
        /\ phase' + (i - 1) = phase' + i - 1
    BY <2>4, <1>0, Moment
  <2>. QED  BY <2>2, <2>3, <2>5, <2>6, <1>0
<1>9. burst % Period = (phase' + (Data - 1)) % Period
  <2>1. phase + 1 \in Int /\ Data - 1 \in Int /\ phase \in Int
    BY <1>3, Types, Constants
  <2>2. (((phase + 1) % Period) + (Data - 1)) % Period = (phase + 1 + (Data - 1)) % Period
    BY <2>1, Absorb
  <2>3. phase + 1 + (Data - 1) = phase + Data
    BY <2>1, <1>3
  <2>. QED  BY <2>2, <2>3, <1>0, <1>2 DEF OnAir
<1>10. OnAir'
  <2>1. async = <<>>
    BY <1>2 DEF OnAir
  <2>. QED  BY <2>1, <1>0, <1>6, <1>8, <1>9 DEF OnAir
<1>11. Going'
  BY <1>0, <1>2, <1>7, <1>10 DEF Going
<1>. QED  BY <1>1, <1>4, <1>11 DEF InTime

(* There is at most one start of a burst, and none while one is on the air. *)
LEMMA OneStart == ASSUME TypeOK, Going \/ Failed \/ Ended \/ Quiet
                  PROVE  /\ mode = "on" => Starts = {}
                         /\ \A i, j \in Starts : i = j
                         /\ Failed \/ Ended \/ Quiet => Starts = {} /\ mode # "on"
<1>1. /\ Len(fifo) \in Nat /\ Data \in Int /\ Data <= Len(fifo)
      /\ (txpc # "ack" => Data = Len(fifo)) /\ (txpc = "ack" => Data = Len(fifo) - 1)
      /\ \A i \in Starts : i \in Nat /\ i >= 1 /\ i <= Len(fifo)
                            /\ fifo[i].kind \in {"start", "untimed"}
  BY Types, DataFacts DEF Starts
<1>2. ASSUME EndIsLast, NEW i \in Starts PROVE i \in 1 .. Data
  <2>1. i \in Nat /\ i >= 1 /\ i <= Len(fifo)
    BY <1>1
  <2>2. txpc = "ack" => i # Len(fifo)
    BY <1>1, <1>2, Kinds DEF EndIsLast
  <2>3. i <= Data
    BY <2>1, <2>2, <1>1
  <2>. QED  BY <2>1, <2>3, <1>1
<1>3. ASSUME EndIsLast, Dropping PROVE Starts = {}
  BY <1>1, <1>2, <1>3 DEF Dropping, IsSample
<1>4. ASSUME EndIsLast, OnAir PROVE Starts = {}
  BY <1>1, <1>2, <1>4, Kinds DEF OnAir
<1>5. ASSUME EndIsLast, Pending PROVE \A i, j \in Starts : i = j
  <2>1. PICK s \in 1 .. Data : PendingAt(s)
    BY <1>5 DEF Pending
  <2>2. ASSUME NEW i \in Starts PROVE i = s
    <3>1. i \in 1 .. Data /\ fifo[i].kind \in {"start", "untimed"} /\ s \in Nat /\ i \in Nat
      BY <1>1, <1>2, <1>5
    <3>2. CASE i \in 1 .. s - 2
      BY <2>1, <3>1, <3>2 DEF PendingAt, IsSample
    <3>3. CASE i = s - 1
      BY <2>1, <3>1, <3>3, Kinds DEF PendingAt
    <3>4. CASE i \in s + 1 .. Data
      BY <2>1, <3>1, <3>4, Kinds DEF PendingAt
    <3>5. i \in 1 .. s - 2 \/ i = s - 1 \/ i = s \/ i \in s + 1 .. Data
      BY <3>1, <1>1
    <3>. QED  BY <3>2, <3>3, <3>4, <3>5
  <2>. QED  BY <2>2
<1>6. ASSUME Quiet PROVE Starts = {}
  <2>1. ASSUME NEW i \in Starts PROVE FALSE
    <3>1. i \in Nat /\ i >= 1 /\ i <= Len(fifo) /\ Len(<<>>) = 0
      BY <1>1
    <3>2. fifo # <<>> /\ (i \in 1 .. Len(fifo) - 1 \/ i = Len(fifo))
      BY <3>1, <1>1
    <3>. QED  BY <3>1, <3>2, <1>1, <1>6, Kinds DEF Quiet, IsSample
  <2>. QED  BY <2>1
<1>7. Ended => Starts = {}
  BY <1>1 DEF Ended, Starts
<1>. QED  BY <1>3, <1>4, <1>5, <1>6, <1>7 DEF Going, Failed, Ended, Quiet, Pending, Dropping

(* A start without a time stamp is never sent, and none during a burst. *)
LEMMA DevStartUntimedNever == ASSUME TypeOK, InTime, DevStartUntimed PROVE FALSE
<1>0. ~(FirstIs("start") /\ mode = "on")
  <2>1. FirstIs("start") => 1 \in Starts
    BY Types DEF FirstIs, Starts
  <2>. QED  BY <2>1, OneStart DEF InTime
<1>1. FirstIs("untimed") /\ fifo # <<>> /\ ~FirstIs("sample") /\ ~FirstIs("eob")
  BY <1>0 DEF DevStartUntimed, FirstIs
<1>2. ~Pending
  BY <1>1, PendingFirst DEF Pending
<1>3. ~(Dropping /\ EndIsLast) /\ ~(OnAir /\ EndIsLast)
  BY <1>1, DroppingFirst, OnAirFirst
<1>4. ~Ended /\ ~Quiet
  BY <1>1, QuietFirst DEF Ended
<1>. QED  BY <1>2, <1>3, <1>4 DEF InTime, Going, Failed

(* An error takes a burst off the air. *)
LEMMA DevErrorStep == ASSUME TypeOK, InTime, DevError PROVE InTime'
<1>0. /\ mode = "on" /\ (fifo = <<>> \/ FirstIs("sample")) /\ mode' = "drop"
      /\ async' = Append(async, "error")
      /\ fifo = <<>> => fifo' = fifo
      /\ fifo # <<>> => fifo' = Tail(fifo)
      /\ UNCHANGED phase /\ UNCHANGED air /\ UNCHANGED bugAck /\ UNCHANGED wait
      /\ UNCHANGED txpc /\ UNCHANGED burst /\ UNCHANGED acks
  BY Zenon DEF DevError, FirstIs, Notify, Empty, hostVars
<1>1. air'.idx = air'.at /\ StartAligned'
  BY <1>0, StartUndisturbed DEF InTime
<1>2. Going /\ OnAir
  BY <1>0 DEF InTime, Going, Failed, Ended, Quiet, Pending, Dropping
<1>3. async' = <<"error">>
  <2>1. async = <<>>
    BY <1>2 DEF OnAir
  <2>. QED  BY <2>1, <1>0
<1>4. Dropping' /\ EndIsLast'
  <2>1. CASE fifo = <<>>
    <3>1. txpc # "ack" /\ fifo' = <<>>
      BY <2>1, <1>0, <1>2 DEF Going, EndIsLast
    <3>. QED  BY <3>1, <1>0 DEF Dropping, EndIsLast, Data
  <2>2. CASE fifo # <<>>
    <3>1. FirstIs("sample") /\ ~FirstIs("eob") /\ fifo' = Tail(fifo)
      BY <2>2, <1>0 DEF FirstIs
    <3>2. /\ Data' = Data - 1 /\ Data <= Len(fifo) /\ Data \in Int /\ Len(fifo) \in Nat
          /\ \A i \in 1 .. Len(fifo) - 1 : fifo'[i] = fifo[i + 1]
          /\ EndIsLast'
      BY <2>2, <3>1, <1>0, <1>2, TailStep, DataFacts DEF Going
    <3>3. ASSUME NEW i \in 1 .. Data - 1 PROVE fifo'[i].kind = "sample"
      <4>1. i + 1 \in 1 .. Data /\ i \in 1 .. Len(fifo) - 1
        BY <3>2
      <4>. QED  BY <4>1, <3>2, <1>2, Kinds DEF OnAir
    <3>. QED  BY <3>2, <3>3, <1>0 DEF Dropping, IsSample
  <2>. QED  BY <2>1, <2>2
<1>5. Going'
  BY <1>0, <1>2, <1>3, <1>4 DEF Going
<1>. QED  BY <1>1, <1>5 DEF InTime

(* After an error, samples are dropped, also those before the next burst. *)
LEMMA DevDropStep == ASSUME TypeOK, InTime, DevDrop PROVE InTime'
<1>0. /\ mode # "on" /\ FirstIs("sample") /\ fifo # <<>> /\ fifo' = Tail(fifo)
      /\ UNCHANGED phase /\ UNCHANGED air /\ UNCHANGED bugAck /\ UNCHANGED wait
      /\ UNCHANGED txpc /\ UNCHANGED burst /\ UNCHANGED acks
      /\ UNCHANGED mode /\ UNCHANGED async
  BY Zenon DEF DevDrop, FirstIs, hostVars, devVars
<1>1. air'.idx = air'.at /\ StartAligned'
  BY <1>0, StartUndisturbed DEF InTime
<1> SUFFICES Going' \/ Failed' \/ Ended' \/ Quiet'
  BY <1>1 DEF InTime
<1>2. /\ Data' = Data - 1 /\ Data <= Len(fifo) /\ Data \in Int /\ Len(fifo) \in Nat
      /\ Len(fifo') = Len(fifo) - 1
      /\ \A i \in 1 .. Len(fifo) - 1 : fifo'[i] = fifo[i + 1]
      /\ EndIsLast => EndIsLast'
  BY <1>0, TailStep, DataFacts DEF FirstIs
<1>3. Dropping => Dropping'
  <2> SUFFICES ASSUME Dropping, NEW i \in 1 .. Data - 1 PROVE fifo'[i].kind = "sample"
    BY <1>0, <1>2 DEF Dropping, IsSample
  <2>1. i + 1 \in 1 .. Data /\ i \in 1 .. Len(fifo) - 1
    BY <1>2
  <2>. QED  BY <2>1, <1>2 DEF Dropping, IsSample
<1>4. Pending => Pending'
  <2> SUFFICES ASSUME Pending PROVE Pending'
    OBVIOUS
  <2>1. PICK s \in 1 .. Data : PendingAt(s)
    BY DEF Pending
  <2>2. s > 2 /\ s \in Nat /\ s <= Len(fifo) /\ s <= Data
    BY <2>1, <1>0, <1>2, PendingFirst
  <2>3. s - 1 \in 1 .. Data' /\ s - 1 \in Nat /\ s - 1 >= 2
    BY <2>2, <1>2
  <2>4. fifo'[s - 1] = fifo[s] /\ fifo'[s - 1 - 1] = fifo[s - 1]
    <3>1. s - 1 \in 1 .. Len(fifo) - 1 /\ s - 1 - 1 \in 1 .. Len(fifo) - 1
          /\ s - 1 + 1 = s /\ s - 1 - 1 + 1 = s - 1
      BY <2>2, <1>2
    <3>. QED  BY <3>1, <1>2
  <2>5. ASSUME NEW i \in (s - 1) + 1 .. Data - 1
        PROVE  fifo'[i] = Smp((i - (s - 1) - 1) % Period)
    <3>1. i + 1 \in s + 1 .. Data /\ i \in 1 .. Len(fifo) - 1 /\ (i + 1) - s - 1 = i - (s - 1) - 1
      BY <2>2, <1>2
    <3>2. fifo[i + 1] = Smp(((i + 1) - s - 1) % Period)
      BY <2>1, <3>1 DEF PendingAt
    <3>. QED  BY <3>1, <3>2, <1>2
  <2>6. ASSUME NEW i \in 1 .. (s - 1) - 2 PROVE fifo'[i].kind = "sample"
    <3>1. i + 1 \in 1 .. s - 2 /\ i \in 1 .. Len(fifo) - 1
      BY <2>2, <1>2
    <3>2. fifo[i + 1].kind = "sample"
      BY <2>1, <3>1 DEF PendingAt, IsSample
    <3>. QED  BY <3>1, <3>2, <1>2
  <2>7. burst % Period = (Data' - (s - 1)) % Period
    <3>1. Data' - (s - 1) = Data - s
      BY <1>2, <2>2
    <3>. QED  BY <3>1, <2>1 DEF PendingAt
  <2>8. fifo[s].kind = "start" /\ (fifo[s].wait = -1 \/ (phase + fifo[s].wait) % Period = 0)
        /\ mode = "drop" /\ bugAck /\ fifo[s - 1] = Eob
    BY <2>1, <2>2 DEF PendingAt
  <2>9. PendingAt(s - 1)'
    BY <2>4, <2>5, <2>6, <2>7, <2>8, <1>0, <1>2 DEF PendingAt, IsSample
  <2>. QED  BY <2>3, <2>9, <1>0 DEF Pending
<1>5. CASE Going
  BY <1>0, <1>2, <1>3, <1>4, <1>5 DEF Going, OnAir
<1>6. CASE Failed
  BY <1>0, <1>2, <1>3, <1>6 DEF Failed
<1>7. CASE Quiet
  <2>1. Len(fifo) > 1
    BY <1>0, <1>7, QuietFirst
  <2>2. mode = "drop" /\ bugAck /\ fifo[Len(fifo)] = Eob
        /\ \A i \in 1 .. Len(fifo) - 1 : fifo[i].kind = "sample"
    BY <1>0, <1>7 DEF Quiet, IsSample
  <2>3. fifo'[Len(fifo')] = Eob
    <3>1. Len(fifo) - 1 \in 1 .. Len(fifo) - 1 /\ Len(fifo) - 1 + 1 = Len(fifo)
      BY <2>1, <1>2
    <3>. QED  BY <3>1, <2>2, <1>2
  <2>4. ASSUME NEW i \in 1 .. Len(fifo') - 1 PROVE fifo'[i].kind = "sample"
    <3>1. i + 1 \in 1 .. Len(fifo) - 1 /\ i \in 1 .. Len(fifo) - 1
      BY <1>2
    <3>. QED  BY <3>1, <2>2, <1>2
  <2>5. Quiet'
    BY <2>2, <2>3, <2>4, <1>0, <1>7 DEF Quiet, IsSample
  <2>. QED  BY <2>5
<1>. QED  BY <1>0, <1>5, <1>6, <1>7 DEF InTime, Ended

(* An end of burst is acknowledged, or not after an error on a B2xx. *)
LEMMA DevEobStep == ASSUME TypeOK, InTime, DevEob PROVE InTime'
<1>0. /\ FirstIs("eob") /\ fifo # <<>> /\ fifo' = Tail(fifo) /\ mode' = "idle"
      /\ mode = "drop" /\ bugAck => async' = async
      /\ ~(mode = "drop" /\ bugAck) => async' = async \o Acks
      /\ UNCHANGED phase /\ UNCHANGED air /\ UNCHANGED bugAck /\ UNCHANGED wait
      /\ UNCHANGED txpc /\ UNCHANGED burst /\ UNCHANGED acks
  BY Zenon DEF DevEob, FirstIs, hostVars, devVars
<1>1. air'.idx = air'.at /\ StartAligned'
  BY <1>0, StartUndisturbed DEF InTime
<1> SUFFICES Going' \/ Failed' \/ Ended' \/ Quiet'
  BY <1>1 DEF InTime
<1>2. /\ Data' = Data - 1 /\ Data <= Len(fifo) /\ Data \in Int /\ Len(fifo) \in Nat
      /\ Len(fifo') = Len(fifo) - 1 /\ ~FirstIs("sample")
      /\ \A i \in 1 .. Len(fifo) - 1 : fifo'[i] = fifo[i + 1]
  BY <1>0, TailStep, DataFacts DEF FirstIs
<1>3. Len(fifo) = 1 => fifo' = <<>>
  <2>1. fifo' \in Seq(Packets)
    BY <1>0, TailType
  <2>. QED  BY <2>1, <1>2
(* What is left once the end is taken and nothing was in the queue but     *)
(* perhaps the error.                                                      *)
<1>4. ASSUME txpc = "ack", Len(fifo) = 1,
             \/ async = <<>> /\ acks = 0
             \/ async = <<>> /\ mode = "drop" /\ bugAck /\ acks = NumTx
             \/ async = <<"error">> /\ acks = 0
      PROVE  Ended'
  <2>1. Acks \in Seq({"ack", "error"}) /\ Len(Acks) = NumTx /\ \A i \in 1 .. NumTx : Acks[i] = "ack"
    BY AcksType
  <2>2. NumTx \in Nat /\ NumTx >= 1
    BY Constants
  <2>3. async' = async \/ async' = async \o Acks
    BY <1>0
  <2>4. txpc' = "ack" /\ fifo' = <<>> /\ mode' = "idle" /\ acks' = acks
    BY <1>0, <1>3, <1>4
  <2>5. CASE async = <<>>
    <3>1. CASE async' = <<>>
      BY <3>1, <2>4, <2>5, <1>4, <2>2 DEF Ended
    <3>2. CASE async' = async \o Acks
      <4>1. async' = Acks
        BY <3>2, <2>1, <2>5
      <4>2. acks = 0 \/ async' = <<>>
        BY <1>0, <1>4, <2>5
      <4>3. acks = 0
        BY <4>1, <4>2, <2>1, <2>2
      <4>4. async'[1] = "ack" /\ Len(async') = NumTx /\ \A i \in 2 .. NumTx : async'[i] = "ack"
        BY <4>1, <2>1, <2>2
      <4>. QED  BY <4>3, <4>4, <2>4, <2>2 DEF Ended
    <3>. QED  BY <3>1, <3>2, <2>3, <2>5
  <2>6. CASE async = <<"error">>
    <3>1. acks = 0
      BY <2>6, <1>4
    <3>2. CASE async' = <<"error">>
      BY <3>1, <3>2, <2>4, <2>2 DEF Ended
    <3>3. CASE async' = async \o Acks
      <4>1. /\ Len(async') = 1 + NumTx /\ async'[1] = "error" /\ async' # <<>>
            /\ \A j \in 1 .. NumTx : async'[1 + j] = "ack"
        BY <3>3, <2>1, <2>2, <2>6
      <4>2. ASSUME NEW i \in 2 .. Len(async') PROVE async'[i] = "ack"
        <5>1. i - 1 \in 1 .. NumTx /\ 1 + (i - 1) = i
          BY <4>1, <2>2
        <5>. QED  BY <5>1, <4>1
      <4>3. Len(async') - 1 \in {0, NumTx}
        BY <4>1, <2>2
      <4>. QED  BY <4>1, <4>2, <4>3, <3>1, <2>4 DEF Ended
    <3>. QED  BY <3>2, <3>3, <2>3, <2>6
  <2>. QED  BY <2>5, <2>6, <1>4
<1>5. CASE Going
  <2>1. CASE Pending
    <3>1. PICK s \in 1 .. Data : PendingAt(s)
      BY <2>1 DEF Pending
    <3>2. s = 2 /\ Data >= 2 /\ mode = "drop" /\ bugAck
      BY <3>1, <1>0, <1>2, PendingFirst DEF PendingAt
    <3>3. Data' >= 1 /\ Data' \in Int /\ 1 \in 1 .. Data' /\ async' = <<>>
      BY <3>2, <2>1, <1>0, <1>2 DEF Pending
    <3>4. fifo'[1] = fifo[2]
      BY <3>2, <1>2
    <3>5. ASSUME NEW i \in 2 .. Data - 1 PROVE fifo'[i] = Smp((i - 1 - 1) % Period)
      <4>1. i + 1 \in 2 + 1 .. Data /\ i \in 1 .. Len(fifo) - 1 /\ (i + 1) - 2 - 1 = i - 1 - 1
        BY <1>2
      <4>2. fifo[i + 1] = Smp(((i + 1) - 2 - 1) % Period)
        BY <3>1, <3>2, <4>1 DEF PendingAt
      <4>. QED  BY <4>1, <4>2, <1>2
    <3>6. burst % Period = (Data' - 1) % Period
      <4>1. Data' - 1 = Data - 2
        BY <1>2
      <4>. QED  BY <4>1, <3>1, <3>2 DEF PendingAt
    <3>7. fifo[2].kind = "start" /\ (fifo[2].wait = -1 \/ (phase + fifo[2].wait) % Period = 0)
      BY <3>1, <3>2 DEF PendingAt
    <3>8. PendingAt(1)'
      BY <3>4, <3>5, <3>6, <3>7, <1>0, <1>2 DEF PendingAt
    <3>9. Pending'
      BY <3>3, <3>8, <1>0 DEF Pending
    <3>10. EndIsLast'
      <4> SUFFICES ASSUME txpc = "ack" PROVE fifo' # <<>> /\ fifo'[Len(fifo')] = Eob
        BY <1>0 DEF EndIsLast
      <4>1. fifo[Len(fifo)] = Eob
        BY <1>5 DEF Going, EndIsLast
      <4>2. Len(fifo) - 1 \in 1 .. Len(fifo) - 1 /\ Len(fifo) - 1 + 1 = Len(fifo)
        BY <3>2, <1>2
      <4>3. Len(fifo') >= 1 /\ Len(<<>>) = 0
        BY <4>2, <1>2
      <4>4. fifo' # <<>>
        BY <4>3
      <4>. QED  BY <4>1, <4>2, <4>4, <1>2
    <3>. QED  BY <3>9, <3>10, <1>0, <1>5 DEF Going
  <2>2. CASE OnAir
    <3>1. txpc = "ack" /\ Len(fifo) = 1
      BY <2>2, <1>0, <1>5, OnAirFirst DEF Going
    <3>2. async = <<>> /\ acks = 0
      BY <2>2, <3>1, <1>5 DEF Going, OnAir
    <3>. QED  BY <3>1, <3>2, <1>4
  <2>3. CASE Dropping /\ (async = <<"error">> \/ (txpc = "ack" /\ async = <<>>))
    <3>1. txpc = "ack" /\ Len(fifo) = 1
      BY <2>3, <1>0, <1>5, DroppingFirst DEF Going
    <3>2. acks = 0
      BY <3>1, <1>5 DEF Going
    <3>. QED  BY <2>3, <3>1, <3>2, <1>4
  <2>. QED  BY <2>1, <2>2, <2>3, <1>5 DEF Going
<1>6. CASE Failed
  <2>1. txpc = "ack" /\ Len(fifo) = 1
    BY <1>0, <1>6, DroppingFirst DEF Failed
  <2>2. mode = "drop" /\ async = <<>> /\ (acks = 0 \/ (bugAck /\ acks = NumTx))
    BY <2>1, <1>6 DEF Failed, Dropping
  <2>. QED  BY <2>1, <2>2, <1>4
<1>7. CASE Quiet
  <2>1. Len(fifo) = 1
    BY <1>0, <1>2, <1>7, QuietFirst, TailStep
  <2>2. fifo' = <<>>
    BY <2>1, <1>3
  <2>3. async' = <<>>
    BY <1>0, <1>7 DEF Quiet
  <2>. QED  BY <2>2, <2>3, <1>0, <1>7 DEF Quiet
<1>. QED  BY <1>0, <1>5, <1>6, <1>7 DEF InTime, Ended

-----------------------------------------------------------------------------
(* The steps of the worker *)

(* Nothing of a burst but the worker's place changes. *)
LEMMA ShapesKept ==
  ASSUME UNCHANGED <<phase, fifo, mode, bugAck, async, burst>>, txpc # "ack", txpc' # "ack"
  PROVE  /\ Pending => Pending'
         /\ OnAir => OnAir'
         /\ Dropping => Dropping'
         /\ EndIsLast'
         /\ Data' = Data
<1>1. /\ UNCHANGED phase /\ UNCHANGED fifo /\ UNCHANGED mode /\ UNCHANGED bugAck
      /\ UNCHANGED async /\ UNCHANGED burst
  OBVIOUS
<1>2. Data' = Data
  BY <1>1 DEF Data
<1>3. ASSUME NEW s \in 1 .. Data, PendingAt(s) PROVE PendingAt(s)'
  BY <1>1, <1>2, <1>3 DEF PendingAt, IsSample
<1>4. Pending => Pending'
  BY <1>1, <1>2, <1>3 DEF Pending
<1>5. OnAir => OnAir'
  BY <1>1, <1>2 DEF OnAir
<1>6. Dropping => Dropping'
  BY <1>1, <1>2 DEF Dropping, IsSample
<1>. QED  BY <1>2, <1>4, <1>5, <1>6 DEF EndIsLast

LEMMA QuietKept ==
  ASSUME Quiet, UNCHANGED <<fifo, mode, bugAck, async, burst>>,
         txpc' \in {"top", "send", "mute", "muted", "off"}
  PROVE  Quiet'
BY DEF Quiet, IsSample

(* A new burst starts at a multiple of the period. *)
LEMMA TxTopStep == ASSUME TypeOK, InTime, TxTop PROVE InTime'
<1>0. /\ txpc = "top" /\ txpc' \in {"send", "off"}
      /\ txpc' = "send" /\ burst = 0 => wait' = AlignTime(phase)
      /\ UNCHANGED <<phase, fifo, mode, bugAck, async, burst, acks>> /\ UNCHANGED air
  BY Zenon DEF TxTop, devVars
<1>1. air'.idx = air'.at
  BY <1>0 DEF InTime
<1>2. StartAligned'
  <2>1. phase \in 0 .. Period - 1
    BY Types
  <2>. QED  BY <2>1, <1>0, Aligned DEF StartAligned
<1>3. CASE Going
  BY <1>0, <1>1, <1>2, <1>3, ShapesKept DEF Going, InTime
<1>4. CASE Quiet
  BY <1>0, <1>1, <1>2, <1>4, QuietKept DEF InTime
<1>. QED  BY <1>0, <1>3, <1>4 DEF InTime, Failed, Ended

LEMMA TxDrainedStep == ASSUME TypeOK, InTime, TxDrained PROVE InTime'
<1>0. /\ txpc = "drain" /\ async = <<>> /\ txpc' \in {"eob", "top"}
      /\ burst = 0 => txpc' = "eob"
      /\ UNCHANGED <<phase, fifo, mode, bugAck, async, burst, acks>> /\ UNCHANGED air
      /\ UNCHANGED wait
  BY Zenon DEF TxDrained, devVars
<1>1. air'.idx = air'.at /\ StartAligned'
  BY <1>0 DEF InTime, StartAligned
<1>2. CASE Going
  BY <1>0, <1>1, <1>2, ShapesKept DEF Going, InTime
<1>3. CASE Failed
  BY <1>0, <1>1, <1>3, ShapesKept DEF Failed, InTime
<1>. QED  BY <1>0, <1>2, <1>3 DEF InTime, Quiet, Ended

(* The worker learns of the error. *)
LEMMA TxDrainStep == ASSUME TypeOK, InTime, TxDrain PROVE InTime'
<1>0. /\ txpc = "drain" /\ txpc' = "drain" /\ async # <<>> /\ async' = Tail(async)
      /\ Head(async) = "error" => burst' = 0
      /\ UNCHANGED fifo /\ UNCHANGED mode /\ UNCHANGED air
  BY Zenon DEF TxDrain, devVars
<1>1. air'.idx = air'.at /\ StartAligned'
  BY <1>0 DEF InTime, StartAligned
<1>2. Going /\ Dropping /\ async = <<"error">>
  BY <1>0 DEF InTime, Quiet, Ended, Failed, Going, Pending, OnAir
<1>3. async' = <<>> /\ burst' = 0
  BY <1>0, <1>2
<1>4. Dropping'
  BY <1>0, <1>2 DEF Dropping, IsSample, Data
<1>5. Failed'
  BY <1>0, <1>3, <1>4 DEF Failed, EndIsLast
<1>. QED  BY <1>1, <1>5 DEF InTime

(* The end of the burst is sent. *)
LEMMA TxEobStep == ASSUME TypeOK, InTime, TxEob PROVE InTime'
<1>0. /\ txpc = "eob" /\ txpc' = "ack" /\ fifo' = Append(fifo, Eob)
      /\ acks' = IF NoAckExpected THEN NumTx ELSE 0
      /\ UNCHANGED phase /\ UNCHANGED mode /\ UNCHANGED bugAck /\ UNCHANGED async
      /\ UNCHANGED burst /\ UNCHANGED air
  BY Zenon DEF TxEob, devVars
<1>1. air'.idx = air'.at /\ StartAligned'
  BY <1>0 DEF InTime, StartAligned
<1>2. /\ Len(fifo') = Len(fifo) + 1 /\ Len(fifo) \in Nat /\ fifo'[Len(fifo) + 1] = Eob
      /\ \A i \in 1 .. Len(fifo) : fifo'[i] = fifo[i]
      /\ fifo' # <<>>
  BY <1>0, Types
<1>3. Data = Len(fifo) /\ Data' = Len(fifo)
  BY <1>0, <1>2 DEF Data
<1>4. EndIsLast'
  BY <1>2 DEF EndIsLast
<1>5. Pending => Pending'
  <2> SUFFICES ASSUME Pending PROVE Pending'
    OBVIOUS
  <2>1. PICK s \in 1 .. Data : PendingAt(s)
    BY DEF Pending
  <2>2. s \in Nat /\ s >= 1 /\ s <= Len(fifo)
    BY <1>2, <1>3
  <2>3. fifo'[s] = fifo[s] /\ (s > 1 => fifo'[s - 1] = fifo[s - 1])
        /\ (\A i \in s + 1 .. Len(fifo) : fifo'[i] = fifo[i])
        /\ \A i \in 1 .. s - 2 : fifo'[i] = fifo[i]
    BY <1>2, <2>2
  <2>4. PendingAt(s)'
    BY <2>1, <2>3, <1>0, <1>3 DEF PendingAt, IsSample
  <2>. QED  BY <2>2, <2>4, <1>0, <1>2, <1>3 DEF Pending
<1>6. OnAir => OnAir'
  BY <1>0, <1>2, <1>3 DEF OnAir
<1>7. Dropping => Dropping'
  BY <1>0, <1>2, <1>3 DEF Dropping, IsSample
<1>8. CASE Going
  <2>1. acks' = 0
    BY <1>0, <1>8 DEF Going, NoAckExpected
  <2>2. Going'
    BY <2>1, <1>0, <1>4, <1>5, <1>6, <1>7, <1>8 DEF Going
  <2>. QED  BY <2>2, <1>1 DEF InTime
<1>9. CASE Failed
  <2>1. acks' = IF bugAck THEN NumTx ELSE 0
    BY <1>0, <1>9, Zenon DEF Failed, NoAckExpected
  <2>2. Dropping' /\ burst' = 0 /\ async' = <<>>
    BY <1>0, <1>7, <1>9 DEF Failed
  <2>3. Failed'
    BY <2>1, <2>2, <1>0, <1>4 DEF Failed
  <2>. QED  BY <2>3, <1>1 DEF InTime
<1>. QED  BY <1>0, <1>8, <1>9 DEF InTime, Quiet, Ended

(* An acknowledgement is counted, or an error passed over. *)
LEMMA TxAckStep == ASSUME TypeOK, InTime, TxAck PROVE InTime'
<1>0. /\ txpc = "ack" /\ txpc' = "ack" /\ acks < NumTx /\ async # <<>>
      /\ async' = Tail(async)
      /\ acks' = IF Head(async) = "ack" THEN acks + 1 ELSE acks
      /\ UNCHANGED <<phase, fifo, mode, bugAck, burst>> /\ UNCHANGED air
  BY Zenon DEF TxAck, devVars
<1>1. air'.idx = air'.at /\ StartAligned'
  BY <1>0 DEF InTime, StartAligned
<1>2. CASE Going
  <2>1. Dropping /\ async = <<"error">> /\ acks = 0
    BY <1>0, <1>2 DEF Going, Pending, OnAir
  <2>2. async' = <<>> /\ acks' = 0
    BY <1>0, <2>1
  <2>3. Dropping' /\ EndIsLast'
    BY <1>0, <1>2, <2>1 DEF Dropping, IsSample, Data, EndIsLast, Going
  <2>4. Going'
    BY <2>2, <2>3, <1>0, <1>2 DEF Going
  <2>. QED  BY <2>4, <1>1 DEF InTime
<1>3. CASE Ended
  <2>1. /\ Len(async') = Len(async) - 1 /\ Len(async) \in Nat /\ Len(async) >= 1
        /\ Head(async) = async[1] /\ Head(async) \in {"ack", "error"}
        /\ \A i \in 1 .. Len(async) - 1 : async'[i] = async[i + 1]
        /\ async' \in Seq({"ack", "error"})
    BY <1>0, AsyncTail
  <2>2. ASSUME NEW i \in 1 .. Len(async') PROVE async'[i] = "ack"
    <3>1. i + 1 \in 2 .. Len(async) /\ i \in 1 .. Len(async) - 1
      BY <2>1
    <3>. QED  BY <3>1, <2>1, <1>3 DEF Ended
  <2>3. acks' + Len(async') \in {0, NumTx}
    <3>1. CASE async[1] = "error"
      BY <3>1, <2>1, <1>0, <1>3 DEF Ended
    <3>2. CASE async[1] = "ack"
      <4>1. acks + Len(async) \in {0, NumTx} /\ acks' = acks + 1
        BY <3>2, <2>1, <1>0, <1>3 DEF Ended
      <4>. QED  BY <4>1, <2>1, Types
    <3>. QED  BY <3>1, <3>2, <2>1
  <2>4. ~(async' # <<>> /\ async'[1] = "error")
    <3>1. async' # <<>> => Len(async') >= 1 /\ Len(async') \in Nat
      BY <2>1
    <3>. QED  BY <3>1, <2>2
  <2>5. \A i \in 2 .. Len(async') : async'[i] = "ack"
    BY <2>1, <2>2
  <2>6. Ended'
    BY <2>3, <2>4, <2>5, <1>0, <1>3 DEF Ended
  <2>. QED  BY <2>6, <1>1 DEF InTime
<1>. QED  BY <1>0, <1>2, <1>3 DEF InTime, Quiet, Failed

(* The burst has ended, or an acknowledgement is late. *)
LEMMA TxBurstEndedStep == ASSUME TypeOK, InTime, TxBurstEnded PROVE late' \/ InTime'
<1>0. /\ txpc = "ack" /\ (acks >= NumTx \/ async = <<>>) /\ txpc' \in {"mute", "top"}
      /\ acks < NumTx /\ (mode = "on" \/ fifo # <<>>) => late'
      /\ burst' = 0
      /\ UNCHANGED <<phase, fifo, mode, bugAck, async>> /\ UNCHANGED air
  BY Zenon DEF TxBurstEnded, devVars, TimedOut, Empty
<1> SUFFICES ASSUME ~(acks < NumTx /\ (mode = "on" \/ fifo # <<>>)) PROVE InTime'
  BY <1>0
<1>1. air'.idx = air'.at /\ StartAligned'
  BY <1>0 DEF InTime, StartAligned
<1>2. acks \in Nat /\ NumTx \in Nat /\ NumTx >= 1 /\ acks <= NumTx
  BY Types, Constants
<1>3. ~Going
  BY <1>0, <1>2 DEF Going, EndIsLast
<1>4. ASSUME Failed PROVE Quiet'
  <2>1. fifo # <<>> /\ fifo[Len(fifo)] = Eob /\ mode = "drop" /\ async = <<>>
    BY <1>0, <1>4 DEF Failed, EndIsLast, Dropping
  <2>2. bugAck
    BY <2>1, <1>0, <1>2, <1>4 DEF Failed
  <2>3. \A i \in 1 .. Len(fifo) - 1 : fifo[i].kind = "sample"
    BY <1>0, <1>4 DEF Failed, Dropping, Data, IsSample
  <2>. QED  BY <2>1, <2>2, <2>3, <1>0 DEF Quiet, IsSample
<1>5. ASSUME Ended PROVE Quiet'
  <2>1. async = <<>>
    <3>1. async \in Seq({"ack", "error"}) /\ Len(async) \in Nat
      BY Types
    <3>2. CASE acks >= NumTx
      <4>1. ~(async # <<>> /\ async[1] = "error")
        BY <3>2, <1>2, <1>5 DEF Ended
      <4>2. acks + Len(async) \in {0, NumTx}
        BY <4>1, <1>5, Zenon DEF Ended
      <4>3. Len(async) = 0
        BY <4>2, <3>1, <3>2, <1>2
      <4>. QED  BY <4>3, <3>1
    <3>. QED  BY <3>2, <1>0
  <2>. QED  BY <2>1, <1>0, <1>5 DEF Ended, Quiet
<1>6. Quiet'
  BY <1>0, <1>3, <1>4, <1>5 DEF InTime, Quiet
<1>. QED  BY <1>1, <1>6 DEF InTime

LEMMA TxMuteStep == ASSUME TypeOK, InTime, TxMute \/ TxMuted \/ TxUnmute PROVE InTime'
<1>0. /\ txpc \in {"mute", "muted"} /\ txpc' \in {"muted", "top"}
      /\ async = <<>> => async' = async
      /\ UNCHANGED <<fifo, mode, bugAck, burst>> /\ UNCHANGED air
  BY Zenon DEF TxMute, TxMuted, TxUnmute, devVars, hostVars
<1>1. air'.idx = air'.at /\ StartAligned'
  BY <1>0 DEF InTime, StartAligned
<1>2. Quiet
  BY <1>0 DEF InTime, Going, Failed, Ended
<1>3. Quiet'
  BY <1>0, <1>2, QuietKept DEF Quiet
<1>. QED  BY <1>1, <1>3 DEF InTime

(* send() goes on where it stopped. *)
LEMMA GoesOn ==
  ASSUME TypeOK, NEW a \in Int, burst % Period = a % Period, NEW k \in Int
  PROVE  BurstSample(k) = Smp((a + k - 1) % Period)
<1>1. burst \in Int /\ k - 1 \in Int
  BY Types, Constants
<1>2. (burst + (k - 1)) % Period = (a + (k - 1)) % Period
  BY <1>1, Congruent
<1>3. burst + (k - 1) = burst + k - 1 /\ a + (k - 1) = a + k - 1
  BY <1>1
<1>. QED  BY <1>2, <1>3 DEF BurstSample

LEMMA Continued ==
  ASSUME TypeOK, Going, txpc = "send", txpc' = "drain",
         UNCHANGED <<phase, mode, bugAck, async>>,
         NEW n \in Nat, fifo' \in Seq(Packets), Len(fifo') = Len(fifo) + n,
         \A i \in 1 .. Len(fifo) : fifo'[i] = fifo[i],
         \A k \in 1 .. n : fifo'[Len(fifo) + k] = BurstSample(k),
         burst' = Advanced(burst, n)
  PROVE  Going'
<1>1. Len(fifo) \in Nat /\ Data = Len(fifo) /\ Data' = Len(fifo) + n
  BY Types DEF Data
<1>2. burst \in 0 .. Period /\ burst # 0 /\ burst \in Int /\ phase \in Int
  BY Types, Constants DEF Going
<1>3. burst' # 0 /\ burst' % Period = (burst + n) % Period
  BY <1>2, AdvancedFacts
<1>4. ASSUME NEW i \in Len(fifo) + 1 .. Len(fifo) + n
      PROVE  i - Len(fifo) \in 1 .. n /\ fifo'[i] = BurstSample(i - Len(fifo))
             /\ i - Len(fifo) \in Int
  <2>1. i - Len(fifo) \in 1 .. n /\ Len(fifo) + (i - Len(fifo)) = i
    BY <1>1
  <2>. QED  BY <2>1
<1>5. ASSUME Pending PROVE Pending'
  <2>1. PICK s \in 1 .. Data : PendingAt(s)
    BY <1>5 DEF Pending
  <2>2. s \in Nat /\ s >= 1 /\ s <= Len(fifo) /\ Len(fifo) - s \in Int
    BY <1>1
  <2>3. burst % Period = (Len(fifo) - s) % Period
    BY <2>1, <1>1 DEF PendingAt
  <2>4. ASSUME NEW i \in s + 1 .. Len(fifo) + n PROVE fifo'[i] = Smp((i - s - 1) % Period)
    <3>1. CASE i <= Len(fifo)
      <4>1. i \in 1 .. Len(fifo) /\ i \in s + 1 .. Len(fifo)
        BY <3>1, <2>2, <1>1
      <4>. QED  BY <4>1, <2>1, <1>1 DEF PendingAt
    <3>2. CASE i > Len(fifo)
      <4>1. i \in Len(fifo) + 1 .. Len(fifo) + n
        BY <3>2, <2>2, <1>1
      <4>2. fifo'[i] = BurstSample(i - Len(fifo)) /\ i - Len(fifo) \in Int
        BY <4>1, <1>4
      <4>3. BurstSample(i - Len(fifo)) = Smp(((Len(fifo) - s) + (i - Len(fifo)) - 1) % Period)
        BY <4>2, <2>2, <2>3, GoesOn
      <4>4. (Len(fifo) - s) + (i - Len(fifo)) - 1 = i - s - 1
        BY <2>2, <1>1
      <4>. QED  BY <4>2, <4>3, <4>4
    <3>. QED  BY <3>1, <3>2, <2>2, <1>1
  <2>5. (Len(fifo) + n - s) % Period = burst' % Period
    <3> DEFINE a == Len(fifo) - s
    <3>1. a \in Int /\ burst % Period = a % Period /\ n \in Int
      BY <2>2, <2>3
    <3>2. a + n = Len(fifo) + n - s
      BY <1>1, <2>2
    <3> HIDE DEF a
    <3>3. (burst + n) % Period = (a + n) % Period
      BY <1>2, <3>1, Congruent
    <3>. QED  BY <3>2, <3>3, <1>3
  <2>6. fifo'[s] = fifo[s] /\ (s > 1 => fifo'[s - 1] = fifo[s - 1])
        /\ \A i \in 1 .. s - 2 : fifo'[i] = fifo[i]
    BY <2>2, <1>1
  <2>7. PendingAt(s)'
    BY <2>1, <2>4, <2>5, <2>6, <1>1 DEF PendingAt, IsSample
  <2>8. s \in 1 .. Data'
    BY <2>2, <1>1
  <2>. QED  BY <2>7, <2>8, <1>5 DEF Pending
<1>6. ASSUME OnAir PROVE OnAir'
  <2>1. burst % Period = (phase + Len(fifo)) % Period /\ phase + Len(fifo) \in Int
    BY <1>1, <1>2, <1>6 DEF OnAir
  <2>2. ASSUME NEW i \in 1 .. Len(fifo) + n PROVE fifo'[i] = Smp((phase + i - 1) % Period)
    <3>1. CASE i <= Len(fifo)
      BY <3>1, <1>1, <1>6 DEF OnAir
    <3>2. CASE i > Len(fifo)
      <4>1. i \in Len(fifo) + 1 .. Len(fifo) + n
        BY <3>2, <1>1
      <4>2. fifo'[i] = BurstSample(i - Len(fifo)) /\ i - Len(fifo) \in Int
        BY <4>1, <1>4
      <4>3. BurstSample(i - Len(fifo)) = Smp(((phase + Len(fifo)) + (i - Len(fifo)) - 1) % Period)
        BY <4>2, <2>1, GoesOn
      <4>4. (phase + Len(fifo)) + (i - Len(fifo)) - 1 = phase + i - 1
        BY <1>1, <1>2
      <4>. QED  BY <4>2, <4>3, <4>4
    <3>. QED  BY <3>1, <3>2, <1>1
  <2>3. (phase + (Len(fifo) + n)) % Period = burst' % Period
    <3> DEFINE a == phase + Len(fifo)
    <3>1. a \in Int /\ burst % Period = a % Period /\ n \in Int
      BY <2>1
    <3>2. a + n = phase + (Len(fifo) + n)
      BY <1>1, <1>2
    <3> HIDE DEF a
    <3>3. (burst + n) % Period = (a + n) % Period
      BY <1>2, <3>1, Congruent
    <3>. QED  BY <3>2, <3>3, <1>3
  <2>. QED  BY <2>2, <2>3, <1>1, <1>6 DEF OnAir
<1>7. ASSUME Dropping PROVE Dropping'
  <2>1. ASSUME NEW i \in 1 .. Len(fifo) + n PROVE fifo'[i].kind = "sample"
    <3>1. CASE i <= Len(fifo)
      BY <3>1, <1>1, <1>7 DEF Dropping, IsSample
    <3>2. CASE i > Len(fifo)
      <4>1. fifo'[i] = BurstSample(i - Len(fifo))
        BY <3>2, <1>1, <1>4
      <4>. QED  BY <4>1, Kinds DEF BurstSample
    <3>. QED  BY <3>1, <3>2, <1>1
  <2>. QED  BY <2>1, <1>1, <1>7 DEF Dropping, IsSample
<1>. QED  BY <1>3, <1>5, <1>6, <1>7 DEF Going, EndIsLast

(* A burst begins, with the signal's first sample. *)
LEMMA Begun ==
  ASSUME TypeOK, Quiet, StartAligned, txpc = "send", txpc' = "drain",
         UNCHANGED <<phase, mode, bugAck, async>>,
         NEW n \in Nat, n > 0, fifo' \in Seq(Packets), Len(fifo') = Len(fifo) + 1 + n,
         \A i \in 1 .. Len(fifo) : fifo'[i] = fifo[i],
         fifo'[Len(fifo) + 1] = Start(wait),
         \A k \in 1 .. n : fifo'[Len(fifo) + 1 + k] = BurstSample(k),
         burst' = Advanced(burst, n)
  PROVE  Going'
<1> DEFINE s == Len(fifo) + 1
<1>1. Len(fifo) \in Nat /\ Data' = Len(fifo) + 1 + n /\ s \in Nat /\ s >= 1 /\ s \in 1 .. Data'
  BY Types DEF Data
<1>2. burst = 0 /\ 0 \in 0 .. Period /\ burst % Period = 0 % Period
  BY Constants DEF Quiet
<1>3. burst' # 0 /\ burst' % Period = (0 + n) % Period
  BY <1>2, AdvancedFacts
<1>4. ASSUME NEW i \in s + 1 .. Len(fifo) + 1 + n PROVE fifo'[i] = Smp((i - s - 1) % Period)
  <2>1. i - s \in 1 .. n /\ Len(fifo) + 1 + (i - s) = i /\ i - s \in Int
    BY <1>1
  <2>2. fifo'[i] = BurstSample(i - s)
    BY <2>1
  <2>3. BurstSample(i - s) = Smp((0 + (i - s) - 1) % Period)
    BY <2>1, <1>2, GoesOn
  <2>4. 0 + (i - s) - 1 = i - s - 1
    BY <2>1
  <2>. QED  BY <2>2, <2>3, <2>4
<1>5. fifo'[s].kind = "start" /\ fifo'[s].wait = wait
  BY Kinds
<1>6. wait = -1 \/ (phase + wait) % Period = 0
  BY <1>2 DEF StartAligned
<1>7. s > 1 => mode' = "drop" /\ bugAck' /\ fifo'[s - 1] = Eob
  <2> SUFFICES ASSUME s > 1 PROVE mode = "drop" /\ bugAck /\ fifo'[s - 1] = Eob
    OBVIOUS
  <2>1. fifo # <<>> /\ s - 1 = Len(fifo) /\ Len(fifo) \in 1 .. Len(fifo)
    <3>1. Len(fifo) >= 1 /\ Len(<<>>) = 0
      BY <1>1
    <3>. QED  BY <3>1, <1>1
  <2>. QED  BY <2>1 DEF Quiet
<1>8. ASSUME NEW i \in 1 .. s - 2 PROVE fifo'[i].kind = "sample"
  <2>1. i \in 1 .. Len(fifo) - 1 /\ i \in 1 .. Len(fifo) /\ fifo # <<>>
    <3>1. i \in 1 .. Len(fifo) - 1 /\ Len(fifo) >= 1 /\ Len(<<>>) = 0
      BY <1>1
    <3>. QED  BY <3>1, <1>1
  <2>. QED  BY <2>1 DEF Quiet, IsSample
<1>9. burst' % Period = (Data' - s) % Period
  <2>1. Data' - s = 0 + n
    BY <1>1
  <2>. QED  BY <2>1, <1>3
<1>10. \E t \in 1 .. Data' : PendingAt(t)'
  <2>1. PICK t \in Nat : t = Len(fifo) + 1
    BY <1>1
  <2>2. /\ t \in 1 .. Data' /\ Data' = Len(fifo) + 1 + n
        /\ fifo'[t].kind = "start"
        /\ fifo'[t].wait = -1 \/ (phase' + fifo'[t].wait) % Period = 0
        /\ \A i \in t + 1 .. Data' : fifo'[i] = Smp((i - t - 1) % Period)
        /\ t > 1 => mode' = "drop" /\ bugAck' /\ fifo'[t - 1] = Eob
        /\ \A i \in 1 .. t - 2 : fifo'[i].kind = "sample"
        /\ burst' % Period = (Data' - t) % Period
    BY <2>1, <1>1, <1>4, <1>5, <1>6, <1>7, <1>8, <1>9
  <2>3. PendingAt(t)'
    BY <2>2 DEF PendingAt, IsSample
  <2>. QED  BY <2>2, <2>3
<1>11. Pending'
  BY <1>10 DEF Pending, Quiet
<1>. QED  BY <1>3, <1>11 DEF Going, EndIsLast

LEMMA TxSendStep == ASSUME TypeOK, InTime, TxSend PROVE InTime'
<1>0. /\ txpc = "send" /\ txpc' = "drain"
      /\ UNCHANGED <<phase, mode, bugAck, async>> /\ UNCHANGED air
  BY Zenon DEF TxSend, devVars
<1>1. air'.idx = air'.at /\ StartAligned'
  BY <1>0 DEF InTime, StartAligned
<1>2. PICK n \in 0 .. Chunk, first \in StartsOfBurst, m \in {0, 1} :
        /\ m = 1 <=> burst = 0 /\ n > 0
        /\ fifo' \in Seq(Packets) /\ Len(fifo') = Len(fifo) + m + n /\ Len(fifo') <= Room
        /\ \A i \in 1 .. Len(fifo) : fifo'[i] = fifo[i]
        /\ m = 1 => fifo'[Len(fifo) + 1] = first
        /\ \A k \in 1 .. n : fifo'[Len(fifo) + m + k] = BurstSample(k)
        /\ burst' = Advanced(burst, n)
        /\ n = Chunk \/ InProgress
  BY Sent
<1>3. n \in Nat /\ Len(fifo) \in Nat
  BY Types, Constants
<1>4. CASE Going
  <2>1. m = 0
    BY <1>2, <1>4 DEF Going
  <2>2. /\ Len(fifo') = Len(fifo) + n
        /\ \A k \in 1 .. n : fifo'[Len(fifo) + k] = BurstSample(k)
    BY <2>1, <1>2, <1>3
  <2>3. Going'
    BY <2>2, <1>0, <1>2, <1>3, <1>4, Continued
  <2>. QED  BY <2>3, <1>1 DEF InTime
<1>5. CASE Quiet
  <2>1. ~InProgress
    <3>1. ASSUME NEW i \in DOMAIN fifo PROVE fifo[i].kind \in {"sample", "eob"}
      <4>1. i \in 1 .. Len(fifo) /\ fifo # <<>>
        BY Types
      <4>2. i \in 1 .. Len(fifo) - 1 \/ i = Len(fifo)
        BY <4>1, <1>3
      <4>. QED  BY <4>1, <4>2, <1>5, Kinds DEF Quiet, IsSample
    <3>. QED  BY <3>1, <1>5 DEF InProgress, Starts, Quiet
  <2>2. n > 0 /\ m = 1 /\ first = Start(wait)
    <3>1. n = Chunk /\ burst = 0 /\ first = Start(wait)
      BY <2>1, <1>2, <1>5 DEF StartsOfBurst, Quiet
    <3>. QED  BY <3>1, <1>2, Constants
  <2>3. Going'
    BY <2>2, <1>0, <1>2, <1>3, <1>5, Begun DEF InTime
  <2>. QED  BY <2>3, <1>1 DEF InTime
<1>. QED  BY <1>0, <1>4, <1>5 DEF InTime, Failed, Ended

-----------------------------------------------------------------------------
(* The theorems *)

LEMMA InitIInv == Init => IInv
<1> SUFFICES ASSUME Init PROVE IInv
  OBVIOUS
<1>1. Quiet /\ StartAligned /\ air.idx = air.at
  BY DEF Init, Quiet, StartAligned
<1>. QED  BY <1>1, TypeInit DEF IInv, InTime

LEMMA NextIInv == IInv /\ [Next]_vars => IInv'
<1> SUFFICES ASSUME IInv, [Next]_vars PROVE IInv'
  OBVIOUS
<1>1. TypeOK /\ TypeOK'
  BY TypeStep DEF IInv
<1>2. late => late'
  <2>1. late \in BOOLEAN
    BY <1>1, Types
  <2>. QED
    BY <2>1, Zenon DEF Next, vars, hostVars, DevStep, DevIdle, DevStart, DevTransmit,
       DevStartUntimed, DevError, DevDrop, DevEob, TxStep, TxTop, TxSend, TxDrain, TxDrained,
       TxEob, TxEobLost, TxAck, TxBurstEnded, TxMute, TxMuted, TxUnmute, ToggleMute, TxStop
<1> SUFFICES ASSUME InTime PROVE late' \/ InTime'
  BY <1>1, <1>2 DEF IInv
<1>3. CASE DevStep
  BY <1>1, <1>3, DevIdleStep, DevStartStep, DevTransmitStep, DevStartUntimedNever,
     DevErrorStep, DevDropStep, DevEobStep DEF DevStep
<1>4. CASE TxStep
  BY <1>1, <1>4, TxTopStep, TxSendStep, TxDrainStep, TxDrainedStep, TxEobStep, TxAckStep,
     TxBurstEndedStep, TxMuteStep DEF TxStep, TxEobLost
<1>5. CASE ToggleMute \/ TxStop \/ UNCHANGED vars
  <2>1. UNCHANGED <<phase, fifo, mode, air, bugAck, async, txpc, burst, wait, acks>>
    BY <1>5, Zenon DEF ToggleMute, TxStop, vars, devVars, hostVars
  <2>2. /\ UNCHANGED phase /\ UNCHANGED fifo /\ UNCHANGED mode /\ UNCHANGED air
        /\ UNCHANGED bugAck /\ UNCHANGED async /\ UNCHANGED txpc /\ UNCHANGED burst
        /\ UNCHANGED wait /\ UNCHANGED acks
    BY <2>1
  <2>3. Data' = Data
    BY <2>2 DEF Data
  <2>4. Pending => Pending'
    BY <2>2, <2>3 DEF Pending, PendingAt, IsSample
  <2>5. /\ OnAir => OnAir'
        /\ Dropping => Dropping'
        /\ EndIsLast => EndIsLast'
    BY <2>2, <2>3 DEF OnAir, Dropping, IsSample, EndIsLast
  <2>6. /\ Going => Going'
        /\ Failed => Failed'
    BY <2>2, <2>4, <2>5 DEF Going, Failed
  <2>7. /\ Ended => Ended'
        /\ Quiet => Quiet'
        /\ StartAligned => StartAligned'
    BY <2>2 DEF Ended, Quiet, IsSample, StartAligned
  <2>. QED  BY <2>2, <2>6, <2>7 DEF InTime
<1>. QED  BY <1>3, <1>4, <1>5 DEF Next

(* Whatever the USRP, the worker and main() do in whatever order, a burst  *)
(* is quiet, going, failed or ended, and the FIFO holds what belongs to it. *)
THEOREM Invariance == Spec => []IInv
<1>. QED  BY InitIInv, NextIInv, PTL DEF Spec

(* Type correctness, with a FIFO that is never filled beyond its room. *)
THEOREM TypeCorrect == Spec => []TypeOK
<1>1. IInv => TypeOK
  BY DEF IInv
<1>. QED  BY <1>1, Invariance, PTL

(* The sample on the air belongs to the phase of the device's clock, for   *)
(* any period and block size, on every device, after any errors.           *)
THEOREM Coherence == Spec => []Coherent
<1>1. IInv => Coherent
  BY DEF IInv, InTime, Coherent
<1>. QED  BY <1>1, Invariance, PTL

(* A burst starts only when the one before it is over, on every device and *)
(* after any errors.                                                       *)
THEOREM NoOverlap == Spec => []BurstsDoNotOverlap
<1>1. IInv => BurstsDoNotOverlap
  BY OneStart DEF IInv, InTime, BurstsDoNotOverlap
<1>. QED  BY <1>1, Invariance, PTL

(* A muted transmitter is silent. *)
THEOREM Silence == Spec => []SilentWhenMuted
<1>1. IInv => SilentWhenMuted
  BY OneStart DEF IInv, InTime, SilentWhenMuted, InProgress, Going, Failed, Ended
<1>. QED  BY <1>1, Invariance, PTL
=============================================================================
