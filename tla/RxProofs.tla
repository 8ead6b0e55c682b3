------------------------------ MODULE RxProofs ------------------------------
(***************************************************************************)
(* Theorems about Rx, for any number of channels, buffer size, packet size *)
(* and stream length.                                                      *)
(***************************************************************************)
EXTENDS Rx, TLAPS

rxAll == <<ringVars, rxVars>>

(***************************************************************************)
(* Arithmetic of positions and slots.                                      *)
(***************************************************************************)

LEMMA SizeFacts == Size \in Nat /\ Size >= 1 /\ MaxPkt \in Nat /\ MaxPkt <= Size
                   /\ MaxPkt >= 1 /\ NumChannels \in Nat /\ NumChannels >= 1
BY SizeAssumption, MaxPktAssumption, NumChannelsAssumption

LEMMA SlotType == ASSUME NEW i \in Int PROVE i % Size \in Slots
BY SizeFacts DEF Slots

(* A number is determined by its remainder, once its quotient is fixed. *)
LEMMA Remainder ==
  ASSUME NEW r \in Int, NEW q \in Int, 0 <= r, r < Size
  PROVE  (r + Size * q) % Size = r
BY SizeFacts

(* The slot of position i, counted from the slot of position h. *)
LEMMA SlotDistance ==
  ASSUME NEW i \in Int, NEW h \in Int, NEW d \in Int, 0 <= d, d < Size,
         i - h = d \/ i - h = d - Size
  PROVE  ((i % Size) - h) % Size = d
<1> DEFINE q == i \div Size
<1>1. q \in Int /\ i = Size * q + (i % Size) /\ i % Size \in Int
  BY SizeFacts
<1>2. -q \in Int /\ -q - 1 \in Int
  BY <1>1
<1>3. Size * (-q) = -(Size * q) /\ Size * (-q - 1) = -(Size * q) - Size
  BY <1>1, SizeFacts
<1> HIDE DEF q
<1>4. Size * q \in Int
  BY <1>1, SizeFacts
<1>5. CASE i - h = d
  <2>1. (i % Size) - h = d + Size * (-q)
    BY <1>1, <1>3, <1>4, <1>5
  <2>. QED  BY <2>1, <1>2, Remainder
<1>6. CASE i - h = d - Size
  <2>1. (i % Size) - h = d + Size * (-q - 1)
    BY <1>1, <1>3, <1>4, <1>6, SizeFacts
  <2>. QED  BY <2>1, <1>2, Remainder
<1>. QED  BY <1>5, <1>6

(* Storing n samples from position h on reaches the slots of these n       *)
(* positions, and of none of the Size - n before h.                        *)
LEMMA AheadInside ==
  ASSUME NEW c \in Channels, head[c] \in Nat, NEW n \in 0 .. Size,
         NEW i \in Nat, i >= head[c], i < head[c] + n
  PROVE  Ahead(c, i % Size) = i - head[c]
<1>1. i - head[c] < Size /\ 0 <= i - head[c] /\ i - head[c] \in Int
  BY SizeFacts
<1>. QED  BY <1>1, SlotDistance DEF Ahead

LEMMA AheadOutside ==
  ASSUME NEW c \in Channels, head[c] \in Nat, NEW n \in 0 .. Size,
         NEW i \in Nat, i < head[c], i + Size >= head[c] + n
  PROVE  ~(Ahead(c, i % Size) < n)
<1> DEFINE d == i - head[c] + Size
<1>1. d < Size /\ n <= d /\ 0 <= d /\ d \in Int /\ i - head[c] = d - Size
  BY SizeFacts
<1> HIDE DEF d
<1>2. Ahead(c, i % Size) = d
  BY <1>1, SlotDistance DEF Ahead
<1>. QED  BY <1>1, <1>2

LEMMA SpanLenFacts ==
  ASSUME NEW pos \in Nat, NEW n \in Nat
  PROVE  /\ SpanLen(pos, n) \in 0 .. n /\ SpanLen(pos, n) <= Size
         /\ n > 0 => SpanLen(pos, n) > 0
BY SizeFacts DEF SpanLen

(***************************************************************************)
(* The inductive invariant.                                                *)
(***************************************************************************)

LEMMA InitIInvRx == InitRing /\ InitRx => IInvRx
<1> SUFFICES ASSUME InitRing, InitRx PROVE IInvRx
  OBVIOUS
<1> USE DEF InitRing, InitRx
<1>1. TypeOKRx
  <2>1. head \in [Channels -> Nat] /\ clob \in [Channels -> Nat]
    OBVIOUS
  <2>2. mem \in [Channels -> [Slots -> Samples]]
    BY DEF Zero, Samples
  <2>3. dev \in Int /\ lost \subseteq -1 .. MaxTime
    BY MaxTimeAssumption
  <2>4. rxch \in Channels /\ rxpc \in RxPCs /\ rxMax \in 0 .. MaxPkt
    BY SizeFacts DEF Channels, RxPCs
  <2>5. pkt \in [ts : Int, len : 0 .. MaxPkt]
    BY SizeFacts
  <2>. QED  BY <2>1, <2>2, <2>3, <2>4, <2>5 DEF TypeOKRx
<1>2. Intact
  BY DEF Intact, Written, Channels
<1>3. Progress
  BY DEF Progress, Channels
<1>4. Announced
  BY DEF Announced
<1>5. Timing
  BY MaxTimeAssumption DEF Timing
<1>. QED  BY <1>1, <1>2, <1>3, <1>4, <1>5 DEF IInvRx

(* What is stored stays right as long as nothing is stored and no sample   *)
(* in the buffers is declared lost.                                        *)
LEMMA IntactKept ==
  ASSUME IInvRx, mem' = mem,
         \A c \in Channels : Written(c)' = Written(c) /\ Written(c) <= clob'[c],
         \A c \in Channels : \A i \in 0 .. Written(c) - 1 : i \in lost' <=> i \in lost
  PROVE  Intact'
<1> SUFFICES ASSUME NEW c \in Channels
             PROVE  /\ Written(c)' <= clob'[c]
                    /\ \A i \in 0 .. Written(c)' - 1 : i + Size >= Written(c)'
                         => mem'[c][i % Size].time = TimeAt(i)'
  BY DEF Intact
<1>. QED  BY DEF IInvRx, Intact, TimeAt

LEMMA RxLoopStep == ASSUME IInvRx, RxLoop PROVE IInvRx'
<1> USE DEF RxLoop, IInvRx, ringVars, rxFrame
<1>1. TypeOKRx'
  BY SizeFacts DEF TypeOKRx, RxPCs, Channels, LastChannel
<1>2. Intact'
  <2>1. mem' = mem
    OBVIOUS
  <2>2. \A c \in Channels : Written(c)' = Written(c) /\ Written(c) <= clob'[c]
    BY DEF Written, Intact, TypeOKRx
  <2>3. \A c \in Channels : \A i \in 0 .. Written(c) - 1 : i \in lost' <=> i \in lost
    OBVIOUS
  <2>. QED  BY <2>1, <2>2, <2>3, IntactKept
<1>3. Progress'
  BY DEF Progress, TypeOKRx
<1>4. Announced'
  BY DEF Channels, Announced, TypeOKRx, Remaining, LostSamples, ProducerSpanLen
<1>5. Timing'
  BY DEF Timing, TypeOKRx, Remaining, LostSamples
<1>. QED  BY <1>1, <1>2, <1>3, <1>4, <1>5

LEMMA RxSpanStep == ASSUME IInvRx, RxSpan PROVE IInvRx'
<1> DEFINE n == ProducerSpanLen(rxch, MaxPkt)
<1>0. /\ rxch \in Channels /\ head \in [Channels -> Nat]
      /\ n \in 0 .. MaxPkt
      /\ clob' = [clob EXCEPT ![rxch] = head[rxch] + n]
      /\ rxMax' = IF n < rxMax THEN n ELSE rxMax
      /\ head' = head
  <2>1. rxch \in Channels /\ head \in [Channels -> Nat]
    BY DEF IInvRx, TypeOKRx
  <2>2. n \in 0 .. MaxPkt
    BY <2>1, SizeFacts, SpanLenFacts DEF ProducerSpanLen
  <2>. QED  BY <2>1, <2>2 DEF RxSpan, GetProducerSpan
<1> HIDE DEF n
<1> USE DEF RxSpan, IInvRx, ringVars
<1>1. TypeOKRx'
  <2>1. clob' \in [Channels -> Nat]
    BY <1>0, SizeFacts DEF TypeOKRx
  <2>2. rxMax' \in 0 .. MaxPkt
    BY <1>0, SizeFacts DEF TypeOKRx
  <2>3. rxch' \in Channels /\ rxpc' \in RxPCs
    BY <1>0, SizeFacts DEF TypeOKRx, RxPCs, Channels, LastChannel
  <2>. QED  BY <2>1, <2>2, <2>3 DEF TypeOKRx
<1>2. Intact'
  <2>1. mem' = mem
    OBVIOUS
  <2>2. \A c \in Channels : Written(c)' = Written(c) /\ Written(c) <= clob'[c]
    BY <1>0, SizeFacts DEF Written, Intact, TypeOKRx
  <2>3. \A c \in Channels : \A i \in 0 .. Written(c) - 1 : i \in lost' <=> i \in lost
    OBVIOUS
  <2>. QED  BY <2>1, <2>2, <2>3, IntactKept
<1>3. Progress'
  BY DEF Progress, TypeOKRx
<1>4. Announced'
  <2>1. ASSUME NEW c \in Channels, c <= rxch
        PROVE  head'[c] + rxMax' <= clob'[c]
    <3>1. /\ head \in [Channels -> Nat] /\ clob \in [Channels -> Nat]
          /\ n \in Nat /\ rxMax \in Nat /\ c \in Int /\ rxch \in Int
          /\ clob'[c] = IF c = rxch THEN head[rxch] + n ELSE clob[c]
      BY <1>0, SizeFacts DEF TypeOKRx, Channels
    <3>2. c # rxch => head[c] + rxMax <= clob[c]
      BY <2>1, <3>1 DEF Announced
    <3>3. rxMax' <= n /\ rxMax' <= rxMax /\ rxMax' \in Nat
      BY <1>0, <3>1
    <3>4. head'[c] = head[c] /\ head[c] \in Nat /\ clob[c] \in Nat
      BY <1>0, <3>1
    <3>. QED  BY <3>1, <3>2, <3>3, <3>4
  <2>2. rxpc' = "span" => rxch' = rxch + 1
    OBVIOUS
  <2>3. rxpc' = "recv" => rxch' = 0 /\ rxch = NumChannels - 1
    BY DEF LastChannel
  <2>4. rxpc' \in {"span", "recv"}
    OBVIOUS
  <2>. QED  BY <1>0, <2>1, <2>2, <2>3, <2>4, SizeFacts DEF Announced, Channels
<1>5. Timing'
  BY DEF Timing, TypeOKRx
<1>. QED  BY <1>1, <1>2, <1>3, <1>4, <1>5

LEMMA RxRecvStep == ASSUME IInvRx, RxRecv PROVE IInvRx'
<1> USE DEF IInvRx, ringVars
<1>1. PICK n \in 1 .. rxMax :
        /\ dev + n - 1 <= MaxTime
        /\ pkt' = [ts |-> dev, len |-> n]
        /\ dev' = dev + n
        /\ mem' = IF contiguous
                  THEN [c \in Channels |->
                          Stored(c, n, [d \in 0 .. n - 1 |-> Sample(c, dev + d)])]
                  ELSE mem
  BY DEF RxRecv
<1>2. /\ rxpc = "recv" /\ rxpc' = IF contiguous THEN "produce" ELSE "place"
      /\ UNCHANGED <<head, clob, lost, tsNext, contiguous, rxRun, rxch, rxMax, done>>
  BY DEF RxRecv
<1>3. /\ rxch = 0 /\ rxMax \in 0 .. MaxPkt /\ n \in 1 .. Size /\ n <= MaxPkt
      /\ \A c \in Channels : head[c] = tsNext /\ head[c] \in Nat
      /\ dev \in Int /\ tsNext \in Nat
      /\ contiguous => dev = tsNext
  <2>1. rxch = 0 /\ rxMax \in 0 .. MaxPkt
    BY <1>2 DEF Announced, TypeOKRx
  <2>2. n \in 1 .. Size /\ n <= MaxPkt
    BY <1>1, <2>1, SizeFacts
  <2>3. \A c \in Channels : head[c] = tsNext /\ head[c] \in Nat
    BY <1>2 DEF Progress, TypeOKRx
  <2>. QED  BY <1>2, <2>1, <2>2, <2>3 DEF Timing, TypeOKRx
<1>4. ASSUME contiguous, NEW c \in Channels
      PROVE  mem'[c] = [s \in Slots |-> IF Ahead(c, s) < n
                                        THEN Sample(c, dev + Ahead(c, s))
                                        ELSE mem[c][s]]
  <2>1. ASSUME NEW s \in Slots, Ahead(c, s) < n
        PROVE  Ahead(c, s) \in 0 .. n - 1
    BY <1>3, <2>1, SizeFacts DEF Ahead, Slots
  <2>2. mem'[c] = Stored(c, n, [d \in 0 .. n - 1 |-> Sample(c, dev + d)])
    BY <1>1, <1>4
  <2>. QED  BY <2>1, <2>2 DEF Stored
<1>5. TypeOKRx'
  <2>1. mem' \in [Channels -> [Slots -> Samples]]
    <3>1. CASE contiguous
      <4>1. ASSUME NEW c \in Channels, NEW s \in Slots
            PROVE  Sample(c, dev + Ahead(c, s)) \in Samples
        <5>1. Ahead(c, s) \in Int
          BY <1>3, SizeFacts DEF Ahead, Slots
        <5>2. c \in Int /\ dev + Ahead(c, s) \in Int
          BY <1>3, <5>1, SizeFacts DEF Channels
        <5>. QED  BY <5>2 DEF Sample, Samples
      <4>2. ASSUME NEW c \in Channels
            PROVE  mem'[c] \in [Slots -> Samples]
        <5>1. \A s \in Slots : mem[c][s] \in Samples
          BY DEF TypeOKRx
        <5>2. mem'[c] = [s \in Slots |-> IF Ahead(c, s) < n
                                        THEN Sample(c, dev + Ahead(c, s))
                                        ELSE mem[c][s]]
          BY <1>4, <3>1
        <5>. QED  BY <4>1, <5>1, <5>2
      <4>3. mem' = [c \in Channels |-> mem'[c]]
        BY <1>1, <3>1
      <4>. QED  BY <4>2, <4>3
    <3>2. CASE ~contiguous
      BY <1>1, <3>2 DEF TypeOKRx
    <3>. QED  BY <3>1, <3>2
  <2>2. pkt' \in [ts : Int, len : 0 .. MaxPkt] /\ dev' \in Int
    BY <1>1, <1>3, SizeFacts
  <2>. QED  BY <1>2, <2>1, <2>2 DEF TypeOKRx, RxPCs
<1>6. Intact'
  <2>1. CASE contiguous
    <3> SUFFICES ASSUME NEW c \in Channels
                 PROVE  /\ Written(c)' <= clob'[c]
                        /\ \A i \in 0 .. Written(c)' - 1 : i + Size >= Written(c)'
                             => mem'[c][i % Size].time = TimeAt(i)'
      BY DEF Intact
    <3>0. Written(c)' = head[c] + n /\ clob' = clob /\ lost' = lost
      BY <1>1, <1>2, <1>3, <2>1 DEF Written, Channels
    <3>1. head[c] + n <= clob[c]
      BY <1>1, <1>2, <1>3, <2>1 DEF Announced, TypeOKRx
    <3>2. ASSUME NEW i \in 0 .. head[c] + n - 1, i + Size >= head[c] + n
          PROVE  mem'[c][i % Size].time = TimeAt(i)
      <4>0. i \in Nat /\ i % Size \in Slots /\ head[c] \in Nat /\ n \in 0 .. Size
        BY <1>3, SlotType, SizeFacts
      <4>1. CASE i >= head[c]
        <5>1. Ahead(c, i % Size) = i - head[c]
          BY <4>0, <4>1, AheadInside
        <5>2. i - head[c] < n
          BY <4>0, <3>2
        <5>3. mem'[c][i % Size] = Sample(c, dev + (i - head[c]))
          <6> DEFINE s == i % Size
          <6>1. s \in Slots /\ Ahead(c, s) = i - head[c] /\ Ahead(c, s) < n
            BY <4>0, <5>1, <5>2
          <6> HIDE DEF s
          <6>2. mem'[c][s] = Sample(c, dev + Ahead(c, s))
            BY <1>4, <2>1, <6>1
          <6>. QED  BY <6>1, <6>2 DEF s
        <5>4. dev + (i - head[c]) = i
          BY <1>3, <2>1, <4>0
        <5>5. i \notin lost
          BY <1>3, <2>1, <4>0, <4>1 DEF Timing
        <5>. QED  BY <5>3, <5>4, <5>5 DEF Sample, TimeAt
      <4>2. CASE i < head[c]
        <5>1. ~(Ahead(c, i % Size) < n)
          BY <4>0, <4>2, <3>2, AheadOutside
        <5>2. mem'[c][i % Size] = mem[c][i % Size]
          BY <1>4, <2>1, <4>0, <5>1
        <5>3. Written(c) = head[c]
          BY <1>2, <1>3 DEF Written
        <5>4. i \in 0 .. Written(c) - 1 /\ i + Size >= Written(c)
          BY <3>2, <4>0, <4>2, <5>3, SizeFacts
        <5>. QED  BY <5>2, <5>4 DEF Intact
      <4>. QED  BY <4>0, <4>1, <4>2
    <3>3. \A i \in Int : TimeAt(i)' = TimeAt(i)
      BY <3>0 DEF TimeAt
    <3>. QED  BY <1>3, <3>0, <3>1, <3>2, <3>3
  <2>2. CASE ~contiguous
    <3>1. mem' = mem
      BY <1>1, <2>2
    <3>2. \A c \in Channels : Written(c)' = Written(c) /\ Written(c) <= clob'[c]
      BY <1>2, <2>2 DEF Written, Intact, TypeOKRx
    <3>. QED  BY <1>2, <3>1, <3>2, IntactKept
  <2>. QED  BY <2>1, <2>2
<1>7. Progress'
  <2>1. \A c \in Channels : head'[c] = tsNext' /\ ~(c < rxch')
    BY <1>2, <1>3, SizeFacts DEF Channels
  <2>. QED  BY <1>2, <2>1 DEF Progress
<1>8. Announced'
  BY <1>2 DEF Announced
<1>9. Timing'
  <2>1. pkt'.ts = dev /\ pkt'.len = n
    BY <1>1
  <2>2. dev' = dev + n /\ dev' >= -1 /\ dev' <= MaxTime + 1 /\ n >= 1
    BY <1>1, <1>3, MaxTimeAssumption DEF Timing
  <2>3. \A t \in lost : t < dev /\ t < dev'
    BY <1>3, <2>2 DEF Timing, TypeOKRx
  <2>4. dev' < tsNext' => dev' = -1 /\ tsNext' = 0
    BY <1>2, <1>3, <2>2 DEF Timing
  <2>. QED  BY <1>2, <1>3, <2>1, <2>2, <2>3, <2>4 DEF Timing
<1>. QED  BY <1>5, <1>6, <1>7, <1>8, <1>9

LEMMA RxRecvNoneStep == ASSUME IInvRx, RxRecvNone PROVE IInvRx'
<1> USE DEF RxRecvNone, IInvRx, ringVars, rxFrame
<1>1. TypeOKRx'
  BY SizeFacts DEF TypeOKRx, RxPCs, Channels, LastChannel
<1>2. Intact'
  <2>1. mem' = mem
    OBVIOUS
  <2>2. \A c \in Channels : Written(c)' = Written(c) /\ Written(c) <= clob'[c]
    BY DEF Written, Intact, TypeOKRx
  <2>3. \A c \in Channels : \A i \in 0 .. Written(c) - 1 : i \in lost' <=> i \in lost
    OBVIOUS
  <2>. QED  BY <2>1, <2>2, <2>3, IntactKept
<1>3. Progress'
  BY DEF Progress, TypeOKRx
<1>4. Announced'
  BY DEF Channels, Announced, TypeOKRx, Remaining, LostSamples, ProducerSpanLen
<1>5. Timing'
  BY DEF Timing, TypeOKRx, Remaining, LostSamples
<1>. QED  BY <1>1, <1>2, <1>3, <1>4, <1>5

LEMMA RxOverflowStep == ASSUME IInvRx, RxOverflow PROVE IInvRx'
<1> USE DEF IInvRx, ringVars
<1>0. /\ rxpc = "recv" /\ rxpc' = "loop" /\ contiguous' = FALSE
      /\ UNCHANGED <<ringVars, tsNext, rxRun, rxch, rxMax, pkt, done>>
  BY DEF RxOverflow
<1>1. PICK n \in 0 .. MaxLost + 1 :
        /\ dev + n <= MaxTime
        /\ dev' = dev + n
        /\ lost' = lost \cup dev .. dev + n - 1
  BY DEF RxOverflow
<1>2. /\ dev \in Int /\ dev >= -1 /\ tsNext \in Nat /\ n \in Int /\ n >= 0
      /\ lost \subseteq -1 .. MaxTime /\ MaxTime \in Nat
  BY MaxTimeAssumption, MaxLostAssumption DEF TypeOKRx, Timing
<1>3. TypeOKRx'
  <2>1. dev' \in Int /\ lost' \subseteq -1 .. MaxTime
    BY <1>1, <1>2
  <2>. QED  BY <1>0, <2>1 DEF TypeOKRx, RxPCs
<1>4. Intact'
  <2>1. \A c \in Channels : Written(c) = tsNext /\ Written(c)' = Written(c)
    BY <1>0 DEF Written, Progress, TypeOKRx
  <2>2. \A c \in Channels : \A i \in 0 .. Written(c) - 1 : i \in lost' <=> i \in lost
    <3>1. dev < tsNext => tsNext = 0
      BY DEF Timing
    <3>. QED  BY <1>1, <1>2, <2>1, <3>1
  <2>. QED  BY <1>0, <2>1, <2>2, IntactKept DEF Intact
<1>5. Progress'
  BY <1>0 DEF Progress, TypeOKRx
<1>6. Announced'
  BY <1>0 DEF Announced
<1>7. Timing'
  <2>1. dev' >= -1 /\ dev' <= MaxTime + 1
    BY <1>1, <1>2
  <2>2. dev' < tsNext' => dev' = -1 /\ tsNext' = 0
    BY <1>0, <1>1, <1>2 DEF Timing
  <2>3. \A t \in lost' : t < dev'
    BY <1>1, <1>2 DEF Timing
  <2>4. tsNext' .. dev' - 1 \subseteq lost'
    <3>1. tsNext .. dev - 1 \subseteq lost
      BY <1>0 DEF Timing
    <3>. QED  BY <1>0, <1>1, <1>2, <3>1
  <2>. QED  BY <1>0, <2>1, <2>2, <2>3, <2>4 DEF Timing
<1>. QED  BY <1>3, <1>4, <1>5, <1>6, <1>7

LEMMA RxFatalStep == ASSUME IInvRx, RxFatal PROVE IInvRx'
<1> USE DEF RxFatal, IInvRx, ringVars, rxFrame
<1>1. TypeOKRx'
  BY SizeFacts DEF TypeOKRx, RxPCs, Channels, LastChannel
<1>2. Intact'
  <2>1. mem' = mem
    OBVIOUS
  <2>2. \A c \in Channels : Written(c)' = Written(c) /\ Written(c) <= clob'[c]
    BY DEF Written, Intact, TypeOKRx
  <2>3. \A c \in Channels : \A i \in 0 .. Written(c) - 1 : i \in lost' <=> i \in lost
    OBVIOUS
  <2>. QED  BY <2>1, <2>2, <2>3, IntactKept
<1>3. Progress'
  BY DEF Progress, TypeOKRx
<1>4. Announced'
  BY DEF Channels, Announced, TypeOKRx, Remaining, LostSamples, ProducerSpanLen
<1>5. Timing'
  BY DEF Timing, TypeOKRx, Remaining, LostSamples
<1>. QED  BY <1>1, <1>2, <1>3, <1>4, <1>5

LEMMA RxProduceStep == ASSUME IInvRx, RxProduce PROVE IInvRx'
<1> USE DEF IInvRx, ringVars
<1>0. /\ rxpc = "produce"
      /\ head' = [head EXCEPT ![rxch] = @ + pkt.len]
      /\ \/ /\ rxch = NumChannels - 1 /\ rxpc' = "loop" /\ rxch' = 0
            /\ tsNext' = tsNext + pkt.len
         \/ /\ rxch # NumChannels - 1 /\ rxpc' = "produce" /\ rxch' = rxch + 1
            /\ tsNext' = tsNext
      /\ UNCHANGED <<clob, mem, dev, lost, contiguous, rxRun, rxMax, pkt, done>>
  BY DEF RxProduce, Produce, LastChannel
<1>1. /\ rxch \in 0 .. NumChannels - 1 /\ head \in [Channels -> Nat]
      /\ pkt.len \in Nat /\ tsNext \in Nat
      /\ Channels = 0 .. NumChannels - 1
  BY SizeFacts DEF TypeOKRx, Channels
<1>2. \A c \in Channels : head[c] = IF c < rxch THEN tsNext + pkt.len ELSE tsNext
  BY <1>0 DEF Progress
<1>3. TypeOKRx'
  <2>1. head' \in [Channels -> Nat] /\ tsNext' \in Nat
    BY <1>0, <1>1
  <2>2. rxch' \in Channels
    BY <1>0, <1>1, SizeFacts
  <2>. QED  BY <1>0, <2>1, <2>2 DEF TypeOKRx, RxPCs
<1>4. ASSUME NEW c \in Channels
      PROVE  head'[c] = IF c <= rxch THEN tsNext + pkt.len ELSE tsNext
  BY <1>0, <1>1, <1>2, <1>4
<1>5. Intact'
  <2>1. ASSUME NEW c \in Channels PROVE Written(c)' = Written(c)
    <3>1. Written(c) = tsNext + pkt.len
      BY <1>0, <1>1, <1>2 DEF Written
    <3>2. Written(c)' = tsNext + pkt.len
      BY <1>0, <1>1, <1>4, SizeFacts DEF Written
    <3>. QED  BY <3>1, <3>2
  <2>. QED  BY <1>0, <2>1, IntactKept DEF Intact
<1>6. Progress'
  BY <1>0, <1>1, <1>4, SizeFacts DEF Progress
<1>7. Announced'
  BY <1>0 DEF Announced
<1>8. Timing'
  <2>1. contiguous /\ dev = tsNext + pkt.len
    BY <1>0 DEF Timing
  <2>. QED  BY <1>0, <1>1, <2>1 DEF Timing, TypeOKRx
<1>. QED  BY <1>3, <1>5, <1>6, <1>7, <1>8

LEMMA RxPlaceStep == ASSUME IInvRx, RxPlace PROVE IInvRx'
<1> USE DEF IInvRx, ringVars
<1>0. /\ rxpc = "place" /\ rxch' = 0 /\ done' = 0
      /\ \/ rxpc' = "drain" /\ rxRun' = FALSE
         \/ rxpc' = "pad" /\ rxRun' = rxRun /\ LostSamples <= MaxLost
      /\ UNCHANGED <<ringVars, dev, lost, tsNext, contiguous, rxMax, pkt>>
  <2>1. LostSamples \in Int /\ MaxLost \in Int
    BY WordAssumption, MaxLostAssumption, MaxTimeAssumption DEF LostSamples, TypeOKRx
  <2>. QED  BY <2>1 DEF RxPlace
<1>1. TypeOKRx'
  <2>1. rxch' \in Channels /\ rxpc' \in RxPCs /\ done' \in Nat
    BY <1>0, SizeFacts DEF RxPCs, Channels
  <2>2. rxRun' \in BOOLEAN
    BY <1>0 DEF TypeOKRx
  <2>. QED  BY <1>0, <2>1, <2>2 DEF TypeOKRx
<1>2. Intact'
  <2>1. \A c \in Channels : Written(c)' = Written(c) /\ Written(c) <= clob'[c]
    BY <1>0 DEF Written, Intact, TypeOKRx
  <2>. QED  BY <1>0, <2>1, IntactKept
<1>3. Progress'
  <2>1. \A c \in Channels : head[c] = tsNext /\ ~(c < 0) /\ tsNext + 0 = tsNext
    BY <1>0 DEF Progress, Channels, TypeOKRx
  <2>. QED  BY <1>0, <2>1 DEF Progress
<1>4. Announced'
  BY <1>0 DEF Announced
<1>5. ASSUME rxpc' = "pad"
      PROVE  pkt.ts >= tsNext /\ LostSamples = pkt.ts - tsNext /\ LostSamples >= 0
  <2>1. /\ pkt.ts \in Int /\ tsNext \in Nat /\ pkt.len \in Nat
        /\ pkt.ts < tsNext => pkt.ts = -1 /\ tsNext = 0
        /\ dev = pkt.ts + pkt.len /\ dev <= MaxTime + 1
        /\ LostSamples <= MaxLost
    BY <1>0, <1>5, SizeFacts DEF Timing, TypeOKRx
  <2>2. /\ Word \in Nat /\ Word > MaxLost + MaxTime + 1
        /\ MaxLost \in Nat /\ MaxTime \in Nat
    BY WordAssumption, MaxLostAssumption, MaxTimeAssumption
  <2>3. ~(pkt.ts < tsNext)
    <3>1. CASE pkt.ts = -1 /\ tsNext = 0
      <4>1. (-1) % Word = Word - 1
        BY <2>2
      <4>2. LostSamples = Word - 1
        BY <3>1, <4>1 DEF LostSamples
      <4>. QED  BY <2>1, <2>2, <4>2
    <3>. QED  BY <2>1, <3>1
  <2>4. pkt.ts - tsNext \in 0 .. Word - 1
    BY <2>1, <2>2, <2>3
  <2>5. LostSamples = pkt.ts - tsNext
    BY <2>2, <2>4 DEF LostSamples
  <2>. QED  BY <2>1, <2>3, <2>5
<1>6. Timing'
  <2>1. Remaining' = IF rxpc' \in {"pad", "padding"} THEN LostSamples' - 0 ELSE pkt.len - 0
    BY <1>0 DEF Remaining
  <2>2. LostSamples' = LostSamples
    BY <1>0 DEF LostSamples
  <2>3. rxpc' = "pad" => Remaining' >= 0
    BY <1>5, <2>1, <2>2 DEF TypeOKRx
  <2>4. rxpc' \in {"pad", "drain"}
    BY <1>0
  <2>. QED  BY <1>0, <1>5, <2>2, <2>3, <2>4 DEF Timing
<1>. QED  BY <1>1, <1>2, <1>3, <1>4, <1>6

(* Samples that are left, during padding and copying. *)
LEMMA RemainingFacts ==
  ASSUME IInvRx, rxpc \in {"pad", "padding", "copy", "copying"}
  PROVE  /\ Remaining \in Nat
         /\ pkt.ts \in Nat /\ pkt.len \in Nat /\ LostSamples = pkt.ts - tsNext
         /\ ProducerSpanLen(rxch, Remaining) \in 0 .. Remaining
         /\ ProducerSpanLen(rxch, Remaining) <= Size
         /\ rxch \in Channels /\ head[rxch] \in Nat /\ done \in Nat /\ tsNext \in Nat
<1>1. /\ pkt.ts \in Int /\ pkt.len \in Nat /\ done \in Nat /\ tsNext \in Nat
      /\ rxch \in Channels /\ head[rxch] \in Nat
  BY SizeFacts DEF IInvRx, TypeOKRx
<1>2. pkt.ts >= tsNext /\ LostSamples = pkt.ts - tsNext /\ Remaining >= 0
  BY DEF IInvRx, Timing
<1>3. Remaining \in Nat
  BY <1>1, <1>2 DEF Remaining
<1>4. /\ ProducerSpanLen(rxch, Remaining) \in 0 .. Remaining
      /\ ProducerSpanLen(rxch, Remaining) <= Size
  BY <1>1, <1>3, SpanLenFacts DEF ProducerSpanLen
<1>5. pkt.ts \in Nat
  BY <1>1, <1>2
<1>. QED  BY <1>1, <1>2, <1>3, <1>4, <1>5

LEMMA RxFillSpanStep == ASSUME IInvRx, RxFillSpan PROVE IInvRx'
<1> USE DEF IInvRx, ringVars, rxFrame
<1> DEFINE n == ProducerSpanLen(rxch, Remaining)
<1>0. /\ rxpc \in {"pad", "copy"} /\ Remaining > 0
      /\ clob' = [clob EXCEPT ![rxch] = head[rxch] + n]
      /\ rxpc' = IF rxpc = "pad" THEN "padding" ELSE "copying"
      /\ UNCHANGED <<head, mem, rxFrame, rxch, done>>
  BY DEF RxFillSpan, GetProducerSpan
<1>1. n \in Nat /\ rxch \in Channels /\ head[rxch] \in Nat
  BY <1>0, RemainingFacts
<1>2. Remaining' = Remaining /\ LostSamples' = LostSamples /\ n' = n
  <2>1. LostSamples' = LostSamples
    BY <1>0 DEF LostSamples
  <2>2. Remaining' = Remaining
    BY <1>0, <2>1 DEF Remaining
  <2>. QED  BY <1>0, <2>1, <2>2 DEF ProducerSpanLen
<1> HIDE DEF n
<1>3. TypeOKRx'
  <2>1. clob' \in [Channels -> Nat]
    BY <1>0, <1>1 DEF TypeOKRx
  <2>. QED  BY <1>0, <2>1 DEF TypeOKRx, RxPCs
<1>4. Intact'
  <2>1. \A c \in Channels : Written(c)' = Written(c) /\ Written(c) <= clob'[c]
    BY <1>0, <1>1 DEF Written, Intact, TypeOKRx
  <2>. QED  BY <1>0, <2>1, IntactKept
<1>5. Progress'
  BY <1>0 DEF Progress
<1>6. Announced'
  <2>1. head'[rxch'] + n' <= clob'[rxch']
    BY <1>0, <1>1, <1>2 DEF TypeOKRx
  <2>. QED  BY <1>0, <1>2, <2>1 DEF Announced, n
<1>7. Timing'
  BY <1>0, <1>2 DEF Timing
<1>. QED  BY <1>3, <1>4, <1>5, <1>6, <1>7

LEMMA RxFillStep == ASSUME IInvRx, RxFill PROVE IInvRx'
<1> USE DEF IInvRx, ringVars, rxFrame
<1> DEFINE n == ProducerSpanLen(rxch, Remaining)
           new == [d \in 0 .. n - 1 |-> IF rxpc = "padding" THEN Zero ELSE Copied(d)]
<1>0. /\ rxpc \in {"padding", "copying"}
      /\ mem' = [mem EXCEPT ![rxch] = Stored(rxch, n, new)]
      /\ head' = [head EXCEPT ![rxch] = @ + n]
      /\ done' = done + n
      /\ rxpc' = IF rxpc = "padding" THEN "pad" ELSE "copy"
      /\ UNCHANGED <<clob, rxFrame, rxch>>
  BY DEF RxFill, Produce
<1>1. /\ n \in 0 .. Remaining /\ n \in 0 .. Size /\ Remaining \in Nat
      /\ rxch \in Channels /\ head[rxch] \in Nat /\ done \in Nat
      /\ pkt.ts \in Nat /\ pkt.len \in Nat /\ LostSamples = pkt.ts - tsNext /\ tsNext \in Nat
      /\ head \in [Channels -> Nat] /\ clob \in [Channels -> Nat]
  <2>1. /\ Remaining \in Nat /\ n \in 0 .. Remaining /\ n <= Size
        /\ rxch \in Channels /\ head[rxch] \in Nat /\ done \in Nat
        /\ pkt.ts \in Nat /\ pkt.len \in Nat /\ LostSamples = pkt.ts - tsNext /\ tsNext \in Nat
    BY <1>0, RemainingFacts
  <2>2. head \in [Channels -> Nat] /\ clob \in [Channels -> Nat]
    BY DEF TypeOKRx
  <2>. QED  BY <2>1, <2>2, SizeFacts
<1>2. head[rxch] + n <= clob[rxch]
  BY <1>0 DEF Announced
<1>3. head[rxch] = IF rxpc = "padding" THEN tsNext + done ELSE pkt.ts + done
  <2>1. ~(rxch < rxch)
    BY <1>1, SizeFacts DEF Channels
  <2>. QED  BY <1>0, <1>1, <2>1 DEF Progress
<1>4. Remaining = IF rxpc = "padding" THEN pkt.ts - tsNext - done ELSE pkt.len - done
  BY <1>0, <1>1 DEF Remaining
<1>5. \A s \in Slots : mem'[rxch][s] = IF Ahead(rxch, s) < n THEN new[Ahead(rxch, s)]
                                                             ELSE mem[rxch][s]
  BY <1>0, <1>1 DEF Stored, TypeOKRx
<1>6. \A c \in Channels : c # rxch => mem'[c] = mem[c] /\ head'[c] = head[c]
  BY <1>0, <1>1 DEF TypeOKRx
<1>7. head'[rxch] = head[rxch] + n
  BY <1>0, <1>1
<1>8. \A d \in 0 .. n - 1 : new[d] = IF rxpc = "padding" THEN Zero ELSE Copied(d)
  OBVIOUS
<1>9. LostSamples' = LostSamples
  BY <1>0 DEF LostSamples
<1> HIDE DEF n, new
<1>10. Remaining' = Remaining - n
  <2>1. Remaining' = IF rxpc = "padding" THEN LostSamples - done' ELSE pkt.len - done'
    BY <1>0, <1>9 DEF Remaining
  <2>. QED  BY <1>0, <1>1, <1>4, <2>1
<1>11. TypeOKRx'
  <2>1. \A s \in Slots : Ahead(rxch, s) \in Nat
    BY <1>1, SizeFacts DEF Ahead, Slots
  <2>2. \A d \in 0 .. n - 1 : new[d] \in Samples
    <3>1. Zero \in Samples
      BY DEF Zero, Samples
    <3>2. \A d \in 0 .. n - 1 : Copied(d) \in Samples
      BY <1>1 DEF Copied, Sample, Samples
    <3>. QED  BY <1>8, <3>1, <3>2
  <2>3. ASSUME NEW s \in Slots PROVE mem'[rxch][s] \in Samples
    <3>1. mem[rxch][s] \in Samples
      BY <1>1 DEF TypeOKRx
    <3>2. Ahead(rxch, s) < n => Ahead(rxch, s) \in 0 .. n - 1
      BY <1>1, <2>1
    <3>. QED  BY <1>5, <2>2, <3>1, <3>2
  <2>4. Stored(rxch, n, new) = [s \in Slots |-> mem'[rxch][s]]
    BY <1>0, <1>1 DEF TypeOKRx, Stored
  <2>5. mem' \in [Channels -> [Slots -> Samples]]
    BY <1>0, <1>1, <2>3, <2>4 DEF TypeOKRx
  <2>6. head' \in [Channels -> Nat] /\ done' \in Nat
    BY <1>0, <1>1
  <2>. QED  BY <1>0, <2>5, <2>6 DEF TypeOKRx, RxPCs
<1>12. Intact'
  <2> SUFFICES ASSUME NEW c \in Channels
               PROVE  /\ head'[c] <= clob'[c]
                      /\ \A i \in 0 .. head'[c] - 1 : i + Size >= head'[c]
                           => mem'[c][i % Size].time = TimeAt(i)
    <3>1. \A c \in Channels : Written(c)' = head'[c]
      <4>1. \A c \in Channels : head'[c] \in Int
        BY <1>1, <1>6, <1>7
      <4>. QED  BY <1>0, <4>1 DEF Written
    <3>2. \A i \in Int : TimeAt(i)' = TimeAt(i)
      BY <1>0 DEF TimeAt
    <3>3. \A c \in Channels : \A i \in 0 .. head'[c] - 1 : i \in Int
      OBVIOUS
    <3>. QED  BY <3>1, <3>2, <3>3 DEF Intact
  <2>0. head[c] \in Nat /\ Written(c) = head[c]
    BY <1>0, <1>1 DEF Written
  <2>1. CASE c # rxch
    BY <1>0, <1>6, <2>0, <2>1 DEF Intact
  <2>2. CASE c = rxch
    <3>1. head'[c] <= clob'[c]
      BY <1>0, <1>2, <1>7, <2>2
    <3>2. ASSUME NEW i \in 0 .. head'[c] - 1, i + Size >= head'[c]
          PROVE  mem'[c][i % Size].time = TimeAt(i)
      <4>0. /\ i \in Nat /\ i % Size \in Slots
            /\ i < head[c] + n /\ i + Size >= head[c] + n
        BY <1>1, <1>7, <2>0, <2>2, <3>2, SlotType
      <4>1. CASE i >= head[c]
        <5> DEFINE s == i % Size
                   d == i - head[c]
        <5>1. s \in Slots /\ d \in 0 .. n - 1 /\ Ahead(c, s) = d
          BY <1>1, <2>0, <4>0, <4>1, AheadInside
        <5> HIDE DEF s
        <5>2. mem'[c][s] = IF rxpc = "padding" THEN Zero ELSE Copied(d)
          BY <1>1, <1>5, <1>8, <2>2, <5>1
        <5>3. CASE rxpc = "padding"
          <6>1. i \in tsNext .. pkt.ts - 1
            BY <1>1, <1>3, <1>4, <2>2, <4>0, <4>1, <5>3
          <6>2. i \in lost
            BY <1>0, <6>1 DEF Timing
          <6>. QED  BY <5>2, <5>3, <6>2 DEF Zero, TimeAt, s
        <5>4. CASE rxpc = "copying"
          <6>1. i >= pkt.ts /\ pkt.ts + done + d = i
            BY <1>1, <1>3, <2>2, <4>0, <4>1, <5>4
          <6>2. i \notin lost
            BY <1>0, <1>1, <4>0, <6>1 DEF Timing
          <6>. QED  BY <5>2, <5>4, <6>1, <6>2 DEF Copied, Sample, TimeAt, s
        <5>. QED  BY <1>0, <5>3, <5>4
      <4>2. CASE i < head[c]
        <5>1. ~(Ahead(c, i % Size) < n)
          BY <1>1, <2>0, <4>0, <4>2, AheadOutside
        <5>2. mem'[c][i % Size] = mem[c][i % Size]
          BY <1>5, <2>2, <4>0, <5>1
        <5>3. i \in 0 .. Written(c) - 1 /\ i + Size >= Written(c)
          BY <1>1, <2>0, <4>0, <4>2, SizeFacts
        <5>. QED  BY <5>2, <5>3 DEF Intact
      <4>. QED  BY <2>0, <4>0, <4>1, <4>2
    <3>. QED  BY <3>1, <3>2
  <2>. QED  BY <2>1, <2>2
<1>13. Progress'
  <2>1. ASSUME NEW c \in Channels
        PROVE  head'[c] = CASE c < rxch -> pkt.ts + pkt.len
                            [] c = rxch /\ rxpc = "padding" -> tsNext + done'
                            [] c = rxch /\ rxpc = "copying" -> pkt.ts + done'
                            [] OTHER -> tsNext
    <3>1. CASE c = rxch
      BY <1>0, <1>1, <1>3, <1>7, <3>1 DEF Channels
    <3>2. CASE c # rxch
      BY <1>0, <1>6, <3>2 DEF Progress
    <3>. QED  BY <3>1, <3>2
  <2>. QED  BY <1>0, <2>1 DEF Progress
<1>14. Announced'
  BY <1>0 DEF Announced
<1>15. Timing'
  <2>1. Remaining' >= 0
    BY <1>1, <1>10
  <2>. QED  BY <1>0, <1>9, <2>1 DEF Timing
<1>. QED  BY <1>11, <1>12, <1>13, <1>14, <1>15

LEMMA RxPaddedStep == ASSUME IInvRx, RxPadded PROVE IInvRx'
<1> USE DEF IInvRx, ringVars, rxFrame
<1>0. /\ rxpc = "pad" /\ Remaining = 0 /\ rxpc' = "copy" /\ done' = 0
      /\ UNCHANGED <<ringVars, rxFrame, rxch>>
  BY DEF RxPadded
<1>1. /\ pkt.ts \in Nat /\ pkt.len \in Nat /\ LostSamples = pkt.ts - tsNext
      /\ tsNext \in Nat /\ done \in Nat /\ rxch \in Channels
  BY <1>0, RemainingFacts
<1>2. tsNext + done = pkt.ts
  BY <1>0, <1>1 DEF Remaining
<1>3. TypeOKRx'
  BY <1>0 DEF TypeOKRx, RxPCs
<1>4. Intact'
  <2>1. \A c \in Channels : Written(c)' = Written(c) /\ Written(c) <= clob'[c]
    BY <1>0 DEF Written, Intact, TypeOKRx
  <2>. QED  BY <1>0, <2>1, IntactKept
<1>5. Progress'
  BY <1>0, <1>1, <1>2 DEF Progress, Channels
<1>6. Announced'
  BY <1>0 DEF Announced
<1>7. Timing'
  <2>1. LostSamples' = LostSamples
    BY <1>0 DEF LostSamples
  <2>2. Remaining' >= 0
    BY <1>0, <1>1 DEF Remaining
  <2>. QED  BY <1>0, <2>1, <2>2 DEF Timing
<1>. QED  BY <1>3, <1>4, <1>5, <1>6, <1>7

LEMMA RxCopiedStep == ASSUME IInvRx, RxCopied PROVE IInvRx'
<1> USE DEF IInvRx, ringVars
<1>0. /\ rxpc = "copy" /\ Remaining = 0 /\ done' = 0
      /\ \/ /\ rxch = NumChannels - 1 /\ rxpc' = "loop" /\ rxch' = 0
            /\ tsNext' = pkt.ts + pkt.len /\ contiguous' = TRUE
         \/ /\ rxch # NumChannels - 1 /\ rxpc' = "pad" /\ rxch' = rxch + 1
            /\ tsNext' = tsNext /\ contiguous' = contiguous
      /\ UNCHANGED <<ringVars, dev, lost, rxRun, rxMax, pkt>>
  BY DEF RxCopied, LastChannel
<1>1. /\ pkt.ts \in Nat /\ pkt.len \in Nat /\ LostSamples = pkt.ts - tsNext
      /\ tsNext \in Nat /\ done \in Nat /\ rxch \in 0 .. NumChannels - 1
      /\ Channels = 0 .. NumChannels - 1
  BY <1>0, RemainingFacts DEF Channels
<1>2. done = pkt.len
  BY <1>0, <1>1 DEF Remaining
<1>3. TypeOKRx'
  <2>1. rxch' \in Channels /\ tsNext' \in Nat /\ done' \in Nat
    BY <1>0, <1>1, SizeFacts
  <2>2. contiguous' \in BOOLEAN
    BY <1>0 DEF TypeOKRx
  <2>. QED  BY <1>0, <2>1, <2>2 DEF TypeOKRx, RxPCs
<1>4. Intact'
  <2>1. \A c \in Channels : Written(c)' = Written(c) /\ Written(c) <= clob'[c]
    BY <1>0 DEF Written, Intact, TypeOKRx
  <2>. QED  BY <1>0, <2>1, IntactKept
<1>5. ASSUME NEW c \in Channels
      PROVE  head[c] = IF c <= rxch THEN pkt.ts + pkt.len ELSE tsNext
  BY <1>0, <1>1, <1>2, <1>5 DEF Progress
<1>6. Progress'
  <2>1. CASE rxch = NumChannels - 1
    BY <1>0, <1>1, <1>5, <2>1, SizeFacts DEF Progress
  <2>2. CASE rxch # NumChannels - 1
    <3>1. \A c \in Channels : head'[c] = IF c < rxch' THEN pkt'.ts + pkt'.len ELSE tsNext'
      BY <1>0, <1>1, <1>5, <2>2, SizeFacts
    <3>2. tsNext' + done' = tsNext' /\ rxpc' = "pad"
      BY <1>0, <1>1, <2>2, SizeFacts
    <3>3. ASSUME NEW c \in Channels
          PROVE  IF c < rxch' THEN head'[c] = pkt'.ts + pkt'.len
                 ELSE IF c = rxch' THEN head'[c] = tsNext' + done'
                 ELSE head'[c] = tsNext'
      BY <3>1, <3>2
    <3>4. rxch' \in Int /\ \A c \in Channels : c \in Int
      BY <1>0, <1>1, <2>2
    <3>. QED  BY <3>2, <3>3, <3>4 DEF Progress
  <2>. QED  BY <2>1, <2>2
<1>7. Announced'
  BY <1>0, SizeFacts DEF Announced
<1>8. Timing'
  <2>1. /\ dev = pkt.ts + pkt.len
        /\ pkt.ts >= tsNext
    BY <1>0 DEF Timing
  <2>2. CASE rxpc' = "loop"
    BY <1>0, <1>1, <2>1, <2>2 DEF Timing
  <2>3. CASE rxpc' = "pad"
    <3>1. LostSamples' = LostSamples
      BY <1>0, <2>3 DEF LostSamples
    <3>2. Remaining' >= 0
      BY <1>0, <1>1, <2>1, <2>3, <3>1 DEF Remaining
    <3>. QED  BY <1>0, <2>3, <3>1, <3>2 DEF Timing
  <2>. QED  BY <1>0, <2>2, <2>3
<1>. QED  BY <1>3, <1>4, <1>6, <1>7, <1>8

LEMMA RxDrainStep == ASSUME IInvRx, RxDrain PROVE IInvRx'
<1> USE DEF RxDrain, IInvRx, ringVars, rxFrame
<1>1. TypeOKRx'
  BY SizeFacts DEF TypeOKRx, RxPCs, Channels, LastChannel
<1>2. Intact'
  <2>1. mem' = mem
    OBVIOUS
  <2>2. \A c \in Channels : Written(c)' = Written(c) /\ Written(c) <= clob'[c]
    BY DEF Written, Intact, TypeOKRx
  <2>3. \A c \in Channels : \A i \in 0 .. Written(c) - 1 : i \in lost' <=> i \in lost
    OBVIOUS
  <2>. QED  BY <2>1, <2>2, <2>3, IntactKept
<1>3. Progress'
  BY DEF Progress, TypeOKRx
<1>4. Announced'
  BY DEF Channels, Announced, TypeOKRx, Remaining, LostSamples, ProducerSpanLen
<1>5. Timing'
  BY DEF Timing, TypeOKRx, Remaining, LostSamples
<1>. QED  BY <1>1, <1>2, <1>3, <1>4, <1>5

LEMMA RxStopStep == ASSUME IInvRx, RxStop PROVE IInvRx'
<1> USE DEF RxStop, IInvRx, ringVars, rxFrame
<1>1. TypeOKRx'
  BY SizeFacts DEF TypeOKRx, RxPCs, Channels, LastChannel
<1>2. Intact'
  <2>1. mem' = mem
    OBVIOUS
  <2>2. \A c \in Channels : Written(c)' = Written(c) /\ Written(c) <= clob'[c]
    BY DEF Written, Intact, TypeOKRx
  <2>3. \A c \in Channels : \A i \in 0 .. Written(c) - 1 : i \in lost' <=> i \in lost
    OBVIOUS
  <2>. QED  BY <2>1, <2>2, <2>3, IntactKept
<1>3. Progress'
  BY DEF Progress, TypeOKRx
<1>4. Announced'
  BY DEF Channels, Announced, TypeOKRx, Remaining, LostSamples, ProducerSpanLen
<1>5. Timing'
  BY DEF Timing, TypeOKRx, Remaining, LostSamples
<1>. QED  BY <1>1, <1>2, <1>3, <1>4, <1>5

LEMMA RxStutter == ASSUME IInvRx, UNCHANGED rxAll PROVE IInvRx'
<1> USE DEF IInvRx, rxAll, ringVars, rxVars
<1>1. TypeOKRx'
  BY DEF TypeOKRx
<1>2. Intact'
  BY DEF Intact, Written, TimeAt
<1>3. Progress'
  BY DEF Progress
<1>4. Announced'
  BY DEF Announced, Remaining, LostSamples, ProducerSpanLen
<1>5. Timing'
  BY DEF Timing, Remaining, LostSamples
<1>. QED  BY <1>1, <1>2, <1>3, <1>4, <1>5

LEMMA RxStepIInvRx == ASSUME IInvRx, RxStep PROVE IInvRx'
BY RxLoopStep, RxSpanStep, RxRecvStep, RxRecvNoneStep, RxOverflowStep, RxFatalStep,
   RxProduceStep, RxPlaceStep, RxFillSpanStep, RxFillStep, RxPaddedStep, RxCopiedStep,
   RxDrainStep DEF RxStep

(***************************************************************************)
(* The theorems.                                                           *)
(***************************************************************************)

(* The inductive invariant holds of every behaviour. *)
THEOREM RxInvariance == SafeSpecRx => []IInvRx
<1>1. InitReceiver => IInvRx
  BY InitIInvRx DEF InitReceiver
<1>2. IInvRx /\ [NextRx]_rxAll => IInvRx'
  BY RxStepIInvRx, RxStopStep, RxStutter DEF NextRx
<1>. QED  BY <1>1, <1>2, PTL DEF SafeSpecRx, rxAll

(* Every variable keeps its type. *)
THEOREM RxTypeCorrect == SafeSpecRx => []TypeOKRx
<1>1. IInvRx => TypeOKRx
  BY DEF IInvRx
<1>. QED  BY <1>1, RxInvariance, PTL

LEMMA IntactWindow ==
  ASSUME IInvRx
  PROVE  /\ HeadNeverPassesClob
         /\ WindowIsIntact
<1> USE DEF IInvRx
<1>1. \A c \in Channels : /\ head[c] \in Nat /\ clob[c] \in Nat /\ Written(c) \in Nat
                          /\ head[c] <= Written(c) /\ Written(c) <= clob[c]
  <2>1. pkt.len \in Nat
    BY SizeFacts DEF TypeOKRx
  <2>. QED  BY <2>1 DEF TypeOKRx, Intact, Written, Channels
<1>2. ASSUME NEW c \in Channels, NEW i \in 0 .. head[c] - 1, i + Size >= clob[c]
      PROVE  mem[c][i % Size].time = TimeAt(i)
  <2>1. i \in 0 .. Written(c) - 1 /\ i + Size >= Written(c)
    BY <1>1, <1>2, SizeFacts
  <2>. QED  BY <2>1 DEF Intact
<1>. QED  BY <1>1, <1>2 DEF HeadNeverPassesClob, WindowIsIntact

(* Nothing is produced that was not announced: the assertions of the ring  *)
(* buffer never fail.                                                      *)
THEOREM Announcement == SafeSpecRx => []HeadNeverPassesClob
<1>. QED  BY IntactWindow, RxInvariance, PTL

(* What is produced and not announced as clobbered is the right sample.    *)
THEOREM Window == SafeSpecRx => []WindowIsIntact
<1>. QED  BY IntactWindow, RxInvariance, PTL

(* Between two packets all channels have got equally far. *)
THEOREM Alignment == SafeSpecRx => []ChannelsAligned
<1>1. IInvRx => ChannelsAligned
  BY DEF IInvRx, Progress, Timing, ChannelsAligned
<1>. QED  BY <1>1, RxInvariance, PTL

(***************************************************************************)
(* What the Rx thread does to a reader's view: it only ever gets further,  *)
(* and never changes its mind about what belongs at a position produced.   *)
(***************************************************************************)

LEMMA WrittenFacts ==
  ASSUME IInvRx, NEW c \in Channels
  PROVE  /\ head[c] \in Nat /\ clob[c] \in Nat /\ Written(c) \in Nat
         /\ head[c] <= Written(c) /\ Written(c) <= clob[c]
<1>1. pkt.len \in Nat
  BY SizeFacts DEF IInvRx, TypeOKRx
<1>. QED  BY <1>1 DEF IInvRx, TypeOKRx, Intact, Written, Channels

LEMMA RxMonotone ==
  ASSUME IInvRx, RxStep \/ RxStop \/ UNCHANGED rxAll, NEW c \in Channels
  PROVE  /\ head[c] <= head'[c] /\ Written(c) <= Written(c)'
         /\ \A i \in Nat : i < head[c] => TimeAt(i)' = TimeAt(i)
<1> USE DEF ringVars, rxVars, rxFrame, rxAll
<1>0. /\ head \in [Channels -> Nat] /\ rxch \in Channels /\ pkt.len \in Nat
      /\ c \in 0 .. NumChannels - 1 /\ rxch \in 0 .. NumChannels - 1
  BY SizeFacts DEF IInvRx, TypeOKRx, Channels
<1>1. ASSUME head' = head, Written(c)' = Written(c), lost' = lost
      PROVE  /\ head[c] <= head'[c] /\ Written(c) <= Written(c)'
             /\ \A i \in Nat : i < head[c] => TimeAt(i)' = TimeAt(i)
  BY <1>1, WrittenFacts DEF TimeAt
<1>2. CASE RxLoop
  BY <1>1, <1>2 DEF RxLoop, Written
<1>3. CASE RxSpan
  BY <1>1, <1>3 DEF RxSpan, Written
<1>4. CASE RxRecv
  <2>1. /\ rxpc = "recv" /\ rxpc' \in {"produce", "place"} /\ rxch' = rxch
        /\ head' = head /\ lost' = lost
        /\ pkt'.len \in Nat
    <3>1. rxMax \in 0 .. MaxPkt
      BY DEF IInvRx, TypeOKRx
    <3>. QED  BY <1>4, <3>1, SizeFacts DEF RxRecv
  <2>2. Written(c) <= Written(c)'
    BY <1>0, <2>1 DEF Written
  <2>. QED  BY <1>0, <2>1, <2>2 DEF TimeAt
<1>5. CASE RxRecvNone
  BY <1>1, <1>5 DEF RxRecvNone, Written
<1>6. CASE RxOverflow
  <2>1. head' = head /\ Written(c)' = Written(c) /\ head[c] = tsNext
    BY <1>6 DEF RxOverflow, Written, IInvRx, Progress
  <2>2. PICK n \in 0 .. MaxLost + 1 : lost' = lost \cup dev .. dev + n - 1
    BY <1>6 DEF RxOverflow
  <2>3. dev \in Int /\ dev >= -1 /\ tsNext \in Nat /\ (dev < tsNext => tsNext = 0)
    BY DEF IInvRx, TypeOKRx, Timing
  <2>4. n \in Int
    BY MaxLostAssumption
  <2>5. ASSUME NEW i \in Nat, i < head[c] PROVE TimeAt(i)' = TimeAt(i)
    <3>1. i \notin dev .. dev + n - 1
      BY <2>1, <2>3, <2>4, <2>5
    <3>. QED  BY <2>2, <3>1 DEF TimeAt
  <2>. QED  BY <2>1, <2>5, WrittenFacts
<1>7. CASE RxFatal
  BY <1>1, <1>7 DEF RxFatal, Written
<1>8. CASE RxProduce
  <2>1. /\ rxpc = "produce" /\ lost' = lost /\ pkt' = pkt
        /\ head' = [head EXCEPT ![rxch] = @ + pkt.len]
        /\ \/ rxch = NumChannels - 1 /\ rxpc' = "loop" /\ rxch' = 0
           \/ rxch # NumChannels - 1 /\ rxpc' = "produce" /\ rxch' = rxch + 1
    BY <1>8 DEF RxProduce, Produce, LastChannel
  <2>2. head'[c] = IF c = rxch THEN head[c] + pkt.len ELSE head[c]
    BY <1>0, <2>1
  <2>3. Written(c)' = Written(c)
    BY <1>0, <2>1, <2>2 DEF Written
  <2>. QED  BY <1>0, <2>1, <2>2, <2>3, WrittenFacts DEF TimeAt
<1>9. CASE RxPlace
  BY <1>1, <1>9 DEF RxPlace, Written
<1>10. CASE RxFillSpan
  BY <1>1, <1>10 DEF RxFillSpan, Written
<1>11. CASE RxFill
  <2> DEFINE n == ProducerSpanLen(rxch, Remaining)
  <2>1. /\ rxpc \in {"padding", "copying"} /\ rxpc' \in {"pad", "copy"} /\ lost' = lost
        /\ head' = [head EXCEPT ![rxch] = @ + n]
    BY <1>11 DEF RxFill, Produce
  <2>2. n \in Nat
    BY <2>1, RemainingFacts
  <2> HIDE DEF n
  <2>3. head[c] <= head'[c] /\ head[c] \in Nat /\ head'[c] \in Nat
    BY <1>0, <2>1, <2>2
  <2>. QED  BY <2>1, <2>3 DEF Written, TimeAt
<1>12. CASE RxPadded
  BY <1>1, <1>12 DEF RxPadded, Written
<1>13. CASE RxCopied
  BY <1>1, <1>13 DEF RxCopied, Written
<1>14. CASE RxDrain
  BY <1>1, <1>14 DEF RxDrain, Written
<1>15. CASE RxStop
  BY <1>1, <1>15 DEF RxStop, Written
<1>16. CASE UNCHANGED rxAll
  BY <1>1, <1>16 DEF Written
<1>. QED  BY <1>2, <1>3, <1>4, <1>5, <1>6, <1>7, <1>8, <1>9, <1>10, <1>11, <1>12,
             <1>13, <1>14, <1>15, <1>16 DEF RxStep

(* clob may go back: after an overflow a shorter span is announced than    *)
(* before.  What a reader relies on is safe nevertheless: head does not go *)
(* back, and a sample that its check finds within the window after the     *)
(* step is the sample that was there before the step.  So a copy taken     *)
(* without a lock is good if the check after it succeeds.                  *)
THEOREM Readers ==
  SafeSpecRx =>
    [][\A c \in Channels :
         /\ head[c] <= head'[c]
         /\ \A i \in 0 .. head[c] - 1 :
              i + Size >= clob'[c] => mem'[c][i % Size].time = mem[c][i % Size].time]_rxAll
<1> DEFINE Trusted ==
      \A c \in Channels :
         /\ head[c] <= head'[c]
         /\ \A i \in 0 .. head[c] - 1 :
              i + Size >= clob'[c] => mem'[c][i % Size].time = mem[c][i % Size].time
<1>1. IInvRx /\ IInvRx' /\ WindowIsIntact' /\ [NextRx]_rxAll => [Trusted]_rxAll
  <2> SUFFICES ASSUME IInvRx, IInvRx', WindowIsIntact', NextRx, NEW c \in Channels
               PROVE  /\ head[c] <= head'[c]
                      /\ \A i \in 0 .. head[c] - 1 :
                           i + Size >= clob'[c] =>
                             mem'[c][i % Size].time = mem[c][i % Size].time
    BY Zenon
  <2> HIDE DEF Trusted
  <2>1. /\ head[c] <= head'[c] /\ Written(c) <= Written(c)'
        /\ \A i \in Nat : i < head[c] => TimeAt(i)' = TimeAt(i)
    BY RxMonotone DEF NextRx
  <2>2. Written(c)' <= clob'[c]
    BY DEF IInvRx, Intact
  <2>3. Written(c)' \in Nat /\ clob'[c] \in Nat
    <3>1. rxpc' \in RxPCs /\ head' \in [Channels -> Nat] /\ clob' \in [Channels -> Nat]
          /\ pkt' \in [ts : Int, len : 0 .. MaxPkt]
      BY Zenon DEF IInvRx, TypeOKRx
    <3>. QED  BY <3>1, SizeFacts DEF Written
  <2>4. ASSUME NEW i \in 0 .. head[c] - 1, i + Size >= clob'[c]
        PROVE  mem'[c][i % Size].time = mem[c][i % Size].time
    <3>1. /\ head[c] \in Nat /\ Written(c) \in Nat /\ head[c] <= Written(c)
          /\ i \in Nat /\ i < head[c]
      BY WrittenFacts
    <3>2. i \in 0 .. head'[c] - 1
      <4>1. head'[c] \in Nat
        BY DEF IInvRx, TypeOKRx
      <4>. QED  BY <2>1, <3>1, <4>1
    <3>3. mem'[c][i % Size].time = TimeAt(i)'
      BY <2>4, <3>2 DEF WindowIsIntact
    <3>4. i \in 0 .. Written(c) - 1 /\ i + Size >= Written(c)
      BY <2>1, <2>2, <2>3, <2>4, <3>1, SizeFacts
    <3>5. mem[c][i % Size].time = TimeAt(i)
      BY <3>4 DEF IInvRx, Intact
    <3>. QED  BY <2>1, <3>1, <3>3, <3>5
  <2>. QED  BY <2>1, <2>4
<1>. QED  BY <1>1, RxInvariance, Window, PTL DEF SafeSpecRx, rxAll

=============================================================================
