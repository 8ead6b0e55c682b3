--------------------------------- MODULE Rx ---------------------------------
(***************************************************************************)
(* The Rx thread of src/src/rx.cpp.  It receives packets from the USRP,    *)
(* directly into the ring buffers while the stream is contiguous, and      *)
(* through temporary buffers after a gap, when the packet's time stamp     *)
(* says how many lost samples have to be replaced by zeros.                *)
(*                                                                         *)
(* Time is counted in samples since the stream's start time.  The USRP is  *)
(* external: recv() returns consecutive samples of all channels, except    *)
(* that it may report an overflow, after which any number of samples may   *)
(* be missing, or an error.                                                *)
(***************************************************************************)
EXTENDS Ringbuf

CONSTANTS MaxPkt,    \* max_num_samps: samples per recv()
          MaxLost,   \* one second of samples: the limit of zero-padding
          Word,      \* 2^64, scaled down
          MaxTime    \* bound: time of the last sample

ASSUME MaxPktAssumption == MaxPkt \in 1 .. Size
ASSUME MaxLostAssumption == MaxLost \in Nat
ASSUME MaxTimeAssumption == MaxTime \in Nat
ASSUME WordAssumption == Word \in Nat /\ Word > MaxLost + MaxTime + 1

VARIABLES dev,         \* time of the next sample recv() returns
          lost,        \* history: times the USRP never delivered
          tsNext,      \* ts_samples_next_recv
          contiguous,  \* contiguous # 0
          rxRun,       \* the atomic flag run
          rxpc,        \* next step of the worker
          rxch,        \* channel of the loop the worker is in
          rxMax,       \* recv_max_samples
          pkt,         \* last packet: time stamp and number of samples
          done         \* zeroed or copied so far

rxVars == <<dev, lost, tsNext, contiguous, rxRun, rxpc, rxch, rxMax, pkt, done>>
rxFrame == <<dev, lost, tsNext, contiguous, rxRun, rxMax, pkt>>

InitRx ==
  /\ dev \in {-1, 0, 1} /\ dev <= MaxTime
  /\ lost = IF dev = 1 THEN {0} ELSE {}
  /\ tsNext = 0
  /\ contiguous = FALSE /\ rxRun = TRUE
  /\ rxpc = "loop" /\ rxch = 0 /\ rxMax = 0
  /\ pkt = [ts |-> 0, len |-> 0] /\ done = 0

LastChannel == rxch = NumChannels - 1

-----------------------------------------------------------------------------
(* The loop head: choose where the next packet goes, or leave. *)
RxLoop ==
  /\ rxpc = "loop"
  /\ rxpc' = IF ~rxRun THEN "drain" ELSE IF contiguous THEN "span" ELSE "recv"
  /\ rxch' = 0 /\ rxMax' = MaxPkt
  /\ UNCHANGED <<ringVars, dev, lost, tsNext, contiguous, rxRun, pkt, done>>

(* One channel's span; the shortest limits the packet. *)
RxSpan ==
  /\ rxpc = "span"
  /\ GetProducerSpan(rxch, MaxPkt)
  /\ rxMax' = IF ProducerSpanLen(rxch, MaxPkt) < rxMax
              THEN ProducerSpanLen(rxch, MaxPkt) ELSE rxMax
  /\ IF LastChannel THEN rxpc' = "recv" /\ rxch' = 0
                    ELSE rxpc' = rxpc /\ rxch' = rxch + 1
  /\ UNCHANGED <<head, mem, dev, lost, tsNext, contiguous, rxRun, pkt, done>>

(* recv() returns samples: in place, or in the temporary buffers. *)
RxRecv ==
  /\ rxpc = "recv"
  /\ \E n \in 1 .. rxMax :
       /\ dev + n - 1 <= MaxTime
       /\ pkt' = [ts |-> dev, len |-> n]
       /\ dev' = dev + n
       /\ mem' = IF contiguous
                 THEN [c \in Channels |->
                         Stored(c, n, [d \in 0 .. n - 1 |-> Sample(c, dev + d)])]
                 ELSE mem
  /\ rxpc' = IF contiguous THEN "produce" ELSE "place"
  /\ UNCHANGED <<head, clob, lost, tsNext, contiguous, rxRun, rxch, rxMax, done>>

(* recv() returns nothing and no error: ignored. *)
RxRecvNone ==
  /\ rxpc = "recv"
  /\ rxpc' = "loop"
  /\ UNCHANGED <<ringVars, rxFrame, rxch, done>>

(* recv() reports an overflow: samples are missing from here on. *)
RxOverflow ==
  /\ rxpc = "recv"
  /\ \E n \in 0 .. MaxLost + 1 :
       /\ dev + n <= MaxTime
       /\ dev' = dev + n
       /\ lost' = lost \cup dev .. dev + n - 1
  /\ contiguous' = FALSE
  /\ rxpc' = "loop"
  /\ UNCHANGED <<ringVars, tsNext, rxRun, rxch, rxMax, pkt, done>>

(* recv() reports any other error, a time-out included. *)
RxFatal ==
  /\ rxpc = "recv"
  /\ rxRun' = FALSE
  /\ rxpc' = "loop"
  /\ UNCHANGED <<ringVars, dev, lost, tsNext, contiguous, rxch, rxMax, pkt, done>>

-----------------------------------------------------------------------------
\* Mutant: the span is published, not the samples received.
RxProduceSpan ==
  /\ rxpc = "produce"
  /\ Produce(rxch, rxMax)
  /\ IF LastChannel
     THEN rxpc' = "loop" /\ rxch' = 0 /\ tsNext' = tsNext + pkt.len
     ELSE rxpc' = rxpc /\ rxch' = rxch + 1 /\ UNCHANGED tsNext
  /\ UNCHANGED <<clob, mem, dev, lost, contiguous, rxRun, rxMax, pkt, done>>

(* Contiguous: the samples are in place, publish them channel by channel.  *)
RxProduce ==
  /\ rxpc = "produce"
  /\ Produce(rxch, pkt.len)
  /\ IF LastChannel
     THEN rxpc' = "loop" /\ rxch' = 0 /\ tsNext' = tsNext + pkt.len
     ELSE rxpc' = rxpc /\ rxch' = rxch + 1 /\ UNCHANGED tsNext
  /\ UNCHANGED <<clob, mem, dev, lost, contiguous, rxRun, rxMax, pkt, done>>

(* Unsigned: a packet earlier than expected looks like a huge loss. *)
LostSamples == (pkt.ts - tsNext) % Word

(* Not contiguous: give up on too large a gap, else start padding. *)
RxPlace ==
  /\ rxpc = "place"
  /\ IF LostSamples > MaxLost
     THEN rxpc' = "drain" /\ rxRun' = FALSE
     ELSE rxpc' = "pad" /\ UNCHANGED rxRun
  /\ rxch' = 0 /\ done' = 0
  /\ UNCHANGED <<ringVars, dev, lost, tsNext, contiguous, rxMax, pkt>>

(* Samples the two loops still have to store for this channel. *)
Remaining == (IF rxpc \in {"pad", "padding"} THEN LostSamples ELSE pkt.len) - done

(* Another piece: everything that is left, up to the end of the buffer. *)
RxFillSpan ==
  /\ rxpc \in {"pad", "copy"} /\ Remaining > 0
  /\ GetProducerSpan(rxch, Remaining)
  /\ rxpc' = IF rxpc = "pad" THEN "padding" ELSE "copying"
  /\ UNCHANGED <<head, mem, rxFrame, rxch, done>>

\* Mutant: the copy loop restarts at the packet's first sample after a wrap.
CopiedFromStart(d) == Sample(0, pkt.ts + d)

(* Sample d of the piece the copy loop stores.  Every channel's memcpy     *)
(* reads tmp_bufs[0], the first channel's samples.                         *)
Copied(d) == Sample(0, pkt.ts + done + d)

(* memset() or memcpy() of that piece, then produce(). *)
RxFill ==
  /\ rxpc \in {"padding", "copying"}
  /\ LET n == ProducerSpanLen(rxch, Remaining)
     IN  /\ mem' = [mem EXCEPT ![rxch] =
                      Stored(rxch, n, [d \in 0 .. n - 1 |->
                                         IF rxpc = "padding" THEN Zero ELSE Copied(d)])]
         /\ Produce(rxch, n)
         /\ done' = done + n
  /\ rxpc' = IF rxpc = "padding" THEN "pad" ELSE "copy"
  /\ UNCHANGED <<clob, rxFrame, rxch>>

(* All zeros of this channel are in place. *)
RxPadded ==
  /\ rxpc = "pad" /\ Remaining = 0
  /\ rxpc' = "copy" /\ done' = 0
  /\ UNCHANGED <<ringVars, rxFrame, rxch>>

(* This channel's packet is in place; after the last one, resume. *)
RxCopied ==
  /\ rxpc = "copy" /\ Remaining = 0
  /\ done' = 0
  /\ IF LastChannel
     THEN /\ rxpc' = "loop" /\ rxch' = 0
          /\ tsNext' = pkt.ts + pkt.len
          /\ contiguous' = TRUE
     ELSE /\ rxpc' = "pad" /\ rxch' = rxch + 1
          /\ UNCHANGED <<tsNext, contiguous>>
  /\ UNCHANGED <<ringVars, dev, lost, rxRun, rxMax, pkt>>

(* After the loop: stop the stream and discard what still arrives. *)
RxDrain ==
  /\ rxpc = "drain"
  /\ rxpc' = "off" /\ rxRun' = FALSE
  /\ UNCHANGED <<ringVars, dev, lost, tsNext, contiguous, rxch, rxMax, pkt, done>>

RxStep ==
  \/ RxLoop \/ RxSpan \/ RxRecv \/ RxRecvNone \/ RxOverflow \/ RxFatal
  \/ RxProduce \/ RxPlace \/ RxFillSpan \/ RxFill \/ RxPadded \/ RxCopied
  \/ RxDrain

(* ~Rx() clears run, then joins. *)
RxStop ==
  /\ rxRun
  /\ rxRun' = FALSE
  /\ UNCHANGED <<ringVars, dev, lost, tsNext, contiguous, rxpc, rxch, rxMax, pkt, done>>

NextRx == RxStep \/ RxStop

(* The buffers are new, and the thread is about to enter its loop. *)
InitReceiver == InitRing /\ InitRx

SafeSpecRx == InitReceiver /\ [][NextRx]_<<ringVars, rxVars>>

-----------------------------------------------------------------------------
(* What belongs at position i of every channel. *)
TimeAt(i) == IF i \in lost THEN -1 ELSE i

RxPCs == {"loop", "span", "recv", "produce", "place", "pad", "padding", "copy",
          "copying", "drain", "off"}

TypeOKRx ==
  /\ head \in [Channels -> Nat] /\ clob \in [Channels -> Nat]
  /\ mem \in [Channels -> [Slots -> Samples]]
  /\ dev \in Int /\ lost \subseteq -1 .. MaxTime /\ tsNext \in Nat
  /\ contiguous \in BOOLEAN /\ rxRun \in BOOLEAN
  /\ rxpc \in RxPCs /\ rxch \in Channels
  /\ rxMax \in 0 .. MaxPkt
  /\ pkt \in [ts : Int, len : 0 .. MaxPkt]
  /\ done \in Nat

(* The producer's own assertions (ringbuf.hpp:136 and :172): nothing is    *)
(* produced that was not announced.                                        *)
HeadNeverPassesClob == \A c \in Channels : head[c] <= clob[c]

(* The promise of the ring buffer: every position that is produced and not *)
(* announced as clobbered holds the sample of exactly that time, or zero   *)
(* if the USRP lost it; across wraps, overflows and zero-padding.          *)
WindowIsIntact ==
  \A c \in Channels : \A i \in 0 .. head[c] - 1 :
    i + Size >= clob[c] => mem[c][i % Size].time = TimeAt(i)

(* Whatever mix of packets, overflows and padding there was, all channels  *)
(* have produced the same number of samples between two packets, and while *)
(* the stream is contiguous that number is the time of the next sample.    *)
ChannelsAligned ==
  rxpc \in {"loop", "span", "recv", "place", "drain", "off"} =>
    /\ \A c \in Channels : head[c] = tsNext
    /\ contiguous /\ rxpc \in {"loop", "span", "recv"} => dev = tsNext

(* README:144 "Each active Rx channel is written to its own file": a       *)
(* channel's buffer holds no samples of another channel.                   *)
ChannelsKeptApart ==
  \A c \in Channels : \A s \in Slots : mem[c][s].chan \in {-1, c}

-----------------------------------------------------------------------------
(* The inductive invariant behind these properties. *)

(* Positions below Written(c) have been stored, if not yet produced. *)
Written(c) ==
  head[c] + (IF rxpc = "produce" /\ c >= rxch THEN pkt.len ELSE 0)

Intact ==
  \A c \in Channels :
    /\ Written(c) <= clob[c]
    /\ \A i \in 0 .. Written(c) - 1 : i + Size >= Written(c)
         => mem[c][i % Size].time = TimeAt(i)

(* How far each channel is. *)
Progress ==
  \A c \in Channels :
    head[c] =
      CASE rxpc = "produce" /\ c < rxch -> tsNext + pkt.len
        [] rxpc \in {"pad", "padding", "copy", "copying"} /\ c < rxch ->
             pkt.ts + pkt.len
        [] rxpc \in {"pad", "padding"} /\ c = rxch -> tsNext + done
        [] rxpc \in {"copy", "copying"} /\ c = rxch -> pkt.ts + done
        [] OTHER -> tsNext

(* What has been announced and may be written to. *)
Announced ==
  /\ rxpc = "recv" => rxch = 0
  /\ rxpc = "span" => \A c \in Channels : c < rxch => head[c] + rxMax <= clob[c]
  /\ rxpc = "recv" /\ contiguous => \A c \in Channels : head[c] + rxMax <= clob[c]
  /\ rxpc \in {"padding", "copying"} =>
       /\ Remaining > 0
       /\ head[rxch] + ProducerSpanLen(rxch, Remaining) <= clob[rxch]

(* Where the USRP is, and what it lost. *)
Timing ==
  /\ dev >= -1 /\ dev <= MaxTime + 1 /\ tsNext <= MaxTime + 1
  /\ dev < tsNext => dev = -1 /\ tsNext = 0
  /\ \A t \in lost : t < dev
  /\ rxpc \in {"loop", "span", "recv"} =>
       /\ tsNext .. dev - 1 \subseteq lost
       /\ contiguous => dev = tsNext
  /\ rxpc = "span" => contiguous
  /\ rxpc = "produce" => contiguous /\ dev = tsNext + pkt.len
  /\ rxpc \in {"place", "pad", "padding", "copy", "copying"} =>
       /\ dev = pkt.ts + pkt.len /\ pkt.ts >= -1
       /\ pkt.ts < tsNext => pkt.ts = -1 /\ tsNext = 0
       /\ tsNext .. pkt.ts - 1 \subseteq lost
       /\ \A t \in lost : t < pkt.ts
  /\ rxpc \in {"pad", "padding", "copy", "copying"} =>
       /\ pkt.ts >= tsNext
       /\ LostSamples = pkt.ts - tsNext
       /\ Remaining >= 0

IInvRx == TypeOKRx /\ Intact /\ Progress /\ Announced /\ Timing

=============================================================================
