------------------------------ MODULE Ringbuf -------------------------------
(***************************************************************************)
(* The shared-memory ring buffers of src/src/ringbuf.hpp, one per Rx       *)
(* channel, written by the Rx thread alone and read by others without any  *)
(* lock.                                                                   *)
(*                                                                         *)
(* Positions are counted in samples from the start of the stream and never *)
(* wrap (uint64_t at any real rate); position i lives in slot i % Size.    *)
(* `head' says what has been produced: positions below it.  `clob' says    *)
(* what may be overwritten at this moment: positions below clob - Size,    *)
(* "clobbered".  A sample is abstracted to the channel and the time it     *)
(* was received from, which is all the properties compare.                 *)
(***************************************************************************)
EXTENDS Integers, Sequences

CONSTANTS NumChannels,   \* Rx channels, one buffer each
          Size           \* samples per buffer, a power of two (_mask)

ASSUME NumChannelsAssumption == NumChannels \in Nat \ {0}
ASSUME SizeAssumption == Size \in Nat \ {0}
ASSUME SizePowerOfTwo == \E k \in 0 .. Size : 2^k = Size

VARIABLES head,   \* channel -> descriptor head, equals the producer's _head
          clob,   \* channel -> descriptor clob
          mem     \* channel -> slot -> sample

ringVars == <<head, clob, mem>>

Channels == 0 .. NumChannels - 1
Slots == 0 .. Size - 1

Samples == [chan : Int, time : Int]
Sample(c, t) == [chan |-> c, time |-> t]
Zero == [chan |-> -1, time |-> -1]

InitRing ==
  /\ head = [c \in Channels |-> 0]
  /\ clob = [c \in Channels |-> 0]
  /\ mem = [c \in Channels |-> [s \in Slots |-> Zero]]

(* A span starting at position pos never crosses the end of the buffer. *)
SpanLen(pos, n) ==
  IF (pos % Size) + n <= Size THEN n ELSE Size - (pos % Size)

-----------------------------------------------------------------------------
(* Producer *)

ProducerSpanLen(c, n) == SpanLen(head[c], n)

(* get_producer_span(): announce what is about to be overwritten. *)
GetProducerSpan(c, n) ==
  clob' = [clob EXCEPT ![c] = head[c] + ProducerSpanLen(c, n)]

(* How far ahead of head the next position stored in slot s lies. *)
Ahead(c, s) == (s - head[c]) % Size

(* Memory of channel c after samples[0], samples[1], ..., samples[n - 1]   *)
(* went to the positions from head on.                                     *)
Stored(c, n, samples) ==
  [s \in Slots |-> IF Ahead(c, s) < n THEN samples[Ahead(c, s)] ELSE mem[c][s]]

(* produce(): hand n samples to the consumers. *)
Produce(c, n) == head' = [head EXCEPT ![c] = @ + n]

-----------------------------------------------------------------------------
(* Consumers *)

(* get_tail(): a position in time; what may be overwritten is refused. *)
TailClobbered(c, tail) == tail <= clob[c]

\* Mutant: wait for one sample more than the block.
ConsumerSpanReluctant(c, tail, n) ==
  IF tail + n >= head[c] THEN 0 ELSE SpanLen(tail, n)

(* get_consumer_span(): n samples, fewer at the end of the buffer, or none *)
(* as long as not all n have been produced.                                *)
ConsumerSpanLen(c, tail, n) ==
  IF tail + n > head[c] THEN 0 ELSE SpanLen(tail, n)

(* get_clobber_distance() < 0: something from tail on may be gone. *)
Clobbered(c, tail) == tail + Size < clob[c]

(* get_backlog_samples() *)
Backlog(c, tail) == IF tail >= head[c] THEN 0 ELSE head[c] - tail

(* The sample a reader finds at position i. *)
SampleAt(c, i) == mem[c][i % Size]

=============================================================================
