------------------------------ MODULE Preview ------------------------------
(***************************************************************************)
(* The preview that main() publishes over MQTT once per second: from every *)
(* channel's ring buffer the latest block of PubSamples samples, straight  *)
(* from the shared memory, while the Rx thread goes on.  Whatever happens  *)
(* to the block after get_aligned_samples(), main() does not look again.   *)
(*                                                                         *)
(* publish() copies the block sample by sample, or discards it because the *)
(* socket cannot be written.                                               *)
(***************************************************************************)
EXTENDS Rx

CONSTANT PubSamples   \* cfg.mqtt.pub_samples

(* The configuration does not check this; a larger block would begin       *)
(* before the mapping.                                                     *)
ASSUME PubSamplesAssumption == PubSamples \in Nat \ {0} /\ 2 * PubSamples <= Size

VARIABLES pvpc,      \* main(): "idle", "block" or "copy"
          pvch,      \* channel it is at
          aligned,   \* head, aligned to a multiple of the block
          payload    \* samples copied so far

pvVars == <<pvpc, pvch, aligned, payload>>

InitPreview ==
  /\ InitReceiver
  /\ pvpc = "idle" /\ pvch = 0 /\ aligned = 0 /\ payload = <<>>

\* Mutant: the block that begins at the position, not the one before it.
BlockSlotAhead(a) ==
  IF a % Size >= PubSamples THEN a % Size ELSE (a - PubSamples) % Size

(* get_aligned_samples(): the slot the block before position a begins at,  *)
(* or the one before that if a has just passed the end of the buffer.      *)
BlockSlot(a) ==
  IF a % Size >= PubSamples THEN (a % Size) - PubSamples
                            ELSE ((a - PubSamples) % Size) - PubSamples

(* The position of that block's first sample. *)
BlockStart(a) ==
  IF a % Size >= PubSamples THEN a - PubSamples ELSE a - 2 * PubSamples

-----------------------------------------------------------------------------
PreviewBegin ==
  /\ pvpc = "idle" /\ rxRun
  /\ pvpc' = "block" /\ pvch' = 0
  /\ UNCHANGED <<aligned, payload>>

PreviewBlock ==
  /\ pvpc = "block"
  /\ aligned' = head[pvch] - (head[pvch] % PubSamples)
  /\ pvpc' = "copy" /\ payload' = <<>>
  /\ UNCHANGED pvch

PreviewCopy ==
  /\ pvpc = "copy" /\ Len(payload) < PubSamples
  /\ payload' = Append(payload, mem[pvch][BlockSlot(aligned) + Len(payload)])
  /\ UNCHANGED <<pvpc, pvch, aligned>>

(* Sent or discarded; on to the next channel. *)
PreviewDone ==
  /\ pvpc = "copy" /\ Len(payload) \in {0, PubSamples}
  /\ IF pvch = NumChannels - 1 THEN pvpc' = "idle" /\ pvch' = 0
                               ELSE pvpc' = "block" /\ pvch' = pvch + 1
  /\ payload' = <<>>
  /\ UNCHANGED aligned

PreviewStep == PreviewBegin \/ PreviewBlock \/ PreviewCopy \/ PreviewDone

ReceivePreview == NextRx /\ UNCHANGED pvVars
Publishing == PreviewStep /\ UNCHANGED <<ringVars, rxVars>>

NextPreview == ReceivePreview \/ Publishing

SafePreview == InitPreview /\ [][NextPreview]_<<ringVars, rxVars, pvVars>>

-----------------------------------------------------------------------------
TypeOKPreview ==
  /\ pvpc \in {"idle", "block", "copy"} /\ pvch \in Channels
  /\ aligned \in Nat
  /\ payload \in Seq(Samples) /\ Len(payload) <= PubSamples

(* A buffer is created as zeros. *)
TimeFrom(i) == IF i < 0 THEN -1 ELSE TimeAt(i)

(* Wherever head was, and however the Rx thread interfered: a complete     *)
(* block holds consecutive samples, beginning at a multiple of the block's *)
(* length, with zeros for what was lost or is from before the stream,      *)
(* unless the Rx thread has announced by now that it may overwrite the     *)
(* block.  None is from a third channel: they are the channel's own or the *)
(* first one's, which is what its buffer holds of a packet after a gap     *)
(* (Copied, and ChannelsKeptApart, which is why they are not all its own). *)
PreviewIsBlock ==
  pvpc = "copy" /\ BlockStart(aligned) + Size >= clob[pvch] =>
    \A k \in 1 .. Len(payload) :
      /\ payload[k].time = TimeFrom(BlockStart(aligned) + k - 1)
      /\ payload[k].chan \in {-1, 0, pvch}

=============================================================================
