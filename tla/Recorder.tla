------------------------------ MODULE Recorder ------------------------------
(***************************************************************************)
(* A recording: the Rx thread and the writer around the shared-memory ring *)
(* buffers, and main(), which ends the writer before it ends the receiver. *)
(***************************************************************************)
EXTENDS Rx, Wr

recVars == <<ringVars, rxVars, wrVars>>

InitRecorder == InitReceiver /\ InitWr

Receiving == (RxStep /\ UNCHANGED wrVars)
Writing == (WrStep /\ UNCHANGED rxVars)

(* main(): start writing, stop writing, and at the end stop receiving.  *)
StartWriting == WrCreate /\ UNCHANGED rxVars
StopWriting == WrStop /\ UNCHANGED rxVars
StopReceiving ==
  /\ wrpc \in {"none", "refused", "failed", "closed"}
  /\ RxStop /\ UNCHANGED wrVars

NextRecorder ==
  Receiving \/ Writing \/ StartWriting \/ StopWriting \/ StopReceiving

SafeRecorder == InitRecorder /\ [][NextRecorder]_recVars

(* Both threads are scheduled; the USRP and the file system answer. *)
SpecRecorder == SafeRecorder /\ WF_recVars(Receiving) /\ WF_recVars(Writing)

-----------------------------------------------------------------------------
(* However late, early or in however many pieces a block was written, and  *)
(* however close behind it the Rx thread was overwriting: sample k of a    *)
(* file is the one received at the start time plus k samples, or zero if   *)
(* the USRP lost it, and the file holds no more than the blocks accepted.  *)
FilesTimeAligned ==
  wrpc \in {"loop", "closed"} =>
    \A c \in Channels :
      /\ Len(files[c]) = tails[c] - start
      /\ \A k \in 1 .. Len(files[c]) : files[c][k].time = TimeAt(start + k - 1)

(* wr.cpp:128 "truncate clobbered block": what remains of the recording    *)
(* when the writer was too slow holds only samples of the right time.      *)
TruncatedFileIsClean ==
  wrpc = "failed" =>
    \A c \in Channels : \A k \in 1 .. Len(files[c]) :
      files[c][k].time = TimeAt(start + k - 1)

(* No channel is forgotten: when the stream pauses (here it ends at        *)
(* MaxTime), the writer gets every whole block of every channel into its   *)
(* file, unless writing ends.                                              *)
BacklogDrains ==
  []<>(\/ wrpc \in {"none", "refused", "failed", "closed"}
       \/ \A c \in Channels : tails[c] + Block > head[c])

(* Stopping the writer ends its thread and closes the files, even with the *)
(* receiver still running.                                                 *)
WriterEnds == ~wrRun ~> wrpc \in {"failed", "closed"}

-----------------------------------------------------------------------------
(* The inductive invariant: what fwrite() has copied of the current span is *)
(* right, unless the Rx thread has since stored something over it.          *)
CopiedOrOverwritten ==
  wrpc \in {"write", "check"} =>
    \A k \in 1 .. wrote :
      \/ files[wrch][tails[wrch] - start + k].time = TimeAt(tails[wrch] + k - 1)
      \/ tails[wrch] + k - 1 + Size < Written(wrch)

Current(c) == wrpc \in {"write", "check"} /\ c = wrch

FileContents ==
  wrpc \in {"loop", "span", "write", "check", "closed"} =>
    \A c \in Channels :
      /\ tails[c] >= start
      /\ Len(files[c]) = tails[c] - start + (IF Current(c) THEN wrote ELSE 0)
      /\ tails[c] <= head[c] \/ tails[c] = start
      /\ Current(c) => tails[c] + span <= head[c]
      /\ \A k \in 1 .. tails[c] - start : files[c][k].time = TimeAt(start + k - 1)

NotOpenYet ==
  /\ wrpc \in {"none", "loop", "closed"} => wrch = 0
  /\ wrpc \in {"none", "open"} => \A c \in Channels : files[c] = <<>>
  /\ wrpc = "open" => \A c \in Channels : c < wrch => tails[c] = start

IInvRecorder ==
  IInvRx /\ TypeOKWr /\ NotOpenYet /\ FileContents /\ CopiedOrOverwritten

=============================================================================
