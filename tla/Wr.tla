--------------------------------- MODULE Wr ---------------------------------
(***************************************************************************)
(* The writer of src/src/wr.cpp: one thread copies every channel's ring    *)
(* buffer to that channel's file in blocks, starting at a position in the  *)
(* future.  It takes no lock; it finds out after each block whether the    *)
(* Rx thread may have overwritten the block while it was being written.    *)
(*                                                                         *)
(* A file is the sequence of samples in it.  fwrite() reads the buffer one *)
(* sample at a time, so that the Rx thread can be anywhere in between.     *)
(***************************************************************************)
EXTENDS Ringbuf

CONSTANTS Block,         \* WR_BLOCK_SAMPLES
          ShortWrites,   \* BOOLEAN: fwrite() may write less than it was given
          MaxStart       \* bound: latest start position asked for

ASSUME BlockAssumption == Block \in 1 .. Size
ASSUME ShortWritesAssumption == ShortWrites \in BOOLEAN
ASSUME MaxStartAssumption == MaxStart \in Nat

VARIABLES wrpc,        \* next step of the constructor or the worker
          wrch,        \* channel it is at
          wrRun,       \* the atomic flag run
          start,       \* position that corresponds to start_nsec
          tails,       \* channel -> position of the next block
          files,       \* channel -> samples in the file
          span,        \* samples in the span being written
          wrote,       \* of these, already in the file
          wroteLast    \* _samples_written

wrVars == <<wrpc, wrch, wrRun, start, tails, files, span, wrote, wroteLast>>

InitWr ==
  /\ wrpc = "none" /\ wrch = 0 /\ wrRun = TRUE
  /\ start = 0
  /\ tails = [c \in Channels |-> 0]
  /\ files = [c \in Channels |-> <<>>]
  /\ span = 0 /\ wrote = 0 /\ wroteLast = 0

LastFile == wrch = NumChannels - 1

(* Go on with the next channel, or with s after the last one. *)
NextFile(here, s) ==
  IF LastFile THEN wrpc' = s /\ wrch' = 0 ELSE wrpc' = here /\ wrch' = wrch + 1

-----------------------------------------------------------------------------
(* Constructor *)

(* main() asks for a recording from position t of the stream on. *)
WrCreate ==
  /\ wrpc = "none"
  /\ \E t \in 0 .. MaxStart : start' = t
  /\ wrpc' = "open"
  /\ UNCHANGED <<ringVars, wrch, wrRun, tails, files, span, wrote, wroteLast>>

(* Each channel's tail is checked when its own file is opened. *)
WrOpen ==
  /\ wrpc = "open" /\ ~TailClobbered(wrch, start)
  /\ tails' = [tails EXCEPT ![wrch] = start]
  /\ NextFile("open", "loop")
  /\ UNCHANGED <<ringVars, wrRun, start, files, span, wrote, wroteLast>>

(* The position is too old, or the file cannot be created: the constructor *)
(* closes what it opened and rethrows.                                     *)
WrRefuse ==
  /\ wrpc = "open"
  /\ wrpc' = "refused"
  /\ UNCHANGED <<ringVars, wrch, wrRun, start, tails, files, span, wrote, wroteLast>>

-----------------------------------------------------------------------------
(* Worker *)

\* Mutant: the writer does not look at run.
WrLoopForever ==
  /\ wrpc = "loop"
  /\ wrpc' = "span"
  /\ UNCHANGED <<ringVars, wrch, wrRun, start, tails, files, span, wrote, wroteLast>>

WrLoop ==
  /\ wrpc = "loop"
  /\ wrpc' = IF wrRun THEN "span" ELSE "closed"
  /\ UNCHANGED <<ringVars, wrch, wrRun, start, tails, files, span, wrote, wroteLast>>

(* A block, or its part up to the end of the buffer; or not produced yet. *)
WrSpan ==
  /\ wrpc = "span"
  /\ LET n == ConsumerSpanLen(wrch, tails[wrch], Block)
     IN  IF n = 0
         THEN NextFile("span", "loop") /\ UNCHANGED <<span, wrote>>
         ELSE wrpc' = "write" /\ span' = n /\ wrote' = 0 /\ UNCHANGED wrch
  /\ UNCHANGED <<ringVars, wrRun, start, tails, files, wroteLast>>

(* fwrite() copies the next sample of the span. *)
WrCopy ==
  /\ wrpc = "write" /\ wrote < span
  /\ files' = [files EXCEPT ![wrch] = Append(@, SampleAt(wrch, tails[wrch] + wrote))]
  /\ wrote' = wrote + 1
  /\ UNCHANGED <<ringVars, wrpc, wrch, wrRun, start, tails, span, wroteLast>>

(* fwrite() returns, having written something: all of it, or less.  *)
WrWritten ==
  /\ wrpc = "write" /\ wrote > 0 /\ (wrote = span \/ ShortWrites)
  /\ wrpc' = "check"
  /\ UNCHANGED <<ringVars, wrch, wrRun, start, tails, files, span, wrote, wroteLast>>

Fail == wrpc' = "failed" /\ wrRun' = FALSE

(* fwrite() returns 0: the exception ends the thread. *)
WrNothing ==
  /\ wrpc = "write" /\ wrote = 0
  /\ Fail
  /\ UNCHANGED <<ringVars, wrch, start, tails, files, span, wrote, wroteLast>>

(* resize_file() to the number of samples written to every channel. *)
Resized(f, n) == [k \in 1 .. n |-> IF k <= Len(f) THEN f[k] ELSE Zero]

(* The block may have been overwritten while it was read. *)
WrTooSlow ==
  /\ wrpc = "check" /\ Clobbered(wrch, tails[wrch])
  /\ files' = [files EXCEPT ![wrch] = Resized(@, wroteLast)]
  /\ Fail
  /\ UNCHANGED <<ringVars, wrch, start, tails, span, wrote, wroteLast>>

\* Mutant: the tail is not compared with what may have been overwritten.
WrAdvanceUnchecked ==
  /\ wrpc = "check"
  /\ tails' = [tails EXCEPT ![wrch] = @ + wrote]
  /\ wroteLast' = IF LastFile THEN wroteLast + wrote ELSE wroteLast
  /\ NextFile("span", "loop")
  /\ UNCHANGED <<ringVars, wrRun, start, files, span, wrote>>

(* The block is good. *)
WrAdvance ==
  /\ wrpc = "check" /\ ~Clobbered(wrch, tails[wrch])
  /\ tails' = [tails EXCEPT ![wrch] = @ + wrote]
  /\ wroteLast' = IF LastFile THEN wroteLast + wrote ELSE wroteLast
  /\ NextFile("span", "loop")
  /\ UNCHANGED <<ringVars, wrRun, start, files, span, wrote>>

WrStep ==
  \/ WrOpen \/ WrRefuse \/ WrLoop \/ WrSpan \/ WrCopy \/ WrWritten
  \/ WrNothing \/ WrTooSlow \/ WrAdvance

(* ~Wr() clears run, then joins and closes the files. *)
WrStop ==
  /\ wrpc \in {"loop", "span", "write", "check"} /\ wrRun
  /\ wrRun' = FALSE
  /\ UNCHANGED <<ringVars, wrpc, wrch, start, tails, files, span, wrote, wroteLast>>

-----------------------------------------------------------------------------
TypeOKWr ==
  /\ wrpc \in {"none", "open", "refused", "loop", "span", "write", "check",
               "failed", "closed"}
  /\ wrch \in Channels /\ wrRun \in BOOLEAN
  /\ start \in Nat /\ tails \in [Channels -> Nat]
  /\ files \in [Channels -> Seq(Samples)]
  /\ span \in 0 .. Block /\ wrote \in 0 .. span
  /\ wroteLast \in Nat

=============================================================================
