--------------------------- MODULE RecorderProofs ---------------------------
(***************************************************************************)
(* Theorems about the readers of the ring buffers, Recorder and Preview,   *)
(* for any number of channels, buffer, packet and block size, stream       *)
(* length and start of the recording.                                      *)
(***************************************************************************)
EXTENDS Recorder, Preview, RxProofs

LEMMA BlockFacts == Block \in Nat /\ Block >= 1 /\ Block <= Size /\ MaxStart \in Nat
BY BlockAssumption, SizeFacts, MaxStartAssumption

LEMMA AppendFacts ==
  ASSUME NEW S, NEW seq \in Seq(S), NEW e \in S
  PROVE  /\ Append(seq, e) \in Seq(S)
         /\ Len(Append(seq, e)) = Len(seq) + 1
         /\ \A i \in 1 .. Len(seq) : Append(seq, e)[i] = seq[i]
         /\ Append(seq, e)[Len(seq) + 1] = e
OBVIOUS

(***************************************************************************)
(* The inductive invariant of Recorder.                                    *)
(***************************************************************************)

LEMMA InitIInvRecorder == InitRecorder => IInvRecorder
<1> SUFFICES ASSUME InitRecorder PROVE IInvRecorder
  OBVIOUS
<1> USE DEF InitRecorder, InitReceiver, InitWr
<1>1. IInvRx
  BY InitIInvRx
<1>2. TypeOKWr
  BY SizeFacts, BlockFacts DEF TypeOKWr, Channels
<1>. QED  BY <1>1, <1>2 DEF IInvRecorder, NotOpenYet, FileContents, CopiedOrOverwritten, Channels

(* Whatever the Rx thread does meanwhile, the files stay right. *)
LEMMA ReceivingStep ==
  ASSUME IInvRecorder, RxStep \/ RxStop \/ UNCHANGED rxAll, UNCHANGED wrVars
  PROVE  IInvRecorder'
<1> USE DEF IInvRecorder, wrVars
<1>1. IInvRx'
  BY RxStepIInvRx, RxStopStep, RxStutter
<1>2. TypeOKWr' /\ NotOpenYet'
  BY DEF TypeOKWr, NotOpenYet
<1>3. \A c \in Channels : /\ head[c] \in Nat /\ head'[c] \in Nat /\ head[c] <= head'[c]
                          /\ Written(c) \in Nat /\ Written(c)' \in Nat
                          /\ Written(c) <= Written(c)'
                          /\ \A i \in Nat : i < head[c] => TimeAt(i)' = TimeAt(i)
  <2>1. \A c \in Channels : head'[c] \in Nat /\ Written(c)' \in Nat
    <3>0. TypeOKRx'
      BY <1>1 DEF IInvRx
    <3>1. head' \in [Channels -> Nat] /\ pkt'.len \in Nat /\ rxch' \in Int
      BY <3>0, SizeFacts DEF TypeOKRx, Channels
    <3>. QED  BY <3>1 DEF Written, Channels
  <2>. QED  BY <2>1, RxMonotone, WrittenFacts
<1>4. /\ tails \in [Channels -> Nat] /\ start \in Nat /\ span \in Nat /\ wrote \in 0 .. span
      /\ wrch \in Channels
  BY BlockFacts DEF TypeOKWr
<1>5. FileContents'
  <2> SUFFICES ASSUME wrpc \in {"loop", "span", "write", "check", "closed"},
                      NEW c \in Channels
               PROVE  /\ tails[c] <= head'[c] \/ tails[c] = start
                      /\ Current(c) => tails[c] + span <= head'[c]
                      /\ \A k \in 1 .. tails[c] - start :
                           files[c][k].time = TimeAt(start + k - 1)'
    BY DEF FileContents, Current
  <2>1. /\ tails[c] <= head[c] \/ tails[c] = start
        /\ Current(c) => tails[c] + span <= head[c]
        /\ \A k \in 1 .. tails[c] - start : files[c][k].time = TimeAt(start + k - 1)
    BY DEF FileContents
  <2>2. ASSUME NEW k \in 1 .. tails[c] - start
        PROVE  TimeAt(start + k - 1)' = TimeAt(start + k - 1)
    <3>1. start + k - 1 \in Nat /\ start + k - 1 < head[c]
      BY <1>3, <1>4, <2>1
    <3>2. \A i \in Nat : i < head[c] => TimeAt(i)' = TimeAt(i)
      BY <1>3
    <3>. QED  BY <3>1, <3>2 DEF TimeAt
  <2>. QED  BY <1>3, <1>4, <2>1, <2>2
<1>6. CopiedOrOverwritten'
  <2> SUFFICES ASSUME wrpc \in {"write", "check"}, NEW k \in 1 .. wrote
               PROVE  \/ files[wrch][tails[wrch] - start + k].time = TimeAt(tails[wrch] + k - 1)'
                      \/ tails[wrch] + k - 1 + Size < Written(wrch)'
    BY DEF CopiedOrOverwritten
  <2>1. \/ files[wrch][tails[wrch] - start + k].time = TimeAt(tails[wrch] + k - 1)
        \/ tails[wrch] + k - 1 + Size < Written(wrch)
    BY DEF CopiedOrOverwritten
  <2>2. tails[wrch] + span <= head[wrch]
    BY <1>4 DEF FileContents, Current
  <2>3. tails[wrch] + k - 1 \in Nat /\ tails[wrch] + k - 1 < head[wrch]
    BY <1>3, <1>4, <2>2
  <2>4. TimeAt(tails[wrch] + k - 1)' = TimeAt(tails[wrch] + k - 1)
    BY <1>3, <1>4, <2>3 DEF TimeAt
  <2>. QED  BY <1>3, <1>4, <2>1, <2>3, <2>4, SizeFacts
<1>. QED  BY <1>1, <1>2, <1>5, <1>6

(* A step of the writer or of main() does not disturb the Rx thread. *)
LEMMA RxUndisturbed ==
  ASSUME IInvRecorder, UNCHANGED rxAll PROVE IInvRx'
BY RxStutter DEF IInvRecorder

LEMMA TimeSteady ==
  ASSUME UNCHANGED rxAll
  PROVE  /\ head' = head /\ \A c : Written(c)' = Written(c)
         /\ \A i : TimeAt(i)' = TimeAt(i)
BY DEF rxAll, ringVars, rxVars, Written, TimeAt

LEMMA WrCreateStep ==
  ASSUME IInvRecorder, WrCreate, UNCHANGED rxVars PROVE IInvRecorder'
<1> USE DEF IInvRecorder
<1>0. /\ wrpc = "none" /\ wrpc' = "open" /\ start' \in Nat
      /\ UNCHANGED <<ringVars, wrch, wrRun, tails, files, span, wrote, wroteLast>>
  BY BlockFacts DEF WrCreate
<1>1. IInvRx'
  BY <1>0, RxUndisturbed DEF rxAll
<1>2. TypeOKWr'
  BY <1>0 DEF TypeOKWr
<1>3. NotOpenYet'
  BY <1>0 DEF NotOpenYet, Channels
<1>. QED  BY <1>0, <1>1, <1>2, <1>3 DEF FileContents, CopiedOrOverwritten

LEMMA WrOpenStep ==
  ASSUME IInvRecorder, WrOpen, UNCHANGED rxVars PROVE IInvRecorder'
<1> USE DEF IInvRecorder
<1>0. /\ wrpc = "open" /\ tails' = [tails EXCEPT ![wrch] = start]
      /\ \/ wrch = NumChannels - 1 /\ wrpc' = "loop" /\ wrch' = 0
         \/ wrch # NumChannels - 1 /\ wrpc' = "open" /\ wrch' = wrch + 1
      /\ UNCHANGED <<ringVars, wrRun, start, files, span, wrote, wroteLast>>
  BY DEF WrOpen, NextFile, LastFile
<1>1. IInvRx'
  BY <1>0, RxUndisturbed DEF rxAll
<1>2. /\ wrch \in 0 .. NumChannels - 1 /\ Channels = 0 .. NumChannels - 1
      /\ start \in Nat /\ tails \in [Channels -> Nat]
  BY DEF TypeOKWr, Channels
<1>3. TypeOKWr'
  <2>1. wrch' \in Channels /\ tails' \in [Channels -> Nat]
    BY <1>0, <1>2, SizeFacts
  <2>. QED  BY <1>0, <2>1 DEF TypeOKWr
<1>4. \A c \in Channels : files[c] = <<>> /\ (c <= wrch => tails'[c] = start)
  BY <1>0, <1>2 DEF NotOpenYet
<1>5. NotOpenYet'
  BY <1>0, <1>2, <1>4 DEF NotOpenYet
<1>6. FileContents'
  <2> SUFFICES ASSUME wrpc' = "loop", NEW c \in Channels
               PROVE  tails'[c] = start /\ files[c] = <<>> /\ start - start = 0
    BY <1>0, <1>2 DEF FileContents, Current
  <2>. QED  BY <1>0, <1>2, <1>4, SizeFacts
<1>7. CopiedOrOverwritten'
  BY <1>0 DEF CopiedOrOverwritten
<1>. QED  BY <1>1, <1>3, <1>5, <1>6, <1>7

LEMMA WrRefuseStep ==
  ASSUME IInvRecorder, WrRefuse, UNCHANGED rxVars PROVE IInvRecorder'
<1> USE DEF IInvRecorder
<1>0. /\ wrpc = "open" /\ wrpc' = "refused"
      /\ UNCHANGED <<ringVars, wrch, wrRun, start, tails, files, span, wrote, wroteLast>>
  BY DEF WrRefuse
<1>1. IInvRx'
  BY <1>0, RxUndisturbed DEF rxAll
<1>. QED  BY <1>0, <1>1 DEF TypeOKWr, NotOpenYet, FileContents, CopiedOrOverwritten

LEMMA WrLoopStep ==
  ASSUME IInvRecorder, WrLoop, UNCHANGED rxVars PROVE IInvRecorder'
<1> USE DEF IInvRecorder
<1>0. /\ wrpc = "loop" /\ wrpc' \in {"span", "closed"}
      /\ UNCHANGED <<ringVars, wrch, wrRun, start, tails, files, span, wrote, wroteLast>>
  BY DEF WrLoop
<1>1. IInvRx' /\ head' = head /\ \A i : TimeAt(i)' = TimeAt(i)
  BY <1>0, RxUndisturbed, TimeSteady DEF rxAll
<1>2. TypeOKWr' /\ NotOpenYet' /\ CopiedOrOverwritten'
  BY <1>0 DEF TypeOKWr, NotOpenYet, CopiedOrOverwritten
<1>3. FileContents'
  BY <1>0, <1>1 DEF FileContents, Current
<1>. QED  BY <1>1, <1>2, <1>3

LEMMA WrSpanStep ==
  ASSUME IInvRecorder, WrSpan, UNCHANGED rxVars PROVE IInvRecorder'
<1> USE DEF IInvRecorder
<1> DEFINE n == ConsumerSpanLen(wrch, tails[wrch], Block)
<1>0. /\ wrpc = "span"
      /\ \/ /\ \/ wrch = NumChannels - 1 /\ wrpc' = "loop" /\ wrch' = 0
               \/ wrch # NumChannels - 1 /\ wrpc' = "span" /\ wrch' = wrch + 1
            /\ UNCHANGED <<span, wrote>>
         \/ n # 0 /\ wrpc' = "write" /\ wrch' = wrch /\ span' = n /\ wrote' = 0
      /\ UNCHANGED <<ringVars, wrRun, start, tails, files, wroteLast>>
  BY DEF WrSpan, NextFile, LastFile
<1>1. IInvRx' /\ head' = head /\ \A i : TimeAt(i)' = TimeAt(i)
  BY <1>0, RxUndisturbed, TimeSteady DEF rxAll
<1>2. /\ wrch \in 0 .. NumChannels - 1 /\ Channels = 0 .. NumChannels - 1
      /\ tails[wrch] \in Nat /\ head[wrch] \in Nat
  BY WrittenFacts DEF TypeOKWr, Channels
<1>3. n \in 0 .. Block /\ (n # 0 => tails[wrch] + n <= head[wrch])
  <2>1. SpanLen(tails[wrch], Block) \in 0 .. Block
    BY <1>2, BlockFacts, SpanLenFacts
  <2>. QED  BY <1>2, <2>1, BlockFacts DEF ConsumerSpanLen
<1> HIDE DEF n
<1>4. TypeOKWr'
  <2>1. wrch' \in Channels
    BY <1>0, <1>2, SizeFacts
  <2>2. span \in 0 .. Block /\ wrote \in 0 .. span
    BY DEF TypeOKWr
  <2>3. span' \in 0 .. Block /\ wrote' \in 0 .. span'
    BY <1>0, <1>3, <2>2, BlockFacts
  <2>. QED  BY <1>0, <2>1, <2>3 DEF TypeOKWr
<1>5. NotOpenYet'
  BY <1>0 DEF NotOpenYet
<1>6. FileContents'
  <2> SUFFICES ASSUME NEW c \in Channels
               PROVE  /\ tails[c] >= start
                      /\ Len(files[c]) = tails[c] - start + (IF Current(c)' THEN wrote' ELSE 0)
                      /\ tails[c] <= head[c] \/ tails[c] = start
                      /\ Current(c)' => tails[c] + span' <= head[c]
                      /\ \A k \in 1 .. tails[c] - start :
                           files[c][k].time = TimeAt(start + k - 1)
    BY <1>0, <1>1 DEF FileContents
  <2>1. Current(c)' => wrote' = 0 /\ tails[c] + span' <= head[c]
    BY <1>0, <1>3 DEF Current
  <2>2. ~Current(c)
    BY <1>0 DEF Current
  <2>. QED  BY <1>0, <2>1, <2>2 DEF FileContents, TypeOKWr
<1>7. CopiedOrOverwritten'
  BY <1>0, <1>2 DEF CopiedOrOverwritten
<1>. QED  BY <1>1, <1>4, <1>5, <1>6, <1>7

LEMMA WrCopyStep ==
  ASSUME IInvRecorder, WrCopy, UNCHANGED rxVars PROVE IInvRecorder'
<1> USE DEF IInvRecorder
<1> DEFINE new == SampleAt(wrch, tails[wrch] + wrote)
<1>0. /\ wrpc = "write" /\ wrpc' = "write" /\ wrote < span /\ wrote' = wrote + 1
      /\ files' = [files EXCEPT ![wrch] = Append(@, new)]
      /\ UNCHANGED <<ringVars, wrch, wrRun, start, tails, span, wroteLast>>
  BY DEF WrCopy
<1>1. /\ IInvRx' /\ head' = head /\ \A i : TimeAt(i)' = TimeAt(i)
      /\ \A c : Written(c)' = Written(c)
  BY <1>0, RxUndisturbed, TimeSteady DEF rxAll
<1>2. /\ wrch \in Channels /\ start \in Nat /\ tails \in [Channels -> Nat]
      /\ tails[wrch] \in Nat /\ span \in Nat /\ wrote \in Nat
      /\ files \in [Channels -> Seq(Samples)] /\ files[wrch] \in Seq(Samples)
  BY BlockFacts DEF TypeOKWr
<1>3. /\ tails[wrch] >= start /\ tails[wrch] + span <= head[wrch]
      /\ Len(files[wrch]) = tails[wrch] - start + wrote
      /\ head[wrch] \in Nat /\ Written(wrch) \in Nat /\ head[wrch] <= Written(wrch)
  BY <1>0, <1>2, WrittenFacts DEF FileContents, Current
<1>4. /\ new \in Samples
      /\ \/ new.time = TimeAt(tails[wrch] + wrote)
         \/ tails[wrch] + wrote + Size < Written(wrch)
  <2>1. /\ tails[wrch] + wrote \in Int
        /\ tails[wrch] + wrote \in 0 .. Written(wrch) - 1
    BY <1>0, <1>2, <1>3
  <2>2. (tails[wrch] + wrote) % Size \in Slots
    BY <2>1, SlotType
  <2>3. new \in Samples
    BY <1>2, <2>2 DEF IInvRx, TypeOKRx, SampleAt
  <2>4. tails[wrch] + wrote + Size >= Written(wrch) => new.time = TimeAt(tails[wrch] + wrote)
    BY <1>2, <2>1 DEF IInvRx, Intact, SampleAt
  <2>. QED  BY <1>2, <1>3, <2>3, <2>4, SizeFacts
<1> HIDE DEF new
<1>5. /\ files' \in [Channels -> Seq(Samples)]
      /\ Len(files'[wrch]) = Len(files[wrch]) + 1
      /\ \A k \in 1 .. Len(files[wrch]) : files'[wrch][k] = files[wrch][k]
      /\ files'[wrch][Len(files[wrch]) + 1] = new
      /\ \A c \in Channels : c # wrch => files'[c] = files[c]
  BY <1>0, <1>2, <1>4, AppendFacts
<1>6. TypeOKWr'
  <2>1. wrote' \in 0 .. span' /\ span' \in 0 .. Block
    BY <1>0, <1>2 DEF TypeOKWr
  <2>2. /\ wrpc' = "write" /\ wrch' \in Channels /\ wrRun' \in BOOLEAN
        /\ start' \in Nat /\ tails' \in [Channels -> Nat] /\ wroteLast' \in Nat
    BY <1>0 DEF TypeOKWr
  <2>. QED  BY <1>5, <2>1, <2>2 DEF TypeOKWr
<1>7. NotOpenYet'
  BY <1>0 DEF NotOpenYet
<1>7a. \A c \in Channels : Current(c)' <=> c = wrch
  BY <1>0 DEF Current
<1>8. FileContents'
  <2> SUFFICES ASSUME NEW c \in Channels
               PROVE  /\ tails[c] >= start
                      /\ Len(files'[c]) = tails[c] - start + (IF c = wrch THEN wrote + 1 ELSE 0)
                      /\ tails[c] <= head[c] \/ tails[c] = start
                      /\ c = wrch => tails[c] + span <= head[c]
                      /\ \A k \in 1 .. tails[c] - start :
                           files'[c][k].time = TimeAt(start + k - 1)
    <3>1. wrpc' = "write" /\ wrote' = wrote + 1 /\ UNCHANGED <<head, start, tails, span>>
      BY <1>0, <1>1
    <3>2. \A i : TimeAt(i)' = TimeAt(i)
      BY <1>1
    <3>. QED  BY <1>7a, <3>1, <3>2 DEF FileContents
  <2>1. /\ tails[c] >= start /\ tails[c] \in Nat
        /\ Len(files[c]) = tails[c] - start + (IF c = wrch THEN wrote ELSE 0)
        /\ tails[c] <= head[c] \/ tails[c] = start
        /\ c = wrch => tails[c] + span <= head[c]
        /\ \A k \in 1 .. tails[c] - start : files[c][k].time = TimeAt(start + k - 1)
    BY <1>0, <1>2 DEF FileContents, Current
  <2>2. CASE c = wrch
    <3>1. \A k \in 1 .. tails[c] - start : k \in 1 .. Len(files[wrch])
      BY <1>2, <1>3, <2>2
    <3>. QED  BY <1>2, <1>3, <1>5, <2>1, <2>2, <3>1
  <2>3. CASE c # wrch
    BY <1>5, <2>1, <2>3
  <2>. QED  BY <2>2, <2>3
<1>9. CopiedOrOverwritten'
  <2> SUFFICES ASSUME NEW k \in 1 .. wrote + 1
               PROVE  \/ files'[wrch][tails[wrch] - start + k].time = TimeAt(tails[wrch] + k - 1)
                      \/ tails[wrch] + k - 1 + Size < Written(wrch)
    BY <1>0, <1>1 DEF CopiedOrOverwritten
  <2>1. CASE k = wrote + 1
    BY <1>2, <1>3, <1>4, <1>5, <2>1
  <2>2. CASE k # wrote + 1
    <3>1. k \in 1 .. wrote /\ tails[wrch] - start + k \in 1 .. Len(files[wrch])
      BY <1>2, <1>3, <2>2
    <3>. QED  BY <1>0, <1>5, <3>1 DEF CopiedOrOverwritten
  <2>. QED  BY <2>1, <2>2
<1>. QED  BY <1>1, <1>6, <1>7, <1>8, <1>9

LEMMA WrWrittenStep ==
  ASSUME IInvRecorder, WrWritten, UNCHANGED rxVars PROVE IInvRecorder'
<1> USE DEF IInvRecorder
<1>0. /\ wrpc = "write" /\ wrpc' = "check"
      /\ UNCHANGED <<ringVars, wrch, wrRun, start, tails, files, span, wrote, wroteLast>>
  BY DEF WrWritten
<1>1. /\ IInvRx' /\ head' = head /\ \A i : TimeAt(i)' = TimeAt(i)
      /\ \A c : Written(c)' = Written(c)
  BY <1>0, RxUndisturbed, TimeSteady DEF rxAll
<1>2. TypeOKWr' /\ NotOpenYet'
  BY <1>0 DEF TypeOKWr, NotOpenYet
<1>3. FileContents'
  BY <1>0, <1>1 DEF FileContents, Current
<1>4. CopiedOrOverwritten'
  BY <1>0, <1>1 DEF CopiedOrOverwritten
<1>. QED  BY <1>1, <1>2, <1>3, <1>4

LEMMA WrFailStep ==
  ASSUME IInvRecorder, WrNothing \/ WrTooSlow, UNCHANGED rxVars PROVE IInvRecorder'
<1> USE DEF IInvRecorder
<1>0. /\ wrpc' = "failed" /\ wrRun' = FALSE
      /\ UNCHANGED <<ringVars, wrch, start, tails, span, wrote, wroteLast>>
      /\ \/ files' = files
         \/ files' = [files EXCEPT ![wrch] = Resized(@, wroteLast)]
  BY DEF WrNothing, WrTooSlow, Fail
<1>1. IInvRx'
  BY <1>0, RxUndisturbed DEF rxAll
<1>2. files' \in [Channels -> Seq(Samples)]
  <2>1. Resized(files[wrch], wroteLast) \in Seq(Samples)
    <3>1. wroteLast \in Nat /\ files[wrch] \in Seq(Samples)
      BY DEF TypeOKWr
    <3>2. Zero \in Samples
      BY DEF Zero, Samples
    <3>3. \A k \in 1 .. wroteLast :
            (IF k <= Len(files[wrch]) THEN files[wrch][k] ELSE Zero) \in Samples
      BY <3>1, <3>2
    <3>. QED  BY <3>1, <3>3 DEF Resized
  <2>. QED  BY <1>0, <2>1 DEF TypeOKWr
<1>3. TypeOKWr'
  BY <1>0, <1>2 DEF TypeOKWr
<1>. QED  BY <1>0, <1>1, <1>3 DEF NotOpenYet, FileContents, CopiedOrOverwritten

(* What lies k samples into a file of t - s samples lies k - (t - s) into  *)
(* the w samples appended to them.                                         *)
LEMMA IntoBlock ==
  ASSUME NEW s \in Nat, NEW t \in Nat, NEW w \in Nat, t >= s,
         NEW k \in 1 .. t + w - s, k > t - s
  PROVE  \E j \in 1 .. w : t - s + j = k /\ t + j - 1 = s + k - 1
<1>1. k - (t - s) \in 1 .. w
  OBVIOUS
<1>. QED  BY <1>1

LEMMA WrAdvanceStep ==
  ASSUME IInvRecorder, WrAdvance, UNCHANGED rxVars PROVE IInvRecorder'
<1> USE DEF IInvRecorder
<1>0. /\ wrpc = "check" /\ ~Clobbered(wrch, tails[wrch])
      /\ tails' = [tails EXCEPT ![wrch] = @ + wrote]
      /\ wroteLast' \in {wroteLast, wroteLast + wrote}
      /\ \/ wrch = NumChannels - 1 /\ wrpc' = "loop" /\ wrch' = 0
         \/ wrch # NumChannels - 1 /\ wrpc' = "span" /\ wrch' = wrch + 1
      /\ UNCHANGED <<ringVars, wrRun, start, files, span, wrote>>
  BY DEF WrAdvance, NextFile, LastFile
<1>1. IInvRx' /\ head' = head /\ \A i : TimeAt(i)' = TimeAt(i)
  BY <1>0, RxUndisturbed, TimeSteady DEF rxAll
<1>2. /\ wrch \in 0 .. NumChannels - 1 /\ Channels = 0 .. NumChannels - 1
      /\ start \in Nat /\ tails \in [Channels -> Nat] /\ wroteLast \in Nat
      /\ tails[wrch] \in Nat /\ span \in Nat /\ wrote \in 0 .. span /\ wrote \in Nat
  BY BlockFacts DEF TypeOKWr, Channels
<1>3. /\ tails[wrch] >= start /\ tails[wrch] + span <= head[wrch]
      /\ Len(files[wrch]) = tails[wrch] - start + wrote
      /\ head[wrch] \in Nat /\ Written(wrch) \in Nat /\ Written(wrch) <= clob[wrch]
      /\ clob[wrch] \in Nat
      /\ \A k \in 1 .. tails[wrch] - start : files[wrch][k].time = TimeAt(start + k - 1)
  BY <1>0, <1>2, WrittenFacts DEF FileContents, Current
<1>4. ASSUME NEW k \in 1 .. wrote
      PROVE  files[wrch][tails[wrch] - start + k].time = TimeAt(tails[wrch] + k - 1)
  <2>1. ~(tails[wrch] + Size < clob[wrch])
    BY <1>0 DEF Clobbered
  <2>2. tails[wrch] \in Nat /\ k \in Nat /\ k >= 1 /\ Size \in Nat
    BY <1>2, SizeFacts
  <2>3. Written(wrch) \in Nat /\ clob[wrch] \in Nat /\ Written(wrch) <= clob[wrch]
    BY <1>3
  <2>4. ~(tails[wrch] + k - 1 + Size < Written(wrch))
    BY <2>1, <2>2, <2>3
  <2>. QED  BY <1>0, <2>4 DEF CopiedOrOverwritten
<1>5. \A c \in Channels : tails'[c] = IF c = wrch THEN tails[c] + wrote ELSE tails[c]
  BY <1>0, <1>2
<1>6. TypeOKWr'
  <2>1. wrch' \in Channels /\ wroteLast' \in Nat /\ tails' \in [Channels -> Nat]
    BY <1>0, <1>2, SizeFacts
  <2>. QED  BY <1>0, <2>1 DEF TypeOKWr
<1>7. NotOpenYet'
  BY <1>0 DEF NotOpenYet
<1>8. FileContents'
  <2> SUFFICES ASSUME NEW c \in Channels
               PROVE  /\ tails'[c] >= start
                      /\ Len(files[c]) = tails'[c] - start + 0
                      /\ tails'[c] <= head[c] \/ tails'[c] = start
                      /\ \A k \in 1 .. tails'[c] - start :
                           files[c][k].time = TimeAt(start + k - 1)
    BY <1>0, <1>1 DEF FileContents, Current
  <2>1. CASE c = wrch
    <3>1. tails'[c] = tails[wrch] + wrote
      BY <1>5, <2>1
    <3>2. tails[wrch] \in Nat /\ start \in Nat /\ wrote \in Nat /\ tails[wrch] >= start
      BY <1>2, <1>3
    <3>3. ASSUME NEW k \in 1 .. tails[wrch] + wrote - start
          PROVE  files[wrch][k].time = TimeAt(start + k - 1)
      <4>1. CASE k <= tails[wrch] - start
        BY <1>3, <3>2, <4>1
      <4>2. CASE k > tails[wrch] - start
        <5>1. PICK j \in 1 .. wrote : /\ tails[wrch] - start + j = k
                                      /\ tails[wrch] + j - 1 = start + k - 1
          BY <3>2, <4>2, IntoBlock
        <5>2. files[wrch][tails[wrch] - start + j].time = TimeAt(tails[wrch] + j - 1)
          BY <1>4
        <5>. QED  BY <5>1, <5>2
      <4>. QED  BY <3>2, <4>1, <4>2
    <3>4. /\ tails'[c] >= start
          /\ Len(files[c]) = tails'[c] - start + 0
          /\ tails'[c] <= head[c]
      BY <1>2, <1>3, <2>1, <3>1
    <3>5. tails'[c] - start = tails[wrch] + wrote - start
      BY <3>1, <3>2
    <3>6. \A k \in 1 .. tails'[c] - start : files[c][k].time = TimeAt(start + k - 1)
      BY <2>1, <3>3, <3>5
    <3>. QED  BY <3>4, <3>6
  <2>2. CASE c # wrch
    <3>1. tails'[c] = tails[c] /\ tails[c] \in Nat
      BY <1>2, <1>5, <2>2
    <3>2. Len(files[c]) = tails[c] - start + 0
      BY <1>0, <2>2 DEF FileContents, Current
    <3>. QED  BY <1>0, <3>1, <3>2 DEF FileContents
  <2>. QED  BY <2>1, <2>2
<1>9. CopiedOrOverwritten'
  BY <1>0 DEF CopiedOrOverwritten
<1>. QED  BY <1>1, <1>6, <1>7, <1>8, <1>9

LEMMA WrStopStep ==
  ASSUME IInvRecorder, WrStop, UNCHANGED rxVars PROVE IInvRecorder'
<1> USE DEF IInvRecorder
<1>0. /\ wrRun' = FALSE
      /\ UNCHANGED <<ringVars, wrpc, wrch, start, tails, files, span, wrote, wroteLast>>
  BY DEF WrStop
<1>1. /\ IInvRx' /\ head' = head /\ \A i : TimeAt(i)' = TimeAt(i)
      /\ \A c : Written(c)' = Written(c)
  BY <1>0, RxUndisturbed, TimeSteady DEF rxAll
<1>2. TypeOKWr' /\ NotOpenYet'
  BY <1>0 DEF TypeOKWr, NotOpenYet
<1>3. FileContents'
  BY <1>0, <1>1 DEF FileContents, Current
<1>4. CopiedOrOverwritten'
  BY <1>0, <1>1 DEF CopiedOrOverwritten
<1>. QED  BY <1>1, <1>2, <1>3, <1>4

LEMMA NextIInvRecorder == IInvRecorder /\ [NextRecorder]_recVars => IInvRecorder'
<1> SUFFICES ASSUME IInvRecorder, [NextRecorder]_recVars PROVE IInvRecorder'
  OBVIOUS
<1>1. CASE Receiving \/ StopReceiving
  BY <1>1, ReceivingStep DEF Receiving, StopReceiving
<1>2. CASE Writing
  BY <1>2, WrOpenStep, WrRefuseStep, WrLoopStep, WrSpanStep, WrCopyStep, WrWrittenStep,
     WrFailStep, WrAdvanceStep DEF Writing, WrStep
<1>3. CASE StartWriting
  BY <1>3, WrCreateStep DEF StartWriting
<1>4. CASE StopWriting
  BY <1>4, WrStopStep DEF StopWriting
<1>5. CASE UNCHANGED recVars
  BY <1>5, ReceivingStep DEF recVars, rxAll
<1>. QED  BY <1>1, <1>2, <1>3, <1>4, <1>5 DEF NextRecorder

(***************************************************************************)
(* The theorems about Recorder.                                            *)
(***************************************************************************)

(* The inductive invariant holds of every behaviour. *)
THEOREM RecorderInvariance == SafeRecorder => []IInvRecorder
<1>. QED  BY InitIInvRecorder, NextIInvRecorder, PTL DEF SafeRecorder

(* Every variable of the writer keeps its type. *)
THEOREM WrTypeCorrect == SafeRecorder => []TypeOKWr
<1>1. IInvRecorder => TypeOKWr
  BY DEF IInvRecorder
<1>. QED  BY <1>1, RecorderInvariance, PTL

(* However the two threads interleave, an accepted block is the right one. *)
THEOREM Recording == SafeRecorder => []FilesTimeAligned
<1>1. IInvRecorder => FilesTimeAligned
  <2> SUFFICES ASSUME IInvRecorder, wrpc \in {"loop", "closed"}, NEW c \in Channels
               PROVE  /\ Len(files[c]) = tails[c] - start
                      /\ \A k \in 1 .. Len(files[c]) :
                           files[c][k].time = TimeAt(start + k - 1)
    BY DEF FilesTimeAligned
  <2>1. ~Current(c)
    BY DEF Current
  <2>2. tails[c] \in Nat /\ start \in Nat
    BY DEF IInvRecorder, TypeOKWr
  <2>. QED  BY <2>1, <2>2 DEF IInvRecorder, FileContents
<1>. QED  BY <1>1, RecorderInvariance, PTL

(* The writer and main() never write what the Rx thread works with, so all *)
(* theorems about the Rx thread alone hold of a recording too.             *)
THEOREM RxUnaffected == SafeRecorder => SafeSpecRx
<1>1. InitRecorder => InitReceiver
  BY DEF InitRecorder
<1>2. [NextRecorder]_recVars => [NextRx]_rxAll
  <2> SUFFICES ASSUME [NextRecorder]_recVars PROVE [NextRx]_rxAll
    OBVIOUS
  <2>1. CASE Receiving \/ StopReceiving
    BY <2>1 DEF Receiving, StopReceiving, NextRx
  <2>2. ASSUME WrStep \/ WrCreate \/ WrStop PROVE UNCHANGED ringVars
    BY <2>2 DEF WrStep, WrOpen, WrRefuse, WrLoop, WrSpan, WrCopy, WrWritten, WrNothing,
                WrTooSlow, WrAdvance, WrCreate, WrStop
  <2>3. CASE Writing \/ StartWriting \/ StopWriting
    BY <2>2, <2>3 DEF Writing, StartWriting, StopWriting, rxAll
  <2>4. CASE UNCHANGED recVars
    BY <2>4 DEF recVars, rxAll
  <2>. QED  BY <2>1, <2>3, <2>4 DEF NextRecorder
<1>. QED  BY <1>1, <1>2, PTL DEF SafeRecorder, SafeSpecRx, rxAll

(***************************************************************************)
(* Preview: what main() has copied of a block.                             *)
(***************************************************************************)

(* A slot that nothing was stored in yet is zero. *)
Blank == \A c \in Channels : \A s \in Slots : s >= Written(c) => mem[c][s].time = -1

(* What a buffer holds is the channel's own, or zero, or the first         *)
(* channel's, whose packets are stored in every channel after a gap.       *)
OwnOrFirst ==
  \A c \in Channels : \A s \in Slots : mem[c][s].chan \in {-1, 0, c}

(* And so is what main() has copied.                                       *)
CopiedOwnOrFirst ==
  pvpc = "copy" => \A k \in 1 .. Len(payload) : payload[k].chan \in {-1, 0, pvch}

(* What main() has copied of the block is right, unless the Rx thread has  *)
(* since stored something over it.                                         *)
CopiedBlock ==
  pvpc = "copy" =>
    /\ aligned <= head[pvch]
    /\ \A k \in 1 .. Len(payload) :
         \/ payload[k].time = TimeFrom(BlockStart(aligned) + k - 1)
         \/ BlockStart(aligned) + k - 1 + Size < Written(pvch)

IInvPreview ==
  IInvRx /\ Blank /\ OwnOrFirst /\ TypeOKPreview /\ CopiedBlock /\ CopiedOwnOrFirst

pvAll == <<ringVars, rxVars, pvVars>>

LEMMA PubFacts == PubSamples \in Nat /\ PubSamples >= 1 /\ 2 * PubSamples <= Size
BY PubSamplesAssumption

(* The slots that are not reached by storing n samples. *)
LEMMA BlankAhead ==
  ASSUME NEW c \in Channels, head[c] \in Nat, NEW n \in Nat, NEW s \in Slots, s >= head[c] + n
  PROVE  ~(Ahead(c, s) < n)
<1>1. s \in Int /\ s - head[c] \in Int /\ 0 <= s - head[c] /\ s - head[c] < Size
      /\ s - head[c] >= n
  BY SizeFacts DEF Slots
<1>2. s % Size = s
  BY <1>1, SizeFacts DEF Slots
<1>3. Ahead(c, s) = s - head[c]
  BY <1>1, SizeFacts DEF Ahead
<1>. QED  BY <1>1, <1>3

LEMMA BlankRecv == ASSUME IInvRx, Blank, RxRecv PROVE Blank'
<1>1. /\ rxpc = "recv" /\ rxch' = rxch /\ head' = head
      /\ rxpc' = IF contiguous THEN "produce" ELSE "place"
      /\ ~contiguous => mem' = mem
  BY DEF RxRecv
<1>2. contiguous \in BOOLEAN /\ head \in [Channels -> Nat] /\ rxMax \in 0 .. MaxPkt
  BY DEF IInvRx, TypeOKRx
<1>3. CASE ~contiguous
  BY <1>1, <1>3 DEF Blank, Written
<1>4. CASE contiguous
  <2>1. PICK n \in 1 .. rxMax :
          /\ pkt' = [ts |-> dev, len |-> n]
          /\ mem' = [c \in Channels |->
                       Stored(c, n, [d \in 0 .. n - 1 |-> Sample(c, dev + d)])]
    BY <1>4 DEF RxRecv
  <2>2. n \in Nat /\ pkt'.len = n
    BY <1>2, <2>1, SizeFacts
  <2> SUFFICES ASSUME NEW c \in Channels, NEW s \in Slots, s >= Written(c)'
               PROVE  mem'[c][s].time = -1
    BY DEF Blank
  <2>3. rxch = 0 /\ c >= 0 /\ head[c] \in Nat
    BY <1>1, <1>2 DEF IInvRx, Announced, Channels
  <2>4. Written(c)' = head[c] + n /\ Written(c) = head[c]
    BY <1>1, <1>4, <2>2, <2>3 DEF Written
  <2>5. ~(Ahead(c, s) < n)
    BY <2>2, <2>3, <2>4, BlankAhead
  <2>6. mem'[c][s] = mem[c][s]
    BY <2>1, <2>5 DEF Stored
  <2>7. s >= Written(c)
    BY <2>2, <2>3, <2>4, SizeFacts DEF Slots
  <2>. QED  BY <2>6, <2>7 DEF Blank
<1>. QED  BY <1>2, <1>3, <1>4

LEMMA BlankFill == ASSUME IInvRx, Blank, RxFill PROVE Blank'
<1> DEFINE n == ProducerSpanLen(rxch, Remaining)
<1>1. /\ rxpc \in {"padding", "copying"} /\ rxpc' \in {"pad", "copy"}
      /\ \E f : mem' = [mem EXCEPT ![rxch] = Stored(rxch, n, f)]
      /\ head' = [head EXCEPT ![rxch] = @ + n]
  BY DEF RxFill, Produce
<1>2. n \in Nat
  BY <1>1, RemainingFacts
<1> HIDE DEF n
<1>3. /\ head \in [Channels -> Nat] /\ rxch \in Channels
      /\ mem \in [Channels -> [Slots -> Samples]]
  BY DEF IInvRx, TypeOKRx
<1> SUFFICES ASSUME NEW c \in Channels, NEW s \in Slots, s >= Written(c)'
             PROVE  mem'[c][s].time = -1
  BY DEF Blank
<1>4. Written(c)' = head'[c] + 0 /\ Written(c) = head[c] + 0 /\ head[c] \in Nat /\ s \in Nat
  BY <1>1, <1>3, SizeFacts DEF Written, Slots
<1>5. CASE c = rxch
  <2>1. head'[c] = head[c] + n
    BY <1>1, <1>3, <1>5
  <2>2. ~(Ahead(c, s) < n)
    BY <1>2, <1>4, <2>1, BlankAhead
  <2>3. mem'[c][s] = mem[c][s]
    BY <1>1, <1>3, <1>5, <2>2 DEF Stored
  <2>. QED  BY <1>2, <1>4, <2>1, <2>3 DEF Blank
<1>6. CASE c # rxch
  <2>1. head'[c] = head[c] /\ mem'[c] = mem[c]
    BY <1>1, <1>3, <1>6
  <2>. QED  BY <1>4, <2>1 DEF Blank
<1>. QED  BY <1>5, <1>6

LEMMA BlankKept == ASSUME IInvRx, IInvRx', Blank, RxStep \/ RxStop \/ UNCHANGED rxAll PROVE Blank'
<1>1. CASE RxRecv
  BY <1>1, BlankRecv
<1>2. CASE RxFill
  BY <1>2, BlankFill
<1>3. ASSUME ~RxRecv, ~RxFill PROVE mem' = mem
  BY <1>3 DEF RxStep, RxLoop, RxSpan, RxRecvNone, RxOverflow, RxFatal, RxProduce, RxPlace,
              RxFillSpan, RxPadded, RxCopied, RxDrain, RxStop, rxAll, ringVars, rxVars
<1>4. ASSUME mem' = mem, NEW c \in Channels, NEW s \in Slots, s >= Written(c)'
      PROVE  mem'[c][s].time = -1
  <2>1. Written(c) <= Written(c)' /\ Written(c) \in Nat /\ s \in Nat
    BY WrittenFacts, RxMonotone, SizeFacts DEF Slots
  <2>2. Written(c)' \in Nat
    <3>1. TypeOKRx'
      BY DEF IInvRx
    <3>2. head' \in [Channels -> Nat] /\ pkt'.len \in Nat /\ rxch' \in Int
      BY <3>1, SizeFacts DEF TypeOKRx, Channels
    <3>. QED  BY <3>2 DEF Written, Channels
  <2>. QED  BY <1>4, <2>1, <2>2 DEF Blank
<1>. QED  BY <1>1, <1>2, <1>3, <1>4 DEF Blank

LEMMA OwnRecv == ASSUME IInvRx, OwnOrFirst, RxRecv PROVE OwnOrFirst'
<1>1. \/ mem' = mem
      \/ \E n \in 1 .. rxMax :
           mem' = [c \in Channels |->
                     Stored(c, n, [d \in 0 .. n - 1 |-> Sample(c, dev + d)])]
  BY DEF RxRecv
<1>2. CASE mem' = mem
  BY <1>2 DEF OwnOrFirst
<1>3. ASSUME NEW n \in 1 .. rxMax,
             mem' = [c \in Channels |->
                       Stored(c, n, [d \in 0 .. n - 1 |-> Sample(c, dev + d)])]
      PROVE  OwnOrFirst'
  <2> SUFFICES ASSUME NEW c \in Channels, NEW s \in Slots
               PROVE  mem'[c][s].chan \in {-1, 0, c}
    BY DEF OwnOrFirst
  <2> DEFINE new == [d \in 0 .. n - 1 |-> Sample(c, dev + d)]
  <2>1. mem'[c] = Stored(c, n, new)
    BY <1>3
  <2>2. mem'[c][s] = IF Ahead(c, s) < n THEN new[Ahead(c, s)] ELSE mem[c][s]
    BY <2>1 DEF Stored
  <2>3. Ahead(c, s) \in Nat
    BY SizeFacts DEF Ahead, Slots, IInvRx, TypeOKRx
  <2>4. n \in Nat
    BY SizeFacts DEF IInvRx, TypeOKRx
  <2>5. Ahead(c, s) < n => Ahead(c, s) \in 0 .. n - 1
    BY <2>3, <2>4
  <2>6. \A d \in 0 .. n - 1 : new[d].chan = c
    BY DEF Sample
  <2> HIDE DEF new
  <2>. QED  BY <2>2, <2>5, <2>6 DEF OwnOrFirst
<1>. QED  BY <1>1, <1>2, <1>3

LEMMA OwnFill == ASSUME IInvRx, OwnOrFirst, RxFill PROVE OwnOrFirst'
<1> DEFINE n == ProducerSpanLen(rxch, Remaining)
           new == [d \in 0 .. n - 1 |-> IF rxpc = "padding" THEN Zero ELSE Copied(d)]
<1>1. mem' = [mem EXCEPT ![rxch] = Stored(rxch, n, new)] /\ rxpc \in {"padding", "copying"}
  BY DEF RxFill
<1>2. n \in Nat
  BY <1>1, RemainingFacts
<1>3. \A d \in 0 .. n - 1 : new[d].chan \in {-1, 0}
  BY DEF Copied, Sample, Zero
<1> HIDE DEF n, new
<1>4. /\ head \in [Channels -> Nat] /\ rxch \in Channels
      /\ mem \in [Channels -> [Slots -> Samples]]
  BY DEF IInvRx, TypeOKRx
<1> SUFFICES ASSUME NEW c \in Channels, NEW s \in Slots
             PROVE  mem'[c][s].chan \in {-1, 0, c}
  BY DEF OwnOrFirst
<1>5. CASE c = rxch
  <2>1. mem'[c][s] = IF Ahead(c, s) < n THEN new[Ahead(c, s)] ELSE mem[c][s]
    BY <1>1, <1>4, <1>5 DEF Stored
  <2>2. Ahead(c, s) \in Nat
    BY <1>4, SizeFacts DEF Ahead, Slots
  <2>3. Ahead(c, s) < n => Ahead(c, s) \in 0 .. n - 1
    BY <1>2, <2>2
  <2>. QED  BY <1>3, <2>1, <2>3 DEF OwnOrFirst
<1>6. CASE c # rxch
  <2>1. mem'[c] = mem[c]
    BY <1>1, <1>4, <1>6
  <2>. QED  BY <2>1 DEF OwnOrFirst
<1>. QED  BY <1>5, <1>6

LEMMA OwnKept ==
  ASSUME IInvRx, OwnOrFirst, RxStep \/ RxStop \/ UNCHANGED rxAll PROVE OwnOrFirst'
<1>1. ASSUME ~RxRecv, ~RxFill PROVE mem' = mem
  BY <1>1 DEF RxStep, RxLoop, RxSpan, RxRecvNone, RxOverflow, RxFatal, RxProduce, RxPlace,
              RxFillSpan, RxPadded, RxCopied, RxDrain, RxStop, rxAll, ringVars, rxVars
<1>2. ASSUME mem' = mem PROVE OwnOrFirst'
  BY <1>2 DEF OwnOrFirst
<1>. QED  BY <1>1, <1>2, OwnRecv, OwnFill

LEMMA InitIInvPreview == InitPreview => IInvPreview
<1> SUFFICES ASSUME InitPreview PROVE IInvPreview
  OBVIOUS
<1>1. IInvRx
  BY InitIInvRx DEF InitPreview, InitReceiver
<1>2. Blank
  BY DEF InitPreview, InitReceiver, InitRing, Blank, Zero
<1>3. TypeOKPreview
  BY PubFacts, SizeFacts DEF InitPreview, TypeOKPreview, Channels
<1>4. OwnOrFirst
  BY DEF InitPreview, InitReceiver, InitRing, OwnOrFirst, Zero
<1>. QED
  BY <1>1, <1>2, <1>3, <1>4 DEF IInvPreview, CopiedBlock, CopiedOwnOrFirst, InitPreview

(* The block is in the buffer in one piece. *)
LEMMA BlockInBuffer ==
  ASSUME NEW a \in Nat, NEW k \in 1 .. PubSamples
  PROVE  /\ BlockStart(a) + k - 1 \in Int /\ BlockStart(a) + k - 1 < a
         /\ BlockStart(a) + k - 1 >= -Size
         /\ BlockSlot(a) + (k - 1) \in Slots
         /\ BlockSlot(a) + (k - 1) = (BlockStart(a) + k - 1) % Size
         /\ BlockStart(a) + k - 1 < 0 => BlockSlot(a) + (k - 1) = BlockStart(a) + k - 1 + Size
<1> DEFINE r == a % Size
           q == a \div Size
           B == PubSamples
<1>1. /\ r \in 0 .. Size - 1 /\ q \in Nat /\ a = Size * q + r /\ r \in Int
      /\ B \in Nat /\ B >= 1 /\ 2 * B <= Size /\ Size \in Nat /\ k \in 1 .. B
  BY SizeFacts, PubFacts
<1>2. /\ Size * q \in Nat /\ Size * (q - 1) \in Int /\ Size * (q - 1) = Size * q - Size
      /\ q \in Int /\ q - 1 \in Int
      /\ q = 0 => Size * q = 0
      /\ q # 0 => Size * q >= Size
  <2>1. CASE q = 0
    BY <2>1, SizeFacts
  <2>2. CASE q # 0
    <3>1. q - 1 \in Nat /\ Size * q = Size * (q - 1) + Size
      BY <1>1, <2>2
    <3>2. Size * (q - 1) \in Nat
      BY <1>1, <3>1
    <3>. QED  BY <1>1, <2>2, <3>1, <3>2
  <2>. QED  BY <2>1, <2>2
<1>3. /\ BlockStart(a) = IF r >= B THEN a - B ELSE a - 2 * B
      /\ BlockSlot(a) = IF r >= B THEN r - B ELSE ((a - B) % Size) - B
  BY DEF BlockStart, BlockSlot
<1> HIDE DEF r, q, B
<1>4. CASE r >= B
  <2> DEFINE x == r - B + (k - 1)
  <2>1. /\ x \in Int /\ 0 <= x /\ x < Size /\ BlockStart(a) + k - 1 = x + Size * q
        /\ BlockSlot(a) + (k - 1) = x /\ x < r
    <3>1. k - 1 \in Int /\ 0 <= k - 1 /\ k - 1 <= B - 1 /\ r - B \in Int /\ 0 <= r - B
      BY <1>1, <1>4
    <3>2. x \in Int /\ 0 <= x /\ x < r /\ x < Size
      BY <3>1, <1>1
    <3>3. BlockSlot(a) + (k - 1) = x
      BY <1>3, <1>4
    <3>4. BlockStart(a) + k - 1 = x + Size * q
      <4>1. BlockStart(a) = a - B
        BY <1>3, <1>4
      <4> DEFINE u == Size * q
      <4>2. u \in Int /\ a = u + r
        BY <1>1, <1>2
      <4> HIDE DEF u
      <4>3. BlockStart(a) + k - 1 = x + u
        BY <1>1, <4>1, <4>2
      <4>. QED  BY <4>3 DEF u
    <3>. QED  BY <3>2, <3>3, <3>4
  <2> HIDE DEF x
  <2>2. (x + Size * q) % Size = x
    BY <2>1, <1>2, Remainder
  <2>3. x \in Slots
    BY <2>1, <1>1 DEF Slots
  <2>4. x + Size * q >= 0 /\ x + Size * q < a /\ x + Size * q \in Int
    BY <2>1, <1>1, <1>2
  <2>. QED  BY <2>1, <2>2, <2>3, <2>4, <1>1
<1>5. CASE r < B
  <2> DEFINE x == r - 2 * B + Size + (k - 1)
             y == r - B + Size
  <2>1. /\ x \in Int /\ 0 <= x /\ x < Size /\ y \in Int /\ 0 <= y /\ y < Size
        /\ BlockStart(a) + k - 1 = x + Size * (q - 1) /\ a - B = y + Size * (q - 1)
        /\ BlockSlot(a) = ((a - B) % Size) - B /\ y - B + (k - 1) = x
    BY <1>1, <1>2, <1>3, <1>5
  <2>2. x + Size * (q - 1) < a
    BY <1>1, <1>2, <1>5
  <2> HIDE DEF x, y
  <2>3. (x + Size * (q - 1)) % Size = x /\ (y + Size * (q - 1)) % Size = y
    BY <2>1, <1>2, Remainder
  <2>4. BlockSlot(a) + (k - 1) = x
    BY <2>1, <2>3, <1>1
  <2>5. x \in Slots
    BY <2>1, <1>1 DEF Slots
  <2>6. /\ x + Size * (q - 1) >= -Size /\ x + Size * (q - 1) \in Int
        /\ x + Size * (q - 1) < 0 => x = x + Size * (q - 1) + Size
    <3>1. CASE q = 0
      BY <3>1, <2>1, <1>1, <1>2
    <3>2. CASE q # 0
      BY <3>2, <2>1, <1>1, <1>2
    <3>. QED  BY <3>1, <3>2
  <2>. QED  BY <2>1, <2>2, <2>3, <2>4, <2>5, <2>6
<1>. QED  BY <1>1, <1>4, <1>5

(* Whatever the Rx thread does meanwhile, the copy stays right. *)
LEMMA ReceivingPreview ==
  ASSUME IInvPreview, RxStep \/ RxStop \/ UNCHANGED rxAll, UNCHANGED pvVars
  PROVE  IInvPreview'
<1> USE DEF IInvPreview, pvVars
<1>1. IInvRx'
  BY RxStepIInvRx, RxStopStep, RxStutter
<1>2. Blank'
  BY <1>1, BlankKept
<1>3. TypeOKPreview'
  BY DEF TypeOKPreview
<1>4. CopiedBlock'
  <2> SUFFICES ASSUME pvpc = "copy"
               PROVE  /\ aligned <= head'[pvch]
                      /\ \A k \in 1 .. Len(payload) :
                           \/ payload[k].time = TimeFrom(BlockStart(aligned) + k - 1)'
                           \/ BlockStart(aligned) + k - 1 + Size < Written(pvch)'
    BY DEF CopiedBlock, BlockStart
  <2>1. /\ pvch \in Channels /\ aligned \in Nat /\ Len(payload) \in Nat
        /\ Len(payload) <= PubSamples
    BY DEF TypeOKPreview
  <2>2. TypeOKRx'
    BY <1>1 DEF IInvRx
  <2>3. head'[pvch] \in Nat /\ Written(pvch)' \in Nat
    <3>1. head' \in [Channels -> Nat] /\ pkt'.len \in Nat /\ rxch' \in Int
      BY <2>2, SizeFacts DEF TypeOKRx, Channels
    <3>. QED  BY <2>1, <3>1 DEF Written, Channels
  <2>4. /\ head[pvch] \in Nat /\ Written(pvch) \in Nat
        /\ head[pvch] <= head'[pvch] /\ Written(pvch) <= Written(pvch)'
        /\ \A i \in Nat : i < head[pvch] => TimeAt(i)' = TimeAt(i)
    BY <2>1, RxMonotone, WrittenFacts
  <2>5. aligned <= head[pvch]
    BY DEF CopiedBlock
  <2>6. aligned <= head'[pvch]
    BY <2>1, <2>3, <2>4, <2>5
  <2>7. ASSUME NEW k \in 1 .. Len(payload)
        PROVE  \/ payload[k].time = TimeFrom(BlockStart(aligned) + k - 1)'
               \/ BlockStart(aligned) + k - 1 + Size < Written(pvch)'
    <3> DEFINE p == BlockStart(aligned) + k - 1
    <3>1. k \in 1 .. PubSamples
      BY <2>1, PubFacts
    <3>2. p \in Int /\ p < aligned
      BY <2>1, <3>1, BlockInBuffer
    <3>3. payload[k].time = TimeFrom(p) \/ p + Size < Written(pvch)
      BY DEF CopiedBlock
    <3>4. p' = p
      BY DEF BlockStart
    <3> HIDE DEF p
    <3>5. p >= 0 => TimeAt(p)' = TimeAt(p)
      <4>1. p >= 0 => p \in Nat /\ p < head[pvch]
        BY <3>2, <2>1, <2>4, <2>5
      <4>2. \A i \in Nat : i < head[pvch] => TimeAt(i)' = TimeAt(i)
        BY <2>4
      <4>3. p >= 0 => (\A i \in {p} : TimeAt(i)' = TimeAt(i))
        BY <4>1, <4>2
      <4>. QED  BY <3>4, <4>3 DEF TimeAt
    <3>6. TimeFrom(p)' = TimeFrom(p)
      BY <3>2, <3>4, <3>5 DEF TimeFrom
    <3>7. p + Size < Written(pvch) => p + Size < Written(pvch)'
      BY <3>2, <2>3, <2>4, SizeFacts
    <3>. QED  BY <3>3, <3>4, <3>6, <3>7 DEF p
  <2>. QED  BY <2>6, <2>7
<1>5. OwnOrFirst'
  BY OwnKept
<1>6. CopiedOwnOrFirst'
  BY DEF CopiedOwnOrFirst
<1>. QED  BY <1>1, <1>2, <1>3, <1>4, <1>5, <1>6

(* main() reads, and writes nothing that the Rx thread works with. *)
LEMMA PublishingStep ==
  ASSUME IInvPreview, PreviewStep, UNCHANGED <<ringVars, rxVars>> PROVE IInvPreview'
<1>0. UNCHANGED rxAll
  BY DEF rxAll
<1>1. IInvRx'
  BY <1>0, RxStutter DEF IInvPreview
<1>2. Blank'
  BY <1>0, <1>1, BlankKept DEF IInvPreview
<1>3. /\ head' = head /\ mem' = mem /\ \A c : Written(c)' = Written(c)
      /\ \A i : TimeAt(i)' = TimeAt(i)
  BY <1>0 DEF rxAll, ringVars, rxVars, Written, TimeAt
<1>4. /\ TypeOKPreview /\ CopiedBlock /\ OwnOrFirst /\ CopiedOwnOrFirst
      /\ head \in [Channels -> Nat] /\ mem \in [Channels -> [Slots -> Samples]]
      /\ pvch \in Channels /\ pvch \in Nat /\ aligned \in Nat
      /\ payload \in Seq(Samples) /\ Len(payload) \in Nat
      /\ NumChannels \in Nat /\ NumChannels >= 1
  BY SizeFacts DEF IInvPreview, IInvRx, TypeOKRx, TypeOKPreview, Channels
<1> SUFFICES TypeOKPreview' /\ CopiedBlock' /\ CopiedOwnOrFirst'
  <2>1. OwnOrFirst'
    BY <1>0, OwnKept DEF IInvPreview
  <2>. QED  BY <1>1, <1>2, <2>1 DEF IInvPreview
<1>5. CASE PreviewBegin
  BY <1>4, <1>5 DEF PreviewBegin, TypeOKPreview, CopiedBlock, CopiedOwnOrFirst, Channels
<1>6. CASE PreviewBlock
  <2> DEFINE a == head[pvch] - (head[pvch] % PubSamples)
  <2>1. a \in Nat /\ a <= head[pvch]
    <3>1. head[pvch] \in Nat
      BY <1>4
    <3>. QED  BY <3>1, PubFacts
  <2>2. aligned' = a /\ pvpc' = "copy" /\ payload' = <<>> /\ pvch' = pvch
    BY <1>6 DEF PreviewBlock
  <2> HIDE DEF a
  <2>3. CopiedOwnOrFirst'
    BY <2>2 DEF CopiedOwnOrFirst
  <2>. QED  BY <1>3, <1>4, <2>1, <2>2, <2>3, PubFacts DEF TypeOKPreview, CopiedBlock
<1>7. CASE PreviewCopy
  <2> DEFINE k == Len(payload) + 1
             p == BlockStart(aligned) + k - 1
             e == mem[pvch][BlockSlot(aligned) + Len(payload)]
  <2>1. /\ pvpc = "copy" /\ pvpc' = pvpc /\ pvch' = pvch /\ aligned' = aligned
        /\ Len(payload) < PubSamples /\ payload' = Append(payload, e)
    BY <1>7 DEF PreviewCopy
  <2>2. k \in 1 .. PubSamples /\ k - 1 = Len(payload)
    BY <1>4, <2>1, PubFacts
  <2>3. /\ p \in Int /\ p < aligned /\ p >= -Size
        /\ BlockSlot(aligned) + Len(payload) \in Slots
        /\ BlockSlot(aligned) + Len(payload) = p % Size
        /\ p < 0 => BlockSlot(aligned) + Len(payload) = p + Size
    BY <1>4, <2>2, BlockInBuffer
  <2>4. e \in Samples /\ e.chan \in {-1, 0, pvch}
    BY <1>4, <2>3 DEF OwnOrFirst
  <2>5. /\ Written(pvch) \in Nat /\ head[pvch] <= Written(pvch) /\ head[pvch] \in Nat
        /\ aligned <= head[pvch]
    BY <1>4, <2>1, WrittenFacts DEF IInvPreview, CopiedBlock
  <2> HIDE DEF p, e, k
  <2>6. e.time = TimeFrom(p) \/ p + Size < Written(pvch)
    <3> SUFFICES ASSUME p + Size >= Written(pvch) PROVE e.time = TimeFrom(p)
      BY <2>3, <2>5, SizeFacts
    <3>1. CASE p >= 0
      <4>1. p \in 0 .. Written(pvch) - 1
        BY <3>1, <1>4, <2>3, <2>5
      <4>2. mem[pvch][p % Size].time = TimeAt(p)
        BY <4>1, <1>4 DEF IInvPreview, IInvRx, Intact
      <4>. QED  BY <3>1, <4>2, <2>3 DEF TimeFrom, e
    <3>2. CASE p < 0
      <4>1. p + Size \in Slots /\ mem[pvch][p + Size].time = -1
        BY <3>2, <1>4, <2>3 DEF IInvPreview, Blank
      <4>. QED  BY <3>2, <4>1, <2>3 DEF TimeFrom, e
    <3>. QED  BY <3>1, <3>2, <2>3
  <2>7. /\ payload' \in Seq(Samples) /\ Len(payload') = k
        /\ \A i \in 1 .. Len(payload) : payload'[i] = payload[i]
        /\ payload'[k] = e
    BY <1>4, <2>1, <2>4, AppendFacts DEF k
  <2>8. TypeOKPreview'
    BY <1>4, <2>1, <2>2, <2>7, PubFacts DEF TypeOKPreview
  <2>9. ASSUME NEW i \in 1 .. k
        PROVE  \/ payload'[i].time = TimeFrom(BlockStart(aligned) + i - 1)
               \/ BlockStart(aligned) + i - 1 + Size < Written(pvch)
    <3>1. CASE i = k
      BY <3>1, <2>6, <2>7 DEF p
    <3>2. CASE i # k
      <4>1. i \in 1 .. Len(payload)
        BY <3>2, <1>4, <2>2
      <4>. QED  BY <4>1, <1>4, <2>1, <2>7 DEF CopiedBlock
    <3>. QED  BY <3>1, <3>2
  <2>10. CopiedBlock'
    BY <1>3, <2>1, <2>5, <2>7, <2>9 DEF CopiedBlock, TimeFrom, BlockStart
  <2>11. ASSUME NEW i \in 1 .. k PROVE payload'[i].chan \in {-1, 0, pvch}
    <3>1. CASE i = k
      BY <3>1, <2>4, <2>7
    <3>2. CASE i # k
      <4>1. i \in 1 .. Len(payload)
        BY <3>2, <1>4, <2>2
      <4>. QED  BY <4>1, <1>4, <2>1, <2>7 DEF CopiedOwnOrFirst
    <3>. QED  BY <3>1, <3>2
  <2>12. CopiedOwnOrFirst'
    BY <2>1, <2>7, <2>11 DEF CopiedOwnOrFirst
  <2>. QED  BY <2>8, <2>10, <2>12
<1>8. CASE PreviewDone
  <2>1. pvch' \in Channels /\ pvpc' \in {"idle", "block"} /\ payload' = <<>> /\ aligned' = aligned
    BY <1>4, <1>8 DEF PreviewDone, Channels
  <2>. QED  BY <1>4, <2>1, PubFacts DEF TypeOKPreview, CopiedBlock, CopiedOwnOrFirst
<1>. QED  BY <1>5, <1>6, <1>7, <1>8 DEF PreviewStep

LEMMA NextIInvPreview == IInvPreview /\ [NextPreview]_pvAll => IInvPreview'
<1> SUFFICES ASSUME IInvPreview, [NextPreview]_pvAll PROVE IInvPreview'
  OBVIOUS
<1>1. CASE ReceivePreview
  BY <1>1, ReceivingPreview DEF ReceivePreview, NextRx
<1>2. CASE Publishing
  BY <1>2, PublishingStep DEF Publishing
<1>3. CASE UNCHANGED pvAll
  BY <1>3, ReceivingPreview DEF pvAll, rxAll
<1>. QED  BY <1>1, <1>2, <1>3 DEF NextPreview

(***************************************************************************)
(* The theorems about Preview.                                             *)
(***************************************************************************)

(* The inductive invariant holds of every behaviour. *)
THEOREM PreviewInvariance == SafePreview => []IInvPreview
<1>. QED  BY InitIInvPreview, NextIInvPreview, PTL DEF SafePreview, pvAll

(* Every variable of the preview keeps its type. *)
THEOREM PreviewTypeCorrect == SafePreview => []TypeOKPreview
<1>1. IInvPreview => TypeOKPreview
  BY DEF IInvPreview
<1>. QED  BY <1>1, PreviewInvariance, PTL

(* However the Rx thread interferes, what is published is a block of       *)
(* consecutive samples, from the channel or from the first one, unless the *)
(* Rx thread has announced to overwrite it: for any number of channels and *)
(* any size of the buffer and the block.                                   *)
THEOREM Previews == SafePreview => []PreviewIsBlock
<1>1. IInvPreview => PreviewIsBlock
  <2> SUFFICES ASSUME IInvPreview, pvpc = "copy", BlockStart(aligned) + Size >= clob[pvch],
                      NEW k \in 1 .. Len(payload)
               PROVE  /\ payload[k].time = TimeFrom(BlockStart(aligned) + k - 1)
                      /\ payload[k].chan \in {-1, 0, pvch}
    BY DEF PreviewIsBlock
  <2>1. pvch \in Channels /\ aligned \in Nat /\ k \in 1 .. PubSamples
    BY PubFacts DEF IInvPreview, TypeOKPreview
  <2>2. Written(pvch) <= clob[pvch] /\ Written(pvch) \in Nat /\ clob[pvch] \in Nat
    BY <2>1, WrittenFacts DEF IInvPreview
  <2>3. BlockStart(aligned) + k - 1 \in Int /\ BlockStart(aligned) \in Int
    BY <2>1, PubFacts DEF BlockStart
  <2>4. ~(BlockStart(aligned) + k - 1 + Size < Written(pvch))
    BY <2>1, <2>2, <2>3, SizeFacts
  <2>. QED  BY <2>4 DEF IInvPreview, CopiedBlock, CopiedOwnOrFirst
<1>. QED  BY <1>1, PreviewInvariance, PTL

(* Publishing only reads, so the theorems about the Rx thread hold next to *)
(* a preview as well.                                                      *)
THEOREM PreviewHarmless == SafePreview => SafeSpecRx
<1>1. InitPreview => InitReceiver
  BY DEF InitPreview
<1>2. [NextPreview]_pvAll => [NextRx]_rxAll
  BY DEF NextPreview, ReceivePreview, Publishing, pvAll, rxAll
<1>. QED  BY <1>1, <1>2, PTL DEF SafePreview, SafeSpecRx, pvAll, rxAll
=============================================================================
