# usrp_rxtx in TLA+

`usrp_rxtx` streams samples between a USRP software radio and a host: it records what it
receives into shared-memory ring buffers and, on request, into files, and it transmits a
periodic signal, both in step with a common clock, so that several nodes stay coherent. This
directory holds TLA+ models of its threads, TLC configurations that check them on small
instances, and TLAPS proofs, for instances of every size, of every invariant that the configurations check.

All paths below are relative to the repository's root (`src/src/rx.cpp` is `src/rx.cpp` there).

## The system

| Component | State | Operations | Talks to |
|---|---|---|---|
| Message queue, `mpsc.hpp` | 64-bit `head`, `tail`, `used`, slots with a `valid` flag | `push()` by any thread, `pop()` by one | the logger |
| Logger, `logging.{hpp,cpp}` | queue, run flag, condition variable | `log*()`, worker, destructor | everybody logs |
| Ring buffer, `ringbuf.{hpp,cpp,h}` | shared memory; `head`, `clob` | producer span, produce; tail, consumer span, clobber distance | Rx thread writes; writer, `main()` and other processes read |
| Rx thread, `rx.cpp` | expected time, contiguity, temporary buffers | receive, pad, copy, publish | USRP, ring buffers |
| Writer, `wr.cpp` | a tail and a file per channel | open, write a block, check, truncate, stop | ring buffers, file system |
| Tx thread, `tx.cpp` | samples in the burst, mute and run flags | start, send, handle errors, end a burst, mute | USRP |
| `main.cpp` | pending signals, all components, PID file, exit code | set up, handle signals, supervise, shut down | everything |
| MQTT client, `mqtt.cpp` | connection, run flag | publish or drop, network loop, reconnect | broker |
| Synchronisation, `sync.cpp` | none of its own; the USRP's clock | wait for PPS edges, set the time | USRP |
| Configuration, JSON, errors | none | parse, format | |
| MQTT client of the utilities, `utils/*/opt/*/asyncio_mqtt.py` | connection, worker task, message queue | enter, leave, reconnect, iterate | broker |
| FS740 logger, `fs740.py` | connection, answers still to come | configure, ask, publish, leave and enter again | device, the client above |
| Correction relay, `ntrip_client.py`, `ntrip2mqtt.py` | connection, time of the next position | connect, send the position, read, publish | NTRIP caster, the client above |
| Rover, `f9p_rover.py`, `ubx_parser.py` | parser's buffer; the receiver's configuration | compare, set in chunks, compare, stream | receiver, the client above |
| `lc_xo.py`, `hwmon.py` | a dictionary between two lines; none | parse, publish | device, sensors, the client above |

Threads share memory without locks: atomic run flags, the queue, the ring buffers. Data flows
USRP → Rx thread → ring buffers → writer → files, and signal → `main()` → start or stop of the
writer, or the mute flag of the Tx thread. What is hard is listed with its place in the code in
`PROJECT.json`, "hazards": interleavings of the lock-free structures; a reader that is being
overtaken while it reads; a clock that is set by another clock while time goes on; a socket that
one thread polls and another replaces; gaps in the stream of any length at any time; errors of the USRP that
arrive late, in any order; signals and failures of threads at any moment; shutdown on every way
out.

What makes each component correct:

* *queue*: no slot is used by two threads, every accepted object comes out once, in ticket order;
* *logger*: a lost notification does not lose a message, and the destructor drains the queue alone;
* *ring buffer and Rx thread*: what is published and not announced as clobbered is the sample of exactly its time;
* *writer*: a file holds the samples of the right times without a gap, however the two threads race;
* *Tx thread*: every transmitted sample belongs to its moment, whatever went wrong before;
* *synchronisation*: the USRP shows the true time afterwards, whatever it showed before, and a time-out means that there were no edges;
* *MQTT client*: a slow or broken uplink does not pile up messages, a broker that comes back is reached, the library outlives its use;
* *utilities' MQTT client*: it agrees with its library on the connection, comes back to a broker that stays, and can be left in any state;
* *FS740 logger*: a record consists of the answers to its own questions, and logging resumes after every failure;
* *correction relay*: corrections flow again once the caster and the broker stay;
* *rover*: positions come from a receiver that has exactly the target configuration;
* *main*: threads are joined in the right order on every way out, failures are noticed, signals do what they are documented to do.

## Modules

| Module | Models | Notes |
|---|---|---|
| `BoundedFifo` | what the queue promises | abstract specification |
| `Mpsc` | `mpsc.hpp`, one action per atomic step | implements `BoundedFifo` |
| `MpscProofs` | | theorems about `Mpsc` and `Logger` |
| `Logger` | `logging.*` on top of `Mpsc` | extends `Mpsc` |
| `Ringbuf` | `ringbuf.hpp` | operators and state shared by `Rx` and `Wr` |
| `Rx` | `rx.cpp`, `Rx::worker()` and the destructor | extends `Ringbuf` |
| `RxProofs` | | theorems about `Rx` |
| `Preview` | `get_aligned_samples()` and the publication of samples by `main()` | extends `Rx` |
| `Wr` | `wr.cpp` | extends `Ringbuf` |
| `Recorder` | `Rx` and `Wr` around the same buffers | extends both |
| `RecorderProofs` | | theorems about `Recorder` and `Preview` |
| `Tx` | `tx.cpp` and an external USRP transmitter | |
| `TxProofs` | | theorems about `Tx` |
| `Main` | `main.cpp` and the life cycle of all threads | |
| `MainProofs` | | theorems about `Main` |
| `Sync` | `sync.cpp`, an external USRP clock and the host's clock | |
| `MqttClient` | `mqtt.cpp` and an external libmosquitto, kernel and broker | |
| `Startup` | `main()` from the MQTT client to the loop, and the client's end | extends `Sync` and `MqttClient` |
| `SyncProofs` | | lemmas: every step of `Sync`, in any composition, preserves its invariant |
| `StartupProofs` | | such lemmas about `MqttClient`, and the theorems about `Startup` from both |
| `AsyncMqtt` | `asyncio_mqtt.py` and an external paho, network and broker | five equal copies |
| `Fs740` | `fs740.py` and an external device | extends `AsyncMqtt` |
| `Ntrip` | `ntrip_client.py`, `ntrip2mqtt.py` and an external caster | extends `AsyncMqtt` |
| `Rover` | the configuration by `f9p_rover.py` and an external receiver | extends `AsyncMqtt` |
| `Utilities` | the client in the hands of any one of its programs | extends the three |
| `AsyncMqttProofs` | | theorems about `AsyncMqtt`, `Fs740`, `Ntrip` and `Rover`, under `Utilities` |

**`Mpsc`.** A producer is at one of `push()`'s steps (`pc`): reserve a slot with `fetch_add`, be
refused and give the reservation back, take a ticket, write the slot, mark it valid. The consumer
(`cpc`) reads `used`, looks at the oldest slot, moves the object out, marks it invalid, releases,
advances. `order` and `out` are histories: objects in ticket order, objects popped. Steps are
interleaved as in a sequentially consistent memory.

**`Logger`.** `LogPush` runs a push to its end, `Notify` is the `notify_one()` after it, which is
lost unless the worker is waiting at that moment. The worker's `wait_for()` may always return
(`Wake`: notified, spuriously, or after 50 ms). `Destroy` may only begin when no thread is inside
a log function, as `logging.cpp:735` demands; `Main` shows that `main()` keeps to it.

**`Ringbuf`.** Positions count samples since the start of the stream and never wrap; position *i*
is stored in slot *i* mod `Size`. A sample is the pair of its channel and its time, which is all
that the properties compare. `GetProducerSpan` sets `clob`,
which after an overflow may go back, as a shorter span is announced than before; `Produce` raises
`head`, which never goes back.

**`Rx`.** `rxpc` names the place in the worker's loop; a call on each channel is an action per
channel. Time counts samples since the start of the stream. The USRP is external: `RxRecv` returns
any number of consecutive samples up to the limit, `RxOverflow` loses any number of samples,
`RxFatal` is every other error. `lost` is the history of the times that were never delivered. The
first packet may come one sample early or late. Unsigned arithmetic is kept modulo `Word`.

**`Wr`, `Recorder`.** `fwrite()` copies one sample per step, so that the Rx thread can overtake it
anywhere, and may stop short. `Recorder` interleaves both threads and `main()`'s calls.

**`Preview`.** `main()` takes the last whole block behind `head` of each channel, or the one before
if that would reach across the end of the buffer, and copies it sample by sample into the message
while the Rx thread runs on. `aligned` is the local variable of `get_aligned_samples()`, `payload`
what has been copied. Where the block lies is given twice, as slots (`BlockSlot`, from the code) and
as positions (`BlockStart`, for the property). The property says of which time each sample is, and that
its channel is the preview's own or the first: more cannot be promised, as `rx.cpp:247` (`Copied`)
stores the first channel's samples for every channel after a gap.

**`Tx`.** The worker's place is `txpc`. The USRP is a FIFO of packets (start of burst, sample, end
of burst), a transmitter that takes one sample per sample period and gives up on a burst after any
error, and the queue of messages to the host. Only device time modulo the signal's period matters
(`phase`); the start of a burst is kept as the time left until then. A burst that is sent while
another is in progress may lose its time (`tx.cpp:192-196`). An end of burst waits for room in the FIFO
up to the time-out of its `send()`, and is lost if there is none (`TxEobLost`, `tx.cpp:187`): the burst
then goes on, and the next one follows it. `air` is the sample on the air and the
phase it was sent at.

**`Main`.** Each component's thread is `none`, `running`, `stopping` (its run flag is cleared),
`ended` or `joined`. Time is in whole seconds. Blocked signals are a set, because a pending signal
is not counted twice. `clob` is the second up to which the Rx thread has announced its next span,
which `get_tail()` compares a recording's start with; it lags the USRP's time, so that a start that has
just passed may be accepted. `RxReceives` raises it, `WrWrites` records a second that is announced and
over, and `recorded` is the history of these. `RecordingsFollow` relates the start of a new recording
to this history and to the names of all files, though neither is looked at when the start is chosen
(`main.cpp:315`). `Destruction` is the order in which the local variables are destroyed.

**`Sync`.** Time is counted in ticks of true time. PPS edges are at the full seconds; the USRP's
clock is `offset` ticks ahead, the host's at most `HostError` off. `Tick` lets time pass in the
steps where delays matter, up to `MaxDelay` ticks between two steps of the thread (the sleep of
1 ms included), and is where an edge latches `lastPps` and a time set for the next edge takes
effect. `calls` is what `main()` has still to call for the setting of `usrp.sync`, `spc` the place in
the first of these calls; `wait_pps()` is called twice, which `leg` tells apart. A signal may be
missing from the start or fail after the first edge, a PLL may never lock. `hidden` is the history
of an edge that left the time of the last PPS unchanged, as happens on a USRP that was exactly one
second fast: `wait_pps()` cannot see such an edge (`sync.cpp:130`).

**`MqttClient`.** A message is the room that it takes. `queued` is what the library holds, `kernel`
what is in the socket's send buffer, which holds `SysBuf` messages, or `SndBuf` once `setsockopt()`
has limited it. After a reconnection `setsockopt()` may fail, which is logged only (`mqtt.cpp:206`): the
socket keeps the system's buffer, which the history `optFailed` tells, until the next reconnection.
`BacklogStops` holds all the same, as `poll()` reports what room there is. `publish()` is two steps, `poll()` and `mosquitto_publish()`, between which the worker
may write, fail, close the socket and open another. The other end of a socket is alive, silent or
gone; silence is noticed after the keepalive time. `mosquitto_loop()` fails with its socket
closed, or (`LoopErrs`) open. `sinceFull` is the history that counts messages queued while there was
no room.

**`Startup`.** `mpc` is the place of `main()`: client, USRP, rates, synchronisation, tuning and the
wait for the oscillators, frontends, loop, stop, join. Each step up to the loop may throw, those of the
synchronisation included (`SetupThrows`). Setting the rates makes
the USRP's time jump (`Jump`), which is why synchronisation comes after it.

**`AsyncMqtt`.** One action runs from one `await` to the next, or is one callback of paho's, because
the event loop runs them whole; `exec` is the thread in which paho's `reconnect()` runs meanwhile.
`worker` and `user` are the places of the background task and of the task that enters and leaves
the client, `iter` that of an `async for`. `_connect_errors` is kept up to the length of
`connect_delay`, beyond which it no longer matters; how long a delay is, is left out. `failed` is a
history. When entering fails the program ends; systemd starts it again (`Restarted`, `Restart=always`
in the `.service` files). `EnterAgain` is what only the FS740 logger does: it enters the same object
again, whose socket and paho session may have survived. paho then believes that it is not connected and
sends no more pings (`unpinged`), until `loop_misc()` gives the session up.

**`Fs740`.** `fpc` is the place of `main()`, `q` the number of the question of the cycle. Questions and
answers are kept by their form only (`Questions`); `Converts` says which forms of answers the code can
take for which question. `lag` counts the answers that are still to come for a `TBAS:TINT?` that was
given up after 0.1 s: the next line is the answer to the question `lag` before. Every exception leaves
the MQTT client and the connection, and both are entered again.

**`Ntrip`.** `npc` is the place in `__anext__()` and `main()`, `link` is `_connected`, `peer` what has
become of the other end, `located` whether the caster has been told a position over this connection,
without which it sends nothing. Time-outs and errors while connecting are tried again; what is not
caught ends the program, and it is restarted.

**`Rover`.** A configuration is a function from keys to values, a page a set of pairs. The receiver
answers a poll with a page and an acknowledgement, so that an acknowledgement may be read by a later
transaction. `stage` is the transaction of `rtk_parse()`, `pos` and `got` are local variables of
`cfg_get()`. The receiver may already be configured, in part or by somebody else; `RvStopped` is a
signal at any moment.

**`Utilities`.** `program` is chosen once; the program's steps and the client's are interleaved. The
choice `other` may enter, iterate and leave at any moment.

## What is checked

One run per component; each asks for safety and, under the fairness described below, for
liveness.

| Run | Question |
|---|---|
| `mpsc` | three producers on four slots: exclusion, exact counters, order, refusals only near capacity, refinement of `BoundedFifo` (which includes that accepted objects are popped) |
| `logger` | no message stuck or reordered; one consumer; the destructor returns |
| `preview` | the promise of the ring buffers at every step of the Rx thread; a preview that was not overtaken is one aligned block of consecutive samples, its own channel's or, after a gap, the first's (finding `rx_channels`) |
| `recorder` | the files of two channels against a racing Rx thread; no channel is forgotten; a stopped writer ends |
| `tx` | coherence, bursts that do not overlap, silence while muted; mute silences for good; a stopped worker ends with the gain restored |
| `main` | orderly shutdown with the PID file in place, exit code, recordings that neither overlap nor share a name; failures are noticed, termination signals terminate |
| `startup` | every setting of `usrp.sync`, missing signals, delays and faults of the network at any moment: true time, truthful time-outs, no backlog, limited buffers (but where setting one failed), a clean end; connections come back, and only an unlocked PLL holds `main()` up |
| `utilities` | under each of its programs, the client's idea of the connection is paho's, retries are delayed; a broker that stays is reached; entering and leaving end; no record of shifted answers; logging and corrections resume; positions only from a configured receiver |

Four more runs show that the code does not do what its documentation or comments say; each
counterexample is a finding in `PROJECT.json`:

| Run | Finding |
|---|---|
| `rx_channels` | after a gap, every channel gets the first channel's samples (`rx.cpp:247`) |
| `recorder_truncated` | truncation by the last channel's count (`wr.cpp:129`) |
| `tx_gain` | muting lowers the gain of the first channel only (`tx.cpp:233`) |
| `main_latch` | a failing Rx thread leaves `main()` waiting for ever (`rx.cpp:41`) |

Weaker observations, of what no document excludes or where only a wish is stated, are not runs:

* A writer that is stopped does not write the blocks received until then (`wr.cpp:101`; README.md:137 says "flush buffers").
* A termination request between lines 182 and 115 of `tx.cpp` leaves a burst without its end.
* SIGUSR1 right after the start, or twice within a second with a stop in between, makes the constructor of the writer throw, which ends the program (`main.cpp:312`). README.md:135 promises the toggle and does not name this case.
* `rx.lo_source` is applied to every channel at `main.cpp:242` and then refused at line 255 unless it is `twinrx_shared`; README.md:104 lists it as a setting.
* `mqtt.cpp:195` says "wait at least 5 seconds before retrying to reconnect". That holds after a failed attempt; a connection that is accepted and then fails at once is retried without a delay.
* Previews are published without a check whether they were overtaken, and consist of zeros before the first block (`main.cpp:419`).
* On a USRP whose clock was exactly one second fast, the edge that sets the time shows no change, so that the wait takes a second longer, or times out if the signal fails in this second (`sync.cpp:130`).
* An FS740 that answers `TBAS:TINT?` later than 0.1 s every time never gets a record logged: the answers stay shifted until one does not convert, the connection is closed, and the next cycle ends the same way (`fs740.py:318`). `AnswersMatch` holds because of the order of the questions: the shifted answer to the question before `SYST:ERR?` is an integer, which is no error.
* `fs740.py:447` says that the PPS edge is synchronised "when FS740 locks for the first time"; the flag is local to `log()`, so that it is synchronised again after every reconnection.
* When the device is not an FS740 or does not answer `*IDN?`, `__aenter__()` fails after it has opened a connection, which nobody closes (`fs740.py:210`).
* The relay publishes an empty message when the caster closes the connection (`ntrip_client.py:90`).
* `f9p_rover.py` waits without a time-out: an answer that the receiver never sends holds it up for good (`f9p_rover.py:84`).
* A warning survives the rejection of a time sentence and is published with the next trace (`lc_xo.py:176`), which the comment at lines 205-206 means to avoid.
* `on_disconnect()` cancels `_task_worker`, whichever it is by then: a DISCONNECT that gets out only after the client was entered again would cancel the new worker (`asyncio_mqtt.py:156`). `EnterAgain` assumes that the ten seconds of `fs740.py:553` are enough for it.

Every property of a passing run has a mutant in `PROJECT.json`: an operator beside the mapped one
that changes it as a plausible bug would, and breaks the property.

### Bounds

* `Mpsc`: four slots and six pushes by three producers: tickets go round, `used` exceeds the capacity by two, and the bound of `RefusedOnlyWhenNearlyFull` (two live objects) is not trivial. Histories are bounded by `MaxPush`.
* `Preview` (and `Rx`): a buffer of four samples, packets of one or two, `MaxTime` six: the buffer wraps, packets straddle its end, gaps are shorter than, equal to and longer than the limit `MaxLost`. `Word` is larger than every time that occurs, as 2^64 is.
  Previews are of two samples, so that the block right behind `head` and the one before it both occur, and the Rx thread can lap either.
* `Recorder`: blocks of two samples, a recording from position 1 on (position 0 is always refused) and positions up to four in a buffer of two, so that the Rx thread laps the writer and blocks straddle the buffer's end; `recorder_truncated` has a buffer of four.
* `Tx`: a period of three samples and chunks of two, so that chunks straddle the period; a FIFO of five packets, so that it fills up; a delay of two. Devices with and without `bug_error_burst_ack` are in the same run.
* `Main`: two seconds and three signals, enough for a recording that is started, stopped and started again, in the same second and in different ones.
* `Startup`: seven ticks to the second, a host clock off by one and delays of one tick: the least resolution that `PromptAssumption` allows, so that every delay falls on either side of an edge and of the point where rounding changes. A USRP with the true time and one that is a second fast, which is the case of a hidden edge. A send buffer of one message, limited from two; a queue of three; one fault of the network or of the thread on top of the synchronisation's own.
* `Utilities`: two faults (of the broker, its connection, the device or the caster, or a stop of the rover) and two messages, at any moment: a reconnection that fails, a session lost during the handshake, a message after the queue is gone, a device that fails while the broker is away. A `connect_delay` of two entries is exceeded by one. Two answers may be late (`MaxLag`), of which only one ever is, by `ShiftStops`. Four keys in pages of two, of which two are set in two chunks: a full page that is the last, a page of its own for each chunk, and keys that no chunk sets.

### Fairness

A thread that can take a step takes one eventually: no thread waits on a lock, and every blocking
call in a loop has a time-out (`wait_for` 50 ms, `recv()` 2 s and 0.1 s, `recv_async_msg()` 0.1 s,
`sigtimedwait()` 0.1 s). Fairness is weak and for a thread as a whole, never for a single branch:
no run assumes that samples arrive, that an acknowledgement comes, or that anybody logs or sends a
signal. `recorder` assumes in addition that `fwrite()` returns; `tx` that the USRP's clock runs;
`main` that the set-up ends (the loops that wait for locked oscillators have no time-out). In `main`
the Rx thread may fail before it has set up its stream; `FailureIsNoticed` and `TerminationEnds`
exempt the state `StuckOnLatch` that this leads to, and run `main_latch` reports it. So
`TerminationEnds` does not cover the waits within the set-up, at `main.cpp:207` and `sync.cpp:40`,
which never end if an oscillator does not lock; these are the exceptions of `NeverHeldUp`.

`startup` assumes fairness of `main()`, of the client's worker, of the clock, and that a silent
connection is given up after its keepalive time. It assumes no broker, no signal and no lock:
`Reconnects` is conditional on a broker that stays, and `NeverHeldUp` excepts the two loops that wait
for a lock without a time-out (`StuckUnlocked`, `StuckOnLo`; `sync.cpp:39` calls this a "FIXME").
`mosquitto_reconnect()` is assumed to return, which may take minutes (`mqtt.cpp:176`).

`Sync` assumes that the thread is prompt (`PromptAssumption`): nothing in the code enforces it. From
an edge to the reading of the host's clock there are three delays, not two: until the thread looks
whether its time is up, until it looks at the USRP, and until it reads the clock. That it is three
came out of the proof, which failed for two; the true time needs that, together with the clock's
error, they stay below half a second.

`utilities` assumes that tasks and callbacks that are ready run, that `reconnect()` returns (it has a
time-out), and that a broker that holds a connection answers CONNECT. It assumes neither that a
broken connection is reported (`loop_misc()` finds it in the end) nor that the broker is ever up:
`EventuallyConnects` is conditional on a broker that stays. Beyond that (`UtilitiesSpec`), a DISCONNECT
that is queued gets out, as the socket is empty; the FS740 logger's and the relay's next step happens,
as each has a time-out or an answer; and the time of the next position comes. `LogsAgain` is conditional on
a device that stays prompt, `CorrectionsFlow` on a caster and a broker that stay. The refusal of a
connection (`NtRefused`) and the rover's receiver are not assumed to be fair.

In `tx` the wait for an acknowledgement may time out at any moment, and so may the sending of an
end of burst while the FIFO is full. `late` remembers that the former did while the USRP was still
playing out a burst, or that the latter did at all; from then on the worker may start a burst over
another, and the safety properties promise nothing. With the time-out of 0.1 s against a FIFO that
holds much less, this is a fault of the device or of the network.

## What is proved

The proofs hold for every value of the constants that satisfies the named assumptions (powers of
two where the code's masks need them, packets no larger than the buffer, blocks no larger than the
buffer); TLC evaluates the assumptions in the runs.

* **Queue** (`MpscProofs`). `IInv` relates the counters to the places of the producers: `used` is
  the number of live tickets plus reservations, tickets of producers in `push()` are live and
  distinct, and a slot is valid exactly if its ticket has been published and not yet released. Two
  live tickets are less than `N` apart, so that they never share a slot. `Exclusion`, `ExactCount`,
  `TicketOrder`, `Refusal` and `TypeCorrect` follow; `Implementation` shows that every step is a step of
  `BoundedFifo` or a stutter.
* **Logger** (`MpscProofs`). `IInvLogger` is the queue's `IInv` (every step of the logger is a step of
  the queue or leaves it alone, `LoggerQueue`) and what the thread that pops is at: between the release
  of a slot and the end of writing one object is in hand, the last one popped (`HandInv`), and what is
  written is what was popped but for that one (`WrittenInv`); once the destructor runs nobody logs, so
  whatever `used` counts is published, and a `pop()` that finds nothing has found the queue empty
  (`DrainInv`). `SingleConsumer` and `LogComplete` follow. An object must be distinct from an empty
  `std::optional` (`NoneAssumption`). `LoggerFifo` carries the refinement over; `DrainTerminates` gives
  the steps that the destructor has left (`DrainLeft`), which each of its steps lowers while nobody else
  moves: draining cannot go on for ever. That it always has a next step, and takes it, is left to TLC.
* **Rx thread** (`RxProofs`). `WindowIsIntact` is not inductive: it does not say what has been
  stored and not published. `IInvRx` adds how far each channel is at each place of the loop
  (`Progress`), what has been stored beyond `head` (`Intact`), what `clob` already announces
  (`Announced`), and how the USRP's time, the expected time and the lost samples are related
  (`Timing`). `Window`, `Alignment`, `Announcement` and `RxTypeCorrect` follow. `Readers` is the
  action property on which every reader relies: although `clob` may go back, a sample that is within
  the window after a step was there before it, so that a copy made without a lock is good if the check
  *after* it succeeds.
* **Recording** (`RecorderProofs`). `IInvRecorder` adds for the block being written that each copied
  sample is the right one *or* its position has since been stored over; in the latter case `clob`
  is ahead and the check after `fwrite()` refuses the block. `Recording` (`FilesTimeAligned`)
  follows, and `RxUnaffected` says that a recording's Rx thread behaves as the Rx thread alone.
* **Preview** (`RecorderProofs`). Likewise each sample copied is right *or* has since been stored over
  (`CopiedBlock`), and of its own channel or the first (`OwnOrFirst`, an invariant of everything a
  buffer holds); positions before the stream count as zeros; for these the invariant says that
  slots nothing was stored in are zero (`Blank`). `Previews` (`PreviewIsBlock`) and `PreviewHarmless`.
* **Transmission** (`TxProofs`). As long as no acknowledgement comes late and no end of burst is lost (`late`), `InTime` ties the worker's
  place to the FIFO and the transmitter: a burst is waiting behind what the one before left there
  (`Pending`), or on the air, each packet being the sample of the moment its turn comes (`OnAir`), or
  dropped after an error (`Dropping`); it was ended and everything is acknowledged or about to be
  (`Ended`), or there is none (`Quiet`). A start that is about to be sent is aligned to the period
  (`StartAligned`). `Coherence`, `NoOverlap` and `Silence` follow, for any period, packet size, FIFO,
  delay and number of channels. Which of the two kinds of device it is (`bugAck`) decides what an
  error leaves in the FIFO.

* **Main loop** (`MainProofs`). `OrderlyShutdown` speaks of joined threads, so the invariant says at
  which place of `main()` which threads can exist at all and in which state (`Phases`); `HeldPidFile`
  ties the PID file to these places, `WhyItEnds` the exit code to what happened. `Orderly` and
  `Truthful` follow. `NewRecordings` (`RecordingsFollow`) needs `Recordings`: what is recorded is over, a
  start is at most one second ahead, and from the moment a start is chosen until its file is opened
  nobody records, so that what is recorded still lies before it.
* **Synchronisation** (`SyncProofs`, `StartupProofs`). `UsrpTimeIsTrue` says nothing until the end.
  `IInvSync` follows the thread there: an edge that it has seen or is about to see was less than
  its delays ago (`EdgeIsRecent`), hence the host's clock rounds to the second of that edge
  (by the lemma on rounding; `HostIsNear` is the same for `sync_host`), hence the time that waits to be set is the next edge's
  true time, or has been set (`TimeIsSet`). There is an edge before time is up (`EdgeInTime`), from
  which `TimeoutMeansNoPps` follows. `TrueTime` and `HonestTimeout` are the theorems.
* **MQTT client** (`StartupProofs`). `LifeTime` relates the library's life to the
  places of the worker and of `publish()`; `RoomFound` says that `sinceFull` is zero while there is
  room, and from a `poll()` that found room to the message that is queued upon it.
  `NoBacklog`, `Limited` (every socket in use has the small buffer, but for one on which `setsockopt()`
  failed) and `CleanUpIsLast` follow.
  For `Sync` and for `MqttClient` the lemmas say that every step of the component preserves its
  invariant *in any composition*; then the steps of `main()` are shown to be such steps.
* **Utilities' MQTT client** (`AsyncMqttProofs`). `OneAttempt` (nothing is there before the client is
  entered, no thread is in `reconnect()` while the worker checks or waits, and it waits without a
  socket), `FailuresCount` and `QueueFits` make `SessionIsTruthful` inductive; `Agreement` and `Delays`
  follow. Every step of a program is, to the client, one of its own steps, nothing, or a fault
  elsewhere that may stop the program (`ClientUnderPrograms`): `UtilitiesAgreement` and `UtilitiesDelays`.
* **FS740 logger** (`AsyncMqttProofs`). `Matching` (`AnswersMatch`) from `ShiftStops`: answers are shifted by one at
  most, and only between the questions for the time interval and for the errors, which such a cycle
  does not get past.
* **Relay** (`AsyncMqttProofs`). `Linked`, from `LinkInv`: it holds a connection just when it has the
  other end of one, and reads and writes only then, whatever broke before.
* **Rover** (`AsyncMqttProofs`). `Configuration` (`StreamsOnlyConfigured`) from `RvInv`: before the answer
  to the request at hand, the wire holds at most one ACK of an earlier one (`WireInv`); `cfg_get()`
  has collected what the layer holds up to its position (`CollectInv`), and as keys are dense a
  page that is not full is the last (`LastPage`); and each stage has established what the next ones
  presuppose (`StageInv`): no other layer holds a configuration, the target is the default with the
  settings in it, RAM is the target.

Every invariant that a run checks is proved. Model-checked only: the liveness properties, that is
`MessageIsWritten`, `DestructorReturns`, `BacklogDrains`, `WriterEnds`, `MuteSilences`, `StopEnds`,
`FailureIsNoticed`, `TerminationEnds`, `Reconnects`, `NeverHeldUp` and those of `utilities`
(fairness and `ENABLED` are outside what the prover supports), hence also the fairness part of
`ImplementsFifo`, whose steps are proved by `Implementation`.

## What is not modelled

* *Weak memory.* Steps are sequentially consistent. The queue publishes a slot by release/acquire; the ring buffer's readers load `clob` and `head` relaxed.
* *Alignment.* `O_DIRECT` and short writes inside a sample; `Wr` counts in samples.
* *Formatting*: messages, JSON, status line, configuration file.
* *USRP configuration*: the values of frequencies, gains and LO sources; only the order of these steps, and that each may fail, is in `Startup`.
* *`get_consumer_wait()`*: the length of a sleep. Scheduling policies, CPU affinity and latency settings of the threads.
* *Crashes of the process*: nothing is recovered at a restart; what a kill leaves behind (PID file, shared memory) makes the next start refuse, by design.
* *`AsyncMqttClient.publish()`*: it changes nothing in the class; whether a socket can be written at once is up to the kernel.
* *Configuration and JSON*: parsing and formatting, once, without a state; the repository's own tests reach them.
* *Decoding in the utilities*: registers of the FS740, lines of the oscillator, sensors, the bytes of UBX frames. The resynchronisation of the UBX parser matters only on a line that loses bytes; `Rover`'s loses none.
* *`lc_xo.py`, `hwmon.py`*: to the MQTT client they are `other` programs in `Utilities`; what they parse has no state but one dictionary.
* *A receiver that fails*: `f9p_rover.py` has no time-outs, so that nothing could be promised.

## Plan

Done, in this order: `BoundedFifo`, `Mpsc`, `Logger`; `Ringbuf`, `Rx`, `Wr`, `Recorder`; `Tx`;
`Main`; `AsyncMqtt`; proofs for `Mpsc`, `Rx`, `Recorder`; `Preview`; `Sync`, `MqttClient` and their
composition `Startup`; proofs for `Startup`, `Main` and `AsyncMqtt`; `Fs740`, `Ntrip`, `Rover` and their
composition `Utilities`, with proofs; proofs for `Tx`, `Preview`, `Logger` and `Rover`. Every component of the daemon that has a state of its own is
modelled.

1. The resynchronisation of the UBX parser on a byte stream cut anywhere, against a reference that
   sees the whole stream.
2. An abstract recording (a file that grows by the next samples) as a specification that `Recorder`
   implements; readers of the ring buffer in other processes.
3. Proofs of the safety half of more liveness properties, as `DrainTerminates` is for the logger's
   destructor: a number that the writer's stop, the Tx worker's end of burst and the end of `main()`
   lower with every step of their own.

Runs are few on purpose: one that another subsumes goes, as that of `Rx` alone did when `Preview`
checked the same properties, and new modules share a run where they interact, as `Sync` and
`MqttClient` do in `Startup`, and the utilities' client and its programs in `utilities`.
