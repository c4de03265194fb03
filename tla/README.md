# A formal model of rtl-sdr-blog

TLA+ modules for librtlsdr (the RTL-SDR Blog fork), its tuner drivers and the
command-line tools, the TLC configurations that check them and TLAPS proofs of
their safety for every size and every sequence of calls. `PROJECT.json` lists
every component, run, mutant, hazard and theorem and maps each definition to the
source lines it stands for. Paths below are relative to the repository;
`librtlsdr.c:n` is `src/src/librtlsdr.c` line n.

Running it: `tlc -config <run>.cfg <module>` for the table of runs below,
`tlapm <module>` for each of the modules `*Proofs`.

## 1. The system

| component | state it keeps | operations | what must be right |
|---|---|---|---|
| asynchronous streaming (`librtlsdr.c:1762-2062`) | `async_status`, `async_cancel`, the transfers and their buffers, `xfer_errors`, `dev_lost` | `rtlsdr_read_async`, `rtlsdr_cancel_async`, `_libusb_callback`, the wait in `rtlsdr_close` | buffers outlive the transfers libusb holds; a cancel ends the read; the device can be read again, and is not freed under a read |
| device control (`librtlsdr.c:500-1760`) | `struct rtlsdr_dev`: frequency, IF, rate, bandwidth, gain, correction, crystals, sampling mode | open, close and thirteen setters | the registers match what is reported, in any order of calls and after failures |
| sample rate conversion (`librtlsdr.c:1110-1173`) | none | ratio and real rate | the ratio fits its register, the reported rate is right |
| EEPROM (`librtlsdr.c:824-885`, `rtl_eeprom.c`) | 256 bytes in the dongle | read, change, confirm, write | a success means the image is there; an interrupted write is a prefix |
| R82xx driver (`tuner_r82xx.c`) | shadow registers, `input`, `int_freq`, `has_lock` | init, standby, set frequency, bandwidth, gain | the antenna input, RF path and oscillator belong to the frequency; the arithmetic terminates and is exact enough |
| E4000 driver (`tuner_e4k.c`) | registers in the chip, `band`, `vco` | init, tune, IF gains, filters, gain, gain mode, standby | fields of shared registers do not disturb each other; PLL, band and filter are right |
| FC0012, FC0013, FC2580 drivers (`tuner_fc*.c`) | registers in the chip only | tune, gain, gain mode, bandwidth | a tuning that reports success has the dividers, band and filters of its frequency; the gain survives it |
| GPIO registers (`librtlsdr.c:556-576`, `2094-2114`) | `GPO`, `GPOE`, `GPD` in the RTL2832 | bias tee, the FC0012's band filter | one pin's owner does not move another's |
| rtl_tcp | the linked list of buffers, `do_exit`, one client | accept, callback, `tcp_worker`, `command_worker`, `sighandler` | a client gets its own samples in order, the queue is bounded, the server survives clients |
| rtl_fm | thread pipeline with condition variables, channel list; indices the filters carry from block to block | dongle, demod, output, controller threads, shutdown | scanning visits every channel; shutdown ends; where blocks meet no audio is lost but a rest of an oversampling step |
| rtl_sdr | bytes left to record | callback, synchronous loop, signal | never too much, complete, ends; a whole number of blocks does not |
| rtl_adsb | one shared sample buffer, the demod thread | callback, `manchester`, `messages`, shutdown | in bounds, terminates, decodes frames; no lost wake-up stops the decoding; shutdown ends |
| rtl_test | `bcnt`, the counters of lost bytes; the ppm test's state, period and totals | callback, `underrun_test`, `ppm_test`, report, signal | a loss is seen and only a loss; totals are complete and leave out the first seconds |
| rtl_power | the hops, per hop a buffer and sums; `next_tick`, `exit_time`, `do_exit` | planning, scanner, report, signal | hops cover the range and keep apart; one report per interval; it ends |
| convenience (`nearest_gain`) | none | | the tuner sets the gain that is chosen |
| rtl_biast, getopt, enumeration | | | not modelled, section 7 |

Interactions. A tool opens a device, configures it with the setters, and sits
in `rtlsdr_read_async`, which calls it back on the same thread. Other threads
and signal handlers end the stream by `rtlsdr_cancel_async`, which shares
`async_status` with the reader without a lock. Setters reach the tuner driver
through `struct rtlsdr_tuner_iface` and the I2C repeater of the RTL2832; the
R82xx driver calls back into the library (`r820t_set_bw` sets the IF and
retunes). The tools' own threads share lists, buffers and flags, some under a
mutex, some not.

What is hard: the unlocked status word, transfers completing while they are
being cancelled, two functions of the library that call each other
(`rtlsdr_set_center_freq` and `_rtlsdr_set_direct_sampling`), I2C writes that
fail half-way through a call, wake-ups lost between a test and a wait, cancels
overtaken by the end of what they cancel, an interrupted system call, one flag
with two meanings (`do_exit` of rtl_tcp), and fixed-width arithmetic. The list,
line by line, is under "hazards" in `PROJECT.json`.

## 2. Modules

| module | models | checked by |
|---|---|---|
| `StreamSession` | what reading, cancelling and closing promise a client: the abstract specification | implemented by `RtlAsync` (property `SessionSpec`); used by the tools |
| `RtlAsync` | the streaming engine, transfer by transfer | `async_single`, `async_threads`, `async_stale_cancel` |
| `RtlAsyncProofs`, `RtlTcpProofs`, `RtlDeviceProofs`, `AdsbDecoderProofs`, `ToolsProofs` (about `MCTools`), `TunersProofs` (about `MCTuners`), `ArithmeticProofs` (about `ArithmeticSweep`) | theorems, section 5 | tlapm |
| `MathProofs` | lemmas: induction and recursion over naturals, division, the R82xx's filter and IF for every bandwidth, which sample rates the resampler reaches | tlapm |
| `RtlDevice` | the control path; uses `R82xxMath` and `Resampler` | `device` |
| `R82xx`, `E4k`, `FcTuner` | the tuner drivers, register by register, and the GPIO registers (in `FcTuner`) | `tuners` (composed in `MCTuners`) |
| `R82xxMath`, `FcMath`, `TunerGains`, `Resampler`, `PowerMath` | the pure arithmetic | `arithmetic`, `power_crop` (in `ArithmeticSweep`) |
| `RtlTcp`, `RtlFm` | the two tools with several threads of their own, over `StreamSession` | `tcp_server`, `fm` |
| `RtlSdr`, `RtlEeprom`, `RtlTest`, `PpmTest`, `RtlAdsb`, `RtlPower`, `FmBlocks` | the other tools | `tools`, `ppm_dump` (composed in `MCTools`) |
| `AdsbDecoder` | the decoder of rtl_adsb | `adsb` |
| `MC*` | constants for TLC that a `.cfg` cannot express, and the compositions | |

How state and actions correspond to the code:

* **RtlAsync**. `pc` is where the reader is in `rtlsdr_read_async` (submit loop,
  blocking event call, cancel loop, zero-timeout event call after each cancel,
  final event call, free, return). libusb is external: `in_flight` and
  `cancelling` are the transfers it owns, `Reap` is a completion it reports and
  `Callback` the body of `_libusb_callback` for it. Calls made on the reader's
  own thread are one step (`CancelInline`); other threads make the test and the
  assignment of `rtlsdr_cancel_async` separately (`CancelTest`, `CancelAssign`).
  `Handlers` are threads whose control transfers make libusb deliver events.
  `rtlsdr_close` may begin at any moment (`CloseBegin`); it polls for INACTIVE
  (`CloseEnd`), or frees a lost device at once. Nothing happens to a freed device
  (`Allocated`): what a read or a cancel does to it is undefined.
* **RtlTcp, RtlFm, RtlSdr**. Each thread has a program counter; the library is
  `StreamSession`. In RtlTcp and RtlFm a cancel is split in two, the test and
  the assignment, because several threads and signal handlers make it. In RtlTcp
  a signal on the command thread also interrupts its `select`, whose -1 is taken
  for "readable", so that the thread blocks in `recv` (`blocked`) until the peer
  speaks or leaves. In RtlFm a condition variable without a predicate is
  modelled exactly: a signal wakes the thread if it is in its wait, else it is
  lost; waits may end spuriously. In RtlSdr there is one thread, and a signal
  handler runs between any two of its steps; `bytes_to_read` is counted as in
  the code, where 0 left means no limit.
* **RtlDevice**. `dev` is `struct rtlsdr_dev`, `hw` what the demodulator and the
  tuner were told. Every setter is one action whose outcomes are computed by
  composing steps that may fail, in the order of the code, with the results
  combined or dropped as the code does. The mutual recursion is unfolded;
  `hw.deep` records a call beyond the unfolding and `RecursionEnds` shows there
  is none.
* **R82xx, E4k, FcTuner**. A driver call is a list of register accesses; one
  made under a condition is an entry that writes nothing when it is not. In
  R82xx the shadow register is changed before the write is sent and the call
  stops at the first failure, as do tunings of the FC0012 and FC0013; E4k and
  the FC2580 go on after failures. A frequency of 0 has no oscillator, for which
  E4k, as the driver, goes on with -EINVAL as an unsigned one (`compute_flo`).
  E4k and FcTuner keep no copy of the registers but read the chip each time.
  `MCTuners` plugs in one tuner per behaviour, as `rtlsdr_open` finds it. In
  FcTuner the GPIO registers are sets of pins; a failed read returns whatever
  was on the stack, any set of pins. Registers of the FC2580 that a tuning
  always writes together are one value, `Mixed` when only some of them were
  written.
* **RtlEeprom**. The image is three bytes: one for the bit that forces the bias
  tee, one for ids and strings, one beyond what a configuration covers.
* **MCTools**. One program per behaviour, the others' variables stand still.
  **RtlTest** counts losses in a counter of `Counter` values (256 in the chip);
  a buffer is given by the bytes dropped in front of each of its bytes.
  **PpmTest** is called with the clock at any tick. **RtlAdsb** has the demod
  thread, `pthread_cancel` (acting at the wait, or when a frame
  is printed), and cancels in two steps by the demod thread and signal handlers. A
  handler that has not finished when main closes the device stops there, as in RtlFm.
  **RtlPower** visits one hop per step; `at` is where the tuner really is, `fifo`
  what the RTL2832's buffer holds, and a hop's sums are the set of frequencies
  whose samples they contain. **FmBlocks** counts the samples each filter of
  rtl_fm passes on. A block is always the library's default of 262144 bytes, since the
  dongle thread passes a length of 0; the `ACTUAL_BUF_LENGTH` that rtl_fm computes is
  only printed.
* **AdsbDecoder**. One step is one turn of one of the nested loops of
  `manchester` and `messages`; the preamble and frame lengths are parameters.

## 3. Runs

| run | module | instance | states | what it shows |
|---|---|---|---|---|
| `async_single` | MCRtlAsync | 3 transfers, 2 sessions, failing submissions and transfers, one thread, a close at any moment | 5.0 k | `BuffersOutliveTransfers`: nothing is freed while libusb owns it. `ReturnIsClean`: the device is INACTIVE after a read. `SessionSpec`: the engine implements StreamSession, progress included |
| `async_threads` | MCRtlAsync | 2 transfers, 2 sessions, one cancelling thread, one thread handling events, a close during a read, all failures | 457 k | `CancelSticky`: a cancel is only taken away by the return of the read. `CancelReturns` and `UnplugEndsRead` with threads. `LossMeansDead`: a device is declared lost only when unplugged or with no transfer left. `CloseWaitsForRead`: a device that is not lost is only freed when no read runs |
| `async_stale_cancel` | MCRtlAsync | 2 transfers, 1 session, one cancelling thread | violation | `CloseReturns` fails, section 6 |
| `tcp_server` | RtlTcp | 2 clients, 5 buffers each, limit 1, 1 signal | 791 k | `SentInOrder`: a client gets its own buffers, oldest first, none twice, and the queue stays short. `ServerSurvivesClient`: only a signal outside a session ends the server. `CancelEndsClient`, but for a command thread left in `recv` |
| `fm` | RtlFm | 3 channels, squelch after 1 hit, 1 signal, a failing device | 514 k | `ScanVisitsAll` although hop requests get lost, `ShutdownCompletes` outside the three windows it names |
| `device` | MCRtlDevice | R820T, E4000, no tuner; 3 frequencies, 3 rates, 2 bandwidths, failing tunings | 487 k | `RegistersMatchMode`: also that direct sampling switches itself on and off at its limit. `TunedTo`, `NoBlindAccess`, `RecursionEnds` |
| `tuners` | MCTuners | E4000: 25 boundary frequencies, 0 among them, 16 gains, 4 bandwidths, 11 IF gains, 2 calls; FC tuners: 7 frequencies, 3 gains, 2 pins, 3 calls; R82xx: 4 boards, a frequency per band and one out of lock; 1 failed access | 188 k | `SettingsHold`: fields that share an E4000 register keep their values, but where a failed read damaged them. `Tuned`: its oscillator, band and filter belong to the frequency, unless that is 0. `FcSettingsHold`: the same for the FC tuners, whatever failed before, and the gain survives. `PinsHold`: each GPIO pin is as asked for. `InputSelected`, `RfPathMatches` of the R82xx |
| `arithmetic` | ArithmeticSweep | 27 MHz - 1.775 GHz in 37 kHz steps for 3 R82xx, 22 MHz - 1.8 GHz in 101 kHz steps for 3 FC tuners, bandwidths to 2.5 MHz in 1.25 kHz steps, every gain, 600 rates from each end of each range, widths to 2 GHz with 48 sets of options | 214 k | `PllSynthesizes` within 4 kHz (R82xx) and 1 kHz (FC), `FilterCovers`, `GainsAreRealised` through `nearest_gain`, `RateIsExact` at the nominal crystal, `HopsCover` |
| `power_crop` | ArithmeticSweep | widths to 2 GHz, crops of 1/4 and 1/2 | violation | `EvenlySized` fails, section 6 |
| `tools` | MCTools | rtl_sdr: blocks of 4 bytes, 1, 5, 8 (whole blocks), 13 samples or no limit; rtl_eeprom: every content of 3 bits and combination of options; rtl_test: counter of 4, 2 buffers of 2 bytes, drops up to 5; ppm test: 12 ticks, 2 per second; rtl_power: 2 hops, interval 2 s, 5 s, 1 failed call; rtl_fm: 4 rates, 3 resamplings, 16 oversamplings, with and without -F, 3 blocks; 2 signals | 145 k | `RecordingExact`, `WrittenPrefix` (whenever a write stops, the bytes in front are new, the others old), `LossIsSeen`, `TotalsAreExact`, `SweepSound`, `AudioInTime`, `DecodingGoesOn` (rtl_adsb, although wake-ups get lost), `ToolsEnd` |
| `ppm_dump` | MCTools | the ppm test as above | violation | `DumpIsRespected` fails, section 6 |
| `adsb` | MCAdsbDecoder | blocks of 18 samples, preamble 4, frames of 3 and 4 bits; every frame at 3 offsets, 729 noise tails, 4 qualities, 2 error limits, one overwrite | 457 k | `FrameDecoded`, `AccessInBounds`, `DecodeEnds` |

Every property of a passing run has a mutant, a changed definition that stands
for a plausible slip in the code, under which TLC finds it violated; the mutants
stand next to the definitions they replace, under names with a suffix
(`PassEnds_Always`).

### Why the bounds are enough

For the properties section 5 lists as proved, the bounds do not matter: TLC
found the statements, the theorems hold for every value of the constants. For
the others:

* Two sessions show what one leaves to the next; three transfers have a first,
  a middle and a last one, and a pass of the cancel loop can succeed on some and
  fail on others.
* Two clients are needed for what one leaves to the next. With a limit of 1 the
  list can reach 4 elements; five buffers overflow it.
  A second signal was checked too (3.3 M states, six minutes).
* Three channels distinguish "next" from "other"; one signal before, in and
  after every step of every thread is enough to end a program, and a second one
  only repeats what the first has done.
* `RtlDevice` has no bound on the number of calls: the state space is finite.
  The frequencies are one below, one at and one above the direct sampling limit.
  `MCCalls` gives each tuner the calls that can disturb it; the theorems have
  every set of calls and arguments.
* `RtlSdr` has amounts below a block, with a rest, over several blocks and of whole
  blocks, and none (0); the last two are recorded up to `MaxWritten` bytes.
* The byte values of `RtlEeprom` are 0 and 1: bytes are only copied and compared.
* Two calls of the E4000 driver are enough for one setting to disturb another;
  three of the FC drivers for one to fail, one to disturb and one to repair.
* The counter of `RtlTest` wraps inside a buffer, between buffers, and by more
  than a whole turn. In `PpmTest` the dump ends and two periods follow.
* `RtlPower` has a hop before and after another, a pass longer than the
  interval, and a clock that goes on to the report after the exit timer.
* `FmBlocks`: rates that divide 1 MHz and rates that do not, every oversampling
  the table has a row for, and blocks enough for the carried indices to differ
  (a fourth overflows TLC's 32-bit integers).
* In AdsbDecoder the lengths are scaled down and their relations kept: the short
  frame is shorter than the long one, the type is known before either ends, and
  a block holds a frame, its preamble, an offset and what follows.

Most state machines have a type invariant `TypeOK`; the runs of `RtlAsync` check
it and a theorem proves it, and it holds on the configurations of the other
modules too (add `INVARIANT TypeOK`). `ForcedBiasStaysOn` of `RtlDevice` is the
same kind of fact, one disjunction of the code.

Deadlock is not checked: every system here may stop (a program exits, a bound on
calls is reached, nobody connects).

## 4. Fairness

* RtlAsync: the reader's steps are strongly fair, since the event call returns
  after a bounded time however many completions arrive (libusb's timeout); the
  completion of a cancelled transfer is strongly fair; callbacks, pending
  cancels and the polling of `rtlsdr_close` are weakly fair. Nobody is obliged
  to cancel, start or close, and event calls are not obliged to fail.
* RtlTcp: each thread is weakly fair and a connected client eventually reads or
  leaves; `recv` returns once the peer has left, but no peer is obliged to
  speak. The worker's five-second timeout is strongly fair: spurious wake-ups do
  not put it off for ever. Neither connecting, leaving nor signalling is fair.
* RtlFm: each thread is weakly fair, a signal handler completes and a streaming
  device delivers; signals, failures and spurious wake-ups are not fair.
* RtlSdr: the thread is weakly fair, and so is the end of a cancelled stream.
* The other tools: each thread is weakly fair, reads return, a signal handler
  completes and time passes. In RtlAdsb the end of a cancelled stream is
  strongly fair: callbacks for what had come in before the cancel come first,
  and they are finitely many.
* AdsbDecoder: the decoder keeps running.
* The register-level modules, rtl_eeprom, the loss and ppm tests and FmBlocks
  have safety properties only.

## 5. Proofs

Every theorem is about the specification the runs check, with its constants left
open: the assumptions on constants of the module (which TLC evaluates in the
runs) and those in the last column.

| theorem | states | for every | assumes besides |
|---|---|---|---|
| `TypeCorrect` | `Spec => []TypeOK`; in particular the index into `dev->xfer` stays in range | number of transfers and reads, set of cancelling and event-handling threads, set of failures | |
| `CancelIsSticky` | `Spec => CancelSticky` | the same | |
| `LossIsDeath` | `Spec => []LossMeansDead` | the same | |
| `CloseWaits` | `Spec => []CloseWaitsForRead` | the same | |
| `BuffersAreSafe` | `Spec => []BuffersOutliveTransfers` | the same | no other thread handles events, and cancelled transfers are reported by the event call that follows (`PromptSingleHandler`) |
| `ReturnsClean` | `Spec => []ReturnIsClean` | the same | one thread makes every call (`SingleThreaded`) |
| `EngineIsSession` | every step maps to a step of `StreamSession` or a stutter, until the device is lost or an event call fails | the same | `SingleThreaded` |
| `EngineRefinesSession` | `Spec => SessionSafety`, the safety part of `StreamSession` | the same | `SingleThreaded`; neither accident can happen |
| `TcpTypeCorrect`, `ClientsGetTheirSamples`, `ServerSurvives` | `[]TypeOK`, `[]SentInOrder`, `[]ServerSurvivesClient` of `RtlTcp` | limit of the list, number of clients, buffers and signals | |
| `ModeIsConfigured`, `TunerIsReached`, `NestingEnds` | `[]RegistersMatchMode`, `[]NoBlindAccess`, `[]RecursionEnds` of `RtlDevice` | dongle, set of calls and arguments, set of failures | |
| `DeviceIsTuned` | `[]TunedTo` of `RtlDevice` | dongle, set of calls and arguments, failures of `set_freq`, `set_gain`, `exit` and the EEPROM | `TuningReliable`, `RatesAreReached`, `OffsetTuningUsable`, see below |
| `FilterAlwaysCovers` | `[]FilterCovers` of `ArithmeticSweep` | bandwidth | |
| `RatesAreKept` | `[]RateIsExact` | accepted rate | crystals of 28800000 to 28800031 Hz (`Nominal`) |
| `GainsAreKept` | `[]GainsAreRealised` | gain asked for | |
| `SynthesizersAreRight` | `[]PllSynthesizes` | frequency swept | `SdmBound` of at least 4 kHz; FC frequencies from 13.5 MHz, and none above 1890 MHz |
| `HopsAreCovered` | `[]HopsCover` | width of a range, crop, filter, bin size | bins no wider than 3.2 MHz, the highest rate |
| `DecoderStaysInside` | `[]AccessInBounds` of `AdsbDecoder` | block, preamble and frame length, contents, number of overwrites | |
| `PpmTotalsExact` | `[]TotalsAreExact` | clock resolution, dump time, period | |
| `PowerSweepSound` | `[]SweepSound` | number of hops, interval, exit time, number of failing calls and signals | |
| `SdrRecordsExactly` | `[]RecordingExact` | block size, amount, number of signals, pattern of short reads | amounts fit 32 bits (`LimitsFit`) |
| `LossesAreSeen` | `[]LossIsSeen` | length of a buffer, range of the counter, sequence of losses | |
| `AudioIsInTime` | `[]AudioInTime` | rates, resamplings, oversamplings, number of blocks | audio rates of at least 978 Hz |
| `EepromWritesPrefix` | `[]WrittenPrefix` | size, image, options, failures but one | `"fetch" \notin Faults` |
| `PinsAreHeld` | `[]PinsHold` | set of pins with 0 and 6, frequencies, gains, number of calls and failures | |
| `FcSettingsAreHeld` | `[]FcSettingsHold` | frequencies, gains, number of calls and failures | no frequency's `Xdiv` is 0 or 1 for the FC0012 or FC0013 |
| `XdivInRange` | no `Xdiv` is 0 or 1 | frequency from 11 MHz to 1073.74 MHz (FC0012) or 2147.48 MHz (FC0013) | |
| `E4kSettingsAreHeld` | `[]SettingsHold` | crystal, frequencies, bandwidths, gains, IF gains, number of calls and failures | gains of at most 42 dB |
| `E4kIsTuned` | `[]Tuned`, which says nothing of a tuning to 0 Hz | the same | the same; a crystal of at least 18.75 MHz and frequencies below 128 times it (`Reaches`) |
| `RfPathIsRight` | `[]RfPathMatches` | board, set of frequencies and bandwidths, number of lost writes | |
| `InputIsSelected` | `[]InputSelected` | the same | 28.8 MHz itself is not tuned (`28800 \notin R82xxFreqs`) |

The extra assumptions of the streaming engine, of the control path, of
`rtl_eeprom`, and of the FC tuners' and the R82xx's settings cannot be dropped:
section 6 says what fails without them. Those of `rtl_sdr`, of the E4000, of the
audio and of the arithmetic theorems bound the inputs to where the fields and
buffers are large enough; the arguments below say what is outside. The
configurations of the runs satisfy all of them, but for `SingleThreaded`, which
`async_threads` leaves out on purpose.

### The arguments

**Buffers** (`DrainInv`). `BuffersOutliveTransfers` is not inductive: that nothing
is in flight when the buffers are freed follows from a whole pass of the cancel
loop. The loop ends when no `libusb_cancel_transfer` succeeded during a pass, so
the invariant carries, through the pass, that the transfers already passed are
back. It is the conjunction of: a transfer whose status is CANCELLED is not in
flight (the loop skips those); callbacks run only inside event calls; no status
but COMPLETED is there during submission; no cancel is pending outside the event
call that follows it; while the pass has found nothing to cancel, every transfer
before `i` is neither in flight nor in a callback; a cancel that was refused
found its transfer back; and the loop is left with everything back. `DrainStep`
shows that each action preserves it. `ReturnsClean` rests on `ExitIsInactive`:
the loop is left only after a pass that found nothing to cancel.

**Close** (`CallIsActive`). `async_status` is not INACTIVE while a read is under
way: cancels and callbacks only ever assign CANCELING, and the reader's last
step is the one that assigns INACTIVE. So the polling of `rtlsdr_close` outlasts
the read, and the only other way to the device's end is that it was found lost.
That the polling ends is another matter, and false with a stale cancel (section
6).

**Loss** (`LossInv`). A transfer that ended with ERROR is not resubmitted, so the
errors counted belong to distinct transfers: the set of transfers with status
ERROR is as large as `xfer_errors`, and when that reaches the number of
transfers it is all of them. Only the first read starts from a counter of 0,
which is why the property is about it.

**Refinement** (`SessionInv`). `StreamSession` is instantiated with the variables of
the same name. The steps that need an invariant are those of the cancel loop and
the return: `ExitIsInactive`, that the loop only runs in CANCELING or after an
accident, and that a call in progress is not INACTIVE.

**rtl_tcp** (`QueueInv`). What was sent, what the worker holds and what the list
holds are each sorted, belong to the current client and follow each other; the
list is empty between clients. `SurvivalInv` for the server: workers are joined
before it listens again, an interrupted thread cannot end before its handler
does, and so whatever sets `do_exit` while it listens is a new signal.

**Control path** (`DeviceInv`, `TunedInv`). A call is a composition of steps
with sets of outcomes, so the proofs are lemmas about what every outcome of a
step keeps, composed as the calls are: `Fit` says that the registers match the
mode and the mode the frequency. In the middle of a tuning it does not hold:
`dev->direct_sampling` is already the new mode and the registers are not. The
lemmas `Center1Centers` to `CenterFreqCenters` follow the two functions that
call each other from the innermost call outwards: the first switch leaves the
mode that the frequency calls for, so that a second one can only be to the mode
of no frequency at all, after a failure, and a third does not happen. For
`TunedTo`, `Planned` adds what the settings can be, `Mixes` that the IF register
is where the tuner mixes to even when nothing is tuned, and `Oscillates` the
property itself. `Tunable` is what a tuning may start from: all but the last.
The assumptions say when this cannot be kept: `TuningReliable` (a tuner that
does not come up, a filter or IF register that cannot be written),
`OffsetTuningUsable` (leaving direct sampling resets the IF of an E4000 that is
tuned with an offset; frequencies below the offset are not tuned), and
`RatesAreReached` (crystal and rate are such that the resampler reaches the
rate, which the offset is computed from). That is arithmetic on the two,
`ResamplerReaches` of `MathProofs`: the crystal divided by the rate is less than
128 and not from 32 up to 96, where the ratio has no room beside the bit that
the hardware copies. `RateIsKept` proves of every such pair that `real_rate`
returns the rate. At the nominal crystal all accepted rates are such
(`NominalReaches`); with a crystal corrected by more than one part in a million
some rates within 31 Hz of the limits are not (225007 and below, 299990 to
300000, 900031 and below), and `real_rate` is then another.

**Filter**. The loop over the table is a CHOOSE of its first narrow entry;
`LoopStops` shows by cases over the ten entries that there is one, never the
first, and `NarrowFilter` computes with it. The same lemma gives `RtlDevice` that
intermediate frequencies are natural numbers.

**Recursion and induction** (`MathProofs`). The library's induction theorems take an
operator as a parameter and cannot be used here. Its theorem on well-founded
relations takes a set, from which `LeastNatural` and `Induction` follow: a set that
holds 0 and, with a number, the next one, holds every number. With sets of the
arguments for which a statement is true that is enough for the recursive
functions of the model: `Recursion` says what one over `0..n` satisfies.

**Sample rate** (`RatesAreKept`). The long division of the model keeps quotient and
remainder right digit by digit (`DigitDivides`). Where the crystal is in reach of the
rate the quotient fits its 28 bits or is one of those that the copied bit stands
for (`RatioFits`, `HardwareRatio`). The ratio is more than four times the rate, so that
what is lost with its last two bits does not show in the rate (`RateComesBack`).

**Gains** (`GainsAreKept`). `HalfTurnSets`: the loop over LNA and mixer steps stands at
the m-th total unless it has stopped, and it stops at the first total that is
not below the request (`StopsAt`). The totals rise (`TotalsRise`), so that the total is
the least and grows with the request; each listed gain is one of them
(`GainsListed`). `NearestIs` is about the loop of `nearest_gain` over a list.

**Synthesizers** (`SynthesizersAreRight`). R82xx: the step that a turn of the
sdm loop compares with is the doubled crystal divided by a power of two. It
divides evenly in the first eight turns, which therefore lose nothing
(`SdmExact`); the last seven are bounded turn by turn, for each of the two
crystals (`Tail28800`, `Tail16000`). FC0012 and FC0013: row by row of the
divider tables, where the VCO is between `Lowest` and `Highest` the counters are
valid (`FcDividers`) and the signed fraction is within 1 kHz (`FcSynth`). Below
13.5 MHz no multiplier reaches `Lowest`, and the drivers refuse the frequency as
having no valid combination. FC2580: N and K rebuild the VCO exactly for each
reference divider (`Fc2580Good`).

**Hops** (`HopsAreCovered`). `LeastHops`: the loop finds the smallest number of hops
that fit. With one hop fewer they did not fit, and one more makes a hop at
least half as wide (`HalfAgain`), so only a range taken in one hop is ever narrow
enough to be cut down (`HopsSee`). There the factor, or the largest power of two
below it, gives a rate that is supported and that divides back to the hop's
bandwidth (`Boxcar`, `HalvedRate`; with a crop of a quarter the rounding of the first
few hertz is looked up power by power, `ThirdsFit`). `FewestBins` is the loop over
bin sizes, `FftsInside` that FFTs tile the buffer: it is a multiple of one FFT, or
at least twice as long as what is left after the factor. A bin wider than
3.2 MHz is not refused by rtl_power, but its rate is by the library.

**Decoder** (`DecoderInv`). The write position in the buffer never passes the read
position (`BitsFallBehind`), and a frame's bits do not outgrow it, also once it
turned out to be a short one (`CollectedFits`). What is in the buffer is not
looked at, so an overwrite by the callback at any point changes nothing.

**Tools**. `MCTools` runs one tool per behaviour (`OneTool`), so each theorem is
an implication from the tool's name. `EepromInv`: the property with the index
inside the range. `SdrInv`: the bytes left and those written add up, and the
limit never becomes 0, which would mean none, unless it is a multiple of the
block (`HasLastBlock`); then nothing but a failure or a signal ends the
recording. `PowerInv`: the tuner and the first bytes of the FIFO are known where
the sums are taken, and the next report's tick is a multiple of the interval
ahead. `PpmInv`: counters are 0 until the test runs. `TestInv`: what rtl_test
expects next is what follows the last byte that got through, and it counts a
loss exactly when bytes are gone; the loop over a buffer keeps that byte by byte
(`NextByte` in `Recursion`). `FmInv`: the indices that rtl_fm carries from block
to block are the remainders of what it received, so a block brings the
quotient's growth (`DivSplit`); with -F the block is a power of two and the
carried index is never used. `StepLost`: undoing the oversampling drops the
remainder of each block, which is 0 where the step divides it. At 978 Hz and
above the passes of -F are at most the 10 there are histories for.

**Tuners**. `MCTuners` drives one tuner per behaviour (`OneTuner`). `GpioInv` adds to
`PinsHold` that the pins a driver switches have been made outputs before;
`PinOutcomeSound` says what one read-modify-write leaves of every pin, so that the
actions only combine it. For `FcSettingsHold` a call is a list of transfers, and
`LastWrite` and `NoWrite` tell what it leaves in a register: the value of the last
transfer made to it, or what was there. `TuneSettles` and `Fc2580Settles` apply that
to a tuning made to its end, `TuneKeeps` to one that stops anywhere, which touches
neither gain nor mode, and `Fc001xKept` to the calls that write only those.
`DividersAddUp` is the arithmetic: registers 1 and 2 divide by `xdiv` exactly when
`pm` does not wrap.

**E4000** (`E4kInv`, `SynthInv`). Settings share registers and are put there by
read-modify-write, so a call touches fields that are not its own. `E4kInv`:
every register holds a byte, and each setting is as it was last asked for unless
its register is damaged. A register is the sum of its fields (`PartsFit`,
`PartsApart`), so writing one leaves the others; a call is a sequence of
accesses, each of which the failure may hit, and its loop over them is a
recursive function (`Recursion`). A gain above the 42 dB listed last is taken
for 42 dB. `SynthInv` ties the synthesizer's registers to the frequency of the
last tuning that reported success without a failure; the arithmetic
(`FloIsClose`) is that the divider's 8 bits and the fraction's 16 lose less than
1 kHz where `Reaches` holds, and that only a frequency of 0 makes both 0, for
which the driver's oscillator is -EINVAL.

**R82xx** (`RInv`). The driver skips the input switch when `priv->input` already names
the band, and a masked write sends a whole register from the shadow: setting the
LNA gain in r05 also sends the input bits. So `InputSelected` needs, besides the
types, that the chip's input bits are the shadow's unless a write was lost
(`InSync`), that `priv->input` names the input the switches select (`Selected`), and
that it is the band of the tuned frequency (`Listening`). `Selected` makes two
exceptions, each of which the driver leaves before it can matter: asleep, where
`r82xx_standby` has rewritten r05 and left `priv->input` alone, and a Blog V4 just
initialised, whose `priv->input` is air-in, an input that board has no switch
position for. The first is why a tuning that does not wake the tuner would listen
to nothing (`MayTune`). `RfPathMatches` is inductive as far as the calls go, since every
tuning writes the whole path. A call is its list of writes; `RegWritten` and
`RegField` say what a list leaves in the chip and in the shadow, `SetFreqIsWrites` and
`InitTransfers` what the lists are, and `LeavesInput` does all the calls that write
no input bit at once. `Lifted` is the arithmetic of the upconverter: the
intermediate frequency is at most 4.57 MHz (`MathProofs`), so that an
oscillator 28.8 MHz up is never taken for one that is not.

### What stays model-checked

* Every liveness property (`CloseReturns`, `CancelReturns`, `UnplugEndsRead`,
  `CancelEndsClient`, `ScanVisitsAll`, `ShutdownCompletes`, `DecodingGoesOn`,
  `ToolsEnd`, `DecodeEnds`), and the liveness part of `SessionSpec`: the prover
  does not do fairness or ENABLED.
* `FrameDecoded`. It says that a cleanly sent frame is found and read, and is about
  the blocks that `MCAdsbDecoder` builds around such frames; of a block with
  arbitrary contents it is false, since an earlier false preamble may swallow the
  frame. The theorem would be about the generator of the run, not the decoder.

## 6. Where code and documentation disagree

Three are kept as runs.

**`ppm_dump`**: `rtl_test.c:218` says "PPM_DUMP_TIME throws out the first N
seconds of data." The first call of `ppm_test` sets `ppm_recent` that far ahead
of the clock, and the next one stays in the dumping state while `ppm_recent` is
*before* now (228). It is not, so the test leaves that state at once and the
time since a moment in the future is its first interval.

**`power_crop`**: `rtl_power.c:463` converts the width of the whole range
divided by `1 - crop` to `int`. For 1.7 GHz and a crop of 1/4 this is more than
2^31 (undefined in C, INT_MIN on x86), which is not above `MAXIMUM_RATE`, so the
"evenly sized ranges, as close to MAXIMUM_RATE as possible" (459) are a single
hop with a downsampling and a rate of 0.

**`async_stale_cancel`**: `rtlsdr_cancel_async` (`librtlsdr.c:2048`) tests
RUNNING and assigns CANCELING. If the read ends by itself in between (a
submission failed, another cancel), the status stays CANCELING with nobody to
reset it, and `rtlsdr_close`, which promises to "block until all async
operations have been completed (if any)", polls for ever. The tools that cancel
from several threads and from signal handlers can get there: in rtl_fm when the
handler has cancelled while main is between test and assignment, or the other
way round (`rtl_fm.c:1269`, `1286`), in rtl_adsb when the demod thread or the
handler is overtaken by the end of the read (`rtl_adsb.c:361`, `504`).
`ShutdownCompletes` of both modules excuses exactly this state (`StaleCancel`)
and fails without the excuse.

Others came up while modelling. Where a property states one, it is defined in
its module and can be checked by changing the configuration as indicated.

* Streaming: with `Handlers = {h1}`, or `PromptReap = FALSE`,
  `BuffersOutliveTransfers` fails: a transfer's `status` is that of its last
  completion, so one that is being delivered by another thread, or was not
  reported in time, counts as done (`librtlsdr.c:2006-2024`).
* Streaming: `StreamAlive` fails with `Faults = {"OTHER"}`: a transfer that ends
  with another status than ERROR or NO_DEVICE is dropped without being counted,
  and a stream may run without any transfer (`librtlsdr.c:1788-1804`).
* Streaming: `rtlsdr_close` does not wait for the read of a lost device
  (`librtlsdr.c:1727`), and frees it under its reader: `CloseWaitsForRead` without
  `closed_lost` fails.
* Streaming: `xfer_errors` is carried from one read to the next, so that
  `LossMeansDead` only holds in the first.
* rtl_tcp: a signal that the command thread handles in `select` ("Signal caught,
  exiting!", `rtl_tcp.c:149`) leaves it blocked in `recv` when the client stays
  silent, since -1 counts as readable (305), and main never gets past joining
  it: without its first disjunct `CancelEndsClient` fails.
* rtl_tcp: `QueueWithinLimit` fails, the bound in `SentInOrder` (limit + 3) is
  what holds (`rtl_tcp.c:177`, "max number of linked list buffers to keep").
  `SignalExits` fails: a signal that ends a session does not end the server,
  `do_exit` is reset (`rtl_tcp.c:657`). `DeadThreadsEndClient` fails: both
  threads may end before the stream starts, and their cancels are refused.
  `StreamCanStart` fails: a cancel left over from one client refuses the next
  one's stream.
* rtl_fm: `ExitsWhenTold` fails: a wake-up sent between a thread's test of
  `do_exit` and its wait is lost and main waits in `pthread_join`, and a cancel
  before the stream runs is refused. A stream that ends by itself does not set
  `do_exit`, so "Library error" (`rtl_fm.c:1267`) cannot be reached, and
  `terminate_on_squelch` is never read (`rtl_fm.c:215`, "-values will exit").
* rtl_fm, rtl_adsb: a signal handler may still hold the device when main has closed
  it (`rtl_fm.c:252`, `rtl_adsb.c:129`); what its cancel then does to freed memory is
  undefined and not modelled.
* rtl_sdr: "-n number of samples to read (default: 0, infinite)"
  (`rtl_sdr.c:56`), but an amount that is a multiple of the block is recorded without
  end: `bytes_to_read` is compared by `<` with the block, reaches 0 and then means
  no limit (91, 102-103). `RecordingExact` and `RecordingEnds` without `HasLastBlock`
  fail. A signal before the stream runs is lost in asynchronous mode.
* Device control: `GainReported` fails, since the tuner is initialised again when
  direct sampling ends (`librtlsdr.c:1236-1238`). `CorrectionApplied` fails, the
  IF register is not written again with a new correction (957-959).
  `ForcedByEepromOnly` fails with the `eeprom` fault: the result of the read is
  not looked at (1695-1696). `TunedTo` fails with the `set_bw` fault (248), and on an
  E4000 that uses offset tuning and direct sampling (1249). `SuccessMeansTuned`
  fails with the `set_freq` fault: the result of the nested switch replaces that
  of the tuning (925).
* R82xx: `InputSelected` without its condition on failures fails:
  `priv->input` is assigned before the writes (`tuner_r82xx.c:1219`), so a
  switch that was lost is not repeated within the band. With `R82xxFreqs`
  containing 28800 it fails too (1171 has `<`, 1202 `<=`). An unlocked PLL
  returns 0, success (564).
* FC tuners: the FC2580's functions return `FUNCTION_ERROR`, which is 1.
  `rtlsdr_set_center_freq` takes it for the failure it is (any result but 0,
  `librtlsdr.c:916-919`) and passes it on, where `verbose_set_frequency` of the
  tools warns only of negative ones. Between 948.6 and 950 MHz neither the
  FC0012 nor the FC0013 has a PLL setting. Where `xdiv` is 0 or 1 (below about
  225 kHz, and where `freq * multi` wraps at 2^32, for the FC0012 between
  1073.74 and 1079.1 MHz) `pm--` wraps to 255, the registers come out as 8 to 9
  and 31, which passes the test for "no valid PLL combination"
  (`tuner_fc0012.c:217-232`, `tuner_fc0013.c:322-338`), and the tuning reports
  success with another oscillator: `FcSettingsHold` fails with such a frequency
  in `FcFreqs`.
* Resampler: with a crystal 1000 Hz off, accepted by `rtlsdr_set_xtal_freq`,
  `RateIsExact` fails at the edge of the ranges.
* rtl_test: "lost at least" (`rtl_test.c:148`) is not a lower bound: when the
  counter wraps, `bcnt - buf[i]` is the complement of the loss. The report
  divides by the number of samples, which is 0 when no buffer arrived (448).
* rtl_power: bins are limited to 2^21 per hop, so that 1 Hz bins (126) are not
  reached; with a boxcar the buffer's length need not be a multiple of 512.
* rtl_fm: `MultipleOfStep` of `FmBlocks` (`rtl_fm.c:328` "length must be
  multiple of step") fails with `-o 4` and no `-F`, and with `-F -o 3`, and
  audio is lost in every block, 2 samples of 8192 in the latter case; 1099 warns
  that "-o is very buggy". `ACTUAL_BUF_LENGTH`, computed at 1191 to be a
  multiple of every step, is only printed (905-906): the stream is started with
  a length of 0 (812), the library's default. `-r` above `-s` divides by zero in
  `low_pass_real`, and `-F` with an input rate above 800 kHz asks for more than
  3.2 MHz.
* EEPROM: with the `fetch` fault `WrittenPrefix` fails: the comparison uses
  what the last byte left in `cmd[1]` (`librtlsdr.c:837-841`).
  `BiasAsRequested` fails when `-b` and `-g` are given: the default
  configuration replaces the bit. `rtlsdr_read_eeprom` returns 1 on success,
  the header says 0 (`include/rtl-sdr.h:143`).
* E4000: a failed read counts as 255 (`tuner_e4k.c:104`) and the writes of a
  tuning are not checked (538): `SettingsHold` and `Tuned` say how far the damage
  goes, and fail without these allowances. `MixingMatchesBand` fails at exactly 350 MHz,
  where the divider's row and the band disagree (552), and at 0 Hz. That frequency is
  not refused: `compute_flo` returns -EINVAL as an unsigned number (444) where
  `e4k_compute_pll_params` promises "0 in case of error" (481), so the test at 581
  passes, the L band is selected and, with a lock, success reported, which `Tuned`
  without its exception for 0 shows.
* rtl_adsb: `FramesAreBits` fails: magnitudes of 0 and 1 outside a frame count as
  bits (`rtl_adsb.c:317`). `DecodeEnds` fails for a block overwritten by raw
  samples of the value 255 in its last places, until the next callback.

## 7. Not modelled

* Signal processing of rtl_fm and rtl_power (demodulators, FFT, windows, FIR
  filters): arithmetic on samples, whose correctness is a numerical question.
  What surrounds it, lengths, indices and carried state, is in `FmBlocks` and
  `PowerMath`.
* The E4000 benchmark of rtl_test (a loop that prints where the PLL locks), the
  E4000's DC offset and the R82xx's IMR calibration (never called), the commands
  of rtl_tcp (each calls one setter).
* rtl_biast: one call of a setter. The convenience functions but `nearest_gain`
  print or parse, getopt is vendored, USB enumeration is a linear search; build
  and packaging files.
* Two threads inside setters of one device at a time (rtl_tcp's command thread
  and a second caller): a setter is one action of `RtlDevice`.
* Data that no property tells apart: samples, strings, printed text.
* libusb and the hardware are external: libusb as the library uses it, the chips
  as the registers they were sent.

## 8. Plan

Done: the streaming engine with its abstract specification and proofs, the
control path, all five tuner drivers and the GPIO registers, and the seven tools
that have logic of their own.

Proved: section 5, 30 of the properties the runs check: every safety property but
`FrameDecoded`.

What could still be modelled: two callers of the setters (rtl_tcp's commands
while another thread retunes), and the string descriptors of the EEPROM.
