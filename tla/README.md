# A verification project for embedded-systems-resources

The repository is a collection of teaching material around a body of real code:
portable C that runs on a host and on a Cortex-M (`code/portable`), bare-metal
examples for QEMU (`code/qemu-cortex-m`), register-level drivers for the STM32F4
(`code/stm32f4`), host tests, and a few Python tools. This directory specifies
its stateful code in TLA+, checks small instances with TLC and proves theorems
for all parameter values with TLAPS. Paths below are relative to the repository.

## 1. Inventory

| Component | State | Operations | Interacts with | What is hard |
|---|---|---|---|---|
| **ISO-TP transport** `code/portable/can/isotp.c` | `isotp_rx_t`: state, buffer, lengths, expected sequence number, frames in the block, flow-control frame. `isotp_tx_t`: state, progress, sequence number, granted block | `isotp_rx_init`, `isotp_rx_frame`, `isotp_tx_begin`, `isotp_tx_next`, `isotp_tx_flow_control` | a caller that carries frames to and from a CAN bus and obeys the returned event | two state machines that count the same block separately; frames lost, foreign or late; no timers; sequence numbers that wrap; lengths that lie |
| **SPSC ring buffer** `code/portable/ringbuf/ringbuf.h` | buffer, free-running `head` and `tail` | `rb_put`, `rb_get`, `rb_count`, `rb_empty`, `rb_full` | an interrupt handler and main, with no lock | stale checks, publication order, wrap at 2^32, full against empty |
| **Example 04** `04-spsc-ring-buffer/main.c` | the ring, `g_produced`, `g_dropped`, `g_ticks`, main's locals | `SysTick_Handler`, `UART0_Handler`, `main` | interrupts preempt main anywhere | lost wake-up before `wfi`, a second producer, forced overrun |
| **Framed-protocol parser** `code/portable/frame/frame.c` | parser state, payload, index, length, running and received checksum | `frame_reset`, `frame_feed`, `crc16_ccitt_update` | a byte stream nobody guarantees | no escaping and no timeout: losing and regaining the frame boundary |
| **Example 06** `06-protocol-state-machine/main.c` | one parser | `inject_frame`, `UART0_Handler`, self-test | the parser | as above |
| **I2C master** `code/stm32f4/i2c_master.c` | the peripheral's registers, the bus | `i2c_init`, `i2c_write`, `i2c_read`, `i2c_write_read`, `i2c_bus_recover` | peripheral, target | timeouts that leave the bus held, the repeated START, recovery |
| **SPI master** `code/stm32f4/spi_master.c` | registers, chip select | `spi_init`, `spi_transfer`, `spi_transfer_buf`, `spi_cs_*`, `spi_wait_idle` | peripheral, device | one answer per byte, chip select against BSY, the divider |
| **CAN bit timing** `code/portable/can/can_bittiming.c` | none | `can_solve_bittiming`, `can_max_bus_length_m` | - | 32-bit products, optimality of the search |
| **Calendar arithmetic** `peripherals/rtc-examples/rtc_math.h` | none | BCD and civil-date conversion | - | leap years, ranges |
| **Examples 02, 03** | tick counters and flags | handlers, `delay_ticks` | interrupts | a delay across the tick wrap, a tick lost before `wfi` |
| **Startup, UART, semihosting, example 01** `common/` | `.data`, `.bss`, registers | `Reset_Handler`, `uart_*` | - | linear code |
| **Example 05** | fault registers | decoder | - | runs once, after a fault |
| **Learning ledger** `scripts/learning.py` | `attempts.csv` | `log`, `validate`, `summary`, `new`, `run` | the user | rules between rows checked at different times; reminders computed apart from the rules |
| **Link checker, practice, CI** | none | scan of files | - | - |

What makes each of them correct:

* ISO-TP: never writes outside the buffer; the two sides agree on when flow
  control is due; a message comes out whole, once, in order, or not at all; a
  bad exchange does not poison a later one; the sender's wait ends.
* Ring buffer: it is a bounded FIFO queue for one producer and one consumer, and
  its plain accesses to the buffer never meet.
* Example 04: its counters add up, the pattern is intact, the overrun is really
  forced, and it terminates.
* Frame parser: never overruns; is lost for a bounded number of bytes only;
  delivers what was sent, and every good frame whose beginning it sees.
* I2C: every wait ends; after any result the bus can be used again by the
  documented next call; `I2C_OK` means every byte was acknowledged.
* SPI: a transfer returns the answer to its own byte; chip select is not released
  in the middle of a byte; the clock is never above what the device allows, nor
  slower than it need be.
* Bit timing: a solution is in range, exact and the best there is; there is one
  when the function says so.
* `delay_ticks(n)` takes `n` ticks, or one more.
* Ledger: what `summary` asks for `log` accepts; readiness is earned over 30 days.

## 2. Modules

```
IsoTpFrame <- IsoTpRx, IsoTpTx <- IsoTpLink <- MCIsoTpLink        (TLC)
                                      |    \<- IsoTpLink_proofs <- IsoTpReliable_proofs
                                      |           <- IsoTpIntact_proofs
                                      +-- IsoTpService  (abstract, instantiated)
RingBuf <- SpscRing <- SpscRing_proofs      SpscRing -- BoundedFifo (abstract)
   \<----- SpscDemo <- SpscDemo_proofs (which uses SpscRing_proofs)
FrameParser <- FrameLink <- MCFrameLink -- FrameCrc (instantiated twice)
                        \<- FrameLink_proofs
I2cPeripheral <- I2cMaster <- I2cMaster_proofs
SpiMaster, CanBitTiming, SysTickDelay, LearningLedger <- Programs_proofs
   \<- MCPrograms, together with MCFrameLink                           (TLC)
```

**ISO-TP.** `IsoTpFrame` has the frames: a record of the PCI type, the DLC, the
number its PCI carries and the payload bytes really present, so that a frame
whose length lies can be said. `IsoTpRx` is `isotp_rx_frame`, one action per
case of the switch with its error exits as disjuncts; `rx.buf` is the part of
the buffer in use, so `received` is its length. `IsoTpTx` is the sender's three
functions. `IsoTpLink` joins them as the loop `round_trip` of
`host-tests/test_isotp.c` does: what `isotp_tx_next` produces goes on the bus,
an event `SEND_FC` sends `fc_frame`, an event `MESSAGE` takes the buffer. Bytes
are pairs (message, position), so that a byte in the wrong place shows. The bus
keeps order; it may lose frames of either direction and carry frames of other
nodes, one for every case of the code. `Impatient` allows the caller what it
must do for want of timers: begin another message while waiting for flow
control. The widths of the protocol (8-byte frames, 16 sequence numbers, 4095
bytes) are constants. `IsoTpService` is the abstract service: messages go in and
come out whole, in order, once.

**Ring buffer.** `RingBuf` has the operations. `rb_get` takes one step for each
access to shared memory; `rb_put` is there in one piece, as an interrupt handler
executes it on one core. `SpscRing` cuts `rb_put` into its accesses as well and
interleaves producer and consumer in every way, which covers either side
preempting the other. `BoundedFifo` is the abstract queue; the refinement maps
its contents to the slots from `tail` to `head`. `SpscDemo` is example 04 on
`RingBuf`: the two handlers, main step by step, `wfi` as a sleep that only an
interrupt after it ends, and the stall.

**Frame parser.** `FrameParser` is `frame_feed`, one action per case.
`FrameLink` adds the sender (`build` of `test_frame.c`, `inject_frame` of example
06) which puts one byte after the other and sums as it goes, and a line that
damages, loses and adds bytes while either end may reset. Every byte is fed as it
comes, as `UART0_Handler` of example 06 does. History variables say what the
properties need: whether the current frame is undamaged (`clean`), began while
the parser hunted (`synced`), began long after the last fault (`late`), and
whether all faults so far were of the kind a checksum is for (`aligned`). The
checksum is a constant operator. `FrameCrc` is `crc16_ccitt_update` for bytes of
any width; `MCFrameLink` uses it with 3-bit bytes for TLC, and with the real
width to confirm the check value 0x29B1 that `test_frame.c` also tests.

**I2C master.** `I2cMaster` is `i2c_master.c`: one step per access to a register,
`CR1 |= ...` as a read and a write, and every `WAIT_FOR` as polls with the check
of AF between them. The calls come in any order, and the processor may reset at
any time. `I2cPeripheral` is what the code talks to and is not in the repository:
I2C1 with its shift register, one step per byte and acknowledge bit, and a target
that answers or refuses any byte, stretches the clock for as long as it likes and,
left in the middle of a byte, holds SDA for up to nine more clocks. BUSY is set by
the peripheral's own transfer too, as the reference manual has it. The loop budget
is calibrated, as the comment at `I2C_TIMEOUT_LOOPS` asks: only polls on which the
peripheral has nothing to do count. `prompt`, chosen at the start, says whether
interrupts can delay the driver by more than a byte on the bus. For a prompt driver
the peripheral moves no byte while the driver has something to do; a START or a
STOP, which takes about a bit, may still come between any two of its accesses, and
so between the two halves of a `CR1 |= ...`. The history variable `doubled` notes
when this has made `i2c_read` ask twice for one STOP, until I2C1 is reset. Polls of
`SR2.BUSY` behind one of `SR1` clear a late ADDR, as everywhere. A target that
holds SCL low is taken to let go when the driver leaves the lines: no recovery by
clocks can help against one that does not. Writes of no bytes are left out: when
BTF is set then is not to be learnt from the repository.

**SPI master.** `SpiMaster` is `spi_master.c`: one step per access to SPI1, and
SPI1 itself as DR towards the bus, the shift register, DR from the bus, and BSY,
which clears later than RXNE is set. The device answers byte number n with number
n, so that a stale answer shows. The calls come in any order, before `spi_init`
too, when the registers read as zeros because the peripheral has no clock: that is
the only case in which a wait runs out, since 100000 polls outlast the 2048 clocks
of the slowest byte many times. So `spi_wait_idle` has no exit on an exhausted
budget: SPI1 always clears BSY by itself, and the exit would be a step that no
behaviour of the model takes. PA4 follows its output latch from the moment it
becomes an output, so `spi_init` drives chip select low for an instant before it
raises it.

**CAN bit timing.** `CanBitTiming` is the search of `can_solve_bittiming`, one step
per turn of its two loops, with the product in a word of any width. What the
property compares it with is not a second search but the definition of a legal
timing, quantified over all prescalers and segments. `~found` stands for the
initial values of `best_sp_err` and `best_tq`, which no candidate fails to beat.

**Delay.** `SysTickDelay` is `delay_ticks` of example 02 with the tick interrupt
between any two of its steps: the first read of the counter, the check, `wfi`, the
sleep. One tick at most comes between two steps of main while it is awake, because
a tick is 12000 cycles.

**Ledger.** `LearningLedger` has `check_rows`, `log` and the reminders of
`summary`. A row keeps what a rule compares with another row: item, date, kind,
whether it was correct and independent, and whether it claims readiness. Dates
before today may be logged, as the code allows. `log` is one step: the tool is
documented as single-writer (line 209), and a crash before the replacement of the
file leaves the old ledger.

These four and the frame link share nothing. `MCPrograms` puts the five into one
specification in which each behaviour runs one of them, so that their states add
up, not multiply.

## 3. Runs

| Run | Bounds | What it shows |
|---|---|---|
| `isotp_reliable` | 3-byte frames, 3 sequence numbers, messages of 1..9 bytes, 3 messages, block sizes 0..3, limits at and over the maximum | the link implements `IsoTpService`, liveness included; no mutual wait; no error; the receiver's frame queue is never overrun; every wait for flow control ends |
| `isotp_faulty` | messages of 2 and 7 bytes, 2 sequence numbers, limits 5 and 7, 2 messages, 2 losses, 1 foreign frame of 18 kinds | buffer bounds, the granted block, bytes in place, deliveries intact, recovery after the last fault |
| `isotp_overflow` | as above with limit 5, no faults | **violation**: a sender whose message is too long is never answered |
| `ring_fifo` | capacity 4, indices modulo 8, 2 byte values | refinement of `BoundedFifo` with liveness, checks that stay true, no shared slot |
| `spsc_demo` | capacity 2, period 3, 5 bytes, stall of 3 ticks, at most 2 interrupts between steps of main, 1 typed byte | counters, order, forced overrun, termination |
| `spsc_typed` | as above | **violation**: a typed byte is reported as corruption |
| `frame_poison` | bytes 0..7, 6-bit checksum, payload up to 3, 1 damaged byte | **violation**: a damaged length loses the next frame |
| `i2c_master` | transfers of up to 2 bytes, budget of 2 polls, 9 clocks; prompt and delayed drivers, resets | what `I2C_OK` promises, which requests survive a call, recovery, every call returns |
| `i2c_restart` | as above | **violation**: `i2c_write_read` finds the bus busy with its own transfer |
| `i2c_lastbyte` | as above | **violation**: a delayed `i2c_read` acknowledges the last byte |
| `small_programs` | Frame link: bytes 0..7, 6-bit checksum, payload up to 3, 4 payloads (none, the value of STX, full), 2 faults. SPI: 4 peripheral clocks, 5 limits, up to 3 bytes per call, 4 byte numbers. Delay: counter of 8, delays 0..6. Search: prescalers 1..5, segments to 6 and 4, bits of 4..9 quanta, 7 clocks, 6 rates, 3 sample points, words of 2^16. Ledger: 2 items, 3 days, intervals of 1 and 2 days, 4 rows | of the frame link: overrun, progress, which frames are delivered and when the link heals; answers, chip select and divider of the SPI driver; the length of a delay; optimality of the search; reminders and readiness |
| `spi_divider` | 84 MHz, devices of 200 kHz and 10.5 MHz | **violation**: SCK runs above the maximum when no divider is enough |

Why the bounds suffice. A frame of 3 bytes still has a first frame that carries
less than a consecutive one, a last frame with padding, and a single frame; 9
bytes make 4 consecutive frames, so that 3 sequence numbers wrap and every block
size up to 3 ends inside a message, at its end, and not at all. The ring's
indices wrap every 8 puts, twice the capacity, the least with every distinction
the code makes. In the frame model a full payload of 3, an STX in the payload, a
length equal to STX and two faults in any positions are present, and the sender
goes on for ever. The 6-bit checksum finds all errors within one byte, as the
16-bit one does; no property rests on longer errors being found. Two bytes have a
first, a last and an only byte, and fill DR and the shift register; calls follow
each other without limit. A budget of 2 has a poll that goes on and one that ends.
In `small_programs` the delays are all but the longest, from every
position of the counter; the limits of SPI lie under, at and between what the
dividers give, and beyond the last; the search has requests with no, one and
several solutions, ties in accuracy, and rates whose product wraps; four rows are
the least that make an item ready, and two items show whose rows a rule looks at.

Deadlock is checked in `ring_fifo` and `i2c_master`, where someone can always
go on. In the ISO-TP runs the bounded number of messages ends the behaviours and
in `spsc_demo` main does; being stuck earlier is what `NoMutualWait`,
`SenderIsAnswered` and `MainFinishes` exclude. In `small_programs` the ledger ends
with its last day and the search with its result; that the frame link goes on is
its sender's next byte, which nothing in the model can refuse.

Fairness. ISO-TP: `Send`, `FlowControl` and `Receive` are weakly fair, because
the caller's loop keeps calling `isotp_tx_next` and handles what arrives; nothing
makes a caller begin a message, a frame get lost, or another node speak. Ring:
only the polling consumer is fair, nothing is asked of the producer. Example 04:
the timer ticks and interrupts leave main time to run. The frame model needs
none: its progress is a decreasing measure. I2C: the processor runs and the
peripheral does what it can; nothing is asked of the target.

Every property has a mutant: a variant of one definition, kept beside it in the
module and marked as such, that breaks the code the way a plausible mistake
would; with it, TLC finds the property violated.

### Divergences between the code and what it says

1. `isotp.c:97`: a first frame over the limit builds an OVFLW frame but returns
   an event on which no caller transmits it (`isotp.h:67`, `isotp.h:88`), against
   `isotp.c:94` and `test_isotp.c:212`. The existing test looks at the bytes of
   `fc_frame`, not at whether they are sent.
2. `04-spsc-ring-buffer/main.c:43`: the UART handler is a second producer, against
   `ringbuf.h:48` and `main.c:119`; typing, which `main.c:10` invites, makes the
   program report corruption.
3. `frame.c:64`: a damaged length poisons the next good frame, against
   `test_frame.c:136`. `BadFrameCostsItself` and `LinkHeals` are what does hold.
4. `i2c_master.c:89`: the wait for a free bus also precedes the repeated START of
   `i2c_write_read`, against lines 150 and 162. The register read cannot succeed
   and leaves the bus held.
5. `i2c_master.c:136`: ACK is cleared while the last byte is already coming in,
   against line 133 and `i2c.md:468`, which promise that it is refused. A prompt
   driver does refuse it (`PromptlyRefused`), with the exception stated below.
6. `spi_master.c:44`: the search for a divider stops at 256 without saying so when
   that is not enough, against lines 18 and 39-41 and `spi.md:342`. A clock above the
   maximum by less than a hertz passes at any divider, too. `SckFastestAllowed` says
   that the maximum is exceeded in these two cases only.

One weakness contradicts no text and is therefore not among the runs that end in a
violation: `CR1 |= ACK` at `i2c_master.c:143` asks for the STOP of line 137 again
when it goes out between the read and the write. That needs no long interrupt: the
STOP goes out about a bit after the last byte, when the driver is just there. The
next START is then cut off. `StrayStopIsDoubled` says that, until this has happened
once, nothing in a prompt driver leaves a STOP behind, `OkMeansTransferred` that a
transfer that is cut off does not end in a false `I2C_OK`, and
`RecoveryRestoresStart` that recovery removes the STOP.
`OkReleasesBus` and `PromptlyRefused` hold until it happens, and again after I2C1 is
reset: what the cut-off transfer leaves in CR1 breaks them, as TLC finds when the
condition is dropped.

## 4. Proofs

All theorems hold for every value of the constants under the named assumptions of
the modules (`FrameAssumption`, `LinkAssumption`, `RingBufAssumption`,
`ParserAssumption`, `PeripheralAssumption`, `MasterAssumption`, `SpiAssumption`,
`LimitsAssumption`, `ArgumentsAssumption`, `DelayAssumption`, `LedgerAssumption`),
which only fix types and the orders of sizes; `DelayAssumption` also leaves out the longest delay, for
which the theorem is false.

* `IsoTpLink_proofs`: type correctness, `RxWithinBuffer` and `TxWithinGrant` of
  the link on any bus. The conjunction of the three is inductive; the step lemmas
  follow the cases of `isotp_rx_frame` and of the sender.
* `IsoTpReliable_proofs`: with the additional assumption `ReliableBus` (no losses,
  no foreign frames, a patient caller, limits that fit): `NoMutualWait`,
  `NoErrorReported`, and that every step is one of `IsoTpService` or a stutter.
  The invariant says where the exchange stands: which frames can be under way
  given the sender's state, that the receiver together with the frames under way
  has exactly what the sender has sent, and that their block counters differ by
  the consecutive frames under way. Nothing weaker is inductive: the receiver's
  next step depends on frames that are still on the bus.
* `IsoTpIntact_proofs`: on a bus that loses frames, `StoredInPlace`,
  `DeliveredIntact` and `CfsWithinBlock`, for every message length, block size and
  sequence-number modulus. The invariant (`IntactInv`): what is under way to the
  receiver is the end of what the sender has sent, without a gap; a receiver inside
  a message is at most as many consecutive frames behind the head of that queue as
  were lost. So with fewer losses than sequence numbers a gap is noticed; with more
  it may not be, but then the receiver has had fewer frames than the message has and
  never completes it. A patient sender adds that both sides count the block from the
  same frame (`Patient`), from which the bound on the queue follows
  (`QueueWithinBlock` for any bus, `QueueAlwaysWithinBlock` with a patient caller and
  no foreign frames, losses allowed).
* `SpscRing_proofs`: type correctness, `ChecksStayTrue`, `NoSharedSlot`, and the
  safety part of the refinement of `BoundedFifo`, for every capacity and every
  index width it divides. The invariant ties the private copies of the two sides
  to the shared indices; the arithmetic of remainders with symbolic modulus is in
  lemmas at the head of the module.
* `SpscDemo_proofs`: `EveryByteAccounted`, `SequenceIntact` and `OverrunForced`, for
  every capacity, period, target and stall. The invariant (`DemoInv`): what `rb_get`
  checked holds until it publishes, however often it is interrupted; the buffer holds
  the letters that follow what main has consumed, the one in its hand included; and
  from the start of the stall every tick is a byte in the buffer or a drop, and
  nothing is dropped but on a full buffer.
* `FrameLink_proofs`: all seven properties of the frame link in `small_programs`. Type
  correctness, `PayloadWithinBuffer` and `AlwaysNearerToIdle` follow from an invariant
  of the parser alone, kept by `frame_feed` for any byte. `SyncedFrameDelivered` needs
  the relation `Follows` between the parser and the position in the frame being sent.
  `LinkHeals` reduces to it: `Healing` says that what a lost parser still waits for
  fits in a longest frame less what has come undamaged since, so a late frame finds
  it hunting. These hold for every checksum function, byte size and payload size.
  `BadFrameCostsItself` (`InPlace`: the parser is at the sender's place even in a
  damaged frame, since the length is intact) assumes `STX # ETX`, else the ETX
  of a frame rejected for its checksum would open another. `DeliveredWasSent` assumes `OneByteDetected` as well: the step of
  the checksum is one to one in the sum and in the byte, so that one changed byte
  changes the sum. Both are facts about the program's constants: STX is 0x02 and
  ETX is 0x03; TLC evaluates `OneByteDetected` for the checksum of the run
  (`SmallDetects`), and for the real CRC-16 that its step is one to one on the 65536
  sums, to whose high byte it adds the byte first (`FullDetects` in `MCFrameLink`).
* `I2cMaster_proofs`: all safety properties of the run `i2c_master`, for every
  budget and length. Type correctness, with the bounds of the loops and of the
  caller's buffer as the strengthening. `RecoveryRestoresStart` for every target that
  needs at most nine clocks (`MaxHold <= 9`; with ten it is false): its invariant says
  what recovery leaves behind it step by step: SDA is released before the clock loop
  runs out, nothing is under way between the recovery and the next transfer, and
  that transfer's START is either still pending on a free bus or out.
  `StrayStopIsDoubled`, `OkReleasesBus` and `PromptlyRefused` rest on `PromptHolds`,
  which is `PromptInv` for a prompt driver that has not doubled a STOP, beside a few
  facts of every driver. Each place in the driver allows few states of bus and shift
  register, because no byte moves while the driver has something to do; CR1 is still
  what the first half of a `CR1 |= ...` has read, except that the STOP may have gone
  out behind the last byte of a read, which is the one place where it can be
  doubled; a STOP is pending only behind a byte that will be refused or has gone
  out; and ACK is clear before the last byte ends. A reset of I2C1 makes it hold
  again. `OkMeansTransferred` holds of delayed drivers too and needs another
  invariant (`DataInv`): each byte of the call is in the caller's buffer, in DR, in the
  shift register or still to come, in this order, or the transfer is over and neither
  BTF nor RXNE will be set again for it.
* `Programs_proofs`, the small programs.
  SPI: `ReplyIsOwn`, `ReleaseAfterLastBit` and `SckFastestAllowed`. The invariant
  says that SPI1 holds a byte only while `spi_transfer` waits for its answer, and
  then exactly one, the one last written; so no call finds anything left over, and
  only the last half clock separates RXNE from a quiet bus. For the divider it says
  that the one before was too fast.
  Search: `SolverFindsBest` for every set of limits, every word and all arguments
  whose products fit in it. The invariant: `best` is a legal timing, and no worse than
  any legal timing among the splits the loops have visited. A prescaler is skipped
  only if no legal timing has it, a split determines TSEG2, and ranks are transitive.
  Delay: `DelayBounded` for every width of the counter; the invariant bounds the ticks
  at each place of the loop and says that the counter has wrapped once at most since
  the call.
  Ledger: a ledger that log wrote satisfies `check_rows` and holds no date to come
  (`LedgerInv`, `DatesPast`). `ReadyTakesThirtyDays` follows because the row of the 30
  days was itself checked against the rows before it; `DueIsAccepted` because the file
  is in the order of its dates, so that its first success, which `summary` takes, is
  the earliest, which `check_rows` takes.

Every safety property that a passing run checks is proved. Only model-checked:
everything under fairness (`SenderIsAnswered`, `NextGoodOneArrives`, `MainFinishes`,
`CallReturns`, the liveness parts of `ReliableService` and `ImplementsFifo`), which
is out of the prover's reach; and that the CRC's step is one to one, a fact about
its finitely many values that TLC computes, as it does the check value 0x29B1.

## 5. Not modelled, and the plan

Left out for good: printing, formatting and name functions, UART character
output, start-up code and the fault decoder (linear, single actor), STmin (stored,
never read), the diagnostic counters (written, never read, and told by the
returned event), practice material and CI. Also

* the calendar arithmetic of `rtc_math.h`: pure functions, which `test_rtc.c` and
  `verify_calendar.py` compare with an independent calendar on every day of their
  range and every BCD byte;
* example 03: one interrupt nested in another, once, and what it prints of it;
* `can_max_bus_length_m`: one formula; the checks of single fields in `check_rows`;
* `validate`, `new` and `run` of `learning.py`, which read or create other files.
  A crash of `new` between its `mkdir` and its last file leaves a folder that
  `validate` rejects and `new` will not touch: it has to be removed by hand.

Read in the code and not expressed as a run: `spi_master.c:33` writes `0xAA << 10`,
which reaches one pin too far and makes PA8 an alternate function too; and a delay
of 2^32 - 1 ticks may last twice as long.

Planned:

1. Proofs: that a patient sender's wait for flow control is always for something
   that is under way (the safety core of `SenderIsAnswered`, with losses), and a
   decreasing measure for the calls of the I2C driver, the core of `CallReturns`.
2. `can_max_bus_length_m` on what the search returns.

## 6. Running it

    tlc -config IsoTpLink_reliable.cfg MCIsoTpLink     # PROJECT.json lists the runs
    tlapm IsoTpReliable_proofs.tla                     # likewise every *_proofs
