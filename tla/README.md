# TLA+ models of the MSP432 core for Energia

This directory models and verifies the parts of the core where an interrupt, a
second task or a second user of the hardware can come between two statements.
Paths below are relative to the repository's `src/`; *wiring* stands for
`src/cores/msp432/ti/runtime/wiring/`, *drivers* for
`src/system/source/ti/drivers/`.

## The system

Energia runs every `loop()` of a sketch as a TI-RTOS task. All sketch tasks have
the same priority by default and are not time-sliced: a task runs until it blocks,
unless an interrupt or a task of higher priority preempts it. The core gives
them the Arduino API on top of TI-RTOS and the TI drivers. Its global state
is protected, where it is, by disabling interrupts for a few statements.

| Component | State | Operations | Talks to | What makes it hard |
|---|---|---|---|---|
| Serial transmit (wiring `HardwareSerial.cpp`, drivers `uart/UARTMSP432.c`) | ring `txBuffer`, its two indices, `txActive`; the driver's write | `write`, `flush`, `begin`, `end`, `availableForWrite`, `primeTx`, `writeCallback`, the UART interrupt | driver by calls, callback from the interrupt, power constraints | `write()` tests and stores in different critical sections; driver may refuse a write; used from interrupt handlers |
| Serial receive (same files, drivers `utils/RingBuf.c`) | the driver's ring and semaphore, the pending read, a gate | `read` with `peek`, `acquire`, `release`, `begin`, `end`, the UART interrupt | driver, GateMutex, Semaphore | a blocking read sleeps on a semaphore that an older character may have posted; the hardware overruns; two tasks share one pending read |
| Delay and tick (wiring `msp432/wiring.c`) | `delayMode`, Timer_A, watchdog timer, power constraints | `delay`, `setDelayResolution`, two tick functions, `millis`, `micros` | kernel Clock, Timer, Power | the source of the tick is switched while tasks sleep on it and the idle task chooses a sleep state |
| Servo (`src/libraries/Servo`) | slots, the mask of assigned slots, a one-shot Timer32 | constructor, `attach`, `detach`, `write`, the interrupt | GPIO, Timer32 | one interrupt times eight pulses out of a table the calls change |
| PWM pins (wiring `msp432/wiring_analog.c`, `wiring_digital.c`) | function and PWM index of each pin, pin of each index, CCRs in use, two pools of timers | `analogWrite`, `pinMode` | PWM driver, kernel timers, IR sender, `tone()` | three tables and two pools, updated in separate critical sections |
| Wire as master (wiring `Wire.cpp`, drivers `i2c/I2CMSP432.c`) | a context per task, a gate per bus with one count of its entries; the driver's mutex, counters and semaphore | `beginTransmission`, `endTransmission`, `requestFrom`, `write`, `read`, `flush`, the I2C interrupt | I2C driver, GateMutex, the devices on the bus | the gate is held across calls and calls nest; a device may refuse any byte; indices that say received what was only requested |
| Wire as slave (wiring `Wire.cpp`, `msp432/I2CSlaveMSP432.c`) | buffers and their counters, mode flags, mutex, power constraints | `begin(address)`, `primeTransfer`, the callbacks behind `onReceive` and `onRequest`, the interrupt | eUSCI, the master on the bus | transfers are primed from the interrupt; repeated STARTs; the handler looks at the flags in an order of its own |
| SPI (wiring `SPI.cpp`) | one transaction | `begin`, `transfer`, `usingInterrupt` | SPI driver | masks pin interrupts |
| NEC infrared (`src/libraries/TinyIRremote`) | protocol automaton, last frame; senders' timer | edge interrupt, `decodeIR`; `initIRSender`, `send` | GPIO, PWM | the frame is overwritten while it is decoded |
| `tone()` (wiring `Tone.cpp`) | kernel timer, pin, duration | `tone`, `noTone`, the interrupt | kernel timers | creation of the timer may fail |
| RSLK robot (`src/libraries/RSLK`) | encoder counts, motors, sensors | interrupts, `setMotorSpeed`, calibration | GPIO, PWM | counters shared with interrupts |
| WiFi, screen, Print/String, board tables, vendored kernel and drivers | | | | see `PROJECT.json` for why they are left out |

What makes each correct, in a sentence: the serial port sends the accepted bytes
once each, in order, and never stops; a delay lasts as long as asked to within
the tick in use, and the tick's timer is never put to sleep under a waiting task;
servos get one pulse per frame and do not disturb each other; tables and pools
agree on who drives a pin and no timer is lost; a bus has one
user at a time; a decoded frame is one that was sent.

`PROJECT.json` lists every component, and under `hazards` what can go wrong in
this code that a test would hardly reach, each with the properties that
would show it or the reason none does yet.

## The modules

**SerialTx** is the non-blocking transmit path with the transmit half of the
driver in one module, because they alternate on the same state. `open`,
`txBuffer`, `txWriteIndex`, `txReadIndex` and `txActive` are the object's fields;
`drv` is the driver's object and what matters of the eUSCI (bytes left, the two
interrupt enables, the shift register, power constraints taken). A thread is a
task or an interrupt handler that prints; `pc` tells at which statement it is:
`WriteCall`, `TestFull`, `TestActive`, `Store`, `CheckActive`, `CheckPending` are `write()`, a
step for each volatile variable that it tests; `PrimeTx` and `PrimeWrite` are `primeTx()` before and after `Hwi_restore()`, `TxData`,
`ShiftOut` and `TxComplete` the hardware and its interrupt with
`writeCallback()`. A critical section is one step. The two indices that a test of the full
or the empty ring compares are read in one step: with one writer only one of them can
change. `Begin` may fail, as `UART_open()` may. Bytes are numbered as stored. The ghost
`stale` says that `primeTx()` has been called with an empty ring since the port was opened,
`crowded` that a `write()` was longer than the room in the ring.
**SerialChannel** is what the port promises: the k-th byte sent is the k-th
accepted (`Accept`, `Transmit`, `Reopen`), until it begins to send old bytes of its buffer
(`GoStale`). `ChannelSpec` says that SerialTx implements it. **SerialTxProofs** holds
the proofs, that of `ChannelSpec` for one writer among them.

**DelayClock** is `delay()` and `setDelayResolution()` on the MSP432P401R, call by
call (`SetMode`, `StopTimerA`, `HoldWatchdog`, `Release`, `Set`, `Start`, `Sleep`),
with the two timer interrupts, the tick function (`ClockTick`), the kernel's
Clock Swi that compares the timeouts of sleeping tasks with the ticks (`ClockSwi`),
and time (`Elapse`), in which the idle task's power policy stops timers.
**TickP4111** is the tick of the other board, 32 or 33 counts of the crystal.
**ClockProofs** holds the proofs of both.

**Servo** is the Servo library statement by statement: constructor (`New`),
`Attach` .. `Enable`, `Write`, `Detach` .. `Count`, and `ServoIntHandler`, which can
come between any two. **ServoProofs** holds the proofs.

**PwmPins** is `analogWrite()`, `pinMode()` and the tables they share, with the IR
sender's initialisation, `tone()`'s claim of a timer and sketches that open timers
with the drivers (`OtherTimers` are the ones they open). **PwmPinsProofs** holds the
proofs.

**SerialRx** is the receive path: `read()` with its `peek()` in callback and in blocking
mode, `acquire()` and `release()`, the driver's ring, the pending read
(`drv`), the semaphore it posts (`readSem`) and the interrupt. `Arrive` is the wire,
`HwiError` and `HwiReceive` the two ways through the handler.
Characters are numbered as they arrive. Threads interleave freely, which
includes every priority. **SerialInput** is what the port promises: characters
are returned once and in order; only the youngest may be lost, and only while the
receiver is not served or the ring is full. `InputSpec` says that SerialRx
implements it; **SerialRxProofs** proves it.

**WireBus** is Wire as master: `ctx` is the `WireContext` of each task, `gate` and
`enters` the `GateMutex` of each bus and `gateEnterCount`, `drv` the driver's object.
`pc` follows a task through a call: `EnterGate`, `Transfer` (the tests of
`I2CMSP432_transfer()`), `Prime` (its mutex and `primeTransfer()`), `Wait` (the
semaphore), `Finish` (the end of `endTransmission()`). `HwiWrite`, `HwiRead` and
`HwiError` are the interrupt, one byte each; `LastByte` is the acknowledge that comes
after the driver has ended a write. Bytes are counted, not stored. Three
constants widen what sketches and devices do: `Roaming` (another device after
`endTransmission(false)`), `MidFlush` (`flush()` inside a transmission), `LateNack` (a
device refuses the last byte of a write). **WireBusProofs** holds the proofs.

**WireSlave** is Wire as slave. `Open` and the `Prime...` actions are `begin(address)`
statement by statement; `HwiStart`, `HwiReceive`, `HwiTransmit` and `HwiStop` are the
branches of the interrupt handler, each with the callbacks it makes and the transfer
they arm; `Start`, `WriteByte`, `ReadByte`, `ReadLast`, `Stop` and `Finish` are the
master. Flags pile up in `flags` until the handler takes them. `heard` has the count of every
call of `onReceive()`, `finished` those that are due. An address alone that a STOP ends is a message
of no byte: Wire forwards the count whatever it is (`Wire.cpp:152-158`), so
`onReceive(0)` is called, but only when the byte before it on the bus was written, because
`object->read` tells which way the last byte went. After a read, or when a repeated START
ends it, no call comes (`Due`). `onRequest()` writes at most a byte less than the buffer has. `Lag`, `Early`,
`RestartFull` and `Reread` widen what the master does. **WireSlaveProofs** holds the
proofs.

**NecRx** is the NEC receiver: the edge handler with its automaton, `decodeIR()` read by
read (the flag, address, command, repeat flag, and the flag cleared), callback mode and repeats, and the
pulses that the library's sender makes of a frame. An edge that comes before the
handler has run is not seen, a transmission may break off. **NecRxProofs** holds the
proofs.

The `MC*` modules give the constants of these modules their values for TLC; **MCClock** is the
Clock of either board, DelayClock or TickP4111. The
definitions named after another with an underscore (`Store_NoWrap`) are faults: a
plausible mistake in the code, each of which a run detects (`mutants` in
`PROJECT.json`).

## The runs

| Run | Shows | Bounds |
|---|---|---|
| serial_fifo | with one task, until `primeTx()` is called with an empty ring, the wire carries the accepted bytes once each and in order (`ChannelSpec`), also when the driver refuses a write, across `end()`/`begin()`; while the driver refuses nothing every call returns and every byte is sent; and only a `write()` longer than the room in the ring can lead to a prime of an empty ring (`StaleOnlyWhenCrowded`) | ring of 4, writes up to 4 bytes, 7 bytes a session, one `end()` |
| serial_stale | violation: one task writes more than there is room for; the interrupt drains the ring between its tests of `TX_BUFFER_FULL` and of `txActive`, and `primeTx()` hands the driver old bytes (`PrimesPending`) | ring of 4, writes up to 4 bytes, 7 bytes |
| serial_preempt | with two tasks of different priority and a handler, the transmitter has one owner, slices stay in the buffer and power constraints balance | ring of 2, 3 bytes; no `end()`, which with several threads is left to the proofs |
| serial_rx | two tasks read in both modes while the receiver overruns and the ring fills: what they get is what arrived, in order (`InputSpec`); a read that returns has its character; a sleeper is woken | ring of 2, 4 characters a session, one `end()` |
| clock | on the P401R, with tasks of one priority: the constraint of the timer that runs is held, the idle task does not stop it under a sleeper, delays end within a watchdog period of what was asked; on the P4111: no drift, and every 125 ticks exactly 4096 counts | period 4 for 250, delays 0, 1, 4, 7, 8, ticks modulo 10; 1000 ticks |
| servo | one pulse at a time, frames of the refresh interval, objects independent, every attached servo pulsed, the timer held exactly while needed | three objects, two slots |
| servo_late | violation: an object constructed after the first `attach()` shares a slot | the same |
| pwm_pins | the tables and pools agree: duty cycles reach the pin, pins are driven as their function says, timers serve one user and come back | three mappable pins and two fixed ones, timers of two CCRs, two tasks; nobody else opens the timer of the fixed pins |
| wire | two tasks, nested requests, repeated STARTs and a device that refuses: the driver gets what the sketch asked for, `I2C_transfer()` blocks as long as its transfer, `read()` returns what arrived, the gate is freed, every call returns | one bus, two devices, buffers of 3, requests of up to 2 by one of the tasks; the last byte of a write is accepted |
| slave | messages reach `onReceive()` once and whole, each read gets the answer of its own `onRequest()`, an address alone makes `onReceive(0)` exactly when it is due, the handler never waits | buffers of 4, messages and reads of up to 5, answers of 1 and 3, three STARTs; the handler is served before the next START, reads end with STOP, a message that overflows ends with STOP |
| slave_silent | violation: `onRequest()` writes nothing and the master gets the rest of an older answer | the same |
| nec | what is decoded was sent; a whole frame is received whatever came before it | codes of 2 bits, 4 transmissions 48 ms apart, one edge missed, one transmission cut off, the sketch polls before the next one |

The rings are small so that they wrap and fill several times in a session; the
code uses their size only through `%` and comparisons. A ring of 2, the smallest
that holds anything, is where full and empty are closest; the proofs cover the
other sizes. The watchdog's period is scaled to 4 because only
multiples and remainders of it matter, and the tick count wraps at a value that is
not a multiple of it, as 2^32 is not one of 250. Two servo slots
have a first, a last and the remainder; three objects make one go without.
Two CCRs per timer suffice to have a timer partly used; the code's 4 add no case.
Buffers of 3 in Wire hold two bytes, so a transfer has a first, a middle and a last
interrupt; that one task requests and both write is enough to interleave any
two kinds of transfer. A message of one byte more than the slave's buffer is the
shortest that overflows it, and three STARTs make a sequel to a sequel. NEC codes of
two bits have both values in both places; the automaton counts bits and looks at no
earlier one.

The violations are disagreements between the code and what it says of itself; each
is quoted under `findings`.

`TypeOK` of SerialRx, Servo, PwmPins and WireBus, `TickTypeOK`, `OneSource` of DelayClock (one timer
runs and `delayMode` names it) and `StoresInFreeSlot` of SerialTx hold in their runs too; they are
not listed there because the properties that are say more, and the last two are theorems.

### Additional configurations

These are not in the list of runs. Each ends in a counterexample worth having when
one changes the code, most about a use no document promises:

| Configuration | What the counterexample shows |
|---|---|
| serial_duplex.cfg | a character that is arriving makes the driver refuse; `flush()` then waits for ever |
| serial_close.cfg | `flush()` after `end()` during a transmission waits for ever |
| serial_nested.cfg | `acquire()` twice by one task: the first `release()` frees the port |
| serial_ungated.cfg | two blocking reads without `acquire()`: one takes the pending read of the other, which sleeps for ever |
| delay_tick.cfg | one Timer_A tick counts for a whole watchdog period |
| delay_resolution.cfg | `setDelayResolution()` while another task sleeps: the ticks jump over its timeout and it sleeps until the count wraps |
| delay_preempt.cfg | tasks of different priority switch at once and both timers run |
| servo_twice.cfg | `attach()` on an attached object counts twice and the timer is never released |
| pwm_stale.cfg | a failed `PWM_open()` leaves the pin an index |
| pwm_mark.cfg | a sketch holds the timer of the fixed pins: the failed `PWM_open()` marks all its CCRs as in use, over the marks that tell `stopAnalogWrite()` what kind of pin it frees |
| wire_late_nack.cfg | the last byte of a write is refused after the transfer was ended: the interrupt completes a second time and the next `I2C_transfer()` returns before its transfer |
| wire_stale.cfg | after a failed request `available()` counts bytes of an older one |
| wire_full_request.cfg | a request of the whole buffer: the read index never meets the write index |
| slave_constraint.cfg | a transfer of the slave is in progress and no power constraint is held |
| slave_stuck.cfg | a master that starts while `begin(address)` is in `primeTransfer()`: the handler waits for the mutex for ever |
| nec_alias.cfg | a silence whose length modulo 65536 is a header space: the frame after it is lost |
| nec_orphan.cfg | a repeat that follows a broken frame repeats the frame before it |

Some constants show more without a configuration of their own: `Roaming` or
`MidFlush` = TRUE in WireBus (`TransferAsAsked`: the new device is ignored, the count
does not follow), `Lag` = TRUE in WireSlave (`MessagesIntact`: a
handler delayed past the next START merges two messages), `Reread` = TRUE (`ReadAnswered`:
a read after a repeated START is not answered), `Early` or `RestartFull`, `SlowPoll` =
TRUE or a `Stretches` of one unit in NecRx (`DecodedWasSent`: address and command
are read while the next code overwrites them), a handler of the UART's own priority in SerialTx
(`CallsReturn`), a second writer there (`StoresInFreeSlot`: a handler that prints takes the last free
slot between the test and the store of a task), and `RoomReported` (`availableForWrite()`
returns -1 of an empty ring).

## Fairness

`SerialTx`: a step inside a call, when it can run, is taken (the processor executes
the running thread; starvation by a thread of higher priority is not assumed
away, since `CanRun` must hold). The shift register empties and an enabled
unmasked interrupt is taken: hardware. Calls are not fair: a sketch need not
write. `CallsReturn` speaks of the threads of highest priority only; it, `OpenCallsReturn` and
`AllSent` hold until `primeTx()` is called with an empty ring. After that, `txReadIndex` runs
past `txWriteIndex`, and the interrupt may be served just so that a writer finds the ring
full of old bytes, then the transmitter idle, and sends them again, for ever.

`SerialRx`: a task goes on in a call it is in unless it sleeps, and the receive
interrupt is served; characters need not arrive. `SleeperServed` promises a wake-up
only when a character is there.

`WireBus`: a task goes on in a call when what it waits for is there, and the
interrupt comes while a transfer is on: the device answers or refuses each byte.
`TransfersReturn` starts behind the gate, whose owner has no rival for the driver's
mutex; how long a task waits for the gate is up to the sketches. A device that
stretches the clock for ever is not covered; nothing in the code ends its transfer.

`WireSlave`: `begin()` goes on and the handler is served. The master owes nothing.

`DelayClock`: pending interrupts and the Clock Swi are served, time passes, and a
running task goes on; nothing forces a task to call anything, or to stop.

`Servo`: the Timer32's interrupt keeps coming and a call goes on to its end.

All of it is weak fairness of single steps; nothing relies on strong fairness.

## What is proved

By TLAPS, for every value of the constants that satisfies the module's assumption:

* **SerialTx**, for any threads and priorities (the task that opens the port being
  the lowest, which makes `begin()` and `end()` safe from it) and any ring of 2 or
  more: `TypeCorrect`, `Ownership` (`txActive` is a lock on the transmitter),
  `SlicesStayInBuffer`, `ConstraintsBalance`. The invariants alone are not inductive.
  `IInv` adds what they rest on: the port is open in every call but `flush()`
  (`CallsNeedOpenPort`, which needs `begin()` and `end()` to be called by the lowest
  thread), a write in progress holds a constraint to release, `write()` has
  bytes left where it decrements their number, and the port is closed only after an
  `end()`. The calls, `end()`, `begin()` and the three hardware steps each have a lemma.
* **SerialTx with one writer** (`OneWriter`): `PortIsChannel` (`ChannelSpec`: the detailed
  path implements the abstract channel, whose promise ends with the first prime of an empty ring),
  `StoresAreFree` (`StoresInFreeSlot`) and `PoliteIsFresh` (`StaleOnlyWhenCrowded`). The indices
  become distances (`Dist`, `Waiting`), so that wrapping is a matter of four lemmas
  (`Retire`, `Advance`, `FullEmpty`, `SliceWaits`). `DataInv` says that the ring holds the
  last `Waiting` bytes in order, and that the wire has carried the others and what of the
  slice in progress has left; `WriterInv` what is left of the tests made with interrupts
  enabled when they are acted on: a free slot stays free, because the interrupt only makes room,
  but a ring found full may be empty. `FreshInv` asks for both until `stale`. `Store` is the
  channel's `Accept`, `TxData` its `Transmit`, `Begin` its `Reopen`, a `PrimeTx` of the empty ring
  its `GoStale`, all else a stutter. serial_stale.cfg shows that the last can happen. For sketches
  that never write more than there is room for it cannot (`PoliteIsFresh`): the room they found
  covers what they have still to store (`RoomInv`), so they never find the ring full.
  With a second writer the channel is lost altogether: the last free slot can be taken twice.
* **SerialRx**, for any tasks and a ring of any size, where a task that reads in blocking mode
  has called `acquire()` and none nests it (`Exclusive`): `ReadsInOrder` (`InputSpec`: in both
  modes every call of `read()` returns the oldest character kept), `ReadsAreSatisfied` and
  `TypeCorrect`. `IInv` says, of callback mode, that `peek()` and `UART_read()` are not separated
  and the driver never holds a read of its own (`MaskInv`, `CallbackInv`); of blocking mode, that
  the owner of the gate is the only reader, that a posted semaphore or a request to be woken
  belongs to a task that sleeps, and that what woke it is still in the ring (`BlockingInv`),
  which is why the second `RingBuf_get()`, whose result the code does not test, cannot fail.
  `GetItems` and `PutItems` say what the ring's operations do to the sequence it holds; with
  them each step is one of SerialInput's or a stutter. serial_ungated.cfg and
  serial_nested.cfg show that both parts of `Exclusive` are needed.
* **DelayClock**: `ClockTypes` for all tasks; and, for tasks of one priority
  (`Cooperative`), `OneTimerDrives`, `SleepersWake`, `OneConstraintHeld`. The
  invariant `SourceInv` says what a task in the middle of a switch still owes:
  outside the switch the state is settled, and inside it exactly one task runs, at
  a place that determines which timer is stopped and which constraint is held.
  delay_preempt.cfg shows that the assumption is needed.
* **DelayClock, how long a delay lasts**: `DelaysNotLate` (`NoOversleep`) and `DelaysNotEarly`
  (`NoEarlyWake`): a delay lasts at most a watchdog period more than asked, and less than one less,
  whatever the delays of the other tasks switch the Clock to meanwhile, and across the
  wrap of the tick count. Besides `Cooperative` they assume `ShortDelays` (an argument is below
  the modulus of the ticks; in the code both are 32 bits) and `Lone` (no
  `setDelayResolution()` while a task sleeps; delay_resolution.cfg shows what it does).
  `SleepInv` is a countdown: the time a sleeper has slept is what it asked for, less the
  ticks left to its timeout (`Rem`), give or take two quantities. `Uncounted` milliseconds have passed
  and their tick is still to come. `Uncountable` ones never will be counted: when Timer_A takes
  over in the middle of a watchdog period, what passed of it is lost, at most `Period - 1`,
  and one more that passes inside the switch. That this happens at most once to a sleeper is the
  heart of it (`Handover`): while any task sleeps, no call hands the Clock back to the watchdog.
  What the wrap of the ticks does is confined to four lemmas (`Wrap`, `SpanTicks`,
  `SpanAhead`, `SpanRange`).
* **TickP4111**: `TickAccurate` and `RoundsExact`, for ever, from a balance between
  the counts elapsed and programmed and the error carried. The bound `MaxTicks` of
  the module is arbitrary in the proof.
* **WireBus**, for any tasks, buses and devices and any size of the buffers:
  `TransfersAreAsked`, `TransferBlocks`, `ReadsAreReceived`, `GateIsFreed` and
  `TypeCorrect`, for sketches and devices that are `Disciplined`: they keep to one
  device between repeated STARTs, do not `flush()` what they began, request less than
  the whole buffer, and accept the last byte of a write. `wire_full_request.cfg`,
  `wire_late_nack.cfg` and the constants named above show that none of the four can
  be left out. `IInv` has three parts. `GateInv`: the count of a bus is the number of times
  its one owner has entered, which its place and its calls determine (`Entries`), 1 for a
  transmission and 1 more for a request inside it; hence the last to leave, and only
  the last, frees it. `LocalInv`: what the context holds is what was asked, from
  the place on where it was copied there. `DriverInv`: the driver's mutex belongs
  to the task that sleeps in it, the semaphore is down while the transfer runs, and the
  bytes that have arrived and those still to come add up to the request.
  The calls change one task (`TaskStep`), the interrupts one driver (`BusStep`); what
  each leaves alone is stated once.
* **WireSlave**, for a buffer, messages and reads of any length and any number of STARTs:
  `MessagesStayIntact` (`MessagesIntact`), `ReadsAreAnswered` (`ReadAnswered`) and
  `TypeCorrect`, for masters and sketches that are `Orderly`: a START follows `begin()` and
  the handling of the last message, a repeated START follows neither a read nor a message
  that did not fit, and `onRequest` writes something. `CountInv` says that the driver has
  counted what the handler took of this message or, while its START is still to be
  seen, all of the message before; so what the flags that are up will report is known
  (`Told`), and `HeardInv` says that it is what the master has finished. `LastInv` ties `object->read`
  to the direction of the last byte, on which it depends whether an address alone is reported. `BytesInv` says that the
  bytes taken and on their way are the answer in order and that the driver's index
  stands after them. slave_silent.cfg, slave_stuck.cfg and the constants `Lag`, `Reread` and
  `RestartFull` show what becomes of it otherwise.
* **Servo**, for any objects, pins and number of slots. For sketches that are `Early`, which
  construct all objects before the first `attach()` and write no width of zero:
  `SlotsStayDistinct` (`SlotsDistinct`), `ObjectsApart` (`ObjectsIndependent`), `TimerHeld` and
  `ServoTyped` (`TypeOK`). For those that are `Careful`, which do not attach an object twice in
  a row either: `PulsesAlternate` (`OnePulse`) and `TimerReleased` (`ReleasedWhenDetached`;
  `TimerHeld` is the half of it that attaching twice does not break). The invariant
  keeps the slots of any two objects distinct, each slot's state what the calls on its object
  left, and `servosAttached` at least the number of slots in use, counting the slot that
  `detach()` has still to count off, and equal to it when no object is attached twice.
  servo_late.cfg and servo_twice.cfg show that constructing early and not attaching twice are
  needed.
  `FramesLast` (`FrameIsRefresh`) holds of every sketch, early and careful or not, when the
  longest pulse fits as often as there are slots (`Fits`). Its invariant, `FrameInv`, says that a
  frame in which no width was changed has lasted the sum of the widths of the slots
  served (`ElapsedInv`), and that `remainder` is what all of them leave of the
  interval, except between the two assignments of `write()` and `detach()` (`WidthsInv`), where
  no frame is clean (`ChangeInv`). What a sum over the slots is (`SumUnfolds`, `SumTakes`, `SumBound`)
  follows from the recursive function in the community modules' definition by taking a
  smallest set of slots for which the claim fails.
* **PwmPins**, for any tasks, pins, timers and CCRs: `DutyArrives`, `PinsAreDriven`,
  `TimersAreExclusive`, `TimersComeBack` and `PinsTyped` (`TypeOK`: no timer is counted more often
  than it has CCRs), for sketches that do not open the timer of the fixed pins
  themselves (`Considerate`). The invariant says of a pin that holds an index that it
  holds it alone, that the index bears its mark and that the instance drives it until it
  is closed; that an index kept after it was given away is never used again; and, of
  the pools, that the CCR count of a timer is the number of its indices held, and that each
  timer has one user or is free. pwm_mark.cfg shows what becomes of it otherwise.
* **NecRx**, for codes of any length, any number of transmissions and of broken ones:
  `CodesAreSent` (`DecodedWasSent`), `FramesArrive` (`FrameReceived`) and `ReceiverTyped` (`TypeOK`),
  when no two edges in a row come before the handler (`Prompt`), and `OneEdgeMissed`: all three with no
  such condition when one edge at most comes too early (`MaxLate <= 1`). `Clear` is what they
  assume of the rest: a sender that keeps its times, a sketch that polls before the next
  transmission, and silences that are longer than the timeout in the 16 bits that the
  handler keeps of a time, with room there for two more pulses. Broken transmissions and
  edges that are missed, at most one at a time but any number of them, are covered.
  nec_alias.cfg and the constants `SlowPoll` and `Stretches` show what becomes of it otherwise.
  The receiver does not know where in a transmission it is; the invariant says that for some edge `q`,
  the last one handled, and `j`, the last that came, the time since then is the sum of the
  pulses between (`Since`), or stale (`Stale`), which tells the edges apart as far as the
  handler tells times apart; and that the state it is in is one that `q` can have left
  (`Entered`): it has as many bits as spaces have ended, and then they are the code's, or fewer.
  So NEC_BITS of them are a code that was sent. `Follows` adds for a frame without faults
  that the state is exactly the one of edge `q`.
  `MarkOutcomes` and `SpaceOutcomes` list what the automaton does with a time.

Every invariant and every action property of the passing runs is a theorem, under the
assumptions given with it. Only
model-checked is what is about liveness (`OpenCallsReturn`, `AllSent`, `DelaysEnd`,
`EveryServoPulsed`, `SleeperServed`, `TransfersReturn`, `MessagesArrive`): the prover has no
rules for `ENABLED`. `RepeatsTheLast` of NecRx is false (nec_orphan.cfg). Lost bytes with several
writers are outside `PortIsChannel` by its assumption.

## What is not modelled

Serial: the blocking mode of `write()`, whose calls are the driver's own, and the
continuous read mode with HardwareSerial's own ring, which no port of the boards
asks for. Delay: `micros()` and `delayMicroseconds()`. Servo: the conversion of degrees,
which changes no state, and widths beyond the default limits (they do not
fit a frame). PWM: duty values, resolutions, `analogRead()`; which pins are fixed or
mappable is a parameter; two tasks that use one pin at a time (`Owner` says which task uses a
pin); and the port mapping that `stopAnalogWriteFxn()` undoes for an index that a failed
`PWM_open()` has marked as in use: it would read its offset from `pxmap[0xff]`, past the
end of that table; the model has what becomes of the tables only. Wire: `end()`, `setModule()`, the values of the bytes, the
callback mode of the driver; as slave `close()`, `control()` and bus errors. NEC:
`newCommandReceived()` with the getters a sketch calls after it, the carrier, the power constraint of a sender, the folding of an 8-bit address.
SPI, `tone()` beyond its claim of a timer, `pulseIn()`, the RSLK and network libraries:
see `PROJECT.json`. Setting and clearing an eUSCI interrupt flag is modelled
as far as the handlers distinguish it. The kernel's scheduler is modelled by its
rule of priorities, not by its queues. Undefined results of races on single
words do not occur: the processor reads and writes them at once.

Most of the repository is not this code but the vendored kernel, drivers, register
headers and generated configurations; the modules model what the core calls of them.

## Plan

The core of the system came first: SerialTx and DelayClock, then Servo and PwmPins,
SerialRx, WireBus, WireSlave and NecRx. What is left:

1. **Tone** (its interrupt and duration), the RSLK **Encoder**, **SPI**'s interrupt
   masks; `micros()` in DelayClock.
2. SerialTx and SerialRx composed over the driver's busy flag, in place of the
   constant `Duplex`.
3. The proofs of NecRx for two edges in a row that come before the handler: what is decoded
   may still be right, but `Since` no longer tells the edges apart.
