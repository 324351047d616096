# A formal model of the LoRaWAN wake-up manager (Data Vault)

The Data Vault is a small microcontroller that stays powered while a bigger one
(the *main MCU*, which talks LoRaWAN) is switched off. It keeps the main MCU's
context in SRAM, switches its power rail on after an interval the main MCU
chose, serves the context to it as an I2C slave, waits until the main MCU writes
`COMMAND = DONE`, cuts the rail and sleeps.

This directory holds TLA+ modules that model the firmware, TLC configurations
that check them on small instances, and TLAPS proofs for all instances. Paths
below are relative to the repository's root (`src/` in `PROJECT.json`), `regs.c`
stands for `core/src/vault_i2c_registers.c`.

## 1. Inventory

| Component | State | Operations | Modelled in |
|---|---|---|---|
| Core state machine, `core/src/vault_core.c` | none of its own but the program counter | `vault_core_init`, `vault_core_step` | `VaultCore`, `WakeCycle`, `VaultSystem` |
| Register file, `core/src/vault_i2c_registers.c` | context, length, interval, their staging bytes, valid bit, done latch, transaction pointer | `on_write_byte`, `on_read_request`, `on_stop`, `next_write_byte_is_last`, `reset_for_cycle`, accessors | `VaultRegisters`, `VaultBus`, `TransactionStore`, `VaultSystem` |
| Platform contract, `core/include/vault/platform.h` | – | the calls the core makes | the actions of `VaultCore`; their effect on SDA and SCL in `VaultPins` |
| LPC810 I2C slave, `platform_lpc810_i2c.c` | peripheral flags | `I2C0_IRQHandler`, init, deinit | `SlaveBus`, `LpcSlave`, `SlaveDrivers` |
| EFM32G210 I2C slave, `platform_efm32g210_i2c.c` | peripheral flags, `IEN.TXBL` | `I2C0_IRQHandler`, init, deinit | `SlaveBus`, `EfmSlave`, `SlaveDrivers` |
| STM32U031, STM32C011 I2C slaves, `platform_stm32*.c` | HAL handle, transmit register, the byte fetched | HAL callbacks, init, deinit | `SlaveBus`, `HalSlave`, `SlaveDrivers` |
| STM32C011 wake timer and sleep | alarm latch, Alarm A | arm, sleep, two handlers | `AlarmSleep` |
| LPC810, STM32U031, EFM32G210 wake timers and sleep | SLEEPDEEP, SysTick, interrupt enables, a counter | init, arm, sleep, wait, handler | `CountdownSleep` |
| I2C pins of the four boards | connection, pull-up, clock of SDA and SCL | init, deinit, isolate | `VaultPins` |
| Board set-up: `platform_init`, clock gates and sources, `main` | clock gates, clock source, core voltage, UART pin | the calls in their order, the STM32U031's way into and out of Stop 2 | `VaultBoard` |
| Log, `core/src/vault_log.c`, `platform_*_uart.c` | the line, the UART's data and shift registers | `vault_log`, `vault_log_u32`, UART init, putc | `VaultBoard` |
| Vector tables and memory initialisation, host mock, tests, vendor headers | – | – | not modelled, section 8 |

**Interaction.** Three activities share the vault: the core's loop in thread
mode, the I2C interrupt handler, and the wake timer's handler. The loop calls
the platform; the handler calls the register file; the register file's latch
(`s_done_requested`) and interval are read by the loop. The main MCU acts
through the wire only, and the slave's clock stretching keeps it in step with
the handler. The register file has hooks for a byte written, a byte wanted and a
STOP, but none for a START. Underneath all three lies the board: the clocks that
`platform_init` sets up, without which a register write has no effect, and the
log, which every step of the loop writes to.

**What is hard**, and which property answers for it (the complete list, with
lines, is under `hazards` in `PROJECT.json`):

* DONE arriving between the test of the latch and `WFI` – `DoneIsHeard`.
* The order of rail, slave and pins, both ways: a main MCU with power must find
  the slave – `PoweredMainFindsSlave`.
* A latch or flag of one cycle or transaction acting in the next –
  `DoneLatchIsThisCycles`, `PowerCutOnlyAfterDone`, `FlagsBelongToTransaction`.
* Atomicity of multi-byte registers and of the context under a power cut or a
  reset of the master – `Transactional`, `NoTornField`, `ValidMeansWholeTransfer`,
  `InStep`, `SpoilsAtMostOneEach`.
* One snapshot of interrupt flags that holds events of two transfers, a level
  interrupt that storms, a hand-made acknowledge – `CallsFollowWire`,
  `StopIsHeard`, `TXBLBracketsTransmitter`, `ClockIsReleased`.
* A hint that is given a byte early, or for a byte that is none of the last –
  `HintPrecedesCommit`, `HintOnlyForLastByte`.
* HAL callbacks that must each arm the next byte, and reads that are fetched
  ahead of the wire – `MasterGoesOn`, `ReadsInOrder`.
* Pins that still feed the main MCU when its power is off – `PinsBearOut`.
* A timer that fires before the vault is asleep, a stale alarm latch, a daily
  alarm missed by a second, a timer re-armed while it runs – `AsleepUntilDue`,
  `FiresWhenAsked`, `LatchIsThisAlarms`.
* Seconds to ticks at the width of a register – `SleepsAsLongAsAsked`.
* SLEEPDEEP left over from the last sleep, an interrupt that does not get
  through in deep sleep – `WaitsLightly`, `SleepEnds`.
* The parts together: pending interrupts that the loop masks or drops, a power cut
  at any byte, a cycle that follows a cycle – `CoreImplemented`,
  `StoreImplemented`.
* A character still in the shift register when the clock changes or stops, a
  divisor computed for another clock, a peripheral written while its clock is
  gated, a wait for a UART that does not send – `LinesArriveWhole`,
  `BoardAsBelieved`, `AlwaysComesRound`.

Three hazards have no property. Nothing in the code guards against two of them: a
main MCU that never says DONE keeps the vault awake for good, and an interval of 0
is armed as it is. The third is for the EFM32G210's peripheral to settle: a byte
left in its transmit buffer may be the first of the next read.

## 2. Modules

```
VaultRegisters ──EXTENDS── VaultBus ──EXTENDS── MCVaultBus
                              ├──INSTANCE (refines)── TransactionStore
                              └──EXTENDS── VaultSystem ──EXTENDS── MCVaultSystem
                                              └──INSTANCE (refines)── VaultCore
VaultCore ──INSTANCE (refines)── WakeCycle
      └──EXTENDS── VaultPins
SlaveBus ──EXTENDS── EfmSlave, LpcSlave, HalSlave
      └──EXTENDS── SlaveDrivers ──INSTANCE── EfmSlave, LpcSlave, HalSlave
AlarmSleep        CountdownSleep ──EXTENDS── MCCountdownSleep
VaultBoard ──EXTENDS── MCVaultBoard

Proofs: VaultBusProofs ──EXTENDED BY── VaultSystemProofs ──INSTANCE── VaultCoreProofs
        VaultCoreProofs ──EXTENDED BY── VaultPinsProofs
        SlaveDriversProofs  VaultBoardProofs  AlarmSleepProofs  CountdownSleepProofs
```

Each module's comments name the code its definitions come from;
`PROJECT.json` maps every definition to its lines. A definition introduced by
`Mutant:` is a plausible bug and no part of any specification. It takes the
place of the definition it stands before when the properties are tested for
their ability to fail. Variables named `h_...` are history, read by properties
only.

**VaultRegisters.** All twelve static variables of `regs.c` under their own
names, one operator per branch of `on_write_byte`'s switch. Multi-byte fields
are functions from byte offset to byte, so a staged or torn value is visible.
The offset wraps at `OffsetModulus` (2^16 in the code). `Next` lets the four
entry points be called in any order, which is all that `regs.c` may assume
of its callers since it has no START hook. The first part of `VaultBusProofs` is about this
`Spec`; TLC checks the same properties under `VaultBus`, whose master sends whole
transactions and may break off in the middle of one.

**VaultBus** adds the master: whole transactions from a repertoire (`Writes`,
`Reads`), STM32's habit of fetching up to two bytes more than are read (the
bound is `ReadsInOrder` of `HalSlave`), the power cut
that may come at any byte once DONE is latched (`CycleEnds`), and
`MasterRestart`, a reset in mid-transaction that leaves no STOP behind.

**TransactionStore** is what the integration guide promises: writes and reads
atomic at their STOP. The refinement maps the store to what is stored when the
bus is idle, and to what was stored when the transaction started while one runs.
`CutOff` is the one place where the promise is weaker than "all or nothing": a
write that DONE should have preceded, cut by the power, leaves the bytes that got
through. The valid bit is not raised by it.

**VaultCore.** One action per call `vault_core_step` makes, so that an interrupt
can fall between any two. The register file is reduced to the latch and the
interval. `WaitForInterrupt` has the hardware's semantics: it returns when an
interrupt is *pending*, masked or not, and has no memory of one that was served
before. SysTick is `other_irq`. `SupplyLost` restarts the vault at any point
with its SRAM gone. `SkipWait` is the build option
`VAULT_DIAGNOSTIC_SKIP_I2C_WAIT`.

**VaultPins** puts `VaultCore` on a board: each of the calls that touch SDA and
SCL also does to them what the board's backend does. Isolation is one call on
three boards and two on the LPC810. `VaultCore`'s `isolated` is what the core
believes; `PinsBearOut` compares it with the pins.

**VaultSystem** puts `VaultCore`'s loop, the whole register file and the master of
`VaultBus` together. What happens on the wire is first an event that waits for
the handler; the loop masks it, lets it in, or drops it by shutting the slave
down. The loop's steps that leave the register file alone are `VaultCore`'s own,
through `INSTANCE`; the others are given in full. Two refinements say that the two
models it is made of were cut in the right place: `CoreImplemented` maps the
register file back to the latch and the interval that `VaultCore` knows, fairness
included, and `StoreImplemented` is `TransactionStore` from one power cycle to the
next, with a loss of the vault's own supply as the only other thing that may
change what is stored.

**WakeCycle** is the cycle as the design document tells it: power up, finish,
cut power, sleep for the interval in force, wake up.

**SlaveBus, EfmSlave, LpcSlave.** The wire, with clock stretching, and the two
hand-written interrupt handlers, one action per phase of the handler, each
working on the snapshot of flags it took on entry. The register file is reduced
to `owner`: whose bytes has it seen since its last `on_stop`? In `LpcSlave` the
wire moves freely while the handler runs. In `EfmSlave` the handler may be
entered arbitrarily late, but once entered only a STOP falls between its steps: a
byte on the wire takes 22 microseconds at the guide's 400 kHz, which are 720 cycles
of this board's 32 MHz, and the handler takes fewer. What becomes of a byte that a
read has left in the transmit buffer is open: the firmware never clears it, and
whether the peripheral does when it is addressed again is not said in the
repository. No property depends on it; a first byte that is the last read's
would not be noticed here (section 3).

**HalSlave.** The callbacks of the two STM32 backends. ST's HAL is external and
modelled by what the callbacks rely on: a state, at most one byte armed, one
condition served per pass with a STOP before anything else, a byte taken from the
transmit register that is refilled ahead of the wire, a callback once more for
the NACK, and the error callback when a byte was still armed. One pass of the
HAL's handler is one step. It may come late, but a byte or a NACK has been served
when the next address has gone out: that takes 22 microseconds at 400 kHz, 360
cycles of the STM32U031's 16 MHz and more on the STM32C011, and the repository's
`README.md:132` has the slower of the two keeping up on hardware. Bytes of a read
are numbered, so one that is lost, repeated or swapped is seen (`ReadsInOrder`).

**SlaveDrivers** runs the three side by side, as the three possible implementers
of one contract: one build has one of them (`driver`), and the properties the
register file relies on are asked of whichever it is.

**AlarmSleep.** The STM32C011 has no wake-up counter, only a daily alarm.
RTC seconds pass, and SysTick is raised, between any two steps of arming and
falling asleep. The alarm compares when the seconds advance.

**CountdownSleep.** The other three timers in ticks of their own clock. The
variable `backend` is a record with the backend's rate, register width and
ceiling, chosen once. Setting up, arming and falling asleep are one action per
backend: what each enables (the LPC810's start logic), switches off (the
STM32U031's Alarm A from an earlier firmware, its SysTick) and loads. All three
set SLEEPDEEP before their deep sleep and clear it only in
`platform_wait_for_interrupt`.

**VaultBoard** is what the core's calls do to clocks and to the log. `todo` is the
stack of calls still to be made, so that the order of `platform_init` and of the
STM32U031's sleep is data a mutant can change. A write to a peripheral is guarded
by its gate and is lost, not refused, without it; the divisor remembers the clock
it was computed from; the UART has a data and a shift register and goes on
shifting after the call that filled it. Numbers are converted as `vault_log_u32`
does it, digit by digit from the last one, and compared (`owed`) with the numeral
by place values. A label counts as one character. `DeepSleep` stops the shift
register where it is, and `cut` marks the character in it.

## 3. Runs and bounds

Passing runs:

| Run | Question | Bounds |
|---|---|---|
| `bus_conforming` | With a master that ends every transaction, is the register file an atomic store? | 12 writes (each register, empty, short, exact, overlong, a length above the buffer), 6 reads past the end of each register |
| `bus_restart` | After a reset of the master, how long is the register file out of step? Does any flag outlive its transaction, is anything raised except at its own STOP, and does the last-byte hint announce each last byte and no other? | 5 writes, 2 reads, one reset; the offset wraps at 5, one past the longest field, so that an overlong transaction comes back to offset 0 |
| `core` | Order of power, slave, pins on each board; no power cut without DONE; no lost wake-up; the wake cycle implemented | four boards; two intervals; one supply loss (a second restarts from the same state) |
| `c011_sleep` | Does the daily alarm fire when asked, and is the vault asleep only before it? | a day of 6 seconds, every start time of it; intervals of 2 s up to the clamp and beyond; one RTC second between reading the time and setting the alarm |
| `countdown_sleep` | The same for the three counters; is the I2C wait a light one after every sleep, and does every sleep end? | registers of 64 or 16 ticks, intervals from 1 s up to the ceiling of 15 s, beyond it where the backend clamps; the timer keeps running through the next cycle |
| `slaves` | The three drivers: wire order, a STOP delivered before the next transfer and without waiting for one, no storm, no hang, reads in order | two transfers told apart (0 and 1): a third adds nothing, as only the last and the present one can meet in a snapshot; bytes of a read numbered modulo 4, where two are ahead at most |
| `system` | Do the loop and the register file see of each other what their models say, and the main MCU an atomic store from cycle to cycle? | 5 writes (context, COMMAND with DONE and without, the interval whole and short), one read; one supply loss (a second restarts from the same state); about 204,000 states |
| `board` | Start-up, log and sleep on each board: every write clocked, every line whole, nothing held up for good | four boards; numbers of one to three digits, with a zero inside, at the end and alone: the loop's step does not depend on how many digits are behind it |

Runs that refute a promise made in a document or comment (`findings` in
`PROJECT.json` has the quotes):

| Run | What it shows |
|---|---|
| `restart_done` | A main MCU that resets after addressing COMMAND and then reads register 1 is taken to have said DONE: the pointer byte of the new transaction is the payload of the old. |
| `c011_one_second` | STM32C011, interval of 1 s: the RTC may pass the target while it is being set, and the sleep lasts a day. |
| `c011_early_wake` | STM32C011: SysTick, pending under the mask, ends Stop mode before the alarm. |
| `countdown_wrap` | STM32U031 from 65536 s and LPC810 from 429497 s: the interval is cut off by a register and the vault wakes early. |

More that the models show without a run of its own. With `MaxRestarts = 1`,
`bus_conforming`'s `ValidMeansWholeTransfer` and `NoTornField` fail for the same
reason as `restart_done`. With `BareReads = TRUE`, `slaves`'
`TXBLBracketsTransmitter` and `CallsFollowWire` fail on the EFM32G210: when a read
opens with its own START right behind a STOP and one snapshot has both, the handler,
which runs the STOP branch last, fetches the read's first byte before the `on_stop`
and then switches TXBL off for the others; the guide's transfers use a repeated START
and are safe.
`platform.h:63-67` and the guide's section 2.2 ask that the pins be isolated
*before* the rail is cut; the core cuts the rail first, for the reason given at
`vault_core.c:71-81`, and `VaultCore` follows the core. Section 5 of the design
has reads clamped at `CONTEXT_LENGTH`; the code returns the whole buffer, as the
guide describes it, and so does `TransactionStore`. A context that was valid stays
valid when a write begun after DONE, or one whose master resets, has overwritten a
part of it: the valid bit says that some transfer ran to its STOP, not that the last
one did. The order of bytes within a read is followed for the STM32s only, whose
callbacks run ahead of the wire. On the EFM32G210
`WAKE_INTERVAL_SEC` reads back a value above the clamp that the timer does not
use. An interval of 0 is accepted by the register file; the sleep runs use
intervals from 1 s on.

**Deadlock** is checked in every run.

## 4. Fairness

* `VaultCore`: weak fairness of the loop (the CPU runs), *strong* fairness of the
  I2C interrupt – the loop masks it again and again, and an interrupt that is
  pending when the mask is lifted is taken at once – and weak fairness of the
  timer. None for the main MCU: it may hang, and by the code's design the vault
  then waits for ever. `WakeCycle` leaves `Finish` without fairness accordingly.
* `VaultPins`: the same, for the same actions.
* `VaultSystem`: as `VaultCore`, for the steps that implement its own; TLC checks
  `VaultCore`'s fairness as part of `CoreImplemented`.
* `SlaveDrivers`: weak fairness of the handler. In particular
  `StopIsHeard` may not rely on the master starting another transfer: after the
  one that carries DONE there is none.
* `CountdownSleep`: time passes, and a timer interrupt that can get through is
  taken. Nothing is assumed of the core or the master. `AlarmSleep` states safety
  only.
* `VaultBoard`: weak fairness of the CPU, of the UART's shifting while it is clocked
  and of the timer. DONE is not assumed to come. The STM32's HAL gives up a
  line after a time-out of 100 ms; a line of at most 64 characters takes 11 ms at
  57600 baud, so that this never happens and is left out.

## 5. What is proved

| Theorem | Says, for every value of the constants |
|---|---|
| `VaultBusProofs!RegistersSafe` | types, and `FlagsBelongToTransaction`, whatever order the entry points are called in |
| `VaultBusProofs!LatchesRaisedOnlyByOwnStop` | the action property `RaisedOnlyByOwnStop` |
| `VaultBusProofs!HintAnnouncesCommit` | the action property `HintPrecedesCommit` |
| `VaultBusProofs!HintNamesLastByte` | `HintOnlyForLastByte`, for any number of resets; assumes writes shorter than the offset can count |
| `VaultBusProofs!BusSafe` | types, `FlagsBelongToTransaction`, `InStep`, `SpoilsAtMostOneEach`, for any number of resets of the master |
| `VaultBusProofs!BusKeepsPromises` | `DoneOnlyWhenCommanded`, `ValidMeansWholeTransfer`, `NoTornField`; assumes `Conforming` |
| `VaultBusProofs!BusImplementsStore` | the refinement `Transactional`; assumes `Conforming` |
| `VaultCoreProofs!CoreSafe` | types, `PoweredMainFindsSlave`, `SleepsSafely`, `DoneLatchIsThisCycles`, for both builds |
| `VaultCoreProofs!PowerCutNeedsDone` | the action property `PowerCutOnlyAfterDone`, for the build that waits |
| `VaultCoreProofs!CoreFollowsCycle` | the safety part of `CycleImplemented` (`Cycle!Spec`), for the build that waits |
| `VaultPinsProofs!PinsSafe` | `PinsBearOut`, on all four boards, for both builds |
| `VaultSystemProofs!SystemImplementsStore` | the refinement `StoreImplemented`; assumes `Conforming` |
| `VaultSystemProofs!SystemImplementsLoop` | the safety part of `CoreImplemented` (`Loop!Spec`); assumes `Conforming` |
| `VaultSystemProofs!SystemSafe` | the invariants of `VaultCore` and of `BusKeepsPromises`, of the two put together; assumes `Conforming` |
| `VaultSystemProofs!SystemCutsPowerOnlyAfterDone` | the main MCU's rail falls only after the STOP of a whole DONE of this cycle, or with the vault's own supply; assumes `Conforming` |
| `SlaveDriversProofs!DriversReadInOrder` | `ReadsInOrder` |
| `SlaveDriversProofs!DriversFollowWire` | the action property `CallsFollowWire`; assumes `GuidedReads` |
| `SlaveDriversProofs!OthersFollowWireAlways` | the same of the LPC810 and the STM32s, without that assumption |
| `SlaveDriversProofs!DriversBracketTransmitter` | `TXBLBracketsTransmitter`; assumes `GuidedReads` |
| `VaultBoardProofs!BoardSafe` | `BoardAsBelieved`, on all four boards |
| `VaultBoardProofs!LogArrives` | the action property `LinesArriveWhole`; assumes `DigitsSound` |
| `VaultBoardProofs!BoardTypes` | types; assumes `DigitsSound` |
| `AlarmSleepProofs!AlarmLatchSafe` | types, and `LatchIsThisAlarms` |
| `AlarmSleepProofs!AlarmSleepsWithinDue` | `AsleepUntilDue`; assumes `Unhurried` |
| `AlarmSleepProofs!AlarmFiresOnTime` | the action property `FiresWhenAsked`; assumes `Unhurried` |
| `CountdownSleepProofs!CountdownSafe` | types, and `WaitsLightly` |
| `CountdownSleepProofs!CountdownSleepsWithinDue` | `AsleepUntilDue`; assumes `Fits` |
| `CountdownSleepProofs!CountdownSleepsLongEnough` | the action property `SleepsAsLongAsAsked`; assumes `Fits` |

**Assumptions.** Those the modules declare: a non-empty context smaller than the
offset's range, wire bytes within 0..255, the default interval among the
intervals, a day of at least a few seconds, registers that hold their ceiling.
Some theorems state more. For the first four, a run that breaks the assumption
shows that it is needed:

* `Conforming` (the bus's promises and everything about `VaultSystem`): the master ends every transaction (`MaxRestarts = 0`), and none is
  longer than the offset can count. `restart_done` is what happens otherwise.
* `Unhurried`: fewer seconds pass between reading the time and setting the alarm
  than were asked for. `c011_one_second` is the interval for which the code
  does not grant it.
* `Fits`: an interval that the timer can serve or clamps, and a log line shorter
  than the sleep. `countdown_wrap` is the interval too long for a backend
  without a clamp. (`Horizon`, which stops the model's history counter, must lie
  beyond the longest sleep.)
* `GuidedReads`: no read opens a transfer, it follows its pointer byte. Only the
  EFM32G210 needs it; section 3 says what happens to it otherwise.
* `DigitsSound`: the digits `vault_log_u32` finds for a logged number are those of
  its numeral. This is an induction over the number, which is out of the prover's
  reach. TLC evaluates both sides for the numbers of `board`, in `LinesArriveWhole`:
  a digit that differed would not be the next one owed.

**Register file.** `TypeOK /\ FlagsBelongToTransaction` (`RegInv`) is inductive as it
stands; the proof has a step per entry point and per register. Both action
properties follow from it: a rising latch needs a pending flag, and the invariant
ties the flag to its register. That the hint is given to no other byte is a statement
about the master's count, and follows from `InStep`. `RaisedOnlyByOwnStop` could not be proved from types
alone.

**Bus.** Every step of the bus is one call of the register file or none, so that
`RegInv` carries over. `BusInv` adds that the register file counts with the master
while the two are in step, and `Spoilt` counts the transaction that is about to be
spoilt: an open pointer on an idle bus is owed to a reset that has spoilt nothing
yet. For a conforming master `StoreInv` follows a transaction from its START:
`WriteFollowed` says that after k bytes the registers hold what they held before
with the first k payload bytes applied (`Applied`, field by field), and what is
staged; `ReadFollowed` that the bytes read so far are those of the store. At the
STOP this is the abstract write or read (`StopWriteCommits`, `StopReadAnswers`), at a
power cut the abstract cut of the first k bytes (`CycleEndsCutsOff`), and every
other step leaves the abstract store alone. `EffectByField` and `AppliedPrefix`
connect the loop over bytes with the abstract effect, which speaks of whole
payloads.

**Core.** None of the invariants is inductive: each speaks of one place of the
cycle and has to know how the core got there. `CoreInv` ties all hardware state
to the program counter (`HardwareFollowsPc`), and the latch and the pending
event to the main MCU of this cycle (`DoneFollowsMain`). The second is what
excludes that an event of the last cycle is served in the next: the slave is
shut down, and its pending interrupt with it, before the latch is cleared.

For the wake cycle (`CoreFollowsCycle`) it is enough to add two things: after the
wait has been left the main MCU *is* the one that finished, and a main MCU that has
finished has left its event or the latch behind. Every step of the loop is then
one step of the cycle or none.

**System.** Two invariants that are proved apart hold here only together
(`SystemInv`). The loop latches a whole DONE because the register file is in step
with the main MCU (`StoreInv`); and the reset between cycles takes nothing from the
store because the loop comes to it only after a DONE, when a transaction under way
is one that the power cut broke off, or with the bus idle. `Session` says the latter
and ties the latch to the DONE that was said; it follows from where `CoreInv` says
the loop is. `VaultCore`'s theorems are used through an `INSTANCE` of their module
with the register file's latch and interval in place of `VaultCore`'s, so that no
step of the loop is proved twice.

**Pins.** A step on a board is a step of the core, so that `CoreInv` holds there, too.
`PinsInv` adds what isolation on the LPC810 rests on: when `platform_bus_isolate`
is called, deinit has taken the pins from the switch matrix. What each board's
call does to any pins is a lemma per call.

**Drivers.** One invariant per driver, and all three say the same of the register
file: bytes that are not of the present transfer are still owed an `on_stop`; the
flag that will bring it is up; and until it has been served the clock is held, so
that no byte of the next transfer can overtake it. What differs is how a snapshot
taken on entry stays true while the wire moves on: on the EFM32G210 only a STOP can
be added to it, on the LPC810 nothing can as long as something is pending. For the
STM32s `HalReads` counts the bytes fetched and not yet taken: one in the shift
register, one in the transmit register.

**Board.** What holds of the clocks depends on how far the calls have got, so
`ChipInv` goes through the stacks there can be – the ends of four scripts, starting,
booting, in the loop, asleep – and says of each which gates are open, which clock
runs and what the divisor was computed for. `LogInv` is the same in every place:
what is owed is what the UART holds and then the rest of the line in hand. From the
stack it takes only which call follows on which (`StackFacts`), and from the LPC810,
which does not wait for its last character before it sleeps, that this one is a
line end (`LastLineInTransit`).

**Alarm.** `AlarmInv` says which arming the latch, the flag and the alarm belong to;
it needs no assumption. `AlarmTimely` says where the clock stands: ahead of the time
that was read by the seconds since then, and the target ahead of it by those that
are left, both counted around midnight.

**Countdown.** `CountdownInv` ties the deep-sleep bit and the interrupts to the place
in the cycle. `CountsDown` is the balance from arming to the end of the sleep: ticks
that have passed and ticks to come are what was loaded.

## 6. What is only model-checked

Every invariant and every action property of the passing runs is stated by a theorem,
and so is every refinement that is about safety. Left to TLC are

* liveness: `DoneIsHeard`, `StopIsHeard`, `ClockIsReleased`, `MasterGoesOn`,
  `SleepEnds`, `AlwaysComesRound`, and the fairness in `CycleImplemented` and
  `CoreImplemented`. Fairness and `ENABLED` are out of the prover's reach.
* `DigitsSound` (section 5), for the numbers of `board` only.

What the proofs take over from the models they are about: ST's HAL and the masters are
external and modelled by what the code relies on, and the handler of the EFM32G210 is
shorter than a byte on the wire (section 2).

## 7. Plan

Done in this order: register file, bus and store, core and cycle, sleep modules,
interrupt handlers, pins, first proofs; the drivers side by side, the system put
together, board and log; the proofs of the sleep modules, the pins, the bus and
its refinement; the proofs of the drivers, the system and the board, and that the
loop follows the wake cycle. What is left:

1. The host mock as a specification of its own whose steps are `VaultCore`'s.

## 8. What is not modelled, and why

* Errata writes to undocumented registers, debug and diagnostic settings,
  `CHIP_Init`, interrupt priorities and filters: fixed register writes whose state
  nothing reads later. What later steps do depend on – gates, clock sources, core
  voltage, the UART pin – is in `VaultBoard`, the bus's pins in `VaultPins`, the rail
  pin's low level at start in `VaultCore`'s `Init`.
* Vector tables, memory initialisation and linker scripts: the C environment the
  models presuppose.
* The host mock: a synchronous double that replays queued writes inside
  `platform_wait_for_interrupt`. The tests that use it run behaviours of `VaultCore`.
* The bound of 63 characters on the label `vault_log_u32` copies: the two labels in
  use have 26 and 35, and a label is one character in `VaultBoard`. The *time* the log
  takes between arming the timer and falling asleep is in the sleep modules
  (`logging`, `LogTicks`).
* Time inside a session, bus timing, electrical levels: power is one bit, a pin
  is connected, pulled and clocked or not.
* Interrupt priorities: all of the vault's handlers run at one priority, so none
  preempts another; a handler and the loop interleave step by step.
* Writes that follow a read within one transaction: no client code of the guide
  has them.
