------------------------------ MODULE VaultPins ------------------------------
(***************************************************************************)
(* VaultCore on a board: what the platform calls do to SDA and SCL on each *)
(* of the four backends.  The core only orders the calls; whether the bus  *)
(* is there while the slave is on, and nothing feeds the unpowered main    *)
(* MCU while the vault sleeps, is what the calls leave behind together: on *)
(* the LPC810 it takes deinit and isolate, on the others isolate alone.    *)
(***************************************************************************)
EXTENDS VaultCore

VARIABLES
  board,  \* the backend this build is for: never changes
  pins    \* SDA and SCL, which are always treated alike

pinVars == <<vars, board, pins>>

Boards == {"lpc810", "stm32u031", "stm32c011", "efm32g210"}

Pins == [connected : BOOLEAN,   \* they belong to the I2C peripheral
         pulled    : BOOLEAN,   \* their internal pull-ups are on
         clocked   : BOOLEAN,   \* the peripheral has its clock
         bound     : BOOLEAN]   \* the package's pads carry them

-----------------------------------------------------------------------------
(* After a reset, once platform_init has run: it does not touch SDA and SCL. *)
Untouched == [connected |-> FALSE, pulled |-> FALSE, clocked |-> FALSE, bound |-> TRUE]

\* The pull is whatever the reset value of IOCON gives.
lpc810_gpio_init    == {[Untouched EXCEPT !.pulled = p] : p \in BOOLEAN}
stm32u031_gpio_init == {Untouched}
efm32g210_gpio_init == {Untouched}

\* Mutant: the pads are not remapped.
stm32c011_unmapped  == {[Untouched EXCEPT !.bound = FALSE]}

\* SYSCFG binds and remaps the pads of the SO8 package; without it they carry
\* other pins.
stm32c011_gpio_init == {Untouched}

platform_init(b) ==
  CASE b = "lpc810" -> lpc810_gpio_init
    [] b = "stm32u031" -> stm32u031_gpio_init
    [] b = "stm32c011" -> stm32c011_gpio_init
    [] b = "efm32g210" -> efm32g210_gpio_init

PinsInit ==
  /\ Init
  /\ board \in Boards
  /\ pins \in platform_init(board)

-----------------------------------------------------------------------------
(* platform_i2c_slave_init *)
\* The switch matrix; pull and direction stay as they are.
Lpc810SlaveInit(p) == [p EXCEPT !.connected = TRUE, !.clocked = TRUE]

\* Open drain without pull.
Stm32u031SlaveInit(p) ==
  [p EXCEPT !.connected = TRUE, !.pulled = FALSE, !.clocked = TRUE]
Stm32c011SlaveInit(p) ==
  [p EXCEPT !.connected = p.bound, !.pulled = FALSE, !.clocked = TRUE]

\* Wired-and with pull-up.
Efm32g210SlaveInit(p) ==
  [p EXCEPT !.connected = TRUE, !.pulled = TRUE, !.clocked = TRUE]

platform_i2c_slave_init(p) ==
  CASE board = "lpc810" -> Lpc810SlaveInit(p)
    [] board = "stm32u031" -> Stm32u031SlaveInit(p)
    [] board = "stm32c011" -> Stm32c011SlaveInit(p)
    [] board = "efm32g210" -> Efm32g210SlaveInit(p)

(* platform_i2c_slave_deinit *)
\* Mutant: the switch matrix keeps the assignment.
Lpc810DeinitAssigned(p) == [p EXCEPT !.clocked = FALSE]

Lpc810SlaveDeinit(p) == [p EXCEPT !.connected = FALSE, !.clocked = FALSE]

\* The HAL leaves the pins in their alternate function.
Stm32SlaveDeinit(p) == [p EXCEPT !.clocked = FALSE]

\* ROUTE is cleared; the pull-ups stay.
Efm32g210SlaveDeinit(p) == [p EXCEPT !.connected = FALSE, !.clocked = FALSE]

platform_i2c_slave_deinit(p) ==
  CASE board = "lpc810" -> Lpc810SlaveDeinit(p)
    [] board = "efm32g210" -> Efm32g210SlaveDeinit(p)
    [] OTHER -> Stm32SlaveDeinit(p)

(* platform_bus_isolate *)
\* A GPIO input without pull, if the switch matrix has let go of it.
Lpc810BusIsolate(p) == [p EXCEPT !.pulled = FALSE]

\* Analog, no pull.
Stm32u031BusIsolate(p) == [p EXCEPT !.connected = FALSE, !.pulled = FALSE]
Stm32c011BusIsolate(p) == [p EXCEPT !.connected = FALSE, !.pulled = FALSE]

\* Disabled: no pull, and the pad no longer listens to the peripheral.
Efm32g210BusIsolate(p) == [p EXCEPT !.connected = FALSE, !.pulled = FALSE]

platform_bus_isolate(p) ==
  CASE board = "lpc810" -> Lpc810BusIsolate(p)
    [] board = "stm32u031" -> Stm32u031BusIsolate(p)
    [] board = "stm32c011" -> Stm32c011BusIsolate(p)
    [] board = "efm32g210" -> Efm32g210BusIsolate(p)

-----------------------------------------------------------------------------
(* The core's steps, each with what it does to the pins. *)
SlaveInitPins   == SlaveInit /\ pins' = platform_i2c_slave_init(pins)
SlaveDeinitPins == SlaveDeinit /\ pins' = platform_i2c_slave_deinit(pins)
BusIsolatePins  == BusIsolate /\ pins' = platform_bus_isolate(pins)

OtherSteps ==
  /\ \/ ResetForCycle \/ RailOn
     \/ IrqDisable \/ CheckDone \/ WaitForInterrupt \/ IrqEnable
     \/ RailOff \/ TimerArm \/ WakeFromSleep
  /\ UNCHANGED pins

Step == (SlaveInitPins \/ SlaveDeinitPins \/ BusIsolatePins \/ OtherSteps) /\ UNCHANGED board

Serve == I2CInterrupt /\ UNCHANGED <<board, pins>>
Fire  == TimerFires /\ UNCHANGED <<board, pins>>

Around ==
  /\ OtherInterrupt \/ OtherRaised \/ MainTransfers \/ MainFinishes
  /\ UNCHANGED <<board, pins>>

SupplyLostPins == SupplyLost /\ pins' \in platform_init(board) /\ UNCHANGED board

PinsNext == Step \/ Serve \/ Around \/ Fire \/ SupplyLostPins

PinsSpec == PinsInit /\ [][PinsNext]_pinVars

\* As VaultCore's.
PinsFairSpec ==
  /\ PinsSpec
  /\ WF_pinVars(Step)
  /\ SF_pinVars(Serve)
  /\ WF_pinVars(Fire)

-----------------------------------------------------------------------------
\* What the core takes for granted about the pins is so on every board: while
\* the slave is on they reach a clocked peripheral, and when they count as
\* isolated nothing drives them and nothing pulls them up, so that the main MCU
\* without power is not fed through them (platform.h:63-67), in the first cycle
\* after a reset as in any later one.
PinsBearOut ==
  /\ pins \in Pins
  /\ slave_on => pins.connected /\ pins.clocked
  /\ isolated => ~pins.connected /\ ~pins.pulled
==============================================================================
