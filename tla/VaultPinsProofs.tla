--------------------------- MODULE VaultPinsProofs ---------------------------
(***************************************************************************)
(* The pins bear out what the core believes of them, on all four boards,   *)
(* for every set of intervals, any number of supply losses and both        *)
(* builds.                                                                 *)
(*                                                                         *)
(* VaultPins takes the core's own steps, so that CoreInv holds of it too;  *)
(* PinsInv adds the one thing that PinsBearOut does not say and isolation  *)
(* on the LPC810 rests on: when platform_bus_isolate is called, deinit has *)
(* already taken the pins from the switch matrix.                          *)
(***************************************************************************)
EXTENDS VaultPins, VaultCoreProofs

\* The boards whose deinit takes the pins from the peripheral.
Released == {"lpc810", "efm32g210"}

PinsInv ==
  /\ board \in Boards
  /\ pins \in Pins /\ pins.bound
  /\ slave_on => pins.connected /\ pins.clocked
  /\ isolated => ~pins.connected /\ ~pins.pulled
  /\ pc = "bus_isolate" /\ board \in Released => ~pins.connected

\* A step of the core on a board is a step of the core.
LEMMA PinsStepIsCoreStep == [PinsNext]_pinVars => [Next]_vars
<1>. SUFFICES ASSUME [PinsNext]_pinVars PROVE [Next]_vars
  OBVIOUS
<1>1. CASE Step
  BY <1>1 DEF Step, SlaveInitPins, SlaveDeinitPins, BusIsolatePins, OtherSteps,
              Next, vault_core_step
<1>2. CASE Serve \/ Fire \/ Around \/ SupplyLostPins
  BY <1>2 DEF Serve, Fire, Around, SupplyLostPins, Next
<1>3. CASE UNCHANGED pinVars
  BY <1>3 DEF pinVars
<1>. QED
  BY <1>1, <1>2, <1>3 DEF PinsNext

-----------------------------------------------------------------------------
\* What each of the three calls makes of any pins.
LEMMA SlaveInitConnects ==
  ASSUME board \in Boards, NEW p \in Pins, p.bound
  PROVE  LET q == platform_i2c_slave_init(p)
         IN  q \in Pins /\ q.bound /\ q.connected /\ q.clocked
  BY DEF Boards, Pins, platform_i2c_slave_init, Lpc810SlaveInit, Stm32u031SlaveInit,
         Stm32c011SlaveInit, Efm32g210SlaveInit

\* Shutting the slave down disconnects the pins of the boards that release them there.
LEMMA SlaveDeinitReleases ==
  ASSUME board \in Boards, NEW p \in Pins
  PROVE  LET q == platform_i2c_slave_deinit(p)
         IN  q \in Pins /\ q.bound = p.bound /\ (board \in Released => ~q.connected)
  BY DEF Boards, Pins, Released, platform_i2c_slave_deinit, Lpc810SlaveDeinit,
         Stm32SlaveDeinit, Efm32g210SlaveDeinit

\* Isolation leaves nothing that feeds the bus, once the slave is down.
LEMMA BusIsolateIsolates ==
  ASSUME board \in Boards, NEW p \in Pins, board \in Released => ~p.connected
  PROVE  LET q == platform_bus_isolate(p)
         IN  q \in Pins /\ q.bound = p.bound /\ ~q.connected /\ ~q.pulled
  BY DEF Boards, Pins, Released, platform_bus_isolate, Lpc810BusIsolate,
         Stm32u031BusIsolate, Stm32c011BusIsolate, Efm32g210BusIsolate

\* After a reset the pads carry SDA and SCL on every board.
LEMMA ResetLeavesPins ==
  ASSUME NEW b \in Boards, NEW q \in platform_init(b)
  PROVE  q \in Pins /\ q.bound
<1>1. Untouched \in Pins /\ Untouched.bound
  BY DEF Untouched, Pins
<1>2. CASE b = "lpc810"
  <2>. PICK p \in BOOLEAN : q = [Untouched EXCEPT !.pulled = p]
    BY <1>2 DEF platform_init, lpc810_gpio_init
  <2>. QED
    BY <1>1 DEF Pins
<1>3. CASE b # "lpc810"
  <2>. q = Untouched
    BY <1>3 DEF Boards, platform_init, stm32u031_gpio_init, stm32c011_gpio_init,
                efm32g210_gpio_init
  <2>. QED
    BY <1>1
<1>. QED
  BY <1>2, <1>3

-----------------------------------------------------------------------------
\* Every step on the board keeps the pins as the core believes them.
LEMMA PinsInvInductive == CoreInv /\ PinsInv /\ [PinsNext]_pinVars => PinsInv'
<1>. SUFFICES ASSUME CoreInv, PinsInv, [PinsNext]_pinVars PROVE PinsInv'
  OBVIOUS
<1>. USE DEF PinsInv, Goto, bus
<1>1. CASE SlaveInitPins /\ UNCHANGED board
  BY <1>1, SlaveInitConnects DEF SlaveInitPins, SlaveInit
<1>2. CASE SlaveDeinitPins /\ UNCHANGED board
  <2>1. ~isolated
    BY <1>2 DEF SlaveDeinitPins, SlaveDeinit, CoreInv, HardwareFollowsPc, Serving
  <2>. QED
    BY <1>2, <2>1, SlaveDeinitReleases DEF SlaveDeinitPins, SlaveDeinit
<1>3. CASE BusIsolatePins /\ UNCHANGED board
  <2>1. ~slave_on
    BY <1>3 DEF BusIsolatePins, BusIsolate, CoreInv, HardwareFollowsPc, Serving, Powered
  <2>. QED
    BY <1>3, <2>1, BusIsolateIsolates DEF BusIsolatePins, BusIsolate
<1>4. CASE OtherSteps /\ UNCHANGED board
  BY <1>4 DEF OtherSteps, ResetForCycle, RailOn, IrqDisable, CheckDone,
              WaitForInterrupt, IrqEnable, RailOff, TimerArm, WakeFromSleep
<1>5. CASE Serve \/ Fire \/ Around
  BY <1>5 DEF Serve, Fire, Around, I2CInterrupt, TimerFires, OtherInterrupt,
              OtherRaised, MainTransfers, MainFinishes, BusEvent
<1>6. CASE SupplyLostPins
  BY <1>6, ResetLeavesPins DEF SupplyLostPins, SupplyLost
<1>7. CASE UNCHANGED pinVars
  BY <1>7 DEF pinVars, vars
<1>. QED
  BY <1>1, <1>2, <1>3, <1>4, <1>5, <1>6, <1>7 DEF PinsNext, Step

\* What the core takes for granted about the pins is so on every board: they
\* reach a clocked peripheral while the slave is on, and feed nothing when they
\* count as isolated, in the first cycle after a reset as in any later one.
THEOREM PinsSafe == PinsSpec => []PinsBearOut
<1>1. PinsInit => CoreInv /\ PinsInv
  <2>1. Init => CoreInv
    BY CoreInvInit
  <2>. QED
    BY <2>1, ResetLeavesPins DEF PinsInit, Init, PinsInv
<1>2. CoreInv /\ PinsInv /\ [PinsNext]_pinVars => (CoreInv /\ PinsInv)'
  BY PinsInvInductive, PinsStepIsCoreStep, CoreInvInductive
<1>3. PinsInv => PinsBearOut
  BY DEF PinsInv, PinsBearOut
<1>. QED
  BY <1>1, <1>2, <1>3, PTL DEF PinsSpec
=============================================================================
