----------------------------- MODULE VaultBoard -----------------------------
(***************************************************************************)
(* The board under the core, in a build that logs: the clocks and clock    *)
(* gates platform_init sets up, the UART that vault_log writes to, and     *)
(* what the deep sleep does to both.                                       *)
(*                                                                         *)
(* Three things here act far from where they are done.  A register of a    *)
(* peripheral whose clock is gated is written without effect and without   *)
(* an error.  The UART's divisor is computed from the clock that runs when *)
(* it is set up, not from the one that runs when it sends.  And a byte is  *)
(* still on its way when the call that sent it is over, while the clock    *)
(* that moves it is about to be stopped.                                   *)
(*                                                                         *)
(* todo is the stack of calls still to be made: a function that calls      *)
(* others puts them in front.  The core's own steps are in VaultCore; here *)
(* it is the calls that touch a clock or the log, in the same order.       *)
(***************************************************************************)
EXTENDS Integers, SequencesExt, Folds

CONSTANTS
  Interval,   \* the values logged as interval_sec
  Radix       \* of the numbers in the log, 10 in the code

ASSUME BoardAssumption == Interval \subseteq Nat /\ Radix \in Nat \ {0, 1}

VARIABLES
  board,    \* which backend this is
  todo,     \* the calls still to be made, the next one first
  chip,     \* clocks, gates and the settings that outlive a call
  text,     \* what the vault_log in progress has still to hand to the UART
  txdat, shift,   \* the UART's data and shift register
  cut,      \* the character in the shift register was under way when the clock stopped
  owed      \* history: what was to be logged and has not left yet

boardVars == <<board, todo, chip, text, txdat, shift, cut, owed>>
uart      == <<text, txdat, shift, cut, owed>>

Board == {"lpc810", "efm32g210", "stm32u031", "stm32c011"}

\* A character is known by its line and place; a label counts as one.
LABEL == 0
LF == 10
CR == 13
DigitZero == 48
NoChar == [of |-> "none", at |-> 0, code |-> 0]

(* The lines of vault_core.c and of the STM32U031's platform_init. *)
PlainLines  == {"platform_init: done", "init", "wake_main enter",
                "bus_isolation done", "sleep", "wake"}
NumberLines == {"context_valid=", "arm_sleep interval_sec="}
Logged(line) == IF line = "context_valid=" THEN {0, 1} ELSE Interval

-----------------------------------------------------------------------------
(* vault_log_u32 *)
\* The digits as the loop finds them, the last one first.
Collected[value \in Nat] ==
  IF value = 0 THEN <<>>
  ELSE <<DigitZero + (value % Radix)>> \o Collected[value \div Radix]

\* Mutant: the bare values, without the '0' they count from.
DigitsBare(value) ==
  LET codes == Reverse(Collected[value]) IN [i \in DOMAIN codes |-> codes[i] - DigitZero]
\* Mutant: a zero has no digits.
DigitsOfNonzero(value) == Reverse(Collected[value])
\* Mutant: handed out as they were collected.
DigitsBackwards(value) == IF value = 0 THEN <<DigitZero>> ELSE Collected[value]

Digits(value) == IF value = 0 THEN <<DigitZero>> ELSE Reverse(Collected[value])

\* What is meant: place k holds value div Radix^k mod Radix, and the first
\* digit is no zero.
Numeral(value) ==
  LET width == CHOOSE n \in 1..10 : /\ value < Radix ^ n
                                    /\ n > 1 => value >= Radix ^ (n - 1)
  IN  [i \in 1..width |-> DigitZero + ((value \div Radix ^ (width - i)) % Radix)]

\* The LPC810 puts a CR before each LF (lpc810_uart_puts).
LineEnd == IF board = "lpc810" THEN <<CR, LF>> ELSE <<LF>>
Line(line, digits) ==
  LET codes == <<LABEL>> \o digits \o LineEnd
  IN  [i \in DOMAIN codes |-> [of |-> line, at |-> i, code |-> codes[i]]]

-----------------------------------------------------------------------------
Call(name) == Head(todo) = name /\ todo' = Tail(todo)
Calls(name, calls) == Head(todo) = name /\ todo' = calls \o Tail(todo)

\* Out of reset: the reset oscillator, nothing ungated.
Reset == [gates |-> {}, clock |-> "reset", divisor |-> "none", txpin |-> "reset",
          range |-> 1, timer |-> "idle", power |-> "on", i2c |-> "ok"]

main ==
  (IF board = "stm32u031" THEN <<"SystemClock_Config">> ELSE <<>>) \o
  <<"platform_init", "init", "vault_core_step">>

BoardInit ==
  /\ board \in Board
  /\ todo = main
  /\ chip = Reset
  /\ text = <<>> /\ txdat = NoChar /\ shift = NoChar /\ cut = FALSE
  /\ owed = <<>>

core_step ==
  <<"wake_main enter", "platform_i2c_slave_init", "await DONE", "context_valid=",
    "bus_isolation done", "arm_sleep interval_sec=", "platform_wakeup_timer_arm",
    "sleep", "platform_enter_low_power_sleep", "wake", "vault_core_step">>

vault_core_step == Calls("vault_core_step", core_step) /\ UNCHANGED <<board, chip, uart>>

-----------------------------------------------------------------------------
(* platform_init *)
lpc810_platform_init == <<"gpio_init", "timer_init", "uart_init">>

\* Mutant: the UART is set up before the clock it will run on.
efm32g210_uart_first == <<"gpio_init", "uart_init", "clock_init", "rtc_init">>
efm32g210_platform_init == <<"gpio_init", "clock_init", "rtc_init", "uart_init">>

\* Mutant: the power controller is left to the RTC's set-up.
stm32u031_unpowered == <<"gpio_init", "rtc_init", "uart_init", "platform_init: done">>
stm32u031_platform_init ==
  <<"PWR_CLK_ENABLE", "gpio_init", "rtc_init", "uart_init", "platform_init: done">>

stm32c011_platform_init == <<"PWR_CLK_ENABLE", "gpio_init", "rtc_init", "uart_init">>

platform_init ==
  /\ Calls("platform_init",
       CASE board = "lpc810"    -> lpc810_platform_init
         [] board = "efm32g210" -> efm32g210_platform_init
         [] board = "stm32u031" -> stm32u031_platform_init
         [] board = "stm32c011" -> stm32c011_platform_init)
  /\ UNCHANGED <<board, chip, uart>>

Ungate(name, gates) ==
  /\ Call(name)
  /\ chip' = [chip EXCEPT !.gates = @ \cup gates]
  /\ UNCHANGED <<board, uart>>

PwrClkEnable == Ungate("PWR_CLK_ENABLE", {"PWR"})
gpio_init    == Ungate("gpio_init", {"GPIO"})
timer_init   == Ungate("timer_init", {"WKT"})

\* On the STM32s; the EFM32G210's only writes to the RTC.  PeriphCLKConfig
\* ungates PWR for itself if it must, and gates it again.
rtc_init == Ungate("rtc_init", IF board = "efm32g210" THEN {} ELSE {"RTC"})

\* Mutant: without the bridge to the low-energy peripherals' registers.
clock_init_no_HFLE ==
  /\ Call("clock_init")
  /\ chip' = [chip EXCEPT !.clock = "run", !.gates = @ \cup {"RTC", "USART0"}]
  /\ UNCHANGED <<board, uart>>
\* Mutant: without the clock that the erratum asks for.
clock_init_no_USART0 ==
  /\ Call("clock_init")
  /\ chip' = [chip EXCEPT !.clock = "run", !.gates = @ \cup {"HFLE", "RTC"}]
  /\ UNCHANGED <<board, uart>>

\* HFXO; HFLE, the bridge to the RTC's registers, and the RTC's own clock;
\* USART0's, for the erratum I2C_E102.
clock_init ==
  /\ Call("clock_init")
  /\ chip' = [chip EXCEPT !.clock = "run", !.gates = @ \cup {"HFLE", "RTC", "USART0"}]
  /\ UNCHANGED <<board, uart>>

SystemClock_Config ==
  /\ Call("SystemClock_Config")
  /\ chip' = [chip EXCEPT !.clock = "run"]
  /\ UNCHANGED <<board, uart>>

-----------------------------------------------------------------------------
(* The UARTs.  What the transmit pin hangs on: the LPC810's switch matrix,
   ungated first; the EFM32G210's GPIO, ungated by gpio_init; the STM32s'
   port, ungated on the spot. *)
PinGate == CASE board = "lpc810" -> "SWM" [] OTHER -> "GPIO"
UartGates == CASE board = "lpc810"    -> {"SWM", "USART"}
               [] board = "efm32g210" -> {"USART"}
               [] OTHER               -> {"GPIO", "USART"}

UartInit(gates) ==
  LET ungated == chip.gates \cup gates IN
  /\ Call("uart_init")
  /\ chip' = [chip EXCEPT
       !.gates   = ungated,
       !.txpin   = IF PinGate \in ungated THEN "uart" ELSE @,
       !.divisor = IF "USART" \in ungated THEN chip.clock ELSE @]
  /\ UNCHANGED <<board, uart>>

\* Mutant: the switch matrix is written before it is ungated.
uart_init_no_SWM == UartInit({"USART"})
\* Mutant: the UART's own clock stays gated.
uart_init_gated  == UartInit({"SWM", "GPIO"})

uart_init == UartInit(UartGates)

\* vault_log and vault_log_u32: the line is put together, then handed over.
Log(line, digits, meant) ==
  /\ Calls(line, <<"vault_log">>)
  /\ text' = Line(line, digits)
  /\ owed' = owed \o Line(line, meant)
  /\ UNCHANGED <<board, chip, txdat, shift, cut>>

LogLine   == \E line \in PlainLines : Log(line, <<>>, <<>>)
LogNumber == \E line \in NumberLines : \E value \in Logged(line) :
               Log(line, Digits(value), Numeral(value))

\* One character, once the data register is free; a free shift register
\* takes it over at once.
Putc ==
  /\ Head(todo) = "vault_log"
  /\ text # <<>> /\ txdat = NoChar
  /\ text' = Tail(text)
  /\ IF shift = NoChar THEN shift' = Head(text) /\ txdat' = txdat
                       ELSE txdat' = Head(text) /\ shift' = shift
  /\ UNCHANGED <<board, todo, chip, cut, owed>>

\* Mutant: back as soon as the last character is in the data register.
ReturnUnsent ==
  /\ text = <<>>
  /\ Call("vault_log")
  /\ UNCHANGED <<board, chip, uart>>

\* The EFM32G210 waits for TXC, the STM32s' HAL for TC; the LPC810 returns.
Return ==
  /\ text = <<>>
  /\ board # "lpc810" => txdat = NoChar /\ shift = NoChar
  /\ Call("vault_log")
  /\ UNCHANGED <<board, chip, uart>>

\* The waits poll: for the data register, then for the last character.
Poll ==
  /\ Head(todo) = "vault_log"
  /\ IF text # <<>> THEN txdat # NoChar
                     ELSE board # "lpc810" /\ (txdat # NoChar \/ shift # NoChar)
  /\ UNCHANGED boardVars

vault_log == LogLine \/ LogNumber \/ Putc \/ Return \/ Poll

\* The character in the shift register is out.
ShiftOut ==
  /\ shift # NoChar
  /\ chip.power = "on" /\ "USART" \in chip.gates
  /\ shift' = txdat /\ txdat' = NoChar /\ cut' = FALSE
  /\ owed' = Tail(owed)
  /\ UNCHANGED <<board, todo, chip, text>>

-----------------------------------------------------------------------------
(* The core's other calls. *)
platform_i2c_slave_init ==
  Call("platform_i2c_slave_init") /\ UNCHANGED <<board, chip, uart>>

AwaitDone == Call("await DONE") /\ UNCHANGED <<board, chip, uart>>

TimerGates == CASE board = "lpc810"    -> {"WKT"}
                [] board = "efm32g210" -> {"HFLE", "RTC"}
                [] OTHER               -> {"RTC"}

platform_wakeup_timer_arm ==
  /\ Call("platform_wakeup_timer_arm")
  /\ chip' = [chip EXCEPT !.timer = IF TimerGates \subseteq chip.gates THEN "armed" ELSE @]
  /\ UNCHANGED <<board, uart>>

\* Mutant: the transmit pin stays an analog one.
stm32u031_sleep_no_restore ==
  <<"uart_pin_isolate", "range 2", "deep sleep", "range 1", "SystemClock_Config">>
\* Mutant: the clock is raised while the core voltage is still low.
stm32u031_sleep_clock_first ==
  <<"uart_pin_isolate", "range 2", "deep sleep", "SystemClock_Config",
    "range 1", "uart_pin_restore">>
\* Mutant: on at the clock that Stop 2 left.
stm32u031_sleep_no_clock ==
  <<"uart_pin_isolate", "range 2", "deep sleep", "range 1", "uart_pin_restore">>

stm32u031_enter_low_power_sleep ==
  <<"uart_pin_isolate", "range 2", "deep sleep", "range 1",
    "SystemClock_Config", "uart_pin_restore">>

platform_enter_low_power_sleep ==
  /\ Calls("platform_enter_low_power_sleep",
       IF board = "stm32u031" THEN stm32u031_enter_low_power_sleep
                              ELSE <<"deep sleep">>)
  /\ UNCHANGED <<board, chip, uart>>

SetPin(name, mode) ==
  Call(name) /\ chip' = [chip EXCEPT !.txpin = mode] /\ UNCHANGED <<board, uart>>
SetRange(name, range) ==
  /\ Call(name)
  /\ chip' = [chip EXCEPT !.range = IF "PWR" \in chip.gates THEN range ELSE @]
  /\ UNCHANGED <<board, uart>>

uart_pin_isolate == SetPin("uart_pin_isolate", "analog")
uart_pin_restore == SetPin("uart_pin_restore", "uart")
ControlVoltageScaling == SetRange("range 2", 2) \/ SetRange("range 1", 1)

\* Which mode WFI enters is in PWR on the STM32s, and a shallow one by default.
DeepSleep ==
  /\ Head(todo) = "deep sleep" /\ chip.power = "on"
  /\ chip' = [chip EXCEPT !.power =
                IF board \in {"stm32u031", "stm32c011"} /\ "PWR" \notin chip.gates
                  THEN "shallow" ELSE "deep"]
  /\ cut' = (shift # NoChar)
  /\ UNCHANGED <<board, todo, text, txdat, shift, owed>>

\* The STM32U031 wakes on its reset clock; EMU_EnterEM2(true) restores HFXO, and
\* the other two never left their reset clock.  On early EFM32G210s the I2C
\* comes back dead unless USART0 is clocked.
WakeUp ==
  /\ Head(todo) = "deep sleep" /\ chip.power # "on" /\ chip.timer = "armed"
  /\ todo' = Tail(todo)
  /\ chip' = [chip EXCEPT
       !.power = "on", !.timer = "idle",
       !.clock = IF board = "stm32u031" THEN "reset" ELSE @,
       !.i2c   = IF board = "efm32g210" /\ "USART0" \notin chip.gates THEN "dead" ELSE @]
  /\ UNCHANGED <<board, uart>>

-----------------------------------------------------------------------------
CoreStep ==
  \/ vault_core_step \/ platform_init \/ PwrClkEnable \/ gpio_init \/ timer_init
  \/ rtc_init \/ clock_init \/ SystemClock_Config \/ uart_init \/ vault_log
  \/ platform_i2c_slave_init \/ platform_wakeup_timer_arm
  \/ platform_enter_low_power_sleep \/ uart_pin_isolate \/ uart_pin_restore
  \/ ControlVoltageScaling \/ DeepSleep

BoardNext == CoreStep \/ AwaitDone \/ ShiftOut \/ WakeUp

\* The CPU runs, the UART shifts, the timer fires; DONE may never come.
BoardSpec ==
  /\ BoardInit /\ [][BoardNext]_boardVars
  /\ WF_boardVars(CoreStep) /\ WF_boardVars(ShiftOut) /\ WF_boardVars(WakeUp)

-----------------------------------------------------------------------------
Gate == {"PWR", "GPIO", "WKT", "RTC", "HFLE", "USART0", "SWM", "USART"}
Char == [of : PlainLines \cup NumberLines, at : Nat,
         code : {LABEL, LF, CR} \cup DigitZero..(DigitZero + Radix - 1)]

\* Types.  The log knows no character but a label's, a digit or a line end.
BoardTypeOK ==
  /\ board \in Board /\ todo # <<>>
  /\ chip \in [gates : SUBSET Gate, clock : {"reset", "run"}, divisor : {"none", "reset", "run"},
               txpin : {"reset", "uart", "analog"}, range : {1, 2}, timer : {"idle", "armed"},
               power : {"on", "shallow", "deep"}, i2c : {"ok", "dead"}]
  /\ text \in Seq(Char) /\ owed \in Seq(Char)
  /\ {txdat, shift} \subseteq Char \cup {NoChar} /\ cut \in BOOLEAN

\* Every character leaves the board in its turn, on a pin that carries it, at
\* the rate its divisor was computed for, and whole: no line comes out
\* truncated, garbled or with other digits than its number has
\* (platform_efm32g210_uart.c:103-119 has the log that showed "slee").  The
\* LPC810, which does not wait, may at worst have the end of the line before a
\* sleep in its shift register when the clock stops.
LinesArriveWhole ==
  [][shift # NoChar /\ shift' # shift =>
       /\ owed # <<>> /\ shift = Head(owed)
       /\ chip.txpin = "uart" /\ chip.divisor = chip.clock
       /\ cut => board = "lpc810" /\ shift.of = "sleep" /\ shift.code \in {CR, LF}]_boardVars

\* While the vault sleeps, it sleeps as deeply as it was told to, with a timer
\* that will wake it, the STM32U031's core voltage low and its transmit pin not
\* left floating.  Its clock is not raised before the voltage.  While it waits for
\* the main MCU, both are what it is to serve the bus with, and the I2C survived
\* the last sleep.
BoardAsBelieved ==
  /\ chip.power # "on" =>
       /\ chip.power = "deep" /\ chip.timer = "armed"
       /\ board = "stm32u031" => chip.range = 2 /\ chip.txpin = "analog"
  /\ chip.range = 2 /\ Head(todo) # "deep sleep" => chip.clock = "reset"
  /\ Head(todo) = "await DONE" =>
       /\ chip.range = 1 /\ chip.i2c = "ok"
       /\ board \in {"efm32g210", "stm32u031"} => chip.clock = "run"

\* The vault always comes to the point where the main MCU has its turn: no line
\* of the log holds it up for good, and each sleep ends.
AlwaysComesRound == []<>(Head(todo) = "await DONE")
=============================================================================
