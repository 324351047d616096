-------------------------- MODULE VaultBoardProofs --------------------------
(***************************************************************************)
(* Clocks, gates and the log, on every board and for any intervals.        *)
(*                                                                         *)
(* What holds of the chip depends on how far the calls have got, and that  *)
(* is the stack: ChipInv goes through the stacks there can be, which are   *)
(* the ends of four scripts (Starting, Booting, InLoop and Asleep), and    *)
(* says of each what the chip is like there.                               *)
(*                                                                         *)
(* What holds of the log is the same everywhere, but for the line before a *)
(* sleep: LogInv has what is owed in the UART and in the line being handed *)
(* over, and it takes from the stack only which call follows on which      *)
(* (StackFacts).                                                           *)
(*                                                                         *)
(* That the digits of a number are the right ones is an induction over the *)
(* number; DigitsSound assumes it of the numbers that are logged.          *)
(***************************************************************************)
EXTENDS VaultBoard, TLAPS, SequenceTheorems

(* The stacks. *)
Rest(script, k) == SubSeq(script, k, Len(script))

\* What platform_init calls, and what platform_enter_low_power_sleep does.
Init_(b) == CASE b = "lpc810"    -> lpc810_platform_init
              [] b = "efm32g210" -> efm32g210_platform_init
              [] b = "stm32u031" -> stm32u031_platform_init
              [] b = "stm32c011" -> stm32c011_platform_init
Sleep_(b) == IF b = "stm32u031" THEN stm32u031_enter_low_power_sleep ELSE <<"deep sleep">>

Loop(k)  == Rest(core_step, k)
Boot(b, k)  == Rest(Init_(b), k) \o <<"init", "vault_core_step">>
Sleep(b, k) == Rest(Sleep_(b), k) \o Loop(10)
Logging(stack) == <<"vault_log">> \o stack

\* Where a log line of the loop returns to.
Returns == {2, 5, 6, 7, 9, 11}

-----------------------------------------------------------------------------
(* The chip. *)
RunClock == IF board \in {"efm32g210", "stm32u031"} THEN "run" ELSE "reset"

\* What a call of platform_init is for.
Effect(call) ==
  CASE call = "PWR_CLK_ENABLE" -> "PWR" \in chip.gates
    [] call = "gpio_init"  -> "GPIO" \in chip.gates
    [] call = "timer_init" -> "WKT" \in chip.gates
    [] call = "clock_init" -> {"HFLE", "RTC", "USART0"} \subseteq chip.gates
    [] call = "rtc_init"   -> board = "efm32g210" \/ "RTC" \in chip.gates
    [] call = "uart_init"  -> /\ "USART" \in chip.gates
                              /\ chip.txpin = "uart" /\ chip.divisor = RunClock
    [] OTHER -> TRUE

\* What no call but the sleep's touches.
Awake == chip.power = "on" /\ chip.range = 1 /\ chip.i2c = "ok"

\* Everything that the loop and the log take for granted.
SetUp ==
  /\ "USART" \in chip.gates /\ TimerGates \subseteq chip.gates
  /\ board = "efm32g210" => "USART0" \in chip.gates
  /\ board \in {"stm32u031", "stm32c011"} => "PWR" \in chip.gates
  /\ chip.divisor = RunClock /\ chip.i2c = "ok"
Ready == SetUp /\ Awake /\ chip.clock = RunClock /\ chip.txpin = "uart"

Starting ==
  /\ \/ todo = main /\ chip.clock = "reset"
     \/ /\ todo = <<"platform_init", "init", "vault_core_step">>
        /\ chip.clock = (IF board = "stm32u031" THEN "run" ELSE "reset")
  /\ Awake

\* What has been set up before the k-th call of platform_init.
SetUpTo(k) ==
  /\ \A i \in 1 .. k - 1 : Effect(Init_(board)[i])
  /\ chip.clock = (IF board = "efm32g210" /\ k < 3 THEN "reset" ELSE RunClock)
  /\ Awake

Booting ==
  \E k \in 1 .. Len(Init_(board)) + 1 :
    /\ \/ todo = Boot(board, k)
       \/ todo = Logging(Boot(board, k)) /\ board = "stm32u031" /\ k = 6
    /\ SetUpTo(k)

InLoop ==
  \E k \in 1 .. 11 :
    /\ todo = Loop(k) \/ (todo = Logging(Loop(k)) /\ k \in Returns)
    /\ k \in {8, 9} => chip.timer = "armed"
    /\ Ready

\* The STM32U031's six steps around Stop 2; one step on the others.
Asleep ==
  IF board # "stm32u031"
    THEN /\ todo = Sleep(board, 1)
         /\ SetUp /\ chip.clock = RunClock /\ chip.txpin = "uart" /\ chip.range = 1
         /\ chip.timer = "armed" /\ chip.power \in {"on", "deep"}
    ELSE \E k \in 1 .. 6 :
         /\ todo = Sleep(board, k)
         /\ SetUp
         /\ chip.txpin = (IF k = 1 THEN "uart" ELSE "analog")
         /\ chip.range = (IF k \in {3, 4} THEN 2 ELSE 1)
         /\ chip.clock = (IF k \in {4, 5} THEN "reset" ELSE "run")
         /\ k <= 3 => chip.timer = "armed"
         /\ chip.power = "on" \/ (k = 3 /\ chip.power = "deep")

ChipTypes ==
  /\ board \in Board
  /\ chip \in [gates : SUBSET Gate, clock : {"reset", "run"}, divisor : {"none", "reset", "run"},
               txpin : {"reset", "uart", "analog"}, range : {1, 2}, timer : {"idle", "armed"},
               power : {"on", "shallow", "deep"}, i2c : {"ok", "dead"}]

ChipInv == ChipTypes /\ (Starting \/ Booting \/ InLoop \/ Asleep)

-----------------------------------------------------------------------------
(* The log. *)
Due  == Head(todo)
Then == Head(Tail(todo))

\* What has been logged and has not left the board.
InTransit == (IF shift = NoChar THEN <<>> ELSE <<shift>>)
              \o (IF txdat = NoChar THEN <<>> ELSE <<txdat>>) \o text

LogTypes ==
  /\ text \in Seq(Char) /\ owed \in Seq(Char)
  /\ txdat \in Char \cup {NoChar} /\ shift \in Char \cup {NoChar}
  /\ cut \in BOOLEAN

\* The LPC810 goes to sleep behind the back of its last line, of which no more
\* than the two characters in the UART are left.
LastLine == Line("sleep", <<>>)
LastLineInTransit ==
  \E j \in 1 .. 4 :
    /\ text = Rest(LastLine, j)
    /\ j > 1 => IF txdat = NoChar THEN shift \in {NoChar, LastLine[j - 1]}
                ELSE txdat = LastLine[j - 1] /\ (j > 2 => shift = LastLine[j - 2])

FallingAsleep ==
  \/ Due \in {"platform_enter_low_power_sleep", "deep sleep"}
  \/ Due = "vault_log" /\ Then = "platform_enter_low_power_sleep"

LogInv ==
  /\ LogTypes
  /\ owed = InTransit
  /\ txdat # NoChar => shift # NoChar
  /\ shift # NoChar => chip.txpin = "uart" /\ chip.divisor = chip.clock
  /\ Due # "vault_log" => text = <<>>
  /\ Due # "vault_log" /\ board # "lpc810" => shift = NoChar
  /\ board = "lpc810" /\ FallingAsleep => LastLineInTransit
  /\ cut => board = "lpc810" /\ shift.of = "sleep" /\ shift.code \in {CR, LF}

BoardInv == ChipInv /\ LogInv

-----------------------------------------------------------------------------
(* Stacks of calls. *)
Calls_ == PlainLines \cup NumberLines \cup
  {"platform_i2c_slave_init", "await DONE", "platform_wakeup_timer_arm",
   "platform_enter_low_power_sleep", "vault_core_step", "vault_log",
   "SystemClock_Config", "platform_init", "PWR_CLK_ENABLE", "gpio_init",
   "timer_init", "rtc_init", "clock_init", "uart_init", "uart_pin_isolate",
   "uart_pin_restore", "range 1", "range 2", "deep sleep"}

\* What is put in front of a sequence, a call or a character, comes off it first.
LEMMA InFront ==
  ASSUME NEW S, NEW c \in S, NEW s \in Seq(S)
  PROVE  /\ <<c>> \o s \in Seq(S) /\ <<c>> \o s # <<>>
         /\ Head(<<c>> \o s) = c /\ Tail(<<c>> \o s) = s
<1>1. <<c>> \in Seq(S) /\ Len(<<c>>) = 1 /\ <<c>>[1] = c
  OBVIOUS
<1>2. /\ <<c>> \o s \in Seq(S) /\ Len(<<c>> \o s) = 1 + Len(s)
      /\ \A i \in 1 .. 1 + Len(s) :
           (<<c>> \o s)[i] = IF i <= 1 THEN <<c>>[i] ELSE s[i - 1]
  BY <1>1, ConcatProperties
<1>3. Len(s) \in Nat
  BY LenProperties
<1>4. <<c>> \o s # <<>>
  BY <1>2, <1>3
<1>5. Head(<<c>> \o s) = c
  BY <1>1, <1>2, <1>3, <1>4
<1>6. /\ Tail(<<c>> \o s) \in Seq(S) /\ Len(Tail(<<c>> \o s)) = Len(s)
      /\ \A i \in 1 .. Len(s) : Tail(<<c>> \o s)[i] = (<<c>> \o s)[i + 1]
  BY <1>2, <1>3, <1>4, HeadTailProperties
<1>7. \A i \in 1 .. Len(s) : Tail(<<c>> \o s)[i] = s[i]
  BY <1>2, <1>3, <1>6
<1>. QED
  BY <1>2, <1>4, <1>5, <1>6, <1>7, SeqEqual

\* What is left of a script in front of a stack.
LEMMA ScriptInFront ==
  ASSUME NEW S, NEW a \in Seq(S), NEW s \in Seq(S), NEW k \in 1 .. Len(a)
  PROVE  /\ Rest(a, k) \o s \in Seq(S) /\ Rest(a, k) \o s # <<>>
         /\ Head(Rest(a, k) \o s) = a[k]
         /\ Tail(Rest(a, k) \o s) = Rest(a, k + 1) \o s
<1>1. k + 1 \in Int /\ Len(a) \in Nat /\ a[k] \in S
  BY LenProperties, ElementOfSeq
<1>2. Rest(a, k) = <<a[k]>> \o Rest(a, k + 1)
  BY <1>1, SubSeqRecursiveFirst DEF Rest
<1>3. Rest(a, k + 1) \in Seq(S)
  BY <1>1, SubSeqProperties, LenProperties DEF Rest
<1>4. Rest(a, k) \o s = <<a[k]>> \o (Rest(a, k + 1) \o s)
  BY <1>1, <1>2, <1>3, ConcatAssociative
<1>5. Rest(a, k + 1) \o s \in Seq(S)
  BY <1>3, ConcatProperties
<1>. QED
  BY <1>1, <1>4, <1>5, InFront

\* The rest of a script in front of a stack is a stack.
LEMMA ScriptIsStack ==
  ASSUME NEW a \in Seq(Calls_), NEW s \in Seq(Calls_), NEW k \in 1 .. Len(a) + 1
  PROVE  Rest(a, k) \o s \in Seq(Calls_)
<1>1. k \in Int /\ Len(a) \in Nat /\ \A i \in k .. Len(a) : i \in 1 .. Len(a)
  BY LenProperties
<1>2. \A i \in k .. Len(a) : a[i] \in Calls_
  BY <1>1, ElementOfSeq
<1>3. Rest(a, k) \in Seq(Calls_)
  BY <1>1, <1>2, SubSeqProperties DEF Rest
<1>. QED
  BY <1>3, ConcatProperties

\* Nothing is left of a script that is over, and all of one that has not begun.
LEMMA ScriptDone ==
  ASSUME NEW a \in Seq(Calls_), NEW s \in Seq(Calls_)
  PROVE  Rest(a, Len(a) + 1) \o s = s /\ Rest(a, 1) = a
<1>1. Rest(a, Len(a) + 1) = <<>>
  BY LenProperties, SubSeqEmpty DEF Rest
<1>. QED
  BY <1>1, ConcatEmptySeq, SubSeqFull DEF Rest

-----------------------------------------------------------------------------
(* The four scripts. *)
\* The calls of vault_core_step, one by one.
LEMMA CoreScript ==
  /\ core_step \in Seq(Calls_) /\ Len(core_step) = 11
  /\ core_step[1] = "wake_main enter" /\ core_step[2] = "platform_i2c_slave_init"
  /\ core_step[3] = "await DONE" /\ core_step[4] = "context_valid="
  /\ core_step[5] = "bus_isolation done" /\ core_step[6] = "arm_sleep interval_sec="
  /\ core_step[7] = "platform_wakeup_timer_arm" /\ core_step[8] = "sleep"
  /\ core_step[9] = "platform_enter_low_power_sleep" /\ core_step[10] = "wake"
  /\ core_step[11] = "vault_core_step"
<1>1. core_step \in Seq(Calls_)
  BY DEF core_step, Calls_, PlainLines, NumberLines
<1>2. Len(core_step) = 11
  BY DEF core_step
<1>. QED
  BY <1>1, <1>2 DEF core_step

\* The calls of platform_enter_low_power_sleep.
LEMMA SleepScript ==
  ASSUME NEW b \in Board
  PROVE  /\ Sleep_(b) \in Seq(Calls_)
         /\ b # "stm32u031" => Len(Sleep_(b)) = 1 /\ Sleep_(b)[1] = "deep sleep"
         /\ b = "stm32u031" =>
              /\ Sleep_(b) = stm32u031_enter_low_power_sleep /\ Len(Sleep_(b)) = 6
              /\ Sleep_(b)[1] = "uart_pin_isolate" /\ Sleep_(b)[2] = "range 2"
              /\ Sleep_(b)[3] = "deep sleep" /\ Sleep_(b)[4] = "range 1"
              /\ Sleep_(b)[5] = "SystemClock_Config" /\ Sleep_(b)[6] = "uart_pin_restore"
<1>1. <<"deep sleep">> \in Seq(Calls_) /\ Len(<<"deep sleep">>) = 1 /\ <<"deep sleep">>[1] = "deep sleep"
  BY DEF Calls_
<1>2. stm32u031_enter_low_power_sleep \in Seq(Calls_)
  BY DEF stm32u031_enter_low_power_sleep, Calls_
<1>3. Len(stm32u031_enter_low_power_sleep) = 6
  BY DEF stm32u031_enter_low_power_sleep
<1>4. /\ stm32u031_enter_low_power_sleep[1] = "uart_pin_isolate"
      /\ stm32u031_enter_low_power_sleep[2] = "range 2"
      /\ stm32u031_enter_low_power_sleep[3] = "deep sleep"
      /\ stm32u031_enter_low_power_sleep[4] = "range 1"
      /\ stm32u031_enter_low_power_sleep[5] = "SystemClock_Config"
      /\ stm32u031_enter_low_power_sleep[6] = "uart_pin_restore"
  BY DEF stm32u031_enter_low_power_sleep
<1>. QED
  BY <1>1, <1>2, <1>3, <1>4 DEF Sleep_

\* The calls of platform_init.
LEMMA InitScript ==
  ASSUME NEW b \in Board
  PROVE  /\ Init_(b) \in Seq(Calls_)
         /\ b = "lpc810" =>
              /\ Init_(b) = lpc810_platform_init /\ Len(Init_(b)) = 3
              /\ Init_(b)[1] = "gpio_init" /\ Init_(b)[2] = "timer_init"
              /\ Init_(b)[3] = "uart_init"
         /\ b = "efm32g210" =>
              /\ Init_(b) = efm32g210_platform_init /\ Len(Init_(b)) = 4
              /\ Init_(b)[1] = "gpio_init" /\ Init_(b)[2] = "clock_init"
              /\ Init_(b)[3] = "rtc_init" /\ Init_(b)[4] = "uart_init"
         /\ b = "stm32u031" =>
              /\ Init_(b) = stm32u031_platform_init /\ Len(Init_(b)) = 5
              /\ Init_(b)[1] = "PWR_CLK_ENABLE" /\ Init_(b)[2] = "gpio_init"
              /\ Init_(b)[3] = "rtc_init" /\ Init_(b)[4] = "uart_init"
              /\ Init_(b)[5] = "platform_init: done"
         /\ b = "stm32c011" =>
              /\ Init_(b) = stm32c011_platform_init /\ Len(Init_(b)) = 4
              /\ Init_(b)[1] = "PWR_CLK_ENABLE" /\ Init_(b)[2] = "gpio_init"
              /\ Init_(b)[3] = "rtc_init" /\ Init_(b)[4] = "uart_init"
<1>1. CASE b = "lpc810"
  <2>1. lpc810_platform_init \in Seq(Calls_)
    BY DEF lpc810_platform_init, Calls_
  <2>2. Len(lpc810_platform_init) = 3
    BY DEF lpc810_platform_init
  <2>3. /\ lpc810_platform_init[1] = "gpio_init" /\ lpc810_platform_init[2] = "timer_init"
        /\ lpc810_platform_init[3] = "uart_init"
    BY DEF lpc810_platform_init
  <2>. QED
    BY <1>1, <2>1, <2>2, <2>3 DEF Init_
<1>2. CASE b = "efm32g210"
  <2>1. efm32g210_platform_init \in Seq(Calls_)
    BY DEF efm32g210_platform_init, Calls_
  <2>2. Len(efm32g210_platform_init) = 4
    BY DEF efm32g210_platform_init
  <2>3. /\ efm32g210_platform_init[1] = "gpio_init" /\ efm32g210_platform_init[2] = "clock_init"
        /\ efm32g210_platform_init[3] = "rtc_init" /\ efm32g210_platform_init[4] = "uart_init"
    BY DEF efm32g210_platform_init
  <2>. QED
    BY <1>2, <2>1, <2>2, <2>3 DEF Init_
<1>3. CASE b = "stm32u031"
  <2>1. stm32u031_platform_init \in Seq(Calls_)
    BY DEF stm32u031_platform_init, Calls_, PlainLines, NumberLines
  <2>2. Len(stm32u031_platform_init) = 5
    BY DEF stm32u031_platform_init
  <2>3. /\ stm32u031_platform_init[1] = "PWR_CLK_ENABLE" /\ stm32u031_platform_init[2] = "gpio_init"
        /\ stm32u031_platform_init[3] = "rtc_init" /\ stm32u031_platform_init[4] = "uart_init"
        /\ stm32u031_platform_init[5] = "platform_init: done"
    BY DEF stm32u031_platform_init
  <2>. QED
    BY <1>3, <2>1, <2>2, <2>3 DEF Init_
<1>4. CASE b = "stm32c011"
  <2>1. stm32c011_platform_init \in Seq(Calls_)
    BY DEF stm32c011_platform_init, Calls_
  <2>2. Len(stm32c011_platform_init) = 4
    BY DEF stm32c011_platform_init
  <2>3. /\ stm32c011_platform_init[1] = "PWR_CLK_ENABLE" /\ stm32c011_platform_init[2] = "gpio_init"
        /\ stm32c011_platform_init[3] = "rtc_init" /\ stm32c011_platform_init[4] = "uart_init"
    BY DEF stm32c011_platform_init
  <2>. QED
    BY <1>4, <2>1, <2>2, <2>3 DEF Init_
<1>. QED
  BY <1>1, <1>2, <1>3, <1>4 DEF Board

-----------------------------------------------------------------------------
(* The stacks made of them. *)
\* The stacks of the loop: each is the last one without its first call.
LEMMA LoopStack ==
  /\ Loop(1) = core_step /\ Loop(11) = <<"vault_core_step">> /\ Loop(12) = <<>>
  /\ \A k \in 1 .. 12 : Loop(k) \in Seq(Calls_)
  /\ \A k \in 1 .. 11 :
       /\ Loop(k) # <<>> /\ Head(Loop(k)) = core_step[k] /\ Tail(Loop(k)) = Loop(k + 1)
<1>1. core_step \in Seq(Calls_) /\ Len(core_step) = 11 /\ core_step[11] = "vault_core_step"
  BY CoreScript
<1>2. \A k \in 1 .. 12 : Loop(k) = SubSeq(core_step, k, 11)
  BY <1>1 DEF Loop, Rest
<1>3. Loop(12) = <<>>
  BY <1>2, SubSeqEmpty
<1>4. Loop(1) = core_step
  <2>1. SubSeq(core_step, 1, 11) = core_step
    BY <1>1, SubSeqFull
  <2>. QED
    BY <1>1, <2>1 DEF Loop, Rest
<1>5. ASSUME NEW k \in 1 .. 12 PROVE Loop(k) \in Seq(Calls_)
  <2>1. \A i \in 1 .. 11 : core_step[i] \in Calls_
    BY <1>1, ElementOfSeq
  <2>2. k \in Int /\ 11 \in Int /\ \A i \in k .. 11 : core_step[i] \in Calls_
    BY <2>1
  <2>3. SubSeq(core_step, k, 11) \in Seq(Calls_)
    BY <2>2, SubSeqProperties
  <2>. QED
    BY <1>2, <2>3
<1>6. ASSUME NEW k \in 1 .. 11
      PROVE  Loop(k) # <<>> /\ Head(Loop(k)) = core_step[k] /\ Tail(Loop(k)) = Loop(k + 1)
  <2>1. <<>> \in Seq(Calls_) /\ k \in 1 .. 12 /\ k + 1 \in 1 .. 12 /\ k \in 1 .. Len(core_step)
    BY <1>1
  <2>2. Loop(k) \o <<>> = Loop(k) /\ Loop(k + 1) \o <<>> = Loop(k + 1)
    BY <1>5, <2>1, ConcatEmptySeq
  <2>3. /\ Rest(core_step, k) \o <<>> # <<>>
        /\ Head(Rest(core_step, k) \o <<>>) = core_step[k]
        /\ Tail(Rest(core_step, k) \o <<>>) = Rest(core_step, k + 1) \o <<>>
    BY <1>1, <2>1, ScriptInFront
  <2>. QED
    BY <2>2, <2>3 DEF Loop
<1>7. Loop(11) = <<core_step[11]>> \o Loop(12)
  <2>1. SubSeq(core_step, 11, 11) = <<core_step[11]>> \o SubSeq(core_step, 11 + 1, 11)
    BY <1>1, SubSeqRecursiveFirst
  <2>2. Loop(11) = SubSeq(core_step, 11, 11) /\ Loop(12) = SubSeq(core_step, 12, 11)
    BY <1>1 DEF Loop, Rest
  <2>3. 11 + 1 = 12
    OBVIOUS
  <2>. QED
    BY <2>1, <2>2, <2>3
<1>8. Loop(11) = <<"vault_core_step">>
  <2>1. <<"vault_core_step">> \in Seq(Calls_)
    BY DEF Calls_
  <2>. QED
    BY <1>1, <1>3, <1>7, <2>1, ConcatEmptySeq
<1>. QED
  BY <1>3, <1>4, <1>5, <1>6, <1>8

\* Those of the sleep, which ends in the loop's "wake".
LEMMA SleepStack ==
  ASSUME NEW b \in Board
  PROVE  /\ Sleep(b, 1) = Sleep_(b) \o Loop(10)
         /\ Sleep(b, Len(Sleep_(b)) + 1) = Loop(10)
         /\ \A k \in 1 .. Len(Sleep_(b)) :
              /\ Sleep(b, k) # <<>> /\ Head(Sleep(b, k)) = Sleep_(b)[k]
              /\ Tail(Sleep(b, k)) = Sleep(b, k + 1)
<1>1. Sleep_(b) \in Seq(Calls_) /\ Loop(10) \in Seq(Calls_)
  <2>1. Loop(10) \in Seq(Calls_)
    BY LoopStack
  <2>. QED
    BY <2>1, SleepScript
<1>2. ASSUME NEW k \in 1 .. Len(Sleep_(b))
      PROVE  /\ Sleep(b, k) # <<>> /\ Head(Sleep(b, k)) = Sleep_(b)[k]
             /\ Tail(Sleep(b, k)) = Sleep(b, k + 1)
  BY <1>1, ScriptInFront DEF Sleep
<1>3. Sleep(b, 1) = Sleep_(b) \o Loop(10) /\ Sleep(b, Len(Sleep_(b)) + 1) = Loop(10)
  BY <1>1, ScriptDone DEF Sleep
<1>. QED
  BY <1>2, <1>3

\* Those of platform_init, which returns to main.
LEMMA BootStack ==
  ASSUME NEW b \in Board
  PROVE  /\ Boot(b, 1) = Init_(b) \o <<"init", "vault_core_step">>
         /\ Boot(b, Len(Init_(b)) + 1) = <<"init", "vault_core_step">>
         /\ \A k \in 1 .. Len(Init_(b)) :
              /\ Boot(b, k) # <<>> /\ Head(Boot(b, k)) = Init_(b)[k]
              /\ Tail(Boot(b, k)) = Boot(b, k + 1)
<1>1. Init_(b) \in Seq(Calls_) /\ <<"init", "vault_core_step">> \in Seq(Calls_)
  <2>1. <<"init", "vault_core_step">> \in Seq(Calls_)
    BY DEF Calls_, PlainLines
  <2>. QED
    BY <2>1, InitScript
<1>2. ASSUME NEW k \in 1 .. Len(Init_(b))
      PROVE  /\ Boot(b, k) # <<>> /\ Head(Boot(b, k)) = Init_(b)[k]
             /\ Tail(Boot(b, k)) = Boot(b, k + 1)
  BY <1>1, ScriptInFront DEF Boot
<1>3. /\ Boot(b, 1) = Init_(b) \o <<"init", "vault_core_step">>
      /\ Boot(b, Len(Init_(b)) + 1) = <<"init", "vault_core_step">>
  BY <1>1, ScriptDone DEF Boot
<1>. QED
  BY <1>2, <1>3

\* main: with and without the STM32U031's SystemClock_Config.
LEMMA FirstStacks ==
  /\ <<"init", "vault_core_step">> # <<>>
  /\ Head(<<"init", "vault_core_step">>) = "init"
  /\ Tail(<<"init", "vault_core_step">>) = Loop(11)
  /\ <<"platform_init", "init", "vault_core_step">> # <<>>
  /\ Head(<<"platform_init", "init", "vault_core_step">>) = "platform_init"
  /\ Tail(<<"platform_init", "init", "vault_core_step">>) = <<"init", "vault_core_step">>
  /\ main # <<>>
  /\ board = "stm32u031" =>
       /\ Head(main) = "SystemClock_Config"
       /\ Tail(main) = <<"platform_init", "init", "vault_core_step">>
  /\ board # "stm32u031" => main = <<"platform_init", "init", "vault_core_step">>
<1>1. <<"init", "vault_core_step">> # <<>> /\ Head(<<"init", "vault_core_step">>) = "init"
  OBVIOUS
<1>2. Tail(<<"init", "vault_core_step">>) = Loop(11)
  BY LoopStack
<1>3. <<"platform_init", "init", "vault_core_step">> # <<>>
  OBVIOUS
<1>4. Head(<<"platform_init", "init", "vault_core_step">>) = "platform_init"
  OBVIOUS
<1>5. Tail(<<"platform_init", "init", "vault_core_step">>) = <<"init", "vault_core_step">>
  OBVIOUS
<1>6. <<"platform_init", "init", "vault_core_step">> \in Seq(Calls_)
  BY DEF Calls_, PlainLines
<1>7. CASE board = "stm32u031"
  <2>1. main = <<"SystemClock_Config">> \o <<"platform_init", "init", "vault_core_step">>
    BY <1>7 DEF main
  <2>2. "SystemClock_Config" \in Calls_
    BY DEF Calls_
  <2>3. main # <<>> /\ Head(main) = "SystemClock_Config"
        /\ Tail(main) = <<"platform_init", "init", "vault_core_step">>
    BY <1>6, <2>1, <2>2, InFront
  <2>. QED
    BY <1>1, <1>2, <1>3, <1>4, <1>5, <1>7, <2>3
<1>8. CASE board # "stm32u031"
  <2>1. main = <<>> \o <<"platform_init", "init", "vault_core_step">>
    BY <1>8 DEF main
  <2>2. main = <<"platform_init", "init", "vault_core_step">>
    BY <1>6, <2>1, ConcatEmptySeq
  <2>. QED
    BY <1>1, <1>2, <1>3, <1>4, <1>5, <1>8, <2>2
<1>. QED
  BY <1>7, <1>8

\* vault_log returns to where it was called.
LEMMA LoggingStack ==
  ASSUME NEW s \in Seq(Calls_)
  PROVE  Logging(s) # <<>> /\ Head(Logging(s)) = "vault_log" /\ Tail(Logging(s)) = s
<1>1. "vault_log" \in Calls_
  BY DEF Calls_
<1>. QED
  BY <1>1, InFront DEF Logging

-----------------------------------------------------------------------------
\* Lines that are logged, and the calls that touch neither chip nor log.
Lines == PlainLines \cup NumberLines
Plain(name) == Call(name) /\ UNCHANGED <<board, chip>>

\* What a step does to the stack and the chip depends on the call that is due.
StepOfDueCall ==
  \/ UNCHANGED <<board, todo, chip>> /\ (ShiftOut \/ Head(todo) = "vault_log")
  \/ Head(todo) \in Lines /\ todo' = Logging(Tail(todo)) /\ UNCHANGED <<board, chip>>
  \/ Head(todo) \in {"vault_log", "platform_i2c_slave_init", "await DONE"}
       /\ todo' = Tail(todo) /\ UNCHANGED <<board, chip>>
  \/ Head(todo) = "vault_core_step" /\ vault_core_step
  \/ Head(todo) = "platform_init" /\ platform_init
  \/ Head(todo) = "PWR_CLK_ENABLE" /\ PwrClkEnable
  \/ Head(todo) = "gpio_init" /\ gpio_init
  \/ Head(todo) = "timer_init" /\ timer_init
  \/ Head(todo) = "rtc_init" /\ rtc_init
  \/ Head(todo) = "clock_init" /\ clock_init
  \/ Head(todo) = "SystemClock_Config" /\ SystemClock_Config
  \/ Head(todo) = "uart_init" /\ uart_init
  \/ Head(todo) = "platform_wakeup_timer_arm" /\ platform_wakeup_timer_arm
  \/ Head(todo) = "platform_enter_low_power_sleep" /\ platform_enter_low_power_sleep
  \/ Head(todo) = "uart_pin_isolate" /\ uart_pin_isolate
  \/ Head(todo) = "uart_pin_restore" /\ uart_pin_restore
  \/ Head(todo) = "range 1" /\ SetRange("range 1", 1)
  \/ Head(todo) = "range 2" /\ SetRange("range 2", 2)
  \/ Head(todo) = "deep sleep" /\ (DeepSleep \/ WakeUp)

\* A step is a step of the call that is due, or one of the UART.
LEMMA StepByCall ==
  ASSUME BoardNext
  PROVE  StepOfDueCall
<1>1. ASSUME vault_log PROVE StepOfDueCall
  <2>1. CASE LogLine \/ LogNumber
    BY <2>1 DEF LogLine, LogNumber, Log, Calls, Lines, Logging, StepOfDueCall
  <2>2. CASE Putc \/ Return \/ Poll
    BY <2>2 DEF Putc, Return, Poll, Call, boardVars, StepOfDueCall
  <2>. QED
    BY <1>1, <2>1, <2>2 DEF vault_log
<1>2. ASSUME ShiftOut PROVE StepOfDueCall
  BY <1>2 DEF ShiftOut, StepOfDueCall
<1>3. ASSUME platform_i2c_slave_init \/ AwaitDone PROVE StepOfDueCall
  BY <1>3 DEF platform_i2c_slave_init, AwaitDone, Call, StepOfDueCall
<1>4. ASSUME \/ vault_core_step \/ platform_init \/ PwrClkEnable \/ gpio_init \/ timer_init
             \/ rtc_init \/ clock_init \/ SystemClock_Config \/ uart_init
      PROVE  StepOfDueCall
  BY <1>4 DEF vault_core_step, platform_init, PwrClkEnable, gpio_init, timer_init, rtc_init,
              clock_init, SystemClock_Config, uart_init, UartInit, Ungate, Call, Calls,
              StepOfDueCall
<1>5. ASSUME \/ platform_wakeup_timer_arm \/ platform_enter_low_power_sleep
             \/ uart_pin_isolate \/ uart_pin_restore \/ ControlVoltageScaling
             \/ DeepSleep \/ WakeUp
      PROVE  StepOfDueCall
  BY <1>5 DEF platform_wakeup_timer_arm, platform_enter_low_power_sleep, uart_pin_isolate,
              uart_pin_restore, ControlVoltageScaling, SetRange, SetPin, DeepSleep, WakeUp,
              Call, Calls, StepOfDueCall
<1>. QED
  BY <1>1, <1>2, <1>3, <1>4, <1>5 DEF BoardNext, CoreStep

\* Every call writes values that its registers can hold.
LEMMA ChipTypesKept ==
  ASSUME ChipTypes, BoardNext
  PROVE  ChipTypes'
<1>. USE DEF ChipTypes, Gate
<1>1. ASSUME UNCHANGED <<board, chip>> PROVE ChipTypes'
  BY <1>1
<1>2. CASE PwrClkEnable \/ gpio_init \/ timer_init \/ rtc_init
  BY <1>2 DEF PwrClkEnable, gpio_init, timer_init, rtc_init, Ungate
<1>3. CASE clock_init \/ SystemClock_Config
  BY <1>3 DEF clock_init, SystemClock_Config
<1>4. CASE uart_init
  BY <1>4 DEF uart_init, UartInit, UartGates
<1>5. CASE platform_wakeup_timer_arm
  BY <1>5 DEF platform_wakeup_timer_arm
<1>6. CASE uart_pin_isolate \/ uart_pin_restore
  BY <1>6 DEF uart_pin_isolate, uart_pin_restore, SetPin
<1>7. CASE SetRange("range 1", 1) \/ SetRange("range 2", 2)
  BY <1>7 DEF SetRange
<1>8. CASE DeepSleep
  BY <1>8 DEF DeepSleep
<1>9. CASE WakeUp
  BY <1>9 DEF WakeUp
<1>10. CASE vault_core_step \/ platform_init \/ platform_enter_low_power_sleep
  BY <1>1, <1>10 DEF vault_core_step, platform_init, platform_enter_low_power_sleep
<1>. QED
  BY StepByCall, <1>1, <1>2, <1>3, <1>4, <1>5, <1>6, <1>7, <1>8, <1>9, <1>10
     DEF StepOfDueCall

-----------------------------------------------------------------------------
\* The loop, up to the sleep and round again.
LEMMA LoopStep ==
  ASSUME ChipTypes, InLoop, BoardNext
  PROVE  InLoop' \/ Asleep'
<1>. PICK k \in 1 .. 11 : /\ todo = Loop(k) \/ (todo = Logging(Loop(k)) /\ k \in Returns)
                          /\ k \in {8, 9} => chip.timer = "armed"
                          /\ Ready
  BY DEF InLoop
<1>. USE DEF ChipTypes
<1>1. ASSUME UNCHANGED <<board, chip>> PROVE Ready'
  BY <1>1 DEF Ready, SetUp, Awake, RunClock, TimerGates
<1>2. ASSUME UNCHANGED <<board, todo, chip>> PROVE InLoop'
  BY <1>1, <1>2 DEF InLoop
<1>3. ASSUME todo = Logging(Loop(k)), k \in Returns PROVE InLoop'
  <2>1. Head(todo) = "vault_log" /\ Tail(todo) = Loop(k)
    <3>1. \A j \in 1 .. 12 : Loop(j) \in Seq(Calls_)
      BY LoopStack
    <3>2. k \in 1 .. 12
      OBVIOUS
    <3>3. Loop(k) \in Seq(Calls_)
      BY ONLY <3>1, <3>2
    <3>. QED
      BY <1>3, <3>3, LoggingStack
  <2>2. \/ UNCHANGED <<board, todo, chip>>
        \/ todo' = Loop(k) /\ UNCHANGED <<board, chip>>
    BY <2>1, StepByCall DEF StepOfDueCall, Lines, PlainLines, NumberLines
  <2>. QED
    BY <1>1, <1>2, <2>2 DEF InLoop
<1>4. ASSUME todo = Loop(k)
      PROVE  Head(todo) = core_step[k] /\ Tail(todo) = Loop(k + 1)
  BY <1>4, LoopStack
<1>5. ASSUME todo = Loop(k), k \in {1, 4, 5, 6, 8, 10} PROVE InLoop'
  <2>1. /\ Head(todo) \in Lines /\ Tail(todo) = Loop(k + 1)
        /\ k + 1 \in Returns /\ k + 1 \in 1 .. 11
    <3>0. /\ core_step[1] \in Lines /\ core_step[4] \in Lines /\ core_step[5] \in Lines
          /\ core_step[6] \in Lines /\ core_step[8] \in Lines /\ core_step[10] \in Lines
      BY CoreScript DEF Lines, PlainLines, NumberLines
    <3>1. core_step[k] \in Lines
      BY <1>5, <3>0
    <3>2. k + 1 \in Returns /\ k + 1 \in 1 .. 11
      BY <1>5 DEF Returns
    <3>. QED
      BY <1>4, <1>5, <3>1, <3>2
  <2>2. \/ UNCHANGED <<board, todo, chip>>
        \/ todo' = Logging(Loop(k + 1)) /\ UNCHANGED <<board, chip>>
    BY <2>1, StepByCall DEF StepOfDueCall, Lines, PlainLines, NumberLines
  <2>3. ASSUME todo' = Logging(Loop(k + 1)), UNCHANGED <<board, chip>> PROVE InLoop'
    <3>1. k + 1 \in {8, 9} => chip'.timer = "armed"
      BY <1>5, <2>3
    <3>. QED
      BY <1>1, <2>1, <2>3, <3>1 DEF InLoop
  <2>. QED
    BY <1>2, <2>2, <2>3
<1>6. ASSUME todo = Loop(k), k \in {2, 3} PROVE InLoop'
  <2>1. /\ Head(todo) \in {"platform_i2c_slave_init", "await DONE"}
        /\ Tail(todo) = Loop(k + 1) /\ k + 1 \in 1 .. 11 /\ k + 1 \notin {8, 9}
    <3>1. core_step[k] \in {"platform_i2c_slave_init", "await DONE"}
      BY <1>6, CoreScript
    <3>2. k + 1 \in 1 .. 11 /\ k + 1 \notin {8, 9}
      BY <1>6
    <3>. QED
      BY <1>4, <1>6, <3>1, <3>2
  <2>2. \/ UNCHANGED <<board, todo, chip>>
        \/ todo' = Loop(k + 1) /\ UNCHANGED <<board, chip>>
    BY <2>1, StepByCall DEF StepOfDueCall, Lines, PlainLines, NumberLines
  <2>. QED
    BY <1>1, <1>2, <2>1, <2>2 DEF InLoop
<1>7. ASSUME todo = Loop(k), k = 7 PROVE InLoop'
  <2>1. Head(todo) = "platform_wakeup_timer_arm" /\ Tail(todo) = Loop(8)
    <3>1. Head(todo) = core_step[7] /\ Tail(todo) = Loop(8)
      BY <1>4, <1>7
    <3>. QED
      BY <3>1, CoreScript
  <2>2. UNCHANGED <<board, todo, chip>> \/ platform_wakeup_timer_arm
    BY <2>1, StepByCall DEF StepOfDueCall, Lines, PlainLines, NumberLines
  <2>3. ASSUME platform_wakeup_timer_arm PROVE InLoop'
    <3>1. todo' = Loop(8) /\ board' = board /\ chip' = [chip EXCEPT !.timer = "armed"]
      BY <2>1, <2>3 DEF platform_wakeup_timer_arm, Call, Ready, SetUp
    <3>2. Ready' /\ chip'.timer = "armed"
      BY <3>1 DEF Ready, SetUp, Awake, RunClock, TimerGates
    <3>. QED
      BY <3>1, <3>2 DEF InLoop
  <2>. QED
    BY <1>2, <2>2, <2>3
<1>8. ASSUME todo = Loop(k), k = 9 PROVE InLoop' \/ Asleep'
  <2>1. Head(todo) = "platform_enter_low_power_sleep" /\ Tail(todo) = Loop(10)
    <3>1. Head(todo) = core_step[9] /\ Tail(todo) = Loop(10)
      BY <1>4, <1>8
    <3>. QED
      BY <3>1, CoreScript
  <2>2. UNCHANGED <<board, todo, chip>> \/ platform_enter_low_power_sleep
    BY <2>1, StepByCall DEF StepOfDueCall, Lines, PlainLines, NumberLines
  <2>3. ASSUME platform_enter_low_power_sleep PROVE Asleep'
    <3>1. todo' = Sleep_(board) \o Loop(10) /\ board' = board /\ chip' = chip
      BY <2>1, <2>3 DEF platform_enter_low_power_sleep, Calls, Sleep_
    <3>2. todo' = Sleep(board', 1)
      BY <3>1, SleepStack
    <3>3. SetUp'
      BY <1>1, <3>1 DEF Ready
    <3>. QED
      BY <1>8, <3>1, <3>2, <3>3 DEF Asleep, Ready, Awake, RunClock
  <2>. QED
    BY <1>2, <2>2, <2>3
<1>9. ASSUME todo = Loop(k), k = 11 PROVE InLoop'
  <2>1. Head(todo) = "vault_core_step" /\ Tail(todo) = <<>>
    <3>1. Head(todo) = core_step[11] /\ Tail(todo) = Loop(12)
      BY <1>4, <1>9
    <3>. QED
      BY <3>1, CoreScript, LoopStack
  <2>2. UNCHANGED <<board, todo, chip>> \/ vault_core_step
    BY <2>1, StepByCall DEF StepOfDueCall, Lines, PlainLines, NumberLines
  <2>3. ASSUME vault_core_step PROVE InLoop'
    <3>1. todo' = core_step \o <<>> /\ board' = board /\ chip' = chip
      BY <2>1, <2>3 DEF vault_core_step, Calls
    <3>2. core_step \in Seq(Calls_)
      BY CoreScript
    <3>3. todo' = Loop(1)
      BY <3>1, <3>2, ConcatEmptySeq, LoopStack
    <3>. QED
      BY <1>1, <3>1, <3>3 DEF InLoop
  <2>. QED
    BY <1>2, <2>2, <2>3
<1>. QED
  BY <1>3, <1>5, <1>6, <1>7, <1>8, <1>9

\* In and out of the sleep, on the boards that do it in one step...
LEMMA ShortSleepStep ==
  ASSUME ChipTypes, Asleep, BoardNext, board # "stm32u031"
  PROVE  Asleep' \/ InLoop'
<1>. USE DEF ChipTypes
<1>1. /\ todo = Sleep(board, 1) /\ SetUp /\ chip.clock = RunClock /\ chip.txpin = "uart"
      /\ chip.range = 1 /\ chip.timer = "armed" /\ chip.power \in {"on", "deep"}
  BY DEF Asleep
<1>2. Head(todo) = "deep sleep" /\ Tail(todo) = Loop(10)
  <2>1. Len(Sleep_(board)) = 1 /\ Sleep_(board)[1] = "deep sleep"
    BY SleepScript
  <2>2. /\ Head(Sleep(board, 1)) = Sleep_(board)[1] /\ Tail(Sleep(board, 1)) = Sleep(board, 2)
        /\ Sleep(board, 2) = Loop(10)
    <3>1. /\ \A j \in 1 .. 1 : /\ Head(Sleep(board, j)) = Sleep_(board)[j]
                              /\ Tail(Sleep(board, j)) = Sleep(board, j + 1)
          /\ Sleep(board, 1 + 1) = Loop(10)
      BY <2>1, SleepStack
    <3>. QED
      BY <3>1
  <2>. QED
    BY <1>1, <2>1, <2>2
<1>3. UNCHANGED <<board, todo, chip>> \/ DeepSleep \/ WakeUp
  BY <1>2, StepByCall DEF StepOfDueCall, Lines, PlainLines, NumberLines
<1>4. CASE UNCHANGED <<board, todo, chip>>
  BY <1>4 DEF Asleep, SetUp, RunClock, TimerGates
<1>5. CASE DeepSleep
  <2>1. board' = board /\ todo' = todo /\ chip' = [chip EXCEPT !.power = "deep"]
    BY <1>1, <1>5 DEF DeepSleep, SetUp
  <2>. QED
    BY <1>1, <2>1 DEF Asleep, SetUp, RunClock, TimerGates
<1>6. CASE WakeUp
  <2>1. /\ board' = board /\ todo' = Loop(10)
        /\ chip' = [chip EXCEPT !.power = "on", !.timer = "idle"]
    BY <1>1, <1>2, <1>6 DEF WakeUp, SetUp
  <2>2. Ready'
    BY <1>1, <2>1 DEF Ready, SetUp, Awake, RunClock, TimerGates
  <2>. QED
    BY <2>1, <2>2 DEF InLoop
<1>. QED
  BY <1>3, <1>4, <1>5, <1>6

\* ...and on the one that lowers its voltage and gives up its clock.
LEMMA LongSleepStep ==
  ASSUME ChipTypes, Asleep, BoardNext, board = "stm32u031"
  PROVE  Asleep' \/ InLoop'
<1>. USE DEF ChipTypes
<1>1. PICK k \in 1 .. 6 :
        /\ todo = Sleep(board, k)
        /\ SetUp
        /\ chip.txpin = (IF k = 1 THEN "uart" ELSE "analog")
        /\ chip.range = (IF k \in {3, 4} THEN 2 ELSE 1)
        /\ chip.clock = (IF k \in {4, 5} THEN "reset" ELSE "run")
        /\ k <= 3 => chip.timer = "armed"
        /\ chip.power = "on" \/ (k = 3 /\ chip.power = "deep")
  BY DEF Asleep
<1>2. /\ Head(todo) = Sleep_(board)[k] /\ Tail(todo) = Sleep(board, k + 1)
      /\ Sleep(board, 7) = Loop(10)
  <2>1. Len(Sleep_(board)) = 6
    BY SleepScript
  <2>2. /\ \A j \in 1 .. 6 : /\ Head(Sleep(board, j)) = Sleep_(board)[j]
                            /\ Tail(Sleep(board, j)) = Sleep(board, j + 1)
        /\ Sleep(board, 6 + 1) = Loop(10)
    BY <2>1, SleepStack
  <2>3. Head(Sleep(board, k)) = Sleep_(board)[k] /\ Tail(Sleep(board, k)) = Sleep(board, k + 1)
    BY <2>2
  <2>4. 6 + 1 = 7
    OBVIOUS
  <2>. QED
    BY <1>1, <2>2, <2>3, <2>4
<1>3. /\ Sleep_(board)[1] = "uart_pin_isolate" /\ Sleep_(board)[2] = "range 2"
      /\ Sleep_(board)[3] = "deep sleep" /\ Sleep_(board)[4] = "range 1"
      /\ Sleep_(board)[5] = "SystemClock_Config" /\ Sleep_(board)[6] = "uart_pin_restore"
  BY SleepScript
<1>4. ASSUME UNCHANGED <<board, todo, chip>> PROVE Asleep'
  BY <1>1, <1>4 DEF Asleep, SetUp, RunClock, TimerGates
<1>5. CASE k = 1
  <2>1. UNCHANGED <<board, todo, chip>> \/ uart_pin_isolate
    BY <1>2, <1>3, <1>5, StepByCall DEF StepOfDueCall, Lines, PlainLines, NumberLines
  <2>2. ASSUME uart_pin_isolate PROVE Asleep'
    <3>1. board' = board /\ todo' = Sleep(board, 2) /\ chip' = [chip EXCEPT !.txpin = "analog"]
      BY <1>2, <1>5, <2>2 DEF uart_pin_isolate, SetPin, Call
    <3>. QED
      BY <1>1, <1>5, <3>1 DEF Asleep, SetUp, RunClock, TimerGates
  <2>. QED
    BY <1>4, <2>1, <2>2
<1>6. CASE k = 2
  <2>1. UNCHANGED <<board, todo, chip>> \/ SetRange("range 2", 2)
    BY <1>2, <1>3, <1>6, StepByCall DEF StepOfDueCall, Lines, PlainLines, NumberLines
  <2>2. ASSUME SetRange("range 2", 2) PROVE Asleep'
    <3>1. board' = board /\ todo' = Sleep(board, 3) /\ chip' = [chip EXCEPT !.range = 2]
      <4>1. "PWR" \in chip.gates /\ Tail(todo) = Sleep(board, 3)
        BY <1>1, <1>2, <1>6 DEF SetUp
      <4>. QED
        BY <2>2, <4>1 DEF SetRange, Call
    <3>. QED
      BY <1>1, <1>6, <3>1 DEF Asleep, SetUp, RunClock, TimerGates
  <2>. QED
    BY <1>4, <2>1, <2>2
<1>7. CASE k = 3
  <2>1. UNCHANGED <<board, todo, chip>> \/ DeepSleep \/ WakeUp
    BY <1>2, <1>3, <1>7, StepByCall DEF StepOfDueCall, Lines, PlainLines, NumberLines
  <2>2. CASE DeepSleep
    <3>1. board' = board /\ todo' = Sleep(board, 3) /\ chip' = [chip EXCEPT !.power = "deep"]
      BY <1>1, <1>7, <2>2 DEF DeepSleep, SetUp
    <3>. QED
      BY <1>1, <1>7, <3>1 DEF Asleep, SetUp, RunClock, TimerGates
  <2>3. CASE WakeUp
    <3>1. /\ board' = board /\ todo' = Sleep(board, 4)
          /\ chip' = [chip EXCEPT !.power = "on", !.timer = "idle", !.clock = "reset"]
      <4>1. Tail(todo) = Sleep(board, 4)
        BY <1>2, <1>7
      <4>. QED
        BY <2>3, <4>1 DEF WakeUp
    <3>. QED
      BY <1>1, <1>7, <3>1 DEF Asleep, SetUp, RunClock, TimerGates
  <2>. QED
    BY <1>4, <2>1, <2>2, <2>3
<1>8. CASE k = 4
  <2>1. UNCHANGED <<board, todo, chip>> \/ SetRange("range 1", 1)
    BY <1>2, <1>3, <1>8, StepByCall DEF StepOfDueCall, Lines, PlainLines, NumberLines
  <2>2. ASSUME SetRange("range 1", 1) PROVE Asleep'
    <3>1. board' = board /\ todo' = Sleep(board, 5) /\ chip' = [chip EXCEPT !.range = 1]
      <4>1. "PWR" \in chip.gates /\ Tail(todo) = Sleep(board, 5)
        BY <1>1, <1>2, <1>8 DEF SetUp
      <4>. QED
        BY <2>2, <4>1 DEF SetRange, Call
    <3>. QED
      BY <1>1, <1>8, <3>1 DEF Asleep, SetUp, RunClock, TimerGates
  <2>. QED
    BY <1>4, <2>1, <2>2
<1>9. CASE k = 5
  <2>1. UNCHANGED <<board, todo, chip>> \/ SystemClock_Config
    BY <1>2, <1>3, <1>9, StepByCall DEF StepOfDueCall, Lines, PlainLines, NumberLines
  <2>2. ASSUME SystemClock_Config PROVE Asleep'
    <3>1. board' = board /\ todo' = Sleep(board, 6) /\ chip' = [chip EXCEPT !.clock = "run"]
      BY <1>2, <1>9, <2>2 DEF SystemClock_Config, Call
    <3>. QED
      BY <1>1, <1>9, <3>1 DEF Asleep, SetUp, RunClock, TimerGates
  <2>. QED
    BY <1>4, <2>1, <2>2
<1>10. CASE k = 6
  <2>1. UNCHANGED <<board, todo, chip>> \/ uart_pin_restore
    BY <1>2, <1>3, <1>10, StepByCall DEF StepOfDueCall, Lines, PlainLines, NumberLines
  <2>2. ASSUME uart_pin_restore PROVE InLoop'
    <3>1. board' = board /\ todo' = Loop(10) /\ chip' = [chip EXCEPT !.txpin = "uart"]
      BY <1>2, <1>10, <2>2 DEF uart_pin_restore, SetPin, Call
    <3>2. Ready'
      BY <1>1, <1>10, <3>1 DEF Ready, SetUp, Awake, RunClock, TimerGates
    <3>. QED
      BY <3>1, <3>2 DEF InLoop
  <2>. QED
    BY <1>4, <2>1, <2>2
<1>. QED
  BY <1>5, <1>6, <1>7, <1>8, <1>9, <1>10

-----------------------------------------------------------------------------
\* A call that only ungates takes nothing back.
LEMMA UngateKeepsEffects ==
  ASSUME ChipTypes, NEW name, NEW gates \in SUBSET Gate, Ungate(name, gates)
  PROVE  /\ \A call : Effect(call) => Effect(call)'
         /\ gates \subseteq chip'.gates /\ board' = board
         /\ chip'.clock = chip.clock /\ (Awake => Awake')
<1>1. /\ board' = board /\ chip'.gates = chip.gates \cup gates
      /\ chip'.clock = chip.clock /\ chip'.txpin = chip.txpin
      /\ chip'.divisor = chip.divisor /\ chip'.power = chip.power
      /\ chip'.range = chip.range /\ chip'.i2c = chip.i2c
  BY DEF Ungate, ChipTypes
<1>2. ASSUME NEW call, Effect(call) PROVE Effect(call)'
  BY <1>1, <1>2 DEF Effect, RunClock
<1>. QED
  BY <1>1, <1>2 DEF Awake

\* The calls of a platform_init.
BootCalls == {"PWR_CLK_ENABLE", "gpio_init", "timer_init", "rtc_init", "clock_init",
              "uart_init", "platform_init: done"}
\* What is called where: no backend calls what another one needs.
LEMMA KthCall ==
  ASSUME board \in Board, NEW k \in 1 .. Len(Init_(board)), NEW c, c = Init_(board)[k]
  PROVE  /\ c \in BootCalls
         /\ c = "clock_init" <=> board = "efm32g210" /\ k = 2
         /\ c = "timer_init" => board = "lpc810"
         /\ c = "uart_init" /\ board = "efm32g210" => k = 4
         /\ c = "platform_init: done" <=> board = "stm32u031" /\ k = 5
<1>1. CASE board = "lpc810"
  <2>1. /\ Len(Init_(board)) = 3
        /\ Init_(board)[1] = "gpio_init" /\ Init_(board)[2] = "timer_init"
        /\ Init_(board)[3] = "uart_init"
    BY <1>1, InitScript
  <2>2. c \in {"gpio_init", "timer_init", "uart_init"}
    BY <2>1
  <2>. QED
    BY <1>1, <2>2 DEF BootCalls
<1>2. CASE board = "efm32g210"
  <2>1. /\ Len(Init_(board)) = 4
        /\ Init_(board)[1] = "gpio_init" /\ Init_(board)[2] = "clock_init"
        /\ Init_(board)[3] = "rtc_init" /\ Init_(board)[4] = "uart_init"
    BY <1>2, InitScript
  <2>2. \/ k = 1 /\ c = "gpio_init"
        \/ k = 2 /\ c = "clock_init"
        \/ k = 3 /\ c = "rtc_init"
        \/ k = 4 /\ c = "uart_init"
    BY <2>1
  <2>3. c \in {"gpio_init", "clock_init", "rtc_init", "uart_init"}
    BY <2>2
  <2>4. c = "clock_init" <=> k = 2
    BY <2>2
  <2>5. c = "uart_init" => k = 4
    BY <2>2
  <2>. QED
    BY <1>2, <2>3, <2>4, <2>5 DEF BootCalls
<1>3. CASE board = "stm32u031"
  <2>1. /\ Len(Init_(board)) = 5
        /\ Init_(board)[1] = "PWR_CLK_ENABLE" /\ Init_(board)[2] = "gpio_init"
        /\ Init_(board)[3] = "rtc_init" /\ Init_(board)[4] = "uart_init"
        /\ Init_(board)[5] = "platform_init: done"
    BY <1>3, InitScript
  <2>2. \/ k = 1 /\ c = "PWR_CLK_ENABLE"
        \/ k = 2 /\ c = "gpio_init"
        \/ k = 3 /\ c = "rtc_init"
        \/ k = 4 /\ c = "uart_init"
        \/ k = 5 /\ c = "platform_init: done"
    <3>1. k \in {1, 2, 3, 4, 5}
      <4>1. Len(Init_(board)) = 5
        BY <2>1
      <4>2. k \in 1 .. 5
        BY <4>1
      <4>. QED
        BY <4>2
    <3>. QED
      BY <2>1, <3>1
  <2>3. c \in {"PWR_CLK_ENABLE", "gpio_init", "rtc_init", "uart_init", "platform_init: done"}
    BY <2>2
  <2>4. c = "platform_init: done" <=> k = 5
    <3>1. CASE k = 5
      BY <2>1, <3>1
    <3>2. CASE k # 5
      BY <2>2, <3>2
    <3>. QED
      BY <3>1, <3>2
  <2>. QED
    BY <1>3, <2>3, <2>4 DEF BootCalls
<1>4. CASE board = "stm32c011"
  <2>1. /\ Len(Init_(board)) = 4
        /\ Init_(board)[1] = "PWR_CLK_ENABLE" /\ Init_(board)[2] = "gpio_init"
        /\ Init_(board)[3] = "rtc_init" /\ Init_(board)[4] = "uart_init"
    BY <1>4, InitScript
  <2>2. c \in {"PWR_CLK_ENABLE", "gpio_init", "rtc_init", "uart_init"}
    BY <2>1
  <2>. QED
    BY <1>4, <2>2 DEF BootCalls
<1>. QED
  BY <1>1, <1>2, <1>3, <1>4 DEF Board

\* The calls of platform_init in their order, each once and each with effect.
LEMMA BootCall ==
  ASSUME ChipTypes, BoardNext, NEW k \in 1 .. Len(Init_(board)), SetUpTo(k),
         NEW c, c = Init_(board)[k], Head(todo) = c
  PROVE  \/ UNCHANGED <<board, todo, chip>>
         \/ /\ todo' = (IF c = "platform_init: done" THEN Logging(Tail(todo)) ELSE Tail(todo))
            /\ board' = board /\ SetUpTo(k + 1)'
<1>. USE DEF ChipTypes
<1>0. Len(Init_(board)) \in Nat /\ k \in Nat /\ k + 1 - 1 = k
  <2>1. Init_(board) \in Seq(Calls_)
    BY InitScript
  <2>. QED
    BY <2>1, LenProperties
<1>1. ASSUME board' = board, \A i \in 1 .. k - 1 : Effect(Init_(board)[i])', Effect(c)'
      PROVE  \A i \in 1 .. k + 1 - 1 : Effect(Init_(board)[i])'
  <2>1. ASSUME NEW i \in 1 .. k PROVE Effect(Init_(board)[i])'
    <3>1. CASE i = k
      BY <1>1, <3>1
    <3>2. CASE i \in 1 .. k - 1
      BY <1>1, <3>2
    <3>. QED
      BY <1>0, <3>1, <3>2
  <2>. QED
    BY <1>0, <2>1
<1>2. ASSUME NEW gates \in SUBSET Gate, Ungate(c, gates),
             c \notin {"clock_init", "platform_init: done"},
             gates \subseteq chip'.gates => Effect(c)'
      PROVE  todo' = Tail(todo) /\ board' = board /\ SetUpTo(k + 1)'
  <2>1. /\ \A call : Effect(call) => Effect(call)'
        /\ gates \subseteq chip'.gates /\ board' = board
        /\ chip'.clock = chip.clock /\ (Awake => Awake')
    BY <1>2, UngateKeepsEffects
  <2>2. \A i \in 1 .. k + 1 - 1 : Effect(Init_(board)[i])'
    <3>1. \A i \in 1 .. k - 1 : Effect(Init_(board)[i])'
      BY <2>1 DEF SetUpTo
    <3>. QED
      BY <1>1, <1>2, <2>1, <3>1
  <2>3. ~(board = "efm32g210" /\ k = 2)
    BY <1>2, KthCall
  <2>4. chip'.clock = (IF board = "efm32g210" /\ k + 1 < 3 THEN "reset" ELSE RunClock)
    BY <1>0, <2>1, <2>3 DEF SetUpTo
  <2>5. Awake'
    BY <2>1 DEF SetUpTo
  <2>6. todo' = Tail(todo)
    BY <1>2 DEF Ungate, Call
  <2>7. RunClock' = RunClock
    BY <2>1 DEF RunClock
  <2>. QED
    BY <2>1, <2>2, <2>4, <2>5, <2>6, <2>7 DEF SetUpTo
<1>3. CASE c = "PWR_CLK_ENABLE"
  <2>1. UNCHANGED <<board, todo, chip>> \/ PwrClkEnable
    BY <1>3, StepByCall DEF StepOfDueCall, Lines, PlainLines, NumberLines
  <2>2. {"PWR"} \subseteq chip'.gates => Effect(c)'
    BY <1>3 DEF Effect
  <2>. QED
    BY <1>2, <1>3, <2>1, <2>2 DEF PwrClkEnable, Gate
<1>4. CASE c = "gpio_init"
  <2>1. UNCHANGED <<board, todo, chip>> \/ gpio_init
    BY <1>4, StepByCall DEF StepOfDueCall, Lines, PlainLines, NumberLines
  <2>2. {"GPIO"} \subseteq chip'.gates => Effect(c)'
    BY <1>4 DEF Effect
  <2>. QED
    BY <1>2, <1>4, <2>1, <2>2 DEF gpio_init, Gate
<1>5. CASE c = "timer_init"
  <2>1. UNCHANGED <<board, todo, chip>> \/ timer_init
    BY <1>5, StepByCall DEF StepOfDueCall, Lines, PlainLines, NumberLines
  <2>2. {"WKT"} \subseteq chip'.gates => Effect(c)'
    BY <1>5 DEF Effect
  <2>. QED
    BY <1>2, <1>5, <2>1, <2>2 DEF timer_init, Gate
<1>6. CASE c = "rtc_init"
  <2>1. UNCHANGED <<board, todo, chip>> \/ rtc_init
    BY <1>6, StepByCall DEF StepOfDueCall, Lines, PlainLines, NumberLines
  <2>2. CASE board = "efm32g210"
    <3>1. rtc_init => Ungate(c, {}) /\ board' = board
      BY <1>6, <2>2 DEF rtc_init, Ungate
    <3>2. board' = board => Effect(c)'
      BY <1>6, <2>2 DEF Effect
    <3>. QED
      BY <1>2, <1>6, <2>1, <3>1, <3>2
  <2>3. CASE board # "efm32g210"
    <3>1. rtc_init => Ungate(c, {"RTC"})
      BY <1>6, <2>3 DEF rtc_init
    <3>2. {"RTC"} \subseteq chip'.gates => Effect(c)'
      BY <1>6 DEF Effect
    <3>. QED
      BY <1>2, <1>6, <2>1, <3>1, <3>2 DEF Gate
  <2>. QED
    BY <2>2, <2>3
<1>7. CASE c = "clock_init"
  <2>1. UNCHANGED <<board, todo, chip>> \/ clock_init
    BY <1>7, StepByCall DEF StepOfDueCall, Lines, PlainLines, NumberLines
  <2>2. board = "efm32g210" /\ k = 2
    BY <1>7, KthCall
  <2>3. Init_(board)[1] = "gpio_init"
    BY <2>2, InitScript
  <2>4. ASSUME clock_init
        PROVE  todo' = Tail(todo) /\ board' = board /\ SetUpTo(k + 1)'
    <3>1. /\ todo' = Tail(todo) /\ board' = board
          /\ chip' = [chip EXCEPT !.clock = "run", !.gates = @ \cup {"HFLE", "RTC", "USART0"}]
      BY <2>4 DEF clock_init, Call
    <3>2. Effect("gpio_init")
      BY <2>2, <2>3 DEF SetUpTo
    <3>3. Effect("gpio_init")' /\ Effect(c)'
      BY <1>7, <3>1, <3>2 DEF Effect
    <3>4. \A i \in 1 .. k - 1 : Effect(Init_(board)[i])'
      <4>1. ASSUME NEW i \in 1 .. k - 1 PROVE Effect(Init_(board)[i])'
        <5>1. i = 1
          BY <2>2
        <5>. QED
          BY <2>3, <3>1, <3>3, <5>1
      <4>. QED
        BY <4>1
    <3>5. \A i \in 1 .. k + 1 - 1 : Effect(Init_(board)[i])'
      BY <1>1, <3>1, <3>3, <3>4
    <3>6. chip'.clock = "run" /\ RunClock' = "run" /\ ~(k + 1 < 3) /\ Awake'
      BY <2>2, <3>1 DEF SetUpTo, RunClock, Awake
    <3>. QED
      BY <3>1, <3>5, <3>6 DEF SetUpTo
  <2>. QED
    BY <1>7, <2>1, <2>4
<1>8. CASE c = "uart_init"
  <2>1. UNCHANGED <<board, todo, chip>> \/ uart_init
    BY <1>8, StepByCall DEF StepOfDueCall, Lines, PlainLines, NumberLines
  <2>2. board = "efm32g210" => k = 4
    BY <1>8, KthCall
  <2>3. chip.clock = RunClock
    BY <2>2 DEF SetUpTo
  <2>4. ASSUME uart_init
        PROVE  todo' = Tail(todo) /\ board' = board /\ SetUpTo(k + 1)'
    <3>1. /\ todo' = Tail(todo) /\ board' = board
          /\ chip'.gates = chip.gates \cup UartGates /\ chip'.divisor = chip.clock
          /\ chip'.clock = chip.clock
          /\ chip'.power = chip.power /\ chip'.range = chip.range /\ chip'.i2c = chip.i2c
      BY <2>4 DEF uart_init, UartInit, Call, UartGates
    <3>2. chip'.txpin = "uart"
      <4>1. CASE board = "lpc810"
        BY <2>4, <4>1 DEF uart_init, UartInit, UartGates, PinGate
      <4>2. CASE board = "efm32g210"
        <5>1. Init_(board)[1] = "gpio_init" /\ 1 \in 1 .. k - 1
          <6>1. Init_(board)[1] = "gpio_init"
            BY <4>2, InitScript
          <6>2. 1 \in 1 .. k - 1
            BY <2>2, <4>2
          <6>. QED
            BY <6>1, <6>2
        <5>2. "GPIO" \in chip.gates
          BY <5>1 DEF SetUpTo, Effect
        <5>. QED
          BY <2>4, <4>2, <5>2 DEF uart_init, UartInit, UartGates, PinGate
      <4>3. CASE board \in {"stm32u031", "stm32c011"}
        BY <2>4, <4>3 DEF uart_init, UartInit, UartGates, PinGate
      <4>. QED
        BY <4>1, <4>2, <4>3 DEF Board
    <3>3. "USART" \in chip'.gates
      BY <3>1 DEF UartGates
    <3>4. \A call : Effect(call) => Effect(call)'
      BY <2>3, <3>1, <3>2, <3>3 DEF Effect, RunClock
    <3>5. Effect(c)'
      BY <1>8, <2>3, <3>1, <3>2, <3>3 DEF Effect, RunClock
    <3>6. \A i \in 1 .. k - 1 : Effect(Init_(board)[i])'
      BY <3>1, <3>4 DEF SetUpTo
    <3>7. \A i \in 1 .. k + 1 - 1 : Effect(Init_(board)[i])'
      BY <1>1, <3>1, <3>5, <3>6
    <3>8. chip'.clock = (IF board = "efm32g210" /\ k + 1 < 3 THEN "reset" ELSE RunClock)
      BY <2>2, <2>3, <3>1
    <3>9. Awake'
      BY <3>1 DEF SetUpTo, Awake
    <3>. QED
      BY <3>1, <3>7, <3>8, <3>9 DEF SetUpTo, RunClock
  <2>. QED
    BY <1>8, <2>1, <2>4
<1>9. CASE c = "platform_init: done"
  <2>1. \/ UNCHANGED <<board, todo, chip>>
        \/ todo' = Logging(Tail(todo)) /\ UNCHANGED <<board, chip>>
    BY <1>9, StepByCall DEF StepOfDueCall, Lines, PlainLines, NumberLines
  <2>2. board = "stm32u031" /\ k = 5
    BY <1>9, KthCall
  <2>3. ASSUME UNCHANGED <<board, chip>> PROVE SetUpTo(k + 1)'
    <3>1. Effect(c)' /\ \A i \in 1 .. k - 1 : Effect(Init_(board)[i])'
      BY <1>9, <2>3 DEF SetUpTo, Effect, RunClock
    <3>2. \A i \in 1 .. k + 1 - 1 : Effect(Init_(board)[i])'
      BY <1>1, <2>3, <3>1
    <3>. QED
      BY <2>2, <2>3, <3>2 DEF SetUpTo, RunClock, Awake
  <2>. QED
    BY <1>9, <2>1, <2>3
<1>. QED
  BY KthCall, <1>3, <1>4, <1>5, <1>6, <1>7, <1>8, <1>9 DEF BootCalls

\* With all of platform_init behind it the board is ready.
LEMMA SetUpIsReady ==
  ASSUME ChipTypes, SetUpTo(Len(Init_(board)) + 1)
  PROVE  Ready
<1>1. Len(Init_(board)) \in Nat
  <2>1. Init_(board) \in Seq(Calls_)
    BY InitScript DEF ChipTypes
  <2>. QED
    BY <2>1, LenProperties
<1>2. \A i \in 1 .. Len(Init_(board)) : Effect(Init_(board)[i])
  BY <1>1 DEF SetUpTo
<1>3. Awake
  BY DEF SetUpTo
<1>4. CASE board = "lpc810"
  <2>1. Effect("timer_init") /\ Effect("uart_init")
    <3>1. /\ Len(Init_(board)) = 3
          /\ Init_(board)[2] = "timer_init" /\ Init_(board)[3] = "uart_init"
      BY <1>4, InitScript DEF ChipTypes
    <3>2. Effect(Init_(board)[2]) /\ Effect(Init_(board)[3])
      BY <1>2, <3>1
    <3>. QED
      BY <3>1, <3>2
  <2>. QED
    BY <1>1, <1>3, <1>4, <2>1 DEF SetUpTo, Effect, Ready, SetUp, Awake, RunClock, TimerGates
<1>5. CASE board = "efm32g210"
  <2>1. Effect("clock_init") /\ Effect("uart_init")
    <3>1. /\ Len(Init_(board)) = 4
          /\ Init_(board)[2] = "clock_init" /\ Init_(board)[4] = "uart_init"
      BY <1>5, InitScript DEF ChipTypes
    <3>2. Effect(Init_(board)[2]) /\ Effect(Init_(board)[4])
      BY <1>2, <3>1
    <3>. QED
      BY <3>1, <3>2
  <2>2. chip.clock = RunClock
    <3>1. Len(Init_(board)) = 4
      BY <1>5, InitScript DEF ChipTypes
    <3>. QED
      BY <3>1 DEF SetUpTo
  <2>. QED
    BY <1>3, <1>5, <2>1, <2>2 DEF Effect, Ready, SetUp, Awake, RunClock, TimerGates
<1>6. CASE board \in {"stm32u031", "stm32c011"}
  <2>1. Effect("PWR_CLK_ENABLE") /\ Effect("rtc_init") /\ Effect("uart_init")
    <3>1. /\ Len(Init_(board)) \in {4, 5}
          /\ Init_(board)[1] = "PWR_CLK_ENABLE"
          /\ Init_(board)[3] = "rtc_init" /\ Init_(board)[4] = "uart_init"
      <4>1. CASE board = "stm32u031"
        BY <4>1, InitScript DEF ChipTypes
      <4>2. CASE board = "stm32c011"
        BY <4>2, InitScript DEF ChipTypes
      <4>. QED
        BY <1>6, <4>1, <4>2
    <3>2. Effect(Init_(board)[1]) /\ Effect(Init_(board)[3]) /\ Effect(Init_(board)[4])
      BY <1>2, <3>1
    <3>. QED
      BY <3>1, <3>2
  <2>. QED
    BY <1>1, <1>3, <1>6, <2>1 DEF SetUpTo, Effect, Ready, SetUp, Awake, RunClock, TimerGates
<1>. QED
  BY <1>4, <1>5, <1>6 DEF ChipTypes, Board

\* Through platform_init and into the loop.
LEMMA BootStep ==
  ASSUME ChipTypes, Booting, BoardNext
  PROVE  Booting' \/ InLoop'
<1>. DEFINE n == Len(Init_(board))
<1>1. PICK k \in 1 .. n + 1 :
        /\ \/ todo = Boot(board, k)
           \/ todo = Logging(Boot(board, k)) /\ board = "stm32u031" /\ k = 6
        /\ SetUpTo(k)
  BY DEF Booting
<1>2. n \in Nat /\ board \in Board
  <2>1. Init_(board) \in Seq(Calls_)
    BY InitScript DEF ChipTypes
  <2>. QED
    BY <2>1, LenProperties DEF ChipTypes
<1>3. ASSUME UNCHANGED <<board, chip>> PROVE SetUpTo(k)'
  BY <1>1, <1>3 DEF SetUpTo, Effect, RunClock, Awake
<1>4. CASE todo = Boot(board, k) /\ k # n + 1
  <2>1. k \in 1 .. n /\ k + 1 \in 1 .. n + 1
    BY <1>2, <1>4
  <2>2. Head(todo) = Init_(board)[k] /\ Tail(todo) = Boot(board, k + 1)
    BY <1>2, <1>4, <2>1, BootStack
  <2>3. DEFINE c == Init_(board)[k]
  <2>4. \/ UNCHANGED <<board, todo, chip>>
        \/ /\ todo' = (IF c = "platform_init: done" THEN Logging(Tail(todo)) ELSE Tail(todo))
           /\ board' = board /\ SetUpTo(k + 1)'
    BY <1>1, <2>1, <2>2, BootCall
  <2>5. c = "platform_init: done" <=> board = "stm32u031" /\ k = 5
    BY <1>2, <2>1, KthCall
  <2>6. ASSUME todo' = (IF c = "platform_init: done" THEN Logging(Tail(todo)) ELSE Tail(todo)),
               board' = board, SetUpTo(k + 1)'
        PROVE  Booting'
    <3>1. \/ todo' = Boot(board, k + 1)
          \/ todo' = Logging(Boot(board, k + 1)) /\ board = "stm32u031" /\ k + 1 = 6
      <4>1. CASE k = 5 /\ board = "stm32u031"
        <5>1. c = "platform_init: done"
          BY <2>5, <4>1
        <5>2. todo' = Logging(Boot(board, k + 1))
          BY <2>2, <2>6, <5>1
        <5>. QED
          BY <4>1, <5>2
      <4>2. CASE ~(k = 5 /\ board = "stm32u031")
        BY <2>2, <2>5, <2>6, <4>2
      <4>. QED
        BY <4>1, <4>2
    <3>. QED
      BY <2>1, <2>6, <3>1 DEF Booting
  <2>7. ASSUME UNCHANGED <<board, todo, chip>> PROVE Booting'
    BY <1>1, <1>3, <2>7 DEF Booting
  <2>. QED
    BY <2>4, <2>6, <2>7
<1>5. CASE todo = Boot(board, k) /\ k = n + 1
  <2>1. Head(todo) = "init" /\ Tail(todo) = Loop(11)
    BY <1>2, <1>5, BootStack, FirstStacks
  <2>2. \/ UNCHANGED <<board, todo, chip>>
        \/ todo' = Logging(Loop(11)) /\ UNCHANGED <<board, chip>>
    BY <2>1, StepByCall DEF StepOfDueCall, Lines, PlainLines, NumberLines
  <2>3. ASSUME todo' = Logging(Loop(11)), UNCHANGED <<board, chip>> PROVE InLoop'
    <3>1. Ready
      BY <1>1, <1>5, SetUpIsReady
    <3>2. Ready'
      BY <2>3, <3>1 DEF Ready, SetUp, Awake, RunClock, TimerGates
    <3>. QED
      BY <2>3, <3>2 DEF InLoop, Returns
  <2>4. ASSUME UNCHANGED <<board, todo, chip>> PROVE Booting'
    BY <1>1, <1>3, <2>4 DEF Booting
  <2>. QED
    BY <2>2, <2>3, <2>4
<1>6. CASE todo = Logging(Boot(board, k)) /\ board = "stm32u031" /\ k = 6
  <2>1. n = 5
    BY <1>2, <1>6, InitScript
  <2>2. Boot(board, k) \in Seq(Calls_)
    <3>1. Boot(board, n + 1) = <<"init", "vault_core_step">>
      BY <1>2, BootStack
    <3>2. <<"init", "vault_core_step">> \in Seq(Calls_)
      BY DEF Calls_, PlainLines
    <3>3. k = n + 1
      <4>1. k = 6 /\ 5 + 1 = 6
        BY <1>6
      <4>. QED
        BY <2>1, <4>1
    <3>. QED
      BY <3>1, <3>2, <3>3
  <2>3. Head(todo) = "vault_log" /\ Tail(todo) = Boot(board, k)
    BY <1>6, <2>2, LoggingStack
  <2>4. \/ UNCHANGED <<board, todo, chip>>
        \/ todo' = Boot(board, k) /\ UNCHANGED <<board, chip>>
    BY <2>3, StepByCall DEF StepOfDueCall, Lines, PlainLines, NumberLines
  <2>. QED
    BY <1>1, <1>3, <2>4 DEF Booting
<1>. QED
  BY <1>1, <1>4, <1>5, <1>6

\* Before platform_init.
LEMMA StartStep ==
  ASSUME ChipTypes, Starting, BoardNext
  PROVE  Starting' \/ Booting'
<1>. DEFINE M == <<"platform_init", "init", "vault_core_step">>
<1>. USE DEF ChipTypes
<1>1. CASE todo = main /\ board = "stm32u031"
  <2>1. Head(todo) = "SystemClock_Config" /\ Tail(todo) = M
    BY <1>1, FirstStacks
  <2>2. UNCHANGED <<board, todo, chip>> \/ SystemClock_Config
    BY <2>1, StepByCall DEF StepOfDueCall, Lines, PlainLines, NumberLines
  <2>3. CASE UNCHANGED <<board, todo, chip>>
    BY <2>3 DEF Starting, Awake, main
  <2>4. CASE SystemClock_Config
    <3>1. board' = board /\ todo' = M /\ chip' = [chip EXCEPT !.clock = "run"]
      BY <2>1, <2>4 DEF SystemClock_Config, Call
    <3>. QED
      BY <1>1, <3>1 DEF Starting, Awake
  <2>. QED
    BY <2>2, <2>3, <2>4
<1>2. CASE todo = M
  <2>1. Head(todo) = "platform_init" /\ Tail(todo) = <<"init", "vault_core_step">>
    BY <1>2, FirstStacks
  <2>2. UNCHANGED <<board, todo, chip>> \/ platform_init
    BY <2>1, StepByCall DEF StepOfDueCall, Lines, PlainLines, NumberLines
  <2>3. CASE UNCHANGED <<board, todo, chip>>
    BY <2>3 DEF Starting, Awake, main
  <2>4. CASE platform_init
    <3>1. todo' = Init_(board) \o <<"init", "vault_core_step">> /\ board' = board /\ chip' = chip
      BY <2>1, <2>4 DEF platform_init, Calls, Init_
    <3>2. todo' = Boot(board', 1)
      BY <3>1, BootStack
    <3>3. 1 \in 1 .. Len(Init_(board)) + 1
      <4>1. Init_(board) \in Seq(Calls_)
        BY InitScript
      <4>. QED
        BY <4>1, LenProperties
    <3>4. SetUpTo(1)'
      BY <1>2, <3>1, FirstStacks DEF Starting, SetUpTo, RunClock, Awake
    <3>. QED
      BY <3>1, <3>2, <3>3, <3>4 DEF Booting
  <2>. QED
    BY <2>2, <2>3, <2>4
<1>. QED
  BY <1>1, <1>2, FirstStacks DEF Starting

\* The two voltage ranges differ.
LEMMA OneIsNotTwo == 1 # 2
  OBVIOUS

\* The call that is due, from the place in the calls.
LEMMA HeadInBoot ==
  ASSUME ChipTypes, NEW k \in 1 .. Len(Init_(board)) + 1,
         \/ todo = Boot(board, k)
         \/ todo = Logging(Boot(board, k)) /\ board = "stm32u031" /\ k = 6
  PROVE  /\ todo # <<>>
         /\ Head(todo) \in BootCalls \cup {"init", "vault_log"}
         /\ todo = Boot(board, k) <=> Head(todo) # "vault_log"
<1>. DEFINE n == Len(Init_(board))
<1>1. n \in Nat /\ board \in Board
  <2>1. Init_(board) \in Seq(Calls_)
    BY InitScript DEF ChipTypes
  <2>. QED
    BY <2>1, LenProperties DEF ChipTypes
<1>2. CASE todo = Boot(board, k) /\ k # n + 1
  <2>1. k \in 1 .. n
    BY <1>1, <1>2
  <2>2. todo # <<>> /\ Head(todo) = Init_(board)[k]
    BY <1>1, <1>2, <2>1, BootStack
  <2>3. Init_(board)[k] \in BootCalls
    BY <1>1, <2>1, KthCall
  <2>. QED
    BY <1>2, <2>2, <2>3 DEF BootCalls
<1>3. CASE todo = Boot(board, k) /\ k = n + 1
  <2>1. todo # <<>> /\ Head(todo) = "init"
    BY <1>1, <1>3, BootStack, FirstStacks
  <2>. QED
    BY <1>3, <2>1
<1>4. CASE todo = Logging(Boot(board, k)) /\ k = 6 /\ board = "stm32u031"
  <2>1. Boot(board, k) \in Seq(Calls_)
    <3>1. n = 5
      BY <1>1, <1>4, InitScript
    <3>2. Boot(board, n + 1) = <<"init", "vault_core_step">>
      BY <1>1, BootStack
    <3>3. <<"init", "vault_core_step">> \in Seq(Calls_)
      BY DEF Calls_, PlainLines
    <3>4. k = n + 1
      <4>1. k = 6 /\ 5 + 1 = 6
        BY <1>4
      <4>. QED
        BY <3>1, <4>1
    <3>. QED
      BY <3>2, <3>3, <3>4
  <2>2. todo # <<>> /\ Head(todo) = "vault_log" /\ Tail(todo) = Boot(board, k)
    BY <1>4, <2>1, LoggingStack
  <2>3. todo # Boot(board, k)
    <3>1. todo = <<"vault_log">> \o Boot(board, k) /\ <<"vault_log">> \in Seq(Calls_)
      BY <1>4 DEF Logging, Calls_
    <3>. QED
      BY <2>1, <3>1, ConcatEqualIffEmpty
  <2>. QED
    BY <2>2, <2>3
<1>. QED
  BY <1>2, <1>3, <1>4

\* A sleep in one step.
LEMMA HeadInShortSleep ==
  ASSUME ChipTypes, todo = Sleep(board, 1), board # "stm32u031"
  PROVE  todo # <<>> /\ Head(todo) = "deep sleep" /\ Tail(todo) = Loop(10)
<1>1. Len(Sleep_(board)) = 1 /\ Sleep_(board)[1] = "deep sleep"
  BY SleepScript DEF ChipTypes
<1>2. /\ \A j \in 1 .. 1 : /\ Sleep(board, j) # <<>>
                          /\ Head(Sleep(board, j)) = Sleep_(board)[j]
                          /\ Tail(Sleep(board, j)) = Sleep(board, j + 1)
      /\ Sleep(board, 1 + 1) = Loop(10)
  BY <1>1, SleepStack DEF ChipTypes
<1>3. /\ Sleep(board, 1) # <<>> /\ Head(Sleep(board, 1)) = Sleep_(board)[1]
      /\ Tail(Sleep(board, 1)) = Sleep(board, 1 + 1)
  BY <1>2
<1>. QED
  BY <1>1, <1>2, <1>3

\* A sleep in six.
LEMMA HeadInLongSleep ==
  ASSUME ChipTypes, NEW k \in 1 .. 6, todo = Sleep(board, k), board = "stm32u031"
  PROVE  /\ todo # <<>> /\ Tail(todo) = Sleep(board, k + 1) /\ Sleep(board, 7) = Loop(10)
         /\ Head(todo) \in {"uart_pin_isolate", "range 2", "deep sleep", "range 1",
                           "SystemClock_Config", "uart_pin_restore"}
         /\ Head(todo) = Sleep_(board)[k]
<1>1. /\ Len(Sleep_(board)) = 6
      /\ Sleep_(board)[1] = "uart_pin_isolate" /\ Sleep_(board)[2] = "range 2"
      /\ Sleep_(board)[3] = "deep sleep" /\ Sleep_(board)[4] = "range 1"
      /\ Sleep_(board)[5] = "SystemClock_Config" /\ Sleep_(board)[6] = "uart_pin_restore"
  BY SleepScript DEF ChipTypes
<1>2. /\ \A j \in 1 .. 6 : /\ Sleep(board, j) # <<>>
                          /\ Head(Sleep(board, j)) = Sleep_(board)[j]
                          /\ Tail(Sleep(board, j)) = Sleep(board, j + 1)
      /\ Sleep(board, 6 + 1) = Loop(10)
  BY <1>1, SleepStack DEF ChipTypes
<1>3. /\ todo # <<>> /\ Head(todo) = Sleep_(board)[k]
      /\ Tail(todo) = Sleep(board, k + 1)
  BY <1>2
<1>4. 6 + 1 = 7
  OBVIOUS
<1>5. Sleep_(board)[k] \in {"uart_pin_isolate", "range 2", "deep sleep", "range 1",
                           "SystemClock_Config", "uart_pin_restore"}
  <2>1. k = 1 \/ k = 2 \/ k = 3 \/ k = 4 \/ k = 5 \/ k = 6
    OBVIOUS
  <2>. QED
    BY <1>1, <2>1
<1>. QED
  BY <1>2, <1>3, <1>4, <1>5

-----------------------------------------------------------------------------
\* The chip is what the place in the calls says it is.
LEMMA ChipInvInductive == ChipInv /\ [BoardNext]_boardVars => ChipInv'
<1>1. ASSUME ChipInv, BoardNext PROVE ChipInv'
  BY <1>1, ChipTypesKept, StartStep, BootStep, LoopStep, ShortSleepStep, LongSleepStep
     DEF ChipInv
<1>2. ASSUME ChipInv, UNCHANGED boardVars PROVE ChipInv'
  <2>. USE <1>2 DEF boardVars
  <2>1. ChipTypes'
    BY DEF ChipInv, ChipTypes
  <2>2. CASE Starting
    BY <2>1, <2>2 DEF ChipInv, Starting, Awake, main
  <2>3. CASE Booting
    BY <2>1, <2>3 DEF ChipInv, Booting, SetUpTo, Effect, RunClock, Awake
  <2>4. CASE InLoop
    BY <2>1, <2>4 DEF ChipInv, InLoop, Ready, SetUp, Awake, RunClock, TimerGates
  <2>5. CASE Asleep
    BY <2>1, <2>5 DEF ChipInv, Asleep, SetUp, RunClock, TimerGates
  <2>. QED
    BY <2>2, <2>3, <2>4, <2>5 DEF ChipInv
<1>. QED
  BY <1>1, <1>2

\* Out of reset.
LEMMA ChipInvInit == BoardInit => ChipInv
<1>1. BoardInit => ChipTypes /\ Starting
  BY DEF BoardInit, Reset, ChipTypes, Gate, Starting, Awake
<1>. QED
  BY <1>1 DEF ChipInv

\* The vault sleeps as deeply as it was told to, with a timer that will wake it, and
\* whenever it waits for the main MCU its voltage, its clock and its I2C are back.
THEOREM BoardSafe == BoardSpec => []BoardAsBelieved
<1>1. ChipInv => BoardAsBelieved
  <2>. SUFFICES ASSUME ChipInv PROVE BoardAsBelieved
    OBVIOUS
  <2>1. CASE Starting
    <3>1. chip.power = "on" /\ chip.range # 2 /\ Head(todo) # "await DONE"
      <4>1. todo = main \/ todo = <<"platform_init", "init", "vault_core_step">>
        BY <2>1 DEF Starting
      <4>2. Head(todo) # "await DONE"
        BY <4>1, FirstStacks
      <4>. QED
        BY <2>1, <4>2, OneIsNotTwo DEF Starting, Awake
    <3>. QED
      BY <3>1 DEF BoardAsBelieved
  <2>2. CASE Booting
    <3>1. Head(todo) \in BootCalls \cup {"init", "vault_log"} /\ Awake
      BY <2>2, HeadInBoot DEF ChipInv, Booting, SetUpTo
    <3>2. chip.power = "on" /\ chip.range # 2 /\ Head(todo) # "await DONE"
      BY <3>1, OneIsNotTwo DEF Awake, BootCalls
    <3>. QED
      BY <3>2 DEF BoardAsBelieved
  <2>3. CASE InLoop
    <3>1. chip.power = "on" /\ chip.range = 1 /\ chip.range # 2 /\ chip.i2c = "ok"
      BY <2>3 DEF InLoop, Ready, SetUp, Awake
    <3>2. board \in {"efm32g210", "stm32u031"} => chip.clock = "run"
      BY <2>3 DEF InLoop, Ready, RunClock
    <3>. QED
      BY <3>1, <3>2 DEF BoardAsBelieved
  <2>4. CASE Asleep /\ board # "stm32u031"
    <3>1. Head(todo) = "deep sleep"
      BY <2>4, HeadInShortSleep DEF ChipInv, Asleep
    <3>2. /\ chip.range # 2 /\ chip.timer = "armed" /\ chip.power \in {"on", "deep"}
          /\ Head(todo) # "await DONE"
      BY <2>4, <3>1, OneIsNotTwo DEF Asleep
    <3>. QED
      BY <2>4, <3>2 DEF BoardAsBelieved
  <2>5. CASE Asleep /\ board = "stm32u031"
    <3>1. PICK k \in 1 .. 6 :
            /\ todo = Sleep(board, k)
            /\ chip.txpin = (IF k = 1 THEN "uart" ELSE "analog")
            /\ chip.range = (IF k \in {3, 4} THEN 2 ELSE 1)
            /\ chip.clock = (IF k \in {4, 5} THEN "reset" ELSE "run")
            /\ k <= 3 => chip.timer = "armed"
            /\ chip.power = "on" \/ (k = 3 /\ chip.power = "deep")
      BY <2>5 DEF Asleep
    <3>2. Head(todo) # "await DONE" /\ (k = 3 => Head(todo) = "deep sleep")
      <4>1. Sleep_(board)[3] = "deep sleep"
        BY <2>5, SleepScript DEF ChipInv, ChipTypes
      <4>. QED
        BY <2>5, <3>1, <4>1, HeadInLongSleep DEF ChipInv
    <3>3. chip.power # "on" =>
            chip.power = "deep" /\ chip.timer = "armed" /\ chip.range = 2 /\ chip.txpin = "analog"
      BY <3>1
    <3>4. chip.range = 2 /\ Head(todo) # "deep sleep" => chip.clock = "reset"
      <4>1. CASE k \in {1, 2, 5, 6}
        <5>1. chip.range = 1
          BY <3>1, <4>1
        <5>. QED
          BY <5>1, OneIsNotTwo
      <4>2. CASE k \in {3, 4}
        BY <3>1, <3>2, <4>2
      <4>3. k \in {1, 2, 5, 6} \/ k \in {3, 4}
        OBVIOUS
      <4>. QED
        BY <4>1, <4>2, <4>3
    <3>. QED
      BY <3>2, <3>3, <3>4 DEF BoardAsBelieved
  <2>. QED
    BY <2>1, <2>2, <2>3, <2>4, <2>5 DEF ChipInv
<1>. QED
  BY <1>1, ChipInvInit, ChipInvInductive, PTL DEF BoardSpec

-----------------------------------------------------------------------------
(* Which call follows on which. *)
StackFacts ==
  /\ todo # <<>> /\ todo \in Seq(Calls_)
  /\ Due # "vault_core_step" =>
       /\ Then # "vault_log"
       /\ Then = "platform_enter_low_power_sleep" => Due \in {"vault_log", "sleep"}
       /\ Then = "deep sleep" => board = "stm32u031"
  /\ board = "lpc810" =>
       Due \notin {"SystemClock_Config", "clock_init", "uart_pin_isolate", "uart_pin_restore"}
  /\ Due = "vault_log" => chip.txpin = "uart" /\ chip.divisor = chip.clock

\* Before platform_init.
LEMMA StartFacts == ChipTypes /\ Starting => StackFacts
<1>. SUFFICES ASSUME ChipTypes, Starting PROVE StackFacts
  OBVIOUS
<1>. DEFINE M == <<"platform_init", "init", "vault_core_step">>
<1>1. M \in Seq(Calls_) /\ M # <<>>
  BY DEF Calls_, PlainLines
<1>2. Head(M) = "platform_init" /\ Head(Tail(M)) = "init"
  BY FirstStacks
<1>3. CASE todo = M
  BY <1>1, <1>2, <1>3 DEF StackFacts, Due, Then
<1>4. CASE todo = main /\ board = "stm32u031"
  <2>1. Head(todo) = "SystemClock_Config" /\ Tail(todo) = M /\ todo # <<>>
    BY <1>4, FirstStacks
  <2>2. todo = <<"SystemClock_Config">> \o M /\ <<"SystemClock_Config">> \in Seq(Calls_)
    BY <1>4 DEF main, Calls_
  <2>3. todo \in Seq(Calls_)
    BY <1>1, <2>2, ConcatProperties
  <2>. QED
    BY <1>2, <1>4, <2>1, <2>3 DEF StackFacts, Due, Then
<1>. QED
  BY <1>3, <1>4, FirstStacks DEF Starting

\* In platform_init: the one line it logs comes after the UART is set up.
LEMMA BootFacts == ChipTypes /\ Booting => StackFacts
<1>. SUFFICES ASSUME ChipTypes, Booting PROVE StackFacts
  OBVIOUS
<1>. DEFINE n == Len(Init_(board))
<1>1. PICK k \in 1 .. n + 1 :
        /\ \/ todo = Boot(board, k)
           \/ todo = Logging(Boot(board, k)) /\ board = "stm32u031" /\ k = 6
        /\ SetUpTo(k)
  BY DEF Booting
<1>2. n \in Nat /\ board \in Board /\ Init_(board) \in Seq(Calls_)
  <2>1. Init_(board) \in Seq(Calls_)
    BY InitScript DEF ChipTypes
  <2>. QED
    BY <2>1, LenProperties DEF ChipTypes
<1>3. \A j \in 1 .. n + 1 : Boot(board, j) \in Seq(Calls_)
  <2>1. <<"init", "vault_core_step">> \in Seq(Calls_)
    BY DEF Calls_, PlainLines
  <2>. QED
    BY <1>2, <2>1, ScriptIsStack DEF Boot
<1>4. ASSUME NEW j \in 1 .. n + 1
      PROVE  Head(Boot(board, j)) \in BootCalls \cup {"init"} /\ Boot(board, j) # <<>>
  <2>1. CASE j # n + 1
    <3>1. j \in 1 .. n
      BY <1>2, <2>1
    <3>2. Head(Boot(board, j)) = Init_(board)[j] /\ Boot(board, j) # <<>>
      BY <1>2, <3>1, BootStack
    <3>. QED
      BY <1>2, <3>1, <3>2, KthCall
  <2>2. CASE j = n + 1
    BY <1>2, <2>2, BootStack, FirstStacks
  <2>. QED
    BY <2>1, <2>2
<1>5. CASE todo = Boot(board, k) /\ k # n + 1
  <2>1. k \in 1 .. n /\ k + 1 \in 1 .. n + 1
    BY <1>2, <1>5
  <2>2. Tail(todo) = Boot(board, k + 1) /\ Head(todo) = Init_(board)[k]
    BY <1>2, <1>5, <2>1, BootStack
  <2>3. Then \in BootCalls \cup {"init"}
    BY <1>4, <2>1, <2>2 DEF Then
  <2>4. Due \in BootCalls /\ (Due = "clock_init" => board = "efm32g210")
    BY <1>2, <2>1, <2>2, KthCall DEF Due
  <2>5. todo \in Seq(Calls_) /\ todo # <<>>
    BY <1>1, <1>3, <1>4, <1>5
  <2>. QED
    BY <2>3, <2>4, <2>5 DEF StackFacts, BootCalls
<1>6. CASE todo = Boot(board, k) /\ k = n + 1
  <2>1. Due = "init" /\ Tail(todo) = Loop(11)
    BY <1>2, <1>6, BootStack, FirstStacks DEF Due
  <2>2. Then = "vault_core_step"
    <3>1. Head(Loop(11)) = core_step[11]
      BY LoopStack
    <3>. QED
      BY <2>1, <3>1, CoreScript DEF Then
  <2>3. todo \in Seq(Calls_) /\ todo # <<>>
    BY <1>1, <1>3, <1>4, <1>6
  <2>. QED
    BY <2>1, <2>2, <2>3 DEF StackFacts
<1>7. CASE todo = Logging(Boot(board, k)) /\ board = "stm32u031" /\ k = 6
  <2>1. Boot(board, k) \in Seq(Calls_)
    BY <1>1, <1>3
  <2>2. todo # <<>> /\ Head(todo) = "vault_log" /\ Tail(todo) = Boot(board, k)
    BY <1>7, <2>1, LoggingStack
  <2>3. Then \in BootCalls \cup {"init"}
    BY <1>1, <1>4, <2>2 DEF Then
  <2>4. todo \in Seq(Calls_)
    <3>1. todo = <<"vault_log">> \o Boot(board, k) /\ <<"vault_log">> \in Seq(Calls_)
      BY <1>7 DEF Logging, Calls_
    <3>. QED
      BY <2>1, <3>1, ConcatProperties
  <2>5. chip.txpin = "uart" /\ chip.divisor = chip.clock
    <3>1. n = 5 /\ Init_(board)[4] = "uart_init"
      BY <1>2, <1>7, InitScript
    <3>2. 4 \in 1 .. k - 1
      BY <1>7
    <3>3. Effect("uart_init") /\ chip.clock = RunClock
      BY <1>1, <1>7, <3>1, <3>2 DEF SetUpTo
    <3>. QED
      BY <3>3 DEF Effect
  <2>. QED
    BY <1>7, <2>2, <2>3, <2>4, <2>5 DEF StackFacts, BootCalls, Due
<1>. QED
  BY <1>1, <1>5, <1>6, <1>7

\* No call of the loop is due but these, and only one is followed by the sleep.
LEMMA LoopCalls ==
  /\ \A j \in 1 .. 11 : core_step[j] \notin {"vault_log", "deep sleep", "SystemClock_Config",
                                "clock_init", "uart_pin_isolate", "uart_pin_restore"}
  /\ \A j \in 1 .. 10 : core_step[j + 1] = "platform_enter_low_power_sleep"
                         => core_step[j] = "sleep"
<1>1. ASSUME NEW j \in 1 .. 11
      PROVE  core_step[j] \in
               {"wake_main enter", "platform_i2c_slave_init", "await DONE", "context_valid=",
                "bus_isolation done", "arm_sleep interval_sec=", "platform_wakeup_timer_arm",
                "sleep", "platform_enter_low_power_sleep", "wake", "vault_core_step"}
  <2>1. \/ j = 1 \/ j = 2 \/ j = 3 \/ j = 4 \/ j = 5 \/ j = 6
        \/ j = 7 \/ j = 8 \/ j = 9 \/ j = 10 \/ j = 11
    OBVIOUS
  <2>. QED
    BY <2>1, CoreScript
<1>2. ASSUME NEW j \in 1 .. 10, j # 8 PROVE core_step[j + 1] # "platform_enter_low_power_sleep"
  <2>1. \/ j + 1 = 2 \/ j + 1 = 3 \/ j + 1 = 4 \/ j + 1 = 5 \/ j + 1 = 6
        \/ j + 1 = 7 \/ j + 1 = 8 \/ j + 1 = 10 \/ j + 1 = 11
    BY <1>2
  <2>2. core_step[j + 1] \in
          {"platform_i2c_slave_init", "await DONE", "context_valid=", "bus_isolation done",
           "arm_sleep interval_sec=", "platform_wakeup_timer_arm", "sleep", "wake",
           "vault_core_step"}
    BY <2>1, CoreScript
  <2>. QED
    BY <2>2
<1>3. core_step[8] = "sleep"
  BY CoreScript
<1>4. \A j \in 1 .. 11 : core_step[j] \notin {"vault_log", "deep sleep", "SystemClock_Config",
                                "clock_init", "uart_pin_isolate", "uart_pin_restore"}
  BY <1>1
<1>. QED
  BY <1>2, <1>3, <1>4

\* The loop: a line of the log returns to the call after it.
LEMMA LoopFacts == ChipTypes /\ InLoop => StackFacts
<1>. SUFFICES ASSUME ChipTypes, InLoop PROVE StackFacts
  OBVIOUS
<1>1. PICK k \in 1 .. 11 : /\ todo = Loop(k) \/ (todo = Logging(Loop(k)) /\ k \in Returns)
                          /\ Ready
  BY DEF InLoop
<1>2. \A j \in 1 .. 12 : Loop(j) \in Seq(Calls_)
  BY LoopStack
<1>3. \A j \in 1 .. 11 : Loop(j) # <<>> /\ Head(Loop(j)) = core_step[j] /\ Tail(Loop(j)) = Loop(j + 1)
  BY LoopStack
<1>4. /\ \A j \in 1 .. 11 : core_step[j] \notin {"vault_log", "deep sleep", "SystemClock_Config",
                                   "clock_init", "uart_pin_isolate", "uart_pin_restore"}
      /\ \A j \in 1 .. 10 : core_step[j + 1] = "platform_enter_low_power_sleep"
                            => core_step[j] = "sleep"
  BY LoopCalls
<1>5. CASE todo = Loop(k) /\ k # 11
  <2>1. k \in 1 .. 10 /\ k \in 1 .. 12 /\ k + 1 \in 1 .. 11
    BY <1>5
  <2>2. Due = core_step[k] /\ Then = core_step[k + 1] /\ todo # <<>> /\ todo \in Seq(Calls_)
    BY <1>2, <1>3, <1>5, <2>1 DEF Due, Then
  <2>. QED
    BY <1>4, <2>1, <2>2 DEF StackFacts
<1>6. CASE todo = Loop(k) /\ k = 11
  <2>1. Head(Loop(11)) = core_step[11] /\ Loop(11) # <<>>
    BY <1>3
  <2>2. 11 \in 1 .. 12
    OBVIOUS
  <2>3. todo \in Seq(Calls_)
    BY <1>2, <1>6, <2>2
  <2>4. Due = "vault_core_step" /\ todo # <<>>
    BY <1>6, <2>1, CoreScript DEF Due
  <2>. QED
    BY <2>3, <2>4 DEF StackFacts
<1>7. CASE todo = Logging(Loop(k))
  <2>1. Loop(k) \in Seq(Calls_)
    <3>1. k \in 1 .. 12
      OBVIOUS
    <3>. QED
      BY ONLY <1>2, <3>1
  <2>2. todo # <<>> /\ Head(todo) = "vault_log" /\ Tail(todo) = Loop(k)
    BY <1>7, <2>1, LoggingStack
  <2>3. todo \in Seq(Calls_)
    <3>1. todo = <<"vault_log">> \o Loop(k) /\ <<"vault_log">> \in Seq(Calls_)
      BY <1>7 DEF Logging, Calls_
    <3>. QED
      BY <2>1, <3>1, ConcatProperties
  <2>4. Due = "vault_log" /\ Then = core_step[k]
    BY <1>3, <2>2 DEF Due, Then
  <2>5. chip.txpin = "uart" /\ chip.divisor = chip.clock
    BY <1>1 DEF Ready, SetUp
  <2>6. Then \notin {"vault_log", "deep sleep"}
    BY <1>4, <2>4
  <2>. QED
    BY <2>2, <2>3, <2>4, <2>5, <2>6 DEF StackFacts
<1>. QED
  BY <1>1, <1>5, <1>6, <1>7

\* Asleep, or on the way in or out.
LEMMA SleepFacts == ChipTypes /\ Asleep => StackFacts
<1>. SUFFICES ASSUME ChipTypes, Asleep PROVE StackFacts
  OBVIOUS
<1>1. Loop(10) \in Seq(Calls_) /\ Head(Loop(10)) = "wake"
  <2>1. Loop(10) \in Seq(Calls_)
    BY LoopStack
  <2>2. Head(Loop(10)) = core_step[10]
    BY LoopStack
  <2>. QED
    BY <2>1, <2>2, CoreScript
<1>2. Sleep_(board) \in Seq(Calls_)
  BY SleepScript DEF ChipTypes
<1>3. CASE board # "stm32u031"
  <2>1. todo = Sleep(board, 1)
    BY <1>3 DEF Asleep
  <2>2. todo # <<>> /\ Head(todo) = "deep sleep" /\ Tail(todo) = Loop(10)
    BY <1>3, <2>1, HeadInShortSleep
  <2>3. todo \in Seq(Calls_)
    <3>1. todo = Sleep_(board) \o Loop(10)
      BY <2>1, SleepStack DEF ChipTypes
    <3>. QED
      BY <1>1, <1>2, <3>1, ConcatProperties
  <2>. QED
    BY <1>1, <2>2, <2>3 DEF StackFacts, Due, Then
<1>4. CASE board = "stm32u031"
  <2>1. PICK k \in 1 .. 6 : todo = Sleep(board, k)
    BY <1>4 DEF Asleep
  <2>2. /\ todo # <<>> /\ Tail(todo) = Sleep(board, k + 1) /\ Sleep(board, 7) = Loop(10)
        /\ Due \in {"uart_pin_isolate", "range 2", "deep sleep", "range 1",
                    "SystemClock_Config", "uart_pin_restore"}
    BY <1>4, <2>1, HeadInLongSleep DEF Due
  <2>3. todo \in Seq(Calls_)
    <3>1. Len(Sleep_(board)) = 6
      BY <1>4, SleepScript DEF ChipTypes
    <3>2. k \in 1 .. Len(Sleep_(board)) + 1
      BY <3>1
    <3>. QED
      BY <1>1, <1>2, <2>1, <3>2, ScriptIsStack DEF Sleep
  <2>4. Then \in {"uart_pin_isolate", "range 2", "deep sleep", "range 1",
                  "SystemClock_Config", "uart_pin_restore", "wake"}
    <3>1. CASE k = 6
      <4>1. k + 1 = 7
        BY <3>1
      <4>. QED
        BY <1>1, <2>2, <4>1 DEF Then
    <3>2. CASE k # 6
      <4>1. k + 1 \in 1 .. 6
        BY <3>2
      <4>2. /\ Len(Sleep_(board)) = 6
            /\ Sleep_(board)[1] = "uart_pin_isolate" /\ Sleep_(board)[2] = "range 2"
            /\ Sleep_(board)[3] = "deep sleep" /\ Sleep_(board)[4] = "range 1"
            /\ Sleep_(board)[5] = "SystemClock_Config" /\ Sleep_(board)[6] = "uart_pin_restore"
        BY <1>4, SleepScript DEF ChipTypes
      <4>3. \A j \in 1 .. 6 : Head(Sleep(board, j)) = Sleep_(board)[j]
        BY <4>2, SleepStack DEF ChipTypes
      <4>4. Then = Sleep_(board)[k + 1]
        BY <2>2, <4>1, <4>3 DEF Then
      <4>5. \/ k + 1 = 1 \/ k + 1 = 2 \/ k + 1 = 3 \/ k + 1 = 4 \/ k + 1 = 5 \/ k + 1 = 6
        BY <4>1
      <4>. QED
        BY <4>2, <4>4, <4>5
    <3>. QED
      BY <3>1, <3>2
  <2>. QED
    BY <1>4, <2>2, <2>3, <2>4 DEF StackFacts
<1>. QED
  BY <1>3, <1>4

\* Wherever the board is in its calls, this is what follows on what.
LEMMA FactsOfStack == ChipInv => StackFacts
  BY StartFacts, BootFacts, LoopFacts, SleepFacts DEF ChipInv

-----------------------------------------------------------------------------
(* Characters and lines. *)
Digit == DigitZero .. (DigitZero + Radix - 1)

\* What vault_log_u32 hands out for a number that is logged is its numeral.
DigitsSound ==
  \A line \in NumberLines : \A value \in Logged(line) :
    Digits(value) = Numeral(value) /\ Digits(value) \in Seq(Digit)

\* No character is NoChar.
LEMMA NoCharIsNone == NoChar \notin Char
<1>1. NoChar.of = "none"
  BY DEF NoChar
<1>2. \A c \in Char : c.of \in PlainLines \cup NumberLines
  BY DEF Char
<1>3. "none" \notin PlainLines \cup NumberLines
  BY DEF PlainLines, NumberLines
<1>. QED
  BY <1>1, <1>2, <1>3

\* A line of the log is text.
LEMMA LineIsText ==
  ASSUME NEW line \in PlainLines \cup NumberLines, NEW digits \in Seq(Digit)
  PROVE  Line(line, digits) \in Seq(Char)
<1>. DEFINE Code == {LABEL, LF, CR} \cup Digit
            codes == <<LABEL>> \o digits \o LineEnd
<1>1. <<LABEL>> \in Seq(Code) /\ digits \in Seq(Code) /\ LineEnd \in Seq(Code)
  <2>1. <<LABEL>> \in Seq(Code) /\ LineEnd \in Seq(Code)
    <3>1. LABEL \in Code /\ CR \in Code /\ LF \in Code
      OBVIOUS
    <3>. HIDE DEF Code
    <3>2. <<LABEL>> \in Seq(Code) /\ <<CR, LF>> \in Seq(Code) /\ <<LF>> \in Seq(Code)
      BY <3>1
    <3>. QED
      BY <3>2 DEF LineEnd
  <2>2. digits \in Seq(Code)
    <3>1. Len(digits) \in Nat /\ \A i \in 1 .. Len(digits) : digits[i] \in Code
      BY LenProperties, ElementOfSeq
    <3>2. digits = [i \in 1 .. Len(digits) |-> digits[i]]
      BY LenProperties
    <3>. HIDE DEF Code
    <3>. QED
      BY <3>1, <3>2, SeqDef
  <2>. QED
    BY <2>1, <2>2
<1>2. codes \in Seq(Code)
  <2>. HIDE DEF Code
  <2>1. <<LABEL>> \o digits \in Seq(Code)
    BY <1>1, ConcatProperties
  <2>. QED
    BY <1>1, <2>1, ConcatProperties
<1>. HIDE DEF codes
<1>3. Len(codes) \in Nat /\ DOMAIN codes = 1 .. Len(codes)
      /\ \A i \in 1 .. Len(codes) : codes[i] \in Code
  <2>. HIDE DEF Code
  <2>. QED
    BY <1>2, LenProperties, ElementOfSeq
<1>. DEFINE l == [i \in 1 .. Len(codes) |-> [of |-> line, at |-> i, code |-> codes[i]]]
<1>4. Line(line, digits) = l
  BY <1>3 DEF Line, codes
<1>5. \A i \in 1 .. Len(codes) : [of |-> line, at |-> i, code |-> codes[i]] \in Char
  BY <1>3 DEF Char, Digit
<1>6. l \in [1 .. Len(codes) -> Char]
  BY <1>5
<1>. QED
  BY <1>3, <1>4, <1>6, SeqDef

\* The line before the sleep, on the LPC810.
LEMMA LastLineText ==
  ASSUME board = "lpc810"
  PROVE  /\ LastLine \in Seq(Char) /\ Len(LastLine) = 3
         /\ LastLine[2].of = "sleep" /\ LastLine[2].code = CR
         /\ LastLine[3].of = "sleep" /\ LastLine[3].code = LF
<1>. DEFINE codes == <<LABEL>> \o <<>> \o LineEnd
<1>1. LastLine \in Seq(Char)
  <2>1. "sleep" \in PlainLines \cup NumberLines /\ <<>> \in Seq(Digit)
    BY DEF PlainLines
  <2>. QED
    BY <2>1, LineIsText DEF LastLine
<1>2. LineEnd = <<CR, LF>>
  BY DEF LineEnd
<1>3. codes = <<LABEL>> \o <<CR, LF>>
  <2>1. <<LABEL>> \in Seq({LABEL})
    OBVIOUS
  <2>. QED
    BY <1>2, <2>1, ConcatEmptySeq
<1>4. Len(codes) = 3 /\ codes[2] = CR /\ codes[3] = LF /\ DOMAIN codes = 1 .. 3
  <2>1. <<LABEL>> \in Seq(Int) /\ <<CR, LF>> \in Seq(Int)
    BY DEF LABEL, CR, LF
  <2>2. Len(<<LABEL>>) = 1 /\ Len(<<CR, LF>>) = 2 /\ <<CR, LF>>[1] = CR /\ <<CR, LF>>[2] = LF
    OBVIOUS
  <2>. HIDE DEF codes
  <2>0. /\ codes \in Seq(Int) /\ Len(codes) = Len(<<LABEL>>) + Len(<<CR, LF>>)
        /\ \A i \in 1 .. Len(<<LABEL>>) + Len(<<CR, LF>>) :
             codes[i] = IF i <= Len(<<LABEL>>) THEN <<LABEL>>[i]
                                              ELSE <<CR, LF>>[i - Len(<<LABEL>>)]
    BY <1>3, <2>1, ConcatProperties
  <2>3. /\ Len(codes) = 3 /\ codes \in Seq(Int)
        /\ \A i \in 1 .. 3 : codes[i] = IF i <= 1 THEN <<LABEL>>[i] ELSE <<CR, LF>>[i - 1]
    <3>1. 1 + 2 = 3
      OBVIOUS
    <3>. QED
      BY <2>0, <2>2, <3>1
  <2>4. codes[2] = <<CR, LF>>[1] /\ codes[3] = <<CR, LF>>[2]
    <3>1. 2 \in 1 .. 3 /\ 3 \in 1 .. 3 /\ 2 - 1 = 1 /\ 3 - 1 = 2 /\ ~(2 <= 1) /\ ~(3 <= 1)
      OBVIOUS
    <3>. QED
      BY <2>3, <3>1
  <2>5. DOMAIN codes = 1 .. 3
    BY <2>3, LenProperties
  <2>. QED
    BY <2>2, <2>3, <2>4, <2>5
<1>5. LastLine = [i \in 1 .. 3 |-> [of |-> "sleep", at |-> i, code |-> codes[i]]]
  BY <1>4 DEF LastLine, Line
<1>. HIDE DEF codes
<1>6. /\ LastLine[2] = [of |-> "sleep", at |-> 2, code |-> codes[2]]
      /\ LastLine[3] = [of |-> "sleep", at |-> 3, code |-> codes[3]]
  BY <1>5
<1>7. Len(LastLine) = 3
  BY <1>5
<1>. QED
  BY <1>1, <1>4, <1>6, <1>7

\* What is left of it once its first characters are with the UART.
LEMMA RestOfLastLine ==
  ASSUME board = "lpc810"
  PROVE  /\ Rest(LastLine, 1) = LastLine
         /\ Rest(LastLine, 4) = <<>>
         /\ \A j \in 1 .. 3 : /\ Rest(LastLine, j) # <<>>
                              /\ Head(Rest(LastLine, j)) = LastLine[j]
                              /\ Tail(Rest(LastLine, j)) = Rest(LastLine, j + 1)
<1>1. LastLine \in Seq(Char) /\ Len(LastLine) = 3
  BY LastLineText
<1>2. ASSUME NEW j \in 1 .. 3
      PROVE  /\ Rest(LastLine, j) # <<>> /\ Head(Rest(LastLine, j)) = LastLine[j]
             /\ Tail(Rest(LastLine, j)) = Rest(LastLine, j + 1)
  <2>1. Rest(LastLine, j) = <<LastLine[j]>> \o Rest(LastLine, j + 1)
    BY <1>1, SubSeqRecursiveFirst DEF Rest
  <2>2. LastLine[j] \in Char /\ Rest(LastLine, j + 1) \in Seq(Char)
    <3>1. \A i \in 1 .. 3 : LastLine[i] \in Char
      BY <1>1, ElementOfSeq
    <3>2. j + 1 \in Int /\ 3 \in Int /\ \A i \in j + 1 .. 3 : LastLine[i] \in Char
      BY <3>1
    <3>3. SubSeq(LastLine, j + 1, 3) \in Seq(Char)
      BY <3>2, SubSeqProperties
    <3>. QED
      BY <1>1, <3>1, <3>3 DEF Rest
  <2>. QED
    BY <2>1, <2>2, InFront
<1>3. Rest(LastLine, 1) = LastLine
  BY <1>1, SubSeqFull DEF Rest
<1>4. Rest(LastLine, 4) = <<>>
  BY <1>1, SubSeqEmpty DEF Rest
<1>. QED
  BY <1>2, <1>3, <1>4

-----------------------------------------------------------------------------
(* The log, step by step. *)
Behind == (IF txdat = NoChar THEN <<>> ELSE <<txdat>>) \o text

\* What leaves next is what is owed next.
LEMMA FrontOfTransit ==
  ASSUME LogInv, shift # NoChar
  PROVE  /\ shift \in Char /\ Behind \in Seq(Char)
         /\ owed = <<shift>> \o Behind
         /\ owed # <<>> /\ Head(owed) = shift /\ Tail(owed) = Behind
<1>. DEFINE B == IF txdat = NoChar THEN <<>> ELSE <<txdat>>
<1>1. shift \in Char /\ text \in Seq(Char) /\ B \in Seq(Char)
  BY DEF LogInv, LogTypes
<1>2. <<shift>> \in Seq(Char)
  BY <1>1
<1>3. owed = (<<shift>> \o B) \o text
  BY DEF LogInv, InTransit
<1>4. B \o text \in Seq(Char)
  BY <1>1, ConcatProperties
<1>. HIDE DEF B
<1>5. owed = <<shift>> \o (B \o text)
  BY <1>1, <1>2, <1>3, ConcatAssociative
<1>6. /\ <<shift>> \o (B \o text) # <<>> /\ Head(<<shift>> \o (B \o text)) = shift
      /\ Tail(<<shift>> \o (B \o text)) = B \o text
  BY <1>1, <1>4, InFront
<1>. QED
  BY <1>1, <1>4, <1>5, <1>6 DEF B, Behind

\* The last line is where it was when nothing of the UART has moved.
LEMMA SameLine ==
  ASSUME board' = board
  PROVE  LastLine' = LastLine /\ (UNCHANGED <<text, txdat, shift>> => LastLineInTransit' = LastLineInTransit)
  BY DEF LastLineInTransit, LastLine, Line, LineEnd, Rest

\* No step at all.
LEMMA UnmovedLog ==
  ASSUME LogInv, UNCHANGED boardVars
  PROVE  LogInv'
<1>1. /\ board' = board /\ todo' = todo /\ chip' = chip /\ text' = text /\ txdat' = txdat
      /\ shift' = shift /\ cut' = cut /\ owed' = owed
  BY DEF boardVars
<1>2. LogTypes' /\ InTransit' = InTransit /\ Due' = Due /\ (FallingAsleep' <=> FallingAsleep)
  BY <1>1 DEF LogInv, LogTypes, InTransit, Due, Then, FallingAsleep
<1>3. LastLineInTransit' = LastLineInTransit
  BY <1>1, SameLine
<1>. QED
  BY <1>1, <1>2, <1>3 DEF LogInv

\* A step that leaves the log alone while no line is being handed over.
LEMMA QuietStep ==
  ASSUME LogInv, UNCHANGED <<board, uart>>, Due # "vault_log",
         board = "lpc810" /\ FallingAsleep' => FallingAsleep,
         shift # NoChar => chip'.txpin = "uart" /\ chip'.divisor = chip'.clock
  PROVE  LogInv'
<1>1. /\ board' = board /\ text' = text /\ txdat' = txdat /\ shift' = shift
      /\ cut' = cut /\ owed' = owed
  BY DEF uart
<1>2. LogTypes' /\ InTransit' = InTransit
  BY <1>1 DEF LogInv, LogTypes, InTransit
<1>3. LastLineInTransit' = LastLineInTransit
  BY <1>1, SameLine
<1>4. text = <<>> /\ (board # "lpc810" => shift = NoChar)
  BY DEF LogInv
<1>5. board' = "lpc810" /\ FallingAsleep' => LastLineInTransit'
  BY <1>1, <1>3 DEF LogInv
<1>6. cut' => board' = "lpc810" /\ shift'.of = "sleep" /\ shift'.code \in {CR, LF}
  BY <1>1 DEF LogInv
<1>7. owed' = InTransit' /\ (txdat' # NoChar => shift' # NoChar)
  BY <1>1, <1>2 DEF LogInv
<1>8. shift' # NoChar => chip'.txpin = "uart" /\ chip'.divisor = chip'.clock
  BY <1>1
<1>9. text' = <<>> /\ (board' # "lpc810" => shift' = NoChar)
  BY <1>1, <1>4
<1>. QED
  BY <1>2, <1>5, <1>6, <1>7, <1>8, <1>9 DEF LogInv

\* A call that returns to one that does not go to sleep.
LEMMA PopStep ==
  ASSUME LogInv, StackFacts, UNCHANGED <<board, uart>>, todo' = Tail(todo),
         Due \notin {"vault_log", "sleep", "vault_core_step"},
         shift # NoChar => chip'.txpin = "uart" /\ chip'.divisor = chip'.clock
  PROVE  LogInv'
<1>1. Due' = Then
  BY DEF Due, Then
<1>2. ~(board = "lpc810" /\ FallingAsleep')
  BY <1>1 DEF StackFacts, FallingAsleep
<1>. QED
  BY <1>2, QuietStep

\* A line is put together: all of it is owed, none of it has left.
LEMMA LineStep ==
  ASSUME LogInv, StackFacts, NEW line \in PlainLines \cup NumberLines,
         NEW digits \in Seq(Digit), Log(line, digits, digits), line = "sleep" => digits = <<>>
  PROVE  LogInv'
<1>1. /\ Due = line /\ todo' = <<"vault_log">> \o Tail(todo)
      /\ text' = Line(line, digits) /\ owed' = owed \o Line(line, digits)
      /\ board' = board /\ chip' = chip /\ txdat' = txdat /\ shift' = shift /\ cut' = cut
  BY DEF Log, Calls, Due
<1>2. Due # "vault_log" /\ Due # "vault_core_step"
  BY <1>1 DEF PlainLines, NumberLines
<1>3. text = <<>> /\ (board # "lpc810" => shift = NoChar)
  BY <1>2 DEF LogInv
<1>4. text' \in Seq(Char)
  BY <1>1, LineIsText
<1>5. owed' = InTransit' /\ owed' \in Seq(Char)
  <2>. DEFINE P == (IF shift = NoChar THEN <<>> ELSE <<shift>>)
                    \o (IF txdat = NoChar THEN <<>> ELSE <<txdat>>)
  <2>1. P \in Seq(Char)
    <3>1. (IF shift = NoChar THEN <<>> ELSE <<shift>>) \in Seq(Char)
      BY DEF LogInv, LogTypes
    <3>2. (IF txdat = NoChar THEN <<>> ELSE <<txdat>>) \in Seq(Char)
      BY DEF LogInv, LogTypes
    <3>. QED
      BY <3>1, <3>2, ConcatProperties
  <2>2. owed = P \o <<>> /\ InTransit' = P \o text'
    BY <1>1, <1>3 DEF LogInv, InTransit
  <2>. HIDE DEF P
  <2>3. owed = P
    BY <2>1, <2>2, ConcatEmptySeq
  <2>4. P \o text' \in Seq(Char)
    BY <1>4, <2>1, ConcatProperties
  <2>. QED
    BY <1>1, <2>2, <2>3, <2>4
<1>6. todo' # <<>> /\ Due' = "vault_log" /\ Then' = Then
  <2>1. Tail(todo) \in Seq(Calls_) /\ "vault_log" \in Calls_
    BY HeadTailProperties DEF StackFacts, Calls_
  <2>2. /\ <<"vault_log">> \o Tail(todo) # <<>>
        /\ Head(<<"vault_log">> \o Tail(todo)) = "vault_log"
        /\ Tail(<<"vault_log">> \o Tail(todo)) = Tail(todo)
    BY <2>1, InFront
  <2>. QED
    BY <1>1, <2>2 DEF Due, Then
<1>7. board' = "lpc810" /\ FallingAsleep' => LastLineInTransit'
  <2>. SUFFICES ASSUME board = "lpc810", FallingAsleep' PROVE LastLineInTransit'
    BY <1>1
  <2>1. Then = "platform_enter_low_power_sleep"
    BY <1>6 DEF FallingAsleep
  <2>2. line = "sleep"
    BY <1>1, <1>2, <2>1 DEF StackFacts
  <2>3. text' = LastLine /\ LastLine' = LastLine
    BY <1>1, <2>2, SameLine DEF LastLine
  <2>4. LastLine = Rest(LastLine, 1)
    BY RestOfLastLine
  <2>5. text' = Rest(LastLine', 1) /\ 1 \in 1 .. 4 /\ ~(1 > 1)
    BY <2>3, <2>4
  <2>. QED
    BY <2>5 DEF LastLineInTransit, Rest
<1>8. LogTypes'
  BY <1>1, <1>4, <1>5 DEF LogInv, LogTypes
<1>9. cut' => board' = "lpc810" /\ shift'.of = "sleep" /\ shift'.code \in {CR, LF}
  BY <1>1 DEF LogInv
<1>10. shift' # NoChar => chip'.txpin = "uart" /\ chip'.divisor = chip'.clock
  BY <1>1 DEF LogInv
<1>11. txdat' # NoChar => shift' # NoChar
  BY <1>1 DEF LogInv
<1>. QED
  BY <1>5, <1>6, <1>7, <1>8, <1>9, <1>10, <1>11 DEF LogInv

\* The last line gives up its next character.
LEMMA LastLineShortens ==
  ASSUME board = "lpc810", LastLineInTransit, text # <<>>, txdat = NoChar
  PROVE  \E j \in 1 .. 3 : /\ Tail(text) = Rest(LastLine, j + 1) /\ Head(text) = LastLine[j]
                           /\ j > 1 => shift \in {NoChar, LastLine[j - 1]}
<1>1. PICK j \in 1 .. 4 :
        /\ text = Rest(LastLine, j)
        /\ j > 1 => IF txdat = NoChar THEN shift \in {NoChar, LastLine[j - 1]}
                    ELSE txdat = LastLine[j - 1] /\ (j > 2 => shift = LastLine[j - 2])
  BY DEF LastLineInTransit
<1>2. j \in 1 .. 3
  <2>1. j = 4 => text = <<>>
    BY <1>1, RestOfLastLine
  <2>. QED
    BY <2>1
<1>3. Head(text) = LastLine[j] /\ Tail(text) = Rest(LastLine, j + 1)
  BY <1>1, <1>2, RestOfLastLine
<1>4. j > 1 => shift \in {NoChar, LastLine[j - 1]}
  BY <1>1
<1>. QED
  BY <1>2, <1>3, <1>4

\* A character goes from the line to the UART: it is in transit as before.
LEMMA PutcStep ==
  ASSUME LogInv, StackFacts, Putc
  PROVE  LogInv'
<1>1. /\ Due = "vault_log" /\ text # <<>> /\ txdat = NoChar /\ text' = Tail(text)
      /\ board' = board /\ todo' = todo /\ chip' = chip /\ cut' = cut /\ owed' = owed
      /\ IF shift = NoChar THEN shift' = Head(text) /\ txdat' = txdat
                           ELSE txdat' = Head(text) /\ shift' = shift
  BY DEF Putc, Due
<1>. DEFINE c == Head(text)
<1>2. text \in Seq(Char) /\ c \in Char /\ Tail(text) \in Seq(Char)
      /\ text = <<c>> \o Tail(text)
  <2>1. text \in Seq(Char)
    BY DEF LogInv, LogTypes
  <2>2. c \in Char /\ Tail(text) \in Seq(Char)
    BY <1>1, <2>1, HeadTailProperties
  <2>3. text = <<c>> \o Tail(text)
    <3>1. Len(text) \in Nat /\ Len(text) # 0 /\ 1 \in 1 .. Len(text) /\ Len(text) \in 1 .. Len(text)
      BY <1>1, <2>1, LenProperties, EmptySeq
    <3>2. SubSeq(text, 1, Len(text)) = <<text[1]>> \o SubSeq(text, 1 + 1, Len(text))
      BY <2>1, <3>1, SubSeqRecursiveFirst
    <3>3. SubSeq(text, 1, Len(text)) = text /\ Tail(text) = SubSeq(text, 2, Len(text)) /\ 1 + 1 = 2
      BY <1>1, <2>1, SubSeqFull, TailIsSubSeq
    <3>. QED
      BY <3>2, <3>3
  <2>. QED
    BY <2>1, <2>2, <2>3
<1>3. c # NoChar
  BY <1>2, NoCharIsNone
<1>. HIDE DEF c
<1>4. Due' = Due /\ (FallingAsleep' <=> FallingAsleep)
  BY <1>1 DEF Due, Then, FallingAsleep
<1>5. CASE shift = NoChar
  <2>1. shift' = c /\ txdat' = NoChar
    BY <1>1, <1>5 DEF c
  <2>2. owed = text
    <3>1. owed = (<<>> \o <<>>) \o text
      BY <1>1, <1>5 DEF LogInv, InTransit
    <3>2. <<>> \o <<>> = <<>> /\ <<>> \o text = text
      BY <1>2, ConcatEmptySeq
    <3>. QED
      BY <3>1, <3>2
  <2>3. InTransit' = (<<c>> \o <<>>) \o Tail(text)
    BY <1>1, <1>3, <2>1 DEF InTransit
  <2>4. <<c>> \o <<>> = <<c>>
    BY <1>2, ConcatEmptySeq
  <2>5. owed' = InTransit'
    BY <1>1, <1>2, <2>2, <2>3, <2>4
  <2>6. board' = "lpc810" /\ FallingAsleep' => LastLineInTransit'
    <3>. SUFFICES ASSUME board = "lpc810", FallingAsleep PROVE LastLineInTransit'
      BY <1>1, <1>4
    <3>1. PICK j \in 1 .. 3 : /\ text' = Rest(LastLine, j + 1) /\ c = LastLine[j]
      BY <1>1, LastLineShortens DEF LogInv, c
    <3>2. j + 1 \in 1 .. 4 /\ j + 1 > 1 /\ j + 1 - 1 = j
      OBVIOUS
    <3>3. LastLine' = LastLine
      BY <1>1, SameLine
    <3>4. shift' \in {NoChar, LastLine[j + 1 - 1]}
      BY <2>1, <3>1, <3>2
    <3>5. /\ text' = Rest(LastLine', j + 1)
          /\ txdat' = NoChar /\ shift' \in {NoChar, LastLine'[j + 1 - 1]}
      BY <2>1, <3>1, <3>3, <3>4
    <3>. QED
      BY <3>2, <3>5 DEF LastLineInTransit, Rest
  <2>7. ~cut
    BY <1>5 DEF LogInv, NoChar
  <2>8. LogTypes'
    BY <1>1, <1>2, <2>1 DEF LogInv, LogTypes
  <2>9. shift' # NoChar => chip'.txpin = "uart" /\ chip'.divisor = chip'.clock
    BY <1>1 DEF StackFacts
  <2>10. cut' => board' = "lpc810" /\ shift'.of = "sleep" /\ shift'.code \in {CR, LF}
    BY <1>1, <2>1, <2>7 DEF LogInv
  <2>11. txdat' # NoChar => shift' # NoChar
    BY <1>3, <1>5, <2>1
  <2>. QED
    BY <1>1, <1>4, <2>5, <2>6, <2>8, <2>9, <2>10, <2>11 DEF LogInv
<1>6. CASE shift # NoChar
  <2>1. shift' = shift /\ txdat' = c
    BY <1>1, <1>6 DEF c
  <2>2. owed = (<<shift>> \o <<>>) \o text
    BY <1>1, <1>6 DEF LogInv, InTransit
  <2>3. InTransit' = (<<shift>> \o <<c>>) \o Tail(text)
    BY <1>1, <1>3, <1>6, <2>1 DEF InTransit
  <2>4. <<shift>> \in Seq(Char) /\ <<c>> \in Seq(Char)
    BY <1>2, <1>6 DEF LogInv, LogTypes
  <2>5. (<<shift>> \o <<c>>) \o Tail(text) = <<shift>> \o (<<c>> \o Tail(text))
    BY <1>2, <2>4, ConcatAssociative
  <2>6. <<shift>> \o <<>> = <<shift>>
    BY <2>4, ConcatEmptySeq
  <2>7. owed' = InTransit'
    BY <1>1, <1>2, <2>2, <2>3, <2>5, <2>6
  <2>8. board' = "lpc810" /\ FallingAsleep' => LastLineInTransit'
    <3>. SUFFICES ASSUME board = "lpc810", FallingAsleep PROVE LastLineInTransit'
      BY <1>1, <1>4
    <3>1. PICK j \in 1 .. 3 : /\ text' = Rest(LastLine, j + 1) /\ c = LastLine[j]
                              /\ j > 1 => shift \in {NoChar, LastLine[j - 1]}
      BY <1>1, LastLineShortens DEF LogInv, c
    <3>2. /\ j + 1 \in 1 .. 4 /\ j + 1 > 1 /\ j + 1 - 1 = j /\ j + 1 - 2 = j - 1
          /\ (j + 1 > 2 <=> j > 1)
      OBVIOUS
    <3>3. LastLine' = LastLine
      BY <1>1, SameLine
    <3>4. txdat' = LastLine'[j + 1 - 1]
      BY <2>1, <3>1, <3>2, <3>3
    <3>5. ASSUME j + 1 > 2 PROVE shift' = LastLine'[j + 1 - 2]
      <4>1. shift = LastLine[j - 1]
        BY <1>6, <3>1, <3>2, <3>5
      <4>. QED
        BY <2>1, <3>2, <3>3, <4>1
    <3>6. text' = Rest(LastLine', j + 1) /\ txdat' # NoChar
      BY <1>3, <2>1, <3>1, <3>3
    <3>7. IF txdat' = NoChar THEN shift' \in {NoChar, LastLine'[j + 1 - 1]}
          ELSE txdat' = LastLine'[j + 1 - 1] /\ (j + 1 > 2 => shift' = LastLine'[j + 1 - 2])
      BY <3>4, <3>5, <3>6
    <3>. DEFINE i == j + 1
    <3>8. /\ i \in 1 .. 4 /\ text' = Rest(LastLine', i)
          /\ i > 1 => IF txdat' = NoChar THEN shift' \in {NoChar, LastLine'[i - 1]}
                      ELSE txdat' = LastLine'[i - 1] /\ (i > 2 => shift' = LastLine'[i - 2])
      BY <3>2, <3>6, <3>7
    <3>. HIDE DEF i
    <3>. QED
      BY <3>8 DEF LastLineInTransit, Rest
  <2>9. LogTypes'
    BY <1>1, <1>2, <2>1 DEF LogInv, LogTypes
  <2>10. shift' # NoChar => chip'.txpin = "uart" /\ chip'.divisor = chip'.clock
    BY <1>1, <2>1 DEF LogInv
  <2>11. cut' => board' = "lpc810" /\ shift'.of = "sleep" /\ shift'.code \in {CR, LF}
    BY <1>1, <2>1 DEF LogInv
  <2>12. txdat' # NoChar => shift' # NoChar
    BY <1>3, <1>6, <2>1
  <2>. QED
    BY <1>1, <1>4, <2>7, <2>8, <2>9, <2>10, <2>11, <2>12 DEF LogInv
<1>. QED
  BY <1>5, <1>6

\* A character is out: what was behind it is all that is in transit.
LEMMA ShiftOutStep ==
  ASSUME LogInv, ShiftOut
  PROVE  LogInv'
<1>1. /\ shift # NoChar /\ shift' = txdat /\ txdat' = NoChar /\ cut' = FALSE
      /\ owed' = Tail(owed)
  BY DEF ShiftOut
<1>2. board' = board /\ todo' = todo /\ chip' = chip /\ text' = text
  BY DEF ShiftOut
<1>3. owed' = Behind /\ Behind \in Seq(Char)
  BY <1>1, FrontOfTransit
<1>4. InTransit' = Behind
  <2>1. InTransit' = ((IF txdat = NoChar THEN <<>> ELSE <<txdat>>) \o <<>>) \o text
    BY <1>1, <1>2 DEF InTransit
  <2>2. (IF txdat = NoChar THEN <<>> ELSE <<txdat>>) \in Seq(Char)
    BY DEF LogInv, LogTypes
  <2>. DEFINE B == IF txdat = NoChar THEN <<>> ELSE <<txdat>>
  <2>3. B \in Seq(Char) /\ InTransit' = (B \o <<>>) \o text /\ Behind = B \o text
    BY <2>1, <2>2 DEF Behind
  <2>. HIDE DEF B
  <2>. QED
    BY <2>3, ConcatEmptySeq
<1>5. Due' = Due /\ (FallingAsleep' <=> FallingAsleep)
  BY <1>2 DEF Due, Then, FallingAsleep
<1>6. board' = "lpc810" /\ FallingAsleep' => LastLineInTransit'
  <2>. SUFFICES ASSUME board = "lpc810", FallingAsleep PROVE LastLineInTransit'
    BY <1>2, <1>5
  <2>1. PICK j \in 1 .. 4 :
          /\ text = Rest(LastLine, j)
          /\ j > 1 => IF txdat = NoChar THEN shift \in {NoChar, LastLine[j - 1]}
                      ELSE txdat = LastLine[j - 1] /\ (j > 2 => shift = LastLine[j - 2])
    BY DEF LogInv, LastLineInTransit
  <2>2. LastLine' = LastLine
    BY <1>2, SameLine
  <2>3. j > 1 => shift' \in {NoChar, LastLine[j - 1]}
    BY <1>1, <2>1
  <2>4. /\ text' = Rest(LastLine', j) /\ txdat' = NoChar
        /\ j > 1 => shift' \in {NoChar, LastLine'[j - 1]}
    BY <1>1, <1>2, <2>1, <2>2, <2>3
  <2>. QED
    BY <2>4 DEF LastLineInTransit, Rest
<1>7. LogTypes'
  BY <1>1, <1>2, <1>3 DEF LogInv, LogTypes
<1>8. cut' => board' = "lpc810" /\ shift'.of = "sleep" /\ shift'.code \in {CR, LF}
  BY <1>1
<1>9. shift' # NoChar => chip'.txpin = "uart" /\ chip'.divisor = chip'.clock
  BY <1>1, <1>2 DEF LogInv
<1>10. /\ Due' # "vault_log" => text' = <<>>
       /\ Due' # "vault_log" /\ board' # "lpc810" => shift' = NoChar
  BY <1>1, <1>2, <1>5 DEF LogInv
<1>11. txdat' # NoChar => shift' # NoChar
  BY <1>1
<1>. QED
  BY <1>3, <1>4, <1>6, <1>7, <1>8, <1>9, <1>10, <1>11 DEF LogInv

\* vault_log returns: sent, but for the LPC810.
LEMMA ReturnStep ==
  ASSUME LogInv, StackFacts, Return
  PROVE  LogInv'
<1>1. /\ text = <<>> /\ (board # "lpc810" => shift = NoChar)
      /\ Due = "vault_log" /\ todo' = Tail(todo)
  BY DEF Return, Call, Due
<1>2. /\ board' = board /\ chip' = chip /\ text' = text /\ txdat' = txdat /\ shift' = shift
      /\ cut' = cut /\ owed' = owed
  BY DEF Return, uart
<1>3. Due' = Then
  BY <1>1 DEF Due, Then
<1>4. board = "lpc810" /\ FallingAsleep' => FallingAsleep
  BY <1>1, <1>3 DEF StackFacts, FallingAsleep
<1>5. LastLineInTransit' = LastLineInTransit
  BY <1>2, SameLine
<1>6. board' = "lpc810" /\ FallingAsleep' => LastLineInTransit'
  BY <1>2, <1>4, <1>5 DEF LogInv
<1>7. LogTypes' /\ InTransit' = InTransit
  BY <1>2 DEF LogInv, LogTypes, InTransit
<1>. QED
  BY <1>1, <1>2, <1>6, <1>7 DEF LogInv

\* The sleep begins: a character it stops is one of the last line's end.
LEMMA DeepSleepStep ==
  ASSUME ChipTypes, LogInv, DeepSleep
  PROVE  LogInv'
<1>1. /\ Due = "deep sleep" /\ board' = board /\ todo' = todo /\ text' = text
      /\ txdat' = txdat /\ shift' = shift /\ owed' = owed
  BY DEF DeepSleep, Due
<1>2. cut' = (shift # NoChar)
  BY DEF DeepSleep
<1>3. text = <<>> /\ (board # "lpc810" => shift = NoChar)
  BY <1>1 DEF LogInv
<1>4. shift # NoChar => board = "lpc810" /\ shift.of = "sleep" /\ shift.code \in {CR, LF}
  <2>. SUFFICES ASSUME shift # NoChar, board = "lpc810"
                PROVE  shift.of = "sleep" /\ shift.code \in {CR, LF}
    BY <1>3
  <2>1. LastLineInTransit
    BY <1>1 DEF LogInv, FallingAsleep
  <2>2. PICK j \in 1 .. 4 :
          /\ text = Rest(LastLine, j)
          /\ j > 1 => IF txdat = NoChar THEN shift \in {NoChar, LastLine[j - 1]}
                      ELSE txdat = LastLine[j - 1] /\ (j > 2 => shift = LastLine[j - 2])
    BY <2>1 DEF LastLineInTransit
  <2>3. j = 4
    <3>1. j \in 1 .. 3 => Rest(LastLine, j) # <<>>
      BY RestOfLastLine
    <3>. QED
      BY <1>3, <2>2, <3>1
  <2>4. shift = LastLine[3] \/ shift = LastLine[2]
    <3>1. 4 > 1 /\ 4 > 2 /\ 4 - 1 = 3 /\ 4 - 2 = 2
      OBVIOUS
    <3>. QED
      BY <2>2, <2>3, <3>1
  <2>. QED
    BY <2>4, LastLineText
<1>5. cut' \in BOOLEAN
  BY <1>2
<1>6. cut' => board' = "lpc810" /\ shift'.of = "sleep" /\ shift'.code \in {CR, LF}
  BY <1>1, <1>2, <1>4
<1>7. LogTypes' /\ InTransit' = InTransit
  BY <1>1, <1>5 DEF LogInv, LogTypes, InTransit
<1>8. Due' = Due /\ (FallingAsleep' <=> FallingAsleep)
  BY <1>1 DEF Due, Then, FallingAsleep
<1>9. LastLineInTransit' = LastLineInTransit
  BY <1>1, SameLine
<1>10. shift' # NoChar => chip'.txpin = "uart" /\ chip'.divisor = chip'.clock
  BY <1>1 DEF DeepSleep, LogInv, ChipTypes
<1>. QED
  BY <1>1, <1>3, <1>6, <1>7, <1>8, <1>9, <1>10 DEF LogInv

-----------------------------------------------------------------------------
\* The log is what the calls have put into it, less what has left.
LEMMA LogStep ==
  ASSUME DigitsSound, ChipInv, LogInv, BoardNext
  PROVE  LogInv'
<1>1. StackFacts /\ ChipTypes
  BY FactsOfStack DEF ChipInv
<1>2. ASSUME UNCHANGED <<board, uart>>, todo' = Tail(todo),
             Due \notin {"vault_log", "sleep", "vault_core_step"},
             board = "lpc810" => /\ chip'.txpin = chip.txpin
                                 /\ chip'.divisor = chip.divisor /\ chip'.clock = chip.clock
      PROVE  LogInv'
  <2>1. shift # NoChar =>
          board = "lpc810" /\ chip.txpin = "uart" /\ chip.divisor = chip.clock
    BY <1>2 DEF LogInv
  <2>2. shift # NoChar => chip'.txpin = "uart" /\ chip'.divisor = chip'.clock
    BY <1>2, <2>1
  <2>. QED
    BY <1>1, <1>2, <2>2, PopStep
<1>3. CASE PwrClkEnable \/ gpio_init \/ timer_init \/ rtc_init
  BY <1>1, <1>2, <1>3 DEF PwrClkEnable, gpio_init, timer_init, rtc_init, Ungate, Call, Due,
                          ChipTypes
<1>4. CASE clock_init \/ SystemClock_Config \/ uart_pin_isolate \/ uart_pin_restore
  <2>1. /\ Due \in {"clock_init", "SystemClock_Config", "uart_pin_isolate", "uart_pin_restore"}
        /\ todo' = Tail(todo) /\ UNCHANGED <<board, uart>>
    BY <1>4 DEF clock_init, SystemClock_Config, uart_pin_isolate, uart_pin_restore, SetPin,
                Call, Due
  <2>2. board # "lpc810"
    BY <1>1, <2>1 DEF StackFacts
  <2>. QED
    BY <1>2, <2>1, <2>2
<1>5. CASE uart_init
  <2>1. Due = "uart_init" /\ todo' = Tail(todo) /\ UNCHANGED <<board, uart>>
    BY <1>5 DEF uart_init, UartInit, Call, Due
  <2>2. shift # NoChar => board = "lpc810" /\ chip.txpin = "uart"
    BY <2>1 DEF LogInv
  <2>3. chip'.divisor = chip'.clock
    BY <1>1, <1>5 DEF uart_init, UartInit, UartGates, ChipTypes
  <2>4. chip.txpin = "uart" => chip'.txpin = "uart"
    BY <1>1, <1>5 DEF uart_init, UartInit, ChipTypes
  <2>5. shift # NoChar => chip'.txpin = "uart" /\ chip'.divisor = chip'.clock
    BY <2>2, <2>3, <2>4
  <2>6. Due \notin {"vault_log", "sleep", "vault_core_step"}
    BY <2>1
  <2>. QED
    BY <1>1, <2>1, <2>5, <2>6, PopStep
<1>6. CASE platform_wakeup_timer_arm \/ ControlVoltageScaling
  BY <1>1, <1>2, <1>6 DEF platform_wakeup_timer_arm, ControlVoltageScaling, SetRange, Call, Due,
                          ChipTypes
<1>7. CASE platform_i2c_slave_init \/ AwaitDone
  BY <1>2, <1>7 DEF platform_i2c_slave_init, AwaitDone, Call, Due, uart
<1>8. CASE WakeUp
  BY <1>1, <1>2, <1>8 DEF WakeUp, Due, ChipTypes
<1>9. CASE vault_core_step
  <2>1. Due = "vault_core_step" /\ todo' = core_step \o Tail(todo) /\ UNCHANGED <<board, chip, uart>>
    BY <1>9 DEF vault_core_step, Calls, Due
  <2>2. Due' = "wake_main enter"
    <3>1. Tail(todo) \in Seq(Calls_)
      BY <1>1, HeadTailProperties DEF StackFacts
    <3>2. core_step \in Seq(Calls_) /\ core_step[1] = "wake_main enter" /\ Len(core_step) = 11
      BY CoreScript
    <3>5. 1 \in 1 .. Len(core_step)
      <4>1. Len(core_step) = 11
        BY <3>2
      <4>. QED
        BY <4>1
    <3>3. Rest(core_step, 1) = core_step
      BY <3>1, <3>2, ScriptDone
    <3>4. Head(Rest(core_step, 1) \o Tail(todo)) = core_step[1]
      BY <3>1, <3>2, <3>5, ScriptInFront
    <3>. QED
      BY <2>1, <3>2, <3>3, <3>4 DEF Due
  <2>3. ~FallingAsleep'
    BY <2>2 DEF FallingAsleep
  <2>4. /\ UNCHANGED <<board, uart>> /\ Due # "vault_log"
        /\ shift # NoChar => chip'.txpin = "uart" /\ chip'.divisor = chip'.clock
    BY <2>1 DEF LogInv
  <2>. QED
    BY <2>3, <2>4, QuietStep
<1>10. CASE platform_init
  <2>1. Due = "platform_init" /\ todo' = Init_(board) \o Tail(todo) /\ UNCHANGED <<board, chip, uart>>
    BY <1>1, <1>10 DEF platform_init, Calls, Due, Init_
  <2>2. Due' \in BootCalls
    <3>1. Tail(todo) \in Seq(Calls_)
      BY <1>1, HeadTailProperties DEF StackFacts
    <3>2. Init_(board) \in Seq(Calls_) /\ board \in Board
      BY <1>1, InitScript DEF ChipTypes
    <3>3. 1 \in 1 .. Len(Init_(board))
      <4>1. Len(Init_(board)) \in {3, 4, 5}
        BY <3>2, InitScript DEF Board
      <4>. QED
        BY <4>1
    <3>4. Rest(Init_(board), 1) = Init_(board)
      BY <3>1, <3>2, ScriptDone
    <3>5. Head(Rest(Init_(board), 1) \o Tail(todo)) = Init_(board)[1]
      BY <3>1, <3>2, <3>3, ScriptInFront
    <3>6. Init_(board)[1] \in BootCalls
      BY <3>2, <3>3, KthCall
    <3>. QED
      BY <2>1, <3>4, <3>5, <3>6 DEF Due
  <2>3. ~FallingAsleep'
    BY <2>2 DEF FallingAsleep, BootCalls
  <2>4. /\ UNCHANGED <<board, uart>> /\ Due # "vault_log"
        /\ shift # NoChar => chip'.txpin = "uart" /\ chip'.divisor = chip'.clock
    BY <2>1 DEF LogInv
  <2>. QED
    BY <2>3, <2>4, QuietStep
<1>11. CASE platform_enter_low_power_sleep
  <2>1. /\ Due = "platform_enter_low_power_sleep" /\ UNCHANGED <<board, chip, uart>>
    BY <1>11 DEF platform_enter_low_power_sleep, Calls, Due
  <2>2. FallingAsleep
    BY <2>1 DEF FallingAsleep
  <2>3. /\ UNCHANGED <<board, uart>> /\ Due # "vault_log"
        /\ shift # NoChar => chip'.txpin = "uart" /\ chip'.divisor = chip'.clock
    BY <2>1 DEF LogInv
  <2>. QED
    BY <2>2, <2>3, QuietStep
<1>12. CASE LogLine
  <2>1. PICK line \in PlainLines : Log(line, <<>>, <<>>)
    BY <1>12 DEF LogLine
  <2>2. <<>> \in Seq(Digit) /\ line \in PlainLines \cup NumberLines
    OBVIOUS
  <2>. QED
    BY <1>1, <2>1, <2>2, LineStep
<1>13. CASE LogNumber
  <2>0. PICK line \in NumberLines :
          \E value \in Logged(line) : Log(line, Digits(value), Numeral(value))
    BY <1>13 DEF LogNumber
  <2>1. PICK value \in Logged(line) : Log(line, Digits(value), Numeral(value))
    BY <2>0
  <2>2. Digits(value) = Numeral(value) /\ Digits(value) \in Seq(Digit)
    BY DEF DigitsSound, Digit
  <2>3. line # "sleep" /\ line \in PlainLines \cup NumberLines
    BY DEF NumberLines
  <2>. QED
    BY <1>1, <2>1, <2>2, <2>3, LineStep
<1>14. CASE Putc
  BY <1>1, <1>14, PutcStep
<1>15. CASE Return
  BY <1>1, <1>15, ReturnStep
<1>16. CASE Poll
  BY <1>16, UnmovedLog DEF Poll
<1>17. CASE ShiftOut
  BY <1>17, ShiftOutStep
<1>18. CASE DeepSleep
  BY <1>1, <1>18, DeepSleepStep
<1>. QED
  BY <1>3, <1>4, <1>5, <1>6, <1>7, <1>8, <1>9, <1>10, <1>11, <1>12, <1>13, <1>14, <1>15,
     <1>16, <1>17, <1>18 DEF BoardNext, CoreStep, vault_log

\* All of it together, from the reset on.
LEMMA BoardInvInductive ==
  ASSUME DigitsSound
  PROVE  /\ BoardInit => BoardInv
         /\ BoardInv /\ [BoardNext]_boardVars => BoardInv'
<1>1. ASSUME BoardInit PROVE LogInv
  <2>1. text = <<>> /\ txdat = NoChar /\ shift = NoChar /\ cut = FALSE /\ owed = <<>>
    BY <1>1 DEF BoardInit
  <2>2. InTransit = (<<>> \o <<>>) \o <<>>
    BY <2>1 DEF InTransit
  <2>3. (<<>> \o <<>>) \o <<>> = <<>>
    BY ConcatEmptySeq
  <2>4. ~FallingAsleep
    <3>1. todo = main /\ board \in Board
      BY <1>1 DEF BoardInit
    <3>2. Due \in {"SystemClock_Config", "platform_init"}
      BY <3>1, FirstStacks DEF Due
    <3>. QED
      BY <3>2 DEF FallingAsleep
  <2>5. LogTypes
    <3>1. text \in Seq(Char) /\ owed \in Seq(Char)
      BY <2>1
    <3>2. cut \in BOOLEAN
      BY <2>1
    <3>. QED
      BY <2>1, <3>1, <3>2 DEF LogTypes
  <2>6. owed = InTransit
    BY <2>1, <2>2, <2>3
  <2>7. ~cut /\ ~(shift # NoChar) /\ ~(txdat # NoChar)
    BY <2>1
  <2>. QED
    BY <2>1, <2>4, <2>5, <2>6, <2>7 DEF LogInv
<1>2. ASSUME LogInv, UNCHANGED boardVars PROVE LogInv'
  BY <1>2, UnmovedLog
<1>. QED
  BY <1>1, <1>2, ChipInvInit, ChipInvInductive, LogStep DEF BoardInv

\* The UART knows no character but a label's, a digit or a line end, and there is
\* always a call to be made.
THEOREM BoardTypes ==
  ASSUME DigitsSound
  PROVE  BoardSpec => []BoardTypeOK
<1>1. BoardInv => BoardTypeOK
  <2>1. BoardInv => StackFacts
    BY FactsOfStack DEF BoardInv
  <2>2. BoardInv => ChipTypes /\ LogTypes
    BY DEF BoardInv, ChipInv, LogInv
  <2>. QED
    BY <2>1, <2>2 DEF BoardTypeOK, StackFacts, ChipTypes, LogTypes
<1>. QED
  BY <1>1, BoardInvInductive, PTL DEF BoardSpec

\* Every character of the log leaves in its turn, on a pin that carries it, at the
\* rate its divisor was computed for, and whole.
THEOREM LogArrives ==
  ASSUME DigitsSound
  PROVE  BoardSpec => LinesArriveWhole
<1>1. ASSUME BoardInv, shift # NoChar
      PROVE  /\ owed # <<>> /\ shift = Head(owed)
             /\ chip.txpin = "uart" /\ chip.divisor = chip.clock
             /\ cut => board = "lpc810" /\ shift.of = "sleep" /\ shift.code \in {CR, LF}
  <2>1. LogInv
    BY <1>1 DEF BoardInv
  <2>2. owed # <<>> /\ Head(owed) = shift
    BY <1>1, <2>1, FrontOfTransit
  <2>3. /\ chip.txpin = "uart" /\ chip.divisor = chip.clock
        /\ cut => board = "lpc810" /\ shift.of = "sleep" /\ shift.code \in {CR, LF}
    BY <1>1, <2>1 DEF LogInv
  <2>. QED
    BY <2>2, <2>3
<1>. DEFINE Whole == shift # NoChar /\ shift' # shift =>
                       /\ owed # <<>> /\ shift = Head(owed)
                       /\ chip.txpin = "uart" /\ chip.divisor = chip.clock
                       /\ cut => board = "lpc810" /\ shift.of = "sleep" /\ shift.code \in {CR, LF}
<1>2. BoardInv /\ [BoardNext]_boardVars => [Whole]_boardVars
  BY <1>1
<1>. QED
  BY <1>2, BoardInvInductive, PTL DEF BoardSpec, LinesArriveWhole
=============================================================================
