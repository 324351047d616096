-------------------------- MODULE MCCountdownSleep --------------------------
(***************************************************************************)
(* CountdownSleep with small timers: a register of 64 ticks at four ticks  *)
(* to the second for the LPC810 and the EFM32G210, one of 16 seconds for   *)
(* the STM32U031.  All three can serve 15 seconds.                         *)
(***************************************************************************)
EXTENDS CountdownSleep

MCLpc810(requests) ==
  [name |-> "lpc810", rate |-> 4, size |-> 64, ceiling |-> 15, requests |-> requests]
MCStm32u031(requests) ==
  [name |-> "stm32u031", rate |-> 1, size |-> 16, ceiling |-> 15, requests |-> requests]
MCEfm32g210(requests) ==
  [name |-> "efm32g210", rate |-> 4, size |-> 64, ceiling |-> 15, requests |-> requests]

\* Intervals up to the longest each timer can serve, and beyond it where the
\* backend clamps.
MCWithinCeiling ==
  { MCLpc810({1, 3, 7, 15}), MCStm32u031({1, 2, 7, 15}),
    MCEfm32g210({1, 7, 15, 16, 17, 40}) }

\* Intervals beyond it where the backend does not clamp.
MCBeyondCeiling == { MCLpc810({17}), MCStm32u031({17}) }

\* Writing the log line takes less than the shortest interval.
MCLogTicks == [lpc810 |-> 3, stm32u031 |-> 1, efm32g210 |-> 3]
=============================================================================
