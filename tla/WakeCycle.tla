------------------------------ MODULE WakeCycle ------------------------------
(***************************************************************************)
(* The wake cycle the Data Vault promises (design section 6, guide section *)
(* 4), without the steps it takes: the main MCU gets power, keeps it until *)
(* it has said DONE, loses it, and gets it again once the vault has slept  *)
(* for the interval it held when it fell asleep.                           *)
(***************************************************************************)
CONSTANTS
  Interval,   \* the wake intervals
  Default     \* the one in force until another is written

VARIABLES
  phase,      \* where the cycle is
  interval,   \* the interval in force
  slept       \* the interval of the latest sleep

cycleVars == <<phase, interval, slept>>

Init == phase = "starting" /\ interval = Default /\ slept = Default

Move(from, to) == phase = from /\ phase' = to

PowerUp    == Move("starting", "working") /\ UNCHANGED <<interval, slept>>
Finish     == Move("working", "finished") /\ UNCHANGED <<interval, slept>>
CutPower   == Move("finished", "isolating") /\ UNCHANGED <<interval, slept>>
FallAsleep == Move("isolating", "asleep") /\ slept' = interval /\ UNCHANGED interval
WakeUp     == Move("asleep", "starting") /\ UNCHANGED <<interval, slept>>

\* What was on the wire when the power went may still be served.
SetInterval ==
  /\ phase \in {"working", "finished", "isolating"}
  /\ interval' \in Interval
  /\ UNCHANGED <<phase, slept>>

\* The vault's own supply fails: it starts over with the default interval.
LosePower == phase' = "starting" /\ interval' = Default /\ slept' = Default

Next ==
  PowerUp \/ Finish \/ CutPower \/ FallAsleep \/ WakeUp \/ SetInterval \/ LosePower

\* The vault owes every step but Finish, which is the main MCU's.
Spec ==
  /\ Init /\ [][Next]_cycleVars
  /\ WF_cycleVars(PowerUp) /\ WF_cycleVars(CutPower)
  /\ WF_cycleVars(FallAsleep) /\ WF_cycleVars(WakeUp)
=============================================================================
