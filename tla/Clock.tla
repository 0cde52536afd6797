-------------------------------- MODULE Clock --------------------------------
(***************************************************************************)
(* The wall clock the services read, in a unit coarse enough for a bound.  *)
(***************************************************************************)
EXTENDS Integers

CONSTANT MaxNow          \* bound on the wall clock
ASSUME MaxNowAssumption == MaxNow \in Nat

VARIABLE now             \* Utc::now(), Instant::now()

ClockAdvances == now < MaxNow /\ now' = now + 1
===============================================================================
