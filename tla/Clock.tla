------------------------------- MODULE Clock -------------------------------
(***************************************************************************)
(* Points in time as the program compares them: expires_at columns against *)
(* a clock that was read before the statement that uses it was executed.   *)
(*                                                                         *)
(* Time is relative: a point in time is kept as the ticks that are left to *)
(* it, negative when it has passed, so that time never has to stop. What   *)
(* passed more than MaxDelay ticks ago counts as passed MaxDelay ago, which *)
(* no comparison of the code can tell apart.                               *)
(***************************************************************************)
EXTENDS Integers

CONSTANT MaxDelay    \* bound: ticks between reading the clock and the statement

ASSUME ClockAssumption == MaxDelay \in Nat

\* How long a point in time lies ahead one tick later.
Later(t) == IF t > -MaxDelay THEN t - 1 ELSE t

\* Whether a point in time is over on a clock that was read d ticks ago.
Over(t, d) == t <= -d
============================================================================
