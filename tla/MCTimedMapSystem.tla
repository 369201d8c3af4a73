-------------------------- MODULE MCTimedMapSystem --------------------------
(* Two keys and two values; the clock steps just below and above a second, at
   instants the unit of the clock does not divide. *)
EXTENDS TimedMapSystem

MCTickSteps == {996, 1004}

=============================================================================
