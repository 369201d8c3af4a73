---------------------------- MODULE RelativeTime ----------------------------
(***************************************************************************)
(* The clock of the master server (xash3d-master/src/time.rs): the time    *)
(* since the start of the program, kept as a 32-bit count of units.  The   *)
(* unit the code intends is MillisPerUnit milliseconds; the unit it really *)
(* uses is UnitsPerSec milliseconds, because from_millis divides by        *)
(* UNITS_PER_SEC and as_millis multiplies by it.                           *)
(***************************************************************************)
EXTENDS Naturals

CONSTANT ClockRange   \* how many values the counter has: 2^32 in the code

ASSUME ClockRangeAssumption == ClockRange \in Nat \ {0}

MillisPerUnit == 125
UnitsPerSec   == 8

RelativeTimes == 0 .. ClockRange - 1

\* from_millis: the cast `as u32` keeps the low bits.
FromMillis(ms) == (ms \div UnitsPerSec) % ClockRange

AsMillis(t) == t * UnitsPerSec

\* The duration, in milliseconds, saturates at zero.
DurationSince(t, earlier) ==
    IF AsMillis(t) >= AsMillis(earlier) THEN AsMillis(t) - AsMillis(earlier) ELSE 0

AsSecs(duration) == duration \div 1000

=============================================================================
