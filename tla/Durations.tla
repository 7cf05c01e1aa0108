------------------------------ MODULE Durations ------------------------------
(***************************************************************************)
(* ParseDuration (internal/utils/utils): a number of days, which may be    *)
(* negative, becomes nanoseconds in a signed 64-bit integer, by a product  *)
(* that nothing checks. One tick of the model's clock is a day, and        *)
(* HalfRange the first number of days whose nanoseconds do not fit (106752 *)
(* for 64 bits): numbers of days nearer to zero are exact, and others wrap *)
(* around.                                                                 *)
(*                                                                         *)
(* Any other unit goes to time.ParseDuration, which refuses what does not  *)
(* fit: such a duration is NoDuration, so one that wraps around was        *)
(* written in days.                                                        *)
(***************************************************************************)
EXTENDS Integers

CONSTANT HalfRange

ASSUME RangeAssumption == HalfRange \in Nat \ {0}

\* n ticks in a signed integer of 2 * HalfRange values.
WrapAround(n) == ((n + HalfRange) % (2 * HalfRange)) - HalfRange

ParseDuration(days) == WrapAround(days)
=============================================================================
