-------------------------------- MODULE Time --------------------------------
(***************************************************************************)
(* From log clock to time                                                  *)
(*   include/binlog/Time.hpp, Time.cpp                                     *)
(*                                                                         *)
(* Den is std::nano::den and Word the number of values of a 64 bit word:   *)
(* small here, with the same proportions.  Signed overflow, undefined in   *)
(* the code, wraps; what is stated of results is stated where none occurs. *)
(***************************************************************************)
EXTENDS Integers

CONSTANTS
  Den,   \* std::nano::den
  Word   \* 2^64

ASSUME TimeAssumption == Den \in Nat \ {0} /\ Word \in Nat \ {0} /\ Word % 2 = 0

\* A conversion to std::int64_t.
Half     == Word \div 2
int64(n) == ((n + Half) % Word) - Half

\* Division and remainder of C++, towards zero.
quot(a, b) == IF a >= 0 THEN a \div b ELSE -((-a) \div b)
rem(a, b)  == a - b * quot(a, b)

\* Slip: the ticks are multiplied before they are divided.
ticksToNanosecondsAtOnce(frequency, ticks) == quot(int64(ticks * Den), frequency)

ticksToNanoseconds(frequency, ticks) ==
  int64(int64(quot(ticks, frequency) * Den)
        + quot(int64(rem(ticks, frequency) * Den), frequency))

\* A ClockSync: clockValue, clockFrequency, nsSinceEpoch, tzOffset in seconds.
clockToNsSinceEpoch(clockSync, clockValue) ==
  int64(clockSync[3] + ticksToNanoseconds(clockSync[2], int64(clockValue - clockSync[1])))

\* gmtime_r: the day, left to the calendar, and the time of the day.
gmtime_r(seconds) ==
  [day |-> seconds \div 86400, hour |-> (seconds \div 3600) % 24,
   min |-> (seconds \div 60) % 60, sec |-> seconds % 60]

nsSinceEpochToBrokenDownTimeUTC(sinceEpoch) ==
  [time |-> gmtime_r(quot(sinceEpoch, Den)), nsec |-> rem(sinceEpoch, Den)]
=============================================================================
