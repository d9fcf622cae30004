-------------------------------- MODULE Clock --------------------------------
(***************************************************************************)
(* The ClockSync in force, and the times of the events under it            *)
(*   include/binlog/EventStream.cpp, PrettyPrinter.cpp                     *)
(*                                                                         *)
(* A stream may hold any ClockSyncs.  Under the last one that was read, an *)
(* event of any clock value may follow: the clock of a ClockSync taken     *)
(* before, after or a wrap away from the event.                            *)
(***************************************************************************)
EXTENDS Time

CONSTANTS
  Clocks,  \* clock values of events
  Ticking  \* ClockSyncs that have a frequency

ASSUME ClockAssumption ==
  /\ Clocks \subseteq Nat
  /\ \A s \in Ticking : s[1] \in Nat /\ s[2] \in Nat \ {0} /\ s[3] \in Int

VARIABLE inForce  \* EventStream::_clockSync

\* A default constructed ClockSync: no time is printed under it.
NoSync == <<0, 0, 0, 0>>

ClockInit == inForce = NoSync

readClockSync(clockSync) == inForce' = clockSync

ClockNext == \E s \in Ticking : readClockSync(s)

ClockSpec == ClockInit /\ [][ClockNext]_inForce
-----------------------------------------------------------------------------
\* A word can hold n.
fits(n) == -Half <= n /\ n < Half

\* The time of an event, from the exact integers, is what the code computes.
Exact(s, clock) ==
  LET diff == int64(clock - s[1])
      ns   == s[3] + quot(diff * Den, s[2])
      bdt  == nsSinceEpochToBrokenDownTimeUTC(ns)
  IN  fits(ns) /\ fits(ns - s[3]) /\ fits(s[2] * Den) =>
        /\ clockToNsSinceEpoch(s, clock) = ns
        /\ ns >= 0 =>
             /\ bdt.nsec \in 0..(Den - 1)
             /\ ns = bdt.nsec + Den * (bdt.time.sec + 60 * bdt.time.min
                                       + 3600 * bdt.time.hour + 86400 * bdt.time.day)

\* Under every ClockSync a clock value becomes exactly the truncated number of
\* nanoseconds, before and after the ClockSync and around the wrap of the counter,
\* whenever that and frequency * 10^9 fit in a word; and a time after the epoch
\* breaks down to seconds and a fraction that is one (Time.cpp:5-50).
ClockExact == inForce[2] > 0 => \A clock \in Clocks : Exact(inForce, clock)
=============================================================================
