---------------------------- MODULE MCFlightLoop ----------------------------
(* The flight loop on small instances: one unit of time is about a second. *)
EXTENDS FlightLoopTiming

TranslateTo(place) == [type |-> "translate", goal |-> place]
SleepFor(time)     == [type |-> "sleep", time |-> time]
Drop               == [type |-> "drop"]
LandNow            == [type |-> "land"]
Other              == [type |-> "other"]

\* For the way into a mission and out of it.
MCLandPrograms == { <<TranslateTo("a"), LandNow>> }

\* Programs with every kind of command, in which no two sleeps are adjacent.
MCPrograms ==
  { <<TranslateTo("a"), SleepFor(1), Drop, LandNow>>,
    <<Other, SleepFor(2), TranslateTo("b"), Drop>> }

\* A waypoint command followed by a wait command compiles to a translate, the
\* waypoint's sleep and the wait's sleep.
MCWaypointWait == { <<TranslateTo("a"), SleepFor(1), SleepFor(2)>> }

=============================================================================
