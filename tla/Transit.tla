------------------------------ MODULE Transit ------------------------------
(***************************************************************************)
(* compute_transit of TestServers/AstroTransitServer: when is a             *)
(* constellation next at its highest?                                       *)
(*                                                                          *)
(* Time is counted in ticks.  A UTC day has Day of them, the sky turns once *)
(* in Sidereal, a little less (86400 s and 86164 s); so a day may hold two  *)
(* transits.  What is in hours in the code is in ticks here; the rounding   *)
(* to seconds is not modelled.                                              *)
(***************************************************************************)
EXTENDS Integers

CONSTANTS
    Day,       \* ticks from midnight to midnight
    Sidereal,  \* ticks from transit to transit
    Horizon    \* bound: the clock stops here

ASSUME SkyAssumption ==
    /\ Day \in Nat /\ Sidereal \in Nat
    /\ 0 < Sidereal /\ Sidereal <= Day /\ Day < 2 * Sidereal
ASSUME HorizonAssumption == Horizon \in Nat

VARIABLES
    now,    \* time(NULL)
    hour,   \* right ascension less longitude: the sidereal time of the transit
    asked,  \* when the last answer was given
    answer  \* transit_utc of that answer

vars == <<now, hour, asked, answer>>

Midnight(t) == t - (t % Day)

\* gmst0_hours: what the sidereal clock shows at a midnight.
Gmst0(midnight) == midnight % Sidereal

\* The first transit at or after a midnight.
TransitOn(midnight) == midnight + ((hour - Gmst0(midnight)) % Sidereal)

\* Mutant of ComputeTransit: a transit at this very moment will do.
ComputeTransitOrNow(t) ==
    IF TransitOn(Midnight(t)) >= t THEN TransitOn(Midnight(t))
    ELSE TransitOn(Midnight(t + Day))

\* Mutant of ComputeTransit: tomorrow's transit is today's a day later.
ComputeTransitDayLater(t) ==
    IF TransitOn(Midnight(t)) > t THEN TransitOn(Midnight(t))
    ELSE TransitOn(Midnight(t)) + Day

\* day_offset 0, then day_offset 1, whose candidate stands whatever it is.
ComputeTransit(t) ==
    IF TransitOn(Midnight(t)) > t THEN TransitOn(Midnight(t))
    ELSE TransitOn(Midnight(t + Day))

TypeOK ==
    /\ now \in 0 .. Horizon
    /\ hour \in 0 .. Sidereal - 1
    /\ asked \in 0 .. now
    /\ answer \in Nat

Init ==
    /\ now \in 0 .. Day - 1
    /\ now <= Horizon
    /\ hour \in 0 .. Sidereal - 1
    /\ asked = now
    /\ answer = ComputeTransit(now)

\* A request comes: handle_transit.
Ask ==
    /\ asked' = now
    /\ answer' = ComputeTransit(now)
    /\ UNCHANGED <<now, hour>>

Tick ==
    /\ now < Horizon
    /\ now' = now + 1
    /\ UNCHANGED <<hour, asked, answer>>

Next == Ask \/ Tick

Spec == Init /\ [][Next]_vars

(***************************************************************************)
(* Properties                                                               *)
(***************************************************************************)
IsTransit(t) == (t - hour) % Sidereal = 0

\* The answer lies ahead of the request, by two days at most: the candidate of
\* day_offset 1 is returned without a look at the clock (transit.c:52-56).
TransitAhead == asked < answer /\ answer < asked + 2 * Day

\* The answer is a transit, and at most one was passed over: the second of the
\* day on which the request was made.
AtMostOneSkipped ==
    /\ IsTransit(answer)
    /\ \A t \in asked + 1 .. answer - 1 :
          IsTransit(t) => /\ Midnight(t) = Midnight(asked)
                          /\ TransitOn(Midnight(t)) # t
                          /\ answer - t = Sidereal

\* Somebody who asks again later is never sent back to an earlier transit.
NeverBack == [][answer' >= answer]_vars

\* "the system finds the next date/time that constellation is highest over the
\* park" (README.md:4): no transit lies between the request and the answer.
NextTransit == \A t \in asked + 1 .. answer - 1 : ~IsTransit(t)
=============================================================================
