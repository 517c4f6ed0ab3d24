----------------------------- MODULE HoursBook -----------------------------
(***************************************************************************)
(* What the endpoints of specialists promise of their two tables: a set of   *)
(* specialists, and a set of intervals of working hours, each of an existing  *)
(* specialist.  Nothing is said here of overlaps, which the code prevents      *)
(* only between additions that do not race.                                  *)
(***************************************************************************)
CONSTANTS Specialist, HourRow

VARIABLES
    specialists,    \* the specialists there are
    hours           \* the intervals of working hours

Of(s) == {h \in HourRow : h.specialist = s}

Init ==
    /\ specialists \subseteq Specialist
    /\ hours \subseteq HourRow /\ \A h \in hours : h.specialist \in specialists

Hire(s) == specialists' = specialists \cup {s} /\ UNCHANGED hours

Dismiss(s) == specialists' = specialists \ {s} /\ hours' = hours \ Of(s)

\* The same interval is never entered twice.
Add(h) ==
    /\ h \notin hours /\ h.specialist \in specialists
    /\ hours' = hours \cup {h} /\ UNCHANGED specialists

Remove(h) == hours' = hours \ {h} /\ UNCHANGED specialists

Next == \/ \E s \in Specialist : Hire(s) \/ Dismiss(s)
        \/ \E h \in HourRow : Add(h) \/ Remove(h)

Spec == Init /\ [][Next]_<<specialists, hours>>
=============================================================================
