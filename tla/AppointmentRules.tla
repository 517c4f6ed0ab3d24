------------------------- MODULE AppointmentRules -------------------------
(***************************************************************************)
(* The rules every appointment operation consults: the calendar, the       *)
(* lifecycle (appointments/models.py), the interval rules                  *)
(* (appointments/scheduling.py) and who may do what                        *)
(* (accounts/permissions.py, appointments/permissions.py).                 *)
(*                                                                         *)
(* Time is counted in ticks.  A day has DayMinutes minutes of MinuteTicks  *)
(* ticks, so that a time of day may fall between two minutes, as a Python  *)
(* time with seconds does.  Dates are the days 0..LastDate, day 0 being a  *)
(* Monday; the instant after the last one is not representable, as nothing *)
(* is after datetime.max.                                                  *)
(***************************************************************************)
EXTENDS Integers

CONSTANTS
    Specialist,     \* primary keys of specialists
    User,           \* primary keys of accounts
    Pk,             \* primary keys of appointments
    Role,           \* the role of each account
    Profile,        \* the specialist an account is linked to, or None
    None,           \* Python's None, and "no such row"
    DayMinutes, MinuteTicks, LastDate

Roles == {"customer", "specialist", "admin", "owner"}

DayTicks == DayMinutes * MinuteTicks
Date     == 0 .. LastDate
Time     == 0 .. DayTicks - 1
Weekday(date) == date % 7
Midnight(date) == date * DayTicks

Status == {"pending", "confirmed", "completed", "no_show", "cancelled"}
Active == {"pending", "confirmed"}

\* Mutant: a completed appointment may still be cancelled.
LENIENT_TRANSITIONS ==
    [s \in Status |-> CASE s = "pending"   -> {"confirmed", "cancelled"}
                        [] s = "confirmed" -> {"completed", "no_show", "cancelled"}
                        [] s = "completed" -> {"cancelled"}
                        [] OTHER           -> {}]

ALLOWED_TRANSITIONS ==
    [s \in Status |-> CASE s = "pending"   -> {"confirmed", "cancelled"}
                        [] s = "confirmed" -> {"completed", "no_show", "cancelled"}
                        [] OTHER           -> {}]

\* A row of the table of appointments; the notes and timestamps are left out.
Row == [specialist : Specialist, user : User, date : Date, time : Time,
        duration : Nat, status : Status]

HourRow == [specialist : Specialist, day : 0 .. 6, start : Time, end : Time]

ASSUME CalendarAssumption ==
    /\ DayMinutes \in Nat \ {0} /\ MinuteTicks \in Nat \ {0}
    /\ LastDate \in Nat

ASSUME DirectoryAssumption ==
    /\ Role \in [User -> Roles]
    /\ Profile \in [User -> Specialist \cup {None}]
    /\ None \notin Specialist \cup Pk /\ None \notin Row /\ None \notin Nat

\* A table of appointments gives each primary key its row, or None.
Table == [Pk -> Row \cup {None}]

IsActive(appts, p) == appts[p] # None /\ appts[p].status \in Active

-----------------------------------------------------------------------------
(* Intervals. *)

StartOf(row) == Midnight(row.date) + row.time
EndOf(row)   == StartOf(row) + row.duration * MinuteTicks

\* Two half-open intervals [start, end) share an instant.
Overlap(a, b) == StartOf(a) < EndOf(b) /\ StartOf(b) < EndOf(a)

\* No active appointment other than p holds time of the row's specialist.
Free(appts, row, p) ==
    \A q \in Pk \ {p} :
        IsActive(appts, q) /\ appts[q].specialist = row.specialist
            => ~Overlap(appts[q], row)

\* No two active appointments of a specialist share an instant.
Disjoint(appts) == \A p \in Pk : IsActive(appts, p) => Free(appts, appts[p], p)

\* The hours the specialist works on a date: those of its weekday.
Working(hours, s, date) ==
    {h \in hours : h.specialist = s /\ h.day = Weekday(date)}

\* Mutant: only the appointments of that date are looked at.
OccupiesSameDate(row, date) == row.date = date

\* An appointment can matter on a date only if it starts no later and has not
\* ended on an earlier day.
Occupies(row, date) == row.date <= date /\ EndOf(row) >= Midnight(date)

\* The appointments that hold time of s on that date, without the one excluded.
Occupied(appts, s, date, exclude) ==
    {p \in Pk \ {exclude} :
        IsActive(appts, p) /\ appts[p].specialist = s /\ Occupies(appts[p], date)}

-----------------------------------------------------------------------------
(* scheduling_error.  The candidate c is a Row; slot is the grid, in        *)
(* minutes.  The tests on the interval alone come first, in this order.     *)

Fitting(c, working) ==
    {h \in working : /\ h.start <= c.time /\ c.duration > 0
                     /\ c.time + c.duration * MinuteTicks <= h.end}

\* On the grid of some interval the candidate fits in, at a whole minute.
OnGrid(c, slot, fitting) ==
    /\ c.time % MinuteTicks = 0
    /\ slot > 0
    /\ \E h \in fitting : (c.time - h.start) % (slot * MinuteTicks) = 0

HoursError(c, slot, working) ==
    IF c.duration <= 0 THEN "duration"
    ELSE IF EndOf(c) >= Midnight(LastDate + 1) THEN "overflow"
    ELSE IF Fitting(c, working) = {} THEN "outside"
    ELSE IF ~OnGrid(c, slot, Fitting(c, working)) THEN "grid"
    ELSE "none"

Collides(c, appts, exclude) ==
    \E p \in Occupied(appts, c.specialist, c.date, exclude) : Overlap(appts[p], c)

SchedulingError(c, slot, hours, appts, exclude) ==
    LET error == HoursError(c, slot, Working(hours, c.specialist, c.date))
    IN  IF error = "none" /\ Collides(c, appts, exclude) THEN "overlap" ELSE error

\* The callers' own test: no booking at an instant that has been reached.
InPast(c, now) == StartOf(c) <= now

-----------------------------------------------------------------------------
(* Who may act. *)

IsAdmin(u)    == Role[u] \in {"admin", "owner"}
IsCustomer(u) == Role[u] = "customer"
LinkedTo(u, s) == Role[u] = "specialist" /\ Profile[u] = s

\* IsAdminOrAssignedSpecialist
CanManage(u, row) == IsAdmin(u) \/ LinkedTo(u, row.specialist)

\* IsAppointmentCanceller
CanCancel(u, row) ==
    CanManage(u, row) \/ (IsCustomer(u) /\ row.user = u)

=============================================================================
