----------------------------- MODULE StaffSlots -----------------------------
(***************************************************************************)
(* generate_slots (scheduling/services.py): the times at which a staff      *)
(* member is offered for a service on a date, beside the booking engine     *)
(* whose table it reads and whose create_booking consults none of it.       *)
(*                                                                         *)
(* Instants are counted in minutes of the organization's clock, a day       *)
(* having DayTicks of them; the server's clock, whose calendar               *)
(* start_datetime__date uses, is Offset ahead.  Clock changes within a zone *)
(* are left out, and so are the order and the repetitions of the list.      *)
(***************************************************************************)
EXTENDS BookingEngine, FiniteSetsExt

CONSTANTS
    DayTicks, Offset,
    Step,                   \* step_minutes
    Dates,                  \* the dates asked for
    Services,               \* the services, by what generate_slots reads of them
    WeeklyRows, HolidayRows, ExceptionRows, TimeOffRows
                            \* bound: the rows managers may enter

WeeklyAvailability == [staff : Staff, day : 0 .. 6, start : 0 .. DayTicks - 1,
                       end : 0 .. DayTicks - 1, is_active : BOOLEAN]
OrganizationHoliday == [date : Dates, full_day_closure : BOOLEAN]
AvailabilityException == [staff : Staff, date : Dates, unavailable_all_day : BOOLEAN,
                          start : (0 .. DayTicks - 1) \cup {None},
                          end : (0 .. DayTicks - 1) \cup {None}]
TimeOff == [staff : Staff, start : Nat, end : Nat, approved : BOOLEAN]

ASSUME ScheduleAssumption ==
    /\ DayTicks \in Nat \ {0} /\ Step \in Nat \ {0}
    /\ Offset \in Int /\ Dates \subseteq Nat
    /\ Services \subseteq [minutes : Nat, min_notice : Nat, max_advance_days : Nat]
    /\ WeeklyRows \subseteq WeeklyAvailability
    /\ HolidayRows \subseteq OrganizationHoliday
    /\ ExceptionRows \subseteq AvailabilityException
    /\ TimeOffRows \subseteq TimeOff

VARIABLES weekly, holidays, exceptions, time_off      \* the tables of schedules

schedule == <<weekly, holidays, exceptions, time_off>>

SlotsInit ==
    /\ Init
    /\ weekly \in SUBSET WeeklyRows
    /\ holidays = {} /\ exceptions = {} /\ time_off = {}

-----------------------------------------------------------------------------
Midnight(date)   == date * DayTicks
Weekday(date)    == date % 7
ServerDate(t)    == (t + Offset) \div DayTicks

Span(t, service) == [start |-> t, end |-> t + service.minutes]
Meets(a, b)      == a.start < b.end /\ b.start < a.end

\* Several exceptions for one date may be entered; .first() takes any of them.
Chosen(s, date) ==
    LET those == {e \in exceptions : e.staff = s /\ e.date = date}
    IN  IF those = {} THEN {None} ELSE those

Closed(date, exception) ==
    \/ \E h \in holidays : h.date = date /\ h.full_day_closure
    \/ exception # None /\ exception.unavailable_all_day

\* An availability on that date, narrowed by an exception with both its times.
Window(w, date, exception) ==
    LET partial == exception # None /\ exception.start # None /\ exception.end # None
    IN  [start |-> Midnight(date) +
                      (IF partial THEN Max({w.start, exception.start}) ELSE w.start),
         end   |-> Midnight(date) +
                      (IF partial THEN Min({w.end, exception.end}) ELSE w.end)]

Windows(s, date, exception) ==
    {Window(w, date, exception) :
        w \in {x \in weekly : x.staff = s /\ x.day = Weekday(date) /\ x.is_active}}

\* Mutant: only confirmed bookings hold their time.
ExistingConfirmed(s, date) ==
    {p \in Pk : /\ Exists(p) /\ bookings[p].status = "confirmed"
                /\ bookings[p].staff = s /\ ServerDate(bookings[p].start) = date}

Existing(s, date) ==
    {p \in Pk : IsActive(p) /\ bookings[p].staff = s
                /\ ServerDate(bookings[p].start) = date}

\* Mutant: a slot may not end with the availability.
CursorsWithin(window, service) ==
    {t \in window.start .. window.end :
        (t - window.start) % Step = 0 /\ t + service.minutes < window.end}

\* The values of the loop's cursor.
Cursors(window, service) ==
    {t \in window.start .. window.end :
        (t - window.start) % Step = 0 /\ t + service.minutes <= window.end}

Slots(s, service, date, exception) ==
    IF Closed(date, exception) THEN {}
    ELSE {t \in UNION {Cursors(x, service) : x \in Windows(s, date, exception)} :
            /\ t > now + service.min_notice
            /\ t <= now + service.max_advance_days * DayTicks
            /\ \A x \in time_off : x.staff = s /\ x.approved => ~Meets(x, Span(t, service))
            /\ \A p \in Existing(s, date) : ~Meets(bookings[p], Span(t, service))}

\* The endpoint looks only among accepting staff.
Shown(s, service, date) ==
    IF s \notin Accepting THEN {}
    ELSE UNION {Slots(s, service, date, e) : e \in Chosen(s, date)}

-----------------------------------------------------------------------------
(* The managers' endpoints for the four tables, none of which looks at the   *)
(* bookings there are.                                                       *)

\* A row entered, deleted, or replaced by another.
Edits(table, rows) ==
    {table \cup {row} : row \in rows} \cup {table \ {row} : row \in table}
    \cup {(table \ {old}) \cup {row} : old \in table, row \in rows}

EditWeekly ==
    /\ weekly' \in Edits(weekly, WeeklyRows)
    /\ UNCHANGED <<vars, holidays, exceptions, time_off>>

EditHolidays ==
    /\ holidays' \in Edits(holidays, HolidayRows)
    /\ UNCHANGED <<vars, weekly, exceptions, time_off>>

EditExceptions ==
    /\ exceptions' \in Edits(exceptions, ExceptionRows)
    /\ UNCHANGED <<vars, weekly, holidays, time_off>>

EditTimeOff ==
    /\ time_off' \in Edits(time_off, TimeOffRows)
    /\ UNCHANGED <<vars, weekly, holidays, exceptions>>

SlotsNext == \/ Next /\ UNCHANGED schedule
             \/ EditWeekly \/ EditHolidays \/ EditExceptions \/ EditTimeOff

SlotsSpec == SlotsInit /\ [][SlotsNext]_<<vars, schedule>>

-----------------------------------------------------------------------------
(* Properties. *)

\* What create_booking looks at of the booking of a slot.
Asked(s, service, t) == [staff |-> s, start |-> t, end |-> t + service.minutes]

\* What is shown can be booked: create_booking, which knows of no schedule, accepts
\* every slot generate_slots shows at that moment, unless it collides with a
\* booking begun on another date of the server's calendar.
ShownAccepted ==
    \A s \in Accepting, service \in Services, date \in Dates :
        \A t \in Shown(s, service, date) :
            /\ t > now
            /\ \A p \in Conflicts(Asked(s, service, t)) :
                  ServerDate(bookings[p].start) # date

\* Each minute from t on for the service's duration is within the hours.
Covers(hours, date, t, service) ==
    \A u \in t .. t + service.minutes :
        hours.start <= u - Midnight(date) /\ u - Midnight(date) <= hours.end

\* The times a client who knew the schedule, and what create_booking refuses,
\* would expect: on the grid of an availability from the first minute that is
\* open, inside it and inside the exception's hours, not in approved time off,
\* not too soon or too late, on no day that is closed.
Expected(s, service, date, e) ==
    {t \in Midnight(date) .. Midnight(date + 1) :
        /\ ~\E h \in holidays : h.full_day_closure /\ h.date = date
        /\ e # None => ~e.unavailable_all_day
        /\ \E w \in weekly :
             /\ w.staff = s /\ w.is_active /\ w.day = Weekday(date)
             /\ Covers(w, date, t, service)
             /\ IF e = None \/ None \in {e.start, e.end}
                THEN (t - Midnight(date) - w.start) % Step = 0
                ELSE /\ Covers(e, date, t, service)
                     /\ \E first \in {w.start, e.start} :
                          /\ first >= w.start /\ first >= e.start
                          /\ (t - Midnight(date) - first) % Step = 0
        /\ t - now > service.min_notice
        /\ t - now <= service.max_advance_days * DayTicks
        /\ \A x \in time_off : x.staff = s /\ x.approved =>
              x.end <= t \/ t + service.minutes <= x.start
        /\ Conflicts(Asked(s, service, t)) = {}}

\* No bookable time is hidden, however availabilities overlap and whatever the
\* managers enter.
NoneMissed ==
    \A s \in Accepting, service \in Services, date \in Dates :
        \A e \in Chosen(s, date) :
            Expected(s, service, date, e) \subseteq Slots(s, service, date, e)

=============================================================================
