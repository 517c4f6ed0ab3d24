----------------------- MODULE SpecialistAvailability -----------------------
(***************************************************************************)
(* SpecialistAvailableSlotsView: the times at which a specialist can be     *)
(* booked on a date, computed from the tables AppointmentMutations changes. *)
(* The view's queries are taken at one instant, as nothing it shows is      *)
(* promised to last.                                                        *)
(***************************************************************************)
EXTENDS AppointmentMutations

\* What the view asks scheduling_error about: a booking of one slot.
SlotAt(s, date, time) ==
    [specialist |-> s, date |-> date, time |-> time, duration |-> specialists[s]]

\* Mutant: the last slot of an interval is forgotten.
SlotsButLast(minutes, working) ==
    {t \in Time :
        \E h \in working, k \in 0 .. DayMinutes :
            /\ minutes > 0
            /\ t = h.start + k * (minutes * MinuteTicks)
            /\ t + minutes * MinuteTicks < h.end}

\* From the start of each interval, every slot that still ends within it.
AllSlots(minutes, working) ==
    {t \in Time :
        \E h \in working, k \in 0 .. DayMinutes :
            /\ minutes > 0
            /\ t = h.start + k * (minutes * MinuteTicks)
            /\ t + minutes * MinuteTicks <= h.end}

\* The times shown, none for a date before today's.  Those of today that have
\* passed are shown, although a booking of one is refused.
AvailableSlots(s, date) ==
    {t \in AllSlots(specialists[s], Working(hours, s, date)) :
        /\ now < Midnight(date + 1)
        /\ SchedulingError(SlotAt(s, date, t), specialists[s], hours, appts, None)
             = "none"}

-----------------------------------------------------------------------------
(* Properties. *)

\* What a booking of one slot needs, said without the view's enumeration and
\* without scheduling_context's choice of appointments: the slot lies within
\* working hours, starts on the grid of hours it lies within, ends before the
\* calendar does, and shares no instant with any active appointment.
Bookable(s, date, t) ==
    LET c == SlotAt(s, date, t)
        around == {h \in hours : /\ h.specialist = s /\ h.day = Weekday(date)
                                 /\ h.start <= t /\ t + c.duration * MinuteTicks <= h.end}
    IN  /\ c.duration > 0
        /\ t % MinuteTicks = 0
        /\ \E h \in around : (t - h.start) % (c.duration * MinuteTicks) = 0
        /\ EndOf(c) < Midnight(LastDate + 1)
        /\ Free(appts, c, None)

\* From today on, the view shows every slot that can be booked and no other, whatever
\* appointments run into the date from the day before and however working hours
\* overlap.
AvailableExact ==
    \A s \in Specialist, date \in Date :
        specialists[s] # None /\ now < Midnight(date + 1) =>
            AvailableSlots(s, date) = {t \in Time : Bookable(s, date, t)}

=============================================================================
