-------------------------- MODULE MCAppointments --------------------------
(***************************************************************************)
(* A small clinic: a day of six one-minute ticks, two specialists, four    *)
(* accounts, an appointment p1 of alice's to fight over, and, in one of    *)
(* the seeds, an appointment that runs past midnight.                      *)
(***************************************************************************)
EXTENDS SpecialistAvailability, TLC

CONSTANTS s1, s2, alice, bob, doctor, boss, p1, p2, p3, p4, p5

MCSpecialist == {s1, s2}
MCUser       == {alice, bob, doctor, boss}
MCPk         == {p1, p2, p3, p4, p5}

MCRole == alice :> "customer" @@ bob :> "customer" @@ doctor :> "specialist"
          @@ boss :> "admin"
MCProfile == [u \in MCUser |-> IF u = doctor THEN s1 ELSE None]

MCSeedSlots == s1 :> 2 @@ s2 :> 2

Open(s, day, start, end) ==
    [specialist |-> s, day |-> day, start |-> start, end |-> end]

\* Two overlapping intervals on one day, on different grids, and the next day.
BookingHourRows == {Open(s1, 0, 1, 5), Open(s1, 0, 2, 5), Open(s1, 1, 0, 4)}

MCHourRows == {Open(s1, 0, 1, 5), Open(s1, 1, 0, 4)}

Appt(s, u, date, time, duration, status) ==
    [specialist |-> s, user |-> u, date |-> date, time |-> time,
     duration |-> duration, status |-> status]

Holding1(status) == p1 :> Appt(s1, alice, 0, 1, 2, status)
Nothing == [p \in MCPk |-> None]

\* p1 alone; p1 beside an appointment that lasts until the next day.
MCSeeds == {Holding1("pending") @@ Nothing,
            Holding1("confirmed") @@ p2 :> Appt(s1, bob, 0, 5, 2, "confirmed") @@ Nothing}

Post(u, s, date, time, duration) ==
    [op |-> "create", user |-> u, specialist |-> s, date |-> date, time |-> time,
     duration |-> duration]
Change(op, u) == [op |-> op, user |-> u, pk |-> p1]
Reschedule(u, date, time) ==
    [op |-> "reschedule", user |-> u, pk |-> p1, date |-> date, time |-> time]
Edit(op, u, minutes) ==
    [op |-> op, user |-> u, specialist |-> s1, slot |-> minutes]

\* Bookings against bookings: partial overlaps, the same slot, a slot that
\* collides with the appointment of the day before.
BookingJobs ==
    {Post(alice, s1, 0, 3, 0), Post(bob, s1, 0, 1, 4), Post(doctor, s1, 0, 3, 0),
     Reschedule(alice, 0, 3), Reschedule(doctor, 1, 0), Reschedule(bob, 1, 2),
     Change("cancel", alice)}

\* Everything that can be done to p1 and to its specialist.
LifecycleJobs ==
    {Post(bob, s1, 0, 3, 0), Reschedule(alice, 0, 3),
     Change("cancel", alice), Change("confirm", doctor), Change("complete", doctor),
     Change("no_show", boss), Change("cancel", bob),
     Edit("delete", boss, 0), Edit("patch", boss, 1), Edit("patch", boss, 0)}

\* One of each kind that holds a lock while it waits or works.
LockingJobs ==
    {Post(bob, s1, 0, 3, 0), Reschedule(alice, 0, 3), Change("cancel", alice),
     Edit("delete", boss, 0)}

LiveSeeds == {Holding1("confirmed") @@ Nothing}
LiveHourRows == {Open(s1, 0, 1, 5)}

Requests == Permutations(Request)
===========================================================================
