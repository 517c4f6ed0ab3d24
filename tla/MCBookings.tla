----------------------------- MODULE MCBookings -----------------------------
(* One organization: two staff members, one of them accepting bookings; two  *)
(* customers and the owner; p1 is alice's booking, p2 the first one created. *)
EXTENDS BookingEngine, TLC

CONSTANTS st1, st2, alice, bob, boss, p1, p2, p3, p4, p5

MCPk == {p1, p2, p3, p4, p5}

MCSeeds == {p1 :> [staff |-> st1, email |-> alice, start |-> 3, end |-> 5, minutes |-> 2,
                   status |-> "confirmed", rescheduled_from |-> None]
            @@ [p \in MCPk |-> None]}

Post(op, user, staff, email, start) ==
    [op |-> op, user |-> user, staff |-> staff, email |-> email, start |-> start,
     minutes |-> 2]
Plain(op, user, pk) == [op |-> op, user |-> user, pk |-> pk]
Reschedule(user, pk, start) ==
    [op |-> "reschedule", user |-> user, pk |-> pk, start |-> start]
SetStatus(user, pk, status) ==
    [op |-> "update_status", user |-> user, pk |-> pk, status |-> status]
Patch(user, pk, columns) ==
    [op |-> "patch", user |-> user, pk |-> pk, given |-> DOMAIN columns,
     body |-> columns @@ [staff |-> st1, email |-> bob, start |-> 0, end |-> 0,
                          minutes |-> 1, status |-> "confirmed", rescheduled_from |-> None]]

\* Everything, on alice's booking and on the one that comes of it.
EngineJobs ==
    {Post("create", bob, st1, bob, 4), Post("page", None, st1, bob, 1),
     Post("create", bob, st2, bob, 1),
     Reschedule(alice, p1, 4), Reschedule(alice, p1, 5), Reschedule(bob, p1, 4),
     Reschedule(alice, p1, None),
     Plain("cancel", alice, p1), Plain("cancel", None, p1), Plain("cancel", boss, p2),
     Plain("delete", alice, p1), Plain("delete", boss, p2),
     SetStatus(boss, p1, "in_progress"), SetStatus(boss, p1, None),
     SetStatus(alice, p1, "completed"),
     Patch(alice, p1, [start |-> 2]),
     Patch(boss, p2, [start |-> 3, end |-> 5, rescheduled_from |-> p1]),
     Patch(boss, p1, [minutes |-> 1, email |-> bob, rescheduled_from |-> p2]),
     Patch(alice, p1, [start |-> 4, rescheduled_from |-> p1]),
     Patch(alice, p2, [rescheduled_from |-> None])}

\* Two customers after the same free time.
RivalJobs == {Post("create", alice, st1, alice, 1), Post("page", None, st1, bob, 1),
              Post("create", bob, st1, bob, 2)}

\* A reschedule to a time another customer may take.
RescheduleJobs == {Reschedule(alice, p1, 5), Post("create", bob, st1, bob, 6)}

Requests == Permutations(Request)
=============================================================================
