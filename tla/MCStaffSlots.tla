---------------------------- MODULE MCStaffSlots ----------------------------
(* Days of six minutes, a server two minutes ahead of the organization; one   *)
(* staff member with a booking that ends with the first day.                  *)
EXTENDS StaffSlots, TLC

CONSTANTS st1, st2, alice, bob, boss, p1, p2, p3

MCPk == {p1, p2, p3}

MCSeed == [staff |-> st1, email |-> alice, start |-> 3, end |-> 5, minutes |-> 2,
           status |-> "confirmed", rescheduled_from |-> None]
MCSeeds == {p1 :> MCSeed @@ [p \in MCPk |-> None]}

\* A booking across midnight, one just after it, a cancellation, a status that
\* keeps its time, a patch of the end.
SlotJobs ==
    {[op |-> "create", user |-> bob, staff |-> st1, email |-> bob, start |-> 5, minutes |-> 2],
     [op |-> "reschedule", user |-> alice, pk |-> p1, start |-> 7],
     [op |-> "update_status", user |-> boss, pk |-> p1, status |-> "in_progress"],
     [op |-> "patch", user |-> boss, pk |-> p1, given |-> {"end"},
      body |-> [MCSeed EXCEPT !.end = 7]]}

MCServices == {[minutes |-> 2, min_notice |-> 1, max_advance_days |-> 1],
               [minutes |-> 1, min_notice |-> 0, max_advance_days |-> 2],
               [minutes |-> 0, min_notice |-> 0, max_advance_days |-> 1]}

Week(day, start, end) ==
    [staff |-> st1, day |-> day, start |-> start, end |-> end, is_active |-> TRUE]
MCWeekly == {Week(0, 0, 5), Week(0, 1, 4), Week(1, 0, 5)}

MCHolidays == {[date |-> 1, full_day_closure |-> TRUE]}
MCExceptions ==
    {[staff |-> st1, date |-> 0, unavailable_all_day |-> FALSE, start |-> 1, end |-> 4],
     [staff |-> st1, date |-> 0, unavailable_all_day |-> TRUE, start |-> None, end |-> None]}
MCTimeOff == {[staff |-> st1, start |-> 5, end |-> 8, approved |-> TRUE]}

Requests == Permutations(Request)
=============================================================================
