------------------------ MODULE MCAppointmentAdmin ------------------------
(* The small clinic of MCAppointments, with an administrator's edits.      *)
EXTENDS AppointmentAdmin, TLC

CONSTANTS s1, s2, alice, boss, p1, p2, p3

MCSpecialist == {s1, s2}
MCUser       == {alice, boss}
MCPk         == {p1, p2, p3}
MCRole       == alice :> "customer" @@ boss :> "admin"
MCProfile    == [u \in MCUser |-> None]
MCSeedSlots  == [s \in MCSpecialist |-> 2]
MCHourRows   == {[specialist |-> s, day |-> 0, start |-> 1, end |-> 5] : s \in MCSpecialist}

Appt(s, time, status) ==
    [specialist |-> s, user |-> alice, date |-> 0, time |-> time,
     duration |-> 2, status |-> status]

MCSeeds == {p1 :> Appt(s1, 1, "confirmed") @@ [p \in MCPk |-> None]}

\* Taking the slot others want, moving p1 to the other specialist, reviving.
MCAdminRows == {Appt(s1, 3, "pending"), Appt(s2, 1, "completed")}

MCJobs ==
    {[op |-> "create", user |-> alice, specialist |-> s1, date |-> 0, time |-> 3,
      duration |-> 0],
     [op |-> "reschedule", user |-> alice, pk |-> p1, date |-> 0, time |-> 3],
     [op |-> "cancel", user |-> alice, pk |-> p1],
     [op |-> "delete", user |-> boss, specialist |-> s1, slot |-> 0],
     [op |-> "patch", user |-> boss, specialist |-> s1, slot |-> 1]}

Requests == Permutations(Request)
===========================================================================
