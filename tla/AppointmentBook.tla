-------------------------- MODULE AppointmentBook --------------------------
(***************************************************************************)
(* What the appointment API promises of its table of appointments, and     *)
(* nothing of how: rows are added, moved, given a new status and removed    *)
(* one operation at a time, the active appointments of a specialist never   *)
(* overlap, and a status only follows the lifecycle.                        *)
(***************************************************************************)
EXTENDS AppointmentRules

VARIABLE appts      \* the row of each primary key, or None

Exists(p) == appts[p] # None

TypeOK == appts \in Table

Init == TypeOK /\ Disjoint(appts)

-----------------------------------------------------------------------------
\* Some new row, fit to be booked.
Book(p) ==
    /\ ~Exists(p)
    /\ LET row == appts'[p]
       IN  /\ row \in Row /\ row.status = "pending" /\ Free(appts, row, p)
           /\ appts' = [appts EXCEPT ![p] = row]

SetStatus(p, status) ==
    /\ Exists(p) /\ status \in ALLOWED_TRANSITIONS[appts[p].status]
    /\ appts' = [appts EXCEPT ![p] = [@ EXCEPT !.status = status]]

\* Only the date and the time of a live appointment move.
Move(p) ==
    /\ IsActive(appts, p) /\ appts'[p] \in Row
    /\ LET row == [appts[p] EXCEPT !.date = appts'[p].date, !.time = appts'[p].time]
       IN  Free(appts, row, p) /\ appts' = [appts EXCEPT ![p] = row]

\* A specialist goes with every appointment it has, or not at all.
Remove(s) ==
    appts' = [p \in Pk |->
                IF Exists(p) /\ appts[p].specialist = s THEN None ELSE appts[p]]

Next == \/ \E p \in Pk : Book(p)
        \/ \E p \in Pk, status \in Status : SetStatus(p, status)
        \/ \E p \in Pk : Move(p)
        \/ \E s \in Specialist : Remove(s)

Spec == Init /\ [][Next]_appts
=============================================================================
