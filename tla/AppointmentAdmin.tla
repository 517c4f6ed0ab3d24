-------------------------- MODULE AppointmentAdmin --------------------------
(***************************************************************************)
(* The mutating endpoints beside the Django admin site, whose appointment   *)
(* form saves a whole row after full_clean() alone: no specialist lock, no  *)
(* overlap check, no lifecycle.  What the database itself enforces is left: *)
(* row locks, the partial unique index, the foreign key.                    *)
(***************************************************************************)
EXTENDS AppointmentMutations

CONSTANT AdminRows      \* bound: the rows administrators may save

SameSlot(a, b) == a.specialist = b.specialist /\ a.date = b.date /\ a.time = b.time

\* The unique index holds of the tables to start from.
ASSUME AdminAssumption ==
    /\ AdminRows \subseteq Row
    /\ \A table \in Seeds : \A p, q \in Pk :
          IsActive(table, p) /\ IsActive(table, q) /\ SameSlot(table[p], table[q])
              => p = q

VARIABLE removed    \* auxiliary: the rows that have been deleted

adminVars == <<vars, removed>>

\* Appointment.clean(): the start lies within some working hours of the day;
\* the end is not looked at.
Works(row) ==
    \E h \in Working(hours, row.specialist, row.date) :
        h.start <= row.time /\ row.time < h.end

\* A row that gets a specialist it did not have needs a share lock on it.
ReferenceFree(row) ==
    specialists[row.specialist] # None /\ specialistLock[row.specialist] = None

AdminAdd ==
    \E row \in AdminRows :
        /\ Works(row) /\ ReferenceFree(row)
        /\ row.status \in Active => ~SlotTaken(row, None)
        /\ Pk # issued
        /\ issued' = issued \cup {NextPk}
        /\ appts' = [appts EXCEPT ![NextPk] = row]
        /\ UNCHANGED <<now, specialists, hours, locks, job, pc, memory>>

\* save() writes every column, and inserts a row again that has gone since
\* get_object().
AdminChange ==
    \E p \in Pk, row \in AdminRows :
        /\ appts[p] # None \/ p \in removed
        /\ appointmentLock[p] = None
        /\ Works(row)
        /\ \/ appts[p] # None /\ appts[p].specialist = row.specialist
           \/ ReferenceFree(row)
        /\ row.status \in Active => ~SlotTaken(row, p)
        /\ appts' = [appts EXCEPT ![p] = row]
        /\ UNCHANGED <<now, specialists, hours, issued, locks, job, pc, memory>>

AdminRemove ==
    \E p \in Pk :
        /\ appts[p] # None /\ appointmentLock[p] = None
        /\ appts' = [appts EXCEPT ![p] = None]
        /\ UNCHANGED <<now, specialists, hours, issued, locks, job, pc, memory>>

AdminNext ==
    /\ Next \/ AdminAdd \/ AdminChange \/ AdminRemove
    /\ removed' = removed \cup {p \in Pk : appts[p] # None /\ appts'[p] = None}

AdminSpec == Init /\ removed = {} /\ [][AdminNext]_adminVars

-----------------------------------------------------------------------------
\* The last line of defence, for writers that take no lock: never two active
\* appointments of a specialist with the same date and time.
UniqueActiveSlot ==
    \A p \in Pk : IsActive(appts, p) => ~SlotTaken(appts[p], p)

=============================================================================
