----------------------- MODULE AppointmentMutations -----------------------
(***************************************************************************)
(* The mutating endpoints of the appointment API and of the specialist     *)
(* detail endpoint, run by concurrent gunicorn workers against PostgreSQL  *)
(* at READ COMMITTED.                                                      *)
(*                                                                         *)
(* A request is one HTTP request, handled statement by statement: between  *)
(* two statements any other request may take a step.  appts, specialists   *)
(* and hours are the committed tables; a transaction's only write is       *)
(* installed by the step that commits it.  SELECT ... FOR UPDATE takes the *)
(* lock of one row, waits while another request holds it, and returns the  *)
(* row as last committed; locks go at commit or rollback.                  *)
(***************************************************************************)
EXTENDS AppointmentRules

CONSTANTS
    Request,    \* the HTTP requests
    Jobs,       \* what a request may ask for
    Seeds,      \* the tables of appointments to start from
    SeedSlots,  \* the slot_duration of each specialist at the start
    HourRows,   \* the working hours administrators may enter
    MaxNow      \* bound: the clock stops here

StatusOps == {"cancel", "confirm", "complete", "no_show"}

\* A duration or slot_duration of 0 stands for a field left out of the body.
CreateJob     == [op : {"create"}, user : User, specialist : Specialist,
                  date : Date, time : Time, duration : Nat]
StatusJob     == [op : StatusOps, user : User, pk : Pk]
RescheduleJob == [op : {"reschedule"}, user : User, pk : Pk, date : Date, time : Time]
SpecialistJob == [op : {"delete", "patch"}, user : User, specialist : Specialist,
                  slot : Nat]

ASSUME WorkloadAssumption ==
    /\ Jobs \subseteq CreateJob \cup StatusJob \cup RescheduleJob \cup SpecialistJob
    /\ SeedSlots \in [Specialist -> Nat]
    /\ HourRows \subseteq HourRow
    /\ Seeds \subseteq {table \in Table : Disjoint(table)}
    /\ MaxNow \in Nat /\ None \notin Request

VARIABLES
    now,                \* the clock, in ticks since the midnight of day 0
    specialists,        \* table: the slot_duration of each specialist, or None
    hours,              \* table: the working hours
    appts,              \* table: the appointments
    issued,             \* the primary keys the sequence has handed out
    specialistLock,     \* the request holding each specialist's row, or None
    appointmentLock,    \* the request holding each appointment's row, or None
    job,                \* what each request asks for
    pc,                 \* where the handler of each request is, or its answer
    target,             \* the specialist the handler works on, once known
    seen,               \* the appointment the handler has read under its lock
    slot,               \* the slot_duration the handler has read
    todo,               \* the appointments a cascading delete has still to lock
    swept               \* the working hours a cascading delete has found

database == <<specialists, hours, appts, issued>>
locks    == <<specialistLock, appointmentLock>>
memory   == <<target, seen, slot, todo, swept>>
vars     == <<now, database, locks, job, pc, memory>>

Answer == {"ok", "denied", "missing", "invalid", "conflict", "error", "lost"}
PC == {"start", "located", "holding", "locked", "checking", "committing",
       "loaded", "deleting"} \cup Answer

Init ==
    /\ now = 0
    /\ specialists = SeedSlots
    /\ hours \in SUBSET HourRows
    /\ appts \in Seeds
    /\ issued = {p \in Pk : appts[p] # None}
    /\ specialistLock = [s \in Specialist |-> None]
    /\ appointmentLock = [p \in Pk |-> None]
    /\ job \in [Request -> Jobs]
    /\ pc = [r \in Request |-> "start"]
    /\ target = [r \in Request |-> None]
    /\ seen = [r \in Request |-> None]
    /\ slot = [r \in Request |-> None]
    /\ todo = [r \in Request |-> {}]
    /\ swept = [r \in Request |-> {}]

-----------------------------------------------------------------------------
(* Locks, answers, and what a request is about. *)

\* Mutants: a SELECT without FOR UPDATE.
UnlockedSpecialist(s, r)  == TRUE
UnlockedAppointment(p, r) == TRUE

SpecialistFree(s, r)  == specialistLock[s] \in {None, r}
AppointmentFree(p, r) == appointmentLock[p] \in {None, r}

Released(lock, r) == [x \in DOMAIN lock |-> IF lock[x] = r THEN None ELSE lock[x]]

Goto(r, label) == pc' = [pc EXCEPT ![r] = label]

\* Commit or rollback: the handler answers, and its locks and memory go.
Finish(r, answer) ==
    /\ Goto(r, answer)
    /\ specialistLock' = Released(specialistLock, r)
    /\ appointmentLock' = Released(appointmentLock, r)
    /\ target' = [target EXCEPT ![r] = None]
    /\ seen' = [seen EXCEPT ![r] = None]
    /\ slot' = [slot EXCEPT ![r] = None]
    /\ todo' = [todo EXCEPT ![r] = {}]
    /\ swept' = [swept EXCEPT ![r] = {}]

\* Mutant: an early return that leaves the transaction open.
RefuseInsideTransaction(r, answer) ==
    Goto(r, answer) /\ UNCHANGED <<now, database, locks, job, memory>>

\* The answer of a request that writes nothing.
Refuse(r, answer) == Finish(r, answer) /\ UNCHANGED <<now, database, job>>

Answered(r) == pc[r] \in Answer
Op(r) == job[r].op
At(r, ops, label) == Op(r) \in ops /\ pc[r] = label

\* Mutant: the serializer is not given the user.
ProposalWithoutUser(r, s, minutes) ==
    [specialist |-> s, user |-> None, date |-> job[r].date, time |-> job[r].time,
     duration |-> IF job[r].duration = 0 THEN minutes ELSE job[r].duration,
     status |-> "pending"]

\* The row a creation asks for; a duration left out is the slot's.
Proposal(r, s, minutes) ==
    [specialist |-> s, user |-> job[r].user, date |-> job[r].date, time |-> job[r].time,
     duration |-> IF job[r].duration = 0 THEN minutes ELSE job[r].duration,
     status |-> "pending"]

\* The row a creation or a reschedule would write.
Candidate(r) ==
    IF Op(r) = "create"
    THEN Proposal(r, target[r], slot[r])
    ELSE [seen[r] EXCEPT !.date = job[r].date, !.time = job[r].time]

\* The row a candidate replaces, if it has one.
Own(r) == IF Op(r) = "reschedule" THEN job[r].pk ELSE None

-----------------------------------------------------------------------------
(* Creations and reschedules: specialist first, appointment second, then     *)
(* every check, then the write.                                              *)

\* The first validation, outside any lock.  Its two reads are taken at one
\* instant: nothing it read is kept, only its verdict.
Welcome(r) ==
    LET s == job[r].specialist
        c == Proposal(r, s, specialists[s])
    IN  /\ specialists[s] # None
        /\ ~InPast(c, now)
        /\ SchedulingError(c, specialists[s], hours, appts, None) = "none"

Advise(r) ==
    /\ At(r, {"create"}, "start")
    /\ \/ ~IsCustomer(job[r].user) /\ Refuse(r, "denied")
       \/ IsCustomer(job[r].user) /\ ~Welcome(r) /\ Refuse(r, "invalid")
       \/ /\ IsCustomer(job[r].user) /\ Welcome(r)
          /\ target' = [target EXCEPT ![r] = job[r].specialist]
          /\ Goto(r, "located")
          /\ UNCHANGED <<now, database, locks, job, seen, slot, todo, swept>>

\* The unlocked read that only finds which specialist to lock.
Locate(r) ==
    /\ At(r, {"reschedule"}, "start")
    /\ LET row == appts[job[r].pk]
       IN  \/ row = None /\ Refuse(r, "missing")
           \/ /\ row # None
              /\ target' = [target EXCEPT ![r] = row.specialist]
              /\ Goto(r, "located")
              /\ UNCHANGED <<now, database, locks, job, seen, slot, todo, swept>>

LockSpecialist(r) ==
    /\ pc[r] = "located"
    /\ SpecialistFree(target[r], r)
    /\ \/ specialists[target[r]] = None /\ Refuse(r, "missing")
       \/ /\ specialists[target[r]] # None
          /\ specialistLock' = [specialistLock EXCEPT ![target[r]] = r]
          /\ slot' = [slot EXCEPT ![r] = specialists[target[r]]]
          /\ Goto(r, IF Op(r) = "create" THEN "locked" ELSE "holding")
          /\ UNCHANGED <<now, database, appointmentLock, job, target, seen, todo, swept>>

\* Mutant: a status change locks the appointment, then its specialist.
LockAppointmentFirst(r) ==
    /\ At(r, StatusOps, "start") \/ At(r, {"reschedule"}, "holding")
    /\ LET p == job[r].pk
       IN  /\ AppointmentFree(p, r) /\ appts[p] # None
           /\ appointmentLock' = [appointmentLock EXCEPT ![p] = r]
           /\ seen' = [seen EXCEPT ![r] = appts[p]]
           /\ target' = [target EXCEPT ![r] = appts[p].specialist]
           /\ Goto(r, IF Op(r) \in StatusOps THEN "located" ELSE "locked")
    /\ UNCHANGED <<now, database, specialistLock, job, slot, todo, swept>>

\* lock_appointment: what follows works on the row read under the lock.
LockAppointment(r) ==
    /\ At(r, StatusOps, "start") \/ At(r, {"reschedule"}, "holding")
    /\ LET p == job[r].pk
           moved == Op(r) = "reschedule" /\ appts[p].specialist # target[r]
       IN  /\ AppointmentFree(p, r)
           /\ \/ appts[p] = None /\ Refuse(r, "missing")
              \/ appts[p] # None /\ moved /\ Refuse(r, "conflict")
              \/ /\ appts[p] # None /\ ~moved
                 /\ appointmentLock' = [appointmentLock EXCEPT ![p] = r]
                 /\ seen' = [seen EXCEPT ![r] = appts[p]]
                 /\ Goto(r, "locked")
                 /\ UNCHANGED <<now, database, specialistLock, job, target, slot, todo, swept>>

\* What a reschedule or a creation is refused for before the table is searched.
Refused(r) ==
    \/ /\ Op(r) = "reschedule"
       /\ \/ seen[r].status \notin Active
          \/ seen[r].date = job[r].date /\ seen[r].time = job[r].time
    \/ InPast(Candidate(r), now)
    \/ HoursError(Candidate(r), slot[r],
                  Working(hours, target[r], job[r].date)) # "none"

\* The permission of a reschedule is tested here, under both locks.
Validate(r) ==
    /\ At(r, {"create", "reschedule"}, "locked")
    /\ LET allowed == Op(r) = "reschedule" => CanCancel(job[r].user, seen[r])
       IN  \/ ~allowed /\ Refuse(r, "denied")
           \/ allowed /\ Refused(r) /\ Refuse(r, "invalid")
           \/ /\ allowed /\ ~Refused(r)
              /\ Goto(r, "checking")
              /\ UNCHANGED <<now, database, locks, job, memory>>

\* The second query of scheduling_context, and the overlap test.
CheckOccupancy(r) ==
    /\ pc[r] = "checking"
    /\ \/ Collides(Candidate(r), appts, Own(r)) /\ Refuse(r, "invalid")
       \/ /\ ~Collides(Candidate(r), appts, Own(r))
          /\ Goto(r, "committing")
          /\ UNCHANGED <<now, database, locks, job, memory>>

\* The partial unique index: one active row per specialist, date and time.
SlotTaken(row, own) ==
    \E p \in Pk \ {own} :
        /\ IsActive(appts, p)
        /\ appts[p].specialist = row.specialist
        /\ appts[p].date = row.date /\ appts[p].time = row.time

\* The sequence never hands out a key twice; their order does not matter.
NextPk == CHOOSE p \in Pk : p \notin issued

\* Mutant: no unique index.
CommitCreateAnyway(r) ==
    /\ At(r, {"create"}, "committing")
    /\ Pk # issued
    /\ issued' = issued \cup {NextPk}
    /\ appts' = [appts EXCEPT ![NextPk] = Candidate(r)]
    /\ Finish(r, "ok")
    /\ UNCHANGED <<now, specialists, hours, job>>

CommitCreate(r) ==
    /\ At(r, {"create"}, "committing")
    /\ Pk # issued
    /\ issued' = issued \cup {NextPk}
    /\ IF SlotTaken(Candidate(r), None)
       THEN appts' = appts /\ Finish(r, "conflict")
       ELSE /\ appts' = [appts EXCEPT ![NextPk] = Candidate(r)]
            /\ Finish(r, "ok")
    /\ UNCHANGED <<now, specialists, hours, job>>

\* Mutant: a rescheduled appointment has to be confirmed again.
CommitRescheduleAsPending(r) ==
    /\ At(r, {"reschedule"}, "committing")
    /\ appts' = [appts EXCEPT ![job[r].pk] =
          [@ EXCEPT !.date = job[r].date, !.time = job[r].time, !.status = "pending"]]
    /\ Finish(r, "ok")
    /\ UNCHANGED <<now, specialists, hours, issued, job>>

\* save(update_fields=[date, time]): the other columns keep what they hold.
CommitReschedule(r) ==
    /\ At(r, {"reschedule"}, "committing")
    /\ LET p == job[r].pk
       IN  IF SlotTaken(Candidate(r), p)
           THEN Refuse(r, "conflict")
           ELSE /\ appts' = [appts EXCEPT ![p] =
                        [@ EXCEPT !.date = job[r].date, !.time = job[r].time]]
                /\ Finish(r, "ok")
                /\ UNCHANGED <<now, specialists, hours, issued, job>>

-----------------------------------------------------------------------------
(* Cancel, confirm, complete, no-show: under the lock of the row alone.       *)

StatusAsked == [cancel |-> "cancelled", confirm |-> "confirmed",
                complete |-> "completed", no_show |-> "no_show"]

Permitted(r) == IF Op(r) = "cancel" THEN CanCancel(job[r].user, seen[r])
                                    ELSE CanManage(job[r].user, seen[r])

\* Mutant: save() without is_valid().
CommitStatusUnchecked(r) ==
    /\ At(r, StatusOps, "locked") /\ Permitted(r)
    /\ appts' = [appts EXCEPT ![job[r].pk] = [@ EXCEPT !.status = StatusAsked[Op(r)]]]
    /\ Finish(r, "ok")
    /\ UNCHANGED <<now, specialists, hours, issued, job>>

CommitStatus(r) ==
    /\ At(r, StatusOps, "locked")
    /\ LET status == StatusAsked[Op(r)]
           legal  == status \in ALLOWED_TRANSITIONS[seen[r].status]
       IN  \/ ~Permitted(r) /\ Refuse(r, "denied")
           \/ Permitted(r) /\ ~legal /\ Refuse(r, "invalid")
           \/ /\ Permitted(r) /\ legal
              /\ appts' = [appts EXCEPT ![job[r].pk] = [@ EXCEPT !.status = status]]
              /\ Finish(r, "ok")
              /\ UNCHANGED <<now, specialists, hours, issued, job>>

-----------------------------------------------------------------------------
(* SpecialistDetailView: neither method shares the locking order above.       *)

LoadSpecialist(r) ==
    /\ At(r, {"delete", "patch"}, "start")
    /\ LET s == job[r].specialist
       IN  \/ ~IsAdmin(job[r].user) /\ Refuse(r, "denied")
           \/ IsAdmin(job[r].user) /\ specialists[s] = None /\ Refuse(r, "missing")
           \/ /\ IsAdmin(job[r].user) /\ specialists[s] # None
              /\ target' = [target EXCEPT ![r] = s]
              /\ slot' = [slot EXCEPT ![r] = specialists[s]]
              /\ Goto(r, "loaded")
              /\ UNCHANGED <<now, database, locks, job, seen, todo, swept>>

\* save() writes every column, those the body left out as they were loaded; if
\* the row is gone it inserts it again.
SaveSpecialist(r) ==
    /\ At(r, {"patch"}, "loaded")
    /\ SpecialistFree(target[r], r)
    /\ specialists' = [specialists EXCEPT ![target[r]] =
                           IF job[r].slot = 0 THEN slot[r] ELSE job[r].slot]
    /\ Finish(r, "ok")
    /\ UNCHANGED <<now, hours, appts, issued, job>>

\* The cascade deletes the working hours it finds, then the appointments its
\* snapshot shows, row by row, ...
ScanAppointments(r) ==
    /\ At(r, {"delete"}, "loaded")
    /\ todo' = [todo EXCEPT ![r] =
                    {p \in Pk : appts[p] # None /\ appts[p].specialist = target[r]}]
    /\ swept' = [swept EXCEPT ![r] = {h \in hours : h.specialist = target[r]}]
    /\ Goto(r, "deleting")
    /\ UNCHANGED <<now, database, locks, job, target, seen, slot>>

\* ... waiting for each row's lock, in no order the code fixes, ...
LockDoomedRow(r) ==
    /\ pc[r] = "deleting"
    /\ \E p \in todo[r] :
         /\ AppointmentFree(p, r)
         /\ todo' = [todo EXCEPT ![r] = @ \ {p}]
         /\ appointmentLock' =
              IF appts[p] # None /\ appts[p].specialist = target[r]
              THEN [appointmentLock EXCEPT ![p] = r] ELSE appointmentLock
    /\ UNCHANGED <<now, database, specialistLock, job, pc, target, seen, slot, swept>>

\* ... and the specialist's row comes last.
LockDoomedSpecialist(r) ==
    /\ pc[r] = "deleting" /\ todo[r] = {}
    /\ SpecialistFree(target[r], r)
    /\ specialistLock' = [specialistLock EXCEPT ![target[r]] = r]
    /\ Goto(r, "locked")
    /\ UNCHANGED <<now, database, appointmentLock, job, memory>>

\* Mutant: no foreign key.
OrphanedUnseen(r) == FALSE

\* The foreign keys are checked at commit: a row added meanwhile refuses it.
Orphaned(r) ==
    \/ \E p \in Pk : /\ appts[p] # None /\ appts[p].specialist = target[r]
                     /\ appointmentLock[p] # r
    \/ \E h \in hours \ swept[r] : h.specialist = target[r]

CommitDelete(r) ==
    /\ At(r, {"delete"}, "locked")
    /\ IF Orphaned(r)
       THEN Refuse(r, "error")
       ELSE /\ appts' = [p \in Pk |-> IF appointmentLock[p] = r THEN None ELSE appts[p]]
            /\ specialists' = [specialists EXCEPT ![target[r]] = None]
            /\ hours' = hours \ swept[r]
            /\ Finish(r, "ok")
            /\ UNCHANGED <<now, issued, job>>

-----------------------------------------------------------------------------
(* Deadlock detection, crashes, the clock, and the working hours' endpoints.  *)

SpecialistsWanted(r) ==
    IF \/ pc[r] = "located"
       \/ At(r, {"patch"}, "loaded")
       \/ pc[r] = "deleting" /\ todo[r] = {}
    THEN {target[r]} ELSE {}

AppointmentsWanted(r) ==
    IF At(r, StatusOps, "start") \/ At(r, {"reschedule"}, "holding") THEN {job[r].pk}
    ELSE IF pc[r] = "deleting" THEN todo[r]
    ELSE {}

WaitsFor(r, q) ==
    /\ q # r
    /\ \/ \E s \in SpecialistsWanted(r) : specialistLock[s] = q
       \/ \E p \in AppointmentsWanted(r) : appointmentLock[p] = q

\* Every member waits for a member, and is waited for by one.
Deadlocked(group) ==
    /\ group # {}
    /\ \A r \in group : /\ \E q \in group : WaitsFor(r, q)
                        /\ \E q \in group : WaitsFor(q, r)

\* PostgreSQL rolls one of them back.  mutation_transaction answers 400; the
\* specialist endpoints let the error through.
DeadlockVictim(r) ==
    /\ \E group \in SUBSET Request : r \in group /\ Deadlocked(group)
    /\ Refuse(r, IF Op(r) = "delete" THEN "error" ELSE "conflict")

\* The worker is killed, or loses its connection, before it commits.
Crash(r) == ~Answered(r) /\ Refuse(r, "lost")

Tick ==
    /\ now < MaxNow
    /\ now' = now + 1
    /\ UNCHANGED <<database, locks, job, pc, memory>>

\* The new row's foreign key needs a share lock on the specialist, which waits
\* while the row is locked for update; a deletion needs none.  Two additions can
\* both pass the overlap check of WorkingHourWriteSerializer, so none is made here.
AddHours ==
    \E h \in HourRows \ hours :
        /\ specialists[h.specialist] # None /\ specialistLock[h.specialist] = None
        /\ hours' = hours \cup {h}
        /\ UNCHANGED <<now, specialists, appts, issued, locks, job, pc, memory>>

RemoveHours ==
    \E h \in hours :
        /\ hours' = hours \ {h}
        /\ UNCHANGED <<now, specialists, appts, issued, locks, job, pc, memory>>

Terminating == (\A r \in Request : Answered(r)) /\ UNCHANGED vars

Step(r) ==
    \/ Advise(r) \/ Locate(r) \/ LockSpecialist(r) \/ LockAppointment(r)
    \/ Validate(r) \/ CheckOccupancy(r) \/ CommitCreate(r) \/ CommitReschedule(r)
    \/ CommitStatus(r)
    \/ LoadSpecialist(r) \/ SaveSpecialist(r)
    \/ ScanAppointments(r) \/ LockDoomedRow(r) \/ LockDoomedSpecialist(r)
    \/ CommitDelete(r)

Next == \/ \E r \in Request : Step(r)
        \/ \E r \in Request : DeadlockVictim(r)
        \/ \E r \in Request : Crash(r)
        \/ Tick \/ AddHours \/ RemoveHours
        \/ Terminating

Spec == Init /\ [][Next]_vars

\* A worker that can run its next statement does, and the deadlock detector
\* runs.  Nobody need crash, edit the hours, or see the clock advance.
FairSpec == Spec /\ \A r \in Request : WF_vars(Step(r) \/ DeadlockVictim(r))

-----------------------------------------------------------------------------
(* Properties. *)

TypeOK ==
    /\ now \in 0 .. MaxNow
    /\ specialists \in [Specialist -> Nat \cup {None}]
    /\ hours \subseteq HourRows
    /\ appts \in Table
    /\ issued \subseteq Pk
    /\ specialistLock \in [Specialist -> Request \cup {None}]
    /\ appointmentLock \in [Pk -> Request \cup {None}]
    /\ job \in [Request -> Jobs]
    /\ pc \in [Request -> PC]
    /\ target \in [Request -> Specialist \cup {None}]
    /\ seen \in [Request -> Row \cup {None}]
    /\ slot \in [Request -> Nat \cup {None}]
    /\ todo \in [Request -> SUBSET Pk]
    /\ swept \in [Request -> SUBSET HourRows]

\* Whatever creations, reschedules and edits race, no two active appointments
\* of a specialist ever share an instant (scheduling.py with the specialist
\* lock of transactions.py).
NoActiveOverlap == Disjoint(appts)

\* What a handler read under its locks is what the tables still hold until it
\* answers: the specialist's slot_duration, and the appointment's row
\* (select_for_update in transactions.py; the writers outside it wait as well).
Holding(r) == pc[r] \in {"locked", "checking", "committing"}

ReadsHold ==
    \A r \in Request :
        /\ Holding(r) /\ Op(r) \in {"create", "reschedule"} =>
              specialists[target[r]] = slot[r]
        /\ Holding(r) /\ Op(r) \in StatusOps \cup {"reschedule"} =>
              appts[job[r].pk] = seen[r]

\* A handler that is about to write still has the free interval it found:
\* nothing another API request commits can make that check out of date.
ValidationHolds ==
    \A r \in Request : pc[r] = "committing" => Free(appts, Candidate(r), Own(r))

\* An appointment, and an interval of working hours, always refers to an existing
\* specialist, although a specialist is deleted without the lock order of the
\* bookings.
NoOrphans ==
    /\ \A p \in Pk : appts[p] # None => specialists[appts[p].specialist] # None
    /\ \A h \in hours : specialists[h.specialist] # None

\* Of the requests that end the same appointment, one alone is told it did.
Ends(r) == pc[r] = "ok" /\ Op(r) \in {"cancel", "complete", "no_show"}

OneTerminalWinner ==
    \A r, q \in Request :
        Ends(r) /\ Ends(q) /\ job[r].pk = job[q].pk => r = q

\* An appointment a client was told is cancelled, completed or a no-show stays
\* so for as long as it exists.
AnsweredStatusHolds ==
    \A r \in Request :
        Ends(r) => \/ appts[job[r].pk] = None
                   \/ appts[job[r].pk].status = StatusAsked[Op(r)]

\* The lock order of transactions.py suffices: requests of the appointment API
\* never wait for each other in a circle.  Only deleting a specialist, which
\* locks the appointments first, can close one.
NoMutationDeadlock ==
    \A group \in SUBSET Request :
        Deadlocked(group) => \E r \in group : Op(r) = "delete"

\* Every request is answered: waiting for locks, deadlocks included, ends.
EveryRequestAnswered == \A r \in Request : <>Answered(r)

\* The table moves only as the abstract book allows.
Book == INSTANCE AppointmentBook WITH appts <- appts
ImplementsBook == Book!Spec

\* Specialists and their hours move here only as HoursBook allows, which the
\* endpoints of WorkingHours are shown to implement: AddHours and RemoveHours
\* assume no more of them, and a deletion leaves no interval behind.
Hours == INSTANCE HoursBook WITH
             specialists <- {s \in Specialist : specialists[s] # None}, hours <- hours
ImplementsHours == Hours!Spec

=============================================================================
