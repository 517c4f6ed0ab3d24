-------------------- MODULE AppointmentPromises_proofs --------------------
(***************************************************************************)
(* What the answers of the appointment endpoints promise, for any workload:   *)
(* that an end told to a client is final, that one request alone is told it,  *)
(* that a deleted specialist leaves with all of its working hours, and that   *)
(* the slots shown are those that can be booked; and what the database keeps  *)
(* of it beside an admin site that takes part in none of it.                 *)
(***************************************************************************)
EXTENDS SpecialistAvailability, AppointmentAdmin, AppointmentMutations_proofs

-----------------------------------------------------------------------------
(* Ends. *)

Terminal == {"cancelled", "completed", "no_show"}

\* An appointment that was ended had been issued its key, which no other gets.
Ended == /\ OneTerminalWinner /\ AnsweredStatusHolds
         /\ \A r \in Request : Ends(r) => job[r].pk \in issued

\* A step leaves an ended appointment ended, or removes it.
Lasting(p) ==
    appts'[p] # None =>
        appts[p] # None /\ (appts[p].status \in Terminal => appts'[p].status = appts[p].status)

\* The commits, of which alone the tables and the answers "ok" come.
Commit(r) == \/ CommitCreate(r) \/ CommitReschedule(r) \/ CommitStatus(r)
             \/ SaveSpecialist(r) \/ CommitDelete(r)

LEMMA EndsTerminal ==
    ASSUME NEW r \in Request, Op(r) \in {"cancel", "complete", "no_show"}
    PROVE  StatusAsked[Op(r)] \in Terminal
BY DEF StatusAsked, Terminal

LEMMA EndedStays ==
    ASSUME Ended, job' = job, issued \subseteq issued',
           \A q \in Request : Ends(q)' => Ends(q),
           \A p \in issued : Lasting(p)
    PROVE  Ended'
<1>1. \A q \in Request : Op(q)' = Op(q)
  BY DEF Op
<1>2. OneTerminalWinner'
  BY DEF Ended, OneTerminalWinner
<1>3. AnsweredStatusHolds'
  <2> SUFFICES ASSUME NEW q \in Request, Ends(q)', appts'[job[q].pk] # None
               PROVE  appts'[job[q].pk].status = StatusAsked[Op(q)]
    BY <1>1 DEF AnsweredStatusHolds, StatusAsked
  <2> DEFINE p == job[q].pk
  <2>1. Ends(q) /\ p \in issued
    BY DEF Ended
  <2>2. appts[p] # None /\ appts[p].status = StatusAsked[Op(q)]
    BY <2>1 DEF Ended, AnsweredStatusHolds, Lasting
  <2>3. StatusAsked[Op(q)] \in Terminal
    BY <2>1, EndsTerminal DEF Ends
  <2> QED
    BY <2>1, <2>2, <2>3 DEF Lasting
<1> QED
  BY <1>2, <1>3 DEF Ended

\* A step that is not a commit writes nothing and answers no one "ok".
LEMMA QuietSteps ==
    ASSUME TypeOK, [Next]_vars, \A r \in Request : ~Commit(r)
    PROVE  /\ UNCHANGED <<appts, issued, job>>
           /\ \A q \in Request : pc'[q] = "ok" => pc[q] = "ok"
<1>1. ASSUME NEW r \in Request, NEW answer \in Answer \ {"ok"}, Refuse(r, answer)
      PROVE  /\ UNCHANGED <<appts, issued, job>>
             /\ \A q \in Request : pc'[q] = "ok" => pc[q] = "ok"
  BY <1>1 DEF Refuse, database, Finish, Goto, TypeOK
<1>2. ASSUME NEW r \in Request, NEW label, label # "ok", Goto(r, label), UNCHANGED <<database, job>>
      PROVE  /\ UNCHANGED <<appts, issued, job>>
             /\ \A q \in Request : pc'[q] = "ok" => pc[q] = "ok"
  BY <1>2 DEF database, Goto, TypeOK
<1>3. ASSUME NEW r \in Request, Step(r)
      PROVE  /\ UNCHANGED <<appts, issued, job>>
             /\ \A q \in Request : pc'[q] = "ok" => pc[q] = "ok"
  <2>1. CASE Advise(r) \/ Locate(r) \/ LockSpecialist(r) \/ LockAppointment(r)
    BY <2>1, <1>1, <1>2 DEF Advise, Locate, LockSpecialist, LockAppointment, Answer
  <2>2. CASE Validate(r) \/ CheckOccupancy(r) \/ LoadSpecialist(r) \/ ScanAppointments(r)
    BY <2>2, <1>1, <1>2 DEF Validate, CheckOccupancy, LoadSpecialist, ScanAppointments, Answer
  <2>3. CASE LockDoomedRow(r) \/ LockDoomedSpecialist(r)
    BY <2>3, <1>2 DEF LockDoomedRow, LockDoomedSpecialist, database
  <2> QED
    BY <1>3, <2>1, <2>2, <2>3 DEF Step, Commit
<1>4. ASSUME NEW r \in Request, DeadlockVictim(r) \/ Crash(r)
      PROVE  /\ UNCHANGED <<appts, issued, job>>
             /\ \A q \in Request : pc'[q] = "ok" => pc[q] = "ok"
  BY <1>1, <1>4 DEF DeadlockVictim, Crash, Answer
<1>5. CASE Tick \/ AddHours \/ RemoveHours \/ Terminating \/ UNCHANGED vars
  BY <1>5 DEF Tick, AddHours, RemoveHours, Terminating, vars, database
<1> QED
  BY <1>3, <1>4, <1>5 DEF Next

\* A request that does not ask for an end ends nothing.
LEMMA NoNewEnd ==
    ASSUME TypeOK, NEW r \in Request, NEW answer \in Answer, Finish(r, answer), job' = job,
           answer = "ok" => Op(r) \notin {"cancel", "complete", "no_show"}
    PROVE  \A q \in Request : Ends(q)' => Ends(q)
BY FinishEffects DEF Ends, Op

LEMMA CreateEnded ==
    ASSUME LInv, Ended, NEW r \in Request, CommitCreate(r)
    PROVE  Ended'
<1>1. TypeOK /\ Op(r) = "create" /\ job' = job /\ issued \subseteq issued'
  BY DEF LInv, CommitCreate, At
<1>2. \A q \in Request : Ends(q)' => Ends(q)
  BY <1>1, NoNewEnd DEF CommitCreate, Answer
<1>3. \A p \in issued : appts'[p] = appts[p]
  BY <1>1, NextPkFresh DEF CommitCreate, TypeOK, Table
<1> QED
  BY <1>1, <1>2, <1>3, EndedStays DEF Lasting

LEMMA RescheduleEnded ==
    ASSUME LInv, Ended, NEW r \in Request, CommitReschedule(r)
    PROVE  Ended'
<1> DEFINE p == job[r].pk
<1>1. TypeOK /\ Op(r) = "reschedule" /\ job' = job /\ issued' = issued
  BY DEF LInv, CommitReschedule, At, Refuse, database
<1>2. \A q \in Request : Ends(q)' => Ends(q)
  BY <1>1, NoNewEnd DEF CommitReschedule, Refuse, Answer
<1>3. p \in Pk /\ appts[p] \in Row /\ appts[p] # None
  BY <1>1, JobTypes, DirectoryAssumption
     DEF CommitReschedule, At, LInv, Sound, HoldsAppointment, Rowing, Holding, Row
<1>4. appts' = appts \/ appts' = [appts EXCEPT ![p] =
                                      [@ EXCEPT !.date = job[r].date, !.time = job[r].time]]
  BY DEF CommitReschedule, Refuse, database
<1>5. \A k \in issued : Lasting(k)
  <2>1. \A k \in Pk : k # p => appts'[k] = appts[k]
    BY <1>1, <1>4 DEF TypeOK, Table
  <2>2. appts'[p].status = appts[p].status
    BY <1>1, <1>3, <1>4 DEF TypeOK, Table, Row
  <2> QED
    BY <1>1, <1>3, <2>1, <2>2 DEF Lasting, TypeOK
<1> QED
  BY <1>1, <1>2, <1>5, EndedStays

\* The legality of a change of status is tested under the lock of the row.
LEMMA StatusEnded ==
    ASSUME LInv, Ended, NEW r \in Request, CommitStatus(r)
    PROVE  Ended'
<1> DEFINE p == job[r].pk
           status == StatusAsked[Op(r)]
<1>1. TypeOK /\ Op(r) \in StatusOps /\ job' = job /\ issued' = issued
  BY DEF LInv, CommitStatus, At, Refuse, database
<1>2. p \in Pk /\ appts[p] \in Row /\ appts[p] = seen[r] /\ appts[p] # None
  BY <1>1, JobTypes, DirectoryAssumption
     DEF CommitStatus, At, LInv, Sound, HoldsAppointment, Rowing, Holding, Row
<1>3. CASE \E answer \in {"denied", "invalid"} : Refuse(r, answer)
  <2>1. \A q \in Request : Ends(q)' => Ends(q)
    BY <1>1, <1>3, NoNewEnd DEF Refuse, Answer
  <2> QED
    BY <1>1, <1>3, <2>1, EndedStays DEF Lasting, Refuse, database
<1>4. CASE /\ status \in ALLOWED_TRANSITIONS[seen[r].status]
           /\ appts' = [appts EXCEPT ![p] = [@ EXCEPT !.status = status]]
           /\ Finish(r, "ok")
  <2>1. appts[p].status \notin Terminal /\ appts[p].status \in Status
    BY <1>2, <1>4 DEF ALLOWED_TRANSITIONS, Terminal, Row, Status
  <2>2. p \in issued /\ appts'[p].status = status
    BY <1>1, <1>2, <1>4 DEF LInv, KeysIssued, TypeOK, Table, Row
  <2>3. \A k \in Pk : k # p => appts'[k] = appts[k]
    BY <1>1, <1>4 DEF TypeOK, Table
  <2>4. \A q \in Request : q # r /\ Ends(q)' => Ends(q)
    BY <1>1, <1>4, FinishEffects DEF Ends, Op, Answer
  <2>5. \A q \in Request : Ends(q) => job[q].pk # p
    BY <1>2, <2>1, EndsTerminal DEF Ended, AnsweredStatusHolds, Ends
  <2>6. OneTerminalWinner'
    BY <1>1, <2>4, <2>5 DEF Ended, OneTerminalWinner
  <2>7. AnsweredStatusHolds'
    <3> SUFFICES ASSUME NEW q \in Request, Ends(q)', appts'[job[q].pk] # None
                 PROVE  appts'[job[q].pk].status = StatusAsked[Op(q)]
      BY <1>1 DEF AnsweredStatusHolds, Op, StatusAsked
    <3>1. CASE q = r
      BY <3>1, <2>2
    <3>2. CASE q # r
      BY <1>1, <2>3, <2>4, <2>5, <3>2, JobTypes DEF Ended, AnsweredStatusHolds, Ends, StatusOps
    <3> QED
      BY <3>1, <3>2
  <2> QED
    BY <1>1, <2>2, <2>4, <2>6, <2>7 DEF Ended
<1> QED
  BY <1>3, <1>4 DEF CommitStatus

LEMMA DeleteEnded ==
    ASSUME LInv, Ended, NEW r \in Request, SaveSpecialist(r) \/ CommitDelete(r)
    PROVE  Ended'
<1>1. TypeOK /\ Op(r) \in {"patch", "delete"} /\ job' = job /\ issued' = issued
  BY DEF LInv, SaveSpecialist, CommitDelete, At, Refuse, database
<1>2. \A q \in Request : Ends(q)' => Ends(q)
  BY <1>1, NoNewEnd DEF SaveSpecialist, CommitDelete, Refuse, Answer
<1>3. \A p \in Pk : appts'[p] \in {None, appts[p]}
  BY <1>1 DEF SaveSpecialist, CommitDelete, Refuse, database, TypeOK, Table
<1> QED
  BY <1>1, <1>2, <1>3, EndedStays DEF Lasting, TypeOK

LEMMA NextEnded == LInv /\ Ended /\ [Next]_vars => Ended'
<1> SUFFICES ASSUME LInv, Ended, [Next]_vars
             PROVE  Ended'
  OBVIOUS
<1>1. ASSUME NEW r \in Request, Commit(r)
      PROVE  Ended'
  BY <1>1, CreateEnded, RescheduleEnded, StatusEnded, DeleteEnded DEF Commit
<1>2. CASE \A r \in Request : ~Commit(r)
  <2>1. UNCHANGED <<appts, issued, job>> /\ \A q \in Request : Ends(q)' => Ends(q)
    BY <1>2, QuietSteps DEF LInv, Ends, Op
  <2> QED
    BY <2>1, EndedStays DEF Lasting
<1> QED
  BY <1>1, <1>2

LEMMA EndedAlways == Spec => []Ended
<1>1. Init => Ended
  BY DEF Init, Ended, OneTerminalWinner, AnsweredStatusHolds, Ends
<1> QED
  BY <1>1, NextEnded, LockInvariance, PTL DEF Spec

\* Of the requests that end one appointment (cancel, complete, no-show), a single one is
\* answered so: the transition is tested under the lock of the row (lock_appointment).
THEOREM OneTerminalWinnerHolds == Spec => []OneTerminalWinner
<1>1. Ended => OneTerminalWinner
  BY DEF Ended
<1> QED
  BY <1>1, EndedAlways, PTL

\* No later request, however it raced, undoes the end that a client was told.
THEOREM AnsweredStatusAlways == Spec => []AnsweredStatusHolds
<1>1. Ended => AnsweredStatusHolds
  BY DEF Ended
<1> QED
  BY <1>1, EndedAlways, PTL

-----------------------------------------------------------------------------
(* The working hours. *)

\* What a deletion has swept is of the specialist it deletes.
Doomed(r) == pc[r] = "deleting" \/ At(r, {"delete"}, "locked")
SweptOwn == \A r \in Request : Doomed(r) => \A h \in swept[r] : h.specialist = target[r]

LEMMA SweptOwnStep ==
    ASSUME LInv, SweptOwn, NEW r \in Request, Step(r)
    PROVE  SweptOwn'
<1>0. TypeOK /\ Stage(r)
  BY DEF LInv, Sound
<1>1. ASSUME NEW answer \in Answer, Finish(r, answer), job' = job
      PROVE  SweptOwn'
  BY <1>0, <1>1 DEF Finish, Goto, Answer, SweptOwn, Doomed, At, Op, TypeOK
<1>2. ASSUME NEW label, Goto(r, label), UNCHANGED <<job, swept>>,
             label # "deleting", Op(r) = "delete" => label # "locked",
             \A q \in Request : q # r => target'[q] = target[q]
      PROVE  SweptOwn'
  BY <1>0, <1>2 DEF Goto, SweptOwn, Doomed, At, Op, TypeOK
<1>3. CASE Advise(r) \/ Locate(r) \/ LoadSpecialist(r)
  BY <1>0, <1>1, <1>2, <1>3 DEF Advise, Locate, LoadSpecialist, Refuse, Answer, TypeOK
<1>4. CASE LockSpecialist(r) \/ LockAppointment(r)
  BY <1>0, <1>1, <1>2, <1>4
     DEF LockSpecialist, LockAppointment, At, StatusOps, Refuse, Answer, Stage, Booking
<1>5. CASE Validate(r) \/ CheckOccupancy(r)
  BY <1>0, <1>1, <1>2, <1>5 DEF Validate, CheckOccupancy, Refuse, Answer, memory
<1>6. CASE Commit(r)
  BY <1>1, <1>6 DEF Commit, CommitCreate, CommitReschedule, CommitStatus, SaveSpecialist,
                    CommitDelete, Refuse, Answer
<1>7. CASE ScanAppointments(r)
  BY <1>0, <1>7 DEF ScanAppointments, Goto, SweptOwn, Doomed, At, Op, TypeOK
<1>8. CASE LockDoomedRow(r) \/ LockDoomedSpecialist(r)
  BY <1>0, <1>8 DEF LockDoomedRow, LockDoomedSpecialist, memory, Goto, SweptOwn, Doomed, At,
                    Op, TypeOK
<1> QED
  BY <1>3, <1>4, <1>5, <1>6, <1>7, <1>8 DEF Step, Commit

LEMMA NextSweptOwn == LInv /\ SweptOwn /\ [Next]_vars => SweptOwn'
<1> SUFFICES ASSUME LInv, SweptOwn, [Next]_vars
             PROVE  SweptOwn'
  OBVIOUS
<1>1. ASSUME NEW r \in Request, DeadlockVictim(r) \/ Crash(r)
      PROVE  SweptOwn'
  BY <1>1 DEF DeadlockVictim, Crash, Refuse, Finish, Goto, SweptOwn, Doomed, At, Op, LInv, TypeOK
<1>2. CASE Tick \/ AddHours \/ RemoveHours \/ Terminating \/ UNCHANGED vars
  BY <1>2 DEF Tick, AddHours, RemoveHours, Terminating, vars, memory, SweptOwn, Doomed, At, Op
<1> QED
  BY <1>1, <1>2, SweptOwnStep DEF Next

LEMMA SweptOwnAlways == Spec => []SweptOwn
<1>1. Init => SweptOwn
  BY DEF Init, SweptOwn, Doomed, At
<1> QED
  BY <1>1, NextSweptOwn, LockInvariance, PTL DEF Spec

\* The specialists there are, as HoursBook counts them.
Employed == {s \in Specialist : specialists[s] # None}

LEMMA SaveHires ==
    ASSUME LInv, NEW r \in Request, SaveSpecialist(r)
    PROVE  [Hours!Next]_<<Employed, hours>>
<1> DEFINE minutes == IF job[r].slot = 0 THEN slot[r] ELSE job[r].slot
<1>1. target[r] \in Specialist /\ minutes # None
  BY JobTypes, DirectoryAssumption DEF SaveSpecialist, At, LInv, Sound, Stage
<1>2. Employed' = Employed \cup {target[r]} /\ hours' = hours
  BY <1>1 DEF SaveSpecialist, Employed, LInv, TypeOK
<1> QED
  BY <1>1, <1>2 DEF Hours!Next, Hours!Hire, Employed

LEMMA DeleteDismisses ==
    ASSUME LInv, SweptOwn, NEW r \in Request, CommitDelete(r)
    PROVE  [Hours!Next]_<<Employed, hours>>
<1>1. CASE Refuse(r, "error")
  BY <1>1 DEF Refuse, database, Employed
<1>2. CASE /\ ~Orphaned(r)
           /\ specialists' = [specialists EXCEPT ![target[r]] = None]
           /\ hours' = hours \ swept[r]
  <2>1. target[r] \in Specialist /\ Doomed(r)
    BY DEF CommitDelete, At, Doomed, LInv, Sound, Stage, Holding, StatusOps
  <2>2. Employed' = Employed \ {target[r]}
    BY <1>2, <2>1 DEF Employed, LInv, TypeOK
  <2>3. hours \subseteq HourRow
    BY WorkloadAssumption DEF LInv, TypeOK
  <2>4. hours' = hours \ Hours!Of(target[r])
    BY <1>2, <2>1, <2>3 DEF Orphaned, SweptOwn, Hours!Of
  <2> QED
    BY <2>1, <2>2, <2>4 DEF Hours!Next, Hours!Dismiss, Employed
<1> QED
  BY <1>1, <1>2 DEF CommitDelete

LEMMA EditsEnter ==
    ASSUME LInv, AddHours \/ RemoveHours
    PROVE  [Hours!Next]_<<Employed, hours>>
<1>1. hours \subseteq HourRow /\ HourRows \subseteq HourRow /\ Employed' = Employed
  BY WorkloadAssumption DEF LInv, TypeOK, AddHours, RemoveHours, Employed
<1>2. CASE AddHours
  <2>1. PICK h \in HourRows \ hours :
               specialists[h.specialist] # None /\ hours' = hours \cup {h}
    BY <1>2 DEF AddHours
  <2>2. h.specialist \in Employed
    BY <1>1, <2>1 DEF Employed, HourRow
  <2>3. Hours!Add(h)
    BY <1>1, <2>1, <2>2 DEF Hours!Add, Employed
  <2> QED
    BY <1>1, <2>3 DEF Hours!Next
<1>3. CASE RemoveHours
  <2>1. PICK h \in hours : hours' = hours \ {h}
    BY <1>3 DEF RemoveHours
  <2>2. Hours!Remove(h)
    BY <1>1, <2>1 DEF Hours!Remove, Employed
  <2> QED
    BY <1>1, <2>2 DEF Hours!Next
<1> QED
  BY <1>2, <1>3

\* No other step touches the two tables.
LEMMA OthersLeaveHours ==
    ASSUME [Next]_vars, ~AddHours, ~RemoveHours,
           \A r \in Request : ~SaveSpecialist(r) /\ ~CommitDelete(r)
    PROVE  UNCHANGED <<Employed, hours>>
<1>1. ASSUME NEW r \in Request, NEW answer, Refuse(r, answer)
      PROVE  UNCHANGED <<specialists, hours>>
  BY <1>1 DEF Refuse, database
<1>2. ASSUME NEW r \in Request, Step(r)
      PROVE  UNCHANGED <<specialists, hours>>
  BY <1>1, <1>2
     DEF Step, Advise, Locate, LockSpecialist, LockAppointment, Validate, CheckOccupancy,
         CommitCreate, CommitReschedule, CommitStatus, LoadSpecialist, ScanAppointments,
         LockDoomedRow, LockDoomedSpecialist, database
<1>3. ASSUME NEW r \in Request, DeadlockVictim(r) \/ Crash(r)
      PROVE  UNCHANGED <<specialists, hours>>
  BY <1>1, <1>3 DEF DeadlockVictim, Crash
<1>4. CASE Tick \/ Terminating \/ UNCHANGED vars
  BY <1>4 DEF Tick, Terminating, vars, database, Employed
<1> QED
  BY <1>2, <1>3, <1>4 DEF Next, Employed

\* Under every interleaving with bookings, edits and other deletions a specialist is deleted
\* with exactly its working hours, or not at all (SpecialistDetailView.destroy, the cascade
\* of specialists/models.py): the tables move as HoursBook allows.
THEOREM MutationsImplementHours == Spec => ImplementsHours
<1>1. Init /\ LInv => Hours!Init
  <2> SUFFICES ASSUME LInv
               PROVE  Hours!Init
    OBVIOUS
  <2>1. hours \subseteq HourRow
    BY WorkloadAssumption DEF LInv, TypeOK
  <2> QED
    BY <2>1 DEF LInv, NoOrphans, HourRow, Hours!Init
<1>2. LInv /\ SweptOwn /\ [Next]_vars => [Hours!Next]_<<Employed, hours>>
  BY SaveHires, DeleteDismisses, EditsEnter, OthersLeaveHours
<1> QED
  BY <1>1, <1>2, LockInvariance, SweptOwnAlways, PTL
     DEF Spec, ImplementsHours, Hours!Spec, Employed

-----------------------------------------------------------------------------
(* The slots shown. *)

\* A step of the grid is reached by counting slots from the start, and there are
\* no more slots than minutes in a day.
LEMMA GridCounts ==
    ASSUME NEW x \in Nat, x < DayTicks, NEW minutes \in Nat \ {0},
           x % (minutes * MinuteTicks) = 0
    PROVE  \E k \in 0 .. DayMinutes : x = k * (minutes * MinuteTicks)
<1> DEFINE d == minutes * MinuteTicks
           k == x \div d
<1>1. d \in Nat \ {0} /\ d >= MinuteTicks
  <2>1. /\ (minutes - 1) * MinuteTicks \in Nat
        /\ minutes * MinuteTicks = (minutes - 1) * MinuteTicks + MinuteTicks
    BY CalendarAssumption
  <2> QED
    BY <2>1, CalendarAssumption
<1> HIDE DEF d
<1>2. k \in Nat /\ x = k * d
  <2>1. x % d = 0
    BY DEF d
  <2> QED
    BY <1>1, <2>1
<1> HIDE DEF k
<1>3. k <= DayMinutes
  <2> SUFFICES ASSUME k > DayMinutes
               PROVE  FALSE
    BY <1>2, CalendarAssumption
  <2>1. PICK j \in Nat : k = DayMinutes + j
    <3>1. k - DayMinutes \in Nat /\ k = DayMinutes + (k - DayMinutes)
      BY <1>2, CalendarAssumption
    <3> QED
      BY <3>1
  <2>2. PICK e \in Nat : d = MinuteTicks + e
    <3>1. d - MinuteTicks \in Nat /\ d = MinuteTicks + (d - MinuteTicks)
      BY <1>1, CalendarAssumption
    <3> QED
      BY <3>1
  <2>3. k * d = DayMinutes * MinuteTicks + j * MinuteTicks + k * e
    BY <1>2, <2>1, <2>2, CalendarAssumption
  <2>4. j * MinuteTicks \in Nat /\ k * e \in Nat /\ DayMinutes * MinuteTicks \in Nat
    BY <1>2, <2>1, <2>2, CalendarAssumption
  <2> QED
    BY <1>2, <2>3, <2>4 DEF DayTicks
<1> QED
  BY <1>2, <1>3, CalendarAssumption DEF d

\* What scheduling_error accepts in working hours is what can be booked.
LEMMA AcceptedIsBookable ==
    ASSUME TypeOK, NEW s \in Specialist, NEW date \in Date, NEW t \in Time,
           specialists[s] # None
    PROVE  SchedulingError(SlotAt(s, date, t), specialists[s], hours, appts, None) = "none"
           <=> Bookable(s, date, t)
<1> DEFINE c == SlotAt(s, date, t)
           minutes == specialists[s]
           working == Working(hours, s, date)
           around == {h \in hours : /\ h.specialist = s /\ h.day = Weekday(date)
                                    /\ h.start <= t
                                    /\ t + c.duration * MinuteTicks <= h.end}
<1>1. minutes \in Nat
  BY DEF TypeOK
<1>2. /\ c.specialist = s /\ c.date = date /\ c.time = t /\ c.duration = minutes
      /\ Timed(c) /\ working \in SUBSET HourRow
  BY <1>1, WorkloadAssumption DEF SlotAt, Timed, Working, TypeOK
<1>3. ASSUME HoursError(c, minutes, working) = "none", ~Collides(c, appts, None)
      PROVE  Free(appts, c, None)
  BY <1>2, <1>3, FittingEndsWithinDay, OccupancySuffices DEF TypeOK
<1>4. ASSUME Free(appts, c, None)
      PROVE  ~Collides(c, appts, None)
  BY <1>4 DEF Free, Collides, Occupied
<1>5. minutes > 0 => Fitting(c, working) = around
  BY <1>2 DEF Fitting, Working
<1>6. EndOf(c) \in Nat /\ Midnight(LastDate + 1) \in Nat
  BY <1>2, Instants, CalendarAssumption DEF Midnight, DayTicks
<1>7. HoursError(c, minutes, working) = "none" <=>
         /\ minutes > 0
         /\ EndOf(c) < Midnight(LastDate + 1)
         /\ t % MinuteTicks = 0
         /\ \E h \in around : (t - h.start) % (minutes * MinuteTicks) = 0
  <2>1. CASE minutes > 0
    <3>1. OnGrid(c, minutes, Fitting(c, working)) <=>
             /\ t % MinuteTicks = 0
             /\ \E h \in around : (t - h.start) % (minutes * MinuteTicks) = 0
      BY <1>2, <1>5, <2>1 DEF OnGrid
    <3>2. OnGrid(c, minutes, Fitting(c, working)) => Fitting(c, working) # {}
      BY DEF OnGrid
    <3> QED
      BY <1>1, <1>2, <1>6, <2>1, <3>1, <3>2 DEF HoursError
  <2>2. CASE ~(minutes > 0)
    BY <1>1, <1>2, <2>2 DEF HoursError
  <2> QED
    BY <2>1, <2>2
<1>8. SchedulingError(c, minutes, hours, appts, None) = "none" <=>
         HoursError(c, minutes, working) = "none" /\ ~Collides(c, appts, None)
  BY <1>2 DEF SchedulingError
<1>9. Bookable(s, date, t) <=>
         /\ minutes > 0
         /\ t % MinuteTicks = 0
         /\ \E h \in around : (t - h.start) % (minutes * MinuteTicks) = 0
         /\ EndOf(c) < Midnight(LastDate + 1)
         /\ Free(appts, c, None)
  BY <1>2 DEF Bookable
<1> QED
  BY <1>3, <1>4, <1>7, <1>8, <1>9

\* The view's enumeration misses none of them.
LEMMA BookableIsListed ==
    ASSUME TypeOK, NEW s \in Specialist, NEW date \in Date, NEW t \in Time,
           specialists[s] # None, Bookable(s, date, t)
    PROVE  t \in AllSlots(specialists[s], Working(hours, s, date))
<1> DEFINE minutes == specialists[s]
<1>1. minutes \in Nat \ {0} /\ SlotAt(s, date, t).duration = minutes
  BY DEF TypeOK, Bookable, SlotAt
<1>2. PICK h \in hours :
         /\ h.specialist = s /\ h.day = Weekday(date)
         /\ h.start <= t /\ t + minutes * MinuteTicks <= h.end
         /\ (t - h.start) % (minutes * MinuteTicks) = 0
  BY <1>1 DEF Bookable
<1>3. h \in Working(hours, s, date)
  BY <1>2 DEF Working
<1>4. h.start \in Nat /\ t \in Nat /\ t < DayTicks /\ DayTicks \in Nat
  BY WorkloadAssumption, CalendarAssumption DEF TypeOK, HourRow, Time, DayTicks
<1>5. PICK k \in 0 .. DayMinutes : t - h.start = k * (minutes * MinuteTicks)
  BY <1>1, <1>2, <1>4, GridCounts
<1>6. k * (minutes * MinuteTicks) \in Nat
  BY <1>1, <1>5, CalendarAssumption
<1>7. t = h.start + k * (minutes * MinuteTicks)
  BY <1>4, <1>5, <1>6
<1> QED
  BY <1>1, <1>2, <1>3, <1>7 DEF AllSlots

\* The view shows every slot that can be booked and no other, for any working
\* hours, any appointments and any calendar.
THEOREM AvailableExactHolds == Spec => []AvailableExact
<1>1. TypeOK => AvailableExact
  <2> SUFFICES ASSUME TypeOK, NEW s \in Specialist, NEW date \in Date,
                      specialists[s] # None, now < Midnight(date + 1)
               PROVE  AvailableSlots(s, date) = {t \in Time : Bookable(s, date, t)}
    BY DEF AvailableExact
  <2>1. AvailableSlots(s, date) \subseteq Time
    BY DEF AvailableSlots, AllSlots
  <2>2. ASSUME NEW t \in Time
        PROVE  t \in AvailableSlots(s, date) <=> Bookable(s, date, t)
    BY AcceptedIsBookable, BookableIsListed DEF AvailableSlots
  <2> QED
    BY <2>1, <2>2
<1> QED
  BY <1>1, TypeCorrect, PTL

-----------------------------------------------------------------------------
(* The admin site. *)

\* A row that was deleted had been issued its key.
AInv == LInv /\ removed \subseteq issued

\* A key that has been issued stays so.
LEMMA IssuedStays ==
    ASSUME TypeOK, [Next]_vars
    PROVE  issued \subseteq issued'
<1>1. ASSUME NEW r \in Request, Commit(r)
      PROVE  issued \subseteq issued'
  BY <1>1 DEF Commit, CommitCreate, CommitReschedule, CommitStatus, SaveSpecialist,
              CommitDelete, Refuse, database
<1>2. CASE \A r \in Request : ~Commit(r)
  BY <1>2, QuietSteps
<1> QED
  BY <1>1, <1>2

\* The steps of the admin form are nobody's, and leave what is locked alone.
LEMMA AdminStep ==
    ASSUME LInv, TypeOK', NoOrphans', KeysIssued',
           UNCHANGED <<specialists, locks, job, pc, memory>>,
           \A q \in Request : \A p \in Pk : appointmentLock[p] = q => appts'[p] = appts[p]
    PROVE  LInv'
<1>1. ASSUME NEW q \in Request
      PROVE  Sound(q)'
  <2>1. Spared(q)
    BY DEF Spared, locks, memory
  <2> QED
    BY <2>1, SparedSound DEF LInv
<1> QED
  BY <1>1 DEF LInv

LEMMA AdminRowTyped ==
    ASSUME NEW row \in AdminRows
    PROVE  row \in Row /\ row # None /\ row.specialist \in Specialist
BY AdminAssumption, DirectoryAssumption DEF Row

LEMMA AdminAddKeeps ==
    ASSUME LInv, AdminAdd
    PROVE  LInv'
<1>1. PICK row \in AdminRows :
         /\ ReferenceFree(row) /\ Pk # issued
         /\ issued' = issued \cup {NextPk}
         /\ appts' = [appts EXCEPT ![NextPk] = row]
         /\ UNCHANGED <<now, specialists, hours, locks, job, pc, memory>>
  BY DEF AdminAdd
<1> DEFINE p == NextPk
<1>2. TypeOK /\ p \in Pk \ issued /\ row \in Row /\ row # None
  BY <1>1, NextPkFresh, AdminRowTyped DEF LInv
<1>3. appts[p] = None /\ \A q \in Request : appointmentLock[p] # q
  BY <1>2 DEF LInv, KeysIssued, Sound, HoldsRows
<1> HIDE DEF p
<1>4. appts'[p] = row /\ \A x \in Pk : x # p => appts'[x] = appts[x]
  BY <1>1, <1>2 DEF p, TypeOK, Table
<1>5. TypeOK'
  BY <1>1, <1>2 DEF p, TypeOK, Table, locks, memory
<1>6. NoOrphans' /\ KeysIssued'
  BY <1>1, <1>2, <1>4 DEF p, LInv, NoOrphans, KeysIssued, ReferenceFree
<1> QED
  BY <1>1, <1>3, <1>4, <1>5, <1>6, AdminStep

\* A row that another request has locked waits for it.
LEMMA AdminChangeKeeps ==
    ASSUME AInv, AdminChange \/ AdminRemove
    PROVE  LInv'
<1>1. PICK p \in Pk, row \in AdminRows \cup {None} :
         /\ appts[p] # None \/ p \in removed
         /\ appointmentLock[p] = None
         /\ row # None => \/ appts[p] # None /\ row.specialist = appts[p].specialist
                          \/ ReferenceFree(row)
         /\ appts' = [appts EXCEPT ![p] = row]
         /\ UNCHANGED <<now, specialists, hours, issued, locks, job, pc, memory>>
  BY DEF AdminChange, AdminRemove
<1>2. LInv /\ TypeOK /\ row \in Row \cup {None}
  BY AdminRowTyped DEF AInv, LInv
<1>3. appts'[p] = row /\ \A x \in Pk : x # p => appts'[x] = appts[x]
  BY <1>1, <1>2 DEF TypeOK, Table
<1>4. TypeOK'
  BY <1>1, <1>2 DEF TypeOK, Table, locks, memory
<1>5. NoOrphans' /\ KeysIssued'
  BY <1>1, <1>2, <1>3 DEF AInv, LInv, NoOrphans, KeysIssued, ReferenceFree
<1> QED
  BY <1>1, <1>2, <1>3, <1>4, <1>5, AdminStep, WorkloadAssumption

LEMMA AdminNextAInv == AInv /\ [AdminNext]_adminVars => AInv'
<1> SUFFICES ASSUME AInv, [AdminNext]_adminVars
             PROVE  AInv'
  OBVIOUS
<1>1. CASE [Next]_vars
  <2>1. LInv'
    BY <1>1, NextKeeps DEF AInv, Keeps
  <2>2. issued \subseteq issued'
    BY <1>1, IssuedStays DEF AInv, LInv
  <2> QED
    BY <2>1, <2>2 DEF AInv, LInv, KeysIssued, AdminNext, adminVars
<1>2. CASE AdminNext /\ (AdminAdd \/ AdminChange \/ AdminRemove)
  <2>1. LInv'
    BY <1>2, AdminAddKeeps, AdminChangeKeeps DEF AInv
  <2>2. issued \subseteq issued'
    BY <1>2 DEF AdminAdd, AdminChange, AdminRemove
  <2> QED
    BY <1>2, <2>1, <2>2 DEF AInv, LInv, KeysIssued, AdminNext
<1> QED
  BY <1>1, <1>2 DEF AdminNext, adminVars

\* The administrators wait for the locks of the rows and specialists they write,
\* which is all that the locking of the API rests on, although a save of theirs may
\* insert again a row that has gone.
THEOREM AdminLockInvariance == AdminSpec => []AInv
<1>1. Init /\ removed = {} => AInv
  BY InitIInv DEF IInv, AInv
<1> QED
  BY <1>1, AdminNextAInv, PTL DEF AdminSpec

\* Putting a row that no active one shares its slot with.
LEMMA PutUnique ==
    ASSUME TypeOK, UniqueActiveSlot, NEW p \in Pk, NEW row \in Row,
           row.status \in Active => ~SlotTaken(row, p),
           appts' = [appts EXCEPT ![p] = row]
    PROVE  UniqueActiveSlot'
<1>1. appts'[p] = row /\ \A x \in Pk : x # p => appts'[x] = appts[x]
  BY DEF TypeOK, Table
<1> SUFFICES ASSUME NEW x \in Pk, IsActive(appts', x), NEW y \in Pk \ {x}, IsActive(appts', y),
                    SameSlot(appts'[y], appts'[x])
             PROVE  FALSE
  BY DEF UniqueActiveSlot, SlotTaken, SameSlot
<1>2. CASE x = p
  BY <1>1, <1>2 DEF SlotTaken, IsActive, SameSlot
<1>3. CASE y = p
  BY <1>1, <1>3 DEF SlotTaken, IsActive, SameSlot
<1>4. CASE x # p /\ y # p
  BY <1>1, <1>4 DEF UniqueActiveSlot, SlotTaken, IsActive, SameSlot
<1> QED
  BY <1>2, <1>3, <1>4

\* Removing rows.
LEMMA RemoveUnique ==
    ASSUME UniqueActiveSlot, \A p \in Pk : appts'[p] \in {None, appts[p]}
    PROVE  UniqueActiveSlot'
BY DEF UniqueActiveSlot, SlotTaken, IsActive

LEMMA CommitsUnique ==
    ASSUME LInv, UniqueActiveSlot, NEW r \in Request,
           CommitCreate(r) \/ CommitReschedule(r) \/ CommitStatus(r)
    PROVE  UniqueActiveSlot'
<1>0. TypeOK /\ Sound(r)
  BY DEF LInv
<1>1. CASE appts' = appts
  BY <1>1, RemoveUnique
<1>2. CASE CommitCreate(r) /\ appts' # appts
  <2>1. Booking(r) /\ Holding(r) /\ NextPk \in Pk
    BY <1>0, <1>2, NextPkFresh DEF CommitCreate, At, Booking, Holding
  <2>2. Candidate(r) \in Row
    BY <1>0, <2>1, CandidateRow
  <2>3. ~SlotTaken(Candidate(r), NextPk) /\ appts' = [appts EXCEPT ![NextPk] = Candidate(r)]
    BY <1>2, DirectoryAssumption DEF CommitCreate, SlotTaken
  <2> QED
    BY <1>0, <2>1, <2>2, <2>3, PutUnique
<1>3. CASE CommitReschedule(r) /\ appts' # appts
  <2>1. Op(r) = "reschedule" /\ Booking(r) /\ Holding(r) /\ job[r].pk \in Pk
    BY <1>0, <1>3, JobTypes DEF CommitReschedule, At, Booking, Holding
  <2>2. Candidate(r) \in Row
    BY <1>0, <2>1, CandidateRow
  <2>3. /\ ~SlotTaken(Candidate(r), job[r].pk)
        /\ appts' = [appts EXCEPT ![job[r].pk] = Candidate(r)]
    BY <1>0, <1>3, <2>1, CandidateRow DEF CommitReschedule, Refuse, database
  <2> QED
    BY <1>0, <2>1, <2>2, <2>3, PutUnique
<1>4. CASE CommitStatus(r) /\ appts' # appts
  <2> DEFINE p == job[r].pk
             status == StatusAsked[Op(r)]
             row == [appts[p] EXCEPT !.status = status]
  <2>1. Rowing(r) /\ Holding(r) /\ p \in Pk
    BY <1>0, <1>4, JobTypes DEF CommitStatus, At, Rowing, Holding
  <2>2. appts[p] \in Row /\ appts[p] = seen[r]
    BY <1>0, <2>1 DEF Sound, HoldsAppointment
  <2>3. status \in ALLOWED_TRANSITIONS[appts[p].status] /\ appts' = [appts EXCEPT ![p] = row]
    BY <1>4, <2>2 DEF CommitStatus, Refuse, database
  <2>4. status \in Status /\ (status \in Active => IsActive(appts, p))
    BY <2>2, <2>3, TransitionsThin, DirectoryAssumption DEF Row, IsActive
  <2>5. row \in Row /\ SameSlot(row, appts[p]) /\ row.status = status
    BY <2>2, <2>4 DEF Row, SameSlot
  <2>6. row.status \in Active => ~SlotTaken(row, p)
    BY <2>1, <2>4, <2>5 DEF UniqueActiveSlot, SlotTaken, SameSlot
  <2> HIDE DEF row
  <2> QED
    BY <1>0, <2>1, <2>3, <2>5, <2>6, PutUnique
<1> QED
  BY <1>1, <1>2, <1>3, <1>4

LEMMA AdminNextUnique == AInv /\ UniqueActiveSlot /\ [AdminNext]_adminVars => UniqueActiveSlot'
<1> SUFFICES ASSUME AInv, UniqueActiveSlot, [AdminNext]_adminVars
             PROVE  UniqueActiveSlot'
  OBVIOUS
<1>0. LInv /\ TypeOK
  BY DEF AInv, LInv
<1>1. CASE [Next]_vars
  <2>1. ASSUME NEW r \in Request, CommitDelete(r)
        PROVE  UniqueActiveSlot'
    <3>1. \A p \in Pk : appts'[p] \in {None, appts[p]}
      BY <2>1 DEF CommitDelete, Refuse, database
    <3> QED
      BY <3>1, RemoveUnique
  <2>2. CASE appts' = appts
    BY <2>2, RemoveUnique
  <2> QED
    BY <1>0, <1>1, <2>1, <2>2, CommitsUnique, OthersLeaveTable
<1>2. CASE AdminAdd
  <2>1. PICK row \in AdminRows :
           /\ row.status \in Active => ~SlotTaken(row, None)
           /\ Pk # issued /\ appts' = [appts EXCEPT ![NextPk] = row]
    BY <1>2 DEF AdminAdd
  <2>2. NextPk \in Pk /\ row \in Row
    BY <1>0, <2>1, NextPkFresh, AdminRowTyped
  <2>3. row.status \in Active => ~SlotTaken(row, NextPk)
    BY <2>1, DirectoryAssumption DEF SlotTaken
  <2> QED
    BY <1>0, <2>1, <2>2, <2>3, PutUnique
<1>3. CASE AdminChange
  <2>1. PICK p \in Pk, row \in AdminRows :
           /\ row.status \in Active => ~SlotTaken(row, p)
           /\ appts' = [appts EXCEPT ![p] = row]
    BY <1>3 DEF AdminChange
  <2> QED
    BY <1>0, <2>1, PutUnique, AdminRowTyped
<1>4. CASE AdminRemove
  <2>1. \A p \in Pk : appts'[p] \in {None, appts[p]}
    BY <1>0, <1>4 DEF AdminRemove, TypeOK, Table
  <2> QED
    BY <2>1, RemoveUnique
<1> QED
  BY <1>1, <1>2, <1>3, <1>4 DEF AdminNext, adminVars

\* Whatever administrators save, no two active appointments of a specialist ever have
\* the same date and time (UniqueConstraint unique_active_appointment_slot of
\* appointments/models.py, which every commit answers for).
THEOREM UniqueActiveSlotHolds == AdminSpec => []UniqueActiveSlot
<1>1. Init => UniqueActiveSlot
  BY AdminAssumption DEF Init, UniqueActiveSlot, SlotTaken, SameSlot
<1> QED
  BY <1>1, AdminNextUnique, AdminLockInvariance, PTL DEF AdminSpec

\* Beside the admin site too, what a handler read under its locks is what it writes on.
THEOREM AdminReadsHold == AdminSpec => []ReadsHold
<1>1. AInv => ReadsHold
  BY DEF AInv, LInv, ReadsHold, Sound, HoldsSpecialist, HoldsAppointment, Booking, Rowing
<1> QED
  BY <1>1, AdminLockInvariance, PTL

\* No appointment an administrator saves outlives its specialist either.
THEOREM AdminNoOrphans == AdminSpec => []NoOrphans
<1>1. AInv => NoOrphans
  BY DEF AInv, LInv
<1> QED
  BY <1>1, AdminLockInvariance, PTL

=============================================================================
