-------------------- MODULE AppointmentMutations_proofs --------------------
(***************************************************************************)
(* For any number of requests, specialists and appointments, any jobs, any *)
(* working hours and any calendar: the tables are typed, active            *)
(* appointments never overlap, what a handler read or checked under its    *)
(* locks still holds when it writes, and the mutations implement the        *)
(* abstract book.                                                          *)
(***************************************************************************)
EXTENDS AppointmentMutations, TLAPS

-----------------------------------------------------------------------------
(* The interval rules. *)

\* A day ends before any later day begins.
LEMMA DayOrder ==
    ASSUME NEW d \in Nat, NEW e \in Nat, d < e
    PROVE  Midnight(d) + DayTicks <= Midnight(e)
<1>1. DayTicks \in Nat
  BY CalendarAssumption DEF DayTicks
<1>2. PICK k \in Nat : e = d + 1 + k
  <2>1. e - d - 1 \in Nat /\ e = d + 1 + (e - d - 1)
    OBVIOUS
  <2> QED
    BY <2>1
<1>3. e * DayTicks = d * DayTicks + DayTicks + k * DayTicks
  BY <1>1, <1>2
<1>4. k * DayTicks \in Nat
  BY <1>1, <1>2
<1> QED
  BY <1>1, <1>3, <1>4 DEF Midnight

\* What the interval rules need of a row, or of the candidate for one.
Timed(row) == row.date \in Date /\ row.time \in Time /\ row.duration \in Nat

LEMMA RowTimed == \A row \in Row : Timed(row)
BY DEF Row, Timed

\* The ends of a row are whole instants, the end no earlier than the start,
\* and the start on the row's date.
LEMMA Instants ==
    ASSUME NEW row, Timed(row)
    PROVE  /\ StartOf(row) \in Nat /\ EndOf(row) \in Nat
           /\ StartOf(row) <= EndOf(row)
           /\ Midnight(row.date) \in Nat
           /\ Midnight(row.date) <= StartOf(row)
<1>1. DayTicks \in Nat
  BY CalendarAssumption DEF DayTicks
<1>2. row.date \in Nat /\ row.time \in Nat /\ row.duration \in Nat
  BY <1>1, CalendarAssumption DEF Timed, Date, Time
<1>3. Midnight(row.date) \in Nat
  BY <1>1, <1>2 DEF Midnight
<1>4. row.duration * MinuteTicks \in Nat
  BY <1>2, CalendarAssumption
<1> QED
  BY <1>2, <1>3, <1>4 DEF StartOf, EndOf

\* A candidate that fits in its working hours ends within its day.
LEMMA FittingEndsWithinDay ==
    ASSUME NEW c, Timed(c), NEW minutes, NEW working \in SUBSET HourRow,
           HoursError(c, minutes, working) = "none"
    PROVE  EndOf(c) <= Midnight(c.date) + DayTicks
<1>1. Fitting(c, working) # {}
  BY DEF HoursError
<1>2. PICK h \in working : c.time + c.duration * MinuteTicks <= h.end
  BY <1>1 DEF Fitting
<1>3. DayTicks \in Nat
  BY CalendarAssumption DEF DayTicks
<1>4. h.end \in Int /\ h.end <= DayTicks - 1
  BY <1>3 DEF HourRow, Time
<1>5. Midnight(c.date) \in Nat /\ c.time \in Nat
  BY <1>3, Instants DEF Timed, Time
<1>6. c.duration * MinuteTicks \in Nat
  BY CalendarAssumption DEF Timed
<1> QED
  BY <1>2, <1>3, <1>4, <1>5, <1>6 DEF EndOf, StartOf

\* scheduling_context may leave out the appointments of later dates and those
\* that ended on an earlier day: a candidate that ends within its day and
\* collides with none of the others is free of all of them.
LEMMA OccupancySuffices ==
    ASSUME NEW table \in Table, NEW c, Timed(c), NEW own,
           EndOf(c) <= Midnight(c.date) + DayTicks,
           ~Collides(c, table, own)
    PROVE  Free(table, c, own)
<1> SUFFICES ASSUME NEW q \in Pk \ {own}, IsActive(table, q),
                    table[q].specialist = c.specialist
             PROVE  ~Overlap(table[q], c)
  BY DEF Free
<1> DEFINE row == table[q]
<1>1. row \in Row
  BY DEF Table, IsActive
<1>2. /\ StartOf(row) \in Nat /\ EndOf(row) \in Nat
      /\ StartOf(c) \in Nat /\ EndOf(c) \in Nat
      /\ Midnight(c.date) <= StartOf(c) /\ Midnight(row.date) <= StartOf(row)
      /\ Midnight(row.date) \in Nat /\ Midnight(c.date) \in Nat
  BY <1>1, RowTimed, Instants
<1>3. row.date \in Nat /\ c.date \in Nat /\ DayTicks \in Nat
  BY <1>1, RowTimed, CalendarAssumption DEF Timed, Date, DayTicks
<1>4. CASE Occupies(row, c.date)
  <2>1. q \in Occupied(table, c.specialist, c.date, own)
    BY <1>4 DEF Occupied
  <2> QED
    BY <2>1 DEF Collides
<1>5. CASE row.date > c.date
  <2>1. Midnight(c.date) + DayTicks <= Midnight(row.date)
    BY <1>3, <1>5, DayOrder
  <2>2. EndOf(c) <= StartOf(row)
    BY <1>2, <1>3, <2>1
  <2> QED
    BY <1>2, <2>2 DEF Overlap
<1>6. CASE EndOf(row) < Midnight(c.date)
  BY <1>2, <1>6 DEF Overlap
<1> QED
  BY <1>2, <1>3, <1>4, <1>5, <1>6 DEF Occupies

-----------------------------------------------------------------------------
(* How a table changes. *)

\* A row put where it is free leaves the active appointments disjoint.
LEMMA PutFree ==
    ASSUME NEW table \in Table, Disjoint(table), NEW p \in Pk, NEW row \in Row,
           Free(table, row, p)
    PROVE  Disjoint([table EXCEPT ![p] = row])
<1> DEFINE new == [table EXCEPT ![p] = row]
<1>1. new[p] = row /\ \A q \in Pk \ {p} : new[q] = table[q]
  BY DEF Table
<1> SUFFICES ASSUME NEW a \in Pk, IsActive(new, a), NEW b \in Pk \ {a},
                    IsActive(new, b), new[b].specialist = new[a].specialist
             PROVE  ~Overlap(new[b], new[a])
  BY DEF Disjoint, Free
<1>2. CASE a = p
  BY <1>1, <1>2 DEF Free, IsActive
<1>3. CASE b = p
  <2>1. ~Overlap(table[a], row)
    BY <1>1, <1>3 DEF Free, IsActive
  <2> QED
    BY <1>1, <1>3, <2>1 DEF Overlap
<1>4. CASE a # p /\ b # p
  BY <1>1, <1>4 DEF Disjoint, Free, IsActive
<1> QED
  BY <1>2, <1>3, <1>4

\* The active rows of one table are, with their times, among those of another.
Thins(new, table) ==
    \A q \in Pk : IsActive(new, q) =>
        /\ IsActive(table, q)
        /\ new[q].specialist = table[q].specialist
        /\ StartOf(new[q]) = StartOf(table[q]) /\ EndOf(new[q]) = EndOf(table[q])

\* What is free stays free, and what is disjoint disjoint, when rows go.
LEMMA ThinningFrees ==
    ASSUME NEW table, NEW new, Thins(new, table)
    PROVE  /\ \A row, own : Free(table, row, own) => Free(new, row, own)
           /\ Disjoint(table) => Disjoint(new)
<1>1. ASSUME NEW row, NEW own, Free(table, row, own)
      PROVE  Free(new, row, own)
  BY <1>1 DEF Thins, Free, Overlap
<1>2. ASSUME Disjoint(table), NEW p \in Pk, IsActive(new, p)
      PROVE  Free(new, new[p], p)
  <2>1. Free(table, table[p], p)
    BY <1>2 DEF Thins, Disjoint
  <2>2. Free(new, table[p], p)
    BY <1>1, <2>1
  <2> QED
    BY <1>2, <2>2 DEF Thins, Free, Overlap
<1> QED
  BY <1>1, <1>2 DEF Disjoint

\* A row of one specialist takes no time of another's.
LEMMA OtherSpecialist ==
    ASSUME NEW table \in Table, NEW p \in Pk, NEW row \in Row,
           NEW c \in Row, NEW own, Free(table, c, own),
           row.specialist # c.specialist
    PROVE  Free([table EXCEPT ![p] = row], c, own)
  BY DEF Table, Free, IsActive

-----------------------------------------------------------------------------
(* The tables and the memory of the handlers are typed.                      *)

LEMMA InitTypeOK == Init => TypeOK
BY WorkloadAssumption DEF Init, TypeOK, PC

\* What a request may ask for, by its operation.
LEMMA JobTypes ==
    ASSUME TypeOK, NEW r \in Request
    PROVE  /\ Op(r) \in {"create", "reschedule", "delete", "patch"} \cup StatusOps
           /\ Op(r) \in {"create", "delete", "patch"} => job[r].specialist \in Specialist
           /\ Op(r) \in {"create", "reschedule"} =>
                job[r].date \in Date /\ job[r].time \in Time
           /\ Op(r) = "create" => job[r].user \in User /\ job[r].duration \in Nat
           /\ Op(r) \in {"reschedule"} \cup StatusOps => job[r].pk \in Pk
           /\ Op(r) = "patch" => job[r].slot \in Nat
<1>1. job[r] \in CreateJob \cup StatusJob \cup RescheduleJob \cup SpecialistJob
  BY WorkloadAssumption DEF TypeOK
<1> QED
  BY <1>1 DEF Op, CreateJob, StatusJob, RescheduleJob, SpecialistJob, StatusOps

LEMMA FinishTypes ==
    ASSUME TypeOK, NEW r \in Request, NEW answer \in Answer, Finish(r, answer)
    PROVE  /\ specialistLock' \in [Specialist -> Request \cup {None}]
           /\ appointmentLock' \in [Pk -> Request \cup {None}]
           /\ pc' \in [Request -> PC]
           /\ target' \in [Request -> Specialist \cup {None}]
           /\ seen' \in [Request -> Row \cup {None}]
           /\ slot' \in [Request -> Nat \cup {None}]
           /\ todo' \in [Request -> SUBSET Pk]
           /\ swept' \in [Request -> SUBSET HourRows]
BY DEF TypeOK, Finish, Goto, Released, PC

LEMMA RefuseTypeOK ==
    ASSUME TypeOK, NEW r \in Request, NEW answer \in Answer, Refuse(r, answer)
    PROVE  TypeOK'
BY FinishTypes DEF TypeOK, Refuse, database

LEMMA NextPkFresh ==
    ASSUME TypeOK, Pk # issued
    PROVE  NextPk \in Pk \ issued
BY DEF TypeOK, NextPk

-----------------------------------------------------------------------------
(* The inductive invariant.  NoActiveOverlap alone is not inductive: that a   *)
(* commit keeps it rests on what the handler checked, which rests on the      *)
(* locks it has held since, which rests on where each handler can be.         *)

Booking(q) == Op(q) \in {"create", "reschedule"}
Rowing(q)  == Op(q) \in StatusOps \cup {"reschedule"}

\* Where the handler of each operation can be, and that it knows its specialist.
Stage(q) ==
    /\ pc[q] \in {"located", "checking", "committing"} => Booking(q)
    /\ pc[q] = "holding" => Op(q) = "reschedule"
    /\ pc[q] = "loaded" => Op(q) \in {"delete", "patch"} /\ slot[q] \in Nat
    /\ pc[q] = "deleting" => Op(q) = "delete"
    /\ pc[q] = "locked" => Op(q) # "patch"
    /\ pc[q] \in {"located", "holding", "loaded", "deleting"} => target[q] \in Specialist
    /\ Holding(q) /\ Op(q) \notin StatusOps => target[q] \in Specialist

\* Past lock_specialist, the row read is the row there is.
HoldsSpecialist(q) ==
    /\ Booking(q) /\ (Holding(q) \/ pc[q] = "holding") =>
         /\ specialistLock[target[q]] = q
         /\ slot[q] \in Nat /\ specialists[target[q]] = slot[q]
    /\ Op(q) = "delete" /\ pc[q] = "locked" => specialistLock[target[q]] = q

\* Past lock_appointment, so is the appointment.
HoldsAppointment(q) ==
    Rowing(q) /\ Holding(q) =>
        /\ appointmentLock[job[q].pk] = q
        /\ seen[q] \in Row /\ appts[job[q].pk] = seen[q]
        /\ Op(q) = "reschedule" => seen[q].specialist = target[q]

\* A locked row exists; a cascade locks rows of its specialist only.
HoldsRows(q) ==
    \A p \in Pk : appointmentLock[p] = q =>
        /\ appts[p] # None
        /\ Op(q) = "delete" => /\ pc[q] \in {"deleting", "locked"}
                              /\ appts[p].specialist = target[q]

\* No lock is kept longer than needed: an answer, or a step back, drops it.
HoldsOnly(q) ==
    Op(q) # "delete" =>
        /\ \A s \in Specialist : specialistLock[s] = q =>
              Booking(q) /\ (Holding(q) \/ pc[q] = "holding")
        /\ \A p \in Pk : appointmentLock[p] = q => Rowing(q) /\ Holding(q)

Sound(q) ==
    /\ Stage(q)
    /\ HoldsSpecialist(q) /\ HoldsAppointment(q) /\ HoldsRows(q) /\ HoldsOnly(q)

\* What has been validated.
Validated(q) ==
    /\ pc[q] \in {"checking", "committing"} =>
         /\ EndOf(Candidate(q)) <= Midnight(Candidate(q).date) + DayTicks
         /\ Op(q) = "reschedule" => seen[q].status \in Active
    /\ pc[q] = "committing" => Free(appts, Candidate(q), Own(q))

\* A key that has not been handed out names no row.
KeysIssued == \A p \in Pk : appts[p] # None => p \in issued

\* What the locks alone guarantee, ...
LInv == /\ TypeOK /\ NoOrphans /\ KeysIssued
        /\ \A q \in Request : Sound(q)

\* ... and what the checks made under them add.
IInv == /\ LInv /\ NoActiveOverlap
        /\ \A q \in Request : Validated(q)

\* What is to be shown of each step.
Keeps == LInv' /\ (IInv => IInv')

\* The candidate of a handler that holds its locks is a row of its specialist.
LEMMA CandidateRow ==
    ASSUME TypeOK, NEW r \in Request, Sound(r), Booking(r), Holding(r)
    PROVE  /\ Candidate(r) \in Row
           /\ Candidate(r).specialist = target[r]
           /\ Candidate(r).date = job[r].date
           /\ Op(r) = "create" => Candidate(r).status = "pending"
           /\ Op(r) = "reschedule" =>
                Candidate(r) = [appts[job[r].pk] EXCEPT !.date = job[r].date,
                                                        !.time = job[r].time]
<1>1. target[r] \in Specialist /\ slot[r] \in Nat
  BY DEF Sound, Stage, HoldsSpecialist, Booking, StatusOps
<1>2. job[r].date \in Date /\ job[r].time \in Time
  BY JobTypes DEF Booking
<1>3. CASE Op(r) = "create"
  BY <1>1, <1>2, <1>3, JobTypes DEF Candidate, Proposal, Row, Status
<1>4. CASE Op(r) = "reschedule"
  <2>1. seen[r] \in Row /\ appts[job[r].pk] = seen[r] /\ seen[r].specialist = target[r]
    BY <1>4 DEF Sound, HoldsAppointment, Rowing
  <2> QED
    BY <1>2, <1>4, <2>1 DEF Candidate, Row
<1> QED
  BY <1>3, <1>4 DEF Booking

\* A step leaves request q to itself: neither its memory nor its locks, nor a
\* row it has locked, changes.
Spared(q) ==
    /\ job' = job
    /\ pc'[q] = pc[q] /\ target'[q] = target[q]
    /\ seen'[q] = seen[q] /\ slot'[q] = slot[q]
    /\ \A s \in Specialist : /\ specialistLock'[s] = q <=> specialistLock[s] = q
                             /\ specialistLock[s] = q => specialists'[s] = specialists[s]
    /\ \A p \in Pk : /\ appointmentLock'[p] = q <=> appointmentLock[p] = q
                     /\ appointmentLock[p] = q => appts'[p] = appts[p]

LEMMA SparedReads ==
    ASSUME NEW q \in Request, Spared(q)
    PROVE  /\ Op(q)' = Op(q) /\ Booking(q)' = Booking(q) /\ Rowing(q)' = Rowing(q)
           /\ Holding(q)' = Holding(q) /\ Own(q)' = Own(q)
           /\ Candidate(q)' = Candidate(q)
BY DEF Spared, Op, Booking, Rowing, Holding, Own, Candidate, Proposal

LEMMA SparedSound ==
    ASSUME TypeOK, NEW q \in Request, Sound(q), Spared(q)
    PROVE  Sound(q)'
<1>1. Stage(q)'
  BY SparedReads DEF Sound, Stage, Spared
<1>2. HoldsSpecialist(q)'
  BY SparedReads DEF Sound, Stage, HoldsSpecialist, Spared, Booking, StatusOps, Holding
<1>3. HoldsAppointment(q)'
  <2>1. Rowing(q) => job[q].pk \in Pk
    BY JobTypes DEF Rowing
  <2> QED
    BY <2>1, SparedReads DEF Sound, HoldsAppointment, Spared
<1>4. HoldsRows(q)' /\ HoldsOnly(q)'
  BY SparedReads DEF Sound, HoldsRows, HoldsOnly, Spared
<1> QED
  BY <1>1, <1>2, <1>3, <1>4 DEF Sound

\* Then all there is to show is that what it found free still is.
LEMMA SparedValidated ==
    ASSUME NEW q \in Request, Validated(q), Spared(q),
           pc[q] = "committing" /\ Free(appts, Candidate(q), Own(q))
               => Free(appts', Candidate(q), Own(q))
    PROVE  Validated(q)'
<1>1. EndOf(Candidate(q))' = EndOf(Candidate(q))
  BY SparedReads DEF EndOf, StartOf, Midnight
<1>2. Free(appts, Candidate(q), Own(q))' = Free(appts', Candidate(q), Own(q))
  BY SparedReads DEF Free, IsActive, Overlap, StartOf, EndOf, Midnight
<1> QED
  BY <1>1, <1>2, SparedReads DEF Validated, Spared, Midnight

-----------------------------------------------------------------------------
(* Steps that write no table. *)

\* An answer spares the other requests and leaves this one nothing to keep.
LEMMA FinishEffects ==
    ASSUME TypeOK, NEW r \in Request, NEW answer \in Answer, Finish(r, answer)
    PROVE  /\ pc'[r] = answer
           /\ \A s \in Specialist : specialistLock'[s] # r
           /\ \A p \in Pk : appointmentLock'[p] # r
           /\ \A q \in Request \ {r} :
                /\ pc'[q] = pc[q] /\ target'[q] = target[q]
                /\ seen'[q] = seen[q] /\ slot'[q] = slot[q]
                /\ \A s \in Specialist : specialistLock'[s] = q <=> specialistLock[s] = q
                /\ \A p \in Pk : appointmentLock'[p] = q <=> appointmentLock[p] = q
BY WorkloadAssumption DEF TypeOK, Finish, Goto, Released

LEMMA FinishedSound ==
    ASSUME TypeOK, NEW r \in Request, NEW answer \in Answer, Finish(r, answer)
    PROVE  Sound(r)' /\ Validated(r)'
BY FinishEffects
   DEF Sound, Stage, HoldsSpecialist, HoldsAppointment, HoldsRows, HoldsOnly, Validated,
       Holding, Answer

\* A step that writes no table and spares the others need only account for itself.
LEMMA QuietStep ==
    ASSUME LInv, TypeOK', UNCHANGED <<specialists, hours, appts, issued>>,
           NEW r \in Request, \A q \in Request \ {r} : Spared(q),
           Sound(r)', Validated(r) => Validated(r)'
    PROVE  Keeps
<1>1. NoOrphans' /\ KeysIssued' /\ (NoActiveOverlap => NoActiveOverlap')
  BY DEF LInv, NoActiveOverlap, NoOrphans, KeysIssued
<1>2. ASSUME NEW q \in Request \ {r}
      PROVE  Sound(q)' /\ (Validated(q) => Validated(q)')
  BY <1>2, SparedSound, SparedValidated DEF LInv
<1> QED
  BY <1>1, <1>2 DEF LInv, IInv, Keeps

LEMMA RefuseKeeps ==
    ASSUME LInv, NEW r \in Request, NEW answer \in Answer, Refuse(r, answer)
    PROVE  Keeps
<1>1. TypeOK /\ Finish(r, answer)
  BY DEF LInv, Refuse
<1>2. TypeOK'
  BY RefuseTypeOK, <1>1
<1>3. Sound(r)' /\ Validated(r)'
  BY <1>1, FinishedSound
<1>4. \A q \in Request \ {r} : Spared(q)
  BY <1>1, FinishEffects DEF Refuse, database, Spared
<1> QED
  BY <1>2, <1>3, <1>4, QuietStep DEF Refuse, database

LEMMA AdviseKeeps ==
    ASSUME LInv, NEW r \in Request, Advise(r)
    PROVE  Keeps
<1> USE DEF LInv
<1>1. CASE \E answer \in Answer : Refuse(r, answer)
  BY <1>1, RefuseKeeps
<1>2. CASE /\ target' = [target EXCEPT ![r] = job[r].specialist]
           /\ Goto(r, "located")
           /\ UNCHANGED <<now, database, locks, job, seen, slot, todo, swept>>
  <2>1. Op(r) = "create" /\ job[r].specialist \in Specialist
    BY JobTypes DEF Advise, At
  <2>2. TypeOK'
    BY <1>2, <2>1 DEF TypeOK, Goto, PC, database, locks
  <2>3. \A q \in Request \ {r} : Spared(q)
    BY <1>2 DEF TypeOK, Goto, database, locks, Spared
  <2>4. /\ Op(r)' = "create" /\ pc'[r] = "located" /\ target'[r] \in Specialist
        /\ pc[r] = "start" /\ Op(r) = "create"
        /\ UNCHANGED <<specialistLock, appointmentLock, appts>>
    BY <1>2, <2>1 DEF Advise, At, TypeOK, Goto, Op, locks, database
  <2>5. Sound(r)' /\ Validated(r)'
    BY <2>4 DEF Sound, Stage, HoldsSpecialist, HoldsAppointment, HoldsRows, HoldsOnly,
                Validated, Holding, Booking
  <2> QED
    BY <1>2, <2>2, <2>3, <2>5, QuietStep DEF database
<1> QED
  BY <1>1, <1>2 DEF Advise, Answer

LEMMA LocateKeeps ==
    ASSUME LInv, NEW r \in Request, Locate(r)
    PROVE  Keeps
<1> USE DEF LInv
<1>1. CASE \E answer \in Answer : Refuse(r, answer)
  BY <1>1, RefuseKeeps
<1>2. CASE /\ appts[job[r].pk] # None
           /\ target' = [target EXCEPT ![r] = appts[job[r].pk].specialist]
           /\ Goto(r, "located")
           /\ UNCHANGED <<now, database, locks, job, seen, slot, todo, swept>>
  <2>1. Op(r) = "reschedule" /\ appts[job[r].pk] \in Row
    BY <1>2, JobTypes DEF Locate, At, TypeOK, Table
  <2>2. TypeOK'
    BY <1>2, <2>1 DEF TypeOK, Goto, PC, database, locks, Row
  <2>3. \A q \in Request \ {r} : Spared(q)
    BY <1>2 DEF TypeOK, Goto, database, locks, Spared
  <2>4. /\ Op(r)' = "reschedule" /\ pc'[r] = "located" /\ target'[r] \in Specialist
        /\ pc[r] = "start" /\ Op(r) = "reschedule"
        /\ UNCHANGED <<specialistLock, appointmentLock, appts>>
    BY <1>2, <2>1 DEF Locate, At, TypeOK, Goto, Op, Row, locks, database
  <2>5. Sound(r)' /\ Validated(r)'
    BY <2>4 DEF Sound, Stage, HoldsSpecialist, HoldsAppointment, HoldsRows, HoldsOnly,
                Validated, Holding, Booking
  <2> QED
    BY <1>2, <2>2, <2>3, <2>5, QuietStep DEF database
<1> QED
  BY <1>1, <1>2 DEF Locate, Answer

LEMMA LockSpecialistKeeps ==
    ASSUME LInv, NEW r \in Request, LockSpecialist(r)
    PROVE  Keeps
<1> USE DEF LInv
<1>1. CASE \E answer \in Answer : Refuse(r, answer)
  BY <1>1, RefuseKeeps
<1>2. CASE /\ specialists[target[r]] # None
           /\ specialistLock' = [specialistLock EXCEPT ![target[r]] = r]
           /\ slot' = [slot EXCEPT ![r] = specialists[target[r]]]
           /\ Goto(r, IF Op(r) = "create" THEN "locked" ELSE "holding")
           /\ UNCHANGED <<now, database, appointmentLock, job, target, seen, todo, swept>>
  <2>1. Booking(r) /\ target[r] \in Specialist /\ specialists[target[r]] \in Nat
    BY <1>2 DEF LockSpecialist, Sound, Stage, TypeOK
  <2>2. TypeOK'
    BY <1>2, <2>1 DEF TypeOK, Goto, PC, database
  <2>3. \A q \in Request \ {r} : Spared(q)
    BY <1>2, WorkloadAssumption
       DEF TypeOK, Goto, database, Spared, LockSpecialist, SpecialistFree
  <2>4. /\ Op(r)' = Op(r) /\ target'[r] = target[r]
        /\ pc'[r] = IF Op(r) = "create" THEN "locked" ELSE "holding"
        /\ specialistLock'[target[r]] = r
        /\ slot'[r] = specialists'[target[r]] /\ slot'[r] \in Nat
        /\ pc[r] = "located"
        /\ UNCHANGED <<appointmentLock, appts>>
    BY <1>2, <2>1 DEF LockSpecialist, TypeOK, Goto, Op, database
  <2>5. Sound(r)' /\ Validated(r)'
    BY <2>1, <2>4
       DEF Sound, Stage, HoldsSpecialist, HoldsAppointment, HoldsRows, HoldsOnly,
           Validated, Holding, Booking, Rowing, StatusOps
  <2> QED
    BY <1>2, <2>2, <2>3, <2>5, QuietStep DEF database
<1> QED
  BY <1>1, <1>2 DEF LockSpecialist, Answer

LEMMA LockAppointmentKeeps ==
    ASSUME LInv, NEW r \in Request, LockAppointment(r)
    PROVE  Keeps
<1> USE DEF LInv
<1> DEFINE p == job[r].pk
<1>1. CASE \E answer \in Answer : Refuse(r, answer)
  BY <1>1, RefuseKeeps
<1>2. CASE /\ appts[p] # None
           /\ ~(Op(r) = "reschedule" /\ appts[p].specialist # target[r])
           /\ appointmentLock' = [appointmentLock EXCEPT ![p] = r]
           /\ seen' = [seen EXCEPT ![r] = appts[p]]
           /\ Goto(r, "locked")
           /\ UNCHANGED <<now, database, specialistLock, job, target, slot, todo, swept>>
  <2>1. Rowing(r) /\ p \in Pk /\ appts[p] \in Row
    BY <1>2, JobTypes DEF LockAppointment, At, Rowing, TypeOK, Table
  <2>2. TypeOK'
    BY <1>2, <2>1 DEF TypeOK, Goto, PC, database
  <2>3. \A q \in Request \ {r} : Spared(q)
    BY <1>2, <2>1, WorkloadAssumption
       DEF TypeOK, Goto, database, Spared, LockAppointment, AppointmentFree
  <2>4. /\ Op(r)' = Op(r) /\ target'[r] = target[r] /\ slot'[r] = slot[r]
        /\ pc'[r] = "locked" /\ job'[r].pk = p
        /\ appointmentLock'[p] = r /\ seen'[r] = appts'[p] /\ seen'[r] \in Row
        /\ \A x \in Pk \ {p} : appointmentLock'[x] = appointmentLock[x]
        /\ UNCHANGED <<specialistLock, specialists, appts>>
    BY <1>2, <2>1 DEF TypeOK, Goto, Op, database
  <2>5. Op(r) = "reschedule" => pc[r] = "holding" /\ seen'[r].specialist = target[r]
    BY <1>2, <2>4 DEF LockAppointment, At, StatusOps, database
  <2>6. HoldsRows(r)'
    BY <1>2, <2>1, <2>4 DEF Sound, HoldsRows, Rowing, StatusOps
  <2>7. HoldsOnly(r)'
    BY <2>1, <2>4 DEF Sound, HoldsOnly, Holding, Booking, Rowing
  <2>8. Sound(r)' /\ Validated(r)'
    BY <2>1, <2>4, <2>5, <2>6, <2>7
       DEF Sound, Stage, HoldsSpecialist, HoldsAppointment,
           Validated, Holding, Booking, Rowing, StatusOps
  <2> QED
    BY <1>2, <2>2, <2>3, <2>8, QuietStep DEF database
<1> QED
  BY <1>1, <1>2 DEF LockAppointment, Answer

\* A step that only moves the handler on.
LEMMA GotoSpares ==
    ASSUME LInv, NEW r \in Request, NEW label \in PC, Goto(r, label),
           UNCHANGED <<now, database, locks, job, memory>>
    PROVE  /\ TypeOK' /\ (\A q \in Request \ {r} : Spared(q))
           /\ UNCHANGED <<specialists, hours, appts, issued, specialistLock,
                          appointmentLock, job, target, seen, slot, todo, swept>>
           /\ pc'[r] = label
           /\ Op(r)' = Op(r) /\ Own(r)' = Own(r) /\ Candidate(r)' = Candidate(r)
BY DEF LInv, TypeOK, Goto, database, locks, memory, Spared, Op, Own, Candidate, Proposal

LEMMA ValidateKeeps ==
    ASSUME LInv, NEW r \in Request, Validate(r)
    PROVE  Keeps
<1> USE DEF LInv
<1>1. CASE \E answer \in Answer : Refuse(r, answer)
  BY <1>1, RefuseKeeps
<1>2. CASE /\ ~Refused(r)
           /\ Goto(r, "checking")
           /\ UNCHANGED <<now, database, locks, job, memory>>
  <2>1. Booking(r) /\ Holding(r)
    BY DEF Validate, At, Booking, Holding
  <2>2. Candidate(r) \in Row
    BY <2>1, CandidateRow
  <2>3. HoursError(Candidate(r), slot[r], Working(hours, target[r], job[r].date)) = "none"
    BY <1>2 DEF Refused
  <2>4. Working(hours, target[r], job[r].date) \subseteq HourRow
    BY WorkloadAssumption DEF Working, TypeOK
  <2>5. EndOf(Candidate(r)) <= Midnight(Candidate(r).date) + DayTicks
    BY <2>2, <2>3, <2>4, RowTimed, FittingEndsWithinDay
  <2>6. Op(r) = "reschedule" => seen[r].status \in Active
    BY <1>2 DEF Refused
  <2>7. /\ TypeOK' /\ (\A q \in Request \ {r} : Spared(q))
        /\ UNCHANGED <<specialists, hours, appts, issued, specialistLock,
                       appointmentLock, job, target, seen, slot, todo, swept>>
        /\ pc'[r] = "checking"
        /\ Op(r)' = Op(r) /\ Own(r)' = Own(r) /\ Candidate(r)' = Candidate(r)
    BY <1>2, GotoSpares DEF PC
  <2>8. Sound(r)' /\ Validated(r)'
    <3>1. EndOf(Candidate(r))' = EndOf(Candidate(r))
      BY <2>7 DEF EndOf, StartOf, Midnight
    <3>2. Validated(r)'
      BY <2>5, <2>6, <2>7, <3>1 DEF Validated, Midnight
    <3> QED
      BY <2>1, <2>7, <3>2
         DEF Sound, Stage, HoldsSpecialist, HoldsAppointment, HoldsRows, HoldsOnly,
             Holding, Booking, Rowing, StatusOps
  <2> QED
    BY <2>7, <2>8, QuietStep
<1> QED
  BY <1>1, <1>2 DEF Validate, Answer

LEMMA CheckOccupancyKeeps ==
    ASSUME LInv, NEW r \in Request, CheckOccupancy(r)
    PROVE  Keeps
<1> USE DEF LInv
<1>1. CASE \E answer \in Answer : Refuse(r, answer)
  BY <1>1, RefuseKeeps
<1>2. CASE /\ ~Collides(Candidate(r), appts, Own(r))
           /\ Goto(r, "committing")
           /\ UNCHANGED <<now, database, locks, job, memory>>
  <2>1. Booking(r) /\ Holding(r)
    BY DEF CheckOccupancy, Sound, Stage, Holding
  <2>2. Candidate(r) \in Row
    BY <2>1, CandidateRow
  <2>3. Validated(r) =>
          /\ EndOf(Candidate(r)) <= Midnight(Candidate(r).date) + DayTicks
          /\ Op(r) = "reschedule" => seen[r].status \in Active
    BY DEF CheckOccupancy, Validated
  <2>4. Validated(r) => Free(appts, Candidate(r), Own(r))
    BY <1>2, <2>2, <2>3, RowTimed, OccupancySuffices DEF TypeOK
  <2>5. /\ TypeOK' /\ (\A q \in Request \ {r} : Spared(q))
        /\ UNCHANGED <<specialists, hours, appts, issued, specialistLock,
                       appointmentLock, job, target, seen, slot, todo, swept>>
        /\ pc'[r] = "committing"
        /\ Op(r)' = Op(r) /\ Own(r)' = Own(r) /\ Candidate(r)' = Candidate(r)
    BY <1>2, GotoSpares DEF PC
  <2>6. Validated(r) => Validated(r)'
    <3>1. EndOf(Candidate(r))' = EndOf(Candidate(r))
      BY <2>5 DEF EndOf, StartOf, Midnight
    <3>2. Validated(r) => Free(appts, Candidate(r), Own(r))'
      BY <2>4, <2>5 DEF Free, IsActive, Overlap, StartOf, EndOf, Midnight
    <3> QED
      BY <2>3, <2>5, <3>1, <3>2 DEF Validated, Midnight
  <2>7. Sound(r)'
    BY <2>1, <2>5
       DEF Sound, Stage, HoldsSpecialist, HoldsAppointment, HoldsRows, HoldsOnly,
           Holding, Booking, Rowing, StatusOps
  <2> QED
    BY <2>5, <2>6, <2>7, QuietStep
<1> QED
  BY <1>1, <1>2 DEF CheckOccupancy, Answer

LEMMA LoadSpecialistKeeps ==
    ASSUME LInv, NEW r \in Request, LoadSpecialist(r)
    PROVE  Keeps
<1> USE DEF LInv
<1> DEFINE s == job[r].specialist
<1>1. CASE \E answer \in Answer : Refuse(r, answer)
  BY <1>1, RefuseKeeps
<1>2. CASE /\ specialists[s] # None
           /\ target' = [target EXCEPT ![r] = s]
           /\ slot' = [slot EXCEPT ![r] = specialists[s]]
           /\ Goto(r, "loaded")
           /\ UNCHANGED <<now, database, locks, job, seen, todo, swept>>
  <2>1. Op(r) \in {"delete", "patch"} /\ s \in Specialist /\ specialists[s] \in Nat
    BY <1>2, JobTypes DEF LoadSpecialist, At, TypeOK
  <2>2. TypeOK'
    BY <1>2, <2>1 DEF TypeOK, Goto, PC, database, locks
  <2>3. \A q \in Request \ {r} : Spared(q)
    BY <1>2 DEF TypeOK, Goto, database, locks, Spared
  <2>4. /\ Op(r)' = Op(r) /\ pc'[r] = "loaded"
        /\ target'[r] \in Specialist /\ slot'[r] \in Nat
        /\ pc[r] = "start" /\ UNCHANGED <<specialistLock, appointmentLock, appts>>
    BY <1>2, <2>1 DEF LoadSpecialist, At, TypeOK, Goto, Op, locks, database
  <2>5. Op(r) = "delete" => \A p \in Pk : appointmentLock[p] # r
    BY <2>1 DEF LoadSpecialist, At, Sound, HoldsRows
  <2>6. Sound(r)' /\ Validated(r)'
    BY <2>1, <2>4, <2>5
       DEF Sound, Stage, HoldsSpecialist, HoldsAppointment, HoldsRows, HoldsOnly,
           Validated, Holding, Booking
  <2> QED
    BY <1>2, <2>2, <2>3, <2>6, QuietStep DEF database
<1> QED
  BY <1>1, <1>2 DEF LoadSpecialist, Answer

LEMMA ScanAppointmentsKeeps ==
    ASSUME LInv, NEW r \in Request, ScanAppointments(r)
    PROVE  Keeps
<1> USE DEF LInv
<1>1. /\ TypeOK' /\ (\A q \in Request \ {r} : Spared(q))
      /\ UNCHANGED <<specialists, hours, appts, issued>>
  BY DEF ScanAppointments, TypeOK, Goto, PC, database, locks, Spared
<1>2. /\ Op(r)' = "delete" /\ pc'[r] = "deleting" /\ pc[r] = "loaded"
      /\ UNCHANGED <<appointmentLock, specialistLock, target>>
  BY DEF ScanAppointments, At, TypeOK, Goto, locks, Op
<1>3. Op(r) = "delete" /\ target[r] \in Specialist
  BY DEF ScanAppointments, At, Sound, Stage
<1>4. Sound(r)' /\ Validated(r)'
  BY <1>1, <1>2, <1>3
     DEF Sound, Stage, HoldsSpecialist, HoldsAppointment, HoldsRows, HoldsOnly, Validated,
         Holding, Booking
<1> QED
  BY <1>1, <1>4, QuietStep

LEMMA LockDoomedRowKeeps ==
    ASSUME LInv, NEW r \in Request, LockDoomedRow(r)
    PROVE  Keeps
<1> USE DEF LInv
<1>1. Op(r) = "delete" /\ target[r] \in Specialist
  BY DEF LockDoomedRow, Sound, Stage
<1>2. PICK p \in Pk :
        /\ AppointmentFree(p, r)
        /\ todo' = [todo EXCEPT ![r] = @ \ {p}]
        /\ appointmentLock' =
             IF appts[p] # None /\ appts[p].specialist = target[r]
             THEN [appointmentLock EXCEPT ![p] = r] ELSE appointmentLock
  BY DEF LockDoomedRow, TypeOK
<1>3. /\ TypeOK' /\ (\A q \in Request \ {r} : Spared(q))
      /\ UNCHANGED <<specialists, hours, appts, issued>>
  BY <1>2, WorkloadAssumption
     DEF LockDoomedRow, TypeOK, database, Spared, AppointmentFree
<1>4. Op(r)' = Op(r) /\ UNCHANGED <<pc, target, specialistLock>>
  BY DEF LockDoomedRow, Op
<1>5. HoldsRows(r)'
  <2> SUFFICES ASSUME NEW x \in Pk, appointmentLock'[x] = r
               PROVE  appts[x] # None /\ appts[x].specialist = target[r]
    BY <1>3, <1>4 DEF HoldsRows, LockDoomedRow
  <2>1. CASE appointmentLock[x] = r
    BY <1>1, <2>1 DEF Sound, HoldsRows
  <2>2. CASE appointmentLock[x] # r
    BY <1>2, <2>2 DEF TypeOK
  <2> QED
    BY <2>1, <2>2
<1>6. Sound(r)' /\ Validated(r)'
  BY <1>1, <1>4, <1>5
     DEF LockDoomedRow, Sound, Stage, HoldsSpecialist, HoldsAppointment, HoldsOnly, Validated,
         Holding, Booking
<1> QED
  BY <1>3, <1>6, QuietStep

LEMMA LockDoomedSpecialistKeeps ==
    ASSUME LInv, NEW r \in Request, LockDoomedSpecialist(r)
    PROVE  Keeps
<1> USE DEF LInv
<1>1. Op(r) = "delete" /\ target[r] \in Specialist
  BY DEF LockDoomedSpecialist, Sound, Stage
<1>2. /\ TypeOK' /\ (\A q \in Request \ {r} : Spared(q))
      /\ UNCHANGED <<specialists, hours, appts, issued>>
  BY <1>1, WorkloadAssumption
     DEF LockDoomedSpecialist, TypeOK, Goto, PC, database, memory, Spared, SpecialistFree
<1>3. /\ Op(r)' = Op(r) /\ pc'[r] = "locked" /\ specialistLock'[target[r]] = r
      /\ UNCHANGED <<appointmentLock, appts, target>>
  BY <1>1 DEF LockDoomedSpecialist, TypeOK, Goto, Op, database, memory
<1>4. Sound(r)' /\ Validated(r)'
  BY <1>1, <1>3
     DEF Sound, Stage, HoldsSpecialist, HoldsAppointment, HoldsRows, HoldsOnly, Validated,
         Holding, Booking, Rowing, StatusOps
<1> QED
  BY <1>2, <1>4, QuietStep

-----------------------------------------------------------------------------
(* Steps that commit a write. *)

\* A commit owes the tables' invariants, the rows and specialists others have
\* locked, and the intervals others found free.
LEMMA CommitStep ==
    ASSUME LInv, NEW r \in Request, NEW answer \in Answer, Finish(r, answer), job' = job,
           TypeOK', NoOrphans', KeysIssued', IInv => NoActiveOverlap',
           \A q \in Request \ {r} :
             /\ \A s \in Specialist : specialistLock[s] = q =>
                   specialists'[s] = specialists[s]
             /\ \A p \in Pk : appointmentLock[p] = q => appts'[p] = appts[p]
             /\ pc[q] = "committing" /\ Free(appts, Candidate(q), Own(q)) =>
                   Free(appts', Candidate(q), Own(q))
    PROVE  Keeps
<1>1. TypeOK
  BY DEF LInv
<1>2. Sound(r)' /\ Validated(r)'
  BY <1>1, FinishedSound
<1>3. ASSUME NEW q \in Request \ {r}
      PROVE  Sound(q)' /\ (Validated(q) => Validated(q)')
  <2>1. Spared(q)
    BY <1>1, FinishEffects DEF Spared
  <2> QED
    BY <1>1, <2>1, SparedSound, SparedValidated DEF LInv
<1> QED
  BY <1>2, <1>3 DEF LInv, IInv, Keeps

\* Two handlers that have locked their specialists work for different ones.
LEMMA ApartOrSame ==
    ASSUME LInv, NEW r \in Request, NEW q \in Request \ {r},
           Booking(r), Holding(r), pc[q] = "committing"
    PROVE  /\ Candidate(q) \in Row /\ Candidate(q).specialist = target[q]
           /\ target[q] # target[r]
<1>1. Booking(q) /\ Holding(q)
  BY DEF LInv, Sound, Stage, Holding
<1>2. target[q] \in Specialist /\ specialistLock[target[q]] = q
  BY <1>1 DEF LInv, Sound, Stage, HoldsSpecialist, Booking, StatusOps
<1>3. specialistLock[target[r]] = r
  BY DEF LInv, Sound, HoldsSpecialist
<1> QED
  BY <1>1, <1>2, <1>3, CandidateRow DEF LInv

LEMMA CommitCreateKeeps ==
    ASSUME LInv, NEW r \in Request, CommitCreate(r)
    PROVE  Keeps
<1> DEFINE p == NextPk
           c == Candidate(r)
<1>1. TypeOK /\ NoOrphans /\ KeysIssued /\ Sound(r)
  BY DEF LInv
<1>2. Op(r) = "create" /\ Booking(r) /\ Holding(r) /\ p \in Pk \ issued
  BY <1>1, NextPkFresh DEF CommitCreate, At, Booking, Holding
<1>3. c \in Row /\ c.specialist = target[r]
  BY <1>1, <1>2, CandidateRow
<1>4. appts[p] = None /\ (\A q \in Request : appointmentLock[p] # q)
  BY <1>2 DEF LInv, KeysIssued, Sound, HoldsRows
<1>5. CASE appts' = appts /\ Finish(r, "conflict")
  <2>1. TypeOK'
    BY <1>1, <1>2, <1>5, FinishTypes DEF CommitCreate, TypeOK, Answer
  <2>2. NoOrphans' /\ KeysIssued' /\ (NoActiveOverlap => NoActiveOverlap')
    BY <1>1, <1>5 DEF CommitCreate, NoActiveOverlap, NoOrphans, KeysIssued
  <2> QED
    BY <1>5, <2>1, <2>2, CommitStep DEF CommitCreate, Answer, IInv
<1>6. CASE appts' = [appts EXCEPT ![p] = c] /\ Finish(r, "ok")
  <2>1. TypeOK'
    BY <1>1, <1>2, <1>3, <1>6, FinishTypes DEF CommitCreate, TypeOK, Answer, Table
  <2>2. ASSUME IInv
        PROVE  NoActiveOverlap'
    <3>1. Free(appts, c, None)
      BY <1>1, <1>2, <2>2 DEF CommitCreate, At, IInv, Validated, Own
    <3>2. Free(appts, c, p)
      BY <1>4, <3>1, DirectoryAssumption DEF Free, IsActive
    <3> QED
      BY <1>1, <1>2, <1>3, <1>6, <2>2, <3>2, PutFree DEF TypeOK, IInv, NoActiveOverlap
  <2>3. NoOrphans'
    <3>1. specialists[target[r]] \in Nat
      BY <1>1, <1>2 DEF Sound, HoldsSpecialist
    <3> QED
      BY <1>1, <1>2, <1>3, <1>6, <3>1, DirectoryAssumption
         DEF CommitCreate, NoOrphans, TypeOK, Table
  <2>4. KeysIssued'
    BY <1>1, <1>2, <1>6 DEF CommitCreate, KeysIssued, TypeOK, Table
  <2>5. ASSUME NEW q \in Request \ {r}
        PROVE  /\ \A x \in Pk : appointmentLock[x] = q => appts'[x] = appts[x]
               /\ pc[q] = "committing" /\ Free(appts, Candidate(q), Own(q)) =>
                     Free(appts', Candidate(q), Own(q))
    <3>1. \A x \in Pk : appointmentLock[x] = q => appts'[x] = appts[x]
      BY <1>1, <1>2, <1>4, <1>6 DEF TypeOK, Table
    <3>2. ASSUME pc[q] = "committing", Free(appts, Candidate(q), Own(q))
          PROVE  Free(appts', Candidate(q), Own(q))
      BY <1>1, <1>2, <1>3, <1>6, <3>2, ApartOrSame, OtherSpecialist DEF TypeOK
    <3> QED
      BY <3>1, <3>2
  <2> QED
    BY <1>6, <2>1, <2>2, <2>3, <2>4, <2>5, CommitStep DEF CommitCreate, Answer, IInv
<1> QED
  BY <1>5, <1>6 DEF CommitCreate

LEMMA CommitRescheduleKeeps ==
    ASSUME LInv, NEW r \in Request, CommitReschedule(r)
    PROVE  Keeps
<1> DEFINE p == job[r].pk
           c == Candidate(r)
<1>1. TypeOK /\ NoOrphans /\ KeysIssued /\ Sound(r)
  BY DEF LInv
<1>2. Op(r) = "reschedule" /\ Booking(r) /\ Rowing(r) /\ Holding(r) /\ p \in Pk
  BY <1>1, JobTypes DEF CommitReschedule, At, Booking, Rowing, Holding
<1>3. /\ appts[p] \in Row /\ appts[p].specialist = target[r]
      /\ appointmentLock[p] = r
  BY <1>1, <1>2 DEF Sound, HoldsAppointment
<1>4. /\ c \in Row /\ c.specialist = target[r]
      /\ c = [appts[p] EXCEPT !.date = job[r].date, !.time = job[r].time]
  BY <1>1, <1>2, CandidateRow
<1>5. CASE Refuse(r, "conflict")
  BY <1>5, RefuseKeeps DEF Answer
<1>6. CASE /\ appts' = [appts EXCEPT ![p] =
                [@ EXCEPT !.date = job[r].date, !.time = job[r].time]]
           /\ Finish(r, "ok")
           /\ UNCHANGED <<now, specialists, hours, issued, job>>
  <2>1. appts' = [appts EXCEPT ![p] = c]
    BY <1>4, <1>6
  <2>2. TypeOK'
    BY <1>1, <1>2, <1>4, <1>6, <2>1, FinishTypes DEF TypeOK, Answer, Table
  <2>3. ASSUME IInv
        PROVE  NoActiveOverlap'
    <3>1. Free(appts, c, p)
      BY <1>1, <1>2, <2>3 DEF CommitReschedule, At, IInv, Validated, Own
    <3> QED
      BY <1>1, <1>2, <1>4, <2>1, <2>3, <3>1, PutFree DEF TypeOK, IInv, NoActiveOverlap
  <2>4. NoOrphans'
    BY <1>1, <1>2, <1>3, <1>4, <1>6, <2>1, DirectoryAssumption
       DEF NoOrphans, TypeOK, Table
  <2>5. KeysIssued'
    BY <1>1, <1>2, <1>3, <1>6, <2>1, DirectoryAssumption DEF KeysIssued, TypeOK, Table
  <2>6. ASSUME NEW q \in Request \ {r}
        PROVE  /\ \A x \in Pk : appointmentLock[x] = q => appts'[x] = appts[x]
               /\ pc[q] = "committing" /\ Free(appts, Candidate(q), Own(q)) =>
                     Free(appts', Candidate(q), Own(q))
    <3>1. \A x \in Pk : appointmentLock[x] = q => appts'[x] = appts[x]
      BY <1>1, <1>2, <1>3, <2>1 DEF TypeOK, Table
    <3>2. ASSUME pc[q] = "committing", Free(appts, Candidate(q), Own(q))
          PROVE  Free(appts', Candidate(q), Own(q))
      BY <1>1, <1>2, <1>4, <2>1, <3>2, ApartOrSame, OtherSpecialist DEF TypeOK
    <3> QED
      BY <3>1, <3>2
  <2> QED
    BY <1>6, <2>2, <2>3, <2>4, <2>5, <2>6, CommitStep DEF Answer, IInv
<1> QED
  BY <1>5, <1>6 DEF CommitReschedule

\* No legal transition makes an inactive appointment active.
LEMMA TransitionsThin ==
    ASSUME NEW from \in Status, NEW to \in ALLOWED_TRANSITIONS[from]
    PROVE  to \in Status /\ (to \in Active => from \in Active)
BY DEF ALLOWED_TRANSITIONS, Status, Active

LEMMA CommitStatusKeeps ==
    ASSUME LInv, NEW r \in Request, CommitStatus(r)
    PROVE  Keeps
<1> DEFINE p == job[r].pk
           status == StatusAsked[Op(r)]
<1>1. TypeOK /\ NoOrphans /\ KeysIssued /\ Sound(r)
  BY DEF LInv
<1>2. Op(r) \in StatusOps /\ Rowing(r) /\ Holding(r) /\ p \in Pk
  BY <1>1, JobTypes DEF CommitStatus, At, Rowing, Holding
<1>3. appts[p] \in Row /\ appts[p] = seen[r] /\ appointmentLock[p] = r
  BY <1>1, <1>2 DEF Sound, HoldsAppointment
<1>4. CASE \E answer \in Answer : Refuse(r, answer)
  BY <1>4, RefuseKeeps
<1>5. CASE /\ status \in ALLOWED_TRANSITIONS[seen[r].status]
           /\ appts' = [appts EXCEPT ![p] = [@ EXCEPT !.status = status]]
           /\ Finish(r, "ok")
           /\ UNCHANGED <<now, specialists, hours, issued, job>>
  <2> DEFINE row == [appts[p] EXCEPT !.status = status]
  <2>1. status \in Status /\ (status \in Active => appts[p].status \in Active)
    BY <1>3, <1>5, TransitionsThin DEF Row
  <2>2. /\ row \in Row /\ row.specialist = appts[p].specialist
        /\ row.date = appts[p].date /\ row.time = appts[p].time
        /\ row.duration = appts[p].duration /\ row.status = status
    BY <1>3, <2>1 DEF Row
  <2>3. appts' = [appts EXCEPT ![p] = row]
    BY <1>5
  <2>4. TypeOK'
    BY <1>1, <1>2, <1>5, <2>2, <2>3, FinishTypes DEF TypeOK, Answer, Table
  <2>5. Thins(appts', appts)
    BY <1>1, <1>2, <1>3, <2>1, <2>2, <2>3, DirectoryAssumption
       DEF Thins, TypeOK, Table, IsActive, StartOf, EndOf
  <2>6. NoActiveOverlap => NoActiveOverlap'
    BY <1>1, <2>5, ThinningFrees DEF NoActiveOverlap
  <2>7. NoOrphans'
    BY <1>1, <1>2, <1>3, <1>5, <2>2, <2>3, DirectoryAssumption
       DEF NoOrphans, TypeOK, Table
  <2>8. KeysIssued'
    BY <1>1, <1>2, <1>3, <1>5, <2>3, DirectoryAssumption DEF KeysIssued, TypeOK, Table
  <2>9. ASSUME NEW q \in Request \ {r}
        PROVE  /\ \A x \in Pk : appointmentLock[x] = q => appts'[x] = appts[x]
               /\ Free(appts, Candidate(q), Own(q)) =>
                     Free(appts', Candidate(q), Own(q))
    BY <1>1, <1>2, <1>3, <2>3, <2>5, ThinningFrees DEF TypeOK, Table
  <2> QED
    BY <1>5, <2>4, <2>6, <2>7, <2>8, <2>9, CommitStep DEF Answer, IInv
<1> QED
  BY <1>4, <1>5 DEF CommitStatus, Answer

LEMMA SaveSpecialistKeeps ==
    ASSUME LInv, NEW r \in Request, SaveSpecialist(r)
    PROVE  Keeps
<1> DEFINE minutes == IF job[r].slot = 0 THEN slot[r] ELSE job[r].slot
<1>1. TypeOK /\ NoOrphans /\ KeysIssued /\ Sound(r)
  BY DEF LInv
<1>2. target[r] \in Specialist /\ minutes \in Nat
  BY <1>1, JobTypes DEF SaveSpecialist, At, Sound, Stage
<1>3. /\ specialists' = [specialists EXCEPT ![target[r]] = minutes]
      /\ Finish(r, "ok") /\ UNCHANGED <<now, hours, appts, issued, job>>
  BY DEF SaveSpecialist
<1>4. TypeOK'
  BY <1>1, <1>2, <1>3, FinishTypes DEF TypeOK, Answer
<1>5. NoOrphans' /\ KeysIssued' /\ (NoActiveOverlap => NoActiveOverlap')
  BY <1>1, <1>2, <1>3, DirectoryAssumption
     DEF NoActiveOverlap, NoOrphans, KeysIssued, TypeOK
<1>6. ASSUME NEW q \in Request \ {r}
      PROVE  \A s \in Specialist : specialistLock[s] = q =>
                specialists'[s] = specialists[s]
  BY <1>1, <1>2, <1>3, WorkloadAssumption DEF SaveSpecialist, SpecialistFree, TypeOK
<1> QED
  BY <1>3, <1>4, <1>5, <1>6, CommitStep DEF Answer, IInv

LEMMA CommitDeleteKeeps ==
    ASSUME LInv, NEW r \in Request, CommitDelete(r)
    PROVE  Keeps
<1>1. TypeOK /\ NoOrphans /\ KeysIssued /\ Sound(r)
  BY DEF LInv
<1>2. /\ Op(r) = "delete" /\ target[r] \in Specialist
      /\ specialistLock[target[r]] = r
  BY <1>1 DEF CommitDelete, At, Sound, Stage, HoldsSpecialist, Holding, StatusOps
<1>3. CASE Refuse(r, "error")
  BY <1>3, RefuseKeeps DEF Answer
<1>4. CASE /\ ~Orphaned(r)
           /\ appts' = [p \in Pk |-> IF appointmentLock[p] = r THEN None ELSE appts[p]]
           /\ specialists' = [specialists EXCEPT ![target[r]] = None]
           /\ hours' = hours \ swept[r]
           /\ Finish(r, "ok")
           /\ UNCHANGED <<now, issued, job>>
  <2>1. TypeOK'
    BY <1>1, <1>2, <1>4, FinishTypes DEF TypeOK, Answer, Table
  <2>2. Thins(appts', appts)
    BY <1>4 DEF Thins, IsActive
  <2>3. NoActiveOverlap => NoActiveOverlap'
    BY <1>1, <2>2, ThinningFrees DEF NoActiveOverlap
  <2>4. NoOrphans'
    <3>0. ASSUME NEW h \in hours'
          PROVE  specialists'[h.specialist] # None
      <4>1. h \in hours /\ h \notin swept[r] /\ h.specialist # target[r]
        BY <1>4, <3>0 DEF Orphaned
      <4>2. specialists[h.specialist] # None /\ h.specialist \in Specialist
        BY <1>1, <4>1, WorkloadAssumption DEF NoOrphans, TypeOK, HourRow
      <4> QED
        BY <1>1, <1>2, <1>4, <4>1, <4>2 DEF TypeOK
    <3> SUFFICES ASSUME NEW p \in Pk, appts'[p] # None
                 PROVE  specialists'[appts'[p].specialist] # None
      BY <3>0 DEF NoOrphans
    <3>1. appts'[p] = appts[p] /\ appointmentLock[p] # r
      BY <1>4
    <3>2. appts[p] \in Row /\ appts[p].specialist # target[r]
      BY <1>1, <1>4, <3>1 DEF Orphaned, TypeOK, Table
    <3>3. specialists[appts[p].specialist] # None /\ appts[p].specialist \in Specialist
      BY <1>1, <3>1, <3>2 DEF NoOrphans, Row
    <3> QED
      BY <1>1, <1>2, <1>4, <3>1, <3>2, <3>3 DEF TypeOK
  <2>5. KeysIssued'
    BY <1>1, <1>4 DEF KeysIssued
  <2>6. ASSUME NEW q \in Request \ {r}
        PROVE  /\ \A s \in Specialist : specialistLock[s] = q =>
                     specialists'[s] = specialists[s]
               /\ \A x \in Pk : appointmentLock[x] = q => appts'[x] = appts[x]
               /\ Free(appts, Candidate(q), Own(q)) =>
                     Free(appts', Candidate(q), Own(q))
    BY <1>1, <1>2, <1>4, <2>2, ThinningFrees DEF TypeOK
  <2> QED
    BY <1>4, <2>1, <2>3, <2>4, <2>5, <2>6, CommitStep DEF Answer, IInv
<1> QED
  BY <1>3, <1>4 DEF CommitDelete

\* The clock and the working hours are nobody's to lock.
LEMMA EnvironmentKeeps ==
    ASSUME LInv, TypeOK',
           \A h \in hours' \ hours : specialists[h.specialist] # None,
           UNCHANGED <<specialists, appts, issued, locks, job, pc, memory>>
    PROVE  Keeps
<1>1. NoOrphans' /\ KeysIssued' /\ (NoActiveOverlap => NoActiveOverlap')
  BY DEF LInv, NoActiveOverlap, NoOrphans, KeysIssued
<1>2. ASSUME NEW q \in Request
      PROVE  Sound(q)' /\ (Validated(q) => Validated(q)')
  <2>1. Spared(q)
    BY DEF Spared, locks, memory
  <2> QED
    BY <1>2, <2>1, SparedSound, SparedValidated DEF LInv
<1> QED
  BY <1>1, <1>2 DEF LInv, IInv, Keeps

-----------------------------------------------------------------------------
(* The theorems. *)

LEMMA InitIInv == Init => IInv
<1> SUFFICES ASSUME Init
             PROVE  IInv
  OBVIOUS
<1>1. TypeOK
  BY InitTypeOK
<1>2. NoActiveOverlap /\ KeysIssued
  BY WorkloadAssumption DEF Init, NoActiveOverlap, KeysIssued
<1>3. NoOrphans
  <2>1. ASSUME NEW p \in Pk, appts[p] # None
        PROVE  specialists[appts[p].specialist] # None
    <3>1. appts[p] \in Row
      BY <1>1, <2>1 DEF TypeOK, Table
    <3>2. appts[p].specialist \in Specialist
      BY <3>1 DEF Row
    <3> QED
      BY <3>2, WorkloadAssumption, DirectoryAssumption DEF Init
  <2>2. ASSUME NEW h \in hours
        PROVE  specialists[h.specialist] # None
    BY <2>2, WorkloadAssumption, DirectoryAssumption DEF Init, HourRow
  <2> QED
    BY <2>1, <2>2 DEF NoOrphans
<1>4. \A q \in Request : Sound(q) /\ Validated(q)
  BY WorkloadAssumption
     DEF Init, Sound, Stage, HoldsSpecialist, HoldsAppointment, HoldsRows, HoldsOnly,
         Validated, Holding
<1> QED
  BY <1>1, <1>2, <1>3, <1>4 DEF LInv, IInv

LEMMA NextKeeps ==
    ASSUME LInv, [Next]_vars
    PROVE  Keeps
<1>1. ASSUME NEW r \in Request, Step(r)
      PROVE  Keeps
  BY <1>1, AdviseKeeps, LocateKeeps, LockSpecialistKeeps, LockAppointmentKeeps,
     ValidateKeeps, CheckOccupancyKeeps, CommitCreateKeeps, CommitRescheduleKeeps,
     CommitStatusKeeps, LoadSpecialistKeeps, SaveSpecialistKeeps,
     ScanAppointmentsKeeps, LockDoomedRowKeeps, LockDoomedSpecialistKeeps,
     CommitDeleteKeeps
     DEF Step
<1>2. ASSUME NEW r \in Request, DeadlockVictim(r) \/ Crash(r)
      PROVE  Keeps
  BY <1>2, RefuseKeeps DEF DeadlockVictim, Crash, Answer
<1>3. CASE Tick
  <2>1. TypeOK'
    BY <1>3, WorkloadAssumption DEF Tick, LInv, TypeOK, database, locks, memory
  <2> QED
    BY <1>3, <2>1, EnvironmentKeeps DEF Tick, database
<1>4. CASE AddHours \/ RemoveHours
  <2>1. TypeOK'
    BY <1>4 DEF AddHours, RemoveHours, LInv, TypeOK, locks, memory
  <2> QED
    BY <1>4, <2>1, EnvironmentKeeps DEF AddHours, RemoveHours
<1>5. CASE UNCHANGED vars
  <2>1. TypeOK'
    BY <1>5 DEF vars, LInv, TypeOK, database, locks, memory
  <2> QED
    BY <1>5, <2>1, EnvironmentKeeps DEF vars, database
<1> QED
  BY <1>1, <1>2, <1>3, <1>4, <1>5 DEF Next, Terminating

LEMMA NextIInv == IInv /\ [Next]_vars => IInv'
BY NextKeeps DEF IInv, Keeps

\* The inductive invariant holds of every reachable state.
THEOREM Invariance == Spec => []IInv
BY InitIInv, NextIInv, PTL DEF Spec

\* And so does the part of it that rests on the locks.
THEOREM LockInvariance == Spec => []LInv
<1>1. IInv => LInv
  BY DEF IInv
<1> QED
  BY Invariance, <1>1, PTL

\* Every table, lock and handler stays within its type.
THEOREM TypeCorrect == Spec => []TypeOK
<1>1. LInv => TypeOK
  BY DEF LInv
<1> QED
  BY LockInvariance, <1>1, PTL

\* Whatever the requests, their number and their interleaving, no two active
\* appointments of a specialist share an instant.
THEOREM NoActiveOverlapHolds == Spec => []NoActiveOverlap
<1>1. IInv => NoActiveOverlap
  BY DEF IInv
<1> QED
  BY Invariance, <1>1, PTL

\* The row and the slot_duration a handler read under its locks are the ones in
\* the tables until it answers.
THEOREM ReadsHoldAlways == Spec => []ReadsHold
<1>1. LInv => ReadsHold
  BY DEF LInv, ReadsHold, Sound, HoldsSpecialist, HoldsAppointment, Booking, Rowing
<1> QED
  BY LockInvariance, <1>1, PTL

\* The interval a handler found free is free until it writes.
THEOREM ValidationHoldsAlways == Spec => []ValidationHolds
<1>1. IInv => ValidationHolds
  BY DEF IInv, ValidationHolds, Validated
<1> QED
  BY Invariance, <1>1, PTL

\* No appointment outlives its specialist.
THEOREM NoOrphansHolds == Spec => []NoOrphans
<1>1. LInv => NoOrphans
  BY DEF LInv
<1> QED
  BY LockInvariance, <1>1, PTL

-----------------------------------------------------------------------------
(* Deadlocks. *)

\* A mutation that holds an appointment has all its locks; one that holds a
\* specialist waits for its appointment at most.
LEMMA LockOrder ==
    ASSUME LInv, NEW q \in Request, Op(q) # "delete"
    PROVE  /\ \A p \in Pk : appointmentLock[p] = q =>
                SpecialistsWanted(q) = {} /\ AppointmentsWanted(q) = {}
           /\ \A s \in Specialist : specialistLock[s] = q => SpecialistsWanted(q) = {}
<1>1. pc[q] # "deleting" /\ HoldsOnly(q)
  BY DEF LInv, Sound, Stage
<1>2. ASSUME NEW p \in Pk, appointmentLock[p] = q
      PROVE  SpecialistsWanted(q) = {} /\ AppointmentsWanted(q) = {}
  <2>1. Holding(q)
    BY <1>1, <1>2 DEF HoldsOnly
  <2> QED
    BY <1>1, <2>1 DEF Holding, SpecialistsWanted, AppointmentsWanted, At
<1>3. ASSUME NEW s \in Specialist, specialistLock[s] = q
      PROVE  SpecialistsWanted(q) = {}
  <2>1. Holding(q) \/ pc[q] = "holding"
    BY <1>1, <1>3 DEF HoldsOnly
  <2> QED
    BY <1>1, <2>1 DEF Holding, SpecialistsWanted, At
<1> QED
  BY <1>2, <1>3

\* The lock order of transactions.py, specialist before appointment, suffices:
\* requests that wait for each other in a circle include the deletion of a
\* specialist, which alone locks the appointments first.
THEOREM NoMutationDeadlockHolds == Spec => []NoMutationDeadlock
<1>1. LInv => NoMutationDeadlock
  <2> SUFFICES ASSUME LInv, NEW group \in SUBSET Request, Deadlocked(group),
                      \A r \in group : Op(r) # "delete"
               PROVE  FALSE
    BY DEF NoMutationDeadlock
  <2>1. \A r \in group : /\ SpecialistsWanted(r) \subseteq Specialist
                         /\ AppointmentsWanted(r) \subseteq Pk
    <3> SUFFICES ASSUME NEW r \in group
                 PROVE  /\ SpecialistsWanted(r) \subseteq Specialist
                        /\ AppointmentsWanted(r) \subseteq Pk
      OBVIOUS
    <3>1. Op(r) \in {"reschedule"} \cup StatusOps => job[r].pk \in Pk
      BY JobTypes DEF LInv
    <3> QED
      BY <3>1 DEF LInv, TypeOK, Sound, Stage, SpecialistsWanted, AppointmentsWanted, At
  <2>2. ASSUME NEW r \in group, NEW q \in group, WaitsFor(r, q)
        PROVE  \E s \in Specialist : specialistLock[s] = q
    <3>1. PICK x \in group : WaitsFor(q, x)
      BY DEF Deadlocked
    <3>2. \A p \in Pk : appointmentLock[p] # q
      BY <3>1, LockOrder DEF WaitsFor
    <3> QED
      BY <2>1, <2>2, <3>2 DEF WaitsFor
  <2>3. PICK r \in group : TRUE
    BY DEF Deadlocked
  <2>4. PICK q \in group : WaitsFor(r, q)
    BY DEF Deadlocked
  <2>5. PICK x \in group : WaitsFor(q, x)
    BY DEF Deadlocked
  <2>6. PICK p \in AppointmentsWanted(q) : appointmentLock[p] = x
    <3>1. SpecialistsWanted(q) = {}
      BY <2>2, <2>4, LockOrder
    <3> QED
      BY <2>5, <3>1 DEF WaitsFor
  <2>7. p \in Pk /\ SpecialistsWanted(x) = {} /\ AppointmentsWanted(x) = {}
    BY <2>1, <2>6, LockOrder
  <2> QED
    BY <2>7 DEF Deadlocked, WaitsFor
<1> QED
  BY <1>1, LockInvariance, PTL

-----------------------------------------------------------------------------
(* The mutations implement the abstract book.                                *)

\* The book speaks of the same rules.
LEMMA SameRules ==
    /\ Book!Row = Row /\ Book!Table = Table /\ Book!Status = Status
    /\ Book!Date = Date /\ Book!Time = Time
    /\ Book!ALLOWED_TRANSITIONS = ALLOWED_TRANSITIONS
    /\ \A table, p : Book!IsActive(table, p) = IsActive(table, p)
    /\ \A table, row, p : Book!Free(table, row, p) = Free(table, row, p)
    /\ \A table : Book!Disjoint(table) = Disjoint(table)
<1>1. Book!Status = Status /\ Book!Date = Date /\ Book!Time = Time
  BY DEF Book!Status, Status, Book!Date, Date, Book!Time, Time, Book!DayTicks, DayTicks
<1>2. Book!Row = Row /\ Book!ALLOWED_TRANSITIONS = ALLOWED_TRANSITIONS
  BY <1>1 DEF Book!Row, Row, Book!ALLOWED_TRANSITIONS, ALLOWED_TRANSITIONS
<1>3. Book!Table = Table
  BY <1>2 DEF Book!Table, Table
<1>4. \A table, p : Book!IsActive(table, p) = IsActive(table, p)
  BY DEF Book!IsActive, IsActive, Book!Active, Active
<1>5. \A a, b : Book!Overlap(a, b) = Overlap(a, b)
  BY DEF Book!Overlap, Overlap, Book!StartOf, StartOf, Book!EndOf, EndOf,
         Book!Midnight, Midnight, Book!DayTicks, DayTicks
<1>6. \A table, row, p : Book!Free(table, row, p) = Free(table, row, p)
  BY <1>4, <1>5 DEF Book!Free, Free
<1>7. \A table : Book!Disjoint(table) = Disjoint(table)
  BY <1>4, <1>6 DEF Book!Disjoint, Disjoint
<1> QED
  BY <1>1, <1>2, <1>3, <1>4, <1>6, <1>7

LEMMA CreateBooks ==
    ASSUME IInv, NEW r \in Request, CommitCreate(r), appts' # appts
    PROVE  Book!Next
<1> DEFINE p == NextPk
           c == Candidate(r)
<1>1. TypeOK /\ KeysIssued /\ Sound(r) /\ Validated(r)
  BY DEF IInv, LInv
<1>2. Op(r) = "create" /\ Booking(r) /\ Holding(r) /\ p \in Pk \ issued
  BY <1>1, NextPkFresh DEF CommitCreate, At, Booking, Holding
<1>3. c \in Row /\ c.status = "pending"
  BY <1>1, <1>2, CandidateRow
<1>4. appts[p] = None
  BY <1>1, <1>2 DEF KeysIssued
<1>5. appts' = [appts EXCEPT ![p] = c] /\ appts'[p] = c
  BY <1>1, <1>2 DEF CommitCreate, TypeOK, Table
<1>6. Free(appts, c, None)
  BY <1>1, <1>2 DEF CommitCreate, At, Validated, Own
<1>7. Free(appts, c, p)
  BY <1>4, <1>6, DirectoryAssumption DEF Free, IsActive
<1>8. Book!Book(p)
  <2> HIDE DEF c, p
  <2>1. /\ appts'[p] \in Book!Row /\ appts'[p].status = "pending"
        /\ appts' = [appts EXCEPT ![p] = appts'[p]]
    <3>1. c \in Book!Row
      BY <1>3, SameRules
    <3> QED
      BY <1>3, <1>5, <3>1
  <2>2. Book!Free(appts, appts'[p], p)
    BY <1>5, <1>7, SameRules
  <2> QED
    BY <1>4, <2>1, <2>2 DEF Book!Book, Book!Exists
<1> QED
  BY <1>2, <1>8 DEF Book!Next

LEMMA RescheduleMoves ==
    ASSUME IInv, NEW r \in Request, CommitReschedule(r), appts' # appts
    PROVE  Book!Next
<1> DEFINE p == job[r].pk
           c == Candidate(r)
<1>1. TypeOK /\ Sound(r) /\ Validated(r)
  BY DEF IInv, LInv
<1>2. /\ Op(r) = "reschedule" /\ Booking(r) /\ Rowing(r) /\ Holding(r) /\ p \in Pk
      /\ job[r].date \in Date /\ job[r].time \in Time
  BY <1>1, JobTypes DEF CommitReschedule, At, Booking, Rowing, Holding
<1>3. appts[p] \in Row /\ appts[p] = seen[r] /\ appts[p].status \in Active
  BY <1>1, <1>2 DEF CommitReschedule, At, Sound, HoldsAppointment, Validated
<1>4. c = [appts[p] EXCEPT !.date = job[r].date, !.time = job[r].time]
  BY <1>1, <1>2, CandidateRow
<1>5. Free(appts, c, p)
  BY <1>1, <1>2 DEF CommitReschedule, At, Validated, Own
<1>6. appts' = [appts EXCEPT ![p] = c]
  BY <1>4 DEF CommitReschedule, Refuse, database
<1>7. IsActive(appts, p)
  BY <1>3, DirectoryAssumption DEF IsActive
<1>8. c \in Row /\ c.date = job[r].date /\ c.time = job[r].time
  BY <1>2, <1>3, <1>4 DEF Row
<1>9. appts'[p] = c
  BY <1>1, <1>2, <1>6 DEF TypeOK, Table
<1>10. Book!Move(p)
  <2> HIDE DEF c, p
  <2>1. /\ Book!IsActive(appts, p) /\ appts'[p] \in Book!Row
        /\ Book!Free(appts, c, p)
    BY <1>5, <1>7, <1>8, <1>9, SameRules
  <2>2. c = [appts[p] EXCEPT !.date = appts'[p].date, !.time = appts'[p].time]
    BY <1>4, <1>8, <1>9
  <2> QED
    BY <1>6, <2>1, <2>2 DEF Book!Move
<1> QED
  BY <1>2, <1>10 DEF Book!Next

LEMMA StatusSets ==
    ASSUME IInv, NEW r \in Request, CommitStatus(r), appts' # appts
    PROVE  Book!Next
<1> DEFINE p == job[r].pk
           status == StatusAsked[Op(r)]
<1>1. TypeOK /\ Sound(r) /\ Validated(r)
  BY DEF IInv, LInv
<1>2. Rowing(r) /\ Holding(r) /\ p \in Pk
  BY <1>1, JobTypes DEF CommitStatus, At, Rowing, Holding
<1>3. appts[p] \in Row /\ appts[p] = seen[r]
  BY <1>1, <1>2 DEF Sound, HoldsAppointment
<1>4. /\ status \in ALLOWED_TRANSITIONS[appts[p].status]
      /\ appts' = [appts EXCEPT ![p] = [@ EXCEPT !.status = status]]
  BY <1>3 DEF CommitStatus, Refuse, database
<1>5. status \in Status /\ appts[p] # None
  BY <1>3, <1>4, TransitionsThin, DirectoryAssumption DEF Row
<1>6. Book!SetStatus(p, status)
  BY <1>4, <1>5, SameRules DEF Book!SetStatus, Book!Exists
<1> QED
  BY <1>2, <1>5, <1>6, SameRules DEF Book!Next

LEMMA DeleteRemoves ==
    ASSUME IInv, NEW r \in Request, CommitDelete(r), appts' # appts
    PROVE  Book!Next
<1>1. TypeOK /\ Sound(r) /\ Validated(r)
  BY DEF IInv, LInv
<1>2. Op(r) = "delete" /\ target[r] \in Specialist
  BY <1>1 DEF CommitDelete, At, Sound, Stage, Holding, StatusOps
<1>3. /\ ~Orphaned(r)
      /\ appts' = [p \in Pk |-> IF appointmentLock[p] = r THEN None ELSE appts[p]]
  BY DEF CommitDelete, Refuse, database
<1>4. \A p \in Pk : appointmentLock[p] = r
                     <=> appts[p] # None /\ appts[p].specialist = target[r]
  BY <1>1, <1>2, <1>3 DEF Orphaned, Sound, HoldsRows
<1>5. Book!Remove(target[r])
  BY <1>3, <1>4 DEF Book!Remove, Book!Exists
<1> QED
  BY <1>2, <1>5 DEF Book!Next

\* No other step touches the table.
LEMMA OthersLeaveTable ==
    ASSUME [Next]_vars,
           \A r \in Request : /\ ~CommitCreate(r) /\ ~CommitReschedule(r)
                              /\ ~CommitStatus(r) /\ ~CommitDelete(r)
    PROVE  appts' = appts
<1>1. ASSUME NEW r \in Request, NEW answer, Refuse(r, answer)
      PROVE  appts' = appts
  BY <1>1 DEF Refuse, database
<1>2. ASSUME NEW r \in Request, Step(r)
      PROVE  appts' = appts
  BY <1>1, <1>2
     DEF Step, Advise, Locate, LockSpecialist, LockAppointment, Validate, CheckOccupancy,
         LoadSpecialist, SaveSpecialist, ScanAppointments, LockDoomedRow,
         LockDoomedSpecialist, database
<1>3. ASSUME NEW r \in Request, DeadlockVictim(r) \/ Crash(r)
      PROVE  appts' = appts
  BY <1>1, <1>3 DEF DeadlockVictim, Crash
<1>4. CASE Tick \/ AddHours \/ RemoveHours \/ Terminating \/ UNCHANGED vars
  BY <1>4 DEF Tick, AddHours, RemoveHours, Terminating, vars, database
<1> QED
  BY <1>2, <1>3, <1>4 DEF Next

\* Every behaviour of the endpoints is, to the table of appointments, one of the
\* abstract book: a booking is a free pending row, a reschedule moves a live one,
\* a status follows the lifecycle, a specialist leaves with all it has.
THEOREM MutationsImplementBook == Spec => ImplementsBook
<1>1. Init => Book!Init
  <2>1. TypeOK /\ Disjoint(appts) => Book!Init
    BY SameRules DEF TypeOK, Book!Init, Book!TypeOK
  <2>2. Init => TypeOK /\ Disjoint(appts)
    BY InitIInv DEF IInv, LInv, NoActiveOverlap
  <2> QED
    BY <2>1, <2>2
<1>2. IInv /\ [Next]_vars => [Book!Next]_appts
  <2> SUFFICES ASSUME IInv, [Next]_vars, appts' # appts
               PROVE  Book!Next
    OBVIOUS
  <2> QED
    BY CreateBooks, RescheduleMoves, StatusSets, DeleteRemoves, OthersLeaveTable
<1> QED
  BY <1>1, <1>2, Invariance, PTL DEF Spec, Book!Spec, ImplementsBook
=============================================================================
