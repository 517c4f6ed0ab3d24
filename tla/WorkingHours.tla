---------------------------- MODULE WorkingHours ----------------------------
(***************************************************************************)
(* The endpoints that change specialists and their working hours            *)
(* (specialists/views.py, serializers.py), statement by statement.  Each      *)
(* statement commits by itself, but for a deletion, which is one transaction. *)
(* The unique constraint and the foreign key are the database's; that          *)
(* intervals do not overlap is tested by the write serializer alone, some      *)
(* statements before the insert.                                             *)
(*                                                                         *)
(* A row that a request inserts is named by the request, as a primary key is  *)
(* never used twice.  The specialists' columns, and their appointments, are    *)
(* the matter of AppointmentMutations.                                       *)
(***************************************************************************)
EXTENDS Naturals

CONSTANTS
    Request, Jobs,      \* the HTTP requests, and what they may ask for
    Founder,            \* the specialists to start from
    SeedPk, Seeds,      \* the intervals to start from
    Day, Time, None

Specialist == Founder \cup Request
Pk         == SeedPk \cup Request

WorkingHour == [specialist : Specialist, day : Day, start_time : Time, end_time : Time]

Role == {"customer", "specialist", "admin", "owner"}

SpecialistJob == [op : {"hire", "edit", "dismiss"}, role : Role \cup {None},
                  specialist : Specialist]
AddJob    == [op : {"add"}, role : Role \cup {None}, row : WorkingHour]
RemoveJob == [op : {"remove"}, role : Role \cup {None}, specialist : Specialist,
              working_hour : Pk]

\* Two intervals of a specialist's day share an instant.
Overlap(h, k) ==
    /\ h.specialist = k.specialist /\ h.day = k.day
    /\ h.start_time < k.end_time /\ k.start_time < h.end_time

ASSUME HoursAssumption ==
    /\ Time \subseteq Nat
    /\ Jobs \subseteq SpecialistJob \cup AddJob \cup RemoveJob
    /\ Seeds \in [SeedPk -> WorkingHour]
    /\ \A p \in SeedPk : Seeds[p].specialist \in Founder
    /\ \A p, q \in SeedPk : p # q => ~Overlap(Seeds[p], Seeds[q])
    /\ \A p, q \in SeedPk : p # q => Seeds[p] # Seeds[q]
    /\ None \notin WorkingHour \cup Role
    /\ Founder \cap Request = {} /\ SeedPk \cap Request = {}

VARIABLES
    specialists,    \* table: the specialists there are
    hours,          \* table: the interval of each primary key, or None
    job, pc,        \* what each request asks for; where its handler is, or its answer
    swept,          \* the intervals an open deletion has deleted
    saw             \* auxiliary: the rows there were when each was validated

tables == <<specialists, hours>>
vars   == <<tables, job, pc, swept, saw>>

Answer == {"ok", "denied", "missing", "refused", "error", "lost"}

Init ==
    /\ specialists = Founder
    /\ hours = [p \in Pk |-> IF p \in SeedPk THEN Seeds[p] ELSE None]
    /\ job \in [Request -> Jobs]
    /\ pc = [r \in Request |-> "start"]
    /\ swept = [r \in Request |-> {}]
    /\ saw = [p \in Pk |-> {}]

-----------------------------------------------------------------------------
At(r, op, label) == job[r].op = op /\ pc[r] = label
Goto(r, label) == pc' = [pc EXCEPT ![r] = label]
Proceed(r, label) == Goto(r, label) /\ UNCHANGED <<tables, job, swept, saw>>

Rows == {p \in Pk : hours[p] # None}

\* The specialist the request names.
Named(r) == IF job[r].op = "add" THEN job[r].row.specialist ELSE job[r].specialist

\* IsOwnerOrAdmin.
Allowed(r) == job[r].role \in {"owner", "admin"}

Deny(r) == pc[r] = "start" /\ ~Allowed(r) /\ Proceed(r, "denied")

\* get_object_or_404(Specialist): in get_serializer_context, and in get_object.
Find(r) ==
    /\ job[r].op \in {"add", "edit", "dismiss"} /\ pc[r] = "start" /\ Allowed(r)
    /\ Proceed(r, IF Named(r) \in specialists THEN "found" ELSE "missing")

-----------------------------------------------------------------------------
\* Mutant: only intervals that contain the new one collide with it.
Containing(row) ==
    \E p \in Rows : /\ Overlap(hours[p], row)
                   /\ hours[p].start_time <= row.start_time
                   /\ row.end_time <= hours[p].end_time

\* WorkingHourWriteSerializer.validate.
Overlapping(row) == \E p \in Rows : Overlap(hours[p], row)

Validate(r) ==
    /\ At(r, "add", "found")
    /\ LET row == job[r].row
       IN  \/ (row.start_time >= row.end_time \/ Overlapping(row)) /\ Proceed(r, "refused")
           \/ /\ row.start_time < row.end_time /\ ~Overlapping(row)
              /\ saw' = [saw EXCEPT ![r] = Rows]
              /\ Goto(r, "valid")
              /\ UNCHANGED <<tables, job, swept>>

\* perform_create looks for the specialist again.
FindAgain(r) ==
    /\ At(r, "add", "valid")
    /\ Proceed(r, IF Named(r) \in specialists THEN "ready" ELSE "missing")

\* The foreign key, and unique_working_interval_per_specialist.
Insertable(row) == row.specialist \in specialists /\ \A p \in Rows : hours[p] # row

Insert(r) ==
    /\ At(r, "add", "ready")
    /\ \/ ~Insertable(job[r].row) /\ Proceed(r, "error")
       \/ /\ Insertable(job[r].row)
          /\ hours' = [hours EXCEPT ![r] = job[r].row]
          /\ Goto(r, "ok")
          /\ UNCHANGED <<specialists, job, swept, saw>>

-----------------------------------------------------------------------------
\* Mutant: the interval is looked for by its key alone.
FindHourAnywhere(r) ==
    /\ At(r, "remove", "start") /\ Allowed(r)
    /\ Proceed(r, IF hours[job[r].working_hour] # None THEN "found" ELSE "missing")

\* SpecialistWorkingHourDeleteView.get_object.
FindHour(r) ==
    /\ At(r, "remove", "start") /\ Allowed(r)
    /\ LET h == hours[job[r].working_hour]
       IN  Proceed(r, IF h # None /\ h.specialist = Named(r) THEN "found" ELSE "missing")

\* DELETE by primary key, which waits for a deletion that has locked the row, and
\* finds nothing amiss if the row has gone.
RemoveHour(r) ==
    /\ At(r, "remove", "found")
    /\ \A q \in Request : job[r].working_hour \notin swept[q]
    /\ hours' = [hours EXCEPT ![job[r].working_hour] = None]
    /\ Goto(r, "ok")
    /\ UNCHANGED <<specialists, job, swept, saw>>

-----------------------------------------------------------------------------
Hire(r) ==
    /\ At(r, "hire", "start") /\ Allowed(r)
    /\ specialists' = specialists \cup {r}
    /\ Goto(r, "ok")
    /\ UNCHANGED <<hours, job, swept, saw>>

\* save() of every column: a row that has gone is inserted again.
Edit(r) ==
    /\ At(r, "edit", "found")
    /\ specialists' = specialists \cup {Named(r)}
    /\ Goto(r, "ok")
    /\ UNCHANGED <<hours, job, swept, saw>>

\* The cascade deletes, and so locks, the intervals it sees, ...
Sweep(r) ==
    /\ At(r, "dismiss", "found")
    /\ swept' = [swept EXCEPT ![r] = {p \in Rows : hours[p].specialist = Named(r)}]
    /\ Goto(r, "swept")
    /\ UNCHANGED <<tables, job, saw>>

\* Mutant: ON DELETE without a test at commit.
DismissAnyway(r) ==
    /\ At(r, "dismiss", "swept")
    /\ specialists' = specialists \ {Named(r)}
    /\ hours' = [p \in Pk |-> IF p \in swept[r] THEN None ELSE hours[p]]
    /\ swept' = [swept EXCEPT ![r] = {}]
    /\ Goto(r, "ok")
    /\ UNCHANGED <<job, saw>>

\* ... and the foreign key is tested at commit: an interval added since refuses
\* the whole deletion.
Dismiss(r) ==
    /\ At(r, "dismiss", "swept")
    /\ swept' = [swept EXCEPT ![r] = {}]
    /\ IF \E p \in Rows \ swept[r] : hours[p].specialist = Named(r)
       THEN Goto(r, "error") /\ UNCHANGED tables
       ELSE /\ specialists' = specialists \ {Named(r)}
            /\ hours' = [p \in Pk |-> IF p \in swept[r] THEN None ELSE hours[p]]
            /\ Goto(r, "ok")
    /\ UNCHANGED <<job, saw>>

\* The worker dies; an open transaction is rolled back.
Crash(r) ==
    /\ pc[r] \notin Answer
    /\ swept' = [swept EXCEPT ![r] = {}]
    /\ Goto(r, "lost")
    /\ UNCHANGED <<tables, job, saw>>

Terminating == (\A r \in Request : pc[r] \in Answer) /\ UNCHANGED vars

Step(r) == \/ Deny(r) \/ Find(r) \/ Validate(r) \/ FindAgain(r) \/ Insert(r)
           \/ FindHour(r) \/ RemoveHour(r) \/ Hire(r) \/ Edit(r) \/ Sweep(r) \/ Dismiss(r)

Next == (\E r \in Request : Step(r) \/ Crash(r)) \/ Terminating

Spec == Init /\ [][Next]_vars

-----------------------------------------------------------------------------
(* Properties. *)

\* Two intervals of one day overlap only if their additions raced: neither was
\* there when the other was validated, whatever was removed, dismissed and
\* hired again between a validation and its insert.
HoursOverlapUnseen ==
    \A p, q \in Rows :
        p # q /\ Overlap(hours[p], hours[q]) => p \notin saw[q] /\ q \notin saw[p]

\* An addition that was answered stands, unless a removal that names the interval
\* and its specialist, or a dismissal of the specialist, was answered too: one that
\* is refused, or dies, takes nothing away.
Undoes(q, r) ==
    /\ pc[q] = "ok" /\ Named(q) = Named(r)
    /\ \/ job[q].op = "remove" /\ job[q].working_hour = r
       \/ job[q].op = "dismiss"

AdditionsStand ==
    \A r \in Request : At(r, "add", "ok") =>
        hours[r] # None \/ \E q \in Request : Undoes(q, r)

\* The two tables move only as HoursBook allows, primary keys put aside: no
\* interval twice, and none without its specialist.
Book == INSTANCE HoursBook WITH
            HourRow <- WorkingHour, hours <- {hours[p] : p \in Rows}
ImplementsHours == Book!Spec

=============================================================================
