------------------------ MODULE WorkingHours_proofs ------------------------
(***************************************************************************)
(* For any specialists, intervals and number of requests: hours overlap only  *)
(* if their additions raced, an addition that was answered stands, and the    *)
(* tables move as HoursBook allows.                                         *)
(***************************************************************************)
EXTENDS WorkingHours, TLAPS

PC == {"start", "found", "valid", "ready", "swept"} \cup Answer

Typed ==
    /\ specialists \subseteq Specialist
    /\ hours \in [Pk -> WorkingHour \cup {None}]
    /\ job \in [Request -> Jobs]
    /\ pc \in [Request -> PC]
    /\ swept \in [Request -> SUBSET Pk]
    /\ saw \in [Pk -> SUBSET Pk]

\* A row is a seed, or what the request it is named by asked for and was told.
Origin(p) ==
    hours[p] # None =>
        \/ p \in SeedPk /\ hours[p] = Seeds[p]
        \/ p \in Request /\ At(p, "add", "ok") /\ hours[p] = job[p].row

\* Only rows that had been inserted have been seen, and only by additions; what one
\* has seen, and is still there, is clear of the row it validated.
SeenRow(p) == p \in SeedPk \/ (p \in Request /\ pc[p] = "ok")

Validated(r) ==
    /\ \A p \in saw[r] : SeenRow(p)
    /\ job[r].op = "add" /\ pc[r] \in {"valid", "ready", "ok"} =>
          \A p \in saw[r] \cap Rows : ~Overlap(hours[p], job[r].row)

\* A dismissal has locked rows of its specialist, and a removal has found one.
Owned(p, r) == SeenRow(p) /\ (hours[p] # None => hours[p].specialist = Named(r))
Swept(r)    == \A p \in swept[r] : Owned(p, r)
Located(r)  == At(r, "remove", "found") => Owned(job[r].working_hour, r)

Referred == \A p \in Rows : hours[p].specialist \in specialists
Distinct == \A p, q \in Rows : p # q => hours[p] # hours[q]

\* The properties speak of what was validated, found or swept some steps before.
IInv == /\ Typed
        /\ \A p \in Pk : Origin(p)
        /\ \A p \in SeedPk : saw[p] = {}
        /\ \A r \in Request : Validated(r) /\ Swept(r) /\ Located(r)
        /\ Referred /\ Distinct
        /\ AdditionsStand

-----------------------------------------------------------------------------
\* A job is of the kind its operation says.
LEMMA JobShape ==
    ASSUME NEW j \in Jobs
    PROVE  /\ j.op = "add" => j.row \in WorkingHour /\ j.row.specialist \in Specialist
           /\ j.op = "remove" => j.specialist \in Specialist /\ j.working_hour \in Pk
           /\ j.op \in {"hire", "edit", "dismiss"} => j.specialist \in Specialist
BY HoursAssumption DEF SpecialistJob, AddJob, RemoveJob, WorkingHour

\* It holds initially.
LEMMA HoursStart == Init => IInv
<1> SUFFICES ASSUME Init
             PROVE  IInv
  OBVIOUS
<1>1. Typed
  BY HoursAssumption DEF Init, Typed, PC, Pk, Specialist
<1>2. \A p \in Pk : Origin(p)
  BY DEF Init, Origin
<1>3. \A r \in Request : Validated(r) /\ Swept(r) /\ Located(r)
  BY DEF Init, Validated, Swept, Located, At, Pk
<1>4. \A p \in Rows : p \in SeedPk /\ hours[p] = Seeds[p]
  BY HoursAssumption DEF Init, Rows
<1>5. Referred /\ Distinct
  BY <1>4, HoursAssumption DEF Init, Referred, Distinct
<1> QED
  BY <1>1, <1>2, <1>3, <1>5 DEF IInv, Init, AdditionsStand, At, Pk

\* Every row there is, is a seed or has been inserted.
LEMMA RowsSeen == ASSUME IInv PROVE \A p \in Rows : SeenRow(p)
BY DEF IInv, Origin, SeenRow, Rows, At

-----------------------------------------------------------------------------
(* Steps that leave the intervals alone. *)

LEMMA QuietKeeps ==
    ASSUME IInv, Typed', NEW r \in Request, NEW label \in PC,
           pc[r] \notin Answer, pc' = [pc EXCEPT ![r] = label],
           UNCHANGED <<hours, job, saw>>, specialists \subseteq specialists',
           Swept(r)', Located(r)', \A q \in Request : q # r => swept'[q] = swept[q],
           job[r].op = "add" =>
               /\ label # "ok"
               /\ label \in {"valid", "ready"} => pc[r] \in {"valid", "ready"}
    PROVE  IInv'
<1>1. Rows' = Rows
  BY DEF Rows
<1>2. \A q \in Request : q # r => pc'[q] = pc[q]
  BY DEF IInv, Typed
<1>3. pc[r] # "ok" /\ pc'[r] = label
  BY DEF Answer, IInv, Typed
<1>4. \A p \in Pk : Origin(p)'
  BY <1>2, <1>3 DEF IInv, Origin, At
<1>5. \A p \in Pk : SeenRow(p) => SeenRow(p)'
  BY <1>2, <1>3 DEF SeenRow
<1>6. \A q \in Request : Validated(q)'
  <2> SUFFICES ASSUME NEW q \in Request
               PROVE  Validated(q)'
    OBVIOUS
  <2>1. Validated(q) /\ saw[q] \subseteq Pk
    BY DEF IInv, Typed, Pk
  <2> QED
    BY <1>1, <1>2, <1>3, <1>5, <2>1 DEF Validated
<1>7. \A q \in Request : Swept(q)' /\ Located(q)'
  <2> SUFFICES ASSUME NEW q \in Request, q # r
               PROVE  Swept(q)' /\ Located(q)'
    OBVIOUS
  <2>1. Swept(q) /\ Located(q) /\ swept[q] \subseteq Pk /\ job[q] \in Jobs
    BY DEF IInv, Typed
  <2>2. At(q, "remove", "found") => job[q].working_hour \in Pk
    BY <2>1, JobShape DEF At
  <2>3. \A p \in Pk : Owned(p, q) => Owned(p, q)'
    BY <1>5 DEF Owned, Named
  <2> QED
    BY <1>2, <2>1, <2>2, <2>3 DEF Swept, Located, At
<1>8. Referred' /\ Distinct'
  BY <1>1 DEF IInv, Referred, Distinct
<1>9. AdditionsStand'
  <2> SUFFICES ASSUME NEW q \in Request, At(q, "add", "ok")', hours[q] = None
               PROVE  \E p \in Request : Undoes(p, q)'
    BY DEF AdditionsStand
  <2>1. At(q, "add", "ok")
    BY <1>2, <1>3 DEF At
  <2>2. PICK p \in Request : Undoes(p, q)
    BY <2>1 DEF IInv, AdditionsStand
  <2> QED
    BY <1>2, <1>3, <2>2 DEF Undoes, Named
<1> QED
  BY <1>4, <1>6, <1>7, <1>8, <1>9 DEF IInv

\* An answer, or a step of the handler, that writes nothing.
LEMMA ProceedKeeps ==
    ASSUME IInv, NEW r \in Request, NEW label \in PC, Proceed(r, label),
           pc[r] \notin Answer, Located(r)',
           job[r].op = "add" =>
               /\ label # "ok"
               /\ label \in {"valid", "ready"} => pc[r] \in {"valid", "ready"}
    PROVE  IInv'
<1>1. Typed'
  BY DEF IInv, Typed, Proceed, Goto, tables
<1>2. Swept(r)'
  BY DEF IInv, Typed, Swept, Owned, SeenRow, Proceed, Goto, Named, tables, Answer
<1> QED
  BY <1>1, <1>2, QuietKeeps DEF Proceed, Goto, tables

\* The steps that look for a row.
LEMMA LookingKeeps ==
    ASSUME IInv, NEW r \in Request, Deny(r) \/ Find(r) \/ FindAgain(r) \/ FindHour(r)
    PROVE  IInv'
<1> USE DEF PC, Answer
<1>1. CASE Deny(r)
  BY <1>1, ProceedKeeps DEF Deny, Located, At, Proceed, Goto, IInv, Typed
<1>2. CASE Find(r)
  <2>1. Located(r)'
    BY <1>2 DEF Find, Located, At, Proceed
  <2> QED
    BY <1>2, <2>1, ProceedKeeps DEF Find
<1>3. CASE FindAgain(r)
  <2>1. Located(r)'
    BY <1>3 DEF FindAgain, Located, At, Proceed
  <2> QED
    BY <1>3, <2>1, ProceedKeeps DEF FindAgain, At
<1>4. CASE FindHour(r)
  <2>1. Located(r)'
    <3> DEFINE p == job[r].working_hour
    <3>1. p \in Pk /\ pc[r] = "start"
      BY <1>4, JobShape DEF FindHour, At, IInv, Typed
    <3>2. ASSUME hours[p] # None /\ hours[p].specialist = Named(r)
          PROVE  Owned(p, r)'
      BY <1>4, <3>1, <3>2, RowsSeen
         DEF Owned, SeenRow, Rows, FindHour, Proceed, Goto, IInv, Typed, Named, tables
    <3>3. ASSUME ~(hours[p] # None /\ hours[p].specialist = Named(r))
          PROVE  Located(r)'
      BY <1>4, <3>1, <3>3 DEF FindHour, Located, At, Proceed, Goto, IInv, Typed
    <3> QED
      BY <1>4, <3>2, <3>3 DEF Located, Proceed
  <2> QED
    BY <1>4, <2>1, ProceedKeeps DEF FindHour, At
<1> QED
  BY <1>1, <1>2, <1>3, <1>4

\* What is validated is clear of every row there is.
LEMMA ValidateKeeps ==
    ASSUME IInv, NEW r \in Request, Validate(r)
    PROVE  IInv'
<1> USE DEF PC, Answer
<1>1. CASE Proceed(r, "refused")
  <2>1. Located(r)'
    BY <1>1 DEF Validate, Located, At, Proceed
  <2> QED
    BY <1>1, <2>1, ProceedKeeps DEF Validate, At
<1>2. CASE /\ ~Overlapping(job[r].row)
           /\ saw' = [saw EXCEPT ![r] = Rows]
           /\ Goto(r, "valid") /\ UNCHANGED <<tables, job, swept>>
  <2>1. UNCHANGED <<hours, specialists, job, swept>> /\ Rows' = Rows /\ Rows \subseteq Pk
    BY <1>2 DEF tables, Rows
  <2>2. Typed'
    BY <1>2, <2>1 DEF Goto, IInv, Typed, Pk
  <2>3. job[r].op = "add" /\ pc[r] = "found" /\ pc'[r] = "valid"
    BY <1>2 DEF Goto, IInv, Typed, Validate, At
  <2>4. \A q \in Request : q # r => pc'[q] = pc[q] /\ saw'[q] = saw[q]
    BY <1>2 DEF Goto, IInv, Typed, Pk
  <2>5. saw'[r] = Rows /\ \A p \in SeedPk : saw'[p] = {}
    BY <1>2, HoursAssumption DEF IInv, Typed, Pk
  <2>6. \A p \in Pk : Origin(p)'
    BY <2>1, <2>3, <2>4 DEF IInv, Origin, At
  <2>7. \A p \in Pk : SeenRow(p) => SeenRow(p)'
    BY <2>3, <2>4 DEF SeenRow
  <2>8. \A p \in Rows : SeenRow(p)
    BY RowsSeen
  <2>9. \A q \in Request : Validated(q)'
    <3>1. Validated(r)'
      BY <1>2, <2>1, <2>5, <2>7, <2>8 DEF Validated, Overlapping
    <3>2. ASSUME NEW q \in Request, q # r
          PROVE  Validated(q)'
      <4>1. Validated(q) /\ saw[q] \subseteq Pk
        BY DEF IInv, Typed, Pk
      <4> QED
        BY <2>1, <2>4, <2>7, <3>2, <4>1 DEF Validated
    <3> QED
      BY <3>1, <3>2
  <2>10. \A q \in Request : Swept(q)' /\ Located(q)'
    <3> SUFFICES ASSUME NEW q \in Request
                 PROVE  Swept(q)' /\ Located(q)'
      OBVIOUS
    <3>1. Swept(q) /\ Located(q) /\ swept[q] \subseteq Pk /\ job[q] \in Jobs
      BY DEF IInv, Typed
    <3>2. At(q, "remove", "found") => job[q].working_hour \in Pk
      BY <3>1, JobShape DEF At
    <3>3. \A p \in Pk : Owned(p, q) => Owned(p, q)'
      BY <2>1, <2>7 DEF Owned, Named
    <3> QED
      BY <2>1, <2>3, <2>4, <3>1, <3>2, <3>3 DEF Swept, Located, At
  <2>11. Referred' /\ Distinct'
    BY <2>1 DEF IInv, Referred, Distinct
  <2>12. AdditionsStand'
    BY <2>1, <2>3, <2>4 DEF IInv, AdditionsStand, Undoes, At, Named
  <2> QED
    BY <2>2, <2>5, <2>6, <2>9, <2>10, <2>11, <2>12 DEF IInv
<1> QED
  BY <1>1, <1>2 DEF Validate

\* Hiring and editing add a specialist; a sweep and a crash change no table.
LEMMA SpecialistKeeps ==
    ASSUME IInv, NEW r \in Request,
           \/ Hire(r) \/ Edit(r) \/ Sweep(r) \/ Crash(r)
           \/ Dismiss(r) /\ pc'[r] = "error"
    PROVE  IInv'
<1> USE DEF PC, Answer
<1>1. CASE Hire(r)
  <2>1. Typed' /\ Swept(r)' /\ Located(r)'
    BY <1>1 DEF Hire, Goto, IInv, Typed, Specialist, Swept, Owned, SeenRow, Located, Named, At
  <2> QED
    BY <1>1, <2>1, QuietKeeps DEF Hire, Goto, At
<1>2. CASE Edit(r)
  <2>1. job[r] \in Jobs /\ Named(r) \in Specialist
    BY <1>2, JobShape DEF Edit, At, IInv, Typed, Named
  <2>2. Typed' /\ Swept(r)' /\ Located(r)'
    BY <1>2, <2>1 DEF Edit, Goto, IInv, Typed, Swept, Owned, SeenRow, Located, Named, At
  <2> QED
    BY <1>2, <2>2, QuietKeeps DEF Edit, Goto, At
<1>3. CASE Sweep(r)
  <2>1. Typed' /\ Located(r)'
    BY <1>3 DEF Sweep, Goto, IInv, Typed, Located, Named, At, Rows, tables
  <2>3. Swept(r)'
    BY <1>3, RowsSeen DEF Sweep, Goto, IInv, Typed, Swept, Owned, SeenRow, Named, At, Rows, tables
  <2>2. \A q \in Request : q # r => swept'[q] = swept[q]
    BY <1>3 DEF Sweep, IInv, Typed
  <2> QED
    BY <1>3, <2>1, <2>2, <2>3, QuietKeeps DEF Sweep, Goto, At, tables
<1>4. CASE Crash(r)
  <2>1. Typed' /\ Swept(r)' /\ Located(r)'
    BY <1>4 DEF Crash, Goto, IInv, Typed, Swept, Owned, SeenRow, Located, Named, At, tables
  <2>2. \A q \in Request : q # r => swept'[q] = swept[q]
    BY <1>4 DEF Crash, IInv, Typed
  <2> QED
    BY <1>4, <2>1, <2>2, QuietKeeps DEF Crash, Goto, tables
<1>5. CASE Dismiss(r) /\ pc'[r] = "error"
  <2>1. UNCHANGED <<tables, job, saw>> /\ Goto(r, "error") /\ At(r, "dismiss", "swept")
        /\ swept' = [swept EXCEPT ![r] = {}]
    BY <1>5 DEF Dismiss, Goto, IInv, Typed
  <2>2. Typed' /\ Swept(r)' /\ Located(r)'
    BY <2>1 DEF Goto, IInv, Typed, Swept, Owned, SeenRow, Located, Named, At, tables
  <2>3. \A q \in Request : q # r => swept'[q] = swept[q]
    BY <2>1 DEF IInv, Typed
  <2> QED
    BY <2>1, <2>2, <2>3, QuietKeeps DEF Goto, At, tables
<1> QED
  BY <1>1, <1>2, <1>3, <1>4, <1>5

-----------------------------------------------------------------------------
(* Steps that change the intervals. *)

\* An insert that the constraints accept.
LEMMA InsertKeeps ==
    ASSUME IInv, NEW r \in Request, Insert(r)
    PROVE  IInv'
<1> USE DEF PC, Answer
<1>1. CASE Proceed(r, "error")
  <2>1. Located(r)'
    BY <1>1 DEF Insert, Located, At, Proceed
  <2> QED
    BY <1>1, <2>1, ProceedKeeps DEF Insert, At
<1>2. CASE /\ Insertable(job[r].row)
           /\ hours' = [hours EXCEPT ![r] = job[r].row]
           /\ Goto(r, "ok") /\ UNCHANGED <<specialists, job, swept, saw>>
  <2> DEFINE row == job[r].row
  <2>1. At(r, "add", "ready") /\ pc'[r] = "ok" /\ r \in Pk /\ r \notin SeedPk
    BY <1>2, HoursAssumption DEF Insert, Goto, IInv, Typed, At, Pk
  <2>2. row \in WorkingHour /\ row # None
    BY <2>1, JobShape, HoursAssumption DEF At, IInv, Typed
  <2>3. Typed'
    BY <1>2, <2>2 DEF Goto, IInv, Typed
  <2>4. \A q \in Request : q # r => pc'[q] = pc[q]
    BY <1>2 DEF Goto, IInv, Typed
  <2>5. hours'[r] = row /\ \A p \in Pk : p # r => hours'[p] = hours[p]
    BY <1>2, <2>1 DEF IInv, Typed
  <2>6. Rows' = Rows \cup {r} /\ r \notin Rows
    BY <2>1, <2>2, <2>5 DEF Rows, IInv, Origin, At
  <2>7. \A p \in Pk : SeenRow(p) => p # r /\ SeenRow(p)'
    BY <2>1, <2>4 DEF SeenRow, At
  <2>8. \A p \in Pk : Origin(p)'
    BY <1>2, <2>1, <2>4, <2>5 DEF IInv, Origin, At
  <2>9. \A q \in Request : Validated(q)'
    <3> SUFFICES ASSUME NEW q \in Request
                 PROVE  Validated(q)'
      OBVIOUS
    <3>1. Validated(q) /\ saw[q] \subseteq Pk
      BY DEF IInv, Typed, Pk
    <3> QED
      BY <1>2, <2>1, <2>4, <2>5, <2>6, <2>7, <3>1 DEF Validated, At
  <2>10. \A q \in Request : Swept(q)' /\ Located(q)'
    <3> SUFFICES ASSUME NEW q \in Request
                 PROVE  Swept(q)' /\ Located(q)'
      OBVIOUS
    <3>1. Swept(q) /\ Located(q) /\ swept[q] \subseteq Pk /\ job[q] \in Jobs
      BY DEF IInv, Typed
    <3>2. At(q, "remove", "found") => job[q].working_hour \in Pk
      BY <3>1, JobShape DEF At
    <3>3. \A p \in Pk : Owned(p, q) => Owned(p, q)'
      BY <1>2, <2>5, <2>7 DEF Owned, Named
    <3> QED
      BY <1>2, <2>1, <2>4, <3>1, <3>2, <3>3 DEF Swept, Located, At
  <2>11. Referred' /\ Distinct'
    BY <1>2, <2>5, <2>6 DEF IInv, Referred, Distinct, Insertable, Rows
  <2>12. AdditionsStand'
    <3> SUFFICES ASSUME NEW q \in Request, At(q, "add", "ok")', hours'[q] = None
                 PROVE  \E p \in Request : Undoes(p, q)'
      BY DEF AdditionsStand
    <3>1. q # r /\ At(q, "add", "ok") /\ hours[q] = None
      BY <1>2, <2>2, <2>4, <2>5 DEF At, Pk
    <3>2. PICK p \in Request : Undoes(p, q)
      BY <3>1 DEF IInv, AdditionsStand
    <3> QED
      BY <1>2, <2>1, <2>4, <3>2 DEF Undoes, Named, At
  <2> QED
    BY <1>2, <2>3, <2>8, <2>9, <2>10, <2>11, <2>12 DEF IInv
<1> QED
  BY <1>1, <1>2 DEF Insert

\* A removal or a dismissal that is answered: what it takes away, it undoes.
LEMMA ShrinkKeeps ==
    ASSUME IInv, NEW r \in Request, pc[r] \notin Answer,
           job[r].op \in {"remove", "dismiss"}, Typed',
           pc' = [pc EXCEPT ![r] = "ok"], UNCHANGED <<job, saw>>,
           swept' = swept \/ swept' = [swept EXCEPT ![r] = {}],
           \A p \in Pk : hours'[p] # None => hours'[p] = hours[p],
           \A p \in Pk : hours[p] # None /\ hours'[p] = None =>
               /\ hours[p].specialist = Named(r)
               /\ job[r].op = "remove" => p = job[r].working_hour,
           Referred'
    PROVE  IInv'
<1> USE DEF Answer
<1>1. pc'[r] = "ok" /\ pc[r] # "ok" /\ \A q \in Request : q # r => pc'[q] = pc[q]
  BY DEF IInv, Typed
<1>2. Rows' \subseteq Rows /\ \A p \in Rows' : hours'[p] = hours[p]
  BY DEF Rows
<1>3. \A p \in Pk : SeenRow(p) => SeenRow(p)'
  BY <1>1 DEF SeenRow
<1>4. \A p \in Pk : Origin(p)'
  BY <1>1 DEF IInv, Origin, At
<1>5. \A q \in Request : Validated(q)'
  <2> SUFFICES ASSUME NEW q \in Request
               PROVE  Validated(q)'
    OBVIOUS
  <2>1. Validated(q) /\ saw[q] \subseteq Pk
    BY DEF IInv, Typed, Pk
  <2> QED
    BY <1>1, <1>2, <1>3, <2>1 DEF Validated
<1>6. \A q \in Request : Swept(q)' /\ Located(q)'
  <2> SUFFICES ASSUME NEW q \in Request
               PROVE  Swept(q)' /\ Located(q)'
    OBVIOUS
  <2>1. Swept(q) /\ Located(q) /\ swept[q] \subseteq Pk /\ job[q] \in Jobs
    BY DEF IInv, Typed
  <2>2. At(q, "remove", "found") => job[q].working_hour \in Pk
    BY <2>1, JobShape DEF At
  <2>3. \A p \in Pk : Owned(p, q) => Owned(p, q)'
    BY <1>3 DEF Owned, Named
  <2>4. swept'[q] \subseteq swept[q]
    BY DEF IInv, Typed
  <2> QED
    BY <1>1, <2>1, <2>2, <2>3, <2>4 DEF Swept, Located, At
<1>7. Distinct'
  BY <1>2 DEF IInv, Distinct
<1>8. AdditionsStand'
  <2> SUFFICES ASSUME NEW q \in Request, At(q, "add", "ok")', hours'[q] = None
               PROVE  \E p \in Request : Undoes(p, q)'
    BY DEF AdditionsStand
  <2>1. At(q, "add", "ok") /\ q \in Pk
    BY <1>1 DEF At, Pk
  <2>2. CASE hours[q] = None
    <3>1. PICK p \in Request : Undoes(p, q)
      BY <2>1, <2>2 DEF IInv, AdditionsStand
    <3> QED
      BY <1>1, <3>1 DEF Undoes, Named
  <2>3. CASE hours[q] # None
    <3>1. hours[q] = job[q].row
      BY <2>1, <2>3, HoursAssumption DEF IInv, Origin
    <3>2. hours[q].specialist = Named(r) /\ (job[r].op = "remove" => q = job[r].working_hour)
      BY <2>1, <2>3
    <3> QED
      BY <1>1, <2>1, <3>1, <3>2 DEF Undoes, Named, At
  <2> QED
    BY <2>2, <2>3
<1> QED
  BY <1>4, <1>5, <1>6, <1>7, <1>8 DEF IInv

LEMMA RemoveKeeps ==
    ASSUME IInv, NEW r \in Request, RemoveHour(r)
    PROVE  IInv'
<1> DEFINE p == job[r].working_hour
<1>1. At(r, "remove", "found") /\ p \in Pk
  BY JobShape DEF RemoveHour, At, IInv, Typed
<1>2. Typed'
  BY DEF RemoveHour, Goto, IInv, Typed, PC, Answer
<1>3. hours'[p] = None /\ \A q \in Pk : q # p => hours'[q] = hours[q]
  BY <1>1 DEF RemoveHour, IInv, Typed
<1>4. hours[p] # None => hours[p].specialist = Named(r)
  BY <1>1 DEF IInv, Located, Owned
<1>5. Referred'
  BY <1>3 DEF RemoveHour, IInv, Referred, Rows
<1> QED
  BY <1>1, <1>2, <1>3, <1>4, <1>5, ShrinkKeeps DEF RemoveHour, Goto, At, Answer

LEMMA DismissKeeps ==
    ASSUME IInv, NEW r \in Request, Dismiss(r)
    PROVE  IInv'
<1>1. At(r, "dismiss", "swept")
  BY DEF Dismiss
<1>2. CASE \E p \in Rows \ swept[r] : hours[p].specialist = Named(r)
  BY <1>1, <1>2, SpecialistKeeps DEF Dismiss, Goto, IInv, Typed
<1>3. CASE ~ \E p \in Rows \ swept[r] : hours[p].specialist = Named(r)
  <2>1. /\ specialists' = specialists \ {Named(r)}
        /\ hours' = [p \in Pk |-> IF p \in swept[r] THEN None ELSE hours[p]]
        /\ pc' = [pc EXCEPT ![r] = "ok"] /\ UNCHANGED <<job, saw>>
        /\ swept' = [swept EXCEPT ![r] = {}]
    BY <1>3 DEF Dismiss, Goto
  <2>2. Typed'
    BY <2>1 DEF IInv, Typed, PC, Answer
  <2>3. \A p \in Pk : hours[p] # None /\ hours'[p] = None => hours[p].specialist = Named(r)
    BY <2>1 DEF IInv, Swept, Owned
  <2>4. Referred'
    BY <1>3, <2>1 DEF IInv, Referred, Rows
  <2> QED
    BY <1>1, <2>1, <2>2, <2>3, <2>4, ShrinkKeeps DEF At, Answer
<1> QED
  BY <1>2, <1>3

-----------------------------------------------------------------------------
(* The theorems. *)

LEMMA NextKeeps == IInv /\ [Next]_vars => IInv'
<1> SUFFICES ASSUME IInv, [Next]_vars
             PROVE  IInv'
  OBVIOUS
<1>1. CASE UNCHANGED vars
  BY <1>1 DEF IInv, vars, tables, Typed, Origin, Validated, SeenRow, Swept, Located, Owned,
              Named, At, Referred, Distinct, Rows, AdditionsStand, Undoes
<1>2. ASSUME NEW r \in Request, Step(r) \/ Crash(r)
      PROVE  IInv'
  BY <1>2, LookingKeeps, ValidateKeeps, InsertKeeps, RemoveKeeps, SpecialistKeeps, DismissKeeps
     DEF Step
<1> QED
  BY <1>1, <1>2 DEF Next, Terminating

\* However many requests race, and whenever one of them dies, IInv holds: the tables are
\* typed, no interval is there twice and each has its specialist (the constraints of
\* specialists/models.py), and what handlers have read of them stays true as far as they
\* rely on it.
THEOREM HoursInvariance == Spec => []IInv
<1> QED
  BY HoursStart, NextKeeps, PTL DEF Spec

\* Two intervals of one specialist's day overlap only if neither addition saw the other
\* (WorkingHourWriteSerializer.validate, against perform_create some statements later).
THEOREM HoursOverlapUnseenHolds == Spec => []HoursOverlapUnseen
<1>1. ASSUME IInv, NEW p \in Rows, NEW q \in Rows,
             p # q, Overlap(hours[p], hours[q]), q \in saw[p]
      PROVE  FALSE
  <2>1. p \in Request /\ At(p, "add", "ok") /\ hours[p] = job[p].row
    BY <1>1 DEF IInv, Origin, Rows
  <2>2. ~Overlap(hours[q], hours[p])
    BY <1>1, <2>1 DEF IInv, Validated, At
  <2> QED
    BY <1>1, <2>2 DEF Overlap
<1>2. \A p, q \in Rows : Overlap(hours[p], hours[q]) => Overlap(hours[q], hours[p])
  BY DEF Overlap
<1>3. IInv => HoursOverlapUnseen
  BY <1>1, <1>2 DEF HoursOverlapUnseen
<1> QED
  BY <1>3, HoursInvariance, PTL

\* An interval whose addition was answered stays, unless a removal of it or a dismissal of
\* its specialist was answered as well; refused and interrupted requests take nothing away.
THEOREM AdditionsStandHolds == Spec => []AdditionsStand
<1>1. IInv => AdditionsStand
  BY DEF IInv
<1> QED
  BY <1>1, HoursInvariance, PTL

-----------------------------------------------------------------------------
(* The refinement. *)

\* A step that leaves both tables alone is a stutter of HoursBook.
LEMMA QuietStutters ==
    ASSUME UNCHANGED tables
    PROVE  UNCHANGED <<specialists, {hours[p] : p \in Rows}>>
BY DEF tables, Rows

LEMMA InsertImplements ==
    ASSUME IInv, NEW r \in Request, Insert(r)
    PROVE  [Book!Next]_<<specialists, {hours[p] : p \in Rows}>>
<1> DEFINE row == job[r].row
<1>1. CASE Proceed(r, "error")
  BY <1>1, QuietStutters DEF Proceed
<1>2. CASE Insertable(row) /\ hours' = [hours EXCEPT ![r] = row] /\ UNCHANGED specialists
  <2>1. row \in WorkingHour /\ row # None /\ r \in Pk /\ hours[r] = None
    BY JobShape, HoursAssumption DEF Insert, At, IInv, Typed, Origin, Pk
  <2>2. Rows' = Rows \cup {r} /\ r \notin Rows /\ hours'[r] = row
        /\ \A p \in Rows : hours'[p] = hours[p]
    BY <1>2, <2>1 DEF Rows, IInv, Typed
  <2>3. {hours'[p] : p \in Rows'} = {hours[p] : p \in Rows} \cup {row}
    BY <2>2
  <2>4. row \notin {hours[p] : p \in Rows} /\ row.specialist \in specialists
    BY <1>2 DEF Insertable
  <2> QED
    BY <1>2, <2>1, <2>3, <2>4 DEF Book!Next, Book!Add
<1> QED
  BY <1>1, <1>2 DEF Insert

\* No two rows hold one interval, so that a row's removal is the interval's.
LEMMA RemoveImplements ==
    ASSUME IInv, NEW r \in Request, RemoveHour(r)
    PROVE  [Book!Next]_<<specialists, {hours[p] : p \in Rows}>>
<1> DEFINE k == job[r].working_hour
<1>1. k \in Pk /\ hours' = [hours EXCEPT ![k] = None] /\ UNCHANGED specialists
  BY JobShape DEF RemoveHour, At, IInv, Typed
<1>2. Rows' = Rows \ {k} /\ \A p \in Rows' : hours'[p] = hours[p]
  BY <1>1 DEF Rows, IInv, Typed
<1>3. CASE k \notin Rows
  <2>1. {hours'[p] : p \in Rows'} = {hours[p] : p \in Rows}
    BY <1>2, <1>3
  <2> QED
    BY <1>1, <2>1
<1>4. CASE k \in Rows
  <2>1. hours[k] \in WorkingHour
    BY <1>4 DEF Rows, IInv, Typed
  <2>2. {hours'[p] : p \in Rows'} = {hours[p] : p \in Rows} \ {hours[k]}
    BY <1>2, <1>4 DEF IInv, Distinct
  <2> QED
    BY <1>1, <2>1, <2>2 DEF Book!Next, Book!Remove
<1> QED
  BY <1>3, <1>4

\* A dismissal that commits had locked every interval of its specialist.
LEMMA DismissImplements ==
    ASSUME IInv, NEW r \in Request, Dismiss(r)
    PROVE  [Book!Next]_<<specialists, {hours[p] : p \in Rows}>>
<1>1. CASE \E p \in Rows \ swept[r] : hours[p].specialist = Named(r)
  BY <1>1, QuietStutters DEF Dismiss
<1>2. CASE ~ \E p \in Rows \ swept[r] : hours[p].specialist = Named(r)
  <2> DEFINE s == Named(r)
  <2>1. /\ specialists' = specialists \ {s}
        /\ hours' = [p \in Pk |-> IF p \in swept[r] THEN None ELSE hours[p]]
    BY <1>2 DEF Dismiss
  <2>2. s \in Specialist
    BY JobShape DEF Dismiss, At, IInv, Typed, Named
  <2>3. Rows' = {p \in Rows : hours[p].specialist # s} /\ \A p \in Rows' : hours'[p] = hours[p]
    BY <1>2, <2>1 DEF Rows, IInv, Swept, Owned
  <2>4. \A p \in Rows : hours[p] \in WorkingHour
    BY DEF Rows, IInv, Typed
  <2>5. {hours'[p] : p \in Rows'} = {hours[p] : p \in Rows} \ Book!Of(s)
    BY <2>3, <2>4 DEF Book!Of
  <2> QED
    BY <2>1, <2>2, <2>5 DEF Book!Next, Book!Dismiss
<1> QED
  BY <1>1, <1>2

LEMMA SpecialistImplements ==
    ASSUME IInv, NEW r \in Request, Hire(r) \/ Edit(r)
    PROVE  [Book!Next]_<<specialists, {hours[p] : p \in Rows}>>
<1>1. PICK s \in Specialist : specialists' = specialists \cup {s} /\ UNCHANGED hours
  BY JobShape DEF Hire, Edit, At, IInv, Typed, Named, Specialist
<1>2. UNCHANGED {hours[p] : p \in Rows}
  BY <1>1 DEF Rows
<1> QED
  BY <1>1, <1>2 DEF Book!Next, Book!Hire

\* The statements of the endpoints (specialists/views.py), interleaved and interrupted in any
\* way, move the tables only as HoursBook allows: intervals come one at a time, none twice and
\* none without its specialist, and a specialist goes with all of its intervals or not at all.
THEOREM WorkingHoursImplementHours == Spec => ImplementsHours
<1>1. Init /\ IInv => Book!Init
  BY DEF IInv, Typed, Referred, Rows, Book!Init
<1>2. IInv /\ [Next]_vars => [Book!Next]_<<specialists, {hours[p] : p \in Rows}>>
  <2> SUFFICES ASSUME IInv, [Next]_vars
               PROVE  [Book!Next]_<<specialists, {hours[p] : p \in Rows}>>
    OBVIOUS
  <2>1. CASE UNCHANGED vars
    BY <2>1, QuietStutters DEF vars
  <2>2. ASSUME NEW r \in Request, Step(r) \/ Crash(r)
        PROVE  [Book!Next]_<<specialists, {hours[p] : p \in Rows}>>
    <3>1. CASE Insert(r)
      BY <3>1, InsertImplements
    <3>2. CASE RemoveHour(r)
      BY <3>2, RemoveImplements
    <3>3. CASE Dismiss(r)
      BY <3>3, DismissImplements
    <3>4. CASE Hire(r) \/ Edit(r)
      BY <3>4, SpecialistImplements
    <3>5. CASE \/ Deny(r) \/ Find(r) \/ Validate(r) \/ FindAgain(r) \/ FindHour(r)
               \/ Sweep(r) \/ Crash(r)
      <4>1. UNCHANGED tables
        BY <3>5 DEF Deny, Find, Validate, FindAgain, FindHour, Sweep, Crash, Proceed, tables
      <4> QED
        BY <4>1, QuietStutters
    <3> QED
      BY <2>2, <3>1, <3>2, <3>3, <3>4, <3>5 DEF Step
  <2> QED
    BY <2>1, <2>2 DEF Next, Terminating
<1> QED
  BY <1>1, <1>2, HoursStart, HoursInvariance, PTL DEF Spec, ImplementsHours, Book!Spec
=============================================================================
