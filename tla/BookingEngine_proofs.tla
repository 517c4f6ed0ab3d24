------------------------ MODULE BookingEngine_proofs ------------------------
(***************************************************************************)
(* For any staff, customers, bookings to start from and number of requests:  *)
(* active bookings overlap only where neither creation could see the other,   *)
(* or after an edit; the links of reschedules are sound; and the history      *)
(* tells what became of a booking.                                          *)
(***************************************************************************)
EXTENDS BookingEngine, TLAPS

\* A primary key given out for a booking that is not in the table yet.
Pending(p) == \E r \in Request : pc[r] \in {"searched", "clear"} /\ fresh[r] = p

\* A key that has been in the table, where nothing creates it again.
Known(p) == p \in issued /\ ~Pending(p)

\* A booking that was rescheduled: its time is given up, unless an edit took it back.
Spent(p) == Known(p) /\ (IsActive(p) => Edited(p))

\* What booking q may refer to: one that was rescheduled, or that was entered by hand.
Vouched(q, p) == Known(p) /\ (IsActive(p) => Edited(p) \/ Relinked(q, p))

Rescheduling(r) ==
    Op(r) = "reschedule" /\ pc[r] \in {"freed", "searched", "clear", "booked"}

\* Where the handler of each operation can be, and what it works on.
Stage(r) ==
    /\ pc[r] \in {"loaded", "valid", "freed", "swept"} => Op(r) \in Actions
    /\ pc[r] = "valid" => Op(r) = "patch"
    /\ pc[r] = "freed" => Op(r) = "reschedule"
    /\ pc[r] \in {"searched", "clear"} => Op(r) \in Creations \cup {"reschedule"}
    /\ pc[r] = "booked" => Op(r) = "reschedule"
    /\ pc[r] = "swept" => Op(r) = "delete"
    /\ pc[r] \in {"searched", "clear", "booked"} => fresh[r] \in Pk
    /\ pc[r] \in {"loaded", "valid"} \/ Rescheduling(r) => copy[r] \in Booking /\ Known(job[r].pk)
    /\ Rescheduling(r) => job[r].start # None /\ Spent(job[r].pk)

\* What a handler has loaded refers to a booking it may refer to.
Loaded(r) ==
    copy[r] # None /\ copy[r].rescheduled_from # None =>
        Vouched(job[r].pk, copy[r].rescheduled_from)

\* Each handler that creates has a key of its own.
Keyed(r) ==
    fresh[r] # None =>
        /\ fresh[r] \in issued
        /\ \A q \in Request : q # r => fresh[q] # fresh[r]

\* Of the bookings there when the slot was searched, those in its way were found
\* or were moved there by an edit.
Cleared(r) ==
    pc[r] \in {"searched", "clear"} =>
        \A q \in saw[fresh[r]] \cap Conflicts(Wanted(r)) :
            Edited(q) \/ (pc[r] = "searched" /\ q \in found[r])

Linked(q) ==
    Exists(q) /\ bookings[q].rescheduled_from # None =>
        Exists(bookings[q].rescheduled_from) /\ Vouched(q, bookings[q].rescheduled_from)

Tabled(p) == /\ Exists(p) => Known(p)
             /\ \A q \in saw[p] : Known(q)
             /\ Linked(p)

\* The properties speak of searches, of loaded copies and of reschedules that are
\* several statements old.
IInv == /\ TypeOK
        /\ \A r \in Request : Stage(r) /\ Loaded(r) /\ Keyed(r) /\ Cleared(r)
        /\ \A p \in Pk : Tabled(p)
        /\ OverlapOnlyUnseen
        /\ HistoryTells

-----------------------------------------------------------------------------
(* What the operators return. *)

\* A job is of the kind its operation says.
LEMMA JobShape ==
    ASSUME NEW j \in Jobs
    PROVE  /\ j.op \in Creations \cup Actions
           /\ j.op \in Creations => /\ j.staff \in Staff /\ j.email \in User
                                    /\ j.start \in Nat /\ j.minutes \in Nat
           /\ j.op \in Actions => j.pk \in Pk
           /\ j.op = "reschedule" => j.start \in Nat \cup {None}
           /\ j.op = "update_status" => j.status \in Status \cup {None}
           /\ j.op = "patch" => j.body \in Booking
BY EngineAssumption
   DEF CreateJob, PlainJob, RescheduleJob, StatusJob, PatchJob, Creations, Actions

\* create_booking inserts a confirmed booking that refers to no other.
LEMMA WantedRow ==
    ASSUME NEW r \in Request, job[r] \in Jobs,
           Op(r) \in Creations \/
             (Op(r) = "reschedule" /\ copy[r] \in Booking /\ job[r].start # None)
    PROVE  /\ Wanted(r) \in Booking
           /\ Wanted(r).status = "confirmed" /\ Wanted(r).rescheduled_from = None
<1>1. CASE Op(r) = "reschedule"
  <2>1. job[r].start \in Nat
    BY <1>1, JobShape DEF Op
  <2>2. job[r].start + copy[r].minutes \in Nat
    BY <1>1, <2>1 DEF Op, Creations, Booking
  <2> DEFINE row == copy[r]
             t == job[r].start
             u == job[r].start + copy[r].minutes
             new == [row EXCEPT !.start = t, !.end = u, !.status = "confirmed",
                                !.rescheduled_from = None]
  <2>3. row \in Booking /\ t \in Nat /\ u \in Nat
    BY <1>1, <2>1, <2>2 DEF Op, Creations
  <2>4. Wanted(r) = new
    BY <1>1 DEF Wanted
  <2> HIDE DEF row, t, u
  <2>5. new \in Booking /\ new.status = "confirmed" /\ new.rescheduled_from = None
    BY <2>3 DEF Booking, Status
  <2> QED
    BY <2>4, <2>5
<1>2. CASE Op(r) \in Creations
  BY <1>2, JobShape DEF Op, Creations, Wanted, Booking, Status
<1> QED
  BY <1>1, <1>2

\* A PATCH leaves a row a row.
LEMMA PatchedRow ==
    ASSUME NEW row \in Booking, NEW body \in Booking, NEW given
    PROVE  /\ Patched(row, body, given) \in Booking
           /\ Patched(row, body, given).rescheduled_from =
                 IF "rescheduled_from" \in given
                 THEN body.rescheduled_from ELSE row.rescheduled_from
BY DEF Patched, Booking, Columns

LEMMA NextPkNew ==
    ASSUME issued \subseteq Pk, Pk # issued
    PROVE  NextPk \in Pk \ issued
BY DEF NextPk

-----------------------------------------------------------------------------
(* What a step leaves to the other requests. *)

\* A handler that has not answered goes on, or answers.
Move(r, label) ==
    pc[r] \notin Answer /\ Goto(r, label) /\ label \in PC \ {"start"} /\ job' = job

\* What is edited, linked by hand or freed by a reschedule stays so.
LEMMA MoveMatures ==
    ASSUME TypeOK, NEW r \in Request, NEW label, Move(r, label)
    PROVE  /\ pc' \in [Request -> PC] /\ pc'[r] = label
           /\ \A q \in Request : q # r => pc'[q] = pc[q]
           /\ \A q \in Request : Op(q)' = Op(q)
           /\ \A p : Edited(p) => Edited(p)'
           /\ \A q, p : Relinked(q, p) => Relinked(q, p)'
           /\ pc[r] \in {"start", "loaded"} \/ label \notin {"denied", "missing", "invalid", "loaded"}
                => \A p : Freed(p) => Freed(p)'
BY DEF TypeOK, Move, Goto, Answer, Edited, Relinked, Freed, Op

\* A booking that was in the table is not created again, and is active where it was,
\* unless it was edited.
SamePlace(p) ==
    /\ IsActive(p)
    /\ bookings'[p].staff = bookings[p].staff
    /\ bookings'[p].start = bookings[p].start /\ bookings'[p].end = bookings[p].end

Settled(p) ==
    /\ Known(p)' /\ (Edited(p) => Edited(p)')
    /\ IsActive(p)' => Edited(p)' \/ SamePlace(p)

Settles == /\ \A p \in Pk : Known(p) => Settled(p)
           /\ \A q, p : Relinked(q, p) => Relinked(q, p)'

\* The memory of the handlers other than r, and what was seen for the bookings there.
Undisturbed(r) ==
    /\ job' = job /\ issued \subseteq issued'
    /\ \A q \in Request : q # r =>
          /\ pc'[q] = pc[q] /\ copy'[q] = copy[q]
          /\ fresh'[q] = fresh[q] /\ found'[q] = found[q]
    /\ \A p \in issued : saw'[p] = saw[p]

LEMMA SpentStays ==
    ASSUME Settles, NEW p \in Pk, Spent(p)
    PROVE  Spent(p)'
BY DEF Settles, Settled, SamePlace, Spent

LEMMA VouchedStays ==
    ASSUME Settles, NEW q, NEW p \in Pk, Vouched(q, p)
    PROVE  Vouched(q, p)'
BY DEF Settles, Settled, SamePlace, Vouched

\* A handler that keeps its copy keeps a sound one.
LEMMA LoadedStays ==
    ASSUME IInv, Settles, NEW r \in Request, job' = job, copy'[r] = copy[r]
    PROVE  Loaded(r)'
<1> SUFFICES ASSUME copy[r] # None, copy[r].rescheduled_from # None
             PROVE  Vouched(job[r].pk, copy[r].rescheduled_from)'
  BY DEF Loaded
<1>1. copy[r].rescheduled_from \in Pk
  BY DEF IInv, TypeOK, Booking
<1> QED
  BY <1>1, VouchedStays DEF IInv, Loaded

\* A row that keeps its link keeps a sound one, as long as the booking it names is there.
LEMMA LinkedStays ==
    ASSUME IInv, Settles, NEW x \in Pk,
           Exists(x)' => /\ Exists(x)
                         /\ bookings'[x].rescheduled_from = bookings[x].rescheduled_from,
           \A l \in Pk : l = bookings[x].rescheduled_from /\ Exists(l) => Exists(l)'
    PROVE  Linked(x)'
<1> SUFFICES ASSUME Exists(x)', bookings'[x].rescheduled_from # None
             PROVE  \E l \in Pk : /\ bookings'[x].rescheduled_from = l
                                  /\ Exists(l)' /\ Vouched(x, l)'
  BY DEF Linked
<1>1. PICK l \in Pk : l = bookings[x].rescheduled_from /\ bookings'[x].rescheduled_from = l
  BY DEF IInv, TypeOK, Exists, Booking
<1>2. Exists(l) /\ Vouched(x, l)
  BY <1>1, EngineAssumption DEF IInv, Tabled, Linked
<1>3. Exists(l)' /\ Vouched(x, l)'
  BY <1>1, <1>2, VouchedStays
<1> QED
  BY <1>1, <1>3

\* The handlers of other requests do not notice.
LEMMA OthersKeep ==
    ASSUME IInv, TypeOK', Settles, NEW r \in Request, Undisturbed(r),
           NEW q \in Request, q # r
    PROVE  Stage(q)' /\ Loaded(q)' /\ Cleared(q)'
<1>1. job'[q] = job[q] /\ Op(q)' = Op(q) /\ Wanted(q)' = Wanted(q)
  BY DEF Undisturbed, Op, Wanted
<1>2. Op(q) \in Actions => job[q].pk \in Pk
  BY JobShape DEF IInv, TypeOK, Op
<1>3. Stage(q)'
  <2>1. Rescheduling(q)' <=> Rescheduling(q)
    BY <1>1 DEF Undisturbed, Rescheduling
  <2>2. Op(q) \in Actions /\ Known(job[q].pk) => Known(job[q].pk)'
    BY <1>1, <1>2 DEF Settles, Settled
  <2>3. Op(q) \in Actions /\ Spent(job[q].pk) => Spent(job[q].pk)'
    BY <1>1, <1>2, SpentStays
  <2>4. job'[q].pk = job[q].pk /\ job'[q].start = job[q].start
    BY <1>1
  <2> QED
    BY <1>1, <2>1, <2>2, <2>3, <2>4 DEF IInv, Stage, Undisturbed, Rescheduling, Actions
<1>4. Loaded(q)'
  BY LoadedStays DEF Undisturbed
<1>5. Cleared(q)'
  <2> SUFFICES ASSUME pc[q] \in {"searched", "clear"},
                      NEW x \in saw[fresh[q]], x \in Conflicts(Wanted(q))'
               PROVE  Edited(x)' \/ (pc[q] = "searched" /\ x \in found[q])
    <3>1. pc[q] \in {"searched", "clear"} => fresh[q] \in issued
      BY EngineAssumption DEF IInv, Stage, Keyed
    <3> QED
      BY <1>1, <3>1 DEF Cleared, Undisturbed
  <2>1. x \in Pk /\ Known(x)
    BY DEF IInv, Stage, Tabled, TypeOK
  <2>2. Settled(x)
    BY <2>1 DEF Settles
  <2>3. IsActive(x)' /\ Overlap(bookings'[x], Wanted(q))
    BY <1>1 DEF Conflicts
  <2>4. CASE SamePlace(x)
    <3>1. x \in Conflicts(Wanted(q))
      BY <2>1, <2>3, <2>4 DEF Conflicts, SamePlace, Overlap
    <3>2. Edited(x) \/ (pc[q] = "searched" /\ x \in found[q])
      BY <3>1 DEF IInv, Cleared
    <3> QED
      BY <2>2, <3>2 DEF Settled
  <2> QED
    BY <2>2, <2>3, <2>4 DEF Settled
<1> QED
  BY <1>3, <1>4, <1>5

\* A step that gives out no key and adds no booking.
LEMMA TableStep ==
    ASSUME IInv, NEW r \in Request, NEW label, Move(r, label),
           label # "searched", label = "clear" => pc[r] = "searched",
           issued' = issued, fresh' = fresh, saw' = saw,
           \A p \in Pk : Exists(p)' => Known(p),
           \A p \in Pk : Known(p) /\ IsActive(p)' => Edited(p)' \/ SamePlace(p)
    PROVE  /\ Settles
           /\ \A q \in Request : Keyed(q)'
           /\ \A p \in Pk : (Exists(p) => Known(p))' /\ \A x \in saw'[p] : Known(x)'
           /\ OverlapOnlyUnseen'
<1>1. /\ \A q \in Request : q # r => pc'[q] = pc[q]
      /\ \A p : Edited(p) => Edited(p)'
      /\ \A q, p : Relinked(q, p) => Relinked(q, p)'
      /\ pc'[r] = label
  BY MoveMatures DEF IInv
<1>2. \A p : Known(p) => Known(p)'
  BY <1>1 DEF Known, Pending
<1>3. Settles
  BY <1>1, <1>2 DEF Settles, Settled
<1>4. \A q \in Request : Keyed(q)'
  BY DEF IInv, Keyed
<1>5. \A p \in Pk : (Exists(p) => Known(p))' /\ \A x \in saw'[p] : Known(x)'
  BY <1>2 DEF IInv, Tabled
<1>6. OverlapOnlyUnseen'
  <2> SUFFICES ASSUME NEW p \in Pk, NEW q \in Pk, p # q, Overlapping(p, q)',
                      ~Edited(p)', ~Edited(q)'
               PROVE  p \notin saw[q] /\ q \notin saw[p]
    BY DEF OverlapOnlyUnseen
  <2>1. SamePlace(p) /\ SamePlace(q)
    BY DEF Overlapping, IsActive
  <2>2. Overlapping(p, q)
    BY <2>1 DEF Overlapping, SamePlace, Overlap
  <2> QED
    BY <1>1, <2>2 DEF IInv, OverlapOnlyUnseen
<1> QED
  BY <1>3, <1>4, <1>5, <1>6

\* What remains to be shown of a step for its own request.
Own(r) == Stage(r)' /\ Loaded(r)' /\ Cleared(r)'

LEMMA Assembled ==
    ASSUME IInv, TypeOK', NEW r \in Request, Undisturbed(r), Settles, Own(r),
           \A q \in Request : Keyed(q)',
           \A p \in Pk : (Exists(p) => Known(p))' /\ \A x \in saw'[p] : Known(x)',
           \A p \in Pk : Linked(p)', OverlapOnlyUnseen', HistoryTells'
    PROVE  IInv'
<1>1. \A q \in Request : Stage(q)' /\ Loaded(q)' /\ Cleared(q)'
  BY OthersKeep DEF Own
<1>2. \A p \in Pk : Tabled(p)'
  BY DEF Tabled
<1> QED
  BY <1>1, <1>2 DEF IInv

\* A step that leaves the bookings and what is recorded of them.
LEMMA QuietStep ==
    ASSUME IInv, NEW r \in Request, NEW label, Move(r, label),
           pc[r] \in {"start", "loaded"} \/ label \notin {"denied", "missing", "invalid", "loaded"},
           label # "searched", label = "clear" => pc[r] = "searched",
           bookings' = bookings, history' = history, activity' = activity,
           issued' = issued, fresh' = fresh, saw' = saw,
           TypeOK', Undisturbed(r), Settles => Own(r)
    PROVE  IInv'
<1>1. \A p \in Pk : Exists(p)' => Known(p)
  BY DEF IInv, Tabled, Exists
<1>2. \A p \in Pk : IsActive(p)' => SamePlace(p)
  BY DEF SamePlace, IsActive, Exists
<1>3. /\ Settles
      /\ \A q \in Request : Keyed(q)'
      /\ \A p \in Pk : (Exists(p) => Known(p))' /\ \A x \in saw'[p] : Known(x)'
      /\ OverlapOnlyUnseen'
  BY <1>1, <1>2, TableStep
<1>4. \A p \in Pk : Linked(p)'
  BY <1>3, LinkedStays DEF Exists
<1>5. HistoryTells'
  <2>1. \A p \in Pk : (Edited(p) => Edited(p)') /\ (Freed(p) => Freed(p)')
    BY MoveMatures DEF IInv
  <2> QED
    BY <2>1 DEF IInv, HistoryTells, Exists
<1> QED
  BY <1>3, <1>4, <1>5, Assembled

-----------------------------------------------------------------------------
(* The steps that only read. *)

LEMMA ReplyKeeps ==
    ASSUME IInv, NEW r \in Request, NEW answer \in Answer, pc[r] \notin Answer,
           pc[r] \in {"start", "loaded"} \/ answer \in {"ok", "error", "lost"},
           Reply(r, answer)
    PROVE  IInv'
<1>1. Move(r, answer) /\ answer \notin {"searched", "clear", "loaded"}
  BY DEF Reply, Move, Answer, PC
<1>2. pc' \in [Request -> PC] /\ pc'[r] = answer /\ \A q \in Request : q # r => pc'[q] = pc[q]
  BY <1>1, MoveMatures DEF IInv
<1>3. TypeOK'
  BY <1>2 DEF IInv, TypeOK, Reply, tables, memory
<1>4. Undisturbed(r)
  BY <1>2 DEF Undisturbed, Reply, tables, memory
<1>5. ASSUME Settles
      PROVE  Own(r)
  <2>1. Stage(r)'
    BY <1>2 DEF Stage, Rescheduling, Answer
  <2>2. Loaded(r)'
    BY <1>5, LoadedStays DEF Reply, memory
  <2>3. Cleared(r)'
    BY <1>2 DEF Cleared, Answer
  <2> QED
    BY <2>1, <2>2, <2>3 DEF Own
<1> QED
  BY <1>1, <1>3, <1>4, <1>5, QuietStep DEF Reply, tables, memory, Answer

LEMMA LoadKeeps ==
    ASSUME IInv, NEW r \in Request, Load(r)
    PROVE  IInv'
<1> DEFINE row == bookings[job[r].pk]
<1>1. CASE Reply(r, "denied") \/ Reply(r, "missing")
  BY <1>1, ReplyKeeps DEF Load, At, Answer
<1>2. CASE /\ row # None /\ copy' = [copy EXCEPT ![r] = row]
           /\ Goto(r, "loaded")
           /\ UNCHANGED <<now, tables, job, fresh, found, entries, saw>>
  <2>1. Op(r) \in Actions /\ pc[r] = "start" /\ job[r].pk \in Pk
    BY JobShape DEF Load, At, Op, IInv, TypeOK
  <2>2. Move(r, "loaded")
    BY <1>2, <2>1 DEF Move, PC, Answer
  <2>3. /\ pc' \in [Request -> PC] /\ pc'[r] = "loaded"
        /\ \A q \in Request : q # r => pc'[q] = pc[q]
    BY <2>2, MoveMatures DEF IInv
  <2>4. row \in Booking /\ copy'[r] = row
    BY <1>2, <2>1 DEF IInv, TypeOK
  <2>5. TypeOK'
    BY <1>2, <2>3, <2>4 DEF IInv, TypeOK, tables
  <2>6. Undisturbed(r)
    BY <1>2, <2>3 DEF Undisturbed, tables, IInv, TypeOK
  <2>7. Known(job[r].pk) /\ Linked(job[r].pk)
    BY <1>2, <2>1 DEF IInv, Tabled, Exists
  <2>8. ASSUME Settles
        PROVE  Own(r)
    <3>1. Known(job[r].pk)' /\ job'[r] = job[r] /\ Op(r)' = Op(r)
      BY <1>2, <2>1, <2>7, <2>8 DEF Settles, Settled, Op
    <3>2. Stage(r)'
      BY <2>1, <2>3, <2>4, <3>1 DEF Stage, Rescheduling
    <3>3. row.rescheduled_from # None =>
            row.rescheduled_from \in Pk /\ Vouched(job[r].pk, row.rescheduled_from)
      BY <1>2, <2>4, <2>7 DEF Linked, Exists, Booking
    <3>4. Loaded(r)'
      BY <2>4, <2>8, <3>1, <3>3, VouchedStays DEF Loaded
    <3> QED
      BY <2>3, <3>2, <3>4 DEF Own, Cleared
  <2> QED
    BY <1>2, <2>1, <2>2, <2>5, <2>6, <2>8, QuietStep DEF tables
<1> QED
  BY <1>1, <1>2 DEF Load

LEMMA CheckConflictKeeps ==
    ASSUME IInv, NEW r \in Request, CheckConflict(r)
    PROVE  IInv'
<1>0. pc[r] = "searched"
  BY DEF CheckConflict
<1>1. CASE Reply(r, "error")
  BY <1>0, <1>1, ReplyKeeps DEF Answer
<1>2. CASE /\ found[r] \cap Conflicts(Wanted(r)) = {}
           /\ Goto(r, "clear")
           /\ UNCHANGED <<now, tables, job, memory, saw>>
  <2>1. Move(r, "clear")
    BY <1>0, <1>2 DEF Move, PC, Answer
  <2>2. /\ pc' \in [Request -> PC] /\ pc'[r] = "clear"
        /\ \A q \in Request : q # r => pc'[q] = pc[q]
        /\ \A p : Edited(p) => Edited(p)'
        /\ Op(r)' = Op(r)
    BY <2>1, MoveMatures DEF IInv
  <2>3. TypeOK' /\ Undisturbed(r)
    BY <1>2, <2>2 DEF IInv, TypeOK, Undisturbed, tables, memory
  <2>4. Wanted(r)' = Wanted(r) /\ Conflicts(Wanted(r))' = Conflicts(Wanted(r))
    BY <1>2, <2>2 DEF Wanted, Conflicts, IsActive, Exists, tables, memory
  <2>5. ASSUME Settles
        PROVE  Own(r)
    <3>1. Stage(r)'
      <4>1. Rescheduling(r)' => Rescheduling(r)
        BY <1>0, <2>2 DEF Rescheduling
      <4>2. Op(r) \in Actions => job[r].pk \in Pk
        BY JobShape DEF IInv, TypeOK, Op
      <4>3. Rescheduling(r) => Known(job[r].pk)' /\ Spent(job[r].pk)'
        BY <1>2, <2>5, <4>2, SpentStays
           DEF IInv, Stage, Settles, Settled, Rescheduling, Actions
      <4> QED
        BY <1>0, <1>2, <2>2, <4>1, <4>3 DEF IInv, Stage, Rescheduling, memory
    <3>2. Loaded(r)'
      BY <1>2, <2>5, LoadedStays DEF memory
    <3>3. Cleared(r)'
      BY <1>0, <1>2, <2>2, <2>4 DEF IInv, Cleared, memory
    <3> QED
      BY <3>1, <3>2, <3>3 DEF Own
  <2> QED
    BY <1>0, <1>2, <2>1, <2>3, <2>5, QuietStep DEF tables, memory
<1> QED
  BY <1>1, <1>2 DEF CheckConflict

LEMMA ValidatePatchKeeps ==
    ASSUME IInv, NEW r \in Request, ValidatePatch(r)
    PROVE  IInv'
<1>0. Op(r) = "patch" /\ pc[r] = "loaded" /\ job[r].pk \in Pk
  BY JobShape DEF ValidatePatch, At, Op, IInv, TypeOK, Actions
<1>1. CASE Reply(r, "invalid")
  BY <1>0, <1>1, ReplyKeeps DEF Answer
<1>2. CASE Goto(r, "valid") /\ UNCHANGED <<now, tables, job, memory, saw>>
  <2>1. Move(r, "valid")
    BY <1>0, <1>2 DEF Move, PC, Answer
  <2>2. /\ pc' \in [Request -> PC] /\ pc'[r] = "valid"
        /\ \A q \in Request : q # r => pc'[q] = pc[q]
        /\ Op(r)' = Op(r)
    BY <2>1, MoveMatures DEF IInv
  <2>3. TypeOK' /\ Undisturbed(r)
    BY <1>2, <2>2 DEF IInv, TypeOK, Undisturbed, tables, memory
  <2>4. ASSUME Settles
        PROVE  Own(r)
    <3>1. Known(job[r].pk)' /\ copy'[r] \in Booking
      BY <1>0, <1>2, <2>4 DEF IInv, Stage, Settles, Settled, memory
    <3>2. Stage(r)'
      BY <1>0, <1>2, <2>2, <3>1 DEF Stage, Rescheduling, Actions
    <3>3. Loaded(r)'
      BY <1>2, <2>4, LoadedStays DEF memory
    <3> QED
      BY <2>2, <3>2, <3>3 DEF Own, Cleared
  <2> QED
    BY <1>0, <1>2, <2>1, <2>3, <2>4, QuietStep DEF tables, memory
<1> QED
  BY <1>1, <1>2 DEF ValidatePatch

LEMMA SweepKeeps ==
    ASSUME IInv, NEW r \in Request, Sweep(r)
    PROVE  IInv'
<1>0. Op(r) = "delete" /\ pc[r] = "loaded"
  BY DEF Sweep, At
<1>1. Move(r, "swept")
  BY <1>0 DEF Sweep, Move, PC, Answer
<1>2. /\ pc' \in [Request -> PC] /\ pc'[r] = "swept"
      /\ \A q \in Request : q # r => pc'[q] = pc[q]
      /\ Op(r)' = Op(r)
  BY <1>1, MoveMatures DEF IInv
<1>3. TypeOK'
  <2>1. job[r].pk \in Pk
    BY <1>0, JobShape DEF IInv, TypeOK, Op, Actions
  <2>2. Len(history[job[r].pk]) \in Nat
    BY <2>1 DEF IInv, TypeOK
  <2>3. LinkedTo(job[r].pk) \subseteq Pk
    BY DEF LinkedTo
  <2> QED
    BY <1>2, <2>2, <2>3 DEF IInv, TypeOK, Sweep, tables
<1>4. Undisturbed(r)
  BY <1>2 DEF IInv, TypeOK, Undisturbed, Sweep, tables
<1>5. ASSUME Settles
      PROVE  Own(r)
  <2>1. Stage(r)'
    BY <1>0, <1>2 DEF Stage, Rescheduling, Actions
  <2>2. Loaded(r)'
    BY <1>5, LoadedStays DEF Sweep
  <2> QED
    BY <1>2, <2>1, <2>2 DEF Own, Cleared
<1> QED
  BY <1>0, <1>1, <1>3, <1>4, <1>5, QuietStep DEF Sweep, tables

-----------------------------------------------------------------------------
(* The steps that write an existing booking. *)

LEMMA AnsweredOwn ==
    ASSUME IInv, Settles, NEW r \in Request, pc'[r] \in Answer, copy' = copy, job' = job
    PROVE  Own(r)
<1>1. Stage(r)' /\ Cleared(r)'
  BY DEF Stage, Rescheduling, Cleared, Answer
<1>2. Loaded(r)'
  BY LoadedStays
<1> QED
  BY <1>1, <1>2 DEF Own

LEMMA LinksStay ==
    ASSUME IInv, Settles,
           \A p \in Pk : Exists(p)' <=> Exists(p),
           \A p \in Pk : Exists(p) =>
               bookings'[p].rescheduled_from = bookings[p].rescheduled_from
    PROVE  \A p \in Pk : Linked(p)'
BY LinkedStays

\* The status of one booking is written, and nothing else of the table.
Written(p, status) ==
    /\ bookings' \in [Pk -> Booking \cup {None}]
    /\ \A x \in Pk : Exists(x)' <=> Exists(x)
    /\ \A x \in Pk : x # p => bookings'[x] = bookings[x]
    /\ bookings'[p].status = status
    /\ \A x \in Pk : Exists(x) =>
          /\ bookings'[x].rescheduled_from = bookings[x].rescheduled_from
          /\ bookings'[x].staff = bookings[x].staff
          /\ bookings'[x].start = bookings[x].start
          /\ bookings'[x].end = bookings[x].end

LEMMA StatusWritten ==
    ASSUME IInv, NEW p \in Pk, Exists(p), NEW status \in Status,
           bookings' = [bookings EXCEPT ![p] = [@ EXCEPT !.status = status]]
    PROVE  Written(p, status)
<1>1. bookings[p] \in Booking
  BY DEF IInv, TypeOK, Exists
<1>2. [bookings[p] EXCEPT !.status = status] \in Booking
  BY <1>1 DEF Booking
<1>3. None \notin Booking
  BY EngineAssumption
<1> QED
  BY <1>1, <1>2, <1>3 DEF IInv, TypeOK, Exists, Booking, Written

LEMMA FreeSlotKeeps ==
    ASSUME IInv, NEW r \in Request, FreeSlot(r)
    PROVE  IInv'
<1>0. Op(r) = "reschedule" /\ pc[r] = "loaded" /\ job[r].pk \in Pk /\ Known(job[r].pk)
  BY JobShape DEF FreeSlot, At, Op, IInv, TypeOK, Stage, Actions
<1> PICK p \in Pk : p = job[r].pk
  BY <1>0
<1>1. CASE Reply(r, "invalid") \/ Reply(r, "error")
  BY <1>0, <1>1, ReplyKeeps DEF Answer
<1>2. CASE /\ job[r].start # None /\ Exists(p)
           /\ bookings' = [bookings EXCEPT ![p] = [@ EXCEPT !.status = "cancelled"]]
           /\ Goto(r, "freed")
           /\ UNCHANGED <<now, customers, history, activity, issued, job, memory, saw>>
  <2>1. Move(r, "freed")
    BY <1>0, <1>2 DEF Move, PC, Answer
  <2>2. /\ pc' \in [Request -> PC] /\ pc'[r] = "freed"
        /\ \A q \in Request : q # r => pc'[q] = pc[q]
        /\ Op(r)' = Op(r)
        /\ \A x : (Edited(x) => Edited(x)') /\ (Freed(x) => Freed(x)')
    BY <1>0, <2>1, MoveMatures DEF IInv
  <2>3. Written(p, "cancelled")
    BY <1>0, <1>2, StatusWritten DEF Status
  <2>4. TypeOK' /\ Undisturbed(r)
    BY <1>2, <2>2, <2>3 DEF Written, IInv, TypeOK, Undisturbed, memory
  <2>5. ~IsActive(p)'
    BY <2>3 DEF Written, IsActive, ACTIVE_BOOKING_STATUSES
  <2>6. \A x \in Pk : IsActive(x)' => SamePlace(x)
    BY <2>3, <2>5 DEF Written, IsActive, SamePlace
  <2>7. \A x \in Pk : Exists(x)' => Known(x)
    BY <2>3 DEF Written, IInv, Tabled
  <2>8. /\ Settles
        /\ \A q \in Request : Keyed(q)'
        /\ \A x \in Pk : (Exists(x) => Known(x))' /\ \A y \in saw'[x] : Known(y)'
        /\ OverlapOnlyUnseen'
    BY <1>2, <2>1, <2>6, <2>7, TableStep DEF memory
  <2>9. \A x \in Pk : Linked(x)'
    BY <2>3, <2>8, LinksStay DEF Written
  <2>10. HistoryTells'
    <3>1. Freed(p)'
      BY <1>0, <1>2, <2>2 DEF Freed
    <3> QED
      BY <1>2, <2>2, <2>3, <3>1 DEF Written, IInv, HistoryTells
  <2>11. Own(r)
    <3>1. Spent(p)'
      BY <1>0, <2>5, <2>8 DEF Spent, Settles, Settled
    <3>2. Stage(r)'
      BY <1>0, <1>2, <2>2, <3>1 DEF IInv, Stage, Rescheduling, Spent, Actions, memory
    <3>3. Loaded(r)'
      BY <1>2, <2>8, LoadedStays DEF memory
    <3> QED
      BY <2>2, <3>2, <3>3 DEF Own, Cleared
  <2> QED
    BY <2>4, <2>8, <2>9, <2>10, <2>11, Assembled
<1> QED
  BY <1>1, <1>2 DEF FreeSlot

LEMMA CommitStatusKeeps ==
    ASSUME IInv, NEW r \in Request, CommitStatus(r)
    PROVE  IInv'
<1>0. Op(r) = "update_status" /\ pc[r] = "loaded" /\ job[r].pk \in Pk
  BY JobShape DEF CommitStatus, At, Op, IInv, TypeOK, Actions
<1> PICK p \in Pk : p = job[r].pk
  BY <1>0
<1>1. CASE Reply(r, "invalid") \/ Reply(r, "error")
  BY <1>0, <1>1, ReplyKeeps DEF Answer
<1>2. CASE /\ job[r].status # None /\ Exists(p)
           /\ bookings' = [bookings EXCEPT ![p] = [@ EXCEPT !.status = job[r].status]]
           /\ Goto(r, "ok")
           /\ UNCHANGED <<now, customers, history, activity, issued, job, memory, saw>>
  <2>1. Move(r, "ok")
    BY <1>0, <1>2 DEF Move, PC, Answer
  <2>2. /\ pc' \in [Request -> PC] /\ pc'[r] = "ok"
        /\ \A q \in Request : q # r => pc'[q] = pc[q]
        /\ Op(r)' = Op(r)
        /\ \A x : (Edited(x) => Edited(x)') /\ (Freed(x) => Freed(x)')
    BY <1>0, <2>1, MoveMatures DEF IInv
  <2>3. Written(p, job[r].status)
    <3>1. job[r].status \in Status
      BY <1>0, <1>2, JobShape DEF IInv, TypeOK, Op
    <3> QED
      BY <1>2, <3>1, StatusWritten
  <2>4. TypeOK' /\ Undisturbed(r)
    BY <1>2, <2>2, <2>3 DEF Written, IInv, TypeOK, Undisturbed, memory
  <2>5. Edited(p)'
    BY <1>0, <1>2, <2>2 DEF Edited
  <2>6. \A x \in Pk : IsActive(x)' => Edited(x)' \/ SamePlace(x)
    BY <2>3, <2>5 DEF Written, IsActive, SamePlace
  <2>7. \A x \in Pk : Exists(x)' => Known(x)
    BY <2>3 DEF Written, IInv, Tabled
  <2>8. /\ Settles
        /\ \A q \in Request : Keyed(q)'
        /\ \A x \in Pk : (Exists(x) => Known(x))' /\ \A y \in saw'[x] : Known(y)'
        /\ OverlapOnlyUnseen'
    BY <1>2, <2>1, <2>6, <2>7, TableStep DEF memory
  <2>9. \A x \in Pk : Linked(x)'
    BY <2>3, <2>8, LinksStay DEF Written
  <2>10. HistoryTells'
    BY <1>2, <2>2, <2>3, <2>5 DEF Written, IInv, HistoryTells
  <2>11. Own(r)
    BY <1>2, <2>2, <2>8, AnsweredOwn DEF memory, Answer
  <2> QED
    BY <2>4, <2>8, <2>9, <2>10, <2>11, Assembled
<1> QED
  BY <1>1, <1>2 DEF CommitStatus

\* A row added at the end of a history is its last one.
LEMMA LastAppended ==
    ASSUME NEW S, NEW s \in Seq(S), NEW e \in S
    PROVE  /\ Append(s, e) \in Seq(S) /\ Append(s, e) # <<>>
           /\ Len(Append(s, e)) = Len(s) + 1
           /\ Append(s, e)[Len(Append(s, e))] = e
OBVIOUS

LEMMA CommitCancelKeeps ==
    ASSUME IInv, NEW r \in Request, CommitCancel(r)
    PROVE  IInv'
<1>0. /\ Op(r) = "cancel" /\ pc[r] = "loaded" /\ job[r].pk \in Pk
      /\ copy[r] \in Booking
  BY JobShape DEF CommitCancel, At, Op, IInv, TypeOK, Stage, Actions
<1> PICK p \in Pk : p = job[r].pk
  BY <1>0
<1> DEFINE entry == [old |-> copy[r].status, new |-> "cancelled"]
           Entry == [old : Status \cup {None}, new : Status]
<1>1. CASE Reply(r, "ok") \/ Reply(r, "error")
  BY <1>0, <1>1, ReplyKeeps DEF Answer
<1>2. CASE /\ Exists(p)
           /\ bookings' = [bookings EXCEPT ![p] = [@ EXCEPT !.status = "cancelled"]]
           /\ history' = [history EXCEPT ![p] = Append(@, entry)]
           /\ activity' = [activity EXCEPT ![p] = Append(@, "cancelled")]
           /\ Goto(r, "ok")
           /\ UNCHANGED <<now, customers, issued, job, memory, saw>>
  <2>1. Move(r, "ok")
    BY <1>0, <1>2 DEF Move, PC, Answer
  <2>2. /\ pc' \in [Request -> PC] /\ pc'[r] = "ok"
        /\ \A q \in Request : q # r => pc'[q] = pc[q]
        /\ Op(r)' = Op(r)
        /\ \A x : (Edited(x) => Edited(x)') /\ (Freed(x) => Freed(x)')
    BY <1>0, <2>1, MoveMatures DEF IInv
  <2>3. Written(p, "cancelled")
    BY <1>2, StatusWritten DEF Status
  <2>4. /\ history[p] \in Seq(Entry) /\ entry \in Entry
        /\ activity[p] \in Seq({"created", "cancelled"})
    BY <1>0 DEF IInv, TypeOK, Booking, Status
  <2> HIDE DEF entry, Entry
  <2>5. /\ history'[p] \in Seq(Entry) /\ history'[p] # <<>>
        /\ Len(history'[p]) = Len(history[p]) + 1
        /\ history'[p][Len(history'[p])] = entry
    <3>1. history'[p] = Append(history[p], entry)
      BY <1>2 DEF IInv, TypeOK
    <3>2. LET h == Append(history[p], entry)
          IN  /\ h \in Seq(Entry) /\ h # <<>>
              /\ Len(h) = Len(history[p]) + 1 /\ h[Len(h)] = entry
      BY ONLY <2>4, LastAppended
    <3> QED
      BY ONLY <3>1, <3>2
  <2>6. /\ activity'[p] \in Seq({"created", "cancelled"})
        /\ Len(activity'[p]) = Len(activity[p]) + 1
    BY <1>2, <2>4, LastAppended DEF IInv, TypeOK
  <2>7. /\ \A x \in Pk : x # p => history'[x] = history[x] /\ activity'[x] = activity[x]
        /\ history' \in [Pk -> Seq(Entry)]
        /\ activity' \in [Pk -> Seq({"created", "cancelled"})]
    BY <1>2, <2>5, <2>6 DEF IInv, TypeOK, Entry
  <2>8. TypeOK' /\ Undisturbed(r)
    BY <1>2, <2>2, <2>3, <2>7 DEF Written, IInv, TypeOK, Undisturbed, memory, Entry
  <2>9. \A x \in Pk : IsActive(x)' => SamePlace(x)
    BY <2>3 DEF Written, IsActive, SamePlace, ACTIVE_BOOKING_STATUSES
  <2>10. \A x \in Pk : Exists(x)' => Known(x)
    BY <2>3 DEF Written, IInv, Tabled
  <2>11. /\ Settles
         /\ \A q \in Request : Keyed(q)'
         /\ \A x \in Pk : (Exists(x) => Known(x))' /\ \A y \in saw'[x] : Known(y)'
         /\ OverlapOnlyUnseen'
    BY <1>2, <2>1, <2>9, <2>10, TableStep DEF memory
  <2>12. \A x \in Pk : Linked(x)'
    BY <2>3, <2>11, LinksStay DEF Written
  <2>13. HistoryTells'
    <3> SUFFICES ASSUME NEW x \in Pk, Exists(x)', ~Edited(x)', ~Freed(x)'
                 PROVE  /\ history'[x] # <<>>
                        /\ history'[x][Len(history'[x])].new = bookings'[x].status
                        /\ Len(activity'[x]) = Len(history'[x])
      BY DEF HistoryTells
    <3>1. /\ Len(activity[x]) = Len(history[x]) /\ history[x] # <<>>
          /\ history[x][Len(history[x])].new = bookings[x].status
      BY <2>2, <2>3 DEF Written, IInv, HistoryTells
    <3>2. CASE x = p
      <4>1. entry.new = "cancelled" /\ bookings'[p].status = "cancelled"
        BY <2>3 DEF Written, entry
      <4> QED
        BY ONLY <2>5, <2>6, <3>1, <3>2, <4>1
    <3>3. CASE x # p
      <4>1. bookings'[x] = bookings[x]
        BY <2>3, <3>3 DEF Written
      <4> QED
        BY <2>7, <3>1, <3>3, <4>1
    <3> QED
      BY <3>2, <3>3
  <2>14. Own(r)
    BY <1>2, <2>2, <2>11, AnsweredOwn DEF memory, Answer
  <2> QED
    BY ONLY IInv, r \in Request, <2>8, <2>11, <2>12, <2>13, <2>14, Assembled
<1> QED
  BY <1>1, <1>2 DEF CommitCancel

LEMMA LinkBookingKeeps ==
    ASSUME IInv, NEW r \in Request, LinkBooking(r)
    PROVE  IInv'
<1>0. /\ pc[r] = "booked" /\ Op(r) = "reschedule" /\ job[r].pk \in Pk /\ fresh[r] \in Pk
      /\ Spent(job[r].pk)
  BY JobShape DEF LinkBooking, Op, IInv, TypeOK, Stage, Rescheduling, Actions
<1> PICK p \in Pk, new \in Pk : p = job[r].pk /\ new = fresh[r]
  BY <1>0
<1>1. CASE Reply(r, "error")
  BY <1>0, <1>1, ReplyKeeps DEF Answer
<1>2. CASE /\ Exists(new) /\ Exists(p)
           /\ bookings' = [bookings EXCEPT ![new] = [@ EXCEPT !.rescheduled_from = p]]
           /\ Goto(r, "ok")
           /\ UNCHANGED <<now, customers, history, activity, issued, job, memory, saw>>
  <2>1. Move(r, "ok")
    BY <1>0, <1>2 DEF Move, PC, Answer
  <2>2. /\ pc' \in [Request -> PC] /\ pc'[r] = "ok"
        /\ \A q \in Request : q # r => pc'[q] = pc[q]
        /\ \A x : (Edited(x) => Edited(x)') /\ (Freed(x) => Freed(x)')
    BY <1>0, <2>1, MoveMatures DEF IInv
  <2>3. /\ bookings' \in [Pk -> Booking \cup {None}]
        /\ \A x \in Pk : Exists(x)' <=> Exists(x)
        /\ \A x \in Pk : x # new => bookings'[x] = bookings[x]
        /\ bookings'[new].rescheduled_from = p
        /\ \A x \in Pk : Exists(x) =>
              /\ bookings'[x].status = bookings[x].status
              /\ bookings'[x].staff = bookings[x].staff
              /\ bookings'[x].start = bookings[x].start
              /\ bookings'[x].end = bookings[x].end
    <3>1. bookings[new] \in Booking /\ None \notin Booking
      BY <1>2, EngineAssumption DEF IInv, TypeOK, Exists
    <3>2. [bookings[new] EXCEPT !.rescheduled_from = p] \in Booking
      BY <3>1 DEF Booking
    <3> QED
      BY <1>2, <3>1, <3>2 DEF IInv, TypeOK, Exists, Booking
  <2>4. TypeOK' /\ Undisturbed(r)
    BY <1>2, <2>2, <2>3 DEF IInv, TypeOK, Undisturbed, memory
  <2>5. \A x \in Pk : IsActive(x)' => SamePlace(x)
    BY <2>3 DEF IsActive, SamePlace
  <2>6. \A x \in Pk : Exists(x)' => Known(x)
    BY <2>3 DEF IInv, Tabled
  <2>7. /\ Settles
        /\ \A q \in Request : Keyed(q)'
        /\ \A x \in Pk : (Exists(x) => Known(x))' /\ \A y \in saw'[x] : Known(y)'
        /\ OverlapOnlyUnseen'
    BY <1>2, <2>1, <2>5, <2>6, TableStep DEF memory
  <2>8. \A x \in Pk : Linked(x)'
    <3>1. Linked(new)'
      BY <1>0, <1>2, <2>3, <2>7, SpentStays DEF Linked, Spent, Vouched
    <3>2. ASSUME NEW x \in Pk, x # new
          PROVE  Linked(x)'
      BY <2>3, <2>7, <3>2, LinkedStays
    <3> QED
      BY <3>1, <3>2
  <2>9. HistoryTells'
    BY <1>2, <2>2, <2>3 DEF IInv, HistoryTells
  <2>10. Own(r)
    BY <1>2, <2>2, <2>7, AnsweredOwn DEF memory, Answer
  <2> QED
    BY <2>4, <2>7, <2>8, <2>9, <2>10, Assembled
<1> QED
  BY <1>1, <1>2 DEF LinkBooking

LEMMA CommitPatchKeeps ==
    ASSUME IInv, NEW r \in Request, CommitPatch(r)
    PROVE  IInv'
<1>0. /\ Op(r) = "patch" /\ pc[r] = "valid" /\ job[r].pk \in Pk /\ job[r].body \in Booking
      /\ copy[r] \in Booking /\ Known(job[r].pk)
  BY JobShape DEF CommitPatch, At, Op, IInv, TypeOK, Stage, Actions
<1> PICK p \in Pk, row \in Booking :
        /\ p = job[r].pk /\ row = Patched(copy[r], job[r].body, job[r].given)
        /\ row.rescheduled_from = IF "rescheduled_from" \in job[r].given
                                  THEN job[r].body.rescheduled_from
                                  ELSE copy[r].rescheduled_from
  BY <1>0, PatchedRow
<1>1. CASE Reply(r, "error")
  BY <1>0, <1>1, ReplyKeeps DEF Answer
<1>2. CASE /\ Linkable(p, row.rescheduled_from)
           /\ bookings' = [bookings EXCEPT ![p] = row]
           /\ Goto(r, "ok")
           /\ UNCHANGED <<now, customers, history, activity, issued, job, memory, saw>>
  <2>1. Move(r, "ok")
    BY <1>0, <1>2 DEF Move, PC, Answer
  <2>2. /\ pc' \in [Request -> PC] /\ pc'[r] = "ok"
        /\ \A q \in Request : q # r => pc'[q] = pc[q]
        /\ Op(r)' = Op(r)
        /\ \A x : (Edited(x) => Edited(x)') /\ (Freed(x) => Freed(x)')
    BY <1>0, <2>1, MoveMatures DEF IInv
  <2>3. /\ bookings' \in [Pk -> Booking \cup {None}]
        /\ bookings'[p] = row /\ Exists(p)'
        /\ \A x \in Pk : x # p => bookings'[x] = bookings[x]
        /\ \A x \in Pk : Exists(x) => Exists(x)'
    BY <1>2, EngineAssumption DEF IInv, TypeOK, Exists
  <2>4. TypeOK' /\ Undisturbed(r)
    BY <1>2, <2>2, <2>3 DEF IInv, TypeOK, Undisturbed, memory
  <2>5. Edited(p)'
    BY <1>0, <1>2, <2>2 DEF Edited
  <2>6. \A x \in Pk : IsActive(x)' => Edited(x)' \/ SamePlace(x)
    BY <2>3, <2>5 DEF IsActive, Exists, SamePlace
  <2>7. \A x \in Pk : Exists(x)' => Known(x)
    BY <1>0, <2>3 DEF IInv, Tabled, Exists
  <2>8. /\ Settles
        /\ \A q \in Request : Keyed(q)'
        /\ \A x \in Pk : (Exists(x) => Known(x))' /\ \A y \in saw'[x] : Known(y)'
        /\ OverlapOnlyUnseen'
    BY <1>2, <2>1, <2>6, <2>7, TableStep DEF memory
  <2>9. \A x \in Pk : Linked(x)'
    <3>1. Linked(p)'
      <4> SUFFICES ASSUME row.rescheduled_from # None
                   PROVE  LET l == row.rescheduled_from IN Exists(l)' /\ Vouched(p, l)'
        BY <2>3 DEF Linked
      <4>1. PICK l \in Pk : l = row.rescheduled_from /\ (l = p \/ Exists(l))
        BY <1>2 DEF Linkable
      <4>2. Exists(l)' /\ Known(l)'
        BY <2>3, <2>8, <4>1
      <4>3. CASE "rescheduled_from" \in job[r].given
        <5>1. Relinked(p, l)'
          BY <1>0, <1>2, <2>2, <4>1, <4>3 DEF Relinked, Op
        <5> QED
          BY <4>1, <4>2, <5>1 DEF Vouched
      <4>4. CASE "rescheduled_from" \notin job[r].given
        <5>1. Vouched(p, l)
          BY <1>0, <4>1, <4>4, EngineAssumption DEF IInv, Loaded
        <5> QED
          BY <2>8, <4>1, <4>2, <5>1, VouchedStays
      <4> QED
        BY <4>3, <4>4
    <3>2. ASSUME NEW x \in Pk, x # p
          PROVE  Linked(x)'
      BY <2>3, <2>8, <3>2, LinkedStays DEF Exists
    <3> QED
      BY <3>1, <3>2
  <2>10. HistoryTells'
    BY <1>2, <2>2, <2>3, <2>5 DEF IInv, HistoryTells, Exists
  <2>11. Own(r)
    BY <1>2, <2>2, <2>8, AnsweredOwn DEF memory, Answer
  <2> QED
    BY <2>4, <2>8, <2>9, <2>10, <2>11, Assembled
<1> QED
  BY <1>1, <1>2 DEF CommitPatch

LEMMA CommitDeleteKeeps ==
    ASSUME IInv, NEW r \in Request, CommitDelete(r)
    PROVE  IInv'
<1>0. pc[r] = "swept" /\ Op(r) = "delete" /\ job[r].pk \in Pk
  BY JobShape DEF CommitDelete, Op, IInv, TypeOK, Stage, Actions
<1> PICK p \in Pk : p = job[r].pk
  BY <1>0
<1>1. CASE Reply(r, "error")
  BY <1>0, <1>1, ReplyKeeps DEF Answer
<1>2. CASE /\ bookings' = [q \in Pk |->
                 IF q = p THEN None
                 ELSE IF q \in LinkedTo(p)
                 THEN [bookings[q] EXCEPT !.rescheduled_from = None]
                 ELSE bookings[q]]
           /\ history'  = [history EXCEPT ![p] = <<>>]
           /\ activity' = [activity EXCEPT ![p] = <<>>]
           /\ Goto(r, "ok")
           /\ UNCHANGED <<now, customers, issued, job, memory, saw>>
  <2>1. Move(r, "ok")
    BY <1>0, <1>2 DEF Move, PC, Answer
  <2>2. /\ pc' \in [Request -> PC] /\ pc'[r] = "ok"
        /\ \A q \in Request : q # r => pc'[q] = pc[q]
        /\ \A x : (Edited(x) => Edited(x)') /\ (Freed(x) => Freed(x)')
    BY <1>0, <2>1, MoveMatures DEF IInv
  <2>3. ASSUME NEW x \in Pk
        PROVE  /\ bookings'[x] \in Booking \cup {None}
               /\ Exists(x)' <=> Exists(x) /\ x # p
               /\ Exists(x)' =>
                    /\ bookings'[x].status = bookings[x].status
                    /\ bookings'[x].staff = bookings[x].staff
                    /\ bookings'[x].start = bookings[x].start
                    /\ bookings'[x].end = bookings[x].end
                    /\ bookings'[x].rescheduled_from =
                          IF bookings[x].rescheduled_from = p THEN None
                          ELSE bookings[x].rescheduled_from
    <3>1. None \notin Booking
      BY EngineAssumption
    <3>2. CASE x \in LinkedTo(p) /\ x # p
      <4>1. bookings[x] \in Booking /\ bookings[x].rescheduled_from = p
        BY <3>2 DEF LinkedTo, IInv, TypeOK, Exists
      <4>2. bookings'[x] = [bookings[x] EXCEPT !.rescheduled_from = None]
        BY <1>2, <3>2
      <4>3. bookings'[x] \in Booking
        BY <4>1, <4>2 DEF Booking
      <4> QED
        BY <3>1, <3>2, <4>1, <4>2, <4>3 DEF Exists, Booking
    <3>3. CASE x \notin LinkedTo(p) /\ x # p
      BY <1>2, <3>1, <3>3 DEF LinkedTo, Exists, IInv, TypeOK
    <3>4. CASE x = p
      BY <1>2, <3>4 DEF Exists
    <3> QED
      BY <3>2, <3>3, <3>4
  <2>4. TypeOK'
    <3>1. bookings' \in [Pk -> Booking \cup {None}]
      BY <1>2, <2>3
    <3>2. \A S : <<>> \in Seq(S)
      OBVIOUS
    <3>3. /\ history' \in [Pk -> Seq([old : Status \cup {None}, new : Status])]
          /\ activity' \in [Pk -> Seq({"created", "cancelled"})]
      BY <1>2, <3>2 DEF IInv, TypeOK
    <3> QED
      BY <1>2, <2>2, <3>1, <3>3 DEF IInv, TypeOK, memory
  <2>5. Undisturbed(r)
    BY <1>2, <2>2 DEF Undisturbed, memory
  <2>6. \A x \in Pk : IsActive(x)' => SamePlace(x)
    BY <2>3 DEF IsActive, SamePlace
  <2>7. \A x \in Pk : Exists(x)' => Known(x)
    BY <2>3 DEF IInv, Tabled
  <2>8. /\ Settles
        /\ \A q \in Request : Keyed(q)'
        /\ \A x \in Pk : (Exists(x) => Known(x))' /\ \A y \in saw'[x] : Known(y)'
        /\ OverlapOnlyUnseen'
    BY <1>2, <2>1, <2>6, <2>7, TableStep DEF memory
  <2>9. ASSUME NEW x \in Pk
        PROVE  Linked(x)'
    <3>1. CASE bookings[x].rescheduled_from = p
      BY <2>3, <3>1 DEF Linked
    <3>2. CASE bookings[x].rescheduled_from # p
      BY <2>3, <2>8, <3>2, LinkedStays
    <3> QED
      BY <3>1, <3>2
  <2>10. HistoryTells'
    <3> SUFFICES ASSUME NEW x \in Pk, Exists(x)', ~Edited(x)', ~Freed(x)'
                 PROVE  /\ history'[x] # <<>>
                        /\ history'[x][Len(history'[x])].new = bookings'[x].status
                        /\ Len(activity'[x]) = Len(history'[x])
      BY DEF HistoryTells
    <3>1. /\ x # p /\ Exists(x) /\ ~Edited(x) /\ ~Freed(x)
          /\ bookings'[x].status = bookings[x].status
      BY <2>2, <2>3
    <3>2. history'[x] = history[x] /\ activity'[x] = activity[x]
      BY <1>2, <3>1 DEF IInv, TypeOK
    <3> QED
      BY <3>1, <3>2 DEF IInv, HistoryTells
  <2>11. Own(r)
    BY <1>2, <2>2, <2>8, AnsweredOwn DEF memory, Answer
  <2> QED
    BY <2>4, <2>5, <2>8, <2>9, <2>10, <2>11, Assembled
<1> QED
  BY <1>1, <1>2 DEF CommitDelete

-----------------------------------------------------------------------------
(* The steps that create a booking. *)

LEMMA SearchKeeps ==
    ASSUME IInv, NEW r \in Request, Search(r)
    PROVE  IInv'
<1>0. /\ pc[r] \in {"start", "freed"}
      /\ Op(r) \in Creations \/ (pc[r] = "freed" /\ Op(r) = "reschedule")
  BY DEF Search, At
<1>1. CASE Reply(r, "error")
  BY <1>0, <1>1, ReplyKeeps DEF Answer
<1>2. CASE /\ Pk # issued
           /\ issued' = issued \cup {NextPk}
           /\ fresh' = [fresh EXCEPT ![r] = NextPk]
           /\ found' = [found EXCEPT ![r] = Conflicts(Wanted(r))]
           /\ saw' = [saw EXCEPT ![NextPk] = {q \in Pk : Exists(q)}]
           /\ Goto(r, "searched")
           /\ UNCHANGED <<now, bookings, customers, history, activity, job, copy,
                           entries>>
  <2> PICK new \in Pk : new = NextPk /\ new \notin issued
    BY <1>2, NextPkNew DEF IInv, TypeOK
  <2>1. Move(r, "searched")
    BY <1>0, <1>2 DEF Move, PC, Answer
  <2>2. /\ pc' \in [Request -> PC] /\ pc'[r] = "searched"
        /\ \A q \in Request : q # r => pc'[q] = pc[q]
        /\ Op(r)' = Op(r)
        /\ \A x : (Edited(x) => Edited(x)') /\ (Freed(x) => Freed(x)')
        /\ \A q, x : Relinked(q, x) => Relinked(q, x)'
    BY <2>1, MoveMatures DEF IInv
  <2>3. /\ fresh'[r] = new /\ issued' = issued \cup {new}
        /\ \A q \in Request : q # r => fresh'[q] = fresh[q] /\ found'[q] = found[q]
        /\ saw'[new] = {q \in Pk : Exists(q)}
        /\ \A x \in Pk : x # new => saw'[x] = saw[x]
        /\ found'[r] = Conflicts(Wanted(r))
    BY <1>2 DEF IInv, TypeOK
  <2>4. TypeOK'
    BY <1>2, <2>2 DEF IInv, TypeOK, Conflicts
  <2>5. Undisturbed(r)
    BY <1>2, <2>2, <2>3 DEF Undisturbed, IInv, TypeOK
  <2>6. \A x : Known(x) => Known(x)'
    BY <2>2, <2>3 DEF Known, Pending
  <2>7. Settles
    BY <1>2, <2>2, <2>6 DEF Settles, Settled, SamePlace, IsActive, Exists
  <2>8. \A q \in Request : Keyed(q)'
    BY <2>3, EngineAssumption DEF IInv, Keyed
  <2>9. \A x \in Pk : (Exists(x) => Known(x))' /\ \A y \in saw'[x] : Known(y)'
    BY <1>2, <2>3, <2>6 DEF IInv, Tabled, Exists
  <2>10. \A x \in Pk : Linked(x)'
    BY <1>2, <2>7, LinkedStays DEF Exists
  <2>11. OverlapOnlyUnseen'
    <3>1. \A x \in Pk : Exists(x) => x # new
      BY DEF IInv, Tabled, Known
    <3> QED
      BY <1>2, <2>2, <2>3, <3>1
         DEF IInv, OverlapOnlyUnseen, Overlapping, IsActive, Exists
  <2>12. HistoryTells'
    BY <1>2, <2>2 DEF IInv, HistoryTells, Exists
  <2>13. Wanted(r)' = Wanted(r) /\ Conflicts(Wanted(r))' = Conflicts(Wanted(r))
    BY <1>2, <2>2 DEF Wanted, Conflicts, IsActive, Exists
  <2>14. Stage(r)'
    <3>1. Op(r) = "reschedule" => Rescheduling(r) /\ job[r].pk \in Pk
      BY <1>0, JobShape DEF Rescheduling, IInv, TypeOK, Op, Creations, Actions
    <3>2. Op(r) = "reschedule" =>
            /\ copy[r] \in Booking /\ job[r].start # None
            /\ Known(job[r].pk)' /\ Spent(job[r].pk)'
      BY <1>2, <2>7, <3>1, SpentStays DEF IInv, Stage, Settles, Settled
    <3> QED
      BY <1>0, <1>2, <2>2, <2>3, <3>2 DEF Stage, Rescheduling
  <2>15. Loaded(r)'
    BY <1>2, <2>7, LoadedStays
  <2>16. Cleared(r)'
    BY <2>2, <2>3, <2>13 DEF Cleared
  <2> QED
    BY <2>4, <2>5, <2>7, <2>8, <2>9, <2>10, <2>11, <2>12, <2>14, <2>15, <2>16, Assembled
       DEF Own
<1> QED
  BY <1>1, <1>2 DEF Search

LEMMA CommitBookingKeeps ==
    ASSUME IInv, NEW r \in Request, CommitBooking(r)
    PROVE  IInv'
<1>0. pc[r] = "clear" /\ fresh[r] \in Pk
  BY DEF CommitBooking, IInv, Stage
<1> PICK p \in Pk : p = fresh[r]
  BY <1>0
<1> DEFINE label == IF Op(r) = "reschedule" THEN "booked" ELSE "ok"
<1>1. /\ bookings'  = [bookings EXCEPT ![p] = Wanted(r)]
      /\ customers' = customers \cup {Wanted(r).email}
      /\ history'   = [history EXCEPT ![p] = <<Created>>]
      /\ activity'  = [activity EXCEPT ![p] = <<"created">>]
      /\ Goto(r, label)
      /\ UNCHANGED <<now, issued, job, memory, saw>>
  BY DEF CommitBooking
<1>2. /\ Wanted(r) \in Booking /\ Wanted(r).status = "confirmed"
      /\ Wanted(r).rescheduled_from = None
  BY <1>0, WantedRow DEF IInv, TypeOK, Stage, Rescheduling
<1>3. Move(r, label)
  BY <1>0, <1>1 DEF Move, PC, Answer
<1>4. /\ pc' \in [Request -> PC] /\ pc'[r] = label
      /\ \A q \in Request : q # r => pc'[q] = pc[q]
      /\ Op(r)' = Op(r)
      /\ \A x : (Edited(x) => Edited(x)') /\ (Freed(x) => Freed(x)')
      /\ \A q, x : Relinked(q, x) => Relinked(q, x)'
  BY <1>3, MoveMatures DEF IInv
<1>5. /\ bookings'[p] = Wanted(r) /\ Exists(p)'
      /\ \A x \in Pk : x # p => bookings'[x] = bookings[x]
  BY <1>1, <1>2, EngineAssumption DEF IInv, TypeOK, Exists
<1>6. TypeOK'
  <2>1. Wanted(r).email \in User
    BY <1>2 DEF Booking
  <2>2. /\ <<Created>> \in Seq([old : Status \cup {None}, new : Status])
        /\ <<"created">> \in Seq({"created", "cancelled"})
    BY DEF Created, Status
  <2> QED
    BY <1>1, <1>2, <1>4, <2>1, <2>2 DEF IInv, TypeOK, memory
<1>7. Undisturbed(r)
  BY <1>1, <1>4 DEF Undisturbed, memory
<1>8. ~Known(p) /\ Known(p)'
  <2>1. fresh[r] # None
    BY <1>0, EngineAssumption
  <2> QED
    BY <1>0, <1>1, <1>4, <2>1 DEF Known, Pending, IInv, Keyed, memory
<1>9. \A x : Known(x) => Known(x)'
  BY <1>1, <1>4 DEF Known, Pending, memory
<1>10. Settles
  BY <1>4, <1>5, <1>8, <1>9 DEF Settles, Settled, SamePlace, IsActive, Exists
<1>11. \A q \in Request : Keyed(q)'
  BY <1>1 DEF IInv, Keyed, memory
<1>12. \A x \in Pk : (Exists(x) => Known(x))' /\ \A y \in saw'[x] : Known(y)'
  BY <1>1, <1>5, <1>8, <1>9 DEF IInv, Tabled, Exists
<1>13. ASSUME NEW x \in Pk
       PROVE  Linked(x)'
  <2>1. CASE x = p
    BY <1>2, <1>5, <2>1 DEF Linked
  <2>2. CASE x # p
    BY <1>5, <1>10, <2>2, LinkedStays DEF Exists
  <2> QED
    BY <2>1, <2>2
<1>14. OverlapOnlyUnseen'
  <2> SUFFICES ASSUME NEW x \in Pk, NEW q \in Pk, x # q, Overlapping(x, q)',
                      ~Edited(x)', ~Edited(q)'
               PROVE  x \notin saw[q] /\ q \notin saw[x]
    BY <1>1 DEF OverlapOnlyUnseen
  <2>1. ASSUME NEW y \in Pk, y # p, IsActive(y)', ~Edited(y)',
               Overlap(bookings'[y], Wanted(r))
        PROVE  y \notin saw[p] /\ p \notin saw[y]
    <3>1. y \in Conflicts(Wanted(r))
      BY <1>5, <2>1 DEF Conflicts, IsActive, Exists
    <3>2. ~Edited(y)
      BY <1>4, <2>1
    <3> QED
      BY <1>0, <1>8, <3>1, <3>2 DEF IInv, Cleared, Tabled
  <2>2. \A a, b : Overlap(a, b) => Overlap(b, a)
    BY DEF Overlap
  <2>3. CASE x = p
    BY <1>5, <2>1, <2>2, <2>3 DEF Overlapping
  <2>4. CASE q = p
    BY <1>5, <2>1, <2>4 DEF Overlapping
  <2>5. CASE x # p /\ q # p
    <3>1. Overlapping(x, q)
      BY <1>5, <2>5 DEF Overlapping, IsActive, Exists
    <3> QED
      BY <1>4, <3>1 DEF IInv, OverlapOnlyUnseen
  <2> QED
    BY <2>3, <2>4, <2>5
<1>15. HistoryTells'
  <2>1. /\ history'[p] = <<Created>> /\ activity'[p] = <<"created">>
        /\ \A x \in Pk : x # p => history'[x] = history[x] /\ activity'[x] = activity[x]
    BY <1>1 DEF IInv, TypeOK
  <2> QED
    BY <1>2, <1>4, <1>5, <2>1 DEF IInv, HistoryTells, Exists, Created
<1>16. Own(r)
  <2>1. Rescheduling(r)' \/ pc'[r] = "booked" => Rescheduling(r)
    BY <1>0, <1>4 DEF Rescheduling
  <2>2. Op(r) = "reschedule" => job[r].pk \in Pk
    BY JobShape DEF IInv, TypeOK, Op, Actions
  <2>3. Rescheduling(r) => Known(job[r].pk)' /\ Spent(job[r].pk)'
    BY <1>1, <1>10, <2>2, SpentStays DEF IInv, Stage, Settles, Settled, Rescheduling
  <2>4. Stage(r)'
    BY <1>0, <1>1, <1>4, <2>1, <2>3 DEF IInv, Stage, Rescheduling, memory
  <2>5. Loaded(r)'
    BY <1>1, <1>10, LoadedStays DEF memory
  <2> QED
    BY <1>4, <2>4, <2>5 DEF Own, Cleared
<1> QED
  BY <1>6, <1>7, <1>10, <1>11, <1>12, <1>13, <1>14, <1>15, <1>16, Assembled

-----------------------------------------------------------------------------
(* The whole. *)

\* The invariant speaks of nothing but the tables and the handlers.
LEMMA Unmoved ==
    ASSUME IInv, now' \in 0 .. MaxNow, UNCHANGED <<tables, job, pc, memory, saw>>
    PROVE  IInv'
<1>1. UNCHANGED <<bookings, customers, history, activity, issued, job, pc,
                  copy, fresh, found, entries, saw>>
  BY DEF tables, memory
<1>2. TypeOK'
  BY <1>1 DEF IInv, TypeOK
<1>3. \A p : /\ Known(p)' <=> Known(p)
             /\ Edited(p)' <=> Edited(p)
             /\ Freed(p)' <=> Freed(p)
             /\ Exists(p)' <=> Exists(p)
             /\ IsActive(p)' <=> IsActive(p)
             /\ Spent(p)' <=> Spent(p)
             /\ \A q : Vouched(q, p)' <=> Vouched(q, p)
  BY <1>1 DEF Known, Pending, Edited, Relinked, Freed, Op, Exists, IsActive, Spent, Vouched
<1>4. \A r \in Request : /\ Op(r)' = Op(r) /\ Wanted(r)' = Wanted(r)
                         /\ Conflicts(Wanted(r))' = Conflicts(Wanted(r))
  BY <1>1, <1>3 DEF Op, Wanted, Conflicts
<1>5. \A r \in Request : Stage(r)' /\ Loaded(r)' /\ Keyed(r)' /\ Cleared(r)'
  <2> SUFFICES ASSUME NEW r \in Request
               PROVE  Stage(r)' /\ Loaded(r)' /\ Keyed(r)' /\ Cleared(r)'
    OBVIOUS
  <2>1. Stage(r)'
    BY <1>1, <1>3, <1>4 DEF IInv, Stage, Rescheduling
  <2>2. Loaded(r)' /\ Keyed(r)'
    BY <1>1, <1>3 DEF IInv, Loaded, Keyed
  <2>3. Cleared(r)'
    BY <1>1, <1>3, <1>4 DEF IInv, Cleared
  <2> QED
    BY <2>1, <2>2, <2>3
<1>6. \A p \in Pk : Tabled(p)'
  BY <1>1, <1>3 DEF IInv, Tabled, Linked
<1>7. OverlapOnlyUnseen'
  BY <1>1, <1>3 DEF IInv, OverlapOnlyUnseen, Overlapping
<1>8. HistoryTells'
  BY <1>1, <1>3 DEF IInv, HistoryTells
<1> QED
  BY <1>2, <1>5, <1>6, <1>7, <1>8 DEF IInv

LEMMA InitIInv == Init => IInv
<1> SUFFICES ASSUME Init
             PROVE  IInv
  OBVIOUS
<1>1. bookings \in [Pk -> Booking \cup {None}]
  BY EngineAssumption DEF Init
<1>2. \A p \in Pk : Exists(p) => /\ bookings[p] \in Booking
                                 /\ bookings[p].status = "confirmed"
                                 /\ bookings[p].rescheduled_from = None
  BY <1>1, EngineAssumption DEF Init, Exists
<1>3. TypeOK
  <2>1. customers \subseteq User
    BY <1>2 DEF Init, Booking
  <2>2. /\ <<Created>> \in Seq([old : Status \cup {None}, new : Status])
        /\ <<"created">> \in Seq({"created", "cancelled"})
        /\ <<>> \in Seq([old : Status \cup {None}, new : Status])
        /\ <<>> \in Seq({"created", "cancelled"})
    BY DEF Created, Status
  <2>3. /\ history \in [Pk -> Seq([old : Status \cup {None}, new : Status])]
        /\ activity \in [Pk -> Seq({"created", "cancelled"})]
    BY <2>2 DEF Init
  <2>4. now \in 0 .. MaxNow
    BY EngineAssumption DEF Init
  <2> QED
    BY <1>1, <2>1, <2>3, <2>4 DEF Init, TypeOK, PC
<1>4. \A r \in Request : pc[r] = "start" /\ copy[r] = None /\ fresh[r] = None
  BY DEF Init
<1>5. \A r \in Request : Stage(r) /\ Loaded(r) /\ Keyed(r) /\ Cleared(r)
  BY <1>4 DEF Stage, Rescheduling, Loaded, Keyed, Cleared
<1>6. \A p \in Pk : Tabled(p)
  BY <1>2, <1>4 DEF Tabled, Linked, Known, Pending, Init
<1>7. OverlapOnlyUnseen
  BY DEF OverlapOnlyUnseen, Init
<1>8. HistoryTells
  <2> SUFFICES ASSUME NEW p \in Pk, Exists(p)
               PROVE  /\ history[p] # <<>>
                      /\ history[p][Len(history[p])].new = bookings[p].status
                      /\ Len(activity[p]) = Len(history[p])
    BY DEF HistoryTells
  <2>1. history[p] = <<Created>> /\ activity[p] = <<"created">>
    BY DEF Init, Exists
  <2> QED
    BY <1>2, <2>1 DEF Created
<1> QED
  BY <1>3, <1>5, <1>6, <1>7, <1>8 DEF IInv

LEMMA NextIInv == IInv /\ [Next]_vars => IInv'
<1> SUFFICES ASSUME IInv, [Next]_vars
             PROVE  IInv'
  OBVIOUS
<1>1. ASSUME NEW r \in Request, TurnAway(r)
      PROVE  IInv'
  <2>1. PICK answer \in {"denied", "error"} : Reply(r, answer)
    BY <1>1 DEF TurnAway
  <2> QED
    BY <1>1, <2>1, ReplyKeeps DEF TurnAway, At, Answer
<1>2. ASSUME NEW r \in Request, Crash(r)
      PROVE  IInv'
  BY <1>2, ReplyKeeps DEF Crash, Answered, Answer
<1>3. ASSUME NEW r \in Request,
             \/ Search(r) \/ CheckConflict(r) \/ CommitBooking(r)
             \/ Load(r) \/ FreeSlot(r) \/ LinkBooking(r) \/ CommitCancel(r)
      PROVE  IInv'
  BY <1>3, SearchKeeps, CheckConflictKeeps, CommitBookingKeeps, LoadKeeps,
     FreeSlotKeeps, LinkBookingKeeps, CommitCancelKeeps
<1>4. ASSUME NEW r \in Request,
             \/ CommitStatus(r) \/ ValidatePatch(r) \/ CommitPatch(r)
             \/ Sweep(r) \/ CommitDelete(r)
      PROVE  IInv'
  BY <1>4, CommitStatusKeeps, ValidatePatchKeeps, CommitPatchKeeps, SweepKeeps, CommitDeleteKeeps
<1>5. CASE Tick
  <2>1. now' \in 0 .. MaxNow
    BY <1>5, EngineAssumption DEF Tick, IInv, TypeOK
  <2> QED
    BY <1>5, <2>1, Unmoved DEF Tick
<1>6. CASE Terminating \/ UNCHANGED vars
  <2>1. UNCHANGED vars
    BY <1>6 DEF Terminating
  <2> QED
    BY <2>1, Unmoved DEF vars, IInv, TypeOK
<1> QED
  BY <1>1, <1>2, <1>3, <1>4, <1>5, <1>6 DEF Next

\* The searches, copies and links of requests that are under way are as IInv says,
\* whatever their number and the order of their statements.
THEOREM EngineInvariance == Spec => []IInv
  BY InitIInv, NextIInv, PTL DEF Spec

\* The engine writes nothing but bookings, histories and answers of their kinds.
THEOREM EngineTypeCorrect == Spec => []TypeOK
<1>1. IInv => TypeOK
  BY DEF IInv
<1> QED
  BY <1>1, EngineInvariance, PTL

\* Two active bookings of a staff member overlap only if neither creation could see
\* the other booking when it searched (bookings/services.py, create_booking), or if
\* a PATCH or an update of the status put one in the way.
THEOREM OverlapOnlyUnseenHolds == Spec => []OverlapOnlyUnseen
<1>1. IInv => OverlapOnlyUnseen
  BY DEF IInv
<1> QED
  BY <1>1, EngineInvariance, PTL

\* However reschedules, deletions, PATCHes of any column (BookingSerializer lets the
\* link itself be written), saves of stale copies and crashes interleave,
\* rescheduled_from refers to a booking that is there; one that holds its time was
\* edited, or the link to it was entered in a PATCH.
THEOREM LinkSoundHolds == Spec => []LinkSound
<1>1. IInv => LinkSound
  <2> SUFFICES ASSUME IInv, NEW q \in Pk, Exists(q), bookings[q].rescheduled_from # None
               PROVE  LET p == bookings[q].rescheduled_from
                      IN  Exists(p) /\ (IsActive(p) => Edited(p) \/ Relinked(q, p))
    BY DEF LinkSound
  <2> QED
    BY DEF IInv, Tabled, Linked, Vouched
<1> QED
  BY <1>1, EngineInvariance, PTL

\* The recorded history of a booking that no edit and no reschedule changed ends in
\* its status, and the activity log has as much to tell.
THEOREM HistoryTellsHolds == Spec => []HistoryTells
<1>1. IInv => HistoryTells
  BY DEF IInv
<1> QED
  BY <1>1, EngineInvariance, PTL

=============================================================================
