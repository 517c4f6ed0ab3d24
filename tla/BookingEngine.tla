--------------------------- MODULE BookingEngine ---------------------------
(***************************************************************************)
(* The booking engine of the versioned API: create_booking and              *)
(* cancel_booking (bookings/services.py), the actions of BookingViewSet and *)
(* the public booking page, run by concurrent workers at READ COMMITTED.    *)
(*                                                                         *)
(* A viewset action works on the instance get_object() returned, its copy,  *)
(* which nothing locks or reads again.  A transaction is one step, the one  *)
(* that commits it, preceded by a step for what it reads first: holding a   *)
(* row's lock until then only delays the others.  The bookings are those of *)
(* one organization; notifications are left out.                           *)
(***************************************************************************)
EXTENDS Integers, Sequences

CONSTANTS
    Staff, Accepting,   \* the staff profiles; those active and accepting bookings
    User, Member, Manager,  \* the accounts, known by their email; those of the
                        \* organization; its owners and managers (superusers
                        \* are among both)
    Pk,                 \* primary keys of bookings
    None,
    Request, Jobs,      \* the HTTP requests, and what they may ask for
    Seeds,              \* the tables of bookings to start from, as create_booking
                        \* leaves them
    MaxNow              \* bound: the clock stops here

Status == {"pending", "confirmed", "checked_in", "in_progress", "completed",
           "cancelled", "no_show", "rejected"}
ACTIVE_BOOKING_STATUSES == {"pending", "confirmed", "checked_in", "in_progress"}

\* A row; minutes is the duration of its service, whatever the row's end is.
Booking == [staff : Staff, email : User, start : Nat, end : Nat, minutes : Nat,
            status : Status, rescheduled_from : Pk \cup {None}]

Columns == {"staff", "email", "start", "end", "minutes", "status", "rescheduled_from"}

Creations == {"create", "page"}
Actions   == {"cancel", "reschedule", "update_status", "patch", "delete"}

\* A user of None is an anonymous visitor; a start of None is one left out of the
\* body, a status of None one that does not exist.  Of the body of a PATCH or PUT
\* only the given columns count; its serializer lets each of them be written.
Visitor == User \cup {None}
CreateJob == [op : Creations, user : Visitor, staff : Staff, email : User,
              start : Nat, minutes : Nat]
PlainJob  == [op : {"cancel", "delete"}, user : Visitor, pk : Pk]
RescheduleJob == [op : {"reschedule"}, user : Visitor, pk : Pk, start : Nat \cup {None}]
StatusJob == [op : {"update_status"}, user : Visitor, pk : Pk, status : Status \cup {None}]
PatchJob  == [op : {"patch"}, user : Visitor, pk : Pk, body : Booking,
              given : SUBSET Columns]

ASSUME EngineAssumption ==
    /\ Accepting \subseteq Staff /\ Manager \subseteq Member /\ Member \subseteq User
    /\ Jobs \subseteq CreateJob \cup PlainJob \cup RescheduleJob \cup StatusJob
                       \cup PatchJob
    /\ Seeds \subseteq [Pk -> Booking \cup {None}]
    /\ \A table \in Seeds : \A p \in Pk : table[p] # None =>
          table[p].status = "confirmed" /\ table[p].rescheduled_from = None
    /\ None \notin Booking /\ None \notin Staff \cup User \cup Pk \cup Nat \cup Status
    /\ MaxNow \in Nat

VARIABLES
    now,        \* the clock
    bookings,   \* table: the row of each booking, or None
    customers,  \* table: the emails of the organization's customers
    history,    \* table: the status changes recorded for each booking
    activity,   \* table: what the activity log records for each booking
    issued,     \* the primary keys given out
    job, pc,    \* what each request asks for; where its handler is, or its answer
    copy,       \* the instance the handler has loaded
    fresh,      \* the primary key of the booking the handler creates
    found,      \* the bookings the handler's last search returned
    entries,    \* how many status changes a deletion has swept away
    saw         \* auxiliary: the bookings there when each one's slot was searched

tables == <<bookings, customers, history, activity, issued>>
memory == <<copy, fresh, found, entries>>
vars   == <<now, tables, job, pc, memory, saw>>

Answer == {"ok", "denied", "missing", "invalid", "error", "lost"}
PC == {"start", "loaded", "valid", "freed", "searched", "clear", "booked", "swept"} \cup Answer

Exists(p)   == bookings[p] # None
IsActive(p) == Exists(p) /\ bookings[p].status \in ACTIVE_BOOKING_STATUSES

Created == [old |-> None, new |-> "confirmed"]

Init ==
    /\ now = 0
    /\ bookings \in Seeds
    /\ customers = {bookings[p].email : p \in {q \in Pk : Exists(q)}}
    /\ history  = [p \in Pk |-> IF Exists(p) THEN <<Created>> ELSE <<>>]
    /\ activity = [p \in Pk |-> IF Exists(p) THEN <<"created">> ELSE <<>>]
    /\ issued = {p \in Pk : Exists(p)}
    /\ job \in [Request -> Jobs]
    /\ pc    = [r \in Request |-> "start"]
    /\ copy  = [r \in Request |-> None]
    /\ fresh = [r \in Request |-> None]
    /\ found = [r \in Request |-> {}]
    /\ entries = [r \in Request |-> 0]
    /\ saw   = [p \in Pk |-> {}]

-----------------------------------------------------------------------------
Op(r) == job[r].op
At(r, ops, label) == Op(r) \in ops /\ pc[r] = label
Answered(r) == pc[r] \in Answer
Goto(r, label) == pc' = [pc EXCEPT ![r] = label]

\* The handler answers having written nothing (more).
Reply(r, answer) == Goto(r, answer) /\ UNCHANGED <<now, tables, job, memory, saw>>

Overlap(a, b) == a.staff = b.staff /\ a.start < b.end /\ b.start < a.end

\* The row create_booking would insert; a reschedule takes all but the times,
\* the status and the link from its copy.
Wanted(r) ==
    IF Op(r) = "reschedule"
    THEN [copy[r] EXCEPT !.start = job[r].start, !.end = job[r].start + copy[r].minutes,
                         !.status = "confirmed", !.rescheduled_from = None]
    ELSE [staff |-> job[r].staff, email |-> job[r].email, start |-> job[r].start,
          end |-> job[r].start + job[r].minutes, minutes |-> job[r].minutes,
          status |-> "confirmed", rescheduled_from |-> None]

\* get_queryset: members of the organization see all, others what is theirs.
Sees(u, row) == u \in Member \/ row.email = u

-----------------------------------------------------------------------------
(* create_booking. *)

\* The API asks for an account, and looks only among accepting staff; the public
\* page does neither.
AdmittedToApi(r)  == job[r].user # None /\ job[r].staff \in Accepting
AdmittedToPage(r) == Op(r) = "page"

Admitted(r) == AdmittedToPage(r) \/ AdmittedToApi(r)

TurnAway(r) ==
    /\ At(r, Creations, "start") /\ ~Admitted(r)
    /\ Reply(r, IF job[r].user = None THEN "denied" ELSE "error")

NextPk == CHOOSE p \in Pk : p \notin issued

\* Mutant: only an equal start is a conflict.
SameStart(row) ==
    {p \in Pk : /\ IsActive(p) /\ bookings[p].staff = row.staff
                /\ bookings[p].start = row.start}

Conflicts(row) == {p \in Pk : IsActive(p) /\ Overlap(bookings[p], row)}

\* SELECT ... FOR UPDATE: the rows of its snapshot, ...
Search(r) ==
    /\ \/ At(r, Creations, "start") /\ Admitted(r)
       \/ At(r, {"reschedule"}, "freed")
    /\ IF Wanted(r).start <= now
       THEN Reply(r, "error")
       ELSE /\ Pk # issued
            /\ issued' = issued \cup {NextPk}
            /\ fresh' = [fresh EXCEPT ![r] = NextPk]
            /\ found' = [found EXCEPT ![r] = Conflicts(Wanted(r))]
            /\ saw' = [saw EXCEPT ![NextPk] = {q \in Pk : Exists(q)}]
            /\ Goto(r, "searched")
            /\ UNCHANGED <<now, bookings, customers, history, activity, job, copy,
                           entries>>

\* ... each tested again as last committed, once its lock is free.
CheckConflict(r) ==
    /\ pc[r] = "searched"
    /\ \/ found[r] \cap Conflicts(Wanted(r)) # {} /\ Reply(r, "error")
       \/ /\ found[r] \cap Conflicts(Wanted(r)) = {}
          /\ Goto(r, "clear")
          /\ UNCHANGED <<now, tables, job, memory, saw>>

CommitBooking(r) ==
    /\ pc[r] = "clear"
    /\ LET p == fresh[r]
       IN  /\ bookings'  = [bookings EXCEPT ![p] = Wanted(r)]
           /\ customers' = customers \cup {Wanted(r).email}
           /\ history'   = [history EXCEPT ![p] = <<Created>>]
           /\ activity'  = [activity EXCEPT ![p] = <<"created">>]
    /\ Goto(r, IF Op(r) = "reschedule" THEN "booked" ELSE "ok")
    /\ UNCHANGED <<now, issued, job, memory, saw>>

-----------------------------------------------------------------------------
(* The actions on an existing booking. *)

\* get_object().
Load(r) ==
    /\ At(r, Actions, "start")
    /\ LET u == job[r].user
           row == bookings[job[r].pk]
           barred == u = None \/ (Op(r) = "update_status" /\ u \notin Manager)
           there == row # None /\ Sees(u, row)
       IN  \/ barred /\ Reply(r, "denied")
           \/ ~barred /\ ~there /\ Reply(r, "missing")
           \/ /\ ~barred /\ there
              /\ copy' = [copy EXCEPT ![r] = row]
              /\ Goto(r, "loaded")
              /\ UNCHANGED <<now, tables, job, fresh, found, entries, saw>>

\* Mutant: the old booking is kept.
KeepOld(r) ==
    /\ At(r, {"reschedule"}, "loaded") /\ job[r].start # None /\ Goto(r, "freed")
    /\ UNCHANGED <<now, tables, job, memory, saw>>

\* reschedule first cancels the old booking, in a transaction of its own;
\* update_fields makes it an error that the row is gone.
FreeSlot(r) ==
    /\ At(r, {"reschedule"}, "loaded")
    /\ LET p == job[r].pk
       IN  \/ job[r].start = None /\ Reply(r, "invalid")
           \/ job[r].start # None /\ ~Exists(p) /\ Reply(r, "error")
           \/ /\ job[r].start # None /\ Exists(p)
              /\ bookings' = [bookings EXCEPT ![p] = [@ EXCEPT !.status = "cancelled"]]
              /\ Goto(r, "freed")
              /\ UNCHANGED <<now, customers, history, activity, issued, job, memory, saw>>

\* ... and last links the new one, in a third.
LinkBooking(r) ==
    /\ pc[r] = "booked"
    /\ \/ ~(Exists(fresh[r]) /\ Exists(job[r].pk)) /\ Reply(r, "error")
       \/ /\ Exists(fresh[r]) /\ Exists(job[r].pk)
          /\ bookings' = [bookings EXCEPT ![fresh[r]] =
                              [@ EXCEPT !.rescheduled_from = job[r].pk]]
          /\ Goto(r, "ok")
          /\ UNCHANGED <<now, customers, history, activity, issued, job, memory, saw>>

\* Mutant: the history is written by whoever calls cancel_booking.
CommitCancelUnrecorded(r) ==
    /\ At(r, {"cancel"}, "loaded") /\ Exists(job[r].pk)
    /\ bookings' = [bookings EXCEPT ![job[r].pk] = [@ EXCEPT !.status = "cancelled"]]
    /\ Goto(r, "ok")
    /\ UNCHANGED <<now, customers, history, activity, issued, job, memory, saw>>

\* cancel_booking: what was the status before is what the copy says.
CommitCancel(r) ==
    /\ At(r, {"cancel"}, "loaded")
    /\ LET p == job[r].pk
           already == copy[r].status = "cancelled"
       IN  \/ already /\ Reply(r, "ok")
           \/ ~already /\ ~Exists(p) /\ Reply(r, "error")
           \/ /\ ~already /\ Exists(p)
              /\ bookings' = [bookings EXCEPT ![p] = [@ EXCEPT !.status = "cancelled"]]
              /\ history'  = [history EXCEPT ![p] =
                    Append(@, [old |-> copy[r].status, new |-> "cancelled"])]
              /\ activity' = [activity EXCEPT ![p] = Append(@, "cancelled")]
              /\ Goto(r, "ok")
              /\ UNCHANGED <<now, customers, issued, job, memory, saw>>

\* Mutant: the value is not compared with Booking.Status.values.
CommitAnyStatus(r) ==
    /\ At(r, {"update_status"}, "loaded") /\ Exists(job[r].pk)
    /\ bookings' = [bookings EXCEPT ![job[r].pk] = [@ EXCEPT !.status = job[r].status]]
    /\ Goto(r, "ok")
    /\ UNCHANGED <<now, customers, history, activity, issued, job, memory, saw>>

CommitStatus(r) ==
    /\ At(r, {"update_status"}, "loaded")
    /\ LET p == job[r].pk
       IN  \/ job[r].status = None /\ Reply(r, "invalid")
           \/ job[r].status # None /\ ~Exists(p) /\ Reply(r, "error")
           \/ /\ job[r].status # None /\ Exists(p)
              /\ bookings' = [bookings EXCEPT ![p] = [@ EXCEPT !.status = job[r].status]]
              /\ Goto(r, "ok")
              /\ UNCHANGED <<now, customers, history, activity, issued, job, memory, saw>>

\* is_valid(): the booking a given rescheduled_from names must be there, in
\* whatever state, and may be the row itself.
ValidatePatch(r) ==
    /\ At(r, {"patch"}, "loaded")
    /\ LET link == job[r].body.rescheduled_from
           wrong == "rescheduled_from" \in job[r].given /\ link # None /\ ~Exists(link)
       IN  \/ wrong /\ Reply(r, "invalid")
           \/ /\ ~wrong
              /\ Goto(r, "valid")
              /\ UNCHANGED <<now, tables, job, memory, saw>>

Patched(row, body, given) ==
    [column \in Columns |-> IF column \in given THEN body[column] ELSE row[column]]

\* The foreign key rescheduled_from, when row p is written with it.
Linkable(p, link) == link \in {None, p} \cup {q \in Pk : Exists(q)}

\* save() without update_fields writes every column, what is not given from the
\* copy, and inserts the row again if it is gone.
CommitPatch(r) ==
    /\ At(r, {"patch"}, "valid")
    /\ LET p == job[r].pk
           row == Patched(copy[r], job[r].body, job[r].given)
       IN  \/ ~Linkable(p, row.rescheduled_from) /\ Reply(r, "error")
           \/ /\ Linkable(p, row.rescheduled_from)
              /\ bookings' = [bookings EXCEPT ![p] = row]
              /\ Goto(r, "ok")
              /\ UNCHANGED <<now, customers, history, activity, issued, job, memory, saw>>

LinkedTo(p) == {q \in Pk : Exists(q) /\ bookings[q].rescheduled_from = p}

\* A deletion collects the rows that refer to the booking, ...
Sweep(r) ==
    /\ At(r, {"delete"}, "loaded")
    /\ found' = [found EXCEPT ![r] = LinkedTo(job[r].pk)]
    /\ entries' = [entries EXCEPT ![r] = Len(history[job[r].pk])]
    /\ Goto(r, "swept")
    /\ UNCHANGED <<now, tables, job, copy, fresh, saw>>

\* ... and is refused at commit by one written since.
CommitDelete(r) ==
    /\ pc[r] = "swept"
    /\ LET p == job[r].pk
           referred == \/ Exists(p) /\ Len(history[p]) > entries[r]
                       \/ ~(LinkedTo(p) \ {p} \subseteq found[r])
       IN  \/ referred /\ Reply(r, "error")
           \/ /\ ~referred
              /\ bookings' = [q \in Pk |->
                    IF q = p THEN None
                    ELSE IF q \in LinkedTo(p)
                    THEN [bookings[q] EXCEPT !.rescheduled_from = None]
                    ELSE bookings[q]]
              /\ history'  = [history EXCEPT ![p] = <<>>]
              /\ activity' = [activity EXCEPT ![p] = <<>>]
              /\ Goto(r, "ok")
              /\ UNCHANGED <<now, customers, issued, job, memory, saw>>

-----------------------------------------------------------------------------
\* The worker dies: what it has committed stays.
Crash(r) == ~Answered(r) /\ Reply(r, "lost")

Tick ==
    /\ now < MaxNow /\ now' = now + 1
    /\ UNCHANGED <<tables, job, pc, memory, saw>>

Terminating == (\A r \in Request : Answered(r)) /\ UNCHANGED vars

Next == \/ \E r \in Request :
              \/ TurnAway(r) \/ Search(r) \/ CheckConflict(r) \/ CommitBooking(r)
              \/ Load(r) \/ FreeSlot(r) \/ LinkBooking(r) \/ CommitCancel(r)
              \/ CommitStatus(r) \/ ValidatePatch(r) \/ CommitPatch(r) \/ Sweep(r)
              \/ CommitDelete(r) \/ Crash(r)
        \/ Tick \/ Terminating

Spec == Init /\ [][Next]_vars

-----------------------------------------------------------------------------
(* Properties. *)

TypeOK ==
    /\ now \in 0 .. MaxNow
    /\ bookings \in [Pk -> Booking \cup {None}]
    /\ customers \subseteq User
    /\ history \in [Pk -> Seq([old : Status \cup {None}, new : Status])]
    /\ activity \in [Pk -> Seq({"created", "cancelled"})]
    /\ issued \subseteq Pk
    /\ job \in [Request -> Jobs]
    /\ pc \in [Request -> PC]
    /\ copy \in [Request -> Booking \cup {None}]
    /\ fresh \in [Request -> Pk \cup {None}]
    /\ found \in [Request -> SUBSET Pk]
    /\ entries \in [Request -> Nat]
    /\ saw \in [Pk -> SUBSET Pk]

\* An edit: the two handlers that write a booking's columns without a check.
Edited(p) ==
    \E r \in Request :
        Op(r) \in {"patch", "update_status"} /\ pc[r] = "ok" /\ job[r].pk = p

Overlapping(p, q) == IsActive(p) /\ IsActive(q) /\ Overlap(bookings[p], bookings[q])

\* What the search of create_booking is good for: two active bookings of a staff
\* member overlap only if neither was there when the other's slot was searched,
\* or if one was edited since.
OverlapOnlyUnseen ==
    \A p, q \in Pk :
        p # q /\ Overlapping(p, q) => \/ p \notin saw[q] /\ q \notin saw[p]
                                      \/ Edited(p) \/ Edited(q)

\* The link of q to p was entered by hand, in a PATCH or PUT of q.
Relinked(q, p) ==
    \E r \in Request :
        /\ Op(r) = "patch" /\ pc[r] = "ok" /\ job[r].pk = q
        /\ "rescheduled_from" \in job[r].given /\ job[r].body.rescheduled_from = p

\* The booking another refers to as the one it was rescheduled from is there, and
\* no longer holds its time, unless an edit gave it back or the link itself was
\* entered by hand: however reschedules, stale saves, deletions and crashes
\* interleave, a reschedule never leaves a customer with both.
LinkSound ==
    \A q \in Pk :
        Exists(q) /\ bookings[q].rescheduled_from # None =>
            LET p == bookings[q].rescheduled_from
            IN  Exists(p) /\ (IsActive(p) => Edited(p) \/ Relinked(q, p))

\* The booking was cancelled by a reschedule, which records nothing of it.
Freed(p) ==
    \E r \in Request : /\ Op(r) = "reschedule" /\ job[r].pk = p
                       /\ pc[r] \notin {"start", "loaded", "denied", "missing", "invalid"}

\* The status history of a booking ends in its status, and a cancellation in it
\* is in the activity log too, unless an edit or a reschedule, which write no
\* history, changed the booking.
HistoryTells ==
    \A p \in Pk :
        Exists(p) /\ ~Edited(p) /\ ~Freed(p) =>
            /\ history[p] # <<>>
            /\ history[p][Len(history[p])].new = bookings[p].status
            /\ Len(activity[p]) = Len(history[p])

\* Creations that race never give a staff member two bookings at one time
\* (docs/BOOKING_ENGINE.md, Conflict prevention).
NoDoubleBooking == \A p, q \in Pk : Overlapping(p, q) => p = q

\* A reschedule that has been answered has replaced the booking or left it alone
\* (docs/BOOKING_ENGINE.md, Cancellation and rescheduling).
RescheduleReplaces ==
    \A r \in Request :
        Op(r) = "reschedule" /\ pc[r] \in {"ok", "error"} =>
            \/ IsActive(job[r].pk)
            \/ LinkedTo(job[r].pk) # {}

=============================================================================
