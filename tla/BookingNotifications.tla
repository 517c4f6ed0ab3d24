------------------------ MODULE BookingNotifications ------------------------
(***************************************************************************)
(* queue_booking_notification and send_templated_email (notifications/):    *)
(* what becomes of the mail a creation or a cancellation of a booking asks   *)
(* for.  The task's arguments hold the Booking itself, which the JSON        *)
(* serializer refuses, so delay() raises and the fallback runs the task at   *)
(* once, as DEBUG does, in the transaction of the booking; Celery then runs   *)
(* a retry at once too, without its countdown.                                *)
(*                                                                         *)
(* A request is one such transaction.  draft is its NotificationLog, seen    *)
(* by others only when it commits; mails leave at once and for good.         *)
(***************************************************************************)
EXTENDS Naturals

CONSTANTS
    Request,
    MaxRetries,     \* max_retries of the task
    None

ASSUME NotificationAssumption == MaxRetries \in Nat

VARIABLES
    draft,      \* the log of each request's open transaction, or None
    log,        \* table: the log each request has committed, or None
    retries,    \* how often Celery has run the request's task again
    mails,      \* how many mails the server has taken from each request
    pc

vars == <<draft, log, retries, mails, pc>>

NotificationLog == [status : {"pending", "sent", "failed"}, retry_count : Nat]

Init ==
    /\ draft   = [r \in Request |-> None]
    /\ log     = [r \in Request |-> None]
    /\ retries = [r \in Request |-> 0]
    /\ mails   = [r \in Request |-> 0]
    /\ pc      = [r \in Request |-> "start"]

-----------------------------------------------------------------------------
\* NotificationLog.objects.create().
CreateLog(r) ==
    /\ pc[r] = "start"
    /\ draft' = [draft EXCEPT ![r] = [status |-> "pending", retry_count |-> 0]]
    /\ pc' = [pc EXCEPT ![r] = "queueing"]
    /\ UNCHANGED <<log, retries, mails>>

\* Mutant: the failed delay() is only logged.
QueueOnly(r) ==
    /\ pc[r] = "queueing"
    /\ pc' = [pc EXCEPT ![r] = "settled"]
    /\ UNCHANGED <<draft, log, retries, mails>>

Queue(r) ==
    /\ pc[r] = "queueing"
    /\ pc' = [pc EXCEPT ![r] = "sending"]
    /\ UNCHANGED <<draft, log, retries, mails>>

Send(r) ==
    /\ pc[r] = "sending"
    /\ mails' = [mails EXCEPT ![r] = @ + 1]
    /\ draft' = [draft EXCEPT ![r].status = "sent"]
    /\ pc' = [pc EXCEPT ![r] = "settled"]
    /\ UNCHANGED <<log, retries>>

\* The sending raises, the server having taken the mail or not; past the limit
\* retry() raises the error again, which apply() keeps to itself.
Fail(r) ==
    /\ pc[r] = "sending"
    /\ \E taken \in {0, 1} : mails' = [mails EXCEPT ![r] = @ + taken]
    /\ draft' = [draft EXCEPT ![r] = [status |-> "failed", retry_count |-> @.retry_count + 1]]
    /\ IF retries[r] < MaxRetries
       THEN retries' = [retries EXCEPT ![r] = @ + 1] /\ pc' = pc
       ELSE pc' = [pc EXCEPT ![r] = "settled"] /\ retries' = retries
    /\ UNCHANGED log

\* The rest of create_booking or cancel_booking, and its commit.
Commit(r) ==
    /\ pc[r] = "settled"
    /\ log' = [log EXCEPT ![r] = draft[r]]
    /\ draft' = [draft EXCEPT ![r] = None]
    /\ pc' = [pc EXCEPT ![r] = "ok"]
    /\ UNCHANGED <<retries, mails>>

\* The worker dies, or a statement fails and breaks the transaction (log.save()
\* in the task is one): nothing of it is committed.
Crash(r) ==
    /\ pc[r] \notin {"ok", "lost"}
    /\ draft' = [draft EXCEPT ![r] = None]
    /\ pc' = [pc EXCEPT ![r] = "lost"]
    /\ UNCHANGED <<log, retries, mails>>

Terminating == (\A r \in Request : pc[r] \in {"ok", "lost"}) /\ UNCHANGED vars

Next == \/ \E r \in Request :
              \/ CreateLog(r) \/ Queue(r) \/ Send(r) \/ Fail(r) \/ Commit(r) \/ Crash(r)
        \/ Terminating

Spec == Init /\ [][Next]_vars

-----------------------------------------------------------------------------
(* Properties. *)

\* The table tells what became of a mail: a committed log is never pending; one
\* that says sent had a mail taken, and one that says failed had every retry.
\* Whatever the server does, and whether or not the booking is ever committed, at
\* most MaxRetries + 1 copies leave.
LogTells ==
    \A r \in Request :
        /\ mails[r] <= MaxRetries + 1
        /\ log[r] # None =>
             LET l == log[r]
             IN  /\ l.status \in {"sent", "failed"}
                 /\ l.status = "sent"   => mails[r] \in 1 .. l.retry_count + 1
                                           /\ l.retry_count <= MaxRetries
                 /\ l.status = "failed" => mails[r] <= l.retry_count
                                           /\ l.retry_count = MaxRetries + 1

=============================================================================
