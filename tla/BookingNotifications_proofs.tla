-------------------- MODULE BookingNotifications_proofs --------------------
(***************************************************************************)
(* For any number of bookings, and any number of retries: the log tells what  *)
(* became of a mail, and the copies that leave are bounded.                  *)
(***************************************************************************)
EXTENDS BookingNotifications, TLAPS

Typed ==
    /\ draft \in [Request -> NotificationLog \cup {None}]
    /\ log \in [Request -> NotificationLog \cup {None}]
    /\ retries \in [Request -> 0 .. MaxRetries]
    /\ mails \in [Request -> Nat]
    /\ pc \in [Request -> {"start", "queueing", "sending", "settled", "ok", "lost"}]

\* What a log says, for good, of so many mails.
Tells(l, count) ==
    /\ l.status \in {"sent", "failed"}
    /\ l.status = "sent"   => count \in 1 .. l.retry_count + 1 /\ l.retry_count <= MaxRetries
    /\ l.status = "failed" => count <= l.retry_count /\ l.retry_count = MaxRetries + 1

\* The count of the draft is Celery's while the task may run again, and one more than
\* its limit once it may not.
Sound(r) ==
    /\ mails[r] <= MaxRetries + 1
    /\ pc[r] = "start" => retries[r] = 0 /\ mails[r] = 0
    /\ pc[r] = "queueing" => retries[r] = 0
    /\ pc[r] \in {"queueing", "sending"} =>
          /\ draft[r] \in NotificationLog
          /\ draft[r].retry_count = retries[r] /\ mails[r] <= retries[r]
    /\ pc[r] = "settled" => draft[r] \in NotificationLog /\ Tells(draft[r], mails[r])
    /\ log[r] # None => pc[r] = "ok" /\ Tells(log[r], mails[r])

IInv == Typed /\ \A r \in Request : Sound(r)

LEMMA NextKeeps == IInv /\ [Next]_vars => IInv'
<1> SUFFICES ASSUME IInv, [Next]_vars
             PROVE  IInv'
  OBVIOUS
<1> USE NotificationAssumption
<1>1. ASSUME NEW r \in Request, Typed', Sound(r)',
             \A q \in Request : q # r =>
                 /\ draft'[q] = draft[q] /\ log'[q] = log[q] /\ retries'[q] = retries[q]
                 /\ mails'[q] = mails[q] /\ pc'[q] = pc[q]
      PROVE  IInv'
  <2>1. \A q \in Request : q # r => Sound(q)'
    BY <1>1 DEF IInv, Sound, Tells
  <2> QED
    BY <1>1, <2>1 DEF IInv
<1>2. ASSUME NEW r \in Request, CreateLog(r) \/ Queue(r)
      PROVE  IInv'
  <2>1. [status |-> "pending", retry_count |-> 0] \in NotificationLog
    BY DEF NotificationLog
  <2>2. Typed'
    BY <1>2, <2>1 DEF IInv, Typed, CreateLog, Queue
  <2>3. Sound(r)'
    BY <1>2, <2>1 DEF IInv, Typed, Sound, CreateLog, Queue
  <2> QED
    BY <1>1, <1>2, <2>2, <2>3 DEF IInv, Typed, CreateLog, Queue
<1>3. ASSUME NEW r \in Request, Send(r)
      PROVE  IInv'
  <2> DEFINE l == [draft[r] EXCEPT !.status = "sent"]
  <2>1. /\ Sound(r) /\ pc[r] = "sending" /\ draft[r] \in NotificationLog
        /\ retries[r] \in 0 .. MaxRetries /\ mails[r] \in Nat
    BY <1>3 DEF Send, IInv, Typed, Sound
  <2>2. l \in NotificationLog /\ l.status = "sent" /\ l.retry_count = draft[r].retry_count
    BY <2>1 DEF NotificationLog
  <2>3. draft' = [draft EXCEPT ![r] = l] /\ mails'[r] = mails[r] + 1
    BY <1>3 DEF Send, IInv, Typed
  <2>4. Typed'
    BY <1>3, <2>1, <2>2, <2>3 DEF Send, IInv, Typed
  <2>5. Tells(l, mails'[r])
    BY <2>1, <2>2, <2>3 DEF Sound, Tells
  <2> HIDE DEF l
  <2>6. Sound(r)'
    BY <1>3, <2>1, <2>2, <2>3, <2>5 DEF Send, IInv, Typed, Sound, Tells
  <2> QED
    BY <1>1, <1>3, <2>4, <2>6 DEF IInv, Typed, Send
<1>4. ASSUME NEW r \in Request, Fail(r)
      PROVE  IInv'
  <2> DEFINE l == [status |-> "failed", retry_count |-> draft[r].retry_count + 1]
  <2>1. /\ Sound(r) /\ pc[r] = "sending" /\ draft[r] \in NotificationLog
        /\ retries[r] \in 0 .. MaxRetries /\ mails[r] \in Nat
    BY <1>4 DEF Fail, IInv, Typed, Sound
  <2>2. l \in NotificationLog /\ draft'[r] = l /\ draft' = [draft EXCEPT ![r] = l]
    BY <1>4, <2>1 DEF Fail, NotificationLog, IInv, Typed
  <2>3. mails'[r] \in {mails[r], mails[r] + 1} /\ \A q \in Request : q # r => mails'[q] = mails[q]
    BY <1>4 DEF Fail, IInv, Typed
  <2>4. mails' \in [Request -> Nat]
    BY <1>4 DEF Fail, IInv, Typed
  <2>5. Typed'
    BY <1>4, <2>1, <2>2, <2>4 DEF Fail, IInv, Typed
  <2>6. CASE retries[r] < MaxRetries
    <3>1. Sound(r)'
      BY <1>4, <2>1, <2>2, <2>3, <2>6 DEF Fail, IInv, Typed, Sound
    <3> QED
      BY <1>1, <1>4, <2>3, <2>5, <3>1 DEF IInv, Typed, Fail
  <2>7. CASE ~(retries[r] < MaxRetries)
    <3>1. Tells(l, mails'[r])
      BY <2>1, <2>3, <2>7 DEF Sound, Tells
    <3> HIDE DEF l
    <3>2. Sound(r)'
      BY <1>4, <2>1, <2>2, <2>3, <2>7, <3>1 DEF Fail, IInv, Typed, Sound
    <3> QED
      BY <1>1, <1>4, <2>3, <2>5, <3>2 DEF IInv, Typed, Fail
  <2> QED
    BY <2>6, <2>7
<1>5. ASSUME NEW r \in Request, Commit(r) \/ Crash(r)
      PROVE  IInv'
  <2>1. Typed'
    BY <1>5 DEF IInv, Typed, Commit, Crash
  <2>2. Sound(r)'
    BY <1>5 DEF IInv, Typed, Sound, Tells, Commit, Crash
  <2> QED
    BY <1>1, <1>5, <2>1, <2>2 DEF IInv, Typed, Commit, Crash
<1>6. CASE UNCHANGED vars
  BY <1>6 DEF vars, IInv, Typed, Sound, Tells
<1> QED
  BY <1>2, <1>3, <1>4, <1>5, <1>6 DEF Next, Terminating

\* However the mail server and the workers fail, a log that is committed tells whether a mail
\* left, and no booking sends more copies than the task may run (notifications/tasks.py).
THEOREM LogTellsHolds == Spec => []LogTells
<1>1. Init => IInv
  BY NotificationAssumption DEF Init, IInv, Typed, Sound
<1>2. IInv => LogTells
  BY DEF IInv, Sound, Tells, LogTells
<1> QED
  BY <1>1, <1>2, NextKeeps, PTL DEF Spec
=============================================================================
