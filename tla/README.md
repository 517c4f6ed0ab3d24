# Formal models of the appointment and booking system

TLA+ modules for the Django program in this repository: what its endpoints do to
the database when several workers run them at once, which promises survive that,
and proofs of the central ones. Line numbers are those of the repository's files.

## 1. The system

One Django project holds two generations of a booking program over one database
(PostgreSQL; SQLite as a fallback for development). It is served by three gunicorn
workers; `ATOMIC_REQUESTS` is not set, so outside `transaction.atomic` every
statement commits by itself, and PostgreSQL runs at READ COMMITTED.

| Component | State | Operations | Modelled by |
|---|---|---|---|
| Appointment rules (`appointments/models.py`, `scheduling.py`, `permissions.py`; `accounts/permissions.py`) | none | interval rules, lifecycle, who may do what | `AppointmentRules` |
| Appointment mutations (`appointments/views.py`, `serializers.py`, `transactions.py`) | `Appointment` rows, row locks | create, reschedule, cancel, confirm, complete, no-show | `AppointmentMutations`, abstractly `AppointmentBook` |
| Specialists (`specialists/`) | `Specialist`, `WorkingHour` rows | create, edit, delete with cascade, add and remove hours, show free slots | `WorkingHours`, abstractly `HoursBook`; `AppointmentMutations`, `SpecialistAvailability` |
| Admin site (`appointments/admin.py`) | the same tables, no locks of its own | add, change and delete an appointment | `AppointmentAdmin` |
| Booking engine (`bookings/`) | `Booking`, `Customer`, status history, activity log | create (API and public page), cancel, reschedule, update status, PATCH, delete | `BookingEngine` |
| Staff scheduling (`scheduling/`) | availability, exceptions, holidays, time off | CRUD, `generate_slots` | `StaffSlots` |
| Notifications (`notifications/`) | `NotificationLog` | queue, send, retry | `BookingNotifications` |
| Organizations (`organizations/`) | organization, membership, invitation | invite, accept, edit memberships, scope a query | `Invitations` (not the scoping) |
| Accounts (`accounts/`) | users, verification tokens, login history | register, log in, verify, resend, reset, update a profile | `Accounts` (not logout) |
| Subscriptions (`subscriptions/`) | plan, subscription | `enforce_plan_limit`, which nothing calls | not modelled |
| Core (`core/`) | audit log | `write_audit_log`, health checks, seed data | the record of a verification, in `Accounts` |
| Services, staff, dashboard, configuration | catalogue rows, counts | CRUD, reads | not modelled |

How they interact: the appointment API and the specialist endpoints share three
tables and their row locks, and `scheduling_context` / `scheduling_error` are called
by the creation (twice), the reschedule and the availability view. The booking engine
is independent of both; it writes its history, activity, audit and notification rows
within the booking's transaction and sends the mail there too. `generate_slots` reads
bookings and is not consulted by `create_booking`. Specialists and their hours are
changed in two modules: `WorkingHours` has the endpoints that do it, `AppointmentMutations`
what appointments see of them, and both are shown to implement `HoursBook`. Accounts meet the
rest through an address and a role, which are inputs of the other modules.

What is hard, and so what the properties are for (each with its line in
`PROJECT.json`, "hazards"): requests that validate and then write; rows located by an
unlocked read; deletions that lock in the opposite order to bookings; appointments
that run past midnight; a reschedule made of several transactions; saves from a stale
copy; workers that die part-way; slots shown under one rule and booked under another;
mails that cannot be taken back; invitations,
verification tokens and reset links tested and then marked; registrations made of three statements.

Four committed files (`accounts/models.py:48-65`, `accounts/serializers.py:70-86`,
`appointments/tests.py:25-33`, `specialists/tests.py:31-35`) contain unresolved merge
markers, so the program cannot be imported as committed. Two things depend on which side
is kept. The set of roles: the union is taken. And a profile update: one side lets it change the
email, as typed (`accounts/serializers.py:71-72`). That is left out; with it `EmailsUnique` would
not hold, and what is proved of accounts is proved of the other side.

## 2. The modules

### AppointmentRules
Constants and pure operators. Time is counted in ticks: a day has `DayMinutes`
minutes of `MinuteTicks` ticks (so a time with seconds exists), dates are
`0..LastDate`, and an end at or after the last midnight is Python's `OverflowError`.
`SchedulingError` is `scheduling_error`; `Occupied` and `Working` are the two lists of
`scheduling_context`; `ALLOWED_TRANSITIONS`, `CanManage` and `CanCancel` are the
lifecycle and the permissions.

### AppointmentBook (abstract)
What the appointment API promises of its table alone: rows are booked where the
specialist is free, moved while they are active, given a status the lifecycle allows,
and removed with their specialist.

### HoursBook (abstract)
What the endpoints of specialists promise of their two tables: a specialist is hired, or
dismissed with all of its hours; an interval is added, once, to a specialist there is, or
removed. Nothing of overlaps, which the code prevents only between additions that do not race.

### AppointmentMutations
The endpoints as concurrent requests, one action per statement at which another
request can intervene. `specialists`, `hours`, `appts` are the committed tables,
`specialistLock` and `appointmentLock` the rows held `FOR UPDATE`; `target`, `seen`,
`slot`, `todo`, `swept` what a handler remembers. A creation is
`Advise` (the first, unlocked validation) - `LockSpecialist` - `Validate` -
`CheckOccupancy` - `CommitCreate`; a reschedule `Locate` - `LockSpecialist` -
`LockAppointment` - `Validate` - `CheckOccupancy` - `CommitReschedule`; a status change
`LockAppointment` - `CommitStatus`. `SaveSpecialist` is PATCH on the specialist, which
writes every column it loaded and inserts a row that has gone. A deletion is Django's
cascade: it collects (`ScanAppointments`), locks the rows one by one in any order
(`LockDoomedRow`), its own row last, and is refused by the foreign keys if a
row was added meanwhile. `Validate` and `CheckOccupancy` are separate because
they are two queries. `DeadlockVictim` is PostgreSQL's detector, `Crash` a worker that
dies; both roll back. A transaction writes only at its end here: every transaction
modelled has its one write last, and other requests cannot read it before it commits.
`AddHours` and `RemoveHours` are the hours' endpoints as seen from here, without their
guards; `ImplementsHours` (`HoursBook` WITH the specialists that have a row) says that
the deletion's cascade leaves no interval behind.

### WorkingHours
The endpoints of specialists and of their hours, statement by statement: an addition
is `Find` (the serializer's context), `Validate` (its overlap check), `FindAgain`
(`perform_create`) and `Insert`, which meets the unique constraint and the foreign key; a
removal is `FindHour` and `RemoveHour`; a deletion is `Find`, `Sweep` (the rows its cascade
deletes and so locks) and `Dismiss`, refused by the foreign key if an interval was
added since. `Edit` saves every column, so it inserts a dismissed specialist again.
`saw` is auxiliary: the rows there were when each was validated. `ImplementsHours` is
`HoursBook` WITH `hours` the set of intervals in the table, primary keys put aside.

### Accounts
Registration is `ValidateRegistration` - `CreateUser` - `AcceptTerms` - `IssueFirst`, which
commit one by one; a resend `FindUnverified` - `IssueAgain` - `MailToken`; a verification
`Present` - `MarkUsed` - `VerifyUser` - `WriteAudit`; a login `Authenticate` - `SaveLastLogin` -
`RecordLogin`; a reset `Forgot` in one request and `CheckLink` - `SavePassword` in another; a
profile update `LoadProfile` - `SaveProfile`, which writes the whole row back. What is presented
was mailed before (a guess answers 404). `Matches` is Django's token generator as the set of
columns it hashes; password hashes are salted, so a password is named by the request that
set it. `RemoveAccount` is the admin site's deletion, with its cascade, and `overwritten` is
auxiliary: the accounts an out-of-date profile was saved over. The properties except those, for
the code gives them no protection.

### AppointmentAdmin
`AppointmentMutations` beside the admin form, which runs `full_clean()` and saves the
whole row: no specialist lock, no overlap test, no lifecycle. A row deleted since the form was
opened is inserted again; `removed`, auxiliary, has those it may be.

### SpecialistAvailability
`AvailableSlots` is the view's enumeration and filter. A date in the past answers 400.
Times of today that have passed are shown: `appointments/test_scheduling.py:309-313`
says so on purpose, so `AvailableExact` takes what "can be booked" to mean without
the clock's own test.

### BookingEngine
`create_booking` is `Search` (the snapshot of the `FOR UPDATE` query),
`CheckConflict` (each row found is tested again in its last committed version) and
`CommitBooking`. `reschedule` is `Load`, `FreeSlot`, the same three, `LinkBooking`:
three transactions and a statement that commits by itself. `CommitCancel`,
`CommitStatus` and `CommitPatch` work on the instance loaded before. PATCH and PUT are `Load`,
`ValidatePatch` and `CommitPatch`: the serializer lets a body write any of `Columns`, the link
`rescheduled_from` among them, to whatever booking there is; what is not given comes from the
copy, and a row that has gone is inserted again. `saw` is an auxiliary
variable: the bookings that were in the table when the slot of each was searched.
Bookings, and the links between them, are those of one organization; superusers count among its
members and managers; the service of a booking is its duration. Tenancy,
notifications (a module of their own), the audit log, and the columns no property reads (names,
notes, payment, time zones) are left out. That a row's lock is held until commit only delays other
requests, as no handler that writes holds a lock another one's outcome
depends on.

### StaffSlots
`generate_slots` as the operator `Slots`, with one operator for each thing it reads
(`Windows` narrowed by an exception, `Closed`, `Existing`, `Cursors`), beside the whole of
`BookingEngine`, whose table it reads, and the managers' edits of the four schedule
tables. Instants are minutes of the organization's clock; `Offset` is how far the server's
calendar, which `start_datetime__date` uses, is ahead. Several exceptions for
a date may be entered and `.first()` takes any, so `Slots` has the exception as a
parameter and `Shown` is their union. `clean()` is not called by the API, so rows that
end before they begin are in the types.

### BookingNotifications
One booking's transaction as far as its mail goes: `CreateLog`, `Queue` (`delay()` raises,
as a `Booking` is not JSON, and the fallback runs the task in the handler), `Send` or
`Fail` with Celery's immediate retries (an error of `message.send()`; the server may have
taken the mail), `Commit`, and `Crash`, which loses the log and
not the mail. A `log.save` that fails does the same: it breaks the transaction it is in.

### Invitations
The memberships of one organization. An invitation is `Permit` (the permission class)
and `Invite` (`perform_create`, which looks for the organization again). An acceptance
is `Present` (the view's tests and `is_usable`, on the row as loaded), `ReadMembership`
and `CreateMembership` (`get_or_create`, on whose unique constraint rivals wait) and
`UpdateMembership`; each way out commits with the mark on the invitation (`Accepted`).
`orphaned` has the requests whose loaded membership was deleted since, so that `save()`, which
goes by primary key, fails even when the account has another one. A superuser manages any
organization it names or belongs to. `given` and `dismissed` are auxiliary: what the admin site gave and deleted.

### MC modules
`MCAppointments`, `MCAppointmentAdmin`, `MCWorkingHours`, `MCBookings`, `MCStaffSlots`, `MCInvitations`
and `MCAccounts` give the constants their values.

## 3. The runs

| Run | Question | Properties |
|---|---|---|
| `appointments_bookings` | three requests among creations, reschedules and a cancellation for the same hours, with crashes, the clock and edits of the hours | `TypeOK`, `NoActiveOverlap`, `ValidationHolds`, `AvailableExact`, `ImplementsBook` |
| `appointments_lifecycle` | three requests among everything that can be done to one appointment and its specialist, deletion included | `ReadsHold`, `NoOrphans`, `OneTerminalWinner`, `AnsweredStatusHolds`, `NoMutationDeadlock`, `ImplementsBook`, `ImplementsHours` |
| `appointments_liveness` | is every request answered, deadlocks included | `EveryRequestAnswered` |
| `appointments_admin` | what survives an unlocked writer | `ReadsHold`, `NoOrphans`, `UniqueActiveSlot` |
| `bookings_engine` | three requests among every operation of the booking API | `TypeOK`, `OverlapOnlyUnseen`, `LinkSound`, `HistoryTells` |
| `bookings_rivals` | violated: two creations for one free time | `NoDoubleBooking` |
| `bookings_reschedule` | violated: a reschedule to a time that is taken | `RescheduleReplaces` |
| `slots_shown` | is what is shown accepted, and is nothing bookable hidden, while bookings and schedules change | `ShownAccepted`, `NoneMissed` |
| `notifications_log` | what the log says of the mails, when the server fails and workers die | `LogTells` |
| `invitations_accepted` | three requests among acceptances and invitations, with an administrator, expiry and crashes | `RoleGranted`, `SpentLetsIn` |
| `working_hours` | three requests among additions, removals, dismissals and edits that race | `HoursOverlapUnseen`, `AdditionsStand`, `ImplementsHours` |
| `accounts_tokens` | three requests among every operation on accounts, with deletions, expiry and crashes | `EmailsUnique`, `RegistrationWhole`, `SpentVerifies`, `VerifiedByMail`, `LinkOnce` |

Bounds. A day of six minutes is enough for a slot grid of two, partial overlaps,
appointments that touch, and one that runs past midnight; `LastDate = 2` puts the
calendar's end in reach. Two working intervals of one day overlap on different grids.
The admin site's run has three keys (a seed, a creation and an addition, or a row that comes
back) and two rows to save: one that takes the time others want, one that moves to the other
specialist, completed.
Three requests are the fewest with which a third can act between two that
conflict, and the most the locks of one appointment and one specialist can
distinguish; five primary keys are enough for two seeds and three creations.
`MaxNow = 1` lets a time become past between a validation and the next. `MinuteTicks`
is 1 in the runs; the proofs are for every value. The bookings' runs have one
booking, five keys and three requests, so a reschedule can itself be
rescheduled, patched or deleted, and patches that link to another booking, to none, to the
booking itself and to one that is not there. The slots' runs have days of six minutes, a booking, a
request beside it that crosses midnight, two availabilities of one day that overlap on
different grids, one exception that narrows and one that closes, and a server two minutes
ahead; two dates are enough as a booking meets at most two. Two requests are enough for
the mails, which do not interact. Three accounts, two of which share an address, and three invitations
are the fewest with which two accounts race for one invitation while one account has two; one
account is a superuser without a membership;
the administrator enters one membership for two of them. The hours' run has two specialists,
one with an interval, and additions that collide with it, touch it, equal it, collide with each
other, end before they begin or are for a specialist just hired. The accounts' run has one
unverified account and registrations of another address typed two ways; three requests
are enough for a mail, its use and a stale save, or two registrations beside a profile update;
a verification token expires at the second instant, and a reset link is valid
in the instant it was made, `MaxNow = 1`.

All requests are interchangeable
(`SYMMETRY Requests`), except in the liveness run and the notifications', which use none. The models stop
when all requests are answered (`Terminating`), so deadlock is checked everywhere; in `Invitations` and
`StaffSlots` edits never end.

Fairness (`FairSpec`): weak fairness of each request's next statement or of its being
chosen as deadlock victim. A gunicorn worker runs its handler to the end unless it dies,
and PostgreSQL's detector runs after `deadlock_timeout` in every waiting backend. No fairness is
asked of crashes, of the clock or of edits to the hours. Weak fairness suffices for
the locks because requests are finite in number: a lock released is eventually
released for good.

What the violated runs show:

- `bookings_rivals`: `select_for_update` locks rows that exist. When none conflicts
  yet, two creations both find none and both insert; nothing in the schema stops them.
  `docs/BOOKING_ENGINE.md:10-11` and `README.md:17` promise otherwise.
  `OverlapOnlyUnseen` says what the search does achieve.
- `bookings_reschedule`: the old booking is cancelled in a transaction of its own before
  `create_booking` can refuse the new time, which leaves the customer with neither
  (`docs/BOOKING_ENGINE.md:15`).

Other disagreements met while modelling, not claimed by a run: `generate_slots` reads the
bookings that start on the date (`scheduling/services.py:35`), so a time held by one that
began the evening before is shown, although `docs/ARCHITECTURE.md:22-23` says the slots returned
are valid (`ShownAccepted` says what is true: any other slot shown is accepted); a mail is
sent within the booking's transaction and stays sent when that does not commit
(`notifications/services.py:31`, `docs/BOOKING_ENGINE.md:16`); a registration makes a
verification token and mails none, so a first mail must be asked for by a resend; a profile
update that began before them undoes a verification, an acceptance of the terms or a new
password, and inserts an account deleted meanwhile again (`accounts/views.py:70`); a cancellation by
reschedule or `update_status` writes no history (`docs/BOOKING_ENGINE.md:14`); a
conflict is an unhandled `ValueError`, not a validation error
(`docs/BOOKING_ENGINE.md:11`); two accounts whose emails differ only in case can both use
one invitation, and a deactivated member invited again to the same role stays
inactive (`organizations/services.py:24-27`).

## 4. The proofs

Eight modules of theorems are checked by TLAPS, for any number of requests, keys, users,
bookings, specialists and days. Every invariant and action property of the passing runs
is a theorem of its specification. A theorem says what its property says and no more; what the
properties except is listed at the end of this section.

### Appointments (`AppointmentMutations_proofs`, `AppointmentPromises_proofs`)

Assumed: `CalendarAssumption`, `DirectoryAssumption` and `WorkloadAssumption` (types of the
constants, and seeds that do not overlap); for the admin site `AdminAssumption` too (the
unique index holds of the seeds).

- `TypeCorrect`, `NoActiveOverlapHolds`, `ReadsHoldAlways`, `ValidationHoldsAlways`,
  `NoOrphansHolds`, `NoMutationDeadlockHolds`: `Spec => []P` for the invariants of those names.
- `MutationsImplementBook`: `Spec => ImplementsBook`.
- `MutationsImplementHours`: `Spec => ImplementsHours`, from `SweptOwn`: what a deletion has swept is
  its own specialist's, and the foreign key refuses it when any other interval of that
  specialist remains.
- `OneTerminalWinnerHolds`, `AnsweredStatusAlways`: `Spec => []P` for `OneTerminalWinner`
  and `AnsweredStatusHolds`, from `LInv` below and `Ended`: an appointment that was ended has had
  its key issued, so that no creation is given it, and every commit leaves an ended row
  ended or removes it (`Lasting`). A commit that ends a row finds it live, so nobody had ended it.
- `AvailableExactHolds`: `Spec => []AvailableExact`.
- `UniqueActiveSlotHolds`, `AdminReadsHold`, `AdminNoOrphans`: the same promises under
  `AdminSpec`, with the admin form writing beside the requests.

`NoActiveOverlap` alone is not inductive: a commit preserves it only if the interval found
free still is. The invariant is in two parts. `LInv` is what the locks alone guarantee: what each
request is working on at its program point (`Stage`), which locks it holds, that what it
read under them is current and that a locked row exists (`HoldsSpecialist`,
`HoldsAppointment`, `HoldsRows`; from these `ReadsHold`), that it holds nothing else
(`HoldsOnly`), and that no row has a key not yet issued (`KeysIssued`), without which a
creation could overwrite one. `IInv` adds that a candidate about to be written was
validated and is free (`Validated`, from which `ValidationHolds`), and `NoActiveOverlap`.
Every action of `Next` preserves both (`Keeps`; `Invariance`, `LockInvariance`).
Preservation of `Validated` is where the algorithm's point lies: a step that adds or moves an active
appointment of a specialist holds that specialist's lock, so no other request can be
about to write for the same one; status changes take no such lock, but only ever make an
active row inactive or keep it where it is.

The split is what the admin site needs. Its steps wait for the row lock of what they change and for the
specialist they refer to, but test neither overlap nor validity: they preserve `LInv`
(`AdminLockInvariance`, of `AInv`, which adds that a row which may come back had its key issued)
and break `IInv`. Uniqueness then rests on the index, which every commit
answers for (`PutUnique`, `CommitsUnique`); a change of status never activates a row.

Every deadlock includes the deletion of a specialist, because of the order in which the other
requests take locks: one that holds an appointment waits for nothing, and one that holds a specialist
waits for an appointment at most (`LockOrder`, from `HoldsOnly`). On a circle without a deletion
every request waits for one that itself waits, hence for a specialist; its holder then waits for an
appointment, and whoever holds that waits for nothing. The circle's length does not matter.

The arithmetic lemmas show that `scheduling_context`'s choice of appointments is
sufficient: an interval that passes `HoursError` ends within its day, so an
appointment that starts on a later date, or has ended on an earlier one, cannot
overlap it (`OccupancySuffices`). The same lemma gives `AvailableExact`.

### Bookings (`BookingEngine_proofs`, `StaffSlots_proofs`)

Assumed: `EngineAssumption` (types, and seeds as `create_booking` leaves them: confirmed and
not linked); for the slots `ScheduleAssumption` too (types, a day and a step of at least one tick).
Nothing is assumed of overlaps among the seeds: `OverlapOnlyUnseen` speaks of bookings made
since.

- `EngineTypeCorrect`, `OverlapOnlyUnseenHolds`, `LinkSoundHolds`, `HistoryTellsHolds`:
  `Spec => []P`.
- `ShownAcceptedHolds`, `NoneMissedHolds`: `SlotsSpec => []P`.

The engine takes no lock that protects what it found, so its invariant (`EngineInvariance`)
remembers instead. Of the bookings that were there when a slot was searched, those in its way
were found, or were moved there by an edit since (`Cleared`); the bookings found are tested again before
the insertion, so a new row overlaps only what its search could not see. A key belongs to one
creation (`Keyed`), and one that has been in the table is not created again (`Known`): what was
seen, what a handler has loaded and what a row links to stay the bookings they were.
A rescheduled booking has given its time up unless an edit took it back (`Spent`), which holds
through three transactions. A link, in the table or in a copy that others will write back, refers to a
booking of which that is true, or was entered by hand (`Vouched`, `Linked`, `Loaded`), and a link that
was validated and has gone since is refused by the foreign key; `LinkSound` follows. One fact about the tables carries every action: a known booking stays known,
and where it is active it is where it was or was edited (`Settles`, `TableStep`).

The slot properties hold in each state by what the tables may contain. A slot shown is later than the clock and meets no booking that `Existing` returned, and a conflict that
starts on the date is one of these (`SlotsAccepted`). Conversely, to lie within the hours at each
minute is to do so at both ends (`CoversEnds`); the window is the narrower of the availability and
the exception (`WindowEnds`), so a time that could be booked is on the grid of one of the windows
(`ExpectedOnGrid`), and no filter removes it (`SlotsComplete`).

### The other components

`Invitations_proofs` assumes `InvitationAssumption` (types, and invitations not accepted
at the start).

- `RoleGrantedHolds`, `SpentLetsInHolds`: `Spec => []P`. Both speak of what was read some
  steps before it is written, so the inductive invariant adds, for a handler that
  has passed the view's tests, that the invitation in the table still offers what
  the loaded one did (`Presented`), and that the membership it read is there or was deleted
  (`Joining`). `GrantsKept` reduces each action to two facts about the tables: offers stand
  (`OffersKept`), and roles are new only if offered or given (`MembersKept`).

`WorkingHours_proofs` assumes `HoursAssumption` (types, seeds that do not overlap).

- `HoursOverlapUnseenHolds`, `AdditionsStandHolds`, `WorkingHoursImplementHours`. The first is
  about a row and what another saw before it was inserted, so `IInv` follows every row back to the
  request that made it (`Origin`), keeps what was seen and is still there clear of what
  was validated (`Validated`), and says of a row found by a removal or swept by a
  dismissal that it is of that specialist or has gone, never another row under the same key (`Located`,
  `Swept`). `Referred` and `Distinct` are the foreign key and the unique constraint, which carry the
  refinement.

`Accounts_proofs` assumes `AccountsAssumption` (types, seeds with different normalized emails).

- `EmailsUniqueHolds`, `RegistrationWholeHolds`, `SpentVerifiesHolds`, `VerifiedByMailHolds`:
  `Spec => []P`; `LinkOnceHolds`: `Spec => LinkOnce`. None is inductive alone. `IInv` adds that nobody
  changes the email an account was made with, so a stale copy collides with whoever
  has it now (`Row`, `Holds`, by `EmailOf`); that a token is tied to an account that
  is there and what was mailed had been made (`Token`, `Mailed`); and that a password is set once
  (`SetOnce`), so after a reset no row and no later link has the one the used link was made
  with (`Stale`).

`BookingNotifications_proofs` assumes that the limit of retries is a natural number.

- `LogTellsHolds`: `Spec => []LogTells`. `Sound` ties the draft's count to Celery's and to the
  copies that have left at each point of the task.

### Only model-checked

`EveryRequestAnswered`, as liveness and fairness are beyond the prover. The two violated
properties do not hold. The proofs are of the modules as written: that these
follow the code is for their reader to judge, with the lines that `PROJECT.json` maps.

### What the properties do not catch

Some steps of the code have no protection, and a property that is to hold must except them. The
models reach each of these cases; no property objects to it:

- `update_status` and PATCH write over whatever was committed meanwhile. `OverlapOnlyUnseen`,
  `HistoryTells` and `LinkSound` except bookings that were edited, and `LinkSound` links entered by
  hand. `HistoryTells` looks at the newest entry alone, not at the old status it records, and
  excepts bookings a reschedule cancelled.
- A slot shown although a booking of the evening before takes it: `ShownAccepted` excepts it.
- A mail whose booking is rolled back: `LogTells` speaks of committed logs and of the number of copies.
- One invitation that lets in two accounts of one address, and an invitation whose mail failed:
  `RoleGranted` asks only that the role was offered to the address.
- A profile update that saves an out-of-date row: the properties of `Accounts` other than
  `EmailsUnique` except the accounts in `overwritten`.

Nor do they examine `transaction.atomic` itself: a handler of the models writes in the step that
commits, so that a refusal or a crash leaves nothing half-written is assumed where the code has the block.

## 5. Not modelled

The dashboard, the catalogue of services and staff, configuration, rendering, routing,
health checks and seed data change nothing that a property reads; of the audit log only the
record of a verification is modelled. Subscription limits are never enforced by any caller. SQLite,
whose transactions serialize writers, is a development fallback. Deleting an account cascades to
its appointments and is only possible in the admin site; `Accounts` has the deletion and its own
tables, not that cascade. The admin site's forms for accounts, specialists and hours are left out, as
are listing endpoints. Of accounts: logout and the refreshing of tokens, which the JWT library does;
usernames, whose suffix is random; and a profile update that changes the email, which only one side of
the merge markers in `accounts/serializers.py` allows.

## 6. Plan

What is left, in order:

1. The scoping of queries by organization, over two organizations with one account in both.
2. The customers' and waitlist endpoints of the booking engine.

Dependencies: `AppointmentMutations` EXTENDS `AppointmentRules` and instantiates
`AppointmentBook` and `HoursBook`; `AppointmentAdmin` and `SpecialistAvailability` extend it.
`WorkingHours` instantiates `HoursBook`. `StaffSlots` EXTENDS `BookingEngine`.
`BookingNotifications`, `Invitations` and `Accounts` stand alone. Each has a module of proofs that
EXTENDS it, except that `AppointmentPromises_proofs` EXTENDS `AppointmentMutations_proofs`,
`SpecialistAvailability` and `AppointmentAdmin`, and `StaffSlots_proofs` EXTENDS
`StaffSlots` and `BookingEngine_proofs`.
