-------------------------- MODULE StaffSlots_proofs --------------------------
(***************************************************************************)
(* For any schedules, services and bookings: create_booking accepts what      *)
(* generate_slots shows, and generate_slots hides nothing bookable.          *)
(***************************************************************************)
EXTENDS StaffSlots, BookingEngine_proofs

\* The tables hold rows managers may enter.
Scheduled ==
    /\ weekly \subseteq WeeklyRows /\ holidays \subseteq HolidayRows
    /\ exceptions \subseteq ExceptionRows /\ time_off \subseteq TimeOffRows

-----------------------------------------------------------------------------
LEMMA EditsRows ==
    ASSUME NEW rows, NEW table, table \subseteq rows, NEW new \in Edits(table, rows)
    PROVE  new \subseteq rows
BY DEF Edits

LEMMA ScheduledAlways == SlotsSpec => []Scheduled
<1>1. SlotsInit => Scheduled
  BY DEF SlotsInit, Scheduled
<1>2. Scheduled /\ [SlotsNext]_<<vars, schedule>> => Scheduled'
  <2> SUFFICES ASSUME Scheduled, [SlotsNext]_<<vars, schedule>>
               PROVE  Scheduled'
    OBVIOUS
  <2>1. CASE UNCHANGED schedule
    BY <2>1 DEF schedule, Scheduled
  <2>2. CASE EditWeekly
    BY <2>2, EditsRows DEF EditWeekly, Scheduled
  <2>3. CASE EditHolidays
    BY <2>3, EditsRows DEF EditHolidays, Scheduled
  <2>4. CASE EditExceptions
    BY <2>4, EditsRows DEF EditExceptions, Scheduled
  <2>5. CASE EditTimeOff
    BY <2>5, EditsRows DEF EditTimeOff, Scheduled
  <2> QED
    BY <2>1, <2>2, <2>3, <2>4, <2>5 DEF SlotsNext
<1> QED
  BY <1>1, <1>2, PTL DEF SlotsSpec

\* What is proved of the engine alone holds beside the schedules.
LEMMA SlotsBesideEngine == SlotsSpec => Spec
<1>1. SlotsInit => Init
  BY DEF SlotsInit
<1>2. [SlotsNext]_<<vars, schedule>> => [Next]_vars
  BY DEF SlotsNext, EditWeekly, EditHolidays, EditExceptions, EditTimeOff
<1> QED
  BY <1>1, <1>2, PTL DEF SlotsSpec, Spec

-----------------------------------------------------------------------------
LEMMA MaxOfTwo ==
    ASSUME NEW a \in Int, NEW b \in Int
    PROVE  Max({a, b}) = IF a >= b THEN a ELSE b
BY DEF Max

LEMMA MinOfTwo ==
    ASSUME NEW a \in Int, NEW b \in Int
    PROVE  Min({a, b}) = IF a <= b THEN a ELSE b
BY DEF Min

LEMMA MidnightInt ==
    ASSUME NEW date \in Dates
    PROVE  Midnight(date) \in Int /\ Midnight(date + 1) \in Int
BY ScheduleAssumption DEF Midnight

\* Hours that cover a time cover its two ends.
LEMMA CoversEnds ==
    ASSUME NEW hours, NEW date, NEW t \in Int, NEW service, service.minutes \in Nat,
           Covers(hours, date, t, service)
    PROVE  /\ hours.start <= t - Midnight(date)
           /\ (t + service.minutes) - Midnight(date) <= hours.end
<1> DEFINE last == t + service.minutes
<1> DEFINE minutes == service.minutes
<1> HIDE DEF minutes
<1>1. t \in t .. last /\ last \in t .. last
  <2>1. minutes \in Nat
    BY DEF minutes
  <2>2. t \in t .. t + minutes /\ t + minutes \in t .. t + minutes
    BY <2>1
  <2> QED
    BY <2>2 DEF minutes
<1> HIDE DEF last
<1>2. \A u \in t .. last : /\ hours.start <= u - Midnight(date)
                          /\ u - Midnight(date) <= hours.end
  BY DEF Covers, last
<1>3. hours.start <= t - Midnight(date) /\ last - Midnight(date) <= hours.end
  BY <1>1, <1>2
<1> QED
  BY <1>3 DEF last

\* Where a window begins and ends.
LEMMA WindowEnds ==
    ASSUME Scheduled, NEW date \in Dates, NEW s, NEW w \in weekly,
           NEW e \in Chosen(s, date)
    PROVE  LET partial == e # None /\ e.start # None /\ e.end # None
               window  == Window(w, date, e)
               base    == Midnight(date)
           IN  /\ w.start \in Int /\ w.end \in Int
               /\ window.start \in Int /\ window.end \in Int
               /\ partial => e.start \in Int /\ e.end \in Int
               /\ window.start = base + (IF partial /\ e.start > w.start
                                         THEN e.start ELSE w.start)
               /\ window.end = base + (IF partial /\ e.end < w.end
                                       THEN e.end ELSE w.end)
<1> DEFINE partial == e # None /\ e.start # None /\ e.end # None
           base == Midnight(date)
<1>1. w \in WeeklyAvailability
  BY ScheduleAssumption DEF Scheduled
<1>2. w.start \in Int /\ w.end \in Int
  BY <1>1, ScheduleAssumption DEF WeeklyAvailability
<1>3. e # None => e \in AvailabilityException
  BY ScheduleAssumption DEF Scheduled, Chosen
<1>4. partial => e.start \in Int /\ e.end \in Int
  BY <1>3, ScheduleAssumption DEF AvailabilityException
<1>5. base \in Int
  BY MidnightInt
<1>6. Window(w, date, e) =
         [start |-> base + (IF partial THEN Max({w.start, e.start}) ELSE w.start),
          end   |-> base + (IF partial THEN Min({w.end, e.end}) ELSE w.end)]
  BY DEF Window
<1>7. partial => /\ Max({w.start, e.start}) = IF w.start >= e.start THEN w.start ELSE e.start
                 /\ Min({w.end, e.end}) = IF w.end <= e.end THEN w.end ELSE e.end
  BY <1>2, <1>4, MaxOfTwo, MinOfTwo
<1> HIDE DEF base, partial
<1>8. /\ Window(w, date, e).start = base + (IF partial /\ e.start > w.start
                                            THEN e.start ELSE w.start)
      /\ Window(w, date, e).end = base + (IF partial /\ e.end < w.end
                                          THEN e.end ELSE w.end)
  BY <1>2, <1>4, <1>5, <1>6, <1>7
<1>9. Window(w, date, e).start \in Int /\ Window(w, date, e).end \in Int
  BY <1>2, <1>4, <1>5, <1>8
<1> QED
  BY <1>2, <1>4, <1>8, <1>9 DEF base, partial

-----------------------------------------------------------------------------
\* A slot that generate_slots shows begins in the future, and nothing that starts on
\* its date is in its way.
LEMMA SlotsAccepted ==
    ASSUME TypeOK, Scheduled
    PROVE  ShownAccepted
<1> SUFFICES ASSUME NEW s \in Accepting, NEW service \in Services, NEW date \in Dates,
                    NEW e \in Chosen(s, date), NEW t \in Slots(s, service, date, e)
             PROVE  /\ t > now
                    /\ \A p \in Conflicts(Asked(s, service, t)) :
                          ServerDate(bookings[p].start) # date
  BY DEF ShownAccepted, Shown
<1>1. PICK x \in Windows(s, date, e) : t \in Cursors(x, service)
  BY DEF Slots
<1>2. PICK w \in weekly : x = Window(w, date, e)
  BY <1>1 DEF Windows
<1>3. x.start \in Int /\ x.end \in Int
  BY <1>2, WindowEnds
<1>4. t \in Int
  BY <1>1, <1>3 DEF Cursors
<1>5. t > now
  <2>1. service.min_notice \in Nat /\ now \in Nat
    BY ScheduleAssumption DEF TypeOK
  <2>2. t > now + service.min_notice
    BY DEF Slots
  <2> QED
    BY <1>4, <2>1, <2>2
<1>6. ASSUME NEW p \in Conflicts(Asked(s, service, t)),
             ServerDate(bookings[p].start) = date
      PROVE  FALSE
  <2>1. p \in Existing(s, date)
    BY <1>6 DEF Conflicts, Overlap, Asked, Existing
  <2>2. Meets(bookings[p], Span(t, service))
    BY <1>6 DEF Conflicts, Overlap, Asked, Meets, Span
  <2> QED
    BY <2>1, <2>2 DEF Slots
<1> QED
  BY <1>5, <1>6

\* A time a client would expect is on the grid of one of the windows.
LEMMA ExpectedOnGrid ==
    ASSUME Scheduled, NEW s, NEW service \in Services, NEW date \in Dates,
           NEW e \in Chosen(s, date), NEW t \in Expected(s, service, date, e)
    PROVE  \E x \in Windows(s, date, e) : t \in Cursors(x, service)
<1> DEFINE base == Midnight(date)
           partial == e # None /\ e.start # None /\ e.end # None
<1>1. PICK w \in weekly :
         /\ w.staff = s /\ w.is_active /\ w.day = Weekday(date)
         /\ Covers(w, date, t, service)
         /\ IF e = None \/ None \in {e.start, e.end}
            THEN (t - base - w.start) % Step = 0
            ELSE /\ Covers(e, date, t, service)
                 /\ \E first \in {w.start, e.start} :
                      /\ first >= w.start /\ first >= e.start
                      /\ (t - base - first) % Step = 0
  BY DEF Expected
<1>2. base \in Int /\ service.minutes \in Nat /\ t \in Int
  BY MidnightInt, ScheduleAssumption DEF Expected
<1>3. w.start <= t - base /\ (t + service.minutes) - base <= w.end
  BY <1>1, <1>2, CoversEnds
<1>4. partial => e.start <= t - base /\ (t + service.minutes) - base <= e.end
  BY <1>1, <1>2, CoversEnds
<1> DEFINE x == Window(w, date, e)
<1>5. /\ w.start \in Int /\ w.end \in Int /\ x.start \in Int /\ x.end \in Int
      /\ partial => e.start \in Int /\ e.end \in Int
      /\ x.start = base + (IF partial /\ e.start > w.start THEN e.start ELSE w.start)
      /\ x.end = base + (IF partial /\ e.end < w.end THEN e.end ELSE w.end)
  BY WindowEnds
<1>6. x \in Windows(s, date, e)
  BY <1>1 DEF Windows
<1>7. PICK first : /\ first = IF partial /\ e.start > w.start THEN e.start ELSE w.start
                   /\ first \in Int
                   /\ (t - base - first) % Step = 0
  <2>1. CASE ~partial
    BY <1>1, <1>5, <2>1
  <2>2. CASE partial
    <3>1. PICK f \in {w.start, e.start} : /\ f >= w.start /\ f >= e.start
                                          /\ (t - base - f) % Step = 0
      BY <1>1, <2>2
    <3>2. f = IF partial /\ e.start > w.start THEN e.start ELSE w.start
      BY <1>5, <2>2, <3>1
    <3> QED
      BY <1>5, <2>2, <3>1, <3>2
  <2> QED
    BY <2>1, <2>2
<1> HIDE DEF base, partial, x
<1>8. t - x.start = t - base - first
  BY <1>2, <1>5, <1>7
<1>9. (t - x.start) % Step = 0
  BY <1>7, <1>8
<1>10. x.start <= t /\ t + service.minutes <= x.end
  BY <1>2, <1>3, <1>4, <1>5
<1>11. t \in Cursors(x, service)
  BY <1>2, <1>5, <1>9, <1>10 DEF Cursors
<1> QED
  BY <1>6, <1>11

LEMMA SlotsComplete ==
    ASSUME TypeOK, Scheduled
    PROVE  NoneMissed
<1> SUFFICES ASSUME NEW s \in Accepting, NEW service \in Services, NEW date \in Dates,
                    NEW e \in Chosen(s, date), NEW t \in Expected(s, service, date, e)
             PROVE  t \in Slots(s, service, date, e)
  BY DEF NoneMissed
<1>1. PICK x \in Windows(s, date, e) : t \in Cursors(x, service)
  BY ExpectedOnGrid
<1>2. ~Closed(date, e)
  BY DEF Closed, Expected
<1>3. t \in Int /\ now \in Int /\ service \in [minutes : Nat, min_notice : Nat, max_advance_days : Nat]
  BY MidnightInt, ScheduleAssumption DEF Expected, TypeOK
<1>4. t > now + service.min_notice
  BY <1>3 DEF Expected
<1>5. t <= now + service.max_advance_days * DayTicks
  <2>1. service.max_advance_days * DayTicks \in Int
    BY <1>3, ScheduleAssumption
  <2>2. t - now <= service.max_advance_days * DayTicks
    BY DEF Expected
  <2> DEFINE span == service.max_advance_days * DayTicks
  <2> HIDE DEF span
  <2>3. span \in Int /\ t - now <= span => t <= now + span
    BY <1>3
  <2> QED
    BY <2>1, <2>2, <2>3 DEF span
<1>6. ASSUME NEW off \in time_off, off.staff = s, off.approved
      PROVE  ~Meets(off, Span(t, service))
  <2>1. off \in TimeOff
    BY ScheduleAssumption DEF Scheduled
  <2>2. off.start \in Nat /\ off.end \in Nat
    BY <2>1 DEF TimeOff
  <2>3. off.end <= t \/ t + service.minutes <= off.start
    BY <1>6 DEF Expected
  <2> QED
    BY <1>3, <2>2, <2>3 DEF Meets, Span
<1>7. ASSUME NEW p \in Existing(s, date)
      PROVE  ~Meets(bookings[p], Span(t, service))
  <2>1. p \notin Conflicts(Asked(s, service, t))
    BY DEF Expected
  <2> QED
    BY <2>1 DEF Existing, Conflicts, Overlap, Asked, Meets, Span
<1> QED
  BY <1>1, <1>2, <1>4, <1>5, <1>6, <1>7 DEF Slots

LEMMA SlotsTyped == SlotsSpec => [](TypeOK /\ Scheduled)
BY ScheduledAlways, SlotsBesideEngine, EngineTypeCorrect, PTL

\* A slot that is shown (scheduling/services.py, generate_slots) is one that
\* create_booking would take at that moment, but for bookings that start on another
\* date of the server's calendar.
THEOREM ShownAcceptedHolds == SlotsSpec => []ShownAccepted
BY SlotsTyped, SlotsAccepted, PTL

\* Every time that the schedule offers, the notice allows and no booking takes is
\* among the slots, whatever the managers have entered.
THEOREM NoneMissedHolds == SlotsSpec => []NoneMissed
BY SlotsTyped, SlotsComplete, PTL

=============================================================================
