\* What generate_slots shows, and what create_booking accepts.
SPECIFICATION SlotsSpec
CONSTANTS
    st1 = st1  st2 = st2
    alice = alice  bob = bob  boss = boss
    p1 = p1  p2 = p2  p3 = p3
    None = None
    Staff = {st1, st2}
    Accepting = {st1}
    User = {alice, bob, boss}
    Member = {boss}
    Manager = {boss}
    Pk <- MCPk
    Request = {r1, r2}
    Jobs <- SlotJobs
    Seeds <- MCSeeds
    MaxNow = 1
    DayTicks = 6
    Offset = 2
    Step = 2
    Dates = {0, 1}
    Services <- MCServices
    WeeklyRows <- MCWeekly
    HolidayRows <- MCHolidays
    ExceptionRows <- MCExceptions
    TimeOffRows <- MCTimeOff
SYMMETRY Requests
INVARIANT ShownAccepted
INVARIANT NoneMissed
