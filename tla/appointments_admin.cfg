\* The API beside the admin site, which takes no locks of its own.
SPECIFICATION AdminSpec
CONSTANTS
    s1 = s1  s2 = s2
    alice = alice  boss = boss
    p1 = p1  p2 = p2  p3 = p3
    None = None
    Specialist <- MCSpecialist
    User <- MCUser
    Pk <- MCPk
    Role <- MCRole
    Profile <- MCProfile
    DayMinutes = 6
    MinuteTicks = 1
    LastDate = 0
    Request = {r1, r2}
    Jobs <- MCJobs
    Seeds <- MCSeeds
    SeedSlots <- MCSeedSlots
    HourRows <- MCHourRows
    MaxNow = 0
    AdminRows <- MCAdminRows
SYMMETRY Requests
INVARIANT ReadsHold
INVARIANT NoOrphans
INVARIANT UniqueActiveSlot
