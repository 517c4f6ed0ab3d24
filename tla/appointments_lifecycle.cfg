\* The lifecycle of one appointment while its specialist is edited and deleted.
SPECIFICATION Spec
CONSTANTS
    s1 = s1  s2 = s2
    alice = alice  bob = bob  doctor = doctor  boss = boss
    p1 = p1  p2 = p2  p3 = p3  p4 = p4  p5 = p5
    None = None
    Specialist <- MCSpecialist
    User <- MCUser
    Pk <- MCPk
    Role <- MCRole
    Profile <- MCProfile
    DayMinutes = 6
    MinuteTicks = 1
    LastDate = 2
    Request = {r1, r2, r3}
    Jobs <- LifecycleJobs
    Seeds <- MCSeeds
    SeedSlots <- MCSeedSlots
    HourRows <- MCHourRows
    MaxNow = 0
SYMMETRY Requests
INVARIANT ReadsHold
INVARIANT NoOrphans
INVARIANT OneTerminalWinner
INVARIANT AnsweredStatusHolds
INVARIANT NoMutationDeadlock
PROPERTY ImplementsBook
PROPERTY ImplementsHours
