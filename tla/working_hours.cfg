\* Additions, removals and dismissals of one specialist's hours that race.
SPECIFICATION Spec
CONSTANTS
    s1 = s1  s2 = s2  h1 = h1
    None = None
    Founder = {s1, s2}
    SeedPk = {h1}
    Seeds <- MCSeeds
    Day = {0}
    Time = {0, 1, 2, 3, 4}
    Request = {r1, r2, r3}
    Jobs <- MCJobs
SYMMETRY Requests
INVARIANT HoursOverlapUnseen
INVARIANT AdditionsStand
PROPERTY ImplementsHours
