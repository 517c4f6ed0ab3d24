\* Every operation of the booking engine, on one booking and on what comes of it.
SPECIFICATION Spec
CONSTANTS
    st1 = st1  st2 = st2
    alice = alice  bob = bob  boss = boss
    p1 = p1  p2 = p2  p3 = p3  p4 = p4  p5 = p5
    None = None
    Staff = {st1, st2}
    Accepting = {st1}
    User = {alice, bob, boss}
    Member = {boss}
    Manager = {boss}
    Pk <- MCPk
    Request = {r1, r2, r3}
    Jobs <- EngineJobs
    Seeds <- MCSeeds
    MaxNow = 1
SYMMETRY Requests
INVARIANT TypeOK
INVARIANT OverlapOnlyUnseen
INVARIANT LinkSound
INVARIANT HistoryTells
