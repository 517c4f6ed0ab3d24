\* Registrations, verifications and resets that race profile updates and deletions.
SPECIFICATION Spec
CONSTANTS
    bob = bob  bobAt = bobAt  annAt = annAt  annAT = annAT
    None = None
    Founder = {bob}
    Seeds <- MCSeeds
    Email = {bobAt, annAt, annAT}
    Normalized <- MCNormalized
    Request = {r1, r2, r3}
    Jobs <- MCJobs
    VerifyTicks = 1
    ResetTicks = 0
    MaxNow = 1
SYMMETRY Requests
INVARIANT EmailsUnique
INVARIANT RegistrationWhole
INVARIANT SpentVerifies
INVARIANT VerifiedByMail
PROPERTY LinkOnce
