\* Two bookings' mails, with a server that fails and workers that die.
SPECIFICATION Spec
CONSTANTS
    Request = {r1, r2}
    MaxRetries = 3
    None = None
INVARIANT LogTells
