-------------------------- MODULE MCWorkingHours --------------------------
(* Two specialists, one of whom has an interval of the day already.          *)
EXTENDS WorkingHours, TLC

CONSTANTS s1, s2, h1

Open(s, start, end) == [specialist |-> s, day |-> 0, start_time |-> start, end_time |-> end]

MCSeeds == h1 :> Open(s1, 0, 2)

Ask(op, role, s) == [op |-> op, role |-> role, specialist |-> s]
Add(s, start, end) == [op |-> "add", role |-> "owner", row |-> Open(s, start, end)]
Drop(s, p) == [op |-> "remove", role |-> "admin", specialist |-> s, working_hour |-> p]

\* Additions that collide with the interval, touch it, collide with each other,
\* are equal, end before they begin, or are for a specialist just hired.
MCJobs ==
    {Add(s1, 1, 3), Add(s1, 2, 4), Add(s1, 3, 4), Add(s1, 0, 2), Add(s2, 4, 2),
     Drop(s1, h1), Drop(s2, h1), Ask("hire", "owner", s1), Ask("edit", "admin", s1),
     Ask("dismiss", "owner", s1), Ask("dismiss", "customer", s1), Ask("edit", None, s2)}
    \cup {Drop(s, r) : s \in Founder, r \in Request}
    \cup {Add(r, 2, 4) : r \in Request}

Requests == Permutations(Request)
===========================================================================
