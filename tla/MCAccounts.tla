---------------------------- MODULE MCAccounts ----------------------------
(* One account there is, and registrations of two emails, one of them typed   *)
(* in two ways.                                                             *)
EXTENDS Accounts, TLC

CONSTANTS bob, bobAt, annAt, annAT

MCNormalized == bobAt :> bobAt @@ annAt :> annAt @@ annAT :> annAt

MCSeeds == bob :> [email |-> bobAt, password |-> bob, last_login |-> None,
                   terms_accepted |-> TRUE, email_verified |-> FALSE]

Register(email, accept) == [op |-> "register", email |-> email, accept |-> accept]
About(op, email) == [op |-> op, email |-> email]

MCJobs ==
    {Register(annAt, TRUE), Register(annAT, TRUE), Register(annAt, FALSE),
     About("login", annAt), About("login", bobAt), About("resend", bobAt),
     About("forgot", bobAt), [op |-> "verify"], [op |-> "reset"], [op |-> "profile"]}

Requests == Permutations(Request)
===========================================================================
