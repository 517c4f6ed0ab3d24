--------------------------- MODULE MCInvitations ---------------------------
(* Two accounts that share an address, one of them a superuser, and one that *)
(* has its own.                                                              *)
EXTENDS Invitations, TLC

CONSTANTS ann, Ann, boss, annAt, bossAt, t1, t2, t3

MCAddressOf == ann :> annAt @@ Ann :> annAt @@ boss :> bossAt

MCSeeds == t1 :> [address |-> annAt, role |-> "staff", expires_at |-> 1, accepted_by |-> None]
        @@ t2 :> [address |-> annAt, role |-> "manager", expires_at |-> 2, accepted_by |-> None]
        @@ t3 :> None

MCFounders == ann :> None @@ Ann :> None @@ boss :> [role |-> "owner", is_active |-> TRUE]

Accept(user, token) == [op |-> "accept", user |-> user, token |-> token]

\* An invitation is made for boss, who is a member already.
MCJobs ==
    {Accept(ann, t1), Accept(ann, t2), Accept(Ann, t1), Accept(boss, t1),
     Accept(boss, t3), Accept(None, t1)}
    \cup [op : {"invite"}, user : {boss, Ann}, organization : BOOLEAN,
          address : {bossAt}, role : {"manager"}, expires_at : {2}]

MCAdminRows == {ann, boss} \X {[role |-> "staff", is_active |-> FALSE]}

Requests == Permutations(Request)
=============================================================================
