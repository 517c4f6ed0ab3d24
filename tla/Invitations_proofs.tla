------------------------- MODULE Invitations_proofs -------------------------
(***************************************************************************)
(* For any accounts, invitations and number of requests: no role is held     *)
(* that was not offered, and no invitation is spent for nothing, although    *)
(* accept_invitation locks nothing.                                         *)
(***************************************************************************)
EXTENDS Invitations, TLAPS

PC == {"start", "permitted", "usable", "absent", "present"} \cup Answer

Typed ==
    /\ invitations \in [Token -> OrganizationInvitation \cup {None}]
    /\ memberships \in [Account -> OrganizationMembership \cup {None}]
    /\ job \in [Request -> Jobs]
    /\ pc \in [Request -> PC]
    /\ invitation \in [Request -> OrganizationInvitation \cup {None}]
    /\ membership \in [Request -> OrganizationMembership \cup {None}]
    /\ given \in [Account -> SUBSET Role]
    /\ dismissed \in SUBSET Account

\* An invitation offers what it did when it was loaded, whoever accepts it.
SameOffer(i, j) == i # None /\ j # None /\ i.address = j.address /\ i.role = j.role

\* What a handler that has passed the view's tests works with.
Presented(r) ==
    pc[r] \in {"usable", "absent", "present"} =>
        /\ job[r] \in AcceptJob /\ User(r) \in Account
        /\ SameOffer(invitation[r], invitations[job[r].token])
        /\ invitation[r].address = AddressOf[User(r)]

\* The membership it has read is there, or was deleted.
Joining(r) ==
    pc[r] = "present" => memberships[User(r)] # None \/ User(r) \in dismissed

\* RoleGranted and SpentLetsIn are not inductive alone: an acceptance writes what
\* it read of the invitation and of the membership some steps before.
IInv == /\ Typed
        /\ \A r \in Request : Presented(r) /\ Joining(r)
        /\ RoleGranted /\ SpentLetsIn

-----------------------------------------------------------------------------
\* A job is of the kind its operation says.
LEMMA JobShape ==
    ASSUME NEW j \in Jobs
    PROVE  /\ j.op = "accept" => j \in AcceptJob /\ j.token \in Token
           /\ j.op = "invite" => j \in InviteJob
BY InvitationAssumption DEF InviteJob, AcceptJob

\* It holds initially.
LEMMA InvitationsStart == Init => IInv
<1> SUFFICES ASSUME Init
             PROVE  IInv
  OBVIOUS
<1>1. Typed
  <2>1. given \in [Account -> SUBSET Role]
    <3> SUFFICES ASSUME NEW u \in Account, Founders[u] # None
                 PROVE  Founders[u].role \in Role
      BY DEF Init
    <3> QED
      BY InvitationAssumption DEF OrganizationMembership
  <2> QED
    BY <2>1, InvitationAssumption DEF Init, Typed, PC
<1>2. \A r \in Request : Presented(r) /\ Joining(r)
  BY DEF Init, Presented, Joining
<1>3. RoleGranted /\ SpentLetsIn
  BY InvitationAssumption DEF Init, RoleGranted, SpentLetsIn
<1> QED
  BY <1>1, <1>2, <1>3 DEF IInv

-----------------------------------------------------------------------------
(* What a change of the tables leaves true. *)

\* The offers made stand, those accepted remain accepted, and an invitation newly
\* accepted is accepted by a member.
OffersKept ==
    \A t \in Token :
        /\ invitations[t] # None => SameOffer(invitations[t], invitations'[t])
        /\ invitations[t] # None /\ invitations[t].accepted_by # None =>
              invitations'[t].accepted_by # None
        /\ invitations'[t] # None /\ invitations'[t].accepted_by # None =>
              \/ /\ invitations[t] # None
                 /\ invitations'[t].accepted_by = invitations[t].accepted_by
              \/ memberships'[invitations'[t].accepted_by] # None
              \/ invitations'[t].accepted_by \in dismissed'

\* A membership is lost only by deletion, and a role is new only if it is given or
\* offered to the account by an invitation that is accepted now.
MembersKept ==
    /\ dismissed \subseteq dismissed'
    /\ \A u \in Account :
        /\ memberships[u] # None => memberships'[u] # None \/ u \in dismissed'
        /\ given[u] \subseteq given'[u]
        /\ memberships'[u] # None =>
              \/ memberships[u] # None /\ memberships'[u].role = memberships[u].role
              \/ memberships'[u].role \in given'[u]
              \/ \E t \in Token :
                    /\ invitations'[t] # None /\ invitations'[t].accepted_by # None
                    /\ invitations'[t].address = AddressOf[u]
                    /\ invitations'[t].role = memberships'[u].role

LEMMA GrantsKept ==
    ASSUME Typed, RoleGranted, SpentLetsIn, OffersKept, MembersKept
    PROVE  RoleGranted' /\ SpentLetsIn'
<1>1. RoleGranted'
  <2> SUFFICES ASSUME NEW u \in Account, memberships'[u] # None,
                      memberships[u] # None, memberships'[u].role = memberships[u].role
               PROVE  \/ memberships'[u].role \in given'[u]
                      \/ \E t \in Token :
                            /\ invitations'[t] # None /\ invitations'[t].accepted_by # None
                            /\ invitations'[t].address = AddressOf[u]
                            /\ invitations'[t].role = memberships'[u].role
    BY DEF RoleGranted, MembersKept
  <2>1. CASE memberships[u].role \in given[u]
    BY <2>1 DEF MembersKept
  <2>2. CASE \E t \in Token :
                /\ invitations[t] # None /\ invitations[t].accepted_by # None
                /\ invitations[t].address = AddressOf[u]
                /\ invitations[t].role = memberships[u].role
    BY <2>2 DEF OffersKept, SameOffer
  <2> QED
    BY <2>1, <2>2 DEF RoleGranted
<1>2. SpentLetsIn'
  <2> SUFFICES ASSUME NEW t \in Token, invitations'[t] # None,
                      invitations'[t].accepted_by # None, invitations[t] # None,
                      invitations'[t].accepted_by = invitations[t].accepted_by
               PROVE  \/ memberships'[invitations'[t].accepted_by] # None
                      \/ invitations'[t].accepted_by \in dismissed'
    BY DEF SpentLetsIn, OffersKept
  <2>1. invitations[t].accepted_by \in Account
    BY DEF Typed, OrganizationInvitation
  <2> QED
    BY <2>1 DEF SpentLetsIn, MembersKept
<1> QED
  BY <1>1, <1>2

\* The handlers that do not move keep what they have established.
LEMMA BystandersKept ==
    ASSUME Typed, OffersKept, MembersKept, job' = job,
           NEW q \in Request, Presented(q), Joining(q),
           pc'[q] = pc[q], invitation'[q] = invitation[q]
    PROVE  Presented(q)' /\ Joining(q)'
<1>1. Presented(q)'
  <2> SUFFICES ASSUME pc[q] \in {"usable", "absent", "present"}
               PROVE  SameOffer(invitation[q], invitations'[job[q].token])
    BY DEF Presented, User
  <2>1. job[q].token \in Token
    BY DEF Presented, AcceptJob
  <2> QED
    BY <2>1 DEF Presented, OffersKept, SameOffer
<1>2. Joining(q)'
  BY DEF Presented, Joining, MembersKept, User
<1> QED
  BY <1>1, <1>2

\* Tables left alone are kept.
LEMMA TablesStill ==
    ASSUME UNCHANGED <<tables, given, dismissed>>
    PROVE  OffersKept /\ MembersKept
BY DEF tables, OffersKept, MembersKept, SameOffer

\* A step of one request.
LEMMA RequestStep ==
    ASSUME IInv, NEW r \in Request, Typed', OffersKept, MembersKept, job' = job,
           \A q \in Request \ {r} : pc'[q] = pc[q] /\ invitation'[q] = invitation[q],
           Presented(r)', Joining(r)'
    PROVE  IInv'
<1>1. RoleGranted' /\ SpentLetsIn'
  BY GrantsKept DEF IInv
<1>2. ASSUME NEW q \in Request
      PROVE  Presented(q)' /\ Joining(q)'
  <2>1. CASE q = r
    BY <2>1
  <2>2. CASE q # r
    BY <2>2, BystandersKept DEF IInv
  <2> QED
    BY <2>1, <2>2
<1> QED
  BY <1>1, <1>2 DEF IInv

\* An answer that writes nothing.
LEMMA ReplyStep ==
    ASSUME IInv, NEW r \in Request, NEW answer \in Answer, Reply(r, answer)
    PROVE  IInv'
<1> USE DEF Reply, Goto
<1>1. Typed'
  BY DEF IInv, Typed, tables, memory, PC
<1>2. OffersKept /\ MembersKept
  BY TablesStill DEF tables
<1>3. pc'[r] = answer /\ answer \notin {"usable", "absent", "present"}
  BY DEF IInv, Typed, Answer
<1>4. Presented(r)' /\ Joining(r)'
  BY <1>3 DEF Presented, Joining
<1>5. /\ job' = job
      /\ \A q \in Request \ {r} : pc'[q] = pc[q] /\ invitation'[q] = invitation[q]
  BY DEF IInv, Typed, memory
<1> QED
  BY <1>1, <1>2, <1>4, <1>5, RequestStep

-----------------------------------------------------------------------------
(* The actions. *)

LEMMA PermitStep ==
    ASSUME IInv, NEW r \in Request, Permit(r)
    PROVE  IInv'
<1>1. CASE Reply(r, "denied")
  BY <1>1, ReplyStep DEF Answer
<1>2. CASE Goto(r, "permitted") /\ UNCHANGED <<now, tables, job, memory, given, dismissed>>
  <2>1. Typed'
    BY <1>2 DEF IInv, Typed, tables, memory, PC, Goto
  <2>2. OffersKept /\ MembersKept
    BY <1>2, TablesStill DEF tables
  <2>3. Presented(r)' /\ Joining(r)'
    BY <1>2 DEF IInv, Typed, Goto, Presented, Joining
  <2>4. /\ job' = job
        /\ \A q \in Request \ {r} : pc'[q] = pc[q] /\ invitation'[q] = invitation[q]
    BY <1>2 DEF IInv, Typed, memory, Goto
  <2> QED
    BY <2>1, <2>2, <2>3, <2>4, RequestStep
<1> QED
  BY <1>1, <1>2 DEF Permit

LEMMA InviteStep ==
    ASSUME IInv, NEW r \in Request, Invite(r)
    PROVE  IInv'
<1>1. CASE Reply(r, "error")
  BY <1>1, ReplyStep DEF Answer
<1>2. CASE ~Reply(r, "error")
  <2> DEFINE new == [address |-> job[r].address, role |-> job[r].role,
                     expires_at |-> job[r].expires_at, accepted_by |-> None]
  <2>1. PICK t \in Token : /\ invitations[t] = None
                           /\ invitations' = [invitations EXCEPT ![t] = new]
    BY <1>2 DEF Invite
  <2>2. PICK answer \in {"ok", "error"} : pc' = [pc EXCEPT ![r] = answer]
    BY <1>2 DEF Invite, Goto
  <2>3. UNCHANGED <<memberships, job, invitation, membership, given, dismissed>>
    BY <1>2 DEF Invite, memory
  <2>4. new \in OrganizationInvitation
    <3>1. job[r] \in InviteJob
      BY JobShape DEF Invite, At, IInv, Typed
    <3> QED
      BY <3>1 DEF InviteJob, OrganizationInvitation
  <2>5. Typed'
    BY <2>1, <2>2, <2>3, <2>4 DEF IInv, Typed, PC, Answer
  <2>6. OffersKept
    BY <2>1 DEF IInv, Typed, OffersKept, SameOffer
  <2>7. MembersKept
    BY <2>3 DEF MembersKept
  <2>8. Presented(r)' /\ Joining(r)'
    BY <2>2 DEF IInv, Typed, Presented, Joining
  <2>9. \A q \in Request \ {r} : pc'[q] = pc[q] /\ invitation'[q] = invitation[q]
    BY <2>2, <2>3 DEF IInv, Typed
  <2> QED
    BY <2>3, <2>5, <2>6, <2>7, <2>8, <2>9, RequestStep
<1> QED
  BY <1>1, <1>2

LEMMA PresentStep ==
    ASSUME IInv, NEW r \in Request, Present(r)
    PROVE  IInv'
<1> DEFINE i == invitations[job[r].token]
<1>1. CASE \E answer \in {"denied", "missing", "refused"} : Reply(r, answer)
  BY <1>1, ReplyStep DEF Answer
<1>2. CASE ~\E answer \in {"denied", "missing", "refused"} : Reply(r, answer)
  <2>1. /\ i # None /\ User(r) # None /\ i.address = AddressOf[User(r)]
        /\ invitation' = [invitation EXCEPT ![r] = i]
        /\ Goto(r, "usable")
        /\ UNCHANGED <<now, tables, job, membership, orphaned, given, dismissed>>
    BY <1>2 DEF Present
  <2>2. job[r] \in AcceptJob /\ job[r].token \in Token
    BY JobShape DEF Present, At, IInv, Typed
  <2>3. User(r) \in Account
    BY <2>1, <2>2 DEF User, AcceptJob
  <2>4. i \in OrganizationInvitation
    BY <2>1, <2>2 DEF IInv, Typed
  <2>5. Typed'
    BY <2>1, <2>4 DEF IInv, Typed, tables, PC, Goto
  <2>6. OffersKept /\ MembersKept
    BY <2>1, TablesStill DEF tables
  <2>7. pc'[r] = "usable" /\ invitation'[r] = i
    BY <2>1 DEF IInv, Typed, Goto
  <2>8. Presented(r)' /\ Joining(r)'
    BY <2>1, <2>2, <2>3, <2>7 DEF Presented, Joining, SameOffer, User, tables
  <2>9. \A q \in Request \ {r} : pc'[q] = pc[q] /\ invitation'[q] = invitation[q]
    BY <2>1 DEF IInv, Typed, Goto
  <2> QED
    BY <2>1, <2>5, <2>6, <2>8, <2>9, RequestStep
<1> QED
  BY <1>1, <1>2

LEMMA ReadMembershipStep ==
    ASSUME IInv, NEW r \in Request, ReadMembership(r)
    PROVE  IInv'
<1> DEFINE next == IF memberships[User(r)] = None THEN "absent" ELSE "present"
<1>1. /\ pc[r] = "usable" /\ pc' = [pc EXCEPT ![r] = next]
      /\ membership' = [membership EXCEPT ![r] = memberships[User(r)]]
      /\ UNCHANGED <<now, tables, job, invitation, orphaned, given, dismissed>>
  BY DEF ReadMembership, Goto
<1>2. Presented(r) /\ User(r) \in Account
  BY <1>1 DEF IInv, Presented
<1>3. Typed'
  BY <1>1, <1>2 DEF IInv, Typed, tables, PC
<1>4. OffersKept /\ MembersKept
  BY <1>1, TablesStill DEF tables
<1>5. pc'[r] = next
  BY <1>1 DEF IInv, Typed
<1>6. Presented(r)'
  BY <1>1, <1>2 DEF Presented, tables, User
<1>7. Joining(r)'
  BY <1>1, <1>5 DEF Joining, tables, User
<1>8. \A q \in Request \ {r} : pc'[q] = pc[q] /\ invitation'[q] = invitation[q]
  BY <1>1 DEF IInv, Typed
<1> QED
  BY <1>1, <1>3, <1>4, <1>6, <1>7, <1>8, RequestStep

\* The commit of an acceptance, with what it makes of the membership.
LEMMA AcceptedStep ==
    ASSUME IInv, NEW r \in Request, pc[r] \in {"absent", "present"}, Accepted(r),
           \/ memberships' = [memberships EXCEPT ![User(r)] = Invited(r)]
           \/ /\ memberships' = memberships
              /\ memberships[User(r)] # None \/ User(r) \in dismissed
    PROVE  IInv'
<1> DEFINE token == job[r].token
           i == invitations[token]
           j == [i EXCEPT !.accepted_by = User(r)]
<1>1. /\ token \in Token /\ User(r) \in Account /\ User(r) # None
      /\ SameOffer(invitation[r], i) /\ invitation[r].address = AddressOf[User(r)]
  BY InvitationAssumption DEF IInv, Presented, AcceptJob
<1>2. /\ invitations' = [invitations EXCEPT ![token] = j]
      /\ pc' = [pc EXCEPT ![r] = "ok"]
      /\ UNCHANGED <<job, invitation, membership, given, dismissed>>
  BY DEF Accepted, Goto, memory
<1>3. /\ i \in OrganizationInvitation /\ j \in OrganizationInvitation
      /\ j # None /\ SameOffer(i, j) /\ j.accepted_by = User(r)
  <2>1. i \in OrganizationInvitation
    BY <1>1 DEF IInv, Typed, SameOffer
  <2>2. j \in OrganizationInvitation /\ j.address = i.address /\ j.role = i.role
        /\ j.accepted_by = User(r)
    BY <1>1, <2>1 DEF OrganizationInvitation
  <2> QED
    BY <1>1, <2>1, <2>2, InvitationAssumption DEF SameOffer
<1>4. invitations'[token] = j /\ \A t \in Token \ {token} : invitations'[t] = invitations[t]
  BY <1>1, <1>2 DEF IInv, Typed
<1>5. Invited(r) \in OrganizationMembership /\ Invited(r) # None
      /\ Invited(r).role = i.role
  <2>1. invitation[r] \in OrganizationInvitation
    BY <1>1 DEF IInv, Typed, SameOffer
  <2>2. Invited(r) \in OrganizationMembership /\ Invited(r).role = invitation[r].role
    BY <2>1 DEF OrganizationInvitation, OrganizationMembership, Invited
  <2> QED
    BY <1>1, <2>2, InvitationAssumption DEF SameOffer
<1>6. \/ /\ memberships'[User(r)] = Invited(r)
         /\ \A u \in Account \ {User(r)} : memberships'[u] = memberships[u]
      \/ /\ memberships' = memberships
         /\ memberships[User(r)] # None \/ User(r) \in dismissed
  BY <1>1 DEF IInv, Typed
<1>7. Typed'
  <2>1. invitations' \in [Token -> OrganizationInvitation \cup {None}]
    BY <1>2, <1>3 DEF IInv, Typed
  <2>2. memberships' \in [Account -> OrganizationMembership \cup {None}]
    BY <1>5 DEF IInv, Typed
  <2> QED
    BY <1>2, <2>1, <2>2 DEF IInv, Typed, PC, Answer
<1>8. OffersKept
  <2> SUFFICES ASSUME NEW t \in Token
               PROVE  /\ invitations[t] # None => SameOffer(invitations[t], invitations'[t])
                      /\ invitations[t] # None /\ invitations[t].accepted_by # None =>
                            invitations'[t].accepted_by # None
                      /\ invitations'[t] # None /\ invitations'[t].accepted_by # None =>
                            \/ /\ invitations[t] # None
                               /\ invitations'[t].accepted_by = invitations[t].accepted_by
                            \/ memberships'[invitations'[t].accepted_by] # None
                            \/ invitations'[t].accepted_by \in dismissed'
    BY DEF OffersKept
  <2>1. CASE t = token
    <3>1. memberships'[User(r)] # None \/ User(r) \in dismissed'
      BY <1>2, <1>5, <1>6
    <3> QED
      BY ONLY <1>1, <1>3, <1>4, <2>1, <3>1
  <2>2. CASE t # token
    BY <1>4, <2>2 DEF SameOffer
  <2> QED
    BY <2>1, <2>2
<1>9. MembersKept
  <2>1. \E t \in Token : /\ invitations'[t] # None /\ invitations'[t].accepted_by # None
                         /\ invitations'[t].address = AddressOf[User(r)]
                         /\ invitations'[t].role = Invited(r).role
    <3>1. j.address = AddressOf[User(r)] /\ j.role = Invited(r).role
      BY <1>1, <1>3, <1>5 DEF SameOffer
    <3> QED
      BY ONLY <1>1, <1>3, <1>4, <3>1
  <2>2. SUFFICES ASSUME NEW u \in Account
                 PROVE  /\ memberships[u] # None => memberships'[u] # None \/ u \in dismissed
                        /\ memberships'[u] # None =>
                              \/ /\ memberships[u] # None
                                 /\ memberships'[u].role = memberships[u].role
                              \/ \E t \in Token :
                                    /\ invitations'[t] # None /\ invitations'[t].accepted_by # None
                                    /\ invitations'[t].address = AddressOf[u]
                                    /\ invitations'[t].role = memberships'[u].role
    BY <1>2 DEF MembersKept
  <2>3. CASE u = User(r)
    BY <1>1, <1>5, <1>6, <2>1, <2>3
  <2>4. CASE u # User(r)
    <3>1. memberships'[u] = memberships[u]
      BY <1>6, <2>4
    <3> QED
      BY <3>1
  <2> QED
    BY <2>3, <2>4
<1>10. Presented(r)' /\ Joining(r)'
  BY <1>2 DEF IInv, Typed, Presented, Joining
<1>11. \A q \in Request \ {r} : pc'[q] = pc[q] /\ invitation'[q] = invitation[q]
  BY <1>2 DEF IInv, Typed
<1> QED
  BY <1>2, <1>7, <1>8, <1>9, <1>10, <1>11, RequestStep

LEMMA CreateMembershipStep ==
    ASSUME IInv, NEW r \in Request, CreateMembership(r)
    PROVE  IInv'
<1>1. CASE memberships[User(r)] = None
  BY <1>1, AcceptedStep DEF CreateMembership
<1>2. CASE memberships[User(r)] # None
  <2>1. /\ pc[r] = "absent" /\ pc' = [pc EXCEPT ![r] = "present"]
        /\ membership' = [membership EXCEPT ![r] = memberships[User(r)]]
        /\ UNCHANGED <<now, tables, job, invitation, orphaned, given, dismissed>>
    BY <1>2 DEF CreateMembership, Goto
  <2>2. Presented(r) /\ User(r) \in Account
    BY <2>1 DEF IInv, Presented
  <2>3. Typed'
    BY <2>1, <2>2 DEF IInv, Typed, tables, PC
  <2>4. OffersKept /\ MembersKept
    BY <2>1, TablesStill DEF tables
  <2>5. Presented(r)'
    BY <2>1, <2>2 DEF Presented, tables, User
  <2>6. Joining(r)'
    BY <1>2, <2>1 DEF Joining, tables, User
  <2>7. \A q \in Request \ {r} : pc'[q] = pc[q] /\ invitation'[q] = invitation[q]
    BY <2>1 DEF IInv, Typed
  <2> QED
    BY <2>1, <2>3, <2>4, <2>5, <2>6, <2>7, RequestStep
<1> QED
  BY <1>1, <1>2

LEMMA UpdateMembershipStep ==
    ASSUME IInv, NEW r \in Request, UpdateMembership(r)
    PROVE  IInv'
<1>1. pc[r] = "present" /\ (memberships[User(r)] # None \/ User(r) \in dismissed)
  BY DEF UpdateMembership, IInv, Joining
<1>2. CASE Reply(r, "error")
  BY <1>2, ReplyStep DEF Answer
<1>3. CASE /\ Accepted(r)
           /\ \/ memberships' = memberships
              \/ memberships' = [memberships EXCEPT ![User(r)] = Invited(r)]
  BY <1>1, <1>3, AcceptedStep
<1> QED
  BY <1>2, <1>3 DEF UpdateMembership

\* What the admin site does.
LEMMA AdminStep ==
    ASSUME IInv, EditMembership \/ RemoveMembership
    PROVE  IInv'
<1>1. Typed' /\ OffersKept /\ MembersKept
  <2>1. CASE EditMembership
    <3>1. PICK u \in Account, row \in OrganizationMembership :
             /\ memberships' = [memberships EXCEPT ![u] = row]
             /\ given' = [given EXCEPT ![u] = @ \cup {row.role}]
             /\ UNCHANGED <<now, invitations, job, pc, invitation, membership, dismissed>>
      BY <2>1 DEF EditMembership
    <3>2. row # None /\ row.role \in Role
      BY InvitationAssumption DEF OrganizationMembership
    <3>3. Typed'
      BY <3>1, <3>2 DEF IInv, Typed
    <3>4. OffersKept
      BY <3>1 DEF OffersKept, SameOffer
    <3>5. MembersKept
      BY <3>1, <3>2 DEF IInv, Typed, MembersKept
    <3> QED
      BY <3>3, <3>4, <3>5
  <2>2. CASE RemoveMembership
    <3>1. PICK u \in Account :
             /\ memberships' = [memberships EXCEPT ![u] = None]
             /\ dismissed' = dismissed \cup {u}
             /\ UNCHANGED <<now, invitations, job, pc, invitation, membership, given>>
      BY <2>2 DEF RemoveMembership
    <3>2. Typed'
      BY <3>1 DEF IInv, Typed
    <3>3. OffersKept
      BY <3>1 DEF OffersKept, SameOffer
    <3>4. MembersKept
      BY <3>1 DEF IInv, Typed, MembersKept
    <3> QED
      BY <3>2, <3>3, <3>4
  <2> QED
    BY <2>1, <2>2
<1>2. UNCHANGED <<job, pc, invitation>>
  BY DEF EditMembership, RemoveMembership
<1>3. \A q \in Request : Presented(q)' /\ Joining(q)'
  BY <1>1, <1>2, BystandersKept DEF IInv
<1> QED
  BY <1>1, <1>3, GrantsKept DEF IInv

LEMMA StillStep ==
    ASSUME IInv, UNCHANGED <<tables, job, pc, memory, given, dismissed>>
    PROVE  IInv'
<1>1. Typed' /\ RoleGranted' /\ SpentLetsIn'
  BY DEF IInv, Typed, RoleGranted, SpentLetsIn, tables, memory
<1>2. \A r \in Request : Presented(r)' /\ Joining(r)'
  BY DEF IInv, Presented, Joining, User, tables, memory
<1> QED
  BY <1>1, <1>2 DEF IInv

-----------------------------------------------------------------------------
\* IInv is inductive.
LEMMA IInvHolds == Spec => []IInv
<1>1. Init => IInv
  BY InvitationsStart
<1>2. IInv /\ [Next]_vars => IInv'
  <2> SUFFICES ASSUME IInv, [Next]_vars
               PROVE  IInv'
    OBVIOUS
  <2>1. ASSUME NEW r \in Request, Crash(r)
        PROVE  IInv'
    BY <2>1, ReplyStep DEF Crash, Answer
  <2>2. CASE Tick
    BY <2>2, StillStep DEF Tick
  <2>3. CASE UNCHANGED vars
    BY <2>3, StillStep DEF vars
  <2> QED
    BY <2>1, <2>2, <2>3, PermitStep, InviteStep, PresentStep, ReadMembershipStep,
       CreateMembershipStep, UpdateMembershipStep, AdminStep DEF Next
<1> QED
  BY <1>1, <1>2, PTL DEF Spec

\* However acceptances, edits and expiries interleave, nobody holds a role that
\* was not given or offered (accept_invitation, organizations/services.py).
THEOREM RoleGrantedHolds == Spec => []RoleGranted
<1>1. IInv => RoleGranted
  BY DEF IInv
<1> QED
  BY <1>1, IInvHolds, PTL

\* An invitation is marked as accepted only with a membership for the account it
\* names, whatever dies part-way (accept_invitation, organizations/services.py).
THEOREM SpentLetsInHolds == Spec => []SpentLetsIn
<1>1. IInv => SpentLetsIn
  BY DEF IInv
<1> QED
  BY <1>1, IInvHolds, PTL

=============================================================================
