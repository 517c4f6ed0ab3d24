---------------------------- MODULE Invitations ----------------------------
(***************************************************************************)
(* The memberships of one organization (organizations/): InvitationCreate-  *)
(* View, InvitationAcceptView with accept_invitation, and the admin site's   *)
(* form for memberships.  accept_invitation locks nothing: what it tests of   *)
(* the invitation and of the membership was read before it writes, and only   *)
(* the unique constraint on (organization, user) holds two creations apart.  *)
(*                                                                         *)
(* Addresses are what is left of an email by lower(); User.email is unique   *)
(* with its case, so that two accounts may share an address.                 *)
(***************************************************************************)
EXTENDS Naturals

CONSTANTS
    Account, Address, AddressOf,    \* the accounts, and the address of each
    Superuser,          \* the accounts that are superusers
    Token,              \* the tokens of invitations, and (bound) how many there are
    None,
    Request, Jobs,      \* the HTTP requests, and what they may ask for
    Seeds,              \* the invitations to start from
    Founders,           \* the memberships to start from
    AdminRows,          \* bound: whom the admin site gives which membership
    MaxNow              \* bound: the clock stops here

Role == {"owner", "manager", "staff", "customer"}

OrganizationMembership == [role : Role, is_active : BOOLEAN]
OrganizationInvitation ==
    [address : Address, role : Role, expires_at : Nat, accepted_by : Account \cup {None}]

\* organization tells whether the request names it.
InviteJob == [op : {"invite"}, user : Account \cup {None}, organization : BOOLEAN,
              address : Address, role : Role, expires_at : Nat]
AcceptJob == [op : {"accept"}, user : Account \cup {None}, token : Token]

ASSUME InvitationAssumption ==
    /\ AddressOf \in [Account -> Address] /\ Superuser \subseteq Account
    /\ Jobs \subseteq InviteJob \cup AcceptJob
    /\ Seeds \in [Token -> OrganizationInvitation \cup {None}]
    /\ \A t \in Token : Seeds[t] # None => Seeds[t].accepted_by = None
    /\ Founders \in [Account -> OrganizationMembership \cup {None}]
    /\ AdminRows \subseteq Account \X OrganizationMembership
    /\ None \notin Account \cup OrganizationMembership \cup OrganizationInvitation
    /\ MaxNow \in Nat

VARIABLES
    now,
    invitations,    \* table: the invitation of each token, or None
    memberships,    \* table: the membership of each account, or None
    job, pc,        \* what each request asks for; where its handler is, or its answer
    invitation,     \* the invitation the handler has loaded
    membership,     \* the membership it has loaded
    orphaned,       \* the requests whose loaded membership has been deleted since
    given,          \* auxiliary: the roles each account was given otherwise
    dismissed       \* auxiliary: the accounts whose membership was deleted

tables == <<invitations, memberships>>
memory == <<invitation, membership, orphaned>>
vars   == <<now, tables, job, pc, memory, given, dismissed>>

Answer == {"ok", "denied", "missing", "refused", "error", "lost"}

Init ==
    /\ now = 0
    /\ invitations = Seeds /\ memberships = Founders
    /\ job \in [Request -> Jobs]
    /\ pc = [r \in Request |-> "start"]
    /\ invitation = [r \in Request |-> None]
    /\ membership = [r \in Request |-> None]
    /\ orphaned = {}
    /\ given = [u \in Account |-> IF Founders[u] = None THEN {} ELSE {Founders[u].role}]
    /\ dismissed = {}

-----------------------------------------------------------------------------
User(r) == job[r].user
At(r, op, label) == job[r].op = op /\ pc[r] = label
Goto(r, label) == pc' = [pc EXCEPT ![r] = label]
Reply(r, answer) ==
    Goto(r, answer) /\ UNCHANGED <<now, tables, job, memory, given, dismissed>>

IsMember(u) == memberships[u] # None /\ memberships[u].is_active

\* get_request_organization: the one the request names, or else of a membership.
InOrganization(r) == job[r].organization \/ IsMember(User(r))

\* IsOrganizationManagerOrOwner, with user_has_org_role.
Manages(r) ==
    /\ User(r) # None /\ InOrganization(r)
    /\ \/ User(r) \in Superuser
       \/ IsMember(User(r)) /\ memberships[User(r)].role \in {"owner", "manager"}

Permit(r) ==
    /\ At(r, "invite", "start")
    /\ IF Manages(r)
       THEN Goto(r, "permitted")
            /\ UNCHANGED <<now, tables, job, memory, given, dismissed>>
       ELSE Reply(r, "denied")

\* perform_create looks for the organization again; the invitation stays when
\* the mail cannot be sent.
Invite(r) ==
    /\ At(r, "invite", "permitted")
    /\ \/ ~InOrganization(r) /\ Reply(r, "error")
       \/ /\ InOrganization(r)
          /\ \E t \in Token :
                /\ invitations[t] = None
                /\ invitations' = [invitations EXCEPT ![t] =
                      [address |-> job[r].address, role |-> job[r].role,
                       expires_at |-> job[r].expires_at, accepted_by |-> None]]
          /\ \E answer \in {"ok", "error"} : Goto(r, answer)
          /\ UNCHANGED <<now, memberships, job, memory, given, dismissed>>

-----------------------------------------------------------------------------
IsUsable(i) == i.accepted_by = None /\ now < i.expires_at

\* Mutant: the address of the account is not compared.
PresentAny(r) ==
    /\ At(r, "accept", "start") /\ User(r) # None
    /\ invitations[job[r].token] # None /\ IsUsable(invitations[job[r].token])
    /\ invitation' = [invitation EXCEPT ![r] = invitations[job[r].token]]
    /\ Goto(r, "usable")
    /\ UNCHANGED <<now, tables, job, membership, orphaned, given, dismissed>>

\* The view's tests, and the first of accept_invitation.
Present(r) ==
    /\ At(r, "accept", "start")
    /\ LET i == invitations[job[r].token]
           mine == i # None /\ User(r) # None /\ i.address = AddressOf[User(r)]
       IN  \/ User(r) = None /\ Reply(r, "denied")
           \/ User(r) # None /\ i = None /\ Reply(r, "missing")
           \/ User(r) # None /\ i # None /\ ~mine /\ Reply(r, "denied")
           \/ mine /\ ~IsUsable(i) /\ Reply(r, "refused")
           \/ /\ mine /\ IsUsable(i)
              /\ invitation' = [invitation EXCEPT ![r] = i]
              /\ Goto(r, "usable")
              /\ UNCHANGED <<now, tables, job, membership, orphaned, given, dismissed>>

\* get_or_create reads the membership, ...
ReadMembership(r) ==
    /\ pc[r] = "usable"
    /\ membership' = [membership EXCEPT ![r] = memberships[User(r)]]
    /\ Goto(r, IF memberships[User(r)] = None THEN "absent" ELSE "present")
    /\ UNCHANGED <<now, tables, job, invitation, orphaned, given, dismissed>>

\* The invitation is marked, whatever it has become, and the transaction commits.
Accepted(r) ==
    /\ invitations' = [invitations EXCEPT ![job[r].token] =
                           [@ EXCEPT !.accepted_by = User(r)]]
    /\ Goto(r, "ok")
    /\ UNCHANGED <<now, job, memory, given, dismissed>>

Invited(r) == [role |-> invitation[r].role, is_active |-> TRUE]

\* Mutant: the invitation is marked first, outside any transaction.
SpendFirst(r) ==
    /\ pc[r] = "absent"
    /\ \/ /\ invitations[job[r].token].accepted_by # User(r)
          /\ invitations' = [invitations EXCEPT ![job[r].token] =
                                 [@ EXCEPT !.accepted_by = User(r)]]
          /\ UNCHANGED <<now, memberships, job, pc, memory, given, dismissed>>
       \/ /\ invitations[job[r].token].accepted_by = User(r)
          /\ memberships' = [memberships EXCEPT ![User(r)] = Invited(r)]
          /\ Goto(r, "ok")
          /\ UNCHANGED <<now, invitations, job, memory, given, dismissed>>

\* ... creates it, having waited for a rival's creation, or takes the rival's;
CreateMembership(r) ==
    /\ pc[r] = "absent"
    /\ \/ /\ memberships[User(r)] = None
          /\ memberships' = [memberships EXCEPT ![User(r)] = Invited(r)]
          /\ Accepted(r)
       \/ /\ memberships[User(r)] # None
          /\ membership' = [membership EXCEPT ![r] = memberships[User(r)]]
          /\ Goto(r, "present")
          /\ UNCHANGED <<now, tables, job, invitation, orphaned, given, dismissed>>

\* one that has another role gets this one, and is active again: save() with
\* update_fields makes it an error that the row read is gone, another one or not.
UpdateMembership(r) ==
    /\ pc[r] = "present"
    /\ LET changes == membership[r].role # invitation[r].role
       IN  \/ ~changes /\ Accepted(r) /\ UNCHANGED memberships
           \/ changes /\ r \in orphaned /\ Reply(r, "error")
           \/ /\ changes /\ r \notin orphaned
              /\ memberships' = [memberships EXCEPT ![User(r)] = Invited(r)]
              /\ Accepted(r)

Crash(r) == pc[r] \notin Answer /\ Reply(r, "lost")

-----------------------------------------------------------------------------
\* The admin site adds, changes and deletes memberships; a form opened before a
\* deletion inserts the very row again.
EditMembership ==
    \E u \in Account, row \in OrganizationMembership :
        /\ <<u, row>> \in AdminRows
        /\ memberships' = [memberships EXCEPT ![u] = row]
        /\ given' = [given EXCEPT ![u] = @ \cup {row.role}]
        /\ \/ orphaned' = orphaned
           \/ memberships[u] = None /\ orphaned' = {r \in orphaned : User(r) # u}
        /\ UNCHANGED <<now, invitations, job, pc, invitation, membership, dismissed>>

RemoveMembership ==
    \E u \in Account :
        /\ memberships[u] # None
        /\ memberships' = [memberships EXCEPT ![u] = None]
        /\ orphaned' = orphaned \cup {r \in Request : pc[r] = "present" /\ User(r) = u}
        /\ dismissed' = dismissed \cup {u}
        /\ UNCHANGED <<now, invitations, job, pc, invitation, membership, given>>

Tick ==
    /\ now < MaxNow /\ now' = now + 1
    /\ UNCHANGED <<tables, job, pc, memory, given, dismissed>>

Next == \/ \E r \in Request :
              \/ Permit(r) \/ Invite(r) \/ Present(r) \/ ReadMembership(r)
              \/ CreateMembership(r) \/ UpdateMembership(r) \/ Crash(r)
        \/ EditMembership \/ RemoveMembership \/ Tick

Spec == Init /\ [][Next]_vars

-----------------------------------------------------------------------------
(* Properties. *)

\* However acceptances, edits and expiries interleave, nobody holds a role that
\* was not offered: it was given in the admin site, or by an invitation to the
\* account's address that is marked as accepted.
RoleGranted ==
    \A u \in Account : memberships[u] # None =>
        \/ memberships[u].role \in given[u]
        \/ \E t \in Token :
              /\ invitations[t] # None /\ invitations[t].accepted_by # None
              /\ invitations[t].address = AddressOf[u]
              /\ invitations[t].role = memberships[u].role

\* An invitation is not spent for nothing: the account it names as having
\* accepted it is a member, whatever dies part-way, unless its membership was
\* deleted in the admin site.
SpentLetsIn ==
    \A t \in Token :
        invitations[t] # None /\ invitations[t].accepted_by # None =>
            \/ memberships[invitations[t].accepted_by] # None
            \/ invitations[t].accepted_by \in dismissed

=============================================================================
