------------------------------ MODULE Accounts ------------------------------
(***************************************************************************)
(* Registration, login, verification of an email, reset of a password and    *)
(* update of a profile (accounts/views.py, serializers.py), statement by      *)
(* statement; every statement commits by itself.  A profile update saves the   *)
(* whole row as the authentication loaded it.                                *)
(*                                                                         *)
(* What a request makes (an account, a verification token, a password hash,   *)
(* which is salted and so never the same twice) is named by the request.      *)
(* Usernames, which end in a random suffix, are left out, and a profile update *)
(* is taken not to change the email.                                        *)
(***************************************************************************)
EXTENDS Naturals

CONSTANTS
    Request, Jobs,      \* the HTTP requests, and what they may ask for
    Founder, Seeds,     \* the accounts to start from; each has a token, and a link
    Email, Normalized,  \* what people type, and what normalize_email makes of it
    VerifyTicks,        \* how long a verification token is valid,
    ResetTicks,         \* and a link to reset a password
    None,
    MaxNow              \* bound: the clock stops here

Pk == Founder \cup Request      \* accounts, tokens, and passwords by who set them

User == [email : Email, password : Pk, last_login : Nat \cup {None},
         terms_accepted : BOOLEAN, email_verified : BOOLEAN]
EmailVerificationToken == [user : Pk, expires_at : Nat, used : BOOLEAN]

\* What default_token_generator hashes, and when.
Link == [user : Pk, email : Email, password : Pk, last_login : Nat \cup {None}, made_at : Nat]

Job == [op : {"register"}, email : Email, accept : BOOLEAN]
       \cup [op : {"login", "resend", "forgot"}, email : Email]
       \cup [op : {"verify", "reset", "profile"}]

ASSUME AccountsAssumption ==
    /\ Jobs \subseteq Job
    /\ Normalized \in [Email -> Email]
    /\ \A e \in Email : Normalized[Normalized[e]] = Normalized[e]
    /\ Seeds \in [Founder -> {u \in User : Normalized[u.email] = u.email}]
    /\ \A f, g \in Founder : Seeds[f].email = Seeds[g].email => f = g
    /\ \A f \in Founder : Seeds[f].password = f /\ ~Seeds[f].email_verified
                          /\ Seeds[f].terms_accepted
    /\ {VerifyTicks, ResetTicks, MaxNow} \subseteq Nat
    /\ Founder \cap Request = {}
    /\ None \notin Pk \cup User \cup EmailVerificationToken \cup Link
    /\ Pk \cap Link = {}

VARIABLES
    now,
    users, tokens,      \* tables: the row of each account, and of each token, or None
    recorded,           \* tables: the requests that have a LoginHistory, or an AuditLog
    mail,               \* the verification tokens, and the links, that were mailed
    job, pc,            \* what each request asks for; where its handler is, or its answer
    dead,               \* the requests whose worker has died
    account,            \* the account the handler works on
    held,               \* the token, the link or the row that it holds
    overwritten         \* auxiliary: the accounts an out-of-date copy was saved over

tables == <<users, tokens, recorded>>
memory == <<account, held>>
world  == <<now, job, dead, overwritten>>
vars   == <<world, tables, mail, pc, memory>>

Answer == {"ok", "missing", "refused", "error"}

Linked(u, row) == [user |-> u, email |-> row.email, password |-> row.password,
                   last_login |-> row.last_login, made_at |-> now]

Init ==
    /\ now = 0
    /\ users = [u \in Pk |-> IF u \in Founder THEN Seeds[u] ELSE None]
    /\ tokens = [t \in Pk |->
          IF t \in Founder THEN [user |-> t, expires_at |-> VerifyTicks, used |-> FALSE]
          ELSE None]
    /\ recorded = {}
    /\ mail = Founder \cup {Linked(f, Seeds[f]) : f \in Founder}
    /\ job \in [Request -> Jobs]
    /\ pc = [r \in Request |-> "start"]
    /\ dead = {}
    /\ account = [r \in Request |-> None]
    /\ held = [r \in Request |-> None]
    /\ overwritten = {}

-----------------------------------------------------------------------------
At(r, op, label) == job[r].op = op /\ pc[r] = label
Goto(r, label) == pc' = [pc EXCEPT ![r] = label]
Reply(r, answer) == Goto(r, answer) /\ UNCHANGED <<world, tables, mail, memory>>

\* The handler goes on with the account u, and holds x.
TakeUp(r, u, x, label) ==
    /\ account' = [account EXCEPT ![r] = u] /\ held' = [held EXCEPT ![r] = x]
    /\ Goto(r, label) /\ UNCHANGED <<world, tables, mail>>

\* filter(email=email).first(): exactly this email.
With(email) == {u \in Pk : users[u] # None /\ users[u].email = email}

\* save(update_fields=...) of the account, of which nothing else changes.
Save(r, row, label) ==
    IF users[account[r]] = None
    THEN Reply(r, "error")
    ELSE /\ users' = [users EXCEPT ![account[r]] = row]
         /\ Goto(r, label) /\ UNCHANGED <<world, tokens, recorded, mail, memory>>

\* EmailVerificationToken.objects.create, for the same account.
Issue(r, label) ==
    IF users[account[r]] = None
    THEN Reply(r, "error")
    ELSE /\ tokens' = [tokens EXCEPT ![r] =
                [user |-> account[r], expires_at |-> now + VerifyTicks, used |-> FALSE]]
         /\ Goto(r, label) /\ UNCHANGED <<world, users, recorded, mail, memory>>

Record(r) ==
    /\ recorded' = recorded \cup {r}
    /\ Goto(r, "ok") /\ UNCHANGED <<world, users, tokens, mail, memory>>

-----------------------------------------------------------------------------
(* Registration. *)

\* The serializer's own test of the email is of what was typed.
ValidateRegistration(r) ==
    /\ At(r, "register", "start")
    /\ Reply(r, IF With(job[r].email) = {} /\ job[r].accept THEN "valid" ELSE "refused")

NewUser(r) ==
    [email |-> Normalized[job[r].email], password |-> r, last_login |-> None,
     terms_accepted |-> FALSE, email_verified |-> FALSE]

\* Mutant: the table's constraint is on what was typed.
UniqueTyped(r) == With(job[r].email) = {}

\* User.email is unique in the table.
Unique(r) == With(Normalized[job[r].email]) = {}

CreateUser(r) ==
    /\ At(r, "register", "valid")
    /\ \/ ~Unique(r) /\ Reply(r, "error")
       \/ /\ Unique(r)
          /\ users' = [users EXCEPT ![r] = NewUser(r)]
          /\ account' = [account EXCEPT ![r] = r]
          /\ Goto(r, "created")
          /\ UNCHANGED <<world, tokens, recorded, mail, held>>

\* Mutant: the acceptance is never saved.
ForgetTerms(r) == pc[r] = "created" /\ Reply(r, "accepted")

AcceptTerms(r) ==
    /\ pc[r] = "created"
    /\ Save(r, [users[account[r]] EXCEPT !.terms_accepted = TRUE], "accepted")

\* No mail goes out at registration.
IssueFirst(r) == pc[r] = "accepted" /\ Issue(r, "ok")

-----------------------------------------------------------------------------
(* Verification. *)

FindUnverified(r) ==
    /\ At(r, "resend", "start")
    /\ \/ /\ \A u \in With(job[r].email) : users[u].email_verified
          /\ Reply(r, "ok")
       \/ \E u \in With(job[r].email) :
             ~users[u].email_verified /\ TakeUp(r, u, None, "found")

IssueAgain(r) == At(r, "resend", "found") /\ Issue(r, "issued")

\* send_mail may fail, having sent the mail or not.
Mail(r, x) ==
    \/ Reply(r, "error")
    \/ /\ mail' = mail \cup {x}
       /\ \E answer \in {"ok", "error"} : Goto(r, answer)
       /\ UNCHANGED <<world, tables, memory>>

MailToken(r) == pc[r] = "issued" /\ Mail(r, r)

IsValid(t) == ~tokens[t].used /\ now < tokens[t].expires_at

\* Whoever presents a token read it in a mail, or made it up.
Present(r) ==
    /\ At(r, "verify", "start")
    /\ \/ Reply(r, "missing")
       \/ \E t \in mail \cap Pk :
             /\ tokens[t] # None
             /\ \/ ~IsValid(t) /\ Reply(r, "refused")
                \/ IsValid(t) /\ TakeUp(r, tokens[t].user, t, "presented")

\* Mutant: used_at is set and not saved.
MarkUnsaved(r) == pc[r] = "presented" /\ Reply(r, "marked")

MarkUsed(r) ==
    /\ pc[r] = "presented"
    /\ LET t == held[r]
       IN  \/ tokens[t] = None /\ Reply(r, "error")
           \/ /\ tokens[t] # None
              /\ tokens' = [tokens EXCEPT ![t] = [@ EXCEPT !.used = TRUE]]
              /\ Goto(r, "marked")
              /\ UNCHANGED <<world, users, recorded, mail, memory>>

\* Mutant: email_verified is set on a copy that is not saved.
VerifyUnsaved(r) == pc[r] = "marked" /\ Reply(r, "verified")

VerifyUser(r) ==
    /\ pc[r] = "marked"
    /\ Save(r, [users[account[r]] EXCEPT !.email_verified = TRUE], "verified")

\* write_audit_log; the record refers to the account, which may have gone.
WriteAudit(r) ==
    /\ pc[r] = "verified"
    /\ IF users[account[r]] = None THEN Reply(r, "error") ELSE Record(r)

-----------------------------------------------------------------------------
(* Login. *)

\* Whether the password is right is left open.
Authenticate(r) ==
    /\ At(r, "login", "start")
    /\ \/ Reply(r, "refused")
       \/ \E u \in With(job[r].email) : TakeUp(r, u, None, "known")

\* UPDATE_LAST_LOGIN.
SaveLastLogin(r) ==
    /\ pc[r] = "known"
    /\ Save(r, [users[account[r]] EXCEPT !.last_login = now], "entered")

\* The account is looked for again by its email, and may go before the insert.
RecordLogin(r) ==
    /\ pc[r] = "entered"
    /\ IF With(job[r].email) = {}
       THEN \E answer \in {"ok", "error"} : Reply(r, answer)
       ELSE Record(r)

-----------------------------------------------------------------------------
(* Reset of a password. *)

Forgot(r) ==
    /\ At(r, "forgot", "start")
    /\ \/ With(job[r].email) = {} /\ Reply(r, "ok")
       \/ \E u \in With(job[r].email) : Mail(r, Linked(u, users[u]))

\* Mutant: the link does not depend on the password.
MatchesAnyPassword(l) ==
    /\ users[l.user] # None
    /\ Linked(l.user, users[l.user]).last_login = l.last_login
    /\ now - l.made_at <= ResetTicks

\* default_token_generator.check_token.
Matches(l) ==
    /\ users[l.user] # None
    /\ [Linked(l.user, users[l.user]) EXCEPT !.made_at = l.made_at] = l
    /\ now - l.made_at <= ResetTicks

CheckLink(r) ==
    /\ At(r, "reset", "start")
    /\ \/ Reply(r, "refused")
       \/ \E l \in mail \ Pk : Matches(l) /\ TakeUp(r, l.user, l, "checked")

SavePassword(r) ==
    /\ pc[r] = "checked"
    /\ Save(r, [users[account[r]] EXCEPT !.password = r], "ok")

-----------------------------------------------------------------------------
(* Profiles, the admin site, and the rest of the world. *)

LoggedIn(u) ==
    \/ u \in Founder
    \/ \E q \in Request : At(q, "login", "ok") /\ account[q] = u

\* The authentication loads the account; UserProfileSerializer gives it no column
\* the other handlers read.
LoadProfile(r) ==
    /\ At(r, "profile", "start")
    /\ \/ Reply(r, "refused")
       \/ \E u \in Pk : /\ users[u] # None /\ LoggedIn(u)
                        /\ TakeUp(r, u, users[u], "loaded")

\* save() writes every column, and inserts the row again if it has gone.
SaveProfile(r) ==
    /\ pc[r] = "loaded"
    /\ LET u == account[r]
       IN  IF users[u] = None /\ With(held[r].email) # {}
           THEN Reply(r, "error")
           ELSE /\ users' = [users EXCEPT ![u] = held[r]]
                /\ overwritten' = IF users[u] = held[r] THEN overwritten
                                  ELSE overwritten \cup {u}
                /\ Goto(r, "ok")
                /\ UNCHANGED <<now, job, dead, tokens, recorded, mail, memory>>

\* The admin site deletes an account, and with it its tokens and logins.
RemoveAccount ==
    \E u \in Pk :
        /\ users[u] # None
        /\ users' = [users EXCEPT ![u] = None]
        /\ tokens' = [t \in Pk |-> IF tokens[t] # None /\ tokens[t].user = u
                                   THEN None ELSE tokens[t]]
        /\ recorded' = {q \in recorded : job[q].op = "login" => account[q] # u}
        /\ UNCHANGED <<world, mail, pc, memory>>

Finished(r) == r \in dead \/ pc[r] \in Answer

Crash(r) ==
    /\ ~Finished(r) /\ dead' = dead \cup {r}
    /\ UNCHANGED <<now, job, overwritten, tables, mail, pc, memory>>

Tick ==
    /\ now < MaxNow /\ now' = now + 1
    /\ UNCHANGED <<job, dead, overwritten, tables, mail, pc, memory>>

Terminating == (\A r \in Request : Finished(r)) /\ UNCHANGED vars

Step(r) ==
    \/ ValidateRegistration(r) \/ CreateUser(r) \/ AcceptTerms(r) \/ IssueFirst(r)
    \/ FindUnverified(r) \/ IssueAgain(r) \/ MailToken(r)
    \/ Present(r) \/ MarkUsed(r) \/ VerifyUser(r) \/ WriteAudit(r)
    \/ Authenticate(r) \/ SaveLastLogin(r) \/ RecordLogin(r)
    \/ Forgot(r) \/ CheckLink(r) \/ SavePassword(r)
    \/ LoadProfile(r) \/ SaveProfile(r) \/ Crash(r)

Next == (\E r \in Request \ dead : Step(r)) \/ RemoveAccount \/ Tick \/ Terminating

Spec == Init /\ [][Next]_vars

-----------------------------------------------------------------------------
(* Properties. *)

Live == {u \in Pk : users[u] # None}

\* An email, as normalize_email leaves it, has one account, although two
\* registrations pass the serializer's test together, one may type it otherwise,
\* and an account that was deleted may be saved again.
EmailsUnique ==
    \A u \in Live : /\ Normalized[users[u].email] = users[u].email
                    /\ With(users[u].email) = {u}

\* A registration that was answered is whole, and an account has not accepted the
\* terms only while its registration is between two statements, or died there;
\* unless a profile update that began before has written the account back.
RegistrationWhole ==
    /\ \A u \in Live : \/ users[u].terms_accepted \/ u \in overwritten
                       \/ u \in Request /\ pc[u] = "created"
    /\ \A r \in Request : At(r, "register", "ok") =>
          r \notin Live \/ r \in overwritten \/ tokens[r] # None

\* A token is used up for the good of its account: that is verified, unless the
\* request is between the two statements, or died there, or a profile update that
\* began before has written the account back.
SpentVerifies ==
    \A t \in Pk : tokens[t] # None /\ tokens[t].used =>
        LET u == tokens[t].user
        IN  /\ u \in Live
            /\ \/ users[u].email_verified \/ u \in overwritten
               \/ \E r \in Request : pc[r] = "marked" /\ held[r] = t

\* An account is verified only by a token that was mailed to it and is used up,
\* in a request that is recorded in the audit log or has still to be, having died
\* or not; unless an earlier copy of the account was saved.
VerifiedByMail ==
    \A u \in Live : users[u].email_verified =>
        \/ u \in overwritten
        \/ \E r \in Request :
              /\ account[r] = u /\ (r \in recorded \/ pc[r] = "verified")
              /\ held[r] \in mail
              /\ tokens[held[r]] # None
              /\ tokens[held[r]].used /\ tokens[held[r]].user = u

\* A link whose reset was saved is refused from then on, whatever else is reset
\* and whoever logs in, unless a profile update that began before has written the
\* old password back.
Used(l) == \E q \in Request : At(q, "reset", "ok") /\ held[q] = l

LinkOnce ==
    [][\A r \in Request : pc[r] = "start" /\ pc'[r] = "checked" =>
          ~Used(held'[r]) \/ account'[r] \in overwritten]_vars

=============================================================================
