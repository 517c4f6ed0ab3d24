-------------------------- MODULE Accounts_proofs --------------------------
(***************************************************************************)
(* For any emails, accounts and number of requests: an email has one account, *)
(* a registration is whole, a token verifies its account and only a mailed one *)
(* does, and a link resets a password once.                                 *)
(***************************************************************************)
EXTENDS Accounts, TLAPS

PC == {"start", "valid", "created", "accepted", "found", "issued", "presented", "marked",
       "verified", "known", "entered", "checked", "loaded"} \cup Answer

Typed ==
    /\ now \in Nat
    /\ users \in [Pk -> User \cup {None}]
    /\ tokens \in [Pk -> EmailVerificationToken \cup {None}]
    /\ mail \subseteq Pk \cup Link
    /\ job \in [Request -> Jobs]
    /\ pc \in [Request -> PC]
    /\ account \in [Request -> Pk \cup {None}]
    /\ held \in [Request -> Pk \cup User \cup Link \cup {None}]

\* An account, and a password, of a request: it has been made.
Made(u)   == u \in Request => job[u].op = "register" /\ pc[u] \notin {"start", "valid"}
SetOnce(p) == Made(p) \/ At(p, "reset", "ok")

\* No handler changes the email an account was made with.
EmailOf(u) == IF u \in Founder THEN Seeds[u].email ELSE Normalized[job[u].email]

\* A row of the account u, in the table or held by a profile update.
RowOf(row, u) == /\ row \in User /\ Made(u)
                 /\ row.email = EmailOf(u) /\ SetOnce(row.password)

Spent(t, u) == tokens[t] # None /\ tokens[t].used /\ tokens[t].user = u

\* Where the handler of each operation can be, and what it works on.
Stage(r) ==
    /\ pc[r] \in {"valid", "created", "accepted"} => job[r].op = "register"
    /\ pc[r] \in {"found", "issued"} => job[r].op = "resend"
    /\ pc[r] \in {"presented", "marked", "verified"} => job[r].op = "verify"
    /\ pc[r] \in {"known", "entered"} => job[r].op = "login"
    /\ pc[r] = "checked" => job[r].op = "reset"
    /\ pc[r] = "loaded" => job[r].op = "profile"
    /\ pc[r] \notin {"start", "valid"} \cup Answer => account[r] \in Pk
    /\ pc[r] \in {"created", "accepted"} => account[r] = r
    /\ account[r] # None => Made(account[r])
    /\ r \in recorded => pc[r] = "ok"

Holds(r) ==
    /\ pc[r] = "loaded" => RowOf(held[r], account[r])
    /\ pc[r] \in {"known", "entered"} => held[r] = None
    /\ r \in recorded => held[r] \in Pk \cup {None}
    /\ pc[r] \in {"presented", "marked", "verified"} => held[r] \in mail \cap Pk
    /\ pc[r] \in {"presented", "marked"} /\ tokens[held[r]] # None =>
          tokens[held[r]].user = account[r]
    /\ pc[r] = "marked" /\ account[r] \in Live \ overwritten => Spent(held[r], account[r])
    /\ pc[r] = "checked" \/ At(r, "reset", "ok") =>
          held[r] \in mail \cap Link /\ account[r] = held[r].user

\* A link that has been used does not match the account, if that is still there.
Stale(r) ==
    At(r, "reset", "ok") /\ account[r] \in Live \ overwritten =>
        users[account[r]].password # held[r].password

Row(u) == users[u] # None => RowOf(users[u], u)

Token(t) ==
    tokens[t] # None =>
        /\ tokens[t].user \in Live
        /\ t \in Request /\ job[t].op = "register" => tokens[t].user = t

\* What was mailed had been made.
Mailed(x) == /\ x \in Request => pc[x] \in {"ok", "error"}
             /\ x \in Link => SetOnce(x.password)

IInv == /\ Typed
        /\ \A r \in Request : Stage(r) /\ Holds(r) /\ Stale(r)
        /\ \A u \in Pk : Row(u) /\ Token(u)
        /\ \A x \in mail : Mailed(x)
        /\ EmailsUnique /\ RegistrationWhole /\ SpentVerifies /\ VerifiedByMail

-----------------------------------------------------------------------------
(* What a step leaves to the other requests. *)

Move(r, label) ==
    /\ pc[r] \notin Answer /\ Goto(r, label) /\ job' = job
    /\ label # "start" /\ (label = "valid" => pc[r] = "start")

Matures == \A p \in Pk : (Made(p) => Made(p)') /\ (SetOnce(p) => SetOnce(p)')

LEMMA MoveMatures ==
    ASSUME Typed, NEW r \in Request, NEW label \in PC, Move(r, label)
    PROVE  /\ Matures /\ pc'[r] = label
           /\ \A q \in Request : q # r => pc'[q] = pc[q]
           /\ \A u : EmailOf(u)' = EmailOf(u)
BY DEF Typed, Move, Goto, Answer, Matures, Made, SetOnce, At, EmailOf

\* Mailed tokens are not made anew, and are not taken from an account that stays.
TokensLast ==
    /\ \A t \in mail \cap Pk : tokens'[t] # None =>
          /\ tokens[t] # None /\ tokens'[t].user = tokens[t].user
          /\ tokens[t].used => tokens'[t].used
    /\ \A t \in mail \cap Pk : \A u \in Live' \ overwritten' : Spent(t, u) => tokens'[t] # None

\* An account that is not overwritten keeps its password, or gets a fresh one.
UsersLast ==
    \A u \in Live' \ overwritten' : Made(u) =>
        /\ u \in Live \ overwritten
        /\ users'[u].password = users[u].password \/ ~SetOnce(users'[u].password)

LEMMA NoneApart == \A u \in Pk : u # None
BY AccountsAssumption

LEMMA NoneMailed == IInv => None \notin mail
BY AccountsAssumption DEF IInv, Typed

LEMMA OthersKeep ==
    ASSUME IInv, Matures, TokensLast, UsersLast, mail \subseteq mail', job' = job,
           NEW q \in Request, pc'[q] = pc[q], account'[q] = account[q], held'[q] = held[q],
           q \in recorded' => q \in recorded
    PROVE  Stage(q)' /\ Holds(q)' /\ Stale(q)'
<1>1. Stage(q) /\ Holds(q) /\ Stale(q) /\ account[q] \in Pk \cup {None}
  BY DEF IInv, Typed
<1>2. Stage(q)'
  BY <1>1 DEF Stage, Matures
<1>3. \A row, u : RowOf(row, u) /\ u \in Pk => RowOf(row, u)'
  BY DEF RowOf, Matures, EmailOf, User
<1>4. Holds(q)'
  <2>1. pc'[q] = "loaded" => RowOf(held[q], account[q])'
    BY <1>1, <1>3 DEF Holds, Stage, Answer
  <2>2. pc'[q] = "marked" /\ account[q] \in Live' \ overwritten' => Spent(held[q], account[q])'
    <3> SUFFICES ASSUME pc[q] = "marked", account[q] \in Live' \ overwritten'
                 PROVE  Spent(held[q], account[q])'
      OBVIOUS
    <3>1. account[q] \in Live \ overwritten /\ held[q] \in mail \cap Pk
      BY <1>1, NoneApart DEF Stage, Holds, UsersLast, Live
    <3>2. Spent(held[q], account[q])
      BY <1>1, <3>1 DEF Holds
    <3> QED
      BY <3>1, <3>2 DEF TokensLast, Spent
  <2> QED
    BY <1>1, <2>1, <2>2 DEF Holds, At, TokensLast
<1>5. Stale(q)'
  <2> SUFFICES ASSUME At(q, "reset", "ok"), account[q] \in Live' \ overwritten'
               PROVE  users'[account[q]].password # held[q].password
    BY DEF Stale, At
  <2>1. held[q] \in mail \cap Link /\ SetOnce(held[q].password)
    BY <1>1 DEF Holds, IInv, Mailed
  <2>2. account[q] \in Pk /\ Made(account[q])
    BY <1>1, NoneApart DEF Stage, Live
  <2> QED
    BY <1>1, <2>1, <2>2 DEF UsersLast, Stale
<1> QED
  BY <1>2, <1>4, <1>5

\* The same tables tell the same of the accounts.
LEMMA SameTables ==
    ASSUME IInv, UNCHANGED <<users, tokens, overwritten>>
    PROVE  TokensLast /\ UsersLast /\ Live' = Live
BY DEF TokensLast, UsersLast, Live, Spent, IInv, Typed

LEMMA RowsKeep ==
    ASSUME IInv, Matures, job' = job, NEW u \in Pk, users'[u] = users[u]
    PROVE  Row(u)'
BY DEF IInv, Row, RowOf, Matures, EmailOf, User

-----------------------------------------------------------------------------
(* Steps that change no table. *)

LEMMA StillKeeps ==
    ASSUME IInv, now' \in Nat,
           UNCHANGED <<users, tokens, recorded, mail, job, overwritten, pc, account, held>>
    PROVE  IInv'
<1>1. Live' = Live
  BY DEF Live
<1>2. Typed'
  BY DEF IInv, Typed
<1>3. \A r \in Request : Stage(r)' /\ Holds(r)' /\ Stale(r)'
  BY <1>1 DEF IInv, Stage, Holds, Stale, RowOf, Made, SetOnce, EmailOf, Spent, At
<1>4. (\A u \in Pk : Row(u)' /\ Token(u)') /\ \A x \in mail : Mailed(x)'
  BY <1>1 DEF IInv, Row, RowOf, Token, Mailed, Made, SetOnce, EmailOf, At
<1>5. EmailsUnique' /\ RegistrationWhole' /\ SpentVerifies' /\ VerifiedByMail'
  BY <1>1 DEF IInv, EmailsUnique, With, RegistrationWhole, SpentVerifies, VerifiedByMail, At
<1> QED
  BY <1>2, <1>3, <1>4, <1>5 DEF IInv

LEMMA QuietKeeps ==
    ASSUME IInv, Typed', UNCHANGED <<users, tokens, recorded, mail, overwritten>>,
           NEW r \in Request, NEW label \in PC, Move(r, label),
           \A q \in Request : q # r => account'[q] = account[q] /\ held'[q] = held[q],
           Stage(r)', Holds(r)', Stale(r)',
           pc[r] = "created" => r \notin Live,
           pc[r] \in {"marked", "verified"} => account[r] \notin Live,
           job[r].op = "register" => label # "ok"
    PROVE  IInv'
<1>1. /\ Matures /\ pc'[r] = label /\ job' = job /\ pc[r] \notin Answer
      /\ \A q \in Request : q # r => pc'[q] = pc[q]
  BY MoveMatures DEF IInv, Move
<1>2. TokensLast /\ UsersLast /\ Live' = Live
  BY SameTables
<1>3. \A q \in Request : Stage(q)' /\ Holds(q)' /\ Stale(q)'
  BY <1>1, <1>2, OthersKeep
<1>4. \A u \in Pk : Row(u)' /\ Token(u)'
  <2>1. \A u \in Pk : Row(u)'
    BY <1>1, RowsKeep
  <2> QED
    BY <1>1, <1>2, <2>1 DEF IInv, Token
<1>5. \A x \in mail' : Mailed(x)'
  BY <1>1 DEF IInv, Typed, Mailed, Matures, Link, Answer
<1>6. EmailsUnique'
  BY <1>2 DEF IInv, EmailsUnique, With
<1>7. RegistrationWhole'
  BY <1>1, <1>2 DEF IInv, RegistrationWhole, At
<1>8. SpentVerifies'
  BY <1>1, <1>2 DEF IInv, SpentVerifies, Token, Holds
<1>9. VerifiedByMail'
  BY <1>1, <1>2 DEF IInv, VerifiedByMail, Stage, Answer
<1> QED
  BY <1>3, <1>4, <1>5, <1>6, <1>7, <1>8, <1>9 DEF IInv

LEMMA ReplyKeeps ==
    ASSUME IInv, NEW r \in Request, NEW label \in Answer \cup {"valid"},
           pc[r] \notin Answer, Reply(r, label),
           label = "valid" => pc[r] = "start" /\ job[r].op = "register",
           label = "ok" => job[r].op \notin {"register", "reset"},
           pc[r] = "created" => r \notin Live,
           pc[r] \in {"marked", "verified"} => account[r] \notin Live
    PROVE  IInv'
<1>1. Move(r, label) /\ label \in PC
  BY DEF Move, Reply, world, PC, Answer
<1>2. /\ UNCHANGED <<now, users, tokens, recorded, mail, overwritten, account, held, job>>
      /\ Typed'
  BY <1>1 DEF IInv, Typed, Reply, Goto, world, tables, memory
<1>3. Matures /\ pc'[r] = label
  BY <1>1, MoveMatures DEF IInv
<1>4. Stage(r)' /\ Holds(r)' /\ Stale(r)'
  BY <1>2, <1>3 DEF IInv, Typed, Stage, Holds, Stale, Matures, Answer, At
<1> QED
  BY <1>1, <1>2, <1>4, QuietKeeps, SameTables

LEMMA TakeUpKeeps ==
    ASSUME IInv, NEW r \in Request, NEW u \in Pk, NEW x \in Pk \cup User \cup Link \cup {None},
           NEW label \in PC, TakeUp(r, u, x, label), pc[r] = "start", Made(u),
           label \notin {"start", "valid", "created", "accepted", "marked"} \cup Answer,
           (Stage(r) /\ Holds(r))'
    PROVE  IInv'
<1>1. Move(r, label)
  BY DEF Move, TakeUp, world, Answer
<1>2. /\ UNCHANGED <<now, users, tokens, recorded, mail, overwritten, job>>
      /\ Typed' /\ \A q \in Request : q # r => account'[q] = account[q] /\ held'[q] = held[q]
  BY <1>1 DEF IInv, Typed, TakeUp, Goto, world, tables
<1>3. Stale(r)'
  BY <1>1, MoveMatures DEF IInv, Stale, At, Answer
<1> QED
  BY <1>1, <1>2, <1>3, QuietKeeps DEF Answer

-----------------------------------------------------------------------------
(* Steps that save a row of the account the handler works on. *)

\* A save changes the columns it names: never the email, and only to accept, to verify,
\* or to set a password of its own.
Saving(r, label) ==
    \/ pc[r] = "created" /\ label = "accepted"
    \/ pc[r] = "known"   /\ label = "entered"
    \/ pc[r] = "marked"  /\ label = "verified"
    \/ pc[r] = "checked" /\ label = "ok"

LEMMA SaveKeeps ==
    ASSUME IInv, NEW r \in Request, NEW label \in PC, Saving(r, label),
           account[r] \in Live, NEW row \in User,
           users' = [users EXCEPT ![account[r]] = row], Goto(r, label),
           UNCHANGED <<world, tokens, recorded, mail, memory>>,
           row.email = users[account[r]].email,
           users[account[r]].terms_accepted \/ pc[r] = "created" => row.terms_accepted,
           row.email_verified <=> users[account[r]].email_verified \/ pc[r] = "marked",
           row.password = IF pc[r] = "checked" THEN r ELSE users[account[r]].password
    PROVE  IInv'
<1> DEFINE u == account[r]
<1>0. Move(r, label)
  BY DEF Saving, Move, Answer, world
<1>1. /\ Matures /\ pc'[r] = label /\ pc[r] \notin Answer
      /\ \A q \in Request : q # r => pc'[q] = pc[q]
  BY <1>0, MoveMatures DEF IInv, Move
<1>2. /\ UNCHANGED <<now, job, overwritten, tokens, recorded, mail, account, held>>
      /\ u \in Pk /\ users[u] # None /\ row # None
      /\ users'[u] = row /\ \A v \in Pk : v # u => users'[v] = users[v]
  BY AccountsAssumption DEF world, memory, Live, IInv, Typed
<1>3. Live' = Live
  BY <1>2 DEF Live
<1>4. Typed'
  BY <1>1, <1>2 DEF IInv, Typed, Goto
<1>5. Stage(r) /\ Holds(r) /\ Stale(r) /\ RowOf(users[u], u)
  BY <1>2 DEF IInv, Row
<1>6. pc[r] = "checked" => ~SetOnce(r) /\ \A x \in mail \cap Link : x.password # r
  <2>1. pc[r] = "checked" => ~SetOnce(r)
    BY <1>5 DEF Stage, SetOnce, Made, At
  <2> QED
    BY <2>1 DEF IInv, Mailed
<1>7. UsersLast /\ TokensLast
  BY <1>1, <1>2, <1>3, <1>6 DEF UsersLast, TokensLast, Live, Spent
<1>8. \A q \in Request : q # r => Stage(q)' /\ Holds(q)' /\ Stale(q)'
  BY <1>1, <1>2, <1>7, OthersKeep
<1>9. Stage(r)' /\ Holds(r)' /\ Stale(r)'
  <2>1. Stage(r)'
    BY <1>1, <1>2, <1>5 DEF Saving, Stage, Matures, Answer
  <2>2. CASE label = "ok"
    <3>1. pc[r] = "checked" /\ row.password = r /\ job[r].op = "reset"
      BY <1>5, <2>2 DEF Saving, Stage
    <3> QED
      BY <1>1, <1>2, <1>5, <1>6, <2>1, <2>2, <3>1 DEF Holds, Stale, At
  <2>3. CASE label # "ok"
    BY <1>1, <1>2, <1>5, <2>1, <2>3 DEF Saving, Holds, Stale, At
  <2> QED
    BY <2>1, <2>2, <2>3
<1>10. \A v \in Pk : Row(v)' /\ Token(v)'
  <2>1. ASSUME NEW v \in Pk, v # u
        PROVE  Row(v)'
    BY <1>2, <2>1, <1>1, RowsKeep
  <2>2. SetOnce(row.password)'
    <3>1. CASE pc[r] = "checked"
      BY <1>1, <1>2, <1>5, <3>1 DEF Saving, Stage, SetOnce, At
    <3>2. CASE pc[r] # "checked"
      BY <1>1, <1>5, <3>2 DEF RowOf, Matures, User
    <3> QED
      BY <3>1, <3>2
  <2>3. Row(u)'
    BY <1>1, <1>2, <1>5, <2>2 DEF Row, RowOf, Matures, EmailOf
  <2>4. \A v \in Pk : Token(v)'
    BY <1>2, <1>3 DEF IInv, Token
  <2>5. ASSUME NEW v \in Pk
        PROVE  Row(v)'
    BY <1>2, <2>1, <2>3, <2>5
  <2> QED
    BY <2>4, <2>5
<1>11. \A x \in mail' : Mailed(x)'
  BY <1>1, <1>2 DEF IInv, Typed, Mailed, Matures, Link, Answer
<1>12. EmailsUnique'
  BY <1>2, <1>3 DEF IInv, EmailsUnique, With, Live
<1>13. RegistrationWhole'
  <2>1. pc[r] = "created" => u = r
    BY <1>5 DEF Stage
  <2>2. job[r].op = "register" => label # "ok"
    BY <1>5 DEF Saving, Stage
  <2> QED
    BY <1>1, <1>2, <1>3, <2>1, <2>2 DEF IInv, RegistrationWhole, At, Live
<1>14. SpentVerifies'
  <2> SUFFICES ASSUME NEW t \in Pk, tokens[t] # None, tokens[t].used,
                      ~users'[tokens[t].user].email_verified, tokens[t].user \notin overwritten
               PROVE  \E q \in Request : pc'[q] = "marked" /\ held[q] = t
    BY <1>2, <1>3 DEF SpentVerifies, IInv, Token
  <2>1. tokens[t].user \in Live /\ ~users[tokens[t].user].email_verified
    BY <1>2 DEF IInv, Token, Live
  <2>2. PICK q \in Request : pc[q] = "marked" /\ held[q] = t
    BY <2>1 DEF IInv, SpentVerifies
  <2>3. q # r
    BY <1>2, <1>5, <2>2 DEF Holds
  <2> QED
    BY <1>1, <2>2, <2>3
<1>15. VerifiedByMail'
  <2> SUFFICES ASSUME NEW v \in Live, users'[v].email_verified, v \notin overwritten
               PROVE  \E q \in Request :
                         /\ account[q] = v /\ (q \in recorded \/ pc'[q] = "verified")
                         /\ held[q] \in mail /\ Spent(held[q], v)
    BY <1>2, <1>3 DEF VerifiedByMail, Spent
  <2>1. CASE pc[r] = "marked" /\ v = u
    BY <1>1, <1>5, <2>1 DEF Saving, Holds
  <2>2. CASE ~(pc[r] = "marked" /\ v = u)
    <3>1. users[v].email_verified
      BY <1>2, <2>2 DEF Live
    <3>2. PICK q \in Request :
                   /\ account[q] = v /\ (q \in recorded \/ pc[q] = "verified")
                   /\ held[q] \in mail /\ Spent(held[q], v)
      BY <3>1 DEF IInv, VerifiedByMail, Spent
    <3> QED
      BY <1>1, <3>2 DEF Saving
  <2> QED
    BY <2>1, <2>2
<1> QED
  BY <1>2, <1>4, <1>8, <1>9, <1>10, <1>11, <1>12, <1>13, <1>14, <1>15 DEF IInv

-----------------------------------------------------------------------------
(* Steps that make, mail or spend a token. *)

LEMMA IssueKeeps ==
    ASSUME IInv, NEW r \in Request, account[r] \in Live,
           NEW token \in EmailVerificationToken, token.user = account[r], ~token.used,
           tokens' = [tokens EXCEPT ![r] = token], NEW label \in PC, Goto(r, label),
           \/ pc[r] = "accepted" /\ label = "ok"
           \/ pc[r] = "found" /\ label = "issued",
           UNCHANGED <<world, users, recorded, mail, memory>>
    PROVE  IInv'
<1>0. Move(r, label)
  BY DEF Move, Answer, world
<1>1. /\ Matures /\ pc'[r] = label /\ pc[r] \notin Answer
      /\ \A q \in Request : q # r => pc'[q] = pc[q]
  BY <1>0, MoveMatures DEF IInv, Move
<1>2. UNCHANGED <<now, job, overwritten, users, recorded, mail, account, held>>
  BY DEF world, memory
<1>3. /\ Live' = Live /\ r \in Pk /\ token # None /\ tokens'[r] = token
      /\ \A t \in Pk : t # r => tokens'[t] = tokens[t]
  BY <1>2, AccountsAssumption DEF Live, Pk, IInv, Typed
<1>4. r \notin mail
  BY <1>1 DEF IInv, Mailed, Answer
<1>5. Typed'
  BY <1>2, <1>3 DEF IInv, Typed, Goto
<1>6. Stage(r) /\ Holds(r)
  BY DEF IInv
<1>7. UsersLast /\ TokensLast
  BY <1>2, <1>3, <1>4 DEF UsersLast, TokensLast, Spent
<1>8. \A q \in Request : q # r => Stage(q)' /\ Holds(q)' /\ Stale(q)'
  BY <1>1, <1>2, <1>7, OthersKeep
<1>9. Stage(r)' /\ Holds(r)' /\ Stale(r)'
  BY <1>1, <1>2, <1>6 DEF Stage, Holds, Stale, Matures, At, Answer
<1>10. \A u \in Pk : Row(u)'
  BY <1>1, <1>2, RowsKeep
<1>11. \A t \in Pk : Token(t)'
  BY <1>2, <1>3, <1>6 DEF IInv, Token, Stage
<1>12. \A x \in mail' : Mailed(x)'
  BY <1>1, <1>2 DEF IInv, Typed, Mailed, Matures, Link, Answer
<1>13. EmailsUnique'
  BY <1>2, <1>3 DEF IInv, EmailsUnique, With
<1>14. RegistrationWhole'
  BY <1>1, <1>2, <1>3, <1>6 DEF IInv, RegistrationWhole, At
<1>15. SpentVerifies'
  BY <1>1, <1>2, <1>3 DEF IInv, SpentVerifies
<1>16. VerifiedByMail'
  <2>1. \A q \in Request : held[q] \in mail /\ (q \in recorded \/ pc[q] = "verified") =>
             held[q] \in Pk \ {r}
    BY <1>4, NoneMailed DEF IInv, Holds
  <2> QED
    BY <1>1, <1>2, <1>3, <2>1 DEF IInv, VerifiedByMail
<1> QED
  BY <1>2, <1>5, <1>8, <1>9, <1>10, <1>11, <1>12, <1>13, <1>14, <1>15, <1>16 DEF IInv

LEMMA MarkKeeps ==
    ASSUME IInv, NEW r \in Request, MarkUsed(r), tokens[held[r]] # None
    PROVE  IInv'
<1> DEFINE k == held[r]
<1>0. pc[r] = "presented" /\ Goto(r, "marked")
      /\ UNCHANGED <<now, job, dead, overwritten, users, recorded, mail, account, held>>
      /\ tokens' = [tokens EXCEPT ![k] = [@ EXCEPT !.used = TRUE]]
  BY NoneApart DEF MarkUsed, Reply, world, memory, tables
<1>1. /\ Matures /\ pc'[r] = "marked"
      /\ \A q \in Request : q # r => pc'[q] = pc[q]
  BY <1>0, MoveMatures DEF IInv, Move, Answer, PC
<1>2. Stage(r) /\ Holds(r) /\ k \in mail \cap Pk /\ tokens[k] \in EmailVerificationToken
  BY <1>0 DEF IInv, Holds, Typed
<1>3. /\ Live' = Live /\ tokens'[k] # None /\ tokens'[k].used
      /\ tokens'[k] \in EmailVerificationToken /\ tokens'[k].user = tokens[k].user
      /\ \A t \in Pk : t # k => tokens'[t] = tokens[t]
  <2> DEFINE token == [tokens[k] EXCEPT !.used = TRUE]
  <2>1. token \in EmailVerificationToken /\ token.used /\ token.user = tokens[k].user
    BY <1>2 DEF EmailVerificationToken
  <2>2. tokens'[k] = token /\ \A t \in Pk : t # k => tokens'[t] = tokens[t]
    BY <1>0, <1>2 DEF IInv, Typed
  <2> QED
    BY <1>0, <2>1, <2>2, AccountsAssumption DEF Live
<1>4. Typed'
  BY <1>0, <1>1, <1>3 DEF IInv, Typed, Goto, PC
<1>5. UsersLast /\ TokensLast
  BY <1>0, <1>2, <1>3 DEF UsersLast, TokensLast, Spent
<1>6. \A q \in Request : q # r => Stage(q)' /\ Holds(q)' /\ Stale(q)'
  BY <1>0, <1>1, <1>5, OthersKeep
<1>7. Stage(r)' /\ Holds(r)' /\ Stale(r)'
  BY <1>0, <1>1, <1>2, <1>3 DEF Stage, Holds, Stale, Spent, Matures, At, Answer
<1>8. \A u \in Pk : Row(u)'
  BY <1>0, <1>1, RowsKeep
<1>9. \A t \in Pk : Token(t)'
  BY <1>0, <1>2, <1>3 DEF IInv, Token
<1>10. \A x \in mail' : Mailed(x)'
  BY <1>0, <1>1 DEF IInv, Typed, Mailed, Matures, Link
<1>11. EmailsUnique'
  BY <1>0, <1>3 DEF IInv, EmailsUnique, With
<1>12. RegistrationWhole'
  BY <1>0, <1>1, <1>2, <1>3 DEF IInv, RegistrationWhole, At, Pk
<1>13. SpentVerifies'
  <2> SUFFICES ASSUME NEW t \in Pk, tokens'[t] # None, tokens'[t].used
               PROVE  /\ tokens'[t].user \in Live
                      /\ \/ users[tokens'[t].user].email_verified
                         \/ tokens'[t].user \in overwritten
                         \/ \E q \in Request : pc'[q] = "marked" /\ held[q] = t
    BY <1>0, <1>3 DEF SpentVerifies
  <2>1. CASE t = k
    BY <1>1, <1>2, <1>3, <2>1 DEF IInv, Token
  <2>2. CASE t # k
    BY <1>0, <1>1, <1>3, <2>2 DEF IInv, SpentVerifies
  <2> QED
    BY <2>1, <2>2
<1>14. VerifiedByMail'
  <2>1. \A t \in Pk : \A u : Spent(t, u) => Spent(t, u)'
    BY <1>3 DEF Spent
  <2>2. \A q \in Request : held[q] \in mail /\ (q \in recorded \/ pc[q] = "verified") =>
             held[q] \in Pk
    BY NoneMailed DEF IInv, Holds
  <2> QED
    BY <1>0, <1>1, <1>3, <2>1, <2>2 DEF IInv, VerifiedByMail, Spent
<1> QED
  BY <1>0, <1>4, <1>6, <1>7, <1>8, <1>9, <1>10, <1>11, <1>12, <1>13, <1>14 DEF IInv

\* An answer that comes with a mail, or with a record.
LEMMA AnswerKeeps ==
    ASSUME IInv, NEW r \in Request, NEW answer \in {"ok", "error"}, Goto(r, answer),
           UNCHANGED <<world, users, tokens, memory>>,
           \/ /\ recorded' = recorded \cup {r} /\ mail' = mail
              /\ pc[r] \in {"verified", "entered"} /\ answer = "ok"
           \/ /\ recorded' = recorded
              /\ \/ pc[r] = "issued" /\ mail' = mail \cup {r}
                 \/ \E x \in Link : /\ pc[r] = "start" /\ job[r].op = "forgot"
                                    /\ mail' = mail \cup {x} /\ SetOnce(x.password)
    PROVE  IInv'
<1>0. Move(r, answer) /\ answer \in PC /\ UNCHANGED <<now, job, overwritten, account, held>>
  BY DEF Move, Answer, world, memory, PC
<1>1. /\ Matures /\ pc'[r] = answer
      /\ \A q \in Request : q # r => pc'[q] = pc[q]
  BY <1>0, MoveMatures DEF IInv, Move
<1>2. Stage(r) /\ Holds(r) /\ job[r].op \notin {"register", "reset"} /\ pc[r] # "created"
  BY DEF IInv, Stage
<1>3. TokensLast /\ UsersLast /\ Live' = Live
  BY <1>0, SameTables
<1>4. mail \subseteq mail' /\ mail' \subseteq Pk \cup Link
      /\ \A q \in Request : q # r /\ q \in recorded' => q \in recorded
  BY DEF IInv, Typed, Pk
<1>5. Typed'
  BY <1>0, <1>4 DEF IInv, Typed, Goto
<1>6. \A q \in Request : q # r => Stage(q)' /\ Holds(q)' /\ Stale(q)'
  BY <1>0, <1>1, <1>3, <1>4, OthersKeep
<1>7. Stage(r)' /\ Holds(r)' /\ Stale(r)'
  BY <1>0, <1>1, <1>2 DEF Stage, Holds, Stale, Matures, At, Answer, IInv, Typed
<1>8. \A u \in Pk : Row(u)' /\ Token(u)'
  <2>1. \A u \in Pk : Row(u)'
    BY <1>0, <1>1, RowsKeep
  <2> QED
    BY <1>0, <1>3, <2>1 DEF IInv, Token
<1>9. \A x \in mail' : Mailed(x)'
  <2> SUFFICES ASSUME NEW x \in mail'
               PROVE  Mailed(x)'
    OBVIOUS
  <2>1. CASE x \in mail
    BY <1>1, <2>1 DEF IInv, Typed, Mailed, Matures, Link
  <2>2. CASE x \notin mail
    <3>1. (x \in Request => x = r) /\ (x \in Link => SetOnce(x.password))
      BY <2>2, AccountsAssumption DEF Pk
    <3> QED
      BY <1>1, <3>1 DEF Mailed, Matures, Link
  <2> QED
    BY <2>1, <2>2
<1>10. EmailsUnique'
  BY <1>3 DEF IInv, EmailsUnique, With
<1>11. RegistrationWhole'
  BY <1>0, <1>1, <1>2, <1>3 DEF IInv, RegistrationWhole, At
<1>12. SpentVerifies'
  BY <1>0, <1>1, <1>3, <1>4 DEF IInv, SpentVerifies
<1>13. VerifiedByMail'
  BY <1>0, <1>1, <1>3, <1>4 DEF IInv, VerifiedByMail
<1> QED
  BY <1>5, <1>6, <1>7, <1>8, <1>9, <1>10, <1>11, <1>12, <1>13 DEF IInv

-----------------------------------------------------------------------------
(* Steps that make, write back or delete an account. *)

\* The email of an account is as normalize_email leaves it.
LEMMA EmailNormal ==
    ASSUME IInv, NEW u \in Pk, u \in Request => job[u].op = "register"
    PROVE  EmailOf(u) \in Email /\ Normalized[EmailOf(u)] = EmailOf(u)
<1>1. CASE u \in Founder
  BY <1>1, AccountsAssumption DEF EmailOf, User
<1>2. CASE u \in Request /\ u \notin Founder
  <2>1. job[u] \in Job /\ job[u].op = "register"
    BY <1>2, AccountsAssumption DEF IInv, Typed
  <2>2. job[u].email \in Email
    BY <2>1 DEF Job
  <2> QED
    BY <1>2, <2>2, AccountsAssumption DEF EmailOf
<1> QED
  BY <1>1, <1>2 DEF Pk

LEMMA CreateKeeps ==
    ASSUME IInv, NEW r \in Request, CreateUser(r), Unique(r)
    PROVE  IInv' \/ Reply(r, "error")
<1> SUFFICES ASSUME ~Reply(r, "error")
             PROVE  IInv'
  OBVIOUS
<1> DEFINE row == NewUser(r)
<1>0. /\ At(r, "register", "valid") /\ Goto(r, "created")
      /\ users' = [users EXCEPT ![r] = row] /\ account' = [account EXCEPT ![r] = r]
      /\ UNCHANGED <<now, job, overwritten, tokens, recorded, mail, held>>
  BY DEF CreateUser, world
<1>1. /\ Matures /\ pc'[r] = "created"
      /\ \A q \in Request : q # r => pc'[q] = pc[q]
  BY <1>0, MoveMatures DEF IInv, Move, Answer, PC, At
<1>2. r \in Pk /\ r \notin Founder /\ Stage(r) /\ Holds(r) /\ ~Made(r)
  BY <1>0, AccountsAssumption DEF Pk, IInv, Made, At
<1>3. row \in User /\ row # None /\ row.email = EmailOf(r) /\ row.password = r
      /\ ~row.email_verified
  <2>1. Normalized[job[r].email] = EmailOf(r) /\ EmailOf(r) \in Email
    BY <1>0, <1>2, EmailNormal DEF At, EmailOf
  <2>2. row \in User
    BY <1>2, <2>1 DEF NewUser, User
  <2> QED
    BY <2>1, <2>2, AccountsAssumption DEF NewUser
<1>4. users'[r] = row /\ (\A v \in Pk : v # r => users'[v] = users[v]) /\ account'[r] = r
      /\ \A q \in Request : q # r => account'[q] = account[q]
  BY <1>0, <1>2 DEF IInv, Typed
<1>5. r \notin Live /\ Live' = Live \cup {r}
  BY <1>2, <1>3, <1>4 DEF IInv, Row, RowOf, Live
<1>6. Typed'
  BY <1>0, <1>1, <1>2, <1>3 DEF IInv, Typed, Goto, PC
<1>7. UsersLast /\ TokensLast
  BY <1>0, <1>2, <1>4, <1>5 DEF UsersLast, TokensLast, Live, Spent
<1>8. \A q \in Request : q # r => Stage(q)' /\ Holds(q)' /\ Stale(q)'
  BY <1>0, <1>1, <1>4, <1>7, OthersKeep
<1>9. Stage(r)' /\ Holds(r)' /\ Stale(r)'
  BY <1>0, <1>1, <1>2, <1>4 DEF Stage, Holds, Stale, Made, At, Answer
<1>10. \A u \in Pk : Row(u)'
  <2>1. ASSUME NEW u \in Pk, u # r
        PROVE  Row(u)'
    BY <1>0, <1>1, <1>4, <2>1, RowsKeep
  <2>2. Row(r)'
    BY <1>0, <1>1, <1>3, <1>4 DEF Row, RowOf, Made, SetOnce, EmailOf, At
  <2> QED
    BY <2>1, <2>2
<1>11. \A t \in Pk : Token(t)'
  BY <1>0, <1>5 DEF IInv, Token
<1>12. \A x \in mail' : Mailed(x)'
  BY <1>0, <1>1, <1>2 DEF IInv, Typed, Mailed, Matures, Link, At
<1>13. EmailsUnique'
  <2>1. Normalized[row.email] = row.email
    BY <1>0, <1>2, <1>3, EmailNormal DEF At
  <2>2. \A v \in Live : users[v].email # row.email
    BY <1>2, <1>3 DEF Unique, With, EmailOf, Live
  <2> QED
    BY <1>4, <1>5, <2>1, <2>2 DEF IInv, EmailsUnique, With, Live
<1>14. RegistrationWhole'
  BY <1>0, <1>1, <1>4, <1>5 DEF IInv, RegistrationWhole, At, Live
<1>15. SpentVerifies'
  BY <1>0, <1>1, <1>4, <1>5 DEF IInv, SpentVerifies, At, Live
<1>16. VerifiedByMail'
  <2>1. \A q \in Request : q \in recorded \/ pc[q] = "verified" => q # r
    BY <1>0, <1>2 DEF Stage, At
  <2> QED
    BY <1>0, <1>1, <1>3, <1>4, <1>5, <2>1 DEF IInv, VerifiedByMail, Live
<1> QED
  BY <1>0, <1>6, <1>8, <1>9, <1>10, <1>11, <1>12, <1>13, <1>14, <1>15, <1>16 DEF IInv

\* What a profile update writes back is a row of the account.
LEMMA WriteBackKeeps ==
    ASSUME IInv, NEW r \in Request, SaveProfile(r), ~Reply(r, "error")
    PROVE  IInv'
<1> DEFINE u == account[r]
           row == held[r]
<1>0. /\ pc[r] = "loaded" /\ Goto(r, "ok")
      /\ users' = [users EXCEPT ![u] = row]
      /\ overwritten' = IF users[u] = row THEN overwritten ELSE overwritten \cup {u}
      /\ users[u] = None => With(row.email) = {}
      /\ UNCHANGED <<now, job, tokens, recorded, mail, account, held>>
  BY DEF SaveProfile, memory
<1>1. /\ Matures /\ pc'[r] = "ok"
      /\ \A q \in Request : q # r => pc'[q] = pc[q]
  BY <1>0, MoveMatures DEF IInv, Move, Answer, PC
<1>2. u \in Pk /\ RowOf(row, u) /\ row # None /\ Stage(r) /\ job[r].op = "profile"
  BY <1>0, AccountsAssumption DEF IInv, Holds, Stage, RowOf, Answer
<1>3. users'[u] = row /\ \A v \in Pk : v # u => users'[v] = users[v]
  BY <1>0, <1>2 DEF IInv, Typed
<1>4. Live' = Live \cup {u} /\ \A v \in Live' \ overwritten' :
                                   v \in Live \ overwritten /\ users'[v] = users[v]
  BY <1>0, <1>2, <1>3 DEF Live
<1>5. Typed'
  BY <1>0, <1>1, <1>2 DEF IInv, Typed, Goto, RowOf, PC, Answer
<1>6. UsersLast /\ TokensLast
  BY <1>0, <1>4 DEF UsersLast, TokensLast, Spent
<1>7. \A q \in Request : q # r => Stage(q)' /\ Holds(q)' /\ Stale(q)'
  BY <1>0, <1>1, <1>6, OthersKeep
<1>8. Stage(r)' /\ Holds(r)' /\ Stale(r)'
  BY <1>0, <1>1, <1>2 DEF Stage, Holds, Stale, Matures, At, Answer, IInv, Typed
<1>9. \A v \in Pk : Row(v)'
  <2>1. ASSUME NEW v \in Pk, v # u
        PROVE  Row(v)'
    BY <1>0, <1>1, <1>3, <2>1, RowsKeep
  <2>2. ASSUME NEW v \in Pk, v = u
        PROVE  Row(v)'
    BY <1>0, <1>1, <1>2, <1>3, <2>2 DEF Row, RowOf, Matures, EmailOf, User
  <2> QED
    BY <2>1, <2>2
<1>10. \A t \in Pk : Token(t)'
  BY <1>0, <1>4 DEF IInv, Token
<1>11. \A x \in mail' : Mailed(x)'
  BY <1>0, <1>1 DEF IInv, Typed, Mailed, Matures, Link
<1>12. EmailsUnique'
  <2>1. Normalized[row.email] = row.email
    BY <1>2, EmailNormal DEF RowOf, Made
  <2>2. \A v \in Live : v # u => users[v].email # row.email
    <3>1. CASE users[u] = None
      BY <1>0, <3>1 DEF With, Live
    <3>2. CASE users[u] # None
      <4>1. users[u].email = row.email /\ u \in Live
        BY <1>2, <3>2 DEF IInv, Row, RowOf, Live
      <4> QED
        BY <4>1 DEF IInv, EmailsUnique, With, Live
    <3> QED
      BY <3>1, <3>2
  <2> QED
    BY <1>3, <1>4, <2>1, <2>2 DEF IInv, EmailsUnique, With, Live
<1>13. RegistrationWhole'
  <2>1. overwritten \subseteq overwritten' /\ \A v \in Live' : v \notin Live => v \in overwritten'
    BY <1>0, <1>3, <1>4 DEF Live
  <2> QED
    BY <1>0, <1>1, <1>2, <1>4, <2>1 DEF IInv, RegistrationWhole, At
<1>14. SpentVerifies'
  <2> SUFFICES ASSUME NEW t \in Pk, tokens[t] # None, tokens[t].used,
                      tokens[t].user \notin overwritten'
               PROVE  \/ users'[tokens[t].user].email_verified
                      \/ \E q \in Request : pc'[q] = "marked" /\ held[q] = t
    BY <1>0, <1>4 DEF SpentVerifies, IInv, Token
  <2>1. tokens[t].user \in Live /\ tokens[t].user \notin overwritten
        /\ users'[tokens[t].user] = users[tokens[t].user]
    BY <1>0, <1>4 DEF IInv, Token
  <2>2. CASE users[tokens[t].user].email_verified
    BY <2>1, <2>2
  <2>3. CASE ~users[tokens[t].user].email_verified
    <3>1. PICK q \in Request : pc[q] = "marked" /\ held[q] = t
      BY <2>1, <2>3 DEF IInv, SpentVerifies
    <3> QED
      BY <1>0, <1>1, <3>1
  <2> QED
    BY <2>2, <2>3
<1>15. VerifiedByMail'
  <2> SUFFICES ASSUME NEW v \in Live' \ overwritten', users'[v].email_verified
               PROVE  \E q \in Request :
                         /\ account[q] = v /\ (q \in recorded \/ pc'[q] = "verified")
                         /\ held[q] \in mail /\ Spent(held[q], v)
    BY <1>0 DEF VerifiedByMail, Spent
  <2>1. PICK q \in Request :
                 /\ account[q] = v /\ (q \in recorded \/ pc[q] = "verified")
                 /\ held[q] \in mail /\ Spent(held[q], v)
    BY <1>4 DEF IInv, VerifiedByMail, Spent
  <2> QED
    BY <1>0, <1>1, <2>1
<1> QED
  BY <1>0, <1>5, <1>7, <1>8, <1>9, <1>10, <1>11, <1>12, <1>13, <1>14, <1>15 DEF IInv

\* A deletion takes every token of the account with it.
LEMMA RemoveKeeps ==
    ASSUME IInv, RemoveAccount
    PROVE  IInv'
<1>0. PICK u \in Pk :
        /\ users' = [users EXCEPT ![u] = None]
        /\ tokens' = [t \in Pk |-> IF tokens[t] # None /\ tokens[t].user = u
                                   THEN None ELSE tokens[t]]
        /\ recorded' = {q \in recorded : job[q].op = "login" => account[q] # u}
        /\ UNCHANGED <<now, job, dead, overwritten, mail, pc, account, held>>
  BY DEF RemoveAccount, world, memory
<1>1. Matures /\ \A p : (Made(p) <=> Made(p)') /\ (SetOnce(p) <=> SetOnce(p)')
  BY <1>0 DEF Matures, Made, SetOnce, At
<1>2. users'[u] = None /\ \A v \in Pk : v # u => users'[v] = users[v]
  BY <1>0 DEF IInv, Typed
<1>3. Live' = Live \ {u}
  BY <1>2 DEF Live
<1>4. \A t \in Pk : \/ tokens'[t] = None
                    \/ tokens'[t] = tokens[t] /\ tokens[t].user # u
  BY <1>0
<1>5. \A t \in Pk : tokens[t] # None /\ tokens[t].user # u => tokens'[t] = tokens[t]
  BY <1>0
<1>6. Typed'
  BY <1>0 DEF IInv, Typed
<1>7. UsersLast /\ TokensLast
  BY <1>0, <1>2, <1>3, <1>4, <1>5 DEF UsersLast, TokensLast, Spent, Live
<1>8. \A q \in Request : Stage(q)' /\ Holds(q)' /\ Stale(q)'
  BY <1>0, <1>1, <1>7, OthersKeep
<1>9. \A v \in Pk : Row(v)'
  <2>1. ASSUME NEW v \in Pk, v # u
        PROVE  Row(v)'
    BY <1>0, <1>1, <1>2, <2>1, RowsKeep
  <2> QED
    BY <1>2, <2>1 DEF Row
<1>10. \A t \in Pk : Token(t)'
  BY <1>0, <1>3, <1>4 DEF IInv, Token
<1>11. \A x \in mail' : Mailed(x)'
  BY <1>0, <1>1 DEF IInv, Mailed
<1>12. EmailsUnique'
  BY <1>2, <1>3 DEF IInv, EmailsUnique, With, Live
<1>13. RegistrationWhole'
  <2>1. \A q \in Request : At(q, "register", "ok") /\ tokens[q] # None /\ q # u =>
             tokens'[q] # None
    BY <1>5 DEF IInv, Token, At, Pk
  <2> QED
    BY <1>0, <1>2, <1>3, <2>1 DEF IInv, RegistrationWhole, At, Live
<1>14. SpentVerifies'
  BY <1>0, <1>2, <1>3, <1>4 DEF IInv, SpentVerifies, Live
<1>15. VerifiedByMail'
  <2> SUFFICES ASSUME NEW v \in Live, v # u, users[v].email_verified, v \notin overwritten
               PROVE  \E q \in Request :
                         /\ account[q] = v /\ (q \in recorded' \/ pc[q] = "verified")
                         /\ held[q] \in mail /\ Spent(held[q], v)'
    BY <1>0, <1>2, <1>3 DEF VerifiedByMail, Spent, Live
  <2>1. PICK q \in Request :
                 /\ account[q] = v /\ (q \in recorded \/ pc[q] = "verified")
                 /\ held[q] \in mail /\ Spent(held[q], v)
    BY DEF IInv, VerifiedByMail, Spent
  <2>2. held[q] \in Pk
    BY <2>1, NoneMailed DEF IInv, Holds
  <2> QED
    BY <1>0, <1>5, <2>1, <2>2 DEF Spent
<1> QED
  BY <1>0, <1>6, <1>8, <1>9, <1>10, <1>11, <1>12, <1>13, <1>14, <1>15 DEF IInv

-----------------------------------------------------------------------------
(* Every step. *)

LEMMA StartHolds == Init => IInv
<1> SUFFICES ASSUME Init
             PROVE  IInv
  OBVIOUS
<1>1. \A f \in Founder : Seeds[f] \in User /\ Seeds[f] # None /\ f \notin Request
  BY AccountsAssumption
<1>2. /\ Live = Founder /\ \A u \in Live : users[u] = Seeds[u]
  BY <1>1 DEF Init, Live, Pk
<1>3. \A f \in Founder : Linked(f, Seeds[f]) \in Link /\ Linked(f, Seeds[f]).password = f
  BY <1>1, AccountsAssumption DEF Init, Linked, Link, User, Pk
<1>4. Typed
  <2>1. \A f \in Founder : [user |-> f, expires_at |-> VerifyTicks, used |-> FALSE]
                               \in EmailVerificationToken
    BY AccountsAssumption DEF EmailVerificationToken, Pk
  <2>2. mail \subseteq Pk \cup Link
    BY <1>3 DEF Init, Pk
  <2> QED
    BY <1>1, <2>1, <2>2 DEF Init, Typed, PC, Pk
<1>5. \A r \in Request : Stage(r) /\ Holds(r) /\ Stale(r)
  BY DEF Init, Stage, Holds, Stale, At, Answer
<1>6. \A u \in Pk : Row(u) /\ Token(u)
  <2>1. \A u \in Pk : Row(u)
    BY <1>1, <1>2, AccountsAssumption DEF Row, RowOf, Made, SetOnce, EmailOf, Live
  <2> QED
    BY <1>1, <1>2, <2>1 DEF Init, Token
<1>7. \A x \in mail : Mailed(x)
  BY <1>1, <1>3, AccountsAssumption DEF Init, Mailed, SetOnce, Made, Pk
<1>8. EmailsUnique
  BY <1>1, <1>2, AccountsAssumption DEF EmailsUnique, With, Live, User
<1>9. RegistrationWhole /\ SpentVerifies /\ VerifiedByMail
  BY <1>1, <1>2, AccountsAssumption DEF Init, RegistrationWhole, SpentVerifies, VerifiedByMail, At
<1> QED
  BY <1>4, <1>5, <1>6, <1>7, <1>8, <1>9 DEF IInv

LEMMA SaveStepKeeps ==
    ASSUME IInv, NEW r \in Request,
           AcceptTerms(r) \/ SaveLastLogin(r) \/ VerifyUser(r) \/ SavePassword(r)
    PROVE  IInv'
<1> DEFINE u == account[r]
<1>1. u \in Pk /\ pc[r] \in {"created", "known", "marked", "checked"} /\ Stage(r)
  BY DEF AcceptTerms, SaveLastLogin, VerifyUser, SavePassword, IInv, Stage, Answer
<1>2. CASE users[u] = None
  <2>1. Reply(r, "error")
    BY <1>2 DEF AcceptTerms, SaveLastLogin, VerifyUser, SavePassword, Save
  <2>2. pc[r] = "created" => u = r
    BY <1>1 DEF Stage
  <2> QED
    BY <1>1, <1>2, <2>1, <2>2, ReplyKeeps DEF Answer, Live
<1>3. CASE users[u] # None
  <2>1. u \in Live /\ users[u] \in User
    BY <1>1, <1>3 DEF Live, IInv, Typed
  <2>2. r \in Pk /\ now \in Nat
    BY DEF Pk, IInv, Typed
  <2>3. CASE AcceptTerms(r)
    <3> DEFINE row == [users[u] EXCEPT !.terms_accepted = TRUE]
    <3>1. /\ row \in User /\ row.email = users[u].email /\ row.terms_accepted
          /\ row.email_verified = users[u].email_verified /\ row.password = users[u].password
      BY <2>1 DEF User
    <3> HIDE DEF row
    <3>2. pc[r] = "created" /\ users' = [users EXCEPT ![u] = row] /\ Goto(r, "accepted")
          /\ UNCHANGED <<world, tokens, recorded, mail, memory>>
      BY <1>3, <2>3 DEF AcceptTerms, Save, row
    <3> QED
      BY <2>1, <3>1, <3>2, SaveKeeps DEF Saving, PC
  <2>4. CASE SaveLastLogin(r)
    <3> DEFINE row == [users[u] EXCEPT !.last_login = now]
    <3>1. /\ row \in User /\ row.email = users[u].email
          /\ row.terms_accepted = users[u].terms_accepted
          /\ row.email_verified = users[u].email_verified /\ row.password = users[u].password
      BY <2>1, <2>2 DEF User
    <3> HIDE DEF row
    <3>2. pc[r] = "known" /\ users' = [users EXCEPT ![u] = row] /\ Goto(r, "entered")
          /\ UNCHANGED <<world, tokens, recorded, mail, memory>>
      BY <1>3, <2>4 DEF SaveLastLogin, Save, row
    <3> QED
      BY <2>1, <3>1, <3>2, SaveKeeps DEF Saving, PC
  <2>5. CASE VerifyUser(r)
    <3> DEFINE row == [users[u] EXCEPT !.email_verified = TRUE]
    <3>1. /\ row \in User /\ row.email = users[u].email /\ row.email_verified
          /\ row.terms_accepted = users[u].terms_accepted /\ row.password = users[u].password
      BY <2>1 DEF User
    <3> HIDE DEF row
    <3>2. pc[r] = "marked" /\ users' = [users EXCEPT ![u] = row] /\ Goto(r, "verified")
          /\ UNCHANGED <<world, tokens, recorded, mail, memory>>
      BY <1>3, <2>5 DEF VerifyUser, Save, row
    <3> QED
      BY <2>1, <3>1, <3>2, SaveKeeps DEF Saving, PC
  <2>6. CASE SavePassword(r)
    <3> DEFINE row == [users[u] EXCEPT !.password = r]
    <3>1. /\ row \in User /\ row.email = users[u].email /\ row.password = r
          /\ row.terms_accepted = users[u].terms_accepted
          /\ row.email_verified = users[u].email_verified
      BY <2>1, <2>2 DEF User
    <3> HIDE DEF row
    <3>2. pc[r] = "checked" /\ users' = [users EXCEPT ![u] = row] /\ Goto(r, "ok")
          /\ UNCHANGED <<world, tokens, recorded, mail, memory>>
      BY <1>3, <2>6 DEF SavePassword, Save, row
    <3> QED
      BY <2>1, <3>1, <3>2, SaveKeeps DEF Saving, PC, Answer
  <2> QED
    BY <2>3, <2>4, <2>5, <2>6
<1> QED
  BY <1>2, <1>3

LEMMA IssueStepKeeps ==
    ASSUME IInv, NEW r \in Request, NEW label, Issue(r, label),
           \/ pc[r] = "accepted" /\ label = "ok"
           \/ pc[r] = "found" /\ label = "issued"
    PROVE  IInv'
<1> DEFINE u == account[r]
           token == [user |-> u, expires_at |-> now + VerifyTicks, used |-> FALSE]
<1>1. u \in Pk
  BY DEF IInv, Stage, Answer
<1>2. CASE users[u] = None
  BY <1>2, ReplyKeeps DEF Issue, Answer
<1>3. CASE users[u] # None
  <2>1. token \in EmailVerificationToken /\ token.user = u /\ ~token.used
    BY <1>1, AccountsAssumption DEF EmailVerificationToken, IInv, Typed
  <2>2. tokens' = [tokens EXCEPT ![r] = token] /\ Goto(r, label)
        /\ UNCHANGED <<world, users, recorded, mail, memory>>
    BY <1>3 DEF Issue
  <2> QED
    BY <1>1, <1>3, <2>1, <2>2, IssueKeeps DEF Live, PC, Answer
<1> QED
  BY <1>2, <1>3

LEMMA LookStepKeeps ==
    ASSUME IInv, NEW r \in Request,
           \/ ValidateRegistration(r) \/ FindUnverified(r) \/ Present(r) \/ Authenticate(r)
           \/ CheckLink(r) \/ LoadProfile(r)
    PROVE  IInv'
<1>1. \A u \in Pk : users[u] # None => Made(u) /\ RowOf(users[u], u)
  BY DEF IInv, Row, RowOf
<1>2. ASSUME NEW label \in Answer \cup {"valid"}, pc[r] = "start", Reply(r, label),
             label = "valid" => job[r].op = "register",
             label = "ok" => job[r].op \notin {"register", "reset"}
      PROVE  IInv'
  BY <1>2, ReplyKeeps DEF Answer
<1>3. ASSUME NEW u \in Pk, NEW x, NEW label \in PC, pc[r] = "start", TakeUp(r, u, x, label),
             users[u] # None
      PROVE  /\ pc'[r] = label /\ account'[r] = u /\ held'[r] = x /\ r \notin recorded
             /\ UNCHANGED <<tokens, users, recorded, mail, job, overwritten>>
             /\ Made(u)' /\ RowOf(users[u], u)'
  <2>1. /\ pc'[r] = label /\ account'[r] = u /\ held'[r] = x
        /\ UNCHANGED <<tokens, users, recorded, mail, job, overwritten>>
    BY <1>3 DEF TakeUp, Goto, world, tables, IInv, Typed
  <2>2. r \notin recorded
    BY <1>3 DEF IInv, Stage
  <2> QED
    BY <1>1, <1>3, <2>1, <2>2
       DEF TakeUp, Goto, IInv, Typed, RowOf, Made, SetOnce, EmailOf, At
<1>4. CASE ValidateRegistration(r)
  BY <1>2, <1>4 DEF ValidateRegistration, At, Answer
<1>5. CASE FindUnverified(r)
  <2>1. CASE Reply(r, "ok")
    BY <1>2, <1>5, <2>1 DEF FindUnverified, At, Answer
  <2>2. ASSUME NEW u \in With(job[r].email), TakeUp(r, u, None, "found")
        PROVE  IInv'
    BY <1>1, <1>3, <1>5, <2>2, TakeUpKeeps
       DEF FindUnverified, At, With, PC, Stage, Holds, Answer
  <2> QED
    BY <1>5, <2>1, <2>2 DEF FindUnverified
<1>6. CASE Present(r)
  <2>1. CASE \E answer \in {"missing", "refused"} : Reply(r, answer)
    BY <1>2, <1>6, <2>1 DEF Present, At, Answer
  <2>2. ASSUME NEW t \in mail \cap Pk, tokens[t] # None, IsValid(t),
               TakeUp(r, tokens[t].user, t, "presented")
        PROVE  IInv'
    <3>1. tokens[t].user \in Pk /\ users[tokens[t].user] # None
      BY <2>2 DEF IInv, Token, Live
    <3>2. pc[r] = "start" /\ job[r].op = "verify"
      BY <1>6 DEF Present, At
    <3>3. Stage(r)' /\ Holds(r)'
      BY <1>3, <2>2, <3>1, <3>2 DEF PC, Stage, Holds, At
    <3> QED
      BY <1>1, <2>2, <3>1, <3>2, <3>3, TakeUpKeeps DEF PC, Answer
  <2> QED
    BY <1>6, <2>1, <2>2 DEF Present
<1>7. CASE Authenticate(r)
  <2>1. CASE Reply(r, "refused")
    BY <1>2, <1>7, <2>1 DEF Authenticate, At, Answer
  <2>2. ASSUME NEW u \in With(job[r].email), TakeUp(r, u, None, "known")
        PROVE  IInv'
    BY <1>1, <1>3, <1>7, <2>2, TakeUpKeeps
       DEF Authenticate, At, With, PC, Stage, Holds, Answer
  <2> QED
    BY <1>7, <2>1, <2>2 DEF Authenticate
<1>8. CASE CheckLink(r)
  <2>1. CASE Reply(r, "refused")
    BY <1>2, <1>8, <2>1 DEF CheckLink, At, Answer
  <2>2. ASSUME NEW l \in mail \ Pk, Matches(l), TakeUp(r, l.user, l, "checked")
        PROVE  IInv'
    <3>1. l \in Link /\ l.user \in Pk /\ users[l.user] # None
      BY <2>2 DEF IInv, Typed, Link, Matches
    <3>2. pc[r] = "start" /\ job[r].op = "reset"
      BY <1>8 DEF CheckLink, At
    <3>3. Stage(r)' /\ Holds(r)'
      BY <1>3, <2>2, <3>1, <3>2 DEF PC, Stage, Holds, At
    <3> QED
      BY <1>1, <2>2, <3>1, <3>2, <3>3, TakeUpKeeps DEF PC, Answer
  <2> QED
    BY <1>8, <2>1, <2>2 DEF CheckLink
<1>9. CASE LoadProfile(r)
  <2>1. CASE Reply(r, "refused")
    BY <1>2, <1>9, <2>1 DEF LoadProfile, At, Answer
  <2>2. ASSUME NEW u \in Pk, users[u] # None, TakeUp(r, u, users[u], "loaded")
        PROVE  IInv'
    <3>1. pc[r] = "start" /\ job[r].op = "profile" /\ users[u] \in User
      BY <1>9, <2>2 DEF LoadProfile, At, IInv, Typed
    <3>2. Stage(r)' /\ Holds(r)'
      BY <1>3, <2>2, <3>1 DEF PC, Stage, Holds, At
    <3> QED
      BY <1>1, <2>2, <3>1, <3>2, TakeUpKeeps DEF PC, Answer
  <2> QED
    BY <1>9, <2>1, <2>2 DEF LoadProfile
<1> QED
  BY <1>4, <1>5, <1>6, <1>7, <1>8, <1>9

LEMMA MailStepKeeps ==
    ASSUME IInv, NEW r \in Request, MailToken(r) \/ Forgot(r)
    PROVE  IInv'
<1>1. CASE MailToken(r)
  <2>1. pc[r] = "issued" /\ job[r].op = "resend"
    BY <1>1 DEF MailToken, IInv, Stage
  <2>2. CASE Reply(r, "error")
    BY <2>1, <2>2, ReplyKeeps DEF Answer
  <2>3. CASE \E answer \in {"ok", "error"} : Goto(r, answer)
              /\ mail' = mail \cup {r} /\ UNCHANGED <<world, tables, memory>>
    BY <2>1, <2>3, AnswerKeeps DEF tables
  <2> QED
    BY <1>1, <2>2, <2>3 DEF MailToken, Mail
<1>2. CASE Forgot(r)
  <2>1. pc[r] = "start" /\ job[r].op = "forgot"
    BY <1>2 DEF Forgot, At
  <2>2. CASE \E answer \in {"ok", "error"} : Reply(r, answer)
    BY <2>1, <2>2, ReplyKeeps DEF Answer
  <2>3. ASSUME NEW u \in With(job[r].email), NEW answer \in {"ok", "error"}, Goto(r, answer),
               mail' = mail \cup {Linked(u, users[u])}, UNCHANGED <<world, tables, memory>>
        PROVE  IInv'
    <3>1. u \in Pk /\ RowOf(users[u], u)
      BY <2>3 DEF With, IInv, Row
    <3>2. Linked(u, users[u]) \in Link /\ Linked(u, users[u]).password = users[u].password
      BY <3>1 DEF Linked, Link, RowOf, User, IInv, Typed
    <3> DEFINE l == Linked(u, users[u])
    <3> HIDE DEF l
    <3>3. l \in Link /\ SetOnce(l.password) /\ mail' = mail \cup {l}
      BY <2>3, <3>1, <3>2 DEF RowOf, l
    <3> QED
      BY <2>1, <2>3, <3>3, AnswerKeeps DEF tables
  <2> QED
    BY <1>2, <2>2, <2>3 DEF Forgot, Mail
<1> QED
  BY <1>1, <1>2

LEMMA RecordStepKeeps ==
    ASSUME IInv, NEW r \in Request, WriteAudit(r) \/ RecordLogin(r)
    PROVE  IInv'
<1>1. pc[r] \in {"verified", "entered"} /\ job[r].op \in {"verify", "login"}
  BY DEF WriteAudit, RecordLogin, IInv, Stage
<1>2. CASE Record(r)
  BY <1>1, <1>2, AnswerKeeps DEF Record
<1>3. CASE /\ \E answer \in {"ok", "error"} : Reply(r, answer)
           /\ pc[r] = "verified" => users[account[r]] = None
  BY <1>1, <1>3, ReplyKeeps DEF Answer, Live
<1> QED
  BY <1>2, <1>3 DEF WriteAudit, RecordLogin

LEMMA NextKeeps == IInv /\ [Next]_vars => IInv'
<1> SUFFICES ASSUME IInv, [Next]_vars
             PROVE  IInv'
  OBVIOUS
<1>1. ASSUME NEW r \in Request, Step(r)
      PROVE  IInv'
  <2>1. CASE CreateUser(r)
    <3>1. CASE Reply(r, "error")
      BY <2>1, <3>1, ReplyKeeps DEF CreateUser, At, Answer
    <3> QED
      BY <2>1, <3>1, CreateKeeps DEF CreateUser
  <2>2. CASE IssueFirst(r) \/ IssueAgain(r)
    BY <2>2, IssueStepKeeps DEF IssueFirst, IssueAgain, At
  <2>3. CASE MarkUsed(r)
    <3>1. CASE tokens[held[r]] = None
      BY <2>3, <3>1, ReplyKeeps DEF MarkUsed, Answer
    <3> QED
      BY <2>3, <3>1, MarkKeeps
  <2>4. CASE SaveProfile(r)
    <3>1. CASE Reply(r, "error")
      BY <2>4, <3>1, ReplyKeeps DEF SaveProfile, Answer
    <3> QED
      BY <2>4, <3>1, WriteBackKeeps
  <2>5. CASE Crash(r)
    BY <2>5, StillKeeps DEF Crash, tables, memory, IInv, Typed
  <2> QED
    BY <1>1, <2>1, <2>2, <2>3, <2>4, <2>5, SaveStepKeeps, LookStepKeeps, MailStepKeeps,
       RecordStepKeeps DEF Step
<1>2. CASE RemoveAccount
  BY <1>2, RemoveKeeps
<1>3. CASE Tick \/ Terminating \/ UNCHANGED vars
  BY <1>3, StillKeeps DEF Tick, Terminating, vars, world, tables, memory, IInv, Typed
<1> QED
  BY <1>1, <1>2, <1>3 DEF Next

-----------------------------------------------------------------------------
(* The theorems. *)

\* However many requests race, and whenever one of them dies: what a handler holds, what
\* was mailed, and what the three tables say of one another.
THEOREM AccountsInvariance == Spec => []IInv
<1> QED
  BY StartHolds, NextKeeps, PTL DEF Spec

\* An email, as normalize_email leaves it, has one account (User.email, unique), although
\* registrations race and a deleted account may be saved again by a profile update.
THEOREM EmailsUniqueHolds == Spec => []EmailsUnique
<1>1. IInv => EmailsUnique
  BY DEF IInv
<1> QED
  BY <1>1, AccountsInvariance, PTL

\* Only a registration that is under way, or died, leaves an account without accepted terms,
\* and one that was answered has its token, but for accounts an old copy was saved over.
THEOREM RegistrationWholeHolds == Spec => []RegistrationWhole
<1>1. IInv => RegistrationWhole
  BY DEF IInv
<1> QED
  BY <1>1, AccountsInvariance, PTL

\* A token that is used up has verified its account, or is about to (EmailVerificationView).
THEOREM SpentVerifiesHolds == Spec => []SpentVerifies
<1>1. IInv => SpentVerifies
  BY DEF IInv
<1> QED
  BY <1>1, AccountsInvariance, PTL

\* An account is verified by a token that was mailed to it, and the verification is recorded.
THEOREM VerifiedByMailHolds == Spec => []VerifiedByMail
<1>1. IInv => VerifiedByMail
  BY DEF IInv
<1> QED
  BY <1>1, AccountsInvariance, PTL

\* A link that has reset a password is refused from then on (default_token_generator).
THEOREM LinkOnceHolds == Spec => LinkOnce
<1> DEFINE Fits == \A r \in Request : pc[r] = "start" /\ pc'[r] = "checked" =>
                      ~Used(held'[r]) \/ account'[r] \in overwritten
<1>1. IInv /\ [Next]_vars => [Fits]_vars
  <2> SUFFICES ASSUME IInv, [Next]_vars, NEW r \in Request,
                      pc[r] = "start", pc'[r] = "checked"
               PROVE  ~Used(held'[r]) \/ account'[r] \in overwritten
    OBVIOUS
  <2>1. ASSUME NEW q \in Request, NEW label, Goto(q, label), label # "checked"
        PROVE  FALSE
    BY <2>1 DEF Goto, IInv, Typed
  <2>2. \A q \in Request : ~Crash(q)
    BY DEF Crash
  <2>3. PICK q \in Request : Step(q)
    BY DEF Next, RemoveAccount, Tick, Terminating, vars
  <2>4. CASE CheckLink(q)
    <3>1. ~ Reply(q, "refused")
      BY <2>1 DEF Reply
    <3>2. PICK l \in mail \ Pk : Matches(l) /\ TakeUp(q, l.user, l, "checked")
      BY <2>4, <3>1 DEF CheckLink
    <3>3. q = r /\ held'[r] = l /\ account'[r] = l.user
      BY <3>2 DEF TakeUp, Goto, IInv, Typed
    <3>4. l \in Link /\ l.user \in Live /\ users[l.user].password = l.password
      BY <3>2 DEF IInv, Typed, Link, Matches, Live, Linked
    <3>5. ASSUME NEW p \in Request, At(p, "reset", "ok"), held[p] = l, l.user \notin overwritten
          PROVE  FALSE
      BY <3>4, <3>5 DEF IInv, Holds, Stale, At
    <3> QED
      BY <3>3, <3>5 DEF Used
  <2>5. CASE \/ ValidateRegistration(q) \/ CreateUser(q) \/ AcceptTerms(q) \/ IssueFirst(q)
             \/ FindUnverified(q) \/ IssueAgain(q) \/ MailToken(q)
    BY <2>1, <2>5 DEF ValidateRegistration, CreateUser, AcceptTerms, IssueFirst, FindUnverified,
                      IssueAgain, MailToken, Reply, Save, Issue, Mail, TakeUp
  <2>6. CASE \/ Present(q) \/ MarkUsed(q) \/ VerifyUser(q) \/ WriteAudit(q)
             \/ Authenticate(q) \/ SaveLastLogin(q) \/ RecordLogin(q)
    BY <2>1, <2>6 DEF Present, MarkUsed, VerifyUser, WriteAudit, Authenticate, SaveLastLogin,
                      RecordLogin, Reply, Save, Record, TakeUp
  <2>7. CASE Forgot(q) \/ SavePassword(q) \/ LoadProfile(q) \/ SaveProfile(q)
    BY <2>1, <2>7 DEF Forgot, SavePassword, LoadProfile, SaveProfile, Reply, Save, Mail, TakeUp
  <2> QED
    BY <2>2, <2>3, <2>4, <2>5, <2>6, <2>7 DEF Step
<1> QED
  BY <1>1, AccountsInvariance, PTL DEF Spec, LinkOnce
=============================================================================
