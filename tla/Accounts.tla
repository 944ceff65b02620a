------------------------------ MODULE Accounts ------------------------------
(***************************************************************************)
(* Accounts of an enterprise deployment (shield_server/auth): sign-in with *)
(* lockout and second factor, sessions, password change and reset,         *)
(* recovery codes, invites and role changes.  A request is a process and   *)
(* every statement it awaits is a step, so two requests interleave between *)
(* any two statements, and one may end after any of them.  The audit rows  *)
(* and the mails are left out.                                             *)
(*                                                                         *)
(* A row's id is its place in the sequence that stands for its table.      *)
(* resets, redeemed, severed, arrived, raced and the fields again, epoch   *)
(* and by are history: no step reads them.                                 *)
(***************************************************************************)
EXTENDS Naturals, Sequences, FiniteSets

CONSTANTS
    Request,        \* requests that can be in flight together
    Password,       \* passwords, and
    FirstPassword,  \* the one the first account has
    Email,          \* addresses, and
    FirstEmail,     \* the first account's
    Invited,        \* addresses that already have an invite
    Code,           \* the recovery codes of one generation
    Op,             \* the operations clients ask for
    Threshold,      \* LOCKOUT_THRESHOLD
    Limit,          \* the limit of a RateLimitConfig
    PoolSize,       \* connections in the pool of the database
    MaxUsers,       \* bound: accounts
    MaxRequests,    \* bound: requests begun
    MaxLapses       \* bound: deadlines that pass, and requests that end early

ASSUME AccountsAssumption ==
    /\ FirstPassword \in Password
    /\ FirstEmail \in Email
    /\ Invited \in Seq(Email)
    /\ {Threshold, Limit, PoolSize, MaxRequests, MaxLapses} \subseteq Nat
    /\ MaxUsers \in Nat \ {0}

VARIABLES
    users,      \* rows of users with their membership
    sessions,   \* rows of sessions
    tokens,     \* rows of password_reset_tokens
    invites,    \* rows of invites
    totp,       \* the row of totp_credentials, per user
    hits,       \* the rate limit's counter of the current window
    window,     \* number of the current window
    req,        \* the requests in flight
    begun,      \* requests begun so far
    lapses,     \* deadlines passed and requests ended early so far
    resets,     \* password resets completed, per user
    redeemed,   \* links, invites and codes whose redemption was completed
    severed,    \* users whose removal of the second factor ended half done
    arrived,    \* requests the rate limit counted in this window
    raced       \* pairs of operations that were in flight together

rows    == <<users, sessions, tokens, invites, totp>>
limiter == <<hits, window, arrived>>
past    == <<resets, redeemed, severed>>
vars    == <<rows, limiter, req, begun, lapses, past, raced>>

Role == {"org_owner", "compliance_auditor"}
User == 1..MaxUsers

\* The first gen sets of codes have been generated; row: the row exists.
Credential == [row : BOOLEAN, gen : Nat, codes : SUBSET (Nat \X Code)]

NewUser(email, pwd, role, by) ==
    [email |-> email, pwd |-> pwd, stale |-> FALSE, status |-> "active",
     failed |-> 0, until |-> "null", totp |-> FALSE, role |-> role, by |-> by]

Blank == [pc |-> "idle", op |-> "none", user |-> 0, sid |-> 0, ver |-> 0,
          pwd |-> FirstPassword, item |-> 0, code |-> FALSE, stale |-> FALSE,
          count |-> 0, codes |-> {}, again |-> FALSE, epoch |-> 0, win |-> 0]

Steps == {"idle", "limit", "bump", "find", "begin", "count", "lock", "second",
          "clear", "rehash", "open", "session", "user", "member", "csrf",
          "verify", "password", "rotate", "token", "mark", "revoke_all",
          "credential", "write", "flag", "delete", "invite", "email",
          "create", "consume", "act"}

UserRow ==
    [email : Email, pwd : Password, stale : BOOLEAN, status : {"active", "locked"},
     failed : Nat, until : {"null", "ahead", "past"}, totp : BOOLEAN, role : Role,
     by : Nat]

SessionRow ==
    [user : Nat, ver : Nat, revoked : BOOLEAN, expired : BOOLEAN, epoch : Nat]

\* The tables, the counters and the requests keep their types; a request that
\* names a session or a user names one that exists.
TypeOK ==
    /\ users \in Seq(UserRow)
    /\ sessions \in Seq(SessionRow)
    /\ \A s \in DOMAIN sessions : sessions[s].user \in DOMAIN users
    /\ tokens \in Seq([user : DOMAIN users, consumed : BOOLEAN, expired : BOOLEAN])
    /\ invites \in Seq([email : Email, role : Role, consumed : BOOLEAN,
                        expired : BOOLEAN])
    /\ totp \in [User -> Credential]
    /\ hits \in Nat /\ arrived \in Nat /\ window \in Nat
    /\ resets \in [User -> Nat]
    /\ severed \subseteq User
    /\ \A r \in Request : /\ req[r].pc \in Steps
                          /\ req[r].user \in 0..Len(users)
                          /\ req[r].sid \in 0..Len(sessions)
                          /\ req[r].pwd \in Password

-----------------------------------------------------------------------------
\* A statement outside a transaction needs a connection of the pool; a failed
\* sign-in holds one from its BEGIN to its COMMIT.
Connection == Cardinality({r \in Request : req[r].pc \in {"count", "lock"}}) < PoolSize

At(r, step) ==
    /\ req[r].pc = step
    /\ step \in {"bump", "lock"} \/ Connection
    /\ UNCHANGED <<begun, lapses, raced>>

Goto(r, step) == req' = [req EXCEPT ![r].pc = step]

\* The response is sent, whatever its status.
Reply(r) == req' = [req EXCEPT ![r] = Blank]

\* A guard of a handler: on to the next statement, or a refusal.
GotoIf(r, ok, step) == IF ok THEN Goto(r, step) ELSE Reply(r)

Owner(r)  == users[req[r].user]
Cookie(r) == sessions[req[r].sid]

\* Pairs of operations a property has to except; one alone: with itself.
Racing == {{"sign_in", "reset"}, {"recovery", "reset"}, {"accept", "reset"},
           {"recovery"}, {"confirm", "disable"}}

Generated(u) == (1..totp[u].gen) \X Code

\* A request comes in, with a credential that was ever handed out.
Begin(r, args) ==
    /\ req[r].pc = "idle"
    /\ args.op \in Op
    /\ begun < MaxRequests
    /\ begun' = begun + 1
    /\ req' = [req EXCEPT ![r] = args]
    /\ raced' = raced \cup (Racing \cap
          {{args.op, req[q].op} : q \in {q \in Request : req[q].pc # "idle"}})
    /\ UNCHANGED <<rows, limiter, lapses, past>>

ArriveSignIn(r) ==
    \E u \in DOMAIN users, p \in Password, c \in BOOLEAN :
       Begin(r, [Blank EXCEPT !.pc = "limit", !.op = "sign_in", !.user = u,
                              !.pwd = p, !.code = c, !.epoch = resets[u]])

ArriveByMail(r) ==
    \/ \E u \in DOMAIN users :
          Begin(r, [Blank EXCEPT !.pc = "limit", !.op = "request", !.user = u])
    \/ \E t \in DOMAIN tokens, p \in Password :
          Begin(r, [Blank EXCEPT !.pc = "token", !.op = "reset", !.item = t, !.pwd = p,
                                 !.again = <<"reset", t>> \in redeemed])
    \/ \E i \in DOMAIN invites :
          Begin(r, [Blank EXCEPT !.pc = "limit", !.op = "accept", !.item = i,
                                 !.again = <<"accept", i>> \in redeemed])
    \/ \E u \in DOMAIN users : \E c \in Generated(u) :
          Begin(r, [Blank EXCEPT !.pc = "find", !.op = "recovery", !.user = u,
                                 !.item = <<u, c>>, !.epoch = resets[u],
                                 !.again = <<"recovery", <<u, c>>>> \in redeemed])

ArriveWithCookie(r) ==
    \E s \in DOMAIN sessions : \E v \in 0..sessions[s].ver :
       LET Ask(op) == [Blank EXCEPT !.pc = "session", !.op = op, !.sid = s, !.ver = v]
       IN  \/ \E op \in {"refresh", "sign_out", "setup"} : Begin(r, Ask(op))
           \/ \E c \in BOOLEAN : Begin(r, [Ask("confirm") EXCEPT !.code = c])
           \/ \E p \in Password : Begin(r, [Ask("change") EXCEPT !.pwd = p])
           \/ \E c \in BOOLEAN : Begin(r, [Ask("disable") EXCEPT !.code = c])
           \/ \E t \in DOMAIN sessions : Begin(r, [Ask("end_session") EXCEPT !.item = t])
           \/ \E e \in Email : Begin(r, [Ask("invite") EXCEPT !.item = e])
           \/ \E u \in DOMAIN users : Begin(r, [Ask("demote") EXCEPT !.item = u])

-----------------------------------------------------------------------------
\* _increment_and_check: the counter is read, and
ReadHits(r) ==
    /\ At(r, "limit")
    /\ req' = [req EXCEPT ![r].pc = "bump", ![r].count = hits, ![r].win = window]
    /\ arrived' = arrived + 1
    /\ UNCHANGED <<rows, hits, window, past>>

AfterLimit(r) == IF req[r].op = "accept" THEN "invite" ELSE "find"

\* then written: SET NX when there was none.  A key of an earlier window is
\* never read again.
BumpHits(r) ==
    /\ At(r, "bump")
    /\ hits' = IF req[r].win # window \/ (req[r].count = 0 /\ hits # 0) THEN hits
               ELSE req[r].count + 1
    /\ IF req[r].count > 0 /\ req[r].count + 1 > Limit
       THEN Reply(r)
       ELSE req' = [req EXCEPT ![r].pc = AfterLimit(r), ![r].count = 0, ![r].win = 0]
    /\ UNCHANGED <<rows, window, arrived, past>>

\* find_by_email: an account whose lockout runs is refused unseen, the
\* password is verified against the row just read.
FindUser(r) ==
    /\ At(r, "find")
    /\ LET row  == Owner(r)
           good == row.pwd = req[r].pwd
           next == CASE req[r].op = "request" -> "act"
                     [] req[r].op = "recovery" -> "credential"
                     [] OTHER -> IF ~good THEN "begin"
                                 ELSE IF row.totp THEN "second" ELSE "clear"
           refused == \/ req[r].op = "recovery" /\ ~row.totp
                      \/ /\ req[r].op = "sign_in"
                         /\ row.status = "locked" /\ row.until = "ahead"
       IN  IF refused THEN Reply(r)
           ELSE req' = [req EXCEPT ![r].pc = next, ![r].stale = row.stale]
    /\ UNCHANGED <<rows, limiter, past>>

\* record_failed_login begins a transaction on a connection of its own, reads
\* the count FOR UPDATE on another one, whose transaction ends with the
\* statement,
BeginFailure(r) ==
    /\ At(r, "begin")
    /\ Goto(r, "count")
    /\ UNCHANGED <<rows, limiter, past>>

CountFailure(r) ==
    /\ At(r, "count")
    /\ req' = [req EXCEPT ![r].pc = "lock", ![r].count = Owner(r).failed]
    /\ UNCHANGED <<rows, limiter, past>>

\* _lockout_minutes_for gives no minutes up to the threshold (a mutant: below it).
LocksAtThreshold(n) == n >= Threshold

LocksOut(n) == n > Threshold

\* and writes the count and the lockout and commits.
RecordFailure(r) ==
    /\ At(r, "lock")
    /\ LET n == req[r].count + 1
           u == req[r].user
       IN  /\ users' = [users EXCEPT
                 ![u].failed = n,
                 ![u].until = IF LocksOut(n) THEN "ahead" ELSE "null",
                 ![u].status = IF LocksOut(n) THEN "locked" ELSE @]
    /\ Reply(r)
    /\ UNCHANGED <<sessions, tokens, invites, totp, limiter, past>>

\* The second factor: its credential must be there and the code right.
SecondFactor(r) ==
    /\ At(r, "second")
    /\ GotoIf(r, totp[req[r].user].row /\ req[r].code, "clear")
    /\ UNCHANGED <<rows, limiter, past>>

\* reset_failed_login; a hash with outdated parameters is replaced.
ClearFailures(r) ==
    /\ At(r, "clear")
    /\ users' = [users EXCEPT ![req[r].user].failed = 0,
                              ![req[r].user].until = "null",
                              ![req[r].user].status = "active"]
    /\ Goto(r, IF req[r].stale THEN "rehash" ELSE "open")
    /\ UNCHANGED <<sessions, tokens, invites, totp, limiter, past>>

SetPassword(u, p) == users' = [users EXCEPT ![u].pwd = p, ![u].stale = FALSE]

Rehash(r) ==
    /\ At(r, "rehash")
    /\ SetPassword(req[r].user, req[r].pwd)
    /\ Goto(r, "open")
    /\ UNCHANGED <<sessions, tokens, invites, totp, limiter, past>>

\* create_session, after the membership every account has was read.
OpenSession(r) ==
    /\ At(r, "open")
    /\ sessions' = Append(sessions, [user |-> req[r].user, ver |-> 0, revoked |-> FALSE,
                                     expired |-> FALSE, epoch |-> req[r].epoch])
    /\ redeemed' = redeemed \cup {<<req[r].op, req[r].item>>}
    /\ Reply(r)
    /\ UNCHANGED <<users, tokens, invites, totp, limiter, resets, severed>>

-----------------------------------------------------------------------------
\* _resolve_session: the session, the account and the membership are three reads.
LookupSession(r) ==
    /\ At(r, "session")
    /\ IF /\ Cookie(r).ver = req[r].ver
          /\ ~Cookie(r).revoked
          /\ ~Cookie(r).expired
       THEN req' = [req EXCEPT ![r].pc = "user", ![r].user = Cookie(r).user]
       ELSE Reply(r)
    /\ UNCHANGED <<rows, limiter, past>>

LookupUser(r) ==
    /\ At(r, "user")
    /\ GotoIf(r, Owner(r).status = "active", "member")
    /\ UNCHANGED <<rows, limiter, past>>

AdminOp == {"end_session", "invite", "demote"}

Handler(op) ==
    CASE op \in {"refresh", "change"} -> "csrf"
      [] op = "disable" -> "verify"
      [] op = "confirm" -> "credential"
      [] OTHER -> "act"

\* require_role, on the role the membership had just now.
LookupMember(r) ==
    /\ At(r, "member")
    /\ GotoIf(r, req[r].op \in AdminOp => Owner(r).role = "org_owner",
              Handler(req[r].op))
    /\ UNCHANGED <<rows, limiter, past>>

\* require_csrf against the row as it is now: the CSRF token changes with the
\* cookie.
CheckCsrf(r) ==
    /\ At(r, "csrf")
    /\ GotoIf(r, Cookie(r).ver = req[r].ver,
              IF req[r].op = "refresh" THEN "rotate" ELSE "verify")
    /\ UNCHANGED <<rows, limiter, past>>

\* password_change and totp_disable verify the current password, which the
\* caller is taken to know.
VerifyPassword(r) ==
    /\ At(r, "verify")
    /\ Goto(r, IF req[r].op = "change" THEN "password" ELSE "credential")
    /\ UNCHANGED <<rows, limiter, past>>

\* update_password_hash of password_change and password_reset_complete.
UpdatePassword(r) ==
    /\ At(r, "password")
    /\ SetPassword(req[r].user, req[r].pwd)
    /\ Goto(r, IF req[r].op = "change" THEN "rotate" ELSE "revoke_all")
    /\ UNCHANGED <<sessions, tokens, invites, totp, limiter, past>>

\* Mutant: the session is written back as it was issued.
RotateAfresh(r) ==
    /\ At(r, "rotate")
    /\ sessions' = [sessions EXCEPT ![req[r].sid].ver = @ + 1,
                                    ![req[r].sid].revoked = FALSE]
    /\ Reply(r)
    /\ UNCHANGED <<users, tokens, invites, totp, limiter, past>>

\* rotate_token.
RotateToken(r) ==
    /\ At(r, "rotate")
    /\ sessions' = [sessions EXCEPT ![req[r].sid].ver = @ + 1]
    /\ Reply(r)
    /\ UNCHANGED <<users, tokens, invites, totp, limiter, past>>

-----------------------------------------------------------------------------
\* consume reads a reset token, and
ReadToken(r) ==
    /\ At(r, "token")
    /\ LET row == tokens[req[r].item]
       IN  IF row.consumed \/ row.expired THEN Reply(r)
           ELSE req' = [req EXCEPT ![r].pc = "mark", ![r].user = row.user]
    /\ UNCHANGED <<rows, limiter, past>>

\* Mutant: the token is only read.
MarkNothing(r) ==
    /\ At(r, "mark")
    /\ Goto(r, "password")
    /\ UNCHANGED <<rows, limiter, past>>

\* marks it whatever it is by now.
MarkToken(r) ==
    /\ At(r, "mark")
    /\ tokens' = [tokens EXCEPT ![req[r].item].consumed = TRUE]
    /\ Goto(r, "password")
    /\ UNCHANGED <<users, sessions, invites, totp, limiter, past>>

\* revoke_all_for_user, the last statement of a reset.
RevokeAll(r) ==
    /\ At(r, "revoke_all")
    /\ sessions' = [s \in DOMAIN sessions |->
                      IF sessions[s].user = req[r].user
                      THEN [sessions[s] EXCEPT !.revoked = TRUE] ELSE sessions[s]]
    /\ resets' = [resets EXCEPT ![req[r].user] = @ + 1]
    /\ redeemed' = redeemed \cup {<<"reset", req[r].item>>}
    /\ Reply(r)
    /\ UNCHANGED <<users, tokens, invites, totp, limiter, severed>>

-----------------------------------------------------------------------------
\* The credential is read by totp_confirm, totp_disable and totp_recovery; a
\* recovery takes its code from the list it has read.
ReadCredential(r) ==
    /\ At(r, "credential")
    /\ LET row == totp[req[r].user]
       IN  CASE req[r].op = "confirm"  -> GotoIf(r, row.row /\ req[r].code, "write")
             [] req[r].op = "disable"  -> GotoIf(r, row.row => req[r].code, "delete")
             [] req[r].op = "recovery" ->
                  IF row.row /\ req[r].item[2] \in row.codes
                  THEN req' = [req EXCEPT ![r].pc = "write",
                                          ![r].codes = row.codes \ {req[r].item[2]}]
                  ELSE Reply(r)
    /\ UNCHANGED <<rows, limiter, past>>

Fresh(u) == {totp[u].gen + 1} \X Code

\* The list is written: a fresh one by totp_confirm, the rest of the one it
\* has read by totp_recovery.  Without a row the UPDATE finds none.
WriteCodes(r) ==
    /\ At(r, "write")
    /\ LET u == req[r].user
           new == IF req[r].op = "confirm"
                  THEN [totp[u] EXCEPT !.gen = @ + 1, !.codes = Fresh(u)]
                  ELSE [totp[u] EXCEPT !.codes = req[r].codes]
       IN  totp' = IF totp[u].row THEN [totp EXCEPT ![u] = new] ELSE totp
    /\ Goto(r, IF req[r].op = "confirm" THEN "flag" ELSE "open")
    /\ UNCHANGED <<users, sessions, tokens, invites, limiter, past>>

\* set_totp_enabled, the last statement of totp_confirm and of totp_disable.
SetTotpEnabled(r) ==
    /\ At(r, "flag")
    /\ users' = [users EXCEPT ![req[r].user].totp = (req[r].op = "confirm")]
    /\ Reply(r)
    /\ UNCHANGED <<sessions, tokens, invites, totp, limiter, past>>

\* Mutant: the flag of the account stays.
DeleteOnly(r) ==
    /\ At(r, "delete")
    /\ totp' = [totp EXCEPT ![req[r].user].row = FALSE, ![req[r].user].codes = {}]
    /\ Reply(r)
    /\ UNCHANGED <<users, sessions, tokens, invites, limiter, past>>

\* The removal is two statements of no transaction: the credential goes first,
\* the flag of the account after it.
DeleteCredential(r) ==
    /\ At(r, "delete")
    /\ totp' = [totp EXCEPT ![req[r].user].row = FALSE, ![req[r].user].codes = {}]
    /\ Goto(r, "flag")
    /\ UNCHANGED <<users, sessions, tokens, invites, limiter, past>>

-----------------------------------------------------------------------------
\* accept_invite reads the invite,
ReadInvite(r) ==
    /\ At(r, "invite")
    /\ LET row == invites[req[r].item]
       IN  GotoIf(r, ~row.consumed /\ ~row.expired, "email")
    /\ UNCHANGED <<rows, limiter, past>>

Taken(email) == \E u \in DOMAIN users : users[u].email = email

\* looks for an account with its address,
CheckEmail(r) ==
    /\ At(r, "email")
    /\ GotoIf(r, ~Taken(invites[req[r].item].email), "create")
    /\ UNCHANGED <<rows, limiter, past>>

\* Mutant: no unique index on the address.
CreateAnyUser(r) ==
    /\ At(r, "create")
    /\ Len(users) < MaxUsers
    /\ users' = Append(users, NewUser(invites[req[r].item].email, req[r].pwd,
                                      invites[req[r].item].role, req[r].item))
    /\ req' = [req EXCEPT ![r].pc = "consume", ![r].user = Len(users) + 1]
    /\ UNCHANGED <<sessions, tokens, invites, totp, limiter, past>>

\* creates it, unless the unique index on the address refuses,
CreateUser(r) ==
    /\ At(r, "create")
    /\ LET row == invites[req[r].item]
       IN  IF Taken(row.email)
           THEN Reply(r) /\ UNCHANGED users
           ELSE /\ Len(users) < MaxUsers
                /\ users' = Append(users, NewUser(row.email, req[r].pwd, row.role,
                                                  req[r].item))
                /\ req' = [req EXCEPT ![r].pc = "consume", ![r].user = Len(users) + 1]
    /\ UNCHANGED <<sessions, tokens, invites, totp, limiter, past>>

\* and consumes the invite whatever it is by now.
ConsumeInvite(r) ==
    /\ At(r, "consume")
    /\ invites' = [invites EXCEPT ![req[r].item].consumed = TRUE]
    /\ Goto(r, "open")
    /\ UNCHANGED <<users, sessions, tokens, totp, limiter, past>>

-----------------------------------------------------------------------------
\* Operations whose handler is one statement.
IssueReset(r) ==
    /\ req[r].op = "request"
    /\ tokens' = Append(tokens, [user |-> req[r].user, consumed |-> FALSE,
                                 expired |-> FALSE])
    /\ UNCHANGED <<users, sessions, invites, totp>>

RevokeSession(r) ==
    /\ req[r].op \in {"sign_out", "end_session"}
    /\ LET s == IF req[r].op = "sign_out" THEN req[r].sid ELSE req[r].item
       IN  sessions' = [sessions EXCEPT ![s].revoked = TRUE]
    /\ UNCHANGED <<users, tokens, invites, totp>>

\* totp_setup inserts a row and fails when there is one.
SetupTotp(r) ==
    /\ req[r].op = "setup"
    /\ LET u == req[r].user
       IN  totp' = IF totp[u].row THEN totp
                   ELSE [totp EXCEPT ![u] = [row |-> TRUE, gen |-> @.gen + 1,
                                             codes |-> Fresh(u)]]
    /\ UNCHANGED <<users, sessions, tokens, invites>>

SendInvite(r) ==
    /\ req[r].op = "invite"
    /\ invites' = Append(invites, [email |-> req[r].item, role |-> "compliance_auditor",
                                   consumed |-> FALSE, expired |-> FALSE])
    /\ UNCHANGED <<users, sessions, tokens, totp>>

\* admin_change_role, also of the last owner.
ChangeRole(r) ==
    /\ req[r].op = "demote"
    /\ users' = [users EXCEPT ![req[r].item].role = "compliance_auditor"]
    /\ UNCHANGED <<sessions, tokens, invites, totp>>

Act(r) ==
    /\ At(r, "act")
    /\ \/ IssueReset(r)
       \/ RevokeSession(r)
       \/ SetupTotp(r)
       \/ SendInvite(r)
       \/ ChangeRole(r)
    /\ Reply(r)
    /\ UNCHANGED <<limiter, past>>

\* A statement fails, or the server dies: the request is over, and what its
\* earlier statements wrote stays.  The transaction of a failed sign-in has
\* written nothing before its last step.
Abort(r) ==
    /\ req[r].pc # "idle"
    /\ lapses < MaxLapses
    /\ lapses' = lapses + 1
    /\ severed' = IF req[r].op = "disable" /\ req[r].pc = "flag"
                  THEN severed \cup {req[r].user} ELSE severed
    /\ Reply(r)
    /\ UNCHANGED <<rows, limiter, begun, resets, redeemed, raced>>

-----------------------------------------------------------------------------
Lapsing ==
    /\ lapses < MaxLapses
    /\ lapses' = lapses + 1
    /\ UNCHANGED <<req, begun, past, raced>>

\* A lockout, a session, a token or an invite reaches its end.
Lapse ==
    /\ Lapsing
    /\ \/ \E u \in DOMAIN users :
             /\ users[u].until = "ahead"
             /\ users' = [users EXCEPT ![u].until = "past"]
             /\ UNCHANGED <<sessions, tokens, invites>>
       \/ \E s \in DOMAIN sessions :
             /\ sessions' = [sessions EXCEPT ![s].expired = TRUE]
             /\ UNCHANGED <<users, tokens, invites>>
       \/ \E t \in DOMAIN tokens :
             /\ tokens' = [tokens EXCEPT ![t].expired = TRUE]
             /\ UNCHANGED <<users, sessions, invites>>
       \/ \E i \in DOMAIN invites :
             /\ invites' = [invites EXCEPT ![i].expired = TRUE]
             /\ UNCHANGED <<users, sessions, tokens>>
    /\ UNCHANGED <<totp, limiter>>

\* Mutant: the key of the counter does not name the window.
OneKey ==
    /\ Lapsing
    /\ window' = window + 1
    /\ arrived' = 0
    /\ UNCHANGED <<rows, hits>>

\* A window of the rate limit ends: its successor counts under another key.
NextWindow ==
    /\ Lapsing
    /\ window' = window + 1
    /\ hits' = 0
    /\ arrived' = 0
    /\ UNCHANGED rows

\* One account, with a session and a reset link; when it is an old one it uses
\* the second factor and its hash has outdated parameters.  Invites were sent.
Init ==
    /\ \E old \in BOOLEAN :
          /\ users = <<[NewUser(FirstEmail, FirstPassword, "org_owner", 0)
                          EXCEPT !.totp = old, !.stale = old]>>
          /\ totp = [u \in User |->
                       IF u = 1 /\ old
                       THEN [row |-> TRUE, gen |-> 1, codes |-> {1} \X Code]
                       ELSE [row |-> FALSE, gen |-> 0, codes |-> {}]]
    /\ sessions = <<[user |-> 1, ver |-> 0, revoked |-> FALSE, expired |-> FALSE,
                     epoch |-> 0]>>
    /\ tokens = <<[user |-> 1, consumed |-> FALSE, expired |-> FALSE]>>
    /\ invites = [i \in DOMAIN Invited |->
                    [email |-> Invited[i], role |-> "compliance_auditor",
                     consumed |-> FALSE, expired |-> FALSE]]
    /\ hits = 0 /\ window = 0 /\ arrived = 0
    /\ req = [r \in Request |-> Blank]
    /\ begun = 0 /\ lapses = 0
    /\ resets = [u \in User |-> 0] /\ redeemed = {} /\ severed = {}
    /\ raced = {}

RequestStep(r) ==
    \/ ArriveSignIn(r) \/ ArriveByMail(r) \/ ArriveWithCookie(r)
    \/ ReadHits(r) \/ BumpHits(r)
    \/ FindUser(r) \/ BeginFailure(r) \/ CountFailure(r) \/ RecordFailure(r)
    \/ SecondFactor(r) \/ ClearFailures(r) \/ Rehash(r) \/ OpenSession(r)
    \/ LookupSession(r) \/ LookupUser(r) \/ LookupMember(r) \/ CheckCsrf(r)
    \/ VerifyPassword(r) \/ UpdatePassword(r) \/ RotateToken(r)
    \/ ReadToken(r) \/ MarkToken(r) \/ RevokeAll(r)
    \/ ReadCredential(r) \/ WriteCodes(r) \/ SetTotpEnabled(r) \/ DeleteCredential(r)
    \/ ReadInvite(r) \/ CheckEmail(r) \/ CreateUser(r) \/ ConsumeInvite(r)
    \/ Act(r) \/ Abort(r)

Next == (\E r \in Request : RequestStep(r)) \/ Lapse \/ NextWindow

Spec == Init /\ [][Next]_vars

-----------------------------------------------------------------------------
\* An account over the threshold is locked until a deadline, and only such an
\* account has one: no order of failing and succeeding sign-ins leaves a count
\* that disagrees with the lockout (users.py:216).
LockoutMatchesCount ==
    \A u \in DOMAIN users :
       /\ users[u].failed > Threshold <=> users[u].until # "null"
       /\ users[u].failed > Threshold => users[u].status = "locked"

\* A password reset ends every session opened by a sign-in that began before it
\* was complete, also one whose cookie was being rotated; only a request that
\* opens a session and overlapped the reset can have left one (routes.py:601).
ResetEndsSessions ==
    \A s \in DOMAIN sessions :
       \/ sessions[s].epoch = resets[sessions[s].user]
       \/ sessions[s].revoked
       \/ {{"sign_in", "reset"}, {"recovery", "reset"}, {"accept", "reset"}}
             \cap raced # {}

\* A reset link or an invite whose redemption was over when a request came in
\* does not serve it, and neither does a recovery code unless two recoveries
\* overlapped (tokens.py:74, routes.py:815 and :1028).
RedeemedOnce ==
    \A r \in Request :
       req[r].again =>
          \/ req[r].op = "reset" /\ req[r].pc = "token"
          \/ req[r].op = "accept" /\ req[r].pc \in {"limit", "bump", "invite"}
          \/ /\ req[r].op = "recovery"
             /\ req[r].pc \in {"find", "credential"} \/ {"recovery"} \in raced

\* However many requests redeem invites to an address together, one account has
\* it (users.py:149).
OneAccountPerAddress ==
    \A u, v \in DOMAIN users : users[u].email = users[v].email => u = v

\* At rest an account that asks for a second factor has the credential to check
\* it with, wherever sign-ins, recoveries, setups, confirmations and removals
\* fail or overlap; what can leave it without one is a confirmation that
\* overlapped a removal, and a removal that ended between its two statements
\* (routes.py:802 and :803).
SecondFactorUsable ==
    (\A r \in Request : req[r].pc = "idle") /\ {"confirm", "disable"} \notin raced
       => \A u \in DOMAIN users : users[u].totp => totp[u].row \/ u \in severed

\* The rate limit never counts more requests than came in its window, so nobody
\* is turned away early (ratelimit.py:43).
NeverCountsTwice == hits <= arrived
=============================================================================
