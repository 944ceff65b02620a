---------------------------- MODULE AccountsProofs ----------------------------
(***************************************************************************)
(* For any accounts, passwords, addresses, codes, limits and number of     *)
(* requests in flight: the count and the lockout agree, one account has an *)
(* address, the rate limit never overcounts, a link or a code serves once, *)
(* a reset ends the sessions and the second factor stays usable.           *)
(*                                                                         *)
(* A statement of a request is first reduced to what it does to the        *)
(* request (Goes, Moves, Replies) and to the tables; every invariant is    *)
(* then shown from those facts.                                            *)
(***************************************************************************)
EXTENDS Accounts, TLAPS

CookieOp == {"refresh", "sign_out", "setup", "confirm", "change", "disable",
             "end_session", "invite", "demote"}

Operation == {"none", "sign_in", "request", "reset", "accept", "recovery"} \cup CookieOp

ReqRec ==
    [pc : Steps, op : Operation, user : Nat, sid : Nat, ver : Nat, pwd : Password,
     item : Nat \cup Email \cup (Nat \X (Nat \X Code)), code : BOOLEAN,
     stale : BOOLEAN, count : Nat, codes : SUBSET (Nat \X Code), again : BOOLEAN,
     epoch : Nat, win : Nat]

TokenRow == [user : Nat, consumed : BOOLEAN, expired : BOOLEAN]

InviteRow == [email : Email, role : Role, consumed : BOOLEAN, expired : BOOLEAN]

\* The statements of each operation.
StepOK(x) ==
    /\ x.pc \in {"limit", "bump"} => x.op \in {"sign_in", "request", "accept"}
    /\ x.pc = "find" => x.op \in {"sign_in", "request", "recovery"}
    /\ x.pc \in {"begin", "count", "lock", "second", "clear", "rehash"} => x.op = "sign_in"
    /\ x.pc = "open" => x.op \in {"sign_in", "recovery", "accept"}
    /\ x.pc \in {"session", "user", "member"} => x.op \in CookieOp
    /\ x.pc = "csrf" => x.op \in {"refresh", "change"}
    /\ x.pc = "verify" => x.op \in {"change", "disable"}
    /\ x.pc = "password" => x.op \in {"change", "reset"}
    /\ x.pc = "rotate" => x.op \in {"refresh", "change"}
    /\ x.pc \in {"token", "mark", "revoke_all"} => x.op = "reset"
    /\ x.pc = "credential" => x.op \in {"confirm", "disable", "recovery"}
    /\ x.pc = "write" => x.op \in {"confirm", "recovery"}
    /\ x.pc = "flag" => x.op \in {"confirm", "disable"}
    /\ x.pc = "delete" => x.op = "disable"
    /\ x.pc \in {"invite", "email", "create", "consume"} => x.op = "accept"
    /\ x.pc = "act" => x.op \in {"request", "sign_out", "setup", "end_session",
                                 "invite", "demote"}

\* What an operation names is there: U, S, T and I are as long as the tables of
\* accounts, sessions, tokens and invites, of is the account of a token, gen the
\* generation of an account's codes.
NamesOK(x, U, S, T, I, of, gen) ==
    /\ x.user \in 0..U /\ x.sid \in 0..S
    /\ x.op \in {"sign_in", "request", "recovery"} => x.user \in 1..U
    /\ x.op = "recovery" =>
          /\ x.item \in Nat \X (Nat \X Code)
          /\ x.item[1] = x.user
          /\ x.item[2][1] <= gen[x.user]
    /\ x.op = "reset" =>
          /\ x.item \in 1..T
          /\ x.pc # "token" => x.user = of[x.item]
    /\ x.op = "accept" =>
          /\ x.item \in 1..I
          /\ x.pc \in {"consume", "open"} => x.user \in 1..U
    /\ x.op \in CookieOp =>
          /\ x.sid \in 1..S
          /\ x.pc # "session" => x.user \in 1..U
    /\ x.op = "end_session" => x.item \in 1..S
    /\ x.op = "invite" => x.item \in Email
    /\ x.op = "demote" => x.item \in 1..U

Of  == [t \in 1..Len(tokens) |-> tokens[t].user]
Gen == [u \in User |-> totp[u].gen]

TablesOK ==
    /\ users \in Seq(UserRow)
    /\ Len(users) <= MaxUsers
    /\ sessions \in Seq(SessionRow)
    /\ \A s \in 1..Len(sessions) : sessions[s].user \in 1..Len(users)
    /\ tokens \in Seq(TokenRow)
    /\ \A t \in 1..Len(tokens) : tokens[t].user \in 1..Len(users)
    /\ invites \in Seq(InviteRow)
    /\ totp \in [User -> Credential]
    /\ hits \in Nat /\ arrived \in Nat /\ window \in Nat
    /\ resets \in [User -> Nat]

RequestsOK ==
    /\ req \in [Request -> ReqRec]
    /\ \A r \in Request :
          /\ StepOK(req[r])
          /\ NamesOK(req[r], Len(users), Len(sessions), Len(tokens), Len(invites), Of, Gen)

TypeInv == TablesOK /\ RequestsOK

-----------------------------------------------------------------------------
\* A request is at its next statement, and still what it was.
Moves(r, step) ==
    /\ req' \in [Request -> ReqRec]
    /\ \A q \in Request : q # r => req'[q] = req[q]
    /\ req[r].pc # "idle"
    /\ req'[r].pc = step
    /\ req'[r].op = req[r].op /\ req'[r].sid = req[r].sid
    /\ req'[r].item = req[r].item /\ req'[r].again = req[r].again
    /\ req'[r].epoch = req[r].epoch

\* It also keeps its account and its list of codes.
Goes(r, step) ==
    /\ Moves(r, step)
    /\ req'[r].user = req[r].user
    /\ req'[r].codes = req[r].codes

\* It is answered.
Replies(r) ==
    /\ req' \in [Request -> ReqRec]
    /\ \A q \in Request : q # r => req'[q] = req[q]
    /\ req[r].pc # "idle"
    /\ req'[r] = Blank

LEMMA BlankType ==
    /\ Blank \in ReqRec
    /\ Blank.pc = "idle" /\ Blank.op = "none" /\ Blank.again = FALSE
BY AccountsAssumption DEF Blank, ReqRec, Steps, Operation, CookieOp

LEMMA PutRequest ==
    ASSUME req \in [Request -> ReqRec], NEW r \in Request, NEW x \in ReqRec,
           req' = [req EXCEPT ![r] = x]
    PROVE  /\ req' \in [Request -> ReqRec]
           /\ \A q \in Request : q # r => req'[q] = req[q]
           /\ req'[r] = x
OBVIOUS

LEMMA ReplyMoves ==
    ASSUME req \in [Request -> ReqRec], NEW r \in Request, req[r].pc # "idle", Reply(r)
    PROVE  Replies(r)
<1>1. Blank \in ReqRec
  BY BlankType
<1>. QED BY <1>1 DEF Reply, Replies

LEMMA GotoMoves ==
    ASSUME req \in [Request -> ReqRec], NEW r \in Request, req[r].pc # "idle",
           NEW step \in Steps, Goto(r, step)
    PROVE  Goes(r, step)
<1> DEFINE x == [req[r] EXCEPT !.pc = step]
<1>1. req' = [req EXCEPT ![r] = x]
  BY DEF Goto
<1>2. /\ x \in ReqRec /\ x.pc = step
      /\ x.op = req[r].op /\ x.sid = req[r].sid /\ x.item = req[r].item
      /\ x.again = req[r].again /\ x.epoch = req[r].epoch
      /\ x.user = req[r].user /\ x.codes = req[r].codes
  <2>1. req[r] \in ReqRec
    OBVIOUS
  <2>. QED BY <2>1 DEF ReqRec
<1> HIDE DEF x
<1>. QED BY <1>1, <1>2, PutRequest DEF Goes, Moves

\* The statements that also note a count, whether a hash is outdated, an account or
\* a list.
LEMMA WindowMoves ==
    ASSUME req \in [Request -> ReqRec], NEW r \in Request, req[r].pc # "idle",
           NEW step \in Steps, NEW n \in Nat, NEW m \in Nat,
           req' = [req EXCEPT ![r].pc = step, ![r].count = n, ![r].win = m]
    PROVE  Goes(r, step) /\ req'[r].count = n /\ req'[r].win = m
<1> DEFINE x == [req[r] EXCEPT !.pc = step, !.count = n, !.win = m]
<1>1. req' = [req EXCEPT ![r] = x]
  OBVIOUS
<1>2. /\ x \in ReqRec /\ x.pc = step
      /\ x.op = req[r].op /\ x.sid = req[r].sid /\ x.item = req[r].item
      /\ x.again = req[r].again /\ x.epoch = req[r].epoch
      /\ x.user = req[r].user /\ x.codes = req[r].codes
      /\ x.count = n /\ x.win = m
  <2>1. req[r] \in ReqRec
    OBVIOUS
  <2>. QED BY <2>1 DEF ReqRec
<1> HIDE DEF x
<1>. QED BY <1>1, <1>2, PutRequest DEF Goes, Moves

LEMMA CountMoves ==
    ASSUME req \in [Request -> ReqRec], NEW r \in Request, req[r].pc # "idle",
           NEW step \in Steps, NEW n \in Nat,
           req' = [req EXCEPT ![r].pc = step, ![r].count = n]
    PROVE  Goes(r, step)
<1> DEFINE x == [req[r] EXCEPT !.pc = step, !.count = n]
<1>1. req' = [req EXCEPT ![r] = x]
  OBVIOUS
<1>2. /\ x \in ReqRec /\ x.pc = step
      /\ x.op = req[r].op /\ x.sid = req[r].sid /\ x.item = req[r].item
      /\ x.again = req[r].again /\ x.epoch = req[r].epoch
      /\ x.user = req[r].user /\ x.codes = req[r].codes
  <2>1. req[r] \in ReqRec
    OBVIOUS
  <2>. QED BY <2>1 DEF ReqRec
<1> HIDE DEF x
<1>. QED BY <1>1, <1>2, PutRequest DEF Goes, Moves

LEMMA StaleMoves ==
    ASSUME req \in [Request -> ReqRec], NEW r \in Request, req[r].pc # "idle",
           NEW step \in Steps, NEW b \in BOOLEAN,
           req' = [req EXCEPT ![r].pc = step, ![r].stale = b]
    PROVE  Goes(r, step)
<1> DEFINE x == [req[r] EXCEPT !.pc = step, !.stale = b]
<1>1. req' = [req EXCEPT ![r] = x]
  OBVIOUS
<1>2. /\ x \in ReqRec /\ x.pc = step
      /\ x.op = req[r].op /\ x.sid = req[r].sid /\ x.item = req[r].item
      /\ x.again = req[r].again /\ x.epoch = req[r].epoch
      /\ x.user = req[r].user /\ x.codes = req[r].codes
  <2>1. req[r] \in ReqRec
    OBVIOUS
  <2>. QED BY <2>1 DEF ReqRec
<1> HIDE DEF x
<1>. QED BY <1>1, <1>2, PutRequest DEF Goes, Moves

LEMMA UserMoves ==
    ASSUME req \in [Request -> ReqRec], NEW r \in Request, req[r].pc # "idle",
           NEW step \in Steps, NEW n \in Nat,
           req' = [req EXCEPT ![r].pc = step, ![r].user = n]
    PROVE  Moves(r, step) /\ req'[r].user = n
<1> DEFINE x == [req[r] EXCEPT !.pc = step, !.user = n]
<1>1. req' = [req EXCEPT ![r] = x]
  OBVIOUS
<1>2. /\ x \in ReqRec /\ x.pc = step
      /\ x.op = req[r].op /\ x.sid = req[r].sid /\ x.item = req[r].item
      /\ x.again = req[r].again /\ x.epoch = req[r].epoch
      /\ x.user = n
  <2>1. req[r] \in ReqRec
    OBVIOUS
  <2>. QED BY <2>1 DEF ReqRec
<1> HIDE DEF x
<1>. QED BY <1>1, <1>2, PutRequest DEF Goes, Moves

LEMMA CodesMoves ==
    ASSUME req \in [Request -> ReqRec], NEW r \in Request, req[r].pc # "idle",
           NEW step \in Steps, NEW codes \in SUBSET (Nat \X Code),
           req' = [req EXCEPT ![r].pc = step, ![r].codes = codes]
    PROVE  Moves(r, step) /\ req'[r].user = req[r].user /\ req'[r].codes = codes
<1> DEFINE x == [req[r] EXCEPT !.pc = step, !.codes = codes]
<1>1. req' = [req EXCEPT ![r] = x]
  OBVIOUS
<1>2. /\ x \in ReqRec /\ x.pc = step
      /\ x.op = req[r].op /\ x.sid = req[r].sid /\ x.item = req[r].item
      /\ x.again = req[r].again /\ x.epoch = req[r].epoch
      /\ x.user = req[r].user /\ x.codes = codes
  <2>1. req[r] \in ReqRec
    OBVIOUS
  <2>. QED BY <2>1 DEF ReqRec
<1> HIDE DEF x
<1>. QED BY <1>1, <1>2, PutRequest DEF Goes, Moves

-----------------------------------------------------------------------------
\* Statements that read: the tables stay as they are.
Still == UNCHANGED <<users, sessions, tokens, invites, totp, resets, redeemed, raced>>

Calm == Still /\ UNCHANGED <<hits, window, arrived>>

\* On to a statement that no invariant but StepOK speaks of.
Walks(r) ==
    /\ Goes(r, req'[r].pc)
    /\ StepOK(req'[r])
    /\ req'[r].pc \notin {"idle", "bump", "write", "open", "flag", "revoke_all", "mark",
                         "consume"}
    /\ req[r].pc # "session"
    /\ req[r].op # "reset"
    /\ req[r].op = "accept" => req[r].pc = "email"
    /\ req[r].op = "recovery" => req[r].pc = "find" /\ req'[r].pc = "credential"

\* A request with a user names one of the accounts.
LEMMA OwnerExists ==
    ASSUME TypeInv, NEW r \in Request
    PROVE  /\ req \in [Request -> ReqRec] /\ req[r] \in ReqRec
           /\ StepOK(req[r])
           /\ NamesOK(req[r], Len(users), Len(sessions), Len(tokens), Len(invites), Of, Gen)
           /\ \/ req[r].op \in {"sign_in", "request", "recovery"}
              \/ req[r].op \in CookieOp /\ req[r].pc # "session"
              \/ req[r].op = "accept" /\ req[r].pc \in {"consume", "open"}
              \/ req[r].op = "reset" /\ req[r].pc # "token"
              => req[r].user \in 1..Len(users) /\ req[r].user \in User
<1>1. /\ req \in [Request -> ReqRec] /\ req[r] \in ReqRec
      /\ StepOK(req[r])
      /\ NamesOK(req[r], Len(users), Len(sessions), Len(tokens), Len(invites), Of, Gen)
  BY DEF TypeInv, RequestsOK
<1>2. 1..Len(users) \subseteq User
  BY AccountsAssumption DEF TypeInv, TablesOK, User
<1>3. \A t \in 1..Len(tokens) : Of[t] \in 1..Len(users)
  BY DEF Of, TypeInv, TablesOK
<1>. QED BY <1>1, <1>2, <1>3 DEF NamesOK

LEMMA LimitStep ==
    ASSUME TypeInv, NEW r \in Request
    PROVE  /\ ReadHits(r) =>
                /\ req[r].pc = "limit" /\ Goes(r, "bump")
                /\ req'[r].count = hits /\ req'[r].win = window
                /\ Still /\ arrived' = arrived + 1 /\ UNCHANGED <<hits, window>>
           /\ BumpHits(r) =>
                /\ req[r].pc = "bump"
                /\ \/ Replies(r)
                   \/ /\ Goes(r, AfterLimit(r)) /\ StepOK(req'[r])
                      /\ req'[r].pc \in {"invite", "find"}
                /\ Still /\ UNCHANGED <<window, arrived>>
                /\ \/ hits' = hits
                   \/ req[r].win = window /\ hits' = req[r].count + 1
<1>0. req \in [Request -> ReqRec] /\ StepOK(req[r])
  BY OwnerExists
<1>1. ASSUME ReadHits(r)
      PROVE  /\ req[r].pc = "limit" /\ Goes(r, "bump")
             /\ req'[r].count = hits /\ req'[r].win = window
             /\ Still /\ arrived' = arrived + 1 /\ UNCHANGED <<hits, window>>
  <2>1. req[r].pc = "limit" /\ Still /\ arrived' = arrived + 1 /\ UNCHANGED <<hits, window>>
    BY <1>1 DEF ReadHits, At, Still, rows, past
  <2>2. req' = [req EXCEPT ![r].pc = "bump", ![r].count = hits, ![r].win = window]
    BY <1>1 DEF ReadHits
  <2>3. hits \in Nat /\ window \in Nat /\ "bump" \in Steps
    BY DEF TypeInv, TablesOK, Steps
  <2>4. req[r].pc # "idle"
    BY <2>1
  <2>5. Goes(r, "bump") /\ req'[r].count = hits /\ req'[r].win = window
    <3> DEFINE x == [req[r] EXCEPT !.pc = "bump", !.count = hits, !.win = window]
    <3>1. req' = [req EXCEPT ![r] = x]
      BY <1>0, <2>2
    <3>2. /\ x \in ReqRec /\ x.pc = "bump"
          /\ x.op = req[r].op /\ x.sid = req[r].sid /\ x.item = req[r].item
          /\ x.again = req[r].again /\ x.epoch = req[r].epoch
          /\ x.user = req[r].user /\ x.codes = req[r].codes
          /\ x.count = hits /\ x.win = window
      <4>1. req[r] \in ReqRec
        BY <1>0
      <4>. QED BY <2>3, <4>1 DEF ReqRec
    <3> HIDE DEF x
    <3>. QED BY <1>0, <2>4, <3>1, <3>2, PutRequest DEF Goes, Moves
  <2>. QED BY <2>1, <2>5
<1>2. ASSUME BumpHits(r)
      PROVE  /\ req[r].pc = "bump"
             /\ \/ Replies(r)
                \/ /\ Goes(r, AfterLimit(r)) /\ StepOK(req'[r])
                   /\ req'[r].pc \in {"invite", "find"}
             /\ Still /\ UNCHANGED <<window, arrived>>
             /\ \/ hits' = hits
                \/ req[r].win = window /\ hits' = req[r].count + 1
  <2>1. req[r].pc = "bump" /\ Still /\ UNCHANGED <<window, arrived>>
    BY <1>2 DEF BumpHits, At, Still, rows, past
  <2>2. \/ hits' = hits
        \/ req[r].win = window /\ hits' = req[r].count + 1
    BY <1>2 DEF BumpHits
  <2>3. CASE Reply(r)
    BY <1>0, <2>1, <2>2, <2>3, ReplyMoves
  <2>4. CASE req' = [req EXCEPT ![r].pc = AfterLimit(r), ![r].count = 0, ![r].win = 0]
    <3>1. AfterLimit(r) \in Steps /\ AfterLimit(r) \in {"invite", "find"}
      BY DEF AfterLimit, Steps
    <3>2. Goes(r, AfterLimit(r))
      BY <1>0, <2>1, <2>4, <3>1, WindowMoves
    <3>3. StepOK(req'[r])
      BY <1>0, <2>1, <3>1, <3>2 DEF Goes, Moves, StepOK, AfterLimit
    <3>. QED BY <2>1, <2>2, <3>1, <3>2, <3>3 DEF Goes, Moves
  <2>. QED BY <1>2, <2>3, <2>4 DEF BumpHits
<1>. QED BY <1>1, <1>2

LEMMA SignInLooks ==
    ASSUME TypeInv, NEW r \in Request,
           FindUser(r) \/ BeginFailure(r) \/ CountFailure(r) \/ SecondFactor(r)
    PROVE  Calm /\ (Replies(r) \/ Walks(r))
<1>0. req \in [Request -> ReqRec] /\ req[r] \in ReqRec /\ StepOK(req[r])
  BY OwnerExists
<1>1. Calm
  BY DEF FindUser, BeginFailure, CountFailure, SecondFactor, At, Calm, Still, rows, limiter, past
<1>2. CASE FindUser(r)
  <2>1. req[r].pc = "find" /\ req[r].op \in {"sign_in", "request", "recovery"}
    BY <1>0, <1>2 DEF FindUser, At, StepOK
  <2>2. CASE Reply(r)
    BY <1>0, <1>1, <2>1, <2>2, ReplyMoves
  <2>3. CASE ~Reply(r)
    <3>1. PICK step \in {"act", "credential", "begin", "second", "clear"}, b \in BOOLEAN :
             /\ req' = [req EXCEPT ![r].pc = step, ![r].stale = b]
             /\ req[r].op = "request" => step = "act"
             /\ req[r].op = "recovery" => step = "credential"
             /\ req[r].op = "sign_in" => step \in {"begin", "second", "clear"}
      <4>1. Owner(r).stale \in BOOLEAN
        <5>1. req[r].user \in 1..Len(users)
          BY <2>1, OwnerExists
        <5>2. users[req[r].user] \in UserRow
          BY <5>1 DEF TypeInv, TablesOK
        <5>. QED BY <5>2 DEF Owner, UserRow
      <4>2. PICK step : /\ req' = [req EXCEPT ![r].pc = step, ![r].stale = Owner(r).stale]
                        /\ step = CASE req[r].op = "request" -> "act"
                                     [] req[r].op = "recovery" -> "credential"
                                     [] OTHER -> IF ~(Owner(r).pwd = req[r].pwd) THEN "begin"
                                                 ELSE IF Owner(r).totp THEN "second"
                                                 ELSE "clear"
        BY <1>2, <2>3, Zenon DEF FindUser
      <4>3. /\ req[r].op = "request" => step = "act"
            /\ req[r].op = "recovery" => step = "credential"
            /\ req[r].op = "sign_in" => step \in {"begin", "second", "clear"}
        BY <4>2
      <4>4. step \in {"act", "credential", "begin", "second", "clear"}
        BY <2>1, <4>3
      <4>. QED BY <4>1, <4>2, <4>3, <4>4
    <3>2. Goes(r, step)
      BY <1>0, <2>1, <3>1, StaleMoves DEF Steps
    <3>. QED BY <1>1, <2>1, <3>1, <3>2 DEF Walks, Goes, Moves, StepOK
  <2>. QED BY <2>2, <2>3
<1>3. CASE BeginFailure(r)
  <2>1. req[r].pc = "begin" /\ Goto(r, "count")
    BY <1>3 DEF BeginFailure, At
  <2>2. Goes(r, "count")
    BY <1>0, <2>1, GotoMoves DEF Steps
  <2>. QED BY <1>0, <1>1, <2>1, <2>2 DEF Walks, Goes, Moves, StepOK
<1>4. CASE CountFailure(r)
  <2>1. /\ req[r].pc = "count"
        /\ req' = [req EXCEPT ![r].pc = "lock", ![r].count = Owner(r).failed]
    BY <1>4 DEF CountFailure, At
  <2>2. Owner(r).failed \in Nat
    <3>1. req[r].user \in 1..Len(users)
      BY <1>0, <2>1, OwnerExists DEF StepOK
    <3>2. users[req[r].user] \in UserRow
      BY <3>1 DEF TypeInv, TablesOK
    <3>. QED BY <3>2 DEF Owner, UserRow
  <2>3. Goes(r, "lock")
    BY <1>0, <2>1, <2>2, CountMoves DEF Steps
  <2>. QED BY <1>0, <1>1, <2>1, <2>3 DEF Walks, Goes, Moves, StepOK
<1>5. CASE SecondFactor(r)
  <2>1. req[r].pc = "second" /\ (Reply(r) \/ Goto(r, "clear"))
    BY <1>5 DEF SecondFactor, At, GotoIf
  <2>2. CASE Reply(r)
    BY <1>0, <1>1, <2>1, <2>2, ReplyMoves
  <2>3. CASE Goto(r, "clear")
    <3>1. Goes(r, "clear")
      BY <1>0, <2>1, <2>3, GotoMoves DEF Steps
    <3>. QED BY <1>0, <1>1, <2>1, <3>1 DEF Walks, Goes, Moves, StepOK
  <2>. QED BY <2>1, <2>2, <2>3
<1>. QED BY <1>2, <1>3, <1>4, <1>5

\* _resolve_session, the role and the CSRF token.
LEMMA CookieLooks ==
    ASSUME TypeInv, NEW r \in Request,
           \/ LookupSession(r) \/ LookupUser(r) \/ LookupMember(r)
           \/ CheckCsrf(r) \/ VerifyPassword(r)
    PROVE  /\ Calm
           /\ \/ Replies(r)
              \/ Walks(r)
              \/ /\ req[r].pc = "session" /\ Moves(r, "user")
                 /\ req'[r].user = sessions[req[r].sid].user
<1>0. req \in [Request -> ReqRec] /\ req[r] \in ReqRec /\ StepOK(req[r])
  BY OwnerExists
<1>1. Calm
  BY DEF LookupSession, LookupUser, LookupMember, CheckCsrf, VerifyPassword, At, Calm, Still,
         rows, limiter, past
<1>2. CASE LookupSession(r)
  <2>1. /\ req[r].pc = "session"
        /\ \/ Reply(r)
           \/ req' = [req EXCEPT ![r].pc = "user", ![r].user = sessions[req[r].sid].user]
    BY <1>2 DEF LookupSession, At, Cookie
  <2>2. sessions[req[r].sid].user \in Nat
    <3>1. req[r].sid \in 1..Len(sessions)
      BY <1>0, <2>1, OwnerExists DEF StepOK, NamesOK
    <3>. QED BY <3>1 DEF TypeInv, TablesOK
  <2>3. CASE Reply(r)
    BY <1>0, <1>1, <2>1, <2>3, ReplyMoves
  <2>4. CASE req' = [req EXCEPT ![r].pc = "user", ![r].user = sessions[req[r].sid].user]
    <3>1. Moves(r, "user") /\ req'[r].user = sessions[req[r].sid].user
      <4>1. req[r].pc # "idle" /\ "user" \in Steps
        BY <2>1 DEF Steps
      <4>. QED BY <1>0, <2>2, <2>4, <4>1, UserMoves, Zenon
    <3>. QED BY <1>1, <2>1, <3>1
  <2>. QED BY <2>1, <2>3, <2>4
<1>3. CASE LookupUser(r) \/ LookupMember(r) \/ CheckCsrf(r) \/ VerifyPassword(r)
  <2>1. /\ req[r].pc \in {"user", "member", "csrf", "verify"}
        /\ \/ Reply(r)
           \/ req[r].pc = "user" /\ Goto(r, "member")
           \/ req[r].pc = "member" /\ Goto(r, Handler(req[r].op))
           \/ /\ req[r].pc = "csrf"
              /\ Goto(r, IF req[r].op = "refresh" THEN "rotate" ELSE "verify")
           \/ /\ req[r].pc = "verify"
              /\ Goto(r, IF req[r].op = "change" THEN "password" ELSE "credential")
    BY <1>3 DEF LookupUser, LookupMember, CheckCsrf, VerifyPassword, At, GotoIf
  <2>2. CASE Reply(r)
    BY <1>0, <1>1, <2>1, <2>2, ReplyMoves
  <2>3. CASE ~Reply(r)
    <3>1. PICK step \in {"member", "csrf", "verify", "credential", "act", "rotate", "password"} :
             /\ Goto(r, step)
             /\ req[r].pc = "user" => step = "member"
             /\ req[r].pc = "member" => step = Handler(req[r].op)
             /\ req[r].pc = "csrf" =>
                   step = IF req[r].op = "refresh" THEN "rotate" ELSE "verify"
             /\ req[r].pc = "verify" =>
                   step = IF req[r].op = "change" THEN "password" ELSE "credential"
      <4>1. Handler(req[r].op) \in {"csrf", "verify", "credential", "act"}
        BY DEF Handler
      <4>. QED BY <2>1, <2>3, <4>1
    <3>2. Goes(r, step)
      BY <1>0, <2>1, <3>1, GotoMoves DEF Steps
    <3>3. req[r].op \in CookieOp
      BY <1>0, <2>1 DEF StepOK, CookieOp
    <3>4. StepOK(req'[r])
      <4>1. req'[r].op = req[r].op /\ req'[r].pc = step
        BY <3>2 DEF Goes, Moves
      <4>. QED BY <1>0, <2>1, <3>1, <3>3, <4>1 DEF StepOK, Handler, CookieOp
    <3>. QED BY <1>1, <2>1, <3>1, <3>2, <3>3, <3>4 DEF Walks, Goes, Moves, CookieOp
  <2>. QED BY <2>2, <2>3
<1>. QED BY <1>2, <1>3

\* A link is found unused, and so is an invite.
LEMMA LinkLooks ==
    ASSUME TypeInv, NEW r \in Request, ReadToken(r) \/ ReadInvite(r) \/ CheckEmail(r)
    PROVE  /\ Calm
           /\ \/ Replies(r)
              \/ Walks(r)
              \/ /\ req[r].pc = "token" /\ Moves(r, "mark")
                 /\ req'[r].user = tokens[req[r].item].user
                 /\ ~tokens[req[r].item].consumed
              \/ /\ req[r].pc = "invite" /\ Goes(r, "email")
                 /\ ~invites[req[r].item].consumed
<1>0. req \in [Request -> ReqRec] /\ req[r] \in ReqRec /\ StepOK(req[r])
  BY OwnerExists
<1>1. Calm
  BY DEF ReadToken, ReadInvite, CheckEmail, At, Calm, Still, rows, limiter, past
<1>2. CASE ReadToken(r)
  <2>1. /\ req[r].pc = "token"
        /\ \/ Reply(r)
           \/ /\ req' = [req EXCEPT ![r].pc = "mark", ![r].user = tokens[req[r].item].user]
              /\ ~tokens[req[r].item].consumed
    BY <1>2 DEF ReadToken, At
  <2>2. tokens[req[r].item].user \in Nat
    <3>1. req[r].item \in 1..Len(tokens)
      BY <1>0, <2>1, OwnerExists DEF StepOK, NamesOK
    <3>. QED BY <3>1 DEF TypeInv, TablesOK
  <2>3. CASE Reply(r)
    BY <1>0, <1>1, <2>1, <2>3, ReplyMoves
  <2>4. CASE ~Reply(r)
    <3>1. Moves(r, "mark") /\ req'[r].user = tokens[req[r].item].user
      <4>1. req[r].pc # "idle" /\ "mark" \in Steps
        BY <2>1 DEF Steps
      <4>2. req' = [req EXCEPT ![r].pc = "mark", ![r].user = tokens[req[r].item].user]
        BY <2>1, <2>4
      <4>. QED BY <1>0, <2>2, <4>1, <4>2, UserMoves, Zenon
    <3>. QED BY <1>1, <2>1, <2>4, <3>1
  <2>. QED BY <2>3, <2>4
<1>3. CASE ReadInvite(r)
  <2>1. /\ req[r].pc = "invite"
        /\ \/ Reply(r)
           \/ Goto(r, "email") /\ ~invites[req[r].item].consumed
    BY <1>3 DEF ReadInvite, At, GotoIf
  <2>2. CASE Reply(r)
    BY <1>0, <1>1, <2>1, <2>2, ReplyMoves
  <2>3. CASE ~Reply(r)
    <3>1. Goes(r, "email")
      BY <1>0, <2>1, <2>3, GotoMoves DEF Steps
    <3>. QED BY <1>1, <2>1, <2>3, <3>1
  <2>. QED BY <2>2, <2>3
<1>4. CASE CheckEmail(r)
  <2>1. req[r].pc = "email" /\ (Reply(r) \/ Goto(r, "create"))
    BY <1>4 DEF CheckEmail, At, GotoIf
  <2>2. CASE Reply(r)
    BY <1>0, <1>1, <2>1, <2>2, ReplyMoves
  <2>3. CASE Goto(r, "create")
    <3>1. Goes(r, "create")
      BY <1>0, <2>1, <2>3, GotoMoves DEF Steps
    <3>. QED BY <1>0, <1>1, <2>1, <3>1 DEF Walks, Goes, Moves, StepOK
  <2>. QED BY <2>1, <2>2, <2>3
<1>. QED BY <1>2, <1>3, <1>4

\* A confirmation and a recovery go on only with a credential.
LEMMA CredentialLooks ==
    ASSUME TypeInv, NEW r \in Request, ReadCredential(r)
    PROVE  /\ Calm /\ req[r].pc = "credential"
           /\ \/ Replies(r)
              \/ Walks(r)
              \/ /\ req[r].op = "confirm" /\ Goes(r, "write")
                 /\ totp[req[r].user].row
              \/ /\ req[r].op = "recovery" /\ Moves(r, "write")
                 /\ req'[r].user = req[r].user
                 /\ req[r].item[2] \in totp[req[r].user].codes
                 /\ req'[r].codes = totp[req[r].user].codes \ {req[r].item[2]}
<1>0. req \in [Request -> ReqRec] /\ req[r] \in ReqRec /\ StepOK(req[r])
  BY OwnerExists
<1>1. Calm /\ req[r].pc = "credential"
  BY DEF ReadCredential, At, Calm, Still, rows, limiter, past
<1>2. req[r].op \in {"confirm", "disable", "recovery"}
  BY <1>0, <1>1 DEF StepOK
<1>3. CASE Reply(r)
  BY <1>0, <1>1, <1>3, ReplyMoves
<1>4. CASE req[r].op = "confirm" /\ ~Reply(r)
  <2>1. Goto(r, "write") /\ totp[req[r].user].row
    BY <1>4, Zenon DEF ReadCredential, GotoIf
  <2>. QED BY <1>0, <1>1, <1>4, <2>1, GotoMoves DEF Steps
<1>5. CASE req[r].op = "disable" /\ ~Reply(r)
  <2>1. Goto(r, "delete")
    BY <1>5 DEF ReadCredential, GotoIf
  <2>2. Goes(r, "delete")
    BY <1>0, <1>1, <2>1, GotoMoves DEF Steps
  <2>. QED BY <1>0, <1>1, <1>5, <2>2 DEF Walks, Goes, Moves, StepOK
<1>6. CASE req[r].op = "recovery" /\ ~Reply(r)
  <2>1. /\ req[r].item[2] \in totp[req[r].user].codes
        /\ req' = [req EXCEPT ![r].pc = "write",
                              ![r].codes = totp[req[r].user].codes \ {req[r].item[2]}]
    BY <1>6 DEF ReadCredential
  <2>2. totp[req[r].user].codes \ {req[r].item[2]} \in SUBSET (Nat \X Code)
    <3>1. req[r].user \in User
      BY <1>6, OwnerExists
    <3>. QED BY <3>1 DEF TypeInv, TablesOK, Credential
  <2>3. req[r].pc # "idle" /\ "write" \in Steps
    BY <1>1 DEF Steps
  <2>4. /\ Moves(r, "write") /\ req'[r].user = req[r].user
        /\ req'[r].codes = totp[req[r].user].codes \ {req[r].item[2]}
    BY <1>0, <2>1, <2>2, <2>3, CodesMoves
  <2>. QED BY <1>1, <1>6, <2>1, <2>4
<1>. QED BY <1>2, <1>3, <1>4, <1>5, <1>6

-----------------------------------------------------------------------------
\* Statements that write a row of users.
LockoutOK(row) ==
    /\ row.failed > Threshold <=> row.until # "null"
    /\ row.failed > Threshold => row.status = "locked"

\* The row of u is written, and nobody else's; nobody's address changes.
RowStep(u) ==
    /\ users' \in Seq(UserRow) /\ Len(users') = Len(users)
    /\ \A v \in 1..Len(users) : v # u => users'[v] = users[v]
    /\ users'[u].email = users[u].email
    /\ LockoutOK(users[u]) => LockoutOK(users'[u])

OnlyUsers == UNCHANGED <<sessions, tokens, invites, totp, hits, window, arrived, resets,
                         redeemed, raced>>

LEMMA PutUser ==
    ASSUME users \in Seq(UserRow), NEW u \in 1..Len(users), NEW row \in UserRow,
           users' = [users EXCEPT ![u] = row],
           row.email = users[u].email,
           LockoutOK(users[u]) => LockoutOK(row)
    PROVE  RowStep(u) /\ users'[u] = row
<1>1. /\ users' \in Seq(UserRow) /\ Len(users') = Len(users)
      /\ \A v \in 1..Len(users) : v # u => users'[v] = users[v]
      /\ users'[u] = row
  OBVIOUS
<1>. QED BY <1>1 DEF RowStep

LEMMA RecordFailureStep ==
    ASSUME TypeInv, NEW r \in Request, RecordFailure(r)
    PROVE  /\ req[r].pc = "lock" /\ req[r].user \in 1..Len(users)
           /\ Replies(r) /\ OnlyUsers
           /\ RowStep(req[r].user) /\ users'[req[r].user].totp = users[req[r].user].totp
<1>0. req \in [Request -> ReqRec] /\ req[r] \in ReqRec /\ StepOK(req[r])
  BY OwnerExists
<1>1. req[r].pc = "lock" /\ OnlyUsers /\ Reply(r)
  BY DEF RecordFailure, At, OnlyUsers, limiter, past
<1>2. Replies(r)
  BY <1>0, <1>1, ReplyMoves
<1> DEFINE u == req[r].user
           n == req[r].count + 1
           row == [users[u] EXCEPT !.failed = n,
                                   !.until = IF LocksOut(n) THEN "ahead" ELSE "null",
                                   !.status = IF LocksOut(n) THEN "locked" ELSE @]
<1>3. u \in 1..Len(users)
  BY <1>0, <1>1, OwnerExists DEF StepOK
<1>4. users[u] \in UserRow /\ users \in Seq(UserRow)
  BY <1>3 DEF TypeInv, TablesOK
<1>5. n \in Nat
  BY <1>0 DEF ReqRec
<1>6. users' = [users EXCEPT
                 ![u].failed = n,
                 ![u].until = IF LocksOut(n) THEN "ahead" ELSE "null",
                 ![u].status = IF LocksOut(n) THEN "locked" ELSE @]
  BY DEF RecordFailure
<1> HIDE DEF u, n
<1>7. users' = [users EXCEPT ![u] = row]
  BY <1>3, <1>4, <1>6
<1>8. /\ row \in UserRow
      /\ row.email = users[u].email /\ row.totp = users[u].totp
      /\ LockoutOK(row)
  BY <1>4, <1>5 DEF UserRow, LockoutOK, LocksOut
<1> HIDE DEF row
<1>9. RowStep(u) /\ users'[u] = row
  BY <1>3, <1>4, <1>7, <1>8, PutUser
<1>. QED BY <1>1, <1>2, <1>3, <1>8, <1>9 DEF u

LEMMA ClearFailuresStep ==
    ASSUME TypeInv, NEW r \in Request, ClearFailures(r)
    PROVE  /\ req[r].op = "sign_in" /\ req[r].user \in 1..Len(users)
           /\ Goes(r, req'[r].pc) /\ req'[r].pc \in {"rehash", "open"} /\ OnlyUsers
           /\ RowStep(req[r].user) /\ users'[req[r].user].totp = users[req[r].user].totp
<1>0. req \in [Request -> ReqRec] /\ req[r] \in ReqRec /\ StepOK(req[r])
  BY OwnerExists
<1>1. /\ req[r].pc = "clear" /\ OnlyUsers
      /\ Goto(r, IF req[r].stale THEN "rehash" ELSE "open")
  BY DEF ClearFailures, At, OnlyUsers, limiter, past
<1>2. Goes(r, IF req[r].stale THEN "rehash" ELSE "open")
  BY <1>0, <1>1, GotoMoves DEF Steps
<1> DEFINE u == req[r].user
           row == [users[u] EXCEPT !.failed = 0, !.until = "null", !.status = "active"]
<1>3. u \in 1..Len(users) /\ req[r].op = "sign_in"
  BY <1>0, <1>1, OwnerExists DEF StepOK
<1>4. users[u] \in UserRow /\ users \in Seq(UserRow)
  BY <1>3 DEF TypeInv, TablesOK
<1>6. users' = [users EXCEPT ![u].failed = 0, ![u].until = "null", ![u].status = "active"]
  BY DEF ClearFailures
<1> HIDE DEF u
<1>7. users' = [users EXCEPT ![u] = row]
  BY <1>3, <1>4, <1>6
<1>8. /\ row \in UserRow
      /\ row.email = users[u].email /\ row.totp = users[u].totp
      /\ LockoutOK(row)
  <2>1. Threshold \in Nat
    BY AccountsAssumption
  <2>2. ~(0 > Threshold)
    BY <2>1
  <2>. QED BY <1>4, <2>2 DEF UserRow, LockoutOK
<1> HIDE DEF row
<1>9. RowStep(u) /\ users'[u] = row
  BY <1>3, <1>4, <1>7, <1>8, PutUser
<1>. QED BY <1>1, <1>2, <1>3, <1>8, <1>9 DEF u, Goes, Moves

\* Both writers of a password.
LEMMA SetPasswordStep ==
    ASSUME TypeInv, NEW r \in Request, req[r].user \in 1..Len(users),
           SetPassword(req[r].user, req[r].pwd)
    PROVE  RowStep(req[r].user) /\ users'[req[r].user].totp = users[req[r].user].totp
<1> DEFINE u == req[r].user
           p == req[r].pwd
           row == [users[u] EXCEPT !.pwd = p, !.stale = FALSE]
<1>1. p \in Password
  BY OwnerExists DEF ReqRec
<1>2. u \in 1..Len(users) /\ users[u] \in UserRow /\ users \in Seq(UserRow)
  BY DEF TypeInv, TablesOK
<1>3. users' = [users EXCEPT ![u].pwd = p, ![u].stale = FALSE]
  BY DEF SetPassword
<1> HIDE DEF u, p
<1>4. users' = [users EXCEPT ![u] = row]
  BY <1>2, <1>3
<1>5. /\ row \in UserRow
      /\ row.email = users[u].email /\ row.totp = users[u].totp
      /\ LockoutOK(users[u]) => LockoutOK(row)
  BY <1>1, <1>2 DEF UserRow, LockoutOK
<1> HIDE DEF row
<1>6. RowStep(u) /\ users'[u] = row
  BY <1>2, <1>4, <1>5, PutUser
<1>. QED BY <1>5, <1>6 DEF u

LEMMA PasswordStep ==
    ASSUME TypeInv, NEW r \in Request, Rehash(r) \/ UpdatePassword(r)
    PROVE  /\ \/ /\ req[r].op = "sign_in" /\ req'[r].pc = "open"
              \/ /\ req[r].op = "change" /\ req'[r].pc = "rotate"
              \/ /\ req[r].op = "reset" /\ req[r].pc = "password"
                 /\ req'[r].pc = "revoke_all"
           /\ req[r].pc # "session"
           /\ req[r].user \in 1..Len(users)
           /\ Goes(r, req'[r].pc) /\ OnlyUsers
           /\ RowStep(req[r].user) /\ users'[req[r].user].totp = users[req[r].user].totp
<1>0. req \in [Request -> ReqRec] /\ req[r] \in ReqRec /\ StepOK(req[r])
  BY OwnerExists
<1>1. OnlyUsers /\ SetPassword(req[r].user, req[r].pwd)
  BY DEF Rehash, UpdatePassword, At, OnlyUsers, limiter, past
<1>2. CASE Rehash(r)
  <2>1. req[r].pc = "rehash" /\ Goto(r, "open") /\ req[r].op = "sign_in"
    BY <1>0, <1>2 DEF Rehash, At, StepOK
  <2>2. Goes(r, "open") /\ req[r].user \in 1..Len(users)
    BY <1>0, <2>1, GotoMoves, OwnerExists DEF Steps
  <2>3. RowStep(req[r].user) /\ users'[req[r].user].totp = users[req[r].user].totp
    BY <1>1, <2>2, SetPasswordStep
  <2>. QED BY <1>1, <2>1, <2>2, <2>3 DEF Goes, Moves
<1>3. CASE UpdatePassword(r)
  <2>1. /\ req[r].pc = "password" /\ req[r].op \in {"change", "reset"}
        /\ Goto(r, IF req[r].op = "change" THEN "rotate" ELSE "revoke_all")
    BY <1>0, <1>3 DEF UpdatePassword, At, StepOK
  <2>2. /\ Goes(r, IF req[r].op = "change" THEN "rotate" ELSE "revoke_all")
        /\ req[r].user \in 1..Len(users)
    BY <1>0, <2>1, GotoMoves, OwnerExists DEF Steps, CookieOp
  <2>3. RowStep(req[r].user) /\ users'[req[r].user].totp = users[req[r].user].totp
    BY <1>1, <2>2, SetPasswordStep
  <2>. QED BY <1>1, <2>1, <2>2, <2>3 DEF Goes, Moves
<1>. QED BY <1>2, <1>3

LEMMA SetTotpEnabledStep ==
    ASSUME TypeInv, NEW r \in Request, SetTotpEnabled(r)
    PROVE  /\ req[r].pc = "flag" /\ req[r].op \in {"confirm", "disable"}
           /\ req[r].user \in 1..Len(users)
           /\ Replies(r) /\ OnlyUsers
           /\ RowStep(req[r].user) /\ users'[req[r].user].totp = (req[r].op = "confirm")
<1>0. req \in [Request -> ReqRec] /\ req[r] \in ReqRec /\ StepOK(req[r])
  BY OwnerExists
<1>1. req[r].pc = "flag" /\ OnlyUsers /\ Reply(r)
  BY DEF SetTotpEnabled, At, OnlyUsers, limiter, past
<1>2. Replies(r)
  BY <1>0, <1>1, ReplyMoves
<1>3. req[r].op \in {"confirm", "disable"} /\ req[r].user \in 1..Len(users)
  BY <1>0, <1>1, OwnerExists DEF StepOK, CookieOp
<1> DEFINE u == req[r].user
           b == (req[r].op = "confirm")
           row == [users[u] EXCEPT !.totp = b]
<1>4. users[u] \in UserRow /\ users \in Seq(UserRow) /\ b \in BOOLEAN
  BY <1>3 DEF TypeInv, TablesOK
<1>5. users' = [users EXCEPT ![u].totp = b]
  BY DEF SetTotpEnabled
<1> HIDE DEF b
<1>6. users' = [users EXCEPT ![u] = row]
  BY <1>3, <1>4, <1>5
<1>7. /\ row \in UserRow
      /\ row.email = users[u].email /\ row.totp = b
      /\ LockoutOK(users[u]) => LockoutOK(row)
  BY <1>4 DEF UserRow, LockoutOK
<1> HIDE DEF row
<1>8. RowStep(u) /\ users'[u] = row
  BY <1>3, <1>4, <1>6, <1>7, PutUser
<1>. QED BY <1>1, <1>2, <1>3, <1>7, <1>8 DEF b

-----------------------------------------------------------------------------
\* Statements that write sessions, tokens, invites and credentials.
OnlySessions == UNCHANGED <<users, tokens, invites, totp, hits, window, arrived, raced>>

\* The sessions keep their accounts and their epochs, and what is revoked stays so.
SessionsKept ==
    /\ sessions' \in Seq(SessionRow) /\ Len(sessions) <= Len(sessions')
    /\ \A s \in 1..Len(sessions) :
          /\ sessions'[s].user = sessions[s].user
          /\ sessions'[s].epoch = sessions[s].epoch
          /\ sessions[s].revoked => sessions'[s].revoked

LEMMA PutSession ==
    ASSUME sessions \in Seq(SessionRow), NEW s \in 1..Len(sessions), NEW row \in SessionRow,
           sessions' = [sessions EXCEPT ![s] = row],
           row.user = sessions[s].user, row.epoch = sessions[s].epoch,
           sessions[s].revoked => row.revoked
    PROVE  SessionsKept /\ Len(sessions') = Len(sessions)
<1>1. /\ sessions' \in Seq(SessionRow) /\ Len(sessions') = Len(sessions)
      /\ \A t \in 1..Len(sessions) : t # s => sessions'[t] = sessions[t]
      /\ sessions'[s] = row
  OBVIOUS
<1>. QED BY <1>1 DEF SessionsKept

LEMMA OpenSessionStep ==
    ASSUME TypeInv, NEW r \in Request, OpenSession(r)
    PROVE  /\ req[r].pc = "open" /\ req[r].op \in {"sign_in", "recovery", "accept"}
           /\ req[r].user \in 1..Len(users)
           /\ Replies(r) /\ OnlySessions /\ SessionsKept
           /\ Len(sessions') = Len(sessions) + 1
           /\ sessions'[Len(sessions) + 1].user = req[r].user
           /\ sessions'[Len(sessions) + 1].epoch = req[r].epoch
           /\ redeemed' = redeemed \cup {<<req[r].op, req[r].item>>}
           /\ resets' = resets
<1>0. req \in [Request -> ReqRec] /\ req[r] \in ReqRec /\ StepOK(req[r])
  BY OwnerExists
<1>1. /\ req[r].pc = "open" /\ OnlySessions /\ Reply(r)
      /\ redeemed' = redeemed \cup {<<req[r].op, req[r].item>>}
      /\ resets' = resets
  BY DEF OpenSession, At, OnlySessions, limiter
<1>2. Replies(r)
  BY <1>0, <1>1, ReplyMoves
<1>3. req[r].op \in {"sign_in", "recovery", "accept"} /\ req[r].user \in 1..Len(users)
  BY <1>0, <1>1, OwnerExists DEF StepOK
<1> DEFINE row == [user |-> req[r].user, ver |-> 0, revoked |-> FALSE, expired |-> FALSE,
                   epoch |-> req[r].epoch]
<1>4. row \in SessionRow /\ row.user = req[r].user /\ row.epoch = req[r].epoch
  BY <1>0 DEF SessionRow, ReqRec
<1>5. sessions' = Append(sessions, row) /\ sessions \in Seq(SessionRow)
  BY DEF OpenSession, TypeInv, TablesOK
<1> HIDE DEF row
<1>6. /\ sessions' \in Seq(SessionRow) /\ Len(sessions') = Len(sessions) + 1
      /\ sessions'[Len(sessions) + 1] = row
      /\ \A s \in 1..Len(sessions) : sessions'[s] = sessions[s]
      /\ Len(sessions) <= Len(sessions')
  BY <1>4, <1>5
<1>7. SessionsKept
  BY <1>6 DEF SessionsKept
<1>. QED BY <1>1, <1>2, <1>3, <1>4, <1>6, <1>7

LEMMA RotateTokenStep ==
    ASSUME TypeInv, NEW r \in Request, RotateToken(r)
    PROVE  /\ Replies(r) /\ OnlySessions /\ SessionsKept
           /\ Len(sessions') = Len(sessions)
           /\ UNCHANGED <<resets, redeemed>>
<1>0. req \in [Request -> ReqRec] /\ req[r] \in ReqRec /\ StepOK(req[r])
  BY OwnerExists
<1>1. /\ req[r].pc = "rotate" /\ OnlySessions /\ Reply(r) /\ UNCHANGED <<resets, redeemed>>
  BY DEF RotateToken, At, OnlySessions, limiter, past
<1>2. Replies(r)
  BY <1>0, <1>1, ReplyMoves
<1> DEFINE s == req[r].sid
           row == [sessions[s] EXCEPT !.ver = @ + 1]
<1>3. s \in 1..Len(sessions)
  BY <1>0, <1>1, OwnerExists DEF StepOK, NamesOK, CookieOp
<1>4. sessions[s] \in SessionRow /\ sessions \in Seq(SessionRow)
  BY <1>3 DEF TypeInv, TablesOK
<1>5. sessions' = [sessions EXCEPT ![s].ver = @ + 1]
  BY DEF RotateToken
<1>6. sessions' = [sessions EXCEPT ![s] = row]
  BY <1>3, <1>4, <1>5
<1>7. /\ row \in SessionRow /\ row.user = sessions[s].user
      /\ row.epoch = sessions[s].epoch /\ row.revoked = sessions[s].revoked
  <2>1. sessions[s].ver \in Nat
    BY <1>4 DEF SessionRow
  <2>2. sessions[s].ver + 1 \in Nat
    BY <2>1
  <2>. HIDE DEF s
  <2>. QED BY <1>4, <2>2 DEF SessionRow
<1> HIDE DEF row, s
<1>8. SessionsKept /\ Len(sessions') = Len(sessions)
  BY <1>3, <1>4, <1>6, <1>7, PutSession
<1>. QED BY <1>1, <1>2, <1>8

LEMMA RevokeAllStep ==
    ASSUME TypeInv, NEW r \in Request, RevokeAll(r)
    PROVE  /\ req[r].pc = "revoke_all" /\ req[r].op = "reset"
           /\ req[r].user \in 1..Len(users) /\ req[r].user \in User
           /\ Replies(r) /\ OnlySessions /\ SessionsKept
           /\ Len(sessions') = Len(sessions)
           /\ \A s \in 1..Len(sessions) :
                 sessions[s].user = req[r].user => sessions'[s].revoked
           /\ resets' \in [User -> Nat]
           /\ \A u \in User : u # req[r].user => resets'[u] = resets[u]
           /\ redeemed' = redeemed \cup {<<"reset", req[r].item>>}
<1>0. req \in [Request -> ReqRec] /\ req[r] \in ReqRec /\ StepOK(req[r])
  BY OwnerExists
<1>1. /\ req[r].pc = "revoke_all" /\ OnlySessions /\ Reply(r)
      /\ redeemed' = redeemed \cup {<<"reset", req[r].item>>}
      /\ resets' = [resets EXCEPT ![req[r].user] = @ + 1]
      /\ sessions' = [s \in DOMAIN sessions |->
                        IF sessions[s].user = req[r].user
                        THEN [sessions[s] EXCEPT !.revoked = TRUE] ELSE sessions[s]]
  BY DEF RevokeAll, At, OnlySessions, limiter
<1>2. Replies(r)
  BY <1>0, <1>1, ReplyMoves
<1>3. /\ req[r].op = "reset" /\ req[r].user \in 1..Len(users) /\ req[r].user \in User
  BY <1>0, <1>1, OwnerExists DEF StepOK
<1> DEFINE Row(s) == IF sessions[s].user = req[r].user
                     THEN [sessions[s] EXCEPT !.revoked = TRUE] ELSE sessions[s]
<1>4. \A s \in 1..Len(sessions) :
         /\ Row(s) \in SessionRow
         /\ Row(s).user = sessions[s].user /\ Row(s).epoch = sessions[s].epoch
         /\ sessions[s].revoked \/ sessions[s].user = req[r].user => Row(s).revoked
  <2>1. \A s \in 1..Len(sessions) : sessions[s] \in SessionRow
    BY DEF TypeInv, TablesOK
  <2>. QED BY <2>1 DEF SessionRow
<1>5. sessions \in Seq(SessionRow)
  BY DEF TypeInv, TablesOK
<1>6. sessions' = [s \in 1..Len(sessions) |-> Row(s)]
  BY <1>1, <1>5
<1> HIDE DEF Row
<1>7. /\ sessions' \in Seq(SessionRow) /\ Len(sessions') = Len(sessions)
      /\ \A s \in 1..Len(sessions) : sessions'[s] = Row(s)
  BY <1>4, <1>5, <1>6
<1>8. SessionsKept
  BY <1>4, <1>5, <1>7 DEF SessionsKept
<1>9. resets' \in [User -> Nat] /\ \A u \in User : u # req[r].user => resets'[u] = resets[u]
  BY <1>1, <1>3 DEF TypeInv, TablesOK
<1>. QED BY <1>1, <1>2, <1>3, <1>4, <1>7, <1>8, <1>9

\* What is consumed stays consumed.
TokensKept ==
    /\ tokens' \in Seq(TokenRow) /\ Len(tokens) <= Len(tokens')
    /\ \A t \in 1..Len(tokens) :
          /\ tokens'[t].user = tokens[t].user
          /\ tokens[t].consumed => tokens'[t].consumed

InvitesKept ==
    /\ invites' \in Seq(InviteRow) /\ Len(invites) <= Len(invites')
    /\ \A i \in 1..Len(invites) : invites[i].consumed => invites'[i].consumed

LEMMA MarkTokenStep ==
    ASSUME TypeInv, NEW r \in Request, MarkToken(r)
    PROVE  /\ req[r].pc = "mark" /\ req[r].op = "reset" /\ Goes(r, "password")
           /\ TokensKept /\ Len(tokens') = Len(tokens)
           /\ req[r].item \in 1..Len(tokens) /\ tokens'[req[r].item].consumed
           /\ UNCHANGED <<users, sessions, invites, totp, hits, window, arrived, resets,
                          redeemed, raced>>
<1>0. req \in [Request -> ReqRec] /\ req[r] \in ReqRec /\ StepOK(req[r])
  BY OwnerExists
<1>1. /\ req[r].pc = "mark" /\ Goto(r, "password")
      /\ UNCHANGED <<users, sessions, invites, totp, hits, window, arrived, resets,
                     redeemed, raced>>
  BY DEF MarkToken, At, limiter, past
<1>2. Goes(r, "password")
  BY <1>0, <1>1, GotoMoves DEF Steps
<1>3. req[r].op = "reset" /\ req[r].item \in 1..Len(tokens)
  BY <1>0, <1>1, OwnerExists DEF StepOK, NamesOK
<1> DEFINE t == req[r].item
           row == [tokens[t] EXCEPT !.consumed = TRUE]
<1>4. tokens[t] \in TokenRow /\ tokens \in Seq(TokenRow)
  BY <1>3 DEF TypeInv, TablesOK
<1>5. tokens' = [tokens EXCEPT ![t] = row]
  BY <1>3, <1>4 DEF MarkToken
<1>6. row \in TokenRow /\ row.user = tokens[t].user /\ row.consumed
  BY <1>4 DEF TokenRow
<1> HIDE DEF row
<1>7. /\ tokens' \in Seq(TokenRow) /\ Len(tokens') = Len(tokens)
      /\ tokens'[t] = row /\ \A v \in 1..Len(tokens) : v # t => tokens'[v] = tokens[v]
  BY <1>3, <1>4, <1>5, <1>6
<1>8. TokensKept
  BY <1>6, <1>7 DEF TokensKept
<1>. QED BY <1>1, <1>2, <1>3, <1>6, <1>7, <1>8

LEMMA ConsumeInviteStep ==
    ASSUME TypeInv, NEW r \in Request, ConsumeInvite(r)
    PROVE  /\ req[r].pc = "consume" /\ req[r].op = "accept" /\ Goes(r, "open")
           /\ InvitesKept /\ Len(invites') = Len(invites)
           /\ req[r].item \in 1..Len(invites) /\ invites'[req[r].item].consumed
           /\ UNCHANGED <<users, sessions, tokens, totp, hits, window, arrived, resets,
                          redeemed, raced>>
<1>0. req \in [Request -> ReqRec] /\ req[r] \in ReqRec /\ StepOK(req[r])
  BY OwnerExists
<1>1. /\ req[r].pc = "consume" /\ Goto(r, "open")
      /\ UNCHANGED <<users, sessions, tokens, totp, hits, window, arrived, resets,
                     redeemed, raced>>
  BY DEF ConsumeInvite, At, limiter, past
<1>2. Goes(r, "open")
  BY <1>0, <1>1, GotoMoves DEF Steps
<1>3. req[r].op = "accept" /\ req[r].item \in 1..Len(invites)
  BY <1>0, <1>1, OwnerExists DEF StepOK, NamesOK
<1> DEFINE i == req[r].item
           row == [invites[i] EXCEPT !.consumed = TRUE]
<1>4. invites[i] \in InviteRow /\ invites \in Seq(InviteRow)
  BY <1>3 DEF TypeInv, TablesOK
<1>5. invites' = [invites EXCEPT ![i] = row]
  BY <1>3, <1>4 DEF ConsumeInvite
<1>6. row \in InviteRow /\ row.consumed
  BY <1>4 DEF InviteRow
<1> HIDE DEF row
<1>7. /\ invites' \in Seq(InviteRow) /\ Len(invites') = Len(invites)
      /\ invites'[i] = row /\ \A v \in 1..Len(invites) : v # i => invites'[v] = invites[v]
  BY <1>3, <1>4, <1>5, <1>6
<1>8. InvitesKept
  BY <1>6, <1>7 DEF InvitesKept
<1>. QED BY <1>1, <1>2, <1>3, <1>6, <1>7, <1>8

\* The invite's address gets an account only when it has none.
LEMMA CreateUserStep ==
    ASSUME TypeInv, NEW r \in Request, CreateUser(r)
    PROVE  /\ req[r].pc = "create" /\ req[r].op = "accept"
           /\ UNCHANGED <<sessions, tokens, invites, totp, hits, window, arrived, resets,
                          redeemed, raced>>
           /\ \/ Replies(r) /\ UNCHANGED users
              \/ /\ Moves(r, "consume") /\ req'[r].user = Len(users) + 1
                 /\ users' \in Seq(UserRow) /\ Len(users') = Len(users) + 1
                 /\ Len(users') <= MaxUsers
                 /\ \A u \in 1..Len(users) :
                       /\ users'[u] = users[u]
                       /\ users'[Len(users) + 1].email # users[u].email
                 /\ LockoutOK(users'[Len(users) + 1])
                 /\ ~users'[Len(users) + 1].totp
<1>0. req \in [Request -> ReqRec] /\ req[r] \in ReqRec /\ StepOK(req[r])
  BY OwnerExists
<1>1. /\ req[r].pc = "create"
      /\ UNCHANGED <<sessions, tokens, invites, totp, hits, window, arrived, resets,
                     redeemed, raced>>
  BY DEF CreateUser, At, limiter, past
<1>2. /\ req[r].op = "accept" /\ req[r].item \in 1..Len(invites)
  BY <1>0, <1>1, OwnerExists DEF StepOK, NamesOK
<1>3. CASE Reply(r) /\ UNCHANGED users
  BY <1>0, <1>1, <1>2, <1>3, ReplyMoves
<1>4. CASE ~(Reply(r) /\ UNCHANGED users)
  <2> DEFINE i == req[r].item
             row == NewUser(invites[i].email, req[r].pwd, invites[i].role, i)
  <2>1. /\ ~Taken(invites[i].email) /\ Len(users) < MaxUsers
        /\ users' = Append(users, row)
        /\ req' = [req EXCEPT ![r].pc = "consume", ![r].user = Len(users) + 1]
    BY <1>4 DEF CreateUser
  <2>2. invites[i] \in InviteRow /\ users \in Seq(UserRow)
    BY <1>2 DEF TypeInv, TablesOK
  <2>3. /\ row \in UserRow /\ row.email = invites[i].email /\ ~row.totp
        /\ LockoutOK(row)
    <3>1. Threshold \in Nat
      BY AccountsAssumption
    <3>2. ~(0 > Threshold)
      BY <3>1
    <3>3. i \in Nat /\ req[r].pwd \in Password
      BY <1>0, <1>2 DEF ReqRec
    <3>. QED BY <2>2, <3>2, <3>3 DEF NewUser, UserRow, InviteRow, LockoutOK
  <2> HIDE DEF row
  <2>4. \A u \in 1..Len(users) : users[u].email # invites[i].email
    BY <2>1, <2>2 DEF Taken
  <2>5. /\ users' \in Seq(UserRow) /\ Len(users') = Len(users) + 1
        /\ \A u \in 1..Len(users) : users'[u] = users[u]
        /\ users'[Len(users) + 1] = row
    BY <2>1, <2>2, <2>3
  <2>6. Len(users') <= MaxUsers
    BY <2>1, <2>2, <2>5, AccountsAssumption
  <2>7. Moves(r, "consume") /\ req'[r].user = Len(users) + 1
    <3>1. /\ req[r].pc # "idle" /\ "consume" \in Steps /\ Len(users) + 1 \in Nat
          /\ req' = [req EXCEPT ![r].pc = "consume", ![r].user = Len(users) + 1]
      BY <1>1, <2>1, <2>2 DEF Steps
    <3>. QED BY <1>0, <3>1, UserMoves, Zenon
  <2>. QED BY <1>1, <1>2, <2>3, <2>4, <2>5, <2>6, <2>7
<1>. QED BY <1>3, <1>4

\* The credential of u is written, and nobody else's; a list only gets codes of a
\* later generation.
OnlyTotp == UNCHANGED <<users, sessions, tokens, invites, hits, window, arrived, resets,
                        redeemed, raced>>

TotpStep(u) ==
    /\ totp' \in [User -> Credential]
    /\ \A v \in User : v # u => totp'[v] = totp[v]
    /\ totp[u].gen <= totp'[u].gen

NewerCodes(u) ==
    \A c \in totp'[u].codes : c \in totp[u].codes \/ c[1] > totp[u].gen

LEMMA FreshCodes ==
    ASSUME totp \in [User -> Credential], NEW u \in User
    PROVE  /\ Fresh(u) \in SUBSET (Nat \X Code)
           /\ \A c \in Fresh(u) : c[1] > totp[u].gen
           /\ totp[u].gen \in Nat /\ totp[u].gen + 1 \in Nat
           /\ totp[u] \in Credential
<1>1. totp[u] \in Credential /\ totp[u].gen \in Nat
  BY DEF Credential
<1>. QED BY <1>1 DEF Fresh

LEMMA WriteCodesStep ==
    ASSUME TypeInv, NEW r \in Request, WriteCodes(r)
    PROVE  /\ req[r].pc = "write" /\ req[r].user \in 1..Len(users) /\ req[r].user \in User
           /\ OnlyTotp /\ TotpStep(req[r].user)
           /\ totp'[req[r].user].row = totp[req[r].user].row
           /\ \/ /\ req[r].op = "confirm" /\ Goes(r, "flag")
                 /\ NewerCodes(req[r].user)
                 /\ totp[req[r].user].row \/ totp'[req[r].user] = totp[req[r].user]
              \/ /\ req[r].op = "recovery" /\ Goes(r, "open")
                 /\ \/ totp'[req[r].user].codes = req[r].codes
                       /\ totp[req[r].user].row
                    \/ /\ ~totp[req[r].user].row
                       /\ totp'[req[r].user] = totp[req[r].user]
<1>0. req \in [Request -> ReqRec] /\ req[r] \in ReqRec /\ StepOK(req[r])
  BY OwnerExists
<1>1. /\ req[r].pc = "write" /\ OnlyTotp
      /\ Goto(r, IF req[r].op = "confirm" THEN "flag" ELSE "open")
  BY DEF WriteCodes, At, OnlyTotp, limiter, past
<1>2. /\ req[r].op \in {"confirm", "recovery"}
      /\ req[r].user \in 1..Len(users) /\ req[r].user \in User
  BY <1>0, <1>1, OwnerExists DEF StepOK, CookieOp
<1>3. Goes(r, IF req[r].op = "confirm" THEN "flag" ELSE "open")
  BY <1>0, <1>1, GotoMoves DEF Steps
<1> DEFINE u == req[r].user
           new == IF req[r].op = "confirm"
                  THEN [totp[u] EXCEPT !.gen = @ + 1, !.codes = Fresh(u)]
                  ELSE [totp[u] EXCEPT !.codes = req[r].codes]
<1>4. totp' = IF totp[u].row THEN [totp EXCEPT ![u] = new] ELSE totp
  BY Zenon DEF WriteCodes
<1>5. totp \in [User -> Credential] /\ totp[u] \in Credential /\ totp[u].gen \in Nat
  BY <1>2, FreshCodes DEF TypeInv, TablesOK
<1>6. /\ new \in Credential /\ new.row = totp[u].row /\ totp[u].gen <= new.gen
      /\ req[r].op = "confirm" => new.codes = Fresh(u)
      /\ req[r].op = "recovery" => new.codes = req[r].codes
  <2>1. CASE req[r].op = "confirm"
    <3>1. Fresh(u) \in SUBSET (Nat \X Code) /\ totp[u].gen + 1 \in Nat
      BY <1>2, <1>5, FreshCodes
    <3> DEFINE g == totp[u].gen + 1
    <3>2. g \in Nat /\ totp[u].gen <= g
      BY <1>5
    <3>3. new = [totp[u] EXCEPT !.gen = g, !.codes = Fresh(u)]
      BY <2>1
    <3> HIDE DEF g, new
    <3>. QED BY <1>5, <2>1, <3>1, <3>2, <3>3 DEF Credential
  <2>2. CASE req[r].op = "recovery"
    <3>1. req[r].codes \in SUBSET (Nat \X Code)
      BY <1>0 DEF ReqRec
    <3>2. new = [totp[u] EXCEPT !.codes = req[r].codes]
      BY <2>2
    <3> HIDE DEF new
    <3>. QED BY <1>5, <2>2, <3>1, <3>2 DEF Credential
  <2>. QED BY <1>2, <2>1, <2>2
<1> HIDE DEF new
<1>7. CASE totp[u].row
  <2>1. totp' = [totp EXCEPT ![u] = new]
    BY <1>4, <1>7
  <2>2. /\ totp' \in [User -> Credential] /\ totp'[u] = new
        /\ \A v \in User : v # u => totp'[v] = totp[v]
    BY <1>2, <1>5, <1>6, <2>1
  <2>3. TotpStep(u) /\ totp'[u].row = totp[u].row
    BY <1>6, <2>2 DEF TotpStep
  <2>4. req[r].op = "confirm" => NewerCodes(u)
    BY <1>2, <1>5, <1>6, <2>2, FreshCodes DEF NewerCodes
  <2>. QED BY <1>1, <1>2, <1>3, <1>6, <1>7, <2>2, <2>3, <2>4
<1>8. CASE ~totp[u].row
  <2>1. totp' = totp
    BY <1>4, <1>8
  <2>2. TotpStep(u) /\ NewerCodes(u)
    BY <1>5, <2>1 DEF TotpStep, NewerCodes
  <2>. QED BY <1>1, <1>2, <1>3, <1>8, <2>1, <2>2
<1>. QED BY <1>7, <1>8

LEMMA DeleteCredentialStep ==
    ASSUME TypeInv, NEW r \in Request, DeleteCredential(r)
    PROVE  /\ req[r].pc = "delete" /\ req[r].op = "disable" /\ Goes(r, "flag")
           /\ req[r].user \in 1..Len(users) /\ req[r].user \in User
           /\ OnlyTotp /\ TotpStep(req[r].user)
           /\ totp'[req[r].user].codes = {}
<1>0. req \in [Request -> ReqRec] /\ req[r] \in ReqRec /\ StepOK(req[r])
  BY OwnerExists
<1>1. req[r].pc = "delete" /\ OnlyTotp /\ Goto(r, "flag")
  BY DEF DeleteCredential, At, OnlyTotp, limiter, past
<1>2. /\ req[r].op = "disable"
      /\ req[r].user \in 1..Len(users) /\ req[r].user \in User
  BY <1>0, <1>1, OwnerExists DEF StepOK, CookieOp
<1>3. Goes(r, "flag")
  BY <1>0, <1>1, GotoMoves DEF Steps
<1> DEFINE u == req[r].user
           new == [totp[u] EXCEPT !.row = FALSE, !.codes = {}]
<1>4. totp \in [User -> Credential] /\ totp[u] \in Credential /\ totp[u].gen \in Nat
  BY <1>2, FreshCodes DEF TypeInv, TablesOK
<1>5. totp' = [totp EXCEPT ![u].row = FALSE, ![u].codes = {}]
  BY DEF DeleteCredential
<1> HIDE DEF u
<1>6. totp' = [totp EXCEPT ![u] = new]
  BY <1>2, <1>4, <1>5 DEF u
<1>7. new \in Credential /\ new.gen = totp[u].gen /\ new.codes = {}
  BY <1>4 DEF Credential
<1> HIDE DEF new
<1>8. /\ totp' \in [User -> Credential] /\ totp'[u] = new
      /\ \A v \in User : v # u => totp'[v] = totp[v]
  BY <1>2, <1>4, <1>6, <1>7 DEF u
<1>9. TotpStep(u)
  BY <1>4, <1>7, <1>8 DEF TotpStep
<1>. QED BY <1>1, <1>2, <1>3, <1>7, <1>8, <1>9 DEF u

LEMMA SetupTotpStep ==
    ASSUME TypeInv, NEW r \in Request, req[r].pc = "act", SetupTotp(r)
    PROVE  /\ req[r].user \in User /\ TotpStep(req[r].user) /\ NewerCodes(req[r].user)
           /\ totp'[req[r].user].row
           /\ UNCHANGED <<users, sessions, tokens, invites>>
<1>0. req \in [Request -> ReqRec] /\ req[r] \in ReqRec /\ StepOK(req[r])
  BY OwnerExists
<1>1. req[r].user \in User
  BY OwnerExists DEF SetupTotp, CookieOp
<1> DEFINE u == req[r].user
           g == totp[u].gen + 1
           new == [row |-> TRUE, gen |-> g, codes |-> Fresh(u)]
<1>2. /\ totp \in [User -> Credential] /\ totp[u] \in Credential /\ totp[u].gen \in Nat
      /\ Fresh(u) \in SUBSET (Nat \X Code) /\ \A c \in Fresh(u) : c[1] > totp[u].gen
      /\ g \in Nat
  BY <1>1, FreshCodes DEF TypeInv, TablesOK
<1>3. totp' = IF totp[u].row THEN totp ELSE [totp EXCEPT ![u] = new]
  BY DEF SetupTotp
<1>4. new \in Credential /\ new.row /\ new.codes = Fresh(u) /\ totp[u].gen <= new.gen
  BY <1>2 DEF Credential
<1> HIDE DEF new
<1>5. CASE totp[u].row
  BY <1>1, <1>2, <1>3, <1>5 DEF TotpStep, NewerCodes, SetupTotp
<1>6. CASE ~totp[u].row
  <2>1. /\ totp' \in [User -> Credential] /\ totp'[u] = new
        /\ \A v \in User : v # u => totp'[v] = totp[v]
    BY <1>1, <1>2, <1>3, <1>4, <1>6
  <2>. QED BY <1>1, <1>2, <1>4, <2>1 DEF TotpStep, NewerCodes, SetupTotp
<1>. QED BY <1>5, <1>6

\* The operations of one statement, by the table they write.
ActWrites(r) ==
    \/ /\ TokensKept /\ Len(tokens') = Len(tokens) + 1
       /\ tokens'[Len(tokens) + 1].user = req[r].user
       /\ req[r].user \in 1..Len(users)
       /\ UNCHANGED <<users, sessions, invites, totp>>
    \/ /\ SessionsKept /\ Len(sessions') = Len(sessions)
       /\ UNCHANGED <<users, tokens, invites, totp>>
    \/ /\ req[r].user \in User /\ TotpStep(req[r].user) /\ NewerCodes(req[r].user)
       /\ totp'[req[r].user].row
       /\ UNCHANGED <<users, sessions, tokens, invites>>
    \/ /\ InvitesKept
       /\ UNCHANGED <<users, sessions, tokens, totp>>
    \/ /\ req[r].item \in 1..Len(users) /\ RowStep(req[r].item)
       /\ users'[req[r].item].totp = users[req[r].item].totp
       /\ UNCHANGED <<sessions, tokens, invites, totp>>

LEMMA ActStep ==
    ASSUME TypeInv, NEW r \in Request, Act(r)
    PROVE  /\ req[r].pc = "act" /\ Replies(r)
           /\ UNCHANGED <<hits, window, arrived, resets, redeemed, raced>>
           /\ ActWrites(r)
<1>0. /\ req \in [Request -> ReqRec] /\ req[r] \in ReqRec
      /\ NamesOK(req[r], Len(users), Len(sessions), Len(tokens), Len(invites), Of, Gen)
  BY OwnerExists
<1>1. /\ req[r].pc = "act" /\ Reply(r)
      /\ UNCHANGED <<hits, window, arrived, resets, redeemed, raced>>
      /\ \/ IssueReset(r) \/ RevokeSession(r) \/ SetupTotp(r)
         \/ SendInvite(r) \/ ChangeRole(r)
  BY DEF Act, At, limiter, past
<1>2. Replies(r)
  BY <1>0, <1>1, ReplyMoves
<1>3. CASE IssueReset(r)
  <2>1. req[r].user \in 1..Len(users) /\ req[r].user \in Nat
    BY <1>3, OwnerExists DEF IssueReset, ReqRec
  <2> DEFINE row == [user |-> req[r].user, consumed |-> FALSE, expired |-> FALSE]
  <2>2. row \in TokenRow /\ row.user = req[r].user
    BY <2>1 DEF TokenRow
  <2>3. tokens' = Append(tokens, row) /\ tokens \in Seq(TokenRow)
    BY <1>3 DEF IssueReset, TypeInv, TablesOK
  <2> HIDE DEF row
  <2>4. TokensKept /\ Len(tokens') = Len(tokens) + 1 /\ tokens'[Len(tokens) + 1] = row
    BY <2>2, <2>3 DEF TokensKept
  <2>. QED BY <1>1, <1>2, <1>3, <2>1, <2>2, <2>4 DEF IssueReset, ActWrites
<1>4. CASE RevokeSession(r)
  <2> DEFINE s == IF req[r].op = "sign_out" THEN req[r].sid ELSE req[r].item
             row == [sessions[s] EXCEPT !.revoked = TRUE]
  <2>1. s \in 1..Len(sessions)
    BY <1>0, <1>4 DEF RevokeSession, NamesOK, CookieOp
  <2>2. sessions' = [sessions EXCEPT ![s].revoked = TRUE]
    BY <1>4 DEF RevokeSession
  <2> HIDE DEF s
  <2>3. sessions[s] \in SessionRow /\ sessions \in Seq(SessionRow)
    BY <2>1 DEF TypeInv, TablesOK
  <2>4. sessions' = [sessions EXCEPT ![s] = row]
    BY <2>1, <2>2, <2>3
  <2>5. /\ row \in SessionRow /\ row.user = sessions[s].user
        /\ row.epoch = sessions[s].epoch /\ row.revoked
    BY <2>3 DEF SessionRow
  <2> HIDE DEF row
  <2>6. SessionsKept /\ Len(sessions') = Len(sessions)
    BY <2>1, <2>3, <2>4, <2>5, PutSession
  <2>. QED BY <1>1, <1>2, <1>4, <2>6 DEF RevokeSession, ActWrites
<1>5. CASE SetupTotp(r)
  BY <1>1, <1>2, <1>5, SetupTotpStep DEF ActWrites
<1>6. CASE SendInvite(r)
  <2> DEFINE row == [email |-> req[r].item, role |-> "compliance_auditor",
                     consumed |-> FALSE, expired |-> FALSE]
  <2>1. row \in InviteRow
    BY <1>0, <1>6 DEF SendInvite, NamesOK, InviteRow, Role
  <2>2. invites' = Append(invites, row) /\ invites \in Seq(InviteRow)
    BY <1>6 DEF SendInvite, TypeInv, TablesOK
  <2> HIDE DEF row
  <2>3. InvitesKept
    BY <2>1, <2>2 DEF InvitesKept
  <2>. QED BY <1>1, <1>2, <1>6, <2>3 DEF SendInvite, ActWrites
<1>7. CASE ChangeRole(r)
  <2> DEFINE u == req[r].item
             row == [users[u] EXCEPT !.role = "compliance_auditor"]
  <2>1. u \in 1..Len(users)
    BY <1>0, <1>7 DEF ChangeRole, NamesOK
  <2>2. users' = [users EXCEPT ![u].role = "compliance_auditor"]
    BY <1>7 DEF ChangeRole
  <2>3. users[u] \in UserRow /\ users \in Seq(UserRow)
    BY <2>1 DEF TypeInv, TablesOK
  <2>4. users' = [users EXCEPT ![u] = row]
    BY <2>1, <2>2, <2>3
  <2>5. /\ row \in UserRow /\ row.email = users[u].email /\ row.totp = users[u].totp
        /\ LockoutOK(users[u]) => LockoutOK(row)
    BY <2>3 DEF UserRow, Role, LockoutOK
  <2> HIDE DEF row
  <2>6. RowStep(u) /\ users'[u] = row
    BY <2>1, <2>3, <2>4, <2>5, PutUser
  <2>. QED BY <1>1, <1>2, <1>7, <2>1, <2>5, <2>6 DEF ChangeRole, ActWrites
<1>. QED BY <1>1, <1>3, <1>4, <1>5, <1>6, <1>7

\* A request that ends early leaves the tables as they are.
LEMMA AbortStep ==
    ASSUME TypeInv, NEW r \in Request, Abort(r)
    PROVE  /\ Replies(r) /\ Calm
           /\ severed \subseteq severed'
           /\ severed' \subseteq severed \cup {req[r].user}
           /\ req[r].pc = "flag" /\ req[r].op = "disable"
                 => severed' = severed \cup {req[r].user}
           /\ severed' # severed => req[r].op = "disable" /\ req[r].pc = "flag"
<1>1. req[r].pc # "idle" /\ Reply(r) /\ req \in [Request -> ReqRec]
  BY DEF Abort, TypeInv, RequestsOK
<1>2. Calm
  BY DEF Abort, Calm, Still, rows, limiter
<1>3. Replies(r)
  BY <1>1, ReplyMoves
<1>. QED BY <1>2, <1>3 DEF Abort

-----------------------------------------------------------------------------
\* A deadline passes: a row is written, and no other table.
LEMMA LapseStep ==
    ASSUME TypeInv, Lapse
    PROVE  /\ UNCHANGED <<req, totp, hits, window, arrived, resets, redeemed, raced>>
           /\ \/ /\ \E u \in 1..Len(users) :
                       RowStep(u) /\ users'[u].totp = users[u].totp
                 /\ UNCHANGED <<sessions, tokens, invites>>
              \/ /\ SessionsKept /\ Len(sessions') = Len(sessions)
                 /\ UNCHANGED <<users, tokens, invites>>
              \/ /\ TokensKept /\ Len(tokens') = Len(tokens)
                 /\ UNCHANGED <<users, sessions, invites>>
              \/ /\ InvitesKept
                 /\ UNCHANGED <<users, sessions, tokens>>
<1>1. UNCHANGED <<req, totp, hits, window, arrived, resets, redeemed, raced>>
  BY DEF Lapse, Lapsing, limiter, past
<1>2. CASE /\ \E u \in DOMAIN users :
                 /\ users[u].until = "ahead"
                 /\ users' = [users EXCEPT ![u].until = "past"]
           /\ UNCHANGED <<sessions, tokens, invites>>
  <2>1. PICK u \in DOMAIN users : /\ users[u].until = "ahead"
                                  /\ users' = [users EXCEPT ![u].until = "past"]
    BY <1>2
  <2>2. u \in 1..Len(users) /\ users[u] \in UserRow /\ users \in Seq(UserRow)
    BY DEF TypeInv, TablesOK
  <2> DEFINE row == [users[u] EXCEPT !.until = "past"]
  <2>3. users' = [users EXCEPT ![u] = row]
    BY <2>1, <2>2
  <2>4. /\ row \in UserRow /\ row.email = users[u].email /\ row.totp = users[u].totp
        /\ LockoutOK(users[u]) => LockoutOK(row)
    BY <2>1, <2>2 DEF UserRow, LockoutOK
  <2> HIDE DEF row
  <2>5. RowStep(u) /\ users'[u] = row
    BY <2>2, <2>3, <2>4, PutUser
  <2>. QED BY <1>1, <1>2, <2>2, <2>4, <2>5
<1>3. CASE /\ \E s \in DOMAIN sessions : sessions' = [sessions EXCEPT ![s].expired = TRUE]
           /\ UNCHANGED <<users, tokens, invites>>
  <2>1. PICK s \in DOMAIN sessions : sessions' = [sessions EXCEPT ![s].expired = TRUE]
    BY <1>3
  <2>2. s \in 1..Len(sessions) /\ sessions[s] \in SessionRow /\ sessions \in Seq(SessionRow)
    BY DEF TypeInv, TablesOK
  <2> DEFINE row == [sessions[s] EXCEPT !.expired = TRUE]
  <2>3. sessions' = [sessions EXCEPT ![s] = row]
    BY <2>1, <2>2
  <2>4. /\ row \in SessionRow /\ row.user = sessions[s].user
        /\ row.epoch = sessions[s].epoch /\ row.revoked = sessions[s].revoked
    BY <2>2 DEF SessionRow
  <2> HIDE DEF row
  <2>5. SessionsKept /\ Len(sessions') = Len(sessions)
    BY <2>2, <2>3, <2>4, PutSession
  <2>. QED BY <1>1, <1>3, <2>5
<1>4. CASE /\ \E t \in DOMAIN tokens : tokens' = [tokens EXCEPT ![t].expired = TRUE]
           /\ UNCHANGED <<users, sessions, invites>>
  <2>1. PICK t \in DOMAIN tokens : tokens' = [tokens EXCEPT ![t].expired = TRUE]
    BY <1>4
  <2>2. t \in 1..Len(tokens) /\ tokens[t] \in TokenRow /\ tokens \in Seq(TokenRow)
    BY DEF TypeInv, TablesOK
  <2> DEFINE row == [tokens[t] EXCEPT !.expired = TRUE]
  <2>3. tokens' = [tokens EXCEPT ![t] = row]
    BY <2>1, <2>2
  <2>4. row \in TokenRow /\ row.user = tokens[t].user /\ row.consumed = tokens[t].consumed
    BY <2>2 DEF TokenRow
  <2> HIDE DEF row
  <2>5. /\ tokens' \in Seq(TokenRow) /\ Len(tokens') = Len(tokens)
        /\ tokens'[t] = row /\ \A v \in 1..Len(tokens) : v # t => tokens'[v] = tokens[v]
    BY <2>2, <2>3, <2>4
  <2>6. TokensKept
    BY <2>4, <2>5 DEF TokensKept
  <2>. QED BY <1>1, <1>4, <2>5, <2>6
<1>5. CASE /\ \E i \in DOMAIN invites : invites' = [invites EXCEPT ![i].expired = TRUE]
           /\ UNCHANGED <<users, sessions, tokens>>
  <2>1. PICK i \in DOMAIN invites : invites' = [invites EXCEPT ![i].expired = TRUE]
    BY <1>5
  <2>2. i \in 1..Len(invites) /\ invites[i] \in InviteRow /\ invites \in Seq(InviteRow)
    BY DEF TypeInv, TablesOK
  <2> DEFINE row == [invites[i] EXCEPT !.expired = TRUE]
  <2>3. invites' = [invites EXCEPT ![i] = row]
    BY <2>1, <2>2
  <2>4. row \in InviteRow /\ row.consumed = invites[i].consumed
    BY <2>2 DEF InviteRow
  <2> HIDE DEF row
  <2>5. /\ invites' \in Seq(InviteRow) /\ Len(invites') = Len(invites)
        /\ invites'[i] = row /\ \A v \in 1..Len(invites) : v # i => invites'[v] = invites[v]
    BY <2>2, <2>3, <2>4
  <2>6. InvitesKept
    BY <2>4, <2>5 DEF InvitesKept
  <2>. QED BY <1>1, <1>5, <2>6
<1>. QED BY <1>2, <1>3, <1>4, <1>5 DEF Lapse

\* A request comes in: what it carries was handed out before.
Arrives(r) ==
    /\ req' \in [Request -> ReqRec]
    /\ \A q \in Request : q # r => req'[q] = req[q]
    /\ req[r].pc = "idle"
    /\ req'[r].pc \in {"limit", "token", "find", "session"}
    /\ req'[r].op # "none"
    /\ StepOK(req'[r])
    /\ NamesOK(req'[r], Len(users), Len(sessions), Len(tokens), Len(invites), Of, Gen)
    /\ req'[r].op \in {"sign_in", "recovery"} => req'[r].epoch = resets[req'[r].user]
    /\ req'[r].op = "accept" => req'[r].epoch = 0
    /\ req'[r].again => /\ req'[r].op \in {"reset", "accept", "recovery"}
                        /\ <<req'[r].op, req'[r].item>> \in redeemed
    /\ raced \subseteq raced'
    /\ \A q \in Request : req[q].pc # "idle" /\ {req'[r].op, req[q].op} \in Racing
                             => {req'[r].op, req[q].op} \in raced'
    /\ UNCHANGED <<users, sessions, tokens, invites, totp, hits, window, arrived, resets,
                   redeemed>>

LEMMA BeginArrives ==
    ASSUME TypeInv, NEW r \in Request, NEW x \in ReqRec, Begin(r, x),
           x.pc \in {"limit", "token", "find", "session"}, x.op # "none", StepOK(x),
           NamesOK(x, Len(users), Len(sessions), Len(tokens), Len(invites), Of, Gen),
           x.op \in {"sign_in", "recovery"} => x.epoch = resets[x.user],
           x.op = "accept" => x.epoch = 0,
           x.again => /\ x.op \in {"reset", "accept", "recovery"}
                      /\ <<x.op, x.item>> \in redeemed
    PROVE  Arrives(r)
<1>1. req \in [Request -> ReqRec]
  BY OwnerExists
<1>2. /\ req[r].pc = "idle" /\ req' = [req EXCEPT ![r] = x]
      /\ raced' = raced \cup (Racing \cap
            {{x.op, req[q].op} : q \in {q \in Request : req[q].pc # "idle"}})
      /\ UNCHANGED <<users, sessions, tokens, invites, totp, hits, window, arrived, resets,
                     redeemed>>
  BY DEF Begin, rows, limiter, past
<1>3. /\ req' \in [Request -> ReqRec] /\ req'[r] = x
      /\ \A q \in Request : q # r => req'[q] = req[q]
  BY <1>1, <1>2, PutRequest
<1>4. /\ raced \subseteq raced'
      /\ \A q \in Request : req[q].pc # "idle" /\ {x.op, req[q].op} \in Racing
                               => {x.op, req[q].op} \in raced'
  BY <1>2, Zenon
<1>. QED BY <1>2, <1>3, <1>4 DEF Arrives

LEMMA Openings ==
    /\ {"limit", "token", "find", "session"} \subseteq Steps
    /\ Operation = {"none", "sign_in", "request", "reset", "accept", "recovery"} \cup CookieOp
    /\ Blank \in ReqRec /\ ~Blank.again /\ Blank.epoch = 0 /\ Blank.user = 0 /\ Blank.sid = 0
BY BlankType DEF Steps, Operation, Blank

LEMMA Lengths ==
    ASSUME TypeInv
    PROVE  /\ Len(users) \in Nat /\ Len(sessions) \in Nat
           /\ \A n \in 1..Len(users) : n \in 0..Len(users)
           /\ \A n \in 1..Len(sessions) : n \in 0..Len(sessions)
           /\ 0 \in 0..Len(users) /\ 0 \in 0..Len(sessions)
<1>1. Len(users) \in Nat /\ Len(sessions) \in Nat
  BY DEF TypeInv, TablesOK
<1>. QED BY <1>1

LEMMA Accounted ==
    ASSUME TypeInv, NEW u \in DOMAIN users
    PROVE  u \in 1..Len(users) /\ u \in User /\ u \in Nat /\ resets[u] \in Nat
<1>1. u \in 1..Len(users) /\ Len(users) <= MaxUsers /\ Len(users) \in Nat
  BY DEF TypeInv, TablesOK
<1>2. u \in User
  BY <1>1, AccountsAssumption DEF User
<1>. QED BY <1>1, <1>2 DEF TypeInv, TablesOK

\* A request is the blank one with what the client sent.
LEMMA SignInArrives ==
    ASSUME TypeInv, NEW r \in Request, ArriveSignIn(r)
    PROVE  Arrives(r)
<1>1. PICK u \in DOMAIN users, p \in Password, c \in BOOLEAN :
         Begin(r, [Blank EXCEPT !.pc = "limit", !.op = "sign_in", !.user = u,
                                !.pwd = p, !.code = c, !.epoch = resets[u]])
  BY DEF ArriveSignIn
<1> DEFINE x == [Blank EXCEPT !.pc = "limit", !.op = "sign_in", !.user = u,
                              !.pwd = p, !.code = c, !.epoch = resets[u]]
<1>2. u \in 1..Len(users) /\ u \in Nat /\ resets[u] \in Nat
  BY Accounted
<1>3. /\ x \in ReqRec /\ x.pc = "limit" /\ x.op = "sign_in" /\ x.user = u /\ x.sid = 0
      /\ x.epoch = resets[u] /\ ~x.again
  BY <1>2, Openings, ZenonT(40) DEF ReqRec
<1>4. Begin(r, x)
  BY <1>1
<1> HIDE DEF x
<1>5. StepOK(x) /\ NamesOK(x, Len(users), Len(sessions), Len(tokens), Len(invites), Of, Gen)
  BY <1>2, <1>3, Lengths DEF StepOK, NamesOK, CookieOp
<1>. QED BY <1>3, <1>4, <1>5, BeginArrives

LEMMA MailArrives ==
    ASSUME TypeInv, NEW r \in Request, ArriveByMail(r)
    PROVE  Arrives(r)
<1>1. CASE \E u \in DOMAIN users :
              Begin(r, [Blank EXCEPT !.pc = "limit", !.op = "request", !.user = u])
  <2>1. PICK u \in DOMAIN users :
           Begin(r, [Blank EXCEPT !.pc = "limit", !.op = "request", !.user = u])
    BY <1>1
  <2> DEFINE x == [Blank EXCEPT !.pc = "limit", !.op = "request", !.user = u]
  <2>2. u \in 1..Len(users) /\ u \in Nat
    BY Accounted
  <2>3. /\ x \in ReqRec /\ x.pc = "limit" /\ x.op = "request" /\ x.user = u /\ x.sid = 0 /\ ~x.again
    BY <2>2, Openings DEF ReqRec
  <2>4. Begin(r, x)
    BY <2>1
  <2> HIDE DEF x
  <2>5. StepOK(x) /\ NamesOK(x, Len(users), Len(sessions), Len(tokens), Len(invites), Of, Gen)
    BY <2>2, <2>3, Lengths DEF StepOK, NamesOK, CookieOp
  <2>. QED BY <2>3, <2>4, <2>5, BeginArrives
<1>2. CASE \E t \in DOMAIN tokens, p \in Password :
              Begin(r, [Blank EXCEPT !.pc = "token", !.op = "reset", !.item = t, !.pwd = p,
                                     !.again = <<"reset", t>> \in redeemed])
  <2>1. PICK t \in DOMAIN tokens, p \in Password :
           Begin(r, [Blank EXCEPT !.pc = "token", !.op = "reset", !.item = t, !.pwd = p,
                                  !.again = <<"reset", t>> \in redeemed])
    BY <1>2
  <2> DEFINE b == <<"reset", t>> \in redeemed
             x == [Blank EXCEPT !.pc = "token", !.op = "reset", !.item = t, !.pwd = p,
                                !.again = b]
  <2>2. t \in 1..Len(tokens) /\ t \in Nat /\ b \in BOOLEAN
    BY DEF TypeInv, TablesOK
  <2>4. Begin(r, x)
    BY <2>1
  <2>6. b => <<"reset", t>> \in redeemed
    OBVIOUS
  <2> HIDE DEF b
  <2>3. /\ x \in ReqRec /\ x.pc = "token" /\ x.op = "reset" /\ x.item = t /\ x.again = b
        /\ x.user = 0 /\ x.sid = 0
    BY <2>2, Openings DEF ReqRec
  <2> HIDE DEF x
  <2>5. StepOK(x) /\ NamesOK(x, Len(users), Len(sessions), Len(tokens), Len(invites), Of, Gen)
    BY <2>2, <2>3, Lengths DEF StepOK, NamesOK, CookieOp
  <2>. QED BY <2>3, <2>4, <2>5, <2>6, BeginArrives
<1>3. CASE \E i \in DOMAIN invites :
              Begin(r, [Blank EXCEPT !.pc = "limit", !.op = "accept", !.item = i,
                                     !.again = <<"accept", i>> \in redeemed])
  <2>1. PICK i \in DOMAIN invites :
           Begin(r, [Blank EXCEPT !.pc = "limit", !.op = "accept", !.item = i,
                                  !.again = <<"accept", i>> \in redeemed])
    BY <1>3
  <2> DEFINE b == <<"accept", i>> \in redeemed
             x == [Blank EXCEPT !.pc = "limit", !.op = "accept", !.item = i, !.again = b]
  <2>2. i \in 1..Len(invites) /\ i \in Nat /\ b \in BOOLEAN
    BY DEF TypeInv, TablesOK
  <2>4. Begin(r, x)
    BY <2>1
  <2>6. b => <<"accept", i>> \in redeemed
    OBVIOUS
  <2> HIDE DEF b
  <2>3. /\ x \in ReqRec /\ x.pc = "limit" /\ x.op = "accept" /\ x.item = i /\ x.again = b
        /\ x.epoch = 0 /\ x.user = 0 /\ x.sid = 0
    BY <2>2, Openings DEF ReqRec
  <2> HIDE DEF x
  <2>5. StepOK(x) /\ NamesOK(x, Len(users), Len(sessions), Len(tokens), Len(invites), Of, Gen)
    BY <2>2, <2>3, Lengths DEF StepOK, NamesOK, CookieOp
  <2>. QED BY <2>3, <2>4, <2>5, <2>6, BeginArrives
<1>4. CASE \E u \in DOMAIN users : \E c \in Generated(u) :
              Begin(r, [Blank EXCEPT !.pc = "find", !.op = "recovery", !.user = u,
                                     !.item = <<u, c>>, !.epoch = resets[u],
                                     !.again = <<"recovery", <<u, c>>>> \in redeemed])
  <2>1. PICK u \in DOMAIN users : \E c \in Generated(u) :
           Begin(r, [Blank EXCEPT !.pc = "find", !.op = "recovery", !.user = u,
                                  !.item = <<u, c>>, !.epoch = resets[u],
                                  !.again = <<"recovery", <<u, c>>>> \in redeemed])
    BY <1>4
  <2>2. PICK c \in Generated(u) :
           Begin(r, [Blank EXCEPT !.pc = "find", !.op = "recovery", !.user = u,
                                  !.item = <<u, c>>, !.epoch = resets[u],
                                  !.again = <<"recovery", <<u, c>>>> \in redeemed])
    BY <2>1
  <2> DEFINE b == <<"recovery", <<u, c>>>> \in redeemed
             i == <<u, c>>
             e == resets[u]
             x == [Blank EXCEPT !.pc = "find", !.op = "recovery", !.user = u,
                                !.item = i, !.epoch = e, !.again = b]
  <2>3. Begin(r, x)
    BY <2>2
  <2>4. u \in 1..Len(users) /\ u \in User /\ u \in Nat /\ e \in Nat
    BY Accounted
  <2>5. c \in Nat \X Code /\ c[1] <= Gen[u]
    <3>1. totp[u].gen \in Nat
      BY <2>4, FreshCodes DEF TypeInv, TablesOK
    <3>. QED BY <2>4, <3>1 DEF Generated, Gen
  <2>6. i \in Nat \X (Nat \X Code) /\ i[1] = u /\ i[2] = c
    BY <2>4, <2>5
  <2>7. b \in BOOLEAN /\ (b => <<"recovery", i>> \in redeemed)
    OBVIOUS
  <2>10. e = resets[u]
    OBVIOUS
  <2> HIDE DEF b, i, e
  <2>8. /\ x \in ReqRec /\ x.pc = "find" /\ x.op = "recovery" /\ x.item = i /\ x.again = b
        /\ x.user = u /\ x.sid = 0 /\ x.epoch = e
    BY <2>4, <2>6, <2>7, Openings, ZenonT(40) DEF ReqRec
  <2> HIDE DEF x
  <2>9. StepOK(x) /\ NamesOK(x, Len(users), Len(sessions), Len(tokens), Len(invites), Of, Gen)
    BY <2>4, <2>5, <2>6, <2>8, Lengths DEF StepOK, NamesOK, CookieOp
  <2>. QED BY <2>3, <2>7, <2>8, <2>9, <2>10, BeginArrives
<1>. QED BY <1>1, <1>2, <1>3, <1>4 DEF ArriveByMail

LEMMA CookieArrives ==
    ASSUME TypeInv, NEW r \in Request, ArriveWithCookie(r)
    PROVE  Arrives(r)
<1>a. PICK s \in DOMAIN sessions : \E v \in 0..sessions[s].ver :
         LET Ask(op) == [Blank EXCEPT !.pc = "session", !.op = op, !.sid = s, !.ver = v]
         IN  \/ \E op \in {"refresh", "sign_out", "setup"} : Begin(r, Ask(op))
             \/ \E c \in BOOLEAN : Begin(r, [Ask("confirm") EXCEPT !.code = c])
             \/ \E p \in Password : Begin(r, [Ask("change") EXCEPT !.pwd = p])
             \/ \E c \in BOOLEAN : Begin(r, [Ask("disable") EXCEPT !.code = c])
             \/ \E t \in DOMAIN sessions : Begin(r, [Ask("end_session") EXCEPT !.item = t])
             \/ \E e \in Email : Begin(r, [Ask("invite") EXCEPT !.item = e])
             \/ \E u \in DOMAIN users : Begin(r, [Ask("demote") EXCEPT !.item = u])
  BY DEF ArriveWithCookie
<1>1. PICK v \in 0..sessions[s].ver :
         LET Ask(op) == [Blank EXCEPT !.pc = "session", !.op = op, !.sid = s, !.ver = v]
         IN  \/ \E op \in {"refresh", "sign_out", "setup"} : Begin(r, Ask(op))
             \/ \E c \in BOOLEAN : Begin(r, [Ask("confirm") EXCEPT !.code = c])
             \/ \E p \in Password : Begin(r, [Ask("change") EXCEPT !.pwd = p])
             \/ \E c \in BOOLEAN : Begin(r, [Ask("disable") EXCEPT !.code = c])
             \/ \E t \in DOMAIN sessions : Begin(r, [Ask("end_session") EXCEPT !.item = t])
             \/ \E e \in Email : Begin(r, [Ask("invite") EXCEPT !.item = e])
             \/ \E u \in DOMAIN users : Begin(r, [Ask("demote") EXCEPT !.item = u])
  BY <1>a
<1> DEFINE Ask(op) == [Blank EXCEPT !.pc = "session", !.op = op, !.sid = s, !.ver = v]
<1>2. s \in 1..Len(sessions) /\ s \in Nat /\ v \in Nat
  <2>1. s \in 1..Len(sessions)
    BY DEF TypeInv, TablesOK
  <2>2. sessions[s] \in SessionRow
    BY <2>1 DEF TypeInv, TablesOK
  <2>3. sessions[s].ver \in Nat
    BY <2>2 DEF SessionRow
  <2>. QED BY <2>1, <2>3
<1>3. \A op \in CookieOp :
         /\ Ask(op) \in ReqRec /\ Ask(op).pc = "session" /\ Ask(op).op = op
         /\ Ask(op).sid = s /\ Ask(op).user = 0 /\ ~Ask(op).again
  BY <1>2, Openings DEF ReqRec
<1>4. \E x \in ReqRec :
         /\ Begin(r, x) /\ x.pc = "session" /\ x.op \in CookieOp /\ x.sid = s /\ x.user = 0 /\ ~x.again
         /\ x.op = "end_session" => x.item \in 1..Len(sessions)
         /\ x.op = "invite" => x.item \in Email
         /\ x.op = "demote" => x.item \in 1..Len(users)
  <2> HIDE DEF Ask
  <2>1. CASE \E op \in {"refresh", "sign_out", "setup"} : Begin(r, Ask(op))
    <3>1. PICK op \in {"refresh", "sign_out", "setup"} : Begin(r, Ask(op))
      BY <2>1
    <3>. QED BY <1>3, <3>1 DEF CookieOp
  <2>2. CASE \E c \in BOOLEAN : Begin(r, [Ask("confirm") EXCEPT !.code = c])
    <3>1. PICK c \in BOOLEAN : Begin(r, [Ask("confirm") EXCEPT !.code = c])
      BY <2>2
    <3> DEFINE x == [Ask("confirm") EXCEPT !.code = c]
    <3>2. x \in ReqRec /\ x.pc = "session" /\ x.op = "confirm" /\ x.sid = s /\ x.user = 0 /\ ~x.again
      BY <1>3 DEF CookieOp, ReqRec
    <3>. QED BY <3>1, <3>2 DEF CookieOp
  <2>3. CASE \E p \in Password : Begin(r, [Ask("change") EXCEPT !.pwd = p])
    <3>1. PICK p \in Password : Begin(r, [Ask("change") EXCEPT !.pwd = p])
      BY <2>3
    <3> DEFINE x == [Ask("change") EXCEPT !.pwd = p]
    <3>2. x \in ReqRec /\ x.pc = "session" /\ x.op = "change" /\ x.sid = s /\ x.user = 0 /\ ~x.again
      BY <1>3 DEF CookieOp, ReqRec
    <3>. QED BY <3>1, <3>2 DEF CookieOp
  <2>4. CASE \E c \in BOOLEAN : Begin(r, [Ask("disable") EXCEPT !.code = c])
    <3>1. PICK c \in BOOLEAN : Begin(r, [Ask("disable") EXCEPT !.code = c])
      BY <2>4
    <3> DEFINE x == [Ask("disable") EXCEPT !.code = c]
    <3>2. x \in ReqRec /\ x.pc = "session" /\ x.op = "disable" /\ x.sid = s /\ x.user = 0 /\ ~x.again
      BY <1>3 DEF CookieOp, ReqRec
    <3>. QED BY <3>1, <3>2 DEF CookieOp
  <2>5. CASE \E t \in DOMAIN sessions : Begin(r, [Ask("end_session") EXCEPT !.item = t])
    <3>1. PICK t \in DOMAIN sessions : Begin(r, [Ask("end_session") EXCEPT !.item = t])
      BY <2>5
    <3> DEFINE x == [Ask("end_session") EXCEPT !.item = t]
    <3>2. t \in 1..Len(sessions) /\ t \in Nat
      BY DEF TypeInv, TablesOK
    <3>3. /\ x \in ReqRec /\ x.pc = "session" /\ x.op = "end_session" /\ x.sid = s
          /\ x.user = 0 /\ ~x.again /\ x.item = t
      BY <1>3, <3>2, ZenonT(40) DEF CookieOp, ReqRec
    <3>. QED BY <3>1, <3>2, <3>3 DEF CookieOp
  <2>6. CASE \E e \in Email : Begin(r, [Ask("invite") EXCEPT !.item = e])
    <3>1. PICK e \in Email : Begin(r, [Ask("invite") EXCEPT !.item = e])
      BY <2>6
    <3> DEFINE x == [Ask("invite") EXCEPT !.item = e]
    <3>2. /\ x \in ReqRec /\ x.pc = "session" /\ x.op = "invite" /\ x.sid = s
          /\ x.user = 0 /\ ~x.again /\ x.item = e
      BY <1>3, ZenonT(40) DEF CookieOp, ReqRec
    <3>. QED BY <3>1, <3>2 DEF CookieOp
  <2>7. CASE \E u \in DOMAIN users : Begin(r, [Ask("demote") EXCEPT !.item = u])
    <3>1. PICK u \in DOMAIN users : Begin(r, [Ask("demote") EXCEPT !.item = u])
      BY <2>7
    <3> DEFINE x == [Ask("demote") EXCEPT !.item = u]
    <3>2. u \in 1..Len(users) /\ u \in Nat
      BY Accounted
    <3>3. /\ x \in ReqRec /\ x.pc = "session" /\ x.op = "demote" /\ x.sid = s
          /\ x.user = 0 /\ ~x.again /\ x.item = u
      BY <1>3, <3>2, ZenonT(40) DEF CookieOp, ReqRec
    <3>. QED BY <3>1, <3>2, <3>3 DEF CookieOp
  <2>. QED BY <1>1, <2>1, <2>2, <2>3, <2>4, <2>5, <2>6, <2>7 DEF Ask
<1>5. PICK x \in ReqRec :
         /\ Begin(r, x) /\ x.pc = "session" /\ x.op \in CookieOp /\ x.sid = s /\ x.user = 0 /\ ~x.again
         /\ x.op = "end_session" => x.item \in 1..Len(sessions)
         /\ x.op = "invite" => x.item \in Email
         /\ x.op = "demote" => x.item \in 1..Len(users)
  BY <1>4
<1>6. StepOK(x) /\ NamesOK(x, Len(users), Len(sessions), Len(tokens), Len(invites), Of, Gen)
  BY <1>2, <1>5, Lengths DEF StepOK, NamesOK, CookieOp
<1>7. x.op \notin {"none", "sign_in", "recovery", "accept"}
  BY <1>5 DEF CookieOp
<1>. QED BY <1>5, <1>6, <1>7, BeginArrives

-----------------------------------------------------------------------------
\* Tables only grow, and what they say of a row's account stays.
UsersKept ==
    users' \in Seq(UserRow) /\ Len(users) <= Len(users') /\ Len(users') <= MaxUsers

SessionsGrow ==
    /\ SessionsKept
    /\ \A s \in 1..Len(sessions') : s > Len(sessions) => sessions'[s].user \in 1..Len(users)

TokensGrow ==
    /\ TokensKept
    /\ \A t \in 1..Len(tokens') : t > Len(tokens) => tokens'[t].user \in 1..Len(users)

TotpGrows ==
    totp' \in [User -> Credential] /\ \A u \in User : totp[u].gen <= totp'[u].gen

LimiterOK == hits' \in Nat /\ arrived' \in Nat /\ window' \in Nat

Grown ==
    /\ UsersKept /\ SessionsGrow /\ TokensGrow /\ InvitesKept /\ TotpGrows
    /\ LimiterOK /\ resets' \in [User -> Nat]

\* What a statement leaves alone is kept.
LEMMA Unwritten ==
    ASSUME TypeInv
    PROVE  /\ users' = users => UsersKept
           /\ \A u : u \in 1..Len(users) /\ RowStep(u) => UsersKept
           /\ sessions' = sessions => SessionsGrow
           /\ SessionsKept /\ Len(sessions') = Len(sessions) => SessionsGrow
           /\ tokens' = tokens => TokensGrow
           /\ TokensKept /\ Len(tokens') = Len(tokens) => TokensGrow
           /\ invites' = invites => InvitesKept
           /\ totp' = totp => TotpGrows
           /\ \A u \in User : TotpStep(u) => TotpGrows
           /\ UNCHANGED <<hits, window, arrived>> => LimiterOK
           /\ resets' = resets => resets' \in [User -> Nat]
<1>0. TablesOK
  BY DEF TypeInv
<1>1. /\ users' = users => UsersKept
      /\ \A u : u \in 1..Len(users) /\ RowStep(u) => UsersKept
  BY <1>0 DEF TablesOK, UsersKept, RowStep
<1>2. /\ sessions' = sessions => SessionsGrow
      /\ SessionsKept /\ Len(sessions') = Len(sessions) => SessionsGrow
  BY <1>0 DEF TablesOK, SessionsGrow, SessionsKept
<1>3. /\ tokens' = tokens => TokensGrow
      /\ TokensKept /\ Len(tokens') = Len(tokens) => TokensGrow
  BY <1>0 DEF TablesOK, TokensGrow, TokensKept
<1>4. invites' = invites => InvitesKept
  BY <1>0 DEF TablesOK, InvitesKept
<1>5. totp \in [User -> Credential] /\ \A u \in User : totp[u].gen \in Nat
  BY <1>0 DEF TablesOK, Credential
<1>6. totp' = totp => TotpGrows
  BY <1>5 DEF TotpGrows
<1>7. ASSUME NEW u \in User, TotpStep(u)
      PROVE  TotpGrows
  BY <1>5, <1>7 DEF TotpStep, TotpGrows
<1>8. /\ UNCHANGED <<hits, window, arrived>> => LimiterOK
      /\ resets' = resets => resets' \in [User -> Nat]
  BY <1>0 DEF TablesOK, LimiterOK
<1>. QED BY <1>1, <1>2, <1>3, <1>4, <1>6, <1>7, <1>8

LEMMA TablesGrow ==
    ASSUME TypeInv, [Next]_vars
    PROVE  Grown
<1>0. TablesOK
  BY DEF TypeInv
<1>1. ASSUME NEW r \in Request,
             ArriveSignIn(r) \/ ArriveByMail(r) \/ ArriveWithCookie(r)
      PROVE  Grown
  BY <1>1, SignInArrives, MailArrives, CookieArrives, Unwritten DEF Arrives, Grown
<1>2. ASSUME NEW r \in Request, ReadHits(r) \/ BumpHits(r)
      PROVE  Grown
  <2>1. Still /\ LimiterOK
    <3>1. CASE ReadHits(r)
      BY <1>0, <3>1, LimitStep DEF TablesOK, LimiterOK
    <3>2. CASE BumpHits(r)
      <4>1. req[r].count \in Nat
        BY OwnerExists DEF ReqRec
      <4>2. hits' = hits \/ hits' = req[r].count + 1
        BY <3>2, LimitStep
      <4>3. hits' \in Nat
        BY <1>0, <4>1, <4>2 DEF TablesOK
      <4>4. Still /\ UNCHANGED <<window, arrived>>
        BY <3>2, LimitStep
      <4>. QED BY <1>0, <4>3, <4>4 DEF TablesOK, LimiterOK
    <3>. QED BY <1>2, <3>1, <3>2
  <2>. QED BY <2>1, Unwritten DEF Still, Grown
<1>3. ASSUME NEW r \in Request,
             \/ FindUser(r) \/ BeginFailure(r) \/ CountFailure(r) \/ SecondFactor(r)
             \/ LookupSession(r) \/ LookupUser(r) \/ LookupMember(r)
             \/ CheckCsrf(r) \/ VerifyPassword(r)
             \/ ReadToken(r) \/ ReadInvite(r) \/ CheckEmail(r) \/ ReadCredential(r)
             \/ Abort(r)
      PROVE  Grown
  <2>1. Calm
    BY <1>3, SignInLooks, CookieLooks, LinkLooks, CredentialLooks,
       AbortStep
  <2>. QED BY <2>1, Unwritten DEF Calm, Still, Grown
<1>4. ASSUME NEW r \in Request,
             \/ RecordFailure(r) \/ ClearFailures(r) \/ Rehash(r) \/ UpdatePassword(r)
             \/ SetTotpEnabled(r)
      PROVE  Grown
  <2>1. req[r].user \in 1..Len(users) /\ RowStep(req[r].user) /\ OnlyUsers
    BY <1>4, RecordFailureStep, ClearFailuresStep, PasswordStep, SetTotpEnabledStep
  <2>2. UsersKept
    BY <2>1, Unwritten
  <2>. QED BY <2>1, <2>2, Unwritten DEF OnlyUsers, Grown
<1>5. ASSUME NEW r \in Request, OpenSession(r)
      PROVE  Grown
  <2>1. /\ req[r].user \in 1..Len(users) /\ OnlySessions /\ SessionsKept
        /\ Len(sessions') = Len(sessions) + 1
        /\ sessions'[Len(sessions) + 1].user = req[r].user
        /\ resets' = resets
    BY <1>5, OpenSessionStep
  <2>2. SessionsGrow
    <3>1. Len(sessions) \in Nat
      BY <1>0 DEF TablesOK
    <3>2. ASSUME NEW s \in 1..Len(sessions'), s > Len(sessions)
          PROVE  sessions'[s].user \in 1..Len(users)
      <4>1. s = Len(sessions) + 1
        BY <2>1, <3>1, <3>2
      <4>. QED BY <2>1, <4>1
    <3>3. SessionsKept
      BY <2>1
    <3>. QED BY <3>2, <3>3 DEF SessionsGrow
  <2>. QED BY <2>1, <2>2, Unwritten DEF OnlySessions, Grown
<1>6. ASSUME NEW r \in Request, RotateToken(r) \/ RevokeAll(r)
      PROVE  Grown
  <2>1. /\ OnlySessions /\ SessionsKept /\ Len(sessions') = Len(sessions)
        /\ resets' \in [User -> Nat]
    BY <1>0, <1>6, RotateTokenStep, RevokeAllStep DEF TablesOK
  <2>. QED BY <2>1, Unwritten DEF OnlySessions, Grown
<1>7. ASSUME NEW r \in Request, MarkToken(r) \/ ConsumeInvite(r)
      PROVE  Grown
  BY <1>7, MarkTokenStep, ConsumeInviteStep, Unwritten DEF Grown
<1>8. ASSUME NEW r \in Request, CreateUser(r)
      PROVE  Grown
  <2>1. UsersKept
    BY <1>0, <1>8, CreateUserStep, Unwritten DEF UsersKept, TablesOK
  <2>. QED BY <1>8, <2>1, CreateUserStep, Unwritten DEF Grown
<1>9. ASSUME NEW r \in Request, WriteCodes(r) \/ DeleteCredential(r)
      PROVE  Grown
  <2>1. OnlyTotp /\ req[r].user \in User /\ TotpStep(req[r].user)
    BY <1>9, WriteCodesStep, DeleteCredentialStep
  <2>. QED BY <2>1, Unwritten DEF OnlyTotp, Grown
<1>10. ASSUME NEW r \in Request, Act(r)
       PROVE  Grown
  <2>1. UNCHANGED <<hits, window, arrived, resets, redeemed, raced>> /\ ActWrites(r)
    BY <1>10, ActStep
  <2>2. CASE /\ TokensKept /\ Len(tokens') = Len(tokens) + 1
             /\ tokens'[Len(tokens) + 1].user = req[r].user
             /\ req[r].user \in 1..Len(users)
             /\ UNCHANGED <<users, sessions, invites, totp>>
    <3>1. TokensGrow
      BY <1>0, <2>2 DEF TokensGrow, TablesOK
    <3>. QED BY <2>1, <2>2, <3>1, Unwritten DEF Grown
  <2>3. CASE /\ SessionsKept /\ Len(sessions') = Len(sessions)
             /\ UNCHANGED <<users, tokens, invites, totp>>
    BY <2>1, <2>3, Unwritten DEF Grown
  <2>4. CASE /\ req[r].user \in User /\ TotpStep(req[r].user)
             /\ UNCHANGED <<users, sessions, tokens, invites>>
    <3>1. TotpGrows
      BY <2>4, Unwritten
    <3>. QED BY <2>1, <2>4, <3>1, Unwritten DEF Grown
  <2>5. CASE /\ InvitesKept
             /\ UNCHANGED <<users, sessions, tokens, totp>>
    BY <2>1, <2>5, Unwritten DEF Grown
  <2>6. CASE /\ req[r].item \in 1..Len(users) /\ RowStep(req[r].item)
             /\ UNCHANGED <<sessions, tokens, invites, totp>>
    <3>1. UsersKept
      BY <2>6, Unwritten
    <3>. QED BY <2>1, <2>6, <3>1, Unwritten DEF Grown
  <2>. QED BY <2>1, <2>2, <2>3, <2>4, <2>5, <2>6 DEF ActWrites
<1>11. ASSUME Lapse
       PROVE  Grown
  <2>1. /\ UsersKept /\ SessionsGrow /\ TokensGrow /\ InvitesKept
        /\ UNCHANGED <<totp, hits, window, arrived, resets>>
    BY <1>11, LapseStep, Unwritten
  <2>. QED BY <2>1, Unwritten DEF Grown
<1>12. ASSUME NextWindow
       PROVE  Grown
  <2>1. /\ UNCHANGED <<users, sessions, tokens, invites, totp, resets>>
        /\ window' = window + 1 /\ hits' = 0 /\ arrived' = 0
    BY <1>12 DEF NextWindow, Lapsing, rows, past
  <2>2. LimiterOK
    BY <1>0, <2>1 DEF TablesOK, LimiterOK
  <2>. QED BY <2>1, <2>2, Unwritten DEF Grown
<1>13. ASSUME UNCHANGED vars
       PROVE  Grown
  BY <1>13, Unwritten DEF vars, rows, limiter, past, Grown
<1>. QED BY <1>1, <1>2, <1>3, <1>4, <1>5, <1>6, <1>7, <1>8, <1>9, <1>10, <1>11, <1>12, <1>13
     DEF Next, RequestStep

\* What a request names is still there after any step.
Placed(x) == NamesOK(x, Len(users'), Len(sessions'), Len(tokens'), Len(invites'), Of', Gen')

LEMMA NamesStay ==
    ASSUME TypeInv, Grown, NEW x \in ReqRec,
           NamesOK(x, Len(users), Len(sessions), Len(tokens), Len(invites), Of, Gen)
    PROVE  Placed(x)
<1>1. /\ 1..Len(users) \subseteq 1..Len(users') /\ 1..Len(sessions) \subseteq 1..Len(sessions')
      /\ 1..Len(tokens) \subseteq 1..Len(tokens') /\ 1..Len(invites) \subseteq 1..Len(invites')
  BY DEF TypeInv, TablesOK, Grown, UsersKept, SessionsGrow, SessionsKept, TokensGrow,
         TokensKept, InvitesKept
<1>2. \A t \in 1..Len(tokens) : Of'[t] = Of[t]
  BY <1>1 DEF Of, Grown, TokensGrow, TokensKept
<1>3. 1..Len(users) \subseteq User
  BY AccountsAssumption DEF TypeInv, TablesOK, User
<1>4. \A u \in User : Gen[u] \in Nat /\ Gen'[u] \in Nat /\ Gen[u] <= Gen'[u]
  BY DEF TypeInv, TablesOK, Grown, TotpGrows, Gen, Credential
<1>5. x.op = "recovery" => x.item[2][1] <= Gen'[x.user]
  <2>1. SUFFICES ASSUME x.op = "recovery"
                 PROVE  x.item[2][1] <= Gen'[x.user]
    OBVIOUS
  <2>2. x.item \in Nat \X (Nat \X Code) /\ x.item[2][1] <= Gen[x.user] /\ x.user \in User
    BY <1>3, <2>1 DEF NamesOK
  <2>3. x.item[2][1] \in Nat
    BY <2>2
  <2>. QED BY <1>4, <2>2, <2>3
<1>. QED BY <1>1, <1>2, <1>5 DEF NamesOK, Placed

\* A request at its next statement, as far as its types go.
Stays(r) ==
    /\ req' \in [Request -> ReqRec]
    /\ \A q \in Request : q # r => req'[q] = req[q]
    /\ StepOK(req'[r]) /\ Placed(req'[r])

LEMMA ReplyStays ==
    ASSUME TypeInv, Grown, NEW r \in Request, Replies(r)
    PROVE  Stays(r)
<1>1. StepOK(Blank)
  BY BlankType DEF StepOK
<1>2. Placed(Blank)
  <2>1. Len(users') \in Nat /\ Len(sessions') \in Nat
    BY DEF Grown, UsersKept, SessionsGrow, SessionsKept
  <2>. QED BY <2>1, Openings, BlankType DEF NamesOK, CookieOp, Placed
<1>. QED BY <1>1, <1>2 DEF Replies, Stays

LEMMA MoveStays ==
    ASSUME TypeInv, Grown, NEW r \in Request, NEW step, Moves(r, step),
           req'[r].user = req[r].user, StepOK(req'[r]),
           req[r].pc # "session",
           req[r].op = "reset" => req[r].pc # "token",
           req[r].op = "accept" /\ step \in {"consume", "open"}
              => req[r].pc \in {"consume", "open"}
    PROVE  Stays(r)
<1>1. NamesOK(req[r], Len(users), Len(sessions), Len(tokens), Len(invites), Of, Gen)
  BY OwnerExists
<1>2. req'[r] \in ReqRec
  BY DEF Moves
<1>3. NamesOK(req'[r], Len(users), Len(sessions), Len(tokens), Len(invites), Of, Gen)
  BY <1>1 DEF NamesOK, Moves
<1>. QED BY <1>2, <1>3, NamesStay DEF Stays, Moves

LEMMA WalkStays ==
    ASSUME TypeInv, Grown, NEW r \in Request, Walks(r)
    PROVE  Stays(r)
<1>1. /\ Moves(r, req'[r].pc) /\ req'[r].user = req[r].user /\ StepOK(req'[r])
      /\ req[r].pc # "session" /\ req[r].op # "reset"
      /\ req'[r].pc \notin {"consume", "open"}
  BY DEF Walks, Goes
<1>. QED BY <1>1, MoveStays

LEMMA RequestStays ==
    ASSUME TypeInv, Grown, NEW r \in Request, RequestStep(r)
    PROVE  Stays(r)
<1>0. req \in [Request -> ReqRec] /\ req[r] \in ReqRec /\ StepOK(req[r])
  BY OwnerExists
<1>1. CASE ArriveSignIn(r) \/ ArriveByMail(r) \/ ArriveWithCookie(r)
  <2>1. Arrives(r)
    BY <1>1, SignInArrives, MailArrives, CookieArrives
  <2>2. req'[r] \in ReqRec
    BY <2>1 DEF Arrives
  <2>. QED BY <2>1, <2>2, NamesStay DEF Arrives, Stays
<1>2. CASE ReadHits(r) \/ BumpHits(r)
  <2>1. CASE Replies(r)
    BY <2>1, ReplyStays
  <2>2. CASE ~Replies(r)
    <3>1. /\ Goes(r, req'[r].pc) /\ req[r].pc \in {"limit", "bump"}
          /\ req'[r].pc \in {"bump", "invite", "find"}
          /\ ReadHits(r) => req'[r].pc = "bump"
          /\ BumpHits(r) => StepOK(req'[r])
      BY <1>2, <2>2, LimitStep DEF Goes, Moves
    <3>2. StepOK(req'[r])
      BY <1>0, <1>2, <3>1 DEF StepOK, Goes, Moves
    <3>. QED BY <1>0, <3>1, <3>2, MoveStays DEF Goes, StepOK
  <2>. QED BY <2>1, <2>2
<1>3. CASE FindUser(r) \/ BeginFailure(r) \/ CountFailure(r) \/ SecondFactor(r)
  BY <1>3, SignInLooks, ReplyStays, WalkStays
<1>4. CASE \/ LookupSession(r) \/ LookupUser(r) \/ LookupMember(r)
           \/ CheckCsrf(r) \/ VerifyPassword(r)
  <2>1. CASE req[r].pc = "session" /\ Moves(r, "user") /\ req'[r].user = sessions[req[r].sid].user
    <3>1. req[r].op \in CookieOp /\ req[r].sid \in 1..Len(sessions)
      BY <1>0, <2>1, OwnerExists DEF StepOK, NamesOK
    <3>2. req'[r].user \in 1..Len(users)
      BY <2>1, <3>1 DEF TypeInv, TablesOK
    <3>3. /\ req' \in [Request -> ReqRec] /\ \A q \in Request : q # r => req'[q] = req[q]
          /\ req'[r] \in ReqRec /\ req'[r].pc = "user" /\ req'[r].op = req[r].op
          /\ req'[r].sid = req[r].sid /\ req'[r].item = req[r].item
      BY <2>1 DEF Moves
    <3>4. StepOK(req'[r])
      BY <3>1, <3>3 DEF StepOK
    <3>5. NamesOK(req'[r], Len(users), Len(sessions), Len(tokens), Len(invites), Of, Gen)
      BY <3>1, <3>2, <3>3, OwnerExists DEF NamesOK, CookieOp
    <3>. QED BY <3>3, <3>4, <3>5, NamesStay DEF Stays
  <2>. QED BY <1>4, <2>1, CookieLooks, ReplyStays, WalkStays
<1>5. CASE ReadToken(r) \/ ReadInvite(r) \/ CheckEmail(r)
  <2>1. CASE /\ req[r].pc = "token" /\ Moves(r, "mark")
             /\ req'[r].user = tokens[req[r].item].user
    <3>1. req[r].op = "reset" /\ req[r].item \in 1..Len(tokens)
      BY <1>0, <2>1, OwnerExists DEF StepOK, NamesOK
    <3>2. req'[r].user = Of[req[r].item]
      BY <2>1, <3>1 DEF Of
    <3>3. /\ req' \in [Request -> ReqRec] /\ \A q \in Request : q # r => req'[q] = req[q]
          /\ req'[r] \in ReqRec /\ req'[r].pc = "mark" /\ req'[r].op = "reset"
          /\ req'[r].item = req[r].item
      BY <2>1, <3>1 DEF Moves
    <3>4. StepOK(req'[r])
      BY <3>3 DEF StepOK
    <3>5. NamesOK(req'[r], Len(users), Len(sessions), Len(tokens), Len(invites), Of, Gen)
      <4>1. req'[r].user \in 0..Len(users)
        <5>1. Of[req[r].item] \in 1..Len(users)
          BY <3>1 DEF Of, TypeInv, TablesOK
        <5>. QED BY <3>2, <5>1, Lengths
      <4>2. req'[r].sid \in 0..Len(sessions)
        BY <2>1, OwnerExists DEF Moves, NamesOK
      <4>. QED BY <3>1, <3>2, <3>3, <4>1, <4>2 DEF NamesOK, CookieOp
    <3>. QED BY <3>3, <3>4, <3>5, NamesStay DEF Stays
  <2>2. CASE req[r].pc = "invite" /\ Goes(r, "email")
    <3>1. req[r].op = "accept"
      BY <1>0, <2>2 DEF StepOK
    <3>2. StepOK(req'[r])
      BY <2>2, <3>1 DEF StepOK, Goes, Moves
    <3>. QED BY <2>2, <3>1, <3>2, MoveStays DEF Goes
  <2>. QED BY <1>5, <2>1, <2>2, LinkLooks, ReplyStays, WalkStays
<1>6. CASE ReadCredential(r)
  <2>1. CASE /\ req[r].pc = "credential" /\ req[r].op \in {"confirm", "recovery"}
             /\ Moves(r, "write") /\ req'[r].user = req[r].user
    <3>1. StepOK(req'[r])
      BY <2>1 DEF StepOK, Moves
    <3>. QED BY <2>1, <3>1, MoveStays
  <2>. QED BY <1>6, <2>1, CredentialLooks, ReplyStays, WalkStays DEF Goes
<1>7. CASE \/ RecordFailure(r) \/ SetTotpEnabled(r) \/ OpenSession(r) \/ RotateToken(r)
           \/ RevokeAll(r) \/ Act(r) \/ Abort(r)
  BY <1>7, RecordFailureStep, SetTotpEnabledStep, OpenSessionStep, RotateTokenStep,
     RevokeAllStep, ActStep, AbortStep, ReplyStays
<1>8. CASE ClearFailures(r) \/ Rehash(r) \/ UpdatePassword(r)
  <2>1. /\ Moves(r, req'[r].pc) /\ req'[r].user = req[r].user /\ req[r].pc # "session"
        /\ \/ req[r].op = "sign_in" /\ req'[r].pc \in {"rehash", "open"}
           \/ req[r].op = "change" /\ req'[r].pc = "rotate"
           \/ /\ req[r].op = "reset" /\ req[r].pc = "password"
              /\ req'[r].pc = "revoke_all"
    <3>1. CASE ClearFailures(r)
      <4>1. req[r].pc # "session"
        BY <3>1 DEF ClearFailures, At
      <4>. QED BY <3>1, <4>1, ClearFailuresStep DEF Goes
    <3>2. CASE Rehash(r) \/ UpdatePassword(r)
      BY <3>2, PasswordStep DEF Goes
    <3>. QED BY <1>8, <3>1, <3>2
  <2>2. StepOK(req'[r])
    BY <2>1 DEF StepOK, Moves
  <2>. QED BY <2>1, <2>2, MoveStays
<1>9. CASE MarkToken(r) \/ ConsumeInvite(r) \/ WriteCodes(r) \/ DeleteCredential(r)
  <2>1. /\ Moves(r, req'[r].pc) /\ req'[r].user = req[r].user
        /\ \/ req[r].pc = "mark" /\ req[r].op = "reset" /\ req'[r].pc = "password"
           \/ req[r].pc = "consume" /\ req[r].op = "accept" /\ req'[r].pc = "open"
           \/ req[r].pc = "write" /\ req[r].op = "confirm" /\ req'[r].pc = "flag"
           \/ req[r].pc = "write" /\ req[r].op = "recovery" /\ req'[r].pc = "open"
           \/ req[r].pc = "delete" /\ req[r].op = "disable" /\ req'[r].pc = "flag"
    BY <1>9, MarkTokenStep, ConsumeInviteStep, WriteCodesStep, DeleteCredentialStep
       DEF Goes, Moves
  <2>2. StepOK(req'[r])
    BY <2>1 DEF StepOK, Moves
  <2>. QED BY <2>1, <2>2, MoveStays
<1>10. CASE CreateUser(r)
  <2>1. CASE Replies(r)
    BY <2>1, ReplyStays
  <2>2. CASE ~Replies(r)
    <3>1. /\ req[r].op = "accept" /\ Moves(r, "consume") /\ req'[r].user = Len(users) + 1
          /\ Len(users') = Len(users) + 1 /\ users' \in Seq(UserRow)
          /\ UNCHANGED invites
      BY <1>10, <2>2, CreateUserStep
    <3>2. req[r].item \in 1..Len(invites)
      BY <3>1, OwnerExists DEF NamesOK
    <3>3. /\ req' \in [Request -> ReqRec] /\ \A q \in Request : q # r => req'[q] = req[q]
          /\ req'[r].pc = "consume" /\ req'[r].op = "accept" /\ req'[r].item = req[r].item
      BY <3>1 DEF Moves
    <3>4. req'[r].user \in 1..Len(users') /\ req'[r].item \in 1..Len(invites')
      <4>1. users \in Seq(UserRow)
        BY DEF TypeInv, TablesOK
      <4>2. Len(users) \in Nat
        BY <4>1
      <4>. QED BY <3>1, <3>2, <3>3, <4>2
    <3>5. StepOK(req'[r])
      BY <3>3 DEF StepOK
    <3>6. Placed(req'[r])
      <4>1. Len(users') \in Nat /\ Len(sessions') \in Nat
        BY DEF Grown, UsersKept, SessionsGrow, SessionsKept
      <4>2. req'[r].sid \in 0..Len(sessions')
        <5>1. req'[r].sid \in 0..Len(sessions)
          BY <3>1, OwnerExists DEF Moves, NamesOK
        <5>2. Len(sessions) <= Len(sessions') /\ Len(sessions) \in Nat
          BY Lengths DEF Grown, SessionsGrow, SessionsKept
        <5>. QED BY <4>1, <5>1, <5>2
      <4>3. req'[r].user \in 0..Len(users')
        BY <3>4, <4>1
      <4>. QED BY <3>3, <3>4, <4>2, <4>3 DEF NamesOK, Placed, CookieOp
    <3>. QED BY <3>3, <3>5, <3>6 DEF Stays
  <2>. QED BY <2>1, <2>2
<1>. QED BY <1>1, <1>2, <1>3, <1>4, <1>5, <1>6, <1>7, <1>8, <1>9, <1>10 DEF RequestStep

LEMMA NextType ==
    ASSUME TypeInv, [Next]_vars
    PROVE  TypeInv'
<1>1. Grown
  BY TablesGrow
<1>2. TablesOK'
  <2>1. \A s \in 1..Len(sessions') : sessions'[s].user \in 1..Len(users')
    <3>1. ASSUME NEW s \in 1..Len(sessions')
          PROVE  sessions'[s].user \in 1..Len(users')
      <4>1. Len(users) \in Nat /\ Len(users') \in Nat /\ Len(users) <= Len(users')
        BY <1>1 DEF Grown, UsersKept, TypeInv, TablesOK
      <4>2. Len(sessions) \in Nat
        BY DEF TypeInv, TablesOK
      <4>3. CASE s > Len(sessions)
        BY <1>1, <4>1, <4>3 DEF Grown, SessionsGrow
      <4>4. CASE ~(s > Len(sessions))
        <5>1. s \in 1..Len(sessions)
          BY <4>2, <4>4
        <5>2. sessions'[s].user = sessions[s].user
          BY <1>1, <5>1 DEF Grown, SessionsGrow, SessionsKept
        <5>3. sessions[s].user \in 1..Len(users)
          BY <5>1 DEF TypeInv, TablesOK
        <5>. QED BY <4>1, <5>2, <5>3
      <4>. QED BY <4>3, <4>4
    <3>. QED BY <3>1
  <2>2. \A t \in 1..Len(tokens') : tokens'[t].user \in 1..Len(users')
    <3>1. ASSUME NEW t \in 1..Len(tokens')
          PROVE  tokens'[t].user \in 1..Len(users')
      <4>1. Len(users) \in Nat /\ Len(users') \in Nat /\ Len(users) <= Len(users')
        BY <1>1 DEF Grown, UsersKept, TypeInv, TablesOK
      <4>2. Len(tokens) \in Nat
        BY DEF TypeInv, TablesOK
      <4>3. CASE t > Len(tokens)
        BY <1>1, <4>1, <4>3 DEF Grown, TokensGrow
      <4>4. CASE ~(t > Len(tokens))
        <5>1. t \in 1..Len(tokens)
          BY <4>2, <4>4
        <5>2. tokens'[t].user = tokens[t].user
          BY <1>1, <5>1 DEF Grown, TokensGrow, TokensKept
        <5>3. tokens[t].user \in 1..Len(users)
          BY <5>1 DEF TypeInv, TablesOK
        <5>. QED BY <4>1, <5>2, <5>3
      <4>. QED BY <4>3, <4>4
    <3>. QED BY <3>1
  <2>. QED BY <1>1, <2>1, <2>2 DEF Grown, UsersKept, SessionsGrow, SessionsKept, TokensGrow,
           TokensKept, InvitesKept, TotpGrows, LimiterOK, TablesOK
<1>3. /\ req' \in [Request -> ReqRec]
      /\ \A q \in Request : StepOK(req'[q]) /\ Placed(req'[q])
  <2>0. /\ req \in [Request -> ReqRec]
        /\ \A q \in Request : StepOK(req[q]) /\ Placed(req[q])
    <3>1. req \in [Request -> ReqRec]
      BY DEF TypeInv, RequestsOK
    <3>. QED BY <1>1, <3>1, OwnerExists, NamesStay
  <2>1. CASE \E r \in Request : RequestStep(r)
    <3>1. PICK r \in Request : RequestStep(r)
      BY <2>1
    <3>2. Stays(r)
      BY <1>1, <3>1, RequestStays
    <3>3. \A q \in Request : StepOK(req'[q]) /\ Placed(req'[q])
      <4>1. ASSUME NEW q \in Request
            PROVE  StepOK(req'[q]) /\ Placed(req'[q])
        <5>1. q = r \/ req'[q] = req[q]
          BY <3>2 DEF Stays
        <5>. QED BY <2>0, <3>2, <5>1 DEF Stays
      <4>. QED BY <4>1
    <3>. QED BY <3>2, <3>3 DEF Stays
  <2>2. CASE UNCHANGED req
    BY <2>0, <2>2
  <2>. QED BY <2>1, <2>2 DEF Next, Lapse, NextWindow, Lapsing, vars
<1>. QED BY <1>2, <1>3 DEF TypeInv, RequestsOK, Placed

LEMMA InitType ==
    ASSUME Init
    PROVE  TypeInv
<1>1. PICK old \in BOOLEAN :
         /\ users = <<[NewUser(FirstEmail, FirstPassword, "org_owner", 0)
                         EXCEPT !.totp = old, !.stale = old]>>
         /\ totp = [u \in User |->
                      IF u = 1 /\ old
                      THEN [row |-> TRUE, gen |-> 1, codes |-> {1} \X Code]
                      ELSE [row |-> FALSE, gen |-> 0, codes |-> {}]]
  BY DEF Init
<1>2. /\ users \in Seq(UserRow) /\ Len(users) = 1 /\ Len(users) <= MaxUsers
  <2> DEFINE row == [NewUser(FirstEmail, FirstPassword, "org_owner", 0)
                      EXCEPT !.totp = old, !.stale = old]
  <2>1. row \in UserRow
    BY AccountsAssumption DEF NewUser, UserRow, Role
  <2>2. users = <<row>>
    BY <1>1
  <2> HIDE DEF row
  <2>3. MaxUsers \in Nat /\ 1 <= MaxUsers
    BY AccountsAssumption
  <2>. QED BY <2>1, <2>2, <2>3
<1>3. totp \in [User -> Credential]
  <2>1. \A u \in User : totp[u] \in Credential
    BY <1>1 DEF Credential
  <2>. QED BY <1>1, <2>1
<1>4. /\ sessions \in Seq(SessionRow) /\ Len(sessions) = 1 /\ sessions[1].user = 1
  BY DEF Init, SessionRow
<1>5. /\ tokens \in Seq(TokenRow) /\ Len(tokens) = 1 /\ tokens[1].user = 1
  BY DEF Init, TokenRow
<1>6. invites \in Seq(InviteRow)
  <2>1. Invited \in Seq(Email)
    BY AccountsAssumption
  <2> DEFINE Row(i) == [email |-> Invited[i], role |-> "compliance_auditor",
                        consumed |-> FALSE, expired |-> FALSE]
  <2>2. \A i \in 1..Len(Invited) : Row(i) \in InviteRow
    BY <2>1 DEF InviteRow, Role
  <2>3. invites = [i \in 1..Len(Invited) |-> Row(i)]
    BY <2>1 DEF Init
  <2> HIDE DEF Row
  <2>4. Len(Invited) \in Nat
    BY <2>1
  <2>. QED BY <2>2, <2>3, <2>4
<1>7. /\ hits \in Nat /\ arrived \in Nat /\ window \in Nat /\ resets \in [User -> Nat]
  BY DEF Init
<1>8. TablesOK
  BY <1>2, <1>3, <1>4, <1>5, <1>6, <1>7 DEF TablesOK
<1>9. RequestsOK
  <2>1. req \in [Request -> ReqRec] /\ \A r \in Request : req[r] = Blank
    BY Openings DEF Init
  <2>2. StepOK(Blank)
    BY BlankType DEF StepOK
  <2>3. NamesOK(Blank, Len(users), Len(sessions), Len(tokens), Len(invites), Of, Gen)
    BY <1>2, <1>4, Openings, BlankType DEF NamesOK, CookieOp
  <2>. QED BY <2>1, <2>2, <2>3 DEF RequestsOK
<1>. QED BY <1>8, <1>9 DEF TypeInv

LEMMA ImpliesTypeOK ==
    ASSUME TypeInv, severed \subseteq User
    PROVE  TypeOK
<1>1. TablesOK /\ RequestsOK
  BY DEF TypeInv
<1>2. tokens \in Seq([user : DOMAIN users, consumed : BOOLEAN, expired : BOOLEAN])
  <2>1. DOMAIN users = 1..Len(users) /\ tokens \in Seq(TokenRow)
    BY <1>1 DEF TablesOK
  <2>2. ASSUME NEW t \in 1..Len(tokens)
        PROVE  tokens[t] \in [user : DOMAIN users, consumed : BOOLEAN, expired : BOOLEAN]
    <3>1. tokens[t] \in TokenRow /\ tokens[t].user \in DOMAIN users
      BY <1>1, <2>1 DEF TablesOK
    <3>. QED BY <3>1 DEF TokenRow
  <2> DEFINE Rows == [user : DOMAIN users, consumed : BOOLEAN, expired : BOOLEAN]
  <2>3. \A t \in 1..Len(tokens) : tokens[t] \in Rows
    BY <2>2
  <2> HIDE DEF Rows
  <2>4. tokens \in Seq(Rows)
    BY <2>1, <2>3
  <2>. QED BY <2>4 DEF Rows
<1>3. ASSUME NEW r \in Request
      PROVE  /\ req[r].pc \in Steps /\ req[r].user \in 0..Len(users)
             /\ req[r].sid \in 0..Len(sessions) /\ req[r].pwd \in Password
  <2>1. req[r] \in ReqRec
    BY OwnerExists
  <2>2. req[r].user \in 0..Len(users) /\ req[r].sid \in 0..Len(sessions)
    BY OwnerExists DEF NamesOK
  <2>. QED BY <2>1, <2>2 DEF ReqRec
<1>4. severed \subseteq User
  OBVIOUS
<1>. QED BY <1>1, <1>2, <1>3, <1>4 DEF TypeOK, TablesOK, InviteRow

\* Only a request that ends early names a user, and nothing takes the name back.
LEMMA SeveredGrows ==
    ASSUME TypeInv, [Next]_vars
    PROVE  severed \subseteq severed' /\ severed' \subseteq severed \cup User
<1>1. ASSUME NEW r \in Request, RequestStep(r), ~Abort(r)
      PROVE  UNCHANGED severed
  <2>1. CASE ArriveSignIn(r) \/ ArriveByMail(r) \/ ArriveWithCookie(r)
    <3>1. ASSUME NEW args, Begin(r, args) PROVE UNCHANGED severed
      BY <3>1 DEF Begin, past
    <3>2. CASE ArriveSignIn(r)
      BY <3>1, <3>2 DEF ArriveSignIn
    <3>3. CASE ArriveByMail(r)
      BY <3>1, <3>3 DEF ArriveByMail
    <3>4. CASE ArriveWithCookie(r)
      BY <3>1, <3>4 DEF ArriveWithCookie
    <3>. QED BY <2>1, <3>2, <3>3, <3>4
  <2>2. CASE \/ ReadHits(r) \/ BumpHits(r) \/ FindUser(r) \/ BeginFailure(r)
             \/ CountFailure(r) \/ RecordFailure(r) \/ SecondFactor(r)
             \/ ClearFailures(r) \/ Rehash(r) \/ OpenSession(r)
    BY <2>2 DEF ReadHits, BumpHits, FindUser, BeginFailure, CountFailure, RecordFailure,
       SecondFactor, ClearFailures, Rehash, OpenSession, past
  <2>3. CASE \/ LookupSession(r) \/ LookupUser(r) \/ LookupMember(r) \/ CheckCsrf(r)
             \/ VerifyPassword(r) \/ UpdatePassword(r) \/ RotateToken(r)
             \/ ReadToken(r) \/ MarkToken(r) \/ RevokeAll(r)
    BY <2>3 DEF LookupSession, LookupUser, LookupMember, CheckCsrf, VerifyPassword,
       UpdatePassword, RotateToken, ReadToken, MarkToken, RevokeAll, past
  <2>4. CASE \/ ReadCredential(r) \/ WriteCodes(r) \/ SetTotpEnabled(r)
             \/ DeleteCredential(r) \/ ReadInvite(r) \/ CheckEmail(r)
             \/ CreateUser(r) \/ ConsumeInvite(r) \/ Act(r)
    BY <2>4 DEF ReadCredential, WriteCodes, SetTotpEnabled, DeleteCredential, ReadInvite,
       CheckEmail, CreateUser, ConsumeInvite, Act, past
  <2>. QED BY <1>1, <2>1, <2>2, <2>3, <2>4 DEF RequestStep
<1>2. ASSUME NEW r \in Request, Abort(r)
      PROVE  severed \subseteq severed' /\ severed' \subseteq severed \cup User
  <2>1. CASE severed' = severed
    BY <2>1
  <2>2. CASE severed' # severed
    <3>1. /\ req[r].op = "disable" /\ req[r].pc = "flag"
          /\ severed' = severed \cup {req[r].user}
      BY <1>2, <2>2, AbortStep
    <3>2. req[r].user \in 1..Len(users)
      BY <3>1, OwnerExists DEF NamesOK, CookieOp
    <3>3. req[r].user \in User
      BY <3>2, AccountsAssumption DEF TypeInv, TablesOK, User
    <3>. QED BY <3>1, <3>3
  <2>. QED BY <2>1, <2>2
<1>3. CASE Lapse \/ NextWindow \/ UNCHANGED vars
  BY <1>3 DEF Lapse, NextWindow, Lapsing, vars, past
<1>. QED BY <1>1, <1>2, <1>3 DEF Next

LEMMA TypeInvariant == Spec => []TypeInv
<1>1. Init => TypeInv
  BY InitType
<1>2. TypeInv /\ [Next]_vars => TypeInv'
  BY NextType
<1>. QED BY <1>1, <1>2, PTL DEF Spec

LEMMA SeveredInvariant == Spec => [](severed \subseteq User)
<1>1. Init => severed \subseteq User
  BY DEF Init
<1>2. TypeInv /\ severed \subseteq User /\ [Next]_vars => (severed \subseteq User)'
  BY SeveredGrows
<1>. QED BY <1>1, <1>2, TypeInvariant, PTL DEF Spec

\* The tables, the counters and the requests keep their types, and a request names
\* a session and a user that exist.
THEOREM TypeCorrect == Spec => []TypeOK
<1>1. TypeInv /\ severed \subseteq User => TypeOK
  BY ImpliesTypeOK
<1>. QED BY <1>1, TypeInvariant, SeveredInvariant, PTL

-----------------------------------------------------------------------------
\* Accounts are written one row at a time, or one is added with a new address.
UserAdded ==
    /\ users' \in Seq(UserRow) /\ Len(users') = Len(users) + 1
    /\ \A u \in 1..Len(users) :
          /\ users'[u] = users[u]
          /\ users'[Len(users) + 1].email # users[u].email
    /\ LockoutOK(users'[Len(users) + 1])
    /\ ~users'[Len(users) + 1].totp

LEMMA UsersStep ==
    ASSUME TypeInv, [Next]_vars
    PROVE  \/ UNCHANGED users
           \/ \E u \in 1..Len(users) : RowStep(u)
           \/ UserAdded
<1>1. ASSUME NEW r \in Request, RequestStep(r)
      PROVE  \/ UNCHANGED users
             \/ \E u \in 1..Len(users) : RowStep(u)
             \/ UserAdded
  <2>1. CASE ArriveSignIn(r) \/ ArriveByMail(r) \/ ArriveWithCookie(r)
    BY <2>1, SignInArrives, MailArrives, CookieArrives DEF Arrives
  <2>2. CASE \/ ReadHits(r) \/ BumpHits(r)
             \/ FindUser(r) \/ BeginFailure(r) \/ CountFailure(r) \/ SecondFactor(r)
             \/ LookupSession(r) \/ LookupUser(r) \/ LookupMember(r)
             \/ CheckCsrf(r) \/ VerifyPassword(r)
             \/ ReadToken(r) \/ ReadInvite(r) \/ CheckEmail(r) \/ ReadCredential(r)
             \/ Abort(r)
    BY <2>2, LimitStep, SignInLooks, CookieLooks, LinkLooks, CredentialLooks,
       AbortStep DEF Calm, Still
  <2>3. CASE \/ RecordFailure(r) \/ ClearFailures(r) \/ Rehash(r) \/ UpdatePassword(r)
             \/ SetTotpEnabled(r)
    BY <2>3, RecordFailureStep, ClearFailuresStep, PasswordStep, SetTotpEnabledStep
  <2>4. CASE \/ OpenSession(r) \/ RotateToken(r) \/ RevokeAll(r) \/ MarkToken(r)
             \/ ConsumeInvite(r) \/ WriteCodes(r) \/ DeleteCredential(r)
    BY <2>4, OpenSessionStep, RotateTokenStep, RevokeAllStep, MarkTokenStep,
       ConsumeInviteStep, WriteCodesStep, DeleteCredentialStep DEF OnlySessions, OnlyTotp
  <2>5. CASE CreateUser(r)
    BY <2>5, CreateUserStep DEF UserAdded
  <2>6. CASE Act(r)
    BY <2>6, ActStep DEF ActWrites
  <2>. QED BY <1>1, <2>1, <2>2, <2>3, <2>4, <2>5, <2>6 DEF RequestStep
<1>2. CASE Lapse
  BY <1>2, LapseStep
<1>3. CASE NextWindow \/ UNCHANGED vars
  BY <1>3 DEF NextWindow, vars, rows
<1>. QED BY <1>1, <1>2, <1>3 DEF Next

UsersInv ==
    /\ \A u \in 1..Len(users) : LockoutOK(users[u])
    /\ \A u, v \in 1..Len(users) : users[u].email = users[v].email => u = v

LEMMA InitUsers ==
    ASSUME Init
    PROVE  UsersInv
<1>2. PICK old \in BOOLEAN :
         /\ users = <<[NewUser(FirstEmail, FirstPassword, "org_owner", 0)
                         EXCEPT !.totp = old, !.stale = old]>>
         /\ totp = [u \in User |->
                      IF u = 1 /\ old
                      THEN [row |-> TRUE, gen |-> 1, codes |-> {1} \X Code]
                      ELSE [row |-> FALSE, gen |-> 0, codes |-> {}]]
  BY DEF Init
<1> DEFINE row == [NewUser(FirstEmail, FirstPassword, "org_owner", 0)
                     EXCEPT !.totp = old, !.stale = old]
<1>3. LockoutOK(row)
  <2>1. Threshold \in Nat
    BY AccountsAssumption
  <2>2. ~(0 > Threshold)
    BY <2>1
  <2>. QED BY <2>2 DEF NewUser, LockoutOK
<1>4. users = <<row>>
  BY <1>2
<1> HIDE DEF row
<1>. QED BY <1>3, <1>4 DEF UsersInv

LEMMA UsersInvariant == Spec => []UsersInv
<1>1. Init => UsersInv
  BY InitUsers
<1>2. TypeInv /\ UsersInv /\ [Next]_vars => UsersInv'
  <2>1. SUFFICES ASSUME TypeInv, UsersInv, [Next]_vars
                 PROVE  UsersInv'
    OBVIOUS
  <2>2. CASE UNCHANGED users
    BY <2>1, <2>2 DEF UsersInv, LockoutOK
  <2>3. CASE \E u \in 1..Len(users) : RowStep(u)
    <3>1. PICK u \in 1..Len(users) : RowStep(u)
      BY <2>3
    <3>2. /\ Len(users') = Len(users)
          /\ \A v \in 1..Len(users) : users'[v].email = users[v].email
          /\ \A v \in 1..Len(users) : LockoutOK(users[v]) => LockoutOK(users'[v])
      BY <3>1 DEF RowStep
    <3>. QED BY <2>1, <3>2 DEF UsersInv, LockoutOK
  <2>4. CASE UserAdded
    <3>1. Len(users) \in Nat
      BY <2>1, Lengths
    <3>2. \A v \in 1..Len(users') : v \in 1..Len(users) \/ v = Len(users) + 1
      BY <2>4, <3>1 DEF UserAdded
    <3>3. \A v \in 1..Len(users') : LockoutOK(users'[v])
      BY <2>1, <2>4, <3>2 DEF UsersInv, UserAdded
    <3>4. \A u, v \in 1..Len(users') : users'[u].email = users'[v].email => u = v
      BY <2>1, <2>4, <3>2 DEF UsersInv, UserAdded
    <3>. QED BY <3>3, <3>4 DEF UsersInv, LockoutOK
  <2>. QED BY <2>1, <2>2, <2>3, <2>4, UsersStep
<1>. QED BY <1>1, <1>2, TypeInvariant, PTL DEF Spec

\* An account over the threshold is locked until a deadline, and only such an account
\* has one (record_failed_login, users.py:216; reset_failed_login).
THEOREM LockoutFollowsCount == Spec => []LockoutMatchesCount
<1>1. TypeInv /\ UsersInv => LockoutMatchesCount
  BY DEF TypeInv, TablesOK, UsersInv, LockoutOK, LockoutMatchesCount
<1>. QED BY <1>1, TypeInvariant, UsersInvariant, PTL

\* However many requests redeem invites to one address together, one account has it
\* (create_user and its unique index, users.py:149).
THEOREM OneAddressOneAccount == Spec => []OneAccountPerAddress
<1>1. TypeInv /\ UsersInv => OneAccountPerAddress
  BY DEF TypeInv, TablesOK, UsersInv, OneAccountPerAddress
<1>. QED BY <1>1, TypeInvariant, UsersInvariant, PTL

-----------------------------------------------------------------------------
\* One request takes a step and the others stay; only an arrival is not from what it
\* was, and only ReadHits leads to "bump".
Flow(r) ==
    /\ req' \in [Request -> ReqRec]
    /\ \A q \in Request : q # r => req'[q] = req[q]
    /\ req'[r].pc = "bump" => ReadHits(r)
    /\ \/ Arrives(r)
       \/ raced' = raced /\ (Replies(r) \/ Moves(r, req'[r].pc))

LEMMA RequestFlows ==
    ASSUME TypeInv, NEW r \in Request, RequestStep(r)
    PROVE  Flow(r)
<1>0. Replies(r) => req'[r].pc = "idle"
  BY BlankType DEF Replies
<1>1. CASE ArriveSignIn(r) \/ ArriveByMail(r) \/ ArriveWithCookie(r)
  <2>1. Arrives(r)
    BY <1>1, SignInArrives, MailArrives, CookieArrives
  <2>2. req'[r].pc # "bump"
    BY <2>1 DEF Arrives
  <2>. QED BY <2>1, <2>2 DEF Arrives, Flow
<1>2. CASE ~(ArriveSignIn(r) \/ ArriveByMail(r) \/ ArriveWithCookie(r))
  <2>1. /\ raced' = raced /\ (Replies(r) \/ Moves(r, req'[r].pc))
        /\ req'[r].pc = "bump" => ReadHits(r)
    <3>1. CASE ReadHits(r) \/ BumpHits(r)
      BY <1>0, <3>1, LimitStep DEF Still, Goes, Moves
    <3>2. CASE \/ FindUser(r) \/ BeginFailure(r) \/ CountFailure(r) \/ SecondFactor(r)
               \/ LookupSession(r) \/ LookupUser(r) \/ LookupMember(r)
               \/ CheckCsrf(r) \/ VerifyPassword(r)
               \/ ReadToken(r) \/ ReadInvite(r) \/ CheckEmail(r) \/ ReadCredential(r)
               \/ Abort(r)
      <4>1. Calm
        BY <3>2, SignInLooks, CookieLooks, LinkLooks, CredentialLooks,
           AbortStep
      <4>2. Walks(r) => Moves(r, req'[r].pc) /\ req'[r].pc # "bump"
        BY DEF Walks, Goes
      <4>3. \A step \in Steps : Moves(r, step) => req'[r].pc = step
        BY DEF Moves
      <4>4. \/ Replies(r) \/ Walks(r) \/ Moves(r, "user") \/ Moves(r, "mark")
            \/ Moves(r, "email") \/ Moves(r, "write")
        BY <3>2, SignInLooks, CookieLooks, LinkLooks, CredentialLooks,
           AbortStep DEF Goes
      <4>. QED BY <1>0, <4>1, <4>2, <4>3, <4>4 DEF Calm, Still, Steps
    <3>3. CASE \/ RecordFailure(r) \/ SetTotpEnabled(r) \/ OpenSession(r) \/ RotateToken(r)
               \/ RevokeAll(r) \/ Act(r)
      BY <1>0, <3>3, RecordFailureStep, SetTotpEnabledStep, OpenSessionStep,
         RotateTokenStep, RevokeAllStep, ActStep DEF OnlyUsers, OnlySessions
    <3>4. CASE ClearFailures(r) \/ Rehash(r) \/ UpdatePassword(r)
      BY <3>4, ClearFailuresStep, PasswordStep DEF OnlyUsers, Goes
    <3>5. CASE \/ MarkToken(r) \/ ConsumeInvite(r) \/ WriteCodes(r) \/ DeleteCredential(r)
      <4>1. raced' = raced
        BY <3>5, MarkTokenStep, ConsumeInviteStep, WriteCodesStep, DeleteCredentialStep
           DEF OnlyTotp
      <4>2. \/ Moves(r, "password") \/ Moves(r, "open") \/ Moves(r, "flag")
        BY <3>5, MarkTokenStep, ConsumeInviteStep, WriteCodesStep, DeleteCredentialStep
           DEF Goes
      <4>. QED BY <4>1, <4>2 DEF Moves
    <3>6. CASE CreateUser(r)
      BY <1>0, <3>6, CreateUserStep DEF Moves
    <3>. QED BY <1>2, <3>1, <3>2, <3>3, <3>4, <3>5, <3>6 DEF RequestStep
  <2>. QED BY <2>1 DEF Replies, Moves, Flow
<1>. QED BY <1>1, <1>2

LEMMA Flows ==
    ASSUME TypeInv, [Next]_vars
    PROVE  \/ \E r \in Request : RequestStep(r) /\ Flow(r)
           \/ UNCHANGED <<req, raced, redeemed, resets, totp>>
<1>1. CASE \E r \in Request : RequestStep(r)
  BY <1>1, RequestFlows
<1>2. CASE Lapse \/ NextWindow \/ UNCHANGED vars
  BY <1>2, LapseStep DEF Lapse, NextWindow, Lapsing, vars, past, rows
<1>. QED BY <1>1, <1>2 DEF Next

\* A request between the read of the counter and its write was counted after what it
\* read, unless its window is over.
LimiterInv ==
    /\ hits <= arrived
    /\ \A r \in Request : req[r].pc = "bump" =>
          /\ req[r].win <= window
          /\ req[r].win = window => req[r].count + 1 <= arrived

LEMMA LimiterInvariant == Spec => []LimiterInv
<1>1. Init => LimiterInv
  BY BlankType DEF Init, LimiterInv
<1>2. TypeInv /\ LimiterInv /\ [Next]_vars => LimiterInv'
  <2>1. SUFFICES ASSUME TypeInv, LimiterInv, [Next]_vars
                 PROVE  LimiterInv'
    OBVIOUS
  <2>2. /\ hits \in Nat /\ arrived \in Nat /\ window \in Nat
        /\ req \in [Request -> ReqRec]
        /\ \A q \in Request : req[q].win \in Nat /\ req[q].count \in Nat
    BY <2>1 DEF TypeInv, TablesOK, RequestsOK, ReqRec
  <2>3. ASSUME NEW r \in Request, ReadHits(r)
        PROVE  LimiterInv'
    <3>1. /\ Goes(r, "bump") /\ req'[r].count = hits /\ req'[r].win = window
          /\ arrived' = arrived + 1 /\ UNCHANGED <<hits, window>>
      BY <2>1, <2>3, LimitStep
    <3>2. \A q \in Request : q # r => req'[q] = req[q]
      BY <3>1 DEF Goes, Moves
    <3>3. ASSUME NEW q \in Request, req'[q].pc = "bump"
          PROVE  /\ req'[q].win <= window'
                 /\ req'[q].win = window' => req'[q].count + 1 <= arrived'
      <4>1. CASE q = r
        BY <2>1, <2>2, <3>1, <4>1 DEF LimiterInv
      <4>2. CASE q # r
        <5>1. req'[q] = req[q]
          BY <3>2, <4>2
        <5>2. /\ req[q].win <= window
              /\ req[q].win = window => req[q].count + 1 <= arrived
          BY <2>1, <3>3, <5>1 DEF LimiterInv
        <5>. QED BY <2>2, <3>1, <5>1, <5>2
      <4>. QED BY <4>1, <4>2
    <3>. QED BY <2>1, <2>2, <3>1, <3>3 DEF LimiterInv
  <2>4. ASSUME NEW r \in Request, RequestStep(r), ~ReadHits(r)
        PROVE  LimiterInv'
    <3>1. Flow(r)
      BY <2>1, <2>4, RequestFlows
    <3>2. UNCHANGED <<window, arrived>> /\ hits' <= arrived
      <4>1. CASE BumpHits(r)
        <5>1. /\ req[r].pc = "bump" /\ UNCHANGED <<window, arrived>>
              /\ hits' = hits \/ (req[r].win = window /\ hits' = req[r].count + 1)
          BY <2>1, <4>1, LimitStep
        <5>. QED BY <2>1, <5>1 DEF LimiterInv
      <4>2. CASE ~BumpHits(r)
        <5>1. UNCHANGED limiter
          <6>1. CASE ArriveSignIn(r) \/ ArriveByMail(r) \/ ArriveWithCookie(r)
            BY <2>1, <6>1, SignInArrives, MailArrives, CookieArrives DEF Arrives, limiter
          <6>2. CASE \/ FindUser(r) \/ BeginFailure(r) \/ CountFailure(r)
                     \/ RecordFailure(r) \/ SecondFactor(r) \/ ClearFailures(r)
                     \/ Rehash(r) \/ OpenSession(r) \/ LookupSession(r) \/ LookupUser(r)
            BY <6>2 DEF FindUser, BeginFailure, CountFailure, RecordFailure, SecondFactor,
               ClearFailures, Rehash, OpenSession, LookupSession, LookupUser
          <6>3. CASE \/ LookupMember(r) \/ CheckCsrf(r) \/ VerifyPassword(r)
                     \/ UpdatePassword(r) \/ RotateToken(r) \/ ReadToken(r) \/ MarkToken(r)
                     \/ RevokeAll(r)
            BY <6>3 DEF LookupMember, CheckCsrf, VerifyPassword, UpdatePassword,
               RotateToken, ReadToken, MarkToken, RevokeAll
          <6>4. CASE \/ ReadCredential(r) \/ WriteCodes(r) \/ SetTotpEnabled(r)
                     \/ DeleteCredential(r) \/ ReadInvite(r) \/ CheckEmail(r)
                     \/ CreateUser(r) \/ ConsumeInvite(r) \/ Act(r) \/ Abort(r)
            BY <6>4 DEF ReadCredential, WriteCodes, SetTotpEnabled, DeleteCredential,
               ReadInvite, CheckEmail, CreateUser, ConsumeInvite, Act, Abort
          <6>. QED BY <2>4, <4>2, <6>1, <6>2, <6>3, <6>4 DEF RequestStep
        <5>. QED BY <2>1, <5>1 DEF limiter, LimiterInv
      <4>. QED BY <4>1, <4>2
    <3>3. \A q \in Request : req'[q].pc = "bump" => req'[q] = req[q]
      BY <2>4, <3>1 DEF Flow
    <3>. QED BY <2>1, <3>2, <3>3 DEF LimiterInv
  <2>5. CASE NextWindow
    <3>1. window' = window + 1 /\ hits' = 0 /\ arrived' = 0 /\ req' = req
      BY <2>5 DEF NextWindow, Lapsing
    <3>2. ASSUME NEW q \in Request, req[q].pc = "bump"
          PROVE  req[q].win <= window' /\ req[q].win # window'
      <4>1. req[q].win <= window
        BY <2>1, <3>2 DEF LimiterInv
      <4>. QED BY <2>2, <3>1, <4>1
    <3>. QED BY <3>1, <3>2 DEF LimiterInv
  <2>6. CASE Lapse \/ UNCHANGED vars
    BY <2>1, <2>6, LapseStep DEF LimiterInv, vars, limiter
  <2>. QED BY <2>1, <2>3, <2>4, <2>5, <2>6 DEF Next
<1>. QED BY <1>1, <1>2, TypeInvariant, PTL DEF Spec

\* The rate limit never counts more requests than came in its window
\* (_increment_and_check, ratelimit.py:43).
THEOREM NobodyCountedTwice == Spec => []NeverCountsTwice
<1>1. LimiterInv => NeverCountsTwice
  BY DEF LimiterInv, NeverCountsTwice
<1>. QED BY <1>1, LimiterInvariant, PTL

\* Two requests that are in flight together are on record when they race.
RacedRecorded ==
    \A r, q \in Request :
       /\ r # q /\ req[r].pc # "idle" /\ req[q].pc # "idle"
       /\ {req[r].op, req[q].op} \in Racing
       => {req[r].op, req[q].op} \in raced

LEMMA RacedInvariant == Spec => []RacedRecorded
<1>1. Init => RacedRecorded
  BY BlankType DEF Init, RacedRecorded
<1>2. TypeInv /\ RacedRecorded /\ [Next]_vars => RacedRecorded'
  <2>1. SUFFICES ASSUME TypeInv, RacedRecorded, [Next]_vars
                 PROVE  RacedRecorded'
    OBVIOUS
  <2>2. ASSUME NEW r \in Request, Flow(r)
        PROVE  RacedRecorded'
    <3>1. SUFFICES ASSUME NEW p \in Request, NEW q \in Request, p # q,
                          req'[p].pc # "idle", req'[q].pc # "idle",
                          {req'[p].op, req'[q].op} \in Racing
                   PROVE  {req'[p].op, req'[q].op} \in raced'
      BY DEF RacedRecorded
    <3>2. \A z \in Request : z # r => req'[z] = req[z]
      BY <2>2 DEF Flow
    <3>3. CASE Arrives(r)
      <4>1. raced \subseteq raced'
        BY <3>3 DEF Arrives
      <4>2. CASE p # r /\ q # r
        BY <2>1, <3>1, <3>2, <4>1, <4>2 DEF RacedRecorded
      <4>3. CASE p = r
        <5>1. req'[q] = req[q]
          BY <3>1, <3>2, <4>3
        <5>. QED BY <3>1, <3>3, <4>3, <5>1 DEF Arrives
      <4>4. CASE q = r
        <5>1. req'[p] = req[p]
          BY <3>1, <3>2, <4>4
        <5>2. {req'[p].op, req'[q].op} = {req'[r].op, req[p].op}
          BY <4>4, <5>1
        <5>. QED BY <3>1, <3>3, <5>1, <5>2 DEF Arrives
      <4>. QED BY <4>2, <4>3, <4>4
    <3>4. CASE ~Arrives(r)
      <4>1. raced' = raced /\ (Replies(r) \/ Moves(r, req'[r].pc))
        BY <2>2, <3>4 DEF Flow
      <4>2. req'[r].pc # "idle" => req[r].pc # "idle" /\ req'[r].op = req[r].op
        BY <4>1, BlankType DEF Replies, Moves
      <4>3. \A z \in Request : req'[z].pc # "idle"
                                  => req[z].pc # "idle" /\ req'[z].op = req[z].op
        BY <3>2, <4>2
      <4>. QED BY <2>1, <3>1, <4>1, <4>3 DEF RacedRecorded
    <3>. QED BY <3>3, <3>4
  <2>3. CASE UNCHANGED <<req, raced, redeemed, resets, totp>>
    BY <2>1, <2>3 DEF RacedRecorded
  <2>. QED BY <2>1, <2>2, <2>3, Flows
<1>. QED BY <1>1, <1>2, TypeInvariant, PTL DEF Spec

-----------------------------------------------------------------------------
\* A request keeps its account; a session or a link names it late, and an accepted
\* invite creates it.
Keeps(r) ==
    \/ /\ req'[r].user = req[r].user
       /\ req[r].op = "accept" /\ req'[r].pc \in {"consume", "open"}
             => req[r].pc \in {"consume", "open"}
    \/ req[r].op \in CookieOp \cup {"reset"}
    \/ CreateUser(r)

LEMMA AccountKept ==
    ASSUME TypeInv, NEW r \in Request, RequestStep(r)
    PROVE  Arrives(r) \/ Replies(r) \/ (Moves(r, req'[r].pc) /\ Keeps(r))
<1>0. StepOK(req[r])
  BY OwnerExists
<1>f. Flow(r)
  BY RequestFlows
<1>1. CASE Arrives(r) \/ Replies(r) \/ CreateUser(r)
  BY <1>f, <1>1 DEF Flow, Keeps
<1>2. CASE ~(Arrives(r) \/ Replies(r) \/ CreateUser(r))
  <2>0. Moves(r, req'[r].pc)
    BY <1>f, <1>2 DEF Flow
  <2>1. Keeps(r)
    <3>1. CASE ReadHits(r) \/ BumpHits(r)
      <4>1. Goes(r, req'[r].pc) /\ req'[r].pc \in {"bump", "invite", "find"}
        BY <1>2, <3>1, LimitStep DEF Goes, Moves
      <4>. QED BY <4>1 DEF Goes, Keeps
    <3>2. CASE FindUser(r) \/ BeginFailure(r) \/ CountFailure(r) \/ SecondFactor(r)
      <4>1. Walks(r)
        BY <1>2, <3>2, SignInLooks
      <4>. QED BY <4>1 DEF Walks, Goes, Keeps
    <3>3. CASE \/ LookupSession(r) \/ LookupUser(r) \/ LookupMember(r)
               \/ CheckCsrf(r) \/ VerifyPassword(r)
      <4>1. Walks(r) \/ req[r].pc = "session"
        BY <1>2, <3>3, CookieLooks
      <4>2. req[r].pc = "session" => req[r].op \in CookieOp
        BY <1>0 DEF StepOK
      <4>. QED BY <4>1, <4>2 DEF Walks, Goes, Keeps
    <3>4. CASE ReadToken(r) \/ ReadInvite(r) \/ CheckEmail(r)
      <4>1. \/ Walks(r)
            \/ req[r].pc = "token"
            \/ Goes(r, "email")
        BY <1>2, <3>4, LinkLooks
      <4>2. req[r].pc = "token" => req[r].op = "reset"
        BY <1>0 DEF StepOK
      <4>. QED BY <4>1, <4>2 DEF Walks, Goes, Moves, Keeps
    <3>5. CASE ReadCredential(r)
      <4>1. req'[r].user = req[r].user /\ req[r].op # "accept"
        BY <1>0, <1>2, <3>5, CredentialLooks DEF Walks, Goes, StepOK
      <4>. QED BY <4>1 DEF Keeps
    <3>6. CASE ClearFailures(r) \/ Rehash(r) \/ UpdatePassword(r)
      <4>1. req'[r].user = req[r].user /\ req[r].op # "accept"
        BY <3>6, ClearFailuresStep, PasswordStep DEF Goes
      <4>. QED BY <4>1 DEF Keeps
    <3>7. CASE MarkToken(r) \/ ConsumeInvite(r) \/ WriteCodes(r) \/ DeleteCredential(r)
      <4>1. /\ req'[r].user = req[r].user
            /\ req[r].op = "accept" => req[r].pc = "consume"
        BY <3>7, MarkTokenStep, ConsumeInviteStep, WriteCodesStep, DeleteCredentialStep
           DEF Goes
      <4>. QED BY <4>1 DEF Keeps
    <3>8. CASE \/ RecordFailure(r) \/ SetTotpEnabled(r) \/ OpenSession(r) \/ RotateToken(r)
               \/ RevokeAll(r) \/ Act(r) \/ Abort(r)
      BY <1>2, <3>8, RecordFailureStep, SetTotpEnabledStep, OpenSessionStep,
         RotateTokenStep, RevokeAllStep, ActStep, AbortStep
    <3>9. CASE ArriveSignIn(r) \/ ArriveByMail(r) \/ ArriveWithCookie(r)
      BY <1>2, <3>9, SignInArrives, MailArrives, CookieArrives
    <3>. QED BY <1>2, <3>1, <3>2, <3>3, <3>4, <3>5, <3>6, <3>7, <3>8, <3>9 DEF RequestStep
  <2>. QED BY <2>0, <2>1
<1>. QED BY <1>1, <1>2

\* Only two statements add a session or finish a redemption.
LEMMA QuietStep ==
    ASSUME TypeInv, [Next]_vars
    PROVE  \/ \E r \in Request : OpenSession(r) \/ RevokeAll(r)
           \/ /\ SessionsKept /\ Len(sessions') = Len(sessions)
              /\ UNCHANGED <<resets, redeemed>>
<1>0. sessions' = sessions => SessionsKept /\ Len(sessions') = Len(sessions)
  BY Unwritten DEF SessionsGrow
<1>1. ASSUME NEW r \in Request, RequestStep(r), ~(OpenSession(r) \/ RevokeAll(r))
      PROVE  /\ SessionsKept /\ Len(sessions') = Len(sessions)
             /\ UNCHANGED <<resets, redeemed>>
  <2>1. CASE ArriveSignIn(r) \/ ArriveByMail(r) \/ ArriveWithCookie(r)
    BY <1>0, <2>1, SignInArrives, MailArrives, CookieArrives DEF Arrives
  <2>2. CASE \/ ReadHits(r) \/ BumpHits(r)
             \/ FindUser(r) \/ BeginFailure(r) \/ CountFailure(r) \/ SecondFactor(r)
             \/ LookupSession(r) \/ LookupUser(r) \/ LookupMember(r)
             \/ CheckCsrf(r) \/ VerifyPassword(r)
             \/ ReadToken(r) \/ ReadInvite(r) \/ CheckEmail(r) \/ ReadCredential(r)
             \/ Abort(r)
    BY <1>0, <2>2, LimitStep, SignInLooks, CookieLooks, LinkLooks, CredentialLooks,
       AbortStep DEF Calm, Still
  <2>3. CASE \/ RecordFailure(r) \/ ClearFailures(r) \/ Rehash(r) \/ UpdatePassword(r)
             \/ SetTotpEnabled(r)
    BY <1>0, <2>3, RecordFailureStep, ClearFailuresStep, PasswordStep, SetTotpEnabledStep
       DEF OnlyUsers
  <2>4. CASE \/ RotateToken(r) \/ MarkToken(r) \/ ConsumeInvite(r) \/ WriteCodes(r)
             \/ DeleteCredential(r)
    BY <1>0, <2>4, RotateTokenStep, MarkTokenStep, ConsumeInviteStep, WriteCodesStep,
       DeleteCredentialStep DEF OnlyTotp
  <2>5. CASE CreateUser(r)
    BY <1>0, <2>5, CreateUserStep
  <2>6. CASE Act(r)
    BY <1>0, <2>6, ActStep DEF ActWrites
  <2>. QED BY <1>1, <2>1, <2>2, <2>3, <2>4, <2>5, <2>6 DEF RequestStep
<1>2. CASE Lapse
  BY <1>0, <1>2, LapseStep
<1>3. CASE NextWindow \/ UNCHANGED vars
  BY <1>0, <1>3 DEF NextWindow, Lapsing, vars, rows, past
<1>. QED BY <1>1, <1>2, <1>3 DEF Next

\* A request that will open a session began after the last reset of its account.
Overlapped ==
    {{"sign_in", "reset"}, {"recovery", "reset"}, {"accept", "reset"}} \cap raced # {}

Opens(x) ==
    \/ x.op \in {"sign_in", "recovery"} /\ x.pc # "idle"
    \/ x.op = "accept" /\ x.pc \in {"consume", "open"}

SessionsOK ==
    \A s \in 1..Len(sessions) :
       sessions[s].epoch = resets[sessions[s].user] \/ sessions[s].revoked

OpenersOK ==
    \A r \in Request : Opens(req[r]) => req[r].epoch = resets[req[r].user]

NewcomersOK ==
    /\ \A r \in Request : req[r].op = "accept" => req[r].epoch = 0
    /\ \A u \in User : u > Len(users) => resets[u] = 0

ResetInv == NewcomersOK /\ (Overlapped \/ (SessionsOK /\ OpenersOK))

LEMMA NewcomersStay ==
    ASSUME TypeInv, NewcomersOK, [Next]_vars
    PROVE  NewcomersOK'
<1>1. ASSUME NEW q \in Request, req'[q].op = "accept"
      PROVE  req'[q].epoch = 0
  <2>1. CASE \E r \in Request : RequestStep(r) /\ Flow(r)
    <3>1. PICK r \in Request : RequestStep(r) /\ Flow(r)
      BY <2>1
    <3>2. CASE q = r
      BY <1>1, <3>1, <3>2, BlankType DEF Flow, Arrives, Replies, Moves, NewcomersOK
    <3>3. CASE q # r
      BY <1>1, <3>1, <3>3 DEF Flow, NewcomersOK
    <3>. QED BY <3>2, <3>3
  <2>2. CASE UNCHANGED req
    BY <1>1, <2>2 DEF NewcomersOK
  <2>. QED BY <2>1, <2>2, Flows
<1>2. ASSUME NEW u \in User, u > Len(users')
      PROVE  resets'[u] = 0
  <2>1. u > Len(users)
    <3>1. Len(users) <= Len(users') /\ Len(users') \in Nat /\ Len(users) \in Nat /\ u \in Nat
      BY TablesGrow, Lengths DEF Grown, UsersKept, User
    <3>. QED BY <1>2, <3>1
  <2>2. CASE \E r \in Request : RevokeAll(r)
    <3>1. PICK r \in Request : RevokeAll(r)
      BY <2>2
    <3>2. /\ req[r].user \in 1..Len(users)
          /\ u # req[r].user => resets'[u] = resets[u]
      BY <3>1, RevokeAllStep
    <3>3. u # req[r].user
      BY <2>1, <3>2, Lengths
    <3>. QED BY <2>1, <3>2, <3>3 DEF NewcomersOK
  <2>3. CASE resets' = resets
    BY <2>1, <2>3 DEF NewcomersOK
  <2>. QED BY <2>2, <2>3, QuietStep, OpenSessionStep
<1>. QED BY <1>1, <1>2 DEF NewcomersOK

LEMMA RacedGrows ==
    ASSUME TypeInv, [Next]_vars, Overlapped
    PROVE  Overlapped'
<1>1. raced \subseteq raced'
  BY Flows DEF Flow, Arrives
<1>. QED BY <1>1 DEF Overlapped

LEMMA OpenersStay ==
    ASSUME TypeInv, RacedRecorded, NewcomersOK, OpenersOK, ~Overlapped, [Next]_vars
    PROVE  OpenersOK'
<1>1. SUFFICES ASSUME NEW q \in Request, Opens(req'[q])
               PROVE  req'[q].epoch = resets'[req'[q].user]
  BY DEF OpenersOK, Opens
<1>2. CASE \E r \in Request : RequestStep(r)
  <2>1. PICK r \in Request : RequestStep(r)
    BY <1>2
  <2>2. Flow(r)
    BY <2>1, RequestFlows
  <2>3. CASE RevokeAll(r)
    <3>1. req[r].pc = "revoke_all" /\ req[r].op = "reset" /\ Replies(r)
      BY <2>3, RevokeAllStep
    <3>2. q # r
      BY <1>1, <3>1, BlankType DEF Replies, Opens
    <3>3. Opens(req[q])
      BY <1>1, <3>1, <3>2 DEF Replies
    <3>4. /\ req[q].pc # "idle" /\ req[r].pc # "idle"
          /\ req[q].op \in {"sign_in", "recovery", "accept"}
      BY <3>1, <3>3 DEF Opens
    <3>5. {req[q].op, req[r].op} \in
             {{"sign_in", "reset"}, {"recovery", "reset"}, {"accept", "reset"}}
      BY <3>1, <3>4
    <3>6. {req[q].op, req[r].op} \in raced
      BY <3>2, <3>4, <3>5 DEF RacedRecorded, Racing
    <3>. QED BY <3>5, <3>6 DEF Overlapped
  <2>4. CASE ~RevokeAll(r)
    <3>1. resets' = resets
      <4>1. CASE OpenSession(r)
        BY <4>1, OpenSessionStep
      <4>2. CASE ~OpenSession(r)
        <5>1. CASE ArriveSignIn(r) \/ ArriveByMail(r) \/ ArriveWithCookie(r)
          BY <5>1, SignInArrives, MailArrives, CookieArrives DEF Arrives
        <5>2. CASE \/ ReadHits(r) \/ BumpHits(r)
                   \/ FindUser(r) \/ BeginFailure(r) \/ CountFailure(r) \/ SecondFactor(r)
                   \/ LookupSession(r) \/ LookupUser(r) \/ LookupMember(r)
                   \/ CheckCsrf(r) \/ VerifyPassword(r)
                   \/ ReadToken(r) \/ ReadInvite(r) \/ CheckEmail(r) \/ ReadCredential(r)
                   \/ Abort(r)
          BY <5>2, LimitStep, SignInLooks, CookieLooks, LinkLooks, CredentialLooks,
             AbortStep DEF Calm, Still
        <5>3. CASE \/ RecordFailure(r) \/ ClearFailures(r) \/ Rehash(r) \/ UpdatePassword(r)
                   \/ SetTotpEnabled(r) \/ RotateToken(r) \/ MarkToken(r)
                   \/ ConsumeInvite(r) \/ WriteCodes(r) \/ DeleteCredential(r)
                   \/ CreateUser(r) \/ Act(r)
          BY <5>3, RecordFailureStep, ClearFailuresStep, PasswordStep, SetTotpEnabledStep,
             RotateTokenStep, MarkTokenStep, ConsumeInviteStep, WriteCodesStep,
             DeleteCredentialStep, CreateUserStep, ActStep DEF OnlyUsers, OnlyTotp
        <5>. QED BY <2>1, <2>4, <4>2, <5>1, <5>2, <5>3 DEF RequestStep
      <4>. QED BY <4>1, <4>2
    <3>2. CASE q # r
      BY <1>1, <2>2, <3>1, <3>2 DEF Flow, OpenersOK
    <3>3. CASE q = r
      <4>1. CASE Arrives(r)
        BY <1>1, <3>1, <3>3, <4>1 DEF Arrives, Opens
      <4>2. CASE Replies(r)
        BY <1>1, <3>3, <4>2, BlankType DEF Replies, Opens
      <4>3. CASE Moves(r, req'[r].pc) /\ CreateUser(r)
        <5>1. ~Replies(r) /\ req[r].op = "accept"
          BY <1>1, <3>3, <4>3, BlankType, CreateUserStep DEF Replies, Opens
        <5>2. /\ req'[r].user = Len(users) + 1 /\ Len(users') = Len(users) + 1
              /\ Len(users') <= MaxUsers
          BY <4>3, <5>1, CreateUserStep
        <5>3. req'[r].epoch = 0
          BY <4>3, <5>1 DEF Moves, NewcomersOK
        <5>4. Len(users) + 1 \in User /\ Len(users) + 1 > Len(users)
          BY <5>2, Lengths, AccountsAssumption DEF User
        <5>. QED BY <3>1, <3>3, <5>2, <5>3, <5>4 DEF NewcomersOK
      <4>4. CASE Moves(r, req'[r].pc) /\ Keeps(r) /\ ~CreateUser(r)
        <5>1. req[r].pc # "idle" /\ req'[r].op = req[r].op /\ req'[r].epoch = req[r].epoch
          BY <4>4 DEF Moves
        <5>2. req[r].op \notin CookieOp \cup {"reset"}
          BY <1>1, <3>3, <5>1 DEF Opens, CookieOp
        <5>3. req'[r].user = req[r].user /\ Opens(req[r])
          BY <1>1, <3>3, <4>4, <5>1, <5>2 DEF Keeps, Opens
        <5>. QED BY <3>1, <3>3, <5>1, <5>3 DEF OpenersOK
      <4>. QED BY <2>1, <4>1, <4>2, <4>3, <4>4, AccountKept
    <3>. QED BY <3>2, <3>3
  <2>. QED BY <2>3, <2>4
<1>3. CASE UNCHANGED <<req, resets>>
  BY <1>1, <1>3 DEF OpenersOK
<1>4. CASE Lapse \/ NextWindow \/ UNCHANGED vars
  <2>1. UNCHANGED <<req, resets>>
    BY <1>4, LapseStep DEF NextWindow, Lapsing, vars, past
  <2>. QED BY <1>3, <2>1
<1>. QED BY <1>2, <1>4 DEF Next

LEMMA SessionsStay ==
    ASSUME TypeInv, SessionsOK, OpenersOK, [Next]_vars
    PROVE  SessionsOK'
<1>0. /\ \A s \in 1..Len(sessions) : sessions[s].user \in User
      /\ Len(sessions) \in Nat
  <2>1. 1..Len(users) \subseteq User
    BY AccountsAssumption DEF TypeInv, TablesOK, User
  <2>. QED BY <2>1, Lengths DEF TypeInv, TablesOK
<1>1. CASE \E r \in Request : OpenSession(r)
  <2>1. PICK r \in Request : OpenSession(r)
    BY <1>1
  <2>2. /\ req[r].pc = "open" /\ req[r].op \in {"sign_in", "recovery", "accept"}
        /\ SessionsKept /\ Len(sessions') = Len(sessions) + 1
        /\ sessions'[Len(sessions) + 1].user = req[r].user
        /\ sessions'[Len(sessions) + 1].epoch = req[r].epoch
        /\ resets' = resets
    BY <2>1, OpenSessionStep
  <2>3. req[r].epoch = resets[req[r].user]
    BY <2>2 DEF OpenersOK, Opens
  <2>4. ASSUME NEW s \in 1..Len(sessions')
        PROVE  sessions'[s].epoch = resets'[sessions'[s].user] \/ sessions'[s].revoked
    <3>1. s \in 1..Len(sessions) \/ s = Len(sessions) + 1
      BY <1>0, <2>2
    <3>2. CASE s \in 1..Len(sessions)
      BY <2>2, <3>2 DEF SessionsOK, SessionsKept
    <3>. QED BY <2>2, <2>3, <3>1, <3>2
  <2>. QED BY <2>4 DEF SessionsOK
<1>2. CASE \E r \in Request : RevokeAll(r)
  <2>1. PICK r \in Request : RevokeAll(r)
    BY <1>2
  <2>2. /\ SessionsKept /\ Len(sessions') = Len(sessions)
        /\ \A s \in 1..Len(sessions) :
              sessions[s].user = req[r].user => sessions'[s].revoked
        /\ \A u \in User : u # req[r].user => resets'[u] = resets[u]
    BY <2>1, RevokeAllStep
  <2>3. ASSUME NEW s \in 1..Len(sessions)
        PROVE  sessions'[s].epoch = resets'[sessions'[s].user] \/ sessions'[s].revoked
    BY <1>0, <2>2 DEF SessionsOK, SessionsKept
  <2>. QED BY <2>2, <2>3 DEF SessionsOK
<1>3. CASE SessionsKept /\ Len(sessions') = Len(sessions) /\ resets' = resets
  BY <1>3 DEF SessionsOK, SessionsKept
<1>. QED BY <1>1, <1>2, <1>3, QuietStep

LEMMA ResetInvariant == Spec => []ResetInv
<1>1. Init => ResetInv
  <2>1. SUFFICES ASSUME Init
                 PROVE  ResetInv
    OBVIOUS
  <2>2. /\ sessions = <<[user |-> 1, ver |-> 0, revoked |-> FALSE, expired |-> FALSE,
                         epoch |-> 0]>>
        /\ req = [r \in Request |-> Blank] /\ resets = [u \in User |-> 0]
    BY <2>1 DEF Init
  <2>3. 1 \in User
    BY AccountsAssumption DEF User
  <2>4. SessionsOK
    BY <2>2, <2>3 DEF SessionsOK
  <2>5. NewcomersOK /\ OpenersOK
    BY <2>2, BlankType DEF NewcomersOK, OpenersOK, Opens
  <2>. QED BY <2>4, <2>5 DEF ResetInv
<1>2. TypeInv /\ RacedRecorded /\ ResetInv /\ [Next]_vars => ResetInv'
  <2>1. SUFFICES ASSUME TypeInv, RacedRecorded, ResetInv, [Next]_vars
                 PROVE  ResetInv'
    OBVIOUS
  <2>2. NewcomersOK'
    BY <2>1, NewcomersStay DEF ResetInv
  <2>3. CASE Overlapped
    BY <2>1, <2>2, <2>3, RacedGrows DEF ResetInv
  <2>4. CASE ~Overlapped
    <3>1. NewcomersOK /\ SessionsOK /\ OpenersOK
      BY <2>1, <2>4 DEF ResetInv
    <3>2. SessionsOK'
      BY <2>1, <3>1, SessionsStay
    <3>3. OpenersOK'
      BY <2>1, <2>4, <3>1, OpenersStay
    <3>. QED BY <2>2, <3>2, <3>3 DEF ResetInv
  <2>. QED BY <2>3, <2>4
<1>. QED BY <1>1, <1>2, TypeInvariant, RacedInvariant, PTL DEF Spec

\* A password reset ends every session opened by a sign-in that began before it was
\* complete; only a request that opens a session and overlapped the reset can have left
\* one (revoke_all_for_user after update_password_hash, routes.py:601).
THEOREM ResetEndsThem == Spec => []ResetEndsSessions
<1>1. TypeInv /\ ResetInv => ResetEndsSessions
  <2>1. SUFFICES ASSUME TypeInv, ResetInv
                 PROVE  ResetEndsSessions
    OBVIOUS
  <2>2. DOMAIN sessions = 1..Len(sessions)
    BY <2>1 DEF TypeInv, TablesOK
  <2>3. Overlapped \/ SessionsOK
    BY <2>1 DEF ResetInv
  <2>4. Overlapped \/ \A s \in DOMAIN sessions :
           sessions[s].epoch = resets[sessions[s].user] \/ sessions[s].revoked
    BY <2>2, <2>3 DEF SessionsOK
  <2>. QED BY <2>4, Zenon DEF Overlapped, ResetEndsSessions
<1>. QED BY <1>1, TypeInvariant, ResetInvariant, PTL

-----------------------------------------------------------------------------
\* The statement a request is at decides which action is its next one, unless it
\* ends there.
LEMMA Dispatch ==
    ASSUME TypeInv, NEW r \in Request, RequestStep(r), ~Abort(r)
    PROVE  /\ req[r].pc = "limit" => ReadHits(r)
           /\ req[r].pc = "bump" => BumpHits(r)
           /\ req[r].pc = "find" => FindUser(r)
           /\ req[r].pc = "open" => OpenSession(r)
           /\ req[r].pc = "session" => LookupSession(r)
           /\ req[r].pc = "user" => LookupUser(r)
           /\ req[r].pc = "member" => LookupMember(r)
           /\ req[r].pc = "password" => UpdatePassword(r)
           /\ req[r].pc = "token" => ReadToken(r)
           /\ req[r].pc = "mark" => MarkToken(r)
           /\ req[r].pc = "revoke_all" => RevokeAll(r)
           /\ req[r].pc = "credential" => ReadCredential(r)
           /\ req[r].pc = "write" => WriteCodes(r)
           /\ req[r].pc = "flag" => SetTotpEnabled(r)
           /\ req[r].pc = "delete" => DeleteCredential(r)
           /\ req[r].pc = "invite" => ReadInvite(r)
           /\ req[r].pc = "email" => CheckEmail(r)
           /\ req[r].pc = "create" => CreateUser(r)
           /\ req[r].pc = "consume" => ConsumeInvite(r)
<1>1. ArriveSignIn(r) \/ ArriveByMail(r) \/ ArriveWithCookie(r) => req[r].pc = "idle"
  BY SignInArrives, MailArrives, CookieArrives DEF Arrives
<1>2. /\ ReadHits(r) => req[r].pc = "limit"
      /\ BumpHits(r) => req[r].pc = "bump"
      /\ FindUser(r) => req[r].pc = "find"
      /\ BeginFailure(r) => req[r].pc = "begin"
      /\ CountFailure(r) => req[r].pc = "count"
      /\ RecordFailure(r) => req[r].pc = "lock"
  BY DEF ReadHits, BumpHits, FindUser, BeginFailure, CountFailure, RecordFailure, At
<1>3. /\ SecondFactor(r) => req[r].pc = "second"
      /\ ClearFailures(r) => req[r].pc = "clear"
      /\ Rehash(r) => req[r].pc = "rehash"
      /\ OpenSession(r) => req[r].pc = "open"
      /\ LookupSession(r) => req[r].pc = "session"
      /\ LookupUser(r) => req[r].pc = "user"
  BY DEF SecondFactor, ClearFailures, Rehash, OpenSession, LookupSession, LookupUser,
     At
<1>4. /\ LookupMember(r) => req[r].pc = "member"
      /\ CheckCsrf(r) => req[r].pc = "csrf"
      /\ VerifyPassword(r) => req[r].pc = "verify"
      /\ UpdatePassword(r) => req[r].pc = "password"
      /\ RotateToken(r) => req[r].pc = "rotate"
      /\ ReadToken(r) => req[r].pc = "token"
  BY DEF LookupMember, CheckCsrf, VerifyPassword, UpdatePassword, RotateToken,
     ReadToken, At
<1>5. /\ MarkToken(r) => req[r].pc = "mark"
      /\ RevokeAll(r) => req[r].pc = "revoke_all"
      /\ ReadCredential(r) => req[r].pc = "credential"
      /\ WriteCodes(r) => req[r].pc = "write"
      /\ SetTotpEnabled(r) => req[r].pc = "flag"
      /\ DeleteCredential(r) => req[r].pc = "delete"
  BY DEF MarkToken, RevokeAll, ReadCredential, WriteCodes, SetTotpEnabled,
     DeleteCredential, At
<1>6. /\ ReadInvite(r) => req[r].pc = "invite"
      /\ CheckEmail(r) => req[r].pc = "email"
      /\ CreateUser(r) => req[r].pc = "create"
      /\ ConsumeInvite(r) => req[r].pc = "consume"
      /\ Act(r) => req[r].pc = "act"
  BY DEF ReadInvite, CheckEmail, CreateUser, ConsumeInvite, Act, At
<1>. QED BY <1>1, <1>2, <1>3, <1>4, <1>5, <1>6 DEF RequestStep

\* The way of a request with a reset link, and with an invite.
LEMMA ResetPath ==
    ASSUME TypeInv, NEW r \in Request, RequestStep(r), req[r].op = "reset",
           Moves(r, req'[r].pc), ~Replies(r)
    PROVE  \/ /\ req[r].pc = "token" /\ req'[r].pc = "mark"
              /\ ~tokens[req[r].item].consumed
           \/ /\ req[r].pc = "mark" /\ req'[r].pc = "password"
              /\ tokens'[req[r].item].consumed
           \/ req[r].pc = "password" /\ req'[r].pc = "revoke_all"
<1>1. StepOK(req[r]) /\ req[r].pc \in Steps /\ req[r].pc # "idle"
  BY OwnerExists DEF ReqRec, Moves
<1>2. req[r].pc \in {"token", "mark", "password", "revoke_all"}
  BY <1>1 DEF StepOK, Steps, CookieOp
<1>3. CASE req[r].pc = "token"
  <2>1. ReadToken(r)
    BY <1>3, AbortStep, Dispatch
  <2>. QED BY <1>3, <2>1, LinkLooks DEF Walks, Moves
<1>4. CASE req[r].pc = "mark"
  BY <1>4, AbortStep, Dispatch, MarkTokenStep DEF Goes, Moves
<1>5. CASE req[r].pc = "password"
  <2>1. UpdatePassword(r)
    BY <1>5, AbortStep, Dispatch
  <2>. QED BY <1>5, <2>1, PasswordStep
<1>6. CASE req[r].pc = "revoke_all"
  BY <1>6, AbortStep, Dispatch, RevokeAllStep
<1>. QED BY <1>2, <1>3, <1>4, <1>5, <1>6

LEMMA AcceptPath ==
    ASSUME TypeInv, NEW r \in Request, RequestStep(r), req[r].op = "accept",
           Moves(r, req'[r].pc), ~Replies(r)
    PROVE  \/ req[r].pc = "limit" /\ req'[r].pc = "bump"
           \/ req[r].pc = "bump" /\ req'[r].pc = "invite"
           \/ /\ req[r].pc = "invite" /\ req'[r].pc = "email"
              /\ ~invites[req[r].item].consumed
           \/ req[r].pc = "email" /\ req'[r].pc # "open"
           \/ req[r].pc = "create" /\ req'[r].pc = "consume"
           \/ /\ req[r].pc = "consume" /\ req'[r].pc = "open"
              /\ invites'[req[r].item].consumed
<1>1. StepOK(req[r]) /\ req[r].pc \in Steps /\ req[r].pc # "idle"
  BY OwnerExists DEF ReqRec, Moves
<1>2. req[r].pc \in {"limit", "bump", "invite", "email", "create", "consume", "open"}
  BY <1>1 DEF StepOK, Steps, CookieOp
<1>3. CASE req[r].pc = "limit"
  BY <1>3, AbortStep, Dispatch, LimitStep DEF Goes, Moves
<1>4. CASE req[r].pc = "bump"
  <2>1. Goes(r, AfterLimit(r))
    BY <1>4, AbortStep, Dispatch, LimitStep
  <2>. QED BY <1>4, <2>1 DEF Goes, Moves, AfterLimit
<1>5. CASE req[r].pc = "invite"
  <2>1. ReadInvite(r)
    BY <1>5, AbortStep, Dispatch
  <2>. QED BY <1>5, <2>1, LinkLooks DEF Walks, Goes, Moves
<1>6. CASE req[r].pc = "email"
  <2>1. CheckEmail(r)
    BY <1>6, AbortStep, Dispatch
  <2>. QED BY <1>6, <2>1, LinkLooks DEF Walks
<1>7. CASE req[r].pc = "create"
  BY <1>7, AbortStep, Dispatch, CreateUserStep DEF Moves
<1>8. CASE req[r].pc = "consume"
  BY <1>8, AbortStep, Dispatch, ConsumeInviteStep DEF Goes, Moves
<1>9. CASE req[r].pc = "open"
  BY <1>9, AbortStep, Dispatch, OpenSessionStep
<1>. QED BY <1>2, <1>3, <1>4, <1>5, <1>6, <1>7, <1>8, <1>9

\* A request that comes again carries what was redeemed.
AgainOK ==
    \A r \in Request : req[r].again =>
       /\ req[r].op \in {"reset", "accept", "recovery"}
       /\ <<req[r].op, req[r].item>> \in redeemed

\* What was redeemed is consumed, and so is what is about to be.
LinksOK ==
    /\ \A t : <<"reset", t>> \in redeemed => t \in 1..Len(tokens) /\ tokens[t].consumed
    /\ \A i : <<"accept", i>> \in redeemed => i \in 1..Len(invites) /\ invites[i].consumed
    /\ \A r \in Request :
          /\ req[r].op = "reset" /\ req[r].pc \in {"password", "revoke_all"}
                => tokens[req[r].item].consumed
          /\ req[r].op = "accept" /\ req[r].pc = "open" => invites[req[r].item].consumed
          /\ req[r].op = "reset" /\ req[r].again => req[r].pc = "token"
          /\ req[r].op = "accept" /\ req[r].again
                => req[r].pc \in {"limit", "bump", "invite"}

LEMMA AgainStays ==
    ASSUME TypeInv, AgainOK, [Next]_vars
    PROVE  AgainOK' /\ redeemed \subseteq redeemed'
<1>1. redeemed \subseteq redeemed'
  BY QuietStep, OpenSessionStep, RevokeAllStep
<1>2. ASSUME NEW q \in Request, req'[q].again
      PROVE  /\ req'[q].op \in {"reset", "accept", "recovery"}
             /\ <<req'[q].op, req'[q].item>> \in redeemed
  <2>1. CASE \E r \in Request : RequestStep(r) /\ Flow(r)
    <3>1. PICK r \in Request : RequestStep(r) /\ Flow(r)
      BY <2>1
    <3>2. CASE q # r
      BY <1>2, <3>1, <3>2 DEF Flow, AgainOK
    <3>3. CASE q = r /\ Arrives(r)
      BY <1>2, <3>3 DEF Arrives
    <3>4. CASE q = r /\ Replies(r)
      BY <1>2, <3>4, BlankType DEF Replies
    <3>5. CASE q = r /\ Moves(r, req'[r].pc)
      BY <1>2, <3>5 DEF Moves, AgainOK
    <3>. QED BY <3>1, <3>2, <3>3, <3>4, <3>5 DEF Flow
  <2>2. CASE UNCHANGED req
    BY <1>2, <2>2 DEF AgainOK
  <2>. QED BY <2>1, <2>2, Flows
<1>. QED BY <1>1, <1>2 DEF AgainOK

LEMMA LinksStay ==
    ASSUME TypeInv, AgainOK, LinksOK, [Next]_vars
    PROVE  LinksOK'
<1>0. /\ TokensKept /\ InvitesKept
      /\ 1..Len(tokens) \subseteq 1..Len(tokens') /\ 1..Len(invites) \subseteq 1..Len(invites')
  BY TablesGrow DEF Grown, TokensGrow, TokensKept, InvitesKept, TypeInv, TablesOK
<1>1. /\ \A t : <<"reset", t>> \in redeemed
                   => t \in 1..Len(tokens') /\ tokens'[t].consumed
      /\ \A i : <<"accept", i>> \in redeemed
                   => i \in 1..Len(invites') /\ invites'[i].consumed
  BY <1>0 DEF LinksOK, TokensKept, InvitesKept
<1>2. /\ \A t : <<"reset", t>> \in redeemed'
                   => t \in 1..Len(tokens') /\ tokens'[t].consumed
      /\ \A i : <<"accept", i>> \in redeemed'
                   => i \in 1..Len(invites') /\ invites'[i].consumed
  <2>1. CASE \E r \in Request : OpenSession(r)
    <3>1. PICK r \in Request : OpenSession(r)
      BY <2>1
    <3>2. /\ req[r].pc = "open" /\ req[r].op \in {"sign_in", "recovery", "accept"}
          /\ redeemed' = redeemed \cup {<<req[r].op, req[r].item>>}
      BY <3>1, OpenSessionStep
    <3>3. req[r].op = "accept" => /\ req[r].item \in 1..Len(invites)
                                  /\ invites[req[r].item].consumed
      BY <3>2, OwnerExists DEF NamesOK, LinksOK
    <3>4. req[r].op = "accept" => /\ req[r].item \in 1..Len(invites')
                                  /\ invites'[req[r].item].consumed
      BY <1>0, <3>3 DEF InvitesKept
    <3>. QED BY <1>1, <3>2, <3>4
  <2>2. CASE \E r \in Request : RevokeAll(r)
    <3>1. PICK r \in Request : RevokeAll(r)
      BY <2>2
    <3>2. /\ req[r].pc = "revoke_all" /\ req[r].op = "reset"
          /\ redeemed' = redeemed \cup {<<"reset", req[r].item>>}
      BY <3>1, RevokeAllStep
    <3>3. req[r].item \in 1..Len(tokens) /\ tokens[req[r].item].consumed
      BY <3>2, OwnerExists DEF NamesOK, LinksOK
    <3>4. req[r].item \in 1..Len(tokens') /\ tokens'[req[r].item].consumed
      BY <1>0, <3>3 DEF TokensKept
    <3>. QED BY <1>1, <3>2, <3>4
  <2>3. CASE redeemed' = redeemed
    BY <1>1, <2>3
  <2>. QED BY <2>1, <2>2, <2>3, QuietStep
<1>3. ASSUME NEW q \in Request, req'[q] = req[q]
      PROVE  /\ req'[q].op = "reset" /\ req'[q].pc \in {"password", "revoke_all"}
                   => tokens'[req'[q].item].consumed
             /\ req'[q].op = "accept" /\ req'[q].pc = "open"
                   => invites'[req'[q].item].consumed
             /\ req'[q].op = "reset" /\ req'[q].again => req'[q].pc = "token"
             /\ req'[q].op = "accept" /\ req'[q].again
                   => req'[q].pc \in {"limit", "bump", "invite"}
  <2>1. /\ req[q].op = "reset" => req[q].item \in 1..Len(tokens)
        /\ req[q].op = "accept" => req[q].item \in 1..Len(invites)
    BY OwnerExists DEF NamesOK
  <2>. QED BY <1>0, <1>3, <2>1 DEF LinksOK, TokensKept, InvitesKept
<1>4. ASSUME NEW r \in Request, RequestStep(r), Flow(r)
      PROVE  /\ req'[r].op = "reset" /\ req'[r].pc \in {"password", "revoke_all"}
                   => tokens'[req'[r].item].consumed
             /\ req'[r].op = "accept" /\ req'[r].pc = "open"
                   => invites'[req'[r].item].consumed
             /\ req'[r].op = "reset" /\ req'[r].again => req'[r].pc = "token"
             /\ req'[r].op = "accept" /\ req'[r].again
                   => req'[r].pc \in {"limit", "bump", "invite"}
  <2>1. CASE Arrives(r)
    <3>1. StepOK(req'[r]) /\ req'[r].pc \in {"limit", "token", "find", "session"}
      BY <2>1 DEF Arrives
    <3>. QED BY <3>1 DEF StepOK, CookieOp
  <2>2. CASE Replies(r)
    BY <2>2, BlankType DEF Replies
  <2>3. CASE Moves(r, req'[r].pc) /\ ~Replies(r)
    <3>0. req'[r].op = req[r].op /\ req'[r].item = req[r].item /\ req'[r].again = req[r].again
      BY <2>3 DEF Moves
    <3>1. CASE req[r].op = "reset"
      <4>1. req[r].item \in 1..Len(tokens)
        BY <3>1, OwnerExists DEF NamesOK
      <4>2. req[r].again => tokens[req[r].item].consumed /\ req[r].pc = "token"
        BY <3>1 DEF AgainOK, LinksOK
      <4>3. \/ /\ req[r].pc = "token" /\ req'[r].pc = "mark"
               /\ ~tokens[req[r].item].consumed
            \/ /\ req[r].pc = "mark" /\ req'[r].pc = "password"
               /\ tokens'[req[r].item].consumed
            \/ req[r].pc = "password" /\ req'[r].pc = "revoke_all"
        BY <1>4, <2>3, <3>1, ResetPath
      <4>4. req[r].pc = "password" => tokens'[req[r].item].consumed
        BY <1>0, <3>1, <4>1 DEF LinksOK, TokensKept
      <4>. QED BY <3>0, <3>1, <4>2, <4>3, <4>4
    <3>2. CASE req[r].op = "accept"
      <4>1. req[r].again => /\ invites[req[r].item].consumed
                            /\ req[r].pc \in {"limit", "bump", "invite"}
        BY <3>2 DEF AgainOK, LinksOK
      <4>. QED BY <1>4, <2>3, <3>0, <3>2, <4>1, AcceptPath
    <3>3. CASE req[r].op \notin {"reset", "accept"}
      BY <3>0, <3>3
    <3>. QED BY <3>1, <3>2, <3>3
  <2>. QED BY <1>4, <2>1, <2>2, <2>3 DEF Flow
<1>5. ASSUME NEW q \in Request
      PROVE  /\ req'[q].op = "reset" /\ req'[q].pc \in {"password", "revoke_all"}
                   => tokens'[req'[q].item].consumed
             /\ req'[q].op = "accept" /\ req'[q].pc = "open"
                   => invites'[req'[q].item].consumed
             /\ req'[q].op = "reset" /\ req'[q].again => req'[q].pc = "token"
             /\ req'[q].op = "accept" /\ req'[q].again
                   => req'[q].pc \in {"limit", "bump", "invite"}
  <2>1. CASE \E r \in Request : RequestStep(r) /\ Flow(r)
    <3>1. PICK r \in Request : RequestStep(r) /\ Flow(r)
      BY <2>1
    <3>2. CASE q = r
      BY <1>4, <3>1, <3>2
    <3>3. CASE q # r
      BY <1>3, <3>1, <3>3 DEF Flow
    <3>. QED BY <3>2, <3>3
  <2>2. CASE UNCHANGED req
    BY <1>3, <2>2
  <2>. QED BY <2>1, <2>2, Flows
<1>. QED BY <1>2, <1>5 DEF LinksOK

-----------------------------------------------------------------------------
\* A list of codes only gets codes of a later generation, except when a recovery writes
\* back the rest of what it has read; only a removal takes a credential away.
LEMMA TotpWrites ==
    ASSUME TypeInv, [Next]_vars
    PROVE  /\ \/ UNCHANGED totp
              \/ \E r \in Request : WriteCodes(r) /\ req[r].op = "recovery"
              \/ \E u \in User : /\ TotpStep(u) /\ NewerCodes(u)
                                 /\ \/ totp'[u].row \/ totp'[u].codes = {}
                                    \/ totp'[u] = totp[u]
           /\ \/ \A u \in User : totp[u].row => totp'[u].row
              \/ \E r \in Request : DeleteCredential(r)
<1>0. totp' = totp => \A u \in User : totp[u].row => totp'[u].row
  OBVIOUS
<1>1. ASSUME NEW r \in Request, WriteCodes(r) \/ DeleteCredential(r)
      PROVE  /\ \/ WriteCodes(r) /\ req[r].op = "recovery"
                \/ /\ req[r].user \in User /\ TotpStep(req[r].user)
                   /\ NewerCodes(req[r].user)
                   /\ \/ totp'[req[r].user].row \/ totp'[req[r].user].codes = {}
                      \/ totp'[req[r].user] = totp[req[r].user]
             /\ \/ \A u \in User : totp[u].row => totp'[u].row
                \/ DeleteCredential(r)
  <2>1. CASE WriteCodes(r)
    <3>1. /\ req[r].user \in User /\ TotpStep(req[r].user)
          /\ totp'[req[r].user].row = totp[req[r].user].row
          /\ req[r].op = "confirm" \/ req[r].op = "recovery"
          /\ req[r].op = "confirm" =>
                /\ NewerCodes(req[r].user)
                /\ totp[req[r].user].row \/ totp'[req[r].user] = totp[req[r].user]
      BY <2>1, WriteCodesStep
    <3>. QED BY <2>1, <3>1 DEF TotpStep
  <2>2. CASE DeleteCredential(r)
    BY <2>2, DeleteCredentialStep DEF NewerCodes
  <2>. QED BY <1>1, <2>1, <2>2
<1>2. ASSUME NEW r \in Request, Act(r)
      PROVE  \/ UNCHANGED totp
             \/ /\ req[r].user \in User /\ TotpStep(req[r].user)
                /\ NewerCodes(req[r].user) /\ totp'[req[r].user].row
  BY <1>2, ActStep DEF ActWrites
<1>3. ASSUME NEW r \in Request, RequestStep(r),
             ~(WriteCodes(r) \/ DeleteCredential(r) \/ Act(r))
      PROVE  UNCHANGED totp
  <2>1. CASE ArriveSignIn(r) \/ ArriveByMail(r) \/ ArriveWithCookie(r)
    BY <2>1, SignInArrives, MailArrives, CookieArrives DEF Arrives
  <2>2. CASE \/ ReadHits(r) \/ BumpHits(r)
             \/ FindUser(r) \/ BeginFailure(r) \/ CountFailure(r) \/ SecondFactor(r)
             \/ LookupSession(r) \/ LookupUser(r) \/ LookupMember(r)
             \/ CheckCsrf(r) \/ VerifyPassword(r)
             \/ ReadToken(r) \/ ReadInvite(r) \/ CheckEmail(r) \/ ReadCredential(r)
             \/ Abort(r)
    BY <2>2, LimitStep, SignInLooks, CookieLooks, LinkLooks, CredentialLooks,
       AbortStep DEF Calm, Still
  <2>3. CASE \/ RecordFailure(r) \/ ClearFailures(r) \/ Rehash(r) \/ UpdatePassword(r)
             \/ SetTotpEnabled(r)
    BY <2>3, RecordFailureStep, ClearFailuresStep, PasswordStep, SetTotpEnabledStep
       DEF OnlyUsers
  <2>4. CASE \/ OpenSession(r) \/ RotateToken(r) \/ RevokeAll(r) \/ MarkToken(r)
             \/ ConsumeInvite(r) \/ CreateUser(r)
    BY <2>4, OpenSessionStep, RotateTokenStep, RevokeAllStep, MarkTokenStep,
       ConsumeInviteStep, CreateUserStep DEF OnlySessions
  <2>. QED BY <1>3, <2>1, <2>2, <2>3, <2>4 DEF RequestStep
<1>4. CASE Lapse \/ NextWindow \/ UNCHANGED vars
  BY <1>0, <1>4, LapseStep DEF NextWindow, Lapsing, vars, rows
<1>5. CASE \E r \in Request : RequestStep(r)
  <2>1. PICK r \in Request : RequestStep(r)
    BY <1>5
  <2>2. CASE WriteCodes(r) \/ DeleteCredential(r)
    BY <1>1, <2>2
  <2>3. CASE Act(r) /\ ~UNCHANGED totp
    BY <1>2, <2>3 DEF TotpStep
  <2>4. CASE UNCHANGED totp
    BY <1>0, <2>4
  <2>. QED BY <1>3, <2>1, <2>2, <2>3, <2>4
<1>. QED BY <1>4, <1>5 DEF Next

\* An account without a credential has no codes.
NoRowNoCodes == \A u \in User : totp[u].row \/ totp[u].codes = {}

LEMMA NoRowStays ==
    ASSUME TypeInv, NoRowNoCodes, [Next]_vars
    PROVE  NoRowNoCodes'
<1>1. CASE UNCHANGED totp
  BY <1>1 DEF NoRowNoCodes
<1>2. CASE \E r \in Request : WriteCodes(r) /\ req[r].op = "recovery"
  <2>1. PICK r \in Request : WriteCodes(r) /\ req[r].op = "recovery"
    BY <1>2
  <2>2. /\ req[r].user \in User /\ TotpStep(req[r].user)
        /\ totp'[req[r].user].row = totp[req[r].user].row
        /\ totp[req[r].user].row \/ totp'[req[r].user] = totp[req[r].user]
    BY <2>1, WriteCodesStep
  <2>. QED BY <2>2 DEF NoRowNoCodes, TotpStep
<1>3. CASE \E u \in User : /\ TotpStep(u) /\ NewerCodes(u)
                           /\ \/ totp'[u].row \/ totp'[u].codes = {}
                              \/ totp'[u] = totp[u]
  BY <1>3 DEF NoRowNoCodes, TotpStep
<1>. QED BY <1>1, <1>2, <1>3, TotpWrites

\* Unless two recoveries overlap: a redeemed code is on no list, not on one that is
\* about to be written either.
CodesOK ==
    /\ \A u \in User, c \in Nat \X Code :
          <<"recovery", <<u, c>>>> \in redeemed
             => c \notin totp[u].codes /\ c[1] <= totp[u].gen
    /\ \A r \in Request : req[r].op = "recovery" =>
          /\ req[r].pc = "write" =>
                /\ req[r].item[2] \notin req[r].codes
                /\ \A c \in req[r].codes : <<"recovery", <<req[r].user, c>>>> \notin redeemed
          /\ req[r].pc = "open" => req[r].item[2] \notin totp[req[r].user].codes
          /\ req[r].again => req[r].pc \in {"find", "credential"}

TwoRecoveries == {"recovery"} \in raced

LEMMA RecoveryPath ==
    ASSUME TypeInv, NEW r \in Request, RequestStep(r), req[r].op = "recovery",
           Moves(r, req'[r].pc), ~Replies(r)
    PROVE  \/ req[r].pc = "find" /\ req'[r].pc = "credential"
           \/ /\ req[r].pc = "credential" /\ req'[r].pc = "write" /\ Calm
              /\ req'[r].user = req[r].user
              /\ req[r].item[2] \in totp[req[r].user].codes
              /\ req'[r].codes = totp[req[r].user].codes \ {req[r].item[2]}
           \/ /\ req[r].pc = "write" /\ req'[r].pc = "open" /\ req'[r].user = req[r].user
              /\ \/ totp'[req[r].user].codes = req[r].codes
                 \/ /\ ~totp[req[r].user].row
                    /\ totp'[req[r].user] = totp[req[r].user]
<1>1. StepOK(req[r]) /\ req[r].pc \in Steps /\ req[r].pc # "idle"
  BY OwnerExists DEF ReqRec, Moves
<1>2. req[r].pc \in {"find", "credential", "write", "open"}
  BY <1>1 DEF StepOK, Steps, CookieOp
<1>3. CASE req[r].pc = "find"
  <2>1. FindUser(r)
    BY <1>3, AbortStep, Dispatch
  <2>. QED BY <1>3, <2>1, SignInLooks DEF Walks
<1>4. CASE req[r].pc = "credential"
  <2>1. ReadCredential(r)
    BY <1>4, AbortStep, Dispatch
  <2>. QED BY <1>4, <2>1, CredentialLooks DEF Walks, Moves
<1>5. CASE req[r].pc = "write"
  <2>1. WriteCodes(r)
    BY <1>5, AbortStep, Dispatch
  <2>. QED BY <1>5, <2>1, WriteCodesStep DEF Goes, Moves
<1>6. CASE req[r].pc = "open"
  BY <1>6, AbortStep, Dispatch, OpenSessionStep
<1>. QED BY <1>2, <1>3, <1>4, <1>5, <1>6

LEMMA OneRecovery ==
    ASSUME RacedRecorded, ~TwoRecoveries, NEW r \in Request, NEW q \in Request,
           req[r].op = "recovery", req[q].op = "recovery",
           req[r].pc # "idle", req[q].pc # "idle"
    PROVE  r = q
<1>1. {req[r].op, req[q].op} = {"recovery"} /\ {"recovery"} \in Racing
  BY DEF Racing
<1>. QED BY <1>1 DEF RacedRecorded, TwoRecoveries

\* What a recovery names, and what that code is in the lists.
LEMMA RecoveryItem ==
    ASSUME TypeInv, NEW r \in Request, req[r].op = "recovery"
    PROVE  /\ req[r].user \in User /\ req[r].item[2] \in Nat \X Code
           /\ req[r].item = <<req[r].user, req[r].item[2]>>
           /\ req[r].item[2][1] <= totp[req[r].user].gen
           /\ req[r].codes \in SUBSET (Nat \X Code)
<1>1. /\ req[r].item \in Nat \X (Nat \X Code) /\ req[r].item[1] = req[r].user
      /\ req[r].item[2][1] <= Gen[req[r].user]
  BY OwnerExists DEF NamesOK
<1>2. req[r].user \in User
  BY OwnerExists
<1>3. req[r].codes \in SUBSET (Nat \X Code)
  BY OwnerExists DEF ReqRec
<1>. QED BY <1>1, <1>2, <1>3 DEF Gen

\* Any write of a list keeps out a code that was generated and is not on it.
LEMMA StaysOff ==
    ASSUME TypeInv, NEW u \in User, NEW c \in Nat \X Code,
           c \notin totp[u].codes, c[1] <= totp[u].gen,
           NEW v \in User, TotpStep(v), NewerCodes(v)
    PROVE  c \notin totp'[u].codes /\ c[1] <= totp'[u].gen
<1>1. /\ totp[u].gen \in Nat /\ totp'[u].gen \in Nat /\ c[1] \in Nat
  BY DEF TypeInv, TablesOK, TotpStep, Credential
<1>2. totp[u].gen <= totp'[u].gen
  BY <1>1 DEF TotpStep
<1>3. CASE u = v
  <2>1. \A d \in totp'[u].codes : d \in totp[u].codes \/ d[1] > totp[u].gen
    BY <1>3 DEF NewerCodes
  <2>2. ~(c[1] > totp[u].gen)
    BY <1>1
  <2>. QED BY <1>1, <1>2, <2>1, <2>2
<1>4. CASE u # v
  BY <1>1, <1>2, <1>4 DEF TotpStep
<1>. QED BY <1>3, <1>4

LEMMA RedeemedCodesStay ==
    ASSUME TypeInv, CodesOK, [Next]_vars, NEW u \in User, NEW c \in Nat \X Code,
           <<"recovery", <<u, c>>>> \in redeemed'
    PROVE  c \notin totp'[u].codes /\ c[1] <= totp'[u].gen
<1>1. CASE \E r \in Request : OpenSession(r) \/ RevokeAll(r)
  <2>1. PICK r \in Request : OpenSession(r) \/ RevokeAll(r)
    BY <1>1
  <2>2. UNCHANGED totp
    BY <2>1, OpenSessionStep, RevokeAllStep DEF OnlySessions
  <2>3. CASE <<"recovery", <<u, c>>>> \in redeemed
    BY <2>2, <2>3 DEF CodesOK
  <2>4. CASE <<"recovery", <<u, c>>>> \notin redeemed
    <3>1. /\ req[r].pc = "open" /\ req[r].op = "recovery" /\ req[r].item = <<u, c>>
      BY <2>1, <2>4, OpenSessionStep, RevokeAllStep
    <3>2. /\ req[r].user = u /\ req[r].item[2] = c /\ c[1] <= totp[u].gen
      BY <3>1, RecoveryItem
    <3>. QED BY <2>2, <3>1, <3>2 DEF CodesOK
  <2>. QED BY <2>3, <2>4
<1>2. CASE redeemed' = redeemed
  <2>0. c \notin totp[u].codes /\ c[1] <= totp[u].gen
    BY <1>2 DEF CodesOK
  <2>1. CASE UNCHANGED totp
    BY <2>0, <2>1
  <2>2. CASE \E r \in Request : WriteCodes(r) /\ req[r].op = "recovery"
    <3>1. PICK r \in Request : WriteCodes(r) /\ req[r].op = "recovery"
      BY <2>2
    <3>2. /\ req[r].pc = "write" /\ req[r].user \in User /\ TotpStep(req[r].user)
          /\ \/ totp'[req[r].user].codes = req[r].codes
             \/ totp'[req[r].user] = totp[req[r].user]
      BY <3>1, WriteCodesStep
    <3>3. c \notin totp'[u].codes
      BY <1>2, <2>0, <3>1, <3>2 DEF CodesOK, TotpStep
    <3>4. totp[u].gen <= totp'[u].gen
      BY TablesGrow DEF Grown, TotpGrows
    <3>5. /\ totp[u].gen \in Nat /\ totp'[u].gen \in Nat /\ c[1] \in Nat
      BY <3>2 DEF TypeInv, TablesOK, TotpStep, Credential
    <3>. QED BY <2>0, <3>3, <3>4, <3>5
  <2>3. CASE \E v \in User : TotpStep(v) /\ NewerCodes(v)
    BY <2>0, <2>3, StaysOff
  <2>. QED BY <2>1, <2>2, <2>3, TotpWrites
<1>. QED BY <1>1, <1>2, QuietStep

\* The recovery itself, whatever the others do.
LEMMA OtherRecoveryStays ==
    ASSUME TypeInv, RacedRecorded, CodesOK, ~TwoRecoveries, [Next]_vars,
           NEW q \in Request, req'[q] = req[q], req[q].op = "recovery",
           req[q].pc # "idle"
    PROVE  /\ req[q].pc = "write" =>
                 /\ req[q].item[2] \notin req[q].codes
                 /\ \A c \in req[q].codes : <<"recovery", <<req[q].user, c>>>> \notin redeemed'
           /\ req[q].pc = "open" => req[q].item[2] \notin totp'[req[q].user].codes
           /\ req[q].again => req[q].pc \in {"find", "credential"}
<1>1. ASSUME NEW r \in Request, OpenSession(r) \/ WriteCodes(r), req[r].op = "recovery"
      PROVE  FALSE
  <2>1. req[r].pc \in {"open", "write"} /\ req'[r].pc # req[r].pc
    BY <1>1, BlankType, OpenSessionStep, WriteCodesStep DEF Replies, Goes, Moves
  <2>2. r = q
    BY <1>1, <2>1, OneRecovery
  <2>. QED BY <2>1, <2>2
<1>2. \A c : <<"recovery", c>> \in redeemed' => <<"recovery", c>> \in redeemed
  <2>1. CASE \E r \in Request : OpenSession(r) \/ RevokeAll(r)
    <3>1. PICK r \in Request : OpenSession(r) \/ RevokeAll(r)
      BY <2>1
    <3>. QED BY <1>1, <3>1, OpenSessionStep, RevokeAllStep
  <2>2. CASE redeemed' = redeemed
    BY <2>2
  <2>. QED BY <2>1, <2>2, QuietStep
<1>3. ASSUME req[q].pc = "open"
      PROVE  req[q].item[2] \notin totp'[req[q].user].codes
  <2>0. /\ req[q].item[2] \notin totp[req[q].user].codes
        /\ req[q].user \in User /\ req[q].item[2] \in Nat \X Code
        /\ req[q].item[2][1] <= totp[req[q].user].gen
    BY <1>3, RecoveryItem DEF CodesOK
  <2>1. CASE UNCHANGED totp
    BY <2>0, <2>1
  <2>2. CASE \E v \in User : TotpStep(v) /\ NewerCodes(v)
    BY <2>0, <2>2, StaysOff
  <2>. QED BY <1>1, <2>1, <2>2, TotpWrites
<1>. QED BY <1>2, <1>3 DEF CodesOK

LEMMA CodesStay ==
    ASSUME TypeInv, RacedRecorded, AgainOK, NoRowNoCodes, CodesOK, ~TwoRecoveries,
           [Next]_vars
    PROVE  CodesOK'
<1>1. ASSUME NEW q \in Request, req'[q].op = "recovery"
      PROVE  /\ req'[q].pc = "write" =>
                   /\ req'[q].item[2] \notin req'[q].codes
                   /\ \A c \in req'[q].codes :
                         <<"recovery", <<req'[q].user, c>>>> \notin redeemed'
             /\ req'[q].pc = "open" => req'[q].item[2] \notin totp'[req'[q].user].codes
             /\ req'[q].again => req'[q].pc \in {"find", "credential"}
  <2>1. CASE req'[q] = req[q]
    <3>1. req[q].pc # "idle" =>
             /\ req[q].pc = "write" =>
                   /\ req[q].item[2] \notin req[q].codes
                   /\ \A c \in req[q].codes :
                         <<"recovery", <<req[q].user, c>>>> \notin redeemed'
             /\ req[q].pc = "open" => req[q].item[2] \notin totp'[req[q].user].codes
             /\ req[q].again => req[q].pc \in {"find", "credential"}
      BY <1>1, <2>1, OtherRecoveryStays
    <3>2. req[q].again => req[q].pc \in {"find", "credential"}
      BY <1>1, <2>1 DEF CodesOK
    <3>. QED BY <2>1, <3>1, <3>2
  <2>2. CASE req'[q] # req[q]
    <3>1. PICK r \in Request : RequestStep(r) /\ Flow(r)
      BY <2>2, Flows
    <3>2. q = r
      BY <2>2, <3>1 DEF Flow
    <3>3. CASE Arrives(q)
      <4>1. StepOK(req'[q]) /\ req'[q].pc \in {"limit", "token", "find", "session"}
        BY <3>3 DEF Arrives
      <4>. QED BY <1>1, <4>1 DEF StepOK, CookieOp
    <3>4. CASE Replies(q)
      BY <1>1, <3>4, BlankType DEF Replies
    <3>5. CASE Moves(q, req'[q].pc) /\ ~Replies(q)
      <4>0. /\ req'[q].op = req[q].op /\ req'[q].item = req[q].item
            /\ req'[q].again = req[q].again /\ req[q].op = "recovery"
        BY <1>1, <3>5 DEF Moves
      <4>1. RequestStep(q)
        BY <3>1, <3>2
      <4>2. req[q].again => <<"recovery", req[q].item>> \in redeemed
        BY <4>0 DEF AgainOK
      <4>3. /\ req[q].user \in User /\ req[q].item[2] \in Nat \X Code
            /\ req[q].item = <<req[q].user, req[q].item[2]>>
            /\ totp[req[q].user].codes \in SUBSET (Nat \X Code)
        BY <4>0, RecoveryItem DEF TypeInv, TablesOK, Credential
      <4>4. CASE req[q].pc = "find" /\ req'[q].pc = "credential"
        BY <4>4
      <4>5. CASE /\ req[q].pc = "credential" /\ req'[q].pc = "write" /\ Calm
                 /\ req'[q].user = req[q].user
                 /\ req[q].item[2] \in totp[req[q].user].codes
                 /\ req'[q].codes = totp[req[q].user].codes \ {req[q].item[2]}
        <5>1. ~req[q].again
          BY <4>2, <4>3, <4>5 DEF CodesOK
        <5>2. redeemed' = redeemed
          BY <4>5 DEF Calm, Still
        <5>3. \A c \in totp[req[q].user].codes :
                 <<"recovery", <<req[q].user, c>>>> \notin redeemed
          BY <4>3 DEF CodesOK
        <5>. QED BY <4>0, <4>5, <5>1, <5>2, <5>3
      <4>6. CASE /\ req[q].pc = "write" /\ req'[q].pc = "open"
                 /\ req'[q].user = req[q].user
                 /\ \/ totp'[req[q].user].codes = req[q].codes
                    \/ /\ ~totp[req[q].user].row
                       /\ totp'[req[q].user] = totp[req[q].user]
        <5>1. ~req[q].again /\ req[q].item[2] \notin req[q].codes
          BY <4>0, <4>6 DEF CodesOK
        <5>2. req[q].item[2] \notin totp'[req[q].user].codes
          BY <4>3, <4>6, <5>1 DEF NoRowNoCodes
        <5>. QED BY <4>0, <4>6, <5>1, <5>2
      <4>. QED BY <3>5, <4>0, <4>1, <4>4, <4>5, <4>6, RecoveryPath
    <3>. QED BY <3>1, <3>2, <3>3, <3>4, <3>5 DEF Flow
  <2>. QED BY <2>1, <2>2
<1>2. \A u \in User, c \in Nat \X Code :
         <<"recovery", <<u, c>>>> \in redeemed'
            => c \notin totp'[u].codes /\ c[1] <= totp'[u].gen
  BY RedeemedCodesStay
<1>. QED BY <1>1, <1>2 DEF CodesOK

OnceInv == AgainOK /\ LinksOK /\ NoRowNoCodes /\ (TwoRecoveries \/ CodesOK)

LEMMA OnceInvariant == Spec => []OnceInv
<1>1. Init => OnceInv
  <2>1. SUFFICES ASSUME Init
                 PROVE  OnceInv
    OBVIOUS
  <2>2. req = [r \in Request |-> Blank] /\ redeemed = {}
    BY <2>1 DEF Init
  <2>3. \A u \in User : totp[u].row \/ totp[u].codes = {}
    BY <2>1 DEF Init
  <2>. QED BY <2>2, <2>3, BlankType DEF OnceInv, AgainOK, LinksOK, NoRowNoCodes, CodesOK
<1>2. TypeInv /\ RacedRecorded /\ OnceInv /\ [Next]_vars => OnceInv'
  <2>1. SUFFICES ASSUME TypeInv, RacedRecorded, OnceInv, [Next]_vars
                 PROVE  OnceInv'
    OBVIOUS
  <2>2. AgainOK /\ LinksOK /\ NoRowNoCodes
    BY <2>1 DEF OnceInv
  <2>3. AgainOK' /\ LinksOK' /\ NoRowNoCodes'
    BY <2>1, <2>2, AgainStays, LinksStay, NoRowStays
  <2>4. CASE TwoRecoveries
    <3>1. raced \subseteq raced'
      BY <2>1, Flows DEF Flow, Arrives
    <3>. QED BY <2>3, <2>4, <3>1 DEF OnceInv, TwoRecoveries
  <2>5. CASE ~TwoRecoveries
    <3>1. CodesOK'
      BY <2>1, <2>2, <2>5, CodesStay DEF OnceInv
    <3>. QED BY <2>3, <3>1 DEF OnceInv
  <2>. QED BY <2>4, <2>5
<1>. QED BY <1>1, <1>2, TypeInvariant, RacedInvariant, PTL DEF Spec

\* A reset link or an invite whose redemption was over when a request came in does not
\* serve it, and neither does a recovery code unless two recoveries overlapped
\* (consume, tokens.py:74; accept_invite, routes.py:815; totp_recovery, routes.py:1028).
THEOREM ServesOnce == Spec => []RedeemedOnce
<1>1. OnceInv => RedeemedOnce
  <2>1. SUFFICES ASSUME OnceInv, NEW r \in Request, req[r].again
                 PROVE  \/ req[r].op = "reset" /\ req[r].pc = "token"
                        \/ req[r].op = "accept" /\ req[r].pc \in {"limit", "bump", "invite"}
                        \/ /\ req[r].op = "recovery"
                           /\ req[r].pc \in {"find", "credential"} \/ TwoRecoveries
    BY DEF RedeemedOnce, TwoRecoveries
  <2>. QED BY <2>1 DEF OnceInv, AgainOK, LinksOK, CodesOK
<1>. QED BY <1>1, OnceInvariant, PTL

-----------------------------------------------------------------------------
\* Only the last statement of a confirmation or a removal changes an account's flag.
LEMMA FlagWrites ==
    ASSUME TypeInv, [Next]_vars
    PROVE  \/ \E r \in Request : RequestStep(r) /\ SetTotpEnabled(r)
           \/ /\ Len(users) <= Len(users')
              /\ \A u \in 1..Len(users) : users'[u].totp = users[u].totp
              /\ \A u \in 1..Len(users') : u > Len(users) => ~users'[u].totp
<1> DEFINE Kept == /\ Len(users) <= Len(users')
                   /\ \A u \in 1..Len(users) : users'[u].totp = users[u].totp
                   /\ \A u \in 1..Len(users') : u > Len(users) => ~users'[u].totp
<1>0. Len(users) \in Nat
  BY Lengths
<1>1. users' = users => Kept
  BY <1>0
<1>2. ASSUME NEW u \in 1..Len(users), RowStep(u), users'[u].totp = users[u].totp
      PROVE  Kept
  BY <1>0, <1>2 DEF RowStep
<1>3. ASSUME NEW r \in Request, RequestStep(r), ~SetTotpEnabled(r)
      PROVE  Kept
  <2>1. CASE ArriveSignIn(r) \/ ArriveByMail(r) \/ ArriveWithCookie(r)
    BY <1>1, <2>1, SignInArrives, MailArrives, CookieArrives DEF Arrives
  <2>2. CASE \/ ReadHits(r) \/ BumpHits(r)
             \/ FindUser(r) \/ BeginFailure(r) \/ CountFailure(r) \/ SecondFactor(r)
             \/ LookupSession(r) \/ LookupUser(r) \/ LookupMember(r)
             \/ CheckCsrf(r) \/ VerifyPassword(r)
             \/ ReadToken(r) \/ ReadInvite(r) \/ CheckEmail(r) \/ ReadCredential(r)
             \/ Abort(r)
    BY <1>1, <2>2, LimitStep, SignInLooks, CookieLooks, LinkLooks, CredentialLooks,
       AbortStep DEF Calm, Still
  <2>3. CASE RecordFailure(r) \/ ClearFailures(r) \/ Rehash(r) \/ UpdatePassword(r)
    BY <1>2, <2>3, RecordFailureStep, ClearFailuresStep, PasswordStep
  <2>4. CASE \/ OpenSession(r) \/ RotateToken(r) \/ RevokeAll(r) \/ MarkToken(r)
             \/ ConsumeInvite(r) \/ WriteCodes(r) \/ DeleteCredential(r)
    BY <1>1, <2>4, OpenSessionStep, RotateTokenStep, RevokeAllStep, MarkTokenStep,
       ConsumeInviteStep, WriteCodesStep, DeleteCredentialStep DEF OnlySessions, OnlyTotp
  <2>5. CASE CreateUser(r)
    <3>1. CASE UNCHANGED users
      BY <1>1, <3>1
    <3>2. CASE ~UNCHANGED users
      <4>1. /\ Len(users') = Len(users) + 1
            /\ \A u \in 1..Len(users) : users'[u] = users[u]
            /\ ~users'[Len(users) + 1].totp
        BY <2>5, <3>2, CreateUserStep
      <4>2. \A u \in 1..Len(users') : u > Len(users) => u = Len(users) + 1
        BY <1>0, <4>1
      <4>. QED BY <1>0, <4>1, <4>2
    <3>. QED BY <3>1, <3>2
  <2>6. CASE Act(r)
    BY <1>1, <1>2, <2>6, ActStep DEF ActWrites
  <2>. QED BY <1>3, <2>1, <2>2, <2>3, <2>4, <2>5, <2>6 DEF RequestStep
<1>4. CASE Lapse
  BY <1>1, <1>2, <1>4, LapseStep
<1>5. CASE NextWindow \/ UNCHANGED vars
  BY <1>1, <1>5 DEF NextWindow, vars, rows
<1>6. CASE \E r \in Request : RequestStep(r)
  <2>1. PICK r \in Request : RequestStep(r)
    BY <1>6
  <2>2. CASE SetTotpEnabled(r)
    BY <2>1, <2>2
  <2>3. CASE ~SetTotpEnabled(r)
    <3>1. Kept
      BY <1>3, <2>1, <2>3
    <3>. QED BY <3>1
  <2>. QED BY <2>2, <2>3
<1>. QED BY <1>4, <1>5, <1>6 DEF Next

\* Unless a confirmation overlaps a removal: an account that asks for a second factor
\* without a credential is about to stop asking, or the removal that was about to see
\* to it ended early, and a confirmation that has seen the
\* credential still has it.
Removing(u) == \E r \in Request :
    req[r].pc = "flag" /\ req[r].op = "disable" /\ req[r].user = u

FactorOK ==
    /\ \A u \in 1..Len(users) : users[u].totp => totp[u].row \/ Removing(u) \/ u \in severed
    /\ \A r \in Request :
          req[r].op = "confirm" /\ req[r].pc \in {"write", "flag"} => totp[req[r].user].row

Crossed == {"confirm", "disable"} \in raced

\* The way of a confirmation.
LEMMA ConfirmPath ==
    ASSUME TypeInv, NEW r \in Request, RequestStep(r), Flow(r),
           req'[r].op = "confirm", req'[r].pc \in {"write", "flag"}
    PROVE  /\ req[r].op = "confirm" /\ req[r].pc # "idle" /\ req'[r].user = req[r].user
           /\ totp'[req[r].user].row = totp[req[r].user].row
           /\ req[r].pc \in {"write", "flag"} \/ totp[req[r].user].row
<1>1. Moves(r, req'[r].pc) /\ ~Replies(r)
  <2>1. ~Arrives(r) /\ ~Replies(r)
    BY BlankType DEF Arrives, Replies
  <2>. QED BY <2>1 DEF Flow
<1>2. req[r].op = "confirm" /\ req[r].pc # "idle"
  BY <1>1 DEF Moves
<1>3. req[r].pc \in {"session", "user", "member", "credential", "write", "flag"}
  <2>1. StepOK(req[r]) /\ req[r].pc \in Steps
    BY OwnerExists DEF ReqRec
  <2>. QED BY <1>2, <2>1 DEF StepOK, Steps, CookieOp
<1>4. CASE req[r].pc = "credential"
  <2>1. ReadCredential(r)
    BY <1>1, <1>4, AbortStep, Dispatch
  <2>2. Calm /\ (Walks(r) \/ (Goes(r, "write") /\ totp[req[r].user].row))
    BY <1>1, <1>2, <2>1, CredentialLooks
  <2>3. CASE Goes(r, "write") /\ totp[req[r].user].row
    BY <1>2, <2>2, <2>3 DEF Calm, Still, Goes
  <2>4. CASE Walks(r)
    BY <2>4 DEF Walks
  <2>. QED BY <2>2, <2>3, <2>4
<1>5. CASE req[r].pc = "write"
  <2>1. WriteCodes(r)
    BY <1>1, <1>5, AbortStep, Dispatch
  <2>2. /\ totp'[req[r].user].row = totp[req[r].user].row /\ Goes(r, "flag")
    BY <1>2, <2>1, WriteCodesStep
  <2>. QED BY <1>2, <1>5, <2>2 DEF Goes
<1>6. CASE req[r].pc = "flag"
  BY <1>1, <1>6, AbortStep, Dispatch, SetTotpEnabledStep
<1>7. CASE req[r].pc \in {"session", "user", "member"}
  <2>1. LookupSession(r) \/ LookupUser(r) \/ LookupMember(r)
    BY <1>1, <1>7, AbortStep, Dispatch
  <2>2. Walks(r) \/ Moves(r, "user")
    BY <1>1, <2>1, CookieLooks
  <2>3. CASE Walks(r)
    BY <2>3 DEF Walks
  <2>4. CASE Moves(r, "user")
    BY <2>4 DEF Moves
  <2>. QED BY <2>2, <2>3, <2>4
<1>. QED BY <1>3, <1>4, <1>5, <1>6, <1>7

\* A row disappears only under a removal, which then has the flag to clear.
LEMMA RowLost ==
    ASSUME TypeInv, [Next]_vars, NEW u \in User, totp[u].row, ~totp'[u].row
    PROVE  \E r \in Request :
              /\ RequestStep(r) /\ Flow(r)
              /\ req[r].pc = "delete" /\ req[r].op = "disable"
              /\ req'[r].pc = "flag" /\ req'[r].op = "disable" /\ req'[r].user = u
<1>1. PICK r \in Request : DeleteCredential(r)
  BY TotpWrites
<1>2. RequestStep(r)
  BY <1>1 DEF RequestStep
<1>3. Flow(r)
  BY <1>2, RequestFlows
<1>4. /\ req[r].pc = "delete" /\ req[r].op = "disable" /\ Goes(r, "flag")
      /\ TotpStep(req[r].user)
  BY <1>1, DeleteCredentialStep
<1>5. req[r].user = u
  BY <1>4 DEF TotpStep
<1>. QED BY <1>2, <1>3, <1>4, <1>5 DEF Goes, Moves

LEMMA AskersServed ==
    ASSUME TypeInv, FactorOK, [Next]_vars,
           NEW u \in 1..Len(users'), users'[u].totp
    PROVE  totp'[u].row \/ u \in severed' \/ \E q \in Request :
              req'[q].pc = "flag" /\ req'[q].op = "disable" /\ req'[q].user = u
<1>0. severed \subseteq severed'
  BY SeveredGrows
<1>1. CASE \E r \in Request : RequestStep(r) /\ SetTotpEnabled(r)
  <2>1. PICK r \in Request : RequestStep(r) /\ SetTotpEnabled(r)
    BY <1>1
  <2>2. /\ req[r].pc = "flag" /\ totp' = totp
        /\ RowStep(req[r].user) /\ users'[req[r].user].totp = (req[r].op = "confirm")
    BY <2>1, SetTotpEnabledStep DEF OnlyUsers
  <2>3. \A q \in Request : q # r => req'[q] = req[q]
    BY <2>1, RequestFlows DEF Flow
  <2>4. CASE u = req[r].user
    BY <2>2, <2>4 DEF FactorOK
  <2>5. CASE u # req[r].user
    <3>1. u \in 1..Len(users) /\ users'[u] = users[u]
      BY <2>2, <2>5 DEF RowStep
    <3>2. totp[u].row \/ Removing(u) \/ u \in severed
      BY <3>1 DEF FactorOK
    <3>3. CASE Removing(u)
      <4>1. PICK q \in Request :
               req[q].pc = "flag" /\ req[q].op = "disable" /\ req[q].user = u
        BY <3>3 DEF Removing
      <4>2. req'[q] = req[q]
        BY <2>3, <2>5, <4>1
      <4>. QED BY <4>1, <4>2
    <3>. QED BY <1>0, <2>2, <3>2, <3>3
  <2>. QED BY <2>4, <2>5
<1>2. CASE ~ \E r \in Request : RequestStep(r) /\ SetTotpEnabled(r)
  <2>1. u \in 1..Len(users) /\ users[u].totp
    <3>1. /\ Len(users) <= Len(users')
          /\ \A v \in 1..Len(users) : users'[v].totp = users[v].totp
          /\ \A v \in 1..Len(users') : v > Len(users) => ~users'[v].totp
      BY <1>2, FlagWrites
    <3>2. Len(users) \in Nat
      BY Lengths
    <3>3. ~(u > Len(users))
      BY <3>1
    <3>4. u \in 1..Len(users)
      BY <3>2, <3>3
    <3>. QED BY <3>1, <3>4
  <2>2. u \in User
    BY <2>1, Accounted
  <2>3. CASE totp[u].row /\ ~totp'[u].row
    BY <2>2, <2>3, RowLost
  <2>4. CASE Removing(u)
    <3>1. PICK q \in Request :
             req[q].pc = "flag" /\ req[q].op = "disable" /\ req[q].user = u
      BY <2>4 DEF Removing
    <3>2. CASE req'[q] = req[q]
      BY <3>1, <3>2
    <3>3. CASE req'[q] # req[q]
      <4>1. PICK r \in Request : RequestStep(r) /\ Flow(r)
        BY <3>3, Flows
      <4>2. q = r
        BY <3>3, <4>1 DEF Flow
      <4>3. CASE Abort(q)
        BY <3>1, <4>3, AbortStep
      <4>4. CASE ~Abort(q)
        BY <1>2, <3>1, <4>1, <4>2, <4>4, Dispatch
      <4>. QED BY <4>3, <4>4
    <3>. QED BY <3>2, <3>3
  <2>5. CASE u \in severed
    BY <1>0, <2>5
  <2>. QED BY <2>1, <2>3, <2>4, <2>5 DEF FactorOK
<1>. QED BY <1>1, <1>2

LEMMA FactorStays ==
    ASSUME TypeInv, RacedRecorded, FactorOK, ~Crossed, [Next]_vars
    PROVE  FactorOK'
<1>1. ASSUME NEW q \in Request, req'[q].op = "confirm", req'[q].pc \in {"write", "flag"}
      PROVE  totp'[req'[q].user].row
  <2>1. CASE req'[q] = req[q]
    <3>1. /\ req[q].op = "confirm" /\ req[q].pc \in {"write", "flag"}
          /\ totp[req[q].user].row
      BY <1>1, <2>1 DEF FactorOK
    <3>2. req[q].user \in User
      <4>1. req[q].user \in 1..Len(users)
        BY <3>1, OwnerExists DEF StepOK, CookieOp
      <4>2. DOMAIN users = 1..Len(users)
        BY DEF TypeInv, TablesOK
      <4>. QED BY <4>1, <4>2, Accounted
    <3>3. ASSUME ~totp'[req[q].user].row
          PROVE  FALSE
      <4>1. PICK r \in Request :
               /\ RequestStep(r) /\ Flow(r)
               /\ req[r].pc = "delete" /\ req[r].op = "disable"
               /\ req'[r].pc = "flag"
        BY <3>1, <3>2, <3>3, RowLost
      <4>2. r # q /\ {req[q].op, req[r].op} = {"confirm", "disable"}
        BY <3>1, <4>1
      <4>3. {req[q].op, req[r].op} \in Racing
        BY <4>2 DEF Racing
      <4>4. {req[q].op, req[r].op} \in raced
        BY <3>1, <4>1, <4>2, <4>3 DEF RacedRecorded
      <4>. QED BY <4>2, <4>4 DEF Crossed
    <3>. QED BY <2>1, <3>3
  <2>2. CASE req'[q] # req[q]
    <3>1. PICK r \in Request : RequestStep(r) /\ Flow(r)
      BY <2>2, Flows
    <3>2. q = r
      BY <2>2, <3>1 DEF Flow
    <3>3. /\ req[q].op = "confirm" /\ req'[q].user = req[q].user
          /\ totp'[req[q].user].row = totp[req[q].user].row
          /\ req[q].pc \in {"write", "flag"} \/ totp[req[q].user].row
      BY <1>1, <3>1, <3>2, ConfirmPath
    <3>. QED BY <3>3 DEF FactorOK
  <2>. QED BY <2>1, <2>2
<1>2. \A u \in 1..Len(users') :
         users'[u].totp => totp'[u].row \/ u \in severed' \/ \E q \in Request :
         req'[q].pc = "flag" /\ req'[q].op = "disable" /\ req'[q].user = u
  BY AskersServed
<1>. QED BY <1>1, <1>2 DEF FactorOK, Removing

FactorInv == Crossed \/ FactorOK

LEMMA FactorInvariant == Spec => []FactorInv
<1>1. Init => FactorInv
  <2>1. SUFFICES ASSUME Init
                 PROVE  FactorOK
    BY DEF FactorInv
  <2>2. req = [r \in Request |-> Blank]
    BY <2>1 DEF Init
  <2>3. PICK old \in BOOLEAN :
           /\ users = <<[NewUser(FirstEmail, FirstPassword, "org_owner", 0)
                           EXCEPT !.totp = old, !.stale = old]>>
           /\ totp = [u \in User |->
                        IF u = 1 /\ old
                        THEN [row |-> TRUE, gen |-> 1, codes |-> {1} \X Code]
                        ELSE [row |-> FALSE, gen |-> 0, codes |-> {}]]
    BY <2>1 DEF Init
  <2>4. Len(users) = 1 /\ users[1].totp = old
    BY <2>3 DEF NewUser
  <2>5. 1 \in User
    BY AccountsAssumption DEF User
  <2>6. \A u \in 1..Len(users) : users[u].totp => totp[u].row
    <3>1. old => totp[1].row
      BY <2>3, <2>5
    <3>2. \A u \in 1..Len(users) : u = 1
      BY <2>4
    <3>. QED BY <2>4, <3>1, <3>2
  <2>. QED BY <2>2, <2>6, BlankType DEF FactorOK
<1>2. TypeInv /\ RacedRecorded /\ FactorInv /\ [Next]_vars => FactorInv'
  <2>1. SUFFICES ASSUME TypeInv, RacedRecorded, FactorInv, [Next]_vars
                 PROVE  FactorInv'
    OBVIOUS
  <2>2. CASE Crossed
    <3>1. raced \subseteq raced'
      BY <2>1, Flows DEF Flow, Arrives
    <3>. QED BY <2>2, <3>1 DEF FactorInv, Crossed
  <2>3. CASE ~Crossed
    BY <2>1, <2>3, FactorStays DEF FactorInv
  <2>. QED BY <2>2, <2>3
<1>. QED BY <1>1, <1>2, TypeInvariant, RacedInvariant, PTL DEF Spec

\* At rest an account that asks for a second factor has the credential to check it with,
\* whichever requests failed or overlapped, unless a confirmation overlapped a removal
\* or a removal ended between its two statements (routes.py:802 and :803).
THEOREM SecondFactorStaysUsable == Spec => []SecondFactorUsable
<1>1. FactorInv /\ TypeInv => SecondFactorUsable
  <2>1. SUFFICES ASSUME FactorInv, TypeInv,
                        \A r \in Request : req[r].pc = "idle",
                        {"confirm", "disable"} \notin raced,
                        NEW u \in DOMAIN users, users[u].totp
                 PROVE  totp[u].row \/ u \in severed
    BY DEF SecondFactorUsable
  <2>2. u \in 1..Len(users) /\ FactorOK
    BY <2>1, Accounted DEF FactorInv, Crossed
  <2>3. ~Removing(u)
    BY <2>1 DEF Removing
  <2>. QED BY <2>1, <2>2, <2>3 DEF FactorOK
<1>. QED BY <1>1, FactorInvariant, TypeInvariant, PTL
=============================================================================
