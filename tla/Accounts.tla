------------------------------ MODULE Accounts ------------------------------
(***************************************************************************)
(* Merchants and their sessions, kept by both services in the same two     *)
(* tables: registration, login, session refresh, logout and the            *)
(* purge-sessions cron.  Each person has one browser, which does one thing *)
(* at a time; people overlap.  A registration looks for the email, then    *)
(* (Rust only) for the wallet keys, and inserts in a later statement.      *)
(***************************************************************************)
EXTENDS LoginRateLimit

CONSTANTS
  Person,
  WalletKeys,           \* the two keys a registration may name, as sets
  Service,              \* those that are up
  Session,              \* ids of rows of sessions, in the order they are made
  Lifetime,             \* 30 days
  Leeway,               \* by which Rust's JWT check lets exp be past (60 s)
  MaxTime,              \* bound: the clock stops here
  Nobody, NoToken, NoRow, Deleted

Row == [owner : Email, expires : Nat]
Token == [sid : Session, owner : Email, exp : Nat]

ASSUME AccountsAssumption ==
  /\ Session \subseteq Nat
  /\ Lifetime \in Nat \ {0} /\ Leeway \in Nat
  /\ Service \subseteq {"rust", "next"} /\ {} \notin WalletKeys
  /\ Nobody \notin Person /\ NoToken \notin Token
  /\ NoRow \notin Row /\ Deleted \notin Row /\ NoRow # Deleted

VARIABLES
  merchants,            \* by email: who registered it, with which keys
  sessions,             \* rows of sessions
  client,               \* what each person's request is at
  cookie                \* the session cookie each browser holds

accountVars == <<merchants, sessions, client, cookie>>
accountsVars == <<now, limiterVars, accountVars>>

Request == [pc : {"keys", "insert", "register", "password", "login"},
            via : Service, email : Email, keys : WalletKeys \cup {{}}]
Idle == [pc |-> "idle"]
NoMerchant == [who |-> Nobody, keys |-> {}]

AccountsTypeOK ==
  /\ LimiterTypeOK
  /\ merchants \in [Email ->
       [who : Person, keys : WalletKeys] \cup {NoMerchant}]
  /\ sessions \in [Session -> Row \cup {NoRow, Deleted}]
  /\ client \in [Person -> Request \cup {Idle}]
  /\ cookie \in [Person -> Token \cup {NoToken}]

AccountsInit ==
  /\ LimiterStart
  /\ merchants = [e \in Email |-> NoMerchant]
  /\ sessions = [s \in Session |-> NoRow]
  /\ client = [p \in Person |-> Idle]
  /\ cookie = [p \in Person |-> NoToken]

-----------------------------------------------------------------------------
Registered(e) == merchants[e] # NoMerchant
Live(s) == sessions[s] \in Row /\ sessions[s].expires > now
Unexpired(token, svc) ==
  token.exp + (IF svc = "rust" THEN Leeway ELSE 0) >= now

\* current_merchant, getCurrentMerchant: the signed cookie names a row of its owner
\* that has not expired.
CurrentMerchant(token, svc) ==
  /\ token # NoToken
  /\ Unexpired(token, svc)
  /\ Live(token.sid) /\ sessions[token.sid].owner = token.owner

Goto(p, pc) == client' = [client EXCEPT ![p] = [@ EXCEPT !.pc = pc]]
Answer(p) == client' = [client EXCEPT ![p] = Idle]

\* wallet_keys_conflict_with_existing
KeysTaken(keys) == \E e \in Email : merchants[e].keys \cap keys # {}

\* POST /api/auth/register with a valid payload for an email nobody has; any other
\* is answered 400 or 409 at once.
StartRegister(p, svc, e, keys) ==
  /\ client[p] = Idle
  /\ ~Registered(e)
  /\ client' = [client EXCEPT ![p] =
       [pc |-> IF svc = "rust" THEN "keys" ELSE "insert",
        via |-> svc, email |-> e, keys |-> keys]]
  /\ UNCHANGED <<now, limiterVars, merchants, sessions, cookie>>

\* The second lookup of the Rust service; taken keys are answered 409.
CheckKeys(p) ==
  /\ client[p].pc = "keys"
  /\ IF KeysTaken(client[p].keys) THEN Answer(p) ELSE Goto(p, "insert")
  /\ UNCHANGED <<now, limiterVars, merchants, sessions, cookie>>

\* A bug this could have: INSERT ... ON CONFLICT (email) DO NOTHING.
InsertMerchant_DoNothing(p) ==
  /\ client[p].pc = "insert"
  /\ merchants' = [merchants EXCEPT ![client[p].email] =
       IF @ = NoMerchant THEN [who |-> p, keys |-> client[p].keys] ELSE @]
  /\ Goto(p, "register")
  /\ UNCHANGED <<now, limiterVars, sessions, cookie>>

\* email is UNIQUE: of two registrations that both found it free, the later INSERT
\* fails and is answered 500.
InsertMerchant(p) ==
  LET e == client[p].email IN
  /\ client[p].pc = "insert"
  /\ IF Registered(e)
     THEN Answer(p) /\ UNCHANGED merchants
     ELSE /\ merchants' = [merchants EXCEPT ![e] =
               [who |-> p, keys |-> client[p].keys]]
          /\ Goto(p, "register")
  /\ UNCHANGED <<now, limiterVars, sessions, cookie>>

\* A request ends anywhere, unanswered.
RequestDies(p) ==
  /\ client[p] # Idle
  /\ Answer(p)
  /\ UNCHANGED <<now, limiterVars, merchants, sessions, cookie>>

\* create_session: the next row, and a token for it, valid for Lifetime both.
OpenSession(p, s, e) ==
  /\ sessions[s] = NoRow
  /\ \A r \in Session : r < s => sessions[r] # NoRow
  /\ sessions' = [sessions EXCEPT ![s] = [owner |-> e, expires |-> now + Lifetime]]
  /\ \/ cookie' = [cookie EXCEPT ![p] =
                     [sid |-> s, owner |-> e, exp |-> now + Lifetime]]
     \/ UNCHANGED cookie        \* the answer is lost
  /\ Answer(p)
  /\ UNCHANGED <<now, merchants>>

FinishRegister(p, s) ==
  /\ client[p].pc = "register"
  /\ OpenSession(p, s, client[p].email)
  /\ UNCHANGED limiterVars

\* POST /api/auth/login with a valid payload: Rust counts the attempt first.
StartLogin(p, svc, e, a) ==
  /\ client[p] = Idle
  /\ \/ /\ svc = "rust" => AdmitIp(a)
        /\ svc = "next" => UNCHANGED limiterVars
        /\ client' = [client EXCEPT ![p] =
             [pc |-> "password", via |-> svc, email |-> e, keys |-> {}]]
     \/ /\ svc = "rust"
        /\ RejectIp(a)
        /\ UNCHANGED client
  /\ UNCHANGED <<now, merchants, sessions, cookie>>

\* Looking the merchant up and verifying the password.  Who registered the email
\* knows it, and may mistype it; a Rust failure is counted before it is answered.
CheckPassword(p) ==
  LET c == client[p] IN
  /\ c.pc = "password"
  /\ \/ /\ merchants[c.email].who = p
        /\ Goto(p, "login")
        /\ UNCHANGED limiterVars
     \/ /\ Answer(p)
        /\ IF c.via = "rust" THEN RecordEmailFailure(c.email) ELSE UNCHANGED limiterVars
  /\ UNCHANGED <<now, merchants, sessions, cookie>>

\* The session is inserted, then the failures of the email are forgotten (Rust).
FinishLogin(p, s) ==
  LET c == client[p] IN
  /\ c.pc = "login"
  /\ OpenSession(p, s, c.email)
  /\ IF c.via = "rust" THEN ClearEmailFailures(c.email) ELSE UNCHANGED limiterVars

\* A bug this could have: a fresh token without the UPDATE.
RefreshSession_TokenOnly(p) ==
  LET t == cookie[p] IN
  /\ client[p] = Idle
  /\ CurrentMerchant(t, "rust")
  /\ cookie' = [cookie EXCEPT ![p] = [t EXCEPT !.exp = now + Lifetime]]
  /\ UNCHANGED <<now, limiterVars, merchants, client, sessions>>

\* POST /api/auth/refresh (Rust): one UPDATE extends the row, if it is live, and a
\* fresh token replaces the cookie, if the answer arrives.
RefreshSession(p) ==
  LET t == cookie[p] IN
  /\ client[p] = Idle
  /\ CurrentMerchant(t, "rust")
  /\ sessions' = [sessions EXCEPT ![t.sid].expires = now + Lifetime]
  /\ \/ cookie' = [cookie EXCEPT ![p] = [t EXCEPT !.exp = now + Lifetime]]
     \/ UNCHANGED cookie
  /\ UNCHANGED <<now, limiterVars, merchants, client>>

\* POST /api/auth/logout, both services: the browser is told to drop the cookie.
Logout(p) ==
  /\ client[p] = Idle
  /\ cookie[p] # NoToken
  /\ cookie' = [cookie EXCEPT ![p] = NoToken]
  /\ UNCHANGED <<now, limiterVars, merchants, sessions, client>>

\* A bug this could have: purged rows are overwritten, not deleted.
PurgeSessions_Overwrites ==
  /\ \E s \in Session : sessions[s] \in Row /\ sessions[s].expires < now
  /\ sessions' = [s \in Session |->
       IF sessions[s] \in Row /\ sessions[s].expires < now THEN Nobody ELSE sessions[s]]
  /\ UNCHANGED <<now, limiterVars, merchants, client, cookie>>

\* GET /api/cron/purge-sessions: DELETE ... WHERE expires_at < NOW()
PurgeSessions ==
  /\ \E s \in Session : sessions[s] \in Row /\ sessions[s].expires < now
  /\ sessions' = [s \in Session |->
       IF sessions[s] \in Row /\ sessions[s].expires < now THEN Deleted ELSE sessions[s]]
  /\ UNCHANGED <<now, limiterVars, merchants, client, cookie>>

Tick ==
  /\ now < MaxTime
  /\ now' = now + 1
  /\ UNCHANGED <<limiterVars, accountVars>>

AccountsNext ==
  \/ \E p \in Person :
       \/ \E svc \in Service, e \in Email :
            \/ \E keys \in WalletKeys : StartRegister(p, svc, e, keys)
            \/ \E a \in Ip : StartLogin(p, svc, e, a)
       \/ CheckKeys(p) \/ InsertMerchant(p) \/ CheckPassword(p) \/ RequestDies(p)
       \/ \E s \in Session : FinishRegister(p, s) \/ FinishLogin(p, s)
       \/ RefreshSession(p) \/ Logout(p)
  \/ PurgeSessions
  \/ Tick

AccountsSpec == AccountsInit /\ [][AccountsNext]_accountsVars

-----------------------------------------------------------------------------
\* Whoever holds a cookie for an account is the one who registered it: of two
\* registrations that race for an email, the one that loses gets no session.
CookieIsOwn ==
  \A p \in Person :
    cookie[p] # NoToken =>
      /\ merchants[cookie[p].owner].who = p
      /\ sessions[cookie[p].sid] \in Row =>
           sessions[cookie[p].sid].owner = cookie[p].owner

\* A browser whose cookie has not expired is logged in, at both services: no
\* purge, refresh or logout elsewhere ends its session before the token says so.
CookieIsGood ==
  \A p \in Person, svc \in {"rust", "next"} :
    cookie[p] # NoToken /\ cookie[p].exp > now => CurrentMerchant(cookie[p], svc)

\* Why they hold: a request past its INSERT or its password check is the registrant's
\* own, no row outlives Lifetime, and a cookie names a row that was made with it and
\* is purged after it.
RegistrantActs ==
  \A p \in Person :
    /\ client[p].pc \in {"keys", "insert"} => client[p].keys \in WalletKeys
    /\ client[p].pc \in {"register", "login"} => merchants[client[p].email].who = p

RowsLiveLifetime ==
  \A s \in Session : sessions[s] \in Row => sessions[s].expires <= now + Lifetime

CookieNamesRow ==
  \A p \in Person :
    LET t == cookie[p] IN
    t # NoToken =>
      /\ merchants[t.owner].who = p
      /\ sessions[t.sid] # NoRow
      /\ sessions[t.sid] = Deleted => t.exp < now
      /\ sessions[t.sid] \in Row =>
           sessions[t.sid].owner = t.owner /\ t.exp <= sessions[t.sid].expires

AccountsInv ==
  AccountsTypeOK /\ LimiterInv /\ RegistrantActs /\ RowsLiveLifetime /\ CookieNamesRow

\* The first registration of an email stands, whatever other registrations do.
FirstRegistrationStands ==
  [][\A e \in Email : Registered(e) => merchants'[e] = merchants[e]]_accountsVars

\* A session that has expired is never extended: it stays dead, purged or not.
ExpiredStaysExpired ==
  [][\A s \in Session :
       sessions[s] \in Row /\ ~Live(s) => ~Live(s)' ]_accountsVars

\* The rule of the registration handler: no key of one merchant is a key of another.
KeysAreUnshared ==
  \A e, f \in Email : e # f => merchants[e].keys \cap merchants[f].keys = {}

\* Logging out ends the session the cookie named, not only the cookie.
LogoutEndsSession ==
  [][\A p \in Person :
       cookie[p] # NoToken /\ cookie'[p] = NoToken =>
         sessions'[cookie[p].sid] \notin Row]_accountsVars
=============================================================================
