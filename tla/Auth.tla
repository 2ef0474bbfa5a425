--------------------------------- MODULE Auth ---------------------------------
(***************************************************************************)
(* internal/auth over internal/storage/sqlite/accounts.go, behind the      *)
(* Authenticate middleware and the login and logout handlers of            *)
(* internal/httpapi, with the clean-up of the worker (expireSessions).     *)
(* Every statement is a transaction of its own; a login and a logout are   *)
(* two of them each, and anything may happen in between.                   *)
(*                                                                         *)
(* A token stands for its hash, which is all that the table holds, and an  *)
(* account for its e-mail address; passwords are right or wrong.  Times    *)
(* are counted in half seconds, the coarsest grain at which the order of   *)
(* their texts is not their own.                                           *)
(***************************************************************************)
EXTENDS Requests, FiniteSets, Integers

CONSTANTS
    Accounts, Tokens,
    SessionTTL,     \* SESSION_TTL, of Config
    RevokedKept,    \* the 24 hours of DeleteExpiredSessions
    MaxTime         \* bound: the clock stops here

ASSUME ClockAssumption ==
    /\ SessionTTL \in Nat \ {0}
    /\ {RevokedKept, MaxTime} \subseteq Nat

VARIABLES
    now,        \* the clock of the server
    granted,    \* history: what the login that made a token promised
    ended,      \* history: the tokens a logout has revoked
    swept       \* history: the tokens whose end a clean-up took for past

histories == <<granted, ended, swept>>
vars == <<storeVars, requestVars, now, histories>>

Never == -1                             \* NULL
NoSession == [account |-> "none"]
Second == 2                             \* a second, in ticks

Sessions == [account: Accounts, expires: Nat, revoked: Int]
Grants == [account: Accounts, until: Nat]

\* db: accounts.active and the rows of sessions by token.
Databases ==
    [active: [Accounts -> BOOLEAN], sessions: [Tokens -> Sessions \cup {NoSession}]]

\* The scheme of the Authorization header, as it is spelled.
Schemes == {"Bearer", "bearer", "Basic"}

LoginRequests == [op: {"login"}, account: Accounts, right: BOOLEAN]
BearerRequests == [op: {"call", "logout"}, token: Tokens, scheme: Schemes]
Points == {"idle", "begin", "checked", "admitted"}

Spent == DOMAIN granted
Stored(d) == {t \in Tokens : d.sessions[t] # NoSession}

-----------------------------------------------------------------------------
(***************************************************************************)
(* timeText writes a time with time.RFC3339Nano, which drops the zeros at  *)
(* the end of a fraction: a whole second ends in "Z", the half after it in *)
(* ".5Z", and '.' sorts before 'Z'.  SQLite compares the texts.            *)
(***************************************************************************)
TextAtMost(a, b) ==
    \/ a \div Second < b \div Second
    \/ a \div Second = b \div Second /\ (a = b \/ a % Second = 1)

-----------------------------------------------------------------------------
\* API.login and Service.Login

LoginBegin(p, r) ==
    /\ Take(p, r, "begin")
    /\ UNCHANGED <<storeVars, seen, now, histories>>

\* AccountByEmail, and the checks on the row it returned.
MayLogin(d, r) == d.active[r.account] /\ r.right

LoginRead(p) ==
    /\ pc[p] = "begin"
    /\ req[p].op = "login"
    /\ MayLogin(db, req[p])
    /\ Goto(p, "checked")
    /\ UNCHANGED <<storeVars, now, histories>>

LoginRefused(p) ==
    /\ pc[p] = "begin"
    /\ req[p].op = "login"
    /\ ~MayLogin(db, req[p])
    /\ Answer(p, "refused")
    /\ UNCHANGED <<storeVars, now, histories>>

\* Mutant: a token that is in no row is as good as new.
FreshInTable(t) == t \notin Stored(db)

\* newToken: 32 random bytes that never come twice.
Fresh(t) == t \notin Spent

\* CreateSession, without another look at the account.
LoginCreate(p) ==
    /\ pc[p] = "checked"
    /\ \E t \in Tokens, outcome \in {"ok", "failed"} :
        /\ Fresh(t)
        /\ AutoCommit([db EXCEPT !.sessions[t] =
                [account |-> req[p].account, expires |-> now + SessionTTL, revoked |-> Never]])
        /\ granted' = [s \in Spent \cup {t} |->
                IF s = t THEN [account |-> req[p].account, until |-> now + SessionTTL]
                         ELSE granted[s]]
        /\ Answer(p, outcome)
    /\ UNCHANGED <<now, ended, swept>>

-----------------------------------------------------------------------------
\* Middleware.Authenticate, before every other handler

\* EqualFold: the scheme may be spelled either way.
Bearer(r) == r.scheme \in {"Bearer", "bearer"}

\* Whoever sends a request has its token from a login, or an invalid one.
BearerBegin(p, r) ==
    /\ r.token \in Spent
    /\ Bearer(r)
    /\ Take(p, r, "begin")
    /\ UNCHANGED <<storeVars, seen, now, histories>>

BearerMissing(p, r) ==
    /\ pc[p] = "idle"
    /\ ~Bearer(r)
    /\ Answer(p, "refused")
    /\ UNCHANGED <<storeVars, now, histories>>

\* Mutant: the account was looked at by the login.
LiveUnasked(d, t) ==
    /\ d.sessions[t] # NoSession
    /\ d.sessions[t].revoked = Never
    /\ d.sessions[t].expires > now

\* ResolveSession: a row that is not revoked, its time parsed and compared, its
\* account active.
Live(d, t) ==
    /\ d.sessions[t] # NoSession
    /\ d.sessions[t].revoked = Never
    /\ d.sessions[t].expires > now
    /\ d.active[d.sessions[t].account]

Resolve(p) ==
    /\ pc[p] = "begin"
    /\ req[p].op # "login"
    /\ Live(db, req[p].token)
    /\ Goto(p, "admitted")
    /\ UNCHANGED <<storeVars, now, histories>>

ResolveRefused(p) ==
    /\ pc[p] = "begin"
    /\ req[p].op # "login"
    /\ ~Live(db, req[p].token)
    /\ Answer(p, "refused")
    /\ UNCHANGED <<storeVars, now, histories>>

\* The handler of any operation but a logout.
Handled(p) ==
    /\ pc[p] = "admitted"
    /\ req[p].op = "call"
    /\ \E outcome \in Outcomes \ {"none"} : Answer(p, outcome)
    /\ UNCHANGED <<storeVars, now, histories>>

-----------------------------------------------------------------------------
\* API.logout and Service.Logout

\* The handler takes the token from the header again, by TrimPrefix "Bearer ":
\* with any other spelling the scheme stays in front of it.
Presented(r) == IF r.scheme = "Bearer" THEN {r.token} ELSE {}

\* Mutant: the time at which the session would have ended.
RevokedAtEnd(row) == [row EXCEPT !.revoked = row.expires]

Revoked(row) == [row EXCEPT !.revoked = now]

\* RevokeSession: the row of the token, if it is not revoked.
Revocable(d, r) ==
    {t \in Presented(r) : d.sessions[t] # NoSession /\ d.sessions[t].revoked = Never}

Revoke(p) ==
    /\ pc[p] = "admitted"
    /\ req[p].op = "logout"
    /\ \E t \in Revocable(db, req[p]), outcome \in {"ok", "failed"} :
        /\ AutoCommit([db EXCEPT !.sessions[t] = Revoked(@)])
        /\ ended' = ended \cup {t}
        /\ Answer(p, outcome)
    /\ UNCHANGED <<now, granted, swept>>

\* "session is not active"
RevokeRefused(p) ==
    /\ pc[p] = "admitted"
    /\ req[p].op = "logout"
    /\ Revocable(db, req[p]) = {}
    /\ Answer(p, "refused")
    /\ UNCHANGED <<storeVars, now, histories>>

\* Any statement may fail, or the caller goes away.
Fail(p) ==
    /\ GiveUpAnywhere(p)
    /\ UNCHANGED <<now, histories>>

-----------------------------------------------------------------------------
\* Runner.expireSessions, with the time of its clock or the one of the job

\* Mutant: the day is added to the wrong side.
DoneWithEarly(row, before) ==
    \/ TextAtMost(row.expires, before + RevokedKept)
    \/ row.revoked # Never /\ TextAtMost(row.revoked, before)

DoneWith(row, before) ==
    \/ TextAtMost(row.expires, before)
    \/ row.revoked # Never /\ TextAtMost(row.revoked, before - RevokedKept)

\* DeleteExpiredSessions.  Of two texts of one second the later time may sort
\* first: an end less than a second after before may be taken for past.
Cleanup(before) ==
    /\ \E t \in Stored(db) : DoneWith(db.sessions[t], before)
    /\ AutoCommit([db EXCEPT !.sessions = [t \in Tokens |->
            IF t \in Stored(db) /\ DoneWith(@[t], before) THEN NoSession ELSE @[t]]])
    /\ swept' = swept \cup {t \in Spent : granted[t].until < before + Second}
    /\ UNCHANGED <<requestVars, now, granted, ended>>

-----------------------------------------------------------------------------
\* The environment

Crash == Die /\ UNCHANGED <<now, histories>>

\* Whoever keeps the accounts.
AccountChanges(a) ==
    /\ AutoCommit([db EXCEPT !.active[a] = ~@])
    /\ UNCHANGED <<requestVars, now, histories>>

Tick ==
    /\ now < MaxTime
    /\ now' = now + 1
    /\ UNCHANGED <<storeVars, requestVars, histories>>

-----------------------------------------------------------------------------
Init ==
    /\ InitStore([active |-> [a \in Accounts |-> TRUE],
                  sessions |-> [t \in Tokens |-> NoSession]])
    /\ InitRequests
    /\ now = 0
    /\ granted = <<>>
    /\ ended = {}
    /\ swept = {}

Step(p) ==
    \/ \E r \in LoginRequests : LoginBegin(p, r)
    \/ LoginRead(p) \/ LoginRefused(p) \/ LoginCreate(p)
    \/ \E r \in BearerRequests : BearerBegin(p, r) \/ BearerMissing(p, r)
    \/ Resolve(p) \/ ResolveRefused(p) \/ Handled(p)
    \/ Revoke(p) \/ RevokeRefused(p)
    \/ Fail(p)

\* The time of a clean-up: whatever the payload of the job says, past or to
\* come, or the clock when it says nothing.  No row outlives the last of these,
\* so that later ones do the same.
Befores == 0..(MaxTime + SessionTTL)

Environment ==
    \/ \E before \in Befores : Cleanup(before)
    \/ \E a \in Accounts : AccountChanges(a)
    \/ Crash
    \/ Tick

Next == (\E p \in Procs : Step(p)) \/ Environment

Spec == Init /\ [][Next]_vars

-----------------------------------------------------------------------------
\* Properties

\* Rows and requests keep to their domains, and no time that was written down
\* is later than it can be.
TypeOK ==
    /\ db \in Databases
    /\ staged = db /\ writer = NoProc
    /\ pc \in [Procs -> Points]
    /\ req \in [Procs -> LoginRequests \cup BearerRequests \cup {NoRequest}]
    /\ seen \in [Procs -> {NoRow}]
    /\ answer \in [Procs -> Outcomes]
    /\ now \in 0..MaxTime
    /\ granted \in [Spent -> Grants]
    /\ Spent \subseteq Tokens /\ ended \subseteq Spent /\ swept \subseteq Spent
    /\ \A t \in Stored(db) : db.sessions[t].revoked \in {Never} \cup 0..now

\* A token opens a handler only in the time that its own login promised, at a
\* step where its account is active, and never once a logout has revoked it,
\* although the login and the logout are two steps each and the row may be
\* cleaned up in between.  An account that was disabled keeps its sessions, the
\* ones made after it was disabled included: they are refused while it is
\* disabled, and open handlers again once it is enabled.  (README: sessions "are
\* invalidated when an account is disabled".)
OnlyTheEntitled ==
    [][\A p \in Procs : pc[p] = "begin" /\ pc'[p] = "admitted" =>
            LET t == req[p].token IN
            /\ t \in Spent \ ended
            /\ now < granted[t].until
            /\ db.active[granted[t].account]]_vars

\* Whoever is refused a handler was logged out, is past the end that the login
\* promised, is of an account that is disabled, or lost the session to a clean-up
\* that was told a time within a second of that end, or later.  The clean-up
\* compares texts, and may run late, twice, beside a login or with any time, but
\* it takes no other session.
RefusedForCause ==
    [][\A p \in Procs :
            pc[p] = "begin" /\ req[p] \in BearerRequests /\ pc'[p] = "idle" /\ answer'[p] = "refused" =>
            LET t == req[p].token IN
            \/ t \in ended \cup swept
            \/ now >= granted[t].until
            \/ ~db.active[granted[t].account]]_vars

\* accounts.go:74 answers a logout with "session is not active": whoever is told
\* so has no active session.
InactiveWhenRefused ==
    [][\A p \in Procs : pc[p] = "admitted" /\ req[p].op = "logout" /\ answer'[p] = "refused" =>
            ~Live(db, req[p].token)]_vars

-----------------------------------------------------------------------------
\* The inductive invariant behind OnlyTheEntitled and RefusedForCause

\* A request that has begun is of the kind that its point belongs to, and its
\* token is one that a login has made.
Asked ==
    \A p \in Procs :
        /\ pc[p] = "begin" => req[p] \in LoginRequests \cup BearerRequests
        /\ pc[p] = "begin" /\ req[p] \in BearerRequests => req[p].token \in Spent
        /\ pc[p] = "checked" => req[p] \in LoginRequests
        /\ pc[p] = "admitted" => req[p] \in BearerRequests

\* Every row is the one that the login of its token made, but for revoked_at,
\* which tells the logout; an older row of the same token there never was.
AsGranted ==
    \A t \in Stored(db) :
        /\ t \in Spent
        /\ db.sessions[t].account = granted[t].account
        /\ db.sessions[t].expires = granted[t].until
        /\ db.sessions[t].revoked = Never <=> t \notin ended

\* The row of a token is there unless the logout or the time of a clean-up has
\* come to it.
KeptUntilSwept ==
    \A t \in Spent : t \in Stored(db) \cup ended \cup swept

\* Rows, answers and requests fit together: a row of sessions is the one its
\* login made until DeleteExpiredSessions takes it, and a request goes on to
\* a handler only with what Authenticate has found.
Inductive ==
    /\ TypeOK
    /\ Asked
    /\ AsGranted
    /\ KeptUntilSwept
=============================================================================
