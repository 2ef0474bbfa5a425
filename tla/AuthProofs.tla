------------------------------ MODULE AuthProofs ------------------------------
(***************************************************************************)
(* For every set of requests, accounts and tokens, and any times: a token  *)
(* opens what its login promised, and whoever is refused was logged out,   *)
(* is late, is of a disabled account or was reached by a clean-up.         *)
(***************************************************************************)
EXTENDS Auth, TLAPS

\* A time whose text is not after another's is less than a second after it.
LEMMA TextOrder ==
    ASSUME NEW a \in Nat, NEW b \in Nat, TextAtMost(a, b)
    PROVE  a < b + Second
BY DEF TextAtMost, Second

\* A row is told from no row by the columns it has.
LEMMA RowIsStored ==
    \A row \in Sessions : row # NoSession
<1> SUFFICES ASSUME NEW row \in Sessions, row = NoSession PROVE FALSE
  OBVIOUS
<1>1. DOMAIN row = {"account", "expires", "revoked"}
  BY DEF Sessions
<1>2. DOMAIN row = {"account"}
  BY DEF NoSession
<1> QED BY <1>1, <1>2

LEMMA StoredRows ==
    ASSUME Inductive, NEW t \in Stored(db)
    PROVE  t \in Tokens /\ db.sessions[t] \in Sessions
BY DEF Inductive, TypeOK, Databases, Stored

-----------------------------------------------------------------------------
\* The steps

\* A step that touches no table and no clock has only the request to account for.
LEMMA RequestStep ==
    ASSUME Inductive, UNCHANGED <<db, staged, writer, now, histories>>,
           pc' \in [Procs -> Points],
           req' \in [Procs -> LoginRequests \cup BearerRequests \cup {NoRequest}],
           seen' \in [Procs -> {NoRow}], answer' \in [Procs -> Outcomes],
           Asked'
    PROVE  Inductive'
<1> USE DEF Inductive, histories
<1>1. TypeOK'
  BY DEF TypeOK, Stored, Spent
<1>2. AsGranted' /\ KeptUntilSwept'
  BY DEF AsGranted, KeptUntilSwept, Stored, Spent
<1> QED BY <1>1, <1>2

LEMMA QuietStep ==
    ASSUME Inductive, NEW p \in Procs,
           \/ \E r \in LoginRequests : LoginBegin(p, r)
           \/ LoginRead(p) \/ LoginRefused(p)
           \/ \E r \in BearerRequests : BearerBegin(p, r) \/ BearerMissing(p, r)
           \/ Resolve(p) \/ ResolveRefused(p) \/ Handled(p)
           \/ RevokeRefused(p) \/ Fail(p)
    PROVE  Inductive'
<1> USE DEF Inductive
<1>1. CASE \/ \E r \in LoginRequests : LoginBegin(p, r)
           \/ \E r \in BearerRequests : BearerBegin(p, r)
  <2>1. PICK r \in LoginRequests \cup BearerRequests :
            Take(p, r, "begin") /\ UNCHANGED <<storeVars, seen, now, histories>>
    BY <1>1 DEF LoginBegin, BearerBegin
  <2>2. r \in BearerRequests => r.token \in Spent
    BY <1>1, <2>1 DEF LoginBegin, BearerBegin, Take, TypeOK, LoginRequests, BearerRequests
  <2>3. Asked'
    BY <2>1, <2>2 DEF Take, Asked, TypeOK, Spent, histories
  <2> QED BY <2>1, <2>3, RequestStep DEF Take, TypeOK, Points, Outcomes, storeVars
<1>2. CASE LoginRead(p)
  <2>1. req[p] \in LoginRequests
    BY <1>2 DEF LoginRead, Asked, BearerRequests
  <2>2. Asked'
    BY <1>2, <2>1 DEF LoginRead, Goto, Asked, TypeOK, Spent, histories
  <2> QED BY <1>2, <2>2, RequestStep DEF LoginRead, Goto, TypeOK, Points, storeVars
<1>3. CASE Resolve(p)
  <2>1. req[p] \in BearerRequests
    BY <1>3 DEF Resolve, Asked, LoginRequests
  <2>2. Asked'
    BY <1>3, <2>1 DEF Resolve, Goto, Asked, TypeOK, Spent, histories
  <2> QED BY <1>3, <2>2, RequestStep DEF Resolve, Goto, TypeOK, Points, storeVars
<1>4. CASE \/ LoginRefused(p) \/ ResolveRefused(p) \/ Handled(p) \/ RevokeRefused(p) \/ Fail(p)
           \/ \E r \in BearerRequests : BearerMissing(p, r)
  <2>1. PICK how \in Outcomes : Answer(p, how) /\ UNCHANGED <<db, staged, writer, now, histories>>
    BY <1>4 DEF LoginRefused, ResolveRefused, Handled, RevokeRefused, Fail, BearerMissing,
                GiveUpAnywhere, GiveUp, Rollback, Outcomes, storeVars, TypeOK
  <2>2. Asked'
    BY <2>1 DEF Answer, Asked, TypeOK, Spent, histories
  <2> QED BY <2>1, <2>2, RequestStep DEF Answer, TypeOK, Points
<1> QED BY <1>1, <1>2, <1>3, <1>4

\* A new row under a new token.
LEMMA LoginCreateStep ==
    ASSUME Inductive, NEW p \in Procs, LoginCreate(p)
    PROVE  Inductive'
<1> USE DEF Inductive
<1>1. PICK t \in Tokens, how \in {"ok", "failed"} :
        /\ Fresh(t)
        /\ AutoCommit([db EXCEPT !.sessions[t] =
                [account |-> req[p].account, expires |-> now + SessionTTL, revoked |-> Never]])
        /\ granted' = [s \in Spent \cup {t} |->
                IF s = t THEN [account |-> req[p].account, until |-> now + SessionTTL]
                         ELSE granted[s]]
        /\ Answer(p, how)
  BY DEF LoginCreate
<1> DEFINE row == [account |-> req[p].account, expires |-> now + SessionTTL, revoked |-> Never]
           grant == [account |-> req[p].account, until |-> now + SessionTTL]
<1>2. /\ pc[p] = "checked" /\ req[p].account \in Accounts
      /\ now \in Nat /\ now + SessionTTL \in Nat
  BY ClockAssumption DEF LoginCreate, Asked, LoginRequests, TypeOK
<1>3. row \in Sessions /\ grant \in Grants /\ row # NoSession
  BY <1>2, RowIsStored DEF Sessions, Grants, Never
<1>4. /\ db' \in Databases /\ db'.sessions[t] = row
      /\ \A s \in Tokens \ {t} : db'.sessions[s] = db.sessions[s]
      /\ staged' = db' /\ writer' = NoProc
  BY <1>1, <1>3 DEF AutoCommit, Databases, TypeOK
<1>5. /\ Spent' = Spent \cup {t} /\ t \notin Spent /\ t \notin ended
      /\ granted'[t] = grant
      /\ \A s \in Spent : granted'[s] = granted[s]
      /\ now' = now /\ ended' = ended /\ swept' = swept
  BY <1>1 DEF Spent, Fresh, TypeOK, LoginCreate
<1> HIDE DEF row, grant
<1>6. Stored(db)' = Stored(db) \cup {t}
  BY <1>3, <1>4 DEF Stored
<1>7. TypeOK'
  <2>1. granted' \in [Spent' -> Grants]
    <3>1. granted' = [s \in Spent \cup {t} |-> granted'[s]]
      BY <1>1
    <3>2. \A s \in Spent \cup {t} : granted'[s] \in Grants
      BY <1>3, <1>5 DEF TypeOK
    <3> QED BY <1>5, <3>1, <3>2
  <2>2. \A s \in Stored(db)' : db'.sessions[s].revoked \in {Never} \cup 0..now'
    BY <1>4, <1>5, <1>6 DEF TypeOK, Stored, row
  <2>3. /\ pc' \in [Procs -> Points]
        /\ req' \in [Procs -> LoginRequests \cup BearerRequests \cup {NoRequest}]
        /\ seen' \in [Procs -> {NoRow}] /\ answer' \in [Procs -> Outcomes]
    BY <1>1 DEF Answer, TypeOK, Points, Outcomes
  <2> QED BY <1>4, <1>5, <2>1, <2>2, <2>3 DEF TypeOK
<1>8. Asked'
  BY <1>1, <1>5 DEF Answer, Asked, TypeOK
<1>9. AsGranted'
  <2> SUFFICES ASSUME NEW s \in Stored(db)'
               PROVE  /\ s \in Spent'
                      /\ db'.sessions[s].account = granted'[s].account
                      /\ db'.sessions[s].expires = granted'[s].until
                      /\ db'.sessions[s].revoked = Never <=> s \notin ended'
    BY DEF AsGranted
  <2>1. CASE s = t
    BY <1>4, <1>5, <2>1 DEF row, grant
  <2>2. CASE s # t
    BY <1>4, <1>5, <1>6, <2>2 DEF AsGranted, Stored
  <2> QED BY <2>1, <2>2
<1>10. KeptUntilSwept'
  BY <1>5, <1>6 DEF KeptUntilSwept
<1> QED BY <1>7, <1>8, <1>9, <1>10

LEMMA RevokeStep ==
    ASSUME Inductive, NEW p \in Procs, Revoke(p)
    PROVE  Inductive'
<1> USE DEF Inductive
<1>1. PICK t \in Revocable(db, req[p]), how \in {"ok", "failed"} :
        /\ AutoCommit([db EXCEPT !.sessions[t] = Revoked(db.sessions[t])])
        /\ ended' = ended \cup {t}
        /\ Answer(p, how)
  BY DEF Revoke
<1>2. /\ t \in Stored(db) /\ t \in Tokens /\ t \in Spent /\ db.sessions[t] \in Sessions
      /\ now \in 0..MaxTime /\ now \in Nat
  BY ClockAssumption, StoredRows DEF Revocable, Presented, Stored, TypeOK, AsGranted, Revoke, Asked, BearerRequests
<1>3. /\ Revoked(db.sessions[t]) \in Sessions
      /\ Revoked(db.sessions[t]).account = db.sessions[t].account
      /\ Revoked(db.sessions[t]).expires = db.sessions[t].expires
      /\ Revoked(db.sessions[t]).revoked = now
  BY <1>2 DEF Revoked, Sessions
<1>4. /\ db' \in Databases /\ db'.sessions[t] = Revoked(db.sessions[t])
      /\ \A s \in Tokens \ {t} : db'.sessions[s] = db.sessions[s]
      /\ staged' = db' /\ writer' = NoProc /\ now' = now /\ granted' = granted
      /\ swept' = swept
  BY <1>1, <1>2, <1>3 DEF AutoCommit, Databases, TypeOK, Revoke
<1>5. Stored(db)' = Stored(db)
  BY <1>2, <1>3, <1>4, RowIsStored DEF Stored
<1>6. TypeOK'
  <2>1. \A s \in Stored(db)' : db'.sessions[s].revoked \in {Never} \cup 0..now'
    BY <1>2, <1>3, <1>4, <1>5 DEF TypeOK, Stored
  <2>2. /\ pc' \in [Procs -> Points]
        /\ req' \in [Procs -> LoginRequests \cup BearerRequests \cup {NoRequest}]
        /\ seen' \in [Procs -> {NoRow}] /\ answer' \in [Procs -> Outcomes]
    BY <1>1 DEF Answer, TypeOK, Points, Outcomes
  <2> QED BY <1>1, <1>2, <1>4, <2>1, <2>2 DEF TypeOK, Spent
<1>7. Asked'
  BY <1>1, <1>4 DEF Answer, Asked, TypeOK, Spent
<1>8. AsGranted'
  <2> SUFFICES ASSUME NEW s \in Stored(db)
               PROVE  /\ s \in Spent
                      /\ db'.sessions[s].account = granted[s].account
                      /\ db'.sessions[s].expires = granted[s].until
                      /\ db'.sessions[s].revoked = Never <=> s \notin ended'
    BY <1>4, <1>5 DEF AsGranted, Spent
  <2>1. CASE s = t
    BY <1>1, <1>2, <1>3, <1>4, <2>1 DEF AsGranted, Never
  <2>2. CASE s # t
    BY <1>1, <1>4, <2>2 DEF AsGranted, Stored
  <2> QED BY <2>1, <2>2
<1>9. KeptUntilSwept'
  BY <1>1, <1>4, <1>5 DEF KeptUntilSwept, Spent
<1> QED BY <1>6, <1>7, <1>8, <1>9

\* The clean-up takes rows away that were logged out or end less than a second
\* after the time it is told, whichever that is.
LEMMA CleanupStep ==
    ASSUME Inductive, NEW before \in Nat, Cleanup(before)
    PROVE  Inductive'
<1> USE DEF Inductive
<1>1. /\ db' = [db EXCEPT !.sessions = [t \in Tokens |->
                    IF t \in Stored(db) /\ DoneWith(db.sessions[t], before)
                    THEN NoSession ELSE db.sessions[t]]]
      /\ staged' = db' /\ writer' = NoProc
      /\ swept' = swept \cup {t \in Spent : granted[t].until < before + Second}
      /\ UNCHANGED <<pc, req, seen, answer, now, granted, ended>>
  BY DEF Cleanup, AutoCommit, TypeOK, requestVars
<1>2. /\ db' \in Databases
      /\ \A t \in Tokens : db'.sessions[t] =
            IF t \in Stored(db) /\ DoneWith(db.sessions[t], before)
            THEN NoSession ELSE db.sessions[t]
  BY <1>1 DEF Databases, TypeOK
<1>3. /\ Stored(db)' \subseteq Stored(db)
      /\ \A t \in Stored(db)' : db'.sessions[t] = db.sessions[t]
      /\ \A t \in Stored(db) \ Stored(db)' : DoneWith(db.sessions[t], before)
  BY <1>2 DEF Stored
<1>4. TypeOK'
  BY <1>1, <1>2, <1>3 DEF TypeOK, Spent
<1>5. Asked' /\ AsGranted'
  BY <1>1, <1>3 DEF Asked, AsGranted, Spent
<1>6. KeptUntilSwept'
  <2> SUFFICES ASSUME NEW t \in Spent, t \in Stored(db), t \notin Stored(db)', t \notin ended
               PROVE  granted[t].until < before + Second
    BY <1>1 DEF KeptUntilSwept, Spent
  <2>1. DoneWith(db.sessions[t], before)
    BY <1>3
  <2>2. /\ db.sessions[t].expires = granted[t].until /\ granted[t].until \in Nat
        /\ db.sessions[t].revoked = Never
    BY DEF AsGranted, TypeOK, Grants
  <2>3. TextAtMost(granted[t].until, before)
    BY <2>1, <2>2 DEF DoneWith
  <2> QED BY <2>2, <2>3, TextOrder
<1> QED BY <1>4, <1>5, <1>6

LEMMA WorldStep ==
    ASSUME Inductive, (\E a \in Accounts : AccountChanges(a)) \/ Crash \/ Tick
    PROVE  Inductive'
<1> USE DEF Inductive
<1>1. CASE \E a \in Accounts : AccountChanges(a)
  <2>1. PICK a \in Accounts : AccountChanges(a)
    BY <1>1
  <2>2. /\ db' \in Databases /\ db'.sessions = db.sessions
        /\ staged' = db' /\ writer' = NoProc
        /\ UNCHANGED <<pc, req, seen, answer, now, histories>>
    BY <2>1 DEF AccountChanges, AutoCommit, Databases, TypeOK, requestVars
  <2> QED BY <2>2 DEF TypeOK, Asked, AsGranted, KeptUntilSwept, Stored, Spent, histories
<1>2. CASE Crash
  <2>1. /\ UNCHANGED <<db, now, histories>> /\ staged' = db /\ writer' = NoProc
        /\ \A p \in Procs : pc'[p] = "idle"
    BY <1>2 DEF Crash, Die, LoseTransactions
  <2>2. TypeOK'
    BY <1>2, <2>1 DEF Crash, Die, TypeOK, Points, Outcomes, Stored, Spent, histories
  <2> QED BY <2>1, <2>2 DEF Asked, AsGranted, KeptUntilSwept, Stored, Spent, histories
<1>3. CASE Tick
  <2>1. /\ UNCHANGED <<db, staged, writer, pc, req, seen, answer, histories>>
        /\ now' = now + 1 /\ now' \in 0..MaxTime /\ now \in Nat
    BY <1>3, ClockAssumption DEF Tick, TypeOK, storeVars, requestVars
  <2>2. TypeOK'
    BY <2>1, StoredRows DEF TypeOK, Stored, Spent, histories
  <2> QED BY <2>1, <2>2 DEF Asked, AsGranted, KeptUntilSwept, Stored, Spent, histories
<1> QED BY <1>1, <1>2, <1>3

-----------------------------------------------------------------------------
\* The invariant

LEMMA InitInductive == Init => Inductive
<1> SUFFICES ASSUME Init PROVE Inductive
  OBVIOUS
<1>1. /\ db = [active |-> [a \in Accounts |-> TRUE], sessions |-> [t \in Tokens |-> NoSession]]
      /\ staged = db /\ writer = NoProc /\ \A p \in Procs : pc[p] = "idle"
      /\ now = 0 /\ granted = <<>> /\ ended = {} /\ swept = {}
  BY DEF Init, InitStore, InitRequests
<1>2. Stored(db) = {} /\ Spent = {} /\ db \in Databases
  BY <1>1 DEF Stored, Spent, Databases
<1>3. granted \in [Spent -> Grants]
  BY <1>1, <1>2
<1>4. TypeOK
  <2>1. /\ pc \in [Procs -> Points] /\ seen \in [Procs -> {NoRow}]
        /\ answer \in [Procs -> Outcomes]
    BY DEF Init, InitRequests, Points, Outcomes
  <2>2. req \in [Procs -> LoginRequests \cup BearerRequests \cup {NoRequest}]
    BY DEF Init, InitRequests
  <2>3. now \in 0..MaxTime
    BY <1>1, ClockAssumption
  <2> QED BY <1>1, <1>2, <1>3, <2>1, <2>2, <2>3 DEF TypeOK
<1> QED BY <1>1, <1>2, <1>4 DEF Inductive, Asked, AsGranted, KeptUntilSwept

LEMMA NextInductive == Inductive /\ [Next]_vars => Inductive'
<1> SUFFICES ASSUME Inductive, [Next]_vars PROVE Inductive'
  OBVIOUS
<1>1. ASSUME NEW p \in Procs, Step(p) PROVE Inductive'
  BY <1>1, QuietStep, LoginCreateStep, RevokeStep DEF Step
<1>2. CASE Environment
  BY <1>2, CleanupStep, WorldStep, ClockAssumption DEF Environment, Befores
<1>3. CASE UNCHANGED vars
  BY <1>3 DEF vars, storeVars, requestVars, histories, Inductive, TypeOK, Asked, AsGranted,
              KeptUntilSwept, Stored, Spent
<1> QED BY <1>1, <1>2, <1>3 DEF Next

-----------------------------------------------------------------------------
\* Every row is what its login made it, less what a logout or the clean-up took.
THEOREM InductiveInvariant == Spec => []Inductive
BY InitInductive, NextInductive, PTL DEF Spec

\* The variables keep to their domains.
THEOREM TypeCorrect == Spec => []TypeOK
<1>1. Inductive => TypeOK
  BY DEF Inductive
<1> QED BY <1>1, InductiveInvariant, PTL

\* The handler is entered by Resolve alone.
LEMMA AdmittedByResolve ==
    ASSUME Inductive, NEW q \in Procs, Step(q),
           NEW p \in Procs, pc[p] = "begin", pc'[p] = "admitted"
    PROVE  Resolve(p)
<1>1. pc \in [Procs -> Points]
  BY DEF Inductive, TypeOK
<1>2. q = p
  BY <1>1 DEF Step, LoginBegin, LoginRead, LoginRefused, LoginCreate, BearerBegin, BearerMissing,
              Resolve, ResolveRefused, Handled, Revoke, RevokeRefused, Fail,
              GiveUpAnywhere, GiveUp, Take, Goto, Answer
<1> QED BY <1>1, <1>2
        DEF Step, LoginBegin, LoginRead, LoginRefused, LoginCreate, BearerBegin, BearerMissing,
            ResolveRefused, Handled, Revoke, RevokeRefused, Fail,
            GiveUpAnywhere, GiveUp, Take, Goto, Answer

\* A request is let in by a token that a login made, in its time and before its
\* logout, for an account that is active.
THEOREM EntitledOnly == Spec => OnlyTheEntitled
<1>1. Inductive /\ [Next]_vars =>
        [\A p \in Procs : pc[p] = "begin" /\ pc'[p] = "admitted" =>
            LET t == req[p].token IN
            /\ t \in Spent \ ended
            /\ now < granted[t].until
            /\ db.active[granted[t].account]]_vars
  <2> SUFFICES ASSUME Inductive, Next, NEW p \in Procs, pc[p] = "begin", pc'[p] = "admitted"
               PROVE  /\ req[p].token \in Spent \ ended
                      /\ now < granted[req[p].token].until
                      /\ db.active[granted[req[p].token].account]
    OBVIOUS
  <2>1. CASE Environment
    BY <2>1 DEF Environment, Cleanup, AccountChanges, Crash, Die, Tick, requestVars
  <2>2. CASE \E q \in Procs : Step(q)
    <3>1. Resolve(p)
      BY <2>2, AdmittedByResolve
    <3>2. req[p].token \in Stored(db) /\ Live(db, req[p].token)
      BY <3>1 DEF Resolve, Live, Stored, Inductive, Asked, LoginRequests, BearerRequests
    <3> QED BY <3>2, StoredRows DEF Live, Inductive, AsGranted, Sessions
  <2> QED BY <2>1, <2>2 DEF Next
<1> QED BY <1>1, InductiveInvariant, PTL DEF Spec, OnlyTheEntitled

\* The callers of a token are refused by ResolveRefused alone.
LEMMA RefusedByResolve ==
    ASSUME Inductive, NEW q \in Procs, Step(q), NEW p \in Procs,
           pc[p] = "begin", req[p] \in BearerRequests, pc'[p] = "idle", answer'[p] = "refused"
    PROVE  ResolveRefused(p)
<1>1. pc \in [Procs -> Points] /\ answer \in [Procs -> Outcomes] /\ req[p].op # "login"
  BY DEF Inductive, TypeOK, BearerRequests
<1>2. q = p
  BY <1>1 DEF Step, LoginBegin, LoginRead, LoginRefused, LoginCreate, BearerBegin, BearerMissing,
              Resolve, ResolveRefused, Handled, Revoke, RevokeRefused, Fail,
              GiveUpAnywhere, GiveUp, Take, Goto, Answer
<1> QED BY <1>1, <1>2
        DEF Step, LoginBegin, LoginRead, LoginRefused, LoginCreate, BearerBegin, BearerMissing,
            Resolve, Handled, Revoke, RevokeRefused, Fail,
            GiveUpAnywhere, GiveUp, Take, Goto, Answer

\* A token that a login made is refused for a logout, its end, its account, or a
\* clean-up whose time had come to less than a second of that end: never for
\* the order of two texts alone.
THEOREM RefusalsHaveCause == Spec => RefusedForCause
<1>1. Inductive /\ [Next]_vars =>
        [\A p \in Procs :
            pc[p] = "begin" /\ req[p] \in BearerRequests /\ pc'[p] = "idle" /\ answer'[p] = "refused" =>
            LET t == req[p].token IN
            \/ t \in ended \cup swept
            \/ now >= granted[t].until
            \/ ~db.active[granted[t].account]]_vars
  <2> SUFFICES ASSUME Inductive, Next, NEW p \in Procs,
                      pc[p] = "begin", req[p] \in BearerRequests, pc'[p] = "idle", answer'[p] = "refused",
                      req[p].token \notin ended \cup swept,
                      db.active[granted[req[p].token].account]
               PROVE  now >= granted[req[p].token].until
    OBVIOUS
  <2>1. CASE Environment
    BY <2>1 DEF Environment, Cleanup, AccountChanges, Crash, Die, Tick, requestVars
  <2>2. CASE \E q \in Procs : Step(q)
    <3> DEFINE t == req[p].token
    <3>1. ~Live(db, t)
      BY <2>2, RefusedByResolve DEF ResolveRefused
    <3>2. t \in Stored(db) /\ t \in Spent /\ t \notin ended
      BY DEF Inductive, Asked, KeptUntilSwept
    <3>3. db.sessions[t].revoked = Never /\ db.sessions[t].expires = granted[t].until
          /\ db.sessions[t].account = granted[t].account
      BY <3>2 DEF Inductive, AsGranted
    <3>4. ~(granted[t].until > now)
      BY <3>1, <3>2, <3>3 DEF Live, Stored
    <3>5. now \in Int /\ granted[t].until \in Nat
      BY <3>2, ClockAssumption DEF Inductive, TypeOK, Grants
    <3> QED BY <3>4, <3>5
  <2> QED BY <2>1, <2>2 DEF Next
<1> QED BY <1>1, InductiveInvariant, PTL DEF Spec, RefusedForCause
=============================================================================
