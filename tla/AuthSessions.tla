---------------------------- MODULE AuthSessions ----------------------------
(***************************************************************************)
(* Logins and sessions (core/auth.go).  Requests run beside each other and *)
(* take a.mu only for single accesses to the maps of sessions and          *)
(* failures; the users table is read and written without it, and a bcrypt  *)
(* hash is computed between the read of a row and its update.  The model   *)
(* follows the row of one user:                                            *)
(*                                                                         *)
(*   login    loginBlocked -> read and compare -> (plain text: UPDATE)     *)
(*            -> recordFailure, or clearFailures -> new session            *)
(*   change   read and compare -> (plain text: UPDATE) -> UPDATE           *)
(*            -> clearSessions                                             *)
(*   refresh  EnsureAdmin after a reload: read -> INSERT or UPDATE         *)
(*                                                                         *)
(* The database may refuse any write.  Sessions and failures live in       *)
(* memory and end with the process.                                        *)
(*                                                                         *)
(* Bounds: Requests that run at a time, Tokens that are in the map at a    *)
(* time, Limit failures (6 in the code).                                   *)
(***************************************************************************)
EXTENDS Naturals, FiniteSets

CONSTANTS
  Passwords,
  Default,      \* "password123"
  Bootstraps,   \* admin_pass in config.yaml, "password123" if it is empty
  Requests, Tokens, Limit,
  None

ASSUME AuthAssumption ==
  /\ Bootstraps \subseteq Passwords /\ Default \in Passwords
  /\ IsFiniteSet(Requests) /\ Requests # {}
  /\ Limit \in Nat \ {0}
  /\ None \notin Passwords

VARIABLES
  serving,
  stored,     \* the user's row
  failures,   \* failed logins younger than 15 minutes
  sessions,   \* the entry of each token
  req,        \* what each request is doing
  chosen,     \* the password of the last ChangePassword, for the properties
  stale       \* a request that had read the row as plain text was about to
              \* update it when that change was written

vars == <<serving, stored, failures, sessions, req, chosen, stale>>

NoRow    == [kind |-> "none", pass |-> None]
Plain(p) == [kind |-> "plain", pass |-> p]
Hash(p)  == [kind |-> "hash", pass |-> p]

Rows == {NoRow} \cup [kind: {"plain", "hash"}, pass: Passwords]

(* pass and late are not in the code: what the login had compared, and     *)
(* whether it was between its comparison and its session when a change     *)
(* cleared all sessions.                                                   *)
Session   == [state: {"live", "expired"}, pass: Passwords, late: BOOLEAN]
NoSession == [state |-> "none", pass |-> None, late |-> FALSE]

Steps == {"compare", "migrate", "record", "clear", "grant",
          "update", "logout", "ensure", "insert", "reset"}

(* own: the name that was sent is the row's.  Others share the counter     *)
(* with it, because the key of failures is trimmed and empty means admin.  *)
Request ==
  [pc: Steps, op: {"login", "change", "refresh"}, own: BOOLEAN,
   pass: Passwords, next: Passwords, late: BOOLEAN]

Idle == [pc |-> "idle", op |-> "none", own |-> FALSE, pass |-> None,
         next |-> None, late |-> FALSE]

TypeOK ==
  /\ serving \in BOOLEAN
  /\ stored \in Rows
  /\ failures \in Nat
  /\ sessions \in [Tokens -> Session \cup {NoSession}]
  /\ req \in [Requests -> Request \cup {Idle}]
  /\ chosen \in Passwords \cup {None}
  /\ stale \in BOOLEAN

Init ==
  /\ serving = FALSE
  /\ stored \in Rows
  /\ failures = 0
  /\ sessions = [t \in Tokens |-> NoSession]
  /\ req = [r \in Requests |-> Idle]
  /\ chosen = None
  /\ stale = FALSE

----------------------------------------------------------------------------
At(r, step) == req[r].pc = step

Begin(r, op, own, pass, next, step) ==
  /\ serving
  /\ At(r, "idle")
  /\ req' = [req EXCEPT ![r] = [pc |-> step, op |-> op, own |-> own,
                                pass |-> pass, next |-> next,
                                late |-> FALSE]]

Goto(r, step) == req' = [req EXCEPT ![r].pc = step]
Return(r)     == req' = [req EXCEPT ![r] = Idle]

(* Mutant of Blocked: one failure more than the limit is let through.      *)
BlockedLate == failures > Limit

(* loginBlocked                                                            *)
Blocked == failures >= Limit

(* IsAuthenticated; an entry that has expired stays in the map.            *)
IsAuthenticated(t) == sessions[t].state = "live"

(* Mutant of StartLogin: a blocked login counts as one more failure.       *)
StartLoginCountsBlocked(r, own, p) ==
  \/ /\ ~Blocked
     /\ Begin(r, "login", own, p, p, "compare")
     /\ UNCHANGED <<serving, stored, failures, sessions, chosen, stale>>
  \/ /\ Blocked /\ serving /\ failures < Limit + 2
     /\ failures' = failures + 1
     /\ UNCHANGED <<serving, stored, sessions, req, chosen, stale>>

(* Login after loginBlocked; a blocked login returns and changes nothing.  *)
StartLogin(r, own, p) ==
  /\ ~Blocked
  /\ Begin(r, "login", own, p, p, "compare")
  /\ UNCHANGED <<serving, stored, failures, sessions, chosen, stale>>

(* ChangePassword is served to whoever has a session.                      *)
StartChange(r, p, q) ==
  /\ \E t \in Tokens : IsAuthenticated(t)
  /\ Begin(r, "change", TRUE, p, q, "compare")
  /\ UNCHANGED <<serving, stored, failures, sessions, chosen, stale>>

(* Refresh, which the watcher calls after a reload.                        *)
StartRefresh(r, b) ==
  /\ Begin(r, "refresh", TRUE, b, b, "ensure")
  /\ UNCHANGED <<serving, stored, failures, sessions, chosen, stale>>

----------------------------------------------------------------------------
(* verifyPassword                                                          *)

Accepted(op) == IF op = "login" THEN "clear" ELSE "update"

Matches(r) == req[r].own /\ stored # NoRow /\ stored.pass = req[r].pass

VerifyPassword(r) ==
  /\ At(r, "compare")
  /\ IF Matches(r)
       THEN Goto(r, IF stored.kind = "plain" THEN "migrate"
                    ELSE Accepted(req[r].op))
       ELSE IF req[r].op = "login" THEN Goto(r, "record") ELSE Return(r)
  /\ UNCHANGED <<serving, stored, failures, sessions, chosen, stale>>

(* The update of a row that held plain text; an error is ignored.          *)
Migrate(r) ==
  /\ At(r, "migrate")
  /\ stored' \in {stored, Hash(req[r].pass)}
  /\ Goto(r, Accepted(req[r].op))
  /\ UNCHANGED <<serving, failures, sessions, chosen, stale>>

RecordFailure(r) ==
  /\ At(r, "record")
  /\ failures' = failures + 1
  /\ Return(r)
  /\ UNCHANGED <<serving, stored, sessions, chosen, stale>>

ClearFailures(r) ==
  /\ At(r, "clear")
  /\ failures' = 0
  /\ Goto(r, "grant")
  /\ UNCHANGED <<serving, stored, sessions, chosen, stale>>

(* The session, unless no random token can be had.                         *)
Grant(r) ==
  /\ At(r, "grant")
  /\ \/ UNCHANGED sessions
     \/ \E t \in Tokens :
          /\ sessions[t] = NoSession
          /\ sessions' = [sessions EXCEPT ![t] =
               [state |-> "live", pass |-> req[r].pass,
                late |-> req[r].late]]
  /\ Return(r)
  /\ UNCHANGED <<serving, stored, failures, chosen, stale>>

(* A request that will still write what it made of a plain-text row.       *)
HasReadPlain(r) == req[r].pc \in {"migrate", "reset"}

UpdatePassword(r) ==
  /\ At(r, "update")
  /\ \/ /\ stored' = Hash(req[r].next)
        /\ chosen' = req[r].next
        /\ stale' = \E x \in Requests : HasReadPlain(x)
        /\ Goto(r, "logout")
     \/ /\ UNCHANGED <<stored, chosen, stale>>
        /\ Return(r)
  /\ UNCHANGED <<serving, failures, sessions>>

InFlight(x) == req[x].op = "login" /\ req[x].pc \in {"migrate", "clear", "grant"}

(* Mutant of ClearSessions: the sessions of the old password stay.         *)
ClearSessionsForgotten(r) ==
  /\ At(r, "logout")
  /\ Return(r)
  /\ UNCHANGED <<serving, stored, failures, sessions, chosen, stale>>

ClearSessions(r) ==
  /\ At(r, "logout")
  /\ sessions' = [t \in Tokens |-> NoSession]
  /\ req' = [x \in Requests |->
               IF x = r THEN Idle
               ELSE IF InFlight(x) THEN [req[x] EXCEPT !.late = TRUE]
               ELSE req[x]]
  /\ UNCHANGED <<serving, stored, failures, chosen, stale>>

----------------------------------------------------------------------------
(* EnsureAdmin                                                             *)

EnsureAdmin(r) ==
  /\ At(r, "ensure")
  /\ IF stored = NoRow THEN Goto(r, "insert")
     ELSE IF stored.kind = "plain" THEN Goto(r, "reset")
     ELSE Return(r)
  /\ UNCHANGED <<serving, stored, failures, sessions, chosen, stale>>

(* The name is unique: a row that is there is not inserted again.          *)
InsertAdmin(r) ==
  /\ At(r, "insert")
  /\ stored' \in {stored, IF stored = NoRow THEN Hash(req[r].pass) ELSE stored}
  /\ Return(r)
  /\ UNCHANGED <<serving, failures, sessions, chosen, stale>>

ResetAdmin(r) ==
  /\ At(r, "reset")
  /\ stored' \in {stored, Hash(req[r].pass)}
  /\ Return(r)
  /\ UNCHANGED <<serving, failures, sessions, chosen, stale>>

(* Mutant of Ensured: a start puts the configured password back.           *)
EnsuredAlways(row, b) == Hash(b)

(* EnsureAdmin in main, where nothing runs beside it and an error is fatal.*)
Ensured(row, b) == IF row.kind = "hash" THEN row ELSE Hash(b)

(* InitDatabase: the row of the name admin is inserted or left as it is.   *)
Inserted(row) == IF row = NoRow THEN Hash(Default) ELSE row

(* The row may or may not be that of the name admin, and admin_user may    *)
(* name it or another.                                                     *)
Start ==
  /\ ~serving
  /\ serving' = TRUE
  /\ \E row \in {stored, Inserted(stored)}, b \in Bootstraps :
       stored' \in {row, Ensured(row, b)}
  /\ UNCHANGED <<failures, sessions, req, chosen, stale>>

Stop ==
  /\ serving
  /\ serving' = FALSE
  /\ failures' = 0
  /\ sessions' = [t \in Tokens |-> NoSession]
  /\ req' = [r \in Requests |-> Idle]
  /\ UNCHANGED <<stored, chosen, stale>>

----------------------------------------------------------------------------
Logout(t) ==
  /\ sessions[t] # NoSession
  /\ sessions' = [sessions EXCEPT ![t] = NoSession]
  /\ UNCHANGED <<serving, stored, failures, req, chosen, stale>>

(* Twelve hours pass.                                                      *)
Expire(t) ==
  /\ IsAuthenticated(t)
  /\ sessions' = [sessions EXCEPT ![t].state = "expired"]
  /\ UNCHANGED <<serving, stored, failures, req, chosen, stale>>

(* Mutant of FailureAges: the list is cut although it is empty.            *)
FailureAgesBelowZero ==
  /\ failures' = failures - 1
  /\ UNCHANGED <<serving, stored, sessions, req, chosen, stale>>

(* Fifteen minutes pass since the oldest failure.                          *)
FailureAges ==
  /\ failures > 0
  /\ failures' = failures - 1
  /\ UNCHANGED <<serving, stored, sessions, req, chosen, stale>>

Step(r) ==
  \/ \E own \in BOOLEAN, p \in Passwords : StartLogin(r, own, p)
  \/ \E p, q \in Passwords : StartChange(r, p, q)
  \/ \E b \in Bootstraps : StartRefresh(r, b)
  \/ VerifyPassword(r) \/ Migrate(r) \/ RecordFailure(r)
  \/ ClearFailures(r) \/ Grant(r) \/ UpdatePassword(r) \/ ClearSessions(r)
  \/ EnsureAdmin(r) \/ InsertAdmin(r) \/ ResetAdmin(r)

Next ==
  \/ \E r \in Requests : Step(r)
  \/ \E t \in Tokens : Logout(t) \/ Expire(t)
  \/ FailureAges \/ Start \/ Stop

Spec == Init /\ [][Next]_vars

(* Time passes; no request needs to be served.                             *)
FairSpec == Spec /\ WF_vars(FailureAges)

----------------------------------------------------------------------------
Guessing == {r \in Requests : req[r].op = "login" /\ req[r].pc \in {"compare", "record"}}

(* However many logins run at once, failed ones and those that may still   *)
(* fail never exceed the limit by more than what passed loginBlocked       *)
(* together: the check and recordFailure are two sections of a.mu.         *)
AttemptsBounded ==
  failures + Cardinality(Guessing) <= Limit - 1 + Cardinality(Requests)

(* A lockout ends by itself: a blocked login records no failure, so that   *)
(* trying on does not keep a user out.                                     *)
LockoutEnds == (failures >= Limit) ~> (failures < Limit)

(* A password that was changed stays what it was changed to, through later *)
(* logins, reloads of the configuration and restarts, unless a request had *)
(* read the row as plain text before the change and writes it after.       *)
ChangedPasswordStays ==
  chosen # None => stored = Hash(chosen) \/ stale

(* Once a change of the password has returned, a session is one of the new *)
(* password, or its login was already past the comparison when the change  *)
(* cleared the sessions.                                                   *)
SessionsFollowPassword ==
  chosen # None /\ ~stale /\ (\A r \in Requests : ~At(r, "logout")) =>
    \A t \in Tokens :
      sessions[t] # NoSession => sessions[t].pass = chosen \/ sessions[t].late

============================================================================
