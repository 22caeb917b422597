------------------------- MODULE AuthSessions_proofs -------------------------
(***************************************************************************)
(* Type correctness of AuthSessions, the bound on failed logins, and that  *)
(* a changed password stays and takes the old sessions with it, for any    *)
(* number of requests, tokens and passwords and any limit.                 *)
(***************************************************************************)
EXTENDS AuthSessions, FiniteSetTheorems, TLAPS

LEMMA BusyRequest ==
  ASSUME TypeOK, NEW r \in Requests, req[r].pc # "idle"
  PROVE  req[r] \in Request
  BY DEF TypeOK, Idle

LEMMA ReturnType ==
  ASSUME TypeOK, NEW r \in Requests, Return(r)
  PROVE  req' \in [Requests -> Request \cup {Idle}]
  BY DEF TypeOK, Return

LEMMA GotoType ==
  ASSUME TypeOK, NEW r \in Requests, req[r].pc # "idle", NEW step \in Steps,
         Goto(r, step)
  PROVE  req' \in [Requests -> Request \cup {Idle}]
  <1>1. [req[r] EXCEPT !.pc = step] \in Request
    BY BusyRequest DEF Request
  <1> QED
    BY <1>1 DEF TypeOK, Goto

LEMMA BeginType ==
  ASSUME TypeOK, NEW r \in Requests, NEW op \in {"login", "change", "refresh"},
         NEW own \in BOOLEAN, NEW p \in Passwords, NEW q \in Passwords,
         NEW step \in Steps, Begin(r, op, own, p, q, step)
  PROVE  req' \in [Requests -> Request \cup {Idle}]
  <1>1. [pc |-> step, op |-> op, own |-> own, pass |-> p, next |-> q,
         late |-> FALSE] \in Request
    BY DEF Request
  <1> QED
    BY <1>1 DEF TypeOK, Begin

LEMMA InitType == Init => TypeOK
  <1> SUFFICES ASSUME Init PROVE TypeOK
    OBVIOUS
  <1>1. sessions \in [Tokens -> Session \cup {NoSession}]
    BY DEF Init
  <1>2. req \in [Requests -> Request \cup {Idle}]
    BY DEF Init
  <1> QED
    BY <1>1, <1>2 DEF Init, TypeOK

(* What a request knows is a password, so what it writes is a row.         *)
LEMMA WrittenRow ==
  ASSUME NEW p \in Passwords
  PROVE  Hash(p) \in Rows
  BY DEF Hash, Rows

LEMMA StartsType ==
  ASSUME TypeOK, NEW r \in Requests,
         \/ \E own \in BOOLEAN, p \in Passwords : StartLogin(r, own, p)
         \/ \E p, q \in Passwords : StartChange(r, p, q)
         \/ \E b \in Bootstraps : StartRefresh(r, b)
  PROVE  TypeOK'
  <1>1. ASSUME NEW own \in BOOLEAN, NEW p \in Passwords, StartLogin(r, own, p)
        PROVE  TypeOK'
    <2>1. req' \in [Requests -> Request \cup {Idle}]
      BY <1>1, BeginType DEF StartLogin, Steps
    <2> QED
      BY <1>1, <2>1 DEF StartLogin, TypeOK
  <1>2. ASSUME NEW p \in Passwords, NEW q \in Passwords, StartChange(r, p, q)
        PROVE  TypeOK'
    <2>1. req' \in [Requests -> Request \cup {Idle}]
      BY <1>2, BeginType DEF StartChange, Steps
    <2> QED
      BY <1>2, <2>1 DEF StartChange, TypeOK
  <1>3. ASSUME NEW b \in Bootstraps, StartRefresh(r, b) PROVE TypeOK'
    <2>1. b \in Passwords
      BY AuthAssumption
    <2>2. req' \in [Requests -> Request \cup {Idle}]
      BY <1>3, <2>1, BeginType DEF StartRefresh, Steps
    <2> QED
      BY <1>3, <2>2 DEF StartRefresh, TypeOK
  <1> QED
    BY <1>1, <1>2, <1>3

LEMMA RequestType ==
  ASSUME TypeOK, NEW r \in Requests, Step(r)
  PROVE  TypeOK'
  <1>1. CASE VerifyPassword(r)
    <2>1. \/ Return(r)
          \/ \E step \in Steps : Goto(r, step)
      BY <1>1 DEF VerifyPassword, Accepted, Steps
    <2>2. req' \in [Requests -> Request \cup {Idle}]
      BY <1>1, <2>1, GotoType, ReturnType DEF VerifyPassword, At
    <2> QED
      BY <1>1, <2>2 DEF VerifyPassword, TypeOK
  <1>2. CASE Migrate(r)
    <2>1. \E step \in Steps : Goto(r, step)
      BY <1>2 DEF Migrate, Accepted, Steps
    <2>2. req' \in [Requests -> Request \cup {Idle}]
      BY <1>2, <2>1, GotoType DEF Migrate, At
    <2>3. Hash(req[r].pass) \in Rows
      BY <1>2, BusyRequest, WrittenRow DEF Migrate, At, Request
    <2> QED
      BY <1>2, <2>2, <2>3 DEF Migrate, TypeOK
  <1>3. CASE RecordFailure(r)
    <2>1. req' \in [Requests -> Request \cup {Idle}]
      BY <1>3, ReturnType DEF RecordFailure
    <2> QED
      BY <1>3, <2>1 DEF RecordFailure, TypeOK
  <1>4. CASE ClearFailures(r)
    <2>1. req' \in [Requests -> Request \cup {Idle}]
      BY <1>4, GotoType DEF ClearFailures, At, Steps
    <2> QED
      BY <1>4, <2>1 DEF ClearFailures, TypeOK
  <1>5. CASE Grant(r)
    <2>1. req' \in [Requests -> Request \cup {Idle}]
      BY <1>5, ReturnType DEF Grant
    <2>2. [state |-> "live", pass |-> req[r].pass, late |-> req[r].late]
            \in Session
      BY <1>5, BusyRequest DEF Grant, At, Request, Session
    <2>3. sessions' \in [Tokens -> Session \cup {NoSession}]
      BY <1>5, <2>2 DEF Grant, TypeOK
    <2> QED
      BY <1>5, <2>1, <2>3 DEF Grant, TypeOK
  <1>6. CASE UpdatePassword(r)
    <2>1. req' \in [Requests -> Request \cup {Idle}]
      BY <1>6, GotoType, ReturnType DEF UpdatePassword, At, Steps
    <2>2. req[r].next \in Passwords /\ Hash(req[r].next) \in Rows
      BY <1>6, BusyRequest, WrittenRow DEF UpdatePassword, At, Request
    <2>3. stale' \in BOOLEAN
      BY <1>6 DEF UpdatePassword, TypeOK
    <2> QED
      BY <1>6, <2>1, <2>2, <2>3 DEF UpdatePassword, TypeOK
  <1>7. CASE ClearSessions(r)
    <2>1. \A x \in Requests : InFlight(x) =>
            [req[x] EXCEPT !.late = TRUE] \in Request
      BY BusyRequest DEF InFlight, Request
    <2>2. req' \in [Requests -> Request \cup {Idle}]
      BY <1>7, <2>1 DEF ClearSessions, TypeOK
    <2> QED
      BY <1>7, <2>2 DEF ClearSessions, TypeOK
  <1>8. CASE EnsureAdmin(r)
    <2>1. req' \in [Requests -> Request \cup {Idle}]
      BY <1>8, GotoType, ReturnType DEF EnsureAdmin, At, Steps
    <2> QED
      BY <1>8, <2>1 DEF EnsureAdmin, TypeOK
  <1>9. CASE InsertAdmin(r) \/ ResetAdmin(r)
    <2>1. req' \in [Requests -> Request \cup {Idle}]
      BY <1>9, ReturnType DEF InsertAdmin, ResetAdmin
    <2>2. Hash(req[r].pass) \in Rows
      BY <1>9, BusyRequest, WrittenRow DEF InsertAdmin, ResetAdmin, At, Request
    <2> QED
      BY <1>9, <2>1, <2>2 DEF InsertAdmin, ResetAdmin, TypeOK
  <1> QED
    BY <1>1, <1>2, <1>3, <1>4, <1>5, <1>6, <1>7, <1>8, <1>9, StartsType DEF Step

LEMMA StartedRow ==
  ASSUME NEW row \in Rows, NEW b \in Bootstraps
  PROVE  Inserted(row) \in Rows /\ Ensured(row, b) \in Rows
  BY AuthAssumption, WrittenRow DEF Inserted, Ensured

LEMMA TypeStep == TypeOK /\ [Next]_vars => TypeOK'
  <1> SUFFICES ASSUME TypeOK, [Next]_vars
               PROVE  TypeOK'
    OBVIOUS
  <1>1. ASSUME NEW t \in Tokens, Logout(t) PROVE TypeOK'
    BY <1>1 DEF Logout, TypeOK
  <1>2. ASSUME NEW t \in Tokens, Expire(t) PROVE TypeOK'
    <2>1. [sessions[t] EXCEPT !.state = "expired"] \in Session
      BY <1>2 DEF Expire, IsAuthenticated, TypeOK, Session, NoSession
    <2> QED
      BY <1>2, <2>1 DEF Expire, TypeOK
  <1>3. CASE FailureAges
    BY <1>3 DEF FailureAges, TypeOK
  <1>4. CASE Start
    <2>1. stored' \in Rows
      BY <1>4, StartedRow DEF Start, TypeOK
    <2> QED
      BY <1>4, <2>1 DEF Start, TypeOK
  <1>5. CASE Stop
    BY <1>5 DEF Stop, TypeOK
  <1>6. CASE UNCHANGED vars
    BY <1>6 DEF vars, TypeOK
  <1> QED
    BY <1>1, <1>2, <1>3, <1>4, <1>5, <1>6, RequestType DEF Next

(* The state of logins and sessions is well typed; the count of failures   *)
(* never goes below zero.                                                  *)
THEOREM TypeCorrect == Spec => []TypeOK
  <1> QED
    BY InitType, TypeStep, PTL DEF Spec

----------------------------------------------------------------------------
(* Only a login records a failure, clears failures or gets a session.      *)
LoginSteps ==
  \A r \in Requests :
    req[r].pc \in {"record", "clear", "grant"} => req[r].op = "login"

LEMMA LoginStepsStep == TypeOK /\ LoginSteps /\ [Next]_vars => LoginSteps'
  <1> SUFFICES ASSUME TypeOK, LoginSteps, [Next]_vars
               PROVE  LoginSteps'
    OBVIOUS
  <1> USE DEF TypeOK
  <1>1. ASSUME NEW r \in Requests, Return(r) PROVE LoginSteps'
    BY <1>1 DEF Return, LoginSteps, Idle
  <1>2. ASSUME NEW r \in Requests, NEW step \in Steps, Goto(r, step),
               step \in {"record", "clear", "grant"} => req[r].op = "login"
        PROVE  LoginSteps'
    BY <1>2 DEF Goto, LoginSteps
  <1>3. ASSUME NEW r \in Requests,
               \/ \E own \in BOOLEAN, p \in Passwords : StartLogin(r, own, p)
               \/ \E p, q \in Passwords : StartChange(r, p, q)
               \/ \E b \in Bootstraps : StartRefresh(r, b)
        PROVE  LoginSteps'
    BY <1>3 DEF StartLogin, StartChange, StartRefresh, Begin, LoginSteps
  <1>4. ASSUME NEW r \in Requests, VerifyPassword(r) PROVE LoginSteps'
    BY <1>1, <1>2, <1>4 DEF VerifyPassword, Accepted, Steps
  <1>5. ASSUME NEW r \in Requests, Migrate(r) PROVE LoginSteps'
    BY <1>2, <1>5 DEF Migrate, Accepted, Steps
  <1>6. ASSUME NEW r \in Requests, ClearFailures(r) PROVE LoginSteps'
    BY <1>2, <1>6 DEF ClearFailures, LoginSteps, At, Steps
  <1>7. ASSUME NEW r \in Requests, UpdatePassword(r) \/ EnsureAdmin(r)
        PROVE  LoginSteps'
    BY <1>1, <1>2, <1>7 DEF UpdatePassword, EnsureAdmin, Steps
  <1>8. ASSUME NEW r \in Requests,
               RecordFailure(r) \/ Grant(r) \/ InsertAdmin(r) \/ ResetAdmin(r)
        PROVE  LoginSteps'
    BY <1>1, <1>8 DEF RecordFailure, Grant, InsertAdmin, ResetAdmin
  <1>9. ASSUME NEW r \in Requests, ClearSessions(r) PROVE LoginSteps'
    BY <1>9 DEF ClearSessions, LoginSteps, InFlight, Idle
  <1>10. ASSUME NEW t \in Tokens, Logout(t) \/ Expire(t) PROVE LoginSteps'
    BY <1>10 DEF Logout, Expire, LoginSteps
  <1>11. CASE FailureAges \/ Start \/ Stop \/ UNCHANGED vars
    BY <1>11 DEF FailureAges, Start, Stop, vars, LoginSteps, Idle
  <1> QED
    BY <1>3, <1>4, <1>5, <1>6, <1>7, <1>8, <1>9, <1>10, <1>11 DEF Next, Step

LEMMA LoginStepsInit == Init => LoginSteps
  BY DEF Init, LoginSteps, Idle

----------------------------------------------------------------------------
(* Failed logins                                                           *)

(* A request that has returned leaves the guessing requests as they were,  *)
(* but for itself.                                                         *)
LEMMA GuessingCount ==
  ASSUME TypeOK, NEW S, S \subseteq Guessing
  PROVE  /\ IsFiniteSet(Guessing) /\ IsFiniteSet(S)
         /\ Cardinality(S) \in Nat /\ Cardinality(S) <= Cardinality(Guessing)
         /\ Cardinality(Guessing) \in Nat
         /\ Cardinality(Requests) \in Nat /\ Cardinality(Requests) > 0
         /\ Cardinality(Guessing) <= Cardinality(Requests)
  <1>1. Guessing \subseteq Requests
    BY DEF Guessing
  <1>2. IsFiniteSet(Requests) /\ Requests # {}
    BY AuthAssumption
  <1>3. IsFiniteSet(Guessing) /\ IsFiniteSet(S)
    BY <1>1, <1>2, FS_Subset
  <1>4. Cardinality(Requests) # 0
    BY <1>2, FS_EmptySet
  <1> QED
    BY <1>1, <1>2, <1>3, <1>4, FS_Subset, FS_CardinalityType

LEMMA AttemptsStep ==
  TypeOK /\ LoginSteps /\ AttemptsBounded /\ [Next]_vars => AttemptsBounded'
  <1> SUFFICES ASSUME TypeOK, LoginSteps, AttemptsBounded, [Next]_vars
               PROVE  AttemptsBounded'
    OBVIOUS
  <1> USE DEF TypeOK
  <1>0. Limit \in Nat \ {0} /\ failures \in Nat
    BY AuthAssumption
  (* A step that adds no failure and lets nobody in.                       *)
  <1>1. ASSUME failures' \in Nat, failures' <= failures, Guessing' \subseteq Guessing
        PROVE  AttemptsBounded'
    BY <1>0, <1>1, GuessingCount DEF AttemptsBounded
  <1>2. ASSUME NEW r \in Requests, Return(r)
        PROVE  Guessing' = Guessing \ {r}
    BY <1>2 DEF Return, Guessing, Idle
  <1>3. ASSUME NEW r \in Requests, NEW step \in Steps \ {"compare", "record"},
               Goto(r, step)
        PROVE  Guessing' \subseteq Guessing
    BY <1>3 DEF Goto, Guessing
  <1>4. ASSUME NEW r \in Requests, NEW own \in BOOLEAN, NEW p \in Passwords,
               StartLogin(r, own, p)
        PROVE  AttemptsBounded'
    <2>1. failures' = failures /\ failures <= Limit - 1
      BY <1>0, <1>4 DEF StartLogin, Blocked
    <2>2. Guessing' \subseteq Requests
      BY DEF Guessing
    <2>3. Cardinality(Guessing') \in Nat
          /\ Cardinality(Guessing') <= Cardinality(Requests)
      BY <2>2, AuthAssumption, FS_Subset, FS_CardinalityType
    <2>4. Cardinality(Requests) \in Nat
      BY AuthAssumption, FS_CardinalityType
    <2> QED
      BY <1>0, <2>1, <2>3, <2>4 DEF AttemptsBounded
  <1>5. ASSUME NEW r \in Requests,
               \/ \E p, q \in Passwords : StartChange(r, p, q)
               \/ \E b \in Bootstraps : StartRefresh(r, b)
        PROVE  AttemptsBounded'
    <2>1. failures' = failures /\ Guessing' \subseteq Guessing
      BY <1>5 DEF StartChange, StartRefresh, Begin, Guessing
    <2> QED
      BY <1>0, <1>1, <2>1
  <1>6. ASSUME NEW r \in Requests, VerifyPassword(r) PROVE AttemptsBounded'
    <2>1. failures' = failures
      BY <1>6 DEF VerifyPassword
    <2>2. \/ Return(r)
          \/ \E step \in Steps \ {"compare", "record"} : Goto(r, step)
          \/ req[r].op = "login" /\ Goto(r, "record")
      BY <1>6 DEF VerifyPassword, Accepted, Steps
    <2>3. req[r].op = "login" /\ Goto(r, "record") => Guessing' \subseteq Guessing
      BY <1>6 DEF VerifyPassword, At, Goto, Guessing
    <2> QED
      BY <1>0, <1>1, <1>2, <1>3, <2>1, <2>2, <2>3
  <1>7. ASSUME NEW r \in Requests, RecordFailure(r) PROVE AttemptsBounded'
    <2>1. Guessing' = Guessing \ {r}
      BY <1>2, <1>7 DEF RecordFailure
    <2>2. r \in Guessing
      BY <1>7 DEF RecordFailure, At, LoginSteps, Guessing
    <2>3. Cardinality(Guessing') = Cardinality(Guessing) - 1
      BY <2>1, <2>2, GuessingCount, FS_RemoveElement
    <2>4. Cardinality(Guessing) \in Nat /\ Cardinality(Requests) \in Nat
      BY GuessingCount
    <2>5. failures' = failures + 1
      BY <1>7 DEF RecordFailure
    <2> QED
      BY <1>0, <2>3, <2>4, <2>5 DEF AttemptsBounded
  <1>8. ASSUME NEW r \in Requests, Migrate(r) \/ ClearFailures(r) \/ UpdatePassword(r)
        PROVE  AttemptsBounded'
    <2>1. failures' = failures \/ failures' = 0
      BY <1>8 DEF Migrate, ClearFailures, UpdatePassword
    <2>2. \/ Return(r)
          \/ \E step \in Steps \ {"compare", "record"} : Goto(r, step)
      BY <1>8 DEF Migrate, ClearFailures, UpdatePassword, Accepted, Steps
    <2>3. failures' \in Nat /\ failures' <= failures
      BY <1>0, <2>1
    <2>4. Guessing' \subseteq Guessing
      BY <1>2, <1>3, <2>2
    <2> QED
      BY <1>1, <2>3, <2>4
  <1>9. ASSUME NEW r \in Requests, Grant(r) \/ InsertAdmin(r) \/ ResetAdmin(r)
        PROVE  AttemptsBounded'
    BY <1>0, <1>1, <1>2, <1>9 DEF Grant, InsertAdmin, ResetAdmin
  <1>10. ASSUME NEW r \in Requests, ClearSessions(r) PROVE AttemptsBounded'
    <2>1. failures' = failures /\ Guessing' \subseteq Guessing
      BY <1>10 DEF ClearSessions, Guessing, InFlight, Idle
    <2> QED
      BY <1>0, <1>1, <2>1
  <1>11. ASSUME NEW r \in Requests, EnsureAdmin(r) PROVE AttemptsBounded'
    BY <1>0, <1>1, <1>2, <1>3, <1>11 DEF EnsureAdmin, Steps
  <1>12. ASSUME NEW t \in Tokens, Logout(t) \/ Expire(t) PROVE AttemptsBounded'
    BY <1>0, <1>1, <1>12 DEF Logout, Expire, Guessing
  <1>13. CASE FailureAges \/ Start \/ Stop \/ UNCHANGED vars
    <2>1. Guessing' \subseteq Guessing
      BY <1>13 DEF FailureAges, Start, Stop, vars, Guessing, Idle
    <2>2. failures' \in Nat /\ failures' <= failures
      BY <1>0, <1>13 DEF FailureAges, Start, Stop, vars
    <2> QED
      BY <1>1, <2>1, <2>2
  <1> QED
    BY <1>4, <1>5, <1>6, <1>7, <1>8, <1>9, <1>10, <1>11, <1>12, <1>13 DEF Next, Step

LEMMA AttemptsInit == Init => AttemptsBounded
  <1> SUFFICES ASSUME Init PROVE AttemptsBounded
    OBVIOUS
  <1>1. TypeOK
    BY InitType
  <1>2. Guessing = {}
    BY DEF Init, Guessing, Idle
  <1>3. Cardinality(Guessing) = 0
    BY <1>2, FS_EmptySet
  <1> QED
    BY <1>1, <1>3, GuessingCount, AuthAssumption DEF Init, AttemptsBounded

(* However many logins overlap, the failures on record and the logins that *)
(* may still fail stay below the limit plus what passes loginBlocked       *)
(* together.                                                               *)
THEOREM AttemptsStayBounded == Spec => []AttemptsBounded
  <1> QED
    BY InitType, TypeStep, LoginStepsInit, LoginStepsStep, AttemptsInit,
       AttemptsStep, PTL DEF Spec

----------------------------------------------------------------------------
(* The password                                                            *)

(* The last change of the password was written, and no request was about   *)
(* to write over it what it had read before.                               *)
Settled == chosen # None /\ ~stale

(* Once a change has settled, the row is what was chosen and nobody is     *)
(* left that took it for plain text; and once the sessions are cleared,    *)
(* sessions and logins past the comparison are of the new password.        *)
SettledInv ==
  Settled =>
    /\ stored = Hash(chosen)
    /\ \A x \in Requests : ~HasReadPlain(x)
    /\ (\A x \in Requests : ~At(x, "logout")) =>
         /\ \A t \in Tokens :
              sessions[t] # NoSession => sessions[t].pass = chosen \/ sessions[t].late
         /\ \A x \in Requests :
              InFlight(x) => req[x].pass = chosen \/ req[x].late

LEMMA SettledInit == Init => SettledInv
  BY DEF Init, SettledInv, Settled

(* A request that goes on without touching the row disturbs nothing: it    *)
(* has not read plain text, and as a login it is past the comparison with  *)
(* the password it was past it with before, or with the one chosen.        *)
LEMMA RequestGoesOn ==
  ASSUME SettledInv, NEW r \in Requests, ~At(r, "logout"),
         \A x \in Requests \ {r} : req'[x] = req[x],
         ~HasReadPlain(r)',
         InFlight(r)' =>
           \/ req'[r].pass = chosen
           \/ InFlight(r) /\ req'[r].pass = req[r].pass /\ req'[r].late = req[r].late,
         UNCHANGED <<stored, sessions, chosen, stale>>
  PROVE  SettledInv'
  <1> SUFFICES ASSUME Settled' PROVE SettledInv'
    BY DEF SettledInv
  <1>1. Settled
    BY DEF Settled
  <1>2. stored = Hash(chosen) /\ \A x \in Requests : ~HasReadPlain(x)
    BY <1>1 DEF SettledInv
  <1>3. \A x \in Requests : ~HasReadPlain(x)'
    BY <1>2 DEF HasReadPlain
  <1>4. ASSUME \A x \in Requests : ~At(x, "logout")'
        PROVE  /\ \A t \in Tokens :
                    sessions[t] # NoSession => sessions[t].pass = chosen \/ sessions[t].late
               /\ \A x \in Requests :
                    InFlight(x)' => req'[x].pass = chosen \/ req'[x].late
    <2>1. \A x \in Requests : ~At(x, "logout")
      BY <1>4 DEF At
    <2>2. /\ \A t \in Tokens :
               sessions[t] # NoSession => sessions[t].pass = chosen \/ sessions[t].late
          /\ \A x \in Requests : InFlight(x) => req[x].pass = chosen \/ req[x].late
      BY <1>1, <2>1 DEF SettledInv
    <2>3. ASSUME NEW x \in Requests, InFlight(x)'
          PROVE  req'[x].pass = chosen \/ req'[x].late
      <3>1. CASE x = r
        BY <2>2, <2>3, <3>1
      <3>2. CASE x # r
        BY <2>2, <2>3, <3>2 DEF InFlight
      <3> QED
        BY <3>1, <3>2
    <2> QED
      BY <2>2, <2>3
  <1> QED
    BY <1>2, <1>3, <1>4 DEF SettledInv, Hash

(* The ways a request goes on.                                             *)
LEMMA RequestReturns ==
  ASSUME TypeOK, SettledInv, NEW r \in Requests, ~At(r, "logout"), Return(r),
         UNCHANGED <<stored, sessions, chosen, stale>>
  PROVE  SettledInv'
  <1>1. req'[r] = Idle /\ \A x \in Requests \ {r} : req'[x] = req[x]
    BY DEF TypeOK, Return
  <1> QED
    BY <1>1, RequestGoesOn DEF HasReadPlain, InFlight, Idle

LEMMA RequestBegins ==
  ASSUME TypeOK, SettledInv, NEW r \in Requests, NEW op, NEW own, NEW p, NEW q,
         NEW step, step \in {"compare", "ensure"}, Begin(r, op, own, p, q, step),
         UNCHANGED <<stored, sessions, chosen, stale>>
  PROVE  SettledInv'
  <1>1. req'[r].pc = step /\ \A x \in Requests \ {r} : req'[x] = req[x]
    BY DEF TypeOK, Begin
  <1>2. ~At(r, "logout")
    BY DEF Begin, At
  <1> QED
    BY <1>1, <1>2, RequestGoesOn DEF HasReadPlain, InFlight

LEMMA RequestStepsOn ==
  ASSUME TypeOK, SettledInv, NEW r \in Requests, req[r].pc \notin {"idle", "logout"},
         NEW step, step \notin {"migrate", "reset"}, Goto(r, step),
         step \in {"clear", "grant"} => InFlight(r) \/ req[r].pass = chosen,
         UNCHANGED <<stored, sessions, chosen, stale>>
  PROVE  SettledInv'
  <1>1. req[r] \in Request
    BY BusyRequest
  <1>2. req'[r] = [req[r] EXCEPT !.pc = step]
        /\ \A x \in Requests \ {r} : req'[x] = req[x]
    BY DEF TypeOK, Goto
  <1>3. /\ req'[r].pc = step /\ req'[r].op = req[r].op
        /\ req'[r].pass = req[r].pass /\ req'[r].late = req[r].late
    BY <1>1, <1>2 DEF Request
  <1>4. ~At(r, "logout") /\ ~HasReadPlain(r)'
    BY <1>3 DEF At, HasReadPlain
  <1>5. InFlight(r)' => InFlight(r) \/ req[r].pass = chosen
    BY <1>3 DEF InFlight
  <1> QED
    BY <1>2, <1>3, <1>4, <1>5, RequestGoesOn

LEMMA SettledStep == TypeOK /\ LoginSteps /\ SettledInv /\ [Next]_vars => SettledInv'
  <1> SUFFICES ASSUME TypeOK, LoginSteps, SettledInv, [Next]_vars
               PROVE  SettledInv'
    OBVIOUS
  <1>1. ASSUME NEW r \in Requests,
               \/ \E own \in BOOLEAN, p \in Passwords : StartLogin(r, own, p)
               \/ \E p, q \in Passwords : StartChange(r, p, q)
               \/ \E b \in Bootstraps : StartRefresh(r, b)
        PROVE  SettledInv'
    BY <1>1, RequestBegins DEF StartLogin, StartChange, StartRefresh
  <1>2. ASSUME NEW r \in Requests, VerifyPassword(r) PROVE SettledInv'
    <2>1. CASE ~Settled
      BY <1>2, <2>1 DEF VerifyPassword, SettledInv, Settled
    <2>2. CASE Settled
      <3>1. stored = Hash(chosen)
        BY <2>2 DEF SettledInv
      <3>2. Matches(r) => Goto(r, Accepted(req[r].op)) /\ req[r].pass = chosen
        BY <1>2, <3>1 DEF VerifyPassword, Matches, Hash
      <3>3. \/ Matches(r) \/ Return(r) \/ Goto(r, "record")
        BY <1>2 DEF VerifyPassword
      <3>4. req[r].pc \notin {"idle", "logout"} /\ ~At(r, "logout")
        BY <1>2 DEF VerifyPassword, At
      <3>5. UNCHANGED <<stored, sessions, chosen, stale>>
        BY <1>2 DEF VerifyPassword
      <3>6. CASE Matches(r)
        BY <3>2, <3>4, <3>5, <3>6, RequestStepsOn DEF Accepted
      <3>7. CASE Return(r)
        BY <3>4, <3>5, <3>7, RequestReturns
      <3>8. CASE Goto(r, "record")
        BY <3>4, <3>5, <3>8, RequestStepsOn
      <3> QED
        BY <3>3, <3>6, <3>7, <3>8
    <2> QED
      BY <2>1, <2>2
  (* Nobody has read plain text once a change has settled.                 *)
  <1>3. ASSUME NEW r \in Requests, Migrate(r) \/ ResetAdmin(r) PROVE SettledInv'
    <2>1. HasReadPlain(r) /\ UNCHANGED <<chosen, stale>>
      BY <1>3 DEF Migrate, ResetAdmin, At, HasReadPlain
    <2> QED
      BY <2>1 DEF SettledInv, Settled
  <1>4. ASSUME NEW r \in Requests, RecordFailure(r) PROVE SettledInv'
    BY <1>4, RequestReturns DEF RecordFailure, At
  <1>5. ASSUME NEW r \in Requests, ClearFailures(r) PROVE SettledInv'
    <2>1. InFlight(r) /\ req[r].pc \notin {"idle", "logout"}
      BY <1>5 DEF ClearFailures, At, InFlight, LoginSteps
    <2> QED
      BY <1>5, <2>1, RequestStepsOn DEF ClearFailures
  <1>6. ASSUME NEW r \in Requests, Grant(r) PROVE SettledInv'
    <2>1. SUFFICES ASSUME Settled' PROVE SettledInv'
      BY DEF SettledInv
    <2>2. Settled /\ UNCHANGED <<stored, chosen, stale>>
      BY <1>6, <2>1 DEF Grant, Settled
    <2>3. req'[r] = Idle /\ \A x \in Requests \ {r} : req'[x] = req[x]
      BY <1>6 DEF Grant, Return, TypeOK
    <2>4. InFlight(r) /\ ~At(r, "logout")
      BY <1>6 DEF Grant, At, InFlight, LoginSteps
    <2>5. stored = Hash(chosen) /\ \A x \in Requests : ~HasReadPlain(x)'
      BY <2>2, <2>3 DEF SettledInv, HasReadPlain, Idle
    <2>6. ASSUME \A x \in Requests : ~At(x, "logout")'
          PROVE  /\ \A t \in Tokens : sessions'[t] # NoSession =>
                      sessions'[t].pass = chosen \/ sessions'[t].late
                 /\ \A x \in Requests :
                      InFlight(x)' => req'[x].pass = chosen \/ req'[x].late
      <3>1. \A x \in Requests : ~At(x, "logout")
        BY <2>3, <2>4, <2>6 DEF At
      <3>2. /\ \A t \in Tokens : sessions[t] # NoSession =>
                 sessions[t].pass = chosen \/ sessions[t].late
            /\ \A x \in Requests : InFlight(x) => req[x].pass = chosen \/ req[x].late
        BY <2>2, <3>1 DEF SettledInv
      <3>3. \A t \in Tokens : sessions'[t] # NoSession =>
              sessions'[t].pass = chosen \/ sessions'[t].late
        BY <1>6, <2>4, <3>2 DEF Grant, TypeOK
      <3>4. \A x \in Requests : InFlight(x)' => req'[x].pass = chosen \/ req'[x].late
        BY <2>3, <3>2 DEF InFlight, Idle
      <3> QED
        BY <3>3, <3>4
    <2> QED
      BY <2>2, <2>5, <2>6 DEF SettledInv, Hash
  <1>7. ASSUME NEW r \in Requests, UpdatePassword(r) PROVE SettledInv'
    <2>1. CASE Return(r) /\ UNCHANGED <<stored, chosen, stale, sessions>>
      BY <1>7, <2>1, RequestReturns DEF UpdatePassword, At
    <2>2. CASE /\ stored' = Hash(chosen')
               /\ stale' = \E x \in Requests : HasReadPlain(x)
               /\ Goto(r, "logout")
      <3>1. req'[r].pc = "logout" /\ \A x \in Requests \ {r} : req'[x] = req[x]
        <4>1. req[r] \in Request
          BY <1>7, BusyRequest DEF UpdatePassword, At
        <4> QED
          BY <2>2, <4>1 DEF Goto, TypeOK, Request
      <3>2. ~(\A x \in Requests : ~At(x, "logout"))'
        BY <3>1 DEF At
      <3>3. Settled' => \A x \in Requests : ~HasReadPlain(x)'
        BY <2>2, <3>1 DEF Settled, HasReadPlain
      <3> QED
        BY <2>2, <3>2, <3>3 DEF SettledInv, Hash
    <2> QED
      BY <1>7, <2>1, <2>2 DEF UpdatePassword
  <1>8. ASSUME NEW r \in Requests, ClearSessions(r) PROVE SettledInv'
    <2>1. SUFFICES ASSUME Settled' PROVE SettledInv'
      BY DEF SettledInv
    <2>2. Settled /\ UNCHANGED <<stored, chosen, stale>>
      BY <1>8, <2>1 DEF ClearSessions, Settled
    <2>3. \A x \in Requests :
            req'[x] = IF x = r THEN Idle
                      ELSE IF InFlight(x) THEN [req[x] EXCEPT !.late = TRUE]
                      ELSE req[x]
      BY <1>8 DEF ClearSessions
    <2>4. \A x \in Requests : InFlight(x) => req[x] \in Request
      BY BusyRequest DEF InFlight
    <2>5. ASSUME NEW x \in Requests
          PROVE  ~HasReadPlain(x)' /\ (InFlight(x)' => req'[x].late)
      <3>1. ~HasReadPlain(x)
        BY <2>2 DEF SettledInv
      <3>2. CASE x = r
        <4>1. req'[x] = Idle
          BY <2>3, <3>2
        <4>2. req'[x].pc = "idle"
          BY <4>1 DEF Idle
        <4> QED
          BY <4>2 DEF HasReadPlain, InFlight
      <3>3. CASE x # r /\ InFlight(x)
        <4>1. req'[x] = [req[x] EXCEPT !.late = TRUE] /\ req[x] \in Request
          BY <2>3, <2>4, <3>3
        <4>2. req'[x].late /\ req'[x].pc = req[x].pc
          BY <4>1 DEF Request
        <4> QED
          BY <3>1, <4>2 DEF HasReadPlain
      <3>4. CASE x # r /\ ~InFlight(x)
        BY <2>3, <3>1, <3>4 DEF HasReadPlain, InFlight
      <3> QED
        BY <3>2, <3>3, <3>4
    <2>6. \A t \in Tokens : sessions'[t] = NoSession
      BY <1>8 DEF ClearSessions
    <2>7. stored = Hash(chosen)
      BY <2>2 DEF SettledInv
    <2> QED
      BY <2>2, <2>5, <2>6, <2>7 DEF SettledInv, Hash
  <1>9. ASSUME NEW r \in Requests, EnsureAdmin(r) PROVE SettledInv'
    <2>1. CASE ~Settled
      BY <1>9, <2>1 DEF EnsureAdmin, SettledInv, Settled
    <2>2. CASE Settled
      <3>1. stored = Hash(chosen)
        BY <2>2 DEF SettledInv
      <3>2. Return(r)
        BY <1>9, <3>1 DEF EnsureAdmin, Hash, NoRow
      <3> QED
        BY <1>9, <3>2, RequestReturns DEF EnsureAdmin, At
    <2> QED
      BY <2>1, <2>2
  <1>10. ASSUME NEW r \in Requests, InsertAdmin(r) PROVE SettledInv'
    <2>1. CASE ~Settled
      BY <1>10, <2>1 DEF InsertAdmin, SettledInv, Settled
    <2>2. CASE Settled
      <3>1. stored = Hash(chosen)
        BY <2>2 DEF SettledInv
      <3>2. stored' = stored
        BY <1>10, <3>1 DEF InsertAdmin, Hash, NoRow
      <3> QED
        BY <1>10, <3>2, RequestReturns DEF InsertAdmin, At
    <2> QED
      BY <2>1, <2>2
  <1>11. ASSUME NEW t \in Tokens, Logout(t) \/ Expire(t) PROVE SettledInv'
    <2>1. UNCHANGED <<stored, req, chosen, stale>>
      BY <1>11 DEF Logout, Expire
    <2>2. \A k \in Tokens : sessions'[k] # NoSession =>
            /\ sessions[k] # NoSession
            /\ sessions'[k].pass = sessions[k].pass
            /\ sessions'[k].late = sessions[k].late
      <3>1. CASE Logout(t)
        BY <3>1 DEF Logout, TypeOK
      <3>2. CASE Expire(t)
        <4>1. sessions[t] # NoSession /\ sessions[t] \in Session
          BY <3>2 DEF Expire, IsAuthenticated, NoSession, TypeOK
        <4>2. /\ [sessions[t] EXCEPT !.state = "expired"].pass = sessions[t].pass
              /\ [sessions[t] EXCEPT !.state = "expired"].late = sessions[t].late
          BY <4>1 DEF Session
        <4> QED
          BY <3>2, <4>1, <4>2 DEF Expire, TypeOK
      <3> QED
        BY <1>11, <3>1, <3>2
    <2> QED
      BY <2>1, <2>2 DEF SettledInv, Settled, HasReadPlain, At, InFlight, Hash
  <1>12. CASE FailureAges
    BY <1>12 DEF FailureAges, SettledInv, Settled, HasReadPlain, At, InFlight, Hash
  <1>13. CASE Start
    <2>1. Settled' => Settled /\ stored' = stored
      BY <1>13 DEF Start, Settled, SettledInv, Inserted, Ensured, Hash, NoRow
    <2> QED
      BY <1>13, <2>1 DEF Start, SettledInv, Settled, HasReadPlain, At, InFlight, Hash
  <1>14. CASE Stop
    BY <1>14 DEF Stop, SettledInv, Settled, HasReadPlain, At, InFlight, Hash, Idle
  <1>15. CASE UNCHANGED vars
    BY <1>15 DEF vars, SettledInv, Settled, HasReadPlain, At, InFlight, Hash
  <1> QED
    BY <1>1, <1>2, <1>3, <1>4, <1>5, <1>6, <1>7, <1>8, <1>9, <1>10, <1>11,
       <1>12, <1>13, <1>14, <1>15 DEF Next, Step

LEMMA SettledFacts == SettledInv => ChangedPasswordStays /\ SessionsFollowPassword
  BY DEF SettledInv, Settled, ChangedPasswordStays, SessionsFollowPassword

(* A changed password stays through logins, reloads and restarts, unless a *)
(* request had taken the row for plain text before the change.             *)
THEOREM PasswordStays == Spec => []ChangedPasswordStays
  <1> QED
    BY InitType, TypeStep, LoginStepsInit, LoginStepsStep, SettledInit,
       SettledStep, SettledFacts, PTL DEF Spec

(* When a change of the password has returned, no session of the old one   *)
(* is left, but those of logins that were past the comparison by then.     *)
THEOREM OldSessionsEnd == Spec => []SessionsFollowPassword
  <1> QED
    BY InitType, TypeStep, LoginStepsInit, LoginStepsStep, SettledInit,
       SettledStep, SettledFacts, PTL DEF Spec

=============================================================================
