------------------------------ MODULE AuthProofs ------------------------------
(* Theorems about Auth, for any addresses, passwords, calls, logins and      *)
(* tokens.  The proofs about its two components are instantiated over the    *)
(* shared clock and the shared requests: every step of the composition is    *)
(* one of Sessions, and leaves the rows as a step of Accounts does.           *)
EXTENDS Auth, TLAPS

AP == INSTANCE AccountsProofs

SP == INSTANCE SessionsProofs WITH Users <- Emails, Reqs <- Calls, Lockable <- {}, locked <- {}

(* The constants are as the two components assume theirs.                    *)
LEMMA Constants ==
    /\ None \notin Emails /\ None \notin Passwords /\ None \notin Families /\ None \notin Tokens
    /\ None \notin Nat /\ None \notin A!Row /\ None \notin {"user", "admin"}
    /\ MaxAttempts \in Nat \ {0} /\ MaxTime \in Nat /\ RefreshTtl \in Nat /\ AccessTtl \in Nat
    /\ Lockout \in Nat /\ OpaqueAccess \in BOOLEAN
    /\ None \notin AP!Operations /\ None \notin AP!Results
    /\ AP!AccountsAssumption /\ SP!SessionsAssumption
<1>1. /\ None \notin Emails /\ None \notin Passwords /\ None \notin Families /\ None \notin Tokens
      /\ None \notin Nat /\ None \notin A!Row /\ None \notin {"user", "admin"}
      /\ None \notin A!Operations /\ None \notin A!Results
  BY AuthAssumption
<1>2. /\ MaxAttempts \in Nat \ {0} /\ MaxTime \in Nat /\ RefreshTtl \in Nat /\ AccessTtl \in Nat
      /\ Lockout \in Nat /\ OpaqueAccess \in BOOLEAN
  BY AuthAssumption
<1>3. AP!AccountsAssumption
  <2>1. A!Row = AP!Row /\ A!Operations = AP!Operations /\ A!Results = AP!Results
    BY DEF A!Row, AP!Row, A!Operations, AP!Operations, A!Results, AP!Results
  <2>2. AP!IsFiniteSet(Calls)
    BY AuthAssumption DEF IsFiniteSet, AP!IsFiniteSet
  <2> QED
    BY <1>1, <1>2, <2>1, <2>2
<1>4. SP!SessionsAssumption
  BY <1>1, <1>2
<1>5. A!Operations = AP!Operations /\ A!Results = AP!Results
  BY DEF A!Operations, AP!Operations, A!Results, AP!Results
<1> QED
  BY <1>1, <1>2, <1>3, <1>4, <1>5

(* SessionsProofs speaks of the same actions as Auth does.                   *)
LEMMA SameSessions ==
    /\ S!Init <=> SP!Init
    /\ S!Tick <=> SP!Tick
    /\ \A c \in Calls :
          /\ (S!IssueAccess(c) <=> SP!IssueAccess(c)) /\ (S!InsertRefresh(c) <=> SP!InsertRefresh(c))
          /\ (S!FindRefresh(c) <=> SP!FindRefresh(c)) /\ (S!MarkUsed(c) <=> SP!MarkUsed(c))
          /\ (S!RevokeReplayed(c) <=> SP!RevokeReplayed(c)) /\ (S!CheckAccount(c) <=> SP!CheckAccount(c))
          /\ (S!FindLogout(c) <=> SP!FindLogout(c)) /\ (S!LogoutFamily(c) <=> SP!LogoutFamily(c))
          /\ (S!LogoutAccess(c) <=> SP!LogoutAccess(c)) /\ (S!RevokeAllRefresh(c) <=> SP!RevokeAllRefresh(c))
          /\ (S!RevokeAllAccess(c) <=> SP!RevokeAllAccess(c)) /\ (S!Drop(c) <=> SP!Drop(c))
          /\ \A u \in Emails, f \in Families : S!StartSession(c, u, f) <=> SP!StartSession(c, u, f)
          /\ \A t \in Tokens : S!PresentRefresh(c, t) <=> SP!PresentRefresh(c, t)
          /\ \A t \in Tokens : S!PresentLogout(c, t) <=> SP!PresentLogout(c, t)
          /\ \A u \in Emails : S!BeginRevokeAll(c, u) <=> SP!BeginRevokeAll(c, u)
<1> USE DEF S!Become, SP!Become, S!Goto, SP!Goto, S!Finish, SP!Finish, S!Idle, SP!Idle,
        S!Minted, SP!Minted, S!UsableAt, SP!UsableAt, S!Redeemable, SP!Redeemable,
        S!RowsOfFamily, SP!RowsOfFamily, S!RowsOfUser, SP!RowsOfUser, S!AccessOfFamily,
        SP!AccessOfFamily, S!AccessOfUser, SP!AccessOfUser, S!refreshVars, SP!refreshVars,
        S!accessVars, SP!accessVars, S!historyVars, SP!historyVars
<1>1. S!Init <=> SP!Init
  BY DEF S!Init, SP!Init
<1>2. S!Tick <=> SP!Tick
  BY DEF S!Tick, SP!Tick
<1>3. ASSUME NEW c \in Calls PROVE S!IssueAccess(c) <=> SP!IssueAccess(c)
  BY DEF S!IssueAccess, SP!IssueAccess
<1>4. ASSUME NEW c \in Calls PROVE S!InsertRefresh(c) <=> SP!InsertRefresh(c)
  BY DEF S!InsertRefresh, SP!InsertRefresh
<1>5. ASSUME NEW c \in Calls PROVE S!FindRefresh(c) <=> SP!FindRefresh(c)
  BY DEF S!FindRefresh, SP!FindRefresh
<1>6. ASSUME NEW c \in Calls PROVE S!MarkUsed(c) <=> SP!MarkUsed(c)
  BY DEF S!MarkUsed, SP!MarkUsed
<1>7. ASSUME NEW c \in Calls PROVE S!RevokeReplayed(c) <=> SP!RevokeReplayed(c)
  BY DEF S!RevokeReplayed, SP!RevokeReplayed
<1>8. ASSUME NEW c \in Calls PROVE S!CheckAccount(c) <=> SP!CheckAccount(c)
  BY DEF S!CheckAccount, SP!CheckAccount
<1>9. ASSUME NEW c \in Calls PROVE S!FindLogout(c) <=> SP!FindLogout(c)
  BY DEF S!FindLogout, SP!FindLogout
<1>10. ASSUME NEW c \in Calls PROVE S!LogoutFamily(c) <=> SP!LogoutFamily(c)
  BY DEF S!LogoutFamily, SP!LogoutFamily
<1>11. ASSUME NEW c \in Calls PROVE S!LogoutAccess(c) <=> SP!LogoutAccess(c)
  BY DEF S!LogoutAccess, SP!LogoutAccess
<1>12. ASSUME NEW c \in Calls PROVE S!RevokeAllRefresh(c) <=> SP!RevokeAllRefresh(c)
  BY DEF S!RevokeAllRefresh, SP!RevokeAllRefresh
<1>13. ASSUME NEW c \in Calls PROVE S!RevokeAllAccess(c) <=> SP!RevokeAllAccess(c)
  BY DEF S!RevokeAllAccess, SP!RevokeAllAccess
<1>14. ASSUME NEW c \in Calls PROVE S!Drop(c) <=> SP!Drop(c)
  BY DEF S!Drop, SP!Drop
<1>15. ASSUME NEW c \in Calls, NEW u \in Emails, NEW f \in Families PROVE S!StartSession(c, u, f) <=> SP!StartSession(c, u, f)
  BY DEF S!StartSession, SP!StartSession
<1>16. ASSUME NEW c \in Calls, NEW t \in Tokens PROVE S!PresentRefresh(c, t) <=> SP!PresentRefresh(c, t)
  BY DEF S!PresentRefresh, SP!PresentRefresh
<1>17. ASSUME NEW c \in Calls, NEW t \in Tokens PROVE S!PresentLogout(c, t) <=> SP!PresentLogout(c, t)
  BY DEF S!PresentLogout, SP!PresentLogout
<1>18. ASSUME NEW c \in Calls, NEW u \in Emails PROVE S!BeginRevokeAll(c, u) <=> SP!BeginRevokeAll(c, u)
  BY DEF S!BeginRevokeAll, SP!BeginRevokeAll
<1> QED
    BY Zenon, <1>1, <1>2, <1>3, <1>4, <1>5, <1>6, <1>7, <1>8, <1>9, <1>10, <1>11, <1>12,
     <1>13, <1>14, <1>15, <1>16, <1>17, <1>18

(* And AccountsProofs of the same rows and calls.                            *)
LEMMA SameAccounts ==
    /\ A!Tick <=> AP!Tick
    /\ \A c \in Calls :
          /\ (A!Begin(c) <=> AP!Begin(c)) /\ (A!Step(c) <=> AP!Step(c))
          /\ (A!VerifyLogin(c) <=> AP!VerifyLogin(c)) /\ (A!ClearFailures(c) <=> AP!ClearFailures(c))
          /\ A!UpdatePassword(c) <=> AP!UpdatePassword(c)
<1> USE DEF A!Fresh, AP!Fresh, A!Become, AP!Become, A!Goto, AP!Goto, A!Answer, AP!Answer,
        A!At, AP!At, A!LoginsOf, AP!LoginsOf, A!IsLockedAt, AP!IsLockedAt, A!NewRow,
        AP!NewRow, A!Failed, AP!Failed
<1>1. A!Tick <=> AP!Tick
  BY DEF A!Tick, AP!Tick
<1>2. ASSUME NEW c \in Calls PROVE A!Begin(c) <=> AP!Begin(c)
  BY DEF A!Begin, AP!Begin, A!PresentRegister, AP!PresentRegister, A!PresentLogin,
     AP!PresentLogin, A!PresentChange, AP!PresentChange, A!Bootstrap, AP!Bootstrap
<1>3. ASSUME NEW c \in Calls PROVE A!FindForRegister(c) <=> AP!FindForRegister(c)
  BY DEF A!FindForRegister, AP!FindForRegister
<1>4. ASSUME NEW c \in Calls PROVE A!InsertUser(c) <=> AP!InsertUser(c)
  BY DEF A!InsertUser, AP!InsertUser, A!Insert, AP!Insert
<1>5. ASSUME NEW c \in Calls PROVE A!FindForLogin(c) <=> AP!FindForLogin(c)
  BY DEF A!FindForLogin, AP!FindForLogin
<1>6. ASSUME NEW c \in Calls PROVE A!VerifyLogin(c) <=> AP!VerifyLogin(c)
  BY DEF A!VerifyLogin, AP!VerifyLogin
<1>7. ASSUME NEW c \in Calls PROVE A!RecordFailure(c) <=> AP!RecordFailure(c)
  BY DEF A!RecordFailure, AP!RecordFailure
<1>8. ASSUME NEW c \in Calls PROVE A!ClearFailures(c) <=> AP!ClearFailures(c)
  BY DEF A!ClearFailures, AP!ClearFailures
<1>9. ASSUME NEW c \in Calls PROVE A!FindForChange(c) <=> AP!FindForChange(c)
  BY DEF A!FindForChange, AP!FindForChange
<1>10. ASSUME NEW c \in Calls PROVE A!VerifyChange(c) <=> AP!VerifyChange(c)
  BY DEF A!VerifyChange, AP!VerifyChange
<1>11. ASSUME NEW c \in Calls PROVE A!UpdatePassword(c) <=> AP!UpdatePassword(c)
  BY DEF A!UpdatePassword, AP!UpdatePassword
<1>12. ASSUME NEW c \in Calls PROVE A!FindForBootstrap(c) <=> AP!FindForBootstrap(c)
  BY DEF A!FindForBootstrap, AP!FindForBootstrap
<1>13. ASSUME NEW c \in Calls PROVE A!InsertAdmin(c) <=> AP!InsertAdmin(c)
  BY DEF A!InsertAdmin, AP!InsertAdmin, A!Insert, AP!Insert
<1>14. ASSUME NEW c \in Calls PROVE A!Promote(c) <=> AP!Promote(c)
  BY DEF A!Promote, AP!Promote
<1>15. ASSUME NEW c \in Calls PROVE A!Drop(c) <=> AP!Drop(c)
  BY DEF A!Drop, AP!Drop
<1>16. ASSUME NEW c \in Calls PROVE A!Step(c) <=> AP!Step(c)
  BY Zenon, <1>3, <1>4, <1>5, <1>6, <1>7, <1>8, <1>9, <1>10, <1>11, <1>12, <1>13, <1>14,
     <1>15 DEF A!Step, AP!Step
<1> QED
  BY Zenon, <1>1, <1>2, <1>3, <1>4, <1>5, <1>6, <1>7, <1>8, <1>9, <1>10, <1>11, <1>12,
     <1>13, <1>14, <1>15, <1>16

(* What a step of the composition is to its components.                      *)
LEMMA AccountSteps == [Next]_vars => [AP!Next]_AP!vars
<1> SUFFICES ASSUME [Next]_vars PROVE [AP!Next]_AP!vars
  OBVIOUS
<1>1. UNCHANGED <<accountVars, now>> => UNCHANGED AP!vars
  BY DEF accountVars, AP!vars
<1>2. ASSUME NEW c \in Calls, AP!Begin(c) \/ AP!Step(c) PROVE AP!Next
  BY Zenon, <1>2 DEF AP!Next
<1>3. ASSUME NEW c \in Calls, AccountStep(c) PROVE AP!Next
  BY Zenon, <1>2, <1>3, SameAccounts DEF AccountStep
<1>4. ASSUME NEW c \in Calls, LogIn(c) PROVE AP!Next
  <2>1. AP!VerifyLogin(c) \/ AP!ClearFailures(c)
    BY Zenon, <1>4, SameAccounts DEF LogIn, Granted
  <2> QED
    BY Zenon, <1>2, <2>1 DEF AP!Step
<1>5. ASSUME NEW c \in Calls, StorePassword(c) PROVE AP!Next
  <2>1. AP!UpdatePassword(c)
    BY Zenon, <1>5, SameAccounts DEF StorePassword
  <2> QED
    BY Zenon, <1>2, <2>1 DEF AP!Step
<1>6. ASSUME NEW c \in Calls, CheckAccount(c) \/ IssueAccess(c) \/ RevokeAllRefresh(c) \/ RevokeAllAccess(c)
      PROVE  UNCHANGED AP!vars
  BY <1>1, <1>6 DEF CheckAccount, IssueAccess, RevokeAllRefresh, RevokeAllAccess, S!CheckAccount, S!Drop,
       S!IssueAccess, S!RevokeAllRefresh, S!RevokeAllAccess
<1>7. ASSUME NEW c \in Calls, PresentSession(c) PROVE UNCHANGED AP!vars
  BY <1>1, <1>7 DEF PresentSession, S!PresentRefresh, S!PresentLogout, S!BeginRevokeAll
<1>8. ASSUME NEW c \in Calls, SessionStep(c) PROVE UNCHANGED AP!vars
  BY <1>1, <1>8 DEF SessionStep, S!FindRefresh, S!MarkUsed, S!RevokeReplayed, S!FindLogout, S!LogoutFamily,
       S!LogoutAccess, S!InsertRefresh, S!Drop
<1>9. CASE Tick
  BY <1>9, SameAccounts DEF Tick, AP!Next
<1>10. CASE UNCHANGED vars
  BY <1>1, <1>10 DEF vars
<1> QED
  BY Zenon, <1>3, <1>4, <1>5, <1>6, <1>7, <1>8, <1>9, <1>10 DEF Next

(* The addresses of the calls are addresses of accounts.                     *)
LEMMA Addresses ==
    ASSUME AP!ShapeInv, AP!PresentInv, NEW c \in Calls
    PROVE  /\ call[c].pc # "new" => call[c].email \in Emails
           /\ call[c].pc \in AP!Read =>
                 /\ call[c].seen \in A!Row /\ call[c].seen.password \in Passwords
                 /\ call[c].seen.role \in {"user", "admin"}
           /\ call[c].op = "change" \/ call[c].pc \in AP!Read => account[call[c].email] # None
           /\ call[c].pc = "new" => call[c].op = None
           /\ call[c].pc # "done" => call[c].result = None
<1>1. AP!Shaped(call[c])
  BY DEF AP!ShapeInv
<1>2. call[c].pc \in AP!Read => call[c].seen \in A!Row
  BY <1>1 DEF AP!Shaped, AP!Row, A!Row
<1>3. account[call[c].email] # None \/ ~(call[c].op = "change" \/ call[c].pc \in AP!Read)
  BY DEF AP!PresentInv
<1> QED
  BY <1>1, <1>2, <1>3 DEF AP!Shaped, AP!Fresh, A!Row

(* Sessions' part of a step: it reads the accounts only to refuse a refresh. *)
LEMMA SessionSteps == AP!ShapeInv /\ AP!PresentInv /\ [Next]_vars => [SP!Next]_SP!vars
<1> SUFFICES ASSUME AP!ShapeInv, AP!PresentInv, [Next]_vars PROVE [SP!Next]_SP!vars
  OBVIOUS
<1>1. UNCHANGED <<sessionVars, now>> => UNCHANGED SP!vars
  BY DEF sessionVars, SP!vars, SP!refreshVars, SP!accessVars, SP!historyVars
<1>2. ASSUME NEW c \in Calls, SP!RequestBegins(c) \/ SP!RequestStep(c) PROVE SP!Next
  BY Zenon, <1>2 DEF SP!Next
<1>3. ASSUME NEW c \in Calls, AccountStep(c) PROVE UNCHANGED SP!vars
  <2>1. UNCHANGED now
    BY Zenon, <1>3 DEF AccountStep, A!Begin, A!Step, A!PresentRegister, A!PresentLogin, A!PresentChange,
         A!Bootstrap, A!FindForRegister, A!InsertUser, A!Insert, A!FindForLogin, A!VerifyLogin,
         A!RecordFailure, A!ClearFailures, A!FindForChange, A!VerifyChange, A!UpdatePassword,
         A!FindForBootstrap, A!InsertAdmin, A!Promote, A!Drop
  <2> QED
    BY <1>1, <1>3, <2>1 DEF AccountStep
<1>4. ASSUME NEW c \in Calls, LogIn(c) PROVE SP!Next
  <2>1. PICK f \in Families : S!StartSession(c, call[c].email, f)
    BY <1>4 DEF LogIn, Granted
  <2>2. call[c].email \in Emails
    <3>1. call[c].pc # "new"
      BY <1>4 DEF LogIn, Granted, A!VerifyLogin, A!ClearFailures, A!At
    <3> QED
      BY <3>1, Addresses
  <2> QED
    BY Zenon, <1>2, <2>1, <2>2, SameSessions DEF SP!RequestBegins
<1>5. ASSUME NEW c \in Calls, StorePassword(c) PROVE SP!Next
  <2>1. S!BeginRevokeAll(c, call[c].email)
    BY <1>5 DEF StorePassword
  <2>2. call[c].email \in Emails
    <3>1. call[c].pc # "new"
      BY <1>5 DEF StorePassword, A!UpdatePassword, A!At
    <3> QED
      BY <3>1, Addresses
  <2> QED
    BY Zenon, <1>2, <2>1, <2>2, SameSessions DEF SP!RequestBegins
<1>6. ASSUME NEW c \in Calls, CheckAccount(c) \/ IssueAccess(c) \/ RevokeAllRefresh(c) \/ RevokeAllAccess(c)
      PROVE  SP!Next
  <2>1. S!CheckAccount(c) \/ S!Drop(c) \/ S!IssueAccess(c) \/ S!RevokeAllRefresh(c) \/ S!RevokeAllAccess(c)
    BY Zenon, <1>6 DEF CheckAccount, IssueAccess, RevokeAllRefresh, RevokeAllAccess
  <2> QED
    BY Zenon, <1>2, <2>1, SameSessions DEF SP!RequestStep
<1>7. ASSUME NEW c \in Calls, PresentSession(c) PROVE SP!Next
  BY Zenon, <1>2, <1>7, SameSessions DEF PresentSession, SP!RequestBegins
<1>8. ASSUME NEW c \in Calls, SessionStep(c) PROVE SP!Next
  BY Zenon, <1>2, <1>8, SameSessions DEF SessionStep, SP!RequestStep
<1>9. CASE Tick
  BY Zenon, <1>9, SameSessions DEF Tick, SP!Next, SP!Environment
<1>10. CASE UNCHANGED vars
  BY <1>1, <1>10 DEF vars
<1> QED
  BY Zenon, <1>3, <1>4, <1>5, <1>6, <1>7, <1>8, <1>9, <1>10 DEF Next

-----------------------------------------------------------------------------
(* The accounts of the composition start from rows a database already holds, *)
(* so that Spec does not imply A!Spec; its types are those of Accounts still. *)
LEMMA AccountsBegin == Init => AP!ShapeInv /\ AP!PresentInv
<1> SUFFICES ASSUME Init PROVE AP!ShapeInv /\ AP!PresentInv
  OBVIOUS
<1>1. KnownRows \subseteq AP!Row
  <2>1. ASSUME NEW p \in Passwords, NEW n \in 0..MaxAttempts - 1
        PROVE  [A!NewRow(p, "user") EXCEPT !.failed = n] \in AP!Row
    <3>1. n \in Nat
      BY Constants
    <3> QED
      BY <3>1 DEF A!NewRow, AP!Row
  <2> QED
    BY <2>1 DEF KnownRows
<1>2. account \in [Emails -> AP!Row \cup {None}]
  BY <1>1 DEF Init
<1>3. streak \in [Emails -> Nat]
  <2>1. ASSUME NEW e \in Emails, account[e] # None PROVE account[e].failed \in Nat
    BY <1>2, <2>1 DEF AP!Row
  <2> QED
    BY <2>1 DEF Init
<1>4. A!Fresh \in AP!Call /\ A!Fresh = AP!Fresh /\ AP!Shaped(A!Fresh)
  <2>1. A!Fresh \in AP!Call
    BY DEF A!Fresh, AP!Call
  <2>2. A!Fresh = AP!Fresh
    BY DEF A!Fresh, AP!Fresh
  <2>3. A!Fresh.pc = "new" /\ A!Fresh.op = None /\ A!Fresh.result = None
    BY DEF A!Fresh
  <2> QED
    BY <2>1, <2>2, <2>3, Constants DEF AP!Shaped, AP!Read, AP!Operations
<1>5. \A c \in Calls : call[c] = A!Fresh
  BY DEF Init
<1>6. AP!TypeOK
  BY <1>2, <1>3, <1>4, Constants DEF Init, AP!TypeOK, S!Init
<1>7. AP!ShapeInv
  BY <1>4, <1>5, <1>6 DEF AP!ShapeInv
<1>8. AP!PresentInv
  <2>1. A!Fresh.pc = "new" /\ A!Fresh.op = None /\ A!Fresh.result = None
    BY DEF A!Fresh
  <2> QED
    BY <1>5, <2>1, Constants DEF AP!PresentInv, AP!Read, AP!Operations, AP!Results
<1> QED
  BY <1>7, <1>8

(* The composition keeps what Accounts guarantees of rows and of calls:      *)
(* every row a call is past the lookup of exists.                            *)
THEOREM AccountsHold == Spec => [](AP!ShapeInv /\ AP!PresentInv)
<1>1. AP!ShapeInv /\ AP!PresentInv /\ [Next]_vars => (AP!ShapeInv /\ AP!PresentInv)'
  BY Zenon, AccountSteps, Constants, AP!Shape, AP!Presence
<1> QED
  BY <1>1, AccountsBegin, PTL DEF Spec

(* AuthService uses SessionService as it is: every behaviour of logins,      *)
(* refreshes, logouts and changes of password is one of Sessions over the    *)
(* accounts as its users, and everything proved of Sessions holds of it.      *)
THEOREM ImplementsSessions == Spec => S!Spec
<1>1. Init => SP!Init
  BY SameSessions DEF Init
<1>2. AP!ShapeInv /\ AP!PresentInv /\ [Next]_vars => [SP!Next]_SP!vars
  BY SessionSteps
<1>3. Spec => SP!Spec
  BY <1>1, <1>2, AccountsHold, PTL DEF Spec, SP!Spec
<1>4. S!Init <=> SP!Init
  BY SameSessions
<1>5. [SP!Next]_SP!vars => [S!Next]_S!vars
  <2>1. UNCHANGED SP!vars => UNCHANGED S!vars
    BY DEF SP!vars, S!vars, SP!refreshVars, SP!accessVars, SP!historyVars,
           S!refreshVars, S!accessVars, S!historyVars
  <2>2. SP!Janitor => S!Janitor
    BY DEF SP!Janitor, S!Janitor, SP!SweepStart, S!SweepStart, SP!SweepRefresh, S!SweepRefresh,
           SP!SweepAccess, S!SweepAccess, SP!SweepFail, S!SweepFail, SP!ExpiredRows, S!ExpiredRows,
           SP!ExpiredAccess, S!ExpiredAccess, SP!refreshVars, SP!accessVars, SP!historyVars,
           S!refreshVars, S!accessVars, S!historyVars
  <2>3. SP!Environment => S!Environment
    BY Zenon, SameSessions DEF SP!Environment, S!Environment
  <2>4. ASSUME NEW c \in Calls, SP!RequestBegins(c) PROVE S!RequestBegins(c)
    BY Zenon, <2>4, SameSessions DEF SP!RequestBegins, S!RequestBegins
  <2>5. ASSUME NEW c \in Calls, SP!RequestStep(c) PROVE S!RequestStep(c)
    BY Zenon, <2>5, SameSessions DEF SP!RequestStep, S!RequestStep
  <2>6. SP!Next => S!Next
    BY Zenon, <2>2, <2>3, <2>4, <2>5 DEF SP!Next, S!Next
  <2> QED
    BY Zenon, <2>1, <2>6
<1> QED
  BY <1>3, <1>4, <1>5, PTL DEF S!Spec, SP!Spec

ComposedInv == AP!ShapeInv /\ AP!PresentInv /\ SP!IndInv

(* The inductive invariants of both components hold of the composition.      *)
THEOREM Composed == Spec => []ComposedInv
<1>1. Init => SP!Init
  BY SameSessions DEF Init
<1>2. AP!ShapeInv /\ AP!PresentInv /\ [Next]_vars => [SP!Next]_SP!vars
  BY SessionSteps
<1>3. Spec => SP!Spec
  BY <1>1, <1>2, AccountsHold, PTL DEF Spec, SP!Spec
<1>4. SP!Spec => []SP!IndInv
  BY SP!Inductive, Constants
<1> QED
  BY <1>3, <1>4, AccountsHold, PTL DEF ComposedInv

-----------------------------------------------------------------------------
(* The inductive invariant.  Whose a login is, and whether it can go on.     *)
Owns(e, f) ==
    \/ \E t \in SP!Minted : family[t] = f /\ user_id[t] = e
    \/ \E r \in SP!Rotating(f) : req[r].user = e

Active(f) == SP!Rotating(f) # {} \/ SP!Live(f) # {}

\* A login has one account, which is there, and a role once it was looked at.
HomeInv ==
    /\ \A f \in Families, d, e \in Emails : Owns(d, f) /\ Owns(e, f) => d = e
    /\ \A f \in Families, e \in Emails : Owns(e, f) => account[e] # None
    /\ \A c \in Calls : req[c].pc \in SP!AllPCs => account[req[c].user] # None
    /\ \A c \in Calls : req[c].pc = "access" => rank[c] # None

\* A row read before a change of password was read in an earlier era.
AgedInv ==
    \A c \in Calls :
        /\ call[c].pc \in AP!Read
        /\ call[c].seen.password # account[call[c].email].password
        => era[call[c].email] # 0

\* An era is opened by one change, whose request then only runs revoke_all.
ChangeInv ==
    /\ \A c \in Calls : change[c] # 0 =>
          /\ call[c].op = "change" /\ call[c].pc = "done"
          /\ change[c] <= era[call[c].email]
          /\ req[c].pc \in {"idle"} \cup SP!AllPCs
          /\ req[c].pc \in SP!AllPCs => req[c].user = call[c].email
    /\ \A c, d \in Calls :
          change[c] # 0 /\ change[c] = change[d] /\ call[c].email = call[d].email => c = d

\* Eras are declared over by the change that opened the next one.
OverInv ==
    \A e \in Emails : over[e] # 0 =>
        \E c \in Calls : change[c] = over[e] /\ call[c].email = e /\ req[c].pc = "idle"

\* The eras whose change has been through refresh_tokens.
Cut(e) == {over[e]} \cup {change[c] : c \in {d \in Calls : req[d].pc = "all_access" /\ req[d].user = e}}

Excused(f, k) == k <= begun[f] \/ k <= spared[f]

(* What a change has been past can only go on where SurvivorsOverlapped      *)
(* says, while revoke_all has yet to get to access_tokens already.           *)
CutInv ==
    \A f \in Families, e \in Emails : Owns(e, f) /\ Active(f) => \A k \in Cut(e) : Excused(f, k)

AccessInv == \A t \in access : Excused(family[t], over[user_id[t]])

AuthInv == TypeOK /\ HomeInv /\ AgedInv /\ ChangeInv /\ OverInv /\ CutInv /\ AccessInv

(* The tables and the requests by their types.                               *)
LEMMA Tables ==
    ASSUME ComposedInv
    PROVE  /\ req \in [Calls -> SP!Job] /\ now \in Nat
           /\ call \in [Calls -> AP!Call] /\ account \in [Emails -> AP!Row \cup {None}]
           /\ stored \subseteq Tokens /\ access \subseteq SP!Minted /\ SP!Minted \subseteq Tokens
           /\ family \in [Tokens -> Families \cup {None}] /\ user_id \in [Tokens -> Emails \cup {None}]
           /\ \A t \in SP!Minted : family[t] \in started /\ user_id[t] \in Emails
           /\ started \subseteq Families
           /\ \A c \in Calls, f \in Families : c \in SP!Rotating(f) =>
                 req[c].user \in Emails /\ req[c].family = f /\ f \in started
           /\ \A c \in Calls : req[c].pc \in SP!AllPCs => req[c].user \in Emails
<1>1. SP!TypeOK /\ SP!RowsOK /\ \A c \in Calls : SP!JobOK(c)
  BY DEF ComposedInv, SP!IndInv
<1>2. AP!TypeOK
  BY DEF ComposedInv, AP!ShapeInv
<1>3. SP!Minted \subseteq Tokens
  BY DEF SP!Minted
<1>4. now \in Nat
  BY <1>1, Constants DEF SP!TypeOK
<1> QED
  BY <1>1, <1>2, <1>3, <1>4 DEF SP!TypeOK, AP!TypeOK, SP!RowsOK, SP!JobOK, SP!Rotating

(* Only a login begins a family, and for the account of its call.            *)
LEMMA Starts ==
    ASSUME ComposedInv, [Next]_vars, NEW q \in Calls, NEW u, NEW f \in Families,
           SP!StartSession(q, u, f)
    PROVE  LogIn(q) /\ Granted(q, f) /\ u = call[q].email
<1>1. f \notin started /\ f \in started' /\ req[q].pc = "idle"
  BY DEF SP!StartSession
<1>2. ASSUME NEW c \in Calls, NEW g \in Families, Granted(c, g) PROVE c = q /\ g = f /\ u = call[q].email
  <2>1. S!StartSession(c, call[c].email, g)
    BY <1>2 DEF Granted
  <2>2. g = f
    BY <1>1, <2>1 DEF S!StartSession
  <2>3. c = q
    <3>1. req'[q].pc = "access"
      BY Tables DEF SP!StartSession, SP!Become, SP!Idle
    <3> QED
      BY <1>1, <2>1, <3>1, Tables DEF S!StartSession, S!Become
  <2>4. req'[q].user = u
    BY Tables DEF SP!StartSession, SP!Become, SP!Idle
  <2>5. req'[q].user = call[q].email
    BY <2>1, <2>3, Tables DEF S!StartSession, S!Become, S!Idle
  <2> QED
    BY <2>2, <2>3, <2>4, <2>5
<1>3. ASSUME NEW c \in Calls, LogIn(c) PROVE LogIn(q) /\ Granted(q, f) /\ u = call[q].email
  <2>1. PICK g \in Families : Granted(c, g)
    BY <1>3 DEF LogIn
  <2>2. c = q /\ g = f /\ u = call[q].email
    BY <1>2, <2>1
  <2> QED
    BY <1>3, <2>1, <2>2
<1>4. \/ started' = started
      \/ \E c \in Calls : LogIn(c)
  <2>1. ASSUME NEW c \in Calls, AccountStep(c) \/ StorePassword(c) PROVE started' = started
    BY <2>1 DEF AccountStep, StorePassword, S!BeginRevokeAll, sessionVars, S!historyVars
  <2>2. ASSUME NEW c \in Calls, CheckAccount(c) \/ IssueAccess(c) \/ RevokeAllRefresh(c) \/ RevokeAllAccess(c)
        PROVE  started' = started
    BY <2>2 DEF CheckAccount, IssueAccess, RevokeAllRefresh, RevokeAllAccess, S!CheckAccount, S!Drop,
       S!IssueAccess, S!RevokeAllRefresh, S!RevokeAllAccess, S!historyVars
  <2>3. ASSUME NEW c \in Calls, PresentSession(c) \/ SessionStep(c) PROVE started' = started
    BY <2>3 DEF PresentSession, SessionStep, S!PresentRefresh, S!PresentLogout, S!BeginRevokeAll,
       S!FindRefresh, S!MarkUsed, S!RevokeReplayed, S!FindLogout, S!LogoutFamily, S!LogoutAccess,
       S!InsertRefresh, S!Drop, S!historyVars
  <2>4. CASE Tick \/ UNCHANGED vars
    BY <2>4 DEF Tick, S!Tick, S!historyVars, vars, sessionVars
  <2> QED
    BY Zenon, <2>1, <2>2, <2>3, <2>4 DEF Next
<1> QED
  BY <1>1, <1>3, <1>4

(* A request that goes on rotating a login does so for the same account, and *)
(* one that comes to rotate it has opened it or spent its token.             *)
LEMMA Rotators ==
    ASSUME ComposedInv, [Next]_vars, NEW q \in Calls, NEW f \in Families, q \in SP!Rotating(f)'
    PROVE  \/ q \in SP!Rotating(f) /\ req'[q].user = req[q].user
           \/ Granted(q, f) /\ LogIn(q) /\ req'[q].user = call[q].email
           \/ /\ SP!MarkUsed(q) /\ req[q].token \in SP!Live(f)
              /\ req'[q].user = user_id[req[q].token]
<1>1. [SP!Next]_SP!vars
  BY SessionSteps DEF ComposedInv
<1>2. SP!IndInv
  BY DEF ComposedInv
<1>3. \/ q \in SP!Rotating(f)
      \/ \E u \in Emails : SP!StartSession(q, u, f)
      \/ SP!MarkUsed(q) /\ SP!Redeemable(req[q].token) /\ family[req[q].token] = f
  BY Zenon, <1>1, <1>2, Constants, SP!RotatingStep
<1>4. ASSUME NEW u \in Emails, SP!StartSession(q, u, f)
      PROVE  Granted(q, f) /\ LogIn(q) /\ req'[q].user = call[q].email
  <2>1. req'[q].user = u
    BY <1>4, Tables DEF SP!StartSession, SP!Become, SP!Idle
  <2> QED
    BY <1>4, <2>1, Starts
<1>5. ASSUME SP!MarkUsed(q), SP!Redeemable(req[q].token), family[req[q].token] = f
      PROVE  req[q].token \in SP!Live(f) /\ req'[q].user = user_id[req[q].token]
  <2>1. req[q].token \in SP!Live(f)
    BY <1>5 DEF SP!Redeemable, SP!Live, SP!RowsOfFamily
  <2>2. SP!Become(q, [SP!Idle EXCEPT !.pc = "account", !.user = user_id[req[q].token],
                                     !.family = family[req[q].token]])
    BY <1>5 DEF SP!MarkUsed
  <2>3. req'[q].user = user_id[req[q].token]
    BY <2>2, Tables DEF SP!Become, SP!Idle
  <2> QED
    BY <2>1, <2>3
<1>6. ASSUME q \in SP!Rotating(f) PROVE req'[q].user = req[q].user
  <2>1. req[q].pc \in SP!RotatingPCs /\ req'[q].pc \in SP!RotatingPCs
    BY <1>6 DEF SP!Rotating
  <2>2. req \in [Calls -> SP!Job] /\ req[q] \in SP!Job
    BY Tables
  <2>3. ASSUME SP!RequestBegins(q) PROVE FALSE
    BY <2>1, <2>3 DEF SP!RequestBegins, SP!StartSession, SP!PresentRefresh, SP!PresentLogout,
       SP!BeginRevokeAll, SP!RotatingPCs
  <2>4. CASE SP!IssueAccess(q)
    BY <2>2, <2>4 DEF SP!IssueAccess, SP!Become, SP!Job
  <2>5. CASE SP!InsertRefresh(q) \/ SP!Drop(q)
    BY <2>1, <2>2, <2>5 DEF SP!InsertRefresh, SP!Drop, SP!Finish, SP!Become, SP!Idle, SP!RotatingPCs
  <2>6. CASE SP!CheckAccount(q)
    BY <2>1, <2>2, <2>6 DEF SP!CheckAccount, SP!Finish, SP!Become, SP!Idle, SP!RotatingPCs, SP!Job
  <2>7. ASSUME \/ SP!FindRefresh(q) \/ SP!MarkUsed(q) \/ SP!RevokeReplayed(q)
               \/ SP!FindLogout(q) \/ SP!LogoutFamily(q) \/ SP!LogoutAccess(q)
               \/ SP!RevokeAllRefresh(q) \/ SP!RevokeAllAccess(q)
        PROVE  FALSE
    BY <2>1, <2>7 DEF SP!FindRefresh, SP!MarkUsed, SP!RevokeReplayed, SP!FindLogout, SP!LogoutFamily,
       SP!LogoutAccess, SP!RevokeAllRefresh, SP!RevokeAllAccess, SP!RotatingPCs
  <2>8. CASE SP!RequestStep(q)
    BY <2>4, <2>5, <2>6, <2>7, <2>8 DEF SP!RequestStep
  <2>9. ASSUME NEW r \in Calls, r # q, SP!RequestBegins(r) \/ SP!RequestStep(r)
        PROVE  req'[q] = req[q]
    BY <1>2, <2>9, Constants, SP!OthersKeep
  <2>10. CASE SP!Janitor \/ SP!Environment \/ UNCHANGED SP!vars
    BY <2>10 DEF SP!Janitor, SP!Environment, SP!SweepStart, SP!SweepRefresh, SP!SweepAccess, SP!SweepFail,
       SP!Tick, SP!LockAccount, SP!UnlockAccount, SP!vars
  <2> QED
    BY <1>1, <2>3, <2>8, <2>9, <2>10 DEF SP!Next
<1> QED
  BY <1>3, <1>4, <1>5, <1>6

(* A login comes to its account, and goes on, only by beginning.             *)
LEMMA OwnsStep ==
    ASSUME ComposedInv, [Next]_vars, NEW f \in Families, NEW e \in Emails, Owns(e, f)'
    PROVE  \/ Owns(e, f)
           \/ \E q \in Calls : Granted(q, f) /\ LogIn(q) /\ e = call[q].email
<1>1. [SP!Next]_SP!vars
  BY SessionSteps DEF ComposedInv
<1>2. SP!IndInv
  BY DEF ComposedInv
<1>3. ASSUME NEW t \in SP!Minted', family'[t] = f, user_id'[t] = e PROVE Owns(e, f)
  <2>1. CASE t \in SP!Minted
    <3>1. family'[t] = family[t] /\ user_id'[t] = user_id[t]
      BY Zenon, <1>1, <1>2, <2>1, Constants, SP!MintStep
    <3> QED
      BY <1>3, <2>1, <3>1 DEF Owns
  <2>2. CASE t \notin SP!Minted
    <3>1. PICK r \in Calls : SP!IssueAccess(r) /\ family'[t] = req[r].family /\ user_id'[t] = req[r].user
      BY <1>1, <1>2, <2>2, Constants, SP!MintStep
    <3>2. r \in SP!Rotating(f)
      BY <1>3, <3>1 DEF SP!IssueAccess, SP!Rotating, SP!RotatingPCs
    <3> QED
      BY <1>3, <3>1, <3>2 DEF Owns
  <2> QED
    BY <2>1, <2>2
<1>4. ASSUME NEW r \in SP!Rotating(f)', req'[r].user = e
      PROVE  \/ Owns(e, f)
             \/ \E q \in Calls : Granted(q, f) /\ LogIn(q) /\ e = call[q].email
  <2>1. r \in Calls
    BY DEF SP!Rotating
  <2>2. \/ r \in SP!Rotating(f) /\ req'[r].user = req[r].user
        \/ Granted(r, f) /\ LogIn(r) /\ req'[r].user = call[r].email
        \/ SP!MarkUsed(r) /\ req[r].token \in SP!Live(f) /\ req'[r].user = user_id[req[r].token]
    BY Zenon, <2>1, Rotators
  <2>3. ASSUME req[r].token \in SP!Live(f), user_id[req[r].token] = e PROVE Owns(e, f)
    <3>1. req[r].token \in SP!Minted /\ family[req[r].token] = f
      BY <1>2, <2>3 DEF SP!IndInv, SP!RowsOK, SP!Live, SP!RowsOfFamily
    <3> QED
      BY <2>3, <3>1 DEF Owns
  <2>4. (r \in SP!Rotating(f) /\ req[r].user = e) => Owns(e, f)
    BY DEF Owns
  <2> QED
    BY Zenon, <1>4, <2>1, <2>2, <2>3, <2>4
<1> QED
  BY <1>3, <1>4 DEF Owns

(* A session comes alive only by a login that is granted in the step itself. *)
LEMMA ActiveStep ==
    ASSUME ComposedInv, ComposedInv', [Next]_vars, NEW f \in Families, Active(f)'
    PROVE  Active(f) \/ \E q \in Calls : Granted(q, f) /\ LogIn(q)
<1>1. [SP!Next]_SP!vars
  BY SessionSteps DEF ComposedInv
<1>2. SP!IndInv /\ SP!IndInv'
  BY DEF ComposedInv
<1>3. ASSUME NEW r \in SP!Rotating(f)'
      PROVE  Active(f) \/ \E q \in Calls : Granted(q, f) /\ LogIn(q)
  <2>1. r \in Calls
    BY DEF SP!Rotating
  <2>2. \/ r \in SP!Rotating(f)
        \/ Granted(r, f) /\ LogIn(r)
        \/ req[r].token \in SP!Live(f)
    BY Zenon, <2>1, Rotators
  <2> QED
    BY <2>1, <2>2 DEF Active
<1>4. ASSUME NEW t \in SP!Live(f)' PROVE Active(f)
  <2>1. t \in SP!Live(f) \/ \E r \in SP!Rotating(f) : SP!InsertRefresh(r) /\ t = req[r].token
    BY <1>1, <1>2, Constants, SP!LiveStep
  <2> QED
    BY <2>1 DEF Active
<1> QED
  BY <1>3, <1>4 DEF Active

(* One request and its call move at a time.                                  *)
Acts(c) ==
    \/ AccountStep(c) \/ LogIn(c) \/ StorePassword(c)
    \/ CheckAccount(c) \/ IssueAccess(c) \/ RevokeAllRefresh(c) \/ RevokeAllAccess(c)
    \/ PresentSession(c) \/ SessionStep(c)

(* A step of one call leaves every other call where it was.                  *)
LEMMA Alone ==
    ASSUME ComposedInv, NEW d \in Calls, Acts(d), NEW c \in Calls, c # d
    PROVE  req'[c] = req[c] /\ call'[c] = call[c]
<1>1. req \in [Calls -> SP!Job] /\ call \in [Calls -> AP!Call]
  BY Tables
<1> USE <1>1
<1>2. ASSUME NEW j, S!Become(d, j) PROVE req'[c] = req[c]
  BY <1>2 DEF S!Become
<1>3. ASSUME NEW pc, S!Goto(d, pc) PROVE req'[c] = req[c]
  BY Zenon, <1>2, <1>3 DEF S!Goto
<1>4. ASSUME S!Finish(d) PROVE req'[c] = req[c]
  BY Zenon, <1>2, <1>4 DEF S!Finish
<1>5. ASSUME A!Begin(d) \/ A!Step(d) PROVE call'[c] = call[c]
  <2>1. AP!ShapeInv
    BY DEF ComposedInv
  <2>2. AP!Begin(d) \/ AP!Step(d)
    BY Zenon, <1>5, SameAccounts
  <2>3. AP!Begin(d) => \A b \in Calls \ {d} : call'[b] = call[b]
    BY <2>1, Constants, AP!Begins
  <2>4. AP!Step(d) => \A b \in Calls \ {d} : call'[b] = call[b]
    BY <2>1, Constants, AP!Moves DEF AP!Moved
  <2> QED
    BY <2>2, <2>3, <2>4
<1>6. CASE AccountStep(d)
  BY <1>5, <1>6 DEF AccountStep, sessionVars
<1>7. CASE LogIn(d)
  <2>1. A!VerifyLogin(d) \/ A!ClearFailures(d)
    BY Zenon, <1>7 DEF LogIn, Granted
  <2>2. A!Step(d)
    BY Zenon, <2>1 DEF A!Step
  <2> QED
    BY <1>2, <1>5, <1>7, <2>2 DEF LogIn, Granted, S!StartSession
<1>8. CASE StorePassword(d)
  <2>1. A!Step(d)
    BY Zenon, <1>8 DEF StorePassword, A!Step
  <2> QED
    BY <1>2, <1>5, <1>8, <2>1 DEF StorePassword, S!BeginRevokeAll
<1>9. CASE CheckAccount(d) \/ IssueAccess(d)
  BY <1>2, <1>4, <1>9 DEF CheckAccount, IssueAccess, S!Drop, S!CheckAccount, S!IssueAccess, accountVars
<1>10. CASE RevokeAllRefresh(d) \/ RevokeAllAccess(d)
  BY <1>3, <1>4, <1>10 DEF RevokeAllRefresh, RevokeAllAccess, S!RevokeAllRefresh, S!RevokeAllAccess, accountVars
<1>11. CASE PresentSession(d)
  BY <1>2, <1>11 DEF PresentSession, S!PresentRefresh, S!PresentLogout, S!BeginRevokeAll, accountVars
<1>12. CASE SessionStep(d)
  <2>1. UNCHANGED call
    BY <1>12 DEF SessionStep, accountVars
  <2>2. \/ \E j : S!Become(d, j)
        \/ \E pc : S!Goto(d, pc)
        \/ S!Finish(d)
    BY Zenon, <1>12 DEF SessionStep, S!FindRefresh, S!MarkUsed, S!RevokeReplayed, S!FindLogout,
       S!LogoutFamily, S!LogoutAccess, S!InsertRefresh, S!Drop
  <2> QED
    BY Zenon, <1>2, <1>3, <1>4, <2>1, <2>2
<1> QED
  BY <1>6, <1>7, <1>8, <1>9, <1>10, <1>11, <1>12 DEF Acts

(* A call moves only in steps of its own.                                    *)
LEMMA OneMoves ==
    ASSUME ComposedInv, [Next]_vars, NEW c \in Calls
    PROVE  Acts(c) \/ (req'[c] = req[c] /\ call'[c] = call[c])
<1>1. Tick \/ UNCHANGED vars => UNCHANGED <<req, call>>
  BY DEF Tick, S!Tick, A!Tick, vars, sessionVars, accountVars
<1>2. (\E d \in Calls : Acts(d)) \/ Tick \/ UNCHANGED vars
  BY Zenon DEF Acts, Next
<1> QED
  BY <1>1, <1>2, Alone

(* A change of password that was stored only goes through revoke_all.        *)
LEMMA ChangeRuns ==
    ASSUME ComposedInv, ChangeInv, [Next]_vars, NEW c \in Calls, change[c] # 0
    PROVE  /\ call'[c] = call[c] /\ change'[c] = change[c]
           /\ req[c].pc = "idle" => req'[c].pc = "idle"
           /\ \/ req'[c].pc = "idle"
              \/ /\ req[c].pc \in SP!AllPCs /\ req'[c].pc \in SP!AllPCs
                 /\ req'[c].user = req[c].user
<1>1. call[c].op = "change" /\ call[c].pc = "done" /\ req[c].pc \in {"idle"} \cup SP!AllPCs
  BY DEF ChangeInv
<1>2. req \in [Calls -> SP!Job] /\ call \in [Calls -> AP!Call] /\ req[c] \in SP!Job
  BY Tables
<1>3. ~AccountStep(c)
  <2>1. AP!ShapeInv /\ (AccountStep(c) => AP!Begin(c) \/ AP!Step(c))
    BY Zenon, SameAccounts DEF ComposedInv, AccountStep
  <2>2. ~AP!Begin(c)
    <3>1. AP!Fresh.pc = "new"
      BY DEF AP!Fresh
    <3> QED
      BY <1>1, <2>1, <3>1, Constants, AP!Begins
  <2>3. ~AP!Step(c)
    BY <1>1, <2>1, Constants, AP!Moves
  <2> QED
    BY <2>1, <2>2, <2>3
<1>4. ~LogIn(c) /\ ~StorePassword(c)
  BY <1>1 DEF LogIn, Granted, StorePassword, A!VerifyLogin, A!ClearFailures, A!UpdatePassword, A!At
<1>5. ~CheckAccount(c) /\ ~IssueAccess(c)
  BY <1>1 DEF CheckAccount, IssueAccess, S!IssueAccess, SP!AllPCs
<1>6. ~PresentSession(c)
  BY <1>1 DEF PresentSession
<1>7. RevokeAllRefresh(c) => UNCHANGED call /\ req[c].pc = "all_refresh" /\ req'[c].pc = "all_access"
                             /\ req'[c].user = req[c].user
  BY <1>2 DEF RevokeAllRefresh, S!RevokeAllRefresh, S!Goto, S!Become, accountVars, SP!Job
<1>8. RevokeAllAccess(c) => UNCHANGED call /\ req[c].pc # "idle" /\ req'[c].pc = "idle"
  BY <1>2 DEF RevokeAllAccess, S!RevokeAllAccess, S!Finish, S!Become, S!Idle, accountVars
<1>9. SessionStep(c) => UNCHANGED call /\ req[c].pc # "idle" /\ req'[c].pc = "idle"
  <2>1. SessionStep(c) => S!Drop(c)
    BY <1>1 DEF SessionStep, S!FindRefresh, S!MarkUsed, S!RevokeReplayed, S!FindLogout,
       S!LogoutFamily, S!LogoutAccess, S!InsertRefresh, SP!AllPCs
  <2> QED
    BY <1>2, <2>1 DEF SessionStep, S!Drop, S!Finish, S!Become, S!Idle, accountVars
<1>10. change'[c] = change[c]
  <2>1. ASSUME NEW d \in Calls, StorePassword(d) PROVE change'[c] = change[c]
    <3>1. d # c
      BY <1>4, <2>1
    <3> QED
      BY <2>1, <3>1 DEF StorePassword
  <2>2. ASSUME NEW d \in Calls, Acts(d), ~StorePassword(d) PROVE change' = change
    BY Zenon, <2>2 DEF Acts, AccountStep, LogIn, Granted, CheckAccount, IssueAccess, RevokeAllRefresh,
       RevokeAllAccess, PresentSession, SessionStep, changeVars
  <2>3. Tick \/ UNCHANGED vars => change' = change
    BY DEF Tick, vars, changeVars
  <2> QED
    BY <2>1, <2>2, <2>3 DEF Next, Acts
<1> QED
  BY <1>1, <1>3, <1>4, <1>5, <1>6, <1>7, <1>8, <1>9, <1>10, OneMoves DEF Acts, SP!AllPCs

(* Who touches the books: only these four steps, and no era is taken back.   *)
LEMMA Books ==
    ASSUME [Next]_vars
    PROVE  \/ UNCHANGED changeVars
           \/ \E c \in Calls : LogIn(c) \/ StorePassword(c) \/ RevokeAllRefresh(c) \/ RevokeAllAccess(c)
<1>1. ASSUME NEW c \in Calls, Acts(c)
      PROVE  \/ UNCHANGED changeVars
             \/ LogIn(c) \/ StorePassword(c) \/ RevokeAllRefresh(c) \/ RevokeAllAccess(c)
  BY Zenon, <1>1 DEF Acts, AccountStep, CheckAccount, IssueAccess, PresentSession, SessionStep
<1>2. Tick \/ UNCHANGED vars => UNCHANGED changeVars
  BY DEF Tick, vars
<1> QED
  BY Zenon, <1>1, <1>2 DEF Next, Acts

(* What the step between the two halves of a password change does: the hash  *)
(* is stored, the era moves on, and revoke_all is what comes next.           *)
LEMMA Stored ==
    ASSUME ComposedInv, TypeOK, ChangeInv, NEW c \in Calls, StorePassword(c)
    PROVE  /\ call[c].email \in Emails /\ account[call[c].email] # None
           /\ call'[c].op = "change" /\ call'[c].pc = "done" /\ call'[c].email = call[c].email
           /\ req[c].pc = "idle" /\ req'[c].pc = "all_refresh" /\ req'[c].user = call[c].email
           /\ change[c] = 0 /\ change'[c] = era[call[c].email] + 1
           /\ \A d \in Calls : d # c => change'[d] = change[d]
           /\ era'[call[c].email] = era[call[c].email] + 1
           /\ \A e \in Emails : e # call[c].email => era'[e] = era[e]
           /\ UNCHANGED <<rank, role, begun, over, spared>>
<1>1. call[c].op = "change" /\ call[c].pc = "update"
  BY DEF StorePassword, A!UpdatePassword, A!At
<1>2. AP!ShapeInv /\ AP!PresentInv
  BY DEF ComposedInv
<1>3. call[c].email \in Emails /\ account[call[c].email] # None
  BY <1>1, <1>2, Addresses
<1>4. call \in [Calls -> AP!Call] /\ call[c] \in AP!Call /\ req \in [Calls -> SP!Job]
  BY Tables
<1>5. call'[c].op = "change" /\ call'[c].pc = "done" /\ call'[c].email = call[c].email
  BY <1>1, <1>4 DEF StorePassword, A!UpdatePassword, A!Answer, A!Become, AP!Call
<1>6. req[c].pc = "idle" /\ req'[c].pc = "all_refresh" /\ req'[c].user = call[c].email
  BY <1>4 DEF StorePassword, S!BeginRevokeAll, S!Become, S!Idle
<1>7. change[c] = 0
  BY <1>1 DEF ChangeInv
<1> QED
  BY <1>3, <1>5, <1>6, <1>7 DEF StorePassword, TypeOK, roleVars

(* Eras only grow, and changes keep to their eras.                           *)
LEMMA EraGrows ==
    ASSUME ComposedInv, TypeOK, ChangeInv, [Next]_vars, NEW e \in Emails
    PROVE  era'[e] \in Nat /\ era'[e] >= era[e]
<1>1. era[e] \in Nat
  BY DEF TypeOK
<1>2. era' = era => era'[e] \in Nat /\ era'[e] >= era[e]
  BY <1>1
<1>3. ASSUME NEW c \in Calls, StorePassword(c) PROVE era'[e] \in Nat /\ era'[e] >= era[e]
  BY <1>1, <1>3, Stored
<1>4. ASSUME NEW c \in Calls, LogIn(c) \/ RevokeAllRefresh(c) \/ RevokeAllAccess(c) PROVE era' = era
  BY Zenon, <1>4 DEF LogIn, Granted, RevokeAllRefresh, RevokeAllAccess
<1>5. UNCHANGED changeVars => era' = era
  BY DEF changeVars
<1> QED
  BY Zenon, <1>2, <1>3, <1>4, <1>5, Books

(* Every step keeps each era opened by one change, which then only runs      *)
(* revoke_all.                                                               *)
LEMMA ChangeKept ==
    ASSUME ComposedInv, TypeOK, ChangeInv, [Next]_vars
    PROVE  ChangeInv'
<1>1. ASSUME NEW c \in Calls, change[c] = 0, change'[c] # 0 PROVE StorePassword(c)
  <2>1. ASSUME NEW d \in Calls, StorePassword(d) PROVE d = c
    BY <1>1, <2>1, Stored
  <2>2. ASSUME NEW d \in Calls, LogIn(d) \/ RevokeAllRefresh(d) \/ RevokeAllAccess(d) PROVE change' = change
    BY Zenon, <2>2 DEF LogIn, Granted, RevokeAllRefresh, RevokeAllAccess
  <2>3. UNCHANGED changeVars => change' = change
    BY DEF changeVars
  <2> QED
    BY <1>1, <2>1, <2>2, <2>3, Books
<1>2. ASSUME NEW c \in Calls, change'[c] # 0
      PROVE  /\ call'[c].op = "change" /\ call'[c].pc = "done"
             /\ change'[c] <= era'[call'[c].email]
             /\ req'[c].pc \in {"idle"} \cup SP!AllPCs
             /\ req'[c].pc \in SP!AllPCs => req'[c].user = call'[c].email
  <2>1. CASE change[c] # 0
    <3>1. call'[c] = call[c] /\ change'[c] = change[c]
      BY <2>1, ChangeRuns
    <3>2. call[c].op = "change" /\ call[c].pc = "done" /\ change[c] <= era[call[c].email]
      BY <2>1 DEF ChangeInv
    <3>3. call[c].email \in Emails
      BY <3>2, Addresses DEF ComposedInv
    <3>4. change'[c] <= era'[call'[c].email]
      BY <3>1, <3>2, <3>3, EraGrows DEF TypeOK
    <3>5. /\ req[c].pc \in SP!AllPCs => req[c].user = call[c].email
          /\ "idle" \notin SP!AllPCs
      BY <2>1 DEF ChangeInv, SP!AllPCs
    <3>6. \/ req'[c].pc = "idle"
          \/ req[c].pc \in SP!AllPCs /\ req'[c].pc \in SP!AllPCs /\ req'[c].user = req[c].user
      BY <2>1, ChangeRuns
    <3> QED
      BY <3>1, <3>2, <3>4, <3>5, <3>6
  <2>2. CASE change[c] = 0
    <3>1. StorePassword(c)
      BY <1>1, <1>2, <2>2
    <3> QED
      BY <3>1, Stored DEF SP!AllPCs, TypeOK
  <2> QED
    BY <2>1, <2>2
<1>3. ASSUME NEW c \in Calls, NEW d \in Calls, change'[c] # 0, change'[c] = change'[d],
             call'[c].email = call'[d].email
      PROVE  c = d
  <2>1. CASE change[c] # 0 /\ change[d] # 0
    <3>1. /\ call'[c] = call[c] /\ change'[c] = change[c]
          /\ call'[d] = call[d] /\ change'[d] = change[d]
      BY <2>1, ChangeRuns
    <3> QED
      BY <1>3, <2>1, <3>1 DEF ChangeInv
  <2>2. ASSUME NEW a \in Calls, NEW b \in Calls, change[a] = 0, change'[a] = change'[b], change'[a] # 0,
               call'[a].email = call'[b].email
        PROVE  a = b
    <3>1. StorePassword(a)
      BY <1>1, <2>2
    <3>2. SUFFICES ASSUME a # b PROVE FALSE
      OBVIOUS
    <3>3. change[b] # 0 /\ change[b] = era[call[a].email] + 1
      BY <2>2, <3>1, <3>2, Stored
    <3>4. call'[b] = call[b] /\ change[b] <= era[call[b].email]
      BY <3>3, ChangeRuns DEF ChangeInv
    <3>5. call[b].email = call[a].email /\ call[a].email \in Emails
      BY <2>2, <3>1, <3>4, Stored
    <3> QED
      BY <3>3, <3>4, <3>5 DEF TypeOK
  <2> QED
    BY <1>3, <2>1, <2>2
<1> QED
  BY <1>2, <1>3 DEF ChangeInv

(* A password is replaced only at the opening of an era.                     *)
LEMMA PasswordKept ==
    ASSUME ComposedInv, TypeOK, ChangeInv, [Next]_vars, NEW e \in Emails, account[e] # None,
           account'[e].password # account[e].password
    PROVE  era'[e] # 0
<1>1. AP!ShapeInv /\ AP!PresentInv /\ [AP!Next]_AP!vars
  BY AccountSteps DEF ComposedInv
<1>2. account \in [Emails -> AP!Row \cup {None}] /\ account[e] \in AP!Row /\ call \in [Calls -> AP!Call]
  BY Tables
<1>3. ASSUME NEW c \in Calls, AP!UpdatePassword(c), call[c].email = e PROVE era'[e] # 0
  <2>1. /\ call[c].op = "change" /\ call[c].pc = "update"
        /\ call'[c].pc = "done" /\ call'[c].result = "changed"
    BY <1>2, <1>3 DEF AP!UpdatePassword, AP!At, AP!Answer, AP!Become, AP!Call
  <2>2. Acts(c)
    BY <2>1, OneMoves
  <2>3. ~LogIn(c) /\ ~AccountStep(c)
    BY <2>1 DEF LogIn, Granted, A!VerifyLogin, A!ClearFailures, A!At, AccountStep
  <2>4. ~CheckAccount(c) /\ ~IssueAccess(c) /\ ~RevokeAllRefresh(c) /\ ~RevokeAllAccess(c)
        /\ ~PresentSession(c) /\ ~SessionStep(c)
    BY <2>1 DEF CheckAccount, IssueAccess, RevokeAllRefresh, RevokeAllAccess, PresentSession, SessionStep,
       accountVars
  <2>5. StorePassword(c)
    BY Zenon, <2>2, <2>3, <2>4 DEF Acts
  <2> QED
    BY <1>3, <2>5, Stored DEF TypeOK
<1>4. ASSUME NEW c \in Calls, NEW d \in Emails, NEW r \in {"user", "admin"}, AP!Makes(c, r, d)
      PROVE  account'[e] = account[e]
  BY <1>2, <1>4 DEF AP!Makes
<1>5. ASSUME NEW c \in Calls, NEW d \in Emails, NEW new \in AP!Row,
             call[c].email = d, account[d] \in AP!Row,
             account' = [account EXCEPT ![d] = new], AP!Touches(c, account[d], new)
      PROVE  era'[e] # 0
  <2>1. d = e
    BY <1>2, <1>5
  <2>2. new.password # account[d].password
    BY <1>2, <1>5, <2>1
  <2>3. AP!UpdatePassword(c)
    BY <1>5, <2>2 DEF AP!Touches, AP!Row
  <2> QED
    BY <1>3, <1>5, <2>1, <2>3
<1> QED
  BY Zenon, <1>1, <1>4, <1>5, Constants, AP!Writes

(* After every step a hash that differs from the one a call has read was     *)
(* stored in a later era.                                                    *)
LEMMA AgedKept ==
    ASSUME ComposedInv, TypeOK, ChangeInv, AgedInv, [Next]_vars
    PROVE  AgedInv'
<1>1. AP!ShapeInv /\ AP!PresentInv /\ [AP!Next]_AP!vars
  BY AccountSteps DEF ComposedInv
<1>2. SUFFICES ASSUME NEW c \in Calls, call'[c].pc \in AP!Read,
                      call'[c].seen.password # account'[call'[c].email].password
               PROVE  era'[call'[c].email] # 0
  BY DEF AgedInv
<1> DEFINE e == call[c].email
<1>3. \/ call[c].pc \in AP!Read /\ call'[c].seen = call[c].seen /\ call'[c].email = e /\ call[c].pc # "new"
      \/ call'[c].seen = account[e] /\ call'[c].email = e /\ account[e] # None /\ call[c].pc # "new"
  <2>1. CASE call'[c] = call[c]
    BY <1>2, <2>1 DEF AP!Read
  <2>2. CASE AP!Begin(c)
    <3>1. call'[c].pc = "find"
      BY <1>1, <2>2, Constants, AP!Begins
    <3> QED
      BY <1>2, <3>1 DEF AP!Read
  <2>3. CASE AP!Step(c)
    <3>1. AP!Moved(c) /\ call[c].pc # "new"
      BY <1>1, <2>3, Constants, AP!Moves
    <3>2. AP!Grounds(c)
      BY <1>1, <2>3, Constants, AP!Branches
    <3> QED
      BY <1>2, <3>1, <3>2 DEF AP!Moved, AP!Grounds
  <2> QED
    BY <1>1, <2>1, <2>2, <2>3, Constants, AP!OneMoves
<1>4. e \in Emails /\ account[e] # None
  BY <1>1, <1>3, Addresses
<1>5. call'[c].seen.password # account[e].password => era[e] # 0
  BY <1>3 DEF AgedInv
<1>6. account[e].password # account'[e].password => era'[e] # 0
  BY <1>4, PasswordKept
<1>7. era[e] # 0 => era'[e] # 0
  BY <1>4, EraGrows DEF TypeOK
<1> QED
  BY <1>2, <1>3, <1>5, <1>6, <1>7

(* An era is declared over by the change that opened the next, when done.    *)
LEMMA OverStep ==
    ASSUME ComposedInv, TypeOK, ChangeInv, [Next]_vars, NEW e \in Emails, over'[e] # over[e]
    PROVE  \E c \in Calls : /\ RevokeAllAccess(c) /\ req[c].pc = "all_access" /\ req[c].user = e
                            /\ over'[e] = change[c] /\ change[c] # 0
                            /\ call'[c] = call[c] /\ call[c].email = e /\ req'[c].pc = "idle"
<1>1. PICK c \in Calls : RevokeAllAccess(c)
  <2>1. ASSUME NEW c \in Calls, LogIn(c) \/ StorePassword(c) \/ RevokeAllRefresh(c) PROVE over' = over
    BY Zenon, <2>1 DEF LogIn, Granted, StorePassword, RevokeAllRefresh
  <2>2. UNCHANGED changeVars => over' = over
    BY DEF changeVars
  <2> QED
    BY Zenon, <2>1, <2>2, Books
<1>2. req[c].pc = "all_access" /\ req'[c].pc = "idle" /\ call' = call
  BY <1>1, Tables DEF RevokeAllAccess, S!RevokeAllAccess, S!Finish, S!Become, S!Idle, accountVars
<1>3. over' = [over EXCEPT ![req[c].user] = IF change[c] > @ THEN change[c] ELSE @]
  BY <1>1 DEF RevokeAllAccess
<1>4. req[c].user = e
  BY <1>3 DEF TypeOK
<1>5. over'[e] = change[c] /\ change[c] # 0
  BY <1>3, <1>4 DEF TypeOK
<1>6. call[c].email = e
  BY <1>2, <1>4, <1>5 DEF ChangeInv, SP!AllPCs
<1> QED
  BY <1>1, <1>2, <1>4, <1>5, <1>6

(* Every step keeps an era declared over the work of the change that opened  *)
(* the next one, and that has finished.                                      *)
LEMMA OverKept ==
    ASSUME ComposedInv, TypeOK, ChangeInv, OverInv, [Next]_vars
    PROVE  OverInv'
<1>1. SUFFICES ASSUME NEW e \in Emails, over'[e] # 0
               PROVE  \E c \in Calls : change'[c] = over'[e] /\ call'[c].email = e /\ req'[c].pc = "idle"
  BY DEF OverInv
<1>2. CASE over'[e] = over[e]
  <2>1. PICK c \in Calls : change[c] = over[e] /\ call[c].email = e /\ req[c].pc = "idle"
    BY <1>1, <1>2 DEF OverInv
  <2> QED
    BY <1>1, <1>2, <2>1, ChangeRuns
<1>3. CASE over'[e] # over[e]
  <2>1. PICK c \in Calls : /\ over'[e] = change[c] /\ change[c] # 0 /\ call'[c] = call[c]
                           /\ call[c].email = e /\ req'[c].pc = "idle"
    BY <1>3, OverStep
  <2> QED
    BY <2>1, ChangeRuns
<1> QED
  BY <1>2, <1>3

(* A family begins with the account of its login, and with nobody else's.    *)
LEMMA Fresh ==
    ASSUME ComposedInv, TypeOK, [Next]_vars, NEW c \in Calls, NEW f \in Families, Granted(c, f), LogIn(c)
    PROVE  /\ \A e : ~Owns(e, f)
           /\ call[c].email \in Emails /\ account[call[c].email] # None
           /\ call[c].pc \in AP!Read /\ rank'[c] \in {"user", "admin"}
           /\ req'[c].pc = "access" /\ req[c].pc = "idle"
           /\ \A d \in Calls : d # c => req'[d] = req[d]
           /\ \A d \in Calls, g \in Families : Granted(d, g) => d = c /\ g = f
           /\ UNCHANGED <<role, era, change, over, access>>
<1>1. S!StartSession(c, call[c].email, f)
  BY DEF Granted
<1>2. f \notin started /\ req[c].pc = "idle" /\ started' = started \cup {f}
      /\ req' = [req EXCEPT ![c] = [S!Idle EXCEPT !.pc = "access", !.user = call[c].email, !.family = f, !.at = now]]
  BY <1>1 DEF S!StartSession, S!Become
<1>3. req \in [Calls -> SP!Job]
  BY Tables
<1>4. \A e : ~Owns(e, f)
  <2>1. \A t \in SP!Minted : family[t] # f
    BY <1>2, Tables
  <2>2. \A r \in SP!Rotating(f) : r \in Calls
    BY DEF SP!Rotating
  <2>3. SP!Rotating(f) = {}
    BY <1>2, <2>2, Tables
  <2> QED
    BY <2>1, <2>3 DEF Owns
<1>5. call[c].pc \in AP!Read
  BY DEF Granted, A!VerifyLogin, A!ClearFailures, A!At, AP!Read
<1>6. /\ call[c].email \in Emails /\ account[call[c].email] # None
      /\ call[c].seen.role \in {"user", "admin"}
  BY <1>5, Addresses DEF ComposedInv, AP!Read
<1>7. rank'[c] = call[c].seen.role
  BY DEF LogIn, TypeOK
<1>8. req'[c].pc = "access" /\ \A d \in Calls : d # c => req'[d] = req[d]
  BY <1>2, <1>3 DEF S!Idle
<1>9. ASSUME NEW d \in Calls, NEW g \in Families, Granted(d, g) PROVE d = c /\ g = f
  <2>1. S!StartSession(d, call[d].email, g)
    BY <1>9 DEF Granted
  <2>2. g \notin started /\ req[d].pc = "idle" /\ started' = started \cup {g} /\ req'[d].pc = "access"
    BY <1>3, <2>1 DEF S!StartSession, S!Become, S!Idle
  <2> QED
    BY <1>2, <1>8, <2>2
<1>10. UNCHANGED <<role, era, change, over, access>>
  BY <1>1 DEF Granted, S!StartSession, S!accessVars
<1> QED
  BY <1>2, <1>4, <1>5, <1>6, <1>7, <1>8, <1>9, <1>10

(* An account is never deleted.                                              *)
LEMMA AccountStays ==
    ASSUME ComposedInv, [Next]_vars, NEW e \in Emails, account[e] # None
    PROVE  account'[e] # None
<1>1. AP!ShapeInv /\ AP!PresentInv /\ [AP!Next]_AP!vars
  BY AccountSteps DEF ComposedInv
<1> QED
  BY <1>1, Constants, AP!Kept

(* The statement a request goes on to.                                       *)
LEMMA Jobs ==
    ASSUME ComposedInv, NEW c \in Calls
    PROVE  /\ S!Finish(c) => req'[c].pc = "idle"
           /\ \A pc : S!Goto(c, pc) => req'[c].pc = pc /\ req'[c].user = req[c].user
           /\ \A j : S!Become(c, j) => req'[c] = j
           /\ S!Become(c, [req[c] EXCEPT !.pc = "access", !.at = now]) => req'[c].pc = "access"
           /\ \A t : S!Become(c, [req[c] EXCEPT !.pc = "insert", !.token = t, !.at = now]) =>
                       req'[c].pc = "insert"
           /\ S!Goto(c, "all_access") => req'[c].pc = "all_access"
           /\ S!Goto(c, "logout_family") => req'[c].pc = "logout_family"
           /\ S!Goto(c, "logout_access") => req'[c].pc = "logout_access"
           /\ S!FindRefresh(c) \/ S!MarkUsed(c) => req'[c].pc \in {"idle", "mark", "revoke", "account"}
<1>1. req \in [Calls -> SP!Job] /\ req[c] \in SP!Job
  BY Tables
<1>2. \A j : S!Become(c, j) => req'[c] = j
  BY <1>1 DEF S!Become
<1>3. \A pc : S!Goto(c, pc) => req'[c].pc = pc /\ req'[c].user = req[c].user
  BY <1>1 DEF S!Goto, S!Become, SP!Job
<1>4. S!Finish(c) => req'[c].pc = "idle"
  BY <1>1 DEF S!Finish, S!Become, S!Idle
<1>5. S!Become(c, [req[c] EXCEPT !.pc = "access", !.at = now]) => req'[c].pc = "access"
  BY <1>1 DEF S!Become, SP!Job
<1>6. \A t : S!Become(c, [req[c] EXCEPT !.pc = "insert", !.token = t, !.at = now]) => req'[c].pc = "insert"
  BY <1>1 DEF S!Become, SP!Job
<1>7. \A t : S!Become(c, [S!Idle EXCEPT !.pc = "mark", !.token = t]) => req'[c].pc = "mark"
  BY <1>1 DEF S!Become, S!Idle
<1>8. \A t : S!Become(c, [S!Idle EXCEPT !.pc = "revoke", !.token = t]) => req'[c].pc = "revoke"
  BY <1>1 DEF S!Become, S!Idle
<1>9. \A u, f : S!Become(c, [S!Idle EXCEPT !.pc = "account", !.user = u, !.family = f]) =>
                     req'[c].pc = "account"
  BY <1>1 DEF S!Become, S!Idle
<1>10. S!FindRefresh(c) => req'[c].pc \in {"idle", "mark", "revoke"}
  BY Zenon, <1>4, <1>7, <1>8 DEF S!FindRefresh
<1>11. S!MarkUsed(c) => req'[c].pc \in {"revoke", "account"}
  BY Zenon, <1>3, <1>9 DEF S!MarkUsed
<1>12. S!Goto(c, "all_access") => req'[c].pc = "all_access"
  BY Zenon, <1>3
<1>13. S!Goto(c, "logout_family") => req'[c].pc = "logout_family"
  BY Zenon, <1>3
<1>14. S!Goto(c, "logout_access") => req'[c].pc = "logout_access"
  BY Zenon, <1>3
<1> QED
  BY Zenon, <1>2, <1>3, <1>4, <1>5, <1>6, <1>10, <1>11, <1>12, <1>13, <1>14

(* Every step keeps each session with the one account it belongs to, which   *)
(* exists.                                                                   *)
LEMMA HomeKept ==
    ASSUME ComposedInv, ComposedInv', TypeOK, ChangeInv, HomeInv, [Next]_vars
    PROVE  HomeInv'
<1>1. ASSUME NEW f \in Families, NEW d \in Emails, NEW e \in Emails, Owns(d, f)', Owns(e, f)' PROVE d = e
  <2>1. CASE \E q \in Calls : Granted(q, f) /\ LogIn(q)
    <3>1. PICK q \in Calls : Granted(q, f) /\ LogIn(q)
      BY <2>1
    <3>2. \A b : ~Owns(b, f)
      BY <3>1, Fresh
    <3>3. \A r \in Calls : Granted(r, f) => r = q
      BY <3>1, Fresh
    <3>4. d = call[q].email
      BY Zenon, <1>1, <3>2, <3>3, OwnsStep
    <3>5. e = call[q].email
      BY Zenon, <1>1, <3>2, <3>3, OwnsStep
    <3> QED
      BY <3>4, <3>5
  <2>2. CASE ~\E q \in Calls : Granted(q, f) /\ LogIn(q)
    <3>1. Owns(d, f) /\ Owns(e, f)
      BY Zenon, <1>1, <2>2, OwnsStep
    <3> QED
      BY <3>1 DEF HomeInv
  <2> QED
    BY <2>1, <2>2
<1>2. ASSUME NEW f \in Families, NEW e \in Emails, Owns(e, f)' PROVE account'[e] # None
  <2>1. Owns(e, f) => account[e] # None
    BY DEF HomeInv
  <2>2. ASSUME NEW q \in Calls, Granted(q, f), LogIn(q), e = call[q].email PROVE account[e] # None
    BY <2>2, Fresh
  <2>3. account[e] # None
    BY Zenon, <1>2, <2>1, <2>2, OwnsStep
  <2> QED
    BY <2>3, AccountStays
<1>3. ASSUME NEW c \in Calls, req'[c].pc \in SP!AllPCs PROVE account'[req'[c].user] # None
  <2>1. CASE req'[c] = req[c]
    <3>1. account[req[c].user] # None /\ req[c].user \in Emails
      BY <1>3, <2>1, Tables DEF HomeInv
    <3> QED
      BY <2>1, <3>1, AccountStays
  <2>2. CASE StorePassword(c)
    <3>1. call[c].email \in Emails /\ account[call[c].email] # None /\ req'[c].user = call[c].email
      BY <2>2, Stored
    <3> QED
      BY <3>1, AccountStays
  <2>3. CASE PresentSession(c)
    <3> DEFINE Ends == \E e \in Emails : account[e] # None /\ S!BeginRevokeAll(c, e)
    <3>0. ASSUME NEW t \in Tokens, S!PresentRefresh(c, t) \/ S!PresentLogout(c, t) PROVE FALSE
      <4>1. req \in [Calls -> SP!Job]
        BY Tables
      <4>2. CASE S!PresentRefresh(c, t)
        <5>1. req'[c].pc = "find"
          BY <4>1, <4>2 DEF S!PresentRefresh, S!Become, S!Idle
        <5> QED
          BY <1>3, <5>1 DEF SP!AllPCs
      <4>3. CASE S!PresentLogout(c, t)
        <5>1. req'[c].pc = "logout_find"
          BY <4>1, <4>3 DEF S!PresentLogout, S!Become, S!Idle
        <5> QED
          BY <1>3, <5>1 DEF SP!AllPCs
      <4> QED
        BY <3>0, <4>2, <4>3
    <3>01. (\E t \in Tokens : S!PresentRefresh(c, t) \/ S!PresentLogout(c, t)) \/ Ends
      BY <2>3, Zenon DEF PresentSession
    <3>1. PICK e \in Emails : account[e] # None /\ S!BeginRevokeAll(c, e)
      BY <3>0, <3>01, Zenon
    <3>2. req'[c].user = e
      <4>1. req \in [Calls -> SP!Job]
        BY Tables
      <4> QED
        BY <3>1, <4>1 DEF S!BeginRevokeAll, S!Become, S!Idle
    <3> QED
      BY <3>1, <3>2, AccountStays
  <2>4. CASE RevokeAllRefresh(c)
    <3>1. req[c].pc \in SP!AllPCs /\ req'[c].user = req[c].user
      BY <2>4, Tables DEF RevokeAllRefresh, S!RevokeAllRefresh, S!Goto, S!Become, SP!AllPCs, SP!Job
    <3>2. account[req[c].user] # None /\ req[c].user \in Emails
      BY <3>1, Tables DEF HomeInv
    <3> QED
      BY <3>1, <3>2, AccountStays
  <2>5. CASE AccountStep(c)
    <3>1. req' = req
      BY <2>5 DEF AccountStep, sessionVars
    <3> QED
      BY <2>1, <3>1
  <2>6. CASE LogIn(c)
    <3>1. PICK f \in Families : Granted(c, f)
      BY <2>6 DEF LogIn
    <3>2. req'[c].pc = "access"
      BY <2>6, <3>1, Fresh
    <3> QED
      BY <1>3, <3>2 DEF SP!AllPCs
  <2>7. CASE RevokeAllAccess(c)
    BY <1>3, <2>7, Tables DEF RevokeAllAccess, S!RevokeAllAccess, S!Finish, S!Become, S!Idle, SP!AllPCs
  <2>8. CASE CheckAccount(c) \/ IssueAccess(c)
    <3>1. req'[c].pc \in {"idle", "access", "insert"}
      <4>1. CASE S!Drop(c)
        BY Jobs, <4>1 DEF S!Drop
      <4>2. CASE S!CheckAccount(c)
        BY Zenon, Jobs, <4>2 DEF S!CheckAccount
      <4>3. CASE S!IssueAccess(c)
        BY Zenon, Jobs, <4>3 DEF S!IssueAccess
      <4> QED
        BY Zenon, <2>8, <4>1, <4>2, <4>3 DEF CheckAccount, IssueAccess
    <3> QED
      BY <1>3, <3>1 DEF SP!AllPCs
  <2>9. CASE SessionStep(c)
    <3>1. req'[c].pc \in {"idle", "mark", "revoke", "account", "logout_family", "logout_access"}
      <4>1. CASE S!FindRefresh(c) \/ S!MarkUsed(c)
        BY Jobs, <4>1
      <4>3. CASE S!RevokeReplayed(c) \/ S!LogoutAccess(c) \/ S!InsertRefresh(c) \/ S!Drop(c)
        BY Jobs, <4>3 DEF S!RevokeReplayed, S!LogoutAccess, S!InsertRefresh, S!Drop
      <4>4. CASE S!FindLogout(c) \/ S!LogoutFamily(c)
        BY Jobs, <4>4 DEF S!FindLogout, S!LogoutFamily
      <4> QED
        BY Zenon, <2>9, <4>1, <4>3, <4>4 DEF SessionStep
    <3> QED
      BY <1>3, <3>1 DEF SP!AllPCs
  <2> QED
    BY <2>1, <2>2, <2>3, <2>4, <2>5, <2>6, <2>7, <2>8, <2>9, OneMoves DEF Acts
<1>4. ASSUME NEW c \in Calls, req'[c].pc = "access" PROVE rank'[c] # None
  <2>1. CASE \E q \in Calls : LogIn(q)
    <3>1. PICK q \in Calls, f \in Families : LogIn(q) /\ Granted(q, f)
      BY <2>1 DEF LogIn
    <3>2. CASE q = c
      BY <3>1, <3>2, Fresh, Constants
    <3>3. CASE q # c
      <4>1. rank'[c] = rank[c]
        BY <3>1, <3>3 DEF LogIn, TypeOK
      <4>2. req'[c] = req[c]
        BY <3>1, <3>3, Fresh
      <4> QED
        BY <1>4, <4>1, <4>2 DEF HomeInv
    <3> QED
      BY <3>2, <3>3
  <2>2. CASE \E q \in Calls : CheckAccount(q)
    <3>1. PICK q \in Calls : CheckAccount(q)
      BY <2>2
    <3>2. CASE q = c
      <4>1. ~S!Drop(c)
        BY <1>4, Jobs DEF S!Drop
      <4>2. rank'[c] = account[req[c].user].role /\ req[c].pc = "account"
        BY <3>1, <3>2, <4>1 DEF CheckAccount, TypeOK
      <4>3. c \in SP!Rotating(req[c].family) /\ req[c].family \in Families
        <5>1. SP!JobOK(c) /\ SP!TypeOK
          BY DEF ComposedInv, SP!IndInv
        <5> QED
          BY <4>2, <5>1 DEF SP!JobOK, SP!TypeOK, SP!Rotating, SP!RotatingPCs
      <4>4. req[c].user \in Emails /\ account[req[c].user] # None
        BY <4>3, Tables DEF HomeInv, Owns
      <4> QED
        BY <4>2, <4>4, Tables, Constants DEF AP!Row
    <3>3. CASE q # c
      <4>1. rank'[c] = rank[c]
        BY <3>1, <3>3 DEF CheckAccount, TypeOK
      <4>2. req'[c] = req[c]
        BY <3>1, <3>3, Alone DEF Acts
      <4> QED
        BY <1>4, <4>1, <4>2 DEF HomeInv
    <3> QED
      BY <3>2, <3>3
  <2>3. CASE ~(\E q \in Calls : LogIn(q) \/ CheckAccount(q))
    <3>1. rank' = rank
      <4>1. ASSUME NEW q \in Calls, Acts(q) PROVE rank' = rank
        BY Zenon, <2>3, <4>1 DEF Acts, AccountStep, StorePassword, IssueAccess, RevokeAllRefresh,
           RevokeAllAccess, PresentSession, SessionStep, roleVars
      <4>2. Tick \/ UNCHANGED vars => rank' = rank
        BY DEF Tick, vars, roleVars
      <4> QED
        BY Zenon, <4>1, <4>2 DEF Next, Acts
    <3>2. CASE req'[c] = req[c]
      BY <1>4, <3>1, <3>2 DEF HomeInv
    <3>3. CASE AccountStep(c)
      BY <3>2, <3>3 DEF AccountStep, sessionVars
    <3>4. ~StorePassword(c)
      BY <1>4, Stored
    <3>5. ~IssueAccess(c)
      <4>1. S!IssueAccess(c) => req'[c].pc = "insert"
        BY Zenon, Jobs DEF S!IssueAccess
      <4> QED
        BY <1>4, <4>1 DEF IssueAccess
    <3>6. ~RevokeAllRefresh(c) /\ ~RevokeAllAccess(c)
      <4>1. ~S!Goto(c, "all_access") /\ ~S!Finish(c)
        BY Zenon, <1>4, Jobs
      <4> QED
        BY Zenon, <4>1 DEF RevokeAllRefresh, RevokeAllAccess, S!RevokeAllRefresh, S!RevokeAllAccess
    <3>7. ~PresentSession(c)
      <4>1. ASSUME NEW t, S!PresentRefresh(c, t) PROVE req'[c].pc = "find"
        BY <4>1, Tables DEF S!PresentRefresh, S!Become, S!Idle
      <4>2. ASSUME NEW t, S!PresentLogout(c, t) PROVE req'[c].pc = "logout_find"
        BY <4>2, Tables DEF S!PresentLogout, S!Become, S!Idle
      <4>3. ASSUME NEW e, S!BeginRevokeAll(c, e) PROVE req'[c].pc = "all_refresh"
        BY <4>3, Tables DEF S!BeginRevokeAll, S!Become, S!Idle
      <4> QED
        BY <1>4, <4>1, <4>2, <4>3 DEF PresentSession
    <3>8. ~SessionStep(c)
      <4>1. ~S!FindRefresh(c) /\ ~S!MarkUsed(c)
        BY <1>4, Jobs
      <4>2. ~S!RevokeReplayed(c) /\ ~S!LogoutAccess(c) /\ ~S!InsertRefresh(c) /\ ~S!Drop(c)
        BY <1>4, Jobs DEF S!RevokeReplayed, S!LogoutAccess, S!InsertRefresh, S!Drop
      <4>3. ~S!FindLogout(c) /\ ~S!LogoutFamily(c)
        <5>1. ~S!Goto(c, "logout_family") /\ ~S!Goto(c, "logout_access") /\ ~S!Finish(c)
          BY Zenon, <1>4, Jobs
        <5> QED
          BY Zenon, <5>1 DEF S!FindLogout, S!LogoutFamily
      <4> QED
        BY Zenon, <4>1, <4>2, <4>3 DEF SessionStep
    <3> QED
      BY <2>3, <3>2, <3>3, <3>4, <3>5, <3>6, <3>7, <3>8, OneMoves DEF Acts
  <2> QED
    BY <2>1, <2>2, <2>3
<1> QED
  BY <1>1, <1>2, <1>3, <1>4 DEF HomeInv

(* What a request that has moved to the second half of revoke_all has run.   *)
LEMMA Halfway ==
    ASSUME ComposedInv, TypeOK, ChangeInv, NEW c \in Calls, Acts(c), req'[c].pc = "all_access"
    PROVE  \/ RevokeAllRefresh(c) /\ req'[c].user = req[c].user
           \/ req'[c] = req[c]
<1>1. CASE AccountStep(c)
  BY <1>1 DEF AccountStep, sessionVars
<1>2. CASE LogIn(c)
  <2>1. PICK f \in Families : Granted(c, f)
    BY <1>2 DEF LogIn
  <2>2. req'[c].pc = "access"
    <3>1. S!StartSession(c, call[c].email, f)
      BY <2>1 DEF Granted
    <3> QED
      BY <3>1, Tables DEF S!StartSession, S!Become, S!Idle
  <2> QED
    BY <2>2
<1>3. CASE StorePassword(c)
  BY <1>3, Stored
<1>4. CASE CheckAccount(c) \/ IssueAccess(c)
  <2>1. S!CheckAccount(c) => req'[c].pc \in {"idle", "access"}
    BY Zenon, Jobs DEF S!CheckAccount
  <2>2. S!Drop(c) => req'[c].pc = "idle"
    BY Zenon, Jobs DEF S!Drop
  <2>3. S!IssueAccess(c) => req'[c].pc = "insert"
    BY Zenon, Jobs DEF S!IssueAccess
  <2> QED
    BY <1>4, <2>1, <2>2, <2>3 DEF CheckAccount, IssueAccess
<1>5. CASE RevokeAllRefresh(c)
  <2>1. S!Goto(c, "all_access")
    BY <1>5 DEF RevokeAllRefresh, S!RevokeAllRefresh
  <2>2. req'[c].user = req[c].user
    BY Zenon, <2>1, Jobs
  <2> QED
    BY <1>5, <2>2
<1>6. CASE RevokeAllAccess(c)
  <2>1. S!Finish(c)
    BY <1>6 DEF RevokeAllAccess, S!RevokeAllAccess
  <2> QED
    BY <2>1, Jobs
<1>7. CASE PresentSession(c)
  <2>1. ASSUME NEW t, S!PresentRefresh(c, t) PROVE req'[c].pc = "find"
    BY <2>1, Tables DEF S!PresentRefresh, S!Become, S!Idle
  <2>2. ASSUME NEW t, S!PresentLogout(c, t) PROVE req'[c].pc = "logout_find"
    BY <2>2, Tables DEF S!PresentLogout, S!Become, S!Idle
  <2>3. ASSUME NEW e, S!BeginRevokeAll(c, e) PROVE req'[c].pc = "all_refresh"
    BY <2>3, Tables DEF S!BeginRevokeAll, S!Become, S!Idle
  <2> QED
    BY <1>7, <2>1, <2>2, <2>3 DEF PresentSession
<1>8. CASE SessionStep(c)
  <2>1. ~S!FindRefresh(c) /\ ~S!MarkUsed(c)
    BY Jobs
  <2>2. ~S!RevokeReplayed(c) /\ ~S!LogoutAccess(c) /\ ~S!InsertRefresh(c) /\ ~S!Drop(c)
    BY Jobs DEF S!RevokeReplayed, S!LogoutAccess, S!InsertRefresh, S!Drop
  <2>3. ~S!FindLogout(c) /\ ~S!LogoutFamily(c)
    <3>1. ~S!Goto(c, "logout_family") /\ ~S!Goto(c, "logout_access") /\ ~S!Finish(c)
      BY Zenon, Jobs
    <3> QED
      BY Zenon, <3>1 DEF S!FindLogout, S!LogoutFamily
  <2> QED
    BY Zenon, <1>8, <2>1, <2>2, <2>3 DEF SessionStep
<1> QED
  BY <1>1, <1>2, <1>3, <1>4, <1>5, <1>6, <1>7, <1>8 DEF Acts

(* The eras cut are eras of the past, or the present one by its own change.  *)
LEMMA CutBound ==
    ASSUME ComposedInv, TypeOK, ChangeInv, OverInv, NEW e \in Emails, NEW k \in Cut(e)
    PROVE  /\ k \in Nat /\ k <= era[e]
           /\ k # 0 => ~\E d \in Calls : change[d] = k /\ req[d].pc = "all_refresh" /\ req[d].user = e
<1>1. ASSUME NEW d \in Calls, change[d] # 0, req[d].pc \in SP!AllPCs, req[d].user = e
      PROVE  change[d] <= era[e] /\ call[d].email = e
  BY <1>1 DEF ChangeInv
<1>2. CASE k = over[e] /\ k # 0
  <2>1. PICK c \in Calls : change[c] = k /\ call[c].email = e /\ req[c].pc = "idle"
    BY <1>2 DEF OverInv
  <2>2. k <= era[e]
    BY <1>2, <2>1 DEF ChangeInv
  <2>3. ASSUME NEW d \in Calls, change[d] = k, req[d].pc = "all_refresh", req[d].user = e PROVE FALSE
    <3>1. call[d].email = e
      BY <1>1, <1>2, <2>3 DEF SP!AllPCs
    <3>2. d = c
      BY <1>2, <2>1, <2>3, <3>1 DEF ChangeInv
    <3> QED
      BY <2>1, <2>3, <3>2
  <2> QED
    BY <1>2, <2>2, <2>3 DEF TypeOK
<1>3. CASE k # 0 /\ \E c \in Calls : k = change[c] /\ req[c].pc = "all_access" /\ req[c].user = e
  <2>1. PICK c \in Calls : k = change[c] /\ req[c].pc = "all_access" /\ req[c].user = e
    BY <1>3
  <2>2. k <= era[e] /\ call[c].email = e
    BY <1>1, <1>3, <2>1 DEF SP!AllPCs
  <2>3. ASSUME NEW d \in Calls, change[d] = k, req[d].pc = "all_refresh", req[d].user = e PROVE FALSE
    <3>1. call[d].email = e
      BY <1>1, <1>3, <2>3 DEF SP!AllPCs
    <3>2. d = c
      BY <1>3, <2>1, <2>2, <2>3, <3>1 DEF ChangeInv
    <3> QED
      BY <2>1, <2>3, <3>2
  <2> QED
    BY <1>3, <2>1, <2>2, <2>3 DEF TypeOK
<1>4. CASE k = 0
  BY <1>4 DEF TypeOK
<1> QED
  BY <1>2, <1>3, <1>4 DEF Cut

(* An era joins the ones whose refresh rows are revoked only by the          *)
(* statement of revoke_all that revokes them.                                *)
LEMMA CutStep ==
    ASSUME ComposedInv, TypeOK, ChangeInv, [Next]_vars, NEW e \in Emails, NEW k, k \in Cut(e)'
    PROVE  k \in Cut(e) \/ \E c \in Calls : RevokeAllRefresh(c) /\ req[c].user = e /\ k = change[c]
<1>1. CASE k = over'[e]
  <2>1. over'[e] # over[e] => k \in Cut(e)
    BY <1>1, OverStep DEF Cut
  <2> QED
    BY <1>1, <2>1 DEF Cut
<1>2. CASE k # over'[e]
  <2>1. PICK d \in Calls : k = change'[d] /\ req'[d].pc = "all_access" /\ req'[d].user = e
    BY <1>2 DEF Cut
  <2>2. change'[d] = change[d]
    <3>1. ASSUME NEW c \in Calls, StorePassword(c) PROVE change'[d] = change[d]
      BY <2>1, <3>1, Stored
    <3>2. ASSUME NEW c \in Calls, LogIn(c) \/ RevokeAllRefresh(c) \/ RevokeAllAccess(c)
          PROVE  change' = change
      BY Zenon, <3>2 DEF LogIn, Granted, RevokeAllRefresh, RevokeAllAccess
    <3>3. UNCHANGED changeVars => change' = change
      BY DEF changeVars
    <3> QED
      BY <3>1, <3>2, <3>3, Books
  <2>3. CASE req'[d] = req[d]
    BY <2>1, <2>2, <2>3 DEF Cut
  <2>4. CASE RevokeAllRefresh(d) /\ req'[d].user = req[d].user
    BY <2>1, <2>2, <2>4
  <2> QED
    BY <2>1, <2>3, <2>4, OneMoves, Halfway
<1> QED
  BY <1>1, <1>2

(* An excuse stays one.                                                      *)
LEMMA ExcuseStays ==
    ASSUME ComposedInv, TypeOK, [Next]_vars, NEW f \in Families, NEW k \in Nat, Excused(f, k),
           ~\E q \in Calls : Granted(q, f) /\ LogIn(q)
    PROVE  Excused(f, k)'
<1>1. begun' = begun /\ spared' = spared => Excused(f, k)'
  BY DEF Excused
<1>2. ASSUME NEW c \in Calls, LogIn(c) PROVE begun'[f] = begun[f] /\ spared'[f] = spared[f]
  <2>1. PICK g \in Families : Granted(c, g) /\ LogIn(c)
    BY <1>2 DEF LogIn
  <2>2. g # f
    BY <2>1
  <2> QED
    BY <2>1, <2>2 DEF Granted, TypeOK
<1>3. ASSUME NEW c \in Calls, RevokeAllRefresh(c)
      PROVE  begun' = begun /\ spared'[f] >= spared[f] /\ spared'[f] \in Nat
  BY <1>3 DEF RevokeAllRefresh, TypeOK
<1>4. ASSUME NEW c \in Calls, StorePassword(c) \/ RevokeAllAccess(c) PROVE begun' = begun /\ spared' = spared
  BY Zenon, <1>4 DEF StorePassword, RevokeAllAccess
<1>5. UNCHANGED changeVars => begun' = begun /\ spared' = spared
  BY DEF changeVars
<1> QED
  BY <1>1, <1>2, <1>3, <1>4, <1>5, Books DEF Excused, TypeOK

(* A login that begins now is of the present era, or of the one before; then *)
(* the change that opened the present one has yet to reach refresh_tokens, or *)
(* cannot see the family.                                                    *)
LEMMA FreshExcused ==
    ASSUME ComposedInv, TypeOK, AgedInv, ChangeInv, OverInv, [Next]_vars, NEW c \in Calls, NEW f \in Families,
           Granted(c, f), LogIn(c), NEW k \in Cut(call[c].email)
    PROVE  Excused(f, k)'
<1> DEFINE e == call[c].email
           stale == call[c].seen.password # account[e].password
           pending == \E d \in Calls :
                         change[d] = era[e] /\ req[d].pc = "all_refresh" /\ req[d].user = e
<1>1. e \in Emails /\ call[c].pc \in AP!Read
  BY Fresh
<1>2. k \in Nat /\ k <= era[e] /\ era[e] \in Nat
  BY <1>1, CutBound DEF TypeOK
<1>3. begun'[f] = IF stale THEN era[e] - 1 ELSE era[e]
  BY DEF Granted, TypeOK
<1>4. spared'[f] = IF stale /\ ~pending THEN era[e] ELSE 0
  BY DEF Granted, TypeOK
<1>5. stale => era[e] # 0
  BY <1>1 DEF AgedInv
<1>6. stale /\ pending /\ k = era[e] => FALSE
  <2> SUFFICES ASSUME stale, pending, k = era[e] PROVE FALSE
    OBVIOUS
  <2>1. k # 0
    BY <1>5
  <2>2. ~\E d \in Calls : change[d] = k /\ req[d].pc = "all_refresh" /\ req[d].user = e
    BY <1>1, <2>1, CutBound
  <2> QED
    BY <2>2
<1> HIDE DEF stale, pending, e
<1> QED
  BY <1>2, <1>3, <1>4, <1>5, <1>6 DEF Excused

(* Every step keeps the redeemable sessions younger than the latest          *)
(* completed cut, but for those a race excuses.                              *)
LEMMA CutKept ==
    ASSUME ComposedInv, ComposedInv', TypeOK, HomeInv, AgedInv, ChangeInv, OverInv, CutInv, [Next]_vars
    PROVE  CutInv'
<1>1. SUFFICES ASSUME NEW f \in Families, NEW e \in Emails, NEW k, k \in Cut(e)', Owns(e, f)', Active(f)'
               PROVE  Excused(f, k)'
  BY DEF CutInv
<1>2. CASE \E q \in Calls : Granted(q, f) /\ LogIn(q)
  <2>1. PICK q \in Calls : Granted(q, f) /\ LogIn(q)
    BY <1>2
  <2>2. e = call[q].email
    <3>1. ~Owns(e, f) /\ \A r \in Calls : Granted(r, f) => r = q
      BY <2>1, Fresh
    <3> QED
      BY Zenon, <1>1, <3>1, OwnsStep
  <2>3. k \in Cut(e)
    <3>1. req[q].pc = "idle" /\ \A d \in Calls : d # q => req'[d] = req[d]
      BY <2>1, Fresh
    <3>2. ASSUME NEW d \in Calls, RevokeAllRefresh(d) PROVE FALSE
      <4>1. req[d].pc = "all_refresh" /\ req'[d].pc = "all_access"
        BY <3>2, Tables DEF RevokeAllRefresh, S!RevokeAllRefresh, S!Goto, S!Become, SP!Job
      <4>2. d = q
        BY <3>1, <4>1
      <4> QED
        BY <3>1, <4>1, <4>2
    <3> QED
      BY <1>1, <3>2, CutStep
  <2> QED
    BY <2>1, <2>2, <2>3, FreshExcused
<1>3. CASE ~\E q \in Calls : Granted(q, f) /\ LogIn(q)
  <2>1. Owns(e, f) /\ Active(f)
    BY Zenon, <1>1, <1>3, OwnsStep, ActiveStep
  <2>2. CASE k \in Cut(e)
    <3>1. Excused(f, k) /\ k \in Nat
      BY <2>1, <2>2, CutBound DEF CutInv
    <3> QED
      BY <1>3, <3>1, ExcuseStays
  <2>3. ASSUME NEW c \in Calls, RevokeAllRefresh(c), req[c].user = e, k = change[c]
        PROVE  Excused(f, k)'
    <3>1. S!RevokeAllRefresh(c)
      BY <2>3 DEF RevokeAllRefresh
    <3>2. SP!Rotating(f)' = SP!Rotating(f)
      <4>1. req[c].pc = "all_refresh" /\ req'[c].pc = "all_access"
        BY <3>1, Tables DEF S!RevokeAllRefresh, S!Goto, S!Become, SP!Job
      <4>2. \A d \in Calls : d # c => req'[d] = req[d]
        BY <3>1, Tables DEF S!RevokeAllRefresh, S!Goto, S!Become
      <4>3. "all_refresh" \notin SP!RotatingPCs /\ "all_access" \notin SP!RotatingPCs
        BY DEF SP!RotatingPCs
      <4>4. \A d \in Calls : d \in SP!Rotating(f)' <=> d \in SP!Rotating(f)
        BY <4>1, <4>2, <4>3 DEF SP!Rotating
      <4> QED
        BY <4>4 DEF SP!Rotating
    <3>3. SP!Live(f)' = {}
      <4>1. SUFFICES ASSUME NEW t \in SP!Live(f)' PROVE FALSE
        OBVIOUS
      <4>2. t \in stored' /\ t \notin revoked' /\ family'[t] = f
        BY <4>1 DEF SP!Live, SP!RowsOfFamily, SP!Redeemable
      <4>3. t \in stored /\ t \notin revoked' /\ family[t] = f
        BY <3>1, <4>2 DEF S!RevokeAllRefresh
      <4>4. t \in SP!Minted /\ user_id[t] \in Emails
        BY <4>3, Tables DEF ComposedInv, SP!IndInv, SP!RowsOK
      <4>5. user_id[t] = e
        BY <2>1, <4>3, <4>4 DEF HomeInv, Owns
      <4>6. t \in S!RowsOfUser(req[c].user)
        BY <2>3, <4>3, <4>5 DEF S!RowsOfUser
      <4> QED
        BY <3>1, <4>3, <4>6 DEF S!RevokeAllRefresh
    <3>4. PICK r \in SP!Rotating(f) : TRUE
      BY <1>1, <3>2, <3>3 DEF Active
    <3>5. req[r].user = e /\ r \in Calls
      <4>1. r \in Calls
        BY DEF SP!Rotating
      <4>2. req[r].user \in Emails /\ Owns(req[r].user, f)
        BY <4>1, Tables DEF Owns
      <4> QED
        BY <2>1, <4>1, <4>2 DEF HomeInv
    <3>6. r \in S!Rotating(f)
      BY <3>4 DEF S!Rotating, SP!Rotating, S!RotatingPCs, SP!RotatingPCs
    <3>7. spared'[f] >= change[c] /\ change[c] \in Nat /\ spared'[f] \in Nat
      BY <2>3, <3>5, <3>6 DEF RevokeAllRefresh, TypeOK
    <3> QED
      BY <2>3, <3>7 DEF Excused
  <2> QED
    BY <1>1, <2>2, <2>3, CutStep
<1> QED
  BY <1>2, <1>3

(* Every step keeps the stored access tokens younger than the latest         *)
(* finished change, but for those a race excuses.                            *)
LEMMA AccessKept ==
    ASSUME ComposedInv, ComposedInv', TypeOK, HomeInv, ChangeInv, OverInv, CutInv, AccessInv, [Next]_vars
    PROVE  AccessInv'
<1>a. [SP!Next]_SP!vars /\ SP!IndInv
  BY SessionSteps DEF ComposedInv
<1>1. SUFFICES ASSUME NEW t \in access' PROVE Excused(family[t], over[user_id[t]])'
  BY DEF AccessInv
<1>2. PICK f \in Families, e \in Emails : f = family'[t] /\ e = user_id'[t]
  <2>1. t \in SP!Minted' /\ started' \subseteq Families
    BY DEF ComposedInv, SP!IndInv, SP!RowsOK, SP!TypeOK
  <2> QED
    BY <2>1 DEF ComposedInv, SP!IndInv, SP!RowsOK
<1>3. Owns(e, f)'
  BY <1>2 DEF Owns, ComposedInv, SP!IndInv, SP!RowsOK
<1>4. CASE t \in access
  <2>1. t \in SP!Minted
    BY <1>4, Tables
  <2>2. family[t] = f /\ user_id[t] = e
    BY <1>2, <1>a, <2>1, Constants, SP!MintStep
  <2>3. over'[e] = over[e]
    <3>1. SUFFICES ASSUME over'[e] # over[e] PROVE FALSE
      OBVIOUS
    <3>2. PICK c \in Calls : RevokeAllAccess(c) /\ req[c].user = e
      BY <3>1, OverStep
    <3>3. access' = access \ S!AccessOfUser(e)
      BY <3>2 DEF RevokeAllAccess, S!RevokeAllAccess
    <3> QED
      BY <1>4, <2>2, <3>3 DEF S!AccessOfUser
  <2>4. Excused(f, over[e]) /\ over[e] \in Nat
    BY <1>4, <2>2 DEF AccessInv, TypeOK
  <2>5. ~\E q \in Calls : Granted(q, f) /\ LogIn(q)
    <3>1. Owns(e, f)
      BY <2>1, <2>2 DEF Owns
    <3> QED
      BY <3>1, Fresh
  <2>6. PICK k \in Nat : k = over[e]
    BY <2>4
  <2>7. Excused(f, k)'
    BY <2>4, <2>5, <2>6, ExcuseStays
  <2> QED
    BY <1>2, <2>3, <2>6, <2>7 DEF Excused
<1>5. CASE t \notin access
  <2>1. PICK r \in Calls : SP!IssueAccess(r) /\ f = req[r].family
    BY <1>2, <1>5, <1>a, Constants, SP!AccessStep
  <2>2. r \in SP!Rotating(f)
    BY <2>1 DEF SP!IssueAccess, SP!Rotating, SP!RotatingPCs
  <2>3. access' # access
    BY <1>5
  <2>4. ~\E q \in Calls : Granted(q, f) /\ LogIn(q)
    BY <2>3, Fresh
  <2>5. Owns(e, f) /\ Active(f)
    BY Zenon, <1>3, <2>2, <2>4, OwnsStep DEF Active
  <2>6. over[e] \in Cut(e) /\ over[e] \in Nat
    BY DEF Cut, TypeOK
  <2>7. Excused(f, over[e])
    BY <2>5, <2>6 DEF CutInv
  <2>8. over'[e] = over[e]
    <3>1. SUFFICES ASSUME over'[e] # over[e] PROVE FALSE
      OBVIOUS
    <3>2. PICK c \in Calls : RevokeAllAccess(c)
      BY <3>1, OverStep
    <3>3. access' \subseteq access
      BY <3>2 DEF RevokeAllAccess, S!RevokeAllAccess
    <3> QED
      BY <1>5, <3>3
  <2>9. PICK k \in Nat : k = over[e]
    BY <2>6
  <2>10. Excused(f, k)'
    BY <2>4, <2>7, <2>9, ExcuseStays
  <2> QED
    BY <1>2, <2>8, <2>9, <2>10 DEF Excused
<1> QED
  BY <1>4, <1>5

(* The types: of the roles, and of the books.                                *)
LEMMA RolesKept ==
    ASSUME ComposedInv, ComposedInv', TypeOK, HomeInv, [Next]_vars
    PROVE  /\ rank' \in [Calls -> {"user", "admin", None}]
           /\ role' \in [Tokens -> {"user", "admin", None}]
           /\ \A t \in access' : role'[t] # None
<1>1. ASSUME NEW c \in Calls, LogIn(c)
      PROVE  /\ rank' \in [Calls -> {"user", "admin", None}]
             /\ role' = role /\ access' = access
  <2>1. PICK f \in Families : Granted(c, f) /\ LogIn(c)
    BY <1>1 DEF LogIn
  <2>2. rank'[c] \in {"user", "admin"} /\ role' = role /\ access' = access
    BY <2>1, Fresh
  <2>3. rank' = [rank EXCEPT ![c] = call[c].seen.role]
    BY <1>1 DEF LogIn
  <2> QED
    BY <2>2, <2>3 DEF TypeOK
<1>2. ASSUME NEW c \in Calls, CheckAccount(c)
      PROVE  /\ rank' \in [Calls -> {"user", "admin", None}]
             /\ role' = role /\ access' = access
  <2>1. role' = role /\ access' = access
    BY <1>2 DEF CheckAccount, S!CheckAccount, S!Drop, S!accessVars
  <2>2. c \in SP!Rotating(req[c].family) /\ req[c].family \in Families
    <3>1. SP!JobOK(c) /\ SP!TypeOK
      BY DEF ComposedInv, SP!IndInv
    <3>2. req[c].pc = "account"
      BY <1>2 DEF CheckAccount
    <3> QED
      BY <3>1, <3>2 DEF SP!JobOK, SP!TypeOK, SP!Rotating, SP!RotatingPCs
  <2>3. req[c].user \in Emails /\ account[req[c].user] # None
    BY <2>2, Tables DEF HomeInv, Owns
  <2>4. account[req[c].user].role \in {"user", "admin"}
    BY <2>3, Tables DEF AP!Row
  <2> QED
    BY <1>2, <2>1, <2>4 DEF CheckAccount, TypeOK
<1>3. ASSUME NEW c \in Calls, IssueAccess(c)
      PROVE  /\ rank' = rank
             /\ role' \in [Tokens -> {"user", "admin", None}]
             /\ \A t \in access' : role'[t] # None
  <2>1. PICK t \in Tokens : /\ t \notin S!Minted
                            /\ S!Become(c, [req[c] EXCEPT !.pc = "insert", !.token = t, !.at = now])
                            /\ access' \subseteq access \cup {t}
    BY <1>3 DEF IssueAccess, S!IssueAccess, S!accessVars
  <2>2. req'[c].token = t
    BY <2>1, Tables DEF S!Become, SP!Job
  <2>3. rank[c] # None
    BY <1>3 DEF IssueAccess, S!IssueAccess, HomeInv
  <2>4. role' = [role EXCEPT ![t] = rank[c]] /\ rank' = rank
    BY <1>3, <2>2 DEF IssueAccess
  <2> QED
    BY <2>1, <2>3, <2>4 DEF TypeOK
<1>4. ASSUME NEW c \in Calls, Acts(c), ~LogIn(c), ~CheckAccount(c), ~IssueAccess(c)
      PROVE  rank' = rank /\ role' = role
  BY Zenon, <1>4 DEF Acts, AccountStep, StorePassword, RevokeAllRefresh, RevokeAllAccess, PresentSession,
     SessionStep, roleVars
<1>5. Tick \/ UNCHANGED vars => rank' = rank /\ role' = role
  BY DEF Tick, vars, roleVars
<1>6. ASSUME ~\E c \in Calls : IssueAccess(c) PROVE access' \subseteq access
  <2>1. [SP!Next]_SP!vars /\ SP!IndInv
    BY SessionSteps DEF ComposedInv
  <2>2. SUFFICES ASSUME NEW t \in access' \ access PROVE FALSE
    OBVIOUS
  <2>3. PICK r \in Calls : SP!IssueAccess(r)
    BY <2>1, <2>2, Constants, SP!AccessStep
  <2>4. req[r].pc = "access" /\ req'[r].pc = "insert"
    <3>1. S!IssueAccess(r)
      BY <2>3, SameSessions
    <3> QED
      BY Zenon, <3>1, Jobs DEF S!IssueAccess
  <2>5. access' # access
    BY <2>2
  <2>6. ~AccountStep(r)
    BY <2>5 DEF AccountStep, sessionVars
  <2>7. ~LogIn(r)
    BY <2>5, Fresh DEF LogIn
  <2>8. /\ ~StorePassword(r) /\ ~CheckAccount(r) /\ ~RevokeAllRefresh(r) /\ ~RevokeAllAccess(r)
        /\ ~PresentSession(r)
    BY <2>4 DEF StorePassword, CheckAccount, RevokeAllRefresh, RevokeAllAccess, PresentSession,
       S!BeginRevokeAll, S!RevokeAllRefresh, S!RevokeAllAccess, S!PresentRefresh, S!PresentLogout
  <2>9. SessionStep(r) => S!Drop(r) \/ S!InsertRefresh(r)
    BY <2>4 DEF SessionStep, S!FindRefresh, S!MarkUsed, S!RevokeReplayed, S!FindLogout,
       S!LogoutFamily, S!LogoutAccess
  <2>10. S!Drop(r) \/ S!InsertRefresh(r) => access' = access
    BY DEF S!Drop, S!InsertRefresh, S!accessVars
  <2> QED
    BY <1>6, <2>4, <2>5, <2>6, <2>7, <2>8, <2>9, <2>10, OneMoves DEF Acts
<1>7. CASE \E c \in Calls : IssueAccess(c)
  BY <1>3, <1>7 DEF TypeOK
<1>8. CASE ~\E c \in Calls : IssueAccess(c)
  <2>1. rank' \in [Calls -> {"user", "admin", None}] /\ role' = role
    <3>1. ASSUME NEW c \in Calls, Acts(c) PROVE rank' \in [Calls -> {"user", "admin", None}] /\ role' = role
      BY <1>1, <1>2, <1>4, <1>8, <3>1 DEF TypeOK
    <3>2. Tick \/ UNCHANGED vars => rank' \in [Calls -> {"user", "admin", None}] /\ role' = role
      BY <1>5 DEF TypeOK
    <3> QED
      BY Zenon, <3>1, <3>2 DEF Next, Acts
  <2> QED
    BY <1>6, <1>8, <2>1 DEF TypeOK
<1> QED
  BY <1>7, <1>8

(* Every step keeps the bookkeeping of eras made of numbers.                 *)
LEMMA BooksKept ==
    ASSUME ComposedInv, TypeOK, ChangeInv, AgedInv, [Next]_vars
    PROVE  /\ era' \in [Emails -> Nat] /\ begun' \in [Families -> Nat] /\ change' \in [Calls -> Nat]
           /\ over' \in [Emails -> Nat] /\ spared' \in [Families -> Nat]
<1>1. ASSUME NEW c \in Calls, NEW f \in Families, Granted(c, f), LogIn(c)
      PROVE  begun' \in [Families -> Nat] /\ spared' \in [Families -> Nat]
             /\ era' = era /\ change' = change /\ over' = over
  <2>1. call[c].email \in Emails /\ call[c].pc \in AP!Read
    BY <1>1, Fresh
  <2>2. call[c].seen.password # account[call[c].email].password => era[call[c].email] - 1 \in Nat
    BY <2>1 DEF AgedInv, TypeOK
  <2> DEFINE b == IF call[c].seen.password # account[call[c].email].password
                    THEN era[call[c].email] - 1 ELSE era[call[c].email]
  <2>3. b \in Nat
    BY <2>1, <2>2 DEF TypeOK
  <2>4. begun' = [begun EXCEPT ![f] = b]
    BY <1>1 DEF Granted
  <2>5. spared'[f] \in Nat /\ \E n \in Nat : spared' = [spared EXCEPT ![f] = n]
    BY <1>1, <2>1 DEF Granted, TypeOK
  <2>6. era' = era /\ change' = change /\ over' = over
    BY <1>1 DEF Granted
  <2> HIDE DEF b
  <2> QED
    BY <2>3, <2>4, <2>5, <2>6 DEF TypeOK
<1>2. ASSUME NEW c \in Calls, LogIn(c)
      PROVE  begun' \in [Families -> Nat] /\ spared' \in [Families -> Nat]
             /\ era' = era /\ change' = change /\ over' = over
  BY <1>1, <1>2 DEF LogIn
<1>3. ASSUME NEW c \in Calls, StorePassword(c)
      PROVE  era' \in [Emails -> Nat] /\ change' \in [Calls -> Nat]
             /\ begun' = begun /\ spared' = spared /\ over' = over
  <2>1. call[c].email \in Emails
    BY <1>3, Stored
  <2> QED
    BY <1>3, <2>1 DEF StorePassword, TypeOK
<1>4. ASSUME NEW c \in Calls, RevokeAllRefresh(c)
      PROVE  spared' \in [Families -> Nat]
             /\ era' = era /\ change' = change /\ begun' = begun /\ over' = over
  BY <1>4 DEF RevokeAllRefresh, TypeOK
<1>5. ASSUME NEW c \in Calls, RevokeAllAccess(c)
      PROVE  over' \in [Emails -> Nat]
             /\ era' = era /\ change' = change /\ begun' = begun /\ spared' = spared
  BY <1>5 DEF RevokeAllAccess, TypeOK
<1>6. UNCHANGED changeVars => UNCHANGED <<era, change, begun, spared, over>>
  BY DEF changeVars
<1> QED
  BY <1>2, <1>3, <1>4, <1>5, <1>6, Books DEF TypeOK

(* Every step of the composition keeps the inductive invariant.              *)
LEMMA Preserved ==
    ASSUME ComposedInv, ComposedInv', AuthInv, [Next]_vars
    PROVE  AuthInv'
<1>1. TypeOK'
  BY RolesKept, BooksKept DEF AuthInv, TypeOK
<1> QED
  BY <1>1, HomeKept, AgedKept, ChangeKept, OverKept, CutKept, AccessKept DEF AuthInv

(* The initial states satisfy the inductive invariant.                       *)
LEMMA Initially == Init /\ ComposedInv => AuthInv
<1> SUFFICES ASSUME Init, ComposedInv PROVE AuthInv
  OBVIOUS
<1>1. /\ \A c \in Calls : req[c].pc = "idle"
      /\ \A t \in Tokens : family[t] = None
      /\ access = {} /\ stored = {}
  BY DEF Init, S!Init, S!Idle
<1>2. TypeOK
  BY <1>1 DEF Init, TypeOK
<1>3. \A e, f : ~Owns(e, f)
  BY <1>1 DEF Owns, SP!Minted, SP!Rotating, SP!RotatingPCs
<1>4. HomeInv
  BY <1>1, <1>3 DEF HomeInv, SP!AllPCs
<1>5. AgedInv
  BY DEF AgedInv, Init, A!Fresh, AP!Read
<1>6. ChangeInv /\ OverInv
  BY DEF ChangeInv, OverInv, Init
<1>7. CutInv /\ AccessInv
  BY <1>1, <1>3 DEF CutInv, AccessInv
<1> QED
  BY <1>2, <1>4, <1>5, <1>6, <1>7 DEF AuthInv

-----------------------------------------------------------------------------
(* The books of every behaviour of the composition are in order.             *)
THEOREM Invariant == Spec => []AuthInv
<1>1. Init /\ ComposedInv => AuthInv
  BY Initially
<1>2. ComposedInv /\ ComposedInv' /\ AuthInv /\ [Next]_vars => AuthInv'
  BY Preserved
<1> QED
  BY <1>1, <1>2, Composed, PTL DEF Spec

(* Every request has a role to write before it writes it, also after a       *)
(* login and a refresh that overlapped a bootstrap.                           *)
THEOREM TypeCorrect == Spec => []TypeOK
<1>1. AuthInv => TypeOK
  BY DEF AuthInv
<1> QED
  BY <1>1, Invariant, PTL

(* Once a change of password is answered, what is left of a session begun    *)
(* with an old password was being rotated, or opened by a login that had     *)
(* read the account before: for any number of accounts, of logins and of     *)
(* changes that run at a time, and wherever they are dropped.                *)
THEOREM SurvivorsHold == Spec => []SurvivorsOverlapped
<1>1. ComposedInv /\ AuthInv => SurvivorsOverlapped
  <2> SUFFICES ASSUME ComposedInv, AuthInv, NEW t \in S!Minted, Works(t)
               PROVE  over[user_id[t]] <= begun[family[t]] \/ over[user_id[t]] <= spared[family[t]]
    BY DEF SurvivorsOverlapped
  <2>1. t \in SP!Minted
    BY DEF S!Minted, SP!Minted
  <2>2. family[t] \in Families /\ user_id[t] \in Emails
    BY <2>1, Tables
  <2>3. CASE t \in access
    BY <2>3 DEF AuthInv, AccessInv, Excused
  <2>4. CASE t \in stored /\ S!Redeemable(t)
    <3>1. Owns(user_id[t], family[t])
      BY <2>1 DEF Owns
    <3>2. t \in SP!Live(family[t])
      BY <2>4 DEF SP!Live, SP!RowsOfFamily, SP!Redeemable, S!Redeemable
    <3>3. over[user_id[t]] \in Cut(user_id[t])
      BY DEF Cut
    <3> QED
      BY <2>2, <3>1, <3>2, <3>3 DEF AuthInv, CutInv, Active, Excused
  <2> QED
    BY <2>3, <2>4 DEF Works
<1> QED
  BY <1>1, Composed, Invariant, PTL

(* Of the sessions of the composition, too, each is one chain of single-use  *)
(* tokens, although its refreshes consult the account in between.            *)
THEOREM SessionsAreChains == Spec => []S!OneChain
<1>1. SP!IndInv => S!OneChain
  BY DEF SP!IndInv, SP!OneChain, S!OneChain, SP!Unspent, S!Unspent, SP!Rotating, S!Rotating,
     SP!RotatingPCs, S!RotatingPCs
<1> QED
  BY <1>1, Composed, PTL DEF ComposedInv

====
