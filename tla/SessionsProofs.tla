--------------------------- MODULE SessionsProofs ---------------------------
(***************************************************************************)
(* Theorems about Sessions, for any number of accounts, logins, tokens and *)
(* requests, any lifetimes and both access-token formats.                  *)
(***************************************************************************)
EXTENDS Sessions, TLAPS

-----------------------------------------------------------------------------
(* The inductive invariant behind the theorems.                             *)

\* The tables only hold tokens that were issued, to a login that was begun.
RowsOK ==
    /\ stored \subseteq issued /\ used \subseteq issued /\ revoked \subseteq issued
    /\ held \subseteq issued /\ issued \subseteq Minted /\ access \subseteq Minted
    /\ \A t \in Minted : family[t] \in started /\ user_id[t] \in Users

\* What the local variables of a request are, by the statement it has reached.
JobOK(r) ==
    /\ req[r].pc \in RotatingPCs => req[r].user \in Users /\ req[r].family \in started
    /\ req[r].pc \in RedeemPCs \cup LogoutPCs => req[r].token \in issued
    /\ req[r].pc \in AllPCs => req[r].user \in Users
    /\ req[r].pc = "insert" => /\ req[r].token \in Minted \ issued
                               /\ family[req[r].token] = req[r].family
    /\ req[r].pc = "revoke" => ~Redeemable(req[r].token)

(* Every part of the argument at once: the types, what rows and requests   *)
(* refer to, that no two requests are about to insert the same token, that *)
(* the sweep works with a clock reading of the past, and the chain itself. *)
IndInv ==
    /\ TypeOK
    /\ RowsOK
    /\ \A r \in Reqs : JobOK(r)
    /\ \A q, r \in Reqs :
          req[q].pc = "insert" /\ req[r].pc = "insert" /\ req[q].token = req[r].token => q = r
    /\ sweep.cutoff <= now
    /\ RowsOutliveValidity
    /\ OneChain

-----------------------------------------------------------------------------
(***************************************************************************)
(* The steps of a request that leave the tables alone keep TypeOK as long  *)
(* as the local variables they write have the types of Job.                *)
(***************************************************************************)
LEMMA TypeStep == IndInv /\ [Next]_vars => TypeOK'
<1> SUFFICES ASSUME IndInv, [Next]_vars PROVE TypeOK'
  OBVIOUS
<1> USE SessionsAssumption
<1>a. TypeOK /\ RowsOK
  BY DEF IndInv
<1>i. Idle \in Job
  BY DEF Idle, Job
<1>j. ASSUME NEW r \in Reqs PROVE JobOK(r) /\ req[r] \in Job
  BY DEF IndInv, TypeOK
<1> USE <1>a, <1>i DEF Become, TypeOK, RowsOK, refreshVars, accessVars, historyVars
<1>1. ASSUME NEW r \in Reqs, RequestBegins(r) PROVE TypeOK'
  <2> DEFINE Begun == req' \in [Reqs -> Job]
  <2> USE <1>j
  <2>1. ASSUME NEW u \in Users, NEW f \in Families, StartSession(r, u, f) PROVE TypeOK'
    <3>1. Begun
      BY <2>1 DEF StartSession, Job, RotatingPCs
    <3> QED
      BY <2>1, <3>1 DEF StartSession
  <2>2. ASSUME NEW t \in Tokens, PresentRefresh(r, t) PROVE TypeOK'
    <3>1. Begun
      BY <2>2 DEF PresentRefresh, Job, RedeemPCs
    <3> QED
      BY <2>2, <3>1 DEF PresentRefresh
  <2>3. ASSUME NEW t \in Tokens, PresentLogout(r, t) PROVE TypeOK'
    <3>1. Begun
      BY <2>3 DEF PresentLogout, Job, LogoutPCs
    <3> QED
      BY <2>3, <3>1 DEF PresentLogout
  <2>4. ASSUME NEW u \in Users, BeginRevokeAll(r, u) PROVE TypeOK'
    <3>1. Begun
      BY <2>4 DEF BeginRevokeAll, Job, AllPCs
    <3> QED
      BY <2>4, <3>1 DEF BeginRevokeAll
  <2> QED
    BY <1>1, <2>1, <2>2, <2>3, <2>4 DEF RequestBegins
<1>2. ASSUME NEW r \in Reqs, RequestStep(r) PROVE TypeOK'
  <2> USE <1>j DEF JobOK, Goto, Finish
  <2>1. CASE IssueAccess(r)
    <3> PICK t \in Tokens \ Minted : IssueAccess(r)!2!(t)
      BY <2>1 DEF IssueAccess
    <3>1. [req[r] EXCEPT !.pc = "insert", !.token = t, !.at = now] \in Job
      BY DEF Job, RotatingPCs
    <3>2. req' \in [Reqs -> Job]
      BY <3>1
    <3>3. /\ user_id' \in [Tokens -> Users \cup {None}]
          /\ family' \in [Tokens -> Families \cup {None}]
          /\ access' \subseteq Tokens
      BY <2>1 DEF IssueAccess, RotatingPCs
    <3>4. access_expires_at' \in [Tokens -> Nat]
      <4>1. req[r].at..now \subseteq Nat
        BY DEF Job
      <4>2. \A at \in Nat : [access_expires_at EXCEPT ![t] = at + AccessTtl] \in [Tokens -> Nat]
        OBVIOUS
      <4> QED
        BY <4>1, <4>2
    <3> QED
      BY <2>1, <3>2, <3>3, <3>4 DEF IssueAccess
  <2>2. CASE InsertRefresh(r)
    <3>1. req[r].at..now \subseteq Nat
      BY DEF Job
    <3> PICK t \in Tokens : t = req[r].token
      BY <2>2 DEF InsertRefresh, Minted
    <3>2. \A at \in Nat : [expires_at EXCEPT ![t] = at + RefreshTtl] \in [Tokens -> Nat]
      OBVIOUS
    <3>3. expires_at' \in [Tokens -> Nat]
      BY <2>2, <3>1, <3>2 DEF InsertRefresh
    <3> QED
      BY <2>2, <3>3 DEF InsertRefresh, Minted
  <2>3. CASE FindRefresh(r)
    <3> DEFINE t == req[r].token
    <3>1. t \in Tokens
      BY <2>3 DEF FindRefresh, RedeemPCs
    <3>2. /\ [Idle EXCEPT !.pc = "mark", !.token = t] \in Job
          /\ [Idle EXCEPT !.pc = "revoke", !.token = t] \in Job
      BY <3>1 DEF Job, RedeemPCs
    <3>3. req' \in [Reqs -> Job]
      BY <2>3, <3>2 DEF FindRefresh
    <3> QED
      BY <2>3, <3>3 DEF FindRefresh
  <2>4. CASE MarkUsed(r)
    <3> DEFINE t == req[r].token
    <3>1. t \in Tokens
      BY <2>4 DEF MarkUsed, RedeemPCs
    <3>2. /\ [Idle EXCEPT !.pc = "account", !.user = user_id[t], !.family = family[t]] \in Job
          /\ [req[r] EXCEPT !.pc = "revoke"] \in Job
      BY <3>1 DEF Job, RotatingPCs, RedeemPCs
    <3>3. req' \in [Reqs -> Job]
      BY <2>4, <3>2 DEF MarkUsed
    <3> QED
      BY <2>4, <3>1, <3>3 DEF MarkUsed
  <2>5. CASE RevokeReplayed(r)
    BY <2>5 DEF RevokeReplayed, RowsOfFamily, RedeemPCs, Minted
  <2>6. CASE CheckAccount(r)
    <3>1. [req[r] EXCEPT !.pc = "access", !.at = now] \in Job
      BY DEF Job, RotatingPCs
    <3>2. req' \in [Reqs -> Job]
      BY <2>6, <3>1 DEF CheckAccount
    <3> QED
      BY <2>6, <3>2 DEF CheckAccount
  <2>7. CASE FindLogout(r) \/ LogoutFamily(r) \/ LogoutAccess(r)
    BY <2>7 DEF FindLogout, LogoutFamily, LogoutAccess, Job, RowsOfFamily, LogoutPCs
  <2>8. CASE RevokeAllRefresh(r) \/ RevokeAllAccess(r)
    BY <2>8 DEF RevokeAllRefresh, RevokeAllAccess, Job, RowsOfUser, AllPCs
  <2>9. CASE Drop(r)
    BY <2>9 DEF Drop
  <2> QED
    BY <1>2, <2>1, <2>2, <2>3, <2>4, <2>5, <2>6, <2>7, <2>8, <2>9 DEF RequestStep
<1>3. CASE Janitor
  BY <1>3 DEF Janitor, SweepStart, SweepRefresh, SweepAccess, SweepFail
<1>4. CASE Environment
  BY <1>4 DEF Environment, Tick, LockAccount, UnlockAccount
<1>5. CASE UNCHANGED vars
  BY <1>5 DEF vars
<1> QED
  BY <1>1, <1>2, <1>3, <1>4, <1>5 DEF Next

(***************************************************************************)
(* Which steps change the tables and their history, and which of them by a *)
(* statement of a request: every other step leaves all of it as it is.     *)
(***************************************************************************)
StillTables == UNCHANGED <<stored, used, revoked, user_id, family, expires_at, access,
                           access_expires_at, issued, held, started, condemned>>
Issues(r) == IssueAccess(r) \/ InsertRefresh(r) \/ MarkUsed(r)
Revokes(r) ==
    \/ RevokeReplayed(r) \/ LogoutFamily(r) \/ LogoutAccess(r)
    \/ RevokeAllRefresh(r) \/ RevokeAllAccess(r)

\* A step starts a session, runs a statement of a request or of the sweep, or
\* writes nothing.
LEMMA Ways ==
  ASSUME [Next]_vars
  PROVE  \/ \E r \in Reqs, u \in Users, f \in Families : StartSession(r, u, f)
         \/ \E r \in Reqs : Issues(r) \/ Revokes(r)
         \/ SweepRefresh \/ SweepAccess \/ StillTables
<1>1. ASSUME NEW r \in Reqs, RequestBegins(r)
      PROVE  (\E u \in Users, f \in Families : StartSession(r, u, f)) \/ StillTables
  <2>1. ASSUME NEW t \in Tokens, PresentRefresh(r, t) \/ PresentLogout(r, t) PROVE StillTables
    BY <2>1 DEF PresentRefresh, PresentLogout, refreshVars, accessVars, historyVars, StillTables
  <2>2. ASSUME NEW u \in Users, BeginRevokeAll(r, u) PROVE StillTables
    BY <2>2 DEF BeginRevokeAll, refreshVars, accessVars, historyVars, StillTables
  <2> QED
    BY <1>1, <2>1, <2>2 DEF RequestBegins
<1>2. ASSUME NEW r \in Reqs, RequestStep(r) PROVE Issues(r) \/ Revokes(r) \/ StillTables
  <2>1. CASE FindRefresh(r) \/ CheckAccount(r) \/ FindLogout(r) \/ Drop(r)
    BY <2>1 DEF FindRefresh, CheckAccount, FindLogout, Drop, refreshVars, accessVars, historyVars,
                StillTables
  <2> QED
    BY <1>2, <2>1 DEF RequestStep, Issues, Revokes
<1>3. ASSUME SweepStart \/ SweepFail PROVE StillTables
  BY <1>3 DEF SweepStart, SweepFail, refreshVars, accessVars, historyVars, StillTables
<1>4. ASSUME Environment PROVE StillTables
  BY <1>4 DEF Environment, Tick, LockAccount, UnlockAccount, refreshVars, accessVars, historyVars,
              StillTables
<1>5. ASSUME UNCHANGED vars PROVE StillTables
  BY <1>5 DEF vars, refreshVars, accessVars, historyVars, StillTables
<1> QED
  BY <1>1, <1>2, <1>3, <1>4, <1>5 DEF Next, Janitor

\* What one step adds to the history it never takes from, and what it stores.
LEMMA Grows ==
  ASSUME [Next]_vars
  PROVE  /\ started \subseteq started' /\ used \subseteq used' /\ revoked \subseteq revoked'
         /\ (\E r \in Reqs : InsertRefresh(r)) \/ (issued' = issued /\ stored' \subseteq stored)
<1> USE DEF refreshVars, accessVars, historyVars
<1> DEFINE Grow == started \subseteq started' /\ used \subseteq used' /\ revoked \subseteq revoked'
           Keep == issued' = issued /\ stored' \subseteq stored
<1>1. ASSUME NEW r \in Reqs, Revokes(r) PROVE Grow /\ Keep
  BY <1>1 DEF Revokes, RevokeReplayed, LogoutFamily, LogoutAccess, RevokeAllRefresh, RevokeAllAccess
<1>2. ASSUME NEW r \in Reqs, Issues(r) PROVE Grow /\ (Keep \/ InsertRefresh(r))
  BY <1>2 DEF Issues, IssueAccess, InsertRefresh, MarkUsed
<1>3. ASSUME NEW r \in Reqs, NEW u \in Users, NEW f \in Families, StartSession(r, u, f)
      PROVE  Grow /\ Keep
  BY <1>3 DEF StartSession
<1>4. ASSUME SweepRefresh \/ SweepAccess \/ StillTables PROVE Grow /\ Keep
  BY <1>4 DEF SweepRefresh, SweepAccess, StillTables
<1> HIDE DEF Grow, Keep
<1>5. Grow /\ (Keep \/ \E r \in Reqs : InsertRefresh(r))
  BY <1>1, <1>2, <1>3, <1>4, Ways
<1> QED
  BY <1>5 DEF Grow, Keep

(***************************************************************************)
(* A minted token keeps its login and its account for ever; only           *)
(* IssueAccess mints one, for the login of the request that runs it.       *)
(***************************************************************************)
LEMMA MintStep ==
  ASSUME IndInv, [Next]_vars
  PROVE  /\ \A t \in Minted : /\ t \in Minted'
                              /\ family'[t] = family[t] /\ user_id'[t] = user_id[t]
         /\ \A t \in Minted' \ Minted :
               \E r \in Reqs : /\ IssueAccess(r)
                               /\ family'[t] = req[r].family /\ user_id'[t] = req[r].user
<1> USE DEF IndInv, TypeOK, refreshVars
<1>1. CASE \E r \in Reqs : IssueAccess(r)
  <2> PICK r \in Reqs : IssueAccess(r)
    BY <1>1
  <2>1. PICK t \in Tokens \ Minted : IssueAccess(r)!2!(t)
    BY DEF IssueAccess
  <2>2. \A s \in Tokens : s # t => family'[s] = family[s] /\ user_id'[s] = user_id[s]
    BY <2>1
  <2>3. family'[t] = req[r].family /\ user_id'[t] = req[r].user
    BY <2>1
  <2> QED
    BY <2>2, <2>3 DEF Minted
<1>2. CASE family' = family /\ user_id' = user_id
  BY <1>2 DEF Minted
<1>3. (\E r \in Reqs : IssueAccess(r)) \/ (family' = family /\ user_id' = user_id)
  <2>1. ASSUME NEW r \in Reqs, Revokes(r) PROVE family' = family /\ user_id' = user_id
    BY <2>1 DEF Revokes, RevokeReplayed, LogoutFamily, LogoutAccess, RevokeAllRefresh, RevokeAllAccess
  <2>2. ASSUME NEW r \in Reqs, Issues(r), ~IssueAccess(r) PROVE family' = family /\ user_id' = user_id
    BY <2>2 DEF Issues, InsertRefresh, MarkUsed
  <2>3. ASSUME NEW r \in Reqs, NEW u \in Users, NEW f \in Families, StartSession(r, u, f)
        PROVE  family' = family /\ user_id' = user_id
    BY <2>3 DEF StartSession
  <2>4. ASSUME SweepRefresh \/ SweepAccess \/ StillTables PROVE family' = family /\ user_id' = user_id
    BY <2>4 DEF SweepRefresh, SweepAccess, StillTables
  <2> QED
    BY <2>1, <2>2, <2>3, <2>4, Ways
<1> QED
  BY <1>1, <1>2, <1>3

(***************************************************************************)
(* The columns stay within the rows that were issued, and the issued rows  *)
(* within the tokens minted for a login that was begun.                    *)
(***************************************************************************)
LEMMA RowsStep ==
  ASSUME IndInv, [Next]_vars
  PROVE  RowsOK'
<1> USE DEF refreshVars, accessVars, historyVars
<1>a. TypeOK /\ RowsOK /\ \A r \in Reqs : JobOK(r)
  BY DEF IndInv
<1>m. /\ Minted \subseteq Minted'
      /\ \A t \in Minted' : family'[t] \in started' /\ user_id'[t] \in Users
  <2>1. started \subseteq started'
    BY Grows
  <2>2. ASSUME NEW t \in Minted' \ Minted PROVE family'[t] \in started /\ user_id'[t] \in Users
    <3> PICK r \in Reqs : IssueAccess(r) /\ family'[t] = req[r].family /\ user_id'[t] = req[r].user
      BY MintStep
    <3> QED
      BY <1>a DEF JobOK, RotatingPCs, IssueAccess
  <2> QED
    BY <1>a, <2>1, <2>2, MintStep DEF RowsOK
<1> DEFINE Fewer == /\ UNCHANGED <<used, issued, held>>
                    /\ stored' \subseteq stored /\ access' \subseteq access
                    /\ revoked' \subseteq revoked \cup stored
<1>r. \/ \E r \in Reqs : Issues(r)
      \/ Fewer
  <2>1. ASSUME NEW r \in Reqs, Revokes(r) PROVE Fewer
    BY <2>1 DEF Revokes, RevokeReplayed, LogoutFamily, LogoutAccess, RevokeAllRefresh,
                RevokeAllAccess, RowsOfFamily, RowsOfUser
  <2>2. ASSUME NEW r \in Reqs, NEW u \in Users, NEW f \in Families, StartSession(r, u, f) PROVE Fewer
    BY <2>2 DEF StartSession
  <2>3. ASSUME SweepRefresh \/ SweepAccess \/ StillTables PROVE Fewer
    BY <2>3 DEF SweepRefresh, SweepAccess, StillTables
  <2> HIDE DEF Fewer
  <2> QED
    BY <2>1, <2>2, <2>3, Ways
<1>2. ASSUME NEW r \in Reqs, IssueAccess(r) PROVE RowsOK'
  <2> PICK t \in Tokens \ Minted : IssueAccess(r)!2!(t)
    BY <1>2 DEF IssueAccess
  <2>1. t \in Minted'
    BY <1>a, <1>2, SessionsAssumption DEF Minted, TypeOK, JobOK, IssueAccess, RotatingPCs
  <2> QED
    BY <1>a, <1>m, <1>2, <2>1 DEF RowsOK, IssueAccess
<1>3. ASSUME NEW r \in Reqs, InsertRefresh(r) PROVE RowsOK'
  BY <1>a, <1>m, <1>3 DEF RowsOK, JobOK, InsertRefresh
<1>4. ASSUME NEW r \in Reqs, MarkUsed(r) PROVE RowsOK'
  BY <1>a, <1>m, <1>4 DEF RowsOK, MarkUsed, Redeemable
<1>5. CASE Fewer
  BY <1>5, <1>a, <1>m DEF RowsOK
<1> HIDE DEF Fewer
<1> QED
  BY <1>r, <1>2, <1>3, <1>4, <1>5 DEF Issues

(***************************************************************************)
(* What never shrinks: begun logins, issued, spent and revoked tokens.  A  *)
(* row mark_used would not take is never taken later; and the one          *)
(* statement that issues a token is the insert of a request.               *)
(***************************************************************************)
LEMMA GrowStep ==
  ASSUME IndInv, [Next]_vars
  PROVE  /\ started \subseteq started' /\ issued \subseteq issued'
         /\ used \subseteq used' /\ revoked \subseteq revoked'
         /\ \A t \in issued : t \notin stored => t \notin stored'
         /\ \A t \in issued' \ issued :
               \E r \in Reqs : InsertRefresh(r) /\ t = req[r].token
<1>1. ASSUME NEW r \in Reqs, InsertRefresh(r)
      PROVE  /\ \A t \in issued : t \notin stored => t \notin stored'
             /\ issued' = issued \cup {req[r].token}
  BY <1>1 DEF IndInv, JobOK, InsertRefresh
<1> QED
  BY <1>1, Grows

\* A step of a request sets its own local variables and no other request's.
LEMMA OthersKeep ==
  ASSUME IndInv, NEW r \in Reqs, RequestBegins(r) \/ RequestStep(r)
  PROVE  /\ \A q \in Reqs : q # r => req'[q] = req[q]
         /\ \A j : Become(r, j) => req'[r] = j
<1>1. \E j : req' = [req EXCEPT ![r] = j]
  BY DEF RequestBegins, RequestStep, StartSession,
         PresentRefresh, PresentLogout, BeginRevokeAll, IssueAccess, InsertRefresh,
         FindRefresh, MarkUsed, RevokeReplayed, CheckAccount, FindLogout, LogoutFamily,
         LogoutAccess, RevokeAllRefresh, RevokeAllAccess, Drop, Become, Goto, Finish
<1> QED
  BY <1>1 DEF IndInv, TypeOK, Become

(***************************************************************************)
(* A request that does not move keeps what its statement relies on: in     *)
(* particular nobody else inserts the token it has minted.                 *)
(***************************************************************************)
LEMMA OtherJob ==
  ASSUME IndInv, [Next]_vars, NEW q \in Reqs, req'[q] = req[q]
  PROVE  JobOK(q)'
<1>a. JobOK(q) /\ RowsOK
  BY DEF IndInv
<1>1. /\ req[q].pc \in RotatingPCs => req[q].user \in Users /\ req[q].family \in started'
      /\ req[q].pc \in RedeemPCs \cup LogoutPCs => req[q].token \in issued'
      /\ req[q].pc \in AllPCs => req[q].user \in Users
  BY <1>a, GrowStep DEF JobOK
<1>2. ASSUME req[q].pc = "insert"
      PROVE  req[q].token \in Minted' \ issued' /\ family'[req[q].token] = req[q].family
  <2>1. req[q].token \notin issued'
    <3> SUFFICES ASSUME req[q].token \in issued' PROVE FALSE
      OBVIOUS
    <3>1. PICK p \in Reqs : InsertRefresh(p) /\ req[q].token = req[p].token
      BY <1>2, <1>a, GrowStep DEF JobOK
    <3>2. p = q
      BY <1>2, <3>1 DEF IndInv, InsertRefresh
    <3>3. req'[q].pc = "idle"
      BY <3>1, <3>2 DEF InsertRefresh, Finish, Become, Idle, IndInv, TypeOK
    <3> QED
      BY <1>2, <3>3
  <2> QED
    BY <1>a, <1>2, <2>1, MintStep DEF JobOK
<1>3. ASSUME req[q].pc = "revoke" PROVE ~Redeemable(req[q].token)'
  BY <1>a, <1>3, GrowStep DEF JobOK, Redeemable, RedeemPCs
<1> QED
  BY <1>1, <1>2, <1>3 DEF JobOK

\* The request that moves reaches a statement whose local variables it has set.
LEMMA OwnJob ==
  ASSUME IndInv, [Next]_vars, NEW r \in Reqs, RequestBegins(r) \/ RequestStep(r)
  PROVE  JobOK(r)'
<1> USE DEF refreshVars, accessVars, historyVars, RotatingPCs, RedeemPCs, LogoutPCs, AllPCs
<1>a. JobOK(r) /\ RowsOK /\ TypeOK /\ TypeOK' /\ RowsOK'
  BY TypeStep, RowsStep DEF IndInv
<1>b. /\ started \subseteq started' /\ issued \subseteq issued'
      /\ \A t \in issued : ~Redeemable(t) => ~Redeemable(t)'
  BY GrowStep DEF Redeemable
<1>e. \A j : Become(r, j) => req'[r] = j
  BY <1>a DEF Become, TypeOK
<1>f. Finish(r) => JobOK(r)'
  BY <1>e DEF Finish, Idle, JobOK
<1>1. ASSUME NEW u \in Users, NEW f \in Families, StartSession(r, u, f) PROVE JobOK(r)'
  BY <1>1, <1>e DEF StartSession, Idle, JobOK
<1>2. ASSUME NEW t \in Tokens, PresentRefresh(r, t) \/ PresentLogout(r, t) PROVE JobOK(r)'
  <2>1. t \in held /\ t \in issued /\ t \in issued'
    BY <1>2, <1>a, <1>b DEF PresentRefresh, PresentLogout, RowsOK
  <2>2. CASE PresentRefresh(r, t)
    <3>1. req'[r] = [Idle EXCEPT !.pc = "find", !.token = t, !.at = now]
      BY <2>2, <1>e DEF PresentRefresh
    <3>2. req'[r].pc = "find" /\ req'[r].token = t
      BY <3>1 DEF Idle
    <3> QED
      BY <2>1, <3>2 DEF JobOK
  <2>3. CASE PresentLogout(r, t)
    <3>1. req'[r] = [Idle EXCEPT !.pc = "logout_find", !.token = t]
      BY <2>3, <1>e DEF PresentLogout
    <3>2. req'[r].pc = "logout_find" /\ req'[r].token = t
      BY <3>1 DEF Idle
    <3> QED
      BY <2>1, <3>2 DEF JobOK
  <2> QED
    BY <1>2, <2>2, <2>3
<1>3. ASSUME NEW u \in Users, BeginRevokeAll(r, u) PROVE JobOK(r)'
  BY <1>3, <1>e DEF BeginRevokeAll, Idle, JobOK
<1>4. CASE IssueAccess(r)
  <2> PICK t \in Tokens \ Minted : IssueAccess(r)!2!(t)
    BY <1>4 DEF IssueAccess
  <2>1. req'[r] = [req[r] EXCEPT !.pc = "insert", !.token = t, !.at = now]
    BY <1>e
  <2>2. req[r] \in Job
    BY <1>a DEF TypeOK
  <2>3. /\ req'[r].pc = "insert" /\ req'[r].token = t
        /\ req'[r].family = req[r].family /\ req'[r].user = req[r].user
    BY <2>1, <2>2 DEF Job
  <2>4. family'[t] = req[r].family /\ req[r].family \in started /\ req[r].user \in Users
    BY <1>4, <1>a DEF TypeOK, IssueAccess, JobOK
  <2>5. t \in Minted' \ issued'
    BY <1>4, <1>a, <2>4, SessionsAssumption DEF IssueAccess, Minted, TypeOK, RowsOK
  <2> QED
    BY <1>b, <2>3, <2>4, <2>5 DEF JobOK
<1>5. CASE FindRefresh(r)
  <2>1. \/ Finish(r)
        \/ req'[r] = [Idle EXCEPT !.pc = "mark", !.token = req[r].token]
        \/ /\ req'[r] = [Idle EXCEPT !.pc = "revoke", !.token = req[r].token]
           /\ req[r].token \in used
    BY <1>5, <1>e DEF FindRefresh
  <2>2. req[r].token \in issued
    BY <1>5, <1>a DEF FindRefresh, JobOK
  <2> QED
    BY <1>b, <1>f, <2>1, <2>2 DEF JobOK, Idle, Redeemable
<1>6. CASE MarkUsed(r)
  <2> DEFINE t == req[r].token
  <2>1. t \in issued /\ req[r] \in Job
    BY <1>6, <1>a DEF MarkUsed, JobOK, TypeOK
  <2>2. \/ req'[r] = [Idle EXCEPT !.pc = "account", !.user = user_id[t], !.family = family[t]]
        \/ /\ req'[r] = [req[r] EXCEPT !.pc = "revoke"]
           /\ ~Redeemable(t)
    BY <1>6, <1>e DEF MarkUsed, Goto
  <2>3. family[t] \in started /\ user_id[t] \in Users
    BY <1>a, <2>1 DEF RowsOK
  <2> QED
    BY <1>b, <2>1, <2>2, <2>3 DEF JobOK, Idle, Job
<1>7. CASE CheckAccount(r)
  <2>1. Finish(r) \/ req'[r] = [req[r] EXCEPT !.pc = "access", !.at = now]
    BY <1>7, <1>e DEF CheckAccount, Goto
  <2>2. req[r] \in Job /\ req[r].pc = "account"
    BY <1>7, <1>a DEF TypeOK, CheckAccount
  <2> QED
    BY <1>a, <1>b, <1>f, <2>1, <2>2 DEF JobOK, Job
<1>8. CASE FindLogout(r) \/ LogoutFamily(r) \/ RevokeAllRefresh(r)
  <2>1. \/ Finish(r)
        \/ req[r].pc \in LogoutPCs /\ \E pc \in LogoutPCs : req'[r] = [req[r] EXCEPT !.pc = pc]
        \/ req[r].pc \in AllPCs /\ \E pc \in AllPCs : req'[r] = [req[r] EXCEPT !.pc = pc]
    BY <1>8, <1>e DEF FindLogout, LogoutFamily, RevokeAllRefresh, Goto
  <2>2. req[r] \in Job
    BY <1>a DEF TypeOK
  <2> QED
    BY <1>a, <1>b, <1>f, <2>1, <2>2 DEF JobOK, Job
<1>9. CASE InsertRefresh(r) \/ RevokeReplayed(r) \/ LogoutAccess(r) \/ RevokeAllAccess(r)
           \/ Drop(r)
  BY <1>9, <1>f DEF InsertRefresh, RevokeReplayed, LogoutAccess, RevokeAllAccess, Drop
<1> QED
  BY <1>1, <1>2, <1>3, <1>4, <1>5, <1>6, <1>7, <1>8, <1>9 DEF RequestBegins, RequestStep

(***************************************************************************)
(* The chain.  Four kinds of step touch it: a login opens one, mark_used   *)
(* turns the unspent token into a rotation, the insert turns the rotation  *)
(* into an unspent token, and every other step takes away or does nothing. *)
(***************************************************************************)
LEMMA ChainShrinks ==
  ASSUME IndInv, [Next]_vars,
         \A f \in Families : Unspent(f)' \subseteq Unspent(f) /\ Rotating(f)' \subseteq Rotating(f)
  PROVE  OneChain'
BY DEF OneChain, IndInv

(***************************************************************************)
(* Any other step of a request than the three that extend a chain spends   *)
(* and issues nothing, and leaves the request rotating the same family or  *)
(* none at all.                                                            *)
(***************************************************************************)
LEMMA MovesStep ==
  ASSUME IndInv, NEW r \in Reqs, RequestBegins(r) \/ RequestStep(r),
         \A u \in Users, f \in Families : ~StartSession(r, u, f),
         ~InsertRefresh(r), ~(MarkUsed(r) /\ Redeemable(req[r].token))
  PROVE  /\ issued' = issued /\ used' = used /\ started' = started
         /\ \A q \in Reqs : q # r => req'[q] = req[q]
         /\ \/ req'[r].pc \notin RotatingPCs
            \/ req[r].pc \in RotatingPCs /\ req'[r].family = req[r].family
<1> USE DEF refreshVars, accessVars, historyVars
<1>a. TypeOK
  BY DEF IndInv
<1>1. issued' = issued /\ used' = used /\ started' = started
  BY DEF RequestBegins, RequestStep, PresentRefresh, PresentLogout, BeginRevokeAll,
       IssueAccess, FindRefresh, MarkUsed, RevokeReplayed, CheckAccount, FindLogout,
       LogoutFamily, LogoutAccess, RevokeAllRefresh, RevokeAllAccess, Drop
<1> USE DEF Idle, RotatingPCs
<1>j. req[r] \in Job
  BY <1>a DEF TypeOK
<1>e. \A j : Become(r, j) => req'[r] = j
  BY OthersKeep
<1>2. \/ req'[r].pc \notin RotatingPCs
      \/ req[r].pc \in RotatingPCs /\ req'[r].family = req[r].family
  <2>1. CASE IssueAccess(r)
    <3>1. \E t : Become(r, [req[r] EXCEPT !.pc = "insert", !.token = t, !.at = now])
      BY <2>1 DEF IssueAccess
    <3> QED
      BY <2>1, <3>1, <1>e, <1>j DEF IssueAccess, Job
  <2>2. CASE CheckAccount(r)
    <3>1. \/ req'[r] = Idle
          \/ req'[r] = [req[r] EXCEPT !.pc = "access", !.at = now]
      BY <2>2, <1>e DEF CheckAccount, Finish
    <3>2. CASE req'[r] = Idle
      BY <3>2
    <3>3. CASE req'[r] = [req[r] EXCEPT !.pc = "access", !.at = now]
      BY <2>2, <3>3, <1>j DEF CheckAccount, Job
    <3> QED
      BY <3>1, <3>2, <3>3
  <2>3. CASE Drop(r) \/ RevokeReplayed(r) \/ LogoutAccess(r) \/ RevokeAllAccess(r)
    BY <2>3, <1>e DEF Drop, RevokeReplayed, LogoutAccess, RevokeAllAccess, Finish
  <2>4. CASE FindLogout(r) \/ LogoutFamily(r) \/ RevokeAllRefresh(r) \/ MarkUsed(r)
    <3>1. CASE FindLogout(r)
      BY <3>1, <1>e, <1>j DEF Job, FindLogout, Goto, Finish
    <3>2. CASE LogoutFamily(r) \/ RevokeAllRefresh(r)
      BY <3>2, <1>e, <1>j DEF Job, LogoutFamily, RevokeAllRefresh, Goto
    <3>3. CASE MarkUsed(r)
      BY <3>3, <1>e, <1>j DEF Job, MarkUsed, Goto, Finish
    <3> QED
      BY <2>4, <3>1, <3>2, <3>3
  <2>5. CASE FindRefresh(r)
    <3>1. \/ req'[r] = Idle
          \/ req'[r] = [Idle EXCEPT !.pc = "mark", !.token = req[r].token]
          \/ req'[r] = [Idle EXCEPT !.pc = "revoke", !.token = req[r].token]
      BY <2>5, <1>e DEF FindRefresh, Finish
    <3>2. CASE req'[r] = Idle
      BY <3>2
    <3>3. CASE req'[r] = [Idle EXCEPT !.pc = "mark", !.token = req[r].token]
      BY <3>3
    <3>4. CASE req'[r] = [Idle EXCEPT !.pc = "revoke", !.token = req[r].token]
      BY <3>4
    <3> QED
      BY <3>1, <3>2, <3>3, <3>4
  <2>6. CASE RequestBegins(r)
    <3>1. ASSUME NEW t, PresentRefresh(r, t) PROVE req'[r].pc = "find"
      BY <3>1, <1>e DEF PresentRefresh
    <3>2. ASSUME NEW t, PresentLogout(r, t) PROVE req'[r].pc = "logout_find"
      BY <3>2, <1>e DEF PresentLogout
    <3>3. ASSUME NEW u, BeginRevokeAll(r, u) PROVE req'[r].pc = "all_refresh"
      BY <3>3, <1>e DEF BeginRevokeAll
    <3>4. req'[r].pc \in {"find", "logout_find", "all_refresh"}
      BY <2>6, <3>1, <3>2, <3>3 DEF RequestBegins
    <3> QED
      BY <3>4
  <2> QED
    BY <2>1, <2>2, <2>3, <2>4, <2>5, <2>6 DEF RequestStep
<1> QED
  BY <1>1, <1>2, OthersKeep

(* Every step keeps at most one token of a family unspent or in rotation.    *)
LEMMA ChainStep ==
  ASSUME IndInv, [Next]_vars
  PROVE  OneChain'
<1> USE DEF refreshVars, accessVars, historyVars
<1>a. TypeOK /\ RowsOK /\ OneChain /\ \A r \in Reqs : JobOK(r)
  BY DEF IndInv
<1>f. \A t \in issued : family'[t] = family[t]
  BY <1>a, MintStep DEF RowsOK
<1>1. ASSUME NEW r \in Reqs, NEW u \in Users, NEW f \in Families, StartSession(r, u, f)
      PROVE  OneChain'
  <2>1. Unspent(f) = {} /\ Rotating(f) = {}
    BY <1>1, <1>a DEF StartSession, Unspent, Rotating, RowsOK, JobOK
  <2>2. \A g \in Families : Unspent(g)' = Unspent(g)
    BY <1>1 DEF StartSession, Unspent
  <2>3. /\ Rotating(f)' \subseteq {r}
        /\ \A g \in Families : g # f => Rotating(g)' = Rotating(g)
    BY <1>1, <1>a, <2>1 DEF StartSession, Rotating, Become, TypeOK, Idle, RotatingPCs
  <2> QED
    BY <1>a, <2>1, <2>2, <2>3 DEF OneChain
<1>2. ASSUME NEW r \in Reqs, InsertRefresh(r) PROVE OneChain'
  <2> PICK t \in Minted \ issued, f \in Families :
             t = req[r].token /\ f = req[r].family /\ family[t] = f
    BY <1>2, <1>a DEF InsertRefresh, JobOK, RotatingPCs, TypeOK
  <2>1. r \in Rotating(f)
    BY <1>2 DEF InsertRefresh, Rotating, RotatingPCs
  <2>2. Unspent(f) = {} /\ Rotating(f) = {r}
    BY <1>a, <2>1 DEF OneChain
  <2>3. /\ Unspent(f)' \subseteq {t}
        /\ \A g \in Families : g # f => Unspent(g)' = Unspent(g)
    BY <1>2, <1>a, <2>1, <2>2 DEF InsertRefresh, Unspent
  <2>4. /\ Rotating(f)' = {}
        /\ \A g \in Families : g # f => Rotating(g)' = Rotating(g)
    BY <1>2, <1>a, <2>1, <2>2 DEF InsertRefresh, Rotating, Finish, Become, TypeOK, Idle, RotatingPCs
  <2> QED
    BY <1>a, <2>3, <2>4 DEF OneChain
<1>3. ASSUME NEW r \in Reqs, MarkUsed(r), Redeemable(req[r].token) PROVE OneChain'
  <2> PICK t \in issued \ used, f \in Families : t = req[r].token /\ f = family[t]
    BY <1>3, <1>a DEF Redeemable, RowsOK, TypeOK
  <2>1. t \in Unspent(f)
    BY DEF Unspent
  <2>2. Unspent(f) = {t} /\ Rotating(f) = {}
    BY <1>a, <2>1 DEF OneChain, Unspent
  <2>3. /\ Unspent(f)' = {}
        /\ \A g \in Families : g # f => Unspent(g)' = Unspent(g)
    BY <1>3, <1>a, <2>1, <2>2 DEF MarkUsed, Unspent
  <2>4. /\ Rotating(f)' \subseteq {r}
        /\ \A g \in Families : g # f => Rotating(g)' = Rotating(g)
    <3>1. req'[r] = [Idle EXCEPT !.pc = "account", !.user = user_id[t], !.family = f]
      BY <1>3, OthersKeep DEF RequestStep, MarkUsed
    <3>2. req'[r].family = f /\ req[r].pc \notin RotatingPCs
      BY <1>3, <3>1 DEF Idle, MarkUsed, RotatingPCs
    <3>3. \A q \in Reqs : q # r => req'[q] = req[q]
      BY <1>3, OthersKeep DEF RequestStep
    <3> QED
      BY <2>2, <3>2, <3>3 DEF Rotating
  <2> QED
    BY <1>a, <2>3, <2>4 DEF OneChain
<1>4. CASE UNCHANGED req /\ issued' \ used' \subseteq issued \ used
  BY <1>4, <1>f, ChainShrinks DEF Unspent, Rotating
<1>7. ASSUME NEW r \in Reqs, RequestBegins(r) \/ RequestStep(r) PROVE OneChain'
  <2>1. CASE \E u \in Users, f \in Families : StartSession(r, u, f)
    BY <2>1, <1>1
  <2>2. CASE InsertRefresh(r)
    BY <2>2, <1>2
  <2>3. CASE MarkUsed(r) /\ Redeemable(req[r].token)
    BY <2>3, <1>3
  <2>4. CASE /\ \A u \in Users, f \in Families : ~StartSession(r, u, f)
             /\ ~InsertRefresh(r)
             /\ ~(MarkUsed(r) /\ Redeemable(req[r].token))
    <3>1. /\ issued' \ used' \subseteq issued \ used
          /\ \A q \in Reqs : q # r => req'[q] = req[q]
          /\ \/ req'[r].pc \notin RotatingPCs
             \/ req[r].pc \in RotatingPCs /\ req'[r].family = req[r].family
      BY <1>7, <2>4, MovesStep
    <3> QED
      BY <3>1, <1>f, ChainShrinks DEF Unspent, Rotating
  <2> QED
    BY <2>1, <2>2, <2>3, <2>4
<1>8. CASE Janitor \/ Environment \/ UNCHANGED vars
  BY <1>4, <1>8 DEF Janitor, Environment, SweepStart, SweepRefresh, SweepAccess, SweepFail,
                    Tick, LockAccount, UnlockAccount, vars
<1> QED
  BY <1>7, <1>8 DEF Next

-----------------------------------------------------------------------------
(* The rest of the inductive invariant, and the invariant itself.          *)

\* Fresh secrets: the token one request is about to insert is nobody else's.
LEMMA InsertStep ==
  ASSUME IndInv, [Next]_vars
  PROVE  \A q, r \in Reqs :
            req'[q].pc = "insert" /\ req'[r].pc = "insert" /\ req'[q].token = req'[r].token
              => q = r
<1>a. TypeOK /\ (\A r \in Reqs : JobOK(r)) /\ \A r \in Reqs : req[r] \in Job
  BY DEF IndInv, TypeOK
<1>1. ASSUME NEW r \in Reqs, IssueAccess(r), NEW q \in Reqs, q # r,
             req'[q].pc = "insert", req'[r].pc = "insert"
      PROVE  req'[q].token # req'[r].token
  <2> PICK t \in Tokens \ Minted : IssueAccess(r)!2!(t)
    BY <1>1 DEF IssueAccess
  <2>1. req'[r].token = t /\ req'[q] = req[q]
    BY <1>a, <1>1, OthersKeep DEF Job, RequestStep
  <2>2. req[q].token \in Minted
    BY <1>a, <1>1, <2>1 DEF JobOK
  <2> QED
    BY <2>1, <2>2
<1>2. ASSUME NEW r \in Reqs, RequestBegins(r) \/ RequestStep(r), ~IssueAccess(r)
      PROVE  /\ req'[r].pc # "insert"
             /\ \A q \in Reqs : q # r => req'[q] = req[q]
  <2> USE DEF Idle
  <2>j. req[r] \in Job
    BY <1>a
  <2>e. \A j : Become(r, j) => req'[r] = j
    BY <1>2, OthersKeep
  <2>6. req'[r].pc # "insert"
    <3>1. CASE RequestBegins(r)
      BY <1>2, <3>1, <2>e DEF RequestBegins, StartSession, PresentRefresh, PresentLogout,
                              BeginRevokeAll
    <3>2. CASE FindRefresh(r)
      <4>1. \/ req'[r] = Idle
            \/ req'[r] = [Idle EXCEPT !.pc = "mark", !.token = req[r].token]
            \/ req'[r] = [Idle EXCEPT !.pc = "revoke", !.token = req[r].token]
        BY <3>2, <2>e DEF FindRefresh, Finish
      <4>2. CASE req'[r] = Idle
        BY <4>2
      <4>3. CASE req'[r] = [Idle EXCEPT !.pc = "mark", !.token = req[r].token]
        BY <4>3
      <4>4. CASE req'[r] = [Idle EXCEPT !.pc = "revoke", !.token = req[r].token]
        BY <4>4
      <4> QED
        BY <4>1, <4>2, <4>3, <4>4
    <3>3. CASE MarkUsed(r)
      BY <3>3, <2>e, <2>j DEF MarkUsed, Goto, Job
    <3>4. CASE FindLogout(r) \/ LogoutFamily(r) \/ RevokeAllRefresh(r)
      BY <3>4, <2>e, <2>j DEF FindLogout, LogoutFamily, RevokeAllRefresh, Goto, Finish, Job
    <3>5. CASE \/ InsertRefresh(r) \/ RevokeReplayed(r) \/ LogoutAccess(r)
               \/ RevokeAllAccess(r) \/ Drop(r)
      BY <3>5, <2>e DEF InsertRefresh, RevokeReplayed, LogoutAccess, RevokeAllAccess, Drop, Finish
    <3>6. CASE CheckAccount(r)
      <4>1. \/ req'[r] = Idle
            \/ req'[r] = [req[r] EXCEPT !.pc = "access", !.at = now]
        BY <3>6, <2>e DEF CheckAccount, Finish
      <4>2. CASE req'[r] = Idle
        BY <4>2
      <4>3. CASE req'[r] = [req[r] EXCEPT !.pc = "access", !.at = now]
        BY <4>3, <2>j DEF Job
      <4> QED
        BY <4>1, <4>2, <4>3
    <3> QED
      BY <1>2, <3>1, <3>2, <3>3, <3>4, <3>5, <3>6 DEF RequestStep
  <2> QED
    BY <1>2, <2>6, OthersKeep
<1>3. ASSUME NEW r \in Reqs, RequestBegins(r) \/ RequestStep(r), NEW q \in Reqs, NEW p \in Reqs,
             req'[q].pc = "insert", req'[p].pc = "insert", req'[q].token = req'[p].token
      PROVE  q = p
  <2>1. CASE IssueAccess(r)
    <3>1. \A p1 \in Reqs : p1 # r => req'[p1] = req[p1]
      BY <1>3, OthersKeep
    <3>2. CASE q # r /\ p # r
      BY <1>3, <3>1, <3>2 DEF IndInv
    <3>3. CASE q = r \/ p = r
      BY <1>1, <1>3, <2>1, <3>3
    <3> QED
      BY <3>2, <3>3
  <2>2. CASE ~IssueAccess(r)
    BY <1>2, <1>3, <2>2 DEF IndInv
  <2> QED
    BY <2>1, <2>2
<1>4. CASE Janitor \/ Environment \/ UNCHANGED vars
  BY <1>4 DEF IndInv, Janitor, Environment, SweepStart, SweepRefresh, SweepAccess, SweepFail,
              Tick, LockAccount, UnlockAccount, vars
<1> QED
  BY <1>3, <1>4 DEF Next

\* The sweep deletes by a clock reading of the past, and time only goes on.
LEMMA ClockStep ==
  ASSUME IndInv, [Next]_vars
  PROVE  sweep'.cutoff <= now' /\ RowsOutliveValidity'
<1> USE DEF IndInv, TypeOK, refreshVars, accessVars, historyVars
<1>1. CASE Janitor
  BY <1>1 DEF Janitor, SweepStart, SweepRefresh, SweepAccess, SweepFail, RowsOutliveValidity,
              ExpiredRows, RowsOK
<1>2. CASE Environment
  BY <1>2 DEF Environment, Tick, LockAccount, UnlockAccount, RowsOutliveValidity, RowsOK
<1>3. CASE UNCHANGED vars
  BY <1>3 DEF vars, RowsOutliveValidity
<1>4. ASSUME NEW r \in Reqs, InsertRefresh(r) PROVE sweep'.cutoff <= now' /\ RowsOutliveValidity'
  BY <1>4 DEF InsertRefresh, RowsOutliveValidity, RowsOK
<1>5. ASSUME NEW r \in Reqs, RequestBegins(r) \/ RequestStep(r), ~InsertRefresh(r)
      PROVE  UNCHANGED <<issued, stored, expires_at, sweep, now>>
  BY <1>5 DEF RequestBegins, RequestStep, StartSession,
         PresentRefresh, PresentLogout, BeginRevokeAll, IssueAccess,
         FindRefresh, MarkUsed, RevokeReplayed, CheckAccount, FindLogout, LogoutFamily,
         LogoutAccess, RevokeAllRefresh, RevokeAllAccess, Drop
<1>6. CASE UNCHANGED <<issued, stored, expires_at, sweep, now>>
  BY <1>6 DEF RowsOutliveValidity
<1> QED
  BY <1>1, <1>2, <1>3, <1>4, <1>5, <1>6 DEF Next

(***************************************************************************)
(* IndInv holds of every reachable state.                                  *)
(***************************************************************************)
THEOREM Inductive == Spec => []IndInv
<1>1. Init => IndInv
  BY SessionsAssumption
     DEF Init, IndInv, TypeOK, RowsOK, JobOK, Idle, Job, Minted, RowsOutliveValidity, OneChain,
         Unspent, Rotating, RotatingPCs, RedeemPCs, LogoutPCs, AllPCs
<1>2. ASSUME IndInv, [Next]_vars PROVE IndInv'
  <2>1. TypeOK'
    BY <1>2, TypeStep
  <2>2. RowsOK'
    BY <1>2, RowsStep
  <2>3. \A r \in Reqs : JobOK(r)'
    <3>1. CASE \E r \in Reqs : RequestBegins(r) \/ RequestStep(r)
      BY <1>2, <3>1, OthersKeep, OtherJob, OwnJob
    <3>2. CASE Janitor \/ Environment \/ UNCHANGED vars
      <4>1. req' = req
        BY <3>2 DEF Janitor, Environment, SweepStart, SweepRefresh, SweepAccess, SweepFail,
                    Tick, LockAccount, UnlockAccount, vars
      <4> QED
        BY <1>2, <4>1, OtherJob
    <3> QED
      BY <1>2, <3>1, <3>2 DEF Next
  <2> QED
    BY <1>2, <2>1, <2>2, <2>3, InsertStep, ClockStep, ChainStep DEF IndInv
<1> QED
  BY <1>1, <1>2, PTL DEF Spec

-----------------------------------------------------------------------------
(* The invariants.                                                         *)

(***************************************************************************)
(* Every variable keeps its type in every reachable state.                 *)
(***************************************************************************)
THEOREM TypeCorrect == Spec => []TypeOK
<1>1. IndInv => TypeOK
  BY DEF IndInv
<1> QED
  BY <1>1, Inductive, PTL

(***************************************************************************)
(* However many requests present one token at once, a login stays one      *)
(* chain: at most one unspent token, or one rotation under way.            *)
(***************************************************************************)
THEOREM ChainIsSingle == Spec => []OneChain
<1>1. IndInv => OneChain
  BY DEF IndInv
<1> QED
  BY <1>1, Inductive, PTL

(***************************************************************************)
(* The janitor never deletes the row of a token that is still in its       *)
(* lifetime, however stale the cut-off it works with.                      *)
(***************************************************************************)
THEOREM RowsSurvive == Spec => []RowsOutliveValidity
<1>1. IndInv => RowsOutliveValidity
  BY DEF IndInv
<1> QED
  BY <1>1, Inductive, PTL

\* What mark_used would still take has never been spent.
LEMMA LiveIsUnspent ==
  ASSUME IndInv, NEW f \in Families
  PROVE  Live(f) \subseteq Unspent(f)
BY DEF IndInv, RowsOK, Live, RowsOfFamily, Redeemable, Unspent

(***************************************************************************)
(* redeem raises the reuse alarm on a token that was never spent only when *)
(* the login it belongs to was over already.                               *)
(***************************************************************************)
THEOREM AlarmIsHonest == Spec => []AlarmIsReplay
<1>1. IndInv => AlarmIsReplay
  <2> SUFFICES ASSUME IndInv, NEW r \in Reqs, req[r].pc = "revoke", req[r].token \notin used
               PROVE  Live(family[req[r].token]) = {} /\ Rotating(family[req[r].token]) = {}
    BY DEF AlarmIsReplay
  <2> PICK t \in Tokens : t = req[r].token
    BY DEF IndInv, TypeOK, JobOK, RedeemPCs
  <2>1. t \in issued \ used /\ ~Redeemable(t)
    BY DEF IndInv, JobOK, RedeemPCs
  <2>2. family[t] \in Families
    BY <2>1 DEF IndInv, RowsOK, TypeOK
  <2>3. t \in Unspent(family[t])
    BY <2>1 DEF Unspent
  <2>4. Rotating(family[t]) = {} /\ \A s \in Unspent(family[t]) : s = t
    BY <2>2, <2>3 DEF IndInv, OneChain
  <2>5. Live(family[t]) = {}
    BY <2>1, <2>2, <2>4, LiveIsUnspent DEF Live
  <2> QED
    BY <2>4, <2>5
<1> QED
  BY <1>1, Inductive, PTL

-----------------------------------------------------------------------------
(* What a step never does.                                                 *)

\* How a request comes to rotate a family.
LEMMA RotatingStep ==
  ASSUME IndInv, [Next]_vars, NEW q \in Reqs, NEW f \in Families, q \in Rotating(f)'
  PROVE  \/ q \in Rotating(f)
         \/ \E u \in Users : StartSession(q, u, f)
         \/ MarkUsed(q) /\ Redeemable(req[q].token) /\ family[req[q].token] = f
<1>1. ASSUME req'[q] = req[q] PROVE q \in Rotating(f)
  BY <1>1 DEF Rotating
<1>2. CASE Janitor \/ Environment \/ UNCHANGED vars
  <2>1. req' = req
    BY <1>2 DEF Janitor, Environment, SweepStart, SweepRefresh, SweepAccess, SweepFail,
                Tick, LockAccount, UnlockAccount, vars
  <2> QED
    BY <1>1, <2>1
<1>3. ASSUME NEW r \in Reqs, RequestBegins(r) \/ RequestStep(r), r # q PROVE q \in Rotating(f)
  BY <1>1, <1>3, OthersKeep
<1>4. CASE RequestBegins(q) \/ RequestStep(q)
  <2>1. ASSUME NEW u \in Users, NEW g \in Families, StartSession(q, u, g)
        PROVE  StartSession(q, u, f)
    <3>1. req'[q] = [Idle EXCEPT !.pc = "access", !.user = u, !.family = g, !.at = now]
      BY <1>4, <2>1, OthersKeep DEF StartSession
    <3>2. req'[q].family = g
      BY <3>1 DEF Idle
    <3> QED
      BY <2>1, <3>2 DEF Rotating
  <2>2. CASE InsertRefresh(q)
    <3>1. req'[q] = Idle
      BY <1>4, <2>2, OthersKeep DEF InsertRefresh, Finish
    <3>2. req'[q].pc \notin RotatingPCs
      BY <3>1 DEF Idle, RotatingPCs
    <3> QED
      BY <3>2 DEF Rotating
  <2>3. ASSUME MarkUsed(q), Redeemable(req[q].token) PROVE family[req[q].token] = f
    <3>1. req'[q] = [Idle EXCEPT !.pc = "account", !.user = user_id[req[q].token],
                                 !.family = family[req[q].token]]
      BY <1>4, <2>3, OthersKeep DEF MarkUsed
    <3>2. req'[q].family = family[req[q].token]
      BY <3>1 DEF Idle
    <3> QED
      BY <3>2 DEF Rotating
  <2>4. ASSUME \A u \in Users, g \in Families : ~StartSession(q, u, g),
               ~InsertRefresh(q), ~(MarkUsed(q) /\ Redeemable(req[q].token))
        PROVE  q \in Rotating(f)
    BY <1>4, <2>4, MovesStep DEF Rotating
  <2> QED
    BY <2>1, <2>2, <2>3, <2>4
<1> QED
  BY <1>2, <1>3, <1>4 DEF Next

\* A family's live row is the one it had, or the one its rotation inserts.
LEMMA LiveStep ==
  ASSUME IndInv, IndInv', [Next]_vars, NEW f \in Families, NEW t \in Live(f)'
  PROVE  \/ t \in Live(f)
         \/ \E r \in Rotating(f) : InsertRefresh(r) /\ t = req[r].token
<1>a. RowsOK /\ RowsOK' /\ \A s \in Minted : family'[s] = family[s]
  BY MintStep DEF IndInv
<1>1. t \in issued' /\ t \in stored' /\ t \notin used' /\ t \notin revoked' /\ family'[t] = f
  BY <1>a DEF Live, RowsOfFamily, Redeemable, RowsOK
<1>2. CASE t \in issued
  <2>1. t \in stored /\ t \notin used /\ t \notin revoked /\ family[t] = f
    BY <1>a, <1>1, <1>2, GrowStep DEF RowsOK
  <2> QED
    BY <2>1 DEF Live, RowsOfFamily, Redeemable
<1>3. CASE t \notin issued
  <2>1. PICK r \in Reqs : InsertRefresh(r) /\ t = req[r].token
    BY <1>1, <1>3, GrowStep
  <2>2. r \in Rotating(f)
    BY <1>a, <1>1, <2>1 DEF IndInv, JobOK, InsertRefresh, Rotating, RotatingPCs
  <2> QED
    BY <2>1, <2>2
<1> QED
  BY <1>2, <1>3

\* An access row appears for the family of the request that mints it.
LEMMA AccessStep ==
  ASSUME IndInv, [Next]_vars, NEW t \in access' \ access
  PROVE  \E r \in Reqs : IssueAccess(r) /\ family'[t] = req[r].family
<1> USE DEF refreshVars, accessVars, historyVars
<1>1. access' \subseteq access \/ \E r \in Reqs : IssueAccess(r)
  <2>1. ASSUME NEW r \in Reqs, Revokes(r) PROVE access' \subseteq access
    BY <2>1 DEF Revokes, RevokeReplayed, LogoutFamily, LogoutAccess, RevokeAllRefresh, RevokeAllAccess
  <2>2. ASSUME NEW r \in Reqs, Issues(r), ~IssueAccess(r) PROVE access' \subseteq access
    BY <2>2 DEF Issues, InsertRefresh, MarkUsed
  <2>3. ASSUME NEW r \in Reqs, NEW u \in Users, NEW f \in Families, StartSession(r, u, f)
        PROVE  access' \subseteq access
    BY <2>3 DEF StartSession
  <2>4. ASSUME SweepRefresh \/ SweepAccess \/ StillTables PROVE access' \subseteq access
    BY <2>4 DEF SweepRefresh, SweepAccess, StillTables
  <2> QED
    BY <2>1, <2>2, <2>3, <2>4, Ways
<1>2. ASSUME NEW r \in Reqs, IssueAccess(r) PROVE family'[t] = req[r].family
  <2> PICK s \in Tokens \ Minted : IssueAccess(r)!2!(s)
    BY <1>2 DEF IssueAccess
  <2>1. t = s
    OBVIOUS
  <2> QED
    BY <2>1 DEF IndInv, TypeOK
<1> QED
  BY <1>1, <1>2

(***************************************************************************)
(* A login that is over is never brought back, whatever requests still     *)
(* hold of it.                                                             *)
(***************************************************************************)
THEOREM DeadIsFinal == Spec => DeadStaysDead
<1>1. ASSUME IndInv, IndInv', [Next]_vars, NEW f \in Families, Dead(f) PROVE Dead(f)'
  <2>a. /\ f \in started /\ Live(f) = {} /\ AccessOfFamily(f) = {} /\ Rotating(f) = {}
        /\ RowsOK /\ RowsOK' /\ TypeOK
    BY <1>1 DEF Dead, IndInv
  <2>1. f \in started'
    BY <1>1, <2>a, GrowStep
  <2>2. \A t \in Minted : family'[t] = family[t]
    BY <1>1, MintStep
  <2>3. ASSUME NEW t \in Live(f)' PROVE FALSE
    BY <1>1, <2>a, <2>3, LiveStep
  <2>4. ASSUME NEW t \in AccessOfFamily(f)' PROVE FALSE
    <3>1. t \in access' /\ family'[t] = f
      BY <2>4 DEF AccessOfFamily
    <3>2. CASE t \in access
      BY <2>a, <2>2, <3>1, <3>2 DEF AccessOfFamily, RowsOK
    <3>3. CASE t \notin access
      <4>1. PICK r \in Reqs : IssueAccess(r) /\ req[r].family = f
        BY <1>1, <3>1, <3>3, AccessStep
      <4> QED
        BY <2>a, <4>1 DEF IssueAccess, Rotating, RotatingPCs
    <3> QED
      BY <3>2, <3>3
  <2>5. ASSUME NEW q \in Rotating(f)' PROVE FALSE
    <3>0. q \in Reqs
      BY <2>5 DEF Rotating
    <3>1. ASSUME NEW u \in Users, StartSession(q, u, f) PROVE FALSE
      BY <2>a, <3>1 DEF StartSession
    <3>2. ASSUME MarkUsed(q), Redeemable(req[q].token), family[req[q].token] = f PROVE FALSE
      BY <2>a, <3>2 DEF Redeemable, Live, RowsOfFamily
    <3> QED
      BY <1>1, <2>5, <2>a, <3>0, <3>1, <3>2, RotatingStep
  <2> QED
    BY <2>1, <2>3, <2>4, <2>5 DEF Dead
<1>2. ASSUME IndInv, IndInv', [Next]_vars
      PROVE  [\A f \in Families : Dead(f) => Dead(f)']_vars
  BY <1>1, <1>2
<1> QED
  BY <1>2, Inductive, PTL DEF Spec, DeadStaysDead

(***************************************************************************)
(* The request whose statement revokes rows, or deletes access rows, moves *)
(* on in that step.                                                        *)
(***************************************************************************)
LEMMA RevokesMoves ==
  ASSUME IndInv, NEW r \in Reqs, Revokes(r)
  PROVE  req'[r] # req[r]
<1>a. req[r] \in Job /\ \A j : Become(r, j) => req'[r] = j
  BY DEF IndInv, TypeOK, Become
<1>1. CASE RevokeReplayed(r) \/ LogoutAccess(r) \/ RevokeAllAccess(r)
  <2>1. req[r].pc # "idle"
    BY <1>1 DEF RevokeReplayed, LogoutAccess, RevokeAllAccess
  <2>2. req'[r] = Idle
    BY <1>a, <1>1 DEF RevokeReplayed, LogoutAccess, RevokeAllAccess, Finish
  <2> QED
    BY <2>1, <2>2 DEF Idle
<1>2. CASE LogoutFamily(r)
  <2>1. req[r].pc = "logout_family" /\ req'[r] = [req[r] EXCEPT !.pc = "logout_access"]
    BY <1>a, <1>2 DEF LogoutFamily, Goto
  <2> QED
    BY <1>a, <2>1 DEF Job
<1>3. CASE RevokeAllRefresh(r)
  <2>1. req[r].pc = "all_refresh" /\ req'[r] = [req[r] EXCEPT !.pc = "all_access"]
    BY <1>a, <1>3 DEF RevokeAllRefresh, Goto
  <2> QED
    BY <1>a, <2>1 DEF Job
<1> QED
  BY <1>1, <1>2, <1>3 DEF Revokes

(***************************************************************************)
(* What a step revokes or deletes is something the request that takes it   *)
(* may end, or an access row that has expired and that the sweep takes.    *)
(***************************************************************************)
THEOREM DevicesAreSeparate == Spec => OtherDevicesUntouched
<1> USE DEF refreshVars, accessVars, historyVars
<1>1. ASSUME IndInv, [Next]_vars PROVE RevokesItsOwn
  <2>1. ASSUME NEW r \in Reqs, Revokes(r) PROVE RevokesItsOwn
    <3>1. req'[r] # req[r]
      BY <1>1, <2>1, RevokesMoves
    <3>2. ASSUME NEW t \in revoked' \ revoked PROVE MayEnd(r, t)
      <4>1. CASE RevokeReplayed(r) \/ LogoutFamily(r)
        BY <3>2, <4>1 DEF RevokeReplayed, LogoutFamily, RowsOfFamily, MayEnd, LogoutPCs
      <4>2. CASE RevokeAllRefresh(r)
        BY <3>2, <4>2 DEF RevokeAllRefresh, RowsOfUser, MayEnd, AllPCs
      <4> QED
        BY <2>1, <3>2, <4>1, <4>2 DEF Revokes, LogoutAccess, RevokeAllAccess
    <3>3. ASSUME NEW t \in access \ access' PROVE MayEnd(r, t)
      <4>1. CASE LogoutAccess(r)
        BY <3>3, <4>1 DEF LogoutAccess, AccessOfFamily, MayEnd, LogoutPCs
      <4>2. CASE RevokeAllAccess(r)
        BY <3>3, <4>2 DEF RevokeAllAccess, AccessOfUser, MayEnd, AllPCs
      <4> QED
        BY <2>1, <3>3, <4>1, <4>2 DEF Revokes, RevokeReplayed, LogoutFamily, RevokeAllRefresh
    <3> QED
      BY <3>1, <3>2, <3>3 DEF RevokesItsOwn
  <2>2. CASE SweepAccess
    <3>1. sweep' # sweep /\ revoked' = revoked
      BY <2>2 DEF SweepAccess
    <3>2. ASSUME NEW t \in access \ access' PROVE access_expires_at[t] < now
      BY <1>1, <2>2, <3>2 DEF SweepAccess, ExpiredAccess, IndInv, TypeOK
    <3> QED
      BY <3>1, <3>2 DEF RevokesItsOwn
  <2> DEFINE Spares == revoked' = revoked /\ access \subseteq access'
  <2>3. ASSUME Spares PROVE RevokesItsOwn
    BY <2>3 DEF RevokesItsOwn
  <2>4. ASSUME NEW r \in Reqs, Issues(r) PROVE Spares
    BY <2>4 DEF Issues, IssueAccess, InsertRefresh, MarkUsed
  <2>5. ASSUME NEW r \in Reqs, NEW u \in Users, NEW f \in Families, StartSession(r, u, f) PROVE Spares
    BY <2>5 DEF StartSession
  <2>6. ASSUME SweepRefresh \/ StillTables PROVE Spares
    BY <2>6 DEF SweepRefresh, StillTables
  <2> HIDE DEF Spares
  <2> QED
    BY <1>1, <2>1, <2>2, <2>3, <2>4, <2>5, <2>6, Ways
<1> QED
  BY <1>1, Inductive, PTL DEF Spec, OtherDevicesUntouched

-----------------------------------------------------------------------------
(* What a request leaves behind that failed between its two inserts.       *)

\* A family's unspent token is one it had, or the one its rotation inserts.
LEMMA UnspentStep ==
  ASSUME IndInv, [Next]_vars, NEW f \in Families, NEW t \in Unspent(f)'
  PROVE  \/ t \in Unspent(f)
         \/ \E r \in Rotating(f) : InsertRefresh(r) /\ t = req[r].token
<1>a. RowsOK /\ \A s \in Minted : family'[s] = family[s]
  BY MintStep DEF IndInv
<1>1. t \in issued' /\ t \notin used' /\ family'[t] = f
  BY DEF Unspent
<1>2. CASE t \in issued
  <2>1. t \notin used /\ family[t] = f
    BY <1>a, <1>1, <1>2, GrowStep DEF RowsOK
  <2> QED
    BY <1>2, <2>1 DEF Unspent
<1>3. CASE t \notin issued
  <2>1. PICK r \in Reqs : InsertRefresh(r) /\ t = req[r].token
    BY <1>1, <1>3, GrowStep
  <2>2. req[r].pc = "insert" /\ JobOK(r)
    BY <2>1 DEF InsertRefresh, IndInv
  <2>3. r \in Rotating(f)
    BY <1>a, <1>1, <2>1, <2>2 DEF JobOK, Rotating, RotatingPCs
  <2> QED
    BY <2>1, <2>3
<1> QED
  BY <1>2, <1>3

\* Nothing can be refreshed in a family without an unspent token and a rotation.
Settled(f) == f \in started /\ Unspent(f) = {} /\ Rotating(f) = {}

\* Nor ever again.
LEMMA SettledStays ==
  ASSUME IndInv, [Next]_vars, NEW f \in Families, Settled(f)
  PROVE  Settled(f)'
<1>1. f \in started'
  BY GrowStep DEF Settled
<1>2. ASSUME NEW t \in Unspent(f)' PROVE FALSE
  BY <1>2, UnspentStep DEF Settled
<1>3. ASSUME NEW q \in Rotating(f)' PROVE FALSE
  <2>0. q \in Reqs
    BY <1>3 DEF Rotating
  <2>1. ASSUME NEW u \in Users, StartSession(q, u, f) PROVE FALSE
    BY <2>1 DEF StartSession, Settled
  <2>2. ASSUME MarkUsed(q), Redeemable(req[q].token), family[req[q].token] = f PROVE FALSE
    <3>1. req[q].token \in Unspent(f)
      BY <2>2 DEF Redeemable, Unspent, IndInv, RowsOK
    <3> QED
      BY <3>1 DEF Settled
  <2>3. q \notin Rotating(f)
    BY DEF Settled
  <2> QED
    BY <1>3, <2>0, <2>1, <2>2, <2>3, RotatingStep
<1> QED
  BY <1>1, <1>2, <1>3 DEF Settled

\* A request about to insert its refresh row does so, is dropped, or waits.
LEMMA InsertOrDrop ==
  ASSUME IndInv, [Next]_vars, NEW r \in Reqs, req[r].pc = "insert"
  PROVE  req'[r] = req[r] \/ InsertRefresh(r) \/ Drop(r)
<1>1. CASE Janitor \/ Environment \/ UNCHANGED vars
  BY <1>1 DEF Janitor, Environment, SweepStart, SweepRefresh, SweepAccess, SweepFail,
              Tick, LockAccount, UnlockAccount, vars
<1>2. ASSUME NEW q \in Reqs, RequestBegins(q) \/ RequestStep(q), q # r PROVE req'[r] = req[r]
  BY <1>2, OthersKeep
<1>3. ~RequestBegins(r)
  BY DEF RequestBegins, StartSession, PresentRefresh, PresentLogout, BeginRevokeAll
<1>4. CASE RequestStep(r)
  <2>1. ~IssueAccess(r) /\ ~FindRefresh(r) /\ ~MarkUsed(r) /\ ~RevokeReplayed(r) /\ ~CheckAccount(r)
    BY DEF IssueAccess, FindRefresh, MarkUsed, RevokeReplayed, CheckAccount
  <2>2. ~FindLogout(r) /\ ~LogoutFamily(r) /\ ~LogoutAccess(r)
        /\ ~RevokeAllRefresh(r) /\ ~RevokeAllAccess(r)
    BY DEF FindLogout, LogoutFamily, LogoutAccess, RevokeAllRefresh, RevokeAllAccess
  <2> QED
    BY <1>4, <2>1, <2>2 DEF RequestStep
<1> QED
  BY <1>1, <1>2, <1>3, <1>4 DEF Next

\* A token with a name and no refresh row is being inserted, or its login is
\* settled.
HalfInv ==
    \A t \in Minted \ issued :
        \/ \E r \in Reqs : req[r].pc = "insert" /\ req[r].token = t
        \/ Settled(family[t])

(***************************************************************************)
(* Every step keeps it: a request that is dropped before its insert was    *)
(* the only one in its family's rotation.                                  *)
(***************************************************************************)
LEMMA HalfStep ==
  ASSUME IndInv, HalfInv, [Next]_vars
  PROVE  HalfInv'
<1> SUFFICES ASSUME NEW t \in Minted' \ issued'
             PROVE  \/ \E r \in Reqs : req'[r].pc = "insert" /\ req'[r].token = t
                    \/ Settled(family[t])'
  BY DEF HalfInv
<1>a. TypeOK /\ RowsOK /\ OneChain /\ t \notin issued /\ t \in Tokens
  BY GrowStep DEF IndInv, Minted
<1>1. CASE t \notin Minted
  <2>1. PICK r \in Reqs : IssueAccess(r)
    BY <1>1, MintStep
  <2>2. PICK s \in Tokens \ Minted : IssueAccess(r)!2!(s)
    BY <2>1 DEF IssueAccess
  <2>3. s = t
    <3>1. \A x \in Tokens \ {s} : family'[x] = family[x]
      BY <2>2, <1>a DEF TypeOK
    <3> QED
      BY <1>a, <1>1, <3>1 DEF Minted
  <2>4. req'[r] = [req[r] EXCEPT !.pc = "insert", !.token = t, !.at = now] /\ req[r] \in Job
    BY <1>a, <2>2, <2>3 DEF Become, TypeOK
  <2>5. req'[r].pc = "insert" /\ req'[r].token = t
    BY <2>4 DEF Job
  <2> QED
    BY <2>5
<1>2. CASE t \in Minted
  <2>1. PICK f \in Families : family[t] = f /\ family'[t] = f /\ f \in started
    BY <1>a, <1>2, MintStep DEF RowsOK, TypeOK
  <2>2. ASSUME Settled(f) PROVE Settled(family[t])'
    <3>1. Settled(f)'
      BY <2>1, <2>2, SettledStays
    <3> QED
      BY <2>1, <3>1 DEF Settled
  <2>3. ASSUME NEW r \in Reqs, req[r].pc = "insert", req[r].token = t
        PROVE  req'[r] = req[r] \/ Settled(f)'
    <3>1. r \in Rotating(f)
      <4>1. JobOK(r)
        BY DEF IndInv
      <4>2. family[t] = req[r].family
        BY <2>3, <4>1 DEF JobOK
      <4> QED
        BY <2>1, <2>3, <4>2 DEF Rotating, RotatingPCs
    <3>2. Unspent(f) = {} /\ \A q \in Rotating(f) : q = r
      BY <1>a, <2>1, <3>1 DEF OneChain
    <3>3. ~InsertRefresh(r)
      BY <2>3 DEF InsertRefresh
    <3>4. CASE Drop(r)
      <4>1. req'[r].pc = "idle"
        BY <1>a, <3>4 DEF Drop, Finish, Become, TypeOK, Idle
      <4>2. \A q \in Reqs : q # r => req'[q] = req[q]
        BY <3>4 DEF Drop, Finish, Become
      <4>3. Rotating(f)' = {}
        <5> SUFFICES ASSUME NEW q \in Reqs, req'[q].pc \in RotatingPCs, req'[q].family = f
                     PROVE  FALSE
          BY DEF Rotating
        <5>1. q # r
          BY <4>1 DEF RotatingPCs
        <5>2. q \in Rotating(f)
          BY <4>2, <5>1 DEF Rotating
        <5> QED
          BY <3>2, <5>1, <5>2
      <4>4. UNCHANGED <<issued, used, family, started>>
        BY <3>4 DEF Drop, refreshVars, historyVars
      <4>5. Unspent(f)' = {}
        BY <3>2, <4>4 DEF Unspent
      <4> QED
        BY <2>1, <4>3, <4>4, <4>5 DEF Settled
    <3> QED
      BY <2>3, <3>3, <3>4, InsertOrDrop
  <2>4. CASE \E r \in Reqs : req[r].pc = "insert" /\ req[r].token = t
    <3>1. PICK r \in Reqs : req[r].pc = "insert" /\ req[r].token = t
      BY <2>4
    <3>2. CASE req'[r] = req[r]
      BY <3>1, <3>2
    <3>3. CASE Settled(f)'
      BY <2>1, <3>3 DEF Settled
    <3> QED
      BY <2>3, <3>1, <3>2, <3>3
  <2>5. \/ \E r \in Reqs : req[r].pc = "insert" /\ req[r].token = t
        \/ Settled(f)
    BY <1>a, <1>2, <2>1 DEF HalfInv
  <2> QED
    BY <2>2, <2>4, <2>5
<1> QED
  BY <1>1, <1>2

(***************************************************************************)
(* A request that fails between the two inserts of issue() leaves an       *)
(* access row only of a login that can never be refreshed again.           *)
(***************************************************************************)
THEOREM HalfIssuesEnd == Spec => []HalfIssuedEnds
<1>1. Init => HalfInv
  BY DEF Init, HalfInv, Minted
<1>2. IndInv /\ HalfInv /\ [Next]_vars => HalfInv'
  BY HalfStep
<1>3. IndInv /\ HalfInv => HalfIssuedEnds
  BY DEF IndInv, RowsOK, HalfInv, HalfIssuedEnds, Settled
<1> QED
  BY <1>1, <1>2, <1>3, Inductive, PTL DEF Spec

-----------------------------------------------------------------------------
(* Sessions implements SessionChain.                                       *)

\* The head of a family is the row mark_used would take, and there is one.
LEMMA HeadIsLive ==
  ASSUME IndInv, NEW f \in Families
  PROVE  /\ Live(f) = {} => HeadOf(f) = None
         /\ \A t \in Live(f) : HeadOf(f) = t /\ Live(f) = {t} /\ t # None
<1>1. \A s, t \in Live(f) : s = t
  BY LiveIsUnspent DEF IndInv, OneChain
<1>2. Live(f) \subseteq Tokens
  BY DEF IndInv, TypeOK, Live, RowsOfFamily
<1> QED
  BY <1>1, <1>2, SessionsAssumption DEF HeadOf

(***************************************************************************)
(* A step that only takes rows away ends some families.                    *)
(***************************************************************************)
LEMMA EndStep ==
  ASSUME IndInv, started' = started, issued' = issued,
         \A f \in Families : Rotating(f)' = Rotating(f) /\ Live(f)' \subseteq Live(f)
  PROVE  \E E \in SUBSET Families : Chain!End(E)
<1> DEFINE E == {f \in Families : Live(f) # {} /\ Live(f)' = {}}
<1>1. ASSUME NEW f \in Families
      PROVE  HeadOf(f)' = IF f \in E THEN None ELSE HeadOf(f)
  <2>1. CASE Live(f)' = {}
    <3>1. HeadOf(f)' = None
      BY <2>1 DEF HeadOf
    <3> QED
      BY <2>1, <3>1, HeadIsLive
  <2>2. CASE Live(f)' # {}
    <3>1. Live(f)' = Live(f)
      BY <2>2, HeadIsLive
    <3>2. HeadOf(f)' = HeadOf(f)
      BY <3>1 DEF HeadOf
    <3> QED
      BY <2>2, <3>2
  <2> QED
    BY <2>1, <2>2
<1>2. E \in SUBSET Families
  OBVIOUS
<1>3. Chain!End(E)
  BY <1>1 DEF Chain!End
<1> QED
  BY <1>2, <1>3

\* Families whose live rows stay as they are keep their heads.
LEMMA HeadsKept ==
  ASSUME \A f \in Families : Live(f)' = Live(f)
  PROVE  [f \in Families |-> HeadOf(f)]' = [f \in Families |-> HeadOf(f)]
<1>1. ASSUME NEW f \in Families PROVE HeadOf(f)' = HeadOf(f)
  <2>1. Live(f)' = Live(f)
    OBVIOUS
  <2> QED
    BY <2>1 DEF HeadOf
<1> QED
  BY <1>1

\* What the chain's variables see of a step that touches one family f only.
LEMMA OneFamily ==
  ASSUME NEW f \in Families,
         \A g \in Families : g # f => Rotating(g)' = Rotating(g) /\ Live(g)' = Live(g)
  PROVE  /\ [g \in Families |-> HeadOf(g)]'
              = [[g \in Families |-> HeadOf(g)] EXCEPT ![f] = HeadOf(f)']
         /\ Rotating(f) # {} /\ Rotating(f)' = {} =>
              {g \in Families : Rotating(g) # {}}' = {g \in Families : Rotating(g) # {}} \ {f}
         /\ Rotating(f)' # {} =>
              {g \in Families : Rotating(g) # {}}' = {g \in Families : Rotating(g) # {}} \cup {f}
<1>1. ASSUME NEW g \in Families, g # f PROVE HeadOf(g)' = HeadOf(g)
  <2>1. Live(g)' = Live(g)
    BY <1>1
  <2> QED
    BY <2>1 DEF HeadOf
<1> QED
  BY <1>1

(***************************************************************************)
(* Sessions implements the chain of single-use tokens: the login opens a   *)
(* chain, mark_used redeems its head, the insert issues the next one, a    *)
(* rotation that is refused or dropped abandons it, a revocation or the    *)
(* sweep ends chains, and no other step does anything to them.             *)
(***************************************************************************)
THEOREM ChainRefined == Spec => ImplementsChain
<1> USE DEF refreshVars, accessVars, historyVars
<1>1. Init => Chain!Init
  BY DEF Init, Chain!Init, HeadOf, Live, RowsOfFamily, Rotating, Idle, RotatingPCs
<1>2. ASSUME IndInv, IndInv', [Next]_vars PROVE [Chain!Next]_Chain!vars
  <2>a. TypeOK /\ RowsOK /\ OneChain /\ \A r \in Reqs : JobOK(r)
    BY <1>2 DEF IndInv
  <2>1. ASSUME NEW r \in Reqs, NEW u \in Users, NEW f \in Families, StartSession(r, u, f)
        PROVE  Chain!Open(f)
    <3>1. \A g \in Families : Live(g)' = Live(g)
      BY <2>1 DEF StartSession, Live, RowsOfFamily, Redeemable
    <3>2. req'[r] = [Idle EXCEPT !.pc = "access", !.user = u, !.family = f, !.at = now]
      BY <1>2, <2>1, OthersKeep DEF StartSession, RequestBegins
    <3>3. /\ r \in Rotating(f)'
          /\ \A g \in Families : g # f => Rotating(g)' = Rotating(g)
      <4>1. req'[r].pc = "access" /\ req'[r].family = f
        BY <3>2 DEF Idle
      <4>2. \A q \in Reqs : q # r => req'[q] = req[q]
        BY <1>2, <2>1, OthersKeep DEF RequestBegins
      <4>3. req[r].pc = "idle"
        BY <2>1 DEF StartSession
      <4> QED
        BY <4>1, <4>2, <4>3 DEF Rotating, RotatingPCs
    <3>4. {g \in Families : Rotating(g) # {}}' = {g \in Families : Rotating(g) # {}} \cup {f}
      BY <3>3
    <3>5. [g \in Families |-> HeadOf(g)]' = [g \in Families |-> HeadOf(g)]
      BY <3>1, HeadsKept
    <3> QED
      BY <2>1, <3>4, <3>5 DEF Chain!Open, StartSession
  <2>2. ASSUME NEW r \in Reqs, InsertRefresh(r) PROVE \E f \in Families : Chain!Issue(f)
    <3> PICK t \in Minted \ issued, f \in Families :
               t = req[r].token /\ f = req[r].family /\ family[t] = f
      BY <2>2, <2>a DEF InsertRefresh, JobOK, RotatingPCs, TypeOK
    <3>1. r \in Rotating(f)
      BY <2>2 DEF InsertRefresh, Rotating, RotatingPCs
    <3>2. Unspent(f) = {} /\ Rotating(f) = {r} /\ Live(f) = {}
      BY <1>2, <2>a, <3>1, LiveIsUnspent DEF OneChain
    <3>3. /\ Live(f)' = {t}
          /\ \A g \in Families : g # f => Live(g)' = Live(g)
      BY <2>2, <2>a, <3>2
         DEF InsertRefresh, Live, RowsOfFamily, Redeemable, RowsOK
    <3>4. /\ Rotating(f)' = {}
          /\ \A g \in Families : g # f => Rotating(g)' = Rotating(g)
      BY <2>2, <2>a, <3>1, <3>2
         DEF InsertRefresh, Rotating, Finish, Become, TypeOK, Idle, RotatingPCs
    <3>5. HeadOf(f)' = t
      BY <3>3 DEF HeadOf, Minted
    <3>6. issued' = issued \cup {t} /\ started' = started /\ t \in Tokens
      BY <2>2 DEF InsertRefresh, Minted
    <3> QED
      BY <3>1, <3>3, <3>4, <3>5, <3>6, OneFamily DEF Chain!Issue
  <2>3. ASSUME NEW r \in Reqs, MarkUsed(r), Redeemable(req[r].token)
        PROVE  \E f \in Families : Chain!Redeem(f)
    <3> PICK t \in issued \ used, f \in Families : t = req[r].token /\ f = family[t]
      BY <2>3, <2>a DEF Redeemable, RowsOK, TypeOK
    <3>1. t \in Live(f)
      BY <2>3 DEF Live, RowsOfFamily, Redeemable
    <3>2. HeadOf(f) = t /\ Live(f) = {t} /\ t # None
      BY <1>2, <3>1, HeadIsLive
    <3>3. /\ Live(f)' = {}
          /\ \A g \in Families : g # f => Live(g)' = Live(g)
      BY <2>3, <3>2 DEF MarkUsed, Live, RowsOfFamily, Redeemable
    <3>4. /\ r \in Rotating(f)'
          /\ \A g \in Families : g # f => Rotating(g)' = Rotating(g)
      <4>1. req'[r] = [Idle EXCEPT !.pc = "account", !.user = user_id[t], !.family = f]
        BY <1>2, <2>3, OthersKeep DEF RequestStep, MarkUsed
      <4>2. req'[r].pc = "account" /\ req'[r].family = f
        BY <4>1 DEF Idle
      <4>3. \A q \in Reqs : q # r => req'[q] = req[q]
        BY <1>2, <2>3, OthersKeep DEF RequestStep
      <4>4. req[r].pc = "mark"
        BY <2>3 DEF MarkUsed
      <4> QED
        BY <4>2, <4>3, <4>4 DEF Rotating, RotatingPCs
    <3>5. HeadOf(f)' = None
      BY <3>3 DEF HeadOf
    <3>6. issued' = issued /\ started' = started
      BY <2>3 DEF MarkUsed
    <3> QED
      BY <3>2, <3>3, <3>4, <3>5, <3>6, OneFamily DEF Chain!Redeem
  <2>4. ASSUME NEW r \in Reqs, req[r].pc \in RotatingPCs, Drop(r) \/ CheckAccount(r), Finish(r)
        PROVE  \E f \in Families : Chain!Abandon(f)
    <3> PICK f \in Families : f = req[r].family
      BY <2>4, <2>a DEF JobOK, TypeOK
    <3>1. \A g \in Families : Live(g)' = Live(g)
      BY <2>4 DEF Drop, CheckAccount, Live, RowsOfFamily, Redeemable
    <3>2. Rotating(f) = {r}
      BY <2>4, <2>a DEF OneChain, Rotating
    <3>3. /\ Rotating(f)' = {}
          /\ \A g \in Families : g # f => Rotating(g)' = Rotating(g)
      BY <2>4, <2>a, <3>2 DEF Rotating, Finish, Become, TypeOK, Idle, RotatingPCs
    <3>4. [g \in Families |-> HeadOf(g)]' = [g \in Families |-> HeadOf(g)]
      BY <3>1, HeadsKept
    <3>5. issued' = issued /\ started' = started
      BY <2>4 DEF Drop, CheckAccount
    <3>6. {g \in Families : Rotating(g) # {}}' = {g \in Families : Rotating(g) # {}} \ {f}
      BY <3>1, <3>2, <3>3
    <3> QED
      BY <3>2, <3>4, <3>5, <3>6 DEF Chain!Abandon
  <2>5. ASSUME started' = started, issued' = issued, \A f \in Families : Rotating(f)' = Rotating(f)
        PROVE  Chain!Next
    <3>1. ASSUME NEW f \in Families PROVE Live(f)' \subseteq Live(f)
      <4>1. \A r \in Reqs : ~InsertRefresh(r)
        BY <2>5, <2>a DEF InsertRefresh, JobOK
      <4> QED
        BY <1>2, <4>1, LiveStep DEF Rotating
    <3> QED
      BY <1>2, <2>5, <3>1, EndStep DEF Chain!Next
  <2>6. ASSUME NEW r \in Reqs, RequestBegins(r) \/ RequestStep(r),
               \A u \in Users, f \in Families : ~StartSession(r, u, f),
               ~InsertRefresh(r), ~(MarkUsed(r) /\ Redeemable(req[r].token)),
               ~(req[r].pc \in RotatingPCs /\ (Drop(r) \/ CheckAccount(r)) /\ Finish(r))
        PROVE  Chain!Next
    <3>1. req[r].pc \in RotatingPCs => req'[r].pc \in RotatingPCs
      <4> SUFFICES ASSUME req[r].pc \in RotatingPCs PROVE req'[r].pc \in RotatingPCs
        OBVIOUS
      <4>1. IssueAccess(r) \/ (CheckAccount(r) /\ Become(r, [req[r] EXCEPT !.pc = "access", !.at = now]))
        BY <2>6 DEF RequestBegins, RequestStep, StartSession, PresentRefresh, PresentLogout,
             BeginRevokeAll, FindRefresh, MarkUsed, RevokeReplayed, CheckAccount, Drop,
             FindLogout, LogoutFamily, LogoutAccess, RevokeAllRefresh, RevokeAllAccess, RotatingPCs
      <4>2. req[r] \in Job /\ \A j : Become(r, j) => req'[r] = j
        BY <1>2, <2>6, <2>a, OthersKeep DEF TypeOK
      <4>3. CASE IssueAccess(r)
        <5>1. \E t : Become(r, [req[r] EXCEPT !.pc = "insert", !.token = t, !.at = now])
          BY <4>3 DEF IssueAccess
        <5> QED
          BY <4>2, <5>1 DEF Job, RotatingPCs
      <4>4. CASE Become(r, [req[r] EXCEPT !.pc = "access", !.at = now])
        BY <4>2, <4>4 DEF Job, RotatingPCs
      <4> QED
        BY <4>1, <4>3, <4>4
    <3>2. /\ issued' = issued /\ started' = started
          /\ \A q \in Reqs : q # r => req'[q] = req[q]
          /\ \/ req'[r].pc \notin RotatingPCs
             \/ req[r].pc \in RotatingPCs /\ req'[r].family = req[r].family
      BY <1>2, <2>6, MovesStep
    <3>3. ASSUME NEW f \in Families PROVE Rotating(f)' = Rotating(f)
      BY <3>1, <3>2 DEF Rotating
    <3> QED
      BY <2>5, <3>2, <3>3
  <2>7. CASE Janitor \/ Environment \/ UNCHANGED vars
    <3>1. UNCHANGED <<req, issued, started>>
      BY <2>7 DEF Janitor, Environment, SweepStart, SweepRefresh, SweepAccess, SweepFail,
                  Tick, LockAccount, UnlockAccount, vars
    <3>2. \A f \in Families : Rotating(f)' = Rotating(f)
      BY <3>1 DEF Rotating
    <3> QED
      BY <2>5, <3>1, <3>2
  <2>8. ASSUME NEW r \in Reqs, RequestBegins(r) \/ RequestStep(r) PROVE Chain!Next
    BY <2>1, <2>2, <2>3, <2>4, <2>6, <2>8 DEF Chain!Next
  <2> QED
    BY <1>2, <2>7, <2>8 DEF Next, Chain!Next
<1> QED
  BY <1>1, <1>2, Inductive, PTL DEF Spec, ImplementsChain, Chain!Spec

=============================================================================
