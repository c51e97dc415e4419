-------------------------------- MODULE Auth --------------------------------
(***************************************************************************)
(* AuthService (src/service/auth_service.rs): the account component and    *)
(* the session component put together into logins, refreshes, logouts and  *)
(* password changes.  Accounts.tla and Sessions.tla are instantiated over  *)
(* one clock and one set of requests; the steps below say which of their   *)
(* actions happen together and what travels between them:                  *)
(*                                                                         *)
(*   login            authenticate's success starts a session for the      *)
(*                    account, with the role of the row it had read;       *)
(*   refresh          the account is read again between the redemption and *)
(*                    the next issue, its lock consulted and its role      *)
(*                    taken;                                               *)
(*   change_password  storing the new hash is followed by revoke_all.      *)
(*                                                                         *)
(* The account id is the address, and Sessions' own `locked` is not used:  *)
(* the lock is the row's.                                                  *)
(***************************************************************************)
EXTENDS Integers, FiniteSets

CONSTANTS
    Emails, Passwords, Calls, MaxAttempts, Lockout,             \* Accounts
    Families, Tokens, RefreshTtl, AccessTtl, OpaqueAccess,      \* Sessions
    None, MaxTime,
    Ops             \* bound of the model: the account operations that are called

VARIABLES
    account, call, streak, overlapped,                          \* Accounts
    stored, used, revoked, user_id, family, expires_at,         \* Sessions
    access, access_expires_at, issued, held, started, condemned, req, sweep,
    now,
    rank,       \* the role each request will write into its access token
    role,       \* the role column of access_tokens
    era,        \* how often the password of an account has been replaced
    begun,      \* the last era in which a family's login password was valid
    change,     \* the era each change of password has opened
    over,       \* earlier eras are over: a change was answered with 204
    spared      \* the last era whose opening could not see the family

A == INSTANCE Accounts

S == INSTANCE Sessions WITH Users <- Emails, Reqs <- Calls, Lockable <- {}, locked <- {}

\* As Accounts and Sessions assume of their own constants; accounts have ids.
ASSUME AuthAssumption ==
    /\ None \notin Emails \cup Passwords \cup Families \cup Tokens \cup Nat
                    \cup A!Operations \cup A!Results \cup A!Row \cup {"user", "admin"}
    /\ IsFiniteSet(Calls)
    /\ MaxAttempts \in Nat \ {0}
    /\ {Lockout, RefreshTtl, AccessTtl, MaxTime} \subseteq Nat
    /\ OpaqueAccess \in BOOLEAN

accountVars == <<account, call, streak, overlapped>>
sessionVars == <<stored, used, revoked, user_id, family, expires_at,
                 access, access_expires_at, issued, held, started, condemned, req, sweep>>
roleVars == <<rank, role>>
changeVars == <<era, begun, change, over, spared>>
vars == <<accountVars, sessionVars, roleVars, changeVars, now>>

\* Accounts a database may hold when a process starts on it; those that are
\* locked, or administrators already, are left out.
KnownRows == {[A!NewRow(p, "user") EXCEPT !.failed = n] :
                 p \in Passwords, n \in 0..MaxAttempts - 1}

Init ==
    /\ account \in [Emails -> KnownRows \cup {None}]
    /\ call = [c \in Calls |-> A!Fresh]
    /\ streak = [e \in Emails |-> IF account[e] = None THEN 0 ELSE account[e].failed]
    /\ overlapped = {}
    /\ S!Init
    /\ rank = [c \in Calls |-> None]
    /\ role = [t \in Tokens |-> None]
    /\ era = [e \in Emails |-> 0]
    /\ begun = [f \in Families |-> 0]
    /\ change = [c \in Calls |-> 0]
    /\ over = [e \in Emails |-> 0]
    /\ spared = [f \in Families |-> 0]

-----------------------------------------------------------------------------
\* A step of AccountService alone, in a request that is doing nothing else.
AccountStep(c) ==
    /\ req[c] = S!Idle
    /\ (A!Begin(c) \/ A!Step(c))
    /\ call'[c].op \in Ops
    /\ call'[c].result \notin {"granted", "changed"}
    /\ UNCHANGED <<sessionVars, roleVars, changeVars>>

(* A login whose account was read and found good, in family f.  A password *)
(* replaced since the row was read is one of an era before this one, and   *)
(* the change that opened this one cannot see the family unless its        *)
(* revoke_all is still to come.                                            *)
Granted(c, f) ==
    LET e == call[c].email
        stale == call[c].seen.password # account[e].password
        pending == \E d \in Calls :
                      change[d] = era[e] /\ req[d].pc = "all_refresh" /\ req[d].user = e IN
    /\ (A!VerifyLogin(c) \/ A!ClearFailures(c))
    /\ call'[c].result = "granted"
    /\ S!StartSession(c, e, f)
    /\ begun' = [begun EXCEPT ![f] = IF stale THEN era[e] - 1 ELSE era[e]]
    /\ spared' = [spared EXCEPT ![f] = IF stale /\ ~pending THEN era[e] ELSE 0]
    /\ UNCHANGED <<role, era, change, over>>

\* A login that hands issue() no role, and so the one the slot last had.
LogInWithoutRole(c) ==
    /\ \E f \in Families : Granted(c, f)
    /\ UNCHANGED rank

(* login: authenticate returns the account as it read it, and start opens  *)
(* a family for it.                                                        *)
LogIn(c) ==
    /\ \E f \in Families : Granted(c, f)
    /\ rank' = [rank EXCEPT ![c] = call[c].seen.role]

\* redeem has spent the token; active reads the account as it is now.
CheckAccount(c) ==
    LET row == account[req[c].user] IN
    /\ req[c].pc = "account"
    /\ \/ /\ A!IsLockedAt(row, now)
          /\ S!Drop(c)
          /\ UNCHANGED rank
       \/ /\ ~A!IsLockedAt(row, now)
          /\ S!CheckAccount(c)
          /\ rank' = [rank EXCEPT ![c] = row.role]
    /\ UNCHANGED <<accountVars, role, changeVars>>

\* issue writes the role it was given into the access token's row.
IssueAccess(c) ==
    /\ S!IssueAccess(c)
    /\ role' = [role EXCEPT ![req'[c].token] = rank[c]]
    /\ UNCHANGED <<accountVars, rank, changeVars>>

(* change_password: the new hash is stored, then revoke_all runs.          *)
StorePassword(c) ==
    LET e == call[c].email IN
    /\ A!UpdatePassword(c)
    /\ S!BeginRevokeAll(c, e)
    /\ era' = [era EXCEPT ![e] = @ + 1]
    /\ change' = [change EXCEPT ![c] = era[e] + 1]
    /\ UNCHANGED <<roleVars, begun, over, spared>>

\* revoke_all, first half: what is being rotated at this moment is out of its reach.
RevokeAllRefresh(c) ==
    /\ S!RevokeAllRefresh(c)
    /\ spared' = [f \in Families |->
                    IF \E r \in S!Rotating(f) : req[r].user = req[c].user
                      THEN IF change[c] > spared[f] THEN change[c] ELSE spared[f]
                      ELSE spared[f]]
    /\ UNCHANGED <<accountVars, roleVars, era, begun, change, over>>

\* Second half, and the answer; change is 0 when it was no change of password.
RevokeAllAccess(c) ==
    LET e == req[c].user IN
    /\ S!RevokeAllAccess(c)
    /\ over' = [over EXCEPT ![e] = IF change[c] > @ THEN change[c] ELSE @]
    /\ UNCHANGED <<accountVars, roleVars, era, begun, change, spared>>

\* The requests to refresh, to log out and, by an administrator, to revoke all.
PresentSession(c) ==
    /\ call[c].pc = "new" \/ (call[c].pc = "done" /\ call[c].op # "change")
    /\ \/ \E t \in Tokens : S!PresentRefresh(c, t) \/ S!PresentLogout(c, t)
       \/ \E e \in Emails : account[e] # None /\ S!BeginRevokeAll(c, e)
    /\ UNCHANGED <<accountVars, roleVars, changeVars>>

\* The other steps of SessionService.
SessionStep(c) ==
    /\ \/ S!FindRefresh(c) \/ S!MarkUsed(c) \/ S!RevokeReplayed(c)
       \/ S!FindLogout(c) \/ S!LogoutFamily(c) \/ S!LogoutAccess(c)
       \/ S!InsertRefresh(c) \/ S!Drop(c)
    /\ UNCHANGED <<accountVars, roleVars, changeVars>>

Tick == A!Tick /\ S!Tick /\ UNCHANGED <<roleVars, changeVars>>

Next ==
    \/ \E c \in Calls :
        \/ AccountStep(c) \/ LogIn(c) \/ StorePassword(c)
        \/ CheckAccount(c) \/ IssueAccess(c) \/ RevokeAllRefresh(c) \/ RevokeAllAccess(c)
        \/ PresentSession(c) \/ SessionStep(c)
    \/ Tick

Spec == Init /\ [][Next]_vars

-----------------------------------------------------------------------------
(* Properties.                                                             *)

TypeOK ==
    /\ rank \in [Calls -> {"user", "admin", None}]
    /\ role \in [Tokens -> {"user", "admin", None}]
    /\ \A t \in access : role[t] # None
    /\ era \in [Emails -> Nat]
    /\ begun \in [Families -> Nat]
    /\ change \in [Calls -> Nat]
    /\ over \in [Emails -> Nat]
    /\ spared \in [Families -> Nat]

\* A token that still lets its holder in, now or once its family is left alone.
Works(t) == (t \in stored /\ S!Redeemable(t)) \/ t \in access

(* Once a change of password has been answered, nothing in either table is *)
(* left of a session begun with the old password, but what the change      *)
(* could not see: a family that was between two of its rows when           *)
(* revoke_all ran, or one a login opens that had read the account before   *)
(* the change.  This is what the order of the halves is for: were the      *)
(* sessions ended first, every login until the new hash is stored would    *)
(* keep its session.                                                       *)
SurvivorsOverlapped ==
    \A t \in S!Minted : Works(t) =>
        over[user_id[t]] <= begun[family[t]] \/ over[user_id[t]] <= spared[family[t]]

=============================================================================
