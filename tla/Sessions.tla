------------------------------ MODULE Sessions ------------------------------
(***************************************************************************)
(* SessionService (src/service/session_service.rs) over its two stores:    *)
(* the refresh_tokens table and, under the opaque format, access_tokens;   *)
(* with AuthService's flows around it (src/service/auth_service.rs) and    *)
(* the TokenJanitor's sweep.                                               *)
(*                                                                         *)
(* Every request is a process of its own.  One action is one statement the *)
(* store executes (each is atomic there); between two actions of a request *)
(* is an .await, where any other request may run and where the request may *)
(* be dropped: a backend error returned by `?`, the request timeout, a     *)
(* client that disconnects and a process that dies all stop it there.      *)
(* Requests may run in different processes of a deployment: they share     *)
(* nothing but the database.                                               *)
(*                                                                         *)
(* The database is kept by columns.  A row is a token: `stored` is the set *)
(* of rows of refresh_tokens, `used` and `revoked` the rows whose used_at  *)
(* is set and whose revoked flag is set, user_id, family and expires_at    *)
(* the other columns.  The access token minted in the same issue() has the *)
(* same name, and `access` is the set of rows of access_tokens.            *)
(***************************************************************************)
EXTENDS Integers

CONSTANTS
    Users,          \* accounts
    Families,       \* login identifiers: a fresh Uuid each
    Tokens,         \* token pairs: fresh random secrets
    Reqs,           \* request slots, of all the processes
    None,           \* SQL NULL, and an unset local variable
    Lockable,       \* bound of the model: accounts the other components lock
    RefreshTtl,     \* lifetime of a refresh token, in ticks
    AccessTtl,      \* lifetime of an access token, in ticks
    MaxTime,        \* bound of the model on the clock
    OpaqueAccess    \* TRUE when access tokens are rows (opaque format)

ASSUME SessionsAssumption ==
    /\ None \notin Users \cup Families \cup Tokens
    /\ Lockable \subseteq Users
    /\ RefreshTtl \in Nat
    /\ AccessTtl \in Nat
    /\ MaxTime \in Nat
    /\ OpaqueAccess \in BOOLEAN

VARIABLES
    stored, used, revoked, user_id, family, expires_at,  \* refresh_tokens
    access, access_expires_at,                           \* access_tokens
    issued,         \* tokens whose refresh row was ever inserted
    held,           \* tokens some client has received
    started,        \* families some login has begun
    condemned,      \* families revoked because a token was presented again
    locked,         \* accounts AccountService::active refuses
    req,            \* where each request is, and its local variables
    sweep,          \* where the janitor is, and its cut-off
    now             \* the clock

refreshVars == <<stored, used, revoked, user_id, family, expires_at>>
accessVars == <<access, access_expires_at>>
historyVars == <<issued, held, started, condemned>>
vars == <<refreshVars, accessVars, historyVars, locked, req, sweep, now>>

-----------------------------------------------------------------------------
(* Requests.  pc names the statement a request is about to run.            *)

RotatingPCs == {"account", "access", "insert"}
RedeemPCs   == {"find", "mark", "revoke"}
LogoutPCs   == {"logout_find", "logout_family", "logout_access"}
AllPCs      == {"all_refresh", "all_access"}

Job == [pc : {"idle"} \cup RotatingPCs \cup RedeemPCs \cup LogoutPCs \cup AllPCs,
        token : Tokens \cup {None},
        user : Users \cup {None},
        family : Families \cup {None},
        at : 0..MaxTime]

Idle == [pc |-> "idle", token |-> None, user |-> None, family |-> None, at |-> 0]

\* The request goes on with job j, only moves to its next statement, or ends.
Become(r, j) == req' = [req EXCEPT ![r] = j]
Goto(r, pc) == Become(r, [req[r] EXCEPT !.pc = pc])
Finish(r) == Become(r, Idle)

\* Tokens whose secret has been generated: no secret is generated twice.
Minted == {t \in Tokens : family[t] # None}

-----------------------------------------------------------------------------
(* The statements of the stores.                                           *)

\* RefreshTokenRecord::is_usable_at.
UsableAt(t, at) == t \notin revoked /\ t \notin used /\ expires_at[t] > at

\* OpaqueCodec::verify: an access token the next request would be let in with.
Accepted(t, at) == t \in access /\ access_expires_at[t] > at

\* mark_used with half of its WHERE clause.
RedeemableTwice(t) == t \in stored /\ t \notin revoked

\* mark_used: the rows UPDATE ... WHERE used_at IS NULL AND revoked = 0 matches.
Redeemable(t) == t \in stored /\ t \notin used /\ t \notin revoked

\* revoke_family keyed on the account rather than on the login.
RowsOfFamilysUser(f) ==
    {t \in stored : \E s \in stored : family[s] = f /\ user_id[s] = user_id[t]}

\* revoke_family and revoke_all_for_user flag the rows that are there now.
RowsOfFamily(f) == {t \in stored : family[t] = f}
RowsOfUser(u) == {t \in stored : user_id[t] = u}

\* A delete_all_for_user that takes only the rows of sessions still usable.
AccessOfUsersSessions(u) == {t \in access : user_id[t] = u /\ Redeemable(t)}

\* delete_by_session and delete_all_for_user.
AccessOfFamily(f) == {t \in access : family[t] = f}
AccessOfUser(u) == {t \in access : user_id[t] = u}

\* A sweep that also clears away the rows already spent.
ExpiredOrSpent(cutoff) == {t \in stored : expires_at[t] < cutoff \/ t \in used}

\* delete_expired of either table.
ExpiredRows(cutoff) == {t \in stored : expires_at[t] < cutoff}
ExpiredAccess(cutoff) == {t \in access : access_expires_at[t] < cutoff}

-----------------------------------------------------------------------------
Init ==
    /\ stored = {} /\ used = {} /\ revoked = {}
    /\ user_id = [t \in Tokens |-> None]
    /\ family = [t \in Tokens |-> None]
    /\ expires_at = [t \in Tokens |-> 0]
    /\ access = {}
    /\ access_expires_at = [t \in Tokens |-> 0]
    /\ issued = {} /\ held = {} /\ started = {} /\ condemned = {}
    /\ locked = {}
    /\ req = [r \in Reqs |-> Idle]
    /\ sweep = [pc |-> "idle", cutoff |-> 0]
    /\ now = 0

(* AuthService::login once authenticate has returned, which consulted a    *)
(* lock it read before the hash ran: SessionService::start.                *)
StartSession(r, u, f) ==
    /\ req[r].pc = "idle"
    /\ f \notin started
    /\ started' = started \cup {f}
    /\ Become(r, [Idle EXCEPT !.pc = "access", !.user = u, !.family = f, !.at = now])
    /\ UNCHANGED <<refreshVars, accessVars, issued, held, condemned, locked, sweep, now>>

(* SessionService::issue, first half: TokenIssuer::issue, which stores a   *)
(* row under the opaque format and nothing under the others.  The clock    *)
(* each half computes its expiry from is read some time after the          *)
(* statement before it (`at`) and before its own runs.                     *)
IssueAccess(r) ==
    /\ req[r].pc = "access"
    /\ \E t \in Tokens \ Minted :
        /\ user_id' = [user_id EXCEPT ![t] = req[r].user]
        /\ family' = [family EXCEPT ![t] = req[r].family]
        /\ Become(r, [req[r] EXCEPT !.pc = "insert", !.token = t, !.at = now])
        /\ IF OpaqueAccess
             THEN /\ access' = access \cup {t}
                  /\ \E at \in req[r].at..now :
                        access_expires_at' = [access_expires_at EXCEPT ![t] = at + AccessTtl]
             ELSE UNCHANGED accessVars
    /\ UNCHANGED <<stored, used, revoked, expires_at, historyVars, locked, sweep, now>>

(* issue(), second half: the refresh row.  The answer then reaches the     *)
(* client or is lost on the way.                                           *)
InsertRefresh(r) ==
    LET t == req[r].token IN
    /\ req[r].pc = "insert"
    /\ stored' = stored \cup {t}
    /\ \E at \in req[r].at..now : expires_at' = [expires_at EXCEPT ![t] = at + RefreshTtl]
    /\ issued' = issued \cup {t}
    /\ held' \in {held, held \cup {t}}
    /\ Finish(r)
    /\ UNCHANGED <<used, revoked, user_id, family, accessVars, started, condemned,
                   locked, sweep, now>>

(* SessionService::redeem.  Its clock is read before the row is.           *)
PresentRefresh(r, t) ==
    /\ req[r].pc = "idle"
    /\ t \in held
    /\ Become(r, [Idle EXCEPT !.pc = "find", !.token = t, !.at = now])
    /\ UNCHANGED <<refreshVars, accessVars, historyVars, locked, sweep, now>>

\* A redeem that takes every token it cannot use for a replay.
FindRefreshAlarmed(r) ==
    LET t == req[r].token IN
    /\ req[r].pc = "find"
    /\ \/ t \in stored /\ UsableAt(t, req[r].at) /\ Goto(r, "mark")
       \/ t \in stored /\ ~UsableAt(t, req[r].at) /\ Goto(r, "revoke")
       \/ t \notin stored /\ Finish(r)
    /\ UNCHANGED <<refreshVars, accessVars, historyVars, locked, sweep, now>>

\* find_by_hash and what redeem decides from the row it returned.
FindRefresh(r) ==
    LET t == req[r].token IN
    /\ req[r].pc = "find"
    /\ \/ /\ t \in stored /\ UsableAt(t, req[r].at)
          /\ Become(r, [Idle EXCEPT !.pc = "mark", !.token = t])
       \/ /\ t \in stored /\ ~UsableAt(t, req[r].at) /\ t \in used
          /\ Become(r, [Idle EXCEPT !.pc = "revoke", !.token = t])
       \/ /\ t \notin stored \/ (~UsableAt(t, req[r].at) /\ t \notin used)
          /\ Finish(r)
    /\ UNCHANGED <<refreshVars, accessVars, historyVars, locked, sweep, now>>

\* A mark_used whose answer nobody looks at.
MarkUsedUnchecked(r) ==
    LET t == req[r].token IN
    /\ req[r].pc = "mark"
    /\ used' = IF Redeemable(t) THEN used \cup {t} ELSE used
    /\ Become(r, [Idle EXCEPT !.pc = "account", !.user = user_id[t], !.family = family[t]])
    /\ UNCHANGED <<stored, revoked, user_id, family, expires_at, accessVars, historyVars,
                   locked, sweep, now>>

\* mark_used: redeemed, or a race lost, which is treated as reuse.
MarkUsed(r) ==
    LET t == req[r].token IN
    /\ req[r].pc = "mark"
    /\ \/ /\ Redeemable(t)
          /\ used' = used \cup {t}
          /\ Become(r, [Idle EXCEPT !.pc = "account", !.user = user_id[t],
                                    !.family = family[t]])
       \/ /\ ~Redeemable(t)
          /\ Goto(r, "revoke")
          /\ UNCHANGED used
    /\ UNCHANGED <<stored, revoked, user_id, family, expires_at, accessVars, historyVars,
                   locked, sweep, now>>

\* revoke_family on a replay.  The access rows of the family are left alone.
RevokeReplayed(r) ==
    LET f == family[req[r].token] IN
    /\ req[r].pc = "revoke"
    /\ revoked' = revoked \cup RowsOfFamily(f)
    /\ condemned' = condemned \cup {f}
    /\ Finish(r)
    /\ UNCHANGED <<stored, used, user_id, family, expires_at, accessVars, issued, held,
                   started, locked, sweep, now>>

\* AccountService::active, between the redemption and the next issue().
CheckAccount(r) ==
    /\ req[r].pc = "account"
    /\ \/ req[r].user \in locked /\ Finish(r)
       \/ req[r].user \notin locked /\ Become(r, [req[r] EXCEPT !.pc = "access", !.at = now])
    /\ UNCHANGED <<refreshVars, accessVars, historyVars, locked, sweep, now>>

(* SessionService::revoke: logout.                                         *)
PresentLogout(r, t) ==
    /\ req[r].pc = "idle"
    /\ t \in held
    /\ Become(r, [Idle EXCEPT !.pc = "logout_find", !.token = t])
    /\ UNCHANGED <<refreshVars, accessVars, historyVars, locked, sweep, now>>

FindLogout(r) ==
    /\ req[r].pc = "logout_find"
    /\ \/ req[r].token \in stored /\ Goto(r, "logout_family")
       \/ req[r].token \notin stored /\ Finish(r)
    /\ UNCHANGED <<refreshVars, accessVars, historyVars, locked, sweep, now>>

LogoutFamily(r) ==
    /\ req[r].pc = "logout_family"
    /\ revoked' = revoked \cup RowsOfFamily(family[req[r].token])
    /\ Goto(r, "logout_access")
    /\ UNCHANGED <<stored, used, user_id, family, expires_at, accessVars, historyVars,
                   locked, sweep, now>>

LogoutAccess(r) ==
    /\ req[r].pc = "logout_access"
    /\ access' = access \ AccessOfFamily(family[req[r].token])
    /\ Finish(r)
    /\ UNCHANGED <<refreshVars, access_expires_at, historyVars, locked, sweep, now>>

(* SessionService::revoke_all: an administrator, or a password change      *)
(* after its new hash is stored.                                           *)
BeginRevokeAll(r, u) ==
    /\ req[r].pc = "idle"
    /\ Become(r, [Idle EXCEPT !.pc = "all_refresh", !.user = u])
    /\ UNCHANGED <<refreshVars, accessVars, historyVars, locked, sweep, now>>

RevokeAllRefresh(r) ==
    /\ req[r].pc = "all_refresh"
    /\ revoked' = revoked \cup RowsOfUser(req[r].user)
    /\ Goto(r, "all_access")
    /\ UNCHANGED <<stored, used, user_id, family, expires_at, accessVars, historyVars,
                   locked, sweep, now>>

RevokeAllAccess(r) ==
    /\ req[r].pc = "all_access"
    /\ access' = access \ AccessOfUser(req[r].user)
    /\ Finish(r)
    /\ UNCHANGED <<refreshVars, access_expires_at, historyVars, locked, sweep, now>>

\* A failed refresh that gives the token it has spent back for a retry.
DropGivesBack(r) ==
    /\ req[r].pc # "idle"
    /\ used' = IF req[r].pc \in RotatingPCs THEN {t \in used : family[t] # req[r].family} ELSE used
    /\ Finish(r)
    /\ UNCHANGED <<stored, revoked, user_id, family, expires_at, accessVars, historyVars,
                   locked, sweep, now>>

(* The future of a request is dropped, or `?` returns a backend error.  A  *)
(* statement whose answer never came has run or has not: both are          *)
(* behaviours, the drop then following the statement's step or not.        *)
Drop(r) ==
    /\ req[r].pc # "idle"
    /\ Finish(r)
    /\ UNCHANGED <<refreshVars, accessVars, historyVars, locked, sweep, now>>

(* TokenJanitor::purge_expired: one clock reading, then the two tables in  *)
(* the order Repositories::sweepers lists them.                            *)
SweepStart ==
    /\ sweep.pc = "idle"
    /\ sweep' = [pc |-> "refresh", cutoff |-> now]
    /\ UNCHANGED <<refreshVars, accessVars, historyVars, locked, req, now>>

SweepRefresh ==
    /\ sweep.pc = "refresh"
    /\ stored' = stored \ ExpiredRows(sweep.cutoff)
    /\ sweep' = [sweep EXCEPT !.pc = "access"]
    /\ UNCHANGED <<used, revoked, user_id, family, expires_at, accessVars, historyVars,
                   locked, req, now>>

SweepAccess ==
    /\ sweep.pc = "access"
    /\ access' = access \ ExpiredAccess(sweep.cutoff)
    /\ sweep' = [pc |-> "idle", cutoff |-> 0]
    /\ UNCHANGED <<refreshVars, access_expires_at, historyVars, locked, req, now>>

\* A clean-up task that returns on the first error instead of logging it.
SweepStops ==
    /\ sweep.pc \in {"refresh", "access"}
    /\ sweep' = [sweep EXCEPT !.pc = "stopped"]
    /\ UNCHANGED <<refreshVars, accessVars, historyVars, locked, req, now>>

\* A statement fails: the sweep is abandoned until the next tick of the interval.
SweepFail ==
    /\ sweep.pc \in {"refresh", "access"}
    /\ sweep' = [pc |-> "idle", cutoff |-> 0]
    /\ UNCHANGED <<refreshVars, accessVars, historyVars, locked, req, now>>

(* The rest of the program: AccountService locks and unlocks accounts.     *)
LockAccount(u) ==
    /\ u \notin locked
    /\ locked' = locked \cup {u}
    /\ UNCHANGED <<refreshVars, accessVars, historyVars, req, sweep, now>>

UnlockAccount(u) ==
    /\ u \in locked
    /\ locked' = locked \ {u}
    /\ UNCHANGED <<refreshVars, accessVars, historyVars, req, sweep, now>>

Tick ==
    /\ now < MaxTime
    /\ now' = now + 1
    /\ UNCHANGED <<refreshVars, accessVars, historyVars, locked, req, sweep>>

RequestStep(r) ==
    \/ IssueAccess(r) \/ InsertRefresh(r)
    \/ FindRefresh(r) \/ MarkUsed(r) \/ RevokeReplayed(r) \/ CheckAccount(r)
    \/ FindLogout(r) \/ LogoutFamily(r) \/ LogoutAccess(r)
    \/ RevokeAllRefresh(r) \/ RevokeAllAccess(r)
    \/ Drop(r)

RequestBegins(r) ==
    \/ \E u \in Users, f \in Families : StartSession(r, u, f)
    \/ \E t \in Tokens : PresentRefresh(r, t) \/ PresentLogout(r, t)
    \/ \E u \in Users : BeginRevokeAll(r, u)

Janitor == SweepStart \/ SweepRefresh \/ SweepAccess \/ SweepFail

Environment == Tick \/ \E u \in Lockable : LockAccount(u) \/ UnlockAccount(u)

Next ==
    \/ \E r \in Reqs : RequestBegins(r) \/ RequestStep(r)
    \/ Janitor
    \/ Environment

Spec == Init /\ [][Next]_vars

(* The interval of spawn_token_cleanup keeps ticking, a failed sweep is     *)
(* logged and the loop goes on; the store is assumed not to fail a         *)
(* statement for ever, which is what the two strong conditions say.        *)
FairSpec ==
    /\ Spec
    /\ WF_vars(SweepStart)
    /\ SF_vars(SweepRefresh)
    /\ SF_vars(SweepAccess)

-----------------------------------------------------------------------------
(* Properties.                                                             *)

TypeOK ==
    /\ stored \subseteq Tokens /\ used \subseteq Tokens /\ revoked \subseteq Tokens
    /\ user_id \in [Tokens -> Users \cup {None}]
    /\ family \in [Tokens -> Families \cup {None}]
    /\ expires_at \in [Tokens -> Nat]
    /\ access \subseteq Tokens
    /\ access_expires_at \in [Tokens -> Nat]
    /\ issued \subseteq Tokens /\ held \subseteq Tokens
    /\ started \subseteq Families /\ condemned \subseteq Families
    /\ locked \subseteq Users
    /\ req \in [Reqs -> Job]
    /\ sweep \in [pc : {"idle", "refresh", "access"}, cutoff : 0..MaxTime]
    /\ now \in 0..MaxTime

\* The rows of a family mark_used would still take.
Live(f) == {t \in RowsOfFamily(f) : Redeemable(t)}

\* Requests that have spent the family's token, or opened the family, and
\* are still going to put the next token there.
Rotating(f) == {r \in Reqs : req[r].pc \in RotatingPCs /\ req[r].family = f}

\* Tokens of a family that were stored and never spent, expired or not.
Unspent(f) == {t \in issued \ used : family[t] = f}

(* A login is one chain of single-use tokens: of all the tokens a family   *)
(* ever had, at most one is unspent, and none is while a request is on its *)
(* way to store the next one; two requests never rotate one family at a    *)
(* time.  This is what the single-shot mark_used is for: two holders of    *)
(* one token never both come away with a session.                          *)
OneChain ==
    \A f \in Families :
        /\ \A s, t \in Unspent(f) : s = t
        /\ \A q, r \in Rotating(f) : q = r
        /\ Unspent(f) = {} \/ Rotating(f) = {}

(* The reuse alarm is never raised against a family that can still go on   *)
(* unless the token presented really was spent before: neither an expiry,  *)
(* nor a sweep, nor a logout in between makes redeem take a token's first  *)
(* presentation for a replay that ends a living session.                   *)
AlarmIsReplay ==
    \A r \in Reqs :
        LET t == req[r].token IN
        req[r].pc = "revoke" /\ t \notin used =>
            Live(family[t]) = {} /\ Rotating(family[t]) = {}

(* The sweep, whose cut-off is read before its statement runs, keeps the   *)
(* row of every token until the token expires, spent or not: a valid token *)
(* is always found, and a replay within the token's lifetime always meets  *)
(* the evidence that it was spent.                                         *)
RowsOutliveValidity ==
    \A t \in issued : expires_at[t] > now => t \in stored

(* A session with no token to spend, no access row and nobody rotating it. *)
Dead(f) ==
    /\ f \in started
    /\ Live(f) = {}
    /\ AccessOfFamily(f) = {}
    /\ Rotating(f) = {}

(* issue() stores the access token and then the refresh token.  An access  *)
(* row whose refresh row is missing is either that of a request about to   *)
(* insert it, or what a request that failed in between has left: and then  *)
(* nothing can refresh that login any more, so that it never goes on       *)
(* beside an access token nobody was given.                                *)
HalfIssuedEnds ==
    \A t \in access \ issued :
        \/ \E r \in Reqs : req[r].pc = "insert" /\ req[r].token = t
        \/ Unspent(family[t]) = {} /\ Rotating(family[t]) = {}

(* A session that is over stays over: no request, however long ago it read *)
(* the token's row, brings a dead family back.                             *)
DeadStaysDead == [][\A f \in Families : Dead(f) => Dead(f)']_vars

\* What the statement a request is at may end: the family of the token it
\* presented, or every session of the account.
MayEnd(r, t) ==
    \/ req[r].pc \in LogoutPCs \cup {"revoke"} /\ family[req[r].token] = family[t]
    \/ req[r].pc \in AllPCs /\ req[r].user = user_id[t]

(* A refresh row is revoked by nobody but the request that takes the step, *)
(* and an access row is deleted by it or, once expired, by the sweep; and  *)
(* what the step takes is something that request may end.                  *)
RevokesItsOwn ==
    LET ended(t) == \E r \in Reqs : req'[r] # req[r] /\ MayEnd(r, t) IN
    /\ \A t \in revoked' \ revoked : ended(t)
    /\ \A t \in access \ access' :
          ended(t) \/ (sweep' # sweep /\ access_expires_at[t] < now)

(* A logout, or a replay, ends that login and leaves the account's other   *)
(* devices and all other accounts alone.                                   *)
OtherDevicesUntouched == [][RevokesItsOwn]_vars

(* The sweep catches up: every expired row is deleted in the end, although *)
(* single sweeps may fail at either table.                                 *)
ExpiredAreSwept ==
    \A t \in Tokens :
        /\ (t \in stored /\ expires_at[t] < now) ~> t \notin stored
        /\ (t \in access /\ access_expires_at[t] < now) ~> t \notin access

-----------------------------------------------------------------------------
(* SessionService implements the chain of single-use tokens.               *)

HeadOf(f) == IF Live(f) = {} THEN None ELSE CHOOSE t \in Tokens : t \in Live(f)

Chain == INSTANCE SessionChain WITH
            opened <- started,
            rotating <- {f \in Families : Rotating(f) # {}},
            head <- [f \in Families |-> HeadOf(f)],
            seen <- issued

(* Every behaviour of the requests, the janitor and the clock is one of    *)
(* the abstract chains: a token is the head of its family at most once,    *)
(* and nothing but a rotation begun by spending the head, or by the login, *)
(* puts a new head there.                                                  *)
ImplementsChain == Chain!Spec

-----------------------------------------------------------------------------
(* What the documentation says and the code does not keep.                 *)

(* README.md:236-239: a retired token presented again ends every session   *)
(* descended from that login.                                              *)
ReplayEndsSession ==
    \A f \in condemned : \A t \in Live(f) : expires_at[t] <= now

=============================================================================
