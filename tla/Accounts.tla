------------------------------ MODULE Accounts ------------------------------
(***************************************************************************)
(* AccountService (src/service/account_service.rs) over the users table:   *)
(* registration, login with its failure counter and lockout, password      *)
(* change, and the administrator bootstrap of start-up.                    *)
(*                                                                         *)
(* Every call is a process that runs once.  Between the statement that     *)
(* reads the account and the one that writes it lies an Argon2 hash, with  *)
(* a wait for a hashing slot: time in which any other call may run, after  *)
(* which the call decides from the row as it was.  One action is one       *)
(* statement of the store with what the call decides from its answer; the  *)
(* hash itself touches no shared state.                                    *)
(*                                                                         *)
(* An account is named by its normalised address, which never changes; a   *)
(* password stands for every hash that verifies it and no other password.  *)
(***************************************************************************)
EXTENDS Integers, FiniteSets

CONSTANTS
    Emails,         \* normalised addresses
    Passwords,
    Calls,          \* the calls the program serves, each once
    None,           \* no account, and SQL NULL
    MaxAttempts,    \* security.max_login_attempts
    Lockout,        \* security.lockout_duration, in ticks
    MaxTime         \* bound of the model on the clock

Operations == {"register", "login", "change", "bootstrap"}
Results == {"created", "promoted", "already_admin", "granted", "changed",
            "wrong", "unauthorized", "conflict", "error"}
Row == [role : {"user", "admin"}, password : Passwords, failed : Nat,
        locked_until : Nat \cup {None}]

ASSUME AccountsAssumption ==
    /\ None \notin Emails \cup Passwords \cup Nat \cup Operations \cup Results \cup Row
    /\ IsFiniteSet(Calls)
    /\ MaxAttempts \in Nat \ {0}
    /\ Lockout \in Nat
    /\ MaxTime \in Nat

VARIABLES
    account,        \* the users table: the row of each address, or None
    call,           \* where each call is, its arguments and local variables
    streak,         \* failures counted against an address since its last success
    overlapped,     \* addresses with two logins under way at once, ever
    now             \* the clock

vars == <<account, call, streak, overlapped, now>>

-----------------------------------------------------------------------------
Call == [op : Operations \cup {None},
         pc : {"new", "find", "insert", "promote", "verify", "fail", "clear", "update", "done"},
         email : Emails \cup {None},
         password : Passwords \cup {None},      \* presented, or to be set
         new : Passwords \cup {None},           \* of a password change
         at : Nat,                              \* the clock as the call read it
         seen : Row \cup {None},                \* the row as the call read it
         result : Results \cup {None}]

\* A call that has not been made.
Fresh == [op |-> None, pc |-> "new", email |-> None, password |-> None, new |-> None,
          at |-> 0, seen |-> None, result |-> None]

Become(c, j) == call' = [call EXCEPT ![c] = j]
Goto(c, pc) == Become(c, [call[c] EXCEPT !.pc = pc])
Answer(c, result) == Become(c, [call[c] EXCEPT !.pc = "done", !.result = result])

At(c, op, pc) == call[c].op = op /\ call[c].pc = pc

\* Logins of an address that are under way.
LoginsOf(e) == {c \in Calls : call[c].op = "login" /\ call[c].email = e /\ call[c].pc # "done"}

-----------------------------------------------------------------------------
(* The rows.                                                               *)

\* User::is_locked_at.
IsLockedAt(row, at) == row.locked_until # None /\ row.locked_until > at

\* An INSERT that leaves failed_attempts out.
RowWithoutCounter(password, role) ==
    [role |-> role, password |-> password, failed |-> None, locked_until |-> None]

\* UserRepository::insert, of an account that has never failed a login.
NewRow(password, role) ==
    [role |-> role, password |-> password, failed |-> 0, locked_until |-> None]

\* A threshold that lets one more failure through, and one that counts twice.
FailedTooLate(row, at) ==
    [row EXCEPT !.failed = row.failed + 1,
                !.locked_until = IF row.failed + 1 > MaxAttempts THEN at + Lockout ELSE None]
FailedTwice(row, at) ==
    [row EXCEPT !.failed = row.failed + 2,
                !.locked_until = IF row.failed + 2 >= MaxAttempts THEN at + Lockout ELSE None]

\* record_failure: what a failed login makes of the row it read.
Failed(row, at) ==
    [row EXCEPT !.failed = row.failed + 1,
                !.locked_until = IF row.failed + 1 >= MaxAttempts THEN at + Lockout ELSE None]

-----------------------------------------------------------------------------
Init ==
    /\ account = [e \in Emails |-> None]
    /\ call = [c \in Calls |-> Fresh]
    /\ streak = [e \in Emails |-> 0]
    /\ overlapped = {}
    /\ now = 0

(* register: the hash is computed first, then the address is looked up.    *)
PresentRegister(c, e, p) ==
    /\ call[c].pc = "new"
    /\ Become(c, [Fresh EXCEPT !.op = "register", !.pc = "find", !.email = e, !.password = p])
    /\ UNCHANGED <<account, streak, overlapped, now>>

FindForRegister(c) ==
    /\ At(c, "register", "find")
    /\ \/ account[call[c].email] # None /\ Answer(c, "conflict")
       \/ account[call[c].email] = None /\ Goto(c, "insert")
    /\ UNCHANGED <<account, streak, overlapped, now>>

\* An INSERT that overwrites the row it collides with.
Upsert(c, role) ==
    LET e == call[c].email IN
    /\ call[c].pc = "insert"
    /\ account' = [account EXCEPT ![e] = NewRow(call[c].password, role)]
    /\ Answer(c, "created")
    /\ UNCHANGED <<streak, overlapped, now>>

\* A collision taken for success: whoever it was has made the account.
InsertOrIgnore(c, role) ==
    LET e == call[c].email IN
    /\ call[c].pc = "insert"
    /\ \/ account[e] = None /\ account' = [account EXCEPT ![e] = NewRow(call[c].password, role)]
       \/ account[e] # None /\ UNCHANGED account
    /\ Answer(c, "created")
    /\ UNCHANGED <<streak, overlapped, now>>

\* insert: the UNIQUE index on email decides.
Insert(c, role) ==
    LET e == call[c].email IN
    /\ call[c].pc = "insert"
    /\ \/ /\ account[e] = None
          /\ account' = [account EXCEPT ![e] = NewRow(call[c].password, role)]
          /\ Answer(c, "created")
       \/ /\ account[e] # None
          /\ Answer(c, "conflict")
          /\ UNCHANGED account
    /\ UNCHANGED <<streak, overlapped, now>>

InsertUser(c) == call[c].op = "register" /\ Insert(c, "user")

(* authenticate: the clock is read before the row is.                      *)
PresentLogin(c, e, p) ==
    /\ call[c].pc = "new"
    /\ Become(c, [Fresh EXCEPT !.op = "login", !.pc = "find", !.email = e, !.password = p,
                               !.at = now])
    /\ overlapped' = IF LoginsOf(e) = {} THEN overlapped ELSE overlapped \cup {e}
    /\ UNCHANGED <<account, streak, now>>

FindForLogin(c) ==
    LET row == account[call[c].email] IN
    /\ At(c, "login", "find")
    /\ \/ row = None /\ Answer(c, "unauthorized")
       \/ row # None /\ Become(c, [call[c] EXCEPT !.pc = "verify", !.seen = row])
    /\ UNCHANGED <<account, streak, overlapped, now>>

\* The hash has run; everything is decided from the row read before it.
VerifyLogin(c) ==
    LET row == call[c].seen
        matches == call[c].password = row.password
        clean == row.failed = 0 /\ row.locked_until = None IN
    /\ At(c, "login", "verify")
    /\ \/ IsLockedAt(row, call[c].at) /\ Answer(c, "unauthorized")
       \/ ~IsLockedAt(row, call[c].at) /\ ~matches /\ Goto(c, "fail")
       \/ ~IsLockedAt(row, call[c].at) /\ matches /\ ~clean /\ Goto(c, "clear")
       \/ ~IsLockedAt(row, call[c].at) /\ matches /\ clean /\ Answer(c, "granted")
    /\ UNCHANGED <<account, streak, overlapped, now>>

\* record_failed_login writes the two columns, whatever they hold by now.
RecordFailure(c) ==
    LET e == call[c].email
        row == Failed(call[c].seen, call[c].at) IN
    /\ At(c, "login", "fail")
    /\ account' = [account EXCEPT ![e].failed = row.failed, ![e].locked_until = row.locked_until]
    /\ streak' = [streak EXCEPT ![e] = @ + 1]
    /\ Answer(c, "wrong")
    /\ UNCHANGED <<overlapped, now>>

\* clear_login_failures.
ClearFailures(c) ==
    LET e == call[c].email IN
    /\ At(c, "login", "clear")
    /\ account' = [account EXCEPT ![e].failed = 0, ![e].locked_until = None]
    /\ streak' = [streak EXCEPT ![e] = 0]
    /\ Answer(c, "granted")
    /\ UNCHANGED <<overlapped, now>>

(* change_password, by the holder of an access token; accounts are never   *)
(* deleted, so find_by_id finds the row.                                   *)
PresentChange(c, e, p, new) ==
    /\ call[c].pc = "new"
    /\ account[e] # None
    /\ Become(c, [Fresh EXCEPT !.op = "change", !.pc = "find", !.email = e, !.password = p,
                               !.new = new])
    /\ UNCHANGED <<account, streak, overlapped, now>>

FindForChange(c) ==
    /\ At(c, "change", "find")
    /\ Become(c, [call[c] EXCEPT !.pc = "verify", !.seen = account[call[c].email]])
    /\ UNCHANGED <<account, streak, overlapped, now>>

VerifyChange(c) ==
    /\ At(c, "change", "verify")
    /\ \/ call[c].password # call[c].seen.password /\ Answer(c, "unauthorized")
       \/ call[c].password = call[c].seen.password /\ Goto(c, "update")
    /\ UNCHANGED <<account, streak, overlapped, now>>

UpdatePassword(c) ==
    /\ At(c, "change", "update")
    /\ account' = [account EXCEPT ![call[c].email].password = call[c].new]
    /\ Answer(c, "changed")
    /\ UNCHANGED <<streak, overlapped, now>>

(* ensure_admin, at the start-up of each process of a deployment.          *)
Bootstrap(c, e, p) ==
    /\ call[c].pc = "new"
    /\ Become(c, [Fresh EXCEPT !.op = "bootstrap", !.pc = "find", !.email = e, !.password = p])
    /\ UNCHANGED <<account, streak, overlapped, now>>

FindForBootstrap(c) ==
    LET row == account[call[c].email] IN
    /\ At(c, "bootstrap", "find")
    /\ \/ row = None /\ Goto(c, "insert")
       \/ row # None /\ row.role = "admin" /\ Answer(c, "already_admin")
       \/ row # None /\ row.role # "admin" /\ Goto(c, "promote")
    /\ UNCHANGED <<account, streak, overlapped, now>>

InsertAdmin(c) == call[c].op = "bootstrap" /\ Insert(c, "admin")

\* A promotion that writes the bootstrap password as well.
PromoteAndReset(c) ==
    /\ At(c, "bootstrap", "promote")
    /\ account' = [account EXCEPT ![call[c].email] = NewRow(call[c].password, "admin")]
    /\ Answer(c, "promoted")
    /\ UNCHANGED <<streak, overlapped, now>>

\* set_role.
Promote(c) ==
    /\ At(c, "bootstrap", "promote")
    /\ account' = [account EXCEPT ![call[c].email].role = "admin"]
    /\ Answer(c, "promoted")
    /\ UNCHANGED <<streak, overlapped, now>>

(* The future of the call is dropped, or a statement fails; a bootstrap    *)
(* ends with its process.  A statement under way when that happens has run *)
(* before this step or never will.                                         *)
Drop(c) ==
    /\ call[c].pc \notin {"new", "done"}
    /\ Answer(c, "error")
    /\ UNCHANGED <<account, streak, overlapped, now>>

Tick ==
    /\ now < MaxTime
    /\ now' = now + 1
    /\ UNCHANGED <<account, call, streak, overlapped>>

Begin(c) ==
    \E e \in Emails, p \in Passwords :
        \/ PresentRegister(c, e, p)
        \/ PresentLogin(c, e, p)
        \/ \E new \in Passwords : PresentChange(c, e, p, new)
        \/ Bootstrap(c, e, p)

Step(c) ==
    \/ FindForRegister(c) \/ InsertUser(c)
    \/ FindForLogin(c) \/ VerifyLogin(c) \/ RecordFailure(c) \/ ClearFailures(c)
    \/ FindForChange(c) \/ VerifyChange(c) \/ UpdatePassword(c)
    \/ FindForBootstrap(c) \/ InsertAdmin(c) \/ Promote(c)
    \/ Drop(c)

Next == (\E c \in Calls : Begin(c) \/ Step(c)) \/ Tick

Spec == Init /\ [][Next]_vars

-----------------------------------------------------------------------------
(* Properties.                                                             *)

TypeOK ==
    /\ account \in [Emails -> Row \cup {None}]
    /\ call \in [Calls -> Call]
    /\ streak \in [Emails -> Nat]
    /\ overlapped \subseteq Emails
    /\ now \in 0..MaxTime

(* The check and the insert of a registration are separate statements, and *)
(* a start-up bootstrap may run between them: of all the calls for one     *)
(* address, at most one is ever told that it made the account, and its     *)
(* password is the one the account then has until a change of password.    *)
OneAccountPerAddress ==
    \A c \in Calls : call[c].result = "created" =>
        /\ \A d \in Calls : call[d].result = "created" /\ call[d].email = call[c].email => c = d
        /\ \/ account[call[c].email].password = call[c].password
           \/ \E d \in Calls : call[d].result = "changed" /\ call[d].email = call[c].email

(* A bootstrap that reports success has left an administrator behind, also *)
(* when a registration or another process's bootstrap got in between.      *)
BootstrapDelivers ==
    \A c \in Calls :
        call[c].op = "bootstrap" /\ call[c].result \in {"created", "promoted", "already_admin"} =>
            account[call[c].email].role = "admin"

(* The step of a bootstrap never touches the credential or the lockout of  *)
(* an account that is there when it runs, however it read the table.       *)
BootstrapKeepsCredential ==
    [][\A c \in Calls :
          call[c].op = "bootstrap" /\ call'[c] # call[c] /\ account[call[c].email] # None =>
              account'[call[c].email] = [account[call[c].email] EXCEPT
                                            !.role = account'[call[c].email].role]]_vars

\* Logins of an address that were answered as a wrong password.
WrongAnswers(e) == {c \in Calls : call[c].result = "wrong" /\ call[c].email = e}

(* Nobody is locked out for less than MaxAttempts wrong passwords, however *)
(* the reads and writes of the counter interleave: the counter never gets  *)
(* ahead of the wrong answers given for that address.                      *)
LockIsEarned ==
    \A e \in Emails : account[e] # None =>
        /\ account[e].failed <= Cardinality(WrongAnswers(e))
        /\ account[e].locked_until # None => Cardinality(WrongAnswers(e)) >= MaxAttempts

(* As long as the logins of an address come one after the other, the       *)
(* counter is exact through failures, successes, drops and lapsed locks,   *)
(* and the account is locked from the MaxAttempts-th failure in a row on.  *)
LockoutIsExact ==
    \A e \in Emails : account[e] # None /\ e \notin overlapped =>
        /\ account[e].failed = streak[e]
        /\ account[e].locked_until # None <=> streak[e] >= MaxAttempts

=============================================================================
