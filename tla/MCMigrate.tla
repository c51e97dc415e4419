----------------------------- MODULE MCMigrate -----------------------------
(* A small file - one account with a login that has rotated once, a login that *)
(* was revoked, a note - two runs of the program, a stranger on the target and *)
(* a server that goes on with a refresh and with a registration.               *)
EXTENDS Migrate

Refresh(fam, u, rev) ==
    [user |-> "u1", family |-> fam, expires |-> 9, used |-> u, revoked |-> rev]
User(e) == [email |-> e, hash |-> "h", role |-> "user", failed |-> 2, until |-> 5, created |-> 0]
Small ==
    [users |-> [k \in {"u1"} |-> User("a")],
     notes |-> [k \in {"n1"} |-> [owner |-> "u1", text |-> "x", created |-> 0, updated |-> 0]],
     refresh |-> [k \in {"r0", "r1", "r9"} |->
        CASE k = "r0" -> Refresh("f", 0, FALSE) [] k = "r1" -> Refresh("f", Null, FALSE)
          [] k = "r9" -> Refresh("g", Null, TRUE)],
     access |-> [k \in {"a1"} |-> [user |-> "u1", session |-> "f", role |-> "user", expires |-> 9]]]
SmallSources == {Small, NoRows}

Rotate == <<
    [table |-> "refresh", op |-> "mark_used", id |-> "r1"],
    [table |-> "access", op |-> "access_insert", id |-> "a2", user |-> "u1", session |-> "f", role |-> "user", expires |-> 9],
    [table |-> "refresh", op |-> "refresh_insert", id |-> "r2", user |-> "u1", family |-> "f", expires |-> 9]>>
SignUp == <<
    [table |-> "users", op |-> "user_insert", id |-> "u2", email |-> "b", hash |-> "h", role |-> "user"],
    [table |-> "notes", op |-> "create", id |-> "n2", owner |-> "u2", text |-> "y"]>>
SmallJobs == {Rotate, SignUp}
SmallStrangers ==
    {[table |-> "users", op |-> "user_insert", id |-> "s1", email |-> "a", hash |-> "k", role |-> "user"]}
=============================================================================
