------------------------------ MODULE MCStores ------------------------------
(* Small instances of Stores: two callers, two ids and the calls that can      *)
(* disturb each other on each of the four tables.                              *)
EXTENDS Stores

UserCalls ==
    {[table |-> "users", op |-> "user_insert", id |-> i, email |-> "a", hash |-> "h", role |-> "user"] : i \in {1, 2}}
    \cup {[table |-> "users", op |-> o, id |-> 1] : o \in {"find_by_id", "clear_login_failures"}}
    \cup {[table |-> "users", op |-> "find_by_email", email |-> "a"],
          [table |-> "users", op |-> "record_failed_login", id |-> 1, attempts |-> 1, until |-> 1],
          [table |-> "users", op |-> "update_password_hash", id |-> 1, hash |-> "g"],
          [table |-> "users", op |-> "set_role", id |-> 1, role |-> "admin"]}
NoteCalls ==
    {[table |-> "notes", op |-> "create", id |-> i, owner |-> "a", text |-> "x"] : i \in {1, 2}}
    \cup {[table |-> "notes", op |-> "create", id |-> 2, owner |-> "b", text |-> "x"]}
    \cup {[table |-> "notes", op |-> o, id |-> 1, owner |-> w] : o \in {"get", "delete"}, w \in {"a", "b"}}
    \cup {[table |-> "notes", op |-> "update", id |-> 1, owner |-> w, text |-> "y"] : w \in {"a", "b"}}
    \cup {[table |-> "notes", op |-> "list", owner |-> "a", limit |-> p[1], offset |-> p[2]] :
              p \in {<<Null, -1>>, <<0, 1>>, <<9, 0>>}}
RefreshCalls ==
    {[table |-> "refresh", op |-> "refresh_insert", id |-> i, user |-> "a", family |-> 1, expires |-> i] : i \in {1, 2}}
    \cup {[table |-> "refresh", op |-> o, id |-> 1] : o \in {"refresh_find", "mark_used"}}
    \cup {[table |-> "refresh", op |-> "revoke_family", family |-> 1],
          [table |-> "refresh", op |-> "revoke_all", user |-> "a"],
          [table |-> "refresh", op |-> "refresh_expired", at |-> 0]}
AccessCalls ==
    {[table |-> "access", op |-> "access_insert", id |-> i, user |-> "a", session |-> 1, role |-> "user", expires |-> i] : i \in {1, 2}}
    \cup {[table |-> "access", op |-> "access_find", id |-> 1],
          [table |-> "access", op |-> "ping"],
          [table |-> "access", op |-> "delete_by_session", session |-> 1],
          [table |-> "access", op |-> "delete_all", user |-> "a"],
          [table |-> "access", op |-> "access_expired", at |-> 0]}
AllCalls == UserCalls \cup NoteCalls \cup RefreshCalls \cup AccessCalls
=============================================================================
