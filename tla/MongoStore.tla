----------------------------- MODULE MongoStore -----------------------------
(* The MongoDB backend (repository/mongo.rs).  Times are kept in             *)
(* milliseconds, Grain model instants each; uniqueness is an index; a single *)
(* document is changed atomically, update_many and delete_many one document  *)
(* after the other, so their definitions name the documents the filter       *)
(* matches and what becomes of one of them.                                  *)
EXTENDS Tables
CONSTANT Grain

ToTimeUp(at) == IF at = Null THEN Null ELSE at + (at % Grain)   \* mutant: rounds up
ToTime(at) == IF at = Null THEN Null ELSE at - (at % Grain)

UserInsert(t, q, now) ==
    IF Taken(t, q.id, LAMBDA r : r.email = q.email) THEN Conflict(t)
    ELSE LET u == Put(t, q.id, NewUserRow(q, ToTime(now))) IN Rows(u, {q.id})
UserFindById(t, q, now) == Rows(t, Keyed(t, q.id))
UserFindByEmail(t, q, now) == Rows(t, Where(t, LAMBDA r : r.email = q.email))
UserRecordFailedLogin(t, q, now) ==
    Done(Change(t, {q.id}, LAMBDA r : [r EXCEPT !.failed = q.attempts, !.until = ToTime(q.until)]))
UserClearLoginFailures(t, q, now) ==
    Done(Change(t, {q.id}, LAMBDA r : [r EXCEPT !.failed = 0, !.until = Null]))
UserUpdatePasswordHash(t, q, now) ==
    Done(Change(t, {q.id}, LAMBDA r : [r EXCEPT !.hash = q.hash]))
UserSetRole(t, q, now) ==
    Done(Change(t, {q.id}, LAMBDA r : [r EXCEPT !.role = q.role]))

OwnedByAnyone(t, q) == Keyed(t, q.id)   \* mutant: the owner is a hint
Owned(t, q) == {k \in Keyed(t, q.id) : t[k].owner = q.owner}
NoteInsert(t, q, now) ==
    IF q.id \in DOMAIN t THEN Conflict(t)
    ELSE LET u == Put(t, q.id, NewNoteRow(q, ToTime(now))) IN Rows(u, {q.id})
NoteFindOwned(t, q, now) == Rows(t, Owned(t, q))
NoteListOwned(t, q) ==
    Pages(Where(t, LAMBDA r : r.owner = q.owner),
          LAMBDA a, b : t[a].created > t[b].created \/ (t[a].created = t[b].created /\ a < b),
          q.limit, q.offset)
NoteCountAll(t, q) == Cardinality(DOMAIN t)   \* mutant: counts other owners' notes
NoteCountOwned(t, q) == Cardinality(Where(t, LAMBDA r : r.owner = q.owner))
NoteUpdateOwned(t, q, now) ==
    LET u == Change(t, Owned(t, q), LAMBDA r : [r EXCEPT !.text = q.text, !.updated = ToTime(now)])
    IN  Rows(u, Owned(t, q))
NoteDeleteOwned(t, q, now) ==
    Flag(Without(t, Owned(t, q)), OneRow(Owned(t, q)))

RefreshInsert(t, q, now) ==
    IF q.id \in DOMAIN t THEN Conflict(t)
    ELSE Done(Put(t, q.id, NewRefreshRow(q, ToTime(q.expires))))
RefreshFind(t, q, now) == Rows(t, Keyed(t, q.id))
RefreshMarkUsed(t, q, now) ==
    LET hit == {k \in Keyed(t, q.id) : t[k].used = Null /\ ~t[k].revoked}
    IN  Flag(Change(t, hit, LAMBDA r : [r EXCEPT !.used = ToTime(now)]), hit # {})
OfFamily(t, q) == Where(t, LAMBDA r : r.family = q.family)
OfUser(t, q) == Where(t, LAMBDA r : r.user = q.user)
Revoked(t, id) == Change(t, {id}, LAMBDA r : [r EXCEPT !.revoked = TRUE])
ExpiredRefresh(t, q) == Where(t, LAMBDA r : r.expires < ToTime(q.at))

AccessInsert(t, q, now) ==
    IF q.id \in DOMAIN t THEN Conflict(t)
    ELSE Done(Put(t, q.id, NewAccessRow(q, ToTime(q.expires))))
AccessFind(t, q, now) == Rows(t, Keyed(t, q.id))
OfSession(t, q) == Where(t, LAMBDA r : r.session = q.session)
OfAccessUser(t, q) == Where(t, LAMBDA r : r.user = q.user)
ExpiredAccess(t, q) == Where(t, LAMBDA r : r.expires < ToTime(q.at))
Ping(t) == Done(t)

(* The single-statement methods, by name. *)
Method(t, q, now) ==
    CASE q.op = "user_insert" -> UserInsert(t, q, now)
      [] q.op = "find_by_id" -> UserFindById(t, q, now)
      [] q.op = "find_by_email" -> UserFindByEmail(t, q, now)
      [] q.op = "record_failed_login" -> UserRecordFailedLogin(t, q, now)
      [] q.op = "clear_login_failures" -> UserClearLoginFailures(t, q, now)
      [] q.op = "update_password_hash" -> UserUpdatePasswordHash(t, q, now)
      [] q.op = "set_role" -> UserSetRole(t, q, now)
      [] q.op = "create" -> NoteInsert(t, q, now)
      [] q.op = "get" -> NoteFindOwned(t, q, now)
      [] q.op = "update" -> NoteUpdateOwned(t, q, now)
      [] q.op = "delete" -> NoteDeleteOwned(t, q, now)
      [] q.op = "refresh_insert" -> RefreshInsert(t, q, now)
      [] q.op = "refresh_find" -> RefreshFind(t, q, now)
      [] q.op = "mark_used" -> RefreshMarkUsed(t, q, now)
      [] q.op = "access_insert" -> AccessInsert(t, q, now)
      [] q.op = "access_find" -> AccessFind(t, q, now)
      [] q.op = "ping" -> Ping(t)

(* update_many and delete_many: the documents the filter matches, and one of  *)
(* them changed.                                                              *)
Multi == {"revoke_family", "revoke_all", "refresh_expired",
          "delete_by_session", "delete_all", "access_expired"}
Matched(t, q) ==
    CASE q.op = "revoke_family" -> {k \in OfFamily(t, q) : ~t[k].revoked}
      [] q.op = "revoke_all" -> {k \in OfUser(t, q) : ~t[k].revoked}
      [] q.op = "refresh_expired" -> ExpiredRefresh(t, q)
      [] q.op = "delete_by_session" -> OfSession(t, q)
      [] q.op = "delete_all" -> OfAccessUser(t, q)
      [] q.op = "access_expired" -> ExpiredAccess(t, q)
One(t, q, id) ==
    IF q.op \in {"revoke_family", "revoke_all"} THEN Revoked(t, id) ELSE Without(t, {id})
=============================================================================
