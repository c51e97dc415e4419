--------------------------- MODULE PostgresStore ---------------------------
(* The PostgreSQL backend (repository/postgres.rs).  The statements are not  *)
(* shared with the other SQL backends and are written out again here, as in  *)
(* the code: one statement per method, RETURNING on INSERT and UPDATE.  A    *)
(* statement that waits for a row lock re-reads the row before it decides    *)
(* (read committed), so a keyed UPDATE is one step.                          *)
EXTENDS Tables

UserInsert(t, q, now) ==
    IF Taken(t, q.id, LAMBDA r : r.email = q.email) THEN Conflict(t)
    ELSE LET u == Put(t, q.id, NewUserRow(q, now)) IN Rows(u, {q.id})
UserFindById(t, q, now) == Rows(t, Keyed(t, q.id))
UserFindByEmail(t, q, now) == Rows(t, Where(t, LAMBDA r : r.email = q.email))
UserRecordFailedLogin(t, q, now) ==
    Done(Change(t, {q.id}, LAMBDA r : [r EXCEPT !.failed = q.attempts, !.until = q.until]))
UserClearLoginFailures(t, q, now) ==
    Done(Change(t, {q.id}, LAMBDA r : [r EXCEPT !.failed = 0, !.until = Null]))
UserUpdatePasswordHash(t, q, now) ==
    Done(Change(t, {q.id}, LAMBDA r : [r EXCEPT !.hash = q.hash]))
UserSetRole(t, q, now) ==
    Done(Change(t, {q.id}, LAMBDA r : [r EXCEPT !.role = q.role]))

Owned(t, q) == {k \in Keyed(t, q.id) : t[k].owner = q.owner}
NoteInsert(t, q, now) ==
    IF q.id \in DOMAIN t THEN Conflict(t)
    ELSE LET u == Put(t, q.id, NewNoteRow(q, now)) IN Rows(u, {q.id})
NoteFindOwned(t, q, now) == Rows(t, Owned(t, q))
NoteListOwned(t, q) ==
    Pages(Where(t, LAMBDA r : r.owner = q.owner),
          LAMBDA a, b : t[a].created > t[b].created, q.limit, q.offset)
NoteCountOwned(t, q) == Cardinality(Where(t, LAMBDA r : r.owner = q.owner))
NoteUpdateOwned(t, q, now) ==
    LET u == Change(t, Owned(t, q), LAMBDA r : [r EXCEPT !.text = q.text, !.updated = now])
    IN  Rows(u, Owned(t, q))
NoteDeleteOwned(t, q, now) ==
    Flag(Without(t, Owned(t, q)), OneRow(Owned(t, q)))

RefreshInsert(t, q, now) ==
    IF q.id \in DOMAIN t THEN Conflict(t) ELSE Done(Put(t, q.id, NewRefreshRow(q, q.expires)))
RefreshFind(t, q, now) == Rows(t, Keyed(t, q.id))
RefreshMarkUsed(t, q, now) ==
    LET hit == {k \in Keyed(t, q.id) : t[k].used = Null /\ ~t[k].revoked}
    IN  Flag(Change(t, hit, LAMBDA r : [r EXCEPT !.used = now]), OneRow(hit))
RefreshRevokeFamily(t, q, now) ==
    Done(Change(t, Where(t, LAMBDA r : r.family = q.family), LAMBDA r : [r EXCEPT !.revoked = TRUE]))
RefreshRevokeAll(t, q, now) ==
    Done(Change(t, Where(t, LAMBDA r : r.user = q.user), LAMBDA r : [r EXCEPT !.revoked = TRUE]))
RefreshDeleteExpired(t, q, now) ==
    LET S == Where(t, LAMBDA r : r.expires < q.at) IN Count(Without(t, S), Cardinality(S))

AccessInsert(t, q, now) ==
    IF q.id \in DOMAIN t THEN Conflict(t) ELSE Done(Put(t, q.id, NewAccessRow(q, q.expires)))
AccessFind(t, q, now) == Rows(t, Keyed(t, q.id))
AccessDeleteBySession(t, q, now) ==
    Done(Without(t, Where(t, LAMBDA r : r.session = q.session)))
AccessDeleteAll(t, q, now) ==
    Done(Without(t, Where(t, LAMBDA r : r.user = q.user)))
AccessDeleteExpired(t, q, now) ==
    LET S == Where(t, LAMBDA r : r.expires < q.at) IN Count(Without(t, S), Cardinality(S))
Ping(t) == Done(t)

(* The single-statement methods, by name. *)
Method(t, q, now) ==
    CASE q.op = "user_insert" -> UserInsert(t, q, now)
      [] q.op = "find_by_id" -> UserFindById(t, q, now)
      [] q.op = "find_by_email" -> UserFindByEmail(t, q, now)
      [] q.op = "record_failed_login" -> UserRecordFailedLogin(t, q, now)
      [] q.op = "clear_login_failures" -> UserClearLoginFailures(t, q, now)
      [] q.op = "update_password_hash" -> UserUpdatePasswordHash(t, q, now)
      [] q.op = "set_role" -> UserSetRole(t, q, now)
      [] q.op = "create" -> NoteInsert(t, q, now)
      [] q.op = "get" -> NoteFindOwned(t, q, now)
      [] q.op = "update" -> NoteUpdateOwned(t, q, now)
      [] q.op = "delete" -> NoteDeleteOwned(t, q, now)
      [] q.op = "refresh_insert" -> RefreshInsert(t, q, now)
      [] q.op = "refresh_find" -> RefreshFind(t, q, now)
      [] q.op = "mark_used" -> RefreshMarkUsed(t, q, now)
      [] q.op = "revoke_family" -> RefreshRevokeFamily(t, q, now)
      [] q.op = "revoke_all" -> RefreshRevokeAll(t, q, now)
      [] q.op = "refresh_expired" -> RefreshDeleteExpired(t, q, now)
      [] q.op = "access_insert" -> AccessInsert(t, q, now)
      [] q.op = "access_find" -> AccessFind(t, q, now)
      [] q.op = "delete_by_session" -> AccessDeleteBySession(t, q, now)
      [] q.op = "delete_all" -> AccessDeleteAll(t, q, now)
      [] q.op = "access_expired" -> AccessDeleteExpired(t, q, now)
      [] q.op = "ping" -> Ping(t)
=============================================================================
