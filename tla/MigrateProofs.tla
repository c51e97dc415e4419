---------------------------- MODULE MigrateProofs ----------------------------
(* Theorems about Migrate, for any runs of the program, any databases, any    *)
(* requests of a server that was not stopped and any strangers on the target. *)
EXTENDS Migrate, FiniteSetTheorems, SequenceTheorems, WellFoundedInduction, TLAPS

(* The four tables, in the order in which they are copied.                    *)
LEMMA Four ==
    /\ Table = {"users", "notes", "refresh", "access"} /\ Len(Names) = 4 /\ DOMAIN Names = 1..4
    /\ Names[1] = "users" /\ Names[2] = "notes" /\ Names[3] = "refresh" /\ Names[4] = "access"
    /\ \A i \in 1..4 : Names[i] \in Table
    /\ \A i, j \in 1..4 : Names[i] = Names[j] => i = j
    /\ \A T \in Table : \E i \in 1..4 : T = Names[i]
<1>1. /\ Len(Names) = 4 /\ DOMAIN Names = 1..4
      /\ Names[1] = "users" /\ Names[2] = "notes" /\ Names[3] = "refresh" /\ Names[4] = "access"
  BY DEF Names
<1>2. \A i \in 1..4 : i = 1 \/ i = 2 \/ i = 3 \/ i = 4
  OBVIOUS
<1>3. \A i, j \in 1..4 : Names[i] = Names[j] => i = j
  BY <1>1, <1>2
<1>4. Table = {"users", "notes", "refresh", "access"}
  BY <1>1, <1>2 DEF Table
<1> QED
  BY <1>1, <1>3, <1>4 DEF Table

(* A row that has the columns of its table is copied as it is.                *)
LEMMA CopiedRow ==
    ASSUME NEW T \in Table, NEW r, r = [x \in Columns(T) |-> r[x]]
    PROVE  Copied(T, r) = r
<1>1. CASE T = "users"
  <2>1. Copied(T, r) = CopyUser(r) /\ Columns(T) = {"email", "hash", "role", "failed", "until", "created"}
    BY <1>1 DEF Copied, Columns
  <2> QED
    BY <2>1 DEF CopyUser
<1>2. CASE T = "notes"
  <2>1. Copied(T, r) = CopyNote(r) /\ Columns(T) = {"owner", "text", "created", "updated"}
    BY <1>2 DEF Copied, Columns
  <2> QED
    BY <2>1 DEF CopyNote
<1>3. CASE T = "refresh"
  <2>1. Copied(T, r) = CopyRefresh(r) /\ Columns(T) = {"user", "family", "expires", "used", "revoked"}
    BY <1>3 DEF Copied, Columns
  <2> QED
    BY <2>1 DEF CopyRefresh
<1>4. CASE T = "access"
  <2>1. Copied(T, r) = CopyAccess(r) /\ Columns(T) = {"user", "session", "role", "expires"}
    BY <1>4 DEF Copied, Columns
  <2> QED
    BY <2>1 DEF CopyAccess
<1> QED
  BY <1>1, <1>2, <1>3, <1>4, Four

(* A whole table is read as it is.                                            *)
LEMMA CopiedTable ==
    ASSUME NEW T \in Table, NEW t, Whole(T, t)
    PROVE  [k \in DOMAIN t |-> Copied(T, t[k])] = t
<1>1. /\ \A k \in DOMAIN t : t[k] = [x \in Columns(T) |-> t[k][x]]
      /\ t = [k \in DOMAIN t |-> t[k]]
  BY DEF Whole
<1>2. \A k \in DOMAIN t : Copied(T, t[k]) = t[k]
  BY <1>1, CopiedRow
<1> QED
  BY <1>1, <1>2

(* So is a table without rows.                                                *)
LEMMA EmptyTable ==
    /\ DOMAIN Empty = {} /\ \A T : Whole(T, Empty)
    /\ \A T, t : Whole(T, t) /\ DOMAIN t = {} => t = Empty
<1>1. DOMAIN Empty = {}
  BY DEF Empty
<1>2. \A f, g : f = [k \in {} |-> f[k]] /\ g = [k \in {} |-> g[k]] => f = g
  OBVIOUS
<1>3. IsFiniteSet({})
  BY FS_EmptySet
<1>4. ASSUME NEW T PROVE Whole(T, Empty)
  <2>1. Empty = [k \in {} |-> [x \in Columns(T) |-> Empty[k][x]]]
    BY DEF Empty
  <2> QED
    BY <1>1, <1>3, <2>1 DEF Whole
<1>5. ASSUME NEW T, NEW t, Whole(T, t), DOMAIN t = {} PROVE t = Empty
  <2>1. t = [k \in {} |-> [x \in Columns(T) |-> t[k][x]]]
    BY <1>5 DEF Whole
  <2> QED
    BY <2>1 DEF Empty
<1> QED
  BY <1>1, <1>4, <1>5

-----------------------------------------------------------------------------
(* What a statement of the server makes of a table.                           *)
Becomes(T, q, t, u) ==
    /\ Whole(T, u)
    /\ \A k \in DOMAIN u : k \in DOMAIN t \/ (Insert(q) /\ k = q.id)
    /\ T = "users" => DOMAIN t \subseteq DOMAIN u
    /\ T = "refresh" => \A k \in DOMAIN t \cap DOMAIN u : ~Usable(t[k]) => ~Usable(u[k])

(* Nothing.                                                                   *)
LEMMA Looked ==
    ASSUME NEW T, NEW q, NEW t, Whole(T, t)
    PROVE  Becomes(T, q, t, t)
BY DEF Becomes

(* A new row under an id that was not there.                                  *)
LEMMA PutIn ==
    ASSUME NEW T, NEW q, NEW t, Whole(T, t), Insert(q), q.id \notin Elsewhere, q.id \notin DOMAIN t,
           NEW row, row = [x \in Columns(T) |-> row[x]]
    PROVE  Becomes(T, q, t, Put(t, q.id, row))
<1> DEFINE u == Put(t, q.id, row)
<1>1. DOMAIN u = DOMAIN t \cup {q.id} /\ u[q.id] = row /\ \A k \in DOMAIN t : u[k] = t[k]
  BY DEF Put
<1>2. u = [k \in DOMAIN u |-> u[k]]
  BY DEF Put
<1> HIDE DEF u
<1>3. IsFiniteSet(DOMAIN u)
  BY <1>1, FS_AddElement DEF Whole
<1>4. \A k \in DOMAIN t : t[k] = [x \in Columns(T) |-> t[k][x]]
  BY DEF Whole
<1>5. \A k \in DOMAIN u : u[k] = [x \in Columns(T) |-> u[k][x]]
  BY <1>1, <1>4
<1>6. u = [k \in DOMAIN u |-> [x \in Columns(T) |-> u[k][x]]]
  BY <1>2, <1>5
<1>7. Whole(T, u)
  BY <1>1, <1>3, <1>6 DEF Whole
<1> QED
  BY <1>1, <1>7 DEF Becomes, u

(* Some rows fewer.                                                           *)
LEMMA TakenOut ==
    ASSUME NEW T, T # "users", NEW q, NEW t, Whole(T, t), NEW S
    PROVE  Becomes(T, q, t, Without(t, S))
<1> DEFINE u == Without(t, S)
<1>1. DOMAIN u = DOMAIN t \ S /\ (\A k \in DOMAIN u : u[k] = t[k]) /\ u = [k \in DOMAIN u |-> u[k]]
  BY DEF Without
<1> HIDE DEF u
<1>2. DOMAIN u \subseteq DOMAIN t
  BY <1>1
<1>3. IsFiniteSet(DOMAIN u)
  BY <1>2, FS_Subset DEF Whole
<1>4. \A k \in DOMAIN t : t[k] = [x \in Columns(T) |-> t[k][x]]
  BY DEF Whole
<1>5. u = [k \in DOMAIN u |-> [x \in Columns(T) |-> u[k][x]]]
  BY <1>1, <1>2, <1>4
<1>6. Whole(T, u)
  BY <1>2, <1>3, <1>5 DEF Whole
<1> QED
  BY <1>1, <1>2, <1>6 DEF Becomes, u

(* Some rows changed, none of them into a usable token.                       *)
LEMMA Altered ==
    ASSUME NEW T, NEW q, NEW t, Whole(T, t), NEW u, u = [k \in DOMAIN t |-> u[k]],
           \A k \in DOMAIN t : u[k] = [x \in Columns(T) |-> u[k][x]],
           T = "refresh" => \A k \in DOMAIN t : ~Usable(t[k]) => ~Usable(u[k])
    PROVE  Becomes(T, q, t, u)
<1>1. DOMAIN u = DOMAIN t
  OBVIOUS
<1>2. u = [k \in DOMAIN u |-> [x \in Columns(T) |-> u[k][x]]]
  BY <1>1
<1>3. Whole(T, u)
  BY <1>1, <1>2 DEF Whole
<1> QED
  BY <1>1, <1>3 DEF Becomes

(* A row keeps its columns when two of them are set.                          *)
LEMMA TwoColumns ==
    ASSUME NEW C, NEW r, r = [x \in C |-> r[x]], NEW a, NEW b
    PROVE  LET s == [r EXCEPT !.failed = a, !.until = b]
               d == [r EXCEPT !.text = a, !.updated = b]
           IN  s = [x \in C |-> s[x]] /\ d = [x \in C |-> d[x]]
<1> DEFINE f == [r EXCEPT !.failed = a]
           g == [r EXCEPT !.text = a]
<1>1. f = [x \in C |-> f[x]] /\ g = [x \in C |-> g[x]]
  OBVIOUS
<1> DEFINE s == [f EXCEPT !.until = b]
           d == [g EXCEPT !.updated = b]
<1> HIDE DEF f, g
<1>2. s = [x \in C |-> s[x]] /\ d = [x \in C |-> d[x]]
  BY <1>1
<1> QED
  BY <1>2 DEF f, g

(* The statements of the users table.                                         *)
LEMMA UserStatements ==
    ASSUME NEW q, NEW t, Whole("users", t), Statement(q), q.table = "users"
    PROVE  Becomes("users", q, t, Lite!Method(t, q, 0).table)
<1> DEFINE T == "users"
<1>1. /\ Columns(T) = {"email", "hash", "role", "failed", "until", "created"}
      /\ \A k \in DOMAIN t : t[k] = [x \in Columns(T) |-> t[k][x]]
  BY DEF Columns, Whole
<1>2. q.op \in {"user_insert", "find_by_id", "find_by_email", "record_failed_login",
                "clear_login_failures", "update_password_hash", "set_role"}
  BY DEF Statement, Statements
<1>3. CASE q.op = "user_insert"
  <2>1. Insert(q) /\ q.id \notin Elsewhere
    BY <1>3 DEF Insert, Statement
  <2>2. Lite!Method(t, q, 0) = Lite!UserInsert(t, q, 0)
    BY <1>3 DEF Lite!Method
  <2> DEFINE row == Lite!NewUserRow(q, 0)
  <2>3. row = [x \in Columns(T) |-> row[x]]
    BY <1>1 DEF Lite!NewUserRow
  <2>4. \/ Lite!UserInsert(t, q, 0).table = t
        \/ q.id \notin DOMAIN t /\ Lite!UserInsert(t, q, 0).table = Put(t, q.id, row)
    BY DEF Lite!UserInsert, Lite!Taken, Lite!Conflict, Lite!Rows, Lite!Reply, Lite!Put, Put
  <2> HIDE DEF row
  <2> QED
    BY <2>1, <2>2, <2>3, <2>4, Looked, PutIn
<1>4. CASE q.op \in {"find_by_id", "find_by_email"}
  <2>1. Lite!Method(t, q, 0).table = t
    BY <1>4 DEF Lite!Method, Lite!UserFindById, Lite!UserFindByEmail, Lite!Rows, Lite!Reply
  <2> QED
    BY <2>1, Looked
<1>5. CASE q.op \in {"record_failed_login", "clear_login_failures", "update_password_hash", "set_role"}
  <2> DEFINE u == Lite!Method(t, q, 0).table
  <2>1. /\ q.op = "record_failed_login" => Lite!Method(t, q, 0) = Lite!UserRecordFailedLogin(t, q, 0)
        /\ q.op = "clear_login_failures" => Lite!Method(t, q, 0) = Lite!UserClearLoginFailures(t, q, 0)
        /\ q.op = "update_password_hash" => Lite!Method(t, q, 0) = Lite!UserUpdatePasswordHash(t, q, 0)
        /\ q.op = "set_role" => Lite!Method(t, q, 0) = Lite!UserSetRole(t, q, 0)
    BY DEF Lite!Method
  <2>2. u = [k \in DOMAIN t |-> u[k]] /\ \A k \in DOMAIN t : u[k] = [x \in Columns(T) |-> u[k][x]]
    <3>1. CASE q.op = "record_failed_login"
      <4>1. u = [k \in DOMAIN t |-> IF k \in {q.id}
                    THEN [t[k] EXCEPT !.failed = q.attempts, !.until = q.until] ELSE t[k]]
        <5> DEFINE v == [k \in DOMAIN t |-> IF k \in {q.id}
                    THEN [t[k] EXCEPT !.failed = q.attempts, !.until = q.until] ELSE t[k]]
        <5>1. Lite!UserRecordFailedLogin(t, q, 0) = [table |-> v, answer |-> <<"done">>]
          BY Zenon DEF Lite!UserRecordFailedLogin, Lite!Change, Lite!Done, Lite!Reply
        <5> HIDE DEF v
        <5>2. u = v
          BY <2>1, <3>1, <5>1
        <5> QED
          BY <5>2 DEF v
      <4> HIDE DEF u
      <4> QED
        BY <1>1, <4>1, TwoColumns
    <3>2. CASE q.op = "clear_login_failures"
      <4>1. u = [k \in DOMAIN t |-> IF k \in {q.id}
                    THEN [t[k] EXCEPT !.failed = 0, !.until = Lite!Null] ELSE t[k]]
        <5> DEFINE v == [k \in DOMAIN t |-> IF k \in {q.id}
                    THEN [t[k] EXCEPT !.failed = 0, !.until = Lite!Null] ELSE t[k]]
        <5>1. Lite!UserClearLoginFailures(t, q, 0) = [table |-> v, answer |-> <<"done">>]
          BY Zenon DEF Lite!UserClearLoginFailures, Lite!Change, Lite!Done, Lite!Reply
        <5> HIDE DEF v
        <5>2. u = v
          BY <2>1, <3>2, <5>1
        <5> QED
          BY <5>2 DEF v
      <4> HIDE DEF u
      <4> QED
        BY <1>1, <4>1, TwoColumns
    <3>3. CASE q.op = "update_password_hash"
      BY <1>1, <2>1, <3>3 DEF Lite!UserUpdatePasswordHash, Lite!Change, Lite!Done, Lite!Reply
    <3>4. CASE q.op = "set_role"
      BY <1>1, <2>1, <3>4 DEF Lite!UserSetRole, Lite!Change, Lite!Done, Lite!Reply
    <3> QED
      BY <1>5, <3>1, <3>2, <3>3, <3>4
  <2> HIDE DEF u
  <2>3. Becomes("users", q, t, u)
    BY <2>2, Altered
  <2> QED
    BY <2>3 DEF u
<1> QED
  BY <1>2, <1>3, <1>4, <1>5

(* The statements of the notes table.                                         *)
LEMMA NoteStatements ==
    ASSUME NEW q, NEW t, Whole("notes", t), Statement(q), q.table = "notes"
    PROVE  Becomes("notes", q, t, Lite!Method(t, q, 0).table)
<1> DEFINE T == "notes"
<1>1. /\ Columns(T) = {"owner", "text", "created", "updated"}
      /\ \A k \in DOMAIN t : t[k] = [x \in Columns(T) |-> t[k][x]]
  BY DEF Columns, Whole
<1>2. q.op \in {"create", "get", "update", "delete"}
  BY DEF Statement, Statements
<1>3. CASE q.op = "create"
  <2>1. Insert(q) /\ q.id \notin Elsewhere
    BY <1>3 DEF Insert, Statement
  <2>2. Lite!Method(t, q, 0) = Lite!NoteInsert(t, q, 0)
    BY <1>3 DEF Lite!Method
  <2> DEFINE row == Lite!NewNoteRow(q, 0)
  <2>3. row = [x \in Columns(T) |-> row[x]]
    BY <1>1 DEF Lite!NewNoteRow
  <2>4. \/ Lite!NoteInsert(t, q, 0).table = t
        \/ q.id \notin DOMAIN t /\ Lite!NoteInsert(t, q, 0).table = Put(t, q.id, row)
    BY DEF Lite!NoteInsert, Lite!Conflict, Lite!Rows, Lite!Reply, Lite!Put, Put
  <2> HIDE DEF row
  <2> QED
    BY <2>1, <2>2, <2>3, <2>4, Looked, PutIn
<1>4. CASE q.op = "get"
  <2>1. Lite!Method(t, q, 0).table = t
    BY <1>4 DEF Lite!Method, Lite!NoteFindOwned, Lite!Rows, Lite!Reply
  <2> QED
    BY <2>1, Looked
<1>5. CASE q.op = "update"
  <2> DEFINE u == Lite!Method(t, q, 0).table
  <2>1. Lite!Method(t, q, 0) = Lite!NoteUpdateOwned(t, q, 0)
    BY <1>5 DEF Lite!Method
  <2>2. u = [k \in DOMAIN t |-> IF k \in Lite!Owned(t, q)
                THEN [t[k] EXCEPT !.text = q.text, !.updated = 0] ELSE t[k]]
    <3> DEFINE v == [k \in DOMAIN t |-> IF k \in Lite!Owned(t, q)
                        THEN [t[k] EXCEPT !.text = q.text, !.updated = 0] ELSE t[k]]
    <3>1. Lite!NoteUpdateOwned(t, q, 0)
             = [table |-> v, answer |-> <<"rows", [k \in Lite!Owned(t, q) |-> v[k]]>>]
      BY Zenon DEF Lite!NoteUpdateOwned, Lite!Change, Lite!Rows, Lite!Reply
    <3> HIDE DEF v
    <3>2. u = v
      BY <2>1, <3>1
    <3> QED
      BY <3>2 DEF v
  <2> HIDE DEF u
  <2>3. u = [k \in DOMAIN t |-> u[k]] /\ \A k \in DOMAIN t : u[k] = [x \in Columns(T) |-> u[k][x]]
    BY <1>1, <2>2, TwoColumns
  <2>4. Becomes("notes", q, t, u)
    BY <2>3, Altered
  <2> QED
    BY <2>4 DEF u
<1>6. CASE q.op = "delete"
  <2>1. Lite!Method(t, q, 0).table = Without(t, Lite!Owned(t, q))
    BY <1>6 DEF Lite!Method, Lite!NoteDeleteOwned, Lite!Flag, Lite!Reply, Lite!Without, Without
  <2> QED
    BY <2>1, TakenOut
<1> QED
  BY <1>2, <1>3, <1>4, <1>5, <1>6

Marked(t, S) == [k \in DOMAIN t |-> IF k \in S THEN [t[k] EXCEPT !.revoked = TRUE] ELSE t[k]]

(* Both revocations mark the rows a filter matches.                           *)
LEMMA Revoking ==
    ASSUME NEW q, NEW t, q.op \in {"revoke_family", "revoke_all"}
    PROVE  \E S : Lite!Method(t, q, 0).table = Marked(t, S)
<1> DEFINE u == Lite!Method(t, q, 0).table
           F == {k \in DOMAIN t : t[k].family = q.family}
           G == {k \in DOMAIN t : t[k].user = q.user}
<1>1. /\ q.op = "revoke_family" => Lite!Method(t, q, 0) = Lite!RefreshRevokeFamily(t, q, 0)
      /\ q.op = "revoke_all" => Lite!Method(t, q, 0) = Lite!RefreshRevokeAll(t, q, 0)
  BY DEF Lite!Method
<1>2. /\ Lite!RefreshRevokeFamily(t, q, 0) = [table |-> Marked(t, F), answer |-> <<"done">>]
      /\ Lite!RefreshRevokeAll(t, q, 0) = [table |-> Marked(t, G), answer |-> <<"done">>]
  BY Zenon DEF Marked, Lite!RefreshRevokeFamily, Lite!RefreshRevokeAll, Lite!Where, Lite!Change, Lite!Done, Lite!Reply
<1> HIDE DEF F, G
<1>3. u = Marked(t, F) \/ u = Marked(t, G)
  BY <1>1, <1>2
<1> QED
  BY <1>3

(* The janitor's DELETE takes some rows out.                                  *)
LEMMA Sweeping ==
    ASSUME NEW q, NEW t, q.op = "refresh_expired"
    PROVE  \E S : Lite!Method(t, q, 0).table = Without(t, S)
BY DEF Lite!Method, Lite!RefreshDeleteExpired, Lite!Count, Lite!Reply, Lite!Without, Without

(* The statements of refresh_tokens: what was spent or revoked stays so.      *)
LEMMA RefreshStatements ==
    ASSUME NEW q, NEW t, Whole("refresh", t), Statement(q), q.table = "refresh"
    PROVE  Becomes("refresh", q, t, Lite!Method(t, q, 0).table)
<1> DEFINE T == "refresh"
<1>1. /\ Columns(T) = {"user", "family", "expires", "used", "revoked"}
      /\ \A k \in DOMAIN t : t[k] = [x \in Columns(T) |-> t[k][x]]
  BY DEF Columns, Whole
<1>2. q.op \in {"refresh_insert", "refresh_find", "mark_used", "revoke_family", "revoke_all",
                "refresh_expired"}
  BY DEF Statement, Statements
<1>3. CASE q.op = "refresh_insert"
  <2>1. Insert(q) /\ q.id \notin Elsewhere
    BY <1>3 DEF Insert, Statement
  <2>2. Lite!Method(t, q, 0) = Lite!RefreshInsert(t, q, 0)
    BY <1>3 DEF Lite!Method
  <2> DEFINE row == Lite!NewRefreshRow(q, q.expires)
  <2>3. row = [x \in Columns(T) |-> row[x]]
    BY <1>1 DEF Lite!NewRefreshRow
  <2>4. \/ Lite!RefreshInsert(t, q, 0).table = t
        \/ q.id \notin DOMAIN t /\ Lite!RefreshInsert(t, q, 0).table = Put(t, q.id, row)
    BY DEF Lite!RefreshInsert, Lite!Conflict, Lite!Done, Lite!Reply, Lite!Put, Put
  <2> HIDE DEF row
  <2> QED
    BY <2>1, <2>2, <2>3, <2>4, Looked, PutIn
<1>4. CASE q.op = "refresh_find"
  <2>1. Lite!Method(t, q, 0).table = t
    BY <1>4 DEF Lite!Method, Lite!RefreshFind, Lite!Rows, Lite!Reply
  <2> QED
    BY <2>1, Looked
<1>5. CASE q.op = "mark_used"
  <2> DEFINE u == Lite!Method(t, q, 0).table
  <2>1. Lite!Method(t, q, 0) = Lite!RefreshMarkUsed(t, q, 0)
    BY <1>5 DEF Lite!Method
  <2>2. u = [k \in DOMAIN t |-> IF k \in {l \in Lite!Keyed(t, q.id) : t[l].used = Lite!Null /\ ~t[l].revoked}
                THEN [t[k] EXCEPT !.used = 0] ELSE t[k]]
    BY <2>1 DEF Lite!RefreshMarkUsed, Lite!Change, Lite!Flag, Lite!Reply
  <2> HIDE DEF u
  <2>3. u = [k \in DOMAIN t |-> u[k]] /\ \A k \in DOMAIN t : u[k] = [x \in Columns(T) |-> u[k][x]]
    BY <1>1, <2>2
  <2>4. \A k \in DOMAIN t : ~Usable(t[k]) => u[k] = t[k]
    BY <2>2 DEF Usable, Lite!Null, Null
  <2>5. Becomes("refresh", q, t, u)
    BY <2>3, <2>4, Altered
  <2> QED
    BY <2>5 DEF u
<1>6. CASE q.op \in {"revoke_family", "revoke_all"}
  <2> DEFINE u == Lite!Method(t, q, 0).table
  <2>1. \E S : u = Marked(t, S)
    BY <1>6, Revoking
  <2> HIDE DEF u
  <2>2. u = [k \in DOMAIN t |-> u[k]] /\ \A k \in DOMAIN t : u[k] = [x \in Columns(T) |-> u[k][x]]
    BY <1>1, <2>1 DEF Marked
  <2>3. \A k \in DOMAIN t : u[k] = t[k] \/ u[k] = [t[k] EXCEPT !.revoked = TRUE]
    BY <2>1 DEF Marked
  <2>4. \A k \in DOMAIN t : u[k] = t[k] \/ u[k].revoked
    BY <1>1, <2>3
  <2>5. Becomes("refresh", q, t, u)
    BY <2>2, <2>4, Altered DEF Usable
  <2> QED
    BY <2>5 DEF u
<1>7. CASE q.op = "refresh_expired"
  BY <1>7, Sweeping, TakenOut
<1> QED
  BY <1>2, <1>3, <1>4, <1>5, <1>6, <1>7

(* The statements of access_tokens.                                           *)
LEMMA AccessStatements ==
    ASSUME NEW q, NEW t, Whole("access", t), Statement(q), q.table = "access"
    PROVE  Becomes("access", q, t, Lite!Method(t, q, 0).table)
<1> DEFINE T == "access"
<1>1. Columns(T) = {"user", "session", "role", "expires"}
  BY DEF Columns
<1>2. q.op \in {"access_insert", "access_find", "delete_by_session", "delete_all", "access_expired", "ping"}
  BY DEF Statement, Statements
<1>3. CASE q.op = "access_insert"
  <2>1. Insert(q) /\ q.id \notin Elsewhere
    BY <1>3 DEF Insert, Statement
  <2>2. Lite!Method(t, q, 0) = Lite!AccessInsert(t, q, 0)
    BY <1>3 DEF Lite!Method
  <2> DEFINE row == Lite!NewAccessRow(q, q.expires)
  <2>3. row = [x \in Columns(T) |-> row[x]]
    BY <1>1 DEF Lite!NewAccessRow
  <2>4. \/ Lite!AccessInsert(t, q, 0).table = t
        \/ q.id \notin DOMAIN t /\ Lite!AccessInsert(t, q, 0).table = Put(t, q.id, row)
    BY DEF Lite!AccessInsert, Lite!Conflict, Lite!Done, Lite!Reply, Lite!Put, Put
  <2> HIDE DEF row
  <2> QED
    BY <2>1, <2>2, <2>3, <2>4, Looked, PutIn
<1>4. CASE q.op \in {"access_find", "ping"}
  <2>1. Lite!Method(t, q, 0).table = t
    BY <1>4 DEF Lite!Method, Lite!AccessFind, Lite!Ping, Lite!Done, Lite!Rows, Lite!Reply
  <2> QED
    BY <2>1, Looked
<1>5. CASE q.op \in {"delete_by_session", "delete_all", "access_expired"}
  <2>1. /\ q.op = "delete_by_session" => Lite!Method(t, q, 0) = Lite!AccessDeleteBySession(t, q, 0)
        /\ q.op = "delete_all" => Lite!Method(t, q, 0) = Lite!AccessDeleteAll(t, q, 0)
        /\ q.op = "access_expired" => Lite!Method(t, q, 0) = Lite!AccessDeleteExpired(t, q, 0)
    BY DEF Lite!Method
  <2> DEFINE F == {k \in DOMAIN t : t[k].session = q.session}
             G == {k \in DOMAIN t : t[k].user = q.user}
             H == {k \in DOMAIN t : t[k].expires < q.at}
  <2>2. /\ Lite!AccessDeleteBySession(t, q, 0) = [table |-> Without(t, F), answer |-> <<"done">>]
        /\ Lite!AccessDeleteAll(t, q, 0) = [table |-> Without(t, G), answer |-> <<"done">>]
    BY Zenon DEF Lite!AccessDeleteBySession, Lite!AccessDeleteAll, Lite!Where, Lite!Done,
       Lite!Reply, Lite!Without, Without
  <2>4. Lite!AccessDeleteExpired(t, q, 0).table = Without(t, H)
    BY DEF Lite!AccessDeleteExpired, Lite!Where, Lite!Count, Lite!Reply, Lite!Without, Without
  <2> HIDE DEF F, G, H
  <2>3. \E S : Lite!Method(t, q, 0).table = Without(t, S)
    BY <1>5, <2>1, <2>2, <2>4
  <2> QED
    BY <2>3, TakenOut
<1> QED
  BY <1>2, <1>3, <1>4, <1>5

(* The statements of a server, each on its table.                             *)
LEMMA Executed ==
    ASSUME NEW q, Statement(q), NEW t, Whole(q.table, t)
    PROVE  Becomes(q.table, q, t, Lite!Method(t, q, 0).table)
<1>1. q.table \in {"users", "notes", "refresh", "access"}
  BY Four DEF Statement
<1> QED
  BY <1>1, UserStatements, NoteStatements, RefreshStatements, AccessStatements

-----------------------------------------------------------------------------
(* The inductive invariant.                                                   *)
Stages == {"idle", "survey", "begin", "empty", "copy", "write", "verify", "end", "done", "failed"}
Requested == UNION {{j[i] : i \in DOMAIN j} : j \in Jobs}

ShapeInv ==
    /\ source = [T \in Table |-> source[T]] /\ \A T \in Table : Whole(T, source[T])
    /\ target = [T \in Table |-> target[T]] /\ \A T \in Table : IsFiniteSet(DOMAIN target[T])
    /\ pc \in [Copies -> Stages] /\ at \in [Copies -> 1..4]
    /\ dry \in [Copies -> BOOLEAN] /\ landed \in [Copies -> BOOLEAN] /\ quiet \in [Copies -> BOOLEAN]
    /\ dead = [c \in Copies |-> dead[c]] /\ surveyed = [c \in Copies |-> surveyed[c]]
    /\ read = [c \in Copies |-> [T \in Table |-> read[c][T]]]
    /\ tx = [c \in Copies |-> [T \in Table |-> tx[c][T]]]
    /\ \A c \in Copies, T \in Table : Whole(T, read[c][T])
    /\ strange \subseteq Elsewhere

(* The tables a copy has read and written are the first ones, up to where it  *)
(* is; its transaction holds exactly what it has written.                     *)
HasRead(c, i) ==
    \/ pc[c] \in {"verify", "end", "done"} \/ landed[c]
    \/ pc[c] = "copy" /\ i < at[c]
    \/ pc[c] = "write" /\ i <= at[c]
Written(c, i) ==
    pc[c] \in {"verify", "end"} \/ (pc[c] \in {"copy", "write"} /\ i < at[c])
PlaceInv ==
    \A c \in Copies :
        /\ at[c] > 1 => pc[c] \in {"empty", "copy", "write", "verify"}
        /\ landed[c] => pc[c] \in {"done", "failed"}
        /\ pc[c] = "done" /\ ~dry[c] => landed[c]
        /\ \A i \in 1..4 :
              /\ Written(c, i) => tx[c][Names[i]] = read[c][Names[i]]
              /\ ~Written(c, i) => tx[c][Names[i]] = Empty
              /\ ~HasRead(c, i) => read[c][Names[i]] = Empty

(* Keys are unique: what a transaction holds is held by nobody else and is    *)
(* not in the target.                                                         *)
KeysInv ==
    \A c \in Copies, T \in Table :
        /\ DOMAIN tx[c][T] \cap DOMAIN target[T] = {}
        /\ \A d \in Copies \ {c} : DOMAIN tx[c][T] \cap DOMAIN tx[d][T] = {}

(* Ids still to be inserted were never in use.                                *)
FreshInv ==
    /\ jobs \subseteq Jobs /\ writing \in Seq(Requested)
    /\ \A i, l \in DOMAIN writing :
          Insert(writing[i]) /\ Insert(writing[l]) /\ writing[i].id = writing[l].id => i = l
    /\ \A j \in jobs \cup {writing} :
          /\ \A T \in Table : NewIds(j) \cap DOMAIN source[T] = {}
          /\ \A c \in Copies : NewIds(j) \cap dead[c] = {}
    /\ \A j \in jobs : NewIds(j) \cap NewIds(writing) = {}

(* Users are never deleted, so of two readings of the users one holds the     *)
(* other, and all of them are still there.                                    *)
UsersInv ==
    \A c, d \in Copies :
        /\ DOMAIN read[c].users \subseteq DOMAIN source.users
        /\ \/ DOMAIN read[c].users \subseteq DOMAIN read[d].users
           \/ DOMAIN read[d].users \subseteq DOMAIN read[c].users

(* Every row of a transaction has its user there or in the target; so a run   *)
(* that read no users and has counted them has read nothing at all.           *)
OwnersInv ==
    \A c \in Copies : \A T \in Table : \A k \in DOMAIN tx[c][T] :
        ~Orphan(T, tx[c][T][k], Sees(c, "users"))
Counted(c) == (pc[c] = "verify" /\ at[c] > 1) \/ pc[c] = "end" \/ landed[c]
NothingInv ==
    \A c \in Copies : Counted(c) /\ read[c].users = Empty => \A T \in Table : read[c][T] = Empty

(* At most one run that read anything has landed, and the target is its.      *)
LandedInv ==
    /\ \A c \in Copies : landed[c] /\ read[c].users # Empty => \A T \in Table : Own(T) = read[c][T]
    /\ \/ \A T \in Table : Own(T) = Empty
       \/ \E c \in Copies : landed[c] /\ read[c].users # Empty

(* While the file is quiet, what was counted and what was read of it is it.   *)
QuietInv ==
    \A c \in Copies : quiet[c] /\ pc[c] \notin {"idle", "survey", "failed"} =>
        /\ \A T \in Table : surveyed[c][T] = Cardinality(DOMAIN source[T])
        /\ \A i \in 1..4 : HasRead(c, i) => read[c][Names[i]] = source[Names[i]]

(* A token that was dead when a run began is dead in the file, in what the    *)
(* run read, and in what any run read that started on the users after it.     *)
After(c, d) == c = d \/ (HasRead(c, 1) /\ read[c].users = Empty /\ read[d].users # Empty)
DeadInv ==
    \A c \in Copies :
        /\ pc[c] \in {"idle", "survey", "begin"} => dead[c] = {}
        /\ pc[c] = "failed" /\ ~landed[c] => dead[c] = {}
        /\ dead[c] \cap Elsewhere = {}
        /\ \A k \in dead[c] \cap DOMAIN source.refresh : ~Usable(source.refresh[k])
        /\ \A d \in Copies : After(c, d) =>
              \A k \in dead[c] \cap DOMAIN read[d].refresh : ~Usable(read[d].refresh[k])

CopyInv ==
    /\ ShapeInv /\ PlaceInv /\ KeysInv /\ FreshInv /\ UsersInv
    /\ OwnersInv /\ NothingInv /\ LandedInv /\ QuietInv /\ DeadInv

-----------------------------------------------------------------------------
(* The steps of one run, by what they leave in its variables.                 *)
KeepsRows(c) ==
    read'[c] = read[c] /\ tx'[c] = tx[c] /\ landed'[c] = landed[c] /\ target' = target
KeepsNotes(c) == surveyed'[c] = surveyed[c] /\ dead'[c] = dead[c] /\ quiet'[c] = quiet[c]

Starts(c) ==
    pc[c] = "idle" /\ pc'[c] = "survey" /\ at'[c] = 1 /\ KeepsRows(c) /\ KeepsNotes(c)
Surveys(c) ==
    /\ pc[c] = "survey" /\ pc'[c] = "begin" /\ at'[c] = 1 /\ KeepsRows(c)
    /\ dead'[c] = dead[c] /\ surveyed'[c] = [T \in Table |-> Cardinality(DOMAIN source[T])]
Begins(c) ==
    /\ pc[c] = "begin" /\ pc'[c] = "empty" /\ at'[c] = 1 /\ KeepsRows(c)
    /\ surveyed'[c] = surveyed[c] /\ quiet'[c] = quiet[c]
    /\ dead'[c] = {k \in DOMAIN source.refresh : ~Usable(source.refresh[k])}
Looks(c) ==
    /\ pc[c] = "empty" /\ KeepsRows(c) /\ KeepsNotes(c)
    /\ \/ at[c] < 4 /\ pc'[c] = "empty" /\ at'[c] = at[c] + 1
       \/ at[c] = 4 /\ pc'[c] = "copy" /\ at'[c] = 1
Reads(c) ==
    /\ pc[c] = "copy" /\ pc'[c] = "write" /\ at'[c] = at[c] /\ KeepsNotes(c)
    /\ tx'[c] = tx[c] /\ landed'[c] = landed[c] /\ target' = target
    /\ \A T \in Table : read'[c][T] = IF T = Here(c) THEN source[T] ELSE read[c][T]
Writes(c) ==
    /\ pc[c] = "write" /\ ~Blocked(c) /\ ~Refused(c) /\ KeepsNotes(c)
    /\ read'[c] = read[c] /\ landed'[c] = landed[c] /\ target' = target
    /\ \A T \in Table : tx'[c][T] = IF T = Here(c) THEN read[c][T] ELSE tx[c][T]
    /\ \/ at[c] < 4 /\ pc'[c] = "copy" /\ at'[c] = at[c] + 1
       \/ at[c] = 4 /\ pc'[c] = "verify" /\ at'[c] = 1
Verifies(c) ==
    /\ pc[c] = "verify" /\ KeepsRows(c) /\ KeepsNotes(c)
    /\ Cardinality(Sees(c, Here(c))) = Cardinality(DOMAIN read[c][Here(c)])
    /\ \/ at[c] < 4 /\ pc'[c] = "verify" /\ at'[c] = at[c] + 1
       \/ at[c] = 4 /\ pc'[c] = "end" /\ at'[c] = 1
RollsBack(c) ==
    /\ pc[c] = "end" /\ dry[c] /\ pc'[c] = "done" /\ at'[c] = 1 /\ KeepsNotes(c)
    /\ tx'[c] = NoRows /\ read'[c] = read[c] /\ landed'[c] = landed[c] /\ target' = target
Commits(c) ==
    /\ pc[c] = "end" /\ ~dry[c] /\ pc'[c] \in {"done", "failed"} /\ at'[c] = 1 /\ KeepsNotes(c)
    /\ tx'[c] = NoRows /\ read'[c] = read[c] /\ landed'[c] = TRUE
    /\ target' = [T \in Table |-> [k \in Sees(c, T) |->
                    IF k \in DOMAIN tx[c][T] THEN tx[c][T][k] ELSE target[T][k]]]
Aborts(c) ==
    /\ pc[c] \notin {"idle", "done", "failed"} /\ pc'[c] = "failed" /\ at'[c] = 1
    /\ read'[c] = NoRows /\ tx'[c] = NoRows /\ dead'[c] = {}
    /\ landed'[c] = landed[c] /\ target' = target

Before(c) == Starts(c) \/ Surveys(c) \/ Begins(c) \/ Looks(c)
Moves(c) ==
    Before(c) \/ Reads(c) \/ Writes(c) \/ Verifies(c) \/ RollsBack(c) \/ Commits(c) \/ Aborts(c)

(* The other runs and the server stay as they are, and everything its shape.  *)
Others(c) ==
    /\ source' = source /\ writing' = writing /\ jobs' = jobs /\ strange' = strange /\ dry' = dry
    /\ \A d \in Copies \ {c} :
          /\ pc'[d] = pc[d] /\ at'[d] = at[d] /\ surveyed'[d] = surveyed[d] /\ read'[d] = read[d]
          /\ tx'[d] = tx[d] /\ landed'[d] = landed[d] /\ dead'[d] = dead[d] /\ quiet'[d] = quiet[d]
Formed ==
    /\ pc' \in [Copies -> Stages] /\ at' \in [Copies -> 1..4]
    /\ landed' \in [Copies -> BOOLEAN] /\ quiet' \in [Copies -> BOOLEAN]
    /\ dead' = [d \in Copies |-> dead'[d]] /\ surveyed' = [d \in Copies |-> surveyed'[d]]
    /\ read' = [d \in Copies |-> [T \in Table |-> read'[d][T]]]
    /\ tx' = [d \in Copies |-> [T \in Table |-> tx'[d][T]]]

(* Setting one entry of a variable that is kept per run.                      *)
LEMMA OneEntry ==
    ASSUME NEW f, NEW S, f = [d \in S |-> f[d]], NEW c \in S, NEW v
    PROVE  LET g == [f EXCEPT ![c] = v]
           IN  /\ g = [d \in S |-> g[d]] /\ g[c] = v /\ \A d \in S \ {c} : g[d] = f[d]
OBVIOUS

(* An error ends a run, whatever it did.                                      *)
LEMMA Aborting ==
    ASSUME ShapeInv, NEW c \in Copies, pc[c] \notin {"idle", "done", "failed"}, Abort(c),
           UNCHANGED <<server, other, dry, landed>>
    PROVE  Aborts(c) /\ Others(c) /\ Formed
<1>1. /\ pc' = [pc EXCEPT ![c] = "failed"] /\ at' = [at EXCEPT ![c] = 1]
      /\ read' = [read EXCEPT ![c] = NoRows] /\ tx' = [tx EXCEPT ![c] = NoRows]
      /\ surveyed' = [surveyed EXCEPT ![c] = Uncounted] /\ dead' = [dead EXCEPT ![c] = {}]
      /\ quiet' = [quiet EXCEPT ![c] = TRUE]
  BY DEF Abort, Goto
<1>2. /\ source' = source /\ writing' = writing /\ jobs' = jobs /\ strange' = strange /\ dry' = dry
      /\ target' = target /\ landed' = landed
  BY DEF server, other
<1>3. NoRows = [T \in Table |-> NoRows[T]]
  BY DEF NoRows
<1>4. /\ pc' \in [Copies -> Stages] /\ at' \in [Copies -> 1..4]
      /\ landed' \in [Copies -> BOOLEAN] /\ quiet' \in [Copies -> BOOLEAN]
  BY <1>1, <1>2 DEF ShapeInv, Stages
<1>5. dead' = [d \in Copies |-> dead'[d]] /\ surveyed' = [d \in Copies |-> surveyed'[d]]
  BY <1>1, OneEntry DEF ShapeInv
<1>6. /\ read' = [d \in Copies |-> read'[d]] /\ tx' = [d \in Copies |-> tx'[d]]
      /\ read'[c] = NoRows /\ tx'[c] = NoRows /\ dead'[c] = {} /\ pc'[c] = "failed" /\ at'[c] = 1
      /\ \A d \in Copies \ {c} :
          /\ pc'[d] = pc[d] /\ at'[d] = at[d] /\ surveyed'[d] = surveyed[d] /\ read'[d] = read[d]
          /\ tx'[d] = tx[d] /\ dead'[d] = dead[d] /\ quiet'[d] = quiet[d]
  <2>1. /\ pc = [d \in Copies |-> pc[d]] /\ at = [d \in Copies |-> at[d]]
        /\ read = [d \in Copies |-> read[d]] /\ tx = [d \in Copies |-> tx[d]]
        /\ surveyed = [d \in Copies |-> surveyed[d]] /\ dead = [d \in Copies |-> dead[d]]
        /\ quiet = [d \in Copies |-> quiet[d]]
    BY DEF ShapeInv
  <2> QED
    BY <1>1, <2>1, OneEntry
<1>7. \A d \in Copies : read'[d] = [T \in Table |-> read'[d][T]] /\ tx'[d] = [T \in Table |-> tx'[d][T]]
  BY <1>3, <1>6 DEF ShapeInv
<1>8. Formed
  BY <1>4, <1>5, <1>6, <1>7 DEF Formed
<1> QED
  BY <1>2, <1>6, <1>8 DEF Aborts, Others

(* Every step of a run is one of these moves.                                 *)
LEMMA Moved ==
    ASSUME ShapeInv, NEW c \in Copies, Start(c) \/ Step(c) \/ Fail(c)
    PROVE  Moves(c) /\ Others(c) /\ Formed
<1>1. /\ pc = [d \in Copies |-> pc[d]] /\ at = [d \in Copies |-> at[d]]
      /\ read = [d \in Copies |-> read[d]] /\ tx = [d \in Copies |-> tx[d]]
      /\ surveyed = [d \in Copies |-> surveyed[d]] /\ dead = [d \in Copies |-> dead[d]]
      /\ quiet = [d \in Copies |-> quiet[d]] /\ landed = [d \in Copies |-> landed[d]]
      /\ \A d \in Copies : read[d] = [T \in Table |-> read[d][T]] /\ tx[d] = [T \in Table |-> tx[d][T]]
      /\ at[c] \in 1..4 /\ Len(Names) = 4 /\ Here(c) \in Table
  BY Four DEF ShapeInv, Here
<1> DEFINE Rest == /\ source' = source /\ writing' = writing /\ jobs' = jobs /\ strange' = strange /\ dry' = dry
<1>2. ASSUME Start(c) PROVE Moves(c) /\ Others(c) /\ Formed
  <2>1. /\ Rest /\ target' = target /\ pc[c] = "idle"
        /\ pc' = [pc EXCEPT ![c] = "survey"] /\ at' = [at EXCEPT ![c] = 1]
        /\ UNCHANGED <<surveyed, read, tx, landed, dead, quiet>>
    BY <1>2 DEF Start, Goto, server, other
  <2>2. Starts(c)
    BY <1>1, <2>1, OneEntry DEF Starts, KeepsRows, KeepsNotes
  <2>3. Others(c)
    BY <1>1, <2>1, OneEntry DEF Others
  <2>4. Formed
    BY <2>1 DEF Formed, ShapeInv, Stages
  <2> QED
    BY <2>2, <2>3, <2>4 DEF Moves, Before
<1>3. ASSUME Survey(c) PROVE Moves(c) /\ Others(c) /\ Formed
  <2> DEFINE counts == [T \in Table |-> Cardinality(DOMAIN source[T])]
  <2>1. /\ Rest /\ target' = target /\ pc[c] = "survey"
        /\ pc' = [pc EXCEPT ![c] = "begin"] /\ at' = [at EXCEPT ![c] = 1]
        /\ surveyed' = [surveyed EXCEPT ![c] = counts] /\ quiet' = [quiet EXCEPT ![c] = TRUE]
        /\ UNCHANGED <<read, tx, landed, dead>>
    BY <1>3 DEF Survey, Goto, server, other
  <2> HIDE DEF counts
  <2>2. pc'[c] = "begin" /\ at'[c] = 1 /\ surveyed'[c] = counts
    BY <1>1, <2>1, OneEntry
  <2>3. Surveys(c)
    BY <2>1, <2>2 DEF Surveys, KeepsRows, counts
  <2>4. Others(c)
    BY <1>1, <2>1, OneEntry DEF Others
  <2>5. Formed
    <3>1. surveyed' = [d \in Copies |-> surveyed'[d]]
      BY <1>1, <2>1, OneEntry
    <3> QED
      BY <2>1, <3>1 DEF Formed, ShapeInv, Stages
  <2> QED
    BY <2>3, <2>4, <2>5 DEF Moves, Before
<1>4. ASSUME Begin(c) PROVE Moves(c) /\ Others(c) /\ Formed
  <2> DEFINE now == {k \in DOMAIN source.refresh : ~Usable(source.refresh[k])}
  <2>1. /\ Rest /\ target' = target /\ pc[c] = "begin"
        /\ pc' = [pc EXCEPT ![c] = "empty"] /\ at' = [at EXCEPT ![c] = 1]
        /\ dead' = [dead EXCEPT ![c] = now]
        /\ UNCHANGED <<surveyed, read, tx, landed, quiet>>
    BY <1>4 DEF Begin, Goto, server, other
  <2> HIDE DEF now
  <2>2. pc'[c] = "empty" /\ at'[c] = 1 /\ dead'[c] = now
    BY <1>1, <2>1, OneEntry
  <2>3. Begins(c)
    BY <2>1, <2>2 DEF Begins, KeepsRows, now
  <2>4. Others(c)
    BY <1>1, <2>1, OneEntry DEF Others
  <2>5. Formed
    <3>1. dead' = [d \in Copies |-> dead'[d]]
      BY <1>1, <2>1, OneEntry
    <3> QED
      BY <2>1, <3>1 DEF Formed, ShapeInv, Stages
  <2> QED
    BY <2>3, <2>4, <2>5 DEF Moves, Before
<1>5. ASSUME EnsureEmpty(c) PROVE Moves(c) /\ Others(c) /\ Formed
  <2>1. UNCHANGED <<server, other, dry, landed>> /\ pc[c] = "empty"
    BY <1>5 DEF EnsureEmpty
  <2>2. CASE Abort(c)
    BY <2>1, <2>2, Aborting DEF Moves
  <2>3. CASE Onward(c, "copy") /\ UNCHANGED <<read, tx, surveyed, dead, quiet>>
    <3>1. /\ Rest /\ target' = target
          /\ UNCHANGED <<surveyed, read, tx, landed, dead, quiet>>
      BY <2>1, <2>3 DEF server, other
    <3>2. \/ at[c] < 4 /\ at' = [at EXCEPT ![c] = @ + 1] /\ pc' = pc
          \/ at[c] = 4 /\ at' = [at EXCEPT ![c] = 1] /\ pc' = [pc EXCEPT ![c] = "copy"]
      BY <1>1, <2>3 DEF Onward, Goto
    <3>3. Looks(c)
      <4>1. \/ at[c] < 4 /\ pc'[c] = "empty" /\ at'[c] = at[c] + 1
            \/ at[c] = 4 /\ pc'[c] = "copy" /\ at'[c] = 1
        BY <1>1, <2>1, <3>2, OneEntry
      <4> QED
        BY <2>1, <3>1, <4>1 DEF Looks, KeepsRows, KeepsNotes
    <3>4. Others(c)
      BY <1>1, <3>1, <3>2, OneEntry DEF Others
    <3>5. pc' \in [Copies -> Stages] /\ at' \in [Copies -> 1..4]
      <4>1. at[c] < 4 => at[c] + 1 \in 1..4
        BY <1>1
      <4>2. \E n \in 1..4 : at' = [at EXCEPT ![c] = n]
        BY <1>1, <3>2, <4>1
      <4>4. at' \in [Copies -> 1..4]
        BY <4>2 DEF ShapeInv
      <4>3. pc' \in [Copies -> Stages]
        BY <3>2 DEF ShapeInv, Stages
      <4> QED
        BY <4>3, <4>4
    <3>6. Formed
      BY <3>1, <3>5 DEF Formed, ShapeInv
    <3> QED
      BY <3>3, <3>4, <3>6 DEF Moves, Before
  <2> QED
    BY <1>5, <2>2, <2>3 DEF EnsureEmpty
<1>6. ASSUME Read(c) PROVE Moves(c) /\ Others(c) /\ Formed
  <2> DEFINE T0 == Here(c)
             t == source[T0]
             row == [read[c] EXCEPT ![T0] = t]
  <2>1. /\ Rest /\ target' = target /\ pc[c] = "copy"
        /\ pc' = [pc EXCEPT ![c] = "write"]
        /\ UNCHANGED <<at, surveyed, tx, landed, dead, quiet>>
    BY <1>6 DEF Read, server, other
  <2>2. [k \in DOMAIN t |-> Copied(T0, t[k])] = t
    BY <1>1, CopiedTable DEF ShapeInv
  <2>3. read' = [read EXCEPT ![c][T0] = [k \in DOMAIN t |-> Copied(T0, t[k])]]
    BY <1>6, Zenon DEF Read
  <2>4. read' = [read EXCEPT ![c] = row]
    BY <2>2, <2>3
  <2>5. row = [T \in Table |-> row[T]] /\ row[T0] = t /\ \A T \in Table \ {T0} : row[T] = read[c][T]
    <3>1. read[c] = [T \in Table |-> read[c][T]] /\ T0 \in Table
      BY <1>1
    <3> HIDE DEF t, T0
    <3> QED
      BY <3>1, OneEntry
  <2> HIDE DEF row
  <2>6. /\ read' = [d \in Copies |-> read'[d]] /\ read'[c] = row /\ \A d \in Copies \ {c} : read'[d] = read[d]
    BY <1>1, <2>4, OneEntry
  <2>7. Reads(c)
    <3>1. pc'[c] = "write"
      BY <1>1, <2>1, OneEntry
    <3>2. \A T \in Table : read'[c][T] = IF T = Here(c) THEN source[T] ELSE read[c][T]
      BY <2>5, <2>6
    <3> QED
      BY <2>1, <3>1, <3>2 DEF Reads, KeepsNotes
  <2>8. Others(c)
    BY <1>1, <2>1, <2>6, OneEntry DEF Others
  <2>9. Formed
    <3>1. pc' \in [Copies -> Stages]
      BY <2>1 DEF ShapeInv, Stages
    <3>2. ASSUME NEW d \in Copies PROVE read'[d] = [T \in Table |-> read'[d][T]]
      <4>1. CASE d = c
        BY <2>5, <2>6, <4>1, Zenon
      <4>2. CASE d # c
        BY <1>1, <2>6, <4>2
      <4> QED
        BY <4>1, <4>2
    <3>3. read' = [d \in Copies |-> [T \in Table |-> read'[d][T]]]
      <4>1. [d \in Copies |-> read'[d]] = [d \in Copies |-> [T \in Table |-> read'[d][T]]]
        BY <3>2
      <4> QED
        BY <2>6, <4>1, Zenon
    <3> QED
      BY <2>1, <3>1, <3>3 DEF Formed, ShapeInv
  <2> QED
    BY <2>7, <2>8, <2>9 DEF Moves
<1>7. ASSUME Write(c) PROVE Moves(c) /\ Others(c) /\ Formed
  <2>1. UNCHANGED <<server, other, dry, landed>> /\ pc[c] = "write" /\ ~Blocked(c)
    BY <1>7 DEF Write
  <2>2. CASE Refused(c)
    <3>1. Abort(c)
      BY <1>7, <2>2 DEF Write
    <3> QED
      BY <2>1, <3>1, Aborting DEF Moves
  <2>3. CASE ~Refused(c)
    <3> DEFINE T0 == Here(c)
               t == read[c][T0]
               row == [tx[c] EXCEPT ![T0] = t]
    <3>1. /\ Rest /\ target' = target /\ UNCHANGED <<read, surveyed, landed, dead, quiet>>
          /\ tx' = [tx EXCEPT ![c] = row]
      BY <1>7, <2>1, <2>3 DEF Write, server, other
    <3>2. \/ at[c] < 4 /\ at' = [at EXCEPT ![c] = @ + 1] /\ pc' = [pc EXCEPT ![c] = "copy"]
          \/ at[c] = 4 /\ at' = [at EXCEPT ![c] = 1] /\ pc' = [pc EXCEPT ![c] = "verify"]
      BY <1>1, <1>7, <2>3 DEF Write, Goto
    <3>3. row = [T \in Table |-> row[T]] /\ row[T0] = t /\ \A T \in Table \ {T0} : row[T] = tx[c][T]
      <4>1. tx[c] = [T \in Table |-> tx[c][T]] /\ T0 \in Table
        BY <1>1
      <4> HIDE DEF t, T0
      <4> QED
        BY <4>1, OneEntry
    <3> HIDE DEF row
    <3>4. tx' = [d \in Copies |-> tx'[d]] /\ tx'[c] = row /\ \A d \in Copies \ {c} : tx'[d] = tx[d]
      BY <1>1, <3>1, OneEntry
    <3>5. Writes(c)
      <4>1. \A T \in Table : tx'[c][T] = IF T = Here(c) THEN read[c][T] ELSE tx[c][T]
        BY <3>3, <3>4
      <4>2. \/ at[c] < 4 /\ pc'[c] = "copy" /\ at'[c] = at[c] + 1
            \/ at[c] = 4 /\ pc'[c] = "verify" /\ at'[c] = 1
        BY <1>1, <3>2, OneEntry
      <4> QED
        BY <2>1, <2>3, <3>1, <4>1, <4>2 DEF Writes, KeepsNotes
    <3>6. Others(c)
      BY <1>1, <3>1, <3>2, <3>4, OneEntry DEF Others
    <3>7. pc' \in [Copies -> Stages] /\ at' \in [Copies -> 1..4]
      <4>1. at[c] < 4 => at[c] + 1 \in 1..4
        BY <1>1
      <4>2. \E n \in 1..4 : at' = [at EXCEPT ![c] = n]
        BY <1>1, <3>2, <4>1
      <4>4. at' \in [Copies -> 1..4]
        BY <4>2 DEF ShapeInv
      <4>3. pc' \in [Copies -> Stages]
        BY <3>2 DEF ShapeInv, Stages
      <4> QED
        BY <4>3, <4>4
    <3>8. tx' = [d \in Copies |-> [T \in Table |-> tx'[d][T]]]
      <4>1. ASSUME NEW d \in Copies PROVE tx'[d] = [T \in Table |-> tx'[d][T]]
        <5>1. CASE d = c
          BY <3>3, <3>4, <5>1, Zenon
        <5>2. CASE d # c
          BY <1>1, <3>4, <5>2
        <5> QED
          BY <5>1, <5>2
      <4>2. [d \in Copies |-> tx'[d]] = [d \in Copies |-> [T \in Table |-> tx'[d][T]]]
        BY <4>1
      <4> QED
        BY <3>4, <4>2, Zenon
    <3>9. Formed
      BY <3>1, <3>7, <3>8 DEF Formed, ShapeInv
    <3> QED
      BY <3>5, <3>6, <3>9 DEF Moves
  <2> QED
    BY <2>2, <2>3
<1>8. ASSUME Verify(c) PROVE Moves(c) /\ Others(c) /\ Formed
  <2> DEFINE Right == Cardinality(Sees(c, Here(c))) = Cardinality(DOMAIN read[c][Here(c)])
  <2>1. UNCHANGED <<server, other, dry, landed>> /\ pc[c] = "verify"
    BY <1>8 DEF Verify
  <2>2. CASE Abort(c)
    BY <2>1, <2>2, Aborting DEF Moves
  <2>3. CASE Right /\ Onward(c, "end") /\ UNCHANGED <<read, tx, surveyed, dead, quiet>>
    <3>1. /\ Rest /\ target' = target
          /\ UNCHANGED <<surveyed, read, tx, landed, dead, quiet>>
      BY <2>1, <2>3 DEF server, other
    <3>2. \/ at[c] < 4 /\ at' = [at EXCEPT ![c] = @ + 1] /\ pc' = pc
          \/ at[c] = 4 /\ at' = [at EXCEPT ![c] = 1] /\ pc' = [pc EXCEPT ![c] = "end"]
      BY <1>1, <2>3 DEF Onward, Goto
    <3>3. Verifies(c)
      <4>1. \/ at[c] < 4 /\ pc'[c] = "verify" /\ at'[c] = at[c] + 1
            \/ at[c] = 4 /\ pc'[c] = "end" /\ at'[c] = 1
        BY <1>1, <2>1, <3>2, OneEntry
      <4> QED
        BY <2>1, <2>3, <3>1, <4>1 DEF Verifies, KeepsRows, KeepsNotes
    <3>4. Others(c)
      BY <1>1, <3>1, <3>2, OneEntry DEF Others
    <3>5. pc' \in [Copies -> Stages] /\ at' \in [Copies -> 1..4]
      <4>1. at[c] < 4 => at[c] + 1 \in 1..4
        BY <1>1
      <4>2. \E n \in 1..4 : at' = [at EXCEPT ![c] = n]
        BY <1>1, <3>2, <4>1
      <4>4. at' \in [Copies -> 1..4]
        BY <4>2 DEF ShapeInv
      <4>3. pc' \in [Copies -> Stages]
        BY <3>2 DEF ShapeInv, Stages
      <4> QED
        BY <4>3, <4>4
    <3>6. Formed
      BY <3>1, <3>5 DEF Formed, ShapeInv
    <3> QED
      BY <3>3, <3>4, <3>6 DEF Moves
  <2> QED
    BY <1>8, <2>2, <2>3 DEF Verify
<1>9. ASSUME RollBack(c) PROVE Moves(c) /\ Others(c) /\ Formed
  <2>1. /\ Rest /\ target' = target /\ pc[c] = "end" /\ dry[c]
        /\ pc' = [pc EXCEPT ![c] = "done"] /\ at' = [at EXCEPT ![c] = 1]
        /\ tx' = [tx EXCEPT ![c] = NoRows] /\ UNCHANGED <<surveyed, read, landed, dead, quiet>>
    BY <1>9 DEF RollBack, Goto, server, other
  <2>2. /\ pc'[c] = "done" /\ at'[c] = 1 /\ tx'[c] = NoRows /\ tx' = [d \in Copies |-> tx'[d]]
        /\ \A d \in Copies \ {c} : pc'[d] = pc[d] /\ at'[d] = at[d] /\ tx'[d] = tx[d]
    BY <1>1, <2>1, OneEntry
  <2>3. RollsBack(c)
    BY <2>1, <2>2 DEF RollsBack, KeepsNotes
  <2>4. Others(c)
    BY <2>1, <2>2 DEF Others
  <2>5. tx' = [d \in Copies |-> [T \in Table |-> tx'[d][T]]]
    BY <1>1, <2>2 DEF NoRows
  <2>6. pc' \in [Copies -> Stages] /\ at' \in [Copies -> 1..4]
    BY <2>1 DEF ShapeInv, Stages
  <2>7. Formed
    BY <2>1, <2>5, <2>6 DEF Formed, ShapeInv
  <2> QED
    BY <2>3, <2>4, <2>7 DEF Moves
<1>10. ASSUME Commit(c) PROVE Moves(c) /\ Others(c) /\ Formed
  <2>1. /\ Rest /\ pc[c] = "end" /\ ~dry[c]
        /\ \E label \in {"done", "failed"} : pc' = [pc EXCEPT ![c] = label] /\ at' = [at EXCEPT ![c] = 1]
        /\ tx' = [tx EXCEPT ![c] = NoRows] /\ landed' = [landed EXCEPT ![c] = TRUE]
        /\ UNCHANGED <<surveyed, read, dead, quiet>>
    BY <1>10 DEF Commit, Goto, server
  <2>2. target' = [T \in Table |-> [k \in Sees(c, T) |->
                    IF k \in DOMAIN tx[c][T] THEN tx[c][T][k] ELSE target[T][k]]]
    BY <1>10, Zenon DEF Commit
  <2>3. /\ pc'[c] \in {"done", "failed"} /\ at'[c] = 1 /\ tx'[c] = NoRows /\ landed'[c] = TRUE
        /\ tx' = [d \in Copies |-> tx'[d]]
        /\ \A d \in Copies \ {c} : pc'[d] = pc[d] /\ at'[d] = at[d] /\ tx'[d] = tx[d] /\ landed'[d] = landed[d]
    BY <1>1, <2>1, OneEntry
  <2>4. Commits(c)
    BY <2>1, <2>2, <2>3 DEF Commits, KeepsNotes
  <2>5. Others(c)
    BY <2>1, <2>3 DEF Others
  <2>6. tx' = [d \in Copies |-> [T \in Table |-> tx'[d][T]]]
    BY <1>1, <2>3 DEF NoRows
  <2>7. pc' \in [Copies -> Stages] /\ at' \in [Copies -> 1..4] /\ landed' \in [Copies -> BOOLEAN]
    BY <2>1 DEF ShapeInv, Stages
  <2>8. Formed
    BY <2>1, <2>6, <2>7 DEF Formed, ShapeInv
  <2> QED
    BY <2>4, <2>5, <2>8 DEF Moves
<1>11. ASSUME Fail(c) PROVE Moves(c) /\ Others(c) /\ Formed
  BY <1>11, Aborting DEF Fail, Running, Moves
<1> QED
  BY <1>2, <1>3, <1>4, <1>5, <1>6, <1>7, <1>8, <1>9, <1>10, <1>11 DEF Step

-----------------------------------------------------------------------------
(* What a transaction holds is whole tables.                                  *)
LEMMA Held ==
    ASSUME ShapeInv, PlaceInv, NEW c \in Copies, NEW T \in Table
    PROVE  Whole(T, tx[c][T]) /\ tx[c][T] \in {Empty, read[c][T]}
<1>1. PICK i \in 1..4 : T = Names[i]
  BY Four
<1>2. tx[c][T] \in {Empty, read[c][T]}
  BY <1>1 DEF PlaceInv
<1> QED
  BY <1>2, EmptyTable DEF ShapeInv

(* A request of the server is a sequence of its statements.                   *)
LEMMA Requests ==
    /\ \A q \in Requested : Statement(q)
    /\ \A j \in Jobs : j \in Seq(Requested)
<1>1. ASSUME NEW j \in Jobs PROVE j \in Seq(Requested)
  <2>1. j \in Seq({j[i] : i \in DOMAIN j}) /\ {j[i] : i \in DOMAIN j} \subseteq Requested
    BY MigrateAssumption DEF Requested
  <2>2. j = [i \in 1..Len(j) |-> j[i]] /\ Len(j) \in Nat /\ DOMAIN j = 1..Len(j)
    BY <2>1
  <2>3. \A i \in 1..Len(j) : j[i] \in Requested
    BY <2>1, <2>2
  <2> QED
    BY <2>2, <2>3
<1>2. ASSUME NEW q \in Requested PROVE Statement(q)
  <2>1. PICK j \in Jobs : \E i \in DOMAIN j : q = j[i]
    BY DEF Requested
  <2>2. \A i \in DOMAIN j : Statement(j[i])
    BY MigrateAssumption, Zenon
  <2> QED
    BY <2>1, <2>2, Zenon
<1> QED
  BY <1>1, <1>2

(* What the server does to the file: no user goes, no dead token comes back   *)
(* to life, and a new row has an id that was not used before.                 *)
Sourced ==
    /\ source' = [T \in Table |-> source'[T]] /\ \A T \in Table : Whole(T, source'[T])
    /\ DOMAIN source.users \subseteq DOMAIN source'.users
    /\ \A k \in DOMAIN source.refresh \cap DOMAIN source'.refresh :
          ~Usable(source.refresh[k]) => ~Usable(source'.refresh[k])
    /\ \A T \in Table : \A k \in DOMAIN source'[T] :
          k \in DOMAIN source[T] \/ (k \in NewIds(writing) /\ k \notin NewIds(writing'))

(* One statement of a request does no more than that.                         *)
LEMMA Executing ==
    ASSUME ShapeInv, FreshInv, Execute
    PROVE  /\ Sourced /\ writing' \in Seq(Requested) /\ NewIds(writing') \subseteq NewIds(writing)
           /\ \A i, l \in DOMAIN writing' :
                Insert(writing'[i]) /\ Insert(writing'[l]) /\ writing'[i].id = writing'[l].id => i = l
<1> DEFINE q == Head(writing)
           T0 == q.table
           t == source[T0]
           u == Lite!Method(t, q, 0).table
<1>1. writing \in Seq(Requested) /\ writing # <<>>
  BY DEF FreshInv, Execute
<1>2. /\ q = writing[1] /\ 1 \in DOMAIN writing /\ q \in Requested
      /\ Tail(writing) \in Seq(Requested) /\ Len(Tail(writing)) = Len(writing) - 1
      /\ \A i \in 1..Len(Tail(writing)) : Tail(writing)[i] = writing[i + 1]
      /\ Len(writing) \in Nat /\ DOMAIN writing = 1..Len(writing)
      /\ DOMAIN Tail(writing) = 1..Len(Tail(writing))
  BY <1>1, HeadTailProperties
<1>3. Statement(q) /\ T0 \in Table
  BY <1>2, Requests DEF Statement
<1>4. Becomes(T0, q, t, u)
  BY <1>3, Executed DEF ShapeInv
<1>5. source' = [source EXCEPT ![T0] = u]
  BY Zenon DEF Execute
<1>6. writing' = <<>> \/ writing' = Tail(writing)
  BY DEF Execute
<1> HIDE DEF u, t, T0, q
<1>7. /\ source' = [T \in Table |-> source'[T]]
      /\ source'[T0] = u /\ \A T \in Table \ {T0} : source'[T] = source[T]
  BY <1>3, <1>5 DEF ShapeInv
<1>8. /\ writing' \in Seq(Requested)
      /\ \A i \in DOMAIN writing' : i + 1 \in DOMAIN writing /\ writing'[i] = writing[i + 1] /\ i + 1 # 1 /\ i \in Nat
  <2>1. CASE writing' = <<>>
    <3>1. DOMAIN writing' = {} /\ writing' \in Seq(Requested)
      BY <2>1
    <3> QED
      BY <3>1
  <2>2. CASE writing' = Tail(writing)
    <3>1. \A i \in 1..Len(Tail(writing)) : i + 1 \in DOMAIN writing /\ i + 1 # 1 /\ i \in Nat
      BY <1>2
    <3> QED
      BY <1>2, <2>2, <3>1
  <2> QED
    BY <1>6, <2>1, <2>2
<1>9. NewIds(writing') \subseteq NewIds(writing)
  BY <1>8 DEF NewIds
<1>10. ASSUME NEW i \in DOMAIN writing', NEW l \in DOMAIN writing',
              Insert(writing'[i]), Insert(writing'[l]), writing'[i].id = writing'[l].id
       PROVE  i = l
  <2>1. i + 1 = l + 1
    BY <1>8, <1>10 DEF FreshInv
  <2> QED
    BY <1>8, <2>1
<1>11. ASSUME Insert(q) PROVE q.id \in NewIds(writing) /\ q.id \notin NewIds(writing')
  <2>1. q.id \in NewIds(writing)
    BY <1>2, <1>11 DEF NewIds
  <2>2. ASSUME NEW i \in DOMAIN writing', Insert(writing'[i]), writing'[i].id = q.id PROVE FALSE
    BY <1>2, <1>8, <1>11, <2>2 DEF FreshInv
  <2> QED
    BY <2>1, <2>2 DEF NewIds
<1>12. Whole(T0, u)
  BY <1>4 DEF Becomes
<1>13. \A T \in Table : Whole(T, source'[T])
  BY <1>7, <1>12 DEF ShapeInv
<1>14. DOMAIN source.users \subseteq DOMAIN source'.users
  <2>1. T0 = "users" => DOMAIN source.users \subseteq DOMAIN source'.users
    BY <1>4, <1>7 DEF Becomes, t
  <2> QED
    BY <1>7, <2>1, Four
<1>15. ASSUME NEW k \in DOMAIN source.refresh \cap DOMAIN source'.refresh, ~Usable(source.refresh[k])
       PROVE  ~Usable(source'.refresh[k])
  <2>1. CASE T0 = "refresh"
    BY <1>4, <1>7, <1>15, <2>1 DEF Becomes, t
  <2>2. CASE T0 # "refresh"
    BY <1>7, <1>15, <2>2, Four
  <2> QED
    BY <2>1, <2>2
<1>16. ASSUME NEW T \in Table, NEW k \in DOMAIN source'[T]
       PROVE  k \in DOMAIN source[T] \/ (k \in NewIds(writing) /\ k \notin NewIds(writing'))
  <2>1. CASE T = T0
    BY <1>4, <1>7, <1>11, <1>16, <2>1 DEF Becomes, t
  <2>2. CASE T # T0
    BY <1>7, <1>16, <2>2
  <2> QED
    BY <2>1, <2>2
<1>17. Sourced
  BY <1>7, <1>13, <1>14, <1>15, <1>16 DEF Sourced
<1> QED
  BY <1>8, <1>9, <1>10, <1>17

(* The steps of the server and of strangers leave the runs where they are.    *)
Idles ==
    /\ pc' = pc /\ at' = at /\ dry' = dry /\ surveyed' = surveyed /\ read' = read
    /\ tx' = tx /\ landed' = landed /\ dead' = dead
Serves ==
    /\ Idles /\ target' = target /\ strange' = strange /\ Sourced
    /\ quiet' \in [Copies -> BOOLEAN] /\ \A c \in Copies : quiet'[c] => quiet[c] /\ source' = source
Registers ==
    /\ Idles /\ source' = source /\ writing' = writing /\ jobs' = jobs /\ quiet' = quiet
    /\ target' = [T \in Table |-> target'[T]]
    /\ \A T \in Table \ {"users"} : target'[T] = target[T]
    /\ \E id \in Elsewhere :
          /\ strange' = strange \cup {id}
          /\ \/ target'.users = target.users
             \/ \E row : target'.users = Put(target.users, id, row)

(* These are all the steps there are.                                         *)
LEMMA Steps ==
    ASSUME ShapeInv, FreshInv, [Next]_vars
    PROVE  \/ \E c \in Copies : Moves(c) /\ Others(c) /\ Formed
           \/ Serves
           \/ Registers
<1>1. ASSUME NEW c \in Copies, Start(c) \/ Step(c) \/ Fail(c) PROVE Moves(c) /\ Others(c) /\ Formed
  BY <1>1, Moved
<1>2. ASSUME source' = source PROVE Sourced
  BY <1>2 DEF Sourced, ShapeInv
<1>3. CASE Accept
  <2>1. Idles /\ target' = target /\ strange' = strange /\ source' = source /\ quiet' = quiet
    BY <1>3 DEF Accept, Idles, other, copy
  <2> QED
    BY <1>2, <2>1 DEF Serves, ShapeInv
<1>4. CASE Execute
  <2>1. Idles /\ target' = target /\ strange' = strange
    BY <1>4 DEF Execute, Idles, other
  <2>2. quiet' = [c \in Copies |-> quiet[c] /\ source' = source]
    BY <1>4, Zenon DEF Execute
  <2>3. quiet' \in [Copies -> BOOLEAN] /\ \A c \in Copies : quiet'[c] => quiet[c] /\ source' = source
    BY <2>2 DEF ShapeInv
  <2> QED
    BY <1>4, <2>1, <2>3, Executing DEF Serves
<1>5. CASE Register
  <2>1. Idles /\ source' = source /\ writing' = writing /\ jobs' = jobs /\ quiet' = quiet
    BY <1>5 DEF Register, Idles, server, copy
  <2>2. PICK q \in Strangers :
          /\ target' = [target EXCEPT !.users = Post!UserInsert(target.users, q, 0).table]
          /\ strange' = strange \cup {q.id}
    BY <1>5, Zenon DEF Register
  <2> DEFINE u == Post!UserInsert(target.users, q, 0).table
  <2>3. u = target.users \/ \E row : u = Put(target.users, q.id, row)
    BY DEF Post!UserInsert, Post!Conflict, Post!Rows, Post!Reply, Post!Put, Put
  <2> HIDE DEF u
  <2>4. /\ target' = [T \in Table |-> target'[T]]
        /\ target'.users = u /\ \A T \in Table \ {"users"} : target'[T] = target[T]
    <3>1. target' = [target EXCEPT !["users"] = u]
      BY <2>2 DEF u
    <3>2. target = [T \in Table |-> target[T]] /\ "users" \in Table
      BY Four DEF ShapeInv
    <3> QED
      BY <3>1, <3>2
  <2>5. q.id \in Elsewhere
    BY DEF Elsewhere
  <2> QED
    BY <2>1, <2>2, <2>3, <2>4, <2>5 DEF Registers
<1>6. CASE UNCHANGED vars
  <2>1. Idles /\ target' = target /\ strange' = strange /\ source' = source /\ quiet' = quiet
    BY <1>6 DEF Idles, vars, server, other, copy
  <2> QED
    BY <1>2, <2>1 DEF Serves, ShapeInv
<1> QED
  BY <1>1, <1>3, <1>4, <1>5, <1>6 DEF Next

(* What a COMMIT leaves in a table of the target.                             *)
LEMMA Committed ==
    ASSUME ShapeInv, PlaceInv, NEW c \in Copies, Commits(c)
    PROVE  /\ target' = [T \in Table |-> target'[T]]
           /\ \A T \in Table :
                /\ DOMAIN target'[T] = DOMAIN target[T] \cup DOMAIN tx[c][T]
                /\ \A k \in DOMAIN tx[c][T] : target'[T][k] = tx[c][T][k]
                /\ \A k \in DOMAIN target[T] \ DOMAIN tx[c][T] : target'[T][k] = target[T][k]
                /\ target'[T] = [k \in DOMAIN target'[T] |-> target'[T][k]]
                /\ tx[c][T] = read[c][T]
<1> DEFINE row(T) == [k \in Sees(c, T) |->
                        IF k \in DOMAIN tx[c][T] THEN tx[c][T][k] ELSE target[T][k]]
<1>1. pc[c] = "end" /\ target' = [T \in Table |-> row(T)]
  BY DEF Commits
<1>2. \A T \in Table : target'[T] = row(T)
  BY <1>1
<1>3. target' = [T \in Table |-> target'[T]]
  BY <1>1
<1>4. ASSUME NEW T \in Table
      PROVE  /\ DOMAIN target'[T] = DOMAIN target[T] \cup DOMAIN tx[c][T]
             /\ \A k \in DOMAIN tx[c][T] : target'[T][k] = tx[c][T][k]
             /\ \A k \in DOMAIN target[T] \ DOMAIN tx[c][T] : target'[T][k] = target[T][k]
             /\ target'[T] = [k \in DOMAIN target'[T] |-> target'[T][k]]
  <2>1. target'[T] = row(T)
    BY <1>2
  <2> QED
    BY <2>1 DEF Sees
<1>5. ASSUME NEW T \in Table PROVE tx[c][T] = read[c][T]
  <2>1. PICK i \in 1..4 : T = Names[i]
    BY Four
  <2>2. Written(c, i)
    BY <1>1 DEF Written
  <2> QED
    BY <2>1, <2>2 DEF PlaceInv
<1> HIDE DEF row
<1> QED
  BY <1>3, <1>4, <1>5

(* Every step keeps every variable in shape.                                  *)
LEMMA ShapeKept ==
    ASSUME ShapeInv, PlaceInv, FreshInv, [Next]_vars
    PROVE  ShapeInv'
<1>1. ASSUME NEW c \in Copies, Moves(c), Others(c), Formed PROVE ShapeInv'
  <2>1. source' = source /\ strange' = strange /\ dry' = dry
    BY <1>1 DEF Others
  <2>2. target' = [T \in Table |-> target'[T]] /\ \A T \in Table : IsFiniteSet(DOMAIN target'[T])
    <3>1. CASE target' = target
      BY <3>1 DEF ShapeInv
    <3>2. CASE Commits(c)
      <4>1. \A T \in Table : IsFiniteSet(DOMAIN tx[c][T]) /\ IsFiniteSet(DOMAIN target[T])
        BY Held DEF Whole, ShapeInv
      <4> QED
        <5>1. \A T \in Table : IsFiniteSet(DOMAIN target[T] \cup DOMAIN tx[c][T])
          BY <4>1, FS_Union
        <5> QED
          BY <3>2, <5>1, Committed
    <3> QED
      BY <1>1, <3>1, <3>2 DEF Moves, Before, KeepsRows, Starts, Surveys, Begins, Looks, Reads, Writes,
         Verifies, RollsBack, Aborts
  <2>3. ASSUME NEW d \in Copies, NEW T \in Table PROVE Whole(T, read'[d][T])
    <3>1. CASE read'[d] = read[d]
      BY <3>1 DEF ShapeInv
    <3>2. CASE d = c /\ Reads(c)
      BY <3>2 DEF Reads, ShapeInv
    <3>3. CASE d = c /\ Aborts(c)
      BY <3>3, EmptyTable DEF Aborts, NoRows
    <3> QED
      BY <1>1, <3>1, <3>2, <3>3 DEF Moves, Before, KeepsRows, Starts, Surveys, Begins, Looks, Writes,
         Verifies, RollsBack, Commits, Others
  <2> QED
    BY <1>1, <2>1, <2>2, <2>3 DEF ShapeInv, Formed
<1>2. CASE Serves
  BY <1>2 DEF Serves, Idles, Sourced, ShapeInv
<1>3. CASE Registers
  <2>1. Idles /\ source' = source /\ quiet' = quiet /\ target' = [T \in Table |-> target'[T]]
    BY <1>3 DEF Registers
  <2>2. PICK id \in Elsewhere :
          /\ strange' = strange \cup {id}
          /\ target'.users = target.users \/ \E row : target'.users = Put(target.users, id, row)
    BY <1>3 DEF Registers
  <2>3. IsFiniteSet(DOMAIN target.users) /\ IsFiniteSet(DOMAIN target.users \cup {id})
    BY FS_AddElement, Four DEF ShapeInv
  <2>4. IsFiniteSet(DOMAIN target'.users)
    BY <2>2, <2>3 DEF Put
  <2>5. \A T \in Table : IsFiniteSet(DOMAIN target'[T])
    BY <1>3, <2>4 DEF Registers, ShapeInv
  <2>6. strange' \subseteq Elsewhere
    BY <2>2 DEF ShapeInv
  <2> QED
    BY <2>1, <2>5, <2>6 DEF Idles, ShapeInv
<1> QED
  BY <1>1, <1>2, <1>3, Steps

(* How far a run is after each of its moves.                                  *)
LEMMA Progress ==
    ASSUME ShapeInv, PlaceInv, NEW c \in Copies, NEW i \in 1..4
    PROVE  /\ Before(c) => ~Written(c, i) /\ ~Written(c, i)' /\ ~HasRead(c, i) /\ ~HasRead(c, i)'
           /\ Reads(c) => /\ Written(c, i)' <=> Written(c, i)
                          /\ HasRead(c, i)' <=> HasRead(c, i) \/ i = at[c]
                          /\ i = at[c] => ~Written(c, i) /\ ~HasRead(c, i)
           /\ Writes(c) => /\ Written(c, i)' <=> Written(c, i) \/ i = at[c]
                           /\ HasRead(c, i)' <=> HasRead(c, i)
                           /\ i = at[c] => ~Written(c, i) /\ HasRead(c, i)
           /\ Verifies(c) => Written(c, i) /\ Written(c, i)' /\ HasRead(c, i) /\ HasRead(c, i)'
           /\ RollsBack(c) \/ Commits(c) =>
                 Written(c, i) /\ ~Written(c, i)' /\ HasRead(c, i) /\ HasRead(c, i)'
           /\ Aborts(c) => ~Written(c, i)' /\ ~HasRead(c, i)'
<1>1. landed[c] => pc[c] \in {"done", "failed"}
  BY DEF PlaceInv
<1>2. at[c] \in 1..4
  BY DEF ShapeInv
<1>3. Before(c) => ~Written(c, i) /\ ~Written(c, i)' /\ ~HasRead(c, i) /\ ~HasRead(c, i)'
  <2>1. CASE pc'[c] # "copy"
    BY <1>1, <2>1 DEF Before, Starts, Surveys, Begins, Looks, KeepsRows, Written, HasRead
  <2>2. CASE pc'[c] = "copy" /\ Before(c)
    <3>1. at'[c] = 1 /\ landed'[c] = landed[c] /\ pc[c] = "empty"
      BY <2>2 DEF Before, Starts, Surveys, Begins, Looks, KeepsRows
    <3>2. ~(i < 1)
      OBVIOUS
    <3> QED
      BY <1>1, <2>2, <3>1, <3>2 DEF Written, HasRead
  <2> QED
    BY <2>1, <2>2
<1>4. Reads(c) => /\ Written(c, i)' <=> Written(c, i)
                  /\ HasRead(c, i)' <=> HasRead(c, i) \/ i = at[c]
                  /\ i = at[c] => ~Written(c, i) /\ ~HasRead(c, i)
  <2>1. (i <= at[c] <=> i < at[c] \/ i = at[c]) /\ ~(at[c] < at[c])
    BY <1>2
  <2>2. Reads(c) => pc[c] = "copy" /\ pc'[c] = "write" /\ at'[c] = at[c] /\ landed'[c] = landed[c]
    BY DEF Reads
  <2> QED
    BY <1>1, <2>1, <2>2 DEF Written, HasRead
<1>5. ASSUME Writes(c)
      PROVE  /\ Written(c, i)' <=> Written(c, i) \/ i = at[c]
             /\ HasRead(c, i)' <=> HasRead(c, i)
             /\ i = at[c] => ~Written(c, i) /\ HasRead(c, i)
  <2>1. pc[c] = "write" /\ landed'[c] = landed[c] /\ ~landed[c]
    BY <1>1, <1>5 DEF Writes
  <2>2. CASE at[c] < 4 /\ pc'[c] = "copy" /\ at'[c] = at[c] + 1
    <3>1. /\ (i < at[c] + 1 <=> i < at[c] \/ i = at[c]) /\ (i <= at[c] <=> i < at[c] + 1)
          /\ ~(at[c] < at[c]) /\ at[c] <= at[c]
      BY <1>2
    <3> QED
      BY <2>1, <2>2, <3>1 DEF Written, HasRead
  <2>3. CASE at[c] = 4 /\ pc'[c] = "verify" /\ at'[c] = 1
    <3>1. (i < at[c] \/ i = at[c]) /\ i <= at[c] /\ ~(at[c] < at[c])
      BY <2>3
    <3> QED
      BY <2>1, <2>3, <3>1 DEF Written, HasRead
  <2> QED
    BY <1>5, <2>2, <2>3 DEF Writes
<1>6. Verifies(c) => Written(c, i) /\ Written(c, i)' /\ HasRead(c, i) /\ HasRead(c, i)'
  BY DEF Verifies, Written, HasRead
<1>7. RollsBack(c) \/ Commits(c) => Written(c, i) /\ ~Written(c, i)' /\ HasRead(c, i) /\ HasRead(c, i)'
  BY DEF RollsBack, Commits, Written, HasRead
<1>8. Aborts(c) => ~Written(c, i)' /\ ~HasRead(c, i)'
  BY <1>1 DEF Aborts, Written, HasRead
<1> QED
  BY <1>3, <1>4, <1>5, <1>6, <1>7, <1>8

(* The other runs stay where they are.                                        *)
LEMMA Elsewise ==
    ASSUME NEW c \in Copies, Others(c), NEW d \in Copies \ {c}, NEW i \in 1..4
    PROVE  (Written(d, i)' <=> Written(d, i)) /\ (HasRead(d, i)' <=> HasRead(d, i))
BY DEF Others, Written, HasRead

(* Every step keeps what has been read and written in order.                  *)
LEMMA PlaceKept ==
    ASSUME ShapeInv, PlaceInv, FreshInv, [Next]_vars
    PROVE  PlaceInv'
<1>1. ASSUME NEW c \in Copies, Moves(c), Others(c), Formed PROVE PlaceInv'
  <2>1. /\ at'[c] > 1 => pc'[c] \in {"empty", "copy", "write", "verify"}
        /\ landed'[c] => pc'[c] \in {"done", "failed"}
        /\ pc'[c] = "done" /\ ~dry'[c] => landed'[c]
    <3>1. landed[c] => pc[c] \in {"done", "failed"}
      BY DEF PlaceInv
    <3>2. ~(1 > 1) /\ dry' = dry /\ (at[c] > 1 => pc[c] \in {"empty", "copy", "write", "verify"})
      BY <1>1 DEF Others, PlaceInv
    <3>3. CASE Before(c)
      BY <3>1, <3>2, <3>3 DEF Before, Starts, Surveys, Begins, Looks, KeepsRows
    <3>4. CASE Reads(c) \/ Writes(c) \/ Verifies(c)
      BY <3>1, <3>2, <3>4 DEF Reads, Writes, Verifies, KeepsRows
    <3>5. CASE RollsBack(c) \/ Commits(c) \/ Aborts(c)
      BY <3>1, <3>2, <3>5 DEF RollsBack, Commits, Aborts
    <3> QED
      BY <1>1, <3>3, <3>4, <3>5 DEF Moves
  <2>2. ASSUME NEW i \in 1..4
        PROVE  /\ Written(c, i)' => tx'[c][Names[i]] = read'[c][Names[i]]
               /\ ~Written(c, i)' => tx'[c][Names[i]] = Empty
               /\ ~HasRead(c, i)' => read'[c][Names[i]] = Empty
    <3>1. /\ Written(c, i) => tx[c][Names[i]] = read[c][Names[i]]
          /\ ~Written(c, i) => tx[c][Names[i]] = Empty
          /\ ~HasRead(c, i) => read[c][Names[i]] = Empty
      BY DEF PlaceInv
    <3>2. Names[i] \in Table /\ NoRows[Names[i]] = Empty
      BY Four DEF NoRows
    <3>3. at[c] \in 1..4 /\ (Names[i] = Here(c) <=> i = at[c])
      BY Four DEF Here, ShapeInv
    <3>4. CASE Before(c) \/ Verifies(c)
      <4>1. tx'[c] = tx[c] /\ read'[c] = read[c]
        BY <3>4 DEF Before, Starts, Surveys, Begins, Looks, Verifies, KeepsRows
      <4> QED
        BY <3>1, <3>4, <4>1, Progress
    <3>5. CASE Reads(c)
      <4>1. tx'[c] = tx[c] /\ read'[c][Names[i]] = IF i = at[c] THEN source[Names[i]] ELSE read[c][Names[i]]
        BY <3>2, <3>3, <3>5 DEF Reads
      <4> QED
        BY <3>1, <3>5, <4>1, Progress
    <3>6. CASE Writes(c)
      <4>1. read'[c] = read[c] /\ tx'[c][Names[i]] = IF i = at[c] THEN read[c][Names[i]] ELSE tx[c][Names[i]]
        BY <3>2, <3>3, <3>6 DEF Writes
      <4> QED
        BY <3>1, <3>6, <4>1, Progress
    <3>7. CASE RollsBack(c) \/ Commits(c)
      <4>1. tx'[c] = NoRows
        BY <3>7 DEF RollsBack, Commits
      <4> QED
        BY <3>2, <3>7, <4>1, Progress
    <3>8. CASE Aborts(c)
      <4>1. tx'[c] = NoRows /\ read'[c] = NoRows
        BY <3>8 DEF Aborts
      <4> QED
        BY <3>2, <3>8, <4>1, Progress
    <3> QED
      BY <1>1, <3>4, <3>5, <3>6, <3>7, <3>8 DEF Moves
  <2>3. ASSUME NEW d \in Copies \ {c}
        PROVE  /\ at'[d] > 1 => pc'[d] \in {"empty", "copy", "write", "verify"}
               /\ landed'[d] => pc'[d] \in {"done", "failed"}
               /\ pc'[d] = "done" /\ ~dry'[d] => landed'[d]
               /\ \A i \in 1..4 :
                    /\ Written(d, i)' => tx'[d][Names[i]] = read'[d][Names[i]]
                    /\ ~Written(d, i)' => tx'[d][Names[i]] = Empty
                    /\ ~HasRead(d, i)' => read'[d][Names[i]] = Empty
    BY <1>1, Elsewise DEF Others, PlaceInv
  <2> QED
    BY <2>1, <2>2, <2>3 DEF PlaceInv
<1>2. CASE Serves \/ Registers
  <2>1. Idles
    BY <1>2 DEF Serves, Registers
  <2> QED
    BY <2>1 DEF Idles, PlaceInv, Written, HasRead
<1> QED
  BY <1>1, <1>2, Steps

(* Every step keeps the keys of transactions and target apart.                *)
LEMMA KeysKept ==
    ASSUME ShapeInv, PlaceInv, KeysInv, FreshInv, [Next]_vars
    PROVE  KeysInv'
<1>1. ASSUME NEW c \in Copies, Moves(c), Others(c), Formed PROVE KeysInv'
  <2>1. \A T \in Table : NoRows[T] = Empty /\ DOMAIN NoRows[T] = {}
    BY EmptyTable DEF NoRows
  <2>2. \A d \in Copies \ {c} : tx'[d] = tx[d]
    BY <1>1 DEF Others
  <2>3. CASE Writes(c)
    <3>1. Here(c) \in Table
      BY Four DEF Here, ShapeInv
    <3>2. \A d \in Copies \ {c} : DOMAIN read[c][Here(c)] \cap DOMAIN tx[d][Here(c)] = {}
      BY <2>3 DEF Writes, Blocked, Clash
    <3>3. DOMAIN read[c][Here(c)] \cap DOMAIN target[Here(c)] = {}
      BY <2>3 DEF Writes, Refused, Clash
    <3>4. \A T \in Table : tx'[c][T] = IF T = Here(c) THEN read[c][T] ELSE tx[c][T]
      BY <2>3 DEF Writes
    <3>5. target' = target
      BY <2>3 DEF Writes
    <3> QED
      BY <2>2, <3>2, <3>3, <3>4, <3>5 DEF KeysInv
  <2>4. CASE Commits(c)
    <3>1. tx'[c] = NoRows
      BY <2>4 DEF Commits
    <3>2. \A T \in Table : DOMAIN target'[T] = DOMAIN target[T] \cup DOMAIN tx[c][T]
      BY <2>4, Committed
    <3> QED
      BY <2>1, <2>2, <3>1, <3>2 DEF KeysInv
  <2>5. CASE RollsBack(c) \/ Aborts(c)
    <3>1. tx'[c] = NoRows /\ target' = target
      BY <2>5 DEF RollsBack, Aborts
    <3> QED
      BY <2>1, <2>2, <3>1 DEF KeysInv
  <2>6. CASE Before(c) \/ Reads(c) \/ Verifies(c)
    <3>1. tx'[c] = tx[c] /\ target' = target
      BY <2>6 DEF Before, Starts, Surveys, Begins, Looks, Verifies, Reads, KeepsRows
    <3> QED
      BY <2>2, <3>1 DEF KeysInv
  <2> QED
    BY <1>1, <2>3, <2>4, <2>5, <2>6 DEF Moves
<1>2. CASE Serves
  BY <1>2 DEF Serves, Idles, KeysInv
<1>3. CASE Registers
  <2>1. tx' = tx /\ \A T \in Table \ {"users"} : target'[T] = target[T]
    BY <1>3 DEF Registers, Idles
  <2>2. PICK id \in Elsewhere : DOMAIN target'.users \subseteq DOMAIN target.users \cup {id}
    BY <1>3 DEF Registers, Put
  <2>3. \A c \in Copies, T \in Table : id \notin DOMAIN tx[c][T]
    BY <2>2, Held DEF Whole
  <2>4. \A c \in Copies, T \in Table : DOMAIN tx'[c][T] \cap DOMAIN target'[T] = {}
    BY <2>1, <2>2, <2>3 DEF KeysInv
  <2> QED
    BY <2>1, <2>4 DEF KeysInv
<1> QED
  BY <1>1, <1>2, <1>3, Steps

(* Every step keeps the ids that are still to come unused.                    *)
LEMMA FreshKept ==
    ASSUME ShapeInv, FreshInv, [Next]_vars
    PROVE  FreshInv'
<1>1. CASE Accept
  <2>1. writing = <<>> /\ source' = source /\ dead' = dead
    BY <1>1 DEF Accept, copy
  <2>2. PICK j \in jobs : writing' = j /\ jobs' = jobs \ {j}
    BY <1>1 DEF Accept
  <2>3. j \in Jobs /\ jobs \subseteq Jobs
    BY DEF FreshInv
  <2>4. /\ j \in Seq(Requested)
        /\ \A i, l \in DOMAIN j : Insert(j[i]) /\ Insert(j[l]) /\ j[i].id = j[l].id => i = l
        /\ \A l \in jobs' : NewIds(l) \cap NewIds(j) = {}
    <3>1. j \in Seq(Requested)
      BY <2>3, Requests
    <3>2. \A i, l \in DOMAIN j : Insert(j[i]) /\ Insert(j[l]) /\ j[i].id = j[l].id => i = l
      BY <2>3, MigrateAssumption, Zenon
    <3>3. \A l \in Jobs : l # j => NewIds(l) \cap NewIds(j) = {}
      BY <2>3, MigrateAssumption, Zenon
    <3> QED
      BY <2>2, <2>3, <3>1, <3>2, <3>3
  <2>5. \A l \in jobs' \cup {writing'} : l \in jobs
    BY <2>2
  <2> QED
    BY <2>1, <2>2, <2>3, <2>4, <2>5 DEF FreshInv
<1>2. CASE Execute
  <2>1. jobs' = jobs /\ dead' = dead
    BY <1>2 DEF Execute
  <2>2. /\ Sourced /\ writing' \in Seq(Requested) /\ NewIds(writing') \subseteq NewIds(writing)
        /\ \A i, l \in DOMAIN writing' :
              Insert(writing'[i]) /\ Insert(writing'[l]) /\ writing'[i].id = writing'[l].id => i = l
    BY <1>2, Executing
  <2>3. ASSUME NEW j \in jobs' \cup {writing'}, NEW T \in Table, NEW k \in DOMAIN source'[T] PROVE k \notin NewIds(j)
    <3>1. k \in DOMAIN source[T] \/ (k \in NewIds(writing) /\ k \notin NewIds(writing'))
      BY <2>2, <2>3 DEF Sourced
    <3>2. CASE j = writing'
      BY <2>2, <3>1, <3>2 DEF FreshInv
    <3>3. CASE j \in jobs
      BY <3>1, <3>3 DEF FreshInv
    <3> QED
      BY <2>1, <3>2, <3>3
  <2>4. \A j \in jobs' \cup {writing'} : \A c \in Copies : NewIds(j) \cap dead[c] = {}
    BY <2>1, <2>2 DEF FreshInv
  <2>5. \A j \in jobs' : NewIds(j) \cap NewIds(writing') = {}
    BY <2>1, <2>2 DEF FreshInv
  <2> QED
    BY <2>1, <2>2, <2>3, <2>4, <2>5 DEF FreshInv
<1>3. ASSUME NEW c \in Copies, Moves(c), Others(c), Formed PROVE FreshInv'
  <2>1. source' = source /\ writing' = writing /\ jobs' = jobs /\ \A d \in Copies \ {c} : dead'[d] = dead[d]
    BY <1>3 DEF Others
  <2>2. dead'[c] \subseteq dead[c] \cup DOMAIN source.refresh
    BY <1>3 DEF Moves, Before, KeepsNotes, Starts, Surveys, Begins, Looks, Reads, Writes, Verifies,
       RollsBack, Commits, Aborts
  <2>3. "refresh" \in Table
    BY Four
  <2>4. \A j \in jobs' \cup {writing'} : \A d \in Copies : NewIds(j) \cap dead'[d] = {}
    BY <2>1, <2>2, <2>3 DEF FreshInv
  <2> QED
    BY <2>1, <2>4 DEF FreshInv
<1>4. CASE Register \/ UNCHANGED vars
  <2>1. source' = source /\ writing' = writing /\ jobs' = jobs /\ dead' = dead
    BY <1>4 DEF Register, vars, server, copy
  <2> QED
    BY <2>1 DEF FreshInv
<1> QED
  BY <1>1, <1>2, <1>3, <1>4, Moved DEF Next

(* Every step keeps the users that were read there, and the readings nested.  *)
LEMMA UsersKept ==
    ASSUME ShapeInv, FreshInv, UsersInv, [Next]_vars
    PROVE  UsersInv'
<1>1. ASSUME NEW c \in Copies, Moves(c), Others(c), Formed PROVE UsersInv'
  <2>1. source' = source /\ \A d \in Copies \ {c} : read'[d] = read[d]
    BY <1>1 DEF Others
  <2>2. \/ DOMAIN read'[c].users = DOMAIN read[c].users
        \/ DOMAIN read'[c].users = DOMAIN source.users
        \/ DOMAIN read'[c].users = {}
    <3>1. CASE Reads(c)
      BY <3>1, Four DEF Reads
    <3>2. CASE Aborts(c)
      BY <3>2, EmptyTable, Four DEF Aborts, NoRows
    <3> QED
      BY <1>1, <3>1, <3>2 DEF Moves, Before, KeepsRows, Starts, Surveys, Begins, Looks, Writes,
         Verifies, RollsBack, Commits
  <2>3. DOMAIN read'[c].users \subseteq DOMAIN source.users
    BY <2>2 DEF UsersInv
  <2>4. ASSUME NEW d \in Copies \ {c}
        PROVE  \/ DOMAIN read'[c].users \subseteq DOMAIN read'[d].users
               \/ DOMAIN read'[d].users \subseteq DOMAIN read'[c].users
    BY <2>1, <2>2 DEF UsersInv
  <2> QED
    BY <2>1, <2>3, <2>4 DEF UsersInv
<1>2. CASE Serves
  BY <1>2 DEF Serves, Idles, Sourced, UsersInv
<1>3. CASE Registers
  BY <1>3 DEF Registers, Idles, UsersInv
<1> QED
  BY <1>1, <1>2, <1>3, Steps

(* A row that has its user keeps it where more users are seen.                *)
LEMMA MoreUsers ==
    ASSUME NEW T, NEW r, NEW U, NEW V, U \subseteq V, ~Orphan(T, r, U)
    PROVE  ~Orphan(T, r, V)
<1>1. CASE T = "users"
  BY <1>1 DEF Orphan
<1>2. CASE T = "notes"
  BY <1>2 DEF Orphan
<1>3. CASE T \notin {"users", "notes"}
  BY <1>3 DEF Orphan
<1> QED
  BY <1>1, <1>2, <1>3

(* Every step keeps the user of every row in a transaction.                   *)
LEMMA OwnersKept ==
    ASSUME ShapeInv, PlaceInv, FreshInv, OwnersInv, [Next]_vars
    PROVE  OwnersInv'
<1>1. ASSUME NEW d \in Copies, tx'[d] = tx[d], DOMAIN target.users \subseteq DOMAIN target'.users
      PROVE  \A T \in Table : \A k \in DOMAIN tx'[d][T] : ~Orphan(T, tx'[d][T][k], Sees(d, "users")')
  <2>1. Sees(d, "users") \subseteq Sees(d, "users")'
    BY <1>1 DEF Sees
  <2> QED
    BY <1>1, <2>1, MoreUsers DEF OwnersInv
<1>2. ASSUME NEW d \in Copies, tx'[d] = NoRows
      PROVE  \A T \in Table : \A k \in DOMAIN tx'[d][T] : ~Orphan(T, tx'[d][T][k], Sees(d, "users")')
  BY <1>2, EmptyTable DEF NoRows
<1>3. ASSUME NEW c \in Copies, Moves(c), Others(c), Formed PROVE OwnersInv'
  <2>1. DOMAIN target.users \subseteq DOMAIN target'.users
    <3>1. CASE Commits(c)
      <4>1. "users" \in Table
        BY Four
      <4>2. DOMAIN target'.users = DOMAIN target.users \cup DOMAIN tx[c].users
        BY <3>1, <4>1, Committed
      <4> QED
        BY <4>2
    <3> QED
      BY <1>3, <3>1 DEF Moves, Before, KeepsRows, Starts, Surveys, Begins, Looks, Reads, Writes,
         Verifies, RollsBack, Aborts
  <2>2. \A d \in Copies \ {c} : tx'[d] = tx[d]
    BY <1>3 DEF Others
  <2>3. CASE Writes(c)
    <3>1. /\ target' = target
          /\ \A T \in Table : tx'[c][T] = IF T = Here(c) THEN read[c][T] ELSE tx[c][T]
      BY <2>3 DEF Writes
    <3>2. \A k \in DOMAIN read[c][Here(c)] : ~Orphan(Here(c), read[c][Here(c)][k], Sees(c, "users"))
      BY <2>3 DEF Writes, Refused
    <3>3. Sees(c, "users") \subseteq Sees(c, "users")'
      <4>1. CASE Here(c) = "users"
        <5>1. tx[c].users = Empty
          <6>1. at[c] \in 1..4 /\ Here(c) = Names[at[c]]
            BY DEF Here, ShapeInv
          <6>2. ~Written(c, at[c])
            BY <2>3, <6>1, Progress
          <6> QED
            BY <4>1, <6>1, <6>2 DEF PlaceInv
        <5> QED
          BY <3>1, <5>1, EmptyTable DEF Sees
      <4>2. CASE Here(c) # "users"
        BY <3>1, <4>2, Four DEF Sees
      <4> QED
        BY <4>1, <4>2
    <3>4. ASSUME NEW T \in Table, NEW k \in DOMAIN tx'[c][T]
          PROVE  ~Orphan(T, tx'[c][T][k], Sees(c, "users"))
      BY <3>1, <3>2, <3>4 DEF OwnersInv
    <3>5. \A T \in Table : \A k \in DOMAIN tx'[c][T] : ~Orphan(T, tx'[c][T][k], Sees(c, "users")')
      BY <3>3, <3>4, MoreUsers
    <3> QED
      BY <1>1, <2>1, <2>2, <3>5 DEF OwnersInv
  <2>4. CASE RollsBack(c) \/ Commits(c) \/ Aborts(c)
    <3>1. tx'[c] = NoRows
      BY <2>4 DEF RollsBack, Commits, Aborts
    <3> QED
      BY <1>1, <1>2, <2>1, <2>2, <3>1 DEF OwnersInv
  <2>5. CASE Before(c) \/ Reads(c) \/ Verifies(c)
    <3>1. tx'[c] = tx[c]
      BY <2>5 DEF Before, Starts, Surveys, Begins, Looks, Verifies, Reads, KeepsRows
    <3> QED
      BY <1>1, <2>1, <2>2, <3>1 DEF OwnersInv
  <2> QED
    BY <1>3, <2>3, <2>4, <2>5 DEF Moves
<1>4. CASE Serves \/ Registers
  <2>1. tx' = tx /\ DOMAIN target.users \subseteq DOMAIN target'.users
    BY <1>4 DEF Serves, Registers, Idles, Put
  <2> QED
    BY <1>1, <2>1 DEF OwnersInv
<1> QED
  BY <1>3, <1>4, Steps

(* Every step keeps a run that found no users, and has counted them, empty.   *)
LEMMA NothingKept ==
    ASSUME ShapeInv, PlaceInv, FreshInv, OwnersInv, NothingInv, [Next]_vars
    PROVE  NothingInv'
<1>1. ASSUME NEW c \in Copies, Moves(c), Others(c), Formed PROVE NothingInv'
  <2>1. ASSUME NEW d \in Copies \ {c}, Counted(d)', read'[d].users = Empty
        PROVE  \A T \in Table : read'[d][T] = Empty
    BY <1>1, <2>1 DEF Others, Counted, NothingInv
  <2>2. ASSUME Counted(c)', read'[c].users = Empty
        PROVE  \A T \in Table : read'[c][T] = Empty
    <3>1. read'[c] = read[c] /\ (Counted(c) \/ (Verifies(c) /\ at[c] = 1))
      <4>1. landed[c] => pc[c] \in {"done", "failed"}
        BY DEF PlaceInv
      <4>2. CASE Before(c) \/ Reads(c) \/ Aborts(c)
        BY <2>2, <4>1, <4>2 DEF Before, Starts, Surveys, Begins, Looks, Reads, Aborts, KeepsRows, Counted
      <4>3. CASE Writes(c)
        <5>1. pc[c] = "write" /\ ~landed[c] /\ landed'[c] = landed[c]
          BY <4>1, <4>3 DEF Writes
        <5>2. pc'[c] = "copy" \/ (pc'[c] = "verify" /\ at'[c] = 1)
          BY <4>3 DEF Writes
        <5>3. ~(at'[c] = 1 /\ at'[c] > 1)
          OBVIOUS
        <5> QED
          BY <2>2, <5>1, <5>2, <5>3, Zenon DEF Counted
      <4>4. CASE Verifies(c)
        <5>1. at[c] = 1 \/ at[c] > 1
          <6>1. at[c] \in 1..4
            BY DEF ShapeInv
          <6>2. \A i \in 1..4 : i = 1 \/ i > 1
            OBVIOUS
          <6> QED
            BY <6>1, <6>2, Zenon
        <5> QED
          BY <4>4, <5>1 DEF Verifies, KeepsRows, Counted
      <4>5. CASE RollsBack(c) \/ Commits(c)
        BY <4>5 DEF RollsBack, Commits, Counted
      <4> QED
        BY <1>1, <4>2, <4>3, <4>4, <4>5 DEF Moves
    <3>2. CASE Counted(c)
      BY <2>2, <3>1, <3>2 DEF NothingInv
    <3>3. CASE Verifies(c) /\ at[c] = 1
      <4>1. Here(c) = "users" /\ DOMAIN read[c].users = {}
        BY <2>2, <3>1, <3>3, Four, EmptyTable DEF Here
      <4>2. Cardinality(Sees(c, "users")) = 0
        BY <3>3, <4>1, FS_EmptySet DEF Verifies
      <4>3. IsFiniteSet(Sees(c, "users"))
        <5>1. IsFiniteSet(DOMAIN target.users) /\ IsFiniteSet(DOMAIN tx[c].users)
          BY Held, Four DEF ShapeInv, Whole
        <5> QED
          BY <5>1, FS_Union DEF Sees
      <4>4. Sees(c, "users") = {}
        BY <4>2, <4>3, FS_EmptySet
      <4>5. ASSUME NEW T \in Table PROVE read[c][T] = Empty
        <5>1. tx[c][T] = read[c][T]
          BY <3>3, Four DEF Verifies, PlaceInv, Written
        <5>2. CASE T = "users"
          BY <2>2, <3>1, <5>2
        <5>3. CASE T # "users"
          <6>1. \A k \in DOMAIN tx[c][T] : FALSE
            <7>1. \A r : Orphan(T, r, {})
              <8>1. CASE T = "notes"
                BY <8>1 DEF Orphan
              <8>2. CASE T \notin {"users", "notes"}
                BY <8>2 DEF Orphan
              <8> QED
                BY <5>3, <8>1, <8>2
            <7>2. SUFFICES ASSUME NEW k \in DOMAIN tx[c][T] PROVE FALSE
              OBVIOUS
            <7>3. ~Orphan(T, tx[c][T][k], Sees(c, "users"))
              BY DEF OwnersInv
            <7>4. Orphan(T, tx[c][T][k], {})
              BY <7>1, Zenon
            <7> QED
              BY <4>4, <7>3, <7>4
          <6>2. Whole(T, read[c][T])
            BY DEF ShapeInv
          <6> QED
            BY <5>1, <6>1, <6>2, EmptyTable
        <5> QED
          BY <5>2, <5>3
      <4> QED
        BY <3>1, <4>5
    <3> QED
      BY <3>1, <3>2, <3>3
  <2> QED
    BY <2>1, <2>2 DEF NothingInv
<1>2. CASE Serves \/ Registers
  <2>1. Idles
    BY <1>2 DEF Serves, Registers
  <2> QED
    BY <2>1 DEF Idles, NothingInv, Counted
<1> QED
  BY <1>1, <1>2, Steps

(* What a run has put into the target bears nobody else's id.                 *)
LEMMA OwnIds ==
    ASSUME ShapeInv, LandedInv, NEW T \in Table
    PROVE  DOMAIN Own(T) \cap Elsewhere = {} /\ DOMAIN Own(T) = DOMAIN target[T] \ strange
<1>1. DOMAIN Own(T) = DOMAIN target[T] \ strange
  BY DEF Own
<1>2. Own(T) = Empty \/ \E c \in Copies : Own(T) = read[c][T]
  BY Zenon DEF LandedInv
<1>3. DOMAIN Own(T) \cap Elsewhere = {}
  BY <1>2, EmptyTable DEF ShapeInv, Whole
<1> QED
  BY <1>1, <1>3

(* A COMMIT of a run that read something finds nothing of the source in the   *)
(* target: two such runs would have met in a user.                            *)
LEMMA FirstCommit ==
    ASSUME ShapeInv, PlaceInv, KeysInv, UsersInv, LandedInv,
           NEW c \in Copies, Commits(c), read[c].users # Empty
    PROVE  /\ ~\E d \in Copies : landed[d] /\ read[d].users # Empty
           /\ \A T \in Table : Own(T) = Empty
<1>1. ASSUME NEW d \in Copies, landed[d], read[d].users # Empty PROVE FALSE
  <2>1. "users" \in Table /\ Own("users") = read[d].users
    BY <1>1, Four DEF LandedInv
  <2>2. DOMAIN read[c].users # {} /\ DOMAIN read[d].users # {}
    BY <1>1, <2>1, EmptyTable DEF ShapeInv
  <2>3. PICK k : k \in DOMAIN read[c].users /\ k \in DOMAIN read[d].users
    BY <2>2 DEF UsersInv
  <2>4. k \in DOMAIN target.users
    BY <2>1, <2>3, OwnIds
  <2>5. tx[c].users = read[c].users
    BY <2>1, Committed
  <2> QED
    BY <2>1, <2>3, <2>4, <2>5 DEF KeysInv
<1> QED
  BY <1>1 DEF LandedInv

(* Every step keeps the target empty or as one run has left it.               *)
LEMMA LandedKept ==
    ASSUME ShapeInv, PlaceInv, KeysInv, FreshInv, UsersInv, NothingInv, LandedInv, [Next]_vars
    PROVE  LandedInv'
<1>1. ASSUME \A T \in Table : Own(T)' = Own(T),
             \A d \in Copies : landed'[d] = landed[d] /\ (landed[d] => read'[d] = read[d])
      PROVE  LandedInv'
  BY <1>1 DEF LandedInv
<1>2. ASSUME NEW c \in Copies, Moves(c), Others(c), Formed PROVE LandedInv'
  <2>1. /\ strange' = strange
        /\ \A d \in Copies \ {c} : landed'[d] = landed[d] /\ read'[d] = read[d]
    BY <1>2 DEF Others
  <2>2. CASE Commits(c)
    <3>1. /\ read'[c] = read[c] /\ landed'[c] = TRUE /\ ~landed[c]
          /\ Counted(c)
      BY <2>2 DEF Commits, Counted, PlaceInv
    <3>2. CASE read[c].users = Empty
      <4>1. ASSUME NEW T \in Table PROVE Own(T)' = Own(T)
        <5>1. /\ DOMAIN target'[T] = DOMAIN target[T] \cup DOMAIN tx[c][T]
              /\ \A k \in DOMAIN target[T] \ DOMAIN tx[c][T] : target'[T][k] = target[T][k]
              /\ tx[c][T] = read[c][T]
          BY <2>2, Committed, Zenon
        <5>2. DOMAIN tx[c][T] = {}
          BY <3>1, <3>2, <5>1, EmptyTable DEF NothingInv
        <5>3. DOMAIN target'[T] = DOMAIN target[T] /\ \A k \in DOMAIN target[T] : target'[T][k] = target[T][k]
          BY <5>1, <5>2
        <5> QED
          BY <2>1, <5>3 DEF Own
      <4> QED
        BY <2>1, <3>1, <3>2, <4>1 DEF LandedInv
    <3>3. CASE read[c].users # Empty
      <4>1. /\ ~\E d \in Copies : landed[d] /\ read[d].users # Empty
            /\ \A T \in Table : Own(T) = Empty
        BY <2>2, <3>3, FirstCommit
      <4>2. ASSUME NEW T \in Table PROVE Own(T)' = read'[c][T]
        <5>1. /\ DOMAIN target'[T] = DOMAIN target[T] \cup DOMAIN read[c][T]
              /\ \A k \in DOMAIN read[c][T] : target'[T][k] = read[c][T][k]
          <6>1. /\ DOMAIN target'[T] = DOMAIN target[T] \cup DOMAIN tx[c][T]
                /\ \A k \in DOMAIN tx[c][T] : target'[T][k] = tx[c][T][k]
                /\ tx[c][T] = read[c][T]
            BY <2>2, Committed, Zenon
          <6> QED
            BY <6>1
        <5>2. DOMAIN target[T] \ strange = {}
          BY <4>1, OwnIds, EmptyTable
        <5>3. DOMAIN read[c][T] \cap strange = {} /\ read[c][T] = [k \in DOMAIN read[c][T] |-> read[c][T][k]]
          <6>1. Whole(T, read[c][T]) /\ strange \subseteq Elsewhere
            BY DEF ShapeInv
          <6> QED
            BY <6>1 DEF Whole
        <5>4. DOMAIN target'[T] \ strange = DOMAIN read[c][T]
          BY <5>1, <5>2, <5>3
        <5> QED
          BY <2>1, <3>1, <5>1, <5>3, <5>4 DEF Own
      <4> QED
        BY <2>1, <3>1, <3>3, <4>1, <4>2 DEF LandedInv
    <3> QED
      BY <3>2, <3>3
  <2>3. CASE Before(c) \/ Reads(c) \/ Writes(c) \/ Verifies(c) \/ RollsBack(c) \/ Aborts(c)
    <3>1. target' = target /\ landed'[c] = landed[c]
      BY <2>3 DEF Before, Starts, Surveys, Begins, Looks, KeepsRows, Reads, Writes, Verifies, RollsBack, Aborts
    <3>2. ~landed[c]
      BY <2>3 DEF PlaceInv, Before, Starts, Surveys, Begins, Looks, Reads, Writes, Verifies, RollsBack, Aborts
    <3>3. \A T \in Table : Own(T)' = Own(T)
      BY <2>1, <3>1 DEF Own
    <3> QED
      BY <1>1, <2>1, <3>1, <3>2, <3>3
  <2> QED
    BY <1>2, <2>2, <2>3 DEF Moves
<1>3. CASE Serves
  <2>1. target' = target /\ strange' = strange /\ landed' = landed /\ read' = read
    BY <1>3 DEF Serves, Idles
  <2> QED
    BY <1>1, <2>1 DEF Own
<1>4. CASE Registers
  <2>1. landed' = landed /\ read' = read /\ \A T \in Table \ {"users"} : target'[T] = target[T]
    BY <1>4 DEF Registers, Idles
  <2>2. PICK id \in Elsewhere :
          /\ strange' = strange \cup {id}
          /\ \/ target'.users = target.users
             \/ \E row : target'.users = Put(target.users, id, row)
    BY <1>4 DEF Registers
  <2>3. ASSUME NEW T \in Table PROVE Own(T)' = Own(T)
    <3>1. id \notin DOMAIN target[T] \ strange
      BY <2>2, OwnIds
    <3>2. \/ target'[T] = target[T]
          \/ \E row : target'[T] = Put(target[T], id, row)
      BY <2>1, <2>2
    <3>3. DOMAIN target'[T] \ strange' = DOMAIN target[T] \ strange
      BY <2>2, <3>1, <3>2 DEF Put
    <3>4. \A k \in DOMAIN target[T] \ strange : target'[T][k] = target[T][k]
      BY <3>1, <3>2 DEF Put
    <3> QED
      BY <3>3, <3>4 DEF Own
  <2> QED
    BY <1>1, <2>1, <2>3
<1> QED
  BY <1>2, <1>3, <1>4, Steps

(* Every step keeps what was read of a quiet file equal to it.                *)
LEMMA QuietKept ==
    ASSUME ShapeInv, PlaceInv, FreshInv, QuietInv, [Next]_vars
    PROVE  QuietInv'
<1>1. ASSUME NEW c \in Copies, Moves(c), Others(c), Formed PROVE QuietInv'
  <2>1. source' = source
    BY <1>1 DEF Others
  <2>2. ASSUME NEW d \in Copies \ {c}, quiet'[d], pc'[d] \notin {"idle", "survey", "failed"}
        PROVE  /\ \A T \in Table : surveyed'[d][T] = Cardinality(DOMAIN source'[T])
               /\ \A i \in 1..4 : HasRead(d, i)' => read'[d][Names[i]] = source'[Names[i]]
    <3>1. quiet[d] /\ pc[d] \notin {"idle", "survey", "failed"} /\ surveyed'[d] = surveyed[d] /\ read'[d] = read[d]
      BY <1>1, <2>2 DEF Others
    <3>2. \A i \in 1..4 : HasRead(d, i)' <=> HasRead(d, i)
      BY <1>1, Elsewise
    <3> QED
      BY <2>1, <3>1, <3>2 DEF QuietInv
  <2>3. ASSUME quiet'[c], pc'[c] \notin {"idle", "survey", "failed"}
        PROVE  /\ \A T \in Table : surveyed'[c][T] = Cardinality(DOMAIN source[T])
               /\ \A i \in 1..4 : HasRead(c, i)' => read'[c][Names[i]] = source[Names[i]]
    <3>1. CASE Surveys(c)
      <4>1. \A i \in 1..4 : ~HasRead(c, i)'
        BY <3>1, Progress DEF Before
      <4>2. surveyed'[c] = [T \in Table |-> Cardinality(DOMAIN source[T])]
        BY <3>1 DEF Surveys
      <4> QED
        BY <4>1, <4>2
    <3>2. CASE ~Surveys(c)
      <4>1. /\ quiet[c] /\ pc[c] \notin {"idle", "survey", "failed"} /\ surveyed'[c] = surveyed[c]
            /\ ~Aborts(c)
        BY <1>1, <2>3, <3>2 DEF Moves, Before, Starts, Begins, Looks, Reads, Writes, Verifies, RollsBack,
           Commits, Aborts, KeepsNotes
      <4>2. /\ \A T \in Table : surveyed[c][T] = Cardinality(DOMAIN source[T])
            /\ \A i \in 1..4 : HasRead(c, i) => read[c][Names[i]] = source[Names[i]]
        BY <4>1 DEF QuietInv
      <4>3. ASSUME NEW i \in 1..4, HasRead(c, i)' PROVE read'[c][Names[i]] = source[Names[i]]
        <5>1. CASE Before(c)
          BY <4>3, <5>1, Progress
        <5>2. CASE Reads(c)
          <6>1. at[c] \in 1..4 /\ Names[i] \in Table /\ (Names[i] = Here(c) <=> i = at[c])
            BY Four DEF Here, ShapeInv
          <6>2. read'[c][Names[i]] = IF i = at[c] THEN source[Names[i]] ELSE read[c][Names[i]]
            BY <5>2, <6>1 DEF Reads
          <6>3. HasRead(c, i) \/ i = at[c]
            BY <4>3, <5>2, Progress
          <6> QED
            BY <4>2, <6>2, <6>3
        <5>3. CASE Writes(c) \/ Verifies(c) \/ RollsBack(c) \/ Commits(c)
          <6>1. HasRead(c, i)
            BY <4>3, <5>3, Progress
          <6>2. read'[c] = read[c]
            BY <5>3 DEF Writes, Verifies, RollsBack, Commits, KeepsRows
          <6> QED
            BY <4>2, <6>1, <6>2
        <5> QED
          BY <1>1, <4>1, <5>1, <5>2, <5>3 DEF Moves
      <4> QED
        BY <4>1, <4>2, <4>3
    <3> QED
      BY <3>1, <3>2
  <2> QED
    BY <2>1, <2>2, <2>3 DEF QuietInv
<1>2. CASE Serves
  <2>1. Idles /\ \A c \in Copies : quiet'[c] => quiet[c] /\ source' = source
    BY <1>2 DEF Serves
  <2> QED
    BY <2>1 DEF Idles, QuietInv, HasRead
<1>3. CASE Registers
  BY <1>3 DEF Registers, Idles, QuietInv, HasRead
<1> QED
  BY <1>1, <1>2, <1>3, Steps

(* Every step keeps dead tokens dead, in the file and in what is read of it.  *)
LEMMA DeadKept ==
    ASSUME ShapeInv, PlaceInv, FreshInv, UsersInv, DeadInv, [Next]_vars
    PROVE  DeadInv'
<1>a. "users" \in Table /\ "refresh" \in Table /\ Names[1] = "users" /\ Names[3] = "refresh"
  BY Four
<1>1. ASSUME NEW m \in Copies, Moves(m), Others(m), Formed PROVE DeadInv'
  <2>1. source' = source
    BY <1>1 DEF Others
  <2>2. /\ pc'[m] \in {"idle", "survey", "begin"} => dead'[m] = {}
        /\ pc'[m] = "failed" /\ ~landed'[m] => dead'[m] = {}
        /\ dead'[m] \cap Elsewhere = {}
        /\ \A k \in dead'[m] \cap DOMAIN source.refresh : ~Usable(source.refresh[k])
    <3>1. CASE Begins(m)
      <4>1. DOMAIN source.refresh \cap Elsewhere = {}
        BY <1>a DEF ShapeInv, Whole
      <4> QED
        BY <3>1, <4>1 DEF Begins
    <3>2. CASE Aborts(m)
      BY <3>2 DEF Aborts
    <3>3. CASE ~Begins(m) /\ ~Aborts(m)
      BY <1>1, <3>3 DEF DeadInv, Moves, Before, Starts, Surveys, Looks, Reads, Writes, Verifies, RollsBack,
         Commits, KeepsNotes
    <3> QED
      BY <3>1, <3>2, <3>3
  <2>3. ASSUME NEW d \in Copies, After(m, d)', NEW k \in dead'[m] \cap DOMAIN read'[d].refresh
        PROVE  ~Usable(read'[d].refresh[k])
    <3>1. CASE Before(m)
      <4>1. d = m /\ read'[m] = read[m]
        <5>1. KeepsRows(m)
          <6>1. CASE Starts(m)
            BY <6>1 DEF Starts
          <6>2. CASE Surveys(m)
            BY <6>2 DEF Surveys
          <6>3. CASE Begins(m)
            BY <6>3 DEF Begins
          <6>4. CASE Looks(m)
            BY <6>4 DEF Looks
          <6> QED
            BY <3>1, <6>1, <6>2, <6>3, <6>4 DEF Before
        <5>2. d = m
          <6>1. ~HasRead(m, 1)'
            BY <3>1, Progress
          <6> QED
            BY <2>3, <6>1 DEF After
        <5> QED
          BY <5>1, <5>2 DEF KeepsRows
      <4>2. ~HasRead(m, 3)
        BY <3>1, Progress
      <4>3. DOMAIN read[m].refresh = {}
        BY <1>a, <4>2, EmptyTable DEF PlaceInv
      <4> QED
        BY <2>3, <4>1, <4>3
    <3>2. CASE Reads(m)
      <4>1. dead'[m] = dead[m]
        BY <3>2 DEF Reads, KeepsNotes
      <4>2. CASE d = m
        <5>1. read'[m].refresh = source.refresh \/ read'[m].refresh = read[m].refresh
          BY <1>a, <3>2 DEF Reads
        <5> QED
          BY <2>3, <4>1, <4>2, <5>1 DEF DeadInv, After
      <4>3. CASE d # m
        <5>1. HasRead(m, 1)' /\ read'[m].users = Empty /\ read[d].users # Empty /\ read'[d] = read[d]
          BY <1>1, <2>3, <4>3 DEF After, Others
        <5>2. at[m] \in 1..4 /\ ("users" = Here(m) <=> 1 = at[m])
          BY Four DEF Here, ShapeInv
        <5>3. CASE at[m] = 1
          <6>1. source.users = Empty
            BY <1>a, <3>2, <5>1, <5>2, <5>3 DEF Reads
          <6>2. DOMAIN read[d].users = {}
            BY <6>1, EmptyTable DEF UsersInv
          <6>3. Whole("users", read[d].users)
            BY <1>a DEF ShapeInv
          <6> QED
            BY <5>1, <6>2, <6>3, EmptyTable
        <5>4. CASE at[m] # 1
          <6>1. HasRead(m, 1) /\ read[m].users = Empty
            BY <1>a, <3>2, <5>1, <5>2, <5>4, Progress DEF Reads
          <6>2. After(m, d)
            BY <5>1, <6>1 DEF After
          <6> QED
            BY <2>3, <4>1, <5>1, <6>2 DEF DeadInv
        <5> QED
          BY <5>3, <5>4
      <4> QED
        BY <4>2, <4>3
    <3>3. CASE Writes(m) \/ Verifies(m) \/ RollsBack(m) \/ Commits(m)
      <4>1. dead'[m] = dead[m] /\ \A c \in Copies : read'[c] = read[c]
        BY <1>1, <3>3 DEF Writes, Verifies, RollsBack, Commits, KeepsNotes, KeepsRows, Others
      <4>2. HasRead(m, 1)' => HasRead(m, 1)
        BY <3>3, Progress
      <4>3. After(m, d)
        BY <2>3, <4>1, <4>2 DEF After
      <4> QED
        BY <2>3, <4>1, <4>3 DEF DeadInv
    <3>4. CASE Aborts(m)
      BY <2>3, <3>4 DEF Aborts
    <3> QED
      BY <1>1, <3>1, <3>2, <3>3, <3>4 DEF Moves
  <2>4. ASSUME NEW c \in Copies \ {m}
        PROVE  /\ dead'[c] = dead[c]
               /\ pc'[c] \in {"idle", "survey", "begin"} => dead'[c] = {}
               /\ pc'[c] = "failed" /\ ~landed'[c] => dead'[c] = {}
               /\ dead'[c] \cap Elsewhere = {}
               /\ \A k \in dead'[c] \cap DOMAIN source.refresh : ~Usable(source.refresh[k])
    BY <1>1 DEF Others, DeadInv
  <2>5. ASSUME NEW c \in Copies \ {m}, NEW d \in Copies, After(c, d)', NEW k \in dead[c] \cap DOMAIN read'[d].refresh
        PROVE  ~Usable(read'[d].refresh[k])
    <3>1. HasRead(c, 1)' <=> HasRead(c, 1)
      BY <1>1, Elsewise
    <3>2. CASE read'[d] = read[d]
      <4>1. After(c, d)
        BY <1>1, <2>5, <3>1, <3>2 DEF After, Others
      <4> QED
        BY <2>5, <3>2, <4>1 DEF DeadInv
    <3>3. CASE read'[d] # read[d]
      <4>1. d = m /\ (Reads(m) \/ Aborts(m))
        BY <1>1, <3>3 DEF Others, Moves, Before, Starts, Surveys, Begins, Looks, Writes, Verifies, RollsBack,
           Commits, KeepsRows
      <4>2. HasRead(c, 1) /\ read[c].users = Empty /\ read'[m].users # Empty
        BY <1>1, <2>5, <3>1, <4>1 DEF After, Others
      <4>3. Reads(m)
        BY <1>a, <4>1, <4>2 DEF Aborts, NoRows
      <4>4. /\ at[m] \in 1..4 /\ ("users" = Here(m) <=> 1 = at[m]) /\ ("refresh" = Here(m) <=> 3 = at[m])
        BY Four DEF Here, ShapeInv
      <4>5. CASE at[m] = 3
        <5>1. read'[m].refresh = source.refresh
          BY <1>a, <4>3, <4>4, <4>5 DEF Reads
        <5> QED
          BY <2>5, <4>1, <5>1 DEF DeadInv
      <4>6. CASE at[m] = 1
        <5>1. ~HasRead(m, 3)
          <6>1. pc[m] = "copy" /\ ~landed[m]
            BY <4>3 DEF Reads, PlaceInv
          <6>2. ~(3 < 1)
            OBVIOUS
          <6> QED
            BY <4>6, <6>1, <6>2 DEF HasRead
        <5>2. "refresh" # Here(m)
          BY <4>4, <4>6
        <5>3. read'[m].refresh = Empty
          BY <1>a, <4>3, <5>1, <5>2 DEF Reads, PlaceInv
        <5> QED
          BY <2>5, <4>1, <5>3, EmptyTable
      <4>7. CASE at[m] # 1 /\ at[m] # 3
        <5>1. read'[m].users = read[m].users /\ read'[m].refresh = read[m].refresh
          BY <1>a, <4>3, <4>4, <4>7 DEF Reads
        <5>2. After(c, m)
          BY <4>2, <5>1 DEF After
        <5> QED
          BY <2>5, <4>1, <5>1, <5>2 DEF DeadInv
      <4> QED
        BY <4>5, <4>6, <4>7
    <3> QED
      BY <3>2, <3>3
  <2>6. ASSUME NEW c \in Copies
        PROVE  /\ pc'[c] \in {"idle", "survey", "begin"} => dead'[c] = {}
               /\ pc'[c] = "failed" /\ ~landed'[c] => dead'[c] = {}
               /\ dead'[c] \cap Elsewhere = {}
               /\ \A k \in dead'[c] \cap DOMAIN source'.refresh : ~Usable(source'.refresh[k])
               /\ \A d \in Copies : After(c, d)' =>
                     \A k \in dead'[c] \cap DOMAIN read'[d].refresh : ~Usable(read'[d].refresh[k])
    <3>1. CASE c = m
      BY <2>1, <2>2, <2>3, <3>1
    <3>2. CASE c # m
      BY <2>1, <2>4, <2>5, <3>2
    <3> QED
      BY <3>1, <3>2
  <2> QED
    BY <2>6 DEF DeadInv
<1>2. CASE Serves
  <2>1. Idles /\ Sourced
    BY <1>2 DEF Serves
  <2>2. ASSUME NEW c \in Copies, NEW k \in dead[c] \cap DOMAIN source'.refresh PROVE ~Usable(source'.refresh[k])
    <3>1. k \in DOMAIN source.refresh
      BY <1>a, <2>1, <2>2 DEF Sourced, FreshInv
    <3>2. ~Usable(source.refresh[k])
      BY <2>2, <3>1 DEF DeadInv
    <3> QED
      BY <2>1, <2>2, <3>1, <3>2 DEF Sourced
  <2>3. \A c, d \in Copies : After(c, d)' <=> After(c, d)
    BY <2>1 DEF Idles, After, HasRead
  <2> QED
    BY <2>1, <2>2, <2>3 DEF Idles, DeadInv
<1>3. CASE Registers
  <2>1. Idles /\ source' = source
    BY <1>3 DEF Registers
  <2>2. \A c, d \in Copies : After(c, d)' <=> After(c, d)
    BY <2>1 DEF Idles, After, HasRead
  <2> QED
    BY <2>1, <2>2 DEF Idles, DeadInv
<1> QED
  BY <1>1, <1>2, <1>3, Steps

-----------------------------------------------------------------------------
(* An empty request inserts nothing.                                          *)
LEMMA NoIds == NewIds(<<>>) = {}
BY DEF NewIds

(* The invariant holds before anything has happened.                          *)
LEMMA Initially == Init => CopyInv
<1> SUFFICES ASSUME Init PROVE CopyInv
  OBVIOUS
<1>1. /\ source \in Sources /\ writing = <<>> /\ jobs = Jobs /\ target = NoRows /\ strange = {}
      /\ dry \in {[c \in Copies |-> c \in D] : D \in Plans}
      /\ pc = [c \in Copies |-> "idle"] /\ at = [c \in Copies |-> 1]
      /\ surveyed = [c \in Copies |-> Uncounted]
      /\ read = [c \in Copies |-> NoRows] /\ tx = [c \in Copies |-> NoRows]
      /\ landed = [c \in Copies |-> FALSE]
      /\ dead = [c \in Copies |-> {}] /\ quiet = [c \in Copies |-> TRUE]
  BY DEF Init
<1>2. /\ NoRows = [T \in Table |-> NoRows[T]] /\ \A T \in Table : NoRows[T] = Empty
      /\ \A i \in 1..4 : Names[i] \in Table
      /\ Names[1] = "users" /\ "users" \in Table /\ "refresh" \in Table
  BY Four DEF NoRows
<1>3. /\ DOMAIN Empty = {} /\ IsFiniteSet(DOMAIN Empty) /\ \A T : Whole(T, Empty)
  BY EmptyTable, FS_EmptySet
<1>4. source = [T \in Table |-> source[T]] /\ \A T \in Table : Whole(T, source[T])
  BY <1>1, MigrateAssumption, Zenon
<1>5. ShapeInv
  <2>1. dry \in [Copies -> BOOLEAN]
    <3>1. PICK D \in Plans : dry = [c \in Copies |-> c \in D]
      BY <1>1
    <3>2. [c \in Copies |-> c \in D] \in [Copies -> BOOLEAN]
      OBVIOUS
    <3> QED
      BY <3>1, <3>2
  <2>2. /\ pc \in [Copies -> Stages] /\ at \in [Copies -> 1..4]
        /\ landed \in [Copies -> BOOLEAN] /\ quiet \in [Copies -> BOOLEAN]
    BY <1>1 DEF Stages
  <2>3. dead = [c \in Copies |-> dead[c]] /\ surveyed = [c \in Copies |-> surveyed[c]]
    BY <1>1
  <2>4. /\ read = [c \in Copies |-> [T \in Table |-> read[c][T]]]
        /\ tx = [c \in Copies |-> [T \in Table |-> tx[c][T]]]
    BY <1>1, <1>2
  <2>5. \A c \in Copies, T \in Table : Whole(T, read[c][T])
    BY <1>1, <1>2, <1>3
  <2>6. target = [T \in Table |-> target[T]] /\ \A T \in Table : IsFiniteSet(DOMAIN target[T])
    BY <1>1, <1>2, <1>3
  <2> QED
    BY <1>1, <1>4, <2>1, <2>2, <2>3, <2>4, <2>5, <2>6 DEF ShapeInv
<1>6. /\ \A c \in Copies : /\ pc[c] = "idle" /\ at[c] = 1 /\ ~(at[c] > 1) /\ ~landed[c] /\ dead[c] = {}
                           /\ \A T \in Table : read[c][T] = Empty /\ tx[c][T] = Empty
      /\ \A c \in Copies, i \in 1..4 : ~Written(c, i) /\ ~HasRead(c, i)
  BY <1>1, <1>2 DEF Written, HasRead
<1>7. PlaceInv
  BY <1>2, <1>6 DEF PlaceInv
<1>8. KeysInv /\ OwnersInv
  BY <1>3, <1>6 DEF KeysInv, OwnersInv
<1>9. FreshInv
  <2>1. <<>> \in Seq(Requested) /\ DOMAIN <<>> = {}
    OBVIOUS
  <2>2. \A j \in Jobs, T \in Table : NewIds(j) \cap DOMAIN source[T] = {}
    BY <1>1, MigrateAssumption, Zenon
  <2> QED
    BY <1>1, <1>6, <2>1, <2>2, NoIds DEF FreshInv
<1>10. UsersInv
  BY <1>2, <1>3, <1>6 DEF UsersInv
<1>11. NothingInv /\ QuietInv
  BY <1>6 DEF NothingInv, Counted, QuietInv
<1>12. LandedInv
  <2>1. \A T \in Table : Own(T) = Empty
    <3>1. \A T \in Table : DOMAIN target[T] = {}
      BY <1>1, <1>2, <1>3
    <3>2. \A T \in Table : Own(T) = [k \in {} |-> target[T][k]]
      BY <3>1 DEF Own
    <3>3. \A T \in Table : Own(T) = [k \in {} |-> Own(T)[k]]
      BY <3>2
    <3>4. Empty = [k \in {} |-> Empty[k]]
      BY <1>3 DEF Whole
    <3> QED
      BY <3>3, <3>4
  <2> QED
    BY <1>6, <2>1 DEF LandedInv
<1>13. DeadInv
  BY <1>6 DEF DeadInv
<1> QED
  BY <1>5, <1>7, <1>8, <1>9, <1>10, <1>11, <1>12, <1>13 DEF CopyInv

(* Every step keeps the invariant.                                            *)
LEMMA Preserved == CopyInv /\ [Next]_vars => CopyInv'
<1> SUFFICES ASSUME CopyInv, [Next]_vars PROVE CopyInv'
  OBVIOUS
<1>1. /\ ShapeInv /\ PlaceInv /\ KeysInv /\ FreshInv /\ UsersInv
      /\ OwnersInv /\ NothingInv /\ LandedInv /\ QuietInv /\ DeadInv
  BY DEF CopyInv
<1>2. ShapeInv' /\ PlaceInv' /\ KeysInv' /\ FreshInv' /\ UsersInv'
  BY <1>1, ShapeKept, PlaceKept, KeysKept, FreshKept, UsersKept
<1>3. OwnersInv' /\ NothingInv' /\ LandedInv' /\ QuietInv' /\ DeadInv'
  BY <1>1, OwnersKept, NothingKept, LandedKept, QuietKept, DeadKept
<1> QED
  BY <1>2, <1>3 DEF CopyInv

(* The inductive invariant: what is read, written and counted at each place   *)
(* of a run, keys nobody else holds, users that are never deleted, rows that  *)
(* have their user, and what this makes of a target that several runs, a      *)
(* server and strangers work on.                                              *)
THEOREM Invariant == Spec => []CopyInv
<1> QED
  BY Initially, Preserved, PTL DEF Spec

(* Every run is at one of the program's stages, holds a transaction only      *)
(* while it copies and has written exactly the tables it has read.            *)
THEOREM TypeCorrect == Spec => []TypeOK
<1>1. ASSUME CopyInv PROVE TypeOK
  <2>1. SUFFICES ASSUME NEW c \in Copies
                 PROVE  /\ pc[c] \in Stages
                        /\ at[c] \in DOMAIN Names
                        /\ at[c] > 1 => pc[c] \in {"empty", "copy", "write", "verify"}
                        /\ tx[c] # NoRows => pc[c] \in {"copy", "write", "verify", "end"}
                        /\ \A T \in Table : tx[c][T] \in {Empty, read[c][T]}
                        /\ landed[c] => pc[c] \in {"done", "failed"}
    BY DEF TypeOK, Stages
  <2>2. ShapeInv /\ PlaceInv
    BY <1>1 DEF CopyInv
  <2>3. pc[c] \in Stages /\ at[c] \in DOMAIN Names
    BY <2>2, Four DEF ShapeInv
  <2>4. /\ at[c] > 1 => pc[c] \in {"empty", "copy", "write", "verify"}
        /\ landed[c] => pc[c] \in {"done", "failed"}
    BY <2>2 DEF PlaceInv
  <2>5. \A T \in Table : tx[c][T] \in {Empty, read[c][T]}
    BY <2>2, Held
  <2>6. ASSUME pc[c] \notin {"copy", "write", "verify", "end"} PROVE tx[c] = NoRows
    <3>1. \A i \in 1..4 : tx[c][Names[i]] = Empty
      BY <2>2, <2>6 DEF PlaceInv, Written
    <3>2. \A T \in Table : tx[c][T] = Empty
      BY <3>1, Four
    <3>3. tx[c] = [T \in Table |-> tx[c][T]]
      BY <2>2 DEF ShapeInv
    <3> QED
      BY <3>2, <3>3 DEF NoRows
  <2> QED
    BY <2>3, <2>4, <2>5, <2>6
<1> QED
  BY <1>1, Invariant, PTL

(* Whatever fails, meets another run or is dry, the target holds nothing of   *)
(* the source, or everything that one run has read and nothing else.          *)
THEOREM NothingMixed == Spec => []AllOrNothing
<1>1. CopyInv => AllOrNothing
  BY Zenon DEF CopyInv, LandedInv, AllOrNothing
<1> QED
  BY <1>1, Invariant, PTL

(* A refresh token that was spent or revoked when a run began is not usable   *)
(* in the target once that run has landed, whatever the server went on        *)
(* writing and whichever run the rows came from.                              *)
THEOREM SpentStays == Spec => []SpentStaysSpent
<1>1. ASSUME CopyInv, NEW c \in Copies, landed[c], NEW k \in dead[c] \cap DOMAIN target.refresh
      PROVE  ~Usable(target.refresh[k])
  <2>1. ShapeInv /\ LandedInv /\ DeadInv
    BY <1>1 DEF CopyInv
  <2>2. "refresh" \in Table
    BY Four
  <2>3. k \in DOMAIN Own("refresh")
    <3>1. k \notin strange
      BY <1>1, <2>1 DEF DeadInv, ShapeInv
    <3> QED
      BY <1>1, <3>1 DEF Own
  <2>4. Own("refresh")[k] = target.refresh[k]
    BY <2>3 DEF Own
  <2>5. PICK d \in Copies : Own("refresh") = read[d].refresh /\ After(c, d)
    <3>1. CASE read[c].users # Empty
      BY <1>1, <2>1, <2>2, <3>1 DEF LandedInv, After
    <3>2. CASE read[c].users = Empty
      <4>1. Own("refresh") # Empty
        BY <2>3, EmptyTable
      <4>2. PICK d \in Copies : landed[d] /\ read[d].users # Empty
        BY <2>1, <2>2, <4>1 DEF LandedInv
      <4>3. HasRead(c, 1)
        BY <1>1 DEF HasRead
      <4> QED
        BY <2>1, <2>2, <3>2, <4>2, <4>3 DEF LandedInv, After
    <3> QED
      BY <3>1, <3>2
  <2> QED
    BY <1>1, <2>1, <2>3, <2>4, <2>5 DEF DeadInv
<1>2. CopyInv => SpentStaysSpent
  BY <1>1 DEF SpentStaysSpent
<1> QED
  BY <1>2, Invariant, PTL

(* Of a file nobody wrote to since it was surveyed, a run that says it        *)
(* succeeded has carried everything across, exactly as it was counted.        *)
THEOREM QuietExact == Spec => []QuietCopyIsExact
<1>1. ASSUME CopyInv, NEW c \in Copies, pc[c] = "done", quiet[c], NEW T \in Table
      PROVE  /\ read[c][T] = source[T] /\ surveyed[c][T] = Cardinality(DOMAIN source[T])
             /\ ~dry[c] => Own(T) = source[T]
  <2>1. ShapeInv /\ PlaceInv /\ UsersInv /\ NothingInv /\ LandedInv /\ QuietInv
    BY <1>1 DEF CopyInv
  <2>2. surveyed[c][T] = Cardinality(DOMAIN source[T])
    BY <1>1, <2>1 DEF QuietInv
  <2>3. \A U \in Table : read[c][U] = source[U]
    <3>1. \A i \in 1..4 : HasRead(c, i)
      BY <1>1 DEF HasRead
    <3>2. \A i \in 1..4 : read[c][Names[i]] = source[Names[i]]
      BY <1>1, <2>1, <3>1 DEF QuietInv
    <3> QED
      BY <3>2, Four
  <2>4. ASSUME ~dry[c] PROVE Own(T) = source[T]
    <3>1. landed[c]
      BY <1>1, <2>1, <2>4 DEF PlaceInv
    <3>2. CASE read[c].users # Empty
      BY <2>1, <2>3, <3>1, <3>2 DEF LandedInv
    <3>3. CASE read[c].users = Empty
      <4>1. source[T] = Empty
        BY <2>1, <2>3, <3>1, <3>3 DEF NothingInv, Counted
      <4>2. ASSUME NEW d \in Copies, landed[d], read[d].users # Empty PROVE FALSE
        <5>1. "users" \in Table
          BY Four
        <5>2. DOMAIN read[d].users = {}
          BY <2>1, <2>3, <3>3, <5>1, EmptyTable DEF UsersInv
        <5>3. Whole("users", read[d].users)
          BY <2>1, <5>1 DEF ShapeInv
        <5> QED
          BY <4>2, <5>2, <5>3, EmptyTable
      <4> QED
        BY <2>1, <4>1, <4>2 DEF LandedInv
    <3> QED
      BY <3>2, <3>3
  <2> QED
    BY <2>2, <2>3, <2>4
<1>2. CopyInv => QuietCopyIsExact
  BY <1>1 DEF QuietCopyIsExact
<1> QED
  BY <1>2, Invariant, PTL

-----------------------------------------------------------------------------
(* The second invariant, for the families of refresh tokens.  Every row of the *)
(* file has the family its id stands for; the family of a login to come has no *)
(* row yet; and when a token is about to be issued, either its predecessor has *)
(* still to be marked used, or no token of its family is usable.               *)
Known(k, f) ==
    \/ \E s \in Sources : k \in DOMAIN s.refresh /\ s.refresh[k].family = f
    \/ \E q \in Requested : Issue(q) /\ q.id = k /\ q.family = f
Cleared(f) ==
    /\ \A k \in DOMAIN source.refresh : Usable(source.refresh[k]) => source.refresh[k].family # f
    /\ \A j \in jobs : \A i \in DOMAIN j : Opens(j, i) => j[i].family # f
FamilyInv ==
    /\ OneUsable(source.refresh)
    /\ \A k \in DOMAIN source.refresh : Known(k, source.refresh[k].family)
    /\ \A j \in jobs : \A i \in DOMAIN j : Opens(j, i) =>
          \A k \in DOMAIN source.refresh : source.refresh[k].family # j[i].family
    /\ \A i \in DOMAIN writing :
          Issue(writing[i]) => Exchanged(writing, i) \/ Cleared(writing[i].family)
    /\ \A i, l \in DOMAIN writing : Issue(writing[i]) /\ Issue(writing[l]) => i = l

(* One SELECT reads one state of the file, and strangers only register.        *)
CarriedInv ==
    /\ \A c \in Copies : OneUsable(read[c].refresh)
    /\ DOMAIN target.refresh \cap Elsewhere = {}
SessionInv == FamilyInv /\ CarriedInv

(* What a statement does to the refresh tokens: families stay, nothing becomes *)
(* usable again, only an issue adds a row, and a mark_used that the request    *)
(* goes on after has found a usable token and spent it.                        *)
LEMMA Redeemed ==
    ASSUME NEW q, NEW t, Whole("refresh", t), Statement(q), q.table = "refresh"
    PROVE  LET o == Lite!Method(t, q, 0)
           IN  /\ \A k \in DOMAIN t \cap DOMAIN o.table :
                    o.table[k].family = t[k].family /\ (Usable(o.table[k]) => Usable(t[k]))
               /\ \A k \in DOMAIN o.table \ DOMAIN t :
                    Issue(q) /\ k = q.id /\ o.table[k].family = q.family
               /\ q.op = "mark_used" /\ o.answer # <<"flag", FALSE>> =>
                    q.id \in DOMAIN t /\ Usable(t[q.id]) /\ DOMAIN o.table = DOMAIN t /\ ~Usable(o.table[q.id])
<1> DEFINE o == Lite!Method(t, q, 0)
           Fine(u) == /\ \A k \in DOMAIN t \cap DOMAIN u : u[k].family = t[k].family /\ (Usable(u[k]) => Usable(t[k]))
                      /\ \A k \in DOMAIN u \ DOMAIN t : Issue(q) /\ k = q.id /\ u[k].family = q.family
<1>1. \A k \in DOMAIN t : t[k] = [x \in {"user", "family", "expires", "used", "revoked"} |-> t[k][x]]
  BY DEF Columns, Whole
<1>2. q.op \in {"refresh_insert", "refresh_find", "mark_used", "revoke_family", "revoke_all",
                "refresh_expired"}
  BY DEF Statement, Statements
<1>3. CASE q.op = "refresh_insert"
  <2>1. o = Lite!RefreshInsert(t, q, 0)
    BY <1>3 DEF Lite!Method
  <2>2. \/ o.table = t
        \/ q.id \notin DOMAIN t /\ o.table = Put(t, q.id, Lite!NewRefreshRow(q, q.expires))
    BY <2>1 DEF Lite!RefreshInsert, Lite!Conflict, Lite!Done, Lite!Reply, Lite!Put, Put
  <2>3. Lite!NewRefreshRow(q, q.expires).family = q.family
    BY DEF Lite!NewRefreshRow
  <2> HIDE DEF o
  <2>4. Fine(o.table)
    BY <1>3, <2>2, <2>3 DEF Put, Issue
  <2> QED
    BY <1>3, <2>4 DEF o
<1>4. CASE q.op = "refresh_find"
  <2>1. o.table = t
    BY <1>4 DEF Lite!Method, Lite!RefreshFind, Lite!Rows, Lite!Reply
  <2> HIDE DEF o
  <2> QED
    BY <1>4, <2>1 DEF o
<1>5. CASE q.op = "mark_used"
  <2> DEFINE hit == {k \in Lite!Keyed(t, q.id) : t[k].used = Lite!Null /\ ~t[k].revoked}
  <2>1. o = Lite!RefreshMarkUsed(t, q, 0)
    BY <1>5 DEF Lite!Method
  <2>2. o.table = [k \in DOMAIN t |-> IF k \in hit THEN [t[k] EXCEPT !.used = 0] ELSE t[k]]
    BY <2>1 DEF Lite!RefreshMarkUsed, Lite!Change, Lite!Flag, Lite!Reply
  <2>3. o.answer = <<"flag", Lite!OneRow(hit)>>
    BY <2>1 DEF Lite!RefreshMarkUsed, Lite!Flag, Lite!Reply
  <2>4. hit = {} => o.answer = <<"flag", FALSE>>
    <3>1. SUFFICES ASSUME hit = {} PROVE o.answer = <<"flag", FALSE>>
      OBVIOUS
    <3>2. Lite!OneRow(hit) = FALSE
      BY <3>1 DEF Lite!OneRow
    <3> QED
      BY <2>3, <3>2, Zenon
  <2>5. \A k \in hit : k = q.id /\ k \in DOMAIN t /\ Usable(t[k])
    BY DEF Lite!Keyed, Lite!Null, Usable, Null
  <2>6. \A k \in hit : [t[k] EXCEPT !.used = 0].used = 0 /\ [t[k] EXCEPT !.used = 0].family = t[k].family
    BY <1>1, <2>5
  <2>7. \A r : r.used = 0 => ~Usable(r)
    BY DEF Usable, Null
  <2> HIDE DEF o, hit
  <2>8. Fine(o.table)
    BY <2>2, <2>5, <2>6, <2>7
  <2>9. ASSUME o.answer # <<"flag", FALSE>>
        PROVE  q.id \in DOMAIN t /\ Usable(t[q.id]) /\ DOMAIN o.table = DOMAIN t /\ ~Usable(o.table[q.id])
    <3>1. PICK k : k \in hit
      BY <2>4, <2>9
    <3> QED
      BY <2>2, <2>5, <2>6, <2>7, <3>1
  <2> QED
    BY <2>8, <2>9 DEF o
<1>6. CASE q.op \in {"revoke_family", "revoke_all"}
  <2>1. \E S : o.table = Marked(t, S)
    BY <1>6, Revoking
  <2>2. \A k \in DOMAIN t : [t[k] EXCEPT !.revoked = TRUE].revoked = TRUE
                            /\ [t[k] EXCEPT !.revoked = TRUE].family = t[k].family
    BY <1>1
  <2>3. \A r : r.revoked = TRUE => ~Usable(r)
    BY DEF Usable
  <2> HIDE DEF o
  <2>4. Fine(o.table)
    BY <2>1, <2>2, <2>3 DEF Marked
  <2> QED
    BY <1>6, <2>4 DEF o
<1>7. CASE q.op = "refresh_expired"
  <2>1. \E S : o.table = Without(t, S)
    BY <1>7, Sweeping
  <2> HIDE DEF o
  <2>2. Fine(o.table)
    BY <2>1 DEF Without
  <2> QED
    BY <1>7, <2>2 DEF o
<1> QED
  BY <1>2, <1>3, <1>4, <1>5, <1>6, <1>7

(* A token's id and the family it is known by agree with the request's.       *)
LEMMA Relations ==
    ASSUME NEW k, NEW f, NEW g, Known(k, f), OfFamily(k, g)
    PROVE  f = g
<1>1. CASE \E s \in Sources : k \in DOMAIN s.refresh /\ s.refresh[k].family = f
  BY <1>1 DEF OfFamily
<1>2. CASE \E q \in Requested : Issue(q) /\ q.id = k /\ q.family = f
  <2>1. PICK j \in Jobs : \E i \in DOMAIN j : Issue(j[i]) /\ j[i].id = k /\ j[i].family = f
    BY <1>2 DEF Requested
  <2> QED
    BY <2>1 DEF OfFamily
<1> QED
  BY <1>1, <1>2 DEF Known

(* The second invariant holds before anything has happened.                   *)
LEMMA SessionsInitially == Init => SessionInv
<1> SUFFICES ASSUME Init PROVE SessionInv
  OBVIOUS
<1>1. /\ source \in Sources /\ writing = <<>> /\ jobs = Jobs /\ target = NoRows
      /\ read = [c \in Copies |-> NoRows]
  BY DEF Init
<1>2. NoRows.refresh = Empty /\ DOMAIN Empty = {} /\ DOMAIN writing = {}
  BY <1>1, Four, EmptyTable DEF NoRows
<1>3. OneUsable(source.refresh)
  BY <1>1, SessionAssumption, Zenon
<1>4. \A k \in DOMAIN source.refresh : Known(k, source.refresh[k].family)
  BY <1>1 DEF Known
<1>5. \A j \in jobs : \A i \in DOMAIN j : Opens(j, i) =>
          \A k \in DOMAIN source.refresh : source.refresh[k].family # j[i].family
  BY <1>1, SessionAssumption, Zenon
<1>6. FamilyInv
  BY <1>2, <1>3, <1>4, <1>5 DEF FamilyInv
<1>7. CarriedInv
  BY <1>1, <1>2 DEF CarriedInv, OneUsable
<1> QED
  BY <1>6, <1>7 DEF SessionInv

(* A statement keeps one usable token in each family.                         *)
LEMMA StatementKeepsFamilies ==
    ASSUME ShapeInv, FreshInv, FamilyInv, Execute
    PROVE  FamilyInv'
<1> DEFINE q == Head(writing)
           t == source.refresh
           o == Lite!Method(t, q, 0)
           u == source'.refresh
<1>1. writing \in Seq(Requested) /\ writing # <<>>
  BY DEF FreshInv, Execute
<1>2. /\ q = writing[1] /\ 1 \in DOMAIN writing /\ q \in Requested
      /\ Len(Tail(writing)) = Len(writing) - 1
      /\ \A i \in 1..Len(Tail(writing)) : Tail(writing)[i] = writing[i + 1]
      /\ Len(writing) \in Nat /\ DOMAIN writing = 1..Len(writing)
      /\ DOMAIN Tail(writing) = 1..Len(Tail(writing))
  BY <1>1, HeadTailProperties
<1>3. Statement(q) /\ q.table \in Table /\ "refresh" \in Table /\ Whole("refresh", t)
  BY <1>2, Requests, Four DEF Statement, ShapeInv
<1>4. /\ source' = [source EXCEPT ![q.table] = Lite!Method(source[q.table], q, 0).table]
      /\ writing' = IF Lite!Method(source[q.table], q, 0).answer = <<"flag", FALSE>> THEN <<>> ELSE Tail(writing)
      /\ jobs' = jobs
  BY Zenon DEF Execute
<1>5. source = [T \in Table |-> source[T]]
  BY DEF ShapeInv
<1> HIDE DEF q
<1>6. /\ q.table = "refresh" => u = o.table
      /\ q.table # "refresh" => u = t
  BY <1>3, <1>4, <1>5
<1>7. /\ q.table # "refresh" => q.op # "mark_used" /\ ~Issue(q)
  BY <1>3, Four DEF Statement, Statements, Issue
<1>8. /\ \A k \in DOMAIN t \cap DOMAIN u : u[k].family = t[k].family /\ (Usable(u[k]) => Usable(t[k]))
      /\ \A k \in DOMAIN u \ DOMAIN t : Issue(q) /\ k = q.id /\ u[k].family = q.family
      /\ q.op = "mark_used" /\ writing' # <<>> =>
            q.id \in DOMAIN t /\ Usable(t[q.id]) /\ DOMAIN u = DOMAIN t /\ ~Usable(u[q.id])
  <2>1. CASE q.table = "refresh"
    <3>1. /\ \A k \in DOMAIN t \cap DOMAIN o.table :
                o.table[k].family = t[k].family /\ (Usable(o.table[k]) => Usable(t[k]))
          /\ \A k \in DOMAIN o.table \ DOMAIN t :
                Issue(q) /\ k = q.id /\ o.table[k].family = q.family
          /\ q.op = "mark_used" /\ o.answer # <<"flag", FALSE>> =>
                q.id \in DOMAIN t /\ Usable(t[q.id]) /\ DOMAIN o.table = DOMAIN t /\ ~Usable(o.table[q.id])
      BY <1>3, <2>1, Redeemed
    <3>2. writing' # <<>> => o.answer # <<"flag", FALSE>>
      BY <1>4, <2>1
    <3> HIDE DEF o
    <3> QED
      BY <1>6, <2>1, <3>1, <3>2
  <2>2. CASE q.table # "refresh"
    BY <1>6, <1>7, <2>2
  <2> QED
    BY <2>1, <2>2
<1>9. writing' = <<>> \/ writing' = Tail(writing)
  BY <1>4
<1> HIDE DEF t, o, u
<1>10. ASSUME NEW i \in DOMAIN writing'
       PROVE  i + 1 \in DOMAIN writing /\ writing'[i] = writing[i + 1] /\ i \in Nat /\ i + 1 # 1 /\ writing' = Tail(writing)
  <2>1. writing' = Tail(writing)
    <3>1. DOMAIN <<>> = {}
      OBVIOUS
    <3> QED
      BY <1>9, <1>10, <3>1
  <2>2. i \in 1..Len(Tail(writing))
    BY <1>2, <1>10, <2>1
  <2> QED
    BY <1>2, <2>1, <2>2
<1>11. Issue(q) => Cleared(q.family)
  <2>1. SUFFICES ASSUME Issue(q), ~Cleared(q.family) PROVE FALSE
    OBVIOUS
  <2>2. Exchanged(writing, 1)
    BY <1>2, <2>1 DEF FamilyInv
  <2>3. PICK l \in DOMAIN writing : l < 1
    BY <2>2 DEF Exchanged
  <2> QED
    BY <1>2, <2>3
<1>12. OneUsable(u)
  <2>1. SUFFICES ASSUME NEW k \in DOMAIN u, NEW l \in DOMAIN u, Usable(u[k]), Usable(u[l]), u[k].family = u[l].family
                 PROVE  k = l
    BY DEF OneUsable
  <2>2. CASE k \in DOMAIN t /\ l \in DOMAIN t
    <3>1. t[k].family = t[l].family /\ Usable(t[k]) /\ Usable(t[l])
      BY <1>8, <2>1, <2>2
    <3> QED
      BY <2>2, <3>1 DEF FamilyInv, OneUsable, t
  <2>3. ASSUME NEW x \in DOMAIN u \ DOMAIN t, NEW y \in DOMAIN u \cap DOMAIN t, Usable(u[y]), u[x].family = u[y].family
        PROVE  FALSE
    <3>1. Issue(q) /\ u[x].family = q.family /\ t[y].family = q.family /\ Usable(t[y])
      BY <1>8, <2>3
    <3> QED
      BY <1>11, <2>3, <3>1 DEF Cleared, t
  <2>4. CASE k \notin DOMAIN t /\ l \notin DOMAIN t
    BY <1>8, <2>4
  <2> QED
    BY <2>1, <2>2, <2>3, <2>4
<1>13. ASSUME NEW k \in DOMAIN u PROVE Known(k, u[k].family)
  <2>1. CASE k \in DOMAIN t
    <3>1. u[k].family = t[k].family
      BY <1>8, <1>13, <2>1
    <3> QED
      BY <2>1, <3>1 DEF FamilyInv, t
  <2>2. CASE k \notin DOMAIN t
    <3>1. Issue(q) /\ k = q.id /\ u[k].family = q.family
      BY <1>8, <1>13, <2>2
    <3> QED
      BY <1>2, <3>1 DEF Known
  <2> QED
    BY <2>1, <2>2
<1>14. ASSUME NEW j \in jobs, NEW i \in DOMAIN j, Opens(j, i), NEW k \in DOMAIN u
       PROVE  u[k].family # j[i].family
  <2>1. CASE k \in DOMAIN t
    <3>1. u[k].family = t[k].family
      BY <1>8, <1>14, <2>1
    <3> QED
      BY <1>14, <2>1, <3>1 DEF FamilyInv, t
  <2>2. CASE k \notin DOMAIN t
    <3>1. Issue(q) /\ u[k].family = q.family
      BY <1>8, <1>14, <2>2
    <3> QED
      BY <1>11, <1>14, <3>1 DEF Cleared
  <2> QED
    BY <2>1, <2>2
<1>15. ASSUME NEW i \in DOMAIN writing', Issue(writing'[i]), ~Exchanged(writing', i)
       PROVE  Cleared(writing[i].family)'
  <2>0. PICK f : f = writing'[i].family
    OBVIOUS
  <2>1. i + 1 \in DOMAIN writing /\ writing'[i] = writing[i + 1] /\ i \in Nat /\ i + 1 # 1 /\ writing' = Tail(writing)
    BY <1>10, <1>15
  <2>2. Issue(writing[i + 1]) /\ f = writing[i + 1].family
    BY <1>15, <2>0, <2>1
  <2>3. ~Issue(q)
    BY <1>2, <2>1, <2>2 DEF FamilyInv
  <2>4. ASSUME NEW g, Cleared(g) PROVE Cleared(g)'
    <3>1. \A k \in DOMAIN u : Usable(u[k]) => u[k].family # g
      BY <1>8, <2>3, <2>4 DEF Cleared, t
    <3> QED
      BY <1>4, <2>4, <3>1 DEF Cleared, u
  <2>5. CASE Cleared(f)
    <3>1. Cleared(f)'
      BY <2>4, <2>5
    <3> QED
      BY <2>0, <3>1 DEF Cleared
  <2>6. CASE ~Cleared(f)
    <3>1. Exchanged(writing, i + 1)
      BY <2>1, <2>2, <2>6 DEF FamilyInv
    <3>2. PICK l \in DOMAIN writing : l < i + 1 /\ writing[l].op = "mark_used" /\ OfFamily(writing[l].id, f)
      BY <2>2, <3>1 DEF Exchanged
    <3>3. l = 1
      <4>1. SUFFICES ASSUME l # 1 PROVE FALSE
        OBVIOUS
      <4>2. l - 1 \in DOMAIN writing' /\ l - 1 < i /\ l - 1 + 1 = l
        BY <1>2, <2>1, <3>2, <4>1
      <4>3. writing'[l - 1] = writing[l]
        BY <1>10, <4>2
      <4> QED
        BY <1>15, <2>0, <3>2, <4>2, <4>3 DEF Exchanged
    <3>4. q.op = "mark_used" /\ OfFamily(q.id, f) /\ writing' # <<>>
      <4>1. DOMAIN <<>> = {}
        OBVIOUS
      <4> QED
        BY <1>2, <1>15, <3>2, <3>3, <4>1
    <3>5. q.id \in DOMAIN t /\ Usable(t[q.id]) /\ DOMAIN u = DOMAIN t /\ ~Usable(u[q.id])
      BY <1>8, <3>4
    <3>6. t[q.id].family = f
      BY <3>4, <3>5, Relations DEF FamilyInv, t
    <3>7. ASSUME NEW k \in DOMAIN u, Usable(u[k]) PROVE u[k].family # f
      <4>1. k \in DOMAIN t /\ Usable(t[k]) /\ u[k].family = t[k].family /\ k # q.id
        BY <1>8, <3>5, <3>7
      <4> QED
        BY <3>5, <3>6, <4>1 DEF FamilyInv, OneUsable, t
    <3>8. \A j \in jobs : \A h \in DOMAIN j : Opens(j, h) => j[h].family # f
      BY <3>5, <3>6 DEF FamilyInv, t
    <3>9. Cleared(f)'
      BY <1>4, <3>7, <3>8 DEF Cleared, u
    <3> QED
      BY <2>0, <3>9 DEF Cleared
  <2> QED
    BY <2>5, <2>6
<1>16. ASSUME NEW i \in DOMAIN writing', NEW l \in DOMAIN writing', Issue(writing'[i]), Issue(writing'[l])
       PROVE  i = l
  <2>1. i + 1 = l + 1
    BY <1>10, <1>16 DEF FamilyInv
  <2> QED
    BY <1>10, <1>16, <2>1
<1>17. jobs' = jobs
  BY <1>4
<1> QED
  BY <1>12, <1>13, <1>14, <1>15, <1>16, <1>17 DEF FamilyInv, u

(* Every step keeps one usable token in each family of the file.              *)
LEMMA FamiliesKept ==
    ASSUME ShapeInv, FreshInv, FamilyInv, [Next]_vars
    PROVE  FamilyInv'
<1>1. CASE Accept
  <2>1. source' = source
    BY <1>1 DEF Accept
  <2>2. PICK j \in jobs : writing' = j /\ jobs' = jobs \ {j}
    BY <1>1 DEF Accept
  <2>3. j \in Jobs /\ jobs \subseteq Jobs
    BY DEF FreshInv
  <2>4. ASSUME NEW i \in DOMAIN j, Issue(j[i]), ~Exchanged(j, i) PROVE Cleared(j[i].family)'
    <3>1. Opens(j, i)
      BY <2>4 DEF Opens
    <3>2. \A k \in DOMAIN source.refresh : source.refresh[k].family # j[i].family
      BY <3>1 DEF FamilyInv
    <3>3. ASSUME NEW h \in jobs', NEW l \in DOMAIN h, Opens(h, l), h[l].family = j[i].family PROVE FALSE
      <4>1. j = h
        BY <2>2, <2>3, <3>1, <3>3, SessionAssumption, Zenon
      <4> QED
        BY <2>2, <4>1
    <3> QED
      BY <2>1, <3>2, <3>3 DEF Cleared
  <2>5. \A i, l \in DOMAIN j : Issue(j[i]) /\ Issue(j[l]) => i = l
    BY <2>3, SessionAssumption, Zenon
  <2>6. \A h \in jobs' : \A i \in DOMAIN h : Opens(h, i) =>
            \A k \in DOMAIN source.refresh : source.refresh[k].family # h[i].family
    BY <2>2 DEF FamilyInv
  <2>7. \A i \in DOMAIN writing' : Issue(writing'[i]) => Exchanged(writing', i) \/ Cleared(writing[i].family)'
    BY <2>2, <2>4 DEF Cleared
  <2> QED
    BY <2>1, <2>2, <2>5, <2>6, <2>7 DEF FamilyInv
<1>2. CASE Execute
  BY <1>2, StatementKeepsFamilies
<1>3. ASSUME source' = source, writing' = writing, jobs' = jobs PROVE FamilyInv'
  BY <1>3 DEF FamilyInv, Cleared
<1>4. CASE \E c \in Copies : Start(c) \/ Step(c) \/ Fail(c)
  BY <1>3, <1>4, Moved DEF Others
<1>5. CASE Register \/ UNCHANGED vars
  BY <1>3, <1>5 DEF Register, vars, server
<1> QED
  BY <1>1, <1>2, <1>4, <1>5 DEF Next

(* Every step keeps what is read at one state, and the target's tokens copied. *)
LEMMA CarriedKept ==
    ASSUME ShapeInv, PlaceInv, FreshInv, FamilyInv, CarriedInv, [Next]_vars
    PROVE  CarriedInv'
<1>a. "refresh" \in Table
  BY Four
<1>1. ASSUME NEW m \in Copies, Moves(m), Others(m), Formed PROVE CarriedInv'
  <2>1. ASSUME NEW c \in Copies PROVE OneUsable(read'[c].refresh)
    <3>1. CASE read'[c] = read[c]
      BY <3>1 DEF CarriedInv
    <3>2. CASE c = m /\ Reads(m)
      BY <1>a, <3>2 DEF Reads, CarriedInv, FamilyInv
    <3>3. CASE c = m /\ Aborts(m)
      BY <1>a, <3>3, EmptyTable DEF Aborts, NoRows, OneUsable
    <3> QED
      BY <1>1, <3>1, <3>2, <3>3 DEF Moves, Before, KeepsRows, Starts, Surveys, Begins, Looks, Writes,
         Verifies, RollsBack, Commits, Others
  <2>2. DOMAIN target'.refresh \cap Elsewhere = {}
    <3>1. CASE Commits(m)
      <4>1. DOMAIN target'.refresh = DOMAIN target.refresh \cup DOMAIN tx[m].refresh
        BY <1>a, <3>1, Committed, Zenon
      <4>2. Whole("refresh", tx[m].refresh)
        BY <1>a, Held
      <4> QED
        BY <4>1, <4>2 DEF CarriedInv, Whole
    <3>2. CASE target' = target
      BY <3>2 DEF CarriedInv
    <3> QED
      BY <1>1, <3>1, <3>2 DEF Moves, Before, KeepsRows, Starts, Surveys, Begins, Looks, Reads, Writes,
         Verifies, RollsBack, Aborts
  <2> QED
    BY <2>1, <2>2 DEF CarriedInv
<1>2. CASE Serves \/ Registers
  BY <1>a, <1>2 DEF Serves, Registers, Idles, CarriedInv
<1> QED
  BY <1>1, <1>2, Steps

(* A session is carried across at most once: whenever the tables are read, a  *)
(* rotation that is under way never leaves two usable tokens of one family in *)
(* the target.                                                                *)
THEOREM CarriedOnce == Spec => []OneLivePerFamily
<1>1. CopyInv /\ SessionInv /\ [Next]_vars => SessionInv'
  BY FamiliesKept, CarriedKept DEF CopyInv, SessionInv
<1>2. ASSUME CopyInv, SessionInv PROVE OneLivePerFamily
  <2>1. "refresh" \in Table /\ ShapeInv /\ LandedInv
    BY <1>2, Four DEF CopyInv
  <2>2. DOMAIN Own("refresh") = DOMAIN target.refresh
    <3>1. DOMAIN target.refresh \cap strange = {}
      BY <1>2, <2>1 DEF SessionInv, CarriedInv, ShapeInv
    <3> QED
      BY <3>1 DEF Own
  <2>3. \A k \in DOMAIN Own("refresh") : Own("refresh")[k] = target.refresh[k]
    BY DEF Own
  <2>4. OneUsable(Own("refresh"))
    <3>1. CASE Own("refresh") = Empty
      BY <3>1, EmptyTable DEF OneUsable
    <3>2. CASE \E c \in Copies : Own("refresh") = read[c].refresh
      BY <1>2, <3>2 DEF SessionInv, CarriedInv
    <3> QED
      BY <2>1, <3>1, <3>2, Zenon DEF LandedInv
  <2> HIDE DEF Own
  <2> QED
    BY <2>2, <2>3, <2>4 DEF OneUsable, OneLivePerFamily
<1> QED
  BY <1>1, <1>2, SessionsInitially, Invariant, PTL DEF Spec

-----------------------------------------------------------------------------
(* Progress: what the fairness of the runs has to add is only that a run that *)
(* waits for nobody takes its step.                                           *)

(* The statements a run still has before it, counted from where it stands.    *)
Remaining(stage, n) ==
    CASE stage = "idle" -> 20
      [] stage = "survey" -> 19
      [] stage = "begin" -> 18
      [] stage = "empty" -> 18 - n
      [] stage = "copy" -> 15 - 2 * n
      [] stage = "write" -> 14 - 2 * n
      [] stage = "verify" -> 6 - n
      [] stage = "end" -> 1
      [] OTHER -> 0
Ahead(c) == Remaining(pc[c], at[c])

(* How many statements are ahead at each stage: none only at its end.         *)
LEMMA Remains ==
    ASSUME NEW stage \in Stages, NEW n \in 1..4
    PROVE  /\ Remaining(stage, n) \in 0..20
           /\ stage = "idle" => Remaining(stage, n) = 20
           /\ stage = "survey" => Remaining(stage, n) = 19
           /\ stage = "begin" => Remaining(stage, n) = 18
           /\ stage = "empty" => Remaining(stage, n) = 18 - n
           /\ stage = "copy" => Remaining(stage, n) = 15 - 2 * n
           /\ stage = "write" => Remaining(stage, n) = 14 - 2 * n
           /\ stage = "verify" => Remaining(stage, n) = 6 - n
           /\ stage = "end" => Remaining(stage, n) = 1
           /\ stage \in {"done", "failed"} <=> Remaining(stage, n) = 0
<1>1. CASE stage \in {"idle", "survey", "begin", "end"}
  BY <1>1 DEF Remaining
<1>2. CASE stage = "empty"
  BY <1>2 DEF Remaining
<1>3. CASE stage = "copy"
  BY <1>3 DEF Remaining
<1>4. CASE stage = "write"
  BY <1>4 DEF Remaining
<1>5. CASE stage = "verify"
  BY <1>5 DEF Remaining
<1>6. CASE stage \in {"done", "failed"}
  BY <1>6 DEF Remaining
<1> QED
  BY <1>1, <1>2, <1>3, <1>4, <1>5, <1>6 DEF Stages

(* The same of a run, before and after a step.                                *)
LEMMA Stands ==
    ASSUME ShapeInv, NEW c \in Copies
    PROVE  pc[c] \in Stages /\ at[c] \in 1..4 /\ Ahead(c) \in 0..20
<1>1. pc[c] \in Stages /\ at[c] \in 1..4
  BY DEF ShapeInv
<1> QED
  BY <1>1, Remains DEF Ahead

(* A run that moves has fewer statements ahead of it than before.             *)
LEMMA Forward ==
    ASSUME ShapeInv, NEW c \in Copies, Moves(c), pc'[c] \in Stages, at'[c] \in 1..4
    PROVE  Ahead(c)' < Ahead(c)
<1> DEFINE p == pc[c]
           n == at[c]
           q == pc'[c]
           m == at'[c]
<1>1. p \in Stages /\ n \in 1..4 /\ q \in Stages /\ m \in 1..4
  BY Stands
<1>2. Ahead(c) = Remaining(p, n) /\ Ahead(c)' = Remaining(q, m)
  BY DEF Ahead
<1>3. CASE Before(c)
  <2>1. \/ p = "idle" /\ q = "survey"
        \/ p = "survey" /\ q = "begin"
        \/ p = "begin" /\ q = "empty" /\ m = 1
        \/ p = "empty" /\ q = "empty" /\ m = n + 1
        \/ p = "empty" /\ q = "copy" /\ n = 4 /\ m = 1
    <3>1. CASE Starts(c)
      BY <3>1 DEF Starts
    <3>2. CASE Surveys(c)
      BY <3>2 DEF Surveys
    <3>3. CASE Begins(c)
      BY <3>3 DEF Begins
    <3>4. CASE Looks(c)
      BY <3>4 DEF Looks
    <3> QED
      BY <1>3, <3>1, <3>2, <3>3, <3>4 DEF Before
  <2> HIDE DEF p, n, q, m
  <2>2. CASE p \in {"idle", "survey"} /\ q \in {"survey", "begin"} /\ p # q
    BY <1>1, <1>2, <2>1, <2>2, Remains
  <2>3. CASE p = "begin" /\ q = "empty" /\ m = 1
    BY <1>1, <1>2, <2>3, Remains
  <2>4. CASE p = "empty" /\ q = "empty" /\ m = n + 1
    BY <1>1, <1>2, <2>4, Remains
  <2>5. CASE p = "empty" /\ q = "copy" /\ n = 4 /\ m = 1
    BY <1>1, <1>2, <2>5, Remains
  <2> QED
    BY <2>1, <2>2, <2>3, <2>4, <2>5
<1>4. CASE Reads(c) \/ Writes(c)
  <2>1. \/ p = "copy" /\ q = "write" /\ m = n
        \/ p = "write" /\ q = "copy" /\ m = n + 1
        \/ p = "write" /\ q = "verify" /\ n = 4 /\ m = 1
    BY <1>4 DEF Reads, Writes
  <2> HIDE DEF p, n, q, m
  <2> QED
    BY <1>1, <1>2, <2>1, Remains
<1>5. CASE Verifies(c) \/ RollsBack(c) \/ Commits(c)
  <2>1. \/ p = "verify" /\ q = "verify" /\ m = n + 1
        \/ p = "verify" /\ q = "end" /\ n = 4
        \/ p = "end" /\ q \in {"done", "failed"}
    BY <1>5 DEF Verifies, RollsBack, Commits
  <2> HIDE DEF p, n, q, m
  <2> QED
    BY <1>1, <1>2, <2>1, Remains
<1>6. CASE Aborts(c)
  <2>1. p \notin {"done", "failed"} /\ q = "failed"
    BY <1>6 DEF Aborts
  <2> HIDE DEF p, n, q, m
  <2>2. Remaining(q, m) = 0 /\ Remaining(p, n) # 0 /\ Remaining(p, n) \in 0..20
    BY <1>1, <2>1, Remains
  <2> QED
    BY <1>2, <2>2
<1> QED
  BY <1>3, <1>4, <1>5, <1>6 DEF Moves

(* Every step of a run leaves it fewer statements than it had, at most twenty *)
(* at the start, and no other step gives it any back: a run that is over is   *)
(* over for good.                                                             *)
RunsAdvance ==
    [][\A c \in Copies :
          /\ Ahead(c) \in 0..20
          /\ Start(c) \/ Step(c) \/ Fail(c) => Ahead(c)' < Ahead(c)
          /\ Ahead(c)' <= Ahead(c)]_vars

(* A run is over after at most twenty steps of its own, whatever the other    *)
(* runs, the server and the strangers do meanwhile.                           *)
THEOREM RunsAreShort == Spec => RunsAdvance
<1> DEFINE On(c) == /\ Ahead(c) \in 0..20
                    /\ Start(c) \/ Step(c) \/ Fail(c) => Ahead(c)' < Ahead(c)
                    /\ Ahead(c)' <= Ahead(c)
<1>1. ASSUME CopyInv, [Next]_vars, NEW c \in Copies PROVE On(c)
  <2>1. ShapeInv /\ FreshInv /\ Ahead(c) \in 0..20
    BY <1>1, Stands DEF CopyInv
  <2>2. ShapeInv'
    BY <1>1, Preserved DEF CopyInv
  <2>3. \A d \in Copies : pc'[d] \in Stages /\ at'[d] \in 1..4
    BY <2>2 DEF ShapeInv
  <2>4. Ahead(c)' \in 0..20
    <3>1. Ahead(c)' = Remaining(pc'[c], at'[c])
      BY DEF Ahead
    <3> QED
      BY <2>3, <3>1, Remains
  <2>5. ASSUME pc'[c] = pc[c], at'[c] = at[c] PROVE Ahead(c)' = Ahead(c)
    BY <2>5 DEF Ahead
  <2>6. ASSUME Start(c) \/ Step(c) \/ Fail(c) PROVE Ahead(c)' < Ahead(c)
    BY <2>1, <2>3, <2>6, Moved, Forward
  <2>7. ASSUME NEW d \in Copies, Moves(d), Others(d) PROVE Ahead(c)' <= Ahead(c)
    <3>1. CASE d = c
      <4>1. Ahead(c)' < Ahead(c)
        BY <2>1, <2>3, <2>7, <3>1, Forward
      <4> QED
        BY <2>1, <2>4, <4>1
    <3>2. CASE d # c
      <4>1. Ahead(c)' = Ahead(c)
        BY <2>5, <2>7, <3>2 DEF Others
      <4> QED
        BY <2>1, <4>1
    <3> QED
      BY <3>1, <3>2
  <2>8. ASSUME Serves \/ Registers PROVE Ahead(c)' <= Ahead(c)
    <3>1. Ahead(c)' = Ahead(c)
      BY <2>5, <2>8 DEF Serves, Registers, Idles
    <3> QED
      BY <2>1, <3>1
  <2>9. Ahead(c)' <= Ahead(c)
    BY <1>1, <2>1, <2>7, <2>8, Steps
  <2> QED
    BY <2>1, <2>6, <2>9
<1>2. CopyInv /\ [Next]_vars => \A c \in Copies : On(c)
  BY <1>1
<1> QED
  BY <1>2, Invariant, PTL DEF Spec, RunsAdvance

(* The runs whose transactions wait do so in an order: each for one that has  *)
(* fewer statements ahead.  So of the runs that are under way there is always *)
(* one that waits for nobody, and no two wait for each other.                 *)
WaitsFor(c, d) ==
    pc[c] = "write" /\ d # c /\ Clash(Here(c), read[c][Here(c)], tx[d][Here(c)])
OneIsFree ==
    /\ \A c, d \in Copies : WaitsFor(c, d) => Running(d) /\ Ahead(d) < Ahead(c)
    /\ (\E c \in Copies : Running(c)) =>
          \E c \in Copies : Running(c) /\ \A d \in Copies : ~WaitsFor(c, d)

Below == {p \in Nat \X Nat : p[1] < p[2]}
(* A set of natural numbers that is not empty has a least one.                *)
LEMMA Least ==
    ASSUME NEW S, S \subseteq Nat, S # {}
    PROVE  \E m \in S : \A k \in S : m <= k
<1>1. IsWellFoundedOn(Below, Nat)
  BY NatLessThanWellFounded DEF OpToRel, Below
<1>2. PICK m \in S : \A k \in S : <<k, m>> \notin Below
  BY <1>1, WFMin
<1>3. m \in Nat
  OBVIOUS
<1>4. ASSUME NEW k \in S PROVE m <= k
  <2>1. k \in Nat /\ <<k, m>> \in Nat \X Nat /\ ~(k < m)
    BY <1>2, <1>3, <1>4 DEF Below
  <2> QED
    BY <1>3, <2>1
<1> QED
  BY <1>4

(* Concurrent runs never deadlock on each other's rows in the target.         *)
THEOREM RunsNeverDeadlock == Spec => []OneIsFree
<1>1. ASSUME CopyInv, NEW c \in Copies, NEW d \in Copies, WaitsFor(c, d)
      PROVE  Running(d) /\ Ahead(d) < Ahead(c)
  <2>1. ShapeInv /\ PlaceInv
    BY <1>1 DEF CopyInv
  <2> DEFINE i == at[c]
             k == at[d]
  <2>2. i \in 1..4 /\ k \in 1..4 /\ pc[c] = "write" /\ Here(c) = Names[i] /\ Ahead(c) = 14 - 2 * i
    BY <1>1, <2>1, Stands, Remains DEF WaitsFor, Here, Ahead
  <2>3. tx[d][Names[i]] # Empty
    BY <1>1, <2>2, EmptyTable DEF WaitsFor, Clash
  <2>4. Written(d, i) /\ pc[d] \in Stages
    BY <2>1, <2>2, <2>3, Stands DEF PlaceInv
  <2>5. \/ pc[d] \in {"verify", "end"}
        \/ pc[d] \in {"copy", "write"} /\ i < k
    BY <2>4 DEF Written
  <2>6. Ahead(d) = Remaining(pc[d], k)
    BY DEF Ahead
  <2>7. Running(d)
    BY <2>5 DEF Running
  <2> HIDE DEF i, k
  <2>8. CASE pc[d] \in {"verify", "end"}
    BY <2>2, <2>4, <2>6, <2>7, <2>8, Remains
  <2>9. CASE pc[d] \in {"copy", "write"} /\ i < k
    BY <2>2, <2>4, <2>6, <2>7, <2>9, Remains
  <2> QED
    BY <2>5, <2>8, <2>9
<1>2. ASSUME CopyInv, NEW c \in Copies, Running(c)
      PROVE  \E b \in Copies : Running(b) /\ \A d \in Copies : ~WaitsFor(b, d)
  <2> DEFINE S == {Ahead(b) : b \in {b \in Copies : Running(b)}}
  <2>1. S \subseteq Nat /\ S # {}
    BY <1>2, Stands DEF CopyInv
  <2>2. PICK m \in S : \A k \in S : m <= k
    <3> HIDE DEF S
    <3> QED
      BY <2>1, Least
  <2>3. PICK b \in Copies : Running(b) /\ m = Ahead(b)
    OBVIOUS
  <2>4. ASSUME NEW d \in Copies, WaitsFor(b, d) PROVE FALSE
    <3>1. Running(d) /\ Ahead(d) < Ahead(b)
      BY <1>1, <1>2, <2>3, <2>4
    <3>2. Ahead(b) <= Ahead(d)
      BY <2>2, <2>3, <3>1
    <3>3. Ahead(b) \in 0..20 /\ Ahead(d) \in 0..20
      BY <1>2, Stands DEF CopyInv
    <3> QED
      BY <3>1, <3>2, <3>3
  <2> QED
    BY <2>3, <2>4
<1>3. CopyInv => OneIsFree
  BY <1>1, <1>2 DEF OneIsFree
<1> QED
  BY <1>3, Invariant, PTL

=============================================================================
