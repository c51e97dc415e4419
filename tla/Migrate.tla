------------------------------ MODULE Migrate ------------------------------
(* bastion-migrate-store: copying a SQLite store into a PostgreSQL one        *)
(* (migrate.rs).  The source is read table by table and not in a transaction, *)
(* possibly while a server still writes to it; everything written goes into   *)
(* one transaction of the target, which is verified and then committed or, in *)
(* a dry run, rolled back.  Several copies may run at once (an operator who   *)
(* retries too early) and somebody else may already register on the target.  *)
EXTENDS Tables

CONSTANTS Copies,     \* runs of the program
          Plans,      \* which of them are dry runs
          Sources,    \* the databases the server may have left
          Jobs,       \* requests of a server that was not stopped: statements
          Strangers   \* registrations on the target

VARIABLES source, writing, jobs,   \* the file, the request under way, those to come
          target, strange,         \* committed rows, ids that are a stranger's
          pc, at, dry,             \* where each copy is, at which table, --dry-run
          surveyed, read, tx,      \* what it counted, read and wrote
          landed,                  \* its COMMIT took effect
          dead, quiet              \* histories: tokens spent or revoked when it began,
                                   \* no write to the file since it was surveyed
server == <<source, writing, jobs>>
other == <<target, strange>>
copy == <<pc, at, dry, surveyed, read, tx, landed, dead, quiet>>
vars == <<server, other, copy>>

Lite == INSTANCE SqliteStore
Post == INSTANCE PostgresStore

Names == <<"users", "notes", "refresh", "access">>
Table == {Names[i] : i \in DOMAIN Names}
Uncounted == [T \in Table |-> 0]
NoRows == [T \in Table |-> Empty]
Here(c) == Names[at[c]]
Usable(r) == r.used = Null /\ ~r.revoked

(* The columns of the four tables, and the statements of their repositories:  *)
(* none of them deletes a user.  An id is random or the digest of a random    *)
(* token, so nobody ever chooses one that was in use before, at either end.   *)
Columns(T) ==
    CASE T = "users" -> {"email", "hash", "role", "failed", "until", "created"}
      [] T = "notes" -> {"owner", "text", "created", "updated"}
      [] T = "refresh" -> {"user", "family", "expires", "used", "revoked"}
      [] T = "access" -> {"user", "session", "role", "expires"}
Statements(T) ==
    CASE T = "users" -> {"user_insert", "find_by_id", "find_by_email", "record_failed_login",
                         "clear_login_failures", "update_password_hash", "set_role"}
      [] T = "notes" -> {"create", "get", "update", "delete"}
      [] T = "refresh" -> {"refresh_insert", "refresh_find", "mark_used", "revoke_family",
                           "revoke_all", "refresh_expired"}
      [] T = "access" -> {"access_insert", "access_find", "delete_by_session", "delete_all",
                          "access_expired", "ping"}
Insert(q) == q.op \in {"user_insert", "create", "refresh_insert", "access_insert"}
Elsewhere == {q.id : q \in Strangers}
Whole(T, t) ==
    /\ IsFiniteSet(DOMAIN t) /\ DOMAIN t \cap Elsewhere = {}
    /\ t = [k \in DOMAIN t |-> [x \in Columns(T) |-> t[k][x]]]
Statement(q) ==
    /\ q.table \in Table /\ q.op \in Statements(q.table)
    /\ Insert(q) => q.id \notin Elsewhere
NewIds(j) == {j[i].id : i \in {i \in DOMAIN j : Insert(j[i])}}

ASSUME MigrateAssumption ==
    /\ \A s \in Sources : s = [T \in Table |-> s[T]] /\ \A T \in Table : Whole(T, s[T])
    /\ \A j \in Jobs : j \in Seq({j[i] : i \in DOMAIN j}) /\ \A i \in DOMAIN j : Statement(j[i])
    /\ \A j \in Jobs : \A i, l \in DOMAIN j :
          Insert(j[i]) /\ Insert(j[l]) /\ j[i].id = j[l].id => i = l
    /\ \A j \in Jobs : \A s \in Sources, T \in Table : NewIds(j) \cap DOMAIN s[T] = {}
    /\ \A j, l \in Jobs : j # l => NewIds(j) \cap NewIds(l) = {}

(* A request issues at most one refresh token: a login in a family of its own, *)
(* a refresh in that of the token it has just marked used, which is of one     *)
(* family wherever its id appears.  Such a server leaves a database where no   *)
(* family has two usable tokens (Sessions).                                    *)
Issue(q) == q.op = "refresh_insert"
OfFamily(k, f) ==
    /\ \A s \in Sources : k \in DOMAIN s.refresh => s.refresh[k].family = f
    /\ \A j \in Jobs : \A i \in DOMAIN j : Issue(j[i]) /\ j[i].id = k => j[i].family = f
Exchanged(j, i) == \E l \in DOMAIN j : l < i /\ j[l].op = "mark_used" /\ OfFamily(j[l].id, j[i].family)
Opens(j, i) == i \in DOMAIN j /\ Issue(j[i]) /\ ~Exchanged(j, i)
OneUsable(t) ==
    \A k, l \in DOMAIN t : Usable(t[k]) /\ Usable(t[l]) /\ t[k].family = t[l].family => k = l

ASSUME SessionAssumption ==
    /\ \A s \in Sources : OneUsable(s.refresh)
    /\ \A j \in Jobs : \A i, l \in DOMAIN j : Issue(j[i]) /\ Issue(j[l]) => i = l
    /\ \A j \in Jobs, s \in Sources : \A i \in DOMAIN j : Opens(j, i) =>
          \A k \in DOMAIN s.refresh : s.refresh[k].family # j[i].family
    /\ \A j, h \in Jobs : \A i \in DOMAIN j, l \in DOMAIN h : Opens(j, i) /\ Opens(h, l) /\ j[i].family = h[l].family => j = h

Init ==
    /\ source \in Sources /\ writing = <<>> /\ jobs = Jobs
    /\ target = NoRows /\ strange = {}
    /\ pc = [c \in Copies |-> "idle"] /\ at = [c \in Copies |-> 1]
    /\ dry \in {[c \in Copies |-> c \in D] : D \in Plans}
    /\ surveyed = [c \in Copies |-> Uncounted]
    /\ read = [c \in Copies |-> NoRows] /\ tx = [c \in Copies |-> NoRows]
    /\ landed = [c \in Copies |-> FALSE]
    /\ dead = [c \in Copies |-> {}] /\ quiet = [c \in Copies |-> TRUE]

-----------------------------------------------------------------------------
(* The server that was not stopped: a request is a sequence of statements and *)
(* ends early when a conditional one matches nothing.                         *)
Accept ==
    /\ writing = <<>>
    /\ \E j \in jobs : writing' = j /\ jobs' = jobs \ {j}
    /\ UNCHANGED <<source, other, copy>>
Execute ==
    /\ writing # <<>>
    /\ LET q == Head(writing)
           o == Lite!Method(source[q.table], q, 0)
       IN  /\ source' = [source EXCEPT ![q.table] = o.table]
           /\ writing' = IF o.answer = <<"flag", FALSE>> THEN <<>> ELSE Tail(writing)
           /\ quiet' = [c \in Copies |-> quiet[c] /\ source' = source]
    /\ UNCHANGED <<jobs, other, pc, at, dry, surveyed, read, tx, landed, dead>>

(* Somebody registers on the target: PostgreSQL makes the INSERT wait for a   *)
(* transaction that wrote the same address.                                   *)
Register ==
    /\ \E q \in Strangers :
        /\ q.id \notin strange
        /\ \A c \in Copies : Where(tx[c].users, LAMBDA r : r.email = q.email) = {}
        /\ target' = [target EXCEPT !.users = Post!UserInsert(target.users, q, 0).table]
        /\ strange' = strange \cup {q.id}
    /\ UNCHANGED <<server, copy>>

-----------------------------------------------------------------------------
(* The rows as they are bound, column by column. *)
(* Mutants of the column lists: what a copy through the ports would bind. *)
CopyUserAsNew(r) ==
    [email |-> r.email, hash |-> r.hash, role |-> r.role, failed |-> 0, until |-> Null, created |-> r.created]
CopyRefreshUnspent(r) ==
    [user |-> r.user, family |-> r.family, expires |-> r.expires, used |-> Null, revoked |-> r.revoked]
CopyRefreshUnrevoked(r) ==
    [user |-> r.user, family |-> r.family, expires |-> r.expires, used |-> r.used, revoked |-> FALSE]
CopyUser(r) ==
    [email |-> r.email, hash |-> r.hash, role |-> r.role,
     failed |-> r.failed, until |-> r.until, created |-> r.created]
CopyNote(r) == [owner |-> r.owner, text |-> r.text, created |-> r.created, updated |-> r.updated]
CopyRefresh(r) ==
    [user |-> r.user, family |-> r.family, expires |-> r.expires, used |-> r.used, revoked |-> r.revoked]
CopyAccess(r) == [user |-> r.user, session |-> r.session, role |-> r.role, expires |-> r.expires]
Copied(T, r) ==
    CASE T = "users" -> CopyUser(r) [] T = "notes" -> CopyNote(r)
      [] T = "refresh" -> CopyRefresh(r) [] T = "access" -> CopyAccess(r)

Goto(c, label) == pc' = [pc EXCEPT ![c] = label] /\ at' = [at EXCEPT ![c] = 1]
Onward(c, label) ==
    IF at[c] < Len(Names) THEN at' = [at EXCEPT ![c] = @ + 1] /\ UNCHANGED pc ELSE Goto(c, label)

(* Mutant: the transaction of a failed run is left open. *)
AbortLeavesOpen(c) == Goto(c, "failed") /\ UNCHANGED <<read, tx, surveyed, dead, quiet>>
(* The run ends with an error: the transaction rolls back, the process exits.  *)
Abort(c) ==
    /\ Goto(c, "failed")
    /\ read' = [read EXCEPT ![c] = NoRows] /\ tx' = [tx EXCEPT ![c] = NoRows]
    /\ surveyed' = [surveyed EXCEPT ![c] = Uncounted] /\ dead' = [dead EXCEPT ![c] = {}]
    /\ quiet' = [quiet EXCEPT ![c] = TRUE]

(* main: survey, printed before anything is touched (its four counts are only  *)
(* compared with a copy when nothing was written since, so they are one step). *)
Start(c) ==
    /\ pc[c] = "idle" /\ Goto(c, "survey")
    /\ UNCHANGED <<server, other, dry, surveyed, read, tx, landed, dead, quiet>>
Survey(c) ==
    /\ pc[c] = "survey"
    /\ surveyed' = [surveyed EXCEPT ![c] = [T \in Table |-> Cardinality(DOMAIN source[T])]]
    /\ quiet' = [quiet EXCEPT ![c] = TRUE]
    /\ Goto(c, "begin")
    /\ UNCHANGED <<server, other, dry, read, tx, landed, dead>>

(* sqlite_to_postgres: both ends are open and the transaction begins. *)
Begin(c) ==
    /\ pc[c] = "begin" /\ Goto(c, "empty")
    /\ dead' = [dead EXCEPT ![c] = {k \in DOMAIN source.refresh : ~Usable(source.refresh[k])}]
    /\ UNCHANGED <<server, other, dry, surveyed, read, tx, landed, quiet>>

(* ensure_empty: a row anywhere ends the run. *)
EnsureEmpty(c) ==
    /\ pc[c] = "empty"
    /\ IF target[Here(c)] = Empty
       THEN Onward(c, "copy") /\ UNCHANGED <<read, tx, surveyed, dead, quiet>>
       ELSE Abort(c)
    /\ UNCHANGED <<server, other, dry, landed>>

(* copy_users, copy_notes, copy_refresh_tokens, copy_access_tokens: one SELECT *)
(* of the file ...                                                             *)
Read(c) ==
    /\ pc[c] = "copy" /\ pc' = [pc EXCEPT ![c] = "write"]
    /\ read' = [read EXCEPT ![c][Here(c)] =
         [k \in DOMAIN source[Here(c)] |-> Copied(Here(c), source[Here(c)][k])]]
    /\ UNCHANGED <<server, other, at, dry, surveyed, tx, landed, dead, quiet>>

(* ... and INSERTs into the target, which wait for another transaction with   *)
(* the same keys, and fail on a committed one or on a missing user.           *)
Sees(c, T) == DOMAIN target[T] \cup DOMAIN tx[c][T]
Clash(T, new, old) ==
    \/ DOMAIN new \cap DOMAIN old # {}
    \/ T = "users" /\ \E k \in DOMAIN new, l \in DOMAIN old : new[k].email = old[l].email
Blocked(c) == \E d \in Copies \ {c} : Clash(Here(c), read[c][Here(c)], tx[d][Here(c)])
Orphan(T, r, users) ==
    CASE T = "users" -> FALSE [] T = "notes" -> r.owner \notin users [] OTHER -> r.user \notin users
(* Mutant: rows that exist are overwritten, as with ON CONFLICT DO UPDATE. *)
NeverRefused(c) == FALSE
Refused(c) ==
    LET T == Here(c)
        new == read[c][T]
    IN  Clash(T, new, target[T]) \/ \E k \in DOMAIN new : Orphan(T, new[k], Sees(c, "users"))
Write(c) ==
    /\ pc[c] = "write" /\ ~Blocked(c)
    /\ IF Refused(c)
       THEN Abort(c)
       ELSE /\ tx' = [tx EXCEPT ![c][Here(c)] = read[c][Here(c)]]
            /\ IF at[c] < Len(Names)
               THEN pc' = [pc EXCEPT ![c] = "copy"] /\ at' = [at EXCEPT ![c] = @ + 1]
               ELSE Goto(c, "verify")
            /\ UNCHANGED <<read, surveyed, dead, quiet>>
    /\ UNCHANGED <<server, other, dry, landed>>

(* verify: the transaction counts what the target now holds. *)
Verify(c) ==
    /\ pc[c] = "verify"
    /\ IF Cardinality(Sees(c, Here(c))) = Cardinality(DOMAIN read[c][Here(c)])
       THEN Onward(c, "end") /\ UNCHANGED <<read, tx, surveyed, dead, quiet>>
       ELSE Abort(c)
    /\ UNCHANGED <<server, other, dry, landed>>

RollBack(c) ==
    /\ pc[c] = "end" /\ dry[c] /\ Goto(c, "done")
    /\ tx' = [tx EXCEPT ![c] = NoRows]
    /\ UNCHANGED <<server, other, dry, surveyed, read, landed, dead, quiet>>
(* The answer to COMMIT may be lost with the connection: the run then reports *)
(* an error.                                                                  *)
Commit(c) ==
    /\ pc[c] = "end" /\ ~dry[c]
    /\ target' = [T \in Table |-> [k \in Sees(c, T) |->
                    IF k \in DOMAIN tx[c][T] THEN tx[c][T][k] ELSE target[T][k]]]
    /\ tx' = [tx EXCEPT ![c] = NoRows] /\ landed' = [landed EXCEPT ![c] = TRUE]
    /\ Goto(c, "done") \/ Goto(c, "failed")
    /\ UNCHANGED <<server, strange, dry, surveyed, read, dead, quiet>>

(* Any `?': a pool that does not open, a statement that errors, a crash, a    *)
(* COMMIT that never arrives.  The transaction rolls back.                    *)
Running(c) == pc[c] \notin {"idle", "done", "failed"}
Fail(c) ==
    /\ Running(c) /\ Abort(c)
    /\ UNCHANGED <<server, other, dry, landed>>

Step(c) ==
    \/ Survey(c) \/ Begin(c) \/ EnsureEmpty(c) \/ Read(c) \/ Write(c) \/ Verify(c)
    \/ RollBack(c) \/ Commit(c)
Next == Accept \/ Execute \/ Register \/ \E c \in Copies : Start(c) \/ Step(c) \/ Fail(c)

Spec == Init /\ [][Next]_vars
(* A run that has been started is never paused; it may wait for another.      *)
FairSpec == Spec /\ \A c \in Copies : WF_vars(Step(c))

-----------------------------------------------------------------------------
(* Each run is at one of the program's stages, holds a transaction only while  *)
(* it copies, and has written exactly the tables it has read.                  *)
TypeOK ==
    \A c \in Copies :
    /\ pc[c] \in {"idle", "survey", "begin", "empty", "copy", "write", "verify", "end",
                  "done", "failed"}
    /\ at[c] \in DOMAIN Names /\ (at[c] > 1 => pc[c] \in {"empty", "copy", "write", "verify"})
    /\ tx[c] # NoRows => pc[c] \in {"copy", "write", "verify", "end"}
    /\ \A T \in Table : tx[c][T] \in {Empty, read[c][T]}
    /\ landed[c] => pc[c] \in {"done", "failed"}

(* The target holds nothing of the source, or everything one run read and     *)
(* nothing else: a run that failed, crashed, met another run or was dry       *)
(* leaves no row, and two runs never mix theirs.                              *)
Own(T) == [k \in DOMAIN target[T] \ strange |-> target[T][k]]
AllOrNothing ==
    \/ \A T \in Table : Own(T) = Empty
    \/ \E c \in Copies : landed[c] /\ \A T \in Table : Own(T) = read[c][T]

(* A refresh token that was spent or revoked when the run began is not usable *)
(* in the target, whatever the server went on writing.                        *)
SpentStaysSpent ==
    \A c \in Copies : landed[c] =>
        \A k \in dead[c] \cap DOMAIN target.refresh : ~Usable(target.refresh[k])

(* A session is carried across at most once: a rotation that is under way      *)
(* while the tables are read never leaves two usable tokens of one family.     *)
OneLivePerFamily ==
    \A k, l \in DOMAIN target.refresh :
        /\ Usable(target.refresh[k]) /\ Usable(target.refresh[l])
        /\ target.refresh[k].family = target.refresh[l].family
        => k = l

(* When nothing was written to the file from the survey on, a run that says it *)
(* succeeded carried the database across exactly, and what it prints is what   *)
(* the operator was shown before.                                              *)
QuietCopyIsExact ==
    \A c \in Copies : pc[c] = "done" /\ quiet[c] =>
        \A T \in Table :
            /\ read[c][T] = source[T] /\ surveyed[c][T] = Cardinality(DOMAIN source[T])
            /\ ~dry[c] => Own(T) = source[T]

(* Every run that was started ends: two runs wait for each other's keys in one *)
(* order only, users first.                                                    *)
EveryRunEnds == \A c \in Copies : pc[c] = "survey" ~> pc[c] \in {"done", "failed"}
=============================================================================
