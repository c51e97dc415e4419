---------------------------- MODULE StoresProofs ----------------------------
(* Theorems about Stores, for any clients, calls, backends, clock and size of *)
(* a page.                                                                    *)
EXTENDS Stores, FiniteSetTheorems, SequenceTheorems, TLAPS

-----------------------------------------------------------------------------
(* The invariant.                                                             *)

(* A call under way, as the service passed it on, and the second half of a    *)
(* listing.                                                                   *)
Asking(q) ==
    /\ q.table = table /\ q.op \in DOMAIN Ports[table]
    /\ DOMAIN q = {"table", "op", "since"} \cup Ports[table][q.op]
    /\ \A f \in DOMAIN q \cap Numbers : q[f] \in Int
    /\ q.since \in Int /\ q.since <= now
    /\ q.op = "list" => q.limit \in 1..MaxPage /\ q.offset \in Nat
Paging(q) == q.op = "total" /\ table = "notes" /\ q.limit \in 1..MaxPage /\ q.offset \in Nat
CallsInv ==
    /\ backend \in Backends /\ table \in DOMAIN Ports /\ now \in StartTime..MaxTime
    /\ DOMAIN calls = Clients /\ DOMAIN seen = Clients
    /\ DOMAIN work = Clients /\ DOMAIN took = Clients
    /\ \A c \in Clients : calls[c] = NoCall \/ Paging(calls[c]) \/ Asking(calls[c])

(* Rows of a table are whole. *)
Whole(row) ==
    /\ DOMAIN row = Columns[table]
    /\ table \in {"refresh", "access"} => row.expires \in Int
RowsInv ==
    /\ rows = [k \in DOMAIN rows |-> rows[k]]
    /\ \A k \in DOMAIN rows : Whole(rows[k])

(* What a MySQL transaction wrote at an instant: a new row, or the row of an  *)
(* update, which is the committed one if it is not the caller's.              *)
Written(q, at) ==
    CASE q.op = "user_insert" -> [k \in {q.id} |-> NewUserRow(q, at)]
      [] q.op = "create" -> [k \in {q.id} |-> NewNoteRow(q, at)]
      [] q.op = "update" ->
            [k \in Keyed(rows, q.id) |->
                IF rows[k].owner = q.owner THEN [rows[k] EXCEPT !.text = q.text, !.updated = at] ELSE rows[k]]
(* An open transaction holds what it wrote, and its locks keep that true:     *)
(* nobody else writes the row, or claims the id or the address.               *)
Standing(c) ==
    /\ \E at \in calls[c].since..now : work[c] = Written(calls[c], at)
    /\ calls[c].op \in Inserts => ~Contract!Refused(calls[c])
Apart(c, d) ==
    /\ calls[c].id # calls[d].id
    /\ calls[c].op = "user_insert" /\ calls[d].op = "user_insert" => calls[c].email # calls[d].email
TransactionsInv ==
    /\ open \subseteq {c \in Clients : Transacted(calls[c])}
    /\ \A c \in Clients \ open : work[c] = Empty
    /\ \A c \in open : Standing(c)
    /\ \A c, d \in open : c # d => Apart(c, d)

(* Ids are given out once; the ids that are spent are those of rows that are  *)
(* gone, or, for a revocation, gone or revoked.                               *)
Gone == used \ (DOMAIN rows \cup Inserting)
Spent(q) ==
    IF q.op \in Contract!Revokes THEN Gone \cup {k \in DOMAIN rows : rows[k].revoked} ELSE Gone
IdsInv ==
    /\ IsFiniteSet(used) /\ DOMAIN rows \subseteq used
    /\ \A c \in Clients : calls[c].op \in Inserts => calls[c].id \in used \ DOMAIN rows
    /\ \A c, d \in Clients :
        c # d /\ calls[c].op \in Inserts /\ calls[d].op \in Inserts => calls[c].id # calls[d].id
TookInv == \A c \in Clients : took[c] \in Nat /\ took[c] <= Cardinality(Spent(calls[c]))

(* A page is as long as the notes seen with it allow. *)
PageInv ==
    \A c \in Clients : calls[c].op = "total" =>
        /\ IsFiniteSet(seen[c])
        /\ Len(calls[c].page) = Clamped(Cardinality(seen[c]) - calls[c].offset, 0, calls[c].limit)

StoresInv == CallsInv /\ RowsInv /\ TransactionsInv /\ IdsInv /\ TookInv /\ PageInv

-----------------------------------------------------------------------------
(* The calls.                                                                 *)

(* Which methods a table has.                                                 *)
MethodOf(op, t) ==
    CASE t = "users" -> op \in Contract!Sets \cup {"user_insert", "find_by_id", "find_by_email"}
      [] t = "notes" -> op \in {"create", "get", "list", "update", "delete"}
      [] t = "refresh" -> op \in Contract!Revokes \cup
                            {"refresh_insert", "refresh_find", "mark_used", "refresh_expired"}
      [] t = "access" -> op \in {"access_insert", "access_find", "delete_by_session", "delete_all",
                                 "access_expired", "ping"}

(* The methods of the port a call is for.                                     *)
LEMMA PortMethods ==
    ASSUME NEW t \in DOMAIN Ports, NEW op \in DOMAIN Ports[t]
    PROVE  MethodOf(op, t)
<1>1. CASE t = "users"
  BY <1>1 DEF Ports, MethodOf, Contract!Sets
<1>2. CASE t = "notes"
  BY <1>2 DEF Ports, MethodOf
<1>3. CASE t = "refresh"
  BY <1>3 DEF Ports, MethodOf, Contract!Revokes
<1>4. CASE t = "access"
  BY <1>4 DEF Ports, MethodOf
<1> QED
  BY <1>1, <1>2, <1>3, <1>4 DEF Ports

(* What the methods that decide by numbers, ids or owners are given.          *)
LEMMA PortArguments ==
    ASSUME NEW t \in DOMAIN Ports, NEW op \in DOMAIN Ports[t]
    PROVE  /\ op \in Inserts => "id" \in Ports[t][op]
           /\ op \in {"refresh_insert", "access_insert"} => "expires" \in Ports[t][op]
           /\ op = "record_failed_login" => "until" \in Ports[t][op]
           /\ op \in Contract!Sweeps => "at" \in Ports[t][op]
           /\ op = "list" => {"limit", "offset"} \subseteq Ports[t][op]
<1>1. CASE t = "users"
  BY <1>1 DEF Ports, Inserts, Contract!Sweeps
<1>2. CASE t = "notes"
  BY <1>2 DEF Ports, Inserts, Contract!Sweeps
<1>3. CASE t = "refresh"
  BY <1>3 DEF Ports, Inserts, Contract!Sweeps
<1>4. CASE t = "access"
  BY <1>4 DEF Ports, Inserts, Contract!Sweeps
<1> QED
  BY <1>1, <1>2, <1>3, <1>4 DEF Ports

-----------------------------------------------------------------------------
(* What the backends do with a method of one statement, as the contract says. *)

(* A time as the backend keeps it.                                            *)
Loss == IF backend = "mongo" THEN Grain - 1 ELSE 0
Kept(at) == IF backend = "mongo" THEN Mongo!ToTime(at) ELSE at

(* MongoDB truncates by less than a millisecond, the others not at all.       *)
LEMMA Rounding ==
    ASSUME CallsInv, NEW at \in Int
    PROVE  /\ Kept(at) \in Int /\ Kept(at) \in Contract!Stored(at)
           /\ at # Null => Kept(at) <= at /\ at - Loss <= Kept(at)
<1>1. CASE backend = "mongo"
  <2>1. Grain \in Nat /\ Grain > 0
    BY StoresAssumption
  <2>2. at % Grain \in 0..Grain - 1
    BY <2>1
  <2> QED
    BY <1>1, <2>1, <2>2 DEF Kept, Loss, Mongo!ToTime, Contract!Stored, Null, Mongo!Null, Contract!Null
<1>2. CASE backend # "mongo"
  BY <1>2 DEF Kept, Loss, Contract!Stored, Null, Contract!Null
<1> QED
  BY <1>1, <1>2

(* The numbers of a call, and the instant a row of it is stamped with.        *)
LEMMA CallNumbers ==
    ASSUME CallsInv, NEW q, Asking(q)
    PROVE  /\ q.op \in {"refresh_insert", "access_insert"} =>
                q.expires \in Int /\ Kept(q.expires) \in Contract!Stored(q.expires)
           /\ q.op = "record_failed_login" => Kept(q.until) \in Contract!Stored(q.until)
           /\ q.op \in Contract!Sweeps => q.at \in Int
           /\ Kept(now) \in Contract!Stamps(q) /\ now \in Nat
<1>1. q.op \in DOMAIN Ports[table] /\ table \in DOMAIN Ports
  BY DEF CallsInv, Asking
<1>2. \A f \in Ports[table][q.op] \cap Numbers : q[f] \in Int
  BY DEF Asking
<1>3. {"expires", "until", "at"} \subseteq Numbers
  BY DEF Numbers
<1>4. /\ q.op \in {"refresh_insert", "access_insert"} => q.expires \in Int
      /\ q.op = "record_failed_login" => q.until \in Int
      /\ q.op \in Contract!Sweeps => q.at \in Int
  BY <1>1, <1>2, <1>3, PortArguments, Zenon
<1>5. now \in Nat /\ StartTime \in Nat
  BY StoresAssumption DEF CallsInv
<1>6. Kept(now) \in Contract!Stamps(q)
  <2>1. now # Null
    BY <1>5 DEF Null
  <2>2. q.since \in Int /\ q.since <= now
    BY DEF Asking
  <2>3. Grain \in Nat /\ Kept(now) \in Int /\ Kept(now) <= now /\ now - Loss <= Kept(now) /\ Loss \in Int
    BY <1>5, <2>1, Rounding, StoresAssumption DEF Loss
  <2>4. q.since - Loss \in Int /\ q.since - Loss <= Kept(now)
    BY <1>5, <2>2, <2>3
  <2> QED
    BY <1>5, <2>3, <2>4 DEF Contract!Stamps, Loss
<1> QED
  BY <1>4, <1>5, <1>6, Rounding

USE DEF Lite!Reply, Lite!Conflict, Lite!Done, Lite!Flag, Lite!Count, Lite!Rows,
        Lite!Where, Lite!Keyed, Lite!Put, Lite!Change, Lite!Without, Lite!OneRow,
        Lite!Taken, Lite!NewUserRow, Lite!NewNoteRow, Lite!NewRefreshRow,
        Lite!NewAccessRow, Lite!Null, Post!Reply, Post!Conflict, Post!Done,
        Post!Flag, Post!Count, Post!Rows, Post!Where, Post!Keyed, Post!Put,
        Post!Change, Post!Without, Post!OneRow, Post!Taken, Post!NewUserRow,
        Post!NewNoteRow, Post!NewRefreshRow, Post!NewAccessRow, Post!Null,
        My!Reply, My!Conflict, My!Done, My!Flag, My!Count, My!Rows, My!Where,
        My!Keyed, My!Put, My!Change, My!Without, My!OneRow, My!Taken,
        My!NewUserRow, My!NewNoteRow, My!NewRefreshRow, My!NewAccessRow, My!Null,
        Mongo!Reply, Mongo!Conflict, Mongo!Done, Mongo!Flag, Mongo!Count,
        Mongo!Rows, Mongo!Where, Mongo!Keyed, Mongo!Put, Mongo!Change,
        Mongo!Without, Mongo!OneRow, Mongo!Taken, Mongo!NewUserRow,
        Mongo!NewNoteRow, Mongo!NewRefreshRow, Mongo!NewAccessRow, Mongo!Null

(* The methods that find rows.                                                *)
LEMMA FindReplies ==
    ASSUME CallsInv, NEW q, q.op \in Contract!Finds
    PROVE  Method(q) \in Contract!Find(q)
<1>0. backend \in {"sqlite", "postgres", "mysql", "mongo"}
  BY StoresAssumption DEF CallsInv
<1> DEFINE found(S) == [table |-> rows, answer |-> <<"rows", [k \in S |-> rows[k]]>>]
<1>1. q.op = "find_by_id" => Method(q) = found({q.id} \cap DOMAIN rows)
  BY <1>0 DEF Method, Lite!Method, Post!Method, My!Method, Mongo!Method,
        Lite!UserFindById, Post!UserFindById, My!UserFindById, Mongo!UserFindById
<1>2. q.op = "find_by_email" => Method(q) = found({k \in DOMAIN rows : rows[k].email = q.email})
  BY <1>0 DEF Method, Lite!Method, Post!Method, My!Method, Mongo!Method,
        Lite!UserFindByEmail, Post!UserFindByEmail, My!UserFindByEmail,
        Mongo!UserFindByEmail
<1>3. q.op = "get" => Method(q) = found({k \in {q.id} \cap DOMAIN rows : rows[k].owner = q.owner})
  BY <1>0 DEF Method, Lite!Method, Post!Method, My!Method, Mongo!Method,
        Lite!NoteFindOwned, Post!NoteFindOwned, My!NoteFindOwned,
        Mongo!NoteFindOwned, Lite!Owned, Post!Owned, My!Owned, Mongo!Owned
<1>4. q.op = "refresh_find" => Method(q) = found({q.id} \cap DOMAIN rows)
  BY <1>0 DEF Method, Lite!Method, Post!Method, My!Method, Mongo!Method,
        Lite!RefreshFind, Post!RefreshFind, My!RefreshFind, Mongo!RefreshFind
<1>5. q.op = "access_find" => Method(q) = found({q.id} \cap DOMAIN rows)
  BY <1>0 DEF Method, Lite!Method, Post!Method, My!Method, Mongo!Method,
        Lite!AccessFind, Post!AccessFind, My!AccessFind, Mongo!AccessFind
<1> QED
  BY <1>1, <1>2, <1>3, <1>4, <1>5
  DEF Contract!Finds, Contract!Find, Contract!Owns, Contract!Rows, Contract!Reply,
      Contract!Keyed, Contract!Where

(* The methods that set columns of an account.                                *)
LEMMA SetReplies ==
    ASSUME CallsInv, NEW q, Asking(q), q.op \in Contract!Sets
    PROVE  Method(q) \in Contract!SetUser(q)
<1>0. backend \in {"sqlite", "postgres", "mysql", "mongo"}
  BY StoresAssumption DEF CallsInv
<1> DEFINE set(F(_)) ==
      [table |-> [k \in DOMAIN rows |-> IF k \in {q.id} THEN F(rows[k]) ELSE rows[k]], answer |-> <<"done">>]
<1>1. q.op = "record_failed_login" => Method(q) = set(LAMBDA r : [r EXCEPT !.failed = q.attempts, !.until = Kept(q.until)])
  BY <1>0 DEF Method, Lite!Method, Post!Method, My!Method, Mongo!Method,
        Lite!UserRecordFailedLogin, Post!UserRecordFailedLogin,
        My!UserRecordFailedLogin, Mongo!UserRecordFailedLogin, Kept, Null
<1>2. q.op = "clear_login_failures" => Method(q) = set(LAMBDA r : [r EXCEPT !.failed = 0, !.until = Null])
  BY <1>0 DEF Method, Lite!Method, Post!Method, My!Method, Mongo!Method,
        Lite!UserClearLoginFailures, Post!UserClearLoginFailures,
        My!UserClearLoginFailures, Mongo!UserClearLoginFailures, Kept, Null
<1>3. q.op = "update_password_hash" => Method(q) = set(LAMBDA r : [r EXCEPT !.hash = q.hash])
  BY <1>0 DEF Method, Lite!Method, Post!Method, My!Method, Mongo!Method,
        Lite!UserUpdatePasswordHash, Post!UserUpdatePasswordHash,
        My!UserUpdatePasswordHash, Mongo!UserUpdatePasswordHash, Kept, Null
<1>4. q.op = "set_role" => Method(q) = set(LAMBDA r : [r EXCEPT !.role = q.role])
  BY <1>0 DEF Method, Lite!Method, Post!Method, My!Method, Mongo!Method,
        Lite!UserSetRole, Post!UserSetRole, My!UserSetRole, Mongo!UserSetRole,
        Kept, Null
<1>5. q.op = "record_failed_login" => Kept(q.until) \in Contract!Stored(q.until)
  BY CallNumbers
<1>6. CASE q.op = "record_failed_login"
  BY <1>1, <1>5, <1>6 DEF Contract!SetUser, Contract!Change, Contract!Done, Contract!Reply
<1>7. CASE q.op = "clear_login_failures"
  BY <1>2, <1>7 DEF Contract!SetUser, Contract!Change, Contract!Done, Contract!Reply, Contract!Null, Null
<1>8. CASE q.op = "update_password_hash"
  BY <1>3, <1>8 DEF Contract!SetUser, Contract!Change, Contract!Done, Contract!Reply
<1>9. CASE q.op = "set_role"
  BY <1>4, <1>9 DEF Contract!SetUser, Contract!Change, Contract!Done, Contract!Reply
<1> QED
  BY <1>6, <1>7, <1>8, <1>9 DEF Contract!Sets

(* The methods that insert a row; MySQL inserts users and notes in a          *)
(* transaction.                                                               *)
LEMMA InsertReplies ==
    ASSUME CallsInv, NEW q, Asking(q), q.op \in Inserts, ~Transacted(q)
    PROVE  Method(q) \in Contract!Insert(q)
<1>0. backend \in {"sqlite", "postgres", "mysql", "mongo"} /\ ~Transacted(q)
  BY StoresAssumption DEF CallsInv
<1> DEFINE with(row) == [k \in DOMAIN rows \cup {q.id} |-> IF k = q.id THEN row ELSE rows[k]]
           back(row) == [table |-> with(row), answer |-> <<"rows", [k \in {q.id} |-> with(row)[k]]>>]
           done(row) == [table |-> with(row), answer |-> <<"done">>]
           conflict == [table |-> rows, answer |-> <<"conflict">>]
           user == [email |-> q.email, hash |-> q.hash, role |-> q.role,
                    failed |-> 0, until |-> Null, created |-> Kept(now)]
           note == [owner |-> q.owner, text |-> q.text, created |-> Kept(now), updated |-> Kept(now)]
           refresh == [user |-> q.user, family |-> q.family, expires |-> Kept(q.expires),
                       used |-> Null, revoked |-> FALSE]
           access == [user |-> q.user, session |-> q.session, role |-> q.role, expires |-> Kept(q.expires)]
<1>1. q.op = "user_insert" => Method(q) = 
        IF q.id \in DOMAIN rows \/ {k \in DOMAIN rows : rows[k].email = q.email} # {}
        THEN conflict ELSE back(user)
  BY <1>0 DEF Method, Lite!Method, Post!Method, My!Method, Mongo!Method,
        Lite!UserInsert, Post!UserInsert, Mongo!UserInsert, Kept, Null,
        Transacted, My!InTransaction
<1>2. q.op = "create" => Method(q) = IF q.id \in DOMAIN rows THEN conflict ELSE back(note)
  BY <1>0 DEF Method, Lite!Method, Post!Method, My!Method, Mongo!Method,
        Lite!NoteInsert, Post!NoteInsert, Mongo!NoteInsert, Kept, Null,
        Transacted, My!InTransaction
<1>3. q.op = "refresh_insert" => Method(q) = 
        IF q.id \in DOMAIN rows THEN conflict ELSE done(refresh)
  BY <1>0 DEF Method, Lite!Method, Post!Method, My!Method, Mongo!Method,
        Lite!RefreshInsert, Post!RefreshInsert, My!RefreshInsert,
        Mongo!RefreshInsert, Kept, Null
<1>4. q.op = "access_insert" => Method(q) = 
        IF q.id \in DOMAIN rows THEN conflict ELSE done(access)
  BY <1>0 DEF Method, Lite!Method, Post!Method, My!Method, Mongo!Method,
        Lite!AccessInsert, Post!AccessInsert, My!AccessInsert, Mongo!AccessInsert,
        Kept, Null
<1>5. /\ Kept(now) \in Contract!Stamps(q)
      /\ q.op \in {"refresh_insert", "access_insert"} => Kept(q.expires) \in Contract!Stored(q.expires)
  BY CallNumbers
<1>6. CASE q.op = "user_insert"
  BY <1>1, <1>5, <1>6
  DEF Contract!Insert, Contract!Inserted, Contract!Refused, Contract!Conflict, Contract!Rows,
      Contract!Put, Contract!Reply, Contract!NewUserRow, Contract!Null, Null
<1>7. CASE q.op = "create"
  BY <1>2, <1>5, <1>7
  DEF Contract!Insert, Contract!Inserted, Contract!Refused, Contract!Conflict, Contract!Rows,
      Contract!Put, Contract!Reply, Contract!NewNoteRow
<1>8. CASE q.op = "refresh_insert"
  BY <1>3, <1>5, <1>8
  DEF Contract!Insert, Contract!Inserted, Contract!Refused, Contract!Conflict, Contract!Done,
      Contract!Put, Contract!Reply, Contract!NewRefreshRow, Contract!Null, Null
<1>9. CASE q.op = "access_insert"
  BY <1>4, <1>5, <1>9
  DEF Contract!Insert, Contract!Inserted, Contract!Refused, Contract!Conflict, Contract!Done,
      Contract!Put, Contract!Reply, Contract!NewAccessRow
<1> QED
  BY <1>6, <1>7, <1>8, <1>9 DEF Inserts

(* An update of a note in one statement, a deletion, a redemption and a ping. *)
LEMMA KeyedReplies ==
    ASSUME CallsInv, NEW q, Asking(q)
    PROVE  /\ q.op = "update" /\ ~Transacted(q) => Method(q) \in Contract!UpdateOwned(q)
           /\ q.op = "delete" => Method(q) \in Contract!DeleteOwned(q)
           /\ q.op = "mark_used" => Method(q) \in Contract!MarkUsed(q)
           /\ q.op = "ping" => Method(q) = Contract!Done(rows)
<1>0. backend \in {"sqlite", "postgres", "mysql", "mongo"}
  BY StoresAssumption DEF CallsInv
<1> DEFINE owned == {k \in {q.id} \cap DOMAIN rows : rows[k].owner = q.owner}
           usable == {k \in {q.id} \cap DOMAIN rows : rows[k].used = Null /\ ~rows[k].revoked}
           changed(S, F(_)) == [k \in DOMAIN rows |-> IF k \in S THEN F(rows[k]) ELSE rows[k]]
           text == changed(owned, LAMBDA r : [r EXCEPT !.text = q.text, !.updated = Kept(now)])
           marked == changed(usable, LAMBDA r : [r EXCEPT !.used = Kept(now)])
           kept == [k \in DOMAIN rows \ owned |-> rows[k]]
<1>1. Kept(now) \in Contract!Stamps(q)
  BY CallNumbers
<1>2. /\ (\E k \in owned : owned = {k}) <=> owned # {}
      /\ (\E k \in usable : usable = {k}) <=> usable # {}
  OBVIOUS
<1>3. q.op = "update" /\ ~Transacted(q) =>
        Method(q) = [table |-> text, answer |-> <<"rows", [k \in owned |-> text[k]]>>]
  BY <1>0 DEF Method, Lite!Method, Post!Method, My!Method, Mongo!Method,
        Lite!NoteUpdateOwned, Post!NoteUpdateOwned, Mongo!NoteUpdateOwned,
        Lite!Owned, Post!Owned, My!Owned, Mongo!Owned, Kept, Transacted,
        My!InTransaction
<1>4. q.op = "delete" => Method(q) = [table |-> kept, answer |-> <<"flag", \E k \in owned : owned = {k}>>]
  BY <1>0 DEF Method, Lite!Method, Post!Method, My!Method, Mongo!Method,
        Lite!NoteDeleteOwned, Post!NoteDeleteOwned, My!NoteDeleteOwned,
        Mongo!NoteDeleteOwned, Lite!Owned, Post!Owned, My!Owned, Mongo!Owned
<1>5. q.op = "mark_used" => Method(q) = [table |-> marked, answer |-> <<"flag", usable # {}>>]
  BY <1>0, <1>2 DEF Method, Lite!Method, Post!Method, My!Method, Mongo!Method,
        Lite!RefreshMarkUsed, Post!RefreshMarkUsed, My!RefreshMarkUsed,
        Mongo!RefreshMarkUsed, Kept, Null
<1>6. q.op = "ping" => Method(q) = [table |-> rows, answer |-> <<"done">>]
  BY <1>0 DEF Method, Lite!Method, Post!Method, My!Method, Mongo!Method,
        Lite!Ping, Post!Ping, My!Ping, Mongo!Ping
<1>7. q.op = "update" /\ ~Transacted(q) => Method(q) \in Contract!UpdateOwned(q)
  BY <1>1, <1>3
  DEF Contract!UpdateOwned, Contract!Owns, Contract!Rows, Contract!Change, Contract!Reply, Contract!Keyed
<1>8. q.op = "delete" => Method(q) \in Contract!DeleteOwned(q)
  BY <1>2, <1>4
  DEF Contract!DeleteOwned, Contract!Owns, Contract!Flag, Contract!Without, Contract!Reply, Contract!Keyed
<1>9. q.op = "mark_used" => Method(q) \in Contract!MarkUsed(q)
  BY <1>1, <1>5
  DEF Contract!MarkUsed, Contract!Usable, Contract!Flag, Contract!Change, Contract!Reply, Contract!Keyed,
      Contract!Null, Null
<1> QED
  BY <1>6, <1>7, <1>8, <1>9 DEF Contract!Done, Contract!Reply

(* Every module counts with the same operator.                                *)
LEMMA SameCount ==
    ASSUME NEW S
    PROVE  /\ Lite!Cardinality(S) = Cardinality(S) /\ Post!Cardinality(S) = Cardinality(S)
           /\ My!Cardinality(S) = Cardinality(S) /\ Mongo!Cardinality(S) = Cardinality(S)
           /\ Contract!Cardinality(S) = Cardinality(S)
<1>1. Lite!Cardinality(S) = Cardinality(S)
  BY DEF Lite!Cardinality, Cardinality
<1>2. Post!Cardinality(S) = Cardinality(S)
  BY DEF Post!Cardinality, Cardinality
<1>3. My!Cardinality(S) = Cardinality(S)
  BY DEF My!Cardinality, Cardinality
<1>4. Mongo!Cardinality(S) = Cardinality(S)
  BY DEF Mongo!Cardinality, Cardinality
<1>5. Contract!Cardinality(S) = Cardinality(S)
  BY DEF Contract!Cardinality, Cardinality
<1> QED
  BY <1>1, <1>2, <1>3, <1>4, <1>5

(* The methods about many rows, in one statement on the SQL backends.         *)
LEMMA ManyReplies ==
    ASSUME CallsInv, NEW q, q.op \in Contract!Many, backend # "mongo", IsFiniteSet(DOMAIN rows)
    PROVE  /\ Method(q).table = Contract!Taking(q, Contract!About(q))
           /\ q.op \in Contract!Sweeps =>
                \E n \in Nat : Method(q).answer = <<"count", n>>
           /\ q.op \notin Contract!Sweeps => Method(q).answer = <<"done">>
<1>0. backend \in {"sqlite", "postgres", "mysql"}
  BY StoresAssumption DEF CallsInv
<1> DEFINE revoked(S) == [k \in DOMAIN rows |-> IF k \in S THEN [rows[k] EXCEPT !.revoked = TRUE] ELSE rows[k]]
           without(S) == [k \in DOMAIN rows \ S |-> rows[k]]
           expired == {k \in DOMAIN rows : rows[k].expires < q.at}
           count == <<"count", Cardinality(expired)>>
<1>1. /\ Lite!Cardinality(expired) = Cardinality(expired) /\ Post!Cardinality(expired) = Cardinality(expired)
      /\ My!Cardinality(expired) = Cardinality(expired)
  BY SameCount
<1>2. Cardinality(expired) \in Nat
  BY FS_Subset, FS_CardinalityType
<1>3. q.op = "revoke_family" =>
        Method(q) = [table |-> revoked({k \in DOMAIN rows : rows[k].family = q.family}), answer |-> <<"done">>]
  BY <1>0 DEF Method, Lite!Method, Post!Method, My!Method,
        Lite!RefreshRevokeFamily, Post!RefreshRevokeFamily, My!RefreshRevokeFamily
<1>4. q.op = "revoke_all" =>
        Method(q) = [table |-> revoked({k \in DOMAIN rows : rows[k].user = q.user}), answer |-> <<"done">>]
  BY <1>0 DEF Method, Lite!Method, Post!Method, My!Method, Lite!RefreshRevokeAll,
        Post!RefreshRevokeAll, My!RefreshRevokeAll
<1>5. q.op = "refresh_expired" => Method(q) = [table |-> without(expired), answer |-> count]
  BY <1>0, <1>1 DEF Method, Lite!Method, Post!Method, My!Method,
        Lite!RefreshDeleteExpired, Post!RefreshDeleteExpired,
        My!RefreshDeleteExpired
<1>6. q.op = "delete_by_session" =>
        Method(q) = [table |-> without({k \in DOMAIN rows : rows[k].session = q.session}), answer |-> <<"done">>]
  BY <1>0 DEF Method, Lite!Method, Post!Method, My!Method,
        Lite!AccessDeleteBySession, Post!AccessDeleteBySession,
        My!AccessDeleteBySession
<1>7. q.op = "delete_all" =>
        Method(q) = [table |-> without({k \in DOMAIN rows : rows[k].user = q.user}), answer |-> <<"done">>]
  BY <1>0 DEF Method, Lite!Method, Post!Method, My!Method, Lite!AccessDeleteAll,
        Post!AccessDeleteAll, My!AccessDeleteAll
<1>8. q.op = "access_expired" => Method(q) = [table |-> without(expired), answer |-> count]
  BY <1>0, <1>1 DEF Method, Lite!Method, Post!Method, My!Method,
        Lite!AccessDeleteExpired, Post!AccessDeleteExpired, My!AccessDeleteExpired
<1>9. Method(q).table = Contract!Taking(q, Contract!About(q))
  <2>1. CASE q.op \in Contract!Revokes
    <3>1. \A S : Contract!Taking(q, S) = revoked(S)
      BY <2>1 DEF Contract!Taking, Contract!Change
    <3>2. CASE q.op = "revoke_family"
      <4>1. Contract!About(q) = {k \in DOMAIN rows : rows[k].family = q.family}
        BY <3>2 DEF Contract!About
      <4>2. Method(q).table = revoked(Contract!About(q))
        BY <1>3, <3>2, <4>1
      <4> QED
        BY <3>1, <4>2
    <3>3. CASE q.op = "revoke_all"
      <4>1. Contract!About(q) = {k \in DOMAIN rows : rows[k].user = q.user}
        BY <3>3 DEF Contract!About
      <4>2. Method(q).table = revoked(Contract!About(q))
        BY <1>4, <3>3, <4>1
      <4> QED
        BY <3>1, <4>2
    <3> QED
      BY <2>1, <3>2, <3>3 DEF Contract!Revokes
  <2>2. CASE q.op \in Contract!Sweeps
    BY <1>5, <1>8, <2>2 DEF Contract!Taking, Contract!About, Contract!Revokes, Contract!Sweeps, Contract!Without
  <2>3. CASE q.op \in {"delete_by_session", "delete_all"}
    BY <1>6, <1>7, <2>3 DEF Contract!Taking, Contract!About, Contract!Revokes, Contract!Without
  <2> QED
    BY <2>1, <2>2, <2>3 DEF Contract!Many, Contract!Deletes
<1>10. q.op \in Contract!Sweeps => Method(q).answer = count
  BY <1>5, <1>8 DEF Contract!Sweeps
<1>11. q.op \notin Contract!Sweeps => Method(q).answer = <<"done">>
  BY <1>3, <1>4, <1>6, <1>7 DEF Contract!Many, Contract!Revokes, Contract!Deletes, Contract!Sweeps
<1> QED
  BY <1>2, <1>9, <1>10, <1>11

(* ... and document by document on MongoDB, whose filter may miss, of the     *)
(* rows a sweep is about, those that expired less than a millisecond ago.     *)
LEMMA DocumentByDocument ==
    ASSUME CallsInv, RowsInv, NEW q, Asking(q), OneByOne(q)
    PROVE  /\ q.op \in Contract!Many
           /\ Mongo!Matched(rows, q) \subseteq Contract!About(q)
           /\ Contract!Due(q) \subseteq Mongo!Matched(rows, q)
           /\ \A k : Mongo!One(rows, q, k) = Contract!Taking(q, {k})
           /\ \A k \in Mongo!Matched(rows, q) :
                k \in DOMAIN rows /\ (q.op \in Contract!Revokes => ~rows[k].revoked)
<1>1. backend = "mongo" /\ q.op \in Mongo!Multi
  BY DEF OneByOne
<1>2. q.op \in Contract!Many
  BY <1>1 DEF Mongo!Multi, Contract!Many, Contract!Revokes, Contract!Deletes, Contract!Sweeps
<1>3. ASSUME NEW k
      PROVE  Mongo!One(rows, q, k) = Contract!Taking(q, {k})
  BY <1>1 DEF Mongo!One, Mongo!Revoked, Contract!Taking, Contract!Revokes, Contract!Change, Contract!Without
<1>4. CASE q.op \in {"refresh_expired", "access_expired"}
  <2> DEFINE late == {k \in DOMAIN rows : rows[k].expires < Kept(q.at)}
  <2>1. Mongo!Matched(rows, q) = late
    BY <1>1, <1>4 DEF Mongo!Matched, Mongo!ExpiredRefresh, Mongo!ExpiredAccess, Kept
  <2>2. /\ Contract!About(q) = {k \in DOMAIN rows : rows[k].expires < q.at}
        /\ Contract!Due(q) = {k \in Contract!About(q) : rows[k].expires < q.at - Loss}
    BY <1>4 DEF Contract!About, Contract!Due, Contract!Sweeps, Contract!Revokes, Loss
  <2>3. q.at \in Int /\ Kept(q.at) \in Int /\ Kept(q.at) <= q.at /\ q.at - Loss <= Kept(q.at)
    <3>1. q.at \in Int
      BY <1>4, CallNumbers DEF Contract!Sweeps
    <3>2. CASE q.at = Null
      BY <1>1, <3>2, StoresAssumption DEF Kept, Loss, Mongo!ToTime, Null
    <3> QED
      BY <3>1, <3>2, Rounding
  <2>4. \A k \in DOMAIN rows : rows[k].expires \in Int
    <3>1. table \in {"refresh", "access"}
      <4>1. MethodOf(q.op, table) /\ table \in DOMAIN Ports
        BY PortMethods DEF CallsInv, Asking
      <4> QED
        BY <1>4, <4>1 DEF MethodOf, Contract!Sets, Ports
    <3> QED
      BY <3>1 DEF RowsInv, Whole
  <2>5. late \subseteq Contract!About(q) /\ Contract!Due(q) \subseteq late
    <3>1. Loss \in Int
      BY StoresAssumption DEF Loss
    <3> QED
      BY <2>2, <2>3, <2>4, <3>1
  <2> QED
    BY <1>2, <1>3, <1>4, <2>1, <2>5 DEF Contract!Revokes
<1>5. CASE q.op \notin {"refresh_expired", "access_expired"}
  BY <1>1, <1>2, <1>3, <1>5
  DEF Mongo!Multi, Mongo!Matched, Mongo!OfFamily, Mongo!OfUser, Mongo!OfSession, Mongo!OfAccessUser,
      Contract!About, Contract!Due, Contract!Revokes, Contract!Sweeps
<1> QED
  BY <1>4, <1>5

(* The order of a listing.                                                    *)
Newer(a, b) == rows[a].created > rows[b].created

(* A page of a backend is one the contract allows, and all backends count the *)
(* notes of the owner.                                                        *)
LEMMA PagesOfBackends ==
    ASSUME CallsInv, NEW q
    PROVE  /\ PagesOf(q) \subseteq Contract!Pages(OwnedBy(q.owner), Newer, q.limit, q.offset)
           /\ CountOf(q) = Cardinality(OwnedBy(q.owner))
<1>0. backend \in {"sqlite", "postgres", "mysql", "mongo"}
  BY StoresAssumption DEF CallsInv
<1> DEFINE S == OwnedBy(q.owner)
<1>1. backend # "mongo" => PagesOf(q) = Contract!Pages(S, Newer, q.limit, q.offset)
  BY <1>0
  DEF PagesOf, Lite!NoteListOwned, Post!NoteListOwned, My!NoteListOwned, OwnedBy, Newer,
      Lite!Pages, Post!Pages, My!Pages, Contract!Pages, Lite!Page, Post!Page, My!Page, Contract!Page,
      Lite!SetToSeqs, Post!SetToSeqs, My!SetToSeqs, Contract!SetToSeqs,
      Lite!Cardinality, Post!Cardinality, My!Cardinality, Contract!Cardinality
<1>2. backend = "mongo" => PagesOf(q) \subseteq Contract!Pages(S, Newer, q.limit, q.offset)
  BY <1>0
  DEF PagesOf, Mongo!NoteListOwned, OwnedBy, Newer, Mongo!Pages, Contract!Pages, Mongo!Page, Contract!Page,
      Mongo!SetToSeqs, Contract!SetToSeqs, Mongo!Cardinality, Contract!Cardinality
<1>3. CountOf(q) = Cardinality(S)
  BY <1>0, SameCount
  DEF CountOf, Lite!NoteCountOwned, Post!NoteCountOwned, My!NoteCountOwned, Mongo!NoteCountOwned, OwnedBy
<1> QED
  BY <1>0, <1>1, <1>2, <1>3

(* A page is as long as the notes of the owner, the offset and the limit      *)
(* allow.                                                                     *)
LEMMA PageLength ==
    ASSUME NEW S, IsFiniteSet(S), NEW limit \in Nat \ {0}, NEW offset \in Nat,
           NEW page \in Contract!Pages(S, Newer, limit, offset)
    PROVE  Len(page) = Clamped(Cardinality(S) - offset, 0, limit)
<1>1. PICK s : s \in Contract!SetToSeqs(S) /\ page = Contract!Page(s, limit, offset)
  BY DEF Contract!Pages
<1>2. Cardinality(S) \in Nat /\ Contract!Cardinality(S) = Cardinality(S)
  BY FS_CardinalityType, SameCount
<1> DEFINE n == Cardinality(S)
           last == IF offset + limit < n THEN offset + limit ELSE n
<1>3. s \in [1..n -> S]
  BY <1>1, <1>2 DEF Contract!SetToSeqs
<1> HIDE DEF n
<1>4. n \in Nat
  BY <1>2 DEF n
<1>5. s \in Seq(S) /\ Len(s) = n
  BY <1>3, <1>4
<1>6. page = SubSeq(s, offset + 1, last)
  BY <1>1, <1>5 DEF Contract!Page
<1>7. \A k \in offset + 1..last : k \in DOMAIN s
  BY <1>4, <1>5
<1>8. Len(page) = IF offset + 1 <= last THEN last - (offset + 1) + 1 ELSE 0
  BY <1>3, <1>4, <1>5, <1>6, <1>7, SubSeqProperties
<1> QED
  BY <1>4, <1>8 DEF Clamped, n

-----------------------------------------------------------------------------
(* What a step of the contract may do to the table.                           *)

(* Rows stay whole, only an insert brings one, an address never changes, a    *)
(* revocation is for good, and a method about one account or note leaves the  *)
(* other rows alone.                                                          *)
Moves(q, t) ==
    /\ t = [k \in DOMAIN t |-> t[k]] /\ \A k \in DOMAIN t : Whole(t[k])
    /\ \A k \in DOMAIN t \ DOMAIN rows :
        q.op \in Inserts /\ k = q.id /\ (q.op = "user_insert" => t[k].email = q.email)
    /\ \A k \in DOMAIN t \cap DOMAIN rows :
        /\ table = "users" => t[k].email = rows[k].email
        /\ table = "refresh" /\ rows[k].revoked => t[k].revoked
    /\ table \in {"users", "notes"} => \A k \in DOMAIN rows :
        q.op \notin Writes \/ k # q.id => k \in DOMAIN t /\ t[k] = rows[k]

(* A method that leaves the table as it is.                                   *)
LEMMA NothingMoves ==
    ASSUME RowsInv, NEW q
    PROVE  Moves(q, rows)
  BY DEF RowsInv, Moves

(* An insert.                                                                 *)
LEMMA InsertMoves ==
    ASSUME CallsInv, RowsInv, NEW q, Asking(q), q.op \in Inserts, NEW o \in Contract!Insert(q)
    PROVE  Moves(q, o.table)
<1>1. CASE Contract!Refused(q)
  <2>1. o.table = rows
    BY <1>1 DEF Contract!Insert, Contract!Conflict, Contract!Reply
  <2> QED
    BY <2>1, NothingMoves
<1>2. CASE ~Contract!Refused(q)
  <2>1. PICK r \in Contract!Inserted(q) : o.table = Contract!Put(rows, q.id, r)
    BY <1>2 DEF Contract!Insert, Contract!Rows, Contract!Done, Contract!Reply
  <2>2. q.id \notin DOMAIN rows
    BY <1>2 DEF Contract!Refused
  <2>3. MethodOf(q.op, table) /\ table \in DOMAIN Ports
    BY PortMethods DEF CallsInv, Asking
  <2>4. Whole(r) /\ (q.op = "user_insert" => r.email = q.email)
    <3>1. CASE q.op = "user_insert"
      <4>1. table = "users"
        BY <2>3, <3>1 DEF MethodOf, Ports, Contract!Revokes
      <4> QED
        BY <2>1, <3>1, <4>1 DEF Contract!Inserted, Contract!NewUserRow, Whole, Columns
    <3>2. CASE q.op = "create"
      <4>1. table = "notes"
        BY <2>3, <3>2 DEF MethodOf, Ports, Contract!Revokes, Contract!Sets
      <4> QED
        BY <2>1, <3>2, <4>1 DEF Contract!Inserted, Contract!NewNoteRow, Whole, Columns
    <3>3. q.op \in {"refresh_insert", "access_insert"} => Contract!Stored(q.expires) \subseteq Int
      BY CallNumbers DEF Contract!Stored, Contract!Null
    <3>4. CASE q.op = "refresh_insert"
      <4>1. table = "refresh"
        BY <2>3, <3>4 DEF MethodOf, Ports, Contract!Sets
      <4> QED
        BY <2>1, <3>3, <3>4, <4>1 DEF Contract!Inserted, Contract!NewRefreshRow, Whole, Columns
    <3>5. CASE q.op = "access_insert"
      <4>1. table = "access"
        BY <2>3, <3>5 DEF MethodOf, Ports, Contract!Sets, Contract!Revokes
      <4> QED
        BY <2>1, <3>3, <3>5, <4>1 DEF Contract!Inserted, Contract!NewAccessRow, Whole, Columns
    <3> QED
      BY <3>1, <3>2, <3>4, <3>5 DEF Inserts
  <2> QED
    BY <2>1, <2>2, <2>4 DEF RowsInv, Moves, Contract!Put
<1> QED
  BY <1>1, <1>2

(* A method that sets columns of one row, and neither an address nor the end  *)
(* of a revocation.                                                           *)
LEMMA ChangeMoves ==
    ASSUME RowsInv, NEW q, NEW t, q.op \in Writes \/ table \notin {"users", "notes"},
           t = [k \in DOMAIN t |-> t[k]], DOMAIN t = DOMAIN rows,
           \A k \in DOMAIN rows : k # q.id => t[k] = rows[k],
           q.id \in DOMAIN rows =>
                /\ Whole(t[q.id])
                /\ table = "users" => t[q.id].email = rows[q.id].email
                /\ table = "refresh" /\ rows[q.id].revoked => t[q.id].revoked
    PROVE  Moves(q, t)
  BY DEF RowsInv, Moves

(* The methods that set columns of an account.                                *)
LEMMA SetMoves ==
    ASSUME CallsInv, RowsInv, NEW q, Asking(q), q.op \in Contract!Sets, NEW o \in Contract!SetUser(q)
    PROVE  Moves(q, o.table)
<1>1. table = "users" /\ q.op \in Writes
  <2>1. MethodOf(q.op, table) /\ table \in DOMAIN Ports
    BY PortMethods DEF CallsInv, Asking
  <2> QED
    BY <2>1 DEF MethodOf, Ports, Contract!Sets, Contract!Revokes, Writes
<1>2. \A k \in DOMAIN rows : DOMAIN rows[k] = Columns.users
  BY <1>1 DEF RowsInv, Whole
<1>3. ASSUME NEW row, o.table = [k \in DOMAIN rows |-> IF k \in {q.id} THEN row ELSE rows[k]],
             q.id \in DOMAIN rows => DOMAIN row = Columns.users /\ row.email = rows[q.id].email
      PROVE  Moves(q, o.table)
  <2>1. /\ o.table = [k \in DOMAIN o.table |-> o.table[k]] /\ DOMAIN o.table = DOMAIN rows
        /\ \A k \in DOMAIN rows : k # q.id => o.table[k] = rows[k]
        /\ q.id \in DOMAIN rows => o.table[q.id] = row
    BY <1>3
  <2>2. q.id \in DOMAIN rows => Whole(o.table[q.id]) /\ o.table[q.id].email = rows[q.id].email
    BY <1>1, <1>3, <2>1 DEF Whole
  <2>3. table # "refresh"
    BY <1>1
  <2> QED
    BY <1>1, <2>1, <2>2, <2>3, ChangeMoves
<1>4. CASE q.op = "record_failed_login"
  <2>1. PICK at : o = Contract!Done([k \in DOMAIN rows |->
        IF k \in {q.id} THEN [rows[k] EXCEPT !.failed = q.attempts, !.until = at] ELSE rows[k]])
    BY <1>4, Zenon DEF Contract!SetUser, Contract!Change
  <2> DEFINE row == [rows[q.id] EXCEPT !.failed = q.attempts, !.until = at]
  <2>2. q.id \in DOMAIN rows => DOMAIN row = Columns.users /\ row.email = rows[q.id].email
    BY <1>2 DEF Columns
  <2>3. o.table = [k \in DOMAIN rows |-> IF k \in {q.id} THEN row ELSE rows[k]]
    BY <2>1 DEF Contract!Done, Contract!Reply
  <2> HIDE DEF row
  <2> QED
    BY <2>2, <2>3, <1>3
<1>5. CASE q.op = "clear_login_failures"
  <2>1. o = Contract!Done([k \in DOMAIN rows |->
        IF k \in {q.id} THEN [rows[k] EXCEPT !.failed = 0, !.until = Contract!Null] ELSE rows[k]])
    BY <1>5, Zenon DEF Contract!SetUser, Contract!Change
  <2> DEFINE row == [rows[q.id] EXCEPT !.failed = 0, !.until = Contract!Null]
  <2>2. q.id \in DOMAIN rows => DOMAIN row = Columns.users /\ row.email = rows[q.id].email
    BY <1>2 DEF Columns
  <2>3. o.table = [k \in DOMAIN rows |-> IF k \in {q.id} THEN row ELSE rows[k]]
    BY <2>1 DEF Contract!Done, Contract!Reply
  <2> HIDE DEF row
  <2> QED
    BY <2>2, <2>3, <1>3
<1>6. CASE q.op = "update_password_hash"
  <2>1. o = Contract!Done([k \in DOMAIN rows |->
        IF k \in {q.id} THEN [rows[k] EXCEPT !.hash = q.hash] ELSE rows[k]])
    BY <1>6, Zenon DEF Contract!SetUser, Contract!Change
  <2> DEFINE row == [rows[q.id] EXCEPT !.hash = q.hash]
  <2>2. q.id \in DOMAIN rows => DOMAIN row = Columns.users /\ row.email = rows[q.id].email
    BY <1>2 DEF Columns
  <2>3. o.table = [k \in DOMAIN rows |-> IF k \in {q.id} THEN row ELSE rows[k]]
    BY <2>1 DEF Contract!Done, Contract!Reply
  <2> HIDE DEF row
  <2> QED
    BY <2>2, <2>3, <1>3
<1>7. CASE q.op = "set_role"
  <2>1. o = Contract!Done([k \in DOMAIN rows |->
        IF k \in {q.id} THEN [rows[k] EXCEPT !.role = q.role] ELSE rows[k]])
    BY <1>7, Zenon DEF Contract!SetUser, Contract!Change
  <2> DEFINE row == [rows[q.id] EXCEPT !.role = q.role]
  <2>2. q.id \in DOMAIN rows => DOMAIN row = Columns.users /\ row.email = rows[q.id].email
    BY <1>2 DEF Columns
  <2>3. o.table = [k \in DOMAIN rows |-> IF k \in {q.id} THEN row ELSE rows[k]]
    BY <2>1 DEF Contract!Done, Contract!Reply
  <2> HIDE DEF row
  <2> QED
    BY <2>2, <2>3, <1>3
<1> QED
  BY <1>4, <1>5, <1>6, <1>7 DEF Contract!Sets

(* An update, a redemption, a deletion.                                       *)
LEMMA KeyedMoves ==
    ASSUME CallsInv, RowsInv, NEW q, Asking(q)
    PROVE  /\ q.op = "update" => \A o \in Contract!UpdateOwned(q) : Moves(q, o.table)
           /\ q.op = "mark_used" => \A o \in Contract!MarkUsed(q) : Moves(q, o.table)
           /\ q.op = "delete" => \A o \in Contract!DeleteOwned(q) : Moves(q, o.table)
<1>1. MethodOf(q.op, table) /\ table \in DOMAIN Ports
  BY PortMethods DEF CallsInv, Asking
<1>2. ASSUME q.op = "update", NEW o \in Contract!UpdateOwned(q)
      PROVE  Moves(q, o.table)
  <2>1. table = "notes" /\ q.op \in Writes
    BY <1>1, <1>2 DEF MethodOf, Ports, Contract!Sets, Contract!Revokes, Writes
  <2>2. PICK at : o = Contract!Rows([k \in DOMAIN rows |->
            IF k \in Contract!Owns(q) THEN [rows[k] EXCEPT !.text = q.text, !.updated = at] ELSE rows[k]],
            Contract!Owns(q))
    BY <1>2, Zenon DEF Contract!UpdateOwned, Contract!Change
  <2>3. o.table = [k \in DOMAIN rows |->
            IF k \in Contract!Owns(q) THEN [rows[k] EXCEPT !.text = q.text, !.updated = at] ELSE rows[k]]
    BY <2>2 DEF Contract!Rows, Contract!Reply
  <2>4. Contract!Owns(q) \subseteq {q.id}
    BY DEF Contract!Owns, Contract!Keyed
  <2>5. \A k \in DOMAIN rows : DOMAIN rows[k] = Columns.notes
    BY <2>1 DEF RowsInv, Whole
  <2> DEFINE row == [rows[q.id] EXCEPT !.text = q.text, !.updated = at]
  <2>6. q.id \in DOMAIN rows => Whole(o.table[q.id])
    <3>1. q.id \in DOMAIN rows => o.table[q.id] \in {row, rows[q.id]}
      BY <2>3
    <3>2. ASSUME q.id \in DOMAIN rows PROVE Whole(row) /\ Whole(rows[q.id])
      <4>1. DOMAIN row = Columns.notes
        BY <2>5, <3>2
      <4> HIDE DEF row
      <4> QED
        BY <2>1, <2>5, <3>2, <4>1 DEF Whole
    <3> HIDE DEF row
    <3> QED
      BY <3>1, <3>2, Zenon
  <2>7. /\ o.table = [k \in DOMAIN o.table |-> o.table[k]] /\ DOMAIN o.table = DOMAIN rows
        /\ \A k \in DOMAIN rows : k # q.id => o.table[k] = rows[k]
    BY <2>3, <2>4
  <2>8. q.op \in Writes /\ table # "users" /\ table # "refresh"
    BY <2>1
  <2> HIDE DEF row
  <2> QED
    BY <2>6, <2>7, <2>8, ChangeMoves
<1>3. ASSUME q.op = "mark_used", NEW o \in Contract!MarkUsed(q)
      PROVE  Moves(q, o.table)
  <2>1. table = "refresh"
    BY <1>1, <1>3 DEF MethodOf, Ports, Contract!Sets
  <2>2. PICK at : o = Contract!Flag([k \in DOMAIN rows |->
            IF k \in Contract!Usable(q) THEN [rows[k] EXCEPT !.used = at] ELSE rows[k]],
            Contract!Usable(q) # {})
    BY <1>3, Zenon DEF Contract!MarkUsed, Contract!Change
  <2>3. o.table = [k \in DOMAIN rows |->
            IF k \in Contract!Usable(q) THEN [rows[k] EXCEPT !.used = at] ELSE rows[k]]
    BY <2>2 DEF Contract!Flag, Contract!Reply
  <2>4. Contract!Usable(q) \subseteq {q.id}
    BY DEF Contract!Usable, Contract!Keyed
  <2>5. \A k \in DOMAIN rows : DOMAIN rows[k] = Columns.refresh /\ rows[k].expires \in Int
    BY <2>1 DEF RowsInv, Whole
  <2> DEFINE row == [rows[q.id] EXCEPT !.used = at]
             Keeps(r) == Whole(r) /\ r.revoked = rows[q.id].revoked
  <2>6. q.id \in DOMAIN rows => Keeps(o.table[q.id])
    <3>1. q.id \in DOMAIN rows => o.table[q.id] \in {row, rows[q.id]}
      BY <2>3
    <3>2. ASSUME q.id \in DOMAIN rows PROVE Keeps(row) /\ Keeps(rows[q.id])
      <4>1. DOMAIN row = Columns.refresh /\ row.expires \in Int /\ row.revoked = rows[q.id].revoked
        BY <2>5, <3>2 DEF Columns
      <4> HIDE DEF row
      <4> QED
        BY <2>1, <2>5, <3>2, <4>1 DEF Whole
    <3> HIDE DEF row, Keeps
    <3> QED
      BY <3>1, <3>2, Zenon
  <2>7. table \notin {"users", "notes"}
    BY <2>1
  <2>8. /\ o.table = [k \in DOMAIN o.table |-> o.table[k]] /\ DOMAIN o.table = DOMAIN rows
        /\ \A k \in DOMAIN rows : k # q.id => o.table[k] = rows[k]
    BY <2>3, <2>4
  <2>9. q.id \in DOMAIN rows =>
            /\ Whole(o.table[q.id])
            /\ table = "users" => o.table[q.id].email = rows[q.id].email
            /\ table = "refresh" /\ rows[q.id].revoked => o.table[q.id].revoked
    BY <2>6, <2>7 DEF Keeps
  <2> HIDE DEF row, Keeps
  <2> QED
    BY <2>7, <2>8, <2>9, ChangeMoves
<1>4. ASSUME q.op = "delete", NEW o \in Contract!DeleteOwned(q)
      PROVE  Moves(q, o.table)
  <2>1. q.op \in Writes
    BY <1>4 DEF Writes
  <2>2. o.table = [k \in DOMAIN rows \ Contract!Owns(q) |-> rows[k]] /\ Contract!Owns(q) \subseteq {q.id}
    BY <1>4 DEF Contract!DeleteOwned, Contract!Flag, Contract!Without, Contract!Reply, Contract!Owns,
                Contract!Keyed
  <2> QED
    BY <2>1, <2>2 DEF Moves, RowsInv
<1> QED
  BY <1>2, <1>3, <1>4

(* A method about many rows takes some of them.                               *)
LEMMA ManyMoves ==
    ASSUME CallsInv, RowsInv, NEW q, Asking(q), q.op \in Contract!Many, NEW S \in SUBSET DOMAIN rows
    PROVE  Moves(q, Contract!Taking(q, S))
<1>1. MethodOf(q.op, table) /\ table \in DOMAIN Ports
  BY PortMethods DEF CallsInv, Asking
<1>2. table \in {"refresh", "access"} /\ (q.op \in Contract!Revokes => table = "refresh")
  BY <1>1 DEF MethodOf, Ports, Contract!Sets, Contract!Revokes, Contract!Many, Contract!Deletes, Contract!Sweeps
<1>3. CASE q.op \in Contract!Revokes
  <2>1. Contract!Taking(q, S) =
            [k \in DOMAIN rows |-> IF k \in S THEN [rows[k] EXCEPT !.revoked = TRUE] ELSE rows[k]]
    BY <1>3, Zenon DEF Contract!Taking, Contract!Change
  <2>2. \A k \in DOMAIN rows : DOMAIN rows[k] = Columns.refresh /\ rows[k].expires \in Int
    BY <1>2, <1>3 DEF RowsInv, Whole
  <2>3. \A k \in DOMAIN rows : LET row == [rows[k] EXCEPT !.revoked = TRUE]
                               IN  Whole(row) /\ row.revoked
    BY <1>2, <1>3, <2>2 DEF Whole, Columns
  <2> QED
    BY <1>2, <1>3, <2>1, <2>3 DEF RowsInv, Moves
<1>4. CASE q.op \notin Contract!Revokes
  <2>1. Contract!Taking(q, S) = [k \in DOMAIN rows \ S |-> rows[k]]
    BY <1>4, Zenon DEF Contract!Taking, Contract!Without
  <2> QED
    BY <1>2, <2>1 DEF RowsInv, Moves
<1> QED
  BY <1>3, <1>4

(* The methods about one row, together.                                       *)
Singular(q) == q.op \notin Contract!Many \cup {"none", "list", "total"}

(* What the contract allows a method about one row, method by method.         *)
LEMMA OutcomesByKind ==
    ASSUME NEW q
    PROVE  /\ q.op \in Contract!Inserts => Contract!Outcomes(q) = Contract!Insert(q)
           /\ q.op \in Contract!Finds => Contract!Outcomes(q) = Contract!Find(q)
           /\ q.op \in Contract!Sets => Contract!Outcomes(q) = Contract!SetUser(q)
           /\ q.op = "update" => Contract!Outcomes(q) = Contract!UpdateOwned(q)
           /\ q.op = "delete" => Contract!Outcomes(q) = Contract!DeleteOwned(q)
           /\ q.op = "mark_used" => Contract!Outcomes(q) = Contract!MarkUsed(q)
           /\ q.op = "ping" => Contract!Outcomes(q) = {Contract!Done(rows)}
  BY DEF Contract!Outcomes, Contract!Inserts, Contract!Finds, Contract!Sets

(* The methods about one row there are.                                       *)
LEMMA SingularKinds ==
    ASSUME CallsInv, NEW q, Asking(q), Singular(q)
    PROVE  q.op \in Inserts \cup Contract!Finds \cup Contract!Sets \cup {"update", "delete", "mark_used", "ping"}
<1>1. MethodOf(q.op, table) /\ table \in DOMAIN Ports
  BY PortMethods DEF CallsInv, Asking
<1> QED
  BY <1>1 DEF MethodOf, Ports, Singular, Inserts, Contract!Finds, Contract!Sets, Contract!Many,
              Contract!Revokes, Contract!Deletes, Contract!Sweeps

(* Whatever the contract allows a method about one row moves the table as     *)
(* Moves says.                                                                *)
LEMMA SingleMoves ==
    ASSUME CallsInv, RowsInv, NEW q, Asking(q), Singular(q), NEW o \in Contract!Outcomes(q)
    PROVE  Moves(q, o.table)
<1>1. CASE q.op \in Inserts
  BY <1>1, OutcomesByKind, InsertMoves DEF Inserts, Contract!Inserts
<1>2. CASE q.op \in Contract!Finds \cup {"ping"}
  <2>1. Contract!Done(rows).table = rows /\ \A S : Contract!Rows(rows, S).table = rows
    BY DEF Contract!Rows, Contract!Done, Contract!Reply
  <2>2. o \in Contract!Find(q) \/ o = Contract!Done(rows)
    BY <1>2, OutcomesByKind
  <2>3. o.table = rows
    BY <2>1, <2>2, Zenon DEF Contract!Find
  <2> QED
    BY <2>3, NothingMoves
<1>3. CASE q.op \in Contract!Sets
  BY <1>3, OutcomesByKind, SetMoves
<1>4. CASE q.op \in {"update", "delete", "mark_used"}
  BY <1>4, OutcomesByKind, KeyedMoves
<1> QED
  BY <1>1, <1>2, <1>3, <1>4, SingularKinds

(* One statement of a backend is one of the outcomes.                         *)
LEMMA StatementIsOutcome ==
    ASSUME CallsInv, NEW q, Asking(q), Singular(q), ~Transacted(q)
    PROVE  Method(q) \in Contract!Outcomes(q)
<1>1. CASE q.op \in Inserts
  BY <1>1, OutcomesByKind, InsertReplies DEF Inserts, Contract!Inserts
<1>2. CASE q.op \in Contract!Finds
  BY <1>2, OutcomesByKind, FindReplies
<1>3. CASE q.op \in Contract!Sets
  BY <1>3, OutcomesByKind, SetReplies
<1>4. CASE q.op \in {"update", "delete", "mark_used", "ping"}
  BY <1>4, OutcomesByKind, KeyedReplies
<1> QED
  BY <1>1, <1>2, <1>3, <1>4, SingularKinds

-----------------------------------------------------------------------------
(* Every step is a step of the contract.                                      *)

(* A call that is at work is one that was asked.                              *)
LEMMA AtWork ==
    ASSUME CallsInv, NEW c \in Clients, calls[c].op \notin {"none", "total"}
    PROVE  Asking(calls[c])
  BY DEF CallsInv, NoCall, Paging

(* A transaction is MySQL's, of one of three methods about one row.           *)
LEMMA TransactedOnMySql ==
    ASSUME NEW q, Transacted(q)
    PROVE  /\ backend = "mysql" /\ q.op \in {"user_insert", "create", "update"}
           /\ q.op \in Writes /\ q.op \notin {"none", "list", "total"} /\ Singular(q)
  BY DEF Transacted, My!InTransaction, Writes, Inserts, Singular, Contract!Many, Contract!Revokes,
         Contract!Deletes, Contract!Sweeps

(* An update stamped at some moment of the call.                              *)
LEMMA UpdateOutcome ==
    ASSUME NEW q, NEW at \in Contract!Stamps(q), NEW after,
           after = [k \in DOMAIN rows |-> IF k \in Contract!Owns(q)
                                         THEN [rows[k] EXCEPT !.text = q.text, !.updated = at] ELSE rows[k]]
    PROVE  Contract!Rows(after, Contract!Owns(q)) \in Contract!UpdateOwned(q)
  BY Zenon DEF Contract!UpdateOwned, Contract!Change

(* The read of a transaction, and its commit, are the method as one step: the *)
(* write of a moment ago stands for the instant it stamped the row with.      *)
LEMMA CommitIsOutcome ==
    ASSUME CallsInv, RowsInv, TransactionsInv, NEW c \in open
    PROVE  [table |-> View(c), answer |-> My!ReadOf(View(c), calls[c]).answer] \in Contract!Outcomes(calls[c])
<1> DEFINE q == calls[c]
           seenRows == {q.id} \cap DOMAIN View(c)
<1>1. /\ c \in Clients /\ Transacted(q) /\ backend = "mysql" /\ q.op \in {"user_insert", "create", "update"}
      /\ Asking(q)
  <2>1. c \in Clients /\ Transacted(q)
    BY DEF TransactionsInv
  <2> QED
    BY <2>1, TransactedOnMySql, AtWork
<1>2. PICK at \in q.since..now : work[c] = Written(q, at)
  BY DEF TransactionsInv, Standing
<1>3. at \in Contract!Stamps(q)
  <2>1. q.since \in Int /\ now \in Int /\ q.since - 0 = q.since
    BY <1>1, CallNumbers DEF Asking
  <2> QED
    BY <1>1, <2>1, <1>2 DEF Contract!Stamps
<1>4. q.op \in Inserts => ~Contract!Refused(q)
  BY DEF TransactionsInv, Standing
<1>5. ASSUME NEW row, q.op \in {"user_insert", "create"}, row \in Contract!Inserted(q),
             work[c] = [k \in {q.id} |-> row],
             My!ReadOf(View(c), q).answer = <<"rows", [k \in seenRows |-> View(c)[k]]>>
      PROVE  [table |-> View(c), answer |-> My!ReadOf(View(c), q).answer] \in Contract!Outcomes(q)
  <2>1. View(c) = [k \in DOMAIN rows \cup {q.id} |-> IF k = q.id THEN row ELSE rows[k]]
    BY <1>5 DEF View
  <2>2. seenRows = {q.id}
    BY <2>1
  <2>3. Contract!Outcomes(q) = Contract!Insert(q) /\ ~Contract!Refused(q)
    BY <1>4, <1>5, OutcomesByKind DEF Contract!Inserts, Inserts
  <2>4. Contract!Rows(Contract!Put(rows, q.id, row), {q.id}) =
            [table |-> View(c), answer |-> <<"rows", [k \in {q.id} |-> View(c)[k]]>>]
    BY <2>1 DEF Contract!Rows, Contract!Put, Contract!Reply
  <2>5. Contract!Rows(Contract!Put(rows, q.id, row), {q.id}) \in Contract!Insert(q)
    BY <1>5, <2>3, Zenon DEF Contract!Insert
  <2> QED
    BY <1>5, <2>2, <2>3, <2>4, <2>5
<1>6. CASE q.op = "user_insert"
  <2>1. work[c] = [k \in {q.id} |-> NewUserRow(q, at)]
    BY <1>2, <1>6 DEF Written
  <2>2. NewUserRow(q, at) \in Contract!Inserted(q)
    BY <1>3, <1>6 DEF NewUserRow, Contract!Inserted, Contract!NewUserRow, Null, Contract!Null
  <2>3. My!ReadOf(View(c), q).answer = <<"rows", [k \in seenRows |-> View(c)[k]]>>
    BY <1>6 DEF My!ReadOf, My!UserInsertRead
  <2> QED
    BY <1>5, <1>6, <2>1, <2>2, <2>3
<1>7. CASE q.op = "create"
  <2>1. work[c] = [k \in {q.id} |-> NewNoteRow(q, at)]
    BY <1>2, <1>7 DEF Written
  <2>2. NewNoteRow(q, at) \in Contract!Inserted(q)
    BY <1>3, <1>7 DEF NewNoteRow, Contract!Inserted, Contract!NewNoteRow
  <2>3. My!ReadOf(View(c), q).answer = <<"rows", [k \in seenRows |-> View(c)[k]]>>
    BY <1>7 DEF My!ReadOf, My!NoteInsertRead
  <2> QED
    BY <1>5, <1>7, <2>1, <2>2, <2>3
<1>8. CASE q.op = "update"
  <2> DEFINE owned == Contract!Owns(q)
             after == [k \in DOMAIN rows |->
                        IF k \in owned THEN [rows[k] EXCEPT !.text = q.text, !.updated = at] ELSE rows[k]]
  <2>1. work[c] = [k \in {q.id} \cap DOMAIN rows |->
            IF rows[k].owner = q.owner THEN [rows[k] EXCEPT !.text = q.text, !.updated = at] ELSE rows[k]]
    BY <1>2, <1>8 DEF Written, Keyed
  <2>2. View(c) = after
    BY <2>1 DEF View, Contract!Owns, Contract!Keyed
  <2>3. \A k \in DOMAIN rows : DOMAIN rows[k] = Columns.notes
    <3>1. table = "notes"
      <4>1. MethodOf(q.op, table) /\ table \in DOMAIN Ports
        BY <1>1, PortMethods DEF CallsInv, Asking
      <4> QED
        BY <1>8, <4>1 DEF MethodOf, Ports, Contract!Sets, Contract!Revokes
    <3> QED
      BY <3>1 DEF RowsInv, Whole
  <2>4. \A k \in DOMAIN rows : after[k].owner = rows[k].owner
    BY <2>3 DEF Columns
  <2>5. {k \in {q.id} \cap DOMAIN after : after[k].owner = q.owner} = owned
    BY <2>4 DEF Contract!Owns, Contract!Keyed
  <2>6. My!ReadOf(View(c), q).answer = <<"rows", [k \in owned |-> after[k]]>>
    <3>1. \A t : My!ReadOf(t, q).answer =
            <<"rows", [k \in {k \in {q.id} \cap DOMAIN t : t[k].owner = q.owner} |-> t[k]]>>
      BY <1>8 DEF My!ReadOf, My!NoteUpdateRead, My!Owned
    <3> HIDE DEF after, owned
    <3>2. {k \in {q.id} \cap DOMAIN View(c) : View(c)[k].owner = q.owner} = owned
      BY <2>2, <2>5
    <3> QED
      BY <2>2, <3>1, <3>2, Zenon
  <2>7. Contract!Rows(after, owned) \in Contract!UpdateOwned(q)
    BY <1>3, UpdateOutcome
  <2>8. Contract!Rows(after, owned) = [table |-> after, answer |-> <<"rows", [k \in owned |-> after[k]]>>]
    BY Zenon DEF Contract!Rows, Contract!Reply
  <2> QED
    BY <1>8, <2>2, <2>6, <2>7, <2>8, OutcomesByKind, Zenon
<1> QED
  BY <1>1, <1>6, <1>7, <1>8

(* An answer of the stores is an answer of the contract.                      *)
LEMMA ToldIsTold ==
    ASSUME NEW c, NEW answer, Told(c, answer)
    PROVE  Contract!Told(c, answer) /\ said' = [to |-> c, q |-> calls[c], answer |-> answer]
  BY DEF Told, Contract!Told, NoCall, Contract!NoCall

(* A statement is a method about one row, or takes at once all rows it is     *)
(* about.                                                                     *)
LEMMA StatementStep ==
    ASSUME StoresInv, NEW c \in Clients, Statement(c)
    PROVE  Contract!Single(c) \/ Contract!All(c)
<1> DEFINE q == calls[c]
           o == Method(q)
<1>1. /\ q.op \notin {"none", "list", "total"} /\ ~Transacted(q) /\ ~OneByOne(q)
      /\ rows' = o.table /\ Told(c, o.answer) /\ backend' = backend /\ now' = now
  BY DEF Statement
<1>2. CallsInv /\ RowsInv /\ Asking(q) /\ IsFiniteSet(DOMAIN rows)
  BY <1>1, AtWork, FS_Subset DEF StoresInv, IdsInv
<1>3. Contract!Told(c, o.answer) /\ said' = [to |-> c, q |-> q, answer |-> o.answer]
  BY <1>1, ToldIsTold
<1>4. CASE Singular(q)
  <2>1. o \in Contract!Outcomes(q)
    BY <1>1, <1>2, <1>4, StatementIsOutcome
  <2> HIDE DEF o
  <2> QED
    BY <1>1, <1>3, <1>4, <2>1 DEF Contract!Single, Singular
<1>5. CASE ~Singular(q)
  <2>1. q.op \in Contract!Many /\ backend # "mongo"
    BY <1>1, <1>5 DEF Singular, OneByOne, Mongo!Multi, Contract!Many, Contract!Revokes, Contract!Deletes,
                      Contract!Sweeps
  <2>2. /\ rows' = Contract!Taking(q, Contract!About(q))
        /\ q.op \in Contract!Sweeps => \E n \in Nat : o.answer = <<"count", n>>
        /\ q.op \notin Contract!Sweeps => o.answer = <<"done">>
    BY <1>1, <1>2, <2>1, ManyReplies
  <2>3. Contract!Due(q) \cap seen[c] \subseteq Contract!About(q)
    BY DEF Contract!Due
  <2> HIDE DEF o
  <2>4. q.op \in Contract!Sweeps =>
            /\ said' # Contract!Silent /\ said'.to = c /\ said'.answer[2] \in Nat
            /\ Contract!Told(c, <<"count", said'.answer[2]>>)
    BY <1>3, <2>2 DEF Contract!Silent
  <2>5. q.op \notin Contract!Sweeps => Contract!Told(c, <<"done">>)
    BY <1>3, <2>2
  <2> QED
    BY <1>1, <2>1, <2>2, <2>3, <2>4, <2>5 DEF Contract!All
<1> QED
  BY <1>4, <1>5

(* MySQL's write shows nothing yet, unless it is refused.                     *)
LEMMA WriteStep ==
    ASSUME StoresInv, NEW c \in Clients, MySqlWrite(c)
    PROVE  Contract!Single(c) \/ Contract!Quiet
<1> DEFINE q == calls[c]
           o == My!WriteOf(rows, q, now)
<1>1. Transacted(q) /\ backend' = backend /\ now' = now /\ rows' = rows
  BY DEF MySqlWrite
<1>2. /\ CallsInv /\ RowsInv /\ Asking(q) /\ Singular(q)
      /\ q.op \in {"user_insert", "create", "update"}
  BY <1>1, TransactedOnMySql, AtWork DEF StoresInv
<1>3. CASE o.answer = <<"conflict">>
  <2>1. Told(c, <<"conflict">>)
    BY <1>3 DEF MySqlWrite
  <2>2. Contract!Refused(q) /\ q.op \in Contract!Inserts
    <3>1. o.answer = <<"done">> \/ (Contract!Refused(q) /\ q.op \in Contract!Inserts)
      <4>1. CASE q.op = "user_insert"
        BY <4>1 DEF My!WriteOf, My!UserInsertWrite, Contract!Refused, Contract!Inserts
      <4>2. CASE q.op = "create"
        BY <4>2 DEF My!WriteOf, My!NoteInsertWrite, Contract!Refused, Contract!Inserts
      <4>3. CASE q.op = "update"
        BY <4>3 DEF My!WriteOf, My!NoteUpdateWrite
      <4> QED
        BY <1>2, <4>1, <4>2, <4>3
    <3>2. <<"done">> # <<"conflict">>
      OBVIOUS
    <3> QED
      BY <1>3, <3>1, <3>2
  <2>3. [table |-> rows, answer |-> <<"conflict">>] \in Contract!Outcomes(q)
    BY <2>2, OutcomesByKind DEF Contract!Insert, Contract!Conflict, Contract!Reply
  <2>4. Contract!Told(c, <<"conflict">>)
    BY <2>1, ToldIsTold
  <2> QED
    BY <1>1, <1>2, <2>3, <2>4 DEF Contract!Single, Singular
<1>4. CASE o.answer # <<"conflict">>
  BY <1>1, <1>4 DEF MySqlWrite, Contract!Quiet, Silent, Contract!Silent
<1> QED
  BY <1>3, <1>4

(* The read and the commit are the whole method, at one instant.              *)
LEMMA ReadStep ==
    ASSUME StoresInv, NEW c \in Clients, MySqlRead(c)
    PROVE  Contract!Single(c)
<1> DEFINE answer == My!ReadOf(View(c), calls[c]).answer
<1>1. c \in open /\ rows' = View(c) /\ Told(c, answer) /\ backend' = backend /\ now' = now
  BY DEF MySqlRead
<1>2. [table |-> View(c), answer |-> answer] \in Contract!Outcomes(calls[c])
  BY <1>1, CommitIsOutcome DEF StoresInv
<1>3. Singular(calls[c])
  BY <1>1, TransactedOnMySql DEF StoresInv, TransactionsInv
<1>4. Contract!Told(c, answer)
  BY <1>1, ToldIsTold
<1> HIDE DEF answer
<1> QED
  BY <1>1, <1>2, <1>3, <1>4 DEF Contract!Single, Singular

(* MongoDB takes documents one by one and answers when none is left.          *)
LEMMA OneByOneStep ==
    ASSUME StoresInv, NEW c \in Clients, MongoOne(c) \/ MongoEnd(c)
    PROVE  Contract!Some(c) \/ Contract!All(c)
<1> DEFINE q == calls[c]
<1>1. OneByOne(q) /\ backend' = backend /\ now' = now
  BY DEF MongoOne, MongoEnd
<1>2. CallsInv /\ RowsInv /\ Asking(q)
  <2>1. q.op \notin {"none", "total"}
    BY <1>1 DEF OneByOne, Mongo!Multi
  <2> QED
    BY <2>1, AtWork DEF StoresInv
<1>3. /\ q.op \in Contract!Many /\ Mongo!Matched(rows, q) \subseteq Contract!About(q)
      /\ Contract!Due(q) \subseteq Mongo!Matched(rows, q)
      /\ \A k : Mongo!One(rows, q, k) = Contract!Taking(q, {k})
  BY <1>1, <1>2, DocumentByDocument
<1>4. CASE MongoOne(c)
  <2>1. PICK k \in Mongo!Matched(rows, q) : rows' = Mongo!One(rows, q, k)
    BY <1>4 DEF MongoOne
  <2>2. {k} \in (SUBSET Contract!About(q)) \ {{}} /\ rows' = Contract!Taking(q, {k})
    BY <1>3, <2>1
  <2>3. said' = Contract!Silent /\ calls' = calls /\ seen' = seen
    BY <1>4 DEF MongoOne, Silent, Contract!Silent
  <2> QED
    BY <1>1, <1>3, <2>2, <2>3 DEF Contract!Some
<1>5. CASE MongoEnd(c)
  <2>1. /\ Mongo!Matched(rows, q) \cap seen[c] = {} /\ rows' = rows
        /\ Told(c, IF q.op \in Contract!Sweeps THEN <<"count", took[c]>> ELSE <<"done">>)
    BY <1>5 DEF MongoEnd, Contract!Sweeps
  <2>2. Contract!Due(q) \cap seen[c] \subseteq {}
    BY <1>3, <2>1
  <2>3. rows' = Contract!Taking(q, {})
    <3>1. rows = [k \in DOMAIN rows |-> rows[k]]
      BY <1>2 DEF RowsInv
    <3>2. Contract!Taking(q, {}) = [k \in DOMAIN rows |-> rows[k]]
      BY DEF Contract!Taking, Contract!Change, Contract!Without
    <3> QED
      BY <2>1, <3>1, <3>2
  <2>4. took[c] \in Nat
    BY DEF StoresInv, TookInv
  <2>5. q.op \in Contract!Sweeps =>
            /\ said' # Contract!Silent /\ said'.to = c /\ said'.answer[2] \in Nat
            /\ Contract!Told(c, <<"count", said'.answer[2]>>)
    <3> SUFFICES ASSUME q.op \in Contract!Sweeps
                 PROVE  /\ said' # Contract!Silent /\ said'.to = c /\ said'.answer[2] \in Nat
                        /\ Contract!Told(c, <<"count", said'.answer[2]>>)
      OBVIOUS
    <3>1. Told(c, <<"count", took[c]>>)
      BY <2>1
    <3>2. Contract!Told(c, <<"count", took[c]>>) /\ said' = [to |-> c, q |-> q, answer |-> <<"count", took[c]>>]
      BY <3>1, ToldIsTold
    <3> QED
      BY <2>4, <3>2 DEF Contract!Silent
  <2>6. q.op \notin Contract!Sweeps => Contract!Told(c, <<"done">>)
    BY <2>1, ToldIsTold
  <2>7. {} \in SUBSET Contract!About(q)
    OBVIOUS
  <2> QED
    BY <1>1, <1>3, <2>2, <2>3, <2>5, <2>6, <2>7 DEF Contract!All
<1> QED
  BY <1>4, <1>5

(* The two reads of a listing.                                                *)
LEMMA ListStep ==
    ASSUME StoresInv, NEW c \in Clients, List(c) \/ Total(c)
    PROVE  Contract!List(c) \/ Contract!Total(c)
<1> DEFINE q == calls[c]
<1>1. CASE List(c)
  <2>1. PICK page \in PagesOf(q) :
          calls' = [calls EXCEPT ![c] = [op |-> "total", since |-> q.since, owner |-> q.owner, page |-> page,
                                         limit |-> q.limit, offset |-> q.offset]]
    BY <1>1 DEF List
  <2>2. page \in Contract!Pages(OwnedBy(q.owner), Newer, q.limit, q.offset)
    BY PagesOfBackends DEF StoresInv
  <2>3. page \in Contract!Pages({k \in DOMAIN rows : rows[k].owner = q.owner},
                                LAMBDA a, b : rows[a].created > rows[b].created, q.limit, q.offset)
    BY <2>2 DEF OwnedBy, Newer, Contract!Pages
  <2>4. /\ q.op = "list" /\ backend' = backend /\ rows' = rows /\ now' = now /\ said' = Contract!Silent
        /\ seen' = [seen EXCEPT ![c] = {k \in DOMAIN rows : rows[k].owner = q.owner}]
    BY <1>1 DEF List, OwnedBy, Silent, Contract!Silent
  <2> QED
    BY <2>1, <2>3, <2>4 DEF Contract!List
<1>2. CASE Total(c)
  <2>1. /\ q.op = "total" /\ backend' = backend /\ rows' = rows /\ now' = now
        /\ Told(c, <<"page", q.page, CountOf(q)>>)
    BY <1>2 DEF Total
  <2>2. CountOf(q) = Contract!Cardinality({k \in DOMAIN rows : rows[k].owner = q.owner})
    BY PagesOfBackends, SameCount DEF StoresInv, OwnedBy
  <2>3. Contract!Told(c, <<"page", q.page, CountOf(q)>>)
    BY <2>1, ToldIsTold
  <2> QED
    BY <2>1, <2>2, <2>3 DEF Contract!Total
<1> QED
  BY <1>1, <1>2

(* A new call is stamped with the moment it is made.                          *)
LEMMA CallStep ==
    ASSUME StoresInv, NEW c \in Clients, Call(c)
    PROVE  Contract!Call(c)
<1>1. PICK x : calls' = [calls EXCEPT ![c] = Since(x)]
  BY Zenon DEF Call
<1> DEFINE q == Since(x)
<1>2. "since" \in DOMAIN q /\ q.since = now
  BY DEF Since
<1>3. calls'[c] = q /\ \A d \in Clients \ {c} : calls'[d] = calls[d]
  BY <1>1 DEF StoresInv, CallsInv
<1> HIDE DEF q
<1>4. calls'[c] # Contract!NoCall
  BY <1>2, <1>3 DEF Contract!NoCall
<1> QED
  BY <1>2, <1>3, <1>4 DEF Call, Contract!Call, NoCall, Contract!NoCall, Silent, Contract!Silent

(* The refinement, step by step.                                              *)
LEMMA ContractStep ==
    ASSUME StoresInv, [Next]_vars
    PROVE  [Contract!Next]_(Contract!vars)
<1>1. CASE UNCHANGED vars
  BY <1>1 DEF vars, Contract!vars
<1>2. CASE Tick
  BY <1>2 DEF Tick, Contract!Next, Contract!Tick, Silent, Contract!Silent
<1>3. ASSUME NEW c \in Clients, Call(c)
      PROVE  Contract!Next
  BY <1>3, CallStep DEF Contract!Next
<1>4. ASSUME NEW c \in Clients, Drop(c)
      PROVE  Contract!Next
  BY <1>4 DEF Drop, Contract!Next, Contract!Drop, NoCall, Contract!NoCall, Silent, Contract!Silent
<1>5. ASSUME NEW c \in Clients, Advance(c)
      PROVE  Contract!Next
  BY <1>5, StatementStep, WriteStep, ReadStep, OneByOneStep, ListStep, Zenon DEF Advance, Contract!Next
<1> QED
  BY <1>1, <1>2, <1>3, <1>4, <1>5 DEF Next

-----------------------------------------------------------------------------
(* The invariant holds in every state.                                        *)

HIDE DEF Lite!Reply, Lite!Conflict, Lite!Done, Lite!Flag, Lite!Count, Lite!Rows,
        Lite!Where, Lite!Keyed, Lite!Put, Lite!Change, Lite!Without, Lite!OneRow,
        Lite!Taken, Lite!NewUserRow, Lite!NewNoteRow, Lite!NewRefreshRow,
        Lite!NewAccessRow, Lite!Null, Post!Reply, Post!Conflict, Post!Done,
        Post!Flag, Post!Count, Post!Rows, Post!Where, Post!Keyed, Post!Put,
        Post!Change, Post!Without, Post!OneRow, Post!Taken, Post!NewUserRow,
        Post!NewNoteRow, Post!NewRefreshRow, Post!NewAccessRow, Post!Null,
        My!Reply, My!Conflict, My!Done, My!Flag, My!Count, My!Rows, My!Where,
        My!Keyed, My!Put, My!Change, My!Without, My!OneRow, My!Taken,
        My!NewUserRow, My!NewNoteRow, My!NewRefreshRow, My!NewAccessRow, My!Null,
        Mongo!Reply, Mongo!Conflict, Mongo!Done, Mongo!Flag, Mongo!Count,
        Mongo!Rows, Mongo!Where, Mongo!Keyed, Mongo!Put, Mongo!Change,
        Mongo!Without, Mongo!OneRow, Mongo!Taken, Mongo!NewUserRow,
        Mongo!NewNoteRow, Mongo!NewRefreshRow, Mongo!NewAccessRow, Mongo!Null

(* What a step of one client leaves alone.                                    *)
Others(c) ==
    /\ backend' = backend /\ table' = table /\ now' = now
    /\ DOMAIN calls' = Clients /\ DOMAIN seen' = Clients /\ DOMAIN work' = Clients /\ DOMAIN took' = Clients
    /\ \A d \in Clients \ {c} :
        calls'[d] = calls[d] /\ seen'[d] = seen[d] /\ work'[d] = work[d] /\ took'[d] = took[d]
    /\ open' \ {c} = open \ {c}

(* The other clients' calls, transactions and counts stay as they were.       *)
LEMMA OthersKept ==
    ASSUME CallsInv, NEW c \in Clients, Call(c) \/ Advance(c) \/ Drop(c)
    PROVE  Others(c)
<1>1. CASE Call(c)
  <2>1. PICK x : calls' = [calls EXCEPT ![c] = x]
    BY <1>1 DEF Call
  <2> QED
    BY <1>1, <2>1 DEF Call, CallsInv, Others
<1>2. CASE Drop(c)
  BY <1>2 DEF Drop, CallsInv, Others
<1>3. ASSUME NEW answer, Told(c, answer), UNCHANGED <<open, work>> \/
               (open' = open \ {c} /\ work' = [work EXCEPT ![c] = Empty]),
             UNCHANGED <<backend, table, now>>
      PROVE  Others(c)
  BY <1>3 DEF Told, CallsInv, Others
<1>4. CASE Statement(c)
  BY <1>3, <1>4 DEF Statement
<1>5. CASE MySqlWrite(c)
  <2>1. CASE My!WriteOf(rows, calls[c], now).answer = <<"conflict">>
    BY <1>3, <1>5, <2>1 DEF MySqlWrite
  <2>2. CASE My!WriteOf(rows, calls[c], now).answer # <<"conflict">>
    <3>1. PICK x : work' = [work EXCEPT ![c] = x]
      BY <1>5, <2>2 DEF MySqlWrite
    <3> QED
      BY <1>5, <2>2, <3>1 DEF MySqlWrite, CallsInv, Others
  <2> QED
    BY <2>1, <2>2
<1>6. CASE MySqlRead(c)
  BY <1>3, <1>6 DEF MySqlRead
<1>7. CASE MongoOne(c)
  BY <1>7 DEF MongoOne, CallsInv, Others
<1>8. CASE MongoEnd(c)
  BY <1>3, <1>8 DEF MongoEnd
<1>9. CASE List(c)
  <2>1. PICK x : calls' = [calls EXCEPT ![c] = x]
    BY <1>9 DEF List
  <2> QED
    BY <1>9, <2>1 DEF List, CallsInv, Others
<1>10. CASE Total(c)
  BY <1>3, <1>10 DEF Total
<1> QED
  BY <1>1, <1>2, <1>4, <1>5, <1>6, <1>7, <1>8, <1>9, <1>10 DEF Advance

(* A writer that does not wait is apart from every open transaction.          *)
LEMMA LocksApart ==
    ASSUME CallsInv, TransactionsInv, NEW c \in Clients, calls[c].op \in Writes, ~Waits(c),
           NEW d \in open, d # c
    PROVE  Apart(c, d)
<1>1. ~Locks(d, calls[c])
  BY DEF Waits
<1>2. calls[d].id # calls[c].id
  BY <1>1 DEF Locks
<1>3. ASSUME calls[d].op = "user_insert"
      PROVE  \E k \in DOMAIN work[d] : work[d][k].email = calls[d].email
  <2>1. PICK at : work[d] = Written(calls[d], at)
    BY Zenon DEF TransactionsInv, Standing
  <2>2. work[d] = [k \in {calls[d].id} |-> NewUserRow(calls[d], at)]
    BY <1>3, <2>1 DEF Written
  <2>3. NewUserRow(calls[d], at).email = calls[d].email
    BY DEF NewUserRow
  <2> QED
    BY <2>2, <2>3
<1> QED
  BY <1>1, <1>2, <1>3 DEF Locks, Apart

(* What a step of a client at work does to the table.                         *)
LEMMA WorkMoves ==
    ASSUME StoresInv, NEW c \in Clients, Advance(c)
    PROVE  /\ Moves(calls[c], rows')
           /\ rows' = rows \/ (/\ Asking(calls[c])
                               /\ calls[c].op \in Writes => \A d \in open \ {c} : Apart(c, d))
<1> DEFINE q == calls[c]
           alone == q.op \in Writes => \A d \in open \ {c} : Apart(c, d)
<1>1. CallsInv /\ RowsInv /\ TransactionsInv /\ IsFiniteSet(DOMAIN rows)
  BY FS_Subset DEF StoresInv, IdsInv
<1>2. Contract!About(q) \subseteq DOMAIN rows
  BY DEF Contract!About
<1>3. CASE Statement(c)
  <2> DEFINE o == Method(q)
  <2>1. /\ q.op \notin {"none", "list", "total"} /\ ~Transacted(q) /\ ~OneByOne(q) /\ ~Waits(c)
        /\ rows' = o.table
    BY <1>3 DEF Statement
  <2>2. Asking(q)
    BY <1>1, <2>1, AtWork
  <2>3. alone
    BY <1>1, <2>1, LocksApart
  <2>4. CASE Singular(q)
    BY <1>1, <2>1, <2>2, <2>3, <2>4, StatementIsOutcome, SingleMoves
  <2>5. CASE ~Singular(q)
    <3>1. q.op \in Contract!Many /\ backend # "mongo"
      BY <2>1, <2>5 DEF Singular, OneByOne, Mongo!Multi, Contract!Many, Contract!Revokes,
                        Contract!Deletes, Contract!Sweeps
    <3>2. rows' = Contract!Taking(q, Contract!About(q))
      BY <1>1, <2>1, <3>1, ManyReplies
    <3>3. Moves(q, Contract!Taking(q, Contract!About(q)))
      BY <1>1, <1>2, <2>2, <3>1, ManyMoves
    <3> QED
      BY <2>2, <2>3, <3>2, <3>3
  <2> QED
    BY <2>4, <2>5
<1>4. CASE MySqlRead(c)
  <2>1. c \in open /\ rows' = View(c)
    BY <1>4 DEF MySqlRead
  <2>2. Transacted(q)
    BY <1>1, <2>1 DEF TransactionsInv
  <2>3. Asking(q) /\ Singular(q)
    BY <1>1, <2>2, TransactedOnMySql, AtWork
  <2> DEFINE answer == My!ReadOf(View(c), q).answer
             o == [table |-> View(c), answer |-> answer]
  <2>4. o \in Contract!Outcomes(q)
    BY <1>1, <2>1, CommitIsOutcome
  <2>5. o.table = View(c)
    OBVIOUS
  <2> HIDE DEF o, answer
  <2>6. Moves(q, View(c))
    BY <1>1, <2>3, <2>4, <2>5, SingleMoves
  <2>7. alone
    BY <1>1, <2>1 DEF TransactionsInv
  <2> QED
    BY <2>1, <2>3, <2>6, <2>7
<1>5. CASE MongoOne(c)
  <2>1. OneByOne(q) /\ \E k \in Mongo!Matched(rows, q) : rows' = Mongo!One(rows, q, k)
    BY <1>5 DEF MongoOne
  <2>2. q.op \notin {"none", "total"} /\ q.op \notin Writes
    BY <2>1 DEF OneByOne, Mongo!Multi, Writes, Inserts
  <2>3. Asking(q)
    BY <1>1, <2>2, AtWork
  <2>4. PICK k \in Mongo!Matched(rows, q) : rows' = Mongo!One(rows, q, k)
    BY <2>1
  <2>5. q.op \in Contract!Many /\ k \in DOMAIN rows /\ rows' = Contract!Taking(q, {k})
    BY <1>1, <2>1, <2>3, <2>4, DocumentByDocument
  <2>6. {k} \in SUBSET DOMAIN rows
    BY <2>5
  <2>7. Moves(q, Contract!Taking(q, {k}))
    BY <1>1, <2>3, <2>5, <2>6, ManyMoves
  <2> QED
    BY <2>2, <2>3, <2>5, <2>7
<1>6. CASE MySqlWrite(c) \/ MongoEnd(c) \/ List(c) \/ Total(c)
  BY <1>1, <1>6, NothingMoves DEF MySqlWrite, MongoEnd, List, Total
<1> QED
  BY <1>3, <1>4, <1>5, <1>6 DEF Advance

(* How the call under way goes on: it is answered, or goes on as it is while  *)
(* rows only go, or turns to the total of its page.                           *)
LEMMA WorkCalls ==
    ASSUME StoresInv, NEW c \in Clients, Advance(c)
    PROVE  \/ calls'[c] = NoCall
           \/ calls'[c] = calls[c] /\ (rows' = rows \/ calls[c].op \notin Inserts)
           \/ List(c)
<1>1. \A answer : Told(c, answer) => calls'[c] = NoCall
  BY DEF Told, StoresInv, CallsInv
<1>2. CASE MySqlWrite(c)
  BY <1>1, <1>2 DEF MySqlWrite
<1>3. CASE MongoOne(c)
  BY <1>3 DEF MongoOne, OneByOne, Mongo!Multi, Inserts
<1> QED
  BY <1>1, <1>2, <1>3 DEF Advance, Statement, MySqlRead, MongoEnd, Total

(* A call under way stays one.                                                *)
LEMMA CallsKept ==
    ASSUME StoresInv, NEW c \in Clients, Call(c) \/ Advance(c) \/ Drop(c)
    PROVE  CallsInv'
<1>1. CallsInv
  BY DEF StoresInv
<1>2. Others(c)
  BY <1>1, OthersKept
<1>3. /\ backend' \in Backends /\ table' \in DOMAIN Ports /\ now' \in StartTime..MaxTime
      /\ DOMAIN calls' = Clients /\ DOMAIN seen' = Clients /\ DOMAIN work' = Clients /\ DOMAIN took' = Clients
  BY <1>1, <1>2 DEF CallsInv, Others
<1>4. \A q : (Asking(q) => Asking(q)') /\ (Paging(q) => Paging(q)')
  BY <1>2 DEF Asking, Paging, Others
<1>5. ASSUME NEW d \in Clients, d # c
      PROVE  (calls[d] = NoCall \/ Paging(calls[d]) \/ Asking(calls[d]))'
  <2>1. calls'[d] = calls[d]
    BY <1>2, <1>5 DEF Others
  <2> QED
    BY <1>1, <1>4, <2>1 DEF CallsInv
<1>6. CASE calls'[c] = NoCall \/ calls'[c] = calls[c]
  BY <1>1, <1>3, <1>4, <1>5, <1>6 DEF CallsInv
<1>7. CASE List(c)
  <2>1. Asking(calls[c]) /\ calls[c].op = "list"
    BY <1>1, <1>7, AtWork DEF List
  <2>2. table = "notes"
    <3>1. MethodOf("list", table)
      BY <1>1, <2>1, PortMethods DEF CallsInv, Asking
    <3> QED
      BY <1>1, <3>1 DEF MethodOf, CallsInv, Ports, Contract!Sets, Contract!Revokes
  <2>3. PICK page : calls'[c] = [op |-> "total", since |-> calls[c].since, owner |-> calls[c].owner, page |-> page,
                                 limit |-> calls[c].limit, offset |-> calls[c].offset]
    BY <1>1, <1>7 DEF List, CallsInv
  <2>4. Paging(calls'[c])
    BY <2>1, <2>2, <2>3 DEF Paging, Asking
  <2> QED
    BY <1>3, <1>4, <1>5, <2>4 DEF CallsInv
<1>8. CASE Call(c)
  <2>1. PICK q \in Calls :
          /\ q.table = table
          /\ calls'[c] = Since(IF q.op = "list" THEN Asked(q)
                               ELSE IF "at" \in DOMAIN q THEN [q EXCEPT !.at = now] ELSE q)
    BY <1>1, <1>8, Zenon DEF Call, CallsInv
  <2> DEFINE p == IF q.op = "list" THEN Asked(q) ELSE IF "at" \in DOMAIN q THEN [q EXCEPT !.at = now] ELSE q
  <2>2. /\ q.op \in DOMAIN Ports[table] /\ DOMAIN q = {"table", "op"} \cup Ports[table][q.op]
        /\ \A f \in DOMAIN q \cap Numbers : q[f] \in Int
    BY <2>1, StoresAssumption
  <2>3. now \in Int
    BY <1>1, StoresAssumption DEF CallsInv
  <2>4. /\ DOMAIN p = DOMAIN q /\ p.table = q.table /\ p.op = q.op
        /\ \A f \in DOMAIN p \cap Numbers : p[f] \in Int
        /\ q.op = "list" => p.limit \in 1..MaxPage /\ p.offset \in Nat
    <3>1. CASE q.op = "list"
      <4>1. {"limit", "offset"} \subseteq DOMAIN q /\ {"limit", "offset"} \subseteq Numbers
        BY <1>1, <2>2, <3>1, PortArguments DEF CallsInv, Numbers
      <4>2. q.limit \in Int /\ q.offset \in Int
        BY <2>2, <4>1
      <4> DEFINE limit == Clamped(IF q.limit = Null THEN DefaultPage ELSE q.limit, 1, MaxPage)
                 offset == IF q.offset < 0 THEN 0 ELSE q.offset
      <4>3. limit \in 1..MaxPage /\ offset \in Nat
        BY <4>2, StoresAssumption DEF Clamped
      <4>4. p = [q EXCEPT !.limit = limit, !.offset = offset]
        BY <3>1 DEF Asked
      <4> HIDE DEF limit, offset, p
      <4>5. DOMAIN p = DOMAIN q /\ p.limit = limit /\ p.offset = offset
        BY <4>1, <4>4
      <4>6. \A f \in DOMAIN q : f \notin {"limit", "offset"} => p[f] = q[f]
        BY <4>4
      <4>7. "table" \in DOMAIN q /\ "op" \in DOMAIN q
        BY <2>2
      <4>8. limit \in Int /\ offset \in Int
        BY <4>3, StoresAssumption
      <4> QED
        BY <2>2, <4>3, <4>5, <4>6, <4>7, <4>8
    <3>2. CASE q.op # "list" /\ "at" \in DOMAIN q
      <4>1. p = [q EXCEPT !.at = now]
        BY <3>2
      <4> HIDE DEF p
      <4>2. DOMAIN p = DOMAIN q /\ p.at = now /\ \A f \in DOMAIN q : f # "at" => p[f] = q[f]
        BY <3>2, <4>1
      <4>3. "table" \in DOMAIN q /\ "op" \in DOMAIN q
        BY <2>2
      <4> QED
        BY <2>2, <2>3, <3>2, <4>2, <4>3
    <3>3. CASE q.op # "list" /\ "at" \notin DOMAIN q
      BY <2>2, <3>3
    <3> QED
      BY <3>1, <3>2, <3>3
  <2> HIDE DEF p
  <2>5. calls'[c] = Since(p)
    BY <2>1 DEF p
  <2> DEFINE r == Since(p)
  <2>6. DOMAIN r = DOMAIN p \cup {"since"} /\ r.since = now /\ \A f \in DOMAIN p : f # "since" => r[f] = p[f]
    BY DEF Since
  <2>7. "since" \notin Numbers /\ "limit" # "since" /\ "offset" # "since"
    BY DEF Numbers
  <2>8. "table" \in DOMAIN p /\ "op" \in DOMAIN p /\ (q.op = "list" => {"limit", "offset"} \subseteq DOMAIN p)
    BY <1>1, <2>2, <2>4, PortArguments DEF CallsInv
  <2> HIDE DEF r
  <2>9. r.table = table /\ r.op = q.op /\ (q.op = "list" => r.limit = p.limit /\ r.offset = p.offset)
    BY <2>1, <2>4, <2>6, <2>7, <2>8
  <2>10. \A f \in DOMAIN r \cap Numbers : r[f] \in Int
    BY <2>4, <2>6, <2>7
  <2>11. Asking(r)
    BY <2>2, <2>3, <2>4, <2>6, <2>9, <2>10 DEF Asking
  <2> QED
    BY <1>3, <1>4, <1>5, <2>5, <2>11 DEF r, CallsInv
<1>9. CASE Advance(c)
  BY <1>6, <1>7, <1>9, WorkCalls
<1>10. CASE Drop(c)
  BY <1>1, <1>6, <1>10 DEF Drop, CallsInv
<1> QED
  BY <1>8, <1>9, <1>10

(* Rows stay whole.                                                           *)
LEMMA RowsKept ==
    ASSUME NEW q, Moves(q, rows'), table' = table
    PROVE  RowsInv'
  BY DEF Moves, RowsInv, Whole

(* Who touches a row, for a bystander that has a row locked.                  *)
Bystands(d) ==
    \/ rows' = rows
    \/ \E c \in Clients \ {d} :
        /\ Moves(calls[c], rows') /\ Asking(calls[c])
        /\ calls[c].op \in Writes => Apart(c, d)

(* What an open transaction wrote is still what it would write.               *)
LEMMA WrittenKept ==
    ASSUME NEW q, NEW at, Transacted(q), q.id \in DOMAIN rows <=> q.id \in DOMAIN rows',
           q.id \in DOMAIN rows => rows'[q.id] = rows[q.id]
    PROVE  Written(q, at)' = Written(q, at)
<1>1. q.op \in {"user_insert", "create", "update"}
  BY TransactedOnMySql
<1>2. CASE q.op \in {"user_insert", "create"}
  BY <1>2 DEF Written, NewUserRow, NewNoteRow
<1>3. CASE q.op = "update"
  BY <1>3 DEF Written, Keyed
<1> QED
  BY <1>1, <1>2, <1>3

(* An open transaction keeps its standing while others work.                  *)
LEMMA StandingKept ==
    ASSUME StoresInv, NEW d \in open, Bystands(d), backend' = backend, table' = table,
           calls'[d] = calls[d], work'[d] = work[d], now' \in Int, now <= now'
    PROVE  Standing(d)'
<1> DEFINE q == calls[d]
<1>1. CallsInv /\ RowsInv /\ TransactionsInv /\ d \in Clients /\ Transacted(q)
  BY DEF StoresInv, TransactionsInv
<1>2. /\ q.op \in {"user_insert", "create", "update"} /\ Asking(q)
  BY <1>1, TransactedOnMySql, AtWork
<1>3. MethodOf(q.op, table) /\ table \in DOMAIN Ports
  BY <1>1, <1>2, PortMethods DEF CallsInv, Asking
<1>4. table \in {"users", "notes"} /\ (q.op = "user_insert" => table = "users")
  BY <1>2, <1>3 DEF MethodOf, Ports, Contract!Sets, Contract!Revokes
<1>5. /\ q.id \in DOMAIN rows <=> q.id \in DOMAIN rows'
      /\ q.id \in DOMAIN rows => rows'[q.id] = rows[q.id]
  <2>1. CASE rows' = rows
    BY <2>1
  <2>2. ASSUME NEW c \in Clients \ {d}, Moves(calls[c], rows'), calls[c].op \in Writes => Apart(c, d)
        PROVE  /\ q.id \in DOMAIN rows <=> q.id \in DOMAIN rows'
               /\ q.id \in DOMAIN rows => rows'[q.id] = rows[q.id]
    <3>1. calls[c].op \notin Writes \/ q.id # calls[c].id
      BY <2>2 DEF Apart
    <3>2. Inserts \subseteq Writes
      BY DEF Writes
    <3> QED
      BY <1>4, <2>2, <3>1, <3>2 DEF Moves
  <2> QED
    BY <2>1, <2>2 DEF Bystands
<1>6. PICK at \in q.since..now : work[d] = Written(q, at)
  BY <1>1 DEF TransactionsInv, Standing
<1>7. Written(q, at) = Written(calls[d], at)'
  <2>1. \A p : p = calls[d] => Written(p, at)' = Written(p, at)
    BY <1>1, <1>5, WrittenKept
  <2> QED
    BY <2>1 DEF Written
<1>8. at \in q.since..now'
  <2>1. now \in Int /\ q.since \in Int
    BY <1>1, <1>2, CallNumbers DEF Asking
  <2> QED
    BY <2>1, <1>6
<1>9. ASSUME q.op \in Inserts
      PROVE  ~Contract!Refused(calls[d])'
  <2>1. ~Contract!Refused(q)
    BY <1>1, <1>9 DEF TransactionsInv, Standing
  <2>2. q.id \notin DOMAIN rows'
    BY <1>5, <2>1 DEF Contract!Refused
  <2>3. ASSUME q.op = "user_insert", NEW k \in DOMAIN rows'
        PROVE  rows'[k].email # q.email
    <3>1. table = "users" /\ \A i \in DOMAIN rows : rows[i].email # q.email
      BY <1>4, <2>1, <2>3 DEF Contract!Refused
    <3>2. CASE rows' = rows
      BY <2>3, <3>1, <3>2
    <3>3. ASSUME NEW c \in Clients \ {d}, Moves(calls[c], rows'), Asking(calls[c]),
                 calls[c].op \in Writes => Apart(c, d)
          PROVE  rows'[k].email # q.email
      <4>1. CASE k \in DOMAIN rows
        BY <2>3, <3>1, <3>3, <4>1 DEF Moves
      <4>2. CASE k \notin DOMAIN rows
        <5>1. calls[c].op \in Inserts /\ (calls[c].op = "user_insert" => rows'[k].email = calls[c].email)
          BY <2>3, <3>3, <4>2 DEF Moves
        <5>2. MethodOf(calls[c].op, "users")
          BY <1>1, <3>1, <3>3, PortMethods DEF CallsInv, Asking
        <5>3. calls[c].op = "user_insert"
          BY <5>1, <5>2 DEF MethodOf, Inserts, Contract!Sets
        <5> QED
          BY <2>3, <3>3, <5>1, <5>3 DEF Apart, Writes
      <4> QED
        BY <4>1, <4>2
    <3> QED
      BY <3>2, <3>3 DEF Bystands
  <2> QED
    BY <2>2, <2>3 DEF Contract!Refused
<1> QED
  BY <1>6, <1>7, <1>8, <1>9 DEF Standing

(* MySQL's write, when the address and the id are free.                       *)
LEMMA WriteStands ==
    ASSUME StoresInv, NEW c \in Clients, MySqlWrite(c), My!WriteOf(rows, calls[c], now).answer # <<"conflict">>
    PROVE  /\ work'[c] = Written(calls[c], now)
           /\ calls[c].op \in Inserts => ~Contract!Refused(calls[c])
<1> DEFINE q == calls[c]
           o == My!WriteOf(rows, q, now)
           new(row) == [k \in DOMAIN rows \cup {q.id} |-> IF k = q.id THEN row ELSE rows[k]]
<1>1. work'[c] = [k \in {q.id} \cap DOMAIN o.table |-> o.table[k]]
  BY DEF MySqlWrite, Keyed, StoresInv, CallsInv
<1>2. q.op \in {"user_insert", "create", "update"}
  BY TransactedOnMySql DEF MySqlWrite
<1>3. CASE q.op = "user_insert"
  <2>1. ~(q.id \in DOMAIN rows \/ {k \in DOMAIN rows : rows[k].email = q.email} # {})
    BY <1>3 DEF My!WriteOf, My!UserInsertWrite, My!Taken, My!Where, My!Conflict, My!Reply
  <2>2. o.table = new(NewUserRow(q, now))
    BY <1>3, <2>1
    DEF My!WriteOf, My!UserInsertWrite, My!Taken, My!Where, My!Done, My!Put, My!Reply, NewUserRow,
        My!NewUserRow, Null, My!Null
  <2> HIDE DEF o
  <2>3. work'[c] = [k \in {q.id} |-> NewUserRow(q, now)]
    BY <1>1, <2>2
  <2> QED
    BY <1>3, <2>1, <2>3 DEF Written, Contract!Refused
<1>4. CASE q.op = "create"
  <2>1. q.id \notin DOMAIN rows
    BY <1>4 DEF My!WriteOf, My!NoteInsertWrite, My!Conflict, My!Reply
  <2>2. o.table = new(NewNoteRow(q, now))
    BY <1>4, <2>1
    DEF My!WriteOf, My!NoteInsertWrite, My!Done, My!Put, My!Reply, NewNoteRow, My!NewNoteRow
  <2> HIDE DEF o
  <2>3. work'[c] = [k \in {q.id} |-> NewNoteRow(q, now)]
    BY <1>1, <2>2
  <2> QED
    BY <1>4, <2>1, <2>3 DEF Written, Contract!Refused
<1>5. CASE q.op = "update"
  <2> DEFINE owned == {k \in {q.id} \cap DOMAIN rows : rows[k].owner = q.owner}
             after == [k \in DOMAIN rows |->
                        IF k \in owned THEN [rows[k] EXCEPT !.text = q.text, !.updated = now] ELSE rows[k]]
  <2>1. o.table = after
    BY <1>5 DEF My!WriteOf, My!NoteUpdateWrite, My!Done, My!Change, My!Owned, My!Keyed, My!Reply
  <2> HIDE DEF o
  <2>2. work'[c] = [k \in {q.id} \cap DOMAIN rows |-> after[k]]
    BY <1>1, <2>1
  <2>3. \A k \in {q.id} \cap DOMAIN rows : after[k] =
          IF rows[k].owner = q.owner THEN [rows[k] EXCEPT !.text = q.text, !.updated = now] ELSE rows[k]
    OBVIOUS
  <2> HIDE DEF after
  <2>4. work'[c] = [k \in {q.id} \cap DOMAIN rows |->
          IF rows[k].owner = q.owner THEN [rows[k] EXCEPT !.text = q.text, !.updated = now] ELSE rows[k]]
    BY <2>2, <2>3
  <2> QED
    BY <1>5, <2>4 DEF Written, Keyed, Inserts
<1> QED
  BY <1>2, <1>3, <1>4, <1>5

(* The open transactions, over a step of one client.                          *)
LEMMA TransactionsKept ==
    ASSUME StoresInv, NEW c \in Clients, Call(c) \/ Advance(c) \/ Drop(c)
    PROVE  TransactionsInv'
<1>1. CallsInv /\ TransactionsInv /\ Others(c)
  BY OthersKept DEF StoresInv
<1>2. /\ \A d \in open : d \in Clients /\ Transacted(calls[d])
      /\ \A q : Transacted(q)' = Transacted(q)
  BY <1>1 DEF TransactionsInv, Others, Transacted
<1>3. now \in Int
  BY <1>1, StoresAssumption DEF CallsInv
<1>4. ASSUME NEW d \in open \ {c}
      PROVE  Standing(d)'
  <2>1. Bystands(d)
    <3>1. CASE Advance(c)
      BY <3>1, WorkMoves DEF Bystands
    <3> QED
      BY <3>1 DEF Bystands, Call, Drop
  <2>2. d \in Clients \ {c}
    BY <1>2
  <2> QED
    BY <1>1, <1>3, <2>1, <2>2, StandingKept DEF Others
<1>5. ASSUME NEW d \in open \ {c}, NEW e \in open \ {c}, d # e
      PROVE  Apart(d, e)'
  BY <1>1, <1>2, <1>5 DEF TransactionsInv, Others, Apart
<1>6. \/ c \notin open' /\ work'[c] = Empty
      \/ MySqlWrite(c) /\ My!WriteOf(rows, calls[c], now).answer # <<"conflict">>
  <2>1. c \notin open => work[c] = Empty
    BY <1>1 DEF TransactionsInv
  <2>2. c \in open => calls[c].op \in {"user_insert", "create", "update"} /\ Transacted(calls[c])
    BY <1>2, TransactedOnMySql
  <2>3. work' = [work EXCEPT ![c] = Empty] => work'[c] = Empty
    BY <1>1 DEF CallsInv
  <2>4. CASE Call(c)
    BY <2>1, <2>2, <2>4 DEF Call, NoCall
  <2>5. CASE Drop(c) \/ MySqlRead(c)
    BY <2>3, <2>5 DEF Drop, MySqlRead
  <2>6. CASE Statement(c) \/ List(c) \/ Total(c)
    BY <2>1, <2>2, <2>6 DEF Statement, List, Total
  <2>7. CASE MongoOne(c) \/ MongoEnd(c)
    BY <2>1, <2>2, <2>7 DEF MongoOne, MongoEnd, OneByOne, Transacted
  <2>8. CASE MySqlWrite(c)
    BY <2>1, <2>8 DEF MySqlWrite
  <2> QED
    BY <2>4, <2>5, <2>6, <2>7, <2>8 DEF Advance
<1>7. ASSUME NEW d \in Clients \ open', d # c
      PROVE  (work[d] = Empty)'
  BY <1>1, <1>7 DEF TransactionsInv, Others
<1>8. ASSUME NEW d \in open', d # c
      PROVE  d \in open \ {c} /\ d \in Clients /\ Transacted(calls[d])'
  <2>1. d \in open \ {c} /\ d \in Clients
    BY <1>1, <1>2, <1>8 DEF Others
  <2>2. calls'[d] = calls[d]
    BY <1>1, <1>8, <2>1 DEF Others
  <2> QED
    BY <1>2, <2>1, <2>2 DEF Transacted
<1>9. CASE c \notin open' /\ work'[c] = Empty
  BY <1>4, <1>5, <1>7, <1>8, <1>9 DEF TransactionsInv
<1>10. CASE MySqlWrite(c) /\ My!WriteOf(rows, calls[c], now).answer # <<"conflict">>
  <2>1. /\ calls' = calls /\ rows' = rows /\ now' = now /\ c \in open' /\ Transacted(calls[c]) /\ ~Waits(c)
        /\ backend' = backend
    BY <1>10 DEF MySqlWrite
  <2>2. calls[c].op \in {"user_insert", "create", "update"} /\ calls[c].op \in Writes /\ Asking(calls[c])
    BY <1>1, <2>1, TransactedOnMySql, AtWork
  <2>3. work'[c] = Written(calls[c], now) /\ (calls[c].op \in Inserts => ~Contract!Refused(calls[c]))
    BY <1>10, WriteStands
  <2>4. now \in calls[c].since..now
    BY <1>3, <2>2 DEF Asking
  <2>5. \A q : Written(q, now)' = Written(q, now)
    BY <2>1 DEF Written
  <2>6. Standing(c)'
    <3>1. work'[c] = Written(calls[c], now)'
      BY <2>1, <2>3 DEF Written
    <3>2. calls'[c].op \in Inserts => ~Contract!Refused(calls[c])'
      BY <2>1, <2>3 DEF Contract!Refused
    <3> QED
      BY <2>1, <2>4, <3>1, <3>2 DEF Standing
  <2>7. \A d \in open \ {c} : Apart(c, d)
    BY <1>1, <2>1, <2>2, LocksApart
  <2>8. ASSUME NEW d \in open \ {c}
        PROVE  Apart(c, d)' /\ Apart(d, c)'
    BY <2>1, <2>7, <2>8 DEF Apart
  <2>9. Transacted(calls[c])'
    BY <2>1 DEF Transacted
  <2> QED
    BY <1>4, <1>5, <1>7, <1>8, <2>1, <2>6, <2>8, <2>9 DEF TransactionsInv
<1> QED
  BY <1>6, <1>9, <1>10

(* How a step of a client deals with ids: an insert that begins brings a new  *)
(* one, and a row comes only with the end of its insert.                      *)
Claims(c) ==
    /\ used \subseteq used' /\ IsFiniteSet(used')
    /\ \A k \in DOMAIN rows' \ DOMAIN rows :
        calls[c].op \in Inserts /\ k = calls[c].id /\ calls'[c].op \notin Inserts
    /\ calls'[c].op \in Inserts =>
        /\ calls'[c].id \in used'
        /\ calls'[c] = calls[c] \/ calls'[c].id \notin used

(* Every step of a client does.                                               *)
LEMMA ClaimsMade ==
    ASSUME StoresInv, NEW c \in Clients, Call(c) \/ Advance(c) \/ Drop(c)
    PROVE  Claims(c)
<1>1. CallsInv /\ IdsInv /\ NoCall.op \notin Inserts
  BY DEF StoresInv, NoCall, Inserts
<1>2. CASE Call(c)
  <2>1. PICK q \in Calls :
          /\ q.table = table /\ Nameable(q)
          /\ used' = IF q.op \in Inserts THEN used \cup {q.id} ELSE used
          /\ calls'[c] = Since(IF q.op = "list" THEN Asked(q)
                               ELSE IF "at" \in DOMAIN q THEN [q EXCEPT !.at = now] ELSE q)
    BY <1>1, <1>2, Zenon DEF Call, CallsInv
  <2> DEFINE p == IF q.op = "list" THEN Asked(q) ELSE IF "at" \in DOMAIN q THEN [q EXCEPT !.at = now] ELSE q
  <2>2. q.op \in DOMAIN Ports[table] /\ DOMAIN q = {"table", "op"} \cup Ports[table][q.op]
    BY <2>1, StoresAssumption
  <2>3. q.op \in Inserts => "id" \in DOMAIN q
    BY <1>1, <2>2, PortArguments DEF CallsInv
  <2>4. DOMAIN p = DOMAIN q /\ p.op = q.op /\ (q.op \in Inserts => p.id = q.id)
    <3>1. CASE q.op = "list"
      <4>1. q.op \notin Inserts
        BY <3>1 DEF Inserts
      <4> QED
        BY <2>2, <3>1, <4>1 DEF Asked
    <3> QED
      BY <2>2, <3>1
  <2> HIDE DEF p
  <2>5. calls'[c] = Since(p)
    BY <2>1 DEF p
  <2>6. calls'[c].op = q.op /\ (q.op \in Inserts => calls'[c].id = q.id)
    BY <2>2, <2>3, <2>4, <2>5 DEF Since
  <2>7. q.op \in Inserts => q.id \notin used
    BY <2>1, <2>3 DEF Nameable
  <2>8. IsFiniteSet(used) /\ IsFiniteSet(used \cup {q.id})
    BY <1>1, FS_AddElement DEF IdsInv
  <2>9. rows' = rows
    BY <1>2 DEF Call
  <2> QED
    BY <2>1, <2>6, <2>7, <2>8, <2>9 DEF Claims
<1>3. CASE Drop(c)
  <2>1. used' = used /\ rows' = rows /\ calls'[c] = NoCall
    BY <1>1, <1>3 DEF Drop, CallsInv
  <2> QED
    BY <1>1, <2>1 DEF Claims, IdsInv
<1>4. CASE Advance(c)
  <2>1. used' = used
    BY <1>4 DEF Advance, Statement, MySqlWrite, MySqlRead, MongoOne, MongoEnd, List, Total
  <2>2. \A k \in DOMAIN rows' \ DOMAIN rows : calls[c].op \in Inserts /\ k = calls[c].id
    BY <1>4, WorkMoves DEF Moves
  <2>3. CASE calls'[c] = NoCall
    BY <1>1, <2>1, <2>2, <2>3 DEF Claims, IdsInv
  <2>4. CASE calls'[c] = calls[c] /\ (rows' = rows \/ calls[c].op \notin Inserts)
    BY <1>1, <2>1, <2>2, <2>4 DEF Claims, IdsInv
  <2>5. CASE List(c)
    <3>1. rows' = rows /\ calls'[c].op = "total"
      BY <1>1, <2>5 DEF List, CallsInv
    <3> QED
      BY <1>1, <2>1, <3>1 DEF Claims, IdsInv, Inserts
  <2> QED
    BY <1>4, <2>3, <2>4, <2>5, WorkCalls
<1> QED
  BY <1>2, <1>3, <1>4

(* Ids stay the ids of one row, or of one insert, and of one only.            *)
LEMMA IdsKept ==
    ASSUME IdsInv, NEW c \in Clients, Others(c), Claims(c)
    PROVE  IdsInv'
<1>1. IsFiniteSet(used') /\ DOMAIN rows' \subseteq used'
  BY DEF IdsInv, Claims
<1>2. \A d \in Clients \ {c} : calls'[d] = calls[d]
  BY DEF Others
<1>3. ASSUME NEW d \in Clients, calls'[d].op \in Inserts
      PROVE  calls'[d].id \in used' \ DOMAIN rows'
  <2>1. CASE d = c
    BY <1>3, <2>1 DEF IdsInv, Claims
  <2>2. CASE d # c
    BY <1>2, <1>3, <2>2 DEF IdsInv, Claims
  <2> QED
    BY <2>1, <2>2
<1>4. ASSUME NEW d \in Clients, NEW e \in Clients, d # e, calls'[d].op \in Inserts, calls'[e].op \in Inserts
      PROVE  calls'[d].id # calls'[e].id
  <2>1. CASE d # c /\ e # c
    BY <1>2, <1>4, <2>1 DEF IdsInv
  <2>2. CASE d = c
    BY <1>2, <1>4, <2>2 DEF IdsInv, Claims
  <2>3. CASE e = c
    BY <1>2, <1>4, <2>3 DEF IdsInv, Claims
  <2> QED
    BY <2>1, <2>2, <2>3
<1> QED
  BY <1>1, <1>3, <1>4 DEF IdsInv

(* What is spent stays spent, for any call that revokes rows that can be.     *)
LEMMA SpentGrows ==
    ASSUME IdsInv, NEW c \in Clients, Others(c), Claims(c), rows' = rows \/ Moves(calls[c], rows'),
           NEW q, q.op \in Contract!Revokes => table = "refresh"
    PROVE  Spent(q) \subseteq Spent(q)' /\ IsFiniteSet(Spent(q))  /\ IsFiniteSet(Spent(q)')
<1>1. \A i \in Inserting' : i \in Inserting \/ i \notin used
  BY DEF Inserting, Claims, Others
<1>2. DOMAIN rows' \subseteq DOMAIN rows \cup Inserting
  BY DEF Inserting, Claims
<1>3. Inserting \cap DOMAIN rows = {} /\ used \subseteq used' /\ DOMAIN rows \subseteq used
  BY DEF IdsInv, Inserting, Claims
<1>4. Gone \subseteq Gone' /\ \A k \in DOMAIN rows : k \in DOMAIN rows' \/ k \in Gone'
  BY <1>1, <1>2, <1>3 DEF Gone
<1>5. table = "refresh" => \A k \in DOMAIN rows \cap DOMAIN rows' : rows[k].revoked => rows'[k].revoked
  BY DEF Moves
<1>6. Spent(q) \subseteq Spent(q)'
  BY <1>4, <1>5 DEF Spent
<1>7. Spent(q) \subseteq used
  BY <1>3 DEF Spent, Gone
<1>8. IdsInv'
  BY IdsKept
<1>9. Spent(q)' \subseteq used'
  BY <1>8 DEF Spent, Gone, IdsInv
<1> QED
  BY <1>6, <1>7, <1>8, <1>9, FS_Subset DEF IdsInv

(* Only refresh rows are revoked.                                             *)
LEMMA RevokesOnRefresh ==
    ASSUME CallsInv, NEW d \in Clients, calls[d].op \in Contract!Revokes
    PROVE  table = "refresh"
<1>1. calls[d].op \notin {"none", "total"}
  BY DEF Contract!Revokes
<1>2. Asking(calls[d])
  BY <1>1, AtWork
<1>3. MethodOf(calls[d].op, table) /\ table \in DOMAIN Ports
  BY <1>2, PortMethods DEF CallsInv, Asking
<1> QED
  BY <1>3 DEF MethodOf, Ports, Contract!Revokes, Contract!Sets

(* A document taken is spent, and was not before.                             *)
LEMMA OneMoreSpent ==
    ASSUME StoresInv, NEW c \in Clients, MongoOne(c), Others(c), Claims(c)
    PROVE  Cardinality(Spent(calls[c])) + 1 <= Cardinality(Spent(calls[c])')
<1> DEFINE q == calls[c]
<1>1. CallsInv /\ RowsInv /\ IdsInv /\ OneByOne(q) /\ calls' = calls /\ used' = used
  BY DEF StoresInv, MongoOne
<1>2. q.op \notin {"none", "total"}
  BY <1>1 DEF OneByOne, Mongo!Multi
<1>3. Asking(q)
  BY <1>1, <1>2, AtWork
<1>4. PICK k \in Mongo!Matched(rows, q) : rows' = Mongo!One(rows, q, k)
  BY DEF MongoOne
<1>5. /\ rows' = Contract!Taking(q, {k}) /\ k \in DOMAIN rows
      /\ q.op \in Contract!Revokes => ~rows[k].revoked
  BY <1>1, <1>3, <1>4, DocumentByDocument
<1>6. Moves(q, rows') /\ (q.op \in Contract!Revokes => table = "refresh")
  BY <1>1, WorkMoves, RevokesOnRefresh DEF Advance
<1>7. Spent(q) \subseteq Spent(calls[c])' /\ IsFiniteSet(Spent(q)) /\ IsFiniteSet(Spent(calls[c])')
  <2>1. \A p : p = q => Spent(p) \subseteq Spent(p)' /\ IsFiniteSet(Spent(p)) /\ IsFiniteSet(Spent(p)')
    BY <1>1, <1>6, SpentGrows
  <2> QED
    BY <1>1, <2>1
<1>8. k \notin Spent(q)
  BY <1>5 DEF Spent, Gone
<1>9. k \in Spent(calls[c])'
  <2>1. k \in used' /\ k \notin Inserting'
    BY <1>1, <1>5 DEF IdsInv, Inserting
  <2>2. CASE q.op \in Contract!Revokes
    <3>1. rows' = [i \in DOMAIN rows |-> IF i \in {k} THEN [rows[i] EXCEPT !.revoked = TRUE] ELSE rows[i]]
      BY <1>5, <2>2 DEF Contract!Taking, Contract!Change
    <3>2. "revoked" \in DOMAIN rows[k]
      BY <1>1, <1>5, <1>6, <2>2 DEF RowsInv, Whole, Columns
    <3>3. k \in DOMAIN rows' /\ rows'[k].revoked
      BY <1>5, <3>1, <3>2
    <3> QED
      BY <1>1, <2>2, <3>3 DEF Spent
  <2>3. CASE q.op \notin Contract!Revokes
    <3>1. k \notin DOMAIN rows'
      BY <1>5, <2>3 DEF Contract!Taking, Contract!Without
    <3> QED
      BY <1>1, <2>1, <2>3, <3>1 DEF Spent, Gone
  <2> QED
    BY <2>2, <2>3
<1>10. IsFiniteSet(Spent(q) \cup {k}) /\ Cardinality(Spent(q) \cup {k}) = Cardinality(Spent(q)) + 1
  BY <1>7, <1>8, FS_AddElement
<1>11. Spent(q) \cup {k} \subseteq Spent(calls[c])'
  BY <1>7, <1>9
<1>12. Cardinality(Spent(q) \cup {k}) <= Cardinality(Spent(calls[c])')
  BY <1>7, <1>11, FS_Subset
<1> QED
  BY <1>10, <1>12

(* A count of documents taken never exceeds what was spent.                   *)
LEMMA TookKept ==
    ASSUME StoresInv, NEW c \in Clients, Call(c) \/ Advance(c) \/ Drop(c), Others(c), Claims(c)
    PROVE  TookInv'
<1>1. CallsInv /\ IdsInv /\ TookInv
  BY DEF StoresInv
<1>2. rows' = rows \/ Moves(calls[c], rows')
  BY WorkMoves DEF Call, Drop
<1>3. \A q : (q.op \in Contract!Revokes => table = "refresh") =>
        /\ Spent(q) \subseteq Spent(q)' /\ IsFiniteSet(Spent(q)')
        /\ Cardinality(Spent(q)) \in Nat /\ Cardinality(Spent(q)') \in Nat
        /\ Cardinality(Spent(q)) <= Cardinality(Spent(q)')
  <2> SUFFICES ASSUME NEW q, q.op \in Contract!Revokes => table = "refresh"
               PROVE  /\ Spent(q) \subseteq Spent(q)' /\ IsFiniteSet(Spent(q)')
                      /\ Cardinality(Spent(q)) \in Nat /\ Cardinality(Spent(q)') \in Nat
                      /\ Cardinality(Spent(q)) <= Cardinality(Spent(q)')
    OBVIOUS
  <2>1. Spent(q) \subseteq Spent(q)' /\ IsFiniteSet(Spent(q)) /\ IsFiniteSet(Spent(q)')
    BY <1>1, <1>2, SpentGrows
  <2> QED
    BY <2>1, FS_Subset, FS_CardinalityType
<1>4. ASSUME NEW d \in Clients, calls'[d] = calls[d], took'[d] = took[d]
      PROVE  (took[d] \in Nat /\ took[d] <= Cardinality(Spent(calls[d])))'
  <2>1. calls[d].op \in Contract!Revokes => table = "refresh"
    BY <1>1, RevokesOnRefresh
  <2>2. took[d] \in Nat /\ took[d] <= Cardinality(Spent(calls[d]))
    BY <1>1 DEF TookInv
  <2> DEFINE m == Cardinality(Spent(calls[d]))
             n == Cardinality(Spent(calls[d])')
  <2>3. \A q : q = calls[d] => /\ Cardinality(Spent(q)) \in Nat /\ Cardinality(Spent(q)') \in Nat
                               /\ Cardinality(Spent(q)) <= Cardinality(Spent(q)')
    BY <1>3, <2>1
  <2>4. m \in Nat /\ n \in Nat /\ m <= n
    BY <1>4, <2>3
  <2> HIDE DEF m, n
  <2>5. took'[d] \in Nat /\ took'[d] <= n
    BY <1>4, <2>2, <2>4 DEF m
  <2> QED
    BY <2>5 DEF n
<1>5. ASSUME calls'[c].op \notin Contract!Revokes
      PROVE  Cardinality(Spent(calls[c])') \in Nat
  <2>1. \A q : q = calls'[c] => Cardinality(Spent(q)') \in Nat
    BY <1>3, <1>5
  <2> QED
    BY <2>1
<1>6. (took[c] \in Nat /\ took[c] <= Cardinality(Spent(calls[c])))'
  <2>1. CASE calls'[c] = NoCall /\ took'[c] = 0
    <3>1. calls'[c].op \notin Contract!Revokes
      BY <2>1 DEF NoCall, Contract!Revokes
    <3> QED
      BY <1>5, <2>1, <3>1
  <2>2. CASE calls'[c] = calls[c] /\ took'[c] = took[c]
    BY <1>4, <2>2
  <2>3. CASE MongoOne(c)
    <3>1. took'[c] = took[c] + 1
      BY <1>1, <2>3 DEF MongoOne, CallsInv
    <3>2. took[c] \in Nat /\ took[c] <= Cardinality(Spent(calls[c]))
      BY <1>1 DEF TookInv
    <3>3. Cardinality(Spent(calls[c])) + 1 <= Cardinality(Spent(calls[c])')
      BY <2>3, OneMoreSpent
    <3>4. calls[c].op \in Contract!Revokes => table = "refresh"
      BY <1>1, RevokesOnRefresh
    <3>5. Cardinality(Spent(calls[c])) \in Nat /\ Cardinality(Spent(calls[c])') \in Nat
      <4>1. calls'[c] = calls[c]
        BY <2>3 DEF MongoOne
      <4>2. \A q : q = calls[c] => Cardinality(Spent(q)) \in Nat /\ Cardinality(Spent(q)') \in Nat
        BY <1>3, <3>4
      <4> QED
        BY <4>1, <4>2
    <3> QED
      BY <3>1, <3>2, <3>3, <3>5
  <2>4. CASE Call(c) \/ List(c)
    <3>1. took'[c] = took[c] /\ calls[c].op \notin Contract!Revokes /\ Spent(calls[c]) = Gone
      BY <2>4 DEF Call, List, NoCall, Contract!Revokes, Spent
    <3>2. took[c] \in Nat /\ took[c] <= Cardinality(Gone)
      BY <1>1, <3>1 DEF TookInv
    <3>3. Gone \subseteq Gone' /\ Cardinality(Gone) \in Nat /\ Cardinality(Gone) <= Cardinality(Gone)'
      <4>1. Spent(NoCall) = Gone /\ Spent(NoCall)' = Gone' /\ NoCall.op \notin Contract!Revokes
        BY DEF Spent, NoCall, Contract!Revokes
      <4> QED
        BY <1>3, <4>1
    <3>4. Spent(calls[c])' \subseteq used' /\ Gone' \subseteq Spent(calls[c])' /\ IsFiniteSet(used')
      <4>1. IdsInv'
        BY <1>1, IdsKept
      <4> QED
        BY <4>1 DEF Spent, Gone, IdsInv
    <3>5. Cardinality(Gone)' <= Cardinality(Spent(calls[c])') /\ Cardinality(Gone)' \in Nat
          /\ Cardinality(Spent(calls[c])') \in Nat
      <4>1. IsFiniteSet(Spent(calls[c])')
        BY <3>4, FS_Subset
      <4>2. \A S, T : IsFiniteSet(T) /\ S \subseteq T =>
              Cardinality(S) <= Cardinality(T) /\ Cardinality(S) \in Nat /\ Cardinality(T) \in Nat
        BY FS_Subset, FS_CardinalityType
      <4>3. Cardinality(Gone') <= Cardinality(Spent(calls[c])') /\ Cardinality(Gone') \in Nat
            /\ Cardinality(Spent(calls[c])') \in Nat
        BY <3>4, <4>1, <4>2
      <4> QED
        BY <4>3
    <3> QED
      BY <3>1, <3>2, <3>3, <3>5
  <2>5. ASSUME NEW answer, Told(c, answer)
        PROVE  calls'[c] = NoCall /\ took'[c] = 0
    BY <1>1, <2>5 DEF Told, CallsInv
  <2>6. CASE Drop(c)
    BY <1>1, <2>1, <2>6 DEF Drop, CallsInv
  <2>7. CASE MySqlWrite(c)
    BY <2>1, <2>2, <2>5, <2>7 DEF MySqlWrite
  <2>8. CASE Statement(c) \/ MySqlRead(c) \/ MongoEnd(c) \/ Total(c)
    BY <2>1, <2>5, <2>8 DEF Statement, MySqlRead, MongoEnd, Total
  <2> QED
    BY <2>3, <2>4, <2>6, <2>7, <2>8 DEF Advance
<1>7. ASSUME NEW d \in Clients \ {c}
      PROVE  (took[d] \in Nat /\ took[d] <= Cardinality(Spent(calls[d])))'
  BY <1>4, <1>7 DEF Others
<1> QED
  BY <1>6, <1>7 DEF TookInv

(* A page stays as long as the notes seen with it allow.                      *)
LEMMA PageKept ==
    ASSUME StoresInv, NEW c \in Clients, Call(c) \/ Advance(c) \/ Drop(c), Others(c)
    PROVE  PageInv'
<1>1. CallsInv /\ IdsInv /\ PageInv
  BY DEF StoresInv
<1>2. ASSUME NEW d \in Clients, calls'[d] = calls[d], seen'[d] = seen[d]
      PROVE  (calls[d].op = "total" =>
                /\ IsFiniteSet(seen[d])
                /\ Len(calls[d].page) = Clamped(Cardinality(seen[d]) - calls[d].offset, 0, calls[d].limit))'
  BY <1>1, <1>2 DEF PageInv
<1>3. ASSUME calls'[c].op = "total"
      PROVE  (/\ IsFiniteSet(seen[c])
              /\ Len(calls[c].page) = Clamped(Cardinality(seen[c]) - calls[c].offset, 0, calls[c].limit))'
  <2>1. CASE Call(c)
    <3>1. PICK q \in Calls :
            /\ q.table = table
            /\ calls'[c] = Since(IF q.op = "list" THEN Asked(q)
                                 ELSE IF "at" \in DOMAIN q THEN [q EXCEPT !.at = now] ELSE q)
      BY <1>1, <2>1, Zenon DEF Call, CallsInv
    <3>2. q.op \in DOMAIN Ports[table] /\ "op" \in DOMAIN q /\ table \in DOMAIN Ports
      BY <1>1, <3>1, StoresAssumption DEF CallsInv
    <3>3. q.op # "total"
      BY <3>2, PortMethods
      DEF MethodOf, Ports, Contract!Sets, Contract!Revokes
    <3>4. calls'[c].op = q.op
      BY <3>1, <3>2 DEF Since, Asked
    <3> QED
      BY <1>3, <3>3, <3>4
  <2>2. CASE List(c)
    <3> DEFINE q == calls[c]
               S == OwnedBy(q.owner)
    <3>1. Asking(q) /\ q.op = "list"
      BY <1>1, <2>2, AtWork DEF List
    <3>2. PICK page \in PagesOf(q) :
            calls'[c] = [op |-> "total", since |-> q.since, owner |-> q.owner, page |-> page,
                         limit |-> q.limit, offset |-> q.offset]
      BY <1>1, <2>2 DEF List, CallsInv
    <3>3. seen'[c] = S
      BY <1>1, <2>2 DEF List, CallsInv
    <3>4. page \in Contract!Pages(S, Newer, q.limit, q.offset)
      BY <1>1, PagesOfBackends
    <3>5. IsFiniteSet(S)
      <4>1. S \subseteq DOMAIN rows
        BY DEF OwnedBy
      <4> QED
        BY <1>1, <4>1, FS_Subset DEF IdsInv
    <3>6. q.limit \in Nat \ {0} /\ q.offset \in Nat
      BY <3>1, StoresAssumption DEF Asking
    <3> HIDE DEF S
    <3>7. Len(page) = Clamped(Cardinality(S) - q.offset, 0, q.limit)
      BY <3>4, <3>5, <3>6, PageLength
    <3>8. calls'[c].page = page /\ calls'[c].limit = q.limit /\ calls'[c].offset = q.offset
      BY <3>2
    <3> QED
      BY <3>3, <3>5, <3>7, <3>8
  <2>3. CASE Drop(c)
    BY <1>1, <1>3, <2>3 DEF Drop, CallsInv, NoCall
  <2>4. CASE Advance(c) /\ ~List(c)
    <3>1. calls'[c] # NoCall
      BY <1>3 DEF NoCall
    <3>2. calls'[c] = calls[c]
      BY <2>4, <3>1, WorkCalls
    <3>3. seen'[c] = seen[c]
      <4>1. \A answer : Told(c, answer) => calls'[c] = NoCall
        BY <1>1 DEF Told, CallsInv
      <4> QED
        BY <2>4, <3>1, <4>1 DEF Advance, Statement, MySqlWrite, MySqlRead, MongoOne, MongoEnd, Total
    <3> QED
      BY <1>2, <1>3, <3>2, <3>3
  <2> QED
    BY <2>1, <2>2, <2>3, <2>4
<1>4. ASSUME NEW d \in Clients \ {c}
      PROVE  (calls[d].op = "total" =>
                /\ IsFiniteSet(seen[d])
                /\ Len(calls[d].page) = Clamped(Cardinality(seen[d]) - calls[d].offset, 0, calls[d].limit))'
  BY <1>2, <1>4 DEF Others
<1> QED
  BY <1>3, <1>4 DEF PageInv

(* Time passing changes no call, no row and no transaction's standing.        *)
LEMMA TickKept ==
    ASSUME StoresInv, Tick
    PROVE  StoresInv'
<1>1. /\ now' = now + 1 /\ now < MaxTime
      /\ UNCHANGED <<backend, table, rows, calls, seen, used, open, work, took>>
  BY DEF Tick
<1>2. now \in Nat /\ now \in StartTime..MaxTime /\ now' \in StartTime..MaxTime /\ now <= now' /\ now' \in Int
  BY <1>1, StoresAssumption DEF StoresInv, CallsInv
<1>3. CallsInv'
  <2>1. \A q : (Asking(q) => Asking(q)') /\ (Paging(q) => Paging(q)')
    <3> SUFFICES ASSUME NEW q
                 PROVE  (Asking(q) => Asking(q)') /\ (Paging(q) => Paging(q)')
      OBVIOUS
    <3>1. q.since \in Int /\ q.since <= now => q.since <= now'
      BY <1>1, <1>2
    <3> QED
      BY <1>1, <3>1 DEF Asking, Paging
  <2> QED
    BY <1>1, <1>2, <2>1 DEF StoresInv, CallsInv
<1>4. RowsInv'
  BY <1>1 DEF StoresInv, RowsInv, Whole
<1>5. TransactionsInv'
  <2>1. \A d \in open : Standing(d)'
    BY <1>1, <1>2, StandingKept DEF Bystands
  <2> QED
    BY <1>1, <2>1 DEF StoresInv, TransactionsInv, Transacted, Apart
<1>6. IdsInv' /\ TookInv' /\ PageInv'
  BY <1>1 DEF StoresInv, IdsInv, TookInv, PageInv, Spent, Gone, Inserting
<1> QED
  BY <1>3, <1>4, <1>5, <1>6 DEF StoresInv

(* The invariant holds of the empty tables...                                 *)
LEMMA InvariantInit == Init => StoresInv
<1> SUFFICES ASSUME Init
             PROVE  StoresInv
  OBVIOUS
<1>1. table \in DOMAIN Ports /\ now \in StartTime..MaxTime
  <2>1. \A q \in Calls : q.table \in DOMAIN Ports
    BY StoresAssumption
  <2>2. table \in DOMAIN Ports
    BY <2>1 DEF Init
  <2>3. StartTime \in StartTime..MaxTime
    BY StoresAssumption
  <2> QED
    BY <2>2, <2>3 DEF Init
<1>2. CallsInv
  BY <1>1 DEF Init, CallsInv
<1>3. DOMAIN rows = {} /\ rows = [k \in DOMAIN rows |-> rows[k]]
  BY DEF Init, Empty
<1>4. RowsInv
  BY <1>3 DEF RowsInv
<1>5. TransactionsInv
  BY DEF Init, TransactionsInv
<1>6. \A c \in Clients : calls[c].op \notin Inserts \cup {"total"} \cup Contract!Revokes
  BY DEF Init, NoCall, Inserts, Contract!Revokes
<1>7. IdsInv
  BY <1>3, <1>6, FS_EmptySet DEF Init, IdsInv
<1>8. TookInv
  <2>1. \A c \in Clients : Spent(calls[c]) = {}
    BY <1>3, <1>6 DEF Spent, Gone, Init
  <2>2. Cardinality({}) = 0
    BY FS_EmptySet
  <2> QED
    BY <2>1, <2>2 DEF Init, TookInv
<1>9. PageInv
  BY <1>6 DEF PageInv
<1> QED
  BY <1>2, <1>4, <1>5, <1>7, <1>8, <1>9 DEF StoresInv

(* ... and survives every step.                                               *)
LEMMA InvariantNext == StoresInv /\ [Next]_vars => StoresInv'
<1> SUFFICES ASSUME StoresInv, [Next]_vars
             PROVE  StoresInv'
  OBVIOUS
<1>1. CASE UNCHANGED vars
  <2>1. UNCHANGED <<backend, table, rows, calls, seen, now, used, open, work, took>>
    BY <1>1 DEF vars
  <2>2. CallsInv' /\ RowsInv'
    BY <2>1 DEF StoresInv, CallsInv, Asking, Paging, RowsInv, Whole
  <2>3. TransactionsInv'
    <3>1. now \in Int
      BY StoresAssumption DEF StoresInv, CallsInv
    <3>2. \A d \in open : Standing(d)'
      BY <2>1, <3>1, StandingKept DEF Bystands
    <3> QED
      BY <2>1, <3>2 DEF StoresInv, TransactionsInv, Transacted, Apart
  <2>4. IdsInv' /\ TookInv' /\ PageInv'
    BY <2>1 DEF StoresInv, IdsInv, TookInv, PageInv, Spent, Gone, Inserting
  <2> QED
    BY <2>2, <2>3, <2>4 DEF StoresInv
<1>2. CASE Tick
  BY <1>2, TickKept
<1>3. ASSUME NEW c \in Clients, Call(c) \/ Advance(c) \/ Drop(c)
      PROVE  StoresInv'
  <2>1. Others(c) /\ Claims(c) /\ CallsInv'
    BY <1>3, OthersKept, ClaimsMade, CallsKept DEF StoresInv
  <2>2. RowsInv'
    <3>1. table' = table
      BY <2>1 DEF Others
    <3>2. CASE rows' = rows
      BY <3>1, <3>2 DEF StoresInv, RowsInv, Whole
    <3>3. CASE Moves(calls[c], rows')
      BY <3>1, <3>3, RowsKept
    <3> QED
      BY <1>3, <3>2, <3>3, WorkMoves DEF Call, Drop
  <2> QED
    BY <1>3, <2>1, <2>2, TransactionsKept, IdsKept, TookKept, PageKept DEF StoresInv
<1> QED
  BY <1>1, <1>2, <1>3 DEF Next

(* The transactions, the ids and the counts of the stores are as StoresInv    *)
(* says in every state the system reaches.                                    *)
THEOREM Invariant == Spec => []StoresInv
  BY InvariantInit, InvariantNext, PTL DEF Spec

-----------------------------------------------------------------------------
(* What the runs check, for any parameters.                                   *)

(* The stores implement the contract: one backend's statements, MySQL's       *)
(* transactions and MongoDB's documents one by one are, to the services, the  *)
(* methods of the ports.                                                      *)
THEOREM Implementation == Spec => ImplementsContract
<1>1. Init => Contract!Init
  <2>1. Loss \in Nat /\ StartTime \in Nat
    BY StoresAssumption DEF Loss
  <2> QED
    BY <2>1
    DEF Init, Contract!Init, Loss, Empty, Contract!Empty, Null, Contract!Null, NoCall, Contract!NoCall,
        Silent, Contract!Silent
<1>2. StoresInv /\ [Next]_vars => [Contract!Next]_(Contract!vars)
  BY ContractStep
<1> QED
  BY <1>1, <1>2, Invariant, PTL DEF Spec, ImplementsContract, Contract!Spec

(* The shapes of the tables, the calls and the transactions.                  *)
THEOREM TypesKept == Spec => []TypeOK
<1> SUFFICES ASSUME StoresInv
             PROVE  TypeOK
  BY Invariant, PTL
<1>1. /\ backend \in Backends /\ now \in StartTime..MaxTime
      /\ DOMAIN rows \subseteq used /\ \A k \in DOMAIN rows : DOMAIN rows[k] = Columns[table]
      /\ open \subseteq {c \in Clients : Transacted(calls[c])}
  BY DEF StoresInv, CallsInv, RowsInv, Whole, TransactionsInv, IdsInv
<1>2. ASSUME NEW c \in Clients
      PROVE  Cardinality(DOMAIN work[c]) <= IF c \in open THEN 1 ELSE 0
  <2>1. CASE c \notin open
    <3>1. DOMAIN work[c] = {}
      BY <2>1 DEF StoresInv, TransactionsInv, Empty
    <3> QED
      BY <2>1, <3>1, FS_EmptySet
  <2>2. CASE c \in open
    <3>1. PICK at : work[c] = Written(calls[c], at)
      BY <2>2, Zenon DEF StoresInv, TransactionsInv, Standing
    <3>2. calls[c].op \in {"user_insert", "create", "update"}
      BY <1>1, <2>2, TransactedOnMySql
    <3>3. DOMAIN work[c] \subseteq {calls[c].id}
      BY <3>1, <3>2 DEF Written, Keyed
    <3>4. DOMAIN work[c] = {} \/ DOMAIN work[c] = {calls[c].id}
      BY <3>3
    <3>5. Cardinality({}) = 0 /\ Cardinality({calls[c].id}) = 1
      BY FS_EmptySet, FS_Singleton
    <3> QED
      BY <2>2, <3>4, <3>5
  <2> QED
    BY <2>1, <2>2
<1>3. ASSUME NEW c \in Clients
      PROVE  took[c] \in 0..Cardinality(used)
  <2>1. Spent(calls[c]) \subseteq used /\ IsFiniteSet(used)
    BY <1>1 DEF StoresInv, IdsInv, Spent, Gone
  <2>2. /\ Cardinality(Spent(calls[c])) <= Cardinality(used)
        /\ Cardinality(Spent(calls[c])) \in Nat /\ Cardinality(used) \in Nat
    BY <2>1, FS_Subset, FS_CardinalityType
  <2>3. took[c] \in Nat /\ took[c] <= Cardinality(Spent(calls[c]))
    BY DEF StoresInv, TookInv
  <2> QED
    BY <2>2, <2>3
<1> QED
  BY <1>1, <1>2, <1>3 DEF TypeOK

(* Only the insert of its id brings a row, whatever backend, transaction and  *)
(* interleaving.                                                              *)
THEOREM DeletedStaysDeleted == Spec => NothingComesBack
<1> DEFINE Fresh == \A k \in DOMAIN rows' \ DOMAIN rows : k \in Inserting
<1>1. StoresInv /\ [Next]_vars => [Fresh]_vars
  <2> SUFFICES ASSUME StoresInv, Next
               PROVE  Fresh
    OBVIOUS
  <2>1. CASE Tick
    BY <2>1 DEF Tick
  <2>2. ASSUME NEW c \in Clients, Call(c) \/ Advance(c) \/ Drop(c)
        PROVE  Fresh
    <3>1. Claims(c)
      BY <2>2, ClaimsMade
    <3> QED
      BY <3>1 DEF Claims, Inserting
  <2> QED
    BY <2>1, <2>2 DEF Next
<1> QED
  BY <1>1, Invariant, PTL DEF Spec, NothingComesBack

(* What an answer about one note says of the table it leaves.                 *)
Own(q, answer, t) ==
    IF Served(q, answer) = "ok"
    THEN IF q.op = "delete" THEN q.id \notin DOMAIN t
         ELSE \A k \in DOMAIN answer[2] :
            /\ answer[2][k].owner = q.owner
            /\ q.op = "update" => answer[2][k].text = q.text
    ELSE q.id \in DOMAIN t => t[q.id].owner # q.owner

(* Every outcome the contract allows says the truth.                          *)
LEMMA OutcomesOwn ==
    ASSUME CallsInv, RowsInv, NEW q, Asking(q), q.op \in {"get", "update", "delete"},
           NEW o \in Contract!Outcomes(q)
    PROVE  Own(q, o.answer, o.table)
<1> DEFINE owned == {k \in {q.id} \cap DOMAIN rows : rows[k].owner = q.owner}
<1>0. Contract!Owns(q) = owned
  BY DEF Contract!Owns, Contract!Keyed
<1>1. \A k \in DOMAIN rows : DOMAIN rows[k] = Columns.notes
  <2>1. MethodOf(q.op, table) /\ table \in DOMAIN Ports
    BY PortMethods DEF CallsInv, Asking
  <2>2. table = "notes"
    BY <2>1 DEF MethodOf, Ports, Contract!Sets, Contract!Revokes
  <2> QED
    BY <2>2 DEF RowsInv, Whole
<1>2. \A f : DOMAIN f = {} /\ f = [k \in DOMAIN f |-> f[k]] => f = Empty
  BY DEF Empty
<1>3. DOMAIN Empty = {}
  BY DEF Empty
<1>4. CASE q.op = "get"
  <2>1. o = Contract!Rows(rows, owned)
    BY <1>0, <1>4, OutcomesByKind DEF Contract!Finds, Contract!Find
  <2> DEFINE found == [k \in owned |-> rows[k]]
  <2>2. o.table = rows /\ o.answer = <<"rows", found>>
    BY <2>1 DEF Contract!Rows, Contract!Reply
  <2>3. CASE owned = {}
    <3>1. found = Empty
      BY <2>3 DEF Empty
    <3> HIDE DEF found
    <3>2. Served(q, o.answer) = "not found"
      BY <1>4, <2>2, <3>1 DEF Served
    <3> QED
      BY <2>2, <2>3, <3>2 DEF Own
  <2>4. CASE owned # {}
    <3>1. found # Empty
      BY <1>3, <2>4
    <3>2. DOMAIN found = owned /\ \A k \in owned : found[k].owner = q.owner
      OBVIOUS
    <3> HIDE DEF found
    <3>3. Served(q, o.answer) = "ok"
      BY <1>4, <2>2, <3>1 DEF Served
    <3> QED
      BY <1>4, <2>2, <3>2, <3>3 DEF Own
  <2> QED
    BY <2>3, <2>4
<1>5. CASE q.op = "update"
  <2>0. o \in Contract!UpdateOwned(q)
    BY <1>5, OutcomesByKind
  <2> DEFINE S == Contract!Owns(q)
  <2>1. PICK at \in Contract!Stamps(q) :
          o = Contract!Rows([k \in DOMAIN rows |->
                IF k \in S THEN [rows[k] EXCEPT !.text = q.text, !.updated = at] ELSE rows[k]], S)
    BY <2>0, Zenon DEF Contract!UpdateOwned, Contract!Change
  <2> DEFINE after == [k \in DOMAIN rows |->
                IF k \in owned THEN [rows[k] EXCEPT !.text = q.text, !.updated = at] ELSE rows[k]]
             found == [k \in owned |-> after[k]]
  <2>2. o.table = after /\ o.answer = <<"rows", found>>
    BY <1>0, <2>1 DEF Contract!Rows, Contract!Reply
  <2>3. \A k \in owned : after[k].owner = q.owner /\ after[k].text = q.text
    BY <1>1 DEF Columns
  <2>4. DOMAIN after = DOMAIN rows /\ (owned = {} => after = [k \in DOMAIN rows |-> rows[k]])
    OBVIOUS
  <2>5. CASE owned = {}
    <3>1. found = Empty
      BY <2>5 DEF Empty
    <3>2. \A k \in DOMAIN rows : after[k] = rows[k]
      BY <2>5
    <3> HIDE DEF found, after
    <3>3. Served(q, o.answer) = "not found"
      BY <1>5, <2>2, <3>1 DEF Served
    <3> QED
      BY <2>2, <2>4, <2>5, <3>2, <3>3 DEF Own
  <2>6. CASE owned # {}
    <3>1. found # Empty
      BY <1>3, <2>6
    <3>2. DOMAIN found = owned /\ \A k \in owned : found[k] = after[k]
      OBVIOUS
    <3> HIDE DEF found, after
    <3>3. Served(q, o.answer) = "ok"
      BY <1>5, <2>2, <3>1 DEF Served
    <3> QED
      BY <1>5, <2>2, <2>3, <3>2, <3>3 DEF Own
  <2> QED
    BY <2>5, <2>6
<1>6. CASE q.op = "delete"
  <2>0. o \in Contract!DeleteOwned(q)
    BY <1>6, OutcomesByKind
  <2>1. o = Contract!Flag(Contract!Without(rows, Contract!Owns(q)), Contract!Owns(q) # {})
    BY <2>0, Zenon DEF Contract!DeleteOwned
  <2>2. o = [table |-> [k \in DOMAIN rows \ owned |-> rows[k]], answer |-> <<"flag", owned # {}>>]
    <3>1. \A S : Contract!Without(rows, S) = [k \in DOMAIN rows \ S |-> rows[k]]
      BY Zenon DEF Contract!Without
    <3>2. \A t, b : Contract!Flag(t, b) = [table |-> t, answer |-> <<"flag", b>>]
      BY Zenon DEF Contract!Flag, Contract!Reply
    <3> HIDE DEF owned
    <3> QED
      BY <1>0, <2>1, <3>1, <3>2
  <2>3. Served(q, o.answer) = IF owned # {} THEN "ok" ELSE "not found"
    BY <1>6, <2>2 DEF Served
  <2> QED
    BY <1>6, <2>2, <2>3 DEF Own
<1> QED
  BY <1>4, <1>5, <1>6

(* The answer of a step is an outcome of the contract.                        *)
LEMMA AnswersOwn ==
    ASSUME StoresInv, NEW c \in Clients, Call(c) \/ Advance(c) \/ Drop(c),
           said' # Silent, calls[c].op \in {"get", "update", "delete"}
    PROVE  said'.q = calls[c] /\ Own(calls[c], said'.answer, rows')
<1> DEFINE q == calls[c]
<1>1. CallsInv /\ RowsInv /\ TransactionsInv /\ Asking(q)
  <2>1. q.op \notin {"none", "total"}
    OBVIOUS
  <2> QED
    BY <2>1, AtWork DEF StoresInv
<1>2. Singular(q)
  BY DEF Singular, Contract!Many, Contract!Revokes, Contract!Deletes, Contract!Sweeps
<1>3. CASE Statement(c)
  <2> DEFINE o == Method(q)
  <2>1. rows' = o.table /\ Told(c, o.answer) /\ ~Transacted(q)
    BY <1>3 DEF Statement
  <2>2. o \in Contract!Outcomes(q)
    BY <1>1, <1>2, <2>1, StatementIsOutcome
  <2> HIDE DEF o
  <2>3. Own(q, o.answer, o.table)
    BY <1>1, <2>2, OutcomesOwn
  <2> QED
    BY <2>1, <2>3 DEF Told
<1>4. CASE MySqlRead(c)
  <2> DEFINE answer == My!ReadOf(View(c), q).answer
             o == [table |-> View(c), answer |-> answer]
  <2>1. c \in open /\ rows' = View(c) /\ Told(c, answer)
    BY <1>4 DEF MySqlRead
  <2>2. o \in Contract!Outcomes(q)
    BY <1>1, <2>1, CommitIsOutcome
  <2>3. o.table = View(c) /\ o.answer = answer
    OBVIOUS
  <2> HIDE DEF o, answer
  <2>4. Own(q, o.answer, o.table)
    BY <1>1, <2>2, OutcomesOwn
  <2> QED
    BY <2>1, <2>3, <2>4 DEF Told
<1>5. CASE MySqlWrite(c)
  <2>1. Transacted(q)
    BY <1>5 DEF MySqlWrite
  <2>2. q.op = "update"
    BY <2>1, TransactedOnMySql
  <2>3. My!WriteOf(rows, q, now).answer # <<"conflict">>
    BY <2>2 DEF My!WriteOf, My!NoteUpdateWrite, My!Done, My!Reply
  <2> QED
    BY <1>5, <2>3 DEF MySqlWrite
<1>6. CASE MongoOne(c) \/ MongoEnd(c)
  BY <1>6 DEF MongoOne, MongoEnd, OneByOne, Mongo!Multi
<1> QED
  BY <1>3, <1>4, <1>5, <1>6 DEF Call, Drop, Advance, List, Total

(* What NoteService answers is about the asker's own note.                    *)
THEOREM NotesAreTheOwners == Spec => []OwnNoteOrNotFound
<1>1. OwnNoteOrNotFound <=>
        (said # Silent /\ said.q.op \in {"get", "update", "delete"} => Own(said.q, said.answer, rows))
  BY DEF OwnNoteOrNotFound, Own
<1>2. Init => OwnNoteOrNotFound
  BY DEF Init, OwnNoteOrNotFound
<1>3. StoresInv /\ OwnNoteOrNotFound /\ [Next]_vars => OwnNoteOrNotFound'
  <2> SUFFICES ASSUME StoresInv, OwnNoteOrNotFound, [Next]_vars
               PROVE  OwnNoteOrNotFound'
    OBVIOUS
  <2>1. CASE UNCHANGED vars
    BY <2>1 DEF vars, OwnNoteOrNotFound, Served
  <2>2. CASE Tick
    BY <2>2 DEF Tick, OwnNoteOrNotFound, Silent
  <2>3. ASSUME NEW c \in Clients, Call(c) \/ Advance(c) \/ Drop(c)
        PROVE  OwnNoteOrNotFound'
    <3>1. said' # Silent => said'.q = calls[c]
      <4>1. ASSUME NEW answer, Told(c, answer)
            PROVE  said'.q = calls[c]
        BY <4>1 DEF Told
      <4>2. CASE Call(c) \/ Drop(c) \/ MongoOne(c) \/ List(c)
        <5>1. said' = Silent
          BY <4>2 DEF Call, Drop, MongoOne, List
        <5> QED
          BY <5>1
      <4>3. CASE Statement(c)
        BY <4>1, <4>3 DEF Statement
      <4>4. CASE MySqlWrite(c)
        <5>1. (\E answer : Told(c, answer)) \/ said' = Silent
          BY <4>4 DEF MySqlWrite
        <5> QED
          BY <4>1, <5>1
      <4>5. CASE MySqlRead(c)
        BY <4>1, <4>5 DEF MySqlRead
      <4>6. CASE MongoEnd(c)
        BY <4>1, <4>6 DEF MongoEnd
      <4>7. CASE Total(c)
        BY <4>1, <4>7 DEF Total
      <4> QED
        BY <2>3, <4>2, <4>3, <4>4, <4>5, <4>6, <4>7 DEF Advance
    <3>2. said' # Silent /\ said'.q.op \in {"get", "update", "delete"} => Own(said'.q, said'.answer, rows')
      BY <2>3, <3>1, AnswersOwn
    <3> QED
      BY <3>2 DEF OwnNoteOrNotFound, Own, Served, Silent
  <2> QED
    BY <2>1, <2>2, <2>3 DEF Next
<1> QED
  BY <1>2, <1>3, Invariant, PTL DEF Spec

(* A page and its total agree when nothing came or went in between.           *)
THEOREM PagesAgree == Spec => QuietPagesAgree
<1> DEFINE Quiet(c) ==
              calls[c].op = "total" /\ calls'[c] = NoCall /\ said' # Silent /\ seen[c] = OwnedBy(calls[c].owner)
           Agree(c) ==
              LET page == said'.answer[2]
                  rest == said'.answer[3] - calls[c].offset
              IN  /\ Len(page) <= MaxPage /\ (rest > 0 => page # <<>>)
                  /\ Len(page) = Clamped(rest, 0, calls[c].limit)
<1>1. StoresInv /\ [Next]_vars => [\A c \in Clients : Quiet(c) => Agree(c)]_vars
  <2> SUFFICES ASSUME StoresInv, Next, NEW c \in Clients, Quiet(c)
               PROVE  Agree(c)
    OBVIOUS
  <2>1. CallsInv /\ IdsInv /\ PageInv /\ calls[c].op = "total" /\ calls[c] # NoCall
    BY DEF StoresInv, NoCall
  <2>2. Total(c)
    <3>1. ~Tick
      BY DEF Tick
    <3>2. PICK d \in Clients : Call(d) \/ Advance(d) \/ Drop(d)
      BY <3>1 DEF Next
    <3>3. d = c
      BY <2>1, <3>2, OthersKept DEF Others
    <3>4. Advance(c)
      BY <3>2, <3>3 DEF Call, Drop
    <3> QED
      BY <2>1, <3>4, TransactedOnMySql
      DEF Advance, Statement, MySqlWrite, MySqlRead, StoresInv, TransactionsInv, MongoOne, MongoEnd, OneByOne,
          Mongo!Multi, List
  <2> DEFINE n == Cardinality(OwnedBy(calls[c].owner))
  <2>3. said'.answer = <<"page", calls[c].page, n>>
    BY <2>1, <2>2, PagesOfBackends DEF Total, Told
  <2>4. IsFiniteSet(OwnedBy(calls[c].owner)) /\ n \in Nat
    BY <2>1, FS_CardinalityType DEF PageInv
  <2>5. Paging(calls[c])
    BY <2>1, PortMethods DEF CallsInv, Asking, MethodOf, Contract!Sets, Contract!Revokes, Ports
  <2>6. calls[c].limit \in Nat /\ 1 <= calls[c].limit /\ calls[c].limit <= MaxPage /\ calls[c].offset \in Nat
        /\ MaxPage \in Nat
    BY <2>5, StoresAssumption DEF Paging
  <2>7. Len(calls[c].page) = Clamped(n - calls[c].offset, 0, calls[c].limit)
    BY <2>1 DEF PageInv
  <2>8. Len(<<>>) = 0
    OBVIOUS
  <2> HIDE DEF n
  <2> DEFINE rest == n - calls[c].offset
             page == calls[c].page
  <2>9. rest \in Int /\ Len(page) <= MaxPage /\ (rest > 0 => Len(page) # 0)
    BY <2>4, <2>6, <2>7 DEF Clamped
  <2>10. Len(page) <= MaxPage /\ (rest > 0 => page # <<>>) /\ Len(page) = Clamped(rest, 0, calls[c].limit)
    BY <2>7, <2>8, <2>9
  <2>11. said'.answer[2] = page /\ said'.answer[3] = n
    BY <2>3
  <2> HIDE DEF page
  <2> QED
    BY <2>10, <2>11
<1> QED
  BY <1>1, Invariant, PTL DEF Spec, QuietPagesAgree
=============================================================================
