------------------------------- MODULE Stores -------------------------------
(* The note service and the other callers of the persistence ports, over the *)
(* backend the configuration chose.  Statements of different callers         *)
(* interleave; MySQL's write-then-read methods hold a transaction open in    *)
(* between, MongoDB's methods over many documents take them one by one.      *)
EXTENDS Tables

CONSTANTS Clients,       \* callers
          Calls,         \* the calls they make, one table each
          Backends,      \* the backends of this build
          Grain,         \* instants in a millisecond
          DefaultPage, MaxPage,
          StartTime, MaxTime   \* bounds of the clock

VARIABLES backend, table,            \* chosen once
          rows, calls, seen, said, now,
          used,                      \* ids that were ever given to an insert
          open, work, took           \* transactions, their writes, documents taken

vars == <<backend, table, rows, calls, seen, said, now, used, open, work, took>>

(* The methods of each port and what they are given; `total' is the second    *)
(* half of `list', and ping, of the health port, touches no table.            *)
Ports ==
    [users |-> [user_insert |-> {"id", "email", "hash", "role"}, find_by_id |-> {"id"},
                find_by_email |-> {"email"}, record_failed_login |-> {"id", "attempts", "until"},
                clear_login_failures |-> {"id"}, update_password_hash |-> {"id", "hash"},
                set_role |-> {"id", "role"}],
     notes |-> [create |-> {"id", "owner", "text"}, get |-> {"id", "owner"},
                list |-> {"owner", "limit", "offset"}, update |-> {"id", "owner", "text"},
                delete |-> {"id", "owner"}],
     refresh |-> [refresh_insert |-> {"id", "user", "family", "expires"}, refresh_find |-> {"id"},
                  mark_used |-> {"id"}, revoke_family |-> {"family"}, revoke_all |-> {"user"},
                  refresh_expired |-> {"at"}],
     access |-> [access_insert |-> {"id", "user", "session", "role", "expires"},
                 access_find |-> {"id"}, delete_by_session |-> {"session"}, delete_all |-> {"user"},
                 access_expired |-> {"at"}, ping |-> {}]]
Numbers == {"attempts", "until", "limit", "offset", "expires", "at"}

ASSUME StoresAssumption ==
    /\ Backends \subseteq {"sqlite", "postgres", "mysql", "mongo"}
    /\ Grain \in Nat \ {0} /\ MaxPage \in Nat \ {0} /\ DefaultPage \in 1..MaxPage
    /\ StartTime \in Nat /\ MaxTime \in Nat /\ StartTime <= MaxTime
    /\ \A q \in Calls :
        /\ q.table \in DOMAIN Ports /\ q.op \in DOMAIN Ports[q.table]
        /\ DOMAIN q = {"table", "op"} \cup Ports[q.table][q.op]
        /\ \A f \in DOMAIN q \cap Numbers : q[f] \in Int

Lite == INSTANCE SqliteStore
Post == INSTANCE PostgresStore
My == INSTANCE MySqlStore
Mongo == INSTANCE MongoStore

NoCall == [op |-> "none"]
Silent == [to |-> "nobody"]
Inserts == {"user_insert", "create", "refresh_insert", "access_insert"}

(* NoteService::list: the page the service asks for. *)
Clamped(n, low, high) == IF n < low THEN low ELSE IF n > high THEN high ELSE n
Asked(q) ==
    [q EXCEPT !.limit = Clamped(IF q.limit = Null THEN DefaultPage ELSE q.limit, 1, MaxPage),
              !.offset = IF q.offset < 0 THEN 0 ELSE q.offset]

(* What the service makes of the store's answer. *)
Served(q, answer) ==
    CASE q.op \in {"get", "update"} /\ answer[2] = Empty -> "not found"
      [] q.op = "delete" /\ ~answer[2] -> "not found"
      [] answer[1] = "conflict" -> "conflict"
      [] OTHER -> "ok"

Told(c, answer) ==
    /\ said' = [to |-> c, q |-> calls[c], answer |-> answer]
    /\ calls' = [calls EXCEPT ![c] = NoCall]
    /\ seen' = [seen EXCEPT ![c] = {}]
    /\ took' = [took EXCEPT ![c] = 0]

Init ==
    /\ backend \in Backends /\ table \in {q.table : q \in Calls}
    /\ rows = Empty /\ now = StartTime /\ said = Silent /\ used = {} /\ open = {}
    /\ calls = [c \in Clients |-> NoCall]
    /\ seen = [c \in Clients |-> {}]
    /\ work = [c \in Clients |-> Empty]
    /\ took = [c \in Clients |-> 0]

(* Ids are random: an insert brings a new one, and nobody can name a row      *)
(* before its insert has ended.  A call remembers the moment it was made.     *)
Inserting == {calls[d].id : d \in {e \in Clients : calls[e].op \in Inserts}}
Nameable(q) == "id" \in DOMAIN q => IF q.op \in Inserts THEN q.id \notin used
                                    ELSE q.id \notin Inserting
Since(q) == [f \in DOMAIN q \cup {"since"} |-> IF f = "since" THEN now ELSE q[f]]
Call(c) ==
    /\ calls[c] = NoCall
    /\ \E q \in Calls :
        /\ q.table = table /\ Nameable(q)
        /\ used' = IF q.op \in Inserts THEN used \cup {q.id} ELSE used
        /\ calls' = [calls EXCEPT ![c] = Since(
             IF q.op = "list" THEN Asked(q)
             ELSE IF "at" \in DOMAIN q THEN [q EXCEPT !.at = now] ELSE q)]
    /\ seen' = [seen EXCEPT ![c] = DOMAIN rows]
    /\ said' = Silent
    /\ UNCHANGED <<backend, table, rows, now, open, work, took>>

(* InnoDB keeps a row, and an address about to exist, locked until the        *)
(* transaction that wrote it ends.  Plain reads do not wait.                  *)
Writes == Inserts \cup {"update", "delete", "record_failed_login", "clear_login_failures",
                        "update_password_hash", "set_role"}
Locks(d, q) ==
    \/ calls[d].id = q.id
    \/ q.op = "user_insert" /\ \E k \in DOMAIN work[d] : work[d][k].email = q.email
Waits(c) == calls[c].op \in Writes /\ \E d \in open \ {c} : Locks(d, calls[c])

Method(q) ==
    CASE backend = "sqlite" -> Lite!Method(rows, q, now)
      [] backend = "postgres" -> Post!Method(rows, q, now)
      [] backend = "mysql" -> My!Method(rows, q, now)
      [] backend = "mongo" -> Mongo!Method(rows, q, now)
Transacted(q) == backend = "mysql" /\ q.op \in My!InTransaction
OneByOne(q) == backend = "mongo" /\ q.op \in Mongo!Multi

(* A method of one statement. *)
Statement(c) ==
    /\ calls[c].op \notin {"none", "list", "total"}
    /\ ~Transacted(calls[c]) /\ ~OneByOne(calls[c]) /\ ~Waits(c)
    /\ LET o == Method(calls[c]) IN rows' = o.table /\ Told(c, o.answer)
    /\ UNCHANGED <<backend, table, now, used, open, work>>

(* MySQL: the write, seen by nobody else yet; a conflict ends the method. *)
MySqlWrite(c) ==
    /\ Transacted(calls[c]) /\ c \notin open /\ ~Waits(c)
    /\ LET o == My!WriteOf(rows, calls[c], now)
       IN  IF o.answer = <<"conflict">>
           THEN Told(c, o.answer) /\ UNCHANGED <<open, work>>
           ELSE /\ open' = open \cup {c}
                /\ work' = [work EXCEPT ![c] = [k \in Keyed(o.table, calls[c].id) |-> o.table[k]]]
                /\ said' = Silent /\ UNCHANGED <<calls, seen, took>>
    /\ UNCHANGED <<backend, table, rows, now, used>>

(* MySQL: the read, in the same transaction, and the commit.  The UPDATE of a *)
(* row that is not the caller's wrote nothing.                                *)
View(c) == [k \in DOMAIN rows \cup DOMAIN work[c] |->
              IF k \in DOMAIN work[c] THEN work[c][k] ELSE rows[k]]
MySqlRead(c) ==
    /\ c \in open
    /\ rows' = View(c)
    /\ Told(c, My!ReadOf(View(c), calls[c]).answer)
    /\ open' = open \ {c} /\ work' = [work EXCEPT ![c] = Empty]
    /\ UNCHANGED <<backend, table, now, used>>

(* MongoDB: the next document of update_many or delete_many, and the answer.  *)
MongoOne(c) ==
    /\ OneByOne(calls[c])
    /\ \E k \in Mongo!Matched(rows, calls[c]) : rows' = Mongo!One(rows, calls[c], k)
    /\ took' = [took EXCEPT ![c] = @ + 1]
    /\ said' = Silent
    /\ UNCHANGED <<backend, table, calls, seen, now, used, open, work>>
MongoEnd(c) ==
    /\ OneByOne(calls[c])
    /\ Mongo!Matched(rows, calls[c]) \cap seen[c] = {}
    /\ Told(c, IF calls[c].op \in {"refresh_expired", "access_expired"}
               THEN <<"count", took[c]>> ELSE <<"done">>)
    /\ UNCHANGED <<backend, table, rows, now, used, open, work>>

(* NoteService::list: the page, then the total. *)
PagesOf(q) ==
    CASE backend = "sqlite" -> Lite!NoteListOwned(rows, q)
      [] backend = "postgres" -> Post!NoteListOwned(rows, q)
      [] backend = "mysql" -> My!NoteListOwned(rows, q)
      [] backend = "mongo" -> Mongo!NoteListOwned(rows, q)
CountOf(q) ==
    CASE backend = "sqlite" -> Lite!NoteCountOwned(rows, q)
      [] backend = "postgres" -> Post!NoteCountOwned(rows, q)
      [] backend = "mysql" -> My!NoteCountOwned(rows, q)
      [] backend = "mongo" -> Mongo!NoteCountOwned(rows, q)
OwnedBy(o) == {k \in DOMAIN rows : rows[k].owner = o}
List(c) ==
    /\ calls[c].op = "list"
    /\ \E page \in PagesOf(calls[c]) :
        calls' = [calls EXCEPT ![c] = [op |-> "total", since |-> calls[c].since, owner |-> calls[c].owner, page |-> page,
                                       limit |-> calls[c].limit, offset |-> calls[c].offset]]
    /\ seen' = [seen EXCEPT ![c] = OwnedBy(calls[c].owner)]
    /\ said' = Silent
    /\ UNCHANGED <<backend, table, rows, now, used, open, work, took>>
Total(c) ==
    /\ calls[c].op = "total"
    /\ Told(c, <<"page", calls[c].page, CountOf(calls[c])>>)
    /\ UNCHANGED <<backend, table, rows, now, used, open, work>>

(* A transaction that outlives its request (a mutant of Drop). *)
DropLeavesOpen(c) ==
    /\ calls[c] # NoCall
    /\ calls' = [calls EXCEPT ![c] = NoCall]
    /\ seen' = [seen EXCEPT ![c] = {}]
    /\ took' = [took EXCEPT ![c] = 0]
    /\ said' = Silent
    /\ UNCHANGED <<backend, table, rows, now, used, open, work>>

(* The request is dropped, or the store fails: a transaction rolls back, a    *)
(* method over many documents stops where it is.                              *)
Drop(c) ==
    /\ calls[c] # NoCall
    /\ calls' = [calls EXCEPT ![c] = NoCall]
    /\ seen' = [seen EXCEPT ![c] = {}]
    /\ took' = [took EXCEPT ![c] = 0]
    /\ open' = open \ {c} /\ work' = [work EXCEPT ![c] = Empty]
    /\ said' = Silent
    /\ UNCHANGED <<backend, table, rows, now, used>>

Tick ==
    /\ now < MaxTime /\ now' = now + 1 /\ said' = Silent
    /\ UNCHANGED <<backend, table, rows, calls, seen, used, open, work, took>>

Advance(c) ==
    Statement(c) \/ MySqlWrite(c) \/ MySqlRead(c) \/ MongoOne(c) \/ MongoEnd(c) \/ List(c) \/ Total(c)
Next == Tick \/ \E c \in Clients : Call(c) \/ Advance(c) \/ Drop(c)

Spec == Init /\ [][Next]_vars

-----------------------------------------------------------------------------
(* The tables, the calls and the transactions keep their shapes: every row    *)
(* has the columns of its table and a transaction holds at most one of them.  *)
Columns == [users |-> {"email", "hash", "role", "failed", "until", "created"},
            notes |-> {"owner", "text", "created", "updated"},
            refresh |-> {"user", "family", "expires", "used", "revoked"},
            access |-> {"user", "session", "role", "expires"}]
TypeOK ==
    /\ backend \in Backends /\ now \in StartTime..MaxTime
    /\ DOMAIN rows \subseteq used /\ \A k \in DOMAIN rows : DOMAIN rows[k] = Columns[table]
    /\ open \subseteq {c \in Clients : Transacted(calls[c])}
    /\ \A c \in Clients : /\ Cardinality(DOMAIN work[c]) <= IF c \in open THEN 1 ELSE 0
                          /\ took[c] \in 0..Cardinality(used)

(* Whatever backend is chosen, the services see the contract of the ports:    *)
(* one-row methods are atomic, redemption is conditional, a revocation or a   *)
(* sweep leaves none of the rows that were there when it was asked for, and a *)
(* stored time is early by less than a millisecond on MongoDB and exact       *)
(* elsewhere.                                                                 *)
Contract == INSTANCE StoreContract WITH loss <- IF backend = "mongo" THEN Grain - 1 ELSE 0
ImplementsContract == Contract!Spec

(* What NoteService answers is about the asker's own note: get and update     *)
(* return only a note of the caller, update the text the caller sent, and     *)
(* "not found" is said only when the caller owns no such note.                *)
OwnNoteOrNotFound ==
    said # Silent /\ said.q.op \in {"get", "update", "delete"} =>
        IF Served(said.q, said.answer) = "ok"
        THEN IF said.q.op = "delete" THEN said.q.id \notin DOMAIN rows
             ELSE \A k \in DOMAIN said.answer[2] :
                /\ said.answer[2][k].owner = said.q.owner
                /\ said.q.op = "update" => said.answer[2][k].text = said.q.text
        ELSE said.q.id \in DOMAIN rows => rows[said.q.id].owner # said.q.owner

(* A row that was deleted never comes back: only the insert of its id brings  *)
(* a row, so an update racing a deletion cannot resurrect the note, not even  *)
(* through MySQL's write-then-read transaction.                               *)
NothingComesBack ==
    [][\A k \in DOMAIN rows' \ DOMAIN rows : k \in Inserting]_vars

(* A page and its total are two reads; when no note of the owner came or went *)
(* between them they agree, no page is larger than the maximum, and a page is *)
(* empty only past the end.                                                   *)
QuietPagesAgree ==
    [][\A c \in Clients :
        calls[c].op = "total" /\ calls'[c] = NoCall /\ said' # Silent /\ seen[c] = OwnedBy(calls[c].owner)
        => LET page == said'.answer[2]
               rest == said'.answer[3] - calls[c].offset
           IN  /\ Len(page) <= MaxPage /\ (rest > 0 => page # <<>>)
               /\ Len(page) = Clamped(rest, 0, calls[c].limit)]_vars
=============================================================================
