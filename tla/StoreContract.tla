--------------------------- MODULE StoreContract ---------------------------
(* What the persistence ports promise the services, whichever backend is     *)
(* behind them: the Contract sections of the repository traits.  Only one    *)
(* table is in play, since no method of any port touches two.                *)
EXTENDS Tables

CONSTANT Clients     \* callers: requests, the janitor

VARIABLES loss,      \* how much earlier than asked a stored time may be
          rows,      \* the table
          calls,     \* what each client has asked and not been told
          seen,      \* the ids that were there when it asked
          said,      \* the answer the last step gave, if it gave one
          now

vars == <<loss, rows, calls, seen, said, now>>

NoCall == [op |-> "none"]
Silent == [to |-> "nobody"]

Stored(at) == IF at = Null THEN {Null} ELSE (at - loss)..at
Stamps(q) == (q.since - loss)..now      \* some moment of the call
Owns(q) == {k \in Keyed(rows, q.id) : rows[k].owner = q.owner}
Usable(q) == {k \in Keyed(rows, q.id) : rows[k].used = Null /\ ~rows[k].revoked}

(* What one call may do to the table and answer, method by method. *)
Inserted(q) ==
    CASE q.op = "user_insert" -> {NewUserRow(q, at) : at \in Stamps(q)}
      [] q.op = "create" -> {NewNoteRow(q, at) : at \in Stamps(q)}
      [] q.op = "refresh_insert" -> {NewRefreshRow(q, at) : at \in Stored(q.expires)}
      [] q.op = "access_insert" -> {NewAccessRow(q, at) : at \in Stored(q.expires)}
Refused(q) ==
    \/ q.id \in DOMAIN rows
    \/ q.op = "user_insert" /\ \E k \in DOMAIN rows : rows[k].email = q.email
Insert(q) ==
    IF Refused(q) THEN {Conflict(rows)}
    ELSE {IF q.op \in {"user_insert", "create"} THEN Rows(Put(rows, q.id, r), {q.id})
          ELSE Done(Put(rows, q.id, r)) : r \in Inserted(q)}
Find(q) ==
    {Rows(rows, CASE q.op = "find_by_email" -> Where(rows, LAMBDA r : r.email = q.email)
                  [] q.op = "get" -> Owns(q)
                  [] OTHER -> Keyed(rows, q.id))}
SetUser(q) ==
    {Done(Change(rows, {q.id}, LAMBDA r :
        CASE q.op = "record_failed_login" -> [r EXCEPT !.failed = q.attempts, !.until = at]
          [] q.op = "clear_login_failures" -> [r EXCEPT !.failed = 0, !.until = Null]
          [] q.op = "update_password_hash" -> [r EXCEPT !.hash = q.hash]
          [] q.op = "set_role" -> [r EXCEPT !.role = q.role])) :
        at \in IF q.op = "record_failed_login" THEN Stored(q.until) ELSE {Null}}
UpdateOwned(q) ==
    {Rows(Change(rows, Owns(q), LAMBDA r : [r EXCEPT !.text = q.text, !.updated = at]), Owns(q)) :
        at \in Stamps(q)}
DeleteOwned(q) == {Flag(Without(rows, Owns(q)), Owns(q) # {})}
MarkUsed(q) ==
    {Flag(Change(rows, Usable(q), LAMBDA r : [r EXCEPT !.used = at]), Usable(q) # {}) :
        at \in Stamps(q)}

Inserts == {"user_insert", "create", "refresh_insert", "access_insert"}
Finds == {"find_by_id", "find_by_email", "get", "refresh_find", "access_find"}
Sets == {"record_failed_login", "clear_login_failures", "update_password_hash", "set_role"}
Revokes == {"revoke_family", "revoke_all"}
Sweeps == {"refresh_expired", "access_expired"}
Deletes == {"delete_by_session", "delete_all"} \cup Sweeps
Many == Revokes \cup Deletes

Outcomes(q) ==
    CASE q.op \in Inserts -> Insert(q)
      [] q.op \in Finds -> Find(q)
      [] q.op \in Sets -> SetUser(q)
      [] q.op = "update" -> UpdateOwned(q)
      [] q.op = "delete" -> DeleteOwned(q)
      [] q.op = "mark_used" -> MarkUsed(q)
      [] q.op = "ping" -> {Done(rows)}

(* The rows a call over many rows is about; a sweep may leave those that      *)
(* expired within the last `loss' instants, and must never take a live one.     *)
About(q) ==
    CASE q.op = "revoke_family" -> {k \in DOMAIN rows : rows[k].family = q.family}
      [] q.op = "revoke_all" -> {k \in DOMAIN rows : rows[k].user = q.user}
      [] q.op = "delete_by_session" -> {k \in DOMAIN rows : rows[k].session = q.session}
      [] q.op = "delete_all" -> {k \in DOMAIN rows : rows[k].user = q.user}
      [] OTHER -> {k \in DOMAIN rows : rows[k].expires < q.at}
Due(q) ==
    CASE q.op \in Revokes -> {k \in About(q) : ~rows[k].revoked}
      [] q.op \in Sweeps -> {k \in About(q) : rows[k].expires < q.at - loss}
      [] OTHER -> About(q)
Taking(q, S) ==
    IF q.op \in Revokes THEN Change(rows, S, LAMBDA r : [r EXCEPT !.revoked = TRUE])
    ELSE Without(rows, S)

Told(c, answer) ==
    /\ said' = [to |-> c, q |-> calls[c], answer |-> answer]
    /\ calls' = [calls EXCEPT ![c] = NoCall]
    /\ seen' = [seen EXCEPT ![c] = {}]

Init ==
    /\ loss \in Nat /\ rows = Empty /\ now \in Nat /\ said = Silent
    /\ calls = [c \in Clients |-> NoCall]
    /\ seen = [c \in Clients |-> {}]

Call(c) ==
    /\ calls[c] = NoCall /\ calls'[c] # NoCall /\ calls'[c].since = now
    /\ \A d \in Clients \ {c} : calls'[d] = calls[d]
    /\ seen' = [seen EXCEPT ![c] = DOMAIN rows]
    /\ said' = Silent
    /\ UNCHANGED <<loss, rows, now>>

(* A method about one row takes effect at once and is answered. *)
Single(c) ==
    /\ calls[c].op \notin Many \cup {"none", "list", "total"}
    /\ \E o \in Outcomes(calls[c]) : rows' = o.table /\ Told(c, o.answer)
    /\ UNCHANGED <<loss, now>>

(* A method about many rows may take them one by one... *)
Some(c) ==
    /\ calls[c].op \in Many
    /\ \E S \in (SUBSET About(calls[c])) \ {{}} : rows' = Taking(calls[c], S)
    /\ said' = Silent
    /\ UNCHANGED <<loss, calls, seen, now>>

(* ... and is answered when none of those that were there is left. *)
All(c) ==
    /\ calls[c].op \in Many
    /\ \E S \in SUBSET About(calls[c]) :
        /\ Due(calls[c]) \cap seen[c] \subseteq S
        /\ rows' = Taking(calls[c], S)
    /\ IF calls[c].op \in Sweeps
       THEN said' # Silent /\ said'.to = c /\ said'.answer[2] \in Nat /\ Told(c, <<"count", said'.answer[2]>>)
       ELSE Told(c, <<"done">>)
    /\ UNCHANGED <<loss, now>>

(* A listing is two reads: a page, newest first, then the total. *)
List(c) ==
    /\ calls[c].op = "list"
    /\ \E page \in Pages({k \in DOMAIN rows : rows[k].owner = calls[c].owner},
                         LAMBDA a, b : rows[a].created > rows[b].created,
                         calls[c].limit, calls[c].offset) :
        calls' = [calls EXCEPT ![c] = [op |-> "total", since |-> calls[c].since, owner |-> calls[c].owner, page |-> page,
                                       limit |-> calls[c].limit, offset |-> calls[c].offset]]
    /\ seen' = [seen EXCEPT ![c] = {k \in DOMAIN rows : rows[k].owner = calls[c].owner}]
    /\ said' = Silent
    /\ UNCHANGED <<loss, rows, now>>

Total(c) ==
    /\ calls[c].op = "total"
    /\ LET owned == {k \in DOMAIN rows : rows[k].owner = calls[c].owner}
       IN  Told(c, <<"page", calls[c].page, Cardinality(owned)>>)
    /\ UNCHANGED <<loss, rows, now>>

(* A call may be dropped or fail before it takes effect, or half-way through  *)
(* one about many rows.                                                       *)
Drop(c) ==
    /\ calls[c] # NoCall
    /\ calls' = [calls EXCEPT ![c] = NoCall]
    /\ seen' = [seen EXCEPT ![c] = {}]
    /\ said' = Silent
    /\ UNCHANGED <<loss, rows, now>>

Tick == now' = now + 1 /\ said' = Silent /\ UNCHANGED <<loss, rows, calls, seen>>

(* Work on a call that shows nothing yet. *)
Quiet == said' = Silent /\ UNCHANGED <<loss, rows, calls, seen, now>>

Next ==
    \/ Tick \/ Quiet
    \/ \E c \in Clients :
        Call(c) \/ Single(c) \/ Some(c) \/ All(c) \/ List(c) \/ Total(c) \/ Drop(c)

Spec == Init /\ [][Next]_vars
=============================================================================
