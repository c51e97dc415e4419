------------------------------- MODULE Tables -------------------------------
(* The tables every backend keeps, and the statements a database executes on *)
(* them.  A table is a function from ids to rows.  What a driver and a       *)
(* database server do with one statement is external code; the columns and   *)
(* the rows are the repository's own.                                        *)
EXTENDS Integers, Sequences, FiniteSets, SequencesExt

Null == -1                     \* SQL NULL, BSON null, Rust None
Empty == [k \in {} |-> Null]   \* a table without rows

(* One outcome of a statement: the table afterwards and what the driver says. *)
Reply(t, answer) == [table |-> t, answer |-> answer]
Conflict(t) == Reply(t, <<"conflict">>)
Done(t) == Reply(t, <<"done">>)
Flag(t, b) == Reply(t, <<"flag", b>>)
Count(t, n) == Reply(t, <<"count", n>>)
Rows(t, S) == Reply(t, <<"rows", [k \in S |-> t[k]]>>)

(* The rows a filter matches; a keyed lookup matches at most one. *)
Where(t, P(_)) == {k \in DOMAIN t : P(t[k])}
Keyed(t, id) == {id} \cap DOMAIN t

(* INSERT, UPDATE and DELETE of the matched rows. *)
Put(t, id, row) == [k \in DOMAIN t \cup {id} |-> IF k = id THEN row ELSE t[k]]
Change(t, S, F(_)) == [k \in DOMAIN t |-> IF k \in S THEN F(t[k]) ELSE t[k]]
Without(t, S) == [k \in DOMAIN t \ S |-> t[k]]

(* rows_affected() == 1. *)
OneRow(S) == \E k \in S : S = {k}

(* An INSERT under a UNIQUE column or index. *)
Taken(t, id, P(_)) == id \in DOMAIN t \/ Where(t, P) # {}

(* ORDER BY, LIMIT and OFFSET: every page an order may produce, ties left to  *)
(* the engine unless the order breaks them.                                   *)
Page(s, limit, offset) ==
    SubSeq(s, offset + 1, IF offset + limit < Len(s) THEN offset + limit ELSE Len(s))
Pages(S, Before(_, _), limit, offset) ==
    { Page(s, limit, offset) :
        s \in { r \in SetToSeqs(S) : \A i, j \in DOMAIN r : i < j => ~Before(r[j], r[i]) } }

(* Rows as INSERT writes them. *)
NewUserRow(q, at) ==
    [email |-> q.email, hash |-> q.hash, role |-> q.role,
     failed |-> 0, until |-> Null, created |-> at]
NewNoteRow(q, at) == [owner |-> q.owner, text |-> q.text, created |-> at, updated |-> at]
NewRefreshRow(q, expires) ==
    [user |-> q.user, family |-> q.family, expires |-> expires, used |-> Null, revoked |-> FALSE]
NewAccessRow(q, expires) ==
    [user |-> q.user, session |-> q.session, role |-> q.role, expires |-> expires]
=============================================================================
