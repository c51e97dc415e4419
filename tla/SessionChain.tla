---------------------------- MODULE SessionChain ----------------------------
(***************************************************************************)
(* What SessionService promises, with no requests, rows or statements in   *)
(* it: a login opens a family, and a family is a chain of single-use       *)
(* refresh tokens.  At any moment a family has one token that can be       *)
(* spent, or one rotation that is about to put the next token there, or    *)
(* nothing; and a token that has left that place never comes back.         *)
(*                                                                         *)
(* Sessions.tla, which has the requests, the statements they run and the   *)
(* points at which they can be dropped, is shown to implement this module. *)
(***************************************************************************)

CONSTANTS
    Families,       \* logins: one family of refresh tokens each
    Tokens,         \* refresh tokens
    None            \* no token, and none of Tokens

VARIABLES
    opened,         \* families some login has begun
    rotating,       \* families about to receive their next token
    head,           \* the token of each family that can be spent, or None
    seen            \* every token that has ever been a head

vars == <<opened, rotating, head, seen>>

Init ==
    /\ opened = {}
    /\ rotating = {}
    /\ head = [f \in Families |-> None]
    /\ seen = {}

\* A login begins a fresh chain (SessionService::start).
Open(f) ==
    /\ f \notin opened
    /\ opened' = opened \cup {f}
    /\ rotating' = rotating \cup {f}
    /\ UNCHANGED <<head, seen>>

\* A rotation, or the login, delivers the next token of the chain.
Issue(f) ==
    /\ f \in rotating
    /\ \E t \in Tokens \ seen :
        /\ head' = [head EXCEPT ![f] = t]
        /\ seen' = seen \cup {t}
    /\ rotating' = rotating \ {f}
    /\ UNCHANGED opened

\* One presentation spends the head.
Redeem(f) ==
    /\ head[f] # None
    /\ head' = [head EXCEPT ![f] = None]
    /\ rotating' = rotating \cup {f}
    /\ UNCHANGED <<opened, seen>>

\* A rotation is refused, fails or is dropped: the chain has no head any more.
Abandon(f) ==
    /\ f \in rotating
    /\ rotating' = rotating \ {f}
    /\ UNCHANGED <<opened, head, seen>>

\* A revocation or the sweep takes the heads of the families E away.
End(E) ==
    /\ head' = [f \in Families |-> IF f \in E THEN None ELSE head[f]]
    /\ UNCHANGED <<opened, rotating, seen>>

Next ==
    \/ \E f \in Families : Open(f) \/ Issue(f) \/ Redeem(f) \/ Abandon(f)
    \/ \E E \in SUBSET Families : End(E)

Spec == Init /\ [][Next]_vars

=============================================================================
