---------------------------- MODULE AccountsProofs ----------------------------
(* Theorems about Accounts, for any addresses, passwords and calls, any       *)
(* threshold and any length of the lock.                                      *)
EXTENDS Accounts, FiniteSetTheorems, TLAPS

-----------------------------------------------------------------------------
(* Where a call is, and what it knows there.                                *)
Read == {"verify", "fail", "clear", "update"}

Shaped(j) ==
    /\ j \in Call
    /\ j.pc = "new" => j = Fresh
    /\ j.pc # "new" => j.email \in Emails /\ j.password \in Passwords
    /\ j.pc # "done" => j.result = None
    /\ j.op = "change" => j.new \in Passwords
    /\ j.pc \in Read => j.seen \in Row

(* The account is there for who has read its row, for the holder of a token, *)
(* and for who has been told so.                                            *)
PresentInv ==
    \A c \in Calls :
        (\/ call[c].op = "change" \/ call[c].pc \in Read \cup {"promote"}
         \/ call[c].result \in {"created", "promoted", "already_admin", "granted", "wrong", "changed"})
        => account[call[c].email] # None

ShapeInv == TypeOK /\ \A c \in Calls : Shaped(call[c])

(* What the assumption on the constants says, fact by fact.                  *)
LEMMA Constants ==
    /\ None \notin Emails /\ None \notin Passwords /\ None \notin Nat /\ None \notin Row
    /\ None \notin Operations /\ None \notin Results
    /\ MaxAttempts \in Nat \ {0} /\ Lockout \in Nat /\ MaxTime \in Nat /\ IsFiniteSet(Calls)
BY AccountsAssumption

(* A call that takes a well-formed record leaves every call well formed.     *)
LEMMA BecomeShaped ==
    ASSUME ShapeInv, NEW c \in Calls, NEW j, Shaped(j), Become(c, j)
    PROVE  call' \in [Calls -> Call] /\ \A d \in Calls : Shaped(call'[d])
<1>1. j \in Call
  BY DEF Shaped
<1> QED
  BY <1>1 DEF Become, ShapeInv, TypeOK

(* A row made new and a row with one more failure are rows of the table.     *)
LEMMA Rows ==
    /\ \A p \in Passwords, r \in {"user", "admin"} : NewRow(p, r) \in Row
    /\ \A row \in Row, n \in Nat : Failed(row, n) \in Row
<1>1. \A p \in Passwords, r \in {"user", "admin"} : NewRow(p, r) \in Row
  BY DEF Row, NewRow
<1>2. \A row \in Row, n \in Nat : Failed(row, n) \in Row
  <2> SUFFICES ASSUME NEW row \in Row, NEW n \in Nat PROVE Failed(row, n) \in Row
    OBVIOUS
  <2>1. row.failed + 1 \in Nat /\ n + Lockout \in Nat
    BY Constants DEF Row
  <2>2. (IF row.failed + 1 >= MaxAttempts THEN n + Lockout ELSE None) \in Nat \cup {None}
    BY <2>1
  <2> QED
    BY <2>1, <2>2 DEF Row, Failed
<1> QED
  BY <1>1, <1>2

(* An UPDATE changes the columns of its own statement in the row of its call. *)
Touches(c, row, new) ==
    \/ RecordFailure(c) /\ new = [row EXCEPT !.failed = Failed(call[c].seen, call[c].at).failed,
                                             !.locked_until = Failed(call[c].seen, call[c].at).locked_until]
    \/ ClearFailures(c) /\ new = [row EXCEPT !.failed = 0, !.locked_until = None]
    \/ UpdatePassword(c) /\ new = [row EXCEPT !.password = call[c].new]
    \/ Promote(c) /\ new = [row EXCEPT !.role = "admin"]

(* The four statements that update a row find it there and write a row back. *)
LEMMA Touched ==
    ASSUME ShapeInv, PresentInv, NEW c \in Calls,
           RecordFailure(c) \/ ClearFailures(c) \/ UpdatePassword(c) \/ Promote(c)
    PROVE  \E e \in Emails, new \in Row :
              /\ call[c].email = e /\ account[e] \in Row
              /\ account' = [account EXCEPT ![e] = new] /\ Touches(c, account[e], new)
<1> DEFINE e == call[c].email
<1>1. Shaped(call[c]) /\ call[c] \in Call
  BY DEF ShapeInv, TypeOK
<1>2. e \in Emails /\ account[e] \in Row
  BY <1>1 DEF RecordFailure, ClearFailures, UpdatePassword, Promote, At, ShapeInv, PresentInv, TypeOK,
              Shaped, Read
<1>3. CASE RecordFailure(c)
  <2> DEFINE row == Failed(call[c].seen, call[c].at)
             new == [account[e] EXCEPT !.failed = row.failed, !.locked_until = row.locked_until]
  <2>1. row \in Row
    BY <1>1, <1>3, Rows DEF RecordFailure, At, Shaped, Read, Call
  <2>2. new \in Row
    BY <1>2, <2>1 DEF Row
  <2>3. account' = [account EXCEPT ![e] = new]
    BY <1>2, <1>3 DEF RecordFailure, ShapeInv, TypeOK
  <2> QED
    BY <1>2, <1>3, <2>2, <2>3 DEF Touches
<1>4. CASE ClearFailures(c)
  <2> DEFINE new == [account[e] EXCEPT !.failed = 0, !.locked_until = None]
  <2>1. new \in Row
    BY <1>2 DEF Row
  <2>2. account' = [account EXCEPT ![e] = new]
    BY <1>2, <1>4 DEF ClearFailures, ShapeInv, TypeOK
  <2> QED
    BY <1>2, <1>4, <2>1, <2>2 DEF Touches
<1>5. CASE UpdatePassword(c)
  <2> DEFINE new == [account[e] EXCEPT !.password = call[c].new]
  <2>1. new \in Row
    BY <1>1, <1>2, <1>5 DEF UpdatePassword, At, Shaped, Row
  <2>2. account' = [account EXCEPT ![e] = new]
    BY <1>2, <1>5 DEF UpdatePassword, ShapeInv, TypeOK
  <2> QED
    BY <1>2, <1>5, <2>1, <2>2 DEF Touches
<1>6. CASE Promote(c)
  <2> DEFINE new == [account[e] EXCEPT !.role = "admin"]
  <2>1. new \in Row
    BY <1>2 DEF Row
  <2>2. account' = [account EXCEPT ![e] = new]
    BY <1>2, <1>6 DEF Promote, ShapeInv, TypeOK
  <2> QED
    BY <1>2, <1>6, <2>1, <2>2 DEF Touches
<1> QED
  BY <1>3, <1>4, <1>5, <1>6

(* Every step keeps rows, calls and counters of their types.                 *)
LEMMA Shape == ShapeInv /\ PresentInv /\ [Next]_vars => ShapeInv'
<1> SUFFICES ASSUME ShapeInv, PresentInv, [Next]_vars PROVE ShapeInv'
  OBVIOUS
<1> USE Constants
<1>1. Shaped(Fresh)
  BY DEF Shaped, Fresh, Call, Read, Operations
<1>2. ASSUME NEW c \in Calls, NEW j, Shaped(j), Become(c, j),
             account' \in [Emails -> Row \cup {None}], streak' \in [Emails -> Nat],
             overlapped' \subseteq Emails, now' = now
      PROVE  ShapeInv'
  BY <1>2, BecomeShaped DEF ShapeInv, TypeOK
<1>3. ASSUME NEW c \in Calls, Begin(c) PROVE ShapeInv'
  <2>1. PICK e \in Emails, p \in Passwords :
            \/ PresentRegister(c, e, p) \/ PresentLogin(c, e, p)
            \/ \E new \in Passwords : PresentChange(c, e, p, new)
            \/ Bootstrap(c, e, p)
    BY <1>3 DEF Begin
  <2>2. CASE PresentRegister(c, e, p)
    <3>1. Shaped([Fresh EXCEPT !.op = "register", !.pc = "find", !.email = e, !.password = p])
      BY DEF Shaped, Fresh, Call, Read, Operations
    <3> QED
      BY <1>2, <2>2, <3>1 DEF PresentRegister, ShapeInv, TypeOK
  <2>3. CASE PresentLogin(c, e, p)
    <3>1. now \in Nat /\ overlapped' \subseteq Emails
      BY <2>3 DEF PresentLogin, ShapeInv, TypeOK
    <3>2. Shaped([Fresh EXCEPT !.op = "login", !.pc = "find", !.email = e, !.password = p, !.at = now])
      BY <3>1 DEF Shaped, Fresh, Call, Read, Operations
    <3> QED
      BY <1>2, <2>3, <3>1, <3>2 DEF PresentLogin, ShapeInv, TypeOK
  <2>4. ASSUME NEW new \in Passwords, PresentChange(c, e, p, new) PROVE ShapeInv'
    <3>1. Shaped([Fresh EXCEPT !.op = "change", !.pc = "find", !.email = e, !.password = p, !.new = new])
      BY DEF Shaped, Fresh, Call, Read, Operations
    <3> QED
      BY <1>2, <2>4, <3>1 DEF PresentChange, ShapeInv, TypeOK
  <2>5. CASE Bootstrap(c, e, p)
    <3>1. Shaped([Fresh EXCEPT !.op = "bootstrap", !.pc = "find", !.email = e, !.password = p])
      BY DEF Shaped, Fresh, Call, Read, Operations
    <3> QED
      BY <1>2, <2>5, <3>1 DEF Bootstrap, ShapeInv, TypeOK
  <2> QED
    BY <2>1, <2>2, <2>3, <2>4, <2>5
<1>4. ASSUME NEW c \in Calls, Step(c) PROVE ShapeInv'
  <2>1. Shaped(call[c]) /\ call[c] \in Call
    BY DEF ShapeInv, TypeOK
  <2>2. ASSUME NEW r \in Results, call[c].pc # "new"
        PROVE  Shaped([call[c] EXCEPT !.pc = "done", !.result = r])
    BY <2>1, <2>2 DEF Shaped, Call, Read
  <2>3. ASSUME NEW pc \in {"insert", "promote"}, call[c].pc \notin {"new", "done"}
        PROVE  Shaped([call[c] EXCEPT !.pc = pc])
    BY <2>1, <2>3 DEF Shaped, Call, Read
  <2>4. ASSUME NEW pc \in Read, call[c].pc \in Read
        PROVE  Shaped([call[c] EXCEPT !.pc = pc])
    BY <2>1, <2>4 DEF Shaped, Call, Read
  <2>5. ASSUME NEW row \in Row, call[c].pc = "find"
        PROVE  Shaped([call[c] EXCEPT !.pc = "verify", !.seen = row])
    BY <2>1, <2>5 DEF Shaped, Call, Read
  <2>6. call[c].pc # "new" => call[c].email \in Emails /\ call[c].password \in Passwords
    BY <2>1 DEF Shaped
  <2>7. \A p \in Passwords, r \in {"user", "admin"} : NewRow(p, r) \in Row
    BY Rows
  <2>8. ASSUME NEW role \in {"user", "admin"}, Insert(c, role) PROVE ShapeInv'
    BY <1>2, <2>2, <2>6, <2>7, <2>8 DEF Insert, Answer, ShapeInv, TypeOK, Results
  <2>9. CASE FindForRegister(c) \/ FindForBootstrap(c)
    BY <1>2, <2>2, <2>3, <2>9
       DEF FindForRegister, FindForBootstrap, At, Answer, Goto, ShapeInv, TypeOK, Results
  <2>10. CASE FindForLogin(c)
    BY <1>2, <2>2, <2>5, <2>6, <2>10 DEF FindForLogin, At, Answer, ShapeInv, TypeOK, Results
  <2>11. CASE VerifyLogin(c) \/ VerifyChange(c)
    BY <1>2, <2>2, <2>4, <2>11
       DEF VerifyLogin, VerifyChange, At, Answer, Goto, ShapeInv, TypeOK, Results, Read
  <2>12. CASE FindForChange(c)
    BY <1>2, <2>5, <2>6, <2>12 DEF FindForChange, At, ShapeInv, PresentInv, TypeOK
  <2>13. CASE RecordFailure(c) \/ ClearFailures(c) \/ UpdatePassword(c) \/ Promote(c)
    <3>1. account' \in [Emails -> Row \cup {None}]
      BY <2>13, Touched DEF ShapeInv, TypeOK
    <3>2. streak' \in [Emails -> Nat]
      BY <2>13 DEF RecordFailure, ClearFailures, UpdatePassword, Promote, ShapeInv, TypeOK
    <3> QED
      BY <1>2, <2>2, <2>13, <3>1, <3>2
         DEF RecordFailure, ClearFailures, UpdatePassword, Promote, At, Answer, ShapeInv, TypeOK, Results
  <2>14. CASE Drop(c)
    BY <1>2, <2>2, <2>14 DEF Drop, Answer, ShapeInv, TypeOK, Results
  <2> QED
    BY <1>4, <2>8, <2>9, <2>10, <2>11, <2>12, <2>13, <2>14
       DEF Step, InsertUser, InsertAdmin
<1>5. CASE Tick
  BY <1>5 DEF Tick, ShapeInv, TypeOK, Shaped
<1>6. CASE UNCHANGED vars
  BY <1>6 DEF vars, ShapeInv, TypeOK, Shaped
<1> QED
  BY <1>3, <1>4, <1>5, <1>6 DEF Next

-----------------------------------------------------------------------------

(* What a step may do to the table: nothing; make an account that was not     *)
(* there; or one UPDATE.                                                      *)
Makes(c, role, e) ==
    /\ call[c].pc = "insert" /\ call[c].email = e /\ account[e] = None
    /\ call[c].op = IF role = "user" THEN "register" ELSE "bootstrap"
    /\ account' = [account EXCEPT ![e] = NewRow(call[c].password, role)]
    /\ Answer(c, "created") /\ UNCHANGED <<streak, overlapped, now>>

(* The accounts table changes in two ways only: a row is made where there    *)
(* was none, or a call updates the row of its own address.                   *)
LEMMA Writes ==
    ASSUME ShapeInv, PresentInv, [Next]_vars
    PROVE  \/ account' = account
           \/ \E c \in Calls, e \in Emails, role \in {"user", "admin"} : Makes(c, role, e)
           \/ \E c \in Calls, e \in Emails, new \in Row :
                 /\ call[c].email = e /\ account[e] \in Row
                 /\ account' = [account EXCEPT ![e] = new] /\ Touches(c, account[e], new)
<1>1. ASSUME NEW c \in Calls, Begin(c) PROVE account' = account
  BY <1>1 DEF Begin, PresentRegister, PresentLogin, PresentChange, Bootstrap
<1>2. ASSUME NEW c \in Calls, InsertUser(c) \/ InsertAdmin(c), account' # account
      PROVE  \E e \in Emails, role \in {"user", "admin"} : Makes(c, role, e)
  BY <1>2 DEF InsertUser, InsertAdmin, Insert, Makes, ShapeInv, Shaped
<1>3. ASSUME NEW c \in Calls, Step(c), account' # account
      PROVE  \/ InsertUser(c) \/ InsertAdmin(c)
             \/ RecordFailure(c) \/ ClearFailures(c) \/ UpdatePassword(c) \/ Promote(c)
  BY <1>3 DEF Step, FindForRegister, FindForLogin, VerifyLogin, FindForChange, VerifyChange,
              FindForBootstrap, Drop
<1> QED
  BY <1>1, <1>2, <1>3, Touched DEF Next, Tick, vars

-----------------------------------------------------------------------------
(* An account that is there stays there, and an administrator stays one.      *)
LEMMA Kept ==
    ASSUME ShapeInv, PresentInv, [Next]_vars, NEW e \in Emails, account[e] # None
    PROVE  /\ account'[e] # None
           /\ account[e].role = "admin" => account'[e].role = "admin"
<1>1. ASSUME NEW c \in Calls, NEW f \in Emails, NEW role \in {"user", "admin"}, Makes(c, role, f)
      PROVE  account'[e] = account[e]
  BY <1>1 DEF Makes, ShapeInv, TypeOK
<1>2. ASSUME NEW c \in Calls, NEW f \in Emails, NEW new \in Row, account[f] \in Row,
             account' = [account EXCEPT ![f] = new], Touches(c, account[f], new)
      PROVE  /\ account'[e] # None
             /\ account[e].role = "admin" => account'[e].role = "admin"
  <2>1. account[f].role = "admin" => new.role = "admin"
    BY <1>2 DEF Touches, Row
  <2> QED
    BY <1>2, <2>1, Constants DEF ShapeInv, TypeOK
<1> QED
  BY <1>1, <1>2, Writes

(* One call moves at a time.  An answered one stays as it is, and one under    *)
(* way keeps its operation, its address and its password.                     *)
Moved(c) ==
    /\ \A d \in Calls \ {c} : call'[d] = call[d]
    /\ call'[c].pc # "new"
    /\ call'[c].op = call[c].op /\ call'[c].email = call[c].email
    /\ call'[c].password = call[c].password

(* An answer ends the call it is given to.                                   *)
LEMMA Answered ==
    ASSUME TypeOK, NEW c \in Calls, NEW r, Answer(c, r)
    PROVE  call'[c].pc = "done" /\ call'[c].result = r /\ call'[c].email = call[c].email
<1> DEFINE j == [call[c] EXCEPT !.pc = "done", !.result = r]
<1>1. call \in [Calls -> Call] /\ call' = [call EXCEPT ![c] = j]
  BY DEF TypeOK, Answer, Become
<1>2. call'[c] = j
  BY <1>1
<1>3. j.pc = "done" /\ j.result = r /\ j.email = call[c].email
  <2>1. call[c] \in Call
    BY <1>1
  <2> QED
    BY <2>1 DEF Call
<1> QED
  BY <1>2, <1>3

(* A step of a call in flight moves that call, and no other.                 *)
LEMMA Moves ==
    ASSUME ShapeInv, NEW c \in Calls, Step(c)
    PROVE  Moved(c) /\ call[c].pc \notin {"new", "done"}
<1>1. call[c] \in Call
  BY DEF ShapeInv, TypeOK
<1>2. ASSUME NEW r, Answer(c, r) PROVE Moved(c)
  BY <1>1, <1>2 DEF Answer, Call, Moved, Become, ShapeInv, TypeOK
<1>3. ASSUME NEW pc, pc # "new", Goto(c, pc) PROVE Moved(c)
  BY <1>1, <1>3 DEF Goto, Call, Moved, Become, ShapeInv, TypeOK
<1>4. ASSUME NEW seen, Become(c, [call[c] EXCEPT !.pc = "verify", !.seen = seen]) PROVE Moved(c)
  BY <1>1, <1>4 DEF Call, Moved, Become, ShapeInv, TypeOK
<1>5. CASE InsertUser(c) \/ InsertAdmin(c)
  BY <1>2, <1>5 DEF InsertUser, InsertAdmin, Insert
<1>6. CASE FindForRegister(c) \/ FindForBootstrap(c)
  BY <1>2, <1>3, <1>6 DEF FindForRegister, FindForBootstrap, At
<1>7. CASE FindForLogin(c) \/ FindForChange(c)
  BY <1>2, <1>4, <1>7 DEF FindForLogin, FindForChange, At
<1>8. CASE VerifyLogin(c) \/ VerifyChange(c)
  BY <1>2, <1>3, <1>8 DEF VerifyLogin, VerifyChange, At
<1>9. CASE RecordFailure(c) \/ ClearFailures(c) \/ UpdatePassword(c) \/ Promote(c) \/ Drop(c)
  BY <1>2, <1>9 DEF RecordFailure, ClearFailures, UpdatePassword, Promote, Drop, At
<1> QED
  BY <1>5, <1>6, <1>7, <1>8, <1>9 DEF Step

(* A call begins from the fresh record, touches no row, and a change of      *)
(* password begins on an account that exists.                                *)
LEMMA Begins ==
    ASSUME ShapeInv, NEW c \in Calls, Begin(c)
    PROVE  \E e \in Emails, op \in Operations :
              /\ \A d \in Calls \ {c} : call'[d] = call[d]
              /\ call[c] = Fresh /\ UNCHANGED <<account, streak, now>>
              /\ call'[c].pc = "find" /\ call'[c].result = None
              /\ call'[c].email = e /\ call'[c].op = op
              /\ op = "change" => account[e] # None
<1>1. PICK e \in Emails, p \in Passwords, new \in Passwords :
          \/ PresentRegister(c, e, p) \/ PresentLogin(c, e, p) \/ PresentChange(c, e, p, new)
          \/ Bootstrap(c, e, p)
  BY DEF Begin
<1> DEFINE First(j, op) == /\ j.pc = "find" /\ j.result = None
                           /\ j.email = e /\ j.op = op
<1>2. call \in [Calls -> Call]
  BY DEF ShapeInv, TypeOK
<1>3. ASSUME call[c].pc = "new" PROVE call[c] = Fresh
  BY <1>3 DEF ShapeInv, Shaped
<1>4. ASSUME NEW j, Become(c, j)
      PROVE  call'[c] = j /\ \A d \in Calls \ {c} : call'[d] = call[d]
  BY <1>2, <1>4 DEF Become
<1> SUFFICES ASSUME NEW j, NEW op \in Operations, call[c].pc = "new", Become(c, j), First(j, op),
                    UNCHANGED <<account, streak, now>>, op = "change" => account[e] # None
             PROVE  \E f \in Emails, o \in Operations :
                       /\ \A d \in Calls \ {c} : call'[d] = call[d]
                       /\ call[c] = Fresh /\ UNCHANGED <<account, streak, now>>
                       /\ call'[c].pc = "find" /\ call'[c].result = None
                       /\ call'[c].email = f /\ call'[c].op = o
                       /\ o = "change" => account[f] # None
  <2> DEFINE R == [Fresh EXCEPT !.op = "register", !.pc = "find", !.email = e, !.password = p]
             L == [Fresh EXCEPT !.op = "login", !.pc = "find", !.email = e, !.password = p,
                                !.at = now]
             C == [Fresh EXCEPT !.op = "change", !.pc = "find", !.email = e, !.password = p,
                                !.new = new]
             B == [Fresh EXCEPT !.op = "bootstrap", !.pc = "find", !.email = e, !.password = p]
  <2>1. First(R, "register")
    BY DEF Fresh
  <2>2. First(L, "login")
    BY DEF Fresh
  <2>3. First(C, "change")
    BY DEF Fresh
  <2>4. First(B, "bootstrap")
    BY DEF Fresh
  <2>5. CASE PresentRegister(c, e, p)
    <3>1. call[c].pc = "new" /\ Become(c, R) /\ UNCHANGED <<account, streak, now>>
      BY <2>5 DEF PresentRegister
    <3> HIDE DEF R, First
    <3> QED
      BY <2>1, <3>1 DEF Operations
  <2>6. CASE PresentLogin(c, e, p)
    <3>1. call[c].pc = "new" /\ Become(c, L) /\ UNCHANGED <<account, streak, now>>
      BY <2>6 DEF PresentLogin
    <3> HIDE DEF L, First
    <3> QED
      BY <2>2, <3>1 DEF Operations
  <2>7. CASE PresentChange(c, e, p, new)
    <3>1. call[c].pc = "new" /\ Become(c, C) /\ UNCHANGED <<account, streak, now>>
          /\ account[e] # None
      BY <2>7 DEF PresentChange
    <3> HIDE DEF C, First
    <3> QED
      BY <2>3, <3>1 DEF Operations
  <2>8. CASE Bootstrap(c, e, p)
    <3>1. call[c].pc = "new" /\ Become(c, B) /\ UNCHANGED <<account, streak, now>>
      BY <2>8 DEF Bootstrap
    <3> HIDE DEF B, First
    <3> QED
      BY <2>4, <3>1 DEF Operations
  <2> QED
    BY <1>1, <2>5, <2>6, <2>7, <2>8
<1> QED
  <2>1. call'[c] = j /\ call[c] = Fresh /\ \A d \in Calls \ {c} : call'[d] = call[d]
    BY <1>3, <1>4
  <2> QED
    BY <2>1

(* A call moves only by its own beginning and its own steps.                 *)
LEMMA OneMoves ==
    ASSUME ShapeInv, [Next]_vars, NEW c \in Calls
    PROVE  Begin(c) \/ Step(c) \/ call'[c] = call[c]
BY Moves, Begins DEF Next, Tick, vars, Moved

(* What each answer and each next statement of a call rest on.               *)
Grounds(c) ==
    LET j == call'[c]
        row == account[call[c].email] IN
    /\ IF j.pc = "done" THEN j.result \in Results ELSE j.result = None
    /\ j.result = "created" => \E role \in {"user", "admin"} : Makes(c, role, j.email)
    /\ j.result = "promoted" => Promote(c)
    /\ j.result = "already_admin" => row # None /\ row.role = "admin"
    /\ j.result = "granted" => call[c].op = "login" /\ row # None
    /\ j.result = "wrong" => RecordFailure(c)
    /\ j.result = "changed" => UpdatePassword(c)
    /\ j.pc \in Read \cup {"promote"} => row # None
    /\ j.pc \in Read => \/ call[c].pc \in Read /\ j.seen = call[c].seen
                        \/ j.seen = row

(* Every step of a call rests on the grounds its answer or its next          *)
(* statement needs.                                                          *)
LEMMA Branches ==
    ASSUME ShapeInv, PresentInv, NEW c \in Calls, Step(c)
    PROVE  Grounds(c)
<1>1. /\ call \in [Calls -> Call] /\ call[c] \in Call
      /\ call[c].pc # "done" => call[c].result = None
      /\ call[c].pc # "new" => call[c].email \in Emails
  BY DEF ShapeInv, TypeOK, Shaped
<1>2. ASSUME NEW r, Answer(c, r) PROVE call'[c].pc = "done" /\ call'[c].result = r
  BY <1>2, Answered DEF ShapeInv
<1>3. ASSUME NEW pc, Goto(c, pc), call[c].pc # "done"
      PROVE  call'[c].pc = pc /\ call'[c].result = None /\ call'[c].seen = call[c].seen
  BY <1>1, <1>3 DEF Goto, Become, Call
<1>4. ASSUME NEW row, Become(c, [call[c] EXCEPT !.pc = "verify", !.seen = row]), call[c].pc # "done"
      PROVE  call'[c].pc = "verify" /\ call'[c].result = None /\ call'[c].seen = row
  BY <1>1, <1>4 DEF Become, Call
<1> USE Constants DEF Grounds, Read, Results
<1>5. CASE InsertUser(c) \/ InsertAdmin(c)
  <2>1. PICK role \in {"user", "admin"} :
            Insert(c, role) /\ call[c].op = IF role = "user" THEN "register" ELSE "bootstrap"
    <3>1. CASE InsertUser(c)
      BY <3>1 DEF InsertUser
    <3>2. CASE InsertAdmin(c)
      BY <3>2 DEF InsertAdmin
    <3> QED
      BY <1>5, <3>1, <3>2
  <2>2. CASE account[call[c].email] = None
    <3>1. Answer(c, "created") /\ Makes(c, role, call[c].email)
      BY <1>1, <2>1, <2>2 DEF Insert, Makes
    <3>2. call'[c].pc = "done" /\ call'[c].result = "created"
      BY <1>2, <3>1
    <3>3. \E r \in {"user", "admin"} : Makes(c, r, call'[c].email)
      <4>1. call'[c].email = call[c].email
        BY <3>1, Answered DEF ShapeInv
      <4> QED
        BY <3>1, <4>1
    <3> QED
      BY <3>2, <3>3
  <2>3. CASE account[call[c].email] # None
    <3>1. Answer(c, "conflict")
      BY <2>1, <2>3 DEF Insert
    <3>2. call'[c].pc = "done" /\ call'[c].result = "conflict"
      BY <1>2, <3>1
    <3> QED
      BY <3>2
  <2> QED
    BY <2>2, <2>3
<1>6. CASE FindForRegister(c)
  BY <1>2, <1>3, <1>6 DEF FindForRegister, At
<1>7. CASE FindForBootstrap(c)
  BY <1>2, <1>3, <1>7 DEF FindForBootstrap, At
<1>8. CASE FindForLogin(c)
  <2>1. CASE account[call[c].email] = None
    BY <1>2, <1>8, <2>1 DEF FindForLogin, At
  <2>2. CASE account[call[c].email] # None
    <3>1. Become(c, [call[c] EXCEPT !.pc = "verify", !.seen = account[call[c].email]])
      BY <1>8, <2>2 DEF FindForLogin
    <3>2. call'[c].pc = "verify" /\ call'[c].result = None /\ call'[c].seen = account[call[c].email]
      BY <1>4, <1>8, <3>1 DEF FindForLogin, At
    <3> QED
      BY <2>2, <3>2
  <2> QED
    BY <2>1, <2>2
<1>9. CASE FindForChange(c)
  BY <1>2, <1>4, <1>9 DEF FindForChange, At, PresentInv
<1>10. CASE VerifyLogin(c)
  BY <1>2, <1>3, <1>10 DEF VerifyLogin, At, PresentInv
<1>11. CASE VerifyChange(c)
  BY <1>2, <1>3, <1>11 DEF VerifyChange, At, PresentInv
<1>12. CASE RecordFailure(c)
  BY <1>2, <1>12 DEF RecordFailure, At
<1>13. CASE ClearFailures(c)
  BY <1>2, <1>13 DEF ClearFailures, At, PresentInv
<1>14. CASE UpdatePassword(c) \/ Promote(c)
  BY <1>2, <1>14 DEF UpdatePassword, Promote, At
<1>15. CASE Drop(c)
  BY <1>2, <1>15 DEF Drop
<1> QED
  BY <1>5, <1>6, <1>7, <1>8, <1>9, <1>10, <1>11, <1>12, <1>13, <1>14, <1>15 DEF Step

(* A call past its lookup has its row in the table: rows are never deleted.  *)
LEMMA Presence == ShapeInv /\ PresentInv /\ [Next]_vars => PresentInv'
<1> DEFINE Told == {"created", "promoted", "already_admin", "granted", "wrong", "changed"}
           Must(j) == j.op = "change" \/ j.pc \in Read \cup {"promote"} \/ j.result \in Told
<1> SUFFICES ASSUME ShapeInv, PresentInv, [Next]_vars, NEW c \in Calls, Must(call'[c])
             PROVE  account'[call'[c].email] # None
  BY DEF PresentInv
<1>1. call[c].pc # "new" => call[c].email \in Emails
  BY DEF ShapeInv, Shaped
<1>2. ASSUME Must(call[c]) PROVE call[c].pc # "new" /\ account[call[c].email] # None
  BY <1>2, Constants DEF ShapeInv, Shaped, Fresh, Read, Operations, Results, PresentInv
<1>3. ASSUME call[c].pc # "new", account[call[c].email] # None, call'[c].email = call[c].email
      PROVE  account'[call'[c].email] # None
  BY <1>1, <1>3, Kept
<1>4. CASE call'[c] = call[c]
  BY <1>2, <1>3, <1>4
<1>5. ASSUME Begin(c) PROVE account'[call'[c].email] # None
  <2>1. call'[c].result = None /\ call'[c].pc = "find" /\ account' = account
        /\ (call'[c].op = "change" => account[call'[c].email] # None)
    BY <1>5, Begins
  <2> QED
    BY <2>1, Constants DEF Read, Results
<1>6. ASSUME Step(c) PROVE account'[call'[c].email] # None
  <2>1. call[c].pc # "new" /\ call'[c].op = call[c].op /\ call'[c].email = call[c].email
    BY <1>6, Moves DEF Moved
  <2>2. Grounds(c)
    BY <1>6, Branches
  <2>3. CASE call'[c].result = "created"
    <3>1. PICK role \in {"user", "admin"} : Makes(c, role, call[c].email)
      BY <2>1, <2>2, <2>3 DEF Grounds
    <3>2. call[c].email \in Emails /\ call[c].password \in Passwords
      BY <2>1 DEF ShapeInv, Shaped
    <3>3. account'[call[c].email] = NewRow(call[c].password, role)
      BY <3>1, <3>2 DEF Makes, ShapeInv, TypeOK
    <3> QED
      BY <2>1, <3>2, <3>3, Constants, Rows
  <2>4. CASE call'[c].result # "created"
    <3>1. account[call[c].email] # None
      BY <1>2, <2>1, <2>2, <2>4
         DEF Grounds, RecordFailure, UpdatePassword, Promote, At, PresentInv, Read
    <3> QED
      BY <1>3, <2>1, <3>1
  <2> QED
    BY <2>3, <2>4
<1>7. Begin(c) \/ Step(c) \/ call'[c] = call[c]
  BY OneMoves
<1> QED
  BY <1>4, <1>5, <1>6, <1>7

(* An answer is final, and a new one comes from a step of the call.           *)
LEMMA Final ==
    ASSUME ShapeInv, PresentInv, [Next]_vars, NEW c \in Calls
    PROVE  /\ call[c].result \in Results => call'[c] = call[c]
           /\ call'[c].result \in Results /\ call'[c] # call[c] =>
                 Step(c) /\ Moved(c) /\ Grounds(c) /\ call[c].email \in Emails
                 /\ call[c].password \in Passwords
<1>1. call[c].result \in Results => call[c].pc = "done"
  BY Constants DEF ShapeInv, Shaped
<1>2. Begin(c) => call'[c].result = None /\ call[c].pc = "new"
  BY Begins DEF Fresh
<1> QED
  BY <1>1, <1>2, OneMoves, Moves, Branches, Constants DEF ShapeInv, Shaped

-----------------------------------------------------------------------------
(* Who was told that it made the account, and administrators.                 *)
LEMMA OneAccount ==
    ShapeInv /\ PresentInv /\ OneAccountPerAddress /\ [Next]_vars => OneAccountPerAddress'
<1> SUFFICES ASSUME ShapeInv, PresentInv, OneAccountPerAddress, [Next]_vars,
                    NEW c \in Calls, call'[c].result = "created"
             PROVE  /\ \A d \in Calls : call'[d].result = "created" /\ call'[d].email = call'[c].email => c = d
                    /\ \/ account'[call'[c].email].password = call'[c].password
                       \/ \E d \in Calls : call'[d].result = "changed" /\ call'[d].email = call'[c].email
  BY DEF OneAccountPerAddress
<1> DEFINE e == call'[c].email
<1>1. \A d \in Calls : call'[d].result = "created" /\ call'[d] # call[d] =>
          Moved(d) /\ \E role \in {"user", "admin"} : Makes(d, role, call'[d].email)
  BY Final DEF Grounds, Results
<1>2. \A d \in Calls : call'[d].result = "created" /\ call'[d] = call[d] =>
          account[call'[d].email] # None
  BY DEF PresentInv
<1>3. \A d \in Calls : call'[d].result = "created" /\ call'[d].email = call'[c].email => c = d
  BY <1>1, <1>2 DEF OneAccountPerAddress, Makes, Moved
<1> SUFFICES \/ account'[e].password = call'[c].password
             \/ \E d \in Calls : call'[d].result = "changed" /\ call'[d].email = e
  BY <1>3
<1>4. CASE call'[c] # call[c]
  <2>1. PICK role \in {"user", "admin"} : Makes(c, role, e) /\ Moved(c)
    BY <1>1, <1>4
  <2>2. call[c].email \in Emails /\ call[c].email = e
    BY <1>4, <2>1, Final DEF Makes, Results
  <2> QED
    BY <2>1, <2>2 DEF Makes, Moved, NewRow, ShapeInv, TypeOK
<1>5. CASE call'[c] = call[c]
  <2>1. ASSUME NEW d \in Calls, call[d].result = "changed", call[d].email = e
        PROVE  call'[d].result = "changed" /\ call'[d].email = e
    BY <2>1, Final DEF Results
  <2>2. CASE account'[e].password = account[e].password
    BY <1>5, <2>1, <2>2 DEF OneAccountPerAddress
  <2>3. ASSUME NEW d \in Calls, NEW f \in Emails, NEW role \in {"user", "admin"}, Makes(d, role, f)
        PROVE  account'[e] = account[e]
    BY <1>2, <1>5, <2>3 DEF Makes, ShapeInv, TypeOK
  <2>4. ASSUME NEW d \in Calls, NEW f \in Emails, NEW new \in Row, call[d].email = f, account[f] \in Row,
               account' = [account EXCEPT ![f] = new], Touches(d, account[f], new),
               account'[e].password # account[e].password
        PROVE  call'[d].result = "changed" /\ call'[d].email = e
    <3>1. f = e /\ new.password # account[f].password
      BY <2>4 DEF ShapeInv, TypeOK
    <3>2. UpdatePassword(d)
      BY <2>4, <3>1 DEF Touches, Row
    <3> QED
      BY <2>4, <3>1, <3>2 DEF UpdatePassword, Answer, Become, ShapeInv, TypeOK, Call
  <2> QED
    BY <2>2, <2>3, <2>4, Writes
<1> QED
  BY <1>4, <1>5

(* A bootstrap that answered has its administrator, after every step.        *)
LEMMA Administrators ==
    ShapeInv /\ PresentInv /\ BootstrapDelivers /\ [Next]_vars => BootstrapDelivers'
<1> SUFFICES ASSUME ShapeInv, PresentInv, BootstrapDelivers, [Next]_vars, NEW c \in Calls,
                    call'[c].op = "bootstrap",
                    call'[c].result \in {"created", "promoted", "already_admin"}
             PROVE  account'[call'[c].email].role = "admin"
  BY DEF BootstrapDelivers
<1>1. CASE call'[c] = call[c]
  <2>1. call[c].email \in Emails /\ account[call[c].email] # None
    BY <1>1, Constants DEF ShapeInv, Shaped, PresentInv, Fresh, Results
  <2> QED
    BY <1>1, <2>1, Kept DEF BootstrapDelivers
<1>2. CASE call'[c] # call[c]
  <2>1. /\ Grounds(c) /\ call'[c].email = call[c].email /\ call'[c].op = call[c].op
        /\ call[c].email \in Emails
    BY <1>2, Final DEF Moved, Results
  <2>2. CASE call'[c].result = "created"
    BY <2>1, <2>2 DEF Grounds, Makes, NewRow, ShapeInv, TypeOK
  <2>3. CASE call'[c].result = "promoted"
    <3>1. account[call[c].email] \in Row
      BY <2>1, <2>3 DEF Grounds, Promote, At, PresentInv, ShapeInv, TypeOK
    <3> QED
      BY <2>1, <2>3, <3>1 DEF Grounds, Promote, Row, ShapeInv, TypeOK
  <2>4. CASE call'[c].result = "already_admin"
    BY <2>1, <2>4, Kept DEF Grounds
  <2> QED
    BY <2>2, <2>3, <2>4
<1> QED
  BY <1>1, <1>2

(* A bootstrap over an existing account changes nothing of the row but its   *)
(* role.                                                                     *)
LEMMA CredentialKept ==
    ASSUME ShapeInv, PresentInv, [Next]_vars, NEW c \in Calls,
           call[c].op = "bootstrap", call'[c] # call[c], account[call[c].email] # None
    PROVE  account'[call[c].email] = [account[call[c].email] EXCEPT
                                          !.role = account'[call[c].email].role]
<1> DEFINE e == call[c].email
<1>1. Step(c)
  BY OneMoves, Begins, Constants DEF Fresh, Operations
<1>2. e \in Emails /\ account[e] \in Row
  BY <1>1, Moves DEF ShapeInv, Shaped, TypeOK
<1>3. account' = account \/ Promote(c)
  BY <1>1, <1>2 DEF Step, FindForRegister, InsertUser, FindForLogin, VerifyLogin, RecordFailure,
                    ClearFailures, FindForChange, VerifyChange, UpdatePassword, FindForBootstrap,
                    InsertAdmin, Insert, Drop, At
<1>4. CASE account' = account
  BY <1>2, <1>4 DEF Row
<1>5. CASE Promote(c)
  BY <1>2, <1>5 DEF Promote, Row, ShapeInv, TypeOK
<1> QED
  BY <1>3, <1>4, <1>5

-----------------------------------------------------------------------------
(* What a login has read of the counter is at most what has been earned.      *)
SeenInv ==
    \A c \in Calls, e \in Emails :
        call[c].op = "login" /\ call[c].pc \in Read /\ call[c].email = e =>
            call[c].seen.failed <= Cardinality(WrongAnswers(e))

(* The wrong answers of an address only ever become more.                     *)
LEMMA Wrongs ==
    ASSUME ShapeInv, PresentInv, [Next]_vars, NEW e \in Emails
    PROVE  /\ Cardinality(WrongAnswers(e)) \in Nat /\ Cardinality(WrongAnswers(e)') \in Nat
           /\ Cardinality(WrongAnswers(e)) <= Cardinality(WrongAnswers(e)')
           /\ \A c \in Calls : RecordFailure(c) /\ call[c].email = e =>
                 Cardinality(WrongAnswers(e)') = Cardinality(WrongAnswers(e)) + 1
<1>1. WrongAnswers(e) \subseteq Calls /\ WrongAnswers(e)' \subseteq Calls
  BY DEF WrongAnswers
<1>2. IsFiniteSet(WrongAnswers(e)) /\ IsFiniteSet(WrongAnswers(e)')
  BY <1>1, Constants, FS_Subset
<1>3. WrongAnswers(e) \subseteq WrongAnswers(e)'
  BY Final DEF WrongAnswers, Results
<1>4. ASSUME NEW c \in Calls, RecordFailure(c), call[c].email = e
      PROVE  WrongAnswers(e)' = WrongAnswers(e) \cup {c} /\ c \notin WrongAnswers(e)
  <2>1. Step(c)
    BY <1>4 DEF Step
  <2>2. Moved(c) /\ call[c].result = None
    BY <2>1, Moves DEF ShapeInv, Shaped
  <2>3. call'[c].result = "wrong"
    BY <1>4 DEF RecordFailure, Answer, Become, ShapeInv, TypeOK, Call
  <2> QED
    BY <1>4, <2>2, <2>3, Constants DEF Moved, WrongAnswers, Results
<1> QED
  BY <1>2, <1>3, <1>4, FS_Subset, FS_CardinalityType, FS_AddElement

(* Every step keeps the count of failures backed by attempts that failed.    *)
LEMMA Earned ==
    ShapeInv /\ PresentInv /\ SeenInv /\ LockIsEarned /\ [Next]_vars => SeenInv' /\ LockIsEarned'
<1> SUFFICES ASSUME ShapeInv, PresentInv, SeenInv, LockIsEarned, [Next]_vars
             PROVE  SeenInv' /\ LockIsEarned'
  OBVIOUS
<1> USE Constants
<1>1. \A e \in Emails : account[e] # None => account[e] \in Row
  BY DEF ShapeInv, TypeOK
<1>2. SeenInv'
  <2> SUFFICES ASSUME NEW c \in Calls, NEW e \in Emails,
                      call'[c].op = "login", call'[c].pc \in Read, call'[c].email = e
               PROVE  call'[c].seen.failed <= Cardinality(WrongAnswers(e)')
    BY DEF SeenInv
  <2>1. call[c].email = e /\ call[c].op = "login"
    BY OneMoves, Moves, Begins DEF Moved, Fresh, Read
  <2>2. \/ call[c].pc \in Read /\ call'[c].seen = call[c].seen
        \/ account[e] # None /\ call'[c].seen = account[e]
    BY <2>1, OneMoves, Branches, Begins DEF Grounds, Read
  <2>3. call'[c].seen.failed \in Nat
    <3>1. ShapeInv'
      BY Shape
    <3> QED
      BY <3>1 DEF ShapeInv, Shaped, Row
  <2>4. call'[c].seen.failed <= Cardinality(WrongAnswers(e))
    BY <2>1, <2>2 DEF SeenInv, LockIsEarned
  <2> QED
    BY <2>3, <2>4, Wrongs
<1>3. LockIsEarned'
  <2> DEFINE Old(e) == Cardinality(WrongAnswers(e))
             New(e) == Cardinality(WrongAnswers(e)')
             Held(e) == /\ account'[e].failed <= New(e)
                        /\ account'[e].locked_until # None => New(e) >= MaxAttempts
  <2> SUFFICES ASSUME NEW e \in Emails, account'[e] # None
               PROVE  Held(e)
    BY DEF LockIsEarned
  <2>1. Old(e) \in Nat /\ New(e) \in Nat /\ Old(e) <= New(e)
    BY Wrongs
  <2>2. ASSUME account[e] # None, account'[e].failed = account[e].failed,
               account'[e].locked_until = account[e].locked_until
        PROVE  Held(e)
    BY <1>1, <2>1, <2>2 DEF LockIsEarned, Row
  <2>3. ASSUME account'[e].failed = 0, account'[e].locked_until = None
        PROVE  Held(e)
    BY <2>1, <2>3
  <2>4. ASSUME NEW c \in Calls, NEW f \in Emails, NEW role \in {"user", "admin"}, Makes(c, role, f)
        PROVE  Held(e)
    <3>1. CASE f = e
      BY <2>3, <2>4, <3>1 DEF Makes, NewRow, ShapeInv, TypeOK
    <3>2. CASE f # e
      BY <2>2, <2>4, <3>2 DEF Makes, ShapeInv, TypeOK
    <3> QED
      BY <3>1, <3>2
  <2>5. ASSUME NEW c \in Calls, NEW f \in Emails, NEW row \in Row, call[c].email = f, account[f] \in Row,
               account' = [account EXCEPT ![f] = row], Touches(c, account[f], row)
        PROVE  Held(e)
    <3>1. CASE f # e
      BY <2>2, <2>5, <3>1 DEF ShapeInv, TypeOK
    <3>2. CASE f = e /\ RecordFailure(c)
      <4> DEFINE seen == call[c].seen
      <4>1. call[c].op = "login" /\ call[c].pc \in Read /\ seen \in Row /\ call[c].at \in Nat
        BY <3>2 DEF RecordFailure, At, ShapeInv, Shaped, TypeOK, Call, Read
      <4>2. seen.failed \in Nat /\ seen.failed <= Old(e) /\ New(e) = Old(e) + 1
        BY <2>5, <3>2, <4>1, Wrongs DEF SeenInv, Row
      <4>3. /\ account'[e].failed = seen.failed + 1
            /\ account'[e].locked_until # None => seen.failed + 1 >= MaxAttempts
        <5>1. /\ account'[e].failed = Failed(seen, call[c].at).failed
              /\ account'[e].locked_until = Failed(seen, call[c].at).locked_until
          BY <2>5, <3>2 DEF RecordFailure, Row, ShapeInv, TypeOK
        <5>2. /\ Failed(seen, call[c].at).failed = seen.failed + 1
              /\ Failed(seen, call[c].at).locked_until # None => seen.failed + 1 >= MaxAttempts
          BY <4>1 DEF Failed, Row
        <5> QED
          BY <5>1, <5>2
      <4> QED
        BY <2>1, <4>2, <4>3
    <3>3. CASE f = e /\ ClearFailures(c)
      <4>1. account'[e].failed = 0 /\ account'[e].locked_until = None
        BY <2>5, <3>3 DEF ClearFailures, Row, ShapeInv, TypeOK
      <4> QED
        BY <2>3, <4>1
    <3>4. CASE f = e /\ (UpdatePassword(c) \/ Promote(c))
      <4>1. row.failed = account[e].failed /\ row.locked_until = account[e].locked_until
        BY <2>5, <3>4 DEF Touches, Row, RecordFailure, ClearFailures, UpdatePassword, Promote, At
      <4> QED
        BY <2>2, <2>5, <3>4, <4>1, Constants DEF ShapeInv, TypeOK
    <3> QED
      BY <2>5, <3>1, <3>2, <3>3, <3>4 DEF Touches
  <2>6. CASE account' = account
    BY <2>2, <2>6
  <2> HIDE DEF Held
  <2> QED
    BY <2>4, <2>5, <2>6, Writes
<1> QED
  BY <1>2, <1>3

-----------------------------------------------------------------------------
(* While the logins of an address do not overlap, the one under way knows the *)
(* counter and the lock as they are.                                          *)
Knows(c, e) ==
    /\ call[c].seen.failed = account[e].failed
    /\ call[c].seen.locked_until = account[e].locked_until

AloneInv ==
    \A e \in Emails :
        /\ account[e] = None => streak[e] = 0
        /\ e \notin overlapped =>
              /\ \A c, d \in LoginsOf(e) : c = d
              /\ \A c \in LoginsOf(e) : call[c].pc \in Read => Knows(c, e)

(* A login joins when it is presented, or else has been there before.         *)
LEMMA Joins ==
    ASSUME ShapeInv, [Next]_vars, NEW e \in Emails, e \notin overlapped'
    PROVE  /\ e \notin overlapped
           /\ \/ LoginsOf(e)' \subseteq LoginsOf(e)
              \/ /\ LoginsOf(e) = {} /\ account' = account /\ streak' = streak
                 /\ \E c \in Calls : LoginsOf(e)' = {c} /\ call'[c].pc = "find"
<1>1. ASSUME NEW c \in Calls, Step(c)
      PROVE  LoginsOf(e)' \subseteq LoginsOf(e) /\ overlapped' = overlapped
  <2>1. LoginsOf(e)' \subseteq LoginsOf(e)
    BY <1>1, Moves DEF Moved, LoginsOf
  <2>2. overlapped' = overlapped
    BY <1>1 DEF Step, FindForRegister, InsertUser, FindForLogin, VerifyLogin, RecordFailure, ClearFailures,
                FindForChange, VerifyChange, UpdatePassword, FindForBootstrap, InsertAdmin, Insert,
                Promote, Drop
  <2> QED
    BY <2>1, <2>2
<1>2. ASSUME NEW c \in Calls, NEW f \in Emails, NEW p \in Passwords, PresentLogin(c, f, p), f = e
      PROVE  /\ e \notin overlapped /\ LoginsOf(e) = {} /\ account' = account /\ streak' = streak
             /\ LoginsOf(e)' = {c} /\ call'[c].pc = "find"
  <2>1. e \notin overlapped /\ LoginsOf(e) = {}
    BY <1>2 DEF PresentLogin
  <2>2. /\ call'[c].op = "login" /\ call'[c].email = e /\ call'[c].pc = "find"
        /\ \A d \in Calls \ {c} : call'[d] = call[d]
    BY <1>2 DEF PresentLogin, Become, Fresh, ShapeInv, TypeOK
  <2> QED
    BY <1>2, <2>1, <2>2 DEF LoginsOf, PresentLogin
<1>3. ASSUME NEW c \in Calls, NEW f \in Emails, NEW p \in Passwords, NEW new \in Passwords,
             \/ PresentRegister(c, f, p) \/ PresentChange(c, f, p, new) \/ Bootstrap(c, f, p)
             \/ PresentLogin(c, f, p) /\ f # e
      PROVE  LoginsOf(e)' \subseteq LoginsOf(e) /\ e \notin overlapped
  <2>1. /\ call'[c].op # "login" \/ call'[c].email # e
        /\ \A d \in Calls \ {c} : call'[d] = call[d]
    <3>1. CASE PresentRegister(c, f, p)
      BY <3>1 DEF PresentRegister, Become, Fresh, ShapeInv, TypeOK
    <3>2. CASE PresentChange(c, f, p, new)
      BY <3>2 DEF PresentChange, Become, Fresh, ShapeInv, TypeOK
    <3>3. CASE Bootstrap(c, f, p)
      BY <3>3 DEF Bootstrap, Become, Fresh, ShapeInv, TypeOK
    <3>4. CASE PresentLogin(c, f, p) /\ f # e
      BY <3>4 DEF PresentLogin, Become, Fresh, ShapeInv, TypeOK
    <3> QED
      BY <1>3, <3>1, <3>2, <3>3, <3>4
  <2>2. e \notin overlapped
    BY <1>3 DEF PresentRegister, PresentChange, Bootstrap, PresentLogin
  <2> QED
    BY <2>1, <2>2 DEF LoginsOf
<1>4. ASSUME NEW c \in Calls, Begin(c)
      PROVE  /\ e \notin overlapped
             /\ \/ LoginsOf(e)' \subseteq LoginsOf(e)
                \/ /\ LoginsOf(e) = {} /\ account' = account /\ streak' = streak
                   /\ \E d \in Calls : LoginsOf(e)' = {d} /\ call'[d].pc = "find"
  BY <1>2, <1>3, <1>4 DEF Begin
<1>5. CASE Tick \/ UNCHANGED vars
  BY <1>5 DEF Tick, vars, LoginsOf
<1> QED
  BY <1>1, <1>4, <1>5 DEF Next

(* While no two logins of an address overlap, every step keeps the count     *)
(* exact.                                                                    *)
LEMMA Exact ==
    ShapeInv /\ PresentInv /\ AloneInv /\ LockoutIsExact /\ [Next]_vars => AloneInv' /\ LockoutIsExact'
<1> DEFINE Alone(e) == \A c, d \in LoginsOf(e)' : c = d
           Know(e) == \A c \in LoginsOf(e)' : call'[c].pc \in Read => Knows(c, e)'
           Right(e) == account'[e] # None =>
                           /\ account'[e].failed = streak'[e]
                           /\ account'[e].locked_until # None <=> streak'[e] >= MaxAttempts
           Zero(e) == account'[e] = None => streak'[e] = 0
           Same(e) == /\ streak'[e] = streak[e] /\ account[e] # None /\ account'[e] # None
                      /\ account'[e].failed = account[e].failed
                      /\ account'[e].locked_until = account[e].locked_until
           Quiet(e) == streak'[e] = streak[e] /\ account'[e] = account[e]
<1> SUFFICES ASSUME ShapeInv, PresentInv, AloneInv, LockoutIsExact, [Next]_vars, NEW e \in Emails
             PROVE  Zero(e) /\ (e \notin overlapped' => Alone(e) /\ Know(e) /\ Right(e))
  BY DEF AloneInv, LockoutIsExact
<1>1. e \notin overlapped' => Alone(e) /\ e \notin overlapped
  BY Joins DEF AloneInv
<1>2. ASSUME e \notin overlapped', NEW c \in LoginsOf(e)', call'[c].pc \in Read
      PROVE  c \in LoginsOf(e) /\ c \in Calls
  BY <1>2, Joins DEF LoginsOf, Read
<1>3. ASSUME Quiet(e) \/ Same(e) PROVE Zero(e) /\ (e \notin overlapped' => Right(e))
  BY <1>1, <1>3 DEF AloneInv, LockoutIsExact
<1>4. ASSUME Quiet(e) \/ Same(e), e \notin overlapped', NEW c \in LoginsOf(e)', call'[c] = call[c],
             call'[c].pc \in Read
      PROVE  Knows(c, e)'
  BY <1>1, <1>2, <1>4 DEF AloneInv, Knows
<1> HIDE DEF Zero, Alone, Know, Right
<1>5. CASE UNCHANGED <<account, streak>>
  <2>1. ASSUME e \notin overlapped', NEW c \in LoginsOf(e)', call'[c].pc \in Read, call'[c] # call[c]
        PROVE  Knows(c, e)'
    <3>1. c \in LoginsOf(e) /\ c \in Calls
      BY <1>2, <2>1
    <3>2. Grounds(c) /\ call[c].email = e
      BY <2>1, <3>1, OneMoves, Branches, Begins DEF LoginsOf, Read
    <3> QED
      BY <1>1, <1>5, <2>1, <3>1, <3>2 DEF Grounds, Knows, AloneInv
  <2>2. e \notin overlapped' => Know(e)
    BY <1>4, <1>5, <2>1 DEF Know
  <2> QED
    BY <1>1, <1>3, <1>5, <2>2
<1>6. ASSUME NEW d \in Calls, InsertUser(d) \/ InsertAdmin(d), ~UNCHANGED <<account, streak>>
      PROVE  Zero(e) /\ (e \notin overlapped' => Alone(e) /\ Know(e) /\ Right(e))
  <2>1. PICK f \in Emails, role \in {"user", "admin"} : Makes(d, role, f)
    BY <1>6 DEF InsertUser, InsertAdmin, Insert, Makes, ShapeInv, Shaped
  <2>2. Moved(d) /\ call[d].op # "login"
    BY <1>6, <2>1, Moves DEF Step, Makes
  <2>3. CASE f # e
    <3>1. Quiet(e)
      BY <2>1, <2>3 DEF Makes, ShapeInv, TypeOK
    <3>2. e \notin overlapped' => Know(e)
      BY <1>2, <1>4, <2>2, <3>1 DEF Know, Moved, LoginsOf
    <3> QED
      BY <1>1, <1>3, <3>1, <3>2
  <2>4. CASE f = e
    <3>1. account[e] = None /\ account'[e] = NewRow(call[d].password, role) /\ streak'[e] = 0
      BY <2>1, <2>4 DEF Makes, ShapeInv, TypeOK, AloneInv
    <3>2. Zero(e) /\ Right(e)
      BY <3>1, Constants DEF Zero, Right, NewRow
    <3>3. e \notin overlapped' => Know(e)
      <4> SUFFICES ASSUME e \notin overlapped', NEW c \in LoginsOf(e)', call'[c].pc \in Read
                   PROVE  FALSE
        BY DEF Know
      <4>1. c \in Calls /\ call[c].op = "login" /\ call[c].email = e
        BY <1>2 DEF LoginsOf
      <4>2. call'[c] = call[c]
        BY <2>2, <4>1 DEF Moved
      <4> QED
        BY <3>1, <4>1, <4>2 DEF PresentInv
    <3> QED
      BY <1>1, <3>2, <3>3
  <2> QED
    BY <2>3, <2>4
<1>7. ASSUME NEW d \in Calls, RecordFailure(d) \/ ClearFailures(d)
      PROVE  Zero(e) /\ (e \notin overlapped' => Alone(e) /\ Know(e) /\ Right(e))
  <2>1. Moved(d) /\ call[d].op = "login" /\ call[d].pc \in Read /\ call'[d].pc = "done"
        /\ call[d].seen \in Row /\ call[d].at \in Nat
    <3>1. Moved(d)
      BY <1>7, Moves DEF Step
    <3>2. call[d].op = "login" /\ call[d].pc \in Read
      BY <1>7 DEF RecordFailure, ClearFailures, At, Read
    <3>3. call[d].seen \in Row /\ call[d].at \in Nat
      BY <3>2 DEF ShapeInv, Shaped, Call
    <3>4. call'[d].pc = "done"
      <4>1. Answer(d, "wrong") \/ Answer(d, "granted")
        BY <1>7 DEF RecordFailure, ClearFailures
      <4> QED
        BY <4>1, Answered DEF ShapeInv
    <3> QED
      BY <3>1, <3>2, <3>3, <3>4
  <2>2. PICK f \in Emails, new \in Row :
            /\ call[d].email = f /\ account[f] \in Row
            /\ account' = [account EXCEPT ![f] = new] /\ Touches(d, account[f], new)
    BY <1>7, Touched
  <2>3. CASE f # e
    <3>1. Quiet(e)
      BY <1>7, <2>2, <2>3 DEF RecordFailure, ClearFailures, ShapeInv, TypeOK
    <3>2. e \notin overlapped' => Know(e)
      BY <1>2, <1>4, <2>1, <2>2, <2>3, <3>1 DEF Know, Moved, LoginsOf
    <3> QED
      BY <1>1, <1>3, <3>1, <3>2
  <2>4. CASE f = e
    <3>1. e \notin overlapped' => d \in LoginsOf(e) /\ Knows(d, e)
      BY <1>1, <2>1, <2>2, <2>4 DEF LoginsOf, AloneInv, Read
    <3>2. e \notin overlapped' => Know(e)
      BY <1>1, <1>2, <2>1, <3>1 DEF Know, LoginsOf, AloneInv
    <3>3. Zero(e)
      BY <2>2, <2>4, Constants DEF Zero, ShapeInv, TypeOK
    <3>4. CASE ClearFailures(d)
      <4>1. account'[e].failed = 0 /\ account'[e].locked_until = None /\ streak'[e] = 0
        BY <2>2, <2>4, <3>4 DEF ClearFailures, Row, ShapeInv, TypeOK
      <4> QED
        BY <1>1, <3>2, <3>3, <4>1, Constants DEF Right
    <3>5. CASE RecordFailure(d)
      <4> DEFINE seen == call[d].seen
      <4>1. /\ account'[e].failed = Failed(seen, call[d].at).failed
            /\ account'[e].locked_until = Failed(seen, call[d].at).locked_until
            /\ streak'[e] = streak[e] + 1
        BY <2>2, <2>4, <3>5 DEF RecordFailure, Row, ShapeInv, TypeOK
      <4>2. /\ Failed(seen, call[d].at).failed = seen.failed + 1
            /\ Failed(seen, call[d].at).locked_until # None <=> seen.failed + 1 >= MaxAttempts
        BY <2>1, Constants DEF Failed, Row
      <4>3. e \notin overlapped' => seen.failed = streak[e]
        BY <1>1, <2>2, <2>4, <3>1, Constants DEF Knows, LockoutIsExact
      <4> QED
        BY <1>1, <3>2, <3>3, <4>1, <4>2, <4>3 DEF Right
    <3> QED
      BY <1>7, <3>4, <3>5
  <2> QED
    BY <2>3, <2>4
<1>8. ASSUME NEW d \in Calls, UpdatePassword(d) \/ Promote(d)
      PROVE  Zero(e) /\ (e \notin overlapped' => Alone(e) /\ Know(e) /\ Right(e))
  <2>1. Moved(d) /\ call[d].op # "login"
    BY <1>8, Moves DEF Step, UpdatePassword, Promote, At
  <2>2. PICK f \in Emails, new \in Row :
            /\ call[d].email = f /\ account[f] \in Row
            /\ account' = [account EXCEPT ![f] = new] /\ Touches(d, account[f], new)
    BY <1>8, Touched
  <2>3. new.failed = account[f].failed /\ new.locked_until = account[f].locked_until
    BY <1>8, <2>2 DEF Touches, Row, RecordFailure, ClearFailures, UpdatePassword, Promote, At
  <2>4. Quiet(e) \/ Same(e)
    BY <1>8, <2>2, <2>3, Constants DEF UpdatePassword, Promote, ShapeInv, TypeOK
  <2>5. e \notin overlapped' => Know(e)
    BY <1>2, <1>4, <2>1, <2>4 DEF Know, Moved, LoginsOf
  <2> QED
    BY <1>1, <1>3, <2>4, <2>5
<1> DEFINE Write(d) == \/ InsertUser(d) \/ InsertAdmin(d) \/ RecordFailure(d) \/ ClearFailures(d)
                       \/ UpdatePassword(d) \/ Promote(d)
           Stay == UNCHANGED <<account, streak>>
<1>9. Stay \/ \E d \in Calls : Write(d)
  <2>1. ASSUME NEW d \in Calls, Begin(d) PROVE Stay
    BY <2>1, Begins
  <2>2. ASSUME NEW d \in Calls, Step(d) PROVE Stay \/ Write(d)
    <3>1. CASE FindForRegister(d) \/ FindForLogin(d) \/ FindForChange(d) \/ FindForBootstrap(d)
      BY <3>1 DEF FindForRegister, FindForLogin, FindForChange, FindForBootstrap
    <3>2. CASE VerifyLogin(d) \/ VerifyChange(d) \/ Drop(d)
      BY <3>2 DEF VerifyLogin, VerifyChange, Drop
    <3> QED
      BY <2>2, <3>1, <3>2 DEF Step
  <2>3. ASSUME Tick \/ UNCHANGED vars PROVE Stay
    BY <2>3 DEF Tick, vars
  <2> HIDE DEF Stay, Write
  <2> QED
    BY <2>1, <2>2, <2>3 DEF Next
<1> QED
  BY <1>5, <1>6, <1>7, <1>8, <1>9

-----------------------------------------------------------------------------
(* The inductive invariant: the state's shape, who knows what, and the        *)
(* properties themselves.                                                     *)
IInv ==
    /\ ShapeInv /\ PresentInv /\ OneAccountPerAddress /\ BootstrapDelivers
    /\ SeenInv /\ LockIsEarned /\ AloneInv /\ LockoutIsExact

(* The initial states satisfy the inductive invariant.                       *)
LEMMA Initially == Init => IInv
<1> SUFFICES ASSUME Init PROVE IInv
  OBVIOUS
<1> USE Constants DEF Init
<1>1. Fresh \in Call /\ Shaped(Fresh)
  <2>1. Fresh \in Call
    BY DEF Fresh, Call
  <2> QED
    BY <2>1 DEF Fresh, Shaped, Read, Operations
<1>2. ShapeInv
  BY <1>1 DEF ShapeInv, TypeOK
<1>3. \A c \in Calls : call[c] = Fresh
  OBVIOUS
<1>4. PresentInv /\ OneAccountPerAddress /\ BootstrapDelivers /\ SeenInv
  BY <1>3 DEF PresentInv, OneAccountPerAddress, BootstrapDelivers, SeenInv, Fresh, Read, Operations, Results
<1>5. \A e \in Emails : LoginsOf(e) = {}
  BY <1>3 DEF LoginsOf, Fresh
<1>6. LockIsEarned /\ AloneInv /\ LockoutIsExact
  BY <1>5 DEF LockIsEarned, AloneInv, LockoutIsExact
<1> QED
  BY <1>2, <1>4, <1>6 DEF IInv

(* Every step keeps the inductive invariant.                                 *)
LEMMA Preserved == IInv /\ [Next]_vars => IInv'
BY Shape, Presence, OneAccount, Administrators, Earned, Exact DEF IInv

(* In every reachable state the accounts table and the calls satisfy the     *)
(* inductive invariant of account_service.rs.                                *)
THEOREM Invariant == Spec => []IInv
<1> QED
  BY Initially, Preserved, PTL DEF Spec

(* Every state has the declared shape.                                        *)
THEOREM TypeCorrect == Spec => []TypeOK
<1>1. IInv => TypeOK
  BY DEF IInv, ShapeInv
<1> QED
  BY <1>1, Invariant, PTL

(* At most one registration or bootstrap is told that it made the account of  *)
(* an address, and its password is the account's until one is changed.        *)
THEOREM OneCreator == Spec => []OneAccountPerAddress
<1>1. IInv => OneAccountPerAddress
  BY DEF IInv
<1> QED
  BY <1>1, Invariant, PTL

(* A bootstrap that reports success has left an administrator behind.         *)
THEOREM BootstrapWorks == Spec => []BootstrapDelivers
<1>1. IInv => BootstrapDelivers
  BY DEF IInv
<1> QED
  BY <1>1, Invariant, PTL

(* A lock costs MaxAttempts wrong passwords, however logins interleave.       *)
THEOREM NoCheapLock == Spec => []LockIsEarned
<1>1. IInv => LockIsEarned
  BY DEF IInv
<1> QED
  BY <1>1, Invariant, PTL

(* Without overlapping logins the counter and the lock are exact.             *)
THEOREM ExactLock == Spec => []LockoutIsExact
<1>1. IInv => LockoutIsExact
  BY DEF IInv
<1> QED
  BY <1>1, Invariant, PTL

(* No step of a bootstrap touches the password or the lockout of an account   *)
(* that is there.                                                             *)
THEOREM BootstrapHarmless == Spec => BootstrapKeepsCredential
<1>1. IInv /\ [Next]_vars =>
          [\A c \in Calls :
              call[c].op = "bootstrap" /\ call'[c] # call[c] /\ account[call[c].email] # None =>
                  account'[call[c].email] = [account[call[c].email] EXCEPT
                                                !.role = account'[call[c].email].role]]_vars
  BY CredentialKept DEF IInv
<1> QED
  BY <1>1, Invariant, PTL DEF Spec, BootstrapKeepsCredential
=============================================================================
