--------------------------- MODULE AdmissionProofs ---------------------------
(* Theorems about Admission, for any finite sets of connections and requests, *)
(* any routes and any limits.                                                 *)
EXTENDS Admission, FiniteSetTheorems, TLAPS

-----------------------------------------------------------------------------
(* The shape of the state, and the sets whose members hold a permit.          *)
Request == [pc : {"wait", "hold"}, conn : Conns, route : DOMAIN Routes, step : Nat]

TypeInv ==
    /\ phase \in {"up", "draining", "stopped"}
    /\ conn \in [Conns -> {"out", "refused", "handshake", "open", "closed"}]
    /\ req \in [Reqs -> Request \cup {Unsent, Ended}]

UpSet == {c \in Conns : Up(c)}
InRoute(e) == {r \in Reqs : Live(r) /\ req[r].route = e}
Holding(what) == {r \in Reqs : Live(r) /\ Holds(r, what)}

SlotsInv == slots \in Nat /\ slots + Number(UpSet) = MaxConnections
RoomInv ==
    /\ room \in [DOMAIN Routes -> Nat]
    /\ \A e \in DOMAIN Routes : room[e] + Number(InRoute(e)) = MaxConcurrency
PoolInv == pool \in Nat /\ pool + Number(Holding("db")) = PoolSize
PermitsInv == permits \in Nat /\ permits + Number(Holding("hash")) = HashSlots

(* The limits are numbers, and connections and requests are finitely many.   *)
LEMMA Limits ==
    /\ {MaxConnections, MaxConcurrency, PoolSize, HashSlots} \subseteq Nat
    /\ IsFiniteSet(Conns) /\ IsFiniteSet(Reqs)
BY AdmissionAssumption DEF HashSlots

(* Counting. *)
LEMMA Without ==
    ASSUME NEW S, IsFiniteSet(S), NEW T, T \subseteq S
    PROVE  /\ IsFiniteSet(T) /\ Number(S) \in Nat /\ Number(T) \in Nat
           /\ Number(S \ T) = Number(S) - Number(T)
<1>1. S \cap T = T
  OBVIOUS
<1>2. IsFiniteSet(T)
  BY FS_Subset
<1>3. Cardinality(S) \in Nat /\ Cardinality(T) \in Nat
  BY <1>2, FS_CardinalityType
<1>4. Cardinality(S \ T) = Cardinality(S) - Cardinality(S \cap T)
  BY FS_Difference
<1> QED
  BY <1>1, <1>2, <1>3, <1>4 DEF Number

(* Adding or removing one element moves a count by one.                      *)
LEMMA With ==
    ASSUME NEW S, IsFiniteSet(S), NEW x
    PROVE  /\ Number(S) \in Nat
           /\ x \notin S => Number(S \cup {x}) = Number(S) + 1
           /\ x \in S => Number(S \ {x}) = Number(S) - 1
<1>1. Cardinality(S) \in Nat
  BY FS_CardinalityType
<1>2. ASSUME x \notin S PROVE Cardinality(S \cup {x}) = Cardinality(S) + 1
  BY <1>2, FS_AddElement
<1>3. ASSUME x \in S PROVE Cardinality(S \ {x}) = Cardinality(S) - 1
  BY <1>3, FS_RemoveElement
<1> QED
  BY <1>1, <1>2, <1>3 DEF Number

(* Every set the limits count is finite.                                     *)
LEMMA Finite ==
    /\ IsFiniteSet(UpSet) /\ \A e : IsFiniteSet(InRoute(e)) /\ \A w : IsFiniteSet(Holding(w))
<1>1. UpSet \subseteq Conns /\ \A e : InRoute(e) \subseteq Reqs /\ \A w : Holding(w) \subseteq Reqs
  BY DEF UpSet, InRoute, Holding
<1> QED
  BY <1>1, Limits, FS_Subset

(* A request is under way exactly when it is a record of one.                 *)
LEMMA Lives ==
    ASSUME TypeInv
    PROVE  /\ \A r \in Reqs : Live(r) <=> req[r] \in Request
           /\ \A r \in Reqs : ~Live(r) <=> req[r] \in {Unsent, Ended}
BY DEF TypeInv, Live, Request, Unsent, Ended

-----------------------------------------------------------------------------
(* Hanging up and dropping give back what was held, once.                     *)
LEMMA HangingUp ==
    ASSUME TypeInv, SlotsInv, NEW C \in SUBSET Conns, Hang(C)
    PROVE  /\ conn' \in [Conns -> {"out", "refused", "handshake", "open", "closed"}]
           /\ SlotsInv'
<1> DEFINE T == {c \in C : Up(c)}
<1>1. conn' \in [Conns -> {"out", "refused", "handshake", "open", "closed"}]
  BY DEF Hang, TypeInv
<1>2. T \subseteq UpSet /\ UpSet' = UpSet \ T
  BY DEF UpSet, Up, Hang, TypeInv
<1>3. Number(UpSet') = Number(UpSet) - Number(T) /\ Number(T) \in Nat /\ Number(UpSet) \in Nat
  BY <1>2, Finite, Without
<1>4. slots' = slots + Number(T)
  BY DEF Hang
<1> QED
  BY <1>1, <1>3, <1>4, Limits DEF SlotsInv

(* Dropping requests gives back every slot, connection of the pool and       *)
(* permit they held.                                                         *)
LEMMA Dropping ==
    ASSUME TypeInv, RoomInv, PoolInv, PermitsInv, NEW S \in SUBSET Reqs, \A r \in S : Live(r), Drop(S)
    PROVE  /\ req' \in [Reqs -> Request \cup {Unsent, Ended}]
           /\ RoomInv' /\ PoolInv' /\ PermitsInv'
<1> DEFINE R(e) == {r \in S : req[r].route = e}
           H(w) == {r \in S : Holds(r, w)}
<1>1. req' \in [Reqs -> Request \cup {Unsent, Ended}]
  BY DEF Drop, TypeInv
<1>2. \A r \in Reqs : Live(r)' <=> Live(r) /\ r \notin S
  BY DEF Drop, Live, Ended
<1>3. \A r \in Reqs \ S : req'[r] = req[r]
  BY DEF Drop
<1>4. \A e \in DOMAIN Routes : R(e) \subseteq InRoute(e) /\ InRoute(e)' = InRoute(e) \ R(e)
  BY <1>2, <1>3 DEF InRoute
<1>5. \A w : H(w) \subseteq Holding(w) /\ Holding(w)' = Holding(w) \ H(w)
  BY <1>2, <1>3 DEF Holding, Holds, Needs
<1>6. \A e \in DOMAIN Routes : /\ Number(InRoute(e)') = Number(InRoute(e)) - Number(R(e))
                               /\ Number(R(e)) \in Nat /\ Number(InRoute(e)) \in Nat
  BY <1>4, Finite, Without
<1>7. \A w : /\ Number(Holding(w)') = Number(Holding(w)) - Number(H(w))
             /\ Number(H(w)) \in Nat /\ Number(Holding(w)) \in Nat
  BY <1>5, Finite, Without
<1> HIDE DEF R, H
<1>8. RoomInv'
  <2>1. room' = [e \in DOMAIN Routes |-> room[e] + Number(R(e))]
    BY DEF Drop, R
  <2> QED
    BY <1>6, <2>1, Limits DEF RoomInv
<1>9. pool' = pool + Number(H("db")) /\ permits' = permits + Number(H("hash"))
  BY DEF Drop, H
<1>10. PoolInv' /\ PermitsInv'
  BY <1>7, <1>9, Limits DEF PoolInv, PermitsInv
<1> QED
  BY <1>1, <1>8, <1>10

(* A wait begins or ends: one more or one less among those that hold.         *)
LEMMA Takes ==
    ASSUME TypeInv, RoomInv, PoolInv, PermitsInv, NEW r \in Reqs, TakeConnection(r) \/ TakePermit(r)
    PROVE  /\ req' \in [Reqs -> Request \cup {Unsent, Ended}]
           /\ RoomInv' /\ PoolInv' /\ PermitsInv'
<1>1. Live(r) /\ req[r] \in Request /\ req[r].pc = "wait"
  BY Lives DEF TakeConnection, TakePermit, Live
<1>2. req' = [req EXCEPT ![r] = [req[r] EXCEPT !.pc = "hold"]]
  BY DEF TakeConnection, TakePermit, TypeInv
<1>3. [req[r] EXCEPT !.pc = "hold"] \in Request
  BY <1>1 DEF Request
<1>4. req' \in [Reqs -> Request \cup {Unsent, Ended}]
  BY <1>2, <1>3 DEF TypeInv
<1>5. /\ req'[r].pc = "hold" /\ req'[r].route = req[r].route /\ req'[r].step = req[r].step
      /\ \A q \in Reqs \ {r} : req'[q] = req[q]
  BY <1>1, <1>2 DEF TypeInv, Request
<1>6. \A e : InRoute(e)' = InRoute(e)
  BY <1>1, <1>5 DEF InRoute, Live
<1>7. \A w : w = Needs(r) => Holding(w)' = Holding(w) \cup {r} /\ r \notin Holding(w)
  BY <1>1, <1>5 DEF Holding, Holds, Live, Needs
<1>8. \A w : w # Needs(r) => Holding(w)' = Holding(w)
  BY <1>1, <1>5 DEF Holding, Holds, Live, Needs
<1>9. RoomInv'
  BY <1>6 DEF RoomInv, TakeConnection, TakePermit
<1>10. CASE TakeConnection(r)
  <2>1. Number(Holding("db")') = Number(Holding("db")) + 1 /\ Number(Holding("db")) \in Nat
    BY <1>7, <1>10, Finite, With DEF TakeConnection
  <2> QED
    BY <1>4, <1>8, <1>9, <1>10, <2>1, Limits DEF TakeConnection, PoolInv, PermitsInv
<1>11. CASE TakePermit(r)
  <2>1. Number(Holding("hash")') = Number(Holding("hash")) + 1 /\ Number(Holding("hash")) \in Nat
    BY <1>7, <1>11, Finite, With DEF TakePermit
  <2> QED
    BY <1>4, <1>8, <1>9, <1>11, <2>1, Limits DEF TakePermit, PoolInv, PermitsInv
<1> QED
  BY <1>10, <1>11

(* A statement or a hash that ends gives back what it held.                  *)
LEMMA Releases ==
    ASSUME TypeInv, RoomInv, PoolInv, PermitsInv, NEW r \in Reqs, StatementDone(r) \/ HashDone(r)
    PROVE  /\ req' \in [Reqs -> Request \cup {Unsent, Ended}]
           /\ RoomInv' /\ PoolInv' /\ PermitsInv'
<1>1. Live(r) /\ req[r] \in Request /\ req[r].pc = "hold" /\ Proceed(r)
  BY Lives DEF StatementDone, HashDone, Holds, Live
<1> DEFINE e == req[r].route
<1>2. e \in DOMAIN Routes
  BY <1>1 DEF Request
<1>3. /\ req' \in [Reqs -> Request \cup {Unsent, Ended}]
      /\ \A q \in Reqs \ {r} : req'[q] = req[q]
      /\ req'[r].pc # "hold"
      /\ \/ room' = room /\ req'[r].pc = "wait" /\ req'[r].route = e
         \/ room' = [room EXCEPT ![e] = room[e] + 1] /\ req'[r] = Ended
  <2>1. CASE req[r].step < Len(Routes[e])
    <3>1. [req[r] EXCEPT !.pc = "wait", !.step = req[r].step + 1] \in Request
      <4>1. \A q \in Request, n \in Nat : [q EXCEPT !.pc = "wait", !.step = n] \in Request
        BY DEF Request
      <4>2. req[r].step + 1 \in Nat
        BY <1>1 DEF Request
      <4> QED
        BY <1>1, <4>1, <4>2
    <3>2. req' = [req EXCEPT ![r] = [req[r] EXCEPT !.pc = "wait", !.step = req[r].step + 1]] /\ room' = room
      <4>1. req' = [req EXCEPT ![r].pc = "wait", ![r].step = @ + 1] /\ room' = room
        BY <1>1, <2>1 DEF Proceed
      <4> QED
        BY <1>1, <4>1 DEF TypeInv, Request
    <3> QED
      BY <1>1, <3>1, <3>2 DEF TypeInv, Request
  <2>2. CASE ~(req[r].step < Len(Routes[e]))
    BY <1>1, <2>2 DEF Proceed, TypeInv, Ended, RoomInv
  <2> QED
    BY <2>1, <2>2
<1>4. RoomInv'
  <2>1. CASE room' = room /\ req'[r].pc = "wait" /\ req'[r].route = e
    <3>1. \A f : InRoute(f)' = InRoute(f)
      BY <1>1, <1>3, <2>1 DEF InRoute, Live
    <3> QED
      BY <2>1, <3>1 DEF RoomInv
  <2>2. CASE room' = [room EXCEPT ![e] = room[e] + 1] /\ req'[r] = Ended
    <3>1. \A f : f # e => InRoute(f)' = InRoute(f)
      BY <1>1, <1>3, <2>2 DEF InRoute, Live, Ended
    <3>2. \A f : f = e => InRoute(f)' = InRoute(f) \ {r} /\ r \in InRoute(f)
      BY <1>1, <1>3, <2>2 DEF InRoute, Live, Ended
    <3>3. \A f : f = e => Number(InRoute(f)') = Number(InRoute(f)) - 1 /\ Number(InRoute(f)) \in Nat
      BY <3>2, Finite, With
    <3> QED
      BY <1>2, <2>2, <3>1, <3>3, Limits DEF RoomInv
  <2> QED
    BY <1>3, <2>1, <2>2
<1>5. \A w : w = Needs(r) => Holding(w)' = Holding(w) \ {r} /\ r \in Holding(w)
  BY <1>1, <1>3 DEF Holding, Holds, Live, Needs
<1>6. \A w : w # Needs(r) => Holding(w)' = Holding(w)
  BY <1>1, <1>3 DEF Holding, Holds, Live, Needs
<1>7. CASE StatementDone(r)
  <2>1. Number(Holding("db")') = Number(Holding("db")) - 1 /\ Number(Holding("db")) \in Nat
    BY <1>5, <1>7, Finite, With DEF StatementDone, Holds
  <2> QED
    BY <1>3, <1>4, <1>6, <1>7, <2>1, Limits DEF StatementDone, Holds, PoolInv, PermitsInv
<1>8. CASE HashDone(r)
  <2>1. Number(Holding("hash")') = Number(Holding("hash")) - 1 /\ Number(Holding("hash")) \in Nat
    BY <1>5, <1>8, Finite, With DEF HashDone, Holds
  <2> QED
    BY <1>3, <1>4, <1>6, <1>8, <2>1, Limits DEF HashDone, Holds, PoolInv, PermitsInv
<1> QED
  BY <1>7, <1>8

(* Admission: a place of the route is taken, or the request is shed.          *)
LEMMA Arriving ==
    ASSUME TypeInv, RoomInv, PoolInv, PermitsInv,
           NEW r \in Reqs, NEW c \in Conns, NEW e \in DOMAIN Routes, Arrive(r, c, e)
    PROVE  /\ req' \in [Reqs -> Request \cup {Unsent, Ended}]
           /\ RoomInv' /\ PoolInv' /\ PermitsInv'
<1> DEFINE new == [pc |-> "wait", conn |-> c, route |-> e, step |-> 1]
<1>1. new \in Request /\ ~Live(r)
  BY DEF Arrive, Request, Live, Unsent
<1>2. /\ \A q \in Reqs \ {r} : req'[q] = req[q]
      /\ \/ req'[r] = new /\ room[e] > 0 /\ room' = [room EXCEPT ![e] = room[e] - 1]
         \/ req'[r] = Ended /\ room' = room
      /\ req' \in [Reqs -> Request \cup {Unsent, Ended}]
  BY <1>1 DEF Arrive, TypeInv, RoomInv
<1>3. \A w : Holding(w)' = Holding(w)
  BY <1>1, <1>2 DEF Holding, Holds, Live, Needs, Ended
<1>4. CASE req'[r] = new /\ room[e] > 0 /\ room' = [room EXCEPT ![e] = room[e] - 1]
  <2>1. \A f : f # e => InRoute(f)' = InRoute(f)
    BY <1>1, <1>2, <1>4 DEF InRoute, Live
  <2>2. InRoute(e)' = InRoute(e) \cup {r} /\ r \notin InRoute(e)
    BY <1>1, <1>2, <1>4 DEF InRoute, Live
  <2>3. Number(InRoute(e)') = Number(InRoute(e)) + 1 /\ Number(InRoute(e)) \in Nat
    BY <2>2, Finite, With
  <2>4. RoomInv'
    BY <1>4, <2>1, <2>3, Limits DEF RoomInv
  <2> QED
    BY <1>2, <1>3, <2>4 DEF Arrive, PoolInv, PermitsInv
<1>5. CASE req'[r] = Ended /\ room' = room
  <2>1. \A f : InRoute(f)' = InRoute(f)
    BY <1>1, <1>2, <1>5 DEF InRoute, Live, Ended
  <2> QED
    BY <1>2, <1>3, <1>5, <2>1 DEF Arrive, RoomInv, PoolInv, PermitsInv
<1> QED
  BY <1>2, <1>4, <1>5

-----------------------------------------------------------------------------
(* The whole invariant.                                                       *)
AccountInv == TypeInv /\ SlotsInv /\ RoomInv /\ PoolInv /\ PermitsInv

(* A step that touches no request and no counter keeps the request accounts. *)
LEMMA Settled ==
    ASSUME AccountInv, UNCHANGED <<req, room, pool, permits>>
    PROVE  /\ req' \in [Reqs -> Request \cup {Unsent, Ended}]
           /\ RoomInv' /\ PoolInv' /\ PermitsInv'
<1>1. \A e, w : InRoute(e)' = InRoute(e) /\ Holding(w)' = Holding(w)
  BY DEF InRoute, Holding, Live, Holds, Needs
<1> QED
  BY <1>1 DEF AccountInv, TypeInv, RoomInv, PoolInv, PermitsInv

(* A step that touches no connection keeps the connection accounts.          *)
LEMMA Connected ==
    ASSUME AccountInv, UNCHANGED <<conn, slots>>
    PROVE  conn' \in [Conns -> {"out", "refused", "handshake", "open", "closed"}] /\ SlotsInv'
<1>1. UpSet' = UpSet
  BY DEF UpSet, Up
<1> QED
  BY <1>1 DEF AccountInv, TypeInv, SlotsInv

(* Every step keeps what is free plus what is held equal to each limit.      *)
LEMMA Counts == AccountInv /\ [Next]_vars => AccountInv'
<1> SUFFICES ASSUME AccountInv, [Next]_vars PROVE AccountInv'
  OBVIOUS
<1>1. TypeInv /\ SlotsInv /\ RoomInv /\ PoolInv /\ PermitsInv
  BY DEF AccountInv
<1>2. ASSUME NEW c \in Conns, Connect(c) PROVE AccountInv'
  <2>1. /\ conn' \in [Conns -> {"out", "refused", "handshake", "open", "closed"}]
        /\ \A d \in Conns \ {c} : conn'[d] = conn[d]
        /\ ~Up(c)
        /\ \/ Up(c)' /\ slots > 0 /\ slots' = slots - 1
           \/ ~Up(c)' /\ slots' = slots
    BY <1>1, <1>2 DEF Connect, Up, TypeInv
  <2>2. CASE Up(c)' /\ slots > 0 /\ slots' = slots - 1
    <3>1. UpSet' = UpSet \cup {c} /\ c \notin UpSet
      BY <2>1, <2>2 DEF UpSet, Up
    <3>2. Number(UpSet') = Number(UpSet) + 1 /\ Number(UpSet) \in Nat
      BY <3>1, Finite, With
    <3>3. SlotsInv'
      BY <1>1, <2>2, <3>2, Limits DEF SlotsInv
    <3> QED
      BY <1>1, <1>2, <2>1, <3>3, Settled DEF Connect, AccountInv, TypeInv
  <2>3. CASE ~Up(c)' /\ slots' = slots
    <3>1. UpSet' = UpSet
      BY <2>1, <2>3 DEF UpSet, Up
    <3> QED
      BY <1>1, <1>2, <2>1, <2>3, <3>1, Settled DEF Connect, AccountInv, TypeInv, SlotsInv
  <2> QED
    BY <2>1, <2>2, <2>3
<1>3. ASSUME NEW c \in Conns, Shake(c) PROVE AccountInv'
  <2>1. UpSet' = UpSet /\ conn' \in [Conns -> {"out", "refused", "handshake", "open", "closed"}]
    BY <1>1, <1>3 DEF Shake, UpSet, Up, TypeInv
  <2> QED
    BY <1>1, <1>3, <2>1, Settled DEF Shake, AccountInv, TypeInv, SlotsInv
<1>4. ASSUME NEW c \in Conns, HandshakeFails(c) \/ Expire(c) \/ Finish(c) PROVE AccountInv'
  BY <1>1, <1>4, HangingUp, Settled DEF HandshakeFails, Expire, Finish, AccountInv, TypeInv
<1>5. ASSUME NEW c \in Conns, Disconnect(c) PROVE AccountInv'
  <2>1. On(c) \in SUBSET Reqs /\ \A r \in On(c) : Live(r)
    BY DEF On
  <2> QED
    BY <1>1, <1>5, <2>1, HangingUp, Dropping DEF Disconnect, AccountInv, TypeInv
<1>6. CASE GraceOver
  <2>1. {c \in Conns : Up(c)} \in SUBSET Conns /\ {r \in Reqs : Live(r)} \in SUBSET Reqs
    OBVIOUS
  <2> QED
    BY <1>1, <1>6, <2>1, HangingUp, Dropping DEF GraceOver, AccountInv, TypeInv
<1>7. ASSUME NEW r \in Reqs, TimeOut(r) PROVE AccountInv'
  BY <1>1, <1>7, Dropping, Connected DEF TimeOut, AccountInv, TypeInv
<1>8. ASSUME NEW r \in Reqs, Step(r) PROVE AccountInv'
  <2>1. CASE TakeConnection(r) \/ TakePermit(r)
    BY <1>1, <2>1, Takes, Connected DEF TakeConnection, TakePermit, AccountInv, TypeInv
  <2>2. CASE StatementDone(r) \/ HashDone(r)
    BY <1>1, <2>2, Releases, Connected DEF StatementDone, HashDone, AccountInv, TypeInv
  <2>3. CASE Hashed(r)
    BY <1>1, <2>3, Settled, Connected DEF Hashed, AccountInv, TypeInv
  <2> QED
    BY <1>8, <2>1, <2>2, <2>3 DEF Step
<1>9. ASSUME NEW r \in Reqs, NEW c \in Conns, NEW e \in DOMAIN Routes, Arrive(r, c, e) PROVE AccountInv'
  BY <1>1, <1>9, Arriving, Connected DEF Arrive, AccountInv, TypeInv
<1>10. CASE Signal \/ Drained
  BY <1>1, <1>10, Settled, Connected DEF Signal, Drained, AccountInv, TypeInv
<1>11. CASE UNCHANGED vars
  BY <1>1, <1>11, Settled, Connected DEF vars, AccountInv, TypeInv
<1> QED
  BY <1>2, <1>3, <1>4, <1>5, <1>6, <1>7, <1>8, <1>9, <1>10, <1>11 DEF Next

(* Nobody is served without a connection that stands.                         *)
LEMMA Standing ==
    TypeInv /\ ServedOnLiveConnections /\ [Next]_vars => ServedOnLiveConnections'
<1> SUFFICES ASSUME TypeInv, ServedOnLiveConnections, [Next]_vars PROVE ServedOnLiveConnections'
  OBVIOUS
<1> DEFINE Served == \A r \in Reqs : Live(r)' => conn'[req'[r].conn] = "open" /\ phase' # "stopped"
           OneByOne == \A c \in Conns \ Http2 : Number(On(c)') <= 1
           Quit == phase' = "stopped" => \A c \in Conns : ~Up(c)'
<1> SUFFICES Served /\ OneByOne /\ Quit
  BY DEF ServedOnLiveConnections
<1> USE DEF TypeInv
<1>1. ASSUME \A r \in Reqs : Live(r)' => Live(r) /\ req'[r].conn = req[r].conn
      PROVE  OneByOne
  <2>1. \A c : On(c)' \subseteq On(c) /\ On(c) \subseteq Reqs
    BY <1>1 DEF On
  <2>2. \A c : IsFiniteSet(On(c)) /\ IsFiniteSet(On(c)')
    BY <2>1, Limits, FS_Subset
  <2>3. \A c : Number(On(c)') <= Number(On(c)) /\ Number(On(c)') \in Nat /\ Number(On(c)) \in Nat
    BY <2>1, <2>2, FS_Subset, FS_CardinalityType DEF Number
  <2> QED
    BY <2>3 DEF ServedOnLiveConnections
<1>2. ASSUME req' = req PROVE \A r \in Reqs : Live(r)' => Live(r) /\ req'[r].conn = req[r].conn
  BY <1>2 DEF Live
<1>3. ASSUME NEW S \in SUBSET Reqs, Drop(S)
      PROVE  \A r \in Reqs : Live(r)' => Live(r) /\ req'[r].conn = req[r].conn /\ r \notin S
  BY <1>3 DEF Drop, Live, Ended
<1>4. ASSUME NEW c \in Conns, Connect(c) \/ Shake(c) PROVE Served /\ OneByOne /\ Quit
  <2>1. req' = req /\ phase' = phase /\ (phase = "stopped" => \A d \in Conns : ~Up(d))
    BY <1>4 DEF Connect, Shake, ServedOnLiveConnections
  <2>2. \A d \in Conns : conn[d] = "open" => conn'[d] = "open"
    BY <1>4 DEF Connect, Shake
  <2>3. \A r \in Reqs : Live(r) => req[r].conn \in Conns
    BY Lives DEF Request
  <2>4. Served
    BY <2>1, <2>2, <2>3 DEF ServedOnLiveConnections, Live
  <2>5. phase # "stopped"
    BY <1>4, <2>1 DEF Connect, Shake, Up
  <2> QED
    BY <1>1, <1>2, <2>1, <2>4, <2>5
<1>5. ASSUME NEW c \in Conns, HandshakeFails(c) \/ Expire(c) \/ Finish(c)
      PROVE  Served /\ OneByOne /\ Quit
  <2>1. \A r \in Reqs : Live(r) => req[r].conn # c
    BY <1>5 DEF HandshakeFails, Expire, Finish, On, ServedOnLiveConnections
  <2>2. req' = req /\ phase' = phase /\ Hang({c})
    BY <1>5 DEF HandshakeFails, Expire, Finish
  <2>3. \A d \in Conns : conn'[d] = IF d = c THEN "closed" ELSE conn[d]
    BY <2>2 DEF Hang
  <2>4. \A r \in Reqs : Live(r) => req[r].conn \in Conns
    BY Lives DEF Request
  <2> QED
    BY <1>1, <1>2, <2>1, <2>2, <2>3, <2>4 DEF ServedOnLiveConnections, Live, Up
<1>6. ASSUME NEW c \in Conns, Disconnect(c) PROVE Served /\ OneByOne /\ Quit
  <2>1. On(c) \in SUBSET Reqs /\ Hang({c}) /\ Drop(On(c)) /\ phase' = phase
    BY <1>6 DEF On, Disconnect
  <2>2. \A d \in Conns : conn'[d] = IF d = c THEN "closed" ELSE conn[d]
    BY <2>1 DEF Hang
  <2>3. \A r \in Reqs : Live(r)' => Live(r) /\ req'[r].conn = req[r].conn /\ req[r].conn # c
    BY <1>3, <2>1 DEF On
  <2>4. \A r \in Reqs : Live(r) => req[r].conn \in Conns
    BY Lives DEF Request
  <2> QED
    BY <1>1, <2>1, <2>2, <2>3, <2>4 DEF ServedOnLiveConnections, Up
<1>7. ASSUME NEW r \in Reqs, NEW c \in Conns, NEW e \in DOMAIN Routes, Arrive(r, c, e)
      PROVE  Served /\ OneByOne /\ Quit
  <2>1. /\ phase = "up" /\ phase' = phase /\ conn[c] = "open" /\ conn' = conn
        /\ \A q \in Reqs \ {r} : req'[q] = req[q]
        /\ Live(r)' => req'[r].conn = c
    BY <1>7 DEF Arrive, Live, Ended
  <2>2. Served /\ Quit
    BY <2>1 DEF ServedOnLiveConnections, Live
  <2>3. ASSUME NEW d \in Conns \ Http2 PROVE Number(On(d)') <= 1
    <3>1. IsFiniteSet(On(d)) /\ IsFiniteSet(On(d)')
      BY Limits, FS_Subset DEF On
    <3>2. CASE d # c
      <4>1. On(d)' \subseteq On(d)
        BY <2>1, <3>2 DEF On, Live
      <4> QED
        BY <3>1, <4>1, FS_Subset, FS_CardinalityType DEF Number, ServedOnLiveConnections
    <3>3. CASE d = c
      <4>1. Number(On(d)) = 0
        BY <1>7, <3>1, <3>3, FS_CardinalityType DEF Arrive, Number
      <4>2. On(d) = {}
        BY <3>1, <4>1, FS_EmptySet DEF Number
      <4>3. On(d)' \subseteq {r}
        BY <2>1, <4>2 DEF On, Live
      <4>4. Number(On(d)') <= Cardinality({r}) /\ Cardinality({r}) = 1
        BY <4>3, FS_Singleton, FS_Subset DEF Number
      <4> QED
        BY <4>4
    <3> QED
      BY <3>2, <3>3
  <2> QED
    BY <2>2, <2>3
<1>8. ASSUME NEW r \in Reqs, Step(r) \/ TimeOut(r) PROVE Served /\ OneByOne /\ Quit
  <2>1. conn' = conn /\ phase' = phase
    BY <1>8 DEF Step, TakeConnection, TakePermit, Hashed, StatementDone, HashDone, TimeOut
  <2>2. \A q \in Reqs : Live(q)' => Live(q) /\ req'[q].conn = req[q].conn
    <3>1. CASE TimeOut(r)
      BY <1>3, <3>1 DEF TimeOut
    <3>2. CASE Hashed(r)
      BY <1>2, <3>2 DEF Hashed
    <3>3. CASE TakeConnection(r) \/ TakePermit(r)
      <4>1. Live(r) /\ req[r] \in Request /\ req' = [req EXCEPT ![r].pc = "hold"]
        BY <3>3, Lives DEF TakeConnection, TakePermit, Live
      <4> QED
        BY <4>1 DEF Live, Request
    <3>4. CASE StatementDone(r) \/ HashDone(r)
      <4>1. Live(r) /\ req[r] \in Request /\ Proceed(r)
        BY <3>4, Lives DEF StatementDone, HashDone, Holds, Live
      <4>2. \/ req' = [req EXCEPT ![r].pc = "wait", ![r].step = @ + 1]
            \/ req' = [req EXCEPT ![r] = Ended]
        BY <4>1 DEF Proceed
      <4> QED
        BY <4>1, <4>2 DEF Live, Request, Ended
    <3> QED
      BY <1>8, <3>1, <3>2, <3>3, <3>4 DEF Step
  <2> QED
    BY <1>1, <2>1, <2>2 DEF ServedOnLiveConnections, Up
<1>9. CASE Signal \/ Drained
  BY <1>1, <1>2, <1>9, Lives DEF Signal, Drained, ServedOnLiveConnections, Live, Up, Request
<1>10. CASE GraceOver
  <2>1. \A r \in Reqs : ~Live(r)'
    BY <1>3, <1>10 DEF GraceOver
  <2>2. \A c \in Conns : ~Up(c)'
    BY <1>10 DEF GraceOver, Hang, Up
  <2> QED
    BY <1>1, <2>1, <2>2
<1>11. CASE UNCHANGED vars
  BY <1>1, <1>2, <1>11 DEF vars, ServedOnLiveConnections, Live, Up
<1> QED
  BY <1>4, <1>5, <1>6, <1>7, <1>8, <1>9, <1>10, <1>11 DEF Next

-----------------------------------------------------------------------------
(* Initially nothing is held and every limit is free.                        *)
LEMMA Initially == Init => AccountInv /\ ServedOnLiveConnections
<1> SUFFICES ASSUME Init PROVE AccountInv /\ ServedOnLiveConnections
  OBVIOUS
<1>1. \A r \in Reqs : ~Live(r)
  BY DEF Init, Live, Unsent
<1>2. TypeInv /\ \A c \in Conns : ~Up(c)
  BY DEF Init, TypeInv, Up
<1>3. UpSet = {} /\ \A e, w, c : InRoute(e) = {} /\ Holding(w) = {} /\ On(c) = {}
  BY <1>1, <1>2 DEF UpSet, InRoute, Holding, On
<1>4. Number({}) = 0
  BY FS_EmptySet DEF Number
<1>5. SlotsInv /\ PoolInv /\ PermitsInv
  <2>1. Number(UpSet) = 0 /\ Number(Holding("db")) = 0 /\ Number(Holding("hash")) = 0
    BY <1>3, <1>4
  <2>2. slots = MaxConnections /\ pool = PoolSize /\ permits = HashSlots
    BY DEF Init
  <2> QED
    BY <2>1, <2>2, Limits DEF SlotsInv, PoolInv, PermitsInv
<1>6. RoomInv
  BY <1>3, <1>4, Limits DEF Init, RoomInv
<1>7. ServedOnLiveConnections
  BY <1>1, <1>2, <1>3, <1>4 DEF Init, ServedOnLiveConnections
<1> QED
  BY <1>2, <1>5, <1>6, <1>7 DEF AccountInv

(* In every reachable state each limit is fully accounted for, and only      *)
(* requests of live connections are served.                                  *)
THEOREM Invariant == Spec => [](AccountInv /\ ServedOnLiveConnections)
<1>1. AccountInv /\ ServedOnLiveConnections /\ [Next]_vars => (AccountInv /\ ServedOnLiveConnections)'
  BY Counts, Standing DEF AccountInv
<1> QED
  BY <1>1, Initially, PTL DEF Spec

(* No permit is ever lost or given back twice, whatever ends a connection or   *)
(* a request.                                                                  *)
THEOREM EveryPermitCounted == Spec => []PermitsAccounted
<1>1. AccountInv => PermitsAccounted
  BY DEF AccountInv, SlotsInv, RoomInv, PoolInv, PermitsInv, UpSet, InRoute, Holding, PermitsAccounted
<1> QED
  BY <1>1, Invariant, PTL

(* A request is served only on a connection that stands, one at a time on      *)
(* HTTP/1, and none once the process has stopped.                              *)
THEOREM NobodyServedAfterwards == Spec => []ServedOnLiveConnections
<1> QED
  BY Invariant, PTL

-----------------------------------------------------------------------------
(* Progress: what the fairness of the scheduler has to add is only that       *)
(* whoever can step does.                                                     *)
StepInv == \A r \in Reqs : Live(r) => req[r].step \in 1..Len(Routes[req[r].route])

(* The waits a request has still to take or to end.                           *)
Left(r) == 2 * (Len(Routes[req[r].route]) - req[r].step) + IF req[r].pc = "wait" THEN 1 ELSE 0

(* How a request changes: it is sent, it is over, or it gets nearer its end.  *)
Sent(r) == req[r] = Unsent /\ Live(r)' /\ req'[r].step = 1 /\ req'[r].route \in DOMAIN Routes
Nearer(r) ==
    /\ Live(r) /\ Live(r)' /\ req'[r].route = req[r].route
    /\ \/ req[r].pc = "wait" /\ req'[r].pc = "hold" /\ req'[r].step = req[r].step
       \/ /\ req[r].pc = "hold" /\ req'[r].pc = "wait" /\ req'[r].step = req[r].step + 1
          /\ req[r].step < Len(Routes[req[r].route])
Course(r) == req'[r] = req[r] \/ Sent(r) \/ Nearer(r) \/ (req[r] # Ended /\ req'[r] = Ended)

(* Every step leaves a request alone or moves it along its course.            *)
LEMMA Courses ==
    ASSUME TypeInv, [Next]_vars, NEW r \in Reqs
    PROVE  Course(r)
<1>1. ASSUME NEW S \in SUBSET Reqs, \A q \in S : Live(q), Drop(S) PROVE Course(r)
  <2>1. req'[r] = IF r \in S THEN Ended ELSE req[r]
    BY <1>1 DEF Drop
  <2>2. req[r] = Ended => ~Live(r)
    BY DEF Live, Ended
  <2> QED
    BY <1>1, <2>1, <2>2 DEF Course
<1>2. ASSUME NEW c \in Conns, NEW e \in DOMAIN Routes, NEW q \in Reqs, Arrive(q, c, e) PROVE Course(r)
  <2> DEFINE new == [pc |-> "wait", conn |-> c, route |-> e, step |-> 1]
  <2>1. req[q] = Unsent /\ Unsent # Ended
    BY <1>2 DEF Arrive, Unsent, Ended
  <2>2. req' = [req EXCEPT ![q] = new] \/ req' = [req EXCEPT ![q] = Ended]
    BY <1>2 DEF Arrive
  <2>3. CASE q # r
    BY <2>2, <2>3 DEF Course, TypeInv
  <2>4. CASE q = r /\ req' = [req EXCEPT ![q] = Ended]
    BY <2>1, <2>4 DEF Course, TypeInv
  <2>5. CASE q = r /\ req' = [req EXCEPT ![q] = new]
    <3>1. req'[r] = new
      BY <2>5 DEF TypeInv
    <3>2. Live(r)' /\ req'[r].step = 1 /\ req'[r].route \in DOMAIN Routes
      BY <3>1 DEF Live
    <3> QED
      BY <2>1, <2>5, <3>2 DEF Course, Sent
  <2> QED
    BY <2>2, <2>3, <2>4, <2>5
<1>3. ASSUME NEW q \in Reqs, TakeConnection(q) \/ TakePermit(q) PROVE Course(r)
  <2>1. Live(q) /\ req[q] \in Request /\ req[q].pc = "wait"
    BY <1>3, Lives DEF TakeConnection, TakePermit, Live
  <2>2. req' = [req EXCEPT ![q] = [req[q] EXCEPT !.pc = "hold"]]
    BY <1>3 DEF TakeConnection, TakePermit, TypeInv
  <2>3. CASE q # r
    BY <2>2, <2>3 DEF Course, TypeInv
  <2>4. CASE q = r
    <3>1. req'[r] = [req[r] EXCEPT !.pc = "hold"]
      BY <2>2, <2>4 DEF TypeInv
    <3>2. req'[r].pc = "hold" /\ req'[r].step = req[r].step /\ req'[r].route = req[r].route
      BY <2>1, <2>4, <3>1 DEF Request
    <3> QED
      BY <2>1, <2>4, <3>2 DEF Course, Nearer, Live
  <2> QED
    BY <2>3, <2>4
<1>4. ASSUME NEW q \in Reqs, StatementDone(q) \/ HashDone(q) PROVE Course(r)
  <2>1. Live(q) /\ req[q] \in Request /\ req[q].pc = "hold" /\ Proceed(q)
    BY <1>4, Lives DEF StatementDone, HashDone, Holds, Live
  <2> DEFINE more == req[q].step < Len(Routes[req[q].route])
             next == [req[q] EXCEPT !.pc = "wait", !.step = req[q].step + 1]
  <2>2. CASE more
    <3>1. req' = [req EXCEPT ![q] = next]
      <4>1. req' = [req EXCEPT ![q].pc = "wait", ![q].step = @ + 1]
        BY <2>1, <2>2 DEF Proceed
      <4> QED
        BY <2>1, <4>1 DEF TypeInv, Request
    <3>2. CASE q # r
      BY <3>1, <3>2 DEF Course, TypeInv
    <3>3. CASE q = r
      <4>1. req'[r] = next
        BY <3>1, <3>3 DEF TypeInv
      <4>2. req'[r].pc = "wait" /\ req'[r].step = req[r].step + 1 /\ req'[r].route = req[r].route
        BY <2>1, <3>3, <4>1 DEF Request
      <4> QED
        BY <2>1, <2>2, <3>3, <4>2 DEF Course, Nearer, Live
    <3> QED
      BY <3>2, <3>3
  <2>3. CASE ~more
    <3>1. req' = [req EXCEPT ![q] = Ended]
      BY <2>1, <2>3 DEF Proceed
    <3>2. req[q] # Ended
      BY <2>1 DEF Ended
    <3> QED
      BY <3>1, <3>2 DEF Course, TypeInv
  <2> QED
    BY <2>2, <2>3
<1>5. ASSUME req' = req PROVE Course(r)
  BY <1>5 DEF Course
<1>6. ASSUME NEW c \in Conns,
             Connect(c) \/ Shake(c) \/ HandshakeFails(c) \/ Expire(c) \/ Finish(c) PROVE Course(r)
  BY <1>5, <1>6 DEF Connect, Shake, HandshakeFails, Expire, Finish
<1>7. ASSUME NEW c \in Conns, Disconnect(c) PROVE Course(r)
  <2>1. On(c) \in SUBSET Reqs /\ (\A q \in On(c) : Live(q)) /\ Drop(On(c))
    BY <1>7 DEF On, Disconnect
  <2> QED
    BY <1>1, <2>1
<1>8. ASSUME NEW q \in Reqs, TimeOut(q) PROVE Course(r)
  <2>1. {q} \in SUBSET Reqs /\ (\A p \in {q} : Live(p)) /\ Drop({q})
    BY <1>8 DEF TimeOut
  <2> QED
    BY <1>1, <2>1
<1>9. CASE GraceOver
  <2> DEFINE S == {q \in Reqs : Live(q)}
  <2>1. S \in SUBSET Reqs /\ (\A q \in S : Live(q)) /\ Drop(S)
    BY <1>9 DEF GraceOver
  <2> HIDE DEF S
  <2> QED
    BY <1>1, <2>1
<1>10. CASE Signal \/ Drained \/ UNCHANGED vars \/ \E q \in Reqs : Hashed(q)
  BY <1>5, <1>10 DEF Signal, Drained, vars, Hashed
<1> QED
  BY <1>2, <1>3, <1>4, <1>6, <1>7, <1>8, <1>9, <1>10 DEF Next, Step

(* Each limit is at least one, so somebody holds what has run out.            *)
LEMMA Holders ==
    ASSUME TypeInv, PoolInv, PermitsInv
    PROVE  /\ pool > 0 \/ \E q \in Reqs : Live(q) /\ Holds(q, "db")
           /\ permits > 0 \/ \E q \in Reqs : Live(q) /\ Holds(q, "hash")
<1>1. PoolSize > 0 /\ PoolSize \in Nat /\ HashSlots > 0 /\ HashSlots \in Nat
  BY AdmissionAssumption DEF HashSlots
<1>2. \A w : Number(Holding(w)) # 0 => \E q \in Reqs : Live(q) /\ Holds(q, w)
  <2>1. Number({}) = 0
    BY FS_EmptySet DEF Number
  <2>2. \A w : Holding(w) # {} => \E q \in Reqs : Live(q) /\ Holds(q, w)
    BY DEF Holding
  <2> QED
    BY <2>1, <2>2
<1>3. pool = 0 => Number(Holding("db")) # 0
  <2>1. pool = 0 => Number(Holding("db")) = PoolSize
    BY Finite, FS_CardinalityType DEF PoolInv, Number
  <2> QED
    BY <1>1, <2>1
<1>4. permits = 0 => Number(Holding("hash")) # 0
  <2>1. permits = 0 => Number(Holding("hash")) = HashSlots
    BY Finite, FS_CardinalityType DEF PermitsInv, Number
  <2> QED
    BY <1>1, <2>1
<1> QED
  BY <1>2, <1>3, <1>4 DEF PoolInv, PermitsInv

(* The place a request has reached is one of its handler's waits.             *)
LEMMA Places == TypeInv /\ StepInv /\ [Next]_vars => StepInv'
<1> SUFFICES ASSUME TypeInv, StepInv, [Next]_vars, NEW r \in Reqs, Live(r)'
             PROVE  req'[r].step \in 1..Len(Routes[req'[r].route])
  BY DEF StepInv
<1>1. \A e \in DOMAIN Routes : Len(Routes[e]) \in Nat /\ Len(Routes[e]) > 0
  BY AdmissionAssumption
<1>2. CASE req'[r] = req[r]
  BY <1>2 DEF StepInv, Live
<1>3. CASE Sent(r)
  BY <1>1, <1>3 DEF Sent
<1>4. CASE Nearer(r)
  <2>1. req[r] \in Request /\ req[r].step \in 1..Len(Routes[req[r].route])
    BY <1>4, Lives DEF Nearer, StepInv
  <2>2. Len(Routes[req[r].route]) \in Nat
    BY <1>1, <2>1 DEF Request
  <2> QED
    BY <1>4, <2>1, <2>2 DEF Nearer
<1>5. req'[r] # Ended
  BY DEF Live, Ended
<1> QED
  BY <1>2, <1>3, <1>4, <1>5, Courses DEF Course

(* So it is in every reachable state.                                         *)
LEMMA InPlace == Spec => [](AccountInv /\ StepInv)
<1>1. Init => StepInv
  <2>1. Init => \A r \in Reqs : ~Live(r)
    BY DEF Init, Live, Unsent
  <2> QED
    BY <2>1 DEF StepInv
<1>2. AccountInv /\ StepInv /\ [Next]_vars => StepInv'
  BY Places DEF AccountInv
<1> QED
  BY <1>1, <1>2, Invariant, PTL DEF Spec

(* Nobody waits in a circle: whenever a request is under way, one that needs  *)
(* the same thing has it or can take it at once, and one that has it waits    *)
(* for nothing else.                                                          *)
Ready(q) ==
    \/ req[q].pc = "hold"
    \/ Needs(q) = "db" /\ pool > 0
    \/ Needs(q) = "hash" /\ permits > 0
SomebodyCanStep ==
    \A r \in Reqs : Live(r) => \E q \in Reqs : Live(q) /\ Needs(q) = Needs(r) /\ Ready(q)

(* No request waits while nobody who needs the same is able to step: the      *)
(* safety half of the answer every admitted request gets without a timeout.   *)
THEOREM NoCircularWait == Spec => []SomebodyCanStep
<1>1. ASSUME AccountInv, StepInv PROVE SomebodyCanStep
  <2> SUFFICES ASSUME NEW r \in Reqs, Live(r)
               PROVE  \E q \in Reqs : Live(q) /\ Needs(q) = Needs(r) /\ Ready(q)
    BY DEF SomebodyCanStep
  <2>1. req[r] \in Request /\ req[r].step \in 1..Len(Routes[req[r].route])
    BY <1>1, Lives DEF AccountInv, StepInv
  <2>2. Needs(r) \in {"db", "hash"}
    <3>1. Routes[req[r].route] \in Seq({"db", "hash"})
      BY <2>1, AdmissionAssumption DEF Request
    <3> QED
      BY <2>1, <3>1 DEF Needs
  <2>3. /\ pool > 0 \/ \E q \in Reqs : Live(q) /\ Holds(q, "db")
        /\ permits > 0 \/ \E q \in Reqs : Live(q) /\ Holds(q, "hash")
    BY <1>1, Holders DEF AccountInv
  <2>4. CASE Ready(r)
    BY <2>4
  <2>5. CASE ~Ready(r)
    <3>1. PICK q \in Reqs : Live(q) /\ Holds(q, Needs(r))
      BY <2>2, <2>3, <2>5 DEF Ready
    <3> QED
      BY <3>1 DEF Holds, Ready
  <2> QED
    BY <2>4, <2>5
<1> QED
  BY <1>1, InPlace, PTL

(* A request that is over stays over, and every step that moves one under     *)
(* way ends it or takes it nearer its end: it needs at most twice as many     *)
(* steps as its handler has waits.                                            *)
RequestsAdvance ==
    [][\A r \in Reqs :
          /\ req[r] = Ended => req'[r] = Ended
          /\ Live(r) => Left(r) \in 0..2 * Len(Routes[req[r].route])
          /\ Live(r) /\ req'[r] # req[r] => req'[r] = Ended \/ (Live(r)' /\ Left(r)' < Left(r))]_vars

(* A request takes a bounded number of steps of its own from its admission    *)
(* to its answer, whatever happens to the others.                             *)
THEOREM EveryStepCounts == Spec => RequestsAdvance
<1> DEFINE Forward(r) ==
          /\ req[r] = Ended => req'[r] = Ended
          /\ Live(r) => Left(r) \in 0..2 * Len(Routes[req[r].route])
          /\ Live(r) /\ req'[r] # req[r] => req'[r] = Ended \/ (Live(r)' /\ Left(r)' < Left(r))
<1>1. ASSUME AccountInv, StepInv, [Next]_vars, NEW r \in Reqs PROVE Forward(r)
  <2>1. Course(r)
    BY <1>1, Courses DEF AccountInv
  <2>2. CASE ~Live(r)
    <3>1. Unsent # Ended /\ (req[r] = Ended => ~Nearer(r) /\ ~Sent(r))
      BY <2>2 DEF Nearer, Sent, Unsent, Ended
    <3> QED
      BY <2>1, <2>2, <3>1 DEF Course
  <2>3. CASE Live(r)
    <3> DEFINE n == Len(Routes[req[r].route])
               s == req[r].step
    <3>1. req[r] \in Request /\ s \in 1..n /\ req[r] # Ended /\ req[r] # Unsent
      BY <1>1, <2>3, Lives DEF AccountInv, StepInv, Live, Ended, Unsent
    <3>2. n \in Nat
      BY <3>1, AdmissionAssumption DEF Request
    <3>3. Left(r) = 2 * (n - s) + IF req[r].pc = "wait" THEN 1 ELSE 0
      BY DEF Left
    <3>4. Left(r) \in 0..2 * n
      <4> HIDE DEF n, s
      <4> QED
        BY <3>1, <3>2, <3>3
    <3>5. ASSUME Nearer(r) PROVE Live(r)' /\ Left(r)' < Left(r)
      <4>1. Left(r)' = 2 * (n - req'[r].step) + IF req'[r].pc = "wait" THEN 1 ELSE 0
        BY <3>5 DEF Left, Nearer
      <4>2. \/ req[r].pc = "wait" /\ req'[r].pc = "hold" /\ req'[r].step = s
            \/ req[r].pc = "hold" /\ req'[r].pc = "wait" /\ req'[r].step = s + 1
        BY <3>5 DEF Nearer
      <4>3. Live(r)'
        BY <3>5 DEF Nearer
      <4> HIDE DEF n, s
      <4> QED
        BY <3>1, <3>2, <3>3, <4>1, <4>2, <4>3
    <3>6. ~Sent(r)
      BY <3>1 DEF Sent
    <3> QED
      BY <2>1, <3>1, <3>4, <3>5, <3>6 DEF Course
  <2> QED
    BY <2>2, <2>3
<1>2. AccountInv /\ StepInv /\ [Next]_vars => \A r \in Reqs : Forward(r)
  BY <1>1
<1> QED
  BY <1>2, InPlace, PTL DEF Spec, RequestsAdvance

=============================================================================
