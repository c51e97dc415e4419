----------------------------- MODULE Admission -----------------------------
(* What the server admits and what it holds on to: connections (net.rs,      *)
(* server.rs), requests in flight (the `controls' of api/mod.rs), password   *)
(* hashes (security/password.rs), database connections (db.rs), and the      *)
(* shutdown of main.rs.  A handler is the sequence of waits its service      *)
(* makes: a statement on a pooled connection, or a hash under a permit.      *)
(* hyper, axum and tower are external and modelled from how they are set up: *)
(* Router::layer wraps every route by itself, so each route has a limit of   *)
(* its own, and a dropped connection drops the requests on it.               *)
EXTENDS Integers, Sequences, FiniteSets

CONSTANTS Conns, Http2,       \* connections, those that speak HTTP/2
          Reqs,               \* requests
          Routes,             \* [route -> the waits of its handler]
          Tls,                \* a certificate is configured
          MaxConnections, MaxConcurrency, MaxStreams, MaxHashes, PoolSize

ASSUME AdmissionAssumption ==
    /\ IsFiniteSet(Conns) /\ IsFiniteSet(Reqs) /\ Http2 \subseteq Conns /\ Tls \in BOOLEAN
    /\ \A e \in DOMAIN Routes : Routes[e] \in Seq({"db", "hash"}) /\ Len(Routes[e]) > 0
    /\ {MaxConnections, MaxConcurrency, MaxStreams, PoolSize} \subseteq Nat \ {0}
    /\ MaxHashes \in Nat

VARIABLES phase,               \* of the process
          conn, slots,         \* connections, permits of ConnectionLimitAcceptor
          req, room,           \* requests, permits of each route
          pool,                \* idle database connections
          permits, tasks       \* of Argon2Hasher, blocking tasks that hash

vars == <<phase, conn, slots, req, room, pool, permits, tasks>>

HashSlots == IF MaxHashes > 1 THEN MaxHashes ELSE 1     \* Argon2Hasher::new
Unsent == [pc |-> "unsent"]
Ended == [pc |-> "ended"]
Live(r) == req[r].pc \in {"wait", "hold"}
Needs(r) == Routes[req[r].route][req[r].step]
Holds(r, what) == req[r].pc = "hold" /\ Needs(r) = what
Up(c) == conn[c] \in {"handshake", "open"}
On(c) == {r \in Reqs : Live(r) /\ req[r].conn = c}
Number(S) == Cardinality(S)

Init ==
    /\ phase = "up" /\ conn = [c \in Conns |-> "out"] /\ slots = MaxConnections
    /\ req = [r \in Reqs |-> Unsent] /\ room = [e \in DOMAIN Routes |-> MaxConcurrency]
    /\ pool = PoolSize /\ permits = HashSlots /\ tasks = {}

-----------------------------------------------------------------------------
(* Connections.                                                               *)

(* accept: a slot or an immediate refusal, before a byte is read. *)
Connect(c) ==
    /\ phase = "up" /\ conn[c] = "out"
    /\ \/ slots > 0 /\ slots' = slots - 1
          /\ conn' = [conn EXCEPT ![c] = IF Tls THEN "handshake" ELSE "open"]
       \/ slots = 0 /\ UNCHANGED slots /\ conn' = [conn EXCEPT ![c] = "refused"]
    /\ UNCHANGED <<phase, req, room, pool, permits, tasks>>
Shake(c) ==
    /\ conn[c] = "handshake" /\ conn' = [conn EXCEPT ![c] = "open"]
    /\ UNCHANGED <<phase, slots, req, room, pool, permits, tasks>>

(* Mutant of Drop: the hashing permit is forgotten. *)
DropForgetsPermit(S) ==
    /\ req' = [r \in Reqs |-> IF r \in S THEN Ended ELSE req[r]]
    /\ room' = [e \in DOMAIN Routes |-> room[e] + Number({r \in S : req[r].route = e})]
    /\ pool' = pool + Number({r \in S : Holds(r, "db")})
    /\ UNCHANGED <<permits, tasks>>
(* The requests of S are dropped: what each holds goes back, the blocking     *)
(* task of a hash goes on.                                                    *)
Drop(S) ==
    /\ req' = [r \in Reqs |-> IF r \in S THEN Ended ELSE req[r]]
    /\ room' = [e \in DOMAIN Routes |-> room[e] + Number({r \in S : req[r].route = e})]
    /\ pool' = pool + Number({r \in S : Holds(r, "db")})
    /\ permits' = permits + Number({r \in S : Holds(r, "hash")})
    /\ UNCHANGED tasks

(* GuardedStream: the slot comes back when the stream is dropped, on whichever *)
(* path; a handshake that fails or times out drops it as well.                 *)
Hang(C) ==
    /\ conn' = [c \in Conns |-> IF c \in C THEN "closed" ELSE conn[c]]
    /\ slots' = slots + Number({c \in C : Up(c)})
(* Mutants: a handshake without a timeout, a handler that outlives its connection. *)
HandshakeWaits(c) == FALSE /\ UNCHANGED vars
DisconnectUnnoticed(c) ==
    /\ conn[c] = "open" /\ Hang({c})
    /\ UNCHANGED <<phase, req, room, pool, permits, tasks>>
HandshakeFails(c) ==
    /\ conn[c] = "handshake" /\ Hang({c})
    /\ UNCHANGED <<phase, req, room, pool, permits, tasks>>
Disconnect(c) ==
    /\ conn[c] = "open" /\ Hang({c}) /\ Drop(On(c))
    /\ UNCHANGED phase
(* apply_deadlines: on HTTP/1 the headers of the next request must arrive in   *)
(* time; on HTTP/2 only an unresponsive peer is dropped (a Disconnect).        *)
Expire(c) ==
    /\ conn[c] = "open" /\ c \notin Http2 /\ On(c) = {} /\ Hang({c})
    /\ UNCHANGED <<phase, req, room, pool, permits, tasks>>

-----------------------------------------------------------------------------
(* Requests.                                                                  *)

(* load_shed over concurrency_limit: in, or 503 at once. *)
Arrive(r, c, e) ==
    /\ phase = "up" /\ req[r] = Unsent /\ conn[c] = "open"
    /\ Number(On(c)) < IF c \in Http2 THEN MaxStreams ELSE 1
    /\ \/ room[e] > 0 /\ room' = [room EXCEPT ![e] = @ - 1]
          /\ req' = [req EXCEPT ![r] = [pc |-> "wait", conn |-> c, route |-> e, step |-> 1]]
       \/ room[e] = 0 /\ UNCHANGED room /\ req' = [req EXCEPT ![r] = Ended]
    /\ UNCHANGED <<phase, conn, slots, pool, permits, tasks>>

(* A pooled connection for one statement. *)
TakeConnection(r) ==
    /\ req[r].pc = "wait" /\ Needs(r) = "db" /\ pool > 0
    /\ pool' = pool - 1 /\ req' = [req EXCEPT ![r].pc = "hold"]
    /\ UNCHANGED <<phase, conn, slots, room, permits, tasks>>
(* Argon2Hasher::hash, verify: the permit, then the blocking task. *)
TakePermit(r) ==
    /\ req[r].pc = "wait" /\ Needs(r) = "hash" /\ permits > 0
    /\ permits' = permits - 1 /\ tasks' = tasks \cup {r}
    /\ req' = [req EXCEPT ![r].pc = "hold"]
    /\ UNCHANGED <<phase, conn, slots, room, pool>>
Hashed(r) ==
    /\ r \in tasks /\ tasks' = tasks \ {r}
    /\ UNCHANGED <<phase, conn, slots, req, room, pool, permits>>

(* The next wait of the handler, or its answer and its place in the route.    *)
Proceed(r) ==
    IF req[r].step < Len(Routes[req[r].route])
    THEN /\ req' = [req EXCEPT ![r].pc = "wait", ![r].step = @ + 1] /\ UNCHANGED room
    ELSE /\ req' = [req EXCEPT ![r] = Ended]
         /\ room' = [room EXCEPT ![req[r].route] = @ + 1]
(* Mutant: the connection is kept until the handler ends. *)
StatementKeepsConnection(r) ==
    /\ Holds(r, "db") /\ Proceed(r)
    /\ pool' = IF req'[r] = Ended THEN pool + 1 ELSE pool
    /\ UNCHANGED <<phase, conn, slots, permits, tasks>>
StatementDone(r) ==
    /\ Holds(r, "db") /\ pool' = pool + 1 /\ Proceed(r)
    /\ UNCHANGED <<phase, conn, slots, permits, tasks>>
HashDone(r) ==
    /\ Holds(r, "hash") /\ r \notin tasks /\ permits' = permits + 1 /\ Proceed(r)
    /\ UNCHANGED <<phase, conn, slots, pool, tasks>>

(* The request timeout, the pool's acquire timeout, an error answer.          *)
TimeOut(r) == Live(r) /\ Drop({r}) /\ UNCHANGED <<phase, conn, slots>>

-----------------------------------------------------------------------------
(* shutdown_signal: no more connections or requests, those in flight may      *)
(* finish, and when the grace is over the rest is cut off.                     *)
Signal ==
    /\ phase = "up" /\ phase' = "draining"
    /\ UNCHANGED <<conn, slots, req, room, pool, permits, tasks>>
Finish(c) ==
    /\ phase = "draining" /\ conn[c] = "open" /\ On(c) = {} /\ Hang({c})
    /\ UNCHANGED <<phase, req, room, pool, permits, tasks>>
Drained ==
    /\ phase = "draining" /\ \A c \in Conns : ~Up(c)
    /\ phase' = "stopped"
    /\ UNCHANGED <<conn, slots, req, room, pool, permits, tasks>>
(* Mutant: no grace, every connection is waited for. *)
GraceUnbounded ==
    /\ phase = "draining" /\ \A c \in Conns : ~Up(c) /\ phase' = "stopped"
    /\ UNCHANGED <<conn, slots, req, room, pool, permits, tasks>>
GraceOver ==
    /\ phase = "draining" /\ phase' = "stopped"
    /\ Hang({c \in Conns : Up(c)}) /\ Drop({r \in Reqs : Live(r)})

Step(r) == TakeConnection(r) \/ TakePermit(r) \/ Hashed(r) \/ StatementDone(r) \/ HashDone(r)
Next ==
    \/ \E c \in Conns :
        \/ Connect(c) \/ Shake(c) \/ HandshakeFails(c) \/ Disconnect(c) \/ Expire(c) \/ Finish(c)
        \/ \E r \in Reqs, e \in DOMAIN Routes : Arrive(r, c, e)
    \/ \E r \in Reqs : Step(r) \/ TimeOut(r)
    \/ Signal \/ Drained \/ GraceOver

Spec == Init /\ [][Next]_vars

(* tokio's semaphore and the pools are first come, first served; statements   *)
(* and hashes end; the timers of the handshake, of the headers and of the     *)
(* grace go off.  No timeout of a request is assumed to.                      *)
FairSpec ==
    /\ Spec /\ WF_vars(GraceOver)
    /\ \A c \in Conns : WF_vars(HandshakeFails(c) \/ Expire(c))
    /\ \A r \in Reqs : SF_vars(Step(r))

-----------------------------------------------------------------------------
(* Every permit is either free or held by somebody who is still there: no     *)
(* path - refusal, failed handshake, disconnect, timeout, shed, cut off -     *)
(* loses one or returns one twice.                                            *)
PermitsAccounted ==
    /\ slots + Number({c \in Conns : Up(c)}) = MaxConnections
    /\ \A e \in DOMAIN Routes :
        room[e] + Number({r \in Reqs : Live(r) /\ req[r].route = e}) = MaxConcurrency
    /\ pool + Number({r \in Reqs : Live(r) /\ Holds(r, "db")}) = PoolSize
    /\ permits + Number({r \in Reqs : Live(r) /\ Holds(r, "hash")}) = HashSlots
    /\ \A n \in {slots, pool, permits} \cup {room[e] : e \in DOMAIN Routes} : n >= 0

(* A request is served only while its connection stands, one at a time on      *)
(* HTTP/1, and nothing is served any more once the process has stopped.        *)
ServedOnLiveConnections ==
    /\ \A r \in Reqs : Live(r) => conn[req[r].conn] = "open" /\ phase # "stopped"
    /\ \A c \in Conns \ Http2 : Number(On(c)) <= 1
    /\ phase = "stopped" => \A c \in Conns : ~Up(c)

(* Every admitted request is answered although permits and pooled connections *)
(* are scarce, without the help of any timeout: nobody keeps one kind while   *)
(* waiting for the other.                                                     *)
EveryRequestEnds == \A r \in Reqs : Live(r) ~> req[r] = Ended

(* No HTTP/1 connection is held for ever, and a shutdown ends the process.    *)
ConnectionsEnd == \A c \in Conns \ Http2 : Up(c) ~> ~Up(c)
ShutdownEnds == phase = "draining" ~> phase = "stopped"

(* The comment at Argon2Hasher::new: `limit' is the number of hashes allowed  *)
(* to run at once.                                                            *)
HashesBounded == Cardinality(tasks) <= HashSlots
=============================================================================
