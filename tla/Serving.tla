------------------------------ MODULE Serving ------------------------------
(* One process from its environment to its last answer: the start-up of      *)
(* main.rs and server.rs, each step of which may refuse to go on, and the    *)
(* requests of several clients through the module Pipeline.  What a handler  *)
(* does is the business of the other modules: here it answers, fails, panics *)
(* or is late.  The governor's buckets are external: so many requests of a   *)
(* client pass, and a slot comes back with time.                             *)
EXTENDS Pipeline

CONSTANTS Envs, Registries,   \* environments, plugins of an embedder
          Reqs, Heads,        \* requests, the heads they may have
          MaxRefills          \* bound on slots given back

\* What is read of the head of a request.
Request == [method : STRING, path : Seq(STRING), body : STRING, hosts : SUBSET STRING,
          twice : BOOLEAN, peer : STRING, claims : STRING]
ASSUME HeadsAssumption == Heads \subseteq Request /\ \A h \in Heads : h.path # <<>>
ASSUME ServingAssumption ==
    /\ IsFiniteSet(Reqs) /\ MaxRefills \in Nat /\ Registries \subseteq Registry
    /\ \A e \in Envs : e.authBurst \in Nat /\ e.apiBurst \in Nat

VARIABLES phase,              \* of the process
          env, extras,        \* its configuration
          req,                \* the requests
          spent, refills      \* slots taken in each bucket, given back in all

vars == <<phase, env, extras, req, spent, refills>>
config == <<env, extras>>

Phases == <<"started", "configured", "connected", "seeded", "bound", "resolved", "serving">>
Unsent == [pc |-> "unsent"]
Peers == {h.peer : h \in Heads} \cup {h.claims : h \in Heads}
Tiers == {"credentials", "api"}
Burst(tier) == IF tier = "api" THEN env.apiBurst ELSE env.authBurst

Init ==
    /\ phase = "started" /\ env \in Envs /\ extras \in Registries
    /\ req = [r \in Reqs |-> Unsent]
    /\ spent = [b \in Tiers \X Peers |-> 0] /\ refills = 0

-----------------------------------------------------------------------------
(* Start-up: each step goes on to the next or ends the process.               *)
Step(from, to, holds) ==
    /\ phase = from
    /\ phase' = IF holds THEN to ELSE "refused"
    /\ UNCHANGED <<config, req, spent, refills>>
ReadConfig == Step("started", "configured", Accepted(env))
Connect == \E reachable \in BOOLEAN : Step("configured", "connected", reachable)
Bootstrap == \E seeded \in BOOLEAN : Step("connected", "seeded", env.bootstrap = "none" \/ seeded)
Bind == \E free \in BOOLEAN : Step("seeded", "bound", free)
Resolve == Step("bound", "resolved", PluginsAccept(env))
LoadTls == \E readable \in BOOLEAN : Step("resolved", "serving", env.tls = {} \/ readable)

-----------------------------------------------------------------------------
(* Requests.                                                                  *)

(* Mutant: the client's word for its address, whoever said it. *)
ClaimedKey(h) == h.claims
(* The key extractor: the socket's address, or the forwarded one behind a     *)
(* proxy that is declared to be trusted. *)
KeyOf(h) == IF env.trust THEN h.claims ELSE h.peer

(* Layers that answer by themselves on the way in. *)
Stops(layer, h, branch, mishap) ==
    \/ layer = "cors" /\ h.method = "OPTIONS"
    \/ layer = "load shed" /\ mishap = "overloaded"
    \/ layer = "body limit" /\ mishap = "too large"
    \/ layer = "rate limit" /\ spent[branch, KeyOf(h)] >= Burst(branch)
    \/ layer = "panic"
StopAnswer(layer) ==
    Answer(CASE layer = "cors" -> "200" [] layer = "load shed" -> "overloaded"
             [] layer = "body limit" -> "413" [] layer = "rate limit" -> "429" [] OTHER -> "panic")

Answered(r, h, answer) ==
    req' = [req EXCEPT ![r] = [pc |-> IF answer.status = "panic" THEN "dropped" ELSE "answered",
                               head |-> h, ran |-> "none", status |-> answer.status, has |-> answer.has]]

(* A filter rejects it, or a filter of an embedder panics above every layer   *)
(* that could catch it; the path has an empty segment. *)
Reject(r, h) ==
    /\ phase = "serving" /\ req[r] = Unsent
    /\ \/ Filtered(env, h) /\ Answered(r, h, Unwound(Above, Answer("400")))
       \/ /\ ~Filtered(env, h) /\ extras["filter"] # <<>>
          /\ Answered(r, h, Unwound(Above, Answer("panic")))
       \/ /\ ~Filtered(env, h) /\ extras["filter"] = <<>>
          /\ Canonical(h.path) = NotCanonical
          /\ Answered(r, h, Unwound(Above, Answer("404")))
    /\ UNCHANGED <<phase, config, spent, refills>>

(* It is routed and goes inwards until a layer stops it or a handler has it. *)
Route(r, h, mishap) ==
    LET path == Canonical(h.path)
        branch == Branch(env, path)
        onion == Onion(env, extras, branch)
        stops == {k \in DOMAIN onion : Stops(onion[k], h, branch, mishap)}
        depth == IF stops = {} THEN Len(onion) + 1 ELSE CHOOSE k \in stops : \A l \in stops : k <= l
    IN
    /\ phase = "serving" /\ req[r] = Unsent /\ ~Filtered(env, h) /\ path # NotCanonical
    /\ extras["filter"] = <<>>
    /\ IF stops # {}
       THEN Answered(r, h, Unwound(SubSeq(onion, 1, depth - 1), StopAnswer(onion[depth])))
       ELSE IF HandledBy(path, h.method) # {}
       THEN req' = [req EXCEPT ![r] = [pc |-> "handling", head |-> h, path |-> path, branch |-> branch]]
       ELSE Answered(r, h, Unwound(onion, Answer(
               CASE Matched(path) # {} -> "405"
                 [] branch = "page" -> IF h.method \in {"GET", "HEAD"} THEN "200" ELSE "405"
                 [] OTHER -> "404")))
    /\ spent' = [b \in DOMAIN spent |-> spent[b] +
                    Cardinality({k \in 1..depth - 1 : onion[k] = "rate limit" /\ b = <<branch, KeyOf(h)>>})]
    /\ UNCHANGED <<phase, config, refills>>

(* The handler answers, fails or panics; the timeout answers for a late one. *)
Finish(r, outcome) ==
    LET onion == Onion(env, extras, req[r].branch)
        late == CHOOSE k \in DOMAIN onion : onion[k] = "timeout"
        answer == IF outcome = "408" THEN Unwound(SubSeq(onion, 1, late - 1), Answer("408"))
                  ELSE Unwound(onion, Answer(outcome))
    IN
    /\ req[r].pc = "handling"
    /\ req' = [req EXCEPT ![r] = [pc |-> "answered", head |-> [req[r].head EXCEPT !.path = req[r].path],
                                  ran |-> req[r].branch, status |-> answer.status, has |-> answer.has]]
    /\ UNCHANGED <<phase, config, spent, refills>>

Replenish(b) ==
    /\ spent[b] > 0 /\ refills < MaxRefills
    /\ spent' = [spent EXCEPT ![b] = @ - 1] /\ refills' = refills + 1
    /\ UNCHANGED <<phase, config, req>>

Next ==
    \/ ReadConfig \/ Connect \/ Bootstrap \/ Bind \/ Resolve \/ LoadTls
    \/ \E r \in Reqs, h \in Heads : \/ Reject(r, h)
                                    \/ \E m \in {"none", "overloaded", "too large"} : Route(r, h, m)
    \/ \E r \in Reqs, o \in {"200", "400", "500", "panic", "408"} : Finish(r, o)
    \/ \E b \in Tiers \X Peers : Replenish(b)

Spec == Init /\ [][Next]_vars

-----------------------------------------------------------------------------
Done(r) == req[r].pc = "answered"
Reached(r) == IF Done(r) THEN req[r].ran ELSE IF req[r].pc = "handling" THEN req[r].branch ELSE "none"

(* Every request is answered, and every answer carries the request id and the *)
(* headers that belong on all of them: a guard's rejection, the 404 of a path *)
(* that is not canonical, a shed or late request, a panic of a handler or of  *)
(* a plugin, and whatever a plugin at any stage has stripped.  Only a panic   *)
(* of an embedder's filter, above every layer, drops the connection.          *)
EveryAnswerHardened ==
    \A r \in Reqs :
        /\ Done(r) => {"x-request-id", "always"} \subseteq req[r].has /\ req[r].status # "overloaded"
        /\ req[r].pc = "dropped" => extras["filter"] # <<>>

(* The filters judge the path that was sent and the router takes the canonical *)
(* one: what reached a handler would have passed every guard under the path it *)
(* was routed by, and has exactly one spelling.                                *)
GuardsBindHandlers ==
    \A r \in Reqs : (Done(r) /\ req[r].ran # "none") =>
        ~Filtered(env, req[r].head) /\ Canonical(req[r].head.path) = req[r].head.path

(* No client gets more calls of the credential handlers than its bucket and    *)
(* the slots given back, whatever it claims its address to be and whatever the *)
(* rest of the API spends; behind a trusted proxy the claim is the client.     *)
CredentialWorkBounded ==
    env.limiting => \A p \in Peers :
        Cardinality({r \in Reqs : /\ Reached(r) = "credentials"
                                 /\ p = IF env.trust THEN req[r].head.claims ELSE req[r].head.peer})
          <= env.authBurst + refills

(* A process that serves has passed every refusal of the start-up: production  *)
(* is served over TLS with both limiters in place, no setting is a wildcard,   *)
(* and a limiter that is in place lets somebody pass.                          *)
OnlyVettedServes ==
    phase = "serving" =>
        /\ IsProduction(env) =>
              /\ env.tls = {"cert", "key"}
              /\ \A tier \in Tiers : "rate limit" \in ToSet(Layers(env, extras, tier))
        /\ "*" \notin env.origins \cup env.hosts /\ env.secret \notin {"unset", "short"}
        /\ \A tier \in Tiers : env.limiting => Burst(tier) > 0

(* What README.md says of every response, those made above the router         *)
(* included: it carries a content security policy.                            *)
PolicyOnEveryAnswer == \A r \in Reqs : Done(r) => "policy" \in req[r].has
=============================================================================
