------------------------------ MODULE Pipeline ------------------------------
(* What a request passes through: the pre-routing filters and the path        *)
(* canonicalisation (plugin/mod.rs, plugin/builtin, api/path.rs), the routes  *)
(* and the onion of layers around them (api/mod.rs, server.rs).  A path is    *)
(* the sequence of its segments, so <<"notes", "">> is /notes/ and            *)
(* <<"", "notes">> is //notes.  tower, tower-http and axum are external and   *)
(* appear as what their layers do to an answer.                               *)
EXTENDS Config, Sequences, SequencesExt

-----------------------------------------------------------------------------
(* Plugins resolved against the configuration (Registry::resolve).            *)

(* Mutant: the limiter may be switched off anywhere. *)
RateLimitOptional(env) == env.limiting => 0 \notin {env.authBurst, env.apiBurst}
(* One switch for both tiers, which production refuses to have off; a bucket  *)
(* of no slots is not a configuration. *)
RateLimitAccepts(env) ==
    /\ IsProduction(env) => env.limiting
    /\ env.limiting => 0 \notin {env.authBurst, env.apiBurst}
PathGuardAccepts(env) == env.pathGuard # "zero"
HostGuardAccepts(env) == "*" \notin env.hosts
CorsAccepts(env) == {"*", "garbled"} \cap env.origins = {}
PluginsAccept(env) ==
    RateLimitAccepts(env) /\ PathGuardAccepts(env) /\ HostGuardAccepts(env) /\ CorsAccepts(env)

(* What an embedder registers, by stage and in order: "filter" stands for the *)
(* pre-routing filters, and each of those panics.  A layer of a plugin is     *)
(* infallible, so it lets answers pass, drops what they carry, or panics.     *)
Stages == {"outer", "api", "credentials", "page", "filter"}
Plugged == {"pass", "strip", "panic"}
Registry == [Stages -> Seq(Plugged)]

(* The layers of one stage, outermost first: the built-in ones in the order   *)
(* of Registry::builtin, then what an embedder registered after them.         *)
Shipped(env, stage) ==
    CASE stage = "outer" -> (IF env.origins = {} THEN <<>> ELSE <<"cors">>) \o <<"request log">>
      [] stage \in {"api", "credentials"} -> IF env.limiting THEN <<"rate limit">> ELSE <<>>
      [] OTHER -> <<>>
Layers(env, extras, stage) == Shipped(env, stage) \o extras[stage]

-----------------------------------------------------------------------------
(* Above the router.                                                          *)

Strange(segment) == segment \in {".", "..", "%2e%2e", "back\\slash"}
PathAllowed(env, h) ==
    env.pathGuard = "on" => ~h.twice /\ \A k \in DOMAIN h.path : ~Strange(h.path[k])
HostAllowed(env, h) == env.hosts # {} => h.hosts \subseteq env.hosts  \* authority and Host
MethodAllowed(env, h) == h.method \in {"GET", "HEAD", "POST", "PUT", "DELETE", "OPTIONS"}
CarriesBody(method) == method \in {"POST", "PUT", "PATCH"}
BodyAllowed(env, h) ==
    (env.json /\ CarriesBody(h.method) /\ Len(h.path) > 1 /\ h.path[1] = "api") => h.body = "json"
(* RequestFilters::call: the first rejection answers, all of them with a 400; *)
(* the filters see the path as it was sent. *)
Filtered(env, h) ==
    ~(PathAllowed(env, h) /\ HostAllowed(env, h) /\ MethodAllowed(env, h) /\ BodyAllowed(env, h))

HasEmptySegment(path) == \E k \in 1..Len(path) - 1 : path[k] = ""
(* Mutant: empty segments are dropped instead of refused. *)
CanonicalCollapsed(path) == SelectSeq(path, LAMBDA segment : segment # "")
NotCanonical == <<"//">>
Canonical(path) ==
    IF HasEmptySegment(path) THEN NotCanonical
    ELSE IF Len(path) > 1 /\ Last(path) = "" THEN Front(path) ELSE path

-----------------------------------------------------------------------------
(* The router.                                                                *)

Endpoints ==
    [live     |-> [path |-> <<"health", "live">>, methods |-> {"GET", "HEAD"}, branch |-> "health"],
     login    |-> [path |-> <<"api", "v1", "auth", "login">>, methods |-> {"POST"}, branch |-> "credentials"],
     password |-> [path |-> <<"api", "v1", "auth", "password">>, methods |-> {"POST"}, branch |-> "api"],
     notes    |-> [path |-> <<"api", "v1", "notes">>, methods |-> {"GET", "HEAD", "POST"}, branch |-> "api"],
     note     |-> [path |-> <<"api", "v1", "notes", "{id}">>, methods |-> {"GET", "HEAD", "PUT", "DELETE"},
                   branch |-> "api"]]
MatchesPath(path, pattern) ==
    /\ Len(path) = Len(pattern)
    /\ \A k \in DOMAIN path : pattern[k] \in {path[k], "{id}"}
Matched(path) == {e \in DOMAIN Endpoints : MatchesPath(path, Endpoints[e].path)}
(* The fallbacks: JSON below /api/v1, the frontend or JSON elsewhere. *)
Branch(env, path) ==
    IF Matched(path) # {} THEN Endpoints[CHOOSE e \in Matched(path) : TRUE].branch
    ELSE IF Len(path) > 1 /\ path[1] = "api" /\ path[2] = "v1" THEN "unknown"
    ELSE IF env.pages THEN "page" ELSE "nowhere"
HandledBy(path, method) == {e \in Matched(path) : method \in Endpoints[e].methods}

(* The onion of one request, outermost first (build_router): hardening,       *)
(* Stage::Outer, the availability controls, and the branch with its stage.    *)
Hardening == <<"request id", "hardening", "catch panic">>
Controls == <<"handle error", "load shed", "timeout", "body limit">>
Inner(env, extras, branch) ==
    CASE branch \in {"credentials", "api"} -> <<"api headers">> \o Layers(env, extras, branch)
      [] branch \in {"health", "unknown"} -> <<"api headers">>
      [] branch = "page" -> Layers(env, extras, "page") \o <<"page headers">>
      [] OTHER -> <<>>
(* Mutant: the copy of the headers above the router is left out. *)
AboveBare == <<"request id">>
(* server.rs repeats two layers above the filters. *)
Above == <<"request id", "hardening">>
Onion(env, extras, branch) ==
    Above \o Hardening \o Layers(env, extras, "outer") \o Controls \o Inner(env, extras, branch)

(* What a layer makes of an answer on its way out.  An error is turned into a *)
(* response by HandleErrorLayer, a panic unwinds up to CatchPanicLayer.       *)
Answer(status) == [status |-> status, has |-> {}]
Outwards(layer, answer) ==
    IF answer.status = "panic" THEN IF layer = "catch panic" THEN Answer("500") ELSE answer
    ELSE IF answer.status = "overloaded" THEN IF layer = "handle error" THEN Answer("503") ELSE answer
    ELSE CASE layer = "request id" -> [answer EXCEPT !.has = @ \cup {"x-request-id"}]
           [] layer = "hardening" -> [answer EXCEPT !.has = @ \cup {"always"}]
           [] layer = "api headers" -> [answer EXCEPT !.has = @ \cup {"policy", "no-store"}]
           [] layer = "page headers" -> [answer EXCEPT !.has = @ \cup {"policy", "cache"}]
           [] layer = "strip" -> Answer(answer.status)
           [] OTHER -> answer
(* From the innermost layer out. *)
Unwound(layers, answer) ==
    LET out[k \in 1..Len(layers) + 1] ==
            IF k > Len(layers) THEN answer ELSE Outwards(layers[k], out[k + 1])
    IN  out[1]
=============================================================================
