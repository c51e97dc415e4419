------------------------------ MODULE Issuers ------------------------------
(* Access tokens across the instances and restarts of a deployment: the four *)
(* codecs behind TokenIssuer (src/security/jwt.rs, paseto.rs, opaque.rs),    *)
(* chosen by APP_TOKEN_FORMAT when a process starts (token.rs, state.rs).    *)
(* The instances share one database and have clocks of their own; sessions   *)
(* and their refresh tokens are the module Sessions.  Here any session may   *)
(* be issued a token at any time, also one that has been ended: a refresh    *)
(* that is past mark_used asks nobody.  Cryptography is external: a token    *)
(* opens with the key that sealed it and no other, and each library checks   *)
(* the claims it is told to.                                                 *)
EXTENDS Config, Integers

CONSTANTS Instances, Envs,   \* processes, the environments they are started in
          Tokens, Sessions,  \* access tokens, sessions
          Owner,             \* [session -> user]
          Ttl, Leeway,       \* lifetime of an access token, leeway of the JWT codec
          Drift,             \* how far apart the clocks of two instances may be
          MaxTime

ASSUME IssuersAssumption ==
    /\ {Ttl, Leeway, Drift, MaxTime} \subseteq Nat
    /\ Drift <= Leeway

VARIABLES server,            \* the environment each instance runs in, or Down
          skew,              \* how far ahead each clock is
          issued,            \* the tokens in circulation
          rows,              \* access_tokens
          erased,            \* history: the tokens an opaque issuer has revoked
          now

vars == <<server, skew, issued, rows, erased, now>>

Down == [format |-> "down"]
Unissued == [at |-> MaxTime + 1]
Up(i) == server[i] # Down
Clock(i) == now + skew[i]
Fmt(i) == Format(server[i])
Out(t) == issued[t] # Unissued

-----------------------------------------------------------------------------
(* The codecs.  A token carries what its issuer put in it.                    *)

(* JwtCodec::new, PasetoLocalCodec::new (the domain-separated digest),        *)
(* PasetoPublicCodec::new: the key that signs and the key that verifies.      *)
Signing(env) ==
    CASE Format(env) = "jwt" -> <<"secret", env.secret>>
      [] Format(env) = "local" -> <<"digest", env.secret>>
      [] Format(env) = "public" -> <<"pair", env.private>>
      [] OTHER -> <<"none">>
Verifying(env) == IF Format(env) = "public" THEN <<"pair", env.public>> ELSE Signing(env)

(* Claims, claims_for: who issued it, for whom, from when and until when; the *)
(* reference of an opaque token carries nothing.                              *)
Wire(t) ==
    LET k == issued[t] IN
    [format |-> Format(k.env), key |-> Signing(k.env), issuer |-> k.env.issuer,
     audience |-> k.env.audience, nbf |-> k.at + skew[k.by], exp |-> k.at + skew[k.by] + Ttl]

(* Mutants: validation without the audience; no allowance for drift; a cache. *)
AddressedToAnyone(env, w) == w.issuer = env.issuer
JwtVerifyStrict(env, w, clock) ==
    /\ w.format = "jwt" /\ w.key = Verifying(env)
    /\ w.issuer = env.issuer /\ w.audience = env.audience
    /\ w.nbf <= clock /\ clock <= w.exp
OpaqueVerifyCached(t, clock) == Wire(t).format = "opaque" /\ Wire(t).exp > clock

AddressedTo(env, w) == w.issuer = env.issuer /\ w.audience = env.audience
JwtVerify(env, w, clock) ==
    /\ w.format = "jwt" /\ w.key = Verifying(env) /\ AddressedTo(env, w)
    /\ w.nbf <= clock + Leeway /\ clock <= w.exp + Leeway
PasetoVerify(env, w, clock) ==
    /\ w.format = Format(env) /\ w.key = Verifying(env) /\ AddressedTo(env, w)
    /\ w.nbf <= clock /\ clock < w.exp
OpaqueVerify(t, clock) == \E row \in rows : row.token = t /\ row.expires > clock

(* TokenIssuer::verify, through the extractor of every authenticated route. *)
Honours(i, t) ==
    /\ Up(i) /\ Out(t)
    /\ CASE Fmt(i) = "jwt" -> JwtVerify(server[i], Wire(t), Clock(i))
         [] Fmt(i) = "opaque" -> OpaqueVerify(t, Clock(i))
         [] OTHER -> PasetoVerify(server[i], Wire(t), Clock(i))

-----------------------------------------------------------------------------
Init ==
    /\ server = [i \in Instances |-> Down]
    /\ skew \in [Instances -> 0..Drift]
    /\ issued = [t \in Tokens |-> Unissued]
    /\ rows = {} /\ erased = {} /\ now = 0

(* main: a configuration that is refused ends the process; otherwise          *)
(* issuer_for builds the codec of the format, for the life of the process.    *)
Start(i, env) ==
    /\ ~Up(i) /\ Accepted(env)
    /\ server' = [server EXCEPT ![i] = env]
    /\ UNCHANGED <<skew, issued, rows, erased, now>>
Stop(i) ==
    /\ Up(i) /\ server' = [server EXCEPT ![i] = Down]
    /\ UNCHANGED <<skew, issued, rows, erased, now>>

(* TokenIssuer::issue, of a login or of a refresh that is past mark_used.  It  *)
(* does not look whether the session was ended since.                         *)
Issue(i, t, s) ==
    /\ Up(i) /\ ~Out(t)
    /\ issued' = [issued EXCEPT ![t] = [at |-> now, by |-> i, env |-> server[i], session |-> s]]
    /\ rows' = IF Fmt(i) # "opaque" THEN rows
               ELSE rows \cup {[token |-> t, session |-> s, expires |-> Clock(i) + Ttl]}
    /\ UNCHANGED <<server, skew, erased, now>>

(* revoke_session, revoke_all_for_user, of the sessions S: the opaque issuer  *)
(* deletes the rows that are there; the default of the trait does nothing.    *)
OutOf(S) == {t \in Tokens : Out(t) /\ issued[t].session \in S}
End(i, S) ==
    /\ Up(i)
    /\ IF Fmt(i) = "opaque"
       THEN erased' = erased \cup OutOf(S) /\ rows' = {row \in rows : row.session \notin S}
       ELSE UNCHANGED <<erased, rows>>
    /\ UNCHANGED <<server, skew, issued, now>>
Logout(i, s) == End(i, {s})
EndAll(i, u) == End(i, {s \in Sessions : Owner[s] = u})

(* TokenJanitor over access_tokens, on whichever instance, in any format. *)
Sweep(i) ==
    /\ Up(i) /\ \E row \in rows : row.expires < Clock(i)
    /\ rows' = {row \in rows : row.expires >= Clock(i)}
    /\ UNCHANGED <<server, skew, issued, erased, now>>

Tick == now < MaxTime /\ now' = now + 1
        /\ UNCHANGED <<server, skew, issued, rows, erased>>

Next ==
    \/ \E i \in Instances : \/ \E env \in Envs : Start(i, env)
                            \/ Stop(i) \/ Sweep(i)
                            \/ \E s \in Sessions : Logout(i, s) \/ \E t \in Tokens : Issue(i, t, s)
                            \/ \E s \in Sessions : EndAll(i, Owner[s])
    \/ Tick

Spec == Init /\ [][Next]_vars

-----------------------------------------------------------------------------
(* Whether two environments are one deployment as far as a token can tell.   *)
SameDeployment(minter, reader) ==
    /\ Format(minter) = Format(reader)
    /\ Format(reader) # "opaque" =>
         /\ minter.issuer = reader.issuer /\ minter.audience = reader.audience
         /\ IF Format(reader) = "public" THEN minter.private = reader.public
                                         ELSE minter.secret = reader.secret

(* A token opens the API only where the format, the key, the issuer and the   *)
(* audience are those it was minted under - a change of APP_TOKEN_FORMAT or    *)
(* of a key fails closed while both kinds of instance run - and never longer   *)
(* after its issue than its lifetime, the leeway and the drift of the clocks.  *)
HonouredOnlyAsMinted ==
    \A i \in Instances, t \in Tokens : Honours(i, t) =>
        /\ SameDeployment(issued[t].env, server[i])
        /\ now <= issued[t].at + Ttl + (IF Fmt(i) = "jwt" THEN Leeway ELSE 0)
                                     + (IF i = issued[t].by THEN 0 ELSE Drift)

(* The lifetime advertised as expires_in is kept: until then the issuer that   *)
(* minted a token honours it, and with the JWT codec's leeway every instance   *)
(* of the deployment does although their clocks differ.  A stored token that    *)
(* was revoked is excepted, and the sweep of an instance whose clock is ahead   *)
(* takes up to that drift from its lifetime.                                    *)
AdvertisedLifetimeKept ==
    \A i \in Instances, t \in Tokens :
        (/\ Up(i) /\ Out(t) /\ SameDeployment(issued[t].env, server[i])
         /\ i = issued[t].by \/ Fmt(i) = "jwt"
         /\ Fmt(i) = "opaque" => t \notin erased
         /\ now < issued[t].at + Ttl - (IF Fmt(i) = "opaque" THEN Drift ELSE 0))
        => Honours(i, t)

(* A stored token that was out when an opaque issuer ended its session is      *)
(* never honoured again, by no instance, whatever was restarted in whichever   *)
(* format in between.  What a refresh already under way issues after that is a  *)
(* row of its own, and is honoured.                                            *)
StoredRevocationHolds ==
    \A i \in Instances, t \in erased :
        Format(issued[t].env) = "opaque" => ~Honours(i, t)
=============================================================================
