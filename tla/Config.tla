------------------------------- MODULE Config -------------------------------
(* src/config.rs: what AppConfig::from_env makes of an environment, and with *)
(* what it refuses to start.  An environment is a record of what was set;    *)
(* "unset" takes the default of the source, a value that does not parse is   *)
(* "garbled", and a number is abstracted to whether it parses.               *)
EXTENDS Naturals, FiniteSets

CONSTANT Compiled          \* the backends this binary carries a driver for

Environment == [development |-> {"unset", "dev", "development", "local"},
                production |-> {"prod", "production"}]
TokenFormat == [jwt |-> {"unset", "jwt"},
                local |-> {"paseto-local", "v4.local"},
                public |-> {"paseto-public", "v4.public"},
                opaque |-> {"opaque", "reference"}]
Backend == [sqlite |-> {"unset", "sqlite"}, postgres |-> {"postgres", "postgresql"},
            mysql |-> {"mysql", "mariadb"}, mongodb |-> {"mongodb", "mongodb+srv"}]

(* FromStr of the three enumerations: one of the accepted spellings. *)
Parses(spellings, raw) == \E v \in DOMAIN spellings : raw \in spellings[v]
Parsed(spellings, raw) == CHOOSE v \in DOMAIN spellings : raw \in spellings[v]

IsProduction(env) == Parsed(Environment, env.environment) = "production"
Format(env) == Parsed(TokenFormat, env.format)
NeedsKeyPair(format) == format = "public"

(* ServerConfig, RateLimitConfig and the durations: numbers that parse,      *)
(* whatever their value; there is no lower bound on any of them.             *)
NumbersRead(env) == env.numbers # "garbled"
(* TlsConfig: both paths or neither. *)
TlsRead(env) == env.tls \in {{}, {"cert", "key"}}
(* Backend::from_url: the scheme alone decides, and its driver must be here. *)
DatabaseRead(env) ==
    Parses(Backend, env.scheme) /\ Parsed(Backend, env.scheme) \in Compiled
(* key_bytes: absent, or base64 of exactly the length of its slot. *)
KeyRead(key) == key \notin {"garbled", "wrong length"}
SecurityRead(env) ==
    /\ env.secret \notin {"unset", "short"}
    /\ "*" \notin env.origins
    /\ Parses(TokenFormat, env.format)
    /\ KeyRead(env.private) /\ KeyRead(env.public)
    /\ NeedsKeyPair(Format(env)) => "unset" \notin {env.private, env.public}
(* BootstrapAdmin: both or neither, and a password as long as any other. *)
BootstrapRead(env) == env.bootstrap \in {"none", "both"}

(* AppConfig::from_env. *)
Accepted(env) ==
    /\ Parses(Environment, env.environment)
    /\ TlsRead(env)
    /\ IsProduction(env) => env.tls # {}
    /\ NumbersRead(env) /\ DatabaseRead(env) /\ SecurityRead(env) /\ BootstrapRead(env)
=============================================================================
