----------------------------- MODULE MCIssuers -----------------------------
(* One deployment in every format, a second audience of the same secret, a   *)
(* second key pair whose public half replaces the first, and environments    *)
(* that must not start.                                                      *)
EXTENDS Issuers
Base == [environment |-> "dev", tls |-> {}, scheme |-> "sqlite", numbers |-> "read",
         secret |-> "s1", origins |-> {}, format |-> "jwt", private |-> "k1", public |-> "k1",
         issuer |-> "bastion", audience |-> "api", bootstrap |-> "none"]
Good == {[Base EXCEPT !.format = f] : f \in {"jwt", "v4.local", "v4.public", "opaque"}}
        \cup {[Base EXCEPT !.format = f, !.audience = "other"] : f \in {"jwt", "v4.local"}}
        \cup {[Base EXCEPT !.format = "paseto-public", !.public = "k2"]}
Bad == {[Base EXCEPT !.format = "paseto"], [Base EXCEPT !.secret = "short"],
        [Base EXCEPT !.environment = "production"]}
MCEnvs == Good \cup Bad
OneOwner == [s \in Sessions |-> "u"]
=============================================================================
