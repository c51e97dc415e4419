----------------------------- MODULE MCServing -----------------------------
(* Environments: the default one, a production one with a frontend, one      *)
(* behind a proxy, each also with one thing wrong.  Heads: every branch,     *)
(* every guard's reason to refuse, spellings the filters and the router see  *)
(* differently, and a client that forges its address.                        *)
EXTENDS Serving
Base == [environment |-> "unset", tls |-> {}, scheme |-> "sqlite", numbers |-> "read",
         secret |-> "s1", origins |-> {}, format |-> "jwt", private |-> "unset", public |-> "unset",
         bootstrap |-> "none", limiting |-> TRUE, authBurst |-> 1, apiBurst |-> 1, trust |-> FALSE,
         pathGuard |-> "on", hosts |-> {}, json |-> TRUE, pages |-> FALSE]
Production == [Base EXCEPT !.environment = "production", !.tls = {"cert", "key"},
                           !.origins = {"https"}, !.hosts = {"us"}, !.pages = TRUE, !.bootstrap = "both"]
Good == {Base, Production, [Base EXCEPT !.trust = TRUE], [Base EXCEPT !.limiting = FALSE, !.pathGuard = "off"]}
Wrong == {[Base EXCEPT !.tls = {"cert"}], [Base EXCEPT !.secret = "short"], [Base EXCEPT !.origins = {"*"}],
          [Base EXCEPT !.origins = {"garbled"}], [Base EXCEPT !.hosts = {"*"}], [Base EXCEPT !.authBurst = 0],
          [Base EXCEPT !.pathGuard = "zero"], [Base EXCEPT !.numbers = "garbled"],
          [Base EXCEPT !.scheme = "redis"], [Base EXCEPT !.format = "public", !.private = "wrong length"],
          [Base EXCEPT !.bootstrap = "half"],
          [Production EXCEPT !.tls = {}], [Production EXCEPT !.limiting = FALSE]}
MCEnvs == Good \cup Wrong
Nothing == [s \in Stages |-> <<>>]
BuiltIn == {Nothing}
Hostile == {Nothing, [Nothing EXCEPT !["outer"] = <<"strip">>],
            [Nothing EXCEPT !["outer"] = <<"pass">>, !["credentials"] = <<"panic">>],
            [Nothing EXCEPT !["api"] = <<"strip">>, !["page"] = <<"strip">>],
            [Nothing EXCEPT !["filter"] = <<"panic">>]}

Login == [method |-> "POST", path |-> <<"api", "v1", "auth", "login">>, body |-> "json", hosts |-> {"us"},
          twice |-> FALSE, peer |-> "p1", claims |-> "p1"]
Notes == [Login EXCEPT !.path = <<"api", "v1", "notes">>]
MCHeads ==
    {Login, [Login EXCEPT !.claims = "p2"], [Login EXCEPT !.path = <<"", "api", "v1", "auth", "login", "">>],
     [Login EXCEPT !.body = "form", !.path = <<"", "api", "v1", "auth", "login">>],
     [Login EXCEPT !.body = "form", !.path = <<"api", "v1", "auth", "login", "">>],
     [Notes EXCEPT !.path = <<"api", "v1", "notes", "">>], [Notes EXCEPT !.hosts = {"us", "them"}],
     [Notes EXCEPT !.method = "GET", !.twice = TRUE], [Notes EXCEPT !.method = "OPTIONS"],
     [Notes EXCEPT !.method = "GET", !.path = <<"api", "v1", "notes", "..">>],
     [Notes EXCEPT !.method = "TRACE", !.hosts = {}], [Notes EXCEPT !.path = <<"api", "v1", "x">>],
     [Notes EXCEPT !.method = "GET", !.path = <<"health", "live">>],
     [Notes EXCEPT !.method = "GET", !.path = <<"index">>]}
Same == Permutations(Reqs)
=============================================================================
