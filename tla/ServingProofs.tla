---------------------------- MODULE ServingProofs ----------------------------
(* Theorems about Serving, for any environments, registries, heads and        *)
(* number of requests.                                                        *)
EXTENDS Serving, SequenceTheorems, FiniteSetTheorems, WellFoundedInduction, TLAPS

(* What the canonical path keeps of the one that was sent.                     *)
LEMMA CanonicalPath ==
    ASSUME NEW S, NEW path \in Seq(S), path # <<>>, Canonical(path) # NotCanonical
    PROVE  /\ Canonical(Canonical(path)) = Canonical(path)
           /\ Canonical(path) \in Seq(S) /\ Len(Canonical(path)) \in 1..Len(path)
           /\ \A k \in 1..Len(Canonical(path)) : Canonical(path)[k] = path[k]
<1>1. Len(path) \in Nat /\ Len(path) > 0 /\ ~HasEmptySegment(path)
  <2>1. Len(path) \in Nat /\ Len(path) > 0
    BY EmptySeq
  <2>2. ~HasEmptySegment(path)
    BY Zenon DEF Canonical
  <2> QED
    BY <2>1, <2>2
<1>2. \A p : /\ (~HasEmptySegment(p) /\ Last(p) # "") => Canonical(p) = p
             /\ (~HasEmptySegment(p) /\ ~(Len(p) > 1)) => Canonical(p) = p
             /\ (~HasEmptySegment(p) /\ Len(p) > 1 /\ Last(p) = "") => Canonical(p) = Front(p)
  BY Zenon DEF Canonical
<1>3. CASE Len(path) > 1 /\ Last(path) = ""
  <2> DEFINE front == Front(path)
  <2>0. Len(path) \in Nat /\ Len(path) > 1
    BY <1>1, <1>3, Zenon
  <2>1. Canonical(path) = front
    BY <1>1, <1>2, <1>3, Zenon
  <2>2. \A k \in 1..Len(path) - 1 : path[k] # ""
    BY <1>1, Zenon DEF HasEmptySegment
  <2>3. /\ front \in Seq(S) /\ Len(front) = Len(path) - 1
        /\ \A k \in 1..Len(path) - 1 : front[k] = path[k]
    <3> DEFINE n == Len(path) - 1
    <3>1. n \in Int /\ 1 \in Int /\ 1 <= n /\ \A k \in 1..n : path[k] \in S
      BY <2>0, LenProperties
    <3> HIDE DEF n
    <3>2. /\ SubSeq(path, 1, n) \in Seq(S)
          /\ Len(SubSeq(path, 1, n)) = IF 1 <= n THEN n - 1 + 1 ELSE 0
          /\ \A k \in 1..n - 1 + 1 : SubSeq(path, 1, n)[k] = path[1 + k - 1]
      BY <3>1, SubSeqProperties
    <3>3. front = SubSeq(path, 1, n)
      BY DEF Front, n
    <3>4. n - 1 + 1 = n /\ \A k \in 1..n : 1 + k - 1 = k
      BY <3>1
    <3>5. front \in Seq(S) /\ Len(front) = n /\ \A k \in 1..n : front[k] = path[k]
      BY <3>1, <3>2, <3>3, <3>4
    <3> QED
      BY <3>5 DEF n
  <2> HIDE DEF front
  <2>4. \A k \in 1..Len(front) : front[k] # ""
    BY <2>2, <2>3
  <2>5. Len(front) \in 1..Len(front) /\ \A k \in 1..Len(front) - 1 : k \in 1..Len(front)
    BY <2>0, <2>3
  <2>6. ~HasEmptySegment(front) /\ Last(front) # ""
    BY <2>4, <2>5, Zenon DEF HasEmptySegment, Last
  <2>7. Canonical(front) = front
    BY <1>2, <2>6
  <2>8. Len(front) \in 1..Len(path)
    BY <2>0, <2>3
  <2> QED
    BY <2>1, <2>3, <2>7, <2>8
<1>4. CASE ~(Len(path) > 1 /\ Last(path) = "")
  <2>1. Canonical(path) = path
    BY <1>1, <1>2, <1>4
  <2> QED
    BY <1>1, <2>1
<1> QED
  BY <1>3, <1>4

(* The guards that let a head pass let it pass with its canonical path too.    *)
LEMMA GuardsAgree ==
    ASSUME NEW h \in Request, h.path # <<>>, Canonical(h.path) # NotCanonical, ~Filtered(env, h)
    PROVE  LET g == [h EXCEPT !.path = Canonical(h.path)]
           IN  ~Filtered(env, g) /\ Canonical(g.path) = g.path
<1> DEFINE g == [h EXCEPT !.path = Canonical(h.path)]
<1>1. /\ g.path = Canonical(h.path) /\ g.method = h.method /\ g.hosts = h.hosts
      /\ g.twice = h.twice /\ g.body = h.body
  BY DEF Request
<1>2. h.path \in Seq(STRING)
  BY DEF Request
<1>3. /\ Canonical(g.path) = g.path /\ Len(g.path) \in 1..Len(h.path)
      /\ g.path \in Seq(STRING) /\ \A k \in 1..Len(g.path) : g.path[k] = h.path[k]
  BY <1>1, <1>2, CanonicalPath
<1>4. Len(h.path) \in Nat /\ DOMAIN h.path = 1..Len(h.path) /\ DOMAIN g.path = 1..Len(g.path)
  BY <1>2, <1>3
<1> HIDE DEF g
<1>5. PathAllowed(env, g)
  BY <1>1, <1>3, <1>4 DEF Filtered, PathAllowed
<1>6. HostAllowed(env, g) /\ MethodAllowed(env, g)
  BY <1>1 DEF Filtered, HostAllowed, MethodAllowed
<1>7. BodyAllowed(env, g)
  BY <1>1, <1>3, <1>4 DEF Filtered, BodyAllowed
<1> QED
  BY <1>3, <1>5, <1>6, <1>7 DEF Filtered, g

-----------------------------------------------------------------------------
(* A handler at work has been let through by the filters and routed by the     *)
(* canonical path of the head it was sent; a process that has got somewhere    *)
(* has passed the refusals on the way there.                                   *)
Vetted(r) ==
    req[r].pc = "handling" =>
        /\ req[r].head \in Heads /\ ~Filtered(env, req[r].head)
        /\ req[r].path = Canonical(req[r].head.path) /\ req[r].path # NotCanonical
PhaseInv ==
    /\ phase \in {"connected", "seeded", "bound", "configured", "resolved", "serving"} => Accepted(env)
    /\ phase \in {"resolved", "serving"} => PluginsAccept(env)
RoutedInv == req = [r \in Reqs |-> req[r]] /\ \A r \in Reqs : Vetted(r)
ServingInv == PhaseInv /\ RoutedInv /\ GuardsBindHandlers

(* An answer that no handler gave keeps the invariant.                       *)
LEMMA Answers ==
    ASSUME ServingInv, NEW r \in Reqs, NEW h, NEW answer, Answered(r, h, answer), config' = config
    PROVE  RoutedInv' /\ GuardsBindHandlers'
<1>1. /\ req' = [req EXCEPT ![r] = req'[r]] /\ env' = env
      /\ req'[r].ran = "none" /\ req'[r].pc \in {"answered", "dropped"}
  BY DEF ServingInv, RoutedInv, Answered, config
<1>2. \A q \in Reqs \ {r} : req'[q] = req[q]
  BY <1>1 DEF ServingInv, RoutedInv
<1> QED
  BY <1>1, <1>2 DEF ServingInv, RoutedInv, Vetted, GuardsBindHandlers, Done

(* A step of the start-up keeps the invariant: it goes on only where its     *)
(* refusal lets it.                                                          *)
LEMMA Starting ==
    ASSUME ServingInv, ReadConfig \/ Connect \/ Bootstrap \/ Bind \/ Resolve \/ LoadTls
    PROVE  PhaseInv' /\ RoutedInv' /\ GuardsBindHandlers'
<1>1. env' = env /\ req' = req
  BY DEF ReadConfig, Connect, Bootstrap, Bind, Resolve, LoadTls, Step, config
<1>2. RoutedInv' /\ GuardsBindHandlers'
  BY <1>1 DEF ServingInv, RoutedInv, Vetted, GuardsBindHandlers, Done
<1>3. PhaseInv'
  BY <1>1 DEF ServingInv, PhaseInv, ReadConfig, Connect, Bootstrap, Bind, Resolve, LoadTls, Step
<1> QED
  BY <1>2, <1>3

(* A request that is routed reaches a handler only past the filters, and by  *)
(* its canonical path.                                                       *)
LEMMA Routing ==
    ASSUME ServingInv, NEW r \in Reqs, NEW h \in Heads, NEW mishap, Route(r, h, mishap)
    PROVE  RoutedInv' /\ GuardsBindHandlers'
<1>1. config' = config /\ ~Filtered(env, h) /\ Canonical(h.path) # NotCanonical
  BY DEF Route, config
<1>2. \/ \E answer : Answered(r, h, answer)
      \/ \E b : req' = [req EXCEPT ![r] = [pc |-> "handling", head |-> h, path |-> Canonical(h.path), branch |-> b]]
  BY DEF Route
<1>3. CASE \E answer : Answered(r, h, answer)
  BY <1>1, <1>3, Answers
<1>4. ASSUME NEW b,
             req' = [req EXCEPT ![r] = [pc |-> "handling", head |-> h, path |-> Canonical(h.path), branch |-> b]]
      PROVE  RoutedInv' /\ GuardsBindHandlers'
  <2>1. env' = env
    BY <1>1 DEF config
  <2>2. /\ req'[r] = [pc |-> "handling", head |-> h, path |-> Canonical(h.path), branch |-> b]
        /\ \A q \in Reqs \ {r} : req'[q] = req[q]
        /\ req' = [q \in Reqs |-> req'[q]]
    BY <1>4 DEF ServingInv, RoutedInv
  <2> QED
    BY <1>1, <2>1, <2>2 DEF ServingInv, RoutedInv, Vetted, GuardsBindHandlers, Done
<1> QED
  BY <1>2, <1>3, <1>4

(* A handler that ends keeps the invariant.                                  *)
LEMMA Finishing ==
    ASSUME ServingInv, NEW r \in Reqs, NEW outcome, Finish(r, outcome)
    PROVE  RoutedInv' /\ GuardsBindHandlers'
<1> DEFINE h == req[r].head
           g == [h EXCEPT !.path = Canonical(h.path)]
<1>1. h \in Heads /\ ~Filtered(env, h) /\ req[r].path = Canonical(h.path) /\ Canonical(h.path) # NotCanonical
  BY DEF ServingInv, RoutedInv, Vetted, Finish
<1>2. ~Filtered(env, g) /\ Canonical(g.path) = g.path
  BY <1>1, HeadsAssumption, GuardsAgree
<1>3. \E status, has : req' = [req EXCEPT ![r] = [pc |-> "answered", head |-> g, ran |-> req[r].branch,
                                                  status |-> status, has |-> has]]
  BY <1>1 DEF Finish
<1>4. env' = env
  BY DEF Finish, config
<1> HIDE DEF g, h
<1>5. /\ req'[r].pc = "answered" /\ req'[r].head = g
      /\ \A q \in Reqs \ {r} : req'[q] = req[q]
      /\ req' = [q \in Reqs |-> req'[q]]
  BY <1>3 DEF ServingInv, RoutedInv
<1> QED
  BY <1>2, <1>4, <1>5 DEF ServingInv, RoutedInv, Vetted, GuardsBindHandlers, Done

(* Every step keeps the inductive invariant.                                 *)
LEMMA Preserved == ServingInv /\ [Next]_vars => ServingInv'
<1> SUFFICES ASSUME ServingInv, [Next]_vars PROVE ServingInv'
  OBVIOUS
<1>1. CASE ReadConfig \/ Connect \/ Bootstrap \/ Bind \/ Resolve \/ LoadTls
  BY <1>1, Starting DEF ServingInv
<1>2. ASSUME phase' = phase, env' = env PROVE PhaseInv'
  BY <1>2 DEF ServingInv, PhaseInv
<1>3. ASSUME NEW r \in Reqs, NEW h \in Heads, Reject(r, h) PROVE ServingInv'
  <2>1. phase' = phase /\ config' = config /\ env' = env /\ \E answer : Answered(r, h, answer)
    BY <1>3 DEF Reject, config
  <2> QED
    BY <1>2, <2>1, Answers DEF ServingInv
<1>4. ASSUME NEW r \in Reqs, NEW h \in Heads, NEW m, Route(r, h, m) PROVE ServingInv'
  <2>1. phase' = phase /\ env' = env
    BY <1>4 DEF Route, config
  <2> QED
    BY <1>2, <1>4, <2>1, Routing DEF ServingInv
<1>5. ASSUME NEW r \in Reqs, NEW o, Finish(r, o) PROVE ServingInv'
  <2>1. phase' = phase /\ env' = env
    BY <1>5 DEF Finish, config
  <2> QED
    BY <1>2, <1>5, <2>1, Finishing DEF ServingInv
<1>6. CASE (\E b \in Tiers \X Peers : Replenish(b)) \/ UNCHANGED vars
  <2>1. phase' = phase /\ env' = env /\ req' = req
    BY <1>6 DEF Replenish, config, vars
  <2> QED
    BY <1>2, <2>1 DEF ServingInv, RoutedInv, Vetted, GuardsBindHandlers, Done
<1> QED
  BY <1>1, <1>3, <1>4, <1>5, <1>6 DEF Next

(* In every reachable state the process has passed the refusals on the way   *)
(* to where it is, and every handler at work was reached through the filters. *)
THEOREM Invariant == Spec => []ServingInv
<1>1. Init => ServingInv
  BY DEF Init, ServingInv, PhaseInv, RoutedInv, Vetted, GuardsBindHandlers, Done, Unsent
<1> QED
  BY <1>1, Preserved, PTL DEF Spec

(* The filters above the router and the canonicalisation below them never      *)
(* disagree about a request that reached a handler.                            *)
THEOREM GuardsBind == Spec => []GuardsBindHandlers
<1>1. ServingInv => GuardsBindHandlers
  BY DEF ServingInv
<1> QED
  BY <1>1, Invariant, PTL

ServesAccepted == phase = "serving" => Accepted(env) /\ PluginsAccept(env)

(* A process serves only with an environment both places of refusal accept.    *)
THEOREM OnlyAcceptedServes == Spec => []ServesAccepted
<1>1. ServingInv => ServesAccepted
  BY DEF ServingInv, PhaseInv, ServesAccepted
<1> QED
  BY <1>1, Invariant, PTL

-----------------------------------------------------------------------------
Below == {p \in Nat \X Nat : p[1] < p[2]}
(* A set of natural numbers that is not empty has a least one: the induction   *)
(* of the proofs below, each about the least number it would not hold for.     *)
LEMMA Least ==
    ASSUME NEW S, S \subseteq Nat, S # {}
    PROVE  \E m \in S : \A k \in S : m <= k
<1>1. IsWellFoundedOn(Below, Nat)
  BY NatLessThanWellFounded DEF OpToRel, Below
<1>2. \E m \in S : \A k \in S : <<k, m>> \notin Below
  BY <1>1, WFMin
<1>3. \A k, m \in S : <<k, m>> \notin Below => m <= k
  BY DEF Below
<1> QED
  BY <1>2, <1>3

(* What an answer is after each layer, from the innermost one out.             *)
Passes(s, a, out) ==
    /\ out[Len(s) + 1] = a /\ out[1] = Unwound(s, a)
    /\ \A k \in 1..Len(s) : out[k] = Outwards(s[k], out[k + 1])

(* The recursion of Unwound is that of the layers, whatever their number.      *)
LEMMA Unwinding ==
    ASSUME NEW S, NEW s \in Seq(S), NEW a
    PROVE  \E out : Passes(s, a, out)
<1> DEFINE n == Len(s)
           From(f, m) == f = [k \in m..n + 1 |-> IF k > n THEN a ELSE Outwards(s[k], f[k + 1])]
           Bad == {j \in 0..n : ~\E f : From(f, n + 1 - j)}
<1>0. n \in Nat
  OBVIOUS
<1> HIDE DEF n
<1>1. Bad = {}
  <2>1. SUFFICES ASSUME Bad # {} PROVE FALSE
    OBVIOUS
  <2>2. Bad \subseteq Nat
    BY <1>0
  <2>3. PICK j \in Bad : \A i \in Bad : j <= i
    BY <2>1, <2>2, Least
  <2>4. j \in 0..n /\ ~\E f : From(f, n + 1 - j)
    OBVIOUS
  <2>5. CASE j = 0
    <3> DEFINE f == [k \in n + 1..n + 1 |-> a]
    <3>1. f = [k \in n + 1..n + 1 |-> IF k > n THEN a ELSE Outwards(s[k], f[k + 1])]
      BY <1>0
    <3>2. n + 1 - j = n + 1
      BY <1>0, <2>5
    <3>3. From(f, n + 1)
      BY <3>1
    <3> QED
      BY <2>4, <3>2, <3>3
  <2>6. CASE j # 0
    <3> DEFINE i == j - 1
               m == n + 1 - j
    <3>1. i \in 0..n /\ i < j /\ m \in 1..n /\ n + 1 - i = m + 1
      BY <1>0, <2>4, <2>6
    <3>2. i \notin Bad
      BY <2>3, <3>1
    <3>3. PICK f : From(f, m + 1)
      BY <3>1, <3>2
    <3> DEFINE g == [k \in m..n + 1 |-> IF k = m THEN Outwards(s[m], f[m + 1]) ELSE f[k]]
    <3> HIDE DEF i, Bad
    <3>4. ASSUME NEW k \in m..n + 1 PROVE g[k] = IF k > n THEN a ELSE Outwards(s[k], g[k + 1])
      <4>1. CASE k = m
        BY <1>0, <3>1, <4>1
      <4>2. CASE k # m
        <5>1. k \in m + 1..n + 1 /\ (k <= n => k + 1 \in m + 1..n + 1 /\ k + 1 # m /\ k + 1 \in m..n + 1)
          BY <1>0, <3>1, <4>2
        <5>2. f[k] = IF k > n THEN a ELSE Outwards(s[k], f[k + 1])
          BY <3>3, <5>1
        <5>3. g[k] = f[k] /\ (k <= n => g[k + 1] = f[k + 1])
          BY <4>2, <5>1
        <5> QED
          BY <1>0, <5>1, <5>2, <5>3
      <4> QED
        BY <4>1, <4>2
    <3>5. g = [k \in m..n + 1 |-> g[k]]
      OBVIOUS
    <3> HIDE DEF g
    <3>6. From(g, m)
      BY <3>4, <3>5
    <3> QED
      BY <2>4, <3>6
  <2> QED
    BY <2>5, <2>6
<1>2. \E f : From(f, 1)
  <2>1. n \in 0..n /\ n + 1 - n = 1
    BY <1>0
  <2> QED
    BY <1>1, <2>1
<1> DEFINE out == CHOOSE f : From(f, 1)
<1>3. From(out, 1)
  BY <1>2
<1>4. out[1] = Unwound(s, a)
  BY DEF Unwound, n
<1> HIDE DEF out
<1>5. out[n + 1] = a /\ \A k \in 1..n : out[k] = Outwards(s[k], out[k + 1])
  BY <1>0, <1>3
<1> QED
  BY <1>4, <1>5 DEF Passes, n

IsAnswer(a) == a = [status |-> a.status, has |-> a.has]

(* An answer of which the layer has made an answer, an error only of an error  *)
(* and a panic only of a panic.                                                *)
Kept(layer, a, b) ==
    /\ IsAnswer(b)
    /\ b.status = "overloaded" => a.status = "overloaded" /\ layer # "handle error"
    /\ b.status = "panic" => a.status = "panic" /\ layer # "catch panic"

(* What every layer does to an answer.                                         *)
LEMMA OneLayer ==
    ASSUME NEW layer, NEW a, IsAnswer(a), NEW b, b = Outwards(layer, a)
    PROVE  Kept(layer, a, b)
<1>1. \A x : IsAnswer(Answer(x)) /\ Answer(x).status = x
  BY DEF Answer, IsAnswer
<1>2. \A x : IsAnswer([a EXCEPT !.has = @ \cup x]) /\ [a EXCEPT !.has = @ \cup x].status = a.status
  BY DEF IsAnswer
<1>3. CASE a.status \in {"panic", "overloaded"}
  <2>1. b \in {a, Answer("500"), Answer("503")}
    BY <1>3 DEF Outwards
  <2>2. IsAnswer(b)
    BY <1>1, <2>1
  <2>3. b = a \/ b.status \notin {"panic", "overloaded"}
    BY <1>1, <2>1
  <2>4. b = a => (a.status = "overloaded" => layer # "handle error") /\ (a.status = "panic" => layer # "catch panic")
    <3>1. a.status = "overloaded" /\ layer = "handle error" => b.status = "503"
      BY <1>1 DEF Outwards
    <3>2. a.status = "panic" /\ layer = "catch panic" => b.status = "500"
      BY <1>1 DEF Outwards
    <3> QED
      BY <3>1, <3>2
  <2> QED
    BY <1>3, <2>2, <2>3, <2>4 DEF Kept
<1>4. CASE a.status \notin {"panic", "overloaded"}
  <2>1. \A x : b = [a EXCEPT !.has = @ \cup x]
                  => IsAnswer(b) /\ b.status = a.status
    BY <1>2
  <2>2. b \in {a, Answer(a.status)} => IsAnswer(b) /\ b.status = a.status
    BY <1>1
  <2>3. CASE layer \notin {"request id", "hardening", "api headers", "page headers"}
    <3>1. layer = "strip" => b = Answer(a.status)
      BY <1>4 DEF Outwards
    <3>2. layer # "strip" => b = a
      BY <1>4, <2>3 DEF Outwards
    <3> QED
      BY <1>4, <2>2, <3>1, <3>2 DEF Kept
  <2>4. CASE layer = "request id"
    <3>1. b = [a EXCEPT !.has = @ \cup {"x-request-id"}]
      BY <1>4, <2>4 DEF Outwards
    <3> QED
      BY <1>4, <2>1, <3>1 DEF Kept
  <2>5. CASE layer = "hardening"
    <3>1. b = [a EXCEPT !.has = @ \cup {"always"}]
      BY <1>4, <2>5 DEF Outwards
    <3> QED
      BY <1>4, <2>1, <3>1 DEF Kept
  <2>6. CASE layer = "api headers"
    <3>1. b = [a EXCEPT !.has = @ \cup {"policy", "no-store"}]
      BY <1>4, <2>6 DEF Outwards
    <3> QED
      BY <1>4, <2>1, <3>1 DEF Kept
  <2>7. CASE layer = "page headers"
    <3>1. b = [a EXCEPT !.has = @ \cup {"policy", "cache"}]
      BY <1>4, <2>7 DEF Outwards
    <3> QED
      BY <1>4, <2>1, <3>1 DEF Kept
  <2> QED
    BY <2>3, <2>4, <2>5, <2>6, <2>7
<1> QED
  BY <1>3, <1>4

(* An answer that is no error, or becomes one no longer from the k-th layer on. *)
Handled(s, a, k) == a.status # "overloaded" \/ \E l \in k..Len(s) : s[l] = "handle error"
(* What is known of an answer at the k-th layer. *)
Good(s, a, x, k) ==
    /\ IsAnswer(x)
    /\ Handled(s, a, k) => x.status # "overloaded"
    /\ a.status # "panic" => x.status # "panic"

(* On the way out no layer makes an error or a panic of an answer that is      *)
(* none, and an error does not pass the layer that handles errors.             *)
LEMMA OnTheWay ==
    ASSUME NEW S, NEW s \in Seq(S), NEW a, IsAnswer(a), NEW out, Passes(s, a, out)
    PROVE  \A k \in 1..Len(s) + 1 : Good(s, a, out[k], k)
<1> DEFINE n == Len(s)
           Bad == {j \in 0..n : ~Good(s, a, out[n + 1 - j], n + 1 - j)}
<1>0. n \in Nat /\ out[n + 1] = a /\ \A k \in 1..n : out[k] = Outwards(s[k], out[k + 1])
  BY DEF Passes
<1>1. Good(s, a, out[n + 1], n + 1)
  <2>1. \A l : l \notin n + 1..n
    BY <1>0
  <2>2. Handled(s, a, n + 1) => a.status # "overloaded"
    BY <2>1, Zenon DEF Handled
  <2>3. Good(s, a, a, n + 1)
    BY <2>2, Zenon DEF Good
  <2> QED
    BY <1>0, <2>3, Zenon
<1>2. ASSUME NEW k \in 1..n, Good(s, a, out[k + 1], k + 1) PROVE Good(s, a, out[k], k)
  <2>1. out[k] = Outwards(s[k], out[k + 1]) /\ IsAnswer(out[k + 1])
    BY <1>0, <1>2, Zenon DEF Good
  <2>2. Kept(s[k], out[k + 1], out[k])
    BY <2>1, OneLayer, Zenon
  <2>3. \A l \in k..n : l = k \/ l \in k + 1..n
    BY <1>0
  <2>4. Handled(s, a, k) => Handled(s, a, k + 1) \/ s[k] = "handle error"
    BY <2>3, Zenon DEF Handled
  <2> QED
    BY <1>2, <2>2, <2>4, Zenon DEF Good, Kept
<1> HIDE DEF n
<1>3. Bad = {}
  <2>1. SUFFICES ASSUME Bad # {} PROVE FALSE
    OBVIOUS
  <2>2. Bad \subseteq Nat
    BY <1>0
  <2>3. PICK j \in Bad : \A i \in Bad : j <= i
    BY <2>1, <2>2, Least
  <2>4. j \in 0..n /\ ~Good(s, a, out[n + 1 - j], n + 1 - j) /\ j # 0
    BY <1>0, <1>1
  <2>5. j - 1 \in 0..n /\ ~(j <= j - 1) /\ n + 1 - j \in 1..n /\ n + 1 - (j - 1) = (n + 1 - j) + 1
    BY <1>0, <2>4
  <2>6. Good(s, a, out[(n + 1 - j) + 1], (n + 1 - j) + 1)
    BY <2>3, <2>5
  <2> QED
    BY <1>2, <2>4, <2>5, <2>6
<1>4. ASSUME NEW k \in 1..n + 1 PROVE Good(s, a, out[k], k)
  <2>1. n + 1 - k \in 0..n /\ n + 1 - (n + 1 - k) = k
    BY <1>0
  <2> QED
    BY <1>3, <2>1
<1> QED
  BY <1>4 DEF n

(* The two headers of every answer.                                            *)
Marks == {"x-request-id", "always"}
Repeated(s) == s[1] = "request id" /\ s[2] = "hardening"
Hard(s) == Repeated(s) /\ s[3] = "request id" /\ s[4] = "hardening" /\ s[5] = "catch panic"

(* What the two layers that mark an answer make of one that is no panic and no *)
(* error.                                                                      *)
LEMMA Marking ==
    ASSUME NEW a, IsAnswer(a), a.status \notin {"panic", "overloaded"}
    PROVE  LET b == Outwards("hardening", a)
               c == Outwards("request id", b) IN
           /\ IsAnswer(b) /\ b.status = a.status
           /\ IsAnswer(c) /\ c.status = a.status /\ Marks \subseteq c.has
<1> DEFINE b == Outwards("hardening", a)
           c == Outwards("request id", b)
<1>1. b = [a EXCEPT !.has = @ \cup {"always"}]
  BY DEF Outwards
<1> HIDE DEF b
<1>2. IsAnswer(b) /\ b.status = a.status /\ "always" \in b.has
  BY <1>1 DEF IsAnswer
<1>3. c = [b EXCEPT !.has = @ \cup {"x-request-id"}]
  BY <1>2 DEF Outwards
<1> HIDE DEF c
<1>4. IsAnswer(c) /\ c.status = b.status /\ Marks \subseteq c.has
  BY <1>2, <1>3 DEF IsAnswer, Marks
<1> QED
  BY <1>2, <1>4 DEF b, c

(* The two layers above the router mark every answer but a panic or an error.  *)
LEMMA Marked ==
    ASSUME NEW S, NEW s \in Seq(S), NEW a, IsAnswer(a), NEW out, Passes(s, a, out),
           2 <= Len(s), Repeated(s), out[3].status \notin {"panic", "overloaded"}
    PROVE  Unwound(s, a).status = out[3].status /\ Marks \subseteq Unwound(s, a).has
<1>1. 1 \in 1..Len(s) /\ 2 \in 1..Len(s) /\ 3 \in 1..Len(s) + 1 /\ 1 + 1 = 2 /\ 2 + 1 = 3
  OBVIOUS
<1>2. out[2] = Outwards(s[2], out[3]) /\ out[1] = Outwards(s[1], out[2]) /\ out[1] = Unwound(s, a)
  BY <1>1, Zenon DEF Passes
<1>3. IsAnswer(out[3])
  BY <1>1, OnTheWay, Zenon DEF Good
<1>4. out[2] = Outwards("hardening", out[3]) /\ out[1] = Outwards("request id", out[2])
  BY <1>2, Zenon DEF Repeated
<1>5. out[1].status = out[3].status /\ Marks \subseteq out[1].has
  BY <1>3, <1>4, Marking, Zenon
<1> QED
  BY <1>2, <1>5, Zenon

(* What leaves the whole onion is an answer with both marks: a panic has been  *)
(* caught, and an error handled where there is a layer to handle it.           *)
LEMMA Hardened ==
    ASSUME NEW S, NEW s \in Seq(S), NEW a, IsAnswer(a), 5 <= Len(s), Hard(s), Handled(s, a, 5)
    PROVE  /\ Unwound(s, a).status \notin {"panic", "overloaded"}
           /\ Marks \subseteq Unwound(s, a).has
<1>1. PICK out : Passes(s, a, out)
  BY Unwinding
<1>2. /\ 2 <= Len(s) /\ 3 \in 1..Len(s) /\ 4 \in 1..Len(s) /\ 5 \in 1..Len(s) /\ 5 \in 1..Len(s) + 1 /\ 6 \in 1..Len(s) + 1
      /\ 3 + 1 = 4 /\ 4 + 1 = 5 /\ 5 + 1 = 6
  OBVIOUS
<1>3. Good(s, a, out[5], 5) /\ Good(s, a, out[6], 6)
  BY <1>1, <1>2, OnTheWay, Zenon
<1>4. out[5] = Outwards(s[5], out[6]) /\ out[4] = Outwards(s[4], out[5]) /\ out[3] = Outwards(s[3], out[4])
  BY <1>1, <1>2, Zenon DEF Passes
<1>5. IsAnswer(out[5]) /\ out[5].status # "overloaded"
  BY <1>3, Zenon DEF Good
<1>6. out[5].status # "panic"
  <2>1. IsAnswer(out[6]) /\ out[5] = Outwards("catch panic", out[6])
    BY <1>3, <1>4, Zenon DEF Good, Hard
  <2>2. Kept("catch panic", out[6], out[5])
    BY <2>1, OneLayer, Zenon
  <2> QED
    BY <2>2, Zenon DEF Kept
<1>7. out[3].status \notin {"panic", "overloaded"}
  <2>1. out[5].status \notin {"panic", "overloaded"}
    BY <1>5, <1>6
  <2>2. out[3] = Outwards("request id", Outwards("hardening", out[5]))
    BY <1>4, Zenon DEF Hard
  <2> QED
    BY <1>5, <2>1, <2>2, Marking, Zenon
<1> QED
  BY <1>1, <1>2, <1>7, Marked, Zenon DEF Hard

-----------------------------------------------------------------------------
(* The kinds of layers there are.                                              *)
Kinds == {"request id", "hardening", "catch panic", "cors", "request log", "handle error", "load shed",
          "timeout", "body limit", "api headers", "page headers", "rate limit"} \cup Plugged

(* Where each of two sequences of these lengths is in their concatenation.      *)
Appends(o, A, B, a, b) ==
    /\ Len(o) = a + b
    /\ \A k \in 1..a : o[k] = A[k]
    /\ \A k \in 1..b : o[a + k] = B[k]

(* The concatenation of two sequences.                                         *)
LEMMA Appended ==
    ASSUME NEW S, NEW A \in Seq(S), NEW B \in Seq(S), NEW AB, AB = A \o B,
           NEW a, NEW b, a = Len(A), b = Len(B)
    PROVE  AB \in Seq(S) /\ a \in Nat /\ b \in Nat /\ Appends(AB, A, B, a, b)
<1>1. a \in Nat /\ b \in Nat
  OBVIOUS
<1>2. AB \in Seq(S) /\ Len(AB) = a + b /\ \A k \in 1..a + b : AB[k] = IF k <= a THEN A[k] ELSE B[k - a]
  BY ConcatProperties
<1>3. ASSUME NEW k \in 1..a PROVE AB[k] = A[k]
  <2>1. k \in 1..a + b /\ k <= a
    BY <1>1
  <2> QED
    BY <1>2, <2>1
<1>4. ASSUME NEW k \in 1..b PROVE AB[a + k] = B[k]
  <2>1. a + k \in 1..a + b /\ ~(a + k <= a)
    BY <1>1
  <2>2. k = a + k - a
    BY <1>1
  <2>3. \A i : i = a + k - a => AB[a + k] = B[i]
    BY <1>2, <2>1
  <2> QED
    BY <2>1, <2>2, <2>3, Zenon
<1> QED
  BY <1>1, <1>2, <1>3, <1>4 DEF Appends

(* Where each of four sequences of these lengths is in their concatenation.     *)
Joins(o, A, B, C, D, a, b, c, d) ==
    /\ Len(o) = a + b + c + d /\ a \in Nat /\ b \in Nat /\ c \in Nat /\ d \in Nat
    /\ \A k \in 1..a : o[k] = A[k]
    /\ \A k \in 1..b : o[a + k] = B[k]
    /\ \A k \in 1..c : o[a + b + k] = C[k]
    /\ \A k \in 1..d : o[a + b + c + k] = D[k]

(* The concatenation of four sequences.                                        *)
LEMMA Joined ==
    ASSUME NEW S, NEW A \in Seq(S), NEW B \in Seq(S), NEW C \in Seq(S), NEW D \in Seq(S),
           NEW o, o = A \o B \o C \o D,
           NEW a, NEW b, NEW c, NEW d, a = Len(A), b = Len(B), c = Len(C), d = Len(D)
    PROVE  o \in Seq(S) /\ Joins(o, A, B, C, D, a, b, c, d)
<1>1. a \in Nat /\ b \in Nat /\ c \in Nat /\ d \in Nat
  OBVIOUS
<1> DEFINE AB == A \o B
           ABC == AB \o C
<1>2. AB \in Seq(S) /\ Appends(AB, A, B, a, b)
  BY Appended, Zenon
<1> HIDE DEF AB
<1>3. ABC \in Seq(S) /\ Appends(ABC, AB, C, a + b, c)
  <2>1. a + b = Len(AB)
    BY <1>2, Zenon DEF Appends
  <2> QED
    BY <1>2, <2>1, Appended, Zenon
<1>4. o = ABC \o D
  BY DEF AB
<1> HIDE DEF ABC
<1>5. o \in Seq(S) /\ Appends(o, ABC, D, a + b + c, d)
  <2>1. a + b + c = Len(ABC)
    BY <1>3, Zenon DEF Appends
  <2> QED
    BY <1>3, <1>4, <2>1, Appended, Zenon
<1>6. \A k \in 1..a : o[k] = A[k]
  <2> SUFFICES ASSUME NEW k \in 1..a PROVE o[k] = A[k]
    OBVIOUS
  <2>1. k \in 1..a + b /\ k \in 1..a + b + c
    BY <1>1
  <2>2. o[k] = ABC[k]
    BY <2>1, <1>5, Zenon DEF Appends
  <2>3. ABC[k] = AB[k]
    BY <2>1, <1>3, Zenon DEF Appends
  <2>4. AB[k] = A[k]
    BY <1>2, Zenon DEF Appends
  <2> QED
    BY <2>2, <2>3, <2>4, Zenon
<1>7. \A k \in 1..b : o[a + k] = B[k]
  <2> SUFFICES ASSUME NEW k \in 1..b PROVE o[a + k] = B[k]
    OBVIOUS
  <2>1. a + k \in 1..a + b /\ a + k \in 1..a + b + c
    BY <1>1
  <2>2. o[a + k] = ABC[a + k]
    BY <2>1, <1>5, Zenon DEF Appends
  <2>3. ABC[a + k] = AB[a + k]
    BY <2>1, <1>3, Zenon DEF Appends
  <2>4. AB[a + k] = B[k]
    BY <1>2, Zenon DEF Appends
  <2> QED
    BY <2>2, <2>3, <2>4, Zenon
<1>8. \A k \in 1..c : o[a + b + k] = C[k]
  <2> SUFFICES ASSUME NEW k \in 1..c PROVE o[a + b + k] = C[k]
    OBVIOUS
  <2>1. a + b + k \in 1..a + b + c
    BY <1>1
  <2>2. o[a + b + k] = ABC[a + b + k]
    BY <2>1, <1>5, Zenon DEF Appends
  <2>3. ABC[a + b + k] = C[k]
    BY <1>3, Zenon DEF Appends
  <2> QED
    BY <2>2, <2>3, Zenon
<1> QED
  BY <1>1, <1>5, <1>6, <1>7, <1>8, Zenon DEF Appends, Joins

(* What any onion has: the five layers on the outside, and further in a layer  *)
(* that handles errors with the load shedder inside it and a timeout.          *)
Layered(o) ==
    /\ o \in Seq(Kinds) /\ 5 <= Len(o) /\ Hard(o)
    /\ \E k \in 6..Len(o) : o[k] = "timeout"
    /\ \E p \in 6..Len(o) : o[p] = "handle error" /\ \A k \in 1..p : o[k] # "load shed"

(* The layers of a stage are those of the source and then the embedder's.      *)
LEMMA StageLayers ==
    ASSUME NEW e, NEW x \in Registry, NEW stage \in Stages
    PROVE  /\ Layers(e, x, stage) \in Seq(Kinds)
           /\ \A k \in 1..Len(Layers(e, x, stage)) : Layers(e, x, stage)[k] \notin {"load shed", "handle error", "timeout"}
           /\ (stage \in {"api", "credentials"} /\ e.limiting)
                  => 1 <= Len(Layers(e, x, stage)) /\ Layers(e, x, stage)[1] = "rate limit"
<1> DEFINE Own == {"cors", "request log", "rate limit"} \cup Plugged
           A == Shipped(e, stage)
           B == x[stage]
           l == Layers(e, x, stage)
<1>1. A \in Seq(Own) /\ ((stage \in {"api", "credentials"} /\ e.limiting) => A = <<"rate limit">>)
  <2>1. <<>> \in Seq(Own) /\ <<"cors">> \in Seq(Own) /\ <<"request log">> \in Seq(Own) /\ <<"rate limit">> \in Seq(Own)
    OBVIOUS
  <2>2. <<"cors">> \o <<"request log">> \in Seq(Own) /\ <<>> \o <<"request log">> \in Seq(Own)
    BY <2>1, ConcatProperties, Zenon
  <2> HIDE DEF Own
  <2>3. A \in {<<>>, <<"rate limit">>, <<"cors">> \o <<"request log">>, <<>> \o <<"request log">>}
    BY DEF Shipped
  <2>4. (stage \in {"api", "credentials"} /\ e.limiting) => A = <<"rate limit">>
    BY DEF Shipped
  <2> QED
    BY <2>1, <2>2, <2>3, <2>4
<1>2. B \in Seq(Own)
  <2>1. B \in Seq(Plugged)
    BY DEF Registry
  <2>2. Plugged \subseteq Own
    OBVIOUS
  <2> QED
    BY <2>1, <2>2, SeqMonotonic
<1>3. Own \subseteq Kinds /\ {"load shed", "handle error", "timeout"} \cap Own = {}
  BY DEF Kinds, Plugged
<1> HIDE DEF Own
<1>4. l = A \o B
  BY DEF Layers
<1> HIDE DEF A, B, l
<1>5. /\ l \in Seq(Own) /\ Len(l) = Len(A) + Len(B) /\ Len(A) \in Nat /\ Len(B) \in Nat
      /\ \A i \in 1..Len(A) : l[i] = A[i]
  <2>1. l \in Seq(Own) /\ Appends(l, A, B, Len(A), Len(B)) /\ Len(A) \in Nat /\ Len(B) \in Nat
    BY <1>1, <1>2, <1>4, Appended, Zenon
  <2> QED
    BY <2>1, Zenon DEF Appends
<1>6. l \in Seq(Kinds)
  BY <1>3, <1>5, SeqMonotonic
<1>7. \A k \in 1..Len(l) : l[k] \in Own
  BY <1>5
<1>8. A = <<"rate limit">> => 1 <= Len(l) /\ l[1] = "rate limit"
  <2>1. A = <<"rate limit">> => Len(A) = 1 /\ A[1] = "rate limit"
    <3>1. Len(<<"rate limit">>) = 1 /\ <<"rate limit">>[1] = "rate limit"
      OBVIOUS
    <3> QED
      BY <3>1, Zenon
  <2>2. Len(A) = 1 => 1 <= Len(l) /\ l[1] = A[1]
    BY <1>5
  <2> QED
    BY <2>1, <2>2, Zenon
<1>9. \A k \in 1..Len(l) : l[k] \notin {"load shed", "handle error", "timeout"}
  BY <1>3, <1>7
<1> QED
  BY <1>1, <1>6, <1>8, <1>9 DEF l

(* The onion of any branch.                                                    *)
LEMMA OnionLayers ==
    ASSUME NEW e, NEW x \in Registry, NEW branch
    PROVE  /\ Layered(Onion(e, x, branch))
           /\ (branch \in {"api", "credentials"} /\ e.limiting)
                  => \E k \in 1..Len(Onion(e, x, branch)) : Onion(e, x, branch)[k] = "rate limit"
<1> DEFINE A == Above \o Hardening
           B == Layers(e, x, "outer")
           C == Controls
           D == Inner(e, x, branch)
           o == Onion(e, x, branch)
           b == Len(B)
           d == Len(D)
<1>1. A \in Seq(Kinds) /\ 5 = Len(A) /\ Hard(A)
  <2>1. /\ Above \in Seq(Kinds) /\ Len(Above) = 2 /\ Hardening \in Seq(Kinds) /\ Len(Hardening) = 3
    BY DEF Above, Hardening, Kinds
  <2>2. /\ Above[1] = "request id" /\ Above[2] = "hardening"
        /\ Hardening[1] = "request id" /\ Hardening[2] = "hardening" /\ Hardening[3] = "catch panic"
    BY DEF Above, Hardening
  <2> HIDE DEF A
  <2>3. A \in Seq(Kinds) /\ Appends(A, Above, Hardening, 2, 3)
    BY <2>1, Appended, Zenon DEF A
  <2>4. Len(A) = 5 /\ A[1] = Above[1] /\ A[2] = Above[2]
        /\ A[3] = Hardening[1] /\ A[4] = Hardening[2] /\ A[5] = Hardening[3]
    <3>1. Len(A) = 5 /\ \A k \in 1..2 : A[k] = Above[k]
      BY <2>3 DEF Appends
    <3>2. \A k \in 1..3 : A[2 + k] = Hardening[k]
      BY <2>3 DEF Appends
    <3> QED
      BY <3>1, <3>2
  <2> QED
    BY <2>2, <2>3, <2>4, Zenon DEF Hard, Repeated
<1>2. C \in Seq(Kinds) /\ 4 = Len(C) /\ C[1] = "handle error" /\ C[3] = "timeout"
  BY DEF Controls, Kinds
<1>3. /\ B \in Seq(Kinds)
      /\ \A k \in 1..b : B[k] \notin {"load shed", "handle error", "timeout"}
  BY StageLayers DEF Stages
<1>4. /\ D \in Seq(Kinds)
      /\ (branch \in {"api", "credentials"} /\ e.limiting) => \E k \in 1..d : D[k] = "rate limit"
  <2>0. <<>> \in Seq(Kinds) /\ <<"api headers">> \in Seq(Kinds) /\ <<"page headers">> \in Seq(Kinds)
        /\ Len(<<"api headers">>) = 1
    BY DEF Kinds
  <2>1. CASE branch \in {"api", "credentials"}
    <3> DEFINE l == Layers(e, x, branch)
    <3>1. D = <<"api headers">> \o l
      BY <2>1 DEF Inner
    <3>2. l \in Seq(Kinds) /\ (e.limiting => 1 <= Len(l) /\ l[1] = "rate limit")
      BY <2>1, StageLayers DEF Stages
    <3> HIDE DEF l, D
    <3>3. D \in Seq(Kinds) /\ Appends(D, <<"api headers">>, l, 1, Len(l)) /\ Len(l) \in Nat
      BY <2>0, <3>1, <3>2, Appended, Zenon
    <3>4. ASSUME e.limiting PROVE \E k \in 1..d : D[k] = "rate limit"
      <4>1. l[1] = "rate limit"
        BY <3>2, <3>4, Zenon
      <4>2. 1 <= Len(l)
        BY <3>2, <3>4, Zenon
      <4>3. Len(l) \in Nat /\ Len(D) = 1 + Len(l)
        BY <3>3, Zenon DEF Appends
      <4>4. 1 \in 1..Len(l) /\ 1 + 1 \in 1..d
        BY <4>2, <4>3
      <4>5. D[1 + 1] = l[1]
        BY <3>3, <4>4, Zenon DEF Appends
      <4> QED
        BY <4>1, <4>4, <4>5, Zenon
    <3> QED
      BY <3>3, <3>4
  <2>2. CASE branch \in {"health", "unknown"}
    <3>1. D = <<"api headers">>
      BY <2>2 DEF Inner
    <3> QED
      BY <2>0, <2>2, <3>1
  <2>3. CASE branch = "page"
    <3>1. D = Layers(e, x, "page") \o <<"page headers">>
      BY <2>3 DEF Inner
    <3>2. Layers(e, x, "page") \in Seq(Kinds)
      BY StageLayers DEF Stages
    <3>3. D \in Seq(Kinds)
      BY <2>0, <3>1, <3>2, Appended, Zenon
    <3> QED
      BY <2>3, <3>3
  <2>4. CASE branch \notin {"api", "credentials", "health", "unknown", "page"}
    <3>1. D = <<>>
      BY <2>4 DEF Inner
    <3> QED
      BY <2>0, <2>4, <3>1
  <2> QED
    BY <2>1, <2>2, <2>3, <2>4
<1>5. o = A \o B \o C \o D
  BY DEF Onion
<1> HIDE DEF A, B, C, D, o
<1>6. /\ o \in Seq(Kinds) /\ Len(o) = 5 + b + 4 + d /\ b \in Nat /\ d \in Nat
      /\ \A k \in 1..5 : o[k] = A[k]
      /\ \A k \in 1..b : o[5 + k] = B[k]
      /\ \A k \in 1..4 : o[5 + b + k] = C[k]
      /\ \A k \in 1..d : o[5 + b + 4 + k] = D[k]
  <2>1. o \in Seq(Kinds) /\ Joins(o, A, B, C, D, 5, b, 4, d)
    BY <1>1, <1>2, <1>3, <1>4, <1>5, Joined, Zenon
  <2> QED
    BY <2>1, Zenon DEF Joins
<1> HIDE DEF b, d
<1>7. 5 <= Len(o) /\ Hard(o)
  <2>1. 5 <= Len(o)
    BY <1>6
  <2>2. 1 \in 1..5 /\ 2 \in 1..5 /\ 3 \in 1..5 /\ 4 \in 1..5 /\ 5 \in 1..5
    OBVIOUS
  <2>3. o[1] = A[1] /\ o[2] = A[2] /\ o[3] = A[3] /\ o[4] = A[4] /\ o[5] = A[5]
    BY <1>6, <2>2, Zenon
  <2> QED
    BY <1>1, <2>1, <2>3 DEF Hard, Repeated
<1>8. \E k \in 6..Len(o) : o[k] = "timeout"
  <2>1. 5 + b + 3 \in 6..Len(o) /\ 3 \in 1..4
    BY <1>6
  <2>2. o[5 + b + 3] = "timeout"
    BY <1>2, <1>6, <2>1, Zenon
  <2> QED
    BY <2>1, <2>2, Zenon
<1>9. \E p \in 6..Len(o) : o[p] = "handle error" /\ \A k \in 1..p : o[k] # "load shed"
  <2> DEFINE p == 5 + b + 1
  <2>1. p \in 6..Len(o) /\ 1 \in 1..4
    BY <1>6
  <2>2. o[p] = "handle error"
    BY <1>2, <1>6, <2>1, Zenon
  <2>3. ASSUME NEW k \in 1..p PROVE o[k] # "load shed"
    <3>1. k \in 1..5 \/ k = p \/ \E i \in 1..b : k = 5 + i
      <4>1. k \in 1..5 \/ k = p \/ (k - 5 \in 1..b /\ k = 5 + (k - 5))
        BY <1>6
      <4> QED
        BY <4>1, Zenon
    <3>2. CASE k \in 1..5
      <4>1. o[k] = A[k] /\ k \in {1, 2, 3, 4, 5}
        BY <1>6, <3>2
      <4>2. A[k] \in {"request id", "hardening", "catch panic"}
        BY <1>1, <4>1, Zenon DEF Hard, Repeated
      <4> QED
        BY <4>1, <4>2
    <3>3. CASE k = p
      BY <2>2, <3>3
    <3>4. ASSUME NEW i \in 1..b, k = 5 + i PROVE o[k] # "load shed"
      <4>1. o[5 + i] = B[i] /\ B[i] # "load shed"
        BY <1>3, <1>6, Zenon DEF b
      <4> QED
        BY <3>4, <4>1, Zenon
    <3> QED
      BY <3>1, <3>2, <3>3, <3>4
  <2> QED
    BY <2>1, <2>2, <2>3
<1>10. (branch \in {"api", "credentials"} /\ e.limiting) => \E k \in 1..Len(o) : o[k] = "rate limit"
  <2> SUFFICES ASSUME branch \in {"api", "credentials"}, e.limiting PROVE \E k \in 1..Len(o) : o[k] = "rate limit"
    OBVIOUS
  <2>1. PICK k \in 1..d : D[k] = "rate limit"
    BY <1>4
  <2>2. 5 + b + 4 + k \in 1..Len(o)
    BY <1>6
  <2>3. o[5 + b + 4 + k] = "rate limit"
    BY <1>6, <2>1, Zenon
  <2> QED
    BY <2>2, <2>3, Zenon
<1> QED
  BY <1>6, <1>7, <1>8, <1>9, <1>10, Zenon DEF Layered, o

(* An answer fit to be sent.                                                   *)
Fit(b) == b.status \notin {"panic", "overloaded"} /\ Marks \subseteq b.has
(* The layers that may answer on the way in.                                   *)
Stopping == {"cors", "load shed", "body limit", "rate limit", "panic"}

(* The first five layers neither stop a request nor time it out.               *)
LEMMA Outermost ==
    ASSUME NEW o, Layered(o), NEW k \in 1..Len(o), o[k] \in Stopping \cup {"timeout"}
    PROVE  k \in 6..Len(o) /\ k - 1 \in 5..Len(o) /\ k - 1 + 1 = k
<1>1. o[1] \notin Stopping \cup {"timeout"} /\ o[2] \notin Stopping \cup {"timeout"} /\ o[3] \notin Stopping \cup {"timeout"}
      /\ o[4] \notin Stopping \cup {"timeout"} /\ o[5] \notin Stopping \cup {"timeout"}
  <2>1. Hard(o)
    BY Zenon DEF Layered
  <2> QED
    BY <2>1 DEF Hard, Repeated, Stopping
<1>2. k # 1 /\ k # 2 /\ k # 3 /\ k # 4 /\ k # 5
  BY <1>1, Zenon
<1>3. Len(o) \in Nat
  <2>1. o \in Seq(Kinds)
    BY Zenon DEF Layered
  <2> QED
    BY <2>1, LenProperties
<1> QED
  BY <1>2, <1>3

(* What passes the whole onion on its way out is fit, and so is what passes    *)
(* the layers outside one that stops a request or times it out.                *)
LEMMA OutOfOnion ==
    ASSUME NEW o, Layered(o), NEW a, IsAnswer(a)
    PROVE  /\ a.status # "overloaded" => Fit(Unwound(o, a))
           /\ \A m \in 5..Len(o) :
                  a.status # "overloaded" \/ (m + 1 \in 1..Len(o) /\ o[m + 1] = "load shed")
                      => Fit(Unwound(SubSeq(o, 1, m), a))
<1>1. ASSUME a.status # "overloaded" PROVE Fit(Unwound(o, a))
  <2>1. Handled(o, a, 5)
    BY <1>1, Zenon DEF Handled
  <2> QED
    BY <2>1, Hardened, Zenon DEF Layered, Fit
<1>2. ASSUME NEW m \in 5..Len(o),
             a.status # "overloaded" \/ (m + 1 \in 1..Len(o) /\ o[m + 1] = "load shed")
      PROVE  Fit(Unwound(SubSeq(o, 1, m), a))
  <2> DEFINE s == SubSeq(o, 1, m)
  <2>1. Len(o) \in Nat /\ \A k \in 1..m : o[k] \in Kinds
    <3>1. o \in Seq(Kinds)
      BY DEF Layered
    <3>2. Len(o) \in Nat /\ \A k \in 1..Len(o) : o[k] \in Kinds
      BY <3>1, LenProperties
    <3>3. \A k \in 1..m : k \in 1..Len(o)
      BY <3>2
    <3> QED
      BY <3>2, <3>3
  <2>2. s \in Seq(Kinds) /\ Len(s) = m /\ \A k \in 1..m : s[k] = o[k]
    <3>1. m \in Int /\ 1 \in Int /\ 1 <= m
      BY <2>1
    <3>2. /\ s \in Seq(Kinds)
          /\ Len(s) = IF 1 <= m THEN m - 1 + 1 ELSE 0
          /\ \A k \in 1..m - 1 + 1 : s[k] = o[1 + k - 1]
      BY <2>1, <3>1, SubSeqProperties
    <3> HIDE DEF s
    <3>3. m - 1 + 1 = m /\ \A k \in 1..m : 1 + k - 1 = k
      BY <3>1
    <3> QED
      BY <3>1, <3>2, <3>3
  <2> HIDE DEF s
  <2>3. 5 <= Len(s) /\ 1 \in 1..m /\ 2 \in 1..m /\ 3 \in 1..m /\ 4 \in 1..m /\ 5 \in 1..m
    BY <2>1, <2>2
  <2>4. Hard(s)
    BY <2>2, <2>3, Zenon DEF Layered, Hard, Repeated
  <2>5. Handled(s, a, 5)
    <3>1. CASE a.status # "overloaded"
      BY <3>1, Zenon DEF Handled
    <3>2. CASE m + 1 \in 1..Len(o) /\ o[m + 1] = "load shed"
      <4>1. PICK p \in 6..Len(o) : o[p] = "handle error" /\ \A k \in 1..p : o[k] # "load shed"
        BY Zenon DEF Layered
      <4>2. m + 1 \notin 1..p
        BY <3>2, <4>1, Zenon
      <4>3. p \in 5..m /\ p \in 1..m
        BY <2>1, <4>2
      <4>4. s[p] = "handle error"
        BY <2>2, <4>1, <4>3, Zenon
      <4> QED
        BY <2>2, <4>3, <4>4, Zenon DEF Handled
    <3> QED
      BY <1>2, <3>1, <3>2
  <2> QED
    BY <2>2, <2>3, <2>4, <2>5, Hardened, Zenon DEF Fit, s
<1> QED
  BY <1>1, <1>2

(* Above the router: an answer is fit, a panic goes through.                   *)
LEMMA AboveRouter ==
    ASSUME NEW a, IsAnswer(a), a.status # "overloaded"
    PROVE  IF a.status = "panic" THEN Unwound(Above, a).status = "panic" ELSE Fit(Unwound(Above, a))
<1>1. Above \in Seq(Kinds) /\ Len(Above) = 2
  BY DEF Above, Kinds
<1>2. Repeated(Above)
  BY DEF Above, Repeated
<1>3. PICK out : Passes(Above, a, out)
  BY <1>1, Unwinding, Zenon
<1>4. out[3] = a /\ out[2] = Outwards(Above[2], out[3]) /\ out[1] = Outwards(Above[1], out[2]) /\ out[1] = Unwound(Above, a)
  <2>1. out[2 + 1] = a /\ out[1] = Unwound(Above, a) /\ \A k \in 1..2 : out[k] = Outwards(Above[k], out[k + 1])
    BY <1>1, <1>3, Zenon DEF Passes
  <2>2. 1 \in 1..2 /\ 2 \in 1..2 /\ 2 + 1 = 3 /\ 1 + 1 = 2
    OBVIOUS
  <2> QED
    BY <2>1, <2>2
<1>5. CASE a.status = "panic"
  <2>1. \A layer : layer # "catch panic" => Outwards(layer, a) = a
    BY <1>5 DEF Outwards
  <2>2. Above[1] # "catch panic" /\ Above[2] # "catch panic"
    BY <1>2 DEF Repeated
  <2> QED
    BY <1>4, <1>5, <2>1, <2>2
<1>6. CASE a.status # "panic"
  <2>1. 2 <= Len(Above)
    BY <1>1
  <2>2. out[3].status \notin {"panic", "overloaded"}
    BY <1>4, <1>6
  <2>3. Unwound(Above, a).status = out[3].status /\ Marks \subseteq Unwound(Above, a).has
    BY <1>1, <1>2, <1>3, <2>1, <2>2, Marked, Zenon
  <2> QED
    BY <1>6, <2>2, <2>3 DEF Fit
<1> QED
  BY <1>5, <1>6

-----------------------------------------------------------------------------
(* Every answer so far was fit to be sent.                                     *)
HardenedInv == extras \in Registry /\ EveryAnswerHardened
(* The rest of the answer's life: what a layer or a handler says ends as an    *)
(* answer fit to be sent, or in a panic of an embedder's filter.               *)
Sent(b) == Fit(b) \/ (b.status = "panic" /\ extras["filter"] # <<>>)

(* An answer of any handler, and of any layer that stops a request.            *)
LEMMA Statuses ==
    /\ \A x : IsAnswer(Answer(x)) /\ Answer(x).status = x
    /\ \A layer \in Stopping : /\ IsAnswer(StopAnswer(layer))
                               /\ layer # "load shed" => StopAnswer(layer).status # "overloaded"
<1>1. \A x : IsAnswer(Answer(x)) /\ Answer(x).status = x
  BY DEF Answer, IsAnswer
<1>2. ASSUME NEW layer \in Stopping
      PROVE  /\ IsAnswer(StopAnswer(layer))
             /\ layer # "load shed" => StopAnswer(layer).status # "overloaded"
  <2>1. /\ layer = "cors" => StopAnswer(layer) = Answer("200")
        /\ layer = "load shed" => StopAnswer(layer) = Answer("overloaded")
        /\ layer = "body limit" => StopAnswer(layer) = Answer("413")
        /\ layer = "rate limit" => StopAnswer(layer) = Answer("429")
        /\ layer = "panic" => StopAnswer(layer) = Answer("panic")
    BY DEF StopAnswer
  <2>2. layer \in {"cors", "load shed", "body limit", "rate limit", "panic"}
    BY DEF Stopping
  <2>3. \E x : StopAnswer(layer) = Answer(x) /\ (layer # "load shed" => x # "overloaded")
    <3>1. layer # "load shed" => \E x \in {"200", "413", "429", "panic"} : StopAnswer(layer) = Answer(x)
      BY <2>1, <2>2
    <3> QED
      BY <2>1, <3>1
  <2> QED
    BY <1>1, <2>3
<1> QED
  BY <1>1, <1>2

(* The layer that stops a request is the first that would.                     *)
LEMMA FirstStop ==
    ASSUME NEW o, Layered(o), NEW stops, stops \subseteq 1..Len(o), stops # {},
           NEW d, d = CHOOSE k \in stops : \A l \in stops : k <= l
    PROVE  d \in stops /\ \A l \in stops : d <= l
<1>1. o \in Seq(Kinds)
  BY Zenon DEF Layered
<1>2. stops \subseteq Nat
  BY <1>1, LenProperties
<1>3. \E k \in stops : \A l \in stops : k <= l
  BY <1>2, Least
<1> QED
  BY <1>3

(* Where a request that is routed gets to: the layers its branch has, the ones *)
(* that would stop it, and how many it passes.                                 *)
OnionOf(h) == Onion(env, extras, Branch(env, Canonical(h.path)))
StopsOf(h, mishap) == {k \in DOMAIN OnionOf(h) : Stops(OnionOf(h)[k], h, Branch(env, Canonical(h.path)), mishap)}
DepthOf(h, mishap) ==
    IF StopsOf(h, mishap) = {} THEN Len(OnionOf(h)) + 1
    ELSE CHOOSE k \in StopsOf(h, mishap) : \A l \in StopsOf(h, mishap) : k <= l

(* What it means for a request to be routed.                                   *)
LEMMA RouteMeans ==
    ASSUME NEW r, NEW h, NEW mishap, Route(r, h, mishap)
    PROVE  /\ req[r] = Unsent /\ config' = config /\ refills' = refills
           /\ \/ /\ StopsOf(h, mishap) # {}
                 /\ Answered(r, h, Unwound(SubSeq(OnionOf(h), 1, DepthOf(h, mishap) - 1),
                                           StopAnswer(OnionOf(h)[DepthOf(h, mishap)])))
              \/ /\ StopsOf(h, mishap) = {}
                 /\ req' = [req EXCEPT ![r] = [pc |-> "handling", head |-> h, path |-> Canonical(h.path),
                                               branch |-> Branch(env, Canonical(h.path))]]
              \/ /\ StopsOf(h, mishap) = {}
                 /\ \E status \in {"200", "404", "405"} : Answered(r, h, Unwound(OnionOf(h), Answer(status)))
<1>1. /\ req[r] = Unsent /\ config' = config /\ refills' = refills
  BY DEF Route
<1>2. CASE StopsOf(h, mishap) # {}
  BY <1>1, <1>2, Zenon DEF Route, DepthOf, StopsOf, OnionOf
<1>3. CASE StopsOf(h, mishap) = {}
  <2> DEFINE path == Canonical(h.path)
             branch == Branch(env, path)
             status == CASE Matched(path) # {} -> "405"
                         [] branch = "page" -> IF h.method \in {"GET", "HEAD"} THEN "200" ELSE "405"
                         [] OTHER -> "404"
  <2>1. IF HandledBy(path, h.method) # {}
        THEN req' = [req EXCEPT ![r] = [pc |-> "handling", head |-> h, path |-> path, branch |-> branch]]
        ELSE Answered(r, h, Unwound(OnionOf(h), Answer(status)))
    BY <1>3, Zenon DEF Route, StopsOf, OnionOf
  <2>2. status \in {"200", "404", "405"}
    OBVIOUS
  <2> QED
    BY <1>1, <1>3, <2>1, <2>2, Zenon
<1> QED
  BY <1>2, <1>3

(* What it takes of a bucket: a slot for each limiter on the way.               *)
Taken(h, mishap, b) ==
    {k \in 1..DepthOf(h, mishap) - 1 :
        OnionOf(h)[k] = "rate limit" /\ b = <<Branch(env, Canonical(h.path)), KeyOf(h)>>}

(* What a request that is routed takes of the buckets.                         *)
LEMMA RouteTakes ==
    ASSUME NEW r, NEW h, NEW mishap, Route(r, h, mishap)
    PROVE  spent' = [b \in DOMAIN spent |-> spent[b] + Cardinality(Taken(h, mishap, b))]
BY Zenon DEF Route, Taken, DepthOf, StopsOf, OnionOf

(* A layer that stops a request is one of those that may.                      *)
LEMMA Stoppers ==
    ASSUME NEW layer, NEW h, NEW branch, NEW mishap, Stops(layer, h, branch, mishap)
    PROVE  layer \in Stopping
BY DEF Stops, Stopping

(* What is sent keeps every answer hardened.                                   *)
LEMMA Sending ==
    ASSUME ServingInv, HardenedInv, NEW r \in Reqs, NEW h, NEW b, Answered(r, h, b), Sent(b), config' = config
    PROVE  HardenedInv'
<1>1. extras' = extras
  BY DEF config
<1>2. /\ req'[r] = [pc |-> IF b.status = "panic" THEN "dropped" ELSE "answered",
                    head |-> h, ran |-> "none", status |-> b.status, has |-> b.has]
      /\ \A q \in Reqs \ {r} : req'[q] = req[q]
  BY DEF ServingInv, RoutedInv, Answered
<1>3. \A q \in Reqs \ {r} :
          /\ (req'[q].pc = "answered") => Marks \subseteq req'[q].has /\ req'[q].status # "overloaded"
          /\ req'[q].pc = "dropped" => extras["filter"] # <<>>
  BY <1>2, Zenon DEF HardenedInv, EveryAnswerHardened, Done, Marks
<1>4. /\ req'[r].pc = "answered" => Marks \subseteq req'[r].has /\ req'[r].status # "overloaded"
      /\ req'[r].pc = "dropped" => extras["filter"] # <<>>
  <2>1. CASE b.status = "panic"
    BY <1>2, <2>1 DEF Sent, Fit
  <2>2. CASE b.status # "panic"
    <3>1. Fit(b) /\ req'[r].pc = "answered" /\ req'[r].has = b.has /\ req'[r].status = b.status
      BY <1>2, <2>2 DEF Sent
    <3> QED
      BY <3>1 DEF Fit
  <2> QED
    BY <2>1, <2>2
<1>5. \A q \in Reqs :
          /\ (req'[q].pc = "answered") => Marks \subseteq req'[q].has /\ req'[q].status # "overloaded"
          /\ req'[q].pc = "dropped" => extras["filter"] # <<>>
  BY <1>3, <1>4, Zenon
<1> QED
  BY <1>1, <1>5, Zenon DEF HardenedInv, EveryAnswerHardened, Done, Marks

(* A request that is routed is answered fit to be sent, or not yet.            *)
LEMMA RouteAnswers ==
    ASSUME extras \in Registry, NEW r, NEW h, NEW mishap, Route(r, h, mishap)
    PROVE  \/ \E b : Answered(r, h, b) /\ Fit(b)
           \/ \E path, branch : req' = [req EXCEPT ![r] = [pc |-> "handling", head |-> h, path |-> path, branch |-> branch]]
<1> DEFINE o == OnionOf(h)
           stops == StopsOf(h, mishap)
           d == DepthOf(h, mishap)
<1>1. Layered(o)
  BY OnionLayers, Zenon DEF OnionOf
<1>2. CASE stops = {}
  <2>1. ASSUME NEW status \in {"200", "404", "405"} PROVE Fit(Unwound(o, Answer(status)))
    <3>1. IsAnswer(Answer(status)) /\ Answer(status).status # "overloaded"
      BY Statuses
    <3> QED
      BY <1>1, <3>1, OutOfOnion, Zenon
  <2> QED
    BY <1>2, <2>1, RouteMeans, Zenon
<1>3. CASE stops # {}
  <2>1. o \in Seq(Kinds)
    BY <1>1, Zenon DEF Layered
  <2>2. stops \subseteq 1..Len(o)
    BY <2>1, LenProperties DEF StopsOf
  <2>3. d = CHOOSE k \in stops : \A l \in stops : k <= l
    BY <1>3, Zenon DEF DepthOf
  <2>4. d \in stops
    BY <1>1, <1>3, <2>2, <2>3, FirstStop, Zenon
  <2>5. o[d] \in Stopping
    BY <2>4, Stoppers, Zenon DEF StopsOf
  <2>6. d \in 1..Len(o)
    BY <2>2, <2>4, Zenon
  <2>7. d - 1 \in 5..Len(o) /\ d - 1 + 1 = d
    <3>1. o[d] \in Stopping \cup {"timeout"}
      BY <2>5, Zenon
    <3> HIDE DEF o, d
    <3> QED
      BY <1>1, <2>6, <3>1, Outermost, Zenon
  <2>8. Answered(r, h, Unwound(SubSeq(o, 1, d - 1), StopAnswer(o[d])))
    BY <1>3, RouteMeans, Zenon
  <2> DEFINE a == StopAnswer(o[d])
             m == d - 1
  <2> HIDE DEF o, d
  <2>9. IsAnswer(a) /\ (o[d] # "load shed" => a.status # "overloaded")
    BY <2>5, Statuses, Zenon
  <2>10. o[d] = "load shed" => m + 1 \in 1..Len(o) /\ o[m + 1] = "load shed"
    <3>1. m + 1 = d
      BY <2>7, Zenon
    <3> HIDE DEF m
    <3> QED
      BY <2>6, <3>1
  <2>11. m \in 5..Len(o)
    BY <2>7, Zenon
  <2> HIDE DEF a, m
  <2>12. Fit(Unwound(SubSeq(o, 1, m), a))
    BY <1>1, <2>9, <2>10, <2>11, OutOfOnion, Zenon
  <2> QED
    BY <2>8, <2>12, Zenon DEF a, m
<1> QED
  BY <1>2, <1>3

(* Routing keeps every answer hardened.                                        *)
LEMMA RoutingHardened ==
    ASSUME ServingInv, HardenedInv, NEW r \in Reqs, NEW h, NEW mishap, Route(r, h, mishap)
    PROVE  HardenedInv'
<1>1. config' = config
  BY DEF Route
<1>2. ASSUME NEW b, Answered(r, h, b), Fit(b) PROVE HardenedInv'
  BY <1>1, <1>2, Sending DEF Sent
<1>3. ASSUME NEW path, NEW branch,
             req' = [req EXCEPT ![r] = [pc |-> "handling", head |-> h, path |-> path, branch |-> branch]]
      PROVE  HardenedInv'
  <2>1. req'[r].pc = "handling" /\ \A q \in Reqs \ {r} : req'[q] = req[q]
    BY <1>3 DEF ServingInv, RoutedInv
  <2>2. extras' = extras
    BY <1>1 DEF config
  <2> QED
    BY <2>1, <2>2 DEF HardenedInv, EveryAnswerHardened, Done
<1>4. extras \in Registry
  BY DEF HardenedInv
<1> QED
  BY <1>2, <1>3, <1>4, RouteAnswers, Zenon

(* So does what is answered above the router.                                  *)
LEMMA RejectingHardened ==
    ASSUME ServingInv, HardenedInv, NEW r \in Reqs, NEW h, Reject(r, h)
    PROVE  HardenedInv'
<1>1. config' = config
  BY DEF Reject
<1>2. \/ \E status \in {"400", "404"} : Answered(r, h, Unwound(Above, Answer(status)))
      \/ extras["filter"] # <<>> /\ Answered(r, h, Unwound(Above, Answer("panic")))
  BY DEF Reject
<1>3. ASSUME NEW status \in {"400", "404"} PROVE Sent(Unwound(Above, Answer(status)))
  <2>1. IsAnswer(Answer(status)) /\ Answer(status).status \notin {"overloaded", "panic"}
    BY Statuses
  <2> QED
    BY <2>1, AboveRouter DEF Sent
<1>4. extras["filter"] # <<>> => Sent(Unwound(Above, Answer("panic")))
  <2>1. IsAnswer(Answer("panic")) /\ Answer("panic").status = "panic"
    BY Statuses, Zenon
  <2> QED
    BY <2>1, AboveRouter DEF Sent
<1> QED
  BY <1>1, <1>2, <1>3, <1>4, Sending, Zenon

(* So does a handler that ends, in time or not, in a panic or not.             *)
LEMMA FinishingHardened ==
    ASSUME ServingInv, HardenedInv, NEW r \in Reqs,
           NEW outcome \in {"200", "400", "500", "panic", "408"}, Finish(r, outcome)
    PROVE  HardenedInv'
<1> DEFINE o == Onion(env, extras, req[r].branch)
           late == CHOOSE k \in DOMAIN o : o[k] = "timeout"
           b == IF outcome = "408" THEN Unwound(SubSeq(o, 1, late - 1), Answer("408"))
                ELSE Unwound(o, Answer(outcome))
<1>1. Layered(o)
  BY OnionLayers, Zenon DEF HardenedInv
<1>2. \A k \in {"408", outcome} : IsAnswer(Answer(k)) /\ Answer(k).status # "overloaded"
  BY Statuses
<1>3. Fit(b)
  <2>1. CASE outcome = "408"
    <3>1. o \in Seq(Kinds) /\ \E k \in 6..Len(o) : o[k] = "timeout"
      BY <1>1, Zenon DEF Layered
    <3>2. DOMAIN o = 1..Len(o) /\ Len(o) \in Nat
      BY <3>1, LenProperties
    <3>3. \E k \in DOMAIN o : o[k] = "timeout"
      <4>1. \A k \in 6..Len(o) : k \in 1..Len(o)
        BY <3>2
      <4> QED
        BY <3>1, <3>2, <4>1, Zenon
    <3>4. late \in 1..Len(o) /\ o[late] = "timeout"
      BY <3>2, <3>3, Zenon
    <3>5. o[late] \in Stopping \cup {"timeout"}
      BY <3>4, Zenon
    <3> HIDE DEF o, late
    <3>6. late - 1 \in 5..Len(o)
      BY <1>1, <3>4, <3>5, Outermost, Zenon
    <3>7. Fit(Unwound(SubSeq(o, 1, late - 1), Answer("408")))
      BY <1>1, <1>2, <3>6, OutOfOnion, Zenon
    <3> QED
      BY <2>1, <3>7, Zenon
  <2>2. CASE outcome # "408"
    <3> HIDE DEF o
    <3>1. Fit(Unwound(o, Answer(outcome)))
      BY <1>1, <1>2, OutOfOnion, Zenon
    <3> QED
      BY <2>2, <3>1, Zenon
  <2> QED
    BY <2>1, <2>2
<1>4. /\ \E head, ran : req' = [req EXCEPT ![r] = [pc |-> "answered", head |-> head, ran |-> ran,
                                                   status |-> b.status, has |-> b.has]]
      /\ config' = config
  BY DEF Finish
<1> HIDE DEF b
<1>5. /\ req'[r].status = b.status /\ req'[r].has = b.has /\ req'[r].pc = "answered"
      /\ \A q \in Reqs \ {r} : req'[q] = req[q]
  BY <1>4 DEF ServingInv, RoutedInv
<1>6. extras' = extras
  BY <1>4 DEF config
<1>7. Marks \subseteq req'[r].has /\ req'[r].status # "overloaded"
  BY <1>3, <1>5 DEF Fit
<1> QED
  BY <1>5, <1>6, <1>7 DEF HardenedInv, EveryAnswerHardened, Done, Marks

-----------------------------------------------------------------------------
(* The client of a request, and its requests that reached a credential handler. *)
Client(r) == IF env.trust THEN req[r].head.claims ELSE req[r].head.peer
Work(p) == {r \in Reqs : Reached(r) = "credentials" /\ p = Client(r)}

(* What reached the handlers has been paid for: by slots that are still taken, *)
(* or by slots that were given back.                                           *)
WorkInv ==
    /\ env \in Envs /\ extras \in Registry
    /\ spent \in [Tiers \X Peers -> Nat] /\ refills \in Nat
    /\ env.limiting => \A p \in Peers : /\ Cardinality(Work(p)) <= spent[<<"credentials", p>>] + refills
                                        /\ Cardinality(Work(p)) <= env.authBurst + refills

(* The requests of any client are finitely many.                               *)
LEMMA WorkFinite ==
    ASSUME NEW p
    PROVE  IsFiniteSet(Work(p)) /\ Cardinality(Work(p)) \in Nat
<1>1. IsFiniteSet(Reqs)
  BY ServingAssumption
<1>2. Work(p) \in SUBSET Reqs
  BY DEF Work
<1> QED
  BY <1>1, <1>2, FS_Subset, FS_CardinalityType

(* Where nobody gets to a handler nothing has to be paid.                      *)
LEMMA NoWork ==
    ASSUME WorkInv, config' = config, refills' = refills,
           \A p \in Peers : Work(p)' = Work(p),
           spent' \in [Tiers \X Peers -> Nat], \A b \in Tiers \X Peers : spent[b] <= spent'[b]
    PROVE  WorkInv'
<1>1. env' = env /\ extras' = extras
  BY DEF config
<1>2. ASSUME NEW p \in Peers, env.limiting
      PROVE  /\ Cardinality(Work(p)') <= spent'[<<"credentials", p>>] + refills
             /\ Cardinality(Work(p)') <= env.authBurst + refills
  <2>1. <<"credentials", p>> \in Tiers \X Peers
    BY DEF Tiers
  <2> DEFINE b == <<"credentials", p>>
             w == Cardinality(Work(p))
  <2>2. w <= spent[b] + refills /\ w <= env.authBurst + refills
    BY <1>2, Zenon DEF WorkInv
  <2>3. w \in Nat /\ spent[b] \in Nat /\ spent'[b] \in Nat /\ refills \in Nat /\ spent[b] <= spent'[b]
    BY <2>1, WorkFinite DEF WorkInv
  <2>4. Cardinality(Work(p)') = w
    BY Zenon
  <2> HIDE DEF w, b
  <2>5. w <= spent'[b] + refills
    BY <2>2, <2>3
  <2> QED
    BY <2>2, <2>4, <2>5, Zenon DEF b
<1> QED
  BY <1>1, <1>2, Zenon DEF WorkInv

(* A request that is not at a handler is nobody's work.                        *)
LEMMA NotWork ==
    ASSUME ServingInv, NEW r \in Reqs, Reached(r) # "credentials", env' = env,
           \A q \in Reqs \ {r} : req'[q] = req[q], Reached(r)' # "credentials"
    PROVE  \A p : Work(p)' = Work(p)
<1>1. \A q \in Reqs \ {r} : Reached(q)' = Reached(q) /\ Client(q)' = Client(q)
  BY DEF Reached, Done, Client
<1> QED
  BY <1>1 DEF Work

(* What takes slots takes them from the buckets there are.                     *)
LEMMA RouteSpends ==
    ASSUME WorkInv, NEW r, NEW h \in Heads, NEW mishap, Route(r, h, mishap)
    PROVE  /\ spent' \in [Tiers \X Peers -> Nat] /\ \A b \in Tiers \X Peers : spent[b] <= spent'[b]
           /\ (/\ StopsOf(h, mishap) = {} /\ env.limiting
               /\ Branch(env, Canonical(h.path)) = "credentials")
                  => /\ spent[<<"credentials", KeyOf(h)>>] + 1 <= spent'[<<"credentials", KeyOf(h)>>]
                     /\ spent[<<"credentials", KeyOf(h)>>] + 1 <= env.authBurst
<1> DEFINE o == OnionOf(h)
           n == DepthOf(h, mishap) - 1
           branch == Branch(env, Canonical(h.path))
           Slots(b) == Taken(h, mishap, b)
<1>1. Layered(o)
  BY OnionLayers, Zenon DEF OnionOf, WorkInv
<1>2. o \in Seq(Kinds)
  BY <1>1, Zenon DEF Layered
<1>3. Len(o) \in Nat /\ DOMAIN o = 1..Len(o)
  BY <1>2, LenProperties
<1>4. n \in Nat /\ (StopsOf(h, mishap) = {} => n = Len(o))
  <2>1. CASE StopsOf(h, mishap) = {}
    <3>1. DepthOf(h, mishap) = Len(o) + 1
      BY <2>1, Zenon DEF DepthOf
    <3> QED
      BY <1>3, <3>1
  <2>2. CASE StopsOf(h, mishap) # {}
    <3> DEFINE stops == StopsOf(h, mishap)
               d == DepthOf(h, mishap)
    <3>1. stops \subseteq 1..Len(o)
      BY <1>3 DEF StopsOf
    <3>2. d = CHOOSE k \in stops : \A l \in stops : k <= l
      BY <2>2, Zenon DEF DepthOf
    <3>3. d \in stops
      BY <1>1, <2>2, <3>1, <3>2, FirstStop, Zenon
    <3>4. d \in 1..Len(o)
      BY <3>1, <3>3, Zenon
    <3> QED
      BY <1>3, <2>2, <3>4
  <2> QED
    BY <2>1, <2>2
<1>5. spent' = [b \in DOMAIN spent |-> spent[b] + Cardinality(Slots(b))]
  BY RouteTakes, Zenon
<1> HIDE DEF n
<1>6. ASSUME NEW b PROVE IsFiniteSet(Slots(b)) /\ Cardinality(Slots(b)) \in Nat
  <2>1. IsFiniteSet(1..n)
    BY <1>4, FS_Interval
  <2>2. Slots(b) \in SUBSET (1..n)
    BY DEF Taken, n
  <2> HIDE DEF Slots
  <2> QED
    BY <2>1, <2>2, FS_Subset, FS_CardinalityType
<1>7. ASSUME NEW b, Slots(b) # {} PROVE Cardinality(Slots(b)) >= 1
  <2> HIDE DEF Slots
  <2>1. Cardinality(Slots(b)) # 0
    BY <1>6, <1>7, FS_EmptySet, Zenon
  <2> QED
    BY <1>6, <2>1
<1> DEFINE c(b) == Cardinality(Slots(b))
<1>8. /\ spent \in [Tiers \X Peers -> Nat] /\ \A b \in Tiers \X Peers : spent'[b] = spent[b] + c(b) /\ c(b) \in Nat
      /\ spent' = [b \in Tiers \X Peers |-> spent[b] + c(b)]
  <2>1. spent \in [Tiers \X Peers -> Nat]
    BY DEF WorkInv
  <2>2. DOMAIN spent = Tiers \X Peers
    BY <2>1
  <2> HIDE DEF Slots
  <2> QED
    BY <1>5, <1>6, <2>1, <2>2
<1>9. ASSUME StopsOf(h, mishap) = {}, env.limiting, branch = "credentials"
      PROVE  /\ spent[<<"credentials", KeyOf(h)>>] + 1 <= spent'[<<"credentials", KeyOf(h)>>]
             /\ spent[<<"credentials", KeyOf(h)>>] + 1 <= env.authBurst
  <2> DEFINE b == <<"credentials", KeyOf(h)>>
  <2>1. b \in Tiers \X Peers
    BY DEF KeyOf, Peers, Tiers
  <2>2. PICK k \in 1..Len(o) : o[k] = "rate limit"
    BY <1>9, OnionLayers, Zenon DEF OnionOf, WorkInv
  <2>3. k \in Slots(b)
    <3>1. k \in 1..n
      BY <1>4, <1>9, <2>2, Zenon
    <3> QED
      BY <1>9, <2>2, <3>1 DEF Taken, n
  <2>4. c(b) >= 1
    BY <1>7, <2>3, Zenon
  <2>5. ~Stops(o[k], h, branch, mishap)
    BY <1>3, <1>9, Zenon DEF StopsOf
  <2>6. ~(spent[b] >= env.authBurst)
    <3>1. ~(spent[<<branch, KeyOf(h)>>] >= Burst(branch))
      BY <2>2, <2>5, Zenon DEF Stops
    <3>2. branch # "api"
      BY <1>9
    <3> QED
      BY <1>9, <3>1, <3>2, Zenon DEF Burst
  <2>7. env.authBurst \in Nat
    BY ServingAssumption, Zenon DEF WorkInv
  <2> HIDE DEF c, b, Slots
  <2>8. spent'[b] = spent[b] + c(b) /\ c(b) \in Nat /\ spent[b] \in Nat
    BY <1>8, <2>1
  <2>9. spent[b] + 1 <= spent'[b]
    BY <2>4, <2>8
  <2>10. spent[b] + 1 <= env.authBurst
    BY <2>6, <2>7, <2>8
  <2> QED
    BY <2>9, <2>10 DEF b
<1> HIDE DEF c
<1>10. spent' \in [Tiers \X Peers -> Nat] /\ \A b \in Tiers \X Peers : spent[b] <= spent'[b]
  <2>1. \A b \in Tiers \X Peers : spent[b] \in Nat /\ spent[b] + c(b) \in Nat /\ spent[b] <= spent[b] + c(b)
    BY <1>8
  <2> QED
    BY <1>8, <2>1
<1> QED
  BY <1>9, <1>10

(* Routing lets nobody past an empty bucket.                                   *)
LEMMA RoutingPaid ==
    ASSUME ServingInv, WorkInv, NEW r \in Reqs, NEW h \in Heads, NEW mishap, Route(r, h, mishap)
    PROVE  WorkInv'
<1>1. req[r] = Unsent /\ config' = config /\ refills' = refills /\ env' = env /\ extras' = extras
  <2>1. req[r] = Unsent /\ config' = config /\ refills' = refills
    BY RouteMeans, Zenon
  <2> QED
    BY <2>1 DEF config
<1>2. Reached(r) = "none" /\ env' = env
  BY <1>1 DEF Reached, Done, Unsent
<1>3. spent' \in [Tiers \X Peers -> Nat] /\ \A b \in Tiers \X Peers : spent[b] <= spent'[b]
  BY RouteSpends
<1>4. ASSUME NEW b, Answered(r, h, b) PROVE WorkInv'
  <2>1. /\ req'[r].ran = "none" /\ req'[r].pc \in {"answered", "dropped"}
        /\ \A q \in Reqs \ {r} : req'[q] = req[q]
    BY <1>4 DEF ServingInv, RoutedInv, Answered
  <2>2. Reached(r)' = "none"
    BY <2>1 DEF Reached, Done
  <2>3. \A p : Work(p)' = Work(p)
    BY <1>2, <2>1, <2>2, NotWork
  <2> QED
    BY <1>1, <1>3, <2>3, NoWork
<1>5. ASSUME StopsOf(h, mishap) = {},
             req' = [req EXCEPT ![r] = [pc |-> "handling", head |-> h, path |-> Canonical(h.path),
                                        branch |-> Branch(env, Canonical(h.path))]]
      PROVE  WorkInv'
  <2> DEFINE branch == Branch(env, Canonical(h.path))
             key == KeyOf(h)
  <2>1. /\ req'[r].pc = "handling" /\ req'[r].head = h /\ req'[r].branch = branch
        /\ \A q \in Reqs \ {r} : req'[q] = req[q]
    BY <1>5 DEF ServingInv, RoutedInv
  <2>2. Reached(r)' = branch /\ Client(r)' = key
    BY <1>1, <2>1 DEF Reached, Done, Client, KeyOf
  <2>3. CASE branch # "credentials"
    <3>1. \A p : Work(p)' = Work(p)
      BY <1>2, <2>1, <2>2, <2>3, NotWork
    <3> QED
      BY <1>1, <1>3, <3>1, NoWork
  <2>4. CASE branch = "credentials"
    <3>1. \A q \in Reqs \ {r} : Reached(q)' = Reached(q) /\ Client(q)' = Client(q)
      BY <1>1, <2>1 DEF Reached, Done, Client
    <3>2. \A p : Work(p)' = IF p = key THEN Work(p) \cup {r} ELSE Work(p)
      BY <1>2, <2>2, <2>4, <3>1 DEF Work
    <3>3. \A p : r \notin Work(p)
      BY <1>2 DEF Work
    <3> HIDE DEF key
    <3>4. ASSUME NEW p \in Peers, env.limiting
          PROVE  /\ Cardinality(Work(p)') <= spent'[<<"credentials", p>>] + refills
                 /\ Cardinality(Work(p)') <= env.authBurst + refills
      <4> DEFINE b == <<"credentials", p>>
                 w == Cardinality(Work(p))
                 burst == env.authBurst
      <4>1. b \in Tiers \X Peers
        BY DEF Tiers
      <4>2. w <= spent[b] + refills /\ w <= burst + refills
        BY <3>4, Zenon DEF WorkInv
      <4>3. w \in Nat
        BY WorkFinite, Zenon
      <4>4. spent[b] \in Nat /\ spent'[b] \in Nat /\ refills \in Nat /\ spent[b] <= spent'[b]
        BY <4>1, <1>3 DEF WorkInv
      <4>5. burst \in Nat
        BY ServingAssumption, Zenon DEF WorkInv
      <4>6. CASE p # key
        <5>1. Cardinality(Work(p)') = w
          BY <3>2, <4>6, Zenon
        <5> HIDE DEF w, b, burst
        <5>2. w <= spent'[b] + refills
          BY <4>2, <4>3, <4>4
        <5> QED
          BY <4>2, <5>1, <5>2, Zenon DEF b, burst
      <4>7. CASE p = key
        <5>1. Work(p)' = Work(p) \cup {r} /\ r \notin Work(p) /\ IsFiniteSet(Work(p))
          BY <3>2, <3>3, <4>7, WorkFinite, Zenon
        <5>2. Cardinality(Work(p)') = w + 1
          BY <5>1, FS_AddElement
        <5>3. spent[b] + 1 <= spent'[b] /\ spent[b] + 1 <= burst
          BY <1>5, <2>4, <3>4, <4>7, RouteSpends, Zenon DEF key
        <5> HIDE DEF w, b, burst
        <5>4. w + 1 <= spent'[b] + refills /\ w + 1 <= burst + refills
          BY <4>2, <4>3, <4>4, <4>5, <5>3
        <5> QED
          BY <5>2, <5>4, Zenon DEF b, burst
      <4> QED
        BY <4>6, <4>7
    <3> QED
      BY <1>1, <1>3, <3>4, Zenon DEF WorkInv
  <2> QED
    BY <2>3, <2>4
<1> QED
  BY <1>4, <1>5, RouteMeans, Zenon

(* A handler that ends has been counted when it began.                         *)
LEMMA FinishingPaid ==
    ASSUME ServingInv, WorkInv, NEW r \in Reqs, NEW outcome, Finish(r, outcome)
    PROVE  WorkInv'
<1>1. req[r].pc = "handling" /\ config' = config /\ refills' = refills /\ spent' = spent /\ env' = env
  BY DEF Finish, config
<1>2. req[r].head \in Request
  BY <1>1, HeadsAssumption DEF ServingInv, RoutedInv, Vetted
<1>3. /\ req'[r].pc = "answered" /\ req'[r].ran = req[r].branch
      /\ req'[r].head = [req[r].head EXCEPT !.path = req[r].path]
      /\ \A q \in Reqs \ {r} : req'[q] = req[q]
  <2>1. \E status, has : req' = [req EXCEPT ![r] = [pc |-> "answered", head |-> [req[r].head EXCEPT !.path = req[r].path],
                                                    ran |-> req[r].branch, status |-> status, has |-> has]]
    BY DEF Finish
  <2> QED
    BY <2>1 DEF ServingInv, RoutedInv
<1>4. req'[r].head.claims = req[r].head.claims /\ req'[r].head.peer = req[r].head.peer
  BY <1>2, <1>3 DEF Request
<1>5. \A q \in Reqs : Reached(q)' = Reached(q) /\ Client(q)' = Client(q)
  <2>1. Reached(r)' = Reached(r) /\ Client(r)' = Client(r)
    BY <1>1, <1>3, <1>4 DEF Reached, Done, Client
  <2>2. \A q \in Reqs \ {r} : Reached(q)' = Reached(q) /\ Client(q)' = Client(q)
    BY <1>1, <1>3 DEF Reached, Done, Client
  <2> QED
    BY <2>1, <2>2
<1>6. \A p : Work(p)' = Work(p)
  BY <1>5 DEF Work
<1>7. spent' \in [Tiers \X Peers -> Nat] /\ \A b \in Tiers \X Peers : spent[b] <= spent'[b]
  BY <1>1 DEF WorkInv
<1> QED
  BY <1>1, <1>6, <1>7, NoWork

(* A slot that is given back is counted as given back.                         *)
LEMMA ReplenishingPaid ==
    ASSUME WorkInv, NEW c \in Tiers \X Peers, Replenish(c)
    PROVE  WorkInv'
<1>1. /\ env' = env /\ extras' = extras /\ req' = req /\ refills' = refills + 1 /\ spent[c] > 0
      /\ spent' = [spent EXCEPT ![c] = @ - 1]
  BY DEF Replenish, config
<1>2. /\ spent \in [Tiers \X Peers -> Nat] /\ refills \in Nat
  BY DEF WorkInv
<1>3. refills' \in Nat /\ spent' \in [Tiers \X Peers -> Nat] /\ \A b \in Tiers \X Peers : spent[b] <= spent'[b] + 1
  BY <1>1, <1>2
<1>4. \A p : Work(p)' = Work(p)
  BY <1>1 DEF Work, Reached, Done, Client
<1>5. ASSUME NEW p \in Peers, env.limiting
      PROVE  /\ Cardinality(Work(p)') <= spent'[<<"credentials", p>>] + refills'
             /\ Cardinality(Work(p)') <= env.authBurst + refills'
  <2> DEFINE b == <<"credentials", p>>
             w == Cardinality(Work(p))
             burst == env.authBurst
  <2>1. b \in Tiers \X Peers
    BY DEF Tiers
  <2>2. w <= spent[b] + refills /\ w <= burst + refills
    BY <1>5, Zenon DEF WorkInv
  <2>3. w \in Nat
    BY WorkFinite, Zenon
  <2>4. burst \in Nat
    BY ServingAssumption, Zenon DEF WorkInv
  <2>5. spent[b] \in Nat /\ spent'[b] \in Nat /\ spent[b] <= spent'[b] + 1
    BY <1>2, <1>3, <2>1
  <2>6. Cardinality(Work(p)') = w
    BY <1>4, Zenon
  <2> HIDE DEF w, b, burst
  <2>7. w <= spent'[b] + refills' /\ w <= burst + refills'
    BY <1>1, <1>2, <2>2, <2>3, <2>4, <2>5
  <2> QED
    BY <2>6, <2>7, Zenon DEF b, burst
<1> QED
  BY <1>1, <1>3, <1>5, Zenon DEF WorkInv

-----------------------------------------------------------------------------
(* Every step keeps the answers hardened.                                      *)
LEMMA HardenedPreserved == ServingInv /\ HardenedInv /\ [Next]_vars => HardenedInv'
<1> SUFFICES ASSUME ServingInv, HardenedInv, [Next]_vars PROVE HardenedInv'
  OBVIOUS
<1>1. ASSUME req' = req, extras' = extras PROVE HardenedInv'
  BY <1>1 DEF HardenedInv, EveryAnswerHardened, Done
<1>2. CASE ReadConfig \/ Connect \/ Bootstrap \/ Bind \/ Resolve \/ LoadTls
  BY <1>1, <1>2 DEF ReadConfig, Connect, Bootstrap, Bind, Resolve, LoadTls, Step, config
<1>3. CASE (\E b \in Tiers \X Peers : Replenish(b)) \/ UNCHANGED vars
  BY <1>1, <1>3 DEF Replenish, config, vars
<1>4. CASE \E r \in Reqs, h \in Heads : Reject(r, h)
  BY <1>4, RejectingHardened
<1>5. CASE \E r \in Reqs, h \in Heads : \E m \in {"none", "overloaded", "too large"} : Route(r, h, m)
  BY <1>5, RoutingHardened
<1>6. CASE \E r \in Reqs, o \in {"200", "400", "500", "panic", "408"} : Finish(r, o)
  BY <1>6, FinishingHardened
<1> QED
  BY <1>2, <1>3, <1>4, <1>5, <1>6 DEF Next

(* Every step keeps what reached the credential handlers paid for.             *)
LEMMA WorkPreserved == ServingInv /\ WorkInv /\ [Next]_vars => WorkInv'
<1> SUFFICES ASSUME ServingInv, WorkInv, [Next]_vars PROVE WorkInv'
  OBVIOUS
<1>0. spent \in [Tiers \X Peers -> Nat] /\ \A b \in Tiers \X Peers : spent[b] <= spent[b]
  BY DEF WorkInv
<1>1. ASSUME req' = req, config' = config, spent' = spent, refills' = refills PROVE WorkInv'
  <2>1. \A p : Work(p)' = Work(p)
    BY <1>1 DEF Work, Reached, Done, Client, config
  <2> QED
    BY <1>0, <1>1, <2>1, NoWork
<1>2. CASE ReadConfig \/ Connect \/ Bootstrap \/ Bind \/ Resolve \/ LoadTls
  BY <1>1, <1>2 DEF ReadConfig, Connect, Bootstrap, Bind, Resolve, LoadTls, Step, config
<1>3. CASE UNCHANGED vars
  BY <1>1, <1>3 DEF config, vars
<1>4. ASSUME NEW r \in Reqs, NEW h \in Heads, Reject(r, h) PROVE WorkInv'
  <2>1. /\ req[r] = Unsent /\ config' = config /\ env' = env /\ spent' = spent /\ refills' = refills
        /\ \E b : Answered(r, h, b)
    BY <1>4 DEF Reject, config
  <2>2. /\ req'[r].ran = "none" /\ req'[r].pc \in {"answered", "dropped"}
        /\ \A q \in Reqs \ {r} : req'[q] = req[q]
    BY <2>1 DEF ServingInv, RoutedInv, Answered
  <2>3. Reached(r) = "none" /\ Reached(r)' = "none"
    BY <2>1, <2>2 DEF Reached, Done, Unsent
  <2>4. \A p : Work(p)' = Work(p)
    BY <2>1, <2>2, <2>3, NotWork
  <2> QED
    BY <1>0, <2>1, <2>4, NoWork
<1>5. CASE \E r \in Reqs, h \in Heads : \E m \in {"none", "overloaded", "too large"} : Route(r, h, m)
  BY <1>5, RoutingPaid
<1>6. CASE \E r \in Reqs, o \in {"200", "400", "500", "panic", "408"} : Finish(r, o)
  BY <1>6, FinishingPaid
<1>7. CASE \E b \in Tiers \X Peers : Replenish(b)
  BY <1>7, ReplenishingPaid
<1> QED
  BY <1>2, <1>3, <1>4, <1>5, <1>6, <1>7 DEF Next

(* At the start nobody has any work done.                                      *)
LEMMA WorkInitially == Init => WorkInv
<1> SUFFICES ASSUME Init PROVE WorkInv
  OBVIOUS
<1>1. /\ env \in Envs /\ extras \in Registry /\ refills \in Nat
      /\ spent \in [Tiers \X Peers -> Nat] /\ \A b \in Tiers \X Peers : spent[b] = 0
  BY ServingAssumption DEF Init
<1>2. ASSUME NEW p \in Peers
      PROVE  /\ Cardinality(Work(p)) <= spent[<<"credentials", p>>] + refills
             /\ Cardinality(Work(p)) <= env.authBurst + refills
  <2>1. Work(p) = {}
    BY DEF Init, Work, Reached, Done, Unsent
  <2>2. Cardinality(Work(p)) = 0
    BY <2>1, FS_EmptySet
  <2>3. spent[<<"credentials", p>>] = 0 /\ refills = 0
    BY <1>1 DEF Tiers, Init
  <2>4. env.authBurst \in Nat
    BY <1>1, ServingAssumption
  <2> QED
    BY <2>2, <2>3, <2>4
<1> QED
  BY <1>1, <1>2, Zenon DEF WorkInv

(* Every answer leaves with the request id and the headers of all answers,     *)
(* whatever layers an embedder adds, wherever it was made and whatever         *)
(* panicked on the way; only a panic above the router drops a connection.      *)
THEOREM AnswersHardened == Spec => []EveryAnswerHardened
<1>1. Init => HardenedInv
  BY ServingAssumption DEF Init, HardenedInv, EveryAnswerHardened, Done, Unsent
<1>2. HardenedInv => EveryAnswerHardened
  BY DEF HardenedInv
<1> QED
  BY <1>1, <1>2, HardenedPreserved, Invariant, PTL DEF Spec

(* No client reaches the credential handlers more often than its bucket and    *)
(* the slots given back, for any number of requests, clients and buckets.      *)
THEOREM WorkBounded == Spec => []CredentialWorkBounded
<1>1. WorkInv => CredentialWorkBounded
  <2> SUFFICES ASSUME WorkInv PROVE CredentialWorkBounded
    OBVIOUS
  <2>1. \A p : Work(p) = {r \in Reqs : /\ Reached(r) = "credentials"
                                       /\ p = IF env.trust THEN req[r].head.claims ELSE req[r].head.peer}
    BY DEF Work, Client
  <2> QED
    BY <2>1 DEF WorkInv, CredentialWorkBounded
<1> QED
  BY <1>1, WorkInitially, WorkPreserved, Invariant, PTL DEF Spec

(* A process that serves has been vetted: the limiters that production insists *)
(* on are among the layers built, whatever an embedder adds to them.           *)
THEOREM Vetting == Spec => []OnlyVettedServes
<1>1. ServingInv /\ WorkInv => OnlyVettedServes
  <2> SUFFICES ASSUME ServingInv, WorkInv, phase = "serving" PROVE OnlyVettedServes
    BY DEF OnlyVettedServes
  <2>1. Accepted(env) /\ PluginsAccept(env)
    BY DEF ServingInv, PhaseInv
  <2>2. /\ TlsRead(env) /\ SecurityRead(env) /\ (IsProduction(env) => env.tls # {})
        /\ RateLimitAccepts(env) /\ HostGuardAccepts(env)
    BY <2>1 DEF Accepted, PluginsAccept
  <2>3. IsProduction(env) => env.tls = {"cert", "key"}
    BY <2>2 DEF TlsRead
  <2>4. ASSUME IsProduction(env), NEW tier \in Tiers PROVE "rate limit" \in ToSet(Layers(env, extras, tier))
    <3> DEFINE l == Layers(env, extras, tier)
    <3>1. env.limiting
      BY <2>2, <2>4 DEF RateLimitAccepts
    <3>2. tier \in Stages /\ tier \in {"api", "credentials"}
      BY DEF Tiers, Stages
    <3>3. l \in Seq(Kinds)
      BY <3>2, StageLayers, Zenon DEF WorkInv
    <3>4. 1 <= Len(l)
      BY <3>1, <3>2, StageLayers, Zenon DEF WorkInv
    <3>5. l[1] = "rate limit"
      BY <3>1, <3>2, StageLayers, Zenon DEF WorkInv
    <3> HIDE DEF l
    <3>6. 1 \in DOMAIN l
      BY <3>3, <3>4
    <3>7. "rate limit" \in ToSet(l)
      BY <3>5, <3>6, Zenon DEF ToSet
    <3> QED
      BY <3>7 DEF l
  <2>5. "*" \notin env.origins \cup env.hosts /\ env.secret \notin {"unset", "short"}
    BY <2>2 DEF SecurityRead, HostGuardAccepts
  <2>6. ASSUME NEW tier \in Tiers, env.limiting PROVE Burst(tier) > 0
    <3>1. env.authBurst # 0 /\ env.apiBurst # 0
      BY <2>2, <2>6 DEF RateLimitAccepts
    <3>2. env.authBurst \in Nat /\ env.apiBurst \in Nat
      BY ServingAssumption DEF WorkInv
    <3>3. Burst(tier) \in {env.authBurst, env.apiBurst}
      BY DEF Burst
    <3> QED
      BY <3>1, <3>2, <3>3
  <2> QED
    BY <2>3, <2>4, <2>5, <2>6 DEF OnlyVettedServes
<1> QED
  BY <1>1, WorkPreserved, WorkInitially, Invariant, PTL DEF Spec
=============================================================================
