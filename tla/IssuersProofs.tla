---------------------------- MODULE IssuersProofs ----------------------------
(* Theorems about Issuers, for any instances, environments, tokens, sessions, *)
(* lifetimes and drift within the leeway.                                      *)
EXTENDS Issuers, TLAPS

-----------------------------------------------------------------------------
(* Environments a process runs in, and tokens as they are issued there.       *)
Running == {env \in Envs : Accepted(env)}
Minted == [at : 0..MaxTime, by : Instances, env : Running, session : Sessions]
Formats == {"jwt", "local", "public", "opaque"}

TypeInv ==
    /\ server \in [Instances -> {Down} \cup Running]
    /\ skew \in [Instances -> 0..Drift]
    /\ issued \in [Tokens -> {Unissued} \cup Minted]
    /\ now \in 0..MaxTime
    /\ erased \subseteq Tokens

(* A token that is out was issued in the past, and one that was revoked was    *)
(* out; every row is that of an opaque token that is out and not revoked, with *)
(* its session and its expiry.  Its session may have been ended before.        *)
RowsInv ==
    /\ \A t \in Tokens : Out(t) => issued[t].at <= now
    /\ \A t \in erased : Out(t)
    /\ \A row \in rows :
        /\ row.token \in Tokens /\ Out(row.token)
        /\ Format(issued[row.token].env) = "opaque"
        /\ row.session = issued[row.token].session /\ row.token \notin erased
        /\ row.expires = issued[row.token].at + skew[issued[row.token].by] + Ttl

(* The row of an opaque token is there until it is revoked or the fastest      *)
(* clock may have passed its expiry.                                           *)
KeptInv ==
    \A t \in Tokens :
        (Out(t) /\ Format(issued[t].env) = "opaque" /\ t \notin erased
         /\ now < issued[t].at + Ttl - Drift)
        => \E row \in rows : row.token = t

IInv == TypeInv /\ RowsInv /\ KeptInv

-----------------------------------------------------------------------------
(* An instance only runs in one of the four formats.                          *)
LEMMA RunningFormat ==
    ASSUME NEW e \in Running
    PROVE  Format(e) \in Formats
<1>1. Parses(TokenFormat, e.format)
  BY DEF Running, Accepted, SecurityRead
<1>2. Format(e) \in DOMAIN TokenFormat
  BY <1>1 DEF Format, Parses, Parsed
<1> QED
  BY <1>2 DEF TokenFormat, Formats

(* The initial states satisfy the inductive invariant.                       *)
LEMMA Initially == Init => IInv
<1> SUFFICES ASSUME Init PROVE IInv
  OBVIOUS
<1>1. \A t \in Tokens : ~Out(t)
  BY DEF Init, Out
<1>2. TypeInv
  BY IssuersAssumption DEF Init, TypeInv
<1> QED
  BY <1>1, <1>2 DEF Init, IInv, RowsInv, KeptInv

(* Every step keeps the invariant.  Issuing adds a row for a token that had    *)
(* none and was never out, so never revoked; an opaque issuer revokes the      *)
(* tokens of a session by deleting their rows in one step; a sweep takes a row *)
(* only when even the slowest clock has passed its expiry less the drift.      *)
LEMMA Preserved == IInv /\ [Next]_vars => IInv'
<1> SUFFICES ASSUME IInv, [Next]_vars PROVE IInv'
  OBVIOUS
<1> USE IssuersAssumption DEF IInv
<1>1. ASSUME NEW i \in Instances, NEW env \in Envs, Start(i, env) PROVE IInv'
  <2>1. env \in Running
    BY <1>1 DEF Start, Running
  <2>2. server' \in [Instances -> {Down} \cup Running]
    BY <1>1, <2>1 DEF Start, TypeInv
  <2> QED
    BY <1>1, <2>2 DEF Start, TypeInv, RowsInv, KeptInv, Out
<1>2. ASSUME NEW i \in Instances, Stop(i) PROVE IInv'
  BY <1>2 DEF Stop, TypeInv, RowsInv, KeptInv, Out
<1>3. ASSUME NEW i \in Instances, Sweep(i) PROVE IInv'
  <2>1. TypeInv' /\ RowsInv'
    BY <1>3 DEF Sweep, TypeInv, RowsInv, Out
  <2>2. ASSUME NEW t \in Tokens, Out(t), Format(issued[t].env) = "opaque",
               t \notin erased, now < issued[t].at + Ttl - Drift
        PROVE  \E row \in rows' : row.token = t
    <3>1. PICK row \in rows : row.token = t
      BY <2>2 DEF KeptInv
    <3>2. issued[t] \in Minted
      BY <2>2 DEF TypeInv, Out
    <3>3. row.expires = issued[t].at + skew[issued[t].by] + Ttl
      BY <3>1 DEF RowsInv
    <3>4. /\ issued[t].at \in Nat /\ issued[t].by \in Instances
          /\ skew[issued[t].by] \in 0..Drift /\ skew[i] \in 0..Drift /\ now \in Nat
      BY <3>2 DEF TypeInv, Minted
    <3>5. row.expires >= Clock(i)
      BY <2>2, <3>3, <3>4 DEF Clock
    <3> QED
      BY <1>3, <3>1, <3>5 DEF Sweep
  <2> QED
    BY <1>3, <2>1, <2>2 DEF Sweep, KeptInv, Out
<1>4. ASSUME NEW i \in Instances, NEW S \in SUBSET Sessions, End(i, S) PROVE IInv'
  <2>1. UNCHANGED <<server, skew, issued, now>>
    BY <1>4 DEF End
  <2>2. CASE Fmt(i) = "opaque"
    <3>1. erased' = erased \cup OutOf(S) /\ rows' = {row \in rows : row.session \notin S}
      BY <1>4, <2>2 DEF End
    <3>2. TypeInv' /\ RowsInv'
      BY <2>1, <3>1 DEF TypeInv, RowsInv, Out, OutOf
    <3>3. ASSUME NEW t \in Tokens, Out(t), Format(issued[t].env) = "opaque",
                 t \notin erased', now < issued[t].at + Ttl - Drift
          PROVE  \E row \in rows' : row.token = t
      <4>1. PICK row \in rows : row.token = t
        BY <3>1, <3>3 DEF KeptInv
      <4>2. row.session = issued[t].session
        BY <4>1 DEF RowsInv
      <4>3. issued[t].session \notin S
        BY <3>1, <3>3 DEF OutOf
      <4> QED
        BY <3>1, <4>1, <4>2, <4>3
    <3> QED
      BY <2>1, <3>2, <3>3 DEF KeptInv, Out
  <2>3. CASE Fmt(i) # "opaque"
    <3>1. UNCHANGED <<erased, rows>>
      BY <1>4, <2>3 DEF End
    <3> QED
      BY <2>1, <3>1 DEF TypeInv, RowsInv, KeptInv, Out
  <2> QED
    BY <2>2, <2>3
<1>5. ASSUME NEW i \in Instances, NEW t \in Tokens, NEW s \in Sessions, Issue(i, t, s) PROVE IInv'
  <2> DEFINE new == [at |-> now, by |-> i, env |-> server[i], session |-> s]
  <2>1. /\ issued' = [issued EXCEPT ![t] = new] /\ ~Out(t)
        /\ UNCHANGED <<server, skew, erased, now>>
    BY <1>5 DEF Issue
  <2>2. new \in Minted
    BY <1>5 DEF Issue, Up, TypeInv, Minted
  <2>3. issued'[t] = new /\ \A x \in Tokens \ {t} : issued'[x] = issued[x]
    BY <2>1 DEF TypeInv
  <2>4. issued' \in [Tokens -> {Unissued} \cup Minted]
    BY <2>1, <2>2 DEF TypeInv
  <2>5. new.at # MaxTime + 1
    BY DEF TypeInv
  <2>6. new # Unissued
    BY <2>5 DEF Unissued
  <2>7. \A x \in Tokens : Out(x)' <=> x = t \/ Out(x)
    BY <2>3, <2>6 DEF Out, Unissued
  <2>8. t \notin erased
    BY <2>1 DEF RowsInv
  <2>9. \A row \in rows : row.token \in Tokens \ {t}
    BY <2>1 DEF RowsInv
  <2>10. TypeInv'
    BY <2>1, <2>4 DEF TypeInv
  <2>11. CASE Fmt(i) # "opaque"
    <3>1. rows' = rows
      BY <1>5, <2>11 DEF Issue
    <3>2. Format(new.env) # "opaque"
      BY <2>11 DEF Fmt
    <3>3. RowsInv'
      BY <2>1, <2>3, <2>7, <2>9, <3>1 DEF RowsInv, TypeInv
    <3>4. KeptInv'
      BY <2>1, <2>3, <2>7, <3>1, <3>2 DEF KeptInv
    <3> QED
      BY <2>10, <3>3, <3>4
  <2>12. CASE Fmt(i) = "opaque"
    <3> DEFINE fresh == [token |-> t, session |-> s, expires |-> Clock(i) + Ttl]
    <3>1. rows' = rows \cup {fresh}
      BY <1>5, <2>12 DEF Issue
    <3>2. Format(new.env) = "opaque"
      BY <2>12 DEF Fmt
    <3>3. fresh.expires = new.at + skew[new.by] + Ttl
      BY DEF Clock
    <3>4. RowsInv'
      BY <2>1, <2>3, <2>7, <2>8, <2>9, <3>1, <3>2, <3>3 DEF RowsInv, TypeInv
    <3>5. ASSUME NEW x \in Tokens, Out(x)', Format(issued'[x].env) = "opaque",
                 x \notin erased, now < issued'[x].at + Ttl - Drift
          PROVE  \E row \in rows' : row.token = x
      <4>1. CASE x = t
        <5>1. fresh \in rows'
          BY <3>1
        <5>2. fresh.token = t
          OBVIOUS
        <5> HIDE DEF fresh
        <5> QED
          BY <4>1, <5>1, <5>2
      <4>2. CASE x # t
        BY <2>3, <2>7, <3>1, <3>5, <4>2 DEF KeptInv
      <4> QED
        BY <4>1, <4>2
    <3>6. KeptInv'
      BY <2>1, <3>5 DEF KeptInv
    <3> QED
      BY <2>10, <3>4, <3>6
  <2> QED
    BY <2>11, <2>12
<1>6. CASE Tick
  <2>1. now' = now + 1 /\ now' \in 0..MaxTime
    BY <1>6 DEF Tick, TypeInv
  <2>2. UNCHANGED <<server, skew, issued, rows, erased>>
    BY <1>6 DEF Tick
  <2>3. TypeInv'
    BY <2>1, <2>2 DEF TypeInv
  <2>4. \A t \in Tokens : Out(t) => issued[t].at \in Nat
    BY DEF TypeInv, Minted, Out
  <2>5. RowsInv'
    BY <2>1, <2>2, <2>4 DEF RowsInv, TypeInv, Out
  <2>6. KeptInv'
    BY <2>1, <2>2, <2>4 DEF KeptInv, TypeInv, Out
  <2> QED
    BY <2>3, <2>5, <2>6
<1>7. CASE UNCHANGED vars
  BY <1>7 DEF vars, TypeInv, RowsInv, KeptInv, Out
<1>8. ASSUME NEW i \in Instances, NEW s \in Sessions, Logout(i, s) \/ EndAll(i, Owner[s]) PROVE IInv'
  BY <1>4, <1>8 DEF Logout, EndAll
<1> QED
  BY <1>1, <1>2, <1>3, <1>5, <1>6, <1>7, <1>8 DEF Next

(* In every reachable state every row of access_tokens is that of an opaque  *)
(* token that is out and was never revoked, and such a token has its row     *)
(* until it is revoked or a sweep may take it.                               *)
THEOREM Invariant == Spec => []IInv
<1> QED
  BY Initially, Preserved, PTL DEF Spec

-----------------------------------------------------------------------------
(* A stored token that was out when an opaque issuer ended its session is      *)
(* honoured by no instance, in whichever format it runs: its row is gone for   *)
(* good, since only its issue made one, and no other codec opens a reference.  *)
LEMMA RevokedIsRefused == IInv => StoredRevocationHolds
<1> SUFFICES ASSUME IInv, NEW i \in Instances, NEW t \in erased, Honours(i, t),
                    Format(issued[t].env) = "opaque"
             PROVE  FALSE
  BY DEF StoredRevocationHolds
<1>1. Wire(t).format = "opaque"
  BY DEF Wire
<1>2. Fmt(i) = "opaque"
  BY <1>1 DEF Honours, JwtVerify, PasetoVerify, Fmt
<1>3. \E row \in rows : row.token = t
  BY <1>2 DEF Honours, OpaqueVerify
<1> QED
  BY <1>3 DEF IInv, RowsInv

(* A stored token that was out when an opaque issuer ended its session is    *)
(* never honoured again, whatever was restarted in between, also while       *)
(* refreshes that were under way go on issuing tokens of that session.       *)
THEOREM RevocationHolds == Spec => []StoredRevocationHolds
<1> QED
  BY Invariant, RevokedIsRefused, PTL

(* What a token's environment and its reader's must have in common, codec by   *)
(* codec: the keys of two formats are never equal, and two equal ones are made *)
(* of the same secret or pair.                                                 *)
LEMMA SameKey ==
    ASSUME NEW m \in Running, NEW r \in Running,
           Format(m) = Format(r), Format(r) # "opaque", Signing(m) = Verifying(r),
           m.issuer = r.issuer, m.audience = r.audience
    PROVE  SameDeployment(m, r)
<1>1. Format(r) \in {"jwt", "local", "public"}
  BY RunningFormat DEF Formats
<1>2. CASE Format(r) = "public"
  BY <1>2 DEF SameDeployment, Signing, Verifying
<1>3. CASE Format(r) = "jwt"
  BY <1>3 DEF SameDeployment, Signing, Verifying
<1>4. CASE Format(r) = "local"
  BY <1>4 DEF SameDeployment, Signing, Verifying
<1> QED
  BY <1>1, <1>2, <1>3, <1>4

(* An instance that is up and a token that is out have the types that        *)
(* honouring reads.                                                          *)
LEMMA MintedIsMinted ==
    ASSUME TypeInv, NEW i \in Instances, NEW t \in Tokens, Up(i), Out(t)
    PROVE  /\ issued[t] \in Minted /\ issued[t].env \in Running /\ server[i] \in Running
           /\ issued[t].at \in Nat /\ issued[t].by \in Instances /\ now \in Nat
           /\ skew[i] \in 0..Drift /\ skew[issued[t].by] \in 0..Drift
           /\ Format(issued[t].env) \in Formats /\ Format(server[i]) \in Formats
<1>1. issued[t] \in Minted /\ server[i] \in Running
  BY DEF TypeInv, Out, Up
<1>2. issued[t].env \in Running /\ issued[t].by \in Instances /\ issued[t].at \in Nat
  BY <1>1, IssuersAssumption DEF Minted
<1>3. /\ now \in Nat /\ skew[i] \in 0..Drift /\ skew[issued[t].by] \in 0..Drift
  BY <1>2, IssuersAssumption DEF TypeInv
<1> QED
  BY <1>1, <1>2, <1>3, RunningFormat

(* A token opens the API only under the format, key, issuer and audience it    *)
(* was minted under, and no longer after its issue than its lifetime, the      *)
(* leeway and the drift.                                                       *)
LEMMA HonouredImpliesMinted == IInv => HonouredOnlyAsMinted
<1> SUFFICES ASSUME IInv, NEW i \in Instances, NEW t \in Tokens, Honours(i, t)
             PROVE  /\ SameDeployment(issued[t].env, server[i])
                    /\ now <= issued[t].at + Ttl + (IF Fmt(i) = "jwt" THEN Leeway ELSE 0)
                                     + (IF i = issued[t].by THEN 0 ELSE Drift)
  BY DEF HonouredOnlyAsMinted
<1> DEFINE k == issued[t]
<1>1. Up(i) /\ Out(t) /\ TypeInv
  BY DEF Honours, IInv
<1>2. /\ k.env \in Running /\ server[i] \in Running
      /\ k.at \in Nat /\ now \in Nat /\ skew[i] \in 0..Drift /\ skew[k.by] \in 0..Drift
      /\ Fmt(i) \in Formats
  BY <1>1, MintedIsMinted DEF Fmt
<1>3. /\ Ttl \in Nat /\ Leeway \in Nat /\ Drift \in Nat
  BY IssuersAssumption
<1>4. CASE Fmt(i) = "jwt"
  <2>1. JwtVerify(server[i], Wire(t), Clock(i))
    BY <1>4 DEF Honours
  <2>2. SameDeployment(k.env, server[i])
    BY <1>2, <1>4, <2>1, SameKey DEF JwtVerify, Wire, AddressedTo, Fmt
  <2>3. now + skew[i] <= k.at + skew[k.by] + Ttl + Leeway
    BY <2>1 DEF JwtVerify, Wire, Clock
  <2> QED
    BY <1>2, <1>3, <1>4, <2>2, <2>3
<1>5. CASE Fmt(i) = "opaque"
  <2>1. PICK row \in rows : row.token = t /\ row.expires > Clock(i)
    BY <1>5 DEF Honours, OpaqueVerify
  <2>2. /\ Format(k.env) = "opaque" /\ row.expires = k.at + skew[k.by] + Ttl
    BY <2>1 DEF IInv, RowsInv
  <2>3. SameDeployment(k.env, server[i])
    BY <1>5, <2>2 DEF SameDeployment, Fmt
  <2>4. now + skew[i] < k.at + skew[k.by] + Ttl
    BY <2>1, <2>2 DEF Clock
  <2> QED
    BY <1>2, <1>3, <1>5, <2>3, <2>4
<1>6. CASE Fmt(i) \in {"local", "public"}
  <2>1. PasetoVerify(server[i], Wire(t), Clock(i))
    BY <1>6 DEF Honours
  <2>2. SameDeployment(k.env, server[i])
    BY <1>2, <1>6, <2>1, SameKey DEF PasetoVerify, Wire, AddressedTo, Fmt
  <2>3. now + skew[i] < k.at + skew[k.by] + Ttl
    BY <2>1 DEF PasetoVerify, Wire, Clock
  <2> QED
    BY <1>2, <1>3, <1>6, <2>2, <2>3
<1> QED
  BY <1>2, <1>4, <1>5, <1>6 DEF Formats

(* A token opens the API only under the format, key, issuer and audience it  *)
(* was minted under, and no longer than its lifetime, the leeway and the     *)
(* drift.                                                                    *)
THEOREM Minting == Spec => []HonouredOnlyAsMinted
<1> QED
  BY Invariant, HonouredImpliesMinted, PTL

(* The advertised lifetime is kept: by the issuer itself in every format, and  *)
(* by every instance with the leeway of the JWT codec.                         *)
LEMMA AdvertisedIsKept == IInv => AdvertisedLifetimeKept
<1> SUFFICES ASSUME IInv, NEW i \in Instances, NEW t \in Tokens, Up(i), Out(t),
                    SameDeployment(issued[t].env, server[i]),
                    i = issued[t].by \/ Fmt(i) = "jwt",
                    Fmt(i) = "opaque" => t \notin erased,
                    now < issued[t].at + Ttl - (IF Fmt(i) = "opaque" THEN Drift ELSE 0)
             PROVE  Honours(i, t)
  BY DEF AdvertisedLifetimeKept
<1> DEFINE k == issued[t]
<1>1. /\ k.env \in Running /\ server[i] \in Running
      /\ k.at \in Nat /\ now \in Nat /\ skew[i] \in 0..Drift /\ skew[k.by] \in 0..Drift
      /\ Fmt(i) \in Formats
  BY MintedIsMinted DEF Fmt, IInv
<1>2. /\ Ttl \in Nat /\ Leeway \in Nat /\ Drift \in Nat /\ Drift <= Leeway
  BY IssuersAssumption
<1>3. k.at <= now /\ Format(k.env) = Fmt(i)
  BY DEF IInv, RowsInv, SameDeployment, Fmt
<1>4. Fmt(i) # "opaque" => Signing(k.env) = Verifying(server[i]) /\ AddressedTo(server[i], Wire(t))
  BY <1>1, <1>3 DEF SameDeployment, Signing, Verifying, AddressedTo, Wire, Fmt, Formats
<1>5. CASE Fmt(i) = "jwt"
  <2>1. /\ k.at + skew[k.by] <= now + skew[i] + Leeway
        /\ now + skew[i] <= k.at + skew[k.by] + Ttl + Leeway
    BY <1>1, <1>2, <1>3, <1>5
  <2> QED
    BY <1>3, <1>4, <1>5, <2>1 DEF Honours, JwtVerify, Wire, Clock
<1>6. CASE Fmt(i) = "opaque"
  <2>1. PICK row \in rows : row.token = t
    BY <1>3, <1>6 DEF IInv, KeptInv
  <2>2. row.expires = k.at + skew[k.by] + Ttl
    BY <2>1 DEF IInv, RowsInv
  <2>3. row.expires > now + skew[i]
    BY <1>1, <1>2, <1>6, <2>2
  <2> QED
    BY <1>6, <2>1, <2>3 DEF Honours, OpaqueVerify, Clock
<1>7. CASE Fmt(i) \in {"local", "public"}
  <2>1. /\ k.at + skew[k.by] <= now + skew[i]
        /\ now + skew[i] < k.at + skew[k.by] + Ttl
    BY <1>1, <1>2, <1>3, <1>7
  <2> QED
    BY <1>3, <1>4, <1>7, <2>1 DEF Honours, PasetoVerify, Wire, Clock, Fmt
<1> QED
  BY <1>1, <1>5, <1>6, <1>7 DEF Formats

(* A token is honoured for the lifetime advertised as expires_in by the      *)
(* issuer that minted it, and with the leeway of the format by every         *)
(* instance of the deployment.                                               *)
THEOREM Advertised == Spec => []AdvertisedLifetimeKept
<1> QED
  BY Invariant, AdvertisedIsKept, PTL
=============================================================================
