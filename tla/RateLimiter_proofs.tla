-------------------------- MODULE RateLimiter_proofs --------------------------
(***************************************************************************)
(* What the limiter admits, for every number of addresses and connections, *)
(* every burst and rate, and every window of time.  The budget is not      *)
(* inductive: the invariant adds what the bucket still holds (Counted),    *)
(* and, for an address without a bucket, that its burst has been waited    *)
(* for, which is where the assumption on stale_after_seconds is needed.    *)
(***************************************************************************)
EXTENDS RateLimiter, FiniteSetTheorems, TLAPS

\* No bucket, and not the observer, is ahead of the clock.
InThePast ==
    /\ \A c \in DOMAIN conns : conns[c].bucket.at <= now
    /\ \A ip \in DOMAIN table : table[ip].at <= now
    /\ since <= now

\* Tokens and charges together stay within the budget up to the last refill.
Counted ==
    IF Watched \notin DOMAIN table
    THEN spent <= IpRate * (now - since)
    ELSE IF table[Watched].at >= since
    THEN table[Watched].tokens + spent <= IpBurst + IpRate * (table[Watched].at - since)
    ELSE spent = 0

TableSmall == IsFiniteSet(DOMAIN table) /\ TableBounded

IInv == TypeOK /\ InThePast /\ TableSmall /\ Counted

-----------------------------------------------------------------------------
\* Products with the refill rate.
LEMMA Rates ==
    ASSUME NEW rate \in Nat, NEW a \in Int, NEW b \in Int
    PROVE  /\ rate * a \in Int
           /\ rate * (a + b) = rate * a + rate * b
           /\ a <= b => rate * a <= rate * b
           /\ a >= 0 => rate * a >= 0
           /\ rate * 0 = 0
<1>1. rate * a \in Int /\ rate * (a + b) = rate * a + rate * b /\ rate * 0 = 0
  OBVIOUS
<1>2. \A x \in Nat : rate * x >= 0
  OBVIOUS
<1>3. ASSUME a <= b PROVE rate * a <= rate * b
  <2>1. b - a \in Nat /\ b = a + (b - a)
    BY <1>3
  <2>2. rate * b = rate * a + rate * (b - a)
    BY <2>1
  <2> QED
    BY <1>2, <2>1, <2>2
<1> QED
  BY <1>1, <1>2, <1>3

\* A charged bucket is a bucket; what it lost it had, or time brought it.
LEMMA Charging ==
    ASSUME NEW burst \in Nat, NEW rate \in Nat, NEW b \in Bucket(burst),
           NEW t \in Nat, b.at <= t
    PROVE  /\ Charged(b, burst, rate, t) \in Bucket(burst)
           /\ Charged(b, burst, rate, t).at = t
           /\ Affords(b, burst, rate, t) =>
                  /\ Charged(b, burst, rate, t).tokens + Cost <= burst
                  /\ Charged(b, burst, rate, t).tokens + Cost
                         <= b.tokens + rate * (t - b.at)
           /\ ~Affords(b, burst, rate, t) =>
                  Charged(b, burst, rate, t).tokens <= b.tokens + rate * (t - b.at)
<1>1. b.tokens \in 0 .. burst /\ b.at \in Nat
  BY DEF Bucket
<1>2. t - b.at \in Nat
  BY <1>1
<1>3. rate * (t - b.at) \in Nat
  BY <1>2, Rates
<1> DEFINE have == Refilled(b, burst, rate, t)
<1>4. have \in 0 .. burst /\ have <= b.tokens + rate * (t - b.at)
  BY <1>1, <1>3 DEF Refilled, Least
<1>5. Cost \in Nat \ {0}
  BY LimitsAssumption
<1>6. Charged(b, burst, rate, t) =
          [tokens |-> IF have >= Cost THEN have - Cost ELSE have, at |-> t]
  BY DEF Charged, Affords
<1>7. Affords(b, burst, rate, t) <=> have >= Cost
  BY DEF Affords
<1> HIDE DEF have
<1> QED
  BY <1>4, <1>5, <1>6, <1>7, <1>3, <1>1 DEF Bucket

LEMMA FullBucket ==
    ASSUME NEW burst \in Nat, NEW t \in Nat
    PROVE  Full(burst, t) \in Bucket(burst) /\ Full(burst, t).at = t
           /\ Full(burst, t).tokens = burst
BY DEF Full, Bucket

\* Whoever survives was fresh, and leaves room for one.
LEMMA Surviving ==
    ASSUME IsFiniteSet(DOMAIN table), TableBounded, NEW ip, NEW t,
           NEW kept \in Survivors(ip, t)
    PROVE  /\ kept \subseteq Fresh(t) /\ Fresh(t) \subseteq DOMAIN table
           /\ ip \in Fresh(t) => kept = Fresh(t)
           /\ IsFiniteSet(kept \cup {ip})
           /\ Cardinality(kept \cup {ip}) <= MaxIps
<1>1. Fresh(t) \subseteq DOMAIN table
  BY DEF Fresh
<1>2. IsFiniteSet(Fresh(t)) /\ Cardinality(Fresh(t)) <= Cardinality(DOMAIN table)
  BY <1>1, FS_Subset
<1>3. Cardinality(Fresh(t)) \in Nat /\ Cardinality(DOMAIN table) \in Nat
  BY <1>2, FS_CardinalityType
<1>4. MaxIps \in Nat /\ Cardinality(Fresh(t)) <= MaxIps
  BY <1>2, <1>3, LimitsAssumption DEF TableBounded
<1>5. CASE ip \in Fresh(t)
  <2>1. kept = Fresh(t) /\ kept \cup {ip} = Fresh(t)
    BY <1>5 DEF Survivors
  <2> QED
    BY <2>1, <1>1, <1>2, <1>4
<1>6. CASE ip \notin Fresh(t) /\ Cardinality(Fresh(t)) < MaxIps
  <2>1. kept = Fresh(t)
    BY <1>6 DEF Survivors
  <2>2. IsFiniteSet(kept \cup {ip})
        /\ Cardinality(kept \cup {ip}) = Cardinality(kept) + 1
    BY <2>1, <1>2, <1>6, FS_AddElement
  <2> QED
    BY <2>1, <2>2, <1>1, <1>3, <1>4, <1>6
<1>7. CASE ip \notin Fresh(t) /\ ~(Cardinality(Fresh(t)) < MaxIps)
  <2>1. PICK old \in Fresh(t) : kept = Fresh(t) \ {old}
    BY <1>7 DEF Survivors
  <2>2. IsFiniteSet(kept) /\ Cardinality(kept) = Cardinality(Fresh(t)) - 1
    BY <2>1, <1>2, FS_RemoveElement
  <2>3. IsFiniteSet(kept \cup {ip})
        /\ Cardinality(kept \cup {ip}) = Cardinality(kept) + 1
    BY <2>1, <2>2, <1>7, FS_AddElement
  <2> QED
    BY <2>1, <2>2, <2>3, <1>1, <1>3, <1>4, <1>7
<1> QED
  BY <1>5, <1>6, <1>7

\* An address that has no bucket at time u, because it never had one or was
\* forgotten at t as stale, has waited for its whole burst.
LEMMA Forgotten ==
    ASSUME TypeOK, InThePast, Counted, NEW t \in Nat, NEW u \in Nat,
           now <= t, t <= u, Watched \notin Fresh(t)
    PROVE  spent <= IpRate * (u - since)
<1> USE LimitsAssumption
<1>1. now \in Nat /\ since \in Nat /\ spent \in Nat /\ since <= now
  BY DEF TypeOK, InThePast
<1>2. CASE Watched \notin DOMAIN table
  <2>1. spent <= IpRate * (now - since)
    BY <1>2 DEF Counted
  <2>2. IpRate * (now - since) <= IpRate * (u - since)
        /\ IpRate * (now - since) \in Int /\ IpRate * (u - since) \in Int
    BY <1>1, Rates
  <2> QED
    BY <2>1, <2>2, <1>1
<1>3. CASE Watched \in DOMAIN table
  <2> DEFINE at == table[Watched].at
             tokens == table[Watched].tokens
  <2>1. at \in Nat /\ tokens \in Nat /\ at <= now
    BY <1>3 DEF TypeOK, InThePast, Bucket
  <2>2. t - at >= Stale
    BY <1>3, <2>1 DEF Fresh
  <2>3. IF at >= since THEN tokens + spent <= IpBurst + IpRate * (at - since)
        ELSE spent = 0
    BY <1>3 DEF Counted
  <2> HIDE DEF at, tokens
  <2>4. CASE at >= since
    <3>1. IpRate * Stale <= IpRate * (u - at) /\ IpRate * (u - at) \in Int
          /\ IpRate * Stale \in Int
      <4>1. Stale <= u - at /\ Stale \in Int /\ u - at \in Int
        BY <2>1, <2>2
      <4> QED
        BY <4>1, Rates
    <3>2. IpRate * (u - since) = IpRate * (u - at) + IpRate * (at - since)
      <4>1. u - since = (u - at) + (at - since)
        BY <1>1, <2>1
      <4> QED
        BY <4>1, <1>1, <2>1, Rates
    <3>3. IpRate * (at - since) \in Int
      BY <1>1, <2>1, Rates
    <3> QED
      BY <3>1, <3>2, <3>3, <2>1, <2>3, <2>4, <1>1, StaleIsLong
  <2>5. CASE ~(at >= since)
    <3>1. IpRate * (u - since) >= 0 /\ spent = 0
      BY <2>3, <2>5, <1>1, Rates
    <3> QED
      BY <3>1
  <2> QED
    BY <2>4, <2>5
<1> QED
  BY <1>2, <1>3

\* Charging an address keeps the table and the count in order.
TableTypes ==
    /\ DOMAIN table \subseteq Ips
    /\ table \in [DOMAIN table -> Bucket(IpBurst)]

LEMMA Allowing ==
    ASSUME IInv, NEW ip \in Ips, NEW t \in Nat, NEW u \in Nat,
           now <= t, t <= u, now' = u, AllowIp(ip, t, u)
    PROVE  /\ TableTypes' /\ TableSmall' /\ Counted'
           /\ \A k \in DOMAIN table' : table'[k].at <= now'
           /\ since' \in Nat /\ since' <= now' /\ spent' \in Nat
<1> USE LimitsAssumption
<1>1. /\ TypeOK /\ InThePast /\ Counted
      /\ IsFiniteSet(DOMAIN table) /\ TableBounded
  BY DEF IInv, TableSmall
<1>2. now \in Nat /\ since \in Nat /\ spent \in Nat /\ since <= now
      /\ \A k \in DOMAIN table : /\ table[k] \in Bucket(IpBurst)
                                 /\ table[k].at \in Nat /\ table[k].at <= now
  BY <1>1 DEF TypeOK, InThePast, Bucket
<1>3. PICK kept \in Survivors(ip, t) :
          LET b == IF ip \in kept THEN table[ip] ELSE Full(IpBurst, u)
          IN  /\ table' = [k \in kept \cup {ip} |->
                               IF k = ip THEN Charged(b, IpBurst, IpRate, u)
                               ELSE table[k]]
              /\ IF Watched \in Fresh(t) \ kept
                 THEN since' = u /\ spent' = 0
                 ELSE /\ UNCHANGED since
                      /\ spent' = IF ip = Watched /\ Affords(b, IpBurst, IpRate, u)
                                  THEN spent + Cost
                                  ELSE spent
  BY DEF AllowIp
<1> DEFINE b == IF ip \in kept THEN table[ip] ELSE Full(IpBurst, u)
<1> DEFINE after == Charged(b, IpBurst, IpRate, u)
<1> DEFINE paid == Affords(b, IpBurst, IpRate, u)
<1>4. /\ kept \subseteq Fresh(t) /\ Fresh(t) \subseteq DOMAIN table
      /\ ip \in Fresh(t) => kept = Fresh(t)
      /\ IsFiniteSet(kept \cup {ip}) /\ Cardinality(kept \cup {ip}) <= MaxIps
  BY <1>1, Surviving
<1>5. /\ table' = [k \in kept \cup {ip} |-> IF k = ip THEN after ELSE table[k]]
      /\ IF Watched \in Fresh(t) \ kept
         THEN since' = u /\ spent' = 0
         ELSE /\ since' = since
              /\ spent' = IF ip = Watched /\ paid THEN spent + Cost ELSE spent
  BY <1>3
<1>6. b \in Bucket(IpBurst) /\ b.at <= u
  <2>1. CASE ip \in kept
    BY <2>1, <1>2, <1>4
  <2>2. CASE ip \notin kept
    BY <2>2, FullBucket
  <2> QED
    BY <2>1, <2>2
<1>7. /\ after \in Bucket(IpBurst) /\ after.at = u
      /\ paid => /\ after.tokens + Cost <= IpBurst
                 /\ after.tokens + Cost <= b.tokens + IpRate * (u - b.at)
      /\ ~paid => after.tokens <= b.tokens + IpRate * (u - b.at)
  BY <1>6, Charging
<1>8. b.tokens \in 0 .. IpBurst /\ b.at \in Nat
      /\ after.tokens \in 0 .. IpBurst
  BY <1>6, <1>7 DEF Bucket
<1>9. ip \notin kept => b.tokens = IpBurst /\ b.at = u
  BY FullBucket
<1>10. ip \in kept => b = table[ip]
  OBVIOUS
<1> HIDE DEF b, after, paid
<1>11. TableTypes'
  BY <1>1, <1>2, <1>4, <1>5, <1>7 DEF TypeOK, TableTypes
<1>12. TableSmall'
  <2>1. DOMAIN table' = kept \cup {ip}
    BY <1>5
  <2> QED
    BY <2>1, <1>4 DEF TableSmall, TableBounded
<1>13. \A k \in DOMAIN table' : table'[k].at <= now'
  <2> SUFFICES ASSUME NEW k \in DOMAIN table' PROVE table'[k].at <= u
    OBVIOUS
  <2>1. CASE k = ip
    BY <2>1, <1>5, <1>7
  <2>2. CASE k # ip
    <3>1. k \in DOMAIN table /\ table'[k] = table[k]
      BY <2>2, <1>4, <1>5
    <3> QED
      BY <3>1, <1>2
  <2> QED
    BY <2>1, <2>2
<1>14. since' \in Nat /\ since' <= now' /\ spent' \in Nat
  BY <1>2, <1>5
<1>15. Counted'
  <2>1. CASE Watched \in Fresh(t) \ kept
    <3>1. Watched # ip /\ Watched \notin DOMAIN table'
      BY <2>1, <1>4, <1>5
    <3>2. IpRate * (now' - since') = 0 /\ spent' = 0
      BY <2>1, <1>5, Rates
    <3> QED
      BY <3>1, <3>2 DEF Counted
  <2>2. CASE Watched \notin Fresh(t) \ kept /\ Watched # ip
    <3>1. since' = since /\ spent' = spent
      BY <2>2, <1>5
    <3>2. CASE Watched \in kept
      <4>1. Watched \in DOMAIN table /\ Watched \in DOMAIN table'
            /\ table'[Watched] = table[Watched]
        BY <2>2, <3>2, <1>4, <1>5
      <4> QED
        BY <4>1, <3>1, <1>1 DEF Counted
    <3>3. CASE Watched \notin kept
      <4>1. Watched \notin DOMAIN table' /\ Watched \notin Fresh(t)
        BY <2>2, <3>3, <1>5
      <4>2. spent <= IpRate * (u - since)
        BY <4>1, <1>1, Forgotten
      <4> QED
        BY <4>1, <4>2, <3>1 DEF Counted
    <3> QED
      BY <3>2, <3>3
  <2>3. CASE Watched = ip
    <3>1. Watched \in DOMAIN table' /\ table'[Watched] = after
          /\ since' = since
          /\ spent' = IF paid THEN spent + Cost ELSE spent
      BY <2>3, <1>4, <1>5
    <3>2. u >= since /\ after.at = u
      BY <1>2, <1>7
    <3>3. after.tokens + spent' <= IpBurst + IpRate * (u - since)
      <4>0. /\ IpRate * (u - since) \in Nat /\ IpRate * (u - b.at) \in Nat
        BY <1>2, <1>6, <1>8, <3>2, Rates
      <4>1. CASE ip \notin kept
        <5>1. spent <= IpRate * (u - since)
          <6>1. Watched \notin Fresh(t)
            BY <4>1, <2>3, <1>4
          <6> QED
            BY <6>1, <1>1, Forgotten
        <5>2. after.tokens + (spent' - spent) <= IpBurst
          BY <3>1, <1>2, <1>7, <1>8
        <5> QED
          BY <5>1, <5>2, <4>0, <1>2, <1>8, <3>1
      <4>2. CASE ip \in kept /\ b.at >= since
        <5>1. b.tokens + spent <= IpBurst + IpRate * (b.at - since)
          BY <4>2, <2>3, <1>1, <1>4, <1>10 DEF Counted
        <5>2. IpRate * (u - since) = IpRate * (u - b.at) + IpRate * (b.at - since)
          <6>1. u - since = (u - b.at) + (b.at - since)
            BY <1>2, <1>8
          <6> QED
            BY <6>1, <1>2, <1>8, Rates
        <5>3. IpRate * (b.at - since) \in Int
          BY <1>2, <1>8, Rates
        <5> QED
          BY <5>1, <5>2, <5>3, <4>0, <1>2, <1>7, <1>8, <3>1
      <4>3. CASE ip \in kept /\ ~(b.at >= since)
        <5>1. spent = 0
          BY <4>3, <2>3, <1>1, <1>4, <1>10 DEF Counted
        <5> QED
          BY <5>1, <4>0, <1>7, <1>8, <3>1
      <4> QED
        BY <4>1, <4>2, <4>3
    <3> QED
      BY <3>1, <3>2, <3>3 DEF Counted
  <2> QED
    BY <2>1, <2>2, <2>3
<1> QED
  BY <1>11, <1>12, <1>13, <1>14, <1>15

-----------------------------------------------------------------------------
LEMMA InitInv == Init => IInv
<1> SUFFICES ASSUME Init PROVE IInv
  OBVIOUS
<1>1. DOMAIN table = {} /\ DOMAIN conns = {} /\ now = 0 /\ since = 0 /\ spent = 0
  BY DEF Init
<1>2. TypeOK
  BY <1>1 DEF Init, TypeOK
<1>3. IsFiniteSet({}) /\ Cardinality({}) = 0
  BY FS_EmptySet
<1>4. TableSmall
  BY <1>1, <1>3, LimitsAssumption DEF TableSmall, TableBounded
<1>5. Counted
  BY <1>1, LimitsAssumption, Rates DEF Counted
<1> QED
  BY <1>1, <1>2, <1>4, <1>5 DEF IInv, InThePast

\* The disjuncts of Next keep the invariant.
LEMMA StepInv == IInv /\ [Next]_vars => IInv'
<1> USE LimitsAssumption
<1> SUFFICES ASSUME IInv, [Next]_vars PROVE IInv'
  OBVIOUS
<1>0. /\ now \in Nat /\ since \in Nat /\ spent \in Nat /\ since <= now
      /\ DOMAIN conns \subseteq Conns
      /\ \A c \in DOMAIN conns : /\ conns[c].ip \in Ips
                                 /\ conns[c].bucket \in Bucket(ConnBurst)
                                 /\ conns[c].bucket.at <= now
      /\ conns \in [DOMAIN conns -> [ip : Ips, bucket : Bucket(ConnBurst)]]
      /\ \A b \in Bucket(ConnBurst) : b.at \in Nat
      /\ \A ip \in DOMAIN table : table[ip] \in Bucket(IpBurst)
  BY DEF IInv, TypeOK, InThePast, Bucket
<1>1. ASSUME NEW c \in Conns, Message(c) PROVE IInv'
  <2> DEFINE charged == Charged(conns[c].bucket, ConnBurst, ConnRate, now)
  <2>1. c \in DOMAIN conns /\ conns' = [conns EXCEPT ![c].bucket = charged]
    BY <1>1 DEF Message
  <2>2. charged \in Bucket(ConnBurst) /\ charged.at = now
    BY <2>1, <1>0, Charging
  <2> HIDE DEF charged
  <2>3. /\ DOMAIN conns' = DOMAIN conns
        /\ conns' \in [DOMAIN conns' -> [ip : Ips, bucket : Bucket(ConnBurst)]]
        /\ \A d \in DOMAIN conns' : conns'[d].bucket.at <= now
    BY <2>1, <2>2, <1>0
  <2>4. CASE UNCHANGED <<now, table, since, spent>>
    BY <2>3, <2>4, <1>0 DEF IInv, TypeOK, InThePast, TableSmall, TableBounded, Counted
  <2>5. CASE ~UNCHANGED <<now, table, since, spent>>
    <3>1. PICK t \in now .. now + Delay : \E u \in t .. t + Delay :
              u <= MaxNow /\ now' = u /\ AllowIp(conns[c].ip, t, u)
      BY <1>1, <2>5 DEF Message
    <3>2. PICK u \in t .. t + Delay : now' = u /\ AllowIp(conns[c].ip, t, u)
      BY <3>1
    <3>3. t \in Nat /\ u \in Nat /\ now <= t /\ t <= u /\ conns[c].ip \in Ips
      BY <1>0, <2>1, <3>1, <3>2
    <3>4. /\ TableTypes' /\ TableSmall' /\ Counted'
          /\ \A k \in DOMAIN table' : table'[k].at <= now'
          /\ since' \in Nat /\ since' <= now' /\ spent' \in Nat
      BY <3>2, <3>3, Allowing
    <3>5. \A d \in DOMAIN conns' : conns'[d].bucket.at <= now'
      <4> SUFFICES ASSUME NEW d \in DOMAIN conns'
                   PROVE  conns'[d].bucket.at <= now'
        OBVIOUS
      <4>1. conns'[d].bucket.at \in Nat /\ conns'[d].bucket.at <= now
        BY <2>3, <1>0
      <4> QED
        BY <4>1, <1>0, <3>2, <3>3
    <3> QED
      BY <2>3, <1>0, <3>2, <3>3, <3>4, <3>5 DEF IInv, TypeOK, TableTypes, InThePast
  <2> QED
    BY <2>4, <2>5
<1>2. ASSUME NEW c \in Conns, Disconnect(c) PROVE IInv'
  <2>1. conns' = [d \in DOMAIN conns \ {c} |-> conns[d]]
        /\ UNCHANGED <<now, table, since, spent>>
    BY <1>2 DEF Disconnect
  <2> QED
    BY <2>1, <1>0 DEF IInv, TypeOK, InThePast, TableSmall, TableBounded, Counted
<1>3. ASSUME NEW c \in Conns, NEW ip \in Ips, Connect(c, ip) PROVE IInv'
  <2>1. conns' = [d \in DOMAIN conns \cup {c} |->
                     IF d = c THEN [ip |-> ip, bucket |-> Full(ConnBurst, now)]
                     ELSE conns[d]]
        /\ UNCHANGED <<now, table, since, spent>>
    BY <1>3 DEF Connect
  <2>2. Full(ConnBurst, now) \in Bucket(ConnBurst) /\ Full(ConnBurst, now).at = now
    BY <1>0, FullBucket
  <2>3. /\ DOMAIN conns' \subseteq Conns
        /\ conns' \in [DOMAIN conns' -> [ip : Ips, bucket : Bucket(ConnBurst)]]
        /\ \A d \in DOMAIN conns' : conns'[d].bucket.at <= now
    BY <2>1, <2>2, <1>0
  <2> QED
    BY <2>1, <2>3, <1>0 DEF IInv, TypeOK, InThePast, TableSmall, TableBounded, Counted
<1>4. CASE Tick
  <2>1. now' = now + 1 /\ UNCHANGED <<conns, table, since, spent>>
    BY <1>4 DEF Tick
  <2>2. TypeOK' /\ TableSmall'
    BY <2>1, <1>0 DEF IInv, TypeOK, TableSmall, TableBounded
  <2>3. InThePast'
    BY <2>1, <1>0 DEF IInv, InThePast, Bucket
  <2>4. IpRate * (now - since) <= IpRate * (now' - since)
        /\ IpRate * (now - since) \in Int /\ IpRate * (now' - since) \in Int
    BY <2>1, <1>0, Rates
  <2>5. Counted'
    BY <2>1, <2>4, <1>0 DEF IInv, Counted
  <2> QED
    BY <2>2, <2>3, <2>5 DEF IInv
<1>5. CASE Observe
  <2>1. since' = now /\ spent' = 0 /\ UNCHANGED <<now, conns, table>>
    BY <1>5 DEF Observe
  <2>2. TypeOK' /\ TableSmall' /\ InThePast'
    BY <2>1, <1>0 DEF IInv, TypeOK, TableSmall, TableBounded, InThePast
  <2>3. Watched \in DOMAIN table =>
            table[Watched].tokens \in 0 .. IpBurst /\ table[Watched].at \in Nat
            /\ table[Watched].at <= now
    BY <1>0 DEF Bucket, IInv, InThePast
  <2>4. Counted'
    <3>1. IpRate * (now' - since') = 0
      BY <2>1, <1>0, Rates
    <3>2. CASE Watched \notin DOMAIN table'
      BY <2>1, <3>1, <3>2 DEF Counted
    <3>3. CASE Watched \in DOMAIN table' /\ table'[Watched].at >= since'
      <4>1. table'[Watched].at = now
        BY <2>1, <2>3, <3>3, <1>0
      <4>2. table'[Watched].at - since' = now' - since'
        BY <4>1, <2>1
      <4> QED
        BY <2>1, <2>3, <3>1, <3>3, <4>2 DEF Counted
    <3>4. CASE Watched \in DOMAIN table' /\ ~(table'[Watched].at >= since')
      BY <2>1, <3>4 DEF Counted
    <3> QED
      BY <3>2, <3>3, <3>4
  <2> QED
    BY <2>2, <2>4 DEF IInv
<1>6. CASE UNCHANGED vars
  BY <1>6 DEF vars, IInv, TypeOK, InThePast, TableSmall, TableBounded, Counted
<1> QED
  BY <1>1, <1>2, <1>3, <1>4, <1>5, <1>6 DEF Next

\* The strengthened invariant, from which the next two theorems follow.
THEOREM Invariant == Spec => []IInv
BY InitInv, StepInv, PTL DEF Spec

\* Buckets hold between nothing and their burst, at times that are past.
THEOREM TypeCorrect == Spec => []TypeOK
<1>1. IInv => TypeOK
  BY DEF IInv
<1> QED
  BY <1>1, Invariant, PTL

\* In no window of time is an address charged more than its burst and the
\* refill of the window, whatever it does with its connections.
THEOREM BudgetKept == Spec => []IpBudget
<1>1. IInv => IpBudget
  <2> SUFFICES ASSUME IInv PROVE IpBudget
    OBVIOUS
  <2>1. TypeOK /\ InThePast /\ Counted /\ now \in Nat /\ since \in Nat /\ spent \in Nat
        /\ since <= now
    BY DEF IInv, TypeOK, InThePast
  <2>2. IpRate * (now - since) \in Nat
    BY <2>1, LimitsAssumption, Rates
  <2>3. CASE Watched \notin DOMAIN table
    BY <2>1, <2>2, <2>3, LimitsAssumption DEF Counted, IpBudget
  <2>4. CASE Watched \in DOMAIN table
    <3> DEFINE at == table[Watched].at
               tokens == table[Watched].tokens
    <3>1. at \in Nat /\ at <= now /\ tokens \in Nat
      BY <2>1, <2>4 DEF TypeOK, InThePast, Bucket
    <3>2. IF at >= since THEN tokens + spent <= IpBurst + IpRate * (at - since)
          ELSE spent = 0
      BY <2>1, <2>4 DEF Counted
    <3> HIDE DEF at, tokens
    <3>3. IpRate * (at - since) <= IpRate * (now - since)
          /\ IpRate * (at - since) \in Int
      BY <3>1, <2>1, LimitsAssumption, Rates
    <3> QED
      BY <3>1, <3>2, <3>3, <2>1, <2>2, LimitsAssumption DEF IpBudget
  <2> QED
    BY <2>3, <2>4
<1> QED
  BY <1>1, Invariant, PTL

\* The table of addresses never exceeds max_entries.
THEOREM TableStaysBounded == Spec => []TableBounded
<1>1. IInv => TableBounded
  BY DEF IInv, TableSmall
<1> QED
  BY <1>1, Invariant, PTL
-----------------------------------------------------------------------------
\* Who loses its bucket to a new address was fresh and the least recent of all
\* that were: for the table to be full, no address in it may have been stale.
LEMMA Evicting ==
    ASSUME IInv, NEW ip, NEW t \in Nat, NEW kept \in Survivors(ip, t),
           NEW gone \in Fresh(t) \ kept
    PROVE  /\ ip \notin DOMAIN table /\ Fresh(t) = DOMAIN table
           /\ Cardinality(kept \cup {ip}) >= MaxIps
           /\ \A other \in DOMAIN table : table[gone].at <= table[other].at
<1>1. IsFiniteSet(DOMAIN table) /\ Cardinality(DOMAIN table) <= MaxIps
      /\ Fresh(t) \subseteq DOMAIN table
  BY DEF IInv, TableSmall, TableBounded, Fresh
<1>2. IsFiniteSet(Fresh(t)) /\ Cardinality(Fresh(t)) <= Cardinality(DOMAIN table)
      /\ (Cardinality(Fresh(t)) = Cardinality(DOMAIN table)
            => Fresh(t) = DOMAIN table)
  BY <1>1, FS_Subset
<1>3. ip \notin Fresh(t) /\ ~(Cardinality(Fresh(t)) < MaxIps)
  BY DEF Survivors
<1>4. PICK old \in Fresh(t) : /\ kept = Fresh(t) \ {old}
                              /\ \A other \in Fresh(t) :
                                    table[old].at <= table[other].at
  BY <1>3 DEF Survivors
<1>5. Cardinality(Fresh(t)) \in Nat /\ Cardinality(DOMAIN table) \in Nat
      /\ MaxIps \in Nat
  BY <1>1, <1>2, FS_CardinalityType, LimitsAssumption
<1>6. Fresh(t) = DOMAIN table
  BY <1>1, <1>2, <1>3, <1>5
<1>7. gone = old
  BY <1>4
<1>8. IsFiniteSet(kept) /\ Cardinality(kept) = Cardinality(Fresh(t)) - 1
  BY <1>2, <1>4, FS_RemoveElement
<1>9. Cardinality(kept \cup {ip}) = Cardinality(kept) + 1
  BY <1>3, <1>4, <1>8, FS_AddElement
<1> QED
  BY <1>3, <1>4, <1>5, <1>6, <1>7, <1>8, <1>9

\* An address loses its bucket only when it is stale, or to make room in a full
\* table, and then every address that stays was seen no earlier (_cleanup and the
\* eviction in BoundedKeyedRateLimiter.allow), however many messages come and
\* however far the clock gets between its readings.
THEOREM EvictionIsFair == Spec => EvictsLeastRecent
<1> DEFINE A == \A gone \in DOMAIN table \ DOMAIN table' :
                   \/ now' - table[gone].at >= Stale
                   \/ /\ Cardinality(DOMAIN table') >= MaxIps
                      /\ \A ip \in DOMAIN table \cap DOMAIN table' :
                             table[gone].at <= table[ip].at
<1>1. IInv /\ [Next]_vars => A
  <2> SUFFICES ASSUME IInv, [Next]_vars, NEW gone \in DOMAIN table \ DOMAIN table'
               PROVE  \/ now' - table[gone].at >= Stale
                      \/ /\ Cardinality(DOMAIN table') >= MaxIps
                         /\ \A ip \in DOMAIN table \cap DOMAIN table' :
                                table[gone].at <= table[ip].at
    OBVIOUS
  <2>1. table' # table
    OBVIOUS
  <2>2. PICK c \in Conns : Message(c)
    BY <2>1 DEF Next, Disconnect, Connect, Tick, Observe, vars
  <2>3. PICK t \in now .. now + Delay : \E u \in t .. t + Delay :
            /\ u <= MaxNow
            /\ now' = u
            /\ AllowIp(conns[c].ip, t, u)
    BY <2>1, <2>2 DEF Message
  <2>4. now \in Nat /\ t \in Nat /\ now' \in Nat /\ t <= now'
    BY <2>3, LimitsAssumption DEF IInv, TypeOK
  <2> DEFINE ip == conns[c].ip
  <2>5. PICK kept \in Survivors(ip, t) : DOMAIN table' = kept \cup {ip}
    BY <2>3 DEF AllowIp
  <2> HIDE DEF ip
  <2>6. CASE gone \in Fresh(t)
    BY <2>4, <2>5, <2>6, Evicting
  <2>7. CASE gone \notin Fresh(t)
    <3>1. ~(t - table[gone].at < Stale)
      BY <2>7 DEF Fresh
    <3>2. table[gone].at \in Nat
      BY DEF IInv, TypeOK, Bucket
    <3> QED
      BY <3>1, <3>2, <2>4, LimitsAssumption
  <2> QED
    BY <2>6, <2>7
<1>2. IInv /\ [Next]_vars => [A]_vars
  BY <1>1
<1> QED
  BY <1>2, Invariant, PTL DEF Spec, EvictsLeastRecent
===============================================================================
