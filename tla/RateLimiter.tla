----------------------------- MODULE RateLimiter -----------------------------
(***************************************************************************)
(* Admission of messages at the websocket (backend/security/rate_limit.py, *)
(* and its use at the top of the receive loop of app/main.py).             *)
(*                                                                         *)
(* A message is charged to the token bucket of its connection, which lives *)
(* as long as the connection, and then to the bucket of its address, which *)
(* a table shared by all connections keeps for as long as the address is   *)
(* not stale and the table has room.  Messages, expensive actions, new     *)
(* connections and map requests are counted by separate instances of the   *)
(* same code; this module is one of them.                                  *)
(*                                                                         *)
(* Time and tokens are integers: the units are chosen such that a message  *)
(* costs Cost and a unit of time brings ConnRate or IpRate (0.333333       *)
(* connections per second are Cost = 3, IpRate = 1).  The rounding of      *)
(* floats is left out.  The clock is read three times for a message and    *)
(* may have advanced between the readings.                                 *)
(***************************************************************************)
EXTENDS Integers, FiniteSets

CONSTANTS
    Ips, Conns,            \* addresses, and names for connections
    Cost,                  \* of a message
    ConnBurst, ConnRate,   \* connection_message_limiter
    IpBurst, IpRate,       \* _ip_message_limiter
    Stale,                 \* stale_after_seconds
    MaxIps,                \* max_entries
    Watched,               \* the address an observer counts for
    Delay,                 \* bound: how far the clock gets between two readings
    MaxNow                 \* bound of the clock

ASSUME LimitsAssumption ==
    /\ Cost \in Nat \ {0}
    /\ ConnBurst \in Nat \ {0} /\ ConnRate \in Nat \ {0}
    /\ IpBurst \in Nat \ {0} /\ IpRate \in Nat \ {0}
    /\ Stale \in Nat \ {0} /\ MaxIps \in Nat \ {0}
    /\ Delay \in Nat /\ MaxNow \in Nat
    /\ Watched \in Ips

\* True of every pair of defaults in config/settings.py: an address that is
\* stale would have its burst back anyway.
ASSUME StaleIsLong == IpRate * Stale >= IpBurst

VARIABLES
    now,      \* time.monotonic()
    conns,    \* open connections: address and bucket
    table,    \* BoundedKeyedRateLimiter._buckets
    since,    \* history variable: when the observer began to count ...
    spent     \* history variable: ... and what Watched was charged since then

vars == <<now, conns, table, since, spent>>

\* updated_at and last_seen are always assigned together.
Bucket(burst) == [tokens : 0 .. burst, at : Nat]

TypeOK ==
    /\ now \in Nat /\ since \in Nat /\ spent \in Nat
    /\ DOMAIN conns \subseteq Conns
    /\ conns \in [DOMAIN conns -> [ip : Ips, bucket : Bucket(ConnBurst)]]
    /\ DOMAIN table \subseteq Ips
    /\ table \in [DOMAIN table -> Bucket(IpBurst)]

Init ==
    /\ now = 0 /\ since = 0 /\ spent = 0
    /\ conns = [c \in {} |-> {}]
    /\ table = [ip \in {} |-> {}]

-----------------------------------------------------------------------------
Least(a, b) == IF a <= b THEN a ELSE b

Full(burst, t) == [tokens |-> burst, at |-> t]

\* What a bucket holds at time t.
Refilled(b, burst, rate, t) == Least(burst, b.tokens + rate * (t - b.at))

\* TokenBucket.allow: does it, and the bucket after it.
Affords(b, burst, rate, t) == Refilled(b, burst, rate, t) >= Cost

Charged(b, burst, rate, t) ==
    [tokens |-> IF Affords(b, burst, rate, t)
                THEN Refilled(b, burst, rate, t) - Cost
                ELSE Refilled(b, burst, rate, t),
     at |-> t]

\* Mutant: an address is forgotten a moment before it is stale.
FreshShort(t) == {ip \in DOMAIN table : t - table[ip].at < Stale - 1}

\* _cleanup.
Fresh(t) == {ip \in DOMAIN table : t - table[ip].at < Stale}

\* Mutant: any address makes room.
SurvivorsAny(ip, t) ==
    IF ip \in Fresh(t) \/ Cardinality(Fresh(t)) < MaxIps
    THEN {Fresh(t)}
    ELSE {Fresh(t) \ {old} : old \in Fresh(t)}

\* The addresses that keep their buckets when ip is charged: a new one may need
\* the room of one that was not seen for the longest time.
Survivors(ip, t) ==
    IF ip \in Fresh(t) \/ Cardinality(Fresh(t)) < MaxIps
    THEN {Fresh(t)}
    ELSE {Fresh(t) \ {old} : old \in {o \in Fresh(t) :
              \A other \in Fresh(t) : table[o].at <= table[other].at}}

\* BoundedKeyedRateLimiter.allow, which reads the clock at t and its bucket again
\* at u.  The observer starts again when the bucket it counts for is evicted.
AllowIp(ip, t, u) ==
    \E kept \in Survivors(ip, t) :
        LET b == IF ip \in kept THEN table[ip] ELSE Full(IpBurst, u)
        IN  /\ table' = [k \in kept \cup {ip} |->
                             IF k = ip THEN Charged(b, IpBurst, IpRate, u)
                             ELSE table[k]]
            /\ IF Watched \in Fresh(t) \ kept
               THEN since' = u /\ spent' = 0
               ELSE /\ UNCHANGED since
                    /\ spent' = IF ip = Watched /\ Affords(b, IpBurst, IpRate, u)
                                THEN spent + Cost
                                ELSE spent

-----------------------------------------------------------------------------
Connect(c, ip) ==
    /\ c \notin DOMAIN conns
    /\ conns' = [d \in DOMAIN conns \cup {c} |->
                    IF d = c THEN [ip |-> ip, bucket |-> Full(ConnBurst, now)]
                    ELSE conns[d]]
    /\ UNCHANGED <<now, table, since, spent>>

Disconnect(c) ==
    /\ c \in DOMAIN conns
    /\ conns' = [d \in DOMAIN conns \ {c} |-> conns[d]]
    /\ UNCHANGED <<now, table, since, spent>>

\* A message arrives: what its connection refuses is not charged to the address.
Message(c) ==
    /\ c \in DOMAIN conns
    /\ conns' = [conns EXCEPT ![c].bucket = Charged(@, ConnBurst, ConnRate, now)]
    /\ \/ /\ ~Affords(conns[c].bucket, ConnBurst, ConnRate, now)
          /\ UNCHANGED <<now, table, since, spent>>
       \/ /\ Affords(conns[c].bucket, ConnBurst, ConnRate, now)
          /\ \E t \in now .. now + Delay : \E u \in t .. t + Delay :
                /\ u <= MaxNow
                /\ now' = u
                /\ AllowIp(conns[c].ip, t, u)

Tick ==
    /\ now < MaxNow
    /\ now' = now + 1
    /\ UNCHANGED <<conns, table, since, spent>>

\* The observer may begin to count at any moment.
Observe ==
    /\ since' = now
    /\ spent' = 0
    /\ UNCHANGED <<now, conns, table>>

Next ==
    \/ \E c \in Conns : Message(c) \/ Disconnect(c)
    \/ \E c \in Conns, ip \in Ips : Connect(c, ip)
    \/ Tick \/ Observe

Spec == Init /\ [][Next]_vars

-----------------------------------------------------------------------------
\* In every window of time in which its bucket was not evicted, an address is
\* charged no more than its burst and what the time brings, however often it
\* reconnects and its bucket is forgotten as stale (test_ip_budget_survives_
\* reconnect, over any history).
IpBudget == spent <= IpBurst + IpRate * (now - since)

\* "a hard memory bound" (BoundedKeyedRateLimiter).
TableBounded == Cardinality(DOMAIN table) <= MaxIps

\* An address loses its bucket only when it is stale, or to make room, and then
\* every address that stays was seen no earlier.
EvictsLeastRecent ==
    [][\A gone \in DOMAIN table \ DOMAIN table' :
           \/ now' - table[gone].at >= Stale
           \/ /\ Cardinality(DOMAIN table') >= MaxIps
              /\ \A ip \in DOMAIN table \cap DOMAIN table' :
                     table[gone].at <= table[ip].at]_vars
=============================================================================
