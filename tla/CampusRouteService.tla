-------------------------- MODULE CampusRouteService --------------------------
(***************************************************************************)
(* What POST /api/campus/route promises: a visitor who asks for the way    *)
(* from a node of the map to another is answered once, with a way that     *)
(* exists and that no other way is shorter than, or told that there is     *)
(* none, which is then true.  How the way is found is not said.            *)
(***************************************************************************)
EXTENDS Integers, Sequences, FiniteSets

CONSTANT Places

VARIABLES
    asked,      \* at most one request: from where to where, by which hops
    answered    \* at most one route: << >> when there is none

IsWalk(p, hops) ==
    \A k \in 1 .. Len(p) - 1 : \E h \in hops : h.from = p[k] /\ h.to = p[k + 1]

Least(S) == CHOOSE w \in S : \A x \in S : w <= x

\* The shortest of the walks to v that are known and those one hop longer, or -1.
Shorter(known, v, hops) ==
    LET ways == {known[h.from] + h.length : h \in {g \in hops : g.to = v /\ known[g.from] # -1}}
                    \cup (IF known[v] = -1 THEN {} ELSE {known[v]})
    IN  IF ways = {} THEN -1 ELSE Least(ways)

\* Of the shortest walk from the start to each place, the length: no walk that is
\* shorter than others needs more hops than there are places.
Lengths(start, hops) ==
    LET within[n \in 0 .. Cardinality(Places)] ==
            IF n = 0 THEN [v \in Places |-> IF v = start THEN 0 ELSE -1]
            ELSE [v \in Places |-> Shorter(within[n - 1], v, hops)]
    IN  within[Cardinality(Places)]

\* The sum of the shortest hops along a walk.
LengthOf(p, hops) ==
    LET hop(k) == {h.length : h \in {g \in hops : g.from = p[k] /\ g.to = p[k + 1]}}
        upTo[k \in 1 .. Len(p)] == IF k = 1 THEN 0 ELSE upTo[k - 1] + Least(hop(k - 1))
    IN  upTo[Len(p)]

Correct(a, route) ==
    LET shortest == Lengths(a.from, a.hops)[a.to]
    IN  IF shortest = -1 THEN route = << >>
        ELSE /\ route # << >> /\ route[1] = a.from /\ route[Len(route)] = a.to
             /\ IsWalk(route, a.hops)
             /\ LengthOf(route, a.hops) = shortest

Init == asked = {} /\ answered = {}

Ask == /\ asked = {} /\ answered' = {}
       /\ \E a \in asked' : asked' = {a}

Answer == /\ answered = {} /\ asked' = asked
          /\ \E a \in asked, route \in answered' : Correct(a, route) /\ answered' = {route}

\* The reply has gone out; the service keeps nothing of it.
Done == /\ answered # {}
        /\ asked' = {} /\ answered' = {}

Next == Ask \/ Answer \/ Done

vars == <<asked, answered>>

\* What the service may do, and that it answers whoever asks.
Safety == Init /\ [][Next]_vars

Spec == Safety /\ (asked # {} ~> answered # {})
===============================================================================
