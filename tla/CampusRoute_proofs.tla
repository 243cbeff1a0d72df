-------------------------- MODULE CampusRoute_proofs --------------------------
(***************************************************************************)
(* The search is right for any map, any request and any size: a route is   *)
(* walkable and has the length that is announced, no hop makes it shorter, *)
(* and "no route" comes with a cut between the origin and the goal.        *)
(*                                                                         *)
(* The invariant is that of Dijkstra's algorithm with lazy deletion: what  *)
(* was taken is no farther than anything in the heap, what was reached and *)
(* not taken is in the heap under its distance, and every hop out of what  *)
(* was taken has been tried.  From it follow what is announced, and that   *)
(* the search implements the service of CampusRouteService.                *)
(***************************************************************************)
EXTENDS CampusRoute, WellFoundedInduction, FiniteSetTheorems, TLAPS

USE NodesAssumption

-----------------------------------------------------------------------------
LEMMA DoorsAreNodes ==
    ASSUME map \in Maps, NEW r \in Rooms, NEW h
    PROVE  Doors(r, h) \subseteq Nodes
<1>1. map.doors[r] \in Seq(Nodes)
  BY MapsAssumption
<1>2. \A k \in DOMAIN map.doors[r] : map.doors[r][k] \in Nodes
  BY <1>1
<1> QED
  BY <1>2 DEF Doors, First

LEMMA AnchorsAreNodes ==
    ASSUME NEW r, NEW h
    PROVE  Anchors(r, h) \subseteq Nodes
BY DEF Anchors

LEMMA RequestFields ==
    ASSUME NEW r \in Requests
    PROVE  r.from \in Origins /\ r.room \in Rooms
BY DEF Requests

\* What the rest of the proof knows of the request and the phase.
Phase ==
    /\ at # "idle" => asked \in Requests
    /\ at \in {"idle", "asked", "error"} => goal = NoPlace
    /\ goal # NoPlace => asked \in Requests /\ asked.from \in Nodes /\ goal \in Places
    /\ at \in {"found", "searching", "relaxing", "walking", "ok"} => goal # NoPlace
    /\ at \in {"searching", "relaxing", "walking"} => goal # asked.from
    /\ at = "relaxing" => cur \in Places
    /\ at \in {"walking", "ok"} => route # << >>
    /\ at = "no_route" => goal # asked.from \/ goal = NoPlace

LEMMA PlaceFacts ==
    /\ NoPlace \notin Places /\ TmpDoor \in Places /\ Nodes \subseteq Places
    /\ Places \subseteq Nat
BY DEF Places, NoPlace

LEMMA WeightFacts ==
    ASSUME edges \in Seq(Edge), NEW k \in DOMAIN edges
    PROVE  edges[k] \in Edge /\ Weight(edges[k]) \in Nat \ {0}
<1>1. edges[k] \in Edge
  OBVIOUS
<1>2. edges[k].length \in Nat
  BY <1>1 DEF Edge
<1> QED
  BY <1>1, <1>2 DEF Weight

\* Type correctness, and what phase the handler is in.
THEOREM TypeCorrect == Spec => [](TypeOK /\ Phase)
<1>1. Init => TypeOK /\ Phase
  <2> SUFFICES ASSUME Init PROVE TypeOK /\ Phase
    OBVIOUS
  <2>1. edges \in Seq(Edge) /\ route \in Seq(Places)
    BY DEF Init
  <2>2. dist \in [Places -> Nat \cup {Unreached}] /\ prev \in [Places -> Places \cup {NoPlace}]
    BY DEF Init
  <2> QED
    BY <2>1, <2>2 DEF Init, TypeOK, Phase, NoPlace, Ended
<1>2. TypeOK /\ Phase /\ [Next]_vars => TypeOK' /\ Phase'
  <2> SUFFICES ASSUME TypeOK, Phase, [Next]_vars
               PROVE  TypeOK' /\ Phase'
    OBVIOUS
  <2> USE PlaceFacts
  <2>1. ASSUME NEW r \in Requests, Ask(r)
        PROVE  TypeOK' /\ Phase'
    BY <2>1 DEF Ask, search, TypeOK, Phase, Ended
  <2>2. CASE UnknownOrigin
    BY <2>2 DEF UnknownOrigin, search, TypeOK, Phase, Ended
  <2>3. CASE FoundDoor
    <3>1. asked \in Requests
      BY <2>3 DEF FoundDoor, Phase
    <3>2. goal' \in Nodes
      BY <2>3, <3>1, DoorsAreNodes, RequestFields DEF FoundDoor, TypeOK
    <3>3. edges' \in Seq(Edge)
      BY <2>3, MapsAssumption DEF FoundDoor, TypeOK
    <3> QED
      BY <2>3, <3>1, <3>2, <3>3 DEF FoundDoor, search, TypeOK, Phase, Ended
  <2>4. CASE MadeUpDoor
    <3>1. asked \in Requests
      BY <2>4 DEF MadeUpDoor, Phase
    <3>2. PICK a \in Anchors(asked.room, asked.hint), metres \in AccessLengths :
             edges' = Append(map.edges, AccessEdge(a, metres))
      BY <2>4 DEF MadeUpDoor
    <3>3. a \in Nat /\ metres \in Nat
      BY AnchorsAreNodes
    <3>4. AccessEdge(a, metres) \in Edge
      BY <3>3 DEF AccessEdge, Edge
    <3>5. map.edges \in Seq(Edge)
      BY MapsAssumption DEF TypeOK
    <3>6. edges' \in Seq(Edge)
      BY <3>2, <3>4, <3>5
    <3> QED
      BY <2>4, <3>1, <3>6 DEF MadeUpDoor, search, TypeOK, Phase, Ended
  <2>5. CASE NoDoor
    BY <2>5 DEF NoDoor, search, TypeOK, Phase, Ended
  <2>6. CASE There
    <3>1. <<goal>> \in Seq(Places)
      BY <2>6 DEF There, Phase
    <3> QED
      BY <2>6, <3>1 DEF There, search, TypeOK, Phase, Ended
  <2>7. CASE Start
    <3>1. asked.from \in Places
      BY <2>7 DEF Start, Phase
    <3>2. heap' \subseteq Nat \X Places
      BY <2>7, <3>1 DEF Start
    <3> QED
      BY <2>7, <3>1, <3>2 DEF Start, TypeOK, Phase, Ended
  <2>8. CASE Pop
    <3>1. PICK x \in heap : Take(x) \/ Skip(x)
      BY <2>8 DEF Pop
    <3>2. x[2] \in Places
      BY DEF TypeOK
    <3>3. goal \in Places /\ <<goal>> \in Seq(Places)
      BY <2>8 DEF Pop, Phase
    <3>4. CASE Skip(x)
      BY <2>8, <3>4 DEF Pop, Skip, TypeOK, Phase, Ended
    <3>5. CASE Take(x)
      <4>1. heap' \subseteq Nat \X Places /\ visited' \subseteq Places
        BY <3>2, <3>5 DEF Take, TypeOK
      <4> DEFINE P == /\ at' \in {"searching", "relaxing", "walking"}
                      /\ cur' \in Places \cup {NoPlace} /\ next' \in Nat \ {0}
                      /\ route' \in Seq(Places)
                      /\ at' = "relaxing" => cur' \in Places
                      /\ at' = "walking" => route' # << >>
      <4>2. ASSUME at' = "walking", route' = <<goal>>, UNCHANGED <<cur, next>>
            PROVE  P
        <5>1. route' # << >>
          BY <4>2
        <5> QED
          BY <3>3, <4>2, <5>1 DEF TypeOK
      <4>3. ASSUME Expand(x[2]), UNCHANGED route
            PROVE  P
        BY <3>2, <4>3 DEF Expand, TypeOK
      <4>4. ASSUME UNCHANGED <<at, cur, next, route>>
            PROVE  P
        BY <2>8, <4>4 DEF Pop, TypeOK
      <4>5. P
        BY <3>5, <4>2, <4>3, <4>4 DEF Take
      <4>6. goal # NoPlace /\ goal # asked.from /\ asked \in Requests /\ asked.from \in Nodes
        BY <2>8 DEF Pop, Phase
      <4>7. UNCHANGED <<map, asked, edges, goal, dist, prev>>
        BY <2>8 DEF Pop
      <4>8. TypeOK'
        BY <4>1, <4>5, <4>7 DEF TypeOK
      <4>9. Phase'
        BY <3>3, <4>5, <4>6, <4>7 DEF Phase
      <4> QED
        BY <4>8, <4>9
    <3> QED
      BY <3>1, <3>4, <3>5
  <2>9. CASE Relax
    <3> DEFINE alt == dist[cur] + Weight(edges[next])
    <3>1. cur \in Places
      BY <2>9 DEF Relax, Phase
    <3>2. next' \in Nat \ {0}
      BY <2>9 DEF Relax, TypeOK
    <3>3. ASSUME NEW v \in Places, Improve(v, alt), alt \in Nat
          PROVE  TypeOK' /\ Phase'
      <4>1. /\ dist' \in [Places -> Nat \cup {Unreached}]
            /\ prev' \in [Places -> Places \cup {NoPlace}]
            /\ heap' \subseteq Nat \X Places
        BY <3>1, <3>3 DEF Improve, TypeOK
      <4> QED
        BY <2>9, <3>2, <4>1 DEF Relax, TypeOK, Phase, Ended
    <3>4. CASE UNCHANGED <<dist, prev, heap>>
      BY <2>9, <3>2, <3>4 DEF Relax, TypeOK, Phase, Ended
    <3>5. alt \in Nat
      <4>1. next \in DOMAIN edges /\ edges \in Seq(Edge)
        BY <2>9 DEF Relax, TypeOK
      <4>2. Weight(edges[next]) \in Nat \ {0}
        BY <4>1, WeightFacts
      <4>3. dist[cur] \in Nat \cup {Unreached}
        BY <3>1 DEF TypeOK
      <4> QED
        BY <4>2, <4>3 DEF Unreached
    <3> QED
      BY <2>9, <3>3, <3>4, <3>5 DEF Relax
  <2>10. CASE Relaxed
    BY <2>10 DEF Relaxed, search, TypeOK, Phase, Ended
  <2>11. CASE Exhausted
    <3>1. <<goal>> \in Seq(Places) /\ <<goal>> # << >>
      BY <2>11 DEF Exhausted, Phase
    <3>2. CASE prev[goal] = NoPlace
      BY <2>11, <3>2 DEF Exhausted, search, TypeOK, Phase, Ended
    <3>3. CASE prev[goal] # NoPlace
      BY <2>11, <3>1, <3>3 DEF Exhausted, search, TypeOK, Phase, Ended
    <3> QED
      BY <3>2, <3>3
  <2>12. CASE Walk
    <3>1. /\ route \in Seq(Places) /\ route # << >>
          /\ prev \in [Places -> Places \cup {NoPlace}]
      BY <2>12 DEF Walk, TypeOK, Phase
    <3>5. route[1] \in Places
      BY <3>1
    <3>2. prev[route[1]] \in Places \cup {NoPlace}
      BY <3>1, <3>5
    <3>3. CASE prev[route[1]] = NoPlace
      BY <2>12, <3>3 DEF Walk, search, TypeOK, Phase, Ended
    <3>4. CASE prev[route[1]] # NoPlace
      <4>1. prev[route[1]] \in Places
        BY <3>2, <3>4
      <4>2. <<prev[route[1]]>> \o route \in Seq(Places) /\ <<prev[route[1]]>> \o route # << >>
        BY <3>1, <4>1
      <4> QED
        BY <2>12, <3>4, <4>2 DEF Walk, search, TypeOK, Phase, Ended
    <3> QED
      BY <3>3, <3>4
  <2>13. CASE Arrive
    BY <2>13 DEF Arrive, search, TypeOK, Phase, Ended
  <2>14. CASE Reply
    <3>1. edges' \in Seq(Edge) /\ route' \in Seq(Places)
      BY <2>14 DEF Reply
    <3>2. /\ dist' \in [Places -> Nat \cup {Unreached}]
          /\ prev' \in [Places -> Places \cup {NoPlace}]
      BY <2>14 DEF Reply
    <3> QED
      BY <2>14, <3>1, <3>2 DEF Reply, TypeOK, Phase, Ended, NoPlace
  <2>15. CASE UNCHANGED vars
    BY <2>15 DEF vars, search, TypeOK, Phase, Ended
  <2> QED
    BY <2>1, <2>2, <2>3, <2>4, <2>5, <2>6, <2>7, <2>8, <2>9, <2>10, <2>11, <2>12,
       <2>13, <2>14, <2>15 DEF Next, Handle
<1> QED
  BY <1>1, <1>2, PTL DEF Spec

-----------------------------------------------------------------------------
\* The search has begun, and what it found is not yet given up.
Searched ==
    \/ at \in {"searching", "relaxing", "walking"}
    \/ at \in {"ok", "no_route"} /\ goal \notin {NoPlace, asked.from}

\* Before it begins, nothing is known.
Fresh ==
    at \in {"idle", "asked", "found"} =>
        /\ \A v \in Places : dist[v] = Unreached /\ prev[v] = NoPlace
        /\ heap = {} /\ visited = {}

Started == dist[asked.from] = 0 /\ prev[asked.from] = NoPlace

HeapReached == \A x \in heap : Reached(x[2]) /\ dist[x[2]] <= x[1]

VisitedReached == \A u \in visited : Reached(u)

TakenFirst == \A u \in visited : \A x \in heap : dist[u] <= x[1]

Frontier == \A v \in Places \ visited : Reached(v) => <<dist[v], v>> \in heap

\* A predecessor was taken, and the distance is that over one of its hops.
Tight(u, v) ==
    \E k \in DOMAIN edges : IsHop(k, u, v) /\ dist[v] = dist[u] + Weight(edges[k])

Preds ==
    \A v \in Places :
        /\ prev[v] # NoPlace => prev[v] \in visited /\ Reached(v) /\ Tight(prev[v], v)
        /\ Reached(v) /\ v # asked.from => prev[v] # NoPlace

Core == Started /\ HeapReached /\ VisitedReached /\ TakenFirst /\ Frontier /\ Preds

\* Where the search is in its two loops.
Loop ==
    /\ at \in {"searching", "relaxing"} => goal \notin visited
    /\ at = "relaxing" => /\ cur \in visited /\ cur # goal
                          /\ \A u \in visited : dist[u] <= dist[cur]

\* Every hop out of what was taken was tried, but for those still to come.
Tried(u, k) == ~(at = "relaxing" /\ u = cur /\ k >= next)

Closed ==
    \A u \in visited \ {goal} : \A k \in DOMAIN edges : \A v \in Places :
        IsHop(k, u, v) /\ Tried(u, k) =>
            Reached(v) /\ dist[v] <= dist[u] + Weight(edges[k])

\* The part of the route that was walked back.
Trail == /\ route[1] \in Places /\ Reached(route[1]) /\ route[Len(route)] = goal
        /\ \A n \in 1 .. Len(route) - 1 : Tight(route[n], route[n + 1])

Outcome ==
    /\ at \in {"walking", "ok"} => goal \in visited /\ Trail
    /\ at = "ok" => route[1] = asked.from
    /\ at = "no_route" => heap = {} /\ goal \notin visited

SearchInv == Searched => Core /\ Loop /\ Closed /\ Outcome

\* Without a search the route is where one stands.
StayInv == at = "ok" /\ goal = asked.from => route = <<goal>>

IInv == TypeOK /\ Phase /\ Fresh /\ SearchInv /\ StayInv

-----------------------------------------------------------------------------
\* Types of what a step looks at.
LEMMA Types ==
    ASSUME TypeOK
    PROVE  /\ \A v \in Places : dist[v] \in Nat \cup {Unreached}
           /\ \A v \in Places : Reached(v) => dist[v] \in Nat
           /\ \A x \in heap : x[1] \in Nat /\ x[2] \in Places /\ x = <<x[1], x[2]>>
           /\ visited \subseteq Places
           /\ \A k \in DOMAIN edges : Weight(edges[k]) \in Nat \ {0}
<1>1. \A k \in DOMAIN edges : Weight(edges[k]) \in Nat \ {0}
  BY WeightFacts DEF TypeOK
<1>2. \A x \in heap : x[1] \in Nat /\ x[2] \in Places /\ x = <<x[1], x[2]>>
  BY DEF TypeOK
<1> QED
  BY <1>1, <1>2 DEF TypeOK, Reached

\* One lemma for each step of the search that the invariant is not untouched by.
LEMMA StartStep ==
    ASSUME TypeOK, Phase, Fresh, Start
    PROVE  SearchInv'
<1> USE PlaceFacts
<1>1. asked.from \in Places /\ asked' = asked /\ goal # NoPlace /\ at = "found"
  BY DEF Start, Phase
<1>2. /\ \A v \in Places : dist[v] = Unreached /\ prev[v] = NoPlace
      /\ heap = {} /\ visited = {}
  BY <1>1 DEF Fresh
<1>3. dist \in [Places -> Nat \cup {Unreached}]
  BY DEF TypeOK
<1>4. /\ dist'[asked.from] = 0
      /\ \A v \in Places : v # asked.from => dist'[v] = Unreached
  BY <1>1, <1>2, <1>3 DEF Start
<1>5. heap' = {<<0, asked.from>>} /\ visited' = {} /\ prev' = prev /\ at' = "searching"
  BY <1>2 DEF Start
<1>7. \A v \in Places : Reached(v)' => v = asked.from
  BY <1>4 DEF Reached
<1>8. Started' /\ VisitedReached' /\ TakenFirst'
  BY <1>1, <1>2, <1>4, <1>5 DEF Started, VisitedReached, TakenFirst
<1>9. HeapReached'
  BY <1>1, <1>4, <1>5 DEF HeapReached, Reached, Unreached
<1>10. Frontier'
  BY <1>1, <1>4, <1>5, <1>7 DEF Frontier
<1>11. Preds'
  BY <1>1, <1>2, <1>5, <1>7 DEF Preds
<1>6. Core'
  BY <1>8, <1>9, <1>10, <1>11 DEF Core
<1> QED
  BY <1>5, <1>6 DEF SearchInv, Loop, Closed, Outcome

\* Of the entry that comes first, when its node was not taken yet.
LEMMA LeastFacts ==
    ASSUME TypeOK, Core, NEW x \in heap, IsLeast(x), x[2] \notin visited
    PROVE  /\ x[1] = dist[x[2]] /\ x[1] \in Nat /\ x[2] \in Places /\ Reached(x[2])
           /\ \A u \in visited : dist[u] <= dist[x[2]]
           /\ \A y \in heap : dist[x[2]] <= y[1]
<1> USE Types
<1>1. x[1] \in Nat /\ x[2] \in Places
  OBVIOUS
<1>2. Reached(x[2]) /\ dist[x[2]] <= x[1] /\ dist[x[2]] \in Nat
  BY <1>1 DEF Core, HeapReached
<1>3. <<dist[x[2]], x[2]>> \in heap
  BY <1>1, <1>2 DEF Core, Frontier
<1>4. x[1] <= dist[x[2]]
  BY <1>1, <1>2, <1>3 DEF IsLeast
<1>5. x[1] = dist[x[2]]
  BY <1>1, <1>2, <1>4
<1>6. \A y \in heap : x[1] <= y[1]
  BY <1>1 DEF IsLeast
<1> QED
  BY <1>1, <1>2, <1>5, <1>6 DEF Core, TakenFirst

LEMMA PopStep ==
    ASSUME TypeOK, Phase, SearchInv, Pop
    PROVE  SearchInv'
<1> USE PlaceFacts
<1>1. at = "searching" /\ UNCHANGED <<map, asked, edges, goal, dist, prev>>
  BY DEF Pop
<1>2. Core /\ Loop /\ Closed
  BY <1>1 DEF SearchInv, Searched
<1>3. PICK x \in heap : IsLeast(x) /\ (Take(x) \/ Skip(x))
  BY DEF Pop
<1>4. \A k, u, v : IsHop(k, u, v)' = IsHop(k, u, v)
  BY <1>1 DEF IsHop
<1>5. \A v : Reached(v)' = Reached(v)
  BY <1>1 DEF Reached
<1>6. \A u, v : Tight(u, v)' = Tight(u, v)
  BY <1>1, <1>4 DEF Tight
<1>7. x[2] \in Places
  BY Types
<1>8. CASE Skip(x)
  <2>1. /\ heap' = heap \ {x} /\ visited' = visited /\ at' = "searching"
        /\ UNCHANGED <<cur, next, route>>
    BY <1>1, <1>8 DEF Skip
  <2>2. x[2] \in visited
    BY <1>8 DEF Skip
  <2>3. Frontier'
    BY <1>1, <1>2, <1>5, <2>1, <2>2 DEF Core, Frontier
  <2>4. Core'
    BY <1>1, <1>2, <1>5, <1>6, <2>1, <2>3
       DEF Core, Started, HeapReached, VisitedReached, TakenFirst, Preds
  <2>5. Closed'
    BY <1>1, <1>2, <1>4, <1>5, <2>1 DEF Closed, Tried
  <2> QED
    BY <1>1, <1>2, <2>1, <2>4, <2>5 DEF SearchInv, Loop, Outcome
<1>9. CASE Take(x)
  <2>1. heap' = heap \ {x} /\ visited' = visited \cup {x[2]} /\ x[2] \notin visited
    BY <1>9 DEF Take
  <2>2. /\ x[1] = dist[x[2]] /\ x[1] \in Nat /\ Reached(x[2])
        /\ \A u \in visited : dist[u] <= dist[x[2]]
        /\ \A y \in heap : dist[x[2]] <= y[1]
    BY <1>2, <1>3, <2>1, LeastFacts
  <2>3. /\ Started' /\ HeapReached' /\ VisitedReached' /\ TakenFirst'
    BY <1>1, <1>2, <1>5, <2>1, <2>2
       DEF Core, Started, HeapReached, VisitedReached, TakenFirst
  <2>4. Frontier'
    <3> SUFFICES ASSUME NEW v \in Places, v \notin visited', Reached(v)
                 PROVE  <<dist[v], v>> \in heap'
      BY <1>1, <1>5 DEF Frontier
    <3>1. v \notin visited /\ v # x[2]
      BY <2>1
    <3>2. <<dist[v], v>> \in heap
      BY <1>2, <3>1 DEF Core, Frontier
    <3> QED
      BY <2>1, <3>1, <3>2
  <2>5. Preds'
    BY <1>1, <1>2, <1>5, <1>6, <2>1 DEF Core, Preds
  <2>6. Core'
    BY <2>3, <2>4, <2>5 DEF Core
  <2>7. CASE x[2] = goal
    <3>1. at' = "walking" /\ route' = <<goal>>
      BY <1>9, <2>7 DEF Take
    <3>2. Closed'
      BY <1>1, <1>2, <1>4, <1>5, <2>1, <2>7, <3>1 DEF Closed, Tried
    <3>3. Outcome'
      BY <1>1, <1>5, <1>7, <2>1, <2>2, <2>7, <3>1 DEF Outcome, Trail
    <3> QED
      BY <2>6, <3>1, <3>2, <3>3 DEF SearchInv, Loop
  <2>8. CASE x[2] # goal
    <3>1. IsCurrent(x)
      BY <2>2 DEF IsCurrent
    <3>2. at' = "relaxing" /\ cur' = x[2] /\ next' = 1
      BY <1>9, <2>8, <3>1 DEF Take, Expand
    <3>3. Closed'
      <4> SUFFICES ASSUME NEW u \in visited' \ {goal}, NEW k \in DOMAIN edges, NEW v \in Places,
                          IsHop(k, u, v), Tried(u, k)'
                   PROVE  Reached(v) /\ dist[v] <= dist[u] + Weight(edges[k])
        BY <1>1, <1>4, <1>5 DEF Closed
      <4>1. k \in Nat /\ k >= 1
        BY DEF TypeOK
      <4>2. u # x[2]
        BY <3>2, <4>1 DEF Tried
      <4>3. u \in visited \ {goal} /\ Tried(u, k)
        BY <1>1, <2>1, <4>2 DEF Tried
      <4> QED
        BY <1>2, <4>3 DEF Closed
    <3>4. Loop'
      BY <1>1, <1>2, <2>1, <2>2, <2>8, <3>2 DEF Loop
    <3> QED
      BY <2>6, <3>2, <3>3, <3>4 DEF SearchInv, Outcome
  <2> QED
    BY <2>7, <2>8
<1> QED
  BY <1>3, <1>8, <1>9

\* What relaxing an edge can improve was not taken, and is not the origin.
LEMMA ImproveFacts ==
    ASSUME TypeOK, Phase, SearchInv, at = "relaxing", next \in DOMAIN edges,
           NEW v \in Places, IsBetter(v, dist[cur] + Weight(edges[next]))
    PROVE  /\ cur \in visited /\ dist[cur] \in Nat
           /\ dist[cur] + Weight(edges[next]) \in Nat
           /\ dist[cur] < dist[cur] + Weight(edges[next])
           /\ v \notin visited /\ v # asked.from
<1> USE Types, PlaceFacts
<1>1. Core /\ Loop
  BY DEF SearchInv, Searched
<1>2. cur \in visited /\ dist[cur] \in Nat /\ Weight(edges[next]) \in Nat \ {0}
  BY <1>1 DEF Loop, Core, VisitedReached
<1>3. ASSUME NEW u \in visited
      PROVE  u # v
  <2>1. dist[u] \in Nat /\ dist[u] <= dist[cur]
    BY <1>1 DEF Loop, Core, VisitedReached
  <2> QED
    BY <1>2, <2>1 DEF IsBetter, Unreached
<1>4. v # asked.from
  BY <1>1, <1>2 DEF Core, Started, IsBetter, Unreached
<1> QED
  BY <1>2, <1>3, <1>4

LEMMA RelaxStep ==
    ASSUME TypeOK, Phase, SearchInv, Relax
    PROVE  SearchInv'
<1> DEFINE alt == dist[cur] + Weight(edges[next])
           near == {v \in Places : IsHop(next, cur, v) /\ IsBetter(v, alt)}
<1> USE PlaceFacts, Types
<1>1. /\ at = "relaxing" /\ next \in DOMAIN edges /\ next' = next + 1
      /\ UNCHANGED <<map, asked, at, edges, goal, visited, cur, route>>
  BY DEF Relax, TypeOK
<1>2. Core /\ Loop /\ Closed
  BY <1>1 DEF SearchInv, Searched
<1>3. \A k, u, v : IsHop(k, u, v)' = IsHop(k, u, v)
  BY <1>1 DEF IsHop
<1>4. cur \in visited /\ cur \in Places /\ dist[cur] \in Nat
  BY <1>1, <1>2 DEF Loop, Core, VisitedReached
<1>5. \A u, k : Tried(u, k)' /\ ~Tried(u, k) /\ k \in Nat => u = cur /\ k = next
  BY <1>1 DEF Tried, TypeOK
<1>6. ASSUME NEW v \in near, Improve(v, alt)
      PROVE  SearchInv'
  <2>1. /\ alt \in Nat /\ dist[cur] < alt /\ v \notin visited /\ v # asked.from
        /\ v \in Places /\ IsHop(next, cur, v)
    BY <1>1, ImproveFacts
  <2>2. /\ dist'[v] = alt /\ prev'[v] = cur
        /\ \A u \in Places \ {v} : dist'[u] = dist[u] /\ prev'[u] = prev[u]
        /\ heap' = heap \cup {<<alt, v>>}
    BY <1>6, <2>1 DEF Improve, TypeOK
  <2>3. /\ Reached(v)' /\ (Reached(v) => alt < dist[v] /\ dist[v] \in Nat)
        /\ \A u \in Places \ {v} : Reached(u)' = Reached(u)
    BY <1>6, <2>1, <2>2 DEF Reached, IsBetter, Unreached
  <2>4. \A u \in visited : u \in Places \ {v} /\ dist'[u] = dist[u] /\ dist[u] \in Nat
    BY <1>2, <2>1, <2>2 DEF Core, VisitedReached
  <2>5. Started'
    <3>1. asked.from \in Places \ {v}
      BY <1>1, <2>1 DEF Phase
    <3> QED
      BY <1>1, <1>2, <2>2, <3>1 DEF Core, Started
  <2>6. HeapReached'
    <3> SUFFICES ASSUME NEW x \in heap'
                 PROVE  Reached(x[2])' /\ dist'[x[2]] <= x[1]
      BY DEF HeapReached
    <3>1. CASE x = <<alt, v>>
      BY <2>1, <2>2, <2>3, <3>1
    <3>2. CASE x \in heap /\ x[2] = v
      <4>1. Reached(v) /\ dist[v] <= x[1] /\ x[1] \in Nat
        BY <1>2, <3>2 DEF Core, HeapReached
      <4>2. alt <= x[1]
        BY <2>1, <2>3, <4>1
      <4> QED
        BY <2>2, <2>3, <3>2, <4>2
    <3>3. CASE x \in heap /\ x[2] # v
      <4>1. x[2] \in Places \ {v}
        BY <3>3
      <4> QED
        BY <1>2, <2>2, <2>3, <3>3, <4>1 DEF Core, HeapReached
    <3> QED
      BY <2>2, <3>1, <3>2, <3>3
  <2>7. VisitedReached'
    BY <1>1, <1>2, <2>3, <2>4 DEF Core, VisitedReached
  <2>8. TakenFirst'
    <3> SUFFICES ASSUME NEW u \in visited, NEW x \in heap'
                 PROVE  dist[u] <= x[1]
      BY <1>1, <2>4 DEF TakenFirst
    <3>1. CASE x \in heap
      BY <1>2, <3>1 DEF Core, TakenFirst
    <3>2. CASE x = <<alt, v>>
      <4>1. dist[u] <= dist[cur] /\ dist[u] \in Nat
        BY <1>1, <1>2, <2>4 DEF Loop
      <4>2. dist[u] <= alt
        BY <1>4, <2>1, <4>1
      <4> QED
        BY <3>2, <4>2
    <3> QED
      BY <2>2, <3>1, <3>2
  <2>9. Frontier'
    <3> SUFFICES ASSUME NEW u \in Places \ visited, Reached(u)'
                 PROVE  <<dist'[u], u>> \in heap'
      BY <1>1 DEF Frontier
    <3>1. CASE u = v
      BY <2>2, <3>1
    <3>2. CASE u # v
      BY <1>2, <2>2, <2>3, <3>2 DEF Core, Frontier
    <3> QED
      BY <3>1, <3>2
  <2>10. Preds'
    <3> SUFFICES ASSUME NEW u \in Places
                 PROVE  /\ prev'[u] # NoPlace =>
                               prev'[u] \in visited /\ Reached(u)' /\ Tight(prev[u], u)'
                        /\ Reached(u)' /\ u # asked.from => prev'[u] # NoPlace
      BY <1>1 DEF Preds
    <3>1. CASE u = v
      <4>1. dist'[v] = dist'[cur] + Weight(edges[next])
        BY <1>4, <2>2, <2>4
      <4>2. PICK j \in DOMAIN edges, c \in visited : j = next /\ c = cur
        BY <1>1, <1>4
      <4>3. IsHop(j, c, v)'
        BY <1>3, <2>1, <4>2
      <4>4. Tight(c, v)'
        BY <1>1, <4>1, <4>2, <4>3 DEF Tight
      <4> QED
        BY <1>4, <2>2, <2>3, <3>1, <4>2, <4>4
    <3>2. CASE u # v
      <4>1. prev'[u] = prev[u] /\ dist'[u] = dist[u] /\ Reached(u)' = Reached(u)
        BY <2>2, <2>3, <3>2
      <4>2. ASSUME prev[u] # NoPlace
            PROVE  prev[u] \in visited /\ Reached(u) /\ Tight(prev[u], u)'
        <5>1. prev[u] \in visited /\ Reached(u) /\ Tight(prev[u], u)
          BY <1>2, <4>2 DEF Core, Preds
        <5>2. PICK k \in DOMAIN edges :
                 IsHop(k, prev[u], u) /\ dist[u] = dist[prev[u]] + Weight(edges[k])
          BY <5>1 DEF Tight
        <5>3. dist'[prev[u]] = dist[prev[u]]
          BY <2>4, <5>1
        <5>4. IsHop(k, prev[u], u)'
          BY <1>3, <4>1, <5>2
        <5>5. Tight(prev[u], u)'
          BY <1>1, <4>1, <5>2, <5>3, <5>4 DEF Tight
        <5> QED
          BY <5>1, <5>5
      <4> QED
        BY <1>2, <4>1, <4>2 DEF Core, Preds
    <3> QED
      BY <3>1, <3>2
  <2>11. Core'
    BY <2>5, <2>6, <2>7, <2>8, <2>9, <2>10 DEF Core
  <2>12. Loop'
    <3>1. dist'[cur] = dist[cur] /\ \A u \in visited : dist'[u] = dist[u]
      BY <1>4, <2>4
    <3> QED
      BY <1>1, <1>2, <3>1 DEF Loop
  <2>13. Closed'
    <3> SUFFICES ASSUME NEW u \in visited \ {goal}, NEW k \in DOMAIN edges, NEW t \in Places,
                        IsHop(k, u, t), Tried(u, k)'
                 PROVE  Reached(t)' /\ dist'[t] <= dist[u] + Weight(edges[k])
      BY <1>1, <1>3, <2>4 DEF Closed
    <3>1. dist[u] \in Nat /\ Weight(edges[k]) \in Nat
      BY <2>4
    <3>2. CASE Tried(u, k)
      <4>1. Reached(t) /\ dist[t] <= dist[u] + Weight(edges[k])
        BY <1>2, <3>2 DEF Closed
      <4>2. CASE t # v
        BY <2>2, <2>3, <4>1, <4>2
      <4>3. CASE t = v
        <5>1. dist'[t] = alt /\ alt \in Nat /\ alt < dist[t] /\ dist[t] \in Nat /\ Reached(t)'
          BY <2>1, <2>2, <2>3, <4>1, <4>3
        <5> QED
          BY <3>1, <4>1, <5>1
      <4> QED
        BY <4>2, <4>3
    <3>3. CASE ~Tried(u, k)
      <4>1. u = cur /\ k = next
        BY <1>5, <3>3 DEF TypeOK
      <4>2. t = v
        BY <2>1, <4>1 DEF IsHop, Joins
      <4> QED
        BY <2>1, <2>2, <2>3, <4>1, <4>2
    <3> QED
      BY <3>2, <3>3
  <2> QED
    BY <1>1, <2>11, <2>12, <2>13 DEF SearchInv, Outcome
<1>7. ASSUME near = {}, UNCHANGED <<dist, prev, heap>>
      PROVE  SearchInv'
  <2>1. \A v : Reached(v)' = Reached(v)
    BY <1>7 DEF Reached
  <2>2. \A u, v : Tight(u, v)' = Tight(u, v)
    BY <1>1, <1>3, <1>7 DEF Tight
  <2>3. Core'
    BY <1>1, <1>2, <1>7, <2>1, <2>2
       DEF Core, Started, HeapReached, VisitedReached, TakenFirst, Frontier, Preds
  <2>4. Loop'
    BY <1>1, <1>2, <1>7 DEF Loop
  <2>5. Closed'
    <3> SUFFICES ASSUME NEW u \in visited \ {goal}, NEW k \in DOMAIN edges, NEW v \in Places,
                        IsHop(k, u, v), Tried(u, k)'
                 PROVE  Reached(v) /\ dist[v] <= dist[u] + Weight(edges[k])
      BY <1>1, <1>3, <1>7, <2>1 DEF Closed
    <3>1. CASE Tried(u, k)
      BY <1>2, <3>1 DEF Closed
    <3>2. CASE ~Tried(u, k)
      <4>1. u = cur /\ k = next
        BY <1>5, <3>2 DEF TypeOK
      <4>2. ~IsBetter(v, alt)
        BY <1>7, <4>1
      <4> QED
        BY <1>1, <1>4, <4>1, <4>2 DEF IsBetter, Reached, Unreached
    <3> QED
      BY <3>1, <3>2
  <2> QED
    BY <1>1, <2>3, <2>4, <2>5 DEF SearchInv, Outcome
<1> QED
  BY <1>6, <1>7 DEF Relax

\* The steps that only change the phase or the route.
LEMMA SameCore ==
    ASSUME UNCHANGED <<map, asked, edges, goal, dist, prev, heap, visited>>
    PROVE  /\ Core' = Core
           /\ \A v : Reached(v)' = Reached(v)
           /\ \A k, u, v : IsHop(k, u, v)' = IsHop(k, u, v)
           /\ \A u, v : Tight(u, v)' = Tight(u, v)
<1>1. /\ \A v : Reached(v)' = Reached(v)
      /\ \A k, u, v : IsHop(k, u, v)' = IsHop(k, u, v)
  BY DEF Reached, IsHop
<1>2. \A u, v : Tight(u, v)' = Tight(u, v)
  BY <1>1 DEF Tight
<1>3. Preds' = Preds
  BY <1>1, <1>2 DEF Preds
<1>4. /\ Started' = Started /\ HeapReached' = HeapReached /\ VisitedReached' = VisitedReached
      /\ TakenFirst' = TakenFirst /\ Frontier' = Frontier
  BY <1>1 DEF Started, HeapReached, VisitedReached, TakenFirst, Frontier
<1> QED
  BY <1>1, <1>2, <1>3, <1>4 DEF Core

LEMMA RelaxedStep ==
    ASSUME TypeOK, Phase, SearchInv, Relaxed
    PROVE  SearchInv'
<1>1. /\ at = "relaxing" /\ at' = "searching" /\ next > Len(edges)
      /\ UNCHANGED <<map, asked, edges, goal, search, route>>
  BY DEF Relaxed
<1>2. Core /\ Loop /\ Closed
  BY <1>1 DEF SearchInv, Searched
<1>3. Core'
  BY <1>1, <1>2, SameCore DEF search
<1>4. \A k \in DOMAIN edges : \A u : Tried(u, k)
  BY <1>1 DEF Tried, TypeOK
<1>5. Closed'
  BY <1>1, <1>2, <1>4, SameCore DEF Closed, search
<1>6. Loop'
  BY <1>1, <1>2 DEF Loop, search
<1> QED
  BY <1>1, <1>3, <1>5, <1>6 DEF SearchInv, Outcome

LEMMA ExhaustedStep ==
    ASSUME TypeOK, Phase, SearchInv, Exhausted
    PROVE  SearchInv'
<1>1. at = "searching" /\ heap = {} /\ UNCHANGED <<map, asked, edges, goal, search>>
  BY DEF Exhausted
<1>2. Core /\ Loop /\ Closed
  BY <1>1 DEF SearchInv, Searched
<1>3. goal \in Places /\ goal \notin visited
  BY <1>1, <1>2 DEF Phase, Loop
<1>4. prev[goal] = NoPlace
  BY <1>1, <1>2, <1>3 DEF Core, Preds, Frontier
<1>5. at' = "no_route"
  BY <1>4 DEF Exhausted
<1>6. Core'
  BY <1>1, <1>2, SameCore DEF search
<1>7. Closed'
  BY <1>1, <1>2, <1>5, SameCore DEF Closed, Tried, search
<1> QED
  BY <1>1, <1>3, <1>5, <1>6, <1>7 DEF SearchInv, Loop, Outcome, search

LEMMA WalkStep ==
    ASSUME TypeOK, Phase, SearchInv, Walk
    PROVE  SearchInv'
<1>1. at = "walking" /\ route[1] # asked.from /\ UNCHANGED <<map, asked, edges, goal, search>>
  BY DEF Walk
<1>2. Core /\ Loop /\ Closed /\ Outcome
  BY <1>1 DEF SearchInv, Searched
<1>3. goal \in visited /\ Trail /\ route \in Seq(Places) /\ route # << >>
  BY <1>1, <1>2 DEF Outcome, TypeOK, Phase
<1> DEFINE p == prev[route[1]]
<1>4. /\ p # NoPlace /\ p \in visited /\ Tight(p, route[1])
  BY <1>1, <1>2, <1>3 DEF Trail, Core, Preds
<1>5. p \in Places /\ Reached(p)
  BY <1>2, <1>4, Types DEF Core, VisitedReached
<1>6. route' = <<p>> \o route /\ at' = "walking"
  BY <1>1, <1>4 DEF Walk
<1>7. /\ Len(route') = Len(route) + 1 /\ route'[1] = p /\ Len(route) \in Nat \ {0}
      /\ \A n \in 1 .. Len(route) : route'[n + 1] = route[n]
  BY <1>3, <1>5, <1>6
<1>8. Trail'
  <2>1. route'[Len(route')] = goal
    BY <1>3, <1>7 DEF Trail
  <2>2. ASSUME NEW n \in 1 .. Len(route') - 1
        PROVE  Tight(route'[n], route'[n + 1])
    <3>1. CASE n = 1
      BY <1>4, <1>7, <3>1
    <3>2. CASE n # 1
      <4>1. n - 1 \in 1 .. Len(route) - 1 /\ (n - 1) + 1 = n
        BY <1>7, <2>2, <3>2
      <4>2. Tight(route[n - 1], route[n])
        BY <1>3, <4>1 DEF Trail
      <4>3. route'[n] = route[n - 1] /\ route'[n + 1] = route[n]
        BY <1>7, <2>2, <4>1
      <4> QED
        BY <4>2, <4>3
    <3> QED
      BY <3>1, <3>2
  <2>3. \A u, v : Tight(u, v)' = Tight(u, v)
    BY <1>1, SameCore DEF search
  <2>4. \A n \in 1 .. Len(route') - 1 : Tight(route[n], route[n + 1])'
    BY <2>2, <2>3
  <2>5. Reached(route[1])'
    BY <1>1, <1>5, <1>7, SameCore DEF search
  <2> QED
    BY <1>1, <1>5, <1>7, <2>1, <2>4, <2>5 DEF Trail
<1>9. Core'
  BY <1>1, <1>2, SameCore DEF search
<1>10. Closed'
  BY <1>1, <1>2, <1>6, SameCore DEF Closed, Tried, search
<1> QED
  BY <1>1, <1>3, <1>6, <1>8, <1>9, <1>10 DEF SearchInv, Loop, Outcome, search

LEMMA ArriveStep ==
    ASSUME TypeOK, Phase, SearchInv, Arrive
    PROVE  SearchInv'
<1>1. /\ at = "walking" /\ at' = "ok" /\ route[1] = asked.from
      /\ UNCHANGED <<map, asked, edges, goal, search, route>>
  BY DEF Arrive
<1>2. Core /\ Loop /\ Closed /\ Outcome
  BY <1>1 DEF SearchInv, Searched
<1>3. Core'
  BY <1>1, <1>2, SameCore DEF search
<1>4. Closed'
  BY <1>1, <1>2, SameCore DEF Closed, Tried, search
<1>5. Trail'
  BY <1>1, <1>2, SameCore DEF Outcome, Trail, search
<1> QED
  BY <1>1, <1>2, <1>3, <1>4, <1>5 DEF SearchInv, Loop, Outcome, search

LEMMA StutterStep ==
    ASSUME SearchInv, UNCHANGED vars
    PROVE  SearchInv'
<1>1. UNCHANGED <<map, asked, at, edges, goal, dist, prev, heap, visited, cur, next, route>>
  BY DEF vars, search
<1>2. Searched' = Searched
  BY <1>1 DEF Searched
<1>3. Core' = Core /\ Loop' = Loop
  BY <1>1, SameCore DEF Loop
<1>4. Closed' = Closed
  BY <1>1, SameCore DEF Closed, Tried
<1>5. Trail' = Trail
  BY <1>1, SameCore DEF Trail
<1> QED
  BY <1>1, <1>2, <1>3, <1>4, <1>5 DEF SearchInv, Outcome

\* The invariant of the search holds of every request, on every map.
THEOREM Invariance == Spec => []IInv
<1>1. Init => Fresh /\ SearchInv /\ StayInv
  BY DEF Init, Fresh, SearchInv, Searched, StayInv
<1>2. TypeOK /\ Phase /\ Fresh /\ SearchInv /\ StayInv /\ [Next]_vars
        => Fresh' /\ SearchInv' /\ StayInv'
  <2> SUFFICES ASSUME TypeOK, Phase, Fresh, SearchInv, StayInv, [Next]_vars
               PROVE  Fresh' /\ SearchInv' /\ StayInv'
    OBVIOUS
  <2>1. ASSUME NEW r \in Requests, Ask(r)
        PROVE  Fresh' /\ SearchInv' /\ StayInv'
    BY <2>1 DEF Ask, search, Fresh, SearchInv, Searched, StayInv
  <2>2. CASE UnknownOrigin
    BY <2>2 DEF UnknownOrigin, Fresh, SearchInv, Searched, StayInv
  <2>3. CASE FoundDoor
    BY <2>3 DEF FoundDoor, search, Fresh, SearchInv, Searched, StayInv
  <2>4. CASE MadeUpDoor
    BY <2>4 DEF MadeUpDoor, search, Fresh, SearchInv, Searched, StayInv
  <2>5. CASE NoDoor
    BY <2>5 DEF NoDoor, Phase, Fresh, SearchInv, Searched, StayInv
  <2>6. CASE There
    BY <2>6 DEF There, Fresh, SearchInv, Searched, StayInv
  <2>7. CASE Start
    BY <2>7, StartStep DEF Start, Fresh, StayInv
  <2>8. CASE Pop
    <3>1. PICK x \in heap : Take(x) \/ Skip(x)
      BY <2>8 DEF Pop
    <3>2. at' \in {"searching", "relaxing", "walking"}
      BY <2>8, <3>1 DEF Pop, Take, Skip, Expand
    <3> QED
      BY <2>8, <3>2, PopStep DEF Fresh, StayInv
  <2>9. CASE Relax
    BY <2>9, RelaxStep DEF Relax, Fresh, StayInv
  <2>10. CASE Relaxed
    BY <2>10, RelaxedStep DEF Relaxed, Fresh, StayInv
  <2>11. CASE Exhausted
    <3>1. at' \in {"no_route", "walking"}
      BY <2>11 DEF Exhausted
    <3> QED
      BY <2>11, <3>1, ExhaustedStep DEF Fresh, StayInv
  <2>12. CASE Walk
    <3>1. at' \in {"no_route", "walking"}
      BY <2>12 DEF Walk
    <3> QED
      BY <2>12, <3>1, WalkStep DEF Fresh, StayInv
  <2>13. CASE Arrive
    BY <2>13, ArriveStep DEF Arrive, Phase, Fresh, StayInv
  <2>14. CASE Reply
    BY <2>14 DEF Reply, Fresh, SearchInv, Searched, StayInv
  <2>15. CASE UNCHANGED vars
    BY <2>15, StutterStep DEF vars, search, Fresh, StayInv
  <2> QED
    BY <2>1, <2>2, <2>3, <2>4, <2>5, <2>6, <2>7, <2>8, <2>9, <2>10, <2>11, <2>12,
       <2>13, <2>14, <2>15 DEF Next, Handle
<1> QED
  BY <1>1, <1>2, TypeCorrect, PTL DEF Spec, IInv

-----------------------------------------------------------------------------
\* The handler's data have their types.
THEOREM TypeSafety == Spec => []TypeOK
BY TypeCorrect, PTL

\* What was reached and not taken waits in the heap of _dijkstra: an entry that a
\* nearer way makes stale is never the last one of its node.
THEOREM NothingIsForgotten == Spec => []FrontierInHeap
<1>1. IInv => FrontierInHeap
  BY DEF IInv, SearchInv, Searched, Core, Frontier, FrontierInHeap
<1> QED
  BY <1>1, Invariance, PTL

\* A route goes from the origin to the door over hops of the map that the mode
\* leaves, and its length is the one that is announced.
THEOREM Walkable == Spec => []RouteIsWalkable
<1>1. IInv => RouteIsWalkable
  <2> SUFFICES ASSUME IInv, at = "ok"
               PROVE  /\ route # << >> /\ route[1] = asked.from /\ route[Len(route)] = goal
                      /\ \A n \in 1 .. Len(route) - 1 : Tight(route[n], route[n + 1])
    BY DEF RouteIsWalkable, Tight
  <2>1. CASE goal = asked.from
    <3>1. route = <<goal>>
      BY <2>1 DEF IInv, StayInv
    <3> QED
      BY <2>1, <3>1
  <2>2. CASE goal # asked.from
    <3>1. Outcome
      BY <2>2 DEF IInv, SearchInv, Searched, Phase
    <3> QED
      BY <3>1 DEF Outcome, Trail, IInv, Phase
  <2> QED
    BY <2>1, <2>2
<1> QED
  BY <1>1, Invariance, PTL

\* A route is as short as can be: the distances _dijkstra found are a lower bound
\* for every way, since no hop out of what is nearer than the goal gains on them.
THEOREM Shortest == Spec => []NothingShorter
<1>1. IInv => NothingShorter
  <2> SUFFICES ASSUME IInv, at = "ok", goal # asked.from
               PROVE  /\ dist[asked.from] = 0
                      /\ \A k \in DOMAIN edges : \A u, v \in Places :
                           /\ IsHop(k, u, v) /\ Reached(u) /\ dist[u] < dist[goal]
                           => Reached(v) /\ dist[v] <= dist[u] + Weight(edges[k])
    BY DEF NothingShorter
  <2>1. Core /\ Closed /\ goal \in visited /\ TypeOK
    BY DEF IInv, SearchInv, Searched, Outcome, Phase
  <2>2. ASSUME NEW u \in Places, Reached(u), dist[u] < dist[goal]
        PROVE  u \in visited \ {goal}
    <3>1. dist[u] \in Nat /\ dist[goal] \in Nat
      BY <2>1, <2>2, Types DEF Core, VisitedReached
    <3>2. u # goal
      BY <2>2, <3>1
    <3>3. ASSUME u \notin visited
          PROVE  dist[goal] <= dist[u]
      <4>1. <<dist[u], u>> \in heap
        BY <2>1, <2>2, <3>3 DEF Core, Frontier
      <4>2. dist[goal] <= <<dist[u], u>>[1]
        BY <2>1, <4>1 DEF Core, TakenFirst
      <4> QED
        BY <4>2
    <3> QED
      BY <2>2, <3>1, <3>2, <3>3
  <2>3. \A u, k : Tried(u, k)
    BY DEF Tried
  <2> QED
    BY <2>1, <2>2, <2>3 DEF Core, Started, Closed
<1> QED
  BY <1>1, Invariance, PTL

\* "No path found" comes with a set of places that no hop leaves, the origin in it
\* and the door outside.
THEOREM NoRouteIsTrue == Spec => []NoRouteIsACut
<1>1. IInv => NoRouteIsACut
  <2> SUFFICES ASSUME IInv, at = "no_route", goal # NoPlace
               PROVE  /\ asked.from \in visited /\ goal \notin visited
                      /\ \A k \in DOMAIN edges : \A u, v \in Places :
                           IsHop(k, u, v) /\ u \in visited => v \in visited
    BY DEF NoRouteIsACut
  <2>1. Core /\ Closed /\ heap = {} /\ goal \notin visited /\ asked.from \in Places
    BY PlaceFacts DEF IInv, SearchInv, Searched, Outcome, Phase
  <2>2. ASSUME NEW v \in Places, Reached(v)
        PROVE  v \in visited
    BY <2>1, <2>2 DEF Core, Frontier
  <2>3. asked.from \in visited
    BY <2>1, <2>2 DEF Core, Started, Reached, Unreached
  <2>4. \A u, k : Tried(u, k)
    BY DEF Tried
  <2>5. \A k \in DOMAIN edges : \A u, v \in Places :
           IsHop(k, u, v) /\ u \in visited => v \in visited
    BY <2>1, <2>2, <2>4 DEF Closed
  <2> QED
    BY <2>1, <2>3, <2>5
<1> QED
  BY <1>1, Invariance, PTL

\* The three together: whatever the map and the request, the answer is right.
THEOREM AnswerIsRight == Spec => []RouteIsCorrect
<1>1. RouteIsWalkable /\ NothingShorter /\ NoRouteIsACut => RouteIsCorrect
  BY DEF RouteIsCorrect
<1> QED
  BY <1>1, Walkable, Shortest, NoRouteIsTrue, PTL

\* The distance and the predecessor of a node that was taken do not change.
THEOREM Final == Spec => SettledIsFinal
<1> DEFINE A == at \notin Ended => \A v \in visited : dist'[v] = dist[v] /\ prev'[v] = prev[v]
<1>1. IInv /\ [Next]_vars => A
  <2> SUFFICES ASSUME IInv, [Next]_vars, at \notin Ended, NEW v \in visited
               PROVE  dist'[v] = dist[v] /\ prev'[v] = prev[v]
    OBVIOUS
  <2>1. CASE UNCHANGED <<dist, prev>>
    BY <2>1
  <2>2. CASE Start
    BY <2>2 DEF Start, IInv, Fresh
  <2>3. CASE Relax
    <3> DEFINE alt == dist[cur] + Weight(edges[next])
    <3>1. at = "relaxing" /\ next \in DOMAIN edges
      BY <2>3 DEF Relax, IInv, TypeOK
    <3>2. ASSUME NEW u \in Places, IsBetter(u, alt), Improve(u, alt)
          PROVE  dist'[v] = dist[v] /\ prev'[v] = prev[v]
      <4>1. v # u /\ v \in Places
        BY <3>1, <3>2, ImproveFacts DEF IInv, TypeOK
      <4> QED
        BY <3>2, <4>1 DEF Improve, IInv, TypeOK
    <3> QED
      BY <2>3, <3>2 DEF Relax
  <2> QED
    BY <2>1, <2>2, <2>3
       DEF Next, Handle, Ask, UnknownOrigin, FoundDoor, MadeUpDoor, NoDoor, There, Pop, Relaxed,
           Exhausted, Walk, Arrive, Reply, search, vars
<1>2. IInv /\ [Next]_vars => [A]_vars
  BY <1>1
<1> QED
  BY <1>2, Invariance, PTL DEF Spec, SettledIsFinal
-----------------------------------------------------------------------------
(* What is announced *)

\* The edges that were searched are those of the map, but for the one edge of a
\* door that was made up.
Extended ==
    \E a \in Nodes, metres \in AccessLengths :
        edges = Append(map.edges, AccessEdge(a, metres))

EdgesInv ==
    goal # NoPlace => \/ edges = map.edges
                      \/ goal = TmpDoor /\ Extended

\* The route comes from nearer places, so that the made-up door is its end only.
Nearer ==
    at \in {"walking", "ok"} =>
        \A n \in 1 .. Len(route) - 1 : dist[route[n]] < dist[goal]

AnnounceInv == EdgesInv /\ Nearer

LEMMA FirstExists ==
    ASSUME NEW S \in SUBSET Nat, First(S) = {}
    PROVE  S = {}
<1> SUFFICES ASSUME S # {} PROVE FALSE
  OBVIOUS
<1> DEFINE R == OpToRel(<, Nat)
<1>1. IsWellFoundedOn(R, Nat)
  BY NatLessThanWellFounded
<1>2. \A y, x \in Nat : y < x => <<y, x>> \in R
  BY DEF OpToRel
<1> HIDE DEF R
<1>3. PICK k \in S : \A j \in S : <<j, k>> \notin R
  BY <1>1, WFMin
<1>4. \A j \in S : k <= j
  <2> SUFFICES ASSUME NEW j \in S PROVE k <= j
    OBVIOUS
  <2>1. k \in Nat /\ j \in Nat
    OBVIOUS
  <2>2. ~(j < k)
    BY <1>2, <1>3, <2>1, Zenon
  <2> QED
    BY <2>1, <2>2
<1> QED
  BY <1>3, <1>4 DEF First

LEMMA EdgesStep == IInv /\ EdgesInv /\ [Next]_vars => EdgesInv'
<1> SUFFICES ASSUME IInv, EdgesInv, [Next]_vars PROVE EdgesInv'
  OBVIOUS
<1>1. CASE UNCHANGED <<map, edges, goal>>
  BY <1>1 DEF EdgesInv, Extended
<1>2. CASE FoundDoor
  BY <1>2 DEF FoundDoor, EdgesInv
<1>3. CASE MadeUpDoor
  <2>1. PICK a \in Anchors(asked.room, asked.hint), metres \in AccessLengths :
            edges' = Append(map.edges, AccessEdge(a, metres))
    BY <1>3 DEF MadeUpDoor
  <2>2. a \in Nodes /\ goal' = TmpDoor /\ map' = map
    BY <1>3, AnchorsAreNodes DEF MadeUpDoor
  <2> QED
    BY <2>1, <2>2 DEF EdgesInv, Extended
<1>4. CASE Reply
  BY <1>4 DEF Reply, EdgesInv
<1> QED
  BY <1>1, <1>2, <1>3, <1>4
     DEF Next, Handle, Ask, UnknownOrigin, NoDoor, There, Start, Pop, Relax,
         Relaxed, Exhausted, Walk, Arrive, search, vars

LEMMA NearerStep == IInv /\ Nearer /\ [Next]_vars => Nearer'
<1> SUFFICES ASSUME IInv, Nearer, [Next]_vars,
                    at' \in {"walking", "ok"}
             PROVE  \A n \in 1 .. Len(route') - 1 : dist'[route'[n]] < dist'[goal']
  BY DEF Nearer
<1>1. CASE route' = <<goal>>
  BY <1>1
<1>2. CASE UNCHANGED <<route, dist, goal>> /\ at \in {"walking", "ok"}
  BY <1>2 DEF Nearer
<1>3. CASE Walk
  <2> DEFINE p == prev[route[1]]
  <2>1. /\ at = "walking" /\ route[1] # asked.from /\ p # NoPlace
        /\ route' = <<p>> \o route
        /\ UNCHANGED <<map, asked, edges, goal, search>>
    BY <1>3 DEF Walk
  <2>2. /\ Core /\ goal \in visited /\ Trail
        /\ route \in Seq(Places) /\ route # << >> /\ TypeOK
    BY <2>1 DEF IInv, SearchInv, Searched, Outcome, TypeOK, Phase
  <2>3. p \in visited /\ Reached(p) /\ Tight(p, route[1]) /\ Reached(route[1])
    BY <2>1, <2>2 DEF Core, Preds, VisitedReached, Trail
  <2>4. p \in Places /\ route[1] \in Places /\ goal \in Places
    BY <2>2, <2>3, Types DEF Trail
  <2>5. dist[p] \in Nat /\ dist[route[1]] \in Nat /\ dist[goal] \in Nat
    BY <2>2, <2>3, <2>4, Types DEF Core, VisitedReached
  <2>6. dist[p] < dist[route[1]]
    <3>1. PICK k \in DOMAIN edges : dist[route[1]] = dist[p] + Weight(edges[k])
      BY <2>3 DEF Tight
    <3>2. Weight(edges[k]) \in Nat \ {0}
      BY <2>2, Types
    <3> QED
      BY <3>1, <3>2, <2>5
  <2>7. Len(route) \in Nat \ {0} /\ route[Len(route)] = goal
    BY <2>2 DEF Trail
  <2>8. dist[route[1]] <= dist[goal]
    <3>1. CASE Len(route) = 1
      BY <3>1, <2>5, <2>7
    <3>2. CASE Len(route) # 1
      <4>1. 1 \in 1 .. Len(route) - 1
        <5> DEFINE m == Len(route)
        <5>1. m \in Nat \ {0} /\ m # 1
          BY <3>2, <2>7
        <5> HIDE DEF m
        <5>2. 1 \in 1 .. m - 1
          BY <5>1
        <5> QED
          BY <5>2 DEF m
      <4>2. dist[route[1]] < dist[goal]
        BY <4>1, <2>1 DEF Nearer
      <4> QED
        BY <4>2, <2>5
    <3> QED
      BY <3>1, <3>2
  <2>9. /\ Len(route') = Len(route) + 1 /\ route'[1] = p
        /\ \A n \in 1 .. Len(route) : route'[n + 1] = route[n]
    BY <2>1, <2>2, <2>4
  <2>10. ASSUME NEW n \in 1 .. Len(route') - 1
         PROVE  dist[route'[n]] < dist[goal]
    <3>1. CASE n = 1
      BY <3>1, <2>5, <2>6, <2>8, <2>9
    <3>2. CASE n # 1
      <4>1. n - 1 \in 1 .. Len(route) - 1 /\ (n - 1) + 1 = n
        BY <3>2, <2>7, <2>9
      <4>2. route'[n] = route[n - 1]
        BY <4>1, <2>7, <2>9
      <4> QED
        BY <4>1, <4>2, <2>1 DEF Nearer
    <3> QED
      BY <3>1, <3>2
  <2> QED
    BY <2>1, <2>10 DEF search
<1>4. CASE Pop
  BY <1>1, <1>4 DEF Pop, Take, Skip, Expand
<1>5. CASE Next /\ ~Walk /\ ~Pop
  BY <1>1, <1>2, <1>5
     DEF Next, Handle, Ask, UnknownOrigin, FoundDoor, MadeUpDoor, NoDoor, There,
         Start, Relax, Relaxed, Exhausted, Arrive, Reply, search
<1>6. CASE UNCHANGED vars
  BY <1>2, <1>6 DEF vars, search
<1> QED
  BY <1>3, <1>4, <1>5, <1>6

\* For every hop of a route but the one to a made-up door an edge is announced,
\* and none the mode leaves out: _edge_between finds the hop among the edges of
\* the map, since only the last hop can have gone over the edge made up for the
\* door (campus_route_engine.py, _edge_between).
THEOREM Announcements == Spec => []AnnouncedIsAllowed
<1>1. Init => AnnounceInv
  BY DEF Init, AnnounceInv, EdgesInv, Nearer
<1>2. IInv /\ AnnounceInv /\ [Next]_vars => AnnounceInv'
  BY EdgesStep, NearerStep DEF AnnounceInv
<1>3. IInv /\ AnnounceInv => AnnouncedIsAllowed
  <2> SUFFICES ASSUME IInv, AnnounceInv, at = "ok",
                      NEW n \in 1 .. Len(route) - 1
               PROVE  LET said == Announced(route[n], route[n + 1])
                      IN  /\ said = {} => route[n + 1] = TmpDoor
                          /\ \A k \in said : map.edges[k].active
                                /\ (asked.mode = "accessible"
                                        => map.edges[k].accessible)
    BY DEF AnnouncedIsAllowed
  <2> DEFINE u == route[n]
             v == route[n + 1]
             found == {k \in DOMAIN map.edges :
                         UsableIn(map.edges[k], asked.mode)
                            /\ Joins(map.edges[k], u, v)}
  <2>1. \A k \in Announced(u, v) :
            /\ map.edges[k].active
            /\ asked.mode = "accessible" => map.edges[k].accessible
    BY DEF Announced, First, UsableIn
  <2>2. ASSUME Announced(u, v) = {}
        PROVE  v = TmpDoor
    <3>1. map.edges \in Seq(Edge)
      BY MapsAssumption DEF IInv, TypeOK
    <3>2. DOMAIN map.edges = 1 .. Len(map.edges) /\ Len(map.edges) \in Nat
      BY <3>1
    <3>3. found = {}
      <4>1. found \in SUBSET Nat
        BY <3>2
      <4>2. First(found) = {}
        BY <2>2 DEF Announced
      <4> QED
        BY <4>1, <4>2, FirstExists
    <3>4. goal # asked.from
      <4> SUFFICES ASSUME goal = asked.from PROVE FALSE
        OBVIOUS
      <4>1. route = <<goal>>
        BY DEF IInv, StayInv
      <4>2. Len(route) = 1
        BY <4>1
      <4> QED
        BY <4>2
    <3>5. Outcome /\ goal # NoPlace
      BY <3>4 DEF IInv, SearchInv, Searched, Phase
    <3>6. PICK k \in DOMAIN edges : IsHop(k, u, v)
      BY <3>5 DEF Outcome, Trail, Tight
    <3>7. UsableIn(edges[k], asked.mode) /\ Joins(edges[k], u, v)
      BY <3>6 DEF IsHop
    <3>8. edges # map.edges
      BY <3>3, <3>6, <3>7
    <3>9. goal = TmpDoor /\ Extended
      BY <3>5, <3>8 DEF AnnounceInv, EdgesInv
    <3>10. PICK a \in Nodes, metres \in AccessLengths :
                edges = Append(map.edges, AccessEdge(a, metres))
      BY <3>9 DEF Extended
    <3>11. CASE k \in DOMAIN map.edges
      <4>1. edges[k] = map.edges[k]
        BY <3>1, <3>2, <3>10, <3>11
      <4> QED
        BY <3>3, <3>7, <3>11, <4>1
    <3>12. CASE k \notin DOMAIN map.edges
      <4>1. edges[k] = AccessEdge(a, metres)
        <5>1. AccessEdge(a, metres) \in Edge
          <6>1. a \in Nat /\ TmpDoor \in Nat /\ metres \in Nat
            OBVIOUS
          <6> QED
            BY <6>1 DEF AccessEdge, Edge
        <5>2. k = Len(map.edges) + 1
          BY <3>1, <3>2, <3>10, <3>12, <5>1
        <5> QED
          BY <3>1, <3>10, <5>1, <5>2
      <4>2. u = TmpDoor \/ v = TmpDoor
        BY <3>7, <4>1 DEF Joins, AccessEdge
      <4>3. u # TmpDoor
        <5>1. dist[u] < dist[goal]
          BY DEF AnnounceInv, Nearer
        <5>2. dist[goal] \in Nat
          <6>1. Core /\ goal \in visited /\ goal \in Places
            BY <3>4, <3>5 DEF IInv, SearchInv, Searched, Outcome, Phase
          <6> QED
            BY <6>1, Types DEF IInv, Core, VisitedReached
        <5> QED
          BY <3>9, <5>1, <5>2
      <4> QED
        BY <4>2, <4>3
    <3> QED
      BY <3>11, <3>12
  <2> QED
    BY <2>1, <2>2
<1> QED
  BY <1>1, <1>2, <1>3, Invariance, PTL DEF Spec
-----------------------------------------------------------------------------
(* What the service promises *)

\* A set of numbers that is not empty has a least one.
LEMMA LeastOf ==
    ASSUME NEW S \in SUBSET Nat, S # {}
    PROVE  \E i \in S : \A j \in S : i <= j
BY FirstExists DEF First

\* Induction over a set of numbers.
LEMMA AllNumbers ==
    ASSUME NEW S \in SUBSET Nat, 0 \in S, \A n \in S : n + 1 \in S
    PROVE  \A n \in Nat : n \in S
<1> SUFFICES ASSUME Nat \ S # {} PROVE FALSE
  OBVIOUS
<1>1. PICK i \in Nat \ S : \A j \in Nat \ S : i <= j
  BY LeastOf
<1>2. i # 0 /\ i - 1 \in Nat
  BY <1>1
<1>3. i - 1 \in S
  BY <1>1, <1>2
<1> QED
  BY <1>1, <1>2, <1>3

\* A recursion over numbers from a, whose step is given as a function.
Recursive(f, S, a, T, N) ==
    f \in [0 .. N -> S] /\ f[0] = a /\ \A n \in 1 .. N : f[n] = T[n][f[n - 1]]

\* It has a value.
LEMMA Recursion ==
    ASSUME NEW S, NEW a \in S, NEW T \in [Nat -> [S -> S]], NEW N \in Nat
    PROVE  \E f : Recursive(f, S, a, T, N)
<1> DEFINE Steps(f, m) == f[0] = a /\ \A n \in 1 .. m : f[n] = T[n][f[n - 1]]
           G == {m \in Nat : \E f \in [0 .. m -> S] : Steps(f, m)}
<1>1. 0 \in G
  <2> DEFINE f == [n \in 0 .. 0 |-> a]
  <2>1. f \in [0 .. 0 -> S] /\ Steps(f, 0)
    OBVIOUS
  <2> HIDE DEF f, Steps
  <2> QED
    BY <2>1
<1>2. ASSUME NEW m \in G PROVE m + 1 \in G
  <2>1. m \in Nat
    OBVIOUS
  <2>2. PICK f \in [0 .. m -> S] : Steps(f, m)
    OBVIOUS
  <2> DEFINE g == [n \in 0 .. m + 1 |-> IF n <= m THEN f[n] ELSE T[m + 1][f[m]]]
  <2>3. f[m] \in S /\ T[m + 1] \in [S -> S]
    BY <2>1
  <2>4. T[m + 1][f[m]] \in S
    BY <2>3
  <2>5. g \in [0 .. m + 1 -> S]
    BY <2>1, <2>4
  <2>6. \A n \in 0 .. m : g[n] = f[n]
    BY <2>1
  <2>7. g[m + 1] = T[m + 1][f[m]]
    BY <2>1
  <2> HIDE DEF g
  <2>8. ASSUME NEW n \in 1 .. m + 1 PROVE g[n] = T[n][g[n - 1]]
    <3>1. n - 1 \in 0 .. m /\ g[n - 1] = f[n - 1]
      BY <2>1, <2>6
    <3>2. CASE n = m + 1
      <4>1. n - 1 = m
        BY <2>1, <3>2
      <4> QED
        BY <2>7, <3>1, <3>2, <4>1
    <3>3. CASE n # m + 1
      <4>1. n \in 1 .. m /\ n \in 0 .. m
        BY <2>1, <3>3
      <4> QED
        BY <2>2, <2>6, <3>1, <4>1
    <3> QED
      BY <3>2, <3>3
  <2>9. g[0] = a
    BY <2>1, <2>2, <2>6
  <2>10. Steps(g, m + 1)
    BY <2>8, <2>9
  <2> HIDE DEF Steps
  <2> QED
    BY <2>1, <2>5, <2>10
<1>3. G \in SUBSET Nat
  OBVIOUS
<1> HIDE DEF G
<1>4. N \in G
  BY <1>1, <1>2, <1>3, AllNumbers
<1> QED
  BY <1>4 DEF G, Recursive

-----------------------------------------------------------------------------
\* Hops between places, and what is known of the walks to each place.
HopSet == [from : Places, to : Places, length : Nat \ {0}]
Known == [Places -> Nat \cup {-1}]
Size == Cardinality(Places)

LEMMA SizeFacts == IsFiniteSet(Places) /\ Size \in Nat
<1>1. IsFiniteSet(Nodes \cup {TmpDoor})
  <2>1. IsFiniteSet(Nodes)
    BY NodesAssumption
  <2> QED
    BY <2>1, FS_AddElement, Zenon
<1>2. Cardinality(Places) \in Nat
  BY <1>1, FS_CardinalityType DEF Places
<1> QED
  BY <1>1, <1>2 DEF Places, Size

LEMMA SizeInService == Service!Cardinality(Places) = Size
BY DEF Service!Cardinality, Cardinality, Size

LEMMA LeastFound ==
    ASSUME NEW S \in SUBSET Nat, S # {}
    PROVE  Service!Least(S) \in S /\ \A x \in S : Service!Least(S) <= x
BY LeastOf DEF Service!Least

\* What Shorter gives is no longer than staying or any hop more, and is one of them.
LEMMA ShorterFacts ==
    ASSUME NEW known \in Known, NEW v \in Places, NEW hops \in SUBSET HopSet
    PROVE  LET best == Service!Shorter(known, v, hops)
           IN  /\ best \in Nat \cup {-1}
               /\ known[v] # -1 => best # -1 /\ best <= known[v]
               /\ \A h \in hops : h.to = v /\ known[h.from] # -1
                                    => best # -1 /\ best <= known[h.from] + h.length
               /\ best # -1 => \/ known[v] # -1 /\ best = known[v]
                               \/ \E h \in hops : /\ h.to = v /\ known[h.from] # -1
                                                  /\ best = known[h.from] + h.length
<1> DEFINE ways == {known[h.from] + h.length :
                        h \in {g \in hops : g.to = v /\ known[g.from] # -1}}
                    \cup (IF known[v] = -1 THEN {} ELSE {known[v]})
           best == Service!Shorter(known, v, hops)
<1>1. \A h \in hops : h.from \in Places /\ h.length \in Nat
  BY DEF HopSet
<1>2. \A u \in Places : known[u] # -1 => known[u] \in Nat
  BY DEF Known
<1>3. ways \in SUBSET Nat
  BY <1>1, <1>2
<1>4. best = IF ways = {} THEN -1 ELSE Service!Least(ways)
  BY DEF Service!Shorter
<1>5. ways # {} => best \in ways /\ best \in Nat /\ \A x \in ways : best <= x
  <2> HIDE DEF ways, best
  <2> QED
    BY <1>3, <1>4, LeastFound
<1>6. known[v] # -1 => known[v] \in ways
  OBVIOUS
<1>7. \A h \in hops : h.to = v /\ known[h.from] # -1 => known[h.from] + h.length \in ways
  OBVIOUS
<1>8. \A x \in ways : \/ known[v] # -1 /\ x = known[v]
                      \/ \E h \in hops : /\ h.to = v /\ known[h.from] # -1
                                         /\ x = known[h.from] + h.length
  OBVIOUS
<1>9. best # -1 => ways # {}
  <2> HIDE DEF ways, best
  <2> QED
    BY <1>4
<1> HIDE DEF ways, best
<1>10. \A h \in hops : h.to = v /\ known[h.from] # -1 => best # -1 /\ best <= known[h.from] + h.length
  BY <1>5, <1>7
<1>11. best \in Nat \cup {-1} /\ (known[v] # -1 => best # -1 /\ best <= known[v])
  BY <1>4, <1>5, <1>6
<1>12. best # -1 => \/ known[v] # -1 /\ best = known[v]
                    \/ \E h \in hops : /\ h.to = v /\ known[h.from] # -1
                                       /\ best = known[h.from] + h.length
  BY <1>5, <1>8, <1>9
<1> QED
  BY <1>10, <1>11, <1>12 DEF best

\* Lengths is built hop by hop.
LEMMA LengthsSteps ==
    ASSUME NEW start, NEW hops \in SUBSET HopSet
    PROVE  \E f \in [0 .. Size -> Known] :
             /\ f[0] = [v \in Places |-> IF v = start THEN 0 ELSE -1]
             /\ \A n \in 1 .. Size : \A v \in Places :
                  f[n][v] = Service!Shorter(f[n - 1], v, hops)
             /\ Service!Lengths(start, hops) = f[Size]
<1> DEFINE a == [v \in Places |-> IF v = start THEN 0 ELSE -1]
           More(known) == [v \in Places |-> Service!Shorter(known, v, hops)]
           T == [n \in Nat |-> [known \in Known |-> More(known)]]
<1>1. a \in Known
  BY DEF Known
<1>2. ASSUME NEW known \in Known PROVE More(known) \in Known
  <2>1. \A v \in Places : Service!Shorter(known, v, hops) \in Nat \cup {-1}
    BY ShorterFacts
  <2> QED
    BY <2>1 DEF Known
<1>3. T \in [Nat -> [Known -> Known]] /\ \A n \in Nat : \A known \in Known : T[n][known] = More(known)
  BY <1>2
<1> HIDE DEF a, T, More
<1>4. PICK f : Recursive(f, Known, a, T, Size)
  BY <1>1, <1>3, Recursion, SizeFacts
<1>5. \A n \in 1 .. Size : n - 1 \in 0 .. Size /\ n \in Nat
  BY SizeFacts
<1>14. /\ f \in [0 .. Size -> Known] /\ f[0] = a
       /\ \A n \in 1 .. Size : f[n] = T[n][f[n - 1]]
  BY <1>4 DEF Recursive
<1>6. \A n \in 1 .. Size : f[n] = More(f[n - 1])
  BY <1>3, <1>14, <1>5
<1>7. f = [n \in 0 .. Size |-> IF n = 0 THEN a ELSE More(f[n - 1])]
  <2>1. \A n \in 0 .. Size : f[n] = IF n = 0 THEN a ELSE More(f[n - 1])
    BY <1>14, <1>6, SizeFacts
  <2> QED
    BY <1>14, <2>1
<1> DEFINE within == CHOOSE g : g = [n \in 0 .. Size |-> IF n = 0 THEN a ELSE More(g[n - 1])]
<1>8. within = [n \in 0 .. Size |-> IF n = 0 THEN a ELSE More(within[n - 1])]
  BY <1>7
<1>9. Service!Lengths(start, hops) = within[Size]
  BY SizeInService DEF Service!Lengths, a, More
<1> HIDE DEF within
<1> DEFINE G == {n \in Nat : n <= Size => within[n] = f[n]}
<1>10. 0 \in G
  BY <1>14, <1>8, SizeFacts
<1>11. ASSUME NEW n \in G PROVE n + 1 \in G
  <2> SUFFICES ASSUME n + 1 <= Size PROVE within[n + 1] = f[n + 1]
    BY <1>11
  <2>1. within[n] = f[n] /\ n + 1 \in 1 .. Size /\ n + 1 \in 0 .. Size /\ (n + 1) - 1 = n /\ n + 1 # 0
    BY <1>11, SizeFacts
  <2>2. within[n + 1] = More(within[n])
    BY <1>8, <2>1
  <2>3. f[n + 1] = More(f[n])
    BY <1>6, <2>1
  <2> QED
    BY <2>1, <2>2, <2>3
<1>12. within[Size] = f[Size]
  <2>1. G \in SUBSET Nat
    OBVIOUS
  <2> HIDE DEF G
  <2>2. Size \in G
    BY <1>10, <1>11, <2>1, AllNumbers, SizeFacts
  <2> QED
    BY <2>2, SizeFacts DEF G
<1>13. \A n \in 1 .. Size : \A v \in Places : f[n][v] = Service!Shorter(f[n - 1], v, hops)
  BY <1>6 DEF More
<1> QED
  BY <1>14, <1>9, <1>12, <1>13 DEF a

\* What holds of the start and no distance, and is handed on along each hop, holds
\* of every place and the length that is found for it.
LEMMA HandedOn ==
    ASSUME NEW start \in Places, NEW hops \in SUBSET HopSet,
           NEW R \in SUBSET (Places \X Nat), <<start, 0>> \in R,
           \A h \in hops : \A n \in Nat :
              <<h.from, n>> \in R => <<h.to, n + h.length>> \in R
    PROVE  LET L == Service!Lengths(start, hops)
           IN  L \in Known /\ \A v \in Places : L[v] # -1 => <<v, L[v]>> \in R
<1>1. PICK f \in [0 .. Size -> Known] :
             /\ f[0] = [v \in Places |-> IF v = start THEN 0 ELSE -1]
             /\ \A n \in 1 .. Size : \A v \in Places :
                  f[n][v] = Service!Shorter(f[n - 1], v, hops)
             /\ Service!Lengths(start, hops) = f[Size]
  BY LengthsSteps, Zenon
<1> DEFINE Holds(n) == \A v \in Places : f[n][v] # -1 => <<v, f[n][v]>> \in R
           G == {n \in Nat : n <= Size => Holds(n)}
<1>2. 0 \in G
  BY <1>1
<1>3. ASSUME NEW n \in G PROVE n + 1 \in G
  <2> SUFFICES ASSUME n + 1 <= Size, NEW v \in Places, f[n + 1][v] # -1
               PROVE  <<v, f[n + 1][v]>> \in R
    BY <1>3
  <2>1. n \in 0 .. Size /\ n + 1 \in 1 .. Size /\ (n + 1) - 1 = n /\ Holds(n)
    BY <1>3, SizeFacts
  <2>2. f[n] \in Known
    BY <2>1
  <2>3. f[n + 1][v] = Service!Shorter(f[n], v, hops)
    BY <1>1, <2>1
  <2>4. \/ f[n][v] # -1 /\ f[n + 1][v] = f[n][v]
        \/ \E h \in hops : /\ h.to = v /\ f[n][h.from] # -1
                           /\ f[n + 1][v] = f[n][h.from] + h.length
    BY <2>2, <2>3, ShorterFacts
  <2>5. CASE f[n][v] # -1 /\ f[n + 1][v] = f[n][v]
    BY <2>1, <2>5
  <2>6. ASSUME NEW h \in hops, h.to = v, f[n][h.from] # -1, f[n + 1][v] = f[n][h.from] + h.length
        PROVE  <<v, f[n + 1][v]>> \in R
    <3>1. h.from \in Places
      BY DEF HopSet
    <3>2. <<h.from, f[n][h.from]>> \in R /\ f[n][h.from] \in Nat
      BY <2>1, <2>2, <2>6, <3>1 DEF Known
    <3> QED
      BY <2>6, <3>2
  <2> QED
    BY <2>4, <2>5, <2>6
<1>4. Holds(Size)
  <2>1. G \in SUBSET Nat
    OBVIOUS
  <2> HIDE DEF G, Holds
  <2>2. Size \in G
    BY <1>2, <1>3, <2>1, AllNumbers, SizeFacts
  <2> QED
    BY <2>2, SizeFacts DEF G
<1>5. f[Size] \in Known
  BY SizeFacts
<1> QED
  BY <1>1, <1>4, <1>5

\* Marks along a walk: nothing at its start, and no less at each place than the one
\* before and a hop to it.
Marks(m, p, hops) ==
    /\ m \in [1 .. Len(p) -> Nat] /\ m[1] = 0
    /\ \A k \in 1 .. Len(p) - 1 :
         \E h \in hops : h.from = p[k] /\ h.to = p[k + 1] /\ m[k] + h.length <= m[k + 1]

\* Lengths finds a walk to the end of any walk that is no longer than Size hops,
\* and none longer than its marks say.
LEMMA NoLonger ==
    ASSUME NEW hops \in SUBSET HopSet,
           NEW p \in Seq(Places), p # << >>, Len(p) <= Size,
           NEW m, Marks(m, p, hops)
    PROVE  LET L == Service!Lengths(p[1], hops)
           IN  L[p[Len(p)]] # -1 /\ L[p[Len(p)]] <= m[Len(p)]
<1>1. PICK f \in [0 .. Size -> Known] :
             /\ f[0] = [v \in Places |-> IF v = p[1] THEN 0 ELSE -1]
             /\ \A n \in 1 .. Size : \A v \in Places :
                  f[n][v] = Service!Shorter(f[n - 1], v, hops)
             /\ Service!Lengths(p[1], hops) = f[Size]
  BY LengthsSteps, Zenon
<1> DEFINE Holds(n) == \A k \in 1 .. Len(p) :
                          k <= n + 1 => f[n][p[k]] # -1 /\ f[n][p[k]] <= m[k]
           G == {n \in Nat : n <= Size => Holds(n)}
<1>2. Len(p) \in Nat \ {0} /\ \A k \in 1 .. Len(p) : p[k] \in Places
  OBVIOUS
<1>3. 0 \in G
  <2>1. f[0][p[1]] = 0 /\ m[1] = 0
    BY <1>1 DEF Marks
  <2>2. \A k \in 1 .. Len(p) : k <= 0 + 1 => k = 1
    BY <1>2
  <2> QED
    BY <2>1, <2>2
<1>4. ASSUME NEW n \in G PROVE n + 1 \in G
  <2> SUFFICES ASSUME n + 1 <= Size, NEW k \in 1 .. Len(p), k <= (n + 1) + 1
               PROVE  f[n + 1][p[k]] # -1 /\ f[n + 1][p[k]] <= m[k]
    BY <1>4
  <2>1. n \in 0 .. Size /\ n + 1 \in 1 .. Size /\ (n + 1) - 1 = n /\ Holds(n)
    BY <1>4, SizeFacts
  <2>2. f[n] \in Known /\ p[k] \in Places
    BY <1>2, <2>1
  <2>3. f[n + 1][p[k]] = Service!Shorter(f[n], p[k], hops)
    BY <1>1, <2>1, <2>2
  <2>4. f[n + 1][p[k]] \in Nat \cup {-1} /\ m[k] \in Nat
    BY <2>2, <2>3, ShorterFacts DEF Marks
  <2>5. CASE k = 1
    <3>1. f[n][p[k]] # -1 /\ f[n][p[k]] <= m[k]
      BY <2>1, <2>5
    <3>2. f[n + 1][p[k]] # -1 /\ f[n + 1][p[k]] <= f[n][p[k]]
      BY <2>2, <2>3, <3>1, ShorterFacts
    <3>3. f[n][p[k]] \in Nat
      BY <2>2, <3>1 DEF Known
    <3> QED
      BY <2>4, <3>1, <3>2, <3>3
  <2>6. CASE k # 1
    <3>1. k - 1 \in 1 .. Len(p) - 1 /\ k - 1 \in 1 .. Len(p) /\ k - 1 <= n + 1 /\ (k - 1) + 1 = k
      BY <1>2, <2>1, <2>6
    <3>2. PICK h \in hops : h.from = p[k - 1] /\ h.to = p[k] /\ m[k - 1] + h.length <= m[k]
      BY <3>1 DEF Marks
    <3>3. f[n][h.from] # -1 /\ f[n][h.from] <= m[k - 1]
      BY <2>1, <3>1, <3>2
    <3>4. f[n + 1][p[k]] # -1 /\ f[n + 1][p[k]] <= f[n][h.from] + h.length
      BY <2>2, <2>3, <3>2, <3>3, ShorterFacts
    <3>5. f[n][h.from] \in Nat /\ h.length \in Nat /\ m[k - 1] \in Nat
      <4>1. h.from \in Places /\ h.length \in Nat
        BY DEF HopSet
      <4> QED
        BY <2>2, <3>1, <3>3, <4>1 DEF Known, Marks
    <3>6. f[n][h.from] + h.length <= m[k]
      BY <2>4, <3>2, <3>3, <3>5
    <3>7. f[n][h.from] + h.length \in Nat
      BY <3>5
    <3> QED
      BY <2>4, <3>4, <3>6, <3>7
  <2> QED
    BY <2>5, <2>6
<1>5. Holds(Size)
  <2>1. G \in SUBSET Nat
    OBVIOUS
  <2> HIDE DEF G, Holds
  <2>2. Size \in G
    BY <1>3, <1>4, <2>1, AllNumbers, SizeFacts
  <2> QED
    BY <2>2, SizeFacts DEF G
<1> QED
  BY <1>1, <1>2, <1>5, SizeFacts

\* Between two places that a hop joins, the lengths of those hops.
Between(u, v, hops) == {h.length : h \in {g \in hops : g.from = u /\ g.to = v}}

\* LengthOf is the last of a walk's least marks.
LEMMA LengthOfSteps ==
    ASSUME NEW hops \in SUBSET HopSet, NEW p \in Seq(Places), p # << >>,
           Service!IsWalk(p, hops)
    PROVE  \E m : /\ m \in [1 .. Len(p) -> Nat] /\ m[1] = 0
                  /\ \A k \in 1 .. Len(p) - 1 :
                       m[k + 1] = m[k] + Service!Least(Between(p[k], p[k + 1], hops))
                  /\ Service!LengthOf(p, hops) = m[Len(p)]
<1> DEFINE N == Len(p)
           hop(k) == Between(p[k], p[k + 1], hops)
           T == [n \in Nat |-> [x \in Nat |-> IF n \in 1 .. N - 1 THEN x + Service!Least(hop(n)) ELSE x]]
<1>1. N \in Nat \ {0}
  OBVIOUS
<1>2. ASSUME NEW k \in 1 .. N - 1 PROVE Service!Least(hop(k)) \in Nat
  <2>1. hop(k) \in SUBSET Nat
    BY DEF HopSet, Between
  <2>2. PICK h \in hops : h.from = p[k] /\ h.to = p[k + 1]
    BY DEF Service!IsWalk
  <2>3. h.length \in hop(k)
    BY <2>2 DEF Between
  <2> HIDE DEF hop
  <2> QED
    BY <2>1, <2>3, LeastFound
<1>3. T \in [Nat -> [Nat -> Nat]]
  <2>1. \A n \in Nat : \A x \in Nat :
           (IF n \in 1 .. N - 1 THEN x + Service!Least(hop(n)) ELSE x) \in Nat
    BY <1>2
  <2> QED
    BY <2>1
<1>4. \A n \in 1 .. N - 1 : \A x \in Nat : T[n][x] = x + Service!Least(hop(n))
  BY <1>1
<1> HIDE DEF T
<1>5. \E f : Recursive(f, Nat, 0, T, N - 1)
  <2>1. N - 1 \in Nat
    BY <1>1
  <2> HIDE DEF N
  <2> QED
    BY <1>3, <2>1, Recursion
<1>6. PICK f \in [0 .. N - 1 -> Nat] : f[0] = 0 /\ \A n \in 1 .. N - 1 : f[n] = T[n][f[n - 1]]
  BY <1>5 DEF Recursive
<1> DEFINE m == [k \in 1 .. N |-> f[k - 1]]
<1> HIDE DEF N, hop
<1>7. m \in [1 .. N -> Nat] /\ m[1] = 0
  BY <1>1, <1>6
<1>8. \A k \in 2 .. N : m[k] = m[k - 1] + Service!Least(hop(k - 1))
  <2> SUFFICES ASSUME NEW k \in 2 .. N PROVE m[k] = m[k - 1] + Service!Least(hop(k - 1))
    OBVIOUS
  <2>1. k \in 1 .. N /\ k - 1 \in 1 .. N - 1 /\ k - 1 \in 1 .. N /\ (k - 1) - 1 \in 0 .. N - 1
    BY <1>1
  <2>2. m[k] = f[k - 1] /\ m[k - 1] = f[(k - 1) - 1] /\ f[(k - 1) - 1] \in Nat
    BY <1>6, <2>1
  <2>3. f[k - 1] = T[k - 1][f[(k - 1) - 1]]
    BY <1>6, <2>1
  <2> QED
    BY <1>4, <2>1, <2>2, <2>3
<1> HIDE DEF m
<1>9. m = [k \in 1 .. N |-> IF k = 1 THEN 0 ELSE m[k - 1] + Service!Least(hop(k - 1))]
  <2>1. \A k \in 1 .. N : m[k] = IF k = 1 THEN 0 ELSE m[k - 1] + Service!Least(hop(k - 1))
    BY <1>1, <1>7, <1>8
  <2> QED
    BY <1>7, <2>1
<1> DEFINE upTo == CHOOSE g : g = [k \in 1 .. N |-> IF k = 1 THEN 0 ELSE g[k - 1] + Service!Least(hop(k - 1))]
<1>10. upTo = [k \in 1 .. N |-> IF k = 1 THEN 0 ELSE upTo[k - 1] + Service!Least(hop(k - 1))]
  BY <1>9
<1>11. Service!LengthOf(p, hops) = upTo[N]
  BY DEF Service!LengthOf, hop, Between, N
<1> HIDE DEF upTo
<1> DEFINE G == {n \in Nat : n + 1 <= N => upTo[n + 1] = m[n + 1]}
<1>12. 0 \in G
  <2>1. 1 \in 1 .. N /\ 0 + 1 = 1
    BY <1>1
  <2>2. upTo[1] = 0
    BY <1>10, <2>1
  <2> QED
    BY <1>7, <2>1, <2>2
<1>13. ASSUME NEW n \in G PROVE n + 1 \in G
  <2> SUFFICES ASSUME (n + 1) + 1 <= N PROVE upTo[(n + 1) + 1] = m[(n + 1) + 1]
    BY <1>13
  <2> DEFINE k == (n + 1) + 1
  <2>1. n \in Nat /\ upTo[n + 1] = m[n + 1] /\ k \in 2 .. N /\ k \in 1 .. N /\ k # 1 /\ k - 1 = n + 1
    BY <1>1, <1>13
  <2> HIDE DEF k
  <2>2. upTo[k] = upTo[k - 1] + Service!Least(hop(k - 1))
    BY <1>10, <2>1
  <2>3. m[k] = m[k - 1] + Service!Least(hop(k - 1))
    BY <1>8, <2>1
  <2>4. upTo[k] = m[k]
    BY <2>1, <2>2, <2>3
  <2> QED
    BY <2>4 DEF k
<1>14. upTo[N] = m[N]
  <2>1. G \in SUBSET Nat
    OBVIOUS
  <2> HIDE DEF G
  <2>2. \A n \in Nat : n \in G
    BY <1>12, <1>13, <2>1, AllNumbers
  <2>3. N - 1 \in Nat /\ (N - 1) + 1 = N
    BY <1>1
  <2>4. N - 1 \in G
    BY <2>2, <2>3
  <2> QED
    BY <2>3, <2>4 DEF G
<1>15. \A k \in 1 .. N - 1 : m[k + 1] = m[k] + Service!Least(hop(k))
  <2> SUFFICES ASSUME NEW k \in 1 .. N - 1 PROVE m[k + 1] = m[k] + Service!Least(hop(k))
    OBVIOUS
  <2>1. k + 1 \in 2 .. N /\ (k + 1) - 1 = k
    BY <1>1
  <2> QED
    BY <1>8, <2>1
<1> QED
  BY <1>7, <1>11, <1>14, <1>15 DEF N, hop

\* No place twice along a walk whose marks grow, so that it is no longer than there
\* are places.
LEMMA NoPlaceTwice ==
    ASSUME NEW p \in Seq(Places), NEW m \in [1 .. Len(p) -> Nat],
           \A k \in 1 .. Len(p) - 1 : m[k] < m[k + 1],
           \A i, j \in 1 .. Len(p) : p[i] = p[j] => m[i] = m[j]
    PROVE  Len(p) <= Size
<1>1. Len(p) \in Nat /\ p \in [1 .. Len(p) -> Places]
  OBVIOUS
<1> DEFINE N == Len(p)
           G == {d \in Nat : \A i \in 1 .. N : i + d \in 1 .. N => m[i] + d <= m[i + d]}
<1>2. 0 \in G
  BY <1>1
<1>3. ASSUME NEW d \in G PROVE d + 1 \in G
  <2> SUFFICES ASSUME NEW i \in 1 .. N, i + (d + 1) \in 1 .. N
               PROVE  m[i] + (d + 1) <= m[i + (d + 1)]
    OBVIOUS
  <2>1. d \in Nat /\ i + d \in 1 .. N /\ i + d \in 1 .. N - 1 /\ (i + d) + 1 = i + (d + 1)
    BY <1>1
  <2>2. m[i] + d <= m[i + d]
    BY <2>1
  <2>3. m[i + d] < m[(i + d) + 1]
    BY <2>1
  <2>4. m[i] \in Nat /\ m[i + d] \in Nat /\ m[(i + d) + 1] \in Nat
    BY <1>1, <2>1
  <2>5. m[i] + (d + 1) <= m[(i + d) + 1]
    BY <2>1, <2>2, <2>3, <2>4
  <2> QED
    BY <2>1, <2>5
<1>4. \A d \in Nat : d \in G
  <2>1. G \in SUBSET Nat
    OBVIOUS
  <2> HIDE DEF G
  <2> QED
    BY <1>2, <1>3, <2>1, AllNumbers
<1>5. ASSUME NEW i \in 1 .. N, NEW j \in 1 .. N, i < j PROVE m[i] < m[j]
  <2> DEFINE d == j - i
  <2>1. d \in Nat /\ d > 0 /\ i + d = j /\ i \in Nat /\ j \in Nat
    BY <1>1, <1>5
  <2>2. d \in G
    BY <1>4, <2>1
  <2>3. m[i] + d <= m[j]
    BY <2>1, <2>2
  <2>4. m[i] \in Nat /\ m[j] \in Nat
    OBVIOUS
  <2> HIDE DEF d
  <2> QED
    BY <2>1, <2>3, <2>4
<1>6. ASSUME NEW i \in 1 .. N, NEW j \in 1 .. N, p[i] = p[j] PROVE i = j
  <2>1. m[i] = m[j] /\ m[i] \in Nat /\ m[j] \in Nat
    BY <1>6
  <2>2. ~(i < j) /\ ~(j < i)
    BY <1>5, <2>1
  <2> QED
    BY <1>1, <2>2
<1>7. p \in Injection(1 .. N, Places)
  BY <1>1, <1>6 DEF Injection, IsInjective
<1>8. Cardinality(1 .. N) <= Cardinality(Places)
  BY <1>7, FS_Injection, SizeFacts
<1>9. Cardinality(1 .. N) = N
  <2>1. 1 \in Int /\ N \in Int /\ N >= 0
    BY <1>1
  <2> HIDE DEF N
  <2>2. Cardinality(1 .. N) = IF 1 > N THEN 0 ELSE N - 1 + 1
    BY <2>1, FS_Interval
  <2> QED
    BY <2>1, <2>2
<1> QED
  BY <1>8, <1>9 DEF Size

\* A lower bound of the hops is one of the walks; so it is of what Lengths finds.
LEMMA LowIsHandedOn ==
    ASSUME NEW hops \in SUBSET HopSet, NEW low \in [Places -> Nat],
           \A h \in hops : low[h.to] <= low[h.from] + h.length
    PROVE  LET R == {x \in Places \X Nat : low[x[1]] <= x[2]}
           IN  \A h \in hops : \A n \in Nat :
                  <<h.from, n>> \in R => <<h.to, n + h.length>> \in R
<1> SUFFICES ASSUME NEW h \in hops, NEW n \in Nat, low[h.from] <= n, h.from \in Places
             PROVE  h.to \in Places /\ n + h.length \in Nat /\ low[h.to] <= n + h.length
  OBVIOUS
<1>1. h.to \in Places /\ h.length \in Nat
  BY DEF HopSet
<1>2. low[h.to] <= low[h.from] + h.length /\ low[h.from] \in Nat /\ low[h.to] \in Nat
  BY <1>1
<1> QED
  BY <1>1, <1>2

\* A walk along hops of the lengths its marks say, to whose end nothing is shorter
\* by a lower bound of all walks, is an answer that is correct.
LEMMA BoundedIsShortest ==
    ASSUME NEW hops \in SUBSET HopSet, NEW p \in Seq(Places), p # << >>,
           NEW m, Marks(m, p, hops),
           \A i, j \in 1 .. Len(p) : p[i] = p[j] => m[i] = m[j],
           NEW low \in [Places -> Nat], low[p[1]] = 0,
           \A h \in hops : low[h.to] <= low[h.from] + h.length,
           low[p[Len(p)]] = m[Len(p)]
    PROVE  LET L == Service!Lengths(p[1], hops)
           IN  /\ L[p[Len(p)]] # -1
               /\ Service!IsWalk(p, hops)
               /\ Service!LengthOf(p, hops) = L[p[Len(p)]]
               /\ Service!LengthOf(p, hops) = m[Len(p)]
<1> DEFINE N == Len(p)
           L == Service!Lengths(p[1], hops)
           goalOf == p[N]
<1>1. N \in Nat \ {0} /\ p[1] \in Places /\ p[N] \in Places
  OBVIOUS
<1>2. m \in [1 .. N -> Nat] /\ m[1] = 0
  BY DEF Marks
<1>3. ASSUME NEW k \in 1 .. N - 1
      PROVE  \E h \in hops : h.from = p[k] /\ h.to = p[k + 1] /\ m[k] + h.length <= m[k + 1]
  BY DEF Marks
<1>4. Service!IsWalk(p, hops)
  BY <1>3 DEF Service!IsWalk
<1>5. N <= Size
  <2>1. ASSUME NEW k \in 1 .. N - 1 PROVE m[k] < m[k + 1]
    <3>1. PICK h \in hops : m[k] + h.length <= m[k + 1]
      BY <1>3
    <3>2. h.length \in Nat \ {0} /\ m[k] \in Nat /\ m[k + 1] \in Nat
      <4>1. k \in 1 .. N /\ k + 1 \in 1 .. N
        BY <1>1
      <4> QED
        BY <1>2, <4>1 DEF HopSet
    <3> QED
      BY <3>1, <3>2
  <2> QED
    BY <1>2, <2>1, NoPlaceTwice
<1>6. L[goalOf] # -1 /\ L[goalOf] <= m[N]
  BY <1>5, NoLonger
<1>7. L \in Known /\ low[goalOf] <= L[goalOf]
  <2> DEFINE R == {x \in Places \X Nat : low[x[1]] <= x[2]}
  <2>1. <<p[1], 0>> \in R
    BY <1>1
  <2>2. \A h \in hops : \A n \in Nat :
           <<h.from, n>> \in R => <<h.to, n + h.length>> \in R
    BY LowIsHandedOn
  <2>3. R \in SUBSET (Places \X Nat)
    OBVIOUS
  <2>4. \A x \in R : low[x[1]] <= x[2]
    OBVIOUS
  <2> HIDE DEF R
  <2>5. L \in Known /\ \A v \in Places : L[v] # -1 => <<v, L[v]>> \in R
    BY <1>1, <2>1, <2>2, <2>3, HandedOn
  <2>6. <<goalOf, L[goalOf]>> \in R
    BY <1>1, <1>6, <2>5
  <2> QED
    BY <2>4, <2>5, <2>6
<1>8. L[goalOf] = m[N]
  <2>1. L[goalOf] \in Nat /\ m[N] \in Nat
    BY <1>1, <1>2, <1>6, <1>7 DEF Known
  <2> QED
    BY <1>6, <1>7, <2>1
<1>9. PICK s : /\ s \in [1 .. N -> Nat] /\ s[1] = 0
               /\ \A k \in 1 .. N - 1 :
                    s[k + 1] = s[k] + Service!Least(Between(p[k], p[k + 1], hops))
               /\ Service!LengthOf(p, hops) = s[N]
  BY <1>4, LengthOfSteps
<1>10. ASSUME NEW k \in 1 .. N - 1
       PROVE  LET b == Between(p[k], p[k + 1], hops)
              IN  /\ Service!Least(b) \in b
                  /\ \A x \in b : Service!Least(b) <= x
                  /\ b \in SUBSET (Nat \ {0})
  <2>1. Between(p[k], p[k + 1], hops) \in SUBSET (Nat \ {0})
    BY DEF Between, HopSet
  <2>3. PICK h \in hops : h.from = p[k] /\ h.to = p[k + 1]
    BY <1>3
  <2>2. h.length \in Between(p[k], p[k + 1], hops)
    BY <2>3 DEF Between
  <2> QED
    BY <2>1, <2>2, LeastFound
<1>11. s[N] <= m[N]
  <2> DEFINE G == {n \in Nat : n + 1 <= N => s[n + 1] <= m[n + 1]}
  <2>1. 0 \in G
    BY <1>2, <1>9
  <2>2. ASSUME NEW n \in G PROVE n + 1 \in G
    <3> SUFFICES ASSUME (n + 1) + 1 <= N PROVE s[(n + 1) + 1] <= m[(n + 1) + 1]
      BY <2>2
    <3> DEFINE k == n + 1
    <3>1. s[k] <= m[k] /\ k \in 1 .. N - 1 /\ k \in 1 .. N /\ k + 1 \in 1 .. N
      BY <1>1, <2>2
    <3> HIDE DEF k
    <3>2. PICK h \in hops : h.from = p[k] /\ h.to = p[k + 1] /\ m[k] + h.length <= m[k + 1]
      BY <1>3, <3>1
    <3> DEFINE least == Service!Least(Between(p[k], p[k + 1], hops))
    <3>3. least \in Nat /\ least <= h.length /\ h.length \in Nat
      <4>1. h.length \in Between(p[k], p[k + 1], hops)
        BY <3>2 DEF Between
      <4> QED
        BY <1>10, <3>1, <4>1
    <3>4. s[k + 1] = s[k] + least
      BY <1>9, <3>1
    <3>5. s[k] \in Nat /\ m[k] \in Nat /\ m[k + 1] \in Nat
      BY <1>2, <1>9, <3>1
    <3> HIDE DEF least
    <3>7. s[k] + least <= m[k] + h.length
      BY <3>1, <3>3, <3>5
    <3>6. s[k + 1] <= m[k + 1]
      BY <3>2, <3>3, <3>4, <3>5, <3>7
    <3> QED
      BY <3>6 DEF k
  <2>3. G \in SUBSET Nat
    OBVIOUS
  <2> HIDE DEF G
  <2>4. \A n \in Nat : n \in G
    BY <2>1, <2>2, <2>3, AllNumbers
  <2>5. N - 1 \in G /\ (N - 1) + 1 = N
    BY <1>1, <2>4
  <2> QED
    BY <1>1, <2>5 DEF G
<1>12. L[goalOf] <= s[N]
  <2>1. Marks(s, p, hops)
    <3>1. ASSUME NEW k \in 1 .. N - 1
          PROVE  \E h \in hops : h.from = p[k] /\ h.to = p[k + 1] /\ s[k] + h.length <= s[k + 1]
      <4> DEFINE least == Service!Least(Between(p[k], p[k + 1], hops))
      <4>1. PICK h \in hops : h.from = p[k] /\ h.to = p[k + 1] /\ h.length = least
        BY <1>10 DEF Between
      <4>2. s[k + 1] = s[k] + least /\ least \in Nat /\ s[k] \in Nat
        <5>1. k \in 1 .. N
          BY <1>1
        <5> QED
          BY <1>9, <1>10, <5>1
      <4> HIDE DEF least
      <4>3. s[k] + h.length <= s[k + 1]
        BY <4>1, <4>2
      <4> QED
        BY <4>1, <4>3
    <3> QED
      BY <1>9, <3>1 DEF Marks
  <2> QED
    BY <1>5, <2>1, NoLonger
<1>13. s[N] = L[goalOf]
  <2>1. s[N] \in Nat /\ m[N] \in Nat
    BY <1>1, <1>2, <1>9
  <2> QED
    BY <1>8, <1>11, <1>12, <2>1
<1> QED
  BY <1>4, <1>6, <1>8, <1>9, <1>13

\* What is handed on along each hop holds of the end of any walk and its length.
LEMMA HandedAlong ==
    ASSUME NEW hops \in SUBSET HopSet, NEW p \in Seq(Places), p # << >>,
           Service!IsWalk(p, hops),
           NEW R \in SUBSET (Places \X Nat), <<p[1], 0>> \in R,
           \A h \in hops : \A n \in Nat :
              <<h.from, n>> \in R => <<h.to, n + h.length>> \in R
    PROVE  <<p[Len(p)], Service!LengthOf(p, hops)>> \in R
<1> DEFINE N == Len(p)
<1>1. N \in Nat \ {0}
  OBVIOUS
<1>2. PICK s : /\ s \in [1 .. N -> Nat] /\ s[1] = 0
               /\ \A k \in 1 .. N - 1 :
                    s[k + 1] = s[k] + Service!Least(Between(p[k], p[k + 1], hops))
               /\ Service!LengthOf(p, hops) = s[N]
  BY LengthOfSteps
<1>3. ASSUME NEW k \in 1 .. N - 1
      PROVE  \E h \in hops : h.from = p[k] /\ h.to = p[k + 1] /\ s[k + 1] = s[k] + h.length
  <2> DEFINE b == Between(p[k], p[k + 1], hops)
  <2>1. b \in SUBSET Nat
    BY DEF Between, HopSet
  <2>2. PICK g \in hops : g.from = p[k] /\ g.to = p[k + 1]
    BY DEF Service!IsWalk
  <2>3. g.length \in b
    BY <2>2 DEF Between
  <2>4. Service!Least(b) \in b
    <3> HIDE DEF b
    <3> QED
      BY <2>1, <2>3, LeastFound
  <2>5. PICK h \in hops : h.from = p[k] /\ h.to = p[k + 1] /\ h.length = Service!Least(b)
    BY <2>4 DEF Between
  <2> QED
    BY <1>2, <2>5
<1> DEFINE G == {n \in Nat : n + 1 <= N => <<p[n + 1], s[n + 1]>> \in R}
<1>4. 0 \in G
  BY <1>2
<1>5. ASSUME NEW n \in G PROVE n + 1 \in G
  <2> SUFFICES ASSUME (n + 1) + 1 <= N PROVE <<p[(n + 1) + 1], s[(n + 1) + 1]>> \in R
    BY <1>5
  <2> DEFINE k == n + 1
  <2>1. <<p[k], s[k]>> \in R /\ k \in 1 .. N - 1 /\ k \in 1 .. N
    BY <1>1, <1>5
  <2> HIDE DEF k
  <2>2. PICK h \in hops : h.from = p[k] /\ h.to = p[k + 1] /\ s[k + 1] = s[k] + h.length
    BY <1>3, <2>1
  <2>3. s[k] \in Nat
    BY <1>2, <2>1
  <2>4. <<p[k + 1], s[k + 1]>> \in R
    BY <2>1, <2>2, <2>3
  <2> QED
    BY <2>4 DEF k
<1>6. \A n \in Nat : n \in G
  <2>1. G \in SUBSET Nat
    OBVIOUS
  <2> HIDE DEF G
  <2> QED
    BY <1>4, <1>5, <2>1, AllNumbers
<1>7. N - 1 \in G /\ (N - 1) + 1 = N
  BY <1>1, <1>6
<1> QED
  BY <1>1, <1>2, <1>7

\* What a cut keeps from a place, Lengths does not find.
LEMMA CutOff ==
    ASSUME NEW start, NEW hops \in SUBSET HopSet, NEW C \in SUBSET Places, start \in C,
           \A h \in hops : h.from \in C => h.to \in C,
           NEW v \in Places \ C
    PROVE  Service!Lengths(start, hops)[v] = -1
<1> DEFINE R == C \X Nat
<1>1. start \in Places /\ <<start, 0>> \in R /\ R \in SUBSET (Places \X Nat)
  OBVIOUS
<1>2. ASSUME NEW h \in hops, NEW n \in Nat, <<h.from, n>> \in R
      PROVE  <<h.to, n + h.length>> \in R
  <2>1. h.length \in Nat
    BY DEF HopSet
  <2> QED
    BY <1>2, <2>1
<1>3. \A n : <<v, n>> \notin R
  OBVIOUS
<1> HIDE DEF R
<1>4. \A u \in Places : Service!Lengths(start, hops)[u] # -1
                            => <<u, Service!Lengths(start, hops)[u]>> \in R
  BY <1>1, <1>2, HandedOn
<1> QED
  BY <1>3, <1>4
-----------------------------------------------------------------------------
(* What the handler answers is what is promised *)

\* The hops that the service is given are those the search goes by.
LEMMA HopsAreEdges ==
    ASSUME TypeOK
    PROVE  /\ Hops \in SUBSET HopSet
           /\ \A k \in DOMAIN edges : \A u, v \in Places :
                IsHop(k, u, v) => [from |-> u, to |-> v, length |-> Weight(edges[k])] \in Hops
           /\ \A h \in Hops : \E k \in DOMAIN edges :
                IsHop(k, h.from, h.to) /\ h.length = Weight(edges[k])
<1>1. ASSUME NEW k \in DOMAIN edges, NEW u \in Places, NEW v \in Places, IsHop(k, u, v)
      PROVE  [from |-> u, to |-> v, length |-> Weight(edges[k])] \in Hops
  <2> DEFINE e == edges[k]
             x == <<u, v>>
  <2>1. UsableIn(e, asked.mode) /\ Joins(e, u, v)
    BY <1>1 DEF IsHop
  <2>2. x \in {<<e.from, e.to>>, <<e.to, e.from>>} /\ x[1] = u /\ x[2] = v
    BY <2>1 DEF Joins
  <2>3. [from |-> u, to |-> v, length |-> Weight(e)] \in HopsOf(e)
    BY <2>1, <2>2 DEF HopsOf
  <2> QED
    BY <2>1, <2>3 DEF Hops
<1>2. ASSUME NEW h \in Hops
      PROVE  \E k \in DOMAIN edges :
                /\ IsHop(k, h.from, h.to) /\ h.length = Weight(edges[k])
                /\ h = [from |-> h.from, to |-> h.to, length |-> h.length]
                /\ h.from \in Places /\ h.to \in Places
  <2>1. PICK k \in DOMAIN edges : UsableIn(edges[k], asked.mode) /\ h \in HopsOf(edges[k])
    BY DEF Hops
  <2> DEFINE e == edges[k]
  <2>2. PICK x \in {<<e.from, e.to>>, <<e.to, e.from>>} :
           Joins(e, x[1], x[2]) /\ h = [from |-> x[1], to |-> x[2], length |-> Weight(e)]
    BY <2>1 DEF HopsOf
  <2>3. x[1] \in Places /\ x[2] \in Places
    BY <2>1, <2>2 DEF UsableIn
  <2> QED
    BY <2>1, <2>2, <2>3 DEF IsHop
<1>3. Hops \in SUBSET HopSet
  <2> SUFFICES ASSUME NEW h \in Hops PROVE h \in HopSet
    OBVIOUS
  <2>1. PICK k \in DOMAIN edges :
                /\ h.length = Weight(edges[k])
                /\ h = [from |-> h.from, to |-> h.to, length |-> h.length]
                /\ h.from \in Places /\ h.to \in Places
    BY <1>2
  <2>2. Weight(edges[k]) \in Nat \ {0}
    BY Types
  <2> QED
    BY <2>1, <2>2 DEF HopSet
<1> QED
  BY <1>1, <1>2, <1>3

\* A route is written down only when the search is over.
NoRouteYet == at \notin {"walking", "ok"} => route = << >>

\* What the handler ends with is what the service may answer.
AnswerInv ==
    at \in Ended /\ goal # NoPlace =>
        Service!Correct([from |-> asked.from, to |-> goal, hops |-> Hops], route)

LEMMA NoRouteYetStep == NoRouteYet /\ [Next]_vars => NoRouteYet'
BY DEF NoRouteYet, Next, Handle, Ask, UnknownOrigin, FoundDoor, MadeUpDoor, NoDoor, There,
       Start, Pop, Take, Skip, Expand, Relax, Relaxed, Exhausted, Walk, Arrive, Reply,
       search, vars, Ended

\* The marks of a route are the distances the search found.
LEMMA RouteMarks ==
    ASSUME IInv, at = "ok", goal # asked.from
    PROVE  /\ route \in Seq(Places) /\ route # << >>
           /\ route[1] = asked.from /\ route[Len(route)] = goal
           /\ Marks([n \in 1 .. Len(route) |-> dist[route[n]]], route, Hops)
<1>1. Core /\ Outcome /\ TypeOK /\ Phase
  BY DEF IInv, SearchInv, Searched, Phase
<1>2. /\ route \in Seq(Places) /\ route # << >> /\ route[1] = asked.from
      /\ route[Len(route)] = goal
      /\ \A n \in 1 .. Len(route) - 1 : Tight(route[n], route[n + 1])
  BY <1>1 DEF TypeOK, Phase, Outcome, Trail
<1> DEFINE N == Len(route)
           m == [n \in 1 .. N |-> dist[route[n]]]
           G == {n \in Nat : n + 1 <= N => m[n + 1] \in Nat}
<1>3. N \in Nat \ {0} /\ \A n \in 1 .. N : route[n] \in Places
  BY <1>2
<1>4. m[1] = 0
  BY <1>1, <1>2, <1>3 DEF Core, Started
<1>5. ASSUME NEW n \in 1 .. N - 1
      PROVE  \E k \in DOMAIN edges : /\ IsHop(k, route[n], route[n + 1])
                                     /\ m[n + 1] = m[n] + Weight(edges[k])
                                     /\ Weight(edges[k]) \in Nat \ {0}
  <2>1. n \in 1 .. N /\ n + 1 \in 1 .. N
    BY <1>3
  <2>2. PICK k \in DOMAIN edges : /\ IsHop(k, route[n], route[n + 1])
                                  /\ dist[route[n + 1]] = dist[route[n]] + Weight(edges[k])
    BY <1>2 DEF Tight
  <2> QED
    BY <1>1, <2>1, <2>2, Types
<1> HIDE DEF m, N
<1>6. 0 \in G
  BY <1>4
<1>7. ASSUME NEW n \in G PROVE n + 1 \in G
  <2> SUFFICES ASSUME (n + 1) + 1 <= N PROVE m[(n + 1) + 1] \in Nat
    BY <1>7
  <2> DEFINE k == n + 1
  <2>1. m[k] \in Nat /\ k \in 1 .. N - 1
    BY <1>3, <1>7
  <2> HIDE DEF k
  <2>2. m[k + 1] \in Nat
    BY <1>5, <2>1
  <2> QED
    BY <2>2 DEF k
<1>8. \A n \in Nat : n \in G
  <2>1. G \in SUBSET Nat
    OBVIOUS
  <2> HIDE DEF G
  <2> QED
    BY <1>6, <1>7, <2>1, AllNumbers
<1>9. \A n \in 1 .. N : m[n] \in Nat
  <2> SUFFICES ASSUME NEW n \in 1 .. N PROVE m[n] \in Nat
    OBVIOUS
  <2>1. n - 1 \in G /\ (n - 1) + 1 = n /\ n <= N
    BY <1>3, <1>8
  <2> QED
    BY <2>1
<1>10. m \in [1 .. N -> Nat]
  BY <1>9 DEF m
<1>11. ASSUME NEW n \in 1 .. N - 1
       PROVE  \E h \in Hops : h.from = route[n] /\ h.to = route[n + 1] /\ m[n] + h.length <= m[n + 1]
  <2>1. PICK k \in DOMAIN edges : /\ IsHop(k, route[n], route[n + 1])
                                  /\ m[n + 1] = m[n] + Weight(edges[k])
                                  /\ Weight(edges[k]) \in Nat \ {0}
    BY <1>5
  <2>2. n \in 1 .. N /\ n + 1 \in 1 .. N
    BY <1>3
  <2> DEFINE h == [from |-> route[n], to |-> route[n + 1], length |-> Weight(edges[k])]
  <2>3. h \in Hops
    BY <1>1, <1>3, <2>1, <2>2, HopsAreEdges
  <2>4. m[n] + h.length <= m[n + 1]
    BY <1>9, <2>1, <2>2
  <2> QED
    BY <2>3, <2>4
<1> QED
  BY <1>2, <1>4, <1>10, <1>11 DEF Marks, N, m

\* A route with its marks, and a lower bound for every way to the door.
RouteBound(m, low) ==
    /\ route \in Seq(Places) /\ route # << >>
    /\ route[1] = asked.from /\ route[Len(route)] = goal /\ Marks(m, route, Hops)
    /\ \A i, j \in 1 .. Len(route) : route[i] = route[j] => m[i] = m[j]
    /\ low \in [Places -> Nat] /\ low[asked.from] = 0 /\ low[goal] = m[Len(route)]
    /\ \A h \in Hops : low[h.to] <= low[h.from] + h.length

LEMMA RouteIsBounded ==
    ASSUME IInv, RouteIsCorrect, at = "ok"
    PROVE  \E m, low : RouteBound(m, low)
<1>1. TypeOK /\ Phase /\ Hops \in SUBSET HopSet
  BY HopsAreEdges DEF IInv
<1>2. goal \in Places
  BY <1>1 DEF Phase
<1>4. CASE goal = asked.from
  <2> DEFINE m == [n \in 1 .. 1 |-> 0]
             low == [v \in Places |-> 0]
  <2>1. route = <<goal>>
    BY <1>4 DEF IInv, StayInv
  <2>2. Len(route) = 1 /\ route[1] = goal /\ route \in Seq(Places) /\ route # << >>
    BY <1>2, <2>1
  <2>3. Marks(m, route, Hops)
    BY <2>2 DEF Marks
  <2>4. low \in [Places -> Nat] /\ \A v \in Places : low[v] = 0
    OBVIOUS
  <2>5. \A h \in Hops : low[h.to] <= low[h.from] + h.length
    BY <1>1, <2>4 DEF HopSet
  <2>6. m[1] = 0 /\ low[goal] = 0
    BY <1>2
  <2> HIDE DEF low, m
  <2> QED
    BY <1>4, <2>2, <2>3, <2>4, <2>5, <2>6 DEF RouteBound
<1>5. CASE goal # asked.from
  <2> DEFINE m == [n \in 1 .. Len(route) |-> dist[route[n]]]
             low == [v \in Places |-> IF Reached(v) /\ dist[v] < dist[goal] THEN dist[v] ELSE dist[goal]]
  <2>1. /\ route \in Seq(Places) /\ route # << >>
        /\ route[1] = asked.from /\ route[Len(route)] = goal /\ Marks(m, route, Hops)
    BY <1>5, RouteMarks
  <2>2. m[Len(route)] = dist[goal] /\ dist[goal] \in Nat
    BY <2>1 DEF Marks
  <2>3. \A v \in Places : Reached(v) => dist[v] \in Nat
    BY <1>1, Types
  <2>4. low \in [Places -> Nat]
    BY <2>2, <2>3
  <2>5. dist[asked.from] = 0 /\ asked.from \in Places
    BY <1>5, <1>2, PlaceFacts DEF RouteIsCorrect, NothingShorter, IInv, Phase
  <2>6. low[asked.from] = 0 /\ low[goal] = dist[goal]
    BY <1>2, <2>2, <2>5 DEF Reached, Unreached
  <2>7. ASSUME NEW h \in Hops PROVE low[h.to] <= low[h.from] + h.length
    <3>1. PICK k \in DOMAIN edges : IsHop(k, h.from, h.to) /\ h.length = Weight(edges[k])
      BY <1>1, HopsAreEdges
    <3>2. h.from \in Places /\ h.to \in Places /\ h.length \in Nat
      BY <1>1 DEF HopSet
    <3>3. low[h.to] \in Nat /\ low[h.to] <= dist[goal]
      BY <2>2, <2>3, <3>2
    <3>4. CASE Reached(h.from) /\ dist[h.from] < dist[goal]
      <4>1. Reached(h.to) /\ dist[h.to] <= dist[h.from] + h.length
        BY <1>5, <3>1, <3>2, <3>4 DEF RouteIsCorrect, NothingShorter
      <4>2. low[h.from] = dist[h.from]
        BY <3>2, <3>4
      <4>3. dist[h.to] \in Nat /\ dist[h.from] \in Nat
        BY <2>3, <3>2, <3>4, <4>1
      <4>4. low[h.to] <= dist[h.to]
        BY <2>2, <3>2, <4>1, <4>3
      <4> HIDE DEF low
      <4> QED
        BY <3>2, <3>3, <4>1, <4>2, <4>3, <4>4
    <3>5. CASE ~(Reached(h.from) /\ dist[h.from] < dist[goal])
      <4>1. low[h.from] = dist[goal]
        BY <3>2, <3>5
      <4> HIDE DEF low
      <4> QED
        BY <2>2, <3>2, <3>3, <4>1
    <3> QED
      BY <3>4, <3>5
  <2>8. \A i, j \in 1 .. Len(route) : route[i] = route[j] => m[i] = m[j]
    OBVIOUS
  <2> HIDE DEF low, m
  <2> QED
    BY <2>1, <2>2, <2>4, <2>6, <2>7, <2>8 DEF RouteBound
<1> QED
  BY <1>4, <1>5

\* Whoever gets a route gets a shortest one.
LEMMA RouteAnswers ==
    ASSUME IInv, RouteIsCorrect, at = "ok"
    PROVE  Service!Correct([from |-> asked.from, to |-> goal, hops |-> Hops], route)
<1> DEFINE L == Service!Lengths(route[1], Hops)
<1>1. PICK m, low : RouteBound(m, low)
  BY RouteIsBounded
<1>2. Hops \in SUBSET HopSet
  BY HopsAreEdges DEF IInv
<1>3. L[goal] # -1 /\ Service!IsWalk(route, Hops) /\ Service!LengthOf(route, Hops) = L[goal]
  BY <1>1, <1>2, BoundedIsShortest DEF RouteBound
<1> QED
  BY <1>1, <1>3 DEF RouteBound, Service!Correct

\* Whoever is told that there is no way is told the truth.
LEMMA NoRouteAnswers ==
    ASSUME IInv, RouteIsCorrect, NoRouteYet, at = "no_route", goal # NoPlace
    PROVE  Service!Correct([from |-> asked.from, to |-> goal, hops |-> Hops], route)
<1>1. /\ asked.from \in visited /\ goal \notin visited
      /\ \A k \in DOMAIN edges : \A u, v \in Places :
           IsHop(k, u, v) /\ u \in visited => v \in visited
  BY DEF RouteIsCorrect, NoRouteIsACut
<1>2. TypeOK /\ goal \in Places /\ route = << >>
  BY DEF IInv, Phase, NoRouteYet
<1>3. visited \in SUBSET Places /\ Hops \in SUBSET HopSet
  BY <1>2, HopsAreEdges DEF TypeOK
<1>4. ASSUME NEW h \in Hops, h.from \in visited PROVE h.to \in visited
  <2>1. PICK k \in DOMAIN edges : IsHop(k, h.from, h.to)
    BY <1>2, HopsAreEdges
  <2>2. h.from \in Places /\ h.to \in Places
    BY <1>3 DEF HopSet
  <2> QED
    BY <1>1, <1>4, <2>1, <2>2
<1>5. Service!Lengths(asked.from, Hops)[goal] = -1
  BY <1>1, <1>2, <1>3, <1>4, CutOff
<1> QED
  BY <1>2, <1>5 DEF Service!Correct

LEMMA RightAnswer == IInv /\ RouteIsCorrect /\ NoRouteYet => AnswerInv
BY RouteAnswers, NoRouteAnswers DEF AnswerInv, Ended, IInv, Phase

\* A way from the origin to the door, of any number of hops.
IsWay(p) ==
    /\ p \in Seq(Places) /\ p # << >> /\ p[1] = asked.from /\ p[Len(p)] = goal
    /\ Service!IsWalk(p, Hops)

\* Of all ways, however long, none is shorter than the route, and when there is said to
\* be none there is none.
NoWayIsShorter ==
    /\ at = "ok" =>
         /\ IsWay(route)
         /\ \A p : IsWay(p) => Service!LengthOf(route, Hops) <= Service!LengthOf(p, Hops)
    /\ at = "no_route" /\ goal # NoPlace => \A p : ~IsWay(p)

LEMMA EveryWay == IInv /\ RouteIsCorrect => NoWayIsShorter
<1> SUFFICES ASSUME IInv, RouteIsCorrect PROVE NoWayIsShorter
  OBVIOUS
<1>1. TypeOK /\ Hops \in SUBSET HopSet
  BY HopsAreEdges DEF IInv
<1>2. ASSUME at = "ok"
      PROVE  /\ IsWay(route)
             /\ \A p : IsWay(p) => Service!LengthOf(route, Hops) <= Service!LengthOf(p, Hops)
  <2>1. PICK m, low : RouteBound(m, low)
    BY <1>2, RouteIsBounded
  <2>2. Service!IsWalk(route, Hops) /\ Service!LengthOf(route, Hops) = m[Len(route)]
    BY <1>1, <2>1, BoundedIsShortest DEF RouteBound
  <2>3. IsWay(route)
    BY <2>1, <2>2 DEF RouteBound, IsWay
  <2>4. ASSUME NEW p, IsWay(p)
        PROVE  Service!LengthOf(route, Hops) <= Service!LengthOf(p, Hops)
    <3> DEFINE R == {x \in Places \X Nat : low[x[1]] <= x[2]}
    <3>1. low \in [Places -> Nat] /\ \A h \in Hops : low[h.to] <= low[h.from] + h.length
      BY <2>1 DEF RouteBound
    <3>2. \A h \in Hops : \A n \in Nat :
             <<h.from, n>> \in R => <<h.to, n + h.length>> \in R
      BY <1>1, <3>1, LowIsHandedOn
    <3>3. p \in Seq(Places) /\ p # << >> /\ p[1] = asked.from /\ p[Len(p)] = goal
          /\ Service!IsWalk(p, Hops)
      BY <2>4 DEF IsWay
    <3>4. <<p[1], 0>> \in R
      BY <2>1, <3>3 DEF RouteBound
    <3>5. R \in SUBSET (Places \X Nat) /\ \A x \in R : low[x[1]] <= x[2]
      OBVIOUS
    <3> HIDE DEF R
    <3>6. <<p[Len(p)], Service!LengthOf(p, Hops)>> \in R
      BY <1>1, <3>2, <3>3, <3>4, <3>5, HandedAlong
    <3>7. low[goal] <= Service!LengthOf(p, Hops)
      BY <3>3, <3>5, <3>6
    <3> QED
      BY <2>1, <2>2, <3>7 DEF RouteBound
  <2> QED
    BY <2>3, <2>4
<1>3. ASSUME at = "no_route", goal # NoPlace, NEW p, IsWay(p)
      PROVE  FALSE
  <2>1. /\ asked.from \in visited /\ goal \notin visited
        /\ \A k \in DOMAIN edges : \A u, v \in Places :
             IsHop(k, u, v) /\ u \in visited => v \in visited
    BY <1>3 DEF RouteIsCorrect, NoRouteIsACut
  <2>2. ASSUME NEW h \in Hops, h.from \in visited
        PROVE  h.to \in visited /\ h.length \in Nat
    <3>1. PICK k \in DOMAIN edges : IsHop(k, h.from, h.to)
      BY <1>1, HopsAreEdges
    <3>2. h.from \in Places /\ h.to \in Places /\ h.length \in Nat
      BY <1>1 DEF HopSet
    <3> QED
      BY <2>1, <2>2, <3>1, <3>2
  <2> DEFINE R == visited \X Nat
  <2>3. p \in Seq(Places) /\ p # << >> /\ p[1] = asked.from /\ p[Len(p)] = goal
        /\ Service!IsWalk(p, Hops)
    BY <1>3 DEF IsWay
  <2>4. R \in SUBSET (Places \X Nat) /\ <<p[1], 0>> \in R
    BY <1>1, <2>1, <2>3 DEF TypeOK
  <2>5. \A h \in Hops : \A n \in Nat :
           <<h.from, n>> \in R => <<h.to, n + h.length>> \in R
    BY <2>2
  <2>6. \A n : <<goal, n>> \notin R
    BY <2>1
  <2> HIDE DEF R
  <2>7. <<p[Len(p)], Service!LengthOf(p, Hops)>> \in R
    BY <1>1, <2>3, <2>4, <2>5, HandedAlong
  <2> QED
    BY <2>3, <2>6, <2>7
<1> QED
  BY <1>2, <1>3 DEF NoWayIsShorter

\* A step of the handler that changes neither the request nor the door is the answer,
\* when the handler ends with it, and is not seen otherwise.
LEMMA InsideStep ==
    ASSUME at \notin Ended, UNCHANGED <<asked, edges, goal>>, AnswerInv'
    PROVE  [Service!Next]_(Service!vars)
<1>1. Hops' = Hops
  BY DEF Hops
<1>2. Wanted' = Wanted /\ Given = {}
  BY <1>1 DEF Wanted, Given
<1>3. CASE at' \in Ended /\ goal # NoPlace
  <2> DEFINE a == [from |-> asked.from, to |-> goal, hops |-> Hops]
  <2>1. a \in Wanted /\ Given' = {route'} /\ route' \in Given'
    BY <1>3 DEF Wanted, Given
  <2>2. Service!Correct(a, route')
    BY <1>1, <1>3 DEF AnswerInv
  <2> HIDE DEF a
  <2>3. Service!Answer
    BY <1>2, <2>1, <2>2 DEF Service!Answer
  <2> QED
    BY <2>3 DEF Service!Next
<1>4. CASE ~(at' \in Ended /\ goal # NoPlace)
  <2>1. Given' = {}
    BY <1>4 DEF Given
  <2> QED
    BY <1>2, <2>1 DEF Service!vars
<1> QED
  BY <1>3, <1>4

\* Every step of the search is a step of the service, or is not seen by it.
LEMMA StepRefines ==
    ASSUME IInv, AnswerInv', [Next]_vars
    PROVE  [Service!Next]_(Service!vars)
<1>1. ASSUME NEW r \in Requests, Ask(r)
      PROVE  UNCHANGED Service!vars
  <2>1. goal = NoPlace /\ goal' = NoPlace
    BY <1>1 DEF Ask, IInv, Phase
  <2> QED
    BY <2>1 DEF Wanted, Given, Service!vars
<1>2. CASE FoundDoor \/ MadeUpDoor
  <2>1. at = "asked" /\ at' = "found" /\ asked' = asked
    BY <1>2 DEF FoundDoor, MadeUpDoor
  <2>2. goal = NoPlace
    BY <2>1 DEF IInv, Phase
  <2>3. goal' # NoPlace
    <3>1. CASE FoundDoor
      <4>1. asked.room \in Rooms /\ map \in Maps
        BY <2>1, RequestFields DEF IInv, Phase, TypeOK
      <4>2. goal' \in Nodes
        BY <3>1, <4>1, DoorsAreNodes DEF FoundDoor
      <4> QED
        BY <4>2, PlaceFacts
    <3>2. CASE MadeUpDoor
      BY <3>2, PlaceFacts DEF MadeUpDoor
    <3> QED
      BY <1>2, <3>1, <3>2
  <2>4. Wanted = {} /\ Given' = {}
    BY <2>1, <2>2 DEF Wanted, Given, Ended
  <2>5. \E a \in Wanted' : Wanted' = {a}
    BY <2>3 DEF Wanted
  <2>6. Service!Ask
    BY <2>4, <2>5 DEF Service!Ask
  <2> QED
    BY <2>6 DEF Service!Next
<1>3. CASE UnknownOrigin \/ NoDoor \/ There \/ Start \/ Pop \/ Relax \/ Relaxed
              \/ Exhausted \/ Walk \/ Arrive
  <2>1. UNCHANGED <<asked, edges, goal>> /\ at \notin Ended
    BY <1>3 DEF UnknownOrigin, NoDoor, There, Start, Pop, Relax, Relaxed, Exhausted, Walk,
                Arrive, search, Ended
  <2> QED
    BY <2>1, InsideStep
<1>4. CASE Reply
  <2>1. at \in Ended /\ goal' = NoPlace
    BY <1>4 DEF Reply
  <2>2. Wanted' = {} /\ Given' = {}
    BY <2>1 DEF Wanted, Given
  <2>3. CASE goal = NoPlace
    <3>1. Wanted = {} /\ Given = {}
      BY <2>3 DEF Wanted, Given
    <3> QED
      BY <2>2, <3>1 DEF Service!vars
  <2>4. CASE goal # NoPlace
    <3>1. route \in Given
      BY <2>1, <2>4 DEF Given
    <3>2. Service!Done
      BY <2>2, <3>1 DEF Service!Done
    <3> QED
      BY <3>2 DEF Service!Next
  <2> QED
    BY <2>3, <2>4
<1>5. CASE UNCHANGED vars
  BY <1>5 DEF vars, Wanted, Given, Hops, Service!vars
<1> QED
  BY <1>1, <1>2, <1>3, <1>4, <1>5 DEF Next, Handle

\* Whoever asks for the way gets one answer, and the right one: the search with its
\* heap, its lazy deletion and its walk back along the predecessors implements the
\* service, whatever the map, the request and the size.  That it does answer is left
\* to fairness.
THEOREM RouteKeepsItsPromise == Spec => Service!Safety
<1>1. Init => Service!Init /\ NoRouteYet
  BY DEF Init, Service!Init, Wanted, Given, NoRouteYet
<1>2. NoRouteYet /\ [Next]_vars => NoRouteYet'
  BY NoRouteYetStep
<1>3. IInv /\ RouteIsCorrect /\ NoRouteYet => AnswerInv
  BY RightAnswer
<1>4. IInv /\ AnswerInv' /\ [Next]_vars => [Service!Next]_(Service!vars)
  BY StepRefines
<1> QED
  BY <1>1, <1>2, <1>3, <1>4, Invariance, AnswerIsRight, PTL DEF Spec, Service!Safety

\* The same without the reference computation: of all ways the mode leaves, however
\* many hops they have, none is shorter than the route that is given, and when the
\* handler says "no path found" there is none.
THEOREM NoShorterWay == Spec => []NoWayIsShorter
BY EveryWay, Invariance, AnswerIsRight, PTL
===============================================================================
