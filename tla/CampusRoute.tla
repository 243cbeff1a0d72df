------------------------------ MODULE CampusRoute ------------------------------
(***************************************************************************)
(* The way through the campus (services/campus_route_engine.py): the       *)
(* handler of POST /api/campus/route picks the door node of the room, or   *)
(* makes one up beside the nearest junction, runs Dijkstra's algorithm     *)
(* with a heap over the edges the mode leaves, walks the predecessors back *)
(* and announces an edge for each hop.                                     *)
(*                                                                         *)
(* The nodes of the map are numbered in the order of their ids, which is   *)
(* the order in which the heap takes nodes of equal distance.  Lengths are *)
(* integers; an edge of no length counts 1, the least there is.            *)
(* Coordinates are left out: any of the junctions the code looks among may *)
(* be the nearest.  What is made of the route for the display (the         *)
(* polyline, the steps of each floor, the time it takes) is left out.      *)
(***************************************************************************)
EXTENDS Integers, Sequences, FiniteSets

CONSTANTS
    Nodes,         \* the nodes of svit-campus-map.json
    FloorOf,       \* of each of them, its floor ...
    BlockOf,       \* ... and the block its id names
    Junctions,     \* those of type "junction"
    TmpDoor,       \* the door that is made up for a room without one
    Rooms,         \* room codes
    Origins,       \* origin_node_id of a request, aliases resolved
    Hints,         \* destination_floor_id of a request
    Modes,         \* mode of a request
    AccessLengths, \* from a junction to a made-up door, at least a metre
    Maps           \* what svit-campus-map.json may say

NoPlace == 0
Places == Nodes \cup {TmpDoor}

\* An edge may name a node the map does not have.
Edge == [from : Nat, to : Nat, length : Nat, both : BOOLEAN, accessible : BOOLEAN,
         active : BOOLEAN]

ASSUME NodesAssumption ==
    /\ Nodes \subseteq Nat \ {NoPlace} /\ IsFiniteSet(Nodes)
    /\ Junctions \subseteq Nodes
    \* "TMP-DOOR-" comes after the ids of all floors.
    /\ TmpDoor \in Nat \ {NoPlace} /\ \A n \in Nodes : n < TmpDoor
    /\ AccessLengths \subseteq Nat \ {0}

\* Doors are listed as in the file; sites are the rooms of that code, floor
\* by floor, which may have coordinates for a door or not.
ASSUME MapsAssumption ==
    \A m \in Maps : /\ m.edges \in Seq(Edge)
                    /\ \A r \in Rooms : m.doors[r] \in Seq(Nodes)

VARIABLES
    map,       \* the file, which does not change
    asked,     \* the request
    at,        \* where the handler is
    edges,     \* of the map, and the one to a made-up door
    goal,      \* goal_id
    dist,      \* Unreached where it has no entry
    prev,      \* prev_node
    heap,      \* pq
    visited,
    cur,       \* the node whose edges are relaxed ...
    next,      \* ... and the edge that is next
    route      \* path, which grows backwards

search == <<dist, prev, heap, visited, cur, next>>
vars == <<map, asked, at, edges, goal, search, route>>

Unreached == -1
Requests == [from : Origins, room : Rooms, hint : Hints, mode : Modes]
NoRequest == [from |-> NoPlace]
Ended == {"ok", "no_route", "error"}

Init ==
    /\ map \in Maps
    /\ asked = NoRequest /\ at = "idle"
    /\ edges = << >> /\ goal = NoPlace
    /\ dist = [p \in Places |-> Unreached] /\ prev = [p \in Places |-> NoPlace]
    /\ heap = {} /\ visited = {} /\ cur = NoPlace /\ next = 1
    /\ route = << >>

-----------------------------------------------------------------------------
\* _filter_edges_for_mode: only "accessible" leaves edges out; for "lift" and
\* "stairs" there is but a warning when the map has none.  _build_adjacency
\* drops an edge with an end that is no node.
UsableIn(e, mode) ==
    /\ e.active /\ (mode = "accessible" => e.accessible)
    /\ {e.from, e.to} \subseteq Places

\* The edge in the adjacency list of u that leads to v.
Joins(e, u, v) == (e.from = u /\ e.to = v) \/ (e.both /\ e.from = v /\ e.to = u)

Weight(e) == IF e.length = 0 THEN 1 ELSE e.length

\* The first of a set of positions.
First(ks) == {k \in ks : \A j \in ks : k <= j}

\* _find_room_by_code: the room on the floor that is asked for, else the first.
Site(room, hint) ==
    LET sites == map.sites[room]
        on == {k \in DOMAIN sites : sites[k].floor = hint}
    IN  sites[CHOOSE k \in First(IF on = {} THEN DOMAIN sites ELSE on) : TRUE]

\* _find_room_door_nodes and the first of them, if there is one.
Doors(room, hint) ==
    LET doors == map.doors[room]
        on == {k \in DOMAIN doors : FloorOf[doors[k]] = hint}
    IN  {doors[k] : k \in First(IF on = {} THEN DOMAIN doors ELSE on)}

\* _synthesize_room_door_target: the junctions of the floor, those of the block
\* if it has any.
Anchors(room, hint) ==
    LET site == Site(room, hint)
        floor == {n \in Junctions : FloorOf[n] = site.floor}
        block == {n \in floor : BlockOf[n] = site.block}
    IN  IF map.sites[room] = << >> \/ ~site.door THEN {}
        ELSE IF block # {} THEN block ELSE floor

\* The edge to the made-up door, at least a metre long.
AccessEdge(anchor, metres) ==
    [from |-> anchor, to |-> TmpDoor, length |-> metres, both |-> TRUE,
     accessible |-> TRUE, active |-> TRUE]

\* Mutant: any entry of the heap is taken.
IsEntry(x) == x \in heap

\* heapq.heappop of pairs.
IsLeast(x) == \A y \in heap : x[1] < y[1] \/ (x[1] = y[1] /\ x[2] <= y[2])

\* Mutant: among all edges of the map.
AnnouncedFromMap(u, v) ==
    First({k \in DOMAIN map.edges : Joins(map.edges[k], u, v)})

\* _edge_between: the first edge of the map that joins u to v, not the one the
\* search went by; the edge to a made-up door is not among them.
Announced(u, v) ==
    First({k \in DOMAIN map.edges :
            UsableIn(map.edges[k], asked.mode) /\ Joins(map.edges[k], u, v)})

-----------------------------------------------------------------------------
Ask(r) ==
    /\ at = "idle"
    /\ asked' = r /\ at' = "asked"
    /\ UNCHANGED <<map, edges, goal, search, route>>

\* An origin that is no node of the map.
UnknownOrigin ==
    /\ at = "asked" /\ asked.from \notin Nodes
    /\ at' = "error"
    /\ UNCHANGED <<map, asked, edges, goal, search, route>>

FoundDoor ==
    /\ at = "asked" /\ asked.from \in Nodes
    /\ goal' \in Doors(asked.room, asked.hint)
    /\ edges' = map.edges
    /\ at' = "found"
    /\ UNCHANGED <<map, asked, search, route>>

\* No door node: one is made up, at some distance from a junction.
MadeUpDoor ==
    /\ at = "asked" /\ asked.from \in Nodes
    /\ Doors(asked.room, asked.hint) = {}
    /\ \E a \in Anchors(asked.room, asked.hint), metres \in AccessLengths :
            edges' = Append(map.edges, AccessEdge(a, metres))
    /\ goal' = TmpDoor
    /\ at' = "found"
    /\ UNCHANGED <<map, asked, search, route>>

NoDoor ==
    /\ at = "asked" /\ asked.from \in Nodes
    /\ Doors(asked.room, asked.hint) = {} /\ Anchors(asked.room, asked.hint) = {}
    /\ at' = "no_route"
    /\ UNCHANGED <<map, asked, edges, goal, search, route>>

\* _dijkstra: there is nothing to search for, or the start is the frontier.
There ==
    /\ at = "found" /\ goal = asked.from
    /\ at' = "ok" /\ route' = <<goal>>
    /\ UNCHANGED <<map, asked, edges, goal, search>>

Start ==
    /\ at = "found" /\ goal # asked.from
    /\ dist' = [dist EXCEPT ![asked.from] = 0]
    /\ heap' = {<<0, asked.from>>}
    /\ at' = "searching"
    /\ UNCHANGED <<map, asked, edges, goal, prev, visited, cur, next, route>>

\* The entry is not longer than what is known by now.
IsCurrent(x) == x[1] <= dist[x[2]]

\* The edges of u are relaxed from the first on.
Expand(u) == at' = "relaxing" /\ cur' = u /\ next' = 1

\* The head of the loop: the goal ends it, a node that was taken before is skipped,
\* and an entry that is too long has no edges relaxed.
Take(x) ==
    /\ x[2] \notin visited
    /\ heap' = heap \ {x}
    /\ visited' = visited \cup {x[2]}
    /\ \/ x[2] = goal /\ at' = "walking" /\ route' = <<goal>> /\ UNCHANGED <<cur, next>>
       \/ x[2] # goal /\ IsCurrent(x) /\ Expand(x[2]) /\ UNCHANGED route
       \/ x[2] # goal /\ ~IsCurrent(x) /\ UNCHANGED <<at, cur, next, route>>

Skip(x) ==
    /\ x[2] \in visited
    /\ heap' = heap \ {x}
    /\ UNCHANGED <<at, visited, cur, next, route>>

Pop ==
    /\ at = "searching"
    /\ \E x \in heap : IsLeast(x) /\ (Take(x) \/ Skip(x))
    /\ UNCHANGED <<map, asked, edges, goal, dist, prev>>

IsBetter(v, alt) == dist[v] = Unreached \/ alt < dist[v]

\* Mutant: the predecessor is set once.
ImproveKeepingPrev(v, alt) ==
    /\ dist' = [dist EXCEPT ![v] = alt]
    /\ prev' = IF prev[v] = NoPlace THEN [prev EXCEPT ![v] = cur] ELSE prev
    /\ heap' = heap \cup {<<alt, v>>}

Improve(v, alt) ==
    /\ dist' = [dist EXCEPT ![v] = alt]
    /\ prev' = [prev EXCEPT ![v] = cur]
    /\ heap' = heap \cup {<<alt, v>>}

\* Edge k leads from u to v, and the mode allows it.
IsHop(k, u, v) == UsableIn(edges[k], asked.mode) /\ Joins(edges[k], u, v)

\* One edge of the adjacency list of cur.
Relax ==
    /\ at = "relaxing" /\ next <= Len(edges)
    /\ next' = next + 1
    /\ LET alt == dist[cur] + Weight(edges[next])
           near == {v \in Places : IsHop(next, cur, v) /\ IsBetter(v, alt)}
       IN  \/ \E v \in near : Improve(v, alt)
           \/ near = {} /\ UNCHANGED <<dist, prev, heap>>
    /\ UNCHANGED <<map, asked, at, edges, goal, visited, cur, route>>

\* Mutant: the search ends when the goal is seen.
RelaxedAtGoal ==
    /\ at = "relaxing" /\ next > Len(edges)
    /\ IF dist[goal] # Unreached THEN at' = "walking" /\ route' = <<goal>>
                                 ELSE at' = "searching" /\ UNCHANGED route
    /\ UNCHANGED <<map, asked, edges, goal, search>>

Relaxed ==
    /\ at = "relaxing" /\ next > Len(edges)
    /\ at' = "searching"
    /\ UNCHANGED <<map, asked, edges, goal, search, route>>

\* The heap is empty: the goal has no predecessor.
Exhausted ==
    /\ at = "searching" /\ heap = {}
    /\ IF prev[goal] = NoPlace THEN at' = "no_route" /\ UNCHANGED route
                               ELSE at' = "walking" /\ route' = <<goal>>
    /\ UNCHANGED <<map, asked, edges, goal, search>>

\* The predecessors of the goal, up to the start.
Walk ==
    /\ at = "walking" /\ route[1] # asked.from
    /\ IF prev[route[1]] = NoPlace
       THEN at' = "no_route" /\ route' = << >>
       ELSE route' = <<prev[route[1]]>> \o route /\ UNCHANGED at
    /\ UNCHANGED <<map, asked, edges, goal, search>>

Arrive ==
    /\ at = "walking" /\ route[1] = asked.from
    /\ at' = "ok"
    /\ UNCHANGED <<map, asked, edges, goal, search, route>>

\* The reply goes out; nothing is kept of the request.
Reply ==
    /\ at \in Ended
    /\ asked' = NoRequest /\ at' = "idle" /\ edges' = << >> /\ goal' = NoPlace
    /\ dist' = [p \in Places |-> Unreached] /\ prev' = [p \in Places |-> NoPlace]
    /\ heap' = {} /\ visited' = {} /\ cur' = NoPlace /\ next' = 1
    /\ route' = << >>
    /\ UNCHANGED map

Handle ==
    \/ UnknownOrigin \/ FoundDoor \/ MadeUpDoor \/ NoDoor
    \/ There \/ Start \/ Pop \/ Relax \/ Relaxed \/ Exhausted \/ Walk \/ Arrive

Next == (\E r \in Requests : Ask(r)) \/ Handle \/ Reply

\* The handler is a function without awaits: once called it runs on.
Spec == Init /\ [][Next]_vars /\ WF_vars(Handle)

-----------------------------------------------------------------------------
TypeOK ==
    /\ map \in Maps
    /\ asked \in Requests \cup {NoRequest}
    /\ at \in {"idle", "asked", "found", "searching", "relaxing", "walking"} \cup Ended
    /\ edges \in Seq(Edge)
    /\ goal \in Places \cup {NoPlace} /\ cur \in Places \cup {NoPlace}
    /\ dist \in [Places -> Nat \cup {Unreached}] /\ prev \in [Places -> Places \cup {NoPlace}]
    /\ heap \subseteq Nat \X Places /\ visited \subseteq Places
    /\ next \in Nat \ {0}
    /\ route \in Seq(Places)

Reached(v) == dist[v] # Unreached

\* Every node that was reached and not yet taken waits in the heap under its
\* distance: nothing is forgotten when a nearer way makes an entry stale, and
\* the test of _dijkstra for an entry that is too long finds none.
FrontierInHeap ==
    at \in {"searching", "relaxing"} =>
        \A v \in Places \ visited : Reached(v) => <<dist[v], v>> \in heap

\* What is known of a node that was taken does not change any more, until the
\* reply is out: the heap gives the nodes out nearest first, and no edge makes
\* a way shorter.
SettledIsFinal ==
    [][at \notin Ended =>
        \A v \in visited : dist'[v] = dist[v] /\ prev'[v] = prev[v]]_vars

\* The route begins at the origin, ends at the door, goes over edges that are
\* there, are open and allowed by the mode, and is as long as distance_m says.
RouteIsWalkable ==
    at = "ok" =>
        /\ route # << >> /\ route[1] = asked.from /\ route[Len(route)] = goal
        /\ \A n \in 1 .. Len(route) - 1 :
             \E k \in DOMAIN edges :
                /\ IsHop(k, route[n], route[n + 1])
                /\ dist[route[n + 1]] = dist[route[n]] + Weight(edges[k])

\* No hop leads out of what is nearer than the goal to a place that could have
\* been reached sooner by it, which is why nothing is shorter than the route.
NothingShorter ==
    at = "ok" /\ goal # asked.from =>
        /\ dist[asked.from] = 0
        /\ \A k \in DOMAIN edges : \A u, v \in Places :
             /\ IsHop(k, u, v) /\ Reached(u) /\ dist[u] < dist[goal]
             => Reached(v) /\ dist[v] <= dist[u] + Weight(edges[k])

\* When there is said to be no way, the places that were taken are cut off: the
\* origin is among them, the goal is not, and no hop leads out of them.
NoRouteIsACut ==
    at = "no_route" /\ goal # NoPlace =>
        /\ asked.from \in visited /\ goal \notin visited
        /\ \A k \in DOMAIN edges : \A u, v \in Places :
             IsHop(k, u, v) /\ u \in visited => v \in visited

\* The answer is right: a route that is given can be walked and nothing is
\* shorter, and where none is given there is a cut between origin and door.
RouteIsCorrect == RouteIsWalkable /\ NothingShorter /\ NoRouteIsACut

\* For every hop but the one to a made-up door an edge of the map is announced,
\* and none that the mode leaves out: the search goes by the edges it relaxed,
\* the announcement looks the hops up again.
AnnouncedIsAllowed ==
    at = "ok" =>
        \A n \in 1 .. Len(route) - 1 :
            LET said == Announced(route[n], route[n + 1])
            IN  /\ said = {} => route[n + 1] = TmpDoor
                /\ \A k \in said : map.edges[k].active
                                 /\ (asked.mode = "accessible" => map.edges[k].accessible)

HopsOf(e) ==
    {[from |-> h[1], to |-> h[2], length |-> Weight(e)] :
        h \in {x \in {<<e.from, e.to>>, <<e.to, e.from>>} : Joins(e, x[1], x[2])}}

\* The hops the mode leaves.
Hops == UNION {HopsOf(edges[k]) : k \in {j \in DOMAIN edges : UsableIn(edges[j], asked.mode)}}

\* What the service was asked and what it answered, seen from the search.
Wanted == IF goal = NoPlace THEN {} ELSE {[from |-> asked.from, to |-> goal, hops |-> Hops]}
Given == IF goal # NoPlace /\ at \in Ended THEN {route} ELSE {}

\* The search is what the service promises, for the hops the mode leaves.
Service == INSTANCE CampusRouteService WITH asked <- Wanted, answered <- Given

RouteService == Service!Spec
===============================================================================
