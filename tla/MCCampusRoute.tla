---------------------------- MODULE MCCampusRoute ----------------------------
\* A kiosk (1) and two junctions of different blocks on the ground floor, a
\* junction and a door on the first, each pair joined by one of several edges.
EXTENDS CampusRoute

MCFloorOf == [n \in Nodes |-> IF n <= 3 THEN "GF" ELSE "FF"]
MCBlockOf == [n \in Nodes |-> IF n = 3 THEN "B" ELSE "A"]

Way(u, v, length) == [from |-> u, to |-> v, length |-> length, both |-> TRUE,
                      accessible |-> TRUE, active |-> TRUE]
Stairs(u, v, length) == [Way(u, v, length) EXCEPT !.accessible = FALSE]
OneWay(u, v, length) == [Way(u, v, length) EXCEPT !.both = FALSE]
Closed(u, v) == [Way(u, v, 1) EXCEPT !.active = FALSE]

\* Eight edges: two may be parallel, one leads to a node the map does not have.
MCEdges ==
    {<<Stairs(2, 4, 1), a, Way(2, 3, 1), c, Way(3, 5, 4), d, e, Way(3, 9, 1)>> :
        a \in {Way(1, 2, 0), Way(1, 2, 3), Closed(1, 2)},
        c \in {Way(1, 3, 1), Stairs(1, 3, 1)},
        d \in {Way(2, 4, 2), Way(3, 4, 2), OneWay(4, 2, 1)},
        e \in {Way(4, 5, 1), OneWay(5, 4, 1)}}

Room(floor, block, door) == [floor |-> floor, block |-> block, door |-> door]

\* Room 1 has a door node on each floor, 2 a made-up door, 3 no door at all.
MCMaps ==
    {[edges |-> es,
      doors |-> <<<<5, 1>>, << >>, << >>>>,
      sites |-> <<<<Room("GF", "A", TRUE), Room("FF", "A", TRUE)>>, <<Room("GF", b, TRUE)>>,
                  <<Room("FF", "A", FALSE)>>>>] : es \in MCEdges, b \in {"B", "C"}}
==============================================================================
