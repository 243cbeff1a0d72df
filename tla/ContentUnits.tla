---------------------------- MODULE ContentUnits ----------------------------
(***************************************************************************)
(* The cards the kiosk has (content_unit_registry.py) and the choice of    *)
(* the cards that answer a request (unit_selector.py).  A unit is a pair   *)
(* <<of, is>>, the code's "of.is".                                         *)
(***************************************************************************)
EXTENDS SemanticRequest

Unit(of, is) == <<of, is>>
NoUnit == Unit("none", "none")

DepartmentSuffixes == <<"overview", "hod", "achievements", "placements", "fees">>
ExplanationStages == <<"what_is", "learn", "lead">>
DifferenceUnit == Unit("department_explanation", "difference")
Sections(of, names) == [k \in DOMAIN names |-> Unit(of, names[k])]

HostelDeck(entity) ==
    <<Unit(entity, "overview"), Unit("hostel", "facilities"), Unit("hostel", "mess"), Unit("hostel", "safety")>>
NccDeck == Sections("ncc", <<"overview", "leadership", "training", "benefits">>)
PlacementDeck == Sections("placement", <<"introduction", "head", "companies", "analytics">>)
FestDeck == [k \in DOMAIN EventDeck |-> Unit(EventDeck[k], "overview")]

\* _all_descriptors_by_id: the slides of the departments, the cards about the
\* college, the people who lead it, the cards of the campus, and the stages in
\* which a department is explained.  The last has an alias for its first stage.
DepartmentUnits == Departments \X (ToSet(DepartmentSuffixes) \cup {"faculty"})
CollegeUnits == ({"college"} \X GlobalTopics)
                \cup {Unit("fees", "overview"), Unit("documents", "overview"), Unit("admission", "documents_required")}
LeadershipUnits == {"leadership"} \X (LeadershipTopics \ {"deans"})
CampusUnits == UNION {ToSet(HostelDeck(e)) : e \in HostelEntities} \cup ({"canteen"} \X CanteenTopics)
               \cup ToSet(NccDeck) \cup ToSet(PlacementDeck) \cup ToSet(FestDeck)
ExplanationUnits == (Departments \X ToSet(ExplanationStages)) \cup ({"department_explanation"} \X Departments)
                    \cup {DifferenceUnit}
Registered == DepartmentUnits \cup CollegeUnits \cup LeadershipUnits \cup CampusUnits \cup ExplanationUnits

-----------------------------------------------------------------------------
\* The unit of one item, if it is registered; explanations and decks are
\* expanded below.
CampusUnitOf(item) ==
    LET topic == Normalize(item.topic, Family(item.entity))
    IN  CASE item.entity \in HostelEntities /\ topic \in HostelSharedTopics -> Unit("hostel", topic)
          [] item.entity \in HostelEntities /\ topic \in {"overview", "warden", "rooms"} -> Unit(item.entity, "overview")
          [] item.entity = "events" -> FestDeck[1]
          [] OTHER -> Unit(item.entity, topic)
UnitOf(item) ==
    LET unit == IF item.entity \in HostelEntities \cup CampusEntities THEN CampusUnitOf(item)
                ELSE Unit(item.entity, item.topic)
    IN  IF unit \in Registered THEN unit ELSE NoUnit

\* One item asked for on its own may open a fixed deck.
DeckOf(item) ==
    CASE item.entity = "events" /\ item.topic \in {"overview", "event"} -> FestDeck
      [] item.entity \in HostelEntities /\ item.topic = "overview" -> HostelDeck(item.entity)
      [] item.entity = "ncc" /\ item.topic = "overview" -> NccDeck
      [] UnitOf(item) \in {Unit("placement", "introduction"), Unit("college", "placements")} -> PlacementDeck
      [] OTHER -> <<UnitOf(item)>>

Existing(units) == At(units, {k \in DOMAIN units : units[k] \in Registered})
UnitsOfItem(item, alone) ==
    CASE item.topic = "explanation" -> Existing(Sections(item.entity, ExplanationStages))
      [] item.topic # "explanation" /\ alone -> Existing(DeckOf(item))
      [] OTHER -> Existing(<<UnitOf(item)>>)

\* select_content_units: the cards of a request in the order asked.
NoPlan == <<>>
SelectContentUnits(request) ==
    LET items == request.items
        explained == {items[k].entity : k \in {i \in DOMAIN items : items[i].topic = "explanation"}}
        chosen == Once(FlattenSeq([k \in DOMAIN items |-> UnitsOfItem(items[k], Len(items) = 1)]))
    IN  CASE items = <<>> -> NoPlan
          [] items # <<>> /\ request.scope = "full_department" ->
               IF items[1].entity \in Departments /\ items[1].topic = "overview"
               THEN Sections(items[1].entity, DepartmentSuffixes) ELSE NoPlan
          [] OTHER -> chosen \o (IF Cardinality(explained) >= 2 THEN <<DifferenceUnit>> ELSE <<>>)

\* Which of the plan's units is the one person shown, for "who is he".
IsPerson(item) == item.topic = "hod" \/ item.entity = "leadership"
LastPerson(request) ==
    LET people == {i \in DOMAIN request.items : IsPerson(request.items[i])}
    IN  IF Cardinality(people) = 1 THEN request.items[CHOOSE i \in people : TRUE] ELSE NoItem
=============================================================================
