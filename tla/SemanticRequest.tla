-------------------------- MODULE SemanticRequest --------------------------
(***************************************************************************)
(* What a visitor asked for, as an ordered list of (entity, topic) items:  *)
(* the deterministic parser of src/backend/services/content.  It finds     *)
(* departments, topics, campus units, leaders and college-wide subjects,   *)
(* binds topics to what they are about by their distance in the sentence,  *)
(* and merges everything in the order it was said.  An earlier turn enters *)
(* only through "ctx", and only when the utterance points back at it.      *)
(*                                                                         *)
(* A request with no items is the code's None: nothing could be bound.     *)
(***************************************************************************)
EXTENDS CardVocabulary

Item(entity, topic) == [entity |-> entity, topic |-> topic]
NoRequest == [items |-> <<>>, scope |-> "single"]
NoItem == Item("none", "none")
Overviews(spans) == [k \in DOMAIN spans |-> Item(spans[k].of, "overview")]

-----------------------------------------------------------------------------
\* Departments and their topics.

DepartmentSpans(u) == FirstSpans(u, Departments)

AtomicFound(u) ==
    LET said == {TopicOf(u[i]) : i \in DOMAIN u} \cap AtomicTopics
        named == said \cup (IF Has(u, RegionalHod) THEN {"hod"} ELSE {})
        explains == Has(u, ExplainCues) /\ named \subseteq {"explanation"}
                    /\ ~Has(u, {"admissions", "documents"} \cup ComparisonCues)
    IN  named \cup (IF explains THEN {"explanation"} ELSE {})

TopicSpans(u) ==
    LET all == AllSpans(u, TopicWords)
    IN  [k \in DOMAIN all |-> Span(TopicOf(all[k].of), all[k].at)]

\* A clause "CSE HOD, ISE fees": each topic goes to the nearest department, to
\* the one before it when two are as near.
Nearest(entities, topic) ==
    LET after(k) == IF entities[k].at <= topic.at THEN 0 ELSE 1
        rank(k) == (Distance(entities[k], topic) * 2 + after(k)) * (Len(entities) + 1) + k
    IN  CHOOSE k \in DOMAIN entities : \A j \in DOMAIN entities : rank(k) <= rank(j)

BindByProximity(entities, topics) ==
    LET owner == [t \in DOMAIN topics |-> Nearest(entities, topics[t])]
    IN  IF {owner[t] : t \in DOMAIN topics} = DOMAIN entities
        THEN Once([t \in DOMAIN topics |-> Item(entities[owner[t]].of, topics[t].of)])
        ELSE <<>>

PairEntitiesAndTopics(entities, topics) ==
    LET kinds == Once([t \in DOMAIN topics |-> topics[t].of])
    IN  CASE entities = <<>> -> <<>>
          [] kinds = <<>> -> IF Len(entities) = 1 THEN Overviews(entities) ELSE <<>>
          [] Len(kinds) = 1 -> [k \in DOMAIN entities |-> Item(entities[k].of, kinds[1])]
          [] Len(entities) = 1 -> [t \in DOMAIN kinds |-> Item(entities[1].of, kinds[t])]
          [] OTHER -> BindByProximity(entities, topics)

-----------------------------------------------------------------------------
\* Campus units.

Family(entity) == CASE entity \in HostelEntities -> "hostel"
                    [] entity \in EventEntities  -> "event"
                    [] OTHER                     -> entity
FamilyTopics(family) == CASE family = "hostel"  -> HostelTopics
                          [] family = "canteen" -> CanteenTopics
                          [] family = "ncc"     -> NccTopics
                          [] OTHER              -> {}
\* The name a family has for a topic.
Normalize(topic, family) ==
    CASE family = "canteen" /\ topic \in {"food", "mess"} -> "food_quality"
      [] family = "canteen" /\ topic = "fees" -> "pricing"
      [] family = "canteen" /\ topic \in {"facilities", "warden", "rooms"} -> "overview"
      [] family = "hostel" /\ topic \in {"food", "timings"} -> "mess"
      [] OTHER -> topic
Takes(family, topic) == Normalize(topic, family) \in FamilyTopics(family)

\* Two or more units and as many topics: the closest pair is bound first, until
\* nothing is left; no pair left that fits leaves every unit its overview.
BindOneToOne(units, kinds, topics) ==
    LET near(t, e) ==
            LET mine == {d \in DOMAIN topics :
                           \/ topics[d].of = kinds[t]
                           \/ Normalize(topics[d].of, Family(units[e].of))
                                = Normalize(kinds[t], Family(units[e].of))}
            IN  IF mine = {} \/ ~Takes(Family(units[e].of), kinds[t]) THEN {}
                ELSE {CHOOSE n \in {Distance(topics[d], units[e]) : d \in mine} :
                        \A d \in mine : n <= Distance(topics[d], units[e])}
        bind[T \in SUBSET DOMAIN kinds, E \in SUBSET DOMAIN units] ==
            LET pairs == {p \in T \X E : near(p[1], p[2]) # {}}
                rank(p) == (CHOOSE n \in near(p[1], p[2]) : TRUE) * 100 + p[1] * 10 + p[2]
                best == CHOOSE p \in pairs : \A q \in pairs : rank(p) <= rank(q)
            IN  IF T = {} \/ E = {} THEN {}
                ELSE IF pairs = {} THEN {<<0, 0>>}
                ELSE {best} \cup bind[T \ {best[1]}, E \ {best[2]}]
    IN  bind[DOMAIN kinds, DOMAIN units]

\* The topics unit k is shown for; a unit without one is shown whole.
TopicsOfUnit(units, topics, k) ==
    LET family == Family(units[k].of)
        usable == At(topics, {t \in DOMAIN topics : \E e \in DOMAIN units : Takes(Family(units[e].of), topics[t].of)})
        first(t) == CHOOSE e \in DOMAIN units : /\ Takes(Family(units[e].of), t.of)
                                                /\ \A d \in 1 .. e - 1 : ~Takes(Family(units[d].of), t.of)
        kinds == Once([t \in DOMAIN usable |-> Normalize(usable[t].of, Family(units[first(usable[t])].of))])
        bound == BindOneToOne(units, kinds, usable)
        closest(t) == CHOOSE e \in DOMAIN units :
            /\ Takes(Family(units[e].of), t.of)
            /\ \A d \in DOMAIN units : Takes(Family(units[d].of), t.of)
                 => \/ Distance(t, units[e]) < Distance(t, units[d])
                    \/ Distance(t, units[e]) = Distance(t, units[d]) /\ units[e].at <= units[d].at
        mine == CASE Len(kinds) <= 1 \/ Len(units) = 1 -> At(kinds, {t \in DOMAIN kinds : Takes(family, kinds[t])})
                  [] Len(kinds) = Len(units) -> IF <<0, 0>> \in bound THEN <<>>
                                                ELSE At(kinds, {t \in DOMAIN kinds : <<t, k>> \in bound})
                  [] OTHER -> LET own == At(usable, {t \in DOMAIN usable : closest(usable[t]) = k})
                              IN  [t \in DOMAIN own |-> own[t].of]
    IN  Once([t \in DOMAIN mine |-> Normalize(mine[t], family)])

\* Campus items in the order their units were said; the word for festivals is
\* every festival, unless one is named.
PairCampusItems(spans, topics) ==
    LET bindable == At(spans, {k \in DOMAIN spans : Family(spans[k].of) \notin {"event", "events"}})
        named == \E k \in DOMAIN spans : Family(spans[k].of) = "event"
        index(s) == CHOOSE k \in DOMAIN bindable : bindable[k] = s
        itemsOf(s) ==
            CASE Family(s.of) = "event" -> <<Item(s.of, "overview")>>
              [] Family(s.of) = "events" -> IF named THEN <<>>
                                            ELSE [k \in DOMAIN EventDeck |-> Item(EventDeck[k], "overview")]
              [] OTHER -> LET mine == TopicsOfUnit(bindable, topics, index(s))
                          IN  IF mine = <<>> THEN <<Item(s.of, "overview")>>
                              ELSE [t \in DOMAIN mine |-> Item(s.of, mine[t])]
    IN  FlattenSeq([k \in DOMAIN spans |-> itemsOf(spans[k])])

CampusSpans(u) == FirstSpans(u, CampusEntities)
\* "Hostel", and not whose.
BareHostelRequest(u) == Has(u, BareHostel) /\ CampusSpans(u) = <<>>
CampusItems(u) == PairCampusItems(CampusSpans(u), AllSpans(u, CampusTopicWords))

\* A topic of a unit an earlier turn was about; naming any unit ends it.
StickyItems(u, entity, family) ==
    LET said == AllSpans(u, CampusTopicWords)
        mine == At(said, {t \in DOMAIN said : Takes(family, said[t].of)})
        kinds == Once([t \in DOMAIN mine |-> Normalize(mine[t].of, family)])
    IN  IF Has(u, CampusEntities) THEN <<>> ELSE [t \in DOMAIN kinds |-> Item(entity, kinds[t])]
HostelFollowup(u, gender) ==
    IF gender = "none" THEN <<>> ELSE StickyItems(u, HostelOf[gender], "hostel")
NccFollowup(u, active) == IF active THEN StickyItems(u, "ncc", "ncc") ELSE <<>>

PlacementItems(u) ==
    CASE Has(u, PlacementHead)      -> <<Item("placement", "head")>>
      [] Has(u, PlacementCompanies) -> <<Item("placement", "companies")>>
      [] Has(u, PlacementAnalytics) -> <<Item("placement", "analytics")>>
      [] Has(u, PlacementIntro)     -> <<Item("placement", "introduction")>>
      [] OTHER -> <<>>

-----------------------------------------------------------------------------
\* What an earlier turn may add.  ctx: the departments it was about, the one
\* person it showed, the hostel it was about, and whether it was about NCC.

HasAnaphora(u) == Has(u, Anaphora)
ConciseFollowup(u, topics) ==
    /\ Cardinality(topics) = 1
    /\ Len(u) <= 2 \/ (Len(u) <= 4 /\ Has(u, FollowUpJoiners))
ContextualTopicFollowup(u, topics) ==
    \/ ConciseFollowup(u, topics)
    \/ Cardinality(topics) = 1 /\ Has(u, ContextualCues)

EntitySpans(u, ctx) ==
    CASE DepartmentSpans(u) # <<>> -> DepartmentSpans(u)
      [] HasAnaphora(u) \/ ContextualTopicFollowup(u, AtomicFound(u))
           -> [k \in DOMAIN ctx.departments |-> Span(ctx.departments[k], 0)]
      [] OTHER -> <<>>

\* "Who is he": the person shown last, and never somebody else.
PersonFollowup(u, ctx) ==
    IF Has(u, PersonAnaphora) /\ AtomicFound(u) = {} /\ ctx.person # NoItem THEN <<ctx.person>> ELSE <<>>

-----------------------------------------------------------------------------
\* The items of the departments.  A topic that is known but has no position can
\* be bound only when nothing competes for it.
DepartmentItems(u, entities, full) ==
    LET spans == TopicSpans(u)
        positioned == Named(spans)
        loose == AtomicFound(u) \ positioned
        topics == AtomicFound(u) \cup positioned
        explained == SubSeq(entities, 1, IF Len(entities) < 3 THEN Len(entities) ELSE 3)
        explanations == [k \in DOMAIN explained |-> Item(explained[k].of, "explanation")]
        paired == PairEntitiesAndTopics(entities, spans)
    IN  CASE loose # {} /\ topics = {"explanation"} /\ Len(entities) >= 2 -> explanations
          [] loose # {} -> <<Item(entities[1].of, CHOOSE t \in loose : TRUE)>>
          [] paired # <<>> \/ topics # {} \/ Len(entities) = 1 -> paired
          [] Has(u, ShowCues) /\ ~full -> Overviews(entities)
          [] Has(u, ComparisonCues) -> explanations
          [] OTHER -> <<>>

Unbindable(u, entities) ==
    LET topics == AtomicFound(u) \cup Named(TopicSpans(u))
    IN  /\ AtomicFound(u) \ Named(TopicSpans(u)) # {}
        /\ Cardinality(topics) > 1 \/ Len(entities) > 1
        /\ ~(topics = {"explanation"} /\ Len(entities) >= 2)

\* Items tagged with the place of what they are about, in the order of those
\* places; an item whose entity has no place in the text comes first.
PlaceOf(spans, of) ==
    IF of \in Named(spans) THEN (CHOOSE k \in DOMAIN spans : spans[k].of = of) ELSE 0
Tagged(items, spans, about) ==
    [i \in DOMAIN items |->
        [at |-> IF PlaceOf(spans, about[i]) = 0 THEN 0 ELSE spans[PlaceOf(spans, about[i])].at, item |-> items[i]]]
LeadershipItems(spans) ==
    FlattenSeq([k \in DOMAIN spans |->
        IF spans[k].of = "deans"
        THEN [d \in DOMAIN DeanTopics |-> [at |-> spans[k].at, item |-> Item("leadership", DeanTopics[d])]]
        ELSE <<[at |-> spans[k].at, item |-> Item("leadership", spans[k].of)]>>])
InOrderOfPlace(tagged, n) ==
    LET sorted == FlattenSeq([p \in 1 .. n + 1 |-> At(tagged, {k \in DOMAIN tagged : tagged[k].at = p - 1})])
    IN  Once([k \in DOMAIN sorted |-> sorted[k].item])

\* The people who lead the college and the questions about it as a whole, each
\* where it was said first.
LeadershipSpans(u) == FirstSpans(u, LeadershipTopics)
CollegeSpans(u) == FirstSpans(u, GlobalTopics)

\* The campus items said, or else those of the unit an earlier turn was about.
SaidOrSticky(u, ctx, said) ==
    LET hostel == HostelFollowup(u, ctx.gender)
    IN  IF said # <<>> THEN said ELSE IF hostel # <<>> THEN hostel ELSE NccFollowup(u, ctx.ncc)
GlobalSpans(u, entities, placement) ==
    LET all == CollegeSpans(u)
    IN  At(all, {k \in DOMAIN all : /\ entities # <<>> => all[k].of = "location"
                                    /\ placement # <<>> => all[k].of # "placements"})
FullScope(u, entities) ==
    /\ entities # <<>> /\ LeadershipSpans(u) = <<>> /\ Has(u, FullScopeCues)
    /\ AtomicFound(u) = {} /\ TopicSpans(u) = <<>>

\* Everything found, in the order said.
Merged(u, entities, campus, global) ==
    LET department == IF entities = <<>> THEN <<>> ELSE DepartmentItems(u, entities, FullScope(u, entities))
        college == [k \in DOMAIN global |-> Item("college", global[k].of)]
    IN  InOrderOfPlace(Tagged(department, entities, [i \in DOMAIN department |-> department[i].entity])
                       \o LeadershipItems(LeadershipSpans(u))
                       \o Tagged(campus, CampusSpans(u), [i \in DOMAIN campus |-> campus[i].entity])
                       \o Tagged(college, global, [i \in DOMAIN college |-> college[i].topic]), Len(u))
Request(u, entities, items) ==
    [items |-> items, scope |-> IF FullScope(u, entities) /\ Len(items) = 1 THEN "full_department" ELSE "single"]

\* parse_semantic_request.
ParseFound(u, ctx, entities, campus, global) ==
    IF Has(u, UnsupportedCues) \/ (entities # <<>> /\ Unbindable(u, entities)) THEN NoRequest
    ELSE IF entities = <<>> /\ campus = <<>> /\ global = <<>> /\ LeadershipSpans(u) = <<>>
    THEN [NoRequest EXCEPT !.items = PersonFollowup(u, ctx)]
    ELSE Request(u, entities, Merged(u, entities, campus, global))
ParseEntities(u, ctx, entities, placement) ==
    ParseFound(u, ctx, entities, SaidOrSticky(u, ctx, CampusItems(u)) \o placement,
               GlobalSpans(u, entities, placement))
Parse(u, ctx) ==
    ParseEntities(u, ctx, EntitySpans(u, ctx), IF EntitySpans(u, ctx) = <<>> THEN PlacementItems(u) ELSE <<>>)

\* The departments and campus units a request is about, in order.
EntitiesOf(request) ==
    LET items == request.items
        named == At(items, {k \in DOMAIN items : items[k].entity \notin {"leadership", "college"}})
    IN  Once([k \in DOMAIN named |-> named[k].entity])
DepartmentsOf(entities) == At(entities, {k \in DOMAIN entities : entities[k] \in Departments})
TopicsOf(request) == {request.items[k].topic : k \in DOMAIN request.items}
=============================================================================
