----------------------------- MODULE Presentation -----------------------------
(***************************************************************************)
(* How a decision reaches the visitor (src/backend/services/orchestration  *)
(* and the end of process_user_text_and_reply in main.py): the mode of the *)
(* turn, the one surface its cards stand on, the one authority that may    *)
(* speak, the cards that are narrated, and what becomes of them when the   *)
(* timeline of the cards is refused.                                       *)
(*                                                                         *)
(* A resolution is the record the code passes along: mode and surface, the *)
(* flags generate (cards), groq and rag (a generated reply, with or        *)
(* without retrieval), whether a ready reply came with it, the bundle of   *)
(* narrated cards, the authority and whether it is sealed.                 *)
(***************************************************************************)
EXTENDS ResponseDecision

Authorities == {"DETERMINISTIC", "FAQ", "GROQ", "CARD_PRESENTATION", "UNKNOWN_TEMPLATE", "RETRY_TEMPLATE"}
Modes == {"RETRY", "UNKNOWN", "DIRECT", "DIRECT_FAQ", "CARD_PRESENTATION", "NORMAL_REPLY", "FULL_TEXT"}
NewResolution ==
    [mode |-> "NORMAL_REPLY", surface |-> "none", intent |-> "none", reply |-> FALSE, generate |-> FALSE,
     groq |-> TRUE, rag |-> TRUE, degraded |-> FALSE, bundle |-> <<>>, authority |-> "none", sealed |-> FALSE]

NavigationEvidence == {"campus_navigation", "campus_navigation_ambiguous", "campus_destination_unknown"}
IsMap(d) == d.why \in NavigationEvidence

-----------------------------------------------------------------------------
\* The surface.

\* normalize_semantic_topic, as far as a surface depends on it.
SemanticTopic(u) ==
    FirstOf(<<Rule(Has(u, {"canteen", "food", "mess"}), "FOOD"), Rule(Has(u, PlacementWords), "placements"),
              Rule(Has(u, {"fees"}), "fees"), Rule(Has(u, {"admissions", "admission documents", "enrollment"}), "admissions"),
              Rule(Has(u, {"bus"}), "BUS"), Rule(Has(u, {"documents"}), "DOCUMENTS"),
              Rule(Has(u, {"directions", "location", "where"}), "LOCATION"), Rule(TRUE, "none")>>)
Unsupported(u) == SemanticTopic(u) = "FOOD" /\ CampusItems(u) = <<>>

TriggerSurface == [department_overview |-> "department_overview", department_explanation |-> "department_explanation",
                   department_click |-> "department_overview", documents |-> "documents",
                   fees |-> "department_fees", admissions |-> "admissions"]
TopicSurface == [overview |-> "department_overview", explanation |-> "department_explanation", hod |-> "hod",
                 faculty |-> "faculty", fees |-> "department_fees", placements |-> "placements",
                 admissions |-> "admissions"]
IntentSurface == [DEPARTMENT_OVERVIEW |-> "department_overview", HOD_PROFILE |-> "hod",
                  PRINCIPAL_PROFILE |-> "principal_profile", DEPARTMENT_FEES |-> "department_fees",
                  DOCUMENTS |-> "documents", ADMISSIONS |-> "admissions", PLACEMENTS |-> "placements",
                  DEPARTMENT_COMPARISON |-> "department_explanation", TRUSTEES_PROFILE |-> "trustees",
                  BUS_ROUTES |-> "bus_routes", CAMPUS_NAVIGATION |-> "campus_navigation",
                  COURSE_MENU |-> "course_menu", HOD_TRUSTEES_PROFILE |-> "hod",
                  COLLEGE_OVERVIEW |-> "college", VICE_PRINCIPAL_PROFILE |-> "vice_principal_profile"]
SurfaceIn(table, key) == IF key \in DOMAIN table THEN table[key] ELSE "none"

\* select_surface.
Surface(local, topic, intent) ==
    FirstOf(<<Rule(SurfaceIn(TriggerSurface, local.trigger) # "none", SurfaceIn(TriggerSurface, local.trigger)),
              Rule(intent \notin {"CAMPUS_NAVIGATION", "BUS_ROUTES"} /\ SurfaceIn(TopicSurface, topic) # "none",
                   SurfaceIn(TopicSurface, topic)),
              Rule(TRUE, SurfaceIn(IntentSurface, intent))>>)

\* _apply_unit_plan_authority: cards that exist take the surface chosen for
\* them; a department's surface without cards is dropped, unless it was asked
\* for by a click or an answer.
UnitBacked == {"department_overview", "hod", "faculty", "department_fees"}
UnderUnitPlan(r, request, local) ==
    LET planned == SelectContentUnits(request) # NoPlan
    IN  CASE r.surface = "campus_navigation" -> r
          [] r.surface # "campus_navigation" /\ planned
               -> [r EXCEPT !.surface = IF r.surface = "none" THEN "department_overview" ELSE r.surface]
          [] r.surface \in UnitBacked /\ ~planned /\ local = NoLocal
               -> [r EXCEPT !.surface = "none", !.generate = FALSE]
          [] OTHER -> r

-----------------------------------------------------------------------------
\* resolve_presentation: u is the text the decision was taken on, t its facts.
Silent(mode, reply) == [NewResolution EXCEPT !.mode = mode, !.reply = reply, !.groq = FALSE, !.rag = FALSE]
Cards(surface) ==
    [Silent("CARD_PRESENTATION", FALSE) EXCEPT !.surface = surface, !.generate = TRUE]
\* What is asked for has no card: it is answered in words.
Presentable(u, action) == IF action = "CARD_PRESENTATION" /\ Unsupported(u) THEN "ANSWER" ELSE action
Presented(u, t, d, act, intent) ==
    LET topic == IF t.request.items # <<>> /\ intent # "CAMPUS_NAVIGATION" THEN t.request.items[1].topic
                 ELSE SemanticTopic(u)
    IN  FirstOf(<<Rule(act \in {"UNKNOWN", "ASK_CLARIFICATION"}, Silent("UNKNOWN", TRUE)),
                  Rule(act \in {"ENTITY_UPDATE", "GREETING", "SMALL_TALK", "THANKS_CLOSING"}, Silent("DIRECT", TRUE)),
                  Rule(act = "ABOUT_ME", Cards("about_me")),
                  Rule(act = "DIRECT_RESPONSE", Silent("DIRECT_FAQ", FALSE)),
                  Rule(/\ intent # "CAMPUS_NAVIGATION" /\ SemanticTopic(u) = "LOCATION"
                       /\ t.request.items = <<>>, Silent("DIRECT", FALSE)),
                  Rule(act = "CARD_PRESENTATION",
                       UnderUnitPlan(Cards(Surface(t.local, topic, intent)), t.request, t.local)),
                  Rule(TRUE, [NewResolution EXCEPT !.rag = d.domain # "unknown",
                                                   !.reply = d.why = "ncc_enrollment_guidance"])>>)
PresentationIntent(t, d) == IF IsMap(d) THEN "CAMPUS_NAVIGATION" ELSE t.intent
ResolvePresentation(u, t, d, action) ==
    [Presented(u, t, d, Presentable(u, action), PresentationIntent(t, d)) EXCEPT !.intent = PresentationIntent(t, d)]

-----------------------------------------------------------------------------
\* The authority.

\* select_response_authority.
AuthorityOf(r) ==
    CASE r.mode = "RETRY"      -> "RETRY_TEMPLATE"
      [] r.mode = "UNKNOWN"    -> "UNKNOWN_TEMPLATE"
      [] r.mode = "DIRECT"     -> "DETERMINISTIC"
      [] r.mode = "DIRECT_FAQ" -> "FAQ"
      [] r.mode = "CARD_PRESENTATION" /\ (r.bundle # <<>> \/ (r.generate /\ ~r.degraded)) -> "CARD_PRESENTATION"
      [] OTHER -> "GROQ"

\* Mutant: the language model is given the turn and not told to answer.
SealMute(r, authority) == [r EXCEPT !.authority = authority, !.sealed = TRUE, !.generate = authority = "CARD_PRESENTATION"]
\* seal_authority, which makes the flags agree with the owner it seals.
Seal(r, authority) ==
    LET sealed == [r EXCEPT !.authority = authority, !.sealed = TRUE]
    IN  CASE authority = "CARD_PRESENTATION" -> [sealed EXCEPT !.rag = FALSE, !.generate = TRUE, !.groq = FALSE]
          [] authority = "GROQ" -> [sealed EXCEPT !.generate = FALSE, !.bundle = <<>>, !.groq = TRUE]
          [] OTHER -> [sealed EXCEPT !.groq = FALSE, !.rag = FALSE, !.generate = FALSE]

\* The orchestrator seals every turn but one that waits for its cards.
AwaitsCards(r) == r.mode = "CARD_PRESENTATION" /\ r.generate /\ ~r.degraded
SealUnlessCards(r) == IF AwaitsCards(r) THEN r ELSE Seal(r, AuthorityOf(r))
\* Mutant: a question back is not taken for the whole answer.
ShortCircuitsLess(r) == r.reply /\ r.mode \in {"RETRY", "DIRECT"}
ShortCircuits(r) == r.reply /\ r.mode \in {"RETRY", "UNKNOWN", "DIRECT"}

-----------------------------------------------------------------------------
\* The cards that are narrated: units of the content registry, or what an older
\* builder makes of an intent.

\* One card with a ready sentence.
Prompt(surface) == <<Unit("prompt", surface)>>

\* The older builders (narration_plan.py).  A slide has the name of its card for
\* a section, so the slides of one card all have the same.
Slide(card) == Unit("legacy", card)
Slides(card, count) == [k \in 1 .. count |-> Slide(card)]
CollegeSlides == Slides("college", 5)
TrusteesSlides == Slides("trustees", 9)
ExecutiveSlide == Slides("executive", 1)
FeesSlide == Slides("fees", 1)
DocumentsSlides == Slides("documents", 2)
CourseMenuSlide == Slides("course_menu", 1)
PlacementSlides == Slides("placement", 3)
AdmissionsSlides == Slides("admissions", 5)
HodSlide == Slides("hod", 1)
UnlistedSlide == Slides("unlisted", 1)
\* The departments compared, stage by stage, and what sets the first two apart.
ComparisonSlides(entities) ==
    FlattenSeq([k \in DOMAIN entities |-> Sections(entities[k], ExplanationStages)])
    \o (IF Len(entities) >= 2 THEN <<DifferenceUnit>> ELSE <<>>)
\* The deck of a department nobody bound a request to; one that cannot be made
\* out is said to be unlisted, and all of them are never shown for one.
DepartmentSlides == Sections("legacy", DepartmentSuffixes)
OverviewDeck(departments) == IF departments = <<>> THEN UnlistedSlide ELSE DepartmentSlides

\* build_pre_llm_narration_plan.
LegacyPlan(intent, entities) ==
    LET departments == DepartmentsOf(entities)
    IN  CASE intent = "COLLEGE_OVERVIEW"      -> CollegeSlides
          [] intent = "TRUSTEES_PROFILE"      -> TrusteesSlides
          [] intent \in {"PRINCIPAL_PROFILE", "VICE_PRINCIPAL_PROFILE"} -> ExecutiveSlide
          [] intent = "DEPARTMENT_FEES"       -> FeesSlide
          [] intent = "DOCUMENTS"             -> DocumentsSlides
          [] intent = "COURSE_MENU"           -> CourseMenuSlide
          [] intent = "PLACEMENTS"            -> PlacementSlides
          [] intent = "ADMISSIONS"            -> AdmissionsSlides
          [] intent = "DEPARTMENT_COMPARISON" -> ComparisonSlides(departments)
          [] intent = "DEPARTMENT_OVERVIEW"   -> OverviewDeck(departments)
          [] intent = "HOD_PROFILE"           -> HodSlide
          [] OTHER -> <<>>

\* resolve_narration.
Narration(r, request, d) ==
    FirstOf(<<Rule(r.surface = "campus_navigation" \/ r.intent = "CAMPUS_NAVIGATION", Prompt("campus_navigation")),
              Rule(r.surface = "bus_routes" \/ r.intent = "BUS_ROUTES", Prompt("bus_routes")),
              Rule(r.surface = "about_me", Prompt("about_me")),
              Rule(request.items # <<>> \/ r.surface = "department_overview", SelectContentUnits(request)),
              Rule(TRUE, LegacyPlan(r.intent, d.entities))>>)

\* validate_presentation_timeline: each card once, and five cards on the
\* department surface are taken for the deck of a department.
Sectioned(bundle) == [k \in DOMAIN bundle |-> bundle[k][2]]
TimelineHolds(surface, bundle) ==
    /\ bundle # <<>> /\ Cardinality(ToSet(bundle)) = Len(bundle)
    /\ surface = "department_overview" /\ Len(bundle) = Len(DepartmentSuffixes)
         => Sectioned(bundle) = DepartmentSuffixes

\* attach_narration.  "fault" is what goes wrong on the way, if anything: the
\* cards have no text in the visitor's language, the session fails a check, or
\* the code raises and the turn stays as it was.
Faults == {"none", "localization", "contract", "exception"}
Degrade(r) == Seal([r EXCEPT !.mode = "FULL_TEXT", !.generate = FALSE, !.surface = "none", !.degraded = TRUE],
                   "GROQ")
AttachBundle(r, bundle, fault) ==
    CASE fault = "exception" -> r
      [] fault # "exception" /\ (bundle = <<>> \/ fault # "none" \/ ~TimelineHolds(r.surface, bundle)) -> Degrade(r)
      [] OTHER -> Seal([r EXCEPT !.bundle = bundle], "CARD_PRESENTATION")
Attach(r, request, d, fault) == AttachBundle(r, Narration(r, request, d), fault)

-----------------------------------------------------------------------------
\* What leaves: the end of process_user_text_and_reply.

CardIntents == NonUnitCardIntents \cup DepartmentCardIntents
Programs(u) == ToSet(u) \cap Departments

\* The intent main.py works out again from the text, below the decision.
\* Mutant: the card intents of a turn that is answered in words are kept.
RuledIntentOpen(own, d, r) ==
    FirstOf(<<Rule(IsMap(d) \/ r.surface = "campus_navigation", "CAMPUS_NAVIGATION"),
              Rule(d.mode = "FALLBACK", "OFF_TOPIC"), Rule(TRUE, own)>>)
RuledIntent(own, d, r) ==
    FirstOf(<<Rule(IsMap(d) \/ r.surface = "campus_navigation", "CAMPUS_NAVIGATION"),
              Rule(d.mode \in {"ANSWER", "CLARIFY"} /\ own \in CardIntents, "NORMAL_QUERY"),
              Rule(d.mode = "FALLBACK", "OFF_TOPIC"), Rule(TRUE, own)>>)
OwnIntent(u, local) ==
    IF local.trigger = "department_click" THEN "DEPARTMENT_OVERVIEW" ELSE ProfileIntent(u, Intent(u))
ReplyIntentFor(u, local, ruled) ==
    FirstOf(<<Rule(Has(u, {"where", "location"}) /\ ruled # "BUS_ROUTES", "NORMAL_QUERY"),
              Rule(ruled = "DEPARTMENT_COMPARISON" /\ Cardinality(Programs(u)) < 2, "NORMAL_QUERY"),
              Rule(/\ ruled \in {"DEPARTMENT_OVERVIEW", "DEPARTMENT_FEES"}
                   /\ Programs(u) = {} /\ local = NoLocal, "NORMAL_QUERY"),
              Rule(TRUE, ruled)>>)
ReplyIntent(u, local, d, r) == ReplyIntentFor(u, local, RuledIntent(OwnIntent(u, local), d, r))

\* showCard: the surface of the resolution or, in a turn decided CARD that has
\* none, the one its intent stands for.
ShownFor(intent, local, d, r) ==
    FirstOf(<<Rule(ShortCircuits(r) \/ r.authority = "FAQ", "none"),
              Rule(IsMap(d) \/ r.surface = "campus_navigation", "campus_navigation"),
              Rule(intent = "PRINCIPAL_PROFILE", "principal_profile"),
              Rule(intent = "VICE_PRINCIPAL_PROFILE", "vice_principal_profile"),
              Rule(r.surface # "none", r.surface),
              Rule(d.mode = "CARD", Surface(local, "none", intent)),
              Rule(TRUE, "none")>>)
Shown(u, local, d, r) == ShownFor(ReplyIntent(u, local, d, r), local, d, r)

\* Who speaks: a ready text, the cards, the language model, or nobody who knows.
Spoken(u, d, r) ==
    FirstOf(<<Rule(ShortCircuits(r), "template"),
              Rule(r.authority = "FAQ", "faq"),
              Rule(r.authority = "CARD_PRESENTATION", "cards"),
              Rule(IsMap(d), "place"),
              Rule(r.authority = "GROQ", "generated"),
              Rule(r.authority = "DETERMINISTIC" /\ Has(u, {"where", "location"}), "address"),
              Rule(TRUE, "unavailable")>>)
===============================================================================
