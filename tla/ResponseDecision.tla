-------------------------- MODULE ResponseDecision --------------------------
(***************************************************************************)
(* What kind of answer a turn gets: a card, a spoken answer, a question    *)
(* back, or a refusal.  resolve_response_decision asks its questions in a  *)
(* fixed order and the first that applies decides; here the order is a     *)
(* table of rules.  route_policy then turns the decision into an action,   *)
(* after the things a conversation is polite about.                        *)
(*                                                                         *)
(* A language model may propose how to read the utterance.  A proposal is  *)
(* an input like any other, checked before it is looked at.                *)
(***************************************************************************)
EXTENDS ContentUnits, IntentFeatures, AboutMe

-----------------------------------------------------------------------------
\* Words beyond those of the cards.

UnsafeWords == {"weapon"}
OffTopicWords == {"cricket"}
IrrelevantWords == {"asdf"}
PaymentWords == {"payment scanner"}
ContactWords == {"mobile number"}
RoleWords == {"principal", "vice_principal", "trustees", "hod", "faculty", "dean_academics"}
ApprovalWords == {"approve my attendance"}
OtherColleges == {"iit"}
CollegeNames == {"svit", "college", "college overview", "location"}
ReceptionistWords == {"who should i meet"}
QualitativeWords == {"how good"}
AdviceWords == {"study tips"}
AdmissionsSlots == {"fees", "documents", "eligibility", "steps", "dates", "admission documents"}
EnquiryOpeners == {"tell me more", "what kind of jobs"}
StrongExplanation == {"what do students learn"}
StrongOverview == {"full department"}
\* The lexicon of the college, and the words of everyday campus life beside it.
InstitutionLexicon ==
    {"svit", "college", "college overview", "location", "hod", "fees", "bus", "hostel", "canteen", "ncc", "events",
     "food", "mess", "facilities", "principal", "vice_principal", "trustees", "dean_academics", "admissions",
     "admission documents", "eligibility", "recruiters", "placements", "placement statistics", "faculty",
     "achievements", "courses", "which courses", "lab", "classroom", "library", "directions",
     "approve my attendance", "what do students learn", "full department"} \cup HostelEntities
InstitutionCues == {"svit", "faculty", "library", "lab", "hostel", "placements", "college"}
AcademicWords == Departments

\* detect_domain_relevance.
Relevance(u) == CASE Has(u, UnsafeWords) -> "off_domain"
                  [] ~Has(u, UnsafeWords) /\ Has(u, InstitutionLexicon \cup InstitutionCues) -> "institution"
                  [] OTHER -> "unknown"
ExternalComparison(u) == Has(u, ComparisonCues) /\ Has(u, OtherColleges)
Restricted(u) == (Has(u, ContactWords) /\ Has(u, RoleWords)) \/ Has(u, PaymentWords)
Controlled(u) == Has(u, ContactWords \cup PaymentWords \cup ApprovalWords)
OutOfScope(u) == Has(u, OffTopicWords \cup IrrelevantWords) /\ ~Has(u, CollegeNames)
\* A question about a subject, not about the college that teaches it.
GeneralDefinition(u) ==
    Has(u, ExplainCues) /\ Has(u, AcademicWords) /\ AtomicFound(u) \cap {"hod", "fees", "faculty"} = {}
CollegeGeneral(u) ==
    /\ "svit" \notin ToSet(u)
    /\ Has(u, AdviceWords) \/ GeneralDefinition(u) \/ (Has(u, AcademicWords) /\ Has(u, ComparisonCues))

NonUnitCardIntents ==
    {"ADMISSIONS", "BUS_ROUTES", "CAMPUS_NAVIGATION", "COLLEGE_OVERVIEW", "COURSE_MENU", "DEPARTMENT_COMPARISON",
     "DOCUMENTS", "PLACEMENTS", "PRINCIPAL_PROFILE", "TRUSTEES_PROFILE", "HOD_TRUSTEES_PROFILE",
     "VICE_PRINCIPAL_PROFILE"}
CollegeWideCardIntents == {"PLACEMENTS", "COLLEGE_OVERVIEW"}
DepartmentCardIntents == {"DEPARTMENT_FEES", "DEPARTMENT_OVERVIEW", "HOD_PROFILE"}
CollegeWideTopics == {"placements", "achievements", "faculty", "contact"}

-----------------------------------------------------------------------------
\* What a language model may propose, and what of it is believed.

NoProposal == [domain |-> "none", hint |-> "none", items |-> <<>>, target |-> "none", confidence |-> "none"]
AtomicCardTopics == {"hod", "faculty", "fees", "achievements", "placements", "location", "principal",
                     "vice_principal", "trustees", "explanation"}
CanonicalTopics == {"overview", "hod", "faculty", "fees", "achievements", "placements", "location"}
ClarifyTargets == {"department", "topic", "pairing", "none"}
AnyAtomic(items) == \E k \in DOMAIN items : items[k].topic \in AtomicCardTopics

\* skip_semantic_router_reason: when the model is not asked at all.
ProposalSkipped(u, request, clicked, faq) ==
    clicked \/ faq \/ Has(u, UnsafeWords) \/ ExternalComparison(u) \/ AnyAtomic(request.items)

\* validate_semantic_proposal: believed whole, or not at all.
Believable(u, p) ==
    LET named == ToSet(u) \cap Departments
    IN  /\ p # NoProposal /\ p.confidence # "LOW"
        /\ \A k \in DOMAIN p.items : /\ p.items[k].entity \in Departments
                                     /\ p.items[k].topic \in CanonicalTopics
                                     /\ named # {} => p.items[k].entity \in named
        /\ p.target \in ClarifyTargets
        /\ p.hint = "CARD" => p.items # <<>>
ValidatedProposal(u, request, clicked, faq, p) ==
    IF Believable(u, p) /\ ~ProposalSkipped(u, request, clicked, faq) THEN p ELSE NoProposal

-----------------------------------------------------------------------------
\* A local intent is a card that was clicked, or the answer to a question CLARA
\* asked ("clarified").
NoLocal == [trigger |-> "none", department |-> "none", gender |-> "none", clarified |-> FALSE]

Decided(mode, why) ==
    [mode |-> mode, why |-> why, items |-> <<>>, entities |-> <<>>, scope |-> "single",
     target |-> "none", topic |-> "none", domain |-> "institution"]
Card(why) == Decided("CARD", why)
Answer(why) == Decided("ANSWER", why)
Refuse(why) == [Decided("FALLBACK", why) EXCEPT !.domain = "off_domain"]
RefuseKindly(why) == Decided("FALLBACK", why)
Clarify(target, why) == [Decided("CLARIFY", why) EXCEPT !.target = target]
\* A decision that carries the request it was taken on.
About(d, request) == [d EXCEPT !.items = request.items, !.entities = EntitiesOf(request), !.scope = request.scope]

ClickDecision(local) ==
    LET one(topic) == <<Item(local.department, topic)>>
        chosen(topic, scope, why) ==
            [Card(why) EXCEPT !.items = one(topic), !.entities = <<local.department>>,
                              !.scope = scope, !.topic = topic]
    IN  CASE local.clarified /\ local.trigger = "department_explanation"
               -> chosen("explanation", "single", "clarification_department_explanation")
          [] local.clarified /\ local.trigger = "department_overview"
               -> chosen("overview", "full_department", "clarification_department_overview")
          [] OTHER -> Card("local_intent")

PlaceDecision(place) ==
    Card(CASE place.status = "resolved" -> "campus_navigation"
           [] place.status = "ambiguous" -> "campus_navigation_ambiguous"
           [] OTHER -> "campus_destination_unknown")

\* "Tell me about CSE": the deck, or what it is to study it?
AmbiguousDepartmentInformation(u, request) ==
    LET items == request.items
    IN  /\ items # <<>> /\ request.scope = "full_department" /\ ~Has(u, StrongExplanation \cup StrongOverview)
        /\ TopicsOf(request) \cap {"hod", "fees", "placements", "achievements", "faculty", "contact",
                                   "explanation"} = {}
        /\ \A k \in DOMAIN items : items[k].entity \in Departments
AmbiguousAdmissions(u, request) ==
    /\ ~Has(u, AdmissionsSlots)
    /\ TopicsOf(request) = {"admissions"} \/ Has(u, AdmissionsWords)
OnlyEnrollment(items) == items # <<>> /\ \A k \in DOMAIN items : items[k] = Item("ncc", "enrollment")

\* Units that are shown for themselves, whatever else the sentence says.
Selectable(request) ==
    \E k \in DOMAIN request.items :
        request.items[k].entity \in CampusEntities \cup {"placement", "college"}

-----------------------------------------------------------------------------
\* The rules of resolve_response_decision, in the order of its comments.  t is
\* what the turn knows of the utterance: the request parsed from it, its intent,
\* whether it is a question of the FAQ, the click or clarified answer, the
\* believed proposal, whether it follows up an earlier turn, and the departments
\* that turn was about.

RefusalRules(u, t) ==
    <<Rule(Restricted(u), RefuseKindly("restricted_action")),
      Rule(Controlled(u), RefuseKindly("controlled_redirect")),
      Rule(Relevance(u) = "off_domain", Refuse("off_domain_lexicon")),
      Rule(ExternalComparison(u), Refuse("external_college_comparison"))>>

PlaceRule(place) == Rule(place.status # "not_navigation", PlaceDecision(place))
PlaceRules(u, t) ==
    LET context == IF t.context # <<>> THEN t.context ELSE EntitiesOf(t.request)
    IN  <<PlaceRule(ResolveCampusNavigation(u, context))>>

GeneralRules(u, t) ==
    <<Rule(CollegeGeneral(u) /\ "explanation" \notin TopicsOf(t.request),
           [Answer("college_general") EXCEPT !.domain = "unknown"]),
      Rule(OutOfScope(u), Refuse("out_of_scope")),
      Rule(Has(u, ReceptionistWords), Answer("receptionist_request"))>>

\* A follow-up is told, not shown; so is how good somebody teaches.
FollowUpRules(u, t) ==
    LET topics == TopicsOf(t.request)
        enquiry == \/ topics \cap {"hod", "placements"} # {} \/ t.intent = "DOCUMENTS"
                   \/ Has(u, {"documents", "duration"}) \/ (u # <<>> /\ u[1] \in EnquiryOpeners)
    IN  <<Rule(t.followUp /\ enquiry,
               [Answer("contextual_svit_follow_up") EXCEPT !.entities = EntitiesOf(t.request)]),
          Rule(topics = {"faculty"} /\ Has(u, QualitativeWords), Answer("qualitative_institution_question"))>>

NeedsDepartment(u, t) ==
    LET atomic == AtomicFound(u)
    IN  /\ t.request.items = <<>> /\ ~NamesDepartment(u)
        /\ "hod" \in atomic \/ ("fees" \in atomic /\ ~Has(u, AdmissionsWords))
Proposed(p) ==
    [Card("validated_proposal_card") EXCEPT
       !.items = p.items, !.entities = Once([k \in DOMAIN p.items |-> p.items[k].entity])]
ProposalRules(u, t) ==
    LET request == t.request
        bound == request.items # <<>>
        p == t.proposal
    IN  <<Rule(/\ p.domain = "institution" /\ p.hint = "ANSWER" /\ ~NeedsDepartment(u, t)
               /\ ~AnyAtomic(request.items \o p.items) /\ ~Selectable(request)
               /\ t.intent \notin NonUnitCardIntents, Answer("validated_proposal_answer")),
          Rule(p.hint = "CARD" /\ p.items # <<>> /\ ~bound /\ ~NeedsDepartment(u, t), Proposed(p)),
          Rule(/\ bound /\ ~Selectable(request) /\ ~AnyAtomic(request.items)
               /\ request.scope # "full_department" /\ Relevance(u) = "institution"
               /\ ~Has(u, FullScopeCues) /\ p.hint # "CARD", Answer("entity_mention_in_answer"))>>

\* A bound request is shown, unless it is worth a question first.
WhichInformation(request) ==
    [Clarify("department_information", "ambiguous_dept_info_request") EXCEPT
       !.topic = IF request.items = <<>> THEN "none" ELSE request.items[1].entity, !.entities = EntitiesOf(request)]
WhichAdmissions(why) == [Clarify("admissions_info", why) EXCEPT !.topic = "admissions"]
RequestRules(u, t) ==
    LET request == t.request
        bound == request.items # <<>>
    IN  <<Rule(bound /\ AmbiguousDepartmentInformation(u, request), WhichInformation(request)),
          Rule(bound /\ AmbiguousAdmissions(u, request), WhichAdmissions("admissions_topic_without_slot")),
          Rule(OnlyEnrollment(request.items), About(Answer("ncc_enrollment_guidance"), request)),
          Rule(bound, About(Card("semantic_request"), request))>>

\* Nothing could be bound.  A card of one department needs to know which.
DepartmentRules(u, t) ==
    LET named == NamesDepartment(u)
        atomic == AtomicFound(u)
        intent == ProfileIntent(u, t.intent)
    IN  <<Rule(t.faq, Answer("faq")),
          Rule("hod" \in atomic /\ ~named, Clarify("department", "hod_topic_without_department")),
          Rule(intent \in DepartmentCardIntents /\ ~named, Clarify("department", "department_card_without_entity")),
          Rule("fees" \in atomic /\ ~named /\ ~Has(u, AdmissionsWords),
               Clarify("department", "topic_cue_without_entity"))>>

\* The cards of the older kind, by the intent.
IntentRules(u, t) ==
    LET intent == ProfileIntent(u, t.intent)
    IN  <<Rule(Has(u, AdmissionsWords) /\ intent = "ADMISSIONS" /\ ~Has(u, AdmissionsSlots),
               WhichAdmissions("explicit_admissions_cue_needs_slot")),
          Rule(Has(u, AdmissionsWords) /\ intent = "ADMISSIONS", Card("explicit_admissions_cue")),
          Rule(intent \in CollegeWideCardIntents /\ ~NamesDepartment(u), Answer("college_wide_non_card")),
          Rule(intent \in NonUnitCardIntents, Card("non_unit_card_intent")),
          Rule(intent \in DepartmentCardIntents, Clarify("department", "department_card_unresolved"))>>

\* What is left is a word of the college, or none of its business.
DomainRules(u, t) ==
    LET atomic == AtomicFound(u)
        p == t.proposal
        topical == TopicSpans(u) # <<>> /\ ~NamesDepartment(u)
        collegeWide == Relevance(u) = "institution" /\ atomic # {} /\ atomic \subseteq CollegeWideTopics
    IN  <<Rule(topical /\ collegeWide, Answer("college_wide_topic_answer")),
          Rule(topical, Clarify("department", "topic_cue_without_entity")),
          Rule(BareHostelRequest(u), Clarify("hostel", "bare_hostel_without_gender")),
          Rule(Relevance(u) = "institution", Answer("institution_lexicon")),
          Rule(p.domain = "institution" /\ p.hint = "CLARIFY", Clarify(p.target, "validated_proposal_clarify")),
          Rule(p.domain = "institution", Answer("validated_proposal_institution")),
          Rule(TRUE, Refuse("out_of_scope_default"))>>

\* resolve_response_decision.
Resolve(u, t) ==
    IF t.local # NoLocal THEN ClickDecision(t.local)
    ELSE FirstOf(RefusalRules(u, t) \o PlaceRules(u, t) \o GeneralRules(u, t) \o FollowUpRules(u, t)
                 \o ProposalRules(u, t) \o RequestRules(u, t)
                 \o DepartmentRules(u, t) \o IntentRules(u, t) \o DomainRules(u, t))

-----------------------------------------------------------------------------
\* What is done about an utterance before, and instead of, its decision.

\* One of these alone is too little to be speech.
ShortWords == Departments \cup {"hod", "it", "ncc", "placement head", "iit", "lab", "noise"}
NeedsRetry(u) == Len(u) = 0 \/ (Len(u) = 1 /\ u[1] \in ShortWords)
\* Thanks said first belong to what follows; said last, they are all that is heard.
ThanksOnly(u) == u = <<"thanks">>
Social(u) == Has(u, {"okay"}) \/ (Has(u, {"thanks"}) /\ u[1] # "thanks")

\* route_policy; "last" is the section about CLARA opened last.
RoutePolicy(u, t, d, last) ==
    FirstOf(<<Rule(t.local # NoLocal, "CARD_PRESENTATION"),
              Rule(ThanksOnly(u), "THANKS_CLOSING"),
              Rule(u = <<"my name is">>, "ENTITY_UPDATE"),
              Rule(u = <<"hello">>, "GREETING"),
              Rule(AboutMeSection(u, last) # "none", "ABOUT_ME"),
              Rule(Social(u), "SMALL_TALK"),
              Rule(t.faq, "DIRECT_RESPONSE"),
              Rule(TRUE, [CARD |-> "CARD_PRESENTATION", ANSWER |-> "ANSWER", CLARIFY |-> "ASK_CLARIFICATION",
                          FALLBACK |-> "UNKNOWN"][d.mode])>>)
=============================================================================
