--------------------------- MODULE ConversationTurn ---------------------------
(***************************************************************************)
(* A conversation, turn by turn: what the session remembers of the turns   *)
(* before, how an utterance is completed by it, and what the turn leaves   *)
(* behind (conversation_orchestrator.py, pending_clarification.py,         *)
(* context_resolver.py, department_history.py and their caller in main.py).*)
(*                                                                         *)
(* A turn is a task that awaits: a language model is asked to propose a    *)
(* reading, a thinking sentence is sent, a reply is generated.  At every   *)
(* await it may be cancelled, because the visitor interrupts or because    *)
(* the session is reset; what it wrote into the session by then stays.     *)
(***************************************************************************)
EXTENDS Presentation

CONSTANTS Utterances,   \* what a visitor may say
          Proposals     \* what the language model may answer
ASSUME UtterancesAssumption == Utterances \subseteq Seq(STRING)
ASSUME ProposalsAssumption ==
    Proposals \subseteq {NoProposal} \cup
        [domain : STRING, hint : STRING, items : Seq([entity : STRING, topic : STRING]), target : STRING,
         confidence : {"HIGH", "MEDIUM", "LOW"}]

VARIABLES memory,       \* what the session keeps between turns
          turn,         \* the turn being taken, or NoTurn
          known,        \* departments this visit has spoken of
          last          \* the last turn decided, as the visitor saw it

vars == <<memory, turn, known, last>>

NoPending == [target |-> "none", topic |-> "none", original |-> <<>>]
NoActive == [entities |-> <<>>, topics |-> <<>>, person |-> NoItem]
Nothing == [pending |-> NoPending, departments |-> <<>>, person |-> NoItem, active |-> NoActive,
            gender |-> "none", ncc |-> FALSE, aboutMe |-> "none", named |-> <<>>]
NoTurn == [at |-> "none", said |-> <<>>, routed |-> <<>>, text |-> <<>>, follows |-> FALSE, local |-> NoLocal,
           decision |-> Decided("none", "none"), action |-> "none", request |-> NoRequest,
           resolution |-> NewResolution]
NothingAsked == [mode |-> "none", question |-> NoPending, about |-> {}]

-----------------------------------------------------------------------------
\* An utterance that leans on the turns before (resolve_contextual_query).

FollowUpCues == {"he", "tell me more", "what about", "what kind of jobs"}
HodCues == {"hod", "regional hod", "he", "hello", "where", "college overview"}
TopicCues == HodCues \cup {"documents", "admission documents", "duration", "faculty", "fees",
                           "what kind of jobs", "placements", "placement statistics"}
ShortReference == 5

\* How an entity is called in the text that is routed, and a person alone.
Label(entity) == IF entity = "placement" THEN "placements" ELSE entity
PersonWords(person) == IF person.entity = "leadership" THEN <<person.topic>> ELSE <<person.entity, person.topic>>

Contextual(u, m) ==
    LET entities == IF m.active.entities # <<>> THEN m.active.entities ELSE m.departments
        person == IF m.active.person # NoItem THEN m.active.person ELSE m.person
        follows == /\ entities # <<>> \/ person # NoItem \/ m.active.topics # <<>>
                   /\ Has(u, FollowUpCues) \/ (Len(u) <= ShortReference /\ Has(u, TopicCues))
        labels == [k \in DOMAIN entities |-> Label(entities[k])]
        headed == person # NoItem /\ Has(u, HodCues)
        referent == CASE headed /\ labels # <<>> -> <<"hod">> \o labels
                      [] headed /\ labels = <<>> -> PersonWords(person)
                      [] OTHER -> labels
        regarding == IF referent # <<>> THEN referent \o <<"svit">>
                     ELSE IF m.active.topics # <<>> THEN <<"svit">> \o m.active.topics ELSE <<>>
    IN  [routed |-> IF follows THEN u \o regarding ELSE u, follows |-> follows]

-----------------------------------------------------------------------------
\* An answer to a question CLARA asked (try_resolve_pending).

NewTopicCues == {"bus", "canteen", "hod", "hostel", "placement statistics", "placements", "principal",
                 "vice_principal"} \cup HostelEntities
DepartmentInformationSwitch == {"admission documents", "admissions", "bus", "canteen", "fees", "hostel", "ncc",
                                "placement statistics", "placements", "principal", "vice_principal"} \cup HostelEntities
HostelSwitch == {"admission documents", "admissions", "bus", "canteen", "fees", "hod", "placement statistics",
                 "placements", "principal", "vice_principal"}
BoysWords == {"boys", "hostel.boys"}
GirlsWords == {"girls", "hostel.girls"}

\* What becomes of the pending question, of the text, and of the local intent.
Answering(clear, text, local) == [clear |-> clear, text |-> text, local |-> local]
Clarified(trigger) == [NoLocal EXCEPT !.trigger = trigger, !.clarified = TRUE]

AdmissionsSlot(u) ==
    FirstOf(<<Rule(Has(u, {"documents", "admission documents"}), "documents"), Rule(Has(u, {"eligibility"}), "admissions"),
              Rule(Has(u, {"steps"}), "admissions"), Rule(Has(u, {"fees"}), "fees"),
              Rule(Has(u, {"dates"}), "admissions"), Rule(TRUE, "none")>>)
\* "Girls hostel", and what of the hostel the question was about.
HostelAsked(gender, original) ==
    LET asked == {"facilities", "mess", "safety", "food", "warden", "rooms"}
        topics == At(original, {k \in DOMAIN original : original[k] \in asked})
        shared == IF topics = <<>> THEN "none" ELSE IF topics[1] = "food" THEN "mess" ELSE topics[1]
    IN  <<HostelOf[gender]>> \o (IF shared \in {"none", "warden", "rooms"} THEN <<>> ELSE <<shared>>)

Answer2Hostel(u, pending) ==
    LET gender == CASE Has(u, BoysWords) -> "boys" [] Has(u, GirlsWords) /\ ~Has(u, BoysWords) -> "girls" [] OTHER -> "none"
    IN  IF gender # "none"
        THEN Answering(TRUE, HostelAsked(gender, pending.original), [Clarified("hostel") EXCEPT !.gender = gender])
        ELSE Answering(Has(u, HostelSwitch), u, NoLocal)
Answer2Department(u, pending) ==
    LET chosen(trigger) == [Clarified(trigger) EXCEPT !.department = pending.topic]
    IN  CASE Has(u, DepartmentInformationSwitch) -> Answering(TRUE, u, NoLocal)
          [] ~Has(u, DepartmentInformationSwitch) /\ Has(u, {"overview"})
               -> Answering(TRUE, <<"show", "overview", pending.topic>>, chosen("department_overview"))
          [] ~Has(u, DepartmentInformationSwitch \cup {"overview"}) /\ Has(u, ExplainCues)
               -> Answering(TRUE, <<"explain", pending.topic>>, chosen("department_explanation"))
          [] OTHER -> Answering(FALSE, u, NoLocal)

TryResolvePending(u, pending) ==
    CASE pending.target = "admissions_info" ->
           IF AdmissionsSlot(u) # "none" THEN Answering(TRUE, u, Clarified(AdmissionsSlot(u)))
           ELSE Answering(Has(u, NewTopicCues), u, NoLocal)
      [] pending.target = "hostel" -> Answer2Hostel(u, pending)
      [] pending.target = "department_information" -> Answer2Department(u, pending)
      [] pending.target = "none" -> Answering(FALSE, u, NoLocal)
      [] OTHER -> Answering(TRUE, u, NoLocal)

-----------------------------------------------------------------------------
\* What a decided turn leaves in the session (ConversationOrchestrator.run).

OrElse(new, old) == IF new # <<>> THEN new ELSE old
EntitiesIn(d) == {d.items[k].entity : k \in DOMAIN d.items}
HostelGender(d, local) ==
    LET hostels == At(d.items, {k \in DOMAIN d.items : d.items[k].entity \in HostelEntities})
    IN  CASE hostels # <<>> -> IF hostels[1].entity = HostelOf.boys THEN "boys" ELSE "girls"
          [] OTHER -> local.gender

\* update_active_svit_context.
ActiveContext(m, d, person) ==
    IF d.domain # "institution" THEN m.active
    ELSE [entities |-> OrElse(d.entities, m.active.entities),
          topics |-> OrElse(Once([k \in DOMAIN d.items |-> d.items[k].topic]), m.active.topics),
          person |-> IF person # NoItem THEN person ELSE m.active.person]

\* Mutant: a refusal leaves the question open.
SettlesAnswered(d) == d.mode \in {"CARD", "ANSWER"}
Settles(d) == d.mode \in {"CARD", "ANSWER", "FALLBACK"}
\* The hostel a later "and the mess?" is about.  Mutant: it outlives its topic.
StickyGenderForever(m, d, local) ==
    LET gender == HostelGender(d, local) IN IF d.mode = "CARD" /\ gender # "none" THEN gender ELSE m.gender
StickyGender(m, d, local) ==
    LET gender == HostelGender(d, local)
    IN  CASE d.mode = "CARD" /\ gender # "none" -> gender
          [] Settles(d) /\ EntitiesIn(d) \cap HostelEntities = {} /\ gender = "none" -> "none"
          [] OTHER -> m.gender
Remember(m, d, action, local, routed, text) ==
    LET shown == LastPerson([items |-> d.items])
        person == IF d.items = <<>> THEN m.person ELSE shown
        question == [target |-> d.target, topic |-> d.topic, original |-> routed]
    IN  [m EXCEPT
           !.departments = OrElse(d.entities, @),
           !.named = IF d.entities # <<>> THEN <<>> ELSE @,
           !.person = person,
           !.active = ActiveContext(m, d, person),
           !.pending = CASE d.mode = "CLARIFY" /\ d.target # "none" -> question
                         [] Settles(d) -> NoPending
                         [] OTHER -> @,
           !.gender = StickyGender(m, d, local),
           !.ncc = CASE d.mode \in {"CARD", "ANSWER"} /\ "ncc" \in EntitiesIn(d) -> TRUE
                     [] Settles(d) /\ "ncc" \notin EntitiesIn(d) -> FALSE
                     [] OTHER -> @,
           !.aboutMe = CASE action = "ABOUT_ME" -> AboutMeSection(text, @)
                         [] action # "ABOUT_ME" /\ Settles(d) -> "none"
                         [] OTHER -> @]

\* The departments of the last three completed turns are looked for only while
\* no turn has been decided on one (department_keys_from_history).
HistoryTurns == 3
\* Mutant: the history is not cut.
CompleteAll(m, said) ==
    LET all == Append(m.named, [k \in DOMAIN DepartmentSpans(said) |-> DepartmentSpans(said)[k].of])
    IN  IF m.departments # <<>> \/ FlattenSeq(all) = <<>> THEN m ELSE [m EXCEPT !.named = all]
Complete(m, said) ==
    LET all == Append(m.named, [k \in DOMAIN DepartmentSpans(said) |-> DepartmentSpans(said)[k].of])
    IN  IF m.departments # <<>> \/ FlattenSeq(all) = <<>> THEN m
        ELSE [m EXCEPT !.named = SubSeq(all, IF Len(all) > HistoryTurns THEN 2 ELSE 1, Len(all))]
LastDepartments(m) ==
    IF m.departments # <<>> THEN m.departments
    ELSE Once(FlattenSeq(m.named))

-----------------------------------------------------------------------------
Init == memory = Nothing /\ turn = NoTurn /\ known = {} /\ last = NothingAsked

\* A turn begins: the text is completed and the pending question looked at.  A
\* click brings its own card, and the answer to a question brings one as well.
Begin(u, clicked) ==
    LET context == Contextual(u, memory)
        answer == TryResolvePending(context.routed, memory.pending)
    IN  /\ turn = NoTurn
        /\ turn' = [NoTurn EXCEPT !.at = "heard", !.said = u, !.routed = context.routed, !.text = answer.text,
                                  !.follows = context.follows,
                                  !.local = IF clicked # NoLocal THEN clicked ELSE answer.local]
        /\ memory' = [memory EXCEPT !.pending = IF answer.clear THEN NoPending ELSE @]
        /\ known' = known \cup (ToSet(u) \cap Departments)
        /\ UNCHANGED last
Hear(u) == Begin(u, NoLocal)
Click(department) ==
    Begin(<<department>>, [NoLocal EXCEPT !.trigger = "department_click", !.department = department])

\* Too little was said, and the visitor is asked to repeat it.
AskToRepeat ==
    /\ turn.at = "heard" /\ turn.local = NoLocal /\ NeedsRetry(turn.text)
    /\ turn' = [turn EXCEPT !.at = "decided", !.action = "NO_SPEECH_RETRY",
                            !.resolution = SealUnlessCards(Silent("RETRY", TRUE))]
    /\ UNCHANGED <<memory, known, last>>

\* The language model has proposed, the turn is decided and remembered.
Context ==
    [departments |-> DepartmentsOf(LastDepartments(memory)), person |-> memory.person,
     gender |-> IF turn.local.gender # "none" THEN turn.local.gender ELSE memory.gender, ncc |-> memory.ncc]
IsFaq(u) == u = <<"faq">>
FactsOf(u, local, request, intent) ==
    {[request |-> request, faq |-> IsFaq(u), local |-> local, followUp |-> turn.follows, intent |-> intent,
      proposal |-> ValidatedProposal(u, request, local # NoLocal, IsFaq(u), p), context |-> LastDepartments(memory)] :
        p \in Proposals}
Facts == FactsOf(turn.text, turn.local, Parse(turn.text, Context),
                 IF turn.local # NoLocal \/ IsFaq(turn.text) THEN "NORMAL_QUERY" ELSE Intent(turn.text))
DecideAs(t, d, action) ==
    /\ turn' = [turn EXCEPT !.at = "decided", !.decision = d, !.action = action, !.request = t.request,
                            !.resolution = SealUnlessCards(ResolvePresentation(turn.text, t, d, action))]
    /\ memory' = Remember(memory, d, action, turn.local, turn.routed, turn.text)
    /\ known' = known \cup {t.proposal.items[k].entity : k \in DOMAIN t.proposal.items}
Decide ==
    /\ turn.at = "heard" /\ ~(turn.local = NoLocal /\ NeedsRetry(turn.text))
    /\ \E t \in Facts : \E d \in {Resolve(turn.text, t)} :
          DecideAs(t, d, RoutePolicy(turn.text, t, d, memory.aboutMe))
    /\ UNCHANGED last

\* The cards of a turn that waits for them.
AttachNarration(fault) ==
    /\ turn.at = "decided" /\ AwaitsCards(turn.resolution) /\ ~turn.resolution.sealed
    /\ turn' = [turn EXCEPT !.at = "attached",
                            !.resolution = Attach(turn.resolution, turn.request, turn.decision, fault)]
    /\ UNCHANGED <<memory, known, last>>

\* The turn ends; what it was about, for the properties.
Settled ==
    IF turn.at = "heard" \/ turn.action = "NO_SPEECH_RETRY" THEN last
    ELSE [mode |-> turn.decision.mode,
          question |-> IF turn.decision.mode = "CLARIFY" THEN memory.pending ELSE NoPending,
          about |-> (IF turn.action = "ABOUT_ME" THEN {"me"} ELSE {})
                    \cup (IF Settles(turn.decision)
                          THEN EntitiesIn(turn.decision)
                               \cup (IF turn.local.gender = "none" THEN {} ELSE {HostelOf[turn.local.gender]})
                          ELSE last.about)]
Ready == turn.at = "attached" \/ (turn.at = "decided" /\ turn.resolution.sealed)
Finish ==
    /\ Ready
    /\ memory' = Complete(memory, turn.said)
    /\ turn' = NoTurn /\ last' = Settled
    /\ UNCHANGED known

\* The orchestrator raises: a fixed sentence answers the turn.
Fail ==
    /\ turn.at \in {"heard", "decided"}
    /\ memory' = Complete(memory, turn.said)
    /\ turn' = NoTurn /\ last' = Settled
    /\ UNCHANGED known

\* The turn is cancelled at an await, or fails on its way out.
Interrupt ==
    /\ turn # NoTurn
    /\ turn' = NoTurn /\ last' = Settled
    /\ UNCHANGED <<memory, known>>

\* The kiosk returns to its start screen (reset_session, home).
\* Mutant: the active context is not forgotten.
ForgottenButContext(m) == [Nothing EXCEPT !.person = m.person, !.aboutMe = m.aboutMe, !.active = m.active]
Forgotten(m) == [Nothing EXCEPT !.person = m.person, !.aboutMe = m.aboutMe]
Reset ==
    /\ memory' = Forgotten(memory)
    /\ turn' = NoTurn
    /\ last' = [NothingAsked EXCEPT !.about = IF memory.aboutMe # "none" THEN {"me"} ELSE {}]
    /\ known' = {memory.person.entity} \cap Departments

Next ==
    \/ \E u \in Utterances : Hear(u)
    \/ \E department \in Departments : Click(department)
    \/ AskToRepeat
    \/ Decide
    \/ \E fault \in Faults : AttachNarration(fault)
    \/ Finish \/ Fail \/ Interrupt \/ Reset
Spec == Init /\ [][Next]_vars

-----------------------------------------------------------------------------
\* Properties.

TypeOK ==
    /\ turn.at \in {"none", "heard", "decided", "attached"}
    /\ turn.resolution.mode \in Modes /\ turn.resolution.authority \in Authorities \cup {"none"}
    /\ turn.decision.mode \in {"none", "CARD", "ANSWER", "CLARIFY", "FALLBACK"}
    /\ \A k \in DOMAIN turn.resolution.bundle :
         turn.resolution.bundle[k] \in Registered \/ turn.resolution.bundle[k][1] \in {"prompt", "legacy"}
    /\ memory.gender \in {"none", "boys", "girls"} /\ memory.ncc \in BOOLEAN /\ memory.aboutMe \in AboutMeSections \cup {"none"}
    /\ ToSet(memory.departments) \subseteq Departments \cup CampusEntities \cup {"placement"}
    /\ Len(memory.named) <= HistoryTurns

\* The departments a turn is about or shows, and those the session remembers for
\* later turns, were said, clicked or proposed since the session began, or are
\* what the reset left behind: a follow-up is never completed by another
\* visitor's, whether it reaches the cards as a decision, as the answer to a
\* question or as a click.
Remembered ==
    UNION {ToSet(memory.departments), ToSet(memory.active.entities), ToSet(FlattenSeq(memory.named)),
           {memory.person.entity, memory.active.person.entity}}
Narrated == {turn.resolution.bundle[k][1] : k \in DOMAIN turn.resolution.bundle}
DepartmentsOfThisVisit ==
    (ToSet(turn.decision.entities) \cup Narrated \cup Remembered) \cap Departments \subseteq known

\* A clarification is open only while the turn before was the question: it is
\* withdrawn by whatever is decided next, and a turn that was cancelled or only
\* asked to repeat leaves it or withdraws it, and never revives an older one.
PendingIsTheLastQuestion ==
    turn.at \in {"none", "heard"} /\ memory.pending # NoPending =>
        last.mode = "CLARIFY" /\ last.question = memory.pending

\* A hostel or the cadet corps is decided on without being named only right
\* after a turn about it, and CLARA speaks of herself without being asked to
\* only while the turn before did, or the reset left her at it.
StickyEndsWithItsTopic ==
    /\ \A e \in EntitiesIn(turn.decision) \cap (HostelEntities \cup {"ncc"}) :
          Has(turn.text, {e}) \/ e \in last.about
    /\ turn.action = "ABOUT_ME" =>
          Has(turn.text, SelfAnchors \cup CreatorNames \cup GuideWords) \/ "me" \in last.about

\* One speaker: when the turn may end, the cards are narrated exactly if the
\* cards have the authority, a reply is generated exactly if the language
\* model has it, and nobody is asked to do both.  The exception is a turn
\* whose cards raised: nobody owns it.
OneOwner ==
    LET r == turn.resolution
    IN  Ready =>
          /\ (r.bundle # <<>>) = (r.authority = "CARD_PRESENTATION")
          /\ r.sealed => /\ r.generate = (r.authority = "CARD_PRESENTATION")
                         /\ r.groq = (r.authority = "GROQ")
                         /\ (r.rag => r.groq)

\* Somebody answers: the visitor hears that there is no answer only if the
\* cards raised, or for a way to somewhere that names no place.
SomebodyAnswers ==
    Ready /\ turn.resolution.sealed /\ ~Has(turn.text, {"directions"}) =>
        Spoken(turn.text, turn.decision, turn.resolution) # "unavailable"

\* A card is shown only in a turn that was decided to have one, or about CLARA
\* herself: main.py works its own intent out of the same words, and what it
\* finds there opens nothing in a turn that was decided otherwise.
ShownWasDecided ==
    Ready /\ turn.decision.mode # "CARD" /\ turn.action # "ABOUT_ME" =>
        Shown(turn.text, turn.local, turn.decision, turn.resolution) = "none"

\* clear_session_conversation_memory (session_state.py:17) promises to "clear all
\* connection-local conversational metadata on a genuine reset", the person
\* shown last by name: before the first decision of a visit, "who is he" means
\* nobody.
NewVisitorIsUnknown == last.mode = "none" /\ turn = NoTurn => memory.person = NoItem
===============================================================================
