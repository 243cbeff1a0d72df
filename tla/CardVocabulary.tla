--------------------------- MODULE CardVocabulary ---------------------------
(***************************************************************************)
(* The words the deterministic understanding of a question tells apart     *)
(* (src/backend/services/content).  The code looks for thousands of        *)
(* spellings, in six languages, in the text of a turn; which spelling was  *)
(* found is never used, only which table it came from and where it stands. *)
(* So an utterance is a sequence of words, a word is the name of the table *)
(* that one of its spellings belongs to, and a table of spellings is the   *)
(* word it stands for.  A word may belong to several tables, as            *)
(* "placements" does.                                                      *)
(***************************************************************************)
EXTENDS Integers, Sequences, FiniteSets, SequencesExt

CONSTANT Departments      \* the keys of the departments of the college

\* What can be asked about one department, department cards apart.
AtomicTopics == {"hod", "fees", "placements", "achievements", "faculty", "contact", "explanation"}
PairableTopics == AtomicTopics \cup {"overview"}
\* Placement statistics are spelt with the word for placements in them.
TopicOf(word) == IF word = "placement statistics" THEN "placements" ELSE word
TopicWords == PairableTopics \cup {"placement statistics"}

\* "explain", "what is": an explanation is asked for, at no position a
\* department could be bound to; "head yaaru": the normalised text names the
\* head of department, the raw text does not.
ExplainCues == {"explain"}
RegionalHod == {"regional hod"}
ComparisonCues == {"compare"}
FullScopeCues == {"tell me about", "tell me more", "full department"}
UnsupportedCues == {"bus", "documents", "admission documents"}
ShowCues == {"show", "regional show"}
RegionalShow == {"regional show"}

\* Words that point back at an earlier turn, or carry it on.
Anaphora == {"it"}
PersonAnaphora == {"he"}
FollowUpJoiners == {"also"}
ContextualCues == {"what about", "tell me more"}

\* Units of the campus and what can be asked of them.
HostelOf == [girls |-> "hostel.girls", boys |-> "hostel.boys"]
HostelEntities == {HostelOf.girls, HostelOf.boys}
EventDeck == <<"events.sanchalana", "events.techvidya", "events.sangama", "events.vignotsava",
               "events.project_expo">>
EventEntities == ToSet(EventDeck)
FestWords == {"events"}
CanteenWords == {"canteen"}
NccWords == {"ncc"}
CampusEntities == HostelEntities \cup CanteenWords \cup NccWords \cup FestWords \cup EventEntities
BareHostel == {"hostel"}
HostelTopics == {"overview", "warden", "rooms", "facilities", "mess", "safety"}
HostelSharedTopics == {"facilities", "mess", "safety"}
CanteenTopics == {"overview", "food_quality", "hygiene", "variety", "pricing", "timings", "safety"}
NccTopics == {"overview", "leadership", "training", "benefits", "enrollment"}
CampusTopicWords == {"facilities", "mess", "food", "rooms", "warden", "safety", "training", "leadership", "benefits",
                     "enrollment", "food_quality", "hygiene", "variety", "pricing", "timings"}

\* The people who lead the college.
DeanTopics == <<"dean_academics", "dean_administration", "dean_student_affairs",
                "associate_dean_rnd", "dean_innovation">>
LeadershipTopics == {"principal", "vice_principal", "trustees", "deans"} \cup ToSet(DeanTopics)

\* Questions about the college as a whole.  "placements" opens the placement
\* deck, the other placement words one card of it.
GlobalTopics == {"location", "placements", "admissions"}
PlacementHead == {"placement head"}
PlacementCompanies == {"recruiters"}
PlacementAnalytics == {"placement statistics"}
PlacementIntro == {"placements"}
PlacementTopics == {"introduction", "head", "companies", "analytics"}

\* What may be asked of anything, and every name but a department's that may
\* stand where a department's can.  The keys of the departments are none of them.
Topics == PairableTopics \cup CampusTopicWords \cup PlacementTopics \cup LeadershipTopics \cup GlobalTopics
OtherNames ==
    Topics \cup CampusEntities \cup BareHostel
    \cup {"none", "placement", "leadership", "college", "department_explanation", "prompt", "legacy",
          "svit", "show", "explain"}
ASSUME DepartmentsAssumption == Departments \subseteq STRING \ OtherNames

-----------------------------------------------------------------------------
\* The first rule whose guard holds; the last rule of a table always does.
FirstOf(rules) ==
    rules[CHOOSE i \in DOMAIN rules : rules[i].when /\ \A j \in 1 .. i - 1 : ~rules[j].when].then
Rule(when, then) == [when |-> when, then |-> then]

\* Positions.  A span is what was found and where, counted from 0 as the code
\* counts; a word is one place wide, so distances are numbers of words.
Span(of, at) == [of |-> of, at |-> at]
\* The elements of s at some of its places, in their order.
At(s, places) ==
    LET upTo[k \in 0 .. Len(s)] ==
            IF k = 0 THEN <<>> ELSE IF k \in places THEN Append(upTo[k - 1], s[k]) ELSE upTo[k - 1]
    IN  upTo[Len(s)]

Has(u, words) == \E i \in DOMAIN u : u[i] \in words
AllSpans(u, words) == At([i \in DOMAIN u |-> Span(u[i], i - 1)], {i \in DOMAIN u : u[i] \in words})

\* s without what it repeats.
Once(s) == At(s, {i \in DOMAIN s : \A j \in 1 .. i - 1 : s[j] # s[i]})

\* The first span of each kind: a second mention of it is consumed.
FirstSpans(u, words) ==
    LET all == AllSpans(u, words)
    IN  At(all, {k \in DOMAIN all : \A j \in DOMAIN all : all[j].of = all[k].of => all[k].at <= all[j].at})
Named(spans) == {spans[k].of : k \in DOMAIN spans}
Distance(a, b) == IF a.at <= b.at THEN b.at - a.at ELSE a.at - b.at
=============================================================================
