------------------------ MODULE ConversationTurn_proofs ------------------------
(***************************************************************************)
(* What holds of a conversation whatever is said, whatever the language    *)
(* model proposes and whatever the departments are called.  Every turn is  *)
(* decided (Resolved), every decided turn has one speaker, every sealed    *)
(* turn is answered, an open question is the last one asked, and no card   *)
(* is shown that was not decided on.  These follow from IInv, the shape of *)
(* a resolution on its way.  What a turn is about follows from OfThisVisit *)
(* and Sticky: the parser finds only what was said or is remembered, a     *)
(* decision draws only on what was found or proposed, and what is          *)
(* remembered of it is what it was about.                                  *)
(***************************************************************************)
EXTENDS ConversationTurn, TLAPS, WellFoundedInduction, SequenceTheorems,
        FiniteSetTheorems

\* A set of numbers that holds somebody holds a least one.
LEMMA LeastOf ==
    ASSUME NEW S \in SUBSET Nat, S # {}
    PROVE  \E i \in S : \A j \in S : i <= j
<1> DEFINE Less == OpToRel(<, Nat)
<1>1. IsWellFoundedOn(Less, Nat)
  BY NatLessThanWellFounded, Zenon
<1>2. \A i, j \in Nat : i < j => <<i, j>> \in Less
  BY Zenon DEF OpToRel
<1> HIDE DEF Less
<1>3. PICK i \in S : \A j \in S : <<j, i>> \notin Less
  BY <1>1, WFMin
<1>4. \A j \in S : ~(j < i)
  BY <1>2, <1>3
<1> QED
  BY <1>3, <1>4

\* What a table of rules gives is the value of its first rule that holds.
LEMMA FirstRule ==
    ASSUME NEW rules, NEW n \in Nat \ {0}, DOMAIN rules = 1 .. n, rules[n].when
    PROVE  \E i \in 1 .. n : /\ rules[i].when /\ \A j \in 1 .. i - 1 : ~rules[j].when
                             /\ FirstOf(rules) = rules[i].then
<1> DEFINE held == {i \in 1 .. n : rules[i].when}
<1>1. held # {} /\ held \in SUBSET Nat
  OBVIOUS
<1>2. PICK i \in held : \A j \in held : i <= j
  BY <1>1, LeastOf
<1>3. \A j \in 1 .. i - 1 : ~rules[j].when
  BY <1>2
<1> QED
  BY <1>2, <1>3 DEF FirstOf

\* A table of rules whose values are decisions, of which only a card is a map.
DecisionModes == {"CARD", "ANSWER", "CLARIFY", "FALLBACK"}
Fair(d) == d.mode \in DecisionModes /\ (d.why \in NavigationEvidence => d.mode = "CARD")
Decides(rules) ==
    \E X : rules \in Seq(X) /\ \A x \in X : Fair(x.then)

LEMMA DecidesBoth ==
    ASSUME NEW a, NEW b, Decides(a), Decides(b)
    PROVE  Decides(a \o b)
<1>1. PICK X : a \in Seq(X) /\ \A x \in X : Fair(x.then)
  BY DEF Decides
<1>2. PICK Y : b \in Seq(Y) /\ \A y \in Y : Fair(y.then)
  BY DEF Decides
<1>3. a \o b \in Seq(X \cup Y)
  BY <1>1, <1>2
<1> QED
  BY <1>1, <1>2, <1>3 DEF Decides

DecisionFields == {"mode", "why", "items", "entities", "scope", "target", "topic", "domain"}

LEMMA PlainDecisions ==
    ASSUME NEW why, NEW target
    PROVE  /\ DOMAIN Card(why) = DecisionFields /\ Card(why).mode = "CARD"
           /\ DOMAIN Answer(why) = DecisionFields /\ Answer(why).mode = "ANSWER" /\ Answer(why).why = why
           /\ DOMAIN Clarify(target, why) = DecisionFields /\ Clarify(target, why).mode = "CLARIFY"
           /\ Fair(Card(why))
           /\ why \notin NavigationEvidence
                => Fair(Answer(why)) /\ Fair(RefuseKindly(why)) /\ Fair(Refuse(why)) /\ Fair(Clarify(target, why))
           /\ Clarify(target, why).why = why
<1>1. \A mode : /\ DOMAIN Decided(mode, why) = DecisionFields
                /\ Decided(mode, why).mode = mode /\ Decided(mode, why).why = why
  BY DEF Decided, DecisionFields
<1>2. DOMAIN Card(why) = DecisionFields /\ Card(why).mode = "CARD"
  BY <1>1 DEF Card
<1>3. DOMAIN Answer(why) = DecisionFields /\ Answer(why).mode = "ANSWER" /\ Answer(why).why = why
  BY <1>1 DEF Answer
<1>4. RefuseKindly(why).mode = "FALLBACK" /\ RefuseKindly(why).why = why
  BY <1>1 DEF RefuseKindly
<1>5. Refuse(why).mode = "FALLBACK" /\ Refuse(why).why = why
  BY <1>1 DEF Refuse, DecisionFields
<1>6. /\ DOMAIN Clarify(target, why) = DecisionFields /\ Clarify(target, why).mode = "CLARIFY"
      /\ Clarify(target, why).why = why
  BY <1>1 DEF Clarify, DecisionFields
<1>7. Fair(Card(why))
  BY <1>2 DEF Fair, DecisionModes
<1>8. why \notin NavigationEvidence
        => Fair(Answer(why)) /\ Fair(RefuseKindly(why)) /\ Fair(Refuse(why)) /\ Fair(Clarify(target, why))
  BY <1>3, <1>4, <1>5, <1>6 DEF Fair, DecisionModes
<1> QED
  BY <1>2, <1>3, <1>6, <1>7, <1>8

LEMMA RichDecisions ==
    ASSUME NEW request, NEW why, why \notin NavigationEvidence
    PROVE  /\ Fair(Proposed(request))
           /\ Fair(WhichInformation(request))
           /\ Fair(WhichAdmissions(why))
           /\ Fair(About(Answer(why), request))
           /\ Fair(About(Card(why), request))
           /\ Fair([Answer(why) EXCEPT !.domain = "unknown"])
           /\ Fair([Answer(why) EXCEPT !.entities = EntitiesOf(request)])
<1>1. ASSUME NEW d, DOMAIN d = DecisionFields, Fair(d), NEW x, NEW y, NEW z
      PROVE  /\ Fair([d EXCEPT !.items = x, !.entities = y])
             /\ Fair([d EXCEPT !.topic = x, !.entities = y])
             /\ Fair([d EXCEPT !.topic = x])
             /\ Fair([d EXCEPT !.domain = x])
             /\ Fair([d EXCEPT !.entities = x])
             /\ Fair([d EXCEPT !.items = x, !.entities = y, !.scope = z])
  BY <1>1 DEF DecisionFields, Fair
<1>2. \A x : /\ DOMAIN Card(x) = DecisionFields /\ Fair(Card(x))
             /\ DOMAIN Answer(x) = DecisionFields /\ (x \notin NavigationEvidence => Fair(Answer(x)))
             /\ \A y : /\ DOMAIN Clarify(y, x) = DecisionFields
                      /\ x \notin NavigationEvidence => Fair(Clarify(y, x))
  BY PlainDecisions
<1>3. Fair(Proposed(request))
  <2> DEFINE d == Card("validated_proposal_card")
  <2>1. DOMAIN d = DecisionFields /\ Fair(d)
    BY <1>2
  <2>2. \A x, y : Fair([d EXCEPT !.items = x, !.entities = y])
    <3> HIDE DEF d
    <3> QED
      BY <1>1, <2>1
  <2> QED
    BY <2>2, Zenon DEF Proposed
<1>4. Fair(WhichInformation(request))
  <2> DEFINE d == Clarify("department_information", "ambiguous_dept_info_request")
  <2>1. "ambiguous_dept_info_request" \notin NavigationEvidence
    BY DEF NavigationEvidence
  <2>2. DOMAIN d = DecisionFields /\ Fair(d)
    BY <2>1, PlainDecisions
  <2>3. \A x, y : Fair([d EXCEPT !.topic = x, !.entities = y])
    <3> HIDE DEF d
    <3> QED
      BY <1>1, <2>2
  <2> QED
    BY <2>3, Zenon DEF WhichInformation
<1>5. Fair(WhichAdmissions(why))
  <2> DEFINE d == Clarify("admissions_info", why)
  <2>1. DOMAIN d = DecisionFields /\ Fair(d)
    BY PlainDecisions
  <2>2. \A x : Fair([d EXCEPT !.topic = x])
    <3> HIDE DEF d
    <3> QED
      BY <1>1, <2>1
  <2> QED
    BY <2>2, Zenon DEF WhichAdmissions
<1>6. ASSUME NEW d, DOMAIN d = DecisionFields, Fair(d) PROVE Fair(About(d, request))
  BY <1>1, <1>6, Zenon DEF About
<1>7. Fair(About(Answer(why), request)) /\ Fair(About(Card(why), request))
  <2>1. DOMAIN Answer(why) = DecisionFields /\ Fair(Answer(why))
    BY <1>2, Zenon
  <2>2. DOMAIN Card(why) = DecisionFields /\ Fair(Card(why))
    BY <1>2, Zenon
  <2> QED
    BY <1>6, <2>1, <2>2, Zenon
<1>8. /\ Fair([Answer(why) EXCEPT !.domain = "unknown"])
      /\ Fair([Answer(why) EXCEPT !.entities = EntitiesOf(request)])
  <2> DEFINE d == Answer(why)
  <2>1. DOMAIN d = DecisionFields /\ Fair(d)
    BY <1>2, Zenon
  <2>2. \A x : Fair([d EXCEPT !.domain = x]) /\ Fair([d EXCEPT !.entities = x])
    <3> HIDE DEF d
    <3> QED
      BY <1>1, <2>1
  <2> QED
    BY <2>2, Zenon
<1> QED
  BY <1>3, <1>4, <1>5, <1>7, <1>8

LEMMA RefusalsDecide == ASSUME NEW u, NEW t PROVE Decides(RefusalRules(u, t))
<1> DEFINE T == RefusalRules(u, t)
           X == {T[i] : i \in 1 .. 4}
<1>1. T \in Seq(X)
  BY DEF RefusalRules
<1>2. \A i \in 1 .. 4 : Fair(T[i].then)
  <2>1. Fair(T[1].then)
    BY PlainDecisions DEF RefusalRules, Rule, NavigationEvidence
  <2>2. Fair(T[2].then)
    BY PlainDecisions DEF RefusalRules, Rule, NavigationEvidence
  <2>3. Fair(T[3].then)
    BY PlainDecisions DEF RefusalRules, Rule, NavigationEvidence
  <2>4. Fair(T[4].then)
    BY PlainDecisions DEF RefusalRules, Rule, NavigationEvidence
  <2> QED
    BY <2>1, <2>2, <2>3, <2>4
<1> QED
  BY <1>1, <1>2 DEF Decides

LEMMA PlacesDecide == ASSUME NEW u, NEW t PROVE Decides(PlaceRules(u, t))
<1> DEFINE T == PlaceRules(u, t)
           X == {T[i] : i \in 1 .. 1}
<1>1. T \in Seq(X)
  BY DEF PlaceRules
<1>2. \A i \in 1 .. 1 : Fair(T[i].then)
  <2>1. Fair(T[1].then)
    BY PlainDecisions DEF PlaceRules, PlaceRule, PlaceDecision, Rule, NavigationEvidence
  <2> QED
    BY <2>1
<1> QED
  BY <1>1, <1>2 DEF Decides

LEMMA GeneralDecide == ASSUME NEW u, NEW t PROVE Decides(GeneralRules(u, t))
<1> DEFINE T == GeneralRules(u, t)
           X == {T[i] : i \in 1 .. 3}
<1>1. T \in Seq(X)
  BY DEF GeneralRules
<1>2. \A i \in 1 .. 3 : Fair(T[i].then)
  <2>1. Fair(T[1].then)
    BY PlainDecisions, RichDecisions DEF GeneralRules, Rule, NavigationEvidence
  <2>2. Fair(T[2].then)
    BY PlainDecisions, RichDecisions DEF GeneralRules, Rule, NavigationEvidence
  <2>3. Fair(T[3].then)
    BY PlainDecisions, RichDecisions DEF GeneralRules, Rule, NavigationEvidence
  <2> QED
    BY <2>1, <2>2, <2>3
<1> QED
  BY <1>1, <1>2 DEF Decides

LEMMA FollowUpsDecide == ASSUME NEW u, NEW t PROVE Decides(FollowUpRules(u, t))
<1> DEFINE T == FollowUpRules(u, t)
           X == {T[i] : i \in 1 .. 2}
<1>1. T \in Seq(X)
  BY DEF FollowUpRules
<1>2. \A i \in 1 .. 2 : Fair(T[i].then)
  <2>1. Fair(T[1].then)
    BY PlainDecisions, RichDecisions DEF FollowUpRules, Rule, NavigationEvidence
  <2>2. Fair(T[2].then)
    BY PlainDecisions, RichDecisions DEF FollowUpRules, Rule, NavigationEvidence
  <2> QED
    BY <2>1, <2>2
<1> QED
  BY <1>1, <1>2 DEF Decides

LEMMA ProposalsDecide == ASSUME NEW u, NEW t PROVE Decides(ProposalRules(u, t))
<1> DEFINE T == ProposalRules(u, t)
           X == {T[i] : i \in 1 .. 3}
<1>1. T \in Seq(X)
  <2>1. \E a, b, c : T = <<a, b, c>>
    BY Zenon DEF ProposalRules
  <2> HIDE DEF T
  <2>2. PICK a, b, c : T = <<a, b, c>>
    BY <2>1
  <2> QED
    BY <2>2
<1>2. \A i \in 1 .. 3 : Fair(T[i].then)
  <2>1. Fair(T[1].then)
    BY PlainDecisions, RichDecisions DEF ProposalRules, Rule, NavigationEvidence
  <2>2. Fair(T[2].then)
    BY PlainDecisions, RichDecisions DEF ProposalRules, Rule, NavigationEvidence
  <2>3. Fair(T[3].then)
    BY PlainDecisions, RichDecisions DEF ProposalRules, Rule, NavigationEvidence
  <2> QED
    BY <2>1, <2>2, <2>3
<1> QED
  BY <1>1, <1>2 DEF Decides

LEMMA RequestsDecide == ASSUME NEW u, NEW t PROVE Decides(RequestRules(u, t))
<1> DEFINE T == RequestRules(u, t)
           X == {T[i] : i \in 1 .. 4}
<1>1. T \in Seq(X)
  BY DEF RequestRules
<1>2. \A i \in 1 .. 4 : Fair(T[i].then)
  <2>1. Fair(T[1].then)
    BY PlainDecisions, RichDecisions DEF RequestRules, Rule, NavigationEvidence
  <2>2. Fair(T[2].then)
    BY PlainDecisions, RichDecisions DEF RequestRules, Rule, NavigationEvidence
  <2>3. Fair(T[3].then)
    BY PlainDecisions, RichDecisions DEF RequestRules, Rule, NavigationEvidence
  <2>4. Fair(T[4].then)
    BY PlainDecisions, RichDecisions DEF RequestRules, Rule, NavigationEvidence
  <2> QED
    BY <2>1, <2>2, <2>3, <2>4
<1> QED
  BY <1>1, <1>2 DEF Decides

LEMMA DepartmentsDecide == ASSUME NEW u, NEW t PROVE Decides(DepartmentRules(u, t))
<1> DEFINE T == DepartmentRules(u, t)
           X == {T[i] : i \in 1 .. 4}
<1>1. T \in Seq(X)
  BY DEF DepartmentRules
<1>2. \A i \in 1 .. 4 : Fair(T[i].then)
  <2>1. Fair(T[1].then)
    BY PlainDecisions DEF DepartmentRules, Rule, NavigationEvidence
  <2>2. Fair(T[2].then)
    BY PlainDecisions DEF DepartmentRules, Rule, NavigationEvidence
  <2>3. Fair(T[3].then)
    BY PlainDecisions DEF DepartmentRules, Rule, NavigationEvidence
  <2>4. Fair(T[4].then)
    BY PlainDecisions DEF DepartmentRules, Rule, NavigationEvidence
  <2> QED
    BY <2>1, <2>2, <2>3, <2>4
<1> QED
  BY <1>1, <1>2 DEF Decides

LEMMA IntentsDecide == ASSUME NEW u, NEW t PROVE Decides(IntentRules(u, t))
<1> DEFINE T == IntentRules(u, t)
           X == {T[i] : i \in 1 .. 5}
<1>1. T \in Seq(X)
  BY DEF IntentRules
<1>2. \A i \in 1 .. 5 : Fair(T[i].then)
  <2>1. Fair(T[1].then)
    BY PlainDecisions, RichDecisions DEF IntentRules, Rule, NavigationEvidence
  <2>2. Fair(T[2].then)
    BY PlainDecisions, RichDecisions DEF IntentRules, Rule, NavigationEvidence
  <2>3. Fair(T[3].then)
    BY PlainDecisions, RichDecisions DEF IntentRules, Rule, NavigationEvidence
  <2>4. Fair(T[4].then)
    BY PlainDecisions, RichDecisions DEF IntentRules, Rule, NavigationEvidence
  <2>5. Fair(T[5].then)
    BY PlainDecisions, RichDecisions DEF IntentRules, Rule, NavigationEvidence
  <2> QED
    BY <2>1, <2>2, <2>3, <2>4, <2>5
<1> QED
  BY <1>1, <1>2 DEF Decides

LEMMA DomainsDecide == ASSUME NEW u, NEW t PROVE Decides(DomainRules(u, t))
<1> DEFINE T == DomainRules(u, t)
           X == {T[i] : i \in 1 .. 7}
<1>1. T \in Seq(X)
  <2>1. \E a, b, c, d, e, f, g : T = <<a, b, c, d, e, f, g>>
    BY Zenon DEF DomainRules
  <2> HIDE DEF T
  <2>2. PICK a, b, c, d, e, f, g : T = <<a, b, c, d, e, f, g>>
    BY <2>1
  <2> QED
    BY <2>2
<1>2. \A i \in 1 .. 7 : Fair(T[i].then)
  <2>1. Fair(T[1].then)
    BY PlainDecisions DEF DomainRules, Rule, NavigationEvidence
  <2>2. Fair(T[2].then)
    BY PlainDecisions DEF DomainRules, Rule, NavigationEvidence
  <2>3. Fair(T[3].then)
    BY PlainDecisions DEF DomainRules, Rule, NavigationEvidence
  <2>4. Fair(T[4].then)
    BY PlainDecisions DEF DomainRules, Rule, NavigationEvidence
  <2>5. Fair(T[5].then)
    BY PlainDecisions DEF DomainRules, Rule, NavigationEvidence
  <2>6. Fair(T[6].then)
    BY PlainDecisions DEF DomainRules, Rule, NavigationEvidence
  <2>7. Fair(T[7].then)
    BY PlainDecisions DEF DomainRules, Rule, NavigationEvidence
  <2> QED
    BY <2>1, <2>2, <2>3, <2>4, <2>5, <2>6, <2>7
<1> QED
  BY <1>1, <1>2 DEF Decides

LEMMA LastRule ==
    ASSUME NEW u, NEW t
    PROVE  Len(DomainRules(u, t)) = 7 /\ DomainRules(u, t)[7].when
BY DEF DomainRules, Rule

\* Every turn without a card of its own is decided by a rule that holds.
RulesBeforeLast(u, t) ==
    RefusalRules(u, t) \o PlaceRules(u, t) \o GeneralRules(u, t) \o FollowUpRules(u, t)
    \o ProposalRules(u, t) \o RequestRules(u, t) \o DepartmentRules(u, t) \o IntentRules(u, t)

LEMMA ChosenRule ==
    ASSUME NEW u, NEW t, t.local = NoLocal, NEW X,
           RulesBeforeLast(u, t) \in Seq(X), DomainRules(u, t) \in Seq(X)
    PROVE  \E x \in X : x.when /\ Resolve(u, t) = x.then
<1> DEFINE A == RulesBeforeLast(u, t)
           Z == DomainRules(u, t)
<1>1. Len(Z) = 7 /\ Z[7].when
  BY LastRule
<1>2. Resolve(u, t) = FirstOf(A \o Z)
  BY DEF Resolve, RulesBeforeLast
<1> HIDE DEF A, Z
<1>3. A \in Seq(X) /\ Z \in Seq(X)
  BY DEF A, Z
<1>4. /\ Len(A) \in Nat /\ A \o Z \in Seq(X) /\ Len(A \o Z) = Len(A) + Len(Z)
      /\ \A i \in 1 .. Len(A) + Len(Z) : (A \o Z)[i] = IF i <= Len(A) THEN A[i] ELSE Z[i - Len(A)]
  BY <1>3, ConcatProperties, LenProperties
<1>5. Len(A) + 7 \in 1 .. Len(A) + Len(Z) /\ ~(Len(A) + 7 <= Len(A)) /\ (Len(A) + 7) - Len(A) = 7
  BY <1>1, <1>4
<1>6. DOMAIN (A \o Z) = 1 .. Len(A) + 7 /\ Len(A) + 7 \in Nat \ {0} /\ (A \o Z)[Len(A) + 7].when
  BY <1>1, <1>4, <1>5, LenProperties
<1>7. PICK i \in 1 .. Len(A) + 7 : (A \o Z)[i].when /\ FirstOf(A \o Z) = (A \o Z)[i].then
  BY <1>6, FirstRule
<1>8. (A \o Z)[i] \in X
  BY <1>4, <1>6, ElementOfSeq, LenProperties
<1> QED
  BY <1>2, <1>7, <1>8

\* Every turn is decided one way or another.
LEMMA Resolved == ASSUME NEW u, NEW t PROVE Fair(Resolve(u, t))
<1>1. CASE t.local # NoLocal
  <2>1. ClickDecision(t.local).mode = "CARD"
    BY PlainDecisions DEF ClickDecision, DecisionFields
  <2> QED
    BY <1>1, <2>1 DEF Resolve, Fair, DecisionModes
<1>2. CASE t.local = NoLocal
  <2>1. Decides(RulesBeforeLast(u, t))
    BY DecidesBoth, RefusalsDecide, PlacesDecide, GeneralDecide, FollowUpsDecide, ProposalsDecide,
       RequestsDecide, DepartmentsDecide, IntentsDecide DEF RulesBeforeLast
  <2>2. PICK X : RulesBeforeLast(u, t) \in Seq(X) /\ \A x \in X : Fair(x.then)
    BY <2>1 DEF Decides
  <2>3. PICK Y : DomainRules(u, t) \in Seq(Y) /\ \A y \in Y : Fair(y.then)
    BY DomainsDecide DEF Decides
  <2> DEFINE W == X \cup Y
  <2>4. RulesBeforeLast(u, t) \in Seq(W) /\ DomainRules(u, t) \in Seq(W)
    BY <2>2, <2>3, SeqMonotonic
  <2>5. \A w \in W : Fair(w.then)
    BY <2>2, <2>3
  <2> HIDE DEF W
  <2>6. PICK w \in W : w.when /\ Resolve(u, t) = w.then
    BY <1>2, <2>4, ChosenRule
  <2> QED
    BY <2>5, <2>6
<1> QED
  BY <1>1, <1>2

-----------------------------------------------------------------------------
\* One speaker.

ResolutionFields == {"mode", "surface", "intent", "reply", "generate", "groq", "rag", "degraded", "bundle",
                     "authority", "sealed"}
\* A resolution nobody has been given yet, and one that has an owner.
Unowned(r) == DOMAIN r = ResolutionFields /\ r.bundle = <<>> /\ r.authority = "none" /\ r.sealed = FALSE
Owned(r) ==
    /\ DOMAIN r = ResolutionFields /\ r.sealed = TRUE
    /\ (r.bundle # <<>>) = (r.authority = "CARD_PRESENTATION")
    /\ r.generate = (r.authority = "CARD_PRESENTATION")
    /\ r.groq = (r.authority = "GROQ")
    /\ (r.rag => r.groq)

LEMMA NewIsUnowned == Unowned(NewResolution)
BY DEF Unowned, NewResolution, ResolutionFields

LEMMA UnownedFields ==
    ASSUME NEW r, Unowned(r), NEW x, NEW y, NEW z, NEW w
    PROVE  /\ Unowned([r EXCEPT !.mode = x, !.reply = y, !.groq = z, !.rag = w])
           /\ Unowned([r EXCEPT !.surface = x, !.generate = y])
           /\ Unowned([r EXCEPT !.surface = x])
           /\ Unowned([r EXCEPT !.rag = x, !.reply = y])
           /\ Unowned([r EXCEPT !.intent = x])
BY DEF Unowned, ResolutionFields

LEMMA SilentIsUnowned == ASSUME NEW mode, NEW reply PROVE Unowned(Silent(mode, reply))
BY NewIsUnowned, UnownedFields DEF Silent

LEMMA CardsAreUnowned == \A surface : Unowned(Cards(surface))
BY SilentIsUnowned, UnownedFields DEF Cards

LEMMA PlannedIsUnowned ==
    ASSUME NEW r, Unowned(r), NEW request, NEW local
    PROVE  Unowned(UnderUnitPlan(r, request, local))
<1> DEFINE planned == SelectContentUnits(request) # NoPlan
<1>1. \A x, y : /\ Unowned([r EXCEPT !.surface = x])
                /\ Unowned([r EXCEPT !.surface = x, !.generate = y])
  BY UnownedFields
<1> HIDE DEF planned
<1>2. CASE r.surface = "campus_navigation"
  BY <1>2 DEF UnderUnitPlan, UnitBacked
<1>3. CASE r.surface # "campus_navigation" /\ planned
  BY <1>1, <1>3 DEF UnderUnitPlan, planned
<1>4. CASE r.surface # "campus_navigation" /\ ~planned /\ r.surface \in UnitBacked /\ local = NoLocal
  BY <1>1, <1>4 DEF UnderUnitPlan, planned
<1>5. CASE r.surface # "campus_navigation" /\ ~planned /\ ~(r.surface \in UnitBacked /\ local = NoLocal)
  BY <1>5 DEF UnderUnitPlan, planned
<1> QED
  BY <1>2, <1>3, <1>4, <1>5

LEMMA PresentedIsUnowned ==
    ASSUME NEW u, NEW t, NEW d, NEW act, NEW intent
    PROVE  Unowned(Presented(u, t, d, act, intent))
<1> DEFINE topic == IF t.request.items # <<>> /\ intent # "CAMPUS_NAVIGATION" THEN t.request.items[1].topic
                    ELSE SemanticTopic(u)
           rag == d.domain # "unknown"
           reply == d.why = "ncc_enrollment_guidance"
           generated == [NewResolution EXCEPT !.rag = rag, !.reply = reply]
           T == <<Rule(act \in {"UNKNOWN", "ASK_CLARIFICATION"}, Silent("UNKNOWN", TRUE)),
                  Rule(act \in {"ENTITY_UPDATE", "GREETING", "SMALL_TALK", "THANKS_CLOSING"}, Silent("DIRECT", TRUE)),
                  Rule(act = "ABOUT_ME", Cards("about_me")),
                  Rule(act = "DIRECT_RESPONSE", Silent("DIRECT_FAQ", FALSE)),
                  Rule(/\ intent # "CAMPUS_NAVIGATION" /\ SemanticTopic(u) = "LOCATION"
                       /\ t.request.items = <<>>, Silent("DIRECT", FALSE)),
                  Rule(act = "CARD_PRESENTATION",
                       UnderUnitPlan(Cards(Surface(t.local, topic, intent)), t.request, t.local)),
                  Rule(TRUE, generated)>>
<1>1. Presented(u, t, d, act, intent) = FirstOf(T)
  BY DEF Presented
<1>2. DOMAIN T = 1 .. 7 /\ T[7].when
  BY DEF Rule
<1>3. \A i \in 1 .. 7 : Unowned(T[i].then)
  <2>1. \A w, v : Rule(w, v).then = v
    BY DEF Rule
  <2>2. Unowned(generated)
    BY NewIsUnowned, UnownedFields
  <2>3. Unowned(UnderUnitPlan(Cards(Surface(t.local, topic, intent)), t.request, t.local))
    BY CardsAreUnowned, PlannedIsUnowned
  <2> HIDE DEF generated, topic
  <2>11. /\ Unowned(Silent("UNKNOWN", TRUE)) /\ Unowned(Silent("DIRECT", TRUE))
        /\ Unowned(Silent("DIRECT_FAQ", FALSE)) /\ Unowned(Silent("DIRECT", FALSE))
    BY SilentIsUnowned, Zenon
  <2>4. Unowned(T[1].then)
    BY <2>1, <2>11
  <2>5. Unowned(T[2].then)
    BY <2>1, <2>11
  <2>6. Unowned(T[3].then)
    BY <2>1, CardsAreUnowned
  <2>7. Unowned(T[4].then)
    <3>1. T[4] = Rule(act = "DIRECT_RESPONSE", Silent("DIRECT_FAQ", FALSE))
      OBVIOUS
    <3> HIDE DEF T
    <3>2. T[4].then = Silent("DIRECT_FAQ", FALSE)
      BY <3>1 DEF Rule
    <3> QED
      BY <2>11, <3>2
  <2>8. Unowned(T[5].then)
    BY <2>1, <2>11
  <2>9. Unowned(T[6].then)
    BY <2>1, <2>3
  <2>10. Unowned(T[7].then)
    BY <2>1, <2>2
  <2> HIDE DEF T
  <2> QED
    BY <2>4, <2>5, <2>6, <2>7, <2>8, <2>9, <2>10
<1> HIDE DEF T
<1>4. \E i \in 1 .. 7 : FirstOf(T) = T[i].then
  <2>1. 7 \in Nat \ {0}
    OBVIOUS
  <2> QED
    BY <1>2, <2>1, FirstRule
<1> QED
  BY <1>1, <1>3, <1>4

LEMMA ResolvedIsUnowned ==
    ASSUME NEW u, NEW t, NEW d, NEW action
    PROVE  Unowned(ResolvePresentation(u, t, d, action))
BY PresentedIsUnowned, UnownedFields DEF ResolvePresentation

LEMMA Sealed ==
    ASSUME NEW r, DOMAIN r = ResolutionFields, NEW authority,
           authority = "CARD_PRESENTATION" => r.bundle # <<>>,
           authority \notin {"CARD_PRESENTATION", "GROQ"} => r.bundle = <<>>
    PROVE  Owned(Seal(r, authority))
<1>1. CASE authority = "CARD_PRESENTATION"
  BY <1>1 DEF Seal, Owned, ResolutionFields
<1>2. CASE authority = "GROQ"
  BY <1>2 DEF Seal, Owned, ResolutionFields
<1>3. CASE authority \notin {"CARD_PRESENTATION", "GROQ"}
  BY <1>3 DEF Seal, Owned, ResolutionFields
<1> QED
  BY <1>1, <1>2, <1>3

LEMMA SealedUnlessCards ==
    ASSUME NEW r, Unowned(r)
    PROVE  Unowned(SealUnlessCards(r)) \/ Owned(SealUnlessCards(r))
<1>1. CASE AwaitsCards(r)
  BY <1>1 DEF SealUnlessCards
<1>2. CASE ~AwaitsCards(r)
  <2>1. AuthorityOf(r) # "CARD_PRESENTATION"
    BY <1>2 DEF AuthorityOf, AwaitsCards, Unowned
  <2>2. Owned(Seal(r, AuthorityOf(r)))
    BY <2>1, Sealed DEF Unowned
  <2> QED
    BY <1>2, <2>2 DEF SealUnlessCards
<1> QED
  BY <1>1, <1>2

LEMMA Attached ==
    ASSUME NEW r, Unowned(r), NEW request, NEW d, NEW fault
    PROVE  Unowned(Attach(r, request, d, fault)) \/ Owned(Attach(r, request, d, fault))
<1> DEFINE bundle == Narration(r, request, d)
<1>1. Owned(Degrade(r))
  <2> DEFINE s == [r EXCEPT !.mode = "FULL_TEXT", !.generate = FALSE, !.surface = "none", !.degraded = TRUE]
  <2>1. DOMAIN s = ResolutionFields
    BY DEF Unowned
  <2> QED
    BY <2>1, Sealed DEF Degrade
<1>2. bundle # <<>> => Owned(Seal([r EXCEPT !.bundle = bundle], "CARD_PRESENTATION"))
  <2> DEFINE s == [r EXCEPT !.bundle = bundle]
  <2>1. DOMAIN s = ResolutionFields /\ s.bundle = bundle
    BY DEF Unowned, ResolutionFields
  <2> HIDE DEF s, bundle
  <2>2. bundle # <<>> => Owned(Seal(s, "CARD_PRESENTATION"))
    BY <2>1, Sealed
  <2> QED
    BY <2>2 DEF s
<1>3. \/ Attach(r, request, d, fault) = r
      \/ Attach(r, request, d, fault) = Degrade(r)
      \/ /\ bundle # <<>>
         /\ Attach(r, request, d, fault) = Seal([r EXCEPT !.bundle = bundle], "CARD_PRESENTATION")
  BY Zenon DEF Attach, AttachBundle
<1> QED
  BY <1>1, <1>2, <1>3

-----------------------------------------------------------------------------
\* The invariant of the theorems.  A decided turn carries a resolution with an
\* owner or with none, and an open question is the one the visitor heard last, or
\* the one the turn at hand has just been decided to ask.

MemoryFields == {"pending", "departments", "person", "active", "gender", "ncc", "aboutMe", "named"}
TurnFields == {"at", "said", "routed", "text", "follows", "local", "decision", "action", "request", "resolution"}
LastFields == {"mode", "question", "about"}
Shape ==
    /\ DOMAIN memory = MemoryFields /\ DOMAIN turn = TurnFields /\ DOMAIN last = LastFields
    /\ turn.at \in {"none", "heard", "decided", "attached"}
    /\ turn.at = "none" => turn = NoTurn
HasOwnerOrNone ==
    turn.at \in {"decided", "attached"} => Unowned(turn.resolution) \/ Owned(turn.resolution)
AskedLast == memory.pending # NoPending => last.mode = "CLARIFY" /\ last.question = memory.pending
Undecided == turn.at \in {"none", "heard"} \/ turn.action = "NO_SPEECH_RETRY"
OpenQuestion ==
    /\ Undecided => AskedLast
    /\ ~Undecided => /\ turn.decision.mode \in DecisionModes
                     /\ memory.pending # NoPending => turn.decision.mode = "CLARIFY"
IInv == Shape /\ HasOwnerOrNone /\ OpenQuestion

LEMMA NoTurnShape == DOMAIN NoTurn = TurnFields /\ NoTurn.at = "none"
BY DEF NoTurn, TurnFields

LEMMA NothingShape == DOMAIN Nothing = MemoryFields /\ Nothing.pending = NoPending
BY DEF Nothing, MemoryFields

LEMMA NothingAskedShape == DOMAIN NothingAsked = LastFields
BY DEF NothingAsked, LastFields

\* Before anybody has spoken.
LEMMA Initially == Init => IInv
BY NoTurnShape, NothingShape, NothingAskedShape
   DEF Init, IInv, Shape, HasOwnerOrNone, OpenQuestion, Undecided, AskedLast

\* The policy never asks to repeat, which is settled before it is asked; it opens
\* cards for a local intent and for a decision to show one; and CLARA speaks of
\* herself only by the rule that found a section about her.
LEMMA PolicySays ==
    ASSUME NEW u, NEW t, NEW d, NEW section, d.mode \in DecisionModes
    PROVE  LET action == RoutePolicy(u, t, d, section)
           IN  /\ action # "NO_SPEECH_RETRY"
               /\ action = "CARD_PRESENTATION" => t.local # NoLocal \/ d.mode = "CARD"
               /\ action = "ABOUT_ME" => AboutMeSection(u, section) # "none"
<1> DEFINE byMode == [CARD |-> "CARD_PRESENTATION", ANSWER |-> "ANSWER", CLARIFY |-> "ASK_CLARIFICATION",
                      FALLBACK |-> "UNKNOWN"][d.mode]
           found == AboutMeSection(u, section) # "none"
           T == <<Rule(t.local # NoLocal, "CARD_PRESENTATION"),
                  Rule(ThanksOnly(u), "THANKS_CLOSING"),
                  Rule(u = <<"my name is">>, "ENTITY_UPDATE"),
                  Rule(u = <<"hello">>, "GREETING"),
                  Rule(found, "ABOUT_ME"),
                  Rule(Social(u), "SMALL_TALK"),
                  Rule(t.faq, "DIRECT_RESPONSE"),
                  Rule(TRUE, byMode)>>
<1>1. RoutePolicy(u, t, d, section) = FirstOf(T)
  BY DEF RoutePolicy
<1>2. /\ byMode \notin {"NO_SPEECH_RETRY", "ABOUT_ME"}
      /\ byMode = "CARD_PRESENTATION" => d.mode = "CARD"
  BY DEF DecisionModes
<1> HIDE DEF byMode, found
<1>3. DOMAIN T = 1 .. 8 /\ T[8].when
  BY DEF Rule
<1>4. T[1].then = "CARD_PRESENTATION" /\ T[1].when = (t.local # NoLocal)
  BY DEF Rule
<1>5. T[2].then = "THANKS_CLOSING" /\ T[3].then = "ENTITY_UPDATE" /\ T[4].then = "GREETING"
  BY DEF Rule
<1>6. T[5].then = "ABOUT_ME" /\ T[5].when = found
  BY DEF Rule
<1>7. T[6].then = "SMALL_TALK" /\ T[7].then = "DIRECT_RESPONSE" /\ T[8].then = byMode
  BY DEF Rule
<1> HIDE DEF T
<1>8. PICK k \in 1 .. 8 : T[k].when /\ FirstOf(T) = T[k].then
  <2>1. 8 \in Nat \ {0}
    OBVIOUS
  <2> QED
    BY <1>3, <2>1, FirstRule
<1>9. FirstOf(T) # "NO_SPEECH_RETRY"
  BY <1>2, <1>4, <1>5, <1>6, <1>7, <1>8
<1>10. FirstOf(T) = "CARD_PRESENTATION" => t.local # NoLocal \/ d.mode = "CARD"
  <2>1. ASSUME FirstOf(T) = "CARD_PRESENTATION" PROVE k \notin 2 .. 7
    <3>1. T[k].then = "CARD_PRESENTATION"
      BY <1>8, <2>1
    <3> QED
      BY <1>5, <1>6, <1>7, <3>1
  <2>2. k \notin 2 .. 7 => k = 1 \/ k = 8
    OBVIOUS
  <2> QED
    BY <1>2, <1>4, <1>7, <1>8, <2>1, <2>2
<1>11. ASSUME FirstOf(T) = "ABOUT_ME" PROVE k = 5
  <2>1. T[k].then = "ABOUT_ME" /\ T[k].then # byMode
    BY <1>2, <1>8, <1>11
  <2>2. k \notin {1, 2, 3, 4}
    BY <1>4, <1>5, <2>1
  <2>3. k \notin {6, 7, 8}
    BY <1>7, <2>1
  <2> QED
    BY <2>2, <2>3
<1>12. FirstOf(T) = "ABOUT_ME" => found
  BY <1>6, <1>8, <1>11
<1> QED
  BY <1>1, <1>9, <1>10, <1>12 DEF found

\* What a decision leaves of the open question.
LEMMA RememberedQuestion ==
    ASSUME NEW m, DOMAIN m = MemoryFields, NEW d, d.mode \in DecisionModes,
           NEW action, NEW local, NEW routed, NEW text
    PROVE  LET after == Remember(m, d, action, local, routed, text)
           IN  /\ DOMAIN after = MemoryFields
               /\ after.pending # NoPending => d.mode = "CLARIFY"
<1> DEFINE after == Remember(m, d, action, local, routed, text)
           question == [target |-> d.target, topic |-> d.topic, original |-> routed]
           pending == CASE d.mode = "CLARIFY" /\ d.target # "none" -> question
                        [] Settles(d) -> NoPending
                        [] OTHER -> m.pending
<1>1. DOMAIN after = MemoryFields /\ after.pending = pending
  BY DEF Remember, MemoryFields
<1>2. pending # NoPending => d.mode = "CLARIFY"
  BY DEF Settles, DecisionModes
<1> QED
  BY <1>1, <1>2

LEMMA Completed ==
    ASSUME NEW m, DOMAIN m = MemoryFields, NEW said
    PROVE  DOMAIN Complete(m, said) = MemoryFields /\ Complete(m, said).pending = m.pending
<1>1. Complete(m, said) = m \/ \E x : Complete(m, said) = [m EXCEPT !.named = x]
  BY DEF Complete
<1> QED
  BY <1>1 DEF MemoryFields

LEMMA BeginStep ==
    ASSUME IInv, NEW u, NEW clicked, Begin(u, clicked)
    PROVE  IInv'
<1> DEFINE answer == TryResolvePending(Contextual(u, memory).routed, memory.pending)
<1>1. turn = NoTurn /\ UNCHANGED last
  BY DEF Begin
<1>2. DOMAIN turn' = TurnFields /\ turn'.at = "heard"
  BY NoTurnShape DEF Begin, TurnFields
<1>3. DOMAIN memory' = MemoryFields /\ memory'.pending \in {NoPending, memory.pending}
  BY DEF Begin, MemoryFields, IInv, Shape
<1>4. AskedLast
  BY <1>1, NoTurnShape DEF IInv, OpenQuestion, Undecided
<1> QED
  BY <1>1, <1>2, <1>3, <1>4 DEF IInv, Shape, HasOwnerOrNone, OpenQuestion, Undecided, AskedLast

LEMMA AskToRepeatStep == IInv /\ AskToRepeat => IInv'
<1> SUFFICES ASSUME IInv, AskToRepeat
             PROVE  IInv'
  OBVIOUS
<1> DEFINE resolution == SealUnlessCards(Silent("RETRY", TRUE))
<1>1. Unowned(resolution) \/ Owned(resolution)
  BY SilentIsUnowned, SealedUnlessCards
<1> HIDE DEF resolution
<1>2. /\ DOMAIN turn' = TurnFields /\ turn'.at = "decided" /\ turn'.action = "NO_SPEECH_RETRY"
      /\ turn'.resolution = resolution
  BY DEF AskToRepeat, TurnFields, IInv, Shape, resolution
<1>3. AskedLast /\ UNCHANGED <<memory, last>>
  BY DEF AskToRepeat, IInv, OpenQuestion, Undecided
<1> QED
  BY <1>1, <1>2, <1>3 DEF IInv, Shape, HasOwnerOrNone, OpenQuestion, Undecided, AskedLast

LEMMA DecideStep == IInv /\ Decide => IInv'
<1> SUFFICES ASSUME IInv, Decide
             PROVE  IInv'
  OBVIOUS
<1>1. PICK t \in Facts : \E d \in {Resolve(turn.text, t)} :
          DecideAs(t, d, RoutePolicy(turn.text, t, d, memory.aboutMe))
  BY DEF Decide
<1> DEFINE d == Resolve(turn.text, t)
           action == RoutePolicy(turn.text, t, d, memory.aboutMe)
           resolution == SealUnlessCards(ResolvePresentation(turn.text, t, d, action))
           after == Remember(memory, d, action, turn.local, turn.routed, turn.text)
<1>2. DecideAs(t, d, action) /\ UNCHANGED last
  BY <1>1 DEF Decide
<1>3. d.mode \in DecisionModes
  BY Resolved DEF Fair
<1> HIDE DEF d
<1>4. action # "NO_SPEECH_RETRY"
  BY <1>3, PolicySays
<1> HIDE DEF action
<1>5. Unowned(resolution) \/ Owned(resolution)
  BY ResolvedIsUnowned, SealedUnlessCards
<1>6. DOMAIN after = MemoryFields /\ (after.pending # NoPending => d.mode = "CLARIFY")
  BY <1>3, RememberedQuestion DEF IInv, Shape
<1> HIDE DEF resolution, after
<1>7. memory' = after
  BY <1>2 DEF DecideAs, after
<1>8. /\ DOMAIN turn' = TurnFields /\ turn'.at = "decided" /\ turn'.decision = d
      /\ turn'.action = action /\ turn'.resolution = resolution
  BY <1>2 DEF DecideAs, resolution, TurnFields, IInv, Shape
<1> QED
  BY <1>2, <1>3, <1>4, <1>5, <1>6, <1>7, <1>8
     DEF IInv, Shape, HasOwnerOrNone, OpenQuestion, Undecided, AskedLast

LEMMA AttachStep == ASSUME IInv, NEW fault, AttachNarration(fault) PROVE IInv'
<1> DEFINE resolution == Attach(turn.resolution, turn.request, turn.decision, fault)
<1>1. Unowned(turn.resolution)
  BY DEF AttachNarration, IInv, HasOwnerOrNone, Owned
<1>2. Unowned(resolution) \/ Owned(resolution)
  BY <1>1, Attached
<1> HIDE DEF resolution
<1>3. /\ DOMAIN turn' = TurnFields /\ turn'.at = "attached" /\ turn'.resolution = resolution
      /\ turn'.decision = turn.decision /\ turn'.action = turn.action
      /\ turn.at = "decided" /\ UNCHANGED <<memory, last>>
  BY DEF AttachNarration, resolution, TurnFields, IInv, Shape
<1> QED
  BY <1>2, <1>3 DEF IInv, Shape, HasOwnerOrNone, OpenQuestion, Undecided, AskedLast

\* However a turn ends, what the visitor saw of it is what it asked.
LEMMA EndStep ==
    ASSUME IInv, turn' = NoTurn, last' = Settled, turn.at # "none",
           DOMAIN memory' = MemoryFields, memory'.pending = memory.pending
    PROVE  IInv'
<1>1. turn'.at = "none" /\ turn' = NoTurn /\ DOMAIN turn' = TurnFields
  BY NoTurnShape
<1>2. CASE Undecided
  <2>1. last' = last
    BY <1>2 DEF Settled, Undecided
  <2> QED
    BY <1>1, <1>2, <2>1 DEF IInv, Shape, HasOwnerOrNone, OpenQuestion, Undecided, AskedLast
<1>3. CASE ~Undecided
  <2> DEFINE question == IF turn.decision.mode = "CLARIFY" THEN memory.pending ELSE NoPending
  <2>1. /\ DOMAIN last' = LastFields /\ last'.mode = turn.decision.mode /\ last'.question = question
    BY <1>3 DEF Settled, Undecided, LastFields
  <2>2. memory.pending # NoPending => turn.decision.mode = "CLARIFY" /\ question = memory.pending
    BY <1>3 DEF IInv, OpenQuestion
  <2> HIDE DEF question
  <2> QED
    BY <1>1, <2>1, <2>2 DEF IInv, Shape, HasOwnerOrNone, OpenQuestion, Undecided, AskedLast
<1> QED
  BY <1>2, <1>3

LEMMA FinishStep == IInv /\ (Finish \/ Fail) => IInv'
<1> SUFFICES ASSUME IInv, Finish \/ Fail
             PROVE  IInv'
  OBVIOUS
<1>1. turn' = NoTurn /\ last' = Settled /\ turn.at # "none" /\ memory' = Complete(memory, turn.said)
  BY DEF Finish, Fail, Ready
<1>2. DOMAIN memory' = MemoryFields /\ memory'.pending = memory.pending
  BY <1>1, Completed DEF IInv, Shape
<1> QED
  BY <1>1, <1>2, EndStep

LEMMA InterruptStep == IInv /\ Interrupt => IInv'
<1> SUFFICES ASSUME IInv, Interrupt
             PROVE  IInv'
  OBVIOUS
<1>1. turn' = NoTurn /\ last' = Settled /\ memory' = memory /\ turn # NoTurn
  BY DEF Interrupt
<1> QED
  BY <1>1, EndStep DEF IInv, Shape

LEMMA ResetStep == IInv /\ Reset => IInv'
<1> SUFFICES ASSUME IInv, Reset
             PROVE  IInv'
  OBVIOUS
<1>1. DOMAIN memory' = MemoryFields /\ memory'.pending = NoPending
  BY NothingShape DEF Reset, Forgotten, MemoryFields
<1>2. DOMAIN last' = LastFields
  BY NothingAskedShape DEF Reset
<1>3. turn'.at = "none" /\ turn' = NoTurn /\ DOMAIN turn' = TurnFields
  BY NoTurnShape DEF Reset
<1> QED
  BY <1>1, <1>2, <1>3 DEF IInv, Shape, HasOwnerOrNone, OpenQuestion, Undecided, AskedLast

LEMMA Stutter == IInv /\ UNCHANGED vars => IInv'
BY DEF vars, IInv, Shape, HasOwnerOrNone, OpenQuestion, Undecided, AskedLast

LEMMA Inductive == IInv /\ [Next]_vars => IInv'
<1> SUFFICES ASSUME IInv, [Next]_vars
             PROVE  IInv'
  OBVIOUS
<1>1. ASSUME NEW u \in Utterances, Hear(u) PROVE IInv'
  BY <1>1, BeginStep DEF Hear
<1>2. ASSUME NEW department \in Departments, Click(department) PROVE IInv'
  BY <1>2, BeginStep DEF Click
<1>3. ASSUME NEW fault \in Faults, AttachNarration(fault) PROVE IInv'
  BY <1>3, AttachStep
<1> QED
  BY <1>1, <1>2, <1>3, AskToRepeatStep, DecideStep, FinishStep, InterruptStep, ResetStep, Stutter DEF Next

\* The inductive invariant holds in every state of every conversation.
THEOREM Invariant == Spec => []IInv
BY Initially, Inductive, PTL DEF Spec

\* One speaker, whatever is said and proposed: when a turn may end, its cards
\* are narrated exactly if they have the authority, and a reply is generated
\* exactly if the language model has it.
THEOREM SpeakerTheorem == Spec => []OneOwner
<1>1. IInv => OneOwner
  BY DEF IInv, HasOwnerOrNone, Owned, Unowned, OneOwner, Ready
<1> QED
  BY <1>1, Invariant, PTL

\* An open clarification is the question of the turn before, however many turns
\* were cancelled, failed or only asked to repeat.
THEOREM QuestionTheorem == Spec => []PendingIsTheLastQuestion
<1>1. IInv => PendingIsTheLastQuestion
  BY DEF IInv, OpenQuestion, Undecided, AskedLast, PendingIsTheLastQuestion
<1> QED
  BY <1>1, Invariant, PTL

-----------------------------------------------------------------------------
\* Somebody answers.

WayWords == {"directions", "location", "where"}
\* A resolution that leaves no turn without words: a ready text comes with the
\* modes that nobody else speaks for, unless the way to somewhere was asked for.
Worded(u, r) ==
    /\ r.mode \in {"RETRY", "UNKNOWN"} => r.reply = TRUE
    /\ r.mode = "DIRECT" => r.reply = TRUE \/ Has(u, WayWords)
    /\ r.sealed = TRUE => \/ r.authority \in {"FAQ", "GROQ", "CARD_PRESENTATION"}
                          \/ r.mode \in {"RETRY", "UNKNOWN"}
                          \/ r.mode = "DIRECT" /\ r.authority = "DETERMINISTIC"

LEMMA WayAsked ==
    ASSUME NEW u, SemanticTopic(u) = "LOCATION"
    PROVE  Has(u, WayWords)
<1> DEFINE T == <<Rule(Has(u, {"canteen", "food", "mess"}), "FOOD"), Rule(Has(u, PlacementWords), "placements"),
                  Rule(Has(u, {"fees"}), "fees"),
                  Rule(Has(u, {"admissions", "admission documents", "enrollment"}), "admissions"),
                  Rule(Has(u, {"bus"}), "BUS"), Rule(Has(u, {"documents"}), "DOCUMENTS"),
                  Rule(Has(u, WayWords), "LOCATION"), Rule(TRUE, "none")>>
<1>1. SemanticTopic(u) = FirstOf(T)
  BY DEF SemanticTopic, WayWords
<1>2. DOMAIN T = 1 .. 8 /\ T[8].when
  BY DEF Rule
<1>3. \A i \in 1 .. 8 : T[i].then = "LOCATION" => i = 7
  <2>1. \A w, v : Rule(w, v).then = v
    BY DEF Rule
  <2>2. T[1].then = "FOOD"
    BY <2>1
  <2>3. T[2].then = "placements"
    BY <2>1
  <2>4. T[3].then = "fees"
    BY <2>1
  <2>5. T[4].then = "admissions"
    BY <2>1
  <2>6. T[5].then = "BUS"
    BY <2>1
  <2>7. T[6].then = "DOCUMENTS"
    BY <2>1
  <2>8. T[8].then = "none"
    BY <2>1
  <2> HIDE DEF T
  <2> QED
    BY <2>2, <2>3, <2>4, <2>5, <2>6, <2>7, <2>8
<1>4. T[7].when = Has(u, WayWords)
  BY DEF Rule
<1> HIDE DEF T
<1>5. \E i \in 1 .. 8 : T[i].when /\ FirstOf(T) = T[i].then
  <2>1. 8 \in Nat \ {0}
    OBVIOUS
  <2> QED
    BY <1>2, <2>1, FirstRule
<1> QED
  BY <1>1, <1>3, <1>4, <1>5

LEMMA NewMode == NewResolution.mode = "NORMAL_REPLY"
BY DEF NewResolution

LEMMA ModeFields ==
    ASSUME NEW r, Unowned(r), NEW x, NEW y, NEW z, NEW w
    PROVE  /\ LET s == [r EXCEPT !.mode = x, !.reply = y, !.groq = z, !.rag = w] IN s.mode = x /\ s.reply = y
           /\ LET s == [r EXCEPT !.surface = x, !.generate = y] IN s.mode = r.mode /\ s.reply = r.reply
           /\ LET s == [r EXCEPT !.surface = x] IN s.mode = r.mode /\ s.reply = r.reply
           /\ LET s == [r EXCEPT !.intent = x] IN s.mode = r.mode /\ s.reply = r.reply
           /\ [r EXCEPT !.rag = x, !.reply = y].mode = r.mode
BY DEF Unowned, ResolutionFields

LEMMA SilentMode == ASSUME NEW mode, NEW reply PROVE Silent(mode, reply).mode = mode /\ Silent(mode, reply).reply = reply
BY NewIsUnowned, ModeFields DEF Silent

LEMMA CardsMode == ASSUME NEW surface PROVE Cards(surface).mode = "CARD_PRESENTATION"
<1>1. Unowned(Silent("CARD_PRESENTATION", FALSE)) /\ Silent("CARD_PRESENTATION", FALSE).mode = "CARD_PRESENTATION"
  BY SilentIsUnowned, SilentMode, Zenon
<1> QED
  BY <1>1 DEF Cards, Unowned, ResolutionFields

LEMMA PlannedMode ==
    ASSUME NEW r, Unowned(r), NEW request, NEW local
    PROVE  UnderUnitPlan(r, request, local).mode = r.mode
<1> DEFINE planned == SelectContentUnits(request) # NoPlan
<1>1. \A x, y : /\ [r EXCEPT !.surface = x].mode = r.mode
                /\ [r EXCEPT !.surface = x, !.generate = y].mode = r.mode
  BY ModeFields
<1> HIDE DEF planned
<1>2. CASE r.surface = "campus_navigation"
  BY <1>2 DEF UnderUnitPlan, UnitBacked
<1>3. CASE r.surface # "campus_navigation" /\ planned
  BY <1>1, <1>3 DEF UnderUnitPlan, planned
<1>4. CASE r.surface # "campus_navigation" /\ ~planned /\ r.surface \in UnitBacked /\ local = NoLocal
  BY <1>1, <1>4 DEF UnderUnitPlan, planned
<1>5. CASE r.surface # "campus_navigation" /\ ~planned /\ ~(r.surface \in UnitBacked /\ local = NoLocal)
  BY <1>5 DEF UnderUnitPlan, planned
<1> QED
  BY <1>2, <1>3, <1>4, <1>5

\* Before it has an owner, a resolution is judged by its mode and reply alone.
Phrased(u, mode, reply) ==
    /\ mode \in Modes
    /\ mode \in {"RETRY", "UNKNOWN"} => reply = TRUE
    /\ mode = "DIRECT" => reply = TRUE \/ Has(u, WayWords)

LEMMA PresentedIsPhrased ==
    ASSUME NEW u, NEW t, NEW d, NEW act, NEW intent
    PROVE  LET r == Presented(u, t, d, act, intent) IN Phrased(u, r.mode, r.reply)
<1> DEFINE topic == IF t.request.items # <<>> /\ intent # "CAMPUS_NAVIGATION" THEN t.request.items[1].topic
                    ELSE SemanticTopic(u)
           rag == d.domain # "unknown"
           reply == d.why = "ncc_enrollment_guidance"
           generated == [NewResolution EXCEPT !.rag = rag, !.reply = reply]
           planned == UnderUnitPlan(Cards(Surface(t.local, topic, intent)), t.request, t.local)
           T == <<Rule(act \in {"UNKNOWN", "ASK_CLARIFICATION"}, Silent("UNKNOWN", TRUE)),
                  Rule(act \in {"ENTITY_UPDATE", "GREETING", "SMALL_TALK", "THANKS_CLOSING"}, Silent("DIRECT", TRUE)),
                  Rule(act = "ABOUT_ME", Cards("about_me")),
                  Rule(act = "DIRECT_RESPONSE", Silent("DIRECT_FAQ", FALSE)),
                  Rule(/\ intent # "CAMPUS_NAVIGATION" /\ SemanticTopic(u) = "LOCATION"
                       /\ t.request.items = <<>>, Silent("DIRECT", FALSE)),
                  Rule(act = "CARD_PRESENTATION", planned),
                  Rule(TRUE, generated)>>
<1>1. Presented(u, t, d, act, intent) = FirstOf(T)
  BY DEF Presented
<1>2. DOMAIN T = 1 .. 7 /\ T[7].when
  BY DEF Rule
<1>3. /\ Silent("UNKNOWN", TRUE).reply = TRUE /\ Silent("DIRECT", TRUE).reply = TRUE
      /\ Silent("UNKNOWN", TRUE).mode = "UNKNOWN" /\ Silent("DIRECT", TRUE).mode = "DIRECT"
      /\ Silent("DIRECT_FAQ", FALSE).mode = "DIRECT_FAQ" /\ Silent("DIRECT", FALSE).mode = "DIRECT"
  BY SilentMode, Zenon
<1>4. Cards("about_me").mode = "CARD_PRESENTATION" /\ planned.mode = "CARD_PRESENTATION"
  BY CardsMode, CardsAreUnowned, PlannedMode
<1>5. generated.mode = "NORMAL_REPLY"
  BY NewIsUnowned, NewMode, ModeFields
<1>6. SemanticTopic(u) = "LOCATION" => Has(u, WayWords)
  BY WayAsked
<1> HIDE DEF generated, planned, topic
<1>7. T[1].then = Silent("UNKNOWN", TRUE)
  BY DEF Rule
<1>8. T[2].then = Silent("DIRECT", TRUE)
  BY DEF Rule
<1>9. T[3].then = Cards("about_me")
  BY DEF Rule
<1>10. T[4].then = Silent("DIRECT_FAQ", FALSE)
  BY DEF Rule
<1>11. T[5].then = Silent("DIRECT", FALSE) /\ (T[5].when => SemanticTopic(u) = "LOCATION")
  BY DEF Rule
<1>12. T[6].then = planned
  BY DEF Rule
<1>13. T[7].then = generated
  BY DEF Rule
<1> HIDE DEF T
<1> DEFINE Fits(i) == T[i].when => Phrased(u, T[i].then.mode, T[i].then.reply)
<1>14. \A i \in 1 .. 7 : Fits(i)
  <2>1. Fits(1)
    BY <1>3, <1>7 DEF Phrased, Modes
  <2>2. Fits(2)
    BY <1>3, <1>8 DEF Phrased, Modes
  <2>3. Fits(3)
    BY <1>4, <1>9 DEF Phrased, Modes
  <2>4. Fits(4)
    BY <1>3, <1>10 DEF Phrased, Modes
  <2>5. Fits(5)
    BY <1>3, <1>6, <1>11 DEF Phrased, Modes
  <2>6. Fits(6)
    BY <1>4, <1>12 DEF Phrased, Modes
  <2>7. Fits(7)
    BY <1>5, <1>13 DEF Phrased, Modes
  <2> HIDE DEF Fits
  <2> QED
    BY <2>1, <2>2, <2>3, <2>4, <2>5, <2>6, <2>7
<1>15. \E i \in 1 .. 7 : T[i].when /\ FirstOf(T) = T[i].then
  <2>1. 7 \in Nat \ {0}
    OBVIOUS
  <2> QED
    BY <1>2, <2>1, FirstRule
<1> QED
  BY <1>1, <1>14, <1>15

LEMMA ResolvedIsPhrased ==
    ASSUME NEW u, NEW t, NEW d, NEW action
    PROVE  LET r == ResolvePresentation(u, t, d, action) IN Phrased(u, r.mode, r.reply)
BY PresentedIsUnowned, PresentedIsPhrased, ModeFields DEF ResolvePresentation

LEMMA WordedIsSpoken ==
    ASSUME NEW u, NEW d, NEW r, Unowned(r) \/ Owned(r), Worded(u, r), r.sealed, ~Has(u, {"directions"})
    PROVE  Spoken(u, d, r) # "unavailable"
<1> DEFINE address == r.authority = "DETERMINISTIC" /\ Has(u, {"where", "location"})
           T == <<Rule(ShortCircuits(r), "template"),
                  Rule(r.authority = "FAQ", "faq"),
                  Rule(r.authority = "CARD_PRESENTATION", "cards"),
                  Rule(IsMap(d), "place"),
                  Rule(r.authority = "GROQ", "generated"),
                  Rule(address, "address"),
                  Rule(TRUE, "unavailable")>>
<1>1. Spoken(u, d, r) = FirstOf(T)
  BY DEF Spoken
<1>2. DOMAIN T = 1 .. 7 /\ T[7].when
  BY DEF Rule
<1>3. Has(u, WayWords) => Has(u, {"where", "location"})
  BY DEF Has, WayWords
<1>4. r.sealed = TRUE
  BY DEF Unowned, Owned
<1>5. ShortCircuits(r) \/ r.authority \in {"FAQ", "GROQ", "CARD_PRESENTATION"} \/ address
  BY <1>3, <1>4 DEF Worded, ShortCircuits
<1> HIDE DEF address
<1>6. T[1].when = ShortCircuits(r) /\ T[1].then = "template"
  BY DEF Rule
<1>7. T[2].when = (r.authority = "FAQ") /\ T[2].then = "faq"
  BY DEF Rule
<1>8. T[3].when = (r.authority = "CARD_PRESENTATION") /\ T[3].then = "cards"
  BY DEF Rule
<1>9. T[4].then = "place"
  BY DEF Rule
<1>10. T[5].when = (r.authority = "GROQ") /\ T[5].then = "generated"
  BY DEF Rule
<1>11. T[6].when = address /\ T[6].then = "address"
  BY DEF Rule
<1> HIDE DEF T
<1>12. PICK i \in 1 .. 7 : T[i].when /\ (\A j \in 1 .. i - 1 : ~T[j].when) /\ FirstOf(T) = T[i].then
  <2>1. 7 \in Nat \ {0}
    OBVIOUS
  <2> QED
    BY <1>2, <2>1, FirstRule
<1>13. i # 7
  <2>1. SUFFICES ASSUME i = 7
                 PROVE  FALSE
    OBVIOUS
  <2>2. ~T[1].when /\ ~T[2].when /\ ~T[3].when /\ ~T[5].when /\ ~T[6].when
    BY <1>12, <2>1
  <2> QED
    BY <1>5, <1>6, <1>7, <1>8, <1>10, <1>11, <2>2, Zenon
<1>14. T[i].then # "unavailable"
  BY <1>6, <1>7, <1>8, <1>9, <1>10, <1>11, <1>13
<1> QED
  BY <1>1, <1>12, <1>14

LEMMA SealedIsWorded ==
    ASSUME NEW u, NEW r, Unowned(r), Phrased(u, r.mode, r.reply)
    PROVE  Worded(u, SealUnlessCards(r))
<1>1. CASE AwaitsCards(r)
  BY <1>1 DEF SealUnlessCards, Worded, Unowned, AwaitsCards
<1>2. CASE ~AwaitsCards(r)
  <2> DEFINE authority == AuthorityOf(r)
             s == Seal(r, authority)
  <2>1. \/ authority \in {"FAQ", "GROQ", "CARD_PRESENTATION"}
        \/ r.mode \in {"RETRY", "UNKNOWN"}
        \/ r.mode = "DIRECT" /\ authority = "DETERMINISTIC"
    BY DEF AuthorityOf
  <2> HIDE DEF authority
  <2>2. s.mode = r.mode /\ s.reply = r.reply /\ s.authority = authority
    BY DEF Seal, Unowned, ResolutionFields
  <2> HIDE DEF s
  <2>3. SealUnlessCards(r) = s
    BY <1>2 DEF SealUnlessCards, s, authority
  <2> QED
    BY <2>1, <2>2, <2>3 DEF Worded, Phrased
<1> QED
  BY <1>1, <1>2

LEMMA AttachedIsWorded ==
    ASSUME NEW u, NEW r, Unowned(r), Worded(u, r), NEW request, NEW d, NEW fault
    PROVE  Worded(u, Attach(r, request, d, fault))
<1> DEFINE bundle == Narration(r, request, d)
<1>1. Worded(u, Degrade(r))
  <2> DEFINE s == [r EXCEPT !.mode = "FULL_TEXT", !.generate = FALSE, !.surface = "none", !.degraded = TRUE]
  <2>1. DOMAIN s = ResolutionFields /\ s.mode = "FULL_TEXT"
    BY DEF Unowned, ResolutionFields
  <2> HIDE DEF s
  <2>2. Seal(s, "GROQ").mode = "FULL_TEXT" /\ Seal(s, "GROQ").authority = "GROQ"
    BY <2>1 DEF Seal, ResolutionFields
  <2>3. Degrade(r) = Seal(s, "GROQ")
    BY DEF Degrade, s
  <2> QED
    BY <2>2, <2>3 DEF Worded
<1>2. Worded(u, Seal([r EXCEPT !.bundle = bundle], "CARD_PRESENTATION"))
  <2> DEFINE s == [r EXCEPT !.bundle = bundle]
  <2>1. DOMAIN s = ResolutionFields /\ s.mode = r.mode /\ s.reply = r.reply
    BY DEF Unowned, ResolutionFields
  <2> HIDE DEF s, bundle
  <2>2. LET w == Seal(s, "CARD_PRESENTATION")
        IN  w.mode = r.mode /\ w.reply = r.reply /\ w.authority = "CARD_PRESENTATION"
    BY <2>1 DEF Seal, ResolutionFields
  <2>3. Worded(u, Seal(s, "CARD_PRESENTATION"))
    BY <2>2 DEF Worded
  <2> QED
    BY <2>3 DEF s
<1>3. \/ Attach(r, request, d, fault) = r
      \/ Attach(r, request, d, fault) = Degrade(r)
      \/ Attach(r, request, d, fault) = Seal([r EXCEPT !.bundle = bundle], "CARD_PRESENTATION")
  BY Zenon DEF Attach, AttachBundle
<1> QED
  BY <1>1, <1>2, <1>3

\* The words of a turn, as long as it has been decided.
HasWords == turn.at \in {"decided", "attached"} => Worded(turn.text, turn.resolution)

LEMMA WordsStep == IInv /\ HasWords /\ [Next]_vars => HasWords'
<1> SUFFICES ASSUME IInv, HasWords, [Next]_vars
             PROVE  HasWords'
  OBVIOUS
<1>1. ASSUME NEW u, NEW clicked, Begin(u, clicked) PROVE HasWords'
  BY <1>1 DEF Begin, HasWords, NoTurn
<1>2. ASSUME AskToRepeat PROVE HasWords'
  <2> DEFINE resolution == SealUnlessCards(Silent("RETRY", TRUE))
  <2>1. Silent("RETRY", TRUE).mode = "RETRY" /\ Silent("RETRY", TRUE).reply = TRUE
    BY SilentMode, Zenon
  <2>2. Worded(turn.text, resolution)
    BY <2>1, SilentIsUnowned, SealedIsWorded DEF Phrased, Modes
  <2> HIDE DEF resolution
  <2>3. turn'.text = turn.text /\ turn'.resolution = resolution
    BY <1>2 DEF AskToRepeat, resolution, IInv, Shape, TurnFields
  <2> QED
    BY <2>2, <2>3 DEF HasWords
<1>3. ASSUME Decide PROVE HasWords'
  <2>1. PICK t \in Facts : \E d \in {Resolve(turn.text, t)} :
            DecideAs(t, d, RoutePolicy(turn.text, t, d, memory.aboutMe))
    BY <1>3 DEF Decide
  <2>2. PICK d, action : DecideAs(t, d, action)
    BY <2>1
  <2> DEFINE resolution == SealUnlessCards(ResolvePresentation(turn.text, t, d, action))
  <2>3. Worded(turn.text, resolution)
    BY ResolvedIsUnowned, ResolvedIsPhrased, SealedIsWorded
  <2> HIDE DEF resolution
  <2>4. turn'.text = turn.text /\ turn'.resolution = resolution
    BY <2>2 DEF DecideAs, resolution, IInv, Shape, TurnFields
  <2> QED
    BY <2>3, <2>4 DEF HasWords
<1>4. ASSUME NEW fault, AttachNarration(fault) PROVE HasWords'
  <2> DEFINE resolution == Attach(turn.resolution, turn.request, turn.decision, fault)
  <2>1. Unowned(turn.resolution) /\ Worded(turn.text, turn.resolution)
    BY <1>4 DEF AttachNarration, IInv, HasOwnerOrNone, Owned, HasWords
  <2>2. Worded(turn.text, resolution)
    BY <2>1, AttachedIsWorded
  <2> HIDE DEF resolution
  <2>3. turn'.text = turn.text /\ turn'.resolution = resolution
    BY <1>4 DEF AttachNarration, resolution, IInv, Shape, TurnFields
  <2> QED
    BY <2>2, <2>3 DEF HasWords
<1>5. ASSUME turn' = NoTurn PROVE HasWords'
  BY <1>5, NoTurnShape DEF HasWords
<1>6. ASSUME UNCHANGED vars PROVE HasWords'
  BY <1>6 DEF vars, HasWords
<1>7. ASSUME NEW fault \in Faults, AttachNarration(fault) PROVE HasWords'
  BY <1>4, <1>7
<1> QED
  BY <1>1, <1>2, <1>3, <1>5, <1>6, <1>7 DEF Next, Hear, Click, Finish, Fail, Interrupt, Reset

\* Somebody answers, whatever is said and proposed: a sealed turn has a ready
\* text, cards or a generated reply, but for a way to somewhere without a name.
THEOREM AnswerTheorem == Spec => []SomebodyAnswers
<1>1. Init => HasWords
  BY NoTurnShape DEF Init, HasWords
<1>2. IInv /\ HasWords => SomebodyAnswers
  BY WordedIsSpoken DEF IInv, HasOwnerOrNone, HasWords, SomebodyAnswers, Ready
<1> QED
  BY <1>1, <1>2, WordsStep, Invariant, PTL DEF Spec

-----------------------------------------------------------------------------
\* A card is shown only where one was decided on.

\* Sealing gives a resolution an owner and leaves the rest of it alone.
LEMMA SealKeeps ==
    ASSUME NEW r, DOMAIN r = ResolutionFields, NEW authority
    PROVE  /\ Seal(r, authority).mode = r.mode /\ Seal(r, authority).surface = r.surface
           /\ Seal(r, authority).reply = r.reply
<1>1. CASE authority = "CARD_PRESENTATION"
  BY <1>1 DEF Seal, ResolutionFields
<1>2. CASE authority = "GROQ"
  BY <1>2 DEF Seal, ResolutionFields
<1>3. CASE authority \notin {"CARD_PRESENTATION", "GROQ"}
  BY <1>3 DEF Seal, ResolutionFields
<1> QED
  BY <1>1, <1>2, <1>3

LEMMA SealedKeeps ==
    ASSUME NEW r, Unowned(r)
    PROVE  LET s == SealUnlessCards(r) IN s.mode = r.mode /\ s.surface = r.surface /\ s.reply = r.reply
<1>1. LET s == Seal(r, AuthorityOf(r)) IN s.mode = r.mode /\ s.surface = r.surface /\ s.reply = r.reply
  BY SealKeeps DEF Unowned
<1>2. SealUnlessCards(r) = r \/ SealUnlessCards(r) = Seal(r, AuthorityOf(r))
  BY Zenon DEF SealUnlessCards
<1> QED
  BY <1>1, <1>2

\* Without such an action the presentation has no cards and no surface for them.
LEMMA PlainSurfaces ==
    ASSUME NEW mode, NEW reply, NEW x, NEW y
    PROVE  /\ Silent(mode, reply).surface = "none" /\ Silent(mode, reply).mode = mode
           /\ LET r == [NewResolution EXCEPT !.rag = x, !.reply = y]
              IN  r.surface = "none" /\ r.mode = "NORMAL_REPLY"
BY DEF Silent, NewResolution

LEMMA WordsHaveNoSurface ==
    ASSUME NEW u, NEW t, NEW d, NEW act, NEW intent, act \notin {"CARD_PRESENTATION", "ABOUT_ME"}
    PROVE  LET r == Presented(u, t, d, act, intent) IN r.surface = "none" /\ r.mode # "CARD_PRESENTATION"
<1> DEFINE topic == IF t.request.items # <<>> /\ intent # "CAMPUS_NAVIGATION" THEN t.request.items[1].topic
                    ELSE SemanticTopic(u)
           rag == d.domain # "unknown"
           reply == d.why = "ncc_enrollment_guidance"
           generated == [NewResolution EXCEPT !.rag = rag, !.reply = reply]
           planned == UnderUnitPlan(Cards(Surface(t.local, topic, intent)), t.request, t.local)
           lost == /\ intent # "CAMPUS_NAVIGATION" /\ SemanticTopic(u) = "LOCATION"
                   /\ t.request.items = <<>>
           T == <<Rule(act \in {"UNKNOWN", "ASK_CLARIFICATION"}, Silent("UNKNOWN", TRUE)),
                  Rule(act \in {"ENTITY_UPDATE", "GREETING", "SMALL_TALK", "THANKS_CLOSING"}, Silent("DIRECT", TRUE)),
                  Rule(act = "ABOUT_ME", Cards("about_me")),
                  Rule(act = "DIRECT_RESPONSE", Silent("DIRECT_FAQ", FALSE)),
                  Rule(lost, Silent("DIRECT", FALSE)),
                  Rule(act = "CARD_PRESENTATION", planned),
                  Rule(TRUE, generated)>>
           Plain(r) == r.surface = "none" /\ r.mode # "CARD_PRESENTATION"
<1>1. Presented(u, t, d, act, intent) = FirstOf(T)
  BY DEF Presented
<1>2. DOMAIN T = 1 .. 7 /\ T[7].when
  BY DEF Rule
<1>3. /\ Plain(Silent("UNKNOWN", TRUE)) /\ Plain(Silent("DIRECT", TRUE))
      /\ Plain(Silent("DIRECT_FAQ", FALSE)) /\ Plain(Silent("DIRECT", FALSE))
  <2>1. \A m, worded : Silent(m, worded).surface = "none" /\ Silent(m, worded).mode = m
    BY PlainSurfaces
  <2> QED
    BY <2>1
<1>4. Plain(generated)
  BY PlainSurfaces
<1> HIDE DEF generated, planned, topic, lost, Plain
<1>5. \A w, v : Rule(w, v).then = v /\ Rule(w, v).when = w
  BY DEF Rule
<1>6. T[1].then = Silent("UNKNOWN", TRUE)
  BY <1>5
<1>7. T[2].then = Silent("DIRECT", TRUE)
  BY <1>5
<1>8. T[3].when = (act = "ABOUT_ME") /\ T[6].when = (act = "CARD_PRESENTATION")
  BY <1>5
<1>9. T[4].then = Silent("DIRECT_FAQ", FALSE)
  BY <1>5
<1>10. T[5].then = Silent("DIRECT", FALSE)
  BY <1>5
<1>11. T[7].then = generated
  BY <1>5
<1> HIDE DEF T
<1>12. \A i \in 1 .. 7 : T[i].when => Plain(T[i].then)
  <2>1. Plain(T[1].then) /\ Plain(T[2].then) /\ Plain(T[4].then) /\ Plain(T[5].then) /\ Plain(T[7].then)
    BY <1>3, <1>4, <1>6, <1>7, <1>9, <1>10, <1>11
  <2>2. ~T[3].when /\ ~T[6].when
    BY <1>8, Zenon
  <2> QED
    BY <2>1, <2>2
<1>13. \E i \in 1 .. 7 : T[i].when /\ FirstOf(T) = T[i].then
  <2>1. 7 \in Nat \ {0}
    OBVIOUS
  <2> QED
    BY <1>2, <2>1, FirstRule
<1>14. Plain(Presented(u, t, d, act, intent))
  BY <1>1, <1>12, <1>13
<1> QED
  BY <1>14 DEF Plain

LEMMA ResolvedHasNoSurface ==
    ASSUME NEW u, NEW t, NEW d, NEW action, action \notin {"CARD_PRESENTATION", "ABOUT_ME"}
    PROVE  LET r == ResolvePresentation(u, t, d, action) IN r.surface = "none" /\ r.mode # "CARD_PRESENTATION"
<1> DEFINE intent == PresentationIntent(t, d)
           r == Presented(u, t, d, action, intent)
<1>1. r.surface = "none" /\ r.mode # "CARD_PRESENTATION" /\ DOMAIN r = ResolutionFields
  BY WordsHaveNoSurface, PresentedIsUnowned DEF Unowned
<1>2. ResolvePresentation(u, t, d, action) = [r EXCEPT !.intent = intent]
  BY DEF ResolvePresentation, Presentable
<1> HIDE DEF r, intent
<1> QED
  BY <1>1, <1>2 DEF ResolutionFields

\* What main.py works out again for a turn that is told is no profile card.
Told(d, r) ==
    d.mode \in {"ANSWER", "CLARIFY", "FALLBACK"} /\ ~IsMap(d) /\ r.surface = "none" /\ r.mode # "CARD_PRESENTATION"

LEMMA RuledToWords ==
    ASSUME NEW own, NEW d, NEW r, Told(d, r)
    PROVE  RuledIntent(own, d, r) \notin {"PRINCIPAL_PROFILE", "VICE_PRINCIPAL_PROFILE"}
<1> DEFINE map == IsMap(d) \/ r.surface = "campus_navigation"
           told == d.mode \in {"ANSWER", "CLARIFY"} /\ own \in CardIntents
           T == <<Rule(map, "CAMPUS_NAVIGATION"), Rule(told, "NORMAL_QUERY"),
                  Rule(d.mode = "FALLBACK", "OFF_TOPIC"), Rule(TRUE, own)>>
<1>1. RuledIntent(own, d, r) = FirstOf(T)
  BY DEF RuledIntent
<1>2. DOMAIN T = 1 .. 4 /\ T[4].when
  BY DEF Rule
<1>3. ~told /\ d.mode # "FALLBACK" => own \notin {"PRINCIPAL_PROFILE", "VICE_PRINCIPAL_PROFILE"}
  BY DEF Told, CardIntents, NonUnitCardIntents
<1> HIDE DEF map, told
<1>4. \A w, v : Rule(w, v).then = v /\ Rule(w, v).when = w
  BY DEF Rule
<1>5. /\ T[1].then = "CAMPUS_NAVIGATION" /\ T[2].then = "NORMAL_QUERY" /\ T[3].then = "OFF_TOPIC"
      /\ T[4].then = own
  BY <1>4
<1>6. T[2].when = told /\ T[3].when = (d.mode = "FALLBACK")
  BY <1>4
<1> HIDE DEF T
<1>7. PICK i \in 1 .. 4 : (\A j \in 1 .. i - 1 : ~T[j].when) /\ FirstOf(T) = T[i].then
  <2>1. 4 \in Nat \ {0}
    OBVIOUS
  <2> QED
    BY <1>2, <2>1, FirstRule
<1>8. i = 4 => ~told /\ d.mode # "FALLBACK"
  <2>1. i = 4 => ~T[2].when /\ ~T[3].when
    BY <1>7
  <2> QED
    BY <1>6, <2>1, Zenon
<1> QED
  BY <1>1, <1>3, <1>5, <1>7, <1>8

LEMMA ReplyToWords ==
    ASSUME NEW u, NEW local, NEW ruled, ruled \notin {"PRINCIPAL_PROFILE", "VICE_PRINCIPAL_PROFILE"}
    PROVE  ReplyIntentFor(u, local, ruled) \notin {"PRINCIPAL_PROFILE", "VICE_PRINCIPAL_PROFILE"}
<1> DEFINE a == Has(u, {"where", "location"}) /\ ruled # "BUS_ROUTES"
           b == ruled = "DEPARTMENT_COMPARISON" /\ Cardinality(Programs(u)) < 2
           c == /\ ruled \in {"DEPARTMENT_OVERVIEW", "DEPARTMENT_FEES"}
                /\ Programs(u) = {} /\ local = NoLocal
           T == <<Rule(a, "NORMAL_QUERY"), Rule(b, "NORMAL_QUERY"), Rule(c, "NORMAL_QUERY"), Rule(TRUE, ruled)>>
<1>1. ReplyIntentFor(u, local, ruled) = FirstOf(T)
  BY DEF ReplyIntentFor
<1>2. DOMAIN T = 1 .. 4 /\ T[4].when
  BY DEF Rule
<1> HIDE DEF a, b, c
<1>3. T[1].then = "NORMAL_QUERY" /\ T[2].then = "NORMAL_QUERY" /\ T[3].then = "NORMAL_QUERY" /\ T[4].then = ruled
  BY DEF Rule
<1> HIDE DEF T
<1>4. \E i \in 1 .. 4 : FirstOf(T) = T[i].then
  <2>1. 4 \in Nat \ {0}
    OBVIOUS
  <2> QED
    BY <1>2, <2>1, FirstRule
<1> QED
  BY <1>1, <1>3, <1>4

LEMMA ToldShowsNothing ==
    ASSUME NEW u, NEW local, NEW d, NEW r, Told(d, r)
    PROVE  Shown(u, local, d, r) = "none"
<1> DEFINE intent == ReplyIntent(u, local, d, r)
           silent == ShortCircuits(r) \/ r.authority = "FAQ"
           map == IsMap(d) \/ r.surface = "campus_navigation"
           older == Surface(local, "none", intent)
           T == <<Rule(silent, "none"), Rule(map, "campus_navigation"),
                  Rule(intent = "PRINCIPAL_PROFILE", "principal_profile"),
                  Rule(intent = "VICE_PRINCIPAL_PROFILE", "vice_principal_profile"),
                  Rule(r.surface # "none", r.surface), Rule(d.mode = "CARD", older), Rule(TRUE, "none")>>
<1>1. Shown(u, local, d, r) = FirstOf(T)
  BY DEF Shown, ShownFor
<1>2. DOMAIN T = 1 .. 7 /\ T[7].when
  BY DEF Rule
<1>3. intent \notin {"PRINCIPAL_PROFILE", "VICE_PRINCIPAL_PROFILE"}
  BY RuledToWords, ReplyToWords DEF ReplyIntent
<1>4. ~map /\ r.surface = "none" /\ d.mode # "CARD"
  BY DEF Told
<1> HIDE DEF intent, silent, map, older
<1>5. \A w, v : Rule(w, v).then = v /\ Rule(w, v).when = w
  BY DEF Rule
<1>6. T[1].then = "none" /\ T[7].then = "none"
  BY <1>5
<1>7. /\ T[2].when = map /\ T[3].when = (intent = "PRINCIPAL_PROFILE")
      /\ T[4].when = (intent = "VICE_PRINCIPAL_PROFILE")
  BY <1>5
<1>8. T[5].when = (r.surface # "none") /\ T[6].when = (d.mode = "CARD")
  BY <1>5
<1> HIDE DEF T
<1>9. PICK i \in 1 .. 7 : T[i].when /\ FirstOf(T) = T[i].then
  <2>1. 7 \in Nat \ {0}
    OBVIOUS
  <2> QED
    BY <1>2, <2>1, FirstRule
<1>10. i \notin 2 .. 6
  <2>1. ~T[2].when /\ ~T[3].when /\ ~T[4].when /\ ~T[5].when /\ ~T[6].when
    BY <1>3, <1>4, <1>7, <1>8, Zenon
  <2> QED
    BY <1>9, <2>1
<1>11. i = 1 \/ i = 7
  BY <1>10
<1> QED
  BY <1>1, <1>6, <1>9, <1>11

LEMMA RetryShowsNothing ==
    ASSUME NEW u, NEW local, NEW d, NEW r, ShortCircuits(r)
    PROVE  Shown(u, local, d, r) = "none"
<1> DEFINE intent == ReplyIntent(u, local, d, r)
           silent == ShortCircuits(r) \/ r.authority = "FAQ"
           map == IsMap(d) \/ r.surface = "campus_navigation"
           older == Surface(local, "none", intent)
           T == <<Rule(silent, "none"), Rule(map, "campus_navigation"),
                  Rule(intent = "PRINCIPAL_PROFILE", "principal_profile"),
                  Rule(intent = "VICE_PRINCIPAL_PROFILE", "vice_principal_profile"),
                  Rule(r.surface # "none", r.surface), Rule(d.mode = "CARD", older), Rule(TRUE, "none")>>
<1>1. Shown(u, local, d, r) = FirstOf(T)
  BY DEF Shown, ShownFor
<1>2. DOMAIN T = 1 .. 7 /\ T[7].when
  BY DEF Rule
<1>3. silent
  OBVIOUS
<1> HIDE DEF intent, silent, map, older
<1>4. T[1].when = silent /\ T[1].then = "none"
  BY DEF Rule
<1> HIDE DEF T
<1>5. PICK i \in 1 .. 7 : (\A j \in 1 .. i - 1 : ~T[j].when) /\ FirstOf(T) = T[i].then
  <2>1. 7 \in Nat \ {0}
    OBVIOUS
  <2> QED
    BY <1>2, <2>1, FirstRule
<1>6. i = 1
  <2>1. T[1].when
    BY <1>3, <1>4, Zenon
  <2>2. i > 1 => 1 \in 1 .. i - 1
    OBVIOUS
  <2> QED
    BY <1>5, <2>1, <2>2
<1> QED
  BY <1>1, <1>4, <1>5, <1>6

\* A turn decided to be told, or one that asks to repeat, has nothing to show.
NothingToShow ==
    turn.at \in {"decided", "attached"} /\ turn.decision.mode # "CARD" /\ turn.action # "ABOUT_ME" =>
        Told(turn.decision, turn.resolution) \/ (turn.resolution.mode = "RETRY" /\ turn.resolution.reply = TRUE)

LEMMA NothingToShowStep == IInv /\ NothingToShow /\ [Next]_vars => NothingToShow'
<1> SUFFICES ASSUME IInv, NothingToShow, [Next]_vars
             PROVE  NothingToShow'
  OBVIOUS
<1>1. ASSUME NEW u, NEW clicked, Begin(u, clicked) PROVE NothingToShow'
  BY <1>1 DEF Begin, NothingToShow, NoTurn
<1>2. ASSUME AskToRepeat PROVE NothingToShow'
  <2> DEFINE resolution == SealUnlessCards(Silent("RETRY", TRUE))
  <2>1. Silent("RETRY", TRUE).mode = "RETRY" /\ Silent("RETRY", TRUE).reply = TRUE
    BY SilentMode, Zenon
  <2>2. resolution.mode = "RETRY" /\ resolution.reply = TRUE
    BY <2>1, SilentIsUnowned, SealedKeeps
  <2> HIDE DEF resolution
  <2>3. turn'.resolution = resolution
    BY <1>2 DEF AskToRepeat, resolution, IInv, Shape, TurnFields
  <2> QED
    BY <2>2, <2>3 DEF NothingToShow
<1>3. ASSUME Decide PROVE NothingToShow'
  <2>1. PICK t \in Facts : \E d \in {Resolve(turn.text, t)} :
            DecideAs(t, d, RoutePolicy(turn.text, t, d, memory.aboutMe))
    BY <1>3 DEF Decide
  <2> DEFINE d == Resolve(turn.text, t)
             action == RoutePolicy(turn.text, t, d, memory.aboutMe)
             resolution == SealUnlessCards(ResolvePresentation(turn.text, t, d, action))
  <2>2. DecideAs(t, d, action)
    BY <2>1
  <2>3. d.mode \in DecisionModes /\ (IsMap(d) => d.mode = "CARD")
    BY Resolved DEF Fair, IsMap
  <2>4. t.local # NoLocal => d.mode = "CARD"
    <3>1. ClickDecision(t.local).mode = "CARD"
      BY PlainDecisions DEF ClickDecision, DecisionFields
    <3> QED
      BY <3>1 DEF Resolve
  <2> HIDE DEF d
  <2>5. d.mode # "CARD" => action # "CARD_PRESENTATION"
    BY <2>3, <2>4, PolicySays
  <2> HIDE DEF action
  <2>6. LET r == ResolvePresentation(turn.text, t, d, action)
        IN  resolution.surface = r.surface /\ resolution.mode = r.mode
    BY ResolvedIsUnowned, SealedKeeps
  <2>7. d.mode # "CARD" /\ action # "ABOUT_ME" => Told(d, resolution)
    BY <2>3, <2>5, <2>6, ResolvedHasNoSurface DEF Told, DecisionModes
  <2> HIDE DEF resolution
  <2>8. turn'.decision = d /\ turn'.action = action /\ turn'.resolution = resolution
    BY <2>2 DEF DecideAs, resolution, IInv, Shape, TurnFields
  <2> QED
    BY <2>7, <2>8 DEF NothingToShow
<1>4. ASSUME NEW fault, AttachNarration(fault) PROVE NothingToShow'
  <2>1. turn.resolution.mode = "CARD_PRESENTATION" /\ turn.at = "decided"
    BY <1>4 DEF AttachNarration, AwaitsCards
  <2>2. turn'.decision = turn.decision /\ turn'.action = turn.action
    BY <1>4 DEF AttachNarration, IInv, Shape, TurnFields
  <2> QED
    BY <2>1, <2>2 DEF NothingToShow, Told
<1>5. ASSUME turn' = NoTurn PROVE NothingToShow'
  BY <1>5, NoTurnShape DEF NothingToShow
<1>6. ASSUME UNCHANGED vars PROVE NothingToShow'
  BY <1>6 DEF vars, NothingToShow
<1>7. ASSUME NEW fault \in Faults, AttachNarration(fault) PROVE NothingToShow'
  BY <1>4, <1>7
<1> QED
  BY <1>1, <1>2, <1>3, <1>5, <1>6, <1>7 DEF Next, Hear, Click, Finish, Fail, Interrupt, Reset

\* No card is shown that was not decided on, whatever main.py makes of the same
\* words: in a turn that is told, its own intent never opens a profile.
THEOREM CardTheorem == Spec => []ShownWasDecided
<1>1. Init => NothingToShow
  BY NoTurnShape DEF Init, NothingToShow
<1>2. IInv /\ NothingToShow => ShownWasDecided
  <2> SUFFICES ASSUME IInv, NothingToShow, Ready, turn.decision.mode # "CARD", turn.action # "ABOUT_ME"
               PROVE  Shown(turn.text, turn.local, turn.decision, turn.resolution) = "none"
    BY DEF ShownWasDecided
  <2>1. Told(turn.decision, turn.resolution) \/ ShortCircuits(turn.resolution)
    BY DEF NothingToShow, Ready, ShortCircuits
  <2> QED
    BY <2>1, ToldShowsNothing, RetryShowsNothing
<1> QED
  BY <1>1, <1>2, NothingToShowStep, Invariant, PTL DEF Spec

-----------------------------------------------------------------------------
\* The operators on sequences that the parser is made of: what they keep and what
\* they leave out.

\* Every word there is: those a visitor may say, and those that completing an
\* utterance may add.
Lexicon == OtherNames \cup Departments \cup UNION {ToSet(u) : u \in Utterances}

\* Induction over a set of numbers.
LEMMA AllNumbers ==
    ASSUME NEW S \in SUBSET Nat, 0 \in S, \A n \in S : n + 1 \in S
    PROVE  \A n \in Nat : n \in S
<1> SUFFICES ASSUME Nat \ S # {} PROVE FALSE
  OBVIOUS
<1>1. PICK i \in Nat \ S : \A j \in Nat \ S : i <= j
  BY LeastOf
<1>2. i # 0 /\ i - 1 \in Nat
  BY <1>1
<1>3. i - 1 \in S
  BY <1>1, <1>2
<1> QED
  BY <1>1, <1>2, <1>3

\* At(s, places) is built step by step.
LEMMA AtSteps ==
    ASSUME NEW S, NEW s \in Seq(S), NEW places
    PROVE  \E f \in [0 .. Len(s) -> Seq({s[i] : i \in DOMAIN s \cap places})] :
             /\ \A k \in 0 .. Len(s) :
                  f[k] = IF k = 0 THEN <<>> ELSE IF k \in places THEN Append(f[k - 1], s[k]) ELSE f[k - 1]
             /\ At(s, places) = f[Len(s)]
<1> DEFINE Y == {s[i] : i \in DOMAIN s \cap places}
           Step(f, k) == IF k = 0 THEN <<>> ELSE IF k \in places THEN Append(f[k - 1], s[k]) ELSE f[k - 1]
           Good(n) == \E f \in [0 .. n -> Seq(Y)] : \A k \in 0 .. n : f[k] = Step(f, k)
           G == {n \in Nat : n <= Len(s) => Good(n)}
<1>1. Len(s) \in Nat /\ DOMAIN s = 1 .. Len(s)
  BY LenProperties
<1>2. 0 \in G
  <2> DEFINE f == [k \in 0 .. 0 |-> <<>>]
  <2>1. f \in [0 .. 0 -> Seq(Y)]
    OBVIOUS
  <2>2. \A k \in 0 .. 0 : f[k] = Step(f, k)
    OBVIOUS
  <2> HIDE DEF f, Step
  <2> QED
    BY <2>1, <2>2
<1>3. ASSUME NEW n \in G PROVE n + 1 \in G
  <2> SUFFICES ASSUME n + 1 <= Len(s) PROVE Good(n + 1)
    <3> HIDE DEF Good
    <3> QED
      BY <1>3
  <2>1. n \in Nat /\ Good(n)
    <3> HIDE DEF Good
    <3> QED
      BY <1>1, <1>3
  <2>2. PICK f \in [0 .. n -> Seq(Y)] : \A k \in 0 .. n : f[k] = Step(f, k)
    BY <2>1
  <2> DEFINE g == [k \in 0 .. n + 1 |-> IF k <= n THEN f[k] ELSE Step(f, n + 1)]
  <2>3. Step(f, n + 1) \in Seq(Y)
    <3>1. f[n] \in Seq(Y)
      <4>1. n \in 0 .. n
        BY <2>1
      <4> HIDE DEF Y, Step
      <4> QED
        BY <2>2, <4>1
    <3>2. n + 1 \in places => s[n + 1] \in Y
      BY <1>1, <2>1
    <3>3. n + 1 \in places => Append(f[n], s[n + 1]) \in Seq(Y)
      BY <3>1, <3>2
    <3> HIDE DEF Y
    <3> QED
      BY <2>1, <3>1, <3>3
  <2>4. g \in [0 .. n + 1 -> Seq(Y)]
    <3> HIDE DEF Step, Y
    <3>1. \A k \in 0 .. n + 1 : (IF k <= n THEN f[k] ELSE Step(f, n + 1)) \in Seq(Y)
      BY <2>1, <2>2, <2>3
    <3> QED
      BY <3>1
  <2>5. ASSUME NEW k \in 0 .. n + 1 PROVE g[k] = Step(g, k)
    <3>1. k # 0 => g[k - 1] = f[k - 1]
      BY <2>1
    <3>2. Step(g, k) = Step(f, k)
      BY <3>1
    <3>3. CASE k <= n
      <4>1. k \in 0 .. n /\ g[k] = f[k]
        BY <2>1, <3>3
      <4> QED
        BY <2>2, <3>2, <4>1
    <3>4. CASE ~(k <= n)
      <4>1. k = n + 1 /\ g[k] = Step(f, n + 1)
        BY <2>1, <3>4
      <4> QED
        BY <3>2, <4>1
    <3> QED
      BY <3>3, <3>4
  <2> HIDE DEF g, Step, Y
  <2> QED
    BY <2>4, <2>5
<1>4. Good(Len(s))
  <2>1. G \in SUBSET Nat
    OBVIOUS
  <2> HIDE DEF G, Good
  <2>2. \A n \in Nat : n \in G
    BY <1>2, <1>3, <2>1, AllNumbers
  <2> QED
    BY <1>1, <2>2 DEF G
<1>5. PICK f \in [0 .. Len(s) -> Seq(Y)] : \A k \in 0 .. Len(s) : f[k] = Step(f, k)
  BY <1>4
<1>6. f = [k \in 0 .. Len(s) |-> IF k = 0 THEN <<>> ELSE IF k \in places THEN Append(f[k - 1], s[k]) ELSE f[k - 1]]
  BY <1>5
<1> DEFINE upTo == CHOOSE g : g = [k \in 0 .. Len(s) |->
                      IF k = 0 THEN <<>> ELSE IF k \in places THEN Append(g[k - 1], s[k]) ELSE g[k - 1]]
<1>7. upTo = [k \in 0 .. Len(s) |->
                IF k = 0 THEN <<>> ELSE IF k \in places THEN Append(upTo[k - 1], s[k]) ELSE upTo[k - 1]]
  BY <1>6
<1>8. At(s, places) = upTo[Len(s)]
  BY DEF At
<1> HIDE DEF upTo
<1> DEFINE H == {n \in Nat : n <= Len(s) => upTo[n] = f[n]}
<1>9. 0 \in H
  BY <1>1, <1>6, <1>7
<1>10. ASSUME NEW n \in H PROVE n + 1 \in H
  <2> SUFFICES ASSUME n + 1 <= Len(s) PROVE upTo[n + 1] = f[n + 1]
    BY <1>10
  <2>1. n \in Nat /\ upTo[n] = f[n] /\ n + 1 \in 0 .. Len(s) /\ n + 1 # 0 /\ (n + 1) - 1 = n
    BY <1>1, <1>10
  <2>2. f[n + 1] = IF n + 1 \in places THEN Append(f[n], s[n + 1]) ELSE f[n]
    <3>1. \A k \in 0 .. Len(s) : k # 0 => f[k] = IF k \in places THEN Append(f[k - 1], s[k]) ELSE f[k - 1]
      BY <1>5
    <3> QED
      BY <2>1, <3>1
  <2>3. upTo[n + 1] = IF n + 1 \in places THEN Append(upTo[n], s[n + 1]) ELSE upTo[n]
    <3>1. \A k \in 0 .. Len(s) : k # 0 => upTo[k] = IF k \in places THEN Append(upTo[k - 1], s[k]) ELSE upTo[k - 1]
      BY <1>7, Zenon
    <3> QED
      BY <2>1, <3>1
  <2> QED
    BY <2>1, <2>2, <2>3
<1>11. upTo[Len(s)] = f[Len(s)]
  <2>1. H \in SUBSET Nat
    OBVIOUS
  <2> HIDE DEF H
  <2>2. \A n \in Nat : n \in H
    BY <1>9, <1>10, <2>1, AllNumbers
  <2> QED
    BY <1>1, <2>2 DEF H
<1> HIDE DEF Y
<1>12. At(s, places) = f[Len(s)]
  BY <1>8, <1>11
<1> QED
  BY <1>5, <1>12 DEF Y

\* It holds what stands at those places, and nothing else.
LEMMA AtPlaces ==
    ASSUME NEW S, NEW s \in Seq(S), NEW places
    PROVE  At(s, places) \in Seq({s[i] : i \in DOMAIN s \cap places})
<1> DEFINE Q == Seq({s[i] : i \in DOMAIN s \cap places})
<1>1. PICK f \in [0 .. Len(s) -> Q] :
        /\ \A k \in 0 .. Len(s) :
             f[k] = IF k = 0 THEN <<>> ELSE IF k \in places THEN Append(f[k - 1], s[k]) ELSE f[k - 1]
        /\ At(s, places) = f[Len(s)]
  BY AtSteps
<1>2. Len(s) \in 0 .. Len(s)
  BY LenProperties
<1> HIDE DEF Q
<1>3. At(s, places) \in Q
  BY <1>1, <1>2
<1> QED
  BY <1>3 DEF Q

\* Nothing stands at no place.
LEMMA AtNothing ==
    ASSUME NEW S, NEW s \in Seq(S), NEW places, At(s, places) = <<>>
    PROVE  DOMAIN s \cap places = {}
<1> DEFINE Y == {s[i] : i \in DOMAIN s \cap places}
<1>1. Len(s) \in Nat /\ DOMAIN s = 1 .. Len(s)
  BY LenProperties
<1>2. PICK f \in [0 .. Len(s) -> Seq(Y)] :
        /\ \A k \in 0 .. Len(s) :
             f[k] = IF k = 0 THEN <<>> ELSE IF k \in places THEN Append(f[k - 1], s[k]) ELSE f[k - 1]
        /\ At(s, places) = f[Len(s)]
  BY AtSteps
<1> DEFINE Full(n) == (\E i \in 1 .. n : i \in places) => f[n] # <<>>
           G == {n \in Nat : n <= Len(s) => Full(n)}
<1>3. 0 \in G
  OBVIOUS
<1>4. ASSUME NEW n \in G PROVE n + 1 \in G
  <2> SUFFICES ASSUME n + 1 <= Len(s), NEW i \in 1 .. n + 1, i \in places PROVE f[n + 1] # <<>>
    BY <1>4
  <2>1. n \in Nat /\ n \in 0 .. Len(s) /\ n + 1 \in 0 .. Len(s) /\ n + 1 # 0 /\ (n + 1) - 1 = n /\ Full(n)
    BY <1>1, <1>4
  <2>2. f[n + 1] = IF n + 1 \in places THEN Append(f[n], s[n + 1]) ELSE f[n]
    <3>1. \A k \in 0 .. Len(s) : k # 0 => f[k] = IF k \in places THEN Append(f[k - 1], s[k]) ELSE f[k - 1]
      BY <1>2
    <3> QED
      BY <2>1, <3>1
  <2>3. CASE n + 1 \in places
    <3>1. f[n] \in Seq(Y) /\ s[n + 1] \in Y
      <4>1. n + 1 \in DOMAIN s
        BY <1>1, <2>1
      <4>2. s[n + 1] \in Y
        BY <2>3, <4>1
      <4> HIDE DEF Y
      <4> QED
        BY <1>2, <2>1, <4>2
    <3> HIDE DEF Y
    <3>2. Append(f[n], s[n + 1]) # <<>>
      BY <3>1, AppendProperties
    <3> QED
      BY <2>2, <2>3, <3>2
  <2>4. CASE n + 1 \notin places
    <3>1. i \in 1 .. n
      BY <2>1, <2>4
    <3> QED
      BY <2>1, <2>2, <2>4, <3>1
  <2> QED
    BY <2>3, <2>4
<1>5. Full(Len(s))
  <2>1. G \in SUBSET Nat
    OBVIOUS
  <2> HIDE DEF G, Full
  <2>2. \A n \in Nat : n \in G
    BY <1>3, <1>4, <2>1, AllNumbers
  <2> QED
    BY <1>1, <2>2 DEF G
<1> QED
  BY <1>1, <1>2, <1>5
\* A sequence of sequences, one after the other.
LEMMA Flattened ==
    ASSUME NEW S, NEW seqs \in Seq(Seq(S))
    PROVE  FlattenSeq(seqs) \in Seq(S)
<1>1. Len(seqs) \in Nat /\ DOMAIN seqs = 1 .. Len(seqs) /\ \A k \in 1 .. Len(seqs) : seqs[k] \in Seq(S)
  BY LenProperties, ElementOfSeq
<1>2. CASE Len(seqs) = 0
  <2>1. seqs = <<>>
    BY <1>2, EmptySeq
  <2>2. FlattenSeq(seqs) = seqs
    BY <1>2 DEF FlattenSeq
  <2>3. <<>> \in Seq(S)
    OBVIOUS
  <2> QED
    BY <2>1, <2>2, <2>3, Zenon
<1>3. CASE Len(seqs) # 0
  <2> DEFINE N == Len(seqs)
             Step(f, i) == IF i = 1 THEN seqs[i] ELSE f[i - 1] \o seqs[i]
             Good(n) == \E f \in [1 .. n -> Seq(S)] : \A i \in 1 .. n : f[i] = Step(f, i)
             G == {n \in Nat : n <= N => Good(n)}
  <2>1. 0 \in G
    <3> DEFINE f == [i \in 1 .. 0 |-> <<>>]
    <3>1. f \in [1 .. 0 -> Seq(S)] /\ \A i \in 1 .. 0 : f[i] = Step(f, i)
      OBVIOUS
    <3> HIDE DEF f, Step
    <3> QED
      BY <3>1
  <2>2. ASSUME NEW n \in G PROVE n + 1 \in G
    <3> SUFFICES ASSUME n + 1 <= N PROVE Good(n + 1)
      <4> HIDE DEF Good
      <4> QED
        BY <2>2
    <3>1. n \in Nat /\ Good(n)
      <4> HIDE DEF Good
      <4> QED
        BY <1>1, <2>2
    <3>2. PICK f \in [1 .. n -> Seq(S)] : \A i \in 1 .. n : f[i] = Step(f, i)
      BY <3>1
    <3> DEFINE g == [i \in 1 .. n + 1 |-> IF i <= n THEN f[i] ELSE Step(f, n + 1)]
    <3>3. Step(f, n + 1) \in Seq(S)
      <4>1. seqs[n + 1] \in Seq(S)
        BY <1>1, <3>1
      <4>2. n + 1 # 1 => f[n] \in Seq(S)
        <5>1. n + 1 # 1 => n \in 1 .. n
          BY <3>1
        <5> HIDE DEF Step
        <5> QED
          BY <3>2, <5>1
      <4>3. n + 1 # 1 => f[n] \o seqs[n + 1] \in Seq(S)
        BY <4>1, <4>2
      <4> QED
        BY <3>1, <4>1, <4>3
    <3>4. g \in [1 .. n + 1 -> Seq(S)]
      <4> HIDE DEF Step
      <4>1. \A i \in 1 .. n + 1 : (IF i <= n THEN f[i] ELSE Step(f, n + 1)) \in Seq(S)
        BY <3>1, <3>2, <3>3
      <4> QED
        BY <4>1
    <3>5. ASSUME NEW i \in 1 .. n + 1 PROVE g[i] = Step(g, i)
      <4>1. i # 1 => g[i - 1] = f[i - 1]
        BY <3>1
      <4>2. Step(g, i) = Step(f, i)
        BY <4>1
      <4>3. CASE i <= n
        <5>1. i \in 1 .. n /\ g[i] = f[i]
          BY <3>1, <4>3
        <5> QED
          BY <3>2, <4>2, <5>1
      <4>4. CASE ~(i <= n)
        <5>1. i = n + 1 /\ g[i] = Step(f, n + 1)
          BY <3>1, <4>4
        <5> QED
          BY <4>2, <5>1
      <4> QED
        BY <4>3, <4>4
    <3> HIDE DEF g, Step
    <3> QED
      BY <3>4, <3>5
  <2>3. Good(N)
    <3>1. G \in SUBSET Nat
      OBVIOUS
    <3> HIDE DEF G, Good
    <3>2. \A n \in Nat : n \in G
      BY <2>1, <2>2, <3>1, AllNumbers
    <3> QED
      BY <1>1, <3>2 DEF G
  <2>4. PICK f \in [1 .. N -> Seq(S)] : \A i \in 1 .. N : f[i] = Step(f, i)
    BY <2>3
  <2>5. f = [i \in 1 .. N |-> IF i = 1 THEN seqs[i] ELSE f[i - 1] \o seqs[i]]
    BY <2>4
  <2> DEFINE flatten == CHOOSE g : g = [i \in 1 .. N |-> IF i = 1 THEN seqs[i] ELSE g[i - 1] \o seqs[i]]
  <2>6. flatten = [i \in 1 .. N |-> IF i = 1 THEN seqs[i] ELSE flatten[i - 1] \o seqs[i]]
    BY <2>5
  <2>7. FlattenSeq(seqs) = flatten[N]
    BY <1>3 DEF FlattenSeq
  <2> HIDE DEF flatten
  <2> DEFINE H == {n \in Nat : n + 1 <= N => flatten[n + 1] = f[n + 1]}
  <2>8. 0 \in H
    <3>1. 1 <= N => 1 \in 1 .. N
      BY <1>1
    <3>2. 1 <= N => flatten[1] = seqs[1] /\ f[1] = seqs[1]
      BY <2>4, <2>6, <3>1
    <3> QED
      BY <3>2
  <2>9. ASSUME NEW n \in H PROVE n + 1 \in H
    <3> SUFFICES ASSUME (n + 1) + 1 <= N PROVE flatten[(n + 1) + 1] = f[(n + 1) + 1]
      BY <2>9
    <3> DEFINE m == (n + 1) + 1
    <3>1. n \in Nat /\ flatten[n + 1] = f[n + 1]
      BY <1>1, <2>9
    <3>2. m \in 1 .. N /\ m # 1 /\ m - 1 = n + 1
      BY <1>1, <3>1
    <3>3. f[m] = f[n + 1] \o seqs[m]
      <4>1. \A i \in 1 .. N : i # 1 => f[i] = f[i - 1] \o seqs[i]
        BY <2>4
      <4> HIDE DEF m, N
      <4> QED
        BY <3>2, <4>1
    <3>4. flatten[m] = flatten[n + 1] \o seqs[m]
      <4>1. \A i \in 1 .. N : i # 1 => flatten[i] = flatten[i - 1] \o seqs[i]
        BY <2>6, Zenon
      <4> HIDE DEF m, N
      <4> QED
        BY <3>2, <4>1
    <3> QED
      BY <3>1, <3>3, <3>4
  <2>10. flatten[N] = f[N]
    <3>1. H \in SUBSET Nat
      OBVIOUS
    <3> HIDE DEF H
    <3>2. \A n \in Nat : n \in H
      BY <2>8, <2>9, <3>1, AllNumbers
    <3>3. N - 1 \in H /\ (N - 1) + 1 = N
      BY <1>1, <1>3, <3>2
    <3> QED
      BY <3>3, <1>1, <1>3 DEF H
  <2>11. N \in 1 .. N
    BY <1>1, <1>3
  <2> HIDE DEF N
  <2> QED
    BY <2>4, <2>7, <2>10, <2>11
<1> QED
  BY <1>2, <1>3

LEMMA AtKeeps ==
    ASSUME NEW S, NEW s \in Seq(S), NEW places
    PROVE  At(s, places) \in Seq(S)
<1> DEFINE Y == {s[i] : i \in DOMAIN s \cap places}
<1>1. Y \subseteq S
  BY ElementOfSeq, LenProperties
<1>2. At(s, places) \in Seq(Y)
  BY AtPlaces
<1> HIDE DEF Y
<1> QED
  BY <1>1, <1>2, SeqMonotonic

LEMMA OnceKeeps ==
    ASSUME NEW S, NEW s \in Seq(S)
    PROVE  Once(s) \in Seq(S)
BY AtKeeps DEF Once

\* A sequence of what is found in another one, place by place.
LEMMA Mapped ==
    ASSUME NEW S, NEW T, NEW s \in Seq(S), NEW f, DOMAIN f = DOMAIN s, \A i \in DOMAIN s : f[i] \in T,
           f = [i \in DOMAIN s |-> f[i]]
    PROVE  f \in Seq(T)
<1>1. Len(s) \in Nat /\ DOMAIN s = 1 .. Len(s)
  BY LenProperties
<1>2. f \in [1 .. Len(s) -> T]
  BY <1>1
<1> QED
  BY <1>1, <1>2, SeqDef

\* Spans of a set of words.
-----------------------------------------------------------------------------
\* The parser, one of its tables after the other.  Whatever it finds is found in the
\* utterance or in what the session remembers: Parsed says so of the whole request.

SpansOf(W) == [of : W, at : Nat]

LEMMA AllSpansOf ==
    ASSUME NEW u \in Seq(Lexicon), NEW words
    PROVE  AllSpans(u, words) \in Seq(SpansOf(ToSet(u) \cap words))
<1> DEFINE s == [i \in DOMAIN u |-> Span(u[i], i - 1)]
           I == {i \in DOMAIN u : u[i] \in words}
           Y == {s[i] : i \in DOMAIN s \cap I}
<1>1. Len(u) \in Nat /\ DOMAIN u = 1 .. Len(u)
  BY LenProperties
<1>2. \A i \in DOMAIN u : s[i] \in SpansOf(ToSet(u))
  BY <1>1 DEF Span, SpansOf, ToSet
<1>3. s \in Seq(SpansOf(ToSet(u)))
  BY <1>2, Mapped
<1>4. At(s, I) \in Seq(Y)
  <2> HIDE DEF s, I
  <2> QED
    BY <1>3, AtPlaces
<1>5. \A y \in Y : y \in SpansOf(ToSet(u) \cap words)
  BY <1>1 DEF Span, SpansOf, ToSet
<1> HIDE DEF Y, s, I
<1>6. At(s, I) \in Seq(SpansOf(ToSet(u) \cap words))
  BY <1>4, <1>5, SeqMonotonic
<1> QED
  BY <1>6 DEF AllSpans, s, I

LEMMA FirstSpansOf ==
    ASSUME NEW u \in Seq(Lexicon), NEW words
    PROVE  FirstSpans(u, words) \in Seq(SpansOf(ToSet(u) \cap words))
BY AllSpansOf, AtKeeps DEF FirstSpans

Asked(E, T) == [entity : E, topic : T]

LEMMA SpanFields ==
    ASSUME NEW W, NEW spans \in Seq(SpansOf(W)), NEW k \in DOMAIN spans
    PROVE  spans[k].of \in W /\ spans[k].at \in Nat
<1>1. spans[k] \in SpansOf(W)
  BY ElementOfSeq, LenProperties
<1> QED
  BY <1>1 DEF SpansOf

LEMMA Overviewed ==
    ASSUME NEW E, NEW spans \in Seq(SpansOf(E))
    PROVE  Overviews(spans) \in Seq(Asked(E, {"overview"}))
<1>1. \A k \in DOMAIN spans : Item(spans[k].of, "overview") \in Asked(E, {"overview"})
  BY SpanFields DEF Item, Asked
<1> QED
  BY <1>1, Mapped DEF Overviews

LEMMA TopicsFound ==
    ASSUME NEW u \in Seq(Lexicon)
    PROVE  /\ AtomicFound(u) \subseteq AtomicTopics
           /\ TopicSpans(u) \in Seq(SpansOf(PairableTopics))
           /\ Named(TopicSpans(u)) \subseteq PairableTopics
<1>1. AtomicFound(u) \subseteq AtomicTopics
  BY DEF AtomicFound, AtomicTopics
<1>2. TopicSpans(u) \in Seq(SpansOf(PairableTopics))
  <2> DEFINE all == AllSpans(u, TopicWords)
  <2>1. all \in Seq(SpansOf(ToSet(u) \cap TopicWords))
    BY AllSpansOf
  <2>2. \A w \in TopicWords : TopicOf(w) \in PairableTopics
    BY DEF TopicWords, TopicOf, PairableTopics, AtomicTopics
  <2> HIDE DEF all
  <2>3. \A k \in DOMAIN all : all[k].of \in TopicWords /\ all[k].at \in Nat
    BY <2>1, SpanFields
  <2>4. \A k \in DOMAIN all : Span(TopicOf(all[k].of), all[k].at) \in SpansOf(PairableTopics)
    BY <2>2, <2>3 DEF Span, SpansOf
  <2>5. [k \in DOMAIN all |-> Span(TopicOf(all[k].of), all[k].at)] \in Seq(SpansOf(PairableTopics))
    BY <2>1, <2>4, Mapped
  <2> QED
    BY <2>5 DEF TopicSpans, all
<1>3. Named(TopicSpans(u)) \subseteq PairableTopics
  BY <1>2, SpanFields DEF Named
<1> QED
  BY <1>1, <1>2, <1>3

LEMMA NamedOnce ==
    ASSUME NEW W, NEW spans \in Seq(SpansOf(W))
    PROVE  Once([k \in DOMAIN spans |-> spans[k].of]) \in Seq(W)
<1> DEFINE f == [k \in DOMAIN spans |-> spans[k].of]
<1>1. \A k \in DOMAIN spans : f[k] \in W
  BY SpanFields
<1>2. f \in Seq(W)
  BY <1>1, Mapped
<1> QED
  BY <1>2, OnceKeeps

LEMMA BoundByProximity ==
    ASSUME NEW E, NEW T, NEW entities \in Seq(SpansOf(E)), NEW topics \in Seq(SpansOf(T))
    PROVE  BindByProximity(entities, topics) \in Seq(Asked(E, T))
<1> DEFINE owner == [t \in DOMAIN topics |-> Nearest(entities, topics[t])]
           f == [t \in DOMAIN topics |-> Item(entities[owner[t]].of, topics[t].of)]
<1>1. CASE {owner[t] : t \in DOMAIN topics} = DOMAIN entities
  <2>1. \A t \in DOMAIN topics : owner[t] \in DOMAIN entities
    BY <1>1
  <2> HIDE DEF owner
  <2>2. \A t \in DOMAIN topics : entities[owner[t]].of \in E /\ topics[t].of \in T
    BY <2>1, SpanFields
  <2>3. \A t \in DOMAIN topics : f[t] \in Asked(E, T)
    BY <2>2 DEF Item, Asked
  <2>4. f \in Seq(Asked(E, T))
    BY <2>3, Mapped
  <2>5. Once(f) \in Seq(Asked(E, T))
    <3> HIDE DEF f
    <3> QED
      BY <2>4, OnceKeeps
  <2> QED
    BY <1>1, <2>5 DEF BindByProximity, owner
<1>2. CASE {owner[t] : t \in DOMAIN topics} # DOMAIN entities
  <2>1. BindByProximity(entities, topics) = <<>>
    BY <1>2 DEF BindByProximity
  <2> QED
    BY <2>1
<1> QED
  BY <1>1, <1>2

LEMMA Paired ==
    ASSUME NEW E, NEW entities \in Seq(SpansOf(E)), NEW topics \in Seq(SpansOf(PairableTopics))
    PROVE  PairEntitiesAndTopics(entities, topics) \in Seq(Asked(E, PairableTopics))
<1> DEFINE kinds == Once([t \in DOMAIN topics |-> topics[t].of])
           Q == Seq(Asked(E, PairableTopics))
<1>1. kinds \in Seq(PairableTopics)
  BY NamedOnce
<1>2. <<>> \in Q
  OBVIOUS
<1>3. Overviews(entities) \in Q
  <2>1. Asked(E, {"overview"}) \subseteq Asked(E, PairableTopics)
    BY DEF Asked, PairableTopics
  <2> QED
    BY <2>1, Overviewed, SeqMonotonic
<1>4. BindByProximity(entities, topics) \in Q
  BY BoundByProximity
<1> HIDE DEF kinds
<1>5. ASSUME Len(kinds) = 1
      PROVE  [k \in DOMAIN entities |-> Item(entities[k].of, kinds[1])] \in Q
  <2>1. kinds[1] \in PairableTopics
    BY <1>1, <1>5
  <2>2. \A k \in DOMAIN entities : Item(entities[k].of, kinds[1]) \in Asked(E, PairableTopics)
    BY <2>1, SpanFields DEF Item, Asked
  <2> QED
    BY <2>2, Mapped
<1>6. ASSUME Len(entities) = 1
      PROVE  [t \in DOMAIN kinds |-> Item(entities[1].of, kinds[t])] \in Q
  <2>1. entities[1].of \in E
    BY <1>6, SpanFields, LenProperties
  <2>2. \A t \in DOMAIN kinds : kinds[t] \in PairableTopics
    BY <1>1, ElementOfSeq, LenProperties
  <2>3. \A t \in DOMAIN kinds : Item(entities[1].of, kinds[t]) \in Asked(E, PairableTopics)
    BY <2>1, <2>2 DEF Item, Asked
  <2> QED
    BY <1>1, <2>3, Mapped
<1> DEFINE P == PairEntitiesAndTopics(entities, topics)
<1>7. \/ P = <<>>
      \/ P = Overviews(entities)
      \/ Len(kinds) = 1 /\ P = [k \in DOMAIN entities |-> Item(entities[k].of, kinds[1])]
      \/ Len(entities) = 1 /\ P = [t \in DOMAIN kinds |-> Item(entities[1].of, kinds[t])]
      \/ P = BindByProximity(entities, topics)
  <2>1. CASE entities = <<>>
    BY <2>1 DEF PairEntitiesAndTopics
  <2>2. CASE entities # <<>> /\ kinds = <<>>
    BY <2>2 DEF PairEntitiesAndTopics, kinds
  <2>3. CASE entities # <<>> /\ kinds # <<>> /\ Len(kinds) = 1
    BY <2>3 DEF PairEntitiesAndTopics, kinds
  <2>4. CASE entities # <<>> /\ kinds # <<>> /\ Len(kinds) # 1 /\ Len(entities) = 1
    BY <2>4, Zenon DEF PairEntitiesAndTopics, kinds
  <2>5. CASE entities # <<>> /\ kinds # <<>> /\ Len(kinds) # 1 /\ Len(entities) # 1
    BY <2>5, Zenon DEF PairEntitiesAndTopics, kinds
  <2> QED
    BY <2>1, <2>2, <2>3, <2>4, <2>5
<1> HIDE DEF P, Q
<1>8. P \in Q
  BY <1>2, <1>3, <1>4, <1>5, <1>6, <1>7
<1> QED
  BY <1>8 DEF P, Q

\* The items of the departments are about the departments found, and of a topic
\* one can ask of a department.
LEMMA Explained ==
    ASSUME NEW E, NEW entities \in Seq(SpansOf(E)), NEW n \in Nat, n <= Len(entities)
    PROVE  [k \in DOMAIN SubSeq(entities, 1, n) |-> Item(SubSeq(entities, 1, n)[k].of, "explanation")]
             \in Seq(Asked(E, PairableTopics))
<1> DEFINE s == SubSeq(entities, 1, n)
<1>1. s \in Seq(SpansOf(E))
  BY LenProperties
<1>2. "explanation" \in PairableTopics
  BY DEF PairableTopics, AtomicTopics
<1> HIDE DEF s
<1>3. \A k \in DOMAIN s : Item(s[k].of, "explanation") \in Asked(E, PairableTopics)
  BY <1>1, <1>2, SpanFields DEF Item, Asked
<1>4. [k \in DOMAIN s |-> Item(s[k].of, "explanation")] \in Seq(Asked(E, PairableTopics))
  BY <1>1, <1>3, Mapped
<1> QED
  BY <1>4 DEF s

LEMMA DepartmentItemsOf ==
    ASSUME NEW u \in Seq(Lexicon), NEW E, NEW entities \in Seq(SpansOf(E)), entities # <<>>, NEW full
    PROVE  DepartmentItems(u, entities, full) \in Seq(Asked(E, PairableTopics))
<1> DEFINE spans == TopicSpans(u)
           positioned == Named(spans)
           loose == AtomicFound(u) \ positioned
           topics == AtomicFound(u) \cup positioned
           n == IF Len(entities) < 3 THEN Len(entities) ELSE 3
           explained == SubSeq(entities, 1, n)
           explanations == [k \in DOMAIN explained |-> Item(explained[k].of, "explanation")]
           paired == PairEntitiesAndTopics(entities, spans)
           single == <<Item(entities[1].of, CHOOSE t \in loose : TRUE)>>
           Q == Seq(Asked(E, PairableTopics))
<1>1. explanations \in Q
  <2>1. n \in Nat /\ n <= Len(entities)
    BY LenProperties
  <2> HIDE DEF n
  <2> QED
    BY <2>1, Explained
<1>2. paired \in Q
  BY TopicsFound, Paired
<1>3. loose # {} => single \in Q
  <2>1. loose # {} => (CHOOSE t \in loose : TRUE) \in PairableTopics
    BY TopicsFound DEF PairableTopics
  <2>2. entities[1].of \in E
    BY SpanFields, LenProperties, EmptySeq
  <2>3. loose # {} => Item(entities[1].of, CHOOSE t \in loose : TRUE) \in Asked(E, PairableTopics)
    BY <2>1, <2>2 DEF Item, Asked
  <2> HIDE DEF loose
  <2> QED
    BY <2>3
<1>4. Overviews(entities) \in Q
  <2>1. Asked(E, {"overview"}) \subseteq Asked(E, PairableTopics)
    BY DEF Asked, PairableTopics
  <2> QED
    BY <2>1, Overviewed, SeqMonotonic
<1>5. <<>> \in Q
  OBVIOUS
<1> DEFINE I == DepartmentItems(u, entities, full)
<1>6. \/ I = explanations
      \/ loose # {} /\ I = single
      \/ I = paired
      \/ I = Overviews(entities)
      \/ I = <<>>
  <2> DEFINE a == loose # {} /\ topics = {"explanation"} /\ Len(entities) >= 2
             b == loose # {}
             c == paired # <<>> \/ topics # {} \/ Len(entities) = 1
             f == Has(u, ShowCues) /\ ~full
             g == Has(u, ComparisonCues)
  <2>1. I = CASE a -> explanations [] b -> single [] c -> paired [] f -> Overviews(entities)
              [] g -> explanations [] OTHER -> <<>>
    BY DEF DepartmentItems
  <2>2. b = (loose # {})
    OBVIOUS
  <2>3. a => b
    OBVIOUS
  <2> HIDE DEF I, explanations, single, paired, loose, a, b, c, f, g
  <2>4. \/ I = explanations \/ (b /\ I = single) \/ I = paired \/ I = Overviews(entities) \/ I = <<>>
    BY <2>1
  <2> QED
    BY <2>2, <2>4
<1> HIDE DEF I, Q, explanations, single, paired, loose
<1>7. I \in Q
  BY <1>1, <1>2, <1>3, <1>4, <1>5, <1>6
<1> QED
  BY <1>7 DEF I, Q

\* What a unit of the campus can be shown for.
UnitTopics == CampusTopicWords \cup {"overview"}

LEMMA Normalized ==
    ASSUME NEW topic \in UnitTopics, NEW family
    PROVE  Normalize(topic, family) \in UnitTopics
BY DEF Normalize, UnitTopics, CampusTopicWords

LEMMA SomeTopics ==
    ASSUME NEW topics \in Seq(SpansOf(CampusTopicWords)), NEW places
    PROVE  LET some == At(topics, places)
           IN  /\ some \in Seq(SpansOf(CampusTopicWords))
               /\ \A k \in DOMAIN some : some[k].of \in UnitTopics
<1> DEFINE some == At(topics, places)
<1>1. some \in Seq(SpansOf(CampusTopicWords))
  BY AtKeeps
<1> HIDE DEF some
<1>2. \A k \in DOMAIN some : some[k].of \in UnitTopics
  BY <1>1, SpanFields DEF UnitTopics
<1> QED
  BY <1>1, <1>2 DEF some

LEMMA TopicsOfUnitKnown ==
    ASSUME NEW units, NEW topics \in Seq(SpansOf(CampusTopicWords)), NEW k
    PROVE  TopicsOfUnit(units, topics, k) \in Seq(UnitTopics)
<1> DEFINE family == Family(units[k].of)
           usable == At(topics, {t \in DOMAIN topics : \E e \in DOMAIN units : Takes(Family(units[e].of), topics[t].of)})
           first(t) == CHOOSE e \in DOMAIN units : /\ Takes(Family(units[e].of), t.of)
                                                   /\ \A d \in 1 .. e - 1 : ~Takes(Family(units[d].of), t.of)
           normal == [t \in DOMAIN usable |-> Normalize(usable[t].of, Family(units[first(usable[t])].of))]
           kinds == Once(normal)
           bound == BindOneToOne(units, kinds, usable)
           closest(t) == CHOOSE e \in DOMAIN units :
               /\ Takes(Family(units[e].of), t.of)
               /\ \A d \in DOMAIN units : Takes(Family(units[d].of), t.of)
                    => \/ Distance(t, units[e]) < Distance(t, units[d])
                       \/ Distance(t, units[e]) = Distance(t, units[d]) /\ units[e].at <= units[d].at
           own == At(usable, {t \in DOMAIN usable : closest(usable[t]) = k})
           each == [t \in DOMAIN own |-> own[t].of]
           fit == At(kinds, {t \in DOMAIN kinds : Takes(family, kinds[t])})
           given == At(kinds, {t \in DOMAIN kinds : <<t, k>> \in bound})
           mine == CASE Len(kinds) <= 1 \/ Len(units) = 1 -> fit
                     [] Len(kinds) = Len(units) -> IF <<0, 0>> \in bound THEN <<>> ELSE given
                     [] OTHER -> each
           shown == [t \in DOMAIN mine |-> Normalize(mine[t], family)]
<1>1. TopicsOfUnit(units, topics, k) = Once(shown)
  BY DEF TopicsOfUnit
<1>2. usable \in Seq(SpansOf(CampusTopicWords)) /\ \A t \in DOMAIN usable : usable[t].of \in UnitTopics
  BY SomeTopics
<1> HIDE DEF usable
<1>3. kinds \in Seq(UnitTopics)
  <2> HIDE DEF first
  <2>1. \A t \in DOMAIN usable : normal[t] \in UnitTopics
    BY <1>2, Normalized
  <2>2. normal \in Seq(UnitTopics)
    BY <1>2, <2>1, Mapped
  <2> HIDE DEF normal
  <2> QED
    BY <2>2, OnceKeeps
<1> HIDE DEF kinds
<1>4. fit \in Seq(UnitTopics) /\ given \in Seq(UnitTopics)
  BY <1>3, AtKeeps
<1>5. each \in Seq(UnitTopics)
  <2>1. own \in Seq(SpansOf(CampusTopicWords)) /\ \A t \in DOMAIN own : own[t].of \in UnitTopics
    BY <1>2, SomeTopics
  <2> HIDE DEF own
  <2>2. \A t \in DOMAIN own : each[t] \in UnitTopics
    BY <2>1
  <2> QED
    BY <2>1, <2>2, Mapped
<1> HIDE DEF fit, given, each, bound
<1>6. mine \in Seq(UnitTopics)
  <2>1. <<>> \in Seq(UnitTopics)
    OBVIOUS
  <2> QED
    BY <1>4, <1>5, <2>1
<1> HIDE DEF mine, family
<1>7. shown \in Seq(UnitTopics)
  <2>1. \A t \in DOMAIN mine : mine[t] \in UnitTopics
    BY <1>6, ElementOfSeq, LenProperties
  <2>2. \A t \in DOMAIN mine : shown[t] \in UnitTopics
    BY <2>1, Normalized
  <2> QED
    BY <1>6, <2>2, Mapped
<1> HIDE DEF shown
<1> QED
  BY <1>1, <1>7, OnceKeeps

LEMMA EventsAreEvents == EventDeck \in Seq(EventEntities)
<1>1. \A k \in DOMAIN EventDeck : EventDeck[k] \in EventEntities
  BY DEF EventEntities, ToSet
<1>2. DOMAIN EventDeck = 1 .. 5 /\ EventDeck = [k \in 1 .. 5 |-> EventDeck[k]]
  BY DEF EventDeck
<1>3. EventDeck \in [1 .. 5 -> EventEntities]
  BY <1>1, <1>2
<1> QED
  BY <1>3, SeqDef

LEMMA CampusItemsPaired ==
    ASSUME NEW E, NEW spans \in Seq(SpansOf(E)), NEW topics \in Seq(SpansOf(CampusTopicWords))
    PROVE  PairCampusItems(spans, topics) \in Seq(Asked(E \cup EventEntities, UnitTopics))
<1> DEFINE bindable == At(spans, {k \in DOMAIN spans : Family(spans[k].of) \notin {"event", "events"}})
           named == \E k \in DOMAIN spans : Family(spans[k].of) = "event"
           index(s) == CHOOSE k \in DOMAIN bindable : bindable[k] = s
           mine(s) == TopicsOfUnit(bindable, topics, index(s))
           one(s) == <<Item(s.of, "overview")>>
           all == [k \in DOMAIN EventDeck |-> Item(EventDeck[k], "overview")]
           each(s) == [t \in DOMAIN mine(s) |-> Item(s.of, mine(s)[t])]
           itemsOf(s) ==
               CASE Family(s.of) = "event" -> one(s)
                 [] Family(s.of) = "events" -> IF named THEN <<>> ELSE all
                 [] OTHER -> IF mine(s) = <<>> THEN one(s) ELSE each(s)
           lists == [k \in DOMAIN spans |-> itemsOf(spans[k])]
           I == Asked(E \cup EventEntities, UnitTopics)
           Q == Seq(I)
<1>1. PairCampusItems(spans, topics) = FlattenSeq(lists)
  BY DEF PairCampusItems
<1>2. "overview" \in UnitTopics
  BY DEF UnitTopics
<1>3. all \in Q
  <2>1. \A k \in DOMAIN EventDeck : EventDeck[k] \in EventEntities
    BY EventsAreEvents, ElementOfSeq, LenProperties
  <2>2. \A k \in DOMAIN EventDeck : Item(EventDeck[k], "overview") \in I
    BY <1>2, <2>1 DEF Item, Asked
  <2> HIDE DEF I
  <2> QED
    BY <2>2, EventsAreEvents, Mapped
<1>4. ASSUME NEW s \in SpansOf(E) PROVE one(s) \in Q /\ each(s) \in Q
  <2>1. s.of \in E
    BY DEF SpansOf
  <2>2. mine(s) \in Seq(UnitTopics)
    BY TopicsOfUnitKnown
  <2> DEFINE m == mine(s)
  <2> HIDE DEF mine
  <2>3. \A t \in DOMAIN m : m[t] \in UnitTopics
    BY <2>2, ElementOfSeq, LenProperties
  <2>4. \A t \in UnitTopics : Item(s.of, t) \in I
    BY <2>1 DEF Item, Asked
  <2> HIDE DEF m, I
  <2>5. one(s) \in Q
    BY <1>2, <2>4
  <2>6. [t \in DOMAIN m |-> Item(s.of, m[t])] \in Q
    <3>1. \A t \in DOMAIN m : Item(s.of, m[t]) \in I
      BY <2>3, <2>4
    <3>2. m \in Seq(UnitTopics)
      BY <2>2 DEF m
    <3> QED
      BY <3>1, <3>2, Mapped
  <2> QED
    BY <2>5, <2>6 DEF m
<1>5. \A s \in SpansOf(E) : itemsOf(s) \in Q
  <2> SUFFICES ASSUME NEW s \in SpansOf(E) PROVE itemsOf(s) \in Q
    OBVIOUS
  <2>1. <<>> \in Q
    OBVIOUS
  <2>2. one(s) \in Q /\ each(s) \in Q
    BY <1>4
  <2> HIDE DEF one, each, mine, all, Q, named
  <2> QED
    BY <1>3, <2>1, <2>2
<1> HIDE DEF itemsOf, I
<1>6. lists \in Seq(Q)
  <2>1. \A k \in DOMAIN spans : spans[k] \in SpansOf(E)
    BY ElementOfSeq, LenProperties
  <2>2. \A k \in DOMAIN spans : lists[k] \in Q
    BY <1>5, <2>1
  <2> QED
    BY <2>2, Mapped
<1> HIDE DEF lists
<1>7. FlattenSeq(lists) \in Seq(I)
  BY <1>6, Flattened
<1> QED
  BY <1>1, <1>7 DEF I

LEMMA StickyItemsOf ==
    ASSUME NEW u \in Seq(Lexicon), NEW entity, NEW family
    PROVE  StickyItems(u, entity, family) \in Seq(Asked({entity}, UnitTopics))
<1> DEFINE said == AllSpans(u, CampusTopicWords)
           mine == At(said, {t \in DOMAIN said : Takes(family, said[t].of)})
           normal == [t \in DOMAIN mine |-> Normalize(mine[t].of, family)]
           kinds == Once(normal)
           items == [t \in DOMAIN kinds |-> Item(entity, kinds[t])]
           Q == Seq(Asked({entity}, UnitTopics))
<1>1. said \in Seq(SpansOf(CampusTopicWords))
  <2>1. said \in Seq(SpansOf(ToSet(u) \cap CampusTopicWords))
    BY AllSpansOf
  <2>2. SpansOf(ToSet(u) \cap CampusTopicWords) \subseteq SpansOf(CampusTopicWords)
    BY DEF SpansOf
  <2> HIDE DEF said
  <2> QED
    BY <2>1, <2>2, SeqMonotonic
<1>2. StickyItems(u, entity, family) = <<>> \/ StickyItems(u, entity, family) = items
  BY DEF StickyItems
<1> HIDE DEF said
<1>3. mine \in Seq(SpansOf(CampusTopicWords)) /\ \A t \in DOMAIN mine : mine[t].of \in UnitTopics
  BY <1>1, SomeTopics
<1> HIDE DEF mine
<1>4. kinds \in Seq(UnitTopics)
  <2>1. \A t \in DOMAIN mine : normal[t] \in UnitTopics
    BY <1>3, Normalized
  <2>2. normal \in Seq(UnitTopics)
    BY <1>3, <2>1, Mapped
  <2> HIDE DEF normal
  <2> QED
    BY <2>2, OnceKeeps
<1> HIDE DEF kinds
<1>5. items \in Q
  <2>1. \A t \in DOMAIN kinds : kinds[t] \in UnitTopics
    BY <1>4, ElementOfSeq, LenProperties
  <2>2. \A t \in DOMAIN kinds : Item(entity, kinds[t]) \in Asked({entity}, UnitTopics)
    BY <2>1 DEF Item, Asked
  <2> QED
    BY <1>4, <2>2, Mapped
<1> HIDE DEF items
<1>6. <<>> \in Q
  OBVIOUS
<1> HIDE DEF Q
<1>7. StickyItems(u, entity, family) \in Q
  BY <1>2, <1>5, <1>6
<1> QED
  BY <1>7 DEF Q

\* The unit of the campus an earlier turn was about.
StickyUnits(ctx) ==
    (IF ctx.gender = "none" THEN {} ELSE {HostelOf[ctx.gender]}) \cup (IF ctx.ncc THEN {"ncc"} ELSE {})

LEMMA FollowupsOf ==
    ASSUME NEW u \in Seq(Lexicon), NEW ctx
    PROVE  /\ HostelFollowup(u, ctx.gender) \in Seq(Asked(StickyUnits(ctx), UnitTopics))
           /\ NccFollowup(u, ctx.ncc) \in Seq(Asked(StickyUnits(ctx), UnitTopics))
<1> DEFINE Q == Seq(Asked(StickyUnits(ctx), UnitTopics))
<1>1. <<>> \in Q
  OBVIOUS
<1>2. ASSUME NEW e \in StickyUnits(ctx), NEW f PROVE StickyItems(u, e, f) \in Q
  <2>1. Asked({e}, UnitTopics) \subseteq Asked(StickyUnits(ctx), UnitTopics)
    BY <1>2 DEF Asked
  <2>2. StickyItems(u, e, f) \in Seq(Asked({e}, UnitTopics))
    BY StickyItemsOf
  <2> QED
    BY <2>1, <2>2, SeqMonotonic
<1> HIDE DEF Q
<1>3. HostelFollowup(u, ctx.gender) \in Q
  <2>1. CASE ctx.gender = "none"
    BY <1>1, <2>1 DEF HostelFollowup
  <2>2. CASE ctx.gender # "none"
    <3>1. HostelOf[ctx.gender] \in StickyUnits(ctx)
      BY <2>2 DEF StickyUnits
    <3> QED
      BY <1>2, <2>2, <3>1 DEF HostelFollowup
  <2> QED
    BY <2>1, <2>2
<1>4. NccFollowup(u, ctx.ncc) \in Q
  <2>1. CASE ~ctx.ncc
    BY <1>1, <2>1 DEF NccFollowup
  <2>2. CASE ctx.ncc
    <3>1. "ncc" \in StickyUnits(ctx)
      BY <2>2 DEF StickyUnits
    <3> QED
      BY <1>2, <2>2, <3>1 DEF NccFollowup
  <2> QED
    BY <2>1, <2>2
<1> QED
  BY <1>3, <1>4 DEF Q

LEMMA PlacementItemsOf ==
    ASSUME NEW u
    PROVE  PlacementItems(u) \in Seq(Asked({"placement"}, PlacementTopics))
<1> DEFINE Q == Seq(Asked({"placement"}, PlacementTopics))
<1>1. \A t \in PlacementTopics : Item("placement", t) \in Asked({"placement"}, PlacementTopics)
  BY DEF Item, Asked
<1>2. \A t \in PlacementTopics : <<Item("placement", t)>> \in Q
  BY <1>1
<1>3. <<>> \in Q
  OBVIOUS
<1>4. {"introduction", "head", "companies", "analytics"} \subseteq PlacementTopics
  BY DEF PlacementTopics
<1> HIDE DEF Q
<1>5. PlacementItems(u) \in Q
  BY <1>2, <1>3, <1>4 DEF PlacementItems
<1> QED
  BY <1>5 DEF Q

-----------------------------------------------------------------------------
\* Putting the items in the order of their places loses none of their kind.
Places(I) == [at : Nat, item : I]

LEMMA TaggedKeeps ==
    ASSUME NEW I, NEW items \in Seq(I), NEW W, NEW spans \in Seq(SpansOf(W)), NEW about
    PROVE  Tagged(items, spans, about) \in Seq(Places(I))
<1> DEFINE place(i) == PlaceOf(spans, about[i])
           at(i) == IF place(i) = 0 THEN 0 ELSE spans[place(i)].at
           f == [i \in DOMAIN items |-> [at |-> at(i), item |-> items[i]]]
<1>1. \A i : at(i) \in Nat
  <2> SUFFICES ASSUME NEW i PROVE at(i) \in Nat
    OBVIOUS
  <2>1. place(i) = 0 \/ place(i) \in DOMAIN spans
    BY DEF PlaceOf, Named
  <2> HIDE DEF place
  <2> QED
    BY <2>1, SpanFields
<1> HIDE DEF at
<1>2. \A i \in DOMAIN items : items[i] \in I
  BY ElementOfSeq, LenProperties
<1>3. \A i \in DOMAIN items : f[i] \in Places(I)
  BY <1>1, <1>2 DEF Places
<1>4. f \in Seq(Places(I))
  BY <1>3, Mapped
<1> QED
  BY <1>4 DEF Tagged, at

LEMMA DeansAreLeaders == DeanTopics \in Seq(LeadershipTopics)
<1>1. \A k \in DOMAIN DeanTopics : DeanTopics[k] \in LeadershipTopics
  BY DEF LeadershipTopics, ToSet
<1>2. DOMAIN DeanTopics = 1 .. 5 /\ DeanTopics = [k \in 1 .. 5 |-> DeanTopics[k]]
  BY DEF DeanTopics
<1>3. DeanTopics \in [1 .. 5 -> LeadershipTopics]
  BY <1>1, <1>2
<1> QED
  BY <1>3, SeqDef

LEMMA LeadershipItemsOf ==
    ASSUME NEW spans \in Seq(SpansOf(LeadershipTopics))
    PROVE  LeadershipItems(spans) \in Seq(Places(Asked({"leadership"}, LeadershipTopics)))
<1> DEFINE I == Asked({"leadership"}, LeadershipTopics)
           Q == Seq(Places(I))
           deans(s) == [d \in DOMAIN DeanTopics |-> [at |-> s.at, item |-> Item("leadership", DeanTopics[d])]]
           one(s) == <<[at |-> s.at, item |-> Item("leadership", s.of)]>>
           each(s) == IF s.of = "deans" THEN deans(s) ELSE one(s)
           lists == [k \in DOMAIN spans |-> each(spans[k])]
<1>1. LeadershipItems(spans) = FlattenSeq(lists)
  BY DEF LeadershipItems
<1>2. \A t \in LeadershipTopics : Item("leadership", t) \in I
  BY DEF Item, Asked
<1> HIDE DEF I
<1>3. ASSUME NEW s \in SpansOf(LeadershipTopics) PROVE each(s) \in Q
  <2>1. s.of \in LeadershipTopics /\ s.at \in Nat
    BY DEF SpansOf
  <2>2. \A t \in LeadershipTopics : [at |-> s.at, item |-> Item("leadership", t)] \in Places(I)
    BY <1>2, <2>1 DEF Places
  <2>3. one(s) \in Q
    BY <2>1, <2>2
  <2>4. deans(s) \in Q
    <3>1. \A d \in DOMAIN DeanTopics : DeanTopics[d] \in LeadershipTopics
      BY DeansAreLeaders, ElementOfSeq, LenProperties
    <3>2. \A d \in DOMAIN DeanTopics : [at |-> s.at, item |-> Item("leadership", DeanTopics[d])] \in Places(I)
      BY <2>2, <3>1
    <3> QED
      BY <3>2, DeansAreLeaders, Mapped
  <2> HIDE DEF deans, one, Q
  <2> QED
    BY <2>3, <2>4
<1> HIDE DEF each
<1>4. lists \in Seq(Q)
  <2>1. \A k \in DOMAIN spans : spans[k] \in SpansOf(LeadershipTopics)
    BY ElementOfSeq, LenProperties
  <2>2. \A k \in DOMAIN spans : lists[k] \in Q
    BY <1>3, <2>1
  <2> QED
    BY <2>2, Mapped
<1> HIDE DEF lists
<1>5. FlattenSeq(lists) \in Seq(Places(I))
  BY <1>4, Flattened
<1> QED
  BY <1>1, <1>5 DEF I

LEMMA Sorted ==
    ASSUME NEW I, NEW tagged \in Seq(Places(I)), NEW n \in Nat
    PROVE  InOrderOfPlace(tagged, n) \in Seq(I)
<1> DEFINE standing(p) == At(tagged, {k \in DOMAIN tagged : tagged[k].at = p - 1})
           lists == [p \in 1 .. n + 1 |-> standing(p)]
           sorted == FlattenSeq(lists)
           items == [k \in DOMAIN sorted |-> sorted[k].item]
<1>1. InOrderOfPlace(tagged, n) = Once(items)
  BY DEF InOrderOfPlace
<1>2. \A p : standing(p) \in Seq(Places(I))
  BY AtKeeps
<1> HIDE DEF standing
<1>3. lists \in [1 .. n + 1 -> Seq(Places(I))]
  BY <1>2
<1>4. lists \in Seq(Seq(Places(I)))
  BY <1>3, SeqDef
<1> HIDE DEF lists
<1>5. sorted \in Seq(Places(I))
  BY <1>4, Flattened
<1> HIDE DEF sorted
<1>6. items \in Seq(I)
  <2>1. \A k \in DOMAIN sorted : sorted[k] \in Places(I)
    BY <1>5, ElementOfSeq, LenProperties
  <2>2. \A k \in DOMAIN sorted : items[k] \in I
    BY <2>1 DEF Places
  <2> QED
    BY <1>5, <2>2, Mapped
<1> HIDE DEF items
<1> QED
  BY <1>1, <1>6, OnceKeeps

\* What an utterance and the turns before it can be bound to: departments named
\* or remembered, units of the campus named or spoken of last, and festivals,
\* placements, leaders and the college, which stand for themselves.
OwnDepartments(u, ctx) == Departments \cap (ToSet(u) \cup ToSet(ctx.departments))
OwnUnits(u, ctx) == (CampusEntities \cap ToSet(u)) \cup EventEntities \cup StickyUnits(ctx)
Grounded(u, ctx) ==
    UNION {Asked(OwnDepartments(u, ctx), PairableTopics), Asked(OwnUnits(u, ctx), UnitTopics),
           Asked({"placement"}, PlacementTopics), Asked({"leadership"}, LeadershipTopics),
           Asked({"college"}, GlobalTopics), {ctx.person} \ {NoItem}}

LEMMA EntitySpansOf ==
    ASSUME NEW u \in Seq(Lexicon), NEW ctx, ctx.departments \in Seq(Departments)
    PROVE  EntitySpans(u, ctx) \in Seq(SpansOf(OwnDepartments(u, ctx)))
<1> DEFINE E == OwnDepartments(u, ctx)
           carried == [k \in DOMAIN ctx.departments |-> Span(ctx.departments[k], 0)]
           Q == Seq(SpansOf(E))
<1>1. DepartmentSpans(u) \in Q
  <2>1. FirstSpans(u, Departments) \in Seq(SpansOf(ToSet(u) \cap Departments))
    BY FirstSpansOf
  <2>2. SpansOf(ToSet(u) \cap Departments) \subseteq SpansOf(E)
    BY DEF SpansOf, OwnDepartments
  <2> HIDE DEF E
  <2> QED
    BY <2>1, <2>2, SeqMonotonic DEF DepartmentSpans
<1>2. carried \in Q
  <2>1. \A k \in DOMAIN ctx.departments : ctx.departments[k] \in Departments
    BY ElementOfSeq, LenProperties
  <2>2. \A k \in DOMAIN ctx.departments : ctx.departments[k] \in E
    BY <2>1 DEF OwnDepartments, ToSet
  <2>3. \A k \in DOMAIN ctx.departments : carried[k] \in SpansOf(E)
    BY <2>2 DEF Span, SpansOf
  <2> HIDE DEF E
  <2> QED
    BY <2>3, Mapped
<1>3. <<>> \in Q
  OBVIOUS
<1> HIDE DEF carried, Q
<1>4. EntitySpans(u, ctx) \in {DepartmentSpans(u), carried, <<>>}
  BY DEF EntitySpans, carried
<1>5. EntitySpans(u, ctx) \in Q
  BY <1>1, <1>2, <1>3, <1>4
<1> QED
  BY <1>5 DEF Q

LEMMA CampusItemsOf ==
    ASSUME NEW u \in Seq(Lexicon), NEW ctx
    PROVE  /\ CampusItems(u) \in Seq(Asked(OwnUnits(u, ctx), UnitTopics))
           /\ SaidOrSticky(u, ctx, CampusItems(u)) \in Seq(Asked(OwnUnits(u, ctx), UnitTopics))
           /\ CampusSpans(u) \in Seq(SpansOf(CampusEntities))
<1> DEFINE Q == Seq(Asked(OwnUnits(u, ctx), UnitTopics))
           E == ToSet(u) \cap CampusEntities
<1>1. CampusSpans(u) \in Seq(SpansOf(E))
  BY FirstSpansOf DEF CampusSpans
<1>2. CampusSpans(u) \in Seq(SpansOf(CampusEntities))
  <2>1. SpansOf(E) \subseteq SpansOf(CampusEntities)
    BY DEF SpansOf
  <2> HIDE DEF E
  <2> QED
    BY <1>1, <2>1, SeqMonotonic
<1>3. AllSpans(u, CampusTopicWords) \in Seq(SpansOf(CampusTopicWords))
  <2>1. AllSpans(u, CampusTopicWords) \in Seq(SpansOf(ToSet(u) \cap CampusTopicWords))
    BY AllSpansOf
  <2>2. SpansOf(ToSet(u) \cap CampusTopicWords) \subseteq SpansOf(CampusTopicWords)
    BY DEF SpansOf
  <2> QED
    BY <2>1, <2>2, SeqMonotonic
<1>4. Asked(E \cup EventEntities, UnitTopics) \subseteq Asked(OwnUnits(u, ctx), UnitTopics)
  BY DEF Asked, OwnUnits
<1> HIDE DEF E
<1>5. CampusItems(u) \in Q
  <2>1. PairCampusItems(CampusSpans(u), AllSpans(u, CampusTopicWords)) \in Seq(Asked(E \cup EventEntities, UnitTopics))
    BY <1>1, <1>3, CampusItemsPaired
  <2> QED
    BY <1>4, <2>1, SeqMonotonic DEF CampusItems
<1>6. HostelFollowup(u, ctx.gender) \in Q /\ NccFollowup(u, ctx.ncc) \in Q
  <2>1. Asked(StickyUnits(ctx), UnitTopics) \subseteq Asked(OwnUnits(u, ctx), UnitTopics)
    BY DEF Asked, OwnUnits
  <2> QED
    BY <2>1, FollowupsOf, SeqMonotonic
<1>7. SaidOrSticky(u, ctx, CampusItems(u)) \in {CampusItems(u), HostelFollowup(u, ctx.gender), NccFollowup(u, ctx.ncc)}
  BY DEF SaidOrSticky
<1> HIDE DEF Q
<1>8. SaidOrSticky(u, ctx, CampusItems(u)) \in Q
  BY <1>5, <1>6, <1>7
<1> QED
  BY <1>2, <1>5, <1>8 DEF Q

LEMMA OtherSpansOf ==
    ASSUME NEW u \in Seq(Lexicon), NEW entities, NEW placement
    PROVE  /\ GlobalSpans(u, entities, placement) \in Seq(SpansOf(GlobalTopics))
           /\ LeadershipSpans(u) \in Seq(SpansOf(LeadershipTopics))
<1>1. \A W : FirstSpans(u, W) \in Seq(SpansOf(W))
  <2> SUFFICES ASSUME NEW W PROVE FirstSpans(u, W) \in Seq(SpansOf(W))
    OBVIOUS
  <2>1. FirstSpans(u, W) \in Seq(SpansOf(ToSet(u) \cap W))
    BY FirstSpansOf
  <2>2. SpansOf(ToSet(u) \cap W) \subseteq SpansOf(W)
    BY DEF SpansOf
  <2> QED
    BY <2>1, <2>2, SeqMonotonic
<1>2. CollegeSpans(u) \in Seq(SpansOf(GlobalTopics)) /\ LeadershipSpans(u) \in Seq(SpansOf(LeadershipTopics))
  BY <1>1 DEF CollegeSpans, LeadershipSpans
<1>3. GlobalSpans(u, entities, placement) \in Seq(SpansOf(GlobalTopics))
  BY <1>2, AtKeeps DEF GlobalSpans
<1> QED
  BY <1>2, <1>3

\* Items are grounded, whichever way they were found.
LEMMA MergedIsGrounded ==
    ASSUME NEW u \in Seq(Lexicon), NEW ctx, NEW entities \in Seq(SpansOf(OwnDepartments(u, ctx))),
           NEW campus \in Seq(Grounded(u, ctx)), NEW global \in Seq(SpansOf(GlobalTopics))
    PROVE  Merged(u, entities, campus, global) \in Seq(Grounded(u, ctx))
<1> DEFINE G == Grounded(u, ctx)
           department == IF entities = <<>> THEN <<>> ELSE DepartmentItems(u, entities, FullScope(u, entities))
           college == [k \in DOMAIN global |-> Item("college", global[k].of)]
           a == Tagged(department, entities, [i \in DOMAIN department |-> department[i].entity])
           b == LeadershipItems(LeadershipSpans(u))
           c == Tagged(campus, CampusSpans(u), [i \in DOMAIN campus |-> campus[i].entity])
           d == Tagged(college, global, [i \in DOMAIN college |-> college[i].topic])
<1>1. Merged(u, entities, campus, global) = InOrderOfPlace(a \o b \o c \o d, Len(u))
  BY DEF Merged
<1>2. department \in Seq(G)
  <2>1. Asked(OwnDepartments(u, ctx), PairableTopics) \subseteq G
    BY DEF Grounded
  <2>2. entities # <<>> =>
           DepartmentItems(u, entities, FullScope(u, entities)) \in Seq(Asked(OwnDepartments(u, ctx), PairableTopics))
    BY DepartmentItemsOf
  <2> HIDE DEF G
  <2>3. entities # <<>> => DepartmentItems(u, entities, FullScope(u, entities)) \in Seq(G)
    BY <2>1, <2>2, SeqMonotonic
  <2>4. <<>> \in Seq(G)
    OBVIOUS
  <2> QED
    BY <2>3, <2>4
<1>3. college \in Seq(G)
  <2>1. \A k \in DOMAIN global : global[k].of \in GlobalTopics
    BY SpanFields
  <2>2. \A t \in GlobalTopics : Item("college", t) \in G
    BY DEF Item, Asked, Grounded
  <2>3. \A k \in DOMAIN global : college[k] \in G
    BY <2>1, <2>2
  <2> HIDE DEF G
  <2> QED
    BY <2>3, Mapped
<1>4. b \in Seq(Places(G))
  <2>1. b \in Seq(Places(Asked({"leadership"}, LeadershipTopics)))
    BY OtherSpansOf, LeadershipItemsOf
  <2>2. Asked({"leadership"}, LeadershipTopics) \subseteq G
    BY DEF Grounded
  <2> HIDE DEF G
  <2>3. Places(Asked({"leadership"}, LeadershipTopics)) \subseteq Places(G)
    BY <2>2 DEF Places
  <2> HIDE DEF b
  <2> QED
    BY <2>1, <2>3, SeqMonotonic
<1>5. campus \in Seq(G)
  OBVIOUS
<1> HIDE DEF G, department, college, b
<1>6. a \in Seq(Places(G))
  BY <1>2, TaggedKeeps
<1>7. c \in Seq(Places(G))
  BY <1>5, CampusItemsOf, TaggedKeeps
<1>8. d \in Seq(Places(G))
  BY <1>3, TaggedKeeps
<1> HIDE DEF a, c, d
<1>9. a \o b \o c \o d \in Seq(Places(G))
  BY <1>4, <1>6, <1>7, <1>8, ConcatProperties
<1>10. Len(u) \in Nat
  BY LenProperties
<1>11. InOrderOfPlace(a \o b \o c \o d, Len(u)) \in Seq(G)
  BY <1>9, <1>10, Sorted
<1> QED
  BY <1>1, <1>11 DEF G

LEMMA Parsed ==
    ASSUME NEW u \in Seq(Lexicon), NEW ctx, ctx.departments \in Seq(Departments)
    PROVE  Parse(u, ctx).items \in Seq(Grounded(u, ctx))
<1> DEFINE G == Grounded(u, ctx)
           entities == EntitySpans(u, ctx)
           placement == IF EntitySpans(u, ctx) = <<>> THEN PlacementItems(u) ELSE <<>>
           said == SaidOrSticky(u, ctx, CampusItems(u))
           campus == said \o placement
           global == GlobalSpans(u, entities, placement)
           merged == Merged(u, entities, campus, global)
           person == PersonFollowup(u, ctx)
<1>1. Parse(u, ctx) = ParseFound(u, ctx, entities, campus, global)
  BY DEF Parse, ParseEntities
<1>2. entities \in Seq(SpansOf(OwnDepartments(u, ctx)))
  BY EntitySpansOf
<1>3. said \in Seq(G)
  <2>1. Asked(OwnUnits(u, ctx), UnitTopics) \subseteq G
    BY DEF Grounded
  <2>2. said \in Seq(Asked(OwnUnits(u, ctx), UnitTopics))
    BY CampusItemsOf
  <2> HIDE DEF said, G
  <2> QED
    BY <2>1, <2>2, SeqMonotonic
<1>4. placement \in Seq(G)
  <2>1. Asked({"placement"}, PlacementTopics) \subseteq G
    BY DEF Grounded
  <2>2. PlacementItems(u) \in Seq(Asked({"placement"}, PlacementTopics))
    BY PlacementItemsOf
  <2> HIDE DEF G
  <2>3. PlacementItems(u) \in Seq(G) /\ <<>> \in Seq(G)
    BY <2>1, <2>2, SeqMonotonic
  <2> QED
    BY <2>3
<1>5. person \in Seq(G)
  <2>1. person = <<>> \/ (ctx.person # NoItem /\ person = <<ctx.person>>)
    BY DEF PersonFollowup
  <2>2. ctx.person # NoItem => ctx.person \in G
    BY DEF Grounded
  <2> HIDE DEF G
  <2>3. <<>> \in Seq(G) /\ (ctx.person # NoItem => <<ctx.person>> \in Seq(G))
    BY <2>2
  <2> HIDE DEF person
  <2> QED
    BY <2>1, <2>3
<1> HIDE DEF said, placement, person, entities
<1>6. campus \in Seq(G)
  <2> HIDE DEF G
  <2> QED
    BY <1>3, <1>4, ConcatProperties
<1>7. global \in Seq(SpansOf(GlobalTopics))
  BY OtherSpansOf
<1> HIDE DEF campus, global
<1>8. merged \in Seq(G)
  BY <1>2, <1>6, <1>7, MergedIsGrounded
<1>9. NoRequest.items = <<>> /\ DOMAIN NoRequest = {"items", "scope"}
  BY DEF NoRequest
<1>10. ParseFound(u, ctx, entities, campus, global).items \in {<<>>, person, merged}
  BY <1>9 DEF ParseFound, Request, person
<1>11. <<>> \in Seq(G)
  OBVIOUS
<1> HIDE DEF G, merged
<1>12. ParseFound(u, ctx, entities, campus, global).items \in Seq(G)
  BY <1>5, <1>8, <1>10, <1>11
<1> QED
  BY <1>1, <1>12 DEF G

\* What a decision is drawn from: the request, what the language model proposed,
\* or nothing.  A question which information about a department is meant names one
\* of the request, and what is not shown has no items, but for the way to enroll.
ProposedEntities(p) == Once([k \in DOMAIN p.items |-> p.items[k].entity])
Drawn(d, t) ==
    /\ d.items \in {<<>>, t.request.items, t.proposal.items}
    /\ d.entities \in {<<>>, EntitiesOf(t.request), ProposedEntities(t.proposal)}
    /\ d.target = "department_information" /\ t.proposal.target # "department_information" =>
         d.topic \in Departments /\ \E k \in DOMAIN t.request.items : d.topic = t.request.items[k].entity
    /\ d.mode # "CARD" => d.items = <<>> \/ OnlyEnrollment(d.items)
Bare(d) == d.items = <<>> /\ d.entities = <<>> /\ d.target # "department_information"

LEMMA BareIsDrawn == ASSUME NEW d, NEW t, Bare(d) PROVE Drawn(d, t)
BY DEF Bare, Drawn

Draws(rules, t) == \E X : rules \in Seq(X) /\ \A x \in X : x.when => Drawn(x.then, t)

LEMMA DrawsBoth ==
    ASSUME NEW t, NEW a, NEW b, Draws(a, t), Draws(b, t)
    PROVE  Draws(a \o b, t)
<1>1. PICK X : a \in Seq(X) /\ \A x \in X : x.when => Drawn(x.then, t)
  BY DEF Draws
<1>2. PICK Y : b \in Seq(Y) /\ \A y \in Y : y.when => Drawn(y.then, t)
  BY DEF Draws
<1>3. a \o b \in Seq(X \cup Y)
  BY <1>1, <1>2
<1> QED
  BY <1>1, <1>2, <1>3 DEF Draws

LEMMA PlainIsBare ==
    ASSUME NEW why
    PROVE  /\ Bare(Card(why)) /\ Bare(Answer(why)) /\ Bare(Refuse(why)) /\ Bare(RefuseKindly(why))
           /\ Bare([Answer(why) EXCEPT !.domain = "unknown"]) /\ Bare(WhichAdmissions(why))
           /\ \A target : target # "department_information" => Bare(Clarify(target, why))
<1>1. \A mode : Bare(Decided(mode, why)) /\ DOMAIN Decided(mode, why) = DecisionFields
  BY DEF Decided, Bare, DecisionFields
<1>2. ASSUME NEW d, DOMAIN d = DecisionFields, Bare(d), NEW x
      PROVE  /\ Bare([d EXCEPT !.domain = x]) /\ DOMAIN [d EXCEPT !.domain = x] = DecisionFields
             /\ x # "department_information" =>
                  Bare([d EXCEPT !.target = x]) /\ DOMAIN [d EXCEPT !.target = x] = DecisionFields
             /\ Bare([d EXCEPT !.topic = x])
  BY <1>2 DEF Bare, DecisionFields
<1>3. Bare(Card(why)) /\ Bare(Answer(why)) /\ Bare(RefuseKindly(why))
  BY <1>1 DEF Card, Answer, RefuseKindly
<1>4. Bare(Refuse(why)) /\ Bare([Answer(why) EXCEPT !.domain = "unknown"])
  BY <1>1, <1>2 DEF Refuse, Answer
<1>5. \A target : target # "department_information" =>
         Bare(Clarify(target, why)) /\ DOMAIN Clarify(target, why) = DecisionFields
  BY <1>1, <1>2 DEF Clarify
<1>6. Bare(WhichAdmissions(why))
  BY <1>2, <1>5 DEF WhichAdmissions
<1> QED
  BY <1>3, <1>4, <1>5, <1>6

LEMMA RefusalsDraw == ASSUME NEW u, NEW t PROVE Draws(RefusalRules(u, t), t)
<1> DEFINE T == RefusalRules(u, t)
           X == {T[i] : i \in 1 .. 4}
<1>1. T \in Seq(X)
  BY DEF RefusalRules
<1>2. \A i \in 1 .. 4 : T[i].when => Drawn(T[i].then, t)
  <2>1. Drawn(T[1].then, t)
    BY PlainIsBare, BareIsDrawn DEF RefusalRules, Rule
  <2>2. Drawn(T[2].then, t)
    BY PlainIsBare, BareIsDrawn DEF RefusalRules, Rule
  <2>3. Drawn(T[3].then, t)
    BY PlainIsBare, BareIsDrawn DEF RefusalRules, Rule
  <2>4. Drawn(T[4].then, t)
    BY PlainIsBare, BareIsDrawn DEF RefusalRules, Rule
  <2> QED
    BY <2>1, <2>2, <2>3, <2>4
<1> QED
  BY <1>1, <1>2 DEF Draws

LEMMA PlacesDraw == ASSUME NEW u, NEW t PROVE Draws(PlaceRules(u, t), t)
<1> DEFINE T == PlaceRules(u, t)
           X == {T[i] : i \in 1 .. 1}
<1>1. T \in Seq(X)
  BY DEF PlaceRules
<1>2. \A i \in 1 .. 1 : T[i].when => Drawn(T[i].then, t)
  <2>1. Drawn(T[1].then, t)
    BY PlainIsBare, BareIsDrawn DEF PlaceRules, PlaceRule, PlaceDecision, Rule
  <2> QED
    BY <2>1
<1> QED
  BY <1>1, <1>2 DEF Draws

LEMMA GeneralDraw == ASSUME NEW u, NEW t PROVE Draws(GeneralRules(u, t), t)
<1> DEFINE T == GeneralRules(u, t)
           X == {T[i] : i \in 1 .. 3}
<1>1. T \in Seq(X)
  BY DEF GeneralRules
<1>2. \A i \in 1 .. 3 : T[i].when => Drawn(T[i].then, t)
  <2>1. Drawn(T[1].then, t)
    BY PlainIsBare, BareIsDrawn DEF GeneralRules, Rule
  <2>2. Drawn(T[2].then, t)
    BY PlainIsBare, BareIsDrawn DEF GeneralRules, Rule
  <2>3. Drawn(T[3].then, t)
    BY PlainIsBare, BareIsDrawn DEF GeneralRules, Rule
  <2> QED
    BY <2>1, <2>2, <2>3
<1> QED
  BY <1>1, <1>2 DEF Draws

LEMMA FollowUpsDraw == ASSUME NEW u, NEW t PROVE Draws(FollowUpRules(u, t), t)
<1> DEFINE T == FollowUpRules(u, t)
           X == {T[i] : i \in 1 .. 2}
<1>1. T \in Seq(X)
  BY DEF FollowUpRules
<1>2. \A i \in 1 .. 2 : T[i].when => Drawn(T[i].then, t)
  <2>1. T[1].when => Drawn(T[1].then, t)
    <3> DEFINE d == Answer("contextual_svit_follow_up")
    <3>1. Bare(d) /\ DOMAIN d = DecisionFields
      BY PlainIsBare, PlainDecisions
    <3>2. T[1].then = [d EXCEPT !.entities = EntitiesOf(t.request)]
      BY DEF FollowUpRules, Rule
    <3> HIDE DEF d, T
    <3>3. Drawn([d EXCEPT !.entities = EntitiesOf(t.request)], t)
      BY <3>1 DEF Bare, Drawn, DecisionFields
    <3> QED
      BY <3>2, <3>3
  <2>2. Drawn(T[2].then, t)
    BY PlainIsBare, BareIsDrawn DEF FollowUpRules, Rule
  <2> QED
    BY <2>1, <2>2
<1> QED
  BY <1>1, <1>2 DEF Draws

LEMMA ProposalsDraw == ASSUME NEW u, NEW t PROVE Draws(ProposalRules(u, t), t)
<1> DEFINE T == ProposalRules(u, t)
           X == {T[i] : i \in 1 .. 3}
<1>1. T \in Seq(X)
  <2>1. \E a, b, c : T = <<a, b, c>>
    BY Zenon DEF ProposalRules
  <2> HIDE DEF T
  <2>2. PICK a, b, c : T = <<a, b, c>>
    BY <2>1
  <2> QED
    BY <2>2
<1>2. \A i \in 1 .. 3 : T[i].when => Drawn(T[i].then, t)
  <2>1. Drawn(T[1].then, t)
    BY PlainIsBare, BareIsDrawn DEF ProposalRules, Rule
  <2>2. T[2].when => Drawn(T[2].then, t)
    <3> DEFINE d == Card("validated_proposal_card")
    <3>1. Bare(d) /\ DOMAIN d = DecisionFields /\ d.mode = "CARD"
      BY PlainIsBare, PlainDecisions
    <3>2. T[2].then = [d EXCEPT !.items = t.proposal.items, !.entities = ProposedEntities(t.proposal)]
      BY DEF ProposalRules, Rule, Proposed, ProposedEntities
    <3> HIDE DEF d, T
    <3>3. Drawn([d EXCEPT !.items = t.proposal.items, !.entities = ProposedEntities(t.proposal)], t)
      BY <3>1 DEF Bare, Drawn, DecisionFields
    <3> QED
      BY <3>2, <3>3
  <2>3. Drawn(T[3].then, t)
    BY PlainIsBare, BareIsDrawn DEF ProposalRules, Rule
  <2> QED
    BY <2>1, <2>2, <2>3
<1> QED
  BY <1>1, <1>2 DEF Draws

LEMMA RequestsDraw ==
    ASSUME NEW u, NEW t, NEW S, t.request.items \in Seq(S)
    PROVE  Draws(RequestRules(u, t), t)
<1> DEFINE T == RequestRules(u, t)
           X == {T[i] : i \in 1 .. 4}
<1>1. T \in Seq(X)
  BY DEF RequestRules
<1>2. \A i \in 1 .. 4 : T[i].when => Drawn(T[i].then, t)
  <2>1. T[1].when => Drawn(T[1].then, t)
    <3> DEFINE d == Clarify("department_information", "ambiguous_dept_info_request")
               topic == IF t.request.items = <<>> THEN "none" ELSE t.request.items[1].entity
    <3>1. DOMAIN d = DecisionFields /\ d.items = <<>> /\ d.mode = "CLARIFY"
      <4> DEFINE c == Decided("CLARIFY", "ambiguous_dept_info_request")
      <4>1. DOMAIN c = DecisionFields /\ c.items = <<>>
        BY DEF Decided, DecisionFields
      <4>2. d = [c EXCEPT !.target = "department_information"]
        BY DEF Clarify
      <4>3. DOMAIN d = DecisionFields /\ d.mode = "CLARIFY"
        BY PlainDecisions
      <4> HIDE DEF c, d
      <4> QED
        BY <4>1, <4>2, <4>3 DEF DecisionFields
    <3>2. T[1].then = [d EXCEPT !.topic = topic, !.entities = EntitiesOf(t.request)]
      BY DEF RequestRules, Rule, WhichInformation
    <3>3. T[1].when => /\ t.request.items # <<>>
                       /\ \A k \in DOMAIN t.request.items : t.request.items[k].entity \in Departments
      BY DEF RequestRules, Rule, AmbiguousDepartmentInformation
    <3>4. t.request.items # <<>> => topic = t.request.items[1].entity
      OBVIOUS
    <3> HIDE DEF d, T, topic
    <3>6. T[1].when => 1 \in DOMAIN t.request.items
      BY <3>3, LenProperties, EmptySeq
    <3>5. 1 \in DOMAIN t.request.items => (T[1].when => Drawn([d EXCEPT !.topic = topic, !.entities = EntitiesOf(t.request)], t))
      BY <3>1, <3>3, <3>4 DEF Drawn, DecisionFields
    <3> QED
      BY <3>2, <3>5, <3>6
  <2>2. Drawn(T[2].then, t)
    BY PlainIsBare, BareIsDrawn DEF RequestRules, Rule
  <2>3. T[3].when => Drawn(T[3].then, t)
    <3> DEFINE d == Answer("ncc_enrollment_guidance")
    <3>1. T[3].then = About(d, t.request) /\ T[3].when = OnlyEnrollment(t.request.items)
      BY DEF RequestRules, Rule
    <3>2. Bare(d) /\ DOMAIN d = DecisionFields
      BY PlainIsBare, PlainDecisions
    <3> HIDE DEF d, T
    <3>3. OnlyEnrollment(t.request.items) => Drawn(About(d, t.request), t)
      BY <3>2 DEF Bare, Drawn, About, DecisionFields
    <3> QED
      BY <3>1, <3>3
  <2>4. T[4].when => Drawn(T[4].then, t)
    <3> DEFINE d == Card("semantic_request")
    <3>1. T[4].then = About(d, t.request)
      BY DEF RequestRules, Rule
    <3>2. Bare(d) /\ DOMAIN d = DecisionFields /\ d.mode = "CARD"
      BY PlainIsBare, PlainDecisions
    <3> HIDE DEF d, T
    <3>3. Drawn(About(d, t.request), t)
      BY <3>2 DEF Bare, Drawn, About, DecisionFields
    <3> QED
      BY <3>1, <3>3
  <2> QED
    BY <2>1, <2>2, <2>3, <2>4
<1> QED
  BY <1>1, <1>2 DEF Draws

LEMMA DepartmentsDraw == ASSUME NEW u, NEW t PROVE Draws(DepartmentRules(u, t), t)
<1> DEFINE T == DepartmentRules(u, t)
           X == {T[i] : i \in 1 .. 4}
<1>1. T \in Seq(X)
  BY DEF DepartmentRules
<1>2. \A i \in 1 .. 4 : T[i].when => Drawn(T[i].then, t)
  <2>1. Drawn(T[1].then, t)
    BY PlainIsBare, BareIsDrawn DEF DepartmentRules, Rule
  <2>2. Drawn(T[2].then, t)
    BY PlainIsBare, BareIsDrawn DEF DepartmentRules, Rule
  <2>3. Drawn(T[3].then, t)
    BY PlainIsBare, BareIsDrawn DEF DepartmentRules, Rule
  <2>4. Drawn(T[4].then, t)
    BY PlainIsBare, BareIsDrawn DEF DepartmentRules, Rule
  <2> QED
    BY <2>1, <2>2, <2>3, <2>4
<1> QED
  BY <1>1, <1>2 DEF Draws

LEMMA IntentsDraw == ASSUME NEW u, NEW t PROVE Draws(IntentRules(u, t), t)
<1> DEFINE T == IntentRules(u, t)
           X == {T[i] : i \in 1 .. 5}
<1>1. T \in Seq(X)
  BY DEF IntentRules
<1>2. \A i \in 1 .. 5 : T[i].when => Drawn(T[i].then, t)
  <2>1. Drawn(T[1].then, t)
    BY PlainIsBare, BareIsDrawn DEF IntentRules, Rule
  <2>2. Drawn(T[2].then, t)
    BY PlainIsBare, BareIsDrawn DEF IntentRules, Rule
  <2>3. Drawn(T[3].then, t)
    BY PlainIsBare, BareIsDrawn DEF IntentRules, Rule
  <2>4. Drawn(T[4].then, t)
    BY PlainIsBare, BareIsDrawn DEF IntentRules, Rule
  <2>5. Drawn(T[5].then, t)
    BY PlainIsBare, BareIsDrawn DEF IntentRules, Rule
  <2> QED
    BY <2>1, <2>2, <2>3, <2>4, <2>5
<1> QED
  BY <1>1, <1>2 DEF Draws

LEMMA DomainsDraw == ASSUME NEW u, NEW t PROVE Draws(DomainRules(u, t), t)
<1> DEFINE T == DomainRules(u, t)
           X == {T[i] : i \in 1 .. 7}
<1>1. T \in Seq(X)
  <2>1. \E a, b, c, d, e, f, g : T = <<a, b, c, d, e, f, g>>
    BY Zenon DEF DomainRules
  <2> HIDE DEF T
  <2>2. PICK a, b, c, d, e, f, g : T = <<a, b, c, d, e, f, g>>
    BY <2>1
  <2> QED
    BY <2>2
<1>2. \A i \in 1 .. 7 : T[i].when => Drawn(T[i].then, t)
  <2>1. Drawn(T[1].then, t)
    BY PlainIsBare, BareIsDrawn DEF DomainRules, Rule
  <2>2. Drawn(T[2].then, t)
    BY PlainIsBare, BareIsDrawn DEF DomainRules, Rule
  <2>3. Drawn(T[3].then, t)
    BY PlainIsBare, BareIsDrawn DEF DomainRules, Rule
  <2>4. Drawn(T[4].then, t)
    BY PlainIsBare, BareIsDrawn DEF DomainRules, Rule
  <2>5. T[5].when => Drawn(T[5].then, t)
    <3>1. Bare(Clarify(t.proposal.target, "validated_proposal_clarify")) \/ t.proposal.target = "department_information"
      BY PlainIsBare
    <3>2. Drawn(Clarify(t.proposal.target, "validated_proposal_clarify"), t)
      <4>1. CASE t.proposal.target # "department_information"
        BY <3>1, <4>1, BareIsDrawn
      <4>2. CASE t.proposal.target = "department_information"
        BY <4>2 DEF Drawn, Clarify, Decided
      <4> QED
        BY <4>1, <4>2
    <3> QED
      BY <3>2 DEF DomainRules, Rule
  <2>6. Drawn(T[6].then, t)
    BY PlainIsBare, BareIsDrawn DEF DomainRules, Rule
  <2>7. Drawn(T[7].then, t)
    BY PlainIsBare, BareIsDrawn DEF DomainRules, Rule
  <2> QED
    BY <2>1, <2>2, <2>3, <2>4, <2>5, <2>6, <2>7
<1> QED
  BY <1>1, <1>2 DEF Draws

\* What is decided comes out of the request or of the proposal and from nowhere else.
LEMMA ResolvedIsDrawn ==
    ASSUME NEW u, NEW t, t.local = NoLocal, NEW S, t.request.items \in Seq(S)
    PROVE  Drawn(Resolve(u, t), t)
<1>1. Draws(RulesBeforeLast(u, t), t)
  BY DrawsBoth, RefusalsDraw, PlacesDraw, GeneralDraw, FollowUpsDraw, ProposalsDraw, RequestsDraw,
     DepartmentsDraw, IntentsDraw DEF RulesBeforeLast
<1>2. PICK X : RulesBeforeLast(u, t) \in Seq(X) /\ \A x \in X : x.when => Drawn(x.then, t)
  BY <1>1 DEF Draws
<1>3. PICK Y : DomainRules(u, t) \in Seq(Y) /\ \A y \in Y : y.when => Drawn(y.then, t)
  BY DomainsDraw DEF Draws
<1> DEFINE W == X \cup Y
<1>4. RulesBeforeLast(u, t) \in Seq(W) /\ DomainRules(u, t) \in Seq(W)
  BY <1>2, <1>3, SeqMonotonic
<1>5. \A w \in W : w.when => Drawn(w.then, t)
  BY <1>2, <1>3
<1> HIDE DEF W
<1>6. PICK w \in W : w.when /\ Resolve(u, t) = w.then
  BY <1>4, ChosenRule
<1> QED
  BY <1>5, <1>6

-----------------------------------------------------------------------------
\* What the session and a turn are made of, when K are the departments this visit
\* has spoken of: words of which those that name a department name one of K, items
\* one can ask about one of K or about something else, and their cards.
Words(K) == {w \in Lexicon : w \in Departments => w \in K}
Subjects(K) == K \cup CampusEntities \cup {"placement"}
Items(K) ==
    UNION {Asked(K, PairableTopics \cup CanonicalTopics), Asked(CampusEntities, UnitTopics),
           Asked({"placement"}, PlacementTopics), Asked({"leadership"}, LeadershipTopics),
           Asked({"college"}, GlobalTopics)}
Persons(K) == {i \in Items(K) : IsPerson(i)} \cup {NoItem}
OlderCards ==
    {"campus_navigation", "bus_routes", "about_me", "college", "trustees", "executive", "fees", "documents",
     "course_menu", "placement", "admissions", "hod", "unlisted"} \cup ToSet(DepartmentSuffixes)
CardsFor(K) ==
    {x \in Registered : x[1] \in Departments => x[1] \in K} \cup ({"prompt", "legacy"} \X OlderCards)

\* What was of this visit stays so when more is spoken of.
LEMMA MoreSpoken ==
    ASSUME NEW K, NEW L, K \subseteq L
    PROVE  /\ Words(K) \subseteq Words(L) /\ Subjects(K) \subseteq Subjects(L)
           /\ Items(K) \subseteq Items(L) /\ Persons(K) \subseteq Persons(L) /\ CardsFor(K) \subseteq CardsFor(L)
<1>1. Words(K) \subseteq Words(L)
  BY DEF Words
<1>2. Subjects(K) \subseteq Subjects(L)
  BY DEF Subjects
<1>3. Items(K) \subseteq Items(L)
  <2>1. Asked(K, PairableTopics \cup CanonicalTopics) \subseteq Asked(L, PairableTopics \cup CanonicalTopics)
    BY DEF Asked
  <2> QED
    BY <2>1, Zenon DEF Items
<1>4. Persons(K) \subseteq Persons(L)
  BY <1>3 DEF Persons
<1>5. CardsFor(K) \subseteq CardsFor(L)
  BY DEF CardsFor
<1> QED
  BY <1>1, <1>2, <1>3, <1>4, <1>5

\* The departments have names of their own.
LEMMA NamesApart == Departments \cap OtherNames = {}
BY DepartmentsAssumption

LEMMA OtherWords == ASSUME NEW K PROVE OtherNames \subseteq Words(K) /\ OtherNames \subseteq Lexicon
BY NamesApart DEF Words, Lexicon

LEMMA VocabularyIsText ==
    /\ Topics \subseteq OtherNames /\ CampusEntities \subseteq OtherNames
    /\ UnitTopics \subseteq Topics /\ CanonicalTopics \subseteq Topics
    /\ PairableTopics \subseteq Topics /\ PlacementTopics \subseteq Topics /\ LeadershipTopics \subseteq Topics
    /\ GlobalTopics \subseteq Topics
<1>1. UnitTopics \subseteq Topics
  BY DEF UnitTopics, Topics, PairableTopics
<1>2. CanonicalTopics \subseteq Topics
  BY DEF CanonicalTopics, Topics, PairableTopics, AtomicTopics, GlobalTopics
<1> QED
  BY <1>1, <1>2 DEF Topics, OtherNames

\* An item is about a subject, a leader or the college, and asks a topic of it.
LEMMA ItemFields ==
    ASSUME NEW K, K \subseteq Departments, NEW i \in Items(K)
    PROVE  /\ i.entity \in Subjects(K) \cup {"leadership", "college"}
           /\ i.topic \in Topics /\ i.entity \in Words(K)
           /\ i = Item(i.entity, i.topic)
           /\ i.entity \in Departments => i.entity \in K
<1>1. i \in Asked(Subjects(K) \cup {"leadership", "college"}, Topics)
  BY VocabularyIsText DEF Items, Asked, Subjects
<1>2. Subjects(K) \cup {"leadership", "college"} \subseteq Words(K)
  BY VocabularyIsText, NamesApart, OtherWords DEF Subjects, Words, OtherNames, Lexicon
<1>3. i.entity \in Subjects(K) \cup {"leadership", "college"} /\ i.topic \in Topics /\ i = Item(i.entity, i.topic)
  BY <1>1 DEF Asked, Item
<1>4. i.entity \in Words(K)
  BY <1>2, <1>3
<1> QED
  BY <1>3, <1>4 DEF Words

\* Nobody of the campus is a person.
LEMMA PersonsLead ==
    ASSUME NEW K, K \subseteq Departments, NEW i \in Items(K), IsPerson(i)
    PROVE  i.entity \notin CampusEntities
<1>1. CASE i \in Asked(CampusEntities, UnitTopics)
  <2>1. "hod" \notin UnitTopics /\ "leadership" \notin CampusEntities
    BY DEF UnitTopics, CampusTopicWords, CampusEntities, HostelEntities, HostelOf, CanteenWords, NccWords,
           FestWords, EventEntities, EventDeck, ToSet
  <2> QED
    BY <1>1, <2>1 DEF Asked, IsPerson
<1>2. CASE i \notin Asked(CampusEntities, UnitTopics)
  <2>1. i.entity \in K \cup {"placement", "leadership", "college"}
    BY <1>2 DEF Items, Asked
  <2>2. {"placement", "leadership", "college"} \cap CampusEntities = {}
    BY DEF CampusEntities, HostelEntities, HostelOf, CanteenWords, NccWords,
           FestWords, EventEntities, EventDeck, ToSet
  <2>3. K \cap CampusEntities = {}
    BY NamesApart, VocabularyIsText
  <2> QED
    BY <2>1, <2>2, <2>3
<1> QED
  BY <1>1, <1>2

Genders == {"none", "boys", "girls"}
MemoryTyped(m, K) ==
    /\ m.departments \in Seq(Subjects(K))
    /\ m.named \in Seq(Seq(K)) /\ Len(m.named) <= HistoryTurns
    /\ m.person \in Persons(K)
    /\ m.active.entities \in Seq(Subjects(K)) /\ m.active.topics \in Seq(Topics) /\ m.active.person \in Persons(K)
    /\ m.pending.original \in Seq(Lexicon)
    /\ m.pending.target = "department_information" => m.pending.topic \in K
    /\ m.gender \in Genders /\ m.ncc \in BOOLEAN /\ m.aboutMe \in AboutMeSections \cup {"none"}
LocalTyped(l, K) ==
    /\ l.gender \in Genders
    /\ l.clarified /\ l.trigger \in {"department_explanation", "department_overview"} => l.department \in K

LEMMA MoreRemembered ==
    ASSUME NEW K, NEW L, K \subseteq L, NEW m, MemoryTyped(m, K)
    PROVE  MemoryTyped(m, L)
<1>1. Subjects(K) \subseteq Subjects(L) /\ Persons(K) \subseteq Persons(L)
  BY MoreSpoken
<1>2. Seq(Subjects(K)) \subseteq Seq(Subjects(L))
  BY <1>1, SeqMonotonic
<1>3. Seq(Seq(K)) \subseteq Seq(Seq(L))
  BY SeqMonotonic
<1> QED
  BY <1>1, <1>2, <1>3 DEF MemoryTyped

LEMMA SubjectsAreWords ==
    ASSUME NEW K, K \subseteq Departments
    PROVE  /\ Subjects(K) \subseteq Words(K)
           /\ \A e \in Subjects(K) : Label(e) \in Words(K)
<1>1. Subjects(K) \subseteq Words(K)
  BY VocabularyIsText, NamesApart, OtherWords DEF Subjects, Words, OtherNames, Lexicon
<1>2. "placements" \in Words(K)
  BY OtherWords DEF OtherNames, Topics, GlobalTopics
<1> QED
  BY <1>1, <1>2 DEF Label

LEMMA PersonsAreWords ==
    ASSUME NEW K, K \subseteq Departments, NEW person \in Persons(K)
    PROVE  PersonWords(person) \in Seq(Words(K))
<1>1. "none" \in Words(K) /\ Topics \subseteq Words(K)
  BY OtherWords, VocabularyIsText DEF OtherNames
<1>2. person.entity \in Words(K) /\ person.topic \in Words(K)
  <2>1. CASE person = NoItem
    BY <1>1, <2>1 DEF NoItem, Item
  <2>2. CASE person \in Items(K)
    BY <1>1, <2>2, ItemFields
  <2> QED
    BY <2>1, <2>2 DEF Persons
<1> QED
  BY <1>2 DEF PersonWords

\* Completing an utterance adds no department but those spoken of.
LEMMA ContextualWords ==
    ASSUME NEW K, K \subseteq Departments, NEW u \in Seq(Words(K)), NEW m, MemoryTyped(m, K)
    PROVE  Contextual(u, m).routed \in Seq(Words(K))
<1> DEFINE entities == IF m.active.entities # <<>> THEN m.active.entities ELSE m.departments
           person == IF m.active.person # NoItem THEN m.active.person ELSE m.person
           labels == [k \in DOMAIN entities |-> Label(entities[k])]
           headed == person # NoItem /\ Has(u, HodCues)
           referent == CASE headed /\ labels # <<>> -> <<"hod">> \o labels
                         [] headed /\ labels = <<>> -> PersonWords(person)
                         [] OTHER -> labels
           topics == <<"svit">> \o m.active.topics
           named == referent \o <<"svit">>
           regarding == IF referent # <<>> THEN named
                        ELSE IF m.active.topics # <<>> THEN topics ELSE <<>>
           Q == Seq(Words(K))
<1>1. Contextual(u, m).routed \in {u, u \o regarding}
  BY DEF Contextual
<1>2. "svit" \in Words(K) /\ "hod" \in Words(K) /\ Topics \subseteq Words(K)
  BY OtherWords, VocabularyIsText DEF OtherNames, Topics, PairableTopics, AtomicTopics
<1>3. labels \in Q
  <2>1. entities \in Seq(Subjects(K))
    BY DEF MemoryTyped
  <2> HIDE DEF entities
  <2>2. \A k \in DOMAIN entities : entities[k] \in Subjects(K)
    BY <2>1, ElementOfSeq, LenProperties
  <2>3. \A k \in DOMAIN entities : labels[k] \in Words(K)
    BY <2>2, SubjectsAreWords
  <2> QED
    BY <2>1, <2>3, Mapped
<1>4. PersonWords(person) \in Q
  BY PersonsAreWords DEF MemoryTyped
<1>5. topics \in Q
  <2>1. m.active.topics \in Q
    BY <1>2, SeqMonotonic DEF MemoryTyped
  <2>2. <<"svit">> \in Q
    BY <1>2
  <2> HIDE DEF Q
  <2> QED
    BY <2>1, <2>2, ConcatProperties DEF Q
<1> HIDE DEF labels, person, headed, topics
<1>6. referent \in Q
  <2>1. <<"hod">> \in Q
    BY <1>2
  <2>2. <<"hod">> \o labels \in Q
    BY <1>3, <2>1, ConcatProperties
  <2> HIDE DEF Q
  <2> QED
    BY <1>3, <1>4, <2>2
<1> HIDE DEF referent
<1>7. regarding \in Q
  <2>1. named \in Q
    <3>1. <<"svit">> \in Q
      BY <1>2
    <3> QED
      BY <1>6, <3>1, ConcatProperties
  <2>2. <<>> \in Q
    OBVIOUS
  <2> HIDE DEF Q, named
  <2> QED
    BY <1>5, <2>1, <2>2
<1> HIDE DEF regarding
<1>8. u \o regarding \in Q
  BY <1>7, ConcatProperties
<1> QED
  BY <1>1, <1>8

LEMMA SlotsOfAdmissions ==
    ASSUME NEW u
    PROVE  AdmissionsSlot(u) \in {"documents", "admissions", "fees", "none"}
<1> DEFINE T == <<Rule(Has(u, {"documents", "admission documents"}), "documents"),
                  Rule(Has(u, {"eligibility"}), "admissions"),
                  Rule(Has(u, {"steps"}), "admissions"), Rule(Has(u, {"fees"}), "fees"),
                  Rule(Has(u, {"dates"}), "admissions"), Rule(TRUE, "none")>>
<1>1. AdmissionsSlot(u) = FirstOf(T)
  BY DEF AdmissionsSlot
<1>2. DOMAIN T = 1 .. 6 /\ T[6].when
  BY DEF Rule
<1>3. \A i \in 1 .. 6 : T[i].then \in {"documents", "admissions", "fees", "none"}
  <2>1. \A w, v : Rule(w, v).then = v
    BY DEF Rule
  <2>2. T[1].then = "documents" /\ T[2].then = "admissions" /\ T[3].then = "admissions"
    BY <2>1
  <2>3. T[4].then = "fees" /\ T[5].then = "admissions" /\ T[6].then = "none"
    BY <2>1
  <2> HIDE DEF T
  <2> QED
    BY <2>2, <2>3
<1> HIDE DEF T
<1>4. \E i \in 1 .. 6 : FirstOf(T) = T[i].then
  <2>1. 6 \in Nat \ {0}
    OBVIOUS
  <2> QED
    BY <1>2, <2>1, FirstRule
<1> QED
  BY <1>1, <1>3, <1>4

LocalFields == {"trigger", "department", "gender", "clarified"}
LEMMA ClarifiedFields ==
    ASSUME NEW trigger
    PROVE  /\ DOMAIN NoLocal = LocalFields /\ NoLocal.gender = "none" /\ NoLocal.clarified = FALSE
           /\ DOMAIN Clarified(trigger) = LocalFields /\ Clarified(trigger).trigger = trigger
           /\ Clarified(trigger).gender = "none" /\ Clarified(trigger).clarified = TRUE
BY DEF NoLocal, Clarified, LocalFields

LEMMA HostelAnswer ==
    ASSUME NEW K, NEW gender \in {"boys", "girls"}, NEW original \in Seq(Lexicon)
    PROVE  HostelAsked(gender, original) \in Seq(Words(K))
<1> DEFINE asked == {"facilities", "mess", "safety", "food", "warden", "rooms"}
           topics == At(original, {k \in DOMAIN original : original[k] \in asked})
           shared == IF topics = <<>> THEN "none" ELSE IF topics[1] = "food" THEN "mess" ELSE topics[1]
           Q == Seq(Words(K))
           second == IF shared \in {"none", "warden", "rooms"} THEN <<>> ELSE <<shared>>
<1>1. HostelAsked(gender, original) = <<HostelOf[gender]>> \o second
  BY DEF HostelAsked
<1>2. topics \in Seq(asked)
  <2> DEFINE I == {k \in DOMAIN original : original[k] \in asked}
             Y == {original[i] : i \in DOMAIN original \cap I}
  <2>1. At(original, I) \in Seq(Y)
    BY AtPlaces
  <2>2. Y \subseteq asked
    OBVIOUS
  <2> HIDE DEF Y, I
  <2>3. At(original, I) \in Seq(asked)
    BY <2>1, <2>2, SeqMonotonic
  <2> QED
    BY <2>3 DEF I
<1> HIDE DEF topics
<1>3. shared \in asked \cup {"none"}
  BY <1>2, EmptySeq, LenProperties
<1>4. asked \subseteq Words(K)
  <2>1. asked \subseteq OtherNames
    BY DEF OtherNames, Topics, CampusTopicWords
  <2> QED
    BY <2>1, OtherWords
<1>5. HostelOf[gender] \in Words(K)
  <2>1. HostelOf[gender] \in CampusEntities
    BY DEF HostelOf, CampusEntities, HostelEntities
  <2> QED
    BY <2>1, VocabularyIsText, OtherWords
<1> HIDE DEF shared, asked
<1>6. second \in Q
  <2>1. CASE shared \in {"none", "warden", "rooms"}
    BY <2>1
  <2>2. CASE shared \notin {"none", "warden", "rooms"}
    BY <1>3, <1>4, <2>2
  <2> QED
    BY <2>1, <2>2
<1>7. <<HostelOf[gender]>> \in Q
  BY <1>5
<1> HIDE DEF second
<1>8. <<HostelOf[gender]>> \o second \in Q
  BY <1>6, <1>7, ConcatProperties
<1> QED
  BY <1>1, <1>8

\* The answer to a question CLARA asked is made of words of this visit, and a card
\* it brings is one of a department the question was about.
LEMMA AnsweredWords ==
    ASSUME NEW K, K \subseteq Departments, NEW u \in Seq(Words(K)), NEW pending,
           pending.original \in Seq(Lexicon), pending.target = "department_information" => pending.topic \in K
    PROVE  LET a == TryResolvePending(u, pending) IN a.text \in Seq(Words(K)) /\ LocalTyped(a.local, K)
<1> DEFINE Fine(a) == a.text \in Seq(Words(K)) /\ LocalTyped(a.local, K)
<1>1. LocalTyped(NoLocal, K)
  BY ClarifiedFields DEF LocalTyped, Genders
<1>2. ASSUME NEW trigger, trigger \notin {"department_explanation", "department_overview"}
      PROVE  LocalTyped(Clarified(trigger), K)
  BY <1>2, ClarifiedFields DEF LocalTyped, Genders
<1>3. \A clear, text, local : /\ Answering(clear, text, local).text = text
                              /\ Answering(clear, text, local).local = local
  BY DEF Answering
<1>4. ASSUME NEW clear PROVE Fine(Answering(clear, u, NoLocal))
  BY <1>1, <1>3
<1>5. ASSUME NEW clear, NEW trigger, trigger \notin {"department_explanation", "department_overview"}
      PROVE Fine(Answering(clear, u, Clarified(trigger)))
  BY <1>2, <1>3, <1>5
<1>f. ASSUME NEW a, NEW clear, NEW text \in Seq(Words(K)), NEW local, LocalTyped(local, K),
             a = Answering(clear, text, local)
      PROVE  Fine(a)
  BY <1>3, <1>f
<1>6. CASE pending.target = "admissions_info"
  <2>1. AdmissionsSlot(u) \notin {"department_explanation", "department_overview"}
    BY SlotsOfAdmissions
  <2>2. \/ TryResolvePending(u, pending) = Answering(TRUE, u, Clarified(AdmissionsSlot(u)))
        \/ TryResolvePending(u, pending) = Answering(Has(u, NewTopicCues), u, NoLocal)
    BY <1>6 DEF TryResolvePending
  <2>3. LocalTyped(Clarified(AdmissionsSlot(u)), K)
    BY <1>2, <2>1
  <2>4. Fine(TryResolvePending(u, pending))
    <3> HIDE DEF Fine
    <3> QED
      BY <1>1, <1>f, <2>2, <2>3
  <2> QED
    BY <2>4
<1>7. CASE pending.target = "hostel"
  <2>1. ASSUME NEW gender \in {"boys", "girls"}
        PROVE  Fine(Answering(TRUE, HostelAsked(gender, pending.original), [Clarified("hostel") EXCEPT !.gender = gender]))
    <3> DEFINE l == Clarified("hostel")
    <3>1. DOMAIN l = LocalFields /\ l.trigger = "hostel"
      BY ClarifiedFields
    <3> HIDE DEF l
    <3>2. LocalTyped([l EXCEPT !.gender = gender], K)
      BY <3>1 DEF LocalTyped, Genders, LocalFields
    <3>3. HostelAsked(gender, pending.original) \in Seq(Words(K))
      BY HostelAnswer
    <3> DEFINE m == [l EXCEPT !.gender = gender]
               a == Answering(TRUE, HostelAsked(gender, pending.original), m)
    <3>4. LocalTyped(m, K)
      BY <3>2
    <3> HIDE DEF m, Fine
    <3>5. Fine(a)
      BY <1>f, <3>3, <3>4
    <3> QED
      BY <3>5 DEF m, l
  <2> DEFINE gender == CASE Has(u, BoysWords) -> "boys" [] Has(u, GirlsWords) /\ ~Has(u, BoysWords) -> "girls" [] OTHER -> "none"
  <2>2. gender \in {"boys", "girls", "none"}
    OBVIOUS
  <2>3. Answer2Hostel(u, pending) =
          IF gender # "none"
          THEN Answering(TRUE, HostelAsked(gender, pending.original), [Clarified("hostel") EXCEPT !.gender = gender])
          ELSE Answering(Has(u, HostelSwitch), u, NoLocal)
    BY DEF Answer2Hostel
  <2>4. TryResolvePending(u, pending) = Answer2Hostel(u, pending)
    BY <1>7 DEF TryResolvePending
  <2> HIDE DEF Fine, gender
  <2>5. CASE gender = "none"
    BY <1>4, <2>3, <2>4, <2>5 DEF Fine
  <2>6. CASE gender # "none"
    BY <2>1, <2>2, <2>3, <2>4, <2>6 DEF Fine
  <2> QED
    BY <2>5, <2>6
<1>8. CASE pending.target = "department_information"
  <2>1. pending.topic \in K /\ pending.topic \in Words(K)
    <3>1. pending.topic \in K
      BY <1>8
    <3> QED
      BY <3>1 DEF Words, Lexicon
  <2>2. ASSUME NEW trigger, NEW text \in Seq(Words(K))
        PROVE  Fine(Answering(TRUE, text, [Clarified(trigger) EXCEPT !.department = pending.topic]))
    <3> DEFINE l == Clarified(trigger)
    <3>1. DOMAIN l = LocalFields /\ l.gender = "none"
      BY ClarifiedFields
    <3> HIDE DEF l
    <3>2. LocalTyped([l EXCEPT !.department = pending.topic], K)
      BY <2>1, <3>1 DEF LocalTyped, Genders, LocalFields
    <3> DEFINE m == [l EXCEPT !.department = pending.topic]
               a == Answering(TRUE, text, m)
    <3>4. LocalTyped(m, K)
      BY <3>2
    <3> HIDE DEF m, Fine
    <3>5. Fine(a)
      BY <1>f, <3>4
    <3> QED
      BY <3>5 DEF m, l
  <2>3. <<"show", "overview", pending.topic>> \in Seq(Words(K)) /\ <<"explain", pending.topic>> \in Seq(Words(K))
    <3>1. "show" \in Words(K) /\ "explain" \in Words(K) /\ "overview" \in Words(K)
      BY OtherWords DEF OtherNames, Topics, PairableTopics
    <3> QED
      BY <2>1, <3>1
  <2>4. TryResolvePending(u, pending) = Answer2Department(u, pending)
    BY <1>8 DEF TryResolvePending
  <2> DEFINE chosen(trigger) == [Clarified(trigger) EXCEPT !.department = pending.topic]
             other == Has(u, DepartmentInformationSwitch)
             overview == Has(u, {"overview"})
             explain == ~Has(u, DepartmentInformationSwitch \cup {"overview"}) /\ Has(u, ExplainCues)
  <2>5. Answer2Department(u, pending) =
          CASE other -> Answering(TRUE, u, NoLocal)
            [] ~other /\ overview -> Answering(TRUE, <<"show", "overview", pending.topic>>, chosen("department_overview"))
            [] explain -> Answering(TRUE, <<"explain", pending.topic>>, chosen("department_explanation"))
            [] OTHER -> Answering(FALSE, u, NoLocal)
    BY DEF Answer2Department
  <2>6. /\ Fine(Answering(TRUE, <<"show", "overview", pending.topic>>, chosen("department_overview")))
        /\ Fine(Answering(TRUE, <<"explain", pending.topic>>, chosen("department_explanation")))
    BY <2>2, <2>3
  <2>7. Fine(Answering(TRUE, u, NoLocal)) /\ Fine(Answering(FALSE, u, NoLocal))
    BY <1>4
  <2> HIDE DEF Fine, chosen, other, overview, explain
  <2> QED
    BY <2>4, <2>5, <2>6, <2>7 DEF Fine
<1>9. CASE pending.target \notin {"admissions_info", "hostel", "department_information"}
  <2> HIDE DEF Fine
  <2>1. \/ TryResolvePending(u, pending) = Answering(FALSE, u, NoLocal)
        \/ TryResolvePending(u, pending) = Answering(TRUE, u, NoLocal)
    BY <1>9 DEF TryResolvePending
  <2> QED
    BY <1>4, <2>1 DEF Fine
<1> QED
  BY <1>6, <1>7, <1>8, <1>9

\* What an earlier turn may add is of this visit as well.
LEMMA DepartmentsSpoken ==
    ASSUME NEW K, K \subseteq Departments, NEW entities \in Seq(Subjects(K))
    PROVE  DepartmentsOf(entities) \in Seq(K)
<1> DEFINE I == {k \in DOMAIN entities : entities[k] \in Departments}
           Y == {entities[i] : i \in DOMAIN entities \cap I}
<1>1. Y \subseteq K
  <2>1. \A i \in DOMAIN entities : entities[i] \in Subjects(K)
    BY ElementOfSeq, LenProperties
  <2>2. \A e \in Subjects(K) \cap Departments : e \in K
    BY VocabularyIsText, NamesApart DEF Subjects, OtherNames
  <2> QED
    BY <2>1, <2>2
<1>2. At(entities, I) \in Seq(Y)
  BY AtPlaces
<1> HIDE DEF Y, I
<1>3. At(entities, I) \in Seq(K)
  BY <1>1, <1>2, SeqMonotonic
<1> QED
  BY <1>3 DEF DepartmentsOf, I

LEMMA RememberedDepartments ==
    ASSUME NEW K, K \subseteq Departments, NEW m, MemoryTyped(m, K)
    PROVE  DepartmentsOf(LastDepartments(m)) \in Seq(K)
<1>1. m.departments \in Seq(Subjects(K))
  BY DEF MemoryTyped
<1>2. Once(FlattenSeq(m.named)) \in Seq(K)
  <2>1. FlattenSeq(m.named) \in Seq(K)
    BY Flattened DEF MemoryTyped
  <2> QED
    BY <2>1, OnceKeeps
<1>3. Once(FlattenSeq(m.named)) \in Seq(Subjects(K))
  BY <1>2, SeqMonotonic DEF Subjects
<1>4. LastDepartments(m) \in Seq(Subjects(K))
  BY <1>1, <1>3 DEF LastDepartments
<1> QED
  BY <1>4, DepartmentsSpoken

\* So what is bound to an utterance is of this visit.
LEMMA ParsedItems ==
    ASSUME NEW K, K \subseteq Departments, NEW u \in Seq(Words(K)), NEW ctx,
           ctx.departments \in Seq(K), ctx.person \in Persons(K), ctx.gender \in Genders, ctx.ncc \in BOOLEAN
    PROVE  Parse(u, ctx).items \in Seq(Items(K))
<1>1. u \in Seq(Lexicon) /\ ctx.departments \in Seq(Departments)
  BY SeqMonotonic DEF Words
<1>2. Parse(u, ctx).items \in Seq(Grounded(u, ctx))
  BY <1>1, Parsed
<1>3. OwnDepartments(u, ctx) \subseteq K
  BY ElementOfSeq, LenProperties DEF OwnDepartments, ToSet, Words
<1>4. OwnUnits(u, ctx) \subseteq CampusEntities
  BY DEF OwnUnits, StickyUnits, Genders, HostelOf, CampusEntities, HostelEntities, NccWords
<1>5. Grounded(u, ctx) \subseteq Items(K)
  <2>1. Asked(OwnDepartments(u, ctx), PairableTopics) \subseteq Asked(K, PairableTopics \cup CanonicalTopics)
    BY <1>3 DEF Asked
  <2>2. Asked(OwnUnits(u, ctx), UnitTopics) \subseteq Asked(CampusEntities, UnitTopics)
    BY <1>4 DEF Asked
  <2>3. {ctx.person} \ {NoItem} \subseteq Items(K)
    BY DEF Persons
  <2> QED
    BY <2>1, <2>2, <2>3 DEF Grounded, Items
<1> QED
  BY <1>2, <1>5, SeqMonotonic

LEMMA RequestSubjects ==
    ASSUME NEW K, K \subseteq Departments, NEW request, request.items \in Seq(Items(K))
    PROVE  EntitiesOf(request) \in Seq(Subjects(K))
<1> DEFINE items == request.items
           I == {k \in DOMAIN items : items[k].entity \notin {"leadership", "college"}}
           Y == {items[i] : i \in DOMAIN items \cap I}
           named == At(items, I)
           f == [k \in DOMAIN named |-> named[k].entity]
<1>1. EntitiesOf(request) = Once(f)
  BY DEF EntitiesOf
<1>2. named \in Seq(Y)
  BY AtPlaces
<1>3. \A y \in Y : y.entity \in Subjects(K)
  <2>1. \A i \in DOMAIN items : items[i] \in Items(K)
    BY ElementOfSeq, LenProperties
  <2> QED
    BY <2>1, ItemFields
<1> HIDE DEF Y, named
<1>4. f \in Seq(Subjects(K))
  <2>1. \A k \in DOMAIN named : named[k] \in Y
    BY <1>2, ElementOfSeq, LenProperties
  <2>2. \A k \in DOMAIN named : f[k] \in Subjects(K)
    BY <1>3, <2>1
  <2> QED
    BY <1>2, <2>2, Mapped
<1> HIDE DEF f
<1> QED
  BY <1>1, <1>4, OnceKeeps

-----------------------------------------------------------------------------
\* The cards.  A unit that exists is of a department only if the item it answers
\* is: the decks are of the campus.
Deck(units, e) == \E S : units \in Seq(S) /\ \A x \in S : x[1] \in {e} \cup OtherNames

LEMMA SectionsOf ==
    ASSUME NEW of, NEW T, NEW names \in Seq(T)
    PROVE  Sections(of, names) \in Seq({of} \X T)
<1> DEFINE f == [k \in DOMAIN names |-> Unit(of, names[k])]
<1>1. \A k \in DOMAIN names : f[k] \in {of} \X T
  BY ElementOfSeq, LenProperties DEF Unit
<1>2. f \in Seq({of} \X T)
  BY <1>1, Mapped
<1> QED
  BY <1>2 DEF Sections

LEMMA UnitsAreOf ==
    ASSUME NEW item
    PROVE  UnitOf(item)[1] \in {item.entity} \cup OtherNames
<1>1. "hostel" \in OtherNames /\ "none" \in OtherNames
  BY DEF OtherNames, BareHostel
<1>2. FestDeck[1][1] \in OtherNames
  BY DEF FestDeck, EventDeck, Unit, OtherNames, CampusEntities, EventEntities, ToSet
<1>3. CampusUnitOf(item)[1] \in {item.entity} \cup OtherNames
  <2> DEFINE topic == Normalize(item.topic, Family(item.entity))
  <2>1. CampusUnitOf(item) \in {Unit("hostel", topic), Unit(item.entity, "overview"), FestDeck[1], Unit(item.entity, topic)}
    BY DEF CampusUnitOf
  <2>2. Unit("hostel", topic)[1] = "hostel" /\ Unit(item.entity, "overview")[1] = item.entity
        /\ Unit(item.entity, topic)[1] = item.entity
    BY DEF Unit
  <2> HIDE DEF topic
  <2> QED
    BY <1>1, <1>2, <2>1, <2>2
<1>4. UnitOf(item) \in {CampusUnitOf(item), Unit(item.entity, item.topic), NoUnit}
  BY DEF UnitOf
<1>5. Unit(item.entity, item.topic)[1] = item.entity /\ NoUnit[1] = "none"
  BY DEF Unit, NoUnit
<1> QED
  BY <1>1, <1>3, <1>4, <1>5

LEMMA DecksOfItems ==
    ASSUME NEW item
    PROVE  /\ Deck(DeckOf(item), item.entity)
           /\ Deck(<<UnitOf(item)>>, item.entity)
           /\ Deck(Sections(item.entity, ExplanationStages), item.entity)
<1> DEFINE e == item.entity
<1>1. Deck(<<UnitOf(item)>>, e)
  <2> DEFINE x == UnitOf(item)
  <2>1. x[1] \in {e} \cup OtherNames
    BY UnitsAreOf
  <2> DEFINE S == {x}
  <2>2. <<x>> \in Seq(S) /\ \A y \in S : y[1] \in {e} \cup OtherNames
    BY <2>1
  <2> HIDE DEF x, e, S
  <2>3. Deck(<<x>>, e)
    BY <2>2 DEF Deck
  <2> QED
    BY <2>3 DEF x
<1>2. ASSUME NEW T, NEW names \in Seq(T), NEW of \in {e} \cup OtherNames
      PROVE  Deck(Sections(of, names), e)
  <2>1. Sections(of, names) \in Seq({of} \X T)
    BY <1>2, SectionsOf
  <2>2. \A x \in {of} \X T : x[1] \in {e} \cup OtherNames
    BY <1>2
  <2> QED
    BY <2>1, <2>2 DEF Deck
<1>3. Deck(Sections(e, ExplanationStages), e)
  <2>1. ExplanationStages \in Seq({"what_is", "learn", "lead"})
    BY DEF ExplanationStages
  <2> QED
    BY <1>2, <2>1
<1>4. Deck(NccDeck, e)
  <2>1. <<"overview", "leadership", "training", "benefits">> \in Seq(NccTopics)
    BY DEF NccTopics
  <2>2. "ncc" \in OtherNames
    BY DEF OtherNames, CampusEntities, NccWords
  <2> QED
    BY <1>2, <2>1, <2>2 DEF NccDeck
<1>5. Deck(PlacementDeck, e)
  <2>1. <<"introduction", "head", "companies", "analytics">> \in Seq(PlacementTopics)
    BY DEF PlacementTopics
  <2>2. "placement" \in OtherNames
    BY DEF OtherNames
  <2> QED
    BY <1>2, <2>1, <2>2 DEF PlacementDeck
<1>6. Deck(HostelDeck(e), e)
  <2> DEFINE S == {Unit(e, "overview"), Unit("hostel", "facilities"), Unit("hostel", "mess"), Unit("hostel", "safety")}
  <2>1. HostelDeck(e) \in Seq(S)
    <3> DEFINE a == Unit(e, "overview")
               b == Unit("hostel", "facilities")
               c == Unit("hostel", "mess")
               d == Unit("hostel", "safety")
    <3>1. HostelDeck(e) = <<a, b, c, d>>
      BY DEF HostelDeck
    <3> HIDE DEF a, b, c, d
    <3>2. <<a, b, c, d>> \in Seq({a, b, c, d})
      OBVIOUS
    <3> QED
      BY <3>1, <3>2 DEF a, b, c, d
  <2>2. \A x \in S : x[1] \in {e, "hostel"}
    BY DEF Unit
  <2>3. "hostel" \in OtherNames
    BY DEF OtherNames, BareHostel
  <2> HIDE DEF S, e
  <2> QED
    BY <2>1, <2>2, <2>3 DEF Deck
<1>7. Deck(FestDeck, e)
  <2>1. FestDeck \in Seq(EventEntities \X {"overview"})
    <3> DEFINE f == [k \in DOMAIN EventDeck |-> Unit(EventDeck[k], "overview")]
    <3>1. \A k \in DOMAIN EventDeck : f[k] \in EventEntities \X {"overview"}
      BY EventsAreEvents, ElementOfSeq, LenProperties DEF Unit
    <3>2. f \in Seq(EventEntities \X {"overview"})
      BY <3>1, EventsAreEvents, Mapped
    <3> QED
      BY <3>2 DEF FestDeck
  <2>2. EventEntities \subseteq OtherNames
    BY DEF OtherNames, CampusEntities
  <2>3. \A x \in EventEntities \X {"overview"} : x[1] \in {e} \cup OtherNames
    BY <2>2
  <2> QED
    BY <2>1, <2>3 DEF Deck
<1>8. DeckOf(item) \in {FestDeck, HostelDeck(e), NccDeck, PlacementDeck, <<UnitOf(item)>>}
  BY DEF DeckOf
<1> HIDE DEF e
<1>9. Deck(DeckOf(item), e)
  BY <1>1, <1>4, <1>5, <1>6, <1>7, <1>8
<1> QED
  BY <1>1, <1>3, <1>9 DEF e

LEMMA ExistingCards ==
    ASSUME NEW K, NEW e, e \in Departments => e \in K, NEW units, Deck(units, e)
    PROVE  Existing(units) \in Seq(CardsFor(K))
<1> DEFINE I == {k \in DOMAIN units : units[k] \in Registered}
           Y == {units[i] : i \in DOMAIN units \cap I}
<1>1. PICK S : units \in Seq(S) /\ \A x \in S : x[1] \in {e} \cup OtherNames
  BY DEF Deck
<1>2. \A y \in Y : y \in S /\ y \in Registered
  BY <1>1, ElementOfSeq, LenProperties
<1>3. Y \subseteq CardsFor(K)
  <2> HIDE DEF Y
  <2> QED
    BY <1>1, <1>2, NamesApart DEF CardsFor
<1>4. At(units, I) \in Seq(Y)
  BY <1>1, AtPlaces
<1> HIDE DEF Y, I
<1>5. At(units, I) \in Seq(CardsFor(K))
  BY <1>3, <1>4, SeqMonotonic
<1> QED
  BY <1>5 DEF Existing, I

LEMMA ItemCards ==
    ASSUME NEW K, K \subseteq Departments, NEW item \in Items(K), NEW alone
    PROVE  UnitsOfItem(item, alone) \in Seq(CardsFor(K))
<1>1. item.entity \in Departments => item.entity \in K
  BY ItemFields
<1>2. /\ Existing(DeckOf(item)) \in Seq(CardsFor(K)) /\ Existing(<<UnitOf(item)>>) \in Seq(CardsFor(K))
      /\ Existing(Sections(item.entity, ExplanationStages)) \in Seq(CardsFor(K))
  BY <1>1, DecksOfItems, ExistingCards
<1> QED
  BY <1>2 DEF UnitsOfItem

\* What sets two departments apart is nobody's card, and the slides of a department
\* are its own.
LEMMA DepartmentCards ==
    ASSUME NEW K, K \subseteq Departments
    PROVE  /\ DifferenceUnit \in CardsFor(K)
           /\ \A e \in K : /\ Sections(e, DepartmentSuffixes) \in Seq(CardsFor(K))
                           /\ Sections(e, ExplanationStages) \in Seq(CardsFor(K))
           /\ Sections("legacy", DepartmentSuffixes) \in Seq(CardsFor(K))
<1>1. DifferenceUnit \in CardsFor(K)
  <2>1. DifferenceUnit \in Registered
    BY DEF Registered, ExplanationUnits
  <2>2. DifferenceUnit[1] = "department_explanation"
    BY DEF DifferenceUnit, Unit
  <2>3. "department_explanation" \notin Departments
    BY NamesApart DEF OtherNames
  <2> QED
    BY <2>1, <2>2, <2>3 DEF CardsFor
<1>2. /\ DepartmentSuffixes \in Seq(ToSet(DepartmentSuffixes))
      /\ ExplanationStages \in Seq(ToSet(ExplanationStages))
  BY DEF ToSet, DepartmentSuffixes, ExplanationStages
<1>3. ASSUME NEW e \in K
      PROVE  /\ Sections(e, DepartmentSuffixes) \in Seq(CardsFor(K))
             /\ Sections(e, ExplanationStages) \in Seq(CardsFor(K))
  <2>1. /\ {e} \X ToSet(DepartmentSuffixes) \subseteq Registered
        /\ {e} \X ToSet(ExplanationStages) \subseteq Registered
    BY DEF Registered, ExplanationUnits, DepartmentUnits
  <2>2. /\ {e} \X ToSet(DepartmentSuffixes) \subseteq CardsFor(K)
        /\ {e} \X ToSet(ExplanationStages) \subseteq CardsFor(K)
    BY <2>1 DEF CardsFor
  <2> QED
    BY <1>2, <2>2, SectionsOf, SeqMonotonic
<1>4. Sections("legacy", DepartmentSuffixes) \in Seq(CardsFor(K))
  <2>1. {"legacy"} \X ToSet(DepartmentSuffixes) \subseteq CardsFor(K)
    BY DEF CardsFor, OlderCards
  <2> QED
    BY <1>2, <2>1, SectionsOf, SeqMonotonic
<1> QED
  BY <1>1, <1>3, <1>4

LEMMA SelectedCards ==
    ASSUME NEW K, K \subseteq Departments, NEW request, request.items \in Seq(Items(K))
    PROVE  SelectContentUnits(request) \in Seq(CardsFor(K))
<1> DEFINE items == request.items
           explained == {items[k].entity : k \in {i \in DOMAIN items : items[i].topic = "explanation"}}
           lists == [k \in DOMAIN items |-> UnitsOfItem(items[k], Len(items) = 1)]
           chosen == Once(FlattenSeq(lists))
           slides == IF items[1].entity \in Departments /\ items[1].topic = "overview"
                     THEN Sections(items[1].entity, DepartmentSuffixes) ELSE NoPlan
           more == IF Cardinality(explained) >= 2 THEN <<DifferenceUnit>> ELSE <<>>
           Q == Seq(CardsFor(K))
<1>1. SelectContentUnits(request) = CASE items = <<>> -> NoPlan
                                      [] items # <<>> /\ request.scope = "full_department" -> slides
                                      [] OTHER -> chosen \o more
  BY DEF SelectContentUnits
<1>2. \A k \in DOMAIN items : items[k] \in Items(K)
  BY ElementOfSeq, LenProperties
<1>3. chosen \in Q
  <2>1. \A k \in DOMAIN items : lists[k] \in Q
    BY <1>2, ItemCards
  <2>2. lists \in Seq(Q)
    <3>1. items \in Seq(Items(K))
      OBVIOUS
    <3> HIDE DEF Q, items
    <3> QED
      BY <2>1, <3>1, Mapped
  <2> HIDE DEF lists
  <2>3. FlattenSeq(lists) \in Q
    BY <2>2, Flattened
  <2> QED
    BY <2>3, OnceKeeps
<1>4. <<DifferenceUnit>> \in Q /\ <<>> \in Q
  BY DepartmentCards
<1>5. more \in Q
  <2> HIDE DEF Q
  <2> QED
    BY <1>4
<1>6. chosen \o more \in Q
  <2> HIDE DEF chosen, more
  <2> QED
    BY <1>3, <1>5, ConcatProperties
<1>7. items # <<>> => slides \in Q
  <2>1. items # <<>> => items[1] \in Items(K)
    BY <1>2, EmptySeq, LenProperties
  <2>2. items # <<>> /\ items[1].entity \in Departments => items[1].entity \in K
    BY <2>1, ItemFields
  <2>3. items # <<>> /\ items[1].entity \in Departments => Sections(items[1].entity, DepartmentSuffixes) \in Q
    BY <2>2, DepartmentCards
  <2> HIDE DEF Q
  <2> QED
    BY <1>4, <2>3 DEF NoPlan
<1> HIDE DEF Q, slides, chosen, more, items
<1>8. \/ items = <<>> /\ SelectContentUnits(request) = <<>>
      \/ items # <<>> /\ SelectContentUnits(request) = slides
      \/ SelectContentUnits(request) = chosen \o more
  BY <1>1 DEF NoPlan
<1>9. SelectContentUnits(request) \in Q
  BY <1>4, <1>6, <1>7, <1>8
<1> QED
  BY <1>9 DEF Q

\* The cards of the older builders have no department in their name, but for the
\* stages of those compared.
LEMMA OlderSlides ==
    ASSUME NEW K, NEW card \in OlderCards, NEW count \in Nat
    PROVE  Slides(card, count) \in Seq(CardsFor(K))
<1> DEFINE f == [k \in 1 .. count |-> Slide(card)]
<1>1. Slide(card) \in CardsFor(K)
  BY DEF CardsFor, Slide, Unit
<1> HIDE DEF f
<1>2. f \in [1 .. count -> CardsFor(K)]
  BY <1>1 DEF f
<1> QED
  BY <1>2, SeqDef DEF Slides, f

LEMMA Prompted ==
    ASSUME NEW K, NEW card \in OlderCards
    PROVE  Prompt(card) \in Seq(CardsFor(K))
<1>1. Unit("prompt", card) \in CardsFor(K)
  BY DEF CardsFor, Unit
<1> HIDE DEF CardsFor
<1> QED
  BY <1>1 DEF Prompt

LEMMA ComparedCards ==
    ASSUME NEW K, K \subseteq Departments, NEW departments \in Seq(K)
    PROVE  ComparisonSlides(departments) \in Seq(CardsFor(K))
<1> DEFINE lists == [k \in DOMAIN departments |-> Sections(departments[k], ExplanationStages)]
           more == IF Len(departments) >= 2 THEN <<DifferenceUnit>> ELSE <<>>
           Q == Seq(CardsFor(K))
<1>1. FlattenSeq(lists) \in Q
  <2>1. \A k \in DOMAIN departments : departments[k] \in K
    BY ElementOfSeq, LenProperties
  <2>2. \A k \in DOMAIN departments : lists[k] \in Q
    BY <2>1, DepartmentCards
  <2>3. lists \in Seq(Q)
    <3> HIDE DEF Q
    <3> QED
      BY <2>2, Mapped
  <2> HIDE DEF lists
  <2> QED
    BY <2>3, Flattened
<1>2. more \in Q
  <2>1. <<DifferenceUnit>> \in Q /\ <<>> \in Q
    BY DepartmentCards
  <2> HIDE DEF Q
  <2> QED
    BY <2>1
<1> HIDE DEF lists, more
<1>3. FlattenSeq(lists) \o more \in Q
  BY <1>1, <1>2, ConcatProperties
<1> QED
  BY <1>3 DEF ComparisonSlides, lists, more

LEMMA LegacyCards ==
    ASSUME NEW K, K \subseteq Departments, NEW intent, NEW entities \in Seq(Subjects(K))
    PROVE  LegacyPlan(intent, entities) \in Seq(CardsFor(K))
<1> DEFINE departments == DepartmentsOf(entities)
           Q == Seq(CardsFor(K))
<1>1. ComparisonSlides(departments) \in Q
  BY DepartmentsSpoken, ComparedCards
<1>2. UnlistedSlide \in Q /\ DepartmentSlides \in Q /\ OverviewDeck(departments) \in Q
  <2>1. UnlistedSlide \in Q
    BY OlderSlides DEF UnlistedSlide, OlderCards
  <2>2. DepartmentSlides \in Q
    BY DepartmentCards DEF DepartmentSlides
  <2> QED
    BY <2>1, <2>2 DEF OverviewDeck
<1>3. /\ CollegeSlides \in Q /\ TrusteesSlides \in Q /\ ExecutiveSlide \in Q /\ FeesSlide \in Q
      /\ DocumentsSlides \in Q /\ CourseMenuSlide \in Q /\ PlacementSlides \in Q /\ AdmissionsSlides \in Q
      /\ HodSlide \in Q
  <2>1. CollegeSlides \in Q /\ TrusteesSlides \in Q /\ ExecutiveSlide \in Q
    BY OlderSlides DEF CollegeSlides, TrusteesSlides, ExecutiveSlide, OlderCards
  <2>2. FeesSlide \in Q /\ DocumentsSlides \in Q /\ CourseMenuSlide \in Q
    BY OlderSlides DEF FeesSlide, DocumentsSlides, CourseMenuSlide, OlderCards
  <2>3. PlacementSlides \in Q /\ AdmissionsSlides \in Q /\ HodSlide \in Q
    BY OlderSlides DEF PlacementSlides, AdmissionsSlides, HodSlide, OlderCards
  <2> QED
    BY <2>1, <2>2, <2>3
<1>4. <<>> \in Q
  OBVIOUS
<1>5. LegacyPlan(intent, entities) \in
        {CollegeSlides, TrusteesSlides, ExecutiveSlide, FeesSlide, DocumentsSlides, CourseMenuSlide, PlacementSlides,
         AdmissionsSlides, ComparisonSlides(departments), OverviewDeck(departments), HodSlide, <<>>}
  <2> HIDE DEF departments
  <2> QED
    BY DEF LegacyPlan, departments
<1> HIDE DEF departments, Q
<1>6. LegacyPlan(intent, entities) \in Q
  BY <1>1, <1>2, <1>3, <1>4, <1>5
<1> QED
  BY <1>6 DEF Q

\* The narrated cards of a turn are of this visit, if its request and its decision
\* are.
LEMMA NarratedCards ==
    ASSUME NEW K, K \subseteq Departments, NEW r, NEW request, request.items \in Seq(Items(K)),
           NEW d, d.entities \in Seq(Subjects(K))
    PROVE  Narration(r, request, d) \in Seq(CardsFor(K))
<1> DEFINE way == Prompt("campus_navigation")
           bus == Prompt("bus_routes")
           me == Prompt("about_me")
           selected == SelectContentUnits(request)
           legacy == LegacyPlan(r.intent, d.entities)
           Q == Seq(CardsFor(K))
           T == <<Rule(r.surface = "campus_navigation" \/ r.intent = "CAMPUS_NAVIGATION", way),
                  Rule(r.surface = "bus_routes" \/ r.intent = "BUS_ROUTES", bus),
                  Rule(r.surface = "about_me", me),
                  Rule(request.items # <<>> \/ r.surface = "department_overview", selected),
                  Rule(TRUE, legacy)>>
<1>1. Narration(r, request, d) = FirstOf(T)
  BY DEF Narration
<1>2. DOMAIN T = 1 .. 5 /\ T[5].when
  BY DEF Rule
<1>3. way \in Q /\ bus \in Q /\ me \in Q
  BY Prompted DEF OlderCards
<1>4. selected \in Q /\ legacy \in Q
  BY SelectedCards, LegacyCards
<1> HIDE DEF way, bus, me, selected, legacy
<1>5. /\ T[1].then = way /\ T[2].then = bus /\ T[3].then = me /\ T[4].then = selected
      /\ T[5].then = legacy
  BY DEF Rule
<1> HIDE DEF T, Q
<1>6. \A i \in 1 .. 5 : T[i].then \in Q
  BY <1>3, <1>4, <1>5
<1>7. \E i \in 1 .. 5 : FirstOf(T) = T[i].then
  <2>1. 5 \in Nat \ {0}
    OBVIOUS
  <2> QED
    BY <1>2, <2>1, FirstRule
<1>8. Narration(r, request, d) \in Q
  BY <1>1, <1>6, <1>7
<1> QED
  BY <1>8 DEF Q

\* A resolution of a known mode and authority, with the cards of this visit.
Carried(r, K) ==
    r.mode \in Modes /\ r.authority \in Authorities \cup {"none"} /\ r.bundle \in Seq(CardsFor(K))

LEMMA SealCarries ==
    ASSUME NEW K, NEW r, DOMAIN r = ResolutionFields, r.mode \in Modes, r.bundle \in Seq(CardsFor(K)),
           NEW authority \in Authorities
    PROVE  Carried(Seal(r, authority), K)
<1> DEFINE s == Seal(r, authority)
<1>1. s.mode = r.mode /\ s.authority = authority /\ s.bundle \in {r.bundle, <<>>}
  BY DEF Seal, ResolutionFields
<1>2. <<>> \in Seq(CardsFor(K))
  OBVIOUS
<1> HIDE DEF s
<1>3. Carried(s, K)
  BY <1>1, <1>2 DEF Carried
<1> QED
  BY <1>3 DEF s

LEMMA SealedCarries ==
    ASSUME NEW K, NEW r, DOMAIN r = ResolutionFields, Carried(r, K)
    PROVE  Carried(SealUnlessCards(r), K)
<1>1. AuthorityOf(r) \in Authorities
  BY DEF AuthorityOf, Authorities
<1>2. Carried(Seal(r, AuthorityOf(r)), K)
  BY <1>1, SealCarries DEF Carried
<1> QED
  BY <1>2 DEF SealUnlessCards

LEMMA AttachCarries ==
    ASSUME NEW K, K \subseteq Departments, NEW r, DOMAIN r = ResolutionFields, Carried(r, K),
           NEW request, request.items \in Seq(Items(K)), NEW d, d.entities \in Seq(Subjects(K)), NEW fault
    PROVE  Carried(Attach(r, request, d, fault), K)
<1> DEFINE bundle == Narration(r, request, d)
           full == [r EXCEPT !.bundle = bundle]
           plain == [r EXCEPT !.mode = "FULL_TEXT", !.generate = FALSE, !.surface = "none", !.degraded = TRUE]
<1>1. bundle \in Seq(CardsFor(K))
  BY NarratedCards
<1> HIDE DEF bundle
<1>2. Carried(Degrade(r), K)
  <2>1. DOMAIN plain = ResolutionFields /\ plain.mode \in Modes /\ plain.bundle = r.bundle
    BY DEF ResolutionFields, Modes
  <2>2. plain.bundle \in Seq(CardsFor(K))
    BY <2>1 DEF Carried
  <2>3. "GROQ" \in Authorities
    BY DEF Authorities
  <2> HIDE DEF plain
  <2>4. Carried(Seal(plain, "GROQ"), K)
    BY <2>1, <2>2, <2>3, SealCarries
  <2> QED
    BY <2>4 DEF Degrade, plain
<1>3. Carried(Seal(full, "CARD_PRESENTATION"), K)
  <2>1. DOMAIN full = ResolutionFields /\ full.mode = r.mode /\ full.bundle = bundle
    BY DEF ResolutionFields
  <2>2. "CARD_PRESENTATION" \in Authorities
    BY DEF Authorities
  <2> HIDE DEF full
  <2> QED
    BY <1>1, <2>1, <2>2, SealCarries DEF Carried
<1>4. Attach(r, request, d, fault) \in {r, Degrade(r), Seal(full, "CARD_PRESENTATION")}
  BY DEF Attach, AttachBundle, bundle
<1> HIDE DEF full
<1> QED
  BY <1>2, <1>3, <1>4

LEMMA ResolvedCarries ==
    ASSUME NEW K, NEW u, NEW t, NEW d, NEW action
    PROVE  Carried(SealUnlessCards(ResolvePresentation(u, t, d, action)), K)
<1> DEFINE r == ResolvePresentation(u, t, d, action)
<1>1. Unowned(r) /\ Phrased(u, r.mode, r.reply)
  BY ResolvedIsUnowned, ResolvedIsPhrased
<1> HIDE DEF r
<1>2. <<>> \in Seq(CardsFor(K))
  OBVIOUS
<1>3. Carried(r, K) /\ DOMAIN r = ResolutionFields
  BY <1>1, <1>2 DEF Unowned, Phrased, Carried
<1>4. Carried(SealUnlessCards(r), K)
  BY <1>3, SealedCarries
<1> QED
  BY <1>4 DEF r

LEMMA RepeatCarries ==
    ASSUME NEW K
    PROVE  Carried(SealUnlessCards(Silent("RETRY", TRUE)), K) /\ Carried(NewResolution, K)
<1> DEFINE r == Silent("RETRY", TRUE)
<1>1. Unowned(r) /\ r.mode = "RETRY"
  BY SilentIsUnowned, SilentMode, Zenon
<1>2. <<>> \in Seq(CardsFor(K))
  OBVIOUS
<1> HIDE DEF r
<1>3. Carried(r, K) /\ DOMAIN r = ResolutionFields
  BY <1>1, <1>2 DEF Unowned, Carried, Modes
<1>4. Carried(SealUnlessCards(r), K)
  BY <1>3, SealedCarries
<1>5. Carried(NewResolution, K)
  BY <1>2, NewIsUnowned, NewMode DEF Unowned, Carried, Modes
<1> QED
  BY <1>4, <1>5 DEF r

-----------------------------------------------------------------------------
\* What a decision is about, and what of it is remembered.
DecisionTyped(d, K) ==
    /\ d.mode \in DecisionModes
    /\ d.items \in Seq(Items(K)) /\ d.entities \in Seq(Subjects(K))
    /\ d.target = "department_information" => d.topic \in K

\* A click has no items; the answer to a question about a department has one of it.
LEMMA ClickTyped ==
    ASSUME NEW K, K \subseteq Departments, NEW local, LocalTyped(local, K)
    PROVE  DecisionTyped(ClickDecision(local), K)
<1> DEFINE one(topic) == <<Item(local.department, topic)>>
           chosen(topic, scope, why) ==
               [Card(why) EXCEPT !.items = one(topic), !.entities = <<local.department>>,
                                 !.scope = scope, !.topic = topic]
           explained == local.clarified /\ local.trigger = "department_explanation"
           shown == local.clarified /\ local.trigger = "department_overview"
<1>1. \/ explained /\ ClickDecision(local) = chosen("explanation", "single", "clarification_department_explanation")
      \/ shown /\ ClickDecision(local) = chosen("overview", "full_department", "clarification_department_overview")
      \/ ClickDecision(local) = Card("local_intent")
  BY DEF ClickDecision
<1>2. ASSUME NEW why PROVE DecisionTyped(Card(why), K) /\ DOMAIN Card(why) = DecisionFields
  <2>1. Bare(Card(why)) /\ Card(why).mode = "CARD" /\ DOMAIN Card(why) = DecisionFields
    BY PlainIsBare, PlainDecisions
  <2>2. <<>> \in Seq(Items(K)) /\ <<>> \in Seq(Subjects(K))
    OBVIOUS
  <2> QED
    BY <2>1, <2>2 DEF Bare, DecisionTyped, DecisionModes
<1>3. ASSUME NEW topic \in PairableTopics, NEW scope, NEW why, explained \/ shown
      PROVE  DecisionTyped(chosen(topic, scope, why), K)
  <2> DEFINE c == Card(why)
             e == [c EXCEPT !.items = one(topic), !.entities = <<local.department>>, !.scope = scope, !.topic = topic]
  <2>1. local.department \in K
    BY <1>3 DEF LocalTyped
  <2>2. Item(local.department, topic) \in Items(K)
    BY <1>3, <2>1 DEF Items, Asked, Item
  <2>3. one(topic) \in Seq(Items(K)) /\ <<local.department>> \in Seq(Subjects(K))
    <3>1. local.department \in Subjects(K)
      BY <2>1 DEF Subjects
    <3> QED
      BY <2>2, <3>1
  <2>4. DOMAIN c = DecisionFields /\ c.mode = "CARD" /\ c.target = "none"
    BY PlainDecisions DEF Card, Decided
  <2> HIDE DEF c, one
  <2>5. /\ e.items = one(topic) /\ e.entities = <<local.department>> /\ e.mode = "CARD" /\ e.target = "none"
    BY <2>4 DEF DecisionFields
  <2> HIDE DEF e
  <2>6. DecisionTyped(e, K)
    BY <2>3, <2>5 DEF DecisionTyped, DecisionModes
  <2> QED
    BY <2>6 DEF e, c
<1>4. "explanation" \in PairableTopics /\ "overview" \in PairableTopics
  BY DEF PairableTopics, AtomicTopics
<1> HIDE DEF chosen, explained, shown
<1> QED
  BY <1>1, <1>2, <1>3, <1>4

\* What the language model proposes is believed only of departments.
ProposedIn(p) == {p.items[k].entity : k \in DOMAIN p.items}
LEMMA ProposalTyped ==
    ASSUME NEW u, NEW request, NEW clicked, NEW faq, NEW p \in Proposals
    PROVE  LET v == ValidatedProposal(u, request, clicked, faq, p)
           IN  /\ ProposedIn(v) \subseteq Departments
               /\ v.items \in Seq(Asked(ProposedIn(v), CanonicalTopics))
               /\ v.target # "department_information"
<1> DEFINE v == ValidatedProposal(u, request, clicked, faq, p)
<1>1. NoProposal.items = <<>> /\ NoProposal.target = "none"
  BY DEF NoProposal
<1>2. CASE v = NoProposal
  <2>1. ProposedIn(NoProposal) = {}
    BY <1>1 DEF ProposedIn
  <2>2. <<>> \in Seq(Asked({}, CanonicalTopics))
    OBVIOUS
  <2> HIDE DEF v
  <2>3. ProposedIn(v) \subseteq Departments /\ v.items \in Seq(Asked(ProposedIn(v), CanonicalTopics)) /\ v.target = "none"
    BY <1>1, <1>2, <2>1, <2>2
  <2> QED
    BY <2>3 DEF v
<1>3. CASE v # NoProposal
  <2>1. v = p /\ Believable(u, p)
    BY <1>3 DEF ValidatedProposal
  <2>2. /\ \A k \in DOMAIN p.items : p.items[k].entity \in Departments /\ p.items[k].topic \in CanonicalTopics
        /\ p.target \in ClarifyTargets /\ p # NoProposal
    BY <2>1 DEF Believable
  <2>3. p.items \in Seq([entity : STRING, topic : STRING])
    BY <2>2, ProposalsAssumption
  <2>4. \A k \in DOMAIN p.items : p.items[k] \in Asked(ProposedIn(p), CanonicalTopics)
    <3>1. \A k \in DOMAIN p.items : p.items[k] \in [entity : STRING, topic : STRING]
      BY <2>3, ElementOfSeq, LenProperties
    <3> QED
      BY <2>2, <3>1 DEF Asked, ProposedIn
  <2>5. p.items \in Seq(Asked(ProposedIn(p), CanonicalTopics))
    <3> DEFINE A == Asked(ProposedIn(p), CanonicalTopics)
    <3>1. Len(p.items) \in Nat /\ DOMAIN p.items = 1 .. Len(p.items) /\ p.items \in [1 .. Len(p.items) -> [entity : STRING, topic : STRING]]
      BY <2>3, LenProperties
    <3> HIDE DEF A
    <3>2. p.items \in [1 .. Len(p.items) -> A]
      BY <2>4, <3>1 DEF A
    <3>3. p.items \in Seq(A)
      BY <3>1, <3>2, SeqDef
    <3> QED
      BY <3>3 DEF A
  <2>6. ProposedIn(p) \subseteq Departments /\ p.target # "department_information"
    BY <2>2 DEF ProposedIn, ClarifyTargets
  <2> HIDE DEF v
  <2>7. ProposedIn(v) \subseteq Departments /\ v.items \in Seq(Asked(ProposedIn(v), CanonicalTopics))
        /\ v.target # "department_information"
    BY <2>1, <2>5, <2>6
  <2> QED
    BY <2>7 DEF v
<1> QED
  BY <1>2, <1>3

\* What is drawn from a request and a proposal of this visit is of this visit.
LEMMA DrawnTyped ==
    ASSUME NEW K, K \subseteq Departments, NEW t, NEW d, Drawn(d, t), d.mode \in DecisionModes,
           t.request.items \in Seq(Items(K)),
           t.proposal.items \in Seq(Asked(K, CanonicalTopics)), t.proposal.target # "department_information"
    PROVE  DecisionTyped(d, K)
<1>1. t.proposal.items \in Seq(Items(K))
  <2>1. Asked(K, CanonicalTopics) \subseteq Items(K)
    BY DEF Items, Asked
  <2> QED
    BY <2>1, SeqMonotonic
<1>2. EntitiesOf(t.request) \in Seq(Subjects(K))
  BY RequestSubjects
<1>3. ProposedEntities(t.proposal) \in Seq(Subjects(K))
  <2> DEFINE items == t.proposal.items
             f == [k \in DOMAIN items |-> items[k].entity]
  <2>1. \A k \in DOMAIN items : f[k] \in K
    <3>1. \A k \in DOMAIN items : items[k] \in Asked(K, CanonicalTopics)
      BY ElementOfSeq, LenProperties
    <3> QED
      BY <3>1 DEF Asked
  <2>2. f \in Seq(K)
    BY <2>1, Mapped
  <2> HIDE DEF f
  <2>3. Once(f) \in Seq(K)
    BY <2>2, OnceKeeps
  <2>4. Once(f) \in Seq(Subjects(K))
    BY <2>3, SeqMonotonic DEF Subjects
  <2> QED
    BY <2>4 DEF ProposedEntities, f
<1>4. <<>> \in Seq(Items(K)) /\ <<>> \in Seq(Subjects(K))
  OBVIOUS
<1>5. d.target = "department_information" => d.topic \in K
  <2>1. \A k \in DOMAIN t.request.items : t.request.items[k] \in Items(K)
    BY ElementOfSeq, LenProperties
  <2>2. \A k \in DOMAIN t.request.items : t.request.items[k].entity \in Departments => t.request.items[k].entity \in K
    BY <2>1, ItemFields
  <2> QED
    BY <2>2 DEF Drawn
<1> QED
  BY <1>1, <1>2, <1>3, <1>4, <1>5 DEF Drawn, DecisionTyped

\* The one person a card is about is one of its items.
LEMMA PersonFound ==
    ASSUME NEW K, NEW items \in Seq(Items(K))
    PROVE  LastPerson([items |-> items]) \in Persons(K)
<1> DEFINE people == {i \in DOMAIN items : IsPerson(items[i])}
           i == CHOOSE i \in people : TRUE
<1>1. LastPerson([items |-> items]) = IF Cardinality(people) = 1 THEN items[i] ELSE NoItem
  BY DEF LastPerson
<1>2. people # {} => items[i] \in Items(K) /\ IsPerson(items[i])
  BY ElementOfSeq, LenProperties
<1>3. people = {} => Cardinality(people) = 0
  <2> HIDE DEF people
  <2> QED
    BY FS_EmptySet
<1> HIDE DEF people, i
<1> QED
  BY <1>1, <1>2, <1>3 DEF Persons

\* A section about CLARA is found only if she was named or spoken of before.
LEMMA SectionKnown ==
    ASSUME NEW u, NEW before \in AboutMeSections \cup {"none"}
    PROVE  /\ AboutMeSection(u, before) \in AboutMeSections \cup {"none"}
           /\ AboutMeSection(u, before) # "none" =>
                Has(u, SelfAnchors \cup CreatorNames \cup GuideWords) \/ before # "none"
<1> DEFINE spoken == Has(u, SelfAnchors)
           a == Has(u, CampusBlockers)
           b == Has(u, CreatorNames) /\ (spoken \/ Has(u, {"tell me about"}))
           c == Has(u, GuideWords) /\ (spoken \/ Has(u, {"nagashree"}))
           e == Has(u, CreatorWords)
           f == Has(u, CapabilityWords) /\ spoken
           g == Has(u, CapabilitiesWords)
           h == Has(u, SelfWords)
           i == Has(u, AboutMeFollowUps)
           T == <<Rule(a, "none"), Rule(b, "creators"), Rule(c, "guide"), Rule(e, "creators"),
                  Rule(f, "capabilities"), Rule(g, "capabilities"), Rule(h, "overview"), Rule(i, before),
                  Rule(TRUE, "none")>>
           said == Has(u, SelfAnchors \cup CreatorNames \cup GuideWords)
<1>1. AboutMeSection(u, before) = FirstOf(T)
  BY DEF AboutMeSection
<1>2. (b \/ c \/ e \/ f \/ g \/ h) => said
  BY DEF Has, SelfAnchors
<1> HIDE DEF a, b, c, e, f, g, h, i, said
<1>3. DOMAIN T = 1 .. 9 /\ T[9].when
  BY DEF Rule
<1>4. /\ T[1].then = "none" /\ T[2].then = "creators" /\ T[3].then = "guide" /\ T[4].then = "creators"
      /\ T[5].then = "capabilities"
  BY DEF Rule
<1>5. T[6].then = "capabilities" /\ T[7].then = "overview" /\ T[8].then = before /\ T[9].then = "none"
  BY DEF Rule
<1>6. /\ T[2].when = b /\ T[3].when = c /\ T[4].when = e
  BY DEF Rule
<1>7. T[5].when = f /\ T[6].when = g /\ T[7].when = h
  BY DEF Rule
<1> HIDE DEF T
<1>8. PICK k \in 1 .. 9 : T[k].when /\ FirstOf(T) = T[k].then
  <2>1. 9 \in Nat \ {0}
    OBVIOUS
  <2> QED
    BY <1>3, <2>1, FirstRule
<1>9. T[k].then \in AboutMeSections \cup {"none"}
  BY <1>4, <1>5, <1>8 DEF AboutMeSections
<1>10. T[k].then # "none" => said \/ before # "none"
  <2>1. k \in {1, 9} \/ k = 8 \/ k \in 2 .. 7
    BY <1>8
  <2>2. CASE k \in {1, 9}
    BY <1>4, <1>5, <2>2
  <2>3. CASE k = 8
    BY <1>5, <2>3
  <2>4. CASE k \in 2 .. 7
    <3>1. b \/ c \/ e \/ f \/ g \/ h
      BY <1>6, <1>7, <1>8, <2>4
    <3> QED
      BY <1>2, <3>1
  <2> QED
    BY <2>1, <2>2, <2>3, <2>4
<1> QED
  BY <1>1, <1>8, <1>9, <1>10 DEF said

LEMMA GenderKept ==
    ASSUME NEW m, m.gender \in Genders, NEW d, NEW local, local.gender \in Genders
    PROVE  StickyGender(m, d, local) \in Genders
<1>1. HostelGender(d, local) \in Genders
  BY DEF HostelGender, Genders
<1> QED
  BY <1>1 DEF StickyGender, Genders

\* What a decided turn leaves is of this visit, if the decision is.
LEMMA RememberTyped ==
    ASSUME NEW K, K \subseteq Departments, NEW m, DOMAIN m = MemoryFields, MemoryTyped(m, K),
           NEW d, DecisionTyped(d, K), NEW action, NEW local, local.gender \in Genders,
           NEW routed \in Seq(Words(K)), NEW text
    PROVE  MemoryTyped(Remember(m, d, action, local, routed, text), K)
<1> DEFINE after == Remember(m, d, action, local, routed, text)
           shown == LastPerson([items |-> d.items])
           person == IF d.items = <<>> THEN m.person ELSE shown
           question == [target |-> d.target, topic |-> d.topic, original |-> routed]
           pending == CASE d.mode = "CLARIFY" /\ d.target # "none" -> question
                        [] Settles(d) -> NoPending
                        [] OTHER -> m.pending
           ncc == CASE d.mode \in {"CARD", "ANSWER"} /\ "ncc" \in EntitiesIn(d) -> TRUE
                    [] Settles(d) /\ "ncc" \notin EntitiesIn(d) -> FALSE
                    [] OTHER -> m.ncc
           aboutMe == CASE action = "ABOUT_ME" -> AboutMeSection(text, m.aboutMe)
                        [] action # "ABOUT_ME" /\ Settles(d) -> "none"
                        [] OTHER -> m.aboutMe
           active == ActiveContext(m, d, person)
           asked == [k \in DOMAIN d.items |-> d.items[k].topic]
<1>1. after = [m EXCEPT !.departments = OrElse(d.entities, @),
                        !.named = IF d.entities # <<>> THEN <<>> ELSE @,
                        !.person = person, !.active = active, !.pending = pending,
                        !.gender = StickyGender(m, d, local), !.ncc = ncc, !.aboutMe = aboutMe]
  BY DEF Remember
<1>2. OrElse(d.entities, m.departments) \in Seq(Subjects(K))
  BY DEF OrElse, MemoryTyped, DecisionTyped
<1>3. /\ (IF d.entities # <<>> THEN <<>> ELSE m.named) \in Seq(Seq(K))
      /\ Len(IF d.entities # <<>> THEN <<>> ELSE m.named) <= HistoryTurns
  <2>1. <<>> \in Seq(Seq(K)) /\ Len(<<>>) <= HistoryTurns
    BY DEF HistoryTurns
  <2>2. m.named \in Seq(Seq(K)) /\ Len(m.named) <= HistoryTurns
    BY DEF MemoryTyped
  <2> QED
    BY <2>1, <2>2
<1>4. person \in Persons(K)
  <2>1. shown \in Persons(K)
    BY PersonFound DEF DecisionTyped
  <2> HIDE DEF shown
  <2> QED
    BY <2>1 DEF MemoryTyped
<1>5. /\ active.entities \in Seq(Subjects(K)) /\ active.topics \in Seq(Topics) /\ active.person \in Persons(K)
  <2>1. Once(asked) \in Seq(Topics)
    <3>1. d.items \in Seq(Items(K))
      BY DEF DecisionTyped
    <3>2. \A k \in DOMAIN d.items : d.items[k] \in Items(K)
      BY <3>1, ElementOfSeq, LenProperties
    <3>3. \A k \in DOMAIN d.items : asked[k] \in Topics
      BY <3>2, ItemFields
    <3>4. asked \in Seq(Topics)
      BY <3>1, <3>3, Mapped
    <3> HIDE DEF asked
    <3> QED
      BY <3>4, OnceKeeps
  <2> HIDE DEF person
  <2> DEFINE new == [entities |-> OrElse(d.entities, m.active.entities),
                     topics |-> OrElse(Once(asked), m.active.topics),
                     person |-> IF person # NoItem THEN person ELSE m.active.person]
  <2>2. active \in {m.active, new}
    BY DEF ActiveContext
  <2> HIDE DEF asked, active
  <2>3. new.entities \in Seq(Subjects(K)) /\ new.topics \in Seq(Topics) /\ new.person \in Persons(K)
    BY <1>4, <2>1 DEF OrElse, MemoryTyped, DecisionTyped
  <2> HIDE DEF new
  <2> QED
    BY <2>2, <2>3 DEF MemoryTyped
<1>6. pending.original \in Seq(Lexicon) /\ (pending.target = "department_information" => pending.topic \in K)
  <2>1. pending \in {question, NoPending, m.pending}
    BY DEF Settles
  <2>2. routed \in Seq(Lexicon)
    BY SeqMonotonic DEF Words
  <2>3. <<>> \in Seq(Lexicon)
    OBVIOUS
  <2>4. question.original \in Seq(Lexicon) /\ (question.target = "department_information" => question.topic \in K)
    BY <2>2 DEF DecisionTyped
  <2>5. NoPending.original \in Seq(Lexicon) /\ NoPending.target = "none"
    BY <2>3 DEF NoPending
  <2>6. m.pending.original \in Seq(Lexicon) /\ (m.pending.target = "department_information" => m.pending.topic \in K)
    BY DEF MemoryTyped
  <2> HIDE DEF pending, question
  <2> QED
    BY <2>1, <2>4, <2>5, <2>6
<1>7. StickyGender(m, d, local) \in Genders
  BY GenderKept DEF MemoryTyped
<1>8. ncc \in BOOLEAN
  <2>1. ncc \in {TRUE, FALSE, m.ncc}
    BY DEF Settles
  <2> HIDE DEF ncc
  <2> QED
    BY <2>1 DEF MemoryTyped
<1>9. aboutMe \in AboutMeSections \cup {"none"}
  <2>1. aboutMe \in {AboutMeSection(text, m.aboutMe), "none", m.aboutMe}
    OBVIOUS
  <2>2. AboutMeSection(text, m.aboutMe) \in AboutMeSections \cup {"none"}
    BY SectionKnown DEF MemoryTyped
  <2> HIDE DEF aboutMe
  <2> QED
    BY <2>1, <2>2 DEF MemoryTyped
<1> HIDE DEF person, active, pending, ncc, aboutMe, after
<1>10. /\ after.departments = OrElse(d.entities, m.departments)
       /\ after.named = IF d.entities # <<>> THEN <<>> ELSE m.named
       /\ after.person = person /\ after.active = active /\ after.pending = pending
       /\ after.gender = StickyGender(m, d, local) /\ after.ncc = ncc /\ after.aboutMe = aboutMe
  BY <1>1 DEF MemoryFields
<1>11. MemoryTyped(after, K)
  BY <1>2, <1>3, <1>4, <1>5, <1>6, <1>7, <1>8, <1>9, <1>10 DEF MemoryTyped
<1> QED
  BY <1>11 DEF after

\* The history of a visit is that of its last turns.
LEMMA CompleteTyped ==
    ASSUME NEW K, K \subseteq Departments, NEW m, DOMAIN m = MemoryFields, MemoryTyped(m, K),
           NEW said \in Seq(Words(K))
    PROVE  MemoryTyped(Complete(m, said), K)
<1> DEFINE spans == DepartmentSpans(said)
           f == [k \in DOMAIN spans |-> spans[k].of]
           all == Append(m.named, f)
           first == IF Len(all) > HistoryTurns THEN 2 ELSE 1
           cut == SubSeq(all, first, Len(all))
<1>1. said \in Seq(Lexicon)
  BY SeqMonotonic DEF Words
<1>2. spans \in Seq(SpansOf(ToSet(said) \cap Departments))
  BY <1>1, FirstSpansOf DEF DepartmentSpans
<1>3. ToSet(said) \cap Departments \subseteq K
  BY ElementOfSeq, LenProperties DEF ToSet, Words
<1>4. f \in Seq(K)
  <2> HIDE DEF spans
  <2>1. \A k \in DOMAIN spans : f[k] \in K
    BY <1>2, <1>3, SpanFields
  <2> QED
    BY <1>2, <2>1, Mapped
<1>5. m.named \in Seq(Seq(K)) /\ Len(m.named) <= HistoryTurns
  BY DEF MemoryTyped
<1> HIDE DEF f
<1> DEFINE Q == Seq(K)
<1>6. m.named \in Seq(Q) /\ f \in Q /\ Len(m.named) \in Nat
  BY <1>4, <1>5
<1> HIDE DEF Q
<1>7. all \in Seq(Q) /\ Len(all) = Len(m.named) + 1
  BY <1>6, AppendProperties
<1> HIDE DEF all
<1>8. cut \in Seq(Q) /\ Len(cut) <= HistoryTurns
  <2>1. cut \in Seq(Q)
    BY <1>6, <1>7, SubSeqProperties
  <2>2. Len(cut) = IF first <= Len(all) THEN Len(all) - first + 1 ELSE 0
    BY <1>6, <1>7, SubSeqProperties
  <2> QED
    BY <1>5, <1>6, <1>7, <2>1, <2>2 DEF HistoryTurns
<1> HIDE DEF cut
<1>9. Complete(m, said) = m \/ Complete(m, said) = [m EXCEPT !.named = cut]
  BY DEF Complete, cut, first, all, f
<1>10. MemoryTyped([m EXCEPT !.named = cut], K)
  BY <1>8 DEF MemoryTyped, MemoryFields, Q
<1> QED
  BY <1>9, <1>10

\* A reset forgets everything but the person shown last.
LEMMA ForgottenTyped ==
    ASSUME NEW K, K \subseteq Departments, NEW m, MemoryTyped(m, K)
    PROVE  MemoryTyped(Forgotten(m), K \cap {m.person.entity})
<1> DEFINE L == K \cap {m.person.entity}
           after == Forgotten(m)
<1>1. /\ after.person = m.person /\ after.aboutMe = m.aboutMe /\ after.gender = "none" /\ after.ncc = FALSE
      /\ after.departments = <<>> /\ after.named = <<>> /\ after.active = NoActive /\ after.pending = NoPending
  BY NothingShape DEF Forgotten, Nothing, MemoryFields
<1>2. m.person \in Persons(L)
  <2>1. CASE m.person = NoItem
    BY <2>1 DEF Persons
  <2>2. CASE m.person \in Items(K) /\ IsPerson(m.person)
    <3>1. m.person \in Items(L)
      <4> DEFINE p == m.person
      <4>1. p \in Items(K)
        BY <2>2
      <4> HIDE DEF p
      <4>2. p \in Items(K \cap {p.entity})
        BY <4>1 DEF Items, Asked
      <4> QED
        BY <4>2 DEF p
    <3> HIDE DEF L
    <3> QED
      BY <2>2, <3>1 DEF Persons
  <2> QED
    BY <2>1, <2>2 DEF MemoryTyped, Persons
<1>3. NoItem \in Persons(L)
  BY DEF Persons
<1>4. /\ <<>> \in Seq(Subjects(L)) /\ <<>> \in Seq(Seq(L)) /\ <<>> \in Seq(Topics) /\ <<>> \in Seq(Lexicon)
      /\ Len(<<>>) <= HistoryTurns
  BY DEF HistoryTurns
<1>5. /\ NoActive.entities = <<>> /\ NoActive.topics = <<>> /\ NoActive.person = NoItem
      /\ NoPending.original = <<>> /\ NoPending.target = "none"
  BY DEF NoActive, NoPending
<1>6. m.aboutMe \in AboutMeSections \cup {"none"}
  BY DEF MemoryTyped
<1> HIDE DEF after, L
<1>7. MemoryTyped(after, L)
  BY <1>1, <1>2, <1>3, <1>4, <1>5, <1>6 DEF MemoryTyped, Genders
<1> QED
  BY <1>7 DEF after, L

LEMMA NothingTyped == ASSUME NEW K PROVE MemoryTyped(Nothing, K)
<1>1. /\ Nothing.person = NoItem /\ Nothing.aboutMe = "none" /\ Nothing.gender = "none" /\ Nothing.ncc = FALSE
      /\ Nothing.departments = <<>> /\ Nothing.named = <<>> /\ Nothing.active = NoActive /\ Nothing.pending = NoPending
  BY DEF Nothing
<1>2. NoItem \in Persons(K)
  BY DEF Persons
<1>3. /\ <<>> \in Seq(Subjects(K)) /\ <<>> \in Seq(Seq(K)) /\ <<>> \in Seq(Topics) /\ <<>> \in Seq(Lexicon)
      /\ Len(<<>>) <= HistoryTurns
  BY DEF HistoryTurns
<1>4. /\ NoActive.entities = <<>> /\ NoActive.topics = <<>> /\ NoActive.person = NoItem
      /\ NoPending.original = <<>> /\ NoPending.target = "none"
  BY DEF NoActive, NoPending
<1> QED
  BY <1>1, <1>2, <1>3, <1>4 DEF MemoryTyped, Genders

-----------------------------------------------------------------------------
\* The invariant: the session and the turn are of what this visit has spoken of.
TurnTyped(t, K) ==
    /\ t.said \in Seq(Words(K)) /\ t.routed \in Seq(Words(K)) /\ t.text \in Seq(Words(K))
    /\ LocalTyped(t.local, K)
    /\ t.request.items \in Seq(Items(K))
    /\ t.decision.mode \in DecisionModes \cup {"none"}
    /\ t.decision.items \in Seq(Items(K)) /\ t.decision.entities \in Seq(Subjects(K))
    /\ Carried(t.resolution, K)
OfThisVisit == known \subseteq Departments /\ MemoryTyped(memory, known) /\ TurnTyped(turn, known)

LEMMA MoreTurns ==
    ASSUME NEW K, NEW L, K \subseteq L, NEW t, TurnTyped(t, K)
    PROVE  TurnTyped(t, L)
<1>1. /\ Seq(Words(K)) \subseteq Seq(Words(L)) /\ Seq(Items(K)) \subseteq Seq(Items(L))
      /\ Seq(Subjects(K)) \subseteq Seq(Subjects(L)) /\ Seq(CardsFor(K)) \subseteq Seq(CardsFor(L))
  BY MoreSpoken, SeqMonotonic
<1>2. LocalTyped(t.local, L)
  BY DEF TurnTyped, LocalTyped
<1>3. Carried(t.resolution, L)
  BY <1>1 DEF TurnTyped, Carried
<1> QED
  BY <1>1, <1>2, <1>3 DEF TurnTyped

LEMMA NoTurnTyped == ASSUME NEW K PROVE TurnTyped(NoTurn, K)
<1>1. /\ NoTurn.said = <<>> /\ NoTurn.routed = <<>> /\ NoTurn.text = <<>> /\ NoTurn.local = NoLocal
      /\ NoTurn.decision = Decided("none", "none") /\ NoTurn.request = NoRequest
      /\ NoTurn.resolution = NewResolution
  BY DEF NoTurn
<1>2. /\ Decided("none", "none").mode = "none" /\ Decided("none", "none").items = <<>>
      /\ Decided("none", "none").entities = <<>> /\ NoRequest.items = <<>>
  BY DEF Decided, NoRequest
<1>3. <<>> \in Seq(Words(K)) /\ <<>> \in Seq(Items(K)) /\ <<>> \in Seq(Subjects(K))
  OBVIOUS
<1>4. LocalTyped(NoLocal, K)
  BY ClarifiedFields DEF LocalTyped, Genders
<1>5. Carried(NewResolution, K)
  BY RepeatCarries
<1> QED
  BY <1>1, <1>2, <1>3, <1>4, <1>5 DEF TurnTyped

LEMMA InitiallyOfThisVisit == Init => OfThisVisit
BY NothingTyped, NoTurnTyped DEF Init, OfThisVisit

LEMMA BeginOfThisVisit ==
    ASSUME IInv, OfThisVisit, NEW u, u \in Seq(Lexicon), NEW clicked, Begin(u, clicked),
           clicked.gender = "none", clicked.clarified = FALSE
    PROVE  OfThisVisit'
<1> DEFINE K == known \cup (ToSet(u) \cap Departments)
           context == Contextual(u, memory)
           answer == TryResolvePending(context.routed, memory.pending)
           local == IF clicked # NoLocal THEN clicked ELSE answer.local
           pending == IF answer.clear THEN NoPending ELSE memory.pending
<1>1. known \subseteq K /\ K \subseteq Departments
  BY DEF OfThisVisit
<1>2. u \in Seq(Words(K))
  <2>1. \A k \in DOMAIN u : u[k] \in Words(K)
    BY ElementOfSeq, LenProperties DEF Words, ToSet
  <2>2. Len(u) \in Nat /\ DOMAIN u = 1 .. Len(u) /\ u \in [1 .. Len(u) -> Lexicon]
    BY LenProperties
  <2>3. u \in [1 .. Len(u) -> Words(K)]
    <3> HIDE DEF K
    <3> QED
      BY <2>1, <2>2
  <2> HIDE DEF K
  <2> QED
    BY <2>2, <2>3, SeqDef
<1> HIDE DEF K
<1>3. MemoryTyped(memory, K)
  BY <1>1, MoreRemembered DEF OfThisVisit
<1>4. context.routed \in Seq(Words(K))
  BY <1>1, <1>2, <1>3, ContextualWords
<1> HIDE DEF context
<1>5. answer.text \in Seq(Words(K)) /\ LocalTyped(answer.local, K)
  <2>1. memory.pending.original \in Seq(Lexicon)
        /\ (memory.pending.target = "department_information" => memory.pending.topic \in K)
    BY <1>3 DEF MemoryTyped
  <2> QED
    BY <1>1, <1>4, <2>1, AnsweredWords
<1> HIDE DEF answer
<1>6. LocalTyped(local, K)
  BY <1>5 DEF LocalTyped, Genders
<1>7. MemoryTyped([memory EXCEPT !.pending = pending], K)
  <2>1. pending \in {NoPending, memory.pending}
    OBVIOUS
  <2>2. <<>> \in Seq(Lexicon)
    OBVIOUS
  <2>3. pending.original \in Seq(Lexicon) /\ (pending.target = "department_information" => pending.topic \in K)
    BY <1>3, <2>1, <2>2 DEF MemoryTyped, NoPending
  <2> HIDE DEF pending
  <2> QED
    BY <1>3, <2>3 DEF MemoryTyped, IInv, Shape, MemoryFields
<1> HIDE DEF local
<1> DEFINE after == [NoTurn EXCEPT !.at = "heard", !.said = u, !.routed = context.routed, !.text = answer.text,
                                   !.follows = context.follows, !.local = local]
<1>8. TurnTyped(after, K)
  <2>1. TurnTyped(NoTurn, K)
    BY NoTurnTyped
  <2>2. /\ after.said = u /\ after.routed = context.routed /\ after.text = answer.text /\ after.local = local
        /\ after.request = NoTurn.request /\ after.decision = NoTurn.decision /\ after.resolution = NoTurn.resolution
    BY NoTurnShape DEF TurnFields
  <2> HIDE DEF after
  <2> QED
    BY <1>2, <1>4, <1>5, <1>6, <2>1, <2>2 DEF TurnTyped
<1>9. turn' = after /\ memory' = [memory EXCEPT !.pending = pending] /\ known' = K
  BY DEF Begin, context, answer, local, K
<1> HIDE DEF after, pending
<1> QED
  BY <1>1, <1>7, <1>8, <1>9 DEF OfThisVisit

LEMMA HearOfThisVisit == ASSUME IInv, OfThisVisit, NEW u \in Utterances, Hear(u) PROVE OfThisVisit'
<1>1. u \in Seq(Lexicon)
  <2>1. u \in Seq(STRING)
    BY UtterancesAssumption
  <2>2. Len(u) \in Nat /\ DOMAIN u = 1 .. Len(u) /\ u \in [1 .. Len(u) -> STRING]
    BY <2>1, LenProperties
  <2>3. \A k \in DOMAIN u : u[k] \in Lexicon
    BY DEF Lexicon, ToSet
  <2>4. u \in [1 .. Len(u) -> Lexicon]
    BY <2>2, <2>3
  <2> QED
    BY <2>2, <2>4, SeqDef
<1>2. NoLocal.gender = "none" /\ NoLocal.clarified = FALSE
  BY ClarifiedFields
<1> QED
  BY <1>1, <1>2, BeginOfThisVisit DEF Hear

LEMMA ClickOfThisVisit ==
    ASSUME IInv, OfThisVisit, NEW department \in Departments, Click(department)
    PROVE  OfThisVisit'
<1> DEFINE clicked == [NoLocal EXCEPT !.trigger = "department_click", !.department = department]
<1>1. clicked.gender = "none" /\ clicked.clarified = FALSE
  BY ClarifiedFields DEF LocalFields
<1>2. <<department>> \in Seq(Lexicon)
  <2>1. department \in Lexicon
    BY DEF Lexicon
  <2> QED
    BY <2>1
<1>3. Begin(<<department>>, clicked)
  BY DEF Click
<1> HIDE DEF clicked
<1> QED
  BY <1>1, <1>2, <1>3, BeginOfThisVisit

LEMMA RepeatOfThisVisit == ASSUME IInv, OfThisVisit, AskToRepeat PROVE OfThisVisit'
<1> DEFINE r == SealUnlessCards(Silent("RETRY", TRUE))
<1>1. Carried(r, known)
  BY RepeatCarries
<1> HIDE DEF r
<1>2. turn' = [turn EXCEPT !.at = "decided", !.action = "NO_SPEECH_RETRY", !.resolution = r]
  BY DEF AskToRepeat, r
<1>3. /\ turn'.said = turn.said /\ turn'.routed = turn.routed /\ turn'.text = turn.text /\ turn'.local = turn.local
      /\ turn'.request = turn.request /\ turn'.decision = turn.decision /\ turn'.resolution = r
  BY <1>2 DEF IInv, Shape, TurnFields
<1>4. TurnTyped(turn', known)
  BY <1>1, <1>3 DEF OfThisVisit, TurnTyped
<1>5. memory' = memory /\ known' = known
  BY DEF AskToRepeat
<1> QED
  BY <1>4, <1>5 DEF OfThisVisit

\* A turn is decided by a card of its own, or by something drawn from what it was
\* bound to and what the language model proposed.
LEMMA DecisionFacts ==
    ASSUME IInv, OfThisVisit, Decide
    PROVE  \E t, d :
             /\ DecideAs(t, d, RoutePolicy(turn.text, t, d, memory.aboutMe)) /\ UNCHANGED last
             /\ t.local = turn.local /\ t.request.items \in Seq(Grounded(turn.text, Context))
             /\ t.request.items \in Seq(Items(known))
             /\ ProposedIn(t.proposal) \subseteq Departments
             /\ t.proposal.items \in Seq(Asked(ProposedIn(t.proposal), CanonicalTopics))
             /\ DecisionTyped(d, known \cup ProposedIn(t.proposal))
             /\ turn.local # NoLocal => d = ClickDecision(turn.local)
             /\ turn.local = NoLocal => Drawn(d, t)
<1>1. PICK t \in Facts : \E d \in {Resolve(turn.text, t)} :
          DecideAs(t, d, RoutePolicy(turn.text, t, d, memory.aboutMe))
  BY DEF Decide
<1> DEFINE request == Parse(turn.text, Context)
           faq == IsFaq(turn.text)
           clicked == turn.local # NoLocal
<1>2. PICK p \in Proposals : /\ t.request = request /\ t.local = turn.local
                             /\ t.proposal = ValidatedProposal(turn.text, request, clicked, faq, p)
  BY <1>1 DEF Facts, FactsOf
<1>3. /\ known \subseteq Departments /\ MemoryTyped(memory, known) /\ turn.text \in Seq(Words(known))
      /\ LocalTyped(turn.local, known)
  BY DEF OfThisVisit, TurnTyped
<1>4. /\ Context.departments \in Seq(known) /\ Context.person \in Persons(known) /\ Context.gender \in Genders
      /\ Context.ncc \in BOOLEAN
  <2>1. /\ Context.departments = DepartmentsOf(LastDepartments(memory)) /\ Context.person = memory.person
        /\ Context.gender \in {turn.local.gender, memory.gender} /\ Context.ncc = memory.ncc
    BY DEF Context
  <2>2. DepartmentsOf(LastDepartments(memory)) \in Seq(known)
    BY <1>3, RememberedDepartments
  <2> QED
    BY <1>3, <2>1, <2>2 DEF MemoryTyped, LocalTyped
<1>5. request.items \in Seq(Items(known))
  BY <1>3, <1>4, ParsedItems
<1>6. request.items \in Seq(Grounded(turn.text, Context))
  <2>1. turn.text \in Seq(Lexicon) /\ Context.departments \in Seq(Departments)
    BY <1>3, <1>4, SeqMonotonic DEF Words
  <2> QED
    BY <2>1, Parsed
<1> HIDE DEF request, faq, clicked
<1>7. /\ ProposedIn(t.proposal) \subseteq Departments
      /\ t.proposal.items \in Seq(Asked(ProposedIn(t.proposal), CanonicalTopics))
      /\ t.proposal.target # "department_information"
  <2>1. LET v == ValidatedProposal(turn.text, request, clicked, faq, p)
        IN  /\ ProposedIn(v) \subseteq Departments
            /\ v.items \in Seq(Asked(ProposedIn(v), CanonicalTopics))
            /\ v.target # "department_information"
    BY ProposalTyped
  <2> QED
    BY <1>2, <2>1
<1> DEFINE d == Resolve(turn.text, t)
           K == known \cup ProposedIn(t.proposal)
<1>8. known \subseteq K /\ K \subseteq Departments
  BY <1>3, <1>7
<1>9. d.mode \in DecisionModes
  BY Resolved DEF Fair
<1>10. turn.local # NoLocal => d = ClickDecision(turn.local)
  BY <1>2 DEF Resolve
<1>11. turn.local = NoLocal => Drawn(d, t)
  BY <1>2, <1>5, ResolvedIsDrawn
<1> HIDE DEF d
<1>12. DecisionTyped(d, K)
  <2>1. CASE turn.local # NoLocal
    <3>1. LocalTyped(turn.local, K)
      BY <1>3, <1>8 DEF LocalTyped
    <3> HIDE DEF K
    <3> QED
      BY <1>8, <1>10, <2>1, <3>1, ClickTyped
  <2>2. CASE turn.local = NoLocal
    <3>1. Asked(ProposedIn(t.proposal), CanonicalTopics) \subseteq Asked(K, CanonicalTopics)
      BY DEF Asked
    <3> HIDE DEF K
    <3>2. t.proposal.items \in Seq(Asked(K, CanonicalTopics))
      BY <1>7, <3>1, SeqMonotonic
    <3>3. Items(known) \subseteq Items(K)
      BY <1>8, MoreSpoken, Zenon
    <3>4. t.request.items \in Seq(Items(K))
      BY <1>2, <1>5, <3>3, SeqMonotonic
    <3> QED
      BY <1>7, <1>8, <1>9, <1>11, <2>2, <3>2, <3>4, DrawnTyped
  <2> QED
    BY <2>1, <2>2
<1>13. DecideAs(t, d, RoutePolicy(turn.text, t, d, memory.aboutMe)) /\ UNCHANGED last
  BY <1>1 DEF Decide, d
<1> HIDE DEF request
<1> QED
  BY <1>2, <1>5, <1>6, <1>7, <1>10, <1>11, <1>12, <1>13

LEMMA DecideOfThisVisit == ASSUME IInv, OfThisVisit, Decide PROVE OfThisVisit'
<1>1. PICK t, d :
             /\ DecideAs(t, d, RoutePolicy(turn.text, t, d, memory.aboutMe)) /\ UNCHANGED last
             /\ t.request.items \in Seq(Items(known))
             /\ ProposedIn(t.proposal) \subseteq Departments
             /\ DecisionTyped(d, known \cup ProposedIn(t.proposal))
  BY DecisionFacts
<1> DEFINE K == known \cup ProposedIn(t.proposal)
           action == RoutePolicy(turn.text, t, d, memory.aboutMe)
           r == SealUnlessCards(ResolvePresentation(turn.text, t, d, action))
           after == Remember(memory, d, action, turn.local, turn.routed, turn.text)
<1>2. known \subseteq K /\ K \subseteq Departments
  BY <1>1 DEF OfThisVisit
<1>3. DecisionTyped(d, K)
  BY <1>1
<1>4. DecideAs(t, d, action)
  BY <1>1
<1>5. known' = K
  BY <1>4 DEF DecideAs, ProposedIn
<1> HIDE DEF K, action
<1>6. Carried(r, K)
  BY ResolvedCarries
<1> HIDE DEF r
<1>7. MemoryTyped(memory, K) /\ TurnTyped(turn, K)
  BY <1>2, MoreRemembered, MoreTurns DEF OfThisVisit
<1>8. MemoryTyped(after, K)
  <2>1. turn.local.gender \in Genders /\ turn.routed \in Seq(Words(K)) /\ DOMAIN memory = MemoryFields
    BY <1>7 DEF TurnTyped, LocalTyped, IInv, Shape
  <2> QED
    BY <1>2, <1>3, <1>7, <2>1, RememberTyped
<1> HIDE DEF after
<1>9. memory' = after /\ turn' = [turn EXCEPT !.at = "decided", !.decision = d, !.action = action,
                                              !.request = t.request, !.resolution = r]
  BY <1>4 DEF DecideAs, after, r
<1>10. /\ turn'.said = turn.said /\ turn'.routed = turn.routed /\ turn'.text = turn.text
       /\ turn'.local = turn.local /\ turn'.request = t.request /\ turn'.decision = d /\ turn'.resolution = r
  BY <1>9 DEF IInv, Shape, TurnFields
<1>11. t.request.items \in Seq(Items(K))
  <2>1. Items(known) \subseteq Items(K)
    BY <1>2, MoreSpoken, Zenon
  <2> QED
    BY <1>1, <2>1, SeqMonotonic
<1>12. TurnTyped(turn', K)
  BY <1>3, <1>6, <1>7, <1>10, <1>11 DEF TurnTyped, DecisionTyped
<1> QED
  BY <1>2, <1>5, <1>8, <1>9, <1>12 DEF OfThisVisit

LEMMA AttachOfThisVisit == ASSUME IInv, OfThisVisit, NEW fault, AttachNarration(fault) PROVE OfThisVisit'
<1> DEFINE r == Attach(turn.resolution, turn.request, turn.decision, fault)
<1>1. Carried(r, known)
  <2>1. DOMAIN turn.resolution = ResolutionFields
    BY DEF AttachNarration, IInv, HasOwnerOrNone, Owned, Unowned
  <2>2. /\ Carried(turn.resolution, known) /\ turn.request.items \in Seq(Items(known))
        /\ turn.decision.entities \in Seq(Subjects(known)) /\ known \subseteq Departments
    BY DEF OfThisVisit, TurnTyped
  <2> QED
    BY <2>1, <2>2, AttachCarries
<1> HIDE DEF r
<1>2. turn' = [turn EXCEPT !.at = "attached", !.resolution = r]
  BY DEF AttachNarration, r
<1>3. /\ turn'.said = turn.said /\ turn'.routed = turn.routed /\ turn'.text = turn.text /\ turn'.local = turn.local
      /\ turn'.request = turn.request /\ turn'.decision = turn.decision /\ turn'.resolution = r
  BY <1>2 DEF IInv, Shape, TurnFields
<1>4. TurnTyped(turn', known)
  BY <1>1, <1>3 DEF OfThisVisit, TurnTyped
<1>5. memory' = memory /\ known' = known
  BY DEF AttachNarration
<1> QED
  BY <1>4, <1>5 DEF OfThisVisit

LEMMA EndOfThisVisit == ASSUME IInv, OfThisVisit, Finish \/ Fail \/ Interrupt PROVE OfThisVisit'
<1>1. turn' = NoTurn /\ known' = known /\ memory' \in {memory, Complete(memory, turn.said)}
  BY DEF Finish, Fail, Interrupt
<1>2. MemoryTyped(Complete(memory, turn.said), known)
  BY CompleteTyped DEF OfThisVisit, TurnTyped, IInv, Shape
<1> QED
  BY <1>1, <1>2, NoTurnTyped DEF OfThisVisit

LEMMA ResetOfThisVisit == ASSUME IInv, OfThisVisit, Reset PROVE OfThisVisit'
<1> DEFINE L == known \cap {memory.person.entity}
<1>1. MemoryTyped(Forgotten(memory), L)
  BY ForgottenTyped DEF OfThisVisit
<1>2. {memory.person.entity} \cap Departments = L
  <2>1. known \subseteq Departments /\ memory.person \in Persons(known)
    BY DEF OfThisVisit, MemoryTyped
  <2>2. CASE memory.person = NoItem
    <3>1. memory.person.entity = "none"
      BY <2>2 DEF NoItem, Item
    <3>2. "none" \notin Departments
      BY NamesApart DEF OtherNames
    <3> QED
      BY <2>1, <3>1, <3>2
  <2>3. CASE memory.person \in Items(known)
    BY <2>1, <2>3, ItemFields
  <2> QED
    BY <2>1, <2>2, <2>3 DEF Persons
<1>3. turn' = NoTurn /\ memory' = Forgotten(memory) /\ known' = L
  BY <1>2 DEF Reset
<1> HIDE DEF L
<1>4. L \subseteq Departments
  BY DEF L, OfThisVisit
<1> QED
  BY <1>1, <1>3, <1>4, NoTurnTyped DEF OfThisVisit

LEMMA StepOfThisVisit == IInv /\ OfThisVisit /\ [Next]_vars => OfThisVisit'
<1> SUFFICES ASSUME IInv, OfThisVisit, [Next]_vars
             PROVE  OfThisVisit'
  OBVIOUS
<1>1. ASSUME NEW u \in Utterances, Hear(u) PROVE OfThisVisit'
  BY <1>1, HearOfThisVisit
<1>2. ASSUME NEW department \in Departments, Click(department) PROVE OfThisVisit'
  BY <1>2, ClickOfThisVisit
<1>3. ASSUME NEW fault \in Faults, AttachNarration(fault) PROVE OfThisVisit'
  BY <1>3, AttachOfThisVisit
<1>4. UNCHANGED vars => OfThisVisit'
  BY DEF vars, OfThisVisit
<1> QED
  BY <1>1, <1>2, <1>3, <1>4, RepeatOfThisVisit, DecideOfThisVisit, EndOfThisVisit, ResetOfThisVisit DEF Next

\* In every state the session and the turn are of what this visit has spoken of:
\* the inductive invariant under the types and under DepartmentsOfThisVisit.
THEOREM VisitInvariant == Spec => []OfThisVisit
BY Invariant, InitiallyOfThisVisit, StepOfThisVisit, PTL DEF Spec

LEMMA SpokenOf ==
    ASSUME NEW K, K \subseteq Departments
    PROVE  /\ \A s \in Seq(Subjects(K)) : ToSet(s) \subseteq Subjects(K)
           /\ Subjects(K) \cap Departments \subseteq K
           /\ \A person \in Persons(K) : person.entity \in Departments => person.entity \in K
<1>1. \A s \in Seq(Subjects(K)) : ToSet(s) \subseteq Subjects(K)
  BY ElementOfSeq, LenProperties DEF ToSet
<1>2. Subjects(K) \cap Departments \subseteq K
  BY VocabularyIsText, NamesApart DEF Subjects, OtherNames
<1>3. ASSUME NEW person \in Persons(K) PROVE person.entity \in Departments => person.entity \in K
  <2>1. CASE person = NoItem
    BY <2>1, NamesApart DEF NoItem, Item, OtherNames
  <2>2. CASE person \in Items(K)
    BY <2>2, ItemFields
  <2> QED
    BY <1>3, <2>1, <2>2 DEF Persons
<1> QED
  BY <1>1, <1>2, <1>3

\* The types of the session and the turn: a mode and an authority of the lists, and
\* a narrated card the kiosk has or an older builder makes.
THEOREM TypeTheorem == Spec => []TypeOK
<1>1. ASSUME IInv, OfThisVisit PROVE TypeOK
  <2>1. /\ known \subseteq Departments /\ MemoryTyped(memory, known) /\ Carried(turn.resolution, known)
        /\ turn.decision.mode \in DecisionModes \cup {"none"}
    BY <1>1 DEF OfThisVisit, TurnTyped
  <2>2. turn.at \in {"none", "heard", "decided", "attached"}
    BY <1>1 DEF IInv, Shape
  <2>3. \A k \in DOMAIN turn.resolution.bundle :
          turn.resolution.bundle[k] \in Registered \/ turn.resolution.bundle[k][1] \in {"prompt", "legacy"}
    <3>1. \A k \in DOMAIN turn.resolution.bundle : turn.resolution.bundle[k] \in CardsFor(known)
      BY <2>1, ElementOfSeq, LenProperties DEF Carried
    <3> QED
      BY <3>1 DEF CardsFor
  <2>4. ToSet(memory.departments) \subseteq Departments \cup CampusEntities \cup {"placement"}
    <3>1. ToSet(memory.departments) \subseteq Subjects(known)
      BY <2>1, SpokenOf DEF MemoryTyped
    <3> QED
      BY <2>1, <3>1 DEF Subjects
  <2>5. /\ memory.gender \in {"none", "boys", "girls"} /\ memory.ncc \in BOOLEAN
        /\ memory.aboutMe \in AboutMeSections \cup {"none"} /\ Len(memory.named) <= HistoryTurns
    BY <2>1 DEF MemoryTyped, Genders
  <2>6. /\ turn.resolution.mode \in Modes /\ turn.resolution.authority \in Authorities \cup {"none"}
        /\ turn.decision.mode \in {"none", "CARD", "ANSWER", "CLARIFY", "FALLBACK"}
    BY <2>1 DEF Carried, DecisionModes
  <2> QED
    BY <2>2, <2>3, <2>4, <2>5, <2>6 DEF TypeOK
<1> QED
  BY <1>1, Invariant, VisitInvariant, PTL

\* No follow-up is completed by another visitor's: every department a turn is
\* about, shows, or leaves for later turns was said, clicked or proposed since
\* the session began, or left by the reset.
THEOREM VisitTheorem == Spec => []DepartmentsOfThisVisit
<1>1. ASSUME OfThisVisit PROVE DepartmentsOfThisVisit
  <2>1. /\ known \subseteq Departments /\ MemoryTyped(memory, known) /\ Carried(turn.resolution, known)
        /\ turn.decision.entities \in Seq(Subjects(known))
    BY <1>1 DEF OfThisVisit, TurnTyped
  <2>2. ToSet(turn.decision.entities) \cap Departments \subseteq known
    BY <2>1, SpokenOf
  <2>3. Narrated \cap Departments \subseteq known
    <3>1. \A k \in DOMAIN turn.resolution.bundle : turn.resolution.bundle[k] \in CardsFor(known)
      BY <2>1, ElementOfSeq, LenProperties DEF Carried
    <3>2. \A x \in CardsFor(known) : x[1] \in Departments => x[1] \in known
      BY NamesApart DEF CardsFor, OtherNames
    <3> QED
      BY <3>1, <3>2 DEF Narrated
  <2>4. ToSet(memory.departments) \cap Departments \subseteq known
        /\ ToSet(memory.active.entities) \cap Departments \subseteq known
    BY <2>1, SpokenOf DEF MemoryTyped
  <2>5. ToSet(FlattenSeq(memory.named)) \subseteq known
    <3>1. FlattenSeq(memory.named) \in Seq(known)
      BY <2>1, Flattened DEF MemoryTyped
    <3> QED
      BY <3>1, ElementOfSeq, LenProperties DEF ToSet
  <2>6. {memory.person.entity, memory.active.person.entity} \cap Departments \subseteq known
    <3>1. memory.person \in Persons(known) /\ memory.active.person \in Persons(known)
      BY <2>1 DEF MemoryTyped
    <3>2. \A person \in Persons(known) : person.entity \in Departments => person.entity \in known
      BY <2>1, SpokenOf, Zenon
    <3> QED
      BY <3>1, <3>2
  <2>7. Remembered \cap Departments \subseteq known
    BY <2>4, <2>5, <2>6 DEF Remembered
  <2> QED
    BY <2>2, <2>3, <2>7 DEF DepartmentsOfThisVisit
<1> QED
  BY <1>1, VisitInvariant, PTL

-----------------------------------------------------------------------------
\* What a conversation sticks to ends with its topic.  In every state the hostel,
\* the cadet corps and the section about CLARA that the session keeps are what the
\* last turn, or the one at hand once it is decided, was about.
StickyFlags ==
    /\ memory.gender # "none" => HostelOf[memory.gender] \in Settled.about
    /\ memory.ncc = TRUE => "ncc" \in Settled.about
    /\ memory.aboutMe # "none" => "me" \in Settled.about
FreshTurn == turn.at \in {"none", "heard"} => turn.decision.items = <<>> /\ turn.action = "none"
Sticky == StickyFlags /\ FreshTurn /\ StickyEndsWithItsTopic

\* What a turn was about once it is decided.
AboutAfter(d, action, local, before) ==
    (IF action = "ABOUT_ME" THEN {"me"} ELSE {})
    \cup (IF Settles(d)
          THEN EntitiesIn(d) \cup (IF local.gender = "none" THEN {} ELSE {HostelOf[local.gender]})
          ELSE before)

LEMMA NoTurnSettled == turn = NoTurn => Settled.about = last.about
<1>1. /\ NoTurn.at = "none" /\ NoTurn.action = "none" /\ NoTurn.decision = Decided("none", "none")
  BY DEF NoTurn
<1>2. Decided("none", "none").mode = "none"
  BY DEF Decided
<1> QED
  BY <1>1, <1>2 DEF Settled, Settles

\* The hostel that is remembered is the one a card was about, or the one the answer
\* to a question named.
LEMMA HostelSaid ==
    ASSUME NEW S, NEW d, d.items \in Seq(S), NEW local
    PROVE  /\ EntitiesIn(d) \cap HostelEntities # {} =>
                HostelGender(d, local) \in {"boys", "girls"} /\ HostelOf[HostelGender(d, local)] \in EntitiesIn(d)
           /\ EntitiesIn(d) \cap HostelEntities = {} => HostelGender(d, local) = local.gender
<1> DEFINE items == d.items
           I == {k \in DOMAIN items : items[k].entity \in HostelEntities}
           Y == {items[i] : i \in DOMAIN items \cap I}
           hostels == At(items, I)
<1>1. hostels \in Seq(Y)
  BY AtPlaces
<1>2. hostels = <<>> => DOMAIN items \cap I = {}
  BY AtNothing
<1>3. HostelGender(d, local) = IF hostels # <<>> THEN (IF hostels[1].entity = HostelOf.boys THEN "boys" ELSE "girls")
                               ELSE local.gender
  BY DEF HostelGender
<1>4. \A y \in Y : y.entity \in EntitiesIn(d) \cap HostelEntities
  BY DEF EntitiesIn
<1>5. hostels # <<>> => hostels[1] \in Y
  <2> HIDE DEF hostels, Y
  <2> QED
    BY <1>1, ElementOfSeq, EmptySeq, LenProperties
<1>6. EntitiesIn(d) \cap HostelEntities # {} => DOMAIN items \cap I # {}
  BY DEF EntitiesIn
<1> HIDE DEF hostels, Y, I
<1>7. HostelEntities = {HostelOf["boys"], HostelOf["girls"]} /\ HostelOf.boys = HostelOf["boys"]
  BY DEF HostelEntities, HostelOf
<1>8. CASE hostels # <<>>
  <2>1. hostels[1].entity \in EntitiesIn(d) \cap HostelEntities
    BY <1>4, <1>5, <1>8
  <2>2. HostelGender(d, local) = IF hostels[1].entity = HostelOf["boys"] THEN "boys" ELSE "girls"
    BY <1>3, <1>7, <1>8
  <2>3. CASE hostels[1].entity = HostelOf["boys"]
    BY <2>1, <2>2, <2>3
  <2>4. CASE hostels[1].entity # HostelOf["boys"]
    BY <1>7, <2>1, <2>2, <2>4
  <2> QED
    BY <2>1, <2>3, <2>4
<1>9. CASE hostels = <<>>
  BY <1>2, <1>3, <1>6, <1>9
<1> QED
  BY <1>8, <1>9

\* What a decision leaves to stick to is what it was about.
LEMMA StickyRemembered ==
    ASSUME NEW m, DOMAIN m = MemoryFields, m.gender \in Genders, NEW before,
           m.gender # "none" => HostelOf[m.gender] \in before,
           m.ncc = TRUE => "ncc" \in before, m.aboutMe # "none" => "me" \in before,
           NEW S, NEW d, d.items \in Seq(S), d.mode \in DecisionModes,
           d.mode # "CARD" => d.items = <<>> \/ OnlyEnrollment(d.items),
           NEW local, local.gender \in Genders, local.gender # "none" => d.mode = "CARD",
           NEW action, NEW routed, NEW text
    PROVE  LET after == Remember(m, d, action, local, routed, text)
               about == AboutAfter(d, action, local, before)
           IN  /\ after.gender # "none" => HostelOf[after.gender] \in about
               /\ after.ncc = TRUE => "ncc" \in about
               /\ after.aboutMe # "none" => "me" \in about
<1> DEFINE after == Remember(m, d, action, local, routed, text)
           about == AboutAfter(d, action, local, before)
           ncc == CASE d.mode \in {"CARD", "ANSWER"} /\ "ncc" \in EntitiesIn(d) -> TRUE
                    [] Settles(d) /\ "ncc" \notin EntitiesIn(d) -> FALSE
                    [] OTHER -> m.ncc
           aboutMe == CASE action = "ABOUT_ME" -> AboutMeSection(text, m.aboutMe)
                        [] action # "ABOUT_ME" /\ Settles(d) -> "none"
                        [] OTHER -> m.aboutMe
<1>1. after.gender = StickyGender(m, d, local) /\ after.ncc = ncc /\ after.aboutMe = aboutMe
  BY DEF Remember, MemoryFields
<1>2. /\ Settles(d) => EntitiesIn(d) \subseteq about
      /\ Settles(d) /\ local.gender # "none" => HostelOf[local.gender] \in about
      /\ ~Settles(d) => before \subseteq about
      /\ action = "ABOUT_ME" => "me" \in about
  BY DEF AboutAfter
<1> HIDE DEF after, about
<1>3. d.mode \in {"CARD", "ANSWER"} => Settles(d)
  BY DEF Settles
<1>4. ncc = TRUE => "ncc" \in about
  BY <1>2, <1>3
<1>5. aboutMe # "none" => "me" \in about
  BY <1>2
<1>6. StickyGender(m, d, local) # "none" => HostelOf[StickyGender(m, d, local)] \in about
  <2> DEFINE gender == HostelGender(d, local)
             hostel == EntitiesIn(d) \cap HostelEntities # {}
  <2>1. /\ hostel => gender \in {"boys", "girls"} /\ HostelOf[gender] \in EntitiesIn(d)
        /\ ~hostel => gender = local.gender
    BY HostelSaid
  <2>2. StickyGender(m, d, local) = CASE d.mode = "CARD" /\ gender # "none" -> gender
                                      [] Settles(d) /\ ~hostel /\ gender = "none" -> "none"
                                      [] OTHER -> m.gender
    BY DEF StickyGender
  <2>3. d.mode # "CARD" => ~hostel
    <3>1. d.items = <<>> => EntitiesIn(d) = {}
      BY DEF EntitiesIn
    <3>2. OnlyEnrollment(d.items) => EntitiesIn(d) \subseteq {"ncc"}
      BY DEF OnlyEnrollment, EntitiesIn, Item
    <3>3. "ncc" \notin HostelEntities
      BY DEF HostelEntities, HostelOf
    <3> QED
      BY <3>1, <3>2, <3>3 DEF hostel
  <2> HIDE DEF gender, hostel
  <2>4. CASE d.mode = "CARD" /\ gender # "none"
    <3>1. HostelOf[gender] \in about
      BY <1>2, <1>3, <2>1, <2>4
    <3> QED
      BY <2>2, <2>4, <3>1
  <2>5. CASE Settles(d) /\ ~hostel /\ gender = "none"
    BY <2>2, <2>5
  <2>6. CASE ~(d.mode = "CARD" /\ gender # "none") /\ ~(Settles(d) /\ ~hostel /\ gender = "none")
    <3>1. StickyGender(m, d, local) = m.gender
      BY <2>2, <2>6
    <3>2. ~Settles(d)
      BY <2>1, <2>3, <2>6
    <3> QED
      BY <1>2, <3>1, <3>2
  <2> QED
    BY <2>4, <2>5, <2>6
<1> QED
  BY <1>1, <1>4, <1>5, <1>6 DEF after, about

\* A hostel or the cadet corps is bound to an utterance only if it was said there or
\* is what the session sticks to.
LEMMA BoundIsSaid ==
    ASSUME NEW K, K \subseteq Departments, NEW u, NEW ctx, ctx.person \in Persons(K),
           NEW i \in Grounded(u, ctx), i.entity \in HostelEntities \cup {"ncc"}
    PROVE  Has(u, {i.entity}) \/ i.entity \in StickyUnits(ctx)
<1> DEFINE H == HostelEntities \cup {"ncc"}
<1>1. H \subseteq CampusEntities
  BY DEF CampusEntities, NccWords
<1>2. H \cap EventEntities = {} /\ "placement" \notin H /\ "leadership" \notin H /\ "college" \notin H
  BY DEF HostelEntities, HostelOf, EventEntities, EventDeck, ToSet
<1>3. H \cap Departments = {}
  BY <1>1, NamesApart, VocabularyIsText
<1> HIDE DEF H
<1>4. i.entity \in H
  BY DEF H
<1>5. i \notin {ctx.person} \ {NoItem}
  <2>1. SUFFICES ASSUME i = ctx.person, i # NoItem PROVE FALSE
    OBVIOUS
  <2>2. i \in Items(K) /\ IsPerson(i)
    BY <2>1 DEF Persons
  <2> QED
    BY <1>1, <1>4, <2>2, PersonsLead
<1>6. i.entity \in OwnUnits(u, ctx)
  BY <1>2, <1>3, <1>4, <1>5 DEF Grounded, Asked, OwnDepartments
<1> QED
  BY <1>2, <1>4, <1>6 DEF OwnUnits, Has, ToSet

LEMMA InitiallySticky == Init => Sticky
<1>1. NoTurn.decision.items = <<>> /\ NoTurn.action = "none"
  BY DEF NoTurn, Decided
<1>2. Nothing.gender = "none" /\ Nothing.ncc = FALSE /\ Nothing.aboutMe = "none"
  BY DEF Nothing
<1> QED
  BY <1>1, <1>2 DEF Init, Sticky, StickyFlags, FreshTurn, StickyEndsWithItsTopic, EntitiesIn

\* A turn that is not decided sticks to what the turns before left.
LEMMA BeginSticky == ASSUME IInv, Sticky, NEW u, NEW clicked, Begin(u, clicked) PROVE Sticky'
<1>1. /\ turn = NoTurn /\ last' = last /\ turn'.at = "heard" /\ turn'.decision = NoTurn.decision
      /\ turn'.action = NoTurn.action
  BY NoTurnShape DEF Begin, TurnFields
<1>2. memory'.gender = memory.gender /\ memory'.ncc = memory.ncc /\ memory'.aboutMe = memory.aboutMe
  BY DEF Begin, IInv, Shape, MemoryFields
<1>3. NoTurn.decision.items = <<>> /\ NoTurn.action = "none"
  BY DEF NoTurn, Decided
<1>4. Settled'.about = last.about /\ Settled.about = last.about
  BY <1>1, NoTurnSettled DEF Settled
<1>5. StickyFlags'
  BY <1>2, <1>4 DEF Sticky, StickyFlags
<1>6. FreshTurn' /\ StickyEndsWithItsTopic'
  BY <1>1, <1>3 DEF FreshTurn, StickyEndsWithItsTopic, EntitiesIn
<1> QED
  BY <1>5, <1>6 DEF Sticky

LEMMA RepeatSticky == ASSUME IInv, Sticky, AskToRepeat PROVE Sticky'
<1> DEFINE r == SealUnlessCards(Silent("RETRY", TRUE))
<1>1. /\ turn.at = "heard" /\ memory' = memory /\ last' = last
      /\ turn' = [turn EXCEPT !.at = "decided", !.action = "NO_SPEECH_RETRY", !.resolution = r]
  BY DEF AskToRepeat
<1> HIDE DEF r
<1>2. turn'.at = "decided" /\ turn'.action = "NO_SPEECH_RETRY" /\ turn'.decision = turn.decision
  BY <1>1 DEF IInv, Shape, TurnFields
<1>3. Settled'.about = last.about /\ Settled.about = last.about
  BY <1>1, <1>2 DEF Settled
<1>4. turn.decision.items = <<>>
  BY <1>1 DEF Sticky, FreshTurn
<1>5. StickyFlags'
  BY <1>1, <1>3 DEF Sticky, StickyFlags
<1>6. FreshTurn' /\ StickyEndsWithItsTopic'
  BY <1>2, <1>4 DEF FreshTurn, StickyEndsWithItsTopic, EntitiesIn
<1> QED
  BY <1>5, <1>6 DEF Sticky

\* The items of a turn that has a card of its own are of a department.
LEMMA ClickIsOfADepartment ==
    ASSUME NEW K, K \subseteq Departments, NEW local, LocalTyped(local, K)
    PROVE  LET d == ClickDecision(local)
           IN  d.mode = "CARD" /\ EntitiesIn(d) \subseteq K
<1> DEFINE one(topic) == <<Item(local.department, topic)>>
           chosen(topic, scope, why) ==
               [Card(why) EXCEPT !.items = one(topic), !.entities = <<local.department>>,
                                 !.scope = scope, !.topic = topic]
           explained == local.clarified /\ local.trigger = "department_explanation"
           shown == local.clarified /\ local.trigger = "department_overview"
<1>1. \/ explained /\ ClickDecision(local) = chosen("explanation", "single", "clarification_department_explanation")
      \/ shown /\ ClickDecision(local) = chosen("overview", "full_department", "clarification_department_overview")
      \/ ClickDecision(local) = Card("local_intent")
  BY DEF ClickDecision
<1>2. ASSUME NEW why PROVE Card(why).mode = "CARD" /\ EntitiesIn(Card(why)) = {}
  <2>1. Card(why).items = <<>>
    BY PlainIsBare DEF Bare
  <2>2. Card(why).mode = "CARD"
    BY PlainDecisions
  <2> QED
    BY <2>1, <2>2 DEF EntitiesIn
<1>3. ASSUME NEW topic, NEW scope, NEW why, explained \/ shown
      PROVE  LET d == chosen(topic, scope, why) IN d.mode = "CARD" /\ EntitiesIn(d) \subseteq K
  <2> DEFINE c == Card(why)
             e == [c EXCEPT !.items = one(topic), !.entities = <<local.department>>, !.scope = scope, !.topic = topic]
  <2>1. local.department \in K
    BY <1>3 DEF LocalTyped
  <2>2. DOMAIN c = DecisionFields /\ c.mode = "CARD"
    BY PlainDecisions
  <2> HIDE DEF c
  <2>3. /\ e.items = one(topic) /\ e.mode = "CARD"
    BY <2>2 DEF DecisionFields
  <2> HIDE DEF e
  <2>4. EntitiesIn(e) \subseteq K
    BY <2>1, <2>3 DEF EntitiesIn, Item
  <2> QED
    BY <2>3, <2>4 DEF e, c
<1> HIDE DEF chosen, explained, shown
<1> QED
  BY <1>1, <1>2, <1>3

LEMMA DecideSticky == ASSUME IInv, OfThisVisit, Sticky, Decide PROVE Sticky'
<1>1. PICK t, d :
             /\ DecideAs(t, d, RoutePolicy(turn.text, t, d, memory.aboutMe)) /\ UNCHANGED last
             /\ t.local = turn.local /\ t.request.items \in Seq(Grounded(turn.text, Context))
             /\ t.request.items \in Seq(Items(known))
             /\ ProposedIn(t.proposal) \subseteq Departments
             /\ t.proposal.items \in Seq(Asked(ProposedIn(t.proposal), CanonicalTopics))
             /\ DecisionTyped(d, known \cup ProposedIn(t.proposal))
             /\ turn.local # NoLocal => d = ClickDecision(turn.local)
             /\ turn.local = NoLocal => Drawn(d, t)
  BY DecisionFacts
<1> DEFINE action == RoutePolicy(turn.text, t, d, memory.aboutMe)
           r == SealUnlessCards(ResolvePresentation(turn.text, t, d, action))
           after == Remember(memory, d, action, turn.local, turn.routed, turn.text)
           about == AboutAfter(d, action, turn.local, last.about)
           H == HostelEntities \cup {"ncc"}
<1>2. /\ known \subseteq Departments /\ LocalTyped(turn.local, known) /\ memory.gender \in Genders
      /\ memory.person \in Persons(known) /\ memory.aboutMe \in AboutMeSections \cup {"none"}
  BY DEF OfThisVisit, TurnTyped, MemoryTyped
<1>3. turn.at = "heard"
  BY DEF Decide
<1>4. /\ memory.gender # "none" => HostelOf[memory.gender] \in last.about
      /\ memory.ncc = TRUE => "ncc" \in last.about
      /\ memory.aboutMe # "none" => "me" \in last.about
  BY <1>3 DEF Sticky, StickyFlags, Settled
<1>5. d.mode \in DecisionModes
  BY <1>1 DEF DecisionTyped
<1>6. action # "NO_SPEECH_RETRY"
  BY <1>5, PolicySays
<1>7. turn.local # NoLocal => d.mode = "CARD" /\ EntitiesIn(d) \subseteq known
  BY <1>1, <1>2, ClickIsOfADepartment
<1>8. NoLocal.gender = "none"
  BY ClarifiedFields
<1>9. action = "ABOUT_ME" => Has(turn.text, SelfAnchors \cup CreatorNames \cup GuideWords) \/ "me" \in last.about
  <2>1. action = "ABOUT_ME" => AboutMeSection(turn.text, memory.aboutMe) # "none"
    BY <1>5, PolicySays
  <2>2. AboutMeSection(turn.text, memory.aboutMe) # "none" =>
             Has(turn.text, SelfAnchors \cup CreatorNames \cup GuideWords) \/ memory.aboutMe # "none"
    BY <1>2, SectionKnown
  <2> HIDE DEF action
  <2> QED
    BY <1>4, <2>1, <2>2
<1>10. DecideAs(t, d, action)
  BY <1>1
<1> HIDE DEF action, r, after, about
<1>11. memory' = after /\ turn' = [turn EXCEPT !.at = "decided", !.decision = d, !.action = action,
                                               !.request = t.request, !.resolution = r]
  BY <1>10 DEF DecideAs, after, r
<1>12. /\ turn'.at = "decided" /\ turn'.decision = d /\ turn'.action = action /\ turn'.local = turn.local
       /\ turn'.text = turn.text /\ last' = last
  BY <1>1, <1>11 DEF IInv, Shape, TurnFields
<1>13. Settled'.about = about
  BY <1>6, <1>12 DEF Settled, about, AboutAfter, Settles, EntitiesIn
<1>14. StickyFlags'
  <2>1. DOMAIN memory = MemoryFields
    BY DEF IInv, Shape
  <2>2. d.items \in Seq(Items(known \cup ProposedIn(t.proposal)))
    BY <1>1 DEF DecisionTyped
  <2>3. d.mode # "CARD" => d.items = <<>> \/ OnlyEnrollment(d.items)
    BY <1>1, <1>7 DEF Drawn
  <2>4. turn.local.gender \in Genders /\ (turn.local.gender # "none" => d.mode = "CARD")
    BY <1>2, <1>7, <1>8 DEF LocalTyped
  <2>5. /\ after.gender # "none" => HostelOf[after.gender] \in about
        /\ after.ncc = TRUE => "ncc" \in about
        /\ after.aboutMe # "none" => "me" \in about
    BY <1>2, <1>4, <1>5, <2>1, <2>2, <2>3, <2>4, StickyRemembered DEF after, about
  <2> QED
    BY <1>11, <1>13, <2>5 DEF StickyFlags
<1>15. ASSUME NEW e \in EntitiesIn(d) \cap H PROVE Has(turn.text, {e}) \/ e \in last.about
  <2>1. H \cap Departments = {}
    BY NamesApart, VocabularyIsText DEF CampusEntities, NccWords
  <2>2. turn.local = NoLocal
    BY <1>2, <1>7, <1>15, <2>1
  <2>3. PICK k \in DOMAIN d.items : e = d.items[k].entity
    BY <1>15 DEF EntitiesIn
  <2>4. d.items = t.request.items
    <3>1. d.items \in {<<>>, t.request.items, t.proposal.items}
      BY <1>1, <2>2 DEF Drawn
    <3>2. d.items # t.proposal.items
      <4>1. SUFFICES ASSUME d.items = t.proposal.items PROVE FALSE
        OBVIOUS
      <4>2. d.items[k] \in Asked(ProposedIn(t.proposal), CanonicalTopics)
        BY <1>1, <2>3, <4>1, ElementOfSeq, LenProperties
      <4>3. e \in Departments
        BY <1>1, <2>3, <4>2 DEF Asked
      <4> QED
        BY <1>15, <2>1, <4>3
    <3>3. d.items # <<>>
      BY <2>3
    <3> QED
      BY <3>1, <3>2, <3>3
  <2>5. d.items[k] \in Grounded(turn.text, Context)
    BY <1>1, <2>3, <2>4, ElementOfSeq, LenProperties
  <2>6. Context.person \in Persons(known) /\ Context.gender = memory.gender /\ Context.ncc = memory.ncc
    BY <1>2, <1>8, <2>2 DEF Context
  <2>7. Has(turn.text, {e}) \/ e \in StickyUnits(Context)
    BY <1>2, <1>15, <2>3, <2>5, <2>6, BoundIsSaid
  <2>8. memory.ncc \in BOOLEAN
    BY DEF OfThisVisit, MemoryTyped
  <2>9. e \in StickyUnits(Context) => e \in last.about
    BY <1>4, <2>6, <2>8 DEF StickyUnits
  <2> QED
    BY <2>7, <2>9
<1>16. StickyEndsWithItsTopic'
  BY <1>9, <1>12, <1>15 DEF StickyEndsWithItsTopic, EntitiesIn
<1>17. FreshTurn'
  BY <1>12 DEF FreshTurn
<1> QED
  BY <1>14, <1>16, <1>17 DEF Sticky

LEMMA AttachSticky == ASSUME IInv, Sticky, NEW fault, AttachNarration(fault) PROVE Sticky'
<1> DEFINE r == Attach(turn.resolution, turn.request, turn.decision, fault)
<1>1. /\ turn.at = "decided" /\ memory' = memory /\ last' = last
      /\ turn' = [turn EXCEPT !.at = "attached", !.resolution = r]
  BY DEF AttachNarration
<1> HIDE DEF r
<1>2. /\ turn'.at = "attached" /\ turn'.action = turn.action /\ turn'.decision = turn.decision
      /\ turn'.local = turn.local /\ turn'.text = turn.text
  BY <1>1 DEF IInv, Shape, TurnFields
<1>3. Settled'.about = Settled.about
  BY <1>1, <1>2 DEF Settled, Settles, EntitiesIn
<1>4. StickyFlags'
  BY <1>1, <1>3 DEF Sticky, StickyFlags
<1>5. FreshTurn' /\ StickyEndsWithItsTopic'
  BY <1>1, <1>2 DEF Sticky, FreshTurn, StickyEndsWithItsTopic, EntitiesIn
<1> QED
  BY <1>4, <1>5 DEF Sticky

\* However a turn ends, what it was about is what the next one may stick to.
LEMMA EndSticky == ASSUME IInv, Sticky, Finish \/ Fail \/ Interrupt PROVE Sticky'
<1>1. turn' = NoTurn /\ last' = Settled /\ memory' \in {memory, Complete(memory, turn.said)}
  BY DEF Finish, Fail, Interrupt
<1>2. memory'.gender = memory.gender /\ memory'.ncc = memory.ncc /\ memory'.aboutMe = memory.aboutMe
  <2>1. Complete(memory, turn.said) = memory \/ \E x : Complete(memory, turn.said) = [memory EXCEPT !.named = x]
    BY DEF Complete
  <2> QED
    BY <1>1, <2>1 DEF IInv, Shape, MemoryFields
<1>3. NoTurn.decision.items = <<>> /\ NoTurn.action = "none"
  BY DEF NoTurn, Decided
<1>4. Settled'.about = last'.about
  <2>1. /\ NoTurn.at = "none" /\ NoTurn.action = "none" /\ NoTurn.decision = Decided("none", "none")
    BY DEF NoTurn
  <2>2. Decided("none", "none").mode = "none"
    BY DEF Decided
  <2> QED
    BY <1>1, <2>1, <2>2 DEF Settled, Settles
<1>5. StickyFlags'
  BY <1>1, <1>2, <1>4 DEF Sticky, StickyFlags
<1>6. FreshTurn' /\ StickyEndsWithItsTopic'
  BY <1>1, <1>3 DEF FreshTurn, StickyEndsWithItsTopic, EntitiesIn
<1> QED
  BY <1>5, <1>6 DEF Sticky

LEMMA ResetSticky == ASSUME IInv, Sticky, Reset PROVE Sticky'
<1>1. memory'.gender = "none" /\ memory'.ncc = FALSE /\ memory'.aboutMe = memory.aboutMe
  BY NothingShape DEF Reset, Forgotten, Nothing, MemoryFields
<1>2. turn' = NoTurn /\ last'.about = IF memory.aboutMe # "none" THEN {"me"} ELSE {}
  BY NothingAskedShape DEF Reset, LastFields
<1>3. NoTurn.decision.items = <<>> /\ NoTurn.action = "none" /\ NoTurn.at = "none" /\ NoTurn.decision.mode = "none"
  BY DEF NoTurn, Decided
<1>4. Settled'.about = last'.about
  BY <1>2, <1>3 DEF Settled, Settles
<1>5. StickyFlags'
  BY <1>1, <1>2, <1>4 DEF StickyFlags
<1>6. FreshTurn' /\ StickyEndsWithItsTopic'
  BY <1>2, <1>3 DEF FreshTurn, StickyEndsWithItsTopic, EntitiesIn
<1> QED
  BY <1>5, <1>6 DEF Sticky

LEMMA StepSticky == IInv /\ OfThisVisit /\ Sticky /\ [Next]_vars => Sticky'
<1> SUFFICES ASSUME IInv, OfThisVisit, Sticky, [Next]_vars
             PROVE  Sticky'
  OBVIOUS
<1>1. ASSUME NEW u \in Utterances, Hear(u) PROVE Sticky'
  BY <1>1, BeginSticky DEF Hear
<1>2. ASSUME NEW department \in Departments, Click(department) PROVE Sticky'
  BY <1>2, BeginSticky DEF Click
<1>3. ASSUME NEW fault \in Faults, AttachNarration(fault) PROVE Sticky'
  BY <1>3, AttachSticky
<1>4. UNCHANGED vars => Sticky'
  BY DEF vars, Sticky, StickyFlags, FreshTurn, StickyEndsWithItsTopic, EntitiesIn, Settled, Settles
<1> QED
  BY <1>1, <1>2, <1>3, <1>4, RepeatSticky, DecideSticky, EndSticky, ResetSticky DEF Next

\* A hostel or the cadet corps is decided on without being named, and CLARA speaks
\* of herself without being asked to, only right after a turn about it.
THEOREM StickyTheorem == Spec => []StickyEndsWithItsTopic
<1>1. Spec => []Sticky
  BY Invariant, VisitInvariant, InitiallySticky, StepSticky, PTL DEF Spec
<1>2. Sticky => StickyEndsWithItsTopic
  BY DEF Sticky
<1> QED
  BY <1>1, <1>2, PTL
==============================================================================
