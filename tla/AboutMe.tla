------------------------------ MODULE AboutMe ------------------------------
(***************************************************************************)
(* Questions about CLARA herself (about_me_navigation.py): which section   *)
(* of the cards about her is opened.  Strong words of the campus end the   *)
(* search before it begins; a question that only carries on reopens the    *)
(* section opened last.                                                    *)
(***************************************************************************)
EXTENDS CardVocabulary

AboutMeSections == {"overview", "capabilities", "creators", "guide"}

CampusBlockers == {"principal", "vice_principal", "hostel", "ncc", "bus", "admissions", "admission documents",
                   "trustees", "hod", "canteen", "fees", "documents", "cse"} \cup HostelEntities
CreatorNames == {"aashuthosh"}
CapabilityWords == {"video call"}
GuideWords == {"your guide", "nagashree"}
CreatorWords == {"who created you"}
CapabilitiesWords == {"what can you do"}
SelfWords == {"who are you", "clara"}
\* Words that speak to her.
SelfAnchors == CreatorWords \cup CapabilitiesWords \cup SelfWords \cup {"your guide"}
AboutMeFollowUps == {"tell me more"}

\* resolve_about_me_navigation; "last" is the section opened last.
AboutMeSection(u, last) ==
    LET spoken == Has(u, SelfAnchors)
    IN  FirstOf(<<Rule(Has(u, CampusBlockers), "none"),
                  Rule(Has(u, CreatorNames) /\ (spoken \/ Has(u, {"tell me about"})), "creators"),
                  Rule(Has(u, GuideWords) /\ (spoken \/ Has(u, {"nagashree"})), "guide"),
                  Rule(Has(u, CreatorWords), "creators"),
                  Rule(Has(u, CapabilityWords) /\ spoken, "capabilities"),
                  Rule(Has(u, CapabilitiesWords), "capabilities"),
                  Rule(Has(u, SelfWords), "overview"),
                  Rule(Has(u, AboutMeFollowUps), last),
                  Rule(TRUE, "none")>>)
=============================================================================
