--------------------------- MODULE IntentFeatures ---------------------------
(***************************************************************************)
(* The second reading of an utterance (answer_generation.py): no request   *)
(* is bound; a handful of features is looked for, and the first that holds *)
(* names the family of cards.  The first reading never asks this one, but  *)
(* main.py does, to choose a card of the older kind.                       *)
(*                                                                         *)
(* The tables overlap.  "Who" in a regional language asks for a head of    *)
(* department and is in the table of questions about fees as well, and a   *)
(* head of placements is a head.                                           *)
(***************************************************************************)
EXTENDS CampusPlaces

HodWords == {"hod"} \cup PlacementHead \cup RegionalHod
FeesWords == {"fees"}
FeeQueryWords == FeesWords \cup {"how much"} \cup RegionalHod
CourseWords == {"courses"}
CourseMenuWords == {"which courses"}
DocumentsWords == {"documents", "admission documents"}
BusWords == {"bus"}
CollegeEntities == {"svit", "college"}
CollegeOverviewWords == {"college overview"}
OverviewCues == {"explain"}
PlacementWords == {"placements", "placement statistics", "what kind of jobs"}
RecommendationCues == {"which is best"}
AdmissionsWords == {"admissions", "eligibility", "admission documents"}

HodProfileWords == {"hod"} \cup RegionalHod
TrusteesWords == {"trustees"}
VicePrincipalWords == {"vice_principal"}
PrincipalWords == {"principal"}
BothWords == {"both"}
ProfileWords == {"details"}

-----------------------------------------------------------------------------
\* One predicate per feature (extract_features).
AsksForCourses(u) == Has(u, CourseWords \cup CourseMenuWords)
AsksForFees(u) == Has(u, FeesWords \cup FeeQueryWords)
AsksForCollege(u) == Has(u, CollegeOverviewWords) \/ (Has(u, CollegeEntities) /\ Has(u, OverviewCues))
AsksToCompare(u) == Has(u, ComparisonCues \cup RecommendationCues)
NamesDepartment(u) == Has(u, Departments)
AsksForAWay(u) == ResolveCampusNavigation(u, <<>>).status # "not_navigation"

\* resolve_intent_from_features.
Intent(u) ==
    FirstOf(<<Rule(AsksForAWay(u), "CAMPUS_NAVIGATION"),
              Rule(Has(u, HodWords), "HOD_PROFILE"),
              Rule(Has(u, DocumentsWords), "DOCUMENTS"),
              Rule(Has(u, BusWords), "BUS_ROUTES"),
              Rule(AsksToCompare(u), "DEPARTMENT_COMPARISON"),
              Rule(AsksForFees(u) /\ NamesDepartment(u), "DEPARTMENT_FEES"),
              Rule(AsksForCourses(u), "COURSE_MENU"),
              Rule(NamesDepartment(u), "DEPARTMENT_OVERVIEW"),
              Rule(AsksForFees(u), "ADMISSIONS"),
              Rule(Has(u, PlacementWords), "PLACEMENTS"),
              Rule(AsksForCollege(u), "COLLEGE_OVERVIEW"),
              Rule(TRUE, "NORMAL_QUERY")>>)

\* maybe_override_intent_with_executive_profile: who is asked for is sharper than
\* what; a question about fees, or about the way to somebody's room, stays one.
ProfileIntent(u, intent) ==
    LET hod == Has(u, HodProfileWords)
        trustees == Has(u, TrusteesWords)
    IN  FirstOf(<<Rule(intent = "CAMPUS_NAVIGATION" \/ Has(u, FeeQueryWords), intent),
                  Rule(Has(u, VicePrincipalWords), "VICE_PRINCIPAL_PROFILE"),
                  Rule(Has(u, PrincipalWords), "PRINCIPAL_PROFILE"),
                  Rule(hod /\ trustees, "HOD_TRUSTEES_PROFILE"),
                  Rule(hod, "HOD_PROFILE"),
                  Rule(trustees, "TRUSTEES_PROFILE"),
                  Rule(Has(u, BothWords) /\ Has(u, ProfileWords), "HOD_TRUSTEES_PROFILE"),
                  Rule(TRUE, intent)>>)
=============================================================================
