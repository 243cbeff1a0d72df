------------------------- MODULE MCConversationTurn -------------------------
(***************************************************************************)
(* A small instance of ConversationTurn: one department, two rooms of the  *)
(* map, and utterances of which each takes another way through the         *)
(* decision or leans on the turn before in another way.                    *)
(***************************************************************************)
EXTENDS ConversationTurn

MCUtterances ==
    {<<"cse", "hod">>, <<"tell me about", "cse">>, <<"overview">>, <<"fees">>, <<"cse">>, <<"cse", "fees", "hod">>,
     <<"hostel">>, <<"boys">>, <<"food">>, <<"show", "ncc">>, <<"admissions">>, <<"documents">>, <<"he">>,
     <<"who created you">>, <<"cricket">>, <<"where", "library">>, <<"show", "events">>, <<"hod">>,
     <<"who should i meet", "principal">>, <<"tell me more">>}

Proposal(hint, items) ==
    [domain |-> "institution", hint |-> hint, items |-> items, target |-> "none", confidence |-> "HIGH"]
MCProposals == {NoProposal, Proposal("ANSWER", <<>>), Proposal("CARD", <<Item("cse", "overview")>>)}

MCRooms ==
    <<[code |-> "lib", floor |-> "gf", name |-> <<"library">>, sig |-> <<"library">>, type |-> "library",
       category |-> "library", dept |-> <<>>, aliases |-> {}],
      [code |-> "f12", floor |-> "ff", name |-> <<"cse", "hod", "room">>, sig |-> <<"cse">>, type |-> "hod",
       category |-> "hod", dept |-> <<"cse">>, aliases |-> {<<"cse", "hod">>}]>>
MCHodRoom == [d \in Departments |-> IF d = "cse" THEN "f12" ELSE "none"]
MCLabRooms == [d \in Departments |-> <<>>]
=============================================================================
