---------------------------- MODULE CampusPlaces ----------------------------
(***************************************************************************)
(* Which room of the campus map a question about a place means             *)
(* (campus_room_match.py scores every room, campus_navigation_intent.py    *)
(* decides).  Rooms are records of the map file: a code, a floor, the      *)
(* words of the name, the words of it that identify the room ("sig", in    *)
(* the alphabet's order), a type, a category, a department and aliases.    *)
(* Names and aliases are sequences of words; text that occurs in text is a *)
(* sequence that occurs in a sequence.                                     *)
(***************************************************************************)
EXTENDS CardVocabulary

CONSTANTS Rooms,       \* the rooms of the map, in the order of the file
          HodRoom,     \* [Departments -> the code of the room of its head]
          LabRooms     \* [Departments -> the codes of its laboratories]

NavigationCues == {"where"}
AddressCues == {"location"}            \* "college address", "where is the college"
Floors == {"gf", "ff", "sf"}
RoomWords == {"room", "office", "cabin", "chamber"}
GenericNameParts == RoomWords \cup {"hall", "lab", "block", "department", "staff", "faculty", "washroom"}
GenericPlaces == {"washroom", "faculty", "staff", "hod", "lab", "classroom", "office", "hall", "chamber",
                  "cabin", "room"}
GenericPriority == <<"washroom", "faculty", "staff", "hod", "lab", "classroom", "office", "hall", "chamber",
                     "cabin", "room">>
\* Words of less than five letters (the others have six or more): a name is not
\* found by one of them alone.
ShortNameWords == {"cse", "ise", "hod", "lab", "room", "hall"}
MinScore == 32
MinResolved == 40
AmbiguousGap == 18

-----------------------------------------------------------------------------
\* The words of a question that say where to go, cues and framing removed.
Destination(u) == SelectSeq(u, LAMBDA w : w \notin NavigationCues \cup RegionalShow)
Occurs(part, text) == \E i \in 0 .. Len(text) - Len(part) : SubSeq(text, i + 1, i + Len(part)) = part
IsGeneric(words) == words # <<>> /\ ToSet(words) \subseteq GenericNameParts
Points(if, points) == IF if THEN points ELSE 0

\* The phrases every room can be found by.
Phrases(r) ==
    LET hod == "hod" \in ToSet(r.name) \cup {r.type}
        lab == "lab" \in ToSet(r.name) \cup {r.type}
    IN  ({r.name, <<r.type>>, r.dept, r.dept \o <<r.type>>}
         \cup (IF r.category # r.type THEN {<<r.category>>} ELSE {})
         \cup {IF r.type \in GenericNameParts THEN r.sig ELSE Append(r.sig, r.type)}
         \cup (IF hod THEN {<<"hod", "room">>, Append(r.sig, "hod"), r.sig \o <<"hod", "room">>} ELSE {})
         \cup (IF lab THEN {<<"lab">>, Append(r.sig, "lab")} ELSE {})) \ {<<>>}

NamePoints(text, r) ==
    LET said == ToSet(text)
        known == ToSet(r.sig) \cap said
    IN  IF r.name = text THEN IF IsGeneric(r.name) THEN 80 ELSE 600
        ELSE IF Occurs(r.name, text) THEN IF IsGeneric(r.name) THEN 40 ELSE 150
        ELSE (IF r.sig # <<>> /\ known = ToSet(r.sig) THEN 96
              ELSE IF Cardinality(known) >= 3 THEN 84 ELSE 28 * Cardinality(known))
             + 72 * Len(SelectSeq(r.name, LAMBDA w : w \in said \ (GenericNameParts \cup ShortNameWords)))

AliasPoints(text, alias) ==
    LET said == ToSet(text)
        pick(generic, own) == IF IsGeneric(alias) THEN generic ELSE own
    IN  CASE alias = text -> pick(60, 240)
          [] alias # text /\ Occurs(alias, text) -> pick(30, 115)
          [] OTHER -> IF ToSet(alias) \subseteq said THEN pick(40, 105)
                      ELSE Cardinality(ToSet(alias) \cap said) * pick(6, 14)

PhrasePoints(text, phrase) ==
    LET pick(generic, own) == IF IsGeneric(phrase) THEN generic ELSE own
    IN  CASE phrase = text -> pick(40, 200)
          [] phrase # text /\ Occurs(phrase, text) /\ (Len(phrase) > 1 \/ phrase[1] \notin ShortNameWords)
               -> pick(20, 90)
          [] OTHER -> Points(/\ ToSet(phrase) \subseteq ToSet(text)
                             /\ Cardinality(ToSet(phrase)) >= 2 /\ ~IsGeneric(phrase), 88)

\* _score_indexed_room.
Score(text, r) ==
    LET said == ToSet(text)
        floors == said \cap Floors
        typed == r.type \in said
        coded == r.code \in said
        total == Points(floors # {}, IF r.floor \in floors THEN 180 ELSE -180)
                 + Points(coded, 120) + NamePoints(text, r)
                 + MapThenSumSet(LAMBDA a : AliasPoints(text, a), r.aliases)
                 + MapThenSumSet(LAMBDA p : PhrasePoints(text, p), Phrases(r))
                 + Points(typed, 22) + Points(typed /\ r.type \notin ShortNameWords, 18)
                 + Points(r.dept # <<>> /\ ~(ToSet(r.dept) \subseteq ShortNameWords) /\ Occurs(r.dept, text), 18)
                 + Points("lab" \in said /\ (r.type = "lab" \/ "lab" \in ToSet(r.name)), 40)
                 - Points("lab" \in said /\ ({r.type} \cup ToSet(r.name)) \cap {"faculty", "staff"} # {}, 50)
        distinctive == \/ ToSet(r.sig) \cap said # {} \/ coded \/ Occurs(r.name, text)
                       \/ \E a \in r.aliases : Occurs(a, text) /\ a \notin {<<w>> : w \in ShortNameWords}
    IN  IF ~distinctive /\ total < 90 /\ said \cap GenericNameParts # {} THEN 0 ELSE total

\* match_campus_transcript_ranked: the rooms worth naming, best first, in the
\* order of the map when they score alike.
Ranked(text) ==
    LET scored == [i \in DOMAIN Rooms |-> [room |-> Rooms[i], score |-> Score(text, Rooms[i]), at |-> i]]
        better(a, b) == a.score > b.score \/ (a.score = b.score /\ a.at < b.at)
    IN  IF text = <<>> THEN <<>> ELSE SortSeq(SelectSeq(scored, LAMBDA s : s.score >= MinScore), better)

-----------------------------------------------------------------------------
\* Each code's first room of the map, if it has one.
RoomsCoded(codes) ==
    FlattenSeq([k \in DOMAIN codes |->
        LET mine == SelectSeq(Rooms, LAMBDA r : r.code = codes[k])
        IN  IF mine = <<>> THEN <<>> ELSE <<mine[1]>>])
Resolution(status, rooms) == [status |-> status, rooms |-> rooms]
NotNavigation == Resolution("not_navigation", <<>>)
UnknownPlace == Resolution("unknown", <<>>)
OneOf(rooms) == Resolution(CASE rooms = <<>> -> "unknown" [] Len(rooms) = 1 -> "resolved" [] OTHER -> "ambiguous", rooms)

\* text_has_campus_navigation_cue: the regional "show" asks for cards, and for a
\* place only when the map knows one by that name.
AsksForPlace(u, ranked) ==
    /\ Has(u, AddressCues) => ranked # <<>>
    /\ \/ Has(u, NavigationCues)
       \/ /\ Has(u, RegionalShow) /\ ranked # <<>> /\ ranked[1].score >= 200
          /\ ranked[1].room.category = "hod" => Has(u, RoomWords)

\* Only words for a kind of place: every room of the kind, or none.
GenericPlace(text) ==
    LET kind == GenericPriority[CHOOSE i \in DOMAIN GenericPriority :
                    /\ GenericPriority[i] \in ToSet(text)
                    /\ \A j \in 1 .. i - 1 : GenericPriority[j] \notin ToSet(text)]
        rooms == SelectSeq(Rooms, LAMBDA r : kind \in ToSet(r.name) \/ kind = r.type)
        named == SelectSeq(rooms, LAMBDA r : r.name = text)
        first == named \o SelectSeq(rooms, LAMBDA r : r.name # text)
    IN  OneOf(SubSeq(first, 1, IF Len(first) < 8 THEN Len(first) ELSE 8))

CloseScores(ranked) ==
    /\ Len(ranked) >= 2 /\ ranked[2].score >= MinResolved
    /\ ranked[1].score - ranked[2].score < AmbiguousGap
    /\ <<ranked[1].room.code, ranked[1].room.floor>> # <<ranked[2].room.code, ranked[2].room.floor>>

\* The rooms known without a score: of the one head asked for, and of the
\* laboratories of the one department named.
NamedDepartments(u) == [k \in DOMAIN FirstSpans(u, Departments) |-> FirstSpans(u, Departments)[k].of]
HeadRooms(u, about) ==
    IF Has(u, {"hod"}) /\ Len(about) = 1 /\ about[1] \in Departments THEN RoomsCoded(<<HodRoom[about[1]]>>) ELSE <<>>
LabsOf(text, named) ==
    IF "lab" \in ToSet(text) /\ Len(named) = 1 THEN RoomsCoded(LabRooms[named[1]]) ELSE <<>>
TopScore(ranked) == IF ranked = <<>> THEN 0 ELSE ranked[1].score
Close(ranked) ==
    LET close == SelectSeq(SubSeq(ranked, 1, IF Len(ranked) < 4 THEN Len(ranked) ELSE 4), LAMBDA s : s.score >= MinResolved)
    IN  [k \in DOMAIN close |-> close[k].room]

\* resolve_campus_navigation; "context" are the departments spoken of before.
ResolveAmong(u, text, ranked, head, labs) ==
    IF ~AsksForPlace(u, ranked) \/ (Has(u, AddressCues) /\ TopScore(ranked) < 100) THEN NotNavigation
    ELSE IF head # <<>> THEN OneOf(head)
    ELSE IF labs # <<>> /\ TopScore(ranked) < 300 THEN OneOf(labs)
    ELSE IF text # <<>> /\ ToSet(text) \subseteq GenericPlaces THEN GenericPlace(text)
    ELSE IF TopScore(ranked) < MinResolved THEN UnknownPlace
    ELSE IF CloseScores(ranked) THEN OneOf(Close(ranked))
    ELSE OneOf(<<ranked[1].room>>)
ResolveCampusNavigation(u, context) ==
    ResolveAmong(u, Destination(u), Ranked(Destination(u)),
                 HeadRooms(u, IF NamedDepartments(u) # <<>> THEN NamedDepartments(u) ELSE context),
                 LabsOf(Destination(u), NamedDepartments(u)))
=============================================================================
