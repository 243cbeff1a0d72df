----------------------- MODULE ConversationGates_proofs -----------------------
(***************************************************************************)
(* The gates of a conversation are consistent for ever, and so is what the *)
(* kiosk infers from its payloads.  The kiosk cannot see the gates, hence  *)
(* the inductive invariant follows the information on its way: what a      *)
(* reply that is being prepared will say of the gates (ReplyTruthful),     *)
(* what the payload on the screen says of them (ShownTruthful), and which  *)
(* phases exclude sound and an armed wait (Quiet).                         *)
(***************************************************************************)
EXTENDS ConversationGates, TLAPS

Armed == awaitingClosing \/ awaitingFeedback

\* Nothing happens before a language is chosen but the greeting.
Started ==
    /\ phase # "none" => chosen
    /\ wait # "none" => chosen
    /\ mic => chosen
    /\ chosen => screen = "chat"

\* A spoken turn that meets the router has passed the feedback gate.
RoutedUngated ==
    (phase = "routing" /\ kind = "speech") => ~awaitingFeedback

\* A reply that will announce an armed gate finds it armed.
ReplyTruthful ==
    /\ (phase \in {"opening", "opened"} /\ reply = "closing") => Armed
    /\ reply = "end" => answered
    /\ reply # "none" => phase \in {"opening", "opened"}

\* So does the payload that announces one, until the next turn.
ShownTruthful ==
    (shown.closing /\ phase = "none") => Armed

\* Sound is announced by its payload, and excludes a turn and an armed wait.
Quiet ==
    /\ playing => (shown.speaking /\ phase = "none" /\ wait = "none")
    /\ phase = "opened" => wait = "none"

IInv ==
    /\ TypeOK
    /\ GatesConsistent
    /\ ClosingWaitIsBacked
    /\ FeedbackBeforeEnd
    /\ Started
    /\ RoutedUngated
    /\ ReplyTruthful
    /\ ShownTruthful
    /\ Quiet

\* The payloads of the kiosk and their fields.
LEMMA Payloads ==
    /\ Blank \in Payload /\ Busy \in Payload
    /\ ~Blank.processing /\ ~Blank.speaking /\ ~Blank.closing /\ ~Blank.name
    /\ Busy.processing /\ ~Busy.speaking /\ ~Busy.closing /\ ~Busy.name
BY DEF Blank, Busy, Payload

LEMMA FinalFrame ==
    ASSUME NEW s \in BOOLEAN, NEW c \in BOOLEAN, NEW n \in BOOLEAN,
           NEW f, f = [processing |-> FALSE, speaking |-> s, closing |-> c,
                       name |-> n]
    PROVE  f \in Payload /\ f.speaking = s /\ f.closing = c
BY DEF Payload

LEMMA GreetingFrame ==
    ASSUME NEW s \in BOOLEAN, NEW f, f = [Blank EXCEPT !.speaking = s]
    PROVE  f \in Payload /\ f.speaking = s /\ ~f.closing
BY DEF Blank, Payload

LEMMA AskingFrame ==
    ASSUME NEW s \in BOOLEAN, NEW f,
           f = [Blank EXCEPT !.speaking = s, !.name = TRUE]
    PROVE  f \in Payload /\ f.speaking = s /\ ~f.closing
BY DEF Blank, Payload

\* What a delivered reply leaves on the kiosk.
LEMMA Delivered ==
    ASSUME TypeOK, Deliver
    PROVE  /\ shown' \in Payload /\ playing' \in BOOLEAN /\ ending' \in BOOLEAN
           /\ mic' = mic /\ wait' = wait
           /\ shown'.speaking = playing' \/ shown' = Blank
<1>1. CASE /\ playing' \in BOOLEAN
           /\ shown' = [processing |-> FALSE, speaking |-> playing',
                        closing |-> reply = "closing", name |-> prompted]
           /\ ending' = (ending \/ reply = "end")
  <2>1. shown' \in Payload /\ shown'.speaking = playing'
    BY <1>1, FinalFrame DEF TypeOK, SessionTypes
  <2>2. ending' \in BOOLEAN
    BY <1>1 DEF TypeOK, KioskTypes
  <2> QED
    BY <1>1, <2>1, <2>2 DEF Deliver
<1>2. CASE shown' = Blank /\ UNCHANGED <<playing, ending>>
  BY <1>2, Payloads DEF Deliver, TypeOK, KioskTypes
<1> QED
  BY <1>1, <1>2 DEF Deliver

LEMMA ModeType == Mode \in Waits
BY DEF Mode, Waits

\* A mode other than "none" needs a language, and "closing" a payload for it.
LEMMA ModeFacts ==
    /\ Mode # "none" => (chosen /\ ~shown.processing)
    /\ Mode = "closing" => shown.closing
BY DEF Mode

LEMMA InitInv == Init => IInv
BY Payloads DEF Init, IInv, TypeOK, SessionTypes, TaskTypes, KioskTypes,
   GatesConsistent, ClosingWaitIsBacked, FeedbackBeforeEnd, Started, RoutedUngated,
   ReplyTruthful, ShownTruthful, Quiet, Armed, Phases, Kinds, Replies, Waits

\* Every step is a reset, which starts everything afresh, or one of the others.
Ongoing ==
    \/ Arrive \/ Leave \/ Wake \/ SelectLanguage \/ Speak \/ Click \/ Tap
    \/ ClosingPrompt \/ FeedbackGate \/ ClosingGate \/ Proceed \/ Routed
    \/ Opened \/ Named \/ Deliver \/ Greet \/ RecognitionEnds \/ PlaybackEnds
    \/ RequestClosingPrompt

LEMMA Steps == [Next]_vars => (Reset \/ Ongoing \/ UNCHANGED vars)
BY DEF Next, Visitor, ReplyStep, Home, WaitTimeout, EndSession, IdleTimeout, Ongoing

LEMMA ResetInv == (TypeOK /\ Reset) => IInv'
BY Payloads DEF Reset, ResetKiosk, ResetSession, IInv, TypeOK, SessionTypes, TaskTypes,
   KioskTypes, GatesConsistent, ClosingWaitIsBacked, FeedbackBeforeEnd, Started,
   RoutedUngated, ReplyTruthful, ShownTruthful, Quiet, Armed, Phases, Kinds, Replies,
   Waits

\* The session keeps its types.
LEMMA SessionTypesStep == SessionTypes /\ Ongoing => SessionTypes'
<1> USE DEF SessionTypes, nameGate, gates, task, kiosk
<1> SUFFICES ASSUME SessionTypes, Ongoing PROVE SessionTypes'
  OBVIOUS
<1>1. CASE Speak \/ Click \/ Tap \/ Greet \/ RecognitionEnds \/ PlaybackEnds \/
   RequestClosingPrompt \/ Opened \/ Deliver
  BY <1>1 DEF Speak, Send, Click, Tap, Greet, RecognitionEnds, PlaybackEnds,
     Silenced, RequestClosingPrompt, Opened, Deliver
<1>2. CASE Arrive
  BY <1>2 DEF Arrive
<1>3. CASE Leave
  BY <1>3 DEF Leave
<1>4. CASE Wake
  BY <1>4 DEF Wake
<1>5. CASE SelectLanguage
  BY <1>5 DEF SelectLanguage
<1>6. CASE ClosingPrompt
  BY <1>6 DEF ClosingPrompt, BeginFeedbackRequest, Reply
<1>7. CASE FeedbackGate
  BY <1>7 DEF FeedbackGate, Reply
<1>8. CASE ClosingGate
  BY <1>8 DEF ClosingGate, BeginFeedbackRequest, Reply
<1>9. CASE Proceed
  BY <1>9 DEF Proceed, Reply
<1>10. CASE Routed
  BY <1>10 DEF Routed, Reply
<1>11. CASE Named
  BY <1>11 DEF Named
<1> QED
  BY <1>1, <1>2, <1>3, <1>4, <1>5, <1>6, <1>7, <1>8, <1>9, <1>10, <1>11 DEF Ongoing

\* The reply task keeps its types.
LEMMA TaskTypesStep == TaskTypes /\ Ongoing => TaskTypes'
<1> USE DEF TaskTypes, Phases, Kinds, Replies, nameGate, gates, task, kiosk
<1> SUFFICES ASSUME TaskTypes, Ongoing PROVE TaskTypes'
  OBVIOUS
<1>1. CASE Arrive \/ Leave \/ Wake \/ SelectLanguage \/ Greet \/ RecognitionEnds \/
   PlaybackEnds
  BY <1>1 DEF Arrive, Leave, Wake, SelectLanguage, Greet, RecognitionEnds,
     PlaybackEnds, Silenced
<1>2. CASE Speak
  BY <1>2 DEF Speak, Send
<1>3. CASE Click
  BY <1>3 DEF Click, Send
<1>4. CASE Tap
  BY <1>4 DEF Tap
<1>5. CASE ClosingPrompt
  BY <1>5 DEF ClosingPrompt, BeginFeedbackRequest, Reply
<1>6. CASE FeedbackGate
  BY <1>6 DEF FeedbackGate, Reply
<1>7. CASE ClosingGate
  BY <1>7 DEF ClosingGate, BeginFeedbackRequest, Reply
<1>8. CASE Proceed
  BY <1>8 DEF Proceed, Reply
<1>9. CASE Routed
  BY <1>9 DEF Routed, Reply
<1>10. CASE Opened
  BY <1>10 DEF Opened
<1>11. CASE Named
  BY <1>11 DEF Named
<1>12. CASE Deliver
  BY <1>12 DEF Deliver
<1>13. CASE RequestClosingPrompt
  BY <1>13 DEF RequestClosingPrompt, Send
<1> QED
  BY <1>1, <1>2, <1>3, <1>4, <1>5, <1>6, <1>7, <1>8, <1>9, <1>10, <1>11, <1>12,
     <1>13 DEF Ongoing

\* The kiosk keeps its types.
LEMMA KioskTypesStep == TypeOK /\ Ongoing => KioskTypes'
<1> USE Payloads, ModeType DEF TypeOK, KioskTypes, Waits, nameGate, gates, task,
   kiosk
<1> SUFFICES ASSUME TypeOK, Ongoing PROVE KioskTypes'
  OBVIOUS
<1>1. CASE Arrive \/ Leave \/ Wake \/ ClosingPrompt \/ FeedbackGate \/ ClosingGate
   \/ Proceed \/ Routed \/ Named
  BY <1>1 DEF Arrive, Leave, Wake, ClosingPrompt, BeginFeedbackRequest, Reply,
     FeedbackGate, ClosingGate, Proceed, Routed, Named
<1>2. CASE SelectLanguage
  BY <1>2, AskingFrame DEF SelectLanguage
<1>3. CASE Speak
  BY <1>3 DEF Speak, Send
<1>4. CASE Click
  BY <1>4 DEF Click, Send
<1>5. CASE Tap
  BY <1>5 DEF Tap
<1>6. CASE Opened
  BY <1>6 DEF Opened
<1>7. CASE Deliver
  BY <1>7, Delivered
<1>8. CASE Greet
  BY <1>8, GreetingFrame DEF Greet
<1>9. CASE RecognitionEnds
  BY <1>9 DEF RecognitionEnds
<1>10. CASE PlaybackEnds
  BY <1>10 DEF PlaybackEnds, Silenced
<1>11. CASE RequestClosingPrompt
  BY <1>11 DEF RequestClosingPrompt, Send
<1> QED
  BY <1>1, <1>2, <1>3, <1>4, <1>5, <1>6, <1>7, <1>8, <1>9, <1>10, <1>11 DEF Ongoing

\* The gates stay consistent: only the gate that is armed is changed, and the
\* feedback request disarms the closing gate as it arms its own.
LEMMA GatesConsistentStep == IInv /\ Ongoing => GatesConsistent'
<1> USE DEF IInv, TypeOK, SessionTypes, GatesConsistent, Started, nameGate, gates,
   task, kiosk
<1> SUFFICES ASSUME IInv, Ongoing PROVE GatesConsistent'
  OBVIOUS
<1>1. CASE Arrive \/ Leave \/ Wake \/ Speak \/ Click \/ Tap \/ Greet \/
   RecognitionEnds \/ PlaybackEnds \/ RequestClosingPrompt \/ Opened \/ Deliver
  BY <1>1 DEF Arrive, Leave, Wake, Speak, Send, Click, Tap, Greet, RecognitionEnds,
     PlaybackEnds, Silenced, RequestClosingPrompt, Opened, Deliver
<1>2. CASE SelectLanguage
  BY <1>2 DEF SelectLanguage
<1>3. CASE ClosingPrompt
  BY <1>3 DEF ClosingPrompt, BeginFeedbackRequest, Reply
<1>4. CASE FeedbackGate
  BY <1>4 DEF FeedbackGate, Reply
<1>5. CASE ClosingGate
  <2>1. issued /\ ~awaitingFeedback /\ ~followup
    BY <1>5 DEF ClosingGate
  <2>2. UNCHANGED <<chosen, issued, awaitingName, collected>>
    BY <1>5 DEF ClosingGate
  <2>3. \/ awaitingFeedback' = TRUE /\ awaitingClosing' = FALSE /\ followup' = FALSE
        \/ UNCHANGED <<awaitingFeedback, followup>>
    BY <1>5 DEF ClosingGate, BeginFeedbackRequest
  <2> QED
    BY <2>1, <2>2, <2>3
<1>6. CASE Proceed
  BY <1>6 DEF Proceed, Reply
<1>7. CASE Routed
  <2>1. UNCHANGED <<chosen, awaitingName, collected, awaitingFeedback, followup>>
    BY <1>7 DEF Routed
  <2>2. \/ kind = "speech" /\ awaitingClosing' = TRUE /\ issued' = TRUE
        \/ UNCHANGED <<awaitingClosing, issued>>
    BY <1>7 DEF Routed
  <2>3. chosen /\ (kind = "speech" => ~awaitingFeedback)
    BY <1>7 DEF Routed, RoutedUngated
  <2> QED
    BY <2>1, <2>2, <2>3
<1>8. CASE Named
  BY <1>8 DEF Named
<1> QED
  BY <1>1, <1>2, <1>3, <1>4, <1>5, <1>6, <1>7, <1>8 DEF Ongoing

\* A closing wait comes from a payload that announced an armed gate.
LEMMA ClosingWaitIsBackedStep == IInv /\ Ongoing => ClosingWaitIsBacked'
<1> USE ModeFacts DEF IInv, ClosingWaitIsBacked, ShownTruthful, ReplyTruthful,
   Quiet, Started, Armed, nameGate, gates, task, kiosk
<1> SUFFICES ASSUME IInv, Ongoing PROVE ClosingWaitIsBacked'
  OBVIOUS
<1>1. CASE Arrive \/ Leave \/ Wake \/ Greet
  BY <1>1 DEF Arrive, Leave, Wake, Greet
<1>2. CASE SelectLanguage
  BY <1>2 DEF SelectLanguage
<1>3. CASE Speak
  BY <1>3 DEF Speak, Send
<1>4. CASE Click
  BY <1>4 DEF Click, Send
<1>5. CASE Tap
  BY <1>5 DEF Tap
<1>6. CASE ClosingPrompt
  BY <1>6 DEF ClosingPrompt, BeginFeedbackRequest, Reply
<1>7. CASE FeedbackGate
  BY <1>7 DEF FeedbackGate, Reply
<1>8. CASE ClosingGate
  BY <1>8 DEF ClosingGate, BeginFeedbackRequest, Reply
<1>9. CASE Proceed
  BY <1>9 DEF Proceed, Reply
<1>10. CASE Routed
  BY <1>10 DEF Routed, Reply
<1>11. CASE Opened
  BY <1>11 DEF Opened
<1>12. CASE Named
  BY <1>12 DEF Named
<1>13. CASE Deliver
  BY <1>13 DEF Deliver
<1>14. CASE RecognitionEnds
  BY <1>14 DEF RecognitionEnds
<1>15. CASE PlaybackEnds
  BY <1>15 DEF PlaybackEnds, Silenced
<1>16. CASE RequestClosingPrompt
  BY <1>16 DEF RequestClosingPrompt, Send
<1> QED
  BY <1>1, <1>2, <1>3, <1>4, <1>5, <1>6, <1>7, <1>8, <1>9, <1>10, <1>11, <1>12,
     <1>13, <1>14, <1>15, <1>16 DEF Ongoing

\* Only the feedback gate prepares the reply that ends a session.
LEMMA FeedbackBeforeEndStep == IInv /\ Ongoing => FeedbackBeforeEnd'
<1> USE DEF IInv, FeedbackBeforeEnd, ReplyTruthful, nameGate, gates, task, kiosk
<1> SUFFICES ASSUME IInv, Ongoing PROVE FeedbackBeforeEnd'
  OBVIOUS
<1>1. CASE Arrive \/ Leave \/ Wake \/ SelectLanguage \/ Speak \/ Click \/ Tap \/
   Greet \/ RecognitionEnds \/ PlaybackEnds \/ RequestClosingPrompt \/ Opened \/
   Named \/ Proceed
  BY <1>1 DEF Arrive, Leave, Wake, SelectLanguage, Speak, Send, Click, Tap, Greet,
     RecognitionEnds, PlaybackEnds, Silenced, RequestClosingPrompt, Opened, Named,
     Proceed, Reply
<1>2. CASE ClosingPrompt
  BY <1>2 DEF ClosingPrompt, BeginFeedbackRequest, Reply
<1>3. CASE FeedbackGate
  <2>1. UNCHANGED ending /\ (UNCHANGED answered \/ answered' = TRUE)
    BY <1>3 DEF FeedbackGate
  <2> QED
    BY <2>1
<1>4. CASE ClosingGate
  <2>1. UNCHANGED <<ending, answered>>
    BY <1>4 DEF ClosingGate, BeginFeedbackRequest
  <2> QED
    BY <2>1
<1>5. CASE Routed
  BY <1>5 DEF Routed, Reply
<1>6. CASE Deliver
  BY <1>6 DEF Deliver
<1> QED
  BY <1>1, <1>2, <1>3, <1>4, <1>5, <1>6 DEF Ongoing

\* Without a language there is no turn, no recognition and no wait.
LEMMA StartedStep == IInv /\ Ongoing => Started'
<1> USE ModeFacts DEF IInv, Started, nameGate, gates, task, kiosk
<1> SUFFICES ASSUME IInv, Ongoing PROVE Started'
  OBVIOUS
<1>1. CASE Arrive \/ Leave \/ Greet
  BY <1>1 DEF Arrive, Leave, Greet
<1>2. CASE Wake
  BY <1>2 DEF Wake
<1>3. CASE SelectLanguage
  BY <1>3 DEF SelectLanguage
<1>4. CASE Speak
  BY <1>4 DEF Speak, Send
<1>5. CASE Click
  BY <1>5 DEF Click, Send
<1>6. CASE Tap
  BY <1>6 DEF Tap
<1>7. CASE ClosingPrompt
  BY <1>7 DEF ClosingPrompt, BeginFeedbackRequest, Reply
<1>8. CASE FeedbackGate
  BY <1>8 DEF FeedbackGate, Reply
<1>9. CASE ClosingGate
  BY <1>9 DEF ClosingGate, BeginFeedbackRequest, Reply
<1>10. CASE Proceed
  BY <1>10 DEF Proceed, Reply
<1>11. CASE Routed
  BY <1>11 DEF Routed, Reply
<1>12. CASE Opened
  BY <1>12 DEF Opened
<1>13. CASE Named
  BY <1>13 DEF Named
<1>14. CASE Deliver
  BY <1>14 DEF Deliver
<1>15. CASE RecognitionEnds
  BY <1>15 DEF RecognitionEnds
<1>16. CASE PlaybackEnds
  BY <1>16 DEF PlaybackEnds, Silenced
<1>17. CASE RequestClosingPrompt
  BY <1>17 DEF RequestClosingPrompt, Send
<1> QED
  BY <1>1, <1>2, <1>3, <1>4, <1>5, <1>6, <1>7, <1>8, <1>9, <1>10, <1>11, <1>12,
     <1>13, <1>14, <1>15, <1>16, <1>17 DEF Ongoing

\* Speech that meets the router finds no feedback gate armed.
LEMMA RoutedUngatedStep == IInv /\ Ongoing => RoutedUngated'
<1> USE DEF IInv, RoutedUngated, nameGate, gates, task, kiosk
<1> SUFFICES ASSUME IInv, Ongoing PROVE RoutedUngated'
  OBVIOUS
<1>1. CASE Arrive \/ Leave \/ Wake \/ Greet \/ SelectLanguage \/ RecognitionEnds \/
   PlaybackEnds
  BY <1>1 DEF Arrive, Leave, Wake, Greet, SelectLanguage, RecognitionEnds,
     PlaybackEnds, Silenced
<1>2. CASE Speak
  BY <1>2 DEF Speak, Send
<1>3. CASE Click
  BY <1>3 DEF Click, Send
<1>4. CASE Tap
  BY <1>4 DEF Tap
<1>5. CASE ClosingPrompt
  BY <1>5 DEF ClosingPrompt, BeginFeedbackRequest, Reply
<1>6. CASE FeedbackGate
  BY <1>6 DEF FeedbackGate, Reply
<1>7. CASE ClosingGate
  BY <1>7 DEF ClosingGate, BeginFeedbackRequest, Reply
<1>8. CASE Proceed
  BY <1>8 DEF Proceed, Reply
<1>9. CASE Routed
  BY <1>9 DEF Routed, Reply
<1>10. CASE Opened
  BY <1>10 DEF Opened
<1>11. CASE Named
  BY <1>11 DEF Named
<1>12. CASE Deliver
  BY <1>12 DEF Deliver
<1>13. CASE RequestClosingPrompt
  BY <1>13 DEF RequestClosingPrompt, Send
<1> QED
  BY <1>1, <1>2, <1>3, <1>4, <1>5, <1>6, <1>7, <1>8, <1>9, <1>10, <1>11, <1>12,
     <1>13 DEF Ongoing

\* A reply in preparation keeps telling the truth about the gates.
LEMMA ReplyTruthfulStep == IInv /\ Ongoing => ReplyTruthful'
<1> USE DEF IInv, ReplyTruthful, Armed, RoutedUngated, nameGate, gates, task, kiosk
<1> SUFFICES ASSUME IInv, Ongoing PROVE ReplyTruthful'
  OBVIOUS
<1>1. CASE Arrive \/ Leave \/ Wake \/ Greet \/ SelectLanguage \/ RecognitionEnds \/
   PlaybackEnds
  BY <1>1 DEF Arrive, Leave, Wake, Greet, SelectLanguage, RecognitionEnds,
     PlaybackEnds, Silenced
<1>2. CASE Speak
  BY <1>2 DEF Speak, Send
<1>3. CASE Click
  BY <1>3 DEF Click, Send
<1>4. CASE Tap
  BY <1>4 DEF Tap
<1>5. CASE ClosingPrompt
  BY <1>5 DEF ClosingPrompt, BeginFeedbackRequest, Reply
<1>6. CASE FeedbackGate
  BY <1>6 DEF FeedbackGate, Reply
<1>7. CASE ClosingGate
  BY <1>7 DEF ClosingGate, BeginFeedbackRequest, Reply
<1>8. CASE Proceed
  BY <1>8 DEF Proceed, Reply
<1>9. CASE Routed
  BY <1>9 DEF Routed, Reply
<1>10. CASE Opened
  BY <1>10 DEF Opened
<1>11. CASE Named
  BY <1>11 DEF Named
<1>12. CASE Deliver
  BY <1>12 DEF Deliver
<1>13. CASE RequestClosingPrompt
  BY <1>13 DEF RequestClosingPrompt, Send
<1> QED
  BY <1>1, <1>2, <1>3, <1>4, <1>5, <1>6, <1>7, <1>8, <1>9, <1>10, <1>11, <1>12,
     <1>13 DEF Ongoing

\* So does the payload on the screen.
LEMMA ShownTruthfulStep == IInv /\ Ongoing => ShownTruthful'
<1> USE Payloads DEF IInv, ShownTruthful, ReplyTruthful, Armed, nameGate, gates,
   task, kiosk
<1> SUFFICES ASSUME IInv, Ongoing PROVE ShownTruthful'
  OBVIOUS
<1>1. CASE Arrive \/ Leave \/ Wake \/ RecognitionEnds \/ PlaybackEnds
  BY <1>1 DEF Arrive, Leave, Wake, RecognitionEnds, PlaybackEnds, Silenced
<1>2. CASE SelectLanguage
  BY <1>2, AskingFrame DEF SelectLanguage
<1>3. CASE Speak
  BY <1>3 DEF Speak, Send
<1>4. CASE Click
  BY <1>4 DEF Click, Send
<1>5. CASE Tap
  BY <1>5 DEF Tap
<1>6. CASE ClosingPrompt
  BY <1>6 DEF ClosingPrompt, BeginFeedbackRequest, Reply
<1>7. CASE FeedbackGate
  BY <1>7 DEF FeedbackGate, Reply
<1>8. CASE ClosingGate
  BY <1>8 DEF ClosingGate, BeginFeedbackRequest, Reply
<1>9. CASE Proceed
  BY <1>9 DEF Proceed, Reply
<1>10. CASE Routed
  BY <1>10 DEF Routed, Reply
<1>11. CASE Opened
  BY <1>11 DEF Opened
<1>12. CASE Named
  BY <1>12 DEF Named
<1>13. CASE Deliver
  BY <1>13, FinalFrame DEF Deliver, TypeOK, SessionTypes
<1>14. CASE Greet
  BY <1>14, GreetingFrame DEF Greet
<1>15. CASE RequestClosingPrompt
  BY <1>15 DEF RequestClosingPrompt, Send
<1> QED
  BY <1>1, <1>2, <1>3, <1>4, <1>5, <1>6, <1>7, <1>8, <1>9, <1>10, <1>11, <1>12,
     <1>13, <1>14, <1>15 DEF Ongoing

\* Sound, a turn at work and an armed wait stay apart.
LEMMA QuietStep == IInv /\ Ongoing => Quiet'
<1> USE Payloads DEF IInv, Quiet, Started, nameGate, gates, task, kiosk
<1> SUFFICES ASSUME IInv, Ongoing PROVE Quiet'
  OBVIOUS
<1>1. CASE Arrive \/ Leave \/ Wake \/ ClosingPrompt \/ FeedbackGate \/ ClosingGate
   \/ Proceed \/ Routed \/ Named
  BY <1>1 DEF Arrive, Leave, Wake, ClosingPrompt, BeginFeedbackRequest, Reply,
     FeedbackGate, ClosingGate, Proceed, Routed, Named
<1>2. CASE SelectLanguage
  BY <1>2, AskingFrame DEF SelectLanguage
<1>3. CASE Speak
  BY <1>3 DEF Speak, Send
<1>4. CASE Click
  BY <1>4 DEF Click, Send
<1>5. CASE Tap
  BY <1>5 DEF Tap
<1>6. CASE Opened
  BY <1>6 DEF Opened
<1>7. CASE Deliver
  BY <1>7, FinalFrame DEF Deliver, TypeOK, SessionTypes
<1>8. CASE Greet
  BY <1>8, GreetingFrame DEF Greet
<1>9. CASE RecognitionEnds
  BY <1>9 DEF RecognitionEnds
<1>10. CASE PlaybackEnds
  BY <1>10 DEF PlaybackEnds, Silenced
<1>11. CASE RequestClosingPrompt
  BY <1>11 DEF RequestClosingPrompt, Send
<1> QED
  BY <1>1, <1>2, <1>3, <1>4, <1>5, <1>6, <1>7, <1>8, <1>9, <1>10, <1>11 DEF Ongoing

\* One step of the whole keeps the invariant.
LEMMA StepInv == IInv /\ [Next]_vars => IInv'
<1> SUFFICES ASSUME IInv, [Next]_vars PROVE IInv'
  OBVIOUS
<1>1. CASE Reset
  BY <1>1, ResetInv DEF IInv
<1>2. CASE Ongoing
  <2>1. TypeOK /\ SessionTypes /\ TaskTypes /\ KioskTypes
    BY DEF IInv, TypeOK
  <2>2. TypeOK'
    BY <1>2, <2>1, SessionTypesStep, TaskTypesStep, KioskTypesStep DEF TypeOK
  <2> QED
    BY <1>2, <2>2, GatesConsistentStep, ClosingWaitIsBackedStep, FeedbackBeforeEndStep,
       StartedStep, RoutedUngatedStep, ReplyTruthfulStep, ShownTruthfulStep, QuietStep
       DEF IInv
<1>3. CASE UNCHANGED vars
  BY <1>3 DEF vars, nameGate, gates, task, kiosk, IInv, TypeOK, SessionTypes, TaskTypes,
     KioskTypes, GatesConsistent, ClosingWaitIsBacked, FeedbackBeforeEnd, Started,
     RoutedUngated, ReplyTruthful, ShownTruthful, Quiet, Armed
<1> QED
  BY <1>1, <1>2, <1>3, Steps

-----------------------------------------------------------------------------
\* The invariant holds in every state of every behaviour.
THEOREM Invariant == Spec => []IInv
BY InitInv, StepInv, PTL DEF Spec

\* The variables of the session, the reply task and the kiosk keep their types.
THEOREM TypeCorrect == Spec => []TypeOK
<1>1. IInv => TypeOK
  BY DEF IInv
<1> QED
  BY <1>1, Invariant, PTL

\* The closing, feedback and name gates of process_user_text_and_reply exclude
\* each other for ever, whatever visitors say, click, tap or leave unsaid.
THEOREM GatesStayConsistent == Spec => []GatesConsistent
<1>1. IInv => GatesConsistent
  BY DEF IInv
<1> QED
  BY <1>1, Invariant, PTL

\* The wait mode the kiosk derives from payloads alone (useAutoListenLifecycle)
\* is "closing" only while the backend's closing or feedback gate is armed.
THEOREM ClosingWaitBacked == Spec => []ClosingWaitIsBacked
<1>1. IInv => ClosingWaitIsBacked
  BY DEF IInv
<1> QED
  BY <1>1, Invariant, PTL

\* No session is announced as ended whose visitor gave no feedback.
THEOREM FeedbackComesFirst == Spec => []FeedbackBeforeEnd
<1>1. IInv => FeedbackBeforeEnd
  BY DEF IInv
<1> QED
  BY <1>1, Invariant, PTL

\* The inactivity timer of App.tsx never cuts a reply short: sound is always
\* announced by the payload that is on the screen.
THEOREM IdleIsSilent == Spec => IdleSparesSpeech
<1>1. IInv /\ [Next]_vars => [IdleTimeout => ~playing]_vars
  BY DEF IInv, Quiet, IdleTimeout
<1> QED
  BY <1>1, Invariant, PTL DEF Spec, IdleSparesSpeech
================================================================================
