-------------------------- MODULE ConversationGates --------------------------
(***************************************************************************)
(* How a conversation with the kiosk begins and ends.                      *)
(*                                                                         *)
(* The backend (app/main.py) keeps three gates in the session: the first   *)
(* utterance after the language may be a name, an utterance after "is      *)
(* there anything else?" may close the conversation, and one after the     *)
(* feedback request is feedback.  The kiosk (useAutoListenLifecycle.ts,    *)
(* ChatScreen.tsx, App.tsx) cannot see the gates.  It derives a wait mode  *)
(* from the last payload when its loudspeaker falls silent, listens for as *)
(* long as that mode allows, and then asks for the closing prompt or goes  *)
(* to sleep.                                                               *)
(*                                                                         *)
(* A new message cancels the reply that is under way and takes its place   *)
(* (ReplyTurns shows that the old one does nothing more); a frame is       *)
(* applied in the step that sends it (KioskLink has the wire).  Timers are *)
(* represented by the order in which they can fire: a wait of 20, 45 or 60 *)
(* seconds ends before the 240 seconds of the inactivity timer.  What a    *)
(* visitor says is whatever the gate it meets can make of it.              *)
(***************************************************************************)

VARIABLES
    present,   \* somebody stands at the kiosk
    screen,    \* "sleep" or "chat"
    chosen,    \* a language was selected
    awaitingName, collected,             \* session["awaiting_guest_name"], ...
    issued,                              \* session["closing_prompt_issued"]
    awaitingClosing, awaitingFeedback,   \* session["awaiting_..."]
    followup,                            \* session["feedback_followup_issued"]
    prompted,  \* session["messages"]: "name_prompt" and no "ready_prompt"
    phase,     \* how far the reply task is
    kind,      \* what it answers
    reply,     \* what its final frame will say of the gates
    shown,     \* what the kiosk reads from the last payload
    playing,   \* isPlayingBackendAudio
    mic,       \* speech recognition is running
    wait,      \* useAutoListenLifecycle: modeRef while armed
    ending,    \* sessionEndArmedRef
    answered   \* history variable: the visitor has answered a feedback request

nameGate == <<awaitingName, collected, prompted>>
gates    == <<issued, awaitingClosing, awaitingFeedback, followup, answered>>
task     == <<phase, kind, reply>>
kiosk    == <<shown, playing, mic, wait, ending>>
vars == <<present, screen, chosen, nameGate, gates, task, kiosk>>

Waits   == {"none", "name", "normal", "closing"}
Phases  == {"none", "created", "routing", "opening", "opened"}
Kinds   == {"speech", "click", "inactivity"}
Replies == {"none", "name", "closing", "plain", "end"}
Payload == [processing : BOOLEAN, speaking : BOOLEAN, closing : BOOLEAN,
            name : BOOLEAN]

\* A payload without any of the fields, and the frame that opens a turn.
Blank == [processing |-> FALSE, speaking |-> FALSE, closing |-> FALSE,
          name |-> FALSE]
Busy  == [Blank EXCEPT !.processing = TRUE]

SessionTypes ==
    /\ present \in BOOLEAN /\ chosen \in BOOLEAN
    /\ screen \in {"sleep", "chat"}
    /\ awaitingName \in BOOLEAN /\ collected \in BOOLEAN /\ prompted \in BOOLEAN
    /\ issued \in BOOLEAN /\ awaitingClosing \in BOOLEAN
    /\ awaitingFeedback \in BOOLEAN /\ followup \in BOOLEAN
    /\ answered \in BOOLEAN

TaskTypes == phase \in Phases /\ kind \in Kinds /\ reply \in Replies

KioskTypes ==
    /\ shown \in Payload
    /\ playing \in BOOLEAN /\ mic \in BOOLEAN /\ ending \in BOOLEAN
    /\ wait \in Waits

TypeOK == SessionTypes /\ TaskTypes /\ KioskTypes

Init ==
    /\ present = FALSE /\ screen = "sleep" /\ chosen = FALSE
    /\ awaitingName = FALSE /\ collected = FALSE /\ prompted = FALSE
    /\ issued = FALSE /\ awaitingClosing = FALSE /\ awaitingFeedback = FALSE
    /\ followup = FALSE /\ answered = FALSE
    /\ phase = "none" /\ kind = "speech" /\ reply = "none"
    /\ shown = Blank /\ playing = FALSE /\ mic = FALSE /\ wait = "none"
    /\ ending = FALSE

-----------------------------------------------------------------------------
(* The kiosk.                                                               *)

\* The mode the auto-listen effect reads from the last payload.
Mode ==
    IF shown.processing \/ ~chosen THEN "none"
    ELSE IF shown.closing THEN "closing"
    ELSE IF shown.name THEN "name"
    ELSE "normal"

\* The loudspeaker falls silent: recognition is armed in the payload's mode.
Silenced == playing' = FALSE /\ wait' = Mode

\* A message to the backend preempts the reply that is under way.
Send(k) == phase' = "created" /\ kind' = k /\ reply' = "none"

Wake ==
    /\ present
    /\ screen = "sleep"
    /\ screen' = "chat"
    /\ UNCHANGED <<present, chosen, nameGate, gates, task, kiosk>>

\* conversation_started: the greeting, with or without sound.
Greet ==
    /\ screen = "chat"
    /\ ~chosen
    /\ shown = Blank
    /\ playing' \in BOOLEAN
    /\ shown' = [Blank EXCEPT !.speaking = playing']
    /\ UNCHANGED <<present, screen, chosen, nameGate, gates, task, mic, wait,
                   ending>>

\* language_selected: arms the name gate and speaks the name prompt.
SelectLanguage ==
    /\ present
    /\ screen = "chat"
    /\ ~chosen
    /\ chosen' = TRUE
    /\ awaitingName' = TRUE
    /\ prompted' = TRUE
    /\ playing' \in BOOLEAN
    /\ shown' = [Blank EXCEPT !.speaking = playing', !.name = TRUE]
    /\ UNCHANGED <<present, screen, collected, gates, task, mic, wait, ending>>

\* deliverVoiceUserMessage: recognition has heard something.
Speak ==
    /\ present
    /\ mic
    /\ Send("speech")
    /\ mic' = FALSE
    /\ playing' = FALSE
    /\ wait' = IF playing THEN Mode ELSE "none"
    /\ UNCHANGED <<present, screen, chosen, nameGate, gates, shown, ending>>

\* handleCourseMenuSelect: a department_click does not disarm the wait.
Click ==
    /\ present
    /\ chosen
    /\ Send("click")
    /\ playing' = FALSE
    /\ wait' = IF playing THEN Mode ELSE wait
    /\ UNCHANGED <<present, screen, chosen, nameGate, gates, shown, mic, ending>>

\* handleOrbTap: cancel_turn, whose frame has none of the fields.
Tap ==
    /\ present
    /\ chosen
    /\ phase' = "none" /\ reply' = "none"
    /\ shown' = Blank
    /\ playing' = FALSE
    /\ wait' = IF playing THEN Mode ELSE "none"
    /\ mic' = (playing \/ ~mic)
    /\ UNCHANGED <<present, screen, chosen, nameGate, gates, kind, ending>>

\* One-shot recognition ends; only an armed one is restarted.
RecognitionEnds ==
    /\ mic
    /\ wait = "none"
    /\ mic' = FALSE
    /\ UNCHANGED <<present, screen, chosen, nameGate, gates, task, shown,
                   playing, wait, ending>>

PlaybackEnds ==
    /\ playing
    /\ Silenced
    /\ mic' = (mic \/ wait' # "none")
    /\ UNCHANGED <<present, screen, chosen, nameGate, gates, task, shown, ending>>

\* resetClaraSession at the kiosk: the screens start afresh.
ResetKiosk ==
    /\ screen' = "sleep" /\ chosen' = FALSE
    /\ shown' = Blank /\ playing' = FALSE /\ mic' = FALSE /\ wait' = "none"
    /\ ending' = FALSE
    /\ UNCHANGED present

\* reset_session at the backend: the reply is cancelled, every gate disarmed.
ResetSession ==
    /\ awaitingName' = FALSE /\ collected' = FALSE /\ prompted' = FALSE
    /\ issued' = FALSE /\ awaitingClosing' = FALSE /\ awaitingFeedback' = FALSE
    /\ followup' = FALSE /\ answered' = FALSE
    /\ phase' = "none" /\ reply' = "none"
    /\ UNCHANGED kind

Reset == ResetKiosk /\ ResetSession

Home == present /\ screen = "chat" /\ Reset

\* Mutant: silence after an answer only ends the listening.
WaitOnlyEnds ==
    /\ wait # "none"
    /\ wait' = "none"
    /\ mic' = FALSE
    /\ UNCHANGED <<present, screen, chosen, nameGate, gates, task, shown,
                   playing, ending>>

\* requestClosingPrompt: silence in the normal or the closing mode.
RequestClosingPrompt ==
    /\ wait \in {"normal", "closing"}
    /\ Send("inactivity")
    /\ wait' = "none"
    /\ mic' = FALSE
    /\ UNCHANGED <<present, screen, chosen, nameGate, gates, shown, playing,
                   ending>>

\* The wait timer: after the name prompt it calls endSessionToSleep.
WaitTimeout == (wait = "name" /\ Reset) \/ RequestClosingPrompt

\* The payload of session_should_end is there, and the kiosk is quiet.
EndSession ==
    /\ ending
    /\ ~playing /\ ~shown.speaking /\ ~shown.processing
    /\ Reset

\* Mutant: the inactivity timer does not look at isSpeaking.
IdleInterrupts ==
    /\ screen = "chat"
    /\ ~shown.processing
    /\ phase = "none" /\ wait = "none"
    /\ Reset

\* The inactivity timer of App.tsx, which every message restarts.
IdleTimeout ==
    /\ screen = "chat"
    /\ ~shown.processing /\ ~shown.speaking
    /\ phase = "none" /\ wait = "none"
    /\ Reset

-----------------------------------------------------------------------------
(* The reply task.                                                          *)

\* The reply is decided; its opening frame is next.
Reply(r) ==
    /\ reply' = r
    /\ phase' = "opening"

\* Mutant: the closing gate stays armed under the feedback request.
FeedbackOverClosing ==
    /\ awaitingFeedback' = TRUE
    /\ followup' = FALSE
    /\ Reply("closing")
    /\ UNCHANGED <<awaitingClosing, answered>>

\* _begin_feedback_request.
BeginFeedbackRequest ==
    /\ awaitingFeedback' = TRUE
    /\ followup' = FALSE
    /\ awaitingClosing' = FALSE
    /\ Reply("closing")
    /\ UNCHANGED answered

\* _handle_session_closing_prompt: the first time the question, then feedback.
ClosingPrompt ==
    /\ phase = "created" /\ kind = "inactivity"
    /\ IF issued
       THEN BeginFeedbackRequest /\ UNCHANGED issued
       ELSE /\ issued' = TRUE
            /\ awaitingClosing' = TRUE
            /\ Reply("closing")
            /\ UNCHANGED <<awaitingFeedback, followup, answered>>
    /\ UNCHANGED <<present, screen, chosen, nameGate, kind, kiosk>>

\* _handle_feedback_gate: empty, vague for the first time, or feedback.
FeedbackGate ==
    /\ phase = "created" /\ kind = "speech"
    /\ awaitingFeedback
    /\ \/ Reply("closing") /\ UNCHANGED <<awaitingFeedback, followup, answered>>
       \/ /\ ~followup
          /\ followup' = TRUE
          /\ Reply("closing")
          /\ UNCHANGED <<awaitingFeedback, answered>>
       \/ /\ awaitingFeedback' = FALSE
          /\ followup' = FALSE
          /\ answered' = TRUE
          /\ Reply("end")
    /\ UNCHANGED <<present, screen, chosen, nameGate, issued, awaitingClosing,
                   kind, kiosk>>

\* Mutant: a visitor who has no more questions is dismissed at once.
DismissesAtOnce ==
    /\ phase = "created" /\ kind = "speech"
    /\ ~awaitingFeedback /\ awaitingClosing
    /\ awaitingClosing' = FALSE
    /\ Reply("end")
    /\ UNCHANGED <<present, screen, chosen, nameGate, issued, awaitingFeedback,
                   followup, answered, kind, kiosk>>

\* _handle_closing_reply_gate, when it handles the turn: CLOSE, CONTINUE
\* without a request behind it, or AMBIGUOUS.
ClosingGate ==
    /\ phase = "created" /\ kind = "speech"
    /\ ~awaitingFeedback /\ awaitingClosing
    /\ \/ BeginFeedbackRequest
       \/ /\ awaitingClosing' = FALSE
          /\ Reply("plain")
          /\ UNCHANGED <<awaitingFeedback, followup, answered>>
       \/ /\ Reply("closing")
          /\ UNCHANGED <<awaitingClosing, awaitingFeedback, followup, answered>>
    /\ UNCHANGED <<present, screen, chosen, nameGate, issued, kind, kiosk>>

\* No gate has handled the turn: a request behind "yes" leaves the closing gate
\* open, a click passes the first two gates and leaves them armed.
Proceed ==
    /\ phase = "created"
    /\ \/ /\ kind = "speech" /\ ~awaitingFeedback
          /\ awaitingClosing' = FALSE
       \/ kind = "click" /\ UNCHANGED awaitingClosing
    /\ \/ /\ awaitingName                  \* plausible as a name
          /\ Reply("name")
          /\ UNCHANGED nameGate
       \/ /\ awaitingName' = FALSE         \* anything else disarms the name gate
          /\ collected' = (collected \/ awaitingName)
          /\ phase' = "routing"
          /\ UNCHANGED <<reply, prompted>>
    /\ UNCHANGED <<present, screen, chosen, issued, awaitingFeedback, followup,
                   answered, kind, kiosk>>

\* orch.run: thanks ask for the confirmation, a short-circuit reply repeats what
\* the session awaits, and an answer does not.
Routed ==
    /\ phase = "routing"
    /\ \/ /\ kind = "speech"
          /\ awaitingClosing' = TRUE /\ issued' = TRUE
          /\ Reply("closing")
       \/ /\ Reply(IF awaitingClosing \/ awaitingFeedback THEN "closing"
                   ELSE "plain")
          /\ UNCHANGED <<awaitingClosing, issued>>
       \/ Reply("plain") /\ UNCHANGED <<awaitingClosing, issued>>
    /\ UNCHANGED <<present, screen, chosen, nameGate, awaitingFeedback, followup,
                   answered, kind, kiosk>>

\* Mutant: the opening frame of a turn does not disarm the wait.
OpenedStaysArmed ==
    /\ phase = "opening"
    /\ phase' = "opened"
    /\ shown' = Busy
    /\ UNCHANGED <<present, screen, chosen, nameGate, gates, kind, reply,
                   playing, mic, wait, ending>>

\* isProcessing reaches the kiosk, which disarms.
Opened ==
    /\ phase = "opening"
    /\ phase' = "opened"
    /\ shown' = Busy
    /\ wait' = "none"
    /\ mic' = (mic /\ wait = "none")
    /\ UNCHANGED <<present, screen, chosen, nameGate, gates, kind, reply,
                   playing, ending>>

\* _complete_guest_name_turn after its first send.
Named ==
    /\ phase = "opened" /\ reply = "name"
    /\ awaitingName' = FALSE /\ collected' = TRUE /\ prompted' = FALSE
    /\ reply' = "plain"
    /\ UNCHANGED <<present, screen, chosen, gates, phase, kind, kiosk>>

\* The final frame, spoken if the synthesis succeeded; an answer may fail.
Deliver ==
    /\ phase = "opened" /\ reply # "name"
    /\ phase' = "none" /\ reply' = "none"
    /\ \/ /\ playing' \in BOOLEAN
          /\ shown' = [processing |-> FALSE, speaking |-> playing',
                       closing |-> reply = "closing", name |-> prompted]
          /\ ending' = (ending \/ reply = "end")
       \/ /\ reply = "plain"
          /\ shown' = Blank
          /\ UNCHANGED <<playing, ending>>
    /\ UNCHANGED <<present, screen, chosen, nameGate, gates, kind, mic, wait>>

-----------------------------------------------------------------------------
Arrive == ~present /\ present' = TRUE
          /\ UNCHANGED <<screen, chosen, nameGate, gates, task, kiosk>>

Leave == present /\ present' = FALSE
         /\ UNCHANGED <<screen, chosen, nameGate, gates, task, kiosk>>

Visitor == Arrive \/ Leave \/ Wake \/ SelectLanguage \/ Speak \/ Click \/ Tap
               \/ Home

ReplyStep ==
    \/ ClosingPrompt \/ FeedbackGate \/ ClosingGate \/ Proceed \/ Routed
    \/ Opened \/ Named \/ Deliver

Next ==
    \/ Visitor \/ ReplyStep
    \/ Greet \/ RecognitionEnds \/ PlaybackEnds \/ WaitTimeout \/ EndSession
    \/ IdleTimeout

Spec == Init /\ [][Next]_vars

\* Timers fire, playback ends, and every await of a reply is bounded; a visitor
\* need not do anything.
Fairness ==
    /\ WF_vars(ReplyStep)
    /\ WF_vars(RecognitionEnds) /\ WF_vars(PlaybackEnds)
    /\ WF_vars(WaitTimeout) /\ WF_vars(EndSession) /\ WF_vars(IdleTimeout)

FairSpec == Spec /\ Fairness

-----------------------------------------------------------------------------
\* The gates exclude each other as the dispatch in process_user_text_and_reply
\* assumes: feedback is only awaited when the closing question has been put and
\* is settled, a name is not awaited twice nor at the end of a conversation, and
\* nothing of this is left when the kiosk sleeps.
GatesConsistent ==
    /\ awaitingFeedback => (issued /\ ~awaitingClosing)
    /\ awaitingClosing => issued
    /\ followup => awaitingFeedback
    /\ ~(awaitingName /\ collected)
    /\ (issued \/ awaitingName \/ collected) => chosen

\* A kiosk that waits for a closing answer, with no reply under way, is backed
\* by an armed gate: what the visitor says then is not taken for a question.
ClosingWaitIsBacked ==
    (wait = "closing" /\ phase = "none") => (awaitingClosing \/ awaitingFeedback)

\* "Required feedback step before session completion" (_handle_feedback_gate):
\* the end of a session is announced only after its visitor gave feedback.
FeedbackBeforeEnd == ending => answered

\* "The inactivity timer must never hard-reset the session while CLARA is ...
\* playing TTS audio" (docs/CLARA_PROJECT_MEMORY.md), although it reads the
\* payload and not the loudspeaker.
IdleSparesSpeech == [][IdleTimeout => ~playing]_vars

\* A visitor who walks away after choosing a language is asked for feedback in
\* the end, or the kiosk sleeps: no reply, timer or lost sound leaves the
\* conversation hanging.
AbandonedIsAsked ==
    (chosen /\ ~present) ~> (present \/ screen = "sleep" \/ awaitingFeedback)

-----------------------------------------------------------------------------
(* What the repository says, and the code does not do.                      *)

\* screens/ChatScreen.tsx: "Farewell / closing timeout path: backend asks client
\* to return to sleep after TTS".
EndedSessionSleeps ==
    (ending /\ ~present) ~> (present \/ screen = "sleep")
=============================================================================
