------------------------------ MODULE ReplyTurns ------------------------------
(***************************************************************************)
(* One websocket connection of the CLARA backend (backend/app/main.py).    *)
(*                                                                         *)
(* The receive loop (websocket_clara) owns the session dictionary and      *)
(* schedules one reply task per visitor utterance; each reply task may     *)
(* start a second, detached task that voices the "thinking" sentence.  All *)
(* of them run on one event loop: code between two awaits is atomic, and   *)
(* an action below is one such segment.  Nothing joins the tasks: a reply  *)
(* task is superseded by cancelling it and by advancing                    *)
(* session_generation, which it compares with the value it read when it    *)
(* began (_turn_stale).                                                    *)
(*                                                                         *)
(* A frame is sent in two steps.  _ws_send_json first awaits the send lock *)
(* (through asyncio.wait_for, so the task always yields) and only then     *)
(* stamps the payload with the CURRENT session_generation; afterwards the  *)
(* task is suspended again until the socket has drained.  The lock is not  *)
(* represented: after 250 ms a sender goes ahead without it.               *)
(*                                                                         *)
(* Texts, languages and audio are abstracted to the turn they come from.   *)
(* The name, closing and feedback gates are open choices here (their state *)
(* is in ConversationGates), and so is every verdict of a provider.        *)
(***************************************************************************)
EXTENDS Naturals, Sequences

CONSTANTS
    MaxTurns,      \* bound: utterances that are scheduled on the connection
    MaxGen,        \* bound: largest session_generation
    HistoryTurns,  \* pairs kept in turn_history (max_turns=3 in the code)
    LossyCancel    \* asyncio.wait_for may lose a cancellation that arrives when
                   \* what it awaits is already done (Python 3.11); from 3.12 on
                   \* it does not

ASSUME BoundsAssumption ==
    /\ MaxTurns \in Nat \ {0}
    /\ MaxGen \in Nat \ {0}
    /\ HistoryTurns \in Nat \ {0}

ASSUME LossyCancelAssumption == LossyCancel \in BOOLEAN

Turns  == 1 .. MaxTurns
NoTurn == 0

VARIABLES
    gen,        \* session["session_generation"]
    loop,       \* what the receive loop is doing
    active,     \* session["active_reply_task"], NoTurn when absent
    at,         \* how the reply task of a turn is suspended
    stage,      \* what the reply task of a turn is working on
    path,       \* which kind of reply it gives
    marker,     \* turn_gen_marker of the turn
    cancelled,  \* turns whose task has a cancellation pending
    quiet,      \* turns started by an inactivity intent (omit_user_message)
    bridge,     \* the detached thinking-audio task of a turn
    lang,       \* session["language_code_key"]
    frozen,     \* runtime context: localization.frozen
    pending,    \* session["_pending_history_user"]: the turn it comes from
    history,    \* session["turn_history"]
    transcript, \* session["messages"]: the turns that contributed to it
    finalized,  \* session["_turn_finalized"]: the last finalized turn
    bridged,    \* session["_thinking_bridge_sentence"] is set
    visit,      \* history variable: number of reset_session / home so far
    born,       \* history variable: the visit in which a turn was scheduled
    delivered,  \* history variable: turns whose outcome was sent
    wire        \* the frame a task has sent in this step, Silence if none; the
                \* receive loop's own frames are not recorded

loopVars    == <<gen, loop, active>>
taskVars    == <<at, stage, path, marker, cancelled>>
memoryVars  == <<pending, history, transcript>>
sessionVars == <<lang, frozen, finalized, bridged>>
ghostVars   == <<visit, born, quiet>>
vars == <<loopVars, taskVars, memoryVars, sessionVars, ghostVars,
          bridge, delivered, wire>>

Points  == {"idle", "created", "await", "lock", "drain", "done"}
Frames  == {"think", "busy", "partial", "ack", "stream", "interim", "final",
            "error"}
Stages  == Frames \cup {"none", "routing", "working", "speaking", "tail"}
Paths   == {"none", "name", "direct", "answer", "card"}

Pair  == [user : Turns, reply : Turns]
Frame == [by : {"none", "reply", "bridge"}, turn : Turns \cup {NoTurn},
          gen : 0 .. MaxGen]

\* A step in which no task puts anything on the wire.
Silence == [by |-> "none", turn |-> NoTurn, gen |-> 0]
Silent  == wire' = Silence

TypeOK ==
    /\ gen \in 0 .. MaxGen
    /\ loop \in {"recv", "answer", "micBusy", "mic"}
    /\ active \in Turns \cup {NoTurn}
    /\ at \in [Turns -> Points]
    /\ stage \in [Turns -> Stages]
    /\ path \in [Turns -> Paths]
    /\ marker \in [Turns -> 0 .. MaxGen]
    /\ cancelled \subseteq Turns
    /\ quiet \subseteq Turns
    /\ bridge \in [Turns -> {"none", "tts", "lock"}]
    /\ lang \in {"none", "picked", "default"}
    /\ frozen \in BOOLEAN
    /\ pending \in Turns \cup {NoTurn}
    /\ history \in Seq(Pair)
    /\ transcript \subseteq Turns
    /\ finalized \in Turns \cup {NoTurn}
    /\ bridged \in BOOLEAN
    /\ visit \in 0 .. gen
    /\ born \in [Turns -> 0 .. MaxGen]
    /\ delivered \subseteq Turns
    /\ wire \in Frame

Init ==
    /\ gen = 0
    /\ loop = "answer"
    /\ active = NoTurn
    /\ at = [t \in Turns |-> "idle"]
    /\ stage = [t \in Turns |-> "none"]
    /\ path = [t \in Turns |-> "none"]
    /\ marker = [t \in Turns |-> 0]
    /\ cancelled = {}
    /\ quiet = {}
    /\ bridge = [t \in Turns |-> "none"]
    /\ lang = "none"
    /\ frozen = FALSE
    /\ pending = NoTurn
    /\ history = <<>>
    /\ transcript = {}
    /\ finalized = NoTurn
    /\ bridged = FALSE
    /\ visit = 0
    /\ born = [t \in Turns |-> 0]
    /\ delivered = {}
    /\ wire = Silence

-----------------------------------------------------------------------------
(* The helpers of the code. *)

Live(t) == at[t] \in {"created", "await", "lock", "drain"}

\* Mutant: the comparison the wrong way round.
StaleInverted(t) == marker[t] = gen

\* A turn is stale once the generation it read has been superseded.
Stale(t) == marker[t] # gen

\* A live task that may take its next step: no cancellation is waiting for it.
Running(t, point, s) == at[t] = point /\ stage[t] = s /\ t \notin cancelled

\* Mutant: the generation moves on and the old task is left running.
SupersedeKeepsTask ==
    /\ gen < MaxGen
    /\ gen' = gen + 1
    /\ cancelled' = cancelled

\* Mutant: the task is cancelled and the generation stays.
SupersedeKeepsGen ==
    /\ gen < MaxGen
    /\ gen' = gen
    /\ cancelled' = cancelled \cup ({active} \cap Turns)

\* _cancel_active_reply_task and the generation bump that always follows it.
Supersede ==
    /\ gen < MaxGen
    /\ gen' = gen + 1
    /\ cancelled' = cancelled \cup ({active} \cap Turns)

\* append_session_history(assistant): closes the pair that `user` opened, keeps
\* the last HistoryTurns pairs, and drops a reply nobody asked for.
Recorded(user, reply) ==
    LET full == Append(history, [user |-> user, reply |-> reply])
    IN  IF user = NoTurn THEN history
        ELSE IF Len(full) > HistoryTurns
             THEN SubSeq(full, Len(full) - HistoryTurns + 1, Len(full))
             ELSE full

\* resolve_localization writes the resolved language back: "en" if none is set.
Localized == IF lang = "none" THEN "default" ELSE lang

\* The task is suspended at a new point.
Goto(t, point, s) ==
    /\ at' = [at EXCEPT ![t] = point]
    /\ stage' = [stage EXCEPT ![t] = s]

\* The task ends; its done-callback clears active_reply_task if it is still it.
Finish(t) ==
    /\ Goto(t, "done", "none")
    /\ path' = [path EXCEPT ![t] = "none"]
    /\ active' = IF active = t THEN NoTurn ELSE active

\* The stale check that guards a send or a costly step.
GotoUnlessStale(t, point, s) ==
    IF Stale(t)
    THEN Finish(t)
    ELSE /\ Goto(t, point, s)
         /\ UNCHANGED <<path, active>>

-----------------------------------------------------------------------------
(* The receive loop.  It handles one message at a time: while it answers,   *)
(* or records and transcribes speech, no other message is read.             *)

\* Mutant: the reset forgets the question that waits for its reply.
ResetKeepsPending ==
    /\ loop = "recv"
    /\ Supersede
    /\ active' = NoTurn
    /\ lang' = "none"
    /\ history' = <<>>
    /\ transcript' = {}
    /\ visit' = visit + 1
    /\ loop' = "answer"
    /\ Silent
    /\ UNCHANGED <<at, stage, path, marker, pending, frozen, finalized,
                   bridged, born, quiet, bridge, delivered>>

ResetOrHome ==
    /\ loop = "recv"
    /\ Supersede
    /\ active' = NoTurn
    /\ lang' = "none"
    /\ pending' = NoTurn
    /\ history' = <<>>
    /\ transcript' = {}
    /\ visit' = visit + 1
    /\ loop' = "answer"
    /\ Silent
    /\ UNCHANGED <<at, stage, path, marker, frozen, finalized, bridged, born,
                   quiet, bridge, delivered>>

CancelTurn ==
    /\ loop = "recv"
    /\ Supersede
    /\ active' = NoTurn
    /\ loop' = "answer"
    /\ Silent
    /\ UNCHANGED <<at, stage, path, marker, memoryVars, sessionVars,
                   ghostVars, bridge, delivered>>

\* _schedule_process_user_text_reply: preempt, advance the generation, start.
Schedule(isQuiet) ==
    \E t \in Turns :
        /\ at[t] = "idle"
        /\ \A u \in 1 .. (t - 1) : at[u] # "idle"
        /\ Supersede
        /\ active' = t
        /\ at' = [at EXCEPT ![t] = "created"]
        /\ born' = [born EXCEPT ![t] = visit]
        /\ quiet' = IF isQuiet THEN quiet \cup {t} ELSE quiet
        /\ loop' = "recv"
        /\ Silent
        /\ UNCHANGED <<stage, path, marker, memoryVars, sessionVars, visit,
                       bridge, delivered>>

UserMessage == loop = "recv" /\ lang # "none" /\ Schedule(FALSE)

\* session_closing_prompt and session_no_input_warning need no language.
InactivityIntent == loop = "recv" /\ Schedule(TRUE)

\* The language gate of user_message and mic_start.
LanguageGate ==
    /\ loop = "recv"
    /\ lang = "none"
    /\ loop' = "answer"
    /\ Silent
    /\ UNCHANGED <<gen, active, taskVars, memoryVars, sessionVars, ghostVars,
                   bridge, delivered>>

MicStart ==
    /\ loop = "recv"
    /\ lang # "none"
    /\ loop' = "micBusy"
    /\ Silent
    /\ UNCHANGED <<gen, active, taskVars, memoryVars, sessionVars, ghostVars,
                   bridge, delivered>>

MicHeard == loop = "mic" /\ Schedule(FALSE)

MicFailed ==
    /\ loop = "mic"
    /\ loop' = "answer"
    /\ Silent
    /\ UNCHANGED <<gen, active, taskVars, memoryVars, sessionVars, ghostVars,
                   bridge, delivered>>

\* language_selected; the name prompt, when it is due, replaces the transcript.
SelectLanguage ==
    /\ loop = "recv"
    /\ ~frozen
    /\ lang' = "picked"
    /\ transcript' \in {transcript, {}}
    /\ loop' = "answer"
    /\ Silent
    /\ UNCHANGED <<gen, active, taskVars, pending, history, frozen, finalized,
                   bridged, ghostVars, bridge, delivered>>

LanguageRefused ==
    /\ loop = "recv"
    /\ frozen
    /\ loop' = "answer"
    /\ Silent
    /\ UNCHANGED <<gen, active, taskVars, memoryVars, sessionVars, ghostVars,
                   bridge, delivered>>

\* restore_language: fails closed when frozen or for another visitor.
RestoreLanguage ==
    /\ loop = "recv"
    /\ lang' \in {lang} \cup (IF frozen THEN {} ELSE {"picked"})
    /\ loop' = "answer"
    /\ Silent
    /\ UNCHANGED <<gen, active, taskVars, memoryVars, frozen, finalized,
                   bridged, ghostVars, bridge, delivered>>

\* Messages that are only answered: wake, menu_select, prompts, rejections;
\* conversation_started may replace the transcript by its greeting.
OtherMessage ==
    /\ loop = "recv"
    /\ transcript' \in {transcript, {}}
    /\ loop' = "answer"
    /\ Silent
    /\ UNCHANGED <<gen, active, taskVars, pending, history, sessionVars,
                   ghostVars, bridge, delivered>>

LoopSend ==
    /\ loop \in {"answer", "micBusy"}
    /\ Silent
    /\ loop' = IF loop = "micBusy" THEN "mic" ELSE "recv"
    /\ UNCHANGED <<gen, active, taskVars, memoryVars, sessionVars, ghostVars,
                   bridge, delivered>>

-----------------------------------------------------------------------------
(* A reply task: process_user_text_and_reply, one action per segment.       *)

\* _emit_direct_conversation_reply up to its first send.
DirectReply(t, omitUser) ==
    /\ history' = Recorded(IF omitUser THEN pending ELSE t, t)
    /\ pending' = NoTurn
    /\ transcript' = transcript \cup {t}
    /\ path' = [path EXCEPT ![t] = "direct"]
    /\ Goto(t, "lock", "busy")

\* The pipeline proper up to its first send: the question is now pending.
PipelineReply(t) ==
    /\ pending' = t
    /\ path' = [path EXCEPT ![t] = "answer"]
    /\ Goto(t, "lock", "busy")
    /\ UNCHANGED <<history, transcript>>

Begin(t) ==
    /\ at[t] = "created"
    /\ t \notin cancelled
    /\ marker' = [marker EXCEPT ![t] = gen]
    /\ \/ /\ t \in quiet                      \* closing prompt, no-input warning
          /\ DirectReply(t, TRUE)
          /\ UNCHANGED lang
       \/ /\ t \notin quiet                   \* feedback or closing gate
          /\ \E omitUser \in BOOLEAN : DirectReply(t, omitUser)
          /\ UNCHANGED lang
       \/ /\ t \notin quiet                   \* name gate
          /\ path' = [path EXCEPT ![t] = "name"]
          /\ Goto(t, "lock", "busy")
          /\ UNCHANGED <<lang, memoryVars>>
       \/ /\ t \notin quiet                   \* auto-detect, then orch.run
          /\ lang' = Localized
          /\ Goto(t, "await", "routing")
          /\ UNCHANGED <<path, memoryVars>>
    /\ Silent
    /\ quiet' = quiet \ {t}
    /\ UNCHANGED <<loopVars, cancelled, frozen, finalized, bridged, visit, born,
                   bridge, delivered>>

\* orch.run has decided: think aloud first, or go straight to the reply.
Routed(t) ==
    /\ Running(t, "await", "routing")
    /\ lang' = Localized
    /\ \/ /\ ~Stale(t)
          /\ bridged' = TRUE
          /\ Goto(t, "lock", "think")
          /\ UNCHANGED <<path, memoryVars>>
       \/ /\ DirectReply(t, FALSE) \/ PipelineReply(t)
          /\ UNCHANGED bridged
    /\ Silent
    /\ UNCHANGED <<loopVars, marker, cancelled, frozen, finalized, ghostVars,
                   bridge, delivered>>

\* The thinking sentence is out: its audio becomes a task of its own.
ThinkingSent(t) ==
    /\ Running(t, "drain", "think")
    /\ bridge' = [bridge EXCEPT ![t] = "tts"]
    /\ DirectReply(t, FALSE) \/ PipelineReply(t)
    /\ Silent
    /\ UNCHANGED <<loopVars, marker, cancelled, sessionVars, ghostVars,
                   delivered>>

\* _attach_session_gen and send_json: stamped with the generation of NOW.
Transmit(t) ==
    /\ at[t] = "lock"
    /\ t \notin cancelled
    /\ wire' = [by |-> "reply", turn |-> t, gen |-> gen]
    /\ delivered' = IF stage[t] \in {"final", "error"}
                    THEN delivered \cup {t} ELSE delivered
    /\ Goto(t, "drain", stage[t])
    /\ UNCHANGED <<loopVars, path, marker, cancelled, memoryVars, sessionVars,
                   ghostVars, bridge>>

\* isProcessing is out on a direct reply or a name turn.  A name turn owns the
\* conversation memory only from here on.
BusySent(t) ==
    /\ Running(t, "drain", "busy")
    /\ path[t] \in {"direct", "name"}
    /\ GotoUnlessStale(t, "await", "speaking")
    /\ IF path[t] = "name" /\ ~Stale(t)
       THEN /\ history' = Recorded(t, t)
            /\ pending' = NoTurn
            /\ transcript' = {t}
       ELSE UNCHANGED memoryVars
    /\ Silent
    /\ UNCHANGED <<gen, loop, marker, cancelled, sessionVars, ghostVars,
                   bridge, delivered>>

\* The pipeline's opening frames follow each other without a stale check; the
\* earcon is skipped once the session holds a thinking sentence.
OpeningSent(t) ==
    /\ \/ Running(t, "drain", "busy") /\ path[t] = "answer"
          /\ Goto(t, "lock", "partial")
       \/ Running(t, "drain", "partial") /\ ~bridged /\ Goto(t, "lock", "ack")
    /\ Silent
    /\ UNCHANGED <<loopVars, path, marker, cancelled, memoryVars, sessionVars,
                   ghostVars, bridge, delivered>>

\* After the opening: attach the card narration (freezing the language), fail
\* its contract (releasing it), or answer without a card.
Localize(t) ==
    /\ Running(t, "drain", "ack") \/ (Running(t, "drain", "partial") /\ bridged)
    /\ IF Stale(t)
       THEN Finish(t) /\ UNCHANGED <<lang, frozen>>
       ELSE /\ Goto(t, "await", "working")
            /\ lang' = Localized
            /\ \/ path' = [path EXCEPT ![t] = "card"] /\ frozen' = TRUE
               \/ UNCHANGED path /\ frozen' \in {frozen, FALSE}
            /\ UNCHANGED active
    /\ Silent
    /\ UNCHANGED <<gen, loop, marker, cancelled, memoryVars, finalized,
                   bridged, ghostVars, bridge, delivered>>

\* _stream_groq_reply shows what has been generated so far; a stale stream, or
\* one that takes longer than LLM_STREAM_TIMEOUT_S, gives up, and the turn goes on.
Stream(t) ==
    /\ \/ Running(t, "await", "working") /\ ~Stale(t) /\ Goto(t, "lock", "stream")
       \/ Running(t, "lock", "stream") /\ Goto(t, "await", "working")
       \/ Running(t, "drain", "stream") /\ Goto(t, "await", "working")
    /\ Silent
    /\ UNCHANGED <<loopVars, path, marker, cancelled, memoryVars, sessionVars,
                   ghostVars, bridge, delivered>>

\* Preprocessing, retrieval and generation are over: the reply is recorded.
Generated(t) ==
    /\ Running(t, "await", "working")
    /\ history' = Recorded(pending, t)
    /\ pending' = NoTurn
    /\ transcript' = transcript \cup {t}
    /\ Goto(t, "await", "speaking")
    /\ Silent
    /\ UNCHANGED <<loopVars, path, marker, cancelled, sessionVars, ghostVars,
                   bridge, delivered>>

\* Mutant: a turn that has streamed a clip counts as answered.
VoicedOnce(t) ==
    /\ \/ /\ Running(t, "await", "speaking")
          /\ path[t] \in {"answer", "card"}
          /\ GotoUnlessStale(t, "lock", "interim")
       \/ Running(t, "await", "speaking") /\ GotoUnlessStale(t, "lock", "final")
       \/ Running(t, "await", "tail") /\ Finish(t)
    /\ Silent
    /\ UNCHANGED <<gen, loop, marker, cancelled, memoryVars, sessionVars,
                   ghostVars, bridge, delivered>>

\* Speech is ready: an interim clip (pipeline only) or the final frame.
Voiced(t) ==
    /\ \/ /\ Running(t, "await", "speaking")
          /\ path[t] \in {"answer", "card"}
          /\ GotoUnlessStale(t, "lock", "interim")
       \/ /\ Running(t, "await", "speaking") \/ Running(t, "await", "tail")
          /\ GotoUnlessStale(t, "lock", "final")
    /\ Silent
    /\ UNCHANGED <<gen, loop, marker, cancelled, memoryVars, sessionVars,
                   ghostVars, bridge, delivered>>

InterimSent(t) ==
    /\ Running(t, "drain", "interim")
    /\ Goto(t, "await", "tail")
    /\ Silent
    /\ UNCHANGED <<loopVars, path, marker, cancelled, memoryVars, sessionVars,
                   ghostVars, bridge, delivered>>

\* finalize_turn releases the localization freeze, whoever holds it.
FinalSent(t) ==
    /\ Running(t, "drain", "final")
    /\ finalized' = t
    /\ frozen' = FALSE
    /\ Finish(t)
    /\ Silent
    /\ UNCHANGED <<gen, loop, marker, cancelled, memoryVars, lang, bridged,
                   ghostVars, bridge, delivered>>

\* An exception in the pipeline: a PROCESS_FAILED frame, with no stale check.
Fail(t) ==
    /\ at[t] = "await"
    /\ stage[t] \in {"working", "speaking", "tail"}
    /\ path[t] \in {"answer", "card"}
    /\ t \notin cancelled
    /\ Goto(t, "lock", "error")
    /\ Silent
    /\ UNCHANGED <<loopVars, path, marker, cancelled, memoryVars, sessionVars,
                   ghostVars, bridge, delivered>>

ErrorSent(t) ==
    /\ Running(t, "drain", "error")
    /\ Finish(t)
    /\ Silent
    /\ UNCHANGED <<gen, loop, marker, cancelled, memoryVars, sessionVars,
                   ghostVars, bridge, delivered>>

\* CancelledError is raised where the task is suspended.  Its clean-up frame is
\* sent only if the turn is not stale, which CancelledIsStale excludes.
Abort(t) ==
    /\ Live(t)
    /\ t \in cancelled
    /\ Finish(t)
    /\ cancelled' = cancelled \ {t}
    /\ Silent
    /\ UNCHANGED <<gen, loop, marker, memoryVars, sessionVars, ghostVars,
                   bridge, delivered>>

\* asyncio.wait_for returns the result it already has and drops the cancellation.
SwallowCancel(t) ==
    /\ LossyCancel
    /\ at[t] \in {"await", "lock"}
    /\ t \in cancelled
    /\ cancelled' = cancelled \ {t}
    /\ Silent
    /\ UNCHANGED <<loopVars, at, stage, path, marker, memoryVars, sessionVars,
                   ghostVars, bridge, delivered>>

-----------------------------------------------------------------------------
(* The thinking-audio task.  Nothing cancels it.                            *)

\* The stale check after the synthesis.  The one before it saves the synthesis, and
\* decides nothing that this one does not: a stale turn stays stale.
BridgeStep(t) ==
    /\ bridge[t] = "tts"
    /\ bridge' = [bridge EXCEPT ![t] = IF Stale(t) THEN "none" ELSE "lock"]
    /\ Silent
    /\ UNCHANGED <<loopVars, taskVars, memoryVars, sessionVars, ghostVars,
                   delivered>>

BridgeSend(t) ==
    /\ bridge[t] = "lock"
    /\ wire' = [by |-> "bridge", turn |-> t, gen |-> gen]
    /\ bridge' = [bridge EXCEPT ![t] = "none"]
    /\ UNCHANGED <<loopVars, taskVars, memoryVars, sessionVars, ghostVars,
                   delivered>>

-----------------------------------------------------------------------------
LoopNext ==
    \/ ResetOrHome \/ CancelTurn \/ UserMessage \/ InactivityIntent
    \/ LanguageGate \/ MicStart \/ MicHeard \/ MicFailed \/ SelectLanguage
    \/ LanguageRefused \/ RestoreLanguage \/ OtherMessage \/ LoopSend

ReplyNext(t) ==
    \/ Begin(t) \/ Routed(t) \/ ThinkingSent(t) \/ Transmit(t) \/ BusySent(t)
    \/ OpeningSent(t) \/ Localize(t) \/ Stream(t) \/ Generated(t) \/ Voiced(t)
    \/ InterimSent(t) \/ FinalSent(t) \/ Fail(t) \/ ErrorSent(t) \/ Abort(t)

BridgeNext(t) == BridgeStep(t) \/ BridgeSend(t)

Next ==
    \/ LoopNext
    \/ \E t \in Turns : ReplyNext(t) \/ SwallowCancel(t) \/ BridgeNext(t)

Spec == Init /\ [][Next]_vars

\* The event loop runs every ready task, every await of a task is bounded by a
\* timeout, and so is the stream of a reply as a whole; recording and
\* transcription end.  What arrives from the kiosk and what a cancellation hits
\* carry no fairness.
Fairness ==
    /\ WF_vars(LoopSend)
    /\ WF_vars(MicFailed)
    /\ \A t \in Turns : /\ WF_vars(ReplyNext(t)) /\ SF_vars(Generated(t))
                       /\ WF_vars(BridgeNext(t))

FairSpec == Spec /\ Fairness

-----------------------------------------------------------------------------
(* What must hold however cancellations are delivered.                      *)

\* Of all the tasks that are still going to run, only the one recorded in
\* active_reply_task can take itself for the current turn: a superseded task
\* either holds a cancellation before its first step or has read an older
\* generation.  A task that starts late can never adopt its successor's
\* generation (_schedule_process_user_text_reply, _turn_stale).
OneCurrentTurn ==
    \A t \in Turns :
        (Live(t) /\ t \notin cancelled /\ (at[t] = "created" \/ ~Stale(t)))
            => t = active

\* A cancellation only ever reaches a turn that is already stale (or has not
\* begun), so the clean-up frame of `except CancelledError` is never sent: the
\* kiosk depends on the frame of the message that cancelled the turn.
CancelledIsStale ==
    \A t \in cancelled : Live(t) => at[t] = "created" \/ Stale(t)

\* A turn that ended and is still the latest thing that happened has told the
\* kiosk how it ended, with a final or an error frame: the orb is never left
\* "thinking" with nobody working.
NeverSilent ==
    \A t \in Turns : (at[t] = "done" /\ ~Stale(t)) => t \in delivered

\* Every turn that is scheduled is answered, or is superseded and ends.
OutcomeHeard ==
    \A t \in Turns :
        at[t] = "created" ~> (t \in delivered \/ (at[t] = "done" /\ Stale(t)))

-----------------------------------------------------------------------------
(* What holds as long as a cancelled task runs no further (~LossyCancel).   *)

\* While the current turn presents a card, the language stays frozen and set:
\* no other task releases it (finalize_turn releases whoever holds it) and no
\* message changes it under the narration.
Presenting(t) ==
    /\ path[t] = "card"
    /\ Live(t)
    /\ ~Stale(t)
    /\ stage[t] # "error"

PresentationLocked ==
    \A t \in Turns : Presenting(t) => frozen /\ lang # "none"

\* What the session remembers was said in the present visit: after
\* reset_session / home no late step of an earlier visitor's turn adds to the
\* history, to the pending question or to the transcript of the next visitor.
MemoryOfThisVisit ==
    /\ pending # NoTurn => born[pending] = visit
    /\ \A i \in DOMAIN history :
           born[history[i].user] = visit /\ born[history[i].reply] = visit
    /\ \A t \in transcript : born[t] = visit

\* The language is only ever the visitor's choice: neither auto-detection nor
\* the resolver's default is reached without one ("without an explicit
\* selection, voice input must never trigger auto-detect", mic_start).
LanguageChosen == lang # "default"

\* A frame of a reply task carries the generation of its own turn, although
\* the stamp is read after the task was suspended for the send lock.
ReplyFramesFresh ==
    wire.by = "reply" => wire.gen = marker[wire.turn]
=============================================================================
