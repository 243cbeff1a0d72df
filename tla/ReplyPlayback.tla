--------------------------- MODULE ReplyPlayback ---------------------------
(***************************************************************************)
(* How the kiosk speaks a reply.  The backend streams a reply in chunks,   *)
(* each with its own audio; the socket layer folds the frames of a turn    *)
(* into one payload; two React effects of ChatScreen.tsx read the payload, *)
(* claim the turn, feed the clip scheduler and start the loudspeaker.      *)
(* Before the reply the kiosk speaks a "thinking" sentence, and a gate     *)
(* holds the reply back until that sentence has ended, failed or timed out.*)
(*                                                                         *)
(* Everything the effects and callbacks of the screen read and write is in *)
(* the record `screen`: a handler of the screen is an operator from screen *)
(* to screen, so that one handler may call another as the code does.       *)
(* Sequence numbers count from 1.  React may render once for several       *)
(* frames.  Assumed: play() settles before the watchdog of its clip.  Left *)
(* out: turns begun at the backend's own microphone, thinking_skip, replies *)
(* that come as one audio outside the scheduler, acknowledgement sounds,   *)
(* card seeking, going Home, layout (Rerender stands for the renders it    *)
(* causes), and the played segment keys, which the slots' status implies.  *)
(***************************************************************************)
EXTENDS Integers, Sequences

CONSTANTS MaxTurns,     \* bound: messages of the visitor
          Chunks,       \* bound: chunks of a reply
          CardTurns,    \* turns whose reply comes with cards
          None, Pending \* no turn; TURN_FENCE_PENDING and "pending:..."

ASSUME ReplyPlaybackAssumption ==
    /\ MaxTurns \in Nat \ {0}
    /\ Chunks \in Nat \ {0}
    /\ None # Pending
    /\ None \notin 0..MaxTurns
    /\ Pending \notin 0..MaxTurns
    /\ CardTurns \subseteq 1..MaxTurns

Turns == 1..MaxTurns
Index == 1..Chunks
Backup == Chunks + 1    \* the whole reply in one audio, made when no chunk was
Content == Index \cup {Backup}

VARIABLES
    asked,      \* the last turn the visitor began
    cancels,    \* cancel_turn on its way, by the last turn begun before it
    reply,      \* the backend's progress with the turn it serves
    payload,    \* the payload the socket layer holds, merged from the frames
    dirty,      \* the effects React has yet to run
    screen,     \* the refs and timers of ChatScreen
    heard,      \* observer: the last content heard of each turn's reply
    left,       \* observer: turns the screen owned when it began another
    tapped,     \* observer: turns begun before the orb was last tapped
    holed,      \* observer: turns of which a chunk without a slot failed
    hasty       \* observer: a question was asked before the last one's answer

vars == <<asked, cancels, reply, payload, dirty, screen, heard, left,
          tapped, holed, hasty>>
observers == <<heard, left, tapped, holed, hasty>>

----------------------------------------------------------------------------
(* The clip scheduler, responseTtsScheduler.ts *)

NewTurn(t) == [turn |-> t, playhead |-> 1, clips |-> <<>>]
NoClip == [status |-> "PENDING", speaks |-> 0]

\* Slots up to n, the new ones PENDING.
Padded(clips, n) ==
    [i \in 1..(IF Len(clips) < n THEN n ELSE Len(clips)) |->
        IF i <= Len(clips) THEN clips[i] ELSE NoClip]

\* Mutant: a slot is filled again by every later frame, while it is played too.
FilledAgain(clips, i, status, content) ==
    [clips EXCEPT ![i] = [status |-> status, speaks |-> content]]

\* ingestClip: a slot is filled once.
Filled(clips, i, status, content) ==
    IF clips[i].status = "PENDING"
    THEN [clips EXCEPT ![i] = [status |-> status, speaks |-> content]]
    ELSE clips

Live(sched) == {i \in DOMAIN sched.clips :
                    /\ i >= sched.playhead
                    /\ sched.clips[i].status \in {"PENDING", "READY", "PLAYING"}}

\* nextPlayable, as the set of at most one clip that may start: the first that
\* is not over, if it is READY.
Startable(sched) == {i \in Live(sched) : /\ sched.clips[i].status = "READY"
                                         /\ \A j \in Live(sched) : i <= j}

Started == {"READY", "PLAYING", "COMPLETED"}
\* Mutant: a first clip that failed holds the others back.
PresentationReadyFirst(sched) ==
    /\ sched.clips # <<>>
    /\ sched.clips[1].status \in Started

PresentationReady(sched) ==
    /\ sched.clips # <<>>
    /\ \/ sched.clips[1].status \in Started
       \/ /\ sched.clips[1].status = "FAILED"
          /\ \E i \in DOMAIN sched.clips : sched.clips[i].status \in Started

Playing(sched) == \E i \in DOMAIN sched.clips : sched.clips[i].status = "PLAYING"

\* completeClip: only a clip that is not over is completed.
Completed(sched, i, status) ==
    IF i \in DOMAIN sched.clips /\ sched.clips[i].status \in {"PLAYING", "READY"}
    THEN [sched EXCEPT !.clips[i].status = status, !.playhead = i + 1]
    ELSE sched

----------------------------------------------------------------------------
(* The turn fence and the thinking gate, turnFence.ts and thinkingGate.ts *)

\* Mutant: while no owner is known the previous one is accepted.
IgnoredNameless(s, t) ==
    \/ s.owner = Pending /\ t = None
    \/ s.owner \in Turns /\ t \in Turns /\ t # s.owner

\* Mutant: while no owner is known every frame is refused.
IgnoredPending(s, t) ==
    \/ s.owner = Pending
    \/ s.owner \in Turns /\ t \in Turns /\ t # s.owner

\* shouldIgnorePayloadTurn, with the screen's owner and previous owner.
Ignored(s, t) ==
    \/ s.owner = Pending /\ t \in {None, s.previous}
    \/ s.owner \in Turns /\ t \in Turns /\ t # s.owner

NoGate == [turn |-> None, over |-> FALSE]

\* shouldBlockResponsePlayback, or the thinking player is playing.
Blocked(s) == (s.gate.turn # None /\ ~s.gate.over) \/ s.thinking # None

\* markThinkingTtsFinished and markThinkingTtsFailed, for the gate of turn t.
Released(gate, t) == IF gate.turn = t THEN [gate EXCEPT !.over = TRUE] ELSE gate

\* Mutant: the gate keeps its provisional id.
ReboundNever(gate, t) == IF gate.turn = t THEN [gate EXCEPT !.turn = t] ELSE gate

\* rebindThinkingTurn: a gate begun before the turn's id was known.
Rebound(gate, t) ==
    IF gate.turn = Pending THEN [gate EXCEPT !.turn = t] ELSE gate

----------------------------------------------------------------------------
(* The loudspeaker *)

Silent == [turn |-> None, seq |-> 1, speaks |-> 0, phase |-> "over"]
Sounding(s) == s.voice.phase # "over"

\* playbackGenRef is raised and the audio paused: the callbacks of every audio
\* made before do nothing from now on.
Silenced(s) == [s EXCEPT !.voice = Silent, !.guarded = FALSE, !.shown = FALSE]

\* Mutant: an owner that is not yet known is remembered as the previous one.
TurnResetPending(s) ==
    [Silenced(s) EXCEPT !.streamTurn = None,
                        !.sched = NewTurn(None),
                        !.previous = s.owner,
                        !.owner = Pending]

\* resetTurnPresentationState
TurnReset(s) ==
    [Silenced(s) EXCEPT !.streamTurn = None,
                        !.sched = NewTurn(None),
                        !.previous = IF s.owner \in Turns THEN s.owner ELSE @,
                        !.owner = Pending]

\* handleAudioPlayback for clip i of the scheduler: an audio that is still on
\* is paused.
Start(s, i) ==
    IF Ignored(s, s.sched.turn)
    THEN s
    ELSE [s EXCEPT
            !.owner = IF s.owner = Pending THEN s.sched.turn ELSE @,
            !.voice = [turn |-> s.sched.turn, seq |-> i,
                       speaks |-> s.sched.clips[i].speaks, phase |-> "starting"],
            !.sched.clips[i].status = "PLAYING",
            !.sched.playhead = i,
            !.guarded = TRUE,
            !.shown = TRUE]

\* playQueuedClip
PlayQueued(s) ==
    IF Blocked(s) \/ Startable(s.sched) = {}
    THEN s
    ELSE Start(s, CHOOSE i \in Startable(s.sched) : TRUE)

\* finishResponseClip: clears the watchdog that is armed, whoever armed it.
Finished(s, i, status) ==
    PlayQueued([s EXCEPT !.guarded = FALSE, !.shown = FALSE,
                         !.sched = Completed(s.sched, i, status)])

----------------------------------------------------------------------------
(* The two effects *)

\* The effect on the payload, first part: who owns the loudspeaker.
Claimed(s, p) ==
    LET owned == IF s.owner = p.turn THEN s
                 ELSE [TurnReset(s) EXCEPT !.owner = p.turn]
        ready == IF owned.sched.turn = p.turn THEN owned
                 ELSE [owned EXCEPT !.sched = NewTurn(p.turn)]
    IN  CASE p.processing /\ ready.gate.turn = p.turn -> ready
          [] p.processing /\ ready.gate.turn = Pending ->
                [ready EXCEPT !.gate = Rebound(@, p.turn), !.gateTimer = p.turn]
          [] p.processing /\ ready.gate.turn \notin {p.turn, Pending} ->
                [ready EXCEPT !.gate = [turn |-> p.turn, over |-> FALSE],
                              !.gateTimer = p.turn]
          [] ~p.processing /\ s.owner = Pending /\ ~Ignored(s, p.turn) ->
                [s EXCEPT !.owner = p.turn,
                          !.sched = IF @.turn = p.turn THEN @ ELSE NewTurn(p.turn)]
          [] OTHER -> s

\* Mutant: the sentence is spoken even when the gate has been opened.
OfferedLate(s, t) ==
    IF s.gate.turn \notin {t, Pending} \/ s.thinking # None
    THEN [s EXCEPT !.offered = t]
    ELSE [s EXCEPT !.offered = t, !.gate = Rebound(@, t), !.thinking = t]

\* scheduleThinkingAudio: offered once, and lost if the gate or the player is
\* not free at that moment.
Offered(s, t) ==
    IF \/ s.gate.turn \notin {t, Pending}
       \/ s.gate.over
       \/ s.thinking # None
    THEN [s EXCEPT !.offered = t]
    ELSE [s EXCEPT !.offered = t, !.gate = Rebound(@, t), !.thinking = t]

\* Second part: the thinking sentence.
Interlude(s, p) ==
    LET bound == IF p.bridge = "none" THEN s
                 ELSE [s EXCEPT !.gate = Rebound(@, p.turn)]
        spoken == IF p.bridge = "audio" /\ s.offered # p.turn
                  THEN Offered(bound, p.turn) ELSE bound
    IN  IF p.bridgeFailed
        THEN PlayQueued([spoken EXCEPT !.thinking = None,
                                       !.gate = Released(@, p.turn)])
        ELSE spoken

PayloadEffect(s, p) ==
    LET claimed == Claimed(s, p)
    IN  IF Ignored(claimed, p.turn) THEN claimed ELSE Interlude(claimed, p)

\* The second effect, on the clips.  A chunk's frame goes to the slot of its
\* index; of a reply with cards the slots of the payload are gone through again,
\* of any other reply the queue, in which the chunks that arrived stand one after
\* the other: there the i-th to arrive goes to the i-th slot.
Ingested(clips, p) ==
    LET direct == IF p.chunk = 0 THEN clips
                  ELSE Filled(Padded(clips, Chunks), p.chunk,
                              IF p.good THEN "READY" ELSE "FAILED", p.chunk)
        again == IF p.cards
                 THEN [i \in DOMAIN p.slots |->
                        [status |-> p.slots[i], speaks |-> i]]
                 ELSE [i \in DOMAIN p.queue |->
                        [status |-> "READY", speaks |-> p.queue[i]]]
    IN  [i \in DOMAIN Padded(direct, Len(again)) |->
            IF i \in DOMAIN again
            THEN Filled(Padded(direct, Len(again)), i, again[i].status,
                        again[i].speaks)[i]
            ELSE direct[i]]

ClipsEffect(s, p) ==
    LET turned == IF s.streamTurn = p.turn THEN s
                  ELSE [Silenced(s) EXCEPT !.streamTurn = p.turn]
        ready == IF p.turn \in {None, turned.sched.turn} THEN turned
                 ELSE [turned EXCEPT !.sched = NewTurn(p.turn)]
        fed == [ready EXCEPT !.sched.clips = Ingested(@, p)]
    IN  IF Ignored(s, p.turn)
        THEN [s EXCEPT !.startDue = FALSE]
        ELSE [fed EXCEPT !.startDue = /\ PresentationReady(fed.sched)
                                      /\ ~Playing(fed.sched)]

----------------------------------------------------------------------------
(* Initial states *)

NoPayload == [turn |-> None, cards |-> FALSE, processing |-> FALSE,
              bridge |-> "none", bridgeFailed |-> FALSE, chunk |-> 0,
              good |-> FALSE, slots |-> <<>>, queue |-> <<>>]

FreshScreen ==
    [owner |-> None, previous |-> None,          \* the turn fence
     sched |-> NewTurn(None), streamTurn |-> None,
     gate |-> NoGate, gateTimer |-> None,        \* the thinking gate, its watchdog
     thinking |-> None,                          \* turn the thinking player speaks
     offered |-> None,                           \* thinkingAudioPlayedRef
     voice |-> Silent,                           \* currentAudioRef
     guarded |-> FALSE,                          \* the watchdog of voice is armed
     shown |-> FALSE,                            \* isPlayingBackendAudio
     startDue |-> FALSE]                         \* the timer of the clips effect

Init ==
    /\ asked = 0
    /\ cancels = {}
    /\ reply = [turn |-> 0, live |-> FALSE, next |-> 1, bridged |-> FALSE,
                final |-> FALSE]
    /\ payload = NoPayload
    /\ dirty = {}
    /\ screen = FreshScreen
    /\ heard = [t \in Turns |-> 0]
    /\ left = {}
    /\ tapped = {}
    /\ holed = {}
    /\ hasty = FALSE

----------------------------------------------------------------------------
(* The backend, one frame at a time, and the merge in useWebSocket.ts *)

Effects == {"payload", "clips"}

\* A frame reaches the socket layer.
Receive(p) ==
    /\ payload' = p
    /\ dirty' = Effects

\* The backend turns to a message, in the order sent: the task of the last one is
\* cancelled, and one that is overtaken before its first frame sends none.  The
\* processing frame stands for all that come before the reply.
Serve ==
    \E t \in (reply.turn + 1)..asked :
        /\ \A c \in cancels : t <= c
        /\ reply' = [turn |-> t, live |-> TRUE, next |-> 1, bridged |-> FALSE,
                     final |-> FALSE]
        /\ Receive([NoPayload EXCEPT !.turn = t, !.processing = TRUE,
                                     !.cards = t \in CardTurns])
        /\ UNCHANGED <<asked, cancels, screen, observers>>

\* cancel_turn: the frame names no turn.
Cancel ==
    \E c \in cancels :
        /\ \A d \in cancels : c <= d
        /\ cancels' = cancels \ {c}
        /\ reply' = [reply EXCEPT !.turn = c, !.live = FALSE]
        /\ Receive(NoPayload)
        /\ UNCHANGED <<asked, screen, observers>>

\* The detached task's thinking_audio or thinking_audio_failed: merged into the
\* payload of its turn, of which it keeps the rest.
SendBridge ==
    /\ reply.live
    /\ ~reply.bridged
    /\ reply' = [reply EXCEPT !.bridged = TRUE]
    /\ \/ Receive([payload EXCEPT !.bridge = "audio"])
       \/ Receive([payload EXCEPT !.bridgeFailed = TRUE])
    /\ UNCHANGED <<asked, cancels, screen, observers>>

\* The audio of the next chunk, or what is sent when it could not be made: a
\* FAILED slot of a reply with cards, of any other reply nothing.
SendChunk ==
    /\ reply.live
    /\ reply.next \in Index
    /\ reply' = [reply EXCEPT !.next = @ + 1]
    /\ \/ \E good \in BOOLEAN :
            /\ payload.cards
            /\ Receive([payload EXCEPT
                    !.processing = FALSE, !.bridgeFailed = FALSE,
                    !.chunk = reply.next, !.good = good,
                    !.slots = Append(@, IF good THEN "READY" ELSE "FAILED")])
            /\ UNCHANGED holed
       \/ /\ ~payload.cards
          /\ Receive([payload EXCEPT
                !.processing = FALSE, !.bridgeFailed = FALSE,
                !.chunk = reply.next, !.good = TRUE,
                !.queue = Append(@, reply.next)])
          /\ UNCHANGED holed
       \/ /\ ~payload.cards
          /\ holed' = holed \cup {reply.turn}
          /\ UNCHANGED <<payload, dirty>>
    /\ UNCHANGED <<asked, cancels, screen, heard, left, tapped, hasty>>

\* The final frame.  If no chunk of a reply without cards was made, the whole
\* reply is tried as one audio.
SendFinal ==
    /\ reply.live
    /\ reply.next > Chunks
    /\ ~reply.final
    /\ reply' = [reply EXCEPT !.final = TRUE]
    /\ \E queue \in {payload.queue, <<Backup>>} :
         /\ queue = <<Backup>> => (~payload.cards /\ payload.queue = <<>>)
         /\ Receive([payload EXCEPT !.processing = FALSE, !.bridgeFailed = FALSE,
                                    !.chunk = 0, !.queue = queue])
    /\ UNCHANGED <<asked, cancels, screen, observers>>

----------------------------------------------------------------------------
(* The screen *)

\* What follows from a handler: the screen after it, and the effects React will
\* run again, which include the effect on the clips if isPlayingBackendAudio
\* has changed.
Becomes(s, effects) ==
    /\ screen' = s
    /\ dirty' = dirty \cup effects
                      \cup (IF s.shown = screen.shown THEN {} ELSE {"clips"})

\* The answer to the last question has begun, or its cancellation was answered,
\* and the screen has rendered it.
Calm == /\ cancels = {} /\ dirty = {}
        /\ ~payload.processing /\ payload.turn \in {asked, None}
        /\ reply.turn = asked

\* interceptAndSendMessage: a question is put on the screen or to its microphone.
Ask ==
    /\ asked < MaxTurns
    /\ asked' = asked + 1
    /\ left' = left \cup ({screen.owner} \cap Turns)
    /\ Becomes([TurnReset(screen) EXCEPT
                    !.thinking = None, !.offered = None,
                    !.gate = [turn |-> Pending, over |-> FALSE],
                    !.gateTimer = Pending], {})
    /\ hasty' = (hasty \/ ~Calm)
    /\ UNCHANGED <<cancels, reply, payload, heard, tapped, holed>>

\* handleOrbTap: cancel_turn is sent and the loudspeaker let go; the scheduler,
\* the gate and the thinking player are left as they are.
Tap ==
    /\ asked \in Turns \ tapped
    /\ cancels' = cancels \cup {asked}
    /\ tapped' = 1..asked
    /\ Becomes([Silenced(screen) EXCEPT !.owner = None], {})
    /\ UNCHANGED <<asked, reply, payload, heard, left, holed, hasty>>

\* React runs the effects that are due, in the order of the file.  The effect on
\* the payload raises thinkingEpoch when it has met a failed bridge.
Render ==
    /\ dirty # {}
    /\ LET first == IF "payload" \in dirty THEN PayloadEffect(screen, payload)
                                           ELSE screen
           second == ClipsEffect(first, payload)
       IN  /\ screen' = second
           /\ dirty' = IF /\ "payload" \in dirty
                          /\ payload.bridgeFailed
                          /\ ~Ignored(Claimed(screen, payload), payload.turn)
                       THEN Effects
                       ELSE IF second.shown = screen.shown THEN {} ELSE {"clips"}
    /\ UNCHANGED <<asked, cancels, reply, payload, observers>>

\* The effects run again because something else they depend on has changed, the
\* layout for one.
Rerender ==
    /\ dirty = {}
    /\ dirty' = Effects
    /\ UNCHANGED <<asked, cancels, reply, payload, screen, observers>>

StartTimer ==
    /\ screen.startDue
    /\ Becomes(PlayQueued([screen EXCEPT !.startDue = FALSE]), {})
    /\ UNCHANGED <<asked, cancels, reply, payload, observers>>

\* The thinking sentence ends, or its audio fails: the watchdog is cleared, of
\* whatever turn it is.
ThinkingEnds ==
    /\ screen.thinking # None
    /\ Becomes(PlayQueued([screen EXCEPT
                    !.thinking = None,
                    !.gate = Released(@, screen.thinking),
                    !.gateTimer = None]), Effects)
    /\ UNCHANGED <<asked, cancels, reply, payload, observers>>

\* The thinking watchdog of the turn it was armed for.
ThinkingTimeout ==
    /\ screen.gateTimer # None
    /\ IF screen.gate.turn = screen.gateTimer /\ ~screen.gate.over
       THEN Becomes(PlayQueued([screen EXCEPT
                        !.thinking = None,
                        !.gate = Released(@, screen.gateTimer),
                        !.gateTimer = None]), Effects)
       ELSE Becomes([screen EXCEPT !.gateTimer = None], {})
    /\ UNCHANGED <<asked, cancels, reply, payload, observers>>

\* play() is granted, and the clip is heard.
ClipSounds ==
    /\ screen.voice.phase = "starting"
    /\ screen' = [screen EXCEPT !.voice.phase = "sounding"]
    /\ heard' = [heard EXCEPT ![screen.voice.turn] =
                    screen.voice.speaks]
    /\ UNCHANGED <<asked, cancels, reply, payload, dirty, left, tapped, holed,
                   hasty>>

\* play() is refused.
ClipRefused ==
    /\ screen.voice.phase = "starting"
    /\ Becomes(Finished([screen EXCEPT !.voice.phase = "over"],
                        screen.voice.seq, "FAILED"), {})
    /\ UNCHANGED <<asked, cancels, reply, payload, observers>>

\* onended
ClipEnds ==
    /\ screen.voice.phase = "sounding"
    /\ Becomes(Finished([screen EXCEPT !.voice.phase = "over"],
                        screen.voice.seq, "COMPLETED"), {})
    /\ UNCHANGED <<asked, cancels, reply, payload, observers>>

\* The clip's own watchdog pauses it and goes on.
ClipTimeout ==
    /\ screen.guarded
    /\ screen.voice.phase = "sounding"
    /\ Becomes(Finished([screen EXCEPT !.voice.phase = "over"],
                        screen.voice.seq, "FAILED"), {})
    /\ UNCHANGED <<asked, cancels, reply, payload, observers>>

Backend == Serve \/ Cancel \/ SendChunk \/ SendFinal
Timers == StartTimer \/ ThinkingTimeout \/ ClipTimeout
Audio == ClipSounds \/ ClipRefused

Next ==
    \/ Backend \/ SendBridge
    \/ Ask \/ Tap
    \/ Render \/ Rerender
    \/ Timers
    \/ ThinkingEnds
    \/ Audio \/ ClipEnds

Spec == Init /\ [][Next]_vars

----------------------------------------------------------------------------
(* Properties *)

\* The properties of the fence and the gate are about visitors who are not hasty:
\* who ask only when Calm, that is when the answer to their last question has
\* begun.  They may touch the orb at any time; a turn begun before that is not
\* spoken about.  What happens to the others is in the README.

SchedTypeOK ==
    /\ screen.sched.turn \in Turns \cup {None}
    /\ screen.sched.clips \in Seq([status : {"PENDING", "READY", "PLAYING",
                                             "COMPLETED", "FAILED"},
                                   speaks : Content \cup {0}])
    /\ screen.sched.playhead \in 1..(Len(screen.sched.clips) + 1)

ScreenTypeOK ==
    /\ screen.owner \in Turns \cup {None, Pending}
    /\ screen.previous \in Turns \cup {None}
    /\ screen.streamTurn \in Turns \cup {None}
    /\ screen.gate \in [turn : Turns \cup {None, Pending}, over : BOOLEAN]
    /\ screen.gateTimer \in Turns \cup {None, Pending}
    /\ screen.thinking \in Turns \cup {None}
    /\ screen.offered \in Turns \cup {None}
    /\ Sounding(screen) => /\ screen.voice.turn = screen.sched.turn
                           /\ screen.voice.seq \in DOMAIN screen.sched.clips

\* The turns, the scheduler's slots and the gate hold what they should, and an
\* audio that is on belongs to a slot of the scheduler's turn.
TypeOK ==
    /\ asked \in 0..MaxTurns
    /\ cancels \subseteq 1..asked
    /\ reply.turn \in 0..asked
    /\ reply.next \in 1..(Chunks + 1)
    /\ payload.turn \in Turns \cup {None}
    /\ Len(payload.slots) <= Chunks /\ Len(payload.queue) <= Chunks
    /\ dirty \subseteq Effects
    /\ SchedTypeOK
    /\ ScreenTypeOK

\* A chunk is about to be heard only if neither it nor a later one of the reply
\* was heard before, however often the frames are gone through again and however
\* the clips before it ended (responseTtsScheduler.ts:200, 261).  Not so for a
\* reply without cards that lost a chunk, nor for one that was interrupted.
HeardInOrder ==
    screen.voice.phase = "starting" /\ screen.voice.turn \notin holed \cup tapped
        => heard[screen.voice.turn] < screen.voice.speaks

\* The thinking sentence and the reply never sound together: neither starts while
\* the other is on, whatever order bridge, chunks, taps and timers come in
\* (thinkingGate.ts:1, ChatScreen.tsx:1272, 2752).
OneVoice == screen.thinking = None \/ ~Sounding(screen)

\* A turn that owned the screen when the next one began is not spoken again: its
\* late frames are refused until the next turn's id is known, and after
\* (turnFence.ts:17).
SupersededIsSilent ==
    ~hasty /\ Sounding(screen) => screen.voice.turn \notin left \ tapped

HeldBack == screen.gate.turn # None /\ ~screen.gate.over

\* Nothing that an answer waits for is unwatched.  A clip that is on has its
\* watchdog armed and is known to be on, although one timer and one flag serve all
\* clips in turn (ChatScreen.tsx:2617, 2635).  A gate that holds an answer back will
\* be opened: its own watchdog is armed, or its own thinking sentence is on
\* (thinkingGate.ts:111 "so the answer is never deadlocked").
WaitsAreWatched ==
    /\ Sounding(screen) => screen.guarded /\ screen.shown
    /\ (HeldBack /\ screen.gate.turn \notin tapped /\ ~hasty)
        => screen.gate.turn \in {screen.gateTimer, screen.thinking}

\* A clip that could be played is not forgotten: it is held back, or the effect on
\* the clips is due, or the timer it sets (ChatScreen.tsx:4537, 2749).
ReadyClipMovesOn ==
    Startable(screen.sched) # {} /\ ~hasty
        => Blocked(screen) \/ screen.startDue \/ "clips" \in dirty

\* The fence lets the right turn in: once the screen has rendered a frame of the
\* last turn, that turn owns the loudspeaker and the scheduler, even if the
\* processing frame was folded into a later one (ChatScreen.tsx:2857).
LastTurnIsHeeded ==
    payload.turn = asked /\ asked \notin tapped /\ dirty = {} /\ ~hasty
        => screen.owner = asked /\ screen.sched.turn = asked

=============================================================================
