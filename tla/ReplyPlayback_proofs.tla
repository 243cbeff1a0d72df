------------------------ MODULE ReplyPlayback_proofs ------------------------
(***************************************************************************)
(* What the kiosk keeps to while it speaks replies, for any number of      *)
(* turns and chunks and any set of turns whose reply has cards.            *)
(*                                                                         *)
(* Almost all of the state is in the record `screen`, and Render goes      *)
(* through four handlers before it is done.  So the invariant is a         *)
(* predicate of a screen s, the other variables being its context, and     *)
(* each handler is shown to take a screen that has it to one that has it.  *)
(* Records are updated in one place, the first part: what each handler     *)
(* does to each field; from there on only the fields are spoken of.        *)
(***************************************************************************)
EXTENDS ReplyPlayback, SequenceTheorems, TLAPS

USE ReplyPlaybackAssumption

-----------------------------------------------------------------------------
(* The invariant *)

Over == {"COMPLETED", "FAILED"}
Clip == [status : {"PENDING", "READY", "PLAYING"} \cup Over,
         speaks : Content \cup {0}]

\* What is before the playhead is over, and only the clip at it may be playing.
SchedInv(sched) ==
    /\ DOMAIN sched = {"turn", "playhead", "clips"}
    /\ sched.turn \in Turns \cup {None}
    /\ sched.clips \in Seq(Clip)
    /\ sched.playhead \in 1..(Len(sched.clips) + 1)
    /\ sched.turn = None => Len(sched.clips) = 0
    /\ \A i \in 1..Len(sched.clips) :
         /\ i < sched.playhead => sched.clips[i].status \in Over
         /\ sched.clips[i].status = "PLAYING" => i = sched.playhead

ScreenFields == {"owner", "previous", "sched", "streamTurn", "gate",
                 "gateTimer", "thinking", "offered", "voice", "guarded",
                 "shown", "startDue"}

FieldsInv(s) ==
    /\ DOMAIN s = ScreenFields
    /\ s.owner \in Turns \cup {None, Pending}
    /\ s.previous \in Turns \cup {None}
    /\ s.streamTurn \in Turns \cup {None}
    /\ s.gate \in [turn : Turns \cup {None, Pending}, over : BOOLEAN]
    /\ s.gateTimer \in Turns \cup {None, Pending}
    /\ s.thinking \in Turns \cup {None}
    /\ s.offered \in Turns \cup {None}
    /\ s.voice \in [turn : Turns \cup {None}, seq : Nat \ {0},
                    speaks : Content \cup {0},
                    phase : {"over", "starting", "sounding"}]
    /\ s.guarded \in BOOLEAN /\ s.shown \in BOOLEAN /\ s.startDue \in BOOLEAN

\* An audio that is on is the clip at the playhead, of the turn that owns the
\* screen unless the orb was tapped; it is watched, and nothing holds it back.
SoundInv(s) ==
    Sounding(s) => /\ s.voice.turn = s.sched.turn
                   /\ s.sched.turn \in Turns
                   /\ s.voice.seq = s.sched.playhead
                   /\ s.voice.seq \in 1..Len(s.sched.clips)
                   /\ s.sched.clips[s.voice.seq].status = "PLAYING"
                   /\ s.voice.speaks = s.sched.clips[s.voice.seq].speaks
                   /\ s.owner \in {None, s.sched.turn}
                   /\ s.guarded /\ s.shown /\ ~Blocked(s)

BackendInv ==
    /\ asked \in 0..MaxTurns
    /\ reply \in [turn : 0..asked, live : BOOLEAN, next : 1..(Chunks + 1),
                  bridged : BOOLEAN, final : BOOLEAN]
    /\ tapped \subseteq 1..asked
    /\ \A t \in tapped : 1..t \subseteq tapped
    /\ cancels \subseteq tapped
    /\ \A c \in cancels : reply.turn <= c
    /\ \A t \in tapped : reply.turn < t => \E c \in cancels : t <= c
    /\ \A t \in left : t \in Turns /\ t < asked
    /\ dirty \subseteq Effects
    /\ heard \in [Turns -> Content \cup {0}]
    /\ \A t \in Turns : heard[t] # 0 => t <= reply.turn
    /\ hasty \in BOOLEAN

PayloadTypes ==
    payload \in [turn : Turns \cup {None}, cards : BOOLEAN,
                 processing : BOOLEAN, bridge : {"none", "audio"},
                 bridgeFailed : BOOLEAN, chunk : 0..Chunks, good : BOOLEAN,
                 slots : Seq({"READY", "FAILED"}), queue : Seq(Content)]

\* The payload is of the turn the backend serves.  The queue of a reply without
\* cards that lost no chunk has the chunks in their places.
PayloadInv ==
    /\ PayloadTypes
    /\ Len(payload.slots) <= reply.next - 1
    /\ Len(payload.slots) <= Chunks /\ Len(payload.queue) <= Chunks
    /\ ~reply.final => Len(payload.queue) <= reply.next - 1
    /\ reply.final => reply.next > Chunks
    /\ payload.turn \in Turns => payload.turn = reply.turn
    /\ reply.live => reply.turn \in Turns /\ payload.turn = reply.turn
    /\ payload.turn = None => payload = NoPayload /\ reply.turn \in tapped \cup {0}
    /\ payload.processing => /\ payload.turn \in Turns /\ payload.chunk = 0
                             /\ Len(payload.slots) = 0 /\ Len(payload.queue) = 0
                             /\ heard[payload.turn] = 0
    /\ payload.turn \in tapped => \E c \in cancels : payload.turn <= c
    /\ payload.turn \in Turns \ holed =>
         /\ \A i \in 1..Len(payload.queue) : payload.queue[i] = i
         /\ (~payload.cards /\ ~reply.final) => Len(payload.queue) = reply.next - 1

\* The screen knows of no turn the backend has not come to.
BoundInv(s) ==
    /\ s.owner \in Turns => s.owner <= reply.turn
    /\ s.previous \in Turns => s.previous <= reply.turn
    /\ s.sched.turn \in Turns => s.sched.turn <= reply.turn
    /\ s.gate.turn \in Turns => s.gate.turn <= reply.turn
    /\ s.streamTurn \in Turns => s.streamTurn <= reply.turn
    /\ (s.streamTurn \in Turns /\ s.streamTurn = payload.turn)
            => s.sched.turn = payload.turn
    /\ s.owner = None => asked \in tapped \cup {0}
    /\ (payload.processing /\ s.sched.turn = payload.turn)
            => Len(s.sched.clips) = 0
    /\ (s.owner = Pending /\ s.sched.turn \in Turns /\ s.previous \in Turns)
            => s.previous < s.sched.turn

\* A turn that was heard is not begun again: it has the scheduler, or the fence
\* has shut it out.
OnceInv(s) ==
    (reply.turn \in Turns \ tapped /\ heard[reply.turn] # 0) =>
        \/ s.owner = reply.turn /\ s.sched.turn = reply.turn
        \/ s.owner = Pending /\ s.previous = reply.turn

OrderInv(s) ==
    s.sched.turn \in Turns \ (holed \cup tapped) =>
        /\ heard[s.sched.turn] <= Len(s.sched.clips)
        /\ \A i \in 1..Len(s.sched.clips) :
             /\ s.sched.clips[i].status # "PENDING" => s.sched.clips[i].speaks = i
             /\ (i >= s.sched.playhead
                    /\ s.sched.clips[i].status \in {"PENDING", "READY"})
                        => heard[s.sched.turn] < i
        /\ s.voice.phase = "starting" => heard[s.sched.turn] < s.voice.seq
        /\ s.voice.phase = "sounding" => heard[s.sched.turn] = s.voice.seq

\* The fence, for a visitor who is not hasty: the screen awaits the first frame of
\* the last turn, or has given that turn everything, or the orb was tapped.
Awaiting(s) ==
    /\ s.owner = Pending /\ s.previous # asked /\ s.sched.turn = None
    /\ payload.turn \in {asked, s.previous, None}

Heeded(s) ==
    s.owner = asked /\ s.sched.turn = asked /\ payload.turn = asked

Interrupted(s) ==
    \/ s.owner = None
    \/ s.owner = asked /\ s.sched.turn = asked /\ payload.turn \in {asked, None}

FenceInv(s) ==
    ~hasty =>
        /\ asked = 0 => /\ s.owner = None /\ s.sched.turn = None
                        /\ payload.turn = None
        /\ asked \in Turns \ tapped => Awaiting(s) \/ Heeded(s)
        /\ asked \in tapped => Interrupted(s)

CalmInv ==
    ~hasty => /\ asked <= reply.turn + 1
              /\ asked \in Turns \ tapped => cancels = {}
              /\ payload.processing => payload.turn = asked

\* The screen has met the payload's turn.
Settled(s) ==
    (~hasty /\ asked \in Turns \ tapped /\ payload.turn = asked) => Heeded(s)

GateInv(s) ==
    /\ s.gate.turn = Pending => s.offered = None /\ s.thinking = None
    /\ ~hasty =>
         /\ asked \in Turns \ tapped => s.gate.turn \in {Pending, asked}
         /\ (s.gate.turn \notin tapped \cup {None} /\ s.thinking # None)
                => s.thinking = s.gate.turn
         /\ (s.gate.turn \notin tapped \cup {None} /\ ~s.gate.over)
                => s.gate.turn \in {s.gateTimer, s.thinking}

ReadyInv(s, due) ==
    (Startable(s.sched) # {} /\ ~hasty)
        => Blocked(s) \/ s.startDue \/ "clips" \in due

ContextInv == BackendInv /\ PayloadInv /\ CalmInv

TurnInv(s) == BoundInv(s) /\ OnceInv(s) /\ FenceInv(s)

ScreenInv(s) ==
    /\ FieldsInv(s) /\ SchedInv(s.sched) /\ SoundInv(s)
    /\ TurnInv(s) /\ OrderInv(s) /\ GateInv(s)

RenderInv == "payload" \in dirty \/ Settled(screen)

IInv == /\ ContextInv /\ ScreenInv(screen) /\ RenderInv
        /\ ReadyInv(screen, dirty)

-----------------------------------------------------------------------------
(* What the handlers do to the fields *)

LEMMA SilencedFields ==
    ASSUME NEW s, DOMAIN s = ScreenFields
    PROVE  /\ DOMAIN Silenced(s) = ScreenFields
           /\ Silenced(s).owner = s.owner
           /\ Silenced(s).previous = s.previous
           /\ Silenced(s).sched = s.sched
           /\ Silenced(s).streamTurn = s.streamTurn
           /\ Silenced(s).gate = s.gate
           /\ Silenced(s).gateTimer = s.gateTimer
           /\ Silenced(s).thinking = s.thinking
           /\ Silenced(s).offered = s.offered
           /\ Silenced(s).startDue = s.startDue
           /\ Silenced(s).voice = Silent
           /\ Silenced(s).guarded = FALSE
           /\ Silenced(s).shown = FALSE
BY DEF Silenced, ScreenFields

LEMMA TurnResetFields ==
    ASSUME NEW s, DOMAIN s = ScreenFields
    PROVE  /\ DOMAIN TurnReset(s) = ScreenFields
           /\ TurnReset(s).owner = Pending
           /\ TurnReset(s).previous =
                  IF s.owner \in Turns THEN s.owner ELSE s.previous
           /\ TurnReset(s).sched = NewTurn(None)
           /\ TurnReset(s).streamTurn = None
           /\ TurnReset(s).gate = s.gate
           /\ TurnReset(s).gateTimer = s.gateTimer
           /\ TurnReset(s).thinking = s.thinking
           /\ TurnReset(s).offered = s.offered
           /\ TurnReset(s).startDue = s.startDue
           /\ TurnReset(s).voice = Silent
           /\ TurnReset(s).guarded = FALSE
           /\ TurnReset(s).shown = FALSE
<1> DEFINE z == Silenced(s)
<1>1. /\ DOMAIN z = ScreenFields
      /\ z.previous = s.previous /\ z.gate = s.gate
      /\ z.gateTimer = s.gateTimer /\ z.thinking = s.thinking
      /\ z.offered = s.offered /\ z.startDue = s.startDue
      /\ z.voice = Silent /\ z.guarded = FALSE /\ z.shown = FALSE
  BY SilencedFields
<1>2. TurnReset(s) = [z EXCEPT !.streamTurn = None, !.sched = NewTurn(None),
                               !.previous = IF s.owner \in Turns THEN s.owner
                                                                 ELSE @,
                               !.owner = Pending]
  BY DEF TurnReset
<1> HIDE DEF z
<1> QED
  BY <1>1, <1>2 DEF ScreenFields

LEMMA SilentFacts ==
    /\ Silent.phase = "over"
    /\ Silent \in [turn : Turns \cup {None}, seq : Nat \ {0},
                   speaks : Content \cup {0},
                   phase : {"over", "starting", "sounding"}]
BY DEF Silent

LEMMA NewTurnFacts ==
    ASSUME NEW t
    PROVE  /\ NewTurn(t).turn = t
           /\ NewTurn(t).playhead = 1
           /\ NewTurn(t).clips = <<>>
           /\ Len(NewTurn(t).clips) = 0
           /\ Startable(NewTurn(t)) = {}
           /\ t \in Turns \cup {None} => SchedInv(NewTurn(t))
<1>1. /\ NewTurn(t).turn = t /\ NewTurn(t).playhead = 1
      /\ NewTurn(t).clips = <<>>
      /\ DOMAIN NewTurn(t) = {"turn", "playhead", "clips"}
  BY DEF NewTurn
<1>2. <<>> \in Seq(Clip) /\ Len(<<>>) = 0 /\ DOMAIN <<>> = {}
  OBVIOUS
<1>3. Startable(NewTurn(t)) = {}
  BY <1>1, <1>2 DEF Startable, Live
<1>4. t \in Turns \cup {None} => SchedInv(NewTurn(t))
  BY <1>1, <1>2 DEF SchedInv
<1> QED
  BY <1>1, <1>2, <1>3, <1>4

\* A clip gets another status.
Restatused(clips, i, status) ==
    [clips EXCEPT ![i] = [clips[i] EXCEPT !.status = status]]

StatusEffect(clips, i, status, c) ==
    /\ c \in Seq(Clip) /\ Len(c) = Len(clips)
    /\ c[i].status = status /\ c[i].speaks = clips[i].speaks
    /\ \A j \in 1..Len(clips) : j # i => c[j] = clips[j]

LEMMA StatusFacts ==
    ASSUME NEW clips \in Seq(Clip), NEW i \in 1..Len(clips),
           NEW status \in {"PENDING", "READY", "PLAYING"} \cup Over
    PROVE  StatusEffect(clips, i, status, Restatused(clips, i, status))
<1> DEFINE e == [clips[i] EXCEPT !.status = status]
           c == Restatused(clips, i, status)
<1>1. clips[i] \in Clip
  OBVIOUS
<1>2. e \in Clip /\ e.status = status /\ e.speaks = clips[i].speaks
  BY <1>1 DEF Clip
<1>3. c = [clips EXCEPT ![i] = e]
  BY DEF Restatused
<1> HIDE DEF e, c
<1>4. /\ c \in Seq(Clip)
      /\ Len(c) = Len(clips)
      /\ \A j \in 1..Len(clips) : c[j] = IF j = i THEN e ELSE clips[j]
  BY <1>2, <1>3, ExceptSeq
<1>5. /\ c[i].status = status /\ c[i].speaks = clips[i].speaks
      /\ \A j \in 1..Len(clips) : j # i => c[j] = clips[j]
  BY <1>2, <1>4
<1> QED
  BY <1>4, <1>5 DEF StatusEffect, c

\* Clip i is started: the fields of the screen afterwards, and the clip.
StartEffect(s, i, u) ==
    /\ DOMAIN u = ScreenFields
    /\ u.owner = IF s.owner = Pending THEN s.sched.turn ELSE s.owner
    /\ u.previous = s.previous /\ u.streamTurn = s.streamTurn
    /\ u.gate = s.gate /\ u.gateTimer = s.gateTimer
    /\ u.thinking = s.thinking /\ u.offered = s.offered
    /\ u.startDue = s.startDue /\ u.guarded = TRUE /\ u.shown = TRUE
    /\ u.voice \in [turn : {s.sched.turn}, seq : {i},
                    speaks : {s.sched.clips[i].speaks}, phase : {"starting"}]
    /\ DOMAIN u.sched = {"turn", "playhead", "clips"}
    /\ u.sched.turn = s.sched.turn
    /\ u.sched.playhead = i
    /\ u.sched.clips = Restatused(s.sched.clips, i, "PLAYING")

LEMMA StartFields ==
    ASSUME NEW s, DOMAIN s = ScreenFields, SchedInv(s.sched),
           NEW i \in 1..Len(s.sched.clips), ~Ignored(s, s.sched.turn)
    PROVE  StartEffect(s, i, Start(s, i))
<1> DEFINE u == Start(s, i)
           c == Restatused(s.sched.clips, i, "PLAYING")
           v == [turn |-> s.sched.turn, seq |-> i,
                 speaks |-> s.sched.clips[i].speaks, phase |-> "starting"]
<1>1. u = [s EXCEPT
            !.owner = IF s.owner = Pending THEN s.sched.turn ELSE @,
            !.voice = v,
            !.sched = [[@ EXCEPT !.clips = c] EXCEPT !.playhead = i],
            !.guarded = TRUE,
            !.shown = TRUE]
  BY DEF Start, ScreenFields, SchedInv, Restatused
<1>2. DOMAIN s.sched = {"turn", "playhead", "clips"}
  BY DEF SchedInv
<1>3. v \in [turn : {s.sched.turn}, seq : {i},
             speaks : {s.sched.clips[i].speaks}, phase : {"starting"}]
  OBVIOUS
<1> HIDE DEF u, c, v
<1>4. /\ DOMAIN u = ScreenFields
      /\ u.owner = IF s.owner = Pending THEN s.sched.turn ELSE s.owner
      /\ u.previous = s.previous /\ u.streamTurn = s.streamTurn
      /\ u.gate = s.gate /\ u.gateTimer = s.gateTimer
      /\ u.thinking = s.thinking /\ u.offered = s.offered
      /\ u.startDue = s.startDue /\ u.guarded = TRUE /\ u.shown = TRUE
      /\ u.voice = v
      /\ u.sched = [[s.sched EXCEPT !.clips = c] EXCEPT !.playhead = i]
  BY <1>1 DEF ScreenFields
<1>5. /\ DOMAIN u.sched = {"turn", "playhead", "clips"}
      /\ u.sched.turn = s.sched.turn /\ u.sched.playhead = i
      /\ u.sched.clips = c
  BY <1>2, <1>4
<1> QED
  BY <1>3, <1>4, <1>5 DEF StartEffect, u, c

\* What may be played: the clips before it are over, and none is playing.
LEMMA StartableFacts ==
    ASSUME NEW sched, SchedInv(sched), NEW i \in Startable(sched)
    PROVE  /\ i \in 1..Len(sched.clips)
           /\ i >= sched.playhead
           /\ sched.clips[i].status = "READY"
           /\ sched.turn \in Turns
           /\ ~Playing(sched)
           /\ \A j \in 1..Len(sched.clips) :
                j < i => sched.clips[j].status \in Over
<1>1. DOMAIN sched.clips = 1..Len(sched.clips) /\ Len(sched.clips) \in Nat
  BY DEF SchedInv
<1>2. /\ i \in 1..Len(sched.clips) /\ i >= sched.playhead
      /\ sched.clips[i].status = "READY"
      /\ \A j \in Live(sched) : i <= j
  BY <1>1 DEF Startable, Live
<1>3. sched.turn \in Turns
  BY <1>2, <1>1 DEF SchedInv
<1>4. ASSUME NEW j \in 1..Len(sched.clips), sched.clips[j].status = "PLAYING"
      PROVE  FALSE
  <2>1. j = sched.playhead
    BY <1>4 DEF SchedInv
  <2>2. j \in Live(sched)
    BY <2>1, <1>1, <1>4 DEF Live, SchedInv
  <2> QED
    BY <1>2, <1>4, <2>1, <2>2 DEF SchedInv
<1>5. ASSUME NEW j \in 1..Len(sched.clips), j < i
      PROVE  sched.clips[j].status \in Over
  <2>1. j \notin Live(sched)
    BY <1>2, <1>5 DEF SchedInv
  <2>2. sched.clips[j] \in Clip /\ sched.playhead \in Nat
    BY DEF SchedInv
  <2> QED
    BY <2>1, <2>2, <1>1 DEF Live, SchedInv, Clip
<1> QED
  BY <1>1, <1>2, <1>3, <1>4, <1>5 DEF Playing

\* completeClip for the clip at the playhead.
LEMMA CompletedFacts ==
    ASSUME NEW sched, SchedInv(sched), NEW i \in 1..Len(sched.clips),
           sched.clips[i].status = "PLAYING", NEW status \in Over
    PROVE  /\ SchedInv(Completed(sched, i, status))
           /\ Completed(sched, i, status).turn = sched.turn
           /\ Completed(sched, i, status).playhead = i + 1
           /\ Completed(sched, i, status).clips =
                Restatused(sched.clips, i, status)
<1> DEFINE c == Restatused(sched.clips, i, status)
           u == Completed(sched, i, status)
<1>1. /\ DOMAIN sched = {"turn", "playhead", "clips"} /\ sched.clips \in Seq(Clip)
      /\ i = sched.playhead /\ DOMAIN sched.clips = 1..Len(sched.clips)
  BY DEF SchedInv
<1>2. u = [sched EXCEPT !.clips = c, !.playhead = i + 1]
  BY <1>1 DEF Completed, Restatused
<1>3. /\ c \in Seq(Clip) /\ Len(c) = Len(sched.clips)
      /\ c[i].status = status /\ c[i].speaks = sched.clips[i].speaks
      /\ \A j \in 1..Len(sched.clips) : j # i => c[j] = sched.clips[j]
  <2>1. status \in {"PENDING", "READY", "PLAYING"} \cup Over
    OBVIOUS
  <2>2. sched.clips \in Seq(Clip)
    BY <1>1
  <2> QED
    BY <2>1, <2>2, StatusFacts DEF StatusEffect
<1> HIDE DEF u, c
<1>4. /\ DOMAIN u = {"turn", "playhead", "clips"} /\ u.turn = sched.turn
      /\ u.clips = c /\ u.playhead = i + 1
  BY <1>1, <1>2
<1>5. u.playhead \in 1..(Len(u.clips) + 1)
  BY <1>3, <1>4, <1>1
<1>6. ASSUME NEW j \in 1..Len(u.clips)
      PROVE  /\ j < u.playhead => u.clips[j].status \in Over
             /\ u.clips[j].status = "PLAYING" => j = u.playhead
  BY <1>1, <1>3, <1>4 DEF SchedInv, Over
<1>7. SchedInv(u)
  BY <1>1, <1>3, <1>4, <1>5, <1>6 DEF SchedInv
<1> QED
  BY <1>3, <1>4, <1>7 DEF u, c

-----------------------------------------------------------------------------
(* The handlers keep the invariant of the screen *)

\* A clip is started: it is then the one that is on.
LEMMA StartKeeps ==
    ASSUME ContextInv, NEW s, ScreenInv(s), NEW i \in Startable(s.sched),
           ~Ignored(s, s.sched.turn), ~Blocked(s)
    PROVE  /\ ScreenInv(Start(s, i))
           /\ Settled(s) => Settled(Start(s, i))
           /\ Startable(Start(s, i).sched) = {}
<1> DEFINE u == Start(s, i)
<1>1. /\ i \in 1..Len(s.sched.clips) /\ i >= s.sched.playhead
      /\ s.sched.clips[i].status = "READY" /\ s.sched.turn \in Turns
      /\ ~Playing(s.sched)
      /\ \A j \in 1..Len(s.sched.clips) :
            j < i => s.sched.clips[j].status \in Over
  BY StartableFacts DEF ScreenInv
<1>0. DOMAIN s = ScreenFields /\ SchedInv(s.sched)
  BY DEF ScreenInv, FieldsInv
<1>2. StartEffect(s, i, u)
  <2>1. i \in 1..Len(s.sched.clips)
    BY <1>1
  <2> QED
    BY <1>0, <2>1, StartFields
<1>4. /\ u.sched.clips \in Seq(Clip)
      /\ Len(u.sched.clips) = Len(s.sched.clips)
      /\ u.sched.clips[i].status = "PLAYING"
      /\ u.sched.clips[i].speaks = s.sched.clips[i].speaks
      /\ \A j \in 1..Len(s.sched.clips) :
            j # i => u.sched.clips[j] = s.sched.clips[j]
  <2>1. s.sched.clips \in Seq(Clip)
    BY <1>0 DEF SchedInv
  <2>2. "PLAYING" \in {"PENDING", "READY", "PLAYING"} \cup Over
    OBVIOUS
  <2>3. i \in 1..Len(s.sched.clips)
    BY <1>1
  <2>4. StatusEffect(s.sched.clips, i, "PLAYING", u.sched.clips)
    BY <1>2, <2>1, <2>2, <2>3, StatusFacts DEF StartEffect
  <2> QED
    BY <2>4 DEF StatusEffect
<1>5. /\ s.sched.clips \in Seq(Clip) /\ Len(s.sched.clips) \in Nat
      /\ DOMAIN s.sched.clips = 1..Len(s.sched.clips)
      /\ \A j \in 1..Len(s.sched.clips) :
            s.sched.clips[j].status # "PLAYING"
  BY <1>1 DEF ScreenInv, SchedInv, Playing
<1>6. s.sched.clips[i].speaks \in Content \cup {0}
  <2>1. s.sched.clips[i] \in Clip
    BY <1>1, <1>5
  <2> QED
    BY <2>1 DEF Clip
<1>7. /\ u.voice.turn = s.sched.turn /\ u.voice.seq = i
      /\ u.voice.speaks = s.sched.clips[i].speaks /\ u.voice.phase = "starting"
      /\ u.voice \in [turn : Turns \cup {None}, seq : Nat \ {0},
                      speaks : Content \cup {0},
                      phase : {"over", "starting", "sounding"}]
  BY <1>1, <1>2, <1>4, <1>6 DEF StartEffect
<1>8. s.owner = Pending => s.sched.turn # s.previous
  BY DEF Ignored
<1>9. FieldsInv(u)
  BY <1>1, <1>2, <1>4, <1>7 DEF FieldsInv, ScreenInv, StartEffect
<1>10. SchedInv(u.sched)
  <2>1. \A j \in 1..Len(u.sched.clips) :
           /\ j < u.sched.playhead => u.sched.clips[j].status \in Over
           /\ u.sched.clips[j].status = "PLAYING" => j = u.sched.playhead
    BY <1>1, <1>2, <1>4, <1>5 DEF StartEffect
  <2>2. u.sched.playhead \in 1..(Len(u.sched.clips) + 1)
    BY <1>1, <1>2, <1>4, <1>5 DEF StartEffect
  <2> QED
    BY <2>1, <2>2, <1>1, <1>2, <1>4 DEF SchedInv, Turns, StartEffect
<1>11. SoundInv(u)
  <2>1. ~Blocked(u)
    BY <1>2, <1>4 DEF Blocked, StartEffect
  <2>2. u.owner \in {None, u.sched.turn}
    BY <1>1, <1>2, <1>4 DEF Ignored, ScreenInv, FieldsInv, StartEffect
  <2> QED
    BY <2>1, <2>2, <1>1, <1>2, <1>4, <1>7 DEF SoundInv, StartEffect
<1>12. BoundInv(u)
  <2>1. (payload.processing /\ u.sched.turn = payload.turn) => FALSE
    BY <1>1, <1>2, <1>4 DEF ScreenInv, TurnInv, BoundInv, StartEffect
  <2> QED
    BY <2>1, <1>1, <1>2, <1>4, <1>8 DEF ScreenInv, TurnInv, BoundInv, Turns, StartEffect
<1>13. OnceInv(u)
  <2>1. BoundInv(s) /\ OnceInv(s)
    BY DEF ScreenInv, TurnInv
  <2>2. CASE s.owner = Pending /\ s.previous = reply.turn /\ reply.turn \in Turns
    BY <2>1, <2>2, <1>1 DEF BoundInv, Turns
  <2> QED
    BY <2>1, <2>2, <1>1, <1>2, <1>4 DEF OnceInv, StartEffect
<1>14. FenceInv(u) /\ (Settled(s) => Settled(u))
  <2>1. ~hasty => s.owner # Pending
    BY <1>1 DEF ScreenInv, TurnInv, FenceInv, Awaiting, Heeded, Interrupted,
                ContextInv, BackendInv, Turns
  <2> QED
    BY <2>1, <1>2, <1>4 DEF ScreenInv, TurnInv, FenceInv, Awaiting, Heeded,
                      Interrupted, Settled, StartEffect
<1>15. OrderInv(u)
  <2> SUFFICES ASSUME u.sched.turn \in Turns \ (holed \cup tapped)
               PROVE  /\ heard[s.sched.turn] <= Len(u.sched.clips)
                      /\ \A j \in 1..Len(u.sched.clips) :
                           /\ u.sched.clips[j].status # "PENDING"
                                => u.sched.clips[j].speaks = j
                           /\ (j >= i /\ u.sched.clips[j].status \in {"PENDING", "READY"})
                                => heard[s.sched.turn] < j
                      /\ heard[s.sched.turn] < i
    BY <1>2, <1>4, <1>7 DEF OrderInv, StartEffect
  <2>1. OrderInv(s) /\ s.sched.turn \in Turns \ (holed \cup tapped)
    BY <1>2, <1>4 DEF ScreenInv, StartEffect
  <2>2. /\ heard[s.sched.turn] <= Len(s.sched.clips)
        /\ heard[s.sched.turn] < i
        /\ s.sched.clips[i].speaks = i
        /\ \A j \in 1..Len(s.sched.clips) :
             /\ s.sched.clips[j].status # "PENDING" => s.sched.clips[j].speaks = j
             /\ (j >= s.sched.playhead
                    /\ s.sched.clips[j].status \in {"PENDING", "READY"})
                        => heard[s.sched.turn] < j
    BY <2>1, <1>1 DEF OrderInv
  <2>3. s.sched.playhead \in Nat
    BY <1>5 DEF ScreenInv, SchedInv
  <2>4. ASSUME NEW j \in 1..Len(u.sched.clips)
        PROVE  /\ u.sched.clips[j].status # "PENDING" => u.sched.clips[j].speaks = j
               /\ (j >= i /\ u.sched.clips[j].status \in {"PENDING", "READY"})
                    => heard[s.sched.turn] < j
    BY <2>2, <2>3, <1>1, <1>4
  <2> QED
    BY <2>2, <2>4, <1>4
<1>16. GateInv(u)
  BY <1>2, <1>4 DEF ScreenInv, GateInv, StartEffect
<1>17. Startable(u.sched) = {}
  <2>1. DOMAIN u.sched.clips = 1..Len(s.sched.clips)
    BY <1>2, <1>4 DEF StartEffect
  <2>2. i \in Live(u.sched)
    BY <1>1, <1>2, <1>4, <2>1 DEF Live, StartEffect
  <2>3. ASSUME NEW j \in Startable(u.sched)
        PROVE  FALSE
    <3>1. /\ j \in 1..Len(s.sched.clips) /\ j >= i /\ j <= i
          /\ u.sched.clips[j].status = "READY"
      BY <2>1, <2>2, <2>3, <1>2, <1>4 DEF Startable, Live, StartEffect
    <3>2. j = i
      BY <3>1, <1>1
    <3> QED
      BY <3>1, <3>2, <1>2, <1>4 DEF StartEffect
  <2> QED
    BY <2>3
<1> QED
  BY <1>9, <1>10, <1>11, <1>12, <1>13, <1>14, <1>15, <1>16, <1>17
     DEF ScreenInv, TurnInv, u

\* Nothing that could be played is left.
Moved(s) == ~hasty => Startable(s.sched) = {} \/ Blocked(s)

LEMMA PlayKeeps ==
    ASSUME ContextInv, NEW s, ScreenInv(s)
    PROVE  /\ ScreenInv(PlayQueued(s))
           /\ Settled(s) => Settled(PlayQueued(s))
           /\ Moved(PlayQueued(s))
<1>1. CASE Blocked(s) \/ Startable(s.sched) = {}
  <2>1. PlayQueued(s) = s
    BY <1>1 DEF PlayQueued
  <2> QED
    BY <1>1, <2>1 DEF Moved
<1>2. CASE ~Blocked(s) /\ Startable(s.sched) # {}
  <2> DEFINE i == CHOOSE j \in Startable(s.sched) : TRUE
  <2>1. PlayQueued(s) = Start(s, i) /\ i \in Startable(s.sched)
    BY <1>2 DEF PlayQueued
  <2> HIDE DEF i
  <2>2. CASE Ignored(s, s.sched.turn)
    <3>1. PlayQueued(s) = s
      BY <2>1, <2>2 DEF Start
    <3>2. s.sched.turn \in Turns
      BY <2>1, StartableFacts DEF ScreenInv
    <3>3. ~hasty => ~Ignored(s, s.sched.turn)
      BY <3>2 DEF ScreenInv, TurnInv, FenceInv, Awaiting, Heeded, Interrupted,
                  Ignored, ContextInv, BackendInv, Turns
    <3> QED
      BY <2>2, <3>1, <3>3 DEF Moved
  <2>3. CASE ~Ignored(s, s.sched.turn)
    BY <1>2, <2>1, <2>3, StartKeeps DEF Moved
  <2> QED
    BY <2>2, <2>3
<1> QED
  BY <1>1, <1>2

\* A clip that was on is over: the next one may follow.
FinishEffect(s, status, z) ==
    /\ DOMAIN z = ScreenFields
    /\ z.owner = s.owner /\ z.previous = s.previous
    /\ z.streamTurn = s.streamTurn
    /\ z.gate = s.gate /\ z.gateTimer = s.gateTimer
    /\ z.thinking = s.thinking /\ z.offered = s.offered
    /\ z.startDue = s.startDue /\ z.guarded = FALSE /\ z.shown = FALSE
    /\ z.voice.phase = "over"
    /\ z.voice \in [turn : Turns \cup {None}, seq : Nat \ {0},
                    speaks : Content \cup {0},
                    phase : {"over", "starting", "sounding"}]
    /\ z.sched = Completed(s.sched, s.voice.seq, status)

LEMMA FinishFields ==
    ASSUME NEW s, FieldsInv(s), NEW status
    PROVE  \E z : /\ FinishEffect(s, status, z)
                  /\ Finished([s EXCEPT !.voice.phase = "over"], s.voice.seq,
                              status) = PlayQueued(z)
<1> DEFINE v == [s.voice EXCEPT !.phase = "over"]
           y == [s EXCEPT !.voice = v]
           z == [y EXCEPT !.guarded = FALSE, !.shown = FALSE,
                          !.sched = Completed(y.sched, s.voice.seq, status)]
<1>1. [s EXCEPT !.voice.phase = "over"] = y
  BY DEF FieldsInv, ScreenFields
<1>2. Finished(y, s.voice.seq, status) = PlayQueued(z)
  BY DEF Finished
<1>3. /\ v.phase = "over"
      /\ v \in [turn : Turns \cup {None}, seq : Nat \ {0},
                speaks : Content \cup {0},
                phase : {"over", "starting", "sounding"}]
  BY DEF FieldsInv
<1> HIDE DEF v
<1>4. /\ DOMAIN y = ScreenFields
      /\ y.owner = s.owner /\ y.previous = s.previous
      /\ y.streamTurn = s.streamTurn
      /\ y.gate = s.gate /\ y.gateTimer = s.gateTimer
      /\ y.thinking = s.thinking /\ y.offered = s.offered
      /\ y.startDue = s.startDue /\ y.voice = v /\ y.sched = s.sched
  BY DEF FieldsInv, ScreenFields
<1> HIDE DEF y
<1>5. /\ DOMAIN z = ScreenFields
      /\ z.owner = y.owner /\ z.previous = y.previous
      /\ z.streamTurn = y.streamTurn
      /\ z.gate = y.gate /\ z.gateTimer = y.gateTimer
      /\ z.thinking = y.thinking /\ z.offered = y.offered
      /\ z.startDue = y.startDue /\ z.voice = y.voice
      /\ z.guarded = FALSE /\ z.shown = FALSE
      /\ z.sched = Completed(y.sched, s.voice.seq, status)
  BY <1>4 DEF ScreenFields
<1> HIDE DEF z
<1>6. FinishEffect(s, status, z)
  BY <1>3, <1>4, <1>5 DEF FinishEffect
<1> QED
  BY <1>1, <1>2, <1>6

LEMMA FinishKeeps ==
    ASSUME ContextInv, NEW s, ScreenInv(s), Sounding(s), NEW status \in Over,
           NEW z, FinishEffect(s, status, z)
    PROVE  ScreenInv(z) /\ (Settled(s) => Settled(z))
<1> DEFINE i == s.voice.seq
<1>1. /\ i \in 1..Len(s.sched.clips) /\ s.sched.clips[i].status = "PLAYING"
      /\ i = s.sched.playhead /\ SchedInv(s.sched)
  BY DEF ScreenInv, SoundInv
<1> HIDE DEF i
<1>2. /\ SchedInv(z.sched) /\ z.sched.turn = s.sched.turn
      /\ z.sched.playhead = i + 1
      /\ z.sched.clips = Restatused(s.sched.clips, i, status)
  BY <1>1, CompletedFacts DEF FinishEffect, i
<1>3. /\ s.sched.clips \in Seq(Clip)
      /\ Len(s.sched.clips) \in Nat /\ i \in Nat
  BY <1>1 DEF SchedInv
<1>4. /\ Len(z.sched.clips) = Len(s.sched.clips)
      /\ z.sched.clips[i].status = status
      /\ z.sched.clips[i].speaks = s.sched.clips[i].speaks
      /\ \A j \in 1..Len(s.sched.clips) :
            j # i => z.sched.clips[j] = s.sched.clips[j]
  <2>1. status \in {"PENDING", "READY", "PLAYING"} \cup Over
    OBVIOUS
  <2>2. StatusEffect(s.sched.clips, i, status, z.sched.clips)
    BY <1>1, <1>2, <1>3, <2>1, StatusFacts
  <2> QED
    BY <2>2 DEF StatusEffect
<1>5. FieldsInv(z)
  BY DEF FinishEffect, ScreenInv, FieldsInv
<1>6. SoundInv(z)
  BY DEF SoundInv, Sounding, FinishEffect
<1>7. TurnInv(z) /\ (Settled(s) => Settled(z))
  BY <1>2, <1>4 DEF ScreenInv, TurnInv, BoundInv, OnceInv, FenceInv, Awaiting,
                    Heeded, Interrupted, Settled, FinishEffect
<1>8. OrderInv(z)
  <2> SUFFICES ASSUME z.sched.turn \in Turns \ (holed \cup tapped)
               PROVE  /\ heard[s.sched.turn] <= Len(s.sched.clips)
                      /\ \A j \in 1..Len(s.sched.clips) :
                           /\ z.sched.clips[j].status # "PENDING"
                                => z.sched.clips[j].speaks = j
                           /\ (j >= i + 1 /\ z.sched.clips[j].status
                                                \in {"PENDING", "READY"})
                                => heard[s.sched.turn] < j
    BY <1>2, <1>4 DEF OrderInv, FinishEffect
  <2>1. /\ heard[s.sched.turn] <= Len(s.sched.clips)
        /\ \A j \in 1..Len(s.sched.clips) :
             /\ s.sched.clips[j].status # "PENDING" => s.sched.clips[j].speaks = j
             /\ (j >= i /\ s.sched.clips[j].status \in {"PENDING", "READY"})
                    => heard[s.sched.turn] < j
    BY <1>1, <1>2 DEF OrderInv, ScreenInv
  <2>2. ASSUME NEW j \in 1..Len(s.sched.clips)
        PROVE  /\ z.sched.clips[j].status # "PENDING" => z.sched.clips[j].speaks = j
               /\ (j >= i + 1 /\ z.sched.clips[j].status \in {"PENDING", "READY"})
                    => heard[s.sched.turn] < j
    BY <1>1, <1>3, <1>4, <2>1
  <2> QED
    BY <2>1, <2>2
<1>9. GateInv(z)
  BY DEF FinishEffect, ScreenInv, GateInv
<1> QED
  BY <1>2, <1>5, <1>6, <1>7, <1>8, <1>9 DEF ScreenInv

\* The thinking sentence is over and the gate of turn t, if it is that turn's, is
\* open; the gate's watchdog is left, or cleared.
ReleaseEffect(s, t, timer, z) ==
    /\ DOMAIN z = ScreenFields
    /\ z.owner = s.owner /\ z.previous = s.previous /\ z.sched = s.sched
    /\ z.streamTurn = s.streamTurn /\ z.voice = s.voice
    /\ z.offered = s.offered /\ z.guarded = s.guarded /\ z.shown = s.shown
    /\ z.startDue = s.startDue
    /\ z.thinking = None /\ z.gateTimer = timer
    /\ z.gate.turn = s.gate.turn
    /\ z.gate.over = (s.gate.over \/ s.gate.turn = t)
    /\ z.gate \in [turn : Turns \cup {None, Pending}, over : BOOLEAN]

LEMMA ReleasedFacts ==
    ASSUME NEW gate \in [turn : Turns \cup {None, Pending}, over : BOOLEAN], NEW t
    PROVE  /\ Released(gate, t) \in [turn : Turns \cup {None, Pending}, over : BOOLEAN]
           /\ Released(gate, t).turn = gate.turn
           /\ Released(gate, t).over = (gate.over \/ gate.turn = t)
<1>1. gate.over \in BOOLEAN
  OBVIOUS
<1>2. CASE gate.turn = t
  <2>1. Released(gate, t) = [gate EXCEPT !.over = TRUE]
    BY <1>2 DEF Released
  <2>2. /\ Released(gate, t) \in [turn : Turns \cup {None, Pending}, over : BOOLEAN]
        /\ Released(gate, t).turn = gate.turn
        /\ Released(gate, t).over = TRUE
    BY <2>1
  <2> QED
    BY <1>2, <2>2
<1>3. CASE gate.turn # t
  <2>1. Released(gate, t) = gate
    BY <1>3 DEF Released
  <2>2. gate.over = (gate.over \/ gate.turn = t)
    BY <1>1, <1>3, Zenon
  <2> QED
    BY <2>1, <2>2
<1> QED
  BY <1>2, <1>3

LEMMA ReleaseKeeps ==
    ASSUME ContextInv, NEW s, ScreenInv(s), NEW t, NEW timer \in {None, s.gateTimer},
           NEW z, ReleaseEffect(s, t, timer, z), GateInv(z)
    PROVE  ScreenInv(z) /\ (Settled(s) => Settled(z))
<1>1. FieldsInv(z)
  BY DEF ReleaseEffect, ScreenInv, FieldsInv
<1>2. SoundInv(z)
  <2>1. Sounding(z) => Sounding(s)
    BY DEF Sounding, ReleaseEffect
  <2>2. Blocked(z) => Blocked(s)
    BY DEF Blocked, ReleaseEffect
  <2> QED
    BY <2>1, <2>2 DEF SoundInv, ReleaseEffect, ScreenInv
<1>3. TurnInv(z) /\ (Settled(s) => Settled(z))
  BY DEF ScreenInv, TurnInv, BoundInv, OnceInv, FenceInv, Awaiting, Heeded,
         Interrupted, Settled, ReleaseEffect
<1>4. OrderInv(z) /\ SchedInv(z.sched)
  BY DEF ScreenInv, OrderInv, ReleaseEffect
<1> QED
  BY <1>1, <1>2, <1>3, <1>4 DEF ScreenInv

\* The timer of the clips effect has fired, or the gate's watchdog is not needed.
LEMMA TimersKeep ==
    ASSUME ContextInv, NEW s, ScreenInv(s), NEW due \in BOOLEAN,
           NEW timer \in {None, s.gateTimer},
           NEW z, DOMAIN z = ScreenFields, z.owner = s.owner,
           z.previous = s.previous, z.sched = s.sched,
           z.streamTurn = s.streamTurn, z.gate = s.gate,
           z.thinking = s.thinking, z.offered = s.offered, z.voice = s.voice,
           z.guarded = s.guarded, z.shown = s.shown,
           z.gateTimer = timer, z.startDue = due, GateInv(z)
    PROVE  ScreenInv(z) /\ (Settled(s) => Settled(z))
<1>1. FieldsInv(z)
  BY DEF ScreenInv, FieldsInv
<1>2. SoundInv(z)
  BY DEF SoundInv, Sounding, Blocked, ScreenInv
<1>3. TurnInv(z) /\ (Settled(s) => Settled(z))
  BY DEF ScreenInv, TurnInv, BoundInv, OnceInv, FenceInv, Awaiting, Heeded,
         Interrupted, Settled
<1>4. OrderInv(z) /\ SchedInv(z.sched)
  BY DEF ScreenInv, OrderInv
<1> QED
  BY <1>1, <1>2, <1>3, <1>4 DEF ScreenInv

-----------------------------------------------------------------------------
(* The clips a payload brings *)

PaddedEffect(clips, n, c) ==
    /\ c \in Seq(Clip)
    /\ DOMAIN c = 1..Len(c)
    /\ Len(c) = IF Len(clips) < n THEN n ELSE Len(clips)
    /\ \A i \in 1..Len(c) :
         c[i] = IF i <= Len(clips) THEN clips[i] ELSE NoClip

LEMMA PaddedFacts ==
    ASSUME NEW clips \in Seq(Clip), NEW n \in Nat
    PROVE  PaddedEffect(clips, n, Padded(clips, n))
<1> DEFINE m == IF Len(clips) < n THEN n ELSE Len(clips)
           c == Padded(clips, n)
<1>1. m \in Nat /\ Len(clips) \in Nat /\ Len(clips) <= m
  OBVIOUS
<1>2. NoClip \in Clip
  BY DEF NoClip, Clip
<1>3. c = [i \in 1..m |-> IF i <= Len(clips) THEN clips[i] ELSE NoClip]
  BY DEF Padded
<1> HIDE DEF m, c
<1>4. \A i \in 1..m : (IF i <= Len(clips) THEN clips[i] ELSE NoClip) \in Clip
  BY <1>1, <1>2
<1>5. c \in [1..m -> Clip]
  BY <1>3, <1>4
<1>6. c \in Seq(Clip) /\ Len(c) = m /\ DOMAIN c = 1..m
  BY <1>1, <1>5
<1>7. \A i \in 1..m : c[i] = IF i <= Len(clips) THEN clips[i] ELSE NoClip
  BY <1>3
<1> QED
  BY <1>6, <1>7 DEF PaddedEffect, c, m

\* A slot is filled once.
FilledEffect(clips, i, status, content, c) ==
    /\ c \in Seq(Clip)
    /\ Len(c) = Len(clips)
    /\ \A j \in 1..Len(clips) :
         IF j = i /\ clips[j].status = "PENDING"
         THEN c[j].status = status /\ c[j].speaks = content
         ELSE c[j] = clips[j]

LEMMA FilledFacts ==
    ASSUME NEW clips \in Seq(Clip), NEW i \in 1..Len(clips),
           NEW status \in {"PENDING", "READY", "PLAYING"} \cup Over,
           NEW content \in Content \cup {0}
    PROVE  FilledEffect(clips, i, status, content,
                        Filled(clips, i, status, content))
<1> DEFINE e == [status |-> status, speaks |-> content]
           c == Filled(clips, i, status, content)
<1>1. e \in Clip /\ e.status = status /\ e.speaks = content
  BY DEF Clip
<1>2. CASE clips[i].status # "PENDING"
  <2>1. c = clips
    BY <1>2 DEF Filled
  <2> HIDE DEF c, e
  <2> QED
    BY <1>2, <2>1 DEF FilledEffect, c
<1>3. CASE clips[i].status = "PENDING"
  <2>1. c = [clips EXCEPT ![i] = e]
    BY <1>3 DEF Filled
  <2> HIDE DEF c, e
  <2>2. /\ c \in Seq(Clip)
        /\ Len(c) = Len(clips)
        /\ \A j \in 1..Len(clips) : c[j] = IF j = i THEN e ELSE clips[j]
    BY <1>1, <2>1, ExceptSeq
  <2>3. FilledEffect(clips, i, status, content, c)
    BY <1>1, <1>3, <2>2 DEF FilledEffect
  <2> QED
    BY <2>3 DEF c
<1> QED
  BY <1>2, <1>3

\* No clip is lost, and a clip that is not PENDING is left as it is.  When the
\* chunks stand in their places each new clip speaks the content of its place.
IngestEffect(clips, p, c) ==
    /\ c \in Seq(Clip)
    /\ Len(clips) <= Len(c)
    /\ (p.chunk = 0 /\ Len(p.slots) = 0 /\ Len(p.queue) = 0) => Len(c) = Len(clips)
    /\ \A i \in 1..Len(c) :
         \/ i <= Len(clips) /\ c[i] = clips[i]
         \/ /\ i <= Len(clips) => clips[i].status = "PENDING"
            /\ c[i].status \in {"PENDING", "READY", "FAILED"}
            /\ ((\A j \in 1..Len(p.queue) : p.queue[j] = j)
                    /\ c[i].status # "PENDING") => c[i].speaks = i

LEMMA IngestFacts ==
    ASSUME PayloadTypes, Len(payload.slots) <= Chunks, Len(payload.queue) <= Chunks,
           NEW clips \in Seq(Clip)
    PROVE  IngestEffect(clips, payload, Ingested(clips, payload))
<1> DEFINE p == payload
           direct == IF p.chunk = 0 THEN clips
                     ELSE Filled(Padded(clips, Chunks), p.chunk,
                                 IF p.good THEN "READY" ELSE "FAILED", p.chunk)
           again == IF p.cards
                    THEN [i \in DOMAIN p.slots |->
                            [status |-> p.slots[i], speaks |-> i]]
                    ELSE [i \in DOMAIN p.queue |->
                            [status |-> "READY", speaks |-> p.queue[i]]]
           n == IF p.cards THEN Len(p.slots) ELSE Len(p.queue)
           padded == Padded(direct, Len(again))
           c == Ingested(clips, p)
           inPlace == \A j \in 1..Len(p.queue) : p.queue[j] = j
<1>1. /\ p.slots \in Seq({"READY", "FAILED"}) /\ p.queue \in Seq(Content)
      /\ p.chunk \in 0..Chunks /\ p.cards \in BOOLEAN /\ p.good \in BOOLEAN
      /\ DOMAIN p.slots = 1..Len(p.slots) /\ DOMAIN p.queue = 1..Len(p.queue)
      /\ Len(p.slots) \in 0..Chunks /\ Len(p.queue) \in 0..Chunks
      /\ Len(clips) \in Nat /\ DOMAIN clips = 1..Len(clips)
  BY DEF PayloadTypes
<1>2. /\ direct \in Seq(Clip)
      /\ Len(clips) <= Len(direct)
      /\ p.chunk = 0 => Len(direct) = Len(clips)
      /\ \A i \in 1..Len(direct) :
           \/ i <= Len(clips) /\ direct[i] = clips[i]
           \/ /\ i <= Len(clips) => clips[i].status = "PENDING"
              /\ direct[i].status \in {"PENDING", "READY", "FAILED"}
              /\ direct[i].status # "PENDING" => direct[i].speaks = i
  <2>1. CASE p.chunk = 0
    BY <1>1, <2>1
  <2>2. CASE p.chunk # 0
    <3> DEFINE q == Padded(clips, Chunks)
               st == IF p.good THEN "READY" ELSE "FAILED"
    <3>1. direct = Filled(q, p.chunk, st, p.chunk)
      BY <2>2
    <3>2. PaddedEffect(clips, Chunks, q)
      BY PaddedFacts
    <3>3. st \in {"READY", "FAILED"} /\ st \in {"PENDING", "READY", "PLAYING"} \cup Over
      BY DEF Over
    <3> HIDE DEF q, st, direct
    <3>4. p.chunk \in 1..Len(q) /\ p.chunk \in Content \cup {0}
      BY <1>1, <2>2, <3>2 DEF PaddedEffect, Content, Index
    <3>5. q \in Seq(Clip) /\ Len(q) \in Nat
      BY <3>2 DEF PaddedEffect
    <3>6. FilledEffect(q, p.chunk, st, p.chunk, direct)
      BY <3>1, <3>3, <3>4, <3>5, FilledFacts
    <3>7. /\ direct \in Seq(Clip) /\ Len(direct) = Len(q)
          /\ Len(clips) <= Len(direct)
      BY <1>1, <3>2, <3>6 DEF FilledEffect, PaddedEffect
    <3>8. ASSUME NEW i \in 1..Len(direct)
          PROVE  \/ i <= Len(clips) /\ direct[i] = clips[i]
                 \/ /\ i <= Len(clips) => clips[i].status = "PENDING"
                    /\ direct[i].status \in {"PENDING", "READY", "FAILED"}
                    /\ direct[i].status # "PENDING" => direct[i].speaks = i
      <4>1. q[i] = IF i <= Len(clips) THEN clips[i] ELSE NoClip
        BY <3>2, <3>7 DEF PaddedEffect
      <4>2. NoClip.status = "PENDING"
        BY DEF NoClip
      <4>3. CASE i = p.chunk /\ q[i].status = "PENDING"
        <5>1. direct[i].status = st /\ direct[i].speaks = i
          BY <3>6, <3>7, <4>3 DEF FilledEffect
        <5> QED
          BY <4>1, <4>3, <5>1, <3>3
      <4>4. CASE ~(i = p.chunk /\ q[i].status = "PENDING")
        <5>1. direct[i] = q[i]
          BY <3>6, <3>7, <4>4 DEF FilledEffect
        <5> QED
          BY <4>1, <4>2, <5>1
      <4> QED
        BY <4>3, <4>4
    <3> QED
      BY <2>2, <3>7, <3>8
  <2> QED
    BY <2>1, <2>2
<1>3. /\ n \in 0..Chunks /\ again \in Seq(Clip) /\ Len(again) = n
      /\ DOMAIN again = 1..n
      /\ \A i \in 1..n : /\ again[i].status \in {"READY", "FAILED"}
                         /\ again[i].speaks \in Content
                         /\ inPlace => again[i].speaks = i
  <2>1. CASE p.cards
    <3>1. /\ n = Len(p.slots)
          /\ again = [i \in 1..n |-> [status |-> p.slots[i], speaks |-> i]]
      BY <1>1, <2>1
    <3>2. n \in 0..Chunks /\ \A i \in 1..n : p.slots[i] \in {"READY", "FAILED"}
      BY <1>1, <3>1
    <3> HIDE DEF again, n
    <3>3. \A i \in 1..n : /\ again[i] \in Clip
                          /\ again[i].status \in {"READY", "FAILED"}
                          /\ again[i].speaks = i /\ i \in Content
      BY <3>1, <3>2 DEF Clip, Over, Content, Index
    <3>4. again \in [1..n -> Clip]
      BY <3>1, <3>3
    <3> QED
      BY <3>2, <3>3, <3>4
  <2>2. CASE ~p.cards
    <3>1. /\ n = Len(p.queue)
          /\ again = [i \in 1..n |-> [status |-> "READY", speaks |-> p.queue[i]]]
      BY <1>1, <2>2
    <3>2. n \in 0..Chunks /\ \A i \in 1..n : p.queue[i] \in Content
      BY <1>1, <3>1
    <3>3. inPlace => \A i \in 1..n : p.queue[i] = i
      BY <3>1
    <3> HIDE DEF again, n, inPlace
    <3>4. \A i \in 1..n : /\ again[i] \in Clip
                          /\ again[i].status = "READY"
                          /\ again[i].speaks = p.queue[i]
      BY <3>1, <3>2 DEF Clip, Over
    <3>5. again \in [1..n -> Clip]
      BY <3>1, <3>4
    <3> QED
      BY <3>2, <3>3, <3>4, <3>5
  <2> QED
    BY <2>1, <2>2
<1>4. c = [i \in DOMAIN padded |->
            IF i \in DOMAIN again
            THEN Filled(padded, i, again[i].status, again[i].speaks)[i]
            ELSE direct[i]]
  BY DEF Ingested
<1>5. padded = Padded(direct, n)
  BY <1>3
<1> HIDE DEF direct, again, n, padded, c, inPlace
<1>6. PaddedEffect(direct, n, padded)
  BY <1>2, <1>3, <1>5, PaddedFacts
<1> DEFINE m == Len(padded)
<1>7. /\ m \in Nat /\ n <= m /\ Len(direct) <= m /\ Len(direct) \in Nat
      /\ m = n \/ m = Len(direct)
      /\ DOMAIN padded = 1..m /\ padded \in Seq(Clip)
      /\ \A i \in 1..m :
            padded[i] = IF i <= Len(direct) THEN direct[i] ELSE NoClip
  BY <1>2, <1>3, <1>6 DEF PaddedEffect
<1> HIDE DEF m
<1>8. ASSUME NEW i \in 1..m
      PROVE  /\ c[i] \in Clip
             /\ \/ i <= Len(direct) /\ c[i] = direct[i]
                \/ /\ i <= Len(direct) => direct[i].status = "PENDING"
                   /\ c[i].status \in {"READY", "FAILED"}
                   /\ inPlace => c[i].speaks = i
  <2>1. CASE i <= n
    <3> DEFINE f == Filled(padded, i, again[i].status, again[i].speaks)
    <3>1. c[i] = f[i]
      BY <1>3, <1>4, <1>7, <2>1
    <3>2. /\ again[i].status \in {"PENDING", "READY", "PLAYING"} \cup Over
          /\ again[i].speaks \in Content \cup {0}
          /\ again[i].status \in {"READY", "FAILED"}
          /\ inPlace => again[i].speaks = i
      BY <1>3, <2>1 DEF Over
    <3>3. i \in 1..Len(padded)
      BY DEF m
    <3>4. FilledEffect(padded, i, again[i].status, again[i].speaks, f)
      BY <1>7, <3>2, <3>3, FilledFacts
    <3> HIDE DEF f
    <3>5. f[i] \in Clip
      BY <3>3, <3>4 DEF FilledEffect
    <3>6. IF padded[i].status = "PENDING"
          THEN f[i].status = again[i].status /\ f[i].speaks = again[i].speaks
          ELSE f[i] = padded[i]
      BY <3>3, <3>4 DEF FilledEffect
    <3>7. NoClip.status = "PENDING"
      BY DEF NoClip
    <3> QED
      BY <1>7, <3>1, <3>2, <3>5, <3>6, <3>7
  <2>2. CASE i > n
    <3>1. c[i] = direct[i] /\ i <= Len(direct)
      BY <1>3, <1>4, <1>7, <2>2
    <3> QED
      BY <1>2, <3>1
  <2> QED
    BY <2>1, <2>2, <1>3
<1>9. c \in Seq(Clip) /\ Len(c) = m
  <2>1. c \in [1..m -> Clip]
    BY <1>4, <1>7, <1>8
  <2> QED
    BY <2>1, <1>7
<1>10. ASSUME NEW i \in 1..m
       PROVE  \/ i <= Len(clips) /\ c[i] = clips[i]
              \/ /\ i <= Len(clips) => clips[i].status = "PENDING"
                 /\ c[i].status \in {"PENDING", "READY", "FAILED"}
                 /\ (inPlace /\ c[i].status # "PENDING") => c[i].speaks = i
  <2>1. i \in Nat \ {0} /\ (i <= Len(direct) => i \in 1..Len(direct))
    BY <1>7
  <2>2. i <= Len(direct) =>
            \/ i <= Len(clips) /\ direct[i] = clips[i]
            \/ /\ i <= Len(clips) => clips[i].status = "PENDING"
               /\ direct[i].status \in {"PENDING", "READY", "FAILED"}
               /\ direct[i].status # "PENDING" => direct[i].speaks = i
    BY <1>2, <2>1
  <2>3. Len(clips) <= Len(direct)
    BY <1>2
  <2>4. CASE i <= Len(direct) /\ c[i] = direct[i]
    BY <2>2, <2>4
  <2>5. CASE /\ i <= Len(direct) => direct[i].status = "PENDING"
             /\ c[i].status \in {"READY", "FAILED"}
             /\ inPlace => c[i].speaks = i
    <3>1. i <= Len(clips) => i <= Len(direct)
      BY <2>1, <2>3, <1>1, <1>7
    <3> QED
      BY <2>2, <2>5, <3>1
  <2> QED
    BY <1>8, <2>4, <2>5
<1>11. ASSUME p.chunk = 0, Len(p.slots) = 0, Len(p.queue) = 0
       PROVE  m = Len(clips)
  <2>1. n = 0
    BY <1>11 DEF n
  <2>2. Len(direct) = Len(clips)
    BY <1>11, <1>2
  <2> QED
    BY <2>1, <2>2, <1>1, <1>7
<1>12. Len(clips) <= m
  BY <1>1, <1>2, <1>7
<1>13. IngestEffect(clips, payload, c)
  <2> HIDE DEF p
  <2>1. p = payload
    BY DEF p
  <2> QED
    BY <2>1, <1>9, <1>10, <1>11, <1>12 DEF IngestEffect, inPlace
<1> QED
  BY <1>13 DEF c

-----------------------------------------------------------------------------
(* The effect on the clips *)

\* The turn that is fed, before its clips come.
Base(s) == IF payload.turn \in {None, s.sched.turn} THEN s.sched
                                                   ELSE NewTurn(payload.turn)

FeedEffect(s, z) ==
    /\ DOMAIN z = ScreenFields
    /\ z.owner = s.owner /\ z.previous = s.previous
    /\ z.streamTurn = payload.turn
    /\ z.gate = s.gate /\ z.gateTimer = s.gateTimer
    /\ z.thinking = s.thinking /\ z.offered = s.offered
    /\ DOMAIN z.sched = {"turn", "playhead", "clips"}
    /\ z.sched.turn = Base(s).turn
    /\ z.sched.playhead = Base(s).playhead
    /\ z.sched.clips = Ingested(Base(s).clips, payload)
    /\ z.startDue = (PresentationReady(z.sched) /\ ~Playing(z.sched))
    /\ IF s.streamTurn = payload.turn
       THEN z.voice = s.voice /\ z.guarded = s.guarded /\ z.shown = s.shown
       ELSE z.voice = Silent /\ z.guarded = FALSE /\ z.shown = FALSE

LEMMA FeedFields ==
    ASSUME NEW s, DOMAIN s = ScreenFields, SchedInv(s.sched),
           payload.turn \in Turns \cup {None}, ~Ignored(s, payload.turn)
    PROVE  FeedEffect(s, ClipsEffect(s, payload))
<1> DEFINE p == payload
           turned == IF s.streamTurn = p.turn THEN s
                     ELSE [Silenced(s) EXCEPT !.streamTurn = p.turn]
           ready == IF p.turn \in {None, turned.sched.turn} THEN turned
                    ELSE [turned EXCEPT !.sched = NewTurn(p.turn)]
           c == Ingested(ready.sched.clips, p)
           fed == [ready EXCEPT !.sched.clips = c]
           due == PresentationReady(fed.sched) /\ ~Playing(fed.sched)
           z == ClipsEffect(s, p)
<1>1. z = [fed EXCEPT !.startDue = due]
  BY DEF ClipsEffect
<1>2. /\ DOMAIN turned = ScreenFields
      /\ turned.owner = s.owner /\ turned.previous = s.previous
      /\ turned.streamTurn = p.turn /\ turned.sched = s.sched
      /\ turned.gate = s.gate /\ turned.gateTimer = s.gateTimer
      /\ turned.thinking = s.thinking /\ turned.offered = s.offered
      /\ IF s.streamTurn = p.turn
         THEN turned.voice = s.voice /\ turned.guarded = s.guarded
                                     /\ turned.shown = s.shown
         ELSE turned.voice = Silent /\ turned.guarded = FALSE
                                    /\ turned.shown = FALSE
  <2>1. CASE s.streamTurn = p.turn
    <3>1. turned = s
      BY <2>1
    <3> HIDE DEF turned
    <3> QED
      BY <2>1, <3>1
  <2>2. CASE s.streamTurn # p.turn
    <3> DEFINE y == Silenced(s)
    <3>1. turned = [y EXCEPT !.streamTurn = p.turn]
      BY <2>2
    <3>2. /\ DOMAIN y = ScreenFields
          /\ y.owner = s.owner /\ y.previous = s.previous /\ y.sched = s.sched
          /\ y.gate = s.gate /\ y.gateTimer = s.gateTimer
          /\ y.thinking = s.thinking /\ y.offered = s.offered
          /\ y.voice = Silent /\ y.guarded = FALSE /\ y.shown = FALSE
      BY SilencedFields
    <3> HIDE DEF turned, y
    <3> QED
      BY <2>2, <3>1, <3>2 DEF ScreenFields
  <2> QED
    BY <2>1, <2>2
<1> HIDE DEF turned
<1>3. /\ DOMAIN ready = ScreenFields /\ ready.sched = Base(s)
      /\ ready.owner = turned.owner /\ ready.previous = turned.previous
      /\ ready.streamTurn = turned.streamTurn
      /\ ready.gate = turned.gate /\ ready.gateTimer = turned.gateTimer
      /\ ready.thinking = turned.thinking /\ ready.offered = turned.offered
      /\ ready.voice = turned.voice /\ ready.guarded = turned.guarded
      /\ ready.shown = turned.shown
  <2>1. CASE p.turn \in {None, s.sched.turn}
    <3>1. ready = turned /\ Base(s) = s.sched
      BY <1>2, <2>1 DEF Base
    <3> HIDE DEF ready
    <3> QED
      BY <1>2, <3>1
  <2>2. CASE p.turn \notin {None, s.sched.turn}
    <3>1. ready = [turned EXCEPT !.sched = NewTurn(p.turn)] /\ Base(s) = NewTurn(p.turn)
      BY <1>2, <2>2 DEF Base
    <3> HIDE DEF ready
    <3> QED
      BY <1>2, <3>1 DEF ScreenFields
  <2> QED
    BY <2>1, <2>2
<1> HIDE DEF ready
<1>4. SchedInv(Base(s)) /\ DOMAIN Base(s) = {"turn", "playhead", "clips"}
  BY NewTurnFacts DEF Base, SchedInv
<1>5. fed = [ready EXCEPT !.sched = [Base(s) EXCEPT !.clips = c]]
  BY <1>3 DEF ScreenFields
<1> HIDE DEF fed
<1>6. /\ DOMAIN fed = ScreenFields /\ fed.sched = [Base(s) EXCEPT !.clips = c]
      /\ fed.owner = ready.owner /\ fed.previous = ready.previous
      /\ fed.streamTurn = ready.streamTurn
      /\ fed.gate = ready.gate /\ fed.gateTimer = ready.gateTimer
      /\ fed.thinking = ready.thinking /\ fed.offered = ready.offered
      /\ fed.voice = ready.voice /\ fed.guarded = ready.guarded
      /\ fed.shown = ready.shown
  BY <1>3, <1>5 DEF ScreenFields
<1> HIDE DEF due, z
<1>7. /\ DOMAIN z = ScreenFields /\ z.sched = fed.sched
      /\ z.owner = fed.owner /\ z.previous = fed.previous
      /\ z.streamTurn = fed.streamTurn
      /\ z.gate = fed.gate /\ z.gateTimer = fed.gateTimer
      /\ z.thinking = fed.thinking /\ z.offered = fed.offered
      /\ z.voice = fed.voice /\ z.guarded = fed.guarded
      /\ z.shown = fed.shown /\ z.startDue = due
  BY <1>1, <1>6 DEF ScreenFields
<1>8. z.startDue = (PresentationReady(z.sched) /\ ~Playing(z.sched))
  BY <1>7 DEF due
<1>9. c = Ingested(Base(s).clips, p)
  BY <1>3
<1> HIDE DEF c
<1>10. /\ DOMAIN z.sched = {"turn", "playhead", "clips"}
       /\ z.sched.turn = Base(s).turn /\ z.sched.playhead = Base(s).playhead
       /\ z.sched.clips = c
  BY <1>4, <1>6, <1>7
<1>11. FeedEffect(s, z)
  BY <1>2, <1>3, <1>6, <1>7, <1>8, <1>9, <1>10 DEF FeedEffect
<1> QED
  BY <1>11 DEF z

\* What is fed is the scheduler's turn, or a turn that was not heard: the fence
\* has the one the payload is of.
LEMMA FeedKeeps ==
    ASSUME ContextInv, NEW s, ScreenInv(s), Settled(s), ~Ignored(s, payload.turn),
           NEW z, FeedEffect(s, z)
    PROVE  ScreenInv(z) /\ Settled(z)
<1> DEFINE p == payload
           b == Base(s)
           c == z.sched.clips
           t == z.sched.turn
<1>1. /\ PayloadTypes /\ Len(p.slots) <= Chunks /\ Len(p.queue) <= Chunks
      /\ p.turn \in Turns \cup {None}
      /\ p.turn \in Turns => p.turn = reply.turn
      /\ p.turn = None => /\ p.chunk = 0 /\ Len(p.slots) = 0 /\ Len(p.queue) = 0
                          /\ ~p.processing
      /\ p.processing => /\ p.turn \in Turns /\ p.chunk = 0
                         /\ Len(p.slots) = 0 /\ Len(p.queue) = 0
  BY DEF ContextInv, PayloadInv, PayloadTypes, NoPayload
<1>2. /\ SchedInv(s.sched) /\ BoundInv(s) /\ OnceInv(s) /\ FenceInv(s)
      /\ FieldsInv(s) /\ SoundInv(s) /\ OrderInv(s) /\ GateInv(s)
  BY DEF ScreenInv, TurnInv
<1>3. \/ p.turn \in {None, s.sched.turn} /\ b = s.sched
      \/ /\ p.turn \notin {None, s.sched.turn} /\ b = NewTurn(p.turn)
         /\ p.turn \in Turns /\ s.streamTurn # p.turn
         /\ b.turn = p.turn /\ b.playhead = 1 /\ Len(b.clips) = 0
  BY <1>1, <1>2, NewTurnFacts DEF Base, BoundInv
<1>4. SchedInv(b)
  BY <1>1, <1>2, <1>3, NewTurnFacts
<1>5. /\ b.clips \in Seq(Clip) /\ Len(b.clips) \in Nat /\ b.playhead \in Nat
      /\ b.turn \in Turns \cup {None} /\ b.playhead \in 1..(Len(b.clips) + 1)
      /\ \A i \in 1..Len(b.clips) :
           /\ i < b.playhead => b.clips[i].status \in Over
           /\ b.clips[i].status = "PLAYING" => i = b.playhead
  BY <1>4 DEF SchedInv
<1>6. t = b.turn /\ z.sched.playhead = b.playhead /\ c = Ingested(b.clips, p)
  BY DEF FeedEffect
<1>7. IngestEffect(b.clips, p, c)
  BY <1>1, <1>5, <1>6, IngestFacts
<1> HIDE DEF b, c, t
<1>8. /\ c \in Seq(Clip) /\ Len(c) \in Nat /\ Len(b.clips) <= Len(c)
      /\ (p.turn = None \/ p.processing) => Len(c) = Len(b.clips)
      /\ \A i \in 1..Len(c) :
           \/ i <= Len(b.clips) /\ c[i] = b.clips[i]
           \/ /\ i <= Len(b.clips) => b.clips[i].status = "PENDING"
              /\ c[i].status \in {"PENDING", "READY", "FAILED"}
  BY <1>1, <1>7 DEF IngestEffect
<1>9. SchedInv(z.sched)
  <2>1. ASSUME NEW i \in 1..Len(c)
        PROVE  /\ i < b.playhead => c[i].status \in Over
               /\ c[i].status = "PLAYING" => i = b.playhead
    <3>1. i \in 1..Len(b.clips) \/ i > Len(b.clips)
      BY <1>5
    <3>2. CASE i > Len(b.clips)
      BY <1>5, <1>8, <3>2
    <3>3. CASE i \in 1..Len(b.clips)
      BY <1>5, <1>8, <3>3 DEF Over
    <3> QED
      BY <3>1, <3>2, <3>3
  <2>2. t = None => Len(c) = 0
    BY <1>3, <1>4, <1>6, <1>8 DEF SchedInv, Turns
  <2>3. b.playhead \in 1..(Len(c) + 1)
    BY <1>5, <1>8
  <2> QED
    BY <2>1, <2>2, <2>3, <1>5, <1>6, <1>8 DEF SchedInv, FeedEffect, c, t
<1>10. FieldsInv(z)
  <2>1. z.startDue \in BOOLEAN
    BY Zenon DEF FeedEffect
  <2>2. CASE s.streamTurn = p.turn
    BY <2>1, <2>2, <1>1, <1>2 DEF FeedEffect, FieldsInv
  <2>3. CASE s.streamTurn # p.turn
    BY <2>1, <2>3, <1>1, <1>2, SilentFacts DEF FeedEffect, FieldsInv
  <2> QED
    BY <2>2, <2>3
<1>11. Sounding(z) => /\ Sounding(s) /\ z.voice = s.voice /\ b = s.sched
                      /\ z.guarded = s.guarded /\ z.shown = s.shown
  BY <1>3, SilentFacts DEF FeedEffect, Sounding
<1>12. SoundInv(z)
  <2> SUFFICES ASSUME Sounding(z)
               PROVE  SoundInv(z)
    BY DEF SoundInv
  <2>1. /\ s.voice.turn = b.turn /\ b.turn \in Turns
        /\ s.voice.seq = b.playhead /\ s.voice.seq \in 1..Len(b.clips)
        /\ b.clips[s.voice.seq].status = "PLAYING"
        /\ s.voice.speaks = b.clips[s.voice.seq].speaks
        /\ s.owner \in {None, b.turn} /\ s.guarded /\ s.shown /\ ~Blocked(s)
    BY <1>2, <1>11 DEF SoundInv
  <2>2. s.voice.seq \in 1..Len(c) /\ c[s.voice.seq] = b.clips[s.voice.seq]
    BY <2>1, <1>8
  <2>3. ~Blocked(z)
    BY <2>1 DEF Blocked, FeedEffect
  <2> QED
    BY <2>1, <2>2, <2>3, <1>6, <1>11 DEF SoundInv, FeedEffect, c, t
<1>13. BoundInv(z)
  <2>1. (p.processing /\ t = p.turn) => Len(c) = 0
    BY <1>2, <1>3, <1>6, <1>8 DEF BoundInv
  <2>2. /\ t \in Turns => t <= reply.turn
        /\ p.turn \in Turns => t = p.turn /\ p.turn <= reply.turn
    BY <1>1, <1>2, <1>3, <1>6 DEF BoundInv, Turns, ContextInv, BackendInv
  <2>3. (s.owner = Pending /\ t \in Turns /\ s.previous \in Turns)
            => s.previous < t
    <3>1. CASE b = s.sched
      BY <1>2, <1>6, <3>1 DEF BoundInv
    <3>2. CASE b.turn = p.turn /\ p.turn \in Turns
      BY <1>1, <1>2, <1>6, <3>2 DEF BoundInv, Ignored, Turns, ContextInv, BackendInv
    <3> QED
      BY <1>3, <3>1, <3>2
  <2> QED
    BY <2>1, <2>2, <2>3, <1>2 DEF BoundInv, FeedEffect, c, t
<1>14. OnceInv(z)
  BY <1>1, <1>2, <1>3, <1>6 DEF OnceInv, FeedEffect, t
<1>15. FenceInv(z) /\ Settled(z)
  <2>1. (~hasty /\ asked \in Turns \ tapped) => Heeded(s)
    BY <1>1, <1>2 DEF FenceInv, Settled, Awaiting, Ignored, Turns
  <2>2. (~hasty /\ asked \in Turns \ tapped) => Heeded(z)
    BY <2>1, <1>3, <1>6 DEF Heeded, FeedEffect, t
  <2>3. (~hasty /\ asked \in tapped) => Interrupted(z)
    BY <1>2, <1>3, <1>6 DEF FenceInv, Interrupted, FeedEffect, t
  <2>4. (~hasty /\ asked = 0) => z.owner = None /\ t = None /\ p.turn = None
    BY <1>2, <1>3, <1>6 DEF FenceInv, FeedEffect
  <2> QED
    BY <2>2, <2>3, <2>4 DEF FenceInv, Settled, t
<1>16. OrderInv(z)
  <2> SUFFICES ASSUME t \in Turns \ (holed \cup tapped)
               PROVE  /\ heard[t] <= Len(c)
                      /\ \A i \in 1..Len(c) :
                           /\ c[i].status # "PENDING" => c[i].speaks = i
                           /\ (i >= b.playhead
                                 /\ c[i].status \in {"PENDING", "READY"})
                                    => heard[t] < i
                      /\ z.voice.phase = "starting" => heard[t] < z.voice.seq
                      /\ z.voice.phase = "sounding" => heard[t] = z.voice.seq
    BY <1>6 DEF OrderInv, c, t
  <2>1. heard[t] \in Nat
    BY DEF ContextInv, BackendInv, Content, Index, Backup
  <2>2. /\ heard[t] <= Len(b.clips)
        /\ \A i \in 1..Len(b.clips) :
             /\ b.clips[i].status # "PENDING" => b.clips[i].speaks = i
             /\ (i >= b.playhead /\ b.clips[i].status \in {"PENDING", "READY"})
                    => heard[t] < i
    <3>1. CASE b = s.sched
      BY <3>1, <1>2, <1>6 DEF OrderInv
    <3>2. CASE /\ b # s.sched /\ p.turn \notin {None, s.sched.turn}
               /\ b.turn = p.turn /\ Len(b.clips) = 0 /\ p.turn \in Turns
      <4>1. heard[t] = 0
        BY <3>2, <1>1, <1>2, <1>6 DEF OnceInv, Ignored
      <4> QED
        BY <4>1, <3>2
    <3> QED
      BY <1>3, <3>1, <3>2
  <2>3. \A j \in 1..Len(p.queue) : p.queue[j] = j
    <3>1. CASE p.turn = None
      BY <3>1, <1>1
    <3>2. CASE p.turn \in Turns
      <4>1. p.turn \in Turns \ holed
        BY <3>2, <1>3, <1>6 DEF Turns
      <4> QED
        BY <4>1 DEF ContextInv, PayloadInv
    <3> QED
      BY <1>1, <3>1, <3>2
  <2>4. ASSUME NEW i \in 1..Len(c)
        PROVE  /\ c[i].status # "PENDING" => c[i].speaks = i
               /\ (i >= b.playhead /\ c[i].status \in {"PENDING", "READY"})
                    => heard[t] < i
    <3>1. CASE i <= Len(b.clips) /\ c[i] = b.clips[i]
      BY <2>2, <3>1, <1>5
    <3>2. CASE /\ i <= Len(b.clips) => b.clips[i].status = "PENDING"
               /\ c[i].status # "PENDING" => c[i].speaks = i
      <4>1. CASE i > Len(b.clips)
        BY <2>1, <2>2, <3>2, <4>1, <1>5
      <4>2. CASE i <= Len(b.clips)
        BY <2>2, <3>2, <4>2, <1>5
      <4> QED
        BY <4>1, <4>2, <1>5
    <3> QED
      BY <2>3, <3>1, <3>2, <1>7 DEF IngestEffect
  <2>5. Sounding(z) => /\ z.voice.phase = "starting" => heard[t] < z.voice.seq
                       /\ z.voice.phase = "sounding" => heard[t] = z.voice.seq
    BY <1>2, <1>6, <1>11 DEF OrderInv
  <2> QED
    BY <2>1, <2>2, <2>4, <2>5, <1>5, <1>8 DEF Sounding
<1>17. GateInv(z)
  BY <1>2 DEF GateInv, FeedEffect
<1> QED
  BY <1>9, <1>10, <1>12, <1>13, <1>14, <1>15, <1>16, <1>17 DEF ScreenInv, TurnInv

\* A clip that could be played makes the presentation ready.
LEMMA StartableIsReady ==
    ASSUME NEW sched, SchedInv(sched), Startable(sched) # {}
    PROVE  PresentationReady(sched) /\ ~Playing(sched)
<1>1. PICK i \in Startable(sched) : TRUE
  OBVIOUS
<1>2. /\ i \in 1..Len(sched.clips) /\ sched.clips[i].status = "READY"
      /\ ~Playing(sched)
      /\ \A j \in 1..Len(sched.clips) : j < i => sched.clips[j].status \in Over
  BY StartableFacts
<1>3. Len(sched.clips) \in Nat /\ DOMAIN sched.clips = 1..Len(sched.clips)
  BY DEF SchedInv
<1>4. sched.clips # <<>> /\ 1 \in 1..Len(sched.clips)
  BY <1>2, <1>3
<1>5. i = 1 \/ sched.clips[1].status \in Over
  BY <1>2, <1>4
<1> QED
  BY <1>2, <1>3, <1>4, <1>5 DEF PresentationReady, Started, Over

LEMMA ClipsKeep ==
    ASSUME ContextInv, NEW s, ScreenInv(s), Settled(s)
    PROVE  /\ ScreenInv(ClipsEffect(s, payload))
           /\ Settled(ClipsEffect(s, payload))
           /\ \A due : ReadyInv(ClipsEffect(s, payload), due)
<1> DEFINE z == ClipsEffect(s, payload)
<1>1. DOMAIN s = ScreenFields /\ SchedInv(s.sched) /\ GateInv(s) /\ FenceInv(s)
  BY DEF ScreenInv, FieldsInv, TurnInv
<1>2. payload.turn \in Turns \cup {None}
  BY DEF ContextInv, PayloadInv, PayloadTypes
<1>3. CASE Ignored(s, payload.turn)
  <2>1. z = [s EXCEPT !.startDue = FALSE]
    BY <1>3 DEF ClipsEffect
  <2> HIDE DEF z
  <2>2. /\ DOMAIN z = ScreenFields /\ z.owner = s.owner
        /\ z.previous = s.previous /\ z.sched = s.sched
        /\ z.streamTurn = s.streamTurn /\ z.gate = s.gate
        /\ z.thinking = s.thinking /\ z.offered = s.offered
        /\ z.voice = s.voice
        /\ z.guarded = s.guarded /\ z.shown = s.shown
        /\ z.gateTimer = s.gateTimer /\ z.startDue = FALSE
    BY <2>1, <1>1 DEF ScreenFields
  <2>3. GateInv(z)
    BY <1>1, <2>2 DEF GateInv
  <2>4. FALSE \in BOOLEAN
    OBVIOUS
  <2>5. ScreenInv(z) /\ Settled(z)
    BY <2>2, <2>3, <2>4, TimersKeep
  <2>6. ~hasty => s.sched.turn = None
    BY <1>1, <1>2, <1>3 DEF FenceInv, Awaiting, Heeded, Interrupted, Ignored,
                            ContextInv, BackendInv, Turns
  <2>7. s.sched.turn = None => Startable(s.sched) = {}
    BY <1>1, StartableFacts DEF Turns
  <2>8. \A due : ReadyInv(z, due)
    BY <2>2, <2>6, <2>7 DEF ReadyInv
  <2> QED
    BY <2>5, <2>8 DEF z
<1>4. CASE ~Ignored(s, payload.turn)
  <2>1. FeedEffect(s, z)
    BY <1>1, <1>2, <1>4, FeedFields
  <2> HIDE DEF z
  <2>2. ScreenInv(z) /\ Settled(z)
    BY <1>4, <2>1, FeedKeeps
  <2>3. Startable(z.sched) # {} => z.startDue
    BY <2>1, <2>2, StartableIsReady DEF FeedEffect, ScreenInv
  <2> QED
    BY <2>2, <2>3 DEF ReadyInv, z
<1> QED
  BY <1>3, <1>4

-----------------------------------------------------------------------------
(* The effect on the payload *)

\* A processing frame: its turn owns the screen, has the scheduler and a gate.
ProcessingEffect(s, z) ==
    /\ DOMAIN z = ScreenFields
    /\ z.owner = payload.turn
    /\ z.sched.turn = payload.turn
    /\ z.sched \in {s.sched, NewTurn(payload.turn)}
    /\ z.thinking = s.thinking /\ z.offered = s.offered
    /\ z.startDue = s.startDue
    /\ IF s.owner = payload.turn
       THEN /\ z.previous = s.previous /\ z.streamTurn = s.streamTurn
            /\ z.voice = s.voice /\ z.guarded = s.guarded /\ z.shown = s.shown
       ELSE /\ z.previous = IF s.owner \in Turns THEN s.owner ELSE s.previous
            /\ z.streamTurn = None
            /\ z.voice = Silent /\ z.guarded = FALSE /\ z.shown = FALSE
    /\ z.gate \in [turn : Turns \cup {None, Pending}, over : BOOLEAN]
    /\ z.gate.turn = payload.turn
    /\ IF s.gate.turn = payload.turn
       THEN z.gate = s.gate /\ z.gateTimer = s.gateTimer
       ELSE z.gateTimer = payload.turn

LEMMA ReboundFacts ==
    ASSUME NEW gate \in [turn : Turns \cup {None, Pending}, over : BOOLEAN],
           NEW t \in Turns
    PROVE  /\ Rebound(gate, t) \in [turn : Turns \cup {None, Pending}, over : BOOLEAN]
           /\ Rebound(gate, t).over = gate.over
           /\ gate.turn = Pending => Rebound(gate, t).turn = t
           /\ gate.turn # Pending => Rebound(gate, t) = gate
<1>1. CASE gate.turn = Pending
  <2>1. Rebound(gate, t) = [gate EXCEPT !.turn = t]
    BY <1>1 DEF Rebound
  <2> QED
    BY <1>1, <2>1
<1>2. CASE gate.turn # Pending
  <2>1. Rebound(gate, t) = gate
    BY <1>2 DEF Rebound
  <2> QED
    BY <1>2, <2>1
<1> QED
  BY <1>1, <1>2

LEMMA ProcessingFields ==
    ASSUME NEW s, FieldsInv(s), payload.turn \in Turns, payload.processing
    PROVE  ProcessingEffect(s, Claimed(s, payload))
<1> DEFINE p == payload
           owned == IF s.owner = p.turn THEN s
                    ELSE [TurnReset(s) EXCEPT !.owner = p.turn]
           ready == IF owned.sched.turn = p.turn THEN owned
                    ELSE [owned EXCEPT !.sched = NewTurn(p.turn)]
           z == Claimed(s, p)
           g3 == [turn |-> p.turn, over |-> FALSE]
<1>1. /\ DOMAIN s = ScreenFields
      /\ s.gate \in [turn : Turns \cup {None, Pending}, over : BOOLEAN]
  BY DEF FieldsInv
<1>2. /\ ready.gate.turn = p.turn => z = ready
      /\ ready.gate.turn = Pending =>
            z = [ready EXCEPT !.gate = Rebound(@, p.turn), !.gateTimer = p.turn]
      /\ ready.gate.turn \notin {p.turn, Pending} =>
            z = [ready EXCEPT !.gate = g3, !.gateTimer = p.turn]
  <2> HIDE DEF owned, ready, g3
  <2>1. z = CASE p.processing /\ ready.gate.turn = p.turn -> ready
              [] p.processing /\ ready.gate.turn = Pending ->
                    [ready EXCEPT !.gate = Rebound(@, p.turn), !.gateTimer = p.turn]
              [] p.processing /\ ready.gate.turn \notin {p.turn, Pending} ->
                    [ready EXCEPT !.gate = g3, !.gateTimer = p.turn]
              [] ~p.processing /\ s.owner = Pending /\ ~Ignored(s, p.turn) ->
                    [s EXCEPT !.owner = p.turn,
                              !.sched = IF @.turn = p.turn THEN @ ELSE NewTurn(p.turn)]
              [] OTHER -> s
    BY DEF Claimed, owned, ready, g3
  <2> HIDE DEF z
  <2>2. p.turn # Pending
    BY DEF Turns
  <2>3. CASE ready.gate.turn = p.turn
    BY <2>1, <2>2, <2>3
  <2>4. CASE ready.gate.turn = Pending
    BY <2>1, <2>2, <2>4
  <2>5. CASE ready.gate.turn \notin {p.turn, Pending}
    BY <2>1, <2>2, <2>5
  <2> QED
    BY <2>3, <2>4, <2>5
<1>3. /\ DOMAIN owned = ScreenFields /\ owned.owner = p.turn
      /\ owned.sched = s.sched \/ owned.sched.turn = None
      /\ owned.gate = s.gate /\ owned.gateTimer = s.gateTimer
      /\ owned.thinking = s.thinking /\ owned.offered = s.offered
      /\ owned.startDue = s.startDue
      /\ IF s.owner = p.turn
         THEN /\ owned.previous = s.previous /\ owned.streamTurn = s.streamTurn
              /\ owned.voice = s.voice /\ owned.guarded = s.guarded
              /\ owned.shown = s.shown
         ELSE /\ owned.previous = IF s.owner \in Turns THEN s.owner ELSE s.previous
              /\ owned.streamTurn = None
              /\ owned.voice = Silent /\ owned.guarded = FALSE
              /\ owned.shown = FALSE
  <2>1. CASE s.owner = p.turn
    <3>1. owned = s
      BY <2>1
    <3> HIDE DEF owned
    <3> QED
      BY <1>1, <2>1, <3>1
  <2>2. CASE s.owner # p.turn
    <3> DEFINE y == TurnReset(s)
    <3>1. owned = [y EXCEPT !.owner = p.turn]
      BY <2>2
    <3>2. /\ DOMAIN y = ScreenFields
          /\ y.previous = IF s.owner \in Turns THEN s.owner ELSE s.previous
          /\ y.sched = NewTurn(None) /\ y.streamTurn = None
          /\ y.gate = s.gate /\ y.gateTimer = s.gateTimer
          /\ y.thinking = s.thinking /\ y.offered = s.offered
          /\ y.startDue = s.startDue
          /\ y.voice = Silent /\ y.guarded = FALSE /\ y.shown = FALSE
      BY <1>1, TurnResetFields
    <3>3. NewTurn(None).turn = None
      BY NewTurnFacts
    <3> HIDE DEF owned, y
    <3> QED
      BY <2>2, <3>1, <3>2, <3>3 DEF ScreenFields
  <2> QED
    BY <2>1, <2>2
<1> HIDE DEF owned
<1>4. /\ DOMAIN ready = ScreenFields /\ ready.owner = owned.owner
      /\ ready.sched \in {s.sched, NewTurn(p.turn)} /\ ready.sched.turn = p.turn
      /\ ready.gate = s.gate /\ ready.gateTimer = s.gateTimer
      /\ ready.thinking = s.thinking /\ ready.offered = s.offered
      /\ ready.startDue = s.startDue /\ ready.previous = owned.previous
      /\ ready.streamTurn = owned.streamTurn /\ ready.voice = owned.voice
      /\ ready.guarded = owned.guarded /\ ready.shown = owned.shown
  <2>1. CASE owned.sched.turn = p.turn
    <3>1. ready = owned /\ owned.sched = s.sched
      BY <2>1, <1>3 DEF Turns
    <3> HIDE DEF ready
    <3> QED
      BY <1>3, <2>1, <3>1
  <2>2. CASE owned.sched.turn # p.turn
    <3>1. ready = [owned EXCEPT !.sched = NewTurn(p.turn)]
      BY <2>2
    <3>2. NewTurn(p.turn).turn = p.turn
      BY NewTurnFacts
    <3> HIDE DEF ready
    <3> QED
      BY <1>3, <3>1, <3>2 DEF ScreenFields
  <2> QED
    BY <2>1, <2>2
<1> HIDE DEF ready
<1>5. PICK r : r = ready
  OBVIOUS
<1>6. \E gate : /\ gate \in [turn : Turns \cup {None, Pending}, over : BOOLEAN]
                /\ gate.turn = p.turn
                /\ IF s.gate.turn = p.turn
                   THEN gate = s.gate /\ z = r
                   ELSE z = [r EXCEPT !.gate = gate, !.gateTimer = p.turn]
  <2>1. CASE s.gate.turn = p.turn
    BY <2>1, <1>1, <1>2, <1>4, <1>5
  <2>2. CASE s.gate.turn = Pending
    <3>1. p.turn # Pending
      BY DEF Turns
    <3>2. z = [r EXCEPT !.gate = Rebound(s.gate, p.turn), !.gateTimer = p.turn]
      BY <2>2, <1>2, <1>4, <1>5 DEF ScreenFields
    <3> QED
      BY <2>2, <3>1, <3>2, <1>1, ReboundFacts
  <2>3. CASE s.gate.turn \notin {p.turn, Pending}
    <3>1. z = [r EXCEPT !.gate = g3, !.gateTimer = p.turn]
      BY <2>3, <1>2, <1>4, <1>5
    <3>2. g3 \in [turn : Turns \cup {None, Pending}, over : BOOLEAN] /\ g3.turn = p.turn
      OBVIOUS
    <3> HIDE DEF g3
    <3> QED
      BY <2>3, <3>1, <3>2
  <2> QED
    BY <2>1, <2>2, <2>3
<1> HIDE DEF z
<1>7. ProcessingEffect(s, z)
  <2>1. CASE s.gate.turn = p.turn
    BY <2>1, <1>1, <1>3, <1>4, <1>5, <1>6 DEF ProcessingEffect
  <2>2. CASE s.gate.turn # p.turn
    <3>1. PICK gate : /\ gate \in [turn : Turns \cup {None, Pending}, over : BOOLEAN]
                      /\ gate.turn = p.turn
                      /\ z = [r EXCEPT !.gate = gate, !.gateTimer = p.turn]
      BY <2>2, <1>6
    <3>2. /\ DOMAIN z = ScreenFields /\ z.owner = r.owner /\ z.sched = r.sched
          /\ z.gate = gate /\ z.gateTimer = p.turn
          /\ z.thinking = r.thinking /\ z.offered = r.offered
          /\ z.startDue = r.startDue /\ z.previous = r.previous
          /\ z.streamTurn = r.streamTurn /\ z.voice = r.voice
          /\ z.guarded = r.guarded /\ z.shown = r.shown
      BY <3>1, <1>4, <1>5 DEF ScreenFields
    <3> QED
      BY <2>2, <3>1, <3>2, <1>3, <1>4, <1>5 DEF ProcessingEffect
  <2> QED
    BY <2>1, <2>2
<1> QED
  BY <1>7 DEF z

LEMMA ProcessingKeeps ==
    ASSUME ContextInv, NEW s, ScreenInv(s), payload.processing,
           NEW z, ProcessingEffect(s, z)
    PROVE  ScreenInv(z) /\ Settled(z)
<1>1. /\ FieldsInv(s) /\ SchedInv(s.sched) /\ SoundInv(s) /\ BoundInv(s)
      /\ OnceInv(s) /\ FenceInv(s) /\ OrderInv(s) /\ GateInv(s)
  BY DEF ScreenInv, TurnInv
<1>2. /\ payload.turn \in Turns /\ payload.turn = reply.turn
      /\ heard[payload.turn] = 0
      /\ ~hasty => payload.turn = asked
      /\ reply.turn \in Nat /\ asked \in 0..MaxTurns /\ reply.turn <= asked
  BY DEF ContextInv, PayloadInv, CalmInv, BackendInv
<1>3. /\ z.sched.turn = payload.turn /\ z.owner = payload.turn
      /\ Len(z.sched.clips) = 0 /\ SchedInv(z.sched)
  <2>1. CASE z.sched = s.sched
    BY <1>1, <1>2, <2>1 DEF ProcessingEffect, BoundInv
  <2>2. CASE z.sched = NewTurn(payload.turn)
    BY <1>2, <2>2, NewTurnFacts DEF ProcessingEffect
  <2> QED
    BY <2>1, <2>2 DEF ProcessingEffect
<1>4. ~Sounding(z)
  <2>1. CASE s.owner = payload.turn
    <3>1. Sounding(s) => s.sched.turn = payload.turn /\ Len(s.sched.clips) # 0
      BY <1>1, <1>2, <2>1 DEF SoundInv, SchedInv, Turns
    <3>2. ~Sounding(s)
      BY <1>1, <3>1 DEF BoundInv
    <3> QED
      BY <2>1, <3>2 DEF ProcessingEffect, Sounding
  <2>2. CASE s.owner # payload.turn
    BY <2>2, SilentFacts DEF ProcessingEffect, Sounding
  <2> QED
    BY <2>1, <2>2
<1>5. FieldsInv(z)
  <2>1. CASE s.owner = payload.turn
    BY <2>1, <1>1, <1>2 DEF ProcessingEffect, FieldsInv
  <2>2. CASE s.owner # payload.turn
    BY <2>2, <1>1, <1>2, SilentFacts DEF ProcessingEffect, FieldsInv
  <2> QED
    BY <2>1, <2>2
<1>6. BoundInv(z)
  <2>1. z.previous \in Turns => z.previous <= reply.turn
    BY <1>1 DEF ProcessingEffect, BoundInv
  <2>2. z.streamTurn \in Turns => z.streamTurn <= reply.turn
    BY <1>1 DEF ProcessingEffect, BoundInv, Turns
  <2> QED
    BY <2>1, <2>2, <1>2, <1>3 DEF ProcessingEffect, BoundInv, Turns
<1>7. OnceInv(z)
  BY <1>2, <1>3 DEF OnceInv
<1>8. FenceInv(z) /\ Settled(z)
  BY <1>2, <1>3 DEF FenceInv, Settled, Heeded, Interrupted, Turns
<1>9. OrderInv(z)
  BY <1>2, <1>3, <1>4 DEF OrderInv, Sounding
<1>10. GateInv(z)
  <2>1. z.gate.turn = payload.turn /\ z.gate.turn # Pending /\ z.gate.turn # None
    BY <1>2 DEF ProcessingEffect, Turns
  <2>2. CASE s.gate.turn = payload.turn
    BY <2>1, <2>2, <1>1, <1>2 DEF ProcessingEffect, GateInv
  <2>3. CASE s.gate.turn # payload.turn
    <3>1. (~hasty /\ payload.turn \notin tapped) => s.gate.turn = Pending
      BY <2>3, <1>1, <1>2 DEF GateInv
    <3>2. (~hasty /\ payload.turn \notin tapped) => z.thinking = None
      BY <3>1, <1>1 DEF GateInv, ProcessingEffect
    <3> QED
      BY <2>1, <2>3, <3>2, <1>2 DEF GateInv, ProcessingEffect
  <2> QED
    BY <2>2, <2>3
<1> QED
  BY <1>3, <1>4, <1>5, <1>6, <1>7, <1>8, <1>9, <1>10 DEF ScreenInv, TurnInv, SoundInv

\* A later frame of a turn whose processing frame was not seen.
AdoptEffect(s, z) ==
    /\ DOMAIN z = ScreenFields
    /\ z.owner = payload.turn
    /\ z.previous = s.previous /\ z.streamTurn = s.streamTurn
    /\ z.gate = s.gate /\ z.gateTimer = s.gateTimer
    /\ z.thinking = s.thinking /\ z.offered = s.offered
    /\ z.startDue = s.startDue /\ z.voice = s.voice
    /\ z.guarded = s.guarded /\ z.shown = s.shown
    /\ z.sched = IF s.sched.turn = payload.turn THEN s.sched
                                                ELSE NewTurn(payload.turn)

LEMMA AdoptKeeps ==
    ASSUME ContextInv, NEW s, ScreenInv(s), ~payload.processing,
           s.owner = Pending, ~Ignored(s, payload.turn),
           NEW z, AdoptEffect(s, z)
    PROVE  ScreenInv(z) /\ Settled(z)
<1>1. /\ FieldsInv(s) /\ SchedInv(s.sched) /\ SoundInv(s) /\ BoundInv(s)
      /\ OnceInv(s) /\ FenceInv(s) /\ OrderInv(s) /\ GateInv(s)
  BY DEF ScreenInv, TurnInv
<1>2. /\ payload.turn \in Turns /\ payload.turn = reply.turn
      /\ payload.turn # s.previous
      /\ reply.turn \in Nat /\ asked \in 0..MaxTurns /\ reply.turn <= asked
  BY DEF ContextInv, PayloadInv, PayloadTypes, BackendInv, Ignored
<1>3. ~Sounding(s) /\ ~Sounding(z)
  <2>1. ~Sounding(s)
    BY <1>1 DEF SoundInv, Turns
  <2> QED
    BY <2>1 DEF AdoptEffect, Sounding
<1>4. z.owner = payload.turn /\ z.sched.turn = payload.turn /\ SchedInv(z.sched)
  BY <1>1, <1>2, NewTurnFacts DEF AdoptEffect
<1>5. FieldsInv(z)
  BY <1>1, <1>2 DEF AdoptEffect, FieldsInv
<1>6. BoundInv(z)
  BY <1>1, <1>2, <1>4 DEF AdoptEffect, BoundInv, Turns
<1>7. OnceInv(z)
  BY <1>2, <1>4 DEF OnceInv
<1>8. FenceInv(z) /\ Settled(z)
  <2>1. (~hasty /\ asked \in Turns \ tapped) => payload.turn = asked
    BY <1>1, <1>2 DEF FenceInv, Awaiting, Heeded, Turns
  <2>2. ~(~hasty /\ asked \in tapped) /\ ~(~hasty /\ asked = 0)
    BY <1>1, <1>2 DEF FenceInv, Interrupted, Turns, ContextInv, BackendInv
  <2> QED
    BY <2>1, <2>2, <1>4 DEF FenceInv, Settled, Heeded
<1>9. OrderInv(z)
  <2>1. CASE s.sched.turn = payload.turn
    BY <2>1, <1>1 DEF OrderInv, AdoptEffect
  <2>2. CASE s.sched.turn # payload.turn
    <3>1. Len(z.sched.clips) = 0
      BY <2>2, NewTurnFacts DEF AdoptEffect
    <3>2. payload.turn \notin tapped => heard[payload.turn] = 0
      BY <1>1, <1>2, <2>2 DEF OnceInv
    <3> QED
      BY <3>1, <3>2, <1>2, <1>3, <1>4 DEF OrderInv, Sounding
  <2> QED
    BY <2>1, <2>2
<1>10. GateInv(z)
  BY <1>1 DEF GateInv, AdoptEffect
<1> QED
  BY <1>3, <1>4, <1>5, <1>6, <1>7, <1>8, <1>9, <1>10 DEF ScreenInv, TurnInv, SoundInv

LEMMA ClaimKeeps ==
    ASSUME ContextInv, NEW s, ScreenInv(s)
    PROVE  ScreenInv(Claimed(s, payload)) /\ Settled(Claimed(s, payload))
<1> DEFINE p == payload
           z == Claimed(s, p)
           sched == IF s.sched.turn = p.turn THEN s.sched ELSE NewTurn(p.turn)
<1>1. FieldsInv(s) /\ FenceInv(s) /\ DOMAIN s = ScreenFields
  BY DEF ScreenInv, TurnInv, FieldsInv
<1>2. CASE p.processing
  <2>1. p.turn \in Turns
    BY <1>2 DEF ContextInv, PayloadInv
  <2>2. ProcessingEffect(s, z)
    BY <1>1, <1>2, <2>1, ProcessingFields
  <2> HIDE DEF z
  <2>3. ScreenInv(z) /\ Settled(z)
    BY <1>2, <2>2, ProcessingKeeps
  <2> QED
    BY <2>3 DEF z
<1>3. CASE ~p.processing /\ s.owner = Pending /\ ~Ignored(s, p.turn)
  <2>1. z = [s EXCEPT !.owner = p.turn, !.sched = sched]
    BY <1>3 DEF Claimed
  <2> HIDE DEF z, sched
  <2>2. /\ DOMAIN z = ScreenFields /\ z.owner = p.turn /\ z.sched = sched
        /\ z.previous = s.previous /\ z.streamTurn = s.streamTurn
        /\ z.gate = s.gate /\ z.gateTimer = s.gateTimer
        /\ z.thinking = s.thinking /\ z.offered = s.offered
        /\ z.startDue = s.startDue /\ z.voice = s.voice
        /\ z.guarded = s.guarded /\ z.shown = s.shown
    BY <2>1, <1>1 DEF ScreenFields
  <2>3. AdoptEffect(s, z)
    BY <2>2 DEF AdoptEffect, sched
  <2>4. ScreenInv(z) /\ Settled(z)
    BY <1>3, <2>3, AdoptKeeps
  <2> QED
    BY <2>4 DEF z
<1>4. CASE ~p.processing /\ ~(s.owner = Pending /\ ~Ignored(s, p.turn))
  <2>1. z = s
    BY <1>4 DEF Claimed
  <2>2. Settled(s)
    BY <1>1, <1>4 DEF Settled, FenceInv, Awaiting, Heeded, Ignored, Turns
  <2> QED
    BY <2>1, <2>2
<1> QED
  BY <1>2, <1>3, <1>4

\* The thinking sentence is offered: the gate is of the payload's turn, and the
\* sentence is spoken if the gate is still closed and the player is free.
SpokenEffect(s, z) ==
    /\ DOMAIN z = ScreenFields
    /\ z.owner = s.owner /\ z.previous = s.previous /\ z.sched = s.sched
    /\ z.streamTurn = s.streamTurn /\ z.gateTimer = s.gateTimer
    /\ z.voice = s.voice /\ z.guarded = s.guarded /\ z.shown = s.shown
    /\ z.startDue = s.startDue
    /\ z.gate = Rebound(s.gate, payload.turn)
    /\ \/ s.offered = payload.turn /\ z.offered = s.offered
          /\ z.thinking = s.thinking
       \/ /\ s.offered # payload.turn /\ z.offered = payload.turn
          /\ IF z.gate.turn = payload.turn /\ ~z.gate.over /\ s.thinking = None
             THEN z.thinking = payload.turn ELSE z.thinking = s.thinking

LEMMA SpokenFields ==
    ASSUME NEW s, FieldsInv(s), payload.turn \in Turns
    PROVE  LET bound == [s EXCEPT !.gate = Rebound(@, payload.turn)]
           IN  SpokenEffect(s, IF s.offered # payload.turn
                               THEN Offered(bound, payload.turn) ELSE bound)
<1> DEFINE t == payload.turn
           bound == [s EXCEPT !.gate = Rebound(@, t)]
           z == IF s.offered # t THEN Offered(bound, t) ELSE bound
<1>1. /\ DOMAIN s = ScreenFields /\ t # Pending
      /\ s.gate \in [turn : Turns \cup {None, Pending}, over : BOOLEAN]
  BY DEF FieldsInv, Turns
<1>2. /\ DOMAIN bound = ScreenFields /\ bound.gate = Rebound(s.gate, t)
      /\ bound.owner = s.owner /\ bound.previous = s.previous
      /\ bound.sched = s.sched /\ bound.streamTurn = s.streamTurn
      /\ bound.gateTimer = s.gateTimer /\ bound.voice = s.voice
      /\ bound.guarded = s.guarded /\ bound.shown = s.shown
      /\ bound.startDue = s.startDue /\ bound.thinking = s.thinking
      /\ bound.offered = s.offered
  BY <1>1 DEF ScreenFields
<1>3. /\ bound.gate \in [turn : Turns \cup {None, Pending}, over : BOOLEAN]
      /\ bound.gate.turn # Pending
  BY <1>1, <1>2, ReboundFacts
<1>4. Rebound(bound.gate, t) = bound.gate
  BY <1>3, ReboundFacts
<1> HIDE DEF bound
<1>5. CASE s.offered = t
  <2>1. z = bound
    BY <1>5
  <2> HIDE DEF z
  <2>2. SpokenEffect(s, z)
    BY <2>1, <1>2, <1>5 DEF SpokenEffect
  <2> QED
    BY <2>2 DEF z, bound
<1>6. CASE s.offered # t /\ (bound.gate.turn # t \/ bound.gate.over \/ s.thinking # None)
  <2>1. z = [bound EXCEPT !.offered = t]
    BY <1>2, <1>3, <1>6 DEF Offered
  <2> HIDE DEF z
  <2>2. SpokenEffect(s, z)
    BY <2>1, <1>2, <1>6 DEF SpokenEffect, ScreenFields
  <2> QED
    BY <2>2 DEF z, bound
<1>7. CASE s.offered # t /\ ~(bound.gate.turn # t \/ bound.gate.over \/ s.thinking # None)
  <2>1. z = [bound EXCEPT !.offered = t, !.gate = Rebound(@, t), !.thinking = t]
    BY <1>2, <1>3, <1>7 DEF Offered
  <2> HIDE DEF z
  <2>2. /\ DOMAIN z = ScreenFields /\ z.gate = bound.gate
        /\ z.owner = bound.owner /\ z.previous = bound.previous
        /\ z.sched = bound.sched /\ z.streamTurn = bound.streamTurn
        /\ z.gateTimer = bound.gateTimer /\ z.voice = bound.voice
        /\ z.guarded = bound.guarded /\ z.shown = bound.shown
        /\ z.startDue = bound.startDue /\ z.thinking = t /\ z.offered = t
    BY <2>1, <1>2, <1>4 DEF ScreenFields
  <2>3. SpokenEffect(s, z)
    BY <2>2, <1>2, <1>7 DEF SpokenEffect
  <2> QED
    BY <2>3 DEF z, bound
<1> QED
  BY <1>5, <1>6, <1>7

\* Whom the fence lets in, for a visitor who is not hasty.
LEMMA LetIn ==
    ASSUME ContextInv, NEW s, ScreenInv(s), Settled(s), ~Ignored(s, payload.turn)
    PROVE  (~hasty /\ asked \in Turns \ tapped) => payload.turn = asked
<1>1. FenceInv(s) /\ payload.turn \in Turns \cup {None}
  BY DEF ScreenInv, TurnInv, ContextInv, PayloadInv, PayloadTypes
<1> QED
  BY <1>1 DEF FenceInv, Settled, Awaiting, Heeded, Ignored, Turns

LEMMA SpokenKeeps ==
    ASSUME ContextInv, NEW s, ScreenInv(s), Settled(s), ~Ignored(s, payload.turn),
           payload.turn \in Turns, NEW z, SpokenEffect(s, z)
    PROVE  ScreenInv(z) /\ Settled(z)
<1> DEFINE t == payload.turn
<1>1. /\ FieldsInv(s) /\ SchedInv(s.sched) /\ SoundInv(s) /\ BoundInv(s)
      /\ OnceInv(s) /\ FenceInv(s) /\ OrderInv(s) /\ GateInv(s)
  BY DEF ScreenInv, TurnInv
<1>2. /\ t = reply.turn /\ t # None /\ t # Pending
      /\ reply.turn \in Nat /\ asked \in 0..MaxTurns /\ reply.turn <= asked
      /\ (~hasty /\ asked \in Turns \ tapped) => t = asked
      /\ s.gate \in [turn : Turns \cup {None, Pending}, over : BOOLEAN]
      /\ s.thinking \in Turns \cup {None}
  BY <1>1, LetIn DEF ContextInv, PayloadInv, BackendInv, Turns, FieldsInv
<1>3. /\ z.gate \in [turn : Turns \cup {None, Pending}, over : BOOLEAN]
      /\ z.gate.over = s.gate.over
      /\ s.gate.turn = Pending => z.gate.turn = t
      /\ s.gate.turn # Pending => z.gate = s.gate
  BY <1>2, ReboundFacts DEF SpokenEffect
<1>4. \/ z.thinking = s.thinking
      \/ z.thinking = t /\ s.thinking = None /\ z.gate.turn = t /\ ~z.gate.over
  BY DEF SpokenEffect
<1>5. FieldsInv(z)
  BY <1>1, <1>3, <1>4 DEF SpokenEffect, FieldsInv
<1>6. SoundInv(z)
  <2>1. Sounding(z) => Sounding(s) /\ ~Blocked(s)
    BY <1>1 DEF SpokenEffect, Sounding, SoundInv
  <2>2. ~Blocked(s) => ~Blocked(z)
    BY <1>2, <1>3, <1>4 DEF Blocked
  <2> QED
    BY <2>1, <2>2, <1>1 DEF SpokenEffect, SoundInv
<1>7. TurnInv(z) /\ Settled(z)
  <2>1. z.gate.turn \in Turns => z.gate.turn <= reply.turn
    BY <1>1, <1>2, <1>3 DEF BoundInv
  <2> QED
    BY <2>1, <1>1 DEF SpokenEffect, TurnInv, BoundInv, OnceInv, FenceInv, Awaiting,
                      Heeded, Interrupted, Settled
<1>8. OrderInv(z) /\ SchedInv(z.sched)
  BY <1>1 DEF SpokenEffect, OrderInv
<1>9. GateInv(z)
  <2>1. z.gate.turn # Pending
    BY <1>2, <1>3
  <2>2. CASE s.gate.turn # Pending
    <3>1. z.gate = s.gate /\ z.gateTimer = s.gateTimer
      BY <2>2, <1>3 DEF SpokenEffect
    <3> QED
      BY <3>1, <2>1, <1>1, <1>4 DEF GateInv
  <2>3. CASE s.gate.turn = Pending
    <3>1. s.offered = None /\ s.thinking = None /\ z.gate.turn = t
      BY <2>3, <1>1, <1>3 DEF GateInv
    <3>2. z.gate.over \/ z.thinking = t
      BY <3>1, <1>2 DEF SpokenEffect
    <3>3. z.thinking \in {None, t}
      BY <3>1, <1>4
    <3> QED
      BY <3>1, <3>2, <3>3, <2>1, <1>2 DEF GateInv
  <2> QED
    BY <2>2, <2>3
<1> QED
  BY <1>5, <1>6, <1>7, <1>8, <1>9 DEF ScreenInv

LEMMA InterludeKeeps ==
    ASSUME ContextInv, NEW s, ScreenInv(s), Settled(s), ~Ignored(s, payload.turn)
    PROVE  ScreenInv(Interlude(s, payload)) /\ Settled(Interlude(s, payload))
<1> DEFINE p == payload
           bound == IF p.bridge = "none" THEN s
                    ELSE [s EXCEPT !.gate = Rebound(@, p.turn)]
           spoken == IF p.bridge = "audio" /\ s.offered # p.turn
                     THEN Offered(bound, p.turn) ELSE bound
           gate == Released(spoken.gate, p.turn)
           z == [spoken EXCEPT !.thinking = None, !.gate = gate]
<1>1. /\ p.bridge \in {"none", "audio"} /\ p.turn \in Turns \cup {None}
      /\ p.turn = None => p.bridge = "none" /\ ~p.bridgeFailed
      /\ reply.turn \in Nat /\ asked \in 0..MaxTurns /\ reply.turn <= asked
      /\ \A t \in tapped : 1..t \subseteq tapped
      /\ p.turn \in Turns => p.turn = reply.turn
      /\ p.bridgeFailed \in BOOLEAN
  BY DEF ContextInv, PayloadInv, PayloadTypes, NoPayload, BackendInv
<1>2. FieldsInv(s)
  BY DEF ScreenInv
<1>3. ScreenInv(spoken) /\ Settled(spoken)
  <2>1. CASE p.bridge = "none"
    BY <2>1
  <2>2. CASE p.bridge = "audio"
    <3> DEFINE b == [s EXCEPT !.gate = Rebound(@, p.turn)]
               y == IF s.offered # p.turn THEN Offered(b, p.turn) ELSE b
    <3>1. p.turn \in Turns
      BY <1>1, <2>2
    <3>2. SpokenEffect(s, y)
      BY <1>2, <3>1, SpokenFields
    <3>3. spoken = y
      BY <2>2
    <3> HIDE DEF y, spoken
    <3>4. ScreenInv(y) /\ Settled(y)
      BY <3>1, <3>2, SpokenKeeps
    <3> QED
      BY <3>3, <3>4
  <2> QED
    BY <2>1, <2>2, <1>1
<1>4. CASE ~p.bridgeFailed
  <2>1. Interlude(s, p) = spoken
    BY <1>4 DEF Interlude
  <2> HIDE DEF spoken
  <2> QED
    BY <1>3, <2>1
<1>5. CASE p.bridgeFailed
  <2>1. Interlude(s, p) = PlayQueued(z)
    BY <1>5 DEF Interlude
  <2> HIDE DEF spoken, gate
  <2>2. /\ FieldsInv(spoken) /\ GateInv(spoken) /\ BoundInv(spoken)
        /\ DOMAIN spoken = ScreenFields
        /\ spoken.gate \in [turn : Turns \cup {None, Pending}, over : BOOLEAN]
    BY <1>3 DEF ScreenInv, TurnInv, FieldsInv
  <2>3. /\ DOMAIN z = ScreenFields /\ z.gate = gate /\ z.thinking = None
        /\ z.owner = spoken.owner /\ z.previous = spoken.previous
        /\ z.sched = spoken.sched /\ z.streamTurn = spoken.streamTurn
        /\ z.voice = spoken.voice /\ z.offered = spoken.offered
        /\ z.guarded = spoken.guarded /\ z.shown = spoken.shown
        /\ z.startDue = spoken.startDue /\ z.gateTimer = spoken.gateTimer
    BY <2>2 DEF ScreenFields
  <2> HIDE DEF z
  <2>4. ReleaseEffect(spoken, p.turn, spoken.gateTimer, z)
    BY <2>2, <2>3, ReleasedFacts DEF ReleaseEffect, gate
  <2>5. GateInv(z)
    <3>1. (~hasty /\ asked \in Turns \ tapped) => p.turn = asked
      BY LetIn
    <3>2. ~hasty /\ z.gate.turn \notin tapped \cup {None} /\ ~z.gate.over
            => z.gate.turn = Pending
      <4> SUFFICES ASSUME ~hasty, z.gate.turn \notin tapped \cup {None}, ~z.gate.over,
                          z.gate.turn # Pending
                   PROVE  FALSE
        OBVIOUS
      <4>1. z.gate.turn = spoken.gate.turn /\ spoken.gate.turn # p.turn
        BY <2>4 DEF ReleaseEffect
      <4>2. spoken.gate.turn \in Turns
        BY <2>2, <4>1
      <4>3. spoken.gate.turn <= asked /\ spoken.gate.turn \in 1..asked
        BY <2>2, <4>2, <1>1 DEF BoundInv, Turns
      <4>4. asked \notin tapped
        BY <4>1, <4>3, <1>1
      <4>5. asked \in Turns \ tapped
        BY <4>3, <4>4, <1>1 DEF Turns
      <4> QED
        BY <3>1, <4>1, <4>5, <2>2 DEF GateInv
    <3>3. spoken.thinking # Pending
      BY <2>2 DEF FieldsInv, Turns
    <3> QED
      BY <2>2, <2>4, <3>2, <3>3 DEF GateInv, ReleaseEffect
  <2>6. ScreenInv(z) /\ Settled(z)
    BY <1>3, <2>4, <2>5, ReleaseKeeps
  <2> QED
    BY <2>1, <2>6, PlayKeeps
<1> QED
  BY <1>1, <1>4, <1>5

LEMMA PayloadKeeps ==
    ASSUME ContextInv, NEW s, ScreenInv(s)
    PROVE  ScreenInv(PayloadEffect(s, payload)) /\ Settled(PayloadEffect(s, payload))
<1> DEFINE claimed == Claimed(s, payload)
<1>1. ScreenInv(claimed) /\ Settled(claimed)
  BY ClaimKeeps
<1>2. PayloadEffect(s, payload) =
        IF Ignored(claimed, payload.turn) THEN claimed
                                          ELSE Interlude(claimed, payload)
  BY DEF PayloadEffect
<1> HIDE DEF claimed
<1> QED
  BY <1>1, <1>2, InterludeKeeps

-----------------------------------------------------------------------------
(* The steps of the screen keep the invariant *)

\* What a step may leave alone: all but the screen and the effects that are due.
SameContext == UNCHANGED <<asked, cancels, reply, payload, observers>>

LEMMA ContextKept ==
    ASSUME ContextInv, SameContext, dirty' \subseteq Effects
    PROVE  ContextInv'
<1>1. BackendInv'
  BY DEF ContextInv, BackendInv, SameContext, observers
<1>2. PayloadInv'
  BY DEF ContextInv, PayloadInv, PayloadTypes, SameContext, observers
<1>3. CalmInv'
  BY DEF ContextInv, CalmInv, SameContext, observers
<1> QED
  BY <1>1, <1>2, <1>3 DEF ContextInv

LEMMA ScreenKept ==
    ASSUME NEW s, ScreenInv(s), screen' = s, SameContext
    PROVE  ScreenInv(screen)' /\ (Settled(s) => Settled(screen)')
<1>1. FieldsInv(screen)' /\ SchedInv(screen.sched)' /\ SoundInv(screen)'
  BY DEF ScreenInv, FieldsInv, SchedInv, SoundInv, Sounding, Blocked
<1>2. BoundInv(screen)' /\ OnceInv(screen)'
  BY DEF ScreenInv, TurnInv, BoundInv, OnceInv, SameContext, observers
<1>3. FenceInv(screen)' /\ (Settled(s) => Settled(screen)')
  BY DEF ScreenInv, TurnInv, FenceInv, Awaiting, Heeded, Interrupted, Settled,
         SameContext, observers
<1>4. OrderInv(screen)' /\ GateInv(screen)'
  BY DEF ScreenInv, OrderInv, GateInv, SameContext, observers
<1> QED
  BY <1>1, <1>2, <1>3, <1>4 DEF ScreenInv, TurnInv

LEMMA ReadyKept ==
    ASSUME NEW s, screen' = s, SameContext, ReadyInv(s, dirty')
    PROVE  ReadyInv(screen, dirty)'
BY DEF ReadyInv, Startable, Live, Blocked, SameContext, observers

\* A step of the screen: what the handler makes of it has the invariant.
LEMMA StepKept ==
    ASSUME IInv, NEW s, screen' = s, SameContext, dirty' \subseteq Effects,
           ScreenInv(s), "payload" \in dirty' \/ Settled(s), ReadyInv(s, dirty')
    PROVE  IInv'
<1>1. ContextInv' /\ ScreenInv(screen)' /\ ReadyInv(screen, dirty)'
  BY ContextKept, ScreenKept, ReadyKept DEF IInv
<1>2. RenderInv'
  BY ScreenKept DEF RenderInv
<1> QED
  BY <1>1, <1>2 DEF IInv

LEMMA BecomesKept ==
    ASSUME IInv, NEW s, NEW effects \in SUBSET Effects, Becomes(s, effects),
           SameContext, ScreenInv(s), Settled(screen) => Settled(s),
           Moved(s) \/ "clips" \in effects \/ s = screen
    PROVE  IInv'
<1>1. /\ screen' = s /\ dirty \subseteq dirty' /\ effects \subseteq dirty'
      /\ dirty' \subseteq Effects
  BY DEF Becomes, IInv, ContextInv, BackendInv, Effects
<1>2. "payload" \in dirty' \/ Settled(s)
  BY <1>1 DEF IInv, RenderInv
<1>3. ReadyInv(s, dirty')
  BY <1>1 DEF ReadyInv, Moved, IInv
<1> QED
  BY <1>1, <1>2, <1>3, StepKept DEF IInv

LEMMA RenderStep == IInv /\ Render => IInv'
<1> SUFFICES ASSUME IInv, Render PROVE IInv'
  OBVIOUS
<1> DEFINE first == IF "payload" \in dirty THEN PayloadEffect(screen, payload)
                                           ELSE screen
           second == ClipsEffect(first, payload)
<1>1. /\ screen' = second /\ SameContext
      /\ dirty' \subseteq Effects
  BY DEF Render, SameContext, Effects
<1>2. ScreenInv(first) /\ Settled(first) /\ ContextInv
  BY PayloadKeeps DEF IInv, RenderInv
<1> HIDE DEF first
<1>3. ScreenInv(second) /\ Settled(second) /\ ReadyInv(second, dirty')
  BY <1>2, ClipsKeep
<1> HIDE DEF second
<1> QED
  BY <1>1, <1>3, StepKept

LEMMA RerenderStep == IInv /\ Rerender => IInv'
<1> SUFFICES ASSUME IInv, Rerender PROVE IInv'
  OBVIOUS
<1>1. SameContext /\ screen' = screen /\ dirty' = Effects
  BY DEF Rerender, SameContext
<1>2. ReadyInv(screen, dirty') /\ "payload" \in dirty'
  BY <1>1 DEF ReadyInv, Effects
<1> QED
  BY <1>1, <1>2, StepKept DEF IInv

LEMMA StartTimerStep == IInv /\ StartTimer => IInv'
<1> SUFFICES ASSUME IInv, StartTimer PROVE IInv'
  OBVIOUS
<1> DEFINE z == [screen EXCEPT !.startDue = FALSE]
<1>1. ContextInv /\ ScreenInv(screen) /\ DOMAIN screen = ScreenFields /\ GateInv(screen)
  BY DEF IInv, ScreenInv, FieldsInv
<1>2. Becomes(PlayQueued(z), {}) /\ SameContext
  BY DEF StartTimer, SameContext
<1>3. /\ DOMAIN z = ScreenFields /\ z.owner = screen.owner
      /\ z.previous = screen.previous /\ z.sched = screen.sched
      /\ z.streamTurn = screen.streamTurn /\ z.gate = screen.gate
      /\ z.thinking = screen.thinking /\ z.offered = screen.offered
      /\ z.voice = screen.voice
      /\ z.guarded = screen.guarded /\ z.shown = screen.shown
      /\ z.gateTimer = screen.gateTimer /\ z.startDue = FALSE
  BY <1>1 DEF ScreenFields
<1> HIDE DEF z
<1>4. GateInv(z) /\ FALSE \in BOOLEAN
  BY <1>1, <1>3 DEF GateInv
<1>5. ScreenInv(z) /\ (Settled(screen) => Settled(z))
  BY <1>1, <1>3, <1>4, TimersKeep
<1>6. /\ ScreenInv(PlayQueued(z)) /\ Moved(PlayQueued(z))
      /\ Settled(screen) => Settled(PlayQueued(z))
  BY <1>1, <1>5, PlayKeeps
<1> QED
  BY <1>2, <1>6, BecomesKept

\* The gate of turn t is opened, and what was held back may start.
LEMMA ReleaseStep ==
    ASSUME IInv, NEW t, t # None, SameContext,
           \/ t = screen.thinking
           \/ t = screen.gateTimer /\ t = screen.gate.turn,
           Becomes(PlayQueued([screen EXCEPT !.thinking = None,
                                             !.gate = Released(@, t),
                                             !.gateTimer = None]), Effects)
    PROVE  IInv'
<1> DEFINE gate == Released(screen.gate, t)
           z == [screen EXCEPT !.thinking = None, !.gate = gate, !.gateTimer = None]
<1>1. /\ ContextInv /\ ScreenInv(screen) /\ GateInv(screen) /\ FieldsInv(screen)
      /\ DOMAIN screen = ScreenFields
      /\ screen.gate \in [turn : Turns \cup {None, Pending}, over : BOOLEAN]
  BY DEF IInv, ScreenInv, FieldsInv
<1>2. Becomes(PlayQueued(z), Effects)
  BY <1>1 DEF ScreenFields
<1>3. /\ DOMAIN z = ScreenFields /\ z.gate = gate /\ z.thinking = None
      /\ z.owner = screen.owner /\ z.previous = screen.previous
      /\ z.sched = screen.sched /\ z.streamTurn = screen.streamTurn
      /\ z.voice = screen.voice /\ z.offered = screen.offered
      /\ z.guarded = screen.guarded /\ z.shown = screen.shown
      /\ z.startDue = screen.startDue /\ z.gateTimer = None
  BY <1>1 DEF ScreenFields
<1> HIDE DEF z
<1>4. ReleaseEffect(screen, t, None, z)
  BY <1>1, <1>3, ReleasedFacts DEF ReleaseEffect, gate
<1>5. GateInv(z)
  <2>1. /\ z.gate.turn = screen.gate.turn
        /\ z.gate.over = (screen.gate.over \/ screen.gate.turn = t)
        /\ z.thinking = None /\ z.offered = screen.offered
    BY <1>4 DEF ReleaseEffect
  <2>2. ASSUME ~hasty, z.gate.turn \notin tapped \cup {None}, ~z.gate.over
        PROVE  FALSE
    <3>1. screen.gate.turn # t /\ t = screen.thinking
      BY <2>1, <2>2
    <3>2. screen.thinking = screen.gate.turn
      BY <3>1, <2>1, <2>2, <1>1 DEF GateInv
    <3> QED
      BY <3>1, <3>2
  <2> QED
    BY <2>1, <2>2, <1>1 DEF GateInv
<1>6. ScreenInv(z) /\ (Settled(screen) => Settled(z))
  BY <1>1, <1>4, <1>5, ReleaseKeeps
<1>7. ScreenInv(PlayQueued(z)) /\ (Settled(screen) => Settled(PlayQueued(z)))
  BY <1>1, <1>6, PlayKeeps
<1> QED
  BY <1>2, <1>7, BecomesKept DEF Effects

LEMMA ThinkingEndsStep == IInv /\ ThinkingEnds => IInv'
<1> SUFFICES ASSUME IInv, ThinkingEnds PROVE IInv'
  OBVIOUS
<1>0. PICK t : t = screen.thinking
  OBVIOUS
<1>1. SameContext /\ t # None /\ t = screen.thinking
  BY <1>0 DEF ThinkingEnds, SameContext
<1>2. Becomes(PlayQueued([screen EXCEPT !.thinking = None,
                              !.gate = Released(@, t),
                              !.gateTimer = None]), Effects)
  BY <1>0 DEF ThinkingEnds
<1> QED
  BY <1>1, <1>2, ReleaseStep

LEMMA ThinkingTimeoutStep == IInv /\ ThinkingTimeout => IInv'
<1> SUFFICES ASSUME IInv, ThinkingTimeout PROVE IInv'
  OBVIOUS
<1>0. SameContext /\ screen.gateTimer # None
  BY DEF ThinkingTimeout, SameContext
<1>1. CASE screen.gate.turn = screen.gateTimer /\ ~screen.gate.over
  <2>1. Becomes(PlayQueued([screen EXCEPT !.thinking = None,
                                !.gate = Released(@, screen.gateTimer),
                                !.gateTimer = None]), Effects)
    BY <1>1 DEF ThinkingTimeout
  <2> QED
    BY <1>0, <1>1, <2>1, ReleaseStep
<1>2. CASE ~(screen.gate.turn = screen.gateTimer /\ ~screen.gate.over)
  <2> DEFINE z == [screen EXCEPT !.gateTimer = None]
  <2>1. /\ ContextInv /\ ScreenInv(screen) /\ GateInv(screen)
        /\ DOMAIN screen = ScreenFields /\ ReadyInv(screen, dirty) /\ RenderInv
    BY DEF IInv, ScreenInv, FieldsInv
  <2>2. Becomes(z, {})
    BY <1>2 DEF ThinkingTimeout
  <2>3. /\ DOMAIN z = ScreenFields /\ z.owner = screen.owner
        /\ z.previous = screen.previous /\ z.sched = screen.sched
        /\ z.streamTurn = screen.streamTurn /\ z.gate = screen.gate
        /\ z.thinking = screen.thinking /\ z.offered = screen.offered
        /\ z.voice = screen.voice
        /\ z.guarded = screen.guarded /\ z.shown = screen.shown
        /\ z.gateTimer = None /\ z.startDue = screen.startDue
    BY <2>1 DEF ScreenFields
  <2> HIDE DEF z
  <2>4. GateInv(z)
    BY <1>2, <2>1, <2>3 DEF GateInv
  <2>5. ScreenInv(z) /\ (Settled(screen) => Settled(z))
    <3>1. screen.startDue \in BOOLEAN
      BY <2>1 DEF ScreenInv, FieldsInv
    <3> QED
      BY <2>1, <2>3, <2>4, <3>1, TimersKeep
  <2>6. screen' = z /\ dirty' = dirty
    BY <2>2, <2>3 DEF Becomes
  <2>7. ReadyInv(z, dirty') /\ ("payload" \in dirty' \/ Settled(z))
    BY <2>1, <2>3, <2>5, <2>6 DEF ReadyInv, Blocked, RenderInv
  <2>8. dirty' \subseteq Effects
    BY <2>1, <2>6 DEF ContextInv, BackendInv
  <2> QED
    BY <1>0, <2>5, <2>6, <2>7, <2>8, StepKept
<1> QED
  BY <1>1, <1>2

\* The clip that was on is over.
LEMMA FinishStep ==
    ASSUME IInv, Sounding(screen), NEW status \in Over, SameContext,
           Becomes(Finished([screen EXCEPT !.voice.phase = "over"],
                            screen.voice.seq, status), {})
    PROVE  IInv'
<1>1. ContextInv /\ ScreenInv(screen) /\ FieldsInv(screen)
  BY DEF IInv, ScreenInv
<1>2. PICK z : /\ FinishEffect(screen, status, z)
               /\ Finished([screen EXCEPT !.voice.phase = "over"],
                           screen.voice.seq, status) = PlayQueued(z)
  BY <1>1, FinishFields
<1>3. ScreenInv(z) /\ (Settled(screen) => Settled(z))
  BY <1>1, <1>2, FinishKeeps
<1>4. /\ ScreenInv(PlayQueued(z)) /\ Moved(PlayQueued(z))
      /\ Settled(screen) => Settled(PlayQueued(z))
  BY <1>1, <1>3, PlayKeeps
<1> QED
  BY <1>2, <1>4, BecomesKept

LEMMA ClipOverStep == IInv /\ (ClipRefused \/ ClipEnds \/ ClipTimeout) => IInv'
<1>1. ASSUME IInv, ClipRefused PROVE IInv'
  BY <1>1, FinishStep DEF ClipRefused, SameContext, Sounding, Over
<1>2. ASSUME IInv, ClipEnds PROVE IInv'
  BY <1>2, FinishStep DEF ClipEnds, SameContext, Sounding, Over
<1>3. ASSUME IInv, ClipTimeout PROVE IInv'
  BY <1>3, FinishStep DEF ClipTimeout, SameContext, Sounding, Over
<1> QED
  BY <1>1, <1>2, <1>3

-----------------------------------------------------------------------------
(* The steps of the backend *)

LEMMA FrameKept ==
    ASSUME IInv, UNCHANGED <<asked, cancels, screen, heard, left, tapped, hasty>>,
           holed \subseteq holed',
           reply'.turn = reply.turn, payload'.turn = payload.turn,
           payload'.processing => payload.processing,
           \/ dirty' = Effects
           \/ dirty' = dirty
    PROVE  ScreenInv(screen)' /\ CalmInv' /\ RenderInv' /\ ReadyInv(screen, dirty)'
<1>0. ScreenInv(screen) /\ CalmInv /\ RenderInv /\ ReadyInv(screen, dirty)
  BY DEF IInv, ContextInv
<1>1. FieldsInv(screen)' /\ SchedInv(screen.sched)' /\ SoundInv(screen)'
  BY <1>0 DEF ScreenInv, FieldsInv, SchedInv, SoundInv, Sounding, Blocked
<1>2. BoundInv(screen)' /\ OnceInv(screen)'
  BY <1>0 DEF ScreenInv, TurnInv, BoundInv, OnceInv
<1>3. FenceInv(screen)' /\ (Settled(screen) => Settled(screen)')
  BY <1>0 DEF ScreenInv, TurnInv, FenceInv, Awaiting, Heeded, Interrupted, Settled
<1>4. OrderInv(screen)' /\ GateInv(screen)'
  BY <1>0 DEF ScreenInv, OrderInv, GateInv
<1>5. CalmInv' /\ RenderInv'
  BY <1>0, <1>3 DEF CalmInv, RenderInv, Effects
<1>6. ReadyInv(screen, dirty)'
  BY <1>0 DEF ReadyInv, Effects, Startable, Live, Blocked
<1> QED
  BY <1>1, <1>2, <1>3, <1>4, <1>5, <1>6 DEF ScreenInv, TurnInv

LEMMA ServeStep == IInv /\ Serve => IInv'
<1> SUFFICES ASSUME IInv, Serve PROVE IInv'
  OBVIOUS
<1>0. /\ BackendInv /\ PayloadInv /\ CalmInv /\ ScreenInv(screen)
      /\ asked \in 0..MaxTurns /\ reply.turn \in Nat
  BY DEF IInv, ContextInv, BackendInv
<1>1. PICK t \in (reply.turn + 1)..asked :
        /\ \A c \in cancels : t <= c
        /\ reply' = [turn |-> t, live |-> TRUE, next |-> 1, bridged |-> FALSE,
                     final |-> FALSE]
        /\ payload' = [NoPayload EXCEPT !.turn = t, !.processing = TRUE,
                                        !.cards = t \in CardTurns]
        /\ dirty' = Effects
        /\ UNCHANGED <<asked, cancels, screen, observers>>
  BY DEF Serve, Receive
<1>2. /\ t \in Turns /\ t > reply.turn /\ t <= asked /\ t \in Nat
      /\ UNCHANGED <<asked, cancels, screen, heard, left, tapped, holed, hasty>>
  BY <1>0, <1>1 DEF Turns, observers
<1> DEFINE cards == t \in CardTurns
<1>3. payload' = [turn |-> t, cards |-> cards, processing |-> TRUE,
                  bridge |-> "none", bridgeFailed |-> FALSE, chunk |-> 0,
                  good |-> FALSE, slots |-> <<>>, queue |-> <<>>]
  BY <1>1 DEF NoPayload
<1>4. cards \in BOOLEAN
  OBVIOUS
<1> HIDE DEF cards
<1>5. /\ payload'.turn = t /\ payload'.processing = TRUE /\ payload'.chunk = 0
      /\ payload'.slots = <<>> /\ payload'.queue = <<>>
      /\ PayloadTypes'
  BY <1>2, <1>3, <1>4 DEF PayloadTypes
<1>6. /\ reply'.turn = t /\ reply'.next = 1 /\ reply'.live = TRUE
      /\ reply'.final = FALSE
      /\ reply' \in [turn : 0..asked, live : BOOLEAN, next : 1..(Chunks + 1),
                     bridged : BOOLEAN, final : BOOLEAN]
  BY <1>0, <1>1, <1>2
<1>7. Len(<<>>) = 0
  OBVIOUS
<1>8. heard[t] = 0
  BY <1>0, <1>2 DEF BackendInv
<1>9. BackendInv'
  <2>1. \A u \in tapped' : reply'.turn < u => \E c \in cancels' : u <= c
    <3> SUFFICES ASSUME NEW u \in tapped, t < u
                 PROVE  \E c \in cancels : u <= c
      BY <1>2, <1>6
    <3>1. u \in Nat /\ reply.turn < u
      BY <1>0, <1>2 DEF BackendInv
    <3> QED
      BY <1>0, <3>1 DEF BackendInv
  <2>2. \A u \in Turns : heard'[u] # 0 => u <= t
    BY <1>0, <1>2 DEF BackendInv, Turns
  <2>3. \A c \in cancels' : t <= c
    BY <1>1, <1>2
  <2> QED
    BY <2>1, <2>2, <2>3, <1>0, <1>1, <1>2, <1>6 DEF BackendInv
<1>10. PayloadInv'
  <2>1. t \in tapped => \E c \in cancels : t <= c
    BY <1>0, <1>2 DEF BackendInv
  <2>2. t # None
    BY <1>2 DEF Turns
  <2> QED
    BY <2>1, <2>2, <1>2, <1>5, <1>6, <1>7, <1>8 DEF PayloadInv
<1>11. ~hasty => t = asked
  BY <1>0, <1>2 DEF CalmInv
<1>12. CalmInv'
  BY <1>0, <1>2, <1>5, <1>6, <1>11 DEF CalmInv
<1>13. FieldsInv(screen)' /\ SchedInv(screen.sched)' /\ SoundInv(screen)'
  BY <1>0, <1>2 DEF ScreenInv, FieldsInv, SchedInv, SoundInv, Sounding, Blocked
<1>14. BoundInv(screen)' /\ OnceInv(screen)'
  BY <1>0, <1>2, <1>5, <1>6, <1>8 DEF ScreenInv, TurnInv, BoundInv, OnceInv, Turns
<1>15. FenceInv(screen)'
  <2>1. FenceInv(screen) /\ (payload.turn \in Turns => payload.turn = reply.turn)
    BY <1>0 DEF ScreenInv, TurnInv, PayloadInv
  <2> QED
    BY <2>1, <1>2, <1>5, <1>11 DEF FenceInv, Awaiting, Heeded, Interrupted, Turns
<1>16. OrderInv(screen)' /\ GateInv(screen)'
  BY <1>0, <1>2 DEF ScreenInv, OrderInv, GateInv
<1>17. RenderInv' /\ ReadyInv(screen, dirty)'
  BY <1>1 DEF RenderInv, ReadyInv, Effects
<1> QED
  BY <1>9, <1>10, <1>12, <1>13, <1>14, <1>15, <1>16, <1>17
     DEF IInv, ContextInv, ScreenInv, TurnInv

LEMMA CancelStep == IInv /\ Cancel => IInv'
<1> SUFFICES ASSUME IInv, Cancel PROVE IInv'
  OBVIOUS
<1>0. /\ BackendInv /\ PayloadInv /\ CalmInv /\ ScreenInv(screen)
      /\ asked \in 0..MaxTurns /\ reply.turn \in Nat
  BY DEF IInv, ContextInv, BackendInv
<1>1. PICK c \in cancels :
        /\ \A d \in cancels : c <= d
        /\ cancels' = cancels \ {c}
        /\ reply' = [reply EXCEPT !.turn = c, !.live = FALSE]
        /\ payload' = NoPayload
        /\ dirty' = Effects
        /\ UNCHANGED <<asked, screen, observers>>
  BY DEF Cancel, Receive
<1>2. /\ c \in Turns /\ c \in tapped /\ c >= reply.turn /\ c <= asked /\ c \in Nat
      /\ UNCHANGED <<asked, screen, heard, left, tapped, holed, hasty>>
  BY <1>0, <1>1 DEF BackendInv, Turns, observers
<1>3. /\ payload'.turn = None /\ payload'.processing = FALSE
      /\ payload'.slots = <<>> /\ payload'.queue = <<>>
      /\ PayloadTypes'
  <2>1. /\ NoPayload.turn = None /\ NoPayload.processing = FALSE
        /\ NoPayload.slots = <<>> /\ NoPayload.queue = <<>>
    BY DEF NoPayload
  <2>2. <<>> \in Seq({"READY", "FAILED"}) /\ <<>> \in Seq(Content)
    OBVIOUS
  <2>3. NoPayload \in [turn : Turns \cup {None}, cards : BOOLEAN,
                 processing : BOOLEAN, bridge : {"none", "audio"},
                 bridgeFailed : BOOLEAN, chunk : 0..Chunks, good : BOOLEAN,
                 slots : Seq({"READY", "FAILED"}), queue : Seq(Content)]
    BY <2>2 DEF NoPayload
  <2> QED
    BY <1>1, <2>1, <2>3 DEF PayloadTypes
<1>4. /\ reply'.turn = c /\ reply'.live = FALSE
      /\ reply'.next = reply.next /\ reply'.final = reply.final
      /\ reply' \in [turn : 0..asked, live : BOOLEAN, next : 1..(Chunks + 1),
                     bridged : BOOLEAN, final : BOOLEAN]
      /\ reply.next \in 1..(Chunks + 1)
  <2>1. reply \in [turn : 0..asked, live : BOOLEAN, next : 1..(Chunks + 1),
                   bridged : BOOLEAN, final : BOOLEAN]
    BY <1>0 DEF BackendInv
  <2>2. c \in 0..asked /\ reply' = [reply EXCEPT !.turn = c, !.live = FALSE]
    BY <1>0, <1>1, <1>2
  <2> QED
    BY <2>1, <2>2
<1>5. Len(<<>>) = 0
  OBVIOUS
<1>6. BackendInv'
  <2>1. \A d \in cancels' : c <= d
    BY <1>1
  <2>2. ASSUME NEW u \in tapped, c < u
        PROVE  \E d \in cancels' : u <= d
    <3>1. u \in Nat /\ reply.turn < u
      BY <1>0, <1>2, <2>2 DEF BackendInv
    <3>2. PICK d \in cancels : u <= d
      BY <1>0, <2>2, <3>1 DEF BackendInv
    <3>3. d # c
      BY <1>2, <2>2, <3>1, <3>2
    <3> QED
      BY <1>1, <3>2, <3>3
  <2>3. \A u \in Turns : heard'[u] # 0 => u <= c
    BY <1>0, <1>2 DEF BackendInv, Turns
  <2> QED
    BY <2>1, <2>2, <2>3, <1>0, <1>1, <1>2, <1>4 DEF BackendInv
<1>7. PayloadInv'
  <2>1. tapped \subseteq 1..asked
    BY <1>0 DEF BackendInv
  <2>4. \A u \in tapped : u \in Turns
    BY <2>1, <1>0 DEF Turns
  <2>5. None \notin Turns
    BY DEF Turns
  <2>3. None \notin Turns /\ None \notin tapped'
    BY <2>4, <2>5, <1>2
  <2>2. 0 <= reply'.next - 1 /\ 0 <= Chunks
    BY <1>4
  <2> QED
    BY <2>2, <2>3, <1>0, <1>1, <1>2, <1>3, <1>4, <1>5 DEF PayloadInv
<1>8. ~hasty => asked \notin Turns \ tapped
  BY <1>0, <1>1 DEF CalmInv
<1>9. CalmInv'
  BY <1>0, <1>2, <1>3, <1>4, <1>8 DEF CalmInv
<1>10. FieldsInv(screen)' /\ SchedInv(screen.sched)' /\ SoundInv(screen)'
  BY <1>0, <1>2 DEF ScreenInv, FieldsInv, SchedInv, SoundInv, Sounding, Blocked
<1>11. BoundInv(screen)' /\ OnceInv(screen)'
  BY <1>0, <1>2, <1>3, <1>4 DEF ScreenInv, TurnInv, BoundInv, OnceInv, Turns
<1>12. FenceInv(screen)'
  BY <1>0, <1>2, <1>3, <1>8
     DEF ScreenInv, TurnInv, FenceInv, Interrupted, Turns
<1>13. OrderInv(screen)' /\ GateInv(screen)'
  BY <1>0, <1>2 DEF ScreenInv, OrderInv, GateInv
<1>14. RenderInv' /\ ReadyInv(screen, dirty)'
  BY <1>1 DEF RenderInv, ReadyInv, Effects
<1> QED
  BY <1>6, <1>7, <1>9, <1>10, <1>11, <1>12, <1>13, <1>14
     DEF IInv, ContextInv, ScreenInv, TurnInv

\* What a frame of the reply that is served starts from.
LEMMA ServedFacts ==
    ASSUME IInv, reply.live
    PROVE  /\ reply.turn \in Turns /\ payload.turn = reply.turn
           /\ payload.turn # None /\ reply.turn <= asked
           /\ PayloadTypes /\ payload.queue \in Seq(Content)
           /\ payload.slots \in Seq({"READY", "FAILED"})
           /\ reply \in [turn : 0..asked, live : BOOLEAN, next : 1..(Chunks + 1),
                         bridged : BOOLEAN, final : BOOLEAN]
           /\ asked \in 0..MaxTurns
BY DEF IInv, ContextInv, BackendInv, PayloadInv, PayloadTypes, Turns

\* The observers of the backend are left alone by its frames.
LEMMA BackendKept ==
    ASSUME IInv, UNCHANGED <<asked, cancels, heard, left, tapped, hasty>>,
           reply' \in [turn : 0..asked, live : BOOLEAN, next : 1..(Chunks + 1),
                       bridged : BOOLEAN, final : BOOLEAN],
           reply'.turn = reply.turn, dirty' \subseteq Effects
    PROVE  BackendInv'
BY DEF IInv, ContextInv, BackendInv

LEMMA SendBridgeStep == IInv /\ SendBridge => IInv'
<1> SUFFICES ASSUME IInv, SendBridge PROVE IInv'
  OBVIOUS
<1>1. /\ reply.live /\ reply' = [reply EXCEPT !.bridged = TRUE]
      /\ dirty' = Effects
      /\ UNCHANGED <<asked, cancels, screen, heard, left, tapped, holed, hasty>>
      /\ \/ payload' = [payload EXCEPT !.bridge = "audio"]
         \/ payload' = [payload EXCEPT !.bridgeFailed = TRUE]
  BY DEF SendBridge, Receive, observers
<1>2. /\ reply.turn \in Turns /\ payload.turn = reply.turn /\ payload.turn # None
      /\ PayloadTypes
      /\ reply \in [turn : 0..asked, live : BOOLEAN, next : 1..(Chunks + 1),
                    bridged : BOOLEAN, final : BOOLEAN]
  BY <1>1, ServedFacts
<1>3. /\ PayloadTypes'
      /\ payload'.turn = payload.turn /\ payload'.cards = payload.cards
      /\ payload'.processing = payload.processing
      /\ payload'.chunk = payload.chunk /\ payload'.slots = payload.slots
      /\ payload'.queue = payload.queue
  <2>1. CASE payload' = [payload EXCEPT !.bridge = "audio"]
    BY <1>2, <2>1 DEF PayloadTypes
  <2>2. CASE payload' = [payload EXCEPT !.bridgeFailed = TRUE]
    BY <1>2, <2>2 DEF PayloadTypes
  <2> QED
    BY <1>1, <2>1, <2>2
<1>4. /\ reply'.turn = reply.turn /\ reply'.next = reply.next
      /\ reply'.live = reply.live /\ reply'.final = reply.final
      /\ reply' \in [turn : 0..asked, live : BOOLEAN, next : 1..(Chunks + 1),
                     bridged : BOOLEAN, final : BOOLEAN]
  BY <1>1, <1>2
<1>5. BackendInv'
  BY <1>1, <1>4, BackendKept
<1>6. PayloadInv'
  <2>1. PayloadInv
    BY DEF IInv, ContextInv
  <2> QED
    BY <2>1, <1>1, <1>2, <1>3, <1>4 DEF PayloadInv
<1>7. ScreenInv(screen)' /\ CalmInv' /\ RenderInv' /\ ReadyInv(screen, dirty)'
  <2>1. holed \subseteq holed'
    BY <1>1
  <2> QED
    BY <2>1, <1>1, <1>3, <1>4, FrameKept
<1> QED
  BY <1>5, <1>6, <1>7 DEF IInv, ContextInv

\* A chunk of the reply: its audio, a FAILED slot, or nothing at all.
LEMMA SendChunkStep == IInv /\ SendChunk => IInv'
<1> SUFFICES ASSUME IInv, SendChunk PROVE IInv'
  OBVIOUS
<1> DEFINE n == reply.next
<1>1. /\ reply.live /\ n \in Index /\ reply' = [reply EXCEPT !.next = n + 1]
      /\ UNCHANGED <<asked, cancels, screen, heard, left, tapped, hasty>>
  BY DEF SendChunk
<1>2. /\ reply.turn \in Turns /\ payload.turn = reply.turn /\ payload.turn # None
      /\ PayloadTypes /\ payload.queue \in Seq(Content)
      /\ payload.slots \in Seq({"READY", "FAILED"})
      /\ reply \in [turn : 0..asked, live : BOOLEAN, next : 1..(Chunks + 1),
                    bridged : BOOLEAN, final : BOOLEAN]
  BY <1>1, ServedFacts
<1>3. PayloadInv
  BY DEF IInv, ContextInv
<1>4. /\ reply'.turn = reply.turn /\ reply'.next = n + 1
      /\ reply'.live = reply.live /\ reply'.final = reply.final
      /\ reply' \in [turn : 0..asked, live : BOOLEAN, next : 1..(Chunks + 1),
                     bridged : BOOLEAN, final : BOOLEAN]
      /\ n \in 0..Chunks /\ ~reply.final
  <2>1. n \in 1..Chunks /\ n + 1 \in 1..(Chunks + 1)
    BY <1>1 DEF Index
  <2>2. ~reply.final
    BY <1>3, <2>1 DEF PayloadInv
  <2> DEFINE m == n + 1
  <2>3. m \in 1..(Chunks + 1) /\ reply' = [reply EXCEPT !.next = m]
    BY <1>1, <2>1
  <2> HIDE DEF m
  <2>4. /\ reply'.turn = reply.turn /\ reply'.next = m
        /\ reply'.live = reply.live /\ reply'.final = reply.final
        /\ reply' \in [turn : 0..asked, live : BOOLEAN, next : 1..(Chunks + 1),
                       bridged : BOOLEAN, final : BOOLEAN]
    BY <1>2, <2>3
  <2> QED
    BY <2>1, <2>2, <2>4 DEF m
<1>5. ASSUME NEW good \in BOOLEAN, payload.cards, dirty' = Effects, holed' = holed,
             payload' = [payload EXCEPT
                    !.processing = FALSE, !.bridgeFailed = FALSE,
                    !.chunk = n, !.good = good,
                    !.slots = Append(@, IF good THEN "READY" ELSE "FAILED")]
      PROVE  PayloadInv' /\ payload'.turn = payload.turn /\ ~payload'.processing
  <2> DEFINE sl == Append(payload.slots, IF good THEN "READY" ELSE "FAILED")
  <2>1. sl \in Seq({"READY", "FAILED"}) /\ Len(sl) = Len(payload.slots) + 1
    BY <1>2
  <2>2. payload' = [payload EXCEPT !.processing = FALSE, !.bridgeFailed = FALSE,
                                   !.chunk = n, !.good = good, !.slots = sl]
    BY <1>2, <1>5 DEF PayloadTypes
  <2> HIDE DEF sl
  <2>3. /\ PayloadTypes'
        /\ payload'.turn = payload.turn /\ payload'.cards = payload.cards
        /\ payload'.processing = FALSE
        /\ payload'.slots = sl /\ payload'.queue = payload.queue
    BY <1>2, <1>4, <2>1, <2>2 DEF PayloadTypes
  <2>4. Len(sl) <= n /\ Len(sl) <= Chunks
    BY <1>2, <1>3, <1>4, <2>1 DEF PayloadInv
  <2>5. ~reply.final => Len(payload.queue) <= n
    BY <1>2, <1>3, <1>4 DEF PayloadInv
  <2> QED
    BY <1>1, <1>2, <1>3, <1>4, <1>5, <2>3, <2>4, <2>5 DEF PayloadInv
<1>6. ASSUME ~payload.cards, dirty' = Effects, holed' = holed,
             payload' = [payload EXCEPT
                !.processing = FALSE, !.bridgeFailed = FALSE,
                !.chunk = n, !.good = TRUE,
                !.queue = Append(@, n)]
      PROVE  PayloadInv' /\ payload'.turn = payload.turn /\ ~payload'.processing
  <2> DEFINE q == Append(payload.queue, n)
  <2>0. n \in Content
    BY <1>1 DEF Content
  <2>1. /\ q \in Seq(Content) /\ Len(q) = Len(payload.queue) + 1
        /\ \A i \in 1..Len(payload.queue) : q[i] = payload.queue[i]
        /\ q[Len(payload.queue) + 1] = n
        /\ Len(payload.queue) \in Nat
    BY <1>2, <2>0
  <2>2. payload' = [payload EXCEPT !.processing = FALSE, !.bridgeFailed = FALSE,
                                   !.chunk = n, !.good = TRUE, !.queue = q]
    BY <1>2, <1>6 DEF PayloadTypes
  <2> HIDE DEF q
  <2>3. /\ PayloadTypes'
        /\ payload'.turn = payload.turn /\ payload'.cards = payload.cards
        /\ payload'.processing = FALSE
        /\ payload'.slots = payload.slots /\ payload'.queue = q
    BY <1>2, <1>4, <2>1, <2>2 DEF PayloadTypes
  <2>4. Len(payload.slots) <= n
    BY <1>2, <1>3, <1>4 DEF PayloadInv
  <2>5. Len(q) <= Chunks /\ Len(q) <= n
    BY <1>3, <1>4, <2>1 DEF PayloadInv
  <2>6. ASSUME payload.turn \notin holed
        PROVE  /\ \A i \in 1..Len(q) : q[i] = i
               /\ Len(q) = n
    <3>1. /\ \A i \in 1..Len(payload.queue) : payload.queue[i] = i
          /\ Len(payload.queue) = n - 1
      BY <2>6, <1>2, <1>3, <1>4, <1>6 DEF PayloadInv
    <3>2. Len(q) = n /\ q[n] = n
      BY <3>1, <2>1, <1>4
    <3>3. ASSUME NEW i \in 1..n
          PROVE  q[i] = i
      <4>1. i = n \/ i \in 1..Len(payload.queue)
        BY <3>1, <1>4
      <4> QED
        BY <3>1, <3>2, <2>1, <4>1
    <3> QED
      BY <3>2, <3>3
  <2>7. reply'.next - 1 = n /\ payload'.turn # None /\ payload'.turn = reply'.turn
    BY <1>2, <1>4, <2>3
  <2>8. payload'.turn \in Turns \ holed' =>
            /\ \A i \in 1..Len(q) : q[i] = i
            /\ Len(q) = n
    BY <2>6, <2>3, <1>6
  <2> QED
    BY <1>1, <1>3, <1>4, <2>3, <2>4, <2>5, <2>7, <2>8 DEF PayloadInv
<1>7. /\ PayloadInv' /\ payload'.turn = payload.turn /\ holed \subseteq holed'
      /\ payload'.processing => payload.processing
      /\ dirty' = Effects \/ dirty' = dirty
  <2>1. CASE /\ ~payload.cards /\ holed' = holed \cup {reply.turn}
             /\ UNCHANGED <<payload, dirty>>
    <3>1. PayloadInv'
      BY <2>1, <1>1, <1>2, <1>3, <1>4 DEF PayloadInv, PayloadTypes
    <3> QED
      BY <2>1, <3>1
  <2> QED
    BY <1>5, <1>6, <2>1 DEF SendChunk, Receive
<1>8. dirty' \subseteq Effects
  BY <1>7 DEF IInv, ContextInv, BackendInv
<1>9. BackendInv'
  BY <1>1, <1>4, <1>8, BackendKept
<1>10. ScreenInv(screen)' /\ CalmInv' /\ RenderInv' /\ ReadyInv(screen, dirty)'
  BY <1>1, <1>4, <1>7, FrameKept
<1> QED
  BY <1>7, <1>9, <1>10 DEF IInv, ContextInv

\* The final frame, with the whole reply in one audio if no chunk was made.
LEMMA SendFinalStep == IInv /\ SendFinal => IInv'
<1> SUFFICES ASSUME IInv, SendFinal PROVE IInv'
  OBVIOUS
<1>1. /\ reply.live /\ reply.next > Chunks /\ ~reply.final
      /\ reply' = [reply EXCEPT !.final = TRUE] /\ dirty' = Effects
      /\ UNCHANGED <<asked, cancels, screen, heard, left, tapped, holed, hasty>>
  BY DEF SendFinal, Receive, observers
<1>2. /\ reply.turn \in Turns /\ payload.turn = reply.turn /\ payload.turn # None
      /\ PayloadTypes /\ payload.queue \in Seq(Content)
      /\ reply \in [turn : 0..asked, live : BOOLEAN, next : 1..(Chunks + 1),
                    bridged : BOOLEAN, final : BOOLEAN]
  BY <1>1, ServedFacts
<1>3. PayloadInv
  BY DEF IInv, ContextInv
<1>4. PICK q \in {payload.queue, <<Backup>>} :
        /\ q = <<Backup>> => (~payload.cards /\ payload.queue = <<>>)
        /\ payload' = [payload EXCEPT !.processing = FALSE, !.bridgeFailed = FALSE,
                                      !.chunk = 0, !.queue = q]
  BY DEF SendFinal, Receive
<1>5. /\ reply'.turn = reply.turn /\ reply'.next = reply.next
      /\ reply'.live = reply.live /\ reply'.final = TRUE
      /\ reply' \in [turn : 0..asked, live : BOOLEAN, next : 1..(Chunks + 1),
                     bridged : BOOLEAN, final : BOOLEAN]
      /\ reply.next = Chunks + 1
  <2>1. reply.next \in 1..(Chunks + 1) /\ DOMAIN reply
          = {"turn", "live", "next", "bridged", "final"}
    BY <1>2
  <2>2. reply.next = Chunks + 1
    BY <2>1, <1>1
  <2>3. /\ reply'.turn = reply.turn /\ reply'.next = reply.next
        /\ reply'.live = reply.live /\ reply'.final = TRUE
    BY <2>1, <1>1
  <2>4. reply' \in [turn : 0..asked, live : BOOLEAN, next : 1..(Chunks + 1),
                    bridged : BOOLEAN, final : BOOLEAN]
    BY <1>1, <1>2
  <2> QED
    BY <2>2, <2>3, <2>4
<1>6. /\ q \in Seq(Content) /\ Len(q) <= Chunks
      /\ payload.turn \notin holed => \A i \in 1..Len(q) : q[i] = i
  <2>1. CASE q = payload.queue
    BY <2>1, <1>2, <1>3 DEF PayloadInv
  <2>2. CASE q = <<Backup>>
    <3>1. Backup \in Content /\ Len(q) = 1 /\ q \in Seq(Content)
      BY <2>2 DEF Content
    <3>2. Len(payload.queue) = 0 /\ ~payload.cards
      BY <2>2, <1>4
    <3>3. payload.turn \in holed
      BY <3>2, <1>1, <1>2, <1>3, <1>5 DEF PayloadInv
    <3> QED
      BY <3>1, <3>3
  <2> QED
    BY <2>1, <2>2
<1>7. /\ PayloadTypes'
      /\ payload'.turn = payload.turn /\ payload'.cards = payload.cards
      /\ payload'.processing = FALSE
      /\ payload'.slots = payload.slots /\ payload'.queue = q
  <2>1. 0 \in 0..Chunks /\ q \in Seq(Content)
    BY <1>6
  <2>2. payload' = [payload EXCEPT !.processing = FALSE, !.bridgeFailed = FALSE,
                                   !.chunk = 0, !.queue = q]
    BY <1>4
  <2>3. PayloadTypes'
    BY <1>2, <2>1, <2>2 DEF PayloadTypes
  <2>4. /\ payload'.turn = payload.turn /\ payload'.cards = payload.cards
        /\ payload'.processing = FALSE
        /\ payload'.slots = payload.slots /\ payload'.queue = q
    BY <1>2, <2>2 DEF PayloadTypes
  <2> QED
    BY <2>3, <2>4
<1>8. BackendInv'
  BY <1>1, <1>5, BackendKept
<1>9. PayloadInv'
  BY <1>1, <1>2, <1>3, <1>5, <1>6, <1>7 DEF PayloadInv
<1>10. ScreenInv(screen)' /\ CalmInv' /\ RenderInv' /\ ReadyInv(screen, dirty)'
  BY <1>1, <1>5, <1>7, FrameKept
<1> QED
  BY <1>8, <1>9, <1>10 DEF IInv, ContextInv

-----------------------------------------------------------------------------
(* The steps of the visitor, and a clip that is heard *)

LEMMA AskStep == IInv /\ Ask => IInv'
<1> SUFFICES ASSUME IInv, Ask PROVE IInv'
  OBVIOUS
<1>0. /\ BackendInv /\ PayloadInv /\ CalmInv /\ RenderInv
      /\ FieldsInv(screen) /\ BoundInv(screen) /\ OnceInv(screen)
      /\ FenceInv(screen) /\ DOMAIN screen = ScreenFields
      /\ asked \in 0..MaxTurns /\ reply.turn \in 0..asked
  BY DEF IInv, ContextInv, ScreenInv, TurnInv, FieldsInv, BackendInv
<1> DEFINE y == TurnReset(screen)
           gate == [turn |-> Pending, over |-> FALSE]
           z == [y EXCEPT !.thinking = None, !.offered = None, !.gate = gate,
                          !.gateTimer = Pending]
<1>1. /\ asked < MaxTurns /\ asked' = asked + 1
      /\ left' = left \cup ({screen.owner} \cap Turns)
      /\ screen' = z /\ dirty \subseteq dirty' /\ dirty' \subseteq dirty \cup {"clips"}
      /\ hasty' = (hasty \/ ~Calm)
      /\ UNCHANGED <<cancels, reply, payload, heard, tapped, holed>>
  BY DEF Ask, Becomes
<1>2. /\ DOMAIN y = ScreenFields /\ y.owner = Pending
      /\ y.previous = IF screen.owner \in Turns THEN screen.owner
                                                ELSE screen.previous
      /\ y.sched = NewTurn(None) /\ y.streamTurn = None
      /\ y.startDue = screen.startDue
      /\ y.voice = Silent /\ y.guarded = FALSE /\ y.shown = FALSE
  BY <1>0, TurnResetFields
<1>3. gate.turn = Pending
      /\ gate \in [turn : Turns \cup {None, Pending}, over : BOOLEAN]
  OBVIOUS
<1> HIDE DEF y, gate
<1>4. /\ DOMAIN z = ScreenFields /\ z.owner = Pending /\ z.previous = y.previous
      /\ z.sched = NewTurn(None) /\ z.streamTurn = None /\ z.startDue = y.startDue
      /\ z.voice = Silent /\ z.guarded = FALSE /\ z.shown = FALSE
      /\ z.thinking = None /\ z.offered = None /\ z.gate = gate
      /\ z.gateTimer = Pending
  BY <1>2 DEF ScreenFields
<1> HIDE DEF z
<1>5. /\ asked' \in Turns /\ asked' \notin tapped /\ asked \in Nat
      /\ reply.turn < asked' /\ hasty' \in BOOLEAN
      /\ ~hasty' => ~hasty /\ Calm
      /\ payload.turn # asked'
      /\ None \notin Turns /\ Pending \notin Turns
  <2>1. asked' \in Turns /\ reply.turn < asked' /\ asked \in Nat
    BY <1>0, <1>1 DEF Turns
  <2>2. asked' \notin tapped
    BY <1>0, <1>1 DEF BackendInv
  <2>3. hasty' \in BOOLEAN /\ (~hasty' => ~hasty /\ Calm)
    BY <1>0, <1>1, Zenon DEF BackendInv
  <2>4. payload.turn # asked'
    BY <1>0, <2>1 DEF PayloadInv
  <2>5. None \notin Turns /\ Pending \notin Turns
    BY DEF Turns
  <2> QED
    BY <2>1, <2>2, <2>3, <2>4, <2>5
<1>6. BackendInv'
  <2>1. reply' \in [turn : 0..asked', live : BOOLEAN, next : 1..(Chunks + 1),
                    bridged : BOOLEAN, final : BOOLEAN]
    BY <1>0, <1>1 DEF BackendInv
  <2>2. tapped' \subseteq 1..asked'
    BY <1>0, <1>1 DEF BackendInv
  <2>3. \A t \in left' : t \in Turns /\ t < asked'
    <3>1. ASSUME NEW t \in left
          PROVE  t \in Turns /\ t < asked'
      BY <1>0, <1>1 DEF BackendInv, Turns
    <3>2. screen.owner \in Turns => screen.owner < asked'
      BY <1>0, <1>1 DEF BoundInv, Turns
    <3> QED
      BY <1>1, <3>1, <3>2
  <2>4. asked' \in 0..MaxTurns
    BY <1>0, <1>1
  <2>5. dirty' \subseteq Effects
    BY <1>0, <1>1 DEF BackendInv, Effects
  <2> QED
    BY <2>1, <2>2, <2>3, <2>4, <2>5, <1>0, <1>1, <1>5 DEF BackendInv
<1>7. PayloadInv'
  BY <1>0, <1>1 DEF PayloadInv, PayloadTypes
<1>8. CalmInv'
  BY <1>0, <1>1, <1>5 DEF CalmInv, Calm
<1>9. FieldsInv(screen)'
  BY <1>0, <1>1, <1>2, <1>3, <1>4, SilentFacts DEF FieldsInv
<1>10. SchedInv(screen.sched)' /\ SoundInv(screen)'
       /\ screen'.sched.turn = None /\ Len(screen'.sched.clips) = 0
       /\ Startable(screen'.sched) = {}
  <2>1. /\ SchedInv(NewTurn(None)) /\ Startable(NewTurn(None)) = {}
        /\ NewTurn(None).turn = None /\ Len(NewTurn(None).clips) = 0
    BY NewTurnFacts
  <2>2. SchedInv(screen'.sched)
    BY <2>1, <1>1, <1>4
  <2>3. SchedInv(screen.sched)'
    BY <2>2 DEF SchedInv
  <2>4. SoundInv(screen)'
    BY <1>1, <1>4, SilentFacts DEF SoundInv, Sounding
  <2> QED
    BY <2>1, <2>3, <2>4, <1>1, <1>4
<1>11. BoundInv(screen)'
  <2>1. z.previous \in Turns => z.previous <= reply.turn
    BY <1>0, <1>2, <1>4 DEF BoundInv
  <2>2. z.gate.turn = Pending
    BY <1>3, <1>4
  <2> QED
    BY <2>1, <2>2, <1>1, <1>4, <1>5, <1>10 DEF BoundInv
<1>12. OnceInv(screen)'
  BY <1>0, <1>1, <1>2, <1>4, <1>5 DEF OnceInv
<1>13. FenceInv(screen)'
  <2> SUFFICES ASSUME ~hasty'
               PROVE  Awaiting(screen)'
    BY <1>1, <1>5 DEF FenceInv, Turns
  <2>1. ~hasty /\ cancels = {} /\ dirty = {} /\ payload.turn \in {asked, None}
    BY <1>5 DEF Calm
  <2>2. z.previous # asked'
    <3>1. screen.previous \in Turns \cup {None}
      BY <1>0 DEF FieldsInv
    <3>2. z.previous \in Turns \cup {None}
      BY <3>1, <1>2, <1>4
    <3>3. z.previous \in Turns => z.previous <= reply.turn
      BY <1>0, <1>2, <1>4 DEF BoundInv
    <3>4. z.previous = None => z.previous # asked'
      BY <1>5
    <3>5. z.previous \in Turns => z.previous # asked'
      BY <3>3, <1>0, <1>5 DEF Turns
    <3> QED
      BY <3>2, <3>4, <3>5
  <2>3. payload.turn = None \/ payload.turn = z.previous
    <3> SUFFICES ASSUME payload.turn # None
                 PROVE  payload.turn = z.previous
      OBVIOUS
    <3>1. payload.turn = asked /\ asked # 0
      BY <1>0, <2>1 DEF FenceInv
    <3>2. asked \in Turns
      BY <1>0, <3>1 DEF Turns
    <3>3. asked \notin tapped
      BY <1>0, <2>1, <3>1 DEF PayloadInv
    <3>4. screen.owner = asked
      BY <1>0, <2>1, <3>1, <3>2, <3>3 DEF RenderInv, Settled, Heeded
    <3> QED
      BY <1>2, <1>4, <3>1, <3>2, <3>4
  <2> QED
    BY <2>2, <2>3, <1>1, <1>4, <1>10 DEF Awaiting
<1>14. OrderInv(screen)'
  BY <1>5, <1>10 DEF OrderInv
<1>15. GateInv(screen)'
  BY <1>1, <1>3, <1>4 DEF GateInv
<1>16. RenderInv' /\ ReadyInv(screen, dirty)'
  <2>1. Settled(screen)'
    BY <1>1, <1>5 DEF Settled
  <2>2. ReadyInv(screen, dirty)'
    BY <1>10 DEF ReadyInv, Startable, Live
  <2> QED
    BY <2>1, <2>2 DEF RenderInv
<1> QED
  BY <1>6, <1>7, <1>8, <1>9, <1>10, <1>11, <1>12, <1>13, <1>14, <1>15, <1>16
     DEF IInv, ContextInv, ScreenInv, TurnInv

LEMMA TapStep == IInv /\ Tap => IInv'
<1> SUFFICES ASSUME IInv, Tap PROVE IInv'
  OBVIOUS
<1>0. /\ BackendInv /\ PayloadInv /\ CalmInv
      /\ FieldsInv(screen) /\ BoundInv(screen) /\ DOMAIN screen = ScreenFields
      /\ SchedInv(screen.sched) /\ GateInv(screen) /\ ReadyInv(screen, dirty)
      /\ asked \in 0..MaxTurns /\ reply.turn \in 0..asked
      /\ tapped \subseteq 1..asked
  BY DEF IInv, ContextInv, ScreenInv, TurnInv, FieldsInv, BackendInv
<1> DEFINE y == Silenced(screen)
           z == [y EXCEPT !.owner = None]
<1>1. /\ asked \in Turns \ tapped /\ cancels' = cancels \cup {asked}
      /\ tapped' = 1..asked
      /\ screen' = z /\ dirty \subseteq dirty' /\ dirty' \subseteq dirty \cup {"clips"}
      /\ UNCHANGED <<asked, reply, payload, heard, left, holed, hasty>>
  BY DEF Tap, Becomes
<1>2. /\ DOMAIN y = ScreenFields /\ y.previous = screen.previous
      /\ y.sched = screen.sched /\ y.streamTurn = screen.streamTurn
      /\ y.gate = screen.gate /\ y.gateTimer = screen.gateTimer
      /\ y.thinking = screen.thinking /\ y.offered = screen.offered
      /\ y.startDue = screen.startDue
      /\ y.voice = Silent /\ y.guarded = FALSE /\ y.shown = FALSE
  BY <1>0, SilencedFields
<1> HIDE DEF y
<1>3. /\ DOMAIN z = ScreenFields /\ z.owner = None
      /\ z.previous = screen.previous
      /\ z.sched = screen.sched /\ z.streamTurn = screen.streamTurn
      /\ z.gate = screen.gate /\ z.gateTimer = screen.gateTimer
      /\ z.thinking = screen.thinking /\ z.offered = screen.offered
      /\ z.startDue = screen.startDue
      /\ z.voice = Silent /\ z.guarded = FALSE /\ z.shown = FALSE
  BY <1>2 DEF ScreenFields
<1> HIDE DEF z
<1>4. /\ asked \in tapped' /\ asked' \in tapped' /\ tapped \subseteq tapped'
      /\ None \notin Turns /\ Pending \notin Turns /\ None # Pending
      /\ \A t \in Turns : t <= reply.turn => t \in tapped'
      /\ reply.turn \in tapped' \cup {0}
  BY <1>0, <1>1 DEF Turns
<1>5. BackendInv'
  <2>1. /\ tapped' \subseteq 1..asked' /\ asked' = asked /\ reply' = reply
        /\ \A t \in tapped' : 1..t \subseteq tapped'
    BY <1>0, <1>1
  <2>2. cancels' \subseteq tapped' /\ \A c \in cancels' : reply'.turn <= c
    BY <1>0, <1>1, <1>4 DEF BackendInv
  <2>3. \A t \in tapped' : reply'.turn < t => \E c \in cancels' : t <= c
    BY <1>0, <1>1
  <2>4. dirty' \subseteq Effects
    BY <1>0, <1>1 DEF BackendInv, Effects
  <2> QED
    BY <2>1, <2>2, <2>3, <2>4, <1>0, <1>1 DEF BackendInv
<1>6. PayloadInv'
  <2>1. payload'.turn \in tapped' => \E c \in cancels' : payload'.turn <= c
    BY <1>0, <1>1
  <2>2. PayloadTypes'
    BY <1>0, <1>1 DEF PayloadInv, PayloadTypes
  <2> QED
    BY <2>1, <2>2, <1>0, <1>1, <1>4 DEF PayloadInv
<1>7. CalmInv'
  BY <1>0, <1>1, <1>4 DEF CalmInv
<1>8. FieldsInv(screen)'
  BY <1>0, <1>1, <1>3, SilentFacts DEF FieldsInv
<1>9. SchedInv(screen.sched)' /\ SoundInv(screen)'
  <2>1. SchedInv(screen.sched)'
    BY <1>0, <1>1, <1>3 DEF SchedInv
  <2>2. SoundInv(screen)'
    BY <1>1, <1>3, SilentFacts DEF SoundInv, Sounding
  <2> QED
    BY <2>1, <2>2
<1>10. BoundInv(screen)' /\ OnceInv(screen)' /\ FenceInv(screen)'
  <2>1. BoundInv(screen)'
    BY <1>0, <1>1, <1>3, <1>4 DEF BoundInv
  <2>2. OnceInv(screen)'
    BY <1>0, <1>1, <1>4 DEF OnceInv
  <2>3. FenceInv(screen)'
    BY <1>0, <1>1, <1>3, <1>4 DEF FenceInv, Interrupted, Turns
  <2> QED
    BY <2>1, <2>2, <2>3
<1>11. OrderInv(screen)'
  <2>1. screen'.sched.turn \in Turns => screen'.sched.turn \in tapped'
    BY <1>0, <1>1, <1>3, <1>4 DEF BoundInv
  <2> QED
    BY <2>1 DEF OrderInv
<1>12. GateInv(screen)'
  BY <1>0, <1>1, <1>3, <1>4 DEF GateInv
<1>13. RenderInv' /\ ReadyInv(screen, dirty)'
  <2>1. Settled(screen)'
    BY <1>1, <1>4 DEF Settled
  <2>2. ReadyInv(screen, dirty)'
    BY <1>0, <1>1, <1>3 DEF ReadyInv, Startable, Live, Blocked
  <2> QED
    BY <2>1, <2>2 DEF RenderInv
<1> QED
  BY <1>5, <1>6, <1>7, <1>8, <1>9, <1>10, <1>11, <1>12, <1>13
     DEF IInv, ContextInv, ScreenInv, TurnInv

\* The clip that is heard is later in the reply than any that was.
LEMMA ClipSoundsStep == IInv /\ ClipSounds => IInv'
<1> SUFFICES ASSUME IInv, ClipSounds PROVE IInv'
  OBVIOUS
<1>0. /\ BackendInv /\ PayloadInv /\ CalmInv /\ ReadyInv(screen, dirty)
      /\ FieldsInv(screen) /\ BoundInv(screen) /\ DOMAIN screen = ScreenFields
      /\ SchedInv(screen.sched) /\ GateInv(screen) /\ SoundInv(screen)
      /\ OnceInv(screen) /\ FenceInv(screen) /\ OrderInv(screen) /\ RenderInv
      /\ asked \in 0..MaxTurns /\ reply.turn \in 0..asked
      /\ tapped \subseteq 1..asked /\ heard \in [Turns -> Content \cup {0}]
  BY DEF IInv, ContextInv, ScreenInv, TurnInv, FieldsInv, BackendInv
<1> DEFINE v == [screen.voice EXCEPT !.phase = "sounding"]
           t == screen.sched.turn
<1>1. /\ screen.voice.phase = "starting"
      /\ screen' = [screen EXCEPT !.voice.phase = "sounding"]
      /\ heard' = [heard EXCEPT ![screen.voice.turn] = screen.voice.speaks]
      /\ UNCHANGED <<asked, cancels, reply, payload, dirty, left, tapped, holed,
                     hasty>>
  BY DEF ClipSounds
<1>2. /\ screen.voice.turn = t /\ t \in Turns
      /\ screen.voice.seq = screen.sched.playhead
      /\ screen.voice.seq \in 1..Len(screen.sched.clips)
      /\ screen.sched.clips[screen.voice.seq].status = "PLAYING"
      /\ screen.voice.speaks = screen.sched.clips[screen.voice.seq].speaks
      /\ screen.owner \in {None, t}
      /\ screen.guarded /\ screen.shown /\ ~Blocked(screen)
  BY <1>0, <1>1 DEF SoundInv, Sounding
<1>3. /\ v.phase = "sounding" /\ v.turn = t /\ v.seq = screen.voice.seq
      /\ v.speaks = screen.voice.speaks
      /\ v \in [turn : Turns \cup {None}, seq : Nat \ {0},
                speaks : Content \cup {0},
                phase : {"over", "starting", "sounding"}]
      /\ screen.voice.speaks \in Content \cup {0}
  BY <1>0, <1>2 DEF FieldsInv
<1>4. screen' = [screen EXCEPT !.voice = v]
  BY <1>0, <1>1 DEF ScreenFields
<1> HIDE DEF v
<1>5. /\ DOMAIN screen' = ScreenFields /\ screen'.voice = v
      /\ screen'.owner = screen.owner /\ screen'.previous = screen.previous
      /\ screen'.sched = screen.sched /\ screen'.streamTurn = screen.streamTurn
      /\ screen'.gate = screen.gate /\ screen'.gateTimer = screen.gateTimer
      /\ screen'.thinking = screen.thinking /\ screen'.offered = screen.offered
      /\ screen'.guarded = screen.guarded /\ screen'.shown = screen.shown
      /\ screen'.startDue = screen.startDue
  BY <1>0, <1>4 DEF ScreenFields
<1>6. /\ heard' \in [Turns -> Content \cup {0}]
      /\ heard'[t] = screen.voice.speaks
      /\ \A u \in Turns : u # t => heard'[u] = heard[u]
  BY <1>0, <1>1, <1>2, <1>3
<1>7. /\ t <= reply.turn /\ t \in Nat /\ t <= asked
      /\ None \notin Turns /\ Pending \notin Turns
  BY <1>0, <1>2 DEF BoundInv, Turns
<1>8. BackendInv'
  <2>1. \A u \in Turns : heard'[u] # 0 => u <= reply.turn
    BY <1>0, <1>6, <1>7 DEF BackendInv
  <2> QED
    BY <2>1, <1>0, <1>1, <1>6 DEF BackendInv
<1>9. PayloadInv'
  <2>1. payload.processing => payload.turn # t
    BY <1>0, <1>2 DEF BoundInv
  <2>2. payload.processing => heard'[payload.turn] = 0
    BY <2>1, <1>0, <1>6 DEF PayloadInv
  <2>3. PayloadTypes'
    BY <1>0, <1>1 DEF PayloadInv, PayloadTypes
  <2> QED
    BY <2>2, <2>3, <1>0, <1>1 DEF PayloadInv
<1>10. CalmInv' /\ FieldsInv(screen)' /\ SchedInv(screen.sched)'
  <2>1. CalmInv'
    BY <1>0, <1>1 DEF CalmInv
  <2>2. FieldsInv(screen)'
    BY <1>0, <1>3, <1>5 DEF FieldsInv
  <2>3. SchedInv(screen.sched)'
    BY <1>0, <1>5 DEF SchedInv
  <2> QED
    BY <2>1, <2>2, <2>3
<1>11. SoundInv(screen)'
  BY <1>2, <1>3, <1>5 DEF SoundInv, Sounding, Blocked
<1>12. BoundInv(screen)' /\ FenceInv(screen)'
  <2>1. BoundInv(screen)'
    BY <1>0, <1>1, <1>5 DEF BoundInv
  <2>2. FenceInv(screen)'
    BY <1>0, <1>1, <1>5 DEF FenceInv, Awaiting, Heeded, Interrupted
  <2> QED
    BY <2>1, <2>2
<1>13. OnceInv(screen)'
  <2> SUFFICES ASSUME reply.turn \in Turns \ tapped, heard'[reply.turn] # 0
               PROVE  \/ screen.owner = reply.turn /\ t = reply.turn
                      \/ screen.owner = Pending /\ screen.previous = reply.turn
    BY <1>1, <1>5 DEF OnceInv
  <2>1. CASE t # reply.turn
    <3>1. heard[reply.turn] # 0
      BY <2>1, <1>6
    <3> QED
      BY <3>1, <1>0 DEF OnceInv
  <2>2. CASE t = reply.turn
    <3>1. screen.owner = None => asked \in tapped
      BY <1>0, <1>7, <1>2 DEF BoundInv, Turns
    <3>2. asked \notin tapped
      BY <1>0, <1>7, <2>2 DEF BackendInv, Turns
    <3> QED
      BY <3>1, <3>2, <2>2, <1>2
  <2> QED
    BY <2>1, <2>2
<1>14. OrderInv(screen)'
  <2> SUFFICES ASSUME t \notin holed \cup tapped
               PROVE  /\ heard'[t] <= Len(screen.sched.clips)
                      /\ \A i \in 1..Len(screen.sched.clips) :
                           /\ screen.sched.clips[i].status # "PENDING"
                                => screen.sched.clips[i].speaks = i
                           /\ (i >= screen.sched.playhead
                                 /\ screen.sched.clips[i].status
                                        \in {"PENDING", "READY"})
                                => heard'[t] < i
                      /\ heard'[t] = screen.voice.seq
    BY <1>1, <1>2, <1>3, <1>5 DEF OrderInv
  <2>1. screen.voice.speaks = screen.voice.seq
    BY <1>0, <1>2 DEF OrderInv
  <2>2. heard'[t] = screen.voice.seq
    BY <2>1, <1>6
  <2>3. ASSUME NEW i \in 1..Len(screen.sched.clips), i >= screen.sched.playhead,
               screen.sched.clips[i].status \in {"PENDING", "READY"}
        PROVE  screen.voice.seq < i
    BY <2>3, <1>0, <1>2 DEF SchedInv
  <2>4. \A i \in 1..Len(screen.sched.clips) :
            screen.sched.clips[i].status # "PENDING"
                => screen.sched.clips[i].speaks = i
    BY <1>0, <1>2 DEF OrderInv
  <2> QED
    BY <2>2, <2>3, <2>4, <1>2
<1>15. GateInv(screen)' /\ RenderInv' /\ ReadyInv(screen, dirty)'
  <2>1. GateInv(screen)'
    BY <1>0, <1>1, <1>5 DEF GateInv
  <2>2. RenderInv'
    BY <1>0, <1>1, <1>5 DEF RenderInv, Settled, Heeded
  <2>3. ReadyInv(screen, dirty)'
    BY <1>0, <1>1, <1>5 DEF ReadyInv, Blocked, Startable, Live
  <2> QED
    BY <2>1, <2>2, <2>3
<1> QED
  BY <1>8, <1>9, <1>10, <1>11, <1>12, <1>13, <1>14, <1>15
     DEF IInv, ContextInv, ScreenInv, TurnInv

-----------------------------------------------------------------------------
(* The invariant holds *)

LEMMA InitInv == Init => IInv
<1> SUFFICES ASSUME Init PROVE IInv
  OBVIOUS
<1>1. /\ asked = 0 /\ cancels = {} /\ dirty = {} /\ left = {} /\ tapped = {}
      /\ reply = [turn |-> 0, live |-> FALSE, next |-> 1, bridged |-> FALSE,
                  final |-> FALSE]
      /\ payload = NoPayload /\ screen = FreshScreen
      /\ heard = [t \in Turns |-> 0] /\ holed = {} /\ hasty = FALSE
  BY DEF Init
<1>2. None \notin Turns /\ Pending \notin Turns /\ None # Pending /\ 0 \notin Turns
  BY DEF Turns
<1>3. /\ reply.turn = 0 /\ reply.live = FALSE /\ reply.next = 1
      /\ reply.final = FALSE
      /\ reply \in [turn : 0..asked, live : BOOLEAN, next : 1..(Chunks + 1),
                    bridged : BOOLEAN, final : BOOLEAN]
  <2>1. 0 \in 0..0 /\ 1 \in 1..(Chunks + 1)
    OBVIOUS
  <2> QED
    BY <2>1, <1>1
<1>4. BackendInv
  <2>1. heard \in [Turns -> Content \cup {0}] /\ \A t \in Turns : heard[t] = 0
    BY <1>1
  <2>2. asked \in 0..MaxTurns /\ hasty \in BOOLEAN
    <3>1. 0 \in 0..MaxTurns
      OBVIOUS
    <3> QED
      BY <3>1, <1>1, Zenon
  <2>3. \A t \in Turns : heard[t] # 0 => t <= reply.turn
    BY <2>1
  <2> QED
    BY <2>1, <2>2, <2>3, <1>1, <1>3 DEF BackendInv
<1>5. /\ payload.turn = None /\ payload.processing = FALSE
      /\ payload.slots = <<>> /\ payload.queue = <<>>
  BY <1>1 DEF NoPayload
<1>6. PayloadTypes
  <2>1. 0 \in 0..Chunks /\ <<>> \in Seq({"READY", "FAILED"})
        /\ <<>> \in Seq(Content)
    OBVIOUS
  <2> QED
    BY <2>1, <1>1 DEF PayloadTypes, NoPayload
<1>7. PayloadInv
  BY <1>1, <1>2, <1>3, <1>5, <1>6 DEF PayloadInv
<1>8. CalmInv
  BY <1>1, <1>2, <1>3, <1>5 DEF CalmInv
<1>9. /\ DOMAIN screen = ScreenFields
      /\ screen.owner = None /\ screen.previous = None
      /\ screen.sched = NewTurn(None) /\ screen.streamTurn = None
      /\ screen.gate = NoGate /\ screen.gateTimer = None
      /\ screen.thinking = None /\ screen.offered = None
      /\ screen.voice = Silent /\ screen.guarded = FALSE
      /\ screen.shown = FALSE /\ screen.startDue = FALSE
  BY <1>1 DEF FreshScreen, ScreenFields
<1>10. /\ SchedInv(screen.sched) /\ screen.sched.turn = None
       /\ Startable(screen.sched) = {}
  BY <1>9, NewTurnFacts
<1>11. /\ NoGate.turn = None
       /\ NoGate \in [turn : Turns \cup {None, Pending}, over : BOOLEAN]
  BY DEF NoGate
<1>12. FieldsInv(screen) /\ SoundInv(screen)
  BY <1>9, <1>11, SilentFacts DEF FieldsInv, SoundInv, Sounding
<1>13. TurnInv(screen) /\ OrderInv(screen)
  BY <1>1, <1>2, <1>3, <1>5, <1>9, <1>10, <1>11
     DEF TurnInv, BoundInv, OnceInv, FenceInv, OrderInv
<1>14. GateInv(screen) /\ RenderInv /\ ReadyInv(screen, dirty)
  BY <1>1, <1>2, <1>5, <1>9, <1>10, <1>11
     DEF GateInv, RenderInv, Settled, ReadyInv
<1> QED
  BY <1>4, <1>7, <1>8, <1>10, <1>12, <1>13, <1>14
     DEF IInv, ContextInv, ScreenInv

LEMMA NextInv == IInv /\ [Next]_vars => IInv'
<1> SUFFICES ASSUME IInv, [Next]_vars PROVE IInv'
  OBVIOUS
<1>1. CASE Backend
  BY <1>1, ServeStep, CancelStep, SendChunkStep, SendFinalStep DEF Backend
<1>2. CASE SendBridge
  BY <1>2, SendBridgeStep
<1>3. CASE Ask \/ Tap
  BY <1>3, AskStep, TapStep
<1>4. CASE Render \/ Rerender
  BY <1>4, RenderStep, RerenderStep
<1>5. CASE Timers
  BY <1>5, StartTimerStep, ThinkingTimeoutStep, ClipOverStep DEF Timers
<1>6. CASE ThinkingEnds
  BY <1>6, ThinkingEndsStep
<1>7. CASE Audio \/ ClipEnds
  BY <1>7, ClipSoundsStep, ClipOverStep DEF Audio
<1>8. CASE UNCHANGED vars
  <2>1. /\ BackendInv' /\ PayloadInv' /\ CalmInv'
    BY <1>8 DEF vars, IInv, ContextInv, BackendInv, PayloadInv, PayloadTypes,
                CalmInv
  <2>2. /\ FieldsInv(screen)' /\ SchedInv(screen.sched)' /\ SoundInv(screen)'
    BY <1>8 DEF vars, IInv, ScreenInv, FieldsInv, SchedInv, SoundInv, Sounding,
                Blocked
  <2>3. TurnInv(screen)' /\ OrderInv(screen)' /\ GateInv(screen)'
    BY <1>8 DEF vars, IInv, ScreenInv, TurnInv, BoundInv, OnceInv, FenceInv,
                Awaiting, Heeded, Interrupted, OrderInv, GateInv
  <2>4. RenderInv' /\ ReadyInv(screen, dirty)'
    BY <1>8 DEF vars, IInv, RenderInv, Settled, Heeded, ReadyInv, Startable,
                Live, Blocked
  <2> QED
    BY <2>1, <2>2, <2>3, <2>4 DEF IInv, ContextInv, ScreenInv
<1> QED
  BY <1>1, <1>2, <1>3, <1>4, <1>5, <1>6, <1>7, <1>8 DEF Next

\* The inductive invariant of the playback of replies holds in every reachable
\* state: whatever the order of frames, timers, callbacks, questions and taps.
THEOREM Invariance == Spec => []IInv
<1>1. Init => IInv
  BY InitInv
<1>2. IInv /\ [Next]_vars => IInv'
  BY NextInv
<1> QED
  BY <1>1, <1>2, PTL DEF Spec

-----------------------------------------------------------------------------
(* What it says of the kiosk *)

\* The turns of the backend, the payload and the screen, the slots of the
\* scheduler (responseTtsScheduler.ts) and the thinking gate hold what they
\* should, and an audio that is on belongs to a slot of the scheduler's turn.
THEOREM TypeCorrect == Spec => []TypeOK
<1>1. ASSUME IInv PROVE TypeOK
  <2>1. /\ asked \in 0..MaxTurns /\ cancels \subseteq 1..asked
        /\ reply.turn \in 0..asked /\ reply.next \in 1..(Chunks + 1)
        /\ dirty \subseteq Effects
    BY <1>1 DEF IInv, ContextInv, BackendInv
  <2>2. /\ payload.turn \in Turns \cup {None}
        /\ Len(payload.slots) <= Chunks /\ Len(payload.queue) <= Chunks
    BY <1>1 DEF IInv, ContextInv, PayloadInv, PayloadTypes
  <2>3. SchedTypeOK
    <3>1. SchedInv(screen.sched)
      BY <1>1 DEF IInv, ScreenInv
    <3>2. Clip = [status : {"PENDING", "READY", "PLAYING", "COMPLETED", "FAILED"},
                  speaks : Content \cup {0}]
      BY DEF Clip, Over
    <3> QED
      BY <3>1, <3>2 DEF SchedInv, SchedTypeOK
  <2>4. ScreenTypeOK
    <3>1. FieldsInv(screen) /\ SoundInv(screen) /\ SchedInv(screen.sched)
      BY <1>1 DEF IInv, ScreenInv
    <3>2. DOMAIN screen.sched.clips = 1..Len(screen.sched.clips)
      BY <3>1 DEF SchedInv
    <3>3. Sounding(screen) => /\ screen.voice.turn = screen.sched.turn
                              /\ screen.voice.seq \in DOMAIN screen.sched.clips
      BY <3>1, <3>2 DEF SoundInv
    <3> QED
      BY <3>1, <3>3 DEF FieldsInv, ScreenTypeOK
  <2> QED
    BY <2>1, <2>2, <2>3, <2>4 DEF TypeOK
<1> QED
  BY <1>1, Invariance, PTL

\* A chunk is about to be heard only if neither it nor a later one of its reply
\* was heard before, in whatever order frames, failures, refusals and watchdogs
\* came: the slots are filled once and the playhead only moves on
\* (responseTtsScheduler.ts:200, 261).
THEOREM ChunksAreHeardInOrder == Spec => []HeardInOrder
<1>1. ASSUME IInv PROVE HeardInOrder
  <2> SUFFICES ASSUME screen.voice.phase = "starting",
                      screen.voice.turn \notin holed \cup tapped
               PROVE  heard[screen.voice.turn] < screen.voice.speaks
    BY DEF HeardInOrder
  <2>1. OrderInv(screen) /\ SoundInv(screen)
    BY <1>1 DEF IInv, ScreenInv
  <2>2. /\ screen.voice.turn = screen.sched.turn /\ screen.sched.turn \in Turns
        /\ screen.voice.seq \in 1..Len(screen.sched.clips)
        /\ screen.sched.clips[screen.voice.seq].status = "PLAYING"
        /\ screen.voice.speaks = screen.sched.clips[screen.voice.seq].speaks
    BY <2>1 DEF SoundInv, Sounding
  <2>3. /\ heard[screen.voice.turn] < screen.voice.seq
        /\ screen.voice.speaks = screen.voice.seq
    BY <2>1, <2>2 DEF OrderInv
  <2> QED
    BY <2>3
<1> QED
  BY <1>1, Invariance, PTL

\* The thinking sentence and the reply never sound together: a clip is started
\* only when the gate is open and the thinking player silent, and the sentence
\* only when the gate still holds the reply back (thinkingGate.ts:1,
\* ChatScreen.tsx:1272, 2752).
THEOREM OneVoiceAtATime == Spec => []OneVoice
<1>1. ASSUME IInv PROVE OneVoice
  BY <1>1 DEF IInv, ScreenInv, SoundInv, Blocked, OneVoice
<1> QED
  BY <1>1, Invariance, PTL

\* For a visitor who waits for the answer to begin: a turn that owned the screen
\* when the next began is not spoken again, neither while the next one's id is
\* unknown nor after (turnFence.ts:17).
THEOREM TheFenceHolds == Spec => []SupersededIsSilent
<1>1. ASSUME IInv PROVE SupersededIsSilent
  <2> SUFFICES ASSUME ~hasty, Sounding(screen),
                      screen.voice.turn \in left \ tapped
               PROVE  FALSE
    BY DEF SupersededIsSilent
  <2> DEFINE t == screen.voice.turn
  <2>1. /\ BackendInv /\ FenceInv(screen) /\ SoundInv(screen)
    BY <1>1 DEF IInv, ContextInv, ScreenInv, TurnInv
  <2>2. t = screen.sched.turn /\ t \in Turns
    BY <2>1 DEF SoundInv
  <2>3. t < asked /\ asked \in 0..MaxTurns
    BY <2>1 DEF BackendInv
  <2>4. asked \in Turns
    BY <2>2, <2>3 DEF Turns
  <2>5. asked \notin tapped
    <3>1. asked \in tapped => t \in tapped
      BY <2>1, <2>2, <2>3 DEF BackendInv, Turns
    <3> QED
      BY <3>1
  <2>6. Awaiting(screen) \/ Heeded(screen)
    BY <2>1, <2>4, <2>5 DEF FenceInv
  <2>7. screen.sched.turn \in {None, asked}
    BY <2>6 DEF Awaiting, Heeded
  <2>8. t # asked
    BY <2>2, <2>3 DEF Turns
  <2> QED
    BY <2>2, <2>7, <2>8 DEF Turns
<1> QED
  BY <1>1, Invariance, PTL

\* Nothing an answer waits for is unwatched: a clip that is on has its watchdog,
\* and a gate that holds the answer back has its own watchdog or its own thinking
\* sentence (ChatScreen.tsx:2617, 2635; thinkingGate.ts:111).
THEOREM NothingWaitsUnwatched == Spec => []WaitsAreWatched
<1>1. ASSUME IInv PROVE WaitsAreWatched
  <2>1. SoundInv(screen) /\ GateInv(screen)
    BY <1>1 DEF IInv, ScreenInv
  <2>2. Sounding(screen) => screen.guarded /\ screen.shown
    BY <2>1 DEF SoundInv
  <2>3. (HeldBack /\ screen.gate.turn \notin tapped /\ ~hasty)
            => screen.gate.turn \in {screen.gateTimer, screen.thinking}
    BY <2>1 DEF GateInv, HeldBack
  <2> QED
    BY <2>2, <2>3 DEF WaitsAreWatched
<1> QED
  BY <1>1, Invariance, PTL

\* A clip that could be played is not forgotten: it is held back by the gate, or
\* the effect on the clips will run, or the timer that effect sets is on
\* (ChatScreen.tsx:4537, 2749).
THEOREM NoClipIsForgotten == Spec => []ReadyClipMovesOn
<1>1. ASSUME IInv PROVE ReadyClipMovesOn
  BY <1>1 DEF IInv, ReadyInv, ReadyClipMovesOn
<1> QED
  BY <1>1, Invariance, PTL

\* Once the screen has rendered a frame of the last turn, that turn owns the
\* loudspeaker and the scheduler, even if its processing frame was folded into a
\* later one (ChatScreen.tsx:2857).
THEOREM TheLastTurnIsLetIn == Spec => []LastTurnIsHeeded
<1>1. ASSUME IInv PROVE LastTurnIsHeeded
  <2> SUFFICES ASSUME payload.turn = asked, asked \notin tapped, dirty = {}, ~hasty
               PROVE  screen.owner = asked /\ screen.sched.turn = asked
    BY DEF LastTurnIsHeeded
  <2>1. BackendInv /\ PayloadInv /\ RenderInv
    BY <1>1 DEF IInv, ContextInv
  <2>2. asked \in Turns
    BY <2>1 DEF BackendInv, PayloadInv, PayloadTypes, Turns
  <2>3. Settled(screen)
    BY <2>1 DEF RenderInv
  <2> QED
    BY <2>2, <2>3 DEF Settled, Heeded
<1> QED
  BY <1>1, Invariance, PTL

=============================================================================
