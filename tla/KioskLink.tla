------------------------------- MODULE KioskLink -------------------------------
(***************************************************************************)
(* The kiosk's end of the websocket and the session it talks to.           *)
(*                                                                         *)
(* The kiosk (hooks/useWebSocket.ts, lib/ws/outboundCommandDispatcher.ts,  *)
(* App.tsx) survives its sockets: commands wait in the dispatcher, and two *)
(* numbers decide which frames are applied -- `floor`, which counts the    *)
(* Home resets, and `applied`, the largest session_gen seen.  The backend  *)
(* (websocket_clara) starts a new session, with generation 0, for every    *)
(* socket; its generation counts resets, cancellations and turns.          *)
(*                                                                         *)
(* A socket is two first-in-first-out queues that are lost together.  The  *)
(* reply tasks of ReplyTurns appear here as Answer: a turn's frames carry  *)
(* the generation of their turn.  Payloads are abstracted to the visit     *)
(* they were produced for, and user-interface timing to the order of the   *)
(* steps: a React effect is a step of its own.                             *)
(***************************************************************************)
EXTENDS Naturals, Sequences

CONSTANTS
    MaxVisits,   \* bound: visitors, separated by Home or by the idle timeout
    MaxSockets,  \* bound: sockets opened
    MaxFrames,   \* bound: frames the backend sends on one socket
    MaxGen,      \* bound: generation up to which a session accepts a turn
    MaxWaiting,  \* bound: commands waiting in the dispatcher or on the wire
    RateLimited  \* the backend's token buckets may refuse a command

ASSUME KioskBoundsAssumption ==
    /\ MaxVisits \in Nat \ {0}
    /\ MaxSockets \in Nat \ {0}
    /\ MaxFrames \in Nat \ {0}
    /\ MaxGen \in Nat \ {0}
    /\ MaxWaiting \in Nat \ {0}

ASSUME RateLimitedAssumption == RateLimited \in BOOLEAN

VARIABLES
    visit,    \* history variable: the current visitor
    floor,    \* minAppliedBackendGenFloorByUrl
    applied,  \* entry.appliedBackendGen
    lastSeq,  \* entry.lastAppliedWireSeq
    pending,  \* the dispatcher's PENDING commands
    sent,     \* logical keys of the singleton commands it has SENT
    unacked,  \* wakeUnacked
    screen,   \* entry.state: 0 is "sleep"; 3, 4 and 5 are "chat"
    gate,     \* showChatLanguageGate
    started,  \* hasStartedRef of the mounted ChatScreen
    shown,    \* the visit whose payload is shown, NoVisit if it has no content
    begun,    \* sessionStorage holds a visitor id
    picked,   \* sessionStorage holds the visitor's language
    rebind,   \* isConnected has risen and its effect has not run yet
    sockets,  \* history variable: sockets opened so far
    open,     \* the socket is OPEN
    up,       \* commands on the wire
    down,     \* frames on the wire
    srv       \* the session dictionary of the backend's end of the socket

fenceVars    == <<floor, applied, lastSeq>>
dispatchVars == <<pending, sent, unacked>>
uiVars       == <<screen, gate, started, shown>>
storageVars  == <<visit, begun, picked>>
wireVars     == <<sockets, open, up, down>>
vars == <<fenceVars, dispatchVars, uiVars, storageVars, rebind, wireVars, srv>>

NoVisit == 0
Visits  == 1 .. MaxVisits

Singletons == {"wake", "conversation_started"}
Actions    == Singletons \cup {"reset_session", "cancel_turn", "user_message",
                               "language_selected", "restore_language"}
Screens    == {"sleep", "chat"}

Payload == [action : Actions, visit : Visits, ui : Screens]
Command == [epoch : Nat, payload : Payload]
Frame   == [state : Screens, kind : {"hello", "wake", "other"},
            gen : Nat, seq : Nat, visit : Visits \cup {NoVisit}]
Session == [gen : Nat, seq : Nat, visitor : Visits \cup {NoVisit},
            lang : Visits \cup {NoVisit}, turn : Visits \cup {NoVisit}]

TypeOK ==
    /\ visit \in Visits
    /\ floor \in Nat /\ applied \in Nat /\ lastSeq \in Nat
    /\ pending \in Seq(Command)
    /\ sent \subseteq (Nat \X Singletons)
    /\ unacked \in BOOLEAN /\ gate \in BOOLEAN /\ started \in BOOLEAN
    /\ begun \in BOOLEAN /\ picked \in BOOLEAN /\ rebind \in BOOLEAN
    /\ screen \in Screens
    /\ shown \in Visits \cup {NoVisit}
    /\ sockets \in 0 .. MaxSockets
    /\ open \in BOOLEAN
    /\ up \in Seq(Payload)
    /\ down \in Seq(Frame)
    /\ srv \in Session

NewSession == [gen |-> 0, seq |-> 0, visitor |-> NoVisit, lang |-> NoVisit,
               turn |-> NoVisit]

Init ==
    /\ visit = 1 /\ sockets = 0
    /\ floor = 0 /\ applied = 0 /\ lastSeq = 0
    /\ pending = <<>> /\ sent = {} /\ unacked = FALSE
    /\ screen = "sleep" /\ gate = FALSE /\ started = FALSE /\ shown = NoVisit
    /\ begun = FALSE /\ picked = FALSE /\ rebind = FALSE
    /\ open = FALSE /\ up = <<>> /\ down = <<>> /\ srv = NewSession

-----------------------------------------------------------------------------
(* The dispatcher.                                                          *)

Keys(cmds) == {<<cmds[i].epoch, cmds[i].payload.action>> : i \in DOMAIN cmds}

\* A singleton is refused while its key is queued or was ever sent.
Duplicate(action) ==
    /\ action \in Singletons
    /\ <<floor, action>> \in Keys(pending) \cup sent

\* enqueue at epoch e behind `queue`, and flush if the socket is open.
Enqueue(queue, e, payload) ==
    LET c == [epoch |-> e, payload |-> payload]
    IN  /\ Len(queue) + Len(up) < MaxWaiting
        /\ IF open
           THEN /\ up' = Append(up, payload)
                /\ sent' = sent \cup (Keys(<<c>>) \cap (Nat \X Singletons))
                /\ pending' = queue
           ELSE /\ pending' = Append(queue, c)
                /\ UNCHANGED <<sent, up>>

Call(action) == [action |-> action, visit |-> visit, ui |-> "chat"]

\* sendMessage, at the current floor.
Send(payload) ==
    \/ Duplicate(payload.action) /\ UNCHANGED <<dispatchVars, up>>
    \/ /\ ~Duplicate(payload.action)
       /\ Enqueue(pending, floor, payload)
       /\ unacked' = (unacked \/ payload.action = "wake")

-----------------------------------------------------------------------------
(* The visitor and the screens.                                             *)

\* startClaraSession: the sleep screen was tapped.
Wake ==
    /\ screen = "sleep"
    /\ begun' = TRUE
    /\ Send(Call("wake"))
    /\ screen' = "chat"
    /\ gate' = TRUE
    /\ UNCHANGED <<fenceVars, started, shown, visit, picked, rebind, sockets,
                   open, down, srv>>

\* ChatScreen has mounted.
StartConversation ==
    /\ screen = "chat"
    /\ ~started
    /\ started' = TRUE
    /\ Send(Call("conversation_started"))
    /\ UNCHANGED <<fenceVars, screen, gate, shown, storageVars, rebind, sockets,
                   open, down, srv>>

SelectLanguage ==
    /\ screen = "chat"
    /\ gate
    /\ gate' = FALSE
    /\ begun' = TRUE
    /\ picked' = TRUE
    /\ Send(Call("language_selected"))
    /\ UNCHANGED <<fenceVars, screen, started, shown, visit, rebind, sockets,
                   open, down, srv>>

Speak ==
    /\ screen = "chat"
    /\ ~gate
    /\ Send(Call("user_message")) \/ Send(Call("cancel_turn"))
    /\ UNCHANGED <<fenceVars, uiVars, storageVars, rebind, sockets, open, down,
                   srv>>

\* The effect of isConnected: K1, re-register the visitor and the language.
Rebind ==
    /\ rebind
    /\ rebind' = FALSE
    /\ IF begun /\ picked
       THEN Send([Call("restore_language") EXCEPT !.ui = screen])
       ELSE UNCHANGED <<dispatchVars, up>>
    /\ UNCHANGED <<fenceVars, uiVars, storageVars, sockets, open, down, srv>>

\* invalidateBelow: what was queued at an older epoch is never sent.
Survivors(e) ==
    IF \E i \in DOMAIN pending : pending[i].epoch >= e
    THEN SelectSeq(pending, LAMBDA c : c.epoch >= e)
    ELSE <<>>

\* runHardResetTransaction: Home, or the idle timeout.  The floor moves, what
\* waits for the old visitor is invalidated, and only then is the reset sent.
Home ==
    /\ screen = "chat"
    /\ visit < MaxVisits
    /\ visit' = visit + 1
    /\ floor' = floor + 1
    /\ applied' = IF applied < floor + 1 THEN floor + 1 ELSE applied
    /\ lastSeq' = 0
    /\ Enqueue(Survivors(floor + 1), floor + 1,
               [Call("reset_session") EXCEPT !.visit = visit + 1])
    /\ unacked' = FALSE
    /\ screen' = "sleep" /\ gate' = FALSE /\ started' = FALSE
    /\ shown' = NoVisit
    /\ begun' = FALSE /\ picked' = FALSE
    /\ UNCHANGED <<rebind, sockets, open, down, srv>>

\* The page is refreshed: only sessionStorage survives.
Reload ==
    /\ floor' = 0 /\ applied' = 0 /\ lastSeq' = 0
    /\ pending' = <<>> /\ sent' = {} /\ unacked' = FALSE
    /\ screen' = "sleep" /\ gate' = FALSE /\ started' = FALSE
    /\ shown' = NoVisit
    /\ open' = FALSE /\ up' = <<>> /\ down' = <<>> /\ rebind' = FALSE
    /\ srv' = NewSession
    /\ UNCHANGED <<storageVars, sockets>>

-----------------------------------------------------------------------------
(* The socket.                                                              *)

\* Mutant: onopen keeps the floor of the previous socket.
OpenKeepsFloor ==
    /\ ~open
    /\ sockets < MaxSockets
    /\ sockets' = sockets + 1
    /\ open' = TRUE
    /\ srv' = [NewSession EXCEPT !.seq = 1]
    /\ down' = <<[state |-> "sleep", kind |-> "hello", gen |-> 0, seq |-> 1,
                  visit |-> NoVisit]>>
    /\ applied' = floor /\ lastSeq' = 0
    /\ up' = [i \in DOMAIN pending |-> pending[i].payload]
    /\ sent' = sent \cup (Keys(pending) \cap (Nat \X Singletons))
    /\ pending' = <<>>
    /\ rebind' = TRUE
    /\ UNCHANGED <<floor, unacked, uiVars, storageVars>>

\* A new backend session says hello; onopen forgets the floor and flushes.
Open ==
    /\ ~open
    /\ sockets < MaxSockets
    /\ sockets' = sockets + 1
    /\ open' = TRUE
    /\ srv' = [NewSession EXCEPT !.seq = 1]
    /\ down' = <<[state |-> "sleep", kind |-> "hello", gen |-> 0, seq |-> 1,
                  visit |-> NoVisit]>>
    /\ floor' = 0 /\ applied' = 0 /\ lastSeq' = 0
    /\ up' = [i \in DOMAIN pending |-> pending[i].payload]
    /\ sent' = sent \cup (Keys(pending) \cap (Nat \X Singletons))
    /\ pending' = <<>>
    /\ rebind' = TRUE
    /\ UNCHANGED <<unacked, uiVars, storageVars>>

\* What was on the wire is lost.
Drop ==
    /\ open
    /\ open' = FALSE
    /\ up' = <<>> /\ down' = <<>>
    /\ rebind' = FALSE
    /\ srv' = NewSession
    /\ UNCHANGED <<fenceVars, dispatchVars, uiVars, storageVars, sockets>>

\* Mutant: a sleep frame is never held.
NeverHeld(f) == FALSE

\* shouldHoldSleep: a sleep frame must not clobber a wake that is unanswered.
Held(f) == f.state = "sleep" /\ unacked

\* g < effectiveGen, or wire_seq is not increasing.
TooOld(f) == f.gen < applied \/ f.gen < floor \/ f.seq <= lastSeq

\* onmessage: the two fences, the hold on sleep frames, then the frame itself.
Receive ==
    /\ open
    /\ down # <<>>
    /\ down' = Tail(down)
    /\ LET f == Head(down)
       IN  /\ IF TooOld(f)
              THEN UNCHANGED <<applied, lastSeq>>
              ELSE /\ applied' = f.gen
                   /\ lastSeq' = f.seq
           /\ IF TooOld(f) \/ Held(f)
              THEN UNCHANGED <<unacked, uiVars>>
              ELSE /\ unacked' = (unacked /\ f.state = "sleep")
                   /\ screen' = f.state
                   /\ gate' = (gate /\ f.state = "chat")
                   /\ started' = (started /\ f.state = "chat")
                   /\ shown' = f.visit
    /\ UNCHANGED <<floor, pending, sent, storageVars, rebind, sockets, open, up,
                   srv>>

-----------------------------------------------------------------------------
(* The backend.                                                             *)

\* _ws_send_json, by the session `s`.
Emit(s, state, kind, v) ==
    /\ srv.seq < MaxFrames
    /\ srv' = [s EXCEPT !.seq = srv.seq + 1]
    /\ down' = Append(down, [state |-> state, kind |-> kind, gen |-> s.gen,
                             seq |-> srv.seq + 1, visit |-> v])

\* Mutant: the reset forgets the language, which outlives the visitor.
ResetKeepsLanguage == [NewSession EXCEPT !.gen = srv.gen + 1, !.lang = srv.lang]

\* Mutant: the reset does not cancel the reply that is being spoken.
ResetKeepsTurn == [NewSession EXCEPT !.gen = srv.gen + 1, !.turn = srv.turn]

\* reset_session: everything but the generation starts afresh.
ResetSession == [NewSession EXCEPT !.gen = srv.gen + 1]

\* One message of the receive loop.  Whether the language is frozen is state of
\* ReplyTurns: here a language may be refused.
Handle(c) ==
    \/ /\ c.action = "reset_session"
       /\ Emit(ResetSession, "sleep", "other", NoVisit)
    \/ /\ c.action = "cancel_turn"
       /\ Emit([srv EXCEPT !.gen = @ + 1, !.turn = NoVisit],
               "chat", "other", c.visit)
    \/ /\ c.action = "wake"
       /\ Emit([srv EXCEPT !.visitor = c.visit], "chat", "wake", NoVisit)
    \/ /\ c.action = "conversation_started"
       /\ Emit(srv, "chat", "other", c.visit)
    \/ /\ c.action = "language_selected"
       /\ \E l \in {c.visit, srv.lang} :
             Emit([srv EXCEPT !.visitor = c.visit, !.lang = l],
                  "chat", "other", c.visit)
    \/ /\ c.action = "restore_language"
       /\ \E l \in {srv.lang} \cup ({c.visit} \cap {srv.visitor}) :
             Emit([srv EXCEPT !.lang = l], c.ui, "other", NoVisit)
    \/ /\ c.action = "user_message"
       /\ srv.lang = NoVisit
       /\ Emit(srv, "chat", "other", c.visit)
    \/ /\ c.action = "user_message"
       /\ srv.lang # NoVisit
       /\ srv.gen < MaxGen
       /\ srv' = [srv EXCEPT !.gen = @ + 1, !.turn = c.visit]
       /\ UNCHANGED down

\* A RATE_LIMITED error: the command has no effect.
Refuse == RateLimited /\ Emit(srv, "chat", "other", NoVisit)

Serve ==
    /\ open
    /\ up # <<>>
    /\ Handle(Head(up)) \/ Refuse
    /\ up' = Tail(up)
    /\ UNCHANGED <<fenceVars, dispatchVars, uiVars, storageVars, rebind, sockets,
                   open>>

\* A frame of the current reply task, its last one or not.
Answer ==
    /\ open
    /\ srv.turn # NoVisit
    /\ \E t \in {srv.turn, NoVisit} :
          Emit([srv EXCEPT !.turn = t], "chat", "other", srv.turn)
    /\ UNCHANGED <<fenceVars, dispatchVars, uiVars, storageVars, rebind, sockets,
                   open, up>>

-----------------------------------------------------------------------------
Next ==
    \/ Wake \/ StartConversation \/ SelectLanguage \/ Speak \/ Rebind \/ Home
    \/ Reload \/ Open \/ Drop \/ Receive \/ Serve \/ Answer

Spec == Init /\ [][Next]_vars

-----------------------------------------------------------------------------
\* Once the backend has served every command, the kiosk applies what it sends:
\* neither fence is ahead of the session's generation.  The floor counts resets
\* and the session counts more than resets, so this needs every reset to arrive
\* or the socket to be replaced (onopen forgets the floor).
BackendIsHeard ==
    (open /\ up = <<>>) => (floor <= srv.gen /\ applied <= srv.gen)

\* The wake of the present visit is queued, on the wire, or its answer is.
WakeInFlight ==
    \/ \E i \in DOMAIN pending :
          pending[i].payload = Call("wake")
    \/ \E i \in DOMAIN up : up[i] = Call("wake")
    \/ \E i \in DOMAIN down : down[i].kind = "wake"

\* The hello of a new socket never sends a kiosk back to sleep whose wake is
\* queued or on the wire (shouldHoldSleep).
HelloHeld ==
    [][(Receive /\ Head(down).kind = "hello" /\ WakeInFlight)
           => ~(screen = "chat" /\ screen' = "sleep")]_vars

\* The backend never serves a visitor in the language of another one: what is
\* chosen is the choice of the visitor the session is bound to.
LanguageOfVisitor ==
    srv.lang # NoVisit => srv.lang = srv.visitor

\* An earlier visitor's frame that slips through stays only until the backend's
\* answer to the reset, or to the wake that follows it, which is on its way.
EarlierVisitIsBrief ==
    (open /\ shown # NoVisit /\ shown # visit) =>
        \/ \E i \in DOMAIN up : up[i].action = "reset_session"
        \/ \E i \in DOMAIN down : down[i].visit = NoVisit

-----------------------------------------------------------------------------
(* What the repository says, and the code does not do.                      *)

\* hooks/useWebSocket.ts: "Mirrors backend session_generation; stale WS payloads
\* are dropped when older".  The floor counts resets, the generation also turns.
NoEarlierVisit == shown \in {NoVisit, visit}
=============================================================================
