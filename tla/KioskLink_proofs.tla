---------------------------- MODULE KioskLink_proofs ----------------------------
(***************************************************************************)
(* Theorems about KioskLink, for every value of its bounds.                *)
(*                                                                         *)
(* The argument rests on the order of the commands.  What is on the wire   *)
(* is a run of commands of consecutive visits, in which a visit begins     *)
(* with its reset (QueueInv).  So the resets still to be served are        *)
(* counted by the visits still to come, which bounds the floor by the      *)
(* generation (FenceInv), and the first command that could disturb a       *)
(* session's language is one of its own visitor (LangInv).                 *)
(* What is on the screen rests on the frames: they come in the order of    *)
(* both their numbers (WireInv), so that behind every frame of an earlier  *)
(* visit comes one that clears it (BriefInv), and the hello is the first   *)
(* of its socket (HelloInv).                                               *)
(***************************************************************************)
EXTENDS KioskLink, SequenceTheorems, TLAPS

\* The parts of the type invariant that a command or a frame changes.
SendTypes ==
    /\ pending \in Seq(Command)
    /\ sent \subseteq (Nat \X Singletons)
    /\ unacked \in BOOLEAN
    /\ up \in Seq(Payload)

\* A command that the kiosk issues is a payload of the present visit.
LEMMA CallType ==
    ASSUME visit \in Visits, NEW a \in Actions
    PROVE  Call(a) \in Payload
BY DEF Call, Payload, Screens

\* Sending keeps the dispatcher and the wire well typed.
LEMMA EnqueueType ==
    ASSUME SendTypes, floor \in Nat,
           NEW queue \in Seq(Command), NEW e \in Nat, NEW p \in Payload,
           Enqueue(queue, e, p)
    PROVE  /\ pending' \in Seq(Command)
           /\ sent' \subseteq (Nat \X Singletons)
           /\ up' \in Seq(Payload)
<1>1. [epoch |-> e, payload |-> p] \in Command
  BY DEF Command
<1>2. CASE open
  <2>1. /\ up' = Append(up, p)
        /\ sent' = sent \cup (Keys(<<[epoch |-> e, payload |-> p]>>)
                               \cap (Nat \X Singletons))
        /\ pending' = queue
    BY <1>2, Zenon DEF Enqueue
  <2>2. up \in Seq(Payload) /\ sent \subseteq (Nat \X Singletons)
    BY DEF SendTypes
  <2>3. up' \in Seq(Payload)
    BY <2>1, <2>2
  <2>4. sent' \subseteq (Nat \X Singletons)
    BY <2>1, <2>2, Zenon
  <2>5. QED
    BY <2>1, <2>3, <2>4
<1>3. CASE ~open
  <2>1. /\ pending' = Append(queue, [epoch |-> e, payload |-> p])
        /\ UNCHANGED <<sent, up>>
    BY <1>3, Zenon DEF Enqueue
  <2>2. QED
    BY <1>1, <2>1 DEF SendTypes
<1>4. QED
  BY <1>2, <1>3

LEMMA SendType ==
    ASSUME SendTypes, floor \in Nat, NEW p \in Payload, Send(p)
    PROVE  SendTypes'
<1>1. CASE Duplicate(p.action) /\ UNCHANGED <<dispatchVars, up>>
  BY <1>1 DEF SendTypes, dispatchVars
<1>2. CASE /\ Enqueue(pending, floor, p)
           /\ unacked' = (unacked \/ p.action = "wake")
  <2>1. pending \in Seq(Command)
    BY DEF SendTypes
  <2>2. /\ pending' \in Seq(Command)
        /\ sent' \subseteq (Nat \X Singletons)
        /\ up' \in Seq(Payload)
    BY <1>2, <2>1, EnqueueType
  <2>3. unacked' \in BOOLEAN
    BY <1>2 DEF SendTypes
  <2>4. QED
    BY <2>2, <2>3 DEF SendTypes
<1>3. QED
  BY <1>1, <1>2 DEF Send

\* A command that waits is well typed.
LEMMA PendingType ==
    ASSUME pending \in Seq(Command)
    PROVE  \A i \in 1 .. Len(pending) : pending[i] \in Command /\ i \in DOMAIN pending
BY ElementOfSeq

\* A frame that is emitted is well typed, and so is the session that emits it.
LEMMA EmitType ==
    ASSUME srv \in Session, down \in Seq(Frame), NEW s \in Session,
           NEW st \in Screens, NEW k \in {"wake", "other"},
           NEW v \in Visits \cup {NoVisit}, Emit(s, st, k, v)
    PROVE  /\ srv' \in Session
           /\ down' \in Seq(Frame)
<1>1. srv.seq + 1 \in Nat /\ s.gen \in Nat
  BY DEF Session
<1>2. srv' \in Session
  BY <1>1 DEF Emit, Session
<1>3. [state |-> st, kind |-> k, gen |-> s.gen, seq |-> srv.seq + 1, visit |-> v]
        \in Frame
  BY <1>1 DEF Frame
<1>4. down' \in Seq(Frame)
  BY <1>3 DEF Emit
<1>5. QED
  BY <1>2, <1>4

LEMMA NewSessionType == NewSession \in Session
BY DEF NewSession, Session

LEMMA ResetType ==
    ASSUME srv \in Session PROVE ResetSession \in Session
<1>1. srv.gen + 1 \in Nat
  BY DEF Session
<1>2. QED
  BY <1>1, NewSessionType DEF ResetSession, Session

\* Serving a command keeps the session and its frames well typed.
LEMMA HandleType ==
    ASSUME srv \in Session, down \in Seq(Frame), NEW c \in Payload,
           Handle(c) \/ Refuse
    PROVE  /\ srv' \in Session
           /\ down' \in Seq(Frame)
<1>0. /\ c.visit \in Visits /\ c.ui \in Screens
      /\ srv.gen \in Nat /\ srv.gen + 1 \in Nat
      /\ srv.lang \in Visits \cup {NoVisit} /\ srv.turn \in Visits \cup {NoVisit}
      /\ NoVisit \in Visits \cup {NoVisit} /\ c.visit \in Visits \cup {NoVisit}
      /\ "sleep" \in Screens /\ "chat" \in Screens
  BY DEF Payload, Session, Screens
<1>1. CASE Emit(ResetSession, "sleep", "other", NoVisit)
  BY <1>0, <1>1, ResetType, EmitType
<1>2. CASE Emit([srv EXCEPT !.gen = @ + 1, !.turn = NoVisit],
                "chat", "other", c.visit)
  <2>1. [srv EXCEPT !.gen = @ + 1, !.turn = NoVisit] \in Session
    BY <1>0 DEF Session
  <2>2. QED
    BY <1>0, <1>2, <2>1, EmitType
<1>3. CASE Emit([srv EXCEPT !.visitor = c.visit], "chat", "wake", NoVisit)
  <2>1. [srv EXCEPT !.visitor = c.visit] \in Session
    BY <1>0 DEF Session
  <2>2. QED
    BY <1>0, <1>3, <2>1, EmitType
<1>4. CASE Emit(srv, "chat", "other", c.visit)
  BY <1>0, <1>4, EmitType
<1>5. CASE \E l \in {c.visit, srv.lang} :
             Emit([srv EXCEPT !.visitor = c.visit, !.lang = l],
                  "chat", "other", c.visit)
  <2>1. PICK l \in {c.visit, srv.lang} :
             Emit([srv EXCEPT !.visitor = c.visit, !.lang = l],
                  "chat", "other", c.visit)
    BY <1>5
  <2>2. [srv EXCEPT !.visitor = c.visit, !.lang = l] \in Session
    BY <1>0 DEF Session
  <2>3. QED
    BY <1>0, <2>1, <2>2, EmitType
<1>6. CASE \E l \in {srv.lang} \cup ({c.visit} \cap {srv.visitor}) :
             Emit([srv EXCEPT !.lang = l], c.ui, "other", NoVisit)
  <2>1. PICK l \in {srv.lang} \cup ({c.visit} \cap {srv.visitor}) :
             Emit([srv EXCEPT !.lang = l], c.ui, "other", NoVisit)
    BY <1>6
  <2>2. [srv EXCEPT !.lang = l] \in Session
    BY <1>0 DEF Session
  <2>3. QED
    BY <1>0, <2>1, <2>2, EmitType
<1>7. CASE srv' = [srv EXCEPT !.gen = @ + 1, !.turn = c.visit] /\ UNCHANGED down
  BY <1>0, <1>7 DEF Session
<1>8. CASE Refuse
  BY <1>0, <1>8, EmitType DEF Refuse
<1>9. QED
  BY <1>1, <1>2, <1>3, <1>4, <1>5, <1>6, <1>7, <1>8 DEF Handle

-----------------------------------------------------------------------------
\* Nothing waits for an epoch to come.
Aged == \A i \in DOMAIN pending : pending[i].epoch <= floor

LEMMA EnqueueAged ==
    ASSUME floor \in Nat, NEW queue \in Seq(Command), NEW e \in Nat,
           NEW p \in Payload, Enqueue(queue, e, p), e <= floor',
           \A i \in DOMAIN queue : queue[i].epoch <= floor'
    PROVE  Aged'
<1>1. CASE open
  BY <1>1 DEF Enqueue, Aged
<1>2. CASE ~open
  <2>1. pending' = Append(queue, [epoch |-> e, payload |-> p])
    BY <1>2, Zenon DEF Enqueue
  <2>2. [epoch |-> e, payload |-> p].epoch = e
    OBVIOUS
  <2>3. QED
    BY <2>1, <2>2 DEF Aged
<1>3. QED
  BY <1>1, <1>2

LEMMA SendAged ==
    ASSUME SendTypes, Aged, floor \in Nat, floor' = floor, NEW p \in Payload,
           Send(p)
    PROVE  Aged'
<1>1. CASE UNCHANGED dispatchVars
  BY <1>1 DEF Aged, dispatchVars
<1>2. CASE Enqueue(pending, floor, p)
  BY <1>2, EnqueueAged DEF SendTypes, Aged
<1>3. QED
  BY <1>1, <1>2 DEF Send

\* A reset invalidates everything that waits.
LEMMA AgedGoes ==
    ASSUME TypeOK, Aged
    PROVE  Survivors(floor + 1) = <<>>
<1>1. floor + 1 \in Nat /\ floor \in Nat
  BY DEF TypeOK
<1>2. \A i \in DOMAIN pending : pending[i].epoch \in Nat
  <2>1. pending \in Seq(Command)
    BY DEF TypeOK
  <2>2. \A i \in 1 .. Len(pending) : pending[i] \in Command
    BY <2>1, ElementOfSeq
  <2>3. QED
    BY <2>1, <2>2 DEF Command
<1>3. \A i \in DOMAIN pending : ~(pending[i].epoch >= floor + 1)
  BY <1>1, <1>2 DEF Aged
<1>4. QED
  BY <1>3 DEF Survivors

\* Every variable keeps its type, and what waits is of an epoch that has begun.
THEOREM TypeInvariant == Spec => [](TypeOK /\ Aged)
<1> USE KioskBoundsAssumption
<1>1. Init => TypeOK /\ Aged
  <2> SUFFICES ASSUME Init PROVE TypeOK /\ Aged
    OBVIOUS
  <2>1. visit \in Visits /\ sockets \in 0 .. MaxSockets
    BY DEF Init, Visits
  <2>2. pending \in Seq(Command) /\ up \in Seq(Payload) /\ down \in Seq(Frame)
    BY DEF Init
  <2>3. srv \in Session
    BY NewSessionType DEF Init
  <2>4. TypeOK
    BY <2>1, <2>2, <2>3 DEF Init, TypeOK, Screens, NoVisit
  <2>5. Aged
    BY DEF Init, Aged
  <2>6. QED
    BY <2>4, <2>5
<1>2. TypeOK /\ Aged /\ [Next]_vars => TypeOK' /\ Aged'
  <2> SUFFICES ASSUME TypeOK, Aged, [Next]_vars PROVE TypeOK' /\ Aged'
    OBVIOUS
  <2>1. floor + 1 \in Nat /\ 0 \in Nat /\ visit \in Nat
    BY DEF TypeOK, Visits
  <2>2. SendTypes
    BY DEF TypeOK, SendTypes
  <2>3. \A a \in Actions : Call(a) \in Payload
    BY CallType DEF TypeOK
  <2>4. CASE Wake
    <3>1. Call("wake") \in Payload
      BY <2>3 DEF Actions, Singletons
    <3>2. SendTypes'
      BY <2>2, <2>4, <3>1, SendType DEF Wake, TypeOK
    <3>3. Aged'
      BY <2>2, <2>4, <3>1, SendAged DEF Wake, TypeOK, fenceVars
    <3>4. QED
      BY <2>4, <3>2, <3>3 DEF Wake, TypeOK, SendTypes, Screens, fenceVars
  <2>5. CASE StartConversation
    <3>1. Call("conversation_started") \in Payload
      BY <2>3 DEF Actions, Singletons
    <3>2. SendTypes'
      BY <2>2, <2>5, <3>1, SendType DEF StartConversation, TypeOK
    <3>3. Aged'
      BY <2>2, <2>5, <3>1, SendAged DEF StartConversation, TypeOK, fenceVars
    <3>4. QED
      BY <2>5, <3>2, <3>3 DEF StartConversation, TypeOK, SendTypes, fenceVars, storageVars
  <2>6. CASE SelectLanguage
    <3>1. Call("language_selected") \in Payload
      BY <2>3 DEF Actions, Singletons
    <3>2. SendTypes'
      BY <2>2, <2>6, <3>1, SendType DEF SelectLanguage, TypeOK
    <3>3. Aged'
      BY <2>2, <2>6, <3>1, SendAged DEF SelectLanguage, TypeOK, fenceVars
    <3>4. QED
      BY <2>6, <3>2, <3>3 DEF SelectLanguage, TypeOK, SendTypes, fenceVars
  <2>7. CASE Speak
    <3>1. Call("user_message") \in Payload /\ Call("cancel_turn") \in Payload
      BY <2>3 DEF Actions, Singletons
    <3>2. SendTypes'
      BY <2>2, <2>7, <3>1, SendType DEF Speak, TypeOK
    <3>3. Aged'
      BY <2>2, <2>7, <3>1, SendAged DEF Speak, TypeOK, fenceVars
    <3>4. QED
      BY <2>7, <3>2, <3>3 DEF Speak, TypeOK, SendTypes, fenceVars, uiVars, storageVars
  <2>8. CASE Rebind
    <3>1. [Call("restore_language") EXCEPT !.ui = screen] \in Payload
      <4>1. Call("restore_language") \in Payload /\ screen \in Screens
        BY <2>3 DEF Actions, TypeOK
      <4>2. QED
        BY <4>1 DEF Payload
    <3>2. SendTypes'
      BY <2>2, <2>8, <3>1, SendType DEF Rebind, TypeOK, SendTypes, dispatchVars
    <3>3. Aged'
      BY <2>2, <2>8, <3>1, SendAged DEF Rebind, TypeOK, fenceVars, Aged, dispatchVars
    <3>4. QED
      BY <2>8, <3>2, <3>3 DEF Rebind, TypeOK, SendTypes, fenceVars, uiVars, storageVars
  <2>9. CASE Home
    <3>1. visit + 1 \in Visits
      BY <2>9 DEF Home, TypeOK, Visits
    <3>2. [Call("reset_session") EXCEPT !.visit = visit + 1] \in Payload
      BY <2>3, <3>1 DEF Actions, Payload
    <3>3. Survivors(floor + 1) = <<>> /\ <<>> \in Seq(Command)
      BY AgedGoes
    <3>4. /\ pending' \in Seq(Command)
          /\ sent' \subseteq (Nat \X Singletons)
          /\ up' \in Seq(Payload)
      BY <2>1, <2>2, <2>9, <3>2, <3>3, EnqueueType DEF Home, TypeOK
    <3>5. Aged'
      <4>1. Enqueue(<<>>, floor + 1,
                    [Call("reset_session") EXCEPT !.visit = visit + 1])
        BY <2>9, <3>3 DEF Home
      <4>2. floor + 1 <= floor' /\ floor \in Nat
        BY <2>1, <2>9 DEF Home, TypeOK
      <4>3. \A i \in DOMAIN <<>> : <<>>[i].epoch <= floor'
        OBVIOUS
      <4>4. QED
        BY <2>1, <3>2, <3>3, <4>1, <4>2, <4>3, EnqueueAged, Zenon
    <3>6. QED
      BY <2>1, <2>9, <3>1, <3>4, <3>5 DEF Home, TypeOK, Screens
  <2>10. CASE Reload
    <3>1. /\ pending' \in Seq(Command) /\ up' \in Seq(Payload)
          /\ down' \in Seq(Frame) /\ srv' \in Session /\ Aged'
      BY <2>10, NewSessionType DEF Reload, Aged
    <3>2. QED
      BY <2>10, <3>1 DEF Reload, TypeOK, Screens, storageVars
  <2>11. CASE Open
    <3>1. up' \in Seq(Payload)
      <4>1. \A i \in 1 .. Len(pending) : pending[i].payload \in Payload
        BY PendingType DEF TypeOK, Command
      <4>2. up' = [i \in 1 .. Len(pending) |-> pending[i].payload]
        BY <2>11 DEF Open, TypeOK
      <4>3. Len(pending) \in Nat
        BY DEF TypeOK
      <4>4. QED
        BY <4>1, <4>2, <4>3
    <3>2. srv' \in Session
      BY <2>11, NewSessionType DEF Open, Session
    <3>3. down' \in Seq(Frame)
      BY <2>11 DEF Open, Frame, Screens
    <3>4. QED
      BY <2>11, <3>1, <3>2, <3>3 DEF Open, TypeOK, uiVars, storageVars, Aged
  <2>12. CASE Drop
    <3>1. /\ up' \in Seq(Payload) /\ down' \in Seq(Frame) /\ srv' \in Session
          /\ Aged'
      BY <2>12, NewSessionType DEF Drop, Aged, fenceVars, dispatchVars
    <3>2. QED
      BY <2>12, <3>1 DEF Drop, TypeOK, fenceVars, dispatchVars, uiVars, storageVars
  <2>13. CASE Receive
    <3>1. down' \in Seq(Frame) /\ Head(down) \in Frame
      BY <2>13 DEF Receive, TypeOK
    <3>2. applied' \in Nat /\ lastSeq' \in Nat
      BY <2>13, <3>1 DEF Receive, TypeOK, Frame
    <3>3. /\ unacked' \in BOOLEAN /\ screen' \in Screens /\ gate' \in BOOLEAN
          /\ started' \in BOOLEAN /\ shown' \in Visits \cup {NoVisit}
      BY <2>13, <3>1 DEF Receive, TypeOK, Frame, uiVars
    <3>4. QED
      BY <2>13, <3>1, <3>2, <3>3 DEF Receive, TypeOK, storageVars, Aged
  <2>14. CASE Serve
    <3>1. up' \in Seq(Payload) /\ Head(up) \in Payload
      BY <2>14 DEF Serve, TypeOK
    <3>2. srv' \in Session /\ down' \in Seq(Frame)
      BY <2>14, <3>1, HandleType DEF Serve, TypeOK
    <3>3. QED
      BY <2>14, <3>1, <3>2 DEF Serve, TypeOK, fenceVars, dispatchVars, uiVars,
                               storageVars, Aged
  <2>15. CASE Answer
    <3>1. PICK t \in {srv.turn, NoVisit} :
             Emit([srv EXCEPT !.turn = t], "chat", "other", srv.turn)
      BY <2>15 DEF Answer
    <3>2. [srv EXCEPT !.turn = t] \in Session /\ srv.turn \in Visits \cup {NoVisit}
      BY DEF TypeOK, Session
    <3>3. srv' \in Session /\ down' \in Seq(Frame)
      BY <3>1, <3>2, EmitType DEF TypeOK, Screens
    <3>4. QED
      BY <2>15, <3>3 DEF Answer, TypeOK, fenceVars, dispatchVars, uiVars,
                         storageVars, Aged
  <2>16. CASE UNCHANGED vars
    BY <2>16 DEF vars, TypeOK, fenceVars, dispatchVars, uiVars, storageVars,
                 wireVars, Aged
  <2>17. QED
    BY <2>4, <2>5, <2>6, <2>7, <2>8, <2>9, <2>10, <2>11, <2>12, <2>13, <2>14,
       <2>15, <2>16 DEF Next
<1>3. QED
  BY <1>1, <1>2, PTL DEF Spec

\* Every variable keeps its type.
THEOREM TypeCorrect == Spec => []TypeOK
BY TypeInvariant, PTL

-----------------------------------------------------------------------------
\* The order of the commands: nothing waits while the socket is open, what waits
\* is of the present visit and epoch (only the first of it may be a reset), and
\* on the wire a command is of its predecessor's visit unless it is a reset.
Step(p) == IF p.action = "reset_session" THEN 1 ELSE 0

Queued ==
    \A i \in DOMAIN pending :
        /\ pending[i].epoch <= floor
        /\ pending[i].payload.visit = visit
        /\ i > 1 => pending[i].payload.action # "reset_session"

Chained ==
    /\ \A i \in 1 .. (Len(up) - 1) : up[i + 1].visit = up[i].visit + Step(up[i + 1])
    /\ up # <<>> => up[Len(up)].visit = visit

Closed == ~open => (up = <<>> /\ down = <<>> /\ srv = NewSession)

QueueInv ==
    /\ open => pending = <<>>
    /\ Queued
    /\ Chained
    /\ Closed

\* One more command of the present visit keeps the order.
LEMMA SendQueue ==
    ASSUME TypeOK, QueueInv, UNCHANGED <<floor, visit, open, down, srv>>,
           NEW p \in Payload, p.visit = visit, p.action # "reset_session", Send(p)
    PROVE  QueueInv'
<1>0. /\ pending \in Seq(Command) /\ up \in Seq(Payload) /\ visit \in Nat
      /\ floor \in Nat
  BY DEF TypeOK, Visits
<1>1. CASE UNCHANGED <<pending, up>>
  BY <1>1 DEF QueueInv, Queued, Chained, Closed
<1>2. CASE open /\ Enqueue(pending, floor, p)
  <2>1. up' = Append(up, p) /\ pending' = pending
    BY <1>2, Zenon DEF Enqueue
  <2>2. Chained'
    <3>1. Step(p) = 0 /\ Len(up') = Len(up) + 1 /\ up'[Len(up')].visit = visit'
      BY <1>0, <2>1 DEF Step
    <3>2. ASSUME NEW i \in 1 .. (Len(up') - 1)
          PROVE  up'[i + 1].visit = up'[i].visit + Step(up'[i + 1])
      <4>1. CASE i < Len(up)
        <5>1. i \in 1 .. (Len(up) - 1) /\ up'[i] = up[i] /\ up'[i + 1] = up[i + 1]
          BY <1>0, <2>1, <3>1, <4>1
        <5>2. QED
          BY <5>1 DEF QueueInv, Chained
      <4>2. CASE i = Len(up)
        <5>1. up # <<>> /\ up'[i] = up[Len(up)] /\ up'[i + 1] = p
          BY <1>0, <2>1, <3>1, <4>2
        <5>2. QED
          BY <1>0, <3>1, <5>1 DEF QueueInv, Chained
      <4>3. QED
        BY <1>0, <3>1, <4>1, <4>2
    <3>3. QED
      BY <3>1, <3>2 DEF Chained
  <2>3. QED
    BY <1>2, <2>1, <2>2 DEF QueueInv, Queued, Closed
<1>3. CASE ~open /\ Enqueue(pending, floor, p)
  <2>1. pending' = Append(pending, [epoch |-> floor, payload |-> p]) /\ up' = up
    BY <1>3, Zenon DEF Enqueue
  <2>2. Queued'
    BY <1>0, <2>1 DEF QueueInv, Queued
  <2>3. QED
    BY <1>3, <2>1, <2>2 DEF QueueInv, Chained, Closed
<1>4. QED
  BY <1>1, <1>2, <1>3 DEF Send, dispatchVars

\* A visit begins with its reset, and its commands follow each other.
THEOREM QueueInvariant == Spec => []QueueInv
<1>1. Init => QueueInv
  BY DEF Init, QueueInv, Queued, Chained, Closed
<1>2. TypeOK /\ Aged /\ QueueInv /\ [Next]_vars => QueueInv'
  <2> SUFFICES ASSUME TypeOK, Aged, QueueInv, [Next]_vars PROVE QueueInv'
    OBVIOUS
  <2>0. /\ pending \in Seq(Command) /\ up \in Seq(Payload) /\ visit \in Nat
        /\ floor \in Nat
    BY DEF TypeOK, Visits
  <2>1. ASSUME NEW a \in Actions, a # "reset_session"
        PROVE  /\ Call(a) \in Payload
               /\ Call(a).visit = visit
               /\ Call(a).action # "reset_session"
    <3>1. Call(a) \in Payload
      BY CallType DEF TypeOK
    <3>2. QED
      BY <2>1, <3>1 DEF Call
  <2>2. CASE Wake
    BY <2>1, <2>2, SendQueue DEF Wake, fenceVars, Actions, Singletons
  <2>3. CASE StartConversation
    BY <2>1, <2>3, SendQueue DEF StartConversation, fenceVars, storageVars,
                                 Actions, Singletons
  <2>4. CASE SelectLanguage
    BY <2>1, <2>4, SendQueue DEF SelectLanguage, fenceVars, Actions, Singletons
  <2>5. CASE Speak
    BY <2>1, <2>5, SendQueue DEF Speak, fenceVars, storageVars, Actions, Singletons
  <2>6. CASE Rebind
    <3>1. CASE UNCHANGED <<dispatchVars, up>>
      BY <2>6, <3>1 DEF Rebind, QueueInv, Queued, Chained, Closed, dispatchVars,
                        fenceVars, storageVars
    <3>2. CASE Send([Call("restore_language") EXCEPT !.ui = screen])
      <4>1. /\ [Call("restore_language") EXCEPT !.ui = screen] \in Payload
            /\ [Call("restore_language") EXCEPT !.ui = screen].visit = visit
            /\ [Call("restore_language") EXCEPT !.ui = screen].action # "reset_session"
        <5>1. /\ Call("restore_language") \in Payload /\ screen \in Screens
              /\ Call("restore_language").visit = visit
              /\ Call("restore_language").action # "reset_session"
          BY <2>1 DEF Actions, TypeOK
        <5>2. QED
          BY <5>1 DEF Payload
      <4>2. QED
        BY <2>6, <3>2, <4>1, SendQueue DEF Rebind, fenceVars, storageVars
    <3>3. QED
      BY <2>6, <3>1, <3>2 DEF Rebind
  <2>7. CASE Home
    <3> DEFINE r == [Call("reset_session") EXCEPT !.visit = visit + 1]
    <3>1. r.visit = visit + 1 /\ r.action = "reset_session" /\ Step(r) = 1
      BY DEF Call, Step
    <3>2. Survivors(floor + 1) = <<>>
      BY AgedGoes
    <3>3. /\ Enqueue(<<>>, floor + 1, r) /\ visit' = visit + 1
          /\ floor' = floor + 1 /\ UNCHANGED <<open, down, srv>>
      BY <2>7, <3>2 DEF Home
    <3> HIDE DEF r
    <3>4. CASE open
      <4>1. up' = Append(up, r) /\ pending' = <<>>
        BY <3>3, <3>4, Zenon DEF Enqueue
      <4>2. Chained'
        <5>1. Len(up') = Len(up) + 1 /\ up'[Len(up')].visit = visit'
          BY <2>0, <3>1, <3>3, <4>1
        <5>2. ASSUME NEW i \in 1 .. (Len(up') - 1)
              PROVE  up'[i + 1].visit = up'[i].visit + Step(up'[i + 1])
          <6>1. CASE i < Len(up)
            <7>1. i \in 1 .. (Len(up) - 1) /\ up'[i] = up[i] /\ up'[i + 1] = up[i + 1]
              BY <2>0, <4>1, <5>1, <6>1
            <7>2. QED
              BY <7>1 DEF QueueInv, Chained
          <6>2. CASE i = Len(up)
            <7>1. up # <<>> /\ up'[i] = up[Len(up)] /\ up'[i + 1] = r
              BY <2>0, <4>1, <5>1, <6>2
            <7>2. QED
              BY <2>0, <3>1, <7>1 DEF QueueInv, Chained
          <6>3. QED
            BY <2>0, <5>1, <6>1, <6>2
        <5>3. QED
          BY <5>1, <5>2 DEF Chained
      <4>3. QED
        BY <3>3, <3>4, <4>1, <4>2 DEF QueueInv, Queued, Closed
    <3>5. CASE ~open
      <4>1. pending' = Append(<<>>, [epoch |-> floor + 1, payload |-> r]) /\ up' = up
        BY <3>3, <3>5, Zenon DEF Enqueue
      <4>2. /\ pending' = <<[epoch |-> floor + 1, payload |-> r]>>
            /\ up' = <<>> /\ down' = <<>> /\ srv' = NewSession
        BY <3>3, <3>5, <4>1 DEF QueueInv, Closed
      <4>3. Queued'
        BY <2>0, <3>1, <3>3, <4>2 DEF Queued
      <4>4. Chained'
        BY <4>2 DEF Chained
      <4>5. QED
        BY <3>3, <3>5, <4>2, <4>3, <4>4 DEF QueueInv, Closed
    <3>6. QED
      BY <3>4, <3>5
  <2>8. CASE Reload
    BY <2>8 DEF Reload, QueueInv, Queued, Chained, Closed
  <2>9. CASE Open
    <3>1. /\ up' = [i \in 1 .. Len(pending) |-> pending[i].payload]
          /\ pending' = <<>> /\ open' /\ visit' = visit /\ Len(pending) \in Nat
      BY <2>0, <2>9 DEF Open, storageVars
    <3>2. Len(up') = Len(pending)
      BY <3>1
    <3>3. ASSUME NEW i \in 1 .. Len(pending)
          PROVE  up'[i].visit = visit /\ (i > 1 => Step(up'[i]) = 0)
      BY <2>0, <3>1 DEF QueueInv, Queued, Step
    <3>4. Chained'
      <4>1. ASSUME NEW i \in 1 .. (Len(up') - 1)
            PROVE  up'[i + 1].visit = up'[i].visit + Step(up'[i + 1])
        <5>1. i \in 1 .. Len(pending) /\ i + 1 \in 1 .. Len(pending) /\ i + 1 > 1
          BY <3>1, <3>2
        <5>2. up'[i].visit = visit /\ up'[i + 1].visit = visit /\ Step(up'[i + 1]) = 0
          BY <3>3, <5>1
        <5>3. QED
          BY <2>0, <5>2
      <4>2. ASSUME up' # <<>> PROVE up'[Len(up')].visit = visit'
        <5>1. Len(pending) # 0
          BY <3>1, <4>2
        <5>2. QED
          BY <3>1, <3>2, <3>3, <5>1
      <4>3. QED
        BY <4>1, <4>2 DEF Chained
    <3>5. QED
      BY <3>1, <3>4 DEF QueueInv, Queued, Closed
  <2>10. CASE Drop
    BY <2>10 DEF Drop, QueueInv, Queued, Chained, Closed, fenceVars, dispatchVars,
                 storageVars
  <2>11. CASE Receive
    BY <2>11 DEF Receive, QueueInv, Queued, Chained, Closed, storageVars
  <2>12. CASE Serve
    <3>1. /\ up # <<>> /\ up' = Tail(up) /\ open /\ open'
          /\ UNCHANGED <<pending, floor, visit>>
      BY <2>12 DEF Serve, fenceVars, dispatchVars, storageVars
    <3>2. Chained'
      <4>1. /\ Len(up') = Len(up) - 1 /\ Len(up) \in Nat
            /\ \A i \in 1 .. Len(up') : up'[i] = up[i + 1]
        BY <2>0, <3>1
      <4>2. \A i \in 1 .. (Len(up') - 1) :
                up'[i + 1].visit = up'[i].visit + Step(up'[i + 1])
        <5>1. ASSUME NEW i \in 1 .. (Len(up') - 1)
              PROVE  up'[i + 1].visit = up'[i].visit + Step(up'[i + 1])
          <6>1. i + 1 \in 1 .. (Len(up) - 1) /\ up'[i] = up[i + 1]
                /\ up'[i + 1] = up[(i + 1) + 1]
            BY <4>1
          <6>2. QED
            BY <6>1 DEF QueueInv, Chained
        <5>2. QED
          BY <5>1
      <4>3. ASSUME up' # <<>> PROVE up'[Len(up')].visit = visit'
        <5>1. Len(up') # 0
          BY <2>0, <3>1, <4>3
        <5>2. up'[Len(up')] = up[Len(up)]
          BY <4>1, <5>1
        <5>3. QED
          BY <3>1, <5>2 DEF QueueInv, Chained
      <4>4. QED
        BY <4>2, <4>3 DEF Chained
    <3>3. QED
      BY <3>1, <3>2 DEF QueueInv, Queued, Closed
  <2>13. CASE Answer
    BY <2>13 DEF Answer, QueueInv, Queued, Chained, Closed, fenceVars,
                 dispatchVars, storageVars
  <2>14. CASE UNCHANGED vars
    BY <2>14 DEF vars, QueueInv, Queued, Chained, Closed, fenceVars,
                 dispatchVars, storageVars, wireVars
  <2>15. QED
    BY <2>2, <2>3, <2>4, <2>5, <2>6, <2>7, <2>8, <2>9, <2>10, <2>11, <2>12,
       <2>13, <2>14 DEF Next
<1>3. QED
  BY <1>1, <1>2, TypeInvariant, PTL DEF Spec

-----------------------------------------------------------------------------
(* What an emitted frame and a served command do to the generation and to    *)
(* the language.                                                            *)

FramesOld == \A i \in DOMAIN down : down[i].gen <= srv.gen

LEMMA EmitGen ==
    ASSUME srv \in Session, down \in Seq(Frame), FramesOld,
           NEW s \in Session, s.gen >= srv.gen,
           NEW st, NEW k, NEW v, Emit(s, st, k, v)
    PROVE  /\ srv'.gen = s.gen /\ srv'.lang = s.lang /\ srv'.visitor = s.visitor
           /\ FramesOld'
<1>1. /\ srv' = [s EXCEPT !.seq = srv.seq + 1]
      /\ down' = Append(down, [state |-> st, kind |-> k, gen |-> s.gen,
                               seq |-> srv.seq + 1, visit |-> v])
  BY DEF Emit
<1>2. srv'.gen = s.gen /\ srv'.lang = s.lang /\ srv'.visitor = s.visitor
  BY <1>1 DEF Session
<1>3. FramesOld'
  <2>1. Len(down') = Len(down) + 1 /\ DOMAIN down' = 1 .. Len(down')
    BY <1>1
  <2>2. ASSUME NEW i \in DOMAIN down'
        PROVE  down'[i].gen <= srv'.gen
    <3>1. CASE i = Len(down) + 1
      <4>1. down'[i].gen = s.gen
        BY <1>1, <3>1
      <4>2. QED
        BY <1>2, <4>1 DEF Session
    <3>2. CASE i # Len(down) + 1
      <4>1. i \in 1 .. Len(down) /\ down'[i] = down[i]
        BY <1>1, <2>1, <3>2
      <4>2. down[i] \in Frame /\ down[i].gen <= srv.gen
        BY <4>1, ElementOfSeq DEF FramesOld
      <4>3. QED
        BY <1>2, <4>1, <4>2 DEF Session, Frame
    <3>3. QED
      BY <3>1, <3>2
  <2>3. QED
    BY <2>2 DEF FramesOld
<1>4. QED
  BY <1>2, <1>3

\* A served command never lowers the generation, and a reset raises it.
LEMMA HandleGen ==
    ASSUME srv \in Session, down \in Seq(Frame), FramesOld, NEW c \in Payload,
           Handle(c)
    PROVE  /\ srv'.gen >= srv.gen
           /\ c.action = "reset_session" => srv'.gen = srv.gen + 1
           /\ FramesOld'
<1>0. /\ c.visit \in Visits
      /\ srv.gen \in Nat /\ srv.gen + 1 \in Nat
      /\ srv.lang \in Visits \cup {NoVisit} /\ NoVisit \in Visits \cup {NoVisit}
  BY DEF Payload, Session
<1>1. CASE c.action = "reset_session"
  <2>1. ResetSession \in Session /\ ResetSession.gen = srv.gen + 1
    BY <1>0, ResetType, NewSessionType DEF ResetSession, Session
  <2>2. Emit(ResetSession, "sleep", "other", NoVisit)
    BY <1>1 DEF Handle
  <2>3. QED
    BY <1>0, <2>1, <2>2, EmitGen
<1>2. CASE c.action = "cancel_turn"
  <2> DEFINE s == [srv EXCEPT !.gen = @ + 1, !.turn = NoVisit]
  <2>1. s \in Session /\ s.gen = srv.gen + 1
    BY <1>0 DEF Session
  <2>2. Emit(s, "chat", "other", c.visit)
    BY <1>2 DEF Handle
  <2> HIDE DEF s
  <2>3. QED
    BY <1>0, <1>2, <2>1, <2>2, EmitGen
<1>3. CASE c.action = "wake"
  <2> DEFINE s == [srv EXCEPT !.visitor = c.visit]
  <2>1. s \in Session /\ s.gen = srv.gen
    BY <1>0 DEF Session
  <2>2. Emit(s, "chat", "wake", NoVisit)
    BY <1>3 DEF Handle
  <2> HIDE DEF s
  <2>3. QED
    BY <1>0, <1>3, <2>1, <2>2, EmitGen
<1>4. CASE c.action = "conversation_started"
  BY <1>0, <1>4, EmitGen DEF Handle
<1>5. CASE c.action = "language_selected"
  <2>1. PICK l \in {c.visit, srv.lang} :
             Emit([srv EXCEPT !.visitor = c.visit, !.lang = l],
                  "chat", "other", c.visit)
    BY <1>5 DEF Handle
  <2> DEFINE s == [srv EXCEPT !.visitor = c.visit, !.lang = l]
  <2>2. s \in Session /\ s.gen = srv.gen
    BY <1>0 DEF Session
  <2>3. Emit(s, "chat", "other", c.visit)
    BY <2>1
  <2> HIDE DEF s
  <2>4. QED
    BY <1>0, <1>5, <2>2, <2>3, EmitGen
<1>6. CASE c.action = "restore_language"
  <2>1. PICK l \in {srv.lang} \cup ({c.visit} \cap {srv.visitor}) :
             Emit([srv EXCEPT !.lang = l], c.ui, "other", NoVisit)
    BY <1>6 DEF Handle
  <2> DEFINE s == [srv EXCEPT !.lang = l]
  <2>2. s \in Session /\ s.gen = srv.gen
    BY <1>0 DEF Session
  <2>3. Emit(s, c.ui, "other", NoVisit)
    BY <2>1
  <2> HIDE DEF s
  <2>4. QED
    BY <1>0, <1>6, <2>2, <2>3, EmitGen
<1>7. CASE c.action = "user_message"
  <2>1. CASE Emit(srv, "chat", "other", c.visit)
    BY <1>0, <1>7, <2>1, EmitGen
  <2>2. CASE srv' = [srv EXCEPT !.gen = @ + 1, !.turn = c.visit] /\ down' = down
    <3>1. srv'.gen = srv.gen + 1
      BY <1>0, <2>2 DEF Session
    <3>2. FramesOld'
      <4>1. \A i \in 1 .. Len(down) : down[i] \in Frame
        BY ElementOfSeq
      <4>2. ASSUME NEW i \in DOMAIN down
            PROVE  down[i].gen <= srv.gen + 1
        <5>1. down[i].gen \in Nat /\ down[i].gen <= srv.gen
          BY <4>1 DEF FramesOld, Frame
        <5>2. QED
          BY <1>0, <5>1
      <4>3. QED
        BY <2>2, <3>1, <4>2 DEF FramesOld
    <3>3. QED
      BY <1>0, <1>7, <3>1, <3>2
  <2>3. QED
    BY <1>7, <2>1, <2>2 DEF Handle
<1>8. QED
  BY <1>1, <1>2, <1>3, <1>4, <1>5, <1>6, <1>7 DEF Payload, Actions, Singletons

\* A served command leaves a language only to the visitor it comes from.
LEMMA HandleLang ==
    ASSUME srv \in Session, NEW c \in Payload, Handle(c),
           (srv.lang # NoVisit /\ c.action # "reset_session")
               => (srv.lang = srv.visitor /\ srv.lang = c.visit)
    PROVE  srv'.lang # NoVisit
               => /\ c.action # "reset_session"
                  /\ srv'.lang = srv'.visitor
                  /\ srv'.lang = c.visit
<1>1. CASE c.action = "reset_session"
  <2>1. srv' = [ResetSession EXCEPT !.seq = srv.seq + 1]
    BY <1>1 DEF Handle, Emit
  <2>2. srv'.lang = NoVisit
    BY <2>1, NewSessionType DEF ResetSession, NewSession
  <2>3. QED
    BY <2>2
<1>2. CASE c.action = "cancel_turn"
  BY <1>2 DEF Handle, Emit, Session
<1>3. CASE c.action = "wake"
  BY <1>3 DEF Handle, Emit, Session
<1>4. CASE c.action = "conversation_started"
  BY <1>4 DEF Handle, Emit, Session
<1>5. CASE c.action = "language_selected"
  BY <1>5 DEF Handle, Emit, Session
<1>6. CASE c.action = "restore_language"
  BY <1>6 DEF Handle, Emit, Session
<1>7. CASE c.action = "user_message"
  BY <1>7 DEF Handle, Emit, Session
<1>8. QED
  BY <1>1, <1>2, <1>3, <1>4, <1>5, <1>6, <1>7 DEF Payload, Actions, Singletons

-----------------------------------------------------------------------------
\* The resets that are still to be served are counted by the visits still to
\* come; the fences are ahead of the generation by no more than that.
FenceInv ==
    open =>
        /\ FramesOld
        /\ applied <= srv.gen \/ applied <= floor
        /\ up = <<>> => floor <= srv.gen
        /\ up # <<>> => floor + up[1].visit <= srv.gen + visit + Step(up[1])

\* A session's language is of the visitor who will be served next.
LangInv ==
    srv.lang # NoVisit =>
        /\ srv.lang = srv.visitor
        /\ up = <<>> => visit = srv.lang
        /\ (up # <<>> /\ up[1].action # "reset_session") => up[1].visit = srv.lang

\* The language of a session, after a command, in terms of the head of the wire.
LEMMA NoLangClosed ==
    ASSUME QueueInv, srv.lang # NoVisit PROVE open
BY DEF QueueInv, Closed, NewSession

LEMMA SendUp ==
    ASSUME open, NEW p \in Payload, Send(p)
    PROVE  up' = up \/ up' = Append(up, p)
BY Zenon DEF Send, Enqueue

\* One more command of the present visit keeps both invariants.
LEMMA SendFence ==
    ASSUME TypeOK, QueueInv, FenceInv, LangInv,
           UNCHANGED <<floor, applied, visit, open, down, srv>>,
           NEW p \in Payload, p.visit = visit, p.action # "reset_session", Send(p)
    PROVE  FenceInv' /\ LangInv'
<1>0. /\ up \in Seq(Payload) /\ visit \in Nat /\ floor \in Nat /\ Step(p) = 0
      /\ srv.gen \in Nat
  BY DEF TypeOK, Visits, Session, Step
<1>1. CASE ~open
  <2>1. ~open' /\ srv' = NewSession
    BY <1>1 DEF QueueInv, Closed
  <2>2. QED
    BY <2>1 DEF FenceInv, LangInv, NewSession
<1>2. CASE up' = up
  BY <1>2 DEF FenceInv, FramesOld, LangInv
<1>3. CASE open /\ up' = Append(up, p)
  <2>1. CASE up = <<>>
    <3>1. up' = <<p>> /\ up'[1] = p /\ up' # <<>>
      BY <1>3, <2>1
    <3>2. floor + up'[1].visit <= srv'.gen + visit' + Step(up'[1])
      BY <1>0, <1>3, <2>1, <3>1 DEF FenceInv
    <3>3. FenceInv'
      BY <1>3, <3>1, <3>2 DEF FenceInv, FramesOld
    <3>4. LangInv'
      BY <2>1, <3>1 DEF LangInv
    <3>5. QED
      BY <3>3, <3>4
  <2>2. CASE up # <<>>
    <3>1. up' # <<>> /\ up'[1] = up[1]
      BY <1>0, <1>3, <2>2
    <3>2. FenceInv'
      BY <1>3, <2>2, <3>1 DEF FenceInv, FramesOld
    <3>3. LangInv'
      BY <2>2, <3>1 DEF LangInv
    <3>4. QED
      BY <3>2, <3>3
  <2>3. QED
    BY <2>1, <2>2
<1>4. QED
  BY <1>1, <1>2, <1>3, SendUp

\* A reset raises the floor by one and the visits to come by one.
LEMMA HomeFence ==
    ASSUME TypeOK, Aged, QueueInv, FenceInv, LangInv, Home
    PROVE  FenceInv' /\ LangInv'
<1> DEFINE r == [Call("reset_session") EXCEPT !.visit = visit + 1]
<1>0. /\ up \in Seq(Payload) /\ visit \in Nat /\ floor \in Nat /\ applied \in Nat
      /\ srv.gen \in Nat
  BY DEF TypeOK, Visits, Session
<1>1. r.visit = visit + 1 /\ r.action = "reset_session" /\ Step(r) = 1
  BY DEF Call, Step
<1>2. /\ Enqueue(Survivors(floor + 1), floor + 1, r) /\ visit' = visit + 1
      /\ floor' = floor + 1
      /\ applied' = IF applied < floor + 1 THEN floor + 1 ELSE applied
      /\ UNCHANGED <<open, down, srv>>
  BY DEF Home
<1> HIDE DEF r
<1>3. CASE ~open
  <2>1. ~open' /\ srv' = NewSession
    BY <1>2, <1>3 DEF QueueInv, Closed
  <2>2. QED
    BY <2>1 DEF FenceInv, LangInv, NewSession
<1>4. CASE open
  <2>1. up' = Append(up, r) /\ up' # <<>>
    <3>1. up' = Append(up, r)
      BY <1>2, <1>4, Zenon DEF Enqueue
    <3>2. QED
      BY <1>0, <3>1
  <2>2. FramesOld' /\ (applied' <= srv'.gen \/ applied' <= floor')
    BY <1>0, <1>2, <1>4 DEF FenceInv, FramesOld
  <2>3. CASE up = <<>>
    <3>1. up'[1] = r
      BY <2>1, <2>3
    <3>2. floor' + up'[1].visit <= srv'.gen + visit' + Step(up'[1])
      BY <1>0, <1>1, <1>2, <1>4, <2>3, <3>1 DEF FenceInv
    <3>3. QED
      BY <1>1, <1>2, <2>1, <2>2, <2>3, <3>1, <3>2 DEF FenceInv, LangInv
  <2>4. CASE up # <<>>
    <3>1. up'[1] = up[1] /\ up[1] \in Payload
      BY <1>0, <2>1, <2>4, ElementOfSeq
    <3>2. up[1].visit \in Nat /\ Step(up[1]) \in Nat
      BY <3>1 DEF Payload, Visits, Step
    <3>3. floor + up[1].visit <= srv.gen + visit + Step(up[1])
      BY <1>4, <2>4 DEF FenceInv
    <3>4. floor' + up'[1].visit <= srv'.gen + visit' + Step(up'[1])
      BY <1>0, <1>2, <3>1, <3>2, <3>3
    <3>5. QED
      BY <1>2, <2>1, <2>2, <2>4, <3>1, <3>4 DEF FenceInv, LangInv
  <2>5. QED
    BY <2>3, <2>4
<1>5. QED
  BY <1>3, <1>4

\* Serving the head of the wire: the next command is of the same visit, or it
\* is the reset that begins the next one.
LEMMA ServeFence ==
    ASSUME TypeOK, QueueInv, FenceInv, LangInv, ~RateLimited, Serve
    PROVE  FenceInv' /\ LangInv'
<1>0. /\ up \in Seq(Payload) /\ visit \in Nat /\ floor \in Nat /\ srv.gen \in Nat
      /\ srv \in Session /\ down \in Seq(Frame)
  BY DEF TypeOK, Visits, Session
<1>1. /\ open /\ up # <<>> /\ Handle(Head(up)) /\ up' = Tail(up)
      /\ UNCHANGED <<floor, applied, visit, open>>
  BY DEF Serve, Refuse, fenceVars, storageVars
<1> DEFINE c == up[1]
<1>2. /\ c = Head(up) /\ c \in Payload /\ Len(up) \in Nat /\ Len(up) >= 1
      /\ Len(up') = Len(up) - 1
      /\ up' = <<>> <=> Len(up) = 1
      /\ up' # <<>> => up'[1] = up[2]
  <2>1. c = Head(up) /\ c \in Payload /\ Len(up) \in Nat /\ Len(up) >= 1
    BY <1>0, <1>1
  <2>2. Len(up') = Len(up) - 1 /\ up' \in Seq(Payload)
    BY <1>0, <1>1
  <2>3. up' = <<>> <=> Len(up) = 1
    BY <2>1, <2>2
  <2>4. ASSUME up' # <<>> PROVE up'[1] = up[2]
    <3>1. 1 \in 1 .. Len(Tail(up))
      BY <1>0, <1>1, <2>1, <2>2, <2>3, <2>4
    <3>2. QED
      BY <1>0, <1>1, <3>1
  <2>5. QED
    BY <2>1, <2>2, <2>3, <2>4
<1>3. c.visit \in Nat /\ Step(c) \in Nat
  BY <1>2 DEF Payload, Visits, Step
<1> HIDE DEF c
<1>4. floor + c.visit <= srv.gen + visit + Step(c)
  BY <1>1 DEF FenceInv, c
<1>5. /\ srv' \in Session
      /\ srv'.gen >= srv.gen + Step(c)
      /\ FramesOld'
  <2>1. Handle(c) /\ FramesOld
    BY <1>1, <1>2 DEF FenceInv
  <2>2. /\ srv'.gen >= srv.gen
        /\ c.action = "reset_session" => srv'.gen = srv.gen + 1
        /\ FramesOld'
    BY <1>0, <1>2, <2>1, HandleGen
  <2>3. srv' \in Session
    BY <1>0, <1>2, <2>1, HandleType
  <2>4. QED
    BY <1>0, <2>2, <2>3 DEF Step
<1>6. srv'.gen \in Nat
  BY <1>5 DEF Session
<1>7. srv'.lang # NoVisit
          => /\ c.action # "reset_session"
             /\ srv'.lang = srv'.visitor
             /\ srv'.lang = c.visit
  <2>1. (srv.lang # NoVisit /\ c.action # "reset_session")
            => (srv.lang = srv.visitor /\ srv.lang = c.visit)
    BY <1>1 DEF LangInv, c
  <2>2. Handle(c)
    BY <1>1, <1>2
  <2>3. QED
    BY <1>0, <1>2, <2>1, <2>2, HandleLang
<1>8. applied' <= srv'.gen \/ applied' <= floor'
  <2>1. applied \in Nat /\ (applied <= srv.gen \/ applied <= floor)
    BY <1>1 DEF FenceInv, TypeOK
  <2>2. QED
    BY <1>0, <1>1, <1>3, <1>5, <1>6, <2>1
<1>9. CASE Len(up) = 1
  <2>1. c.visit = visit /\ up' = <<>>
    BY <1>1, <1>2, <1>9 DEF QueueInv, Chained, c
  <2>2. floor' <= srv'.gen
    BY <1>0, <1>1, <1>3, <1>4, <1>5, <1>6, <2>1
  <2>3. QED
    BY <1>1, <1>5, <1>7, <1>8, <2>1, <2>2 DEF FenceInv, LangInv
<1>10. CASE Len(up) # 1
  <2>1. up' # <<>> /\ up'[1] = up[2] /\ 1 \in 1 .. (Len(up) - 1)
    BY <1>2, <1>10
  <2>2. up[1 + 1].visit = up[1].visit + Step(up[1 + 1])
    BY <2>1 DEF QueueInv, Chained
  <2>3. up'[1].visit = c.visit + Step(up'[1])
    BY <2>1, <2>2 DEF c
  <2>4. Step(up'[1]) \in Nat
    BY DEF Step
  <2>5. floor' + up'[1].visit <= srv'.gen + visit' + Step(up'[1])
    <3>1. floor + c.visit <= srv'.gen + visit
      BY <1>0, <1>3, <1>4, <1>5, <1>6
    <3>2. floor + (c.visit + Step(up'[1])) <= srv'.gen + visit + Step(up'[1])
      BY <1>0, <1>3, <1>6, <2>4, <3>1
    <3>3. QED
      BY <1>1, <2>3, <3>2, Zenon
  <2>6. up'[1].action # "reset_session" => up'[1].visit = c.visit
    BY <1>3, <2>3 DEF Step
  <2>7. QED
    BY <1>1, <1>5, <1>7, <1>8, <2>1, <2>5, <2>6 DEF FenceInv, LangInv
<1>11. QED
  BY <1>9, <1>10

\* The two invariants are preserved by every step, if no command is refused.
LEMMA FenceStep ==
    ASSUME ~RateLimited, TypeOK, Aged, QueueInv, FenceInv, LangInv, [Next]_vars
    PROVE  FenceInv' /\ LangInv'
<1>0. /\ pending \in Seq(Command) /\ up \in Seq(Payload) /\ down \in Seq(Frame)
      /\ visit \in Nat /\ floor \in Nat /\ applied \in Nat /\ srv.gen \in Nat
      /\ srv \in Session
  BY DEF TypeOK, Visits, Session
<1>1. ASSUME NEW a \in Actions, a # "reset_session"
      PROVE  /\ Call(a) \in Payload
             /\ Call(a).visit = visit
             /\ Call(a).action # "reset_session"
  <2>1. Call(a) \in Payload
    BY CallType DEF TypeOK
  <2>2. QED
    BY <1>1, <2>1 DEF Call
<1>2. CASE Wake
  BY <1>1, <1>2, SendFence DEF Wake, fenceVars, Actions, Singletons
<1>3. CASE StartConversation
  BY <1>1, <1>3, SendFence DEF StartConversation, fenceVars, storageVars,
                               Actions, Singletons
<1>4. CASE SelectLanguage
  BY <1>1, <1>4, SendFence DEF SelectLanguage, fenceVars, Actions, Singletons
<1>5. CASE Speak
  BY <1>1, <1>5, SendFence DEF Speak, fenceVars, storageVars, Actions, Singletons
<1>6. CASE Rebind
  <2>1. CASE UNCHANGED <<dispatchVars, up>>
    BY <1>6, <2>1 DEF Rebind, FenceInv, FramesOld, LangInv, fenceVars, storageVars
  <2>2. CASE Send([Call("restore_language") EXCEPT !.ui = screen])
    <3>1. /\ [Call("restore_language") EXCEPT !.ui = screen] \in Payload
          /\ [Call("restore_language") EXCEPT !.ui = screen].visit = visit
          /\ [Call("restore_language") EXCEPT !.ui = screen].action # "reset_session"
      <4>1. /\ Call("restore_language") \in Payload /\ screen \in Screens
            /\ Call("restore_language").visit = visit
            /\ Call("restore_language").action # "reset_session"
        BY <1>1 DEF Actions, TypeOK
      <4>2. QED
        BY <4>1 DEF Payload
    <3>2. QED
      BY <1>6, <2>2, <3>1, SendFence DEF Rebind, fenceVars, storageVars
  <2>3. QED
    BY <1>6, <2>1, <2>2 DEF Rebind
<1>7. CASE Home
  BY <1>7, HomeFence
<1>8. CASE Reload
  BY <1>8 DEF Reload, FenceInv, LangInv, NewSession
<1>9. CASE Open
  <2>1. /\ up' = [i \in 1 .. Len(pending) |-> pending[i].payload]
        /\ visit' = visit /\ floor' = 0 /\ applied' = 0 /\ Len(pending) \in Nat
        /\ srv' = [NewSession EXCEPT !.seq = 1]
        /\ down' = <<[state |-> "sleep", kind |-> "hello", gen |-> 0, seq |-> 1,
                      visit |-> NoVisit]>>
    BY <1>0, <1>9 DEF Open, storageVars
  <2>2. srv'.gen = 0 /\ srv'.lang = NoVisit
    BY <2>1 DEF NewSession
  <2>3. FramesOld'
    BY <2>1, <2>2 DEF FramesOld
  <2>4. ASSUME up' # <<>>
        PROVE  floor' + up'[1].visit <= srv'.gen + visit' + Step(up'[1])
    <3>1. 1 \in 1 .. Len(pending)
      BY <2>1, <2>4
    <3>2. up'[1].visit = visit
      BY <1>0, <2>1, <3>1 DEF QueueInv, Queued
    <3>3. Step(up'[1]) \in Nat
      BY DEF Step
    <3>4. QED
      BY <1>0, <2>1, <2>2, <3>2, <3>3
  <2>5. applied' <= srv'.gen /\ floor' <= srv'.gen
    BY <2>1, <2>2
  <2>6. QED
    BY <2>2, <2>3, <2>4, <2>5 DEF FenceInv, LangInv
<1>10. CASE Drop
  BY <1>10 DEF Drop, FenceInv, LangInv, NewSession
<1>11. CASE Receive
  <2>1. /\ open /\ down # <<>> /\ down' = Tail(down)
        /\ applied' = applied \/ applied' = Head(down).gen
        /\ UNCHANGED <<floor, visit, open, up, srv>>
    BY <1>11 DEF Receive, storageVars
  <2>2. FramesOld /\ (applied <= srv.gen \/ applied <= floor)
    BY <2>1 DEF FenceInv
  <2>3. /\ Head(down).gen <= srv.gen
        /\ \A i \in DOMAIN down' : i + 1 \in DOMAIN down /\ down'[i] = down[i + 1]
    BY <1>0, <2>1, <2>2 DEF FramesOld
  <2>4. FramesOld'
    BY <2>1, <2>2, <2>3 DEF FramesOld
  <2>5. applied' <= srv'.gen \/ applied' <= floor'
    BY <2>1, <2>2, <2>3
  <2>6. QED
    BY <2>1, <2>4, <2>5 DEF FenceInv, LangInv
<1>12. CASE Serve
  BY <1>12, ServeFence
<1>13. CASE Answer
  <2>1. PICK t \in {srv.turn, NoVisit} :
           Emit([srv EXCEPT !.turn = t], "chat", "other", srv.turn)
    BY <1>13 DEF Answer
  <2>2. open /\ UNCHANGED <<floor, applied, visit, open, up>>
    BY <1>13 DEF Answer, fenceVars, storageVars
  <2> DEFINE s == [srv EXCEPT !.turn = t]
  <2>3. /\ s \in Session /\ s.gen = srv.gen /\ s.lang = srv.lang
        /\ s.visitor = srv.visitor
    BY <1>0 DEF Session
  <2>4. Emit(s, "chat", "other", srv.turn)
    BY <2>1
  <2> HIDE DEF s
  <2>5. FramesOld /\ s.gen >= srv.gen
    BY <1>0, <2>2, <2>3 DEF FenceInv
  <2>6. /\ srv'.gen = srv.gen /\ srv'.lang = srv.lang
        /\ srv'.visitor = srv.visitor /\ FramesOld'
    BY <1>0, <2>3, <2>4, <2>5, EmitGen
  <2>7. QED
    BY <2>2, <2>6 DEF FenceInv, LangInv
<1>14. CASE UNCHANGED vars
  BY <1>14 DEF vars, FenceInv, FramesOld, LangInv, fenceVars, storageVars, wireVars
<1>15. QED
  BY <1>2, <1>3, <1>4, <1>5, <1>6, <1>7, <1>8, <1>9, <1>10, <1>11, <1>12, <1>13,
     <1>14 DEF Next

\* If no command is refused, the backend is heard once it has served them all,
\* and it serves no visitor in the language of another.
THEOREM FenceAndLanguage ==
    ASSUME ~RateLimited
    PROVE  Spec => [](FenceInv /\ LangInv)
<1>1. Init => FenceInv /\ LangInv
  BY DEF Init, FenceInv, LangInv, NewSession
<1>2. TypeOK /\ Aged /\ QueueInv /\ FenceInv /\ LangInv /\ [Next]_vars
          => FenceInv' /\ LangInv'
  BY FenceStep
<1>3. QED
  BY <1>1, <1>2, TypeInvariant, QueueInvariant, PTL DEF Spec

\* onopen and setMinAppliedBackendGeneration never leave the kiosk deaf: once
\* the backend has served every command, the fences are not ahead of it.
THEOREM HearsBackend ==
    ASSUME ~RateLimited
    PROVE  Spec => []BackendIsHeard
<1>1. TypeOK /\ FenceInv => BackendIsHeard
  <2> SUFFICES ASSUME TypeOK, FenceInv, open, up = <<>>
               PROVE  floor <= srv.gen /\ applied <= srv.gen
    BY DEF BackendIsHeard
  <2>1. floor \in Nat /\ applied \in Nat /\ srv.gen \in Nat
    BY DEF TypeOK, Session
  <2>2. QED
    BY <2>1 DEF FenceInv
<1>2. QED
  BY <1>1, FenceAndLanguage, TypeInvariant, PTL

\* websocket_clara never serves a visitor in an earlier visitor's language.
THEOREM OwnLanguage ==
    ASSUME ~RateLimited
    PROVE  Spec => []LanguageOfVisitor
<1>1. LangInv => LanguageOfVisitor
  BY DEF LangInv, LanguageOfVisitor
<1>2. QED
  BY <1>1, FenceAndLanguage, PTL

-----------------------------------------------------------------------------
(* What sending a command and emitting a frame do to the two queues.        *)

\* A command is refused as a duplicate, goes out, or waits.
SendEffect(p) ==
    \/ UNCHANGED <<pending, unacked, up>>
    \/ /\ open
       /\ up' = Append(up, p)
       /\ pending' = pending
       /\ unacked' = (unacked \/ p.action = "wake")
    \/ /\ ~open
       /\ pending' = Append(pending, [epoch |-> floor, payload |-> p])
       /\ up' = up
       /\ unacked' = (unacked \/ p.action = "wake")

LEMMA SendShape ==
    ASSUME NEW p \in Payload, Send(p)
    PROVE  SendEffect(p)
<1>1. CASE UNCHANGED <<dispatchVars, up>>
  BY <1>1 DEF SendEffect, dispatchVars
<1>2. CASE /\ Enqueue(pending, floor, p)
           /\ unacked' = (unacked \/ p.action = "wake")
  <2>1. CASE open
    BY <1>2, <2>1, Zenon DEF SendEffect, Enqueue
  <2>2. CASE ~open
    BY <1>2, <2>2, Zenon DEF SendEffect, Enqueue
  <2>3. QED
    BY <2>1, <2>2
<1>3. QED
  BY <1>1, <1>2 DEF Send

\* A frame f is emitted, and the session's reply becomes the one of visit t.
EmitEffect(f, t) ==
    /\ f \in Frame
    /\ down' = Append(down, f)
    /\ f.kind # "hello"
    /\ f.seq = srv.seq + 1
    /\ f.gen = srv'.gen
    /\ f.gen >= srv.gen
    /\ f.visit # NoVisit => f.state = "chat"
    /\ srv'.seq = srv.seq + 1
    /\ srv'.turn = t

LEMMA EmitShape ==
    ASSUME srv \in Session, NEW s \in Session, s.gen >= srv.gen,
           NEW st \in Screens, NEW k \in {"wake", "other"},
           NEW v \in Visits \cup {NoVisit}, v # NoVisit => st = "chat",
           Emit(s, st, k, v)
    PROVE  \E f : EmitEffect(f, s.turn) /\ f.kind = k /\ f.visit = v /\ f.gen = s.gen
<1>1. srv.seq + 1 \in Nat /\ s.gen \in Nat
  BY DEF Session
<1> DEFINE f == [state |-> st, kind |-> k, gen |-> s.gen, seq |-> srv.seq + 1,
                 visit |-> v]
<1>2. f \in Frame
  BY <1>1 DEF Frame
<1>3. /\ srv' = [s EXCEPT !.seq = srv.seq + 1]
      /\ down' = Append(down, f)
  BY DEF Emit
<1>4. srv'.seq = srv.seq + 1 /\ srv'.turn = s.turn /\ srv'.gen = s.gen
  BY <1>3 DEF Session
<1>5. /\ f.state = st /\ f.kind = k /\ f.gen = s.gen /\ f.seq = srv.seq + 1
      /\ f.visit = v
  OBVIOUS
<1> HIDE DEF f
<1>6. EmitEffect(f, s.turn)
  BY <1>2, <1>3, <1>4, <1>5 DEF EmitEffect
<1>7. QED
  BY <1>5, <1>6

\* A reset is answered by a sleep frame of no visit and a higher generation,
\* and ends the reply.
ResetEffect(c) ==
    /\ c.action = "reset_session"
    /\ \E f : EmitEffect(f, NoVisit) /\ f.kind = "other" /\ f.visit = NoVisit
              /\ f.gen = srv.gen + 1

\* Any other command is answered by a frame of its visit or of none.
FrameEffect(c) ==
    /\ c.action # "reset_session"
    /\ \E f, t : /\ EmitEffect(f, t)
                 /\ f.kind = "wake" => c.action = "wake"
                 /\ f.visit \in {NoVisit, c.visit}
                 /\ t \in {NoVisit, srv.turn}

\* A question starts a reply of its visit.
TurnEffect(c) ==
    /\ c.action # "reset_session"
    /\ down' = down
    /\ srv'.seq = srv.seq
    /\ srv'.turn = c.visit

RefuseEffect ==
    /\ RateLimited
    /\ \E f : EmitEffect(f, srv.turn) /\ f.kind = "other"

LEMMA HandleShape ==
    ASSUME srv \in Session, NEW c \in Payload, Handle(c) \/ Refuse
    PROVE  ResetEffect(c) \/ FrameEffect(c) \/ TurnEffect(c) \/ RefuseEffect
<1>0. /\ c.visit \in Visits /\ c.ui \in Screens
      /\ srv.gen \in Nat /\ srv.gen + 1 \in Nat
      /\ srv.lang \in Visits \cup {NoVisit} /\ srv.turn \in Visits \cup {NoVisit}
      /\ NoVisit \in Visits \cup {NoVisit} /\ c.visit \in Visits \cup {NoVisit}
      /\ "sleep" \in Screens /\ "chat" \in Screens
  BY DEF Payload, Session, Screens
<1>1. CASE c.action = "reset_session" /\ Emit(ResetSession, "sleep", "other", NoVisit)
  <2>1. /\ ResetSession \in Session /\ ResetSession.gen = srv.gen + 1
        /\ ResetSession.turn = NoVisit
    BY <1>0, ResetType, NewSessionType DEF ResetSession, Session, NewSession
  <2>2. \E f : EmitEffect(f, ResetSession.turn) /\ f.kind = "other"
               /\ f.visit = NoVisit /\ f.gen = ResetSession.gen
    BY <1>0, <1>1, <2>1, EmitShape
  <2>3. QED
    BY <1>1, <2>1, <2>2 DEF ResetEffect
<1>2. CASE c.action = "cancel_turn"
           /\ Emit([srv EXCEPT !.gen = @ + 1, !.turn = NoVisit],
                   "chat", "other", c.visit)
  <2> DEFINE s == [srv EXCEPT !.gen = @ + 1, !.turn = NoVisit]
  <2>1. s \in Session /\ s.gen >= srv.gen /\ s.turn = NoVisit
    <3>1. s \in Session /\ s.gen = srv.gen + 1 /\ s.turn = NoVisit
      BY <1>0 DEF Session
    <3>2. QED
      BY <1>0, <3>1
  <2>2. Emit(s, "chat", "other", c.visit)
    BY <1>2
  <2> HIDE DEF s
  <2>3. \E f : EmitEffect(f, s.turn) /\ f.kind = "other" /\ f.visit = c.visit
    BY <1>0, <2>1, <2>2, EmitShape
  <2>4. QED
    BY <1>2, <2>1, <2>3 DEF FrameEffect
<1>3. CASE c.action = "wake"
           /\ Emit([srv EXCEPT !.visitor = c.visit], "chat", "wake", NoVisit)
  <2> DEFINE s == [srv EXCEPT !.visitor = c.visit]
  <2>1. s \in Session /\ s.gen >= srv.gen /\ s.turn = srv.turn
    BY <1>0 DEF Session
  <2>2. Emit(s, "chat", "wake", NoVisit)
    BY <1>3
  <2> HIDE DEF s
  <2>3. \E f : EmitEffect(f, s.turn) /\ f.kind = "wake" /\ f.visit = NoVisit
    BY <1>0, <2>1, <2>2, EmitShape
  <2>4. QED
    BY <1>3, <2>1, <2>3 DEF FrameEffect
<1>4. CASE c.action \in {"conversation_started", "user_message"}
           /\ Emit(srv, "chat", "other", c.visit)
  <2>1. srv.gen >= srv.gen
    BY <1>0
  <2>2. \E f : EmitEffect(f, srv.turn) /\ f.kind = "other" /\ f.visit = c.visit
    BY <1>0, <1>4, <2>1, EmitShape
  <2>3. QED
    BY <1>4, <2>2 DEF FrameEffect
<1>5. CASE c.action = "language_selected" /\
           \E l \in {c.visit, srv.lang} :
             Emit([srv EXCEPT !.visitor = c.visit, !.lang = l],
                  "chat", "other", c.visit)
  <2>1. PICK l \in {c.visit, srv.lang} :
             Emit([srv EXCEPT !.visitor = c.visit, !.lang = l],
                  "chat", "other", c.visit)
    BY <1>5
  <2> DEFINE s == [srv EXCEPT !.visitor = c.visit, !.lang = l]
  <2>2. s \in Session /\ s.gen >= srv.gen /\ s.turn = srv.turn
    <3>1. s \in Session /\ s.gen = srv.gen /\ s.turn = srv.turn
      BY <1>0 DEF Session
    <3>2. QED
      BY <1>0, <3>1
  <2>3. Emit(s, "chat", "other", c.visit)
    BY <2>1
  <2> HIDE DEF s
  <2>4. \E f : EmitEffect(f, s.turn) /\ f.kind = "other" /\ f.visit = c.visit
    BY <1>0, <2>2, <2>3, EmitShape
  <2>5. QED
    BY <1>5, <2>2, <2>4 DEF FrameEffect
<1>6. CASE c.action = "restore_language" /\
           \E l \in {srv.lang} \cup ({c.visit} \cap {srv.visitor}) :
             Emit([srv EXCEPT !.lang = l], c.ui, "other", NoVisit)
  <2>1. PICK l \in {srv.lang} \cup ({c.visit} \cap {srv.visitor}) :
             Emit([srv EXCEPT !.lang = l], c.ui, "other", NoVisit)
    BY <1>6
  <2> DEFINE s == [srv EXCEPT !.lang = l]
  <2>2. s \in Session /\ s.gen >= srv.gen /\ s.turn = srv.turn
    BY <1>0 DEF Session
  <2>3. Emit(s, c.ui, "other", NoVisit)
    BY <2>1
  <2> HIDE DEF s
  <2>4. \E f : EmitEffect(f, s.turn) /\ f.kind = "other" /\ f.visit = NoVisit
    BY <1>0, <2>2, <2>3, EmitShape
  <2>5. QED
    BY <1>6, <2>2, <2>4 DEF FrameEffect
<1>7. CASE /\ c.action = "user_message"
           /\ srv' = [srv EXCEPT !.gen = @ + 1, !.turn = c.visit]
           /\ UNCHANGED down
  BY <1>0, <1>7 DEF Session, TurnEffect
<1>8. CASE Refuse
  <2>1. srv.gen >= srv.gen
    BY <1>0
  <2>2. \E f : EmitEffect(f, srv.turn) /\ f.kind = "other"
    BY <1>0, <1>8, <2>1, EmitShape DEF Refuse
  <2>3. QED
    BY <1>8, <2>2 DEF RefuseEffect, Refuse
<1>9. QED
  BY <1>1, <1>2, <1>3, <1>4, <1>5, <1>6, <1>7, <1>8 DEF Handle

LEMMA AnswerShape ==
    ASSUME srv \in Session, Answer
    PROVE  \E f, t : /\ EmitEffect(f, t)
                     /\ f.kind = "other"
                     /\ f.visit = srv.turn
                     /\ t \in {NoVisit, srv.turn}
<1>1. PICK t \in {srv.turn, NoVisit} :
           Emit([srv EXCEPT !.turn = t], "chat", "other", srv.turn)
  BY DEF Answer
<1> DEFINE s == [srv EXCEPT !.turn = t]
<1>2. /\ s \in Session /\ s.gen >= srv.gen /\ s.turn = t
      /\ srv.turn \in Visits \cup {NoVisit} /\ "chat" \in Screens
  BY DEF Session, Screens
<1>3. Emit(s, "chat", "other", srv.turn)
  BY <1>1
<1> HIDE DEF s
<1>4. \E f : EmitEffect(f, s.turn) /\ f.kind = "other" /\ f.visit = srv.turn
  BY <1>2, <1>3, EmitShape
<1>5. QED
  BY <1>1, <1>2, <1>4

\* The steps of the visitor and of the screens, all of which may send a command.
Asking(p) ==
    /\ p \in Payload
    /\ p.visit = visit
    /\ p.action # "reset_session"
    /\ SendEffect(p)
    /\ p.action = "wake" => screen = "sleep"
    /\ screen' \in {screen, "chat"}
    /\ UNCHANGED <<fenceVars, visit, open, down, srv, shown>>

LEMMA AskShape ==
    ASSUME TypeOK, Wake \/ StartConversation \/ SelectLanguage \/ Speak \/ Rebind
    PROVE  \E p : Asking(p)
<1>1. ASSUME NEW a \in Actions, a # "reset_session"
      PROVE  /\ Call(a) \in Payload
             /\ Call(a).visit = visit
             /\ Call(a).action = a
  <2>1. Call(a) \in Payload
    BY CallType DEF TypeOK
  <2>2. QED
    BY <2>1 DEF Call
<1>2. CASE Wake
  <2>1. /\ Call("wake") \in Payload /\ Call("wake").visit = visit
        /\ Call("wake").action = "wake"
    BY <1>1 DEF Actions, Singletons
  <2>2. SendEffect(Call("wake"))
    BY <1>2, <2>1, SendShape DEF Wake
  <2>3. Asking(Call("wake"))
    BY <1>2, <2>1, <2>2 DEF Wake, Asking
  <2>4. QED
    BY <2>3
<1>3. CASE StartConversation
  <2> DEFINE p == Call("conversation_started")
  <2>1. p \in Payload /\ p.visit = visit /\ p.action = "conversation_started"
    BY <1>1 DEF Actions, Singletons
  <2>2. SendEffect(p)
    BY <1>3, <2>1, SendShape DEF StartConversation
  <2>3. Asking(p)
    BY <1>3, <2>1, <2>2 DEF StartConversation, Asking, storageVars
  <2>4. QED
    BY <2>3
<1>4. CASE SelectLanguage
  <2> DEFINE p == Call("language_selected")
  <2>1. p \in Payload /\ p.visit = visit /\ p.action = "language_selected"
    BY <1>1 DEF Actions, Singletons
  <2>2. SendEffect(p)
    BY <1>4, <2>1, SendShape DEF SelectLanguage
  <2>3. Asking(p)
    BY <1>4, <2>1, <2>2 DEF SelectLanguage, Asking
  <2>4. QED
    BY <2>3
<1>5. CASE Speak
  <2>1. PICK a \in {"user_message", "cancel_turn"} : Send(Call(a))
    BY <1>5 DEF Speak
  <2>2. Call(a) \in Payload /\ Call(a).visit = visit /\ Call(a).action = a
    BY <1>1 DEF Actions, Singletons
  <2>3. SendEffect(Call(a))
    BY <2>1, <2>2, SendShape
  <2>4. Asking(Call(a))
    BY <1>5, <2>2, <2>3 DEF Speak, Asking, storageVars, uiVars
  <2>5. QED
    BY <2>4
<1>6. CASE Rebind
  <2> DEFINE p == [Call("restore_language") EXCEPT !.ui = screen]
  <2>1. p \in Payload /\ p.visit = visit /\ p.action = "restore_language"
    <3>1. /\ Call("restore_language") \in Payload /\ screen \in Screens
          /\ Call("restore_language").visit = visit
          /\ Call("restore_language").action = "restore_language"
      BY <1>1 DEF Actions, TypeOK
    <3>2. QED
      BY <3>1 DEF Payload
  <2>2. SendEffect(p)
    <3>1. CASE UNCHANGED <<dispatchVars, up>>
      BY <3>1 DEF SendEffect, dispatchVars
    <3>2. CASE Send(p)
      BY <2>1, <3>2, SendShape
    <3>3. QED
      BY <1>6, <3>1, <3>2 DEF Rebind
  <2>3. Asking(p)
    BY <1>6, <2>1, <2>2 DEF Rebind, Asking, storageVars, uiVars
  <2>4. QED
    BY <2>3
<1>7. QED
  BY <1>2, <1>3, <1>4, <1>5, <1>6

\* Home puts the reset that begins the next visit at the end of the wire, or
\* makes it all that waits.
HomeEffect(r) ==
    /\ r \in Payload
    /\ r.action = "reset_session"
    /\ r.visit = visit'
    /\ visit' = visit + 1
    /\ floor' = floor + 1
    /\ applied' = IF applied < floor + 1 THEN floor + 1 ELSE applied
    /\ lastSeq' = 0
    /\ unacked' = FALSE
    /\ shown' = NoVisit
    /\ IF open
       THEN up' = Append(up, r) /\ pending' = <<>>
       ELSE up' = up /\ pending' = <<[epoch |-> floor + 1, payload |-> r]>>
    /\ UNCHANGED <<open, down, srv>>

LEMMA HomeShape ==
    ASSUME TypeOK, Aged, Home
    PROVE  \E r : HomeEffect(r)
<1> DEFINE r == [Call("reset_session") EXCEPT !.visit = visit + 1]
<1>1. visit + 1 \in Visits
  BY KioskBoundsAssumption DEF Home, TypeOK, Visits
<1>2. r \in Payload /\ r.visit = visit + 1 /\ r.action = "reset_session"
  <2>1. /\ Call("reset_session") \in Payload
        /\ Call("reset_session").action = "reset_session"
    <3>1. Call("reset_session") \in Payload
      BY CallType DEF TypeOK, Actions
    <3>2. QED
      BY <3>1 DEF Call
  <2>2. QED
    BY <1>1, <2>1 DEF Payload
<1>3. Enqueue(<<>>, floor + 1, r)
  BY AgedGoes DEF Home
<1> HIDE DEF r
<1>4. CASE open
  <2>1. up' = Append(up, r) /\ pending' = <<>>
    BY <1>3, <1>4, Zenon DEF Enqueue
  <2>2. HomeEffect(r)
    BY <1>2, <1>4, <2>1 DEF Home, HomeEffect
  <2>3. QED
    BY <2>2
<1>5. CASE ~open
  <2>1. up' = up /\ pending' = Append(<<>>, [epoch |-> floor + 1, payload |-> r])
    BY <1>3, <1>5, Zenon DEF Enqueue
  <2>2. pending' = <<[epoch |-> floor + 1, payload |-> r]>>
    BY <2>1
  <2>3. HomeEffect(r)
    BY <1>2, <1>5, <2>1, <2>2 DEF Home, HomeEffect
  <2>4. QED
    BY <2>3
<1>6. QED
  BY <1>4, <1>5

\* Every step is one of these.
LEMMA StepShape ==
    ASSUME TypeOK, Aged, [Next]_vars
    PROVE  \/ \E p : Asking(p)
           \/ \E r : HomeEffect(r)
           \/ Reload \/ Open \/ Drop \/ Receive \/ Serve \/ Answer
           \/ UNCHANGED vars
BY AskShape, HomeShape DEF Next

\* One more element of a queue, and one less.
LEMMA Appended ==
    ASSUME NEW S, NEW q \in Seq(S), NEW e \in S
    PROVE  /\ Len(q) \in Nat
           /\ DOMAIN q = 1 .. Len(q)
           /\ DOMAIN Append(q, e) = 1 .. (Len(q) + 1)
           /\ Append(q, e)[Len(q) + 1] = e
           /\ \A i \in 1 .. Len(q) : Append(q, e)[i] = q[i]
OBVIOUS

LEMMA Shifted ==
    ASSUME NEW S, NEW q \in Seq(S), q # <<>>
    PROVE  /\ Len(q) \in Nat
           /\ 1 \in DOMAIN q
           /\ Head(q) = q[1]
           /\ Head(q) \in S
           /\ \A i \in DOMAIN Tail(q) :
                  i \in Nat /\ i >= 1 /\ i + 1 \in DOMAIN q /\ Tail(q)[i] = q[i + 1]
           /\ \A i \in DOMAIN q : i # 1 => (i - 1 \in DOMAIN Tail(q) /\ i \in Nat)
<1>1. /\ Len(q) \in Nat /\ Len(q) >= 1 /\ Head(q) = q[1] /\ Len(Tail(q)) = Len(q) - 1
      /\ Tail(q) \in Seq(S) /\ Head(q) \in S
  OBVIOUS
<1>2. DOMAIN q = 1 .. Len(q) /\ DOMAIN Tail(q) = 1 .. (Len(q) - 1)
  BY <1>1
<1>3. \A i \in 1 .. (Len(q) - 1) : Tail(q)[i] = q[i + 1]
  BY <1>1
<1>4. QED
  BY <1>1, <1>2, <1>3

-----------------------------------------------------------------------------
\* Why the hello is held: it is the first frame of its socket and of generation
\* 0, so it passes the fence only while the floor is 0, that is until the first
\* Home of the socket; and since that socket opened, a wake that is queued, on
\* the wire or answered by a frame behind the hello is still unanswered.
WakeWaits == \E i \in DOMAIN pending : pending[i].payload.action = "wake"
WakeOut   == \/ \E i \in DOMAIN up : up[i].action = "wake"
             \/ \E i \in DOMAIN down : down[i].kind = "wake"

HelloFirst == \A i \in DOMAIN down :
                 down[i].kind = "hello" => (i = 1 /\ down[i].gen = 0)
HelloWaits == \E i \in DOMAIN down : down[i].kind = "hello"

HelloInv ==
    /\ (~open /\ WakeWaits) => unacked
    /\ HelloFirst
    /\ (floor = 0 /\ HelloWaits /\ WakeOut) => unacked

\* What an emitted frame can bring.
LEMMA EmitHello ==
    ASSUME down \in Seq(Frame), HelloFirst, NEW f, NEW t, EmitEffect(f, t)
    PROVE  /\ HelloFirst'
           /\ HelloWaits' => HelloWaits
           /\ (\E i \in DOMAIN down' : down'[i].kind = "wake")
                  => (f.kind = "wake" \/ \E i \in DOMAIN down : down[i].kind = "wake")
<1>1. f \in Frame /\ down' = Append(down, f) /\ f.kind # "hello"
  BY DEF EmitEffect
<1>2. /\ Len(down) \in Nat /\ DOMAIN down = 1 .. Len(down)
      /\ DOMAIN down' = 1 .. (Len(down) + 1)
      /\ down'[Len(down) + 1] = f
      /\ \A i \in 1 .. Len(down) : down'[i] = down[i]
  BY <1>1, Appended
<1>3. \A i \in DOMAIN down' : down'[i] = f \/ (i \in DOMAIN down /\ down'[i] = down[i])
  BY <1>2
<1>4. QED
  BY <1>1, <1>3 DEF HelloFirst, HelloWaits

\* Serving a command.
LEMMA ServeHello ==
    ASSUME TypeOK, QueueInv, HelloInv, Serve
    PROVE  HelloInv'
<1>0. /\ up \in Seq(Payload) /\ down \in Seq(Frame) /\ srv \in Session
  BY DEF TypeOK
<1>1. /\ open /\ up # <<>> /\ up' = Tail(up)
      /\ Handle(Head(up)) \/ Refuse
      /\ UNCHANGED <<floor, pending, unacked, open>>
  BY DEF Serve, fenceVars, dispatchVars
<1>2. /\ 1 \in DOMAIN up /\ Head(up) = up[1] /\ Head(up) \in Payload
      /\ \A i \in DOMAIN up' : i + 1 \in DOMAIN up /\ up'[i] = up[i + 1]
  BY <1>0, <1>1, Shifted
<1> DEFINE c == Head(up)
<1>3. ResetEffect(c) \/ FrameEffect(c) \/ TurnEffect(c) \/ RefuseEffect
  BY <1>0, <1>1, <1>2, HandleShape
<1>4. HelloFirst
  BY DEF HelloInv
<1>5. /\ HelloFirst'
      /\ HelloWaits' => HelloWaits
      /\ (\E i \in DOMAIN down' : down'[i].kind = "wake")
             => (c.action = "wake" \/ \E i \in DOMAIN down : down[i].kind = "wake")
  <2>1. ASSUME NEW f, NEW t, EmitEffect(f, t), f.kind = "wake" => c.action = "wake"
        PROVE  <1>5!1 /\ <1>5!2 /\ <1>5!3
    <3>1. /\ HelloFirst'
          /\ HelloWaits' => HelloWaits
          /\ (\E i \in DOMAIN down' : down'[i].kind = "wake")
                 => (f.kind = "wake" \/ \E i \in DOMAIN down : down[i].kind = "wake")
      BY <1>0, <1>4, <2>1, EmitHello
    <3>2. QED
      BY <2>1, <3>1, Zenon
  <2>2. CASE TurnEffect(c)
    BY <1>4, <2>2 DEF TurnEffect, HelloFirst, HelloWaits
  <2>3. CASE ResetEffect(c) \/ FrameEffect(c) \/ RefuseEffect
    <3>1. PICK f, t : EmitEffect(f, t) /\ (f.kind = "wake" => c.action = "wake")
      BY <2>3 DEF ResetEffect, FrameEffect, RefuseEffect
    <3>2. QED
      BY <2>1, <3>1
  <2>4. QED
    BY <1>3, <2>2, <2>3
<1>6. WakeOut' => WakeOut
  BY <1>2, <1>5 DEF WakeOut
<1>7. QED
  BY <1>1, <1>5, <1>6 DEF HelloInv

LEMMA AnswerHello ==
    ASSUME TypeOK, QueueInv, HelloInv, Answer
    PROVE  HelloInv'
<1>0. /\ down \in Seq(Frame) /\ srv \in Session /\ HelloFirst
  BY DEF TypeOK, HelloInv
<1>1. open /\ UNCHANGED <<floor, pending, unacked, open, up>>
  BY DEF Answer, fenceVars, dispatchVars
<1>2. PICK f, t : EmitEffect(f, t) /\ f.kind = "other"
  BY <1>0, AnswerShape
<1>3. /\ HelloFirst'
      /\ HelloWaits' => HelloWaits
      /\ (\E i \in DOMAIN down' : down'[i].kind = "wake")
             => (f.kind = "wake" \/ \E i \in DOMAIN down : down[i].kind = "wake")
  BY <1>0, <1>2, EmitHello
<1>4. WakeOut' => WakeOut
  BY <1>1, <1>2, <1>3 DEF WakeOut
<1>5. QED
  BY <1>1, <1>3, <1>4 DEF HelloInv

LEMMA AskHello ==
    ASSUME TypeOK, QueueInv, HelloInv, NEW p, Asking(p)
    PROVE  HelloInv'
<1>0. /\ up \in Seq(Payload) /\ pending \in Seq(Command) /\ floor \in Nat
      /\ unacked \in BOOLEAN
  BY DEF TypeOK
<1>1. /\ p \in Payload /\ SendEffect(p) /\ UNCHANGED <<floor, open, down>>
  BY DEF Asking, fenceVars
<1>2. HelloFirst' /\ HelloWaits' = HelloWaits
  BY <1>1 DEF HelloInv, HelloFirst, HelloWaits
<1>3. CASE UNCHANGED <<pending, unacked, up>>
  BY <1>1, <1>2, <1>3 DEF HelloInv, WakeWaits, WakeOut
<1>4. CASE open /\ up' = Append(up, p) /\ pending' = pending
           /\ unacked' = (unacked \/ p.action = "wake")
  <2>1. \A i \in DOMAIN up' : up'[i] = p \/ (i \in DOMAIN up /\ up'[i] = up[i])
    BY <1>0, <1>1, <1>4, Appended
  <2>2. WakeOut' => (WakeOut \/ p.action = "wake")
    BY <1>1, <2>1 DEF WakeOut
  <2>3. QED
    BY <1>1, <1>2, <1>4, <2>2 DEF HelloInv
<1>5. CASE ~open /\ pending' = Append(pending, [epoch |-> floor, payload |-> p])
           /\ up' = up /\ unacked' = (unacked \/ p.action = "wake")
  <2> DEFINE c == [epoch |-> floor, payload |-> p]
  <2>1. c \in Command /\ c.payload = p
    BY <1>0, <1>1 DEF Command
  <2>2. pending' = Append(pending, c)
    BY <1>5
  <2> HIDE DEF c
  <2>3. \A i \in DOMAIN pending' :
           pending'[i] = c \/ (i \in DOMAIN pending /\ pending'[i] = pending[i])
    BY <1>0, <2>1, <2>2, Appended
  <2>4. WakeWaits' => (WakeWaits \/ p.action = "wake")
    BY <2>1, <2>3 DEF WakeWaits
  <2>5. ~HelloWaits'
    BY <1>2, <1>5 DEF QueueInv, Closed, HelloWaits
  <2>6. QED
    BY <1>1, <1>2, <1>5, <2>4, <2>5 DEF HelloInv
<1>6. QED
  BY <1>1, <1>3, <1>4, <1>5 DEF SendEffect

LEMMA ReceiveHello ==
    ASSUME TypeOK, QueueInv, HelloInv, Receive
    PROVE  HelloInv' /\ ~HelloWaits'
<1>1. /\ down \in Seq(Frame) /\ down # <<>> /\ down' = Tail(down) /\ open /\ open'
  BY DEF TypeOK, Receive
<1>2. \A i \in DOMAIN down' : i \in Nat /\ i >= 1 /\ i + 1 \in DOMAIN down
                              /\ down'[i] = down[i + 1]
  BY <1>1, Shifted
<1>3. \A i \in DOMAIN down' : down'[i].kind # "hello"
  BY <1>2 DEF HelloInv, HelloFirst
<1>4. QED
  BY <1>1, <1>3 DEF HelloInv, HelloFirst, HelloWaits

LEMMA OpenHello ==
    ASSUME TypeOK, QueueInv, HelloInv, Open
    PROVE  HelloInv'
<1>1. /\ ~open /\ open' /\ UNCHANGED unacked
      /\ up' = [i \in DOMAIN pending |-> pending[i].payload]
      /\ down' = <<[state |-> "sleep", kind |-> "hello", gen |-> 0, seq |-> 1,
                    visit |-> NoVisit]>>
  BY DEF Open
<1>2. DOMAIN down' = {1} /\ down'[1].kind = "hello" /\ down'[1].gen = 0
  BY <1>1
<1>3. WakeOut' => WakeWaits
  BY <1>1, <1>2 DEF WakeOut, WakeWaits
<1>4. QED
  BY <1>1, <1>2, <1>3 DEF HelloInv, HelloFirst

\* What is known of the hello holds in every reachable state.
THEOREM HelloInvariant == Spec => []HelloInv
<1>1. Init => HelloInv
  BY DEF Init, HelloInv, WakeWaits, WakeOut, HelloFirst, HelloWaits
<1>2. TypeOK /\ Aged /\ QueueInv /\ HelloInv /\ [Next]_vars => HelloInv'
  <2> SUFFICES ASSUME TypeOK, Aged, QueueInv, HelloInv, [Next]_vars PROVE HelloInv'
    OBVIOUS
  <2>1. CASE \E p : Asking(p)
    BY <2>1, AskHello
  <2>2. CASE \E r : HomeEffect(r)
    <3>1. PICK r : HomeEffect(r)
      BY <2>2
    <3>2. /\ floor' = floor + 1 /\ floor \in Nat /\ UNCHANGED <<open, down>>
          /\ r.action = "reset_session"
      BY <3>1 DEF HomeEffect, TypeOK
    <3>3. floor' # 0
      BY <3>2
    <3>4. (~open) => pending' = <<[epoch |-> floor + 1, payload |-> r]>>
      BY <3>1 DEF HomeEffect
    <3>5. (~open') => ~WakeWaits'
      BY <3>2, <3>4 DEF WakeWaits
    <3>6. HelloFirst'
      BY <3>2 DEF HelloInv, HelloFirst
    <3>7. QED
      BY <3>3, <3>5, <3>6 DEF HelloInv
  <2>3. CASE Reload
    BY <2>3 DEF Reload, HelloInv, WakeWaits, HelloFirst, HelloWaits
  <2>4. CASE Open
    BY <2>4, OpenHello
  <2>5. CASE Drop
    BY <2>5 DEF Drop, QueueInv, HelloInv, WakeWaits, HelloFirst, HelloWaits,
                dispatchVars
  <2>6. CASE Receive
    BY <2>6, ReceiveHello
  <2>7. CASE Serve
    BY <2>7, ServeHello
  <2>8. CASE Answer
    BY <2>8, AnswerHello
  <2>9. CASE UNCHANGED vars
    BY <2>9 DEF vars, HelloInv, WakeWaits, WakeOut, HelloFirst, HelloWaits,
                fenceVars, dispatchVars, wireVars
  <2>10. QED
    BY <2>1, <2>2, <2>3, <2>4, <2>5, <2>6, <2>7, <2>8, <2>9, StepShape
<1>3. QED
  BY <1>1, <1>2, TypeInvariant, QueueInvariant, PTL DEF Spec

\* shouldHoldSleep: the hello of a new socket never sends to sleep a kiosk whose
\* wake is queued, on the wire, or answered by a frame that is not read yet.
THEOREM HelloIsHeld == Spec => HelloHeld
<1> DEFINE A == (Receive /\ Head(down).kind = "hello" /\ WakeInFlight)
                   => ~(screen = "chat" /\ screen' = "sleep")
<1>1. TypeOK /\ QueueInv /\ HelloInv /\ [Next]_vars => A
  <2> SUFFICES ASSUME TypeOK, QueueInv, HelloInv, Receive,
                      Head(down).kind = "hello", WakeInFlight,
                      screen = "chat", screen' = "sleep"
               PROVE  FALSE
    OBVIOUS
  <2>1. /\ down \in Seq(Frame) /\ down # <<>> /\ open /\ floor \in Nat
        /\ unacked \in BOOLEAN /\ applied \in Nat
    BY DEF TypeOK, Receive
  <2>2. 1 \in DOMAIN down /\ Head(down) = down[1] /\ Head(down) \in Frame
    BY <2>1, Shifted
  <2> DEFINE f == Head(down)
  <2>3. ~TooOld(f) /\ ~Held(f) /\ screen' = f.state
    BY DEF Receive, uiVars
  <2>4. HelloWaits /\ f.gen = 0
    BY <2>2 DEF HelloInv, HelloFirst, HelloWaits
  <2>5. floor = 0
    BY <2>1, <2>3, <2>4 DEF TooOld
  <2>6. pending = <<>>
    BY <2>1 DEF QueueInv
  <2>7. WakeOut
    <3>1. Call("wake").action = "wake"
      BY DEF Call
    <3>2. QED
      BY <2>6, <3>1 DEF WakeInFlight, WakeOut
  <2>8. unacked
    BY <2>4, <2>5, <2>7 DEF HelloInv
  <2>9. QED
    BY <2>3, <2>8 DEF Held
<1>2. A => [A]_vars
  OBVIOUS
<1>3. QED
  BY <1>1, <1>2, TypeInvariant, QueueInvariant, HelloInvariant, PTL DEF Spec, HelloHeld

-----------------------------------------------------------------------------
\* A payload of a visit is shown only by an awake kiosk whose wake is answered,
\* so no frame that follows it can be held back.
ShownInv ==
    /\ shown # NoVisit => (~unacked /\ screen = "chat")
    /\ \A i \in DOMAIN down : down[i].visit # NoVisit => down[i].state = "chat"

\* The frames on the wire are new to the kiosk and in order of both numbers,
\* and what the fence has seen is older than all of them, or than the floor.
InOrder ==
    \A i \in DOMAIN down : \A j \in DOMAIN down :
        i < j => down[i].gen <= down[j].gen

FramesNew ==
    \A i \in DOMAIN down : /\ lastSeq < down[i].seq
                           /\ down[i].seq <= srv.seq
                           /\ applied <= floor \/ applied <= down[i].gen

Numbered ==
    \A i \in DOMAIN down : \A j \in DOMAIN down :
        i < j => down[i].seq < down[j].seq

WireInv ==
    /\ InOrder
    /\ FramesNew
    /\ Numbered
    /\ open => lastSeq <= srv.seq

LEMMA EmitShown ==
    ASSUME down \in Seq(Frame), ShownInv, UNCHANGED <<shown, unacked, screen>>,
           NEW f, NEW t, EmitEffect(f, t)
    PROVE  ShownInv'
<1>1. /\ f \in Frame /\ down' = Append(down, f)
      /\ f.visit # NoVisit => f.state = "chat"
  BY DEF EmitEffect
<1>2. \A i \in DOMAIN down' : down'[i] = f \/ (i \in DOMAIN down /\ down'[i] = down[i])
  BY <1>1, Appended
<1>3. QED
  BY <1>1, <1>2 DEF ShownInv

LEMMA EmitWire ==
    ASSUME down \in Seq(Frame), srv \in Session, srv' \in Session, lastSeq \in Nat,
           applied \in Nat, floor \in Nat,
           WireInv, FramesOld, applied <= srv.gen \/ applied <= floor, open,
           UNCHANGED <<lastSeq, applied, floor, open>>,
           NEW f, NEW t, EmitEffect(f, t)
    PROVE  WireInv'
<1>0. /\ srv.seq \in Nat /\ srv.gen \in Nat /\ srv'.seq \in Nat /\ srv'.gen \in Nat
  BY DEF Session
<1>1. /\ f \in Frame /\ down' = Append(down, f) /\ f.seq = srv.seq + 1
      /\ f.gen >= srv.gen /\ srv'.seq = srv.seq + 1
  BY DEF EmitEffect
<1>2. /\ Len(down) \in Nat /\ DOMAIN down = 1 .. Len(down)
      /\ DOMAIN down' = 1 .. (Len(down) + 1)
      /\ down'[Len(down) + 1] = f
      /\ \A i \in 1 .. Len(down) : down'[i] = down[i]
  BY <1>1, Appended
<1>3. \A i \in DOMAIN down' : \/ (i = Len(down) + 1 /\ down'[i] = f)
                              \/ (i \in DOMAIN down /\ i < Len(down) + 1 /\ down'[i] = down[i])
  BY <1>2
<1>4. \A i \in DOMAIN down : down[i].gen \in Nat /\ down[i].seq \in Nat
  <2>1. \A i \in DOMAIN down : down[i] \in Frame
    BY <1>2, ElementOfSeq
  <2>2. QED
    BY <2>1 DEF Frame
<1>5. f.gen \in Nat /\ f.seq \in Nat
  BY <1>1 DEF Frame
<1>6. \A i \in DOMAIN down : down[i].gen <= f.gen /\ down[i].seq < f.seq
  BY <1>0, <1>1, <1>4, <1>5 DEF WireInv, FramesNew, FramesOld
<1>7. ASSUME NEW i \in DOMAIN down', NEW j \in DOMAIN down', i < j
      PROVE  down'[i].gen <= down'[j].gen /\ down'[i].seq < down'[j].seq
  <2>1. i \in DOMAIN down /\ down'[i] = down[i]
    BY <1>2, <1>3, <1>7
  <2>2. CASE down'[j] = f
    BY <1>6, <2>1, <2>2
  <2>3. CASE j \in DOMAIN down /\ down'[j] = down[j]
    BY <1>7, <2>1, <2>3 DEF WireInv, InOrder, Numbered
  <2>4. QED
    BY <1>3, <2>2, <2>3
<1>8. ASSUME NEW i \in DOMAIN down'
      PROVE  /\ lastSeq' < down'[i].seq
             /\ down'[i].seq <= srv'.seq
             /\ applied' <= floor' \/ applied' <= down'[i].gen
  <2>1. CASE down'[i] = f
    <3>1. lastSeq <= srv.seq
      BY DEF WireInv
    <3>2. QED
      BY <1>0, <1>1, <1>5, <2>1, <3>1
  <2>2. CASE i \in DOMAIN down /\ down'[i] = down[i]
    <3>1. /\ lastSeq < down[i].seq /\ down[i].seq <= srv.seq
          /\ applied <= floor \/ applied <= down[i].gen
      BY <2>2 DEF WireInv, FramesNew
    <3>2. QED
      BY <1>0, <1>1, <1>4, <2>2, <3>1
  <2>3. QED
    BY <1>3, <2>1, <2>2
<1>9. InOrder' /\ Numbered' /\ FramesNew'
  BY <1>7, <1>8 DEF InOrder, Numbered, FramesNew
<1>10. lastSeq' <= srv'.seq
  <2>1. lastSeq <= srv.seq
    BY DEF WireInv
  <2>2. QED
    BY <1>0, <1>1, <2>1
<1>11. QED
  BY <1>9, <1>10 DEF WireInv

\* Nothing is emitted: the fence and the wire are as they were, or lower.
LEMMA SameShown ==
    ASSUME ShownInv, UNCHANGED <<shown, unacked, screen, down>>
    PROVE  ShownInv'
BY DEF ShownInv

LEMMA SameWire ==
    ASSUME WireInv, UNCHANGED <<lastSeq, applied, floor, open, down>>,
           srv'.seq = srv.seq
    PROVE  WireInv'
BY DEF WireInv, InOrder, Numbered, FramesNew

LEMMA ServeShown ==
    ASSUME TypeOK, ShownInv, Serve
    PROVE  ShownInv'
<1>0. up \in Seq(Payload) /\ down \in Seq(Frame) /\ srv \in Session
  BY DEF TypeOK
<1>1. /\ up # <<>>
      /\ Handle(Head(up)) \/ Refuse
  BY DEF Serve
<1>2. UNCHANGED <<shown, unacked, screen>>
  BY DEF Serve, dispatchVars, uiVars
<1>3. Head(up) \in Payload
  BY <1>0, <1>1, Shifted
<1> DEFINE c == Head(up)
<1>4. ResetEffect(c) \/ FrameEffect(c) \/ TurnEffect(c) \/ RefuseEffect
  BY <1>0, <1>1, <1>3, HandleShape
<1>5. CASE TurnEffect(c)
  BY <1>2, <1>5, SameShown DEF TurnEffect
<1>6. CASE ResetEffect(c) \/ FrameEffect(c) \/ RefuseEffect
  <2>1. PICK f, t : EmitEffect(f, t)
    BY <1>6 DEF ResetEffect, FrameEffect, RefuseEffect
  <2>2. QED
    BY <1>0, <1>2, <2>1, EmitShown
<1>7. QED
  BY <1>4, <1>5, <1>6

LEMMA ServeWire ==
    ASSUME TypeOK, TypeOK', FenceInv, WireInv, Serve
    PROVE  WireInv'
<1>0. /\ up \in Seq(Payload) /\ down \in Seq(Frame) /\ srv \in Session
      /\ srv' \in Session /\ lastSeq \in Nat /\ applied \in Nat /\ floor \in Nat
  BY DEF TypeOK
<1>1. /\ open /\ up # <<>>
      /\ Handle(Head(up)) \/ Refuse
  BY DEF Serve
<1>2. UNCHANGED <<lastSeq, applied, floor, open>>
  BY DEF Serve, fenceVars
<1>3. FramesOld /\ (applied <= srv.gen \/ applied <= floor)
  BY <1>1 DEF FenceInv
<1>4. Head(up) \in Payload
  BY <1>0, <1>1, Shifted
<1> DEFINE c == Head(up)
<1>5. ResetEffect(c) \/ FrameEffect(c) \/ TurnEffect(c) \/ RefuseEffect
  BY <1>0, <1>1, <1>4, HandleShape
<1>6. CASE TurnEffect(c)
  BY <1>2, <1>6, SameWire DEF TurnEffect
<1>7. CASE ResetEffect(c) \/ FrameEffect(c) \/ RefuseEffect
  <2>1. PICK f, t : EmitEffect(f, t)
    BY <1>7 DEF ResetEffect, FrameEffect, RefuseEffect
  <2>2. QED
    BY <1>0, <1>1, <1>2, <1>3, <2>1, EmitWire
<1>8. QED
  BY <1>5, <1>6, <1>7

LEMMA AnswerSteps ==
    ASSUME TypeOK, TypeOK', FenceInv, ShownInv, WireInv, Answer
    PROVE  ShownInv' /\ WireInv'
<1>0. /\ down \in Seq(Frame) /\ srv \in Session
      /\ srv' \in Session /\ lastSeq \in Nat /\ applied \in Nat /\ floor \in Nat
  BY DEF TypeOK
<1>1. open /\ UNCHANGED <<shown, unacked, screen, lastSeq, applied, floor, open>>
  BY DEF Answer, fenceVars, dispatchVars, uiVars
<1>2. FramesOld /\ (applied <= srv.gen \/ applied <= floor)
  BY <1>1 DEF FenceInv
<1>3. PICK f, t : EmitEffect(f, t)
  BY <1>0, AnswerShape
<1>4. ShownInv'
  BY <1>0, <1>1, <1>3, EmitShown
<1>5. WireInv'
  BY <1>0, <1>1, <1>2, <1>3, EmitWire
<1>6. QED
  BY <1>4, <1>5

\* The frame at the head of the wire is read.
LEMMA ReceiveShown ==
    ASSUME TypeOK, ShownInv, Receive
    PROVE  ShownInv'
<1>1. /\ down \in Seq(Frame) /\ down # <<>> /\ down' = Tail(down)
      /\ unacked \in BOOLEAN
  BY DEF TypeOK, Receive
<1>2. /\ 1 \in DOMAIN down /\ Head(down) = down[1]
      /\ \A i \in DOMAIN down' : i + 1 \in DOMAIN down /\ down'[i] = down[i + 1]
  BY <1>1, Shifted
<1> DEFINE f == Head(down)
<1>3. f.visit # NoVisit => f.state = "chat"
  BY <1>2 DEF ShownInv
<1>4. shown' # NoVisit => (~unacked' /\ screen' = "chat")
  <2>1. CASE TooOld(f) \/ Held(f)
    BY <2>1 DEF Receive, uiVars, ShownInv
  <2>2. CASE ~(TooOld(f) \/ Held(f))
    <3>1. /\ unacked' = (unacked /\ f.state = "sleep") /\ screen' = f.state
          /\ shown' = f.visit
      BY <2>2 DEF Receive
    <3>2. QED
      BY <1>1, <1>3, <3>1
  <2>3. QED
    BY <2>1, <2>2
<1>5. \A i \in DOMAIN down' : down'[i].visit # NoVisit => down'[i].state = "chat"
  BY <1>2 DEF ShownInv
<1>6. QED
  BY <1>4, <1>5 DEF ShownInv

LEMMA ReceiveWire ==
    ASSUME TypeOK, WireInv, Receive
    PROVE  WireInv'
<1>1. /\ down \in Seq(Frame) /\ down # <<>> /\ down' = Tail(down) /\ open
      /\ UNCHANGED <<floor, open, srv>>
  BY DEF TypeOK, Receive
<1>2. /\ 1 \in DOMAIN down /\ Head(down) = down[1]
      /\ \A i \in DOMAIN down' : i \in Nat /\ i >= 1 /\ i + 1 \in DOMAIN down
                                 /\ down'[i] = down[i + 1]
  BY <1>1, Shifted
<1> DEFINE f == Head(down)
<1>3. InOrder' /\ Numbered'
  <2>1. ASSUME NEW i \in DOMAIN down', NEW j \in DOMAIN down', i < j
        PROVE  down'[i].gen <= down'[j].gen /\ down'[i].seq < down'[j].seq
    <3>1. /\ i + 1 \in DOMAIN down /\ j + 1 \in DOMAIN down /\ i + 1 < j + 1
          /\ down'[i] = down[i + 1] /\ down'[j] = down[j + 1]
      BY <1>2, <2>1
    <3>2. QED
      BY <3>1 DEF WireInv, InOrder, Numbered
  <2>2. QED
    BY <2>1 DEF InOrder, Numbered
<1>4. CASE TooOld(f)
  <2>1. UNCHANGED <<applied, lastSeq>>
    BY <1>4 DEF Receive
  <2>2. FramesNew'
    BY <1>1, <1>2, <2>1 DEF WireInv, FramesNew
  <2>3. QED
    BY <1>1, <1>3, <2>1, <2>2 DEF WireInv
<1>5. CASE ~TooOld(f)
  <2>1. applied' = down[1].gen /\ lastSeq' = down[1].seq
    BY <1>2, <1>5 DEF Receive
  <2>2. ASSUME NEW i \in DOMAIN down'
        PROVE  /\ lastSeq' < down'[i].seq
               /\ down'[i].seq <= srv'.seq
               /\ applied' <= floor' \/ applied' <= down'[i].gen
    <3>1. i + 1 \in DOMAIN down /\ 1 < i + 1 /\ down'[i] = down[i + 1]
      BY <1>2
    <3>2. down[1].gen <= down[i + 1].gen /\ down[1].seq < down[i + 1].seq
      BY <1>2, <3>1 DEF WireInv, InOrder, Numbered
    <3>3. down[i + 1].seq <= srv.seq
      BY <3>1 DEF WireInv, FramesNew
    <3>4. QED
      BY <1>1, <2>1, <3>1, <3>2, <3>3
  <2>3. FramesNew'
    BY <2>2 DEF FramesNew
  <2>4. lastSeq' <= srv'.seq
    BY <1>1, <1>2, <2>1 DEF WireInv, FramesNew
  <2>5. QED
    BY <1>3, <2>3, <2>4 DEF WireInv
<1>6. QED
  BY <1>4, <1>5

LEMMA AskShown ==
    ASSUME TypeOK, ShownInv, NEW p, Asking(p)
    PROVE  ShownInv'
<1>1. /\ SendEffect(p) /\ (p.action = "wake" => screen = "sleep")
      /\ screen' \in {screen, "chat"} /\ UNCHANGED <<down, shown>>
      /\ unacked \in BOOLEAN
  BY DEF Asking, TypeOK
<1>2. unacked' = unacked \/ unacked' = (unacked \/ p.action = "wake")
  BY <1>1 DEF SendEffect
<1>3. shown # NoVisit => (~unacked /\ screen = "chat" /\ p.action # "wake")
  BY <1>1 DEF ShownInv
<1>4. shown' # NoVisit => (~unacked' /\ screen' = "chat")
  BY <1>1, <1>2, <1>3
<1>5. QED
  BY <1>1, <1>4 DEF ShownInv

LEMMA HomeWire ==
    ASSUME TypeOK, QueueInv, WireInv, NEW r, HomeEffect(r)
    PROVE  WireInv'
<1>1. /\ floor \in Nat /\ applied \in Nat /\ lastSeq \in Nat /\ down \in Seq(Frame)
      /\ srv \in Session
  BY DEF TypeOK
<1>2. /\ floor' = floor + 1
      /\ applied' = IF applied < floor + 1 THEN floor + 1 ELSE applied
      /\ lastSeq' = 0 /\ UNCHANGED <<open, down, srv>>
  BY DEF HomeEffect
<1>3. ASSUME NEW i \in DOMAIN down
      PROVE  /\ 0 < down[i].seq
             /\ down[i].seq <= srv.seq
             /\ applied' <= floor' \/ applied' <= down[i].gen
  <2>1. down[i] \in Frame
    BY <1>1, ElementOfSeq
  <2>2. /\ lastSeq < down[i].seq /\ down[i].seq <= srv.seq
        /\ applied <= floor \/ applied <= down[i].gen
        /\ down[i].seq \in Nat /\ down[i].gen \in Nat
    BY <2>1 DEF WireInv, FramesNew, Frame
  <2>3. QED
    BY <1>1, <1>2, <2>2
<1>4. FramesNew'
  BY <1>2, <1>3 DEF FramesNew
<1>5. lastSeq' <= srv'.seq
  BY <1>1, <1>2 DEF Session
<1>6. InOrder' /\ Numbered'
  BY <1>2 DEF WireInv, InOrder, Numbered
<1>7. QED
  BY <1>4, <1>5, <1>6 DEF WireInv

LEMMA OpenWire ==
    ASSUME Open
    PROVE  WireInv' /\ (\A i \in DOMAIN down' : i = 1 /\ down'[i].visit = NoVisit
                                                /\ down'[i].gen = 0)
<1>1. /\ srv' = [NewSession EXCEPT !.seq = 1]
      /\ down' = <<[state |-> "sleep", kind |-> "hello", gen |-> 0, seq |-> 1,
                    visit |-> NoVisit]>>
      /\ floor' = 0 /\ applied' = 0 /\ lastSeq' = 0
  BY DEF Open
<1>2. srv'.seq = 1
  BY <1>1 DEF NewSession
<1>3. /\ DOMAIN down' = {1} /\ down'[1].seq = 1 /\ down'[1].gen = 0
      /\ down'[1].visit = NoVisit
  BY <1>1
<1>4. InOrder' /\ Numbered' /\ FramesNew'
  BY <1>1, <1>2, <1>3 DEF InOrder, Numbered, FramesNew
<1>5. QED
  BY <1>1, <1>2, <1>3, <1>4 DEF WireInv

\* Nothing is on the wire of a closed socket.
LEMMA EmptyWire ==
    ASSUME down' = <<>>, ~open' PROVE WireInv'
BY DEF WireInv, InOrder, Numbered, FramesNew

\* What is shown, and what the kiosk makes of what is on the wire.
THEOREM WireInvariant ==
    ASSUME ~RateLimited
    PROVE  Spec => [](ShownInv /\ WireInv)
<1>1. Init => ShownInv /\ WireInv
  BY DEF Init, ShownInv, WireInv, InOrder, Numbered, FramesNew
<1>2. TypeOK /\ TypeOK' /\ Aged /\ QueueInv /\ FenceInv /\ ShownInv /\ WireInv
          /\ [Next]_vars => ShownInv' /\ WireInv'
  <2> SUFFICES ASSUME TypeOK, TypeOK', Aged, QueueInv, FenceInv, ShownInv, WireInv,
                      [Next]_vars
               PROVE  ShownInv' /\ WireInv'
    OBVIOUS
  <2>1. CASE \E p : Asking(p)
    <3>1. PICK p : Asking(p)
      BY <2>1
    <3>2. UNCHANGED <<lastSeq, applied, floor, open, down, srv>>
      BY <3>1 DEF Asking, fenceVars
    <3>3. QED
      BY <3>1, <3>2, AskShown, SameWire
  <2>2. CASE \E r : HomeEffect(r)
    <3>1. PICK r : HomeEffect(r)
      BY <2>2
    <3>2. ShownInv'
      BY <3>1 DEF HomeEffect, ShownInv
    <3>3. QED
      BY <3>1, <3>2, HomeWire
  <2>3. CASE Reload
    <3>1. WireInv'
      BY <2>3, EmptyWire DEF Reload
    <3>2. QED
      BY <2>3, <3>1 DEF Reload, ShownInv
  <2>4. CASE Open
    <3>1. WireInv' /\ \A i \in DOMAIN down' : down'[i].visit = NoVisit
      BY <2>4, OpenWire
    <3>2. UNCHANGED <<shown, unacked, screen>>
      BY <2>4 DEF Open, uiVars
    <3>3. QED
      BY <3>1, <3>2 DEF ShownInv
  <2>5. CASE Drop
    <3>1. WireInv'
      BY <2>5, EmptyWire DEF Drop
    <3>2. down' = <<>> /\ UNCHANGED <<shown, unacked, screen>>
      BY <2>5 DEF Drop, dispatchVars, uiVars
    <3>3. QED
      BY <3>1, <3>2 DEF ShownInv
  <2>6. CASE Receive
    BY <2>6, ReceiveShown, ReceiveWire
  <2>7. CASE Serve
    BY <2>7, ServeShown, ServeWire
  <2>8. CASE Answer
    BY <2>8, AnswerSteps
  <2>9. CASE UNCHANGED vars
    <3>1. UNCHANGED <<shown, unacked, screen, lastSeq, applied, floor, open, down, srv>>
      BY <2>9 DEF vars, fenceVars, dispatchVars, uiVars, wireVars
    <3>2. QED
      BY <3>1, SameShown, SameWire
  <2>10. QED
    BY <2>1, <2>2, <2>3, <2>4, <2>5, <2>6, <2>7, <2>8, <2>9, StepShape
<1>3. QED
  BY <1>1, <1>2, TypeInvariant, QueueInvariant, FenceAndLanguage, PTL DEF Spec

-----------------------------------------------------------------------------
\* Why an earlier visit is brief: a command of an earlier visit is followed, on
\* the wire, by a reset.  Once no reset is on its way, the reply task is not of
\* an earlier visit, and a frame of one, read or still to be read, is followed
\* by a frame of no visit that the floor lets in: the answer to the last reset,
\* or a frame after it.
ResetOnWay == \E i \in DOMAIN up : up[i].action = "reset_session"
Old(v)     == v \notin {NoVisit, visit}
Clears(i)  == down[i].visit = NoVisit /\ down[i].gen >= floor

FollowedUp ==
    \A i \in DOMAIN up :
        up[i].visit # visit
            => \E j \in DOMAIN up : j > i /\ up[j].action = "reset_session"

Cleared ==
    /\ ~Old(srv.turn)
    /\ Old(shown) => \E j \in DOMAIN down : Clears(j)
    /\ \A i \in DOMAIN down :
           Old(down[i].visit) => \E j \in DOMAIN down : j > i /\ Clears(j)

BriefInv ==
    /\ FollowedUp
    /\ (open /\ ~ResetOnWay) => Cleared

\* A command of the present visit.
LEMMA AskBrief ==
    ASSUME TypeOK, QueueInv, BriefInv, NEW p, Asking(p)
    PROVE  BriefInv'
<1>0. up \in Seq(Payload)
  BY DEF TypeOK
<1>1. /\ p \in Payload /\ p.visit = visit /\ p.action # "reset_session"
      /\ SendEffect(p) /\ UNCHANGED <<floor, visit, open, down, srv, shown>>
  BY DEF Asking, fenceVars
<1>2. (open' /\ Cleared) => Cleared'
  BY <1>1 DEF Cleared, Old, Clears
<1>3. CASE up' = up
  BY <1>1, <1>2, <1>3 DEF BriefInv, FollowedUp, ResetOnWay
<1>4. CASE up' = Append(up, p)
  <2>1. /\ Len(up) \in Nat /\ DOMAIN up = 1 .. Len(up)
        /\ DOMAIN up' = 1 .. (Len(up) + 1) /\ up'[Len(up) + 1] = p
        /\ \A i \in 1 .. Len(up) : up'[i] = up[i]
    BY <1>0, <1>1, <1>4, Appended
  <2>2. ~ResetOnWay' => ~ResetOnWay
    BY <2>1 DEF ResetOnWay
  <2>3. FollowedUp'
    <3>1. ASSUME NEW i \in DOMAIN up', up'[i].visit # visit'
          PROVE  \E j \in DOMAIN up' : j > i /\ up'[j].action = "reset_session"
      <4>1. i \in DOMAIN up /\ up'[i] = up[i]
        BY <1>1, <2>1, <3>1
      <4>2. PICK j \in DOMAIN up : j > i /\ up[j].action = "reset_session"
        BY <1>1, <3>1, <4>1 DEF BriefInv, FollowedUp
      <4>3. j \in DOMAIN up' /\ up'[j] = up[j]
        BY <2>1
      <4>4. QED
        BY <4>2, <4>3
    <3>2. QED
      BY <3>1 DEF FollowedUp
  <2>4. QED
    BY <1>1, <1>2, <2>2, <2>3 DEF BriefInv
<1>5. QED
  BY <1>1, <1>3, <1>4 DEF SendEffect

\* Home: every command that is on the wire is now followed by the reset.
LEMMA HomeBrief ==
    ASSUME TypeOK, QueueInv, BriefInv, NEW r, HomeEffect(r)
    PROVE  BriefInv'
<1>0. up \in Seq(Payload)
  BY DEF TypeOK
<1>1. /\ r \in Payload /\ r.action = "reset_session" /\ r.visit = visit'
      /\ open' = open
      /\ IF open THEN up' = Append(up, r) ELSE up' = up
  BY DEF HomeEffect
<1>2. CASE ~open
  <2>1. DOMAIN up' = {}
    BY <1>1, <1>2 DEF QueueInv, Closed
  <2>2. QED
    BY <1>1, <1>2, <2>1 DEF BriefInv, FollowedUp
<1>3. CASE open
  <2>1. /\ Len(up) \in Nat /\ DOMAIN up' = 1 .. (Len(up) + 1)
        /\ up'[Len(up) + 1] = r
    BY <1>0, <1>1, <1>3, Appended
  <2>2. ResetOnWay'
    BY <1>1, <2>1 DEF ResetOnWay
  <2>3. ASSUME NEW i \in DOMAIN up', up'[i].visit # visit'
        PROVE  Len(up) + 1 \in DOMAIN up' /\ Len(up) + 1 > i
    BY <1>1, <2>1, <2>3
  <2>4. FollowedUp'
    BY <1>1, <2>1, <2>3 DEF FollowedUp
  <2>5. QED
    BY <2>2, <2>4 DEF BriefInv
<1>4. QED
  BY <1>2, <1>3

\* onopen: what waited is of the present visit, and the hello clears the screen.
LEMMA OpenBrief ==
    ASSUME TypeOK, QueueInv, Open
    PROVE  BriefInv'
<1>1. /\ up' = [i \in DOMAIN pending |-> pending[i].payload]
      /\ visit' = visit /\ floor' = 0 /\ shown' = shown
      /\ srv' = [NewSession EXCEPT !.seq = 1]
      /\ down' = <<[state |-> "sleep", kind |-> "hello", gen |-> 0, seq |-> 1,
                    visit |-> NoVisit]>>
  BY DEF Open, storageVars, uiVars
<1>2. FollowedUp'
  BY <1>1 DEF QueueInv, Queued, FollowedUp
<1>3. srv'.turn = NoVisit
  BY <1>1 DEF NewSession
<1>4. /\ DOMAIN down' = {1} /\ down'[1].gen = 0 /\ down'[1].visit = NoVisit
  BY <1>1
<1>5. Clears(1)'
  BY <1>1, <1>4 DEF Clears
<1>6. Cleared'
  BY <1>3, <1>4, <1>5 DEF Cleared, Old
<1>7. QED
  BY <1>2, <1>6 DEF BriefInv

\* A frame of no visit that the floor lets in empties the screen when it is read.
LEMMA ClearsIsRead ==
    ASSUME TypeOK, ShownInv, WireInv, Receive, shown # NoVisit, Clears(1)
    PROVE  shown' = NoVisit
<1>1. /\ down \in Seq(Frame) /\ down # <<>> /\ lastSeq \in Nat /\ applied \in Nat
      /\ floor \in Nat /\ unacked \in BOOLEAN
  BY DEF TypeOK, Receive
<1>2. 1 \in DOMAIN down /\ Head(down) = down[1] /\ Head(down) \in Frame
  BY <1>1, Shifted
<1> DEFINE f == Head(down)
<1>3. /\ lastSeq < f.seq
      /\ applied <= floor \/ applied <= f.gen
      /\ f.gen \in Nat /\ f.seq \in Nat
  BY <1>2 DEF WireInv, FramesNew, Frame
<1>4. f.visit = NoVisit /\ f.gen >= floor
  BY <1>2 DEF Clears
<1>5. ~TooOld(f)
  BY <1>1, <1>3, <1>4 DEF TooOld
<1>6. ~Held(f)
  BY DEF ShownInv, Held
<1>7. QED
  BY <1>4, <1>5, <1>6 DEF Receive

LEMMA ReceiveBrief ==
    ASSUME TypeOK, ShownInv, WireInv, BriefInv, Receive
    PROVE  BriefInv'
<1>1. /\ down \in Seq(Frame) /\ down # <<>> /\ down' = Tail(down) /\ open
      /\ UNCHANGED <<floor, open, srv, up, visit>>
  BY DEF TypeOK, Receive, storageVars
<1>2. /\ 1 \in DOMAIN down /\ Head(down) = down[1]
      /\ \A i \in DOMAIN down' : i \in Nat /\ i >= 1 /\ i + 1 \in DOMAIN down
                                 /\ down'[i] = down[i + 1]
      /\ \A i \in DOMAIN down : i # 1 => (i - 1 \in DOMAIN down' /\ i \in Nat)
  BY <1>1, Shifted
<1> DEFINE f == Head(down)
<1>3. FollowedUp'
  BY <1>1 DEF BriefInv, FollowedUp
<1>4. ASSUME Cleared PROVE Cleared'
  <2>1. ~Old(srv.turn)'
    BY <1>1, <1>4 DEF Cleared, Old
  <2>2. ASSUME NEW j \in DOMAIN down, j # 1, Clears(j)
        PROVE  j - 1 \in DOMAIN down' /\ Clears(j - 1)'
    <3>1. j - 1 \in DOMAIN down' /\ j \in Nat
      BY <1>2, <2>2
    <3>2. down'[j - 1] = down[(j - 1) + 1] /\ (j - 1) + 1 = j
      BY <1>2, <3>1
    <3>3. QED
      BY <1>1, <2>2, <3>1, <3>2 DEF Clears
  <2>3. Old(shown)' => \E j \in DOMAIN down' : Clears(j)'
    <3>1. CASE shown' = shown
      <4>1. ASSUME Old(shown)'
            PROVE  \E j \in DOMAIN down' : Clears(j)'
        <5>1. Old(shown) /\ shown # NoVisit
          BY <1>1, <3>1, <4>1 DEF Old
        <5>2. PICK j \in DOMAIN down : Clears(j)
          BY <1>4, <5>1 DEF Cleared
        <5>3. j # 1
          BY <3>1, <5>1, <5>2, ClearsIsRead
        <5>4. QED
          BY <2>2, <5>2, <5>3
      <4>2. QED
        BY <4>1
    <3>2. CASE shown' = f.visit
      <4>1. ASSUME Old(shown)'
            PROVE  \E j \in DOMAIN down' : Clears(j)'
        <5>1. Old(down[1].visit)
          BY <1>1, <1>2, <3>2, <4>1 DEF Old
        <5>2. PICK j \in DOMAIN down : j > 1 /\ Clears(j)
          BY <1>2, <1>4, <5>1 DEF Cleared
        <5>3. j # 1
          BY <5>2
        <5>4. QED
          BY <2>2, <5>2, <5>3
      <4>2. QED
        BY <4>1
    <3>3. shown' = shown \/ shown' = f.visit
      BY DEF Receive, uiVars
    <3>4. QED
      BY <3>1, <3>2, <3>3
  <2>4. ASSUME NEW i \in DOMAIN down', Old(down[i].visit)'
        PROVE  \E j \in DOMAIN down' : j > i /\ Clears(j)'
    <3>1. i \in Nat /\ i + 1 \in DOMAIN down /\ Old(down[i + 1].visit)
      BY <1>1, <1>2, <2>4 DEF Old
    <3>2. PICK j \in DOMAIN down : j > i + 1 /\ Clears(j)
      BY <1>4, <3>1 DEF Cleared
    <3>3. j \in Nat /\ j # 1 /\ i >= 1
      BY <1>2, <2>4, <3>1, <3>2
    <3>4. j - 1 \in DOMAIN down' /\ Clears(j - 1)' /\ j - 1 > i
      BY <2>2, <3>1, <3>2, <3>3
    <3>5. QED
      BY <3>4
  <2>5. QED
    BY <2>1, <2>3, <2>4 DEF Cleared
<1>5. QED
  BY <1>1, <1>3, <1>4 DEF BriefInv, ResetOnWay

\* A frame is emitted while no reset is on its way.
LEMMA EmitCleared ==
    ASSUME down \in Seq(Frame), Cleared, UNCHANGED <<visit, floor, shown>>,
           NEW f, NEW t, EmitEffect(f, t), ~Old(f.visit), ~Old(t)
    PROVE  Cleared'
<1>1. /\ f \in Frame /\ down' = Append(down, f) /\ srv'.turn = t
  BY DEF EmitEffect
<1>2. /\ Len(down) \in Nat /\ DOMAIN down = 1 .. Len(down)
      /\ DOMAIN down' = 1 .. (Len(down) + 1)
      /\ down'[Len(down) + 1] = f
      /\ \A i \in 1 .. Len(down) : down'[i] = down[i]
  BY <1>1, Appended
<1>3. \A j \in DOMAIN down : j \in DOMAIN down' /\ (Clears(j) => Clears(j)')
  BY <1>2 DEF Clears
<1>4. ~Old(srv.turn)'
  BY <1>1 DEF Old
<1>5. Old(shown)' => \E j \in DOMAIN down' : Clears(j)'
  <2>1. ASSUME Old(shown)' PROVE \E j \in DOMAIN down' : Clears(j)'
    <3>1. PICK j \in DOMAIN down : Clears(j)
      BY <2>1 DEF Cleared, Old
    <3>2. QED
      BY <1>3, <3>1
  <2>2. QED
    BY <2>1
<1>6. ASSUME NEW i \in DOMAIN down', Old(down[i].visit)'
      PROVE  \E j \in DOMAIN down' : j > i /\ Clears(j)'
  <2>1. i \in DOMAIN down /\ down'[i] = down[i]
    BY <1>2, <1>6 DEF Old
  <2>2. PICK j \in DOMAIN down : j > i /\ Clears(j)
    BY <1>6, <2>1 DEF Cleared, Old
  <2>3. QED
    BY <1>3, <2>2
<1>7. QED
  BY <1>4, <1>5, <1>6 DEF Cleared

\* The last reset is served: its answer clears everything before it.
LEMMA EmitClears ==
    ASSUME down \in Seq(Frame), floor \in Nat, UNCHANGED <<visit, floor, shown>>,
           NEW f, EmitEffect(f, NoVisit), f.visit = NoVisit, f.gen >= floor
    PROVE  Cleared'
<1>1. /\ f \in Frame /\ down' = Append(down, f) /\ srv'.turn = NoVisit
  BY DEF EmitEffect
<1>2. /\ Len(down) \in Nat /\ DOMAIN down' = 1 .. (Len(down) + 1)
      /\ down'[Len(down) + 1] = f
  BY <1>1, Appended
<1> PICK n \in Nat : n = Len(down) + 1
  BY <1>2
<1>3. n \in DOMAIN down' /\ Clears(n)'
  BY <1>2 DEF Clears
<1>4. ASSUME NEW i \in DOMAIN down', Old(down[i].visit)'
      PROVE  n > i
  BY <1>2, <1>4 DEF Old
<1>5. QED
  BY <1>1, <1>3, <1>4 DEF Cleared, Old

LEMMA ServeBrief ==
    ASSUME ~RateLimited, TypeOK, FenceInv, BriefInv, Serve
    PROVE  BriefInv'
<1>0. /\ up \in Seq(Payload) /\ down \in Seq(Frame) /\ srv \in Session
      /\ floor \in Nat /\ visit \in Nat /\ srv.gen \in Nat
  BY DEF TypeOK, Session, Visits
<1>1. /\ open /\ up # <<>> /\ up' = Tail(up)
      /\ Handle(Head(up)) \/ Refuse
      /\ UNCHANGED <<floor, visit, open, shown>>
  BY DEF Serve, fenceVars, storageVars, uiVars
<1>2. /\ 1 \in DOMAIN up /\ Head(up) = up[1] /\ Head(up) \in Payload
      /\ \A i \in DOMAIN up' : i \in Nat /\ i >= 1 /\ i + 1 \in DOMAIN up
                               /\ up'[i] = up[i + 1]
      /\ \A i \in DOMAIN up : i # 1 => (i - 1 \in DOMAIN up' /\ i \in Nat)
  BY <1>0, <1>1, Shifted
<1> DEFINE c == Head(up)
<1>3. ResetEffect(c) \/ FrameEffect(c) \/ TurnEffect(c)
  <2>1. ResetEffect(c) \/ FrameEffect(c) \/ TurnEffect(c) \/ RefuseEffect
    BY <1>0, <1>1, <1>2, HandleShape
  <2>2. QED
    BY <2>1 DEF RefuseEffect
<1>4. ASSUME NEW i \in DOMAIN up, i # 1
      PROVE  i - 1 \in DOMAIN up' /\ up'[i - 1] = up[i] /\ i \in Nat
  <2>1. i - 1 \in DOMAIN up' /\ i \in Nat
    BY <1>2, <1>4
  <2>2. up'[i - 1] = up[(i - 1) + 1] /\ (i - 1) + 1 = i
    BY <1>2, <2>1
  <2>3. QED
    BY <2>1, <2>2
<1>5. FollowedUp'
  <2>1. ASSUME NEW i \in DOMAIN up', up'[i].visit # visit'
        PROVE  \E j \in DOMAIN up' : j > i /\ up'[j].action = "reset_session"
    <3>1. i \in Nat /\ i >= 1 /\ i + 1 \in DOMAIN up /\ up[i + 1].visit # visit
      BY <1>1, <1>2, <2>1
    <3>2. PICK j \in DOMAIN up : j > i + 1 /\ up[j].action = "reset_session"
      BY <3>1 DEF BriefInv, FollowedUp
    <3>3. j # 1
      BY <3>1, <3>2
    <3>4. j - 1 \in DOMAIN up' /\ up'[j - 1] = up[j] /\ j \in Nat
      BY <1>4, <3>2, <3>3
    <3>5. QED
      BY <3>1, <3>2, <3>4
  <2>2. QED
    BY <2>1 DEF FollowedUp
<1>6. ~ResetOnWay' => (c.visit = visit /\ (c.action # "reset_session" => ~ResetOnWay))
  <2>1. ASSUME ~ResetOnWay', NEW j \in DOMAIN up, up[j].action = "reset_session"
        PROVE  j = 1
    <3>1. ASSUME j # 1 PROVE FALSE
      <4>1. j - 1 \in DOMAIN up' /\ up'[j - 1] = up[j]
        BY <1>4, <3>1
      <4>2. QED
        BY <2>1, <4>1 DEF ResetOnWay
    <3>2. QED
      BY <3>1
  <2>2. ASSUME ~ResetOnWay' PROVE c.visit = visit
    <3>1. ASSUME c.visit # visit PROVE FALSE
      <4>1. PICK j \in DOMAIN up : j > 1 /\ up[j].action = "reset_session"
        BY <1>2, <3>1 DEF BriefInv, FollowedUp
      <4>2. j = 1
        BY <2>1, <2>2, <4>1
      <4>3. QED
        BY <4>1, <4>2
    <3>2. QED
      BY <3>1
  <2>3. ASSUME ~ResetOnWay', c.action # "reset_session" PROVE ~ResetOnWay
    BY <1>2, <2>1, <2>3 DEF ResetOnWay
  <2>4. QED
    BY <2>2, <2>3
<1>7. ASSUME ~ResetOnWay' PROVE Cleared'
  <2>0. c.visit = visit /\ (c.action # "reset_session" => ~ResetOnWay)
    BY <1>6, <1>7
  <2> HIDE DEF c
  <2>1. CASE ResetEffect(c)
    <3>1. PICK f : EmitEffect(f, NoVisit) /\ f.kind = "other" /\ f.visit = NoVisit
                   /\ f.gen = srv.gen + 1
      BY <2>1 DEF ResetEffect
    <3>2. floor + c.visit <= srv.gen + visit + Step(c)
      BY <1>1, <1>2 DEF FenceInv, c
    <3>3. Step(c) = 1
      BY <2>1 DEF ResetEffect, Step
    <3>4. f.gen >= floor
      BY <1>0, <2>0, <3>1, <3>2, <3>3
    <3>5. QED
      BY <1>0, <1>1, <3>1, <3>4, EmitClears
  <2>2. CASE FrameEffect(c)
    <3>1. c.action # "reset_session" /\ Cleared
      BY <1>1, <2>0, <2>2 DEF FrameEffect, BriefInv
    <3>2. PICK f, t : /\ EmitEffect(f, t)
                      /\ f.visit \in {NoVisit, c.visit}
                      /\ t \in {NoVisit, srv.turn}
      BY <2>2 DEF FrameEffect
    <3>3. ~Old(f.visit) /\ ~Old(t)
      BY <2>0, <3>1, <3>2 DEF Old, Cleared
    <3>4. QED
      BY <1>0, <1>1, <3>1, <3>2, <3>3, EmitCleared
  <2>3. CASE TurnEffect(c)
    <3>1. c.action # "reset_session" /\ Cleared
      BY <1>1, <2>0, <2>3 DEF TurnEffect, BriefInv
    <3>2. down' = down /\ srv'.turn = visit
      BY <2>0, <2>3 DEF TurnEffect
    <3>3. QED
      BY <1>1, <3>1, <3>2 DEF Cleared, Old, Clears
  <2>4. QED
    BY <1>3, <2>1, <2>2, <2>3 DEF c
<1>8. QED
  BY <1>5, <1>7 DEF BriefInv

LEMMA AnswerBrief ==
    ASSUME TypeOK, BriefInv, Answer
    PROVE  BriefInv'
<1>0. down \in Seq(Frame) /\ srv \in Session
  BY DEF TypeOK
<1>1. open /\ UNCHANGED <<floor, visit, open, shown, up>>
  BY DEF Answer, fenceVars, storageVars, uiVars
<1>2. PICK f, t : EmitEffect(f, t) /\ f.visit = srv.turn /\ t \in {NoVisit, srv.turn}
  BY <1>0, AnswerShape
<1>3. ASSUME ~ResetOnWay PROVE Cleared'
  <2>1. Cleared
    BY <1>1, <1>3 DEF BriefInv
  <2>2. ~Old(f.visit) /\ ~Old(t)
    BY <1>2, <2>1 DEF Cleared, Old
  <2>3. QED
    BY <1>0, <1>1, <1>2, <2>1, <2>2, EmitCleared
<1>4. QED
  BY <1>1, <1>3 DEF BriefInv, FollowedUp, ResetOnWay

\* What an earlier visitor left is always about to be cleared.
THEOREM BriefInvariant ==
    ASSUME ~RateLimited
    PROVE  Spec => []BriefInv
<1>1. Init => BriefInv
  BY DEF Init, BriefInv, FollowedUp
<1>2. TypeOK /\ Aged /\ QueueInv /\ FenceInv /\ ShownInv /\ WireInv /\ BriefInv
          /\ [Next]_vars => BriefInv'
  <2> SUFFICES ASSUME TypeOK, Aged, QueueInv, FenceInv, ShownInv, WireInv, BriefInv,
                      [Next]_vars
               PROVE  BriefInv'
    OBVIOUS
  <2>1. CASE \E p : Asking(p)
    BY <2>1, AskBrief
  <2>2. CASE \E r : HomeEffect(r)
    BY <2>2, HomeBrief
  <2>3. CASE Reload \/ Drop
    BY <2>3 DEF Reload, Drop, BriefInv, FollowedUp
  <2>4. CASE Open
    BY <2>4, OpenBrief
  <2>5. CASE Receive
    BY <2>5, ReceiveBrief
  <2>6. CASE Serve
    BY <2>6, ServeBrief
  <2>7. CASE Answer
    BY <2>7, AnswerBrief
  <2>8. CASE UNCHANGED vars
    BY <2>8 DEF vars, BriefInv, FollowedUp, ResetOnWay, Cleared, Old, Clears,
                fenceVars, uiVars, storageVars, wireVars
  <2>9. QED
    BY <2>1, <2>2, <2>3, <2>4, <2>5, <2>6, <2>7, <2>8, StepShape
<1>3. QED
  BY <1>1, <1>2, TypeInvariant, QueueInvariant, FenceAndLanguage, WireInvariant,
     PTL DEF Spec

\* runHardResetTransaction with the fences of onmessage: what is shown of an
\* earlier visitor stays only until the answer to the reset, or to the wake that
\* follows it, which is on its way.
THEOREM EarlierVisitIsCleared ==
    ASSUME ~RateLimited
    PROVE  Spec => []EarlierVisitIsBrief
<1>1. BriefInv => EarlierVisitIsBrief
  BY DEF BriefInv, Cleared, Old, Clears, ResetOnWay, EarlierVisitIsBrief
<1>2. QED
  BY <1>1, BriefInvariant, PTL
=============================================================================
