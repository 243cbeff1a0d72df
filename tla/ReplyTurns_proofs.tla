--------------------------- MODULE ReplyTurns_proofs ---------------------------
(***************************************************************************)
(* Proofs about ReplyTurns, for every number of turns, every bound on the  *)
(* generation and every history length.                                    *)
(*                                                                         *)
(* OneCurrentTurn, CancelledIsStale and NeverSilent are not inductive:     *)
(* TaskInv adds what ties active_reply_task, the pending cancellations and *)
(* the markers together.  The properties that need cancellation to be      *)
(* delivered (~LossyCancel) rest on OnlyActiveRuns: every live task except *)
(* the active one has a cancellation pending, so each step of a task that  *)
(* changes the session is a step of the current turn.                      *)
(***************************************************************************)
EXTENDS ReplyTurns, SequenceTheorems, TLAPS

USE BoundsAssumption, LossyCancelAssumption

Begun(t) == at[t] \in {"await", "lock", "drain"}

\* Holds of every turn, however cancellations are delivered.
TurnInv(t) ==
    /\ marker[t] <= gen
    /\ at[t] # "idle" => gen >= 1
    /\ at[t] \in {"idle", "created"} => marker[t] = 0
    /\ ~Begun(t) => path[t] = "none" /\ stage[t] = "none"
    /\ t \in cancelled => Live(t) /\ t # active
    /\ t = active => Live(t) /\ (Begun(t) => marker[t] = gen)
    /\ Live(t) /\ t # active =>
           /\ at[t] = "created" => t \in cancelled
           /\ Begun(t) => marker[t] # gen
    /\ at[t] = "drain" /\ stage[t] \in {"final", "error"} => t \in delivered
    /\ at[t] = "done" /\ marker[t] = gen => t \in delivered

TaskInv == \A t \in Turns : TurnInv(t)

-----------------------------------------------------------------------------
(* append_session_history keeps the memory well formed: every pair in it    *)
(* was there before or is the new one.                                      *)
LEMMA RecordedPairs ==
    ASSUME NEW user \in Turns \cup {NoTurn}, NEW reply \in Turns,
           history \in Seq(Pair)
    PROVE  /\ Recorded(user, reply) \in Seq(Pair)
           /\ \A i \in DOMAIN Recorded(user, reply) :
                  \/ \E j \in DOMAIN history :
                         Recorded(user, reply)[i] = history[j]
                  \/ /\ user # NoTurn
                     /\ Recorded(user, reply)[i] = [user |-> user, reply |-> reply]
<1> DEFINE p == [user |-> user, reply |-> reply]
           full == Append(history, p)
<1>1. CASE user = NoTurn
  BY <1>1 DEF Recorded
<1>2. CASE user # NoTurn
  <2>1. p \in Pair
    BY <1>2 DEF Pair, NoTurn
  <2>2. /\ full \in Seq(Pair)
        /\ Len(full) = Len(history) + 1
        /\ \A i \in 1 .. Len(history) : full[i] = history[i]
        /\ full[Len(history) + 1] = p
    BY <2>1, AppendProperties
  <2>3. \A i \in 1 .. Len(full) :
            (\E j \in DOMAIN history : full[i] = history[j]) \/ full[i] = p
    BY <2>2, LenProperties
  <2>4. CASE Len(full) <= HistoryTurns
    <3>1. Recorded(user, reply) = full
      BY <1>2, <2>4, <2>2 DEF Recorded
    <3> QED
      BY <1>2, <2>2, <2>3, <3>1, LenProperties
  <2>5. CASE Len(full) > HistoryTurns
    <3> DEFINE m == Len(full) - HistoryTurns + 1
    <3>1. Recorded(user, reply) = SubSeq(full, m, Len(full))
      BY <1>2, <2>5 DEF Recorded
    <3>2. m \in 1 .. Len(full) /\ Len(full) \in Nat
      BY <2>2, <2>5, LenProperties
    <3>3. /\ SubSeq(full, m, Len(full)) \in Seq(Pair)
          /\ Len(SubSeq(full, m, Len(full))) = Len(full) - m + 1
          /\ \A i \in 1 .. Len(full) - m + 1 :
                 SubSeq(full, m, Len(full))[i] = full[m + i - 1]
      BY <2>2, <3>2, SubSeqProperties
    <3>4. DOMAIN SubSeq(full, m, Len(full)) = 1 .. Len(full) - m + 1
      BY <3>3, LenProperties
    <3>5. \A i \in 1 .. Len(full) - m + 1 : m + i - 1 \in 1 .. Len(full)
      BY <3>2
    <3> QED
      BY <1>2, <2>3, <3>1, <3>3, <3>4, <3>5
  <2> QED
    BY <2>2, <2>4, <2>5, LenProperties
<1> QED
  BY <1>1, <1>2

USE DEF vars, loopVars, taskVars, memoryVars, sessionVars, ghostVars

-----------------------------------------------------------------------------
LEMMA SilenceIsAFrame == Silence \in Frame
  BY DEF Silence, Frame

\* Every variable keeps its type: the type correctness of the connection.
THEOREM TypeCorrect == Spec => []TypeOK
<1> USE DEF TypeOK, Points, Stages, Frames, Paths
<1>1. Init => TypeOK
  <2> SUFFICES ASSUME Init PROVE TypeOK
    OBVIOUS
  <2>1. history \in Seq(Pair)
    BY DEF Init
  <2>2. gen \in 0 .. MaxGen /\ visit \in 0 .. gen
    BY DEF Init
  <2>3. /\ at \in [Turns -> Points] /\ stage \in [Turns -> Stages]
        /\ path \in [Turns -> Paths]
    BY DEF Init
  <2>4. /\ marker \in [Turns -> 0 .. MaxGen] /\ born \in [Turns -> 0 .. MaxGen]
        /\ bridge \in [Turns -> {"none", "tts", "lock"}]
    BY DEF Init
  <2> QED
    BY <2>1, <2>2, <2>3, <2>4, SilenceIsAFrame DEF Init
<1>2. TypeOK /\ [Next]_vars => TypeOK'
  <2> SUFFICES ASSUME TypeOK, [Next]_vars PROVE TypeOK'
    OBVIOUS
  <2>1. CASE ResetOrHome
    BY <2>1, SilenceIsAFrame DEF ResetOrHome, Supersede, Silent
  <2>2. CASE CancelTurn
    BY <2>2, SilenceIsAFrame DEF CancelTurn, Supersede, Silent
  <2>3. CASE UserMessage
    BY <2>3, SilenceIsAFrame DEF UserMessage, Schedule, Supersede, Silent
  <2>4. CASE InactivityIntent
    BY <2>4, SilenceIsAFrame DEF InactivityIntent, Schedule, Supersede, Silent
  <2>5. CASE LanguageGate
    BY <2>5, SilenceIsAFrame DEF LanguageGate, Silent
  <2>6. CASE MicStart
    BY <2>6, SilenceIsAFrame DEF MicStart, Silent
  <2>7. CASE MicHeard
    BY <2>7, SilenceIsAFrame DEF MicHeard, Schedule, Supersede, Silent
  <2>8. CASE MicFailed
    BY <2>8, SilenceIsAFrame DEF MicFailed, Silent
  <2>9. CASE SelectLanguage
    BY <2>9, SilenceIsAFrame DEF SelectLanguage, Silent
  <2>10. CASE LanguageRefused
    BY <2>10, SilenceIsAFrame DEF LanguageRefused, Silent
  <2>11. CASE RestoreLanguage
    BY <2>11, SilenceIsAFrame DEF RestoreLanguage, Silent
  <2>12. CASE OtherMessage
    BY <2>12, SilenceIsAFrame DEF OtherMessage, Silent
  <2>13. CASE LoopSend
    BY <2>13, SilenceIsAFrame DEF LoopSend, Silent
  <2>14. ASSUME NEW t \in Turns, Begin(t) PROVE TypeOK'
    <3>1. history' \in Seq(Pair)
      BY <2>14, RecordedPairs DEF Begin, DirectReply
    <3> QED
      BY <2>14, SilenceIsAFrame, <3>1 DEF Begin, DirectReply, Goto, Localized, Silent
  <2>15. ASSUME NEW t \in Turns, Routed(t) PROVE TypeOK'
    <3>1. history' \in Seq(Pair)
      BY <2>15, RecordedPairs DEF Routed, DirectReply, PipelineReply
    <3> QED
      BY <2>15, SilenceIsAFrame, <3>1 DEF Routed, Running, DirectReply, PipelineReply, Goto, Localized, Silent
  <2>16. ASSUME NEW t \in Turns, ThinkingSent(t) PROVE TypeOK'
    <3>1. history' \in Seq(Pair)
      BY <2>16, RecordedPairs DEF ThinkingSent, DirectReply, PipelineReply
    <3> QED
      BY <2>16, SilenceIsAFrame, <3>1 DEF ThinkingSent, Running, DirectReply, PipelineReply, Goto, Silent
  <2>17. ASSUME NEW t \in Turns, Transmit(t) PROVE TypeOK'
    <3>1. wire' \in Frame
      BY <2>17 DEF Transmit, Frame
    <3> QED
      BY <2>17, <3>1 DEF Transmit, Goto
  <2>18. ASSUME NEW t \in Turns, BusySent(t) PROVE TypeOK'
    <3>1. history' \in Seq(Pair)
      BY <2>18, RecordedPairs DEF BusySent
    <3>2. /\ at' \in [Turns -> Points] /\ stage' \in [Turns -> Stages]
          /\ path' \in [Turns -> Paths] /\ active' \in Turns \cup {NoTurn}
      BY <2>18 DEF BusySent, GotoUnlessStale, Finish, Goto
    <3>3. pending' \in Turns \cup {NoTurn} /\ transcript' \subseteq Turns
      BY <2>18 DEF BusySent
    <3> QED
      BY <2>18, SilenceIsAFrame, <3>1, <3>2, <3>3 DEF BusySent, Silent
  <2>19. ASSUME NEW t \in Turns, OpeningSent(t) PROVE TypeOK'
    BY <2>19, SilenceIsAFrame DEF OpeningSent, Running, Goto, Silent
  <2>20. ASSUME NEW t \in Turns, Localize(t) PROVE TypeOK'
    BY <2>20, SilenceIsAFrame DEF Localize, Running, Finish, Goto, Localized, Silent
  <2>21. ASSUME NEW t \in Turns, Generated(t) PROVE TypeOK'
    <3>1. history' \in Seq(Pair)
      BY <2>21, RecordedPairs DEF Generated
    <3> QED
      BY <2>21, SilenceIsAFrame, <3>1 DEF Generated, Running, Goto, Silent
  <2>22. ASSUME NEW t \in Turns, Voiced(t) PROVE TypeOK'
    <3>1. /\ at' \in [Turns -> Points] /\ stage' \in [Turns -> Stages]
          /\ path' \in [Turns -> Paths] /\ active' \in Turns \cup {NoTurn}
      BY <2>22 DEF Voiced, GotoUnlessStale, Finish, Goto
    <3> QED
      BY <2>22, SilenceIsAFrame, <3>1 DEF Voiced, Silent
  <2>23. ASSUME NEW t \in Turns, InterimSent(t) PROVE TypeOK'
    BY <2>23, SilenceIsAFrame DEF InterimSent, Running, Goto, Silent
  <2>23s. ASSUME NEW t \in Turns, Stream(t) PROVE TypeOK'
    BY <2>23s, SilenceIsAFrame DEF Stream, Running, Goto, Silent
  <2>24. ASSUME NEW t \in Turns, FinalSent(t) PROVE TypeOK'
    BY <2>24, SilenceIsAFrame DEF FinalSent, Running, Finish, Goto, Silent
  <2>25. ASSUME NEW t \in Turns, Fail(t) PROVE TypeOK'
    BY <2>25, SilenceIsAFrame DEF Fail, Goto, Silent
  <2>26. ASSUME NEW t \in Turns, ErrorSent(t) PROVE TypeOK'
    BY <2>26, SilenceIsAFrame DEF ErrorSent, Running, Finish, Goto, Silent
  <2>27. ASSUME NEW t \in Turns, Abort(t) PROVE TypeOK'
    BY <2>27, SilenceIsAFrame DEF Abort, Finish, Goto, Silent
  <2>28. ASSUME NEW t \in Turns, SwallowCancel(t) PROVE TypeOK'
    BY <2>28, SilenceIsAFrame DEF SwallowCancel, Silent
  <2>29. ASSUME NEW t \in Turns, BridgeStep(t) PROVE TypeOK'
    BY <2>29, SilenceIsAFrame DEF BridgeStep, Silent
  <2>30. ASSUME NEW t \in Turns, BridgeSend(t) PROVE TypeOK'
    <3>1. wire' \in Frame
      BY <2>30 DEF BridgeSend, Frame
    <3> QED
      BY <2>30, <3>1 DEF BridgeSend
  <2>31. CASE UNCHANGED vars
    BY <2>31
  <2> QED
    BY <2>1, <2>2, <2>3, <2>4, <2>5, <2>6, <2>7, <2>8, <2>9, <2>10, <2>11, <2>12, <2>13, <2>14, <2>15, <2>16, <2>17, <2>18, <2>19, <2>20, <2>21, <2>22, <2>23, <2>23s, <2>24, <2>25, <2>26, <2>27, <2>28, <2>29, <2>30, <2>31
       DEF Next, LoopNext, ReplyNext, BridgeNext
<1> QED
  BY <1>1, <1>2, PTL DEF Spec

-----------------------------------------------------------------------------
(* The bookkeeping of the reply tasks.                                      *)

\* What a step does that concerns no reply task's bookkeeping.
LEMMA Aside ==
    ASSUME LanguageGate \/ MicStart \/ MicFailed \/ SelectLanguage
           \/ LanguageRefused \/ RestoreLanguage \/ OtherMessage \/ LoopSend
           \/ (\E t \in Turns : BridgeNext(t)) \/ UNCHANGED vars
    PROVE  UNCHANGED <<gen, active, taskVars, delivered>>
  BY DEF LanguageGate, MicStart, MicFailed, SelectLanguage, LanguageRefused,
         RestoreLanguage, OtherMessage, LoopSend, BridgeNext, BridgeStep,
         BridgeSend

\* A scheduled turn is new, and supersedes the active one.
LEMMA Scheduled ==
    ASSUME UserMessage \/ InactivityIntent \/ MicHeard
    PROVE  \E b \in BOOLEAN : Schedule(b)
  BY DEF UserMessage, InactivityIntent, MicHeard

\* TaskInv is inductive.
THEOREM TaskInvariant == Spec => []TaskInv
<1>1. Init => TaskInv
  BY DEF Init, TaskInv, TurnInv, Live, Begun, NoTurn, Turns
<1>2. TypeOK /\ TaskInv /\ [Next]_vars => TaskInv'
  <2> SUFFICES ASSUME TypeOK, TaskInv, [Next]_vars, NEW u \in Turns
               PROVE  TurnInv(u)'
    BY DEF TaskInv
  <2> USE DEF TurnInv, Live, Begun
  <2>0. /\ TurnInv(u)
        /\ gen \in Nat /\ marker[u] \in Nat
        /\ NoTurn \notin Turns
        /\ at \in [Turns -> Points] /\ stage \in [Turns -> Stages]
        /\ path \in [Turns -> Paths] /\ marker \in [Turns -> 0 .. MaxGen]
    BY DEF TypeOK, TaskInv, Turns, NoTurn
  <2>1. CASE UNCHANGED <<gen, active, taskVars, delivered>>
    BY <2>0, <2>1
  <2>2. CASE ResetOrHome \/ CancelTurn
    BY <2>0, <2>2 DEF ResetOrHome, CancelTurn, Supersede
  <2>3. ASSUME NEW b \in BOOLEAN, Schedule(b) PROVE TurnInv(u)'
    BY <2>0, <2>3 DEF Schedule, Supersede
  <2>4. ASSUME NEW t \in Turns, Begin(t) PROVE TurnInv(u)'
    <3>1. TurnInv(t)
      BY DEF TaskInv
    <3> QED
      BY <2>0, <2>4, <3>1 DEF Begin, DirectReply, Goto
  <2>5. ASSUME NEW t \in Turns, Routed(t) PROVE TurnInv(u)'
    <3>1. TurnInv(t)
      BY DEF TaskInv
    <3> QED
      BY <2>0, <2>5, <3>1 DEF Routed, Running, DirectReply, PipelineReply, Goto
  <2>6. ASSUME NEW t \in Turns, ThinkingSent(t) PROVE TurnInv(u)'
    <3>1. TurnInv(t)
      BY DEF TaskInv
    <3> QED
      BY <2>0, <2>6, <3>1 DEF ThinkingSent, Running, DirectReply, PipelineReply, Goto
  <2>7. ASSUME NEW t \in Turns, Transmit(t) PROVE TurnInv(u)'
    <3>1. TurnInv(t)
      BY DEF TaskInv
    <3> QED
      BY <2>0, <2>7, <3>1 DEF Transmit, Goto
  <2>8. ASSUME NEW t \in Turns, BusySent(t) PROVE TurnInv(u)'
    <3>1. TurnInv(t)
      BY DEF TaskInv
    <3> QED
      BY <2>0, <2>8, <3>1 DEF BusySent, Running, GotoUnlessStale, Finish, Goto, Stale
  <2>9. ASSUME NEW t \in Turns, OpeningSent(t) PROVE TurnInv(u)'
    <3>1. TurnInv(t)
      BY DEF TaskInv
    <3> QED
      BY <2>0, <2>9, <3>1 DEF OpeningSent, Running, Goto
  <2>10. ASSUME NEW t \in Turns, Localize(t) PROVE TurnInv(u)'
    <3>1. TurnInv(t)
      BY DEF TaskInv
    <3> QED
      BY <2>0, <2>10, <3>1 DEF Localize, Running, Finish, Goto, Stale
  <2>11. ASSUME NEW t \in Turns, Generated(t) PROVE TurnInv(u)'
    <3>1. TurnInv(t)
      BY DEF TaskInv
    <3> QED
      BY <2>0, <2>11, <3>1 DEF Generated, Running, Goto
  <2>12. ASSUME NEW t \in Turns, Voiced(t) PROVE TurnInv(u)'
    <3>1. TurnInv(t)
      BY DEF TaskInv
    <3> QED
      BY <2>0, <2>12, <3>1 DEF Voiced, Running, GotoUnlessStale, Finish, Goto, Stale
  <2>13. ASSUME NEW t \in Turns, InterimSent(t) PROVE TurnInv(u)'
    <3>1. TurnInv(t)
      BY DEF TaskInv
    <3> QED
      BY <2>0, <2>13, <3>1 DEF InterimSent, Running, Goto
  <2>13s. ASSUME NEW t \in Turns, Stream(t) PROVE TurnInv(u)'
    <3>1. TurnInv(t)
      BY DEF TaskInv
    <3> QED
      BY <2>0, <2>13s, <3>1 DEF Stream, Running, Goto
  <2>14. ASSUME NEW t \in Turns, FinalSent(t) PROVE TurnInv(u)'
    <3>1. TurnInv(t)
      BY DEF TaskInv
    <3> QED
      BY <2>0, <2>14, <3>1 DEF FinalSent, Running, Finish, Goto
  <2>15. ASSUME NEW t \in Turns, Fail(t) PROVE TurnInv(u)'
    <3>1. TurnInv(t)
      BY DEF TaskInv
    <3> QED
      BY <2>0, <2>15, <3>1 DEF Fail, Goto
  <2>16. ASSUME NEW t \in Turns, ErrorSent(t) PROVE TurnInv(u)'
    <3>1. TurnInv(t)
      BY DEF TaskInv
    <3> QED
      BY <2>0, <2>16, <3>1 DEF ErrorSent, Running, Finish, Goto
  <2>17. ASSUME NEW t \in Turns, Abort(t) PROVE TurnInv(u)'
    <3>1. TurnInv(t)
      BY DEF TaskInv
    <3> QED
      BY <2>0, <2>17, <3>1 DEF Abort, Finish, Goto
  <2>18. ASSUME NEW t \in Turns, SwallowCancel(t) PROVE TurnInv(u)'
    <3>1. TurnInv(t)
      BY DEF TaskInv
    <3> QED
      BY <2>0, <2>18, <3>1 DEF SwallowCancel
  <2> QED
    BY <2>1, <2>2, <2>3, <2>4, <2>5, <2>6, <2>7, <2>8, <2>9, <2>10, <2>11, <2>12, <2>13, <2>13s, <2>14, <2>15, <2>16, <2>17, <2>18, Aside, Scheduled
       DEF Next, LoopNext, ReplyNext
<1> QED
  BY <1>1, <1>2, TypeCorrect, PTL DEF Spec

-----------------------------------------------------------------------------
(* The properties that need nothing of asyncio's cancellation.              *)

\* Whoever can still take itself for the current turn is active_reply_task.
THEOREM CurrentTurnIsUnique == Spec => []OneCurrentTurn
<1>1. TaskInv => OneCurrentTurn
  BY DEF TaskInv, TurnInv, OneCurrentTurn, Live, Begun, Stale
<1> QED
  BY <1>1, TaskInvariant, PTL

\* A cancellation only reaches turns whose generation is over, so the frame
\* that the CancelledError handler would send is never sent.
THEOREM CancellationIsLate == Spec => []CancelledIsStale
<1>1. TypeOK /\ TaskInv => CancelledIsStale
  BY DEF TypeOK, TaskInv, TurnInv, CancelledIsStale, Live, Begun, Stale
<1> QED
  BY <1>1, TypeCorrect, TaskInvariant, PTL

\* A turn that ended unsuperseded has told the kiosk its outcome.
THEOREM OutcomeIsTold == Spec => []NeverSilent
<1>1. TaskInv => NeverSilent
  BY DEF TaskInv, TurnInv, NeverSilent, Stale
<1> QED
  BY <1>1, TaskInvariant, PTL

-----------------------------------------------------------------------------
(* The properties that hold when a cancelled task runs no further.          *)

\* Every live task except the active one has its cancellation pending.
OnlyActiveRuns == \A t \in Turns : Live(t) /\ t # active => t \in cancelled

\* The kinds of reply that the frames of the pipeline belong to.
Shape(t) ==
    /\ stage[t] \in {"none", "routing", "think"} => path[t] = "none"
    /\ stage[t] \in {"partial", "ack"} => path[t] = "answer"

\* The turn will read, or has read, the language of the session.
Speaks(t) ==
    \/ path[t] \in {"answer", "card"}
    \/ stage[t] \in {"routing", "think"}
    \/ at[t] = "created" /\ t \notin quiet

LanguageInv ==
    /\ lang # "default"
    /\ loop \in {"mic", "micBusy"} => lang # "none"
    /\ \A t \in Turns : t = active /\ Speaks(t) => lang # "none"

FreezeInv ==
    \A t \in Turns :
        t = active /\ path[t] = "card" /\ stage[t] # "error" => frozen

Known(t) == at[t] # "idle" /\ born[t] = visit

VisitInv ==
    /\ active # NoTurn => Known(active)
    /\ pending # NoTurn => Known(pending)
    /\ \A i \in DOMAIN history : Known(history[i].user) /\ Known(history[i].reply)
    /\ \A t \in transcript : Known(t)

\* While cancellation is reliable, the active task is the only one that runs.
THEOREM ActiveTaskOnly == ASSUME ~LossyCancel PROVE Spec => []OnlyActiveRuns
<1>1. Init => OnlyActiveRuns
  BY DEF Init, OnlyActiveRuns, Live
<1>2. TypeOK /\ TaskInv /\ OnlyActiveRuns /\ [Next]_vars => OnlyActiveRuns'
  <2> SUFFICES ASSUME TypeOK, TaskInv, OnlyActiveRuns, [Next]_vars,
                      NEW u \in Turns
               PROVE  (Live(u) /\ u # active => u \in cancelled)'
    BY DEF OnlyActiveRuns
  <2> USE DEF Live
  <2>0. /\ Live(u) /\ u # active => u \in cancelled
        /\ NoTurn \notin Turns
        /\ at \in [Turns -> Points]
    BY DEF TypeOK, Turns, NoTurn, OnlyActiveRuns
  <2>1. CASE UNCHANGED <<gen, active, taskVars, delivered>>
    BY <2>0, <2>1
  <2>2. CASE ResetOrHome \/ CancelTurn
    BY <2>0, <2>2 DEF ResetOrHome, CancelTurn, Supersede
  <2>3. ASSUME NEW b \in BOOLEAN, Schedule(b)
        PROVE  (Live(u) /\ u # active => u \in cancelled)'
    BY <2>0, <2>3 DEF Schedule, Supersede
  <2>4. ASSUME NEW t \in Turns, ReplyNext(t)
        PROVE  (Live(u) /\ u # active => u \in cancelled)'
    <3>1. /\ \A v \in Turns : v # t => at'[v] = at[v]
          /\ Live(t)
          /\ cancelled' = cancelled \/ (cancelled' = cancelled \ {t} /\ at'[t] = "done")
          /\ active' = active \/ (active = t /\ active' = NoTurn /\ at'[t] = "done")
      <4>1. CASE Begin(t)
        BY <2>0, <4>1 DEF Begin, DirectReply, Goto
      <4>2. CASE Routed(t)
        BY <2>0, <4>2 DEF Routed, Running, DirectReply, PipelineReply, Goto
      <4>3. CASE ThinkingSent(t)
        BY <2>0, <4>3 DEF ThinkingSent, Running, DirectReply, PipelineReply, Goto
      <4>4. CASE Transmit(t)
        BY <2>0, <4>4 DEF Transmit, Goto
      <4>5. CASE BusySent(t)
        BY <2>0, <4>5 DEF BusySent, Running, GotoUnlessStale, Finish, Goto
      <4>6. CASE OpeningSent(t)
        BY <2>0, <4>6 DEF OpeningSent, Running, Goto
      <4>7. CASE Localize(t)
        BY <2>0, <4>7 DEF Localize, Running, Finish, Goto
      <4>8. CASE Generated(t)
        BY <2>0, <4>8 DEF Generated, Running, Goto
      <4>9. CASE Voiced(t)
        BY <2>0, <4>9 DEF Voiced, Running, GotoUnlessStale, Finish, Goto
      <4>10. CASE InterimSent(t)
        BY <2>0, <4>10 DEF InterimSent, Running, Goto
      <4>10s. CASE Stream(t)
        BY <2>0, <4>10s DEF Stream, Running, Goto
      <4>11. CASE FinalSent(t)
        BY <2>0, <4>11 DEF FinalSent, Running, Finish, Goto
      <4>12. CASE Fail(t)
        BY <2>0, <4>12 DEF Fail, Goto
      <4>13. CASE ErrorSent(t)
        BY <2>0, <4>13 DEF ErrorSent, Running, Finish, Goto
      <4>14. CASE Abort(t)
        BY <2>0, <4>14 DEF Abort, Finish, Goto
      <4> QED
        BY <2>4, <4>1, <4>2, <4>3, <4>4, <4>5, <4>6, <4>7, <4>8, <4>9, <4>10, <4>10s, <4>11, <4>12, <4>13, <4>14 DEF ReplyNext
    <3> QED
      BY <2>0, <3>1 DEF TaskInv, TurnInv, Begun
  <2>5. ASSUME NEW t \in Turns, SwallowCancel(t) PROVE FALSE
    BY <2>5 DEF SwallowCancel
  <2> QED
    BY <2>1, <2>2, <2>3, <2>4, <2>5, Aside, Scheduled DEF Next, LoopNext
<1> QED
  BY <1>1, <1>2, TypeCorrect, TaskInvariant, PTL DEF Spec

\* The frames of the pipeline belong to the kinds of reply that have them.
ShapeInv == \A t \in Turns : Shape(t)

THEOREM ShapeInvariant == Spec => []ShapeInv
<1>1. Init => ShapeInv
  BY DEF Init, ShapeInv, Shape
<1>2. TypeOK /\ TaskInv /\ ShapeInv /\ [Next]_vars => ShapeInv'
  <2> SUFFICES ASSUME TypeOK, TaskInv, ShapeInv, [Next]_vars, NEW u \in Turns
               PROVE  Shape(u)'
    BY DEF ShapeInv
  <2> USE DEF Shape
  <2>0. /\ Shape(u) /\ TurnInv(u)
        /\ stage \in [Turns -> Stages] /\ path \in [Turns -> Paths]
    BY DEF TypeOK, ShapeInv, TaskInv
  <2>1. CASE UNCHANGED <<stage, path>>
    BY <2>0, <2>1
  <2>2. ASSUME NEW t \in Turns, ReplyNext(t) PROVE Shape(u)'
    <3>1. CASE Begin(t)
      BY <2>0, <3>1 DEF Begin, DirectReply, Goto, Localized, TurnInv, Begun
    <3>2. CASE Routed(t)
      BY <2>0, <3>2 DEF Routed, Running, DirectReply, PipelineReply, Goto, Localized, TurnInv, Begun
    <3>3. CASE ThinkingSent(t)
      BY <2>0, <3>3 DEF ThinkingSent, Running, DirectReply, PipelineReply, Goto, TurnInv, Begun
    <3>4. CASE Transmit(t)
      BY <2>0, <3>4 DEF Transmit, Goto, TurnInv, Begun
    <3>5. CASE BusySent(t)
      BY <2>0, <3>5 DEF BusySent, Running, GotoUnlessStale, Finish, Goto, TurnInv, Begun
    <3>6. CASE OpeningSent(t)
      BY <2>0, <3>6 DEF OpeningSent, Running, Goto, TurnInv, Begun
    <3>7. CASE Localize(t)
      BY <2>0, <3>7 DEF Localize, Running, Finish, Goto, Localized, TurnInv, Begun
    <3>8. CASE Generated(t)
      BY <2>0, <3>8 DEF Generated, Running, Goto, TurnInv, Begun
    <3>9. CASE Voiced(t)
      BY <2>0, <3>9 DEF Voiced, Running, GotoUnlessStale, Finish, Goto, TurnInv, Begun
    <3>10. CASE InterimSent(t)
      BY <2>0, <3>10 DEF InterimSent, Running, Goto, TurnInv, Begun
    <3>10s. CASE Stream(t)
      BY <2>0, <3>10s DEF Stream, Running, Goto, TurnInv, Begun
    <3>11. CASE FinalSent(t)
      BY <2>0, <3>11 DEF FinalSent, Running, Finish, Goto, TurnInv, Begun
    <3>12. CASE Fail(t)
      BY <2>0, <3>12 DEF Fail, Goto, TurnInv, Begun
    <3>13. CASE ErrorSent(t)
      BY <2>0, <3>13 DEF ErrorSent, Running, Finish, Goto, TurnInv, Begun
    <3>14. CASE Abort(t)
      BY <2>0, <3>14 DEF Abort, Finish, Goto, TurnInv, Begun
    <3> QED
      BY <2>2, <3>1, <3>2, <3>3, <3>4, <3>5, <3>6, <3>7, <3>8, <3>9, <3>10, <3>10s, <3>11, <3>12, <3>13, <3>14 DEF ReplyNext
  <2>3. ASSUME NEW t \in Turns, SwallowCancel(t) PROVE UNCHANGED <<stage, path>>
    BY <2>3 DEF SwallowCancel
  <2>4. CASE ResetOrHome \/ CancelTurn
    BY <2>1, <2>4 DEF ResetOrHome, CancelTurn
  <2>5. ASSUME NEW b \in BOOLEAN, Schedule(b) PROVE UNCHANGED <<stage, path>>
    BY <2>5 DEF Schedule
  <2> QED
    BY <2>1, <2>2, <2>3, <2>4, <2>5, Aside, Scheduled DEF Next, LoopNext
<1> QED
  BY <1>1, <1>2, TypeCorrect, TaskInvariant, PTL DEF Spec

\* A task that runs and is not about to be cancelled is the active one.
LEMMA RunnerIsActive ==
    ASSUME OnlyActiveRuns, NEW t \in Turns, ReplyNext(t)
    PROVE  t = active \/ Abort(t)
<1>1. (t \notin cancelled /\ Live(t)) => t = active
  BY DEF OnlyActiveRuns
<1> USE DEF Live
<1>2. CASE Begin(t)
  BY <1>1, <1>2 DEF Begin
<1>3. CASE Routed(t)
  BY <1>1, <1>3 DEF Routed, Running
<1>4. CASE ThinkingSent(t)
  BY <1>1, <1>4 DEF ThinkingSent, Running
<1>5. CASE Transmit(t)
  BY <1>1, <1>5 DEF Transmit
<1>6. CASE BusySent(t)
  BY <1>1, <1>6 DEF BusySent, Running
<1>7. CASE OpeningSent(t)
  BY <1>1, <1>7 DEF OpeningSent, Running
<1>8. CASE Localize(t)
  BY <1>1, <1>8 DEF Localize, Running
<1>9. CASE Generated(t)
  BY <1>1, <1>9 DEF Generated, Running
<1>10. CASE Voiced(t)
  BY <1>1, <1>10 DEF Voiced, Running
<1>11. CASE InterimSent(t)
  BY <1>1, <1>11 DEF InterimSent, Running
<1>11s. CASE Stream(t)
  BY <1>1, <1>11s DEF Stream, Running
<1>12. CASE FinalSent(t)
  BY <1>1, <1>12 DEF FinalSent, Running
<1>13. CASE Fail(t)
  BY <1>1, <1>13 DEF Fail
<1>14. CASE ErrorSent(t)
  BY <1>1, <1>14 DEF ErrorSent, Running
<1> QED
  BY <1>2, <1>3, <1>4, <1>5, <1>6, <1>7, <1>8, <1>9, <1>10, <1>11, <1>11s, <1>12, <1>13, <1>14 DEF ReplyNext

\* A language is chosen wherever one is needed.
THEOREM LanguageInvariant == ASSUME ~LossyCancel PROVE Spec => []LanguageInv
<1>1. Init => LanguageInv
  BY DEF Init, LanguageInv, NoTurn, Turns
<1>2. TypeOK /\ TaskInv /\ OnlyActiveRuns /\ ShapeInv /\ LanguageInv
        /\ [Next]_vars => LanguageInv'
  <2> SUFFICES ASSUME TypeOK, TaskInv, OnlyActiveRuns, ShapeInv, LanguageInv,
                      [Next]_vars
               PROVE  LanguageInv'
    OBVIOUS
  <2> USE DEF LanguageInv, Speaks
  <2>0. /\ NoTurn \notin Turns
        /\ at \in [Turns -> Points] /\ stage \in [Turns -> Stages]
        /\ path \in [Turns -> Paths]
    BY DEF TypeOK, Turns, NoTurn
  <2>1. CASE UNCHANGED vars
    BY <2>1
  <2>2. CASE ResetOrHome \/ CancelTurn
    BY <2>0, <2>2 DEF ResetOrHome, CancelTurn
  <2>3. CASE UserMessage \/ MicHeard \/ InactivityIntent
    <3>1. PICK b \in BOOLEAN : Schedule(b) /\ (b \/ lang # "none")
      BY <2>3 DEF UserMessage, MicHeard, InactivityIntent
    <3>2. \A t \in Turns : at[t] = "idle" => path[t] = "none" /\ stage[t] = "none"
      BY DEF TaskInv, TurnInv, Begun
    <3> QED
      BY <2>0, <3>1, <3>2 DEF Schedule
  <2>4. CASE LanguageGate \/ MicStart \/ MicFailed \/ SelectLanguage
             \/ LanguageRefused \/ RestoreLanguage \/ OtherMessage \/ LoopSend
    BY <2>4 DEF LanguageGate, MicStart, MicFailed, SelectLanguage,
         LanguageRefused, RestoreLanguage, OtherMessage, LoopSend
  <2>5. ASSUME NEW t \in Turns, ReplyNext(t) PROVE LanguageInv'
    <3>0. /\ t = active \/ Abort(t)
          /\ Shape(t)
          /\ t \in cancelled => t # active
      BY <2>5, RunnerIsActive DEF ShapeInv, TaskInv, TurnInv
    <3>1. CASE Begin(t)
      <4>1. t = active /\ (active' = active \/ active' = NoTurn) /\ loop' = loop
        BY <3>0, <3>1 DEF Begin, Running, Abort
      <4>2. lang' = lang
        BY <3>0, <3>1, <4>1 DEF Begin, Running, Localized, Shape
      <4>3. Speaks(t)' => lang # "none"
        BY <2>0, <3>0, <3>1, <4>1 DEF Begin, DirectReply, Goto, Shape
      <4> QED
        BY <2>0, <4>1, <4>2, <4>3
    <3>2. CASE Routed(t)
      <4>1. t = active /\ (active' = active \/ active' = NoTurn) /\ loop' = loop
        BY <3>0, <3>2 DEF Routed, Running, Abort
      <4>2. lang' = lang
        BY <3>0, <3>2, <4>1 DEF Routed, Running, Localized, Shape
      <4>3. Speaks(t)' => lang # "none"
        BY <2>0, <3>0, <3>2, <4>1 DEF Routed, Running, DirectReply, PipelineReply, Goto, Shape
      <4> QED
        BY <2>0, <4>1, <4>2, <4>3
    <3>3. CASE ThinkingSent(t)
      BY <2>0, <3>0, <3>3 DEF ThinkingSent, Running, DirectReply, PipelineReply, Goto, Shape
    <3>4. CASE Transmit(t)
      BY <2>0, <3>0, <3>4 DEF Transmit, Goto, Shape
    <3>5. CASE BusySent(t)
      BY <2>0, <3>0, <3>5 DEF BusySent, Running, GotoUnlessStale, Finish, Goto, Shape
    <3>6. CASE OpeningSent(t)
      BY <2>0, <3>0, <3>6 DEF OpeningSent, Running, Goto, Shape
    <3>7. CASE Localize(t)
      <4>1. t = active /\ (active' = active \/ active' = NoTurn) /\ loop' = loop
        BY <3>0, <3>7 DEF Localize, Finish, Abort
      <4>2. lang' = lang
        BY <3>0, <3>7, <4>1 DEF Localize, Running, Localized, Shape
      <4>3. Speaks(t)' => lang # "none"
        BY <2>0, <3>0, <3>7, <4>1 DEF Localize, Running, Finish, Goto, Shape
      <4> QED
        BY <2>0, <4>1, <4>2, <4>3
    <3>8. CASE Generated(t)
      BY <2>0, <3>0, <3>8 DEF Generated, Running, Goto, Shape
    <3>9. CASE Voiced(t)
      BY <2>0, <3>0, <3>9 DEF Voiced, Running, GotoUnlessStale, Finish, Goto, Shape
    <3>10. CASE InterimSent(t)
      BY <2>0, <3>0, <3>10 DEF InterimSent, Running, Goto, Shape
    <3>10s. CASE Stream(t)
      BY <2>0, <3>0, <3>10s DEF Stream, Running, Goto, Shape
    <3>11. CASE FinalSent(t)
      BY <2>0, <3>0, <3>11 DEF FinalSent, Running, Finish, Goto, Shape
    <3>12. CASE Fail(t)
      BY <2>0, <3>0, <3>12 DEF Fail, Goto, Shape
    <3>13. CASE ErrorSent(t)
      BY <2>0, <3>0, <3>13 DEF ErrorSent, Running, Finish, Goto, Shape
    <3>14. CASE Abort(t)
      BY <2>0, <3>0, <3>14 DEF Abort, Finish, Goto, Shape
    <3> QED
      BY <2>5, <3>1, <3>2, <3>3, <3>4, <3>5, <3>6, <3>7, <3>8, <3>9, <3>10, <3>10s, <3>11, <3>12, <3>13, <3>14 DEF ReplyNext
  <2>6. ASSUME NEW t \in Turns, SwallowCancel(t) PROVE FALSE
    BY <2>6 DEF SwallowCancel
  <2>7. ASSUME NEW t \in Turns, BridgeNext(t) PROVE LanguageInv'
    BY <2>7 DEF BridgeNext, BridgeStep, BridgeSend
  <2> QED
    BY <2>1, <2>2, <2>3, <2>4, <2>5, <2>6, <2>7 DEF Next, LoopNext
<1> QED
  BY <1>1, <1>2, TypeCorrect, TaskInvariant, ActiveTaskOnly, ShapeInvariant, PTL
     DEF Spec

\* The card of the current turn holds the freeze.
THEOREM FreezeInvariant == ASSUME ~LossyCancel PROVE Spec => []FreezeInv
<1>1. Init => FreezeInv
  BY DEF Init, FreezeInv, NoTurn, Turns
<1>2. TypeOK /\ TaskInv /\ OnlyActiveRuns /\ ShapeInv /\ FreezeInv
        /\ [Next]_vars => FreezeInv'
  <2> SUFFICES ASSUME TypeOK, TaskInv, OnlyActiveRuns, ShapeInv, FreezeInv,
                      [Next]_vars
               PROVE  FreezeInv'
    OBVIOUS
  <2> USE DEF FreezeInv
  <2>0. /\ NoTurn \notin Turns
        /\ stage \in [Turns -> Stages] /\ path \in [Turns -> Paths]
    BY DEF TypeOK, Turns, NoTurn
  <2>1. CASE UNCHANGED <<active, stage, path, frozen>>
    BY <2>1
  <2>2. CASE ResetOrHome \/ CancelTurn
    BY <2>0, <2>2 DEF ResetOrHome, CancelTurn
  <2>3. ASSUME NEW b \in BOOLEAN, Schedule(b) PROVE FreezeInv'
    <3>1. \A t \in Turns : at[t] = "idle" => path[t] = "none"
      BY DEF TaskInv, TurnInv, Begun
    <3> QED
      BY <2>0, <2>3, <3>1 DEF Schedule
  <2>4. ASSUME NEW t \in Turns, ReplyNext(t) PROVE FreezeInv'
    <3>0. /\ t = active \/ Abort(t)
          /\ Shape(t)
          /\ t \in cancelled => t # active
          /\ at[t] = "created" => path[t] = "none"
      BY <2>4, RunnerIsActive DEF ShapeInv, TaskInv, TurnInv, Begun
    <3>1. CASE Begin(t)
      <4>1. t = active /\ active' \in {t, NoTurn}
        BY <3>0, <3>1 DEF Begin, DirectReply, Goto, Abort
      <4>2. path'[t] = "card" /\ stage'[t] # "error" => frozen'
        BY <2>0, <3>0, <3>1, <4>1 DEF Begin, DirectReply, Goto, Shape
      <4> QED
        BY <2>0, <4>1, <4>2
    <3>2. CASE Routed(t)
      <4>1. t = active /\ active' \in {t, NoTurn}
        BY <3>0, <3>2 DEF Routed, Running, DirectReply, PipelineReply, Goto, Abort
      <4>2. path'[t] = "card" /\ stage'[t] # "error" => frozen'
        BY <2>0, <3>0, <3>2, <4>1 DEF Routed, Running, DirectReply, PipelineReply, Goto, Shape
      <4> QED
        BY <2>0, <4>1, <4>2
    <3>3. CASE ThinkingSent(t)
      <4>1. t = active /\ active' \in {t, NoTurn}
        BY <3>0, <3>3 DEF ThinkingSent, Running, DirectReply, PipelineReply, Goto, Abort
      <4>2. path'[t] = "card" /\ stage'[t] # "error" => frozen'
        BY <2>0, <3>0, <3>3, <4>1 DEF ThinkingSent, Running, DirectReply, PipelineReply, Goto, Shape
      <4> QED
        BY <2>0, <4>1, <4>2
    <3>4. CASE Transmit(t)
      <4>1. t = active /\ active' \in {t, NoTurn}
        BY <3>0, <3>4 DEF Transmit, Goto, Abort
      <4>2. path'[t] = "card" /\ stage'[t] # "error" => frozen'
        BY <2>0, <3>0, <3>4, <4>1 DEF Transmit, Goto, Shape
      <4> QED
        BY <2>0, <4>1, <4>2
    <3>5. CASE BusySent(t)
      <4>1. t = active /\ active' \in {t, NoTurn}
        BY <3>0, <3>5 DEF BusySent, Running, GotoUnlessStale, Finish, Goto, Abort
      <4>2. path'[t] = "card" /\ stage'[t] # "error" => frozen'
        BY <2>0, <3>0, <3>5, <4>1 DEF BusySent, Running, GotoUnlessStale, Finish, Goto, Shape
      <4> QED
        BY <2>0, <4>1, <4>2
    <3>6. CASE OpeningSent(t)
      <4>1. t = active /\ active' \in {t, NoTurn}
        BY <3>0, <3>6 DEF OpeningSent, Running, Goto, Abort
      <4>2. path'[t] = "card" /\ stage'[t] # "error" => frozen'
        BY <2>0, <3>0, <3>6, <4>1 DEF OpeningSent, Running, Goto, Shape
      <4> QED
        BY <2>0, <4>1, <4>2
    <3>7. CASE Localize(t)
      <4>1. t = active /\ active' \in {t, NoTurn}
        BY <3>0, <3>7 DEF Localize, Running, Finish, Goto, Abort
      <4>2. path'[t] = "card" /\ stage'[t] # "error" => frozen'
        BY <2>0, <3>0, <3>7, <4>1 DEF Localize, Running, Finish, Goto, Shape
      <4> QED
        BY <2>0, <4>1, <4>2
    <3>8. CASE Generated(t)
      <4>1. t = active /\ active' \in {t, NoTurn}
        BY <3>0, <3>8 DEF Generated, Running, Goto, Abort
      <4>2. path'[t] = "card" /\ stage'[t] # "error" => frozen'
        BY <2>0, <3>0, <3>8, <4>1 DEF Generated, Running, Goto, Shape
      <4> QED
        BY <2>0, <4>1, <4>2
    <3>9. CASE Voiced(t)
      <4>1. t = active /\ active' \in {t, NoTurn}
        BY <3>0, <3>9 DEF Voiced, Running, GotoUnlessStale, Finish, Goto, Abort
      <4>2. path'[t] = "card" /\ stage'[t] # "error" => frozen'
        BY <2>0, <3>0, <3>9, <4>1 DEF Voiced, Running, GotoUnlessStale, Finish, Goto, Shape
      <4> QED
        BY <2>0, <4>1, <4>2
    <3>10. CASE InterimSent(t)
      <4>1. t = active /\ active' \in {t, NoTurn}
        BY <3>0, <3>10 DEF InterimSent, Running, Goto, Abort
      <4>2. path'[t] = "card" /\ stage'[t] # "error" => frozen'
        BY <2>0, <3>0, <3>10, <4>1 DEF InterimSent, Running, Goto, Shape
      <4> QED
        BY <2>0, <4>1, <4>2
    <3>10s. CASE Stream(t)
      <4>1. t = active /\ active' \in {t, NoTurn}
        BY <3>0, <3>10s DEF Stream, Running, Goto, Abort
      <4>2. path'[t] = "card" /\ stage'[t] # "error" => frozen'
        BY <2>0, <3>0, <3>10s, <4>1 DEF Stream, Running, Goto, Shape
      <4> QED
        BY <2>0, <4>1, <4>2
    <3>11. CASE FinalSent(t)
      <4>1. t = active /\ active' \in {t, NoTurn}
        BY <3>0, <3>11 DEF FinalSent, Running, Finish, Goto, Abort
      <4>2. path'[t] = "card" /\ stage'[t] # "error" => frozen'
        BY <2>0, <3>0, <3>11, <4>1 DEF FinalSent, Running, Finish, Goto, Shape
      <4> QED
        BY <2>0, <4>1, <4>2
    <3>12. CASE Fail(t)
      <4>1. t = active /\ active' \in {t, NoTurn}
        BY <3>0, <3>12 DEF Fail, Goto, Abort
      <4>2. path'[t] = "card" /\ stage'[t] # "error" => frozen'
        BY <2>0, <3>0, <3>12, <4>1 DEF Fail, Goto, Shape
      <4> QED
        BY <2>0, <4>1, <4>2
    <3>13. CASE ErrorSent(t)
      <4>1. t = active /\ active' \in {t, NoTurn}
        BY <3>0, <3>13 DEF ErrorSent, Running, Finish, Goto, Abort
      <4>2. path'[t] = "card" /\ stage'[t] # "error" => frozen'
        BY <2>0, <3>0, <3>13, <4>1 DEF ErrorSent, Running, Finish, Goto, Shape
      <4> QED
        BY <2>0, <4>1, <4>2
    <3>14. CASE Abort(t)
      BY <2>0, <3>0, <3>14 DEF Abort, Finish, Goto
    <3> QED
      BY <2>4, <3>1, <3>2, <3>3, <3>4, <3>5, <3>6, <3>7, <3>8, <3>9, <3>10, <3>10s, <3>11, <3>12, <3>13, <3>14 DEF ReplyNext
  <2>5. ASSUME NEW t \in Turns, SwallowCancel(t) PROVE FALSE
    BY <2>5 DEF SwallowCancel
  <2>6. CASE LanguageGate \/ MicStart \/ MicFailed \/ SelectLanguage
             \/ LanguageRefused \/ RestoreLanguage \/ OtherMessage \/ LoopSend
    BY <2>1, <2>6 DEF LanguageGate, MicStart, MicFailed, SelectLanguage,
         LanguageRefused, RestoreLanguage, OtherMessage, LoopSend
  <2>7. ASSUME NEW t \in Turns, BridgeNext(t) PROVE FreezeInv'
    BY <2>1, <2>7 DEF BridgeNext, BridgeStep, BridgeSend
  <2>8. CASE UNCHANGED vars
    BY <2>1, <2>8
  <2> QED
    BY <2>2, <2>3, <2>4, <2>5, <2>6, <2>7, <2>8, Scheduled DEF Next, LoopNext
<1> QED
  BY <1>1, <1>2, TypeCorrect, TaskInvariant, ActiveTaskOnly, ShapeInvariant, PTL
     DEF Spec

\* What the connection remembers belongs to the present visit.
THEOREM VisitInvariant == ASSUME ~LossyCancel PROVE Spec => []VisitInv
<1>1. Init => VisitInv
  BY DEF Init, VisitInv
<1>2. TypeOK /\ TaskInv /\ OnlyActiveRuns /\ VisitInv /\ [Next]_vars
        => VisitInv'
  <2> SUFFICES ASSUME TypeOK, TaskInv, OnlyActiveRuns, VisitInv, [Next]_vars
               PROVE  VisitInv'
    OBVIOUS
  <2> USE DEF VisitInv, Known
  <2>0. /\ NoTurn \notin Turns
        /\ active \in Turns \cup {NoTurn} /\ pending \in Turns \cup {NoTurn}
        /\ at \in [Turns -> Points] /\ born \in [Turns -> 0 .. MaxGen]
        /\ history \in Seq(Pair) /\ transcript \subseteq Turns
    BY DEF TypeOK, Turns, NoTurn
  <2>a. \A i \in DOMAIN history : history[i].user \in Turns /\ history[i].reply \in Turns
    <3> SUFFICES ASSUME NEW i \in DOMAIN history
                 PROVE  history[i].user \in Turns /\ history[i].reply \in Turns
      OBVIOUS
    <3>1. history[i] \in Pair
      BY <2>0
    <3> QED
      BY <3>1 DEF Pair
  <2>1. CASE ResetOrHome
    BY <2>0, <2>1 DEF ResetOrHome
  <2>2. CASE CancelTurn
    BY <2>0, <2>2 DEF CancelTurn
  <2>3. ASSUME NEW b \in BOOLEAN, Schedule(b) PROVE VisitInv'
    BY <2>0, <2>a, <2>3 DEF Schedule
  <2>4. CASE LanguageGate \/ MicStart \/ MicFailed \/ SelectLanguage
             \/ LanguageRefused \/ RestoreLanguage \/ OtherMessage \/ LoopSend
    BY <2>4 DEF LanguageGate, MicStart, MicFailed, SelectLanguage,
         LanguageRefused, RestoreLanguage, OtherMessage, LoopSend
  <2>5. ASSUME NEW t \in Turns, ReplyNext(t), t = active PROVE VisitInv'
    <3>1. /\ UNCHANGED <<visit, born>>
          /\ active' \in {active, NoTurn}
          /\ \A v \in Turns : Known(v) => Known(v)'
      <4>0. at[t] \in Points
        BY <2>0
      <4>1. CASE Begin(t)
        BY <2>0, <4>1 DEF Begin, DirectReply, Goto
      <4>2. CASE Routed(t)
        BY <2>0, <4>2 DEF Routed, Running, DirectReply, PipelineReply, Goto
      <4>3. CASE ThinkingSent(t)
        BY <2>0, <4>3 DEF ThinkingSent, Running, DirectReply, PipelineReply, Goto
      <4>4. CASE Transmit(t)
        BY <2>0, <4>4 DEF Transmit, Goto
      <4>5. CASE BusySent(t)
        BY <2>0, <4>5 DEF BusySent, Running, GotoUnlessStale, Finish, Goto
      <4>6. CASE OpeningSent(t)
        BY <2>0, <4>6 DEF OpeningSent, Running, Goto
      <4>7. CASE Localize(t)
        BY <2>0, <4>7 DEF Localize, Running, Finish, Goto
      <4>8. CASE Generated(t)
        BY <2>0, <4>8 DEF Generated, Running, Goto
      <4>9. CASE Voiced(t)
        BY <2>0, <4>9 DEF Voiced, Running, GotoUnlessStale, Finish, Goto
      <4>10. CASE InterimSent(t)
        BY <2>0, <4>10 DEF InterimSent, Running, Goto
      <4>10s. CASE Stream(t)
        BY <2>0, <4>10s DEF Stream, Running, Goto
      <4>11. CASE FinalSent(t)
        BY <2>0, <4>11 DEF FinalSent, Running, Finish, Goto
      <4>12. CASE Fail(t)
        BY <2>0, <4>12 DEF Fail, Goto
      <4>13. CASE ErrorSent(t)
        BY <2>0, <4>13 DEF ErrorSent, Running, Finish, Goto
      <4>14. CASE Abort(t)
        BY <2>0, <4>14 DEF Abort, Finish, Goto
      <4> QED
        BY <2>5, <4>1, <4>2, <4>3, <4>4, <4>5, <4>6, <4>7, <4>8, <4>9, <4>10, <4>10s, <4>11, <4>12, <4>13, <4>14 DEF ReplyNext
    <3>2. Known(t) /\ Known(t)'
      BY <2>0, <2>5, <3>1
    <3>3. /\ pending' \in {pending, t, NoTurn}
          /\ transcript' \subseteq transcript \cup {t}
          /\ \/ history' = history
             \/ \E user \in {pending, t} : history' = Recorded(user, t)
      <4>1. CASE Begin(t)
        BY <4>1 DEF Begin, DirectReply
      <4>2. CASE Routed(t)
        BY <4>2 DEF Routed, DirectReply, PipelineReply
      <4>3. CASE ThinkingSent(t)
        BY <4>3 DEF ThinkingSent, DirectReply, PipelineReply
      <4>4. CASE Transmit(t)
        BY <4>4 DEF Transmit
      <4>5. CASE BusySent(t)
        BY <4>5 DEF BusySent
      <4>6. CASE OpeningSent(t)
        BY <4>6 DEF OpeningSent
      <4>7. CASE Localize(t)
        BY <4>7 DEF Localize
      <4>8. CASE Generated(t)
        BY <4>8 DEF Generated
      <4>9. CASE Voiced(t)
        BY <4>9 DEF Voiced
      <4>10. CASE InterimSent(t)
        BY <4>10 DEF InterimSent
      <4>10s. CASE Stream(t)
        BY <4>10s DEF Stream
      <4>11. CASE FinalSent(t)
        BY <4>11 DEF FinalSent
      <4>12. CASE Fail(t)
        BY <4>12 DEF Fail
      <4>13. CASE ErrorSent(t)
        BY <4>13 DEF ErrorSent
      <4>14. CASE Abort(t)
        BY <4>14 DEF Abort
      <4> QED
        BY <2>5, <4>1, <4>2, <4>3, <4>4, <4>5, <4>6, <4>7, <4>8, <4>9, <4>10, <4>10s, <4>11, <4>12, <4>13, <4>14 DEF ReplyNext
    <3>4. ASSUME NEW i \in DOMAIN history'
          PROVE  (Known(history[i].user) /\ Known(history[i].reply))'
      <4>1. CASE history' = history
        BY <2>a, <3>1, <4>1
      <4>2. ASSUME NEW user \in {pending, t}, history' = Recorded(user, t)
            PROVE  (Known(history[i].user) /\ Known(history[i].reply))'
        <5>1. \/ \E j \in DOMAIN history : history'[i] = history[j]
              \/ user # NoTurn /\ history'[i] = [user |-> user, reply |-> t]
          BY <2>0, <4>2, RecordedPairs
        <5>2. user # NoTurn => user \in Turns /\ Known(user)'
          BY <2>0, <3>1, <3>2
        <5> QED
          BY <2>a, <3>1, <3>2, <5>1, <5>2
      <4> QED
        BY <3>3, <4>1, <4>2
    <3> QED
      BY <2>0, <3>1, <3>2, <3>3, <3>4
  <2>6. ASSUME NEW t \in Turns, Abort(t) PROVE VisitInv'
    BY <2>0, <2>a, <2>6 DEF Abort, Finish, Goto, Live
  <2>7. ASSUME NEW t \in Turns, SwallowCancel(t) PROVE FALSE
    BY <2>7 DEF SwallowCancel
  <2>8. ASSUME NEW t \in Turns, BridgeNext(t) PROVE VisitInv'
    BY <2>8 DEF BridgeNext, BridgeStep, BridgeSend
  <2>9. CASE UNCHANGED vars
    BY <2>9
  <2> QED
    BY <2>1, <2>2, <2>3, <2>4, <2>5, <2>6, <2>7, <2>8, <2>9, Scheduled,
       RunnerIsActive DEF Next, LoopNext
<1> QED
  BY <1>1, <1>2, TypeCorrect, TaskInvariant, ActiveTaskOnly, PTL DEF Spec

-----------------------------------------------------------------------------
(* The properties of the session that the runs check.                       *)

\* The language under a presented card is frozen and chosen.
THEOREM CardLanguageLocked == ASSUME ~LossyCancel PROVE Spec => []PresentationLocked
<1>1. TaskInv /\ FreezeInv /\ LanguageInv => PresentationLocked
  BY DEF TaskInv, TurnInv, FreezeInv, LanguageInv, Speaks, PresentationLocked,
         Presenting, Live, Begun, Stale
<1> QED
  BY <1>1, TaskInvariant, FreezeInvariant, LanguageInvariant, PTL

\* Nothing of an earlier visitor reaches the memory of the present one.
THEOREM NothingCarriesOver == ASSUME ~LossyCancel PROVE Spec => []MemoryOfThisVisit
<1>1. VisitInv => MemoryOfThisVisit
  BY DEF VisitInv, Known, MemoryOfThisVisit
<1> QED
  BY <1>1, VisitInvariant, PTL

\* The language is never the default one.
THEOREM LanguageIsAChoice == ASSUME ~LossyCancel PROVE Spec => []LanguageChosen
<1>1. LanguageInv => LanguageChosen
  BY DEF LanguageInv, LanguageChosen
<1> QED
  BY <1>1, LanguageInvariant, PTL

\* A reply frame is stamped with the generation of its own turn.
THEOREM StampIsOwn == ASSUME ~LossyCancel PROVE Spec => []ReplyFramesFresh
<1>1. Init => ReplyFramesFresh
  BY DEF Init, ReplyFramesFresh, Silence
<1>2. TypeOK /\ TaskInv /\ OnlyActiveRuns /\ ReplyFramesFresh /\ [Next]_vars
        => ReplyFramesFresh'
  <2> SUFFICES ASSUME TypeOK, TaskInv, OnlyActiveRuns, ReplyFramesFresh,
                      [Next]_vars
               PROVE  ReplyFramesFresh'
    OBVIOUS
  <2>1. ASSUME NEW t \in Turns, Transmit(t) PROVE ReplyFramesFresh'
    BY <2>1, RunnerIsActive
       DEF Transmit, ReplyFramesFresh, OnlyActiveRuns, TaskInv, TurnInv, Live,
           Begun
  <2>2. CASE wire' = Silence
    BY <2>2 DEF ReplyFramesFresh, Silence
  <2>3. CASE wire'.by # "reply"
    BY <2>3 DEF ReplyFramesFresh
  <2>4. CASE UNCHANGED vars
    BY <2>4 DEF ReplyFramesFresh
  <2>5. CASE LoopNext
    BY <2>2, <2>3, <2>5
       DEF LoopNext, Silent, ResetOrHome, CancelTurn, UserMessage,
           InactivityIntent, MicHeard, Schedule, LanguageGate, MicStart, MicFailed, SelectLanguage,
         LanguageRefused, RestoreLanguage, OtherMessage, LoopSend
  <2>6. ASSUME NEW t \in Turns, ReplyNext(t) PROVE Transmit(t) \/ wire' = Silence
    BY <2>6
       DEF ReplyNext, Silent, Begin, Routed, ThinkingSent, BusySent, OpeningSent,
           Localize, Stream, Generated, Voiced, InterimSent, FinalSent, Fail, ErrorSent,
           Abort
  <2>7. ASSUME NEW t \in Turns, SwallowCancel(t) \/ BridgeNext(t)
        PROVE  ReplyFramesFresh'
    BY <2>2, <2>3, <2>7
       DEF SwallowCancel, Silent, BridgeNext, BridgeStep, BridgeSend
  <2> QED
    BY <2>1, <2>2, <2>4, <2>5, <2>6, <2>7 DEF Next
<1> QED
  BY <1>1, <1>2, TypeCorrect, TaskInvariant, ActiveTaskOnly, PTL DEF Spec
=============================================================================
