-------------------------- MODULE SpeechCache_proofs --------------------------
(***************************************************************************)
(* The lock keeps what it promises, and the cache implements the service,  *)
(* for any callers, keys and capacity.                                     *)
(*                                                                         *)
(* OneCallPerKey and NoNeedlessCall follow from LockInv: who calls the     *)
(* provider holds the lock of its key, so nobody else can store under that *)
(* key or free the lock meanwhile.  The refinement needs what the cache    *)
(* holds (CacheInv) and who has come to the fallback (FallbackInv).        *)
(***************************************************************************)
EXTENDS SpeechCache, TLAPS

USE SpeechAssumption

LockInv == \A c \in Callers : Calling(c) => holder[wants[c]] = c

CacheInv == \A k \in Keys : cache[k] # "absent" => cache[k] = "own" /\ k \in voiced

FallbackInv == \A c \in Callers : pc[c] = "fallback" => MayFallBack(c)

IInv == TypeOK /\ LockInv /\ NoNeedlessCall /\ CacheInv /\ FallbackInv

-----------------------------------------------------------------------------
\* What an update of the cache leaves behind: the new entry, and otherwise nothing
\* that was not there before.
LEMMA StoreFacts ==
    ASSUME TypeOK, NEW k \in Keys, NEW a \in {"own", "english"}, Store(k, a)
    PROVE  /\ cache' \in [Keys -> {"absent", "own", "english"}]
           /\ cache'[k] = a
           /\ \A j \in Keys \ {k} : cache'[j] \in {cache[j], "absent"}
<1>1. cache \in [Keys -> {"absent", "own", "english"}]
  BY DEF TypeOK
<1>2. CASE cache' = [cache EXCEPT ![k] = a]
  BY <1>1, <1>2
<1>3. ASSUME NEW old \in Entries \ {k},
             cache' = [cache EXCEPT ![k] = a, ![old] = "absent"]
      PROVE  /\ cache' \in [Keys -> {"absent", "own", "english"}]
             /\ cache'[k] = a
             /\ \A j \in Keys \ {k} : cache'[j] \in {cache[j], "absent"}
  BY <1>1, <1>3 DEF Entries
<1> QED
  BY <1>2, <1>3 DEF Store

LEMMA MissFacts ==
    ASSUME TypeOK, NEW k \in Keys, Missed(k)
    PROVE  /\ cache' \in [Keys -> {"absent", "own", "english"}]
           /\ cache'[k] = "absent"
           /\ \A j \in Keys \ {k} : cache'[j] = cache[j]
BY DEF TypeOK, Missed

\* Waiting in line, and leaving it, keeps the queues well typed.
LEMMA QueueTypes ==
    ASSUME queue \in [Keys -> Seq(Callers)], NEW c \in Callers, NEW k \in Keys
    PROVE  /\ [queue EXCEPT ![k] = Append(queue[k], c)] \in [Keys -> Seq(Callers)]
           /\ queue[k] # <<>> =>
                  [queue EXCEPT ![k] = Tail(queue[k])] \in [Keys -> Seq(Callers)]
<1>1. queue[k] \in Seq(Callers)
  OBVIOUS
<1>2. Append(queue[k], c) \in Seq(Callers)
  BY <1>1
<1>3. queue[k] # <<>> => Tail(queue[k]) \in Seq(Callers)
  BY <1>1
<1> QED
  BY <1>2, <1>3

LEMMA LeaveType ==
    ASSUME queue \in [Keys -> Seq(Callers)], NEW c \in Callers, wants[c] \in Keys,
           Leave(c)
    PROVE  queue' \in [Keys -> Seq(Callers)]
<1> DEFINE q == queue[wants[c]]
<1>1. PICK i \in DOMAIN q :
         queue' = [queue EXCEPT ![wants[c]] = RemoveAt(q, i)]
  BY DEF Leave
<1>2. q \in Seq(Callers) /\ i \in 1 .. Len(q)
  BY <1>1
<1>3. /\ SubSeq(q, 1, i - 1) \in Seq(Callers)
      /\ SubSeq(q, i + 1, Len(q)) \in Seq(Callers)
  BY <1>2
<1>4. RemoveAt(q, i) \in Seq(Callers)
  BY <1>3 DEF RemoveAt
<1> QED
  BY <1>1, <1>4

-----------------------------------------------------------------------------
(* The ways an action can go, one by one *)

\* What a request does whatever it meets.
Asks(c, k) ==
    /\ pc[c] = "idle"
    /\ wants' = [wants EXCEPT ![c] = k]
    /\ lenient' \in {lenient \ {c}, lenient \cup {c}}
    /\ voiced' = voiced

AskHit(c, k) ==
    /\ Asks(c, k)
    /\ cache[k] # "absent"
    /\ answer' = [answer EXCEPT ![c] = cache[k]]
    /\ UNCHANGED <<pc, cache, holder, queue>>

AskFree(c, k) ==
    /\ Asks(c, k)
    /\ Missed(k)
    /\ holder[k] = Nobody
    /\ answer' = [answer EXCEPT ![c] = "none"]
    /\ pc' = [pc EXCEPT ![c] = "own"]
    /\ holder' = [holder EXCEPT ![k] = c]
    /\ queue' = queue

AskWait(c, k) ==
    /\ Asks(c, k)
    /\ Missed(k)
    /\ answer' = [answer EXCEPT ![c] = "none"]
    /\ pc' = [pc EXCEPT ![c] = "waiting"]
    /\ queue' = [queue EXCEPT ![k] = Append(queue[k], c)]
    /\ holder' = holder

LEMMA RequestCases ==
    ASSUME NEW c \in Callers, Request(c)
    PROVE  \E k \in Keys : AskHit(c, k) \/ AskFree(c, k) \/ AskWait(c, k)
<1>1. PICK k \in Keys, lenience \in {{}, {c}} :
         /\ wants' = [wants EXCEPT ![c] = k]
         /\ lenient' = (lenient \ {c}) \cup lenience
         /\ \/ /\ cache[k] # "absent"
               /\ answer' = [answer EXCEPT ![c] = cache[k]]
               /\ UNCHANGED <<pc, cache, lock>>
            \/ /\ Missed(k)
               /\ answer' = [answer EXCEPT ![c] = "none"]
               /\ IF Free(k)
                  THEN /\ pc' = [pc EXCEPT ![c] = "own"]
                       /\ holder' = [holder EXCEPT ![k] = c]
                       /\ UNCHANGED queue
                  ELSE /\ pc' = [pc EXCEPT ![c] = "waiting"]
                       /\ queue' = [queue EXCEPT ![k] = Append(queue[k], c)]
                       /\ UNCHANGED holder
  BY DEF Request
<1>2. Asks(c, k)
  <2>1. lenient' \in {lenient \ {c}, lenient \cup {c}}
    BY <1>1
  <2> QED
    BY <1>1, <2>1 DEF Request, Asks
<1> QED
  BY <1>1, <1>2 DEF AskHit, AskFree, AskWait, Free, lock

EnterHit(c) ==
    /\ cache[wants[c]] # "absent"
    /\ pc' = [pc EXCEPT ![c] = "idle"]
    /\ answer' = [answer EXCEPT ![c] = cache[wants[c]]]
    /\ UNCHANGED <<cache, holder>>

EnterMiss(c) ==
    /\ Missed(wants[c])
    /\ holder[wants[c]] = Nobody
    /\ pc' = [pc EXCEPT ![c] = "own"]
    /\ holder' = [holder EXCEPT ![wants[c]] = c]
    /\ answer' = answer

LEMMA EnterCases ==
    ASSUME NEW c \in Callers, Enter(c)
    PROVE  /\ pc[c] = "waiting"
           /\ queue[wants[c]] # <<>>
           /\ queue' = [queue EXCEPT ![wants[c]] = Tail(queue[wants[c]])]
           /\ wants' = wants /\ lenient' = lenient /\ voiced' = voiced
           /\ EnterHit(c) \/ EnterMiss(c)
BY DEF Enter, EnterHit, EnterMiss, request

\* What the caller does that holds the lock when it lets go of it, with or without
\* an entry for the cache.
Voiced(c) ==
    /\ pc[c] = "own"
    /\ Store(wants[c], "own")
    /\ voiced' = voiced \cup {wants[c]}
    /\ Finish(c, "own")

TurnsToEnglish(c) ==
    /\ pc[c] = "own"
    /\ MayFallBack(c)
    /\ pc' = [pc EXCEPT ![c] = "fallback"]
    /\ UNCHANGED <<answer, cache, holder, voiced>>

Ends(c, a) ==
    /\ Calling(c)
    /\ Finish(c, a)
    /\ UNCHANGED <<cache, voiced>>

LEMMA CallCases ==
    ASSUME NEW c \in Callers,
           Own(c) \/ Fallback(c) \/ (Cancel(c) /\ pc[c] # "waiting")
    PROVE  /\ wants' = wants /\ lenient' = lenient /\ queue' = queue
           /\ \/ Voiced(c)
              \/ TurnsToEnglish(c)
              \/ Ends(c, "none")
              \/ Ends(c, "english") /\ pc[c] = "fallback"
<1>1. CASE Own(c)
  BY <1>1 DEF Own, Voiced, TurnsToEnglish, Ends, Calling, request
<1>2. CASE Fallback(c)
  BY <1>2 DEF Fallback, Ends, Calling, request
<1>3. CASE Cancel(c) /\ pc[c] # "waiting"
  BY <1>3 DEF Cancel, Ends, Calling, request
<1> QED
  BY <1>1, <1>2, <1>3

\* A caller that gives up in the queue.
LeavesQueue(c) ==
    /\ pc[c] = "waiting"
    /\ pc' = [pc EXCEPT ![c] = "idle"]
    /\ answer' = [answer EXCEPT ![c] = "none"]
    /\ Leave(c)
    /\ UNCHANGED <<wants, lenient, cache, voiced, holder>>

LEMMA CancelCases ==
    ASSUME NEW c \in Callers, Cancel(c), pc[c] = "waiting"
    PROVE  LeavesQueue(c)
BY DEF Cancel, LeavesQueue, request

Step(c) == Request(c) \/ Enter(c) \/ Own(c) \/ Fallback(c) \/ Cancel(c)

-----------------------------------------------------------------------------
LEMMA InitInv == Init => IInv
<1> SUFFICES ASSUME Init PROVE IInv
  OBVIOUS
<1>1. TypeOK
  BY DEF Init, TypeOK
<1>2. LockInv /\ NoNeedlessCall /\ CacheInv /\ FallbackInv
  BY DEF Init, LockInv, NoNeedlessCall, CacheInv, FallbackInv, Calling
<1> QED
  BY <1>1, <1>2 DEF IInv

\* One step of a caller keeps the types.
LEMMA TypeStep ==
    ASSUME TypeOK, NEW c \in Callers, Step(c)
    PROVE  TypeOK'
<1>0. /\ queue \in [Keys -> Seq(Callers)]
      /\ wants[c] \in Keys
  BY DEF TypeOK
<1>1. CASE Request(c)
  <2>1. PICK k \in Keys : AskHit(c, k) \/ AskFree(c, k) \/ AskWait(c, k)
    BY <1>1, RequestCases
  <2>2. /\ wants' \in [Callers -> Keys]
        /\ lenient' \subseteq Callers
        /\ voiced' \subseteq Keys
    BY <2>1 DEF AskHit, AskFree, AskWait, Asks, TypeOK
  <2>3. CASE AskHit(c, k)
    BY <2>2, <2>3 DEF AskHit, TypeOK
  <2>4. CASE AskFree(c, k)
    <3>1. cache' \in [Keys -> {"absent", "own", "english"}]
      BY <2>4, MissFacts DEF AskFree
    <3> QED
      BY <2>2, <2>4, <3>1 DEF AskFree, TypeOK
  <2>5. CASE AskWait(c, k)
    <3>1. cache' \in [Keys -> {"absent", "own", "english"}]
      BY <2>5, MissFacts DEF AskWait
    <3>2. queue' \in [Keys -> Seq(Callers)]
      BY <1>0, <2>5, QueueTypes DEF AskWait
    <3> QED
      BY <2>2, <2>5, <3>1, <3>2 DEF AskWait, TypeOK
  <2> QED
    BY <2>1, <2>3, <2>4, <2>5
<1>2. CASE Enter(c)
  <2>0. /\ queue[wants[c]] # <<>>
        /\ queue' = [queue EXCEPT ![wants[c]] = Tail(queue[wants[c]])]
    BY <1>2, EnterCases
  <2>1. queue' \in [Keys -> Seq(Callers)]
    BY <1>0, <2>0, QueueTypes
  <2>2. CASE EnterHit(c)
    BY <1>0, <1>2, <2>1, <2>2, EnterCases DEF EnterHit, TypeOK
  <2>3. CASE EnterMiss(c)
    <3>1. cache' \in [Keys -> {"absent", "own", "english"}]
      BY <1>0, <2>3, MissFacts DEF EnterMiss
    <3> QED
      BY <1>0, <1>2, <2>1, <2>3, <3>1, EnterCases DEF EnterMiss, TypeOK
  <2> QED
    BY <1>2, <2>2, <2>3, EnterCases
<1>3. CASE Own(c) \/ Fallback(c) \/ (Cancel(c) /\ pc[c] # "waiting")
  <2>1. wants' = wants /\ lenient' = lenient /\ queue' = queue
    BY <1>3, CallCases
  <2>2. CASE Voiced(c)
    <3>1. cache' \in [Keys -> {"absent", "own", "english"}]
      BY <1>0, <2>2, StoreFacts DEF Voiced
    <3> QED
      BY <1>0, <2>1, <2>2, <3>1 DEF Voiced, Finish, TypeOK
  <2>3. CASE TurnsToEnglish(c)
    BY <2>1, <2>3 DEF TurnsToEnglish, TypeOK
  <2>4. ASSUME NEW a \in {"none", "english"}, Ends(c, a)
        PROVE  TypeOK'
    BY <1>0, <2>1, <2>4 DEF Ends, Finish, TypeOK
  <2> QED
    BY <1>3, <2>2, <2>3, <2>4, CallCases
<1>4. CASE Cancel(c) /\ pc[c] = "waiting"
  <2>1. LeavesQueue(c)
    BY <1>4, CancelCases
  <2>2. queue' \in [Keys -> Seq(Callers)]
    BY <1>0, <2>1, LeaveType DEF LeavesQueue
  <2> QED
    BY <2>1, <2>2 DEF LeavesQueue, TypeOK
<1> QED
  BY <1>1, <1>2, <1>3, <1>4 DEF Step

-----------------------------------------------------------------------------
\* Who calls the provider holds the lock: a lock is only taken when it is free, and
\* only its holder lets go of it.
LEMMA LockStep ==
    ASSUME TypeOK, LockInv, NEW c \in Callers, Step(c)
    PROVE  LockInv'
<1> SUFFICES ASSUME NEW d \in Callers, Calling(d)'
             PROVE  holder'[wants'[d]] = d
  BY DEF LockInv, Calling
<1>0. /\ pc \in [Callers -> {"idle", "waiting", "own", "fallback"}]
      /\ wants \in [Callers -> Keys]
      /\ holder \in [Keys -> Callers \cup {Nobody}]
      /\ Calling(d) => holder[wants[d]] = d
      /\ Calling(c) => holder[wants[c]] = c
  BY DEF TypeOK, LockInv
<1>1. CASE Request(c)
  <2>1. PICK k \in Keys : AskHit(c, k) \/ AskFree(c, k) \/ AskWait(c, k)
    BY <1>1, RequestCases
  <2>2. CASE AskHit(c, k)
    BY <1>0, <2>2 DEF AskHit, Asks, Calling
  <2>3. CASE AskFree(c, k)
    BY <1>0, <2>3 DEF AskFree, Asks, Calling
  <2>4. CASE AskWait(c, k)
    BY <1>0, <2>4 DEF AskWait, Asks, Calling
  <2> QED
    BY <2>1, <2>2, <2>3, <2>4
<1>2. CASE Enter(c)
  <2>1. /\ pc[c] = "waiting"
        /\ wants' = wants
        /\ EnterHit(c) \/ EnterMiss(c)
    BY <1>2, EnterCases
  <2> QED
    BY <1>0, <2>1 DEF EnterHit, EnterMiss, Calling
<1>3. CASE Own(c) \/ Fallback(c) \/ (Cancel(c) /\ pc[c] # "waiting")
  <2>1. wants' = wants
    BY <1>3, CallCases
  <2>2. CASE Voiced(c)
    BY <1>0, <2>1, <2>2 DEF Voiced, Finish, Calling
  <2>3. CASE TurnsToEnglish(c)
    BY <1>0, <2>1, <2>3 DEF TurnsToEnglish, Calling
  <2>4. ASSUME NEW a \in {"none", "english"}, Ends(c, a)
        PROVE  holder'[wants'[d]] = d
    BY <1>0, <2>1, <2>4 DEF Ends, Finish, Calling
  <2> QED
    BY <1>3, <2>2, <2>3, <2>4, CallCases
<1>4. CASE Cancel(c) /\ pc[c] = "waiting"
  BY <1>0, <1>4, CancelCases DEF LeavesQueue, Calling
<1> QED
  BY <1>1, <1>2, <1>3, <1>4 DEF Step

LEMMA OneCallLemma == LockInv => OneCallPerKey
BY DEF LockInv, OneCallPerKey

\* Nothing is stored under the key of a call but by the call itself.
LEMMA NeedStep ==
    ASSUME TypeOK, LockInv, NoNeedlessCall, NEW c \in Callers, Step(c)
    PROVE  NoNeedlessCall'
<1> SUFFICES ASSUME NEW d \in Callers, Calling(d)'
             PROVE  cache'[wants'[d]] = "absent"
  BY DEF NoNeedlessCall, Calling
<1>0. /\ pc \in [Callers -> {"idle", "waiting", "own", "fallback"}]
      /\ wants \in [Callers -> Keys]
      /\ wants[c] \in Keys /\ wants[d] \in Keys
      /\ Calling(d) => cache[wants[d]] = "absent"
  BY DEF TypeOK, NoNeedlessCall
<1>1. CASE Request(c)
  <2>1. PICK k \in Keys : AskHit(c, k) \/ AskFree(c, k) \/ AskWait(c, k)
    BY <1>1, RequestCases
  <2>2. CASE AskHit(c, k)
    BY <1>0, <2>2 DEF AskHit, Asks, Calling
  <2>3. CASE AskFree(c, k) \/ AskWait(c, k)
    <3>1. Missed(k)
      BY <2>3 DEF AskFree, AskWait
    <3>2. /\ cache'[k] = "absent"
          /\ \A j \in Keys \ {k} : cache'[j] = cache[j]
      BY <3>1, MissFacts
    <3> QED
      BY <1>0, <2>3, <3>2 DEF AskFree, AskWait, Asks, Calling
  <2> QED
    BY <2>1, <2>2, <2>3
<1>2. CASE Enter(c)
  <2>1. wants' = wants /\ (EnterHit(c) \/ EnterMiss(c))
    BY <1>2, EnterCases
  <2>2. CASE EnterHit(c)
    BY <1>0, <2>1, <2>2 DEF EnterHit, Calling
  <2>3. CASE EnterMiss(c)
    <3>1. /\ cache'[wants[c]] = "absent"
          /\ \A j \in Keys \ {wants[c]} : cache'[j] = cache[j]
      BY <1>0, <2>3, MissFacts DEF EnterMiss
    <3> QED
      BY <1>0, <2>1, <2>3, <3>1 DEF EnterMiss, Calling
  <2> QED
    BY <2>1, <2>2, <2>3
<1>3. CASE Own(c) \/ Fallback(c) \/ (Cancel(c) /\ pc[c] # "waiting")
  <2>1. wants' = wants
    BY <1>3, CallCases
  <2>2. CASE Voiced(c)
    <3>1. \A j \in Keys \ {wants[c]} : cache'[j] \in {cache[j], "absent"}
      BY <1>0, <2>2, StoreFacts DEF Voiced
    <3>2. d # c /\ Calling(d) /\ Calling(c)
      BY <1>0, <2>2 DEF Voiced, Finish, Calling
    <3>3. wants[d] # wants[c]
      BY <3>2, OneCallLemma DEF OneCallPerKey
    <3> QED
      BY <1>0, <2>1, <3>1, <3>2, <3>3
  <2>3. CASE TurnsToEnglish(c)
    BY <1>0, <2>1, <2>3 DEF TurnsToEnglish, Calling
  <2>4. ASSUME NEW a \in {"none", "english"}, Ends(c, a)
        PROVE  cache'[wants'[d]] = "absent"
    BY <1>0, <2>1, <2>4 DEF Ends, Finish, Calling
  <2> QED
    BY <1>3, <2>2, <2>3, <2>4, CallCases
<1>4. CASE Cancel(c) /\ pc[c] = "waiting"
  BY <1>0, <1>4, CancelCases DEF LeavesQueue, Calling
<1> QED
  BY <1>1, <1>2, <1>3, <1>4 DEF Step

\* What is stored was voiced in its own language.
LEMMA CacheStep ==
    ASSUME TypeOK, CacheInv, NEW c \in Callers, Step(c)
    PROVE  CacheInv'
<1> SUFFICES ASSUME NEW j \in Keys, cache'[j] # "absent"
             PROVE  cache'[j] = "own" /\ j \in voiced'
  BY DEF CacheInv
<1>0. /\ wants[c] \in Keys
      /\ cache[j] # "absent" => cache[j] = "own" /\ j \in voiced
  BY DEF TypeOK, CacheInv
<1>1. CASE Request(c)
  <2>1. PICK k \in Keys : AskHit(c, k) \/ AskFree(c, k) \/ AskWait(c, k)
    BY <1>1, RequestCases
  <2>2. CASE AskHit(c, k)
    BY <1>0, <2>2 DEF AskHit, Asks
  <2>3. CASE AskFree(c, k) \/ AskWait(c, k)
    <3>1. Missed(k) /\ voiced' = voiced
      BY <2>3 DEF AskFree, AskWait, Asks
    <3> QED
      BY <1>0, <3>1, MissFacts
  <2> QED
    BY <2>1, <2>2, <2>3
<1>2. CASE Enter(c)
  <2>1. voiced' = voiced /\ (EnterHit(c) \/ EnterMiss(c))
    BY <1>2, EnterCases
  <2>2. CASE EnterHit(c)
    BY <1>0, <2>1, <2>2 DEF EnterHit
  <2>3. CASE EnterMiss(c)
    BY <1>0, <2>1, <2>3, MissFacts DEF EnterMiss
  <2> QED
    BY <2>1, <2>2, <2>3
<1>3. CASE Own(c) \/ Fallback(c) \/ (Cancel(c) /\ pc[c] # "waiting")
  <2>2. CASE Voiced(c)
    BY <1>0, <2>2, StoreFacts DEF Voiced
  <2>3. CASE TurnsToEnglish(c)
    BY <1>0, <2>3 DEF TurnsToEnglish
  <2>4. ASSUME NEW a \in {"none", "english"}, Ends(c, a)
        PROVE  cache'[j] = "own" /\ j \in voiced'
    BY <1>0, <2>4 DEF Ends
  <2> QED
    BY <1>3, <2>2, <2>3, <2>4, CallCases
<1>4. CASE Cancel(c) /\ pc[c] = "waiting"
  BY <1>0, <1>4, CancelCases DEF LeavesQueue
<1> QED
  BY <1>1, <1>2, <1>3, <1>4 DEF Step

\* English is only tried for who puts up with it.
LEMMA FallbackStep ==
    ASSUME TypeOK, FallbackInv, NEW c \in Callers, Step(c)
    PROVE  FallbackInv'
<1> SUFFICES ASSUME NEW d \in Callers, pc'[d] = "fallback"
             PROVE  MayFallBack(d)'
  BY DEF FallbackInv
<1>0. /\ pc \in [Callers -> {"idle", "waiting", "own", "fallback"}]
      /\ wants \in [Callers -> Keys]
      /\ pc[d] = "fallback" => MayFallBack(d)
  BY DEF TypeOK, FallbackInv
<1>1. CASE Request(c)
  <2>1. PICK k \in Keys : AskHit(c, k) \/ AskFree(c, k) \/ AskWait(c, k)
    BY <1>1, RequestCases
  <2>2. Asks(c, k) /\ d # c /\ pc'[d] = pc[d]
    BY <1>0, <2>1 DEF AskHit, AskFree, AskWait, Asks
  <2> QED
    BY <1>0, <2>2 DEF Asks, MayFallBack
<1>2. CASE Enter(c)
  <2>1. wants' = wants /\ lenient' = lenient /\ (EnterHit(c) \/ EnterMiss(c))
    BY <1>2, EnterCases
  <2> QED
    BY <1>0, <2>1 DEF EnterHit, EnterMiss, MayFallBack
<1>3. CASE Own(c) \/ Fallback(c) \/ (Cancel(c) /\ pc[c] # "waiting")
  <2>1. wants' = wants /\ lenient' = lenient
    BY <1>3, CallCases
  <2>2. CASE Voiced(c)
    BY <1>0, <2>1, <2>2 DEF Voiced, Finish, MayFallBack
  <2>3. CASE TurnsToEnglish(c)
    BY <1>0, <2>1, <2>3 DEF TurnsToEnglish, MayFallBack
  <2>4. ASSUME NEW a \in {"none", "english"}, Ends(c, a)
        PROVE  MayFallBack(d)'
    BY <1>0, <2>1, <2>4 DEF Ends, Finish, MayFallBack
  <2> QED
    BY <1>3, <2>2, <2>3, <2>4, CallCases
<1>4. CASE Cancel(c) /\ pc[c] = "waiting"
  BY <1>0, <1>4, CancelCases DEF LeavesQueue, MayFallBack
<1> QED
  BY <1>1, <1>2, <1>3, <1>4 DEF Step

LEMMA Inductive == IInv /\ [Next]_vars => IInv'
<1> SUFFICES ASSUME IInv, [Next]_vars PROVE IInv'
  OBVIOUS
<1>1. CASE UNCHANGED vars
  BY <1>1 DEF vars, lock, request, IInv, TypeOK, LockInv, NoNeedlessCall, CacheInv,
              FallbackInv, Calling, MayFallBack
<1>2. ASSUME NEW c \in Callers, Step(c)
      PROVE  IInv'
  BY <1>2, TypeStep, LockStep, NeedStep, CacheStep, FallbackStep DEF IInv
<1> QED
  BY <1>1, <1>2 DEF Next, Step

LEMMA Invariance == Spec => []IInv
BY InitInv, Inductive, PTL DEF Spec

-----------------------------------------------------------------------------
\* Every variable keeps its type: in particular the queues hold callers only.
THEOREM TypeCorrect == Spec => []TypeOK
<1>1. IInv => TypeOK
  BY DEF IInv
<1> QED
  BY <1>1, Invariance, PTL

\* Of any number of tasks that want one text, one at a time calls the provider.
THEOREM OneCall == Spec => []OneCallPerKey
<1>1. IInv => OneCallPerKey
  BY OneCallLemma DEF IInv
<1> QED
  BY <1>1, Invariance, PTL

\* And none calls it for what is stored by then.
THEOREM NoneNeedless == Spec => []NoNeedlessCall
<1>1. IInv => NoNeedlessCall
  BY DEF IInv
<1> QED
  BY <1>1, Invariance, PTL

-----------------------------------------------------------------------------
(* The refinement *)

Busy == {c \in Callers : pc[c] # "idle"}

\* How a step of a caller changes who is busy.
LEMMA BusyFacts ==
    ASSUME pc \in [Callers -> {"idle", "waiting", "own", "fallback"}],
           NEW c \in Callers, NEW p \in {"idle", "waiting", "own", "fallback"},
           pc' = [pc EXCEPT ![c] = p]
    PROVE  Busy' = IF p = "idle" THEN Busy \ {c} ELSE Busy \cup {c}
BY DEF Busy

LEMMA AskRefines ==
    ASSUME IInv, NEW c \in Callers, Request(c)
    PROVE  Service!Ask(c)
<1>1. PICK k \in Keys : AskHit(c, k) \/ AskFree(c, k) \/ AskWait(c, k)
  BY RequestCases
<1>2. /\ pc \in [Callers -> {"idle", "waiting", "own", "fallback"}]
      /\ cache[k] # "absent" => cache[k] = "own" /\ k \in voiced
  BY DEF IInv, TypeOK, CacheInv
<1>3. /\ pc[c] = "idle" /\ c \notin Busy
      /\ wants' = [wants EXCEPT ![c] = k]
      /\ \E lenience \in {{}, {c}} : lenient' = (lenient \ {c}) \cup lenience
      /\ voiced' = voiced
  <2>1. Asks(c, k)
    BY <1>1 DEF AskHit, AskFree, AskWait
  <2>2. CASE lenient' = lenient \ {c}
    BY <2>1, <2>2 DEF Asks, Busy
  <2>3. CASE lenient' = lenient \cup {c}
    <3>1. lenient' = (lenient \ {c}) \cup {c}
      BY <2>3
    <3> QED
      BY <2>1, <3>1 DEF Asks, Busy
  <2> QED
    BY <2>1, <2>2, <2>3 DEF Asks
<1>4. \/ /\ Busy' = Busy \cup {c}
         /\ answer' = [answer EXCEPT ![c] = "none"]
      \/ /\ k \in voiced
         /\ Busy' = Busy
         /\ answer' = [answer EXCEPT ![c] = "own"]
  <2>1. CASE AskHit(c, k)
    BY <1>2, <2>1 DEF AskHit, Busy
  <2>2. CASE AskFree(c, k)
    BY <1>2, <2>2, BusyFacts DEF AskFree
  <2>3. CASE AskWait(c, k)
    BY <1>2, <2>3, BusyFacts DEF AskWait
  <2> QED
    BY <1>1, <2>1, <2>2, <2>3
<1> QED
  BY <1>3, <1>4 DEF Service!Ask, Busy

\* The step of a caller that ends its request with answer a.
LEMMA AnswerRefines ==
    ASSUME TypeOK, NEW c \in Callers, NEW a, pc[c] # "idle",
           pc' = [pc EXCEPT ![c] = "idle"],
           answer' = [answer EXCEPT ![c] = a],
           wants' = wants, lenient' = lenient
    PROVE  Service!Answer(c, a)
<1>1. pc \in [Callers -> {"idle", "waiting", "own", "fallback"}]
  BY DEF TypeOK
<1>2. c \in Busy /\ Busy' = Busy \ {c}
  BY <1>1, BusyFacts DEF Busy
<1> QED
  BY <1>2 DEF Service!Answer, Busy

LEMMA StepRefines ==
    ASSUME IInv, NEW c \in Callers, Step(c)
    PROVE  \/ Service!Ask(c) \/ Service!Voice(c) \/ Service!Recall(c)
           \/ Service!Substitute(c) \/ Service!GiveUp(c)
           \/ UNCHANGED <<Busy, wants, lenient, answer, voiced>>
<1>0. /\ TypeOK
      /\ pc \in [Callers -> {"idle", "waiting", "own", "fallback"}]
      /\ wants[c] \in Keys
      /\ cache[wants[c]] # "absent" => cache[wants[c]] = "own" /\ wants[c] \in voiced
      /\ pc[c] = "fallback" => MayFallBack(c)
  BY DEF IInv, TypeOK, CacheInv, FallbackInv
<1>1. CASE Request(c)
  BY <1>1, AskRefines
<1>2. CASE Enter(c)
  <2>1. /\ pc[c] = "waiting"
        /\ wants' = wants /\ lenient' = lenient /\ voiced' = voiced
        /\ EnterHit(c) \/ EnterMiss(c)
    BY <1>2, EnterCases
  <2>2. CASE EnterHit(c)
    <3>1. wants[c] \in voiced /\ Service!Answer(c, "own")
      BY <1>0, <2>1, <2>2, AnswerRefines DEF EnterHit
    <3> QED
      BY <2>1, <3>1 DEF Service!Recall
  <2>3. CASE EnterMiss(c)
    <3>1. Busy' = Busy
      BY <1>0, <2>1, <2>3 DEF EnterMiss, Busy
    <3> QED
      BY <2>1, <2>3, <3>1 DEF EnterMiss
  <2> QED
    BY <2>1, <2>2, <2>3
<1>3. CASE Own(c) \/ Fallback(c) \/ (Cancel(c) /\ pc[c] # "waiting")
  <2>1. wants' = wants /\ lenient' = lenient
    BY <1>3, CallCases
  <2>2. CASE Voiced(c)
    <3>1. Service!Answer(c, "own")
      BY <1>0, <2>1, <2>2, AnswerRefines DEF Voiced, Finish
    <3> QED
      BY <2>2, <3>1 DEF Voiced, Service!Voice
  <2>3. CASE TurnsToEnglish(c)
    <3>1. Busy' = Busy
      BY <1>0, <2>3 DEF TurnsToEnglish, Busy
    <3> QED
      BY <2>1, <2>3, <3>1 DEF TurnsToEnglish
  <2>4. CASE Ends(c, "none")
    <3>1. Service!Answer(c, "none")
      BY <1>0, <2>1, <2>4, AnswerRefines DEF Ends, Calling, Finish
    <3> QED
      BY <2>4, <3>1 DEF Ends, Service!GiveUp
  <2>5. CASE Ends(c, "english") /\ pc[c] = "fallback"
    <3>1. Service!Answer(c, "english")
      BY <1>0, <2>1, <2>5, AnswerRefines DEF Ends, Calling, Finish
    <3> QED
      BY <1>0, <2>5, <3>1 DEF Ends, MayFallBack, Service!Substitute
  <2> QED
    BY <1>3, <2>2, <2>3, <2>4, <2>5, CallCases
<1>4. CASE Cancel(c) /\ pc[c] = "waiting"
  <2>1. LeavesQueue(c)
    BY <1>4, CancelCases
  <2>2. Service!Answer(c, "none")
    BY <1>0, <2>1, AnswerRefines DEF LeavesQueue
  <2> QED
    BY <2>1, <2>2 DEF LeavesQueue, Service!GiveUp
<1> QED
  BY <1>1, <1>2, <1>3, <1>4 DEF Step

\* What callers are told is what the service promises: the audio of their text in
\* their language, English for those that put up with it, or nothing.
THEOREM Refinement == Spec => Promised
<1>1. Init => Service!Init
  BY DEF Init, Service!Init
<1>2. IInv /\ [Next]_vars => [Service!Next]_(Service!vars)
  <2> SUFFICES ASSUME IInv, [Next]_vars
               PROVE  Service!Next \/ UNCHANGED Service!vars
    OBVIOUS
  <2>1. CASE UNCHANGED vars
    BY <2>1 DEF vars, request, Service!vars
  <2>2. ASSUME NEW c \in Callers, Step(c)
        PROVE  Service!Next \/ UNCHANGED Service!vars
    BY <2>2, StepRefines DEF Service!Next, Service!vars, Busy
  <2> QED
    BY <2>1, <2>2 DEF Next, Step
<1> QED
  BY <1>1, <1>2, Invariance, PTL DEF Spec, Promised, Service!Spec
=============================================================================
