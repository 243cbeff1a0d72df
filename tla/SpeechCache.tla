----------------------------- MODULE SpeechCache -----------------------------
(***************************************************************************)
(* Synthesis of speech (tts_to_base64_cached in app/main.py).  The audio of*)
(* a text is remembered; of several tasks that want the same text one calls*)
(* the provider, under a lock that belongs to the text, and the others wait*)
(* their turn and look again.  A text that cannot be had in its language is*)
(* voiced in English for callers that put up with it, and only for them.   *)
(*                                                                         *)
(* Code between two awaits is atomic.  asyncio.Lock hands over in order of *)
(* arrival, to newcomers too.  A caller may be cancelled at any await: its *)
(* deadline has passed or its turn was superseded.  The cache              *)
(* (utils/cache.py) forgets by age, which may strike at any look, and when *)
(* it is full; which entry makes room is left open.                        *)
(***************************************************************************)
EXTENDS Naturals, SequencesExt

CONSTANTS Callers, Keys, English,
          MaxSize,   \* capacity of TTS_CACHE
          Nobody     \* no caller

ASSUME SpeechAssumption ==
    /\ English \subseteq Keys
    /\ MaxSize \in Nat \ {0}
    /\ Nobody \notin Callers

VARIABLES
    pc,       \* where a caller's request is
    wants,    \* the key it asked for
    lenient,  \* callers with allow_english_fallback
    answer,   \* what a caller was answered last
    cache,    \* TTS_CACHE: what is stored under a key
    holder,   \* _singleflight_locks: who holds the lock of a key ...
    queue,    \* ... and who waits for it
    voiced    \* history variable: keys that the provider has voiced

request == <<wants, lenient>>
lock == <<holder, queue>>
vars == <<pc, request, answer, cache, lock, voiced>>

TypeOK ==
    /\ pc \in [Callers -> {"idle", "waiting", "own", "fallback"}]
    /\ wants \in [Callers -> Keys]
    /\ lenient \subseteq Callers
    /\ answer \in [Callers -> {"none", "own", "english"}]
    /\ cache \in [Keys -> {"absent", "own", "english"}]
    /\ holder \in [Keys -> Callers \cup {Nobody}]
    /\ queue \in [Keys -> Seq(Callers)]
    /\ voiced \subseteq Keys

Init ==
    /\ pc = [c \in Callers |-> "idle"]
    /\ wants \in [Callers -> Keys]
    /\ lenient = {}
    /\ answer = [c \in Callers |-> "none"]
    /\ cache = [k \in Keys |-> "absent"]
    /\ holder = [k \in Keys |-> Nobody]
    /\ queue = [k \in Keys |-> <<>>]
    /\ voiced = {}

-----------------------------------------------------------------------------
(* TTLRUCache *)

Entries == {k \in Keys : cache[k] # "absent"}

\* get that finds nothing: an entry that is too old is dropped.
Missed(k) == cache' = [cache EXCEPT ![k] = "absent"]

\* set, which drops another entry if there are too many.
Store(k, a) ==
    IF Cardinality(Entries \cup {k}) <= MaxSize
    THEN cache' = [cache EXCEPT ![k] = a]
    ELSE \E old \in Entries \ {k} :
            cache' = [cache EXCEPT ![k] = a, ![old] = "absent"]

-----------------------------------------------------------------------------
(* tts_to_base64_cached *)

Free(k) == holder[k] = Nobody /\ queue[k] = <<>>

\* A caller leaves the queue it waits in.
Leave(c) ==
    \E i \in DOMAIN queue[wants[c]] :
        /\ queue[wants[c]][i] = c
        /\ queue' = [queue EXCEPT ![wants[c]] = RemoveAt(@, i)]

\* The request is over, and the lock released.
Finish(c, a) ==
    /\ pc' = [pc EXCEPT ![c] = "idle"]
    /\ answer' = [answer EXCEPT ![c] = a]
    /\ holder' = [holder EXCEPT ![wants[c]] = Nobody]

\* A caller asks: the cache answers, or the lock is free, or it has to wait.
Request(c) ==
    /\ pc[c] = "idle"
    /\ \E k \in Keys, lenience \in {{}, {c}} :
          /\ wants' = [wants EXCEPT ![c] = k]
          /\ lenient' = (lenient \ {c}) \cup lenience
          /\ \/ /\ cache[k] # "absent"
                /\ answer' = [answer EXCEPT ![c] = cache[k]]
                /\ UNCHANGED <<pc, cache, lock>>
             \/ /\ Missed(k)
                /\ answer' = [answer EXCEPT ![c] = "none"]
                /\ IF Free(k)
                   THEN /\ pc' = [pc EXCEPT ![c] = "own"]
                        /\ holder' = [holder EXCEPT ![k] = c]
                        /\ UNCHANGED queue
                   ELSE /\ pc' = [pc EXCEPT ![c] = "waiting"]
                        /\ queue' = [queue EXCEPT ![k] = Append(@, c)]
                        /\ UNCHANGED holder
    /\ UNCHANGED voiced

\* Mutant: the cache is not looked at again under the lock.
EnterAtOnce(c) ==
    /\ pc[c] = "waiting"
    /\ holder[wants[c]] = Nobody
    /\ queue[wants[c]] # <<>> /\ Head(queue[wants[c]]) = c
    /\ queue' = [queue EXCEPT ![wants[c]] = Tail(@)]
    /\ pc' = [pc EXCEPT ![c] = "own"]
    /\ holder' = [holder EXCEPT ![wants[c]] = c]
    /\ UNCHANGED <<request, answer, cache, voiced>>

\* The first that waits gets the lock and looks again.
Enter(c) ==
    /\ pc[c] = "waiting"
    /\ holder[wants[c]] = Nobody
    /\ queue[wants[c]] # <<>> /\ Head(queue[wants[c]]) = c
    /\ queue' = [queue EXCEPT ![wants[c]] = Tail(@)]
    /\ \/ /\ cache[wants[c]] # "absent"
          /\ pc' = [pc EXCEPT ![c] = "idle"]
          /\ answer' = [answer EXCEPT ![c] = cache[wants[c]]]
          /\ UNCHANGED <<cache, holder>>
       \/ /\ Missed(wants[c])
          /\ pc' = [pc EXCEPT ![c] = "own"]
          /\ holder' = [holder EXCEPT ![wants[c]] = c]
          /\ UNCHANGED answer
    /\ UNCHANGED <<request, voiced>>

MayFallBack(c) == wants[c] \notin English /\ c \in lenient

\* Mutant: the lock is kept when there was nothing to store.
OwnKeepsLock(c) ==
    /\ pc[c] = "own"
    /\ \/ /\ Store(wants[c], "own")
          /\ voiced' = voiced \cup {wants[c]}
          /\ Finish(c, "own")
       \/ /\ MayFallBack(c)
          /\ pc' = [pc EXCEPT ![c] = "fallback"]
          /\ UNCHANGED <<answer, cache, holder, voiced>>
       \/ /\ ~MayFallBack(c)
          /\ pc' = [pc EXCEPT ![c] = "idle"]
          /\ answer' = [answer EXCEPT ![c] = "none"]
          /\ UNCHANGED <<cache, holder, voiced>>
    /\ UNCHANGED <<request, queue>>

\* The provider has answered in the language asked for, or failed or timed out.
Own(c) ==
    /\ pc[c] = "own"
    /\ \/ /\ Store(wants[c], "own")
          /\ voiced' = voiced \cup {wants[c]}
          /\ Finish(c, "own")
       \/ /\ MayFallBack(c)
          /\ pc' = [pc EXCEPT ![c] = "fallback"]
          /\ UNCHANGED <<answer, cache, holder, voiced>>
       \/ /\ ~MayFallBack(c)
          /\ Finish(c, "none")
          /\ UNCHANGED <<cache, voiced>>
    /\ UNCHANGED <<request, queue>>

\* Mutant: the English audio is stored under the key of the other language.
FallbackStored(c) ==
    /\ pc[c] = "fallback"
    /\ \/ Finish(c, "english") /\ Store(wants[c], "english")
       \/ Finish(c, "none") /\ UNCHANGED cache
    /\ UNCHANGED <<request, queue, voiced>>

\* So has the provider of the English fallback, which is never stored.
Fallback(c) ==
    /\ pc[c] = "fallback"
    /\ \E a \in {"english", "none"} : Finish(c, a)
    /\ UNCHANGED <<request, cache, queue, voiced>>

\* Mutant: a caller that gives up frees the lock, which may not be its own.
CancelFrees(c) ==
    /\ pc[c] # "idle"
    /\ Finish(c, "none")
    /\ \/ pc[c] = "waiting" /\ Leave(c)
       \/ pc[c] # "waiting" /\ UNCHANGED queue
    /\ UNCHANGED <<request, cache, voiced>>

\* CancelledError at the await: the lock, or the place in the queue, is given up.
Cancel(c) ==
    /\ \/ /\ pc[c] = "waiting"
          /\ pc' = [pc EXCEPT ![c] = "idle"]
          /\ answer' = [answer EXCEPT ![c] = "none"]
          /\ Leave(c)
          /\ UNCHANGED holder
       \/ /\ pc[c] \in {"own", "fallback"}
          /\ Finish(c, "none")
          /\ UNCHANGED queue
    /\ UNCHANGED <<request, cache, voiced>>

-----------------------------------------------------------------------------
Next == \E c \in Callers :
            Request(c) \/ Enter(c) \/ Own(c) \/ Fallback(c) \/ Cancel(c)

Spec == Init /\ [][Next]_vars

\* The event loop runs who holds a lock or is next to, and a call of the provider
\* ends within its timeout.
Fairness == \A c \in Callers : WF_vars(Enter(c)) /\ WF_vars(Own(c) \/ Fallback(c))

FairSpec == Spec /\ Fairness

-----------------------------------------------------------------------------
Calling(c) == pc[c] \in {"own", "fallback"}

\* However calls fail and callers are cancelled in the queue or at the provider,
\* one text is never voiced twice at the same time (_singleflight_lock_for).
OneCallPerKey ==
    \A c, d \in Callers :
        Calling(c) /\ Calling(d) /\ wants[c] = wants[d] => c = d

\* Nor is the provider asked for what somebody stored in the meantime: who had to
\* wait looks again under the lock.
NoNeedlessCall == \A c \in Callers : Calling(c) => cache[wants[c]] = "absent"

\* Every request ends, whoever else fails, gives up or asks again: the lock is
\* handed on by each way out of `async with key_lock`.
EveryRequestEnds == \A c \in Callers : pc[c] # "idle" ~> pc[c] = "idle"

\* What a caller hears is the provider's audio for its text and language, or
\* English if it put up with it: English is never passed on to a caller that asked
\* for the language only ("card clips mark FAILED instead of speaking English",
\* docs/M5_3_TTS_TURN_FINAL_REPORT.md).
Service == INSTANCE SpeechService
               WITH busy <- {c \in Callers : pc[c] # "idle"}

Promised == Service!Spec
=============================================================================
