---------------------------- MODULE SpeechService ----------------------------
(***************************************************************************)
(* What the rest of the backend may rely on when it asks for the audio of a*)
(* text: the answer is the provider's audio for that very text in that very*)
(* language; or its English audio, if the caller put up with it; or none.  *)
(* How calls are shared, and what is remembered, is left open.             *)
(***************************************************************************)
CONSTANTS
    Callers,   \* tasks that ask for audio
    Keys,      \* texts in a language, with voice, pace and model
    English    \* the keys whose language is English

VARIABLES
    busy,      \* callers that wait for their answer
    wants,     \* the key a caller asked for last
    lenient,   \* callers that put up with English (allow_english_fallback)
    answer,    \* the answer a caller got last
    voiced     \* keys that the provider has voiced so far

vars == <<busy, wants, lenient, answer, voiced>>

Init ==
    /\ busy = {}
    /\ wants \in [Callers -> Keys]
    /\ lenient = {}
    /\ answer = [c \in Callers |-> "none"]
    /\ voiced = {}

\* A caller asks, and may be answered at once with what was voiced before.
Ask(c) ==
    /\ c \notin busy
    /\ \E k \in Keys, lenience \in {{}, {c}} :
          /\ wants' = [wants EXCEPT ![c] = k]
          /\ lenient' = (lenient \ {c}) \cup lenience
          /\ \/ /\ busy' = busy \cup {c}
                /\ answer' = [answer EXCEPT ![c] = "none"]
             \/ /\ k \in voiced
                /\ busy' = busy
                /\ answer' = [answer EXCEPT ![c] = "own"]
    /\ UNCHANGED voiced

Answer(c, a) ==
    /\ c \in busy
    /\ busy' = busy \ {c}
    /\ answer' = [answer EXCEPT ![c] = a]
    /\ UNCHANGED <<wants, lenient>>

Voice(c) == Answer(c, "own") /\ voiced' = voiced \cup {wants[c]}

Recall(c) == wants[c] \in voiced /\ Answer(c, "own") /\ UNCHANGED voiced

Substitute(c) ==
    /\ c \in lenient
    /\ wants[c] \notin English
    /\ Answer(c, "english")
    /\ UNCHANGED voiced

GiveUp(c) == Answer(c, "none") /\ UNCHANGED voiced

Next == \E c \in Callers :
            Ask(c) \/ Voice(c) \/ Recall(c) \/ Substitute(c) \/ GiveUp(c)

Spec == Init /\ [][Next]_vars
=============================================================================
